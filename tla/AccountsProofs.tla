--------------------------- MODULE AccountsProofs ---------------------------
(***************************************************************************)
(* Theorems about Accounts and Access, for any callers, clerks, roles,     *)
(* modules, limits, calls and crashes.                                     *)
(***************************************************************************)
EXTENDS Accounts, Access, FiniteSetTheorems, SequenceTheorems, TLAPS

(***************************************************************************)
(* The inductive invariant.                                                *)
(***************************************************************************)
UserFits ==
  /\ user \in User
  /\ user.attempts =< MaxAttempts

\* No session began under a password that is yet to come.
SessionsFit ==
  /\ sessions \in Seq(Session)
  /\ \A i \in DOMAIN sessions : sessions[i].since =< user.password
  /\ excused \subseteq Nat

\* A wrong answer that is about to be written was given within the limit.
RequestsFit ==
  /\ request \in [Callers -> Request]
  /\ \A c \in Callers : request[c].step = "miss" => request[c].attempts =< MaxAttempts
  /\ requests \in 0 .. MaxCalls
  /\ failures \in 0 .. MaxCrashes

\* A row made under a password that was reset is ended, or about to be.
RowsAreEnded ==
  \A i \in Current :
    \/ sessions[i].since = user.password
    \/ sessions[i].since \in excused
    \/ \E c \in Callers : request[c].step = "signOut"

AccountsInv == UserFits /\ SessionsFit /\ RequestsFit /\ RowsAreEnded

LEMMA AccountsInvImplies == AccountsInv => AccountsTypeOK
BY DEF AccountsInv, UserFits, SessionsFit, RequestsFit, AccountsTypeOK

\* What a call in flight carries.
LEMMA RequestFields ==
  ASSUME NEW r \in Request
  PROVE  /\ r.step \in {"list", "open", "end"} => r.checked \in Nat
         /\ r.step = "end" => r.oldest \subseteq Nat \ {0}
         /\ r.step = "renew" => r.session \in Nat \ {0}
         /\ r.step = "miss" => r.attempts \in Nat
         /\ r.step = "edit" => r.roles \subseteq Roles /\ r.status \in UserStatus
<1> USE DEF Request, NoRequest
<1>1. r.step = "end" => r.oldest \subseteq Nat \ {0}
  OBVIOUS
<1>2. r.step = "renew" => r.session \in Nat \ {0}
  OBVIOUS
<1>3. r.step = "miss" => r.attempts \in Nat
  OBVIOUS
<1>4. r.step = "edit" => r.roles \subseteq Roles /\ r.status \in UserStatus
  OBVIOUS
<1>5. r.step \in {"list", "open", "end"} => r.checked \in Nat
  OBVIOUS
<1>6. QED
  BY <1>1, <1>2, <1>3, <1>4, <1>5

LEMMA SessionFields ==
  ASSUME SessionsFit
  PROVE  /\ Len(sessions) \in Nat
         /\ DOMAIN sessions = 1 .. Len(sessions)
         /\ \A i \in DOMAIN sessions :
              /\ sessions[i] \in Session
              /\ sessions[i].since \in Nat
              /\ sessions[i].checked \in Nat
<1>1. sessions \in Seq(Session)
  BY DEF SessionsFit
<1>2. \A i \in DOMAIN sessions : sessions[i] \in Session
  BY <1>1
<1>3. QED
  BY <1>1, <1>2 DEF Session

LEMMA StepsAreRequests ==
  ASSUME NEW s \in {"enable", "code", "set", "change", "signOut"}
  PROVE  Step(s) \in Request /\ Step(s).step = s
<1>1. Step(s) \in [step : {"enable", "code", "set", "change", "signOut"}]
  BY DEF Step
<1>2. QED
  BY <1>1 DEF Request, Step

LEMMA LoginStepsAreRequests ==
  ASSUME NEW s \in {"list", "open"}, NEW p \in Nat
  PROVE  /\ LoginStep(s, p) \in Request
         /\ LoginStep(s, p).step = s /\ LoginStep(s, p).checked = p
<1>1. LoginStep(s, p) \in [step : {"list", "open"}, checked : Nat]
  BY DEF LoginStep
<1>2. QED
  BY <1>1 DEF Request, LoginStep

\* What a login that is under way carries.
LEMMA LoginCarries ==
  ASSUME RequestsFit, NEW c \in Callers, request[c].step \in {"list", "open", "end"}
  PROVE  request[c].checked \in Nat
BY RequestFields DEF RequestsFit

LEMMA IdleIsRequest == NoRequest \in Request /\ NoRequest.step = "idle"
BY DEF Request, NoRequest

(***************************************************************************)
(* What a step does to requests, sessions and the user.                    *)
(***************************************************************************)
\* A call goes on to a state that fits.
LEMMA GoesFits ==
  ASSUME RequestsFit, NEW c \in Callers, NEW to \in Request, Goes(c, to),
         to.step = "miss" => to.attempts =< MaxAttempts,
         requests' \in 0 .. MaxCalls, UNCHANGED failures
  PROVE  /\ RequestsFit'
         /\ request'[c] = to
         /\ \A x \in Callers : x # c => request'[x] = request[x]
<1>1. request' = [request EXCEPT ![c] = to] /\ request \in [Callers -> Request]
  BY DEF Goes, RequestsFit
<1>2. /\ request' \in [Callers -> Request]
      /\ request'[c] = to
      /\ \A x \in Callers : x # c => request'[x] = request[x]
  BY <1>1
<1>3. \A x \in Callers : request'[x].step = "miss" => request'[x].attempts =< MaxAttempts
  BY <1>2 DEF RequestsFit
<1>4. QED
  BY <1>2, <1>3 DEF RequestsFit

LEMMA BeginsFits ==
  ASSUME RequestsFit, NEW c \in Callers, NEW to \in Request, Begins(c, to),
         to.step = "miss" => to.attempts =< MaxAttempts
  PROVE  /\ RequestsFit'
         /\ request[c] = NoRequest
         /\ request'[c] = to
         /\ \A x \in Callers : x # c => request'[x] = request[x]
<1>1. requests' \in 0 .. MaxCalls
  BY AccountsAssumption DEF Begins, RequestsFit
<1>2. QED
  BY <1>1, GoesFits DEF Begins

LEMMA ContinuesFits ==
  ASSUME RequestsFit, NEW c \in Callers, NEW s, NEW to \in Request, Continues(c, s, to),
         to.step # "miss"
  PROVE  /\ RequestsFit'
         /\ request[c].step = s /\ request[c] \in Request
         /\ request'[c] = to
         /\ \A x \in Callers : x # c => request'[x] = request[x]
<1>1. requests' \in 0 .. MaxCalls
  BY DEF Continues, RequestsFit
<1>2. QED
  BY <1>1, GoesFits DEF Continues, RequestsFit

\* Sessions are added to, and those that are not current do not become so.
SessionsFall ==
  /\ sessions' \in Seq(Session)
  /\ DOMAIN sessions \subseteq DOMAIN sessions'
  /\ \A i \in DOMAIN sessions :
       /\ sessions'[i].since = sessions[i].since
       /\ sessions'[i].checked = sessions[i].checked
       /\ sessions[i].status # "current" => sessions'[i].status # "current"
  /\ \A i \in DOMAIN sessions' : i \in DOMAIN sessions \/ sessions'[i].since = user.password

LEMMA SameSessions ==
  ASSUME SessionsFit, UNCHANGED sessions
  PROVE  SessionsFall
BY DEF SessionsFit, SessionsFall

\* Rows are written in place: a row that is not current does not become so.
LEMMA RewrittenFall ==
  ASSUME SessionsFit,
         sessions' = [i \in DOMAIN sessions |-> sessions'[i]],
         \A i \in DOMAIN sessions :
           /\ sessions'[i] \in Session
           /\ sessions'[i].since = sessions[i].since
           /\ sessions'[i].checked = sessions[i].checked
           /\ sessions[i].status # "current" => sessions'[i].status # "current"
  PROVE  SessionsFall
<1>1. DOMAIN sessions = 1 .. Len(sessions) /\ Len(sessions) \in Nat
  BY SessionFields
<1>2. sessions' \in [1 .. Len(sessions) -> Session] /\ DOMAIN sessions' = DOMAIN sessions
  BY <1>1
<1>3. sessions' \in Seq(Session)
  BY <1>1, <1>2
<1>4. QED
  BY <1>2, <1>3 DEF SessionsFall

\* Sessions fit as long as the password does not go back.
LEMMA FallFits ==
  ASSUME UserFits, UserFits', SessionsFit, SessionsFall, user'.password >= user.password,
         excused' \subseteq Nat
  PROVE  SessionsFit'
<1>1. user.password \in Nat /\ user'.password \in Nat
  BY DEF UserFits, User
<1>2. \A i \in DOMAIN sessions : sessions[i].since \in Nat /\ sessions[i].since =< user.password
  BY SessionFields DEF SessionsFit
<1>3. \A i \in DOMAIN sessions' : sessions'[i].since =< user'.password
  BY <1>1, <1>2 DEF SessionsFall
<1>4. QED
  BY <1>3 DEF SessionsFit, SessionsFall

\* No new password, and whoever has sessions to end still has.
LEMMA QuietFits ==
  ASSUME AccountsInv, UserFits', RequestsFit', SessionsFall,
         user'.password = user.password, UNCHANGED excused,
         \A x \in Callers : request[x].step = "signOut" => request'[x].step = "signOut"
  PROVE  AccountsInv'
<1>1. user.password \in Nat
  BY DEF AccountsInv, UserFits, User
<1>2. SessionsFit'
  BY <1>1, FallFits DEF AccountsInv, SessionsFit
<1>3. RowsAreEnded'
  <2> SUFFICES ASSUME NEW i \in DOMAIN sessions', sessions'[i].status = "current"
               PROVE  \/ sessions'[i].since = user'.password
                      \/ sessions'[i].since \in excused'
                      \/ \E c \in Callers : request'[c].step = "signOut"
    BY DEF RowsAreEnded, Current
  <2>1. CASE i \in DOMAIN sessions
    <3>1. i \in Current /\ sessions'[i].since = sessions[i].since
      BY <2>1 DEF SessionsFall, Current
    <3>2. QED
      BY <3>1 DEF AccountsInv, RowsAreEnded
  <2>2. CASE i \notin DOMAIN sessions
    BY <2>2 DEF SessionsFall
  <2>3. QED
    BY <2>1, <2>2
<1>4. QED
  BY <1>2, <1>3 DEF AccountsInv

\* After a new password, its sessions are to be ended or the last one is excused.
LEMMA NewPasswordFits ==
  ASSUME AccountsInv, UserFits', RequestsFit', UNCHANGED sessions,
         user'.password = user.password + 1,
         \/ /\ excused' = excused \cup {user.password}
            /\ \A x \in Callers : request[x].step = "signOut" => request'[x].step = "signOut"
         \/ /\ excused' = excused
            /\ \E c \in Callers : request'[c].step = "signOut"
  PROVE  AccountsInv'
<1>1. user.password \in Nat
  BY DEF AccountsInv, UserFits, User
<1>2. SessionsFall
  BY SameSessions DEF AccountsInv
<1>3. excused' \subseteq Nat
  BY <1>1 DEF AccountsInv, SessionsFit
<1>4. SessionsFit'
  BY <1>1, <1>2, <1>3, FallFits DEF AccountsInv
<1>5. RowsAreEnded'
  BY DEF AccountsInv, RowsAreEnded, Current
<1>6. QED
  BY <1>4, <1>5 DEF AccountsInv

LEMMA SignsOutFall ==
  ASSUME SessionsFit, SignsOut
  PROVE  SessionsFall /\ Current' = {}
<1> DEFINE Row(i) == IF AllEnded(i) THEN EndedRow(sessions[i]) ELSE sessions[i]
<1>1. sessions' = [i \in DOMAIN sessions |-> Row(i)]
  BY DEF SignsOut
<1>2. ASSUME NEW i \in DOMAIN sessions
      PROVE  /\ Row(i) \in Session
             /\ Row(i).since = sessions[i].since
             /\ Row(i).checked = sessions[i].checked
             /\ Row(i).status # "current"
  <2>1. sessions[i] \in Session
    BY SessionFields
  <2>2. /\ EndedRow(sessions[i]) \in Session
        /\ EndedRow(sessions[i]).since = sessions[i].since
        /\ EndedRow(sessions[i]).checked = sessions[i].checked
        /\ EndedRow(sessions[i]).status = "ended"
    BY <2>1 DEF EndedRow, Session, SessionStatus
  <2>3. AllEnded(i) <=> sessions[i].status = "current"
    BY DEF AllEnded, Current
  <2>4. QED
    BY <2>1, <2>2, <2>3
<1> HIDE DEF Row
<1>3. SessionsFall
  BY <1>1, <1>2, RewrittenFall
<1>4. Current' = {}
  BY <1>1, <1>2 DEF Current
<1>5. QED
  BY <1>3, <1>4

LEMMA SignsOutFits ==
  ASSUME AccountsInv, UserFits', RequestsFit', user'.password = user.password, SignsOut
  PROVE  AccountsInv'
<1>1. SessionsFall /\ Current' = {}
  BY SignsOutFall DEF AccountsInv
<1>2. user.password \in Nat /\ excused' \subseteq Nat
  BY DEF AccountsInv, UserFits, User, SignsOut
<1>3. SessionsFit'
  BY <1>1, <1>2, FallFits DEF AccountsInv
<1>4. RowsAreEnded'
  BY <1>1 DEF RowsAreEnded
<1>5. QED
  BY <1>3, <1>4 DEF AccountsInv

(***************************************************************************)
(* Calls that begin and read only.                                         *)
(***************************************************************************)
LEMMA BeginningFits ==
  ASSUME AccountsInv, UNCHANGED accountRows, NEW c \in Callers, NEW to \in Request,
         Begins(c, to), to.step = "miss" => to.attempts =< MaxAttempts
  PROVE  AccountsInv' /\ SessionsFall
<1>1. UserFits' /\ user'.password = user.password /\ UNCHANGED <<sessions, excused>>
  BY DEF AccountsInv, UserFits, accountRows
<1>2. SessionsFall
  BY <1>1, SameSessions DEF AccountsInv
<1>3. RequestsFit' /\ request[c] = NoRequest
      /\ \A x \in Callers : x # c => request'[x] = request[x]
  BY BeginsFits DEF AccountsInv
<1>4. QED
  BY <1>1, <1>2, <1>3, QuietFits, IdleIsRequest

LEMMA ReadingFits ==
  ASSUME AccountsInv, NEW c \in Callers,
         \/ \E byUser \in BOOLEAN : ReadForCode(c, byUser)
         \/ ReadForReset(c)
         \/ ReadForChange(c)
         \/ ReadForMfa(c)
  PROVE  AccountsInv' /\ SessionsFall
<1>1. PICK s \in {"code", "set", "change", "enable"} : Begins(c, Step(s))
  BY DEF ReadForCode, ReadForReset, ReadForChange, ReadForMfa
<1>2. Step(s) \in Request /\ Step(s).step # "miss"
  BY StepsAreRequests
<1>3. UNCHANGED accountRows
  BY DEF ReadForCode, ReadForReset, ReadForChange, ReadForMfa
<1>4. QED
  BY <1>1, <1>2, <1>3, BeginningFits

LEMMA ReadForLoginFits ==
  ASSUME AccountsInv, NEW c \in Callers, ReadForLogin(c)
  PROVE  AccountsInv' /\ SessionsFall
<1> DEFINE to == LoginStep("list", user.password)
<1>1. user.password \in Nat
  BY DEF AccountsInv, UserFits, User
<1>2. to \in Request /\ to.step = "list"
  BY <1>1, LoginStepsAreRequests
<1>3. Begins(c, to) /\ UNCHANGED accountRows
  BY DEF ReadForLogin
<1> HIDE DEF to
<1>4. QED
  BY <1>2, <1>3, BeginningFits

LEMMA ReadForRefreshFits ==
  ASSUME AccountsInv, NEW c \in Callers, NEW i \in DOMAIN sessions, ReadForRefresh(c, i)
  PROVE  AccountsInv' /\ SessionsFall
<1> DEFINE to == [step |-> "renew", session |-> i]
<1>1. i \in Nat \ {0}
  BY SessionFields DEF AccountsInv
<1>2. to \in Request /\ to.step = "renew"
  BY <1>1 DEF Request
<1>3. Begins(c, to) /\ UNCHANGED accountRows
  BY DEF ReadForRefresh
<1> HIDE DEF to
<1>4. QED
  BY <1>2, <1>3, BeginningFits

LEMMA ReadWrongAnswerFits ==
  ASSUME AccountsInv, NEW c \in Callers, ReadWrongAnswer(c)
  PROVE  AccountsInv' /\ SessionsFall
<1> DEFINE to == [step |-> "miss", attempts |-> user.attempts + 1]
<1>1. user.attempts \in Nat /\ user.attempts < MaxAttempts /\ MaxAttempts \in Nat
  BY AccountsAssumption DEF AccountsInv, UserFits, User, ReadWrongAnswer, CodeStands, AttemptsLeft
<1>2. to \in Request /\ to.attempts =< MaxAttempts
  BY <1>1 DEF Request
<1>3. Begins(c, to) /\ UNCHANGED accountRows
  BY DEF ReadWrongAnswer
<1> HIDE DEF to
<1>4. QED
  BY <1>2, <1>3, BeginningFits

(***************************************************************************)
(* Calls that write sessions.                                              *)
(***************************************************************************)
\* A call that leaves the user alone goes on.
LEMMA ContinuingFits ==
  ASSUME AccountsInv, SessionsFall, UNCHANGED <<user, excused>>, NEW c \in Callers,
         NEW s, NEW to \in Request, Continues(c, s, to), to.step # "miss", s # "signOut"
  PROVE  AccountsInv'
<1>1. UserFits' /\ user'.password = user.password
  BY DEF AccountsInv, UserFits
<1>2. /\ RequestsFit'
      /\ request[c].step = s
      /\ \A x \in Callers : x # c => request'[x] = request[x]
  BY ContinuesFits DEF AccountsInv
<1>3. \A x \in Callers : request[x].step = "signOut" => request'[x].step = "signOut"
  BY <1>2
<1>4. QED
  BY <1>1, <1>2, <1>3, QuietFits

LEMMA ListSessionsFits ==
  ASSUME AccountsInv, NEW c \in Callers, ListSessions(c)
  PROVE  AccountsInv' /\ SessionsFall
<1> DEFINE n   == Cardinality(Current)
           p   == request[c].checked
           end == [step |-> "end", checked |-> p, oldest |-> Oldest(Excess(n))]
<1>1. /\ Continues(c, "list", end) \/ Continues(c, "list", LoginStep("open", p))
      /\ UNCHANGED <<user, sessions, excused>>
  BY DEF ListSessions, accountRows
<1>2. p \in Nat
  BY LoginCarries DEF ListSessions, Continues, AccountsInv
<1>3. Oldest(Excess(n)) \subseteq Nat \ {0}
  BY SessionFields DEF Oldest, Current, AccountsInv
<1>4. end \in Request /\ end.step = "end"
  <2> HIDE DEF n, p
  <2>1. end \in [step : {"end"}, checked : Nat, oldest : SUBSET (Nat \ {0})]
    BY <1>2, <1>3
  <2>2. QED
    BY <2>1 DEF Request
<1>5. LoginStep("open", p) \in Request /\ LoginStep("open", p).step = "open"
  BY <1>2, LoginStepsAreRequests
<1>6. SessionsFall
  BY <1>1, SameSessions DEF AccountsInv
<1> HIDE DEF end
<1>7. CASE Continues(c, "list", end)
  BY <1>1, <1>4, <1>6, <1>7, ContinuingFits
<1>8. CASE Continues(c, "list", LoginStep("open", p))
  BY <1>1, <1>5, <1>6, <1>8, ContinuingFits
<1>9. QED
  BY <1>1, <1>6, <1>7, <1>8

LEMMA EndedRowFits ==
  ASSUME NEW s \in Session
  PROVE  /\ EndedRow(s) \in Session
         /\ EndedRow(s).since = s.since
         /\ EndedRow(s).checked = s.checked
         /\ EndedRow(s).status = "ended"
BY DEF EndedRow, Session, SessionStatus

LEMMA EndOldestFits ==
  ASSUME AccountsInv, NEW c \in Callers, EndOldest(c)
  PROVE  AccountsInv' /\ SessionsFall
<1> DEFINE Row(i) == IF i \in request[c].oldest /\ sessions[i].status # "deleted"
                     THEN EndedRow(sessions[i]) ELSE sessions[i]
           p == request[c].checked
<1>1. /\ Continues(c, "end", LoginStep("open", p))
      /\ sessions' = [i \in DOMAIN sessions |-> Row(i)]
      /\ UNCHANGED <<user, excused>>
  BY DEF EndOldest
<1>2. ASSUME NEW i \in DOMAIN sessions
      PROVE  /\ Row(i) \in Session
             /\ Row(i).since = sessions[i].since
             /\ Row(i).checked = sessions[i].checked
             /\ sessions[i].status # "current" => Row(i).status # "current"
  <2>1. sessions[i] \in Session
    BY SessionFields DEF AccountsInv
  <2>2. QED
    BY <2>1, EndedRowFits
<1> HIDE DEF Row
<1>3. SessionsFall
  BY <1>1, <1>2, RewrittenFall DEF AccountsInv
<1>4. p \in Nat
  BY LoginCarries DEF EndOldest, Continues, AccountsInv
<1>5. LoginStep("open", p) \in Request /\ LoginStep("open", p).step = "open"
  BY <1>4, LoginStepsAreRequests
<1>6. QED
  BY <1>1, <1>3, <1>5, ContinuingFits

LEMMA OpenSessionFits ==
  ASSUME AccountsInv, NEW c \in Callers, OpenSession(c)
  PROVE  AccountsInv' /\ SessionsFall
<1> DEFINE row == [status |-> "current", token |-> TRUE,
                   checked |-> request[c].checked, since |-> user.password]
<1>1. /\ Continues(c, "open", NoRequest)
      /\ sessions' = Append(sessions, row)
      /\ UNCHANGED <<user, excused>>
  BY DEF OpenSession
<1>2. row \in Session /\ row.since = user.password
  <2>1. request[c].checked \in Nat
    BY LoginCarries DEF OpenSession, Continues, AccountsInv
  <2>2. QED
    BY <2>1 DEF AccountsInv, UserFits, User, Session, SessionStatus
<1> HIDE DEF row
<1>3. sessions \in Seq(Session) /\ Len(sessions) \in Nat /\ DOMAIN sessions = 1 .. Len(sessions)
  BY SessionFields DEF AccountsInv, SessionsFit
<1>4. /\ sessions' \in Seq(Session)
      /\ DOMAIN sessions' = 1 .. Len(sessions) + 1
      /\ sessions'[Len(sessions) + 1] = row
      /\ \A i \in 1 .. Len(sessions) : sessions'[i] = sessions[i]
  BY <1>1, <1>2, <1>3
<1>5. SessionsFall
  <2>1. \A i \in DOMAIN sessions' : i \in DOMAIN sessions \/ i = Len(sessions) + 1
    BY <1>3, <1>4
  <2>2. QED
    BY <1>2, <1>3, <1>4, <2>1 DEF SessionsFall
<1>6. QED
  BY <1>1, <1>5, IdleIsRequest, ContinuingFits

LEMMA RenewFits ==
  ASSUME AccountsInv, NEW c \in Callers, Renew(c)
  PROVE  AccountsInv' /\ SessionsFall
<1> DEFINE i == request[c].session
<1>1. /\ Continues(c, "renew", NoRequest)
      /\ sessions' = sessions \/ sessions' = [sessions EXCEPT ![i] = Renewed(@)]
      /\ UNCHANGED <<user, excused>>
  BY DEF Renew
<1>2. CASE sessions' = [sessions EXCEPT ![i] = Renewed(@)]
  <2> HIDE DEF i
  <2>1. /\ sessions \in Seq(Session)
        /\ \A j \in DOMAIN sessions : sessions[j] \in Session
    BY SessionFields DEF AccountsInv, SessionsFit
  <2>2. ASSUME NEW j \in DOMAIN sessions
        PROVE  sessions'[j] = sessions[j] \/ sessions'[j] = Renewed(sessions[j])
    BY <1>2
  <2>3. sessions' = [j \in DOMAIN sessions |-> sessions'[j]]
    BY <1>2
  <2>4. ASSUME NEW s \in Session
        PROVE  /\ Renewed(s) \in Session /\ Renewed(s).since = s.since
               /\ Renewed(s).checked = s.checked /\ Renewed(s).status = s.status
    BY DEF Renewed, Session
  <2>5. SessionsFall
    BY <2>1, <2>2, <2>3, <2>4, RewrittenFall DEF AccountsInv
  <2>6. QED
    BY <1>1, <2>5, IdleIsRequest, ContinuingFits
<1>3. CASE sessions' = sessions
  <2>1. SessionsFall
    BY <1>3, SameSessions DEF AccountsInv
  <2>2. QED
    BY <1>1, <2>1, IdleIsRequest, ContinuingFits
<1>4. QED
  BY <1>1, <1>2, <1>3

LEMMA SignOutFits ==
  ASSUME AccountsInv, NEW c \in Callers, SignOut(c) \/ EndSessions(c)
  PROVE  AccountsInv' /\ SessionsFall
<1>1. SignsOut /\ UNCHANGED user /\ (Begins(c, NoRequest) \/ Continues(c, "signOut", NoRequest))
  BY DEF SignOut, EndSessions
<1>2. UserFits' /\ user'.password = user.password
  BY <1>1 DEF AccountsInv, UserFits
<1>3. RequestsFit'
  BY <1>1, IdleIsRequest, BeginsFits, ContinuesFits DEF AccountsInv
<1>4. QED
  BY <1>1, <1>2, <1>3, SignsOutFits, SignsOutFall DEF AccountsInv

LEMMA RemoveSessionFits ==
  ASSUME AccountsInv, NEW c \in Callers, NEW i \in DOMAIN sessions, RemoveSession(c, i)
  PROVE  AccountsInv' /\ SessionsFall
<1> DEFINE row == [sessions[i] EXCEPT !.status = "deleted", !.token = FALSE]
<1>1. /\ Begins(c, NoRequest)
      /\ sessions' = [sessions EXCEPT ![i] = row]
      /\ UNCHANGED <<user, excused>>
  BY DEF RemoveSession
<1>2. /\ row \in Session /\ row.since = sessions[i].since
      /\ row.checked = sessions[i].checked /\ row.status = "deleted"
  BY SessionFields DEF AccountsInv, Session, SessionStatus
<1> HIDE DEF row
<1>3. \A j \in DOMAIN sessions : sessions[j] \in Session
  BY SessionFields DEF AccountsInv
<1>4. SessionsFall
  <2>1. sessions' = [j \in DOMAIN sessions |-> sessions'[j]]
    BY <1>1
  <2>2. \A j \in DOMAIN sessions : sessions'[j] = IF j = i THEN row ELSE sessions[j]
    BY <1>1
  <2>3. QED
    BY <1>2, <1>3, <2>1, <2>2, RewrittenFall DEF AccountsInv
<1>5. /\ RequestsFit' /\ request[c] = NoRequest
      /\ \A x \in Callers : x # c => request'[x] = request[x]
  BY <1>1, IdleIsRequest, BeginsFits DEF AccountsInv
<1>6. UserFits' /\ user'.password = user.password
  BY <1>1 DEF AccountsInv, UserFits
<1>7. QED
  BY <1>1, <1>4, <1>5, <1>6, IdleIsRequest, QuietFits

(***************************************************************************)
(* Calls that write the user.                                              *)
(***************************************************************************)
\* The row is written, but not the password.
LEMMA RowFits ==
  ASSUME AccountsInv, UserFits', user'.password = user.password,
         UNCHANGED <<sessions, excused>>, NEW c \in Callers, NEW to \in Request,
         to.step # "miss",
         \/ Begins(c, to)
         \/ \E s \in {"code", "miss", "enable", "edit"} : Continues(c, s, to)
  PROVE  AccountsInv' /\ SessionsFall
<1>1. SessionsFall
  BY SameSessions DEF AccountsInv
<1>2. /\ RequestsFit' /\ request[c].step # "signOut"
      /\ \A x \in Callers : x # c => request'[x] = request[x]
  BY IdleIsRequest, BeginsFits, ContinuesFits DEF AccountsInv
<1>3. QED
  BY <1>1, <1>2, QuietFits

\* A code, or a password that uses it up, starts the attempts anew.
LEMMA AttemptsRestart ==
  ASSUME UserFits,
         \/ user' = [user EXCEPT !.code = TRUE, !.expired = FALSE, !.attempts = 0]
         \/ user' = [user EXCEPT !.password = Fresh, !.code = FALSE, !.expired = FALSE,
                                 !.attempts = 0]
  PROVE  UserFits'
<1>1. user \in User /\ Fresh \in Nat
  BY DEF UserFits, User, Fresh
<1>2. user' \in User
  <2>1. CASE user' = [user EXCEPT !.code = TRUE, !.expired = FALSE, !.attempts = 0]
    BY <1>1, <2>1 DEF User
  <2>2. CASE user' = [user EXCEPT !.password = Fresh, !.code = FALSE, !.expired = FALSE,
                                  !.attempts = 0]
    <3> DEFINE new == Fresh
    <3>1. new \in Nat /\ user' = [user EXCEPT !.password = new, !.code = FALSE, !.expired = FALSE,
                                             !.attempts = 0]
      BY <1>1, <2>2
    <3> HIDE DEF new
    <3>2. QED
      BY <1>1, <3>1 DEF User
  <2>3. QED
    BY <2>1, <2>2
<1>3. user'.attempts = 0
  BY <1>1 DEF User
<1>4. 0 =< MaxAttempts
  BY AccountsAssumption
<1>5. QED
  BY <1>2, <1>3, <1>4 DEF UserFits

\* Other columns are written without them.
LEMMA AttemptsStay ==
  ASSUME UserFits, user' \in User, user'.attempts = user.attempts
  PROVE  UserFits'
BY DEF UserFits

LEMMA WritingFits ==
  ASSUME AccountsInv, NEW c \in Callers,
         \/ WriteCode(c) \/ WriteAttempts(c)
         \/ GenerateMfaSecret(c) \/ EnableMfa(c) \/ ResetMfa(c)
         \/ RemoveUser(c)
  PROVE  AccountsInv' /\ SessionsFall
<1>1. UserFits /\ user \in User /\ user.attempts =< MaxAttempts
  BY DEF AccountsInv, UserFits
<1>2. CASE WriteCode(c)
  <2>1. user' = [user EXCEPT !.code = TRUE, !.expired = FALSE, !.attempts = 0]
    BY <1>2 DEF WriteCode
  <2>2. user'.password = user.password
    BY <1>1, <2>1 DEF User
  <2>3. Continues(c, "code", NoRequest) /\ UNCHANGED <<sessions, excused>>
    BY <1>2 DEF WriteCode
  <2>4. QED
    BY <1>1, <2>1, <2>2, <2>3, IdleIsRequest, AttemptsRestart, RowFits
<1>3. CASE WriteAttempts(c)
  <2>1. /\ user' = [user EXCEPT !.attempts = request[c].attempts]
        /\ Continues(c, "miss", NoRequest) /\ UNCHANGED <<sessions, excused>>
    BY <1>3 DEF WriteAttempts
  <2>2. request[c] \in Request /\ request[c].step = "miss"
    BY <2>1, IdleIsRequest, ContinuesFits DEF AccountsInv
  <2>3. request[c].attempts \in Nat /\ request[c].attempts =< MaxAttempts
    BY <2>2, RequestFields DEF AccountsInv, RequestsFit
  <2>4. UserFits' /\ user'.password = user.password
    BY <1>1, <2>1, <2>3 DEF UserFits, User
  <2>5. QED
    BY <2>1, <2>4, IdleIsRequest, RowFits
<1>4. CASE GenerateMfaSecret(c) \/ EnableMfa(c) \/ ResetMfa(c) \/ RemoveUser(c)
  <2>1. /\ \/ user' = [user EXCEPT !.secret = TRUE]
           \/ user' = [user EXCEPT !.mfa = TRUE]
           \/ user' = [user EXCEPT !.mfa = FALSE, !.secret = FALSE]
           \/ user' = [user EXCEPT !.status = "DISABLED"]
        /\ Begins(c, NoRequest) \/ Continues(c, "enable", NoRequest)
        /\ UNCHANGED <<sessions, excused>>
    BY <1>4 DEF GenerateMfaSecret, EnableMfa, ResetMfa, RemoveUser
  <2>2. user' \in User
    BY <1>1, <2>1 DEF User, UserStatus
  <2>3. user'.attempts = user.attempts /\ user'.password = user.password
    BY <1>1, <2>1 DEF User
  <2>4. QED
    BY <1>1, <2>1, <2>2, <2>3, IdleIsRequest, AttemptsStay, RowFits
<1>5. QED
  BY <1>2, <1>3, <1>4

LEMMA UpdateStatusFits ==
  ASSUME AccountsInv, NEW c \in Callers, NEW status \in UserStatus, UpdateStatus(c, status)
  PROVE  AccountsInv' /\ SessionsFall
<1>1. user \in User /\ user.attempts =< MaxAttempts
  BY DEF AccountsInv, UserFits
<1>2. UserFits' /\ user'.password = user.password
  BY <1>1 DEF UpdateStatus, UserFits, User
<1>3. /\ Begins(c, Step("signOut")) \/ Begins(c, NoRequest)
      /\ UNCHANGED <<sessions, excused>>
  BY DEF UpdateStatus
<1>4. QED
  BY <1>2, <1>3, IdleIsRequest, StepsAreRequests, RowFits

LEMMA EditUserFits ==
  ASSUME AccountsInv, NEW c \in Callers,
         \/ \E roles \in SUBSET Roles, status \in UserStatus : DropRoles(c, roles, status)
         \/ UpdateUser(c)
  PROVE  AccountsInv' /\ SessionsFall
<1>1. user \in User /\ user.attempts =< MaxAttempts
  BY DEF AccountsInv, UserFits
<1>2. ASSUME NEW roles \in SUBSET Roles, NEW status \in UserStatus, DropRoles(c, roles, status)
      PROVE  AccountsInv' /\ SessionsFall
  <2> DEFINE to == [step |-> "edit", roles |-> roles, status |-> status]
  <2>1. to \in Request /\ to.step = "edit"
    <3>1. to \in [step : {"edit"}, roles : SUBSET Roles, status : UserStatus]
      OBVIOUS
    <3>2. QED
      BY <3>1 DEF Request
  <2>2. Begins(c, to) /\ UNCHANGED <<sessions, excused>>
    BY <1>2 DEF DropRoles
  <2>3. UserFits' /\ user'.password = user.password
    BY <1>1, <1>2 DEF DropRoles, UserFits, User
  <2> HIDE DEF to
  <2>4. QED
    BY <2>1, <2>2, <2>3, RowFits
<1>3. CASE UpdateUser(c)
  <2>1. Continues(c, "edit", NoRequest) /\ UNCHANGED <<sessions, excused>>
    BY <1>3 DEF UpdateUser
  <2>2. request[c] \in Request /\ request[c].step = "edit"
    BY <2>1, IdleIsRequest, ContinuesFits DEF AccountsInv
  <2>3. request[c].roles \subseteq Roles /\ request[c].status \in UserStatus
    BY <2>2, RequestFields
  <2>4. \/ user' = user
        \/ user' = [user EXCEPT !.roles = user.roles \cup request[c].roles,
                                !.status = request[c].status]
    BY <1>3 DEF UpdateUser
  <2>5. UserFits' /\ user'.password = user.password
    BY <1>1, <2>3, <2>4 DEF UserFits, User
  <2>6. QED
    BY <2>1, <2>5, IdleIsRequest, RowFits
<1>4. QED
  BY <1>2, <1>3

LEMMA PasswordFits ==
  ASSUME AccountsInv, NEW c \in Callers,
         ResetPassword(c) \/ ChangePassword(c) \/ OverwritePassword(c)
  PROVE  AccountsInv' /\ SessionsFall
<1>1. user \in User /\ user.attempts =< MaxAttempts /\ MaxAttempts \in Nat
  BY AccountsAssumption DEF AccountsInv, UserFits
<1>2. user.password \in Nat /\ Fresh = user.password + 1
  BY <1>1 DEF User, Fresh
<1>3. UserFits' /\ user'.password = user.password + 1 /\ UNCHANGED sessions
  <2>1. /\ \/ user' = [user EXCEPT !.password = Fresh]
           \/ user' = [user EXCEPT !.password = Fresh, !.code = FALSE, !.expired = FALSE,
                                   !.attempts = 0]
        /\ UNCHANGED sessions
    BY DEF ResetPassword, ChangePassword, OverwritePassword
  <2>2. user'.password = user.password + 1
    BY <1>1, <1>2, <2>1 DEF User
  <2>3. CASE user' = [user EXCEPT !.password = Fresh]
    <3>1. user' \in User /\ user'.attempts = user.attempts
      BY <1>1, <1>2, <2>3 DEF User
    <3>2. QED
      BY <2>1, <2>2, <3>1, AttemptsStay DEF AccountsInv
  <2>4. QED
    BY <2>1, <2>2, <2>3, AttemptsRestart DEF AccountsInv
<1>4. SessionsFall
  BY <1>3, SameSessions DEF AccountsInv
<1>5. CASE ResetPassword(c)
  <2>1. Continues(c, "set", Step("signOut")) /\ excused' = excused
    BY <1>5 DEF ResetPassword
  <2>2. Step("signOut") \in Request /\ Step("signOut").step = "signOut"
    BY StepsAreRequests
  <2>3. RequestsFit' /\ request'[c].step = "signOut"
    BY <2>1, <2>2, ContinuesFits DEF AccountsInv
  <2>4. QED
    BY <1>3, <1>4, <2>1, <2>3, NewPasswordFits
<1>6. CASE ChangePassword(c) \/ OverwritePassword(c)
  <2>1. /\ Continues(c, "change", NoRequest) \/ Begins(c, NoRequest)
        /\ excused' = excused \cup {user.password}
    BY <1>6 DEF ChangePassword, OverwritePassword
  <2>2. /\ RequestsFit' /\ request[c].step # "signOut"
        /\ \A x \in Callers : x # c => request'[x] = request[x]
    BY <2>1, IdleIsRequest, BeginsFits, ContinuesFits DEF AccountsInv
  <2>3. QED
    BY <1>3, <1>4, <2>1, <2>2, NewPasswordFits
<1>7. QED
  BY <1>5, <1>6

LEMMA CodeExpiresFits ==
  ASSUME AccountsInv, CodeExpires
  PROVE  AccountsInv' /\ SessionsFall
<1>1. user \in User /\ user.attempts =< MaxAttempts
  BY DEF AccountsInv, UserFits
<1>2. UserFits' /\ user'.password = user.password
  BY <1>1 DEF CodeExpires, UserFits, User
<1>3. RequestsFit' /\ UNCHANGED <<sessions, excused, request>>
  BY DEF CodeExpires, AccountsInv, RequestsFit
<1>4. QED
  BY <1>2, <1>3, SameSessions, QuietFits DEF AccountsInv

\* A crash that comes between a password and the end of its sessions excuses them.
LEMMA ServerCrashesFits ==
  ASSUME AccountsInv, ServerCrashes
  PROVE  AccountsInv' /\ SessionsFall
<1>1. user.password \in Nat /\ UserFits' /\ UNCHANGED <<user, sessions>>
  BY DEF AccountsInv, UserFits, User, ServerCrashes
<1>2. SessionsFall
  BY <1>1, SameSessions DEF AccountsInv
<1>3. RequestsFit'
  <2>1. request' \in [Callers -> Request] /\ \A c \in Callers : request'[c].step = "idle"
    BY IdleIsRequest DEF ServerCrashes
  <2>2. requests' \in 0 .. MaxCalls /\ failures' \in 0 .. MaxCrashes
    BY AccountsAssumption DEF ServerCrashes, AccountsInv, RequestsFit
  <2>3. QED
    BY <2>1, <2>2 DEF RequestsFit
<1>4. excused' \subseteq Nat
  <2>1. excused' = 0 .. user.password \/ excused' = excused
    BY DEF ServerCrashes
  <2>2. 0 .. user.password \subseteq Nat
    BY <1>1
  <2>3. QED
    BY <2>1, <2>2 DEF AccountsInv, SessionsFit
<1>5. SessionsFit'
  BY <1>1, <1>2, <1>4, FallFits DEF AccountsInv
<1>6. RowsAreEnded'
  <2> SUFFICES ASSUME NEW i \in Current
               PROVE  sessions[i].since = user.password \/ sessions[i].since \in excused'
    BY <1>1 DEF RowsAreEnded, Current
  <2>1. CASE \E c \in Callers : request[c].step = "signOut"
    <3>1. i \in DOMAIN sessions
      BY DEF Current
    <3>2. sessions[i].since \in Nat /\ sessions[i].since =< user.password
      BY <3>1, SessionFields DEF AccountsInv, SessionsFit
    <3>3. excused' = 0 .. user.password
      BY <2>1 DEF ServerCrashes
    <3>4. QED
      BY <1>1, <3>2, <3>3
  <2>2. CASE ~(\E c \in Callers : request[c].step = "signOut")
    BY <2>2 DEF ServerCrashes, AccountsInv, RowsAreEnded
  <2>3. QED
    BY <2>1, <2>2
<1>7. QED
  BY <1>1, <1>2, <1>3, <1>5, <1>6 DEF AccountsInv

(***************************************************************************)
(* Every step.                                                             *)
(***************************************************************************)
LEMMA RequestFits ==
  ASSUME AccountsInv, NEW c \in Callers, OfSessions(c) \/ OfCodes(c) \/ OfUser(c)
  PROVE  AccountsInv' /\ SessionsFall
<1>1. CASE OfSessions(c)
  BY <1>1, ReadForLoginFits, ListSessionsFits, EndOldestFits, OpenSessionFits, ReadForRefreshFits,
     RenewFits, SignOutFits, RemoveSessionFits
  DEF OfSessions
<1>2. CASE OfCodes(c)
  BY <1>2, ReadingFits, WritingFits, ReadWrongAnswerFits, PasswordFits, SignOutFits DEF OfCodes
<1>3. CASE OfUser(c)
  BY <1>3, ReadingFits, WritingFits, PasswordFits, UpdateStatusFits, EditUserFits DEF OfUser
<1>4. QED
  BY <1>1, <1>2, <1>3

LEMMA AccountsStart == AccountsInit => AccountsInv
<1> SUFFICES ASSUME AccountsInit PROVE AccountsInv
  OBVIOUS
<1> DEFINE row == [status |-> "current", token |-> TRUE, checked |-> 1, since |-> 1]
<1>1. UserFits
  BY AccountsAssumption DEF AccountsInit, UserFits, User, UserStatus
<1>2. row \in Session /\ row.since = 1
  BY DEF Session, SessionStatus
<1>3. StartSessions \in Nat /\ sessions = [i \in 1 .. StartSessions |-> row]
  BY AccountsAssumption DEF AccountsInit
<1> HIDE DEF row
<1>4. sessions \in Seq(Session) /\ \A i \in DOMAIN sessions : sessions[i] = row
  BY <1>2, <1>3
<1>5. user.password = 1
  BY DEF AccountsInit
<1>6. SessionsFit
  BY <1>2, <1>4, <1>5 DEF SessionsFit, AccountsInit
<1>7. RequestsFit
  BY IdleIsRequest, AccountsAssumption DEF RequestsFit, AccountsInit
<1>8. RowsAreEnded
  BY <1>2, <1>4, <1>5 DEF RowsAreEnded, Current
<1>9. QED
  BY <1>1, <1>6, <1>7, <1>8 DEF AccountsInv

LEMMA AccountsStep ==
  AccountsInv /\ [AccountsNext]_accountVars => AccountsInv' /\ SessionsFall
<1> SUFFICES ASSUME AccountsInv, [AccountsNext]_accountVars
             PROVE  AccountsInv' /\ SessionsFall
  OBVIOUS
<1>1. CASE UNCHANGED accountVars
  <2>1. UNCHANGED <<user, sessions, excused, request, requests, failures>>
    BY <1>1 DEF accountVars, accountRows
  <2>2. UserFits' /\ RequestsFit'
    BY <2>1 DEF AccountsInv, UserFits, RequestsFit
  <2>3. QED
    BY <2>1, <2>2, SameSessions, QuietFits DEF AccountsInv
<1>2. CASE AccountsNext
  BY <1>2, RequestFits, CodeExpiresFits, ServerCrashesFits DEF AccountsNext
<1>3. QED
  BY <1>1, <1>2

LEMMA AccountsAlways == AccountsSpec => []AccountsInv
BY AccountsStart, AccountsStep, PTL DEF AccountsSpec

\* The user, the sessions and the calls keep their types, and the wrong answers to a
\* reset code are within the limit, for any number of calls that overlap.
THEOREM AccountsTypeCorrect == AccountsSpec => []AccountsTypeOK
BY AccountsInvImplies, AccountsAlways, PTL

\* However logins, renewals, sign-outs and removals overlap, a session that is not
\* current does not become current again.
THEOREM SessionsEndForGood == AccountsSpec => EndedForGood
<1>1. AccountsInv /\ [AccountsNext]_accountVars =>
        [\A i \in DOMAIN sessions :
           sessions[i].status # "current" => sessions'[i].status # "current"]_accountVars
  BY AccountsStep DEF SessionsFall
<1>2. QED
  BY <1>1, AccountsAlways, PTL DEF AccountsSpec, EndedForGood

(***************************************************************************)
(* How many sessions are current.                                          *)
(*                                                                         *)
(* A login has its list of sessions to end ("end") or is about to make its *)
(* own ("open").  Whichever of the lists are carried out, the sessions     *)
(* that are left, those about to be made and one for each of these lists   *)
(* are together no more than the limit and the other logins in flight.     *)
(***************************************************************************)
Ending  == {c \in Callers : request[c].step = "end"}
Opening == {c \in Callers : request[c].step = "open"}
Listed(S) == UNION {request[c].oldest : c \in S}

SessionsCounted ==
  \A S \in SUBSET Ending :
    Cardinality(Current \ Listed(S)) + Cardinality(Opening) + Cardinality(S)
      =< MaxSessions - 1 + Cardinality(Callers)

LEMMA CurrentFinite ==
  ASSUME SessionsFit
  PROVE  /\ IsFiniteSet(Current) /\ Current \subseteq Nat
         /\ \A T \in SUBSET Current : IsFiniteSet(T) /\ Cardinality(T) \in Nat
<1>1. Current \subseteq 1 .. Len(sessions) /\ Len(sessions) \in Nat
  BY SessionFields DEF Current
<1>2. IsFiniteSet(1 .. Len(sessions))
  BY <1>1, FS_Interval
<1>3. \A T \in SUBSET (1 .. Len(sessions)) : IsFiniteSet(T)
  BY <1>2, FS_Subset
<1>4. QED
  BY <1>1, <1>3, FS_CardinalityType

LEMMA CallersFinite ==
  /\ Cardinality(Callers) \in Nat \ {0}
  /\ \A T \in SUBSET Callers : IsFiniteSet(T) /\ Cardinality(T) \in Nat
<1>1. IsFiniteSet(Callers) /\ Callers # {}
  BY AccountsAssumption
<1>2. \A T \in SUBSET Callers : IsFiniteSet(T) /\ Cardinality(T) \in Nat
  BY <1>1, FS_Subset, FS_CardinalityType
<1>3. Cardinality(Callers) \in Nat /\ Cardinality(Callers) # 0
  BY <1>1, FS_CardinalityType, FS_EmptySet
<1>4. QED
  BY <1>2, <1>3

\* Logins that wait for one thing do not wait for another.
LEMMA WaitersApart ==
  ASSUME NEW O \in SUBSET Callers, NEW S \in SUBSET Callers, O \cap S = {}
  PROVE  Cardinality(O) + Cardinality(S) =< Cardinality(Callers)
<1>1. /\ IsFiniteSet(O) /\ Cardinality(O) \in Nat
      /\ IsFiniteSet(S) /\ Cardinality(S) \in Nat
      /\ IsFiniteSet(Callers) /\ Cardinality(Callers) \in Nat
  BY CallersFinite
<1>2. Cardinality(O \cap S) = 0
  BY FS_EmptySet
<1>3. Cardinality(O \cup S) = Cardinality(O) + Cardinality(S) - Cardinality(O \cap S)
  BY <1>1, FS_Union
<1>4. Cardinality(O \cup S) =< Cardinality(Callers)
  BY <1>1, FS_Subset
<1>5. QED
  BY <1>1, <1>2, <1>3, <1>4

\* Without the sessions on its list a login meets fewer than the limit: the others
\* have different numbers of sessions before them, from the excess on.
LEMMA OldestLeave ==
  ASSUME SessionsFit, Cardinality(Current) >= MaxSessions
  PROVE  Cardinality(Current \ Oldest(Excess(Cardinality(Current)))) =< MaxSessions - 1
<1> DEFINE n       == Cardinality(Current)
           k       == Excess(n)
           Before(i) == {j \in Current : j < i}
           Rank(i) == Cardinality(Before(i))
           rest    == Current \ Oldest(k)
           f       == [i \in rest |-> Rank(i)]
<1>1. /\ IsFiniteSet(Current) /\ Current \subseteq Nat /\ n \in Nat
      /\ \A T \in SUBSET Current : IsFiniteSet(T) /\ Cardinality(T) \in Nat
  BY CurrentFinite
<1>2. MaxSessions \in Nat \ {0} /\ k = n - MaxSessions + 1 /\ k \in Nat
  BY <1>1, AccountsAssumption DEF Excess
<1>3. \A i \in Current : Rank(i) \in Nat
  BY <1>1
<1>4. \A i \in rest : Rank(i) >= k
  <2>1. \A i \in rest : i \in Current /\ ~(Rank(i) < k)
    BY DEF Oldest
  <2> HIDE DEF Rank, k, rest
  <2>2. QED
    BY <1>2, <1>3, <2>1
<1>5. ASSUME NEW T \in SUBSET Current, NEW i \in T, Before(i) \subseteq T
      PROVE  Rank(i) < Cardinality(T)
  <2>1. IsFiniteSet(T) /\ Cardinality(T) \in Nat /\ Rank(i) \in Nat
    BY <1>1, <1>3
  <2>2. i \notin Before(i)
    BY <1>1
  <2>3. Before(i) \in SUBSET T /\ Before(i) # T
    BY <1>5, <2>2
  <2>4. Rank(i) =< Cardinality(T) /\ (Cardinality(T) = Rank(i) => T = Before(i))
    BY <2>1, <2>3, FS_Subset
  <2> HIDE DEF Before, Rank
  <2>5. QED
    BY <2>1, <2>3, <2>4
<1>6. \A i \in Current : Rank(i) < n
  BY <1>5
<1>7. \A i, j \in Current : i < j => Rank(i) < Rank(j)
  <2> SUFFICES ASSUME NEW i \in Current, NEW j \in Current, i < j
               PROVE  Rank(i) < Cardinality(Before(j))
    OBVIOUS
  <2>1. Before(j) \in SUBSET Current /\ i \in Before(j)
    OBVIOUS
  <2>2. \A l \in Current : l \in Nat
    BY <1>1
  <2>3. \A l \in Current : l < i => l < j
    BY <2>2
  <2>4. Before(i) \subseteq Before(j)
    BY <2>3
  <2>5. QED
    BY <1>5, <2>1, <2>4
<1>8. f \in Injection(rest, k .. n - 1)
  <2>1. rest \subseteq Current
    OBVIOUS
  <2> HIDE DEF Rank, k, n, rest
  <2>2. \A i \in rest : Rank(i) \in k .. n - 1
    BY <1>1, <1>2, <1>3, <1>4, <1>6, <2>1
  <2>3. ASSUME NEW i \in rest, NEW j \in rest, Rank(i) = Rank(j)
        PROVE  i = j
    <3>1. i \in Nat /\ j \in Nat /\ Rank(i) \in Nat
      BY <1>1, <1>3, <2>1
    <3>2. ~(i < j) /\ ~(j < i)
      BY <1>3, <1>7, <2>1, <2>3, <3>1
    <3>3. QED
      BY <3>1, <3>2
  <2>4. f \in [rest -> k .. n - 1]
    BY <2>2
  <2>5. \A i, j \in rest : f[i] = f[j] => i = j
    BY <2>3
  <2>6. QED
    BY <2>4, <2>5 DEF Injection, IsInjective
<1>9. IsFiniteSet(k .. n - 1) /\ Cardinality(k .. n - 1) = IF k > n - 1 THEN 0 ELSE n - 1 - k + 1
  <2> HIDE DEF n, k
  <2>1. k \in Int /\ n - 1 \in Int
    BY <1>1, <1>2
  <2>2. QED
    BY <2>1, FS_Interval
<1>10. Cardinality(rest) =< Cardinality(k .. n - 1)
  BY <1>8, <1>9, FS_Injection
<1> HIDE DEF n, k
<1>11. Cardinality(k .. n - 1) =< MaxSessions - 1 /\ Cardinality(k .. n - 1) \in Nat
  BY <1>1, <1>2, <1>9
<1>12. Cardinality(rest) \in Nat
  BY <1>1
<1>13. Cardinality(rest) =< MaxSessions - 1
  BY <1>2, <1>10, <1>11, <1>12
<1>14. QED
  BY <1>13 DEF k, n

(***************************************************************************)
(* The count, step by step.                                                *)
(***************************************************************************)
\* Nothing that counts is added.
LEMMA CountShrinks ==
  ASSUME SessionsFit, SessionsCounted, Current' \subseteq Current,
         \A c \in Callers : request'[c].step \in {"end", "open"} => request'[c] = request[c]
  PROVE  SessionsCounted'
<1> SUFFICES ASSUME NEW S \in SUBSET Ending'
             PROVE  Cardinality(Current' \ Listed(S)') + Cardinality(Opening') + Cardinality(S)
                      =< MaxSessions - 1 + Cardinality(Callers)
  BY DEF SessionsCounted
<1>1. S \in SUBSET Ending /\ \A c \in S : request'[c] = request[c]
  BY DEF Ending
<1>2. Listed(S)' = Listed(S)
  BY <1>1 DEF Listed
<1>3. Opening' \in SUBSET Opening /\ Opening \in SUBSET Callers
  BY DEF Opening
<1>4. Current' \ Listed(S)' \in SUBSET (Current \ Listed(S))
  BY <1>2
<1>5. /\ Cardinality(Current' \ Listed(S)') \in Nat /\ Cardinality(Current \ Listed(S)) \in Nat
      /\ Cardinality(Current' \ Listed(S)') =< Cardinality(Current \ Listed(S))
  <2>1. IsFiniteSet(Current \ Listed(S)) /\ Cardinality(Current \ Listed(S)) \in Nat
    BY CurrentFinite
  <2>2. Cardinality(Current' \ Listed(S)') \in Nat
    BY <1>4, CurrentFinite
  <2>3. QED
    BY <1>4, <2>1, <2>2, FS_Subset
<1>6. /\ Cardinality(Opening') \in Nat /\ Cardinality(Opening) \in Nat
      /\ Cardinality(Opening') =< Cardinality(Opening)
  BY <1>3, CallersFinite, FS_Subset
<1>7. Cardinality(S) \in Nat
  <2>1. S \in SUBSET Callers
    BY <1>1 DEF Ending
  <2>2. QED
    BY <2>1, CallersFinite
<1>8. Cardinality(Current \ Listed(S)) + Cardinality(Opening) + Cardinality(S)
        =< MaxSessions - 1 + Cardinality(Callers)
  BY <1>1 DEF SessionsCounted
<1>9. MaxSessions \in Nat /\ Cardinality(Callers) \in Nat
  BY AccountsAssumption, CallersFinite
<1>10. QED
  BY <1>5, <1>6, <1>7, <1>8, <1>9

LEMMA ListSessionsCounted ==
  ASSUME AccountsInv, SessionsCounted, NEW c \in Callers, ListSessions(c)
  PROVE  SessionsCounted'
<1> DEFINE n   == Cardinality(Current)
           p   == request[c].checked
           end == [step |-> "end", checked |-> p, oldest |-> Oldest(Excess(n))]
<1>1. /\ request[c].step = "list"
      /\ request' = [request EXCEPT ![c] = IF n >= MaxSessions THEN end ELSE LoginStep("open", p)]
      /\ UNCHANGED <<user, sessions, excused>>
  BY DEF ListSessions, Continues, Goes, accountRows
<1>2. request \in [Callers -> Request]
  BY DEF AccountsInv, RequestsFit
<1>3. /\ request'[c] = IF n >= MaxSessions THEN end ELSE LoginStep("open", p)
      /\ \A x \in Callers : x # c => request'[x] = request[x]
  <2> HIDE DEF end, n
  <2>1. QED
    BY <1>1, <1>2
<1>4. Current' = Current
  BY <1>1 DEF Current
<1>5. /\ IsFiniteSet(Current) /\ n \in Nat
      /\ \A T \in SUBSET Current : Cardinality(T) \in Nat /\ Cardinality(T) =< n
  BY CurrentFinite, FS_Subset DEF AccountsInv
<1>6. MaxSessions \in Nat \ {0} /\ Cardinality(Callers) \in Nat
  BY AccountsAssumption, CallersFinite
<1> SUFFICES ASSUME NEW S \in SUBSET Ending'
             PROVE  Cardinality(Current \ Listed(S)') + Cardinality(Opening') + Cardinality(S)
                      =< MaxSessions - 1 + Cardinality(Callers)
  BY <1>4 DEF SessionsCounted
<1>7. /\ Opening' \in SUBSET Callers /\ S \in SUBSET Callers /\ Opening' \cap S = {}
      /\ Cardinality(Opening') \in Nat /\ Cardinality(S) \in Nat
  <2>1. Opening' \in SUBSET Callers /\ S \in SUBSET Callers /\ Opening' \cap S = {}
    BY DEF Opening, Ending
  <2>2. QED
    BY <2>1, CallersFinite
<1>8. Cardinality(Opening') + Cardinality(S) =< Cardinality(Callers)
  BY <1>7, WaitersApart
<1>9. ASSUME Cardinality(Current \ Listed(S)') =< MaxSessions - 1
      PROVE  Cardinality(Current \ Listed(S)') + Cardinality(Opening') + Cardinality(S)
               =< MaxSessions - 1 + Cardinality(Callers)
  <2>1. Cardinality(Current \ Listed(S)') \in Nat
    BY <1>5
  <2>2. QED
    BY <1>6, <1>7, <1>8, <1>9, <2>1
<1>10. CASE n < MaxSessions
  <2>1. Cardinality(Current \ Listed(S)') \in Nat /\ Cardinality(Current \ Listed(S)') =< n
    BY <1>5
  <2> HIDE DEF n
  <2>2. Cardinality(Current \ Listed(S)') =< MaxSessions - 1
    BY <1>5, <1>6, <1>10, <2>1
  <2>3. QED
    BY <1>9, <2>2
<1>11. CASE n >= MaxSessions /\ c \in S
  <2>1. request'[c].oldest = Oldest(Excess(n))
    BY <1>3, <1>11
  <2>2. Oldest(Excess(n)) \subseteq Listed(S)'
    BY <1>11, <2>1 DEF Listed
  <2>3. Current \ Listed(S)' \in SUBSET (Current \ Oldest(Excess(n)))
    BY <2>2
  <2>4. Cardinality(Current \ Oldest(Excess(n))) =< MaxSessions - 1
    BY <1>11, OldestLeave DEF AccountsInv
  <2>5. IsFiniteSet(Current \ Oldest(Excess(n))) /\ Cardinality(Current \ Oldest(Excess(n))) \in Nat
    BY CurrentFinite DEF AccountsInv
  <2> HIDE DEF n
  <2>6. Cardinality(Current \ Listed(S)') =< Cardinality(Current \ Oldest(Excess(n)))
    BY <2>3, <2>5, FS_Subset
  <2>7. Cardinality(Current \ Listed(S)') \in Nat
    BY <1>5
  <2>8. Cardinality(Current \ Listed(S)') =< MaxSessions - 1
    BY <1>6, <2>4, <2>5, <2>6, <2>7
  <2>9. QED
    BY <1>9, <2>8
<1>12. CASE n >= MaxSessions /\ c \notin S
  <2>1. request'[c].step = "end" /\ request[c].step = "list"
    BY <1>1, <1>3, <1>12
  <2>2. Opening' = Opening
    BY <1>3, <2>1 DEF Opening
  <2>3. S \in SUBSET Ending /\ \A x \in S : request'[x] = request[x]
    BY <1>3, <1>7, <1>12 DEF Ending
  <2>4. Listed(S)' = Listed(S)
    BY <2>3 DEF Listed
  <2>5. QED
    BY <2>2, <2>3, <2>4 DEF SessionsCounted
<1>13. n < MaxSessions \/ n >= MaxSessions
  <2> HIDE DEF n
  <2>1. QED
    BY <1>5, <1>6
<1>14. QED
  BY <1>10, <1>11, <1>12, <1>13

LEMMA EndOldestCounted ==
  ASSUME AccountsInv, SessionsCounted, NEW c \in Callers, EndOldest(c)
  PROVE  SessionsCounted'
<1>1. /\ request[c].step = "end"
      /\ request' = [request EXCEPT ![c] = LoginStep("open", request[c].checked)]
      /\ sessions' = [i \in DOMAIN sessions |->
           IF i \in request[c].oldest /\ sessions[i].status # "deleted"
           THEN EndedRow(sessions[i]) ELSE sessions[i]]
  BY DEF EndOldest, Continues, Goes
<1>2. request \in [Callers -> Request]
  BY DEF AccountsInv, RequestsFit
<1>3. request'[c].step = "open" /\ \A x \in Callers : x # c => request'[x] = request[x]
  BY <1>1, <1>2 DEF LoginStep
<1>4. Current' \subseteq Current \ request[c].oldest
  <2>1. \A i \in DOMAIN sessions : EndedRow(sessions[i]).status = "ended"
    BY SessionFields, EndedRowFits DEF AccountsInv
  <2>2. QED
    BY <1>1, <2>1 DEF Current
<1> SUFFICES ASSUME NEW S \in SUBSET Ending'
             PROVE  Cardinality(Current' \ Listed(S)') + Cardinality(Opening') + Cardinality(S)
                      =< MaxSessions - 1 + Cardinality(Callers)
  BY DEF SessionsCounted
<1>5. /\ c \notin S /\ S \in SUBSET Callers /\ S \cup {c} \in SUBSET Ending
      /\ \A x \in S : request'[x] = request[x]
  BY <1>1, <1>3 DEF Ending
<1>6. Current' \ Listed(S)' \in SUBSET (Current \ Listed(S \cup {c}))
  BY <1>4, <1>5 DEF Listed
<1>7. /\ Cardinality(Current' \ Listed(S)') \in Nat
      /\ Cardinality(Current \ Listed(S \cup {c})) \in Nat
      /\ Cardinality(Current' \ Listed(S)') =< Cardinality(Current \ Listed(S \cup {c}))
  <2>1. /\ IsFiniteSet(Current \ Listed(S \cup {c}))
        /\ Cardinality(Current \ Listed(S \cup {c})) \in Nat
    BY CurrentFinite DEF AccountsInv
  <2>2. Cardinality(Current' \ Listed(S)') \in Nat
    BY <1>6, CurrentFinite DEF AccountsInv
  <2>3. QED
    BY <1>6, <2>1, <2>2, FS_Subset
<1>8. Opening' = Opening \cup {c} /\ c \notin Opening /\ Opening \in SUBSET Callers
  BY <1>1, <1>3 DEF Opening
<1>9. IsFiniteSet(S) /\ Cardinality(S) \in Nat /\ IsFiniteSet(Opening) /\ Cardinality(Opening) \in Nat
  BY <1>5, <1>8, CallersFinite
<1>10. /\ Cardinality(Opening') = Cardinality(Opening) + 1
       /\ Cardinality(S \cup {c}) = Cardinality(S) + 1
  BY <1>5, <1>8, <1>9, FS_AddElement
<1>11. Cardinality(Current \ Listed(S \cup {c})) + Cardinality(Opening) + Cardinality(S \cup {c})
         =< MaxSessions - 1 + Cardinality(Callers)
  BY <1>5 DEF SessionsCounted
<1>12. MaxSessions \in Nat /\ Cardinality(Callers) \in Nat
  BY AccountsAssumption, CallersFinite
<1>13. QED
  BY <1>7, <1>9, <1>10, <1>11, <1>12

LEMMA OpenSessionCounted ==
  ASSUME AccountsInv, SessionsCounted, NEW c \in Callers, OpenSession(c)
  PROVE  SessionsCounted'
<1> DEFINE row == [status |-> "current", token |-> TRUE,
                   checked |-> request[c].checked, since |-> user.password]
           new == Len(sessions) + 1
<1>1. /\ request[c].step = "open"
      /\ request' = [request EXCEPT ![c] = NoRequest]
      /\ sessions' = Append(sessions, row)
  BY DEF OpenSession, Continues, Goes
<1>2. request \in [Callers -> Request]
  BY DEF AccountsInv, RequestsFit
<1>3. request'[c].step = "idle" /\ \A x \in Callers : x # c => request'[x] = request[x]
  BY <1>1, <1>2, IdleIsRequest
<1>4. Current' \subseteq Current \cup {new}
  <2>1. sessions \in Seq(Session) /\ Len(sessions) \in Nat /\ DOMAIN sessions = 1 .. Len(sessions)
    BY SessionFields DEF AccountsInv, SessionsFit
  <2> HIDE DEF row
  <2>2. /\ DOMAIN sessions' = 1 .. Len(sessions) + 1
        /\ \A i \in 1 .. Len(sessions) : sessions'[i] = sessions[i]
    BY <1>1, <2>1
  <2>3. \A i \in DOMAIN sessions' : i \in DOMAIN sessions \/ i = new
    BY <2>1, <2>2
  <2> HIDE DEF new
  <2>4. QED
    BY <2>1, <2>2, <2>3 DEF Current
<1> SUFFICES ASSUME NEW S \in SUBSET Ending'
             PROVE  Cardinality(Current' \ Listed(S)') + Cardinality(Opening') + Cardinality(S)
                      =< MaxSessions - 1 + Cardinality(Callers)
  BY DEF SessionsCounted
<1>5. /\ S \in SUBSET Callers /\ S \in SUBSET Ending
      /\ \A x \in S : request'[x] = request[x]
  BY <1>1, <1>3 DEF Ending
<1>6. Current' \ Listed(S)' \in SUBSET ((Current \ Listed(S)) \cup {new})
  BY <1>4, <1>5 DEF Listed
<1> HIDE DEF new
<1>7. /\ Cardinality(Current' \ Listed(S)') \in Nat
      /\ Cardinality(Current \ Listed(S)) \in Nat
      /\ Cardinality(Current' \ Listed(S)') =< Cardinality(Current \ Listed(S)) + 1
  <2> DEFINE old == Current \ Listed(S)
             wide == old \cup {new}
             now == Current' \ Listed(S)'
  <2>1. IsFiniteSet(old) /\ Cardinality(old) \in Nat
    BY CurrentFinite DEF AccountsInv
  <2>2. now \in SUBSET wide
    BY <1>6
  <2> HIDE DEF old, now
  <2>3. /\ IsFiniteSet(wide)
        /\ Cardinality(wide) = Cardinality(old) \/ Cardinality(wide) = Cardinality(old) + 1
    BY <2>1, FS_AddElement
  <2> HIDE DEF wide
  <2>4. IsFiniteSet(now) /\ Cardinality(now) =< Cardinality(wide)
    BY <2>2, <2>3, FS_Subset
  <2>5. Cardinality(now) \in Nat
    BY <2>4, FS_CardinalityType
  <2>6. Cardinality(now) =< Cardinality(old) + 1
    BY <2>1, <2>3, <2>4, <2>5
  <2>7. QED
    BY <2>1, <2>5, <2>6 DEF old, now
<1>8. Opening' = Opening \ {c} /\ c \in Opening /\ Opening \in SUBSET Callers
  BY <1>1, <1>3 DEF Opening
<1>9. Cardinality(S) \in Nat /\ IsFiniteSet(Opening) /\ Cardinality(Opening) \in Nat
  BY <1>5, <1>8, CallersFinite
<1>10. Cardinality(Opening') = Cardinality(Opening) - 1
  BY <1>8, <1>9, FS_RemoveElement
<1>11. Cardinality(Current \ Listed(S)) + Cardinality(Opening) + Cardinality(S)
         =< MaxSessions - 1 + Cardinality(Callers)
  BY <1>5 DEF SessionsCounted
<1>12. MaxSessions \in Nat /\ Cardinality(Callers) \in Nat
  BY AccountsAssumption, CallersFinite
<1>13. QED
  BY <1>7, <1>9, <1>10, <1>11, <1>12

\* The caller waits for neither before or after, or is not at work; or it begins
\* to log in by the present password.
MovesAside(c) ==
  \E to : /\ request' = [request EXCEPT ![c] = to]
          /\ to.step \notin {"end", "open"}
          /\ to.step = "list" => to.checked = user'.password

LEMMA AsideCounted ==
  ASSUME AccountsInv, SessionsCounted, SessionsFall, DOMAIN sessions' = DOMAIN sessions,
         NEW c \in Callers, MovesAside(c)
  PROVE  SessionsCounted'
<1>1. PICK to : request' = [request EXCEPT ![c] = to] /\ to.step \notin {"end", "open"}
  BY Zenon DEF MovesAside
<1>2. request \in [Callers -> Request]
  BY DEF AccountsInv, RequestsFit
<1>3. request'[c] = to /\ \A x \in Callers : x # c => request'[x] = request[x]
  BY <1>1, <1>2
<1>4. \A x \in Callers : request'[x].step \in {"end", "open"} => request'[x] = request[x]
  BY <1>1, <1>3
<1>5. Current' \subseteq Current
  BY DEF SessionsFall, Current
<1>6. QED
  BY <1>4, <1>5, CountShrinks DEF AccountsInv

LEMMA IdleAside ==
  ASSUME NEW c \in Callers, Goes(c, NoRequest)
  PROVE  MovesAside(c)
BY IdleIsRequest DEF Goes, MovesAside

LEMMA StepAside ==
  ASSUME NEW c \in Callers, NEW s \in {"enable", "code", "set", "change", "signOut"},
         Goes(c, Step(s))
  PROVE  MovesAside(c)
<1>1. Step(s).step = s
  BY StepsAreRequests
<1>2. QED
  BY <1>1 DEF Goes, MovesAside

LEMMA OfSessionsAside ==
  ASSUME NEW c \in Callers, OfSessions(c),
         ~ListSessions(c), ~EndOldest(c), ~OpenSession(c)
  PROVE  DOMAIN sessions' = DOMAIN sessions /\ MovesAside(c)
<1>1. CASE ReadForLogin(c)
  <2> DEFINE to == LoginStep("list", user.password)
  <2>1. Goes(c, to) /\ UNCHANGED <<user, sessions>>
    BY <1>1 DEF ReadForLogin, Begins, accountRows
  <2>2. to.step = "list" /\ to.checked = user.password
    BY DEF LoginStep
  <2> HIDE DEF to
  <2>3. QED
    BY <2>1, <2>2 DEF Goes, MovesAside
<1>2. ASSUME NEW i \in DOMAIN sessions, ReadForRefresh(c, i)
      PROVE  DOMAIN sessions' = DOMAIN sessions /\ MovesAside(c)
  <2> DEFINE to == [step |-> "renew", session |-> i]
  <2>1. Goes(c, to) /\ UNCHANGED sessions
    BY <1>2 DEF ReadForRefresh, Begins, accountRows
  <2>2. to.step = "renew"
    OBVIOUS
  <2> HIDE DEF to
  <2>3. QED
    BY <2>1, <2>2 DEF Goes, MovesAside
<1>3. CASE Renew(c)
  <2>1. Goes(c, NoRequest) /\ DOMAIN sessions' = DOMAIN sessions
    BY <1>3 DEF Renew, Continues
  <2>2. QED
    BY <2>1, IdleAside
<1>4. CASE SignOut(c)
  <2>1. Goes(c, NoRequest) /\ DOMAIN sessions' = DOMAIN sessions
    BY <1>4 DEF SignOut, SignsOut, Begins
  <2>2. QED
    BY <2>1, IdleAside
<1>5. ASSUME NEW i \in DOMAIN sessions, RemoveSession(c, i)
      PROVE  DOMAIN sessions' = DOMAIN sessions /\ MovesAside(c)
  <2>1. Goes(c, NoRequest) /\ DOMAIN sessions' = DOMAIN sessions
    BY <1>5 DEF RemoveSession, Begins
  <2>2. QED
    BY <2>1, IdleAside
<1>6. QED
  BY <1>1, <1>2, <1>3, <1>4, <1>5 DEF OfSessions

LEMMA OfCodesAside ==
  ASSUME NEW c \in Callers, OfCodes(c)
  PROVE  DOMAIN sessions' = DOMAIN sessions /\ MovesAside(c)
<1>1. CASE \/ \E byUser \in BOOLEAN : ReadForCode(c, byUser)
           \/ ReadForReset(c) \/ ResetPassword(c)
  BY <1>1, StepAside DEF ReadForCode, ReadForReset, ResetPassword, Begins, Continues, accountRows
<1>2. CASE ReadWrongAnswer(c)
  <2> DEFINE to == [step |-> "miss", attempts |-> user.attempts + 1]
  <2>1. Goes(c, to) /\ UNCHANGED sessions
    BY <1>2 DEF ReadWrongAnswer, Begins, accountRows
  <2>2. to.step = "miss"
    OBVIOUS
  <2> HIDE DEF to
  <2>3. QED
    BY <2>1, <2>2 DEF Goes, MovesAside
<1>3. CASE WriteCode(c) \/ WriteAttempts(c)
  BY <1>3, IdleAside DEF WriteCode, WriteAttempts, Continues
<1>4. CASE EndSessions(c)
  <2>1. Goes(c, NoRequest) /\ DOMAIN sessions' = DOMAIN sessions
    BY <1>4 DEF EndSessions, SignsOut, Continues
  <2>2. QED
    BY <2>1, IdleAside
<1>5. QED
  BY <1>1, <1>2, <1>3, <1>4 DEF OfCodes

LEMMA OfUserAside ==
  ASSUME NEW c \in Callers, OfUser(c)
  PROVE  DOMAIN sessions' = DOMAIN sessions /\ MovesAside(c)
<1>1. CASE ReadForChange(c) \/ ReadForMfa(c)
  BY <1>1, StepAside DEF ReadForChange, ReadForMfa, Begins, accountRows
<1>2. CASE \/ ChangePassword(c) \/ GenerateMfaSecret(c) \/ EnableMfa(c) \/ ResetMfa(c)
           \/ RemoveUser(c) \/ UpdateUser(c) \/ OverwritePassword(c)
  BY <1>2, IdleAside
  DEF ChangePassword, GenerateMfaSecret, EnableMfa, ResetMfa, RemoveUser, UpdateUser,
      OverwritePassword, Begins, Continues
<1>3. ASSUME NEW status \in UserStatus, UpdateStatus(c, status)
      PROVE  DOMAIN sessions' = DOMAIN sessions /\ MovesAside(c)
  BY <1>3, IdleAside, StepAside DEF UpdateStatus, Begins
<1>4. ASSUME NEW roles \in SUBSET Roles, NEW status \in UserStatus, DropRoles(c, roles, status)
      PROVE  DOMAIN sessions' = DOMAIN sessions /\ MovesAside(c)
  <2> DEFINE to == [step |-> "edit", roles |-> roles, status |-> status]
  <2>1. Goes(c, to) /\ UNCHANGED sessions
    BY <1>4 DEF DropRoles, Begins
  <2>2. to.step = "edit"
    OBVIOUS
  <2> HIDE DEF to
  <2>3. QED
    BY <2>1, <2>2 DEF Goes, MovesAside
<1>5. QED
  BY <1>1, <1>2, <1>3, <1>4 DEF OfUser

LEMMA CountStart == AccountsInit => SessionsCounted
<1> SUFFICES ASSUME AccountsInit PROVE SessionsCounted
  OBVIOUS
<1>1. Ending = {} /\ Opening = {}
  BY IdleIsRequest DEF AccountsInit, Ending, Opening
<1>2. Current \in SUBSET (1 .. StartSessions) /\ StartSessions \in Nat
      /\ StartSessions =< MaxSessions /\ MaxSessions \in Nat
  BY AccountsAssumption DEF AccountsInit, Current
<1>3. IsFiniteSet(1 .. StartSessions) /\ Cardinality(1 .. StartSessions) = StartSessions
  <2>1. StartSessions \in Int /\ 1 \in Int
    BY <1>2
  <2>2. /\ IsFiniteSet(1 .. StartSessions)
        /\ Cardinality(1 .. StartSessions) =
             (IF 1 > StartSessions THEN 0 ELSE StartSessions - 1 + 1)
    BY <2>1, FS_Interval
  <2>3. QED
    BY <1>2, <2>2
<1>4. Current \ Listed({}) \in SUBSET (1 .. StartSessions)
  BY <1>2
<1>5. /\ Cardinality(Current \ Listed({})) =< StartSessions
      /\ Cardinality(Current \ Listed({})) \in Nat
  BY <1>3, <1>4, FS_Subset, FS_CardinalityType
<1>6. Cardinality(Callers) \in Nat \ {0} /\ Cardinality({}) = 0
  BY CallersFinite, FS_EmptySet
<1>7. Cardinality(Current \ Listed({})) + 0 + 0 =< MaxSessions - 1 + Cardinality(Callers)
  BY <1>2, <1>5, <1>6
<1>8. QED
  BY <1>1, <1>6, <1>7 DEF SessionsCounted

LEMMA CountStep ==
  AccountsInv /\ SessionsCounted /\ [AccountsNext]_accountVars => SessionsCounted'
<1> SUFFICES ASSUME AccountsInv, SessionsCounted, [AccountsNext]_accountVars
             PROVE  SessionsCounted'
  OBVIOUS
<1>1. SessionsFall
  BY AccountsStep
<1>2. CASE UNCHANGED accountVars \/ CodeExpires
  BY <1>2, CountShrinks DEF accountVars, accountRows, CodeExpires, Current, AccountsInv
<1>3. CASE ServerCrashes
  <2>1. \A c \in Callers : request'[c].step = "idle"
    BY <1>3, IdleIsRequest DEF ServerCrashes
  <2>2. Current' = Current
    BY <1>3 DEF ServerCrashes, Current
  <2>3. QED
    BY <2>1, <2>2, CountShrinks DEF AccountsInv
<1>4. ASSUME NEW c \in Callers, OfSessions(c) \/ OfCodes(c) \/ OfUser(c)
      PROVE  SessionsCounted'
  <2>1. CASE ListSessions(c) \/ EndOldest(c) \/ OpenSession(c)
    BY <2>1, ListSessionsCounted, EndOldestCounted, OpenSessionCounted
  <2>2. CASE ~ListSessions(c) /\ ~EndOldest(c) /\ ~OpenSession(c)
    <3>1. DOMAIN sessions' = DOMAIN sessions /\ MovesAside(c)
      BY <1>4, <2>2, OfSessionsAside, OfCodesAside, OfUserAside
    <3>2. QED
      BY <1>1, <3>1, AsideCounted
  <2>3. QED
    BY <2>1, <2>2
<1>5. QED
  BY <1>2, <1>3, <1>4 DEF AccountsNext

LEMMA CountBounds ==
  ASSUME AccountsInv, SessionsCounted
  PROVE  SessionsBounded
<1>1. Listed({}) = {} /\ {} \in SUBSET Ending /\ Opening \in SUBSET Callers
  BY DEF Listed, Opening
<1>2. Cardinality(Current) + Cardinality(Opening) + Cardinality({})
        =< MaxSessions - 1 + Cardinality(Callers)
  <2>1. Current \ Listed({}) = Current
    BY <1>1
  <2>2. QED
    BY <1>1, <2>1 DEF SessionsCounted
<1>3. /\ Cardinality(Current) \in Nat /\ Cardinality(Opening) \in Nat /\ Cardinality({}) = 0
      /\ Cardinality(Callers) \in Nat /\ MaxSessions \in Nat
  BY <1>1, CurrentFinite, CallersFinite, FS_EmptySet, FS_CardinalityType, AccountsAssumption
  DEF AccountsInv
<1>4. QED
  BY <1>2, <1>3 DEF SessionsBounded

\* However many logins overlap, sessions pass their limit by no more than the other
\* logins that may be in flight.
THEOREM SessionsStayBounded == AccountsSpec => []SessionsBounded
<1>1. AccountsInv /\ SessionsCounted => SessionsBounded
  BY CountBounds
<1>2. QED
  BY <1>1, CountStart, CountStep, AccountsAlways, PTL DEF AccountsSpec

------------------------------------------------------------------------------
(***************************************************************************)
(* What is left of a password that was reset.                              *)
(*                                                                         *)
(* When no sessions wait to be ended, the sessions of such a password and  *)
(* the logins under way that have compared one are together fewer than the *)
(* callers: the last call to end sessions left only the logins of others.  *)
(***************************************************************************)
LoggingIn == {c \in Callers : request[c].step \in {"list", "open", "end"}}

StaleSessions == {i \in Current : Stale(sessions[i].checked)}
StaleLogins   == {c \in LoggingIn : Stale(request[c].checked)}

SignOutDue == \E c \in Callers : request[c].step = "signOut"

\* No password was compared that is yet to come.
ComparedFit ==
  /\ \A i \in DOMAIN sessions : sessions[i].checked =< user.password
  /\ \A c \in LoggingIn : request[c].checked =< user.password

StaleCounted ==
  SignOutDue \/ Cardinality(StaleSessions) + Cardinality(StaleLogins) =< Cardinality(Callers) - 1

LeftInv == ComparedFit /\ StaleCounted

LEMMA StaleFinite ==
  ASSUME SessionsFit
  PROVE  /\ IsFiniteSet(StaleSessions) /\ Cardinality(StaleSessions) \in Nat
         /\ IsFiniteSet(StaleLogins) /\ Cardinality(StaleLogins) \in Nat
<1>1. StaleSessions \in SUBSET Current /\ StaleLogins \in SUBSET Callers
  BY DEF StaleSessions, StaleLogins, LoggingIn
<1>2. QED
  BY <1>1, CurrentFinite, CallersFinite

\* Fewer of both are still few enough.
LEMMA StaleShrinks ==
  ASSUME SessionsFit, StaleCounted, StaleSessions' \subseteq StaleSessions,
         StaleLogins' \subseteq StaleLogins, SignOutDue => SignOutDue'
  PROVE  StaleCounted'
<1>1. CASE SignOutDue
  BY <1>1 DEF StaleCounted
<1>2. CASE ~SignOutDue
  <2>1. Cardinality(StaleSessions) + Cardinality(StaleLogins) =< Cardinality(Callers) - 1
    BY <1>2 DEF StaleCounted
  <2>2. /\ Cardinality(StaleSessions') =< Cardinality(StaleSessions)
        /\ Cardinality(StaleLogins') =< Cardinality(StaleLogins)
        /\ Cardinality(StaleSessions') \in Nat /\ Cardinality(StaleLogins') \in Nat
    BY StaleFinite, FS_Subset, FS_CardinalityType
  <2>3. Cardinality(Callers) \in Nat
    BY CallersFinite
  <2>4. QED
    BY <2>1, <2>2, <2>3, StaleFinite DEF StaleCounted
<1>3. QED
  BY <1>1, <1>2

\* The caller c is not logging in, and no session of a stale password is left.
LEMMA StaleElsewhere ==
  ASSUME StaleSessions' = {}, NEW c \in Callers, StaleLogins' \subseteq Callers \ {c}
  PROVE  StaleCounted'
<1>1. IsFiniteSet(Callers) /\ Cardinality(Callers) \in Nat
  BY CallersFinite
<1>2. IsFiniteSet(Callers \ {c}) /\ Cardinality(Callers \ {c}) = Cardinality(Callers) - 1
  BY <1>1, FS_RemoveElement
<1>3. /\ Cardinality(StaleLogins') =< Cardinality(Callers \ {c})
      /\ Cardinality(StaleLogins') \in Nat
  BY <1>2, FS_Subset, FS_CardinalityType
<1>4. Cardinality(StaleSessions') = 0
  BY FS_EmptySet
<1>5. QED
  BY <1>1, <1>2, <1>3, <1>4 DEF StaleCounted

\* Nothing becomes stale, and what was compared is carried along.
LEMMA LeftQuiet ==
  ASSUME AccountsInv, LeftInv, SessionsFall, DOMAIN sessions' = DOMAIN sessions,
         \/ /\ user'.password = user.password
            /\ excused' = excused
         \/ /\ user'.password = user.password + 1
            /\ excused' = excused \cup {user.password},
         \A x \in LoggingIn' :
           \/ x \in LoggingIn /\ request'[x].checked = request[x].checked
           \/ request'[x].checked = user'.password,
         SignOutDue => SignOutDue'
  PROVE  LeftInv'
<1>1. user.password \in Nat /\ SessionsFit /\ RequestsFit
  BY DEF AccountsInv, UserFits, User
<1>2. \A i \in DOMAIN sessions : sessions[i].checked \in Nat
  BY <1>1, SessionFields
<1>3. \A x \in LoggingIn : request[x].checked \in Nat
  BY <1>1, LoginCarries DEF LoggingIn
<1>4. \A p : Stale(p)' => Stale(p)
  BY DEF Stale
<1>5. ComparedFit'
  <2>1. \A i \in DOMAIN sessions' : sessions'[i].checked =< user'.password
    BY <1>1, <1>2 DEF SessionsFall, LeftInv, ComparedFit
  <2>2. \A x \in LoggingIn' : request'[x].checked =< user'.password
    BY <1>1, <1>3 DEF LeftInv, ComparedFit
  <2>3. QED
    BY <2>1, <2>2 DEF ComparedFit
<1>6. StaleSessions' \subseteq StaleSessions
  BY <1>4 DEF StaleSessions, Current, SessionsFall
<1>7. StaleLogins' \subseteq StaleLogins
  <2>1. \A x \in LoggingIn' : request'[x].checked = user'.password => ~Stale(request[x].checked)'
    BY DEF Stale
  <2>2. QED
    BY <1>4, <2>1 DEF StaleLogins
<1>8. QED
  BY <1>1, <1>5, <1>6, <1>7, StaleShrinks DEF LeftInv

\* Only two calls end all sessions, and only a reset leaves that to a later step.
LEMMA NotDue ==
  ASSUME NEW c \in Callers, OfSessions(c) \/ OfCodes(c) \/ OfUser(c),
         ~SignOut(c), ~EndSessions(c)
  PROVE  request[c].step # "signOut"
<1>1. CASE OfSessions(c)
  BY <1>1, IdleIsRequest
  DEF OfSessions, ReadForLogin, ListSessions, EndOldest, OpenSession, ReadForRefresh, Renew,
      RemoveSession, Begins, Continues
<1>2. CASE OfCodes(c)
  BY <1>2, IdleIsRequest
  DEF OfCodes, ReadForCode, WriteCode, ReadWrongAnswer, WriteAttempts, ReadForReset,
      ResetPassword, Begins, Continues
<1>3. CASE OfUser(c)
  BY <1>3, IdleIsRequest
  DEF OfUser, ReadForChange, ChangePassword, GenerateMfaSecret, ReadForMfa, EnableMfa, ResetMfa,
      UpdateStatus, RemoveUser, DropRoles, UpdateUser, OverwritePassword, Begins, Continues
<1>4. QED
  BY <1>1, <1>2, <1>3

LEMMA PasswordMoves ==
  ASSUME AccountsInv, NEW c \in Callers, OfSessions(c) \/ OfCodes(c) \/ OfUser(c),
         ~SignOut(c), ~EndSessions(c), ~ResetPassword(c)
  PROVE  \/ /\ user'.password = user.password
            /\ excused' = excused
         \/ /\ user'.password = user.password + 1
            /\ excused' = excused \cup {user.password}
<1>1. user \in User
  BY DEF AccountsInv, UserFits
<1>2. CASE OfSessions(c)
  BY <1>2
  DEF OfSessions, ReadForLogin, ListSessions, EndOldest, OpenSession, ReadForRefresh, Renew,
      RemoveSession, accountRows
<1>3. CASE OfCodes(c)
  BY <1>1, <1>3
  DEF OfCodes, ReadForCode, WriteCode, ReadWrongAnswer, WriteAttempts, ReadForReset, accountRows,
      User
<1>4. CASE ChangePassword(c) \/ OverwritePassword(c)
  BY <1>1, <1>4 DEF ChangePassword, OverwritePassword, Fresh, User
<1>5. CASE ReadForChange(c) \/ ReadForMfa(c)
  BY <1>5 DEF ReadForChange, ReadForMfa, accountRows
<1>6. CASE \/ GenerateMfaSecret(c) \/ EnableMfa(c) \/ ResetMfa(c) \/ RemoveUser(c)
           \/ UpdateUser(c)
           \/ \E status \in UserStatus : UpdateStatus(c, status)
           \/ \E roles \in SUBSET Roles, status \in UserStatus : DropRoles(c, roles, status)
  BY <1>1, <1>6
  DEF GenerateMfaSecret, EnableMfa, ResetMfa, RemoveUser, UpdateUser, UpdateStatus, DropRoles, User
<1>7. QED
  BY <1>2, <1>3, <1>4, <1>5, <1>6 DEF OfUser

\* A step that makes no session and does not end them all.
LEMMA MovesAsideLeft ==
  ASSUME AccountsInv, LeftInv, SessionsFall, DOMAIN sessions' = DOMAIN sessions,
         NEW c \in Callers, MovesAside(c), OfSessions(c) \/ OfCodes(c) \/ OfUser(c),
         ~SignOut(c), ~EndSessions(c), ~ResetPassword(c)
  PROVE  LeftInv'
<1>1. PICK to : /\ request' = [request EXCEPT ![c] = to]
                /\ to.step \notin {"end", "open"}
                /\ to.step = "list" => to.checked = user'.password
  BY DEF MovesAside
<1>2. request \in [Callers -> Request]
  BY DEF AccountsInv, RequestsFit
<1>3. request'[c] = to /\ \A x \in Callers : x # c => request'[x] = request[x]
  BY <1>1, <1>2
<1>4. ASSUME NEW x \in LoggingIn'
      PROVE  \/ x \in LoggingIn /\ request'[x].checked = request[x].checked
             \/ request'[x].checked = user'.password
  BY <1>1, <1>3 DEF LoggingIn
<1>5. SignOutDue => SignOutDue'
  BY <1>3, NotDue DEF SignOutDue
<1>6. QED
  BY <1>4, <1>5, PasswordMoves, LeftQuiet

\* A login that goes on carries what it has compared.
LEMMA LoginGoesOnLeft ==
  ASSUME AccountsInv, LeftInv, SessionsFall, NEW c \in Callers, ListSessions(c) \/ EndOldest(c)
  PROVE  LeftInv'
<1>1. PICK to : /\ request' = [request EXCEPT ![c] = to]
                /\ to.checked = request[c].checked
                /\ to.step # "signOut"
  <2> DEFINE n == Cardinality(Current)
  <2>1. PICK s \in {"list", "end"} :
          \/ Continues(c, s, LoginStep("open", request[c].checked))
          \/ Continues(c, s, [step |-> "end", checked |-> request[c].checked,
                              oldest |-> Oldest(Excess(n))])
    BY DEF ListSessions, EndOldest
  <2>2. CASE Continues(c, s, LoginStep("open", request[c].checked))
    <3> DEFINE to == LoginStep("open", request[c].checked)
    <3>1. to.checked = request[c].checked /\ to.step = "open"
      BY DEF LoginStep
    <3>2. request' = [request EXCEPT ![c] = to]
      BY <2>2 DEF Continues, Goes
    <3> HIDE DEF to
    <3>3. QED
      BY <3>1, <3>2
  <2>3. CASE Continues(c, s, [step |-> "end", checked |-> request[c].checked,
                              oldest |-> Oldest(Excess(n))])
    <3> DEFINE to == [step |-> "end", checked |-> request[c].checked,
                      oldest |-> Oldest(Excess(n))]
    <3>1. to.checked = request[c].checked /\ to.step = "end"
      OBVIOUS
    <3>2. request' = [request EXCEPT ![c] = to]
      BY <2>3 DEF Continues, Goes
    <3> HIDE DEF to
    <3>3. QED
      BY <3>1, <3>2
  <2>4. QED
    BY <2>1, <2>2, <2>3
<1>2. request \in [Callers -> Request]
  BY DEF AccountsInv, RequestsFit
<1>3. request'[c] = to /\ \A x \in Callers : x # c => request'[x] = request[x]
  BY <1>1, <1>2
<1>4. c \in LoggingIn /\ request[c].step # "signOut"
  BY DEF ListSessions, EndOldest, Continues, LoggingIn
<1>5. ASSUME NEW x \in LoggingIn'
      PROVE  x \in LoggingIn /\ request'[x].checked = request[x].checked
  BY <1>1, <1>3, <1>4 DEF LoggingIn
<1>6. SignOutDue => SignOutDue'
  BY <1>3, <1>4 DEF SignOutDue
<1>7. DOMAIN sessions' = DOMAIN sessions /\ UNCHANGED <<user, excused>>
  BY DEF ListSessions, EndOldest, accountRows
<1>8. QED
  BY <1>5, <1>6, <1>7, LeftQuiet

\* The login becomes a session of the password it has compared.
LEMMA OpenSessionLeft ==
  ASSUME AccountsInv, LeftInv, NEW c \in Callers, OpenSession(c)
  PROVE  LeftInv'
<1> DEFINE p   == request[c].checked
           row == [status |-> "current", token |-> TRUE, checked |-> p, since |-> user.password]
           new == Len(sessions) + 1
<1>1. /\ request[c].step = "open"
      /\ request' = [request EXCEPT ![c] = NoRequest]
      /\ sessions' = Append(sessions, row)
      /\ UNCHANGED <<user, excused>>
  BY DEF OpenSession, Continues, Goes
<1>2. SessionsFit /\ request \in [Callers -> Request] /\ user.password \in Nat
  BY DEF AccountsInv, RequestsFit, UserFits, User
<1>3. request'[c].step = "idle" /\ \A x \in Callers : x # c => request'[x] = request[x]
  BY <1>1, <1>2, IdleIsRequest
<1>4. row.checked = p /\ row.status = "current"
  OBVIOUS
<1> HIDE DEF row
<1>5. /\ DOMAIN sessions = 1 .. Len(sessions) /\ Len(sessions) \in Nat
      /\ DOMAIN sessions' = 1 .. Len(sessions) + 1
      /\ sessions'[new] = row
      /\ \A i \in DOMAIN sessions : sessions'[i] = sessions[i]
  <2>1. sessions \in Seq(Session) /\ Len(sessions) \in Nat /\ DOMAIN sessions = 1 .. Len(sessions)
    BY <1>2, SessionFields DEF SessionsFit
  <2>2. QED
    BY <1>1, <2>1
<1>6. \A i \in DOMAIN sessions' : i \in DOMAIN sessions \/ i = new
  BY <1>5
<1>7. c \in LoggingIn /\ p =< user.password
  BY <1>1 DEF LoggingIn, LeftInv, ComparedFit
<1>8. /\ LoggingIn' \subseteq LoggingIn \ {c}
      /\ \A x \in LoggingIn' : request'[x] = request[x]
  BY <1>3 DEF LoggingIn
<1>9. ComparedFit'
  <2>1. \A i \in DOMAIN sessions' : sessions'[i].checked =< user'.password
    BY <1>1, <1>4, <1>5, <1>6, <1>7 DEF LeftInv, ComparedFit
  <2>2. QED
    BY <1>1, <1>8, <2>1 DEF LeftInv, ComparedFit
<1>10. \A q : Stale(q)' <=> Stale(q)
  BY <1>1 DEF Stale
<1>11. StaleLogins' \subseteq StaleLogins \ {c} /\ (Stale(p) => c \in StaleLogins)
  BY <1>7, <1>8, <1>10 DEF StaleLogins
<1>12. StaleSessions' \subseteq StaleSessions \cup (IF Stale(p) THEN {new} ELSE {})
  <2>1. ASSUME NEW i \in StaleSessions'
        PROVE  i \in StaleSessions \/ (i = new /\ Stale(p))
    <3>1. i \in DOMAIN sessions' /\ sessions'[i].status = "current" /\ Stale(sessions'[i].checked)
      BY <1>1 DEF StaleSessions, Current, Stale
    <3>2. CASE i = new
      BY <1>4, <1>5, <3>1, <3>2
    <3>3. CASE i \in DOMAIN sessions
      BY <1>5, <3>1, <3>3 DEF StaleSessions, Current
    <3>4. QED
      BY <1>6, <3>1, <3>2, <3>3
  <2>2. QED
    BY <2>1
<1>13. /\ IsFiniteSet(StaleSessions) /\ Cardinality(StaleSessions) \in Nat
       /\ IsFiniteSet(StaleLogins) /\ Cardinality(StaleLogins) \in Nat
       /\ Cardinality(Callers) \in Nat
  BY <1>2, StaleFinite, CallersFinite
<1>14. SignOutDue => SignOutDue'
  BY <1>1, <1>3 DEF SignOutDue
<1> HIDE DEF p, new
<1>15. CASE ~Stale(p)
  BY <1>2, <1>9, <1>11, <1>12, <1>14, <1>15, StaleShrinks DEF LeftInv
<1>16. CASE Stale(p)
  <2>1. /\ IsFiniteSet(StaleLogins \ {c})
        /\ Cardinality(StaleLogins \ {c}) = Cardinality(StaleLogins) - 1
    BY <1>11, <1>13, <1>16, FS_RemoveElement
  <2>2. /\ Cardinality(StaleLogins') =< Cardinality(StaleLogins) - 1
        /\ Cardinality(StaleLogins') \in Nat
    BY <1>11, <2>1, FS_Subset, FS_CardinalityType
  <2>3. /\ IsFiniteSet(StaleSessions \cup {new})
        /\ \/ Cardinality(StaleSessions \cup {new}) = Cardinality(StaleSessions)
           \/ Cardinality(StaleSessions \cup {new}) = Cardinality(StaleSessions) + 1
    BY <1>13, FS_AddElement
  <2>4. StaleSessions' \in SUBSET (StaleSessions \cup {new})
    BY <1>12, <1>16
  <2>5. /\ Cardinality(StaleSessions') =< Cardinality(StaleSessions \cup {new})
        /\ Cardinality(StaleSessions') \in Nat
    BY <2>3, <2>4, FS_Subset, FS_CardinalityType
  <2>6. SignOutDue \/ Cardinality(StaleSessions) + Cardinality(StaleLogins) =< Cardinality(Callers) - 1
    BY DEF LeftInv, StaleCounted
  <2>7. SignOutDue' \/ Cardinality(StaleSessions') + Cardinality(StaleLogins') =< Cardinality(Callers) - 1
    BY <1>13, <1>14, <2>2, <2>3, <2>5, <2>6
  <2>8. QED
    BY <1>9, <2>7 DEF LeftInv, StaleCounted
<1>17. QED
  BY <1>15, <1>16

\* Every session is ended, and the caller is not logging in.
LEMMA SignOutLeft ==
  ASSUME AccountsInv, LeftInv, NEW c \in Callers, SignOut(c) \/ EndSessions(c)
  PROVE  LeftInv'
<1>1. SignsOut /\ UNCHANGED user /\ request' = [request EXCEPT ![c] = NoRequest]
  BY DEF SignOut, EndSessions, Begins, Continues, Goes
<1>2. SessionsFit /\ request \in [Callers -> Request]
  BY DEF AccountsInv, RequestsFit
<1>3. request'[c].step = "idle" /\ \A x \in Callers : x # c => request'[x] = request[x]
  BY <1>1, <1>2, IdleIsRequest
<1>4. SessionsFall /\ Current' = {} /\ DOMAIN sessions' = DOMAIN sessions
  BY <1>1, <1>2, SignsOutFall DEF SignsOut
<1>5. LoggingIn' \subseteq LoggingIn \ {c} /\ \A x \in LoggingIn' : request'[x] = request[x]
  BY <1>3 DEF LoggingIn
<1>6. ComparedFit'
  BY <1>1, <1>4, <1>5 DEF LeftInv, ComparedFit, SessionsFall
<1>7. StaleSessions' = {} /\ StaleLogins' \subseteq Callers \ {c}
  BY <1>4, <1>5 DEF StaleSessions, StaleLogins, LoggingIn
<1>8. QED
  BY <1>6, <1>7, StaleElsewhere DEF LeftInv

\* The sessions of the old password are yet to be ended.
LEMMA ResetPasswordLeft ==
  ASSUME AccountsInv, LeftInv, NEW c \in Callers, ResetPassword(c)
  PROVE  LeftInv'
<1>1. /\ request' = [request EXCEPT ![c] = Step("signOut")]
      /\ user'.password = user.password + 1
      /\ user.password \in Nat
      /\ UNCHANGED sessions
  <2>1. user \in User
    BY DEF AccountsInv, UserFits
  <2>2. user.password \in Nat /\ Fresh = user.password + 1
    BY <2>1 DEF User, Fresh
  <2>3. user'.password = Fresh
    BY <2>1 DEF ResetPassword, User
  <2>4. QED
    BY <2>2, <2>3 DEF ResetPassword, Continues, Goes
<1>2. SessionsFit /\ RequestsFit /\ request \in [Callers -> Request]
  BY DEF AccountsInv, RequestsFit
<1>3. request'[c].step = "signOut" /\ \A x \in Callers : x # c => request'[x] = request[x]
  BY <1>1, <1>2, StepsAreRequests
<1>4. SignOutDue'
  BY <1>3 DEF SignOutDue
<1>5. LoggingIn' \subseteq LoggingIn /\ \A x \in LoggingIn' : request'[x] = request[x]
  BY <1>3 DEF LoggingIn
<1>6. \A x \in LoggingIn : request[x].checked \in Nat
  BY <1>2, LoginCarries DEF LoggingIn
<1>7. \A i \in DOMAIN sessions : sessions[i].checked \in Nat
  BY <1>2, SessionFields
<1>8. ComparedFit'
  BY <1>1, <1>5, <1>6, <1>7 DEF LeftInv, ComparedFit
<1>9. QED
  BY <1>4, <1>8 DEF LeftInv, StaleCounted

LEMMA ServerCrashesLeft ==
  ASSUME AccountsInv, LeftInv, ServerCrashes
  PROVE  LeftInv'
<1>1. LoggingIn' = {}
  BY IdleIsRequest DEF ServerCrashes, LoggingIn
<1>2. SessionsFit /\ user.password \in Nat /\ UNCHANGED <<user, sessions>>
  BY DEF ServerCrashes, AccountsInv, UserFits, User
<1>3. CASE SignOutDue
  <2>1. excused' = 0 .. user.password
    BY <1>3 DEF ServerCrashes, SignOutDue
  <2>2. \A i \in DOMAIN sessions : sessions[i].checked \in 0 .. user.password
    BY <1>2, SessionFields DEF LeftInv, ComparedFit
  <2>3. StaleSessions' = {}
    BY <1>2, <2>1, <2>2 DEF StaleSessions, Stale, Current
  <2>4. PICK c \in Callers : TRUE
    BY AccountsAssumption
  <2>5. StaleLogins' = {}
    BY <1>1 DEF StaleLogins
  <2>6. ComparedFit'
    BY <1>1, <1>2 DEF LeftInv, ComparedFit
  <2>7. QED
    BY <2>3, <2>5, <2>6, StaleElsewhere DEF LeftInv
<1>4. CASE ~SignOutDue
  <2>1. excused' = excused
    BY <1>4 DEF ServerCrashes, SignOutDue
  <2>2. SessionsFall
    BY <1>2, SameSessions
  <2>3. QED
    BY <1>1, <1>2, <1>4, <2>1, <2>2, LeftQuiet
<1>5. QED
  BY <1>3, <1>4

LEMMA LeftStep ==
  AccountsInv /\ LeftInv /\ [AccountsNext]_accountVars => LeftInv'
<1> SUFFICES ASSUME AccountsInv, LeftInv, [AccountsNext]_accountVars
             PROVE  LeftInv'
  OBVIOUS
<1>1. SessionsFall
  BY AccountsStep
<1>2. CASE UNCHANGED accountVars \/ CodeExpires
  <2>1. UNCHANGED <<sessions, excused, request>> /\ user'.password = user.password
    BY <1>2 DEF accountVars, accountRows, CodeExpires, AccountsInv, UserFits, User
  <2>2. (SignOutDue <=> SignOutDue') /\ LoggingIn' = LoggingIn
    BY <2>1 DEF SignOutDue, LoggingIn
  <2>3. QED
    BY <1>1, <2>1, <2>2, LeftQuiet
<1>3. CASE ServerCrashes
  BY <1>3, ServerCrashesLeft
<1>4. ASSUME NEW c \in Callers, OfSessions(c) \/ OfCodes(c) \/ OfUser(c)
      PROVE  LeftInv'
  <2>1. CASE ListSessions(c) \/ EndOldest(c) \/ OpenSession(c)
    BY <1>1, <2>1, LoginGoesOnLeft, OpenSessionLeft
  <2>2. CASE SignOut(c) \/ EndSessions(c) \/ ResetPassword(c)
    BY <2>2, SignOutLeft, ResetPasswordLeft
  <2>3. CASE /\ ~ListSessions(c) /\ ~EndOldest(c) /\ ~OpenSession(c)
             /\ ~SignOut(c) /\ ~EndSessions(c) /\ ~ResetPassword(c)
    <3>1. DOMAIN sessions' = DOMAIN sessions /\ MovesAside(c)
      BY <1>4, <2>3, OfSessionsAside, OfCodesAside, OfUserAside
    <3>2. QED
      BY <1>1, <1>4, <2>3, <3>1, MovesAsideLeft
  <2>4. QED
    BY <2>1, <2>2, <2>3
<1>5. QED
  BY <1>2, <1>3, <1>4 DEF AccountsNext

LEMMA LeftStart == AccountsInit => LeftInv
<1> SUFFICES ASSUME AccountsInit PROVE LeftInv
  OBVIOUS
<1>1. LoggingIn = {} /\ user.password = 1
  BY IdleIsRequest DEF AccountsInit, LoggingIn
<1>2. \A i \in DOMAIN sessions : sessions[i].checked = 1
  BY DEF AccountsInit
<1>3. StaleSessions = {} /\ StaleLogins = {}
  BY <1>1, <1>2 DEF StaleSessions, StaleLogins, Stale, Current
<1>4. Cardinality(StaleSessions) = 0 /\ Cardinality(StaleLogins) = 0
  BY <1>3, FS_EmptySet
<1>5. Cardinality(Callers) \in Nat \ {0}
  BY CallersFinite
<1>6. QED
  BY <1>1, <1>2, <1>4, <1>5 DEF LeftInv, ComparedFit, StaleCounted

LEMMA LeftBounds ==
  ASSUME AccountsInv, LeftInv
  PROVE  ResetEndsSessions
<1>1. CASE SignOutDue
  BY <1>1 DEF SignOutDue, ResetEndsSessions
<1>2. CASE ~SignOutDue
  <2>1. \A i \in Current : ~Stale(sessions[i].since)
    BY <1>2 DEF AccountsInv, RowsAreEnded, Stale, SignOutDue
  <2>2. Cardinality(StaleSessions) + Cardinality(StaleLogins) =< Cardinality(Callers) - 1
    BY <1>2 DEF LeftInv, StaleCounted
  <2>3. Cardinality(StaleSessions) =< Cardinality(Callers) - 1
    BY <2>2, StaleFinite, CallersFinite DEF AccountsInv
  <2>4. QED
    BY <2>1, <2>3 DEF ResetEndsSessions, StaleSessions
<1>3. QED
  BY <1>1, <1>2

\* When no call is between a reset and the end of its sessions, none that was made
\* before is current, and of those that a login opened since, having compared the
\* password before the reset, no more than the other calls that may be in flight.
THEOREM ResetsEndSessions == AccountsSpec => []ResetEndsSessions
<1>1. AccountsInv /\ LeftInv => ResetEndsSessions
  BY LeftBounds
<1>2. QED
  BY <1>1, LeftStart, LeftStep, AccountsAlways, PTL DEF AccountsSpec

------------------------------------------------------------------------------
(***************************************************************************)
(* Roles, users and invitations: Access.                                   *)
(***************************************************************************)

(***************************************************************************)
(* Type correctness.  An invitation that is about to be made counts as one *)
(* of the calls, so that the invitations made are no more than those.      *)
(***************************************************************************)
Inviting == {c \in Clerks : act[c].step = "invite"}

InvitationsCounted ==
  /\ invited + Cardinality(Inviting) =< asked
  /\ invited + Cardinality(Inviting) =< Cardinality(Clerks)

AccessTypes ==
  /\ role \in Role
  /\ names \subseteq Names
  /\ given \subseteq SUBSET Flags
  /\ holder \in BOOLEAN
  /\ invited \in Nat
  /\ act \in [Clerks -> Act]
  /\ asked \in 0 .. MaxRequests
  /\ breaks \in 0 .. MaxBreaks
  /\ wroteBare \in BOOLEAN

\* A call that moves on leaves the others where they are.
LEMMA OthersStay ==
  ASSUME AccessTypes, NEW c \in Clerks, NEW to, ActGoes(c, to)
  PROVE  act'[c] = to /\ \A d \in Clerks \ {c} : act'[d] = act[d]
BY DEF AccessTypes, ActGoes

\* The calls that are about to update a role, and what they bring.
LEMMA UpdateType ==
  ASSUME AccessTypes, NEW c \in Clerks, act[c].step \in {"clear", "write"}
  PROVE  act[c] \in [step : {"clear", "write"}, rename : Names \cup {"kept"}, gives : BOOLEAN,
                     perms : Permissions, bare : BOOLEAN]
BY DEF AccessTypes, Act, NoAct

LEMMA RoleType ==
  ASSUME AccessTypes, role.exists
  PROVE  role \in [exists : {TRUE}, name : Names, perms : Permissions, system : BOOLEAN]
<1>1. role # NoRole
  <2> SUFFICES ASSUME role = NoRole PROVE FALSE
    OBVIOUS
  <2>1. NoRole.exists = FALSE
    BY DEF NoRole
  <2>2. QED
    BY <2>1
<1>2. QED
  BY <1>1 DEF AccessTypes, Role

\* Permission rows, none of them, those two updates leave, and the flags of one of them.
LEMMA PermissionsAre ==
  /\ Bare \in Permissions /\ ~HasSetup(Bare)
  /\ \A p \in Permissions :
       p.modules \subseteq Modules /\ p.flags \subseteq Flags /\ (~HasSetup(p) => p.flags = {})
  /\ \A modules, flags :
       modules \subseteq Modules /\ flags \subseteq Flags
         /\ ("USER_SETUP" \notin modules => flags = {})
       => [modules |-> modules, flags |-> flags] \in Permissions
BY DEF Permissions, Bare, HasSetup

LEMMA JoinType ==
  ASSUME NEW p \in Permissions, NEW q \in Permissions
  PROVE  [modules |-> p.modules \cup q.modules, flags |-> p.flags \cup q.flags] \in Permissions
<1>1. PICK modules, flags : modules = p.modules \cup q.modules /\ flags = p.flags \cup q.flags
  OBVIOUS
<1>2. /\ modules \subseteq Modules /\ flags \subseteq Flags
      /\ "USER_SETUP" \notin modules => flags = {}
  BY <1>1, PermissionsAre DEF HasSetup
<1>3. QED
  BY <1>1, <1>2, PermissionsAre

LEMMA GivenType ==
  ASSUME NEW p \in Permissions
  PROVE  GivenAtFirst(p) \subseteq SUBSET Flags
BY PermissionsAre DEF GivenAtFirst

\* What an update may give is a set of permissions.
LEMMA WithoutType ==
  ASSUME NEW name, NEW wanted \in Permissions
  PROVE  WithoutUserSetup(name, wanted) \in Permissions
<1>1. wanted.modules \ {"USER_SETUP"} \subseteq Modules /\ {} \subseteq Flags
  BY PermissionsAre
<1>2. [modules |-> wanted.modules \ {"USER_SETUP"}, flags |-> {}] \in Permissions
  BY <1>1, PermissionsAre
<1>3. QED
  BY <1>2 DEF WithoutUserSetup

LEMMA AllowedType ==
  ASSUME AccessTypes, role.exists, NEW name, NEW wanted \in Permissions
  PROVE  AllowedPermissions(name, wanted) \in Permissions
<1>1. PICK modules, flags : /\ modules = wanted.modules \cup {"USER_SETUP"}
                            /\ flags = role.perms.flags
  OBVIOUS
<1>2. modules \subseteq Modules /\ "USER_SETUP" \in modules
  BY <1>1, PermissionsAre DEF Modules
<1>3. flags \subseteq Flags
  BY <1>1, RoleType, PermissionsAre
<1>4. [modules |-> modules, flags |-> flags] \in Permissions
  BY <1>2, <1>3, PermissionsAre
<1>5. QED
  BY <1>1, <1>4, WithoutType DEF AllowedPermissions

LEMMA SeededType ==
  ASSUME NEW name \in {"Admin", "Other"}, NEW r \in Seeded(name)
  PROVE  /\ r \in [exists : {TRUE}, name : Names, perms : Permissions, system : BOOLEAN]
         /\ HasSetup(r.perms) /\ r.name = name
<1>1. \A flags \in SeededFlags(name) : flags \subseteq Flags
  BY DEF SeededFlags
<1>2. PICK modules, flags :
        /\ modules = Modules /\ flags \in SeededFlags(name)
        /\ r = [exists |-> TRUE, name |-> name, perms |-> [modules |-> modules, flags |-> flags],
                system |-> TRUE]
  <2>1. r = [exists |-> r.exists, name |-> r.name, perms |-> r.perms, system |-> r.system]
    BY DEF Seeded
  <2>2. /\ r.exists = TRUE /\ r.name = name /\ r.system = TRUE
        /\ r.perms \in [modules : {Modules}, flags : SeededFlags(name)]
    BY DEF Seeded
  <2>3. PICK perms : perms = r.perms
    OBVIOUS
  <2>4. perms = [modules |-> Modules, flags |-> perms.flags] /\ perms.flags \in SeededFlags(name)
    BY <2>2, <2>3
  <2>5. QED
    BY <2>1, <2>2, <2>3, <2>4
<1>3. "USER_SETUP" \in modules /\ modules \subseteq Modules
  BY <1>2 DEF Modules
<1>4. [modules |-> modules, flags |-> flags] \in Permissions
  BY <1>1, <1>2, <1>3, PermissionsAre
<1>5. QED
  BY <1>2, <1>3, <1>4 DEF Names, Admins, HasSetup

\* There is no role yet, or one that may manage users, or look at them.
LEMMA FirstRole ==
  ASSUME AccessInit
  PROVE  \/ role = NoRole /\ ~role.exists /\ names = {} /\ given = {}
         \/ /\ role \in [exists : {TRUE}, name : Names, perms : Permissions, system : BOOLEAN]
            /\ HasSetup(role.perms) /\ names = {role.name} /\ given = {role.perms.flags}
<1>1. CASE role = NoRole
  <2>1. NoRole.exists = FALSE
    BY DEF NoRole
  <2>2. QED
    BY <1>1, <2>1 DEF AccessInit
<1>2. CASE role \in Seeded("Admin") \/ role \in Seeded("Other")
  <2>1. /\ role \in [exists : {TRUE}, name : Names, perms : Permissions, system : BOOLEAN]
        /\ HasSetup(role.perms)
    BY <1>2, SeededType
  <2>2. role.exists = TRUE
    BY <2>1
  <2>3. QED
    BY <2>1, <2>2 DEF AccessInit, GivenAtFirst
<1>3. QED
  BY <1>1, <1>2 DEF AccessInit

LEMMA InitTypes == AccessInit => AccessTypes
<1> SUFFICES ASSUME AccessInit
             PROVE  AccessTypes
  OBVIOUS
<1>1. role \in Role /\ names \subseteq Names /\ given \subseteq SUBSET Flags
  <2>1. CASE role = NoRole /\ names = {} /\ given = {}
    BY <2>1 DEF Role
  <2>2. CASE /\ role \in [exists : {TRUE}, name : Names, perms : Permissions, system : BOOLEAN]
             /\ names = {role.name} /\ given = {role.perms.flags}
    <3>1. role.name \in Names /\ role.perms \in Permissions
      BY <2>2
    <3>2. QED
      BY <2>2, <3>1, PermissionsAre DEF Role
  <2>3. QED
    BY <2>1, <2>2, FirstRole
<1>2. act \in [Clerks -> Act]
  BY DEF AccessInit, Act
<1>3. 0 \in 0 .. MaxRequests /\ 0 \in 0 .. MaxBreaks
  BY AccessAssumption
<1>4. QED
  BY <1>1, <1>2, <1>3 DEF AccessInit, AccessTypes

\* A call that begins is counted.
LEMMA BeginTypes ==
  ASSUME AccessTypes, NEW c \in Clerks, NEW to \in Act, ActBegins(c, to)
  PROVE  /\ act' \in [Clerks -> Act]
         /\ asked' \in 0 .. MaxRequests
         /\ breaks' \in 0 .. MaxBreaks
<1>1. asked \in Nat /\ asked' = asked + 1 /\ asked < MaxRequests /\ MaxRequests \in Nat
  BY AccessAssumption DEF AccessTypes, ActBegins
<1>2. QED
  BY <1>1 DEF AccessTypes, ActBegins, ActGoes

LEMMA ContinueTypes ==
  ASSUME AccessTypes, NEW c \in Clerks, NEW step, NEW to \in Act, ActContinues(c, step, to)
  PROVE  /\ act' \in [Clerks -> Act]
         /\ asked' \in 0 .. MaxRequests
         /\ breaks' \in 0 .. MaxBreaks
BY DEF AccessTypes, ActContinues, ActGoes

LEMMA WaitsType ==
  /\ NoAct \in Act
  /\ \A step \in {"delete", "address", "insert", "invite"} : Waits(step) \in Act
BY DEF Act, Waits

\* What an update reads and settles on: to is the call that it becomes.
ReadsAs(c, name, wanted, to) ==
  /\ role.exists
  /\ to \in [step : {"clear", "write"}, rename : Names \cup {"kept"}, gives : BOOLEAN,
             perms : Permissions, bare : BOOLEAN]
  /\ to.step = IF to.gives THEN "clear" ELSE "write"
  /\ name = IF to.rename = "kept" THEN role.name ELSE to.rename
  /\ to.perms = IF to.gives THEN AllowedPermissions(name, wanted) ELSE Bare
  /\ to.bare = (to.gives /\ ~HasSetup(role.perms))
  /\ ActBegins(c, to)
  /\ given' = given \cup Named(name, wanted)
  /\ ~to.gives => wanted = Bare
  /\ UNCHANGED <<role, names, wroteBare, holder, invited>>

LEMMA ReadIs ==
  ASSUME AccessTypes, NEW c \in Clerks, ReadRole(c)
  PROVE  \E name : \E wanted \in Permissions : \E to : ReadsAs(c, name, wanted, to)
<1>1. PICK rename \in Names \cup {"kept"}, gives \in BOOLEAN, wanted \in Permissions :
        LET name == IF rename = "kept" THEN role.name ELSE rename IN
        /\ ~gives => wanted = Bare
        /\ ActBegins(c, [step |-> IF gives THEN "clear" ELSE "write", rename |-> rename,
                         gives |-> gives,
                         perms |-> IF gives THEN AllowedPermissions(name, wanted) ELSE Bare,
                         bare |-> gives /\ ~HasSetup(role.perms)])
        /\ given' = given \cup Named(name, wanted)
  BY DEF ReadRole
<1>2. role.exists /\ UNCHANGED <<role, names, wroteBare, holder, invited>>
  BY DEF ReadRole
<1>3. PICK name, perms, bare :
        /\ name = IF rename = "kept" THEN role.name ELSE rename
        /\ perms = IF gives THEN AllowedPermissions(name, wanted) ELSE Bare
        /\ bare = (gives /\ ~HasSetup(role.perms))
  OBVIOUS
<1>4. perms \in Permissions /\ bare \in BOOLEAN
  BY <1>2, <1>3, AllowedType, PermissionsAre
<1>5. PICK to : to = [step |-> IF gives THEN "clear" ELSE "write", rename |-> rename,
                      gives |-> gives, perms |-> perms, bare |-> bare]
  OBVIOUS
<1>6. ActBegins(c, to)
  BY <1>1, <1>3, <1>5
<1>7. /\ to \in [step : {"clear", "write"}, rename : Names \cup {"kept"}, gives : BOOLEAN,
                 perms : Permissions, bare : BOOLEAN]
      /\ to.step = (IF gives THEN "clear" ELSE "write")
      /\ to.rename = rename /\ to.gives = gives /\ to.perms = perms /\ to.bare = bare
  BY <1>4, <1>5
<1>8. ReadsAs(c, name, wanted, to)
  BY <1>1, <1>2, <1>3, <1>6, <1>7 DEF ReadsAs
<1>9. QED
  BY <1>8

\* What an update that does not fail leaves of the role.
WritesAs(c) ==
  /\ role.exists
  /\ role' \in [exists : {TRUE}, name : Names, perms : Permissions, system : BOOLEAN]
  /\ role'.name = IF act[c].rename = "kept" THEN role.name ELSE act[c].rename
  /\ role'.perms = [modules |-> role.perms.modules \cup act[c].perms.modules,
                    flags |-> role.perms.flags \cup act[c].perms.flags]
  /\ act[c].gives => act[c].perms.modules \cap role.perms.modules = {}
  /\ names' = names \cup {role'.name}
  /\ wroteBare' = (wroteBare \/ act[c].bare)
  /\ wroteBare' \in BOOLEAN

LEMMA WriteIs ==
  ASSUME AccessTypes, NEW c \in Clerks, WriteRole(c)
  PROVE  \/ WritesAs(c)
         \/ /\ UNCHANGED <<role, names, wroteBare>>
            /\ role.exists => act[c].gives /\ act[c].perms.modules \cap role.perms.modules # {}
<1>1. CASE role.exists /\ (act[c].gives => act[c].perms.modules \cap role.perms.modules = {})
  <2>1. PICK system \in BOOLEAN, perms \in {[modules |-> role.perms.modules \cup act[c].perms.modules,
                                            flags |-> role.perms.flags \cup act[c].perms.flags]} :
          role' = [role EXCEPT !.name = IF act[c].rename = "kept" THEN @ ELSE act[c].rename,
                               !.perms = perms, !.system = system]
    BY <1>1 DEF WriteRole
  <2>2. names' = names \cup {role'.name} /\ wroteBare' = (wroteBare \/ act[c].bare)
    BY <1>1 DEF WriteRole
  <2>3. act[c] \in [step : {"clear", "write"}, rename : Names \cup {"kept"}, gives : BOOLEAN,
                    perms : Permissions, bare : BOOLEAN]
    BY UpdateType DEF WriteRole, ActContinues
  <2>4. role \in [exists : {TRUE}, name : Names, perms : Permissions, system : BOOLEAN]
    BY <1>1, RoleType
  <2>5. role.perms \in Permissions /\ act[c].perms \in Permissions
    BY <2>3, <2>4
  <2>6. perms \in Permissions
    BY <2>5, JoinType
  <2>7. /\ role' \in [exists : {TRUE}, name : Names, perms : Permissions, system : BOOLEAN]
        /\ role'.name = (IF act[c].rename = "kept" THEN role.name ELSE act[c].rename)
        /\ role'.perms = perms
    BY <2>1, <2>3, <2>4, <2>6
  <2>8. wroteBare' \in BOOLEAN
    BY <2>2, <2>3 DEF AccessTypes
  <2>9. QED
    BY <1>1, <2>1, <2>2, <2>7, <2>8 DEF WritesAs
<1>2. CASE ~(role.exists /\ (act[c].gives => act[c].perms.modules \cap role.perms.modules = {}))
  BY <1>2 DEF WriteRole
<1>3. QED
  BY <1>1, <1>2

LEMMA NextTypes == AccessTypes /\ [AccessNext]_accessVars => AccessTypes'
<1> SUFFICES ASSUME AccessTypes, [AccessNext]_accessVars
             PROVE  AccessTypes'
  OBVIOUS
<1> USE DEF roleVars
<1>1. ASSUME NEW c \in Clerks, CreateRole(c)
      PROVE  AccessTypes'
  <2>1. PICK name \in Names, wanted \in Permissions, system \in BOOLEAN :
          /\ role' = [exists |-> TRUE, name |-> name, perms |-> WithoutUserSetup(name, wanted),
                      system |-> system]
          /\ names' = {name}
    BY <1>1 DEF CreateRole
  <2>2. role' \in Role /\ given' \subseteq SUBSET Flags
    <3>1. PICK perms : perms = WithoutUserSetup(name, wanted)
      OBVIOUS
    <3>2. perms \in Permissions
      BY <3>1, WithoutType
    <3>3. role' = [exists |-> TRUE, name |-> name, perms |-> perms, system |-> system]
      BY <2>1, <3>1
    <3>4. role' \in Role /\ role'.perms = perms
      BY <3>2, <3>3 DEF Role
    <3>5. QED
      BY <1>1, <3>2, <3>4, GivenType DEF CreateRole
  <2>3. wroteBare' = wroteBare
    BY <1>1 DEF CreateRole
  <2>4. QED
    BY <1>1, <2>1, <2>2, <2>3, BeginTypes, WaitsType DEF CreateRole, AccessTypes
<1>2. ASSUME NEW c \in Clerks, ReadRole(c)
      PROVE  AccessTypes'
  <2>1. PICK name, wanted, to : wanted \in Permissions /\ ReadsAs(c, name, wanted, to)
    BY <1>2, ReadIs
  <2>2. act' \in [Clerks -> Act] /\ asked' \in 0 .. MaxRequests /\ breaks' \in 0 .. MaxBreaks
    BY <2>1, BeginTypes DEF ReadsAs, Act
  <2>3. given' \subseteq SUBSET Flags
    <3>1. Named(name, wanted) \subseteq SUBSET Flags
      BY <2>1, PermissionsAre DEF Named
    <3>2. QED
      BY <2>1, <3>1 DEF ReadsAs, AccessTypes
  <2>4. QED
    BY <2>1, <2>2, <2>3 DEF ReadsAs, AccessTypes
<1>3. ASSUME NEW c \in Clerks, ClearPermissions(c)
      PROVE  AccessTypes'
  <2>1. [act[c] EXCEPT !.step = "write"] \in Act
    BY <1>3, UpdateType DEF ClearPermissions, ActContinues, Act
  <2>2. role' \in Role
    BY <1>3, RoleType, PermissionsAre DEF ClearPermissions, Role, AccessTypes
  <2>3. QED
    BY <1>3, <2>1, <2>2, ContinueTypes DEF ClearPermissions, AccessTypes
<1>4. ASSUME NEW c \in Clerks, WriteRole(c)
      PROVE  AccessTypes'
  <2>1. role' \in Role /\ names' \subseteq Names /\ wroteBare' \in BOOLEAN
    <3>1. CASE UNCHANGED <<role, names, wroteBare>>
      BY <3>1 DEF AccessTypes
    <3>2. CASE ~UNCHANGED <<role, names, wroteBare>>
      <4>1. WritesAs(c)
        BY <1>4, <3>2, WriteIs
      <4>2. QED
        BY <4>1 DEF WritesAs, Role, AccessTypes
    <3>3. QED
      BY <3>1, <3>2
  <2>2. QED
    BY <1>4, <2>1, ContinueTypes, WaitsType DEF WriteRole, AccessTypes
<1>5. ASSUME NEW c \in Clerks, DeleteRole(c)
      PROVE  AccessTypes'
  <2>1. role' \in Role
    BY <1>5 DEF DeleteRole, Role, AccessTypes
  <2>2. QED
    BY <1>5, <2>1, ContinueTypes, WaitsType DEF DeleteRole, AccessTypes
<1>6. ASSUME NEW c \in Clerks, FindRole(c) \/ CheckRoles(c) \/ CheckInvitation(c)
      PROVE  AccessTypes'
  <2>1. \E step \in {"delete", "address", "invite"} : ActBegins(c, Waits(step))
    BY <1>6 DEF FindRole, CheckRoles, CheckInvitation
  <2>2. act' \in [Clerks -> Act] /\ asked' \in 0 .. MaxRequests /\ breaks' \in 0 .. MaxBreaks
    BY <2>1, BeginTypes, WaitsType
  <2>3. QED
    BY <1>6, <2>2 DEF FindRole, CheckRoles, CheckInvitation, AccessTypes
<1>7. ASSUME NEW c \in Clerks, CheckAddress(c) \/ CreateUser(c)
      PROVE  AccessTypes'
  <2>1. holder' \in BOOLEAN
    BY <1>7 DEF CheckAddress, CreateUser, AccessTypes, Role, NoRole
  <2>2. act' \in [Clerks -> Act] /\ asked' \in 0 .. MaxRequests /\ breaks' \in 0 .. MaxBreaks
    BY <1>7, ContinueTypes, WaitsType DEF CheckAddress, CreateUser
  <2>3. QED
    BY <1>7, <2>1, <2>2 DEF CheckAddress, CreateUser, AccessTypes
<1>8. ASSUME NEW c \in Clerks, CreateInvitation(c)
      PROVE  AccessTypes'
  <2>1. invited' \in Nat
    BY <1>8 DEF CreateInvitation, AccessTypes
  <2>2. QED
    BY <1>8, <2>1, ContinueTypes, WaitsType DEF CreateInvitation, AccessTypes
<1>9. ASSUME NEW c \in Clerks, RemoveInvitation(c)
      PROVE  AccessTypes'
  <2>1. invited' \in Nat
    BY <1>9 DEF RemoveInvitation, AccessTypes
  <2>2. QED
    BY <1>9, <2>1, BeginTypes, WaitsType DEF RemoveInvitation, AccessTypes
<1>10. ASSUME NEW c \in Clerks, ActBreaks(c)
       PROVE  AccessTypes'
  <2>1. breaks' \in 0 .. MaxBreaks
    BY <1>10, AccessAssumption DEF ActBreaks, AccessTypes
  <2>2. act' \in [Clerks -> Act]
    BY <1>10, WaitsType DEF ActBreaks, ActGoes, AccessTypes
  <2>3. QED
    BY <1>10, <2>1, <2>2 DEF ActBreaks, AccessTypes
<1>11. CASE UNCHANGED accessVars
  BY <1>11 DEF accessVars, AccessTypes
<1>12. QED
  BY <1>1, <1>2, <1>3, <1>4, <1>5, <1>6, <1>7, <1>8, <1>9, <1>10, <1>11
     DEF AccessNext, RoleCall, PeopleCall

(***************************************************************************)
(* Invitations.                                                            *)
(***************************************************************************)
LEMMA InvitingFinite ==
  /\ IsFiniteSet(Inviting) /\ Cardinality(Inviting) \in Nat
  /\ IsFiniteSet(Clerks) /\ Cardinality(Clerks) \in Nat
  /\ Cardinality(Inviting) =< Cardinality(Clerks)
BY AccessAssumption, FS_Subset, FS_CardinalityType DEF Inviting

\* A call that leaves its step, and does not go on to make an invitation.
LEMMA NoneBegins ==
  ASSUME AccessTypes, NEW c \in Clerks, NEW to, ActGoes(c, to), to.step # "invite"
  PROVE  Inviting' = Inviting \ {c} /\ Cardinality(Inviting') =< Cardinality(Inviting)
         /\ Cardinality(Inviting') \in Nat
<1>1. Inviting' = Inviting \ {c}
  BY OthersStay DEF Inviting
<1>2. QED
  BY <1>1, InvitingFinite, FS_Subset, FS_CardinalityType

\* What follows when no call begins to make an invitation and none is made.
LEMMA CountKept ==
  ASSUME AccessTypes, InvitationsCounted, invited' \in Nat, invited' =< invited,
         asked' \in Nat, asked =< asked',
         Cardinality(Inviting') \in Nat, Cardinality(Inviting') =< Cardinality(Inviting)
  PROVE  InvitationsCounted'
<1>1. invited \in Nat /\ asked \in Nat
  BY DEF AccessTypes
<1>2. invited' + Cardinality(Inviting') =< invited + Cardinality(Inviting)
  BY <1>1, InvitingFinite
<1>3. QED
  BY <1>1, <1>2, InvitingFinite DEF InvitationsCounted

LEMMA NextCounted ==
  AccessTypes /\ InvitationsCounted /\ [AccessNext]_accessVars => InvitationsCounted'
<1> SUFFICES ASSUME AccessTypes, InvitationsCounted, [AccessNext]_accessVars
             PROVE  InvitationsCounted'
  OBVIOUS
<1> USE DEF roleVars
<1>0. AccessTypes' /\ invited \in Nat /\ asked \in Nat /\ asked' \in Nat /\ invited' \in Nat
  BY NextTypes DEF AccessTypes
<1>1. ASSUME NEW c \in Clerks, NEW to, ActGoes(c, to), to.step # "invite",
             invited' =< invited, asked =< asked'
      PROVE  InvitationsCounted'
  BY <1>0, <1>1, NoneBegins, CountKept
<1>2. ASSUME NEW c \in Clerks, CheckInvitation(c)
      PROVE  InvitationsCounted'
  <2>1. invited = 0 /\ invited' = 0 /\ asked' = asked + 1 /\ ActGoes(c, Waits("invite"))
        /\ act[c] = NoAct
    BY <1>2 DEF CheckInvitation, ActBegins
  <2>2. Inviting' = Inviting \cup {c} /\ c \notin Inviting
    BY <2>1, OthersStay DEF Inviting, Waits, NoAct
  <2>3. Cardinality(Inviting') = Cardinality(Inviting) + 1
    BY <2>2, InvitingFinite, FS_AddElement
  <2>4. Inviting' \subseteq Clerks
    BY <2>2 DEF Inviting
  <2>5. Cardinality(Inviting') =< Cardinality(Clerks)
    BY <2>4, InvitingFinite, FS_Subset
  <2>6. QED
    BY <1>0, <2>1, <2>3, <2>5, InvitingFinite DEF InvitationsCounted
<1>3. ASSUME NEW c \in Clerks, CreateInvitation(c)
      PROVE  InvitationsCounted'
  <2>1. c \in Inviting /\ ActGoes(c, NoAct) /\ asked' = asked /\ invited' =< invited + 1
    BY <1>0, <1>3 DEF CreateInvitation, ActContinues, Inviting
  <2>2. Inviting' = Inviting \ {c}
    BY <2>1, OthersStay DEF Inviting, NoAct
  <2>3. Cardinality(Inviting') = Cardinality(Inviting) - 1
    BY <2>1, <2>2, InvitingFinite, FS_RemoveElement
  <2>4. invited' + Cardinality(Inviting') =< invited + Cardinality(Inviting)
    BY <1>0, <2>1, <2>3, InvitingFinite
  <2>5. invited' + Cardinality(Inviting') \in Int
    BY <1>0, <2>3, InvitingFinite
  <2>6. QED
    BY <1>0, <2>1, <2>4, <2>5, InvitingFinite DEF InvitationsCounted
<1>4. ASSUME NEW c \in Clerks,
             \/ CreateRole(c) \/ ReadRole(c) \/ FindRole(c) \/ CheckRoles(c)
             \/ RemoveInvitation(c)
      PROVE  InvitationsCounted'
  <2>1. asked' = asked + 1 /\ invited' =< invited
    <3>1. CASE CreateRole(c) \/ FindRole(c) \/ CheckRoles(c)
      BY <1>0, <3>1 DEF CreateRole, FindRole, CheckRoles, ActBegins
    <3>2. CASE RemoveInvitation(c)
      BY <1>0, <3>2 DEF RemoveInvitation, ActBegins
    <3>3. CASE ReadRole(c)
      <4>1. \E to : ActBegins(c, to)
        BY <3>3, ReadIs DEF ReadsAs
      <4>2. QED
        BY <1>0, <3>3, <4>1 DEF ReadRole, ActBegins
    <3>4. QED
      BY <1>4, <3>1, <3>2, <3>3
  <2>2. \E to : ActGoes(c, to) /\ to.step # "invite"
    <3>1. CASE ReadRole(c)
      <4>1. PICK to : ActBegins(c, to) /\ to.step # "invite"
        BY <3>1, ReadIs DEF ReadsAs
      <4>2. QED
        BY <4>1 DEF ActBegins
    <3>2. CASE CreateRole(c) \/ RemoveInvitation(c)
      BY <3>2 DEF CreateRole, RemoveInvitation, ActBegins, NoAct
    <3>3. CASE FindRole(c) \/ CheckRoles(c)
      BY <3>3 DEF FindRole, CheckRoles, ActBegins, Waits
    <3>4. QED
      BY <1>4, <3>1, <3>2, <3>3
  <2>3. QED
    BY <1>0, <1>1, <2>1, <2>2
<1>5. ASSUME NEW c \in Clerks,
             \/ ClearPermissions(c) \/ WriteRole(c) \/ DeleteRole(c)
             \/ CheckAddress(c) \/ CreateUser(c) \/ ActBreaks(c)
      PROVE  InvitationsCounted'
  <2>1. asked' = asked /\ invited' = invited
    BY <1>5 DEF ClearPermissions, WriteRole, DeleteRole, CheckAddress, CreateUser, ActBreaks,
                ActContinues
  <2>2. \E to : ActGoes(c, to) /\ to.step # "invite"
    <3>1. CASE ClearPermissions(c)
      <4>1. ActGoes(c, [act[c] EXCEPT !.step = "write"])
        BY <3>1 DEF ClearPermissions, ActContinues
      <4>2. [act[c] EXCEPT !.step = "write"].step = "write"
        BY <3>1, UpdateType DEF ClearPermissions, ActContinues
      <4>3. QED
        BY <4>1, <4>2
    <3>2. CASE WriteRole(c) \/ DeleteRole(c) \/ CreateUser(c) \/ ActBreaks(c)
      <4>1. ActGoes(c, NoAct)
        BY <3>2 DEF WriteRole, DeleteRole, CreateUser, ActBreaks, ActContinues
      <4>2. NoAct.step # "invite"
        BY DEF NoAct
      <4>3. QED
        BY <4>1, <4>2
    <3>3. CASE CheckAddress(c)
      BY <3>3 DEF CheckAddress, ActContinues, NoAct, Waits
    <3>4. QED
      BY <1>5, <3>1, <3>2, <3>3
  <2>3. QED
    BY <1>0, <1>1, <2>1, <2>2
<1>6. CASE UNCHANGED accessVars
  BY <1>6 DEF accessVars, InvitationsCounted, Inviting
<1>7. QED
  BY <1>2, <1>3, <1>4, <1>5, <1>6 DEF AccessNext, RoleCall, PeopleCall

(***************************************************************************)
(* Roles.                                                                  *)
(***************************************************************************)
Updating(c) == act[c].step \in {"clear", "write"}

\* The role has one of the names it has had; before it is made nobody updates it or
\* has it; an update that brings no permissions has none to write.
RoleFits ==
  /\ role.exists => role.name \in names
  /\ names = {} => ~holder /\ \A c \in Clerks : act[c].step \notin {"clear", "write", "address", "insert"}
  /\ \A c \in Clerks : Updating(c) => act[c].gives \/ (act[c].step = "write" /\ act[c].perms = Bare)

\* The permission on USER_SETUP with flags that the role was made with or given.
Keeps(perms) == HasSetup(perms) /\ perms.flags \in given

\* A role always called Admin lacks USER_SETUP only while it is bare, between two
\* statements of an update; and every update that keeps the name brings it, unless
\* it read the role meanwhile.
AdminFits ==
  names \subseteq Admins /\ given # {} /\ breaks = 0 /\ ~wroteBare =>
    /\ role.exists => Keeps(role.perms) \/ (role.perms = Bare /\ \E c \in Clerks : Cleared(c))
    /\ \A c \in Clerks :
         Updating(c) /\ act[c].gives /\ act[c].rename # "Other" =>
           act[c].bare \/ Keeps(act[c].perms)

\* A role never called Admin is not given USER_SETUP, and once it was found not to
\* manage users, it does not for good.
OtherFits ==
  names = {"Other"} =>
    /\ \A c \in Clerks :
         Updating(c) /\ act[c].rename \notin Admins => ~HasSetup(act[c].perms)
    /\ holder \/ (\E c \in Clerks : act[c].step \in {"address", "insert"}) => ~CanManage

RolesInv == RoleFits /\ AdminFits /\ OtherFits

LEMMA InitRolesInv == AccessInit => RolesInv
<1> SUFFICES ASSUME AccessInit
             PROVE  RolesInv
  OBVIOUS
<1>1. \A c \in Clerks : act[c].step = "idle"
  BY DEF AccessInit, NoAct
<1>2. \/ role = NoRole /\ ~role.exists /\ names = {} /\ given = {}
      \/ /\ role \in [exists : {TRUE}, name : Names, perms : Permissions, system : BOOLEAN]
         /\ HasSetup(role.perms) /\ names = {role.name} /\ given = {role.perms.flags}
  BY FirstRole
<1>3. RoleFits
  BY <1>1, <1>2 DEF AccessInit, RoleFits, Updating
<1>4. AdminFits
  BY <1>1, <1>2 DEF AdminFits, Updating, Keeps
<1>5. OtherFits
  BY <1>1 DEF AccessInit, OtherFits, Updating
<1>6. QED
  BY <1>3, <1>4, <1>5 DEF RolesInv

\* A step that changes neither the role nor who has it, and after which the call
\* neither updates the role nor waits to make a user.
LEMMA RolesQuietKeep ==
  ASSUME AccessTypes, RolesInv, NEW c \in Clerks, NEW to, ActGoes(c, to),
         to.step \notin {"clear", "write", "address", "insert"},
         ~Cleared(c) \/ breaks' > 0,
         UNCHANGED <<roleVars, holder>>, breaks \in Nat, breaks' \in Nat, breaks' >= breaks
  PROVE  RolesInv'
<1> USE DEF roleVars
<1>1. act'[c] = to /\ \A d \in Clerks \ {c} : act'[d] = act[d]
  BY OthersStay
<1>2. RoleFits'
  BY <1>1 DEF RolesInv, RoleFits, Updating
<1>3. breaks' = 0 => breaks = 0
  OBVIOUS
<1>4. breaks' = 0 /\ (\E d \in Clerks : Cleared(d)) => \E d \in Clerks : Cleared(d)'
  BY <1>1 DEF Cleared
<1>5. AdminFits'
  BY <1>1, <1>3, <1>4 DEF RolesInv, AdminFits, Updating, Keeps
<1>6. OtherFits'
  BY <1>1 DEF RolesInv, OtherFits, Updating, CanManage, Grants
<1>7. QED
  BY <1>2, <1>5, <1>6 DEF RolesInv

LEMMA NextRolesInv == AccessTypes /\ RolesInv /\ [AccessNext]_accessVars => RolesInv'
<1> SUFFICES ASSUME AccessTypes, RolesInv, [AccessNext]_accessVars
             PROVE  RolesInv'
  OBVIOUS
<1> USE DEF roleVars
<1>0. AccessTypes' /\ breaks \in Nat /\ breaks' \in Nat
  BY NextTypes DEF AccessTypes
<1>1. ASSUME NEW c \in Clerks, CreateRole(c)
      PROVE  RolesInv'
  <2>1. PICK name \in Names, wanted \in Permissions, system \in BOOLEAN :
          /\ role' = [exists |-> TRUE, name |-> name, perms |-> WithoutUserSetup(name, wanted),
                      system |-> system]
          /\ names' = {name}
    BY <1>1 DEF CreateRole
  <2>2. names = {} /\ ~holder' /\ ActGoes(c, NoAct) /\ given' = GivenAtFirst(role'.perms)
        /\ UNCHANGED <<breaks, wroteBare>>
    BY <1>1 DEF CreateRole, ActBegins, RolesInv, RoleFits
  <2>3. \A d \in Clerks : act'[d].step \notin {"clear", "write", "address", "insert"}
    BY <2>2, OthersStay DEF RolesInv, RoleFits, NoAct
  <2>4. RoleFits'
    BY <2>1, <2>3 DEF RoleFits, Updating
  <2>5. AdminFits'
    BY <2>2, <2>3 DEF AdminFits, Updating, Keeps, GivenAtFirst
  <2>6. OtherFits'
    BY <2>2, <2>3 DEF OtherFits, Updating
  <2>7. QED
    BY <2>4, <2>5, <2>6 DEF RolesInv
<1>2. ASSUME NEW c \in Clerks, ReadRole(c)
      PROVE  RolesInv'
  <2>1. PICK name, wanted, to : wanted \in Permissions /\ ReadsAs(c, name, wanted, to)
    BY <1>2, ReadIs
  <2>2. role.exists /\ role.name \in names /\ act[c] = NoAct /\ ActGoes(c, to)
        /\ UNCHANGED <<role, names, wroteBare, holder, breaks>>
    BY <2>1 DEF ReadsAs, ActBegins, RolesInv, RoleFits
  <2>3. act'[c] = to /\ \A d \in Clerks \ {c} : act'[d] = act[d]
    BY <2>2, OthersStay
  <2>4. to.step \in {"clear", "write"} /\ (to.gives \/ (to.step = "write" /\ to.perms = Bare))
    BY <2>1 DEF ReadsAs
  <2>5. RoleFits'
    BY <2>2, <2>3, <2>4 DEF RolesInv, RoleFits, Updating
  <2>6. \A d \in Clerks : Cleared(d) => Cleared(d)'
    BY <2>2, <2>3 DEF Cleared, NoAct
  <2>7. AdminFits'
    <3> SUFFICES ASSUME names' \subseteq Admins, given' # {}, breaks' = 0, ~wroteBare'
                 PROVE  /\ Keeps(role.perms)' \/ (role'.perms = Bare /\ \E d \in Clerks : Cleared(d)')
                        /\ \A d \in Clerks :
                             Updating(d)' /\ act'[d].gives /\ act'[d].rename # "Other" =>
                               act'[d].bare \/ Keeps(act[d].perms)'
      BY DEF AdminFits
    <3>1. given # {} /\ given \subseteq given' /\ given' = given \cup Named(name, wanted)
      BY <2>1 DEF ReadsAs, Named
    <3>2. /\ Keeps(role.perms) \/ (role.perms = Bare /\ \E d \in Clerks : Cleared(d))
          /\ \A d \in Clerks :
               Updating(d) /\ act[d].gives /\ act[d].rename # "Other" =>
                 act[d].bare \/ Keeps(act[d].perms)
      BY <2>2, <3>1 DEF RolesInv, AdminFits
    <3>3. ASSUME to.gives, to.rename # "Other", ~to.bare
          PROVE  HasSetup(to.perms) /\ to.perms.flags \in given'
      <4>1. HasSetup(role.perms) /\ role.perms.flags \in given
        BY <2>1, <3>2, <3>3, PermissionsAre DEF ReadsAs, Keeps
      <4>2. name \in Admins /\ to.perms = AllowedPermissions(name, wanted)
        BY <2>1, <2>2, <3>3 DEF ReadsAs, Names
      <4>3. CASE HasSetup(wanted)
        <5>1. to.perms = wanted
          BY <4>2, <4>3 DEF AllowedPermissions, WithoutUserSetup
        <5>2. wanted.flags \in Named(name, wanted)
          BY <3>1, <4>2, <4>3 DEF Named
        <5>3. QED
          BY <3>1, <4>3, <5>1, <5>2
      <4>4. CASE ~HasSetup(wanted)
        <5>1. to.perms = [modules |-> wanted.modules \cup {"USER_SETUP"},
                          flags |-> role.perms.flags]
          BY <4>1, <4>2, <4>4 DEF AllowedPermissions
        <5>2. QED
          BY <3>1, <4>1, <5>1 DEF HasSetup
      <4>5. QED
        BY <4>3, <4>4
    <3>4. Keeps(role.perms)' \/ (role'.perms = Bare /\ \E d \in Clerks : Cleared(d)')
      BY <2>2, <2>6, <3>1, <3>2 DEF Keeps
    <3>5. ASSUME NEW d \in Clerks, Updating(d)', act'[d].gives, act'[d].rename # "Other"
          PROVE  act'[d].bare \/ Keeps(act[d].perms)'
      <4>1. CASE d = c
        BY <2>3, <3>3, <3>5, <4>1 DEF Keeps
      <4>2. CASE d # c
        BY <2>3, <3>1, <3>2, <3>5, <4>2 DEF Keeps, Updating
      <4>3. QED
        BY <4>1, <4>2
    <3>6. QED
      BY <3>4, <3>5
  <2>8. OtherFits'
    <3> SUFFICES ASSUME names' = {"Other"}
                 PROVE  OtherFits'
      BY DEF OtherFits
    <3>1. to.rename \notin Admins => ~HasSetup(to.perms)
      <4>1. ASSUME to.rename \notin Admins, to.gives
            PROVE  ~HasSetup(to.perms)
        <5>1. name \notin Admins
          BY <2>1, <2>2, <4>1 DEF ReadsAs, Admins
        <5>2. to.perms = [modules |-> wanted.modules \ {"USER_SETUP"}, flags |-> {}]
          BY <2>1, <4>1, <5>1 DEF ReadsAs, AllowedPermissions, WithoutUserSetup
        <5>3. QED
          BY <5>2 DEF HasSetup
      <4>2. QED
        BY <2>4, <4>1, PermissionsAre
    <3>2. \A d \in Clerks : act'[d].step \in {"address", "insert"} => act'[d] = act[d]
      BY <2>3, <2>4
    <3>3. CanManage' = CanManage
      BY <2>2 DEF CanManage, Grants
    <3>4. QED
      BY <2>2, <2>3, <3>1, <3>2, <3>3 DEF RolesInv, OtherFits, Updating
  <2>9. QED
    BY <2>5, <2>7, <2>8 DEF RolesInv
<1>3. ASSUME NEW c \in Clerks, ClearPermissions(c)
      PROVE  RolesInv'
  <2>1. act[c].step = "clear" /\ ActGoes(c, [act[c] EXCEPT !.step = "write"])
        /\ role' = (IF role.exists THEN [role EXCEPT !.perms = Bare] ELSE role)
        /\ UNCHANGED <<names, given, wroteBare, holder, breaks>>
    BY <1>3 DEF ClearPermissions, ActContinues
  <2>2. /\ act'[c].step = "write" /\ act'[c].gives = act[c].gives
        /\ act'[c].rename = act[c].rename /\ act'[c].perms = act[c].perms
        /\ act'[c].bare = act[c].bare
        /\ \A d \in Clerks \ {c} : act'[d] = act[d]
    BY <2>1, OthersStay, UpdateType
  <2>3. act[c].gives /\ Cleared(c)'
    BY <2>1, <2>2 DEF RolesInv, RoleFits, Updating, Cleared
  <2>4. /\ role'.exists = role.exists
        /\ role.exists => role'.name = role.name /\ role'.perms = Bare
    BY <2>1, RoleType
  <2>5. RoleFits'
    <3>1. names' # {}
      BY <2>1 DEF RolesInv, RoleFits
    <3>2. role'.exists => role'.name \in names'
      BY <2>1, <2>4 DEF RolesInv, RoleFits
    <3>3. \A d \in Clerks : Updating(d)' => act'[d].gives \/ (act'[d].step = "write" /\ act'[d].perms = Bare)
      <4> SUFFICES ASSUME NEW d \in Clerks, Updating(d)'
                   PROVE  act'[d].gives \/ (act'[d].step = "write" /\ act'[d].perms = Bare)
        OBVIOUS
      <4>1. CASE d = c
        BY <2>2, <2>3, <4>1
      <4>2. CASE d # c
        BY <2>2, <4>2 DEF RolesInv, RoleFits, Updating
      <4>3. QED
        BY <4>1, <4>2
    <3>4. QED
      BY <3>1, <3>2, <3>3 DEF RoleFits
  <2>6. AdminFits'
    BY <2>1, <2>2, <2>3, <2>4 DEF RolesInv, AdminFits, Updating, Keeps
  <2>7. OtherFits'
    <3>1. CanManage' => CanManage
      BY <2>4, PermissionsAre DEF CanManage, Grants
    <3>2. QED
      BY <2>1, <2>2, <3>1 DEF RolesInv, OtherFits, Updating
  <2>8. QED
    BY <2>5, <2>6, <2>7 DEF RolesInv
<1>4. ASSUME NEW c \in Clerks, WriteRole(c)
      PROVE  RolesInv'
  <2>1. act[c].step = "write" /\ ActGoes(c, NoAct) /\ UNCHANGED <<given, holder, breaks>>
    BY <1>4 DEF WriteRole, ActContinues
  <2>2. act'[c] = NoAct /\ \A d \in Clerks \ {c} : act'[d] = act[d]
    BY <2>1, OthersStay
  <2>3. act[c] \in [step : {"clear", "write"}, rename : Names \cup {"kept"}, gives : BOOLEAN,
                    perms : Permissions, bare : BOOLEAN]
    BY <2>1, UpdateType
  <2>4. names # {} /\ (act[c].gives \/ (act[c].perms = Bare /\ ~Cleared(c)))
    BY <2>1 DEF RolesInv, RoleFits, Updating, Cleared
  <2>5. CASE WritesAs(c)
    <3>1. RoleFits'
      BY <2>1, <2>2, <2>5 DEF RolesInv, RoleFits, Updating, NoAct, WritesAs
    <3>2. role.perms \in Permissions /\ act[c].perms \in Permissions
      BY <2>3, <2>5, RoleType DEF WritesAs
    <3>3. PICK mine, its, joined :
            /\ mine = act[c].perms /\ its = role.perms /\ joined = role'.perms
            /\ joined = [modules |-> its.modules \cup mine.modules,
                         flags |-> its.flags \cup mine.flags]
            /\ act[c].gives => mine.modules \cap its.modules = {}
      BY <2>5 DEF WritesAs
    <3>4. mine \in Permissions /\ its \in Permissions
      BY <3>2, <3>3
    <3>5. /\ HasSetup(joined) <=> HasSetup(its) \/ HasSetup(mine)
          /\ act[c].gives /\ HasSetup(mine) => joined.flags = mine.flags
          /\ ~HasSetup(mine) => joined.flags = its.flags
      BY <3>3, <3>4, PermissionsAre DEF HasSetup
    <3>6. AdminFits'
      <4> SUFFICES ASSUME names' \subseteq Admins, given' # {}, breaks' = 0, ~wroteBare'
                   PROVE  AdminFits'
        BY DEF AdminFits
      <4>1. /\ names \subseteq Admins /\ given # {} /\ breaks = 0 /\ ~wroteBare /\ ~act[c].bare
            /\ act[c].rename # "Other"
        BY <2>1, <2>5 DEF WritesAs, Admins
      <4>2. /\ Keeps(its) \/ (its = Bare /\ \E d \in Clerks : Cleared(d))
            /\ \A d \in Clerks :
                 Updating(d) /\ act[d].gives /\ act[d].rename # "Other" =>
                   act[d].bare \/ Keeps(act[d].perms)
        BY <2>5, <3>3, <4>1 DEF RolesInv, AdminFits, WritesAs
      <4>3. Keeps(joined) \/ (joined = Bare /\ \E d \in Clerks : Cleared(d)')
        <5>1. CASE act[c].gives
          <6>1. Keeps(mine)
            BY <2>1, <3>3, <4>1, <4>2, <5>1 DEF Updating
          <6>2. QED
            BY <3>5, <5>1, <6>1 DEF Keeps
        <5>2. CASE ~act[c].gives
          <6>1. mine = Bare /\ ~Cleared(c)
            BY <2>4, <3>3, <5>2
          <6>2. CASE Keeps(its)
            BY <3>5, <6>1, <6>2, PermissionsAre DEF Keeps
          <6>3. CASE its = Bare /\ \E d \in Clerks : Cleared(d)
            <7>1. joined = Bare
              BY <3>3, <6>1, <6>3 DEF Bare
            <7>2. \E d \in Clerks : Cleared(d)'
              BY <2>2, <6>1, <6>3 DEF Cleared
            <7>3. QED
              BY <7>1, <7>2
          <6>4. QED
            BY <4>2, <6>2, <6>3
        <5>3. QED
          BY <5>1, <5>2
      <4>4. role'.exists => Keeps(role.perms)' \/ (role'.perms = Bare /\ \E d \in Clerks : Cleared(d)')
        BY <2>1, <3>3, <4>3 DEF Keeps
      <4>5. ASSUME NEW d \in Clerks, Updating(d)', act'[d].gives, act'[d].rename # "Other"
            PROVE  act'[d].bare \/ Keeps(act[d].perms)'
        <5>1. act'[d] = act[d]
          BY <2>2, <4>5 DEF Updating, NoAct
        <5>2. QED
          BY <2>1, <4>2, <4>5, <5>1 DEF Updating, Keeps
      <4>6. QED
        BY <4>4, <4>5 DEF AdminFits
    <3>7. OtherFits'
      <4> SUFFICES ASSUME names' = {"Other"}
                   PROVE  OtherFits'
        BY DEF OtherFits
      <4>1. names = {"Other"} /\ act[c].rename \notin Admins
        BY <2>3, <2>4, <2>5 DEF WritesAs, Admins
      <4>2. ~HasSetup(mine)
        BY <2>1, <3>3, <4>1 DEF RolesInv, OtherFits, Updating
      <4>3. CanManage' => CanManage
        BY <2>5, <3>3, <3>5, <4>2 DEF CanManage, Grants, WritesAs
      <4>4. QED
        BY <2>1, <2>2, <4>1, <4>3 DEF RolesInv, OtherFits, Updating, NoAct
    <3>8. QED
      BY <3>1, <3>6, <3>7 DEF RolesInv
  <2>6. CASE /\ UNCHANGED <<role, names, wroteBare>>
             /\ role.exists => act[c].gives /\ act[c].perms.modules \cap role.perms.modules # {}
    <3>1. RoleFits'
      BY <2>1, <2>2, <2>4, <2>6 DEF RolesInv, RoleFits, Updating, NoAct
    <3>2. role.exists => role.perms # Bare
      BY <2>6 DEF Bare
    <3>3. AdminFits'
      BY <2>1, <2>2, <2>6, <3>2 DEF RolesInv, AdminFits, Updating, Keeps, NoAct
    <3>4. OtherFits'
      BY <2>1, <2>2, <2>6 DEF RolesInv, OtherFits, Updating, CanManage, Grants, NoAct
    <3>5. QED
      BY <3>1, <3>3, <3>4 DEF RolesInv
  <2>7. QED
    BY <1>4, <2>5, <2>6, WriteIs
<1>5. ASSUME NEW c \in Clerks, DeleteRole(c)
      PROVE  RolesInv'
  <2>1. act[c].step = "delete" /\ ActGoes(c, NoAct) /\ (role' = NoRole \/ role' = role)
        /\ UNCHANGED <<names, given, wroteBare, holder, breaks>>
    BY <1>5 DEF DeleteRole, ActContinues
  <2>2. act'[c] = NoAct /\ \A d \in Clerks \ {c} : act'[d] = act[d]
    BY <2>1, OthersStay
  <2>3. \A d \in Clerks : Cleared(d) => Cleared(d)'
    BY <2>1, <2>2 DEF Cleared
  <2>4. RoleFits'
    BY <2>1, <2>2 DEF RolesInv, RoleFits, Updating, NoAct, NoRole
  <2>5. AdminFits'
    BY <2>1, <2>2, <2>3 DEF RolesInv, AdminFits, Updating, Keeps, NoAct, NoRole
  <2>6. OtherFits'
    BY <2>1, <2>2 DEF RolesInv, OtherFits, Updating, CanManage, Grants, NoAct, NoRole
  <2>7. QED
    BY <2>4, <2>5, <2>6 DEF RolesInv
<1>6. ASSUME NEW c \in Clerks, CheckRoles(c)
      PROVE  RolesInv'
  <2>1. names # {} /\ act[c] = NoAct /\ ActGoes(c, Waits("address"))
        /\ (role.exists => role.name = "Admin" \/ ~CanManage)
        /\ UNCHANGED <<role, names, given, wroteBare, holder, breaks>>
    BY <1>6 DEF CheckRoles, ActBegins
  <2>2. act'[c].step = "address" /\ \A d \in Clerks \ {c} : act'[d] = act[d]
    BY <2>1, OthersStay DEF Waits
  <2>3. \A d \in Clerks : Cleared(d) => Cleared(d)'
    BY <2>1, <2>2 DEF Cleared, NoAct
  <2>4. RoleFits'
    BY <2>1, <2>2 DEF RolesInv, RoleFits, Updating
  <2>5. AdminFits'
    BY <2>1, <2>2, <2>3 DEF RolesInv, AdminFits, Updating, Keeps
  <2>6. names = {"Other"} => ~CanManage
    BY <2>1 DEF CanManage, Grants, RolesInv, RoleFits
  <2>7. OtherFits'
    BY <2>1, <2>2, <2>6 DEF RolesInv, OtherFits, Updating, CanManage, Grants
  <2>8. QED
    BY <2>4, <2>5, <2>7 DEF RolesInv
<1>7. ASSUME NEW c \in Clerks, CheckAddress(c)
      PROVE  RolesInv'
  <2>1. act[c].step = "address" /\ (ActGoes(c, NoAct) \/ ActGoes(c, Waits("insert")))
        /\ UNCHANGED <<role, names, given, wroteBare, holder, breaks>>
    BY <1>7 DEF CheckAddress, ActContinues
  <2>2. act'[c].step \in {"idle", "insert"} /\ \A d \in Clerks \ {c} : act'[d] = act[d]
    BY <2>1, OthersStay DEF Waits, NoAct
  <2>3. \A d \in Clerks : Cleared(d) => Cleared(d)'
    BY <2>1, <2>2 DEF Cleared
  <2>4. RoleFits'
    BY <2>1, <2>2 DEF RolesInv, RoleFits, Updating
  <2>5. AdminFits'
    BY <2>1, <2>2, <2>3 DEF RolesInv, AdminFits, Updating, Keeps
  <2>6. OtherFits'
    BY <2>1, <2>2 DEF RolesInv, OtherFits, Updating, CanManage, Grants
  <2>7. QED
    BY <2>4, <2>5, <2>6 DEF RolesInv
<1>8. ASSUME NEW c \in Clerks, CreateUser(c)
      PROVE  RolesInv'
  <2>1. act[c].step = "insert" /\ ActGoes(c, NoAct)
        /\ UNCHANGED <<role, names, given, wroteBare, breaks>>
    BY <1>8 DEF CreateUser, ActContinues
  <2>2. act'[c] = NoAct /\ \A d \in Clerks \ {c} : act'[d] = act[d]
    BY <2>1, OthersStay
  <2>3. \A d \in Clerks : Cleared(d) => Cleared(d)'
    BY <2>1, <2>2 DEF Cleared
  <2>4. names # {}
    BY <2>1 DEF RolesInv, RoleFits
  <2>5. RoleFits'
    BY <2>1, <2>2, <2>4 DEF RolesInv, RoleFits, Updating, NoAct
  <2>6. AdminFits'
    BY <2>1, <2>2, <2>3 DEF RolesInv, AdminFits, Updating, Keeps, NoAct
  <2>7. OtherFits'
    BY <2>1, <2>2 DEF RolesInv, OtherFits, Updating, CanManage, Grants, NoAct
  <2>8. QED
    BY <2>5, <2>6, <2>7 DEF RolesInv
<1>9. ASSUME NEW c \in Clerks,
             \/ FindRole(c) \/ CheckInvitation(c) \/ RemoveInvitation(c)
             \/ CreateInvitation(c)
      PROVE  RolesInv'
  <2>1. ~Cleared(c) /\ UNCHANGED <<roleVars, holder>> /\ breaks' = breaks
    BY <1>9 DEF FindRole, CheckInvitation, RemoveInvitation, CreateInvitation, ActBegins,
                ActContinues, Cleared, NoAct
  <2>2. \E to : ActGoes(c, to) /\ to.step \notin {"clear", "write", "address", "insert"}
    BY <1>9 DEF FindRole, CheckInvitation, RemoveInvitation, CreateInvitation, ActBegins,
                ActContinues, Waits, NoAct
  <2>3. QED
    BY <1>0, <2>1, <2>2, RolesQuietKeep
<1>10. ASSUME NEW c \in Clerks, ActBreaks(c)
       PROVE  RolesInv'
  <2>1. ActGoes(c, NoAct) /\ breaks' = breaks + 1 /\ UNCHANGED <<roleVars, holder>>
    BY <1>10 DEF ActBreaks
  <2>2. NoAct.step \notin {"clear", "write", "address", "insert"}
    BY DEF NoAct
  <2>3. breaks' > 0 /\ breaks' >= breaks
    BY <1>0, <2>1
  <2>4. QED
    BY <1>0, <2>1, <2>2, <2>3, RolesQuietKeep
<1>11. CASE UNCHANGED accessVars
  <2>1. UNCHANGED <<role, names, given, wroteBare, holder, act, breaks>>
    BY <1>11 DEF accessVars
  <2>2. QED
    BY <2>1 DEF RolesInv, RoleFits, AdminFits, OtherFits, Updating, Cleared, Keeps, CanManage, Grants
<1>12. QED
  BY <1>1, <1>2, <1>3, <1>4, <1>5, <1>6, <1>7, <1>8, <1>9, <1>10, <1>11
     DEF AccessNext, RoleCall, PeopleCall

(***************************************************************************)
(* Theorems.                                                               *)
(***************************************************************************)
AccessInv == AccessTypes /\ InvitationsCounted /\ RolesInv

LEMMA InitAccessInv == AccessInit => AccessInv
<1> SUFFICES ASSUME AccessInit
             PROVE  AccessInv
  OBVIOUS
<1>1. AccessTypes
  BY InitTypes
<1>2. Inviting = {}
  BY DEF AccessInit, Inviting, NoAct
<1>3. InvitationsCounted
  BY <1>2, InvitingFinite, FS_EmptySet DEF AccessInit, InvitationsCounted
<1>4. QED
  BY <1>1, <1>3, InitRolesInv DEF AccessInv

LEMMA AccessInvariant == AccessSpec => []AccessInv
<1>1. AccessInv /\ [AccessNext]_accessVars => AccessInv'
  BY NextTypes, NextCounted, NextRolesInv DEF AccessInv
<1>2. QED
  BY <1>1, InitAccessInv, PTL DEF AccessSpec

\* The role, the user, the invitations and the calls keep their types; there are no
\* more invitations than there were calls.
THEOREM AccessTypeCorrect == AccessSpec => []AccessTypeOK
<1>1. ASSUME AccessInv
      PROVE  AccessTypeOK
  <2>1. invited \in Nat /\ asked \in 0 .. MaxRequests /\ invited + Cardinality(Inviting) =< asked
    BY <1>1 DEF AccessInv, AccessTypes, InvitationsCounted
  <2>2. invited \in 0 .. MaxRequests
    BY <2>1, InvitingFinite, AccessAssumption
  <2>3. QED
    BY <1>1, <2>2 DEF AccessInv, AccessTypes, AccessTypeOK
<1>2. QED
  BY <1>1, AccessInvariant, PTL

\* Updates of a role that read it, delete its permissions and write new ones, users
\* made after a check of the role, and invitations made after a check of the
\* address: an Admin keeps its permission on USER_SETUP with flags that it was made with
\* or an update named, nobody is made a user with a role that manages users unless
\* it was called Admin, and an address has no more pending invitations than there
\* are calls at a time.
THEOREM AccessIsKept == AccessSpec => []AccessHolds
<1>1. ASSUME AccessInv
      PROVE  AccessHolds
  <2>1. AdminKeepsUserSetup
    <3> SUFFICES ASSUME role.exists, names \subseteq Admins, given # {},
                        ~(breaks > 0), ~wroteBare
                 PROVE  \/ HasSetup(role.perms) /\ role.perms.flags \in given
                        \/ \E c \in Clerks : Cleared(c)
      BY <1>1 DEF AdminKeepsUserSetup
    <3>1. breaks = 0
      BY <1>1 DEF AccessInv, AccessTypes
    <3>2. QED
      BY <1>1, <3>1 DEF AccessInv, RolesInv, AdminFits, Keeps
  <2>2. HeldRoleDoesNotManage
    BY <1>1 DEF AccessInv, RolesInv, OtherFits, HeldRoleDoesNotManage
  <2>3. InvitedWithinCalls
    BY <1>1, InvitingFinite DEF AccessInv, AccessTypes, InvitationsCounted, InvitedWithinCalls
  <2>4. QED
    BY <2>1, <2>2, <2>3 DEF AccessHolds
<1>2. QED
  BY <1>1, AccessInvariant, PTL
=============================================================================
