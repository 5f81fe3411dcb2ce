------------------------------ MODULE Accounts ------------------------------
(***************************************************************************)
(* The account of one user and its sessions: logging in and out, renewing  *)
(* a session, resetting and changing the password, the second factor, and  *)
(* what an administrator does to the account.  Every call reads the user   *)
(* or the session first and writes it by id later, so calls that overlap   *)
(* act on copies.                                                          *)
(***************************************************************************)
EXTENDS Naturals, Sequences, FiniteSets

CONSTANTS
  Callers,        \* requests in flight at a time
  Roles,          \* roles without the right to manage users
  MaxSessions,    \* maxSessions of login
  MaxAttempts,    \* PASSWORD_RESET_MAX_ATTEMPTS
  StartSessions,  \* sessions that are current at the start
  MaxCalls,       \* bound: calls
  MaxCrashes      \* bound: crashes of the server

ASSUME AccountsAssumption ==
  /\ IsFiniteSet(Callers) /\ Callers # {}
  /\ MaxSessions \in Nat \ {0}
  /\ MaxAttempts \in Nat
  /\ StartSessions \in 0 .. MaxSessions
  /\ MaxCalls \in Nat
  /\ MaxCrashes \in Nat

VARIABLES
  user,      \* the User row
  sessions,  \* the Session rows in order of loginTime
  excused,   \* passwords whose sessions a later password left alone
  request,   \* request[c]: the call in flight for c
  requests,  \* calls so far
  failures   \* crashes so far

accountRows == <<user, sessions, excused>>
accountVars == <<accountRows, request, requests, failures>>

UserStatus == {"ACTIVE", "DISABLED", "LOCKED", "PENDING", "SUSPENDED"}

\* A password is known by its number; no two are alike.  "code": a reset code is
\* stored.
User == [status : UserStatus, password : Nat, code : BOOLEAN, expired : BOOLEAN,
         attempts : Nat, secret : BOOLEAN, mfa : BOOLEAN, roles : SUBSET Roles]

\* A row is current (isCurrentSession), ended, or deleted.  "checked" is the
\* password its login was let in by, "since" the one of the account when the row
\* was made.
SessionStatus == {"current", "ended", "deleted"}
Session == [status : SessionStatus, token : BOOLEAN, checked : Nat, since : Nat]

NoRequest == [step |-> "idle"]
Request ==
  {NoRequest}
  \cup [step : {"enable", "code", "set", "change", "signOut"}]
  \cup [step : {"list", "open"}, checked : Nat]
  \cup [step : {"end"}, checked : Nat, oldest : SUBSET (Nat \ {0})]
  \cup [step : {"renew"}, session : Nat \ {0}]
  \cup [step : {"miss"}, attempts : Nat]
  \cup [step : {"edit"}, roles : SUBSET Roles, status : UserStatus]

\* The types, and a counter of attempts that no interleaving takes past its
\* limit.
AccountsTypeOK ==
  /\ user \in User
  /\ user.attempts =< MaxAttempts
  /\ sessions \in Seq(Session)
  /\ excused \subseteq Nat
  /\ request \in [Callers -> Request]
  /\ requests \in 0 .. MaxCalls
  /\ failures \in 0 .. MaxCrashes

Current == {i \in DOMAIN sessions : sessions[i].status = "current"}

AccountsInit ==
  /\ user = [status |-> "ACTIVE", password |-> 1, code |-> FALSE, expired |-> FALSE,
             attempts |-> 0, secret |-> FALSE, mfa |-> FALSE, roles |-> Roles]
  /\ sessions = [i \in 1 .. StartSessions |->
                  [status |-> "current", token |-> TRUE, checked |-> 1, since |-> 1]]
  /\ excused = {}
  /\ request = [c \in Callers |-> NoRequest]
  /\ requests = 0
  /\ failures = 0

------------------------------------------------------------------------------
(* Calls.                                                                  *)

Goes(c, to) == request' = [request EXCEPT ![c] = to]

Begins(c, to) ==
  /\ request[c] = NoRequest
  /\ requests < MaxCalls
  /\ requests' = requests + 1
  /\ Goes(c, to)
  /\ UNCHANGED failures

Continues(c, step, to) ==
  /\ request[c].step = step
  /\ Goes(c, to)
  /\ UNCHANGED <<requests, failures>>

Step(step) == [step |-> step]

\* The steps of login go by the password it has compared.
LoginStep(step, password) == [step |-> step, checked |-> password]

\* A password nobody has used for this account.
Fresh == user.password + 1

\* Mutant: only the session that logged in last is ended.
AllEndedButOne(i) == i = Len(sessions)

\* Which sessions signing out ends: those that are current.
AllEnded(i) == i \in Current

EndedRow(s) == [s EXCEPT !.status = "ended", !.token = FALSE]

SignsOut ==
  /\ sessions' = [i \in DOMAIN sessions |->
                   IF AllEnded(i) THEN EndedRow(sessions[i]) ELSE sessions[i]]
  /\ excused' = {}

------------------------------------------------------------------------------
(* Sessions.                                                               *)

\* login: the account is active, the password that of the row it has read, and
\* the token of the second factor right too where it is enabled.
ReadForLogin(c) ==
  /\ Begins(c, LoginStep("list", user.password))
  /\ user.status = "ACTIVE"
  /\ user.mfa => user.secret
  /\ UNCHANGED accountRows

\* Mutant: one session too few is ended.
ExcessOffByOne(n) == n - MaxSessions

\* How many of n sessions have to go for one more to fit.
Excess(n) == n - MaxSessions + 1

\* The oldest n of the current sessions.
Oldest(n) == {i \in Current : Cardinality({j \in Current : j < i}) < n}

\* The current sessions are listed, oldest first ...
ListSessions(c) ==
  /\ LET n == Cardinality(Current)
         p == request[c].checked
     IN  Continues(c, "list",
           IF n >= MaxSessions
           THEN [step |-> "end", checked |-> p, oldest |-> Oldest(Excess(n))]
           ELSE LoginStep("open", p))
  /\ UNCHANGED accountRows

\* ... the oldest on that list are ended, whatever they are by now ...
EndOldest(c) ==
  /\ Continues(c, "end", LoginStep("open", request[c].checked))
  /\ sessions' = [i \in DOMAIN sessions |->
       IF i \in request[c].oldest /\ sessions[i].status # "deleted"
       THEN EndedRow(sessions[i]) ELSE sessions[i]]
  /\ UNCHANGED <<user, excused>>

\* ... and a new one is made, whatever the password is by now.
OpenSession(c) ==
  /\ Continues(c, "open", NoRequest)
  /\ sessions' = Append(sessions,
       [status |-> "current", token |-> TRUE,
        checked |-> request[c].checked, since |-> user.password])
  /\ UNCHANGED <<user, excused>>

\* refresh finds a session by its token; it is current and its user active.
ReadForRefresh(c, i) ==
  /\ Begins(c, [step |-> "renew", session |-> i])
  /\ sessions[i].token
  /\ sessions[i].status = "current"
  /\ user.status = "ACTIVE"
  /\ UNCHANGED accountRows

\* Mutant: the update marks the session current again.
RenewedAlive(s) == [s EXCEPT !.status = "current", !.token = TRUE]

\* The update by id: a new token, even for a session that has ended since.
Renewed(s) == [s EXCEPT !.token = TRUE]

\* It throws if the row is gone.
Renew(c) ==
  LET i == request[c].session IN
  /\ Continues(c, "renew", NoRequest)
  /\ sessions' = IF sessions[i].status = "deleted" THEN sessions
                 ELSE [sessions EXCEPT ![i] = Renewed(@)]
  /\ UNCHANGED <<user, excused>>

\* logout, and endSessions by an administrator.
SignOut(c) ==
  /\ Begins(c, NoRequest)
  /\ SignsOut
  /\ UNCHANGED user

\* SessionsService.remove deletes a row of the user's own.
RemoveSession(c, i) ==
  /\ Begins(c, NoRequest)
  /\ sessions[i].status # "deleted"
  /\ sessions' = [sessions EXCEPT ![i] =
                   [@ EXCEPT !.status = "deleted", !.token = FALSE]]
  /\ UNCHANGED <<user, excused>>

------------------------------------------------------------------------------
(* The reset code.                                                         *)

\* forgotPassword for an active account; sendPasswordReset, by an administrator,
\* for any.
ReadForCode(c, byUser) ==
  /\ Begins(c, Step("code"))
  /\ byUser => user.status = "ACTIVE"
  /\ UNCHANGED accountRows

\* A code replaces the last one.  Whether the mail then goes out changes nothing.
WriteCode(c) ==
  /\ Continues(c, "code", NoRequest)
  /\ user' = [user EXCEPT !.code = TRUE, !.expired = FALSE, !.attempts = 0]
  /\ UNCHANGED <<sessions, excused>>

\* PASSWORD_RESET_OTP_TTL_MINUTES have passed.
CodeExpires ==
  /\ user.code
  /\ ~user.expired
  /\ user' = [user EXCEPT !.expired = TRUE]
  /\ UNCHANGED <<sessions, excused, request, requests, failures>>

\* Mutant: the limit lets one answer more through.
AttemptsLeftOver == user.attempts =< MaxAttempts

AttemptsLeft == user.attempts < MaxAttempts

\* What resetPassword and verifyResetOtp ask before they compare the code.
CodeStands ==
  /\ user.status = "ACTIVE"
  /\ user.code
  /\ ~user.expired
  /\ AttemptsLeft

\* A wrong answer: the attempts read, plus one, are written back.
ReadWrongAnswer(c) ==
  /\ Begins(c, [step |-> "miss", attempts |-> user.attempts + 1])
  /\ CodeStands
  /\ UNCHANGED accountRows

WriteAttempts(c) ==
  /\ Continues(c, "miss", NoRequest)
  /\ user' = [user EXCEPT !.attempts = request[c].attempts]
  /\ UNCHANGED <<sessions, excused>>

\* The right answer to resetPassword, with a password that is new.
ReadForReset(c) ==
  /\ Begins(c, Step("set"))
  /\ CodeStands
  /\ UNCHANGED accountRows

\* The password first, the code with it ...
ResetPassword(c) ==
  /\ Continues(c, "set", Step("signOut"))
  /\ user' = [user EXCEPT !.password = Fresh, !.code = FALSE, !.expired = FALSE, !.attempts = 0]
  /\ UNCHANGED <<sessions, excused>>

\* ... then the sessions: also after an account was disabled.
EndSessions(c) ==
  /\ Continues(c, "signOut", NoRequest)
  /\ SignsOut
  /\ UNCHANGED user

------------------------------------------------------------------------------
(* Password and second factor, by the user.                                *)

\* changePassword, with the old password right: no session ends.
ReadForChange(c) ==
  /\ Begins(c, Step("change"))
  /\ UNCHANGED accountRows

ChangePassword(c) ==
  /\ Continues(c, "change", NoRequest)
  /\ user' = [user EXCEPT !.password = Fresh]
  /\ excused' = excused \cup {user.password}
  /\ UNCHANGED sessions

\* generateMfaSecret, also when a secret is in use.
GenerateMfaSecret(c) ==
  /\ Begins(c, NoRequest)
  /\ user' = [user EXCEPT !.secret = TRUE]
  /\ UNCHANGED <<sessions, excused>>

\* verifyAndEnableMfa, with a token of the secret it read.
ReadForMfa(c) ==
  /\ Begins(c, Step("enable"))
  /\ user.secret
  /\ UNCHANGED accountRows

EnableMfa(c) ==
  /\ Continues(c, "enable", NoRequest)
  /\ user' = [user EXCEPT !.mfa = TRUE]
  /\ UNCHANGED <<sessions, excused>>

------------------------------------------------------------------------------
(* The account, by an administrator.                                       *)

ResetMfa(c) ==
  /\ Begins(c, NoRequest)
  /\ user' = [user EXCEPT !.mfa = FALSE, !.secret = FALSE]
  /\ UNCHANGED <<sessions, excused>>

\* updateStatus: the status, and then the sessions of an account that is closed.
UpdateStatus(c, status) ==
  /\ Begins(c, IF status \in {"DISABLED", "LOCKED", "SUSPENDED"} THEN Step("signOut") ELSE NoRequest)
  /\ user' = [user EXCEPT !.status = status]
  /\ UNCHANGED <<sessions, excused>>

\* UsersService.remove: the status alone.
RemoveUser(c) ==
  /\ Begins(c, NoRequest)
  /\ user' = [user EXCEPT !.status = "DISABLED"]
  /\ UNCHANGED <<sessions, excused>>

\* UsersService.update with new roles takes the old ones away first ...
DropRoles(c, roles, status) ==
  /\ Begins(c, [step |-> "edit", roles |-> roles, status |-> status])
  /\ user' = [user EXCEPT !.roles = {}]
  /\ UNCHANGED <<sessions, excused>>

\* ... and then writes the row and the new ones.  A role that another update has
\* given meanwhile fails the write.
UpdateUser(c) ==
  LET r == request[c] IN
  /\ Continues(c, "edit", NoRequest)
  /\ user' = IF user.roles \cap r.roles # {} THEN user
             ELSE [user EXCEPT !.roles = @ \cup r.roles, !.status = r.status]
  /\ UNCHANGED <<sessions, excused>>

\* An update of the password alone; mustResetPassword and the sessions stay.
OverwritePassword(c) ==
  /\ Begins(c, NoRequest)
  /\ user' = [user EXCEPT !.password = Fresh]
  /\ excused' = excused \cup {user.password}
  /\ UNCHANGED sessions

\* The server restarts: every call in flight is lost.
ServerCrashes ==
  /\ failures < MaxCrashes
  /\ failures' = failures + 1
  /\ request' = [c \in Callers |-> NoRequest]
  /\ excused' = IF \E c \in Callers : request[c].step = "signOut"
                THEN 0 .. user.password ELSE excused
  /\ UNCHANGED <<user, sessions, requests>>

------------------------------------------------------------------------------
OfSessions(c) ==
  \/ ReadForLogin(c)
  \/ ListSessions(c)
  \/ EndOldest(c)
  \/ OpenSession(c)
  \/ \E i \in DOMAIN sessions : ReadForRefresh(c, i)
  \/ Renew(c)
  \/ SignOut(c)
  \/ \E i \in DOMAIN sessions : RemoveSession(c, i)

OfCodes(c) ==
  \/ \E byUser \in BOOLEAN : ReadForCode(c, byUser)
  \/ WriteCode(c)
  \/ ReadWrongAnswer(c)
  \/ WriteAttempts(c)
  \/ ReadForReset(c)
  \/ ResetPassword(c)
  \/ EndSessions(c)

OfUser(c) ==
  \/ ReadForChange(c)
  \/ ChangePassword(c)
  \/ GenerateMfaSecret(c)
  \/ ReadForMfa(c)
  \/ EnableMfa(c)
  \/ ResetMfa(c)
  \/ \E status \in UserStatus : UpdateStatus(c, status)
  \/ RemoveUser(c)
  \/ \E roles \in SUBSET Roles, status \in UserStatus : DropRoles(c, roles, status)
  \/ UpdateUser(c)
  \/ OverwritePassword(c)

AccountsNext ==
  \/ \E c \in Callers : OfSessions(c) \/ OfCodes(c) \/ OfUser(c)
  \/ CodeExpires
  \/ ServerCrashes

AccountsSpec == AccountsInit /\ [][AccountsNext]_accountVars

------------------------------------------------------------------------------
(* Properties.                                                             *)

\* login lists the sessions, ends the oldest and makes a new one in statements
\* of its own.  Logins that overlap may all count the same sessions, so that
\* the limit is passed, but by no more than the other logins in flight; and
\* later logins bring the number down again.
SessionsBounded ==
  Cardinality(Current) =< MaxSessions - 1 + Cardinality(Callers)

\* refresh updates by id a session that it found earlier and that logout, a
\* login, a reset or an administrator may have ended or deleted meanwhile:
\* it never brings it back.
EndedForGood ==
  [][\A i \in DOMAIN sessions :
       sessions[i].status # "current" => sessions'[i].status # "current"]_accountVars

\* A password that was replaced by a reset, its sessions to be ended with it.
Stale(p) == p # user.password /\ p \notin excused

\* resetPassword changes the password and then, in another statement, ends the
\* sessions.  When no call is between the two, no session that was made under an
\* earlier password is current, unless a call that is not meant to end sessions
\* set the password, or a crash came between.  A login that had compared the old
\* password before the reset still opens its session after it: so many sessions
\* of a password that was reset are current as other calls were in flight, and
\* no more.
ResetEndsSessions ==
  \/ \E c \in Callers : request[c].step = "signOut"
  \/ /\ \A i \in Current : ~Stale(sessions[i].since)
     /\ Cardinality({i \in Current : Stale(sessions[i].checked)}) =< Cardinality(Callers) - 1
=============================================================================
