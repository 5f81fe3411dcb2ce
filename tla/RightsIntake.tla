---------------------------- MODULE RightsIntake -----------------------------
(***************************************************************************)
(* RightsRequestsService.create, called by several clerks and API clients  *)
(* at once.  Every query takes a connection of one bounded pool; the       *)
(* interactive transaction keeps its connection to the end, while the      *)
(* template and the final findOne inside it are queries of their own that  *)
(* need a second one, and see only what other transactions have committed. *)
(***************************************************************************)
EXTENDS Naturals, FiniteSets

CONSTANTS
  Calls,        \* the concurrent calls of create
  PoolSize,     \* connections of the pg pool
  Filed         \* requests of this year on file at the start

ASSUME IntakeAssumption ==
  /\ PoolSize \in Nat \ {0}
  /\ Filed \in Nat

VARIABLES
  pc,         \* pc[i]: how far call i has come
  number,     \* number[i]: the sequence number of its case, 0 before it has one
  cases,      \* the case numbers committed
  filed,      \* the calls whose row is committed
  mailed      \* the calls whose requester got the confirmation mail

vars == <<pc, number, cases, filed, mailed>>

InTransaction == {"begun", "inserted", "mailed"}
Over          == {"ended", "conflict", "timedOut"}

TypeOK ==
  /\ pc \in [Calls -> {"start", "counted"} \union InTransaction \union Over]
  /\ number \in [Calls -> Nat]
  /\ cases \subseteq Nat
  /\ filed \subseteq Calls
  /\ mailed \subseteq Calls

Init ==
  /\ pc = [i \in Calls |-> "start"]
  /\ number = [i \in Calls |-> 0]
  /\ cases = 1 .. Filed
  /\ filed = {}
  /\ mailed = {}

\* Some connection of the pool is in no transaction's hands.
Connection ==
  Cardinality({i \in Calls : pc[i] \in InTransaction}) < PoolSize

Goto(i, to) == pc' = [pc EXCEPT ![i] = to]

\* Mutant: one less than the count, not one more.
NumberBefore == Cardinality(cases) - 1

NextNumber == Cardinality(cases) + 1

\* count() of the cases of the year, before the transaction.
Count(i) ==
  /\ pc[i] = "start"
  /\ Connection
  /\ number' = [number EXCEPT ![i] = NextNumber]
  /\ Goto(i, "counted")
  /\ UNCHANGED <<cases, filed, mailed>>

Begin(i) ==
  /\ pc[i] = "counted"
  /\ Connection
  /\ Goto(i, "begun")
  /\ UNCHANGED <<number, cases, filed, mailed>>

\* The unique index on caseNumber: a row another open transaction has inserted
\* under the same number is waited for, a committed one is an error.
Insert(i) ==
  /\ pc[i] = "begun"
  /\ \A j \in Calls :
       pc[j] \in {"inserted", "mailed"} => number[j] # number[i]
  /\ Goto(i, IF number[i] \in cases THEN "conflict" ELSE "inserted")
  /\ UNCHANGED <<number, cases, filed, mailed>>

\* The template of the workflow is read over a second connection; the steps
\* and the audit entry are written, and the mails are sent and not awaited.
Notify(i) ==
  /\ pc[i] = "inserted"
  /\ Connection
  /\ mailed' = mailed \union {i}
  /\ Goto(i, "mailed")
  /\ UNCHANGED <<number, cases, filed>>

\* A query outside the transaction sees the rows that are committed.
Visible(i) == i \in filed

\* findOne, over a second connection.  Only if it finds the row does the
\* transaction return and commit; NotFoundException rolls it back.
FindOne(i) ==
  LET found == {j \in {i} : Visible(j)}
  IN  /\ pc[i] = "mailed"
      /\ Connection
      /\ filed' = filed \union found
      /\ cases' = cases \union {number[j] : j \in found}
      /\ Goto(i, "ended")
      /\ UNCHANGED <<number, mailed>>

\* Mutant: only the wait for a first connection is bounded.
TimeOutBeforeBegin(i) ==
  /\ pc[i] = "counted"
  /\ Goto(i, "timedOut")
  /\ UNCHANGED <<number, cases, filed, mailed>>

\* Two seconds without a connection to begin on, or five seconds of an
\* interactive transaction: the call fails.
TimeOut(i) ==
  /\ pc[i] \in InTransaction \union {"counted"}
  /\ Goto(i, "timedOut")
  /\ UNCHANGED <<number, cases, filed, mailed>>

CallStep(i) ==
  Count(i) \/ Begin(i) \/ Insert(i) \/ Notify(i) \/ FindOne(i) \/ TimeOut(i)

Next == \E i \in Calls : CallStep(i)

Spec == Init /\ [][Next]_vars

\* Each call runs on by itself; the timeouts are Prisma's.
FairSpec == Spec /\ \A i \in Calls : WF_vars(CallStep(i))

\* Every call is answered, though calls that each hold one connection may all
\* wait for a second: the transaction timeout breaks the circle.
EveryCallAnswered == \A i \in Calls : <>(pc[i] \in Over)

\* A call of create that meets neither a duplicate number nor a timeout leaves
\* the request on file that its requester was sent a confirmation of.
ConfirmedIsFiled ==
  \A i \in mailed : pc[i] = "ended" => i \in filed
=============================================================================
