----------------------------- MODULE MCErasure ------------------------------
(***************************************************************************)
(* RightsRequests on small instances: the worker beside a clerk.           *)
(***************************************************************************)
EXTENDS RightsRequests

\* Next as far as no clock is stopped or runs, and no case is edited.
ErasureNext ==
  \/ \E c \in Clerks :
       \/ \E r \in Requests, call \in Calls : Read(c, r, call)
       \/ BeginTransaction(c) \/ Rollback(c) \/ Commit(c)
  \/ \E r \in Requests : GenerateExtract(r)
  \/ WorkerStep \/ JobFails \/ Crash

ErasureSpec == Init /\ [][ErasureNext]_vars /\ Fairness
=============================================================================
