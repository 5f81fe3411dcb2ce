--------------------------- MODULE RightsLifecycle ---------------------------
(***************************************************************************)
(* What RightsRequestsService promises of the life of a request, whatever  *)
(* calls race.  A call validates its move against a row it read earlier    *)
(* and writes without looking again, so the promise is not that a request  *)
(* walks along the table of transitions.  It is that each move starts from *)
(* SOME status the request has had, and that the one writer that asks no   *)
(* table, the erasure worker, completes only what was put on its queue.    *)
(***************************************************************************)
EXTENDS RightsStatus

CONSTANTS
  Requests,          \* the rights requests on file
  InitialStatuses    \* the statuses they are found in

VARIABLES
  status,            \* status[r]: the status column of r
  visited,           \* visited[r]: every status r has been committed in
  erasureQueued      \* the requests some erasure job was ever queued for

vars == <<status, visited, erasureQueued>>

Init ==
  /\ status \in [Requests -> InitialStatuses]
  /\ visited = [r \in Requests |-> {status[r]}]
  /\ erasureQueued = {}

Enter(r, t) ==
  /\ status' = [status EXCEPT ![r] = t]
  /\ visited' = [visited EXCEPT ![r] = @ \union {t}]

\* A clerk's call moves r to t, a successor of a status r has had.
Move(r, t) ==
  /\ \E s \in visited[r] : Allowed(s, t)
  /\ Enter(r, t)
  /\ UNCHANGED erasureQueued

\* Somebody queues a job of the erasure queue for r.
QueueErasure(r) ==
  /\ erasureQueued' = erasureQueued \union {r}
  /\ UNCHANGED <<status, visited>>

\* The worker closes r, whatever its status.
CloseErased(r) ==
  /\ r \in erasureQueued
  /\ Enter(r, "COMPLETED")
  /\ UNCHANGED erasureQueued

Next ==
  \E r \in Requests :
    \/ \E t \in Status : Move(r, t)
    \/ QueueErasure(r)
    \/ CloseErased(r)

Spec == Init /\ [][Next]_vars
=============================================================================
