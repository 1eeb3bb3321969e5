----------------------------- MODULE DelayedTasks -----------------------------
(***************************************************************************)
(* What enqueue_task promises inside a request: the task is kept until the *)
(* request's change is committed and is then sent; with a change that is   *)
(* not committed, or after a server error, there is no task.  How the two  *)
(* frameworks order their handlers, and what else may fail, does not       *)
(* appear here: RequestTasks implements it.                                *)
(***************************************************************************)
CONSTANT Requests

VARIABLES
  committed,   \* the requests whose change is committed
  owed,        \* those of them whose task is still to be sent
  running      \* the requests whose task is sent and has not ended

vars == <<committed, owed, running>>

Init == committed = {} /\ owed = {} /\ running = {}

\* A request that has queued no task commits without owing one.
Commit(r) ==
  /\ committed' = committed \cup {r}
  /\ owed' \in {owed, owed \cup {r}}
  /\ UNCHANGED running

Send(r) ==
  /\ r \in owed
  /\ owed' = owed \ {r} /\ running' = running \cup {r}
  /\ UNCHANGED committed

\* The response became a server error after the commit.
Forget(r) ==
  /\ r \in owed
  /\ owed' = owed \ {r}
  /\ UNCHANGED <<committed, running>>

End(r) ==
  /\ r \in running
  /\ running' = running \ {r}
  /\ UNCHANGED <<committed, owed>>

Next == \E r \in Requests : Commit(r) \/ Send(r) \/ Forget(r) \/ End(r)

Spec == Init /\ [][Next]_vars /\ \A r \in Requests : WF_vars(Send(r) \/ Forget(r))

=============================================================================
