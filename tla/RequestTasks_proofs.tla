-------------------------- MODULE RequestTasks_proofs --------------------------
(***************************************************************************)
(* Proofs of the safety of RequestTasks, for any threads, requests and     *)
(* workers, and of the safety part of its refinement of DelayedTasks.      *)
(***************************************************************************)
EXTENDS RequestTasks, TLAPS

\* The order of the handlers, phase by phase.
LEMMA Order ==
  ASSUME NEW t \in Threads
  PROVE  /\ t \in Scripts \cup Api => After(t, "view") = "commit"
         /\ t \notin Scripts \cup Api =>
              /\ After(t, "view") = "postcommit"
              /\ After(t, "postcommit") = "commit"
              /\ After(t, "commit") = "teardown"
         /\ t \in Api => /\ After(t, "commit") = "postcommit"
                         /\ After(t, "postcommit") = "teardown"
BY ThreadsAssumption DEF After

-----------------------------------------------------------------------------
(* Type correctness.                                                       *)

\* Thread t is the only one to change, and becomes what is said.
Becomes(t, phase, request, status, saved, queue, celery) ==
  /\ thread' \in [Threads -> Thread]
  /\ \A u \in Threads \ {t} : thread'[u] = thread[u]
  /\ thread'[t].phase = phase /\ thread'[t].request = request
  /\ thread'[t].status = status /\ (thread'[t].saved <=> saved)
  /\ thread'[t].queue = queue /\ thread'[t].celery = celery

\* A thread that has begun has a request, and one that has not has none.
Busy ==
  \A t \in Threads : thread[t].phase = "idle" <=> thread[t].request = None

LEMMA OpenThread ==
  ASSUME TypeOK, Busy, NEW t \in Threads
  PROVE  /\ thread[t] \in Thread
         /\ thread[t].phase # "idle" => thread[t].request \in Requests
BY DEF TypeOK, Busy, Thread

LEMMA PhaseTypes ==
  ASSUME NEW t, NEW phase
  PROVE  After(t, phase) \in ApiPhases /\ After(t, phase) # "idle"
BY DEF After, ApiPhases

LEMMA BeginBecomes ==
  ASSUME TypeOK, Busy, NEW t \in Threads, NEW r \in Requests, Begin(t, r)
  PROVE  /\ t \in Scripts =>
              Becomes(t, "view", r, thread[t].status, thread[t].saved,
                      thread[t].queue, thread[t].celery)
         /\ t \notin Scripts =>
              Becomes(t, "view", r, thread[t].status, thread[t].saved, {}, {})
<1>0. thread \in [Threads -> Thread] /\ thread[t] \in Thread
  BY DEF TypeOK
<1>1. CASE t \in Scripts
  <2>1. thread' = [thread EXCEPT ![t] =
                     [thread[t] EXCEPT !.phase = "view", !.request = r]]
    BY <1>1 DEF Begin
  <2> QED
    BY <1>0, <1>1, <2>1 DEF Becomes, Thread, ApiPhases
<1>2. CASE t \notin Scripts
  <2>1. thread' = [thread EXCEPT ![t] =
                     [thread[t] EXCEPT !.queue = {}, !.celery = {},
                        !.greenlets = FALSE, !.phase = "view", !.request = r]]
    BY <1>0, <1>2 DEF Begin, EmptyQueues, Thread
  <2> QED
    BY <1>0, <1>2, <2>1 DEF Becomes, Thread, ApiPhases
<1> QED
  BY <1>1, <1>2

LEMMA RespondBecomes ==
  ASSUME TypeOK, Busy, NEW t \in Threads, NEW status \in Statuses,
         Respond(t, status)
  PROVE  Becomes(t, After(t, "view"), thread[t].request, status,
                 thread[t].saved, thread[t].queue, thread[t].celery)
<1>1. thread \in [Threads -> Thread] /\ thread[t] \in Thread
  BY DEF TypeOK
<1>2. thread' = [thread EXCEPT ![t] =
          [thread[t] EXCEPT !.phase = After(t, "view"), !.status = status]]
  BY DEF Respond
<1> QED
  BY <1>1, <1>2, PhaseTypes DEF Becomes, Thread

LEMMA SaveBecomes ==
  ASSUME TypeOK, Busy, NEW t \in Threads, Save(t)
  PROVE  /\ t \in Scripts =>
              Becomes(t, "view", thread[t].request, thread[t].status, TRUE,
                      thread[t].queue, thread[t].celery)
         /\ t \notin Scripts =>
              Becomes(t, "view", thread[t].request, thread[t].status, TRUE,
                      thread[t].queue \cup {UpdateTask(thread[t].request)},
                      thread[t].celery)
<1>0. /\ thread \in [Threads -> Thread] /\ thread[t] \in Thread
      /\ thread[t].phase = "view" /\ thread[t].request \in Requests
  BY OpenThread DEF TypeOK, Save
<1>1. CASE t \in Scripts
  <2>1. thread' = [thread EXCEPT ![t] = [thread[t] EXCEPT !.saved = TRUE]]
    BY <1>1 DEF Save, OutsideRequest
  <2> QED
    BY <1>0, <1>1, <2>1 DEF Becomes, Thread
<1>2. CASE t \notin Scripts
  <2>1. thread' = [thread EXCEPT ![t] =
          [thread[t] EXCEPT !.saved = TRUE,
             !.queue = thread[t].queue \cup {UpdateTask(thread[t].request)}]]
    BY <1>0, <1>2 DEF Save, OutsideRequest, UpdateTask, Thread
  <2>2. UpdateTask(thread[t].request) \in Task
    BY <1>0 DEF UpdateTask, Task
  <2> QED
    BY <1>0, <1>2, <2>1, <2>2 DEF Becomes, Thread
<1> QED
  BY <1>1, <1>2

CheckinTask(r) == [by |-> r, fn |-> "checkin_files_task"]

LEMMA RemoveContributorBecomes ==
  ASSUME TypeOK, Busy, NEW t \in Threads, RemoveContributor(t)
  PROVE  Becomes(t, "view", thread[t].request, thread[t].status,
                 thread[t].saved, thread[t].queue,
                 thread[t].celery \cup {CheckinTask(thread[t].request)})
<1>1. /\ thread \in [Threads -> Thread] /\ thread[t] \in Thread
      /\ thread[t].phase = "view" /\ thread[t].request \in Requests
  BY OpenThread DEF TypeOK, RemoveContributor
<1>2. thread' = [thread EXCEPT ![t] = [thread[t] EXCEPT !.celery =
                   thread[t].celery \cup {CheckinTask(thread[t].request)}]]
  BY <1>1 DEF RemoveContributor, CheckinTask, Thread
<1>3. CheckinTask(thread[t].request) \in Task
  BY <1>1 DEF CheckinTask, Task
<1> QED
  BY <1>1, <1>2, <1>3 DEF Becomes, Thread

LEMMA ViewCommentsBecomes ==
  ASSUME TypeOK, Busy, NEW t \in Threads, ViewComments(t)
  PROVE  Becomes(t, "view", thread[t].request, thread[t].status,
                 thread[t].saved, thread[t].queue, thread[t].celery)
<1>1. /\ thread \in [Threads -> Thread] /\ thread[t] \in Thread
      /\ thread[t].phase = "view"
  BY DEF TypeOK, ViewComments
<1>2. thread' = [thread EXCEPT ![t] = [thread[t] EXCEPT !.greenlets = TRUE]]
  BY DEF ViewComments
<1> QED
  BY <1>1, <1>2 DEF Becomes, Thread

\* A script is over with its transaction; other threads go on.
LEMMA EndTransactionBecomes ==
  ASSUME TypeOK, Busy, NEW t \in Threads, NEW status \in Statuses,
         EndTransaction(t, status)
  PROVE  /\ t \in Scripts =>
              Becomes(t, "idle", None, "success", FALSE, thread[t].queue,
                      thread[t].celery)
         /\ t \notin Scripts =>
              Becomes(t, After(t, "commit"), thread[t].request, status,
                      thread[t].saved, thread[t].queue, thread[t].celery)
<1>0. thread \in [Threads -> Thread] /\ thread[t] \in Thread
  BY DEF TypeOK
<1>1. CASE t \in Scripts
  <2>1. thread' = [thread EXCEPT ![t] =
          [thread[t] EXCEPT !.phase = "idle", !.request = None,
                            !.status = "success", !.saved = FALSE]]
    BY <1>0, <1>1 DEF EndTransaction, Ended
  <2> QED
    BY <1>0, <1>1, <2>1 DEF Becomes, Thread, Statuses
<1>2. CASE t \notin Scripts
  <2>1. thread' = [thread EXCEPT ![t] =
          [thread[t] EXCEPT !.phase = After(t, "commit"), !.status = status]]
    BY <1>0, <1>2 DEF EndTransaction
  <2> QED
    BY <1>0, <1>2, <2>1, PhaseTypes DEF Becomes, Thread
<1> QED
  BY <1>1, <1>2

\* Whichever way the post-commit queue is served.
LEMMA PostcommitBecomes ==
  ASSUME TypeOK, Busy, NEW t \in Threads,
         \/ PostcommitDropped(t) \/ PostcommitSent(t)
         \/ PostcommitSwallowed(t) \/ PostcommitRaises(t)
  PROVE  \E status \in Statuses, celery \in {{}, thread[t].celery} :
           /\ Becomes(t, After(t, "postcommit"), thread[t].request, status,
                      thread[t].saved, thread[t].queue, celery)
           /\ status \in {thread[t].status, "failed"}
<1>0. thread \in [Threads -> Thread] /\ thread[t] \in Thread
  BY DEF TypeOK
<1>1. CASE PostcommitDropped(t)
  <2>1. thread' = [thread EXCEPT ![t] =
          [thread[t] EXCEPT !.phase = After(t, "postcommit"), !.celery = {},
                            !.greenlets = FALSE]]
    BY <1>1 DEF PostcommitDropped
  <2>2. Becomes(t, After(t, "postcommit"), thread[t].request,
                thread[t].status, thread[t].saved, thread[t].queue, {})
    BY <1>0, <2>1, PhaseTypes DEF Becomes, Thread
  <2> QED
    BY <1>0, <2>2 DEF Thread
<1>2. CASE PostcommitSent(t) \/ PostcommitSwallowed(t)
  <2>1. thread' = [thread EXCEPT ![t] =
          [thread[t] EXCEPT !.phase = After(t, "postcommit")]]
    BY <1>2 DEF PostcommitSent, PostcommitSwallowed
  <2>2. Becomes(t, After(t, "postcommit"), thread[t].request,
                thread[t].status, thread[t].saved, thread[t].queue,
                thread[t].celery)
    BY <1>0, <2>1, PhaseTypes DEF Becomes, Thread
  <2> QED
    BY <1>0, <2>2 DEF Thread
<1>3. CASE PostcommitRaises(t)
  <2>1. thread' = [thread EXCEPT ![t] =
          [thread[t] EXCEPT !.phase = After(t, "postcommit"),
                            !.status = "failed"]]
    BY <1>3 DEF PostcommitRaises
  <2>2. Becomes(t, After(t, "postcommit"), thread[t].request, "failed",
                thread[t].saved, thread[t].queue, thread[t].celery)
    BY <1>0, <2>1, PhaseTypes DEF Becomes, Thread, Statuses
  <2> QED
    BY <2>2 DEF Statuses
<1> QED
  BY <1>1, <1>2, <1>3

LEMMA TeardownBecomes ==
  ASSUME TypeOK, Busy, NEW t \in Threads, Teardown(t)
  PROVE  \E queue \in SUBSET Task :
           Becomes(t, "idle", None, "success", FALSE, queue, thread[t].celery)
<1>0. thread \in [Threads -> Thread] /\ thread[t] \in Thread
  BY DEF TypeOK
<1>1. PICK queue \in SUBSET Task :
        thread' = [thread EXCEPT ![t] =
          [thread[t] EXCEPT !.queue = queue, !.phase = "idle",
             !.request = None, !.status = "success", !.saved = FALSE]]
  <2>1. CASE DropsQueue(t, thread[t].status)
    <3>1. thread' = [thread EXCEPT ![t] =
            [thread[t] EXCEPT !.queue = {}, !.phase = "idle",
               !.request = None, !.status = "success", !.saved = FALSE]]
      BY <1>0, <2>1 DEF Teardown, Ended
    <3> QED
      BY <3>1
  <2>2. CASE ~DropsQueue(t, thread[t].status)
    <3>1. thread' = [thread EXCEPT ![t] =
            [thread[t] EXCEPT !.queue = thread[t].queue, !.phase = "idle",
               !.request = None, !.status = "success", !.saved = FALSE]]
      BY <1>0, <2>2 DEF Teardown, Ended
    <3> QED
      BY <1>0, <3>1 DEF Thread
  <2> QED
    BY <2>1, <2>2
<1> QED
  BY <1>0, <1>1 DEF Becomes, Thread, Statuses

-----------------------------------------------------------------------------
(* Type correctness.                                                       *)

LEMMA BusyAgain ==
  ASSUME Busy, NEW t \in Threads, NEW phase, NEW request, NEW status,
         NEW saved, NEW queue, NEW celery,
         Becomes(t, phase, request, status, saved, queue, celery),
         phase = "idle" <=> request = None
  PROVE  Busy'
BY DEF Becomes, Busy

\* After a rollback the request has an error for an answer.
LEMMA EndsRolledBack ==
  ASSUME TypeOK, NEW t \in Threads, Rollback(t)
  PROVE  \E status \in Statuses :
           EndTransaction(t, status) /\ IsError(t, status)
<1>0. thread[t].status \in Statuses
  BY DEF TypeOK, Thread
<1>1. CASE IsError(t, thread[t].status)
  <2>1. EndTransaction(t, thread[t].status)
    BY <1>1 DEF Rollback
  <2> QED
    BY <1>0, <1>1, <2>1
<1>2. CASE ~IsError(t, thread[t].status)
  <2>1. EndTransaction(t, "failed")
    BY <1>2 DEF Rollback
  <2> QED
    BY <2>1 DEF IsError, Statuses
<1> QED
  BY <1>1, <1>2

LEMMA EndsCommitted ==
  ASSUME TypeOK, NEW t \in Threads, Commit(t)
  PROVE  /\ thread[t].status \in Statuses
         /\ EndTransaction(t, thread[t].status)
<1>1. EndTransaction(t, thread[t].status)
  BY DEF Commit
<1> QED
  BY <1>1 DEF TypeOK, Thread

\* The actions of a thread keep every thread a thread, and its request with it.
LEMMA ThreadTypes ==
  ASSUME TypeOK, Busy, NEW t \in Threads,
         \/ \E r \in Requests : Begin(t, r)
         \/ \E status \in Statuses : Respond(t, status)
         \/ Save(t) \/ RemoveContributor(t) \/ ViewComments(t)
         \/ Commit(t) \/ Rollback(t)
         \/ PostcommitDropped(t) \/ PostcommitSent(t)
         \/ PostcommitSwallowed(t) \/ PostcommitRaises(t)
         \/ Teardown(t)
  PROVE  thread' \in [Threads -> Thread] /\ Busy'
<1>0. /\ thread[t] \in Thread
      /\ thread[t].phase # "idle" => thread[t].request \in Requests
      /\ \A r \in Requests : r # None
  BY OpenThread, ThreadsAssumption
<1>1. ASSUME NEW r \in Requests, Begin(t, r)
      PROVE  thread' \in [Threads -> Thread] /\ Busy'
  BY <1>0, <1>1, BeginBecomes, BusyAgain DEF Becomes
<1>2. ASSUME NEW status \in Statuses, Respond(t, status)
      PROVE  thread' \in [Threads -> Thread] /\ Busy'
  <2>1. thread[t].phase # "idle"
    BY <1>2 DEF Respond
  <2> QED
    BY <1>0, <1>2, <2>1, RespondBecomes, BusyAgain, PhaseTypes DEF Becomes
<1>3. CASE Save(t)
  <2>1. thread[t].phase # "idle"
    BY <1>3 DEF Save
  <2> QED
    BY <1>0, <1>3, <2>1, SaveBecomes, BusyAgain DEF Becomes
<1>4. CASE RemoveContributor(t) \/ ViewComments(t)
  <2>1. thread[t].phase # "idle"
    BY <1>4 DEF RemoveContributor, ViewComments
  <2> QED
    BY <1>0, <1>4, <2>1, RemoveContributorBecomes, ViewCommentsBecomes,
       BusyAgain DEF Becomes
<1>5. CASE Commit(t) \/ Rollback(t)
  <2>1. thread[t].phase # "idle"
    BY <1>5 DEF Commit, Rollback
  <2>2. PICK status \in Statuses : EndTransaction(t, status)
    <3>1. CASE Commit(t)
      BY <3>1, EndsCommitted
    <3>2. CASE Rollback(t)
      BY <3>2, EndsRolledBack
    <3> QED
      BY <1>5, <3>1, <3>2
  <2> QED
    BY <1>0, <2>1, <2>2, EndTransactionBecomes, BusyAgain, PhaseTypes
    DEF Becomes
<1>6. CASE \/ PostcommitDropped(t) \/ PostcommitSent(t)
           \/ PostcommitSwallowed(t) \/ PostcommitRaises(t)
  <2>1. thread[t].phase # "idle"
    BY <1>6 DEF PostcommitDropped, PostcommitSent, PostcommitSwallowed,
                PostcommitRaises
  <2>2. PICK status \in Statuses, celery \in {{}, thread[t].celery} :
          Becomes(t, After(t, "postcommit"), thread[t].request, status,
                  thread[t].saved, thread[t].queue, celery)
    BY <1>6, PostcommitBecomes
  <2> QED
    BY <1>0, <2>1, <2>2, BusyAgain, PhaseTypes DEF Becomes
<1>7. CASE Teardown(t)
  BY <1>7, TeardownBecomes, BusyAgain DEF Becomes
<1> QED
  BY <1>1, <1>2, <1>3, <1>4, <1>5, <1>6, <1>7

\* TypeOK is inductive with the request that an open thread must have.
LEMMA TypeStep ==
  ASSUME TypeOK, Busy, [Next]_vars
  PROVE  TypeOK' /\ Busy'
<1> USE DEF TypeOK
<1>1. ASSUME NEW t \in Threads, NEW r \in Requests, Begin(t, r)
      PROVE  TypeOK' /\ Busy'
  BY <1>1, ThreadTypes DEF Begin
<1>2. ASSUME NEW t \in Threads, NEW status \in Statuses, Respond(t, status)
      PROVE  TypeOK' /\ Busy'
  BY <1>2, ThreadTypes DEF Respond
<1>3. ASSUME NEW t \in Threads, Save(t)
      PROVE  TypeOK' /\ Busy'
  BY <1>3, ThreadTypes, OpenThread DEF Save
<1>4. ASSUME NEW t \in Threads, RemoveContributor(t)
      PROVE  TypeOK' /\ Busy'
  BY <1>4, ThreadTypes, OpenThread DEF RemoveContributor
<1>5. ASSUME NEW t \in Threads, ViewComments(t)
      PROVE  TypeOK' /\ Busy'
  BY <1>5, ThreadTypes DEF ViewComments
<1>6. ASSUME NEW t \in Threads, Commit(t) \/ Rollback(t)
      PROVE  TypeOK' /\ Busy'
  <2>1. thread[t].phase # "idle" /\ thread[t].request \in Requests
    BY <1>6, OpenThread DEF Commit, Rollback
  <2>2. PICK status \in Statuses : EndTransaction(t, status)
    <3>1. CASE Commit(t)
      BY <3>1, EndsCommitted
    <3>2. CASE Rollback(t)
      BY <3>2, EndsRolledBack
    <3> QED
      BY <1>6, <3>1, <3>2
  <2>3. answered' \in [Requests -> {"none"} \cup Statuses]
    BY <2>1, <2>2 DEF EndTransaction
  <2>4. committed' \subseteq Requests
    BY <1>6, <2>1 DEF Commit, Rollback
  <2>5. thread' \in [Threads -> Thread] /\ Busy'
    BY <1>6, ThreadTypes
  <2>6. UNCHANGED <<broker, worker, tries, index, overtaken, removals, checked,
                    server>>
    BY <1>6 DEF Commit, Rollback
  <2> QED
    BY <2>3, <2>4, <2>5, <2>6
<1>7. ASSUME NEW t \in Threads,
             \/ PostcommitDropped(t) \/ PostcommitSent(t)
             \/ PostcommitSwallowed(t) \/ PostcommitRaises(t)
      PROVE  TypeOK' /\ Busy'
  <2>1. thread[t].celery \subseteq Task
    BY OpenThread DEF Thread
  <2>2. broker' \subseteq Task
    BY <1>7, <2>1 DEF PostcommitDropped, PostcommitSent, PostcommitSwallowed,
                      PostcommitRaises
  <2> QED
    BY <1>7, <2>2, ThreadTypes
    DEF PostcommitDropped, PostcommitSent, PostcommitSwallowed,
        PostcommitRaises
<1>8. ASSUME NEW t \in Threads, Teardown(t)
      PROVE  TypeOK' /\ Busy'
  <2>1. /\ thread[t].queue \subseteq Task /\ thread[t].request \in Requests
        /\ thread[t].status \in Statuses
    BY <1>8, OpenThread DEF Thread, Teardown
  <2>2. /\ broker' \subseteq Task
        /\ answered' \in [Requests -> {"none"} \cup Statuses]
    BY <1>8, <2>1 DEF Teardown
  <2> QED
    BY <1>8, <2>2, ThreadTypes DEF Teardown
<1>9. ASSUME NEW w \in Workers, NEW x \in Task, Take(w, x)
      PROVE  TypeOK' /\ Busy'
  BY <1>9 DEF Take, Busy
<1>10. ASSUME NEW w \in Workers, WriteIndex(w) \/ CheckInFiles(w) \/ Retry(w)
       PROVE  TypeOK' /\ Busy'
  <2>1. /\ worker[w].task \in Task /\ worker[w].read \subseteq Requests
        /\ worker[w].task.by \in Requests
    BY <1>10 DEF WriteIndex, CheckInFiles, Retry, NoTask, Task
  <2>2. worker' \in [Workers -> [task : Task \cup {NoTask},
                                 read : SUBSET Requests]]
    BY <1>10 DEF WriteIndex, CheckInFiles, Retry, Done
  <2>3. tries' \in [Task -> 0 .. MaxRetries + 1] /\ broker' \subseteq Task
    <3>1. CASE Retry(w)
      BY <2>1, <3>1, RetriesAssumption DEF Retry
    <3> QED
      BY <1>10, <3>1 DEF WriteIndex, CheckInFiles
  <2>4. /\ index' \subseteq Requests /\ overtaken' \subseteq Requests
        /\ checked' \subseteq Requests
    BY <1>10, <2>1 DEF WriteIndex, CheckInFiles, Retry
  <2> QED
    BY <1>10, <2>2, <2>3, <2>4 DEF WriteIndex, CheckInFiles, Retry, Busy
<1>11. CASE UNCHANGED vars
  BY <1>11 DEF vars, Busy
<1> QED
  BY <1>1, <1>2, <1>3, <1>4, <1>5, <1>6, <1>7, <1>8, <1>9, <1>10, <1>11
  DEF Next

LEMMA TypesAtFirst == Init => TypeOK /\ Busy
<1> SUFFICES ASSUME Init PROVE TypeOK /\ Busy
  OBVIOUS
<1>1. Idle \in Thread /\ Idle.phase = "idle" /\ Idle.request = None
  BY DEF Idle, Thread, Statuses
<1>2. thread \in [Threads -> Thread] /\ Busy
  BY <1>1 DEF Init, Busy
<1>3. worker \in [Workers -> [task : Task \cup {NoTask}, read : SUBSET Requests]]
  BY DEF Init
<1>4. /\ tries \in [Task -> 0 .. MaxRetries + 1]
      /\ server \in [Requests -> Threads \cup {None}]
      /\ answered \in [Requests -> {"none"} \cup Statuses]
  BY RetriesAssumption DEF Init
<1> QED
  BY <1>2, <1>3, <1>4 DEF Init, TypeOK

\* Every reachable state has its types: no task fails more often than it may
\* be retried, and an open thread has a request.
THEOREM Typing == Spec => [](TypeOK /\ Busy)
<1>1. TypeOK /\ Busy /\ [Next]_vars => (TypeOK /\ Busy)'
  BY TypeStep
<1> QED
  BY <1>1, TypesAtFirst, PTL DEF Spec

-----------------------------------------------------------------------------
(* The queues of a thread hold the tasks of its own request, and once the  *)
(* transaction is over they are sent only if it was committed.             *)

\* The transaction of t is over and the request is not.
Past(t) ==
  thread[t].phase = "teardown" \/ (t \in Api /\ thread[t].phase = "postcommit")

Sound(t) ==
  LET th == thread[t] IN
  /\ th.phase # "idle" => server[th.request] = t
  /\ t \in Scripts =>
       th.phase \in {"idle", "view", "commit"} /\ th.queue = {}
  /\ t \notin Scripts /\ th.phase # "idle" =>
       /\ \A x \in th.queue : x = UpdateTask(th.request) /\ th.saved
       /\ \A x \in th.celery : x = CheckinTask(th.request) /\ th.saved
  /\ th.phase # "idle" /\ ~Past(t) => th.request \notin committed
  /\ Past(t) /\ ~DropsQueue(t, th.status) /\ th.saved =>
       th.request \in committed
  /\ th.phase = "idle" => ~th.saved

QueuesInv ==
  /\ \A t \in Threads : Sound(t)
  /\ \A r \in committed : server[r] # None

\* What is sent has been begun, and what a worker has read is committed.
SentInv ==
  /\ \A x \in Sent : server[x.by] # None
  /\ \A w \in Workers : worker[w].read \subseteq committed
  /\ OnlyCommittedIsSent
  /\ IndexIsCommitted

\* Another thread serves another request.
LEMMA SoundElsewhere ==
  ASSUME TypeOK, Busy, QueuesInv, NEW t \in Threads, NEW u \in Threads \ {t},
         thread'[u] = thread[u],
         \A r \in Requests : server[r] # None => server'[r] = server[r],
         \/ committed' = committed
         \/ /\ thread[t].phase # "idle"
            /\ committed' = committed \cup {thread[t].request}
  PROVE  Sound(u)'
<1>1. Sound(u) /\ Sound(t)
  BY DEF QueuesInv
<1>2. Past(u)' <=> Past(u)
  BY DEF Past
<1>3. CASE thread[u].phase = "idle"
  BY <1>1, <1>2, <1>3 DEF Sound, Past
<1>4. CASE thread[u].phase # "idle"
  <2>1. /\ thread[u].request \in Requests
        /\ server[thread[u].request] = u /\ u # None
    BY <1>1, <1>4, OpenThread, ThreadsAssumption DEF Sound
  <2>2. server'[thread[u].request] = u
    BY <2>1
  <2>3. thread[t].phase # "idle" => thread[u].request # thread[t].request
    BY <1>1, <2>1 DEF Sound
  <2>4. thread[u].request \in committed' <=> thread[u].request \in committed
    BY <2>3
  <2> QED
    BY <1>1, <1>2, <1>4, <2>2, <2>4 DEF Sound
<1> QED
  BY <1>3, <1>4

LEMMA SoundBegin ==
  ASSUME TypeOK, Busy, QueuesInv, NEW t \in Threads, NEW r \in Requests,
         Begin(t, r)
  PROVE  Sound(t)'
<1>0. /\ thread[t].phase = "idle" /\ server[r] = None
      /\ server'[r] = t /\ committed' = committed
      /\ r \notin committed /\ Sound(t)
  BY DEF Begin, TypeOK, QueuesInv
<1>1. CASE t \in Scripts
  <2>1. Becomes(t, "view", r, thread[t].status, thread[t].saved,
                thread[t].queue, thread[t].celery)
    BY <1>1, BeginBecomes
  <2>2. ~Past(t)'
    BY <2>1 DEF Past, Becomes
  <2> QED
    BY <1>0, <1>1, <2>1, <2>2 DEF Sound, Becomes
<1>2. CASE t \notin Scripts
  <2>1. Becomes(t, "view", r, thread[t].status, thread[t].saved, {}, {})
    BY <1>2, BeginBecomes
  <2>2. ~Past(t)'
    BY <2>1 DEF Past, Becomes
  <2> QED
    BY <1>0, <1>2, <2>1, <2>2 DEF Sound, Becomes
<1> QED
  BY <1>1, <1>2

\* In the view.
LEMMA SoundView ==
  ASSUME TypeOK, Busy, QueuesInv, NEW t \in Threads,
         Save(t) \/ RemoveContributor(t) \/ ViewComments(t)
  PROVE  Sound(t)'
<1>0. /\ thread[t].phase = "view" /\ Sound(t)
      /\ server' = server /\ committed' = committed
  BY DEF Save, RemoveContributor, ViewComments, QueuesInv
<1>1. ~Past(t)
  BY <1>0 DEF Past
<1>2. CASE Save(t) /\ t \in Scripts
  <2>1. Becomes(t, "view", thread[t].request, thread[t].status, TRUE,
                thread[t].queue, thread[t].celery)
    BY <1>2, SaveBecomes
  <2>2. ~Past(t)'
    BY <2>1 DEF Past, Becomes
  <2> QED
    BY <1>0, <1>1, <1>2, <2>1, <2>2 DEF Sound, Becomes
<1>3. CASE Save(t) /\ t \notin Scripts
  <2>1. Becomes(t, "view", thread[t].request, thread[t].status, TRUE,
                thread[t].queue \cup {UpdateTask(thread[t].request)},
                thread[t].celery)
    BY <1>3, SaveBecomes
  <2>2. ~Past(t)'
    BY <2>1 DEF Past, Becomes
  <2> QED
    BY <1>0, <1>1, <1>3, <2>1, <2>2 DEF Sound, Becomes
<1>4. CASE RemoveContributor(t)
  <2>1. Becomes(t, "view", thread[t].request, thread[t].status,
                thread[t].saved, thread[t].queue,
                thread[t].celery \cup {CheckinTask(thread[t].request)})
    BY <1>4, RemoveContributorBecomes
  <2>2. ~Past(t)' /\ thread[t].saved
    BY <1>4, <2>1 DEF Past, Becomes, RemoveContributor
  <2> QED
    BY <1>0, <1>1, <2>1, <2>2 DEF Sound, Becomes
<1>5. CASE ViewComments(t)
  <2>1. Becomes(t, "view", thread[t].request, thread[t].status,
                thread[t].saved, thread[t].queue, thread[t].celery)
    BY <1>5, ViewCommentsBecomes
  <2>2. ~Past(t)'
    BY <2>1 DEF Past, Becomes
  <2> QED
    BY <1>0, <1>1, <2>1, <2>2 DEF Sound, Becomes
<1> QED
  BY <1>2, <1>3, <1>4, <1>5

LEMMA SoundRespond ==
  ASSUME TypeOK, Busy, QueuesInv, NEW t \in Threads, NEW status \in Statuses,
         Respond(t, status)
  PROVE  Sound(t)'
<1>0. /\ thread[t].phase = "view" /\ Sound(t)
      /\ server' = server /\ committed' = committed
  BY DEF Respond, QueuesInv
<1>1. Becomes(t, After(t, "view"), thread[t].request, status,
              thread[t].saved, thread[t].queue, thread[t].celery)
  BY RespondBecomes
<1>2. ~Past(t)
  BY <1>0 DEF Past
<1>3. ~Past(t)'
  BY <1>1, Order DEF Past, Becomes
<1>4. t \in Scripts => thread'[t].phase = "commit"
  BY <1>1, Order DEF Becomes
<1> QED
  BY <1>0, <1>1, <1>2, <1>3, <1>4, PhaseTypes DEF Sound, Becomes

\* The end of the transaction decides.
LEMMA SoundEnd ==
  ASSUME TypeOK, Busy, QueuesInv, NEW t \in Threads, NEW status \in Statuses,
         EndTransaction(t, status), thread[t].phase = "commit",
         server' = server,
         \/ IsError(t, status)
         \/ thread[t].saved => thread[t].request \in committed'
  PROVE  Sound(t)'
<1>0. Sound(t)
  BY DEF QueuesInv
<1>1. CASE t \in Scripts
  <2>1. Becomes(t, "idle", None, "success", FALSE, thread[t].queue,
                thread[t].celery)
    BY <1>1, EndTransactionBecomes
  <2>2. ~Past(t)'
    BY <2>1 DEF Past, Becomes
  <2> QED
    BY <1>0, <1>1, <2>1, <2>2 DEF Sound, Becomes
<1>2. CASE t \notin Scripts
  <2>1. Becomes(t, After(t, "commit"), thread[t].request, status,
                thread[t].saved, thread[t].queue, thread[t].celery)
    BY <1>2, EndTransactionBecomes
  <2>2. Past(t)' /\ thread'[t].phase # "idle"
    BY <1>2, <2>1, Order, PhaseTypes DEF Past, Becomes
  <2>3. IsError(t, status) => DropsQueue(t, status)
    BY DEF IsError, DropsQueue
  <2> QED
    BY <1>0, <1>2, <2>1, <2>2, <2>3 DEF Sound, Becomes
<1> QED
  BY <1>1, <1>2

LEMMA SoundPostcommit ==
  ASSUME TypeOK, Busy, QueuesInv, NEW t \in Threads,
         \/ PostcommitDropped(t) \/ PostcommitSent(t)
         \/ PostcommitSwallowed(t) \/ PostcommitRaises(t)
  PROVE  Sound(t)'
<1>0. /\ thread[t].phase = "postcommit" /\ Sound(t)
      /\ server' = server /\ committed' = committed
  BY DEF PostcommitDropped, PostcommitSent, PostcommitSwallowed,
         PostcommitRaises, QueuesInv
<1>1. PICK status \in Statuses, celery \in {{}, thread[t].celery} :
        /\ Becomes(t, After(t, "postcommit"), thread[t].request, status,
                   thread[t].saved, thread[t].queue, celery)
        /\ status \in {thread[t].status, "failed"}
  BY PostcommitBecomes
<1>2. t \notin Scripts
  BY <1>0 DEF Sound
<1>3. Past(t)' <=> Past(t)
  BY <1>0, <1>1, <1>2, Order DEF Past, Becomes
<1>4. DropsQueue(t, "failed")
  BY DEF DropsQueue
<1> QED
  BY <1>0, <1>1, <1>2, <1>3, <1>4, PhaseTypes DEF Sound, Becomes

LEMMA SoundTeardown ==
  ASSUME TypeOK, Busy, QueuesInv, NEW t \in Threads, Teardown(t)
  PROVE  Sound(t)'
<1>0. thread[t].phase = "teardown" /\ Sound(t)
  BY DEF Teardown, QueuesInv
<1>1. PICK queue \in SUBSET Task :
        Becomes(t, "idle", None, "success", FALSE, queue, thread[t].celery)
  BY TeardownBecomes
<1>2. t \notin Scripts
  BY <1>0 DEF Sound
<1> QED
  BY <1>0, <1>1, <1>2 DEF Sound, Becomes, Past

\* One thread moves at a time.
LEMMA QueuesByThread ==
  ASSUME TypeOK, Busy, QueuesInv, NEW t \in Threads, Sound(t)',
         \A u \in Threads \ {t} : thread'[u] = thread[u],
         \A r \in Requests : server[r] # None => server'[r] = server[r],
         \/ committed' = committed
         \/ /\ thread[t].phase # "idle"
            /\ committed' = committed \cup {thread[t].request}
  PROVE  QueuesInv'
<1>1. \A u \in Threads : Sound(u)'
  BY SoundElsewhere
<1>2. ASSUME NEW r \in committed' PROVE server'[r] # None
  <2>1. CASE r \in committed
    BY <2>1 DEF QueuesInv, TypeOK
  <2>2. CASE thread[t].phase # "idle" /\ r = thread[t].request
    <3>1. r \in Requests /\ server[r] = t /\ t # None
      BY <2>2, OpenThread, ThreadsAssumption DEF QueuesInv, Sound
    <3> QED
      BY <3>1
  <2> QED
    BY <1>2, <2>1, <2>2
<1> QED
  BY <1>1, <1>2 DEF QueuesInv

LEMMA QueuesStep ==
  ASSUME TypeOK, Busy, QueuesInv, [Next]_vars
  PROVE  QueuesInv'
<1>1. ASSUME NEW t \in Threads, NEW r \in Requests, Begin(t, r)
      PROVE  QueuesInv'
  <2>1. Sound(t)' /\ committed' = committed
    BY <1>1, SoundBegin DEF Begin
  <2>2. \A u \in Threads \ {t} : thread'[u] = thread[u]
    BY <1>1, BeginBecomes DEF Becomes
  <2>3. \A q \in Requests : server[q] # None => server'[q] = server[q]
    BY <1>1 DEF Begin, TypeOK
  <2> QED
    BY <2>1, <2>2, <2>3, QueuesByThread
<1>2. ASSUME NEW t \in Threads, NEW status \in Statuses, Respond(t, status)
      PROVE  QueuesInv'
  <2>1. /\ Sound(t)' /\ committed' = committed /\ server' = server
        /\ \A u \in Threads \ {t} : thread'[u] = thread[u]
    BY <1>2, SoundRespond, RespondBecomes DEF Respond, Becomes
  <2> QED
    BY <2>1, QueuesByThread
<1>3. ASSUME NEW t \in Threads,
             Save(t) \/ RemoveContributor(t) \/ ViewComments(t)
      PROVE  QueuesInv'
  <2>1. committed' = committed /\ server' = server
    BY <1>3 DEF Save, RemoveContributor, ViewComments
  <2>2. \A u \in Threads \ {t} : thread'[u] = thread[u]
    BY <1>3, SaveBecomes, RemoveContributorBecomes, ViewCommentsBecomes
    DEF Becomes
  <2> QED
    BY <1>3, <2>1, <2>2, SoundView, QueuesByThread
<1>4. ASSUME NEW t \in Threads, Commit(t)
      PROVE  QueuesInv'
  <2>1. /\ EndTransaction(t, thread[t].status)
        /\ thread[t].status \in Statuses
    BY <1>4, EndsCommitted
  <2>2. /\ thread[t].phase = "commit" /\ server' = server
        /\ thread[t].saved => thread[t].request \in committed'
        /\ \/ committed' = committed
           \/ committed' = committed \cup {thread[t].request}
    BY <1>4 DEF Commit
  <2>3. Sound(t)'
    BY <2>1, <2>2, SoundEnd
  <2>4. \A u \in Threads \ {t} : thread'[u] = thread[u]
    BY <2>1, EndTransactionBecomes DEF Becomes
  <2> QED
    BY <2>2, <2>3, <2>4, QueuesByThread
<1>5. ASSUME NEW t \in Threads, Rollback(t)
      PROVE  QueuesInv'
  <2>1. PICK status \in Statuses :
          EndTransaction(t, status) /\ IsError(t, status)
    BY <1>5, EndsRolledBack
  <2>2. /\ thread[t].phase = "commit" /\ server' = server
        /\ committed' = committed
    BY <1>5 DEF Rollback
  <2>3. Sound(t)'
    BY <2>1, <2>2, SoundEnd
  <2>4. \A u \in Threads \ {t} : thread'[u] = thread[u]
    BY <2>1, EndTransactionBecomes DEF Becomes
  <2> QED
    BY <2>2, <2>3, <2>4, QueuesByThread
<1>6. ASSUME NEW t \in Threads,
             \/ PostcommitDropped(t) \/ PostcommitSent(t)
             \/ PostcommitSwallowed(t) \/ PostcommitRaises(t)
      PROVE  QueuesInv'
  <2>1. committed' = committed /\ server' = server
    BY <1>6 DEF PostcommitDropped, PostcommitSent, PostcommitSwallowed,
                PostcommitRaises
  <2>2. \A u \in Threads \ {t} : thread'[u] = thread[u]
    BY <1>6, PostcommitBecomes DEF Becomes
  <2> QED
    BY <1>6, <2>1, <2>2, SoundPostcommit, QueuesByThread
<1>7. ASSUME NEW t \in Threads, Teardown(t)
      PROVE  QueuesInv'
  <2>1. /\ committed' = committed /\ server' = server
        /\ \A u \in Threads \ {t} : thread'[u] = thread[u]
    BY <1>7, TeardownBecomes DEF Teardown, Becomes
  <2> QED
    BY <1>7, <2>1, SoundTeardown, QueuesByThread
<1>8. CASE UNCHANGED <<committed, thread, server>>
  BY <1>8 DEF QueuesInv, Sound, Past
<1>9. ASSUME NEW w \in Workers,
             \/ \E x \in Task : Take(w, x)
             \/ WriteIndex(w) \/ CheckInFiles(w) \/ Retry(w)
      PROVE  QueuesInv'
  BY <1>8, <1>9 DEF Take, WriteIndex, CheckInFiles, Retry
<1>10. CASE UNCHANGED vars
  BY <1>8, <1>10 DEF vars
<1> QED
  BY <1>1, <1>2, <1>3, <1>4, <1>5, <1>6, <1>7, <1>9, <1>10 DEF Next

LEMMA QueuesAtFirst == Init => QueuesInv
BY DEF Init, QueuesInv, Sound, Past, Idle, DropsQueue

-----------------------------------------------------------------------------
(* What is sent.                                                           *)

LEMMA SentTypes ==
  ASSUME TypeOK, NEW x \in Sent
  PROVE  x \in Task /\ x.by \in Requests
BY DEF TypeOK, Sent, Task

\* Nothing but the sending of a task of a committed request, or of one of the
\* web site that is no update, makes Sent grow.
LEMMA SentGrows ==
  ASSUME TypeOK, Busy, QueuesInv, Next
  PROVE  \A x \in Sent' \ Sent :
           /\ x \in Task /\ server[x.by] # None /\ server' = server
           /\ x.fn = "update_node_async" \/ server[x.by] \in Api =>
                x.by \in committed
<1> SUFFICES ASSUME NEW x \in Sent', x \notin Sent
             PROVE  /\ x \in Task /\ server[x.by] # None /\ server' = server
                    /\ x.fn = "update_node_async" \/ server[x.by] \in Api =>
                         x.by \in committed
  OBVIOUS
<1>1. ASSUME NEW t \in Threads, PostcommitSent(t)
      PROVE  /\ x \in Task /\ server[x.by] # None /\ server' = server
             /\ x.fn = "update_node_async" \/ server[x.by] \in Api =>
                  x.by \in committed
  <2>1. /\ x \in thread[t].celery /\ server' = server
        /\ thread[t].phase = "postcommit"
        /\ ~DropsQueue(t, thread[t].status)
    BY <1>1 DEF PostcommitSent, Sent
  <2>2. /\ Sound(t) /\ thread[t] \in Thread /\ t # None
        /\ thread[t].request \in Requests
    BY <2>1, OpenThread, ThreadsAssumption DEF QueuesInv
  <2>3. t \notin Scripts
    BY <2>1, <2>2 DEF Sound
  <2>4. /\ x = CheckinTask(thread[t].request) /\ thread[t].saved
        /\ server[thread[t].request] = t
    BY <2>1, <2>2, <2>3 DEF Sound
  <2>5. /\ x \in Task /\ x.by = thread[t].request
        /\ x.fn = "checkin_files_task"
    BY <2>2, <2>4 DEF CheckinTask, Task
  <2>6. t \in Api => thread[t].request \in committed
    BY <2>1, <2>2, <2>4 DEF Sound, Past
  <2> QED
    BY <2>1, <2>2, <2>4, <2>5, <2>6
<1>2. ASSUME NEW t \in Threads, Teardown(t)
      PROVE  /\ x \in Task /\ server[x.by] # None /\ server' = server
             /\ x.fn = "update_node_async" \/ server[x.by] \in Api =>
                  x.by \in committed
  <2>1. /\ x \in thread[t].queue /\ server' = server
        /\ thread[t].phase = "teardown"
        /\ ~DropsQueue(t, thread[t].status)
    BY <1>2 DEF Teardown, Sent
  <2>2. /\ Sound(t) /\ thread[t] \in Thread /\ t # None
        /\ thread[t].request \in Requests
    BY <2>1, OpenThread, ThreadsAssumption DEF QueuesInv
  <2>3. /\ x = UpdateTask(thread[t].request) /\ thread[t].saved
        /\ server[thread[t].request] = t
    BY <2>1, <2>2 DEF Sound
  <2>4. x \in Task /\ x.by = thread[t].request
    BY <2>2, <2>3 DEF UpdateTask, Task
  <2>5. thread[t].request \in committed
    BY <2>1, <2>2, <2>3 DEF Sound, Past
  <2> QED
    BY <2>1, <2>2, <2>3, <2>4, <2>5
<1>3. CASE \E w \in Workers : \/ \E y \in Task : Take(w, y)
                              \/ WriteIndex(w) \/ CheckInFiles(w) \/ Retry(w)
  BY <1>3 DEF Take, WriteIndex, CheckInFiles, Retry, Done, Sent, TypeOK
<1>4. CASE UNCHANGED <<broker, worker>>
  BY <1>4 DEF Sent
<1>5. \/ UNCHANGED <<broker, worker>>
      \/ \E t \in Threads : PostcommitSent(t) \/ Teardown(t)
      \/ \E w \in Workers : \/ \E y \in Task : Take(w, y)
                            \/ WriteIndex(w) \/ CheckInFiles(w) \/ Retry(w)
  BY DEF Next, Begin, Respond, Save, RemoveContributor, ViewComments, Commit,
         Rollback, PostcommitDropped, PostcommitSwallowed, PostcommitRaises
<1> QED
  BY <1>1, <1>2, <1>3, <1>4, <1>5

\* What is committed stays, and so does who serves what.
LEMMA Monotone ==
  ASSUME TypeOK, Next
  PROVE  /\ committed \subseteq committed'
         /\ \A r \in Requests : server[r] # None => server'[r] = server[r]
<1>1. committed \subseteq committed'
  BY DEF Next, Begin, Respond, Save, RemoveContributor, ViewComments, Commit,
         Rollback, PostcommitDropped, PostcommitSent, PostcommitSwallowed,
         PostcommitRaises, Teardown, Take, WriteIndex, CheckInFiles, Retry
<1>2. ASSUME NEW t \in Threads, NEW r \in Requests, Begin(t, r)
      PROVE  \A q \in Requests : server[q] # None => server'[q] = server[q]
  BY <1>2 DEF Begin, TypeOK
<1>3. \/ server' = server
      \/ \E t \in Threads, r \in Requests : Begin(t, r)
  BY DEF Next, Respond, Save, RemoveContributor, ViewComments, Commit,
         Rollback, PostcommitDropped, PostcommitSent, PostcommitSwallowed,
         PostcommitRaises, Teardown, Take, WriteIndex, CheckInFiles, Retry
<1> QED
  BY <1>1, <1>2, <1>3

\* A row that has been read, or written to the index.
LEMMA IndexStep ==
  ASSUME TypeOK, Busy, QueuesInv, SentInv, Next
  PROVE  /\ \A w \in Workers : worker'[w].read \subseteq committed'
         /\ IndexIsCommitted'
<1>0. /\ committed \subseteq committed'
      /\ \A r \in index : r \in committed' \/ server'[r] \in Scripts
  BY Monotone, ThreadsAssumption DEF SentInv, IndexIsCommitted, TypeOK
<1>1. ASSUME NEW t \in Threads, Save(t)
      PROVE  /\ \A w \in Workers : worker'[w].read \subseteq committed'
             /\ IndexIsCommitted'
  <2>1. /\ thread[t].request \in Requests /\ Sound(t)
        /\ thread[t].phase # "idle"
    BY <1>1, OpenThread DEF Save, QueuesInv
  <2>2. server[thread[t].request] = t
    BY <2>1 DEF Sound
  <2> QED
    BY <1>0, <1>1, <2>2
    DEF Save, OutsideRequest, IndexIsCommitted, SentInv
<1>2. ASSUME NEW w \in Workers, WriteIndex(w)
      PROVE  /\ \A v \in Workers : worker'[v].read \subseteq committed'
             /\ IndexIsCommitted'
  BY <1>0, <1>2 DEF WriteIndex, Done, IndexIsCommitted, SentInv, TypeOK
<1>3. ASSUME NEW w \in Workers,
             \/ \E x \in Task : Take(w, x)
             \/ CheckInFiles(w) \/ Retry(w)
      PROVE  /\ \A v \in Workers : worker'[v].read \subseteq committed'
             /\ IndexIsCommitted'
  <2>1. index' = index /\ committed' = committed
    BY <1>3 DEF Take, CheckInFiles, Retry
  <2>2. PICK x \in Task \cup {NoTask}, read \in {committed, {}} :
          worker' = [worker EXCEPT ![w] = [task |-> x, read |-> read]]
    BY <1>3 DEF Take, CheckInFiles, Retry, Done
  <2> QED
    BY <1>0, <2>1, <2>2 DEF IndexIsCommitted, SentInv, TypeOK
<1>4. CASE UNCHANGED <<worker, index>>
  BY <1>0, <1>4 DEF IndexIsCommitted, SentInv
<1>5. \/ UNCHANGED <<worker, index>>
      \/ \E t \in Threads : Save(t)
      \/ \E w \in Workers : \/ \E x \in Task : Take(w, x)
                            \/ WriteIndex(w) \/ CheckInFiles(w) \/ Retry(w)
  BY DEF Next, Begin, Respond, RemoveContributor, ViewComments, Commit,
         Rollback, PostcommitDropped, PostcommitSent, PostcommitSwallowed,
         PostcommitRaises, Teardown
<1> QED
  BY <1>1, <1>2, <1>3, <1>4, <1>5

LEMMA SentStep ==
  ASSUME TypeOK, Busy, QueuesInv, SentInv, [Next]_vars
  PROVE  SentInv'
<1>1. CASE Next
  <2>1. ASSUME NEW x \in Sent'
        PROVE  /\ server'[x.by] # None
               /\ x.fn = "update_node_async" \/ server'[x.by] \in Api =>
                    x.by \in committed'
    <3>1. CASE x \in Sent
      BY <1>1, <3>1, SentTypes, Monotone DEF SentInv, OnlyCommittedIsSent
    <3>2. CASE x \notin Sent
      BY <1>1, <3>2, SentGrows, Monotone
    <3> QED
      BY <3>1, <3>2
  <2> QED
    BY <1>1, <2>1, IndexStep DEF SentInv, OnlyCommittedIsSent
<1>2. CASE UNCHANGED vars
  BY <1>2 DEF vars, SentInv, Sent, OnlyCommittedIsSent, IndexIsCommitted
<1> QED
  BY <1>1, <1>2

LEMMA SentAtFirst == Init => SentInv
BY DEF Init, SentInv, Sent, OnlyCommittedIsSent, IndexIsCommitted

\* The inductive invariant of the queues holds in every reachable state.
THEOREM Safety == Spec => [](TypeOK /\ Busy /\ QueuesInv /\ SentInv)
<1>1. Init => TypeOK /\ Busy /\ QueuesInv /\ SentInv
  BY TypesAtFirst, QueuesAtFirst, SentAtFirst
<1>2. TypeOK /\ Busy /\ QueuesInv /\ SentInv /\ [Next]_vars =>
        (TypeOK /\ Busy /\ QueuesInv /\ SentInv)'
  BY TypeStep, QueuesStep, SentStep
<1> QED
  BY <1>1, <1>2, PTL DEF Spec

\* Whatever the threads and requests, no task of the request queue and no
\* post-commit task of the API is sent for a change that is not committed.
THEOREM SentIsCommitted == Spec => []OnlyCommittedIsSent
<1>1. SentInv => OnlyCommittedIsSent
  BY DEF SentInv
<1> QED
  BY <1>1, Safety, PTL

\* The search index shows nothing uncommitted but what a script put there.
THEOREM IndexFollowsCommit == Spec => []IndexIsCommitted
<1>1. SentInv => IndexIsCommitted
  BY DEF SentInv
<1> QED
  BY <1>1, Safety, PTL

-----------------------------------------------------------------------------
(* The steps of RequestTasks are steps of DelayedTasks, or stutter.        *)

Owed    == UNION {OwedBy(t) : t \in Threads}
Running == {r \in Requests : UpdateTask(r) \in Sent}

LEMMA OwedIs ==
  /\ \A r : r \in Owed <=>
       \E t \in Threads : /\ r \in committed /\ r = thread[t].request
                          /\ UpdateTask(r) \in thread[t].queue
  /\ \A r : r \in Owed' <=>
       \E t \in Threads : /\ r \in committed' /\ r = thread'[t].request
                          /\ UpdateTask(r) \in thread'[t].queue
BY DEF Owed, OwedBy, UpdateTask

\* What the abstract specification may do, in the words of this one.
LEMMA DelayedSteps ==
  ASSUME \/ /\ committed' = committed /\ Owed' = Owed /\ Running' = Running
         \/ \E r \in Requests :
              \/ /\ committed' = committed \cup {r}
                 /\ Owed' \in {Owed, Owed \cup {r}} /\ Running' = Running
              \/ /\ r \in Owed /\ committed' = committed
                 /\ Owed' = Owed \ {r}
                 /\ Running' \in {Running, Running \cup {r}}
              \/ /\ r \in Running /\ Running' = Running \ {r}
                 /\ committed' = committed /\ Owed' = Owed
  PROVE  [Delayed!Next]_(Delayed!vars)
BY DEF Delayed!Next, Delayed!vars, Delayed!Commit, Delayed!Send,
       Delayed!Forget, Delayed!End, Owed, Running

\* A thread that has not ended its transaction owes nothing.
LEMMA NothingOwedYet ==
  ASSUME TypeOK, Busy, QueuesInv, NEW t \in Threads, ~Past(t)
  PROVE  thread[t].request \notin committed
<1>1. CASE thread[t].phase = "idle"
  BY <1>1, ThreadsAssumption DEF Busy, TypeOK
<1>2. CASE thread[t].phase # "idle"
  BY <1>2 DEF QueuesInv, Sound
<1> QED
  BY <1>1, <1>2

\* As long as a thread keeps its request, or has none committed before and
\* after, it owes what it owed.
LEMMA OwedSame ==
  ASSUME NEW t \in Threads, committed' = committed,
         \A u \in Threads \ {t} : thread'[u] = thread[u],
         \/ /\ thread'[t].request = thread[t].request
            /\ thread'[t].queue = thread[t].queue
         \/ /\ thread[t].request \notin committed
            /\ thread'[t].request \notin committed \/ thread'[t].queue = {}
  PROVE  Owed' = Owed
<1>1. ASSUME NEW u \in Threads, NEW r
      PROVE  (/\ r \in committed' /\ r = thread'[u].request
              /\ UpdateTask(r) \in thread'[u].queue)
               <=> (/\ r \in committed /\ r = thread[u].request
                    /\ UpdateTask(r) \in thread[u].queue)
  <2>1. CASE u = t
    BY <2>1
  <2>2. CASE u # t
    BY <2>2
  <2> QED
    BY <2>1, <2>2
<1>2. \A r : r \in Owed' <=> r \in Owed
  BY <1>1, OwedIs
<1> QED
  BY <1>2 DEF Owed

LEMMA RunningSame ==
  ASSUME UNCHANGED <<broker, worker>>
  PROVE  Running' = Running
BY DEF Running, Sent

LEMMA RefinesBegin ==
  ASSUME TypeOK, Busy, QueuesInv, NEW t \in Threads, NEW r \in Requests,
         Begin(t, r)
  PROVE  [Delayed!Next]_(Delayed!vars)
<1>1. /\ thread[t].phase = "idle" /\ committed' = committed
      /\ UNCHANGED <<broker, worker>> /\ ~Past(t)
  BY DEF Begin, Past
<1>2. /\ thread'[t].queue = {}
      /\ \A u \in Threads \ {t} : thread'[u] = thread[u]
  BY BeginBecomes DEF Becomes, QueuesInv, Sound
<1>3. Owed' = Owed
  BY <1>1, <1>2, NothingOwedYet, OwedSame
<1> QED
  BY <1>1, <1>3, RunningSame, DelayedSteps

LEMMA RefinesView ==
  ASSUME TypeOK, Busy, QueuesInv, NEW t \in Threads,
         \/ Save(t) \/ RemoveContributor(t) \/ ViewComments(t)
         \/ \E status \in Statuses : Respond(t, status)
  PROVE  [Delayed!Next]_(Delayed!vars)
<1>1. /\ thread[t].phase = "view" /\ committed' = committed
      /\ UNCHANGED <<broker, worker>>
  BY DEF Save, RemoveContributor, ViewComments, Respond
<1>2. /\ thread'[t].request = thread[t].request
      /\ \A u \in Threads \ {t} : thread'[u] = thread[u]
  BY SaveBecomes, RemoveContributorBecomes, ViewCommentsBecomes,
     RespondBecomes DEF Becomes
<1>3. thread[t].request \notin committed
  BY <1>1, NothingOwedYet DEF Past
<1>4. Owed' = Owed
  BY <1>1, <1>2, <1>3, OwedSame
<1> QED
  BY <1>1, <1>4, RunningSame, DelayedSteps

LEMMA RefinesCommit ==
  ASSUME TypeOK, Busy, QueuesInv, NEW t \in Threads, Commit(t)
  PROVE  [Delayed!Next]_(Delayed!vars)
<1> DEFINE r == thread[t].request
<1>1. /\ thread[t].phase = "commit" /\ r \in Requests /\ r \notin committed
      /\ UNCHANGED <<broker, worker>>
      /\ committed' \in {committed, committed \cup {r}}
  BY OpenThread, NothingOwedYet DEF Commit, Past
<1>2. /\ \A u \in Threads \ {t} : thread'[u] = thread[u]
      /\ thread'[t].request \in {r, None}
  BY EndsCommitted, EndTransactionBecomes DEF Becomes
<1>3. \A u \in Threads \ {t} : thread[u].request # r \/ thread[u].request = None
  BY <1>1, OpenThread, ThreadsAssumption DEF QueuesInv, Sound, Busy
<1>4. r # None /\ None \notin committed'
  BY <1>1, ThreadsAssumption DEF TypeOK
<1>5. Owed \subseteq Owed'
  BY <1>1, <1>2, OwedIs
<1>6. Owed' \subseteq Owed \cup {r}
  BY <1>1, <1>2, <1>3, <1>4, OwedIs
<1>7. committed' = committed => Owed' = Owed
  <2> SUFFICES ASSUME committed' = committed PROVE Owed' \subseteq Owed
    BY <1>5
  <2>1. r \notin committed'
    BY <1>1
  <2> QED
    BY <1>1, <1>2, <1>4, <2>1, OwedIs
<1>8. Owed' \in {Owed, Owed \cup {r}}
  BY <1>5, <1>6
<1> QED
  BY <1>1, <1>7, <1>8, RunningSame, DelayedSteps

LEMMA RefinesRollback ==
  ASSUME TypeOK, Busy, QueuesInv, NEW t \in Threads, Rollback(t)
  PROVE  [Delayed!Next]_(Delayed!vars)
<1>1. /\ committed' = committed /\ thread[t].request \notin committed
      /\ UNCHANGED <<broker, worker>>
  BY NothingOwedYet DEF Rollback, Past
<1>2. /\ \A u \in Threads \ {t} : thread'[u] = thread[u]
      /\ thread'[t].request \in {thread[t].request, None}
  BY EndsRolledBack, EndTransactionBecomes DEF Becomes
<1>3. Owed' = Owed
  BY <1>1, <1>2, OwedSame, ThreadsAssumption DEF TypeOK
<1> QED
  BY <1>1, <1>3, RunningSame, DelayedSteps

LEMMA RefinesPostcommit ==
  ASSUME TypeOK, Busy, QueuesInv, NEW t \in Threads,
         \/ PostcommitDropped(t) \/ PostcommitSent(t)
         \/ PostcommitSwallowed(t) \/ PostcommitRaises(t)
  PROVE  [Delayed!Next]_(Delayed!vars)
<1>1. /\ thread[t].phase = "postcommit" /\ committed' = committed
      /\ worker' = worker
      /\ broker' \in {broker, broker \cup thread[t].celery}
  BY DEF PostcommitDropped, PostcommitSent, PostcommitSwallowed,
         PostcommitRaises
<1>2. /\ \A u \in Threads \ {t} : thread'[u] = thread[u]
      /\ thread'[t].request = thread[t].request
      /\ thread'[t].queue = thread[t].queue
  BY PostcommitBecomes DEF Becomes
<1>3. Owed' = Owed
  BY <1>1, <1>2, OwedSame
<1>4. \A x \in thread[t].celery : x.fn = "checkin_files_task"
  BY <1>1 DEF QueuesInv, Sound, CheckinTask
<1>5. \A r \in Requests : UpdateTask(r) \notin thread[t].celery
  BY <1>4 DEF UpdateTask
<1>6. Running' = Running
  BY <1>1, <1>5 DEF Running, Sent
<1> QED
  BY <1>1, <1>3, <1>6, DelayedSteps

LEMMA RefinesTeardown ==
  ASSUME TypeOK, Busy, QueuesInv, NEW t \in Threads, Teardown(t)
  PROVE  [Delayed!Next]_(Delayed!vars)
<1> DEFINE r == thread[t].request
<1>1. /\ thread[t].phase = "teardown" /\ r \in Requests /\ Past(t)
      /\ Sound(t) /\ t \notin Scripts
      /\ committed' = committed /\ worker' = worker
  BY OpenThread DEF Teardown, Past, QueuesInv, Sound
<1>2. /\ \A u \in Threads \ {t} : thread'[u] = thread[u]
      /\ thread'[t].request = None /\ None \notin committed /\ r # None
  BY <1>1, TeardownBecomes, ThreadsAssumption DEF Becomes, TypeOK
<1>3. \A u \in Threads \ {t} : thread[u].request # r
  BY <1>1, <1>2, OpenThread DEF QueuesInv, Sound, Busy
<1>4. Owed' = Owed \ {r}
  BY <1>1, <1>2, <1>3, OwedIs
<1>5. CASE DropsQueue(t, thread[t].status)
  <2>1. Running' = Running
    BY <1>1, <1>5, RunningSame DEF Teardown
  <2> QED
    BY <1>1, <1>4, <2>1, DelayedSteps
<1>6. CASE ~DropsQueue(t, thread[t].status) /\ thread[t].queue = {}
  <2>1. Running' = Running
    BY <1>1, <1>6, RunningSame DEF Teardown
  <2> QED
    BY <1>1, <1>4, <2>1, DelayedSteps
<1>7. CASE ~DropsQueue(t, thread[t].status) /\ thread[t].queue # {}
  <2>1. thread[t].queue = {UpdateTask(r)} /\ thread[t].saved
    BY <1>1, <1>7 DEF Sound
  <2>2. r \in committed
    BY <1>1, <1>7, <2>1 DEF Sound
  <2>3. r \in Owed
    BY <2>1, <2>2, OwedIs
  <2>4. broker' = broker \cup {UpdateTask(r)}
    BY <1>7, <2>1 DEF Teardown
  <2>5. \A q \in Requests : UpdateTask(q) = UpdateTask(r) <=> q = r
    BY DEF UpdateTask
  <2>6. UpdateTask(r) # NoTask
    BY DEF UpdateTask, NoTask
  <2>7. Running' = Running \cup {r}
    BY <1>1, <2>4, <2>5, <2>6 DEF Running, Sent
  <2> QED
    BY <1>1, <1>4, <2>3, <2>7, DelayedSteps
<1> QED
  BY <1>5, <1>6, <1>7

\* Taking a task, or putting it back, keeps it sent; its end may end it.
LEMMA RefinesWorker ==
  ASSUME TypeOK, NEW w \in Workers,
         \/ \E x \in Task : Take(w, x)
         \/ WriteIndex(w) \/ CheckInFiles(w) \/ Retry(w)
  PROVE  [Delayed!Next]_(Delayed!vars)
<1>1. committed' = committed /\ Owed' = Owed
  BY DEF Take, WriteIndex, CheckInFiles, Retry, Owed, OwedBy
<1>2. ASSUME NEW x \in Task, Take(w, x) PROVE Running' = Running
  <2>1. Sent' = Sent
    BY <1>2 DEF Take, Sent, TypeOK
  <2> QED
    BY <2>1 DEF Running
<1>3. ASSUME WriteIndex(w) \/ CheckInFiles(w) \/ Retry(w)
      PROVE  \/ Running' = Running
             \/ \E r \in Running : Running' = Running \ {r}
  <2>1. /\ worker[w].task \in Task /\ worker[w].task \in Sent
        /\ worker[w].task.by \in Requests
    BY <1>3 DEF WriteIndex, CheckInFiles, Retry, NoTask, Task, TypeOK, Sent
  <2>2. Sent' \in {Sent, Sent \ {worker[w].task}}
    BY <1>3, <2>1 DEF WriteIndex, CheckInFiles, Retry, Done, Sent, TypeOK
  <2>3. \A r \in Requests :
          UpdateTask(r) = worker[w].task => r = worker[w].task.by
    BY DEF UpdateTask
  <2> QED
    BY <2>1, <2>2, <2>3 DEF Running
<1>4. CASE Running' = Running
  BY <1>1, <1>4, DelayedSteps
<1>5. CASE \E r \in Running : Running' = Running \ {r}
  BY <1>1, <1>5, DelayedSteps DEF Running
<1> QED
  BY <1>2, <1>3, <1>4, <1>5

\* Every behaviour of the two frameworks, their queues and their failures is,
\* seen through the request queue, one of the delayed tasks.
THEOREM DelaysTasks == Spec => Delayed!Init /\ [][Delayed!Next]_(Delayed!vars)
<1>1. Init => Delayed!Init
  BY DEF Init, Delayed!Init, OwedBy, Sent, UpdateTask
<1>2. TypeOK /\ Busy /\ QueuesInv /\ [Next]_vars =>
        [Delayed!Next]_(Delayed!vars)
  <2> SUFFICES ASSUME TypeOK, Busy, QueuesInv, [Next]_vars
               PROVE  [Delayed!Next]_(Delayed!vars)
    OBVIOUS
  <2>1. CASE Next
    BY <2>1, RefinesBegin, RefinesView, RefinesCommit, RefinesRollback,
       RefinesPostcommit, RefinesTeardown, RefinesWorker DEF Next
  <2>2. CASE UNCHANGED vars
    <3>1. committed' = committed /\ Owed' = Owed /\ Running' = Running
      BY <2>2 DEF vars, Owed, OwedBy, Running, Sent
    <3> QED
      BY <3>1, DelayedSteps
  <2> QED
    BY <2>1, <2>2
<1> QED
  BY <1>1, <1>2, Safety, PTL DEF Spec

=============================================================================
