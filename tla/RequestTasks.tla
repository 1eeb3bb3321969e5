----------------------------- MODULE RequestTasks -----------------------------
(***************************************************************************)
(* What a request leaves to be done after it: the two queues of a thread   *)
(* (framework/celery_tasks/handlers.py, framework/postcommit_tasks/        *)
(* handlers.py), the transaction that surrounds the view, and the workers  *)
(* that run what was queued.                                               *)
(*                                                                         *)
(* A request changes the row of a node.  Its update_search queues          *)
(* update_node_async, which copies the row into the search index; the      *)
(* request may also remove a contributor, which queues checkin_files_task  *)
(* as a post-commit task, and view comments, which queues ban_url as a     *)
(* post-commit function of the thread itself.                              *)
(***************************************************************************)
EXTENDS Naturals, FiniteSets

CONSTANTS
  Threads,     \* the threads of the web site, of the API, and the scripts
  Api,         \* the threads that serve the API: Django and its middleware
  Scripts,     \* the processes outside any request: scripts, celery tasks
  Requests,    \* the requests, or runs of a script; each changes the row once
  Workers,     \* the celery workers
  None,        \* no request, no thread
  MaxRetries   \* max_retries of the task; it is 5 in the code

ASSUME ThreadsAssumption ==
  /\ Api \subseteq Threads /\ Scripts \subseteq Threads
  /\ Api \cap Scripts = {}
  /\ None \notin Requests \cup Threads
ASSUME RetriesAssumption == MaxRetries \in Nat

VARIABLES
  committed,   \* the requests whose change is committed
  thread,      \* thread[t]: what the thread serves, and its queues
  broker,      \* the tasks sent and not taken by a worker
  worker,      \* worker[w]: the task it runs and the row it has read
  tries,       \* tries[x]: how often task x has failed
  index,       \* the requests whose change the search index shows
  overtaken,   \* the requests whose change was in the index until a task
               \* that had read the row before it wrote what it had read
  removals,    \* the requests that removed a contributor
  checked,     \* the removals whose files have been checked in
  server,      \* server[r]: the thread that serves r
  answered     \* answered[r]: what the client of r was told

vars == <<committed, thread, broker, worker, tries, index, overtaken,
          removals, checked, server, answered>>

-----------------------------------------------------------------------------
Statuses == {"success", "refused", "failed"}   \* below 400, 4xx, 5xx

Task == [by : Requests, fn : {"update_node_async", "checkin_files_task"}]

NoTask    == [fn |-> "none"]
ApiPhases == {"view", "commit", "postcommit", "teardown"}

Thread ==
  [phase : {"idle"} \cup ApiPhases, request : Requests \cup {None},
   status : Statuses, saved : BOOLEAN,
   queue : SUBSET Task,        \* framework.celery_tasks.handlers._local
   celery : SUBSET Task,       \* postcommit_celery_queue
   greenlets : BOOLEAN]        \* whether ban_url is in postcommit_queue

Idle == [phase |-> "idle", request |-> None, status |-> "success",
         saved |-> FALSE, queue |-> {}, celery |-> {}, greenlets |-> FALSE]

\* Mutated form: the API too serves the post-commit queue before the commit.
AfterInOrder(t, phase) ==
  CASE phase = "view"       -> IF t \in Scripts THEN "commit" ELSE "postcommit"
    [] phase = "postcommit" -> "commit"
    [] phase = "commit"     -> "teardown"

(***************************************************************************)
(* The order of the handlers.  Flask calls after_request functions in the  *)
(* reverse of the order in which attach_handlers registers them, so the    *)
(* post-commit queue is served before the transaction ends; with           *)
(* ATOMIC_REQUESTS Django ends the transaction around the view, before any *)
(* middleware sees the response.  A script has only its transaction.       *)
(***************************************************************************)
After(t, phase) ==
  IF phase = "view"
  THEN IF t \in Api \cup Scripts THEN "commit" ELSE "postcommit"
  ELSE IF phase = "commit" /\ t \in Api THEN "postcommit"
  ELSE IF phase = "postcommit" /\ t \notin Api THEN "commit"
  ELSE "teardown"

\* base_status_code_error: from it on the transaction is rolled back.  It is
\* 500 for the web site; the API rolls back whatever is refused.
IsError(t, status) ==
  \/ status = "failed"
  \/ t \in Api /\ status = "refused"

\* Mutated form: the web site drops the tasks of a 4xx, which it commits.
DropsQueueFrom400(t, status) == status # "success"

\* Mutated form: the API keeps the tasks of a 4xx, as the web site does.
DropsQueueFrom500(t, status) == status = "failed"

\* The base status that the handlers of both queues are given.
DropsQueue(t, status) ==
  status \in (IF t \in Api THEN {"refused", "failed"} ELSE {"failed"})

\* Mutated form: one of the two contexts is missing in any request.
OutsideFlaskOrDjango(t) == t \in Api \cup Scripts

\* Neither Flask nor Django has a request open.
OutsideRequest(t) == t \in Scripts

-----------------------------------------------------------------------------
Init ==
  /\ committed = {} /\ broker = {} /\ index = {} /\ overtaken = {}
  /\ removals = {} /\ checked = {}
  /\ thread = [t \in Threads |-> Idle]
  /\ worker = [w \in Workers |-> [task |-> NoTask, read |-> {}]]
  /\ tries = [x \in Task |-> 0]
  /\ server = [r \in Requests |-> None]
  /\ answered = [r \in Requests |-> "none"]

\* The request is over; the queues stay as they are until the next one begins.
Ended(th) == [th EXCEPT !.phase = "idle", !.request = None,
                        !.status = "success", !.saved = FALSE]

\* celery_before_request and postcommit_before_request.
EmptyQueues(th) == [th EXCEPT !.queue = {}, !.celery = {}, !.greenlets = FALSE]

\* A script has no before_request handler; its queues are as they were.
Begin(t, r) ==
  /\ thread[t].phase = "idle" /\ server[r] = None
  /\ server' = [server EXCEPT ![r] = t]
  /\ LET th == IF t \in Scripts THEN thread[t] ELSE EmptyQueues(thread[t])
     IN  thread' = [thread EXCEPT ![t] =
           [th EXCEPT !.phase = "view", !.request = r]]
  /\ UNCHANGED <<committed, broker, worker, tries, index, overtaken,
                 removals, checked, answered>>

(***************************************************************************)
(* The view saves the node and calls its update_search.  _enqueue_task     *)
(* puts update_node_async in the queue of the thread or, outside a         *)
(* request, calls it on the spot: it then reads the row as the open        *)
(* transaction has it.                                                     *)
(***************************************************************************)
Save(t) ==
  LET x == [by |-> thread[t].request, fn |-> "update_node_async"] IN
  /\ thread[t].phase = "view" /\ ~thread[t].saved
  /\ IF OutsideRequest(t)
     THEN /\ thread' = [thread EXCEPT ![t].saved = TRUE]
          /\ index' = committed \cup {thread[t].request}
     ELSE /\ thread' = [thread EXCEPT ![t].saved = TRUE,
                                      ![t].queue = @ \cup {x}]
          /\ UNCHANGED index
  /\ UNCHANGED <<committed, broker, worker, tries, overtaken, removals,
                 checked, server, answered>>

\* contributor_removed: checkin_files_by_user calls enqueue_postcommit_task,
\* which only appends, inside a request or not.
RemoveContributor(t) ==
  LET x == [by |-> thread[t].request, fn |-> "checkin_files_task"] IN
  /\ thread[t].phase = "view" /\ thread[t].saved
  /\ x \notin thread[t].celery
  /\ thread' = [thread EXCEPT ![t].celery = @ \cup {x}]
  /\ removals' = removals \cup {thread[t].request}
  /\ UNCHANGED <<committed, broker, worker, tries, index, overtaken, checked,
                 server, answered>>

\* _update_comments_timestamp, a view of the web site, queues ban_url.
ViewComments(t) ==
  /\ thread[t].phase = "view" /\ t \notin Api \cup Scripts
  /\ ~thread[t].greenlets
  /\ thread' = [thread EXCEPT ![t].greenlets = TRUE]
  /\ UNCHANGED <<committed, broker, worker, tries, index, overtaken,
                 removals, checked, server, answered>>

\* The view returns, or raises.  A script has no status to refuse with.
Respond(t, status) ==
  /\ thread[t].phase = "view"
  /\ t \in Scripts => status # "refused"
  /\ thread' = [thread EXCEPT ![t].phase = After(t, "view"),
                              ![t].status = status]
  /\ UNCHANGED <<committed, broker, worker, tries, index, overtaken,
                 removals, checked, server, answered>>

(***************************************************************************)
(* The end of the transaction.  A commit may itself fail; the error turns  *)
(* the response into a 500.  It is also where a script ends.               *)
(***************************************************************************)
EndTransaction(t, status) ==
  /\ thread' = [thread EXCEPT ![t] =
       IF t \in Scripts THEN Ended(@)
       ELSE [@ EXCEPT !.phase = After(t, "commit"), !.status = status]]
  /\ answered' = IF t \in Scripts
                 THEN [answered EXCEPT ![thread[t].request] = status]
                 ELSE answered

Commit(t) ==
  /\ thread[t].phase = "commit" /\ ~IsError(t, thread[t].status)
  /\ committed' = IF thread[t].saved THEN committed \cup {thread[t].request}
                  ELSE committed
  /\ EndTransaction(t, thread[t].status)
  /\ UNCHANGED <<broker, worker, tries, index, overtaken, removals, checked,
                 server>>

Rollback(t) ==
  /\ thread[t].phase = "commit"
  /\ EndTransaction(t, IF IsError(t, thread[t].status) THEN thread[t].status
                       ELSE "failed")
  /\ UNCHANGED <<committed, broker, worker, tries, index, overtaken,
                 removals, checked, server>>

(***************************************************************************)
(* postcommit_after_request.  The functions of the thread run first; when  *)
(* one raises, the tasks are not sent.  An AttributeError is taken for a   *)
(* queue that was not initialized: it is logged and the response stands.   *)
(***************************************************************************)
PostcommitDropped(t) ==
  /\ thread[t].phase = "postcommit" /\ DropsQueue(t, thread[t].status)
  /\ thread' = [thread EXCEPT ![t].phase = After(t, "postcommit"),
                              ![t].celery = {}, ![t].greenlets = FALSE]
  /\ UNCHANGED <<committed, broker, worker, tries, index, overtaken,
                 removals, checked, server, answered>>

PostcommitSent(t) ==
  /\ thread[t].phase = "postcommit" /\ ~DropsQueue(t, thread[t].status)
  /\ broker' = broker \cup thread[t].celery
  /\ thread' = [thread EXCEPT ![t].phase = After(t, "postcommit")]
  /\ UNCHANGED <<committed, worker, tries, index, overtaken, removals,
                 checked, server, answered>>

\* ban_url reads ex.message, which no exception of Python 3 has, when the
\* cache server cannot be reached.
PostcommitSwallowed(t) ==
  /\ thread[t].phase = "postcommit" /\ ~DropsQueue(t, thread[t].status)
  /\ thread[t].greenlets
  /\ thread' = [thread EXCEPT ![t].phase = After(t, "postcommit")]
  /\ UNCHANGED <<committed, broker, worker, tries, index, overtaken,
                 removals, checked, server, answered>>

\* Any other exception is raised again and turns the response into a 500.
PostcommitRaises(t) ==
  /\ thread[t].phase = "postcommit" /\ ~DropsQueue(t, thread[t].status)
  /\ thread[t].greenlets
  /\ thread' = [thread EXCEPT ![t].phase = After(t, "postcommit"),
                              ![t].status = "failed"]
  /\ UNCHANGED <<committed, broker, worker, tries, index, overtaken,
                 removals, checked, server, answered>>

\* celery_after_request, then celery_teardown_request; the client has its
\* answer.  The queue is not emptied once it has been sent.
Teardown(t) ==
  LET th == thread[t]
      dropped == DropsQueue(t, th.status)
  IN
  /\ th.phase = "teardown"
  /\ broker' = IF dropped THEN broker ELSE broker \cup th.queue
  /\ thread' = [thread EXCEPT ![t] =
       Ended([th EXCEPT !.queue = IF dropped THEN {} ELSE th.queue])]
  /\ answered' = [answered EXCEPT ![th.request] = th.status]
  /\ UNCHANGED <<committed, worker, tries, index, overtaken, removals,
                 checked, server>>

-----------------------------------------------------------------------------
(* The workers.  A task reads the row and later writes what it has read.   *)

Take(w, x) ==
  /\ worker[w].task = NoTask /\ x \in broker
  /\ broker' = broker \ {x}
  /\ worker' = [worker EXCEPT ![w] = [task |-> x, read |-> committed]]
  /\ UNCHANGED <<committed, thread, tries, index, overtaken, removals,
                 checked, server, answered>>

Done(w) == worker' = [worker EXCEPT ![w] = [task |-> NoTask, read |-> {}]]

WriteIndex(w) ==
  /\ worker[w].task.fn = "update_node_async"
  /\ index' = worker[w].read
  /\ overtaken' = overtaken \cup (index \ index')
  /\ Done(w)
  /\ UNCHANGED <<committed, thread, broker, tries, removals, checked, server,
                 answered>>

\* checkin_files_task is one transaction.  It leaves the files of somebody
\* who still is a contributor as they are.
CheckInFiles(w) ==
  LET x == worker[w].task IN
  /\ x.fn = "checkin_files_task"
  /\ checked' = IF x.by \in committed THEN checked \cup {x.by} ELSE checked
  /\ Done(w)
  /\ UNCHANGED <<committed, thread, broker, tries, index, overtaken,
                 removals, server, answered>>

\* The search engine fails: the task is retried until it has used its
\* retries, and then lost.
Retry(w) ==
  LET x == worker[w].task IN
  /\ x.fn = "update_node_async" /\ tries[x] <= MaxRetries
  /\ tries' = [tries EXCEPT ![x] = @ + 1]
  /\ broker' = IF tries[x] < MaxRetries THEN broker \cup {x} ELSE broker
  /\ Done(w)
  /\ UNCHANGED <<committed, thread, index, overtaken, removals, checked,
                 server, answered>>

-----------------------------------------------------------------------------
Next ==
  \/ \E t \in Threads :
       \/ \E r \in Requests : Begin(t, r)
       \/ \E status \in Statuses : Respond(t, status)
       \/ Save(t) \/ RemoveContributor(t) \/ ViewComments(t)
       \/ Commit(t) \/ Rollback(t)
       \/ PostcommitDropped(t) \/ PostcommitSent(t)
       \/ PostcommitSwallowed(t) \/ PostcommitRaises(t)
       \/ Teardown(t)
  \/ \E w \in Workers :
       \/ \E x \in Task : Take(w, x)
       \/ WriteIndex(w) \/ CheckInFiles(w) \/ Retry(w)

Spec == Init /\ [][Next]_vars

\* A thread that has its response ends the request, and workers work.
Ends(t) ==
  \/ Commit(t) \/ Rollback(t) \/ PostcommitDropped(t) \/ PostcommitSent(t)
  \/ PostcommitSwallowed(t) \/ PostcommitRaises(t) \/ Teardown(t)

Works(w) ==
  (\E x \in Task : Take(w, x)) \/ WriteIndex(w) \/ CheckInFiles(w) \/ Retry(w)

FairSpec ==
  /\ Spec
  /\ \A t \in Threads : WF_vars(Ends(t))
  /\ \A w \in Workers : WF_vars(Works(w))

-----------------------------------------------------------------------------
TypeOK ==
  /\ committed \subseteq Requests
  /\ thread \in [Threads -> Thread]
  /\ broker \subseteq Task
  /\ worker \in [Workers -> [task : Task \cup {NoTask}, read : SUBSET Requests]]
  /\ tries \in [Task -> 0 .. MaxRetries + 1]
  /\ index \subseteq Requests /\ overtaken \subseteq Requests
  /\ removals \subseteq Requests /\ checked \subseteq Requests
  /\ server \in [Requests -> Threads \cup {None}]
  /\ answered \in [Requests -> {"none"} \cup Statuses]

\* What the workers have been given and have not finished.
Sent == (broker \cup {worker[w].task : w \in Workers}) \ {NoTask}

\* A task of the request queue is only ever sent for a change that has been
\* committed, under either framework and whatever fails, and so is a
\* post-commit task of the API: neither a rolled back transaction nor a task
\* left in the thread by an earlier request reaches a worker.
OnlyCommittedIsSent ==
  \A x \in Sent :
    x.fn = "update_node_async" \/ server[x.by] \in Api => x.by \in committed

\* What the search index shows has been committed, or was put there by a
\* script inside its transaction.
IndexIsCommitted ==
  \A r \in index : r \in committed \/ server[r] \in Scripts

\* Once a client has been told of anything but a server error, what its request
\* committed reaches the search index, unless the search engine has failed for
\* all the retries or a slower task has overwritten it.  No failure of another
\* request, of a commit or of a post-commit function keeps it from it.
AnsweredIsIndexed ==
  \A r \in Requests :
    /\ r \in committed /\ server[r] \notin Scripts
    /\ answered[r] \in {"success", "refused"}
    ~> \/ r \in index
       \/ r \in overtaken
       \/ tries[[by |-> r, fn |-> "update_node_async"]] > MaxRetries

\* A contributor removed through the API does not keep files checked out: the
\* check-in runs, and runs after the commit, so it sees the removal.
RemovalChecksIn ==
  \A r \in Requests :
    /\ r \in committed \cap removals /\ server[r] \in Api
    /\ answered[r] = "success"
    ~> r \in checked

-----------------------------------------------------------------------------
(* The request queue implements DelayedTasks.                              *)

UpdateTask(r) == [by |-> r, fn |-> "update_node_async"]

OwedBy(t) ==
  {r \in committed : r = thread[t].request /\ UpdateTask(r) \in thread[t].queue}

Delayed == INSTANCE DelayedTasks WITH
  owed    <- UNION {OwedBy(t) : t \in Threads},
  running <- {r \in Requests : UpdateTask(r) \in Sent}

\* Under both frameworks, with every failure: a task is sent once its request
\* has committed, or is dropped with a server error, and nothing else is sent.
TasksAreDelayed == Delayed!Spec

=============================================================================
