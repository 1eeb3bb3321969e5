----------------------------- MODULE ArchiveTree -----------------------------
(***************************************************************************)
(* The archiver: one ArchiveJob per registration of a tree, one target per *)
(* archived addon.  A celery chain visits the tree, parents first, and     *)
(* asks WaterButler to copy each addon; WaterButler answers with signed    *)
(* callbacks, served by web processes; whoever finds the whole tree        *)
(* finished reports the outcome, exactly once, to the root's sanction.     *)
(*                                                                         *)
(* A callback is one READ COMMITTED transaction.  It holds the row of its  *)
(* node, but writes the job of its parent as well as its own, each as a    *)
(* full row, and reads the targets of the whole tree.  It is four steps    *)
(* here: load, save (buffered until the commit), check the tree (a task    *)
(* it starts is published at once) and commit.  The celery tasks commit    *)
(* every save at once.                                                     *)
(***************************************************************************)
EXTENDS Naturals, FiniteSets, SequencesExt

CONSTANTS Nodes,       \* the registrations of the tree
          Root,
          Parent,      \* [Nodes \ {Root} -> Nodes]
          Addons,      \* the archivable addons of each node
          Concurrent   \* requests and tasks overlap

ASSUME TreeAssumption == /\ IsFiniteSet(Nodes) /\ Root \in Nodes
                         /\ Parent \in [Nodes \ {Root} -> Nodes]
ASSUME OverlapAssumption == Concurrent \in BOOLEAN
\* Every node has its osfstorage at least.
ASSUME AddonsAssumption == Addons # {}

VARIABLES target,        \* committed ArchiveTarget.status of each addon
          job,           \* committed ArchiveJob rows
          unarchived,    \* nodes the chain has still to visit
          task,          \* the archive_node task in progress
          copies,        \* copies asked for and not answered
          callback,      \* the open transaction of each node's callback
          queued,        \* archive_success tasks waiting
          sending,       \* archive_success tasks that found sent unset: the rows they loaded
          asking,        \* archive_success tasks that saved sent and ask next
          asks,          \* times the sanction was asked to mail its tokens
          lost,          \* a task that was to ask did not end
          failed,        \* handle_archive_fail: sanction rejected, tree deleted
          files_missing  \* a file of the responses is not in the archive

reports == <<asking, asks, lost>>
vars == <<target, job, unarchived, task, copies, callback, queued, sending,
          reports, failed, files_missing>>

-----------------------------------------------------------------------------
Finished == {"SUCCESS", "FAILURE"}
FailureStatuses == {"FAILURE", "NETWORK_ERROR"}
Statuses == {"INITIATED"} \cup Finished \cup FailureStatuses
Jobs == [done : BOOLEAN, sent : BOOLEAN, status : {"INITIATED"} \cup Finished]

Idle == [pc |-> "idle"]
NoTask == [pc |-> "none"]

ParentOf(n) == IF n = Root THEN {} ELSE {Parent[n]}

\* ArchiveJob.pending, over the targets a transaction sees
Pending(n, seen) == \E a \in Addons : seen[n][a] \notin Finished

\* Mutated form: only the root's own targets are looked at.
RootFinished(seen) == ~Pending(Root, seen)

\* ArchiveJob.archive_tree_finished
TreeFinished(seen) == \A n \in Nodes : ~Pending(n, seen)

\* What the open callback of n sees: the committed rows and its own writes
SeenTargets(n) == [target EXCEPT ![n][callback[n].addon] = callback[n].outcome]
SeenJobs(n) == [m \in Nodes |-> IF m \in DOMAIN callback[n].rows
                                THEN callback[n].rows[m] ELSE job[m]]

\* Mutated form: a failure is not passed on to the parent.
PostUpdateAlone(n, own, above, seen) ==
  IF own.status = "FAILURE" \/ Pending(n, seen) THEN <<>>
  ELSE LET failing == \E a \in Addons : seen[n][a] \in FailureStatuses
       IN [m \in {n} |-> [own EXCEPT !.done = TRUE,
             !.status = IF failing THEN "FAILURE" ELSE "SUCCESS"]]

\* Mutated form: the outcomes of the targets are not looked at.
PostUpdateFinished(n, own, above, seen) ==
  IF own.status = "FAILURE" \/ Pending(n, seen) THEN <<>>
  ELSE [m \in {n} |-> [own EXCEPT !.done = TRUE, !.status = "SUCCESS"]]

\* ArchiveJob._post_update_target and _fail_above: the rows they save, from
\* the job as the task loaded it and the parent's as it read it
PostUpdate(n, own, above, seen) ==
  LET failing == \E a \in Addons : seen[n][a] \in FailureStatuses
      closed  == [own EXCEPT !.done = TRUE,
                             !.status = IF failing THEN "FAILURE" ELSE "SUCCESS"]
      saved   == IF failing THEN {n} \cup ParentOf(n) ELSE {n}
  IN IF own.status = "FAILURE" \/ Pending(n, seen) THEN <<>>
     ELSE [m \in saved |-> IF m = n THEN closed
                           ELSE [above EXCEPT !.status = "FAILURE"]]

\* The parent's job as it stands (the root has none, and saves none)
Above(n) == IF n = Root THEN job[n] ELSE job[Parent[n]]

\* A row written by an open transaction makes other writers wait.
Locked(m) ==
  \E n \in Nodes : callback[n].pc \in {"saved", "checked"} /\ m \in DOMAIN callback[n].rows

\* Whether a request or a task may begin now
MayStart == \/ Concurrent
            \/ /\ task = NoTask /\ sending = <<>> /\ asking = 0
               /\ \A n \in Nodes : callback[n] = Idle

-----------------------------------------------------------------------------
\* The archive_fail listener
ArchiveFail ==
  /\ ~Locked(Root)
  /\ IF job[Root].sent
     THEN UNCHANGED <<job, failed>>
     ELSE job' = [job EXCEPT ![Root].sent = TRUE] /\ failed' = TRUE

\* Mutated form: the root's job is asked instead of the task's.
OnFailureOfTree(n) == IF job[Root].status = "FAILURE" THEN UNCHANGED <<job, failed>>
                      ELSE ArchiveFail

\* ArchiverTask.on_failure: a job in FAILURE is taken to be captured already.
OnFailure(n) == IF job[n].status = "FAILURE" THEN UNCHANGED <<job, failed>>
                ELSE ArchiveFail

\* Mutated form: only a root whose own job is done is reported.
VerdictWhenDone(targets, jobs) ==
  IF ~TreeFinished(targets) \/ jobs[Root].sent \/ ~jobs[Root].done THEN "none"
  ELSE IF jobs[Root].status = "SUCCESS" THEN "success" ELSE "failure"

\* The archive_callback listener, with the targets and jobs its caller sees
Verdict(targets, jobs) ==
  IF ~TreeFinished(targets) \/ jobs[Root].sent THEN "none"
  ELSE IF jobs[Root].status = "SUCCESS" THEN "success" ELSE "failure"

\* Mutated form: archive_success is started whatever the root's status.
QueueAnyVerdict(verdict) == queued' = IF verdict # "none" THEN queued + 1 ELSE queued

\* tasks.archive_success.delay: celery gets the task at once.
Queue(verdict) == queued' = IF verdict = "success" THEN queued + 1 ELSE queued

\* handle_archive_fail: failing a tree twice changes nothing more.
HandleFail(verdict) == failed' = (failed \/ verdict = "failure")

Init ==
  /\ target = [n \in Nodes |-> [a \in Addons |-> "INITIATED"]]
  /\ job = [n \in Nodes |-> [done |-> FALSE, sent |-> FALSE, status |-> "INITIATED"]]
  /\ unarchived = Nodes
  /\ task = NoTask
  /\ copies = {}
  /\ callback = [n \in Nodes |-> Idle]
  /\ queued = 0 /\ sending = <<>>
  /\ asking = 0 /\ asks = 0 /\ lost = FALSE
  /\ failed = FALSE
  /\ files_missing \in BOOLEAN

-----------------------------------------------------------------------------
\* The chain: node_and_primary_descendants yields parents before children.
NextInChain(n) ==
  n \in unarchived /\ task = NoTask /\ ParentOf(n) \cap unarchived = {}

\* stat_addon cannot read an addon; the chain ends.
StatFails(n, a) ==
  /\ NextInChain(n) /\ MayStart
  /\ target' \in {target, [target EXCEPT ![n][a] = "NETWORK_ERROR"]}
  /\ unarchived' = {}
  /\ OnFailure(n)
  /\ UNCHANGED <<task, copies, callback, queued, sending, reports, files_missing>>

\* archive_node finds the node larger than MAX_ARCHIVE_SIZE; the chain ends.
SizeExceeded(n) ==
  /\ NextInChain(n) /\ MayStart
  /\ unarchived' = {}
  /\ OnFailure(n)
  /\ UNCHANGED <<target, task, copies, callback, queued, sending, reports,
                 files_missing>>

\* archive_node asks for the copies; the addons without files are to be marked.
ArchiveNode(n, empty) ==
  /\ NextInChain(n) /\ MayStart
  /\ task' = [pc |-> "updating", node |-> n, empty |-> empty, own |-> job[n]]
  /\ copies' = copies \cup ({n} \X (Addons \ empty))
  /\ UNCHANGED <<target, job, unarchived, callback, queued, sending, reports,
                 failed, files_missing>>

\* archive_node: update_target of the addons without files
UpdateEmpty ==
  LET n    == task.node
      seen == [target EXCEPT ![n] = [a \in Addons |->
                 IF a \in task.empty THEN "SUCCESS" ELSE @[a]]]
      rows == IF task.empty = {} THEN <<>>
              ELSE PostUpdate(n, task.own, Above(n), seen)
  IN /\ task.pc = "updating"
     /\ \A m \in DOMAIN rows : ~Locked(m)
     /\ target' = seen
     /\ job' = [m \in Nodes |-> IF m \in DOMAIN rows THEN rows[m] ELSE job[m]]
     /\ task' = [pc |-> "signalling", node |-> n]
     /\ UNCHANGED <<unarchived, copies, callback, queued, sending, reports, failed,
                    files_missing>>

\* archive_node sends archive_callback, and the chain goes on.
Signal ==
  /\ task.pc = "signalling"
  /\ Queue(Verdict(target, job))
  /\ HandleFail(Verdict(target, job))
  /\ task' = NoTask
  /\ unarchived' = unarchived \ {task.node}
  /\ UNCHANGED <<target, job, copies, callback, sending, reports, files_missing>>

\* make_copy_request: WaterButler refuses.
CopyRefused(n, a) ==
  /\ <<n, a>> \in copies /\ MayStart
  /\ copies' = copies \ {<<n, a>>}
  /\ OnFailure(n)
  /\ UNCHANGED <<target, unarchived, task, callback, queued, sending, reports,
                 files_missing>>

-----------------------------------------------------------------------------
\* registration_callbacks: the node's row is locked, its job loaded and the
\* target saved.  A deleted registration answers 410.
CallbackLoads(n, a, outcome) ==
  /\ <<n, a>> \in copies /\ ~failed
  /\ callback[n] = Idle /\ MayStart
  /\ copies' = copies \ {<<n, a>>}
  /\ callback' = [callback EXCEPT ![n] =
       [pc |-> "loaded", addon |-> a, outcome |-> outcome, own |-> job[n],
        above |-> Above(n)]]
  /\ UNCHANGED <<target, job, unarchived, task, queued, sending, reports, failed,
                 files_missing>>

\* fail_archive_on_error: a callback whose signature has expired
CallbackExpired(n, a) ==
  /\ <<n, a>> \in copies /\ ~failed
  /\ callback[n] = Idle /\ MayStart
  /\ copies' = copies \ {<<n, a>>}
  /\ ArchiveFail
  /\ UNCHANGED <<target, unarchived, task, callback, queued, sending, reports,
                 files_missing>>

\* _post_update_target saves its job, and on failure the parent's, which it
\* read at some moment since, before it waited for the row.
CallbackSaves(n) ==
  LET open == callback[n]
  IN /\ open.pc = "loaded"
     /\ \E above \in {open.above, Above(n)} :
          LET rows == PostUpdate(n, open.own, above, SeenTargets(n))
          IN /\ \A m \in DOMAIN rows : ~Locked(m)
             /\ callback' = [callback EXCEPT ![n] =
                  [pc |-> "saved", addon |-> open.addon, outcome |-> open.outcome,
                   rows |-> rows]]
     /\ UNCHANGED <<target, job, unarchived, task, copies, queued, sending, reports,
                    failed, files_missing>>

\* archive_callback looks at the tree, without what others have not committed.
CallbackChecks(n) ==
  LET open    == callback[n]
      verdict == Verdict(SeenTargets(n), SeenJobs(n))
  IN /\ open.pc = "saved"
     /\ Queue(verdict)
     /\ callback' = [callback EXCEPT ![n] =
          [pc |-> "checked", addon |-> open.addon, outcome |-> open.outcome,
           rows |-> open.rows, verdict |-> verdict]]
     /\ UNCHANGED <<target, job, unarchived, task, copies, sending, reports, failed,
                    files_missing>>

\* The transaction commits.
CallbackCommits(n) ==
  /\ callback[n].pc = "checked"
  /\ target' = SeenTargets(n)
  /\ job' = SeenJobs(n)
  /\ HandleFail(callback[n].verdict)
  /\ callback' = [callback EXCEPT ![n] = Idle]
  /\ UNCHANGED <<unarchived, task, copies, queued, sending, reports, files_missing>>

-----------------------------------------------------------------------------
\* archive_success: a missing file fails the task, and with it the archive.
SuccessFails ==
  /\ queued > 0 /\ MayStart /\ files_missing
  /\ queued' = queued - 1
  /\ OnFailure(Root)
  /\ UNCHANGED <<target, unarchived, task, copies, callback, sending, reports,
                 files_missing>>

\* archive_success loads the root's job and reads sent ...
SuccessChecks ==
  /\ queued > 0 /\ MayStart /\ ~files_missing
  /\ queued' = queued - 1
  /\ sending' = IF job[Root].sent THEN sending ELSE Append(sending, job[Root])
  /\ UNCHANGED <<target, job, unarchived, task, copies, callback, reports, failed,
                 files_missing>>

\* ... saves the row it loaded ...
SuccessSaves(i) ==
  /\ ~Locked(Root)
  /\ sending' = RemoveAt(sending, i)
  /\ job' = [job EXCEPT ![Root] = [sending[i] EXCEPT !.sent = TRUE]]
  /\ asking' = asking + 1
  /\ UNCHANGED <<target, unarchived, task, copies, callback, queued, asks, lost,
                 failed, files_missing>>

\* ... and asks the sanction to mail its tokens.
SuccessAsks ==
  /\ asking > 0
  /\ asking' = asking - 1 /\ asks' = asks + 1
  /\ UNCHANGED <<target, job, unarchived, task, copies, callback, queued, sending,
                 lost, failed, files_missing>>

\* A worker that dies, or a mail that cannot be sent: perhaps some are asked.
AskingBreaks ==
  /\ asking > 0
  /\ asking' = asking - 1 /\ asks' \in {asks, asks + 1} /\ lost' = TRUE
  /\ OnFailure(Root) \/ UNCHANGED <<job, failed>>
  /\ UNCHANGED <<target, unarchived, task, copies, callback, queued, sending,
                 files_missing>>

-----------------------------------------------------------------------------
Chain == \/ \E n \in Nodes : \/ \E a \in Addons : StatFails(n, a)
                             \/ SizeExceeded(n)
                             \/ \E empty \in SUBSET Addons : ArchiveNode(n, empty)
         \/ UpdateEmpty
         \/ Signal

Copy == \E n \in Nodes, a \in Addons :
          \/ CopyRefused(n, a)
          \/ CallbackExpired(n, a)
          \/ \E outcome \in Finished : CallbackLoads(n, a, outcome)

Callback(n) == CallbackSaves(n) \/ CallbackChecks(n) \/ CallbackCommits(n)

Success == \/ SuccessFails
           \/ SuccessChecks
           \/ \E i \in DOMAIN sending : SuccessSaves(i)
           \/ SuccessAsks \/ AskingBreaks

Next == Chain \/ Copy \/ (\E n \in Nodes : Callback(n)) \/ Success

Spec == Init /\ [][Next]_vars

\* A request or task that has begun ends, and celery runs what is queued.
\* Nothing makes WaterButler answer.
Fairness == /\ WF_vars(Chain)
            /\ \A n \in Nodes : WF_vars(Callback(n))
            /\ WF_vars(Success)

FairSpec == Spec /\ Fairness

-----------------------------------------------------------------------------
Rows == UNION {[S -> Jobs] : S \in SUBSET Nodes}

Transactions ==
  {Idle}
  \cup [pc : {"loaded"}, addon : Addons, outcome : Finished, own : Jobs,
        above : Jobs]
  \cup [pc : {"saved"}, addon : Addons, outcome : Finished, rows : Rows]
  \cup [pc : {"checked"}, addon : Addons, outcome : Finished, rows : Rows,
        verdict : {"none", "success", "failure"}]

TypeOK ==
  /\ target \in [Nodes -> [Addons -> Statuses]]
  /\ job \in [Nodes -> Jobs]
  /\ unarchived \subseteq Nodes
  /\ \/ task = NoTask
     \/ task \in [pc : {"updating"}, node : Nodes, empty : SUBSET Addons, own : Jobs]
     \/ task \in [pc : {"signalling"}, node : Nodes]
  /\ copies \subseteq Nodes \X Addons
  /\ callback \in [Nodes -> Transactions]
  /\ queued \in Nat /\ sending \in Seq(Jobs)
  /\ asking \in Nat /\ asks \in Nat /\ lost \in BOOLEAN
  /\ failed \in BOOLEAN /\ files_missing \in BOOLEAN

\* The admins are asked only about a registration whose archive is finished,
\* counting the targets of callbacks that have nothing left but to commit.
Decided == [n \in Nodes |-> IF callback[n].pc = "checked" THEN SeenTargets(n)[n]
                            ELSE target[n]]
AskedWhenFinished ==
  asks > 0 => \A n \in Nodes, a \in Addons : Decided[n][a] \in Finished

\* A registration is never both submitted to its admins and failed.
OneVerdict == ~(asks > 0 /\ failed)

\* A job that says it succeeded archived all its targets.
SuccessIsSound ==
  \A n \in Nodes : job[n].status = "SUCCESS" =>
    \A a \in Addons : target[n][a] = "SUCCESS"

\* The admins are asked only about a complete archive.
AskedWhenComplete ==
  asks > 0 => \A n \in Nodes, a \in Addons : Decided[n][a] = "SUCCESS"

\* While nothing overlaps, the archive only goes forward, as the sanctions and
\* the nightly scripts take it to: no row saved late makes a registration
\* archiving again, and neither outcome follows the other.
Archive ==
  IF asks > 0 THEN "success" ELSE IF failed THEN "failure"
  ELSE IF job[Root].done \/ TreeFinished(target) THEN "children" ELSE "root"
Progress == INSTANCE ArchiveProgress WITH archive <- Archive
ArchiveProceeds == Progress!Spec

\* "When the tree of ArchiveJob instances is complete, proceed to send success
\* or failure mails."  The task saves that it has sent them before it does: one
\* that dies in between reports nothing, and nothing makes up for it.
TreeIsReported == TreeFinished(target) ~> asks > 0 \/ failed \/ lost

\* A copy that was refused, and will never be called back for, fails the
\* archive, unless a component's failure has already marked the job.
Abandoned(n, a) ==
  /\ target[n][a] = "INITIATED" /\ n \notin unarchived
  /\ <<n, a>> \notin copies /\ callback[n] = Idle /\ task = NoTask
RefusalIsReported ==
  \A n \in Nodes, a \in Addons :
    Abandoned(n, a) /\ job[n].status # "FAILURE" ~> asks > 0 \/ failed
==============================================================================
