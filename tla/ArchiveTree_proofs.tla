-------------------------- MODULE ArchiveTree_proofs --------------------------
(***************************************************************************)
(* Proofs about ArchiveTree, for any tree, any addons, and callbacks and   *)
(* tasks that overlap or not: a finished tree has one verdict, given once  *)
(* it is finished, and a job that succeeded archived all its targets.      *)
(***************************************************************************)
EXTENDS ArchiveTree, SequenceTheorems, TLAPS

USE DEF reports

\* The asking ends, well or not.
AskingEnds == SuccessAsks \/ AskingBreaks

-----------------------------------------------------------------------------
(* Types.                                                                  *)

\* What an open callback is made of, stage by stage.
LEMMA CallbackTypes ==
  ASSUME TypeOK, NEW n \in Nodes
  PROVE  /\ callback[n].pc \in {"idle", "loaded", "saved", "checked"}
         /\ callback[n] = Idle <=> callback[n].pc = "idle"
         /\ callback[n].pc # "idle" =>
              callback[n].addon \in Addons /\ callback[n].outcome \in Finished
         /\ callback[n].pc = "loaded" =>
              callback[n].own \in Jobs /\ callback[n].above \in Jobs
         /\ callback[n].pc \in {"saved", "checked"} => callback[n].rows \in Rows
         /\ callback[n].pc = "checked" =>
              callback[n].verdict \in {"none", "success", "failure"}
<1>1. callback[n] \in Transactions
  BY DEF TypeOK
<1> QED
  BY <1>1 DEF Transactions, Idle

LEMMA RowsAreJobs ==
  ASSUME NEW rows \in Rows
  PROVE  DOMAIN rows \subseteq Nodes /\ \A m \in DOMAIN rows : rows[m] \in Jobs
BY DEF Rows

LEMMA NoRows == <<>> \in Rows /\ DOMAIN <<>> = {}
<1>1. <<>> \in [{} -> Jobs] /\ DOMAIN <<>> = {}
  OBVIOUS
<1> QED
  BY <1>1 DEF Rows

\* What PostUpdate returns: rows of n and of its parent.  Only n's own may have
\* succeeded, with all targets of n, none of which is pending when any is saved.
LEMMA PostUpdateRows ==
  ASSUME NEW n \in Nodes, NEW own \in Jobs, NEW above \in Jobs,
         NEW seen \in [Nodes -> [Addons -> Statuses]]
  PROVE  /\ PostUpdate(n, own, above, seen) \in Rows
         /\ \A m \in DOMAIN PostUpdate(n, own, above, seen) :
              /\ ~Pending(n, seen)
              /\ PostUpdate(n, own, above, seen)[m].status = "SUCCESS" =>
                   m = n /\ \A a \in Addons : seen[n][a] = "SUCCESS"
<1> DEFINE failing == \E a \in Addons : seen[n][a] \in FailureStatuses
           closed  == [own EXCEPT !.done = TRUE,
                                  !.status = IF failing THEN "FAILURE" ELSE "SUCCESS"]
           saved   == IF failing THEN {n} \cup ParentOf(n) ELSE {n}
           rows    == [m \in saved |-> IF m = n THEN closed
                                       ELSE [above EXCEPT !.status = "FAILURE"]]
<1>1. saved \in SUBSET Nodes
  BY TreeAssumption DEF ParentOf
<1>2. closed \in Jobs /\ [above EXCEPT !.status = "FAILURE"] \in Jobs
  BY DEF Jobs, Finished
<1>3. rows \in Rows
  <2>1. rows \in [saved -> Jobs]
    BY <1>2
  <2> QED
    BY <1>1, <2>1 DEF Rows
<1>4. CASE own.status = "FAILURE" \/ Pending(n, seen)
  <2>1. PostUpdate(n, own, above, seen) = <<>>
    BY <1>4 DEF PostUpdate
  <2> QED
    BY <2>1, NoRows
<1>5. CASE ~(own.status = "FAILURE" \/ Pending(n, seen))
  <2>1. PostUpdate(n, own, above, seen) = rows
    BY <1>5 DEF PostUpdate
  <2>2. \A m \in DOMAIN rows :
          rows[m].status = "SUCCESS" =>
            m = n /\ \A a \in Addons : seen[n][a] = "SUCCESS"
    <3> SUFFICES ASSUME NEW m \in saved, rows[m].status = "SUCCESS"
                 PROVE  m = n /\ \A a \in Addons : seen[n][a] = "SUCCESS"
      OBVIOUS
    <3>1. m = n
      BY DEF Jobs
    <3>2. ~failing
      BY <3>1 DEF Jobs
    <3>3. \A a \in Addons : seen[n][a] \in Finished /\ seen[n][a] \notin FailureStatuses
      BY <1>5, <3>2 DEF Pending
    <3> QED
      BY <3>1, <3>3 DEF Finished, FailureStatuses
  <2> HIDE DEF rows
  <2> QED
    BY <1>3, <1>5, <2>1, <2>2
<1> QED
  BY <1>4, <1>5

\* What is left of a sequence of rows when one is taken out.
LEMMA RemovedRow ==
  ASSUME NEW s \in Seq(Jobs), NEW i \in DOMAIN s
  PROVE  /\ RemoveAt(s, i) \in Seq(Jobs)
         /\ \A k \in DOMAIN RemoveAt(s, i) : \E j \in DOMAIN s :
              RemoveAt(s, i)[k] = s[j]
<1> DEFINE before == SubSeq(s, 1, i - 1)
           after  == SubSeq(s, i + 1, Len(s))
<1>1. i \in 1..Len(s) /\ Len(s) \in Nat
  OBVIOUS
<1>2. /\ before \in Seq(Jobs) /\ Len(before) = i - 1
      /\ \A k \in 1..Len(before) : before[k] = s[k]
  BY <1>1, SubSeqProperties
<1>3. /\ after \in Seq(Jobs) /\ Len(after) = Len(s) - i
      /\ \A k \in 1..Len(after) : after[k] = s[i + k]
  BY <1>1, SubSeqProperties
<1> HIDE DEF before, after
<1>4. /\ before \o after \in Seq(Jobs)
      /\ Len(before \o after) = Len(s) - 1
      /\ \A k \in 1..Len(s) - 1 :
           (before \o after)[k] = IF k <= i - 1 THEN before[k] ELSE after[k - (i - 1)]
  <2>1. /\ before \o after \in Seq(Jobs)
        /\ Len(before \o after) = Len(before) + Len(after)
        /\ \A k \in 1..Len(before) + Len(after) :
             (before \o after)[k] =
               IF k <= Len(before) THEN before[k] ELSE after[k - Len(before)]
    BY <1>2, <1>3, ConcatProperties
  <2>2. Len(before) = i - 1 /\ Len(after) = Len(s) - i
    BY <1>2, <1>3
  <2>3. Len(before) + Len(after) = Len(s) - 1
    BY <1>1, <2>2
  <2> QED
    BY <2>1, <2>2, <2>3, ZenonT(30)
<1>5. \A k \in 1..Len(s) - 1 : \E j \in 1..Len(s) : (before \o after)[k] = s[j]
  <2> SUFFICES ASSUME NEW k \in 1..Len(s) - 1
               PROVE  \E j \in 1..Len(s) : (before \o after)[k] = s[j]
    OBVIOUS
  <2>1. CASE k <= i - 1
    BY <1>1, <1>2, <1>4, <2>1
  <2>2. CASE ~(k <= i - 1)
    <3>1. k - (i - 1) \in 1..Len(after) /\ i + (k - (i - 1)) \in 1..Len(s)
      BY <1>1, <1>3, <2>2
    <3> QED
      BY <1>1, <1>3, <1>4, <2>2, <3>1
  <2> QED
    BY <2>1, <2>2
<1>6. RemoveAt(s, i) = before \o after
  BY DEF RemoveAt, before, after
<1>7. DOMAIN RemoveAt(s, i) = 1..Len(s) - 1 /\ DOMAIN s = 1..Len(s)
  BY <1>4, <1>6
<1> QED
  BY <1>4, <1>5, <1>6, <1>7

\* archive_fail changes nothing of the jobs but sent.
LEMMA FailKeepsJobs ==
  ASSUME TypeOK, ArchiveFail \/ UNCHANGED <<job, failed>>
  PROVE  /\ job' \in [Nodes -> Jobs] /\ failed' \in BOOLEAN
         /\ \A m \in Nodes : /\ job'[m].status = job[m].status
                             /\ job'[m].done = job[m].done
         /\ job[Root].sent => job'[Root].sent
<1>1. CASE UNCHANGED <<job, failed>>
  BY <1>1 DEF TypeOK
<1>2. CASE job' = [job EXCEPT ![Root].sent = TRUE] /\ failed' = TRUE
  BY <1>2, TreeAssumption DEF TypeOK, Jobs
<1> QED
  BY <1>1, <1>2 DEF ArchiveFail

LEMMA OnFailureFails ==
  ASSUME NEW n, OnFailure(n)
  PROVE  ArchiveFail \/ UNCHANGED <<job, failed>>
BY DEF OnFailure

\* What the end of an asking leaves, and what it may do.
LEMMA AskingEndsSteps ==
  ASSUME TypeOK, AskingEnds
  PROVE  /\ asking > 0 /\ asking' = asking - 1 /\ asks' \in {asks, asks + 1}
         /\ lost' \in BOOLEAN
         /\ lost => lost'
         /\ asks' = asks => lost'
         /\ ArchiveFail \/ UNCHANGED <<job, failed>>
         /\ UNCHANGED <<target, unarchived, task, copies, callback, queued,
                        sending, files_missing>>
<1>1. asking \in Nat /\ asks \in Nat
  BY DEF TypeOK
<1>2. CASE SuccessAsks
  <2>1. asks' # asks
    BY <1>1, <1>2 DEF SuccessAsks
  <2>2. lost' \in BOOLEAN /\ lost' = lost
    BY <1>2 DEF SuccessAsks, TypeOK
  <2> QED
    BY <1>2, <2>1, <2>2 DEF SuccessAsks
<1>3. CASE AskingBreaks
  BY <1>3, OnFailureFails DEF AskingBreaks
<1> QED
  BY <1>2, <1>3 DEF AskingEnds

\* What an open callback sees has its types.
LEMMA SeenTypes ==
  ASSUME TypeOK, NEW n \in Nodes, callback[n].pc # "idle"
  PROVE  /\ SeenTargets(n) \in [Nodes -> [Addons -> Statuses]]
         /\ \A m \in Nodes \ {n} : SeenTargets(n)[m] = target[m]
         /\ \A a \in Addons : SeenTargets(n)[n][a] =
              IF a = callback[n].addon THEN callback[n].outcome ELSE target[n][a]
         /\ callback[n].pc \in {"saved", "checked"} => SeenJobs(n) \in [Nodes -> Jobs]
<1>1. callback[n].addon \in Addons /\ callback[n].outcome \in Statuses
  BY CallbackTypes DEF Statuses
<1>2. target \in [Nodes -> [Addons -> Statuses]] /\ job \in [Nodes -> Jobs]
  BY DEF TypeOK
<1>3. ASSUME callback[n].pc \in {"saved", "checked"}
      PROVE  SeenJobs(n) \in [Nodes -> Jobs]
  BY <1>2, <1>3, CallbackTypes, RowsAreJobs DEF SeenJobs
<1> QED
  BY <1>1, <1>2, <1>3 DEF SeenTargets

\* Every reachable state has its types.
THEOREM Typing == Spec => []TypeOK
<1>1. Init => TypeOK
  <2> SUFFICES ASSUME Init PROVE TypeOK
    OBVIOUS
  <2>1. sending \in Seq(Jobs)
    BY DEF Init
  <2> QED
    BY <2>1 DEF Init, TypeOK, Statuses, Jobs, NoTask, Transactions
<1>2. TypeOK /\ [Next]_vars => TypeOK'
  <2> SUFFICES ASSUME TypeOK, [Next]_vars PROVE TypeOK'
    OBVIOUS
  <2>1. ASSUME NEW n \in Nodes, NEW a \in Addons, StatFails(n, a)
        PROVE  TypeOK'
    <3>1. target' \in [Nodes -> [Addons -> Statuses]]
      <4>1. target' = target \/ target' = [target EXCEPT ![n][a] = "NETWORK_ERROR"]
        BY <2>1 DEF StatFails
      <4> QED
        BY <4>1 DEF TypeOK, Statuses, FailureStatuses
    <3>2. job' \in [Nodes -> Jobs] /\ failed' \in BOOLEAN
      BY <2>1, OnFailureFails, FailKeepsJobs DEF StatFails
    <3> QED
      BY <2>1, <3>1, <3>2 DEF StatFails, TypeOK
  <2>2. ASSUME NEW n \in Nodes, SizeExceeded(n)
        PROVE  TypeOK'
    <3>1. job' \in [Nodes -> Jobs] /\ failed' \in BOOLEAN
      BY <2>2, OnFailureFails, FailKeepsJobs DEF SizeExceeded
    <3> QED
      BY <2>2, <3>1 DEF SizeExceeded, TypeOK
  <2>3. ASSUME NEW n \in Nodes, NEW empty \in SUBSET Addons, ArchiveNode(n, empty)
        PROVE  TypeOK'
    BY <2>3 DEF ArchiveNode, TypeOK
  <2>4. ASSUME UpdateEmpty PROVE TypeOK'
    <3>1. PICK seen \in [Nodes -> [Addons -> Statuses]], rows \in Rows :
            /\ target' = seen
            /\ job' = [m \in Nodes |-> IF m \in DOMAIN rows THEN rows[m] ELSE job[m]]
            /\ task' = [pc |-> "signalling", node |-> task.node]
      <4>1. task.node \in Nodes /\ task.own \in Jobs
        BY <2>4 DEF UpdateEmpty, TypeOK, NoTask
      <4> DEFINE seen == [target EXCEPT ![task.node] = [a \in Addons |->
                            IF a \in task.empty THEN "SUCCESS" ELSE @[a]]]
                 rows == IF task.empty = {} THEN <<>>
                         ELSE PostUpdate(task.node, task.own, Above(task.node), seen)
      <4>2. seen \in [Nodes -> [Addons -> Statuses]]
        BY <4>1 DEF TypeOK, Statuses, Finished
      <4>3. Above(task.node) \in Jobs
        BY <4>1, TreeAssumption DEF Above, TypeOK
      <4>4. rows \in Rows
        <5> HIDE DEF seen
        <5>1. PostUpdate(task.node, task.own, Above(task.node), seen) \in Rows
          BY <4>1, <4>2, <4>3, PostUpdateRows
        <5> QED
          BY <5>1, NoRows
      <4>5. /\ target' = seen
            /\ job' = [m \in Nodes |-> IF m \in DOMAIN rows THEN rows[m] ELSE job[m]]
            /\ task' = [pc |-> "signalling", node |-> task.node]
        BY <2>4 DEF UpdateEmpty
      <4> HIDE DEF seen, rows
      <4> QED
        BY <4>2, <4>4, <4>5
    <3>2. job' \in [Nodes -> Jobs]
      BY <3>1, RowsAreJobs DEF TypeOK
    <3>3. task' \in [pc : {"signalling"}, node : Nodes]
      BY <2>4, <3>1 DEF UpdateEmpty, TypeOK, NoTask
    <3> QED
      BY <2>4, <3>1, <3>2, <3>3 DEF UpdateEmpty, TypeOK
  <2>5. ASSUME Signal PROVE TypeOK'
    BY <2>5 DEF Signal, TypeOK, Queue, HandleFail, NoTask
  <2>6. ASSUME NEW n \in Nodes, NEW a \in Addons, CopyRefused(n, a)
        PROVE  TypeOK'
    <3>1. job' \in [Nodes -> Jobs] /\ failed' \in BOOLEAN
      BY <2>6, OnFailureFails, FailKeepsJobs DEF CopyRefused
    <3> QED
      BY <2>6, <3>1 DEF CopyRefused, TypeOK
  <2>7. ASSUME NEW n \in Nodes, NEW a \in Addons, CallbackExpired(n, a)
        PROVE  TypeOK'
    <3>1. job' \in [Nodes -> Jobs] /\ failed' \in BOOLEAN
      BY <2>7, FailKeepsJobs DEF CallbackExpired
    <3> QED
      BY <2>7, <3>1 DEF CallbackExpired, TypeOK
  <2>8. ASSUME NEW n \in Nodes, NEW a \in Addons, NEW outcome \in Finished,
               CallbackLoads(n, a, outcome)
        PROVE  TypeOK'
    <3>1. Above(n) \in Jobs
      BY TreeAssumption DEF Above, TypeOK
    <3>2. callback' \in [Nodes -> Transactions]
      BY <2>8, <3>1 DEF CallbackLoads, TypeOK, Transactions
    <3> QED
      BY <2>8, <3>2 DEF CallbackLoads, TypeOK
  <2>9. ASSUME NEW n \in Nodes, CallbackSaves(n)
        PROVE  TypeOK'
    <3>1. PICK above \in Jobs :
            callback' = [callback EXCEPT ![n] =
              [pc |-> "saved", addon |-> callback[n].addon,
               outcome |-> callback[n].outcome,
               rows |-> PostUpdate(n, callback[n].own, above, SeenTargets(n))]]
      <4>1. Above(n) \in Jobs /\ callback[n].above \in Jobs
        BY <2>9, CallbackTypes, TreeAssumption DEF CallbackSaves, Above, TypeOK
      <4> QED
        BY <2>9, <4>1 DEF CallbackSaves
    <3>2. PostUpdate(n, callback[n].own, above, SeenTargets(n)) \in Rows
      BY <2>9, CallbackTypes, SeenTypes, PostUpdateRows DEF CallbackSaves
    <3>3. callback' \in [Nodes -> Transactions]
      BY <2>9, <3>1, <3>2, CallbackTypes DEF CallbackSaves, TypeOK, Transactions
    <3> QED
      BY <2>9, <3>3 DEF CallbackSaves, TypeOK
  <2>10. ASSUME NEW n \in Nodes, CallbackChecks(n)
         PROVE  TypeOK'
    <3>1. callback' \in [Nodes -> Transactions]
      BY <2>10, CallbackTypes DEF CallbackChecks, TypeOK, Transactions, Verdict
    <3>2. queued' \in Nat
      BY <2>10 DEF CallbackChecks, Queue, TypeOK
    <3> QED
      BY <2>10, <3>1, <3>2 DEF CallbackChecks, TypeOK
  <2>11. ASSUME NEW n \in Nodes, CallbackCommits(n)
         PROVE  TypeOK'
    <3>1. callback' \in [Nodes -> Transactions]
      BY <2>11 DEF CallbackCommits, TypeOK, Transactions
    <3>2. target' \in [Nodes -> [Addons -> Statuses]] /\ job' \in [Nodes -> Jobs]
      BY <2>11, SeenTypes DEF CallbackCommits
    <3> QED
      BY <2>11, <3>1, <3>2 DEF CallbackCommits, TypeOK, HandleFail
  <2>12. ASSUME SuccessFails PROVE TypeOK'
    <3>1. job' \in [Nodes -> Jobs] /\ failed' \in BOOLEAN
      BY <2>12, OnFailureFails, FailKeepsJobs DEF SuccessFails
    <3> QED
      BY <2>12, <3>1 DEF SuccessFails, TypeOK
  <2>13. ASSUME SuccessChecks PROVE TypeOK'
    <3>1. sending' \in Seq(Jobs)
      BY <2>13, TreeAssumption DEF SuccessChecks, TypeOK
    <3> QED
      BY <2>13, <3>1 DEF SuccessChecks, TypeOK
  <2>14. ASSUME NEW i \in DOMAIN sending, SuccessSaves(i)
         PROVE  TypeOK'
    <3>1. sending \in Seq(Jobs) /\ sending[i] \in Jobs
      BY DEF TypeOK
    <3>2. sending' \in Seq(Jobs)
      BY <2>14, <3>1, RemovedRow DEF SuccessSaves
    <3>3. job' \in [Nodes -> Jobs]
      BY <2>14, <3>1 DEF SuccessSaves, TypeOK, Jobs
    <3> QED
      BY <2>14, <3>2, <3>3 DEF SuccessSaves, TypeOK
  <2>15. ASSUME AskingEnds PROVE TypeOK'
    <3>1. job' \in [Nodes -> Jobs] /\ failed' \in BOOLEAN
      BY <2>15, AskingEndsSteps, FailKeepsJobs
    <3>2. asking' \in Nat /\ asks' \in Nat
      <4>1. asking \in Nat /\ asks \in Nat
        BY DEF TypeOK
      <4>2. /\ asking > 0 /\ asking' = asking - 1
            /\ asks' \in {asks, asks + 1}
        BY <2>15, AskingEndsSteps
      <4> QED
        BY <4>1, <4>2
    <3>3. lost' \in BOOLEAN
      BY <2>15, AskingEndsSteps
    <3>4. UNCHANGED <<target, unarchived, task, copies, callback, queued, sending,
                      files_missing>>
      BY <2>15, AskingEndsSteps
    <3> QED
      BY <3>1, <3>2, <3>3, <3>4 DEF TypeOK
  <2>16. CASE UNCHANGED vars
    BY <2>16 DEF vars, TypeOK
  <2> QED
    BY <2>1, <2>2, <2>3, <2>4, <2>5, <2>6, <2>7, <2>8, <2>9, <2>10, <2>11,
       <2>12, <2>13, <2>14, <2>15, <2>16
       DEF Next, Chain, Copy, Callback, Success, AskingEnds
<1> QED
  BY <1>1, <1>2, PTL DEF Spec

-----------------------------------------------------------------------------
(***************************************************************************)
(* Each target is answered once.  While its answer may still come, by a    *)
(* copy, an open callback or the task that marks it empty, it is untouched *)
(* and comes by one of them only; a node the chain has not visited is      *)
(* untouched as a whole.                                                   *)
(***************************************************************************)
Unvisited(n) == n \in unarchived /\ (task = NoTask \/ task.node # n)

Marking(n, a) == task.pc = "updating" /\ task.node = n /\ a \in task.empty

Answering(n, a) == callback[n].pc # "idle" /\ callback[n].addon = a

AnswerInv(n, a) ==
  /\ <<n, a>> \in copies =>
       target[n][a] = "INITIATED" /\ ~Answering(n, a) /\ ~Marking(n, a)
  /\ Answering(n, a) => target[n][a] = "INITIATED" /\ ~Marking(n, a)
  /\ Marking(n, a) => target[n][a] = "INITIATED"
  /\ Unvisited(n) =>
       /\ target[n][a] = "INITIATED"
       /\ <<n, a>> \notin copies /\ callback[n].pc = "idle"

AnswersInv == \A n \in Nodes, a \in Addons : AnswerInv(n, a)

\* With the answer of its open callback, all targets of n have succeeded.
Succeeds(n) ==
  /\ callback[n].outcome = "SUCCESS"
  /\ \A a \in Addons \ {callback[n].addon} : target[n][a] = "SUCCESS"

\* A row that says SUCCESS, committed, written or only loaded, says it of
\* targets that all succeeded.
RowsAreSound ==
  /\ SuccessIsSound
  /\ \A n \in Nodes :
       callback[n].pc \in {"saved", "checked"} =>
         \A m \in DOMAIN callback[n].rows :
           callback[n].rows[m].status = "SUCCESS" => m = n /\ Succeeds(n)
  /\ \A i \in DOMAIN sending :
       sending[i].status = "SUCCESS" => \A a \in Addons : target[Root][a] = "SUCCESS"

\* Every target is finished, but for commits.
Final == \A n \in Nodes, a \in Addons : Decided[n][a] \in Finished

\* The task that asks the admins has been started.
Reported == queued > 0 \/ sending # <<>> \/ asking > 0 \/ asks > 0 \/ lost

WritesRoot(n) == callback[n].pc = "checked" /\ Root \in DOMAIN callback[n].rows

\* The root's row, as soon as what is written is committed.
RootRows ==
  {callback[n].rows[Root] : n \in {m \in Nodes : WritesRoot(m)}}
    \cup {r \in {job[Root]} : \A n \in Nodes : ~WritesRoot(n)}

\* Some target will never be finished.
Lost ==
  \E n \in Nodes, a \in Addons :
    /\ target[n][a] \notin Finished
    /\ <<n, a>> \notin copies /\ ~Answering(n, a) /\ ~Marking(n, a)
    /\ ~Unvisited(n)

FoundFailed == Final /\ ~Reported /\ \A r \in RootRows : r.status # "SUCCESS"

(***************************************************************************)
(* The verdict.  It is success only if the tree is finished and its root   *)
(* succeeded or was sent; failure only if a target is lost, a file is      *)
(* missing, or the tree is finished and its root did not succeed.  A task  *)
(* that is to ask has saved that it was, and nobody else writes it now.    *)
(***************************************************************************)
VerdictInv ==
  /\ Reported => Final /\ \A r \in RootRows : r.sent \/ r.status = "SUCCESS"
  /\ asking > 0 => job[Root].sent /\ \A n \in Nodes : ~WritesRoot(n)
  /\ \A n \in Nodes :
       callback[n].pc = "checked" /\ callback[n].verdict = "failure" => FoundFailed
  /\ failed => Lost \/ files_missing \/ FoundFailed
  /\ files_missing => asks = 0 /\ asking = 0 /\ sending = <<>>

ArchiveInv == TypeOK /\ AnswersInv /\ RowsAreSound /\ VerdictInv

-----------------------------------------------------------------------------
(* Answers.                                                                *)

\* A target that is no longer INITIATED stays as it is.
TargetsStay ==
  \A n \in Nodes, a \in Addons :
    target[n][a] # "INITIATED" => target'[n][a] = target[n][a]

LEMMA AnswersStep ==
  ASSUME TypeOK, AnswersInv, [Next]_vars
  PROVE  AnswersInv' /\ TargetsStay
<1> USE DEF AnswerInv, Unvisited, Marking, Answering
<1> SUFFICES ASSUME NEW m \in Nodes, NEW b \in Addons
             PROVE  /\ AnswerInv(m, b)'
                    /\ target[m][b] # "INITIATED" => target'[m][b] = target[m][b]
  BY DEF AnswersInv, TargetsStay
<1>0. AnswerInv(m, b)
  BY DEF AnswersInv
<1>1. ASSUME NEW n \in Nodes, NEW a \in Addons, StatFails(n, a)
      PROVE  /\ AnswerInv(m, b)'
             /\ target[m][b] # "INITIATED" => target'[m][b] = target[m][b]
  <2>1. /\ task = NoTask /\ n \in unarchived
        /\ unarchived' = {} /\ UNCHANGED <<task, copies, callback>>
        /\ m # n => target'[m] = target[m]
    BY <1>1 DEF StatFails, NextInChain, TypeOK
  <2> QED
    BY <1>0, <2>1 DEF NoTask
<1>2. ASSUME NEW n \in Nodes, SizeExceeded(n)
      PROVE  AnswerInv(m, b)' /\ UNCHANGED target
  BY <1>0, <1>2 DEF SizeExceeded, NextInChain
<1>3. ASSUME NEW n \in Nodes, NEW empty \in SUBSET Addons, ArchiveNode(n, empty)
      PROVE  AnswerInv(m, b)' /\ UNCHANGED target
  BY <1>0, <1>3 DEF ArchiveNode, NextInChain, NoTask
<1>4. ASSUME UpdateEmpty
      PROVE  /\ AnswerInv(m, b)'
             /\ target[m][b] # "INITIATED" => target'[m][b] = target[m][b]
  <2>1. /\ task.pc = "updating" /\ task.node \in Nodes /\ task # NoTask
        /\ task'.pc = "signalling" /\ task'.node = task.node /\ task' # NoTask
        /\ UNCHANGED <<unarchived, copies, callback>>
    BY <1>4 DEF UpdateEmpty, TypeOK, NoTask
  <2>2. target'[m][b] = IF Marking(m, b) THEN "SUCCESS" ELSE target[m][b]
    BY <1>4, <2>1 DEF UpdateEmpty, TypeOK
  <2> QED
    BY <1>0, <2>1, <2>2
<1>5. ASSUME Signal PROVE AnswerInv(m, b)' /\ UNCHANGED target
  BY <1>0, <1>5 DEF Signal, NoTask
<1>6. ASSUME NEW n \in Nodes, NEW a \in Addons,
             CopyRefused(n, a) \/ CallbackExpired(n, a)
      PROVE  AnswerInv(m, b)' /\ UNCHANGED target
  BY <1>0, <1>6 DEF CopyRefused, CallbackExpired
<1>7. ASSUME NEW n \in Nodes, NEW a \in Addons, NEW outcome \in Finished,
             CallbackLoads(n, a, outcome)
      PROVE  AnswerInv(m, b)' /\ UNCHANGED target
  <2>1. /\ <<n, a>> \in copies /\ copies' = copies \ {<<n, a>>}
        /\ callback'[n].pc = "loaded" /\ callback'[n].addon = a
        /\ m # n => callback'[m] = callback[m]
        /\ UNCHANGED <<target, unarchived, task>>
    BY <1>7 DEF CallbackLoads, TypeOK
  <2>2. AnswerInv(n, a)
    BY DEF AnswersInv
  <2> QED
    BY <1>0, <2>1, <2>2
<1>8. ASSUME NEW n \in Nodes, CallbackSaves(n) \/ CallbackChecks(n)
      PROVE  AnswerInv(m, b)' /\ UNCHANGED target
  <2>1. /\ callback[n].pc # "idle" /\ callback'[n].pc # "idle"
        /\ callback'[n].addon = callback[n].addon
        /\ m # n => callback'[m] = callback[m]
        /\ UNCHANGED <<target, copies, unarchived, task>>
    BY <1>8 DEF CallbackSaves, CallbackChecks, TypeOK
  <2> QED
    BY <1>0, <2>1
<1>9. ASSUME NEW n \in Nodes, CallbackCommits(n)
      PROVE  /\ AnswerInv(m, b)'
             /\ target[m][b] # "INITIATED" => target'[m][b] = target[m][b]
  <2>1. /\ callback[n].pc = "checked" /\ callback'[n].pc = "idle"
        /\ m # n => callback'[m] = callback[m]
        /\ UNCHANGED <<copies, unarchived, task>>
    BY <1>9 DEF CallbackCommits, TypeOK, Idle
  <2>2. m # n \/ ~Answering(m, b) => target'[m][b] = target[m][b]
    BY <1>9, <2>1, SeenTypes DEF CallbackCommits
  <2> QED
    BY <1>0, <2>1, <2>2
<1>10. ASSUME SuccessFails \/ SuccessChecks \/ \E i \in DOMAIN sending : SuccessSaves(i)
       PROVE  AnswerInv(m, b)' /\ UNCHANGED target
  BY <1>0, <1>10 DEF SuccessFails, SuccessChecks, SuccessSaves
<1>11. CASE AskingEnds
  BY <1>0, <1>11, AskingEndsSteps
<1>12. CASE UNCHANGED vars
  BY <1>0, <1>12 DEF vars
<1> QED
  BY <1>1, <1>2, <1>3, <1>4, <1>5, <1>6, <1>7, <1>8, <1>9, <1>10, <1>11, <1>12
     DEF Next, Chain, Copy, Callback, Success, AskingEnds

-----------------------------------------------------------------------------
(* Jobs that succeeded.                                                    *)

\* What can change the status of a job.
LEMMA StatusWriters ==
  ASSUME TypeOK, [Next]_vars, NEW n \in Nodes
  PROVE  \/ job'[n].status = job[n].status
         \/ UpdateEmpty
         \/ \E m \in Nodes : CallbackCommits(m)
         \/ \E i \in DOMAIN sending : SuccessSaves(i)
<1>1. ASSUME ArchiveFail \/ UNCHANGED <<job, failed>>
      PROVE  job'[n].status = job[n].status
  BY <1>1, FailKeepsJobs
<1>2. ASSUME \E m \in Nodes :
               \/ SizeExceeded(m)
               \/ \E a \in Addons : StatFails(m, a) \/ CopyRefused(m, a)
      PROVE  job'[n].status = job[n].status
  BY <1>1, <1>2, OnFailureFails DEF SizeExceeded, StatFails, CopyRefused
<1>3. ASSUME SuccessFails PROVE job'[n].status = job[n].status
  BY <1>1, <1>3, OnFailureFails DEF SuccessFails
<1>4. ASSUME \E m \in Nodes, a \in Addons : CallbackExpired(m, a)
      PROVE  job'[n].status = job[n].status
  BY <1>1, <1>4 DEF CallbackExpired
<1>5. ASSUME \/ Signal \/ SuccessChecks
             \/ \E m \in Nodes :
                  \/ \E empty \in SUBSET Addons : ArchiveNode(m, empty)
                  \/ \E a \in Addons, outcome \in Finished : CallbackLoads(m, a, outcome)
                  \/ CallbackSaves(m) \/ CallbackChecks(m)
      PROVE  job'[n].status = job[n].status
  BY <1>5 DEF Signal, SuccessChecks, ArchiveNode, CallbackLoads, CallbackSaves,
              CallbackChecks
<1>6. CASE UNCHANGED vars
  BY <1>6 DEF vars
<1>7. ASSUME AskingEnds PROVE job'[n].status = job[n].status
  BY <1>1, <1>7, AskingEndsSteps
<1> QED
  BY <1>2, <1>3, <1>4, <1>5, <1>6, <1>7
  DEF Next, Chain, Copy, Callback, Success, AskingEnds

\* The rows that the task of the chain saves for the addons without files.
LEMMA EmptySaves ==
  ASSUME TypeOK, UpdateEmpty, NEW n \in Nodes
  PROVE  \/ job'[n] = job[n]
         \/ /\ task.empty # {}
            /\ job'[n].status = "SUCCESS" => \A a \in Addons : target'[n][a] = "SUCCESS"
<1> DEFINE own  == task.node
           rows == PostUpdate(own, task.own, Above(own), target')
<1>1. own \in Nodes /\ task.own \in Jobs
  BY DEF UpdateEmpty, TypeOK, NoTask
<1>2. Above(own) \in Jobs
  BY <1>1, TreeAssumption DEF Above, TypeOK
<1>3. target' \in [Nodes -> [Addons -> Statuses]]
  BY <1>1 DEF UpdateEmpty, TypeOK, Statuses, Finished
<1>4. \A m \in DOMAIN rows :
        rows[m].status = "SUCCESS" => m = own /\ \A a \in Addons : target'[own][a] = "SUCCESS"
  BY <1>1, <1>2, <1>3, PostUpdateRows
<1>5. CASE task.empty = {}
  BY <1>5, NoRows DEF UpdateEmpty
<1>6. CASE task.empty # {}
  <2>1. job'[n] = IF n \in DOMAIN rows THEN rows[n] ELSE job[n]
    BY <1>6 DEF UpdateEmpty
  <2> QED
    BY <1>4, <1>6, <2>1
<1> QED
  BY <1>5, <1>6

\* A callback whose row or outcome is as it was still succeeds.
LEMMA SucceedsStays ==
  ASSUME AnswersInv, TargetsStay, NEW n \in Nodes, Succeeds(n),
         callback'[n].addon = callback[n].addon,
         callback'[n].outcome = callback[n].outcome
  PROVE  Succeeds(n)'
BY DEF TargetsStay, Succeeds

\* What a step does to the callback of one node.
LEMMA CallbackSteps ==
  ASSUME TypeOK, [Next]_vars, NEW n \in Nodes
  PROVE  \/ callback'[n] = callback[n]
         \/ callback'[n].pc \in {"idle", "loaded"}
         \/ CallbackSaves(n)
         \/ CallbackChecks(n)
<1>1. CASE UNCHANGED callback
  BY <1>1
<1>2. ASSUME NEW k \in Nodes, NEW open, callback' = [callback EXCEPT ![k] = open],
             k # n \/ open.pc \in {"idle", "loaded"}
      PROVE  callback'[n] = callback[n] \/ callback'[n].pc \in {"idle", "loaded"}
  BY <1>2 DEF TypeOK
<1>3. ASSUME NEW k \in Nodes, CallbackCommits(k)
      PROVE  callback'[n] = callback[n] \/ callback'[n].pc \in {"idle", "loaded"}
  BY <1>2, <1>3 DEF CallbackCommits, Idle
<1>4. ASSUME NEW k \in Nodes, NEW a \in Addons, NEW outcome \in Finished,
             CallbackLoads(k, a, outcome)
      PROVE  callback'[n] = callback[n] \/ callback'[n].pc \in {"idle", "loaded"}
  BY <1>2, <1>4 DEF CallbackLoads
<1>5. ASSUME NEW k \in Nodes \ {n}, CallbackSaves(k) \/ CallbackChecks(k)
      PROVE  callback'[n] = callback[n]
  BY <1>5 DEF CallbackSaves, CallbackChecks, TypeOK
<1> QED
  BY <1>1, <1>3, <1>4, <1>5
     DEF Next, Chain, Copy, Callback, Success, StatFails, SizeExceeded,
         ArchiveNode, UpdateEmpty, Signal, CopyRefused, CallbackExpired,
         SuccessFails, SuccessChecks, SuccessSaves, SuccessAsks, AskingBreaks,
         vars

\* What a callback that saves its job writes.
LEMMA SavedCallback ==
  ASSUME TypeOK, NEW n \in Nodes, CallbackSaves(n)
  PROVE  /\ callback[n].pc = "loaded" /\ callback'[n].pc = "saved"
         /\ callback'[n].addon = callback[n].addon
         /\ callback'[n].outcome = callback[n].outcome
         /\ \A m \in DOMAIN callback'[n].rows :
              callback'[n].rows[m].status = "SUCCESS" =>
                m = n /\ \A a \in Addons : SeenTargets(n)[n][a] = "SUCCESS"
<1>1. PICK above \in {callback[n].above, Above(n)} :
        callback' = [callback EXCEPT ![n] =
          [pc |-> "saved", addon |-> callback[n].addon,
           outcome |-> callback[n].outcome,
           rows |-> PostUpdate(n, callback[n].own, above, SeenTargets(n))]]
  BY DEF CallbackSaves
<1>2. above \in Jobs /\ callback[n].own \in Jobs /\ callback[n].pc = "loaded"
  <2>1. Above(n) \in Jobs
    BY TreeAssumption DEF Above, TypeOK
  <2>2. callback[n].pc = "loaded"
    BY DEF CallbackSaves
  <2>3. callback[n].own \in Jobs /\ callback[n].above \in Jobs
    BY <2>2, CallbackTypes
  <2> QED
    BY <2>1, <2>2, <2>3
<1>3. callback'[n].rows = PostUpdate(n, callback[n].own, above, SeenTargets(n))
  BY <1>1 DEF TypeOK
<1>4. SeenTargets(n) \in [Nodes -> [Addons -> Statuses]]
  BY <1>2, SeenTypes
<1>5. \A m \in DOMAIN callback'[n].rows :
        callback'[n].rows[m].status = "SUCCESS" =>
          m = n /\ \A a \in Addons : SeenTargets(n)[n][a] = "SUCCESS"
  BY <1>2, <1>3, <1>4, PostUpdateRows
<1>6. /\ callback'[n].pc = "saved" /\ callback'[n].addon = callback[n].addon
      /\ callback'[n].outcome = callback[n].outcome
  BY <1>1 DEF TypeOK
<1> QED
  BY <1>2, <1>5, <1>6

LEMMA SoundStep ==
  ASSUME TypeOK, AnswersInv, RowsAreSound, TargetsStay, [Next]_vars
  PROVE  RowsAreSound'
<1>1. ASSUME NEW n \in Nodes, job'[n].status = "SUCCESS", NEW a \in Addons
      PROVE  target'[n][a] = "SUCCESS"
  <2>1. CASE job'[n].status = job[n].status
    BY <1>1, <2>1 DEF RowsAreSound, SuccessIsSound, TargetsStay
  <2>2. CASE UpdateEmpty
    BY <1>1, <2>1, <2>2, EmptySaves
  <2>3. ASSUME NEW m \in Nodes, CallbackCommits(m)
        PROVE  target'[n][a] = "SUCCESS"
    <3>1. /\ callback[m].pc = "checked" /\ target' = SeenTargets(m)
          /\ job'[n] = IF n \in DOMAIN callback[m].rows THEN callback[m].rows[n]
                       ELSE job[n]
      BY <2>3 DEF CallbackCommits, SeenJobs
    <3>2. CASE n \in DOMAIN callback[m].rows
      <4>1. n = m /\ Succeeds(m)
        BY <1>1, <3>1, <3>2 DEF RowsAreSound
      <4> QED
        BY <3>1, <4>1, SeenTypes DEF Succeeds
    <3> QED
      BY <2>1, <3>1, <3>2
  <2>4. ASSUME NEW i \in DOMAIN sending, SuccessSaves(i)
        PROVE  target'[n][a] = "SUCCESS"
    <3>1. sending[i] \in Jobs
      BY DEF TypeOK
    <3>2. CASE n = Root
      BY <1>1, <2>4, <3>1, <3>2 DEF SuccessSaves, RowsAreSound, TypeOK, Jobs
    <3>3. CASE n # Root
      BY <1>1, <2>1, <2>4, <3>3 DEF SuccessSaves, TypeOK
    <3> QED
      BY <3>2, <3>3
  <2> QED
    BY <2>1, <2>2, <2>3, <2>4, StatusWriters
<1>2. ASSUME NEW n \in Nodes, callback'[n].pc \in {"saved", "checked"},
             NEW m \in DOMAIN callback'[n].rows,
             callback'[n].rows[m].status = "SUCCESS"
      PROVE  m = n /\ Succeeds(n)'
  <2>1. CASE /\ callback[n].pc \in {"saved", "checked"}
             /\ callback'[n].addon = callback[n].addon
             /\ callback'[n].outcome = callback[n].outcome
             /\ callback'[n].rows = callback[n].rows
    BY <1>2, <2>1, SucceedsStays DEF RowsAreSound
  <2>2. CASE CallbackSaves(n)
    <3>1. m = n /\ \A a \in Addons : SeenTargets(n)[n][a] = "SUCCESS"
      BY <1>2, <2>2, SavedCallback
    <3>2. Succeeds(n)
      BY <2>2, <3>1, SavedCallback, CallbackTypes, SeenTypes DEF Succeeds
    <3> QED
      BY <2>2, <3>1, <3>2, SavedCallback, SucceedsStays
  <2>3. CASE CallbackChecks(n)
    BY <2>1, <2>3 DEF CallbackChecks, TypeOK
  <2> QED
    BY <1>2, <2>1, <2>2, <2>3, CallbackSteps
<1>3. ASSUME NEW i \in DOMAIN sending', sending'[i].status = "SUCCESS",
             NEW a \in Addons
      PROVE  target'[Root][a] = "SUCCESS"
  <2>1. ASSUME NEW j \in DOMAIN sending, sending'[i] = sending[j]
        PROVE  target'[Root][a] = "SUCCESS"
    BY <1>3, <2>1, TreeAssumption DEF RowsAreSound, TargetsStay
  <2>2. CASE SuccessChecks
    <3>1. CASE job[Root].sent
      BY <1>3, <2>1, <2>2, <3>1 DEF SuccessChecks
    <3>2. CASE ~job[Root].sent
      <4>1. sending' = Append(sending, job[Root]) /\ UNCHANGED target
        BY <2>2, <3>2 DEF SuccessChecks
      <4>2. sending \in Seq(Jobs) /\ job[Root] \in Jobs
        BY TreeAssumption DEF TypeOK
      <4>3. (i \in DOMAIN sending /\ sending'[i] = sending[i]) \/ sending'[i] = job[Root]
        BY <1>3, <4>1, <4>2
      <4> QED
        BY <1>3, <2>1, <4>1, <4>3, TreeAssumption DEF RowsAreSound, SuccessIsSound
    <3> QED
      BY <3>1, <3>2
  <2>3. ASSUME NEW k \in DOMAIN sending, SuccessSaves(k)
        PROVE  target'[Root][a] = "SUCCESS"
    BY <1>3, <2>1, <2>3, RemovedRow DEF SuccessSaves, TypeOK
  <2>4. CASE UNCHANGED sending
    BY <1>3, <2>1, <2>4
  <2> QED
    BY <2>2, <2>3, <2>4
       DEF Next, Chain, Copy, Callback, Success, StatFails, SizeExceeded,
           ArchiveNode, UpdateEmpty, Signal, CopyRefused, CallbackExpired,
           CallbackLoads, CallbackSaves, CallbackChecks, CallbackCommits,
           SuccessFails, SuccessAsks, AskingBreaks, vars
<1> QED
  BY <1>1, <1>2, <1>3 DEF RowsAreSound, SuccessIsSound

-----------------------------------------------------------------------------
(* Finished trees.                                                         *)

\* What a target is, or will be once its callback has committed.
LEMMA DecidedTargets ==
  ASSUME TypeOK, NEW n \in Nodes, NEW a \in Addons
  PROVE  Decided[n][a] = IF callback[n].pc = "checked" /\ callback[n].addon = a
                         THEN callback[n].outcome ELSE target[n][a]
BY SeenTypes DEF Decided

\* A finished tree waits for no answer, and has lost none.
LEMMA Answered ==
  ASSUME TypeOK, AnswersInv, Final
  PROVE  /\ ~Lost
         /\ \A n \in Nodes : ~Unvisited(n) /\ callback[n].pc \in {"idle", "checked"}
         /\ \A n \in Nodes, a \in Addons : <<n, a>> \notin copies /\ ~Marking(n, a)
<1>1. \A n \in Nodes, a \in Addons :
        target[n][a] \notin Finished => callback[n].pc = "checked" /\ Answering(n, a)
  BY DecidedTargets DEF Final, Answering
<1>2. "INITIATED" \notin Finished
  BY DEF Finished
<1>3. \A n \in Nodes, a \in Addons :
        <<n, a>> \notin copies /\ ~Marking(n, a) /\ ~Unvisited(n)
  BY <1>1, <1>2 DEF AnswersInv, AnswerInv
<1>4. \A n \in Nodes : callback[n].pc \in {"idle", "checked"}
  <2> SUFFICES ASSUME NEW n \in Nodes, callback[n].pc # "idle"
               PROVE  callback[n].pc = "checked"
    OBVIOUS
  <2>1. callback[n].addon \in Addons /\ Answering(n, callback[n].addon)
    BY CallbackTypes DEF Answering
  <2>2. target[n][callback[n].addon] \notin Finished
    BY <1>2, <2>1 DEF AnswersInv, AnswerInv
  <2> QED
    BY <1>1, <2>1, <2>2
<1> QED
  BY <1>1, <1>3, <1>4, AddonsAssumption DEF Lost

\* When all committed targets are finished, no callback is open.
LEMMA FinishedTree ==
  ASSUME TypeOK, AnswersInv, TreeFinished(target)
  PROVE  Final /\ RootRows = {job[Root]}
<1>1. \A n \in Nodes, a \in Addons : target[n][a] \in Finished
  BY DEF TreeFinished, Pending
<1>2. \A n \in Nodes : callback[n].pc = "idle"
  <2> SUFFICES ASSUME NEW n \in Nodes, callback[n].pc # "idle" PROVE FALSE
    OBVIOUS
  <2>1. callback[n].addon \in Addons /\ Answering(n, callback[n].addon)
    BY CallbackTypes DEF Answering
  <2> QED
    BY <1>1, <2>1 DEF AnswersInv, AnswerInv, Finished
<1>3. Final
  BY <1>1, <1>2, DecidedTargets DEF Final
<1>4. \A n \in Nodes : ~WritesRoot(n)
  BY <1>2 DEF WritesRoot
<1> QED
  BY <1>3, <1>4 DEF RootRows

\* The steps that a finished tree may still take.
LEMMA FinalSteps ==
  ASSUME TypeOK, AnswersInv, Final, [Next]_vars
  PROVE  \/ UpdateEmpty /\ UNCHANGED <<target, job>>
         \/ Signal
         \/ \E n \in Nodes : CallbackCommits(n)
         \/ SuccessFails
         \/ SuccessChecks
         \/ \E i \in DOMAIN sending : SuccessSaves(i)
         \/ AskingEnds
         \/ UNCHANGED vars
<1>1. \A n \in Nodes : ~NextInChain(n)
  BY Answered DEF Unvisited, NextInChain
<1>2. \A n \in Nodes, a \in Addons : <<n, a>> \notin copies
  BY Answered
<1>3. \A n \in Nodes : callback[n].pc \notin {"loaded", "saved"}
  BY Answered
<1>4. ASSUME UpdateEmpty PROVE UNCHANGED <<target, job>>
  <2>1. task.node \in Nodes /\ task.pc = "updating" /\ task.empty \subseteq Addons
    BY <1>4 DEF UpdateEmpty, TypeOK, NoTask
  <2>2. task.empty = {}
    BY <2>1, Answered DEF Marking
  <2>3. target' = target
    BY <1>4, <2>1, <2>2 DEF UpdateEmpty, TypeOK
  <2>4. job' = [m \in Nodes |-> job[m]]
    BY <1>4, <2>2, NoRows DEF UpdateEmpty
  <2> QED
    BY <2>3, <2>4 DEF TypeOK
<1> QED
  BY <1>1, <1>2, <1>3, <1>4
     DEF Next, Chain, Copy, Callback, Success, StatFails, SizeExceeded,
         ArchiveNode, CopyRefused, CallbackExpired, CallbackLoads,
         CallbackSaves, CallbackChecks, AskingEnds

\* What a callback that commits leaves behind.
LEMMA Committed ==
  ASSUME TypeOK, NEW n \in Nodes, CallbackCommits(n)
  PROVE  /\ callback[n].pc = "checked" /\ callback'[n].pc = "idle"
         /\ \A m \in Nodes \ {n} : callback'[m] = callback[m] /\ target'[m] = target[m]
         /\ \A a \in Addons : target'[n][a] = Decided[n][a]
         /\ job'[Root] = IF WritesRoot(n) THEN callback[n].rows[Root] ELSE job[Root]
<1>1. callback[n].pc = "checked" /\ target' = SeenTargets(n) /\ job' = SeenJobs(n)
  BY DEF CallbackCommits
<1>2. \A m \in Nodes : callback'[m] = IF m = n THEN Idle ELSE callback[m]
  BY DEF CallbackCommits, TypeOK
<1>3. job'[Root] = IF WritesRoot(n) THEN callback[n].rows[Root] ELSE job[Root]
  BY <1>1, TreeAssumption DEF SeenJobs, WritesRoot
<1> QED
  BY <1>1, <1>2, <1>3, SeenTypes DEF Decided, Idle

LEMMA DecidedStay ==
  ASSUME TypeOK, TypeOK', AnswersInv, Final, [Next]_vars
  PROVE  \A m \in Nodes, a \in Addons : Decided'[m][a] = Decided[m][a]
<1>1. CASE UNCHANGED <<target, callback>>
  BY <1>1 DEF Decided, SeenTargets
<1>2. ASSUME NEW n \in Nodes, CallbackCommits(n), NEW m \in Nodes, NEW a \in Addons
      PROVE  Decided'[m][a] = Decided[m][a]
  <2>1. CASE m = n
    BY <1>2, <2>1, Committed DEF Decided
  <2>2. CASE m # n
    <3>1. callback'[m] = callback[m] /\ target'[m] = target[m]
      BY <1>2, <2>2, Committed
    <3>2. SeenTargets(m)[m] = [target[m] EXCEPT ![callback[m].addon] = callback[m].outcome]
      BY DEF SeenTargets, TypeOK
    <3>3. SeenTargets(m)'[m] = [target'[m] EXCEPT ![callback'[m].addon] = callback'[m].outcome]
      BY DEF SeenTargets, TypeOK
    <3> QED
      BY <3>1, <3>2, <3>3 DEF Decided
  <2> QED
    BY <2>1, <2>2
<1> QED
  BY <1>1, <1>2, FinalSteps, AskingEndsSteps
     DEF UpdateEmpty, Signal, SuccessFails, SuccessChecks, SuccessSaves, vars

LEMMA FinalStays ==
  ASSUME TypeOK, TypeOK', AnswersInv, Final, [Next]_vars
  PROVE  Final'
BY DecidedStay DEF Final

-----------------------------------------------------------------------------
(* The root's row, and what is lost.                                       *)

\* While the row of the root is not locked, it is the committed one.
LEMMA UnlockedRoot ==
  ASSUME ~Locked(Root)
  PROVE  \A n \in Nodes : ~WritesRoot(n)
BY DEF Locked, WritesRoot

\* The verdict archive_fail gives changes nothing but sent of the root's row.
LEMMA FailedRoot ==
  ASSUME TypeOK, ArchiveFail \/ UNCHANGED <<job, failed>>, UNCHANGED callback
  PROVE  \A r \in RootRows' : \E q \in RootRows :
           r.status = q.status /\ (q.sent => r.sent)
<1>1. CASE UNCHANGED <<job, failed>>
  BY <1>1 DEF RootRows, WritesRoot
<1>2. CASE ArchiveFail
  <2>1. \A n \in Nodes : ~WritesRoot(n) /\ ~WritesRoot(n)'
    BY <1>2, UnlockedRoot DEF ArchiveFail, WritesRoot
  <2>2. RootRows = {job[Root]} /\ RootRows' = {job'[Root]}
    BY <2>1 DEF RootRows
  <2> QED
    BY <1>2, <2>2, FailKeepsJobs, TreeAssumption
<1> QED
  BY <1>1, <1>2

\* Once the tree is finished, only the task that asks the admins changes more.
LEMMA RootRowsStay ==
  ASSUME TypeOK, AnswersInv, Final, [Next]_vars,
         ~\E i \in DOMAIN sending : SuccessSaves(i)
  PROVE  \A r \in RootRows' : \E q \in RootRows :
           r.status = q.status /\ (q.sent => r.sent)
<1>1. CASE UNCHANGED <<job, callback>>
  BY <1>1 DEF RootRows, WritesRoot
<1>2. ASSUME NEW n \in Nodes, CallbackCommits(n)
      PROVE  RootRows' \subseteq RootRows
  <2>1. \A m \in Nodes : WritesRoot(m)' => m # n /\ WritesRoot(m)
    BY <1>2, Committed DEF WritesRoot
  <2>2. \A m \in Nodes : WritesRoot(m)' => callback'[m] = callback[m]
    BY <1>2, <2>1, Committed
  <2>3. \A m \in Nodes : WritesRoot(m) /\ m # n => WritesRoot(m)'
    BY <1>2, Committed DEF WritesRoot
  <2>4. CASE WritesRoot(n)
    BY <1>2, <2>1, <2>2, <2>4, Committed DEF RootRows
  <2>5. CASE ~WritesRoot(n)
    BY <1>2, <2>1, <2>2, <2>3, <2>5, Committed DEF RootRows
  <2> QED
    BY <2>4, <2>5
<1>3. CASE SuccessFails
  BY <1>3, OnFailureFails, FailedRoot DEF SuccessFails
<1>4. CASE AskingEnds
  BY <1>4, AskingEndsSteps, FailedRoot
<1> QED
  BY <1>1, <1>2, <1>3, <1>4, FinalSteps
  DEF UpdateEmpty, Signal, SuccessChecks, vars

\* A target that is lost stays lost.
LEMMA LostStays ==
  ASSUME TypeOK, AnswersInv, Lost, [Next]_vars
  PROVE  Lost'
<1>1. PICK n \in Nodes, a \in Addons :
        /\ target[n][a] \notin Finished
        /\ <<n, a>> \notin copies /\ ~Answering(n, a) /\ ~Marking(n, a)
        /\ ~Unvisited(n)
  BY DEF Lost
<1> USE DEF Answering, Marking, Unvisited
<1> DEFINE Gone == /\ target'[n][a] = target[n][a]
                   /\ <<n, a>> \notin copies' /\ ~Answering(n, a)' /\ ~Marking(n, a)'
                   /\ ~Unvisited(n)'
<1>2. ASSUME NEW m \in Nodes, NEW b \in Addons, StatFails(m, b)
      PROVE  Gone
  BY <1>1, <1>2 DEF StatFails, NextInChain, TypeOK
<1>3. ASSUME NEW m \in Nodes, SizeExceeded(m)
      PROVE  Gone
  BY <1>1, <1>3 DEF SizeExceeded
<1>4. ASSUME NEW m \in Nodes, NEW empty \in SUBSET Addons, ArchiveNode(m, empty)
      PROVE  Gone
  BY <1>1, <1>4 DEF ArchiveNode, NextInChain, NoTask
<1>5. ASSUME UpdateEmpty PROVE Gone
  <2>1. /\ task.pc = "updating" /\ task.node \in Nodes /\ task # NoTask
        /\ task'.pc = "signalling" /\ task'.node = task.node /\ task' # NoTask
        /\ UNCHANGED <<unarchived, copies, callback>>
    BY <1>5 DEF UpdateEmpty, TypeOK, NoTask
  <2>2. target'[n][a] = IF Marking(n, a) THEN "SUCCESS" ELSE target[n][a]
    BY <1>5, <2>1 DEF UpdateEmpty, TypeOK
  <2> QED
    BY <1>1, <2>1, <2>2
<1>6. ASSUME Signal PROVE Gone
  BY <1>1, <1>6 DEF Signal, NoTask
<1>7. ASSUME NEW m \in Nodes, NEW b \in Addons,
             CopyRefused(m, b) \/ CallbackExpired(m, b)
      PROVE  Gone
  BY <1>1, <1>7 DEF CopyRefused, CallbackExpired
<1>8. ASSUME NEW m \in Nodes, NEW b \in Addons, NEW outcome \in Finished,
             CallbackLoads(m, b, outcome)
      PROVE  Gone
  <2>1. /\ <<m, b>> \in copies /\ copies' = copies \ {<<m, b>>}
        /\ callback'[m].addon = b
        /\ m # n => callback'[n] = callback[n]
        /\ UNCHANGED <<target, unarchived, task>>
    BY <1>8 DEF CallbackLoads, TypeOK
  <2> QED
    BY <1>1, <2>1
<1>9. ASSUME NEW m \in Nodes, CallbackSaves(m) \/ CallbackChecks(m)
      PROVE  Gone
  <2>1. /\ callback[m].pc # "idle" /\ callback'[m].addon = callback[m].addon
        /\ m # n => callback'[n] = callback[n]
        /\ UNCHANGED <<target, copies, unarchived, task>>
    BY <1>9 DEF CallbackSaves, CallbackChecks, TypeOK
  <2> QED
    BY <1>1, <2>1
<1>10. ASSUME NEW m \in Nodes, CallbackCommits(m)
       PROVE  Gone
  <2>1. UNCHANGED <<unarchived, task, copies>>
    BY <1>10 DEF CallbackCommits
  <2>2. Decided[n][a] = target[n][a]
    BY <1>1, DecidedTargets
  <2> QED
    BY <1>1, <1>10, <2>1, <2>2, Committed
<1>11. ASSUME SuccessFails \/ SuccessChecks \/ \E i \in DOMAIN sending : SuccessSaves(i)
       PROVE  Gone
  BY <1>1, <1>11 DEF SuccessFails, SuccessChecks, SuccessSaves
<1>12. ASSUME UNCHANGED vars PROVE Gone
  BY <1>1, <1>12 DEF vars
<1>13. ASSUME AskingEnds PROVE Gone
  BY <1>1, <1>13, AskingEndsSteps
<1> HIDE DEF Gone, Answering, Marking, Unvisited
<1>14. Gone
  BY <1>2, <1>3, <1>4, <1>5, <1>6, <1>7, <1>8, <1>9, <1>10, <1>11, <1>12, <1>13
     DEF Next, Chain, Copy, Callback, Success, AskingEnds
<1>15. target'[n][a] \notin Finished
  BY <1>1, <1>14 DEF Gone
<1> QED
  BY <1>14, <1>15 DEF Lost, Gone

-----------------------------------------------------------------------------
(* Verdicts.                                                               *)

\* What the verdicts say of the targets and jobs they are given.
LEMMA Verdicts ==
  ASSUME NEW targets, NEW jobs
  PROVE  /\ Verdict(targets, jobs) # "none" => TreeFinished(targets) /\ ~jobs[Root].sent
         /\ Verdict(targets, jobs) = "success" => jobs[Root].status = "SUCCESS"
         /\ Verdict(targets, jobs) = "failure" => jobs[Root].status # "SUCCESS"
         /\ Verdict(targets, jobs) \in {"none", "success", "failure"}
BY DEF Verdict

\* What is reported when the chain has visited a node.
LEMMA SignalVerdict ==
  ASSUME TypeOK, AnswersInv, VerdictInv, Signal
  PROVE  /\ UNCHANGED <<target, job, callback, sending, reports>>
         /\ Reported' =>
              Reported \/ (Final /\ \A r \in RootRows : r.status = "SUCCESS")
         /\ failed' => failed \/ FoundFailed
         /\ FoundFailed => ~Reported'
<1> DEFINE verdict == Verdict(target, job)
<1>1. /\ UNCHANGED <<target, job, callback, sending, reports>>
      /\ queued' = IF verdict = "success" THEN queued + 1 ELSE queued
      /\ failed' = (failed \/ verdict = "failure")
  BY DEF Signal, Queue, HandleFail
<1>2. verdict # "none" => Final /\ RootRows = {job[Root]} /\ ~job[Root].sent
  BY Verdicts, FinishedTree
<1>3. /\ verdict = "success" => job[Root].status = "SUCCESS"
      /\ verdict = "failure" => job[Root].status # "SUCCESS"
  BY Verdicts
<1> HIDE DEF verdict
<1>4. verdict = "failure" => FoundFailed
  BY <1>2, <1>3 DEF VerdictInv, FoundFailed
<1>5. Reported' => Reported \/ verdict = "success"
  BY <1>1 DEF Reported
<1>6. FoundFailed => verdict # "success"
  BY <1>2, <1>3 DEF FoundFailed
<1>7. FoundFailed => ~Reported'
  BY <1>5, <1>6 DEF FoundFailed
<1>8. verdict = "success" => Final /\ \A r \in RootRows : r.status = "SUCCESS"
  BY <1>2, <1>3
<1>9. failed' => failed \/ FoundFailed
  BY <1>1, <1>4
<1>10. Reported' =>
         Reported \/ (Final /\ \A r \in RootRows : r.status = "SUCCESS")
  BY <1>5, <1>8
<1> QED
  BY <1>1, <1>7, <1>9, <1>10

\* The task that asks the admins runs only when it has been queued.
LEMMA AskingIsReported ==
  ASSUME TypeOK,
         \/ SuccessFails \/ SuccessChecks
         \/ \E i \in DOMAIN sending : SuccessSaves(i)
         \/ AskingEnds
  PROVE  Reported
BY AskingEndsSteps DEF SuccessFails, SuccessChecks, Reported

\* What asks is marked as sent: nothing fails the archive any more.
LEMMA AskingIsSent ==
  ASSUME TypeOK, VerdictInv, AskingEnds
  PROVE  UNCHANGED <<job, failed>>
BY AskingEndsSteps DEF VerdictInv, ArchiveFail

\* A finished tree keeps its verdict.
LEMMA FinalVerdicts ==
  ASSUME TypeOK, TypeOK', AnswersInv, VerdictInv, Final, [Next]_vars
  PROVE  VerdictInv'
<1> DEFINE Asking == \E i \in DOMAIN sending : SuccessSaves(i)
<1>1. Final'
  BY FinalStays
<1>2. Reported' => Reported \/ (Signal /\ \A r \in RootRows : r.status = "SUCCESS")
  <2>1. ASSUME ~Reported, ~Signal PROVE ~Reported'
    <3>1. UNCHANGED <<queued, sending, reports>>
      BY <2>1, AskingIsReported, FinalSteps DEF UpdateEmpty, CallbackCommits, vars
    <3> QED
      BY <2>1, <3>1 DEF Reported
  <2> QED
    BY <2>1, SignalVerdict
<1>3. ASSUME Reported' PROVE \A r \in RootRows' : r.sent \/ r.status = "SUCCESS"
  <2>1. CASE Asking
    <3>1. PICK i \in DOMAIN sending : SuccessSaves(i)
      BY <2>1
    <3>2. \A n \in Nodes : ~WritesRoot(n)'
      BY <3>1, UnlockedRoot DEF SuccessSaves, WritesRoot
    <3>3. RootRows' = {job'[Root]}
      BY <3>2 DEF RootRows
    <3>4. sending[i] \in Jobs
      BY DEF TypeOK
    <3>5. job'[Root].sent
      BY <3>1, <3>4, TreeAssumption DEF SuccessSaves, TypeOK, Jobs
    <3> QED
      BY <3>3, <3>5
  <2>2. CASE ~Asking
    BY <1>2, <1>3, <2>2, RootRowsStay DEF VerdictInv
  <2> QED
    BY <2>1, <2>2
<1>4. ASSUME FoundFailed PROVE FoundFailed'
  <2>1. ~Asking
    BY <1>4, AskingIsReported DEF FoundFailed
  <2>2. ~Reported'
    BY <1>2, <1>4, SignalVerdict DEF FoundFailed
  <2>3. \A r \in RootRows' : r.status # "SUCCESS"
    BY <1>4, <2>1, RootRowsStay DEF FoundFailed
  <2> QED
    BY <1>1, <2>2, <2>3 DEF FoundFailed
<1>5. ASSUME NEW n \in Nodes, callback'[n].pc = "checked",
             callback'[n].verdict = "failure"
      PROVE  FoundFailed'
  <2>1. callback'[n] = callback[n]
    <3>1. CASE UNCHANGED callback
      BY <3>1
    <3>2. ASSUME NEW m \in Nodes, CallbackCommits(m)
          PROVE  callback'[n] = callback[n]
      BY <1>5, <3>2, Committed
    <3> QED
      BY <3>1, <3>2, FinalSteps
         DEF UpdateEmpty, Signal, SuccessFails, SuccessChecks, SuccessSaves,
             AskingEnds, SuccessAsks, AskingBreaks, vars
  <2> QED
    BY <1>4, <1>5, <2>1 DEF VerdictInv
<1>6. failed' => Lost' \/ files_missing' \/ FoundFailed'
  <2>1. files_missing' = files_missing
    BY DEF Next, Chain, Copy, Callback, Success, StatFails, SizeExceeded,
           ArchiveNode, UpdateEmpty, Signal, CopyRefused, CallbackExpired,
           CallbackLoads, CallbackSaves, CallbackChecks, CallbackCommits,
           SuccessFails, SuccessChecks, SuccessSaves, SuccessAsks, AskingBreaks,
           vars
  <2>2. failed => files_missing \/ FoundFailed
    BY Answered DEF VerdictInv
  <2>3. failed' => failed \/ files_missing \/ FoundFailed
    <3>1. ASSUME NEW m \in Nodes, CallbackCommits(m)
          PROVE  failed' => failed \/ FoundFailed
      BY <3>1 DEF CallbackCommits, HandleFail, VerdictInv
    <3>2. SuccessFails => files_missing
      BY DEF SuccessFails
    <3> QED
      BY <3>1, <3>2, FinalSteps, SignalVerdict, AskingIsSent
         DEF UpdateEmpty, SuccessChecks, SuccessSaves, vars
  <2> QED
    BY <1>4, <2>1, <2>2, <2>3
<1>7. files_missing' => asks' = 0 /\ asking' = 0 /\ sending' = <<>>
  <2>1. CASE files_missing
    <3>1. /\ ~SuccessChecks /\ ~Asking /\ ~AskingEnds
          /\ asks = 0 /\ asking = 0 /\ sending = <<>>
      BY <2>1, AskingEndsSteps DEF VerdictInv, SuccessChecks
    <3> QED
      BY <3>1, FinalSteps
         DEF UpdateEmpty, Signal, CallbackCommits, SuccessFails, vars
  <2>2. CASE ~files_missing
    BY <2>2, FinalSteps, AskingEndsSteps
       DEF UpdateEmpty, Signal, CallbackCommits, SuccessFails, SuccessChecks,
           SuccessSaves, vars
  <2> QED
    BY <2>1, <2>2
<1>8. ASSUME asking' > 0
      PROVE  job'[Root].sent /\ \A n \in Nodes : ~WritesRoot(n)'
  <2>1. CASE Asking
    <3>1. PICK i \in DOMAIN sending : SuccessSaves(i)
      BY <2>1
    <3>2. sending[i] \in Jobs
      BY DEF TypeOK
    <3> QED
      BY <3>1, <3>2, UnlockedRoot, TreeAssumption
      DEF SuccessSaves, WritesRoot, TypeOK, Jobs
  <2>2. CASE ~Asking
    <3>1. asking > 0
      BY <1>8, <2>2, FinalSteps, AskingEndsSteps
      DEF UpdateEmpty, Signal, CallbackCommits, SuccessFails, SuccessChecks, TypeOK,
          vars
    <3>2. job[Root].sent /\ \A n \in Nodes : ~WritesRoot(n)
      BY <3>1 DEF VerdictInv
    <3>3. ASSUME NEW n \in Nodes, CallbackCommits(n)
          PROVE  job'[Root].sent /\ \A m \in Nodes : ~WritesRoot(m)'
      BY <3>2, <3>3, Committed DEF WritesRoot
    <3>4. ASSUME ArchiveFail \/ UNCHANGED <<job, failed>>, UNCHANGED callback
          PROVE  job'[Root].sent /\ \A m \in Nodes : ~WritesRoot(m)'
      BY <3>2, <3>4, FailKeepsJobs DEF WritesRoot
    <3>5. CASE AskingEnds
      BY <3>4, <3>5, AskingEndsSteps
    <3>6. CASE SuccessFails
      BY <3>4, <3>6, OnFailureFails DEF SuccessFails
    <3>7. CASE UNCHANGED <<job, callback>>
      BY <3>2, <3>7 DEF WritesRoot
    <3> QED
      BY <2>2, <3>3, <3>5, <3>6, <3>7, FinalSteps
      DEF UpdateEmpty, Signal, SuccessChecks, vars
  <2> QED
    BY <2>1, <2>2
<1> HIDE DEF Asking
<1> QED
  BY <1>1, <1>3, <1>5, <1>6, <1>7, <1>8 DEF VerdictInv

\* While the tree is not finished, nothing is reported but what is lost.
LEMMA OpenVerdicts ==
  ASSUME TypeOK, AnswersInv, VerdictInv, ~Final, [Next]_vars
  PROVE  VerdictInv'
<1>1. ~Reported /\ ~FoundFailed /\ (failed => Lost \/ files_missing)
  BY DEF VerdictInv, FoundFailed
<1>2. \A n \in Nodes : callback[n].pc = "checked" => callback[n].verdict # "failure"
  BY <1>1 DEF VerdictInv
<1>3. /\ ~SuccessFails /\ ~SuccessChecks /\ ~AskingEnds
      /\ ~\E i \in DOMAIN sending : SuccessSaves(i)
  BY <1>1, AskingIsReported
<1>4. asks = 0 /\ asking = 0 /\ ~lost /\ sending = <<>> /\ queued = 0
  BY <1>1 DEF Reported, TypeOK
\* Unless a verdict is given
<1>5. ASSUME UNCHANGED <<queued, sending, reports, files_missing>>,
             failed' => failed \/ Lost',
             \A n \in Nodes : callback'[n].pc = "checked" =>
               callback'[n].verdict = "none" \/ callback'[n] = callback[n]
      PROVE  VerdictInv'
  <2>1. ~Reported'
    BY <1>1, <1>5 DEF Reported
  <2>2. failed' => Lost' \/ files_missing'
    BY <1>1, <1>5, LostStays
  <2>3. \A n \in Nodes : callback'[n].pc = "checked" => callback'[n].verdict # "failure"
    BY <1>2, <1>5
  <2> QED
    BY <1>4, <1>5, <2>1, <2>2, <2>3 DEF VerdictInv
<1>6. ASSUME NEW n \in Nodes, NEW a \in Addons, StatFails(n, a)
      PROVE  VerdictInv'
  <2>1. /\ target[n][a] = "INITIATED" /\ <<n, a>> \notin copies
        /\ callback[n].pc = "idle" /\ task = NoTask
    BY <1>6 DEF StatFails, NextInChain, Unvisited, AnswersInv, AnswerInv
  <2>2. /\ target'[n][a] \in {"INITIATED", "NETWORK_ERROR"} /\ unarchived' = {}
        /\ UNCHANGED <<copies, callback, task>>
    BY <1>6, <2>1 DEF StatFails, TypeOK
  <2>3. Lost'
    BY <2>1, <2>2 DEF Lost, Answering, Marking, Unvisited, NoTask, Finished
  <2> QED
    BY <1>5, <1>6, <2>3 DEF StatFails
<1>7. ASSUME NEW n \in Nodes, SizeExceeded(n)
      PROVE  VerdictInv'
  <2>1. PICK a \in Addons : TRUE
    BY AddonsAssumption
  <2>2. /\ target[n][a] = "INITIATED" /\ <<n, a>> \notin copies
        /\ callback[n].pc = "idle" /\ task = NoTask
    BY <1>7 DEF SizeExceeded, NextInChain, Unvisited, AnswersInv, AnswerInv
  <2>3. unarchived' = {} /\ UNCHANGED <<target, copies, callback, task>>
    BY <1>7 DEF SizeExceeded
  <2>4. Lost'
    BY <2>2, <2>3 DEF Lost, Answering, Marking, Unvisited, NoTask, Finished
  <2> QED
    BY <1>5, <1>7, <2>4 DEF SizeExceeded
<1>8. ASSUME NEW n \in Nodes, NEW a \in Addons,
             CopyRefused(n, a) \/ CallbackExpired(n, a)
      PROVE  VerdictInv'
  <2>1. /\ <<n, a>> \in copies /\ copies' = copies \ {<<n, a>>}
        /\ UNCHANGED <<target, unarchived, task, callback, queued, sending, reports,
                       files_missing>>
    BY <1>8 DEF CopyRefused, CallbackExpired
  <2>2. /\ target[n][a] = "INITIATED" /\ ~Answering(n, a) /\ ~Marking(n, a)
        /\ ~Unvisited(n)
    BY <2>1 DEF AnswersInv, AnswerInv
  <2>3. Lost'
    BY <2>1, <2>2 DEF Lost, Answering, Marking, Unvisited, Finished
  <2> QED
    BY <1>5, <2>1, <2>3
<1>9. CASE Signal
  <2>1. ~Reported' /\ (failed' => failed)
    BY <1>1, <1>9, SignalVerdict
  <2>2. UNCHANGED <<callback, sending, reports, files_missing>>
    BY <1>9 DEF Signal
  <2>3. queued' = queued
    BY <1>4, <1>9, <2>1 DEF Reported, Signal, Queue
  <2> QED
    BY <1>5, <2>1, <2>2, <2>3
<1>10. ASSUME NEW n \in Nodes, CallbackCommits(n)
       PROVE  VerdictInv'
  <2>1. UNCHANGED <<queued, sending, reports, files_missing>> /\ failed' = failed
    BY <1>2, <1>10 DEF CallbackCommits, HandleFail, TypeOK
  <2> QED
    BY <1>5, <1>10, <2>1, Committed
<1>11. ASSUME NEW n \in Nodes, CallbackChecks(n)
       PROVE  VerdictInv'
  <2> DEFINE verdict == Verdict(SeenTargets(n), SeenJobs(n))
  <2>1. /\ callback[n].pc = "saved" /\ UNCHANGED <<target, job, sending, reports, failed, files_missing>>
        /\ queued' = IF verdict = "success" THEN queued + 1 ELSE queued
    BY <1>11 DEF CallbackChecks, Queue
  <2>2. /\ callback'[n].pc = "checked" /\ callback'[n].verdict = verdict
        /\ callback'[n].addon = callback[n].addon
        /\ callback'[n].outcome = callback[n].outcome
        /\ callback'[n].rows = callback[n].rows
        /\ \A m \in Nodes \ {n} : callback'[m] = callback[m]
    BY <1>11 DEF CallbackChecks, TypeOK
  <2>3. CASE verdict = "none"
    BY <1>5, <2>1, <2>2, <2>3
  <2>4. CASE verdict # "none"
    <3>1. TreeFinished(SeenTargets(n)) /\ ~SeenJobs(n)[Root].sent
      BY <2>4, Verdicts
    <3>2. \A m \in Nodes, a \in Addons : SeenTargets(n)[m][a] \in Finished
      BY <3>1 DEF TreeFinished, Pending
    <3>3. \A m \in Nodes \ {n} : callback[m].pc = "idle"
      <4> SUFFICES ASSUME NEW m \in Nodes \ {n}, callback[m].pc # "idle" PROVE FALSE
        OBVIOUS
      <4>1. callback[m].addon \in Addons /\ Answering(m, callback[m].addon)
        BY CallbackTypes DEF Answering
      <4>2. target[m][callback[m].addon] = "INITIATED"
        BY <4>1 DEF AnswersInv, AnswerInv
      <4>3. SeenTargets(n)[m] = target[m]
        BY <2>1, SeenTypes
      <4> QED
        BY <3>2, <4>1, <4>2, <4>3 DEF Finished
    <3>4. Final'
      <4>1. Decided'[n] = SeenTargets(n)[n]
        BY <2>1, <2>2 DEF Decided, SeenTargets, TypeOK
      <4>2. \A m \in Nodes \ {n} : Decided'[m] = SeenTargets(n)[m]
        BY <2>1, <2>2, <3>3, SeenTypes DEF Decided
      <4> QED
        BY <3>2, <4>1, <4>2 DEF Final
    <3>5. RootRows' = {SeenJobs(n)[Root]}
      <4>1. \A m \in Nodes \ {n} : ~WritesRoot(m)'
        BY <2>2, <3>3 DEF WritesRoot
      <4>2. WritesRoot(n)' <=> Root \in DOMAIN callback[n].rows
        BY <2>2 DEF WritesRoot
      <4>3. SeenJobs(n)[Root] = IF Root \in DOMAIN callback[n].rows
                                THEN callback[n].rows[Root] ELSE job[Root]
        BY TreeAssumption DEF SeenJobs
      <4>4. CASE Root \in DOMAIN callback[n].rows
        BY <2>2, <4>1, <4>2, <4>3, <4>4 DEF RootRows
      <4>5. CASE Root \notin DOMAIN callback[n].rows
        BY <2>1, <4>1, <4>2, <4>3, <4>5 DEF RootRows
      <4> QED
        BY <4>4, <4>5
    <3>6. ~Lost
      <4>1. \A m \in Nodes, a \in Addons :
              ~Answering(m, a) => SeenTargets(n)[m][a] = target[m][a]
        BY <2>1, SeenTypes DEF Answering
      <4> QED
        BY <3>2, <4>1 DEF Lost
    <3>7. CASE verdict = "success"
      <4>1. \A r \in RootRows' : r.sent \/ r.status = "SUCCESS"
        BY <3>5, <3>7, Verdicts
      <4>2. \A m \in Nodes : callback'[m].pc = "checked" => callback'[m].verdict # "failure"
        BY <1>2, <2>2, <3>7
      <4> QED
        BY <1>1, <1>4, <2>1, <3>4, <3>6, <4>1, <4>2 DEF VerdictInv
    <3>8. CASE verdict = "failure"
      <4>1. \A r \in RootRows' : r.status # "SUCCESS"
        BY <3>5, <3>8, Verdicts
      <4>2. ~Reported'
        BY <1>1, <2>1, <3>8 DEF Reported
      <4>3. FoundFailed'
        BY <3>4, <4>1, <4>2 DEF FoundFailed
      <4> QED
        BY <1>4, <2>1, <4>2, <4>3 DEF VerdictInv
    <3> QED
      BY <2>4, <3>7, <3>8, Verdicts
  <2> QED
    BY <2>3, <2>4
<1>12. ASSUME \/ UpdateEmpty
              \/ \E n \in Nodes : \/ CallbackSaves(n)
                                  \/ \E empty \in SUBSET Addons : ArchiveNode(n, empty)
                                  \/ \E a \in Addons, outcome \in Finished :
                                       CallbackLoads(n, a, outcome)
              \/ UNCHANGED vars
       PROVE  VerdictInv'
  <2>1. UNCHANGED <<queued, sending, reports, failed, files_missing>>
    BY <1>12 DEF UpdateEmpty, CallbackSaves, ArchiveNode, CallbackLoads, vars
  <2>2. \A n \in Nodes : callback'[n].pc = "checked" => callback'[n] = callback[n]
    <3>1. CASE UNCHANGED callback
      BY <3>1
    <3>2. ASSUME NEW m \in Nodes, NEW open, open.pc # "checked",
                 callback' = [callback EXCEPT ![m] = open], NEW n \in Nodes,
                 callback'[n].pc = "checked"
          PROVE  callback'[n] = callback[n]
      BY <3>2 DEF TypeOK
    <3>3. ASSUME NEW m \in Nodes,
                 \/ CallbackSaves(m)
                 \/ \E a \in Addons, outcome \in Finished : CallbackLoads(m, a, outcome)
          PROVE  \E open : open.pc # "checked" /\ callback' = [callback EXCEPT ![m] = open]
      BY <3>3 DEF CallbackSaves, CallbackLoads
    <3> QED
      BY <1>12, <3>1, <3>2, <3>3 DEF UpdateEmpty, ArchiveNode, vars
  <2> QED
    BY <1>5, <2>1, <2>2
<1> QED
  BY <1>3, <1>6, <1>7, <1>8, <1>9, <1>10, <1>11, <1>12
     DEF Next, Chain, Copy, Callback, Success, AskingEnds

-----------------------------------------------------------------------------
(* The theorems.                                                           *)

\* The strengthening of the three properties below is an invariant.
THEOREM Safety == Spec => []ArchiveInv
<1>1. Init => ArchiveInv
  <2> SUFFICES ASSUME Init PROVE AnswersInv /\ RowsAreSound /\ VerdictInv /\ TypeOK
    BY DEF ArchiveInv
  <2>1. \A n \in Nodes : /\ callback[n] = Idle /\ job[n].status = "INITIATED"
                         /\ \A a \in Addons : target[n][a] = "INITIATED"
    BY DEF Init
  <2>2. /\ task = NoTask /\ copies = {} /\ queued = 0 /\ sending = <<>>
        /\ asking = 0 /\ asks = 0 /\ lost = FALSE /\ failed = FALSE
    BY DEF Init
  <2>3. AnswersInv
    BY <2>1, <2>2 DEF AnswersInv, AnswerInv, Answering, Marking, Unvisited, NoTask,
                      Idle
  <2>4. RowsAreSound
    BY <2>1, <2>2 DEF RowsAreSound, SuccessIsSound, Idle
  <2>5. VerdictInv
    BY <2>1, <2>2 DEF VerdictInv, Reported, Idle
  <2>6. TypeOK
    <3>1. sending \in Seq(Jobs)
      BY <2>2
    <3> QED
      BY <3>1 DEF Init, TypeOK, Statuses, Jobs, NoTask, Transactions
  <2> QED
    BY <2>3, <2>4, <2>5, <2>6
<1>2. TypeOK /\ TypeOK' /\ ArchiveInv /\ [Next]_vars => ArchiveInv'
  <2> SUFFICES ASSUME TypeOK, TypeOK', ArchiveInv, [Next]_vars PROVE ArchiveInv'
    OBVIOUS
  <2>1. AnswersInv /\ RowsAreSound /\ VerdictInv
    BY DEF ArchiveInv
  <2>2. AnswersInv' /\ TargetsStay
    BY <2>1, AnswersStep
  <2>3. RowsAreSound'
    BY <2>1, <2>2, SoundStep
  <2>4. VerdictInv'
    BY <2>1, FinalVerdicts, OpenVerdicts
  <2> QED
    BY <2>2, <2>3, <2>4 DEF ArchiveInv
<1> QED
  BY <1>1, <1>2, Typing, PTL DEF Spec

\* handle_archive_success is called only for a tree that is finished, but for
\* commits, however callbacks and tasks overlap.
THEOREM AskedAtTheEnd == Spec => []AskedWhenFinished
<1>1. ArchiveInv => AskedWhenFinished
  BY DEF ArchiveInv, VerdictInv, Reported, Final, AskedWhenFinished, TypeOK
<1> QED
  BY <1>1, Safety, PTL

\* archive_callback, archive_fail and archive_success between them never both
\* submit a registration to its admins and fail it.
THEOREM VerdictIsOne == Spec => []OneVerdict
<1>1. ArchiveInv => OneVerdict
  <2> SUFFICES ASSUME ArchiveInv, asks > 0, failed PROVE FALSE
    BY DEF OneVerdict
  <2>1. Reported /\ Final /\ ~files_missing
    BY DEF ArchiveInv, VerdictInv, Reported
  <2>2. ~Lost
    BY <2>1, Answered DEF ArchiveInv
  <2> QED
    BY <2>1, <2>2 DEF ArchiveInv, VerdictInv, FoundFailed
<1> QED
  BY <1>1, Safety, PTL

\* _post_update_target gives a job SUCCESS only when all its targets have it,
\* and no stale row gives it back.
THEOREM SuccessfulJobs == Spec => []SuccessIsSound
<1>1. ArchiveInv => SuccessIsSound
  BY DEF ArchiveInv, RowsAreSound
<1> QED
  BY <1>1, Safety, PTL

-----------------------------------------------------------------------------
(* Trees without grandchildren, when requests and tasks do not overlap.    *)

FlatTree == \A n \in Nodes \ {Root} : Parent[n] = Root

\* What MayStart keeps apart.
Exclusive ==
  /\ task # NoTask =>
       sending = <<>> /\ asking = 0 /\ \A n \in Nodes : callback[n] = Idle
  /\ sending # <<>> \/ asking > 0 => \A n \in Nodes : callback[n] = Idle
  /\ \A m, n \in Nodes : callback[m] # Idle /\ callback[n] # Idle => m = n

\* The rows that were loaded are the committed ones.
RowsAreCurrent ==
  /\ task.pc = "updating" => task.own = job[task.node]
  /\ \A n \in Nodes :
       /\ callback[n].pc = "loaded" =>
            callback[n].own = job[n] /\ callback[n].above = Above(n)
       /\ callback[n].pc \in {"saved", "checked"} =>
            callback[n].rows = PostUpdate(n, job[n], Above(n), SeenTargets(n))
  /\ \A i \in DOMAIN sending : /\ sending[i].status = job[Root].status
                               /\ sending[i].done = job[Root].done

\* What failed, a job or a target of a finished job, has failed the root's job.
Reaches(targets, jobs) ==
  \A n \in Nodes :
    \/ jobs[n].status = "FAILURE"
    \/ ~Pending(n, targets) /\ \E a \in Addons : targets[n][a] \in FailureStatuses
    => jobs[Root].status = "FAILURE"

AllSucceeded == \A n \in Nodes, a \in Addons : Decided[n][a] = "SUCCESS"

\* The inductive invariant, relative to ArchiveInv.
CompleteInv ==
  /\ Exclusive
  /\ RowsAreCurrent
  /\ Reaches(target, job)
  /\ Reported => AllSucceeded

\* _post_update_target and _fail_above bring a failure to the root, which keeps
\* it: a job in FAILURE saves nothing more.
LEMMA PostUpdateReaches ==
  ASSUME FlatTree, NEW n \in Nodes, NEW jobs \in [Nodes -> Jobs],
         NEW before, NEW seen,
         \A m \in Nodes \ {n} : seen[m] = before[m],
         Reaches(before, jobs),
         NEW after,
         after = [m \in Nodes |->
                    IF m \in DOMAIN PostUpdate(n, jobs[n], jobs[Root], seen)
                    THEN PostUpdate(n, jobs[n], jobs[Root], seen)[m]
                    ELSE jobs[m]]
  PROVE  Reaches(seen, after)
<1> DEFINE failing == \E a \in Addons : seen[n][a] \in FailureStatuses
           closed  == [jobs[n] EXCEPT !.done = TRUE,
                                      !.status = IF failing THEN "FAILURE" ELSE "SUCCESS"]
           saved   == IF failing THEN {n} \cup ParentOf(n) ELSE {n}
           rows    == [m \in saved |-> IF m = n THEN closed
                                       ELSE [jobs[Root] EXCEPT !.status = "FAILURE"]]
<1>1. \A m \in Nodes \ {n} :
        Pending(m, seen) = Pending(m, before)
  BY DEF Pending
<1>2. CASE jobs[n].status = "FAILURE" \/ Pending(n, seen)
  <2>1. after = jobs
    <3>1. PostUpdate(n, jobs[n], jobs[Root], seen) = <<>>
      BY <1>2 DEF PostUpdate
    <3> QED
      BY <3>1
  <2> QED
    BY <1>1, <1>2, <2>1 DEF Reaches
<1>3. CASE ~(jobs[n].status = "FAILURE" \/ Pending(n, seen))
  <2>1. after = [m \in Nodes |-> IF m \in saved THEN rows[m] ELSE jobs[m]]
    <3>1. PostUpdate(n, jobs[n], jobs[Root], seen) = rows
      BY <1>3 DEF PostUpdate
    <3> QED
      BY <3>1
  <2>2. closed.status = IF failing THEN "FAILURE" ELSE "SUCCESS"
    BY DEF Jobs
  <2>3. n \in saved /\ (failing => Root \in saved)
    BY DEF ParentOf, FlatTree
  <2>4. CASE failing
    <3>1. rows[Root].status = "FAILURE"
      BY <2>2, <2>3, <2>4, TreeAssumption DEF Jobs
    <3> QED
      BY <2>1, <2>3, <2>4, <3>1, TreeAssumption DEF Reaches
  <2>5. CASE ~failing
    <3>1. after = [m \in Nodes |-> IF m = n THEN closed ELSE jobs[m]]
      BY <2>1, <2>5
    <3> HIDE DEF failing, closed, saved, rows
    <3>2. \A m \in Nodes \ {n} :
            \/ after[m].status = "FAILURE"
            \/ ~Pending(m, seen) /\ \E a \in Addons : seen[m][a] \in FailureStatuses
            => jobs[Root].status = "FAILURE"
      BY <1>1, <3>1 DEF Reaches
    <3>3. after[n].status # "FAILURE" /\ ~failing
      BY <2>2, <2>5, <3>1
    <3>4. after[Root].status = "FAILURE" \/ jobs[Root].status # "FAILURE"
      BY <1>3, <3>1, TreeAssumption
    <3> QED
      BY <3>2, <3>3, <3>4 DEF Reaches, failing
  <2> QED
    BY <2>4, <2>5
<1> QED
  BY <1>2, <1>3

\* Above the root's children there is only the root.
LEMMA AboveIsRoot ==
  ASSUME FlatTree, NEW n \in Nodes
  PROVE  Above(n) = job[Root]
BY DEF FlatTree, Above

\* Nothing else goes on when a request or a task begins, nor while it lasts.
LEMMA ExclusiveStep ==
  ASSUME ~Concurrent, TypeOK, Exclusive, [Next]_vars
  PROVE  Exclusive'
<1>1. CASE UNCHANGED <<task, sending, asking, callback>>
  BY <1>1 DEF Exclusive
<1>2. ASSUME NEW n \in Nodes, NEW empty, ArchiveNode(n, empty)
      PROVE  Exclusive'
  BY <1>2 DEF ArchiveNode, MayStart, Exclusive
<1>3. CASE UpdateEmpty \/ Signal
  BY <1>3 DEF UpdateEmpty, Signal, Exclusive, NoTask
<1>4. ASSUME NEW n \in Nodes, NEW open, callback' = [callback EXCEPT ![n] = open],
             UNCHANGED <<task, sending, asking>>, task = NoTask,
             sending = <<>>, asking = 0,
             \A m \in Nodes \ {n} : callback[m] = Idle
      PROVE  Exclusive'
  BY <1>4 DEF TypeOK, Exclusive
<1>5. ASSUME NEW n \in Nodes, NEW a, NEW outcome, CallbackLoads(n, a, outcome)
      PROVE  Exclusive'
  BY <1>4, <1>5 DEF CallbackLoads, MayStart
<1>6. ASSUME NEW n \in Nodes, Callback(n)
      PROVE  Exclusive'
  <2>1. callback[n] # Idle
    BY <1>6 DEF Callback, CallbackSaves, CallbackChecks, CallbackCommits, Idle
  <2>2. /\ task = NoTask /\ sending = <<>> /\ asking = 0
        /\ \A m \in Nodes \ {n} : callback[m] = Idle
    BY <2>1 DEF Exclusive, TypeOK
  <2> QED
    BY <1>4, <1>6, <2>2
    DEF Callback, CallbackSaves, CallbackChecks, CallbackCommits
<1>7. CASE SuccessChecks
  BY <1>7 DEF SuccessChecks, MayStart, Exclusive
<1>8. ASSUME NEW i \in DOMAIN sending, SuccessSaves(i)
      PROVE  Exclusive'
  BY <1>8 DEF SuccessSaves, Exclusive
<1>9. CASE AskingEnds
  BY <1>9, AskingEndsSteps DEF Exclusive
<1> QED
  BY <1>1, <1>2, <1>3, <1>5, <1>6, <1>7, <1>8, <1>9
  DEF Next, Chain, Copy, Success, StatFails, SizeExceeded, CopyRefused,
      CallbackExpired, SuccessFails, AskingEnds, vars

\* What an open callback sees when it checks the tree, and commits.
LEMMA SeenReaches ==
  ASSUME FlatTree, TypeOK, RowsAreCurrent, Reaches(target, job), NEW n \in Nodes,
         callback[n].pc \in {"saved", "checked"}
  PROVE  Reaches(SeenTargets(n), SeenJobs(n))
<1> DEFINE rows == PostUpdate(n, job[n], job[Root], SeenTargets(n))
<1>1. callback[n].rows = rows
  BY AboveIsRoot DEF RowsAreCurrent
<1>2. SeenJobs(n) = [m \in Nodes |-> IF m \in DOMAIN rows THEN rows[m] ELSE job[m]]
  BY <1>1 DEF SeenJobs
<1> HIDE DEF rows
<1>3. \A m \in Nodes \ {n} : SeenTargets(n)[m] = target[m]
  BY SeenTypes
<1> QED
  BY <1>2, <1>3, PostUpdateReaches DEF TypeOK, rows

\* The rows that archive_node saves for the addons without files.
LEMMA EmptyReaches ==
  ASSUME FlatTree, TypeOK, RowsAreCurrent, Reaches(target, job), UpdateEmpty
  PROVE  Reaches(target', job')
<1> DEFINE n    == task.node
           rows == PostUpdate(n, job[n], job[Root], target')
<1>1. n \in Nodes /\ task.pc = "updating" /\ task.own = job[n]
  BY DEF UpdateEmpty, TypeOK, NoTask, RowsAreCurrent
<1>2. /\ \A m \in Nodes \ {n} : target'[m] = target[m]
      /\ task.empty = {} => \A a \in Addons : target'[n][a] = target[n][a]
  BY <1>1 DEF UpdateEmpty, TypeOK
<1>3. CASE task.empty = {}
  <2>1. job' = job
    BY <1>3 DEF UpdateEmpty, TypeOK
  <2>2. \A m \in Nodes, a \in Addons : target'[m][a] = target[m][a]
    BY <1>2, <1>3
  <2> QED
    BY <2>1, <2>2 DEF Reaches, Pending
<1>4. CASE task.empty # {}
  <2>1. job' = [m \in Nodes |-> IF m \in DOMAIN rows THEN rows[m] ELSE job[m]]
    BY <1>1, <1>4, AboveIsRoot DEF UpdateEmpty
  <2> HIDE DEF rows
  <2> QED
    BY <1>1, <1>2, <2>1, PostUpdateReaches DEF TypeOK, rows
<1> QED
  BY <1>3, <1>4

\* A step that leaves the targets but for a network error, and the status of
\* the jobs, leaves what has reached the root.
LEMMA ReachesStays ==
  ASSUME TypeOK, Reaches(target, job),
         \A m \in Nodes : job'[m].status = job[m].status,
         \/ target' = target
         \/ \E m \in Nodes, a \in Addons :
              target' = [target EXCEPT ![m][a] = "NETWORK_ERROR"]
  PROVE  Reaches(target', job')
<1>1. CASE target' = target
  BY <1>1, TreeAssumption DEF Reaches
<1>2. ASSUME NEW m \in Nodes, NEW a \in Addons,
             target' = [target EXCEPT ![m][a] = "NETWORK_ERROR"]
      PROVE  Reaches(target', job')
  <2>1. target'[m][a] = "NETWORK_ERROR"
    BY <1>2 DEF TypeOK
  <2>2. Pending(m, target')
    BY <2>1 DEF Pending, Finished
  <2>3. \A k \in Nodes \ {m} : target'[k] = target[k]
    BY <1>2 DEF TypeOK
  <2> QED
    BY <2>2, <2>3, TreeAssumption DEF Reaches, Pending
<1> QED
  BY <1>1, <1>2

\* archive_success saves the row it loaded over the same row.
LEMMA AskingKeepsRow ==
  ASSUME TypeOK, RowsAreCurrent, NEW i \in DOMAIN sending, SuccessSaves(i)
  PROVE  \A n \in Nodes : /\ job'[n].status = job[n].status
                          /\ job'[n].done = job[n].done
<1>1. sending[i] \in Jobs /\ job \in [Nodes -> Jobs]
  BY DEF TypeOK
<1>2. job' = [job EXCEPT ![Root] = [sending[i] EXCEPT !.sent = TRUE]]
  BY DEF SuccessSaves
<1>3. sending[i].status = job[Root].status /\ sending[i].done = job[Root].done
  BY DEF RowsAreCurrent
<1> QED
  BY <1>1, <1>2, <1>3, TreeAssumption DEF Jobs

\* Nothing else writes between the load of a row and its commit.
LEMMA CurrentStep ==
  ASSUME ~Concurrent, TypeOK, TypeOK', Exclusive, RowsAreCurrent, [Next]_vars
  PROVE  RowsAreCurrent'
<1> DEFINE Quiet == task = NoTask /\ sending = <<>> /\ \A n \in Nodes : callback[n] = Idle
<1>1. ASSUME Quiet, UNCHANGED <<task, sending, callback>> PROVE RowsAreCurrent'
  BY <1>1 DEF RowsAreCurrent, NoTask, Idle
<1>2. ASSUME \/ \E n \in Nodes :
                  \/ SizeExceeded(n)
                  \/ \E a \in Addons : \/ StatFails(n, a) \/ CopyRefused(n, a)
                                       \/ CallbackExpired(n, a)
             \/ SuccessFails
      PROVE  RowsAreCurrent'
  BY <1>1, <1>2
  DEF SizeExceeded, StatFails, CopyRefused, CallbackExpired, SuccessFails, MayStart
<1>3. ASSUME NEW n \in Nodes, NEW empty, ArchiveNode(n, empty)
      PROVE  RowsAreCurrent'
  BY <1>3 DEF ArchiveNode, MayStart, RowsAreCurrent, Idle
<1>4. CASE UpdateEmpty
  <2>1. sending = <<>> /\ \A n \in Nodes : callback[n] = Idle
    BY <1>4 DEF UpdateEmpty, Exclusive, NoTask
  <2> QED
    BY <1>4, <2>1 DEF UpdateEmpty, RowsAreCurrent, Idle
<1>5. CASE Signal
  <2>1. sending = <<>> /\ \A n \in Nodes : callback[n] = Idle
    BY <1>5 DEF Signal, Exclusive, NoTask
  <2> QED
    BY <1>5, <2>1 DEF Signal, RowsAreCurrent, Idle, NoTask
<1>6. ASSUME NEW n \in Nodes, NEW a \in Addons, NEW outcome \in Finished,
             CallbackLoads(n, a, outcome)
      PROVE  RowsAreCurrent'
  <2>1. Quiet /\ UNCHANGED <<job, task, sending>>
    BY <1>6 DEF CallbackLoads, MayStart
  <2>2. /\ \A m \in Nodes \ {n} : callback'[m] = Idle
        /\ callback'[n].pc = "loaded"
        /\ callback'[n].own = job[n] /\ callback'[n].above = Above(n)
    BY <1>6, <2>1 DEF CallbackLoads, TypeOK
  <2>3. Above(n)' = Above(n)
    BY <2>1 DEF Above
  <2> QED
    BY <2>1, <2>2, <2>3 DEF RowsAreCurrent, Idle, NoTask
<1>7. ASSUME NEW n \in Nodes, CallbackSaves(n) \/ CallbackChecks(n)
      PROVE  RowsAreCurrent'
  <2>1. UNCHANGED <<target, job, task, sending>>
    BY <1>7 DEF CallbackSaves, CallbackChecks
  <2>2. /\ task = NoTask /\ sending = <<>>
        /\ \A m \in Nodes \ {n} : callback'[m] = Idle
    BY <1>7 DEF CallbackSaves, CallbackChecks, Exclusive, Idle, TypeOK
  <2>3. /\ callback'[n].pc \in {"saved", "checked"}
        /\ callback'[n].addon = callback[n].addon
        /\ callback'[n].outcome = callback[n].outcome
        /\ callback'[n].rows = PostUpdate(n, job[n], Above(n), SeenTargets(n))
    BY <1>7 DEF CallbackSaves, CallbackChecks, RowsAreCurrent, TypeOK
  <2>4. SeenTargets(n)' = SeenTargets(n) /\ Above(n)' = Above(n)
    BY <2>1, <2>3 DEF SeenTargets, Above
  <2>5. PostUpdate(n, job[n], Above(n), SeenTargets(n))'
          = PostUpdate(n, job[n], Above(n), SeenTargets(n))
    BY <2>1, <2>4 DEF PostUpdate, Pending
  <2> QED
    BY <2>1, <2>2, <2>3, <2>5 DEF RowsAreCurrent, Idle, NoTask
<1>8. ASSUME NEW n \in Nodes, CallbackCommits(n)
      PROVE  RowsAreCurrent'
  <2>1. task = NoTask /\ sending = <<>> /\ UNCHANGED <<task, sending>>
    BY <1>8 DEF CallbackCommits, Exclusive, Idle
  <2>2. \A m \in Nodes : callback'[m] = Idle
    BY <1>8 DEF CallbackCommits, Exclusive, Idle, TypeOK
  <2> QED
    BY <2>1, <2>2 DEF RowsAreCurrent, Idle, NoTask
<1>9. CASE SuccessChecks
  <2>1. Quiet /\ UNCHANGED <<job, task, callback>>
    BY <1>9 DEF SuccessChecks, MayStart
  <2>2. sending' = <<>> \/ sending' = Append(<<>>, job[Root])
    BY <1>9, <2>1 DEF SuccessChecks
  <2>3. \A i \in DOMAIN sending' : sending'[i] = job[Root]
    BY <2>2
  <2> QED
    BY <2>1, <2>3 DEF RowsAreCurrent, Idle, NoTask
<1>10. ASSUME NEW i \in DOMAIN sending, SuccessSaves(i)
       PROVE  RowsAreCurrent'
  <2>1. task = NoTask /\ \A n \in Nodes : callback[n] = Idle
    BY <1>10 DEF Exclusive
  <2>2. /\ job'[Root].status = job[Root].status
        /\ job'[Root].done = job[Root].done
    BY <1>10, AskingKeepsRow, TreeAssumption
  <2>3. \A k \in DOMAIN sending' : /\ sending'[k].status = job[Root].status
                                  /\ sending'[k].done = job[Root].done
    BY <1>10, RemovedRow DEF SuccessSaves, RowsAreCurrent, TypeOK
  <2>4. UNCHANGED <<task, callback>>
    BY <1>10 DEF SuccessSaves
  <2> QED
    BY <2>1, <2>2, <2>3, <2>4 DEF RowsAreCurrent, Idle, NoTask
<1>11. CASE UNCHANGED vars
  <2>1. \A n \in Nodes :
          PostUpdate(n, job[n], Above(n), SeenTargets(n))'
            = PostUpdate(n, job[n], Above(n), SeenTargets(n))
    BY <1>11 DEF vars, PostUpdate, Pending, Above, SeenTargets
  <2>2. \A n \in Nodes : Above(n)' = Above(n)
    BY <1>11 DEF vars, Above
  <2> QED
    BY <1>11, <2>1, <2>2 DEF vars, RowsAreCurrent
<1>12. CASE AskingEnds
  <2>1. task = NoTask /\ \A n \in Nodes : callback[n] = Idle
    BY <1>12, AskingEndsSteps DEF Exclusive
  <2>2. UNCHANGED <<task, sending, callback>>
    BY <1>12, AskingEndsSteps
  <2>3. /\ job'[Root].status = job[Root].status
        /\ job'[Root].done = job[Root].done
    BY <1>12, AskingEndsSteps, FailKeepsJobs, TreeAssumption
  <2> QED
    BY <2>1, <2>2, <2>3 DEF RowsAreCurrent, Idle, NoTask
<1> QED
  BY <1>2, <1>3, <1>4, <1>5, <1>6, <1>7, <1>8, <1>9, <1>10, <1>11, <1>12
  DEF Next, Chain, Copy, Callback, Success, AskingEnds

\* What fails, at whatever step, fails the root's job with it.
LEMMA ReachesStep ==
  ASSUME FlatTree, TypeOK, RowsAreCurrent, Reaches(target, job), [Next]_vars
  PROVE  Reaches(target', job')
<1>1. ASSUME ArchiveFail \/ UNCHANGED <<job, failed>>,
             \/ target' = target
             \/ \E m \in Nodes, a \in Addons :
                  target' = [target EXCEPT ![m][a] = "NETWORK_ERROR"]
      PROVE  Reaches(target', job')
  BY <1>1, FailKeepsJobs, ReachesStays
<1>2. ASSUME \/ \E n \in Nodes :
                  \/ SizeExceeded(n)
                  \/ \E a \in Addons : \/ StatFails(n, a) \/ CopyRefused(n, a)
                                       \/ CallbackExpired(n, a)
             \/ SuccessFails
      PROVE  Reaches(target', job')
  BY <1>1, <1>2, OnFailureFails
  DEF SizeExceeded, StatFails, CopyRefused, CallbackExpired, SuccessFails
<1>3. CASE UNCHANGED <<target, job>>
  BY <1>3 DEF Reaches
<1>4. CASE UpdateEmpty
  BY <1>4, EmptyReaches
<1>5. ASSUME NEW n \in Nodes, CallbackCommits(n)
      PROVE  Reaches(target', job')
  BY <1>5, SeenReaches DEF CallbackCommits
<1>6. ASSUME NEW i \in DOMAIN sending, SuccessSaves(i)
      PROVE  Reaches(target', job')
  <2>1. \A n \in Nodes : job'[n].status = job[n].status
    BY <1>6, AskingKeepsRow
  <2> QED
    BY <1>6, <2>1, ReachesStays DEF SuccessSaves
<1>7. CASE AskingEnds
  BY <1>1, <1>7, AskingEndsSteps
<1> QED
  BY <1>2, <1>3, <1>4, <1>5, <1>6, <1>7
  DEF Next, Chain, Copy, Callback, Success, ArchiveNode, Signal, CallbackLoads,
      CallbackSaves, CallbackChecks, SuccessChecks, AskingEnds, vars

\* A verdict of success, with nothing failed that has not failed the root
LEMMA SuccessIsOfAll ==
  ASSUME NEW targets, NEW jobs, Verdict(targets, jobs) = "success",
         Reaches(targets, jobs)
  PROVE  \A n \in Nodes, a \in Addons : targets[n][a] = "SUCCESS"
<1>1. TreeFinished(targets) /\ jobs[Root].status = "SUCCESS"
  BY Verdicts
<1>2. \A n \in Nodes : ~Pending(n, targets)
  BY <1>1 DEF TreeFinished
<1>3. \A n \in Nodes, a \in Addons : targets[n][a] \notin FailureStatuses
  BY <1>1, <1>2 DEF Reaches
<1> QED
  BY <1>2, <1>3 DEF Pending, Finished, FailureStatuses

\* What starts the task that asks the admins.
LEMMA NewReport ==
  ASSUME TypeOK, [Next]_vars, ~Reported, Reported'
  PROVE  \/ Signal /\ Verdict(target, job) = "success"
         \/ \E n \in Nodes : /\ CallbackChecks(n)
                             /\ Verdict(SeenTargets(n), SeenJobs(n)) = "success"
<1>1. ~UNCHANGED <<queued, sending, reports>>
  BY DEF Reported
<1>2. /\ ~SuccessFails /\ ~SuccessChecks /\ ~AskingEnds
      /\ ~\E i \in DOMAIN sending : SuccessSaves(i)
  BY AskingIsReported
<1>3. Signal \/ \E n \in Nodes : CallbackChecks(n)
  BY <1>1, <1>2
  DEF Next, Chain, Copy, Callback, Success, StatFails, SizeExceeded, ArchiveNode,
      UpdateEmpty, CopyRefused, CallbackLoads, CallbackExpired, CallbackSaves,
      CallbackCommits, AskingEnds, vars
<1>4. CASE Signal
  BY <1>1, <1>4 DEF Signal, Queue
<1>5. ASSUME NEW n \in Nodes, CallbackChecks(n)
      PROVE  Verdict(SeenTargets(n), SeenJobs(n)) = "success"
  BY <1>1, <1>5 DEF CallbackChecks, Queue
<1> QED
  BY <1>3, <1>4, <1>5

\* The admins are asked about what has all succeeded.
LEMMA CompleteStep ==
  ASSUME ~Concurrent, FlatTree, ArchiveInv, TypeOK', CompleteInv, [Next]_vars
  PROVE  CompleteInv'
<1>1. TypeOK /\ AnswersInv
  BY DEF ArchiveInv
<1>2. Exclusive'
  BY <1>1, ExclusiveStep DEF CompleteInv
<1>3. RowsAreCurrent' /\ Reaches(target', job')
  BY <1>1, CurrentStep, ReachesStep DEF CompleteInv
<1>4. CASE Reported
  <2>1. AllSucceeded /\ Final
    BY <1>4 DEF CompleteInv, AllSucceeded, Final, Finished
  <2>2. AllSucceeded'
    BY <1>1, <2>1, DecidedStay DEF AllSucceeded
  <2> QED
    BY <1>2, <1>3, <2>2 DEF CompleteInv
<1>5. ASSUME ~Reported, Signal, Verdict(target, job) = "success"
      PROVE  AllSucceeded'
  <2>1. \A n \in Nodes, a \in Addons : target[n][a] = "SUCCESS"
    BY <1>5, SuccessIsOfAll DEF CompleteInv
  <2>2. \A n \in Nodes : callback'[n].pc # "checked"
    BY <1>5 DEF Signal, CompleteInv, Exclusive, NoTask, Idle
  <2>3. target' = target
    BY <1>5 DEF Signal
  <2> QED
    BY <2>1, <2>2, <2>3, DecidedTargets, TreeAssumption DEF AllSucceeded, Decided
<1>6. ASSUME ~Reported, NEW n \in Nodes, CallbackChecks(n),
             Verdict(SeenTargets(n), SeenJobs(n)) = "success"
      PROVE  AllSucceeded'
  <2>1. callback[n].pc = "saved" /\ target' = target
    BY <1>6 DEF CallbackChecks
  <2>2. \A m \in Nodes, a \in Addons : SeenTargets(n)[m][a] = "SUCCESS"
    BY <1>1, <1>6, <2>1, SeenReaches, SuccessIsOfAll DEF CompleteInv
  <2>3. \A m \in Nodes \ {n} : callback'[m] = Idle
    BY <1>1, <1>6, <2>1
    DEF CallbackChecks, CompleteInv, Exclusive, Idle, TypeOK
  <2>4. /\ callback'[n].pc = "checked"
        /\ callback'[n].addon = callback[n].addon
        /\ callback'[n].outcome = callback[n].outcome
    BY <1>1, <1>6 DEF CallbackChecks, TypeOK
  <2>5. SeenTargets(n)' = SeenTargets(n)
    BY <2>1, <2>4 DEF SeenTargets
  <2>6. \A m \in Nodes \ {n} : SeenTargets(n)[m] = target[m]
    BY <1>1, <2>1, SeenTypes
  <2> QED
    BY <2>1, <2>2, <2>3, <2>4, <2>5, <2>6 DEF AllSucceeded, Decided, Idle
<1>7. CASE ~Reported
  BY <1>1, <1>2, <1>3, <1>5, <1>6, <1>7, NewReport DEF CompleteInv
<1> QED
  BY <1>4, <1>7

\* In a tree without grandchildren, and while nothing overlaps, archive_success
\* asks the admins about a complete archive only.  (A failure is passed on to
\* the parent alone, so a grandchild's does not reach the root's job.)
THEOREM AskedAboutAll == ~Concurrent /\ FlatTree => (Spec => []AskedWhenComplete)
<1> SUFFICES ASSUME ~Concurrent, FlatTree PROVE Spec => []AskedWhenComplete
  OBVIOUS
<1>1. Init => CompleteInv
  <2> SUFFICES ASSUME Init PROVE CompleteInv
    OBVIOUS
  <2>1. \A n \in Nodes : /\ callback[n] = Idle /\ job[n].status = "INITIATED"
                         /\ \A a \in Addons : target[n][a] = "INITIATED"
    BY DEF Init
  <2>2. /\ task = NoTask /\ queued = 0 /\ sending = <<>>
        /\ asking = 0 /\ asks = 0 /\ lost = FALSE
    BY DEF Init
  <2>3. Reaches(target, job)
    BY <2>1, AddonsAssumption DEF Reaches, Pending, Finished
  <2> QED
    BY <2>1, <2>2, <2>3
    DEF CompleteInv, Exclusive, RowsAreCurrent, Reported, NoTask, Idle
<1>2. ArchiveInv /\ TypeOK' /\ CompleteInv /\ [Next]_vars => CompleteInv'
  BY CompleteStep
<1>3. ArchiveInv /\ CompleteInv => AskedWhenComplete
  BY DEF CompleteInv, Reported, AllSucceeded, AskedWhenComplete
<1> QED
  BY <1>1, <1>2, <1>3, Typing, Safety, PTL DEF Spec

-----------------------------------------------------------------------------
(* The archive only goes forward, when requests and tasks do not overlap.   *)

\* The row that _post_update_target saves, and the one of _fail_above, keep done.
LEMMA PostUpdateDone ==
  ASSUME NEW n \in Nodes, job \in [Nodes -> Jobs], NEW seen,
         NEW m \in Nodes, m \in DOMAIN PostUpdate(n, job[n], Above(n), seen),
         job[m].done
  PROVE  PostUpdate(n, job[n], Above(n), seen)[m].done
<1> DEFINE failing == \E a \in Addons : seen[n][a] \in FailureStatuses
           closed  == [job[n] EXCEPT !.done = TRUE,
                                     !.status = IF failing THEN "FAILURE" ELSE "SUCCESS"]
           saved   == IF failing THEN {n} \cup ParentOf(n) ELSE {n}
<1>1. CASE job[n].status = "FAILURE" \/ Pending(n, seen)
  BY <1>1, NoRows DEF PostUpdate
<1>2. CASE ~(job[n].status = "FAILURE" \/ Pending(n, seen))
  <2>1. PostUpdate(n, job[n], Above(n), seen)
          = [k \in saved |-> IF k = n THEN closed
                             ELSE [Above(n) EXCEPT !.status = "FAILURE"]]
    BY <1>2 DEF PostUpdate
  <2>2. m \in saved
    BY <2>1
  <2>3. closed.done
    BY DEF Jobs
  <2>4. CASE m = n
    BY <2>1, <2>2, <2>3, <2>4
  <2>5. CASE m # n
    <3>1. Above(n) = job[m]
      BY <2>2, <2>5 DEF ParentOf, Above
    <3>2. [Above(n) EXCEPT !.status = "FAILURE"].done = job[m].done
      BY <3>1 DEF Jobs
    <3> QED
      BY <2>1, <2>2, <2>5, <3>2
  <2> QED
    BY <2>4, <2>5
<1> QED
  BY <1>1, <1>2

\* A job that is done is not reopened: the rows saved are current.
LEMMA DoneStays ==
  ASSUME TypeOK, RowsAreCurrent, NEW m \in Nodes, job[m].done, [Next]_vars
  PROVE  job'[m].done
<1>1. ASSUME ArchiveFail \/ UNCHANGED <<job, failed>> PROVE job'[m].done
  BY <1>1, TreeAssumption DEF ArchiveFail, TypeOK, Jobs
<1>2. ASSUME \/ \E n \in Nodes :
                  \/ SizeExceeded(n)
                  \/ \E a \in Addons : \/ StatFails(n, a) \/ CopyRefused(n, a)
                                       \/ CallbackExpired(n, a)
             \/ SuccessFails
      PROVE  job'[m].done
  BY <1>1, <1>2, OnFailureFails
  DEF SizeExceeded, StatFails, CopyRefused, CallbackExpired, SuccessFails
<1>3. CASE UNCHANGED job
  BY <1>3
<1>4. CASE UpdateEmpty
  <2> DEFINE rows == PostUpdate(task.node, job[task.node], Above(task.node), target')
  <2>1. task.node \in Nodes /\ task.own = job[task.node]
    BY <1>4 DEF UpdateEmpty, TypeOK, NoTask, RowsAreCurrent
  <2>2. job' = job \/ job' = [k \in Nodes |-> IF k \in DOMAIN rows THEN rows[k] ELSE job[k]]
    BY <1>4, <2>1, NoRows DEF UpdateEmpty, TypeOK
  <2>3. m \in DOMAIN rows => rows[m].done
    BY <2>1, PostUpdateDone DEF TypeOK
  <2> HIDE DEF rows
  <2> QED
    BY <2>2, <2>3
<1>5. ASSUME NEW n \in Nodes, CallbackCommits(n)
      PROVE  job'[m].done
  <2> DEFINE rows == PostUpdate(n, job[n], Above(n), SeenTargets(n))
  <2>1. callback[n].rows = rows
    BY <1>5 DEF CallbackCommits, RowsAreCurrent
  <2>2. job' = [k \in Nodes |-> IF k \in DOMAIN rows THEN rows[k] ELSE job[k]]
    BY <1>5, <2>1 DEF CallbackCommits, SeenJobs
  <2>3. m \in DOMAIN rows => rows[m].done
    BY PostUpdateDone DEF TypeOK
  <2> HIDE DEF rows
  <2> QED
    BY <2>2, <2>3
<1>6. ASSUME NEW i \in DOMAIN sending, SuccessSaves(i)
      PROVE  job'[m].done
  BY <1>6, AskingKeepsRow
<1>7. CASE AskingEnds
  BY <1>1, <1>7, AskingEndsSteps
<1> QED
  BY <1>2, <1>3, <1>4, <1>5, <1>6, <1>7
  DEF Next, Chain, Copy, Callback, Success, ArchiveNode, Signal, CallbackLoads,
      CallbackSaves, CallbackChecks, SuccessChecks, AskingEnds, vars

\* A tree that is finished stays finished.
LEMMA TreeStaysFinished ==
  ASSUME TypeOK, AnswersInv, TreeFinished(target), [Next]_vars
  PROVE  TreeFinished(target')
<1>1. \A n \in Nodes, a \in Addons : target[n][a] \in Finished
  BY DEF TreeFinished, Pending
<1>2. \A n \in Nodes, a \in Addons : target'[n][a] = target[n][a]
  BY <1>1, AnswersStep DEF TargetsStay, Finished
<1> QED
  BY <1>1, <1>2 DEF TreeFinished, Pending

\* When the admins are asked, all that has been answered is committed.
LEMMA AskedOnceCommitted ==
  ASSUME ArchiveInv, Exclusive, AskingEnds
  PROVE  TreeFinished(target)
<1>1. asking > 0
  BY AskingEndsSteps DEF ArchiveInv
<1>2. \A n \in Nodes : callback[n].pc # "checked"
  BY <1>1 DEF Exclusive, Idle
<1>3. Final
  BY <1>1 DEF ArchiveInv, VerdictInv, Reported
<1>4. \A n \in Nodes, a \in Addons : target[n][a] \in Finished
  BY <1>2, <1>3, DecidedTargets DEF ArchiveInv, Final
<1> QED
  BY <1>4 DEF TreeFinished, Pending

\* What asks, and what fails, for good.
LEMMA OutcomesStay ==
  ASSUME TypeOK, [Next]_vars
  PROVE  /\ failed => failed'
         /\ \/ asks' = asks
            \/ AskingEnds /\ asks' = asks + 1
<1>1. ASSUME ArchiveFail \/ UNCHANGED <<job, failed>> PROVE failed => failed'
  BY <1>1 DEF ArchiveFail
<1>2. ASSUME \/ \E n \in Nodes :
                  \/ SizeExceeded(n)
                  \/ \E a \in Addons : \/ StatFails(n, a) \/ CopyRefused(n, a)
                                       \/ CallbackExpired(n, a)
             \/ SuccessFails
      PROVE  (failed => failed') /\ asks' = asks
  BY <1>1, <1>2, OnFailureFails
  DEF SizeExceeded, StatFails, CopyRefused, CallbackExpired, SuccessFails
<1>3. CASE UNCHANGED <<asks, failed>>
  BY <1>3
<1>4. ASSUME Signal \/ \E n \in Nodes : CallbackCommits(n)
      PROVE  (failed => failed') /\ asks' = asks
  BY <1>4 DEF Signal, CallbackCommits, HandleFail
<1>5. CASE AskingEnds
  BY <1>1, <1>5, AskingEndsSteps
<1> QED
  BY <1>2, <1>3, <1>4, <1>5
  DEF Next, Chain, Copy, Callback, Success, ArchiveNode, UpdateEmpty, CallbackLoads,
      CallbackSaves, CallbackChecks, SuccessChecks, SuccessSaves, AskingEnds, vars

\* Every step of the archiver is a step of its progress, or leaves it.
LEMMA ProgressStep ==
  ASSUME ArchiveInv, TypeOK', OneVerdict', Exclusive, RowsAreCurrent, [Next]_vars
  PROVE  [Progress!Next]_Archive
<1> DEFINE Ready == job[Root].done \/ TreeFinished(target)
<1>1. TypeOK /\ AnswersInv /\ asks \in Nat /\ failed \in BOOLEAN /\ failed' \in BOOLEAN
  BY DEF ArchiveInv, TypeOK
<1>2. Ready => Ready'
  <2>1. job[Root].done => job'[Root].done
    BY <1>1, DoneStays, TreeAssumption
  <2>2. TreeFinished(target) => TreeFinished(target')
    BY <1>1, TreeStaysFinished
  <2>3. TreeFinished(target)' = TreeFinished(target')
    BY DEF TreeFinished, Pending
  <2> QED
    BY <2>1, <2>2, <2>3
<1>3. ASSUME AskingEnds, asks' = asks + 1
      PROVE  [Progress!Next]_Archive
  <2>1. Ready
    BY <1>3, AskedOnceCommitted
  <2>2. asks' > 0 /\ ~failed
    BY <1>1, <1>3, OutcomesStay DEF OneVerdict
  <2>3. Archive' = "success" /\ Archive \in {"children", "success"}
    BY <1>1, <2>1, <2>2 DEF Archive
  <2> QED
    BY <2>3 DEF Progress!Next, Progress!AdminsAreAsked
<1>4. CASE asks' = asks /\ asks > 0
  BY <1>4 DEF Archive
<1>5. CASE asks' = asks /\ ~(asks > 0)
  <2> HIDE DEF Ready
  <2>1. CASE failed
    <3>1. failed'
      BY <1>1, <2>1, OutcomesStay
    <3> QED
      BY <1>5, <2>1, <3>1 DEF Archive
  <2>2. CASE ~failed /\ failed'
    <3>1. Archive' = "failure" /\ Archive \in {"root", "children"}
      BY <1>5, <2>2 DEF Archive
    <3> QED
      BY <3>1 DEF Progress!Next, Progress!Fails
  <2>3. CASE ~failed /\ ~failed'
    <3>1. /\ Archive = IF Ready THEN "children" ELSE "root"
          /\ Archive' = IF Ready' THEN "children" ELSE "root"
      BY <1>5, <2>3 DEF Archive, Ready
    <3> QED
      BY <1>2, <3>1 DEF Progress!Next, Progress!RootFinishes
  <2> QED
    BY <1>1, <2>1, <2>2, <2>3
<1> QED
  BY <1>1, <1>3, <1>4, <1>5, OutcomesStay

\* While nothing overlaps, the archiver implements ArchiveProgress: whatever
\* the tree, a registration is archiving, then is not, is asked about or fails,
\* in this order, and no row saved late takes any of it back.
THEOREM ArchiveGoesForward == ~Concurrent => (Spec => ArchiveProceeds)
<1> SUFFICES ASSUME ~Concurrent PROVE Spec => ArchiveProceeds
  OBVIOUS
<1>1. Init => Progress!Init
  <2> SUFFICES ASSUME Init PROVE Progress!Init
    OBVIOUS
  <2>1. ~job[Root].done /\ Pending(Root, target)
    BY TreeAssumption, AddonsAssumption DEF Init, Pending, Finished
  <2>2. asks = 0 /\ ~failed
    BY DEF Init
  <2> QED
    BY <2>1, <2>2, TreeAssumption DEF Progress!Init, Archive, TreeFinished
<1>2. Init => Exclusive /\ RowsAreCurrent
  BY DEF Init, Exclusive, RowsAreCurrent, NoTask, Idle
<1>3. TypeOK /\ TypeOK' /\ Exclusive /\ RowsAreCurrent /\ [Next]_vars
        => Exclusive' /\ RowsAreCurrent'
  BY ExclusiveStep, CurrentStep
<1>4. ArchiveInv /\ TypeOK' /\ OneVerdict' /\ Exclusive /\ RowsAreCurrent /\ [Next]_vars
        => [Progress!Next]_Archive
  BY ProgressStep
<1> QED
  BY <1>1, <1>2, <1>3, <1>4, Typing, Safety, VerdictIsOne, PTL
  DEF Spec, ArchiveProceeds, Progress!Spec

=============================================================================
