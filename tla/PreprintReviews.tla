--------------------------- MODULE PreprintReviews ---------------------------
(***************************************************************************)
(* A preprint, the moderation of its provider and the requests to withdraw *)
(* it: osf/models/preprint.py, ReviewsMachine and PreprintRequestMachine   *)
(* of osf/utils/machines.py, and the API requests that drive them.         *)
(*                                                                         *)
(* Each API request is a transaction that first loads the preprint's row   *)
(* and later saves the whole of it.  Some requests load it with            *)
(* SELECT ... FOR UPDATE, others do not, so what they save may be stale.   *)
(***************************************************************************)
EXTENDS Naturals

CONSTANTS
  Requests,      \* the withdrawal requests there can be: one per admin
  Workers        \* the processes that serve API requests

VARIABLES
  reviews_workflow,  \* the provider's; it does not change
  preprint,          \* the committed row of the preprint
  subjects,          \* whether the preprint has a subject
  request,           \* request[r]: the state of the withdrawal request r
  grants,            \* how many PreprintRequestActions have accepted a
                     \* request from pending
  reviewed,          \* whether a ReviewAction has accepted the preprint
  notified,          \* what the last withdrawal told the contributors
  serving,           \* serving[w]: the open request of worker w
  overlapped         \* whether two requests have been open at once

vars == <<reviews_workflow, preprint, subjects, request, grants, reviewed,
          notified, serving, overlapped>>

-----------------------------------------------------------------------------
Workflows == {"none", "pre_moderation", "post_moderation"}

DefaultStates == {"initial", "pending", "accepted", "rejected"}
ReviewStates  == DefaultStates \cup {"withdrawn"}

DefaultTriggers == {"submit", "accept", "reject", "edit_comment"}
ReviewTriggers  == DefaultTriggers \cup {"withdraw"}

\* What a reader who is not logged in may see, by workflow.
PublicStates ==
  CASE reviews_workflow = "none"            -> DefaultStates
    [] reviews_workflow = "pre_moderation"  -> {"accepted"}
    [] reviews_workflow = "post_moderation" -> {"pending", "accepted"}

Row == [machine_state : ReviewStates, is_published : BOOLEAN,
        ever_public : BOOLEAN, date_withdrawn : BOOLEAN]

\* An open request: what it does, the row it has loaded and, for the
\* decision on a withdrawal request, that request and the state it has loaded.
NoJob       == [op |-> "none"]
PreprintJob == [op : {"edit", "publish", "ask"} \cup ReviewTriggers, row : Row]
RequestJob  == [op : {"grant", "decline", "comment"}, row : Row,
                on : Requests, read : DefaultStates]

-----------------------------------------------------------------------------
(* ReviewsMachine                                                          *)

\* The sources and the destination of a trigger: DEFAULT_TRANSITIONS and
\* REVIEWABLE_TRANSITIONS.  A rejected or pending preprint is submitted
\* again only when the provider moderates before publication.
Resubmittable ==
  IF reviews_workflow = "pre_moderation" THEN {"pending", "rejected"} ELSE {}

\* Mutated form: a moderator can reject what is withdrawn.
SourcesOfWithdrawn(trigger) ==
  CASE trigger = "submit"       -> {"initial"} \cup Resubmittable
    [] trigger = "accept"       -> {"pending", "rejected"}
    [] trigger = "reject"       -> {"pending", "accepted", "withdrawn"}
    [] trigger = "edit_comment" -> {"pending", "rejected", "accepted"}
    [] trigger = "withdraw"     -> {"pending", "accepted"}

Sources(trigger) ==
  CASE trigger = "submit"       -> {"initial"} \cup Resubmittable
    [] trigger = "accept"       -> {"pending", "rejected"}
    [] trigger = "reject"       -> {"pending", "accepted"}
    [] trigger = "edit_comment" -> {"pending", "rejected", "accepted"}
    [] trigger = "withdraw"     -> {"pending", "accepted"}

Dest(trigger, state) ==
  CASE trigger = "submit"       -> "pending"
    [] trigger = "accept"       -> "accepted"
    [] trigger = "reject"       -> "rejected"
    [] trigger = "edit_comment" -> state
    [] trigger = "withdraw"     -> "withdrawn"

InPublicReviewsState(p) ==
  p.machine_state \in PublicStates

\* The machine has changed the state; perform_withdraw has set the date.
Moved(p, trigger) ==
  [p EXCEPT !.machine_state = Dest(trigger, @),
            !.date_withdrawn = @ \/ trigger = "withdraw"]

\* Mutated form: what is no longer in a public state is not hidden.
SaveChangesPublishing(p) ==
  IF p.date_withdrawn \/ ~InPublicReviewsState(p) THEN p
  ELSE [p EXCEPT !.is_published = TRUE, !.ever_public = TRUE]

\* save_changes publishes or hides the preprint, except a withdrawn one.
SaveChanges(p) ==
  IF p.date_withdrawn THEN p
  ELSE [p EXCEPT !.is_published = InPublicReviewsState(p),
                 !.ever_public = \/ @
                                 \/ InPublicReviewsState(p) /\ ~p.is_published]

\* It raises a ValueError rather than publish a preprint without a subject.
CannotPublish(p) ==
  /\ ~p.date_withdrawn /\ ~p.is_published
  /\ InPublicReviewsState(p)
  /\ ~subjects

CanRun(p, trigger) ==
  /\ p.machine_state \in Sources(trigger)
  /\ ~CannotPublish(Moved(p, trigger))

RunTransition(p, trigger) == SaveChanges(Moved(p, trigger))

\* notify_withdraw looks for the action that accepted a request; its query
\* raises MultipleObjectsReturned, and the transaction is rolled back, when
\* there are two.
NotifyWithdraw(found) ==
  /\ found <= 1
  /\ notified' = IF found = 0 THEN "forced" ELSE "requested"

\* Mutated form: a trigger that is invalid in this state is ignored.
RunWithdrawIfValid(p, found) ==
  IF CanRun(p, "withdraw")
  THEN preprint' = RunTransition(p, "withdraw") /\ NotifyWithdraw(found)
  ELSE UNCHANGED <<preprint, notified>>

RunWithdraw(p, found) ==
  /\ CanRun(p, "withdraw")
  /\ preprint' = RunTransition(p, "withdraw")
  /\ NotifyWithdraw(found)

\* Mutated form: the other workflow is asked for.
AutoApprovalPostModeration(p) ==
  reviews_workflow = "post_moderation" /\ ~p.ever_public

\* PreprintRequestMachine: a preprint nobody has seen needs no moderator.
AutoApprovalAllowed(p) ==
  reviews_workflow = "pre_moderation" /\ ~p.ever_public

-----------------------------------------------------------------------------
(* Rows and locks                                                          *)

\* The views that load the preprint through get_preprint or get_target lock
\* its row until they commit.
HoldsRow(w) == serving[w].op \in {"edit", "publish", "ask"}

RowIsFree(w) == \A v \in Workers \ {w} : ~HoldsRow(v)

Load(w, job) ==
  /\ serving[w] = NoJob
  /\ serving' = [serving EXCEPT ![w] = job]
  /\ overlapped' = (overlapped \/ \E v \in Workers : serving[v] # NoJob)
  /\ UNCHANGED <<reviews_workflow, preprint, subjects, request, grants,
                 reviewed, notified>>

Close(w) ==
  /\ serving' = [serving EXCEPT ![w] = NoJob]
  /\ UNCHANGED <<reviews_workflow, overlapped>>

-----------------------------------------------------------------------------
(* A request is received                                                   *)

\* Mutated form: is_published can be set whatever the workflow.
PatchLoadsPublishing(w) ==
  /\ RowIsFree(w)
  /\ preprint.date_withdrawn => preprint.ever_public
  /\ \E op \in {"edit", "publish"} : Load(w, [op |-> op, row |-> preprint])

\* PATCH of the preprint, by an admin.  A preprint withdrawn before it was
\* public is hidden from its contributors; is_published can only be set when
\* the provider has no moderation.
PatchLoads(w) ==
  /\ RowIsFree(w)
  /\ preprint.date_withdrawn => preprint.ever_public
  /\ \/ Load(w, [op |-> "edit", row |-> preprint])
     \/ /\ reviews_workflow = "none"
        /\ Load(w, [op |-> "publish", row |-> preprint])

\* POST of a review action: the serializer loads its target without a lock.
ReviewLoads(w) ==
  /\ reviews_workflow # "none"
  /\ \E trigger \in ReviewTriggers :
       Load(w, [op |-> trigger, row |-> preprint])

\* The management command that withdraws what a provider has published.
CommandLoads(w) ==
  /\ preprint.is_published /\ ~preprint.date_withdrawn
  /\ Load(w, [op |-> "withdraw", row |-> preprint])

\* POST of a withdrawal request, at most one by each admin.
AskLoads(w) ==
  /\ RowIsFree(w)
  /\ \E r \in Requests : request[r] = "initial"
  /\ Load(w, [op |-> "ask", row |-> preprint])

\* A moderator, or the staff where there is no moderation, decides on a
\* request, or its author edits its comment: no row is locked.
DecisionLoads(w) ==
  \E r \in Requests, op \in {"grant", "decline", "comment"} :
    /\ request[r] # "initial"
    /\ Load(w, [op |-> op, row |-> preprint, on |-> r, read |-> request[r]])

-----------------------------------------------------------------------------
(* A request is answered                                                   *)

\* The metadata and the subjects are saved, with the whole row.
EditCommits(w) ==
  /\ serving[w].op = "edit"
  /\ preprint' = serving[w].row
  /\ subjects' \in BOOLEAN
  /\ Close(w)
  /\ UNCHANGED <<request, grants, reviewed, notified>>

\* set_published(True): the state becomes accepted without a transition.
PublishCommits(w) ==
  /\ serving[w].op = "publish"
  /\ subjects
  /\ preprint' = [serving[w].row EXCEPT !.machine_state = "accepted",
                                        !.is_published = TRUE,
                                        !.ever_public = TRUE]
  /\ Close(w)
  /\ UNCHANGED <<subjects, request, grants, reviewed, notified>>

\* A review trigger other than withdraw.
ReviewCommits(w) ==
  /\ serving[w].op \in DefaultTriggers
  /\ RowIsFree(w)
  /\ CanRun(serving[w].row, serving[w].op)
  /\ preprint' = RunTransition(serving[w].row, serving[w].op)
  /\ reviewed' = (reviewed \/ serving[w].op = "accept")
  /\ Close(w)
  /\ UNCHANGED <<subjects, request, grants, notified>>

\* The moderator, or the command, withdraws the preprint.
WithdrawCommits(w) ==
  /\ serving[w].op = "withdraw"
  /\ RowIsFree(w)
  /\ RunWithdraw(serving[w].row, grants)
  /\ Close(w)
  /\ UNCHANGED <<subjects, request, grants, reviewed>>

\* A withdrawal request is created and submitted: it waits for a decision,
\* or is accepted by the same transaction, which withdraws the preprint.
AskCommits(w) ==
  /\ serving[w].op = "ask"
  /\ \E r \in Requests :
       /\ request[r] = "initial"
       /\ \/ /\ ~AutoApprovalAllowed(serving[w].row)
             /\ request' = [request EXCEPT ![r] = "pending"]
             /\ UNCHANGED <<preprint, grants, notified>>
          \/ /\ AutoApprovalAllowed(serving[w].row)
             /\ request' = [request EXCEPT ![r] = "accepted"]
             /\ grants' = grants + 1
             /\ RunWithdraw(serving[w].row, grants')
  /\ Close(w)
  /\ UNCHANGED <<subjects, reviewed>>

\* Accepting a request withdraws its preprint in the same transaction.
GrantCommits(w) ==
  /\ serving[w].op = "grant"
  /\ serving[w].read \in Sources("accept")
  /\ RowIsFree(w)
  /\ request' = [request EXCEPT ![serving[w].on] = "accepted"]
  /\ grants' = IF serving[w].read = "pending" THEN grants + 1 ELSE grants
  /\ RunWithdraw(serving[w].row, grants')
  /\ Close(w)
  /\ UNCHANGED <<subjects, reviewed>>

\* The other decisions change the request alone.
DeclineCommits(w) ==
  /\ serving[w].op = "decline"
  /\ serving[w].read \in Sources("reject")
  /\ request' = [request EXCEPT ![serving[w].on] = "rejected"]
  /\ Close(w)
  /\ UNCHANGED <<preprint, subjects, grants, reviewed, notified>>

CommentCommits(w) ==
  /\ serving[w].op = "comment"
  /\ request' = [request EXCEPT ![serving[w].on] = serving[w].read]
  /\ Close(w)
  /\ UNCHANGED <<preprint, subjects, grants, reviewed, notified>>

\* An exception, an invalid trigger, a client or a process that goes away.
RollsBack(w) ==
  /\ serving[w] # NoJob
  /\ Close(w)
  /\ UNCHANGED <<preprint, subjects, request, grants, reviewed, notified>>

-----------------------------------------------------------------------------
\* The preprint has a file and may have subjects; nothing is submitted.
Init ==
  /\ reviews_workflow \in Workflows
  /\ preprint = [machine_state |-> "initial", is_published |-> FALSE,
                 ever_public |-> FALSE, date_withdrawn |-> FALSE]
  /\ subjects \in BOOLEAN
  /\ request = [r \in Requests |-> "initial"]
  /\ grants = 0
  /\ reviewed = FALSE
  /\ notified = "nothing"
  /\ serving = [w \in Workers |-> NoJob]
  /\ overlapped = FALSE

Next ==
  \E w \in Workers :
    \/ PatchLoads(w) \/ ReviewLoads(w) \/ CommandLoads(w)
    \/ AskLoads(w) \/ DecisionLoads(w)
    \/ EditCommits(w) \/ PublishCommits(w) \/ ReviewCommits(w)
    \/ WithdrawCommits(w) \/ AskCommits(w)
    \/ GrantCommits(w) \/ DeclineCommits(w) \/ CommentCommits(w)
    \/ RollsBack(w)

Spec == Init /\ [][Next]_vars

-----------------------------------------------------------------------------
(* Properties                                                              *)

\* The kinds of values of the rows and of the open requests.
TypeOK ==
  /\ reviews_workflow \in Workflows
  /\ preprint \in Row
  /\ subjects \in BOOLEAN
  /\ request \in [Requests -> DefaultStates]
  /\ grants \in 0..1
  /\ reviewed \in BOOLEAN
  /\ notified \in {"nothing", "forced", "requested"}
  /\ serving \in [Workers -> {NoJob} \cup PreprintJob \cup RequestJob]
  /\ overlapped \in BOOLEAN

\* verified_publishable: what the public site shows, a withdrawn preprint
\* being shown as its tombstone.
VerifiedPublishable(p) ==
  /\ p.is_published
  /\ p.machine_state # "initial"
  /\ p.date_withdrawn => p.ever_public

\* However the requests overlap, a preprint that is not withdrawn is published
\* exactly in the states its provider's workflow makes public: a decision
\* always hides or publishes together with the state it saves.
PublicationFollowsReview ==
  ~preprint.date_withdrawn /\ preprint.machine_state # "initial" =>
    (preprint.is_published <=> InPublicReviewsState(preprint))

\* Before moderation nothing is seen: with a pre-moderating provider a
\* preprint is visible, or leaves a tombstone, only after a moderator has
\* accepted it, whatever its admins and the requests in flight do.
ModeratedBeforePublic ==
  reviews_workflow = "pre_moderation"
    /\ (preprint.ever_public \/ VerifiedPublishable(preprint)) => reviewed

\* As long as no two requests overlap, an accepted withdrawal request means
\* that the preprint is withdrawn: the nested transition is never lost.
GrantWithdraws ==
  ~overlapped /\ (\E r \in Requests : request[r] = "accepted") =>
    preprint.date_withdrawn

\* As long as no two requests overlap, a request waits for a moderator of a
\* pre-moderating provider only if the preprint has been public.
OnlySeenPreprintsWait ==
  ~overlapped /\ reviews_workflow = "pre_moderation"
    /\ (\E r \in Requests : request[r] = "pending") => preprint.ever_public

\* As long as no two requests overlap, what has been public leaves a tombstone
\* for ever, and a withdrawal from a moderating provider is final.
WithdrawalIsFinal ==
  [][~overlapped' =>
       /\ preprint.ever_public => preprint'.ever_public
       /\ preprint.date_withdrawn => preprint'.date_withdrawn
       /\ reviews_workflow # "none" /\ preprint.machine_state = "withdrawn" =>
            preprint'.machine_state = "withdrawn"]_vars

=============================================================================
