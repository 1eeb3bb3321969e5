------------------------ MODULE RegistrationSanctions ------------------------
(***************************************************************************)
(* The life of one OSF registration and of the four sanctions that govern  *)
(* it: the registration approval or embargo it is created with, and the    *)
(* retraction and embargo termination requested later.  Admins answer by   *)
(* emailed tokens, a moderator acts through the API, nightly scripts       *)
(* accept what nobody answered in time, and the archiver may fail the      *)
(* registration while all this goes on.                                    *)
(*                                                                         *)
(* One action is one database transaction.  A web request that raises is   *)
(* rolled back, so its failures are no steps.  The scripts catch the       *)
(* exception inside their transaction, so what was saved before the        *)
(* failure stays: those partial commits are actions of their own.          *)
(***************************************************************************)
CONSTANTS Admins,       \* active admin contributors at initiation
          Moderated,    \* the provider reviews its registrations
          MintMayFail   \* the DOI service may refuse a request

ASSUME AdminsAssumption == Admins # {}
ASSUME SwitchAssumption == Moderated \in BOOLEAN /\ MintMayFail \in BOOLEAN

VARIABLES state,             \* [Kinds -> approval_stage, "none" when no FK]
          approvals,         \* [Kinds -> admins whose has_approved is set]
          public,            \* is_public of the root
          deleted,           \* is_deleted (registered_from is then NULL)
          moderation_state,  \* the stored RegistrationModerationStates value
          last_trigger,      \* trigger of the newest RegistrationAction
          archive,           \* progress of the archive tree
          due,               \* the waiting periods that have run out
          spam               \* is_spammy (flagged, not confirmed)

vars == <<state, approvals, public, deleted, moderation_state, last_trigger,
          archive, due, spam>>

-----------------------------------------------------------------------------
Approval    == "registration_approval"
Embargo     == "embargo"
Retraction  == "retraction"
Termination == "embargo_termination_approval"
Kinds == {Approval, Embargo, Retraction, Termination}

SanctionStates == {"unapproved", "pending_moderation", "approved", "rejected",
                   "moderator_rejected", "completed"}
Rejected == {"rejected", "moderator_rejected"}

ModerationStates == {"undefined", "initial", "reverted", "pending", "rejected",
    "accepted", "embargo", "pending_embargo_termination",
    "pending_withdraw_request", "pending_withdraw", "withdrawn"}
Triggers == {"submit", "accept_submission", "reject_submission",
    "request_withdrawal", "accept_withdrawal", "reject_withdrawal",
    "force_withdraw"}
ArchiveStages == {"root", "children", "success", "failure", "removed"}
EmbargoEnd == "embargo_end"

\* What ArchiveTree implements.
Progress == INSTANCE ArchiveProgress

\* SANCTION_STATE_MAP, a missing pair being UNDEFINED
FromSanction(kind, s) ==
  CASE kind \in {Approval, Embargo} /\ s = "unapproved"         -> "initial"
    [] kind \in {Approval, Embargo} /\ s = "pending_moderation" -> "pending"
    [] kind \in {Approval, Embargo} /\ s = "rejected"           -> "reverted"
    [] kind \in {Approval, Embargo} /\ s = "moderator_rejected" -> "rejected"
    [] kind = Approval /\ s = "approved"                        -> "accepted"
    [] kind = Embargo /\ s = "approved"                         -> "embargo"
    [] kind = Embargo /\ s = "completed"                        -> "accepted"
    [] kind = Retraction /\ s = "unapproved"     -> "pending_withdraw_request"
    [] kind = Retraction /\ s = "pending_moderation"    -> "pending_withdraw"
    [] kind = Retraction /\ s = "approved"              -> "withdrawn"
    [] kind = Termination /\ s = "unapproved" -> "pending_embargo_termination"
    [] kind = Termination /\ s \in {"pending_moderation", "approved"}
                                                        -> "accepted"
    [] kind = Termination /\ s \in Rejected             -> "embargo"
    [] OTHER                                            -> "undefined"

\* RegistrationModerationTriggers.from_transition
FromTransition(from, to) ==
  CASE from = "initial" /\ to = "pending"                   -> "submit"
    [] from = "pending" /\ to \in {"accepted", "embargo"}   -> "accept_submission"
    [] from = "pending" /\ to = "rejected"                  -> "reject_submission"
    [] from = "pending_withdraw_request" /\ to = "pending_withdraw"
                                                            -> "request_withdrawal"
    [] from = "pending_withdraw" /\ to = "withdrawn"        -> "accept_withdrawal"
    [] from = "pending_withdraw" /\ to \in {"accepted", "embargo"}
                                                            -> "reject_withdrawal"
    [] from \in {"accepted", "embargo"} /\ to = "withdrawn" -> "force_withdraw"
    [] OTHER                                                -> "none"

\* Registration.sanction: a retraction hides the others, even a rejected one.
ActiveSanction(st) ==
  CASE st[Retraction] # "none"  -> Retraction
    [] st[Retraction] = "none" /\ st[Termination] # "none" -> Termination
    [] st[Retraction] = "none" /\ st[Termination] = "none"
         /\ st[Embargo] # "none" -> Embargo
    [] OTHER -> Approval

\* The state update_moderation_state computes
Derived(st) ==
  LET active == ActiveSanction(st)
      first  == FromSanction(active, st[active])
  IN IF first # "undefined" THEN first
     ELSE IF st[Embargo] # "none" THEN FromSanction(Embargo, st[Embargo])
     ELSE IF st[Approval] # "none" THEN FromSanction(Approval, st[Approval])
     ELSE "accepted"

UpdateModerationState(st) ==
  LET trigger == FromTransition(moderation_state, Derived(st))
  IN /\ moderation_state' = Derived(st)
     /\ last_trigger' = IF trigger = "none" THEN last_trigger ELSE trigger

-----------------------------------------------------------------------------
\* Mutated form: withdrawals are not moderated.
IsModeratedSubmission(kind) == Moderated /\ kind \in {Approval, Embargo}

IsModerated(kind) == Moderated /\ kind # Termination
IsEmbargoed == ~public /\ state[Embargo] = "approved"

\* Mutated form: only an embargo still waiting for its admins is cancelled.
CancelPendingEmbargoOnly(st) ==
  IF st[Embargo] = "unapproved"
  THEN [st EXCEPT ![Embargo] =
          IF Moderated THEN "moderator_rejected" ELSE "rejected"]
  ELSE st

\* Registration.withdraw: an embargo awaiting moderation is left as it is.
CancelEmbargo(st) ==
  IF st[Embargo] \in {"unapproved", "approved"}
  THEN [st EXCEPT ![Embargo] =
          IF Moderated THEN "moderator_rejected" ELSE "rejected"]
  ELSE st

\* Registration.terminate_embargo: a pending termination is accepted with it.
CompleteEmbargo(st) ==
  [st EXCEPT ![Embargo] = "completed",
             ![Termination] = IF @ = "unapproved" THEN "approved" ELSE @]

\* Mutated form: a termination ends the embargo without asking whether the
\* registration is still embargoed.
CompletedUnchecked(kind) ==
  LET st == [state EXCEPT ![kind] = "approved"]
  IN CASE kind = Retraction  -> CancelEmbargo(st)
       [] kind = Termination -> CompleteEmbargo(st)
       [] OTHER              -> st

\* The sanctions after an accept that reaches APPROVED has run _on_complete
Completed(kind) ==
  LET st == [state EXCEPT ![kind] = "approved"]
  IN CASE kind = Retraction                 -> CancelEmbargo(st)
       [] kind = Termination /\ IsEmbargoed -> CompleteEmbargo(st)
       [] OTHER                             -> st

\* Every _on_complete logs to registered_from, except that of a termination
\* with no embargo left to end; a spammy registration refuses its approval.
CanComplete(kind) ==
  /\ kind \in {Approval, Embargo} => ~spam
  /\ (kind # Termination \/ IsEmbargoed) => ~deleted

\* Mutated form: a termination does not publish.
PublishesUnlessTermination(kind) == kind \in {Approval, Retraction}

\* The completions that call set_privacy('public')
Publishes(kind) ==
  kind \in {Approval, Retraction} \/ (kind = Termination /\ IsEmbargoed)

\* accept to APPROVED: _on_complete, then _save_transition
Complete(kind) ==
  /\ CanComplete(kind)
  /\ state' = Completed(kind)
  /\ public' = (public \/ Publishes(kind))
  /\ UpdateModerationState(Completed(kind))

\* accept from UNAPPROVED: into the moderation queue, or straight to APPROVED
Accept(kind) ==
  \/ /\ IsModerated(kind)
     /\ state' = [state EXCEPT ![kind] = "pending_moderation"]
     /\ UpdateModerationState([state EXCEPT ![kind] = "pending_moderation"])
     /\ UNCHANGED public
  \/ ~IsModerated(kind) /\ Complete(kind)

\* reject: the registration goes with the sanction it was created with, a
\* rejected termination is detached, a rejected retraction stays attached.
Reject(kind, to) ==
  LET st == [state EXCEPT ![kind] = IF kind = Termination THEN "none" ELSE to]
  IN /\ kind # Termination => ~deleted
     /\ state' = st
     /\ deleted' = (deleted \/ kind \in {Approval, Embargo})
     /\ UpdateModerationState(st)

-----------------------------------------------------------------------------
Init ==
  /\ \E kind \in {Approval, Embargo} :
       state = [k \in Kinds |-> IF k = kind THEN "unapproved" ELSE "none"]
  /\ approvals = [k \in Kinds |-> {}]
  /\ public = FALSE
  /\ deleted = FALSE
  /\ moderation_state = "initial"
  /\ last_trigger = "none"
  /\ Progress!Init
  /\ due = {}
  /\ spam \in BOOLEAN

\* The tokens of the initial sanction are mailed once archiving has succeeded,
\* those of a retraction or termination at once.
TokenSent(kind) == kind \in {Approval, Embargo} => archive = "success"

\* Mutated form: one approval is enough, as in the ANY mode.
AnyApproved(given) == given # {}

\* The UNANIMOUS mode: every authorizer has approved.
AllApproved(given) == given = Admins

\* sanction_handler with an approval token; in the other stages it redirects,
\* reports an error or does nothing.
ApproveByToken(admin, kind) ==
  /\ TokenSent(kind)
  /\ state[kind] = "unapproved"
  /\ approvals' = [approvals EXCEPT ![kind] = @ \cup {admin}]
  /\ \/ AllApproved(approvals[kind] \cup {admin}) /\ Accept(kind)
     \/ /\ ~AllApproved(approvals[kind] \cup {admin})
        /\ UNCHANGED <<state, public, moderation_state, last_trigger>>
  /\ UNCHANGED <<deleted, archive, due, spam>>

\* sanction_handler with a rejection token: one admin is enough.
RejectByToken(kind) ==
  /\ TokenSent(kind)
  /\ state[kind] = "unapproved"
  /\ Reject(kind, "rejected")
  /\ UNCHANGED <<approvals, public, archive, due, spam>>

\* RegistrationActionSerializer.create: the active sanction is accepted, and
\* the request rolled back unless the newest action bears the trigger asked for.
ModeratorAccept ==
  LET kind == ActiveSanction(state)
  IN /\ state[kind] = "pending_moderation"
     /\ Complete(kind)
     /\ last_trigger' \in {"accept_submission", "accept_withdrawal"}
     /\ UNCHANGED <<approvals, deleted, archive, due, spam>>

ModeratorReject ==
  LET kind == ActiveSanction(state)
  IN /\ state[kind] = "pending_moderation"
     /\ Reject(kind, "moderator_rejected")
     /\ last_trigger' \in {"reject_submission", "reject_withdrawal"}
     /\ UNCHANGED <<approvals, public, archive, due, spam>>

MayWithdraw == ~deleted /\ (public \/ state[Embargo] \in {"unapproved", "approved"})

\* A moderator's retract_registration is created and accepted in one request.
ForceWithdraw ==
  LET st == CancelEmbargo([state EXCEPT ![Retraction] = "approved"])
  IN /\ Moderated /\ MayWithdraw
     /\ state' = st
     /\ approvals' = [approvals EXCEPT ![Retraction] = {}]
     /\ public' = TRUE
     /\ UpdateModerationState(st)
     /\ last_trigger' = "force_withdraw"
     /\ due' = due \ {Retraction}
     /\ UNCHANGED <<deleted, archive, spam>>

\* An admin's retract_registration: only an UNAPPROVED retraction is in its
\* way, any other one is replaced, an approved one included.
RequestWithdrawal ==
  LET st == [state EXCEPT ![Retraction] = "unapproved"]
  IN /\ MayWithdraw
     /\ state[Retraction] # "unapproved"
     /\ state' = st
     /\ approvals' = [approvals EXCEPT ![Retraction] = {}]
     /\ due' = due \ {Retraction}
     /\ UpdateModerationState(st)
     /\ UNCHANGED <<public, deleted, archive, spam>>

\* Mutated form: the moderation state is not refreshed.
RequestEmbargoTerminationQuietly ==
  /\ ~deleted /\ IsEmbargoed
  /\ state' = [state EXCEPT ![Termination] = "unapproved"]
  /\ approvals' = [approvals EXCEPT ![Termination] = {}]
  /\ due' = due \ {Termination}
  /\ UNCHANGED <<public, deleted, moderation_state, last_trigger, archive, spam>>

\* set_privacy('public') of an embargoed registration files a termination.
RequestEmbargoTermination ==
  LET st == [state EXCEPT ![Termination] = "unapproved"]
  IN /\ ~deleted /\ IsEmbargoed
     /\ state' = st
     /\ approvals' = [approvals EXCEPT ![Termination] = {}]
     /\ due' = due \ {Termination}
     /\ UpdateModerationState(st)
     /\ UNCHANGED <<public, deleted, archive, spam>>

\* Mutated form: a pending embargo is forgotten.
NothingUnapprovedButEmbargo == state[Approval] # "unapproved"

NothingUnapproved ==
  state[Embargo] # "unapproved" /\ state[Approval] # "unapproved"

\* set_privacy('public') of a private registration with nothing UNAPPROVED
MakePublic ==
  /\ ~deleted /\ ~public /\ ~IsEmbargoed
  /\ NothingUnapproved
  /\ public' = TRUE
  /\ UNCHANGED <<state, approvals, deleted, moderation_state, last_trigger,
                 archive, due, spam>>

-----------------------------------------------------------------------------
\* Mutated forms: the scripts skip embargoes whose end date has already passed,
\* and active embargoes with a retraction on file.
EmbargoOverdueBeforeEnd   == /\ state[Embargo] = "unapproved"
                             /\ Embargo \in due /\ EmbargoEnd \notin due
EmbargoOverIfUnretracted  == /\ EmbargoEnd \in due /\ ~deleted /\ IsEmbargoed
                             /\ state[Retraction] = "none"

\* What each script selects
ApprovalOverdue    == state[Approval] = "unapproved" /\ Approval \in due
EmbargoOverdue     == state[Embargo] = "unapproved" /\ Embargo \in due
RetractionOverdue  == state[Retraction] = "unapproved" /\ Retraction \in due
TerminationOverdue == state[Termination] = "unapproved" /\ Termination \in due
EmbargoOver        == EmbargoEnd \in due /\ ~deleted /\ IsEmbargoed

\* approve_registrations
AutoApproveRegistration ==
  /\ ApprovalOverdue
  /\ ~deleted /\ archive # "root"
  /\ Accept(Approval)
  /\ UNCHANGED <<approvals, deleted, archive, due, spam>>

\* approve_registrations: the DOI of the root or of a component is refused
\* after the approval was saved, before the moderation state was.
AutoApproveRegistrationFails ==
  /\ MintMayFail
  /\ ApprovalOverdue
  /\ ~deleted /\ archive # "root"
  /\ ~Moderated /\ ~spam
  /\ state' = [state EXCEPT ![Approval] = "approved"]
  /\ public' \in {public, TRUE}
  /\ UNCHANGED <<approvals, deleted, moderation_state, last_trigger, archive,
                 due, spam>>

\* approve_registrations: a registration deleted by the archiver or an admin
AutoRejectDeleted ==
  /\ ApprovalOverdue
  /\ deleted
  /\ state' = [state EXCEPT ![Approval] = "rejected"]
  /\ UNCHANGED <<approvals, public, deleted, moderation_state, last_trigger,
                 archive, due, spam>>

\* embargo_registrations, first loop; it does not wait for the archiver.
AutoApproveEmbargo ==
  /\ EmbargoOverdue
  /\ ~deleted
  /\ Accept(Embargo)
  /\ UNCHANGED <<approvals, deleted, archive, due, spam>>

\* embargo_registrations, second loop: set_privacy saves the copy the script
\* loaded, with the moderation state from before the embargo was completed.
ExpireEmbargo ==
  /\ EmbargoOver
  /\ state' = CompleteEmbargo(state)
  /\ public' = TRUE
  /\ UNCHANGED <<approvals, deleted, moderation_state, last_trigger, archive,
                 due, spam>>

ExpireEmbargoFails ==
  /\ MintMayFail
  /\ EmbargoOver
  /\ state' = CompleteEmbargo(state)
  /\ UpdateModerationState(CompleteEmbargo(state))
  /\ UNCHANGED <<approvals, public, deleted, archive, due, spam>>

\* retract_registrations
AutoWithdraw ==
  /\ RetractionOverdue
  /\ Accept(Retraction)
  /\ UNCHANGED <<approvals, deleted, archive, due, spam>>

\* retract_registrations: the embargo is already saved as cancelled when the
\* DOI is refused.
AutoWithdrawFails ==
  /\ MintMayFail
  /\ RetractionOverdue
  /\ ~deleted /\ ~Moderated /\ ~public
  /\ state' = CancelEmbargo(state)
  /\ UNCHANGED <<approvals, public, deleted, moderation_state, last_trigger,
                 archive, due, spam>>

\* approve_embargo_terminations: one transaction, rolled back on any failure
AutoTerminateEmbargo ==
  /\ TerminationOverdue
  /\ \/ IsEmbargoed /\ Complete(Termination)
     \/ /\ ~IsEmbargoed
        /\ state' = [state EXCEPT ![Termination] = "none"]
        /\ UNCHANGED <<public, moderation_state, last_trigger>>
  /\ UNCHANGED <<approvals, deleted, archive, due, spam>>

-----------------------------------------------------------------------------
\* A sanction has been pending for its two days, or the embargo's end is past.
PassTime(period) ==
  /\ \/ period \in Kinds /\ state[period] = "unapproved"
     \/ period = EmbargoEnd /\ state[Embargo] # "none"
  /\ period \notin due
  /\ due' = due \cup {period}
  /\ UNCHANGED <<state, approvals, public, deleted, moderation_state,
                 last_trigger, archive, spam>>

\* The root's job is done, then the whole tree is.
ArchiveAdvances ==
  /\ Progress!RootFinishes \/ Progress!AdminsAreAsked
  /\ UNCHANGED <<state, approvals, public, deleted, moderation_state,
                 last_trigger, due, spam>>

\* handle_archive_fail: the active sanction is rejected whatever its stage.
ArchiveFails ==
  /\ Progress!Fails
  /\ state' = [state EXCEPT ![ActiveSanction(state)] = "rejected"]
  /\ deleted' = TRUE
  /\ UNCHANGED <<approvals, public, moderation_state, last_trigger, due, spam>>

\* RemoveStuckRegistrationsView: the tree is deleted, its sanction is not.
RemoveStuck ==
  /\ archive \in {"root", "children"} /\ ~deleted
  /\ archive' = "removed"
  /\ deleted' = TRUE
  /\ UNCHANGED <<state, approvals, public, moderation_state, last_trigger, due,
                 spam>>

\* NodeConfirmHamView
ConfirmHam ==
  /\ spam
  /\ spam' = FALSE
  /\ UNCHANGED <<state, approvals, public, deleted, moderation_state,
                 last_trigger, archive, due>>

-----------------------------------------------------------------------------
Respond ==
  \E kind \in Kinds :
    \/ \E admin \in Admins : ApproveByToken(admin, kind)
    \/ RejectByToken(kind)

Moderate == ModeratorAccept \/ ModeratorReject \/ ForceWithdraw

Request == RequestWithdrawal \/ RequestEmbargoTermination \/ MakePublic

NightlyScripts ==
  \/ AutoApproveRegistration \/ AutoApproveRegistrationFails
  \/ AutoRejectDeleted
  \/ AutoApproveEmbargo \/ ExpireEmbargo \/ ExpireEmbargoFails
  \/ AutoWithdraw \/ AutoWithdrawFails
  \/ AutoTerminateEmbargo

Environment ==
  \/ \E period \in Kinds \cup {EmbargoEnd} : PassTime(period)
  \/ ArchiveAdvances \/ ArchiveFails \/ RemoveStuck
  \/ ConfirmHam

Next == Respond \/ Moderate \/ Request \/ NightlyScripts \/ Environment

Spec == Init /\ [][Next]_vars

\* Time passes, and celery beat runs every script once a day.  A script's
\* failure is never owed; its success is, once the service answers.
Fairness ==
  /\ \A period \in Kinds \cup {EmbargoEnd} : WF_vars(PassTime(period))
  /\ WF_vars(ArchiveAdvances)
  /\ WF_vars(AutoApproveRegistration)
  /\ WF_vars(AutoRejectDeleted)
  /\ WF_vars(AutoApproveEmbargo)
  /\ WF_vars(ExpireEmbargo)
  /\ WF_vars(AutoWithdraw)
  /\ WF_vars(AutoTerminateEmbargo)

FairSpec == Spec /\ Fairness

-----------------------------------------------------------------------------
TypeOK ==
  /\ state \in [Kinds -> SanctionStates \cup {"none"}]
  /\ approvals \in [Kinds -> SUBSET Admins]
  /\ public \in BOOLEAN /\ deleted \in BOOLEAN /\ spam \in BOOLEAN
  /\ moderation_state \in ModerationStates
  /\ last_trigger \in Triggers \cup {"none"}
  /\ archive \in ArchiveStages
  /\ due \subseteq Kinds \cup {EmbargoEnd}

\* A moderator's withdrawal is approved as it is created, nobody being asked.
Forced(kind) ==
  Moderated /\ kind = Retraction /\ state[kind] = "approved" /\ approvals[kind] = {}

\* What entitles a sanction to leave UNAPPROVED without a rejection: the
\* approval of every admin, the end of its two days, a force withdrawal, or,
\* for a termination, an embargo that expired first.
Entitled(kind) ==
  \/ approvals[kind] = Admins
  \/ kind \in due
  \/ Forced(kind)
  \/ kind = Termination /\ EmbargoEnd \in due

\* No admin is skipped, however accepts, retries and the scripts interleave.
NoAdminSkipped ==
  \A kind \in Kinds :
    state[kind] \in {"pending_moderation", "approved"} => Entitled(kind)

\* An approved withdrawal leaves no embargo behind that the nightly script
\* could still activate or complete.
WithdrawalCancelsEmbargo ==
  state[Retraction] = "approved" => state[Embargo] \notin {"unapproved", "approved"}

\* A withdrawn registration keeps its public page, whichever path withdrew it.
WithdrawnIsPublic ==
  state[Retraction] = "approved" => public \/ deleted

\* Nothing is shown before its embargo is over: without moderation, a public
\* registration has no embargo that is still pending or active.
EmbargoHonoured ==
  public => state[Embargo] \notin {"unapproved", "approved"}

\* An approval or an ended embargo takes effect with the same commit.
CompletionPublishes ==
  \/ state[Approval] = "approved"
  \/ state[Embargo] = "completed"
  => public \/ deleted

\* The stored moderation state lags behind the sanctions only after an embargo
\* expired by script, or on a deleted registration.
ModerationStateLag ==
  \/ moderation_state = Derived(state)
  \/ deleted
  \/ state[Embargo] = "completed" /\ EmbargoEnd \in due

\* The moderators' log vouches for every moderated outcome: an approved
\* registration has a decision in it, and the newest entry of an approved
\* withdrawal says who withdrew it.
ModerationIsRecorded ==
  Moderated =>
    /\ state[Approval] = "approved" => last_trigger \notin {"none", "submit"}
    /\ state[Retraction] = "approved" =>
         last_trigger \in {"accept_withdrawal", "force_withdraw"}

\* Whatever rejects the sanction a registration was created with also deletes
\* the registration, unless a withdrawal cancelled the embargo.
RejectionDeletes ==
  \/ state[Approval] \in Rejected
  \/ state[Embargo] \in Rejected /\ state[Retraction] = "none"
  => deleted

\* A registration is created with an approval or with an embargo.
OneInitialSanction == state[Approval] = "none" \/ state[Embargo] = "none"

\* Only a moderated provider has a moderation queue.
NothingQueued == \A kind \in Kinds : state[kind] # "pending_moderation"

\* The inductive invariant.  An embargo is honoured where no moderation queue
\* gives set_privacy its gap, and a completion publishes unless a refused DOI
\* splits the two.
SanctionInv ==
  /\ TypeOK
  /\ NoAdminSkipped
  /\ WithdrawalCancelsEmbargo
  /\ WithdrawnIsPublic
  /\ RejectionDeletes
  /\ OneInitialSanction
  /\ ~Moderated => NothingQueued /\ EmbargoHonoured
  /\ ~MintMayFail => CompletionPublishes

\* A closed initial sanction never reopens, except that an archive failure may
\* still turn it to REJECTED.
ClosedStaysClosed ==
  [][\A kind \in {Approval, Embargo} :
       state[kind] \in Rejected \cup {"completed"} =>
         state'[kind] = state[kind] \/ archive' # archive]_vars

\* The two-day rule: a live initial sanction or withdrawal request does not
\* wait for ever for an answer, even if the scripts fail for many nights and
\* commit half of what they do.
SanctionsAnswered ==
  \A kind \in {Approval, Embargo, Retraction} :
    state[kind] = "unapproved" ~> state[kind] # "unapproved" \/ deleted \/ spam

\* The embargo of a private registration does not outlive its end date.
EmbargoEnds ==
  IsEmbargoed ~> state[Embargo] # "approved" \/ public \/ deleted

==============================================================================
