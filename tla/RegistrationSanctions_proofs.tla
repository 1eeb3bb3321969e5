--------------------- MODULE RegistrationSanctions_proofs ---------------------
(***************************************************************************)
(* Proofs of the safety properties of RegistrationSanctions, for every set *)
(* of admins, with and without moderation, with and without failures of    *)
(* the DOI service.                                                        *)
(***************************************************************************)
EXTENDS RegistrationSanctions, TLAPS

StateType == [Kinds -> SanctionStates \cup {"none"}]

USE DEF Approval, Embargo, Retraction, Termination, EmbargoEnd

-----------------------------------------------------------------------------
(* What the operators return.                                              *)

\* update_moderation_state always stores a member of the enumeration.
LEMMA DerivedType == \A st : Derived(st) \in ModerationStates
<1> TAKE st
<1>1. \A kind, s : FromSanction(kind, s) \in ModerationStates
  BY DEF FromSanction, ModerationStates
<1> QED
  BY <1>1 DEF Derived, ModerationStates

\* from_transition returns a trigger or nothing.
LEMMA FromTransitionType ==
  \A from, to : FromTransition(from, to) \in Triggers \cup {"none"}
BY DEF FromTransition, Triggers

LEMMA UpdateType ==
  ASSUME NEW st, TypeOK, UpdateModerationState(st)
  PROVE  /\ moderation_state' \in ModerationStates
         /\ last_trigger' \in Triggers \cup {"none"}
BY DerivedType, FromTransitionType DEF UpdateModerationState, TypeOK

\* The active sanction is one the registration has, or its approval.
LEMMA ActiveKind ==
  ASSUME NEW st PROVE ActiveSanction(st) \in Kinds
BY DEF ActiveSanction, Kinds

\* Accepting a sanction leaves every sanction in a known stage.
LEMMA CompletedType ==
  ASSUME TypeOK, NEW kind \in Kinds
  PROVE  Completed(kind) \in StateType
BY DEF TypeOK, StateType, Completed, CancelEmbargo, CompleteEmbargo, Kinds,
       SanctionStates

\* Accepting a sanction ends the embargo of a termination, cancels that of a
\* withdrawal and touches no other sanction.
LEMMA CompletedStages ==
  ASSUME TypeOK, NEW kind \in Kinds
  PROVE  /\ Completed(kind)[kind] = "approved"
         /\ \A other \in Kinds \ {kind, Embargo} :
              Completed(kind)[other] = state[other]
         /\ kind \in {Approval, Embargo} =>
              \A other \in Kinds \ {kind} : Completed(kind)[other] = state[other]
         /\ kind = Retraction =>
              Completed(kind)[Embargo] =
                IF state[Embargo] \in {"unapproved", "approved"}
                THEN IF Moderated THEN "moderator_rejected" ELSE "rejected"
                ELSE state[Embargo]
         /\ kind = Termination =>
              Completed(kind)[Embargo] =
                IF IsEmbargoed THEN "completed" ELSE state[Embargo]
BY DEF TypeOK, Completed, CancelEmbargo, CompleteEmbargo, Kinds

-----------------------------------------------------------------------------
(* Type correctness.                                                       *)

LEMMA CompleteType ==
  ASSUME TypeOK, NEW kind \in Kinds, Complete(kind)
  PROVE  /\ state' \in StateType /\ public' \in BOOLEAN
         /\ moderation_state' \in ModerationStates
         /\ last_trigger' \in Triggers \cup {"none"}
<1>1. state' \in StateType
  BY CompletedType DEF Complete
<1>2. public' \in BOOLEAN
  BY DEF Complete, TypeOK
<1> QED
  BY <1>1, <1>2, UpdateType DEF Complete

LEMMA AcceptType ==
  ASSUME TypeOK, NEW kind \in Kinds, Accept(kind)
  PROVE  /\ state' \in StateType /\ public' \in BOOLEAN
         /\ moderation_state' \in ModerationStates
         /\ last_trigger' \in Triggers \cup {"none"}
<1>1. CASE Complete(kind)
  BY <1>1, CompleteType
<1>2. CASE /\ state' = [state EXCEPT ![kind] = "pending_moderation"]
           /\ UpdateModerationState(
                [state EXCEPT ![kind] = "pending_moderation"])
           /\ UNCHANGED public
  BY <1>2, UpdateType DEF TypeOK, StateType, SanctionStates
<1> QED
  BY <1>1, <1>2 DEF Accept

LEMMA RejectType ==
  ASSUME TypeOK, NEW kind \in Kinds, NEW to \in Rejected, Reject(kind, to)
  PROVE  /\ state' \in StateType /\ deleted' \in BOOLEAN
         /\ moderation_state' \in ModerationStates
         /\ last_trigger' \in Triggers \cup {"none"}
<1>1. state' \in StateType
  BY DEF Reject, TypeOK, StateType, SanctionStates, Rejected
<1>2. deleted' \in BOOLEAN
  BY DEF Reject, TypeOK
<1> QED
  BY <1>1, <1>2, UpdateType DEF Reject

\* TypeOK is inductive as it stands: one step per action.
THEOREM Typing == Spec => []TypeOK
<1>1. Init => TypeOK
  BY DEF Init, Progress!Init, TypeOK, Kinds, SanctionStates, ModerationStates,
         ArchiveStages
<1>2. TypeOK /\ [Next]_vars => TypeOK'
  <2> SUFFICES ASSUME TypeOK, [Next]_vars PROVE TypeOK'
    OBVIOUS
  <2>1. ASSUME NEW admin \in Admins, NEW kind \in Kinds,
               ApproveByToken(admin, kind)
        PROVE  TypeOK'
    <3>1. approvals' \in [Kinds -> SUBSET Admins]
      BY <2>1 DEF ApproveByToken, TypeOK
    <3>2. CASE Accept(kind)
      BY <2>1, <3>1, <3>2, AcceptType DEF ApproveByToken, TypeOK, StateType
    <3>3. CASE UNCHANGED <<state, public, moderation_state, last_trigger>>
      BY <2>1, <3>1, <3>3 DEF ApproveByToken, TypeOK
    <3> QED
      BY <2>1, <3>2, <3>3 DEF ApproveByToken
  <2>2. ASSUME NEW kind \in Kinds, RejectByToken(kind)
        PROVE  TypeOK'
    BY <2>2, RejectType DEF RejectByToken, TypeOK, StateType, Rejected
  <2>3. CASE ModeratorAccept
    BY <2>3, ActiveKind, CompleteType DEF ModeratorAccept, TypeOK, StateType
  <2>4. CASE ModeratorReject
    BY <2>4, ActiveKind, RejectType
    DEF ModeratorReject, TypeOK, StateType, Rejected
  <2>5. CASE ForceWithdraw
    <3>1. state' \in StateType
      BY <2>5 DEF ForceWithdraw, TypeOK, StateType, CancelEmbargo, Kinds,
                  SanctionStates
    <3> QED
      BY <2>5, <3>1, UpdateType DEF ForceWithdraw, TypeOK, StateType, Kinds
  <2>6. CASE RequestWithdrawal
    BY <2>6, UpdateType
    DEF RequestWithdrawal, TypeOK, Kinds, SanctionStates
  <2>7. CASE RequestEmbargoTermination
    BY <2>7, UpdateType
    DEF RequestEmbargoTermination, TypeOK, Kinds, SanctionStates
  <2>8. CASE MakePublic
    BY <2>8 DEF MakePublic, TypeOK
  <2>9. CASE AutoApproveRegistration
    BY <2>9, AcceptType DEF AutoApproveRegistration, TypeOK, StateType, Kinds
  <2>10. CASE AutoApproveRegistrationFails
    BY <2>10 DEF AutoApproveRegistrationFails, TypeOK, SanctionStates, Kinds
  <2>11. CASE AutoRejectDeleted
    BY <2>11 DEF AutoRejectDeleted, TypeOK, SanctionStates, Kinds
  <2>12. CASE AutoApproveEmbargo
    BY <2>12, AcceptType DEF AutoApproveEmbargo, TypeOK, StateType, Kinds
  <2>13. CASE ExpireEmbargo
    BY <2>13 DEF ExpireEmbargo, CompleteEmbargo, TypeOK, SanctionStates, Kinds
  <2>14. CASE ExpireEmbargoFails
    BY <2>14, UpdateType
    DEF ExpireEmbargoFails, CompleteEmbargo, TypeOK, SanctionStates, Kinds
  <2>15. CASE AutoWithdraw
    BY <2>15, AcceptType DEF AutoWithdraw, TypeOK, StateType, Kinds
  <2>16. CASE AutoWithdrawFails
    BY <2>16
    DEF AutoWithdrawFails, CancelEmbargo, TypeOK, SanctionStates, Kinds
  <2>17. CASE AutoTerminateEmbargo
    <3>1. CASE Complete(Termination)
      BY <2>17, <3>1, CompleteType
      DEF AutoTerminateEmbargo, TypeOK, StateType, Kinds
    <3>2. CASE /\ state' = [state EXCEPT ![Termination] = "none"]
               /\ UNCHANGED <<public, moderation_state, last_trigger>>
      BY <2>17, <3>2 DEF AutoTerminateEmbargo, TypeOK
    <3> QED
      BY <2>17, <3>1, <3>2 DEF AutoTerminateEmbargo
  <2>18. CASE Environment
    <3>1. ASSUME NEW period \in Kinds \cup {EmbargoEnd}, PassTime(period)
          PROVE  TypeOK'
      BY <3>1 DEF PassTime, TypeOK
    <3>2. CASE ArchiveAdvances
      BY <3>2 DEF ArchiveAdvances, Progress!RootFinishes, Progress!AdminsAreAsked,
                  TypeOK, ArchiveStages
    <3>3. CASE ArchiveFails
      BY <3>3, ActiveKind DEF ArchiveFails, Progress!Fails, TypeOK, ArchiveStages,
                              SanctionStates
    <3>4. CASE RemoveStuck
      BY <3>4 DEF RemoveStuck, TypeOK, ArchiveStages
    <3>5. CASE ConfirmHam
      BY <3>5 DEF ConfirmHam, TypeOK
    <3> QED
      BY <2>18, <3>1, <3>2, <3>3, <3>4, <3>5 DEF Environment
  <2>19. CASE UNCHANGED vars
    BY <2>19 DEF vars, TypeOK
  <2> QED
    BY <2>1, <2>2, <2>3, <2>4, <2>5, <2>6, <2>7, <2>8, <2>9, <2>10, <2>11,
       <2>12, <2>13, <2>14, <2>15, <2>16, <2>17, <2>18, <2>19
    DEF Next, Respond, Moderate, Request, NightlyScripts
<1> QED
  BY <1>1, <1>2, PTL DEF Spec

-----------------------------------------------------------------------------
(* The inductive invariant.                                                *)

\* A sanction is active only when those it would hide behind are absent.
LEMMA ActiveHidesNone ==
  /\ ActiveSanction(state) = Termination => state[Retraction] = "none"
  /\ ActiveSanction(state) = Embargo =>
       state[Retraction] = "none" /\ state[Termination] = "none"
BY DEF ActiveSanction

\* A sanction nobody touches keeps its title: a period that is over stays over.
LEMMA EntitledStays ==
  ASSUME NEW kind \in Kinds, Entitled(kind), due \subseteq due',
         approvals'[kind] = approvals[kind], state'[kind] = state[kind]
  PROVE  Entitled(kind)'
BY DEF Entitled, Forced

\* What is not approved yet has its title from the admins or from time, and
\* keeps it when the moderators approve it.
LEMMA QueuedIsEntitled ==
  ASSUME NEW kind \in Kinds, Entitled(kind), due \subseteq due',
         approvals'[kind] = approvals[kind], state[kind] # "approved"
  PROVE  Entitled(kind)'
BY DEF Entitled, Forced

\* Completing a sanction that was waiting, with everyone's consent or its time
\* being up, keeps the invariant.
LEMMA CompleteKeepsInv ==
  ASSUME SanctionInv, TypeOK', NEW kind \in Kinds, Complete(kind),
         deleted' = deleted, due' = due,
         \A k \in Kinds \ {kind} : approvals'[k] = approvals[k],
         Entitled(kind)',
         \/ state[kind] = "unapproved"
         \/ state[kind] = "pending_moderation" /\ kind = ActiveSanction(state)
  PROVE  SanctionInv'
<1> USE DEF SanctionInv
<1>1. state' = Completed(kind) /\ public' = (public \/ Publishes(kind))
  BY DEF Complete
<1>2. NoAdminSkipped'
  <2> SUFFICES ASSUME NEW k \in Kinds,
                      state'[k] \in {"pending_moderation", "approved"}
               PROVE  Entitled(k)'
    BY DEF NoAdminSkipped
  <2>1. CASE k = kind
    BY <2>1
  <2>2. CASE k # kind
    <3>1. state'[k] = state[k]
      BY <1>1, <2>2, CompletedStages DEF Kinds
    <3> QED
      BY <3>1, EntitledStays DEF NoAdminSkipped
  <2> QED
    BY <2>1, <2>2
<1>3. WithdrawalCancelsEmbargo'
  BY <1>1, CompletedStages, ActiveHidesNone
  DEF WithdrawalCancelsEmbargo, Kinds
<1>4. WithdrawnIsPublic'
  BY <1>1, CompletedStages DEF WithdrawnIsPublic, Publishes, Kinds
<1>5. RejectionDeletes'
  BY <1>1, CompletedStages DEF RejectionDeletes, Rejected, Kinds
<1>6. OneInitialSanction'
  BY <1>1, CompletedStages DEF OneInitialSanction, IsEmbargoed, Kinds
<1>7. ASSUME ~Moderated PROVE NothingQueued' /\ EmbargoHonoured'
  <2>1. NothingQueued'
    BY <1>1, <1>7, CompletedStages DEF NothingQueued, Kinds
  <2>2. state[kind] = "unapproved"
    BY <1>7 DEF NothingQueued
  <2>3. EmbargoHonoured'
    BY <1>1, <1>7, <2>2, CompletedStages
    DEF EmbargoHonoured, OneInitialSanction, Publishes, IsEmbargoed, Kinds
  <2> QED
    BY <2>1, <2>3
<1>8. ASSUME ~MintMayFail PROVE CompletionPublishes'
  BY <1>1, <1>8, CompletedStages
  DEF CompletionPublishes, Publishes, Kinds
<1> QED
  BY <1>2, <1>3, <1>4, <1>5, <1>6, <1>7, <1>8

\* Accepting keeps it as well: the moderation queue changes no other sanction.
LEMMA AcceptKeepsInv ==
  ASSUME SanctionInv, TypeOK', NEW kind \in Kinds, Accept(kind),
         deleted' = deleted, due' = due,
         \A k \in Kinds \ {kind} : approvals'[k] = approvals[k],
         Entitled(kind)', state[kind] = "unapproved"
  PROVE  SanctionInv'
<1>1. CASE Complete(kind)
  BY <1>1, CompleteKeepsInv
<1>2. CASE /\ Moderated
           /\ state' = [state EXCEPT ![kind] = "pending_moderation"]
           /\ public' = public
  <2> USE <1>2 DEF SanctionInv
  <2>1. state'[kind] = "pending_moderation"
    BY DEF TypeOK
  <2>2. \A k \in Kinds \ {kind} : state'[k] = state[k]
    BY DEF TypeOK
  <2>3. NoAdminSkipped'
    BY <2>2, EntitledStays DEF NoAdminSkipped
  <2>4. WithdrawalCancelsEmbargo' /\ WithdrawnIsPublic' /\ RejectionDeletes'
        /\ OneInitialSanction' /\ (~MintMayFail => CompletionPublishes')
    BY <2>1, <2>2
    DEF WithdrawalCancelsEmbargo, WithdrawnIsPublic, RejectionDeletes, Rejected,
        OneInitialSanction, CompletionPublishes, Kinds
  <2> QED
    BY <2>3, <2>4
<1> QED
  BY <1>1, <1>2 DEF Accept, IsModerated

LEMMA RejectKeepsInv ==
  ASSUME SanctionInv, TypeOK', NEW kind \in Kinds, NEW to \in Rejected,
         Reject(kind, to), UNCHANGED <<approvals, public, due>>,
         state[kind] # "none"
  PROVE  SanctionInv'
<1> USE DEF SanctionInv
<1>1. state'[kind] \in Rejected \cup {"none"}
  BY DEF Reject, TypeOK
<1>2. \A k \in Kinds \ {kind} : state'[k] = state[k]
  BY DEF Reject, TypeOK
<1>3. kind # Termination => state'[kind] \in Rejected
  BY DEF Reject, TypeOK
<1>4. deleted' = (deleted \/ kind \in {Approval, Embargo})
  BY DEF Reject
<1>5. NoAdminSkipped'
  BY <1>1, <1>2, EntitledStays DEF NoAdminSkipped, Rejected
<1>6. WithdrawalCancelsEmbargo' /\ WithdrawnIsPublic' /\ RejectionDeletes'
  BY <1>1, <1>2, <1>3, <1>4
  DEF WithdrawalCancelsEmbargo, WithdrawnIsPublic, RejectionDeletes, Rejected,
      Kinds
<1>7. OneInitialSanction'
  BY <1>1, <1>2 DEF OneInitialSanction, Kinds
<1>8. ~Moderated => NothingQueued' /\ EmbargoHonoured'
  BY <1>1, <1>2 DEF NothingQueued, EmbargoHonoured, Rejected, Kinds
<1>9. ~MintMayFail => CompletionPublishes'
  BY <1>1, <1>2, <1>4 DEF CompletionPublishes, Rejected, Kinds
<1> QED
  BY <1>5, <1>6, <1>7, <1>8, <1>9

\* One admin's answer leaves the approvals of the other sanctions alone.
LEMMA OthersWait ==
  ASSUME TypeOK, NEW kind \in Kinds, NEW admin \in Admins,
         approvals' = [approvals EXCEPT ![kind] = @ \cup {admin}]
  PROVE  \A k \in Kinds \ {kind} : approvals'[k] = approvals[k]
BY DEF TypeOK

\* A new request is the only sanction that changes, and has no consent yet.
LEMMA RequestKeepsInv ==
  ASSUME SanctionInv, TypeOK', NEW kind \in {Retraction, Termination},
         state' = [state EXCEPT ![kind] = "unapproved"],
         approvals' = [approvals EXCEPT ![kind] = {}],
         due' = due \ {kind}, public' = public, deleted' = deleted
  PROVE  SanctionInv'
<1> USE DEF SanctionInv
<1>1. /\ state'[kind] = "unapproved"
      /\ \A k \in Kinds \ {kind} :
           state'[k] = state[k] /\ approvals'[k] = approvals[k]
  BY DEF TypeOK, Kinds
<1>2. NoAdminSkipped'
  <2> SUFFICES ASSUME NEW k \in Kinds, k # kind, Entitled(k)
               PROVE  Entitled(k)'
    BY <1>1 DEF NoAdminSkipped
  <2> QED
    BY <1>1 DEF Entitled, Forced
<1>3. WithdrawalCancelsEmbargo' /\ WithdrawnIsPublic' /\ OneInitialSanction'
  BY <1>1
  DEF WithdrawalCancelsEmbargo, WithdrawnIsPublic, OneInitialSanction, Kinds
<1>4. RejectionDeletes'
  BY <1>1 DEF RejectionDeletes, Rejected, Kinds
<1>5. /\ ~Moderated => NothingQueued' /\ EmbargoHonoured'
      /\ ~MintMayFail => CompletionPublishes'
  BY <1>1 DEF NothingQueued, EmbargoHonoured, CompletionPublishes, Kinds
<1> QED
  BY <1>2, <1>3, <1>4, <1>5

\* The embargo that has run out is completed, its termination accepted.
LEMMA ExpiryKeepsInv ==
  ASSUME SanctionInv, TypeOK', EmbargoOver, state' = CompleteEmbargo(state),
         UNCHANGED <<approvals, deleted, due>>, public' \in {public, TRUE},
         MintMayFail \/ public'
  PROVE  SanctionInv'
<1> USE DEF SanctionInv
<1>1. /\ state'[Embargo] = "completed"
      /\ state'[Approval] = state[Approval]
      /\ state'[Retraction] = state[Retraction]
      /\ state'[Termination] = IF state[Termination] = "unapproved"
                               THEN "approved" ELSE state[Termination]
  BY DEF CompleteEmbargo, TypeOK, Kinds
<1>2. state[Embargo] = "approved" /\ EmbargoEnd \in due
  BY DEF EmbargoOver, IsEmbargoed
<1>3. NoAdminSkipped'
  BY <1>1, <1>2 DEF NoAdminSkipped, Entitled, Forced, Kinds
<1>4. WithdrawalCancelsEmbargo' /\ WithdrawnIsPublic' /\ OneInitialSanction'
      /\ RejectionDeletes'
  BY <1>1, <1>2
  DEF WithdrawalCancelsEmbargo, WithdrawnIsPublic, OneInitialSanction,
      RejectionDeletes, Rejected
<1>5. /\ ~Moderated => NothingQueued' /\ EmbargoHonoured'
      /\ ~MintMayFail => CompletionPublishes'
  BY <1>1, <1>2 DEF NothingQueued, EmbargoHonoured, CompletionPublishes, Kinds
<1> QED
  BY <1>3, <1>4, <1>5

\* SanctionInv is inductive: one step per action, TypeOK coming from Typing's
\* argument and the rest from the lemmas above.
THEOREM Safety == Spec => []SanctionInv
<1>1. Init => SanctionInv
  <2> SUFFICES ASSUME Init PROVE SanctionInv
    OBVIOUS
  <2>1. TypeOK
    BY DEF Init, Progress!Init, TypeOK, Kinds, SanctionStates, ModerationStates,
         ArchiveStages
  <2>2. \A k \in Kinds : state[k] \in {"unapproved", "none"}
    BY DEF Init
  <2>3. OneInitialSanction
    BY DEF Init, OneInitialSanction, Kinds
  <2> QED
    BY <2>1, <2>2, <2>3
    DEF Init, SanctionInv, NoAdminSkipped, WithdrawalCancelsEmbargo,
        WithdrawnIsPublic, RejectionDeletes, Rejected, NothingQueued,
        EmbargoHonoured, CompletionPublishes, Kinds
<1>2. SanctionInv /\ TypeOK' /\ [Next]_vars => SanctionInv'
  <2> SUFFICES ASSUME SanctionInv, TypeOK', [Next]_vars PROVE SanctionInv'
    OBVIOUS
  <2>0. TypeOK
    BY DEF SanctionInv
  <2>1. ASSUME NEW admin \in Admins, NEW kind \in Kinds,
               ApproveByToken(admin, kind)
        PROVE  SanctionInv'
    <3>1. \A k \in Kinds \ {kind} : approvals'[k] = approvals[k]
      BY <2>0, <2>1, OthersWait DEF ApproveByToken
    <3>2. state[kind] = "unapproved" /\ deleted' = deleted /\ due' = due
      BY <2>1 DEF ApproveByToken
    <3>3. CASE AllApproved(approvals[kind] \cup {admin}) /\ Accept(kind)
      <4>1. Entitled(kind)'
        BY <2>0, <2>1, <3>3 DEF ApproveByToken, AllApproved, Entitled, TypeOK
      <4> QED
        BY <3>1, <3>2, <3>3, <4>1, AcceptKeepsInv
    <3>4. CASE UNCHANGED <<state, public, moderation_state, last_trigger>>
      <4>1. NoAdminSkipped'
        BY <2>0, <3>1, <3>2, <3>4, EntitledStays
        DEF SanctionInv, NoAdminSkipped
      <4> QED
        BY <3>2, <3>4, <4>1
        DEF SanctionInv, WithdrawalCancelsEmbargo, WithdrawnIsPublic,
            RejectionDeletes, OneInitialSanction, NothingQueued,
            EmbargoHonoured, CompletionPublishes
    <3> QED
      BY <2>1, <3>3, <3>4 DEF ApproveByToken
  <2>2. ASSUME NEW kind \in Kinds, RejectByToken(kind)
        PROVE  SanctionInv'
    BY <2>2, RejectKeepsInv DEF RejectByToken, Rejected
  <2>3. CASE ModeratorAccept
    <3>1. PICK kind \in Kinds : kind = ActiveSanction(state)
      BY ActiveKind
    <3>2. /\ state[kind] = "pending_moderation"
          /\ Complete(kind)
          /\ UNCHANGED <<approvals, deleted, due>>
      BY <2>3, <3>1 DEF ModeratorAccept
    <3>3. Entitled(kind)'
      BY <3>2, QueuedIsEntitled DEF SanctionInv, NoAdminSkipped
    <3> QED
      BY <3>1, <3>2, <3>3, CompleteKeepsInv
  <2>4. CASE ModeratorReject
    BY <2>4, ActiveKind, RejectKeepsInv DEF ModeratorReject, Rejected
  <2>5. CASE ForceWithdraw
    <3>1. /\ state'[Retraction] = "approved"
          /\ state'[Approval] = state[Approval]
          /\ state'[Termination] = state[Termination]
          /\ state'[Embargo] = IF state[Embargo] \in {"unapproved", "approved"}
                               THEN "moderator_rejected" ELSE state[Embargo]
          /\ \A k \in Kinds \ {Retraction} : approvals'[k] = approvals[k]
          /\ approvals'[Retraction] = {}
          /\ due' = due \ {Retraction} /\ public' = TRUE /\ deleted' = deleted
          /\ Moderated
      BY <2>0, <2>5 DEF ForceWithdraw, CancelEmbargo, TypeOK, Kinds
    <3>2. NoAdminSkipped'
      <4> SUFFICES ASSUME NEW k \in Kinds, k # Retraction, Entitled(k)
                   PROVE  Entitled(k)'
        BY <3>1 DEF SanctionInv, NoAdminSkipped, Entitled, Forced, Kinds
      <4> QED
        BY <3>1 DEF Entitled, Forced
    <3> QED
      BY <3>1, <3>2
      DEF SanctionInv, WithdrawalCancelsEmbargo, WithdrawnIsPublic,
          RejectionDeletes, Rejected, OneInitialSanction, CompletionPublishes
  <2>6. CASE RequestWithdrawal
    BY <2>6, RequestKeepsInv DEF RequestWithdrawal
  <2>7. CASE RequestEmbargoTermination
    BY <2>7, RequestKeepsInv DEF RequestEmbargoTermination
  <2>8. CASE MakePublic
    <3>1. NoAdminSkipped'
      BY <2>8 DEF MakePublic, SanctionInv, NoAdminSkipped, Entitled, Forced
    <3> QED
      BY <2>8, <3>1
      DEF MakePublic, NothingUnapproved, IsEmbargoed, SanctionInv,
          WithdrawalCancelsEmbargo, WithdrawnIsPublic, RejectionDeletes,
          OneInitialSanction, NothingQueued, EmbargoHonoured,
          CompletionPublishes
  <2>9. CASE AutoApproveRegistration
    <3>1. Entitled(Approval)' /\ state[Approval] = "unapproved"
      BY <2>9 DEF AutoApproveRegistration, ApprovalOverdue, Entitled
    <3> QED
      BY <2>9, <3>1, AcceptKeepsInv DEF AutoApproveRegistration, Kinds
  <2>10. CASE AutoApproveRegistrationFails
    <3>1. /\ state'[Approval] = "approved" /\ state[Approval] = "unapproved"
          /\ \A k \in Kinds \ {Approval} : state'[k] = state[k]
          /\ UNCHANGED <<approvals, deleted, due>>
          /\ MintMayFail /\ Approval \in due
      BY <2>0, <2>10
      DEF AutoApproveRegistrationFails, ApprovalOverdue, TypeOK, Kinds
    <3>3. public => public'
      <4>1. public' \in {public, TRUE}
        BY <2>10 DEF AutoApproveRegistrationFails
      <4> QED
        BY <4>1, Zenon
    <3>2. NoAdminSkipped'
      BY <3>1 DEF SanctionInv, NoAdminSkipped, Entitled, Forced
    <3> QED
      BY <3>1, <3>3, <3>2
      DEF SanctionInv, WithdrawalCancelsEmbargo, WithdrawnIsPublic,
          RejectionDeletes, Rejected, OneInitialSanction, NothingQueued,
          EmbargoHonoured, Kinds
  <2>11. CASE AutoRejectDeleted
    <3>1. /\ state'[Approval] = "rejected" /\ state[Approval] = "unapproved"
          /\ \A k \in Kinds \ {Approval} : state'[k] = state[k]
          /\ UNCHANGED <<approvals, due, public>> /\ deleted'
      BY <2>0, <2>11 DEF AutoRejectDeleted, ApprovalOverdue, TypeOK, Kinds
    <3>2. NoAdminSkipped'
      BY <3>1 DEF SanctionInv, NoAdminSkipped, Entitled, Forced
    <3> QED
      BY <3>1, <3>2
      DEF SanctionInv, WithdrawalCancelsEmbargo, WithdrawnIsPublic,
          RejectionDeletes, OneInitialSanction, NothingQueued,
          EmbargoHonoured, CompletionPublishes, Kinds
  <2>12. CASE AutoApproveEmbargo
    <3>1. Entitled(Embargo)' /\ state[Embargo] = "unapproved"
      BY <2>12 DEF AutoApproveEmbargo, EmbargoOverdue, Entitled
    <3> QED
      BY <2>12, <3>1, AcceptKeepsInv DEF AutoApproveEmbargo, Kinds
  <2>13. CASE ExpireEmbargo
    BY <2>13, ExpiryKeepsInv DEF ExpireEmbargo
  <2>14. CASE ExpireEmbargoFails
    BY <2>14, ExpiryKeepsInv DEF ExpireEmbargoFails
  <2>15. CASE AutoWithdraw
    <3>1. Entitled(Retraction)' /\ state[Retraction] = "unapproved"
      BY <2>15 DEF AutoWithdraw, RetractionOverdue, Entitled
    <3> QED
      BY <2>15, <3>1, AcceptKeepsInv DEF AutoWithdraw, Kinds
  <2>16. CASE AutoWithdrawFails
    <3>1. /\ state'[Embargo] = IF state[Embargo] \in {"unapproved", "approved"}
                               THEN "rejected" ELSE state[Embargo]
          /\ \A k \in Kinds \ {Embargo} : state'[k] = state[k]
          /\ UNCHANGED <<approvals, deleted, due, public>>
          /\ state[Retraction] = "unapproved"
      BY <2>0, <2>16
      DEF AutoWithdrawFails, RetractionOverdue, CancelEmbargo, TypeOK, Kinds
    <3>2. NoAdminSkipped'
      BY <3>1 DEF SanctionInv, NoAdminSkipped, Entitled, Forced
    <3> QED
      BY <3>1, <3>2
      DEF SanctionInv, WithdrawalCancelsEmbargo, WithdrawnIsPublic,
          RejectionDeletes, Rejected, OneInitialSanction, NothingQueued,
          EmbargoHonoured, CompletionPublishes, Kinds
  <2>17. CASE AutoTerminateEmbargo
    <3>1. /\ Entitled(Termination)' /\ state[Termination] = "unapproved"
          /\ UNCHANGED <<approvals, deleted, due>>
      BY <2>17 DEF AutoTerminateEmbargo, TerminationOverdue, Entitled
    <3>2. CASE Complete(Termination)
      BY <3>1, <3>2, CompleteKeepsInv DEF Kinds
    <3>3. CASE /\ state' = [state EXCEPT ![Termination] = "none"]
               /\ UNCHANGED public
      <4>1. /\ state'[Termination] = "none"
            /\ \A k \in Kinds \ {Termination} : state'[k] = state[k]
        BY <2>0, <3>3 DEF TypeOK, Kinds
      <4>2. NoAdminSkipped'
        BY <3>1, <4>1 DEF SanctionInv, NoAdminSkipped, Entitled, Forced
      <4> QED
        BY <3>1, <3>3, <4>1, <4>2
        DEF SanctionInv, WithdrawalCancelsEmbargo, WithdrawnIsPublic,
            RejectionDeletes, OneInitialSanction, NothingQueued,
            EmbargoHonoured, CompletionPublishes, Kinds
    <3> QED
      BY <2>17, <3>2, <3>3 DEF AutoTerminateEmbargo
  <2>18. CASE Environment
    <3>1. CASE ArchiveFails
      <4>1. /\ \A k \in Kinds : state'[k] \in {state[k], "rejected"}
            /\ deleted' /\ UNCHANGED <<approvals, due, public>>
        BY <2>0, <3>1 DEF ArchiveFails, TypeOK
      <4>2. NoAdminSkipped'
        BY <4>1 DEF SanctionInv, NoAdminSkipped, Entitled, Forced
      <4>3. OneInitialSanction'
        BY <2>0, <3>1 DEF ArchiveFails, ActiveSanction, OneInitialSanction,
                          SanctionInv, TypeOK, Kinds
      <4> QED
        BY <4>1, <4>2, <4>3
        DEF SanctionInv, WithdrawalCancelsEmbargo, WithdrawnIsPublic,
            RejectionDeletes, NothingQueued, EmbargoHonoured,
            CompletionPublishes, Kinds
    <3>2. CASE /\ UNCHANGED <<state, approvals, public>>
               /\ due \subseteq due' /\ (deleted => deleted')
      <4>1. NoAdminSkipped'
        BY <2>0, <3>2, EntitledStays DEF SanctionInv, NoAdminSkipped
      <4> QED
        BY <3>2, <4>1
        DEF SanctionInv, WithdrawalCancelsEmbargo, WithdrawnIsPublic,
            RejectionDeletes, OneInitialSanction, NothingQueued,
            EmbargoHonoured, CompletionPublishes
    <3> QED
      BY <2>18, <3>1, <3>2
      DEF Environment, PassTime, ArchiveAdvances, RemoveStuck, ConfirmHam
  <2>19. CASE UNCHANGED vars
    <3>1. NoAdminSkipped'
      BY <2>19 DEF vars, SanctionInv, NoAdminSkipped, Entitled, Forced
    <3> QED
      BY <2>19, <3>1
      DEF vars, SanctionInv, WithdrawalCancelsEmbargo, WithdrawnIsPublic,
          RejectionDeletes, OneInitialSanction, NothingQueued,
          EmbargoHonoured, CompletionPublishes
  <2> QED
    BY <2>1, <2>2, <2>3, <2>4, <2>5, <2>6, <2>7, <2>8, <2>9, <2>10, <2>11,
       <2>12, <2>13, <2>14, <2>15, <2>16, <2>17, <2>18, <2>19
    DEF Next, Respond, Moderate, Request, NightlyScripts
<1> QED
  BY <1>1, <1>2, Typing, PTL DEF Spec

\* No sanction leaves UNAPPROVED over the head of an admin: whatever was
\* replaced, retried or committed by half, each one past it is entitled to be.
THEOREM AdminsAreNotSkipped == Spec => []NoAdminSkipped
BY Safety, PTL DEF SanctionInv

\* No withdrawal leaves an embargo that a script could activate or complete,
\* moderated or not, and even after a half-committed withdrawal.
THEOREM WithdrawalEndsEmbargo == Spec => []WithdrawalCancelsEmbargo
BY Safety, PTL DEF SanctionInv

\* Every path to an approved retraction has published the registration.
THEOREM WithdrawnShows == Spec => []WithdrawnIsPublic
BY Safety, PTL DEF SanctionInv

\* A registration whose initial sanction was rejected is gone.
THEOREM RejectedIsDeleted == Spec => []RejectionDeletes
BY Safety, PTL DEF SanctionInv

\* Without a moderation queue no embargoed registration is ever public.
THEOREM EmbargoIsHonoured == Spec => [](Moderated \/ EmbargoHonoured)
BY Safety, PTL DEF SanctionInv

\* While the DOI service answers, a completed sanction has published.
THEOREM CompletionIsPublication == Spec => [](MintMayFail \/ CompletionPublishes)
BY Safety, PTL DEF SanctionInv

-----------------------------------------------------------------------------
(* The moderation state and the moderators' log.                           *)

\* A withdrawal in the moderation queue is known as such, so that its
\* acceptance is recorded as one.
WithdrawalIsKnown ==
  state[Retraction] = "pending_moderation" /\ ~deleted =>
    moderation_state = "pending_withdraw"

\* A termination that waits for its admins has an embargo to end, unless a
\* withdrawal hides it: the script that detaches one with no embargo left
\* changes nothing anybody sees.
TerminationIsLive ==
  state[Termination] = "unapproved" =>
    IsEmbargoed \/ deleted \/ state[Retraction] # "none"

\* The inductive invariant of what is stored beside the sanctions, relative to
\* SanctionInv.
RecordInv ==
  /\ ModerationIsRecorded
  /\ WithdrawalIsKnown
  /\ TerminationIsLive
  /\ MintMayFail \/ ModerationStateLag

\* What update_moderation_state stores and logs, by the sanctions it is given
LEMMA UpdateRecords ==
  ASSUME NEW st \in StateType, UpdateModerationState(st)
  PROVE  /\ moderation_state' = Derived(st)
         /\ st[Retraction] = "pending_moderation" =>
              moderation_state' = "pending_withdraw"
         /\ st[Retraction] = "approved" =>
              last_trigger' \in
                {last_trigger, "accept_withdrawal", "force_withdraw"}
         /\ st[Approval] = "approved" /\ st[Embargo] = "none" =>
              \/ last_trigger' = last_trigger
              \/ last_trigger' \notin {"none", "submit"}
<1>1. moderation_state' = Derived(st)
  BY DEF UpdateModerationState
<1>2. ASSUME st[Retraction] = "pending_moderation"
      PROVE  Derived(st) = "pending_withdraw"
  BY <1>2 DEF Derived, ActiveSanction, FromSanction
<1>3. ASSUME st[Retraction] = "approved"
      PROVE  last_trigger' \in
               {last_trigger, "accept_withdrawal", "force_withdraw"}
  <2>1. Derived(st) = "withdrawn"
    BY <1>3 DEF Derived, ActiveSanction, FromSanction
  <2> QED
    BY <2>1 DEF UpdateModerationState, FromTransition
<1>4. ASSUME st[Approval] = "approved", st[Embargo] = "none"
      PROVE  \/ last_trigger' = last_trigger
             \/ last_trigger' \notin {"none", "submit"}
  <2>1. Derived(st) # "pending"
    <3>1. CASE ActiveSanction(st) = Approval
      BY <1>4, <3>1 DEF Derived, FromSanction
    <3>2. CASE ActiveSanction(st) \in {Retraction, Termination}
      BY <1>4, <3>2 DEF Derived, FromSanction
    <3>3. ActiveSanction(st) # Embargo
      BY <1>4 DEF ActiveSanction
    <3> QED
      BY <3>1, <3>2, <3>3, ActiveKind DEF Kinds
  <2> QED
    BY <2>1 DEF UpdateModerationState, FromTransition
<1> QED
  BY <1>1, <1>2, <1>3, <1>4

\* A step that refreshes the moderation state keeps the record, if it is logged
\* as a decision when it approves what moderators decide.
LEMMA UpdateKeepsRecord ==
  ASSUME RecordInv, SanctionInv', NEW st, state' = st,
         UpdateModerationState(st), TerminationIsLive',
         Moderated /\ st[Approval] = "approved" =>
           state[Approval] = "approved" \/ last_trigger' \notin {"none", "submit"},
         Moderated /\ st[Retraction] = "approved" =>
           \/ state[Retraction] = "approved"
           \/ last_trigger' \in {"accept_withdrawal", "force_withdraw"}
  PROVE  RecordInv'
<1>1. st \in StateType
  BY DEF SanctionInv, TypeOK, StateType
<1>2. ModerationStateLag' /\ WithdrawalIsKnown'
  BY <1>1, UpdateRecords DEF ModerationStateLag, WithdrawalIsKnown
<1>3. ASSUME Moderated PROVE ModerationIsRecorded'
  <2>1. st[Approval] = "approved" => last_trigger' \notin {"none", "submit"}
    <3> SUFFICES ASSUME st[Approval] = "approved",
                        state[Approval] = "approved"
                 PROVE  last_trigger' \notin {"none", "submit"}
      BY <1>3
    <3>1. st[Embargo] = "none"
      BY DEF SanctionInv, OneInitialSanction
    <3> QED
      BY <1>1, <1>3, <3>1, UpdateRecords DEF RecordInv, ModerationIsRecorded
  <2>2. st[Retraction] = "approved" =>
          last_trigger' \in {"accept_withdrawal", "force_withdraw"}
    BY <1>1, <1>3, UpdateRecords DEF RecordInv, ModerationIsRecorded
  <2> QED
    BY <2>1, <2>2 DEF ModerationIsRecorded
<1> QED
  BY <1>2, <1>3 DEF RecordInv, ModerationIsRecorded

\* What is completed was waiting, so no embargo a termination needs is lost,
\* except with a withdrawal.
LEMMA CompleteKeepsTermination ==
  ASSUME SanctionInv, TerminationIsLive, NEW kind \in Kinds, Complete(kind),
         deleted' = deleted,
         state[kind] \in {"unapproved", "pending_moderation"}
  PROVE  TerminationIsLive'
<1>1. state' = Completed(kind) /\ public' = (public \/ Publishes(kind))
  BY DEF Complete
<1>2. SUFFICES ASSUME state'[Termination] = "unapproved",
                      state'[Retraction] = "none", ~deleted
               PROVE  IsEmbargoed'
  BY DEF TerminationIsLive
<1>3. kind \notin {Termination, Retraction}
  BY <1>1, <1>2, CompletedStages DEF SanctionInv
<1>4. state[Termination] = "unapproved" /\ state[Retraction] = "none"
  BY <1>1, <1>2, <1>3, CompletedStages DEF SanctionInv, Kinds
<1>5. IsEmbargoed
  BY <1>2, <1>4 DEF TerminationIsLive
<1> QED
  BY <1>3, <1>5 DEF IsEmbargoed, SanctionInv, OneInitialSanction, Kinds

LEMMA AcceptKeepsTermination ==
  ASSUME SanctionInv, TerminationIsLive, NEW kind \in Kinds, Accept(kind),
         deleted' = deleted, state[kind] = "unapproved"
  PROVE  TerminationIsLive'
<1>1. CASE Complete(kind)
  BY <1>1, CompleteKeepsTermination
<1>2. CASE /\ kind # Termination
           /\ state' = [state EXCEPT ![kind] = "pending_moderation"]
           /\ public' = public
  <2>1. /\ state'[kind] = "pending_moderation"
        /\ \A k \in Kinds \ {kind} : state'[k] = state[k]
    BY <1>2 DEF SanctionInv, TypeOK
  <2> QED
    BY <1>2, <2>1 DEF TerminationIsLive, IsEmbargoed, Kinds
<1> QED
  BY <1>1, <1>2 DEF Accept, IsModerated

\* A sanction that is accepted without a moderator is not moderated, or only
\* enters the queue.
LEMMA AcceptKeepsRecord ==
  ASSUME RecordInv, SanctionInv, SanctionInv', NEW kind \in Kinds, Accept(kind),
         deleted' = deleted, state[kind] = "unapproved"
  PROVE  RecordInv'
<1>1. TerminationIsLive'
  BY AcceptKeepsTermination DEF RecordInv
<1>2. UpdateModerationState(state')
  BY DEF Accept, Complete
<1>3. ASSUME Moderated, NEW k \in {Approval, Retraction},
             state'[k] = "approved"
      PROVE  state[k] = "approved"
  <2>1. CASE kind = Termination
    <3>1. Complete(kind)
      BY <2>1 DEF Accept, IsModerated
    <3> QED
      BY <1>3, <2>1, <3>1, CompletedStages DEF Complete, SanctionInv, Kinds
  <2>2. CASE kind # Termination
    <3>1. state' = [state EXCEPT ![kind] = "pending_moderation"]
      BY <1>3, <2>2 DEF Accept, IsModerated
    <3> QED
      BY <1>3, <3>1 DEF SanctionInv, TypeOK, Kinds
  <2> QED
    BY <2>1, <2>2
<1> QED
  BY <1>1, <1>2, <1>3, UpdateKeepsRecord

LEMMA RejectKeepsRecord ==
  ASSUME RecordInv, SanctionInv, SanctionInv', NEW kind \in Kinds,
         NEW to \in Rejected, Reject(kind, to), public' = public
  PROVE  RecordInv'
<1>1. /\ state'[kind] \in Rejected \cup {"none"}
      /\ \A k \in Kinds \ {kind} : state'[k] = state[k]
      /\ kind # Termination => state'[kind] \in Rejected
      /\ kind = Termination => state'[kind] = "none"
  BY DEF Reject, SanctionInv, TypeOK
<1>2. deleted' = (deleted \/ kind \in {Approval, Embargo})
  BY DEF Reject
<1>3. TerminationIsLive'
  BY <1>1, <1>2
  DEF RecordInv, TerminationIsLive, IsEmbargoed, Rejected, Kinds
<1>4. UpdateModerationState(state')
  BY DEF Reject
<1>5. \A k \in {Approval, Retraction} :
        state'[k] = "approved" => state[k] = "approved"
  BY <1>1 DEF Rejected, Kinds
<1> QED
  BY <1>3, <1>4, <1>5, UpdateKeepsRecord

\* A new request is not approved yet, and a termination is only asked for an
\* embargoed registration.
LEMMA RequestKeepsRecord ==
  ASSUME RecordInv, SanctionInv, SanctionInv',
         NEW kind \in {Retraction, Termination},
         state' = [state EXCEPT ![kind] = "unapproved"],
         UpdateModerationState(state'), UNCHANGED <<public, deleted>>,
         kind = Termination => IsEmbargoed
  PROVE  RecordInv'
<1>1. /\ state'[kind] = "unapproved"
      /\ \A k \in Kinds \ {kind} : state'[k] = state[k]
  BY DEF SanctionInv, TypeOK, Kinds
<1>2. TerminationIsLive'
  BY <1>1 DEF RecordInv, TerminationIsLive, IsEmbargoed, Kinds
<1>3. \A k \in {Approval, Retraction} :
        state'[k] = "approved" => state[k] = "approved"
  BY <1>1 DEF Kinds
<1> QED
  BY <1>2, <1>3, UpdateKeepsRecord

\* A step after which the moderation state may be stale, because it leaves it
\* alone: the approval and the withdrawal are not approved by it, no
\* withdrawal is queued, no termination is asked for, and what it changes is
\* covered by the lag.
LEMMA SilentKeepsRecord ==
  ASSUME RecordInv, TerminationIsLive',
         MintMayFail \/ (ModerationStateLag => ModerationStateLag'),
         UNCHANGED <<moderation_state, last_trigger>>, deleted => deleted',
         Moderated => \A k \in {Approval, Retraction} :
                        state'[k] = "approved" => state[k] = "approved",
         state'[Retraction] = "pending_moderation" =>
           state[Retraction] = "pending_moderation"
  PROVE  RecordInv'
<1>1. ModerationIsRecorded'
  BY DEF RecordInv, ModerationIsRecorded
<1>2. WithdrawalIsKnown'
  BY DEF RecordInv, WithdrawalIsKnown
<1> QED
  BY <1>1, <1>2 DEF RecordInv

\* A moderator decides what is in the queue, and the decision is logged: a
\* queued withdrawal is known to be one.
LEMMA ModeratorKeepsRecord ==
  ASSUME RecordInv, SanctionInv, SanctionInv', ModeratorAccept
  PROVE  RecordInv'
<1>1. PICK kind \in Kinds : kind = ActiveSanction(state)
  BY ActiveKind
<1>2. /\ state[kind] = "pending_moderation" /\ Complete(kind)
      /\ deleted' = deleted
      /\ last_trigger' \in {"accept_submission", "accept_withdrawal"}
  BY <1>1 DEF ModeratorAccept
<1>3. TerminationIsLive'
  BY <1>2, CompleteKeepsTermination DEF RecordInv
<1>4. UpdateModerationState(state')
  BY <1>2 DEF Complete
<1>5. ASSUME state'[Retraction] = "approved", state[Retraction] # "approved"
      PROVE  last_trigger' = "accept_withdrawal"
  <2>1. kind = Retraction
    BY <1>2, <1>5, CompletedStages DEF Complete, SanctionInv, Kinds
  <2>2. moderation_state = "pending_withdraw"
    BY <1>2, <2>1 DEF RecordInv, WithdrawalIsKnown, Complete, CanComplete
  <2>3. Derived(state') = "withdrawn"
    BY <1>5 DEF Derived, ActiveSanction, FromSanction
  <2> QED
    BY <1>4, <2>2, <2>3 DEF UpdateModerationState, FromTransition
<1> QED
  BY <1>2, <1>3, <1>4, <1>5, UpdateKeepsRecord

\* RecordInv is inductive relative to SanctionInv: one step per action.
THEOREM Recording == Spec => []RecordInv
<1>1. Init => RecordInv
  BY DEF Init, RecordInv, ModerationIsRecorded, WithdrawalIsKnown,
         TerminationIsLive, ModerationStateLag, Derived, ActiveSanction,
         FromSanction, Kinds
<1>2. RecordInv /\ SanctionInv /\ SanctionInv' /\ [Next]_vars => RecordInv'
  <2> SUFFICES ASSUME RecordInv, SanctionInv, SanctionInv', [Next]_vars
               PROVE  RecordInv'
    OBVIOUS
  <2>0. TypeOK /\ TerminationIsLive
    BY DEF SanctionInv, RecordInv
  <2>1. ASSUME UNCHANGED <<state, public, moderation_state, last_trigger>>,
               due \subseteq due', deleted => deleted'
        PROVE  RecordInv'
    <3>1. TerminationIsLive'
      BY <2>0, <2>1 DEF TerminationIsLive, IsEmbargoed
    <3>2. ModerationStateLag => ModerationStateLag'
      BY <2>1 DEF ModerationStateLag
    <3> QED
      BY <2>1, <3>1, <3>2, SilentKeepsRecord
  <2>2. ASSUME NEW admin \in Admins, NEW kind \in Kinds,
               ApproveByToken(admin, kind)
        PROVE  RecordInv'
    <3>1. CASE Accept(kind)
      BY <2>2, <3>1, AcceptKeepsRecord DEF ApproveByToken
    <3>2. CASE UNCHANGED <<state, public, moderation_state, last_trigger>>
      BY <2>1, <2>2, <3>2 DEF ApproveByToken
    <3> QED
      BY <2>2, <3>1, <3>2 DEF ApproveByToken
  <2>3. ASSUME NEW kind \in Kinds, RejectByToken(kind)
        PROVE  RecordInv'
    BY <2>3, RejectKeepsRecord DEF RejectByToken, Rejected
  <2>4. CASE ModeratorAccept
    BY <2>4, ModeratorKeepsRecord
  <2>5. CASE ModeratorReject
    BY <2>5, ActiveKind, RejectKeepsRecord DEF ModeratorReject, Rejected
  <2>6. CASE ForceWithdraw
    <3>1. state'[Retraction] = "approved"
      BY <2>0, <2>6 DEF ForceWithdraw, CancelEmbargo, TypeOK, Kinds
    <3>2. TerminationIsLive'
      BY <3>1 DEF TerminationIsLive
    <3>3. UpdateModerationState(state') /\ last_trigger' = "force_withdraw"
      BY <2>6 DEF ForceWithdraw
    <3> QED
      BY <3>2, <3>3, UpdateKeepsRecord
  <2>7. CASE RequestWithdrawal
    BY <2>7, RequestKeepsRecord DEF RequestWithdrawal
  <2>8. CASE RequestEmbargoTermination
    BY <2>8, RequestKeepsRecord DEF RequestEmbargoTermination
  <2>9. CASE MakePublic
    <3>1. TerminationIsLive'
      BY <2>0, <2>9 DEF MakePublic, TerminationIsLive, IsEmbargoed
    <3>2. ModerationStateLag => ModerationStateLag'
      BY <2>9 DEF MakePublic, ModerationStateLag
    <3> QED
      BY <2>9, <3>1, <3>2, SilentKeepsRecord DEF MakePublic
  <2>10. CASE AutoApproveRegistration \/ AutoApproveEmbargo \/ AutoWithdraw
    BY <2>10, AcceptKeepsRecord
    DEF AutoApproveRegistration, AutoApproveEmbargo, AutoWithdraw,
        ApprovalOverdue, EmbargoOverdue, RetractionOverdue, Kinds
  <2>11. CASE AutoApproveRegistrationFails
    <3>1. /\ state[Approval] = "unapproved" /\ MintMayFail /\ ~Moderated
          /\ \A k \in Kinds \ {Approval} : state'[k] = state[k]
          /\ UNCHANGED <<deleted, moderation_state, last_trigger>>
      BY <2>0, <2>11
      DEF AutoApproveRegistrationFails, ApprovalOverdue, TypeOK, Kinds
    <3>2. ~IsEmbargoed
      BY <3>1 DEF SanctionInv, OneInitialSanction, IsEmbargoed
    <3>3. TerminationIsLive'
      BY <2>0, <3>1, <3>2 DEF TerminationIsLive, Kinds
    <3> QED
      BY <3>1, <3>3, SilentKeepsRecord DEF Kinds
  <2>12. CASE AutoRejectDeleted
    <3>1. /\ state'[Approval] = "rejected" /\ deleted'
          /\ \A k \in Kinds \ {Approval} : state'[k] = state[k]
          /\ UNCHANGED <<moderation_state, last_trigger>>
      BY <2>0, <2>12 DEF AutoRejectDeleted, TypeOK, Kinds
    <3> QED
      BY <3>1, SilentKeepsRecord
      DEF TerminationIsLive, ModerationStateLag, Kinds
  <2>13. CASE ExpireEmbargo \/ ExpireEmbargoFails
    <3>1. /\ state'[Embargo] = "completed" /\ state'[Termination] # "unapproved"
          /\ state'[Approval] = state[Approval]
          /\ state'[Retraction] = state[Retraction]
          /\ EmbargoEnd \in due' /\ deleted' = deleted
      BY <2>0, <2>13
      DEF ExpireEmbargo, ExpireEmbargoFails, EmbargoOver, CompleteEmbargo,
          TypeOK, Kinds
    <3>2. TerminationIsLive'
      BY <3>1 DEF TerminationIsLive
    <3>3. CASE UNCHANGED <<moderation_state, last_trigger>>
      BY <3>1, <3>2, <3>3, SilentKeepsRecord DEF ModerationStateLag
    <3>4. CASE UpdateModerationState(state')
      BY <3>1, <3>2, <3>4, UpdateKeepsRecord
    <3> QED
      BY <2>13, <3>3, <3>4 DEF ExpireEmbargo, ExpireEmbargoFails
  <2>14. CASE AutoWithdrawFails
    <3>1. /\ \A k \in Kinds \ {Embargo} : state'[k] = state[k]
          /\ state[Retraction] = "unapproved" /\ MintMayFail
          /\ UNCHANGED <<deleted, moderation_state, last_trigger>>
      BY <2>0, <2>14
      DEF AutoWithdrawFails, RetractionOverdue, CancelEmbargo, TypeOK, Kinds
    <3> QED
      BY <3>1, SilentKeepsRecord DEF TerminationIsLive, Kinds
  <2>15. CASE AutoTerminateEmbargo
    <3>1. state[Termination] = "unapproved" /\ deleted' = deleted /\ due' = due
      BY <2>15 DEF AutoTerminateEmbargo, TerminationOverdue
    <3>2. CASE Complete(Termination)
      <4>1. Accept(Termination)
        BY <3>2 DEF Accept, IsModerated
      <4> QED
        BY <3>1, <4>1, AcceptKeepsRecord DEF Kinds
    <3>3. CASE /\ ~IsEmbargoed
               /\ state' = [state EXCEPT ![Termination] = "none"]
               /\ UNCHANGED <<public, moderation_state, last_trigger>>
      <4>1. /\ state'[Termination] = "none"
            /\ \A k \in Kinds \ {Termination} : state'[k] = state[k]
        BY <2>0, <3>3 DEF TypeOK, Kinds
      <4>2. deleted \/ state[Retraction] # "none"
        BY <2>0, <3>1, <3>3 DEF TerminationIsLive
      <4>3. state[Retraction] # "none" => Derived(state') = Derived(state)
        BY <4>1 DEF Derived, ActiveSanction, Kinds
      <4>4. ModerationStateLag => ModerationStateLag'
        BY <3>1, <3>3, <4>1, <4>2, <4>3 DEF ModerationStateLag, Kinds
      <4>5. TerminationIsLive'
        BY <4>1 DEF TerminationIsLive
      <4> QED
        BY <3>1, <3>3, <4>1, <4>4, <4>5, SilentKeepsRecord DEF Kinds
    <3> QED
      BY <2>15, <3>2, <3>3 DEF AutoTerminateEmbargo
  <2>16. CASE Environment
    <3>1. CASE ArchiveFails
      <4>1. /\ \A k \in Kinds : state'[k] \in {state[k], "rejected"}
            /\ deleted' /\ UNCHANGED <<moderation_state, last_trigger>>
        BY <2>0, <3>1 DEF ArchiveFails, TypeOK
      <4> QED
        BY <4>1, SilentKeepsRecord
        DEF TerminationIsLive, ModerationStateLag, Kinds
    <3> QED
      BY <2>1, <2>16, <3>1
      DEF Environment, PassTime, ArchiveAdvances, RemoveStuck, ConfirmHam
  <2>17. CASE UNCHANGED vars
    BY <2>1, <2>17 DEF vars
  <2> QED
    BY <2>2, <2>3, <2>4, <2>5, <2>6, <2>7, <2>8, <2>9, <2>10, <2>11, <2>12,
       <2>13, <2>14, <2>15, <2>16, <2>17
    DEF Next, Respond, Moderate, Request, NightlyScripts
<1> QED
  BY <1>1, <1>2, Safety, PTL DEF Spec

\* The moderators' log vouches for what moderators approve, however requests,
\* answers, scripts and archive failures interleave.
THEOREM DecisionsAreRecorded == Spec => []ModerationIsRecorded
BY Recording, PTL DEF RecordInv

\* While the DOI service answers, the stored moderation state is stale only
\* after a scripted expiry or on a deleted registration.
THEOREM ModerationStateLagsLittle == Spec => [](MintMayFail \/ ModerationStateLag)
BY Recording, PTL DEF RecordInv

-----------------------------------------------------------------------------
(* Closed initial sanctions.                                               *)

\* Completing an open sanction ends an active embargo at most.
LEMMA CompleteKeepsClosed ==
  ASSUME TypeOK, NEW kind \in Kinds, Complete(kind),
         state[kind] \in {"unapproved", "pending_moderation"},
         NEW k \in {Approval, Embargo},
         state[k] \in Rejected \cup {"completed"}
  PROVE  state'[k] = state[k]
<1>1. k # kind
  BY DEF Rejected
<1>2. state' = Completed(kind)
  BY DEF Complete
<1> QED
  BY <1>1, <1>2, CompletedStages DEF IsEmbargoed, Rejected, Kinds

LEMMA AcceptKeepsClosed ==
  ASSUME TypeOK, NEW kind \in Kinds, Accept(kind), state[kind] = "unapproved",
         NEW k \in {Approval, Embargo},
         state[k] \in Rejected \cup {"completed"}
  PROVE  state'[k] = state[k]
<1>1. CASE Complete(kind)
  BY <1>1, CompleteKeepsClosed
<1>2. CASE state' = [state EXCEPT ![kind] = "pending_moderation"]
  BY <1>2 DEF TypeOK, Rejected, Kinds
<1> QED
  BY <1>1, <1>2 DEF Accept

\* A rejected or completed initial sanction is never reopened: only a failing
\* archive may still turn it to REJECTED.
THEOREM ClosedNeverReopens == Spec => ClosedStaysClosed
<1>1. TypeOK /\ [Next]_vars =>
        [\A kind \in {Approval, Embargo} :
           state[kind] \in Rejected \cup {"completed"} =>
             state'[kind] = state[kind] \/ archive' # archive]_vars
  <2> SUFFICES ASSUME TypeOK, Next, NEW k \in {Approval, Embargo},
                      state[k] \in Rejected \cup {"completed"},
                      archive' = archive
               PROVE  state'[k] = state[k]
    OBVIOUS
  <2>1. ASSUME NEW admin \in Admins, NEW kind \in Kinds,
               ApproveByToken(admin, kind)
        PROVE  state'[k] = state[k]
    BY <2>1, AcceptKeepsClosed DEF ApproveByToken
  <2>2. ASSUME NEW kind \in Kinds, RejectByToken(kind)
        PROVE  state'[k] = state[k]
    BY <2>2 DEF RejectByToken, Reject, TypeOK, Rejected, Kinds
  <2>3. CASE ModeratorAccept
    BY <2>3, ActiveKind, CompleteKeepsClosed DEF ModeratorAccept
  <2>4. CASE ModeratorReject
    <3>1. PICK kind \in Kinds : kind = ActiveSanction(state)
      BY ActiveKind
    <3> QED
      BY <2>4, <3>1 DEF ModeratorReject, Reject, TypeOK, Rejected, Kinds
  <2>5. CASE ForceWithdraw
    BY <2>5 DEF ForceWithdraw, CancelEmbargo, TypeOK, Rejected, Kinds
  <2>6. CASE RequestWithdrawal \/ RequestEmbargoTermination \/ MakePublic
    BY <2>6 DEF RequestWithdrawal, RequestEmbargoTermination, MakePublic,
                TypeOK, Kinds
  <2>7. CASE \/ AutoApproveRegistration \/ AutoApproveEmbargo \/ AutoWithdraw
    BY <2>7, AcceptKeepsClosed
    DEF AutoApproveRegistration, AutoApproveEmbargo, AutoWithdraw,
        ApprovalOverdue, EmbargoOverdue, RetractionOverdue, Kinds
  <2>8. CASE AutoApproveRegistrationFails \/ AutoRejectDeleted
    BY <2>8 DEF AutoApproveRegistrationFails, AutoRejectDeleted,
                ApprovalOverdue, TypeOK, Rejected, Kinds
  <2>9. CASE ExpireEmbargo \/ ExpireEmbargoFails
    BY <2>9 DEF ExpireEmbargo, ExpireEmbargoFails, CompleteEmbargo,
                EmbargoOver, IsEmbargoed, TypeOK, Rejected, Kinds
  <2>10. CASE AutoWithdrawFails
    BY <2>10 DEF AutoWithdrawFails, CancelEmbargo, TypeOK, Rejected, Kinds
  <2>11. CASE AutoTerminateEmbargo
    <3>1. CASE Complete(Termination)
      BY <2>11, <3>1, CompleteKeepsClosed
      DEF AutoTerminateEmbargo, TerminationOverdue, Kinds
    <3>2. CASE state' = [state EXCEPT ![Termination] = "none"]
      BY <3>2 DEF TypeOK, Kinds
    <3> QED
      BY <2>11, <3>1, <3>2 DEF AutoTerminateEmbargo
  <2>12. CASE Environment
    BY <2>12 DEF Environment, PassTime, ArchiveAdvances, ArchiveFails,
                 Progress!Fails,
                 RemoveStuck, ConfirmHam, ArchiveStages
  <2> QED
    BY <2>1, <2>2, <2>3, <2>4, <2>5, <2>6, <2>7, <2>8, <2>9, <2>10, <2>11,
       <2>12
    DEF Next, Respond, Moderate, Request, NightlyScripts
<1> QED
  BY <1>1, Typing, PTL DEF Spec, ClosedStaysClosed

==============================================================================
