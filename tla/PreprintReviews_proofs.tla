------------------------ MODULE PreprintReviews_proofs ------------------------
(***************************************************************************)
(* Proofs of the safety properties of PreprintReviews, for every workflow, *)
(* any number of withdrawal requests and any number of requests in flight. *)
(***************************************************************************)
EXTENDS PreprintReviews, TLAPS

(***************************************************************************)
(* What a row must satisfy to be saved at any time: a request may commit a *)
(* row it loaded long ago, so the rows in flight must satisfy it as well.  *)
(***************************************************************************)
RowSound(p) ==
  /\ ~p.date_withdrawn /\ p.machine_state # "initial" =>
       (p.is_published <=> p.machine_state \in PublicStates)
  /\ reviews_workflow = "pre_moderation" /\ (p.ever_public \/ p.is_published) =>
       reviewed

PublishUnmoderated ==
  \A w \in Workers :
    serving[w].op = "publish" => reviews_workflow = "none"

RowsInv ==
  /\ RowSound(preprint)
  /\ \A w \in Workers : serving[w] # NoJob => RowSound(serving[w].row)
  /\ PublishUnmoderated

(***************************************************************************)
(* As long as requests do not overlap, the open one has read the committed *)
(* rows.                                                                   *)
(***************************************************************************)
ReadsAreFresh ==
  \A w \in Workers : serving[w] # NoJob =>
    /\ \A v \in Workers \ {w} : serving[v] = NoJob
    /\ serving[w].row = preprint
    /\ serving[w].op \in {"grant", "decline", "comment"} =>
         serving[w].read = request[serving[w].on]

SerialInv ==
  /\ ~overlapped => ReadsAreFresh
  /\ GrantWithdraws
  /\ OnlySeenPreprintsWait

-----------------------------------------------------------------------------
(* What the operators return.                                              *)

\* An open request has loaded a row, and a decision a withdrawal request.
LEMMA JobTypes ==
  ASSUME TypeOK, NEW w \in Workers, serving[w].op # "none"
  PROVE  /\ serving[w] # NoJob
         /\ serving[w].row \in Row
         /\ serving[w].op \in {"grant", "decline", "comment"} =>
              /\ serving[w].on \in Requests
              /\ serving[w].read \in DefaultStates
BY DEF TypeOK, NoJob, PreprintJob, RequestJob, ReviewTriggers, DefaultTriggers

\* Every job of a request that can be received is of the types of jobs.
LEMMA JobsOpened ==
  ASSUME TypeOK
  PROVE  /\ \A op \in {"edit", "publish", "ask"} \cup ReviewTriggers :
              [op |-> op, row |-> preprint] \in PreprintJob
         /\ \A op \in {"grant", "decline", "comment"}, r \in Requests :
              [op |-> op, row |-> preprint, on |-> r, read |-> request[r]]
                \in RequestJob
BY DEF TypeOK, PreprintJob, RequestJob

\* Saving a row publishes or hides what is not withdrawn, by its state.
LEMMA SaveChangesRow ==
  ASSUME NEW p \in Row
  PROVE  /\ SaveChanges(p) \in Row
         /\ SaveChanges(p).machine_state = p.machine_state
         /\ SaveChanges(p).date_withdrawn = p.date_withdrawn
         /\ p.date_withdrawn => SaveChanges(p) = p
         /\ ~p.date_withdrawn =>
              (SaveChanges(p).is_published <=> p.machine_state \in PublicStates)
         /\ SaveChanges(p).ever_public =>
              p.ever_public \/ SaveChanges(p).is_published
         /\ p.ever_public => SaveChanges(p).ever_public
<1>1. CASE p.date_withdrawn
  BY <1>1 DEF SaveChanges
<1>2. CASE ~p.date_withdrawn /\ p.machine_state \in PublicStates
  <2>1. PICK shown \in BOOLEAN : shown <=> p.ever_public \/ ~p.is_published
    OBVIOUS
  <2>2. SaveChanges(p) = [p EXCEPT !.is_published = TRUE, !.ever_public = shown]
    BY <1>2, <2>1 DEF SaveChanges, InPublicReviewsState, Row
  <2> QED
    BY <1>2, <2>1, <2>2 DEF Row
<1>3. CASE ~p.date_withdrawn /\ p.machine_state \notin PublicStates
  <2>1. PICK shown \in BOOLEAN : shown <=> p.ever_public
    OBVIOUS
  <2>2. /\ InPublicReviewsState(p) = FALSE
        /\ (p.ever_public \/ (InPublicReviewsState(p) /\ ~p.is_published))
             = shown
    BY <1>3, <2>1 DEF InPublicReviewsState, Row
  <2>3. SaveChanges(p) =
          [p EXCEPT !.is_published = FALSE, !.ever_public = shown]
    BY <1>3, <2>2 DEF SaveChanges
  <2> QED
    BY <1>3, <2>1, <2>3 DEF Row
<1> QED
  BY <1>1, <1>2, <1>3

LEMMA MovedRow ==
  ASSUME NEW p \in Row, NEW trigger \in ReviewTriggers
  PROVE  /\ Moved(p, trigger) \in Row
         /\ Moved(p, trigger).machine_state = Dest(trigger, p.machine_state)
         /\ Moved(p, trigger).date_withdrawn <=>
              p.date_withdrawn \/ trigger = "withdraw"
         /\ Moved(p, trigger).is_published = p.is_published
         /\ Moved(p, trigger).ever_public = p.ever_public
<1>1. Dest(trigger, p.machine_state) \in ReviewStates
  BY DEF Dest, Row, ReviewStates, DefaultStates, ReviewTriggers,
         DefaultTriggers
<1>2. PICK withdrawn \in BOOLEAN :
        withdrawn <=> p.date_withdrawn \/ trigger = "withdraw"
  OBVIOUS
<1>3. Moved(p, trigger) =
        [p EXCEPT !.machine_state = Dest(trigger, p.machine_state),
                  !.date_withdrawn = withdrawn]
  BY <1>2 DEF Moved, Row
<1> QED
  BY <1>1, <1>2, <1>3 DEF Row

\* A transition yields a row, and never takes back a withdrawal or a
\* publication.
LEMMA TransitionRow ==
  ASSUME NEW p \in Row, NEW trigger \in ReviewTriggers,
         NEW q, q = RunTransition(p, trigger)
  PROVE  /\ q \in Row
         /\ q.machine_state = Dest(trigger, p.machine_state)
         /\ q.date_withdrawn <=> p.date_withdrawn \/ trigger = "withdraw"
         /\ q.date_withdrawn => /\ q.is_published = p.is_published
                                /\ q.ever_public = p.ever_public
         /\ ~q.date_withdrawn =>
              (q.is_published <=> q.machine_state \in PublicStates)
         /\ q.ever_public => p.ever_public \/ q.is_published
         /\ p.ever_public => q.ever_public
<1> DEFINE m == Moved(p, trigger)
<1>1. /\ m \in Row
      /\ m.machine_state = Dest(trigger, p.machine_state)
      /\ m.date_withdrawn <=> p.date_withdrawn \/ trigger = "withdraw"
      /\ m.is_published = p.is_published
      /\ m.ever_public = p.ever_public
  BY MovedRow
<1>2. q = SaveChanges(m)
  BY DEF RunTransition
<1> HIDE DEF m
<1> QED
  BY <1>1, <1>2, SaveChangesRow

-----------------------------------------------------------------------------
(* Type correctness.                                                       *)

\* Withdrawing keeps the types of what it changes.
LEMMA RunWithdrawType ==
  ASSUME NEW p \in Row, NEW found, RunWithdraw(p, found)
  PROVE  /\ preprint' \in Row
         /\ notified' \in {"forced", "requested"}
         /\ found <= 1
BY TransitionRow DEF RunWithdraw, NotifyWithdraw, ReviewTriggers

\* TypeOK is inductive as it stands: opening a request, closing it, and one
\* step per commit.  The bound on grants is what the query of notify_withdraw
\* enforces.
THEOREM Typing == Spec => []TypeOK
<1>1. Init => TypeOK
  <2> SUFFICES ASSUME Init PROVE TypeOK
    OBVIOUS
  <2>1. preprint \in Row
    BY DEF Init, Row, ReviewStates, DefaultStates
  <2>2. serving \in [Workers -> {NoJob} \cup PreprintJob \cup RequestJob]
    BY DEF Init
  <2>3. request \in [Requests -> DefaultStates] /\ grants \in 0..1
    BY DEF Init, DefaultStates
  <2> QED
    BY <2>1, <2>2, <2>3 DEF Init, TypeOK
<1>2. TypeOK /\ [Next]_vars => TypeOK'
  <2> SUFFICES ASSUME TypeOK, [Next]_vars PROVE TypeOK'
    OBVIOUS
  <2>1. ASSUME NEW w \in Workers, NEW job \in PreprintJob \cup RequestJob,
               Load(w, job)
        PROVE  TypeOK'
    BY <2>1 DEF Load, TypeOK
  <2>2. ASSUME NEW w \in Workers, Close(w)
        PROVE  /\ serving' \in [Workers -> {NoJob} \cup PreprintJob \cup RequestJob]
               /\ reviews_workflow' \in Workflows
               /\ overlapped' \in BOOLEAN
    BY <2>2 DEF Close, TypeOK
  <2>3. ASSUME NEW w \in Workers,
               \/ PatchLoads(w) \/ ReviewLoads(w) \/ CommandLoads(w)
               \/ AskLoads(w) \/ DecisionLoads(w)
        PROVE  TypeOK'
    BY <2>1, <2>3, JobsOpened
    DEF PatchLoads, ReviewLoads, CommandLoads, AskLoads, DecisionLoads,
        ReviewTriggers
  <2>4. ASSUME NEW w \in Workers, EditCommits(w) \/ PublishCommits(w)
        PROVE  TypeOK'
    <3>1. serving[w].row \in Row
      BY <2>4, JobTypes DEF EditCommits, PublishCommits
    <3>2. preprint' \in Row
      BY <2>4, <3>1
      DEF EditCommits, PublishCommits, Row, ReviewStates, DefaultStates
    <3> QED
      BY <2>2, <2>4, <3>2 DEF EditCommits, PublishCommits, TypeOK
  <2>5. ASSUME NEW w \in Workers, ReviewCommits(w)
        PROVE  TypeOK'
    <3>1. serving[w].row \in Row /\ serving[w].op \in ReviewTriggers
      BY <2>5, JobTypes DEF ReviewCommits, ReviewTriggers, DefaultTriggers
    <3>2. preprint' \in Row
      BY <2>5, <3>1, TransitionRow DEF ReviewCommits
    <3> QED
      BY <2>2, <2>5, <3>2 DEF ReviewCommits, TypeOK
  <2>6. ASSUME NEW w \in Workers, WithdrawCommits(w)
        PROVE  TypeOK'
    BY <2>2, <2>6, JobTypes, RunWithdrawType DEF WithdrawCommits, TypeOK
  <2>7. ASSUME NEW w \in Workers, AskCommits(w)
        PROVE  TypeOK'
    <3>1. serving[w].row \in Row
      BY <2>7, JobTypes DEF AskCommits
    <3>2. PICK r \in Requests :
            \/ /\ request' = [request EXCEPT ![r] = "pending"]
               /\ UNCHANGED <<preprint, grants, notified>>
            \/ /\ request' = [request EXCEPT ![r] = "accepted"]
               /\ grants' = grants + 1
               /\ RunWithdraw(serving[w].row, grants')
      BY <2>7 DEF AskCommits
    <3>3. request' \in [Requests -> DefaultStates]
      BY <3>2 DEF TypeOK, DefaultStates
    <3>4. /\ preprint' \in Row
          /\ notified' \in {"nothing", "forced", "requested"}
          /\ grants' \in 0..1
      BY <3>1, <3>2, RunWithdrawType DEF TypeOK
    <3> QED
      BY <2>2, <2>7, <3>3, <3>4 DEF AskCommits, TypeOK
  <2>8. ASSUME NEW w \in Workers, GrantCommits(w)
        PROVE  TypeOK'
    <3>1. serving[w].row \in Row /\ serving[w].on \in Requests
      BY <2>8, JobTypes DEF GrantCommits
    <3>2. /\ preprint' \in Row
          /\ notified' \in {"nothing", "forced", "requested"}
          /\ grants' \in 0..1
      BY <2>8, <3>1, RunWithdrawType DEF GrantCommits, TypeOK
    <3>3. request' \in [Requests -> DefaultStates]
      BY <2>8, <3>1 DEF GrantCommits, TypeOK, DefaultStates
    <3> QED
      BY <2>2, <2>8, <3>2, <3>3 DEF GrantCommits, TypeOK
  <2>9. ASSUME NEW w \in Workers, DeclineCommits(w) \/ CommentCommits(w)
        PROVE  TypeOK'
    <3>1. serving[w].on \in Requests /\ serving[w].read \in DefaultStates
      BY <2>9, JobTypes DEF DeclineCommits, CommentCommits
    <3>2. request' \in [Requests -> DefaultStates]
      BY <2>9, <3>1 DEF DeclineCommits, CommentCommits, TypeOK, DefaultStates
    <3> QED
      BY <2>2, <2>9, <3>2 DEF DeclineCommits, CommentCommits, TypeOK
  <2>10. ASSUME NEW w \in Workers, RollsBack(w)
         PROVE  TypeOK'
    BY <2>2, <2>10 DEF RollsBack, TypeOK
  <2>11. CASE UNCHANGED vars
    BY <2>11 DEF vars, TypeOK
  <2> QED
    BY <2>3, <2>4, <2>5, <2>6, <2>7, <2>8, <2>9, <2>10, <2>11 DEF Next
<1> QED
  BY <1>1, <1>2, PTL DEF Spec

-----------------------------------------------------------------------------
(* What every row satisfies, however the requests overlap.                 *)

\* A transition keeps a row sound: it is published only in a public state,
\* which before moderation is the state a moderator's acceptance reaches.
LEMMA TransitionSound ==
  ASSUME TypeOK, NEW p \in Row, RowSound(p), NEW trigger \in ReviewTriggers,
         p.machine_state \in Sources(trigger),
         reviewed' \in BOOLEAN,
         reviewed \/ trigger = "accept" => reviewed',
         reviews_workflow' = reviews_workflow,
         preprint' = RunTransition(p, trigger)
  PROVE  RowSound(preprint)'
<1> DEFINE q == RunTransition(p, trigger)
<1>1. /\ q.machine_state = Dest(trigger, p.machine_state)
      /\ q.date_withdrawn <=> p.date_withdrawn \/ trigger = "withdraw"
      /\ q.date_withdrawn => /\ q.is_published = p.is_published
                             /\ q.ever_public = p.ever_public
      /\ ~q.date_withdrawn =>
           (q.is_published <=> q.machine_state \in PublicStates)
      /\ q.ever_public => p.ever_public \/ q.is_published
  BY TransitionRow
<1> HIDE DEF q
<1>2. PublicStates' = PublicStates
  BY DEF PublicStates
<1>3. ASSUME reviews_workflow = "pre_moderation", q.ever_public \/ q.is_published
      PROVE  reviewed'
  <2>1. CASE p.ever_public \/ p.is_published
    BY <1>3, <2>1 DEF RowSound
  <2>2. CASE ~p.ever_public /\ ~p.is_published
    <3>1. q.is_published /\ ~q.date_withdrawn /\ ~p.date_withdrawn
      BY <1>1, <1>3, <2>2
    <3>2. Dest(trigger, p.machine_state) = "accepted"
      BY <1>1, <1>3, <3>1 DEF PublicStates
    <3>3. trigger = "accept" \/ p.machine_state = "accepted"
      BY <3>2 DEF Dest, ReviewTriggers, DefaultTriggers
    <3>4. p.machine_state # "accepted"
      BY <1>3, <2>2, <3>1 DEF RowSound, PublicStates
    <3> QED
      BY <3>3, <3>4
  <2> QED
    BY <2>1, <2>2
<1> QED
  BY <1>1, <1>2, <1>3 DEF RowSound, q

\* RowsInv is inductive together with the types.
THEOREM RowsAreSound == Spec => []RowsInv
<1>1. Init => RowsInv
  BY DEF Init, RowsInv, RowSound, PublishUnmoderated, NoJob
<1>2. TypeOK /\ RowsInv /\ [Next]_vars => RowsInv'
  <2> SUFFICES ASSUME TypeOK, RowsInv, [Next]_vars PROVE RowsInv'
    OBVIOUS
  <2>1. reviews_workflow' = reviews_workflow /\ (reviewed => reviewed')
    <3>1. ASSUME NEW w \in Workers,
                 \/ PatchLoads(w) \/ ReviewLoads(w) \/ CommandLoads(w)
                 \/ AskLoads(w) \/ DecisionLoads(w)
          PROVE  UNCHANGED <<reviews_workflow, reviewed>>
      BY <3>1 DEF PatchLoads, ReviewLoads, CommandLoads, AskLoads,
                  DecisionLoads, Load
    <3>2. ASSUME NEW w \in Workers,
                 \/ EditCommits(w) \/ PublishCommits(w) \/ WithdrawCommits(w)
                 \/ AskCommits(w) \/ GrantCommits(w) \/ DeclineCommits(w)
                 \/ CommentCommits(w) \/ RollsBack(w)
          PROVE  UNCHANGED <<reviews_workflow, reviewed>>
      BY <3>2 DEF EditCommits, PublishCommits, WithdrawCommits, AskCommits,
                  GrantCommits, DeclineCommits, CommentCommits, RollsBack,
                  Close
    <3>3. ASSUME NEW w \in Workers, ReviewCommits(w)
          PROVE  reviews_workflow' = reviews_workflow /\ (reviewed => reviewed')
      BY <3>3 DEF ReviewCommits, Close
    <3> QED
      BY <3>1, <3>2, <3>3 DEF Next, vars
  <2>2. PublicStates' = PublicStates
    BY <2>1 DEF PublicStates
  <2>3. \A p : RowSound(p) => RowSound(p)'
    BY <2>1, <2>2 DEF RowSound
  <2>4. ASSUME NEW w \in Workers, NEW job,
               job.row = preprint,
               job.op = "publish" => reviews_workflow = "none",
               Load(w, job)
        PROVE  RowsInv'
    <3>1. \A v \in Workers :
            serving'[v] = IF v = w THEN job ELSE serving[v]
      BY <2>4 DEF Load, TypeOK
    <3>2. preprint' = preprint
      BY <2>4 DEF Load
    <3> QED
      BY <2>1, <2>2, <2>4, <3>1, <3>2
      DEF RowsInv, RowSound, PublishUnmoderated, NoJob
  <2>5. ASSUME NEW w \in Workers, Close(w), RowSound(preprint)'
        PROVE  RowsInv'
    <3>1. \A v \in Workers :
            serving'[v] = IF v = w THEN NoJob ELSE serving[v]
      BY <2>5 DEF Close, TypeOK
    <3> QED
      BY <2>1, <2>2, <2>5, <3>1
      DEF RowsInv, RowSound, PublishUnmoderated, NoJob
  <2>6. ASSUME NEW w \in Workers, serving[w].op # "none"
        PROVE  serving[w].row \in Row /\ RowSound(serving[w].row)
    BY <2>6, JobTypes DEF RowsInv
  <2>7. ASSUME NEW w \in Workers,
               \/ PatchLoads(w) \/ ReviewLoads(w) \/ CommandLoads(w)
               \/ AskLoads(w) \/ DecisionLoads(w)
        PROVE  RowsInv'
    BY <2>4, <2>7
    DEF PatchLoads, ReviewLoads, CommandLoads, AskLoads, DecisionLoads,
        ReviewTriggers, DefaultTriggers
  <2>8. ASSUME NEW w \in Workers, EditCommits(w)
        PROVE  RowsInv'
    BY <2>3, <2>5, <2>6, <2>8 DEF EditCommits
  <2>9. ASSUME NEW w \in Workers, PublishCommits(w)
        PROVE  RowsInv'
    <3>1. reviews_workflow = "none"
      BY <2>9 DEF PublishCommits, RowsInv, PublishUnmoderated
    <3>2. preprint'.machine_state = "accepted" /\ preprint'.is_published
      BY <2>6, <2>9 DEF PublishCommits, Row
    <3>3. RowSound(preprint)'
      BY <2>1, <3>1, <3>2 DEF RowSound, PublicStates, DefaultStates
    <3> QED
      BY <2>5, <2>9, <3>3 DEF PublishCommits
  <2>10. ASSUME NEW w \in Workers, NEW found,
                serving[w].op # "none",
                RunWithdraw(serving[w].row, found), reviewed' = reviewed
         PROVE  RowSound(preprint)'
    BY <2>1, <2>6, <2>10, TransitionSound
    DEF RunWithdraw, CanRun, TypeOK, ReviewTriggers
  <2>11. ASSUME NEW w \in Workers, ReviewCommits(w)
         PROVE  RowsInv'
    <3>1. serving[w].op \in ReviewTriggers /\ serving[w].op # "none"
      BY <2>11 DEF ReviewCommits, ReviewTriggers, DefaultTriggers
    <3>2. RowSound(preprint)'
      BY <2>1, <2>6, <2>11, <3>1, TransitionSound
      DEF ReviewCommits, CanRun, TypeOK
    <3> QED
      BY <2>5, <2>11, <3>2 DEF ReviewCommits
  <2>12. ASSUME NEW w \in Workers, WithdrawCommits(w)
         PROVE  RowsInv'
    BY <2>5, <2>10, <2>12 DEF WithdrawCommits
  <2>13. ASSUME NEW w \in Workers, AskCommits(w)
         PROVE  RowsInv'
    BY <2>3, <2>5, <2>10, <2>13 DEF AskCommits, RowsInv
  <2>14. ASSUME NEW w \in Workers, GrantCommits(w)
         PROVE  RowsInv'
    BY <2>5, <2>10, <2>14 DEF GrantCommits
  <2>15. ASSUME NEW w \in Workers,
                DeclineCommits(w) \/ CommentCommits(w) \/ RollsBack(w)
         PROVE  RowsInv'
    BY <2>3, <2>5, <2>15
    DEF DeclineCommits, CommentCommits, RollsBack, RowsInv
  <2>16. CASE UNCHANGED vars
    BY <2>3, <2>16 DEF vars, RowsInv, PublishUnmoderated, RowSound, PublicStates
  <2> QED
    BY <2>7, <2>8, <2>9, <2>11, <2>12, <2>13, <2>14, <2>15, <2>16 DEF Next
<1> QED
  BY <1>1, <1>2, Typing, PTL DEF Spec

\* However the requests overlap, what is not withdrawn is published exactly
\* in the public states of the provider's workflow: save_changes and
\* set_published write the state and the flag together.
THEOREM PublicationIsReviewed == Spec => []PublicationFollowsReview
<1>1. RowsInv => PublicationFollowsReview
  BY DEF RowsInv, RowSound, PublicationFollowsReview, InPublicReviewsState
<1> QED
  BY <1>1, RowsAreSound, PTL

\* A pre-moderating provider shows nothing, not even a tombstone, that no
\* moderator has accepted.
THEOREM ModerationComesFirst == Spec => []ModeratedBeforePublic
<1>1. RowsInv => ModeratedBeforePublic
  BY DEF RowsInv, RowSound, ModeratedBeforePublic, VerifiedPublishable
<1> QED
  BY <1>1, RowsAreSound, PTL

-----------------------------------------------------------------------------
(* What holds as long as the requests do not overlap.                      *)

\* When nothing overlaps, the request that commits is the only open one.
LEMMA ClosingAlone ==
  ASSUME TypeOK, ReadsAreFresh, NEW w \in Workers,
         serving[w].op # "none", Close(w)
  PROVE  /\ ReadsAreFresh'
         /\ serving[w].row = preprint
         /\ serving[w].op \in {"grant", "decline", "comment"} =>
              serving[w].read = request[serving[w].on]
<1>1. serving[w] # NoJob
  BY JobTypes
<1>2. \A v \in Workers : serving'[v] = NoJob
  BY <1>1 DEF Close, ReadsAreFresh, TypeOK
<1> QED
  BY <1>1, <1>2 DEF ReadsAreFresh

LEMMA LoadingAlone ==
  ASSUME TypeOK, NEW w \in Workers, NEW job, job.row = preprint,
         job.op \in {"grant", "decline", "comment"} =>
           job.read = request[job.on],
         Load(w, job), ~overlapped'
  PROVE  ReadsAreFresh'
<1>1. \A v \in Workers : serving[v] = NoJob
  BY DEF Load
<1>2. \A v \in Workers : serving'[v] = IF v = w THEN job ELSE NoJob
  BY <1>1 DEF Load, TypeOK
<1> QED
  BY <1>2 DEF Load, ReadsAreFresh

\* What one step may not take back while nothing overlaps.
KeepsWithdrawal ==
  /\ preprint.ever_public => preprint'.ever_public
  /\ preprint.date_withdrawn => preprint'.date_withdrawn
  /\ reviews_workflow # "none" /\ preprint.machine_state = "withdrawn" =>
       preprint'.machine_state = "withdrawn"

\* The step of a request that commits alone keeps a withdrawal, changes at
\* most one withdrawal request, accepts it only with the withdrawal and
\* leaves it waiting only if the preprint has been seen.
LEMMA StepAlone ==
  ASSUME TypeOK, PublishUnmoderated, ReadsAreFresh \/ overlapped, Next,
         ~overlapped'
  PROVE  /\ ReadsAreFresh'
         /\ KeepsWithdrawal
         /\ \A r \in Requests :
              /\ request'[r] = "accepted" =>
                   request[r] = "accepted" \/ preprint'.date_withdrawn
              /\ request'[r] = "pending" =>
                   \/ request[r] = "pending"
                   \/ ~AutoApprovalAllowed(preprint)
<1> DEFINE Goal ==
             /\ ReadsAreFresh'
             /\ KeepsWithdrawal
             /\ \A r \in Requests :
                  /\ request'[r] = "accepted" =>
                       request[r] = "accepted" \/ preprint'.date_withdrawn
                  /\ request'[r] = "pending" =>
                       \/ request[r] = "pending"
                       \/ ~AutoApprovalAllowed(preprint)
<1> SUFFICES Goal
  OBVIOUS
<1>1. ASSUME NEW w \in Workers,
             \/ PatchLoads(w) \/ ReviewLoads(w) \/ CommandLoads(w)
             \/ AskLoads(w) \/ DecisionLoads(w)
      PROVE  Goal
  <2>1. ReadsAreFresh'
    BY <1>1, LoadingAlone
    DEF PatchLoads, ReviewLoads, CommandLoads, AskLoads, DecisionLoads,
        ReviewTriggers, DefaultTriggers
  <2>2. UNCHANGED <<preprint, request>>
    BY <1>1 DEF PatchLoads, ReviewLoads, CommandLoads, AskLoads,
                DecisionLoads, Load
  <2> QED
    BY <2>1, <2>2 DEF KeepsWithdrawal
<1>2. ASSUME NEW w \in Workers, serving[w].op # "none", Close(w)
      PROVE  /\ ReadsAreFresh'
             /\ serving[w].row = preprint
             /\ serving[w].op \in {"grant", "decline", "comment"} =>
                  /\ serving[w].on \in Requests
                  /\ serving[w].read = request[serving[w].on]
  BY <1>2, ClosingAlone, JobTypes DEF Close
<1>3. ASSUME NEW w \in Workers, EditCommits(w)
      PROVE  Goal
  BY <1>2, <1>3 DEF EditCommits, KeepsWithdrawal
<1>4. ASSUME NEW w \in Workers, PublishCommits(w)
      PROVE  Goal
  <2>1. reviews_workflow = "none"
    BY <1>4 DEF PublishCommits, PublishUnmoderated
  <2>2. ReadsAreFresh' /\ serving[w].row = preprint
    BY <1>2, <1>4 DEF PublishCommits
  <2>3. /\ preprint'.ever_public
        /\ preprint'.date_withdrawn = preprint.date_withdrawn
    BY <1>4, <2>2 DEF PublishCommits, TypeOK, Row
  <2> QED
    BY <1>4, <2>1, <2>2, <2>3 DEF PublishCommits, KeepsWithdrawal
<1>5. ASSUME NEW w \in Workers, ReviewCommits(w)
      PROVE  Goal
  <2>1. ReadsAreFresh' /\ serving[w].row = preprint
    BY <1>2, <1>5 DEF ReviewCommits, DefaultTriggers
  <2>2. /\ preprint.ever_public => preprint'.ever_public
        /\ preprint.date_withdrawn => preprint'.date_withdrawn
    BY <1>5, <2>1, TransitionRow DEF ReviewCommits, TypeOK, ReviewTriggers
  <2>3. preprint.machine_state # "withdrawn"
    BY <1>5, <2>1
    DEF ReviewCommits, CanRun, Sources, Resubmittable, DefaultTriggers
  <2> QED
    BY <1>5, <2>1, <2>2, <2>3 DEF ReviewCommits, KeepsWithdrawal
<1>6. ASSUME NEW found, RunWithdraw(preprint, found)
      PROVE  KeepsWithdrawal /\ preprint'.date_withdrawn
  BY <1>6, TransitionRow
  DEF RunWithdraw, KeepsWithdrawal, TypeOK, ReviewTriggers, Dest
<1>7. ASSUME NEW w \in Workers, WithdrawCommits(w)
      PROVE  Goal
  BY <1>2, <1>6, <1>7 DEF WithdrawCommits
<1>8. ASSUME NEW w \in Workers, AskCommits(w)
      PROVE  Goal
  <2>1. ReadsAreFresh' /\ serving[w].row = preprint
    BY <1>2, <1>8 DEF AskCommits
  <2>2. PICK r \in Requests :
          \/ /\ ~AutoApprovalAllowed(preprint)
             /\ request' = [request EXCEPT ![r] = "pending"]
             /\ UNCHANGED <<preprint, grants, notified>>
          \/ /\ request' = [request EXCEPT ![r] = "accepted"]
             /\ RunWithdraw(preprint, grants')
    BY <1>8, <2>1 DEF AskCommits
  <2> QED
    BY <1>6, <2>1, <2>2 DEF KeepsWithdrawal, TypeOK
<1>9. ASSUME NEW w \in Workers, GrantCommits(w)
      PROVE  Goal
  <2>1. /\ ReadsAreFresh' /\ serving[w].row = preprint
        /\ serving[w].on \in Requests
    BY <1>2, <1>9 DEF GrantCommits
  <2>2. KeepsWithdrawal /\ preprint'.date_withdrawn
    BY <1>6, <1>9, <2>1 DEF GrantCommits
  <2> QED
    BY <1>9, <2>1, <2>2 DEF GrantCommits, TypeOK
<1>10. ASSUME NEW w \in Workers, DeclineCommits(w) \/ CommentCommits(w)
       PROVE  Goal
  <2>1. /\ ReadsAreFresh' /\ serving[w].on \in Requests
        /\ serving[w].read = request[serving[w].on]
    BY <1>2, <1>10 DEF DeclineCommits, CommentCommits
  <2> QED
    BY <1>10, <2>1 DEF DeclineCommits, CommentCommits, KeepsWithdrawal, TypeOK
<1>11. ASSUME NEW w \in Workers, RollsBack(w)
       PROVE  Goal
  <2>1. serving[w].op # "none"
    BY <1>11
    DEF RollsBack, TypeOK, PreprintJob, RequestJob, ReviewTriggers,
        DefaultTriggers
  <2> QED
    BY <1>2, <1>11, <2>1 DEF RollsBack, KeepsWithdrawal
<1> QED
  BY <1>1, <1>3, <1>4, <1>5, <1>7, <1>8, <1>9, <1>10, <1>11 DEF Next

\* The readers of a request that is open alone are fresh, and the two serial
\* invariants follow from what such a request may do.
THEOREM SerialRequests == Spec => []SerialInv
<1>1. Init => SerialInv
  BY DEF Init, SerialInv, ReadsAreFresh, GrantWithdraws, OnlySeenPreprintsWait
<1>2. TypeOK /\ RowsInv /\ SerialInv /\ [Next]_vars => SerialInv'
  <2> SUFFICES ASSUME TypeOK, RowsInv, SerialInv, [Next]_vars PROVE SerialInv'
    OBVIOUS
  <2>1. CASE UNCHANGED vars
    BY <2>1 DEF vars, SerialInv, ReadsAreFresh, GrantWithdraws,
                OnlySeenPreprintsWait
  <2>2. CASE Next /\ overlapped'
    BY <2>2 DEF SerialInv, GrantWithdraws, OnlySeenPreprintsWait
  <2>3. CASE Next /\ ~overlapped'
    <3>1. ~overlapped /\ reviews_workflow' = reviews_workflow
      <4>1. ASSUME NEW w \in Workers, NEW job, Load(w, job)
            PROVE  ~overlapped /\ reviews_workflow' = reviews_workflow
        BY <2>3, <4>1 DEF Load
      <4>2. ASSUME NEW w \in Workers, Close(w)
            PROVE  ~overlapped /\ reviews_workflow' = reviews_workflow
        BY <2>3, <4>2 DEF Close
      <4>3. ASSUME NEW w \in Workers,
                   \/ PatchLoads(w) \/ ReviewLoads(w) \/ CommandLoads(w)
                   \/ AskLoads(w) \/ DecisionLoads(w)
            PROVE  \E job : Load(w, job)
        BY <4>3, Zenon DEF PatchLoads, ReviewLoads, CommandLoads, AskLoads,
                           DecisionLoads
      <4>4. ASSUME NEW w \in Workers,
                   \/ EditCommits(w) \/ PublishCommits(w)
                   \/ ReviewCommits(w) \/ WithdrawCommits(w)
                   \/ AskCommits(w) \/ GrantCommits(w) \/ DeclineCommits(w)
                   \/ CommentCommits(w) \/ RollsBack(w)
            PROVE  Close(w)
        BY <4>4, Zenon
        DEF EditCommits, PublishCommits, ReviewCommits, WithdrawCommits,
            AskCommits, GrantCommits, DeclineCommits, CommentCommits, RollsBack
      <4> QED
        BY <2>3, <4>1, <4>2, <4>3, <4>4, Zenon DEF Next
    <3>2. /\ ReadsAreFresh'
          /\ KeepsWithdrawal
          /\ \A r \in Requests :
               /\ request'[r] = "accepted" =>
                    request[r] = "accepted" \/ preprint'.date_withdrawn
               /\ request'[r] = "pending" =>
                    \/ request[r] = "pending"
                    \/ ~AutoApprovalAllowed(preprint)
      BY <2>3, <3>1, StepAlone DEF SerialInv, RowsInv
    <3>3. GrantWithdraws'
      BY <3>1, <3>2 DEF SerialInv, GrantWithdraws, KeepsWithdrawal
    <3>4. OnlySeenPreprintsWait'
      BY <3>1, <3>2
      DEF SerialInv, OnlySeenPreprintsWait, KeepsWithdrawal,
          AutoApprovalAllowed
    <3> QED
      BY <3>2, <3>3, <3>4 DEF SerialInv
  <2> QED
    BY <2>1, <2>2, <2>3
<1> QED
  BY <1>1, <1>2, Typing, RowsAreSound, PTL DEF Spec

\* An accepted withdrawal request has withdrawn the preprint.
THEOREM GrantsWithdraw == Spec => []GrantWithdraws
<1>1. SerialInv => GrantWithdraws
  BY DEF SerialInv
<1> QED
  BY <1>1, SerialRequests, PTL

\* Only the preprints that have been public wait for a moderator's decision.
THEOREM UnseenAreNotQueued == Spec => []OnlySeenPreprintsWait
<1>1. SerialInv => OnlySeenPreprintsWait
  BY DEF SerialInv
<1> QED
  BY <1>1, SerialRequests, PTL

\* No request that runs alone takes back a tombstone or a withdrawal.
THEOREM WithdrawalsAreFinal == Spec => WithdrawalIsFinal
<1>1. TypeOK /\ RowsInv /\ SerialInv /\ [Next]_vars =>
        [~overlapped' => KeepsWithdrawal]_vars
  BY StepAlone DEF RowsInv, SerialInv
<1> QED
  BY <1>1, Typing, RowsAreSound, SerialRequests, PTL
  DEF Spec, WithdrawalIsFinal, KeepsWithdrawal
==============================================================================
