SPECIFICATION Spec

CONSTANTS
  Requests = {r1, r2}
  Workers = {w1, w2}

SYMMETRY Symmetry

INVARIANTS
  PublicationFollowsReview
  ModeratedBeforePublic
  GrantWithdraws
  OnlySeenPreprintsWait

PROPERTY WithdrawalIsFinal
