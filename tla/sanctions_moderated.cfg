SPECIFICATION Spec

CONSTANTS
  Admins = {a1, a2, a3}
  Moderated = TRUE
  MintMayFail = FALSE

SYMMETRY AdminSymmetry

INVARIANTS
  NoAdminSkipped
  CompletionPublishes
  ModerationStateLag
  WithdrawalCancelsEmbargo
  ModerationIsRecorded

CHECK_DEADLOCK FALSE
