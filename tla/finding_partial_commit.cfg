SPECIFICATION Spec

CONSTANTS
  Admins = {a1}
  Moderated = FALSE
  MintMayFail = TRUE

INVARIANTS
  CompletionPublishes

CHECK_DEADLOCK FALSE
