SPECIFICATION FairSpec

CONSTANTS
  Admins = {a1, a2}
  Moderated = FALSE
  MintMayFail = TRUE

INVARIANTS
  EmbargoHonoured

PROPERTIES
  ClosedStaysClosed
  SanctionsAnswered
  EmbargoEnds

CHECK_DEADLOCK FALSE
