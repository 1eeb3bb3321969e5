SPECIFICATION Spec
CONSTANTS
  None = None
  Accounts = {a1, a2}
  Addresses = {e1, e2, e3}
  Identities = {orcid}
  MaxActs = 0
  Tokens = {t1, t2}
SYMMETRY Alike
CHECK_DEADLOCK FALSE

INVARIANT PrimaryIsNotAnothers
