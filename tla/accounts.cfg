SPECIFICATION Spec
CONSTANTS
  None = None
  Accounts = {a1, a2, a3}
  Addresses = {e1, e2}
  Identities = {orcid}
  MaxActs = 2
  Tokens = {t1, t2}
SYMMETRY Alike
CHECK_DEADLOCK FALSE

INVARIANTS
  ActiveIsFound
  IdentityIsUnique
  MergedIsEmpty
