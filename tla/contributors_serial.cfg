SPECIFICATION Spec

CONSTANTS
  None = None
  Threads = {1}
  Users = {a, b, c}
  Creator = a
  GroupAdmins = {a, b, c}
  Permissions = {"write", "admin"}
SYMMETRY Alike
CONSTRAINT FewEnded

INVARIANTS
  AdminRemains
  VisibleRemains
  OnePermissionEach
  UnregisteredIsClaimable

PROPERTIES
  SparedForAReason
