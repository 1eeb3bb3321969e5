SPECIFICATION Spec
CONSTANTS
  p = p
  q = q
  rp = rp
  rq = rq
  d = d
  f = f
  g = g
  a = a
  w = w
  x = x
  y = y
  None = None
  Threads = {1}
  Projects = {p}
  Preprints = {q}
  Folders = {d}
  Files = {f, g}
  Root <- RootOf
  Users = {a, w}
  Admin = a
  Objects = {x, y}
  MaxVersions = 2
SYMMETRY Alike
CONSTRAINT FewUnsettled
INVARIANTS
  VersionsAreNumbered
  CheckedOutByMembers
  LiveIsReached
  LiveIsStored
  PrimaryFileStays
PROPERTIES
  CheckedOutIsKept
