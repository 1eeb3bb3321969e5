SPECIFICATION Spec

CONSTANTS
  project = project
  component = component
  nested = nested
  sibling = sibling
  Nodes = {project, component}
  Root = project
  Parent <- PairParent
  Addons = {osfstorage, github}
  Concurrent = TRUE

INVARIANTS
  AskedWhenFinished
  OneVerdict
  SuccessIsSound

CHECK_DEADLOCK FALSE
