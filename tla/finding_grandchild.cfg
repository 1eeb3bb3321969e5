SPECIFICATION Spec

CONSTANTS
  project = project
  component = component
  nested = nested
  sibling = sibling
  Nodes = {project, component, nested}
  Root = project
  Parent <- ChainParent
  Addons = {osfstorage}
  Concurrent = FALSE

INVARIANTS
  AskedWhenComplete

CHECK_DEADLOCK FALSE
