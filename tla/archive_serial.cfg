SPECIFICATION FairSpec

CONSTANTS
  project = project
  component = component
  nested = nested
  sibling = sibling
  Nodes = {project, component, sibling}
  Root = project
  Parent <- ForkParent
  Addons = {osfstorage, github}
  Concurrent = FALSE

INVARIANTS
  AskedWhenComplete

PROPERTIES
  ArchiveProceeds
  TreeIsReported
  RefusalIsReported

CHECK_DEADLOCK FALSE
