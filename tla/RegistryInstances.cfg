SPECIFICATION Spec
CONSTANTS
  Handlers = {h1, h2}
  AttestationRefs = {1}
  Leases = {1}
  Mutators = {"SetIdentityAttributes", "AddWorkload", "TerminateInstance", "LeaseInstance"}
  Ops = {"namespaces", "workloads", "instances", "context", "commit", "malformed"}
  AskedInstances = {0, 3}
  AskedWorkloads = {0, 2}
  MaxSequence = 4
  MaxChanges = 0
  MaxGeneration = 2
  MaxReplies = 2
SYMMETRY HandlerSymmetry
INVARIANTS
  GenerationDeterminesInstance
PROPERTIES
  InstancesOnlyAge
  ImplementsAtomicRegistry
