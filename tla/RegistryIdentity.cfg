SPECIFICATION FairSpec
CONSTANTS
  Handlers = {h1, h2}
  AttestationRefs = {1}
  Leases = {1}
  Mutators = {"SetIdentityAttributes", "SuspendAgent", "RevokeAgent", "SuspendIdentity"}
  Ops = {"agents", "identities", "context"}
  AskedInstances = {0}
  AskedWorkloads = {0}
  MaxSequence = 2
  MaxChanges = 6
  MaxGeneration = 2
  MaxReplies = 2
INVARIANTS
  TypeOK
  EpochDeterminesState
  ContextOfOneView
  NoStaleAnswer
PROPERTIES
  EveryRequestAnswered
  ImplementsAtomicRegistry
