SPECIFICATION Spec
CONSTANTS
  Handlers = {h1}
  AttestationRefs = {1}
  Leases = {1}
  Mutators = {"AddWorkload", "SetIdentityAttributes"}
  Ops = {"commit"}
  AskedInstances = {0}
  AskedWorkloads = {2}
  MaxSequence = 4
  MaxChanges = 0
  MaxGeneration = 1
  MaxReplies = 2
INVARIANTS
  CommitIsIdempotent
