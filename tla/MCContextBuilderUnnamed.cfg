CONSTANT network = network
CONSTANT service = service
CONSTANT Blocks = {1, 2, 3, 4, 5}
CONSTANT Resources = {1, 2, 3}
CONSTANT Files = {network, service}
CONSTANT NoFile = NoFile
CONSTANT FileOf <- MCFileOf
CONSTANT Start <- MCStart
CONSTANT Offsets <- MCOffsets
CONSTANT Refs = {1, 2, 3, 4, 5}
CONSTANT Early = {1, 2, 3}
CONSTANT Uses <- MCUses
CONSTANT Target <- MCTarget
CONSTANT NoTarget = NoTarget
CONSTANT NoBlock = NoBlock
CONSTANT Foreign = Foreign
CONSTANT NoExcerpt = NoExcerpt
CONSTANT NoPick = NoPick
CONSTANT SymbolSize = 2
CONSTANT MetadataSize = 3
CONSTANT Failures <- MCFailures
CONSTANT Diffs <- MCDiffs
CONSTANT Settings <- MCSettings
SPECIFICATION Spec
INVARIANT UnnamedIsRanked
CHECK_DEADLOCK FALSE
