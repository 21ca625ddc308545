SPECIFICATION Spec
CONSTANTS
  A = A
  B = B
  NoType = NoType
  NoKey = NoKey
  Malformed = Malformed
  AnyKey = AnyKey
  Wildcard = "*"
  Struct = NoType
  ListValue = NoType
  Elements <- MCElements
  Types = {A, B}
  RootType = A
  Schema <- MCSchema
  StructTypes = {}
  PathLists <- MCPathLists
  MaxCalls = 1
  MaskPaths <- MCMaskPaths
INVARIANT CyclesAnywhere
CHECK_DEADLOCK FALSE
