SPECIFICATION Spec
CONSTANTS
  R = R
  T = T
  NoType = NoType
  NoKey = NoKey
  Malformed = Malformed
  AnyKey = AnyKey
  Wildcard = "*"
  Struct = NoType
  ListValue = NoType
  Elements <- MCElements
  Types = {R, T}
  RootType = R
  Schema <- MCSchema
  StructTypes = {}
  PathLists <- MCPathLists
  MaxCalls = 2
  MaskPaths <- MCMaskPaths
  Queries <- MCQueries
INVARIANT TypeOK PendingNodesExist ExactVerdicts
PROPERTY AllOrNothing
CHECK_DEADLOCK FALSE
