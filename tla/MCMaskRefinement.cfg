SPECIFICATION FairSpec
CONSTANTS
  R = R
  T = T
  NoType = NoType
  NoKey = NoKey
  Malformed = Malformed
  AnyKey = AnyKey
  Wildcard = "*"
  Struct = NoType
  ListValue = NoType
  Elements <- MCElements
  Types = {R, T}
  RootType = R
  Schema <- MCSchema
  StructTypes = {}
  PathLists <- FewPathLists
  MaxCalls = 3
  MaskPaths <- MCMaskPaths
  Queries <- MCQueries
PROPERTY ImplementsMask Returns
CHECK_DEADLOCK FALSE
