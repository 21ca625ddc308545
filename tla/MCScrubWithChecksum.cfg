SPECIFICATION SumSpec
CONSTANTS
  Fields <- MCFields
  NoType = NoType
  AnyType = "Any"
  RootType = "R"
  EmptyErased = {"Struct", "Value"}
  ValueType = "Value"
  StructEntry = "FieldsEntry"
  Timestamps = {"Timestamp"}
  Wrappers = {"BoolValue"}
  Small = {"Timestamp", "BoolValue"}
  WellKnownTypes = {"Timestamp"}
  StructTypes = {"Struct", "Value"}
  DebugInfo = "DebugInfo"
  OnKnown <- MCOnKnown
  OnUnknown <- MCOnUnknown
  OnType <- MCOnType
  SupportsAny <- MCSupportsAny
  TypeNamed <- MCTypeNamed
  Inputs <- MCInputs
  Cases <- MCCases
  Irregular <- OddAsts
  Filters = {}
  WithChecksum = {TRUE, FALSE}
  VarintBase = 5
  MaxDepth = 2
  MaxCheckers = 0
  MaxScrubs = 1
INVARIANT PathUnwound TagsFollowCalls TagCopiesFound OutputExact FailsExactly SumsAddUp UnknownsRemoved
PROPERTY Terminates
CHECK_DEADLOCK FALSE
