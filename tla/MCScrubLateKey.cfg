SPECIFICATION Spec
CONSTANTS
  Fields <- MCFields
  NoType = NoType
  RootType = "R"
  EmptyErased = {"Struct", "Value"}
  ValueType = "Value"
  StructEntry = "FieldsEntry"
  OnKnown <- MCKnown
  OnUnknown <- MCOnUnknown
  OnType <- MCOnType
  SupportsAny <- MCSupportsAny
  TypeNamed <- MCTypeNamed
  AnyType = "Any"
  Small = {}
  Irregular = {}
  WithChecksum = {FALSE}
  Filters <- MCFilters
  Inputs <- MCInputs
  Cases <- LateKeyCases
  MaxCheckers = 0
  VarintBase = 5
  MaxScrubs = 1
INVARIANT LateKeyKept
CHECK_DEADLOCK FALSE
