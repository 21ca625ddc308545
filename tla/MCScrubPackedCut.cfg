SPECIFICATION Spec
CONSTANTS
  Fields <- MCFields
  NoType = NoType
  RootType = "R"
  EmptyErased = {"Struct", "Value"}
  ValueType = "Value"
  StructEntry = "FieldsEntry"
  OnKnown <- MCKnown
  OnUnknown <- MCOnUnknown
  OnType <- MCOnType
  SupportsAny <- MCSupportsAny
  TypeNamed <- MCTypeNamed
  AnyType = "Any"
  Small = {}
  Irregular = {}
  WithChecksum = {FALSE}
  Filters <- MCFilters
  Inputs <- MCInputs
  Cases <- PackedCutCases
  MaxCheckers = 0
  VarintBase = 5
  MaxScrubs = 1
PROPERTY PackedConsumed
CHECK_DEADLOCK FALSE
