SPECIFICATION Spec
CONSTANTS
  Fields <- MCFields
  NoType = NoType
  RootType = "R"
  EmptyErased = {"Struct", "Value"}
  ValueType = "Value"
  StructEntry = "FieldsEntry"
  OnKnown <- MCKnown
  OnUnknown <- MCOnUnknown
  OnType <- MCOnType
  SupportsAny <- MCSupportsAny
  TypeNamed <- MCTypeNamed
  AnyType = "Any"
  Small = {}
  Irregular = {}
  WithChecksum = {FALSE}
  Filters <- MCFilters
  Inputs <- MCInputs
  Cases <- AllCases
  MaxCheckers = 2
  VarintBase = 5
  MaxScrubs = 2
INVARIANT TypeOK OutputExact FailsExactly KeptBytes
PROPERTY KeptIntact
CHECK_DEADLOCK FALSE
