SPECIFICATION Spec
CONSTANTS
  NoType = NoType
  VarintBase = 128
  RootType = "R"
  AnyType = "Any"
  Timestamps = {"Timestamp"}
  Wrappers = {"Int32Value", "BoolValue"}
  Fields <- MCFields
  TypeNamed <- MCTypeNamed
  Inputs <- MCInputs
  MaxDepths <- MCMaxDepths
INVARIANT LimitSkipsChildren
CHECK_DEADLOCK FALSE
