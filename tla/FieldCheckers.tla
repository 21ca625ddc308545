---------------------------- MODULE FieldCheckers -----------------------------
(***************************************************************************)
(* The two field checkers that need no mask: UnknownFieldChecker excludes  *)
(* fields that the type does not have, and InternalFieldChecker excludes   *)
(* Any fields with a message in them that is Google's own.                 *)
(***************************************************************************)
EXTENDS Naturals

CONSTANTS
  MaxDepth,        \* max_depth_
  WellKnownTypes,  \* Timestamp, Duration, the wrappers and FieldMask
  StructTypes,     \* Struct, Value and ListValue
  DebugInfo        \* DebugInfo

UnknownFieldChecker == "UnknownFieldChecker"
InternalFieldChecker == "InternalFieldChecker"

IsWellKnownTypeOrStructType(type) == type \in WellKnownTypes \cup StructTypes

\* Mutant: messages at the limit are looked into.
HasUnknownsAtLimit(field, depth) ==
  /\ field.kind = "message" /\ ~IsWellKnownTypeOrStructType(field.type)
  /\ depth <= MaxDepth

\* A message may have fields that are unknown, but for the well-known ones.
HasUnknowns(field, depth) ==
  /\ field.kind = "message" /\ ~IsWellKnownTypeOrStructType(field.type)
  /\ depth < MaxDepth

\* CheckField() of a known field, and of an unknown one.
CheckKnown(checker, field, depth) ==
  IF checker = UnknownFieldChecker /\ HasUnknowns(field, depth) THEN "partial" ELSE "include"

CheckUnknownField(checker) ==
  IF checker = UnknownFieldChecker THEN "exclude" ELSE "include"

SupportAny(checker) == checker = InternalFieldChecker

CheckType(checker, type) ==
  IF checker = InternalFieldChecker /\ type = DebugInfo THEN "exclude" ELSE "include"
===============================================================================
