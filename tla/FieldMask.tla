------------------------------ MODULE FieldMask -------------------------------
(***************************************************************************)
(* What a caller of a field mask sees: a verdict for every query.  The     *)
(* verdict of a mask is that of each list of paths (the union of its       *)
(* paths), intersected over the lists added.  A sequence of lists that is  *)
(* not Exact gets no promise beyond being accepted or rejected as a whole. *)
(* What becomes of a mask after a list was rejected is not what            *)
(* field_mask_tree.h promises, see Abort.                                  *)
(***************************************************************************)
EXTENDS Sequences

CONSTANTS
  Queries,           \* the elements of a message a mask is asked about
  PathLists,         \* the lists of paths it is given
  Union(_, _),       \* Union(l, q): the verdict of list l alone on query q
  Acceptable(_),     \* the list may be accepted
  Rejectable(_),     \* the list may be rejected
  Exact(_)           \* the sequences of lists the promise is made for

Verdicts == {"include", "partial", "exclude"}

\* What two masks agree to leave in.
Meet(v, w) == IF "exclude" \in {v, w} THEN "exclude"
              ELSE IF "partial" \in {v, w} THEN "partial" ELSE "include"

VARIABLES verdict, status, calls

vars == <<verdict, status, calls>>

Init == /\ verdict = [q \in Queries |-> "include"]
        /\ status = "ok"
        /\ calls = <<>>

\* The list accepted is the last one of the history.
Accept ==
  /\ status = "ok" /\ status' = "ok"
  /\ calls' # calls /\ calls' # <<>>
  /\ LET list == calls'[Len(calls')]
     IN  /\ list \in PathLists /\ Acceptable(list)
         /\ calls' = Append(calls, list)
         /\ IF Exact(calls')
            THEN verdict' = [q \in Queries |-> Meet(verdict[q], Union(list, q))]
            ELSE verdict' \in [Queries -> Verdicts]

\* A list that is rejected changes nothing but the status.
Reject ==
  /\ status = "ok" /\ status' = "invalid"
  /\ \E list \in PathLists : Rejectable(list)
  /\ UNCHANGED <<verdict, calls>>

\* Using a broken mask ends the process (ABSL_LOG(FATAL), field_mask_tree.cc:53 and
\* 106).  This is what the code does and no promise: field_mask_tree.h:72-74 has
\* AddOrIntersectFieldPaths() return FAILED_PRECONDITION, and 81-82 has CheckField()
\* answer "exclude", which are the statements that the code does not get to.
Abort == status = "invalid" /\ status' = "aborted" /\ UNCHANGED <<verdict, calls>>

Next == Accept \/ Reject \/ Abort

Spec == Init /\ [][Next]_vars
===============================================================================
