----------------------------- MODULE MCClpModel -----------------------------
(***************************************************************************)
(* A small Clp model: three columns, so that the free list can hold two in *)
(* either order while one is held; or two columns and three rows, so that  *)
(* the removal of a column can pass over an entry.  The parameters have    *)
(* zero bounds and others, on both sides, since recycling writes only      *)
(* those that are not zero.  Beside it the vectors that rows are passed    *)
(* in: two columns, two terms, so that a variable can be repeated, and     *)
(* calls of two rows, which have a neighbour each.                         *)
(***************************************************************************)
EXTENDS ClpModel

CONSTANTS RowVars, RowCoefs, MaxCallRows  \* those of ClpRows

ASSUME CallRowsAssumption == MaxCallRows \in Nat

VARIABLES part,                       \* which of the two a behaviour is about
          entries, starts, written    \* those of ClpRows

passed == <<entries, starts, written>>

MCCoefs == 0..2
MCTermCoefs == {1}
MCBounds == {-9, 0, 9}
MCParams == {[obj |-> 0, lb |-> 0, ub |-> 9, type |-> "continuous"],
             [obj |-> 1, lb |-> -9, ub |-> 0, type |-> "continuous"]}
MCRhs == 0..1

\* How far a held column is from the one that add_variable() makes by default.
Edits(c) == Cardinality({a \in {"obj", "lb", "ub"} : CASE a = "obj" -> c.obj # 0
                                                       [] a = "lb" -> c.lb # 0
                                                       [] a = "ub" -> c.ub # 9})
            + Cardinality({r \in DOMAIN c.coefs : c.coefs[r] # 0})

RowEdits(row) == IF row = RowOf("less_equal", 0) THEN 0 ELSE 1

\* The whole model has at most three values that are not the default: those of the
\* second parameters at once, or some of them with an edit elsewhere.  Three columns have
\* one row, and rows beside another are as by default.
FewEdits == /\ MapThenSumSet(LAMBDA i : Edits(cols[i]), held)
               + MapThenSumSet(LAMBDA r : RowEdits(rows[r]), DOMAIN rows) <= 3
            /\ Len(cols) = 3 => Len(rows) <= 1
            /\ Len(rows) > 1 => \A r \in DOMAIN rows : RowEdits(rows[r]) = 0

\* No guard and no update reads `call'.
WithoutCall == <<cols, rows, free_variable_ids, held, part, passed>>

Passed == INSTANCE ClpRows WITH Vars <- RowVars, Coefs <- RowCoefs, MaxRows <- MaxCallRows

MCInit == part \in {"problem", "rows"} /\ Init /\ Passed!Init

MCNext == /\ UNCHANGED part
          /\ \/ part = "problem" /\ Next /\ UNCHANGED passed
             \/ part = "rows" /\ Passed!Next /\ UNCHANGED vars

MCSpec == MCInit /\ [][MCNext]_<<vars, part, passed>>
----------------------------------------------------------------------------
\* The rows that Clp makes of the vectors and the starts are those that the client
\* wrote, term for term added up, whatever an earlier call left in the vectors.
RowsAddUp == Passed!RowsAddUp
=============================================================================
