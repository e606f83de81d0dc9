--------------------------- MODULE MCHighsModel ---------------------------
(***************************************************************************)
(* A small HiGHS model: three columns and four handles are enough for a    *)
(* removal in front, in the middle and at the end, for a free list of two  *)
(* handles in either order, and for a handle and a column to differ.       *)
(***************************************************************************)
EXTENDS HighsModel

MCCoefs == 0..2
MCBounds == 0..1
MCTermCoefs == {1}
MCParams == {[obj |-> 0, lb |-> 0, ub |-> 1, type |-> "continuous"],
             [obj |-> 1, lb |-> 0, ub |-> 1, type |-> "integer"]}
MCTypes == {"continuous", "integer"}
MCRhs == 0..1

\* How far a column is from the one that add_variable() makes by default.
Edits(c) == Cardinality({a \in {"obj", "lb", "ub", "type"} :
                CASE a = "obj" -> c.obj # 0
                  [] a = "lb" -> c.lb # 0
                  [] a = "ub" -> c.ub # 1
                  [] a = "type" -> c.type # "continuous"})
            + Cardinality({r \in DOMAIN c.coefs : c.coefs[r] # 0})

MaxEdits == 1

RowEdits(row) == IF row = RowOf("less_equal", 0) THEN 0 ELSE 1

\* The whole model has at most MaxEdits values that are not the default.
FewEdits == MapThenSumSet(LAMBDA i : Edits(cols[i]), DOMAIN cols)
            + MapThenSumSet(LAMBDA r : RowEdits(rows[r]), DOMAIN rows) <= MaxEdits

\* A removal compacts the maps in place, whichever columns it takes: the entries that
\* the loop overwrites are those that it has read (highs_base.hpp:209-225).
LoopCompacts == Compacts(Len(cols))

\* No guard and no update reads `call', so states that differ in it alone have
\* the same futures.
WithoutCall == <<remapping, cols, rows, held>>
=============================================================================
