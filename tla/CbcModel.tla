----------------------------- MODULE CbcModel -----------------------------
(***************************************************************************)
(* The Cbc model (cbc_milp).  Cbc reports no failure, so every call is     *)
(* taken, but the generator that a client passes to add_constraints can    *)
(* throw between two rows.  The wrapper counts columns and rows itself and *)
(* takes the handles from its counters.                                    *)
(***************************************************************************)
EXTENDS SolverInstance

VARIABLES held, heldRows,     \* the columns and the rows whose handles the client got
          cache,              \* the length of tmp_entry_index_cache
          overrun,            \* whether an entry behind its end was used
          lazy_num_variables, lazy_num_constraints

counters == <<lazy_num_variables, lazy_num_constraints>>
cbcVars == <<vars, held, heldRows, cache, overrun, counters>>

Init == /\ InstanceInit
        /\ held = {} /\ heldRows = <<>>
        /\ cache = 0 /\ overrun = FALSE
        /\ lazy_num_variables = 0 /\ lazy_num_constraints = 0

NewCol(p, integer, coefs) ==
    [obj |-> p.obj, lb |-> p.lb, ub |-> p.ub, integer |-> integer, coefs |-> coefs]

AsAdded(p, integer) == Typed(p, IF integer THEN "integer" ELSE "continuous")
----------------------------------------------------------------------------
(* Objective *)

\* Every coefficient the model counts is reset, then each term is added to what its
\* variable has by then.
SetObjective(e) ==
    /\ call' = <<"set_objective", e>>
    /\ PutObjective([i \in DOMAIN cols |-> (IF i <= lazy_num_variables THEN 0 ELSE cols[i].obj)
                               + CoefficientOf(e.terms, i)])
    /\ offset' = e.constant
    /\ UNCHANGED <<rows, maximize, held, heldRows, cache, overrun, counters>>

AddObjective(e) ==
    /\ offset + e.constant \in Constants
    /\ call' = <<"add_objective", e>>
    /\ PutObjective([i \in DOMAIN cols |-> cols[i].obj + CoefficientOf(e.terms, i)])
    /\ offset' = offset + e.constant
    /\ UNCHANGED <<rows, maximize, held, heldRows, cache, overrun, counters>>
----------------------------------------------------------------------------
(* Variables *)

\* One or more columns, whose handles start at the counter.
Adds(count, col) ==
    /\ AppendCols([k \in 1..count |-> col])
    /\ lazy_num_variables' = lazy_num_variables + count
    /\ UNCHANGED <<rows, offset, maximize, heldRows, cache, overrun, lazy_num_constraints>>

HandlesFrom(count) == (lazy_num_variables + 1)..(lazy_num_variables + count)

AddVariable(p, integer) ==
    /\ call' = <<"add_variable", lazy_num_variables + 1, AsAdded(p, integer)>>
    /\ Adds(1, NewCol(p, integer, Zeros))
    /\ held' = held \cup HandlesFrom(1)

AddVariables(count, p, integer) ==
    /\ call' = <<"add_variables", lazy_num_variables + 1, count, AsAdded(p, integer)>>
    /\ Adds(count, NewCol(p, integer, Zeros))
    /\ held' = held \cup HandlesFrom(count)

\* Mutant: the new column is not counted.
AddColumnUncounted(p, entries) ==
    /\ call' = <<"add_column", lazy_num_variables + 1, AsAdded(p, FALSE),
                 [k \in DOMAIN heldRows |-> entries[heldRows[k]]]>>
    /\ AppendCols(<<NewCol(p, FALSE, entries)>>)
    /\ held' = held \cup HandlesFrom(1)
    /\ UNCHANGED <<rows, offset, maximize, heldRows, cache, overrun, counters>>

AddColumn(p, entries) ==
    /\ call' = <<"add_column", lazy_num_variables + 1, AsAdded(p, FALSE),
                 [k \in DOMAIN heldRows |-> entries[heldRows[k]]]>>
    /\ Adds(1, NewCol(p, FALSE, entries))
    /\ held' = held \cup HandlesFrom(1)

\* solve() of an empty model adds a variable that nobody asked for.
SolveEmpty ==
    /\ lazy_num_variables = 0
    /\ Adds(1, NewCol([obj |-> 0, lb |-> 0, ub |-> Infinity], FALSE, Zeros))
    /\ UNCHANGED <<call, held>>

SetVariableBound(h, side, b) ==
    /\ call' = <<IF side = "lb" THEN "set_variable_lower_bound" ELSE "set_variable_upper_bound", h, b>>
    /\ Change(h, side, b)
    /\ UNCHANGED <<rows, offset, maximize, held, heldRows, cache, overrun, counters>>

SetInteger(h, integer) ==
    /\ call' = <<"set_type", h, IF integer THEN "integer" ELSE "continuous">>
    /\ Change(h, "integer", integer)
    /\ UNCHANGED <<rows, offset, maximize, held, heldRows, cache, overrun, counters>>

SetBinary(h) ==
    /\ call' = <<"set_binary", h>>
    /\ cols' = [cols EXCEPT ![h] = [@ EXCEPT !.integer = TRUE, !.lb = 0, !.ub = 1]]
    /\ UNCHANGED <<rows, offset, maximize, held, heldRows, cache, overrun, counters>>
----------------------------------------------------------------------------
(* Constraints *)

\* Cbc keeps a row as two bounds.
RowOf(lc) == [lower |-> IF lc.sense = "less_equal" THEN -Infinity ELSE lc.rhs,
              upper |-> IF lc.sense = "greater_equal" THEN Infinity ELSE lc.rhs]

\* The rows lcs are added, one after the other.
RowsTaken(lcs, distinct) ==
    /\ \A r \in DOMAIN lcs : MayPass(lcs[r].terms, distinct)
    /\ cache' = IF distinct THEN cache ELSE lazy_num_variables
    /\ AppendRows([r \in DOMAIN lcs |-> RowOf(lcs[r])],
                  [i \in DOMAIN cols |-> [r \in DOMAIN lcs |-> Registered(lcs[r].terms, i, distinct)]])
    /\ lazy_num_constraints' = lazy_num_constraints + Len(lcs)
    /\ UNCHANGED <<offset, maximize, held, overrun, lazy_num_variables>>

\* add_constraint is the case of one row.
AddConstraints(lcs, distinct) ==
    /\ call' = <<"add_constraints", lcs>>
    /\ RowsTaken(lcs, distinct)
    /\ heldRows' = heldRows \o [r \in DOMAIN lcs |-> lazy_num_constraints + r]

\* The generator makes the rows lcs and then throws.
AddConstraintsThrows(lcs, distinct) ==
    /\ call' = <<"rejected">>
    /\ RowsTaken(lcs, distinct)
    /\ UNCHANGED heldRows

\* The terms are merged in the cache, which this call does not prepare: it is as long as
\* the last add_constraint or add_constraints that merged terms has left it, and empty
\* when there was none.  Behind its end there is no telling what becomes of the row.  The
\* constant of the expression moves to the bounds.
AddRangedConstraint(e, lb, ub) ==
    /\ call' = <<"add_ranged_constraint", e, lb, ub>>
    /\ AppendRows(<<[lower |-> lb - e.constant, upper |-> ub - e.constant]>>,
                  [i \in DOMAIN cols |-> [r \in {1} |-> CoefficientOf(e.terms, i)]])
    /\ overrun' = \E v \in VarsOf(e.terms) : v > cache
    /\ lazy_num_constraints' = lazy_num_constraints + 1
    /\ heldRows' = Append(heldRows, lazy_num_constraints + 1)
    /\ UNCHANGED <<offset, maximize, held, cache, lazy_num_variables>>
----------------------------------------------------------------------------
\* What the client reads: the getters of a variable and of a constraint.
VariableOf(h) ==
    [obj |-> cols[h].obj, lb |-> cols[h].lb, ub |-> cols[h].ub,
     type |-> IF cols[h].integer THEN "integer" ELSE "continuous",
     coefs |-> [k \in DOMAIN heldRows |-> cols[h].coefs[heldRows[k]]]]

\* get_constraint_sense throws for a range.
SenseOf(row) ==
    CASE row.lower = row.upper -> "equal"
      [] row.lower = -Infinity -> "less_equal"
      [] row.upper = Infinity  -> "greater_equal"
      [] OTHER                 -> "range"

ConstraintOf(row) ==
    [sense |-> SenseOf(row),
     rhs |-> CASE SenseOf(row) = "range" -> <<row.lower, row.upper>>
               [] SenseOf(row) = "greater_equal" -> row.lower
               [] OTHER -> row.upper]
----------------------------------------------------------------------------
HeldExprs == ExpressionsOver(held)
Batches == BatchesOver(held)
Unchanged == UNCHANGED <<held, heldRows, cache, overrun, counters>>

\* What follows an overrun is not defined.
Next ==
    /\ ~overrun
    /\ \/ \E k \in Constants : SetObjectiveOffset(k) /\ Unchanged
       \/ \E m \in BOOLEAN : SetDirection(m) /\ Unchanged
       \/ \E h \in held, c \in Coefs : SetObjectiveCoefficient(h, c) /\ Unchanged
       \/ \E e \in HeldExprs : SetObjective(e) \/ AddObjective(e)
       \/ \E p \in Params \cup {BinaryParams}, t \in BOOLEAN : AddVariable(p, t)
       \/ \E n \in 1..MaxColumns, p \in Params \cup {BinaryParams}, t \in BOOLEAN :
             AddVariables(n, p, t)
       \/ \E p \in Params, entries \in [1..Len(rows) -> Coefs] : AddColumn(p, entries)
       \/ SolveEmpty
       \/ \E h \in held, side \in {"lb", "ub"}, b \in Bounds : SetVariableBound(h, side, b)
       \/ \E h \in held, t \in BOOLEAN : SetInteger(h, t)
       \/ \E h \in held : SetBinary(h)
       \/ \E lcs \in Batches, d \in BOOLEAN : AddConstraints(lcs, d) \/ AddConstraintsThrows(lcs, d)
       \/ \E e \in HeldExprs, lb, ub \in Rhs : lb <= ub /\ AddRangedConstraint(e, lb, ub)

Spec == Init /\ [][Next]_cbcVars
----------------------------------------------------------------------------
(* Properties *)

Promise == INSTANCE MilpModel WITH
    Handles <- 1..MaxColumns,
    Params <- {AsAdded(p, t) : p \in Params \cup {BinaryParams}, t \in BOOLEAN},
    Expressions <- ExpressionsOver,
    CoefficientOf <- Coefficient,
    variables <- [h \in held |-> VariableOf(h)],
    constraints <- [k \in DOMAIN heldRows |-> ConstraintOf(rows[heldRows[k]])]

\* With the rows that a throwing generator leaves behind, and with the variable that
\* solving an empty model adds, each call does to the variables and constraints of
\* the client what it says: the counters stay those of Cbc.  Nothing is said of a range
\* whose terms overrun the cache, which is what CacheHoldsAllIds is about.
KeepsPromise == Promise!Init /\ [][overrun' \/ Promise!Next]_(Promise!vars)

\* The cache that merges the terms of a row has an entry for the largest id among them.
CacheHoldsAllIds == ~overrun
=============================================================================
