------------------------- MODULE MCRemappingSolvers -------------------------
(***************************************************************************)
(* The Gurobi model and the CPLEX model on three columns and four handles, *)
(* enough for a removal in front, in the middle and at the end, with the   *)
(* slack of a range before or behind, and one row.  `solver' says which.   *)
(***************************************************************************)
EXTENDS RemappedInstance

VARIABLES solver,
          num_var_native_ids, lazy_num_constraints, seen  \* Gurobi

native == <<num_var_native_ids, lazy_num_constraints, seen>>

MCCoefs == 0..2
MCTermCoefs == {1}
MCConstants == 0..1
MCBounds == {-9, 0, 1, 9}
MCParams == {[obj |-> 0, lb |-> 0, ub |-> 9], [obj |-> 1, lb |-> 0, ub |-> 9]}
MCRhs == {1, 2}

Gurobi == INSTANCE GurobiModel
Cplex  == INSTANCE CplexModel

\* What a CPLEX model does not keep.
NoNative == num_var_native_ids = 0 /\ lazy_num_constraints = 0 /\ seen = <<>>

Init ==
    \/ solver = "gurobi" /\ Gurobi!Init
    \/ solver = "cplex" /\ Cplex!Init /\ NoNative

Next ==
    /\ UNCHANGED solver
    /\ \/ solver = "gurobi" /\ Gurobi!Next
       \/ solver = "cplex" /\ Cplex!Next /\ UNCHANGED native

all == <<solver, vars, handles, native>>
Spec == Init /\ [][Next]_all
----------------------------------------------------------------------------
(* Bounds *)

\* How far a column is from the one that add_variable() makes by default.
Default == [obj |-> 0, lb |-> 0, ub |-> 9, type |-> "C"]
ColumnEdits(c) == Cardinality({f \in DOMAIN Default : c[f] # Default[f]})

\* The columns that lead to a held handle.
Found == {i \in DOMAIN cols : /\ remap_ids => i \in DOMAIN handle_ids_map
                              /\ VarHandle(i) \in held}

Entries == UNION {{<<r, i>> : r \in {r \in DOMAIN rows : cols[i].coefs[r] # 0}} : i \in Found}

\* What is not as in an empty model: values of held variables and of the objective, and
\* a row, which is kept with one entry at most and one right-hand side.
Changes == MapThenSumSet(LAMBDA i : ColumnEdits(cols[i]), Found) + offset
           + (IF maximize THEN 1 ELSE 0) + Len(rows)

\* At most one thing is changed, and nothing when two handles are free.  Gurobi refuses
\* one row at most, after which every call can be made.
FewEdits ==
    /\ Changes <= 1 /\ Changes + Len(free_var_handles) <= 2
    /\ Cardinality(Entries) <= 1
    /\ \A r \in DOMAIN rows : rows[r] \in {[sense |-> s, rhs |-> 2] : s \in {"equal", "G"}}
    /\ solver = "gurobi" => lazy_num_constraints <= Len(rows) + 1

\* No guard and no update reads `call' or `seen'.
WithoutCall == <<solver, instance, handles, num_var_native_ids, lazy_num_constraints>>
----------------------------------------------------------------------------
(* The properties of the models, of whichever is in use *)

\* Every call on a Gurobi model does what it says by handle, whatever is still queued,
\* and the slack columns of ranges stay out of the way.  This does not speak of calls
\* after a row was refused: from there on a new constraint names the row behind its own.
GurobiKeepsPromise ==
    [][(solver = "gurobi" /\ Gurobi!RowsCounted) =>
          [Gurobi!Promise!Next]_(Gurobi!Promise!vars)]_all

\* num_variables() of a Gurobi model does not throw.
GurobiColumnsCounted == solver = "gurobi" => Gurobi!ColumnsCounted

\* Every call on a CPLEX model does what it says by handle, also when a column was given
\* two handles or was refused after its entry in the map had been made.
CplexKeepsPromise ==
    [][solver = "cplex" => [Cplex!Promise!Next]_(Cplex!Promise!vars)]_all

\* A handle of Gurobi's or of CPLEX's model leads to a column and the column back to it.
RemappedHandlesReturn == solver \in {"gurobi", "cplex"} => HeldHandlesReturn
=============================================================================
