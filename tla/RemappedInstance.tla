-------------------------- MODULE RemappedInstance --------------------------
(***************************************************************************)
(* The problem in Gurobi's and in CPLEX's library, for the models that     *)
(* remove variables: columns are found through the handle maps.            *)
(***************************************************************************)
EXTENDS RemappingModel, SolverInstance

CONSTANTS MaxHandles,   \* bound on the handle ids given out
          MaxLeftOver,  \* bound on the map entries that are no column's
          Careless      \* whether clients make the calls that forget the maps after a removal

ASSUME HandlesAssumption == MaxHandles \in Nat \ {0} /\ MaxLeftOver \in Nat
ASSUME CarelessAssumption == Careless \in BOOLEAN

VARIABLES held,     \* the handles of variables that the client holds
          heldRows  \* the handles of constraints that it got, which are never removed

handles == <<remapping, held, heldRows>>

\* What an expression gives to a column: its terms translated and added up.
NativeCoefficient(terms, i) ==
    SumAt(terms, {k \in DOMAIN terms : NativeId(terms[k].var) = i})

NewCol(p, type, coefs) ==
    [obj |-> p.obj, lb |-> p.lb, ub |-> p.ub, type |-> type, coefs |-> coefs]

ParamsFor(type) == IF type = "B" THEN {BinaryParams} ELSE Params
AsAdded(p, type) == Typed(p, IF type = "C" THEN "continuous" ELSE "integer")

ChangeNative(h, fields) ==
    cols' = [cols EXCEPT ![NativeId(h)] =
                [f \in DOMAIN @ |-> IF f \in DOMAIN fields THEN fields[f] ELSE @[f]]]

\* The handles that lead to a column, as those that the client holds do.
Readable == {h \in held : NativeId(h) \in DOMAIN cols}

\* What the client reads of a variable, under the handles it has of constraints.
VariableOf(h) ==
    LET col == cols[NativeId(h)]
    IN  [obj |-> col.obj, lb |-> col.lb, ub |-> col.ub,
         type |-> IF col.type = "C" THEN "continuous" ELSE "integer",
         coefs |-> [k \in DOMAIN heldRows |-> col.coefs[heldRows[k]]]]

Types == {"C", "I", "B"}
HeldExprs == ExpressionsOver(held)
Batches == BatchesOver(held)

\* Sequences of held handles without repetition, the arguments of a removal.
Removals ==
    UNION {{s \in [1..k -> held] : \A i, j \in 1..k : s[i] = s[j] => i = j} :
           k \in 1..Cardinality(held)}
----------------------------------------------------------------------------
\* Every held handle leads to a column of its own, and the column back to it.
HeldHandlesReturn ==
    \A h \in held : /\ remap_ids => h \in DOMAIN native_ids_map
                    /\ NativeId(h) \in DOMAIN cols
                    /\ remap_ids => NativeId(h) \in DOMAIN handle_ids_map
                    /\ VarHandle(NativeId(h)) = h
=============================================================================
