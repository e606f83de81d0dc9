---------------------------- MODULE XpressModel ----------------------------
(***************************************************************************)
(* The Xpress models (xpress_base and what xpress_milp adds that writes    *)
(* the problem).  The constant of the objective is kept by the model and   *)
(* never passed to Xpress.  A variable that is not continuous is added as  *)
(* a continuous one and then given its type: when that is refused, check() *)
(* throws and the column stays, under no handle.                           *)
(***************************************************************************)
EXTENDS SolverInstance

VARIABLE held  \* the columns whose handles the client got

xpressVars == <<vars, held>>

Init == InstanceInit /\ held = {}

\* chgcoltype: a binary column gets the bounds 0 and 1, whatever it had.
OfType(col, type) ==
    IF type = "B" THEN [col EXCEPT !.type = type, !.lb = 0, !.ub = 1]
    ELSE [col EXCEPT !.type = type]

NewCol(p, coefs) == [obj |-> p.obj, lb |-> p.lb, ub |-> p.ub, type |-> "C", coefs |-> coefs]

\* A parameter that was not given.
NoParams == [obj |-> 0, lb |-> -Infinity, ub |-> Infinity]
ParamsFor(type) == IF type = "B" THEN {NoParams} ELSE Params
AsAdded(p, type) == IF type = "B" THEN Typed(BinaryParams, "binary")
                    ELSE Typed(p, IF type = "C" THEN "continuous" ELSE "integer")
----------------------------------------------------------------------------
(* Objective *)

\* The terms are added up in a vector that has one place for each column.
SetObjective(e) ==
    /\ call' = <<"set_objective", e>>
    /\ PutObjective([i \in DOMAIN cols |-> CoefficientOf(e.terms, i)])
    /\ offset' = e.constant
    /\ UNCHANGED <<rows, maximize, held>>

AddObjective(e) ==
    /\ offset + e.constant \in Constants
    /\ call' = <<"add_objective", e>>
    /\ PutObjective([i \in DOMAIN cols |-> cols[i].obj + CoefficientOf(e.terms, i)])
    /\ offset' = offset + e.constant
    /\ UNCHANGED <<rows, maximize, held>>
----------------------------------------------------------------------------
(* Variables *)

\* add_variable, add_named_variable, add_integer_variable, add_binary_variable.
AddVariable(p, type) ==
    /\ call' = <<"add_variable", Len(cols) + 1, AsAdded(p, type)>>
    /\ AppendCols(<<IF type # "C" THEN OfType(NewCol(p, Zeros), type) ELSE NewCol(p, Zeros)>>)
    /\ held' = held \cup {Len(cols) + 1}
    /\ UNCHANGED <<rows, offset, maximize>>

AddVariableRefused(p, type) ==
    /\ type # "C"
    /\ call' = <<"rejected">>
    /\ AppendCols(<<NewCol(p, Zeros)>>)
    /\ UNCHANGED <<rows, offset, maximize, held>>

\* Arrays that are not passed when all that they would hold are Xpress's defaults.
PassedObj(p) == IF p.obj # 0 THEN p.obj ELSE 0
PassedLower(p) == IF p.lb # 0 THEN p.lb ELSE 0
PassedUpper(p) == IF p.ub < Infinity THEN p.ub ELSE Infinity

\* Mutant: the types go to the first columns.
AddVariablesTypingFirst(count, p, type) ==
    LET new == [k \in 1..count |->
                   NewCol([obj |-> PassedObj(p), lb |-> PassedLower(p), ub |-> PassedUpper(p)], Zeros)]
    IN  /\ call' = <<"add_variables", Len(cols) + 1, count, AsAdded(p, type)>>
        /\ Len(cols) + count <= MaxColumns
        /\ cols' = [i \in 1..(Len(cols) + count) |->
                       IF i <= count /\ type # "C" THEN OfType((cols \o new)[i], type)
                       ELSE (cols \o new)[i]]
        /\ held' = held \cup (Len(cols) + 1)..(Len(cols) + count)
        /\ UNCHANGED <<rows, offset, maximize>>

\* The types are a second call, for the columns from `offset' on.
AddVariables(count, p, type) ==
    LET new == [k \in 1..count |->
                   NewCol([obj |-> PassedObj(p), lb |-> PassedLower(p), ub |-> PassedUpper(p)], Zeros)]
    IN  /\ call' = <<"add_variables", Len(cols) + 1, count, AsAdded(p, type)>>
        /\ AppendCols([k \in 1..count |-> IF type # "C" THEN OfType(new[k], type) ELSE new[k]])
        /\ held' = held \cup (Len(cols) + 1)..(Len(cols) + count)
        /\ UNCHANGED <<rows, offset, maximize>>

AddColumn(p, entries) ==
    /\ call' = <<"add_column", Len(cols) + 1, AsAdded(p, "C"), entries>>
    /\ AppendCols(<<NewCol(p, entries)>>)
    /\ held' = held \cup {Len(cols) + 1}
    /\ UNCHANGED <<rows, offset, maximize>>

\* A binary variable is not given bounds outside 0..1.
SetVariableBound(h, side, b) ==
    /\ cols[h].type = "B" => b \in 0..1
    /\ call' = <<IF side = "lb" THEN "set_variable_lower_bound" ELSE "set_variable_upper_bound", h, b>>
    /\ Change(h, side, b)
    /\ UNCHANGED <<rows, offset, maximize, held>>

\* set_continuous, set_integer and set_binary.
SetType(h, type) ==
    /\ call' = CASE type = "C" -> <<"set_type", h, "continuous">>
                 [] type = "I" -> <<"set_type", h, "integer">>
                 [] type = "B" -> <<"set_binary", h>>
    /\ cols' = [cols EXCEPT ![h] = OfType(@, type)]
    /\ UNCHANGED <<rows, offset, maximize, held>>
----------------------------------------------------------------------------
(* Constraints *)

XpressSense(s) == CASE s = "less_equal" -> "L" [] s = "equal" -> "E" [] s = "greater_equal" -> "G"
SenseOf(c) == CASE c = "L" -> "less_equal" [] c = "E" -> "equal" [] c = "G" -> "greater_equal"

\* add_constraint is the case of one row.
AddConstraints(lcs, distinct) ==
    /\ \A r \in DOMAIN lcs : MayPass(lcs[r].terms, distinct)
    /\ call' = <<"add_constraints", lcs>>
    /\ AppendRows([r \in DOMAIN lcs |-> [sense |-> XpressSense(lcs[r].sense), rhs |-> lcs[r].rhs]],
                  [i \in DOMAIN cols |-> [r \in DOMAIN lcs |-> Registered(lcs[r].terms, i, distinct)]])
    /\ UNCHANGED <<offset, maximize, held>>
----------------------------------------------------------------------------
Types == {"C", "I", "B"}
Batches == BatchesOver(held)

Next ==
    \/ \E k \in Constants : SetObjectiveOffset(k) /\ UNCHANGED held
    \/ \E m \in BOOLEAN : SetDirection(m) /\ UNCHANGED held
    \/ \E h \in held, c \in Coefs : SetObjectiveCoefficient(h, c) /\ UNCHANGED held
    \/ \E e \in ExpressionsOver(held) : SetObjective(e) \/ AddObjective(e)
    \/ \E t \in Types : \E p \in ParamsFor(t) : AddVariable(p, t) \/ AddVariableRefused(p, t)
    \/ \E n \in 1..MaxColumns, t \in Types : \E p \in ParamsFor(t) : AddVariables(n, p, t)
    \/ \E p \in Params, entries \in [1..Len(rows) -> Coefs] : AddColumn(p, entries)
    \/ \E h \in held, side \in {"lb", "ub"}, b \in Bounds : SetVariableBound(h, side, b)
    \/ \E h \in held, t \in Types : SetType(h, t)
    \/ \E lcs \in Batches, d \in BOOLEAN : AddConstraints(lcs, d)

Spec == Init /\ [][Next]_xpressVars
----------------------------------------------------------------------------
\* What the client reads of a variable.
VariableOf(h) == [cols[h] EXCEPT !.type = IF @ = "C" THEN "continuous" ELSE "integer"]
----------------------------------------------------------------------------
(* Properties *)

Promise == INSTANCE MilpModel WITH
    Handles <- 1..MaxColumns,
    Params <- UNION {{AsAdded(p, t) : p \in ParamsFor(t)} : t \in Types},
    Expressions <- ExpressionsOver,
    CoefficientOf <- Coefficient,
    variables <- [h \in held |-> VariableOf(h)],
    constraints <- [r \in DOMAIN rows |-> [rows[r] EXCEPT !.sense = SenseOf(@)]]

\* A new variable of whatever type has the parameters it was asked for although its
\* type comes in a second call, and when that call is refused no variable of the
\* client changes, then or later.
KeepsPromise == Promise!Spec
=============================================================================
