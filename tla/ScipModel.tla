----------------------------- MODULE ScipModel -----------------------------
(***************************************************************************)
(* The SCIP model (scip_milp, but its callback).  SCIP has variables and   *)
(* constraints of its own, not columns and rows: the wrapper keeps         *)
(* pointers to them in two vectors, and a handle is a position there.      *)
(* check() throws when SCIP refuses a call; a variable or constraint that  *)
(* SCIP refused is in neither vector.  The constraints of add_constraints  *)
(* are added one after the other, so those before a refused one, or before *)
(* a generator that throws, stay.                                          *)
(***************************************************************************)
EXTENDS SolverInstance

VARIABLES variables,    \* handle -> the SCIP variable, which is a column here
          constraints,  \* handle -> the SCIP constraint, which is a row here
          heldRows      \* the constraints whose handles the client got

scipVars == <<vars, variables, constraints, heldRows>>

Init == InstanceInit /\ variables = <<>> /\ constraints = <<>> /\ heldRows = <<>>

NewVar(p, type) == [obj |-> p.obj, lb |-> p.lb, ub |-> p.ub, type |-> type, coefs |-> Zeros]

ParamsFor(type) == IF type = "B" THEN {BinaryParams} ELSE Params
AsAdded(p, type) == Typed(p, IF type = "C" THEN "continuous" ELSE "integer")
----------------------------------------------------------------------------
(* Objective *)

\* What a term does to the objective: with distinct_variables it takes the place of
\* the 0 that the coefficient was reset to, otherwise it is added.
SetObjective(e, distinct) ==
    /\ MayPass(e, distinct)
    /\ call' = <<"set_objective", e>>
    /\ \A i \in DOMAIN cols : Registered(e, i, distinct) \in Coefs
    /\ cols' = [i \in DOMAIN cols |->
          IF \E h \in DOMAIN variables : variables[h] = i
          THEN [cols[i] EXCEPT !.obj =
                   Registered(e, CHOOSE h \in DOMAIN variables : variables[h] = i, distinct)]
          ELSE cols[i]]
    /\ offset' = e.constant
    /\ UNCHANGED <<rows, maximize, variables, constraints, heldRows>>

AddObjective(e) ==
    /\ offset + e.constant \in Constants
    /\ call' = <<"add_objective", e>>
    /\ \A h \in DOMAIN variables : cols[variables[h]].obj + CoefficientOf(e.terms, h) \in Coefs
    /\ cols' = [i \in DOMAIN cols |-> [cols[i] EXCEPT !.obj =
          @ + SumAt(e.terms, {k \in DOMAIN e.terms : variables[e.terms[k].var] = i})]]
    /\ offset' = offset + e.constant
    /\ UNCHANGED <<rows, maximize, variables, constraints, heldRows>>

\* SCIP only adds to its offset.
AddOrigObjoffset(k) == offset' = offset + k

SetOffset(k) ==
    /\ call' = <<"set_objective_offset", k>>
    /\ AddOrigObjoffset(k - offset)
    /\ UNCHANGED <<cols, rows, maximize, variables, constraints, heldRows>>
----------------------------------------------------------------------------
(* Variables *)

\* _add_variable, `count' times.
Adds(count, p, type) ==
    /\ AppendCols([k \in 1..count |-> NewVar(p, type)])
    /\ variables' = variables \o [k \in 1..count |-> Len(cols) + k]
    /\ UNCHANGED <<rows, offset, maximize, constraints, heldRows>>

AddVariable(p, type) ==
    /\ call' = <<"add_variable", Len(variables) + 1, AsAdded(p, type)>>
    /\ Adds(1, p, type)

AddVariables(count, p, type) ==
    /\ call' = <<"add_variables", Len(variables) + 1, count, AsAdded(p, type)>>
    /\ Adds(count, p, type)

ChangeVar(h, fields) ==
    /\ cols' = [cols EXCEPT ![variables[h]] =
          [f \in DOMAIN @ |-> IF f \in DOMAIN fields THEN fields[f] ELSE @[f]]]
    /\ UNCHANGED <<rows, offset, maximize, variables, constraints, heldRows>>

SetObjectiveCoef(h, c) ==
    /\ call' = <<"set_objective_coefficient", h, c>>
    /\ ChangeVar(h, [obj |-> c])

\* A binary variable is not given bounds outside 0..1.
SetVariableLowerBound(h, b) ==
    /\ cols[variables[h]].type = "B" => b \in 0..1
    /\ call' = <<"set_variable_lower_bound", h, b>>
    /\ ChangeVar(h, [lb |-> b])

SetVariableUpperBound(h, b) ==
    /\ cols[variables[h]].type = "B" => b \in 0..1
    /\ call' = <<"set_variable_upper_bound", h, b>>
    /\ ChangeVar(h, [ub |-> b])

\* set_continuous and set_integer.
SetType(h, type) ==
    /\ call' = <<"set_type", h, IF type = "C" THEN "continuous" ELSE "integer">>
    /\ ChangeVar(h, [type |-> type])

\* The bounds first: SCIP makes no variable binary that reaches beyond 0..1.
SetBinary(h) ==
    /\ call' = <<"set_binary", h>>
    /\ ChangeVar(h, [lb |-> 0, ub |-> 1, type |-> "B"])
----------------------------------------------------------------------------
(* Constraints *)

RowOf(lc) == [lhs |-> IF lc.sense = "less_equal" THEN -Infinity ELSE lc.rhs,
              rhs |-> IF lc.sense = "greater_equal" THEN Infinity ELSE lc.rhs]

\* The constraints are added one after the other, their terms registered as pointers.
RowsAdded(lcs, distinct) ==
    /\ \A r \in DOMAIN lcs : MayPass(lcs[r].terms, distinct)
    /\ AppendRows([r \in DOMAIN lcs |-> RowOf(lcs[r])],
          [i \in DOMAIN cols |-> [r \in DOMAIN lcs |-> IF \E h \in DOMAIN variables : variables[h] = i
                        THEN Registered(lcs[r].terms,
                                CHOOSE h \in DOMAIN variables : variables[h] = i, distinct)
                        ELSE 0]])
    /\ constraints' = constraints \o [r \in DOMAIN lcs |-> Len(rows) + r]
    /\ UNCHANGED <<offset, maximize, variables>>

\* Mutant: handles are counted by those that were returned.
CountReturned(lcs, distinct) ==
    /\ call' = <<"add_constraints", lcs>>
    /\ RowsAdded(lcs, distinct)
    /\ heldRows' = heldRows \o [r \in DOMAIN lcs |-> Len(heldRows) + r]

\* add_constraint is the case of one.
AddConstraints(lcs, distinct) ==
    /\ call' = <<"add_constraints", lcs>>
    /\ RowsAdded(lcs, distinct)
    /\ heldRows' = heldRows \o [r \in DOMAIN lcs |-> Len(constraints) + r]

\* After the constraints lcs, SCIP refuses the next one or the generator throws.
AddConstraintsThrows(lcs, distinct) ==
    /\ call' = <<"rejected">>
    /\ RowsAdded(lcs, distinct)
    /\ UNCHANGED heldRows
----------------------------------------------------------------------------
\* What the client reads of a variable; constraints cannot be read.
VariableOf(h) ==
    LET var == cols[variables[h]]
    IN  [obj |-> var.obj, lb |-> var.lb, ub |-> var.ub,
         type |-> IF var.type = "C" THEN "continuous" ELSE "integer",
         coefs |-> [k \in DOMAIN heldRows |-> var.coefs[constraints[heldRows[k]]]]]

ConstraintOf(row) ==
    [sense |-> IF row.lhs = row.rhs THEN "equal"
               ELSE IF row.lhs = -Infinity THEN "less_equal" ELSE "greater_equal",
     rhs |-> IF row.lhs = -Infinity THEN row.rhs ELSE row.lhs]
----------------------------------------------------------------------------
Types == {"C", "I", "B"}
Handles == DOMAIN variables
Batches == BatchesOver(Handles)

Next ==
    \/ \E k \in Constants : SetOffset(k)
    \/ \E m \in BOOLEAN : SetDirection(m) /\ UNCHANGED <<variables, constraints, heldRows>>
    \/ \E h \in Handles, c \in Coefs : SetObjectiveCoef(h, c)
    \/ \E e \in ExpressionsOver(Handles), d \in BOOLEAN : SetObjective(e, d)
    \/ \E e \in ExpressionsOver(Handles) : AddObjective(e)
    \/ \E t \in Types : \E p \in ParamsFor(t) : AddVariable(p, t)
    \/ \E n \in 1..MaxColumns, t \in Types : \E p \in ParamsFor(t) : AddVariables(n, p, t)
    \/ \E h \in Handles, b \in Bounds : SetVariableLowerBound(h, b) \/ SetVariableUpperBound(h, b)
    \/ \E h \in Handles, t \in {"C", "I"} : SetType(h, t)
    \/ \E h \in Handles : SetBinary(h)
    \/ \E lcs \in Batches, d \in BOOLEAN : AddConstraints(lcs, d) \/ AddConstraintsThrows(lcs, d)

Spec == Init /\ [][Next]_scipVars
----------------------------------------------------------------------------
(* Properties *)

Promise == INSTANCE MilpModel WITH
    Handles <- 1..MaxColumns,
    Params <- {AsAdded(p, t) : p \in Params \cup {BinaryParams}, t \in Types},
    Expressions <- ExpressionsOver,
    CoefficientOf <- Coefficient,
    variables <- [h \in DOMAIN variables |-> VariableOf(h)],
    constraints <- [k \in DOMAIN heldRows |-> ConstraintOf(rows[constraints[heldRows[k]]])]

\* The handles that the client gets are those of its variables and constraints also
\* after constraints that it has no handle of, and each call does what it says.
KeepsPromise == Promise!Spec
=============================================================================
