----------------------------- MODULE CoptModel -----------------------------
(***************************************************************************)
(* The COPT models (copt_base and what copt_milp adds that writes the      *)
(* problem).  The wrapper keeps no copy: what a call has to know, it asks  *)
(* COPT.  A call that COPT refuses throws and changes nothing, and has no  *)
(* step.                                                                   *)
(***************************************************************************)
EXTENDS SolverInstance

Init == InstanceInit

\* COPT takes the bounds of a binary column within 0..1.
Within01(type, lb, ub) ==
    IF type # "binary" THEN <<lb, ub>>
    ELSE <<IF lb < 0 THEN 0 ELSE lb, IF ub > 1 THEN 1 ELSE ub>>

AddCol(p, type, coefs) ==
    LET b == Within01(type, p.lb, p.ub)
    IN  [obj |-> p.obj, lb |-> b[1], ub |-> b[2], type |-> type, coefs |-> coefs]
----------------------------------------------------------------------------
(* Objective *)

SetObjective(e, distinct) ==
    /\ MayPass(e, distinct)
    /\ call' = <<"set_objective", e>>
    /\ PutObjective([i \in DOMAIN cols |-> Registered(e, i, distinct)])
    /\ offset' = e.constant
    /\ UNCHANGED <<rows, maximize>>

\* Mutant: the terms are added to zeros.
AddToZeros(e) ==
    /\ call' = <<"add_objective", e>>
    /\ PutObjective([i \in DOMAIN cols |-> CoefficientOf(e.terms, i)])
    /\ offset' = offset + e.constant
    /\ UNCHANGED <<rows, maximize>>

\* Reads the whole objective back, adds the terms and replaces it.
AddObjective(e) ==
    /\ offset + e.constant \in Constants
    /\ call' = <<"add_objective", e>>
    /\ PutObjective([i \in DOMAIN cols |-> cols[i].obj + CoefficientOf(e.terms, i)])
    /\ offset' = offset + e.constant
    /\ UNCHANGED <<rows, maximize>>
----------------------------------------------------------------------------
(* Variables *)

\* add_variable, add_integer_variable, add_named_variable.
AddVariable(p, type) ==
    /\ call' = <<"add_variable", Len(cols) + 1, Typed(p, type)>>
    /\ AppendCols(<<AddCol(p, type, Zeros)>>)
    /\ UNCHANGED <<rows, offset, maximize>>

AddBinaryVariable ==
    /\ call' = <<"add_variable", Len(cols) + 1, Typed(BinaryParams, "binary")>>
    /\ AppendCols(<<AddCol(BinaryParams, "binary", Zeros)>>)
    /\ UNCHANGED <<rows, offset, maximize>>

\* An array that is not passed: COPT's own defaults.
DefaultLower == 0
DefaultUpper == Infinity

\* Mutant: no array of lower bounds when there are none (-infinity).
PassedLowerIfFinite(p) == IF p.lb = -Infinity THEN DefaultLower ELSE p.lb

\* _add_variables passes no array of lower bounds when they are all 0, and none of
\* upper bounds when there are none.
PassedLower(p) == IF p.lb = 0 THEN DefaultLower ELSE p.lb
PassedUpper(p) == IF p.ub < Infinity THEN p.ub ELSE DefaultUpper

AddVariables(count, p, type) ==
    /\ call' = <<"add_variables", Len(cols) + 1, count, Typed(p, type)>>
    /\ AppendCols([k \in 1..count |->
          AddCol([p EXCEPT !.lb = PassedLower(p), !.ub = PassedUpper(p)], type, Zeros)])
    /\ UNCHANGED <<rows, offset, maximize>>

\* _add_binary_variables passes no bounds at all.
AddBinaryVariables(count) ==
    /\ call' = <<"add_variables", Len(cols) + 1, count, Typed(BinaryParams, "binary")>>
    /\ AppendCols([k \in 1..count |->
          AddCol([obj |-> 0, lb |-> DefaultLower, ub |-> DefaultUpper], "binary", Zeros)])
    /\ UNCHANGED <<rows, offset, maximize>>

AddColumn(p, entries) ==
    /\ call' = <<"add_column", Len(cols) + 1, Typed(p, "continuous"), entries>>
    /\ AppendCols(<<AddCol(p, "continuous", entries)>>)
    /\ UNCHANGED <<rows, offset, maximize>>

\* A binary variable is not given bounds outside 0..1.
SetVariableLowerBound(h, b) ==
    /\ cols[h].type = "binary" => b \in 0..1
    /\ call' = <<"set_variable_lower_bound", h, b>>
    /\ Change(h, "lb", b)
    /\ UNCHANGED <<rows, offset, maximize>>

SetVariableUpperBound(h, b) ==
    /\ cols[h].type = "binary" => b \in 0..1
    /\ call' = <<"set_variable_upper_bound", h, b>>
    /\ Change(h, "ub", b)
    /\ UNCHANGED <<rows, offset, maximize>>

\* set_continuous and set_integer.
SetType(h, type) ==
    /\ call' = <<"set_type", h, type>>
    /\ Change(h, "type", type)
    /\ UNCHANGED <<rows, offset, maximize>>

SetBinary(h) ==
    /\ cols[h].lb <= 1 /\ cols[h].ub >= 0
    /\ call' = <<"set_binary", h>>
    /\ cols' = [cols EXCEPT ![h] = AddCol(@, "binary", @.coefs)]
    /\ UNCHANGED <<rows, offset, maximize>>
----------------------------------------------------------------------------
(* Constraints *)

\* The characters of constraint_sense_to_copt_sense.
CoptSense(s) == CASE s = "less_equal" -> "L" [] s = "equal" -> "E" [] s = "greater_equal" -> "G"
SenseOf(c) == CASE c = "L" -> "less_equal" [] c = "E" -> "equal" [] c = "G" -> "greater_equal"

RowOf(lc) == [sense |-> CoptSense(lc.sense), rhs |-> lc.rhs]

AddConstraint(lc, distinct) ==
    /\ MayPass(lc.terms, distinct)
    /\ call' = <<"add_constraints", <<lc>>>>
    /\ AppendRows(<<RowOf(lc)>>, [i \in DOMAIN cols |-> [r \in {1} |-> Registered(lc.terms, i, distinct)]])
    /\ UNCHANGED <<offset, maximize>>

AddConstraints(lcs, distinct) ==
    /\ \A r \in DOMAIN lcs : MayPass(lcs[r].terms, distinct)
    /\ call' = <<"add_constraints", lcs>>
    /\ AppendRows([r \in DOMAIN lcs |-> RowOf(lcs[r])],
                  [i \in DOMAIN cols |-> [r \in DOMAIN lcs |-> Registered(lcs[r].terms, i, distinct)]])
    /\ UNCHANGED <<offset, maximize>>
----------------------------------------------------------------------------
Types == {"continuous", "integer"}

Next ==
    \/ ObjectiveCalls
    \/ \E e \in Exprs, d \in BOOLEAN : SetObjective(e, d)
    \/ \E e \in Exprs : AddObjective(e)
    \/ \E p \in Params, t \in Types : AddVariable(p, t)
    \/ AddBinaryVariable
    \/ \E n \in 1..MaxColumns, p \in Params, t \in Types : AddVariables(n, p, t)
    \/ \E n \in 1..MaxColumns : AddBinaryVariables(n)
    \/ \E p \in Params, entries \in [1..Len(rows) -> Coefs] : AddColumn(p, entries)
    \/ \E h \in DOMAIN cols, b \in Bounds : SetVariableLowerBound(h, b) \/ SetVariableUpperBound(h, b)
    \/ \E h \in DOMAIN cols, t \in Types : SetType(h, t)
    \/ \E h \in DOMAIN cols : SetBinary(h)
    \/ \E lc \in Constraints, d \in BOOLEAN : AddConstraint(lc, d)
    \/ \E lcs \in BatchesOver(DOMAIN cols), d \in BOOLEAN : AddConstraints(lcs, d)

Spec == Init /\ [][Next]_vars
----------------------------------------------------------------------------
\* What the client reads of a variable: objective coefficient and bounds by the
\* getters, the type by what a solve does with it.
VariableOf(h) == [cols[h] EXCEPT !.type = TypeOf(@)]
----------------------------------------------------------------------------
(* Properties *)

\* What the client sees in COPT: the variable of a handle is its column.
Promise == INSTANCE MilpModel WITH
    Handles <- 1..MaxColumns,
    Params <- {Typed(p, t) : p \in Params, t \in Types} \cup {Typed(BinaryParams, "binary")},
    Expressions <- ExpressionsOver,
    CoefficientOf <- Coefficient,
    variables <- [h \in DOMAIN cols |-> VariableOf(h)],
    constraints <- [r \in DOMAIN rows |-> [rows[r] EXCEPT !.sense = SenseOf(@)]]

\* Whatever arrays a call passes to COPT and whatever it leaves out of them, each
\* call does to the model what it says: the defaults of COPT behind an array that
\* is not passed are those that were asked for, and the objective that is read
\* back, added to and replaced is that of every column there is by then.
KeepsPromise == Promise!Spec
=============================================================================
