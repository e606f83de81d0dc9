----------------------------- MODULE MilpModel -----------------------------
(***************************************************************************)
(* What the models of the commercial and MILP solvers promise beyond       *)
(* LinearModel: the objective has a direction and a constant term, and the *)
(* type of a variable can change.  An expression is whatever the           *)
(* implementing module says it is, as long as it gives each variable a     *)
(* coefficient and has a constant of its own.                              *)
(***************************************************************************)
EXTENDS Integers, Sequences

CONSTANTS Handles, Coefs, Bounds, Params, Rhs, MaxRows,  \* as in LinearModel
          Expressions(_),
          CoefficientOf(_, _),
          Constants,        \* constants of objectives
          ConstantOf(_)     \* the constant of an expression

VARIABLES variables, constraints, call,  \* as in LinearModel
          offset,           \* the constant term of the objective
          maximize          \* whether it is to be maximized

vars == <<variables, constraints, call, offset, maximize>>

Linear == INSTANCE LinearModel

Held == DOMAIN variables

Init == Linear!Init /\ offset = 0 /\ maximize = FALSE

\* The calls that have nothing to do with the constant of the objective.  Those
\* that take rows take the ones that the call is made with.
LinearCall ==
    /\ \/ \E h \in Handles, p \in Params : Linear!AddVariable(h, p)
       \/ \E first, last \in Handles, p \in Params :
             first <= last /\ Linear!AddVariables(first, last - first + 1, p)
       \/ /\ call'[1] = "add_column"
          /\ \E h \in Handles, p \in Params : Linear!AddColumn(h, p, call'[4])
          /\ call'[4] \in [1..Len(constraints) -> Coefs]
       \/ Linear!Rejected
       \/ \E H \in SUBSET Held : Linear!RemoveVariables(H)
       \/ \E h \in Held, c \in Coefs : Linear!SetObjectiveCoefficient(h, c)
       \/ \E h \in Held, b \in Bounds :
             Linear!SetVariableLowerBound(h, b) \/ Linear!SetVariableUpperBound(h, b)
       \/ /\ call'[1] = "add_constraints"
          /\ Linear!AddConstraints(call'[2])
          /\ \A r \in DOMAIN call'[2] : call'[2][r] \in Linear!Rows
       \/ \E r \in DOMAIN constraints, b \in Rhs : Linear!SetConstraintRhs(r, b)
       \/ \E r \in DOMAIN constraints, s \in Linear!Senses : Linear!SetConstraintSense(r, s)
    /\ UNCHANGED <<offset, maximize>>

SetObjective(e) ==
    /\ Linear!SetObjective(e)
    /\ offset' = ConstantOf(e)
    /\ UNCHANGED maximize

AddObjective(e) ==
    /\ Linear!AddObjective(e)
    /\ offset' = offset + ConstantOf(e)
    /\ UNCHANGED maximize

\* The constant of the expression moves to the ends of the range.
AddRangedConstraint(e, lb, ub) ==
    /\ call' = <<"add_ranged_constraint", e, lb, ub>>
    /\ variables' = [h \in Held |-> [variables[h] EXCEPT
          !.coefs = Append(@, CoefficientOf(e, h))]]
    /\ constraints' = Append(constraints,
          IF lb = ub THEN [sense |-> "equal", rhs |-> ub - ConstantOf(e)]
          ELSE [sense |-> "range", rhs |-> <<lb - ConstantOf(e), ub - ConstantOf(e)>>])
    /\ UNCHANGED <<offset, maximize>>

SetObjectiveOffset(k) ==
    /\ call' = <<"set_objective_offset", k>>
    /\ offset' = k
    /\ UNCHANGED <<variables, constraints, maximize>>

SetDirection(m) ==
    /\ call' = <<"set_maximization", m>>
    /\ maximize' = m
    /\ UNCHANGED <<variables, constraints, offset>>

\* set_continuous and set_integer leave the bounds alone.
SetType(h, t) ==
    /\ call' = <<"set_type", h, t>>
    /\ variables' = [variables EXCEPT ![h].type = t]
    /\ UNCHANGED <<constraints, offset, maximize>>

\* A binary variable is an integer one within 0..1.  Some solvers give it both
\* bounds, others keep those that it has within 0..1.
SetBinary(h) ==
    /\ call' = <<"set_binary", h>>
    /\ \E lb \in {0, variables[h].lb}, ub \in {1, variables[h].ub} :
          /\ 0 <= lb /\ ub <= 1
          /\ variables' = [variables EXCEPT
                 ![h] = [@ EXCEPT !.type = "integer", !.lb = lb, !.ub = ub]]
    /\ UNCHANGED <<constraints, offset, maximize>>

Next ==
    \/ LinearCall
    \/ /\ call'[1] \in {"set_objective", "add_objective"}
       /\ SetObjective(call'[2]) \/ AddObjective(call'[2])
       /\ call'[2] \in Expressions(Held)
    \/ /\ call'[1] = "add_ranged_constraint"
       /\ \E lb, ub \in Rhs : AddRangedConstraint(call'[2], lb, ub)
       /\ call'[2] \in Expressions(Held)
    \/ \E k \in Constants : SetObjectiveOffset(k)
    \/ \E m \in BOOLEAN : SetDirection(m)
    \/ \E h \in Held, t \in {"continuous", "integer"} : SetType(h, t)
    \/ \E h \in Held : SetBinary(h)

Spec == Init /\ [][Next]_vars
=============================================================================
