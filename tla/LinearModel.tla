---------------------------- MODULE LinearModel ----------------------------
(***************************************************************************)
(* What every MIP++ model promises its clients, whatever solver is behind  *)
(* it.  A client holds variable handles.  A held handle stands for one     *)
(* variable of the model until the client removes that variable, and every *)
(* call that takes a handle reads or changes that variable and no other.   *)
(* There are no columns here and no native ids: those belong to the        *)
(* modules that implement this one.                                        *)
(*                                                                         *)
(* `call' is the last call with its arguments and, for the calls that      *)
(* return a handle, its result.  It ties the effect of a step to the       *)
(* handle the client actually passed.                                      *)
(***************************************************************************)
EXTENDS Integers, Sequences

CONSTANTS Handles,              \* the variable handles there can be, which are integers
          Coefs,                \* objective and matrix coefficients
          Bounds,               \* variable bounds
          Params,               \* parameters (and types) of new variables
          Rhs,                  \* right-hand sides of the constraints
          MaxRows,              \* bound on the number of constraints of a call
          Expressions(_),       \* the linear expressions over a set of variables
          CoefficientOf(_, _)   \* what an expression gives to a variable

Senses == {"less_equal", "equal", "greater_equal"}

VARIABLES variables,    \* held handle -> the variable it stands for
          constraints,  \* the constraints, in the order they were added
          call          \* the last call

vars == <<variables, constraints, call>>

Held == DOMAIN variables

Rows == [terms : Expressions(Held), sense : Senses, rhs : Rhs]

\* A variable is its parameters and its coefficient in every constraint.
NewVariable(p, coefs) ==
    [obj |-> p.obj, lb |-> p.lb, ub |-> p.ub, type |-> p.type, coefs |-> coefs]

\* The coefficients of a variable in n constraints and then in m more.
WithRows(coefs, n, more, m) ==
    [r \in 1..(n + m) |-> IF r <= n THEN coefs[r] ELSE more[r - n]]

Init == /\ variables = [h \in {} |-> 0]
        /\ constraints = <<>>
        /\ call = <<"init">>

\* New variables, each under a handle that the client did not hold.
Add(H, col) ==
    /\ H \cap Held = {}
    /\ variables' = [h \in Held \cup H |-> IF h \in H THEN col ELSE variables[h]]
    /\ UNCHANGED constraints

Zeros == [r \in 1..Len(constraints) |-> 0]

AddVariable(h, p) ==
    /\ call' = <<"add_variable", h, p>>
    /\ Add({h}, NewVariable(p, Zeros))

AddVariables(first, count, p) ==
    /\ call' = <<"add_variables", first, count, p>>
    /\ Add(first..(first + count - 1), NewVariable(p, Zeros))

AddColumn(h, p, entries) ==
    /\ call' = <<"add_column", h, p, entries>>
    /\ Add({h}, NewVariable(p, entries))

\* A call the solver refused (the C++ call threw): nothing changes.
Rejected ==
    /\ call' = <<"rejected">>
    /\ UNCHANGED <<variables, constraints>>

RemoveVariables(H) ==
    /\ call' = <<"remove_variables", H>>
    /\ variables' = [h \in Held \ H |-> variables[h]]
    /\ UNCHANGED constraints

SetObjective(terms) ==
    /\ call' = <<"set_objective", terms>>
    /\ variables' = [h \in Held |-> [variables[h] EXCEPT !.obj = CoefficientOf(terms, h)]]
    /\ UNCHANGED constraints

AddObjective(terms) ==
    /\ call' = <<"add_objective", terms>>
    /\ variables' = [h \in Held |-> [variables[h] EXCEPT !.obj = @ + CoefficientOf(terms, h)]]
    /\ UNCHANGED constraints

SetObjectiveCoefficient(h, c) ==
    /\ call' = <<"set_objective_coefficient", h, c>>
    /\ variables' = [variables EXCEPT ![h].obj = c]
    /\ UNCHANGED constraints

SetVariableLowerBound(h, b) ==
    /\ call' = <<"set_variable_lower_bound", h, b>>
    /\ variables' = [variables EXCEPT ![h].lb = b]
    /\ UNCHANGED constraints

SetVariableUpperBound(h, b) ==
    /\ call' = <<"set_variable_upper_bound", h, b>>
    /\ variables' = [variables EXCEPT ![h].ub = b]
    /\ UNCHANGED constraints

AddConstraints(rows) ==
    /\ call' = <<"add_constraints", rows>>
    /\ variables' = [h \in Held |-> [variables[h] EXCEPT
          !.coefs = WithRows(@, Len(constraints),
                             [r \in DOMAIN rows |-> CoefficientOf(rows[r].terms, h)],
                             Len(rows))]]
    /\ constraints' = constraints \o
          [r \in DOMAIN rows |-> [sense |-> rows[r].sense, rhs |-> rows[r].rhs]]

\* A range whose ends are the same is an equality.
AddRangedConstraint(terms, lb, ub) ==
    /\ call' = <<"add_ranged_constraint", terms, lb, ub>>
    /\ variables' = [h \in Held |-> [variables[h] EXCEPT
          !.coefs = WithRows(@, Len(constraints), <<CoefficientOf(terms, h)>>, 1)]]
    /\ constraints' = Append(constraints, IF lb = ub THEN [sense |-> "equal", rhs |-> ub]
                                          ELSE [sense |-> "range", rhs |-> <<lb, ub>>])

SetConstraintRhs(r, b) ==
    /\ constraints[r].sense # "range"
    /\ call' = <<"set_constraint_rhs", r, b>>
    /\ constraints' = [constraints EXCEPT ![r].rhs = b]
    /\ UNCHANGED variables

SetConstraintSense(r, s) ==
    /\ constraints[r].sense # "range"
    /\ call' = <<"set_constraint_sense", r, s>>
    /\ constraints' = [constraints EXCEPT ![r].sense = s]
    /\ UNCHANGED variables

Next ==
    \/ \E h \in Handles, p \in Params : AddVariable(h, p)
    \/ \E first, last \in Handles, p \in Params :
          first <= last /\ AddVariables(first, last - first + 1, p)
    \/ \E h \in Handles, p \in Params, e \in [1..Len(constraints) -> Coefs] : AddColumn(h, p, e)
    \/ Rejected
    \/ \E H \in SUBSET Held : RemoveVariables(H)
    \/ \E t \in Expressions(Held) : SetObjective(t) \/ AddObjective(t)
    \/ \E h \in Held, c \in Coefs : SetObjectiveCoefficient(h, c)
    \/ \E h \in Held, b \in Bounds : SetVariableLowerBound(h, b) \/ SetVariableUpperBound(h, b)
    \/ \E n \in 0..MaxRows : \E rows \in [1..n -> Rows] : AddConstraints(rows)
    \/ \E t \in Expressions(Held), lb, ub \in Rhs : AddRangedConstraint(t, lb, ub)
    \/ \E r \in DOMAIN constraints, b \in Rhs : SetConstraintRhs(r, b)
    \/ \E r \in DOMAIN constraints, s \in Senses : SetConstraintSense(r, s)

Spec == Init /\ [][Next]_vars
=============================================================================
