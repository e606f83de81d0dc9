--------------------------- MODULE SolverInstance ---------------------------
(***************************************************************************)
(* The problem that a solver's own library keeps behind its C interface,   *)
(* for the models that never remove a variable: a handle is the column.    *)
(* Columns and rows count from 1 here.  A solver's module says what its    *)
(* columns and rows are, and which of its calls make them; each call made  *)
(* here is one call of the C interface, and all or nothing.                *)
(*                                                                         *)
(* Clients obey the interface: they use handles they got from this model,  *)
(* and give as many entries of a column as there are constraints, each     *)
(* once.                                                                   *)
(***************************************************************************)
EXTENDS LinearTerms

CONSTANTS Coefs,        \* objective and matrix coefficients
          TermCoefs,    \* those that clients write in expressions
          Constants,    \* constants of objectives
          Bounds,       \* variable bounds
          Params,       \* parameters that clients create variables with
          Rhs,          \* right-hand sides of the constraints
          Infinity,     \* the solver's infinity, for a bound that was not given
          MaxColumns,   \* bound on the number of columns
          MaxRows,      \* bound on the number of rows
          MaxTerms      \* bound on the number of terms of an expression

ASSUME InstanceDataAssumption ==
    /\ Coefs \subseteq Int /\ 0 \in Coefs /\ TermCoefs \subseteq Coefs
    /\ Constants \subseteq Int /\ 0 \in Constants
    /\ Infinity \in Int /\ Infinity > 1
    /\ Bounds \subseteq Int /\ {0, 1, Infinity, -Infinity} \subseteq Bounds
    /\ \A b \in Bounds : -Infinity <= b /\ b <= Infinity
    /\ Params \subseteq [obj : Coefs, lb : Bounds, ub : Bounds]
    /\ Rhs \subseteq Int /\ \A b \in Rhs : -Infinity < b /\ b < Infinity

ASSUME InstanceBoundsAssumption == MaxColumns \in Nat /\ MaxRows \in Nat /\ MaxTerms \in Nat

VARIABLES cols,      \* the columns
          rows,      \* the rows, without their entries
          offset,    \* the constant of the objective
          maximize,  \* its direction
          call       \* the last call of the client

instance == <<cols, rows, offset, maximize>>
vars == <<instance, call>>

Senses == {"less_equal", "equal", "greater_equal"}

\* An objective has a constant; that of a constraint is on the right-hand side.
ExpressionsOver(Vars) ==
    [terms : Expressions(Vars, TermCoefs, MaxTerms), constant : Constants]
Exprs == ExpressionsOver(DOMAIN cols)
ConstraintsOver(Vars) ==
    [terms : {e \in ExpressionsOver(Vars) : e.constant = 0}, sense : Senses, rhs : Rhs]
Constraints == ConstraintsOver(DOMAIN cols)

\* The constraints of one call have MaxTerms terms between them.
BatchesOver(Vars) ==
    UNION {[1..n -> {lc \in ConstraintsOver(Vars) : Len(lc.terms.terms) * n <= MaxTerms}] :
           n \in 0..MaxRows}

Coefficient(e, v) == CoefficientOf(e.terms, v)
ConstantOf(e) == e.constant

\* What the scratch buffers give a column: the terms added up or, for a caller
\* that promised distinct_variables, as they are.  A column that is twice in a
\* list gets the last of the two.
LastOf(terms, v) ==
    LET K == {k \in DOMAIN terms : terms[k].var = v}
    IN  IF K = {} THEN 0 ELSE terms[Max(K)].coef

Registered(e, v, distinct) ==
    IF distinct THEN LastOf(e.terms, v) ELSE CoefficientOf(e.terms, v)

MayPass(e, distinct) == distinct => IsDistinct(e.terms)

BinaryParams == [obj |-> 0, lb |-> 0, ub |-> 1]
TypeOf(t) == IF t = "continuous" THEN "continuous" ELSE "integer"
Typed(p, t) == [obj |-> p.obj, lb |-> p.lb, ub |-> p.ub, type |-> TypeOf(t)]

Zeros == [r \in 1..Len(rows) |-> 0]

InstanceInit == /\ cols = <<>> /\ rows = <<>>
                /\ offset = 0 /\ maximize = FALSE
                /\ call = <<"init">>

AppendCols(new) ==
    /\ Len(cols) + Len(new) <= MaxColumns
    /\ cols' = cols \o new

\* Rows behind those there are, with coef[i][r] in the r-th of them and column i.
AppendRows(new, coef) ==
    /\ Len(rows) + Len(new) <= MaxRows
    /\ \A r \in DOMAIN new, i \in DOMAIN cols : coef[i][r] \in Coefs
    /\ rows' = rows \o new
    /\ cols' = [i \in DOMAIN cols |-> [cols[i] EXCEPT !.coefs = @ \o coef[i]]]

PutObjective(coef) ==
    /\ \A i \in DOMAIN cols : coef[i] \in Coefs
    /\ cols' = [i \in DOMAIN cols |-> [cols[i] EXCEPT !.obj = coef[i]]]

Change(i, field, x) == cols' = [cols EXCEPT ![i] = [@ EXCEPT ![field] = x]]

\* Calls that are the same in all of these models.
SetObjectiveOffset(k) ==
    /\ call' = <<"set_objective_offset", k>>
    /\ offset' = k
    /\ UNCHANGED <<cols, rows, maximize>>

SetDirection(m) ==
    /\ call' = <<"set_maximization", m>>
    /\ maximize' = m
    /\ UNCHANGED <<cols, rows, offset>>

SetObjectiveCoefficient(h, c) ==
    /\ call' = <<"set_objective_coefficient", h, c>>
    /\ Change(h, "obj", c)
    /\ UNCHANGED <<rows, offset, maximize>>

ObjectiveCalls ==
    \/ \E k \in Constants : SetObjectiveOffset(k)
    \/ \E m \in BOOLEAN : SetDirection(m)
    \/ \E h \in DOMAIN cols, c \in Coefs : SetObjectiveCoefficient(h, c)
=============================================================================
