----------------------------- MODULE GlpkModel -----------------------------
(***************************************************************************)
(* The GLPK models (glpk_base and what glpk_milp adds that writes the      *)
(* problem).  GLPK takes a column or a row in pieces: it is added empty,   *)
(* then its cost, its bounds and their kind, its type and its entries are  *)
(* set.  None of these calls can be refused (GLPK ends the program), so    *)
(* nobody sees the pieces apart.  GLPK has no constant here: the model     *)
(* keeps it.                                                               *)
(***************************************************************************)
EXTENDS SolverInstance

Init == InstanceInit

\* glp_set_col_bnds: free, at least, at most, fixed, between.  A bound that the kind
\* does not name reads as infinite.
WithBounds(col, kind, lb, ub) ==
    [col EXCEPT !.bounds = kind,
                !.lb = IF kind \in {"FR", "UP"} THEN -Infinity ELSE lb,
                !.ub = IF kind \in {"FR", "LO"} THEN Infinity ELSE IF kind = "FX" THEN lb ELSE ub]

\* glp_set_col_kind: continuous, integer, or binary, which sets the bounds too.
WithKind(col, kind) ==
    IF kind = "BV" THEN WithBounds([col EXCEPT !.kind = kind], "DB", 0, 1)
    ELSE [col EXCEPT !.kind = kind]

\* What glp_add_cols makes: continuous, fixed at 0, in no row.
EmptyCol == [obj |-> 0, bounds |-> "FX", lb |-> 0, ub |-> 0, kind |-> "CV", coefs |-> Zeros]

\* The bounds of a new variable, by which of them were given.
Bounded(col, p) ==
    CASE p.lb # -Infinity /\ p.ub # Infinity ->
             WithBounds(col, IF p.lb = p.ub THEN "FX" ELSE "DB", p.lb, p.ub)
      [] p.lb # -Infinity /\ p.ub = Infinity -> WithBounds(col, "LO", p.lb, 0)
      [] p.lb = -Infinity /\ p.ub # Infinity -> WithBounds(col, "UP", 0, p.ub)
      [] OTHER -> WithBounds(col, "FR", 0, 0)

NewCol(p, kind) ==
    LET priced == IF p.obj # 0 THEN [EmptyCol EXCEPT !.obj = p.obj] ELSE EmptyCol
        bounded == Bounded(priced, p)
    IN  IF kind # "CV" THEN WithKind(bounded, kind) ELSE bounded

AsAdded(p, kind) == Typed(p, IF kind = "CV" THEN "continuous" ELSE "integer")
----------------------------------------------------------------------------
(* Objective *)

\* One coefficient after the other is reset, and then each term is added to what
\* the column has by then.
SetObjective(e) ==
    /\ call' = <<"set_objective", e>>
    /\ PutObjective([i \in DOMAIN cols |-> CoefficientOf(e.terms, i)])
    /\ offset' = e.constant
    /\ UNCHANGED <<rows, maximize>>

AddObjective(e) ==
    /\ offset + e.constant \in Constants
    /\ call' = <<"add_objective", e>>
    /\ PutObjective([i \in DOMAIN cols |-> cols[i].obj + CoefficientOf(e.terms, i)])
    /\ offset' = offset + e.constant
    /\ UNCHANGED <<rows, maximize>>
----------------------------------------------------------------------------
(* Variables *)

\* add_variable, add_named_variable, add_integer_variable, add_binary_variable.
AddVariable(p, kind) ==
    /\ kind = "BV" => p = BinaryParams
    /\ call' = <<"add_variable", Len(cols) + 1, AsAdded(p, kind)>>
    /\ AppendCols(<<NewCol(p, kind)>>)
    /\ UNCHANGED <<rows, offset, maximize>>

AddVariables(count, p, kind) ==
    /\ call' = <<"add_variables", Len(cols) + 1, count, AsAdded(p, kind)>>
    /\ AppendCols([k \in 1..count |-> NewCol(p, kind)])
    /\ UNCHANGED <<rows, offset, maximize>>

\* _add_binary_variables sets the kind and nothing else.
AddBinaryVariables(count) ==
    /\ call' = <<"add_variables", Len(cols) + 1, count, AsAdded(BinaryParams, "BV")>>
    /\ AppendCols([k \in 1..count |-> WithKind(EmptyCol, "BV")])
    /\ UNCHANGED <<rows, offset, maximize>>

AddColumn(p, entries) ==
    /\ call' = <<"add_column", Len(cols) + 1, AsAdded(p, "CV"), entries>>
    /\ AppendCols(<<[NewCol(p, "CV") EXCEPT !.coefs = entries]>>)
    /\ UNCHANGED <<rows, offset, maximize>>

\* Mutant: only the bound that changes is set.
SetLowerAlone(h, b) ==
    /\ cols[h].kind = "BV" => b \in 0..1
    /\ call' = <<"set_variable_lower_bound", h, b>>
    /\ cols' = [cols EXCEPT ![h] = WithBounds(@, "LO", b, 0)]
    /\ UNCHANGED <<rows, offset, maximize>>

\* Whatever the kind of the bounds was, they are two from then on.
SetVariableLowerBound(h, b) ==
    /\ cols[h].kind = "BV" => b \in 0..1
    /\ call' = <<"set_variable_lower_bound", h, b>>
    /\ cols' = [cols EXCEPT ![h] = WithBounds(@, "DB", b, @.ub)]
    /\ UNCHANGED <<rows, offset, maximize>>

SetVariableUpperBound(h, b) ==
    /\ cols[h].kind = "BV" => b \in 0..1
    /\ call' = <<"set_variable_upper_bound", h, b>>
    /\ cols' = [cols EXCEPT ![h] = WithBounds(@, "DB", @.lb, b)]
    /\ UNCHANGED <<rows, offset, maximize>>

\* set_continuous, set_integer and set_binary.
SetKind(h, kind) ==
    /\ call' = CASE kind = "CV" -> <<"set_type", h, "continuous">>
                 [] kind = "IV" -> <<"set_type", h, "integer">>
                 [] kind = "BV" -> <<"set_binary", h>>
    /\ cols' = [cols EXCEPT ![h] = WithKind(@, kind)]
    /\ UNCHANGED <<rows, offset, maximize>>
----------------------------------------------------------------------------
(* Constraints *)

RowType(s) == CASE s = "less_equal" -> "UP" [] s = "equal" -> "FX" [] s = "greater_equal" -> "LO"
SenseOf(t) == CASE t = "UP" -> "less_equal" [] t = "FX" -> "equal" [] t = "LO" -> "greater_equal"

\* add_constraint is the case of one row; add_constraints adds one row after the
\* other, each with a call of its own.
AddConstraints(lcs, distinct) ==
    /\ \A r \in DOMAIN lcs : MayPass(lcs[r].terms, distinct)
    /\ call' = <<"add_constraints", lcs>>
    /\ AppendRows([r \in DOMAIN lcs |-> [type |-> RowType(lcs[r].sense), rhs |-> lcs[r].rhs]],
                  [i \in DOMAIN cols |-> [r \in DOMAIN lcs |-> Registered(lcs[r].terms, i, distinct)]])
    /\ UNCHANGED <<offset, maximize>>
----------------------------------------------------------------------------
Kinds == {"CV", "IV", "BV"}
Batches == BatchesOver(DOMAIN cols)

Next ==
    \/ ObjectiveCalls
    \/ \E e \in Exprs : SetObjective(e) \/ AddObjective(e)
    \/ \E p \in Params \cup {BinaryParams}, k \in Kinds : AddVariable(p, k)
    \/ \E n \in 1..MaxColumns, p \in Params, k \in {"CV", "IV"} : AddVariables(n, p, k)
    \/ \E n \in 1..MaxColumns : AddBinaryVariables(n)
    \/ \E p \in Params, entries \in [1..Len(rows) -> Coefs] : AddColumn(p, entries)
    \/ \E h \in DOMAIN cols, b \in Bounds : SetVariableLowerBound(h, b) \/ SetVariableUpperBound(h, b)
    \/ \E h \in DOMAIN cols, k \in Kinds : SetKind(h, k)
    \/ \E lcs \in Batches, d \in BOOLEAN : AddConstraints(lcs, d)

Spec == Init /\ [][Next]_vars
----------------------------------------------------------------------------
\* What the client reads of a variable.
VariableOf(h) ==
    [obj |-> cols[h].obj, lb |-> cols[h].lb, ub |-> cols[h].ub, coefs |-> cols[h].coefs,
     type |-> IF cols[h].kind = "CV" THEN "continuous" ELSE "integer"]
----------------------------------------------------------------------------
(* Properties *)

Promise == INSTANCE MilpModel WITH
    Handles <- 1..MaxColumns,
    Params <- {AsAdded(p, k) : p \in Params \cup {BinaryParams}, k \in Kinds},
    Expressions <- ExpressionsOver,
    CoefficientOf <- Coefficient,
    variables <- [h \in DOMAIN cols |-> VariableOf(h)],
    constraints <- [r \in DOMAIN rows |-> [sense |-> SenseOf(rows[r].type), rhs |-> rows[r].rhs]]

\* Through the kinds of bounds that GLPK makes of those that are given and not given,
\* and through the setters, which know only one kind, a variable has the bounds and
\* the type that the client gave it last.
KeepsPromise == Promise!Spec

\* A variable can be fixed (`lb = ub'): the column of one that is has the kind of
\* bounds that GLPK has for it, as _add_variable sees to.
FixedIsFixed == \A i \in DOMAIN cols : cols[i].lb = cols[i].ub => cols[i].bounds = "FX"
=============================================================================
