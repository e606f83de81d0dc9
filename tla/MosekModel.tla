----------------------------- MODULE MosekModel -----------------------------
(***************************************************************************)
(* The MOSEK models (mosek_base and what mosek_milp adds that writes the   *)
(* task).  Adding a variable or a constraint takes several calls: one that *)
(* appends an empty column or row and others that fill it.  When one of    *)
(* these is refused, check() throws and what is appended stays, under no   *)
(* handle.  The functions that are noexcept end the program instead.       *)
(***************************************************************************)
EXTENDS SolverInstance

VARIABLES held,     \* the columns whose handles the client got
          heldRows  \* the rows whose handles it got, in that order

task == <<cols, rows, offset, maximize>>
mosekVars == <<vars, held, heldRows>>

Init == InstanceInit /\ held = {} /\ heldRows = <<>>

\* Bound keys: free, at least, at most, equal to, between.
BoundKey(lb, ub) ==
    CASE lb # -Infinity /\ ub # Infinity -> IF lb = ub THEN "FX" ELSE "RA"
      [] lb # -Infinity /\ ub = Infinity -> "LO"
      [] lb = -Infinity /\ ub # Infinity -> "UP"
      [] OTHER -> "FR"

\* What appendvars and appendcons make: a variable fixed at 0, a row without bounds.
AppendedVar == [obj |-> 0, key |-> "FX", lb |-> 0, ub |-> 0, type |-> "continuous", coefs |-> Zeros]
AppendedCon == [key |-> "FR", lb |-> -Infinity, ub |-> Infinity]

\* The calls that fill a new variable, in their order: the variable after each.
WithBound(col, p) == [col EXCEPT !.key = BoundKey(p.lb, p.ub), !.lb = p.lb, !.ub = p.ub]
Stages(p, type, entries) ==
    LET appended == AppendedVar
        bounded == WithBound(appended, p)
        priced == [bounded EXCEPT !.obj = p.obj]
        typed == [priced EXCEPT !.type = type]
    IN  <<appended, bounded, priced, typed, [typed EXCEPT !.coefs = entries]>>
Complete(p, type, entries) == Stages(p, type, entries)[5]
----------------------------------------------------------------------------
(* Objective *)

\* With or without distinct_variables, the terms are added up in a vector that has
\* one place for each column.
SetObjective(e) ==
    /\ call' = <<"set_objective", e>>
    /\ PutObjective([i \in DOMAIN cols |-> CoefficientOf(e.terms, i)])
    /\ offset' = e.constant
    /\ UNCHANGED <<rows, maximize, held, heldRows>>

AddObjective(e) ==
    /\ offset + e.constant \in Constants
    /\ call' = <<"add_objective", e>>
    /\ PutObjective([i \in DOMAIN cols |-> cols[i].obj + CoefficientOf(e.terms, i)])
    /\ offset' = offset + e.constant
    /\ UNCHANGED <<rows, maximize, held, heldRows>>
----------------------------------------------------------------------------
(* Variables *)

\* add_variable, add_named_variable, add_integer_variable and add_binary_variable:
\* the handle is the number of columns, those without a handle included.
AddVariable(p, type) ==
    /\ call' = <<"add_variable", Len(cols) + 1, Typed(p, type)>>
    /\ AppendCols(<<Complete(p, type, Zeros)>>)
    /\ held' = held \cup {Len(cols) + 1}
    /\ UNCHANGED <<rows, offset, maximize, heldRows>>

\* One of the calls after the first is refused.
AddVariableRefused(p, type) ==
    /\ call' = <<"rejected">>
    /\ \E k \in 1..3 : AppendCols(<<Stages(p, type, Zeros)[k]>>)
    /\ UNCHANGED <<rows, offset, maximize, held, heldRows>>

\* _add_variables fills them slice by slice, the objective first and only if it is
\* not 0.
AddVariables(count, p, type) ==
    /\ call' = <<"add_variables", Len(cols) + 1, count, Typed(p, type)>>
    /\ AppendCols([k \in 1..count |->
          [WithBound(IF p.obj = 0 THEN AppendedVar ELSE [AppendedVar EXCEPT !.obj = p.obj], p)
              EXCEPT !.type = type]])
    /\ held' = held \cup (Len(cols) + 1)..(Len(cols) + count)
    /\ UNCHANGED <<rows, offset, maximize, heldRows>>

\* add_integer_variables and add_binary_variables are not noexcept either.
AddIntegerVariablesRefused(count, p) ==
    LET appended == AppendedVar
        priced == [appended EXCEPT !.obj = p.obj]
    IN  /\ call' = <<"rejected">>
        /\ \E col \in {appended, priced, WithBound(priced, p)} :
              AppendCols([k \in 1..count |-> col])
        /\ UNCHANGED <<rows, offset, maximize, held, heldRows>>

\* Entries are given for the constraints that the client knows of.
Entries == {e \in [1..Len(rows) -> Coefs] :
               \A r \in 1..Len(rows) : e[r] # 0 => \E k \in DOMAIN heldRows : heldRows[k] = r}

AddColumn(p, entries) ==
    /\ call' = <<"add_column", Len(cols) + 1, Typed(p, "continuous"),
                 [k \in DOMAIN heldRows |-> entries[heldRows[k]]]>>
    /\ AppendCols(<<Complete(p, "continuous", entries)>>)
    /\ held' = held \cup {Len(cols) + 1}
    /\ UNCHANGED <<rows, offset, maximize, heldRows>>

\* The entries come last, by putacol; putvartype is not called.
AddColumnRefused(p, entries) ==
    /\ call' = <<"rejected">>
    /\ \E k \in 1..3 : AppendCols(<<Stages(p, "continuous", entries)[k]>>)
    /\ UNCHANGED <<rows, offset, maximize, held, heldRows>>

\* Mutant: the key stays what it was.
ChangeKeepingKey(h, lb, ub) ==
    cols' = [cols EXCEPT ![h] = [@ EXCEPT !.lb = lb, !.ub = ub]]

\* chgvarbound works out the key.
ChangeBounds(h, lb, ub) ==
    cols' = [cols EXCEPT ![h] = [@ EXCEPT !.key = BoundKey(lb, ub), !.lb = lb, !.ub = ub]]

SetVariableLowerBound(h, b) ==
    /\ call' = <<"set_variable_lower_bound", h, b>>
    /\ ChangeBounds(h, b, cols[h].ub)
    /\ UNCHANGED <<rows, offset, maximize, held, heldRows>>

SetVariableUpperBound(h, b) ==
    /\ call' = <<"set_variable_upper_bound", h, b>>
    /\ ChangeBounds(h, cols[h].lb, b)
    /\ UNCHANGED <<rows, offset, maximize, held, heldRows>>

SetType(h, type) ==
    /\ call' = <<"set_type", h, type>>
    /\ Change(h, "type", type)
    /\ UNCHANGED <<rows, offset, maximize, held, heldRows>>

\* An integer variable between 0 and 1: MOSEK has no other binary type.
SetBinary(h) ==
    /\ call' = <<"set_binary", h>>
    /\ cols' = [cols EXCEPT ![h] = WithBound([@ EXCEPT !.type = "integer"], BinaryParams)]
    /\ UNCHANGED <<rows, offset, maximize, held, heldRows>>
----------------------------------------------------------------------------
(* Constraints *)

BoundsOf(lc) ==
    [key |-> CASE lc.sense = "less_equal" -> "UP"
               [] lc.sense = "equal" -> "FX"
               [] lc.sense = "greater_equal" -> "LO",
     lb |-> lc.rhs, ub |-> lc.rhs]

\* The first n of the rows get their entries, the first m their bounds.
Fill(lcs, distinct, n, m) ==
    AppendRows([r \in DOMAIN lcs |-> IF r <= m THEN BoundsOf(lcs[r]) ELSE AppendedCon],
               [i \in DOMAIN cols |-> [r \in DOMAIN lcs |-> IF r <= n THEN Registered(lcs[r].terms, i, distinct) ELSE 0]])

\* add_constraint is the case of one row.
AddConstraints(lcs, distinct) ==
    /\ \A r \in DOMAIN lcs : MayPass(lcs[r].terms, distinct)
    /\ call' = <<"add_constraints", lcs>>
    /\ Fill(lcs, distinct, Len(lcs), Len(lcs))
    /\ heldRows' = heldRows \o [r \in DOMAIN lcs |-> Len(rows) + r]
    /\ UNCHANGED <<offset, maximize, held>>

\* Mutant: the bounds go before the entries.
BoundsFirst(lcs, distinct) ==
    /\ \A r \in DOMAIN lcs : MayPass(lcs[r].terms, distinct)
    /\ call' = <<"rejected">>
    /\ Fill(lcs, distinct, 0, 0) \/ Fill(lcs, distinct, 0, Len(lcs))
    /\ UNCHANGED <<offset, maximize, held, heldRows>>

\* The rows are appended, and then putarow or putconbound (or their slices) throws.
AddConstraintsRefused(lcs, distinct) ==
    /\ \A r \in DOMAIN lcs : MayPass(lcs[r].terms, distinct)
    /\ call' = <<"rejected">>
    /\ Fill(lcs, distinct, 0, 0) \/ Fill(lcs, distinct, Len(lcs), 0)
    /\ UNCHANGED <<offset, maximize, held, heldRows>>
----------------------------------------------------------------------------
Types == {"continuous", "integer"}
HeldExprs == ExpressionsOver(held)
Batches == BatchesOver(held)

Next ==
    \/ \E k \in Constants : SetObjectiveOffset(k) /\ UNCHANGED <<held, heldRows>>
    \/ \E m \in BOOLEAN : SetDirection(m) /\ UNCHANGED <<held, heldRows>>
    \/ \E h \in held, c \in Coefs : SetObjectiveCoefficient(h, c) /\ UNCHANGED <<held, heldRows>>
    \/ \E e \in HeldExprs : SetObjective(e) \/ AddObjective(e)
    \/ \E p \in Params \cup {BinaryParams}, t \in Types :
          AddVariable(p, t) \/ AddVariableRefused(p, t)
    \/ \E n \in 1..MaxColumns, p \in Params \cup {BinaryParams}, t \in Types : AddVariables(n, p, t)
    \/ \E n \in 1..MaxColumns, p \in Params \cup {BinaryParams} : AddIntegerVariablesRefused(n, p)
    \/ \E p \in Params, e \in Entries : AddColumn(p, e) \/ AddColumnRefused(p, e)
    \/ \E h \in held, b \in Bounds : SetVariableLowerBound(h, b) \/ SetVariableUpperBound(h, b)
    \/ \E h \in held, t \in Types : SetType(h, t)
    \/ \E h \in held : SetBinary(h)
    \/ \E lcs \in Batches, d \in BOOLEAN : AddConstraints(lcs, d) \/ AddConstraintsRefused(lcs, d)

Spec == Init /\ [][Next]_mosekVars
----------------------------------------------------------------------------
\* A bound that the key does not name is none.
Lower(x) == IF x.key \in {"FR", "UP"} THEN -Infinity ELSE x.lb
Upper(x) == IF x.key \in {"FR", "LO"} THEN Infinity ELSE x.ub

\* What the client reads of a variable, and has in the constraints it holds.
VariableOf(h) ==
    [obj |-> cols[h].obj, lb |-> Lower(cols[h]), ub |-> Upper(cols[h]), type |-> cols[h].type,
     coefs |-> [k \in DOMAIN heldRows |-> cols[h].coefs[heldRows[k]]]]
----------------------------------------------------------------------------
(* Properties *)

\* A call that threw in the middle leaves columns and rows behind that no client has
\* a handle of: such a row constrains nothing, whatever entries it got, and such a
\* column is in no row.
RemnantsConstrainNothing ==
    /\ \A r \in DOMAIN rows : (\A k \in DOMAIN heldRows : heldRows[k] # r) =>
          Lower(rows[r]) = -Infinity /\ Upper(rows[r]) = Infinity
    /\ \A i \in DOMAIN cols \ held : \A r \in DOMAIN rows : cols[i].coefs[r] = 0

ConstraintOf(row) ==
    [sense |-> CASE row.key = "UP" -> "less_equal" [] row.key = "FX" -> "equal"
                 [] row.key = "LO" -> "greater_equal",
     rhs |-> IF row.key = "LO" THEN row.lb ELSE row.ub]

Promise == INSTANCE MilpModel WITH
    Handles <- 1..MaxColumns,
    Params <- {Typed(p, t) : p \in Params \cup {BinaryParams}, t \in Types},
    Expressions <- ExpressionsOver,
    CoefficientOf <- Coefficient,
    variables <- [h \in held |-> VariableOf(h)],
    constraints <- [k \in DOMAIN heldRows |-> ConstraintOf(rows[heldRows[k]])]

\* Whatever earlier calls left behind, each call does to the variables and constraints
\* that the client has handles of what it says, and one that throws changes none of
\* them: a handle is still its column after columns nobody asked for.
KeepsPromise == Promise!Spec
=============================================================================
