---------------------------- MODULE SoplexModel ----------------------------
(***************************************************************************)
(* The SoPlex model (soplex_lp).  A row or a column goes to SoPlex as a    *)
(* dense vector, with the room to make for those of its entries that are   *)
(* not zero: the terms of an expression are added up in the vector, and    *)
(* the entries are counted on the way.  Nothing is refused, variables are  *)
(* continuous and never change, and the model keeps the constant.          *)
(***************************************************************************)
EXTENDS SolverInstance

VARIABLE passed  \* the dense vector of the last row or column, and what was said of it

soplexVars == <<vars, passed>>

Nothing == [dense |-> <<>>, size |-> 0, nonzeros |-> 0]

Init == InstanceInit /\ passed = Nothing

\* Mutant: a term with coefficient 0 counts too.
CountEvery(acc, t) ==
    LET sum == acc.dense[t.var] + t.coef
    IN  [dense |-> [acc.dense EXCEPT ![t.var] = sum],
         nonzeros |-> acc.nonzeros + IF sum # 0 THEN 1 ELSE -1]

\* One turn of the loops of _add_constraint and _add_column.
Count(acc, t) ==
    LET sum == acc.dense[t.var] + t.coef
    IN  IF t.coef = 0 THEN acc
        ELSE [dense |-> [acc.dense EXCEPT ![t.var] = sum],
              nonzeros |-> acc.nonzeros + IF sum # 0 THEN 1 ELSE -1]

Unwritten(size) == [dense |-> [i \in 1..size |-> 0], nonzeros |-> 0]

\* Mutant: a repeated variable gets its last coefficient.
CountedLast(terms, size) ==
    LET Put(acc, t) == [dense |-> [acc.dense EXCEPT ![t.var] = t.coef],
                        nonzeros |-> acc.nonzeros + 1]
        after[k \in 0..Len(terms)] ==
            IF k = 0 THEN Unwritten(size) ELSE Put(after[k - 1], terms[k])
    IN  after[Len(terms)]

\* What the loop has made after the first k terms.
Counted(terms, size) ==
    LET after[k \in 0..Len(terms)] ==
            IF k = 0 THEN Unwritten(size) ELSE Count(after[k - 1], terms[k])
    IN  after[Len(terms)]

NewCol(p, coefs) == [obj |-> p.obj, lb |-> p.lb, ub |-> p.ub, coefs |-> coefs]

AsAdded(p) == Typed(p, "continuous")

SetObjective(e) ==
    /\ call' = <<"set_objective", e>>
    /\ PutObjective([i \in DOMAIN cols |-> CoefficientOf(e.terms, i)])
    /\ offset' = e.constant
    /\ UNCHANGED <<rows, maximize, passed>>

AddVariable(p) ==
    /\ call' = <<"add_variable", Len(cols) + 1, AsAdded(p)>>
    /\ AppendCols(<<NewCol(p, Zeros)>>)
    /\ passed' = Nothing
    /\ UNCHANGED <<rows, offset, maximize>>

AddVariables(count, p) ==
    /\ call' = <<"add_variables", Len(cols) + 1, count, AsAdded(p)>>
    /\ AppendCols([k \in 1..count |-> NewCol(p, Zeros)])
    /\ passed' = Nothing
    /\ UNCHANGED <<rows, offset, maximize>>

\* SoPlex takes the first `size' of the numbers as the entries.  _add_column passes
\* its count as the size and the number of variables as the room to make.
AddColumn(p, terms) ==
    LET c == Counted(terms, Len(rows))
        size == c.nonzeros
    IN  /\ call' = <<"add_column", Len(cols) + 1, AsAdded(p), c.dense>>
        /\ AppendCols(<<NewCol(p, [r \in 1..Len(rows) |-> IF r <= size THEN c.dense[r] ELSE 0])>>)
        /\ passed' = Nothing
        /\ UNCHANGED <<rows, offset, maximize>>

RowOf(lc) == [lower |-> IF lc.sense = "less_equal" THEN -Infinity ELSE lc.rhs,
              upper |-> IF lc.sense = "greater_equal" THEN Infinity ELSE lc.rhs]

\* add_constraint is the case of one row; add_constraints passes one row after the
\* other, with the same dense vector.
AddConstraints(lcs) ==
    LET c == [r \in DOMAIN lcs |-> Counted(lcs[r].terms.terms, Len(cols))]
    IN  /\ call' = <<"add_constraints", lcs>>
        /\ AppendRows([r \in DOMAIN lcs |-> RowOf(lcs[r])], [i \in DOMAIN cols |-> [r \in DOMAIN lcs |-> c[r].dense[i]]])
        /\ passed' = IF lcs = <<>> THEN Nothing
                     ELSE [dense |-> c[Len(c)].dense, size |-> Len(cols),
                           nonzeros |-> c[Len(c)].nonzeros]
        /\ UNCHANGED <<offset, maximize>>
----------------------------------------------------------------------------
\* Each constraint once, in whatever order.
EntriesOver(n) == {t \in Expressions(1..n, TermCoefs, n) : IsDistinct(t)}

Next ==
    \/ \E k \in Constants : SetObjectiveOffset(k) /\ UNCHANGED passed
    \/ \E m \in BOOLEAN : SetDirection(m) /\ UNCHANGED passed
    \/ \E e \in Exprs : SetObjective(e)
    \/ \E p \in Params : AddVariable(p)
    \/ \E n \in 1..MaxColumns, p \in Params : AddVariables(n, p)
    \/ \E p \in Params, terms \in EntriesOver(Len(rows)) : AddColumn(p, terms)
    \/ \E lcs \in BatchesOver(DOMAIN cols) : AddConstraints(lcs)

Spec == Init /\ [][Next]_soplexVars
----------------------------------------------------------------------------
(* Properties *)

\* However the terms of a row repeat and cancel, the room that SoPlex is told to make
\* is enough for the entries that remain.
RoomForNonzeros ==
    Cardinality({i \in DOMAIN passed.dense : passed.dense[i] # 0}) <= passed.nonzeros

\* What a client asked for that would have made these columns and rows.
VariableOf(h) == [obj |-> cols[h].obj, lb |-> cols[h].lb, ub |-> cols[h].ub,
                  type |-> "continuous", coefs |-> cols[h].coefs]

ConstraintOf(row) ==
    [sense |-> IF row.lower = row.upper THEN "equal"
               ELSE IF row.lower = -Infinity THEN "less_equal" ELSE "greater_equal",
     rhs |-> IF row.lower = -Infinity THEN row.upper ELSE row.lower]

Promise == INSTANCE MilpModel WITH
    Handles <- 1..MaxColumns,
    Params <- {AsAdded(p) : p \in Params},
    Expressions <- ExpressionsOver,
    CoefficientOf <- Coefficient,
    variables <- [h \in DOMAIN cols |-> VariableOf(h)],
    constraints <- [r \in DOMAIN rows |-> ConstraintOf(rows[r])]

\* The calls but add_column do what they say, in particular for rows whose terms
\* repeat and cancel one another.
KeepsPromiseOnRows == Promise!Init /\ [][call'[1] = "add_column" \/ Promise!Next]_vars

\* add_column adds a column from its (constraint, coefficient) pairs.
ColumnHasItsEntries == [][call'[1] = "add_column" => Promise!Next]_vars
=============================================================================
