------------------------------ MODULE ClpRows ------------------------------
(***************************************************************************)
(* The rows that clp_lp hands to Clp_addRows.  Each call that adds rows    *)
(* fills the scratch vectors of model_base with the terms as they come,    *)
(* and passes them with the position at which each row starts.             *)
(***************************************************************************)
EXTENDS LinearTerms

CONSTANTS Vars,       \* the columns of the model
          Coefs,      \* coefficients that clients write
          MaxTerms,   \* bound on the number of terms of an expression
          MaxRows     \* bound on the number of rows of a call

VARIABLES entries,    \* tmp_indices and tmp_scalars, position by position
          starts,     \* what is passed for the starts of the rows
          written     \* the expressions of the client in the last call

vars == <<entries, starts, written>>

Exprs == Expressions(Vars, Coefs, MaxTerms)

Init == entries = <<>> /\ starts = <<0>> /\ written = <<>>

\* add_constraint and add_ranged_constraint: one row.
AddConstraint(terms) ==
    /\ written' = <<terms>>
    /\ entries' = terms
    /\ starts' = <<0, Len(terms)>>

\* The vectors of a call, after each of its rows.
Filled(rows) ==
    LET after[k \in 0..Len(rows)] == IF k = 0 THEN <<>> ELSE after[k - 1] \o rows[k]
    IN  after

\* Mutant: the row starts where its terms end.
RegisteredLate(rows, r) == Len(Filled(rows)[r])

\* The start of a row is registered before its terms.
Registered(rows, r) == Len(Filled(rows)[r - 1])

AddConstraints(rows) ==
    /\ written' = rows
    /\ entries' = Filled(rows)[Len(rows)]
    /\ starts' = Append([r \in DOMAIN rows |-> Registered(rows, r)], Len(entries'))

Next == \/ \E terms \in Exprs : AddConstraint(terms)
        \/ \E m \in 0..MaxRows : \E rows \in [1..m -> Exprs] : AddConstraints(rows)

Spec == Init /\ [][Next]_vars
----------------------------------------------------------------------------
(* Properties *)

\* The row that Clp makes of the vectors and the starts.
Row(r) == SubSeq(entries, starts[r] + 1, starts[r + 1])

\* Clp is handed as many rows as the client wrote, and each gives a variable what
\* the terms of its expression add up to: no row has terms of its neighbours in the
\* shared vectors, and none is left over from an earlier call.
RowsAddUp ==
    /\ Len(starts) = Len(written) + 1
    /\ \A r \in DOMAIN written, v \in Vars :
          CoefficientOf(Row(r), v) = CoefficientOf(written[r], v)

\* Repeated variables of a constraint are merged before the solver sees it.
RowsMerged == \A r \in DOMAIN written : IsDistinct(Row(r))
=============================================================================
