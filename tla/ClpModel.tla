------------------------------ MODULE ClpModel ------------------------------
(***************************************************************************)
(* The Clp model (clp_lp).  A handle is the column itself, and columns are *)
(* never deleted: a removed variable leaves a column without cost, fixed   *)
(* at 0, and goes onto a free list from which add_variable and add_column  *)
(* take first.  What they do not set, the new variable finds as the        *)
(* removed one left it, and the loop that should zero the entries of the   *)
(* removed one may pass over some of them.                                 *)
(*                                                                         *)
(* The client obeys the interface, as for HighsModel.  clp_lp never merges *)
(* the terms of a variable: it leaves it to Clp to add them up, as the     *)
(* tests of expressions with repeated variables expect it does.            *)
(***************************************************************************)
EXTENDS LinearTerms

CONSTANTS Coefs,        \* objective and matrix coefficients
          TermCoefs,    \* those that clients write in expressions
          Bounds,       \* variable bounds
          Params,       \* parameters that clients create variables with
          Rhs,          \* right-hand sides and ends of the constraints
          Infinity,     \* COIN_DBL_MAX
          MaxColumns,   \* bound on the number of columns
          MaxRows,      \* bound on the number of constraints
          MaxBatch,     \* bound on the number of them that one call adds
          MaxTerms      \* bound on the number of terms of an expression

\* Of variables Clp knows no type.
ASSUME ClpDataAssumption ==
    /\ Coefs \subseteq Int /\ 0 \in Coefs /\ TermCoefs \subseteq Coefs
    /\ Infinity \in Int
    /\ Bounds \subseteq Int /\ {0, Infinity} \subseteq Bounds
    /\ Params \subseteq [obj : Coefs, lb : Bounds, ub : Bounds, type : {"continuous"}]
    /\ Rhs \subseteq Int /\ \A b \in Rhs : -Infinity < b /\ b < Infinity

ASSUME ClpBoundsAssumption ==
    MaxColumns \in Nat /\ MaxRows \in Nat /\ MaxBatch \in Nat \ {0} /\ MaxTerms \in Nat

VARIABLES cols,               \* the columns of the Clp instance
          rows,               \* its rows: their bounds
          free_variable_ids,
          held,               \* the handles the client holds
          call                \* the last call of the client

vars == <<cols, rows, free_variable_ids, held, call>>

Senses == {"less_equal", "equal", "greater_equal"}
ExpressionsOver(Vars) == Expressions(Vars, TermCoefs, MaxTerms)
Exprs == ExpressionsOver(held)
Constraints == [terms : Exprs, sense : Senses, rhs : Rhs]

Column(p, coefs) == [obj |-> p.obj, lb |-> p.lb, ub |-> p.ub, coefs |-> coefs]
Zeros == [r \in 1..Len(rows) |-> 0]
Entries(coefs) == {r \in DOMAIN coefs : coefs[r] # 0}
WithRows(coefs, n, more, m) ==
    [r \in 1..(n + m) |-> IF r <= n THEN coefs[r] ELSE more[r - n]]

Init == /\ cols = <<>> /\ rows = <<>>
        /\ free_variable_ids = <<>>
        /\ held = {}
        /\ call = <<"init">>
----------------------------------------------------------------------------
(* Variables *)

\* Mutant: a lower bound that is infinite is taken to be there.
RecycledIfFinite(col, p) ==
    [col EXCEPT !.obj = p.obj,
                !.lb = IF p.lb # -Infinity THEN p.lb ELSE @,
                !.ub = IF p.ub # 0 THEN p.ub ELSE @]

\* What _recylcle_variable makes of a removed column: a bound of 0 is taken to be there.
Recycled(col, p) ==
    [col EXCEPT !.obj = p.obj,
                !.lb = IF p.lb # 0 THEN p.lb ELSE @,
                !.ub = IF p.ub # 0 THEN p.ub ELSE @]

\* The entries that add_column is given go over what the column has.
Over(entries, coefs) == [r \in DOMAIN coefs |-> IF entries[r] # 0 THEN entries[r] ELSE coefs[r]]
WithEntries(col, entries) == [col EXCEPT !.coefs = Over(entries, @)]

\* Mutant: the id stays on the free list.
AddOneWithoutPop(h, p, entries) ==
    \/ /\ free_variable_ids # <<>>
       /\ h = free_variable_ids[Len(free_variable_ids)]
       /\ cols' = [cols EXCEPT ![h] = WithEntries(Recycled(@, p), entries)]
       /\ held' = held \cup {h}
       /\ UNCHANGED <<rows, free_variable_ids>>
    \/ /\ free_variable_ids = <<>>
       /\ Len(cols) < MaxColumns
       /\ h = Len(cols) + 1
       /\ cols' = Append(cols, Column(p, entries))
       /\ held' = held \cup {h}
       /\ UNCHANGED <<rows, free_variable_ids>>

\* add_variable and _add_column.
AddOne(h, p, entries) ==
    \/ /\ free_variable_ids # <<>>
       /\ h = free_variable_ids[Len(free_variable_ids)]
       /\ free_variable_ids' = SubSeq(free_variable_ids, 1, Len(free_variable_ids) - 1)
       /\ cols' = [cols EXCEPT ![h] = WithEntries(Recycled(@, p), entries)]
       /\ held' = held \cup {h}
       /\ UNCHANGED rows
    \/ /\ free_variable_ids = <<>>
       /\ Len(cols) < MaxColumns
       /\ h = Len(cols) + 1
       /\ cols' = Append(cols, Column(p, entries))
       /\ held' = held \cup {h}
       /\ UNCHANGED <<rows, free_variable_ids>>

AddVariable(h, p) ==
    /\ call' = <<"add_variable", h, p>>
    /\ AddOne(h, p, Zeros)

AddColumn(h, p, entries) ==
    /\ call' = <<"add_column", h, p, entries>>
    /\ AddOne(h, p, entries)

\* _add_variables recycles nothing: its variables have consecutive ids.
AddVariables(count, p) ==
    LET offset == Len(cols) IN
    /\ offset + count <= MaxColumns
    /\ call' = <<"add_variables", offset + 1, count, p>>
    /\ cols' = cols \o [k \in 1..count |-> Column(p, Zeros)]
    /\ held' = held \cup (offset + 1)..(offset + count)
    /\ UNCHANGED <<rows, free_variable_ids>>

\* The orders in which the elements of a set can be listed.
Orders(S) ==
    {s \in [1..Cardinality(S) -> S] : \A j, k \in DOMAIN s : s[j] = s[k] => j = k}

\* Clp takes the entry at j out of a column that has `count' of them: those behind it
\* move up by one, and the slot that the last of them leaves keeps its value.
Closed(column, j) ==
    [slots |-> [k \in DOMAIN column.slots |->
                   IF j <= k /\ k < column.count THEN column.slots[k + 1] ELSE column.slots[k]],
     count |-> column.count - 1]

\* The loop of remove_variable over the slots of a column, given in the order Clp has
\* them: it goes up by one while the entries that it deletes make the others move up.
Walked(order) ==
    LET after[k \in 0..Len(order)] ==
            IF k = 0 THEN [slots |-> order, count |-> Len(order)]
            ELSE LET column == after[k - 1]
                     here == {j \in 1..column.count : column.slots[j] = column.slots[k]}
                 IN  IF here = {} THEN column ELSE Closed(column, CHOOSE j \in here : TRUE)
    IN  after[Len(order)]

\* The sets of rows in which the loop may leave an entry.  Clp has the entries in some
\* order; and behind them a column may have slots with values of earlier entries, which
\* make the loop delete some that it passed over.
PassedOver(coefs) ==
    UNION {SUBSET {Walked(order).slots[j] : j \in 1..Walked(order).count} :
           order \in Orders(Entries(coefs))}

\* Mutant: the upper bound of a removed variable stays.
ZeroedBelow(col, left) ==
    [obj |-> 0, lb |-> 0, ub |-> col.ub,
     coefs |-> [r \in DOMAIN col.coefs |-> IF r \in left THEN col.coefs[r] ELSE 0]]

\* A removed column of which the entries in these rows were passed over.
Zeroed(col, left) ==
    [obj |-> 0, lb |-> 0, ub |-> 0,
     coefs |-> [r \in DOMAIN col.coefs |-> IF r \in left THEN col.coefs[r] ELSE 0]]

\* remove_variable and remove_variables.
RemoveVariables(doomed) ==
    LET D == {doomed[k] : k \in DOMAIN doomed} IN
    /\ doomed # <<>>
    /\ call' = <<"remove_variables", D>>
    /\ \E left \in [D -> SUBSET DOMAIN rows] :
          /\ \A i \in D : left[i] \in PassedOver(cols[i].coefs)
          /\ cols' = [i \in DOMAIN cols |-> IF i \in D THEN Zeroed(cols[i], left[i]) ELSE cols[i]]
    /\ free_variable_ids' = free_variable_ids \o doomed
    /\ held' = held \ D
    /\ UNCHANGED rows

SetVariableLowerBound(h, b) ==
    /\ call' = <<"set_variable_lower_bound", h, b>>
    /\ cols' = [cols EXCEPT ![h].lb = b]
    /\ UNCHANGED <<rows, free_variable_ids, held>>

SetVariableUpperBound(h, b) ==
    /\ call' = <<"set_variable_upper_bound", h, b>>
    /\ cols' = [cols EXCEPT ![h].ub = b]
    /\ UNCHANGED <<rows, free_variable_ids, held>>
----------------------------------------------------------------------------
(* Objective *)

SetObjective(terms) ==
    /\ \A i \in DOMAIN cols : CoefficientOf(terms, i) \in Coefs
    /\ call' = <<"set_objective", terms>>
    /\ cols' = [i \in DOMAIN cols |-> [cols[i] EXCEPT !.obj = CoefficientOf(terms, i)]]
    /\ UNCHANGED <<rows, free_variable_ids, held>>

AddObjective(terms) ==
    /\ \A i \in DOMAIN cols : cols[i].obj + CoefficientOf(terms, i) \in Coefs
    /\ call' = <<"add_objective", terms>>
    /\ cols' = [i \in DOMAIN cols |-> [cols[i] EXCEPT !.obj = @ + CoefficientOf(terms, i)]]
    /\ UNCHANGED <<rows, free_variable_ids, held>>

SetObjectiveCoefficient(h, c) ==
    /\ call' = <<"set_objective_coefficient", h, c>>
    /\ cols' = [cols EXCEPT ![h].obj = c]
    /\ UNCHANGED <<rows, free_variable_ids, held>>
----------------------------------------------------------------------------
(* Constraints *)

RowOf(sense, b) ==
    [lower |-> IF sense = "less_equal" THEN -Infinity ELSE b,
     upper |-> IF sense = "greater_equal" THEN Infinity ELSE b]

\* get_constraint_sense, which throws for "range", and get_constraint_rhs.
SenseOf(row) ==
    CASE row.lower = row.upper -> "equal"
      [] row.lower # row.upper /\ row.lower = -Infinity -> "less_equal"
      [] row.lower # row.upper /\ row.lower # -Infinity /\ row.upper = Infinity -> "greater_equal"
      [] OTHER -> "range"
RhsOf(row) == IF SenseOf(row) = "greater_equal" THEN row.lower ELSE row.upper

\* What a client sees of a row: a range has two ends and no right-hand side.
ConstraintOf(row) ==
    [sense |-> SenseOf(row),
     rhs |-> IF SenseOf(row) = "range" THEN <<row.lower, row.upper>> ELSE RhsOf(row)]

\* Rows with these terms and bounds behind those that Clp has.  The terms of one
\* variable add up.
AddRows(terms, bounds) ==
    /\ Len(rows) + Len(bounds) <= MaxRows
    /\ \A r \in DOMAIN bounds, i \in DOMAIN cols : CoefficientOf(terms[r], i) \in Coefs
    /\ cols' = [i \in DOMAIN cols |-> [cols[i] EXCEPT
          !.coefs = WithRows(@, Len(rows),
                             [r \in DOMAIN bounds |-> CoefficientOf(terms[r], i)],
                             Len(bounds))]]
    /\ rows' = rows \o bounds
    /\ UNCHANGED <<free_variable_ids, held>>

AddConstraint(lc) ==
    /\ call' = <<"add_constraints", <<lc>>>>
    /\ AddRows(<<lc.terms>>, <<RowOf(lc.sense, lc.rhs)>>)

AddConstraints(lcs) ==
    /\ call' = <<"add_constraints", lcs>>
    /\ AddRows([r \in DOMAIN lcs |-> lcs[r].terms],
               [r \in DOMAIN lcs |-> RowOf(lcs[r].sense, lcs[r].rhs)])

\* A range whose ends are the same is an equality from then on.
AddRangedConstraint(terms, lb, ub) ==
    /\ lb <= ub
    /\ call' = <<"add_ranged_constraint", terms, lb, ub>>
    /\ AddRows(<<terms>>, <<[lower |-> lb, upper |-> ub]>>)

\* The setters ask for the sense, so they throw for a range.
SetterThrows(r) ==
    /\ SenseOf(rows[r]) = "range"
    /\ call' = <<"rejected">>
    /\ UNCHANGED <<cols, rows, free_variable_ids, held>>

\* Mutant: the right-hand side of an equality is set on one side.
SetUpperRhs(r, b) ==
    /\ SenseOf(rows[r]) # "range"
    /\ call' = <<"set_constraint_rhs", r, b>>
    /\ rows' = [rows EXCEPT ![r] = IF SenseOf(@) = "greater_equal"
                                   THEN [lower |-> b, upper |-> @.upper]
                                   ELSE [lower |-> @.lower, upper |-> b]]
    /\ UNCHANGED <<cols, free_variable_ids, held>>

SetConstraintRhs(r, b) ==
    /\ SenseOf(rows[r]) # "range"
    /\ call' = <<"set_constraint_rhs", r, b>>
    /\ rows' = [rows EXCEPT ![r] =
          CASE SenseOf(@) = "equal" -> [lower |-> b, upper |-> b]
            [] SenseOf(@) = "less_equal" -> [lower |-> @.lower, upper |-> b]
            [] SenseOf(@) = "greater_equal" -> [lower |-> b, upper |-> @.upper]]
    /\ UNCHANGED <<cols, free_variable_ids, held>>

\* Mutant: the side that the new sense leaves open is opened, the other is not closed.
SetOpenSide(r, s) ==
    /\ SenseOf(rows[r]) # "range"
    /\ call' = <<"set_constraint_sense", r, s>>
    /\ rows' = [rows EXCEPT ![r] = [lower |-> RowOf(s, RhsOf(@)).lower, upper |-> @.upper]]
    /\ UNCHANGED <<cols, free_variable_ids, held>>

SetConstraintSense(r, s) ==
    /\ SenseOf(rows[r]) # "range"
    /\ call' = <<"set_constraint_sense", r, s>>
    /\ rows' = IF SenseOf(rows[r]) = s THEN rows
               ELSE [rows EXCEPT ![r] = RowOf(s, RhsOf(@))]
    /\ UNCHANGED <<cols, free_variable_ids, held>>
----------------------------------------------------------------------------
\* Sequences of held handles without repetition, the arguments of a removal.
Removals == UNION {Orders(H) : H \in SUBSET held \ {{}}}

Next ==
    \/ \E h \in 1..MaxColumns, p \in Params : AddVariable(h, p)
    \/ \E h \in 1..MaxColumns, p \in Params, e \in [1..Len(rows) -> Coefs] : AddColumn(h, p, e)
    \/ \E p \in Params, n \in 1..MaxColumns : AddVariables(n, p)
    \/ \E doomed \in Removals : RemoveVariables(doomed)
    \/ \E h \in held, b \in Bounds : SetVariableLowerBound(h, b) \/ SetVariableUpperBound(h, b)
    \/ \E terms \in Exprs : SetObjective(terms) \/ AddObjective(terms)
    \/ \E h \in held, c \in Coefs : SetObjectiveCoefficient(h, c)
    \/ \E lc \in Constraints : AddConstraint(lc)
    \/ \E m \in 0..MaxBatch : \E lcs \in [1..m -> Constraints] : AddConstraints(lcs)
    \/ \E terms \in Exprs, lb, ub \in Rhs : AddRangedConstraint(terms, lb, ub)
    \/ \E r \in DOMAIN rows : SetterThrows(r)
    \/ \E r \in DOMAIN rows, b \in Rhs : SetConstraintRhs(r, b)
    \/ \E r \in DOMAIN rows, s \in Senses : SetConstraintSense(r, s)

Spec == Init /\ [][Next]_vars
----------------------------------------------------------------------------
(* Properties *)

RowType == {RowOf(s, b) : s \in Senses, b \in Rhs} \cup [lower : Rhs, upper : Rhs]

\* Every column has a coefficient for each row, the removed ones too.
TypeOK ==
    /\ rows \in Seq(RowType)
    /\ cols \in Seq([obj : Coefs, lb : Bounds, ub : Bounds, coefs : [1..Len(rows) -> Coefs]])
    /\ Len(cols) <= MaxColumns
    /\ free_variable_ids \in Seq(1..MaxColumns)
    /\ held \subseteq 1..MaxColumns

\* Each column is either held or on the free list, and there once, so that
\* num_variables() counts the variables, and no id is given out twice.
NoColumnLost ==
    /\ \A j, k \in DOMAIN free_variable_ids :
          free_variable_ids[j] = free_variable_ids[k] => j = k
    /\ {free_variable_ids[k] : k \in DOMAIN free_variable_ids} = DOMAIN cols \ held
    /\ held \subseteq DOMAIN cols

\* A removed variable takes no part in the model, and goes on taking none whatever
\* becomes of the objective and the rows: its column has no cost and is fixed at 0, so
\* that the entries which its removal passed over weigh nothing in any row.
RemovedIsNeutral ==
    \A i \in DOMAIN cols \ held : cols[i].obj = 0 /\ cols[i].lb = 0 /\ cols[i].ub = 0

\* The documentation of updates says that Clp zeroes the column of a removed variable
\* in place, and so does the comment over the loop.
RemovedIsZeros == \A i \in DOMAIN cols \ held : Entries(cols[i].coefs) = {}

\* The promise of the interface.
Promise == INSTANCE LinearModel WITH
    Handles <- 1..MaxColumns,
    MaxRows <- MaxBatch,
    Expressions <- ExpressionsOver,
    variables <- [h \in held |->
                     [obj |-> cols[h].obj, lb |-> cols[h].lb, ub |-> cols[h].ub,
                      type |-> "continuous", coefs |-> cols[h].coefs]],
    constraints <- [r \in DOMAIN rows |-> ConstraintOf(rows[r])]

\* add_variable or add_column recycles a column of which entries were passed over: the
\* new variable is as the client asked for but for those, in the rows where it has not
\* been given an entry of its own.
Inherits ==
    \E h \in DOMAIN cols \ held, p \in Params, e \in [1..Len(rows) -> Coefs] :
       /\ Entries(cols[h].coefs) # {}
       /\ \/ call' = <<"add_variable", h, p>> /\ e = Zeros
          \/ call' = <<"add_column", h, p, e>>
       /\ Promise!Add({h}, Promise!NewVariable(p, Over(e, cols[h].coefs)))

\* Each call does to the variable of the handle what it says.  A recycled column
\* inherits nothing from the variable that was removed, neither a cost nor a bound,
\* but the entries that the removal passed over, and those unchanged.
KeepsPromise == Promise!Init /\ [][Promise!Next \/ Inherits]_(Promise!vars)
=============================================================================
