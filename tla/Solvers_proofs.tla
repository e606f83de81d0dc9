--------------------------- MODULE Solvers_proofs ---------------------------
(***************************************************************************)
(* What holds of the models that never remove a variable, for every value  *)
(* of the constants: each call on a COPT, Xpress, GLPK or MOSEK model does *)
(* what it says, calls that throw in the middle included, and so do the    *)
(* calls on a SoPlex model that make rows.  What a MOSEK call that threw   *)
(* leaves behind constrains nothing.                                       *)
(***************************************************************************)
EXTENDS MCSolvers, FiniteSetTheorems, SequenceTheorems, WellFoundedInduction, TLAPS

----------------------------------------------------------------------------
(* What the clients pass and what of it reaches a solver, in all of these  *)
(* models.                                                                 *)

\* One sequence behind the other, place by place.
LEMMA ConcatIs ==
    ASSUME NEW n \in Nat, NEW m \in Nat, NEW t, NEW u,
           t = [r \in 1..n |-> t[r]], u = [r \in 1..m |-> u[r]]
    PROVE  /\ Len(t) = n /\ Len(u) = m
           /\ t \o u = [r \in 1..(n + m) |-> IF r <= n THEN t[r] ELSE u[r - n]]
<1> DEFINE T == {t[r] : r \in 1..n} \cup {u[r] : r \in 1..m}
<1>1. t \in [1..n -> T] /\ u \in [1..m -> T]
  <2>1. [r \in 1..n |-> t[r]] \in [1..n -> T] /\ [r \in 1..m |-> u[r]] \in [1..m -> T]
    OBVIOUS
  <2> HIDE DEF T
  <2> QED BY <2>1
<1> HIDE DEF T
<1>2. t \in Seq(T) /\ u \in Seq(T) /\ Len(t) = n /\ Len(u) = m
  BY <1>1, SeqDef
<1>3. /\ t \o u \in Seq(T) /\ Len(t \o u) = n + m
      /\ \A r \in 1..(n + m) : (t \o u)[r] = IF r <= n THEN t[r] ELSE u[r - n]
  BY <1>2, ConcatProperties
<1>4. t \o u \in [1..(n + m) -> T]
  BY <1>3, LenProperties
<1> QED BY <1>2, <1>3, <1>4

\* The sum of one term is its coefficient.
LEMMA SumOfOne == ASSUME NEW t, NEW k, t[k].coef \in Int PROVE SumAt(t, {k}) = t[k].coef
<1> DEFINE F(f) == [s \in SUBSET {k} |->
                       IF s = {} THEN 0
                       ELSE t[CHOOSE x \in s : TRUE].coef + f[s \ {CHOOSE x \in s : TRUE}]]
           sum == [s \in SUBSET {k} |-> IF s = {} THEN 0 ELSE t[k].coef]
<1>0. \A s \in SUBSET {k} : s # {} => s = {k} /\ (CHOOSE x \in s : TRUE) = k
  <2>1. ASSUME NEW s \in SUBSET {k}, s # {} PROVE s = {k}
    BY <2>1
  <2>2. (CHOOSE x \in {k} : TRUE) \in {k}
    OBVIOUS
  <2> QED BY <2>1, <2>2
<1>1. ASSUME NEW f, f = F(f) PROVE f = sum
  <2>0. f = [s \in SUBSET {k} |-> f[s]]
    BY <1>1
  <2>1. f[{}] = 0
    BY <1>1
  <2>2. ASSUME NEW s \in SUBSET {k}, s # {} PROVE f[s] = t[k].coef
    <3>1. s = {k} /\ (CHOOSE x \in s : TRUE) = k /\ s \ {k} = {}
      BY <1>0, <2>2
    <3>2. f[s] = IF s = {} THEN 0
                 ELSE t[CHOOSE x \in s : TRUE].coef + f[s \ {CHOOSE x \in s : TRUE}]
      BY <1>1
    <3>3. f[s] = t[k].coef + f[{}]
      BY <3>1, <3>2, <2>2
    <3> QED BY <3>3, <2>1
  <2> HIDE DEF F
  <2> QED BY <2>0, <2>1, <2>2
<1>2. sum = F(sum)
  <2>1. ASSUME NEW s \in SUBSET {k} PROVE sum[s] = F(sum)[s]
    <3>1. CASE s = {}
      BY <3>1
    <3>2. CASE s # {}
      <4>1. s = {k} /\ (CHOOSE x \in s : TRUE) = k /\ s \ {k} = {}
        BY <1>0, <3>2
      <4>2. sum[s] = t[k].coef /\ sum[{}] = 0
        BY <3>2
      <4>3. F(sum)[s] = t[k].coef + sum[{}]
        <5> HIDE DEF sum
        <5> QED BY <4>1, <3>2
      <4> HIDE DEF F, sum
      <4> QED BY <4>2, <4>3
    <3> QED BY <3>1, <3>2
  <2>2. sum = [s \in SUBSET {k} |-> sum[s]]
    OBVIOUS
  <2>3. F(sum) = [s \in SUBSET {k} |-> F(sum)[s]]
    OBVIOUS
  <2> HIDE DEF F, sum
  <2> QED BY <2>1, <2>2, <2>3
<1>3. SumAt(t, {k}) = (CHOOSE f : f = F(f))[{k}]
  BY DEF SumAt, MapThenSumSet, MapThenFoldSet
<1> HIDE DEF F
<1>4. (CHOOSE f : f = F(f)) = sum
  <2> HIDE DEF sum
  <2> QED BY <1>1, <1>2
<1> QED BY <1>3, <1>4

\* And that of no terms is 0.  The sum is a fold, a function that is defined by recursion
\* over the subsets of a set.
LEMMA SumOfNoTerm == ASSUME NEW t PROVE SumAt(t, {}) = 0
<1> DEFINE F(f) == [s \in SUBSET {} |->
                       IF s = {} THEN 0
                       ELSE t[CHOOSE x \in s : TRUE].coef + f[s \ {CHOOSE x \in s : TRUE}]]
           none == [s \in SUBSET {} |-> 0]
<1>1. \A f : F(f) = none
  OBVIOUS
<1>2. SumAt(t, {}) = (CHOOSE f : f = F(f))[{}]
  BY DEF SumAt, MapThenSumSet, MapThenFoldSet
<1>3. (CHOOSE f : f = F(f)) = none
  <2>1. \E f : f = F(f)
    BY <1>1
  <2> HIDE DEF F
  <2> QED BY <2>1, <1>1
<1> QED BY <1>2, <1>3

\* Terms that are passed as distinct reach the solver as the sums that they are.
LEMMA RegisteredIsSum ==
    ASSUME NEW Vars, NEW e \in ExpressionsOver(Vars), NEW v, NEW d, MayPass(e, d)
    PROVE  Registered(e, v, d) = CoefficientOf(e.terms, v)
<1> DEFINE terms == e.terms
           K == {k \in DOMAIN terms : terms[k].var = v}
<1>0. PICK n \in 0..MaxTerms : terms \in [1..n -> [var : Vars, coef : TermCoefs]]
  BY DEF ExpressionsOver, Expressions
<1>1. \A k \in DOMAIN terms : terms[k].coef \in Int
  BY <1>0, InstanceDataAssumption
<1>2. CASE ~d
  BY <1>2 DEF Registered
<1>3. CASE d /\ K = {}
  BY <1>3, SumOfNoTerm DEF Registered, LastOf, CoefficientOf
<1>4. CASE d /\ K # {}
  <2>1. PICK k \in K : TRUE
    BY <1>4
  <2>2. IsDistinct(terms) /\ DOMAIN terms \subseteq Int
    BY <1>0, <1>4 DEF MayPass
  <2>3. K = {k}
    BY <2>1, <2>2 DEF IsDistinct
  <2>4. k \in Int /\ terms[k].coef \in Int
    BY <2>1, <2>2, <1>1
  <2>5. SumAt(terms, K) = terms[k].coef
    BY <2>3, <2>4, SumOfOne
  <2>6. Max(K) = k
    BY <2>3, <2>4 DEF Max
  <2> HIDE DEF K
  <2> QED BY <1>4, <2>5, <2>6 DEF Registered, LastOf, CoefficientOf, K
<1> QED BY <1>2, <1>3, <1>4

\* The constraints of one call.
LEMMA BatchesTyped ==
    ASSUME NEW Vars, NEW lcs \in BatchesOver(Vars)
    PROVE  /\ Len(lcs) \in Nat /\ DOMAIN lcs = 1..Len(lcs) /\ lcs = [r \in 1..Len(lcs) |-> lcs[r]]
           /\ \A r \in DOMAIN lcs :
                 /\ lcs[r] \in ConstraintsOver(Vars)
                 /\ lcs[r].terms \in ExpressionsOver(Vars) /\ lcs[r].terms.constant = 0
                 /\ lcs[r].sense \in Senses /\ lcs[r].rhs \in Rhs
<1>1. PICK n \in 0..MaxRows : /\ lcs = [k \in 1..n |-> lcs[k]]
                             /\ \A r \in 1..n : lcs[r] \in ConstraintsOver(Vars)
  BY DEF BatchesOver
<1>2. n \in Nat /\ DOMAIN lcs = 1..n
  <2>1. DOMAIN [k \in 1..n |-> lcs[k]] = 1..n
    OBVIOUS
  <2> QED BY <1>1, <2>1, InstanceBoundsAssumption
<1>3. Len(lcs) = n
  BY <1>1, <1>2
<1> QED BY <1>1, <1>2, <1>3 DEF ConstraintsOver

\* A variable that becomes binary, field by field.
WithType(r, b, lb, ub) == [r EXCEPT !.type = b, !.lb = lb, !.ub = ub]
BinaryOf(r, lb, ub) == [r EXCEPT !.type = "integer", !.lb = lb, !.ub = ub]

LEMMA MadeOfType ==
    ASSUME NEW o, NEW l, NEW u, NEW t, NEW coefs, NEW b, NEW lb, NEW ub, NEW r,
           r = [obj |-> o, lb |-> l, ub |-> u, type |-> t, coefs |-> coefs]
    PROVE  WithType(r, b, lb, ub) = [obj |-> o, lb |-> lb, ub |-> ub, type |-> b, coefs |-> coefs]
<1> DEFINE f == [r EXCEPT !.type = b, !.lb = lb, !.ub = ub]
           g == [obj |-> o, lb |-> lb, ub |-> ub, type |-> b, coefs |-> coefs]
           D == {"obj", "lb", "ub", "type", "coefs"}
<1>1. DOMAIN r = D
  OBVIOUS
<1>2. f = [k \in D |-> f[k]]
  BY <1>1
<1>3. f.obj = o /\ f.lb = lb /\ f.ub = ub /\ f.type = b /\ f.coefs = coefs
  BY <1>1
<1>4. g = [k \in D |-> g[k]]
  OBVIOUS
<1>5. g.obj = o /\ g.lb = lb /\ g.ub = ub /\ g.type = b /\ g.coefs = coefs
  OBVIOUS
<1> HIDE DEF f, g
<1>6. \A k \in D : f[k] = g[k]
  BY <1>3, <1>5
<1> HIDE DEF D
<1>7. f = g
  BY <1>2, <1>4, <1>6
<1> QED BY <1>7 DEF f, g, WithType

LEMMA MadeBinary ==
    ASSUME NEW o, NEW l, NEW u, NEW t, NEW coefs, NEW lb, NEW ub, NEW r,
           r = [obj |-> o, lb |-> l, ub |-> u, type |-> t, coefs |-> coefs]
    PROVE  BinaryOf(r, lb, ub) = [obj |-> o, lb |-> lb, ub |-> ub, type |-> "integer", coefs |-> coefs]
<1>1. BinaryOf(r, lb, ub) = WithType(r, "integer", lb, ub)
  BY DEF BinaryOf, WithType
<1> QED BY <1>1, MadeOfType

\* What the calls hand to AppendCols and AppendRows.
Copies(new, n, c) == new = [k \in 1..n |-> c]
EntriesOf(coef, lcs, m) ==
    \A i \in DOMAIN cols : coef[i] = [r \in 1..m |-> CoefficientOf(lcs[r].terms.terms, i)]
----------------------------------------------------------------------------
(* What a client sees of a call.  V and C are its variables and its        *)
(* constraints before the call, W and D those after it: what MilpModel     *)
(* promises, said of values, so that it serves every solver.               *)

Var(o, l, u, t, cf) == [obj |-> o, lb |-> l, ub |-> u, type |-> t, coefs |-> cf]

\* New variables, all alike.
Made(V, W, H, v) ==
    H \cap DOMAIN V = {} /\ W = [h \in DOMAIN V \cup H |-> IF h \in H THEN v ELSE V[h]]

MakesVariables(V, W, C, P) ==
    \E first \in 1..MaxColumns, n \in Nat \ {0} : \E q \in P, e \in [1..Len(C) -> Coefs] :
       /\ first + n - 1 <= MaxColumns
       /\ Made(V, W, first..(first + n - 1), Var(q.obj, q.lb, q.ub, q.type, e))
       /\ \/ n = 1 /\ call' = <<"add_column", first, q, e>>
          \/ /\ e = [r \in 1..Len(C) |-> 0]
             /\ \/ n = 1 /\ call' = <<"add_variable", first, q>>
                \/ call' = <<"add_variables", first, n, q>>

\* What becomes of one variable.
Becomes(V, h, v) ==
    \/ \E c \in Coefs : v = [V[h] EXCEPT !.obj = c] /\ call' = <<"set_objective_coefficient", h, c>>
    \/ \E b \in Bounds : v = [V[h] EXCEPT !.lb = b] /\ call' = <<"set_variable_lower_bound", h, b>>
    \/ \E b \in Bounds : v = [V[h] EXCEPT !.ub = b] /\ call' = <<"set_variable_upper_bound", h, b>>
    \/ \E t \in {"continuous", "integer"} : v = [V[h] EXCEPT !.type = t] /\ call' = <<"set_type", h, t>>
    \/ /\ call' = <<"set_binary", h>>
       /\ \E lb \in {0, V[h].lb}, ub \in {1, V[h].ub} :
             0 <= lb /\ ub <= 1 /\ v = BinaryOf(V[h], lb, ub)

ChangesVariable(V, W) == \E h \in DOMAIN V : \E v : W = [V EXCEPT ![h] = v] /\ Becomes(V, h, v)

Priced(V, coef) == [h \in DOMAIN V |-> [V[h] EXCEPT !.obj = coef[h]]]

\* What the objective becomes.
ObjectiveOf(V, e, coef) ==
    \/ /\ call' = <<"set_objective", e>> /\ offset' = e.constant
       /\ \A h \in DOMAIN V : coef[h] = CoefficientOf(e.terms, h)
    \/ /\ call' = <<"add_objective", e>> /\ offset' = offset + e.constant
       /\ \A h \in DOMAIN V : coef[h] = V[h].obj + CoefficientOf(e.terms, h)

ChangesObjective(V, W) ==
    \E e \in ExpressionsOver(DOMAIN V) : \E coef : W = Priced(V, coef) /\ ObjectiveOf(V, e, coef)

SetsOffset == \E k \in Constants : call' = <<"set_objective_offset", k>> /\ offset' = k
SetsDirection == \E m \in BOOLEAN : call' = <<"set_maximization", m>> /\ maximize' = m

\* The entries old of a variable in n rows, and those in the rows lcs.
RowsBehind(old, n, lcs, m, h) ==
    [r \in 1..(n + m) |-> IF r <= n THEN old[r] ELSE CoefficientOf(lcs[r - n].terms.terms, h)]
Extended(V, n, lcs, m) == [h \in DOMAIN V |-> [V[h] EXCEPT !.coefs = RowsBehind(@, n, lcs, m, h)]]
Asked(lcs, m) == [r \in 1..m |-> [sense |-> lcs[r].sense, rhs |-> lcs[r].rhs]]

MakesRows(V, W, C, D) ==
    \E m \in Nat : \E lcs \in [1..m -> ConstraintsOver(DOMAIN V)] :
       /\ call' = <<"add_constraints", lcs>>
       /\ W = Extended(V, Len(C), lcs, m) /\ D = C \o Asked(lcs, m)

----------------------------------------------------------------------------
(* What the calls do to the columns and rows, whatever these are.          *)

\* A function from the first numbers is a sequence.
LEMMA SequenceFrom == ASSUME NEW S, NEW k \in Nat, NEW s \in [1..k -> S] PROVE s \in Seq(S) /\ Len(s) = k
BY SeqDef

\* New columns, all alike.
LEMMA ColumnsAppended ==
    ASSUME NEW S, NEW n \in Nat \ {0}, NEW c \in S, NEW new, Copies(new, n, c),
           cols \in Seq(S), cols' = cols \o new,
           NEW H, H = (Len(cols) + 1)..(Len(cols) + n)
    PROVE  /\ cols' \in Seq(S) /\ Len(new) = n /\ Len(cols) \in Nat
           /\ DOMAIN cols' = DOMAIN cols \cup H /\ H \cap DOMAIN cols = {}
           /\ \A i \in DOMAIN cols \cup H : cols'[i] = IF i \in H THEN c ELSE cols[i]
<1>1. Len(cols) \in Nat /\ DOMAIN cols = 1..Len(cols) /\ \A i \in DOMAIN cols : cols[i] \in S
  BY LenProperties, ElementOfSeq
<1>2. cols = [i \in 1..Len(cols) |-> cols[i]] /\ new = [k \in 1..n |-> new[k]] /\ \A k \in 1..n : new[k] = c
  BY <1>1 DEF Copies
<1>3. /\ Len(new) = n
      /\ cols' = [i \in 1..(Len(cols) + n) |-> IF i <= Len(cols) THEN cols[i] ELSE new[i - Len(cols)]]
  BY <1>1, <1>2, ConcatIs
<1>4. \A i \in 1..(Len(cols) + n) : ~(i <= Len(cols)) => new[i - Len(cols)] = c
  BY <1>1, <1>2
<1>5. /\ DOMAIN cols' = DOMAIN cols \cup H /\ H \cap DOMAIN cols = {}
      /\ \A i \in DOMAIN cols \cup H : cols'[i] = IF i \in H THEN c ELSE cols[i]
  BY <1>1, <1>3, <1>4
<1>6. cols' \in Seq(S)
  <2>1. cols' \in [1..(Len(cols) + n) -> S]
    BY <1>1, <1>3, <1>4
  <2>2. Len(cols) + n \in Nat
    BY <1>1
  <2> QED BY <2>1, <2>2, SequenceFrom
<1> QED BY <1>1, <1>3, <1>5, <1>6

\* One column that changes, and all of them.
LEMMA ColumnChanged ==
    ASSUME NEW S, NEW c \in S, NEW h, cols \in Seq(S), cols' = [cols EXCEPT ![h] = c]
    PROVE  cols' \in Seq(S) /\ DOMAIN cols' = DOMAIN cols
<1>1. Len(cols) \in Nat /\ DOMAIN cols = 1..Len(cols) /\ \A i \in DOMAIN cols : cols[i] \in S
  BY LenProperties, ElementOfSeq
<1>2. cols' \in [1..Len(cols) -> S]
  <2>1. cols = [i \in 1..Len(cols) |-> cols[i]]
    BY <1>1
  <2> QED BY <1>1, <2>1
<1> QED BY <1>1, <1>2, SeqDef

LEMMA ColumnsMapped ==
    ASSUME NEW S, NEW T, NEW f, cols \in Seq(S), cols' = [i \in DOMAIN cols |-> f[i]],
           \A i \in DOMAIN cols : f[i] \in T
    PROVE  cols' \in Seq(T) /\ DOMAIN cols' = DOMAIN cols
<1>1. Len(cols) \in Nat /\ DOMAIN cols = 1..Len(cols)
  BY LenProperties
<1>2. cols' \in [1..Len(cols) -> T]
  BY <1>1
<1> QED BY <1>1, <1>2, SeqDef

\* A sequence of m elements, one behind another, and the entries of variable h in some rows.
Listed(s, m) == s = [r \in 1..m |-> s[r]]
Behind(D, C, a, n, m) == \A r \in 1..(n + m) : D[r] = IF r <= n THEN C[r] ELSE a[r - n]
EntriesFor(more, lcs, m, h) == more = [r \in 1..m |-> CoefficientOf(lcs[r].terms.terms, h)]

\* Rows behind those there are.
LEMMA RowsAppended ==
    ASSUME NEW S, NEW m \in Nat, NEW new, Listed(new, m), \A r \in 1..m : new[r] \in S,
           rows \in Seq(S), rows' = rows \o new
    PROVE  /\ rows' \in Seq(S) /\ Len(new) = m /\ DOMAIN new = 1..m
           /\ Len(rows) \in Nat /\ Len(rows') = Len(rows) + m
           /\ Behind(rows', rows, new, Len(rows), m)
<1>1. Len(rows) \in Nat /\ DOMAIN rows = 1..Len(rows) /\ \A r \in DOMAIN rows : rows[r] \in S
  BY LenProperties, ElementOfSeq
<1>2. rows = [r \in 1..Len(rows) |-> rows[r]]
  BY <1>1
<1>a. new = [r \in 1..m |-> new[r]]
  BY DEF Listed
<1>3. /\ Len(new) = m
      /\ rows' = [r \in 1..(Len(rows) + m) |-> IF r <= Len(rows) THEN rows[r] ELSE new[r - Len(rows)]]
  BY <1>1, <1>2, <1>a, ConcatIs
<1>4. rows' \in [1..(Len(rows) + m) -> S] /\ Len(rows) + m \in Nat
  <2> DEFINE row(r) == IF r <= Len(rows) THEN rows[r] ELSE new[r - Len(rows)]
  <2>1. ASSUME NEW r \in 1..(Len(rows) + m) PROVE row(r) \in S
    <3>1. r <= Len(rows) => r \in DOMAIN rows
      BY <1>1
    <3>2. ~(r <= Len(rows)) => r - Len(rows) \in 1..m
      BY <1>1
    <3> QED BY <1>1, <3>1, <3>2
  <2>2. rows' = [r \in 1..(Len(rows) + m) |-> row(r)] /\ Len(rows) + m \in Nat
    BY <1>1, <1>3
  <2> HIDE DEF row
  <2> QED BY <2>1, <2>2
<1>5. rows' \in Seq(S) /\ Len(rows') = Len(rows) + m
  BY <1>4, SequenceFrom
<1>6. DOMAIN new = 1..m
  <2>1. DOMAIN [r \in 1..m |-> new[r]] = 1..m
    OBVIOUS
  <2> QED BY <1>a, <2>1
<1>7. Behind(rows', rows, new, Len(rows), m)
  BY <1>3 DEF Behind
<1> QED BY <1>1, <1>3, <1>5, <1>6, <1>7

\* The entries of a column behind those it has.
LEMMA EntriesAppended ==
    ASSUME NEW n \in Nat, NEW m \in Nat, NEW old \in [1..n -> Coefs], NEW more, NEW lcs, NEW h,
           EntriesFor(more, lcs, m, h), \A r \in 1..m : more[r] \in Coefs
    PROVE  old \o more = RowsBehind(old, n, lcs, m, h) /\ old \o more \in [1..(n + m) -> Coefs]
<1>1. /\ old = [r \in 1..n |-> old[r]] /\ more = [r \in 1..m |-> more[r]]
      /\ \A r \in 1..m : more[r] = CoefficientOf(lcs[r].terms.terms, h)
  BY DEF EntriesFor
<1>2. old \o more = [r \in 1..(n + m) |-> IF r <= n THEN old[r] ELSE more[r - n]]
  BY <1>1, ConcatIs
<1>3. \A r \in 1..(n + m) : ~(r <= n) => r - n \in 1..m /\ more[r - n] = CoefficientOf(lcs[r - n].terms.terms, h)
  BY <1>1
<1>4. old \o more = RowsBehind(old, n, lcs, m, h)
  BY <1>2, <1>3 DEF RowsBehind
<1>5. \A r \in 1..(n + m) : (IF r <= n THEN old[r] ELSE more[r - n]) \in Coefs
  BY <1>3
<1>6. old \o more \in [1..(n + m) -> Coefs]
  BY <1>2, <1>5
<1> QED BY <1>4, <1>6

\* What the client asked for behind the constraints that there are.
LEMMA ConstraintsAppended ==
    ASSUME NEW n \in Nat, NEW m \in Nat, NEW C, NEW D, NEW lcs,
           Listed(C, n), Listed(D, n + m), Behind(D, C, Asked(lcs, m), n, m)
    PROVE  Len(C) = n /\ D = C \o Asked(lcs, m)
<1> DEFINE a == Asked(lcs, m)
<1>1. a = [r \in 1..m |-> a[r]]
  BY DEF Asked
<1> HIDE DEF a
<1>b. C = [r \in 1..n |-> C[r]] /\ D = [r \in 1..(n + m) |-> D[r]]
  BY DEF Listed
<1>2. Len(C) = n /\ C \o a = [r \in 1..(n + m) |-> IF r <= n THEN C[r] ELSE a[r - n]]
  BY <1>1, <1>b, ConcatIs
<1>3. \A r \in 1..(n + m) : D[r] = IF r <= n THEN C[r] ELSE a[r - n]
  BY DEF a, Behind
<1>4. D = C \o a
  BY <1>2, <1>3, <1>b
<1> QED BY <1>2, <1>4 DEF a
----------------------------------------------------------------------------
(* Recursion on the terms of an expression.  The set T is what induction is *)
(* about.                                                                  *)

LEMMA Upward ==
    ASSUME NEW n \in Nat, NEW T, 0 \in T, \A k \in 1..n : k - 1 \in T => k \in T
    PROVE  \A k \in 0..n : k \in T
<1> DEFINE Missed == (0..n) \ T
<1>1. SUFFICES ASSUME Missed # {} PROVE FALSE
  OBVIOUS
<1>2. Missed \subseteq Nat
  OBVIOUS
<1> HIDE DEF Missed
<1>3. PICK k \in Missed : \A j \in Missed : ~(<<j, k>> \in OpToRel(<, Nat))
  BY <1>1, <1>2, WFMin, NatLessThanWellFounded
<1>4. k \in 1..n /\ k - 1 \in 0..n /\ k \notin T
  BY DEF Missed
<1>5. k - 1 \in Missed
  BY <1>4 DEF Missed
<1>6. <<k - 1, k>> \in Nat \X Nat /\ <<k - 1, k>>[1] < <<k - 1, k>>[2]
  BY <1>2, <1>4, <1>5
<1> QED BY <1>3, <1>5, <1>6 DEF OpToRel

Steps(G, S, n) == G \in [S \X (1..n) -> S]

\* A function can be defined from each number to the next.
LEMMA Recursion ==
    ASSUME NEW n \in Nat, NEW S, NEW a \in S, NEW G, Steps(G, S, n)
    PROVE  \E f \in [0..n -> S] : f[0] = a /\ \A k \in 1..n : f[k] = G[<<f[k - 1], k>>]
<1>0. \A x \in S, k \in 1..n : G[<<x, k>>] \in S
  BY DEF Steps
<1> DEFINE Upto(m, f) == f \in [0..m -> S] /\ f[0] = a /\ \A k \in 1..m : f[k] = G[<<f[k - 1], k>>]
           T == {m \in 0..n : \E f : Upto(m, f)}
<1>1. 0 \in T
  <2> DEFINE g == [k \in 0..0 |-> a]
  <2>1. Upto(0, g)
    OBVIOUS
  <2> HIDE DEF g
  <2> HIDE DEF Upto
  <2> QED BY <2>1
<1>2. ASSUME NEW m \in 1..n, m - 1 \in T PROVE m \in T
  <2>1. PICK f : Upto(m - 1, f)
    BY <1>2
  <2> DEFINE g == [k \in 0..m |-> IF k = m THEN G[<<f[m - 1], m>>] ELSE f[k]]
  <2>0. m \in Nat /\ m - 1 \in 0..m /\ m - 1 # m
    OBVIOUS
  <2>2. f[m - 1] \in S /\ G[<<f[m - 1], m>>] \in S
    BY <1>0, <2>1
  <2>3. g \in [0..m -> S] /\ g[0] = a
    BY <2>1, <2>2
  <2>4. ASSUME NEW k \in 1..m PROVE g[k] = G[<<g[k - 1], k>>]
    <3>1. g[m] = G[<<f[m - 1], m>>] /\ g[m - 1] = f[m - 1]
      BY <2>0
    <3>2. CASE k # m
      <4>1. k \in 1..(m - 1) /\ k \in 0..m /\ k - 1 \in 0..m /\ k - 1 # m
        BY <2>0, <3>2
      <4>2. g[k] = f[k] /\ g[k - 1] = f[k - 1]
        BY <3>2, <4>1
      <4>3. f[k] = G[<<f[k - 1], k>>]
        BY <2>1, <4>1
      <4> QED BY <4>2, <4>3
    <3> HIDE DEF g
    <3> QED BY <3>1, <3>2
  <2> HIDE DEF g
  <2>5. Upto(m, g)
    BY <2>3, <2>4
  <2> HIDE DEF Upto
  <2> QED BY <2>5
<1> HIDE DEF T
<1>3. n \in T
  BY <1>1, <1>2, Upward
<1> QED BY <1>3 DEF T

\* The sum of the coefficients in K among the first k.
Partial(t, K) ==
    LET sum[k \in 0..Len(t)] == IF k = 0 THEN 0 ELSE sum[k - 1] + IF k \in K THEN t[k].coef ELSE 0
    IN  sum

Terms(t, n) == n \in Nat /\ Len(t) = n /\ DOMAIN t = 1..n /\ \A k \in 1..n : t[k].coef \in Int

LEMMA PartialIs ==
    ASSUME NEW t, NEW n, Terms(t, n), NEW K
    PROVE  /\ Partial(t, K) \in [0..n -> Int]
           /\ Partial(t, K)[0] = 0
           /\ \A k \in 1..n : Partial(t, K)[k] = Partial(t, K)[k - 1] + IF k \in K THEN t[k].coef ELSE 0
<1> DEFINE F(f) == [k \in 0..n |-> IF k = 0 THEN 0 ELSE f[k - 1] + IF k \in K THEN t[k].coef ELSE 0]
           G == [x \in Int \X (1..n) |-> x[1] + IF x[2] \in K THEN t[x[2]].coef ELSE 0]
<1>0. n \in Nat /\ Len(t) = n /\ \A k \in 1..n : t[k].coef \in Int
  BY DEF Terms
<1>1. G \in [Int \X (1..n) -> Int]
  BY <1>0
<1>2. ASSUME NEW x \in Int, NEW k \in 1..n PROVE G[<<x, k>>] = x + IF k \in K THEN t[k].coef ELSE 0
  OBVIOUS
<1> HIDE DEF G
<1>3. PICK g \in [0..n -> Int] : g[0] = 0 /\ \A k \in 1..n : g[k] = G[<<g[k - 1], k>>]
  <2> DEFINE Z == Int
  <2>1. 0 \in Z /\ Steps(G, Z, n)
    BY <1>1 DEF Steps
  <2> HIDE DEF Z
  <2>2. \E g \in [0..n -> Z] : g[0] = 0 /\ \A k \in 1..n : g[k] = G[<<g[k - 1], k>>]
    BY <1>0, <2>1, Recursion
  <2> QED BY <2>2 DEF Z
<1>4. \A k \in 1..n : g[k] = g[k - 1] + IF k \in K THEN t[k].coef ELSE 0
  <2>1. \A k \in 1..n : g[k - 1] \in Int
    BY <1>0
  <2> QED BY <1>2, <1>3, <2>1
<1>5. g = F(g)
  BY <1>0, <1>3, <1>4
<1>6. ASSUME NEW f, f = F(f) PROVE f = g
  <2> DEFINE T == {k \in 0..n : f[k] = g[k]}
  <2>0. f = [k \in 0..n |-> f[k]] /\ f[0] = 0
    BY <1>0, <1>6
  <2>1. \A k \in 1..n : f[k] = f[k - 1] + IF k \in K THEN t[k].coef ELSE 0
    BY <1>0, <1>6
  <2> HIDE DEF F
  <2>2. 0 \in T /\ \A k \in 1..n : k - 1 \in T => k \in T
    <3>1. 0 \in T
      BY <1>0, <1>3, <2>0
    <3>2. ASSUME NEW k \in 1..n, k - 1 \in T PROVE k \in T
      <4>1. f[k - 1] = g[k - 1]
        BY <3>2
      <4>2. f[k] = g[k]
        BY <1>4, <2>1, <4>1
      <4> QED BY <1>0, <4>2
    <3> HIDE DEF T
    <3> QED BY <3>1, <3>2
  <2>3. \A k \in 0..n : k \in T
    <3> HIDE DEF T
    <3> QED BY <1>0, <2>2, Upward
  <2> QED BY <1>3, <2>0, <2>3
<1>7. Partial(t, K) = CHOOSE f : f = F(f)
  BY <1>0 DEF Partial
<1> HIDE DEF F
<1>8. Partial(t, K) = g
  BY <1>5, <1>6, <1>7
<1> QED BY <1>3, <1>4, <1>8

LEMMA PartialWithout ==
    ASSUME NEW t, NEW n, Terms(t, n), NEW K, NEW x \in K, x \in 1..n
    PROVE  \A k \in 0..n : Partial(t, K)[k] = Partial(t, K \ {x})[k] + IF x <= k THEN t[x].coef ELSE 0
<1> DEFINE p == Partial(t, K)
           q == Partial(t, K \ {x})
           T == {k \in 0..n : p[k] = q[k] + IF x <= k THEN t[x].coef ELSE 0}
<1>1. /\ p \in [0..n -> Int] /\ p[0] = 0
      /\ \A k \in 1..n : p[k] = p[k - 1] + IF k \in K THEN t[k].coef ELSE 0
  BY PartialIs
<1>2. /\ q \in [0..n -> Int] /\ q[0] = 0
      /\ \A k \in 1..n : q[k] = q[k - 1] + IF k \in K \ {x} THEN t[k].coef ELSE 0
  BY PartialIs
<1>3. n \in Nat /\ \A k \in 1..n : t[k].coef \in Int
  BY DEF Terms
<1> HIDE DEF p, q
<1>4. 0 \in T
  BY <1>1, <1>2, <1>3
<1>5. ASSUME NEW k \in 1..n, k - 1 \in T PROVE k \in T
  <2>1. /\ p[k - 1] \in Int /\ q[k - 1] \in Int /\ t[k].coef \in Int /\ t[x].coef \in Int
        /\ p[k - 1] = q[k - 1] + IF x <= k - 1 THEN t[x].coef ELSE 0
    BY <1>1, <1>2, <1>3, <1>5
  <2>2. CASE k = x
    BY <1>1, <1>2, <2>1, <2>2
  <2>3. CASE k # x
    BY <1>1, <1>2, <2>1, <2>3
  <2> QED BY <2>2, <2>3
<1>6. \A k \in 0..n : k \in T
  <2> HIDE DEF T
  <2> QED BY <1>3, <1>4, <1>5, Upward
<1> QED BY <1>6 DEF p, q

LEMMA PartialOfNone ==
    ASSUME NEW t, NEW n, Terms(t, n) PROVE \A k \in 0..n : Partial(t, {})[k] = 0
<1> DEFINE p == Partial(t, {})
           T == {k \in 0..n : p[k] = 0}
<1>1. /\ p[0] = 0 /\ n \in Nat
      /\ \A k \in 1..n : p[k] = p[k - 1] + 0
  BY PartialIs DEF Terms
<1> HIDE DEF p
<1>2. 0 \in T /\ \A k \in 1..n : k - 1 \in T => k \in T
  BY <1>1
<1>3. \A k \in 0..n : k \in T
  <2> HIDE DEF T
  <2> QED BY <1>1, <1>2, Upward
<1> QED BY <1>3 DEF p

\* The sum is a fold over a set, one element of which is taken after the other in some
\* order: it is what adding up the terms from the first on gives.
LEMMA SumIs ==
    ASSUME NEW t, NEW n, Terms(t, n), NEW K, K \subseteq 1..n
    PROVE  SumAt(t, K) = Partial(t, K)[n]
<1> DEFINE F(f) == [s \in SUBSET K |->
                       IF s = {} THEN 0
                       ELSE t[CHOOSE x \in s : TRUE].coef + f[s \ {CHOOSE x \in s : TRUE}]]
           sum == [s \in SUBSET K |-> Partial(t, s)[n]]
<1>0. n \in Nat /\ n \in 0..n
  BY DEF Terms
<1>1. sum[{}] = 0
  BY <1>0, PartialOfNone
<1>2. ASSUME NEW s \in SUBSET K, NEW x \in s PROVE sum[s] = t[x].coef + sum[s \ {x}]
  <2>1. x \in 1..n /\ s \ {x} \in SUBSET K
    OBVIOUS
  <2>2. Partial(t, s)[n] = Partial(t, s \ {x})[n] + t[x].coef
    BY <1>0, <2>1, PartialWithout
  <2>3. Partial(t, s \ {x})[n] \in Int /\ t[x].coef \in Int
    <3>1. Partial(t, s \ {x}) \in [0..n -> Int]
      BY PartialIs
    <3> QED BY <1>0, <2>1, <3>1 DEF Terms
  <2> QED BY <2>1, <2>2, <2>3
<1>3. sum = [s \in SUBSET K |-> sum[s]]
  OBVIOUS
<1>4. IsFiniteSet(K) /\ Cardinality(K) \in Nat
  <2>1. IsFiniteSet(1..n)
    BY <1>0, FS_Interval
  <2> QED BY <2>1, FS_Subset, FS_CardinalityType
<1> HIDE DEF sum
<1>5. sum = F(sum)
  <2>1. ASSUME NEW s \in SUBSET K PROVE sum[s] = F(sum)[s]
    BY <1>1, <1>2
  <2>2. F(sum) = [s \in SUBSET K |-> F(sum)[s]]
    OBVIOUS
  <2> HIDE DEF F
  <2> QED BY <1>3, <2>1, <2>2
<1>6. ASSUME NEW f, f = F(f) PROVE f = sum
  <2> DEFINE T == {m \in 0..Cardinality(K) : \A s \in SUBSET K : Cardinality(s) = m => f[s] = sum[s]}
  <2>0. f = [s \in SUBSET K |-> f[s]]
    BY <1>6
  <2>1. f[{}] = 0
    BY <1>6
  <2>2. ASSUME NEW s \in SUBSET K, s # {}
        PROVE  f[s] = t[CHOOSE x \in s : TRUE].coef + f[s \ {CHOOSE x \in s : TRUE}]
    BY <1>6, <2>2
  <2> HIDE DEF F
  <2>3. \A s \in SUBSET K : IsFiniteSet(s) /\ Cardinality(s) \in 0..Cardinality(K)
    <3> SUFFICES ASSUME NEW s \in SUBSET K
                 PROVE  IsFiniteSet(s) /\ Cardinality(s) \in 0..Cardinality(K)
      OBVIOUS
    <3>1. IsFiniteSet(s) /\ Cardinality(s) <= Cardinality(K)
      BY <1>4, FS_Subset
    <3>2. Cardinality(s) \in Nat
      BY <3>1, FS_CardinalityType
    <3> QED BY <1>4, <3>1, <3>2
  <2>4. 0 \in T
    <3>1. \A s \in SUBSET K : Cardinality(s) = 0 => s = {}
      BY <2>3, FS_EmptySet
    <3>2. \A s \in SUBSET K : Cardinality(s) = 0 => f[s] = sum[s]
      BY <1>1, <2>1, <3>1
    <3>3. 0 \in 0..Cardinality(K)
      BY <1>4
    <3> QED BY <3>2, <3>3
  <2>5. ASSUME NEW m \in 1..Cardinality(K), m - 1 \in T PROVE m \in T
    <3>1. ASSUME NEW s \in SUBSET K, Cardinality(s) = m PROVE f[s] = sum[s]
      <4>1. s # {}
        BY <3>1, FS_EmptySet
      <4>2. PICK x \in s : x = CHOOSE y \in s : TRUE
        BY <4>1
      <4>3. Cardinality(s \ {x}) = m - 1 /\ s \ {x} \in SUBSET K
        BY <2>3, <3>1, <4>2, FS_RemoveElement
      <4>4. f[s \ {x}] = sum[s \ {x}]
        BY <2>5, <4>3
      <4> QED BY <1>2, <2>2, <4>1, <4>2, <4>4
    <3> QED BY <3>1
  <2>6. \A m \in 0..Cardinality(K) : m \in T
    <3> HIDE DEF T
    <3> QED BY <1>4, <2>4, <2>5, Upward
  <2>7. \A s \in SUBSET K : f[s] = sum[s]
    BY <2>3, <2>6
  <2> QED BY <1>3, <2>0, <2>7
<1>7. SumAt(t, K) = (CHOOSE f : f = F(f))[K]
  BY DEF SumAt, MapThenSumSet, MapThenFoldSet
<1> HIDE DEF F
<1>8. (CHOOSE f : f = F(f)) = sum
  BY <1>5, <1>6
<1> QED BY <1>7, <1>8 DEF sum

----------------------------------------------------------------------------
(* MOSEK.  A row of no handle keeps the bounds it was appended with, since *)
(* they come after its entries; and a column of no handle stays out of     *)
(* every row, since its entries come last and the expressions of a client  *)
(* mention held columns only.                                              *)

MosekKeys == {"FR", "LO", "UP", "FX", "RA"}
MosekColumn == [obj : Int, key : MosekKeys, lb : Int, ub : Int, type : Mosek!Types,
               coefs : [1..Len(rows) -> Int]]
MosekRow == [key : MosekKeys, lb : Int, ub : Int]

\* The rows that the client has handles of.
MosekHeldRows == {heldRows[k] : k \in DOMAIN heldRows}

MosekInv ==
    /\ cols \in Seq(MosekColumn) /\ rows \in Seq(MosekRow) /\ heldRows \in Seq(Int)
    /\ \A r \in DOMAIN rows : r \notin MosekHeldRows => rows[r] = Mosek!AppendedCon
    /\ \A i \in DOMAIN cols : i \notin held => cols[i].coefs = Mosek!Zeros

LEMMA MosekLengths ==
    ASSUME MosekInv
    PROVE  /\ Len(cols) \in Nat /\ DOMAIN cols = 1..Len(cols)
           /\ Len(rows) \in Nat /\ DOMAIN rows = 1..Len(rows)
           /\ Len(heldRows) \in Nat /\ DOMAIN heldRows = 1..Len(heldRows)
           /\ \A i \in DOMAIN cols : cols[i] \in MosekColumn
           /\ \A r \in DOMAIN rows : rows[r] \in MosekRow
<1>1. cols \in Seq(MosekColumn) /\ rows \in Seq(MosekRow) /\ heldRows \in Seq(Int)
  BY DEF MosekInv
<1>2. /\ Len(cols) \in Nat /\ DOMAIN cols = 1..Len(cols)
      /\ Len(rows) \in Nat /\ DOMAIN rows = 1..Len(rows)
      /\ Len(heldRows) \in Nat /\ DOMAIN heldRows = 1..Len(heldRows)
  BY <1>1, LenProperties
<1> QED BY <1>1, <1>2, ElementOfSeq
----------------------------------------------------------------------------
(* Expressions *)

LEMMA SumOfNone == ASSUME NEW t PROVE Mosek!SumAt(t, {}) = 0
BY SumOfNoTerm DEF SumAt, MapThenSumSet, MapThenFoldSet,
                   Mosek!SumAt, Mosek!MapThenSumSet, Mosek!MapThenFoldSet

\* A constraint of the client gives nothing to a column that it does not hold, whether
\* or not its terms are passed as distinct.
LEMMA MosekNothingForOthers ==
    ASSUME NEW lcs \in Mosek!Batches, NEW r \in DOMAIN lcs, NEW i, i \notin held, NEW d \in BOOLEAN
    PROVE  Mosek!Registered(lcs[r].terms, i, d) = 0
<1> DEFINE terms == lcs[r].terms.terms
<1>1. lcs[r].terms \in Mosek!ExpressionsOver(held)
  BY DEF Mosek!Batches, Mosek!BatchesOver, Mosek!ConstraintsOver
<1>2. \A k \in DOMAIN terms : terms[k].var \in held
  BY <1>1 DEF Mosek!ExpressionsOver, Mosek!Expressions
<1>3. {k \in DOMAIN terms : terms[k].var = i} = {}
  BY <1>2
<1> QED BY <1>3, SumOfNone DEF Mosek!Registered, Mosek!LastOf, Mosek!CoefficientOf
----------------------------------------------------------------------------
(* Columns *)

LEMMA MosekBoundsAndParams ==
    ASSUME NEW p \in BoundKinds \cup {Mosek!BinaryParams}
    PROVE  /\ p.obj \in Int /\ p.lb \in Int /\ p.ub \in Int
           /\ Mosek!BoundKey(p.lb, p.ub) \in MosekKeys
           /\ p = [obj |-> p.obj, lb |-> p.lb, ub |-> p.ub]
<1>1. CASE p \in BoundKinds
  BY <1>1, InstanceDataAssumption, SolverDataAssumption DEF Mosek!BoundKey, MosekKeys
<1>2. CASE p = Mosek!BinaryParams
  BY <1>2 DEF Mosek!BinaryParams, Mosek!BoundKey, MosekKeys
<1> QED BY <1>1, <1>2

\* What is on its way to become a variable is a column, and out of every row until its
\* entries are put.
LEMMA MosekStagesTyped ==
    ASSUME NEW p \in BoundKinds \cup {Mosek!BinaryParams}, NEW type \in Mosek!Types,
           NEW e \in [1..Len(rows) -> Int], NEW k \in 1..5, Len(rows) \in Nat
    PROVE  /\ Mosek!Stages(p, type, e)[k] \in MosekColumn
           /\ k < 5 => Mosek!Stages(p, type, e)[k].coefs = Mosek!Zeros
           /\ Mosek!AppendedVar \in MosekColumn /\ Mosek!AppendedVar.coefs = Mosek!Zeros
           /\ \A col \in MosekColumn : col.coefs = Mosek!Zeros =>
                 /\ Mosek!WithBound(col, p) \in MosekColumn /\ Mosek!WithBound(col, p).coefs = Mosek!Zeros
                 /\ [col EXCEPT !.obj = p.obj] \in MosekColumn
                 /\ [col EXCEPT !.obj = p.obj].coefs = Mosek!Zeros
                 /\ [col EXCEPT !.type = type] \in MosekColumn
                 /\ [col EXCEPT !.type = type].coefs = Mosek!Zeros
                 /\ [col EXCEPT !.coefs = e] \in MosekColumn
<1>1. Mosek!Zeros \in [1..Len(rows) -> Int]
  BY DEF Mosek!Zeros
<1>2. Mosek!AppendedVar \in MosekColumn /\ Mosek!AppendedVar.coefs = Mosek!Zeros
  BY <1>1 DEF Mosek!AppendedVar, MosekColumn, Mosek!Types, MosekKeys
<1>3. ASSUME NEW col \in MosekColumn, col.coefs = Mosek!Zeros
      PROVE  /\ Mosek!WithBound(col, p) \in MosekColumn /\ Mosek!WithBound(col, p).coefs = Mosek!Zeros
             /\ [col EXCEPT !.obj = p.obj] \in MosekColumn
             /\ [col EXCEPT !.obj = p.obj].coefs = Mosek!Zeros
             /\ [col EXCEPT !.type = type] \in MosekColumn
             /\ [col EXCEPT !.type = type].coefs = Mosek!Zeros
             /\ [col EXCEPT !.coefs = e] \in MosekColumn
  BY <1>3, MosekBoundsAndParams DEF Mosek!WithBound, MosekColumn
<1> DEFINE bounded == Mosek!WithBound(Mosek!AppendedVar, p)
           priced == [bounded EXCEPT !.obj = p.obj]
           typed == [priced EXCEPT !.type = type]
           filled == [typed EXCEPT !.coefs = e]
<1>4. bounded \in MosekColumn /\ bounded.coefs = Mosek!Zeros
  BY <1>2, <1>3
<1>5. priced \in MosekColumn /\ priced.coefs = Mosek!Zeros
  <2> HIDE DEF bounded
  <2> QED BY <1>3, <1>4
<1>6. typed \in MosekColumn /\ typed.coefs = Mosek!Zeros
  <2> HIDE DEF priced
  <2> QED BY <1>3, <1>5
<1>7. filled \in MosekColumn
  <2> HIDE DEF typed
  <2> QED BY <1>3, <1>6
<1>8. Mosek!Stages(p, type, e) = <<Mosek!AppendedVar, bounded, priced, typed, filled>>
  BY DEF Mosek!Stages
<1> HIDE DEF bounded, priced, typed, filled
<1>9. /\ Mosek!Stages(p, type, e)[k] \in MosekColumn
      /\ k < 5 => Mosek!Stages(p, type, e)[k].coefs = Mosek!Zeros
  <2>1. k = 1 \/ k = 2 \/ k = 3 \/ k = 4 \/ k = 5
    OBVIOUS
  <2> QED BY <2>1, <1>2, <1>4, <1>5, <1>6, <1>7, <1>8
<1> QED BY <1>2, <1>3, <1>9

\* Columns behind those there are, each held or out of every row.
LEMMA MosekColumnsAppended ==
    ASSUME MosekInv, NEW new \in Seq(MosekColumn), cols' = cols \o new,
           rows' = rows, heldRows' = heldRows, held \subseteq held',
           \A k \in 1..Len(new) : Len(cols) + k \notin held' => new[k].coefs = Mosek!Zeros
    PROVE  MosekInv'
<1>1. MosekColumn' = MosekColumn /\ Mosek!Zeros' = Mosek!Zeros /\ MosekHeldRows' = MosekHeldRows
      /\ Mosek!AppendedCon' = Mosek!AppendedCon
  BY DEF MosekColumn, Mosek!Zeros, MosekHeldRows, Mosek!AppendedCon
<1>2. /\ cols' \in Seq(MosekColumn)
      /\ Len(cols') = Len(cols) + Len(new)
      /\ \A i \in 1..(Len(cols) + Len(new)) :
            cols'[i] = IF i <= Len(cols) THEN cols[i] ELSE new[i - Len(cols)]
  BY ConcatProperties DEF MosekInv
<1>3. Len(new) \in Nat /\ DOMAIN cols' = 1..(Len(cols) + Len(new))
  BY <1>2, LenProperties
<1>4. ASSUME NEW i \in DOMAIN cols', i \notin held' PROVE cols'[i].coefs = Mosek!Zeros
  <2>1. CASE i <= Len(cols)
    BY <2>1, <1>2, <1>3, <1>4, MosekLengths DEF MosekInv
  <2>2. CASE i > Len(cols)
    <3>1. i - Len(cols) \in 1..Len(new) /\ i = Len(cols) + (i - Len(cols))
      BY <2>2, <1>3, MosekLengths
    <3>2. cols'[i] = new[i - Len(cols)]
      BY <2>2, <1>2, <1>3, MosekLengths
    <3> QED BY <3>1, <3>2, <1>4
  <2> QED BY <2>1, <2>2, <1>3, MosekLengths
<1> QED BY <1>1, <1>2, <1>4 DEF MosekInv

\* Columns that keep their entries.
LEMMA MosekColumnsEdited ==
    ASSUME MosekInv, rows' = rows, heldRows' = heldRows, held' = held,
           cols' \in [DOMAIN cols -> MosekColumn],
           \A i \in DOMAIN cols : cols'[i].coefs = cols[i].coefs
    PROVE  MosekInv'
<1>1. MosekColumn' = MosekColumn /\ Mosek!Zeros' = Mosek!Zeros /\ MosekHeldRows' = MosekHeldRows
      /\ Mosek!AppendedCon' = Mosek!AppendedCon
  BY DEF MosekColumn, Mosek!Zeros, MosekHeldRows, Mosek!AppendedCon
<1>2. cols' \in Seq(MosekColumn) /\ DOMAIN cols' = DOMAIN cols
  <2>1. cols' \in [1..Len(cols) -> MosekColumn] /\ Len(cols) \in Nat
    BY MosekLengths
  <2> QED BY <2>1, SeqDef
<1> QED BY <1>1, <1>2 DEF MosekInv
----------------------------------------------------------------------------
(* Rows *)

LEMMA MosekBatchesTyped ==
    ASSUME NEW lcs \in Mosek!Batches
    PROVE  /\ Len(lcs) \in Nat /\ DOMAIN lcs = 1..Len(lcs)
           /\ \A r \in DOMAIN lcs : Mosek!BoundsOf(lcs[r]) \in MosekRow
<1>1. PICK n \in 0..MaxRows : /\ lcs = [k \in 1..n |-> lcs[k]]
                             /\ \A r \in 1..n : lcs[r] \in Mosek!ConstraintsOver(held)
  BY DEF Mosek!Batches, Mosek!BatchesOver
<1>2. n \in Nat /\ DOMAIN lcs = 1..n
  <2>1. DOMAIN [k \in 1..n |-> lcs[k]] = 1..n
    OBVIOUS
  <2> QED BY <1>1, <2>1, InstanceBoundsAssumption
<1>3. Len(lcs) = n
  BY <1>1, <1>2
<1>4. ASSUME NEW r \in DOMAIN lcs PROVE Mosek!BoundsOf(lcs[r]) \in MosekRow
  <2>1. lcs[r].sense \in Mosek!Senses /\ lcs[r].rhs \in Int
    BY <1>1, <1>2, InstanceDataAssumption DEF Mosek!ConstraintsOver
  <2> QED BY <2>1 DEF Mosek!BoundsOf, MosekRow, MosekKeys, Mosek!Senses
<1> QED BY <1>2, <1>3, <1>4

\* The entries of a column, with those in n more rows behind them.
LEMMA MosekMoreEntries ==
    ASSUME NEW R \in Nat, NEW c \in [1..R -> Int], NEW n \in Nat, NEW e \in [1..n -> Int]
    PROVE  /\ c \o e \in [1..(R + n) -> Int]
           /\ \A r \in 1..(R + n) : (c \o e)[r] = IF r <= R THEN c[r] ELSE e[r - R]
<1>1. c \in Seq(Int) /\ e \in Seq(Int)
  BY SeqDef
<1>2. Len(c) = R /\ Len(e) = n
  OBVIOUS
<1>3. /\ c \o e \in Seq(Int) /\ Len(c \o e) = R + n
      /\ \A r \in 1..(R + n) : (c \o e)[r] = IF r <= R THEN c[r] ELSE e[r - R]
  BY <1>1, <1>2, ConcatProperties
<1>4. c \o e \in [1..(R + n) -> Int]
  BY <1>3, LenProperties
<1> QED BY <1>3, <1>4

\* Rows behind those there are, each held or as it was appended, that give nothing to a
\* column that is not held.
LEMMA MosekRowsAppended ==
    ASSUME MosekInv, NEW new \in Seq(MosekRow), NEW coef, Mosek!AppendRows(new, coef), held' = held,
           heldRows' \in Seq(Int), MosekHeldRows \subseteq MosekHeldRows',
           \A k \in DOMAIN new : Len(rows) + k \in MosekHeldRows' \/ new[k] = Mosek!AppendedCon,
           \A i \in DOMAIN cols : coef[i] = [k \in DOMAIN new |-> coef[i][k]],
           \A i \in DOMAIN cols, k \in DOMAIN new : i \notin held => coef[i][k] = 0
    PROVE  MosekInv'
<1> DEFINE R == Len(rows)
           N == Len(new)
<1>1. /\ N \in Nat /\ DOMAIN new = 1..N /\ R \in Nat /\ DOMAIN rows = 1..R
      /\ rows \in Seq(MosekRow)
      /\ Len(cols) \in Nat /\ DOMAIN cols = 1..Len(cols)
      /\ \A i \in DOMAIN cols : cols[i] \in MosekColumn
  BY MosekLengths, LenProperties DEF MosekInv
<1>2. /\ rows' = rows \o new
      /\ \A r \in DOMAIN new, i \in DOMAIN cols : coef[i][r] \in Int
      /\ cols' = [i \in DOMAIN cols |-> [cols[i] EXCEPT !.coefs = @ \o coef[i]]]
  BY InstanceDataAssumption DEF Mosek!AppendRows
<1>3. Mosek!AppendedCon' = Mosek!AppendedCon /\ MosekRow' = MosekRow
  BY DEF Mosek!AppendedCon, MosekRow
<1>4. ASSUME NEW i \in DOMAIN cols
      PROVE  /\ cols[i].coefs \in [1..R -> Int] /\ coef[i] \in [1..N -> Int]
             /\ cols'[i] = [cols[i] EXCEPT !.coefs = cols[i].coefs \o coef[i]]
             /\ cols'[i].coefs = cols[i].coefs \o coef[i]
  <2>1. cols[i] \in MosekColumn /\ cols[i].coefs \in [1..R -> Int]
    BY <1>1 DEF MosekColumn
  <2>2. coef[i] \in [1..N -> Int]
    BY <1>1, <1>2
  <2>3. cols'[i] = [cols[i] EXCEPT !.coefs = cols[i].coefs \o coef[i]]
    BY <1>2
  <2>4. cols'[i].coefs = cols[i].coefs \o coef[i]
    BY <2>1, <2>3 DEF MosekColumn
  <2> QED BY <2>1, <2>2, <2>3, <2>4
<1>5. ASSUME NEW i \in DOMAIN cols, i \notin held, NEW r \in 1..N PROVE coef[i][r] = 0
  BY <1>1, <1>5
<1>6. DOMAIN cols' = DOMAIN cols
  BY <1>2
<1>7. /\ rows' \in Seq(MosekRow) /\ Len(rows') = R + N
      /\ \A r \in 1..(R + N) : rows'[r] = IF r <= R THEN rows[r] ELSE new[r - R]
  BY <1>1, <1>2, ConcatProperties
<1> HIDE DEF R, N
<1>8. DOMAIN rows' = 1..(R + N) /\ R + N \in Nat
  BY <1>1, <1>7, LenProperties
<1>9. MosekColumn' = [obj : Int, key : MosekKeys, lb : Int, ub : Int, type : Mosek!Types,
                     coefs : [1..(R + N) -> Int]]
      /\ Mosek!Zeros' = [r \in 1..(R + N) |-> 0]
  BY <1>7 DEF MosekColumn, Mosek!Zeros, MosekKeys, Mosek!Types
<1>10. ASSUME NEW i \in DOMAIN cols PROVE cols'[i] \in MosekColumn'
  <2>1. cols[i].coefs \o coef[i] \in [1..(R + N) -> Int]
    BY <1>1, <1>4, MosekMoreEntries
  <2>2. cols[i] \in MosekColumn
    BY <1>1
  <2> QED BY <1>4, <1>9, <2>1, <2>2 DEF MosekColumn
<1>11. cols' \in Seq(MosekColumn')
  <2>1. cols' \in [1..Len(cols) -> MosekColumn']
    BY <1>1, <1>2, <1>6, <1>10
  <2> QED BY <1>1, <2>1, SeqDef
<1>12. ASSUME NEW r \in DOMAIN rows', r \notin MosekHeldRows' PROVE rows'[r] = Mosek!AppendedCon'
  <2>1. CASE r <= R
    <3>1. r \in DOMAIN rows /\ r \notin MosekHeldRows /\ rows'[r] = rows[r]
      BY <1>1, <1>7, <1>8, <1>12, <2>1
    <3> QED BY <3>1, <1>3 DEF MosekInv
  <2>2. CASE r > R
    <3>1. r - R \in 1..N /\ r = R + (r - R) /\ rows'[r] = new[r - R]
      BY <1>1, <1>7, <1>8, <2>2
    <3>2. R + (r - R) \in MosekHeldRows' \/ new[r - R] = Mosek!AppendedCon
      BY <1>1, <3>1 DEF R
    <3> QED BY <3>1, <3>2, <1>3, <1>12
  <2> QED BY <2>1, <2>2, <1>1, <1>8
<1>13. ASSUME NEW i \in DOMAIN cols', i \notin held' PROVE cols'[i].coefs = Mosek!Zeros'
  <2>1. i \in DOMAIN cols /\ i \notin held /\ cols[i].coefs = Mosek!Zeros
    BY <1>6, <1>13 DEF MosekInv
  <2>2. cols'[i].coefs = Mosek!Zeros \o coef[i] /\ coef[i] \in [1..N -> Int]
        /\ Mosek!Zeros \in [1..R -> Int]
    BY <1>4, <2>1
  <2>3. /\ Mosek!Zeros \o coef[i] \in [1..(R + N) -> Int]
        /\ \A r \in 1..(R + N) :
              (Mosek!Zeros \o coef[i])[r] = IF r <= R THEN Mosek!Zeros[r] ELSE coef[i][r - R]
    BY <1>1, <2>2, MosekMoreEntries
  <2>4. ASSUME NEW r \in 1..(R + N) PROVE (Mosek!Zeros \o coef[i])[r] = 0
    <3>1. CASE r <= R
      <4>1. r \in 1..R
        BY <3>1, <1>1
      <4>2. Mosek!Zeros[r] = 0
        BY <4>1 DEF Mosek!Zeros, R
      <4> QED BY <2>3, <3>1, <4>2
    <3>2. CASE ~(r <= R)
      <4>1. r - R \in 1..N
        BY <3>2, <1>1
      <4> QED BY <2>3, <3>2, <4>1, <1>5, <2>1
    <3> QED BY <3>1, <3>2
  <2> QED BY <2>2, <2>3, <2>4, <1>9
<1> QED BY <1>7, <1>3, <1>11, <1>12, <1>13 DEF MosekInv

\* Rows that get bounds have handles; those that do not are as they were appended.
LEMMA MosekRowsFilled ==
    ASSUME MosekInv, NEW lcs \in Mosek!Batches, NEW d \in BOOLEAN, NEW n \in Int, NEW m \in Int,
           Mosek!Fill(lcs, d, n, m), held' = held,
           \/ m = 0 /\ heldRows' = heldRows
           \/ heldRows' = heldRows \o [r \in DOMAIN lcs |-> Len(rows) + r]
    PROVE  MosekInv'
<1> DEFINE new == [r \in DOMAIN lcs |-> IF r <= m THEN Mosek!BoundsOf(lcs[r]) ELSE Mosek!AppendedCon]
           coef == [i \in DOMAIN cols |->
                       [r \in DOMAIN lcs |-> IF r <= n THEN Mosek!Registered(lcs[r].terms, i, d) ELSE 0]]
           added == [r \in DOMAIN lcs |-> Len(rows) + r]
           N == Len(lcs)
<1>1. N \in Nat /\ DOMAIN lcs = 1..N /\ Len(rows) \in Nat
  BY MosekBatchesTyped, MosekLengths
<1>2. Mosek!AppendedCon \in MosekRow
  BY InstanceDataAssumption DEF Mosek!AppendedCon, MosekRow, MosekKeys
<1>3. new \in [1..N -> MosekRow]
  BY <1>1, <1>2, MosekBatchesTyped
<1>4. new \in Seq(MosekRow) /\ DOMAIN new = 1..N
  BY <1>1, <1>3, SeqDef
<1>5. \A i \in DOMAIN cols : coef[i] = [k \in DOMAIN new |-> coef[i][k]]
  BY <1>1, <1>4
<1>6. ASSUME NEW i \in DOMAIN cols, NEW k \in DOMAIN new, i \notin held PROVE coef[i][k] = 0
  <2>1. Mosek!Registered(lcs[k].terms, i, d) = 0
    BY <1>1, <1>4, <1>6, MosekNothingForOthers
  <2> QED BY <1>1, <1>4, <2>1
<1>7. Mosek!AppendRows(new, coef)
  BY DEF Mosek!Fill
<1>8. /\ added \in Seq(Int) /\ Len(added) = N /\ DOMAIN added = 1..N
      /\ \A k \in 1..N : added[k] = Len(rows) + k
  BY <1>1, SeqDef
<1>9. heldRows \in Seq(Int) /\ Len(heldRows) \in Nat /\ DOMAIN heldRows = 1..Len(heldRows)
  BY MosekLengths DEF MosekInv
<1>10. ASSUME m = 0 PROVE \A k \in DOMAIN new : new[k] = Mosek!AppendedCon
  BY <1>1, <1>4, <1>10
<1> HIDE DEF new, coef, added, N
<1>11. /\ heldRows' \in Seq(Int) /\ MosekHeldRows \subseteq MosekHeldRows'
       /\ \A k \in DOMAIN new : Len(rows) + k \in MosekHeldRows' \/ new[k] = Mosek!AppendedCon
  <2>1. CASE m = 0 /\ heldRows' = heldRows
    BY <2>1, <1>9, <1>10 DEF MosekHeldRows
  <2>2. CASE heldRows' = heldRows \o added
    <3>1. /\ heldRows' \in Seq(Int) /\ Len(heldRows') = Len(heldRows) + N
          /\ \A k \in 1..(Len(heldRows) + N) :
                heldRows'[k] = IF k <= Len(heldRows) THEN heldRows[k]
                               ELSE added[k - Len(heldRows)]
      BY <2>2, <1>8, <1>9, ConcatProperties
    <3>2. DOMAIN heldRows' = 1..(Len(heldRows) + N)
      BY <3>1, LenProperties
    <3>3. ASSUME NEW k \in DOMAIN heldRows PROVE heldRows[k] \in MosekHeldRows'
      <4>1. k \in DOMAIN heldRows' /\ heldRows'[k] = heldRows[k]
        BY <3>1, <3>2, <1>1, <1>9
      <4> QED BY <4>1 DEF MosekHeldRows
    <3>4. ASSUME NEW k \in DOMAIN new PROVE Len(rows) + k \in MosekHeldRows'
      <4>1. /\ Len(heldRows) + k \in DOMAIN heldRows'
            /\ heldRows'[Len(heldRows) + k] = added[(Len(heldRows) + k) - Len(heldRows)]
        <5>1. k \in 1..N
          BY <1>4
        <5>2. /\ Len(heldRows) + k \in 1..(Len(heldRows) + N)
              /\ ~(Len(heldRows) + k <= Len(heldRows))
          BY <5>1, <1>1, <1>9
        <5> QED BY <5>2, <3>1, <3>2
      <4>2. (Len(heldRows) + k) - Len(heldRows) = k /\ added[k] = Len(rows) + k
        BY <1>4, <1>8, <1>9
      <4> QED BY <4>1, <4>2 DEF MosekHeldRows
    <3> QED BY <3>1, <3>3, <3>4 DEF MosekHeldRows
  <2> QED BY <2>1, <2>2 DEF added
<1> QED BY <1>4, <1>5, <1>6, <1>7, <1>11, MosekRowsAppended
----------------------------------------------------------------------------
(* The invariant *)

LEMMA MosekInitIInv == Mosek!Init => MosekInv
<1> SUFFICES ASSUME Mosek!Init PROVE MosekInv
  OBVIOUS
<1> QED BY EmptySeq DEF Mosek!Init, Mosek!InstanceInit, MosekInv, MosekColumn, MosekRow

LEMMA MosekRefusedTyped ==
    ASSUME MosekInv, NEW p \in BoundKinds \cup {Mosek!BinaryParams}, NEW t \in Mosek!Types,
           NEW e \in [1..Len(rows) -> Int], NEW k \in 1..3,
           Mosek!AppendCols(<<Mosek!Stages(p, t, e)[k]>>), rows' = rows, heldRows' = heldRows, held' = held
    PROVE  MosekInv'
<1> DEFINE c == Mosek!Stages(p, t, e)[k]
<1>1. c \in MosekColumn /\ c.coefs = Mosek!Zeros
  BY MosekStagesTyped, MosekLengths
<1>2. cols' = cols \o <<c>>
  BY DEF Mosek!AppendCols
<1> HIDE DEF c
<1>3. <<c>> \in Seq(MosekColumn) /\ Len(<<c>>) = 1 /\ \A j \in 1..1 : <<c>>[j].coefs = Mosek!Zeros
  BY <1>1
<1> QED BY <1>2, <1>3, MosekColumnsAppended

LEMMA MosekCompleteTyped ==
    ASSUME MosekInv, NEW p \in BoundKinds \cup {Mosek!BinaryParams}, NEW t \in Mosek!Types,
           NEW e \in [1..Len(rows) -> Int],
           Mosek!AppendCols(<<Mosek!Complete(p, t, e)>>), rows' = rows, heldRows' = heldRows,
           held' = held \cup {Len(cols) + 1}
    PROVE  MosekInv'
<1> DEFINE c == Mosek!Complete(p, t, e)
<1>1. c \in MosekColumn
  BY MosekStagesTyped, MosekLengths DEF Mosek!Complete
<1>2. cols' = cols \o <<c>>
  BY DEF Mosek!AppendCols
<1> HIDE DEF c
<1>3. <<c>> \in Seq(MosekColumn) /\ Len(<<c>>) = 1
      /\ \A j \in 1..1 : Len(cols) + j \in held'
  BY <1>1, MosekLengths
<1> QED BY <1>2, <1>3, MosekColumnsAppended

\* count columns that are all the same, out of every row.
LEMMA MosekSameTyped ==
    ASSUME MosekInv, NEW c \in MosekColumn, c.coefs = Mosek!Zeros, NEW count \in 1..MaxColumns,
           Mosek!AppendCols([k \in 1..count |-> c]), rows' = rows, heldRows' = heldRows,
           held \subseteq held'
    PROVE  MosekInv'
<1> DEFINE new == [k \in 1..count |-> c]
<1>1. new \in Seq(MosekColumn) /\ Len(new) = count /\ \A j \in 1..count : new[j].coefs = Mosek!Zeros
  BY InstanceBoundsAssumption, SeqDef
<1>2. cols' = cols \o new
  BY DEF Mosek!AppendCols
<1> HIDE DEF new
<1> QED BY <1>1, <1>2, MosekColumnsAppended
\* What AddVariables and its refusal make of appended columns.
LEMMA MosekFreshTyped ==
    ASSUME NEW p \in BoundKinds \cup {Mosek!BinaryParams}, NEW type \in Mosek!Types, Len(rows) \in Nat
    PROVE  /\ Mosek!AppendedVar \in MosekColumn /\ Mosek!AppendedVar.coefs = Mosek!Zeros
           /\ \A col \in MosekColumn : col.coefs = Mosek!Zeros =>
                 /\ Mosek!WithBound(col, p) \in MosekColumn /\ Mosek!WithBound(col, p).coefs = Mosek!Zeros
                 /\ [col EXCEPT !.obj = p.obj] \in MosekColumn
                 /\ [col EXCEPT !.obj = p.obj].coefs = Mosek!Zeros
                 /\ [col EXCEPT !.type = type] \in MosekColumn
                 /\ [col EXCEPT !.type = type].coefs = Mosek!Zeros
<1>1. Mosek!Zeros \in [1..Len(rows) -> Int] /\ 1 \in 1..5
  BY DEF Mosek!Zeros
<1> HIDE DEF Mosek!AppendedVar, Mosek!Zeros, Mosek!WithBound, MosekColumn
<1> QED BY <1>1, MosekStagesTyped

LEMMA MosekNextIInv ==
    ASSUME MosekInv, [Mosek!Next]_(Mosek!mosekVars)
    PROVE  MosekInv'
<1>0. /\ \A c \in Coefs : c \in Int
      /\ \A b \in Bounds : b \in Int
      /\ Len(rows) \in Nat /\ \A i \in DOMAIN cols : cols[i] \in MosekColumn
      /\ Mosek!Zeros \in [1..Len(rows) -> Int]
  BY InstanceDataAssumption, MosekLengths DEF Mosek!Zeros
<1>1. ASSUME NEW x, Mosek!SetObjectiveOffset(x) \/ Mosek!SetDirection(x), UNCHANGED <<held, heldRows>>
      PROVE  MosekInv'
  <2>1. UNCHANGED <<cols, rows, held, heldRows>>
    BY <1>1 DEF Mosek!SetObjectiveOffset, Mosek!SetDirection
  <2> QED BY <2>1 DEF MosekInv, MosekColumn, MosekRow, MosekHeldRows, Mosek!AppendedCon, Mosek!Zeros
<1>2. ASSUME NEW h \in held, NEW c \in Coefs, Mosek!SetObjectiveCoefficient(h, c),
             UNCHANGED <<held, heldRows>>
      PROVE  MosekInv'
  <2>1. cols' = [cols EXCEPT ![h] = [@ EXCEPT !["obj"] = c]] /\ rows' = rows
    BY <1>2 DEF Mosek!SetObjectiveCoefficient, Mosek!Change
  <2>2. \A i \in DOMAIN cols : cols'[i] \in MosekColumn /\ cols'[i].coefs = cols[i].coefs
    BY <2>1, <1>0 DEF MosekColumn
  <2> QED BY <2>1, <2>2, <1>2, MosekColumnsEdited
<1>3. ASSUME NEW e \in Mosek!HeldExprs, Mosek!SetObjective(e) \/ Mosek!AddObjective(e) PROVE MosekInv'
  <2>1. PICK f : Mosek!PutObjective(f) /\ UNCHANGED <<rows, held, heldRows>>
    BY <1>3 DEF Mosek!SetObjective, Mosek!AddObjective
  <2>2. /\ \A i \in DOMAIN cols : f[i] \in Int
        /\ cols' = [i \in DOMAIN cols |-> [cols[i] EXCEPT !.obj = f[i]]]
    BY <2>1, <1>0 DEF Mosek!PutObjective
  <2>3. \A i \in DOMAIN cols : cols'[i] \in MosekColumn /\ cols'[i].coefs = cols[i].coefs
    BY <2>2, <1>0 DEF MosekColumn
  <2> QED BY <2>1, <2>2, <2>3, MosekColumnsEdited
<1>4. ASSUME NEW p \in BoundKinds \cup {Mosek!BinaryParams}, NEW t \in Mosek!Types, Mosek!AddVariable(p, t)
      PROVE  MosekInv'
  BY <1>0, <1>4, MosekCompleteTyped DEF Mosek!AddVariable
<1>5. ASSUME NEW p \in BoundKinds \cup {Mosek!BinaryParams}, NEW t \in Mosek!Types, Mosek!AddVariableRefused(p, t)
      PROVE  MosekInv'
  <2>1. PICK k \in 1..3 : Mosek!AppendCols(<<Mosek!Stages(p, t, Mosek!Zeros)[k]>>)
    BY <1>5 DEF Mosek!AddVariableRefused
  <2> QED BY <2>1, <1>0, <1>5, MosekRefusedTyped DEF Mosek!AddVariableRefused
<1>6. ASSUME NEW n \in 1..MaxColumns, NEW p \in BoundKinds \cup {Mosek!BinaryParams}, NEW t \in Mosek!Types,
             Mosek!AddVariables(n, p, t)
      PROVE  MosekInv'
  <2> DEFINE priced == IF p.obj = 0 THEN Mosek!AppendedVar ELSE [Mosek!AppendedVar EXCEPT !.obj = p.obj]
             c == [Mosek!WithBound(priced, p) EXCEPT !.type = t]
  <2>1. priced \in MosekColumn /\ priced.coefs = Mosek!Zeros
    BY <1>0, MosekFreshTyped
  <2> HIDE DEF priced
  <2>2. Mosek!WithBound(priced, p) \in MosekColumn /\ Mosek!WithBound(priced, p).coefs = Mosek!Zeros
    BY <1>0, <2>1, MosekFreshTyped
  <2>3. c \in MosekColumn /\ c.coefs = Mosek!Zeros
    BY <1>0, <2>2, MosekFreshTyped
  <2>4. Mosek!AppendCols([k \in 1..n |-> c])
    BY <1>6 DEF Mosek!AddVariables, priced
  <2> HIDE DEF c
  <2> QED BY <2>3, <2>4, <1>6, MosekSameTyped DEF Mosek!AddVariables
<1>7. ASSUME NEW n \in 1..MaxColumns, NEW p \in BoundKinds \cup {Mosek!BinaryParams},
             Mosek!AddIntegerVariablesRefused(n, p)
      PROVE  MosekInv'
  <2> DEFINE appended == Mosek!AppendedVar
             priced == [appended EXCEPT !.obj = p.obj]
  <2>1. PICK c \in {appended, priced, Mosek!WithBound(priced, p)} : Mosek!AppendCols([k \in 1..n |-> c])
    BY <1>7 DEF Mosek!AddIntegerVariablesRefused
  <2>a. "continuous" \in Mosek!Types
    BY DEF Mosek!Types
  <2>2. appended \in MosekColumn /\ appended.coefs = Mosek!Zeros
        /\ priced \in MosekColumn /\ priced.coefs = Mosek!Zeros
    BY <1>0, <2>a, MosekFreshTyped
  <2>3. Mosek!WithBound(priced, p) \in MosekColumn /\ Mosek!WithBound(priced, p).coefs = Mosek!Zeros
    <3> HIDE DEF priced
    <3> QED BY <1>0, <2>a, <2>2, MosekFreshTyped
  <2> HIDE DEF priced, appended
  <2>4. c \in MosekColumn /\ c.coefs = Mosek!Zeros
    BY <2>1, <2>2, <2>3
  <2> QED BY <2>1, <2>4, <1>7, MosekSameTyped DEF Mosek!AddIntegerVariablesRefused
<1>8. ASSUME NEW p \in BoundKinds, NEW e \in Mosek!Entries, Mosek!AddColumn(p, e) \/ Mosek!AddColumnRefused(p, e)
      PROVE  MosekInv'
  <2>1. e \in [1..Len(rows) -> Int] /\ "continuous" \in Mosek!Types
    BY <1>0 DEF Mosek!Entries, Mosek!Types
  <2>2. CASE Mosek!AddColumn(p, e)
    BY <2>1, <2>2, MosekCompleteTyped DEF Mosek!AddColumn
  <2>3. CASE Mosek!AddColumnRefused(p, e)
    <3>1. PICK k \in 1..3 : Mosek!AppendCols(<<Mosek!Stages(p, "continuous", e)[k]>>)
      BY <2>3 DEF Mosek!AddColumnRefused
    <3> QED BY <2>1, <2>3, <3>1, MosekRefusedTyped DEF Mosek!AddColumnRefused
  <2> QED BY <1>8, <2>2, <2>3
<1>9. ASSUME NEW h \in held, NEW b \in Bounds,
             Mosek!SetVariableLowerBound(h, b) \/ Mosek!SetVariableUpperBound(h, b)
      PROVE  MosekInv'
  <2>1. ASSUME NEW lb, NEW ub, Mosek!ChangeBounds(h, lb, ub), UNCHANGED <<rows, held, heldRows>>,
               h \in DOMAIN cols => lb \in Int /\ ub \in Int
        PROVE  MosekInv'
    <3>1. h \in DOMAIN cols => Mosek!BoundKey(lb, ub) \in MosekKeys
      BY <2>1 DEF Mosek!BoundKey, MosekKeys
    <3>2. \A i \in DOMAIN cols : cols'[i] \in MosekColumn /\ cols'[i].coefs = cols[i].coefs
      BY <2>1, <3>1, <1>0 DEF Mosek!ChangeBounds, MosekColumn
    <3>3. DOMAIN cols' = DOMAIN cols /\ cols' = [i \in DOMAIN cols |-> cols'[i]]
      BY <2>1 DEF Mosek!ChangeBounds
    <3> QED BY <2>1, <3>2, <3>3, MosekColumnsEdited
  <2>2. h \in DOMAIN cols => cols[h].lb \in Int /\ cols[h].ub \in Int
    BY <1>0 DEF MosekColumn
  <2>3. CASE Mosek!SetVariableLowerBound(h, b)
    BY <1>0, <2>1, <2>2, <2>3 DEF Mosek!SetVariableLowerBound
  <2>4. CASE Mosek!SetVariableUpperBound(h, b)
    BY <1>0, <2>1, <2>2, <2>4 DEF Mosek!SetVariableUpperBound
  <2> QED BY <1>9, <2>3, <2>4
<1>10. ASSUME NEW h \in held, NEW t \in Mosek!Types, Mosek!SetType(h, t) PROVE MosekInv'
  <2>1. cols' = [cols EXCEPT ![h] = [@ EXCEPT !["type"] = t]]
        /\ UNCHANGED <<rows, held, heldRows>>
    BY <1>10 DEF Mosek!SetType, Mosek!Change
  <2>2. \A i \in DOMAIN cols : cols'[i] \in MosekColumn /\ cols'[i].coefs = cols[i].coefs
    BY <2>1, <1>0 DEF MosekColumn
  <2> QED BY <2>1, <2>2, MosekColumnsEdited
<1>11. ASSUME NEW h \in held, Mosek!SetBinary(h) PROVE MosekInv'
  <2>1. cols' = [cols EXCEPT ![h] = Mosek!WithBound([@ EXCEPT !.type = "integer"], Mosek!BinaryParams)]
        /\ UNCHANGED <<rows, held, heldRows>>
    BY <1>11 DEF Mosek!SetBinary
  <2>2. Mosek!BinaryParams.lb \in Int /\ Mosek!BinaryParams.ub \in Int
        /\ Mosek!BoundKey(Mosek!BinaryParams.lb, Mosek!BinaryParams.ub) \in MosekKeys
    BY MosekBoundsAndParams
  <2>3. \A i \in DOMAIN cols : cols'[i] \in MosekColumn /\ cols'[i].coefs = cols[i].coefs
    BY <2>1, <2>2, <1>0 DEF MosekColumn, Mosek!WithBound, Mosek!Types
  <2> QED BY <2>1, <2>3, MosekColumnsEdited
<1>12. ASSUME NEW lcs \in Mosek!Batches, NEW d \in BOOLEAN,
              Mosek!AddConstraints(lcs, d) \/ Mosek!AddConstraintsRefused(lcs, d)
       PROVE  MosekInv'
  <2>1. Len(lcs) \in Int /\ 0 \in Int
    BY MosekBatchesTyped
  <2>2. CASE Mosek!AddConstraints(lcs, d)
    BY <2>1, <2>2, MosekRowsFilled DEF Mosek!AddConstraints
  <2>3. CASE Mosek!AddConstraintsRefused(lcs, d)
    BY <2>1, <2>3, MosekRowsFilled DEF Mosek!AddConstraintsRefused
  <2> QED BY <1>12, <2>2, <2>3
<1>13. CASE UNCHANGED Mosek!mosekVars
  BY <1>13 DEF Mosek!mosekVars, Mosek!vars, Mosek!instance, MosekInv, MosekColumn, MosekRow, MosekHeldRows, Mosek!AppendedCon, Mosek!Zeros
<1> QED BY <1>1, <1>2, <1>3, <1>4, <1>5, <1>6, <1>7, <1>8, <1>9, <1>10, <1>11, <1>12, <1>13
        DEF Mosek!Next

\* Whatever is left behind by calls that threw in the middle constrains nothing: a row
\* of no handle is free, and a column of no handle is in no row, so that the problem
\* that MOSEK solves is the one of the handles that the client has.
THEOREM RemnantsStayNeutral == Spec => []MosekRemnantsConstrainNothing
<1> DEFINE Inv == solver = "mosek" => MosekInv
<1>1. Init => Inv
  BY MosekInitIInv DEF Init
<1>2. Inv /\ [Next]_all => Inv'
  <2> SUFFICES ASSUME Inv, [Next]_all, solver' = "mosek" PROVE MosekInv'
    OBVIOUS
  <2>1. solver = "mosek" /\ MosekInv
    BY DEF Next, all
  <2>2. [Mosek!Next]_(Mosek!mosekVars)
    BY <2>1 DEF Next, all, vars, instance, lists, Mosek!mosekVars, Mosek!vars, Mosek!instance
  <2> QED BY <2>1, <2>2, MosekNextIInv
<1>3. Inv => MosekRemnantsConstrainNothing
  <2> SUFFICES ASSUME Inv, solver = "mosek" PROVE Mosek!RemnantsConstrainNothing
    BY DEF MosekRemnantsConstrainNothing
  <2>0. MosekInv
    OBVIOUS
  <2>1. ASSUME NEW r \in DOMAIN rows, \A k \in DOMAIN heldRows : heldRows[k] # r
        PROVE  Mosek!Lower(rows[r]) = -Infinity /\ Mosek!Upper(rows[r]) = Infinity
    <3>1. rows[r] = Mosek!AppendedCon
      BY <2>0, <2>1 DEF MosekInv, MosekHeldRows
    <3> QED BY <3>1 DEF Mosek!AppendedCon, Mosek!Lower, Mosek!Upper
  <2>2. ASSUME NEW i \in DOMAIN cols \ held, NEW r \in DOMAIN rows PROVE cols[i].coefs[r] = 0
    <3>1. cols[i].coefs = Mosek!Zeros /\ r \in 1..Len(rows)
      BY <2>0, <2>2, MosekLengths DEF MosekInv
    <3> QED BY <3>1 DEF Mosek!Zeros
  <2> QED BY <2>1, <2>2 DEF Mosek!RemnantsConstrainNothing
<1> QED BY <1>1, <1>2, <1>3, PTL DEF Spec
----------------------------------------------------------------------------
(* COPT.  What the client sees of a column depends on that column alone,   *)
(* so that a call keeps the promise when the columns and rows that it      *)
(* makes or changes look as they should.                                   *)

CoptColumn == [obj : Int, lb : Int, ub : Int, type : {"continuous", "integer", "binary"},
               coefs : [1..Len(rows) -> Int]]
CoptRow == [sense : {"L", "E", "G"}, rhs : Int]
CoptInv == cols \in Seq(CoptColumn) /\ rows \in Seq(CoptRow)

\* What the client sees.
CoptView(c) == [obj |-> c.obj, lb |-> c.lb, ub |-> c.ub, type |-> Copt!TypeOf(c.type), coefs |-> c.coefs]
CoptVariables == [h \in DOMAIN cols |-> Copt!VariableOf(h)]
CoptConstraint(row) == [sense |-> Copt!SenseOf(row.sense), rhs |-> row.rhs]
CoptConstraints == [r \in DOMAIN rows |-> [rows[r] EXCEPT !.sense = Copt!SenseOf(@)]]

\* The columns and rows, and what is seen of them.
CoptSeen ==
    /\ Len(cols) \in Nat /\ DOMAIN cols = 1..Len(cols)
    /\ Len(rows) \in Nat /\ DOMAIN rows = 1..Len(rows)
    /\ \A i \in DOMAIN cols : cols[i] \in CoptColumn
    /\ \A r \in DOMAIN rows : rows[r] \in CoptRow
    /\ CoptVariables = [h \in DOMAIN cols |-> CoptView(cols[h])]
    /\ CoptConstraints = [r \in 1..Len(rows) |-> CoptConstraint(rows[r])]
    /\ Len(CoptConstraints) = Len(rows)

LEMMA CoptRead == CoptInv => CoptSeen
<1> SUFFICES ASSUME CoptInv PROVE CoptSeen
  OBVIOUS
<1>1. cols \in Seq(CoptColumn) /\ rows \in Seq(CoptRow)
  BY DEF CoptInv
<1>2. /\ Len(cols) \in Nat /\ DOMAIN cols = 1..Len(cols)
      /\ Len(rows) \in Nat /\ DOMAIN rows = 1..Len(rows)
      /\ \A i \in DOMAIN cols : cols[i] \in CoptColumn
      /\ \A r \in DOMAIN rows : rows[r] \in CoptRow
  BY <1>1, LenProperties, ElementOfSeq
<1>3. \A h \in DOMAIN cols : Copt!VariableOf(h) = CoptView(cols[h])
  BY <1>2 DEF CoptColumn, Copt!VariableOf, CoptView
<1>4. \A r \in DOMAIN rows : [rows[r] EXCEPT !.sense = Copt!SenseOf(@)] = CoptConstraint(rows[r])
  BY <1>2 DEF CoptRow, CoptConstraint
<1>5. CoptConstraints = [r \in 1..Len(rows) |-> CoptConstraint(rows[r])]
  BY <1>2, <1>4 DEF CoptConstraints
<1>6. Len(CoptConstraints) = Len(rows)
  BY <1>5, <1>2, ConcatIs
<1> QED BY <1>2, <1>3, <1>5, <1>6 DEF CoptVariables, CoptSeen

\* New columns, all alike.
LEMMA CoptAppended ==
    ASSUME CoptInv, NEW n \in Nat, NEW c \in CoptColumn, NEW new \in [1..n -> {c}],
           Copt!AppendCols(new), rows' = rows,
           NEW H, H = (Len(cols) + 1)..(Len(cols) + n)
    PROVE  /\ CoptInv' /\ Len(cols) + n <= MaxColumns /\ CoptConstraints' = CoptConstraints
           /\ Copt!Promise!Linear!Add(H, CoptView(c))
<1>1. /\ Len(cols) \in Nat /\ DOMAIN cols = 1..Len(cols)
      /\ \A i \in DOMAIN cols : cols[i] \in CoptColumn
  BY CoptRead DEF CoptSeen
<1>2. cols = [i \in 1..Len(cols) |-> cols[i]] /\ new = [k \in 1..n |-> new[k]]
  BY <1>1 DEF CoptInv
<1>3. cols' = cols \o new /\ Len(cols) + Len(new) <= MaxColumns
  BY DEF Copt!AppendCols
<1>4. \A i \in 1..(Len(cols) + n) : ~(i <= Len(cols)) => new[i - Len(cols)] = c
  BY <1>1
<1>5. /\ Len(new) = n
      /\ cols' = [i \in 1..(Len(cols) + n) |-> IF i <= Len(cols) THEN cols[i] ELSE new[i - Len(cols)]]
  <2> QED BY <1>1, <1>2, <1>3, ConcatIs
<1>6. /\ DOMAIN cols' = DOMAIN cols \cup H /\ H \cap DOMAIN cols = {}
      /\ \A i \in DOMAIN cols \cup H : cols'[i] = IF i \in H THEN c ELSE cols[i]
  <2> QED BY <1>1, <1>4, <1>5
<1>7. CoptInv'
  <2>1. cols' \in [1..(Len(cols) + n) -> CoptColumn]
    BY <1>1, <1>4, <1>5
  <2>2. cols' \in Seq(CoptColumn)
    BY <1>1, <2>1, SeqDef
  <2> QED BY <2>2 DEF CoptInv, CoptColumn, CoptRow
<1>8. CoptSeen'
  BY <1>7, CoptRead, PTL
<1>9. CoptVariables' = [h \in DOMAIN cols \cup H |-> IF h \in H THEN CoptView(c) ELSE CoptVariables[h]]
  BY <1>6, <1>8, CoptRead DEF CoptSeen
<1>10. CoptConstraints' = CoptConstraints
  BY DEF CoptConstraints
<1>11. Copt!Promise!Linear!Add(H, CoptView(c))
  BY <1>6, <1>9, <1>10 DEF Copt!Promise!Linear!Add, Copt!Promise!Linear!Held, CoptVariables, CoptConstraints
<1> QED BY <1>3, <1>5, <1>7, <1>10, <1>11

\* What a new variable is made with.
CoptParams(p, type) ==
    \/ p \in Params /\ type \in Copt!Types
    \/ p = Copt!BinaryParams /\ type = "binary"

\* COPT gets the bounds of a binary variable within 0..1, which they are.
LEMMA CoptNewColumn ==
    ASSUME CoptInv, NEW p, NEW type, CoptParams(p, type),
           NEW e \in [1..Len(rows) -> Coefs]
    PROVE  /\ Copt!AddCol(p, type, e) \in CoptColumn
           /\ CoptView(Copt!AddCol(p, type, e)) = Copt!Promise!Linear!NewVariable(Copt!Typed(p, type), e)
<1>1. /\ p.obj \in Int /\ p.lb \in Int /\ p.ub \in Int
      /\ type \in {"continuous", "integer", "binary"}
      /\ type = "binary" => p.lb = 0 /\ p.ub = 1
  <2>1. CASE p \in Params /\ type \in Copt!Types
    BY <2>1, InstanceDataAssumption DEF Copt!Types
  <2>2. CASE p = Copt!BinaryParams /\ type = "binary"
    BY <2>2 DEF Copt!BinaryParams
  <2> QED BY <2>1, <2>2 DEF CoptParams
<1>2. e \in [1..Len(rows) -> Int]
  BY InstanceDataAssumption
<1>3. Copt!AddCol(p, type, e) = [obj |-> p.obj, lb |-> p.lb, ub |-> p.ub, type |-> type, coefs |-> e]
  <2>1. CASE type = "binary"
    <3>1. Copt!Within01(type, p.lb, p.ub) = <<0, 1>>
      BY <1>1, <2>1 DEF Copt!Within01
    <3> QED BY <1>1, <2>1, <3>1 DEF Copt!AddCol
  <2>2. CASE type # "binary"
    BY <2>2 DEF Copt!AddCol, Copt!Within01
  <2> QED BY <2>1, <2>2
<1> QED BY <1>1, <1>2, <1>3 DEF CoptColumn, CoptView, Copt!Promise!Linear!NewVariable, Copt!Typed

CoptParameters == {Copt!Typed(p, t) : p \in Params, t \in Copt!Types} \cup {Copt!Typed(Copt!BinaryParams, "binary")}

\* The calls of LinearModel that a COPT model takes.
LEMMA CoptLinearCalls ==
    ASSUME offset' = offset, maximize' = maximize
    PROVE  /\ \A h \in 1..MaxColumns, q \in CoptParameters :
                 Copt!Promise!Linear!AddVariable(h, q) => Copt!Promise!Next
           /\ \A first, last \in 1..MaxColumns, q \in CoptParameters :
                 first <= last /\ Copt!Promise!Linear!AddVariables(first, last - first + 1, q) => Copt!Promise!Next
           /\ \A h \in 1..MaxColumns, q \in CoptParameters :
                 /\ call'[1] = "add_column" /\ call'[4] \in [1..Len(CoptConstraints) -> Coefs]
                 /\ Copt!Promise!Linear!AddColumn(h, q, call'[4])
                 => Copt!Promise!Next
           /\ \A h \in Copt!Promise!Held, c \in Coefs :
                 Copt!Promise!Linear!SetObjectiveCoefficient(h, c) => Copt!Promise!Next
           /\ \A h \in Copt!Promise!Held, b \in Bounds :
                 Copt!Promise!Linear!SetVariableLowerBound(h, b) => Copt!Promise!Next
           /\ \A h \in Copt!Promise!Held, b \in Bounds :
                 Copt!Promise!Linear!SetVariableUpperBound(h, b) => Copt!Promise!Next
           /\ /\ call'[1] = "add_constraints" /\ Copt!Promise!Linear!AddConstraints(call'[2])
              /\ \A r \in DOMAIN call'[2] : call'[2][r] \in Copt!Promise!Linear!Rows
              => Copt!Promise!Next
<1>1. ASSUME NEW h \in 1..MaxColumns, NEW q \in CoptParameters, Copt!Promise!Linear!AddVariable(h, q)
      PROVE  Copt!Promise!LinearCall
  BY <1>1 DEF Copt!Promise!LinearCall, CoptParameters
<1>2. ASSUME NEW first \in 1..MaxColumns, NEW last \in 1..MaxColumns, NEW q \in CoptParameters,
             first <= last, Copt!Promise!Linear!AddVariables(first, last - first + 1, q)
      PROVE  Copt!Promise!LinearCall
  BY <1>2 DEF Copt!Promise!LinearCall, CoptParameters
<1>3. ASSUME NEW h \in 1..MaxColumns, NEW q \in CoptParameters, call'[1] = "add_column",
             call'[4] \in [1..Len(CoptConstraints) -> Coefs],
             Copt!Promise!Linear!AddColumn(h, q, call'[4])
      PROVE  Copt!Promise!LinearCall
  BY <1>3 DEF Copt!Promise!LinearCall, CoptParameters, CoptConstraints
<1>4. ASSUME NEW h \in Copt!Promise!Held, NEW c \in Coefs, Copt!Promise!Linear!SetObjectiveCoefficient(h, c)
      PROVE  Copt!Promise!LinearCall
  BY <1>4 DEF Copt!Promise!LinearCall
<1>5. ASSUME NEW h \in Copt!Promise!Held, NEW b \in Bounds,
             \/ Copt!Promise!Linear!SetVariableLowerBound(h, b)
             \/ Copt!Promise!Linear!SetVariableUpperBound(h, b)
      PROVE  Copt!Promise!LinearCall
  BY <1>5 DEF Copt!Promise!LinearCall
<1>6. ASSUME call'[1] = "add_constraints", Copt!Promise!Linear!AddConstraints(call'[2]),
             \A r \in DOMAIN call'[2] : call'[2][r] \in Copt!Promise!Linear!Rows
      PROVE  Copt!Promise!LinearCall
  BY <1>6 DEF Copt!Promise!LinearCall
<1>7. Copt!Promise!LinearCall => Copt!Promise!Next
  BY DEF Copt!Promise!Next
<1> HIDE DEF CoptParameters
<1> QED BY <1>1, <1>2, <1>3, <1>4, <1>5, <1>6, <1>7

\* The calls that make variables.
LEMMA CoptAdds ==
    ASSUME CoptInv, NEW p, NEW type, CoptParams(p, type),
           NEW e \in [1..Len(rows) -> Coefs], NEW n \in Nat \ {0},
           NEW new, Copies(new, n, Copt!AddCol(p, type, e)), Copt!AppendCols(new), rows' = rows,
           UNCHANGED <<offset, maximize>>,
           \/ /\ n = 1 /\ call' = <<"add_column", Len(cols) + 1, Copt!Typed(p, type), e>>
           \/ /\ n = 1 /\ e = Copt!Zeros /\ call' = <<"add_variable", Len(cols) + 1, Copt!Typed(p, type)>>
           \/ /\ e = Copt!Zeros /\ call' = <<"add_variables", Len(cols) + 1, n, Copt!Typed(p, type)>>
    PROVE  CoptInv' /\ Copt!Promise!Next
<1> DEFINE H == (Len(cols) + 1)..(Len(cols) + n)
           c == Copt!AddCol(p, type, e)
           q == Copt!Typed(p, type)
           first == Len(cols) + 1
           last == Len(cols) + n
<1>1. c \in CoptColumn /\ CoptView(c) = Copt!Promise!Linear!NewVariable(q, e)
  BY CoptNewColumn
<1>2. CoptInv' /\ Len(cols) + n <= MaxColumns /\ Copt!Promise!Linear!Add(H, CoptView(c))
  <2>1. n \in Nat /\ new \in [1..n -> {c}]
    BY DEF Copies
  <2>2. H = (Len(cols) + 1)..(Len(cols) + n)
    OBVIOUS
  <2> HIDE DEF c, H
  <2> QED BY <1>1, <2>1, <2>2, CoptAppended
<1>3. q \in CoptParameters
  BY DEF CoptParams, CoptParameters
<1>4. Len(cols) \in Nat /\ MaxColumns \in Nat
  BY CoptRead, InstanceBoundsAssumption DEF CoptSeen
<1>5. first \in 1..MaxColumns /\ last \in 1..MaxColumns /\ first <= last /\ n = last - first + 1
      /\ H = first..(first + n - 1) /\ (n = 1 => H = {first})
  BY <1>2, <1>4
<1>6. Copt!Promise!Linear!Zeros = Copt!Zeros
  BY CoptRead DEF CoptSeen, Copt!Promise!Linear!Zeros, CoptConstraints, Copt!Zeros
<1>7. Copt!Promise!Linear!Add(H, Copt!Promise!Linear!NewVariable(q, e))
  BY <1>1, <1>2
<1> HIDE DEF H, c, q, first, last
<1>8. CASE n = 1 /\ call' = <<"add_column", first, q, e>>
  <2>1. Copt!Promise!Linear!AddColumn(first, q, e)
    BY <1>5, <1>7, <1>8 DEF Copt!Promise!Linear!AddColumn
  <2>2. call'[1] = "add_column" /\ call'[4] = e
    BY <1>8
  <2>3. call'[4] \in [1..Len(CoptConstraints) -> Coefs]
    BY <2>2, CoptRead DEF CoptSeen
  <2>4. Copt!Promise!Linear!AddColumn(first, q, call'[4])
    BY <2>1, <2>2
  <2> QED BY <1>2, <1>3, <1>5, <2>2, <2>3, <2>4, CoptLinearCalls
<1>9. CASE n = 1 /\ e = Copt!Zeros /\ call' = <<"add_variable", first, q>>
  <2>1. Copt!Promise!Linear!AddVariable(first, q)
    BY <1>5, <1>6, <1>7, <1>9 DEF Copt!Promise!Linear!AddVariable
  <2> QED BY <1>2, <1>3, <1>5, <2>1, CoptLinearCalls
<1>10. CASE e = Copt!Zeros /\ call' = <<"add_variables", first, n, q>>
  <2>1. Copt!Promise!Linear!AddVariables(first, last - first + 1, q)
    BY <1>5, <1>6, <1>7, <1>10 DEF Copt!Promise!Linear!AddVariables
  <2> QED BY <1>2, <1>3, <1>5, <2>1, CoptLinearCalls
<1> QED BY <1>8, <1>9, <1>10 DEF first, q

\* One column that changes.
LEMMA CoptEdited ==
    ASSUME CoptInv, NEW h \in DOMAIN cols, NEW c \in CoptColumn, cols' = [cols EXCEPT ![h] = c], rows' = rows
    PROVE  /\ CoptInv' /\ CoptConstraints' = CoptConstraints
           /\ CoptVariables' = [CoptVariables EXCEPT ![h] = CoptView(c)]
<1>1. CoptSeen
  BY CoptRead
<1>2. CoptInv'
  <2>1. cols' \in [1..Len(cols) -> CoptColumn]
    BY <1>1 DEF CoptSeen
  <2>2. cols' \in Seq(CoptColumn)
    BY <1>1, <2>1, SeqDef DEF CoptSeen
  <2> QED BY <2>2 DEF CoptInv, CoptColumn, CoptRow
<1>3. CoptSeen'
  BY <1>2, CoptRead, PTL
<1>4. CoptVariables' = [CoptVariables EXCEPT ![h] = CoptView(c)]
  BY <1>1, <1>3 DEF CoptSeen
<1> QED BY <1>2, <1>4 DEF CoptConstraints

\* The calls that change one value of a variable.
LEMMA CoptChanges ==
    ASSUME CoptInv, NEW h \in DOMAIN cols, UNCHANGED <<rows, offset, maximize>>
    PROVE  /\ \A c \in Coefs : Copt!Change(h, "obj", c) /\ call' = <<"set_objective_coefficient", h, c>>
                                  => CoptInv' /\ Copt!Promise!Next
           /\ \A b \in Bounds : Copt!Change(h, "lb", b) /\ call' = <<"set_variable_lower_bound", h, b>>
                                   => CoptInv' /\ Copt!Promise!Next
           /\ \A b \in Bounds : Copt!Change(h, "ub", b) /\ call' = <<"set_variable_upper_bound", h, b>>
                                   => CoptInv' /\ Copt!Promise!Next
           /\ \A t \in Copt!Types : Copt!Change(h, "type", t) /\ call' = <<"set_type", h, t>>
                                       => CoptInv' /\ Copt!Promise!Next
<1>1. cols[h] \in CoptColumn /\ CoptVariables[h] = CoptView(cols[h]) /\ h \in Copt!Promise!Held
  BY CoptRead DEF CoptSeen, Copt!Promise!Held
<1>2. ASSUME NEW c \in Coefs, Copt!Change(h, "obj", c), call' = <<"set_objective_coefficient", h, c>>
      PROVE  CoptInv' /\ Copt!Promise!Next
  <2> DEFINE col == [obj |-> c, lb |-> cols[h].lb, ub |-> cols[h].ub, type |-> cols[h].type, coefs |-> cols[h].coefs]
  <2>0. col = [cols[h] EXCEPT !.obj = c] /\ col \in CoptColumn
    BY <1>1, InstanceDataAssumption DEF CoptColumn
  <2>1. /\ col \in CoptColumn
        /\ cols' = [cols EXCEPT ![h] = col]
        /\ CoptView(col) = [CoptVariables[h] EXCEPT !.obj = c]
    <3>1. cols' = [cols EXCEPT ![h] = col]
      <4>1. cols' = [cols EXCEPT ![h] = [cols[h] EXCEPT !.obj = c]]
        BY <1>2 DEF Copt!Change
      <4> HIDE DEF col
      <4> QED BY <2>0, <4>1
    <3>2. CoptView(col) = [CoptView(cols[h]) EXCEPT !.obj = c]
      BY DEF CoptView
    <3> HIDE DEF col
    <3> QED BY <1>1, <2>0, <3>1, <3>2
  <2> HIDE DEF col
  <2>2. /\ CoptInv' /\ CoptConstraints' = CoptConstraints
        /\ CoptVariables' = [CoptVariables EXCEPT ![h] = CoptView(col)]
    BY <2>1, CoptEdited
  <2>3. Copt!Promise!Linear!SetObjectiveCoefficient(h, c)
    BY <1>2, <2>1, <2>2 DEF Copt!Promise!Linear!SetObjectiveCoefficient, CoptVariables, CoptConstraints
  <2> QED BY <1>1, <2>2, <2>3, CoptLinearCalls
<1>3. ASSUME NEW b \in Bounds, Copt!Change(h, "lb", b), call' = <<"set_variable_lower_bound", h, b>>
      PROVE  CoptInv' /\ Copt!Promise!Next
  <2> DEFINE col == [obj |-> cols[h].obj, lb |-> b, ub |-> cols[h].ub, type |-> cols[h].type, coefs |-> cols[h].coefs]
  <2>0. col = [cols[h] EXCEPT !.lb = b] /\ col \in CoptColumn
    BY <1>1, InstanceDataAssumption DEF CoptColumn
  <2>1. /\ col \in CoptColumn
        /\ cols' = [cols EXCEPT ![h] = col]
        /\ CoptView(col) = [CoptVariables[h] EXCEPT !.lb = b]
    <3>1. cols' = [cols EXCEPT ![h] = col]
      <4>1. cols' = [cols EXCEPT ![h] = [cols[h] EXCEPT !.lb = b]]
        BY <1>3 DEF Copt!Change
      <4> HIDE DEF col
      <4> QED BY <2>0, <4>1
    <3>2. CoptView(col) = [CoptView(cols[h]) EXCEPT !.lb = b]
      BY DEF CoptView
    <3> HIDE DEF col
    <3> QED BY <1>1, <2>0, <3>1, <3>2
  <2> HIDE DEF col
  <2>2. /\ CoptInv' /\ CoptConstraints' = CoptConstraints
        /\ CoptVariables' = [CoptVariables EXCEPT ![h] = CoptView(col)]
    BY <2>1, CoptEdited
  <2>3. Copt!Promise!Linear!SetVariableLowerBound(h, b)
    BY <1>3, <2>1, <2>2 DEF Copt!Promise!Linear!SetVariableLowerBound, CoptVariables, CoptConstraints
  <2> QED BY <1>1, <2>2, <2>3, CoptLinearCalls
<1>4. ASSUME NEW b \in Bounds, Copt!Change(h, "ub", b), call' = <<"set_variable_upper_bound", h, b>>
      PROVE  CoptInv' /\ Copt!Promise!Next
  <2> DEFINE col == [obj |-> cols[h].obj, lb |-> cols[h].lb, ub |-> b, type |-> cols[h].type, coefs |-> cols[h].coefs]
  <2>0. col = [cols[h] EXCEPT !.ub = b] /\ col \in CoptColumn
    BY <1>1, InstanceDataAssumption DEF CoptColumn
  <2>1. /\ col \in CoptColumn
        /\ cols' = [cols EXCEPT ![h] = col]
        /\ CoptView(col) = [CoptVariables[h] EXCEPT !.ub = b]
    <3>1. cols' = [cols EXCEPT ![h] = col]
      <4>1. cols' = [cols EXCEPT ![h] = [cols[h] EXCEPT !.ub = b]]
        BY <1>4 DEF Copt!Change
      <4> HIDE DEF col
      <4> QED BY <2>0, <4>1
    <3>2. CoptView(col) = [CoptView(cols[h]) EXCEPT !.ub = b]
      BY DEF CoptView
    <3> HIDE DEF col
    <3> QED BY <1>1, <2>0, <3>1, <3>2
  <2> HIDE DEF col
  <2>2. /\ CoptInv' /\ CoptConstraints' = CoptConstraints
        /\ CoptVariables' = [CoptVariables EXCEPT ![h] = CoptView(col)]
    BY <2>1, CoptEdited
  <2>3. Copt!Promise!Linear!SetVariableUpperBound(h, b)
    BY <1>4, <2>1, <2>2 DEF Copt!Promise!Linear!SetVariableUpperBound, CoptVariables, CoptConstraints
  <2> QED BY <1>1, <2>2, <2>3, CoptLinearCalls
<1>5. ASSUME NEW t \in Copt!Types, Copt!Change(h, "type", t), call' = <<"set_type", h, t>>
      PROVE  CoptInv' /\ Copt!Promise!Next
  <2> DEFINE col == [obj |-> cols[h].obj, lb |-> cols[h].lb, ub |-> cols[h].ub, type |-> t, coefs |-> cols[h].coefs]
  <2>0. col = [cols[h] EXCEPT !.type = t] /\ col \in CoptColumn
    BY <1>1 DEF CoptColumn, Copt!Types
  <2>1. /\ col \in CoptColumn
        /\ cols' = [cols EXCEPT ![h] = col]
        /\ CoptView(col) = [CoptVariables[h] EXCEPT !.type = t]
    <3>1. cols' = [cols EXCEPT ![h] = col]
      <4>1. cols' = [cols EXCEPT ![h] = [cols[h] EXCEPT !.type = t]]
        BY <1>5 DEF Copt!Change
      <4> HIDE DEF col
      <4> QED BY <2>0, <4>1
    <3>2. CoptView(col) = [CoptView(cols[h]) EXCEPT !.type = t]
      BY DEF CoptView, Copt!TypeOf, Copt!Types
    <3> HIDE DEF col
    <3> QED BY <1>1, <2>0, <3>1, <3>2
  <2> HIDE DEF col
  <2>2. /\ CoptInv' /\ CoptConstraints' = CoptConstraints
        /\ CoptVariables' = [CoptVariables EXCEPT ![h] = CoptView(col)]
    BY <2>1, CoptEdited
  <2>3. Copt!Promise!SetType(h, t)
    BY <1>5, <2>1, <2>2 DEF Copt!Promise!SetType, CoptVariables, CoptConstraints
  <2> QED BY <1>1, <2>2, <2>3 DEF Copt!Promise!Next, Copt!Types
<1> QED BY <1>2, <1>3, <1>4, <1>5

\* A variable that becomes binary keeps those of its bounds that are within 0..1.
LEMMA CoptSetBinary ==
    ASSUME CoptInv, NEW h \in DOMAIN cols, Copt!SetBinary(h)
    PROVE  CoptInv' /\ Copt!Promise!Next
<1> DEFINE old == cols[h]
           lb == IF old.lb < 0 THEN 0 ELSE old.lb
           ub == IF old.ub > 1 THEN 1 ELSE old.ub
           col == [obj |-> old.obj, lb |-> lb, ub |-> ub, type |-> "binary", coefs |-> old.coefs]
<1>1. old \in CoptColumn /\ CoptVariables[h] = CoptView(old) /\ h \in Copt!Promise!Held
      /\ old.lb \in Int /\ old.ub \in Int
  BY CoptRead DEF CoptSeen, Copt!Promise!Held, CoptColumn
<1>2. cols' = [cols EXCEPT ![h] = col] /\ col \in CoptColumn
  BY <1>1 DEF Copt!SetBinary, Copt!AddCol, Copt!Within01, CoptColumn
<1>3. CoptView(col) = BinaryOf(CoptVariables[h], lb, ub)
  <2> DEFINE new == [obj |-> old.obj, lb |-> lb, ub |-> ub, type |-> "integer", coefs |-> old.coefs]
  <2>1. CoptView(col) = new
    <3>1. col.obj = old.obj /\ col.lb = lb /\ col.ub = ub /\ col.type = "binary" /\ col.coefs = old.coefs
      <4> HIDE DEF lb, ub, old
      <4> QED OBVIOUS
    <3> HIDE DEF col, lb, ub, old
    <3> QED BY <3>1 DEF CoptView, Copt!TypeOf
  <2>2. BinaryOf(CoptView(old), lb, ub) = new
    <3>1. CoptView(old) = [obj |-> old.obj, lb |-> old.lb, ub |-> old.ub, type |-> Copt!TypeOf(old.type), coefs |-> old.coefs]
      BY DEF CoptView
    <3> HIDE DEF lb, ub, old
    <3> QED BY <3>1, MadeBinary
  <2> HIDE DEF col, old, lb, ub, new
  <2> QED BY <1>1, <2>1, <2>2
<1>4. 0 <= lb /\ ub <= 1 /\ lb \in {0, CoptVariables[h].lb} /\ ub \in {1, CoptVariables[h].ub}
  BY <1>1 DEF CoptView
<1>5. rows' = rows /\ offset' = offset /\ maximize' = maximize /\ call' = <<"set_binary", h>>
  BY DEF Copt!SetBinary
<1> HIDE DEF col, lb, ub, old
<1>6. /\ CoptInv' /\ CoptConstraints' = CoptConstraints
      /\ CoptVariables' = [CoptVariables EXCEPT ![h] = CoptView(col)]
  BY <1>2, <1>5, CoptEdited
<1>7. Copt!Promise!SetBinary(h)
  BY <1>3, <1>4, <1>5, <1>6 DEF BinaryOf, Copt!Promise!SetBinary, CoptVariables, CoptConstraints
<1> QED BY <1>1, <1>6, <1>7 DEF Copt!Promise!Next

\* A new objective, and one that is read back and added to.
LEMMA CoptObjective ==
    ASSUME CoptInv, NEW e \in Copt!Exprs, NEW coef, Copt!PutObjective(coef), UNCHANGED <<rows, maximize>>,
           \/ /\ call' = <<"set_objective", e>> /\ offset' = e.constant
              /\ \A h \in DOMAIN cols : coef[h] = Copt!CoefficientOf(e.terms, h)
           \/ /\ call' = <<"add_objective", e>> /\ offset' = offset + e.constant
              /\ \A h \in DOMAIN cols : coef[h] = cols[h].obj + Copt!CoefficientOf(e.terms, h)
    PROVE  CoptInv' /\ Copt!Promise!Next
<1>1. CoptSeen
  BY CoptRead
<1>2. cols' = [i \in DOMAIN cols |-> [cols[i] EXCEPT !.obj = coef[i]]] /\ \A i \in DOMAIN cols : coef[i] \in Int
  BY InstanceDataAssumption DEF Copt!PutObjective
<1>3. \A i \in DOMAIN cols : /\ [cols[i] EXCEPT !.obj = coef[i]] \in CoptColumn
                             /\ CoptView([cols[i] EXCEPT !.obj = coef[i]]) = [CoptView(cols[i]) EXCEPT !.obj = coef[i]]
  BY <1>1, <1>2 DEF CoptSeen, CoptColumn, CoptView
<1>4. CoptInv'
  <2>1. cols' \in [1..Len(cols) -> CoptColumn]
    BY <1>1, <1>2, <1>3 DEF CoptSeen
  <2>2. cols' \in Seq(CoptColumn)
    BY <1>1, <2>1, SeqDef DEF CoptSeen
  <2> QED BY <2>2 DEF CoptInv, CoptColumn, CoptRow
<1>5. CoptSeen'
  BY <1>4, CoptRead, PTL
<1>6. CoptVariables' = [h \in DOMAIN cols |-> [CoptVariables[h] EXCEPT !.obj = coef[h]]]
  BY <1>1, <1>2, <1>3, <1>5 DEF CoptSeen
<1>7. CoptConstraints' = CoptConstraints /\ DOMAIN CoptVariables = DOMAIN cols
  BY DEF CoptConstraints, CoptVariables
<1>8. e \in Copt!ExpressionsOver(Copt!Promise!Held) /\ call'[1] \in {"set_objective", "add_objective"} /\ call'[2] = e
  BY DEF Copt!Promise!Held, Copt!Exprs
<1>9. CASE call' = <<"set_objective", e>>
  <2>1. offset' = e.constant /\ \A h \in DOMAIN cols : coef[h] = Copt!CoefficientOf(e.terms, h)
    BY <1>9
  <2>2. CoptVariables' = [h \in DOMAIN CoptVariables |-> [CoptVariables[h] EXCEPT !.obj = Copt!CoefficientOf(e.terms, h)]]
    BY <1>6, <1>7, <2>1
  <2>3. Copt!Promise!Linear!SetObjective(e)
    BY <1>7, <1>9, <2>2 DEF Copt!Promise!Linear!SetObjective, Copt!Promise!Linear!Held, CoptVariables, CoptConstraints, Copt!Coefficient
  <2>4. Copt!Promise!SetObjective(e)
    BY <2>1, <2>3 DEF Copt!Promise!SetObjective, Copt!ConstantOf
  <2> QED BY <1>4, <1>8, <2>4 DEF Copt!Promise!Next
<1>10. CASE call' = <<"add_objective", e>>
  <2>1. offset' = offset + e.constant /\ \A h \in DOMAIN cols : coef[h] = cols[h].obj + Copt!CoefficientOf(e.terms, h)
    BY <1>10
  <2>2. \A h \in DOMAIN cols : CoptVariables[h].obj = cols[h].obj
    BY <1>1 DEF CoptSeen, CoptView
  <2>3. CoptVariables' = [h \in DOMAIN CoptVariables |->
           [CoptVariables[h] EXCEPT !.obj = CoptVariables[h].obj + Copt!CoefficientOf(e.terms, h)]]
    BY <1>6, <1>7, <2>1, <2>2
  <2>4. Copt!Promise!Linear!AddObjective(e)
    BY <1>7, <1>10, <2>3 DEF Copt!Promise!Linear!AddObjective, Copt!Promise!Linear!Held, CoptVariables, CoptConstraints, Copt!Coefficient
  <2>5. Copt!Promise!AddObjective(e)
    BY <2>1, <2>4 DEF Copt!Promise!AddObjective, Copt!ConstantOf
  <2> QED BY <1>4, <1>8, <2>5 DEF Copt!Promise!Next
<1> QED BY <1>9, <1>10

\* What is passed and what is registered does not depend on the solver.
LEMMA CoptAsRegistered ==
    /\ \A e, v, d : Copt!Registered(e, v, d) = Registered(e, v, d)
    /\ \A t, v : Copt!CoefficientOf(t, v) = CoefficientOf(t, v)
    /\ \A e, v : Copt!Coefficient(e, v) = CoefficientOf(e.terms, v)
    /\ \A e, d : Copt!MayPass(e, d) = MayPass(e, d)
<1>1. ASSUME NEW t, NEW K PROVE Copt!SumAt(t, K) = SumAt(t, K)
  BY DEF SumAt, MapThenSumSet, MapThenFoldSet, Copt!SumAt, Copt!MapThenSumSet, Copt!MapThenFoldSet
<1>2. ASSUME NEW t, NEW v PROVE Copt!CoefficientOf(t, v) = CoefficientOf(t, v)
  BY <1>1 DEF CoefficientOf, Copt!CoefficientOf
<1>3. ASSUME NEW t, NEW v PROVE Copt!LastOf(t, v) = LastOf(t, v)
  BY DEF LastOf, Copt!LastOf, Max, Copt!Max
<1>4. ASSUME NEW e, NEW d PROVE Copt!MayPass(e, d) = MayPass(e, d)
  BY DEF MayPass, Copt!MayPass, IsDistinct, Copt!IsDistinct
<1>5. ASSUME NEW e, NEW v, NEW d PROVE Copt!Registered(e, v, d) = Registered(e, v, d)
  BY <1>2, <1>3 DEF Registered, Copt!Registered
<1> QED BY <1>2, <1>4, <1>5 DEF Copt!Coefficient

CoptRows(new, lcs, m) == new = [r \in 1..m |-> Copt!RowOf(lcs[r])]

\* Rows behind those there are, with the sums of their terms as entries.
LEMMA CoptAppendsRows ==
    ASSUME CoptInv, NEW lcs, NEW m \in Nat, DOMAIN lcs = 1..m, Len(lcs) = m,
           \A r \in 1..m : lcs[r] \in Copt!ConstraintsOver(DOMAIN cols),
           NEW new, CoptRows(new, lcs, m), NEW coef, EntriesOf(coef, lcs, m),
           Copt!AppendRows(new, coef), call' = <<"add_constraints", lcs>>, UNCHANGED <<offset, maximize>>
    PROVE  CoptInv' /\ Copt!Promise!Next
<1> DEFINE n == Len(rows)
           W(i) == Copt!Promise!Linear!WithRows(cols[i].coefs, n, coef[i], m)
<1>0. /\ new = [r \in 1..m |-> Copt!RowOf(lcs[r])]
      /\ \A i \in DOMAIN cols : coef[i] = [r \in 1..m |-> Copt!Coefficient(lcs[r].terms, i)]
  BY CoptAsRegistered DEF CoptRows, EntriesOf
<1>1. CoptSeen
  BY CoptRead
<1>2. /\ n \in Nat /\ DOMAIN cols = 1..Len(cols) /\ Len(cols) \in Nat /\ DOMAIN rows = 1..n
      /\ \A i \in DOMAIN cols : cols[i] \in CoptColumn /\ cols[i].coefs \in [1..n -> Int]
      /\ \A r \in 1..n : rows[r] \in CoptRow
  BY <1>1 DEF CoptSeen, CoptColumn
<1>3. \A r \in 1..m : /\ lcs[r].terms \in Copt!ExpressionsOver(DOMAIN cols) /\ lcs[r].sense \in Senses /\ lcs[r].rhs \in Rhs
                      /\ lcs[r] = [terms |-> lcs[r].terms, sense |-> lcs[r].sense, rhs |-> lcs[r].rhs]
  BY DEF Copt!ConstraintsOver, Copt!Senses, Senses
<1>4. \A r \in 1..m : /\ new[r] \in CoptRow
                      /\ CoptConstraint(new[r]) = [sense |-> lcs[r].sense, rhs |-> lcs[r].rhs]
  BY <1>0, <1>3, InstanceDataAssumption DEF Senses, CoptRow, CoptConstraint, Copt!RowOf, Copt!CoptSense, Copt!SenseOf
<1>5. Len(new) = m /\ rows' = [r \in 1..(n + m) |-> IF r <= n THEN rows[r] ELSE new[r - n]]
  <2>1. rows = [r \in 1..n |-> rows[r]] /\ new = [r \in 1..m |-> new[r]]
    BY <1>0, <1>2 DEF CoptInv
  <2>2. rows' = rows \o new
    BY DEF Copt!AppendRows
  <2> HIDE DEF n
  <2> QED BY <1>2, <2>1, <2>2, ConcatIs
<1>6. \A i \in DOMAIN cols : \A r \in 1..m : coef[i][r] \in Int
  <2>1. DOMAIN new = 1..m
    BY <1>0
  <2> QED BY <2>1, InstanceDataAssumption DEF Copt!AppendRows
<1>7. ASSUME NEW i \in DOMAIN cols PROVE cols[i].coefs \o coef[i] = W(i) /\ W(i) \in [1..(n + m) -> Int]
  <2>1. cols[i].coefs = [r \in 1..n |-> cols[i].coefs[r]] /\ coef[i] = [r \in 1..m |-> coef[i][r]]
    BY <1>0, <1>2
  <2>2. W(i) = [r \in 1..(n + m) |-> IF r <= n THEN cols[i].coefs[r] ELSE coef[i][r - n]]
    BY DEF Copt!Promise!Linear!WithRows
  <2>3. cols[i].coefs \o coef[i] = W(i)
    <3> HIDE DEF n, W
    <3> QED BY <1>2, <2>1, <2>2, ConcatIs
  <2>4. \A r \in 1..(n + m) : r <= n => r \in 1..n
    BY <1>2
  <2>5. \A r \in 1..(n + m) : ~(r <= n) => (r - n) \in 1..m
    BY <1>2
  <2>6. \A r \in 1..n : cols[i].coefs[r] \in Int
    BY <1>2
  <2> HIDE DEF n, W
  <2> QED BY <1>6, <2>2, <2>3, <2>4, <2>5, <2>6
<1> HIDE DEF W
<1>8. cols' = [i \in DOMAIN cols |-> [cols[i] EXCEPT !.coefs = W(i)]]
  <2>1. cols' = [i \in DOMAIN cols |-> [cols[i] EXCEPT !.coefs = cols[i].coefs \o coef[i]]]
    BY DEF Copt!AppendRows
  <2> QED BY <2>1, <1>7
<1>9. rows' \in Seq(CoptRow) /\ Len(rows') = n + m
  <2>1. \A r \in 1..(n + m) : ~(r <= n) => (r - n) \in 1..m
    BY <1>2
  <2>2. rows' \in [1..(n + m) -> CoptRow]
    <3> HIDE DEF n
    <3> QED BY <1>2, <1>4, <1>5, <2>1
  <2>3. n + m \in Nat
    BY <1>2
  <2> HIDE DEF n
  <2> QED BY <2>2, <2>3, SeqDef, LenProperties
<1>10. CoptInv'
  <2>1. CoptColumn' = [obj : Int, lb : Int, ub : Int, type : {"continuous", "integer", "binary"}, coefs : [1..(n + m) -> Int]]
    BY <1>9 DEF CoptColumn
  <2>2. \A i \in DOMAIN cols : [cols[i] EXCEPT !.coefs = W(i)] \in CoptColumn'
    <3> HIDE DEF n
    <3> QED BY <1>2, <1>7, <2>1 DEF CoptColumn
  <2>3. cols' \in [1..Len(cols) -> CoptColumn']
    BY <1>2, <1>8, <2>2
  <2>4. cols' \in Seq(CoptColumn')
    BY <1>2, <2>3, SeqDef
  <2>5. CoptRow' = CoptRow
    BY DEF CoptRow
  <2> QED BY <1>9, <2>4, <2>5 DEF CoptInv
<1>11. CoptSeen'
  BY <1>10, CoptRead, PTL
<1>12. CoptVariables' = [h \in DOMAIN cols |-> [CoptVariables[h] EXCEPT !.coefs = W(h)]]
  <2>1. CoptVariables' = [h \in DOMAIN cols |-> CoptView([cols[h] EXCEPT !.coefs = W(h)])]
    BY <1>8, <1>11 DEF CoptSeen
  <2>2. \A h \in DOMAIN cols : CoptView([cols[h] EXCEPT !.coefs = W(h)]) = [CoptView(cols[h]) EXCEPT !.coefs = W(h)]
    <3> SUFFICES ASSUME NEW h \in DOMAIN cols, NEW w, w = W(h)
                 PROVE  CoptView([cols[h] EXCEPT !.coefs = w]) = [CoptView(cols[h]) EXCEPT !.coefs = w]
      OBVIOUS
    <3> DEFINE col == [obj |-> cols[h].obj, lb |-> cols[h].lb, ub |-> cols[h].ub, type |-> cols[h].type, coefs |-> w]
    <3>1. [cols[h] EXCEPT !.coefs = w] = col
      <4>1. cols[h] \in CoptColumn
        BY <1>2
      <4>2. cols[h] = [obj |-> cols[h].obj, lb |-> cols[h].lb, ub |-> cols[h].ub,
                       type |-> cols[h].type, coefs |-> cols[h].coefs]
        BY <4>1 DEF CoptColumn
      <4> QED BY <4>2
    <3>2. CoptView(col) = [CoptView(cols[h]) EXCEPT !.coefs = w]
      BY DEF CoptView
    <3> HIDE DEF col
    <3> QED BY <3>1, <3>2
  <2> QED BY <1>1, <2>1, <2>2 DEF CoptSeen
<1>13. CoptConstraints' = CoptConstraints \o [r \in 1..m |-> [sense |-> lcs[r].sense, rhs |-> lcs[r].rhs]]
  <2> DEFINE more == [r \in 1..m |-> [sense |-> lcs[r].sense, rhs |-> lcs[r].rhs]]
  <2>1. CoptConstraints = [r \in 1..n |-> CoptConstraint(rows[r])]
    BY <1>1 DEF CoptSeen
  <2>2. CoptConstraints' = [r \in 1..(n + m) |-> CoptConstraint(IF r <= n THEN rows[r] ELSE new[r - n])]
    <3>1. CoptConstraints' = [r \in 1..Len(rows') |-> CoptConstraint(rows'[r])]
      BY <1>11 DEF CoptSeen, CoptConstraint
    <3>2. \A r \in 1..(n + m) : rows'[r] = IF r <= n THEN rows[r] ELSE new[r - n]
      BY <1>5
    <3> HIDE DEF n
    <3> QED BY <3>1, <3>2, <1>9
  <2>3. CoptConstraints \o more = [r \in 1..(n + m) |-> IF r <= n THEN CoptConstraints[r] ELSE more[r - n]]
    <3>1. CoptConstraints = [r \in 1..n |-> CoptConstraints[r]] /\ more = [r \in 1..m |-> more[r]]
      BY <2>1
    <3> HIDE DEF n, more
    <3> QED BY <3>1, <1>2, ConcatIs
  <2>4. \A r \in 1..(n + m) : r <= n => CoptConstraints[r] = CoptConstraint(rows[r])
    BY <1>2, <2>1
  <2>5. \A r \in 1..(n + m) : ~(r <= n) => more[r - n] = CoptConstraint(new[r - n])
    BY <1>2, <1>4
  <2> HIDE DEF n, more
  <2>6. CoptConstraints' = CoptConstraints \o more
    BY <2>2, <2>3, <2>4, <2>5
  <2> QED BY <2>6 DEF more
<1>14. Len(CoptConstraints) = n /\ DOMAIN CoptVariables = DOMAIN cols
  BY <1>1 DEF CoptSeen
<1>15. \A h \in DOMAIN cols : CoptVariables[h].coefs = cols[h].coefs
  BY <1>1 DEF CoptSeen, CoptView
<1>16. \A h \in DOMAIN cols : coef[h] = [r \in DOMAIN lcs |-> Copt!Coefficient(lcs[r].terms, h)]
  BY <1>0
<1> HIDE DEF n
<1>17. CoptVariables' = [h \in DOMAIN CoptVariables |-> [CoptVariables[h] EXCEPT !.coefs =
          Copt!Promise!Linear!WithRows(@, Len(CoptConstraints),
              [r \in DOMAIN lcs |-> Copt!Coefficient(lcs[r].terms, h)], Len(lcs))]]
  BY <1>12, <1>14, <1>15, <1>16 DEF W
<1>18. CoptConstraints' = CoptConstraints \o [r \in DOMAIN lcs |-> [sense |-> lcs[r].sense, rhs |-> lcs[r].rhs]]
  BY <1>13
<1>19. \A x : x = lcs => Copt!Promise!Linear!AddConstraints(x)
  BY <1>17, <1>18 DEF Copt!Promise!Linear!AddConstraints, Copt!Promise!Linear!Held, CoptVariables, CoptConstraints
<1>20. \A r \in DOMAIN lcs : lcs[r] \in Copt!Promise!Linear!Rows
  BY <1>3 DEF Copt!Promise!Linear!Rows, Copt!Promise!Linear!Held, Copt!Promise!Linear!Senses, Senses
<1>21. call'[1] = "add_constraints" /\ call'[2] = lcs
  OBVIOUS
<1>22. Copt!Promise!Linear!AddConstraints(call'[2])
  BY <1>17, <1>18, <1>21 DEF Copt!Promise!Linear!AddConstraints, Copt!Promise!Linear!Held, CoptVariables, CoptConstraints
<1>23. \A r \in DOMAIN call'[2] : call'[2][r] \in Copt!Promise!Linear!Rows
  BY <1>20, <1>21
<1> QED BY <1>10, <1>21, <1>22, <1>23, CoptLinearCalls

LEMMA CoptConstraintCalls ==
    ASSUME CoptInv
    PROVE  /\ \A lc \in Copt!Constraints, d \in BOOLEAN : Copt!AddConstraint(lc, d) => CoptInv' /\ Copt!Promise!Next
           /\ \A lcs \in Copt!BatchesOver(DOMAIN cols), d \in BOOLEAN :
                 Copt!AddConstraints(lcs, d) => CoptInv' /\ Copt!Promise!Next
<1>0. Copt!ConstraintsOver(DOMAIN cols) = ConstraintsOver(DOMAIN cols)
      /\ Copt!ExpressionsOver(DOMAIN cols) = ExpressionsOver(DOMAIN cols)
      /\ Copt!BatchesOver(DOMAIN cols) = BatchesOver(DOMAIN cols)
  BY DEF Copt!ConstraintsOver, ConstraintsOver, Copt!ExpressionsOver, ExpressionsOver, Copt!Senses, Senses,
         Copt!Expressions, Expressions, Copt!BatchesOver, BatchesOver
<1>1. ASSUME NEW lc \in Copt!Constraints, NEW d, Copt!MayPass(lc.terms, d), NEW i
      PROVE  Copt!Registered(lc.terms, i, d) = CoefficientOf(lc.terms.terms, i)
  <2>1. lc.terms \in ExpressionsOver(DOMAIN cols)
    <3>1. lc \in ConstraintsOver(DOMAIN cols)
      BY <1>0 DEF Copt!Constraints
    <3> QED BY <3>1 DEF ConstraintsOver
  <2>2. MayPass(lc.terms, d)
    BY <1>1, CoptAsRegistered
  <2> QED BY <2>1, <2>2, RegisteredIsSum, CoptAsRegistered
<1>2. ASSUME NEW lc \in Copt!Constraints, NEW d \in BOOLEAN, Copt!AddConstraint(lc, d)
      PROVE  CoptInv' /\ Copt!Promise!Next
  <2> DEFINE lcs == <<lc>>
             new == <<Copt!RowOf(lc)>>
             coef == [i \in DOMAIN cols |-> [r \in {1} |-> Copt!Registered(lc.terms, i, d)]]
  <2>1. Copt!AppendRows(new, coef) /\ call' = <<"add_constraints", lcs>> /\ UNCHANGED <<offset, maximize>>
        /\ Copt!MayPass(lc.terms, d)
    BY <1>2 DEF Copt!AddConstraint
  <2>2. DOMAIN lcs = 1..1 /\ Len(lcs) = 1 /\ lcs[1] = lc /\ 1 \in Nat
    OBVIOUS
  <2>3. \A r \in 1..1 : lcs[r] \in Copt!ConstraintsOver(DOMAIN cols)
    BY DEF Copt!Constraints
  <2>4. CoptRows(new, lcs, 1)
    BY DEF CoptRows
  <2>5. EntriesOf(coef, lcs, 1)
    <3>1. \A i \in DOMAIN cols : Copt!Registered(lc.terms, i, d) = CoefficientOf(lc.terms.terms, i)
      BY <1>1, <2>1
    <3> QED BY <3>1 DEF EntriesOf
  <2> HIDE DEF lcs, new, coef
  <2> QED BY <2>1, <2>2, <2>3, <2>4, <2>5, CoptAppendsRows
<1>3. ASSUME NEW lcs \in Copt!BatchesOver(DOMAIN cols), NEW d \in BOOLEAN, Copt!AddConstraints(lcs, d)
      PROVE  CoptInv' /\ Copt!Promise!Next
  <2> DEFINE m == Len(lcs)
             new == [r \in DOMAIN lcs |-> Copt!RowOf(lcs[r])]
             coef == [i \in DOMAIN cols |-> [r \in DOMAIN lcs |-> Copt!Registered(lcs[r].terms, i, d)]]
  <2>1. Copt!AppendRows(new, coef) /\ call' = <<"add_constraints", lcs>> /\ UNCHANGED <<offset, maximize>>
        /\ \A r \in DOMAIN lcs : Copt!MayPass(lcs[r].terms, d)
    BY <1>3 DEF Copt!AddConstraints
  <2>2. m \in Nat /\ DOMAIN lcs = 1..m /\ \A r \in 1..m : lcs[r] \in Copt!ConstraintsOver(DOMAIN cols)
    BY <1>0, BatchesTyped
  <2>3. CoptRows(new, lcs, m)
    BY <2>2 DEF CoptRows
  <2>4. EntriesOf(coef, lcs, m)
    <3>1. \A r \in 1..m : lcs[r] \in Copt!Constraints /\ Copt!MayPass(lcs[r].terms, d)
      BY <2>1, <2>2 DEF Copt!Constraints
    <3>2. \A i \in DOMAIN cols, r \in 1..m : Copt!Registered(lcs[r].terms, i, d) = CoefficientOf(lcs[r].terms.terms, i)
      BY <1>1, <3>1
    <3> QED BY <2>2, <3>2 DEF EntriesOf
  <2> HIDE DEF m, new, coef
  <2>5. Len(lcs) = m
    BY DEF m
  <2> QED BY <2>1, <2>2, <2>3, <2>4, <2>5, CoptAppendsRows
<1> QED BY <1>2, <1>3

LEMMA CoptObjectiveCalls ==
    ASSUME CoptInv
    PROVE  /\ Copt!ObjectiveCalls => CoptInv' /\ Copt!Promise!Next
           /\ \A e \in Copt!Exprs, d \in BOOLEAN : Copt!SetObjective(e, d) => CoptInv' /\ Copt!Promise!Next
           /\ \A e \in Copt!Exprs : Copt!AddObjective(e) => CoptInv' /\ Copt!Promise!Next
<1>1. ASSUME cols' = cols, rows' = rows PROVE CoptInv'
  BY <1>1 DEF CoptInv, CoptColumn, CoptRow
<1>2. ASSUME NEW k \in Constants, Copt!SetObjectiveOffset(k) PROVE CoptInv' /\ Copt!Promise!Next
  <2>1. Copt!Promise!SetObjectiveOffset(k)
    BY <1>2 DEF Copt!SetObjectiveOffset, Copt!Promise!SetObjectiveOffset, Copt!VariableOf
  <2>2. CoptInv'
    BY <1>1, <1>2 DEF Copt!SetObjectiveOffset
  <2> QED BY <2>1, <2>2 DEF Copt!Promise!Next
<1>3. ASSUME NEW m \in BOOLEAN, Copt!SetDirection(m) PROVE CoptInv' /\ Copt!Promise!Next
  <2>1. Copt!Promise!SetDirection(m)
    BY <1>3 DEF Copt!SetDirection, Copt!Promise!SetDirection, Copt!VariableOf
  <2>2. CoptInv'
    BY <1>1, <1>3 DEF Copt!SetDirection
  <2> QED BY <2>1, <2>2 DEF Copt!Promise!Next
<1>4. ASSUME NEW h \in DOMAIN cols, NEW c \in Coefs, Copt!SetObjectiveCoefficient(h, c) PROVE CoptInv' /\ Copt!Promise!Next
  BY <1>4, CoptChanges DEF Copt!SetObjectiveCoefficient
<1>5. ASSUME NEW e \in Copt!Exprs, NEW d \in BOOLEAN, Copt!SetObjective(e, d) PROVE CoptInv' /\ Copt!Promise!Next
  <2> DEFINE coef == [i \in DOMAIN cols |-> Copt!Registered(e, i, d)]
  <2>1. Copt!PutObjective(coef) /\ UNCHANGED <<rows, maximize>> /\ call' = <<"set_objective", e>>
        /\ offset' = e.constant /\ Copt!MayPass(e, d)
    BY <1>5 DEF Copt!SetObjective
  <2>2. e \in ExpressionsOver(DOMAIN cols) /\ MayPass(e, d)
    BY <2>1, CoptAsRegistered DEF Copt!Exprs, Copt!ExpressionsOver, ExpressionsOver, Copt!Expressions, Expressions
  <2>3. \A h \in DOMAIN cols : coef[h] = Copt!CoefficientOf(e.terms, h)
    BY <2>2, RegisteredIsSum, CoptAsRegistered
  <2> HIDE DEF coef
  <2> QED BY <2>1, <2>3, CoptObjective
<1>6. ASSUME NEW e \in Copt!Exprs, Copt!AddObjective(e) PROVE CoptInv' /\ Copt!Promise!Next
  <2> DEFINE coef == [i \in DOMAIN cols |-> cols[i].obj + Copt!CoefficientOf(e.terms, i)]
  <2>1. Copt!PutObjective(coef) /\ UNCHANGED <<rows, maximize>> /\ call' = <<"add_objective", e>>
        /\ offset' = offset + e.constant
    BY <1>6 DEF Copt!AddObjective
  <2>2. \A h \in DOMAIN cols : coef[h] = cols[h].obj + Copt!CoefficientOf(e.terms, h)
    OBVIOUS
  <2> HIDE DEF coef
  <2> QED BY <2>1, <2>2, CoptObjective
<1> QED BY <1>2, <1>3, <1>4, <1>5, <1>6 DEF Copt!ObjectiveCalls

LEMMA CoptVariableCalls ==
    ASSUME CoptInv
    PROVE  /\ \A p \in Params, t \in Copt!Types : Copt!AddVariable(p, t) => CoptInv' /\ Copt!Promise!Next
           /\ Copt!AddBinaryVariable => CoptInv' /\ Copt!Promise!Next
           /\ \A n \in 1..MaxColumns, p \in Params, t \in Copt!Types :
                 Copt!AddVariables(n, p, t) => CoptInv' /\ Copt!Promise!Next
           /\ \A n \in 1..MaxColumns : Copt!AddBinaryVariables(n) => CoptInv' /\ Copt!Promise!Next
           /\ \A p \in Params, entries \in [1..Len(rows) -> Coefs] :
                 Copt!AddColumn(p, entries) => CoptInv' /\ Copt!Promise!Next
<1>0. /\ Copt!Zeros \in [1..Len(rows) -> Coefs]
      /\ \A n \in 1..MaxColumns : n \in Nat \ {0}
      /\ CoptParams(Copt!BinaryParams, "binary")
      /\ \A p \in Params, t \in Copt!Types : CoptParams(p, t)
      /\ \A p \in Params : CoptParams(p, "continuous")
  <2>1. Copt!Zeros \in [1..Len(rows) -> Coefs]
    BY InstanceDataAssumption DEF Copt!Zeros
  <2>2. \A n \in 1..MaxColumns : n \in Nat \ {0}
    BY InstanceBoundsAssumption
  <2> QED BY <2>1, <2>2 DEF CoptParams, Copt!Types
<1>1. (\A c : Copies(<<c>>, 1, c)) /\ 1 \in Nat \ {0}
  BY DEF Copies
<1>2. ASSUME NEW p \in Params, NEW t \in Copt!Types, Copt!AddVariable(p, t) PROVE CoptInv' /\ Copt!Promise!Next
  <2>1. /\ Copt!AppendCols(<<Copt!AddCol(p, t, Copt!Zeros)>>) /\ UNCHANGED <<rows, offset, maximize>>
        /\ call' = <<"add_variable", Len(cols) + 1, Copt!Typed(p, t)>>
    BY <1>2 DEF Copt!AddVariable
  <2> QED BY <1>0, <1>1, <2>1, CoptAdds
<1>3. ASSUME Copt!AddBinaryVariable PROVE CoptInv' /\ Copt!Promise!Next
  <2>1. /\ Copt!AppendCols(<<Copt!AddCol(Copt!BinaryParams, "binary", Copt!Zeros)>>) /\ UNCHANGED <<rows, offset, maximize>>
        /\ call' = <<"add_variable", Len(cols) + 1, Copt!Typed(Copt!BinaryParams, "binary")>>
    BY <1>3 DEF Copt!AddBinaryVariable
  <2> QED BY <1>0, <1>1, <2>1, CoptAdds
<1>4. ASSUME NEW n \in 1..MaxColumns, NEW p \in Params, NEW t \in Copt!Types, Copt!AddVariables(n, p, t)
      PROVE  CoptInv' /\ Copt!Promise!Next
  <2>1. [p EXCEPT !.lb = Copt!PassedLower(p), !.ub = Copt!PassedUpper(p)] = p
    <3>1. p \in [obj : Coefs, lb : Bounds, ub : Bounds] /\ -Infinity <= p.ub /\ p.ub <= Infinity
      BY InstanceDataAssumption
    <3>2. Copt!PassedLower(p) = p.lb /\ Copt!PassedUpper(p) = p.ub
      <4>1. p.ub \in Int /\ Infinity \in Int
        BY <3>1, InstanceDataAssumption
      <4> QED BY <3>1, <4>1 DEF Copt!PassedLower, Copt!PassedUpper, Copt!DefaultLower, Copt!DefaultUpper
    <3> QED BY <3>1, <3>2
  <2> DEFINE new == [k \in 1..n |-> Copt!AddCol(p, t, Copt!Zeros)]
  <2>2. /\ Copt!AppendCols(new) /\ UNCHANGED <<rows, offset, maximize>>
        /\ call' = <<"add_variables", Len(cols) + 1, n, Copt!Typed(p, t)>>
    BY <1>4, <2>1 DEF Copt!AddVariables
  <2>3. Copies(new, n, Copt!AddCol(p, t, Copt!Zeros))
    BY DEF Copies
  <2> HIDE DEF new
  <2> QED BY <1>0, <2>2, <2>3, CoptAdds
<1>5. ASSUME NEW n \in 1..MaxColumns, Copt!AddBinaryVariables(n) PROVE CoptInv' /\ Copt!Promise!Next
  <2>1. Copt!AddCol([obj |-> 0, lb |-> Copt!DefaultLower, ub |-> Copt!DefaultUpper], "binary", Copt!Zeros)
        = Copt!AddCol(Copt!BinaryParams, "binary", Copt!Zeros)
    BY InstanceDataAssumption DEF Copt!AddCol, Copt!Within01, Copt!BinaryParams, Copt!DefaultLower, Copt!DefaultUpper
  <2> DEFINE new == [k \in 1..n |-> Copt!AddCol(Copt!BinaryParams, "binary", Copt!Zeros)]
  <2>2. /\ Copt!AppendCols(new) /\ UNCHANGED <<rows, offset, maximize>>
        /\ call' = <<"add_variables", Len(cols) + 1, n, Copt!Typed(Copt!BinaryParams, "binary")>>
    BY <1>5, <2>1 DEF Copt!AddBinaryVariables
  <2>3. Copies(new, n, Copt!AddCol(Copt!BinaryParams, "binary", Copt!Zeros))
    BY DEF Copies
  <2> HIDE DEF new
  <2> QED BY <1>0, <2>2, <2>3, CoptAdds
<1>6. ASSUME NEW p \in Params, NEW e \in [1..Len(rows) -> Coefs], Copt!AddColumn(p, e) PROVE CoptInv' /\ Copt!Promise!Next
  <2>1. /\ Copt!AppendCols(<<Copt!AddCol(p, "continuous", e)>>) /\ UNCHANGED <<rows, offset, maximize>>
        /\ call' = <<"add_column", Len(cols) + 1, Copt!Typed(p, "continuous"), e>>
    BY <1>6 DEF Copt!AddColumn
  <2> QED BY <1>0, <1>1, <2>1, CoptAdds
<1> QED BY <1>2, <1>3, <1>4, <1>5, <1>6

LEMMA CoptNext == ASSUME CoptInv, Copt!Next PROVE CoptInv' /\ Copt!Promise!Next
<1>1. ASSUME NEW h \in DOMAIN cols, NEW b \in Bounds, Copt!SetVariableLowerBound(h, b) \/ Copt!SetVariableUpperBound(h, b)
      PROVE  CoptInv' /\ Copt!Promise!Next
  BY <1>1, CoptChanges DEF Copt!SetVariableLowerBound, Copt!SetVariableUpperBound
<1>2. ASSUME NEW h \in DOMAIN cols, NEW t \in Copt!Types, Copt!SetType(h, t) PROVE CoptInv' /\ Copt!Promise!Next
  BY <1>2, CoptChanges DEF Copt!SetType
<1> QED BY <1>1, <1>2, CoptSetBinary, CoptConstraintCalls, CoptObjectiveCalls, CoptVariableCalls DEF Copt!Next

\* COPT's model keeps its promise, for any expressions, batches and parameters: each call
\* does to the variables and constraints of the client what it says and nothing else,
\* whatever arrays are left out and however often the terms of an expression repeat.
THEOREM CoptKept == Spec => CoptKeepsPromise
<1> DEFINE I == solver = "copt" => CoptInv
<1>1. Init => I
  <2>1. cols = <<>> /\ rows = <<>> => CoptInv
    BY DEF CoptInv
  <2> QED BY <2>1 DEF Init, Copt!Init, Copt!InstanceInit
<1>2. ASSUME I, [Next]_all PROVE I' /\ (solver = "copt" => [Copt!Promise!Next]_(Copt!Promise!vars))
  <2> SUFFICES ASSUME solver' = "copt" PROVE CoptInv' /\ [Copt!Promise!Next]_(Copt!Promise!vars)
    BY <1>2 DEF Next, all
  <2>1. solver = "copt" /\ CoptInv
    BY <1>2 DEF Next, all
  <2>2. CASE Copt!Next
    BY <2>1, <2>2, CoptNext
  <2>3. CASE UNCHANGED all
    <3>1. CoptInv'
      BY <2>1, <2>3 DEF all, vars, instance, CoptInv, CoptColumn, CoptRow
    <3>2. UNCHANGED Copt!Promise!vars
      BY <2>3 DEF all, vars, instance, Copt!Promise!vars, Copt!VariableOf
    <3> QED BY <3>1, <3>2
  <2> QED BY <1>2, <2>1, <2>2, <2>3 DEF Next
<1> QED BY <1>1, <1>2, PTL DEF Spec, CoptKeepsPromise
----------------------------------------------------------------------------
(* Xpress *)

XpressVariables == [h \in held |-> Xpress!VariableOf(h)]
XpressConstraints == [r \in DOMAIN rows |-> [rows[r] EXCEPT !.sense = Xpress!SenseOf(@)]]
XpressParameters == UNION {{Xpress!AsAdded(p, t) : p \in Xpress!ParamsFor(t)} : t \in Xpress!Types}

\* What is passed and registered, and what the client may write, are the same for every
\* solver.
LEMMA XpressSame ==
    /\ \A e, v, d : Xpress!Registered(e, v, d) = Registered(e, v, d)
    /\ \A t, v : Xpress!CoefficientOf(t, v) = CoefficientOf(t, v)
    /\ \A e, v : Xpress!Coefficient(e, v) = CoefficientOf(e.terms, v)
    /\ \A e, d : Xpress!MayPass(e, d) = MayPass(e, d)
    /\ \A X : Xpress!ExpressionsOver(X) = ExpressionsOver(X)
    /\ \A X : Xpress!ConstraintsOver(X) = ConstraintsOver(X)
    /\ \A X : Xpress!BatchesOver(X) = BatchesOver(X)
<1>1. ASSUME NEW t, NEW K PROVE Xpress!SumAt(t, K) = SumAt(t, K)
  BY DEF SumAt, MapThenSumSet, MapThenFoldSet, Xpress!SumAt, Xpress!MapThenSumSet, Xpress!MapThenFoldSet
<1>2. ASSUME NEW t, NEW v PROVE Xpress!CoefficientOf(t, v) = CoefficientOf(t, v)
  BY <1>1 DEF CoefficientOf, Xpress!CoefficientOf
<1>3. ASSUME NEW t, NEW v PROVE Xpress!LastOf(t, v) = LastOf(t, v)
  BY DEF LastOf, Xpress!LastOf, Max, Xpress!Max
<1>4. ASSUME NEW e, NEW d PROVE Xpress!MayPass(e, d) = MayPass(e, d)
  BY DEF MayPass, Xpress!MayPass, IsDistinct, Xpress!IsDistinct
<1>5. ASSUME NEW e, NEW v, NEW d PROVE Xpress!Registered(e, v, d) = Registered(e, v, d)
  BY <1>2, <1>3 DEF Registered, Xpress!Registered
<1>6. ASSUME NEW X PROVE Xpress!ExpressionsOver(X) = ExpressionsOver(X)
  BY DEF ExpressionsOver, Xpress!ExpressionsOver, Expressions, Xpress!Expressions
<1>7. ASSUME NEW X PROVE Xpress!ConstraintsOver(X) = ConstraintsOver(X)
  BY <1>6 DEF ConstraintsOver, Xpress!ConstraintsOver, Senses, Xpress!Senses
<1>8. ASSUME NEW X PROVE Xpress!BatchesOver(X) = BatchesOver(X)
  BY <1>7 DEF BatchesOver, Xpress!BatchesOver
<1> QED BY <1>2, <1>4, <1>5, <1>6, <1>7, <1>8 DEF Xpress!Coefficient

\* What the client sees of a call is what the model promises.
LEMMA XpressSteps ==
    /\ /\ MakesVariables(XpressVariables, XpressVariables', XpressConstraints, XpressParameters)
       /\ XpressConstraints' = XpressConstraints /\ UNCHANGED <<offset, maximize>>
       => Xpress!Promise!Next
    /\ /\ ChangesVariable(XpressVariables, XpressVariables')
       /\ XpressConstraints' = XpressConstraints /\ UNCHANGED <<offset, maximize>>
       => Xpress!Promise!Next
    /\ /\ ChangesObjective(XpressVariables, XpressVariables')
       /\ XpressConstraints' = XpressConstraints /\ UNCHANGED maximize
       => Xpress!Promise!Next
    /\ /\ MakesRows(XpressVariables, XpressVariables', XpressConstraints, XpressConstraints')
       /\ UNCHANGED <<offset, maximize>>
       => Xpress!Promise!Next
    /\ /\ XpressVariables' = XpressVariables /\ XpressConstraints' = XpressConstraints
       /\ \/ call' = <<"rejected">> /\ UNCHANGED <<offset, maximize>>
          \/ SetsOffset /\ UNCHANGED maximize
          \/ SetsDirection /\ UNCHANGED offset
       => Xpress!Promise!Next
<1> DEFINE V == XpressVariables
           C == XpressConstraints
<1>0. /\ Xpress!Promise!Held = DOMAIN V /\ Xpress!Promise!Linear!Held = DOMAIN V
      /\ Xpress!Promise!Linear!Zeros = [r \in 1..Len(C) |-> 0]
  BY DEF Xpress!Promise!Held, Xpress!Promise!Linear!Held, Xpress!Promise!Linear!Zeros,
         XpressVariables, XpressConstraints
<1>1. ASSUME MakesVariables(V, V', C, XpressParameters), C' = C, UNCHANGED <<offset, maximize>>
      PROVE  Xpress!Promise!LinearCall
  <2>1. PICK first \in 1..MaxColumns, n \in Nat \ {0}, q \in XpressParameters, e \in [1..Len(C) -> Coefs] :
           /\ first + n - 1 <= MaxColumns
           /\ Made(V, V', first..(first + n - 1), Var(q.obj, q.lb, q.ub, q.type, e))
           /\ \/ n = 1 /\ call' = <<"add_column", first, q, e>>
              \/ /\ e = [r \in 1..Len(C) |-> 0]
                 /\ \/ n = 1 /\ call' = <<"add_variable", first, q>>
                    \/ call' = <<"add_variables", first, n, q>>
    BY <1>1 DEF MakesVariables
  <2> DEFINE last == first + n - 1
             H == first..last
  <2>2. /\ first \in Int /\ n \in Int /\ last \in 1..MaxColumns /\ first <= last /\ n = last - first + 1
        /\ (n = 1 => H = {first}) /\ H = first..(first + n - 1)
    BY <2>1, InstanceBoundsAssumption
  <2>3. Xpress!Promise!Linear!Add(H, Xpress!Promise!Linear!NewVariable(q, e))
    BY <1>0, <1>1, <2>1 DEF Made, Var, Xpress!Promise!Linear!Add, Xpress!Promise!Linear!NewVariable,
       XpressVariables, XpressConstraints
  <2> HIDE DEF last, H
  <2>4. CASE n = 1 /\ call' = <<"add_column", first, q, e>>
    <3>1. call'[1] = "add_column" /\ call'[4] = e /\ H = {first}
      BY <2>2, <2>4
    <3>2. Xpress!Promise!Linear!AddColumn(first, q, call'[4])
      BY <2>3, <2>4, <3>1 DEF Xpress!Promise!Linear!AddColumn
    <3>3. call'[4] \in [1..Len(C) -> Coefs]
      BY <3>1
    <3> QED BY <1>1, <3>1, <3>2, <3>3 DEF Xpress!Promise!LinearCall, XpressParameters, XpressConstraints
  <2>5. CASE n = 1 /\ e = [r \in 1..Len(C) |-> 0] /\ call' = <<"add_variable", first, q>>
    <3>1. Xpress!Promise!Linear!AddVariable(first, q)
      BY <1>0, <2>2, <2>3, <2>5 DEF Xpress!Promise!Linear!AddVariable
    <3> QED BY <1>1, <3>1 DEF Xpress!Promise!LinearCall, XpressParameters
  <2>6. CASE e = [r \in 1..Len(C) |-> 0] /\ call' = <<"add_variables", first, n, q>>
    <3>1. Xpress!Promise!Linear!AddVariables(first, last - first + 1, q)
      BY <1>0, <2>2, <2>3, <2>6 DEF Xpress!Promise!Linear!AddVariables
    <3> QED BY <1>1, <2>2, <3>1 DEF Xpress!Promise!LinearCall, XpressParameters
  <2> QED BY <2>1, <2>4, <2>5, <2>6
<1>2. ASSUME ChangesVariable(V, V'), C' = C, UNCHANGED <<offset, maximize>>
      PROVE  Xpress!Promise!Next
  <2>0. PICK h \in DOMAIN V : \E v : V' = [V EXCEPT ![h] = v] /\ Becomes(V, h, v)
    BY <1>2 DEF ChangesVariable
  <2>1. PICK v : V' = [V EXCEPT ![h] = v] /\ Becomes(V, h, v)
    BY <2>0
  <2>2. ASSUME NEW c \in Coefs, v = [V[h] EXCEPT !.obj = c], call' = <<"set_objective_coefficient", h, c>>
        PROVE  Xpress!Promise!LinearCall
    <3>1. Xpress!Promise!Linear!SetObjectiveCoefficient(h, c)
      BY <1>2, <2>1, <2>2 DEF Xpress!Promise!Linear!SetObjectiveCoefficient, XpressVariables, XpressConstraints
    <3> QED BY <1>0, <1>2, <3>1 DEF Xpress!Promise!LinearCall
  <2>3. ASSUME NEW b \in Bounds, v = [V[h] EXCEPT !.lb = b], call' = <<"set_variable_lower_bound", h, b>>
        PROVE  Xpress!Promise!LinearCall
    <3>1. Xpress!Promise!Linear!SetVariableLowerBound(h, b)
      BY <1>2, <2>1, <2>3 DEF Xpress!Promise!Linear!SetVariableLowerBound, XpressVariables, XpressConstraints
    <3> QED BY <1>0, <1>2, <3>1 DEF Xpress!Promise!LinearCall
  <2>4. ASSUME NEW b \in Bounds, v = [V[h] EXCEPT !.ub = b], call' = <<"set_variable_upper_bound", h, b>>
        PROVE  Xpress!Promise!LinearCall
    <3>1. Xpress!Promise!Linear!SetVariableUpperBound(h, b)
      BY <1>2, <2>1, <2>4 DEF Xpress!Promise!Linear!SetVariableUpperBound, XpressVariables, XpressConstraints
    <3> QED BY <1>0, <1>2, <3>1 DEF Xpress!Promise!LinearCall
  <2>5. ASSUME NEW t \in {"continuous", "integer"}, v = [V[h] EXCEPT !.type = t], call' = <<"set_type", h, t>>
        PROVE  Xpress!Promise!Next
    <3>1. Xpress!Promise!SetType(h, t)
      BY <1>2, <2>1, <2>5 DEF Xpress!Promise!SetType, XpressVariables, XpressConstraints
    <3> QED BY <1>0, <3>1 DEF Xpress!Promise!Next
  <2>6. ASSUME NEW lb \in {0, V[h].lb}, NEW ub \in {1, V[h].ub}, 0 <= lb, ub <= 1,
               v = BinaryOf(V[h], lb, ub), call' = <<"set_binary", h>>
        PROVE  Xpress!Promise!Next
    <3>1. Xpress!Promise!SetBinary(h)
      BY <1>2, <2>1, <2>6 DEF Xpress!Promise!SetBinary, BinaryOf, XpressVariables, XpressConstraints
    <3> QED BY <1>0, <3>1 DEF Xpress!Promise!Next
  <2>7. Xpress!Promise!LinearCall => Xpress!Promise!Next
    BY DEF Xpress!Promise!Next
  <2> HIDE DEF V, C
  <2> QED BY <2>1, <2>2, <2>3, <2>4, <2>5, <2>6, <2>7 DEF Becomes
<1>3. ASSUME ChangesObjective(V, V'), C' = C, UNCHANGED maximize PROVE Xpress!Promise!Next
  <2>0. PICK e \in ExpressionsOver(DOMAIN V) : \E coef : V' = Priced(V, coef) /\ ObjectiveOf(V, e, coef)
    BY <1>3 DEF ChangesObjective
  <2>1. PICK coef : V' = Priced(V, coef) /\ ObjectiveOf(V, e, coef)
    BY <2>0
  <2>2. call'[2] = e /\ e \in Xpress!ExpressionsOver(Xpress!Promise!Held)
    BY <1>0, <2>1, XpressSame DEF ObjectiveOf
  <2>3. V' = [h \in DOMAIN V |-> [V[h] EXCEPT !.obj = coef[h]]]
    BY <2>1 DEF Priced
  <2>4. CASE /\ call' = <<"set_objective", e>> /\ offset' = e.constant
             /\ \A h \in DOMAIN V : coef[h] = CoefficientOf(e.terms, h)
    <3>1. V' = [h \in DOMAIN V |-> [V[h] EXCEPT !.obj = Xpress!Coefficient(e, h)]]
      BY <2>3, <2>4, XpressSame
    <3>2. Xpress!Promise!Linear!SetObjective(e)
      BY <1>0, <1>3, <2>4, <3>1 DEF Xpress!Promise!Linear!SetObjective, XpressVariables, XpressConstraints
    <3>3. Xpress!Promise!SetObjective(e)
      BY <1>3, <2>4, <3>2 DEF Xpress!Promise!SetObjective, Xpress!ConstantOf
    <3> QED BY <2>2, <2>4, <3>3 DEF Xpress!Promise!Next
  <2>5. CASE /\ call' = <<"add_objective", e>> /\ offset' = offset + e.constant
             /\ \A h \in DOMAIN V : coef[h] = V[h].obj + CoefficientOf(e.terms, h)
    <3>1. V' = [h \in DOMAIN V |-> [V[h] EXCEPT !.obj = V[h].obj + Xpress!Coefficient(e, h)]]
      BY <2>3, <2>5, XpressSame
    <3>2. Xpress!Promise!Linear!AddObjective(e)
      BY <1>0, <1>3, <2>5, <3>1 DEF Xpress!Promise!Linear!AddObjective, XpressVariables, XpressConstraints
    <3>3. Xpress!Promise!AddObjective(e)
      BY <1>3, <2>5, <3>2 DEF Xpress!Promise!AddObjective, Xpress!ConstantOf
    <3> QED BY <2>2, <2>5, <3>3 DEF Xpress!Promise!Next
  <2> QED BY <2>1, <2>4, <2>5 DEF ObjectiveOf
<1>4. ASSUME MakesRows(V, V', C, C'), UNCHANGED <<offset, maximize>> PROVE Xpress!Promise!LinearCall
  <2>0. PICK m \in Nat : \E lcs \in [1..m -> ConstraintsOver(DOMAIN V)] :
           /\ call' = <<"add_constraints", lcs>>
           /\ V' = Extended(V, Len(C), lcs, m) /\ C' = C \o Asked(lcs, m)
    BY <1>4 DEF MakesRows
  <2>1. PICK lcs \in [1..m -> ConstraintsOver(DOMAIN V)] :
           /\ call' = <<"add_constraints", lcs>>
           /\ V' = Extended(V, Len(C), lcs, m) /\ C' = C \o Asked(lcs, m)
    BY <2>0
  <2>a. DOMAIN lcs = 1..m /\ Len(lcs) = m
    BY <2>1
  <2> DEFINE n == Len(C)
             more(h) == [r \in DOMAIN lcs |-> Xpress!Coefficient(lcs[r].terms, h)]
  <2>2. ASSUME NEW h \in DOMAIN V
        PROVE  [V[h] EXCEPT !.coefs = RowsBehind(@, n, lcs, m, h)]
               = [V[h] EXCEPT !.coefs = Xpress!Promise!Linear!WithRows(@, n, more(h), Len(lcs))]
    <3>1. ASSUME NEW old PROVE RowsBehind(old, n, lcs, m, h) = Xpress!Promise!Linear!WithRows(old, n, more(h), m)
      <4>1. \A r \in 1..(n + m) : ~(r <= n) => more(h)[r - n] = CoefficientOf(lcs[r - n].terms.terms, h)
        BY <2>a, XpressSame
      <4> HIDE DEF n, more
      <4> QED BY <4>1 DEF RowsBehind, Xpress!Promise!Linear!WithRows
    <3> HIDE DEF n, more, V
    <3> QED BY <2>a, <3>1
  <2>3. V' = [h \in DOMAIN V |-> [V[h] EXCEPT
                !.coefs = Xpress!Promise!Linear!WithRows(@, n, more(h), Len(lcs))]]
    <3>1. V' = [h \in DOMAIN V |-> [V[h] EXCEPT !.coefs = RowsBehind(@, n, lcs, m, h)]]
      BY <2>1 DEF Extended
    <3> HIDE DEF V, n, more
    <3> QED BY <2>2, <3>1
  <2>4. C' = C \o [r \in DOMAIN lcs |-> [sense |-> lcs[r].sense, rhs |-> lcs[r].rhs]]
    BY <2>1, <2>a DEF Asked
  <2>5. call'[1] = "add_constraints" /\ call'[2] = lcs
    BY <2>1
  <2>7. Xpress!Promise!Linear!AddConstraints(call'[2])
    BY <1>0, <2>1, <2>3, <2>4, <2>5 DEF Xpress!Promise!Linear!AddConstraints, XpressVariables, XpressConstraints
  <2>8. \A r \in DOMAIN call'[2] : call'[2][r] \in Xpress!Promise!Linear!Rows
    <3>1. ASSUME NEW lc \in ConstraintsOver(DOMAIN V) PROVE lc \in Xpress!Promise!Linear!Rows
      BY <1>0, <3>1, XpressSame DEF ConstraintsOver, Senses, Xpress!Promise!Linear!Rows, Xpress!Promise!Linear!Senses
    <3> QED BY <2>1, <2>a, <2>5, <3>1
  <2> QED BY <1>4, <2>5, <2>7, <2>8 DEF Xpress!Promise!LinearCall
<1>5. ASSUME V' = V, C' = C, call' = <<"rejected">>, UNCHANGED <<offset, maximize>>
      PROVE  Xpress!Promise!LinearCall
  BY <1>5 DEF Xpress!Promise!LinearCall, Xpress!Promise!Linear!Rejected, XpressVariables, XpressConstraints
<1>6. ASSUME V' = V, C' = C, NEW k \in Constants, call' = <<"set_objective_offset", k>>, offset' = k, UNCHANGED maximize
      PROVE  Xpress!Promise!Next
  <2>1. Xpress!Promise!SetObjectiveOffset(k)
    BY <1>6 DEF Xpress!Promise!SetObjectiveOffset, XpressVariables, XpressConstraints
  <2> QED BY <2>1 DEF Xpress!Promise!Next
<1>7. ASSUME V' = V, C' = C, NEW m \in BOOLEAN, call' = <<"set_maximization", m>>, maximize' = m, UNCHANGED offset
      PROVE  Xpress!Promise!Next
  <2>1. Xpress!Promise!SetDirection(m)
    BY <1>7 DEF Xpress!Promise!SetDirection, XpressVariables, XpressConstraints
  <2> QED BY <2>1 DEF Xpress!Promise!Next
<1>8. Xpress!Promise!LinearCall => Xpress!Promise!Next
  BY DEF Xpress!Promise!Next
<1> QED BY <1>1, <1>2, <1>3, <1>4, <1>5, <1>6, <1>7, <1>8 DEF SetsOffset, SetsDirection

XpressColumn == [obj : Coefs, lb : Bounds, ub : Bounds, type : Xpress!Types,
                 coefs : [1..Len(rows) -> Coefs]]
XpressRow == [sense : {"L", "E", "G"}, rhs : Rhs]
XpressInv == cols \in Seq(XpressColumn) /\ rows \in Seq(XpressRow) /\ held \subseteq DOMAIN cols

\* What the client sees of a column and of a row.
XpressType(type) == IF type = "C" THEN "continuous" ELSE "integer"
XpressView(c) == Var(c.obj, c.lb, c.ub, XpressType(c.type), c.coefs)
XpressConstraint(row) == [sense |-> Xpress!SenseOf(row.sense), rhs |-> row.rhs]

XpressSeen ==
    /\ Len(cols) \in Nat /\ DOMAIN cols = 1..Len(cols)
    /\ Len(rows) \in Nat /\ DOMAIN rows = 1..Len(rows)
    /\ \A i \in DOMAIN cols : cols[i] \in XpressColumn
    /\ held \subseteq DOMAIN cols
    /\ XpressVariables = [h \in held |-> XpressView(cols[h])]
    /\ XpressConstraints = [r \in 1..Len(rows) |-> XpressConstraint(rows[r])]
    /\ Len(XpressConstraints) = Len(rows)

LEMMA XpressRead == XpressInv => XpressSeen
<1> SUFFICES ASSUME XpressInv PROVE XpressSeen
  OBVIOUS
<1>1. /\ Len(cols) \in Nat /\ DOMAIN cols = 1..Len(cols)
      /\ Len(rows) \in Nat /\ DOMAIN rows = 1..Len(rows)
      /\ \A i \in DOMAIN cols : cols[i] \in XpressColumn
      /\ \A r \in DOMAIN rows : rows[r] \in XpressRow
      /\ held \subseteq DOMAIN cols
  BY LenProperties, ElementOfSeq DEF XpressInv
<1>2. \A h \in DOMAIN cols : Xpress!VariableOf(h) = XpressView(cols[h])
  BY <1>1 DEF XpressColumn, Xpress!VariableOf, XpressView, XpressType, Var
<1>3. XpressVariables = [h \in held |-> XpressView(cols[h])]
  BY <1>1, <1>2 DEF XpressVariables
<1>4. \A r \in DOMAIN rows : [rows[r] EXCEPT !.sense = Xpress!SenseOf(@)] = XpressConstraint(rows[r])
  BY <1>1 DEF XpressRow, XpressConstraint
<1>5. XpressConstraints = [r \in 1..Len(rows) |-> XpressConstraint(rows[r])]
  BY <1>1, <1>4 DEF XpressConstraints
<1>6. Len(XpressConstraints) = Len(rows)
  BY <1>5, <1>1, ConcatIs
<1> QED BY <1>1, <1>3, <1>5, <1>6 DEF XpressSeen

\* What becomes of one field of a column, the client sees in that of the variable.
LEMMA XpressFields ==
    ASSUME NEW c \in XpressColumn
    PROVE  /\ \A x \in Coefs : /\ [c EXCEPT !.obj = x] \in XpressColumn
                               /\ XpressView([c EXCEPT !.obj = x]) = [XpressView(c) EXCEPT !.obj = x]
           /\ \A x \in Bounds : /\ [c EXCEPT !.lb = x] \in XpressColumn
                                /\ XpressView([c EXCEPT !.lb = x]) = [XpressView(c) EXCEPT !.lb = x]
           /\ \A x \in Bounds : /\ [c EXCEPT !.ub = x] \in XpressColumn
                                /\ XpressView([c EXCEPT !.ub = x]) = [XpressView(c) EXCEPT !.ub = x]
           /\ \A x \in Xpress!Types : /\ [c EXCEPT !.type = x] \in XpressColumn
                               /\ XpressView([c EXCEPT !.type = x]) = [XpressView(c) EXCEPT !.type = XpressType(x)]
           /\ \A x : XpressView([c EXCEPT !.coefs = x]) = [XpressView(c) EXCEPT !.coefs = x]
BY DEF XpressColumn, XpressView, Var

\* New columns, under new handles or under none.
LEMMA XpressAppends ==
    ASSUME XpressInv, NEW n \in Nat \ {0}, NEW c \in XpressColumn, NEW new, Copies(new, n, c),
           Xpress!AppendCols(new), rows' = rows,
           NEW H, H = (Len(cols) + 1)..(Len(cols) + n), held' \in {held, held \cup H}
    PROVE  /\ XpressInv' /\ Len(cols) \in Nat /\ Len(cols) + n <= MaxColumns
           /\ XpressConstraints' = XpressConstraints
           /\ held' = held => XpressVariables' = XpressVariables
           /\ held' = held \cup H => Made(XpressVariables, XpressVariables', H, XpressView(c))
<1>1. /\ cols' \in Seq(XpressColumn) /\ Len(new) = n /\ Len(cols) \in Nat
      /\ DOMAIN cols' = DOMAIN cols \cup H /\ H \cap DOMAIN cols = {}
      /\ \A i \in DOMAIN cols \cup H : cols'[i] = IF i \in H THEN c ELSE cols[i]
  BY ColumnsAppended DEF XpressInv, Xpress!AppendCols
<1>2. XpressInv'
  BY <1>1 DEF XpressInv, XpressColumn, XpressRow
<1>3. XpressSeen /\ XpressSeen'
  BY <1>2, XpressRead, PTL
<1>4. \A h \in held : h \notin H /\ cols'[h] = cols[h] /\ XpressVariables[h] = XpressView(cols[h])
  BY <1>1, <1>3 DEF XpressSeen
<1>5. held' = held => XpressVariables' = XpressVariables
  BY <1>3, <1>4 DEF XpressSeen
<1>6. held' = held \cup H => Made(XpressVariables, XpressVariables', H, XpressView(c))
  BY <1>1, <1>3, <1>4 DEF XpressSeen, Made
<1> QED BY <1>1, <1>2, <1>5, <1>6 DEF XpressConstraints, Xpress!AppendCols

\* One column that changes.
LEMMA XpressEdits ==
    ASSUME XpressInv, NEW h \in held, NEW c \in XpressColumn, cols' = [cols EXCEPT ![h] = c],
           UNCHANGED <<rows, held>>
    PROVE  /\ XpressInv' /\ XpressConstraints' = XpressConstraints
           /\ h \in DOMAIN XpressVariables /\ XpressVariables[h] = XpressView(cols[h])
           /\ XpressVariables' = [XpressVariables EXCEPT ![h] = XpressView(c)]
<1>1. cols' \in Seq(XpressColumn) /\ DOMAIN cols' = DOMAIN cols
  BY ColumnChanged DEF XpressInv
<1>2. XpressInv'
  BY <1>1 DEF XpressInv, XpressColumn, XpressRow
<1>3. XpressSeen /\ XpressSeen'
  BY <1>2, XpressRead, PTL
<1>4. XpressVariables' = [XpressVariables EXCEPT ![h] = XpressView(c)]
  BY <1>3 DEF XpressSeen
<1> QED BY <1>2, <1>3, <1>4 DEF XpressConstraints, XpressSeen

\* The calls that change one variable.
LEMMA XpressChanges ==
    ASSUME XpressInv, NEW h \in held, UNCHANGED <<rows, offset, maximize, held>>
    PROVE  /\ \A c \in Coefs : Xpress!Change(h, "obj", c) /\ call' = <<"set_objective_coefficient", h, c>>
                                  => XpressInv' /\ Xpress!Promise!Next
           /\ \A b \in Bounds : Xpress!Change(h, "lb", b) /\ call' = <<"set_variable_lower_bound", h, b>>
                                  => XpressInv' /\ Xpress!Promise!Next
           /\ \A b \in Bounds : Xpress!Change(h, "ub", b) /\ call' = <<"set_variable_upper_bound", h, b>>
                                  => XpressInv' /\ Xpress!Promise!Next
           /\ \A t \in Xpress!Types : Xpress!SetType(h, t) => XpressInv' /\ Xpress!Promise!Next
<1>1. cols[h] \in XpressColumn /\ h \in DOMAIN XpressVariables /\ XpressVariables[h] = XpressView(cols[h])
  BY XpressRead DEF XpressSeen
<1>2. ASSUME NEW c \in XpressColumn, cols' = [cols EXCEPT ![h] = c],
             Becomes(XpressVariables, h, XpressView(c))
      PROVE  XpressInv' /\ Xpress!Promise!Next
  <2>1. /\ XpressInv' /\ XpressConstraints' = XpressConstraints
        /\ XpressVariables' = [XpressVariables EXCEPT ![h] = XpressView(c)]
    BY <1>2, XpressEdits
  <2>2. ChangesVariable(XpressVariables, XpressVariables')
    BY <1>1, <1>2, <2>1 DEF ChangesVariable
  <2> QED BY <2>1, <2>2, XpressSteps
<1>3. ASSUME NEW x \in Coefs, Xpress!Change(h, "obj", x), call' = <<"set_objective_coefficient", h, x>>
      PROVE  XpressInv' /\ Xpress!Promise!Next
  <2>1. cols' = [cols EXCEPT ![h] = [cols[h] EXCEPT !.obj = x]]
    BY <1>3 DEF Xpress!Change
  <2>2. [cols[h] EXCEPT !.obj = x] \in XpressColumn /\ Becomes(XpressVariables, h, XpressView([cols[h] EXCEPT !.obj = x]))
    <3>1. XpressView([cols[h] EXCEPT !.obj = x]) = [XpressVariables[h] EXCEPT !.obj = x]
      BY <1>1, XpressFields
    <3> QED BY <1>1, <1>3, <3>1, XpressFields DEF Becomes
  <2> QED BY <1>2, <2>1, <2>2
<1>4. ASSUME NEW x \in Bounds, Xpress!Change(h, "lb", x), call' = <<"set_variable_lower_bound", h, x>>
      PROVE  XpressInv' /\ Xpress!Promise!Next
  <2>1. cols' = [cols EXCEPT ![h] = [cols[h] EXCEPT !.lb = x]]
    BY <1>4 DEF Xpress!Change
  <2>2. [cols[h] EXCEPT !.lb = x] \in XpressColumn /\ Becomes(XpressVariables, h, XpressView([cols[h] EXCEPT !.lb = x]))
    <3>1. XpressView([cols[h] EXCEPT !.lb = x]) = [XpressVariables[h] EXCEPT !.lb = x]
      BY <1>1, XpressFields
    <3> QED BY <1>1, <1>4, <3>1, XpressFields DEF Becomes
  <2> QED BY <1>2, <2>1, <2>2
<1>5. ASSUME NEW x \in Bounds, Xpress!Change(h, "ub", x), call' = <<"set_variable_upper_bound", h, x>>
      PROVE  XpressInv' /\ Xpress!Promise!Next
  <2>1. cols' = [cols EXCEPT ![h] = [cols[h] EXCEPT !.ub = x]]
    BY <1>5 DEF Xpress!Change
  <2>2. [cols[h] EXCEPT !.ub = x] \in XpressColumn /\ Becomes(XpressVariables, h, XpressView([cols[h] EXCEPT !.ub = x]))
    <3>1. XpressView([cols[h] EXCEPT !.ub = x]) = [XpressVariables[h] EXCEPT !.ub = x]
      BY <1>1, XpressFields
    <3> QED BY <1>1, <1>5, <3>1, XpressFields DEF Becomes
  <2> QED BY <1>2, <2>1, <2>2
<1>6. ASSUME NEW t \in {"C", "I"}, Xpress!SetType(h, t) PROVE XpressInv' /\ Xpress!Promise!Next
  <2>1. /\ cols' = [cols EXCEPT ![h] = [cols[h] EXCEPT !.type = t]]
        /\ call' = <<"set_type", h, XpressType(t)>> /\ XpressType(t) \in {"continuous", "integer"} /\ t \in Xpress!Types
    BY <1>6 DEF Xpress!SetType, Xpress!OfType, XpressType, Xpress!Types
  <2>2. [cols[h] EXCEPT !.type = t] \in XpressColumn /\ Becomes(XpressVariables, h, XpressView([cols[h] EXCEPT !.type = t]))
    <3>1. XpressView([cols[h] EXCEPT !.type = t]) = [XpressVariables[h] EXCEPT !.type = XpressType(t)]
      BY <1>1, <2>1, XpressFields
    <3> QED BY <1>1, <2>1, <3>1, XpressFields DEF Becomes
  <2> QED BY <1>2, <2>1, <2>2
<1>7. ASSUME Xpress!SetType(h, "B") PROVE XpressInv' /\ Xpress!Promise!Next
  <2> DEFINE old == cols[h]
             c == [obj |-> old.obj, lb |-> 0, ub |-> 1, type |-> "B", coefs |-> old.coefs]
  <2>0. old = [obj |-> old.obj, lb |-> old.lb, ub |-> old.ub, type |-> old.type, coefs |-> old.coefs]
    BY <1>1 DEF XpressColumn
  <2>1. cols' = [cols EXCEPT ![h] = WithType(old, "B", 0, 1)] /\ call' = <<"set_binary", h>>
    BY <1>7 DEF Xpress!SetType, Xpress!OfType, WithType
  <2>2. WithType(old, "B", 0, 1) = c
    <3> HIDE DEF old
    <3> QED BY <2>0, MadeOfType
  <2>3. c \in XpressColumn
    BY <1>1, InstanceDataAssumption DEF XpressColumn, Xpress!Types
  <2>4. XpressView(c) = BinaryOf(XpressVariables[h], 0, 1)
    <3>1. XpressView(c) = Var(old.obj, 0, 1, "integer", old.coefs)
      <4> HIDE DEF old
      <4> QED BY DEF XpressView, XpressType
    <3>2. XpressVariables[h] = [obj |-> old.obj, lb |-> old.lb, ub |-> old.ub, type |-> XpressType(old.type),
                                coefs |-> old.coefs]
      BY <1>1 DEF XpressView, Var
    <3> HIDE DEF c, old
    <3> QED BY <3>1, <3>2, MadeBinary DEF Var
  <2>5. Becomes(XpressVariables, h, XpressView(c))
    <3> HIDE DEF c, old
    <3> QED BY <2>1, <2>4 DEF Becomes
  <2> HIDE DEF c
  <2> QED BY <1>2, <2>1, <2>2, <2>3, <2>5
<1> QED BY <1>3, <1>4, <1>5, <1>6, <1>7 DEF Xpress!Types

\* A column with the type that it is asked for has the parameters it is asked for.
LEMMA XpressNewColumn ==
    ASSUME NEW t \in Xpress!Types, NEW p \in Xpress!ParamsFor(t), NEW e \in [1..Len(rows) -> Coefs], NEW c,
           c = IF t # "C" THEN Xpress!OfType(Xpress!NewCol(p, e), t) ELSE Xpress!NewCol(p, e)
    PROVE  LET q == Xpress!AsAdded(p, t)
           IN  /\ c \in XpressColumn /\ Xpress!NewCol(p, e) \in XpressColumn /\ q \in XpressParameters
               /\ XpressView(c) = Var(q.obj, q.lb, q.ub, q.type, e)
               /\ [obj |-> Xpress!PassedObj(p), lb |-> Xpress!PassedLower(p), ub |-> Xpress!PassedUpper(p)] = p
<1> DEFINE q == Xpress!AsAdded(p, t)
<1>1. /\ p \in [obj : Coefs, lb : Bounds, ub : Bounds] /\ -Infinity \in Bounds /\ Infinity \in Bounds
      /\ p.ub <= Infinity /\ t \in {"C", "I", "B"} /\ (t = "B" => p = Xpress!NoParams)
  <2>1. -Infinity \in Bounds /\ Infinity \in Bounds /\ 0 \in Coefs /\ Infinity \in Int
        /\ \A r \in Params : r \in [obj : Coefs, lb : Bounds, ub : Bounds] /\ r.ub <= Infinity
    BY InstanceDataAssumption
  <2>2. CASE t = "B"
    <3>1. p = [obj |-> 0, lb |-> -Infinity, ub |-> Infinity]
      BY <2>2 DEF Xpress!ParamsFor, Xpress!NoParams
    <3> QED BY <2>1, <2>2, <3>1 DEF Xpress!NoParams
  <2>3. CASE t # "B"
    BY <2>1, <2>3 DEF Xpress!ParamsFor, Xpress!Types
  <2> QED BY <2>2, <2>3
<1>2. q \in XpressParameters
  BY DEF XpressParameters
<1>3. Xpress!NewCol(p, e) = [obj |-> p.obj, lb |-> p.lb, ub |-> p.ub, type |-> "C", coefs |-> e]
  BY DEF Xpress!NewCol
<1>4. [obj |-> Xpress!PassedObj(p), lb |-> Xpress!PassedLower(p), ub |-> Xpress!PassedUpper(p)] = p
  <2>1. p.ub \in Int /\ Infinity \in Int
    BY <1>1, InstanceDataAssumption
  <2>2. Xpress!PassedObj(p) = p.obj /\ Xpress!PassedLower(p) = p.lb /\ Xpress!PassedUpper(p) = p.ub
    BY <1>1, <2>1 DEF Xpress!PassedObj, Xpress!PassedLower, Xpress!PassedUpper
  <2> QED BY <1>1, <2>2
<1>5. Xpress!NewCol(p, e) \in XpressColumn
  BY <1>1, <1>3 DEF XpressColumn, Xpress!Types
<1>6. CASE t = "C"
  <2>1. c = Xpress!NewCol(p, e) /\ q = [obj |-> p.obj, lb |-> p.lb, ub |-> p.ub, type |-> "continuous"]
    BY <1>6 DEF Xpress!AsAdded, Xpress!Typed, Xpress!TypeOf
  <2> HIDE DEF q
  <2> QED BY <1>2, <1>3, <1>4, <1>5, <2>1 DEF XpressView, XpressType, q
<1>7. CASE t = "I"
  <2>1. q = [obj |-> p.obj, lb |-> p.lb, ub |-> p.ub, type |-> "integer"]
    BY <1>7 DEF Xpress!AsAdded, Xpress!Typed, Xpress!TypeOf
  <2>2. c = [obj |-> p.obj, lb |-> p.lb, ub |-> p.ub, type |-> "I", coefs |-> e]
    <3>1. Xpress!OfType(Xpress!NewCol(p, e), t) = [Xpress!NewCol(p, e) EXCEPT !.type = t]
      BY <1>7 DEF Xpress!OfType
    <3> QED BY <1>3, <1>7, <3>1
  <2>3. c \in XpressColumn
    BY <1>1, <2>2 DEF XpressColumn, Xpress!Types
  <2> HIDE DEF q
  <2> QED BY <1>2, <1>4, <1>5, <2>1, <2>2, <2>3 DEF XpressView, XpressType, q
<1>8. CASE t = "B"
  <2>1. q = [obj |-> 0, lb |-> 0, ub |-> 1, type |-> "integer"] /\ p.obj = 0
    BY <1>1, <1>8 DEF Xpress!AsAdded, Xpress!Typed, Xpress!TypeOf, Xpress!BinaryParams, Xpress!NoParams
  <2>2. c = WithType(Xpress!NewCol(p, e), "B", 0, 1)
    BY <1>8 DEF Xpress!OfType, WithType
  <2>3. c = [obj |-> 0, lb |-> 0, ub |-> 1, type |-> "B", coefs |-> e]
    BY <1>3, <2>1, <2>2, MadeOfType
  <2>4. c \in XpressColumn
    BY <1>1, <2>3, InstanceDataAssumption DEF XpressColumn, Xpress!Types
  <2> HIDE DEF q
  <2> QED BY <1>2, <1>4, <1>5, <2>1, <2>3, <2>4 DEF XpressView, XpressType, q
<1> QED BY <1>1, <1>6, <1>7, <1>8

\* The calls that make variables.
LEMMA XpressAdds ==
    ASSUME XpressInv, NEW t \in Xpress!Types, NEW p \in Xpress!ParamsFor(t),
           NEW e \in [1..Len(rows) -> Coefs], NEW n \in Nat \ {0}, NEW c,
           c = IF t # "C" THEN Xpress!OfType(Xpress!NewCol(p, e), t) ELSE Xpress!NewCol(p, e),
           NEW new, Copies(new, n, c), Xpress!AppendCols(new),
           NEW H, H = (Len(cols) + 1)..(Len(cols) + n), held' = held \cup H,
           UNCHANGED <<rows, offset, maximize>>,
           \/ n = 1 /\ call' = <<"add_column", Len(cols) + 1, Xpress!AsAdded(p, t), e>>
           \/ n = 1 /\ e = Xpress!Zeros /\ call' = <<"add_variable", Len(cols) + 1, Xpress!AsAdded(p, t)>>
           \/ e = Xpress!Zeros /\ call' = <<"add_variables", Len(cols) + 1, n, Xpress!AsAdded(p, t)>>
    PROVE  XpressInv' /\ Xpress!Promise!Next
<1> DEFINE first == Len(cols) + 1
           q == Xpress!AsAdded(p, t)
<1>1. c \in XpressColumn /\ q \in XpressParameters /\ XpressView(c) = Var(q.obj, q.lb, q.ub, q.type, e)
  BY XpressNewColumn
<1>2. /\ XpressInv' /\ Len(cols) \in Nat /\ Len(cols) + n <= MaxColumns
      /\ XpressConstraints' = XpressConstraints
      /\ Made(XpressVariables, XpressVariables', H, XpressView(c))
  BY <1>1, XpressAppends
<1>3. first \in 1..MaxColumns /\ first + n - 1 <= MaxColumns /\ H = first..(first + n - 1)
  BY <1>2, InstanceBoundsAssumption
<1>4. Len(XpressConstraints) = Len(rows) /\ Xpress!Zeros = [r \in 1..Len(rows) |-> 0]
  BY XpressRead DEF XpressSeen, Xpress!Zeros
<1>5. /\ first + n - 1 <= MaxColumns /\ e \in [1..Len(XpressConstraints) -> Coefs]
      /\ Made(XpressVariables, XpressVariables', first..(first + n - 1), Var(q.obj, q.lb, q.ub, q.type, e))
      /\ \/ n = 1 /\ call' = <<"add_column", first, q, e>>
         \/ /\ e = [r \in 1..Len(XpressConstraints) |-> 0]
            /\ \/ n = 1 /\ call' = <<"add_variable", first, q>>
               \/ call' = <<"add_variables", first, n, q>>
  BY <1>1, <1>2, <1>3, <1>4
<1> HIDE DEF first, q
<1>6. MakesVariables(XpressVariables, XpressVariables', XpressConstraints, XpressParameters)
  BY <1>1, <1>3, <1>5 DEF MakesVariables
<1> QED BY <1>2, <1>6, XpressSteps

LEMMA XpressVariableCalls ==
    ASSUME XpressInv, NEW t \in Xpress!Types, NEW p \in Xpress!ParamsFor(t)
    PROVE  /\ Xpress!AddVariable(p, t) => XpressInv' /\ Xpress!Promise!Next
           /\ Xpress!AddVariableRefused(p, t) => XpressInv' /\ Xpress!Promise!Next
           /\ \A n \in 1..MaxColumns : Xpress!AddVariables(n, p, t) => XpressInv' /\ Xpress!Promise!Next
           /\ \A e \in [1..Len(rows) -> Coefs] :
                 t = "C" /\ Xpress!AddColumn(p, e) => XpressInv' /\ Xpress!Promise!Next
<1> DEFINE made(e) == IF t # "C" THEN Xpress!OfType(Xpress!NewCol(p, e), t) ELSE Xpress!NewCol(p, e)
           zeros == Xpress!Zeros
<1>0. zeros \in [1..Len(rows) -> Coefs] /\ 1 \in Nat \ {0} /\ (\A c : Copies(<<c>>, 1, c)) /\ Len(cols) \in Nat
  BY InstanceDataAssumption, XpressRead DEF Xpress!Zeros, Copies, XpressSeen
<1>1. ASSUME Xpress!AddVariable(p, t) PROVE XpressInv' /\ Xpress!Promise!Next
  <2>1. /\ Xpress!AppendCols(<<made(zeros)>>) /\ held' = held \cup {Len(cols) + 1}
        /\ UNCHANGED <<rows, offset, maximize>>
        /\ call' = <<"add_variable", Len(cols) + 1, Xpress!AsAdded(p, t)>>
    BY <1>1 DEF Xpress!AddVariable
  <2>2. {Len(cols) + 1} = (Len(cols) + 1)..(Len(cols) + 1)
    BY <1>0
  <2> QED BY <1>0, <2>1, <2>2, XpressAdds
<1>2. ASSUME Xpress!AddVariableRefused(p, t) PROVE XpressInv' /\ Xpress!Promise!Next
  <2> DEFINE c == Xpress!NewCol(p, zeros)
  <2>1. /\ Xpress!AppendCols(<<c>>) /\ UNCHANGED <<rows, offset, maximize, held>> /\ call' = <<"rejected">>
    BY <1>2 DEF Xpress!AddVariableRefused
  <2>2. c \in XpressColumn
    BY <1>0, XpressNewColumn
  <2> HIDE DEF c
  <2>3. XpressInv' /\ XpressConstraints' = XpressConstraints /\ XpressVariables' = XpressVariables
    BY <1>0, <2>1, <2>2, XpressAppends
  <2> QED BY <2>1, <2>3, XpressSteps
<1>3. ASSUME NEW n \in 1..MaxColumns, Xpress!AddVariables(n, p, t) PROVE XpressInv' /\ Xpress!Promise!Next
  <2>0. n \in Nat \ {0}
    BY InstanceBoundsAssumption
  <2> DEFINE new == [k \in 1..n |-> made(zeros)]
             passed_ == [obj |-> Xpress!PassedObj(p), lb |-> Xpress!PassedLower(p), ub |-> Xpress!PassedUpper(p)]
  <2>1. passed_ = p
    BY <1>0, XpressNewColumn
  <2>2. /\ Xpress!AppendCols(new) /\ held' = held \cup (Len(cols) + 1)..(Len(cols) + n)
        /\ UNCHANGED <<rows, offset, maximize>>
        /\ call' = <<"add_variables", Len(cols) + 1, n, Xpress!AsAdded(p, t)>>
    <3>1. Xpress!NewCol(passed_, zeros) = Xpress!NewCol(p, zeros)
      BY <2>1
    <3>2. \A k \in 1..n : (IF t # "C" THEN Xpress!OfType([i \in 1..n |-> Xpress!NewCol(passed_, zeros)][k], t)
                                      ELSE [i \in 1..n |-> Xpress!NewCol(passed_, zeros)][k]) = made(zeros)
      BY <3>1
    <3> QED BY <1>3, <3>2 DEF Xpress!AddVariables
  <2>3. Copies(new, n, made(zeros))
    BY DEF Copies
  <2> HIDE DEF new
  <2> QED BY <1>0, <2>0, <2>2, <2>3, XpressAdds
<1>4. ASSUME NEW e \in [1..Len(rows) -> Coefs], t = "C", Xpress!AddColumn(p, e) PROVE XpressInv' /\ Xpress!Promise!Next
  <2>1. /\ Xpress!AppendCols(<<made(e)>>) /\ held' = held \cup {Len(cols) + 1}
        /\ UNCHANGED <<rows, offset, maximize>>
        /\ call' = <<"add_column", Len(cols) + 1, Xpress!AsAdded(p, t), e>>
    BY <1>4 DEF Xpress!AddColumn
  <2>2. {Len(cols) + 1} = (Len(cols) + 1)..(Len(cols) + 1)
    BY <1>0
  <2> QED BY <1>0, <2>1, <2>2, XpressAdds
<1> QED BY <1>1, <1>2, <1>3, <1>4

\* A new objective, and one that is read back and added to.
LEMMA XpressObjective ==
    ASSUME XpressInv, NEW e \in Xpress!ExpressionsOver(held),
           Xpress!SetObjective(e) \/ Xpress!AddObjective(e)
    PROVE  XpressInv' /\ Xpress!Promise!Next
<1>1. XpressSeen
  BY XpressRead
<1>2. PICK coef : /\ Xpress!PutObjective(coef) /\ UNCHANGED <<rows, maximize, held>>
                  /\ \/ /\ call' = <<"set_objective", e>> /\ offset' = e.constant
                        /\ \A h \in DOMAIN cols : coef[h] = CoefficientOf(e.terms, h)
                     \/ /\ call' = <<"add_objective", e>> /\ offset' = offset + e.constant
                        /\ \A h \in DOMAIN cols : coef[h] = cols[h].obj + CoefficientOf(e.terms, h)
  <2>1. CASE Xpress!SetObjective(e)
    <3> DEFINE coef == [i \in DOMAIN cols |-> Xpress!CoefficientOf(e.terms, i)]
    <3>1. \A h \in DOMAIN cols : coef[h] = CoefficientOf(e.terms, h)
      BY XpressSame
    <3>2. Xpress!PutObjective(coef) /\ UNCHANGED <<rows, maximize, held>>
          /\ call' = <<"set_objective", e>> /\ offset' = e.constant
      BY <2>1 DEF Xpress!SetObjective
    <3> HIDE DEF coef
    <3> QED BY <3>1, <3>2
  <2>2. CASE Xpress!AddObjective(e)
    <3> DEFINE coef == [i \in DOMAIN cols |-> cols[i].obj + Xpress!CoefficientOf(e.terms, i)]
    <3>1. \A h \in DOMAIN cols : coef[h] = cols[h].obj + CoefficientOf(e.terms, h)
      BY XpressSame
    <3>2. Xpress!PutObjective(coef) /\ UNCHANGED <<rows, maximize, held>>
          /\ call' = <<"add_objective", e>> /\ offset' = offset + e.constant
      BY <2>2 DEF Xpress!AddObjective
    <3> HIDE DEF coef
    <3> QED BY <3>1, <3>2
  <2> QED BY <2>1, <2>2
<1> DEFINE f == [i \in DOMAIN cols |-> [cols[i] EXCEPT !.obj = coef[i]]]
<1>3. cols' = f /\ \A i \in DOMAIN cols : coef[i] \in Coefs
  BY <1>2 DEF Xpress!PutObjective
<1>4. \A i \in DOMAIN cols : f[i] \in XpressColumn /\ XpressView(f[i]) = [XpressView(cols[i]) EXCEPT !.obj = coef[i]]
  BY <1>1, <1>3, XpressFields DEF XpressSeen
<1>5. cols' = [i \in DOMAIN cols |-> f[i]]
  BY <1>3
<1> HIDE DEF f
<1>6. cols' \in Seq(XpressColumn) /\ DOMAIN cols' = DOMAIN cols
  BY <1>4, <1>5, ColumnsMapped DEF XpressInv
<1>7. XpressInv'
  BY <1>2, <1>6 DEF XpressInv, XpressColumn, XpressRow
<1>8. XpressSeen'
  BY <1>7, XpressRead, PTL
<1>9. DOMAIN XpressVariables = held /\ XpressConstraints' = XpressConstraints
  BY <1>2 DEF XpressVariables, XpressConstraints
<1>10. XpressVariables' = Priced(XpressVariables, coef)
  BY <1>1, <1>2, <1>4, <1>5, <1>8, <1>9 DEF XpressSeen, Priced
<1>11. ObjectiveOf(XpressVariables, e, coef)
  <2>1. \A h \in held : h \in DOMAIN cols /\ XpressVariables[h].obj = cols[h].obj
    BY <1>1 DEF XpressSeen, XpressView, Var
  <2> QED BY <1>2, <1>9, <2>1 DEF ObjectiveOf
<1>12. e \in ExpressionsOver(DOMAIN XpressVariables)
  BY <1>9, XpressSame
<1>13. ChangesObjective(XpressVariables, XpressVariables')
  BY <1>10, <1>11, <1>12 DEF ChangesObjective
<1> QED BY <1>2, <1>7, <1>9, <1>13, XpressSteps

\* Rows behind those there are, with the sums of their terms as entries.
LEMMA XpressRows ==
    ASSUME XpressInv, NEW lcs \in Xpress!BatchesOver(held), NEW d \in BOOLEAN, Xpress!AddConstraints(lcs, d)
    PROVE  XpressInv' /\ Xpress!Promise!Next
<1> DEFINE n == Len(rows)
           m == Len(lcs)
           new == [r \in DOMAIN lcs |-> [sense |-> Xpress!XpressSense(lcs[r].sense), rhs |-> lcs[r].rhs]]
           coef == [i \in DOMAIN cols |-> [r \in DOMAIN lcs |-> Xpress!Registered(lcs[r].terms, i, d)]]
           f == [i \in DOMAIN cols |-> [cols[i] EXCEPT !.coefs = @ \o coef[i]]]
<1>1. XpressSeen
  BY XpressRead
<1>2. /\ m \in Nat /\ DOMAIN lcs = 1..m /\ lcs = [r \in 1..m |-> lcs[r]]
      /\ \A r \in DOMAIN lcs :
            /\ lcs[r] \in ConstraintsOver(held)
            /\ lcs[r].terms \in ExpressionsOver(held) /\ MayPass(lcs[r].terms, d)
            /\ lcs[r].sense \in Senses /\ lcs[r].rhs \in Rhs
  BY BatchesTyped, XpressSame DEF Xpress!AddConstraints
<1>3. /\ call' = <<"add_constraints", lcs>> /\ UNCHANGED <<offset, maximize, held>>
      /\ rows' = rows \o new /\ cols' = f /\ cols' = [i \in DOMAIN cols |-> f[i]]
      /\ \A r \in DOMAIN new, i \in DOMAIN cols : coef[i][r] \in Coefs
  BY DEF Xpress!AddConstraints, Xpress!AppendRows
<1>4. /\ Listed(new, m)
      /\ \A r \in 1..m : new[r] \in XpressRow /\ XpressConstraint(new[r]) = Asked(lcs, m)[r]
  <2>1. ASSUME NEW r \in 1..m PROVE new[r] \in XpressRow /\ XpressConstraint(new[r]) = Asked(lcs, m)[r]
    <3>1. new[r] = [sense |-> Xpress!XpressSense(lcs[r].sense), rhs |-> lcs[r].rhs]
          /\ Asked(lcs, m)[r] = [sense |-> lcs[r].sense, rhs |-> lcs[r].rhs]
      BY <1>2 DEF Asked
    <3>2. /\ Xpress!XpressSense(lcs[r].sense) \in {"L", "E", "G"}
          /\ Xpress!SenseOf(Xpress!XpressSense(lcs[r].sense)) = lcs[r].sense
      BY <1>2 DEF Senses, Xpress!XpressSense, Xpress!SenseOf
    <3> HIDE DEF new
    <3> QED BY <1>2, <3>1, <3>2 DEF XpressRow, XpressConstraint
  <2> QED BY <1>2, <2>1 DEF Listed
<1>5. \A i \in DOMAIN cols : /\ EntriesFor(coef[i], lcs, m, i)
                             /\ \A r \in 1..m : coef[i][r] \in Coefs
  <2>1. ASSUME NEW i \in DOMAIN cols, NEW r \in 1..m
        PROVE  Xpress!Registered(lcs[r].terms, i, d) = CoefficientOf(lcs[r].terms.terms, i)
    BY <1>2, RegisteredIsSum, XpressSame
  <2> QED BY <1>2, <1>3, <2>1 DEF EntriesFor
<1>6. /\ n \in Nat /\ Len(rows') = n + m /\ rows' \in Seq(XpressRow)
      /\ Behind(rows', rows, new, n, m)
  <2> HIDE DEF new, m
  <2> QED BY <1>2, <1>3, <1>4, RowsAppended DEF XpressInv
<1> HIDE DEF m, new, coef
<1>7. \A i \in DOMAIN cols : /\ f[i] = [cols[i] EXCEPT !.coefs = RowsBehind(@, n, lcs, m, i)]
                             /\ RowsBehind(cols[i].coefs, n, lcs, m, i) \in [1..(n + m) -> Coefs]
  <2>1. ASSUME NEW i \in DOMAIN cols
        PROVE  /\ cols[i].coefs \o coef[i] = RowsBehind(cols[i].coefs, n, lcs, m, i)
               /\ cols[i].coefs \o coef[i] \in [1..(n + m) -> Coefs]
    <3>1. cols[i].coefs \in [1..n -> Coefs]
      BY <1>1 DEF XpressSeen, XpressColumn
    <3> QED BY <1>2, <1>5, <1>6, <3>1, EntriesAppended
  <2> HIDE DEF n
  <2> QED BY <2>1
<1> HIDE DEF f
<1>8. XpressInv'
  <2>1. XpressColumn' = [obj : Coefs, lb : Bounds, ub : Bounds, type : Xpress!Types, coefs : [1..(n + m) -> Coefs]]
    BY <1>6 DEF XpressColumn, Xpress!Types
  <2>2. \A i \in DOMAIN cols : f[i] \in XpressColumn'
    BY <1>1, <1>7, <2>1 DEF XpressSeen, XpressColumn
  <2>3. cols' \in Seq(XpressColumn') /\ DOMAIN cols' = DOMAIN cols
    BY <1>3, <2>2, ColumnsMapped DEF XpressInv
  <2> QED BY <1>3, <1>6, <2>3 DEF XpressInv, XpressRow
<1>9. XpressSeen'
  BY <1>8, XpressRead, PTL
<1>10. XpressVariables' = Extended(XpressVariables, n, lcs, m)
  <2>1. XpressVariables' = [h \in held |-> XpressView(f[h])]
    BY <1>1, <1>3, <1>9 DEF XpressSeen
  <2>2. ASSUME NEW h \in held
        PROVE  XpressView(f[h]) = [XpressVariables[h] EXCEPT !.coefs = RowsBehind(@, n, lcs, m, h)]
    <3>1. h \in DOMAIN cols /\ cols[h] \in XpressColumn /\ XpressVariables[h] = XpressView(cols[h])
          /\ XpressView(cols[h]).coefs = cols[h].coefs
      BY <1>1 DEF XpressSeen, XpressView, Var
    <3>2. f[h] = [cols[h] EXCEPT !.coefs = RowsBehind(cols[h].coefs, n, lcs, m, h)]
      BY <1>7, <3>1
    <3> QED BY <3>1, <3>2, XpressFields
  <2>3. DOMAIN XpressVariables = held
    BY DEF XpressVariables
  <2> HIDE DEF n
  <2> QED BY <2>1, <2>2, <2>3 DEF Extended
<1>11. Len(XpressConstraints) = n /\ XpressConstraints' = XpressConstraints \o Asked(lcs, m)
  <2>1. /\ XpressConstraints = [r \in 1..n |-> XpressConstraint(rows[r])]
        /\ XpressConstraints' = [r \in 1..(n + m) |-> XpressConstraint(rows'[r])]
    BY <1>1, <1>6, <1>9 DEF XpressSeen, XpressConstraint
  <2>2. \A r \in 1..(n + m) : ~(r <= n) => r - n \in 1..m
    BY <1>2, <1>6
  <2>3. \A r \in 1..n : r \in 1..(n + m) /\ r <= n
    BY <1>2, <1>6
  <2> HIDE DEF n
  <2>4. Behind(XpressConstraints', XpressConstraints, Asked(lcs, m), n, m)
    <3>1. \A r \in 1..(n + m) : r <= n => r \in 1..n
      BY <1>6
    <3> QED BY <1>4, <1>6, <2>1, <2>2, <3>1 DEF Behind
  <2>5. Listed(XpressConstraints, n) /\ Listed(XpressConstraints', n + m)
    BY <2>1 DEF Listed
  <2> QED BY <1>2, <1>6, <2>4, <2>5, ConstraintsAppended
<1>12. lcs \in [1..m -> ConstraintsOver(DOMAIN XpressVariables)]
  BY <1>2 DEF XpressVariables
<1>13. MakesRows(XpressVariables, XpressVariables', XpressConstraints, XpressConstraints')
  <2>1. /\ XpressVariables' = Extended(XpressVariables, Len(XpressConstraints), lcs, m)
        /\ XpressConstraints' = XpressConstraints \o Asked(lcs, m)
        /\ call' = <<"add_constraints", lcs>>
    BY <1>3, <1>10, <1>11
  <2> QED BY <1>2, <1>12, <2>1 DEF MakesRows
<1> QED BY <1>3, <1>8, <1>13, XpressSteps

LEMMA XpressNext == ASSUME XpressInv, Xpress!Next PROVE XpressInv' /\ Xpress!Promise!Next
<1>0. \A h \in held : h \in DOMAIN cols
  BY DEF XpressInv
<1>1. ASSUME NEW k \in Constants, Xpress!SetObjectiveOffset(k), held' = held PROVE XpressInv' /\ Xpress!Promise!Next
  <2>1. XpressInv'
    BY <1>1 DEF Xpress!SetObjectiveOffset, XpressInv, XpressColumn, XpressRow
  <2>2. XpressVariables' = XpressVariables /\ XpressConstraints' = XpressConstraints
        /\ SetsOffset /\ UNCHANGED maximize
    BY <1>1 DEF Xpress!SetObjectiveOffset, SetsOffset, XpressVariables, XpressConstraints, Xpress!VariableOf
  <2> QED BY <2>1, <2>2, XpressSteps
<1>2. ASSUME NEW k \in BOOLEAN, Xpress!SetDirection(k), held' = held PROVE XpressInv' /\ Xpress!Promise!Next
  <2>1. XpressInv'
    BY <1>2 DEF Xpress!SetDirection, XpressInv, XpressColumn, XpressRow
  <2>2. XpressVariables' = XpressVariables /\ XpressConstraints' = XpressConstraints
        /\ SetsDirection /\ UNCHANGED offset
    BY <1>2 DEF Xpress!SetDirection, SetsDirection, XpressVariables, XpressConstraints, Xpress!VariableOf
  <2> QED BY <2>1, <2>2, XpressSteps
<1>3. ASSUME NEW h \in held, NEW c \in Coefs, Xpress!SetObjectiveCoefficient(h, c), held' = held
      PROVE  XpressInv' /\ Xpress!Promise!Next
  BY <1>3, XpressChanges DEF Xpress!SetObjectiveCoefficient
<1>4. ASSUME NEW h \in held, NEW side \in {"lb", "ub"}, NEW b \in Bounds, Xpress!SetVariableBound(h, side, b)
      PROVE  XpressInv' /\ Xpress!Promise!Next
  <2>1. UNCHANGED <<rows, offset, maximize, held>>
    BY <1>4 DEF Xpress!SetVariableBound
  <2>2. CASE side = "lb"
    BY <1>4, <2>1, <2>2, XpressChanges DEF Xpress!SetVariableBound
  <2>3. CASE side = "ub"
    BY <1>4, <2>1, <2>3, XpressChanges DEF Xpress!SetVariableBound
  <2> QED BY <2>2, <2>3
<1>5. ASSUME NEW h \in held, NEW t \in Xpress!Types, Xpress!SetType(h, t) PROVE XpressInv' /\ Xpress!Promise!Next
  BY <1>5, XpressChanges DEF Xpress!SetType
<1>6. \A p \in Params : p \in Xpress!ParamsFor("C") /\ "C" \in Xpress!Types
  BY DEF Xpress!ParamsFor, Xpress!Types
<1> QED BY <1>1, <1>2, <1>3, <1>4, <1>5, <1>6, XpressVariableCalls, XpressObjective, XpressRows
        DEF Xpress!Next, Xpress!Batches

\* Xpress's model keeps its promise: a variable has the parameters and the type it was
\* asked for although its type is a second call, and a type that is refused leaves a
\* column behind that no later call of the client reaches.
THEOREM XpressKept == Spec => XpressKeepsPromise
<1> DEFINE I == solver = "xpress" => XpressInv
<1>1. Init => I
  <2>1. cols = <<>> /\ rows = <<>> /\ held = {} => XpressInv
    BY DEF XpressInv
  <2> QED BY <2>1 DEF Init, Xpress!Init, Xpress!InstanceInit
<1>2. ASSUME I, [Next]_all PROVE I' /\ (solver = "xpress" => [Xpress!Promise!Next]_(Xpress!Promise!vars))
  <2> SUFFICES ASSUME solver' = "xpress" PROVE XpressInv' /\ [Xpress!Promise!Next]_(Xpress!Promise!vars)
    BY <1>2 DEF Next, all
  <2>1. solver = "xpress" /\ XpressInv
    BY <1>2 DEF Next, all
  <2>2. CASE Xpress!Next
    BY <2>1, <2>2, XpressNext
  <2>3. CASE UNCHANGED all
    <3>1. XpressInv'
      BY <2>1, <2>3 DEF all, vars, instance, lists, XpressInv, XpressColumn, XpressRow
    <3>2. UNCHANGED Xpress!Promise!vars
      BY <2>3 DEF all, vars, instance, lists, Xpress!Promise!vars, Xpress!VariableOf
    <3> QED BY <3>1, <3>2
  <2> QED BY <1>2, <2>1, <2>2, <2>3 DEF Next
<1> QED BY <1>1, <1>2, PTL DEF Spec, XpressKeepsPromise

----------------------------------------------------------------------------
(* GLPK.  A variable has bounds of one of five kinds, and what a client    *)
(* reads of it depends on the kind: the setters make two bounds of any,    *)
(* and the bounds that they leave alone read as before.                    *)

GlpkVariables == [h \in DOMAIN cols |-> Glpk!VariableOf(h)]
GlpkConstraints == [r \in DOMAIN rows |-> [sense |-> Glpk!SenseOf(rows[r].type), rhs |-> rows[r].rhs]]
GlpkParameters == {Glpk!AsAdded(p, k) : p \in BoundKinds \cup {Glpk!BinaryParams}, k \in Glpk!Kinds}

\* What is passed and registered, and what the client may write, are the same for every
\* solver.
LEMMA GlpkSame ==
    /\ \A e, v, d : Glpk!Registered(e, v, d) = Registered(e, v, d)
    /\ \A t, v : Glpk!CoefficientOf(t, v) = CoefficientOf(t, v)
    /\ \A e, v : Glpk!Coefficient(e, v) = CoefficientOf(e.terms, v)
    /\ \A e, d : Glpk!MayPass(e, d) = MayPass(e, d)
    /\ \A X : Glpk!ExpressionsOver(X) = ExpressionsOver(X)
    /\ \A X : Glpk!ConstraintsOver(X) = ConstraintsOver(X)
    /\ \A X : Glpk!BatchesOver(X) = BatchesOver(X)
<1>1. ASSUME NEW t, NEW K PROVE Glpk!SumAt(t, K) = SumAt(t, K)
  BY DEF SumAt, MapThenSumSet, MapThenFoldSet, Glpk!SumAt, Glpk!MapThenSumSet, Glpk!MapThenFoldSet
<1>2. ASSUME NEW t, NEW v PROVE Glpk!CoefficientOf(t, v) = CoefficientOf(t, v)
  BY <1>1 DEF CoefficientOf, Glpk!CoefficientOf
<1>3. ASSUME NEW t, NEW v PROVE Glpk!LastOf(t, v) = LastOf(t, v)
  BY DEF LastOf, Glpk!LastOf, Max, Glpk!Max
<1>4. ASSUME NEW e, NEW d PROVE Glpk!MayPass(e, d) = MayPass(e, d)
  BY DEF MayPass, Glpk!MayPass, IsDistinct, Glpk!IsDistinct
<1>5. ASSUME NEW e, NEW v, NEW d PROVE Glpk!Registered(e, v, d) = Registered(e, v, d)
  BY <1>2, <1>3 DEF Registered, Glpk!Registered
<1>6. ASSUME NEW X PROVE Glpk!ExpressionsOver(X) = ExpressionsOver(X)
  BY DEF ExpressionsOver, Glpk!ExpressionsOver, Expressions, Glpk!Expressions
<1>7. ASSUME NEW X PROVE Glpk!ConstraintsOver(X) = ConstraintsOver(X)
  BY <1>6 DEF ConstraintsOver, Glpk!ConstraintsOver, Senses, Glpk!Senses
<1>8. ASSUME NEW X PROVE Glpk!BatchesOver(X) = BatchesOver(X)
  BY <1>7 DEF BatchesOver, Glpk!BatchesOver
<1> QED BY <1>2, <1>4, <1>5, <1>6, <1>7, <1>8 DEF Glpk!Coefficient

\* What the client sees of a call is what the model promises.
LEMMA GlpkSteps ==
    /\ /\ MakesVariables(GlpkVariables, GlpkVariables', GlpkConstraints, GlpkParameters)
       /\ GlpkConstraints' = GlpkConstraints /\ UNCHANGED <<offset, maximize>>
       => Glpk!Promise!Next
    /\ /\ ChangesVariable(GlpkVariables, GlpkVariables')
       /\ GlpkConstraints' = GlpkConstraints /\ UNCHANGED <<offset, maximize>>
       => Glpk!Promise!Next
    /\ /\ ChangesObjective(GlpkVariables, GlpkVariables')
       /\ GlpkConstraints' = GlpkConstraints /\ UNCHANGED maximize
       => Glpk!Promise!Next
    /\ /\ MakesRows(GlpkVariables, GlpkVariables', GlpkConstraints, GlpkConstraints')
       /\ UNCHANGED <<offset, maximize>>
       => Glpk!Promise!Next
    /\ /\ GlpkVariables' = GlpkVariables /\ GlpkConstraints' = GlpkConstraints
       /\ \/ call' = <<"rejected">> /\ UNCHANGED <<offset, maximize>>
          \/ SetsOffset /\ UNCHANGED maximize
          \/ SetsDirection /\ UNCHANGED offset
       => Glpk!Promise!Next
<1> DEFINE V == GlpkVariables
           C == GlpkConstraints
<1>0. /\ Glpk!Promise!Held = DOMAIN V /\ Glpk!Promise!Linear!Held = DOMAIN V
      /\ Glpk!Promise!Linear!Zeros = [r \in 1..Len(C) |-> 0]
  BY DEF Glpk!Promise!Held, Glpk!Promise!Linear!Held, Glpk!Promise!Linear!Zeros,
         GlpkVariables, GlpkConstraints
<1>a. ASSUME NEW p \in BoundKinds \cup {Glpk!BinaryParams}, NEW k \in Glpk!Kinds, NEW h \in 1..MaxColumns,
             UNCHANGED <<offset, maximize>>
      PROVE  /\ Glpk!Promise!Linear!AddVariable(h, Glpk!AsAdded(p, k)) => Glpk!Promise!LinearCall
             /\ \A last \in 1..MaxColumns :
                   h <= last /\ Glpk!Promise!Linear!AddVariables(h, last - h + 1, Glpk!AsAdded(p, k))
                   => Glpk!Promise!LinearCall
             /\ /\ call'[1] = "add_column" /\ call'[4] \in [1..Len(GlpkConstraints) -> Coefs]
                /\ Glpk!Promise!Linear!AddColumn(h, Glpk!AsAdded(p, k), call'[4])
                => Glpk!Promise!LinearCall
  <2>1. ASSUME Glpk!Promise!Linear!AddVariable(h, Glpk!AsAdded(p, k)) PROVE Glpk!Promise!LinearCall
    BY <1>a, <2>1 DEF Glpk!Promise!LinearCall
  <2>2. ASSUME NEW last \in 1..MaxColumns, h <= last,
               Glpk!Promise!Linear!AddVariables(h, last - h + 1, Glpk!AsAdded(p, k))
        PROVE  Glpk!Promise!LinearCall
    BY <1>a, <2>2 DEF Glpk!Promise!LinearCall
  <2>3. ASSUME call'[1] = "add_column", call'[4] \in [1..Len(GlpkConstraints) -> Coefs],
               Glpk!Promise!Linear!AddColumn(h, Glpk!AsAdded(p, k), call'[4])
        PROVE  Glpk!Promise!LinearCall
    BY <1>a, <2>3 DEF Glpk!Promise!LinearCall, GlpkConstraints
  <2> QED BY <2>1, <2>2, <2>3
<1>b. ASSUME NEW q \in GlpkParameters, NEW h \in 1..MaxColumns, UNCHANGED <<offset, maximize>>,
             \/ Glpk!Promise!Linear!AddVariable(h, q)
             \/ \E last \in 1..MaxColumns : h <= last /\ Glpk!Promise!Linear!AddVariables(h, last - h + 1, q)
             \/ /\ call'[1] = "add_column" /\ call'[4] \in [1..Len(GlpkConstraints) -> Coefs]
                /\ Glpk!Promise!Linear!AddColumn(h, q, call'[4])
      PROVE  Glpk!Promise!LinearCall
  <2>1. PICK p \in BoundKinds \cup {Glpk!BinaryParams}, k \in Glpk!Kinds : q = Glpk!AsAdded(p, k)
    BY DEF GlpkParameters
  <2> QED BY <1>a, <1>b, <2>1
<1>1. ASSUME MakesVariables(V, V', C, GlpkParameters), C' = C, UNCHANGED <<offset, maximize>>
      PROVE  Glpk!Promise!LinearCall
  <2>1. PICK first \in 1..MaxColumns, n \in Nat \ {0}, q \in GlpkParameters, e \in [1..Len(C) -> Coefs] :
           /\ first + n - 1 <= MaxColumns
           /\ Made(V, V', first..(first + n - 1), Var(q.obj, q.lb, q.ub, q.type, e))
           /\ \/ n = 1 /\ call' = <<"add_column", first, q, e>>
              \/ /\ e = [r \in 1..Len(C) |-> 0]
                 /\ \/ n = 1 /\ call' = <<"add_variable", first, q>>
                    \/ call' = <<"add_variables", first, n, q>>
    BY <1>1 DEF MakesVariables
  <2> DEFINE last == first + n - 1
             H == first..last
  <2>2. /\ first \in Int /\ n \in Int /\ last \in 1..MaxColumns /\ first <= last /\ n = last - first + 1
        /\ (n = 1 => H = {first}) /\ H = first..(first + n - 1)
    BY <2>1, InstanceBoundsAssumption
  <2>3. Glpk!Promise!Linear!Add(H, Glpk!Promise!Linear!NewVariable(q, e))
    BY <1>0, <1>1, <2>1 DEF Made, Var, Glpk!Promise!Linear!Add, Glpk!Promise!Linear!NewVariable,
       GlpkVariables, GlpkConstraints
  <2> HIDE DEF last, H
  <2>4. CASE n = 1 /\ call' = <<"add_column", first, q, e>>
    <3>1. call'[1] = "add_column" /\ call'[4] = e /\ H = {first}
      BY <2>2, <2>4
    <3>2. Glpk!Promise!Linear!AddColumn(first, q, call'[4])
      BY <2>3, <2>4, <3>1 DEF Glpk!Promise!Linear!AddColumn
    <3>3. call'[4] \in [1..Len(C) -> Coefs]
      BY <3>1
    <3> QED BY <1>1, <1>b, <3>1, <3>2, <3>3
  <2>5. CASE n = 1 /\ e = [r \in 1..Len(C) |-> 0] /\ call' = <<"add_variable", first, q>>
    <3>1. Glpk!Promise!Linear!AddVariable(first, q)
      BY <1>0, <2>2, <2>3, <2>5 DEF Glpk!Promise!Linear!AddVariable
    <3> QED BY <1>1, <1>b, <3>1
  <2>6. CASE e = [r \in 1..Len(C) |-> 0] /\ call' = <<"add_variables", first, n, q>>
    <3>1. Glpk!Promise!Linear!AddVariables(first, last - first + 1, q)
      BY <1>0, <2>2, <2>3, <2>6 DEF Glpk!Promise!Linear!AddVariables
    <3> QED BY <1>1, <1>b, <2>2, <3>1
  <2> QED BY <2>1, <2>4, <2>5, <2>6
<1>2. ASSUME ChangesVariable(V, V'), C' = C, UNCHANGED <<offset, maximize>>
      PROVE  Glpk!Promise!Next
  <2>0. PICK h \in DOMAIN V : \E v : V' = [V EXCEPT ![h] = v] /\ Becomes(V, h, v)
    BY <1>2 DEF ChangesVariable
  <2>1. PICK v : V' = [V EXCEPT ![h] = v] /\ Becomes(V, h, v)
    BY <2>0
  <2>2. ASSUME NEW c \in Coefs, v = [V[h] EXCEPT !.obj = c], call' = <<"set_objective_coefficient", h, c>>
        PROVE  Glpk!Promise!LinearCall
    <3>1. Glpk!Promise!Linear!SetObjectiveCoefficient(h, c)
      BY <1>2, <2>1, <2>2 DEF Glpk!Promise!Linear!SetObjectiveCoefficient, GlpkVariables, GlpkConstraints
    <3> QED BY <1>0, <1>2, <3>1 DEF Glpk!Promise!LinearCall
  <2>3. ASSUME NEW b \in Bounds, v = [V[h] EXCEPT !.lb = b], call' = <<"set_variable_lower_bound", h, b>>
        PROVE  Glpk!Promise!LinearCall
    <3>1. Glpk!Promise!Linear!SetVariableLowerBound(h, b)
      BY <1>2, <2>1, <2>3 DEF Glpk!Promise!Linear!SetVariableLowerBound, GlpkVariables, GlpkConstraints
    <3> QED BY <1>0, <1>2, <3>1 DEF Glpk!Promise!LinearCall
  <2>4. ASSUME NEW b \in Bounds, v = [V[h] EXCEPT !.ub = b], call' = <<"set_variable_upper_bound", h, b>>
        PROVE  Glpk!Promise!LinearCall
    <3>1. Glpk!Promise!Linear!SetVariableUpperBound(h, b)
      BY <1>2, <2>1, <2>4 DEF Glpk!Promise!Linear!SetVariableUpperBound, GlpkVariables, GlpkConstraints
    <3> QED BY <1>0, <1>2, <3>1 DEF Glpk!Promise!LinearCall
  <2>5. ASSUME NEW t \in {"continuous", "integer"}, v = [V[h] EXCEPT !.type = t], call' = <<"set_type", h, t>>
        PROVE  Glpk!Promise!Next
    <3>1. Glpk!Promise!SetType(h, t)
      BY <1>2, <2>1, <2>5 DEF Glpk!Promise!SetType, GlpkVariables, GlpkConstraints
    <3> QED BY <1>0, <3>1 DEF Glpk!Promise!Next
  <2>6. ASSUME NEW lb \in {0, V[h].lb}, NEW ub \in {1, V[h].ub}, 0 <= lb, ub <= 1,
               v = BinaryOf(V[h], lb, ub), call' = <<"set_binary", h>>
        PROVE  Glpk!Promise!Next
    <3>1. Glpk!Promise!SetBinary(h)
      BY <1>2, <2>1, <2>6 DEF Glpk!Promise!SetBinary, BinaryOf, GlpkVariables, GlpkConstraints
    <3> QED BY <1>0, <3>1 DEF Glpk!Promise!Next
  <2>7. Glpk!Promise!LinearCall => Glpk!Promise!Next
    BY DEF Glpk!Promise!Next
  <2> HIDE DEF V, C
  <2> QED BY <2>1, <2>2, <2>3, <2>4, <2>5, <2>6, <2>7 DEF Becomes
<1>3. ASSUME ChangesObjective(V, V'), C' = C, UNCHANGED maximize PROVE Glpk!Promise!Next
  <2>0. PICK e \in ExpressionsOver(DOMAIN V) : \E coef : V' = Priced(V, coef) /\ ObjectiveOf(V, e, coef)
    BY <1>3 DEF ChangesObjective
  <2>1. PICK coef : V' = Priced(V, coef) /\ ObjectiveOf(V, e, coef)
    BY <2>0
  <2>2. call'[2] = e /\ e \in Glpk!ExpressionsOver(Glpk!Promise!Held)
    BY <1>0, <2>1, GlpkSame DEF ObjectiveOf
  <2>3. V' = [h \in DOMAIN V |-> [V[h] EXCEPT !.obj = coef[h]]]
    BY <2>1 DEF Priced
  <2>4. CASE /\ call' = <<"set_objective", e>> /\ offset' = e.constant
             /\ \A h \in DOMAIN V : coef[h] = CoefficientOf(e.terms, h)
    <3>1. V' = [h \in DOMAIN V |-> [V[h] EXCEPT !.obj = Glpk!Coefficient(e, h)]]
      BY <2>3, <2>4, GlpkSame
    <3>2. Glpk!Promise!Linear!SetObjective(e)
      BY <1>0, <1>3, <2>4, <3>1 DEF Glpk!Promise!Linear!SetObjective, GlpkVariables, GlpkConstraints
    <3>3. Glpk!Promise!SetObjective(e)
      BY <1>3, <2>4, <3>2 DEF Glpk!Promise!SetObjective, Glpk!ConstantOf
    <3> QED BY <2>2, <2>4, <3>3 DEF Glpk!Promise!Next
  <2>5. CASE /\ call' = <<"add_objective", e>> /\ offset' = offset + e.constant
             /\ \A h \in DOMAIN V : coef[h] = V[h].obj + CoefficientOf(e.terms, h)
    <3>1. V' = [h \in DOMAIN V |-> [V[h] EXCEPT !.obj = V[h].obj + Glpk!Coefficient(e, h)]]
      BY <2>3, <2>5, GlpkSame
    <3>2. Glpk!Promise!Linear!AddObjective(e)
      BY <1>0, <1>3, <2>5, <3>1 DEF Glpk!Promise!Linear!AddObjective, GlpkVariables, GlpkConstraints
    <3>3. Glpk!Promise!AddObjective(e)
      BY <1>3, <2>5, <3>2 DEF Glpk!Promise!AddObjective, Glpk!ConstantOf
    <3> QED BY <2>2, <2>5, <3>3 DEF Glpk!Promise!Next
  <2> QED BY <2>1, <2>4, <2>5 DEF ObjectiveOf
<1>4. ASSUME MakesRows(V, V', C, C'), UNCHANGED <<offset, maximize>> PROVE Glpk!Promise!LinearCall
  <2>0. PICK m \in Nat : \E lcs \in [1..m -> ConstraintsOver(DOMAIN V)] :
           /\ call' = <<"add_constraints", lcs>>
           /\ V' = Extended(V, Len(C), lcs, m) /\ C' = C \o Asked(lcs, m)
    BY <1>4 DEF MakesRows
  <2>1. PICK lcs \in [1..m -> ConstraintsOver(DOMAIN V)] :
           /\ call' = <<"add_constraints", lcs>>
           /\ V' = Extended(V, Len(C), lcs, m) /\ C' = C \o Asked(lcs, m)
    BY <2>0
  <2>a. DOMAIN lcs = 1..m /\ Len(lcs) = m
    BY <2>1
  <2> DEFINE n == Len(C)
             more(h) == [r \in DOMAIN lcs |-> Glpk!Coefficient(lcs[r].terms, h)]
  <2>2. ASSUME NEW h \in DOMAIN V
        PROVE  [V[h] EXCEPT !.coefs = RowsBehind(@, n, lcs, m, h)]
               = [V[h] EXCEPT !.coefs = Glpk!Promise!Linear!WithRows(@, n, more(h), Len(lcs))]
    <3>1. ASSUME NEW old PROVE RowsBehind(old, n, lcs, m, h) = Glpk!Promise!Linear!WithRows(old, n, more(h), m)
      <4>1. \A r \in 1..(n + m) : ~(r <= n) => more(h)[r - n] = CoefficientOf(lcs[r - n].terms.terms, h)
        BY <2>a, GlpkSame
      <4> HIDE DEF n, more
      <4> QED BY <4>1 DEF RowsBehind, Glpk!Promise!Linear!WithRows
    <3> HIDE DEF n, more, V
    <3> QED BY <2>a, <3>1
  <2>3. V' = [h \in DOMAIN V |-> [V[h] EXCEPT
                !.coefs = Glpk!Promise!Linear!WithRows(@, n, more(h), Len(lcs))]]
    <3>1. V' = [h \in DOMAIN V |-> [V[h] EXCEPT !.coefs = RowsBehind(@, n, lcs, m, h)]]
      BY <2>1 DEF Extended
    <3> HIDE DEF V, n, more
    <3> QED BY <2>2, <3>1
  <2>4. C' = C \o [r \in DOMAIN lcs |-> [sense |-> lcs[r].sense, rhs |-> lcs[r].rhs]]
    BY <2>1, <2>a DEF Asked
  <2>5. call'[1] = "add_constraints" /\ call'[2] = lcs
    BY <2>1
  <2>7. Glpk!Promise!Linear!AddConstraints(call'[2])
    BY <1>0, <2>1, <2>3, <2>4, <2>5 DEF Glpk!Promise!Linear!AddConstraints, GlpkVariables, GlpkConstraints
  <2>8. \A r \in DOMAIN call'[2] : call'[2][r] \in Glpk!Promise!Linear!Rows
    <3>1. ASSUME NEW lc \in ConstraintsOver(DOMAIN V) PROVE lc \in Glpk!Promise!Linear!Rows
      BY <1>0, <3>1, GlpkSame DEF ConstraintsOver, Senses, Glpk!Promise!Linear!Rows, Glpk!Promise!Linear!Senses
    <3> QED BY <2>1, <2>a, <2>5, <3>1
  <2> QED BY <1>4, <2>5, <2>7, <2>8 DEF Glpk!Promise!LinearCall
<1>5. ASSUME V' = V, C' = C, call' = <<"rejected">>, UNCHANGED <<offset, maximize>>
      PROVE  Glpk!Promise!LinearCall
  BY <1>5 DEF Glpk!Promise!LinearCall, Glpk!Promise!Linear!Rejected, GlpkVariables, GlpkConstraints
<1>6. ASSUME V' = V, C' = C, NEW k \in Constants, call' = <<"set_objective_offset", k>>, offset' = k, UNCHANGED maximize
      PROVE  Glpk!Promise!Next
  <2>1. Glpk!Promise!SetObjectiveOffset(k)
    BY <1>6 DEF Glpk!Promise!SetObjectiveOffset, GlpkVariables, GlpkConstraints
  <2> QED BY <2>1 DEF Glpk!Promise!Next
<1>7. ASSUME V' = V, C' = C, NEW m \in BOOLEAN, call' = <<"set_maximization", m>>, maximize' = m, UNCHANGED offset
      PROVE  Glpk!Promise!Next
  <2>1. Glpk!Promise!SetDirection(m)
    BY <1>7 DEF Glpk!Promise!SetDirection, GlpkVariables, GlpkConstraints
  <2> QED BY <2>1 DEF Glpk!Promise!Next
<1>8. Glpk!Promise!LinearCall => Glpk!Promise!Next
  BY DEF Glpk!Promise!Next
<1> QED BY <1>1, <1>2, <1>3, <1>4, <1>5, <1>6, <1>7, <1>8 DEF SetsOffset, SetsDirection

\* A column, field by field.
GlpkCol(o, b, l, u, k, cf) == [obj |-> o, bounds |-> b, lb |-> l, ub |-> u, kind |-> k, coefs |-> cf]
GlpkBoundKinds == {"FR", "LO", "UP", "FX", "DB"}
GlpkColumn == [obj : Coefs, bounds : GlpkBoundKinds, lb : Bounds, ub : Bounds, kind : Glpk!Kinds,
               coefs : [1..Len(rows) -> Coefs]]
GlpkRow == [type : {"UP", "FX", "LO"}, rhs : Rhs]
GlpkInv == cols \in Seq(GlpkColumn) /\ rows \in Seq(GlpkRow)

LEMMA GlpkColIs ==
    ASSUME NEW c \in GlpkColumn PROVE c = GlpkCol(c.obj, c.bounds, c.lb, c.ub, c.kind, c.coefs)
BY DEF GlpkColumn, GlpkCol

LEMMA GlpkBounded ==
    ASSUME NEW o, NEW b, NEW l, NEW u, NEW k, NEW cf, NEW kind, NEW lb, NEW ub
    PROVE  Glpk!WithBounds(GlpkCol(o, b, l, u, k, cf), kind, lb, ub)
           = GlpkCol(o, kind, IF kind \in {"FR", "UP"} THEN -Infinity ELSE lb,
                     IF kind \in {"FR", "LO"} THEN Infinity ELSE IF kind = "FX" THEN lb ELSE ub, k, cf)
<1> DEFINE r == GlpkCol(o, b, l, u, k, cf)
           x == IF kind \in {"FR", "UP"} THEN -Infinity ELSE lb
           y == IF kind \in {"FR", "LO"} THEN Infinity ELSE IF kind = "FX" THEN lb ELSE ub
           f == [r EXCEPT !.bounds = kind, !.lb = x, !.ub = y]
           g == GlpkCol(o, kind, x, y, k, cf)
           D == {"obj", "bounds", "lb", "ub", "kind", "coefs"}
<1>0. Glpk!WithBounds(r, kind, lb, ub) = f
  BY DEF Glpk!WithBounds
<1> HIDE DEF x, y
<1>1. DOMAIN r = D /\ r.obj = o /\ r.kind = k /\ r.coefs = cf
  BY DEF GlpkCol
<1> HIDE DEF r
<1>2. f = [j \in D |-> f[j]]
  BY <1>1
<1>3. f.obj = o /\ f.bounds = kind /\ f.lb = x /\ f.ub = y /\ f.kind = k /\ f.coefs = cf
  BY <1>1
<1>4. g = [j \in D |-> g[j]]
  BY DEF GlpkCol
<1>5. g.obj = o /\ g.bounds = kind /\ g.lb = x /\ g.ub = y /\ g.kind = k /\ g.coefs = cf
  BY DEF GlpkCol
<1> HIDE DEF f, g
<1>6. \A j \in D : f[j] = g[j]
  BY <1>3, <1>5
<1> HIDE DEF D
<1>7. f = g
  BY <1>2, <1>4, <1>6
<1> QED BY <1>0, <1>7 DEF g, r, x, y

LEMMA GlpkOfKind ==
    ASSUME NEW o, NEW b, NEW l, NEW u, NEW k, NEW cf, NEW kind
    PROVE  Glpk!WithKind(GlpkCol(o, b, l, u, k, cf), kind)
           = IF kind = "BV" THEN GlpkCol(o, "DB", 0, 1, kind, cf) ELSE GlpkCol(o, b, l, u, kind, cf)
<1>1. [GlpkCol(o, b, l, u, k, cf) EXCEPT !.kind = kind] = GlpkCol(o, b, l, u, kind, cf)
  BY DEF GlpkCol
<1> QED BY <1>1, GlpkBounded DEF Glpk!WithKind

\* What the client sees of a column and of a row.
GlpkType(kind) == IF kind = "CV" THEN "continuous" ELSE "integer"
GlpkView(c) == Var(c.obj, c.lb, c.ub, GlpkType(c.kind), c.coefs)
GlpkConstraint(row) == [sense |-> Glpk!SenseOf(row.type), rhs |-> row.rhs]

GlpkSeen ==
    /\ Len(cols) \in Nat /\ DOMAIN cols = 1..Len(cols)
    /\ Len(rows) \in Nat /\ DOMAIN rows = 1..Len(rows)
    /\ \A i \in DOMAIN cols : cols[i] \in GlpkColumn
    /\ GlpkVariables = [h \in DOMAIN cols |-> GlpkView(cols[h])]
    /\ GlpkConstraints = [r \in 1..Len(rows) |-> GlpkConstraint(rows[r])]
    /\ Len(GlpkConstraints) = Len(rows)

LEMMA GlpkRead == GlpkInv => GlpkSeen
<1> SUFFICES ASSUME GlpkInv PROVE GlpkSeen
  OBVIOUS
<1>1. /\ Len(cols) \in Nat /\ DOMAIN cols = 1..Len(cols)
      /\ Len(rows) \in Nat /\ DOMAIN rows = 1..Len(rows)
      /\ \A i \in DOMAIN cols : cols[i] \in GlpkColumn
      /\ \A r \in DOMAIN rows : rows[r] \in GlpkRow
  BY LenProperties, ElementOfSeq DEF GlpkInv
<1>2. \A h \in DOMAIN cols : Glpk!VariableOf(h) = GlpkView(cols[h])
  BY <1>1 DEF GlpkColumn, Glpk!VariableOf, GlpkView, GlpkType, Var
<1>3. GlpkVariables = [h \in DOMAIN cols |-> GlpkView(cols[h])]
  BY <1>1, <1>2 DEF GlpkVariables
<1>4. GlpkConstraints = [r \in 1..Len(rows) |-> GlpkConstraint(rows[r])]
  BY <1>1 DEF GlpkConstraints, GlpkConstraint
<1>5. Len(GlpkConstraints) = Len(rows)
  BY <1>1, <1>4
<1> QED BY <1>1, <1>3, <1>4, <1>5 DEF GlpkSeen

LEMMA GlpkFields ==
    ASSUME NEW c \in GlpkColumn
    PROVE  /\ \A x \in Coefs : /\ [c EXCEPT !.obj = x] \in GlpkColumn
                               /\ GlpkView([c EXCEPT !.obj = x]) = [GlpkView(c) EXCEPT !.obj = x]
           /\ \A x : GlpkView([c EXCEPT !.coefs = x]) = [GlpkView(c) EXCEPT !.coefs = x]
BY DEF GlpkColumn, GlpkView, Var

\* New columns.
LEMMA GlpkAppends ==
    ASSUME GlpkInv, NEW n \in Nat \ {0}, NEW c \in GlpkColumn, NEW new, Copies(new, n, c),
           Glpk!AppendCols(new), rows' = rows, NEW H, H = (Len(cols) + 1)..(Len(cols) + n)
    PROVE  /\ GlpkInv' /\ Len(cols) \in Nat /\ Len(cols) + n <= MaxColumns
           /\ GlpkConstraints' = GlpkConstraints
           /\ Made(GlpkVariables, GlpkVariables', H, GlpkView(c))
<1>1. /\ cols' \in Seq(GlpkColumn) /\ Len(new) = n /\ Len(cols) \in Nat
      /\ DOMAIN cols' = DOMAIN cols \cup H /\ H \cap DOMAIN cols = {}
      /\ \A i \in DOMAIN cols \cup H : cols'[i] = IF i \in H THEN c ELSE cols[i]
  <2>1. cols \in Seq(GlpkColumn) /\ cols' = cols \o new
    BY DEF GlpkInv, Glpk!AppendCols
  <2>2. n \in Nat \ {0} /\ c \in GlpkColumn /\ Copies(new, n, c) /\ H = (Len(cols) + 1)..(Len(cols) + n)
    OBVIOUS
  <2> QED BY ONLY <2>1, <2>2, ColumnsAppended
<1>2. GlpkInv'
  BY <1>1 DEF GlpkInv, GlpkColumn, GlpkRow
<1>3. GlpkSeen /\ GlpkSeen'
  BY <1>2, GlpkRead, PTL
<1>4. \A h \in DOMAIN cols : h \notin H /\ cols'[h] = cols[h] /\ GlpkVariables[h] = GlpkView(cols[h])
  BY <1>1, <1>3 DEF GlpkSeen
<1>5. Made(GlpkVariables, GlpkVariables', H, GlpkView(c))
  BY <1>1, <1>3, <1>4 DEF GlpkSeen, Made
<1> QED BY <1>1, <1>2, <1>5 DEF GlpkConstraints, Glpk!AppendCols

\* One column that changes.
LEMMA GlpkEdits ==
    ASSUME GlpkInv, NEW h \in DOMAIN cols, NEW c \in GlpkColumn, cols' = [cols EXCEPT ![h] = c],
           rows' = rows
    PROVE  /\ GlpkInv' /\ GlpkConstraints' = GlpkConstraints
           /\ h \in DOMAIN GlpkVariables /\ GlpkVariables[h] = GlpkView(cols[h])
           /\ GlpkVariables' = [GlpkVariables EXCEPT ![h] = GlpkView(c)]
<1>1. cols' \in Seq(GlpkColumn) /\ DOMAIN cols' = DOMAIN cols
  BY ColumnChanged DEF GlpkInv
<1>2. GlpkInv'
  BY <1>1 DEF GlpkInv, GlpkColumn, GlpkRow
<1>3. GlpkSeen /\ GlpkSeen'
  BY <1>2, GlpkRead, PTL
<1>4. GlpkVariables' = [GlpkVariables EXCEPT ![h] = GlpkView(c)]
  BY <1>3 DEF GlpkSeen
<1> QED BY <1>2, <1>3, <1>4 DEF GlpkConstraints, GlpkSeen

\* The calls that change one variable.
LEMMA GlpkChanges ==
    ASSUME GlpkInv, NEW h \in DOMAIN cols
    PROVE  /\ \A c \in Coefs : Glpk!SetObjectiveCoefficient(h, c) => GlpkInv' /\ Glpk!Promise!Next
           /\ \A b \in Bounds : Glpk!SetVariableLowerBound(h, b) => GlpkInv' /\ Glpk!Promise!Next
           /\ \A b \in Bounds : Glpk!SetVariableUpperBound(h, b) => GlpkInv' /\ Glpk!Promise!Next
           /\ \A k \in Glpk!Kinds : Glpk!SetKind(h, k) => GlpkInv' /\ Glpk!Promise!Next
<1> DEFINE o == cols[h].obj  b == cols[h].bounds  l == cols[h].lb  u == cols[h].ub  k == cols[h].kind
           cf == cols[h].coefs
<1>1. cols[h] \in GlpkColumn /\ h \in DOMAIN GlpkVariables /\ GlpkVariables[h] = GlpkView(cols[h])
  BY GlpkRead DEF GlpkSeen
<1>a. cols[h] = GlpkCol(o, b, l, u, k, cf)
  BY <1>1, GlpkColIs
<1>b. /\ o \in Coefs /\ b \in GlpkBoundKinds /\ l \in Bounds /\ u \in Bounds /\ k \in Glpk!Kinds
      /\ cf \in [1..Len(rows) -> Coefs]
  BY <1>1 DEF GlpkColumn
<1>c. GlpkVariables[h] = [obj |-> o, lb |-> l, ub |-> u, type |-> GlpkType(k), coefs |-> cf]
  BY <1>1 DEF GlpkView, Var
<1> HIDE DEF o, b, l, u, k, cf
<1>2. ASSUME NEW c \in GlpkColumn, cols' = [cols EXCEPT ![h] = c], UNCHANGED <<rows, offset, maximize>>,
             Becomes(GlpkVariables, h, GlpkView(c))
      PROVE  GlpkInv' /\ Glpk!Promise!Next
  <2>1. /\ GlpkInv' /\ GlpkConstraints' = GlpkConstraints
        /\ GlpkVariables' = [GlpkVariables EXCEPT ![h] = GlpkView(c)]
    BY <1>2, GlpkEdits
  <2>2. ChangesVariable(GlpkVariables, GlpkVariables')
    BY <1>1, <1>2, <2>1 DEF ChangesVariable
  <2> QED BY <1>2, <2>1, <2>2, GlpkSteps
<1>d. ASSUME NEW b2 \in GlpkBoundKinds, NEW l2 \in Bounds, NEW u2 \in Bounds, NEW k2 \in Glpk!Kinds
      PROVE  /\ GlpkCol(o, b2, l2, u2, k2, cf) \in GlpkColumn
             /\ GlpkView(GlpkCol(o, b2, l2, u2, k2, cf)) = Var(o, l2, u2, GlpkType(k2), cf)
  BY <1>b DEF GlpkCol, GlpkColumn, GlpkView
<1>3. ASSUME NEW x \in Coefs, Glpk!SetObjectiveCoefficient(h, x) PROVE GlpkInv' /\ Glpk!Promise!Next
  <2>1. cols' = [cols EXCEPT ![h] = [cols[h] EXCEPT !.obj = x]] /\ call' = <<"set_objective_coefficient", h, x>>
        /\ UNCHANGED <<rows, offset, maximize>>
    BY <1>3 DEF Glpk!SetObjectiveCoefficient, Glpk!Change
  <2>2. [cols[h] EXCEPT !.obj = x] \in GlpkColumn /\ Becomes(GlpkVariables, h, GlpkView([cols[h] EXCEPT !.obj = x]))
    <3>1. GlpkView([cols[h] EXCEPT !.obj = x]) = [GlpkVariables[h] EXCEPT !.obj = x]
      BY <1>1, GlpkFields
    <3> QED BY <1>1, <2>1, <3>1, GlpkFields DEF Becomes
  <2> QED BY <1>2, <2>1, <2>2
<1>4. ASSUME NEW x \in Bounds, Glpk!SetVariableLowerBound(h, x) PROVE GlpkInv' /\ Glpk!Promise!Next
  <2> DEFINE c == GlpkCol(o, "DB", x, u, k, cf)
  <2>1. /\ cols' = [cols EXCEPT ![h] = Glpk!WithBounds(cols[h], "DB", x, u)]
        /\ call' = <<"set_variable_lower_bound", h, x>> /\ UNCHANGED <<rows, offset, maximize>>
    BY <1>4 DEF Glpk!SetVariableLowerBound, u
  <2>2. Glpk!WithBounds(cols[h], "DB", x, u) = c
    BY <1>a, GlpkBounded
  <2>3. c \in GlpkColumn /\ GlpkView(c) = Var(o, x, u, GlpkType(k), cf)
    BY <1>b, <1>d DEF GlpkBoundKinds
  <2>4. Var(o, x, u, GlpkType(k), cf) = [GlpkVariables[h] EXCEPT !.lb = x]
    BY <1>c DEF Var
  <2>5. Becomes(GlpkVariables, h, GlpkView(c))
    BY <2>1, <2>3, <2>4 DEF Becomes
  <2> HIDE DEF c
  <2> QED BY <1>2, <2>1, <2>2, <2>3, <2>5
<1>5. ASSUME NEW x \in Bounds, Glpk!SetVariableUpperBound(h, x) PROVE GlpkInv' /\ Glpk!Promise!Next
  <2> DEFINE c == GlpkCol(o, "DB", l, x, k, cf)
  <2>1. /\ cols' = [cols EXCEPT ![h] = Glpk!WithBounds(cols[h], "DB", l, x)]
        /\ call' = <<"set_variable_upper_bound", h, x>> /\ UNCHANGED <<rows, offset, maximize>>
    BY <1>5 DEF Glpk!SetVariableUpperBound, l
  <2>2. Glpk!WithBounds(cols[h], "DB", l, x) = c
    BY <1>a, GlpkBounded
  <2>3. c \in GlpkColumn /\ GlpkView(c) = Var(o, l, x, GlpkType(k), cf)
    BY <1>b, <1>d DEF GlpkBoundKinds
  <2>4. Var(o, l, x, GlpkType(k), cf) = [GlpkVariables[h] EXCEPT !.ub = x]
    BY <1>c DEF Var
  <2>5. Becomes(GlpkVariables, h, GlpkView(c))
    BY <2>1, <2>3, <2>4 DEF Becomes
  <2> HIDE DEF c
  <2> QED BY <1>2, <2>1, <2>2, <2>3, <2>5
<1>6. ASSUME NEW t \in {"CV", "IV"}, Glpk!SetKind(h, t) PROVE GlpkInv' /\ Glpk!Promise!Next
  <2> DEFINE c == GlpkCol(o, b, l, u, t, cf)
  <2>1. /\ cols' = [cols EXCEPT ![h] = Glpk!WithKind(cols[h], t)] /\ t \in Glpk!Kinds
        /\ call' = <<"set_type", h, GlpkType(t)>> /\ GlpkType(t) \in {"continuous", "integer"}
        /\ UNCHANGED <<rows, offset, maximize>>
    BY <1>6 DEF Glpk!SetKind, GlpkType, Glpk!Kinds
  <2>2. Glpk!WithKind(cols[h], t) = c
    BY <1>6, <1>a, GlpkOfKind
  <2>3. c \in GlpkColumn /\ GlpkView(c) = Var(o, l, u, GlpkType(t), cf)
    BY <1>b, <1>d, <2>1
  <2>4. Var(o, l, u, GlpkType(t), cf) = [GlpkVariables[h] EXCEPT !.type = GlpkType(t)]
    BY <1>c DEF Var
  <2>5. Becomes(GlpkVariables, h, GlpkView(c))
    BY <2>1, <2>3, <2>4 DEF Becomes
  <2> HIDE DEF c
  <2> QED BY <1>2, <2>1, <2>2, <2>3, <2>5
<1>7. ASSUME Glpk!SetKind(h, "BV") PROVE GlpkInv' /\ Glpk!Promise!Next
  <2> DEFINE c == GlpkCol(o, "DB", 0, 1, "BV", cf)
  <2>1. /\ cols' = [cols EXCEPT ![h] = Glpk!WithKind(cols[h], "BV")]
        /\ call' = <<"set_binary", h>> /\ UNCHANGED <<rows, offset, maximize>>
    BY <1>7 DEF Glpk!SetKind
  <2>2. Glpk!WithKind(cols[h], "BV") = c
    BY <1>a, GlpkOfKind
  <2>3. c \in GlpkColumn /\ GlpkView(c) = Var(o, 0, 1, "integer", cf)
    BY <1>d, InstanceDataAssumption DEF GlpkBoundKinds, Glpk!Kinds, GlpkType
  <2>4. Var(o, 0, 1, "integer", cf) = BinaryOf(GlpkVariables[h], 0, 1)
    BY <1>c, MadeBinary DEF Var
  <2>5. Becomes(GlpkVariables, h, GlpkView(c))
    BY <2>1, <2>3, <2>4 DEF Becomes
  <2> HIDE DEF c
  <2> QED BY <1>2, <2>1, <2>2, <2>3, <2>5
<1> QED BY <1>3, <1>4, <1>5, <1>6, <1>7 DEF Glpk!Kinds

\* A new column has the bounds that were asked for, of whatever kind they are.
LEMMA GlpkNewColumn ==
    ASSUME NEW k \in Glpk!Kinds, NEW p \in BoundKinds \cup {BinaryParams}, k = "BV" => p = BinaryParams
    PROVE  LET q == Glpk!AsAdded(p, k)
           IN  /\ q \in GlpkParameters /\ p \in [obj : Coefs, lb : Bounds, ub : Bounds]
               /\ q = [obj |-> p.obj, lb |-> p.lb, ub |-> p.ub, type |-> GlpkType(k)]
               /\ \E b \in GlpkBoundKinds : Glpk!NewCol(p, k) = GlpkCol(p.obj, b, p.lb, p.ub, k, Glpk!Zeros)
<1> DEFINE q == Glpk!AsAdded(p, k)
           z == Glpk!Zeros
           priced == IF p.obj # 0 THEN [Glpk!EmptyCol EXCEPT !.obj = p.obj] ELSE Glpk!EmptyCol
           bounded == Glpk!Bounded(priced, p)
<1>1. q \in GlpkParameters
  BY DEF GlpkParameters, BinaryParams, Glpk!BinaryParams
<1>2. p \in [obj : Coefs, lb : Bounds, ub : Bounds]
  BY SolverDataAssumption, InstanceDataAssumption DEF BinaryParams
<1>3. q = [obj |-> p.obj, lb |-> p.lb, ub |-> p.ub, type |-> GlpkType(k)]
  BY DEF Glpk!AsAdded, Glpk!Typed, Glpk!TypeOf, GlpkType
<1>4. priced = GlpkCol(p.obj, "FX", 0, 0, "CV", z)
  BY DEF Glpk!EmptyCol, GlpkCol
<1>5. PICK b \in GlpkBoundKinds : bounded = GlpkCol(p.obj, b, p.lb, p.ub, "CV", z)
  <2> HIDE DEF priced, z
  <2>1. CASE p.lb # -Infinity /\ p.ub # Infinity
    <3>1. bounded = Glpk!WithBounds(priced, IF p.lb = p.ub THEN "FX" ELSE "DB", p.lb, p.ub)
      BY <2>1 DEF Glpk!Bounded
    <3>2. CASE p.lb = p.ub
      <4>1. bounded = GlpkCol(p.obj, "FX", p.lb, p.ub, "CV", z)
        BY <1>4, <3>1, <3>2, GlpkBounded
      <4> QED BY <4>1 DEF GlpkBoundKinds
    <3>3. CASE p.lb # p.ub
      <4>1. bounded = GlpkCol(p.obj, "DB", p.lb, p.ub, "CV", z)
        BY <1>4, <3>1, <3>3, GlpkBounded
      <4> QED BY <4>1 DEF GlpkBoundKinds
    <3> QED BY <3>2, <3>3
  <2>2. CASE p.lb # -Infinity /\ p.ub = Infinity
    <3>1. bounded = Glpk!WithBounds(priced, "LO", p.lb, 0)
      BY <2>2 DEF Glpk!Bounded
    <3>2. bounded = GlpkCol(p.obj, "LO", p.lb, p.ub, "CV", z)
      BY <1>4, <2>2, <3>1, GlpkBounded
    <3> QED BY <3>2 DEF GlpkBoundKinds
  <2>3. CASE p.lb = -Infinity /\ p.ub # Infinity
    <3>1. bounded = Glpk!WithBounds(priced, "UP", 0, p.ub)
      BY <2>3 DEF Glpk!Bounded
    <3>2. bounded = GlpkCol(p.obj, "UP", p.lb, p.ub, "CV", z)
      BY <1>4, <2>3, <3>1, GlpkBounded
    <3> QED BY <3>2 DEF GlpkBoundKinds
  <2>4. CASE p.lb = -Infinity /\ p.ub = Infinity
    <3>1. bounded = Glpk!WithBounds(priced, "FR", 0, 0)
      BY <2>4 DEF Glpk!Bounded
    <3>2. bounded = GlpkCol(p.obj, "FR", p.lb, p.ub, "CV", z)
      BY <1>4, <2>4, <3>1, GlpkBounded
    <3> QED BY <3>2 DEF GlpkBoundKinds
  <2> QED BY <2>1, <2>2, <2>3, <2>4
<1>6. Glpk!NewCol(p, k) = IF k # "CV" THEN Glpk!WithKind(bounded, k) ELSE bounded
  BY DEF Glpk!NewCol
<1> HIDE DEF bounded, priced
<1>7. CASE k = "BV"
  <2>1. p.lb = 0 /\ p.ub = 1
    BY <1>7 DEF BinaryParams
  <2>2. Glpk!NewCol(p, k) = GlpkCol(p.obj, "DB", p.lb, p.ub, k, z)
    BY <1>5, <1>6, <1>7, <2>1, GlpkOfKind
  <2> QED BY <1>1, <1>2, <1>3, <2>2 DEF GlpkBoundKinds
<1>8. CASE k # "BV"
  <2>1. Glpk!NewCol(p, k) = GlpkCol(p.obj, b, p.lb, p.ub, k, z)
    BY <1>5, <1>6, <1>8, GlpkOfKind
  <2> QED BY <1>1, <1>2, <1>3, <2>1
<1> QED BY <1>7, <1>8

\* The calls that make variables.
LEMMA GlpkAdds ==
    ASSUME GlpkInv, NEW k \in Glpk!Kinds, NEW q \in GlpkParameters, q.type = GlpkType(k),
           q.obj \in Coefs, q.lb \in Bounds, q.ub \in Bounds,
           NEW e \in [1..Len(rows) -> Coefs], NEW n \in Nat \ {0}, NEW b \in GlpkBoundKinds,
           NEW c, c = GlpkCol(q.obj, b, q.lb, q.ub, k, e),
           NEW new, Copies(new, n, c), Glpk!AppendCols(new),
           UNCHANGED <<rows, offset, maximize>>,
           \/ n = 1 /\ call' = <<"add_column", Len(cols) + 1, q, e>>
           \/ n = 1 /\ e = Glpk!Zeros /\ call' = <<"add_variable", Len(cols) + 1, q>>
           \/ e = Glpk!Zeros /\ call' = <<"add_variables", Len(cols) + 1, n, q>>
    PROVE  GlpkInv' /\ Glpk!Promise!Next
<1> DEFINE first == Len(cols) + 1
           H == (Len(cols) + 1)..(Len(cols) + n)
<1>1. c \in GlpkColumn /\ GlpkView(c) = Var(q.obj, q.lb, q.ub, q.type, e)
  BY DEF GlpkCol, GlpkColumn, GlpkView
<1>a. H = (Len(cols) + 1)..(Len(cols) + n)
  OBVIOUS
<1> HIDE DEF H
<1>2. /\ GlpkInv' /\ Len(cols) \in Nat /\ Len(cols) + n <= MaxColumns
      /\ GlpkConstraints' = GlpkConstraints
      /\ Made(GlpkVariables, GlpkVariables', H, GlpkView(c))
  BY <1>1, <1>a, GlpkAppends
<1>3. first \in 1..MaxColumns /\ first + n - 1 <= MaxColumns /\ H = first..(first + n - 1)
  <2>1. Len(cols) \in Nat /\ Len(cols) + n <= MaxColumns /\ n \in Nat \ {0} /\ MaxColumns \in Nat
    BY <1>2, InstanceBoundsAssumption
  <2>2. first \in 1..MaxColumns /\ first + n - 1 = Len(cols) + n
    BY ONLY <2>1
  <2> QED BY ONLY <2>1, <2>2, <1>a
<1>4. Len(GlpkConstraints) = Len(rows) /\ Glpk!Zeros = [r \in 1..Len(rows) |-> 0]
  BY GlpkRead DEF GlpkSeen, Glpk!Zeros
<1>5. /\ first + n - 1 <= MaxColumns /\ e \in [1..Len(GlpkConstraints) -> Coefs]
      /\ Made(GlpkVariables, GlpkVariables', first..(first + n - 1), Var(q.obj, q.lb, q.ub, q.type, e))
      /\ \/ n = 1 /\ call' = <<"add_column", first, q, e>>
         \/ /\ e = [r \in 1..Len(GlpkConstraints) |-> 0]
            /\ \/ n = 1 /\ call' = <<"add_variable", first, q>>
               \/ call' = <<"add_variables", first, n, q>>
  BY <1>1, <1>2, <1>3, <1>4
<1> HIDE DEF first
<1>6. MakesVariables(GlpkVariables, GlpkVariables', GlpkConstraints, GlpkParameters)
  BY <1>3, <1>5 DEF MakesVariables
<1> QED BY <1>2, <1>6, GlpkSteps

LEMMA GlpkVariableCalls ==
    ASSUME GlpkInv
    PROVE  /\ \A k \in Glpk!Kinds, p \in BoundKinds \cup {BinaryParams} :
                 Glpk!AddVariable(p, k) => GlpkInv' /\ Glpk!Promise!Next
           /\ \A k \in {"CV", "IV"}, p \in BoundKinds, n \in 1..MaxColumns :
                 Glpk!AddVariables(n, p, k) => GlpkInv' /\ Glpk!Promise!Next
           /\ \A n \in 1..MaxColumns : Glpk!AddBinaryVariables(n) => GlpkInv' /\ Glpk!Promise!Next
           /\ \A p \in BoundKinds, e \in [1..Len(rows) -> Coefs] :
                 Glpk!AddColumn(p, e) => GlpkInv' /\ Glpk!Promise!Next
<1> DEFINE zeros == Glpk!Zeros
<1>0. zeros \in [1..Len(rows) -> Coefs] /\ 1 \in Nat \ {0} /\ (\A c : Copies(<<c>>, 1, c)) /\ Len(cols) \in Nat
  BY InstanceDataAssumption, GlpkRead DEF Glpk!Zeros, Copies, GlpkSeen
<1>a. {"CV", "IV", "BV"} = Glpk!Kinds /\ Glpk!BinaryParams = BinaryParams
  BY DEF Glpk!Kinds, Glpk!BinaryParams, BinaryParams
<1>1. ASSUME NEW k \in Glpk!Kinds, NEW p \in BoundKinds \cup {BinaryParams}, Glpk!AddVariable(p, k)
      PROVE  GlpkInv' /\ Glpk!Promise!Next
  <2> DEFINE q == Glpk!AsAdded(p, k)
  <2>1. /\ k = "BV" => p = BinaryParams
        /\ Glpk!AppendCols(<<Glpk!NewCol(p, k)>>) /\ UNCHANGED <<rows, offset, maximize>>
        /\ call' = <<"add_variable", Len(cols) + 1, q>>
    BY <1>1, <1>a DEF Glpk!AddVariable
  <2>2. /\ q \in GlpkParameters /\ q.type = GlpkType(k) /\ q.obj \in Coefs /\ q.lb \in Bounds /\ q.ub \in Bounds
        /\ \E b \in GlpkBoundKinds : Glpk!NewCol(p, k) = GlpkCol(q.obj, b, q.lb, q.ub, k, zeros)
    BY <2>1, GlpkNewColumn
  <2> HIDE DEF q, zeros
  <2> QED BY <1>0, <2>1, <2>2, GlpkAdds DEF zeros
<1>2. ASSUME NEW k \in {"CV", "IV"}, NEW p \in BoundKinds, NEW n \in 1..MaxColumns, Glpk!AddVariables(n, p, k)
      PROVE  GlpkInv' /\ Glpk!Promise!Next
  <2> DEFINE q == Glpk!AsAdded(p, k)
             new == [i \in 1..n |-> Glpk!NewCol(p, k)]
  <2>1. /\ n \in Nat \ {0} /\ k \in Glpk!Kinds /\ Copies(new, n, Glpk!NewCol(p, k))
        /\ Glpk!AppendCols(new) /\ UNCHANGED <<rows, offset, maximize>>
        /\ call' = <<"add_variables", Len(cols) + 1, n, q>>
    BY <1>2, <1>a, InstanceBoundsAssumption DEF Glpk!AddVariables, Copies
  <2>2. /\ q \in GlpkParameters /\ q.type = GlpkType(k) /\ q.obj \in Coefs /\ q.lb \in Bounds /\ q.ub \in Bounds
        /\ \E b \in GlpkBoundKinds : Glpk!NewCol(p, k) = GlpkCol(q.obj, b, q.lb, q.ub, k, zeros)
    BY <2>1, GlpkNewColumn
  <2> HIDE DEF q, zeros, new
  <2> QED BY <1>0, <2>1, <2>2, GlpkAdds DEF zeros
<1>3. ASSUME NEW n \in 1..MaxColumns, Glpk!AddBinaryVariables(n) PROVE GlpkInv' /\ Glpk!Promise!Next
  <2> DEFINE q == Glpk!AsAdded(BinaryParams, "BV")
             c == Glpk!WithKind(Glpk!EmptyCol, "BV")
             new == [i \in 1..n |-> c]
  <2>1. /\ n \in Nat \ {0} /\ "BV" \in Glpk!Kinds /\ Copies(new, n, c)
        /\ Glpk!AppendCols(new) /\ UNCHANGED <<rows, offset, maximize>>
        /\ call' = <<"add_variables", Len(cols) + 1, n, q>>
    BY <1>3, <1>a, InstanceBoundsAssumption DEF Glpk!AddBinaryVariables, Copies
  <2>2. /\ q \in GlpkParameters /\ q.type = GlpkType("BV") /\ q.obj = 0 /\ q.lb = 0 /\ q.ub = 1
        /\ q.obj \in Coefs /\ q.lb \in Bounds /\ q.ub \in Bounds
    BY <2>1, GlpkNewColumn DEF BinaryParams
  <2>3. Glpk!EmptyCol = GlpkCol(0, "FX", 0, 0, "CV", zeros)
    BY DEF Glpk!EmptyCol, GlpkCol
  <2>4. c = GlpkCol(q.obj, "DB", q.lb, q.ub, "BV", zeros) /\ "DB" \in GlpkBoundKinds
    BY <2>2, <2>3, GlpkOfKind DEF GlpkBoundKinds
  <2> HIDE DEF q, zeros, new, c
  <2> QED BY <1>0, <2>1, <2>2, <2>4, GlpkAdds DEF zeros
<1>4. ASSUME NEW p \in BoundKinds, NEW e \in [1..Len(rows) -> Coefs], Glpk!AddColumn(p, e)
      PROVE  GlpkInv' /\ Glpk!Promise!Next
  <2> DEFINE q == Glpk!AsAdded(p, "CV")
             c == [Glpk!NewCol(p, "CV") EXCEPT !.coefs = e]
  <2>1. /\ Glpk!AppendCols(<<c>>) /\ UNCHANGED <<rows, offset, maximize>>
        /\ call' = <<"add_column", Len(cols) + 1, q, e>> /\ "CV" \in Glpk!Kinds
    BY <1>4, <1>a DEF Glpk!AddColumn
  <2>2. /\ q \in GlpkParameters /\ q.type = GlpkType("CV") /\ q.obj \in Coefs /\ q.lb \in Bounds /\ q.ub \in Bounds
        /\ \E b \in GlpkBoundKinds : Glpk!NewCol(p, "CV") = GlpkCol(q.obj, b, q.lb, q.ub, "CV", zeros)
    BY <2>1, GlpkNewColumn
  <2> HIDE DEF q, zeros
  <2>3. \E b \in GlpkBoundKinds : c = GlpkCol(q.obj, b, q.lb, q.ub, "CV", e)
    BY <2>2 DEF GlpkCol
  <2> HIDE DEF c
  <2> QED BY <1>0, <2>1, <2>2, <2>3, GlpkAdds
<1> QED BY <1>1, <1>2, <1>3, <1>4

\* A new objective, and one that is read back and added to.
LEMMA GlpkObjective ==
    ASSUME GlpkInv, NEW e \in Glpk!ExpressionsOver(DOMAIN cols),
           Glpk!SetObjective(e) \/ Glpk!AddObjective(e)
    PROVE  GlpkInv' /\ Glpk!Promise!Next
<1>1. GlpkSeen
  BY GlpkRead
<1>2. PICK coef : /\ Glpk!PutObjective(coef) /\ UNCHANGED <<rows, maximize>>
                  /\ \/ /\ call' = <<"set_objective", e>> /\ offset' = e.constant
                        /\ \A h \in DOMAIN cols : coef[h] = CoefficientOf(e.terms, h)
                     \/ /\ call' = <<"add_objective", e>> /\ offset' = offset + e.constant
                        /\ \A h \in DOMAIN cols : coef[h] = cols[h].obj + CoefficientOf(e.terms, h)
  <2>1. CASE Glpk!SetObjective(e)
    <3> DEFINE coef == [i \in DOMAIN cols |-> Glpk!CoefficientOf(e.terms, i)]
    <3>1. \A h \in DOMAIN cols : coef[h] = CoefficientOf(e.terms, h)
      BY GlpkSame
    <3>2. Glpk!PutObjective(coef) /\ UNCHANGED <<rows, maximize>>
          /\ call' = <<"set_objective", e>> /\ offset' = e.constant
      BY <2>1 DEF Glpk!SetObjective
    <3> HIDE DEF coef
    <3> QED BY <3>1, <3>2
  <2>2. CASE Glpk!AddObjective(e)
    <3> DEFINE coef == [i \in DOMAIN cols |-> cols[i].obj + Glpk!CoefficientOf(e.terms, i)]
    <3>1. \A h \in DOMAIN cols : coef[h] = cols[h].obj + CoefficientOf(e.terms, h)
      BY GlpkSame
    <3>2. Glpk!PutObjective(coef) /\ UNCHANGED <<rows, maximize>>
          /\ call' = <<"add_objective", e>> /\ offset' = offset + e.constant
      BY <2>2 DEF Glpk!AddObjective
    <3> HIDE DEF coef
    <3> QED BY <3>1, <3>2
  <2> QED BY <2>1, <2>2
<1> DEFINE f == [i \in DOMAIN cols |-> [cols[i] EXCEPT !.obj = coef[i]]]
<1>3. cols' = f /\ \A i \in DOMAIN cols : coef[i] \in Coefs
  BY <1>2 DEF Glpk!PutObjective
<1>4. \A i \in DOMAIN cols : f[i] \in GlpkColumn /\ GlpkView(f[i]) = [GlpkView(cols[i]) EXCEPT !.obj = coef[i]]
  BY <1>1, <1>3, GlpkFields DEF GlpkSeen
<1>5. cols' = [i \in DOMAIN cols |-> f[i]]
  BY <1>3
<1> HIDE DEF f
<1>6. cols' \in Seq(GlpkColumn) /\ DOMAIN cols' = DOMAIN cols
  BY <1>4, <1>5, ColumnsMapped DEF GlpkInv
<1>7. GlpkInv'
  BY <1>2, <1>6 DEF GlpkInv, GlpkColumn, GlpkRow
<1>8. GlpkSeen'
  BY <1>7, GlpkRead, PTL
<1>9. DOMAIN GlpkVariables = DOMAIN cols /\ GlpkConstraints' = GlpkConstraints
  BY <1>2 DEF GlpkVariables, GlpkConstraints
<1>10. GlpkVariables' = Priced(GlpkVariables, coef)
  BY <1>1, <1>4, <1>5, <1>6, <1>8, <1>9 DEF GlpkSeen, Priced
<1>11. ObjectiveOf(GlpkVariables, e, coef)
  <2>1. \A h \in DOMAIN cols : GlpkVariables[h].obj = cols[h].obj
    BY <1>1 DEF GlpkSeen, GlpkView, Var
  <2> QED BY <1>2, <1>9, <2>1 DEF ObjectiveOf
<1>12. e \in ExpressionsOver(DOMAIN GlpkVariables)
  BY <1>9, GlpkSame
<1>13. ChangesObjective(GlpkVariables, GlpkVariables')
  BY <1>10, <1>11, <1>12 DEF ChangesObjective
<1> QED BY <1>2, <1>7, <1>9, <1>13, GlpkSteps

\* Rows behind those there are, with the sums of their terms as entries.
LEMMA GlpkRows ==
    ASSUME GlpkInv, NEW lcs \in Glpk!BatchesOver(DOMAIN cols), NEW d \in BOOLEAN, Glpk!AddConstraints(lcs, d)
    PROVE  GlpkInv' /\ Glpk!Promise!Next
<1> DEFINE n == Len(rows)
           m == Len(lcs)
           new == [r \in DOMAIN lcs |-> [type |-> Glpk!RowType(lcs[r].sense), rhs |-> lcs[r].rhs]]
           coef == [i \in DOMAIN cols |-> [r \in DOMAIN lcs |-> Glpk!Registered(lcs[r].terms, i, d)]]
           f == [i \in DOMAIN cols |-> [cols[i] EXCEPT !.coefs = @ \o coef[i]]]
<1>1. GlpkSeen
  BY GlpkRead
<1>2. /\ m \in Nat /\ DOMAIN lcs = 1..m /\ lcs = [r \in 1..m |-> lcs[r]]
      /\ \A r \in DOMAIN lcs :
            /\ lcs[r] \in ConstraintsOver(DOMAIN cols)
            /\ lcs[r].terms \in ExpressionsOver(DOMAIN cols) /\ MayPass(lcs[r].terms, d)
            /\ lcs[r].sense \in Senses /\ lcs[r].rhs \in Rhs
  BY BatchesTyped, GlpkSame DEF Glpk!AddConstraints
<1>3. /\ call' = <<"add_constraints", lcs>> /\ UNCHANGED <<offset, maximize>>
      /\ rows' = rows \o new /\ cols' = f /\ cols' = [i \in DOMAIN cols |-> f[i]]
      /\ \A r \in DOMAIN new, i \in DOMAIN cols : coef[i][r] \in Coefs
  BY DEF Glpk!AddConstraints, Glpk!AppendRows
<1>4. /\ Listed(new, m)
      /\ \A r \in 1..m : new[r] \in GlpkRow /\ GlpkConstraint(new[r]) = Asked(lcs, m)[r]
  <2>1. ASSUME NEW r \in 1..m PROVE new[r] \in GlpkRow /\ GlpkConstraint(new[r]) = Asked(lcs, m)[r]
    <3>1. new[r] = [type |-> Glpk!RowType(lcs[r].sense), rhs |-> lcs[r].rhs]
          /\ Asked(lcs, m)[r] = [sense |-> lcs[r].sense, rhs |-> lcs[r].rhs]
      BY <1>2 DEF Asked
    <3>2. /\ Glpk!RowType(lcs[r].sense) \in {"UP", "FX", "LO"}
          /\ Glpk!SenseOf(Glpk!RowType(lcs[r].sense)) = lcs[r].sense
      BY <1>2 DEF Senses, Glpk!RowType, Glpk!SenseOf
    <3> HIDE DEF new
    <3> QED BY <1>2, <3>1, <3>2 DEF GlpkRow, GlpkConstraint
  <2> QED BY <1>2, <2>1 DEF Listed
<1>5. \A i \in DOMAIN cols : /\ EntriesFor(coef[i], lcs, m, i)
                             /\ \A r \in 1..m : coef[i][r] \in Coefs
  <2>1. ASSUME NEW i \in DOMAIN cols, NEW r \in 1..m
        PROVE  Glpk!Registered(lcs[r].terms, i, d) = CoefficientOf(lcs[r].terms.terms, i)
    BY <1>2, RegisteredIsSum, GlpkSame
  <2> QED BY <1>2, <1>3, <2>1 DEF EntriesFor
<1>6. /\ n \in Nat /\ Len(rows') = n + m /\ rows' \in Seq(GlpkRow)
      /\ Behind(rows', rows, new, n, m)
  <2> HIDE DEF new, m
  <2> QED BY <1>2, <1>3, <1>4, RowsAppended DEF GlpkInv
<1> HIDE DEF m, new, coef
<1>7. \A i \in DOMAIN cols : /\ f[i] = [cols[i] EXCEPT !.coefs = RowsBehind(@, n, lcs, m, i)]
                             /\ RowsBehind(cols[i].coefs, n, lcs, m, i) \in [1..(n + m) -> Coefs]
  <2>1. ASSUME NEW i \in DOMAIN cols
        PROVE  /\ cols[i].coefs \o coef[i] = RowsBehind(cols[i].coefs, n, lcs, m, i)
               /\ cols[i].coefs \o coef[i] \in [1..(n + m) -> Coefs]
    <3>1. cols[i].coefs \in [1..n -> Coefs]
      BY <1>1 DEF GlpkSeen, GlpkColumn
    <3> QED BY <1>2, <1>5, <1>6, <3>1, EntriesAppended
  <2> HIDE DEF n
  <2> QED BY <2>1
<1> HIDE DEF f
<1>8. GlpkInv'
  <2>1. GlpkColumn' = [obj : Coefs, bounds : GlpkBoundKinds, lb : Bounds, ub : Bounds, kind : Glpk!Kinds,
                      coefs : [1..(n + m) -> Coefs]]
    BY <1>6 DEF GlpkColumn
  <2>2. \A i \in DOMAIN cols : f[i] \in GlpkColumn'
    BY <1>1, <1>7, <2>1 DEF GlpkSeen, GlpkColumn
  <2>3. cols' \in Seq(GlpkColumn') /\ DOMAIN cols' = DOMAIN cols
    BY <1>3, <2>2, ColumnsMapped DEF GlpkInv
  <2> QED BY <1>3, <1>6, <2>3 DEF GlpkInv, GlpkRow
<1>9. GlpkSeen'
  BY <1>8, GlpkRead, PTL
<1>10. GlpkVariables' = Extended(GlpkVariables, n, lcs, m)
  <2>1. GlpkVariables' = [h \in DOMAIN cols |-> GlpkView(f[h])]
    <3>1. DOMAIN cols' = DOMAIN cols /\ \A h \in DOMAIN cols : cols'[h] = f[h]
      BY <1>3
    <3> QED BY <1>9, <3>1 DEF GlpkSeen
  <2>2. ASSUME NEW h \in DOMAIN cols
        PROVE  GlpkView(f[h]) = [GlpkVariables[h] EXCEPT !.coefs = RowsBehind(@, n, lcs, m, h)]
    <3>1. cols[h] \in GlpkColumn /\ GlpkVariables[h] = GlpkView(cols[h])
          /\ GlpkView(cols[h]).coefs = cols[h].coefs
      BY <1>1 DEF GlpkSeen, GlpkView, Var
    <3>2. f[h] = [cols[h] EXCEPT !.coefs = RowsBehind(cols[h].coefs, n, lcs, m, h)]
      BY <1>7, <3>1
    <3> QED BY <3>1, <3>2, GlpkFields
  <2>3. DOMAIN GlpkVariables = DOMAIN cols
    BY DEF GlpkVariables
  <2> HIDE DEF n
  <2> QED BY <2>1, <2>2, <2>3 DEF Extended
<1>11. Len(GlpkConstraints) = n /\ GlpkConstraints' = GlpkConstraints \o Asked(lcs, m)
  <2>1. /\ GlpkConstraints = [r \in 1..n |-> GlpkConstraint(rows[r])]
        /\ GlpkConstraints' = [r \in 1..(n + m) |-> GlpkConstraint(rows'[r])]
    BY <1>1, <1>6, <1>9 DEF GlpkSeen, GlpkConstraint
  <2>2. \A r \in 1..(n + m) : ~(r <= n) => r - n \in 1..m
    BY <1>2, <1>6
  <2>3. \A r \in 1..n : r \in 1..(n + m) /\ r <= n
    BY <1>2, <1>6
  <2> HIDE DEF n
  <2>4. Behind(GlpkConstraints', GlpkConstraints, Asked(lcs, m), n, m)
    <3>1. \A r \in 1..(n + m) : r <= n => r \in 1..n
      BY <1>6
    <3> QED BY <1>4, <1>6, <2>1, <2>2, <3>1 DEF Behind
  <2>5. Listed(GlpkConstraints, n) /\ Listed(GlpkConstraints', n + m)
    BY <2>1 DEF Listed
  <2> QED BY <1>2, <1>6, <2>4, <2>5, ConstraintsAppended
<1>12. lcs \in [1..m -> ConstraintsOver(DOMAIN GlpkVariables)]
  BY <1>2 DEF GlpkVariables
<1>13. MakesRows(GlpkVariables, GlpkVariables', GlpkConstraints, GlpkConstraints')
  <2>1. /\ GlpkVariables' = Extended(GlpkVariables, Len(GlpkConstraints), lcs, m)
        /\ GlpkConstraints' = GlpkConstraints \o Asked(lcs, m)
        /\ call' = <<"add_constraints", lcs>>
    BY <1>3, <1>10, <1>11
  <2> QED BY <1>2, <1>12, <2>1 DEF MakesRows
<1> QED BY <1>3, <1>8, <1>13, GlpkSteps

LEMMA GlpkNext == ASSUME GlpkInv, Glpk!Next PROVE GlpkInv' /\ Glpk!Promise!Next
<1>1. ASSUME NEW k \in Constants, Glpk!SetObjectiveOffset(k) PROVE GlpkInv' /\ Glpk!Promise!Next
  <2>1. GlpkInv'
    BY <1>1 DEF Glpk!SetObjectiveOffset, GlpkInv, GlpkColumn, GlpkRow
  <2>2. GlpkVariables' = GlpkVariables /\ GlpkConstraints' = GlpkConstraints
        /\ SetsOffset /\ UNCHANGED maximize
    BY <1>1 DEF Glpk!SetObjectiveOffset, SetsOffset, GlpkVariables, GlpkConstraints, Glpk!VariableOf
  <2> QED BY <2>1, <2>2, GlpkSteps
<1>2. ASSUME NEW k \in BOOLEAN, Glpk!SetDirection(k) PROVE GlpkInv' /\ Glpk!Promise!Next
  <2>1. GlpkInv'
    BY <1>2 DEF Glpk!SetDirection, GlpkInv, GlpkColumn, GlpkRow
  <2>2. GlpkVariables' = GlpkVariables /\ GlpkConstraints' = GlpkConstraints
        /\ SetsDirection /\ UNCHANGED offset
    BY <1>2 DEF Glpk!SetDirection, SetsDirection, GlpkVariables, GlpkConstraints, Glpk!VariableOf
  <2> QED BY <2>1, <2>2, GlpkSteps
<1>3. Glpk!ObjectiveCalls => GlpkInv' /\ Glpk!Promise!Next
  BY <1>1, <1>2, GlpkChanges DEF Glpk!ObjectiveCalls
<1>4. ASSUME NEW e \in Glpk!Exprs, Glpk!SetObjective(e) \/ Glpk!AddObjective(e)
      PROVE  GlpkInv' /\ Glpk!Promise!Next
  BY <1>4, GlpkObjective DEF Glpk!Exprs
<1>5. ASSUME NEW lcs \in Glpk!Batches, NEW d \in BOOLEAN, Glpk!AddConstraints(lcs, d)
      PROVE  GlpkInv' /\ Glpk!Promise!Next
  BY <1>5, GlpkRows DEF Glpk!Batches
<1>6. \A p \in BoundKinds \cup {Glpk!BinaryParams} : p \in BoundKinds \cup {BinaryParams}
  BY DEF BinaryParams, Glpk!BinaryParams
<1> QED BY <1>3, <1>4, <1>5, <1>6, GlpkVariableCalls, GlpkChanges DEF Glpk!Next

\* A variable has the bounds and the type that the client gave it last: every step that
\* the models make, GLPK being the one in use, is one of the promise.
THEOREM GlpkKept == Spec => GlpkKeepsPromise
<1> DEFINE I == solver = "glpk" => GlpkInv
<1>1. Init => I
  <2>1. cols = <<>> /\ rows = <<>> => GlpkInv
    BY DEF GlpkInv
  <2> QED BY <2>1 DEF Init, Glpk!Init, Glpk!InstanceInit
<1>2. ASSUME I, [Next]_all PROVE I' /\ (solver = "glpk" => [Glpk!Promise!Next]_(Glpk!Promise!vars))
  <2> SUFFICES ASSUME solver' = "glpk" PROVE GlpkInv' /\ [Glpk!Promise!Next]_(Glpk!Promise!vars)
    BY <1>2 DEF Next, all
  <2>1. solver = "glpk" /\ GlpkInv
    BY <1>2 DEF Next, all
  <2>2. CASE Glpk!Next
    BY <2>1, <2>2, GlpkNext
  <2>3. CASE UNCHANGED all
    <3>1. GlpkInv'
      BY <2>1, <2>3 DEF all, vars, instance, lists, GlpkInv, GlpkColumn, GlpkRow
    <3>2. UNCHANGED Glpk!Promise!vars
      BY <2>3 DEF all, vars, instance, lists, Glpk!Promise!vars, Glpk!VariableOf
    <3> QED BY <3>1, <3>2
  <2> QED BY <1>2, <2>1, <2>2, <2>3 DEF Next
<1> QED BY <1>1, <1>2, PTL DEF Spec, GlpkKeepsPromise
----------------------------------------------------------------------------
(* MOSEK, as its client sees it.  The columns and rows that calls left     *)
(* behind which threw in the middle are under no handle: the client sees   *)
(* the columns that it holds and, of their entries, those in the rows that *)
(* it holds, in the order in which it got them.                            *)

MosekVariables == [h \in held |-> Mosek!VariableOf(h)]
MosekConstraints == [k \in DOMAIN heldRows |-> Mosek!ConstraintOf(rows[heldRows[k]])]
MosekParameters == {Mosek!Typed(p, t) : p \in BoundKinds \cup {Mosek!BinaryParams}, t \in Mosek!Types}

\* What is passed and registered, and what the client may write, are the same for every
\* solver.
LEMMA MosekSame ==
    /\ \A e, v, d : Mosek!Registered(e, v, d) = Registered(e, v, d)
    /\ \A t, v : Mosek!CoefficientOf(t, v) = CoefficientOf(t, v)
    /\ \A e, v : Mosek!Coefficient(e, v) = CoefficientOf(e.terms, v)
    /\ \A e, d : Mosek!MayPass(e, d) = MayPass(e, d)
    /\ \A X : Mosek!ExpressionsOver(X) = ExpressionsOver(X)
    /\ \A X : Mosek!ConstraintsOver(X) = ConstraintsOver(X)
    /\ \A X : Mosek!BatchesOver(X) = BatchesOver(X)
<1>1. ASSUME NEW t, NEW K PROVE Mosek!SumAt(t, K) = SumAt(t, K)
  BY DEF SumAt, MapThenSumSet, MapThenFoldSet, Mosek!SumAt, Mosek!MapThenSumSet, Mosek!MapThenFoldSet
<1>2. ASSUME NEW t, NEW v PROVE Mosek!CoefficientOf(t, v) = CoefficientOf(t, v)
  BY <1>1 DEF CoefficientOf, Mosek!CoefficientOf
<1>3. ASSUME NEW t, NEW v PROVE Mosek!LastOf(t, v) = LastOf(t, v)
  BY DEF LastOf, Mosek!LastOf, Max, Mosek!Max
<1>4. ASSUME NEW e, NEW d PROVE Mosek!MayPass(e, d) = MayPass(e, d)
  BY DEF MayPass, Mosek!MayPass, IsDistinct, Mosek!IsDistinct
<1>5. ASSUME NEW e, NEW v, NEW d PROVE Mosek!Registered(e, v, d) = Registered(e, v, d)
  BY <1>2, <1>3 DEF Registered, Mosek!Registered
<1>6. ASSUME NEW X PROVE Mosek!ExpressionsOver(X) = ExpressionsOver(X)
  BY DEF ExpressionsOver, Mosek!ExpressionsOver, Expressions, Mosek!Expressions
<1>7. ASSUME NEW X PROVE Mosek!ConstraintsOver(X) = ConstraintsOver(X)
  BY <1>6 DEF ConstraintsOver, Mosek!ConstraintsOver, Senses, Mosek!Senses
<1>8. ASSUME NEW X PROVE Mosek!BatchesOver(X) = BatchesOver(X)
  BY <1>7 DEF BatchesOver, Mosek!BatchesOver
<1> QED BY <1>2, <1>4, <1>5, <1>6, <1>7, <1>8 DEF Mosek!Coefficient

\* What the client sees of a call is what the model promises.
LEMMA MosekSteps ==
    /\ /\ MakesVariables(MosekVariables, MosekVariables', MosekConstraints, MosekParameters)
       /\ MosekConstraints' = MosekConstraints /\ UNCHANGED <<offset, maximize>>
       => Mosek!Promise!Next
    /\ /\ ChangesVariable(MosekVariables, MosekVariables')
       /\ MosekConstraints' = MosekConstraints /\ UNCHANGED <<offset, maximize>>
       => Mosek!Promise!Next
    /\ /\ ChangesObjective(MosekVariables, MosekVariables')
       /\ MosekConstraints' = MosekConstraints /\ UNCHANGED maximize
       => Mosek!Promise!Next
    /\ /\ MakesRows(MosekVariables, MosekVariables', MosekConstraints, MosekConstraints')
       /\ UNCHANGED <<offset, maximize>>
       => Mosek!Promise!Next
    /\ /\ MosekVariables' = MosekVariables /\ MosekConstraints' = MosekConstraints
       /\ \/ call' = <<"rejected">> /\ UNCHANGED <<offset, maximize>>
          \/ SetsOffset /\ UNCHANGED maximize
          \/ SetsDirection /\ UNCHANGED offset
       => Mosek!Promise!Next
<1> DEFINE V == MosekVariables
           C == MosekConstraints
<1>0. /\ Mosek!Promise!Held = DOMAIN V /\ Mosek!Promise!Linear!Held = DOMAIN V
      /\ Mosek!Promise!Linear!Zeros = [r \in 1..Len(C) |-> 0]
  BY DEF Mosek!Promise!Held, Mosek!Promise!Linear!Held, Mosek!Promise!Linear!Zeros,
         MosekVariables, MosekConstraints
<1>a. ASSUME NEW p \in BoundKinds \cup {Mosek!BinaryParams}, NEW k \in Mosek!Types, NEW h \in 1..MaxColumns,
             UNCHANGED <<offset, maximize>>
      PROVE  /\ Mosek!Promise!Linear!AddVariable(h, Mosek!Typed(p, k)) => Mosek!Promise!LinearCall
             /\ \A last \in 1..MaxColumns :
                   h <= last /\ Mosek!Promise!Linear!AddVariables(h, last - h + 1, Mosek!Typed(p, k))
                   => Mosek!Promise!LinearCall
             /\ /\ call'[1] = "add_column" /\ call'[4] \in [1..Len(MosekConstraints) -> Coefs]
                /\ Mosek!Promise!Linear!AddColumn(h, Mosek!Typed(p, k), call'[4])
                => Mosek!Promise!LinearCall
  <2>1. ASSUME Mosek!Promise!Linear!AddVariable(h, Mosek!Typed(p, k)) PROVE Mosek!Promise!LinearCall
    BY <1>a, <2>1 DEF Mosek!Promise!LinearCall
  <2>2. ASSUME NEW last \in 1..MaxColumns, h <= last,
               Mosek!Promise!Linear!AddVariables(h, last - h + 1, Mosek!Typed(p, k))
        PROVE  Mosek!Promise!LinearCall
    BY <1>a, <2>2 DEF Mosek!Promise!LinearCall
  <2>3. ASSUME call'[1] = "add_column", call'[4] \in [1..Len(MosekConstraints) -> Coefs],
               Mosek!Promise!Linear!AddColumn(h, Mosek!Typed(p, k), call'[4])
        PROVE  Mosek!Promise!LinearCall
    BY <1>a, <2>3 DEF Mosek!Promise!LinearCall, MosekConstraints
  <2> QED BY <2>1, <2>2, <2>3
<1>b. ASSUME NEW q \in MosekParameters, NEW h \in 1..MaxColumns, UNCHANGED <<offset, maximize>>,
             \/ Mosek!Promise!Linear!AddVariable(h, q)
             \/ \E last \in 1..MaxColumns : h <= last /\ Mosek!Promise!Linear!AddVariables(h, last - h + 1, q)
             \/ /\ call'[1] = "add_column" /\ call'[4] \in [1..Len(MosekConstraints) -> Coefs]
                /\ Mosek!Promise!Linear!AddColumn(h, q, call'[4])
      PROVE  Mosek!Promise!LinearCall
  <2>1. PICK p \in BoundKinds \cup {Mosek!BinaryParams}, k \in Mosek!Types : q = Mosek!Typed(p, k)
    BY DEF MosekParameters
  <2> QED BY <1>a, <1>b, <2>1
<1>1. ASSUME MakesVariables(V, V', C, MosekParameters), C' = C, UNCHANGED <<offset, maximize>>
      PROVE  Mosek!Promise!LinearCall
  <2>1. PICK first \in 1..MaxColumns, n \in Nat \ {0}, q \in MosekParameters, e \in [1..Len(C) -> Coefs] :
           /\ first + n - 1 <= MaxColumns
           /\ Made(V, V', first..(first + n - 1), Var(q.obj, q.lb, q.ub, q.type, e))
           /\ \/ n = 1 /\ call' = <<"add_column", first, q, e>>
              \/ /\ e = [r \in 1..Len(C) |-> 0]
                 /\ \/ n = 1 /\ call' = <<"add_variable", first, q>>
                    \/ call' = <<"add_variables", first, n, q>>
    BY <1>1 DEF MakesVariables
  <2> DEFINE last == first + n - 1
             H == first..last
  <2>2. /\ first \in Int /\ n \in Int /\ last \in 1..MaxColumns /\ first <= last /\ n = last - first + 1
        /\ (n = 1 => H = {first}) /\ H = first..(first + n - 1)
    BY <2>1, InstanceBoundsAssumption
  <2>3. Mosek!Promise!Linear!Add(H, Mosek!Promise!Linear!NewVariable(q, e))
    BY <1>0, <1>1, <2>1 DEF Made, Var, Mosek!Promise!Linear!Add, Mosek!Promise!Linear!NewVariable,
       MosekVariables, MosekConstraints
  <2> HIDE DEF last, H
  <2>4. CASE n = 1 /\ call' = <<"add_column", first, q, e>>
    <3>1. call'[1] = "add_column" /\ call'[4] = e /\ H = {first}
      BY <2>2, <2>4
    <3>2. Mosek!Promise!Linear!AddColumn(first, q, call'[4])
      BY <2>3, <2>4, <3>1 DEF Mosek!Promise!Linear!AddColumn
    <3>3. call'[4] \in [1..Len(C) -> Coefs]
      BY <3>1
    <3> QED BY <1>1, <1>b, <3>1, <3>2, <3>3
  <2>5. CASE n = 1 /\ e = [r \in 1..Len(C) |-> 0] /\ call' = <<"add_variable", first, q>>
    <3>1. Mosek!Promise!Linear!AddVariable(first, q)
      BY <1>0, <2>2, <2>3, <2>5 DEF Mosek!Promise!Linear!AddVariable
    <3> QED BY <1>1, <1>b, <3>1
  <2>6. CASE e = [r \in 1..Len(C) |-> 0] /\ call' = <<"add_variables", first, n, q>>
    <3>1. Mosek!Promise!Linear!AddVariables(first, last - first + 1, q)
      BY <1>0, <2>2, <2>3, <2>6 DEF Mosek!Promise!Linear!AddVariables
    <3> QED BY <1>1, <1>b, <2>2, <3>1
  <2> QED BY <2>1, <2>4, <2>5, <2>6
<1>2. ASSUME ChangesVariable(V, V'), C' = C, UNCHANGED <<offset, maximize>>
      PROVE  Mosek!Promise!Next
  <2>0. PICK h \in DOMAIN V : \E v : V' = [V EXCEPT ![h] = v] /\ Becomes(V, h, v)
    BY <1>2 DEF ChangesVariable
  <2>1. PICK v : V' = [V EXCEPT ![h] = v] /\ Becomes(V, h, v)
    BY <2>0
  <2>2. ASSUME NEW c \in Coefs, v = [V[h] EXCEPT !.obj = c], call' = <<"set_objective_coefficient", h, c>>
        PROVE  Mosek!Promise!LinearCall
    <3>1. Mosek!Promise!Linear!SetObjectiveCoefficient(h, c)
      BY <1>2, <2>1, <2>2 DEF Mosek!Promise!Linear!SetObjectiveCoefficient, MosekVariables, MosekConstraints
    <3> QED BY <1>0, <1>2, <3>1 DEF Mosek!Promise!LinearCall
  <2>3. ASSUME NEW b \in Bounds, v = [V[h] EXCEPT !.lb = b], call' = <<"set_variable_lower_bound", h, b>>
        PROVE  Mosek!Promise!LinearCall
    <3>1. Mosek!Promise!Linear!SetVariableLowerBound(h, b)
      BY <1>2, <2>1, <2>3 DEF Mosek!Promise!Linear!SetVariableLowerBound, MosekVariables, MosekConstraints
    <3> QED BY <1>0, <1>2, <3>1 DEF Mosek!Promise!LinearCall
  <2>4. ASSUME NEW b \in Bounds, v = [V[h] EXCEPT !.ub = b], call' = <<"set_variable_upper_bound", h, b>>
        PROVE  Mosek!Promise!LinearCall
    <3>1. Mosek!Promise!Linear!SetVariableUpperBound(h, b)
      BY <1>2, <2>1, <2>4 DEF Mosek!Promise!Linear!SetVariableUpperBound, MosekVariables, MosekConstraints
    <3> QED BY <1>0, <1>2, <3>1 DEF Mosek!Promise!LinearCall
  <2>5. ASSUME NEW t \in {"continuous", "integer"}, v = [V[h] EXCEPT !.type = t], call' = <<"set_type", h, t>>
        PROVE  Mosek!Promise!Next
    <3>1. Mosek!Promise!SetType(h, t)
      BY <1>2, <2>1, <2>5 DEF Mosek!Promise!SetType, MosekVariables, MosekConstraints
    <3> QED BY <1>0, <3>1 DEF Mosek!Promise!Next
  <2>6. ASSUME NEW lb \in {0, V[h].lb}, NEW ub \in {1, V[h].ub}, 0 <= lb, ub <= 1,
               v = BinaryOf(V[h], lb, ub), call' = <<"set_binary", h>>
        PROVE  Mosek!Promise!Next
    <3>1. Mosek!Promise!SetBinary(h)
      BY <1>2, <2>1, <2>6 DEF Mosek!Promise!SetBinary, BinaryOf, MosekVariables, MosekConstraints
    <3> QED BY <1>0, <3>1 DEF Mosek!Promise!Next
  <2>7. Mosek!Promise!LinearCall => Mosek!Promise!Next
    BY DEF Mosek!Promise!Next
  <2> HIDE DEF V, C
  <2> QED BY <2>1, <2>2, <2>3, <2>4, <2>5, <2>6, <2>7 DEF Becomes
<1>3. ASSUME ChangesObjective(V, V'), C' = C, UNCHANGED maximize PROVE Mosek!Promise!Next
  <2>0. PICK e \in ExpressionsOver(DOMAIN V) : \E coef : V' = Priced(V, coef) /\ ObjectiveOf(V, e, coef)
    BY <1>3 DEF ChangesObjective
  <2>1. PICK coef : V' = Priced(V, coef) /\ ObjectiveOf(V, e, coef)
    BY <2>0
  <2>2. call'[2] = e /\ e \in Mosek!ExpressionsOver(Mosek!Promise!Held)
    BY <1>0, <2>1, MosekSame DEF ObjectiveOf
  <2>3. V' = [h \in DOMAIN V |-> [V[h] EXCEPT !.obj = coef[h]]]
    BY <2>1 DEF Priced
  <2>4. CASE /\ call' = <<"set_objective", e>> /\ offset' = e.constant
             /\ \A h \in DOMAIN V : coef[h] = CoefficientOf(e.terms, h)
    <3>1. V' = [h \in DOMAIN V |-> [V[h] EXCEPT !.obj = Mosek!Coefficient(e, h)]]
      BY <2>3, <2>4, MosekSame
    <3>2. Mosek!Promise!Linear!SetObjective(e)
      BY <1>0, <1>3, <2>4, <3>1 DEF Mosek!Promise!Linear!SetObjective, MosekVariables, MosekConstraints
    <3>3. Mosek!Promise!SetObjective(e)
      BY <1>3, <2>4, <3>2 DEF Mosek!Promise!SetObjective, Mosek!ConstantOf
    <3> QED BY <2>2, <2>4, <3>3 DEF Mosek!Promise!Next
  <2>5. CASE /\ call' = <<"add_objective", e>> /\ offset' = offset + e.constant
             /\ \A h \in DOMAIN V : coef[h] = V[h].obj + CoefficientOf(e.terms, h)
    <3>1. V' = [h \in DOMAIN V |-> [V[h] EXCEPT !.obj = V[h].obj + Mosek!Coefficient(e, h)]]
      BY <2>3, <2>5, MosekSame
    <3>2. Mosek!Promise!Linear!AddObjective(e)
      BY <1>0, <1>3, <2>5, <3>1 DEF Mosek!Promise!Linear!AddObjective, MosekVariables, MosekConstraints
    <3>3. Mosek!Promise!AddObjective(e)
      BY <1>3, <2>5, <3>2 DEF Mosek!Promise!AddObjective, Mosek!ConstantOf
    <3> QED BY <2>2, <2>5, <3>3 DEF Mosek!Promise!Next
  <2> QED BY <2>1, <2>4, <2>5 DEF ObjectiveOf
<1>4. ASSUME MakesRows(V, V', C, C'), UNCHANGED <<offset, maximize>> PROVE Mosek!Promise!LinearCall
  <2>0. PICK m \in Nat : \E lcs \in [1..m -> ConstraintsOver(DOMAIN V)] :
           /\ call' = <<"add_constraints", lcs>>
           /\ V' = Extended(V, Len(C), lcs, m) /\ C' = C \o Asked(lcs, m)
    BY <1>4 DEF MakesRows
  <2>1. PICK lcs \in [1..m -> ConstraintsOver(DOMAIN V)] :
           /\ call' = <<"add_constraints", lcs>>
           /\ V' = Extended(V, Len(C), lcs, m) /\ C' = C \o Asked(lcs, m)
    BY <2>0
  <2>a. DOMAIN lcs = 1..m /\ Len(lcs) = m
    BY <2>1
  <2> DEFINE n == Len(C)
             more(h) == [r \in DOMAIN lcs |-> Mosek!Coefficient(lcs[r].terms, h)]
  <2>2. ASSUME NEW h \in DOMAIN V
        PROVE  [V[h] EXCEPT !.coefs = RowsBehind(@, n, lcs, m, h)]
               = [V[h] EXCEPT !.coefs = Mosek!Promise!Linear!WithRows(@, n, more(h), Len(lcs))]
    <3>1. ASSUME NEW old PROVE RowsBehind(old, n, lcs, m, h) = Mosek!Promise!Linear!WithRows(old, n, more(h), m)
      <4>1. \A r \in 1..(n + m) : ~(r <= n) => more(h)[r - n] = CoefficientOf(lcs[r - n].terms.terms, h)
        BY <2>a, MosekSame
      <4> HIDE DEF n, more
      <4> QED BY <4>1 DEF RowsBehind, Mosek!Promise!Linear!WithRows
    <3> HIDE DEF n, more, V
    <3> QED BY <2>a, <3>1
  <2>3. V' = [h \in DOMAIN V |-> [V[h] EXCEPT
                !.coefs = Mosek!Promise!Linear!WithRows(@, n, more(h), Len(lcs))]]
    <3>1. V' = [h \in DOMAIN V |-> [V[h] EXCEPT !.coefs = RowsBehind(@, n, lcs, m, h)]]
      BY <2>1 DEF Extended
    <3> HIDE DEF V, n, more
    <3> QED BY <2>2, <3>1
  <2>4. C' = C \o [r \in DOMAIN lcs |-> [sense |-> lcs[r].sense, rhs |-> lcs[r].rhs]]
    BY <2>1, <2>a DEF Asked
  <2>5. call'[1] = "add_constraints" /\ call'[2] = lcs
    BY <2>1
  <2>7. Mosek!Promise!Linear!AddConstraints(call'[2])
    BY <1>0, <2>1, <2>3, <2>4, <2>5 DEF Mosek!Promise!Linear!AddConstraints, MosekVariables, MosekConstraints
  <2>8. \A r \in DOMAIN call'[2] : call'[2][r] \in Mosek!Promise!Linear!Rows
    <3>1. ASSUME NEW lc \in ConstraintsOver(DOMAIN V) PROVE lc \in Mosek!Promise!Linear!Rows
      BY <1>0, <3>1, MosekSame DEF ConstraintsOver, Senses, Mosek!Promise!Linear!Rows, Mosek!Promise!Linear!Senses
    <3> QED BY <2>1, <2>a, <2>5, <3>1
  <2> QED BY <1>4, <2>5, <2>7, <2>8 DEF Mosek!Promise!LinearCall
<1>5. ASSUME V' = V, C' = C, call' = <<"rejected">>, UNCHANGED <<offset, maximize>>
      PROVE  Mosek!Promise!LinearCall
  BY <1>5 DEF Mosek!Promise!LinearCall, Mosek!Promise!Linear!Rejected, MosekVariables, MosekConstraints
<1>6. ASSUME V' = V, C' = C, NEW k \in Constants, call' = <<"set_objective_offset", k>>, offset' = k, UNCHANGED maximize
      PROVE  Mosek!Promise!Next
  <2>1. Mosek!Promise!SetObjectiveOffset(k)
    BY <1>6 DEF Mosek!Promise!SetObjectiveOffset, MosekVariables, MosekConstraints
  <2> QED BY <2>1 DEF Mosek!Promise!Next
<1>7. ASSUME V' = V, C' = C, NEW m \in BOOLEAN, call' = <<"set_maximization", m>>, maximize' = m, UNCHANGED offset
      PROVE  Mosek!Promise!Next
  <2>1. Mosek!Promise!SetDirection(m)
    BY <1>7 DEF Mosek!Promise!SetDirection, MosekVariables, MosekConstraints
  <2> QED BY <2>1 DEF Mosek!Promise!Next
<1>8. Mosek!Promise!LinearCall => Mosek!Promise!Next
  BY DEF Mosek!Promise!Next
<1> QED BY <1>1, <1>2, <1>3, <1>4, <1>5, <1>6, <1>7, <1>8 DEF SetsOffset, SetsDirection


\* A column, field by field.
MosekCol(o, k, l, u, t, cf) == [obj |-> o, key |-> k, lb |-> l, ub |-> u, type |-> t, coefs |-> cf]
MosekBounded(c, k, l, u) == [c EXCEPT !.key = k, !.lb = l, !.ub = u]

\* The key says of the two bounds which are given, what is held is there, and what a
\* call that threw left behind is under no handle.
MosekKeyed(c) == c.key = Mosek!BoundKey(c.lb, c.ub)
MosekHolds ==
    /\ MosekInv
    /\ held \subseteq DOMAIN cols
    /\ \A k \in DOMAIN heldRows : heldRows[k] \in DOMAIN rows
    /\ \A i \in DOMAIN cols : MosekKeyed(cols[i])

LEMMA MosekColIs ==
    ASSUME NEW c \in MosekColumn PROVE c = MosekCol(c.obj, c.key, c.lb, c.ub, c.type, c.coefs)
BY DEF MosekColumn, MosekCol

LEMMA MosekBoundedIs ==
    ASSUME NEW o, NEW k, NEW l, NEW u, NEW t, NEW cf, NEW key, NEW lb, NEW ub
    PROVE  MosekBounded(MosekCol(o, k, l, u, t, cf), key, lb, ub) = MosekCol(o, key, lb, ub, t, cf)
<1> DEFINE r == MosekCol(o, k, l, u, t, cf)
           f == [r EXCEPT !.key = key, !.lb = lb, !.ub = ub]
           g == MosekCol(o, key, lb, ub, t, cf)
           D == {"obj", "key", "lb", "ub", "type", "coefs"}
<1>0. MosekBounded(r, key, lb, ub) = f
  BY DEF MosekBounded
<1>1. DOMAIN r = D /\ r.obj = o /\ r.type = t /\ r.coefs = cf
  BY DEF MosekCol
<1> HIDE DEF r
<1>2. f = [j \in D |-> f[j]]
  BY <1>1
<1>3. f.obj = o /\ f.key = key /\ f.lb = lb /\ f.ub = ub /\ f.type = t /\ f.coefs = cf
  BY <1>1
<1>4. g = [j \in D |-> g[j]]
  BY DEF MosekCol
<1>5. g.obj = o /\ g.key = key /\ g.lb = lb /\ g.ub = ub /\ g.type = t /\ g.coefs = cf
  BY DEF MosekCol
<1> HIDE DEF f, g
<1>6. \A j \in D : f[j] = g[j]
  BY <1>3, <1>5
<1> HIDE DEF D
<1>7. f = g
  BY <1>2, <1>4, <1>6
<1> QED BY <1>0, <1>7 DEF g, r

\* What the client sees of a column with the entries cf, when it holds the rows hr.
MosekShown(cf, hr) == [k \in 1..Len(hr) |-> cf[hr[k]]]
MosekView(c, hr) == Var(c.obj, c.lb, c.ub, c.type, MosekShown(c.coefs, hr))

MosekSeen ==
    /\ Len(cols) \in Nat /\ DOMAIN cols = 1..Len(cols)
    /\ Len(rows) \in Nat /\ DOMAIN rows = 1..Len(rows)
    /\ Len(heldRows) \in Nat /\ DOMAIN heldRows = 1..Len(heldRows)
    /\ \A i \in DOMAIN cols : cols[i] \in MosekColumn /\ MosekKeyed(cols[i])
    /\ \A k \in DOMAIN heldRows : heldRows[k] \in DOMAIN rows
    /\ held \subseteq DOMAIN cols
    /\ MosekVariables = [h \in held |-> MosekView(cols[h], heldRows)]
    /\ MosekConstraints = [k \in 1..Len(heldRows) |-> Mosek!ConstraintOf(rows[heldRows[k]])]
    /\ Len(MosekConstraints) = Len(heldRows)

LEMMA MosekRead == MosekHolds => MosekSeen
<1> SUFFICES ASSUME MosekHolds PROVE MosekSeen
  OBVIOUS
<1>0. MosekInv
  BY DEF MosekHolds
<1>1. /\ Len(cols) \in Nat /\ DOMAIN cols = 1..Len(cols)
      /\ Len(rows) \in Nat /\ DOMAIN rows = 1..Len(rows)
      /\ Len(heldRows) \in Nat /\ DOMAIN heldRows = 1..Len(heldRows)
      /\ \A i \in DOMAIN cols : cols[i] \in MosekColumn
  BY <1>0, MosekLengths
<1>2. /\ \A i \in DOMAIN cols : MosekKeyed(cols[i])
      /\ \A k \in DOMAIN heldRows : heldRows[k] \in DOMAIN rows
      /\ held \subseteq DOMAIN cols
  BY DEF MosekHolds
<1>3. ASSUME NEW h \in DOMAIN cols PROVE Mosek!VariableOf(h) = MosekView(cols[h], heldRows)
  <2>1. Mosek!Lower(cols[h]) = cols[h].lb /\ Mosek!Upper(cols[h]) = cols[h].ub
    BY <1>2 DEF MosekKeyed, Mosek!BoundKey, Mosek!Lower, Mosek!Upper
  <2>2. MosekShown(cols[h].coefs, heldRows) = [k \in DOMAIN heldRows |-> cols[h].coefs[heldRows[k]]]
    BY <1>1 DEF MosekShown
  <2> QED BY <2>1, <2>2 DEF Mosek!VariableOf, MosekView, Var
<1>4. MosekVariables = [h \in held |-> MosekView(cols[h], heldRows)]
  BY <1>2, <1>3 DEF MosekVariables
<1>5. MosekConstraints = [k \in 1..Len(heldRows) |-> Mosek!ConstraintOf(rows[heldRows[k]])]
  BY <1>1 DEF MosekConstraints
<1>6. Len(MosekConstraints) = Len(heldRows)
  BY <1>1, <1>5
<1> QED BY <1>1, <1>2, <1>4, <1>5, <1>6 DEF MosekSeen

\* New columns, under new handles or under none.
LEMMA MosekAppends ==
    ASSUME MosekHolds, MosekInv', NEW n \in Nat \ {0}, NEW c \in MosekColumn, MosekKeyed(c),
           NEW new, Copies(new, n, c), Mosek!AppendCols(new), rows' = rows, heldRows' = heldRows,
           NEW H, H = (Len(cols) + 1)..(Len(cols) + n), held' \in {held, held \cup H}
    PROVE  /\ MosekHolds' /\ Len(cols) \in Nat /\ Len(cols) + n <= MaxColumns
           /\ MosekConstraints' = MosekConstraints
           /\ held' = held => MosekVariables' = MosekVariables
           /\ held' = held \cup H => Made(MosekVariables, MosekVariables', H, MosekView(c, heldRows))
<1>1. /\ Len(new) = n /\ Len(cols) \in Nat
      /\ DOMAIN cols' = DOMAIN cols \cup H /\ H \cap DOMAIN cols = {}
      /\ \A i \in DOMAIN cols \cup H : cols'[i] = IF i \in H THEN c ELSE cols[i]
  <2>1. cols \in Seq(MosekColumn) /\ cols' = cols \o new
    BY DEF MosekHolds, MosekInv, Mosek!AppendCols
  <2>2. n \in Nat \ {0} /\ c \in MosekColumn /\ Copies(new, n, c) /\ H = (Len(cols) + 1)..(Len(cols) + n)
    OBVIOUS
  <2> QED BY ONLY <2>1, <2>2, ColumnsAppended
<1>2. MosekHolds'
  <2>1. \A i \in DOMAIN cols' : MosekKeyed(cols'[i])
    BY <1>1 DEF MosekHolds
  <2>2. held' \subseteq DOMAIN cols' /\ \A k \in DOMAIN heldRows' : heldRows'[k] \in DOMAIN rows'
    BY <1>1 DEF MosekHolds
  <2> QED BY <2>1, <2>2 DEF MosekHolds, MosekKeyed
<1>3. MosekSeen /\ MosekSeen'
  BY <1>2, MosekRead, PTL
<1>4. \A h \in held : h \in DOMAIN cols /\ h \notin H /\ cols'[h] = cols[h]
                      /\ MosekVariables[h] = MosekView(cols[h], heldRows)
  BY <1>1, <1>3 DEF MosekSeen
<1>5. MosekVariables' = [h \in held' |-> MosekView(cols'[h], heldRows)]
  BY <1>3 DEF MosekSeen
<1>6. held' = held => MosekVariables' = MosekVariables
  BY <1>3, <1>4, <1>5 DEF MosekSeen
<1>7. held' = held \cup H => Made(MosekVariables, MosekVariables', H, MosekView(c, heldRows))
  <2>1. DOMAIN MosekVariables = held
    BY DEF MosekVariables
  <2>2. \A h \in H : cols'[h] = c
    BY <1>1
  <2> QED BY <1>4, <1>5, <2>1, <2>2 DEF Made
<1> QED BY <1>1, <1>2, <1>6, <1>7 DEF MosekConstraints, Mosek!AppendCols

\* One column that changes, all but its entries.
LEMMA MosekEdits ==
    ASSUME MosekHolds, MosekInv', NEW h \in held, NEW c, MosekKeyed(c), cols' = [cols EXCEPT ![h] = c],
           UNCHANGED <<rows, held, heldRows>>
    PROVE  /\ MosekHolds' /\ MosekConstraints' = MosekConstraints
           /\ h \in DOMAIN MosekVariables /\ MosekVariables[h] = MosekView(cols[h], heldRows)
           /\ MosekVariables' = [MosekVariables EXCEPT ![h] = MosekView(c, heldRows)]
<1>1. MosekHolds'
  <2>1. DOMAIN cols' = DOMAIN cols /\ \A i \in DOMAIN cols : MosekKeyed(cols'[i])
    BY DEF MosekHolds
  <2> QED BY <2>1 DEF MosekHolds, MosekKeyed
<1>2. MosekSeen /\ MosekSeen'
  BY <1>1, MosekRead, PTL
<1>3. h \in DOMAIN cols /\ MosekVariables = [i \in held |-> MosekView(cols[i], heldRows)]
      /\ MosekVariables' = [i \in held |-> MosekView(cols'[i], heldRows)]
  BY <1>2 DEF MosekSeen
<1>4. MosekVariables' = [MosekVariables EXCEPT ![h] = MosekView(c, heldRows)]
  <2>1. \A i \in held : MosekView(cols'[i], heldRows)
                        = IF i = h THEN MosekView(c, heldRows) ELSE MosekView(cols[i], heldRows)
    BY <1>2, <1>3 DEF MosekSeen
  <2> QED BY <1>3, <2>1
<1> QED BY <1>1, <1>3, <1>4 DEF MosekConstraints

\* The calls that change one variable.
LEMMA MosekChanges ==
    ASSUME MosekHolds, MosekInv', NEW h \in held
    PROVE  /\ \A c \in Coefs : Mosek!SetObjectiveCoefficient(h, c) /\ UNCHANGED <<held, heldRows>>
                                  => MosekHolds' /\ Mosek!Promise!Next
           /\ \A b \in Bounds : Mosek!SetVariableLowerBound(h, b) => MosekHolds' /\ Mosek!Promise!Next
           /\ \A b \in Bounds : Mosek!SetVariableUpperBound(h, b) => MosekHolds' /\ Mosek!Promise!Next
           /\ \A t \in Mosek!Types : Mosek!SetType(h, t) => MosekHolds' /\ Mosek!Promise!Next
           /\ Mosek!SetBinary(h) => MosekHolds' /\ Mosek!Promise!Next
<1> DEFINE o == cols[h].obj  k == cols[h].key  l == cols[h].lb  u == cols[h].ub  t == cols[h].type
           cf == cols[h].coefs  s == MosekShown(cf, heldRows)
<1>1. /\ cols[h] \in MosekColumn /\ MosekKeyed(cols[h]) /\ h \in DOMAIN MosekVariables
      /\ MosekVariables[h] = MosekView(cols[h], heldRows)
  <2>1. MosekSeen
    BY MosekRead
  <2> QED BY <2>1 DEF MosekSeen
<1>2. cols[h] = MosekCol(o, k, l, u, t, cf) /\ k = Mosek!BoundKey(l, u)
  BY <1>1, MosekColIs DEF MosekKeyed
<1>3. MosekVariables[h] = Var(o, l, u, t, s)
  BY <1>1 DEF MosekView
<1> HIDE DEF o, k, l, u, t, cf, s
<1>4. ASSUME NEW x, NEW lb, NEW ub, NEW type,
             cols' = [cols EXCEPT ![h] = MosekCol(x, Mosek!BoundKey(lb, ub), lb, ub, type, cf)],
             UNCHANGED <<rows, held, heldRows, offset, maximize>>,
             Becomes(MosekVariables, h, Var(x, lb, ub, type, s))
      PROVE  MosekHolds' /\ Mosek!Promise!Next
  <2> DEFINE c == MosekCol(x, Mosek!BoundKey(lb, ub), lb, ub, type, cf)
  <2>1. MosekKeyed(c) /\ MosekView(c, heldRows) = Var(x, lb, ub, type, s)
    BY DEF MosekKeyed, MosekCol, MosekView, s
  <2> HIDE DEF c
  <2>2. /\ MosekHolds' /\ MosekConstraints' = MosekConstraints
        /\ MosekVariables' = [MosekVariables EXCEPT ![h] = MosekView(c, heldRows)]
    BY <1>4, <2>1, MosekEdits DEF c
  <2>3. ChangesVariable(MosekVariables, MosekVariables')
    BY <1>1, <1>4, <2>1, <2>2 DEF ChangesVariable
  <2> QED BY <1>4, <2>2, <2>3, MosekSteps
<1>5. ASSUME NEW x \in Coefs, Mosek!SetObjectiveCoefficient(h, x), UNCHANGED <<held, heldRows>>
      PROVE  MosekHolds' /\ Mosek!Promise!Next
  <2>1. cols' = [cols EXCEPT ![h] = MosekCol(x, Mosek!BoundKey(l, u), l, u, t, cf)]
    <3>1. cols' = [cols EXCEPT ![h] = [cols[h] EXCEPT !.obj = x]]
      BY <1>5 DEF Mosek!SetObjectiveCoefficient, Mosek!Change
    <3>2. [cols[h] EXCEPT !.obj = x] = MosekCol(x, Mosek!BoundKey(l, u), l, u, t, cf)
      BY <1>2 DEF MosekCol
    <3> QED BY <3>1, <3>2
  <2>2. Var(x, l, u, t, s) = [MosekVariables[h] EXCEPT !.obj = x]
    BY <1>3 DEF Var
  <2>3. call' = <<"set_objective_coefficient", h, x>> /\ UNCHANGED <<rows, offset, maximize>>
    BY <1>5 DEF Mosek!SetObjectiveCoefficient
  <2>4. Becomes(MosekVariables, h, Var(x, l, u, t, s))
    BY <2>2, <2>3 DEF Becomes
  <2> QED BY <1>4, <1>5, <2>1, <2>3, <2>4
<1>6. ASSUME NEW lb, NEW ub, Mosek!ChangeBounds(h, lb, ub)
      PROVE  cols' = [cols EXCEPT ![h] = MosekCol(o, Mosek!BoundKey(lb, ub), lb, ub, t, cf)]
  <2>1. cols' = [cols EXCEPT ![h] = MosekBounded(cols[h], Mosek!BoundKey(lb, ub), lb, ub)]
    BY <1>6 DEF Mosek!ChangeBounds, MosekBounded
  <2>2. MosekBounded(cols[h], Mosek!BoundKey(lb, ub), lb, ub) = MosekCol(o, Mosek!BoundKey(lb, ub), lb, ub, t, cf)
    BY <1>2, MosekBoundedIs
  <2> QED BY <2>1, <2>2
<1>7. ASSUME NEW b \in Bounds, Mosek!SetVariableLowerBound(h, b) PROVE MosekHolds' /\ Mosek!Promise!Next
  <2>1. /\ Mosek!ChangeBounds(h, b, u) /\ call' = <<"set_variable_lower_bound", h, b>>
        /\ UNCHANGED <<rows, offset, maximize, held, heldRows>>
    BY <1>7 DEF Mosek!SetVariableLowerBound, u
  <2>2. Var(o, b, u, t, s) = [MosekVariables[h] EXCEPT !.lb = b]
    BY <1>3 DEF Var
  <2>3. Becomes(MosekVariables, h, Var(o, b, u, t, s))
    BY <2>1, <2>2 DEF Becomes
  <2>4. cols' = [cols EXCEPT ![h] = MosekCol(o, Mosek!BoundKey(b, u), b, u, t, cf)]
    BY <1>6, <2>1
  <2> QED BY <1>4, <2>1, <2>3, <2>4
<1>8. ASSUME NEW b \in Bounds, Mosek!SetVariableUpperBound(h, b) PROVE MosekHolds' /\ Mosek!Promise!Next
  <2>1. /\ Mosek!ChangeBounds(h, l, b) /\ call' = <<"set_variable_upper_bound", h, b>>
        /\ UNCHANGED <<rows, offset, maximize, held, heldRows>>
    BY <1>8 DEF Mosek!SetVariableUpperBound, l
  <2>2. Var(o, l, b, t, s) = [MosekVariables[h] EXCEPT !.ub = b]
    BY <1>3 DEF Var
  <2>3. Becomes(MosekVariables, h, Var(o, l, b, t, s))
    BY <2>1, <2>2 DEF Becomes
  <2>4. cols' = [cols EXCEPT ![h] = MosekCol(o, Mosek!BoundKey(l, b), l, b, t, cf)]
    BY <1>6, <2>1
  <2> QED BY <1>4, <2>1, <2>3, <2>4
<1>9. ASSUME NEW x \in Mosek!Types, Mosek!SetType(h, x) PROVE MosekHolds' /\ Mosek!Promise!Next
  <2>1. cols' = [cols EXCEPT ![h] = MosekCol(o, Mosek!BoundKey(l, u), l, u, x, cf)]
    <3>1. cols' = [cols EXCEPT ![h] = [cols[h] EXCEPT !.type = x]]
      BY <1>9 DEF Mosek!SetType, Mosek!Change
    <3>2. [cols[h] EXCEPT !.type = x] = MosekCol(o, Mosek!BoundKey(l, u), l, u, x, cf)
      BY <1>2 DEF MosekCol
    <3> QED BY <3>1, <3>2
  <2>2. Var(o, l, u, x, s) = [MosekVariables[h] EXCEPT !.type = x]
    BY <1>3 DEF Var
  <2>3. /\ call' = <<"set_type", h, x>> /\ x \in {"continuous", "integer"}
        /\ UNCHANGED <<rows, offset, maximize, held, heldRows>>
    BY <1>9 DEF Mosek!SetType, Mosek!Types
  <2>4. Becomes(MosekVariables, h, Var(o, l, u, x, s))
    BY <2>2, <2>3 DEF Becomes
  <2> QED BY <1>4, <2>1, <2>3, <2>4
<1>10. ASSUME Mosek!SetBinary(h) PROVE MosekHolds' /\ Mosek!Promise!Next
  <2>1. cols' = [cols EXCEPT ![h] = MosekCol(o, Mosek!BoundKey(0, 1), 0, 1, "integer", cf)]
    <3> DEFINE typed == [cols[h] EXCEPT !.type = "integer"]
    <3>1. Mosek!BinaryParams.lb = 0 /\ Mosek!BinaryParams.ub = 1
      BY DEF Mosek!BinaryParams
    <3>2. cols' = [cols EXCEPT ![h] = MosekBounded(typed, Mosek!BoundKey(0, 1), 0, 1)]
      BY <1>10, <3>1 DEF Mosek!SetBinary, Mosek!WithBound, MosekBounded
    <3>3. typed = MosekCol(o, k, l, u, "integer", cf)
      BY <1>2 DEF MosekCol
    <3> HIDE DEF typed
    <3>4. MosekBounded(typed, Mosek!BoundKey(0, 1), 0, 1) = MosekCol(o, Mosek!BoundKey(0, 1), 0, 1, "integer", cf)
      BY <3>3, MosekBoundedIs
    <3> QED BY <3>2, <3>4
  <2>2. Var(o, 0, 1, "integer", s) = BinaryOf(MosekVariables[h], 0, 1)
    <3>1. MosekVariables[h] = [obj |-> o, lb |-> l, ub |-> u, type |-> t, coefs |-> s]
      BY <1>3 DEF Var
    <3> QED BY <3>1, MadeBinary DEF Var
  <2>3. call' = <<"set_binary", h>> /\ UNCHANGED <<rows, offset, maximize, held, heldRows>>
    BY <1>10 DEF Mosek!SetBinary
  <2>4. Becomes(MosekVariables, h, Var(o, 0, 1, "integer", s))
    BY <2>2, <2>3 DEF Becomes
  <2> QED BY <1>4, <2>1, <2>3, <2>4
<1> QED BY <1>5, <1>7, <1>8, <1>9, <1>10

\* What a new variable is made of, call by call.
LEMMA MosekMade ==
    ASSUME NEW p, NEW t, NEW e
    PROVE  LET key == Mosek!BoundKey(p.lb, p.ub)
               made == MosekCol(p.obj, key, p.lb, p.ub, t, e)
           IN  /\ Mosek!Complete(p, t, e) = made
               /\ \A k \in 1..3 : MosekKeyed(Mosek!Stages(p, t, e)[k])
               /\ e = Mosek!Zeros =>
                     [Mosek!WithBound(IF p.obj = 0 THEN Mosek!AppendedVar
                                      ELSE [Mosek!AppendedVar EXCEPT !.obj = p.obj], p) EXCEPT !.type = t] = made
               /\ MosekKeyed(Mosek!AppendedVar)
               /\ MosekKeyed([Mosek!AppendedVar EXCEPT !.obj = p.obj])
               /\ MosekKeyed(Mosek!WithBound([Mosek!AppendedVar EXCEPT !.obj = p.obj], p))
<1> DEFINE key == Mosek!BoundKey(p.lb, p.ub)
           made == MosekCol(p.obj, key, p.lb, p.ub, t, e)
           a == Mosek!AppendedVar
           b == Mosek!WithBound(a, p)
           c == [b EXCEPT !.obj = p.obj]
           d == [c EXCEPT !.type = t]
           f == [d EXCEPT !.coefs = e]
           z == Mosek!Zeros
<1>0. \A col : Mosek!WithBound(col, p) = MosekBounded(col, key, p.lb, p.ub)
  BY DEF Mosek!WithBound, MosekBounded
<1>1. a = MosekCol(0, "FX", 0, 0, "continuous", z)
  BY DEF Mosek!AppendedVar, MosekCol
<1>2. Mosek!Stages(p, t, e) = <<a, b, c, d, f>>
  BY DEF Mosek!Stages
<1> HIDE DEF a
<1>3. b = MosekCol(0, key, p.lb, p.ub, "continuous", z)
  BY <1>0, <1>1, MosekBoundedIs
<1> HIDE DEF b
<1>4. c = MosekCol(p.obj, key, p.lb, p.ub, "continuous", z)
  BY <1>3 DEF MosekCol
<1> HIDE DEF c
<1>5. d = MosekCol(p.obj, key, p.lb, p.ub, t, z)
  BY <1>4 DEF MosekCol
<1> HIDE DEF d
<1>6. f = made
  BY <1>5 DEF MosekCol
<1> HIDE DEF f
<1>7. Mosek!Complete(p, t, e) = made
  BY <1>2, <1>6 DEF Mosek!Complete
<1>8. "FX" = Mosek!BoundKey(0, 0)
  BY InstanceDataAssumption DEF Mosek!BoundKey
<1>9. MosekKeyed(a) /\ MosekKeyed(b) /\ MosekKeyed(c)
  BY <1>1, <1>3, <1>4, <1>8 DEF MosekKeyed, MosekCol
<1>10. \A k \in 1..3 : MosekKeyed(Mosek!Stages(p, t, e)[k])
  BY <1>2, <1>9
<1> DEFINE priced == [a EXCEPT !.obj = p.obj]
           first == IF p.obj = 0 THEN a ELSE priced
<1>11. priced = MosekCol(p.obj, "FX", 0, 0, "continuous", z) /\ first = MosekCol(p.obj, "FX", 0, 0, "continuous", z)
  BY <1>1 DEF MosekCol
<1>12. MosekKeyed(priced)
  BY <1>8, <1>11 DEF MosekKeyed, MosekCol
<1> HIDE DEF priced, first
<1>13. /\ Mosek!WithBound(priced, p) = MosekCol(p.obj, key, p.lb, p.ub, "continuous", z)
       /\ Mosek!WithBound(first, p) = MosekCol(p.obj, key, p.lb, p.ub, "continuous", z)
  BY <1>0, <1>11, MosekBoundedIs
<1>14. MosekKeyed(Mosek!WithBound(priced, p))
  BY <1>13 DEF MosekKeyed, MosekCol
<1>15. [Mosek!WithBound(first, p) EXCEPT !.type = t] = MosekCol(p.obj, key, p.lb, p.ub, t, z)
  BY <1>13 DEF MosekCol
<1> HIDE DEF made, key, z
<1> QED BY <1>7, <1>9, <1>10, <1>12, <1>14, <1>15 DEF made, key, z, a, priced, first

\* Variables that are made and get handles.
LEMMA MosekAdds ==
    ASSUME MosekHolds, MosekInv', NEW p \in BoundKinds \cup {Mosek!BinaryParams}, NEW t \in Mosek!Types,
           NEW cf \in [1..Len(rows) -> Coefs], NEW n \in Nat \ {0}, NEW c \in MosekColumn,
           c = MosekCol(p.obj, Mosek!BoundKey(p.lb, p.ub), p.lb, p.ub, t, cf),
           NEW new, Copies(new, n, c), Mosek!AppendCols(new),
           NEW H, H = (Len(cols) + 1)..(Len(cols) + n), held' = held \cup H,
           UNCHANGED <<rows, heldRows, offset, maximize>>,
           NEW e, e = [k \in DOMAIN heldRows |-> cf[heldRows[k]]],
           \/ n = 1 /\ call' = <<"add_column", Len(cols) + 1, Mosek!Typed(p, t), e>>
           \/ n = 1 /\ cf = Mosek!Zeros /\ call' = <<"add_variable", Len(cols) + 1, Mosek!Typed(p, t)>>
           \/ cf = Mosek!Zeros /\ call' = <<"add_variables", Len(cols) + 1, n, Mosek!Typed(p, t)>>
    PROVE  MosekHolds' /\ Mosek!Promise!Next
<1> DEFINE first == Len(cols) + 1
           q == Mosek!Typed(p, t)
<1>0. MosekSeen
  BY MosekRead
<1>1. q = [obj |-> p.obj, lb |-> p.lb, ub |-> p.ub, type |-> t] /\ q \in MosekParameters
  <2>1. Mosek!TypeOf(t) = t
    BY DEF Mosek!Types, Mosek!TypeOf
  <2>a. p \in BoundKinds \cup {Mosek!BinaryParams} /\ t \in Mosek!Types
    OBVIOUS
  <2>2. q \in MosekParameters
    BY ONLY <2>a DEF MosekParameters
  <2> QED BY <2>1, <2>2 DEF Mosek!Typed
<1>2. e = MosekShown(cf, heldRows) /\ e \in [1..Len(MosekConstraints) -> Coefs]
      /\ (cf = Mosek!Zeros => e = [r \in 1..Len(MosekConstraints) |-> 0])
  <2>1. e = MosekShown(cf, heldRows)
    BY <1>0 DEF MosekSeen, MosekShown
  <2>2. \A k \in 1..Len(heldRows) : heldRows[k] \in 1..Len(rows)
    BY <1>0 DEF MosekSeen
  <2>3. e \in [1..Len(heldRows) -> Coefs]
    BY <2>1, <2>2 DEF MosekShown
  <2>4. cf = Mosek!Zeros => e = [r \in 1..Len(heldRows) |-> 0]
    BY <2>1, <2>2 DEF MosekShown, Mosek!Zeros
  <2> QED BY <1>0, <2>1, <2>3, <2>4 DEF MosekSeen
<1>3. MosekKeyed(c) /\ MosekView(c, heldRows) = Var(q.obj, q.lb, q.ub, q.type, e)
  <2>1. /\ c.obj = p.obj /\ c.lb = p.lb /\ c.ub = p.ub /\ c.type = t /\ c.coefs = cf
        /\ c.key = Mosek!BoundKey(p.lb, p.ub)
    BY DEF MosekCol
  <2>2. q.obj = p.obj /\ q.lb = p.lb /\ q.ub = p.ub /\ q.type = t
    BY ONLY <1>1
  <2> HIDE DEF q
  <2>3. MosekKeyed(c)
    BY ONLY <2>1 DEF MosekKeyed
  <2>4. MosekView(c, heldRows) = Var(q.obj, q.lb, q.ub, q.type, e)
    BY ONLY <1>2, <2>1, <2>2 DEF MosekView
  <2> QED BY <2>3, <2>4
<1>4. /\ MosekHolds' /\ Len(cols) \in Nat /\ Len(cols) + n <= MaxColumns
      /\ MosekConstraints' = MosekConstraints
      /\ Made(MosekVariables, MosekVariables', H, MosekView(c, heldRows))
  <2>1. held' \in {held, held \cup H}
    OBVIOUS
  <2> HIDE DEF q
  <2> QED BY <1>3, <2>1, MosekAppends
<1>5. first \in 1..MaxColumns /\ first + n - 1 <= MaxColumns /\ H = first..(first + n - 1)
  BY <1>4, InstanceBoundsAssumption
<1>6. /\ Made(MosekVariables, MosekVariables', first..(first + n - 1), Var(q.obj, q.lb, q.ub, q.type, e))
      /\ \/ n = 1 /\ call' = <<"add_column", first, q, e>>
         \/ /\ e = [r \in 1..Len(MosekConstraints) |-> 0]
            /\ \/ n = 1 /\ call' = <<"add_variable", first, q>>
               \/ call' = <<"add_variables", first, n, q>>
  BY <1>2, <1>3, <1>4, <1>5
<1> HIDE DEF first, q
<1>7. MakesVariables(MosekVariables, MosekVariables', MosekConstraints, MosekParameters)
  BY <1>1, <1>2, <1>5, <1>6 DEF MakesVariables
<1> QED BY <1>4, <1>7, MosekSteps

\* Columns that stay under no handle.
LEMMA MosekLeaves ==
    ASSUME MosekHolds, MosekInv', NEW n \in Nat \ {0}, NEW c \in MosekColumn, MosekKeyed(c),
           NEW new, Copies(new, n, c), Mosek!AppendCols(new),
           UNCHANGED <<rows, held, heldRows, offset, maximize>>, call' = <<"rejected">>
    PROVE  MosekHolds' /\ Mosek!Promise!Next
<1> DEFINE H == (Len(cols) + 1)..(Len(cols) + n)
<1>1. held' \in {held, held \cup H}
  OBVIOUS
<1> HIDE DEF H
<1>2. MosekHolds' /\ MosekConstraints' = MosekConstraints /\ MosekVariables' = MosekVariables
  BY <1>1, MosekAppends DEF H
<1> QED BY <1>2, MosekSteps

LEMMA MosekVariableCalls ==
    ASSUME MosekHolds, MosekInv', NEW p \in BoundKinds \cup {Mosek!BinaryParams}, NEW t \in Mosek!Types
    PROVE  /\ Mosek!AddVariable(p, t) => MosekHolds' /\ Mosek!Promise!Next
           /\ Mosek!AddVariableRefused(p, t) => MosekHolds' /\ Mosek!Promise!Next
           /\ \A n \in 1..MaxColumns :
                 /\ Mosek!AddVariables(n, p, t) => MosekHolds' /\ Mosek!Promise!Next
                 /\ Mosek!AddIntegerVariablesRefused(n, p) => MosekHolds' /\ Mosek!Promise!Next
           /\ \A cf \in Mosek!Entries :
                 /\ Mosek!AddColumn(p, cf) => MosekHolds' /\ Mosek!Promise!Next
                 /\ Mosek!AddColumnRefused(p, cf) => MosekHolds' /\ Mosek!Promise!Next
<1> DEFINE made(type, cf) == MosekCol(p.obj, Mosek!BoundKey(p.lb, p.ub), p.lb, p.ub, type, cf)
           zeros == Mosek!Zeros
           none == [k \in DOMAIN heldRows |-> zeros[heldRows[k]]]
<1>0. /\ zeros \in [1..Len(rows) -> Coefs] /\ zeros \in [1..Len(rows) -> Int]
      /\ 1 \in Nat \ {0} /\ (\A c : Copies(<<c>>, 1, c)) /\ Len(cols) \in Nat /\ Len(rows) \in Nat
      /\ {Len(cols) + 1} = (Len(cols) + 1)..(Len(cols) + 1)
      /\ "continuous" \in Mosek!Types /\ Coefs \subseteq Int
  BY InstanceDataAssumption, MosekRead DEF Mosek!Zeros, Copies, MosekSeen, Mosek!Types
<1>1. ASSUME NEW type \in Mosek!Types, NEW cf \in [1..Len(rows) -> Coefs]
      PROVE  /\ Mosek!Complete(p, type, cf) = made(type, cf) /\ made(type, cf) \in MosekColumn
             /\ \A k \in 1..3 : Mosek!Stages(p, type, cf)[k] \in MosekColumn
                                /\ MosekKeyed(Mosek!Stages(p, type, cf)[k])
  <2>1. cf \in [1..Len(rows) -> Int] /\ 5 \in 1..5 /\ 1..3 \subseteq 1..5
    <3>1. Coefs \subseteq Int
      BY <1>0
    <3>2. cf \in [1..Len(rows) -> Coefs]
      OBVIOUS
    <3>3. cf \in [1..Len(rows) -> Int]
      BY ONLY <3>1, <3>2
    <3>4. 5 \in 1..5 /\ 1..3 \subseteq 1..5
      OBVIOUS
    <3> QED BY <3>3, <3>4
  <2>2. \A k \in 1..5 : Mosek!Stages(p, type, cf)[k] \in MosekColumn
    BY <1>0, <2>1, MosekStagesTyped
  <2>3. Mosek!Complete(p, type, cf) = made(type, cf)
    BY MosekMade
  <2>4. \A k \in 1..3 : MosekKeyed(Mosek!Stages(p, type, cf)[k])
    BY MosekMade
  <2> QED BY <2>1, <2>2, <2>3, <2>4 DEF Mosek!Complete
<1> HIDE DEF made, zeros
<1>2. ASSUME Mosek!AddVariable(p, t) PROVE MosekHolds' /\ Mosek!Promise!Next
  <2>1. /\ Mosek!AppendCols(<<made(t, zeros)>>) /\ held' = held \cup {Len(cols) + 1}
        /\ UNCHANGED <<rows, heldRows, offset, maximize>>
        /\ call' = <<"add_variable", Len(cols) + 1, Mosek!Typed(p, t)>>
    BY <1>0, <1>1, <1>2 DEF Mosek!AddVariable, zeros
  <2> QED BY <1>0, <1>1, <2>1, MosekAdds DEF made, zeros
<1>3. ASSUME Mosek!AddVariableRefused(p, t) PROVE MosekHolds' /\ Mosek!Promise!Next
  <2>1. PICK k \in 1..3 : Mosek!AppendCols(<<Mosek!Stages(p, t, zeros)[k]>>)
    BY <1>3 DEF Mosek!AddVariableRefused, zeros
  <2>2. UNCHANGED <<rows, held, heldRows, offset, maximize>> /\ call' = <<"rejected">>
    BY <1>3 DEF Mosek!AddVariableRefused
  <2> QED BY <1>0, <1>1, <2>1, <2>2, MosekLeaves
<1>4. ASSUME NEW n \in 1..MaxColumns, Mosek!AddVariables(n, p, t) PROVE MosekHolds' /\ Mosek!Promise!Next
  <2> DEFINE c == [Mosek!WithBound(IF p.obj = 0 THEN Mosek!AppendedVar
                                   ELSE [Mosek!AppendedVar EXCEPT !.obj = p.obj], p) EXCEPT !.type = t]
             new == [k \in 1..n |-> c]
  <2>0. n \in Nat \ {0} /\ c = made(t, zeros)
    BY InstanceBoundsAssumption, MosekMade DEF made, zeros
  <2>1. /\ Mosek!AppendCols(new) /\ held' = held \cup (Len(cols) + 1)..(Len(cols) + n)
        /\ UNCHANGED <<rows, heldRows, offset, maximize>>
        /\ call' = <<"add_variables", Len(cols) + 1, n, Mosek!Typed(p, t)>>
    BY <1>4 DEF Mosek!AddVariables
  <2>2. Copies(new, n, c)
    BY DEF Copies
  <2> HIDE DEF c, new
  <2>3. Copies(new, n, made(t, zeros)) /\ made(t, zeros) \in MosekColumn
    BY <1>0, <1>1, <2>0, <2>2
  <2> QED BY <1>0, <2>0, <2>1, <2>3, MosekAdds DEF made, zeros
<1>5. ASSUME NEW n \in 1..MaxColumns, Mosek!AddIntegerVariablesRefused(n, p) PROVE MosekHolds' /\ Mosek!Promise!Next
  <2> DEFINE a == Mosek!AppendedVar
             b == [a EXCEPT !.obj = p.obj]
             d == Mosek!WithBound(b, p)
  <2>1. PICK c \in {a, b, d} : Mosek!AppendCols([k \in 1..n |-> c])
    BY <1>5 DEF Mosek!AddIntegerVariablesRefused
  <2>2. MosekKeyed(a) /\ MosekKeyed(b) /\ MosekKeyed(d)
    BY MosekMade
  <2>3. a \in MosekColumn /\ a.coefs = Mosek!Zeros /\ b \in MosekColumn /\ b.coefs = Mosek!Zeros
    BY <1>0, MosekFreshTyped
  <2>4. d \in MosekColumn
    <3> HIDE DEF b
    <3> QED BY <1>0, <2>3, MosekFreshTyped
  <2> HIDE DEF a, b, d
  <2>5. c \in MosekColumn /\ MosekKeyed(c)
    BY <2>1, <2>2, <2>3, <2>4
  <2> DEFINE new == [k \in 1..n |-> c]
  <2>6. Copies(new, n, c) /\ n \in Nat \ {0}
    BY InstanceBoundsAssumption DEF Copies
  <2>7. Mosek!AppendCols(new)
    BY <2>1
  <2>8. UNCHANGED <<rows, held, heldRows, offset, maximize>> /\ call' = <<"rejected">>
    BY <1>5 DEF Mosek!AddIntegerVariablesRefused
  <2> HIDE DEF new
  <2> QED BY <2>5, <2>6, <2>7, <2>8, MosekLeaves
<1>6. ASSUME NEW cf \in Mosek!Entries, Mosek!AddColumn(p, cf) PROVE MosekHolds' /\ Mosek!Promise!Next
  <2>0. cf \in [1..Len(rows) -> Coefs]
    BY DEF Mosek!Entries
  <2>1. /\ Mosek!AppendCols(<<made("continuous", cf)>>) /\ held' = held \cup {Len(cols) + 1}
        /\ UNCHANGED <<rows, heldRows, offset, maximize>>
        /\ call' = <<"add_column", Len(cols) + 1, Mosek!Typed(p, "continuous"),
                     [k \in DOMAIN heldRows |-> cf[heldRows[k]]]>>
    BY <1>0, <1>1, <1>6, <2>0 DEF Mosek!AddColumn
  <2>2. made("continuous", cf) \in MosekColumn
    BY <1>0, <1>1, <2>0
  <2> QED BY <1>0, <2>0, <2>1, <2>2, MosekAdds DEF made
<1>7. ASSUME NEW cf \in Mosek!Entries, Mosek!AddColumnRefused(p, cf) PROVE MosekHolds' /\ Mosek!Promise!Next
  <2>0. cf \in [1..Len(rows) -> Coefs]
    BY DEF Mosek!Entries
  <2>1. PICK k \in 1..3 : Mosek!AppendCols(<<Mosek!Stages(p, "continuous", cf)[k]>>)
    BY <1>7 DEF Mosek!AddColumnRefused
  <2>2. UNCHANGED <<rows, held, heldRows, offset, maximize>> /\ call' = <<"rejected">>
    BY <1>7 DEF Mosek!AddColumnRefused
  <2> QED BY <1>0, <1>1, <2>0, <2>1, <2>2, MosekLeaves
<1> QED BY <1>2, <1>3, <1>4, <1>5, <1>6, <1>7

\* A new objective, and one that is read back and added to.
LEMMA MosekObjective ==
    ASSUME MosekHolds, MosekInv', NEW e \in Mosek!ExpressionsOver(held),
           Mosek!SetObjective(e) \/ Mosek!AddObjective(e)
    PROVE  MosekHolds' /\ Mosek!Promise!Next
<1>1. MosekSeen
  BY MosekRead
<1>2. PICK coef : /\ Mosek!PutObjective(coef) /\ UNCHANGED <<rows, maximize, held, heldRows>>
                  /\ \/ /\ call' = <<"set_objective", e>> /\ offset' = e.constant
                        /\ \A h \in DOMAIN cols : coef[h] = CoefficientOf(e.terms, h)
                     \/ /\ call' = <<"add_objective", e>> /\ offset' = offset + e.constant
                        /\ \A h \in DOMAIN cols : coef[h] = cols[h].obj + CoefficientOf(e.terms, h)
  <2>1. CASE Mosek!SetObjective(e)
    <3> DEFINE coef == [i \in DOMAIN cols |-> Mosek!CoefficientOf(e.terms, i)]
    <3>1. \A h \in DOMAIN cols : coef[h] = CoefficientOf(e.terms, h)
      BY MosekSame
    <3>2. Mosek!PutObjective(coef) /\ UNCHANGED <<rows, maximize, held, heldRows>>
          /\ call' = <<"set_objective", e>> /\ offset' = e.constant
      BY <2>1 DEF Mosek!SetObjective
    <3> HIDE DEF coef
    <3> QED BY <3>1, <3>2
  <2>2. CASE Mosek!AddObjective(e)
    <3> DEFINE coef == [i \in DOMAIN cols |-> cols[i].obj + Mosek!CoefficientOf(e.terms, i)]
    <3>1. \A h \in DOMAIN cols : coef[h] = cols[h].obj + CoefficientOf(e.terms, h)
      BY MosekSame
    <3>2. Mosek!PutObjective(coef) /\ UNCHANGED <<rows, maximize, held, heldRows>>
          /\ call' = <<"add_objective", e>> /\ offset' = offset + e.constant
      BY <2>2 DEF Mosek!AddObjective
    <3> HIDE DEF coef
    <3> QED BY <3>1, <3>2
  <2> QED BY <2>1, <2>2
<1> DEFINE f == [i \in DOMAIN cols |-> [cols[i] EXCEPT !.obj = coef[i]]]
<1>3. cols' = f
  BY <1>2 DEF Mosek!PutObjective
<1>4. ASSUME NEW i \in DOMAIN cols
      PROVE  /\ MosekKeyed(f[i])
             /\ MosekView(f[i], heldRows) = [MosekView(cols[i], heldRows) EXCEPT !.obj = coef[i]]
  <2>1. cols[i] \in MosekColumn /\ MosekKeyed(cols[i])
    BY <1>1 DEF MosekSeen
  <2>2. f[i] = [cols[i] EXCEPT !.obj = coef[i]]
    OBVIOUS
  <2> HIDE DEF f
  <2> QED BY <2>1, <2>2 DEF MosekColumn, MosekKeyed, MosekView, Var
<1>5. cols' = [i \in DOMAIN cols |-> f[i]] /\ DOMAIN cols' = DOMAIN cols
  BY <1>3
<1> HIDE DEF f
<1>6. MosekHolds'
  <2>1. \A i \in DOMAIN cols' : MosekKeyed(cols'[i])
    BY <1>4, <1>5
  <2>2. held' \subseteq DOMAIN cols' /\ \A k \in DOMAIN heldRows' : heldRows'[k] \in DOMAIN rows'
    BY <1>2, <1>5 DEF MosekHolds
  <2> QED BY <2>1, <2>2 DEF MosekHolds, MosekKeyed
<1>7. MosekSeen'
  BY <1>6, MosekRead, PTL
<1>8. DOMAIN MosekVariables = held /\ MosekConstraints' = MosekConstraints
  BY <1>2 DEF MosekVariables, MosekConstraints
<1>9. MosekVariables' = Priced(MosekVariables, coef)
  <2>1. /\ MosekVariables = [h \in held |-> MosekView(cols[h], heldRows)]
        /\ MosekVariables' = [h \in held |-> MosekView(cols'[h], heldRows)] /\ held \subseteq DOMAIN cols
    BY <1>1, <1>2, <1>7 DEF MosekSeen
  <2> QED BY <1>4, <1>5, <1>8, <2>1 DEF Priced
<1>10. ObjectiveOf(MosekVariables, e, coef)
  <2>1. \A h \in held : h \in DOMAIN cols /\ MosekVariables[h].obj = cols[h].obj
    BY <1>1 DEF MosekSeen, MosekView, Var
  <2> QED BY <1>2, <1>8, <2>1 DEF ObjectiveOf
<1>11. e \in ExpressionsOver(DOMAIN MosekVariables)
  BY <1>8, MosekSame
<1>12. ChangesObjective(MosekVariables, MosekVariables')
  BY <1>9, <1>10, <1>11 DEF ChangesObjective
<1> QED BY <1>2, <1>6, <1>8, <1>12, MosekSteps

\* The numbers of new rows.
Numbers(n, m) == [r \in 1..m |-> n + r]
HeldBehind(hr, n, m) == hr \o Numbers(n, m)

LEMMA MosekHeldBehind ==
    ASSUME NEW n \in Nat, NEW m \in Nat, NEW j \in Nat, NEW hr, Listed(hr, j)
    PROVE  /\ Len(hr) = j /\ Len(HeldBehind(hr, n, m)) = j + m
           /\ Behind(HeldBehind(hr, n, m), hr, Numbers(n, m), j, m)
<1> DEFINE a == Numbers(n, m)
           s == HeldBehind(hr, n, m)
<1>1. a = [r \in 1..m |-> a[r]]
  BY DEF Numbers
<1> HIDE DEF a
<1>2. hr = [k \in 1..j |-> hr[k]]
  BY DEF Listed
<1>3. /\ Len(hr) = j
      /\ hr \o a = [k \in 1..(j + m) |-> IF k <= j THEN hr[k] ELSE a[k - j]]
  BY <1>1, <1>2, ConcatIs
<1>4. s = hr \o a
  BY DEF HeldBehind, a
<1> HIDE DEF s
<1>5. s = [k \in 1..(j + m) |-> IF k <= j THEN hr[k] ELSE a[k - j]]
  BY <1>3, <1>4
<1>6. Len(s) = j + m
  BY <1>5
<1>7. Behind(s, hr, a, j, m)
  BY <1>5 DEF Behind
<1> QED BY <1>3, <1>6, <1>7 DEF s, a

\* Of the entries in n rows and m more, the client sees those in the rows that it held
\* and, if it gets their handles, those in the new ones.
LEMMA MosekShownBehind ==
    ASSUME NEW n \in Nat, NEW m \in Nat, NEW j \in Nat, NEW hr, Listed(hr, j), \A k \in 1..j : hr[k] \in 1..n,
           NEW old, NEW more, NEW s, Behind(s, old, more, n, m)
    PROVE  /\ MosekShown(s, hr) = MosekShown(old, hr)
           /\ \A lcs, h : EntriesFor(more, lcs, m, h) =>
                 MosekShown(s, HeldBehind(hr, n, m)) = RowsBehind(MosekShown(old, hr), j, lcs, m, h)
<1> DEFINE t == HeldBehind(hr, n, m)
<1>a. Len(hr) = j /\ Len(t) = j + m /\ Behind(t, hr, Numbers(n, m), j, m)
  BY MosekHeldBehind
<1>b. \A k \in 1..m : Numbers(n, m)[k] = n + k
  BY DEF Numbers
<1> HIDE DEF t
<1>1. /\ \A k \in 1..j : t[k] = hr[k]
      /\ \A k \in 1..m : t[j + k] = n + k
  <2>1. \A k \in 1..(j + m) : t[k] = IF k <= j THEN hr[k] ELSE Numbers(n, m)[k - j]
    BY <1>a DEF Behind
  <2>2. ASSUME NEW k \in 1..j PROVE t[k] = hr[k]
    <3>1. k \in 1..(j + m) /\ k <= j
      OBVIOUS
    <3> QED BY <2>1, <3>1
  <2>3. ASSUME NEW k \in 1..m PROVE t[j + k] = n + k
    <3>1. j + k \in 1..(j + m) /\ ~(j + k <= j) /\ (j + k) - j = k
      OBVIOUS
    <3>2. t[j + k] = Numbers(n, m)[(j + k) - j]
      BY <2>1, <3>1
    <3> QED BY <1>b, <3>1, <3>2
  <2> QED BY <2>2, <2>3
<1>2. \A r \in 1..(n + m) : s[r] = IF r <= n THEN old[r] ELSE more[r - n]
  BY DEF Behind
<1>3. \A k \in 1..j : s[hr[k]] = old[hr[k]]
  <2>1. \A k \in 1..j : hr[k] \in 1..(n + m) /\ hr[k] <= n
    OBVIOUS
  <2> QED BY <1>2, <2>1
<1>4. MosekShown(s, hr) = MosekShown(old, hr)
  BY <1>a, <1>3 DEF MosekShown
<1>5. ASSUME NEW lcs, NEW h, EntriesFor(more, lcs, m, h)
      PROVE  MosekShown(s, t) = RowsBehind(MosekShown(old, hr), j, lcs, m, h)
  <2> DEFINE a == MosekShown(s, t)
             b == RowsBehind(MosekShown(old, hr), j, lcs, m, h)
  <2>1. a = [k \in 1..(j + m) |-> s[t[k]]]
    BY <1>a DEF MosekShown
  <2>2. b = [k \in 1..(j + m) |-> IF k <= j THEN MosekShown(old, hr)[k] ELSE CoefficientOf(lcs[k - j].terms.terms, h)]
    BY DEF RowsBehind
  <2>3. ASSUME NEW k \in 1..(j + m) PROVE a[k] = b[k]
    <3>1. CASE k <= j
      <4>1. k \in 1..j
        BY <3>1
      <4>a. t[k] = hr[k] /\ s[hr[k]] = old[hr[k]]
        BY <1>1, <1>3, <4>1
      <4>b. a[k] = s[t[k]]
        <5> HIDE DEF a
        <5> QED BY <2>1
      <4>c. b[k] = MosekShown(old, hr)[k]
        <5> HIDE DEF b
        <5> QED BY <2>2, <3>1
      <4>2. a[k] = old[hr[k]] /\ b[k] = MosekShown(old, hr)[k]
        BY ONLY <4>a, <4>b, <4>c
      <4> QED BY <1>a, <4>1, <4>2 DEF MosekShown
    <3>2. CASE ~(k <= j)
      <4> DEFINE i == k - j
      <4>1. i \in 1..m /\ k = j + i
        BY <3>2
      <4>2. t[k] = n + i
        BY <1>1, <4>1
      <4>3. n + i \in 1..(n + m) /\ ~(n + i <= n) /\ (n + i) - n = i
        BY <4>1
      <4>4. s[n + i] = more[i]
        BY <1>2, <4>3
      <4>5. more[i] = CoefficientOf(lcs[i].terms.terms, h)
        BY <1>5, <4>1 DEF EntriesFor
      <4> HIDE DEF i
      <4>6. a[k] = more[i]
        <5> HIDE DEF a
        <5> QED BY <2>1, <4>2, <4>4
      <4>7. b[k] = CoefficientOf(lcs[k - j].terms.terms, h)
        <5> HIDE DEF b
        <5> QED BY <2>2, <3>2
      <4> QED BY <4>5, <4>6, <4>7 DEF i
    <3> QED BY <3>1, <3>2
  <2> HIDE DEF a, b
  <2>4. a = [k \in 1..(j + m) |-> a[k]] /\ b = [k \in 1..(j + m) |-> b[k]]
    <3>1. a = [k \in 1..(j + m) |-> a[k]]
      BY ONLY <2>1
    <3>2. b = [k \in 1..(j + m) |-> b[k]]
      BY ONLY <2>2
    <3> QED BY <3>1, <3>2
  <2>5. a = b
    BY ONLY <2>3, <2>4
  <2> QED BY <2>5 DEF a, b
<1> QED BY <1>4, <1>5 DEF t

\* What Fill puts in the first n of the new rows, in column i, and the rows of which the
\* first b have bounds.
MosekMore(lcs, d, n, i) == [r \in DOMAIN lcs |-> IF r <= n THEN Mosek!Registered(lcs[r].terms, i, d) ELSE 0]
MosekNew(lcs, b) == [r \in DOMAIN lcs |-> IF r <= b THEN Mosek!BoundsOf(lcs[r]) ELSE Mosek!AppendedCon]

\* Rows that are appended, under handles or under none, to columns that are otherwise
\* what they were.
LEMMA MosekFilled ==
    ASSUME MosekHolds, NEW lcs \in Mosek!Batches, NEW d \in BOOLEAN, NEW n, NEW b, Mosek!Fill(lcs, d, n, b)
    PROVE  /\ Len(lcs) \in Nat /\ DOMAIN cols' = DOMAIN cols
           /\ Behind(rows', rows, MosekNew(lcs, b), Len(rows), Len(lcs)) /\ Len(rows') = Len(rows) + Len(lcs)
           /\ \A i \in DOMAIN cols :
                 /\ MosekKeyed(cols'[i])
                 /\ MosekView(cols'[i], heldRows) = MosekView(cols[i], heldRows)
                 /\ EntriesFor(MosekMore(lcs, d, n, i), lcs, Len(lcs), i) =>
                       MosekView(cols'[i], HeldBehind(heldRows, Len(rows), Len(lcs)))
                       = [MosekView(cols[i], heldRows) EXCEPT
                             !.coefs = RowsBehind(@, Len(heldRows), lcs, Len(lcs), i)]
<1> DEFINE R == Len(rows)
           m == Len(lcs)
           j == Len(heldRows)
           coef == [i \in DOMAIN cols |-> MosekMore(lcs, d, n, i)]
           f == [i \in DOMAIN cols |-> [cols[i] EXCEPT !.coefs = @ \o coef[i]]]
           new == MosekNew(lcs, b)
<1>1. MosekSeen
  BY MosekRead
<1>2. m \in Nat /\ DOMAIN lcs = 1..m
  BY BatchesTyped, MosekSame DEF Mosek!Batches
<1>3. rows' = rows \o new /\ cols' = f
  BY DEF Mosek!Fill, Mosek!AppendRows, MosekNew, MosekMore
<1>4. Listed(new, m) /\ \A i \in DOMAIN cols : Listed(coef[i], m)
  BY <1>2 DEF Listed, MosekNew, MosekMore
<1>5. \A r \in 1..m : new[r] \in MosekRow
  <2>1. ASSUME NEW r \in 1..m PROVE new[r] = IF r <= b THEN Mosek!BoundsOf(lcs[r]) ELSE Mosek!AppendedCon
    BY <1>2 DEF MosekNew
  <2>2. \A r \in 1..m : Mosek!BoundsOf(lcs[r]) \in MosekRow
    BY <1>2, MosekBatchesTyped
  <2>3. Mosek!AppendedCon \in MosekRow
    BY InstanceDataAssumption DEF Mosek!AppendedCon, MosekRow, MosekKeys
  <2> HIDE DEF new
  <2> QED BY <2>1, <2>2, <2>3
<1> HIDE DEF m, new
<1>6. Behind(rows', rows, new, R, m) /\ R \in Nat /\ Len(rows') = R + m
  <2>1. rows \in Seq(MosekRow)
    BY DEF MosekHolds, MosekInv
  <2> QED BY <1>2, <1>3, <1>4, <1>5, <2>1, RowsAppended
<1>7. ASSUME NEW i \in DOMAIN cols
      PROVE  /\ cols[i] \in MosekColumn /\ MosekKeyed(cols[i]) /\ Listed(cols[i].coefs, R)
             /\ f[i] = [cols[i] EXCEPT !.coefs = cols[i].coefs \o coef[i]]
  BY <1>1 DEF MosekSeen, MosekColumn, Listed
<1>8. DOMAIN cols' = DOMAIN cols /\ \A i \in DOMAIN cols : cols'[i] = f[i]
  BY <1>3
<1>9. j \in Nat /\ Listed(heldRows, j) /\ \A k \in 1..j : heldRows[k] \in 1..R
  <2>1. heldRows \in Seq(Int)
    BY DEF MosekHolds, MosekInv
  <2>2. heldRows = [k \in 1..j |-> heldRows[k]]
    BY <2>1, LenProperties
  <2> QED BY <1>1, <2>2 DEF MosekSeen, Listed
<1> HIDE DEF f, coef
<1>10. ASSUME NEW i \in DOMAIN cols
       PROVE  /\ MosekKeyed(cols'[i])
              /\ MosekView(cols'[i], heldRows) = MosekView(cols[i], heldRows)
              /\ EntriesFor(coef[i], lcs, m, i) =>
                    MosekView(cols'[i], HeldBehind(heldRows, R, m))
                    = [MosekView(cols[i], heldRows) EXCEPT !.coefs = RowsBehind(@, j, lcs, m, i)]
  <2> DEFINE s == cols[i].coefs \o coef[i]
  <2>1. /\ cols'[i].obj = cols[i].obj /\ cols'[i].key = cols[i].key /\ cols'[i].lb = cols[i].lb
        /\ cols'[i].ub = cols[i].ub /\ cols'[i].type = cols[i].type /\ cols'[i].coefs = s
    <3>1. cols[i] \in MosekColumn /\ cols'[i] = [cols[i] EXCEPT !.coefs = s]
      BY <1>7, <1>8
    <3> HIDE DEF s
    <3> QED BY <3>1 DEF MosekColumn
  <2>a. s = cols[i].coefs \o coef[i]
    OBVIOUS
  <2>b. Behind(s, cols[i].coefs, coef[i], R, m)
    <3>1. /\ cols[i].coefs = [r \in 1..R |-> cols[i].coefs[r]]
          /\ coef[i] = [r \in 1..m |-> coef[i][r]]
      BY <1>4, <1>7 DEF Listed
    <3>2. s = [r \in 1..(R + m) |-> IF r <= R THEN cols[i].coefs[r] ELSE coef[i][r - R]]
      <4> HIDE DEF R
      <4> QED BY <1>2, <1>6, <2>a, <3>1, ConcatIs
    <3> HIDE DEF s, R
    <3> QED BY <3>2 DEF Behind
  <2> HIDE DEF s
  <2>2. /\ MosekShown(s, heldRows) = MosekShown(cols[i].coefs, heldRows)
        /\ EntriesFor(coef[i], lcs, m, i) =>
              MosekShown(s, HeldBehind(heldRows, R, m))
              = RowsBehind(MosekShown(cols[i].coefs, heldRows), j, lcs, m, i)
    <3>1. /\ R \in Nat /\ m \in Nat /\ j \in Nat /\ Listed(heldRows, j)
          /\ (\A k \in 1..j : heldRows[k] \in 1..R)
          /\ Behind(s, cols[i].coefs, coef[i], R, m)
      BY <1>2, <1>6, <1>9, <2>b
    <3> HIDE DEF R, j
    <3> QED BY ONLY <3>1, MosekShownBehind
  <2>3. MosekKeyed(cols'[i])
    BY <1>7, <2>1 DEF MosekKeyed
  <2>4. \A hr : MosekView(cols'[i], hr) = Var(cols[i].obj, cols[i].lb, cols[i].ub, cols[i].type, MosekShown(s, hr))
    BY <2>1 DEF MosekView
  <2>5. \A cf : [MosekView(cols[i], heldRows) EXCEPT !.coefs = cf]
                = Var(cols[i].obj, cols[i].lb, cols[i].ub, cols[i].type, cf)
    BY DEF MosekView, Var
  <2>6. MosekView(cols[i], heldRows).coefs = MosekShown(cols[i].coefs, heldRows)
    BY DEF MosekView, Var
  <2>7. MosekView(cols'[i], heldRows) = MosekView(cols[i], heldRows)
    BY <2>2, <2>4 DEF MosekView
  <2>8. ASSUME EntriesFor(coef[i], lcs, m, i)
        PROVE  MosekView(cols'[i], HeldBehind(heldRows, R, m))
               = [MosekView(cols[i], heldRows) EXCEPT !.coefs = RowsBehind(@, j, lcs, m, i)]
    <3>1. MosekView(cols'[i], HeldBehind(heldRows, R, m))
          = Var(cols[i].obj, cols[i].lb, cols[i].ub, cols[i].type,
                RowsBehind(MosekShown(cols[i].coefs, heldRows), j, lcs, m, i))
      BY <2>2, <2>4, <2>8
    <3>2. [MosekView(cols[i], heldRows) EXCEPT !.coefs = RowsBehind(MosekShown(cols[i].coefs, heldRows), j, lcs, m, i)]
          = Var(cols[i].obj, cols[i].lb, cols[i].ub, cols[i].type,
                RowsBehind(MosekShown(cols[i].coefs, heldRows), j, lcs, m, i))
      BY DEF MosekView, Var
    <3> QED BY <2>6, <3>1, <3>2
  <2> QED BY <2>3, <2>7, <2>8
<1>11. \A i \in DOMAIN cols : coef[i] = MosekMore(lcs, d, n, i)
  BY DEF coef
<1> QED BY <1>2, <1>6, <1>8, <1>10, <1>11 DEF m, new

\* Rows that the client asked for and gets the handles of.
LEMMA MosekRows ==
    ASSUME MosekHolds, MosekInv', NEW lcs \in Mosek!Batches, NEW d \in BOOLEAN, Mosek!AddConstraints(lcs, d)
    PROVE  MosekHolds' /\ Mosek!Promise!Next
<1> DEFINE R == Len(rows)
           m == Len(lcs)
           j == Len(heldRows)
           new == MosekNew(lcs, m)
           hr == HeldBehind(heldRows, R, m)
<1>1. MosekSeen
  BY MosekRead
<1>2. /\ m \in Nat /\ DOMAIN lcs = 1..m /\ lcs = [r \in 1..m |-> lcs[r]]
      /\ \A r \in DOMAIN lcs :
            /\ lcs[r] \in ConstraintsOver(held)
            /\ lcs[r].terms \in ExpressionsOver(held) /\ MayPass(lcs[r].terms, d)
            /\ lcs[r].sense \in Senses /\ lcs[r].rhs \in Rhs
  BY BatchesTyped, MosekSame DEF Mosek!AddConstraints, Mosek!Batches
<1>3. /\ call' = <<"add_constraints", lcs>> /\ UNCHANGED <<offset, maximize, held>>
      /\ Mosek!Fill(lcs, d, m, m) /\ heldRows' = hr
  <2>1. [r \in DOMAIN lcs |-> R + r] = Numbers(R, m)
    BY <1>2 DEF Numbers
  <2> QED BY <2>1 DEF Mosek!AddConstraints, HeldBehind
<1>4. ASSUME NEW i \in DOMAIN cols PROVE EntriesFor(MosekMore(lcs, d, m, i), lcs, m, i)
  <2>1. ASSUME NEW r \in 1..m PROVE Mosek!Registered(lcs[r].terms, i, d) = CoefficientOf(lcs[r].terms.terms, i)
    BY <1>2, RegisteredIsSum, MosekSame
  <2>2. \A r \in 1..m : r <= m
    BY <1>2
  <2> HIDE DEF m
  <2> QED BY <1>2, <2>1, <2>2 DEF EntriesFor, MosekMore
<1>5. /\ DOMAIN cols' = DOMAIN cols
      /\ Behind(rows', rows, new, R, m) /\ Len(rows') = R + m
      /\ \A i \in DOMAIN cols :
            /\ MosekKeyed(cols'[i])
            /\ MosekView(cols'[i], hr) = [MosekView(cols[i], heldRows) EXCEPT !.coefs = RowsBehind(@, j, lcs, m, i)]
  BY <1>3, <1>4, MosekFilled
<1>6. ASSUME NEW r \in 1..m PROVE Mosek!ConstraintOf(new[r]) = Asked(lcs, m)[r]
  <2>1. new[r] = Mosek!BoundsOf(lcs[r])
    BY <1>2 DEF MosekNew
  <2>2. Asked(lcs, m)[r] = [sense |-> lcs[r].sense, rhs |-> lcs[r].rhs]
    BY DEF Asked
  <2>3. lcs[r].sense \in Senses
    BY <1>2
  <2> HIDE DEF new
  <2> QED BY <2>1, <2>2, <2>3 DEF Senses, Mosek!BoundsOf, Mosek!ConstraintOf
<1>7. R \in Nat /\ j \in Nat /\ Listed(heldRows, j) /\ \A k \in 1..j : heldRows[k] \in 1..R
  <2>1. heldRows \in Seq(Int)
    BY DEF MosekHolds, MosekInv
  <2>2. heldRows = [k \in 1..j |-> heldRows[k]]
    BY <2>1, LenProperties
  <2> QED BY <1>1, <2>2 DEF MosekSeen, Listed
<1> HIDE DEF m, new
<1>8. Len(hr) = j + m /\ Behind(hr, heldRows, Numbers(R, m), j, m)
  <2> HIDE DEF R, j
  <2> QED BY <1>2, <1>7, MosekHeldBehind
<1> HIDE DEF hr
<1>9. /\ \A k \in 1..j : k \in 1..(j + m) /\ k <= j /\ hr[k] = heldRows[k] /\ rows'[hr[k]] = rows[heldRows[k]]
                         /\ hr[k] \in 1..(R + m)
      /\ \A k \in 1..(j + m) : ~(k <= j) => /\ k - j \in 1..m /\ hr[k] = R + (k - j)
                                            /\ rows'[hr[k]] = new[k - j] /\ hr[k] \in 1..(R + m)
  <2>1. \A r \in 1..(R + m) : rows'[r] = IF r <= R THEN rows[r] ELSE new[r - R]
    BY <1>5 DEF Behind
  <2>2. \A k \in 1..(j + m) : hr[k] = IF k <= j THEN heldRows[k] ELSE Numbers(R, m)[k - j]
    BY <1>8 DEF Behind
  <2> HIDE DEF R, j
  <2>3. ASSUME NEW k \in 1..j
        PROVE  k \in 1..(j + m) /\ k <= j /\ hr[k] = heldRows[k] /\ rows'[hr[k]] = rows[heldRows[k]]
               /\ hr[k] \in 1..(R + m)
    <3>1. k \in 1..(j + m) /\ k <= j
      BY <1>2, <1>7
    <3>2. heldRows[k] \in 1..(R + m) /\ heldRows[k] <= R
      BY <1>2, <1>7
    <3>3. hr[k] = heldRows[k]
      BY <2>2, <3>1
    <3> QED BY <2>1, <3>1, <3>2, <3>3
  <2>4. ASSUME NEW k \in 1..(j + m), ~(k <= j)
        PROVE  k - j \in 1..m /\ hr[k] = R + (k - j) /\ rows'[hr[k]] = new[k - j] /\ hr[k] \in 1..(R + m)
    <3>1. k - j \in 1..m
      BY <1>2, <1>7, <2>4
    <3>2. hr[k] = Numbers(R, m)[k - j]
      BY <2>2, <2>4
    <3>3. Numbers(R, m)[k - j] = R + (k - j)
      BY <3>1 DEF Numbers
    <3>4. R + (k - j) \in 1..(R + m) /\ ~(R + (k - j) <= R) /\ (R + (k - j)) - R = k - j
      BY <1>2, <1>7, <3>1
    <3>5. rows'[R + (k - j)] = new[(R + (k - j)) - R]
      BY <2>1, <3>4
    <3> QED BY <3>1, <3>2, <3>3, <3>4, <3>5
  <2> QED BY <2>3, <2>4
<1>10. MosekHolds'
  <2>1. \A i \in DOMAIN cols' : MosekKeyed(cols'[i])
    BY <1>5
  <2>2. held' \subseteq DOMAIN cols'
    BY <1>3, <1>5 DEF MosekHolds
  <2>3. DOMAIN rows' = 1..(R + m) /\ DOMAIN heldRows' = 1..(j + m)
    <3>1. rows' \in Seq(MosekRow') /\ heldRows' \in Seq(Int)
      BY DEF MosekInv
    <3> QED BY <1>3, <1>5, <1>8, <3>1, LenProperties
  <2>4. ASSUME NEW k \in DOMAIN heldRows' PROVE heldRows'[k] \in DOMAIN rows'
    <3>1. k \in 1..(j + m) /\ (k <= j => k \in 1..j)
      BY <1>7, <2>3
    <3> QED BY <1>3, <1>9, <2>3, <3>1
  <2> QED BY <2>1, <2>2, <2>4 DEF MosekHolds, MosekKeyed
<1>11. MosekSeen'
  BY <1>10, MosekRead, PTL
<1>12. DOMAIN MosekVariables = held /\ Len(MosekConstraints) = j
  BY <1>1 DEF MosekVariables, MosekSeen
<1>13. MosekVariables' = Extended(MosekVariables, j, lcs, m)
  <2>1. MosekVariables' = [h \in held |-> MosekView(cols'[h], hr)]
    BY <1>3, <1>11 DEF MosekSeen
  <2>2. \A h \in held : h \in DOMAIN cols /\ MosekVariables[h] = MosekView(cols[h], heldRows)
    BY <1>1 DEF MosekSeen
  <2>3. \A h \in held : MosekView(cols'[h], hr) = [MosekVariables[h] EXCEPT !.coefs = RowsBehind(@, j, lcs, m, h)]
    BY <1>5, <2>2
  <2> HIDE DEF j
  <2> QED BY <1>12, <2>1, <2>3 DEF Extended
<1>14. MosekConstraints' = MosekConstraints \o Asked(lcs, m)
  <2>1. /\ MosekConstraints = [k \in 1..j |-> Mosek!ConstraintOf(rows[heldRows[k]])]
        /\ MosekConstraints' = [k \in 1..(j + m) |-> Mosek!ConstraintOf(rows'[hr[k]])]
    BY <1>1, <1>3, <1>8, <1>11 DEF MosekSeen, Mosek!ConstraintOf
  <2> HIDE DEF j
  <2>2. Behind(MosekConstraints', MosekConstraints, Asked(lcs, m), j, m)
    <3>1. ASSUME NEW k \in 1..(j + m)
          PROVE  MosekConstraints'[k] = IF k <= j THEN MosekConstraints[k] ELSE Asked(lcs, m)[k - j]
      <4>1. MosekConstraints'[k] = Mosek!ConstraintOf(rows'[hr[k]])
        BY <2>1
      <4>2. CASE k <= j
        <5>1. k \in 1..j
          BY <1>2, <1>7, <4>2
        <5>2. rows'[hr[k]] = rows[heldRows[k]] /\ MosekConstraints[k] = Mosek!ConstraintOf(rows[heldRows[k]])
          BY <1>9, <2>1, <5>1
        <5> QED BY <4>1, <4>2, <5>2
      <4>3. CASE ~(k <= j)
        <5>1. k - j \in 1..m /\ rows'[hr[k]] = new[k - j]
          BY <1>9, <4>3
        <5>2. Mosek!ConstraintOf(new[k - j]) = Asked(lcs, m)[k - j]
          BY <1>6, <5>1
        <5> QED BY <4>1, <4>3, <5>1, <5>2
      <4> QED BY <4>2, <4>3
    <3> QED BY <3>1 DEF Behind
  <2>3. Listed(MosekConstraints, j) /\ Listed(MosekConstraints', j + m)
    BY <2>1 DEF Listed
  <2> QED BY <1>2, <1>7, <2>2, <2>3, ConstraintsAppended
<1>15. MakesRows(MosekVariables, MosekVariables', MosekConstraints, MosekConstraints')
  <2>1. lcs \in [1..m -> ConstraintsOver(DOMAIN MosekVariables)]
    BY <1>2, <1>12
  <2>2. /\ MosekVariables' = Extended(MosekVariables, Len(MosekConstraints), lcs, m)
        /\ MosekConstraints' = MosekConstraints \o Asked(lcs, m)
        /\ call' = <<"add_constraints", lcs>>
    BY <1>3, <1>12, <1>13, <1>14
  <2> QED BY <1>2, <2>1, <2>2 DEF MakesRows
<1> QED BY <1>3, <1>10, <1>15, MosekSteps

\* Rows that stay under no handle.
LEMMA MosekRowsLeft ==
    ASSUME MosekHolds, MosekInv', NEW lcs \in Mosek!Batches, NEW d \in BOOLEAN, Mosek!AddConstraintsRefused(lcs, d)
    PROVE  MosekHolds' /\ Mosek!Promise!Next
<1> DEFINE R == Len(rows)
           m == Len(lcs)
<1>1. MosekSeen
  BY MosekRead
<1>2. call' = <<"rejected">> /\ UNCHANGED <<offset, maximize, held, heldRows>>
  BY DEF Mosek!AddConstraintsRefused
<1>3. /\ m \in Nat /\ DOMAIN cols' = DOMAIN cols
      /\ \A i \in DOMAIN cols :
            MosekKeyed(cols'[i]) /\ MosekView(cols'[i], heldRows) = MosekView(cols[i], heldRows)
      /\ \E new : Behind(rows', rows, new, R, m) /\ Len(rows') = R + m
  <2>1. ASSUME NEW n, Mosek!Fill(lcs, d, n, 0)
        PROVE  /\ m \in Nat /\ DOMAIN cols' = DOMAIN cols
               /\ \A i \in DOMAIN cols :
                     MosekKeyed(cols'[i]) /\ MosekView(cols'[i], heldRows) = MosekView(cols[i], heldRows)
               /\ Behind(rows', rows, MosekNew(lcs, 0), R, m) /\ Len(rows') = R + m
    BY <2>1, MosekFilled
  <2> HIDE DEF R, m
  <2> QED BY <2>1 DEF Mosek!AddConstraintsRefused
<1>4. ASSUME NEW k \in DOMAIN heldRows
      PROVE  heldRows[k] \in 1..Len(rows') /\ rows'[heldRows[k]] = rows[heldRows[k]]
  <2>1. heldRows[k] \in 1..R /\ R \in Nat
    BY <1>1 DEF MosekSeen
  <2>2. \A r \in 1..(R + m) : r <= R => rows'[r] = rows[r]
    BY <1>3 DEF Behind
  <2> HIDE DEF R, m
  <2>3. heldRows[k] \in 1..(R + m) /\ heldRows[k] <= R
    BY <1>3, <2>1
  <2> QED BY <1>3, <2>2, <2>3
<1>5. MosekHolds'
  <2>1. \A i \in DOMAIN cols' : MosekKeyed(cols'[i])
    BY <1>3
  <2>2. held' \subseteq DOMAIN cols'
    BY <1>2, <1>3 DEF MosekHolds
  <2>3. DOMAIN rows' = 1..Len(rows')
    <3>1. rows' \in Seq(MosekRow')
      BY DEF MosekInv
    <3> QED BY <3>1, LenProperties
  <2>4. \A k \in DOMAIN heldRows' : heldRows'[k] \in DOMAIN rows'
    BY <1>2, <1>4, <2>3
  <2> QED BY <2>1, <2>2, <2>4 DEF MosekHolds, MosekKeyed
<1>6. MosekSeen'
  BY <1>5, MosekRead, PTL
<1>7. MosekVariables' = MosekVariables
  <2>1. /\ MosekVariables = [h \in held |-> MosekView(cols[h], heldRows)]
        /\ MosekVariables' = [h \in held |-> MosekView(cols'[h], heldRows)] /\ held \subseteq DOMAIN cols
    BY <1>1, <1>2, <1>6 DEF MosekSeen
  <2> QED BY <1>3, <2>1
<1>8. MosekConstraints' = MosekConstraints
  <2>1. DOMAIN heldRows' = DOMAIN heldRows
    BY <1>2
  <2>2. MosekConstraints' = [k \in DOMAIN heldRows |-> Mosek!ConstraintOf(rows'[heldRows[k]])]
    BY <1>2 DEF MosekConstraints, Mosek!ConstraintOf
  <2> QED BY <1>4, <2>2 DEF MosekConstraints
<1> QED BY <1>2, <1>5, <1>7, <1>8, MosekSteps

LEMMA MosekCalls == ASSUME MosekHolds, MosekInv', Mosek!Next PROVE MosekHolds' /\ Mosek!Promise!Next
<1>1. ASSUME NEW k \in Constants, Mosek!SetObjectiveOffset(k), UNCHANGED <<held, heldRows>>
      PROVE  MosekHolds' /\ Mosek!Promise!Next
  <2>1. MosekHolds'
    BY <1>1 DEF Mosek!SetObjectiveOffset, MosekHolds, MosekKeyed
  <2>2. MosekVariables' = MosekVariables /\ MosekConstraints' = MosekConstraints
        /\ SetsOffset /\ UNCHANGED maximize
    BY <1>1 DEF Mosek!SetObjectiveOffset, SetsOffset, MosekVariables, MosekConstraints, Mosek!VariableOf
  <2> QED BY <2>1, <2>2, MosekSteps
<1>2. ASSUME NEW k \in BOOLEAN, Mosek!SetDirection(k), UNCHANGED <<held, heldRows>>
      PROVE  MosekHolds' /\ Mosek!Promise!Next
  <2>1. MosekHolds'
    BY <1>2 DEF Mosek!SetDirection, MosekHolds, MosekKeyed
  <2>2. MosekVariables' = MosekVariables /\ MosekConstraints' = MosekConstraints
        /\ SetsDirection /\ UNCHANGED offset
    BY <1>2 DEF Mosek!SetDirection, SetsDirection, MosekVariables, MosekConstraints, Mosek!VariableOf
  <2> QED BY <2>1, <2>2, MosekSteps
<1>3. ASSUME NEW e \in Mosek!HeldExprs, Mosek!SetObjective(e) \/ Mosek!AddObjective(e)
      PROVE  MosekHolds' /\ Mosek!Promise!Next
  BY <1>3, MosekObjective DEF Mosek!HeldExprs
<1>4. ASSUME NEW p \in BoundKinds \cup {Mosek!BinaryParams}, NEW t \in Mosek!Types,
             Mosek!AddVariable(p, t) \/ Mosek!AddVariableRefused(p, t)
      PROVE  MosekHolds' /\ Mosek!Promise!Next
  BY <1>4, MosekVariableCalls
<1>5. ASSUME NEW n \in 1..MaxColumns, NEW p \in BoundKinds \cup {Mosek!BinaryParams}, NEW t \in Mosek!Types,
             Mosek!AddVariables(n, p, t) \/ Mosek!AddIntegerVariablesRefused(n, p)
      PROVE  MosekHolds' /\ Mosek!Promise!Next
  BY <1>5, MosekVariableCalls
<1>6. ASSUME NEW p \in BoundKinds, NEW e \in Mosek!Entries, Mosek!AddColumn(p, e) \/ Mosek!AddColumnRefused(p, e)
      PROVE  MosekHolds' /\ Mosek!Promise!Next
  <2>1. p \in BoundKinds \cup {Mosek!BinaryParams} /\ "continuous" \in Mosek!Types
    BY DEF Mosek!Types
  <2> QED BY <1>6, <2>1, MosekVariableCalls
<1>7. ASSUME NEW lcs \in Mosek!Batches, NEW d \in BOOLEAN,
             Mosek!AddConstraints(lcs, d) \/ Mosek!AddConstraintsRefused(lcs, d)
      PROVE  MosekHolds' /\ Mosek!Promise!Next
  BY <1>7, MosekRows, MosekRowsLeft
<1>8. "continuous" \in Mosek!Types
  BY DEF Mosek!Types
<1> QED BY <1>1, <1>2, <1>3, <1>4, <1>5, <1>6, <1>7, <1>8, MosekChanges DEF Mosek!Next

\* Whatever earlier calls left behind in a MOSEK model, each call does to the variables
\* and constraints that the client has handles of what it says, and one that throws
\* changes none of them: every step that the models make, MOSEK being the one in use, is
\* one of the promise.
THEOREM MosekKept == Spec => MosekKeepsPromise
<1> DEFINE I == solver = "mosek" => MosekHolds
<1>1. Init => I
  <2>1. Mosek!Init => MosekHolds
    <3>1. Mosek!Init => cols = <<>> /\ held = {} /\ heldRows = <<>>
      BY DEF Mosek!Init, Mosek!InstanceInit
    <3> QED BY <3>1, MosekInitIInv DEF MosekHolds
  <2> QED BY <2>1 DEF Init
<1>2. ASSUME I, [Next]_all PROVE I' /\ (solver = "mosek" => [Mosek!Promise!Next]_(Mosek!Promise!vars))
  <2> SUFFICES ASSUME solver' = "mosek" PROVE MosekHolds' /\ [Mosek!Promise!Next]_(Mosek!Promise!vars)
    BY <1>2 DEF Next, all
  <2>1. solver = "mosek" /\ MosekHolds
    BY <1>2 DEF Next, all
  <2>2. CASE Mosek!Next
    <3>1. MosekInv'
      BY <2>1, <2>2, MosekNextIInv DEF MosekHolds
    <3> QED BY <2>1, <2>2, <3>1, MosekCalls
  <2>3. CASE UNCHANGED all
    <3>1. MosekInv'
      <4>1. UNCHANGED Mosek!mosekVars
        BY <2>3 DEF all, vars, instance, lists, Mosek!mosekVars, Mosek!vars, Mosek!instance
      <4> QED BY <2>1, <4>1, MosekNextIInv DEF MosekHolds
    <3>2. MosekHolds'
      BY <2>1, <2>3, <3>1 DEF all, vars, instance, lists, MosekHolds, MosekKeyed
    <3>3. UNCHANGED Mosek!Promise!vars
      BY <2>3 DEF all, vars, instance, lists, Mosek!Promise!vars, Mosek!VariableOf, Mosek!ConstraintOf
    <3> QED BY <3>2, <3>3
  <2> QED BY <1>2, <2>1, <2>2, <2>3 DEF Next
<1> QED BY <1>1, <1>2, PTL DEF Spec, MosekKeepsPromise

----------------------------------------------------------------------------
(* SoPlex.  The terms of a row are added up in a dense vector, and the     *)
(* entries that are not zero are counted on the way: after every term the  *)
(* vector has the sums so far, and the count is not below the number of    *)
(* entries.                                                                *)

SoplexDense(size) == [dense : [1..size -> Int], nonzeros : Int]

\* How many entries of a vector are not zero.
Filled(dense, size) == Cardinality({i \in 1..size : dense[i] # 0})

SoplexAfter(t, size) ==
    LET after[k \in 0..Len(t)] ==
            IF k = 0 THEN Soplex!Unwritten(size) ELSE Soplex!Count(after[k - 1], t[k])
    IN  after

SoplexTermsOver(t, n, size) == Terms(t, n) /\ size \in Nat /\ \A k \in 1..n : t[k].var \in 1..size

\* What one term does to the vector.
LEMMA SoplexCountIs ==
    ASSUME NEW size, NEW acc \in SoplexDense(size), NEW term, term.var \in 1..size, term.coef \in Int
    PROVE  /\ Soplex!Count(acc, term) \in SoplexDense(size)
           /\ \A i \in 1..size : Soplex!Count(acc, term).dense[i] =
                 acc.dense[i] + IF i = term.var THEN term.coef ELSE 0
<1> DEFINE d == acc.dense
           v == term.var
           sum == d[v] + term.coef
           dense == [d EXCEPT ![v] = sum]
           nonzeros == acc.nonzeros + IF sum # 0 THEN 1 ELSE -1
<1>1. d \in [1..size -> Int] /\ acc.nonzeros \in Int /\ v \in 1..size
  BY DEF SoplexDense
<1>2. Soplex!Count(acc, term) = IF term.coef = 0 THEN acc ELSE [dense |-> dense, nonzeros |-> nonzeros]
  BY DEF Soplex!Count
<1> HIDE DEF d, v
<1>3. sum \in Int /\ nonzeros \in Int
  <2>1. d[v] \in Int
    BY <1>1
  <2> QED BY <1>1, <2>1
<1>4. dense \in [1..size -> Int]
  <2> HIDE DEF sum
  <2> QED BY <1>1, <1>3
<1>5. \A i \in 1..size : /\ d[i] \in Int
                         /\ dense[i] = IF i = v THEN sum ELSE d[i]
  <2> HIDE DEF sum
  <2> QED BY <1>1
<1>6. \A i \in 1..size : dense[i] = d[i] + IF i = v THEN term.coef ELSE 0
  <2> HIDE DEF dense
  <2> QED BY <1>5
<1>7. CASE term.coef = 0
  <2>1. \A i \in 1..size : d[i] = d[i] + IF i = v THEN term.coef ELSE 0
    BY <1>5, <1>7
  <2> QED BY <1>2, <1>7, <2>1 DEF d, v
<1>8. CASE term.coef # 0
  <2> HIDE DEF dense, nonzeros
  <2>1. Soplex!Count(acc, term) = [dense |-> dense, nonzeros |-> nonzeros]
    BY <1>2, <1>8
  <2>2. Soplex!Count(acc, term).dense = dense
    BY <2>1
  <2> QED BY <1>3, <1>4, <1>6, <2>1, <2>2 DEF SoplexDense, d, v
<1> QED BY <1>7, <1>8

LEMMA SoplexAfterIs ==
    ASSUME NEW t, NEW n, NEW size, SoplexTermsOver(t, n, size)
    PROVE  /\ \A k \in 0..n : SoplexAfter(t, size)[k] \in SoplexDense(size)
           /\ SoplexAfter(t, size)[0] = Soplex!Unwritten(size)
           /\ \A k \in 1..n : SoplexAfter(t, size)[k] = Soplex!Count(SoplexAfter(t, size)[k - 1], t[k])
<1> DEFINE F(f) == [k \in 0..n |-> IF k = 0 THEN Soplex!Unwritten(size) ELSE Soplex!Count(f[k - 1], t[k])]
           S == SoplexDense(size)
           G == [x \in S \X (1..n) |-> Soplex!Count(x[1], t[x[2]])]
<1>0. n \in Nat /\ Len(t) = n /\ \A k \in 1..n : t[k].coef \in Int /\ t[k].var \in 1..size
  BY DEF SoplexTermsOver, Terms
<1>1. Soplex!Unwritten(size) \in S
  BY DEF SoplexDense, Soplex!Unwritten
<1> HIDE DEF S
<1>2. ASSUME NEW x \in S, NEW k \in 1..n
      PROVE  Soplex!Count(x, t[k]) \in S /\ G[<<x, k>>] = Soplex!Count(x, t[k])
  BY <1>0, SoplexCountIs DEF S
<1>3. Steps(G, S, n)
  <2>1. \A x \in S \X (1..n) : Soplex!Count(x[1], t[x[2]]) \in S
    BY <1>2
  <2> QED BY <2>1 DEF Steps
<1> HIDE DEF G
<1>4. PICK g \in [0..n -> S] : g[0] = Soplex!Unwritten(size) /\ \A k \in 1..n : g[k] = G[<<g[k - 1], k>>]
  BY <1>0, <1>1, <1>3, Recursion
<1>5. \A k \in 1..n : g[k] = Soplex!Count(g[k - 1], t[k])
  <2>1. \A k \in 1..n : g[k - 1] \in S
    BY <1>0
  <2> QED BY <1>2, <1>4, <2>1
<1>6. g = F(g)
  BY <1>0, <1>4, <1>5
<1>7. ASSUME NEW f, f = F(f) PROVE f = g
  <2> DEFINE T == {k \in 0..n : f[k] = g[k]}
  <2>0. f = [k \in 0..n |-> f[k]] /\ f[0] = Soplex!Unwritten(size)
    BY <1>0, <1>7
  <2>1. \A k \in 1..n : f[k] = Soplex!Count(f[k - 1], t[k])
    BY <1>0, <1>7
  <2> HIDE DEF F
  <2>2. 0 \in T /\ \A k \in 1..n : k - 1 \in T => k \in T
    <3>1. 0 \in T
      BY <1>0, <1>4, <2>0
    <3>2. ASSUME NEW k \in 1..n, k - 1 \in T PROVE k \in T
      <4>1. f[k - 1] = g[k - 1]
        BY <3>2
      <4>2. f[k] = g[k]
        BY <1>5, <2>1, <4>1
      <4> QED BY <1>0, <4>2
    <3> HIDE DEF T
    <3> QED BY <3>1, <3>2
  <2>3. \A k \in 0..n : k \in T
    <3> HIDE DEF T
    <3> QED BY <1>0, <2>2, Upward
  <2> QED BY <1>4, <2>0, <2>3
<1>8. SoplexAfter(t, size) = CHOOSE f : f = F(f)
  BY <1>0 DEF SoplexAfter
<1> HIDE DEF F
<1>9. SoplexAfter(t, size) = g
  BY <1>6, <1>7, <1>8
<1> QED BY <1>4, <1>5, <1>9 DEF S

\* However the terms repeat and cancel, each entry is the sum of the coefficients of its
\* variable.
LEMMA SoplexSums ==
    ASSUME NEW t, NEW n, NEW size, SoplexTermsOver(t, n, size), NEW i \in 1..size
    PROVE  SoplexAfter(t, size)[n].dense[i] = CoefficientOf(t, i)
<1> DEFINE K == {k \in DOMAIN t : t[k].var = i}
           f == SoplexAfter(t, size)
           p == Partial(t, K)
           T == {k \in 0..n : f[k].dense[i] = p[k]}
<1>0. Terms(t, n) /\ n \in Nat /\ DOMAIN t = 1..n /\ \A k \in 1..n : t[k].coef \in Int /\ t[k].var \in 1..size
  BY DEF SoplexTermsOver, Terms
<1>1. /\ \A k \in 0..n : f[k] \in SoplexDense(size)
      /\ f[0] = Soplex!Unwritten(size)
      /\ \A k \in 1..n : f[k] = Soplex!Count(f[k - 1], t[k])
  BY SoplexAfterIs
<1>2. p[0] = 0 /\ \A k \in 1..n : p[k] = p[k - 1] + IF k \in K THEN t[k].coef ELSE 0
  <2> HIDE DEF K
  <2> QED BY <1>0, PartialIs
<1>3. \A k \in 1..n : k \in K <=> t[k].var = i
  BY <1>0
<1>4. SumAt(t, K) = p[n]
  BY <1>0, SumIs
<1> HIDE DEF f, p, K
<1>5. 0 \in T
  <2>1. f[0].dense[i] = 0
    BY <1>1 DEF Soplex!Unwritten
  <2> QED BY <1>0, <1>2, <2>1
<1>6. ASSUME NEW k \in 1..n, k - 1 \in T PROVE k \in T
  <2>1. k - 1 \in 0..n /\ k \in 0..n /\ f[k - 1].dense[i] = p[k - 1]
    BY <1>0, <1>6
  <2>2. f[k].dense[i] = f[k - 1].dense[i] + IF i = t[k].var THEN t[k].coef ELSE 0
    BY <1>0, <1>1, <2>1, SoplexCountIs
  <2>3. p[k] = p[k - 1] + IF i = t[k].var THEN t[k].coef ELSE 0
    BY <1>2, <1>3
  <2> QED BY <2>1, <2>2, <2>3
<1>7. \A k \in 0..n : k \in T
  <2> HIDE DEF T
  <2> QED BY <1>0, <1>5, <1>6, Upward
<1>8. f[n].dense[i] = p[n]
  BY <1>0, <1>7
<1> QED BY <1>4, <1>8 DEF f, K, CoefficientOf

\* One term more: the count does not fall behind.
LEMMA SoplexCountEnough ==
    ASSUME NEW size \in Nat, NEW acc \in SoplexDense(size), Filled(acc.dense, size) <= acc.nonzeros,
           NEW term, term.var \in 1..size, term.coef \in Int
    PROVE  Filled(Soplex!Count(acc, term).dense, size) <= Soplex!Count(acc, term).nonzeros
<1> DEFINE c == Soplex!Count(acc, term)
           sum == acc.dense[term.var] + term.coef
           N == {i \in 1..size : acc.dense[i] # 0}
           M == {i \in 1..size : c.dense[i] # 0}
<1>0. /\ acc.dense \in [1..size -> Int] /\ acc.nonzeros \in Int
      /\ \A i \in 1..size : acc.dense[i] \in Int
  BY DEF SoplexDense
<1>1. /\ acc.nonzeros \in Int /\ sum \in Int
      /\ \A i \in 1..size : c.dense[i] = acc.dense[i] + IF i = term.var THEN term.coef ELSE 0
  BY <1>0, SoplexCountIs
<1>2. IsFiniteSet(N) /\ Cardinality(N) \in Nat /\ Cardinality(N) <= acc.nonzeros
  <2>1. IsFiniteSet(1..size)
    BY FS_Interval
  <2> QED BY <2>1, FS_Subset, FS_CardinalityType DEF Filled
<1>3. CASE term.coef = 0
  BY <1>3 DEF Soplex!Count
<1>4. CASE term.coef # 0
  <2>1. c.nonzeros = acc.nonzeros + IF sum # 0 THEN 1 ELSE -1
    BY <1>4 DEF Soplex!Count
  <2> HIDE DEF c
  <2>2. CASE sum # 0
    <3>1. M \subseteq N \cup {term.var}
      <4>1. \A i \in 1..size : i # term.var => c.dense[i] = acc.dense[i]
        BY <1>0, <1>1
      <4> QED BY <4>1
    <3>2. IsFiniteSet(N \cup {term.var}) /\ Cardinality(N \cup {term.var}) <= Cardinality(N) + 1
          /\ Cardinality(N \cup {term.var}) \in Nat
      <4> HIDE DEF N
      <4>1. IsFiniteSet(N \cup {term.var})
        BY <1>2, FS_AddElement
      <4>2. Cardinality(N \cup {term.var}) = Cardinality(N) \/ Cardinality(N \cup {term.var}) = Cardinality(N) + 1
        BY <1>2, FS_AddElement
      <4> QED BY <1>2, <4>1, <4>2
    <3>3. Cardinality(M) <= Cardinality(N \cup {term.var}) /\ Cardinality(M) \in Nat
      <4> HIDE DEF M, N
      <4> QED BY <3>1, <3>2, FS_Subset, FS_CardinalityType
    <3>4. Filled(c.dense, size) = Cardinality(M)
      BY DEF Filled
    <3>5. c.nonzeros = acc.nonzeros + 1
      BY <2>1, <2>2
    <3> HIDE DEF N, M
    <3> QED BY <1>1, <1>2, <3>2, <3>3, <3>4, <3>5 DEF c
  <2>3. CASE sum = 0
    <3>1. acc.dense[term.var] # 0
      BY <1>1, <1>4, <2>3
    <3>2. M = N \ {term.var} /\ term.var \in N
      <4>1. c.dense[term.var] = 0
        BY <1>1, <2>3
      <4>2. \A i \in 1..size : i # term.var => c.dense[i] = acc.dense[i]
        BY <1>0, <1>1
      <4> QED BY <3>1, <4>1, <4>2
    <3>3. Cardinality(N \ {term.var}) = Cardinality(N) - 1
      <4> HIDE DEF M, N
      <4> QED BY <1>2, <3>2, FS_RemoveElement
    <3>4. Cardinality(M) = Cardinality(N) - 1
      BY <3>2, <3>3
    <3>5. Filled(c.dense, size) = Cardinality(M)
      BY DEF Filled
    <3>6. c.nonzeros = acc.nonzeros - 1
      BY <1>1, <2>1, <2>3
    <3> HIDE DEF N, M
    <3> QED BY <1>1, <1>2, <3>4, <3>5, <3>6 DEF c
  <2> QED BY <1>1, <2>2, <2>3
<1> QED BY <1>3, <1>4

LEMMA SoplexEnough ==
    ASSUME NEW t, NEW n, NEW size, SoplexTermsOver(t, n, size)
    PROVE  Filled(SoplexAfter(t, size)[n].dense, size) <= SoplexAfter(t, size)[n].nonzeros
<1> DEFINE f == SoplexAfter(t, size)
           T == {k \in 0..n : Filled(f[k].dense, size) <= f[k].nonzeros}
<1>0. n \in Nat /\ size \in Nat /\ \A k \in 1..n : t[k].coef \in Int /\ t[k].var \in 1..size
  BY DEF SoplexTermsOver, Terms
<1>1. /\ \A k \in 0..n : f[k] \in SoplexDense(size)
      /\ f[0] = Soplex!Unwritten(size)
      /\ \A k \in 1..n : f[k] = Soplex!Count(f[k - 1], t[k])
  BY SoplexAfterIs
<1> HIDE DEF f
<1>2. 0 \in T
  <2>1. {i \in 1..size : f[0].dense[i] # 0} = {} /\ f[0].nonzeros = 0
    BY <1>1 DEF Soplex!Unwritten
  <2> QED BY <1>0, <2>1, FS_EmptySet DEF Filled
<1>3. ASSUME NEW k \in 1..n, k - 1 \in T PROVE k \in T
  <2>1. k - 1 \in 0..n /\ k \in 0..n /\ Filled(f[k - 1].dense, size) <= f[k - 1].nonzeros
    BY <1>0, <1>3
  <2> QED BY <1>0, <1>1, <2>1, SoplexCountEnough
<1>4. \A k \in 0..n : k \in T
  <2> HIDE DEF T
  <2> QED BY <1>0, <1>2, <1>3, Upward
<1> QED BY <1>0, <1>4 DEF f

\* What the loop over the terms of a row makes.
LEMMA SoplexCounted ==
    ASSUME NEW t, NEW n, NEW size, SoplexTermsOver(t, n, size), NEW c, c = Soplex!Counted(t, size)
    PROVE  /\ c.dense \in [1..size -> Int]
           /\ Filled(c.dense, size) <= c.nonzeros
           /\ \A i \in 1..size : c.dense[i] = CoefficientOf(t, i)
<1>0. n \in Nat /\ Len(t) = n
  BY DEF SoplexTermsOver, Terms
<1>1. c = SoplexAfter(t, size)[n]
  BY <1>0 DEF Soplex!Counted, SoplexAfter
<1>2. c \in SoplexDense(size)
  BY <1>0, <1>1, SoplexAfterIs
<1> QED BY <1>1, <1>2, SoplexSums, SoplexEnough DEF SoplexDense

SoplexColumn == [obj : Int, lb : Bounds, ub : Bounds, coefs : [1..Len(rows) -> Int]]
SoplexRow == [lower : Int, upper : Int]
SoplexInv == cols \in Seq(SoplexColumn) /\ rows \in Seq(SoplexRow)

SoplexSized ==
    /\ Len(cols) \in Nat /\ DOMAIN cols = 1..Len(cols)
    /\ Len(rows) \in Nat /\ DOMAIN rows = 1..Len(rows)
    /\ \A i \in DOMAIN cols : cols[i] \in SoplexColumn

LEMMA SoplexSizes == SoplexInv => SoplexSized
BY LenProperties, ElementOfSeq DEF SoplexInv, SoplexSized

LEMMA SoplexRoom ==
    /\ Soplex!RoomForNonzeros <=> Cardinality({i \in DOMAIN passed.dense : passed.dense[i] # 0}) <= passed.nonzeros
    /\ passed = Soplex!Nothing => Soplex!RoomForNonzeros
<1>1. \A S : Soplex!Cardinality(S) = Cardinality(S)
  BY DEF Cardinality, Soplex!Cardinality, IsFiniteSet, Soplex!IsFiniteSet
<1>2. ASSUME passed = Soplex!Nothing
      PROVE  Cardinality({i \in DOMAIN passed.dense : passed.dense[i] # 0}) = 0 /\ passed.nonzeros = 0
  <2>1. {i \in DOMAIN passed.dense : passed.dense[i] # 0} = {}
    BY <1>2 DEF Soplex!Nothing
  <2> QED BY <1>2, <2>1, FS_EmptySet DEF Soplex!Nothing
<1> QED BY <1>1, <1>2 DEF Soplex!RoomForNonzeros

\* What a client writes are terms over the columns.
LEMMA SoplexWrites ==
    ASSUME NEW size \in Nat, NEW k \in Nat, NEW t \in Soplex!Expressions(1..size, SignedTermCoefs, k)
    PROVE  \E n : SoplexTermsOver(t, n, size)
<1>1. PICK n \in 0..k : t \in [1..n -> [var : 1..size, coef : SignedTermCoefs]]
  BY DEF Soplex!Expressions
<1>2. SignedTermCoefs \subseteq Int
  BY SolverDataAssumption
<1>3. n \in Nat /\ DOMAIN t = 1..n /\ \A j \in 1..n : t[j].var \in 1..size /\ t[j].coef \in Int
  <2>1. \A j \in 1..n : t[j] \in [var : 1..size, coef : SignedTermCoefs]
    BY <1>1
  <2>2. n \in Nat /\ DOMAIN t = 1..n
    BY <1>1
  <2> QED BY <1>2, <2>1, <2>2
<1>4. Len(t) = n
  BY <1>1, <1>3, SeqDef
<1>5. SoplexTermsOver(t, n, size)
  BY <1>3, <1>4 DEF SoplexTermsOver, Terms
<1> QED BY <1>5

\* The rows of one call, each passed in a vector of its own.
LEMMA SoplexPassed ==
    ASSUME SoplexInv, NEW lcs \in Soplex!BatchesOver(DOMAIN cols)
    PROVE  \E m \in Nat :
              /\ Len(lcs) = m /\ DOMAIN lcs = 1..m
              /\ \A r \in 1..m : /\ lcs[r] \in Soplex!ConstraintsOver(DOMAIN cols)
                                 /\ \E n : SoplexTermsOver(lcs[r].terms.terms, n, Len(cols))
<1>1. PICK m \in 0..MaxRows : lcs \in [1..m -> Soplex!ConstraintsOver(DOMAIN cols)]
  <2>1. \A m : {lc \in Soplex!ConstraintsOver(DOMAIN cols) : Len(lc.terms.terms) * m <= SoplexTerms}
               \subseteq Soplex!ConstraintsOver(DOMAIN cols)
    OBVIOUS
  <2>2. PICK m \in 0..MaxRows :
           lcs \in [1..m -> {lc \in Soplex!ConstraintsOver(DOMAIN cols) : Len(lc.terms.terms) * m <= SoplexTerms}]
    BY DEF Soplex!BatchesOver
  <2> QED BY <2>1, <2>2
<1>2. m \in Nat /\ DOMAIN lcs = 1..m /\ Len(lcs) = m
  BY <1>1, SeqDef, InstanceBoundsAssumption
<1>3. Len(cols) \in Nat /\ DOMAIN cols = 1..Len(cols)
  BY SoplexSizes DEF SoplexSized
<1>4. ASSUME NEW r \in 1..m PROVE \E n : SoplexTermsOver(lcs[r].terms.terms, n, Len(cols))
  <2>1. lcs[r].terms.terms \in Soplex!Expressions(1..Len(cols), SignedTermCoefs, SoplexTerms)
    BY <1>1, <1>3 DEF Soplex!ConstraintsOver, Soplex!ExpressionsOver
  <2> QED BY <1>3, <2>1, SoplexWrites, SolverDataAssumption
<1> QED BY <1>1, <1>2, <1>4

LEMMA SoplexNumbers ==
    /\ \A p \in SoplexParams : p.obj \in Int /\ p.lb \in Bounds /\ p.ub \in Bounds
    /\ SignedCoefs \subseteq Int
    /\ \A s, b : b \in Rhs => Soplex!RowOf([sense |-> s, rhs |-> b]) \in SoplexRow
<1>1. Infinity \in Int /\ -Infinity \in Int /\ Rhs \subseteq Int
  BY InstanceDataAssumption
<1> QED BY <1>1, SolverDataAssumption DEF Soplex!RowOf, SoplexRow

LEMMA SoplexAppends ==
    ASSUME SoplexInv, NEW n \in Nat \ {0}, NEW c \in SoplexColumn, NEW new, Copies(new, n, c),
           Soplex!AppendCols(new), rows' = rows
    PROVE  SoplexInv'
<1>1. cols' \in Seq(SoplexColumn)
  BY ColumnsAppended DEF SoplexInv, Soplex!AppendCols
<1> QED BY <1>1 DEF SoplexInv, SoplexColumn, SoplexRow

\* The rows of one call.
LEMMA SoplexAddsRows ==
    ASSUME SoplexInv, NEW lcs \in Soplex!BatchesOver(DOMAIN cols), Soplex!AddConstraints(lcs)
    PROVE  SoplexInv' /\ Soplex!RoomForNonzeros'
<1> DEFINE c == [r \in DOMAIN lcs |-> Soplex!Counted(lcs[r].terms.terms, Len(cols))]
           size == Len(cols)
           new == [r \in DOMAIN lcs |-> Soplex!RowOf(lcs[r])]
           more == [i \in DOMAIN cols |-> [r \in DOMAIN lcs |-> c[r].dense[i]]]
<1>1. PICK m \in Nat :
         /\ Len(lcs) = m /\ DOMAIN lcs = 1..m
         /\ \A r \in 1..m : /\ lcs[r] \in Soplex!ConstraintsOver(DOMAIN cols)
                            /\ \E n : SoplexTermsOver(lcs[r].terms.terms, n, size)
  BY SoplexPassed
<1>2. SoplexSized
  BY SoplexSizes
<1>3. ASSUME NEW r \in 1..m
      PROVE  c[r].dense \in [1..size -> Int] /\ Filled(c[r].dense, size) <= c[r].nonzeros
  <2>1. PICK n : SoplexTermsOver(lcs[r].terms.terms, n, size)
    BY <1>1
  <2> QED BY <1>1, <2>1, SoplexCounted
<1>4. /\ Soplex!AppendRows(new, more)
      /\ passed' = IF lcs = <<>> THEN Soplex!Nothing
                   ELSE [dense |-> c[Len(c)].dense, size |-> size, nonzeros |-> c[Len(c)].nonzeros]
  BY DEF Soplex!AddConstraints
<1>5. Len(c) = m /\ DOMAIN c = 1..m /\ \A i \in DOMAIN cols : more[i] = [r \in 1..m |-> c[r].dense[i]]
  <2>1. c = [r \in 1..m |-> c[r]]
    BY <1>1
  <2> HIDE DEF c
  <2>2. Len(c) = m /\ DOMAIN c = 1..m
    BY <2>1, ConcatIs
  <2> QED BY <1>1, <2>2
<1> HIDE DEF c
<1>6. Soplex!RoomForNonzeros'
  <2>1. CASE lcs = <<>>
    <3>1. passed' = Soplex!Nothing
      BY <1>4, <2>1
    <3>2. (passed = Soplex!Nothing)' => Soplex!RoomForNonzeros'
      BY SoplexRoom, PTL
    <3> QED BY <3>1, <3>2 DEF Soplex!Nothing
  <2>2. CASE lcs # <<>>
    <3>1. m \in 1..m
      <4>1. m # 0
        BY <1>1, <2>2
      <4> QED BY <4>1
    <3>2. passed'.dense = c[m].dense /\ passed'.nonzeros = c[m].nonzeros
      BY <1>4, <1>5, <2>2
    <3>3. DOMAIN c[m].dense = 1..size
      BY <1>3, <3>1
    <3>4. Soplex!RoomForNonzeros'
             <=> (Cardinality({i \in DOMAIN passed.dense : passed.dense[i] # 0}) <= passed.nonzeros)'
      BY SoplexRoom, PTL
    <3> QED BY <1>3, <3>1, <3>2, <3>3, <3>4 DEF Filled
  <2> QED BY <2>1, <2>2
<1>7. /\ rows' \in Seq(SoplexRow) /\ Len(rows') = Len(rows) + m
  <2>1. Listed(new, m) /\ \A r \in 1..m : new[r] \in SoplexRow
    <3>1. ASSUME NEW r \in 1..m PROVE new[r] \in SoplexRow
      <4>1. lcs[r].rhs \in Rhs /\ new[r] = Soplex!RowOf(lcs[r])
        BY <1>1 DEF Soplex!ConstraintsOver
      <4>2. lcs[r].rhs \in Int /\ Infinity \in Int /\ -Infinity \in Int
        BY <4>1, InstanceDataAssumption
      <4> QED BY <4>1, <4>2 DEF Soplex!RowOf, SoplexRow
    <3> QED BY <1>1, <3>1 DEF Listed
  <2>2. rows \in Seq(SoplexRow) /\ rows' = rows \o new
    BY <1>4 DEF Soplex!AppendRows, SoplexInv
  <2> HIDE DEF new
  <2> QED BY <2>1, <2>2, RowsAppended
<1>8. cols' \in Seq([obj : Int, lb : Bounds, ub : Bounds, coefs : [1..(Len(rows) + m) -> Int]])
  <2> DEFINE T == [obj : Int, lb : Bounds, ub : Bounds, coefs : [1..(Len(rows) + m) -> Int]]
             f == [i \in DOMAIN cols |-> [cols[i] EXCEPT !.coefs = cols[i].coefs \o more[i]]]
  <2>1. cols' = [i \in DOMAIN cols |-> f[i]] /\ cols \in Seq(SoplexColumn)
    BY <1>4 DEF Soplex!AppendRows, SoplexInv
  <2>2. ASSUME NEW i \in DOMAIN cols PROVE f[i] \in T
    <3>1. cols[i].coefs \in [1..Len(rows) -> Int] /\ Len(rows) \in Nat /\ i \in 1..size
      BY <1>2 DEF SoplexSized, SoplexColumn
    <3>2. more[i] \in [1..m -> Int]
      BY <1>3, <1>5, <3>1
    <3>3. cols[i].coefs \o more[i] \in [1..(Len(rows) + m) -> Int]
      <4> HIDE DEF more
      <4>1. /\ cols[i].coefs = [r \in 1..Len(rows) |-> cols[i].coefs[r]]
            /\ more[i] = [r \in 1..m |-> more[i][r]]
        BY <3>1, <3>2
      <4>2. cols[i].coefs \o more[i] =
               [r \in 1..(Len(rows) + m) |-> IF r <= Len(rows) THEN cols[i].coefs[r] ELSE more[i][r - Len(rows)]]
        BY <3>1, <4>1, ConcatIs
      <4>3. \A r \in 1..(Len(rows) + m) :
               (IF r <= Len(rows) THEN cols[i].coefs[r] ELSE more[i][r - Len(rows)]) \in Int
        BY <3>1, <3>2
      <4> QED BY <4>2, <4>3
    <3>4. cols[i] \in SoplexColumn
      BY <1>2 DEF SoplexSized
    <3> HIDE DEF more
    <3> QED BY <3>3, <3>4 DEF SoplexColumn
  <2> HIDE DEF T, f
  <2>3. cols' \in Seq(T)
    BY <2>1, <2>2, ColumnsMapped
  <2> QED BY <2>3 DEF T
<1>9. SoplexInv'
  BY <1>7, <1>8 DEF SoplexInv, SoplexColumn, SoplexRow
<1> QED BY <1>6, <1>9

LEMMA SoplexPuts ==
    ASSUME SoplexInv, NEW coef, Soplex!PutObjective(coef), rows' = rows PROVE SoplexInv'
<1> DEFINE f == [i \in DOMAIN cols |-> [cols[i] EXCEPT !.obj = coef[i]]]
<1>1. cols \in Seq(SoplexColumn) /\ cols' = [i \in DOMAIN cols |-> f[i]]
  BY DEF SoplexInv, Soplex!PutObjective
<1>2. ASSUME NEW i \in DOMAIN cols PROVE f[i] \in SoplexColumn
  <2>1. cols[i] \in SoplexColumn
    BY SoplexSizes DEF SoplexSized
  <2>2. coef[i] \in Int
    BY SoplexNumbers DEF Soplex!PutObjective
  <2> QED BY <2>1, <2>2 DEF SoplexColumn
<1> HIDE DEF f
<1>3. cols' \in Seq(SoplexColumn)
  BY <1>1, <1>2, ColumnsMapped
<1> QED BY <1>3 DEF SoplexInv, SoplexColumn, SoplexRow

\* A column that is passed as its entries, in whatever order.
LEMMA SoplexColumnTyped ==
    ASSUME SoplexInv, NEW p \in SoplexParams, NEW t \in Soplex!EntriesOver(Len(rows)), NEW c,
           c = Soplex!Counted(t, Len(rows))
    PROVE  Soplex!NewCol(p, [r \in 1..Len(rows) |-> IF r <= c.nonzeros THEN c.dense[r] ELSE 0]) \in SoplexColumn
<1>1. Len(rows) \in Nat
  BY SoplexSizes DEF SoplexSized
<1>2. t \in Soplex!Expressions(1..Len(rows), SignedTermCoefs, Len(rows))
  BY DEF Soplex!EntriesOver
<1>3. PICK n : SoplexTermsOver(t, n, Len(rows))
  BY <1>1, <1>2, SoplexWrites
<1>4. c.dense \in [1..Len(rows) -> Int]
  BY <1>3, SoplexCounted
<1>5. [r \in 1..Len(rows) |-> IF r <= c.nonzeros THEN c.dense[r] ELSE 0] \in [1..Len(rows) -> Int]
  BY <1>4
<1> QED BY <1>5, SoplexNumbers DEF SoplexColumn, Soplex!NewCol

LEMMA SoplexNext ==
    ASSUME SoplexInv, Soplex!RoomForNonzeros, Soplex!Next
    PROVE  SoplexInv' /\ Soplex!RoomForNonzeros'
<1>0. /\ passed' = passed => Soplex!RoomForNonzeros'
      /\ passed' = Soplex!Nothing => Soplex!RoomForNonzeros'
  <2>1. (passed = Soplex!Nothing)' => Soplex!RoomForNonzeros'
    BY SoplexRoom, PTL
  <2> QED BY <2>1 DEF Soplex!Nothing, Soplex!RoomForNonzeros
<1>1. ASSUME UNCHANGED <<cols, rows>> PROVE SoplexInv'
  BY <1>1 DEF SoplexInv, SoplexColumn, SoplexRow
<1>2. Soplex!Zeros = [r \in 1..Len(rows) |-> 0]
  BY DEF Soplex!Zeros
<1>3. ASSUME NEW p \in SoplexParams PROVE Soplex!NewCol(p, Soplex!Zeros) \in SoplexColumn
  BY <1>2, SoplexNumbers DEF SoplexColumn, Soplex!NewCol
<1>4. CASE \E k \in Constants : Soplex!SetObjectiveOffset(k) /\ UNCHANGED passed
  BY <1>0, <1>1, <1>4 DEF Soplex!SetObjectiveOffset
<1>5. CASE \E m \in BOOLEAN : Soplex!SetDirection(m) /\ UNCHANGED passed
  BY <1>0, <1>1, <1>5 DEF Soplex!SetDirection
<1>6. CASE \E e \in Soplex!Exprs : Soplex!SetObjective(e)
  BY <1>0, <1>6, SoplexPuts DEF Soplex!SetObjective
<1>7. ASSUME NEW p \in SoplexParams, Soplex!AddVariable(p) PROVE SoplexInv' /\ Soplex!RoomForNonzeros'
  <2>1. Copies(<<Soplex!NewCol(p, Soplex!Zeros)>>, 1, Soplex!NewCol(p, Soplex!Zeros))
    BY DEF Copies
  <2>2. Soplex!AppendCols(<<Soplex!NewCol(p, Soplex!Zeros)>>) /\ rows' = rows /\ passed' = Soplex!Nothing
    BY <1>7 DEF Soplex!AddVariable
  <2> QED BY <1>0, <1>3, <2>1, <2>2, SoplexAppends
<1>8. ASSUME NEW n \in 1..MaxColumns, NEW p \in SoplexParams, Soplex!AddVariables(n, p)
      PROVE  SoplexInv' /\ Soplex!RoomForNonzeros'
  <2> DEFINE new == [k \in 1..n |-> Soplex!NewCol(p, Soplex!Zeros)]
  <2>1. Copies(new, n, Soplex!NewCol(p, Soplex!Zeros)) /\ n \in Nat \ {0}
    BY InstanceBoundsAssumption DEF Copies
  <2>2. Soplex!AppendCols(new) /\ rows' = rows /\ passed' = Soplex!Nothing
    BY <1>8 DEF Soplex!AddVariables
  <2> HIDE DEF new
  <2> QED BY <1>0, <1>3, <2>1, <2>2, SoplexAppends
<1>9. ASSUME NEW p \in SoplexParams, NEW t \in Soplex!EntriesOver(Len(rows)), Soplex!AddColumn(p, t)
      PROVE  SoplexInv' /\ Soplex!RoomForNonzeros'
  <2> DEFINE c == Soplex!Counted(t, Len(rows))
             col == Soplex!NewCol(p, [r \in 1..Len(rows) |-> IF r <= c.nonzeros THEN c.dense[r] ELSE 0])
  <2>1. col \in SoplexColumn
    BY SoplexColumnTyped
  <2>2. Soplex!AppendCols(<<col>>) /\ rows' = rows /\ passed' = Soplex!Nothing
    BY <1>9 DEF Soplex!AddColumn
  <2> HIDE DEF col
  <2>3. Copies(<<col>>, 1, col)
    BY DEF Copies
  <2> QED BY <1>0, <2>1, <2>2, <2>3, SoplexAppends
<1> QED BY <1>4, <1>5, <1>6, <1>7, <1>8, <1>9, SoplexAddsRows DEF Soplex!Next

\* The room that SoPlex is told to make is enough for the entries of a row, for any
\* number of terms, however they repeat and cancel one another.
THEOREM SoplexRoomEnough == Spec => []SoplexRoomForNonzeros
<1> DEFINE I == solver = "soplex" => SoplexInv /\ Soplex!RoomForNonzeros
<1>1. Init => I
  <2>1. cols = <<>> /\ rows = <<>> => SoplexInv
    BY DEF SoplexInv
  <2> QED BY <2>1, SoplexRoom DEF Init, Soplex!Init, Soplex!InstanceInit
<1>2. ASSUME I, [Next]_all PROVE I'
  <2> SUFFICES ASSUME solver' = "soplex" PROVE SoplexInv' /\ Soplex!RoomForNonzeros'
    OBVIOUS
  <2>1. solver = "soplex" /\ SoplexInv /\ Soplex!RoomForNonzeros
    BY <1>2 DEF Next, all
  <2>2. CASE Soplex!Next
    BY <2>1, <2>2, SoplexNext
  <2>3. CASE UNCHANGED all
    BY <2>1, <2>3 DEF all, vars, instance, SoplexInv, SoplexColumn, SoplexRow, Soplex!RoomForNonzeros
  <2> QED BY <1>2, <2>1, <2>2, <2>3 DEF Next
<1>3. I => SoplexRoomForNonzeros
  BY DEF SoplexRoomForNonzeros
<1> QED BY <1>1, <1>2, <1>3, PTL DEF Spec

\* What the client sees of a column and of a row.
SoplexView(c) == Var(c.obj, c.lb, c.ub, "continuous", c.coefs)
SoplexVariables == [h \in DOMAIN cols |-> Soplex!VariableOf(h)]
SoplexConstraints == [r \in DOMAIN rows |-> Soplex!ConstraintOf(rows[r])]

SoplexSeen ==
    /\ SoplexSized /\ DOMAIN SoplexVariables = DOMAIN cols /\ Len(SoplexConstraints) = Len(rows)
    /\ Soplex!Promise!Held = DOMAIN cols /\ Soplex!Promise!Linear!Held = DOMAIN cols
    /\ Soplex!Promise!Linear!Zeros = Soplex!Zeros

LEMMA SoplexRead == SoplexInv => SoplexSeen
<1> SUFFICES ASSUME SoplexInv PROVE SoplexSeen
  OBVIOUS
<1>1. SoplexSized
  BY SoplexSizes
<1>2. SoplexConstraints = [r \in 1..Len(rows) |-> SoplexConstraints[r]]
  BY <1>1 DEF SoplexConstraints, SoplexSized
<1>3. Len(SoplexConstraints) = Len(rows)
  BY <1>1, <1>2, ConcatIs DEF SoplexSized
<1>4. Soplex!Promise!Linear!Zeros = Soplex!Zeros
  BY <1>3 DEF SoplexConstraints, Soplex!Promise!Linear!Zeros, Soplex!Zeros
<1> QED BY <1>1, <1>3, <1>4 DEF SoplexSeen, SoplexVariables, Soplex!Promise!Held, Soplex!Promise!Linear!Held

SoplexParameters == {Soplex!AsAdded(p) : p \in SoplexParams}

LEMMA SoplexMakesAs ==
    ASSUME NEW first \in 1..MaxColumns, NEW last \in 1..MaxColumns, first <= last,
           NEW q \in SoplexParameters, UNCHANGED <<offset, maximize>>,
           Soplex!Promise!Linear!Add(first..last, Soplex!Promise!Linear!NewVariable(q, Soplex!Promise!Linear!Zeros)),
           \/ first = last /\ call' = <<"add_variable", first, q>>
           \/ call' = <<"add_variables", first, last - first + 1, q>>
    PROVE  Soplex!Promise!LinearCall
<1>0. first \in Int /\ last \in Int
  BY InstanceBoundsAssumption
<1>1. CASE first = last /\ call' = <<"add_variable", first, q>>
  <2>1. first..last = {first}
    BY <1>0, <1>1
  <2>2. Soplex!Promise!Linear!AddVariable(first, q)
    BY <1>1, <2>1 DEF Soplex!Promise!Linear!AddVariable
  <2> QED BY <2>2 DEF Soplex!Promise!LinearCall, SoplexParameters
<1>2. CASE call' = <<"add_variables", first, last - first + 1, q>>
  <2>1. first + (last - first + 1) - 1 = last
    BY <1>0
  <2>2. Soplex!Promise!Linear!AddVariables(first, last - first + 1, q)
    BY <1>2, <2>1 DEF Soplex!Promise!Linear!AddVariables
  <2> QED BY <2>2 DEF Soplex!Promise!LinearCall, SoplexParameters
<1> QED BY <1>1, <1>2

\* New variables, which are all alike.
LEMMA SoplexMakes ==
    ASSUME SoplexInv, NEW n \in Nat \ {0}, NEW p \in SoplexParams, NEW new,
           Copies(new, n, Soplex!NewCol(p, Soplex!Zeros)),
           Soplex!AppendCols(new), UNCHANGED <<rows, offset, maximize>>,
           \/ n = 1 /\ call' = <<"add_variable", Len(cols) + 1, Soplex!AsAdded(p)>>
           \/ call' = <<"add_variables", Len(cols) + 1, n, Soplex!AsAdded(p)>>
    PROVE  Soplex!Promise!LinearCall
<1> DEFINE H == (Len(cols) + 1)..(Len(cols) + n)
           c == Soplex!NewCol(p, Soplex!Zeros)
           q == Soplex!AsAdded(p)
<1>0. SoplexSeen
  BY SoplexRead
<1>f. PICK first, last : first = Len(cols) + 1 /\ last = Len(cols) + n
  OBVIOUS
<1>1. c \in SoplexColumn /\ SoplexView(c) = Soplex!Promise!Linear!NewVariable(q, Soplex!Zeros)
  BY SoplexNumbers DEF SoplexColumn, Soplex!NewCol, Soplex!Zeros, SoplexView, Var, Soplex!AsAdded,
     Soplex!Typed, Soplex!TypeOf, Soplex!Promise!Linear!NewVariable
<1>a. Copies(new, n, c) /\ cols \in Seq(SoplexColumn) /\ cols' = cols \o new
  BY DEF SoplexInv, Soplex!AppendCols
<1>b. H = (Len(cols) + 1)..(Len(cols) + n)
  OBVIOUS
<1> HIDE DEF c, H
<1>2. /\ cols' \in Seq(SoplexColumn) /\ Len(new) = n /\ Len(cols) \in Nat
      /\ DOMAIN cols' = DOMAIN cols \cup H /\ H \cap DOMAIN cols = {}
      /\ \A i \in DOMAIN cols \cup H : cols'[i] = IF i \in H THEN c ELSE cols[i]
  BY <1>1, <1>a, <1>b, ColumnsAppended
<1>3. /\ first \in 1..MaxColumns /\ last \in 1..MaxColumns /\ first <= last /\ last - first + 1 = n
      /\ n = 1 => H = {first}
  BY <1>2, <1>b, <1>f, InstanceBoundsAssumption DEF Soplex!AppendCols
<1>4. Soplex!Promise!Linear!Add(H, Soplex!Promise!Linear!NewVariable(q, Soplex!Promise!Linear!Zeros))
  <2>1. \A i \in DOMAIN cols : i \notin H
    BY <1>2
  <2>2. SoplexVariables' = [h \in DOMAIN cols \cup H |-> IF h \in H THEN SoplexView(c) ELSE SoplexVariables[h]]
    <3>1. SoplexVariables' = [h \in DOMAIN cols \cup H |-> SoplexView(cols'[h])]
      BY <1>2 DEF SoplexVariables, SoplexView, Soplex!VariableOf, Var
    <3>2. \A h \in DOMAIN cols \cup H :
             SoplexView(cols'[h]) = IF h \in H THEN SoplexView(c) ELSE SoplexVariables[h]
      BY <1>2 DEF SoplexVariables, SoplexView, Soplex!VariableOf, Var
    <3> HIDE DEF H
    <3> QED BY <3>1, <3>2
  <2>3. SoplexConstraints' = SoplexConstraints
    BY DEF SoplexConstraints
  <2> HIDE DEF H, q
  <2> QED BY <1>0, <1>1, <1>2, <2>2, <2>3
          DEF SoplexSeen, Soplex!Promise!Linear!Add, SoplexVariables, SoplexConstraints, SoplexView, Var
<1>5. q \in SoplexParameters
  BY DEF SoplexParameters
<1>6. H = first..last
  BY <1>b, <1>f
<1> HIDE DEF H, q
<1>7. \/ first = last /\ call' = <<"add_variable", first, q>>
      \/ call' = <<"add_variables", first, last - first + 1, q>>
  BY <1>2, <1>3, <1>f DEF q
<1> QED BY <1>3, <1>4, <1>5, <1>6, <1>7, SoplexMakesAs

LEMMA SoplexSame ==
    /\ \A t, v : Soplex!CoefficientOf(t, v) = CoefficientOf(t, v)
    /\ \A e, v : Soplex!Coefficient(e, v) = CoefficientOf(e.terms, v)
<1>1. ASSUME NEW t, NEW K PROVE Soplex!SumAt(t, K) = SumAt(t, K)
  BY DEF SumAt, MapThenSumSet, MapThenFoldSet, Soplex!SumAt, Soplex!MapThenSumSet, Soplex!MapThenFoldSet
<1>2. ASSUME NEW t, NEW v PROVE Soplex!CoefficientOf(t, v) = CoefficientOf(t, v)
  BY <1>1 DEF CoefficientOf, Soplex!CoefficientOf
<1> QED BY <1>2 DEF Soplex!Coefficient

LEMMA SoplexSetsObjective ==
    ASSUME SoplexInv, NEW e \in Soplex!Exprs, Soplex!SetObjective(e)
    PROVE  Soplex!Promise!Next
<1>0. SoplexSeen
  BY SoplexRead
<1>1. /\ cols' = [i \in DOMAIN cols |-> [cols[i] EXCEPT !.obj = CoefficientOf(e.terms, i)]]
      /\ call' = <<"set_objective", e>> /\ offset' = e.constant /\ UNCHANGED <<rows, maximize>>
  <2>1. cols' = [i \in DOMAIN cols |->
                    [cols[i] EXCEPT !.obj = [j \in DOMAIN cols |-> Soplex!CoefficientOf(e.terms, j)][i]]]
    BY DEF Soplex!SetObjective, Soplex!PutObjective
  <2> QED BY <2>1, SoplexSame DEF Soplex!SetObjective
<1>2. SoplexVariables' = [h \in DOMAIN cols |-> [SoplexVariables[h] EXCEPT !.obj = Soplex!Coefficient(e, h)]]
  <2>1. ASSUME NEW h \in DOMAIN cols, NEW x
        PROVE  SoplexView([cols[h] EXCEPT !.obj = x]) = [SoplexVariables[h] EXCEPT !.obj = x]
    <3>1. cols[h] \in SoplexColumn
      BY <1>0 DEF SoplexSeen, SoplexSized
    <3> QED BY <3>1 DEF SoplexColumn, SoplexView, SoplexVariables, Soplex!VariableOf, Var
  <2>2. SoplexVariables' = [h \in DOMAIN cols |-> SoplexView([cols[h] EXCEPT !.obj = CoefficientOf(e.terms, h)])]
    BY <1>1 DEF SoplexVariables, SoplexView, Soplex!VariableOf, Var
  <2> QED BY <2>1, <2>2, SoplexSame
<1>3. SoplexConstraints' = SoplexConstraints
  BY <1>1 DEF SoplexConstraints
<1>4. Soplex!Promise!Linear!SetObjective(e)
  BY <1>0, <1>1, <1>2, <1>3 DEF SoplexSeen, Soplex!Promise!Linear!SetObjective, SoplexVariables, SoplexConstraints,
     SoplexView, Var
<1>5. Soplex!Promise!SetObjective(e)
  BY <1>1, <1>4 DEF Soplex!Promise!SetObjective, Soplex!ConstantOf
<1>6. call'[1] = "set_objective" /\ call'[2] = e /\ e \in Soplex!ExpressionsOver(Soplex!Promise!Held)
  BY <1>0, <1>1 DEF SoplexSeen, Soplex!Exprs
<1>7. Soplex!Promise!SetObjective(call'[2]) /\ call'[2] \in Soplex!ExpressionsOver(Soplex!Promise!Held)
  BY <1>1, <1>4, <1>6 DEF Soplex!Promise!SetObjective, Soplex!Promise!Linear!SetObjective, Soplex!ConstantOf
<1> QED BY <1>6, <1>7 DEF Soplex!Promise!Next

\* What SoPlex is given of a row reads as the constraint, and the dense vector as the
\* sums of its terms.
LEMMA SoplexAddsConstraints ==
    ASSUME SoplexInv, NEW lcs \in Soplex!BatchesOver(DOMAIN cols), Soplex!AddConstraints(lcs)
    PROVE  Soplex!Promise!LinearCall
<1> DEFINE c == [r \in DOMAIN lcs |-> Soplex!Counted(lcs[r].terms.terms, Len(cols))]
           new == [r \in DOMAIN lcs |-> Soplex!RowOf(lcs[r])]
           sums(h) == [r \in DOMAIN lcs |-> Soplex!Coefficient(lcs[r].terms, h)]
           n == Len(rows)
<1>0. SoplexSeen /\ SoplexSized
  BY SoplexRead DEF SoplexSeen
<1>1. PICK m \in Nat :
         /\ Len(lcs) = m /\ DOMAIN lcs = 1..m
         /\ \A r \in 1..m : /\ lcs[r] \in Soplex!ConstraintsOver(DOMAIN cols)
                            /\ \E k : SoplexTermsOver(lcs[r].terms.terms, k, Len(cols))
  BY SoplexPassed
<1>2. ASSUME NEW i \in DOMAIN cols PROVE [r \in DOMAIN lcs |-> c[r].dense[i]] = sums(i)
  <2>1. ASSUME NEW r \in DOMAIN lcs PROVE c[r].dense[i] = CoefficientOf(lcs[r].terms.terms, i)
    <3>1. PICK k : SoplexTermsOver(lcs[r].terms.terms, k, Len(cols))
      BY <1>1
    <3>2. i \in 1..Len(cols)
      BY <1>0 DEF SoplexSized
    <3> QED BY <3>1, <3>2, SoplexCounted
  <2>2. \A r \in DOMAIN lcs : Soplex!Coefficient(lcs[r].terms, i) = CoefficientOf(lcs[r].terms.terms, i)
    BY SoplexSame
  <2> HIDE DEF c
  <2> QED BY <2>1, <2>2
<1>3. /\ cols' = [i \in DOMAIN cols |-> [cols[i] EXCEPT !.coefs = cols[i].coefs \o [r \in DOMAIN lcs |-> c[r].dense[i]]]]
      /\ rows' = rows \o new /\ call' = <<"add_constraints", lcs>> /\ UNCHANGED <<offset, maximize>>
  BY DEF Soplex!AddConstraints, Soplex!AppendRows
<1> HIDE DEF c
<1>4. cols' = [i \in DOMAIN cols |-> [cols[i] EXCEPT !.coefs = cols[i].coefs \o sums(i)]]
  BY <1>2, <1>3
<1>5. ASSUME NEW h \in DOMAIN cols
      PROVE  cols[h].coefs \o sums(h) = Soplex!Promise!Linear!WithRows(cols[h].coefs, n, sums(h), m)
  <2>1. cols[h].coefs = [r \in 1..n |-> cols[h].coefs[r]] /\ n \in Nat
    BY <1>0 DEF SoplexSized, SoplexColumn
  <2>2. sums(h) = [r \in 1..m |-> sums(h)[r]]
    BY <1>1
  <2> HIDE DEF sums, n
  <2> QED BY <2>1, <2>2, ConcatIs DEF Soplex!Promise!Linear!WithRows
<1>6. SoplexVariables' = [h \in DOMAIN cols |-> [SoplexVariables[h] EXCEPT
                             !.coefs = Soplex!Promise!Linear!WithRows(@, n, sums(h), m)]]
  <2>1. ASSUME NEW h \in DOMAIN cols, NEW x
        PROVE  /\ SoplexView([cols[h] EXCEPT !.coefs = x]) = [SoplexVariables[h] EXCEPT !.coefs = x]
               /\ SoplexVariables[h].coefs = cols[h].coefs
    <3>1. cols[h] \in SoplexColumn
      BY <1>0 DEF SoplexSized
    <3> QED BY <3>1 DEF SoplexColumn, SoplexView, SoplexVariables, Soplex!VariableOf, Var
  <2>2. SoplexVariables' = [h \in DOMAIN cols |-> SoplexView([cols[h] EXCEPT !.coefs = cols[h].coefs \o sums(h)])]
    <3> HIDE DEF sums
    <3> QED BY <1>4 DEF SoplexVariables, SoplexView, Soplex!VariableOf, Var
  <2>3. ASSUME NEW h \in DOMAIN cols
        PROVE  SoplexView([cols[h] EXCEPT !.coefs = cols[h].coefs \o sums(h)]) =
               [SoplexVariables[h] EXCEPT
                   !.coefs = Soplex!Promise!Linear!WithRows(SoplexVariables[h].coefs, n, sums(h), m)]
    <3> HIDE DEF sums, n
    <3> QED BY <1>5, <2>1
  <2> HIDE DEF sums, n
  <2> QED BY <2>2, <2>3
<1>7. SoplexConstraints' = SoplexConstraints \o [r \in DOMAIN lcs |-> [sense |-> lcs[r].sense, rhs |-> lcs[r].rhs]]
  <2> DEFINE a == [r \in DOMAIN lcs |-> [sense |-> lcs[r].sense, rhs |-> lcs[r].rhs]]
  <2>1. \A r \in 1..m : Soplex!ConstraintOf(new[r]) = a[r]
    <3>1. ASSUME NEW r \in 1..m PROVE Soplex!ConstraintOf(Soplex!RowOf(lcs[r])) = [sense |-> lcs[r].sense, rhs |-> lcs[r].rhs]
      <4>1. lcs[r].sense \in {"less_equal", "equal", "greater_equal"} /\ lcs[r].rhs \in Rhs
        BY <1>1 DEF Soplex!ConstraintsOver, Soplex!Senses
      <4>2. lcs[r].rhs \in Int /\ -Infinity < lcs[r].rhs /\ lcs[r].rhs < Infinity /\ Infinity \in Int
        BY <4>1, InstanceDataAssumption
      <4> DEFINE row == Soplex!RowOf(lcs[r])
      <4>3. CASE lcs[r].sense = "less_equal"
        <5>1. row = [lower |-> -Infinity, upper |-> lcs[r].rhs]
          BY <4>3 DEF Soplex!RowOf
        <5> QED BY <4>2, <4>3, <5>1 DEF Soplex!ConstraintOf
      <4>4. CASE lcs[r].sense = "equal"
        <5>1. row = [lower |-> lcs[r].rhs, upper |-> lcs[r].rhs]
          BY <4>4 DEF Soplex!RowOf
        <5> QED BY <4>2, <4>4, <5>1 DEF Soplex!ConstraintOf
      <4>5. CASE lcs[r].sense = "greater_equal"
        <5>1. row = [lower |-> lcs[r].rhs, upper |-> Infinity]
          BY <4>5 DEF Soplex!RowOf
        <5> QED BY <4>2, <4>5, <5>1 DEF Soplex!ConstraintOf
      <4> QED BY <4>1, <4>3, <4>4, <4>5
    <3> QED BY <1>1, <3>1
  <2>2. n \in Nat /\ rows = [r \in 1..n |-> rows[r]] /\ new = [r \in 1..m |-> new[r]] /\ a = [r \in 1..m |-> a[r]]
    <3>1. n \in Nat /\ rows = [r \in 1..n |-> rows[r]]
      BY <1>0 DEF SoplexSized, SoplexInv
    <3> QED BY <1>1, <3>1
  <2> HIDE DEF n, new, a
  <2>3. rows' = [r \in 1..(n + m) |-> IF r <= n THEN rows[r] ELSE new[r - n]]
    BY <1>3, <2>2, ConcatIs
  <2>4. SoplexConstraints = [r \in 1..n |-> SoplexConstraints[r]] /\ \A r \in 1..n : SoplexConstraints[r] = Soplex!ConstraintOf(rows[r])
    BY <1>0 DEF SoplexSized, SoplexConstraints, n
  <2>5. SoplexConstraints \o a = [r \in 1..(n + m) |-> IF r <= n THEN SoplexConstraints[r] ELSE a[r - n]]
    BY <2>2, <2>4, ConcatIs
  <2>6. SoplexConstraints' = [r \in 1..(n + m) |-> Soplex!ConstraintOf(rows'[r])]
    BY <2>3 DEF SoplexConstraints, Soplex!ConstraintOf
  <2>7. \A r \in 1..(n + m) : Soplex!ConstraintOf(rows'[r]) = IF r <= n THEN SoplexConstraints[r] ELSE a[r - n]
    <3>1. ASSUME NEW r \in 1..(n + m), r <= n PROVE Soplex!ConstraintOf(rows'[r]) = SoplexConstraints[r]
      BY <2>2, <2>3, <2>4, <3>1
    <3>2. ASSUME NEW r \in 1..(n + m), ~(r <= n) PROVE Soplex!ConstraintOf(rows'[r]) = a[r - n]
      <4>1. r - n \in 1..m /\ rows'[r] = new[r - n]
        BY <2>2, <2>3, <3>2
      <4> QED BY <2>1, <4>1
    <3> QED BY <3>1, <3>2
  <2> HIDE DEF SoplexConstraints
  <2>8. SoplexConstraints' = SoplexConstraints \o a
    BY <2>5, <2>6, <2>7
  <2> QED BY <2>8 DEF a
<1>8. call'[1] = "add_constraints" /\ call'[2] = lcs
  BY <1>3
<1>9. Len(SoplexConstraints) = n /\ DOMAIN SoplexVariables = DOMAIN cols /\ Soplex!Promise!Linear!Held = DOMAIN cols
  BY <1>0 DEF SoplexSeen
<1>b. SoplexVariables' = [h \in DOMAIN SoplexVariables |-> [SoplexVariables[h] EXCEPT
         !.coefs = Soplex!Promise!Linear!WithRows(@, Len(SoplexConstraints), sums(h), Len(lcs))]]
  BY <1>1, <1>6, <1>9
<1>10. Soplex!Promise!Linear!AddConstraints(call'[2])
  BY <1>3, <1>7, <1>8, <1>b DEF Soplex!Promise!Linear!AddConstraints, SoplexVariables, SoplexConstraints,
     SoplexView, Var, Soplex!Promise!Linear!Held, Soplex!ConstraintOf
<1>11. \A r \in DOMAIN call'[2] : call'[2][r] \in Soplex!Promise!Linear!Rows
  <2>1. ASSUME NEW lc \in Soplex!ConstraintsOver(DOMAIN cols) PROVE lc \in Soplex!Promise!Linear!Rows
    BY <1>9, <2>1 DEF Soplex!ConstraintsOver, Soplex!Senses, Soplex!Promise!Linear!Rows, Soplex!Promise!Linear!Senses
  <2> QED BY <1>1, <1>8, <2>1
<1> QED BY <1>3, <1>8, <1>10, <1>11 DEF Soplex!Promise!LinearCall

LEMMA SoplexStep ==
    ASSUME SoplexInv, Soplex!Next PROVE call'[1] = "add_column" \/ Soplex!Promise!Next
<1>0. Soplex!Promise!LinearCall => Soplex!Promise!Next
  BY DEF Soplex!Promise!Next
<1>1. ASSUME NEW k \in Constants, Soplex!SetObjectiveOffset(k) PROVE Soplex!Promise!Next
  <2>1. Soplex!Promise!SetObjectiveOffset(k)
    BY <1>1 DEF Soplex!SetObjectiveOffset, Soplex!Promise!SetObjectiveOffset, Soplex!VariableOf
  <2> QED BY <2>1 DEF Soplex!Promise!Next
<1>2. ASSUME NEW m \in BOOLEAN, Soplex!SetDirection(m) PROVE Soplex!Promise!Next
  <2>1. Soplex!Promise!SetDirection(m)
    BY <1>2 DEF Soplex!SetDirection, Soplex!Promise!SetDirection, Soplex!VariableOf
  <2> QED BY <2>1 DEF Soplex!Promise!Next
<1>3. ASSUME NEW p \in SoplexParams, Soplex!AddVariable(p) PROVE Soplex!Promise!LinearCall
  <2>1. Copies(<<Soplex!NewCol(p, Soplex!Zeros)>>, 1, Soplex!NewCol(p, Soplex!Zeros))
    BY DEF Copies
  <2>2. /\ Soplex!AppendCols(<<Soplex!NewCol(p, Soplex!Zeros)>>) /\ UNCHANGED <<rows, offset, maximize>>
        /\ call' = <<"add_variable", Len(cols) + 1, Soplex!AsAdded(p)>>
    BY <1>3 DEF Soplex!AddVariable
  <2> QED BY <2>1, <2>2, SoplexMakes
<1>4. ASSUME NEW n \in 1..MaxColumns, NEW p \in SoplexParams, Soplex!AddVariables(n, p)
      PROVE  Soplex!Promise!LinearCall
  <2> DEFINE new == [k \in 1..n |-> Soplex!NewCol(p, Soplex!Zeros)]
  <2>1. Copies(new, n, Soplex!NewCol(p, Soplex!Zeros)) /\ n \in Nat \ {0}
    BY InstanceBoundsAssumption DEF Copies
  <2>2. /\ Soplex!AppendCols(new) /\ UNCHANGED <<rows, offset, maximize>>
        /\ call' = <<"add_variables", Len(cols) + 1, n, Soplex!AsAdded(p)>>
    BY <1>4 DEF Soplex!AddVariables
  <2> HIDE DEF new
  <2> QED BY <2>1, <2>2, SoplexMakes
<1>5. ASSUME NEW p \in SoplexParams, NEW t \in Soplex!EntriesOver(Len(rows)), Soplex!AddColumn(p, t)
      PROVE  call'[1] = "add_column"
  BY <1>5 DEF Soplex!AddColumn
<1> QED BY <1>0, <1>1, <1>2, <1>3, <1>4, <1>5, SoplexSetsObjective, SoplexAddsConstraints DEF Soplex!Next

\* The calls of a SoPlex model but add_column do what they say: in particular a row that
\* SoPlex gets has the sum of the terms of each variable, for any terms.
THEOREM SoplexKeptOnRows == Spec => SoplexKeepsPromiseOnRows
<1> DEFINE I == solver = "soplex" => SoplexInv /\ Soplex!RoomForNonzeros
<1>1. Init => I
  <2>1. cols = <<>> /\ rows = <<>> => SoplexInv
    BY DEF SoplexInv
  <2> QED BY <2>1, SoplexRoom DEF Init, Soplex!Init, Soplex!InstanceInit
<1>2. ASSUME I, [Next]_all
      PROVE  I' /\ (solver = "soplex" => call'[1] = "add_column" \/ [Soplex!Promise!Next]_(Soplex!Promise!vars))
  <2> SUFFICES ASSUME solver' = "soplex"
               PROVE  /\ SoplexInv' /\ Soplex!RoomForNonzeros'
                      /\ call'[1] = "add_column" \/ [Soplex!Promise!Next]_(Soplex!Promise!vars)
    BY <1>2 DEF Next, all
  <2>1. solver = "soplex" /\ SoplexInv /\ Soplex!RoomForNonzeros
    BY <1>2 DEF Next, all
  <2>2. CASE Soplex!Next
    BY <2>1, <2>2, SoplexNext, SoplexStep
  <2>3. CASE UNCHANGED all
    <3>1. SoplexInv' /\ Soplex!RoomForNonzeros'
      BY <2>1, <2>3 DEF all, vars, instance, SoplexInv, SoplexColumn, SoplexRow, Soplex!RoomForNonzeros
    <3>2. UNCHANGED Soplex!Promise!vars
      BY <2>3 DEF all, vars, instance, Soplex!Promise!vars, Soplex!VariableOf
    <3> QED BY <3>1, <3>2
  <2> QED BY <1>2, <2>1, <2>2, <2>3 DEF Next
<1> QED BY <1>1, <1>2, PTL DEF Spec, SoplexKeepsPromiseOnRows
=============================================================================
