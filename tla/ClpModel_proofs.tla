-------------------------- MODULE ClpModel_proofs --------------------------
(***************************************************************************)
(* The Clp model keeps the promise of LinearModel, for every value of the  *)
(* constants, but for the entries that the removal of a variable passes    *)
(* over.  What it takes is that a column has no cost and is fixed at 0     *)
(* from its removal to its recycling: then the values that recycling does  *)
(* not write are those it should have written.  And that it stays so is    *)
(* because the expressions of a client mention held handles only.  And Clp *)
(* is handed the rows that the client wrote.                               *)
(***************************************************************************)
EXTENDS MCClpModel, FiniteSetTheorems, SequenceTheorems, WellFoundedInduction, TLAPS

IInv == TypeOK /\ NoColumnLost /\ RemovedIsNeutral

ColumnType == [obj : Coefs, lb : Bounds, ub : Bounds, coefs : [1..Len(rows) -> Coefs]]
Free == {free_variable_ids[k] : k \in DOMAIN free_variable_ids}
Neutral(col) == col.obj = 0 /\ col.lb = 0 /\ col.ub = 0
----------------------------------------------------------------------------
(* Expressions *)

\* The sum of no terms is 0.  The sum is a fold, a function that is defined by
\* recursion over the subsets of a set, here of the empty one.
LEMMA SumOfNone == ASSUME NEW t PROVE SumAt(t, {}) = 0
<1> DEFINE F(f) == [s \in SUBSET {} |->
                       IF s = {} THEN 0
                       ELSE t[CHOOSE x \in s : TRUE].coef + f[s \ {CHOOSE x \in s : TRUE}]]
           g == [s \in SUBSET {} |-> 0]
<1>1. \A f : F(f) = g
  OBVIOUS
<1>2. SumAt(t, {}) = (CHOOSE f : f = F(f))[{}]
  BY DEF SumAt, MapThenSumSet, MapThenFoldSet
<1>3. (CHOOSE f : f = F(f)) = g
  <2>1. \E f : f = F(f)
    BY <1>1
  <2> HIDE DEF F
  <2> QED BY <2>1, <1>1
<1> QED BY <1>2, <1>3

\* An expression gives nothing to a variable that the client does not hold.
LEMMA NothingForOthers ==
    ASSUME NEW terms \in Exprs, NEW i, i \notin held
    PROVE  CoefficientOf(terms, i) = 0
<1>1. {k \in DOMAIN terms : terms[k].var = i} = {}
  BY DEF Exprs, ExpressionsOver, Expressions
<1> QED BY <1>1, SumOfNone DEF CoefficientOf
----------------------------------------------------------------------------
(* Columns and rows *)

LEMMA Lengths ==
    ASSUME IInv
    PROVE  /\ cols \in Seq(ColumnType) /\ Len(cols) \in Nat /\ DOMAIN cols = 1..Len(cols)
           /\ rows \in Seq(RowType) /\ Len(rows) \in Nat /\ DOMAIN rows = 1..Len(rows)
           /\ \A i \in DOMAIN cols : cols[i] \in ColumnType
           /\ \A r \in DOMAIN rows : rows[r] \in RowType
<1>1. cols \in Seq(ColumnType) /\ rows \in Seq(RowType)
  BY DEF IInv, TypeOK, ColumnType
<1>2. /\ Len(cols) \in Nat /\ DOMAIN cols = 1..Len(cols)
      /\ Len(rows) \in Nat /\ DOMAIN rows = 1..Len(rows)
  BY <1>1, LenProperties
<1>3. /\ \A i \in DOMAIN cols : cols[i] \in ColumnType
      /\ \A r \in DOMAIN rows : rows[r] \in RowType
  BY <1>1, <1>2, ElementOfSeq
<1> QED BY <1>1, <1>2, <1>3

LEMMA NewColumnTyped ==
    ASSUME IInv, NEW p \in Params, NEW e \in [1..Len(rows) -> Coefs]
    PROVE  Column(p, e) \in ColumnType
BY ClpDataAssumption DEF Column, ColumnType

LEMMA ZerosTyped ==
    ASSUME IInv
    PROVE  Zeros \in [1..Len(rows) -> Coefs]
BY Lengths, ClpDataAssumption DEF Zeros

LEMMA OverTyped ==
    ASSUME NEW n, NEW e \in [1..n -> Coefs], NEW c \in [1..n -> Coefs]
    PROVE  Over(e, c) \in [1..n -> Coefs]
BY DEF Over

\* Over no entries, the entries that are given are all there are.
LEMMA OverNone ==
    ASSUME NEW n, NEW e \in [1..n -> Coefs], NEW c \in [1..n -> Coefs], Entries(c) = {}
    PROVE  Over(e, c) = e
<1>1. \A r \in 1..n : c[r] = 0
  BY DEF Entries
<1>2. \A r \in 1..n : (IF e[r] # 0 THEN e[r] ELSE c[r]) = e[r]
  BY <1>1
<1>3. e = [r \in 1..n |-> e[r]] /\ DOMAIN c = 1..n
  OBVIOUS
<1> QED BY <1>2, <1>3 DEF Over

\* What recycling does not write is what it would have to write, but for the entries
\* that the column still has.
LEMMA RecycledIsNew ==
    ASSUME NEW col \in ColumnType, Neutral(col), NEW p \in Params, NEW e
    PROVE  WithEntries(Recycled(col, p), e) = Column(p, Over(e, col.coefs))
<1> DEFINE z == Recycled(col, p)
<1>1. z = [obj |-> p.obj, lb |-> p.lb, ub |-> p.ub, coefs |-> col.coefs]
  <2>1. DOMAIN z = {"obj", "lb", "ub", "coefs"} /\ z = [f \in DOMAIN z |-> z[f]]
    BY DEF Recycled, ColumnType
  <2>2. z.obj = p.obj /\ z.lb = p.lb /\ z.ub = p.ub /\ z.coefs = col.coefs
    BY DEF Recycled, ColumnType, Neutral
  <2> HIDE DEF z
  <2> QED BY <2>1, <2>2
<1>2. WithEntries(z, e) = [z EXCEPT !.coefs = Over(e, col.coefs)]
  <2> HIDE DEF z
  <2>1. z.coefs = col.coefs
    BY <1>1
  <2> QED BY <2>1 DEF WithEntries
<1>3. [z EXCEPT !.coefs = Over(e, col.coefs)] = Column(p, Over(e, col.coefs))
  <2> HIDE DEF z
  <2> QED BY <1>1 DEF Column
<1> QED BY <1>2, <1>3
----------------------------------------------------------------------------
(* Adding and removing *)

\* The entries of the column that h is given: those of a recycled column are still there
\* where there are no new ones.
EntriesOf(h, e) == IF h \in DOMAIN cols THEN Over(e, cols[h].coefs) ELSE e

\* The columns after a new one that is h's.
LEMMA AddOneDoes ==
    ASSUME IInv, NEW p \in Params, NEW e \in [1..Len(rows) -> Coefs],
           NEW h \in 1..MaxColumns, AddOne(h, p, e)
    PROVE  /\ h \notin held /\ held' = held \cup {h} /\ rows' = rows
           /\ cols'[h] = Column(p, EntriesOf(h, e)) /\ \A i \in held : cols'[i] = cols[i]
           /\ IInv'
<1>0. Column(p, e) \in ColumnType /\ MaxColumns \in Nat
  BY NewColumnTyped, ClpBoundsAssumption
<1>a. held' = held \cup {h} /\ rows' = rows /\ ColumnType' = ColumnType
  BY DEF AddOne, ColumnType
<1>b. /\ \A j, k \in DOMAIN free_variable_ids :
            free_variable_ids[j] = free_variable_ids[k] => j = k
      /\ Free = DOMAIN cols \ held /\ held \subseteq DOMAIN cols
      /\ Len(cols) <= MaxColumns /\ free_variable_ids \in Seq(1..MaxColumns)
      /\ held \subseteq 1..MaxColumns
      /\ \A i \in DOMAIN cols \ held : Neutral(cols[i])
  BY DEF IInv, NoColumnLost, RemovedIsNeutral, TypeOK, Free, Neutral
<1>1. CASE free_variable_ids # <<>>
  <2> DEFINE n == Len(free_variable_ids)
  <2>1. /\ n \in Nat \ {0} /\ DOMAIN free_variable_ids = 1..n /\ h = free_variable_ids[n]
        /\ free_variable_ids' = SubSeq(free_variable_ids, 1, n - 1)
        /\ cols' = [cols EXCEPT ![h] = WithEntries(Recycled(@, p), e)]
    BY <1>1, <1>b, EmptySeq DEF AddOne
  <2> HIDE DEF n
  <2>2. /\ free_variable_ids' \in Seq(1..MaxColumns)
        /\ DOMAIN free_variable_ids' = 1..(n - 1)
        /\ \A k \in 1..(n - 1) : free_variable_ids'[k] = free_variable_ids[k] /\ k \in 1..n /\ k # n
    <3>1. n - 1 \in Nat /\ \A k \in 1..(n - 1) : k \in 1..n /\ k # n
      BY <2>1
    <3>2. \A k \in 1..(n - 1) : free_variable_ids[k] \in 1..MaxColumns
      BY <3>1, <2>1, <1>b, ElementOfSeq DEF n
    <3>3. /\ free_variable_ids' \in Seq(1..MaxColumns) /\ Len(free_variable_ids') = n - 1
          /\ \A k \in 1..(n - 1) : free_variable_ids'[k] = free_variable_ids[k]
      BY <2>1, <3>1, <3>2, SubSeqProperties
    <3> QED BY <3>1, <3>3, LenProperties
  <2>3. h \in Free /\ h \in DOMAIN cols /\ h \notin held /\ Neutral(cols[h])
    BY <2>1, <1>b, SMTT(60) DEF Free
  <2>c. PICK c : c = Over(e, cols[h].coefs)
    OBVIOUS
  <2>d. Column(p, c) \in ColumnType /\ c = EntriesOf(h, e) /\ cols[h] \in ColumnType
    <3>1. cols[h] \in ColumnType /\ cols[h].coefs \in [1..Len(rows) -> Coefs]
      BY <2>3, Lengths DEF ColumnType
    <3>2. c \in [1..Len(rows) -> Coefs]
      BY <2>c, <3>1, OverTyped
    <3> QED BY <2>c, <2>3, <3>1, <3>2, NewColumnTyped DEF EntriesOf
  <2>4. cols' = [cols EXCEPT ![h] = Column(p, c)]
    <3>1. WithEntries(Recycled(cols[h], p), e) = Column(p, c)
      BY <2>3, <2>c, <2>d, RecycledIsNew
    <3> QED BY <2>1, <3>1
  <2>5. /\ cols' \in Seq(ColumnType) /\ Len(cols') = Len(cols) /\ DOMAIN cols' = DOMAIN cols
        /\ cols'[h] = Column(p, c) /\ \A i \in DOMAIN cols \ {h} : cols'[i] = cols[i]
    BY <2>3, <2>4, <2>d, Lengths
  <2>6. TypeOK'
    BY <2>2, <2>5, <1>a, <1>b DEF TypeOK, ColumnType, IInv
  <2>7. Free' = Free \ {h}
    <3>1. ASSUME NEW x \in Free \ {h} PROVE x \in Free'
      <4>1. PICK k \in 1..n : x = free_variable_ids[k]
        BY <3>1, <2>1 DEF Free
      <4>2. k \in 1..(n - 1)
        BY <4>1, <3>1, <2>1
      <4> QED BY <4>1, <4>2, <2>2 DEF Free
    <3>2. ASSUME NEW x \in Free' PROVE x \in Free \ {h}
      <4>1. PICK k \in 1..(n - 1) : x = free_variable_ids'[k]
        BY <3>2, <2>2 DEF Free
      <4>2. k \in 1..n /\ n \in 1..n /\ k # n /\ x = free_variable_ids[k]
        BY <4>1, <2>1, <2>2
      <4> QED BY <4>2, <2>1, <1>b DEF Free
    <3> QED BY <3>1, <3>2
  <2>8. NoColumnLost'
    <3>1. \A j, k \in DOMAIN free_variable_ids' :
             free_variable_ids'[j] = free_variable_ids'[k] => j = k
      BY <2>1, <2>2, <1>b
    <3> QED BY <3>1, <2>3, <2>5, <2>7, <1>a, <1>b DEF NoColumnLost, Free
  <2>9. RemovedIsNeutral'
    BY <2>5, <1>a, <1>b DEF RemovedIsNeutral, Neutral
  <2> QED BY <1>a, <1>b, <2>3, <2>5, <2>6, <2>8, <2>9, <2>d DEF IInv
<1>2. CASE free_variable_ids = <<>>
  <2>1. /\ Len(cols) < MaxColumns /\ h = Len(cols) + 1 /\ cols' = Append(cols, Column(p, e))
        /\ free_variable_ids' = free_variable_ids
    BY <1>2 DEF AddOne
  <2>2. Free = {} /\ DOMAIN cols = held
    <3>1. Free = DOMAIN cols \ held /\ held \subseteq DOMAIN cols
      BY <1>b
    <3>2. Free = {}
      BY <1>2 DEF Free
    <3> QED BY <3>1, <3>2
  <2>3. /\ cols' \in Seq(ColumnType) /\ Len(cols') = Len(cols) + 1
        /\ DOMAIN cols' = DOMAIN cols \cup {h} /\ h \notin DOMAIN cols
        /\ cols'[h] = Column(p, e) /\ \A i \in DOMAIN cols : cols'[i] = cols[i]
    BY <2>1, <1>0, Lengths, AppendProperties
  <2>4. TypeOK'
    <3>1. Len(cols') <= MaxColumns
      BY <2>1, <2>3, <1>0, Lengths
    <3> QED BY <2>1, <2>3, <3>1, <1>a, <1>b DEF TypeOK, ColumnType, IInv
  <2>5. NoColumnLost'
    BY <2>1, <2>2, <2>3, <1>a, <1>b DEF NoColumnLost, Free
  <2>6. RemovedIsNeutral'
    BY <2>2, <2>3, <1>a DEF RemovedIsNeutral
  <2> QED BY <1>a, <2>2, <2>3, <2>4, <2>5, <2>6 DEF IInv, EntriesOf
<1> QED BY <1>1, <1>2

LEMMA AddVariablesDoes ==
    ASSUME IInv, NEW p \in Params, NEW n \in 1..MaxColumns, AddVariables(n, p)
    PROVE  LET H == (Len(cols) + 1)..(Len(cols) + n) IN
           /\ H \cap held = {} /\ held' = held \cup H /\ rows' = rows
           /\ H \subseteq 1..MaxColumns
           /\ \A h \in H : cols'[h] = Column(p, Zeros)
           /\ \A i \in held : cols'[i] = cols[i]
           /\ IInv'
<1> DEFINE o == Len(cols)
           H == (o + 1)..(o + n)
           added == [k \in 1..n |-> Column(p, Zeros)]
<1>0. Column(p, Zeros) \in ColumnType /\ MaxColumns \in Nat /\ n \in Nat
  BY ZerosTyped, NewColumnTyped, ClpBoundsAssumption
<1>1. /\ o + n <= MaxColumns /\ cols' = cols \o added /\ held' = held \cup H
      /\ rows' = rows /\ free_variable_ids' = free_variable_ids
  BY DEF AddVariables
<1>2. /\ o \in Nat /\ DOMAIN cols = 1..o /\ cols \in Seq(ColumnType)
      /\ held \subseteq DOMAIN cols
  BY Lengths DEF IInv, NoColumnLost
<1>3. added \in Seq(ColumnType) /\ Len(added) = n /\ \A k \in 1..n : added[k] = Column(p, Zeros)
  BY <1>0, SeqDef
<1> HIDE DEF o, added
<1>4. /\ cols' \in Seq(ColumnType) /\ Len(cols') = o + n /\ DOMAIN cols' = 1..(o + n)
      /\ \A i \in 1..o : cols'[i] = cols[i]
      /\ \A i \in (o + 1)..(o + n) : cols'[i] = Column(p, Zeros)
  <2>1. Len(cols) = o
    BY DEF o
  <2>2. /\ cols' \in Seq(ColumnType) /\ Len(cols') = o + n
        /\ \A i \in 1..(o + n) : cols'[i] = IF i <= o THEN cols[i] ELSE added[i - o]
    BY <2>1, <1>1, <1>2, <1>3, ConcatProperties
  <2>3. \A i \in 1..o : i \in 1..(o + n) /\ i <= o
    BY <1>0, <1>2
  <2>4. \A i \in (o + 1)..(o + n) : i \in 1..(o + n) /\ ~(i <= o) /\ i - o \in 1..n
    BY <1>0, <1>2
  <2>5. DOMAIN cols' = 1..(o + n)
    BY <2>2, LenProperties
  <2> QED BY <2>2, <2>3, <2>4, <2>5, <1>3
<1>5. DOMAIN cols' = DOMAIN cols \cup H /\ H \cap DOMAIN cols = {}
  <2>1. \A i \in 1..(o + n) : i \in 1..o \/ i \in (o + 1)..(o + n)
    BY <1>0, <1>2
  <2>2. \A i \in (o + 1)..(o + n) : i \in 1..(o + n) /\ i \notin 1..o
    BY <1>0, <1>2
  <2>3. \A i \in 1..o : i \in 1..(o + n)
    BY <1>0, <1>2
  <2> QED BY <1>2, <1>4, <2>1, <2>2, <2>3
<1>6. H \subseteq 1..MaxColumns
  BY <1>0, <1>1, <1>2
<1>7. ColumnType' = ColumnType
  BY <1>1 DEF ColumnType
<1> HIDE DEF H
<1>8. TypeOK'
  <2>1. Len(cols') <= MaxColumns
    BY <1>1, <1>4
  <2> QED BY <2>1, <1>1, <1>4, <1>6, <1>7 DEF IInv, TypeOK, ColumnType
<1>9. NoColumnLost' /\ RemovedIsNeutral'
  <2>1. DOMAIN cols' \ held' = DOMAIN cols \ held
    BY <1>1, <1>2, <1>5
  <2> QED BY <2>1, <1>1, <1>2, <1>4, <1>5, <1>7 DEF IInv, NoColumnLost, RemovedIsNeutral
<1> QED BY <1>1, <1>2, <1>4, <1>5, <1>6, <1>8, <1>9 DEF IInv, H, o

\* A finite sequence of elements of S is one over S.
LEMMA SeqIntro ==
    ASSUME NEW S, NEW n \in Nat, NEW s, DOMAIN s = 1..n, s = [i \in 1..n |-> s[i]],
           \A i \in 1..n : s[i] \in S
    PROVE  s \in Seq(S) /\ Len(s) = n
BY SeqDef

\* A removed column is a column, whatever entries were passed over.
LEMMA ZeroedTyped ==
    ASSUME NEW col \in ColumnType, NEW left
    PROVE  Zeroed(col, left) \in ColumnType
<1> DEFINE e == [r \in DOMAIN col.coefs |-> IF r \in left THEN col.coefs[r] ELSE 0]
<1>1. e \in [1..Len(rows) -> Coefs]
  BY ClpDataAssumption DEF ColumnType
<1> HIDE DEF e
<1>2. [obj |-> 0, lb |-> 0, ub |-> 0, coefs |-> e] \in ColumnType
  BY <1>1, ClpDataAssumption DEF ColumnType
<1> QED BY <1>2 DEF Zeroed, e

LEMMA RemoveDoes ==
    ASSUME IInv, NEW doomed \in Removals, RemoveVariables(doomed)
    PROVE  LET D == {doomed[k] : k \in DOMAIN doomed} IN
           /\ D \subseteq held /\ held' = held \ D /\ rows' = rows
           /\ \A i \in held \ D : cols'[i] = cols[i]
           /\ IInv'
<1> DEFINE D == {doomed[k] : k \in DOMAIN doomed}
           n == Len(free_variable_ids)
<1>0. PICK H \in SUBSET held \ {{}} : doomed \in Orders(H)
  BY DEF Removals
<1>m. PICK m : m = Cardinality(H)
  OBVIOUS
<1>1. /\ m \in Nat /\ doomed \in [1..m -> H]
      /\ \A i, j \in DOMAIN doomed : doomed[i] = doomed[j] => i = j
  <2>1. H \subseteq 1..MaxColumns /\ 1 \in Int /\ MaxColumns \in Int
    BY ClpBoundsAssumption DEF IInv, TypeOK
  <2>2. m \in Nat
    BY <2>1, <1>m, FS_Interval, FS_Subset, FS_CardinalityType
  <2> QED BY <2>2, <1>0, <1>m DEF Orders
<1>2. /\ m \in Nat /\ DOMAIN doomed = 1..m /\ \A k \in 1..m : doomed[k] \in held
      /\ \A i, j \in 1..m : doomed[i] = doomed[j] => i = j
  BY <1>0, <1>1
<1>3. /\ free_variable_ids' = free_variable_ids \o doomed
      /\ held' = held \ D /\ rows' = rows
  BY DEF RemoveVariables
<1>a. PICK left \in [D -> SUBSET DOMAIN rows] :
         cols' = [i \in DOMAIN cols |-> IF i \in D THEN Zeroed(cols[i], left[i]) ELSE cols[i]]
  BY DEF RemoveVariables
<1>b. /\ \A j, k \in DOMAIN free_variable_ids :
            free_variable_ids[j] = free_variable_ids[k] => j = k
      /\ Free = DOMAIN cols \ held /\ held \subseteq DOMAIN cols
      /\ Len(cols) <= MaxColumns /\ free_variable_ids \in Seq(1..MaxColumns)
      /\ held \subseteq 1..MaxColumns
      /\ \A i \in DOMAIN cols \ held : Neutral(cols[i])
  BY DEF IInv, NoColumnLost, RemovedIsNeutral, TypeOK, Free, Neutral
<1>4. D \subseteq held
  BY <1>2
<1>5. ColumnType' = ColumnType
  BY <1>3 DEF ColumnType
<1>6. n \in Nat /\ DOMAIN free_variable_ids = 1..n
  BY <1>b, LenProperties
<1>7. /\ free_variable_ids' \in Seq(1..MaxColumns) /\ DOMAIN free_variable_ids' = 1..(n + m)
      /\ \A k \in 1..(n + m) :
            free_variable_ids'[k] = IF k <= n THEN free_variable_ids[k] ELSE doomed[k - n]
  <2>1. doomed \in Seq(1..MaxColumns) /\ Len(doomed) = m
    <3>1. doomed = [i \in 1..m |-> doomed[i]] /\ \A i \in 1..m : doomed[i] \in 1..MaxColumns
      BY <1>1, <1>2, <1>b
    <3> QED BY <3>1, <1>2, SeqIntro
  <2>a. /\ Len(free_variable_ids) = n /\ free_variable_ids \in Seq(1..MaxColumns)
        /\ free_variable_ids' = free_variable_ids \o doomed
    BY <1>3, <1>b
  <2> HIDE DEF n
  <2>2. /\ free_variable_ids' \in Seq(1..MaxColumns) /\ Len(free_variable_ids') = n + m
        /\ \A k \in 1..(n + m) :
              free_variable_ids'[k] = IF k <= n THEN free_variable_ids[k] ELSE doomed[k - n]
    BY <2>a, <2>1, ConcatProperties
  <2> QED BY <2>2, LenProperties
<1> HIDE DEF n
<1>8. \A k \in 1..(n + m) : (k <= n /\ k \in 1..n) \/ (~(k <= n) /\ k - n \in 1..m)
  BY <1>2, <1>6
<1>9. Free' = Free \cup D
  <2>1. ASSUME NEW x \in Free' PROVE x \in Free \cup D
    <3>1. PICK k \in 1..(n + m) : x = free_variable_ids'[k]
      BY <2>1, <1>7 DEF Free
    <3> QED BY <3>1, <1>2, <1>6, <1>7, <1>8 DEF Free
  <2>2. ASSUME NEW x \in Free PROVE x \in Free'
    <3>1. PICK k \in 1..n : x = free_variable_ids[k]
      BY <2>2, <1>6 DEF Free
    <3>2. k \in 1..(n + m) /\ k <= n
      BY <1>2, <1>6
    <3> QED BY <3>1, <3>2, <1>7 DEF Free
  <2>3. ASSUME NEW x \in D PROVE x \in Free'
    <3>1. PICK k \in 1..m : x = doomed[k]
      BY <2>3, <1>2
    <3>2. n + k \in 1..(n + m) /\ ~(n + k <= n) /\ (n + k) - n = k
      BY <1>2, <1>6
    <3>3. free_variable_ids'[n + k] = x
      BY <3>1, <3>2, <1>7
    <3> QED BY <3>2, <3>3, <1>7 DEF Free
  <2> HIDE DEF D
  <2> QED BY <2>1, <2>2, <2>3
<1>10. \A j, k \in 1..(n + m) : free_variable_ids'[j] = free_variable_ids'[k] => j = k
  <2> SUFFICES ASSUME NEW j \in 1..(n + m), NEW k \in 1..(n + m),
                      free_variable_ids'[j] = free_variable_ids'[k]
               PROVE  j = k
    OBVIOUS
  <2>1. \A i \in 1..n : free_variable_ids[i] \notin held
    BY <1>6, <1>b DEF Free
  <2>2. CASE j <= n /\ k <= n
    BY <2>2, <1>6, <1>7, <1>8, <1>b
  <2>3. CASE ~(j <= n) /\ ~(k <= n)
    <3>1. j - n = k - n
      BY <2>3, <1>2, <1>7, <1>8
    <3> QED BY <3>1, <1>2, <1>6
  <2>4. CASE (j <= n) # (k <= n)
    BY <2>1, <2>4, <1>2, <1>7, <1>8
  <2> QED BY <2>2, <2>3, <2>4
<1> HIDE DEF D
<1>11. /\ cols' \in Seq(ColumnType) /\ Len(cols') = Len(cols) /\ DOMAIN cols' = DOMAIN cols
       /\ \A i \in DOMAIN cols : IF i \in D THEN Neutral(cols'[i]) ELSE cols'[i] = cols[i]
  <2>1. /\ DOMAIN cols' = 1..Len(cols) /\ cols' = [i \in 1..Len(cols) |-> cols'[i]]
        /\ \A i \in DOMAIN cols :
              cols'[i] = IF i \in D THEN Zeroed(cols[i], left[i]) ELSE cols[i]
    BY <1>a, Lengths
  <2>2. \A i \in 1..Len(cols) : cols'[i] \in ColumnType
    BY <2>1, Lengths, ZeroedTyped
  <2>3. \A i \in DOMAIN cols : Neutral(Zeroed(cols[i], left[i]))
    BY DEF Zeroed, Neutral
  <2> QED BY <2>1, <2>2, <2>3, Lengths, SeqIntro
<1>12. TypeOK'
  BY <1>3, <1>5, <1>7, <1>11, <1>b DEF TypeOK, ColumnType, IInv
<1>13. NoColumnLost'
  BY <1>3, <1>4, <1>7, <1>9, <1>10, <1>11, <1>b DEF NoColumnLost, Free
<1>14. RemovedIsNeutral'
  BY <1>3, <1>11, <1>b DEF RemovedIsNeutral, Neutral
<1> QED BY <1>3, <1>4, <1>11, <1>12, <1>13, <1>14, <1>b DEF IInv, D
----------------------------------------------------------------------------
(* Changing what is there *)

\* A change to held columns alone keeps the invariant.
LEMMA EditDoes ==
    ASSUME IInv, UNCHANGED <<rows, free_variable_ids, held>>,
           DOMAIN cols' = DOMAIN cols, cols' = [i \in DOMAIN cols |-> cols'[i]],
           \A i \in DOMAIN cols : cols'[i] \in ColumnType,
           \A i \in DOMAIN cols \ held : cols'[i] = cols[i]
    PROVE  IInv'
<1>1. cols' \in Seq(ColumnType) /\ Len(cols') = Len(cols)
  BY Lengths, SeqIntro
<1>2. ColumnType' = ColumnType
  BY DEF ColumnType
<1>3. TypeOK'
  BY <1>1, <1>2 DEF IInv, TypeOK, ColumnType
<1>4. NoColumnLost' /\ RemovedIsNeutral'
  BY DEF IInv, NoColumnLost, RemovedIsNeutral
<1> QED BY <1>3, <1>4 DEF IInv

LEMMA HeldIsColumn == IInv => held \subseteq DOMAIN cols
BY DEF IInv, NoColumnLost

LEMMA SetterKeeps ==
    ASSUME IInv, NEW h \in held, NEW x,
           \/ x \in Bounds /\ (SetVariableLowerBound(h, x) \/ SetVariableUpperBound(h, x))
           \/ x \in Coefs /\ SetObjectiveCoefficient(h, x)
    PROVE  IInv' /\ rows' = rows /\ held' = held /\ DOMAIN cols' = DOMAIN cols
           /\ \A i \in DOMAIN cols \ {h} : cols'[i] = cols[i]
<1>1. h \in DOMAIN cols /\ cols[h] \in ColumnType
  BY HeldIsColumn, Lengths
<1>2. PICK c \in ColumnType : cols' = [cols EXCEPT ![h] = c]
  <2>1. CASE x \in Bounds /\ SetVariableLowerBound(h, x)
    <3>1. cols' = [cols EXCEPT ![h] = [cols[h] EXCEPT !.lb = x]]
      BY <2>1 DEF SetVariableLowerBound
    <3>2. [cols[h] EXCEPT !.lb = x] \in ColumnType
      BY <1>1, <2>1 DEF ColumnType
    <3> QED BY <3>1, <3>2
  <2>2. CASE x \in Bounds /\ SetVariableUpperBound(h, x)
    <3>1. cols' = [cols EXCEPT ![h] = [cols[h] EXCEPT !.ub = x]]
      BY <2>2 DEF SetVariableUpperBound
    <3>2. [cols[h] EXCEPT !.ub = x] \in ColumnType
      BY <1>1, <2>2 DEF ColumnType
    <3> QED BY <3>1, <3>2
  <2>3. CASE x \in Coefs /\ SetObjectiveCoefficient(h, x)
    <3>1. cols' = [cols EXCEPT ![h] = [cols[h] EXCEPT !.obj = x]]
      BY <2>3 DEF SetObjectiveCoefficient
    <3>2. [cols[h] EXCEPT !.obj = x] \in ColumnType
      BY <1>1, <2>3 DEF ColumnType
    <3> QED BY <3>1, <3>2
  <2> QED BY <2>1, <2>2, <2>3
<1>3. UNCHANGED <<rows, free_variable_ids, held>>
  BY DEF SetVariableLowerBound, SetVariableUpperBound, SetObjectiveCoefficient
<1>4. /\ DOMAIN cols' = DOMAIN cols /\ cols' = [i \in DOMAIN cols |-> cols'[i]]
      /\ \A i \in DOMAIN cols : cols'[i] = IF i = h THEN c ELSE cols[i]
  BY <1>2, Lengths
<1>5. IInv'
  BY <1>1, <1>3, <1>4, Lengths, EditDoes
<1> QED BY <1>3, <1>4, <1>5

\* A column with another cost.
WithCost(z, c) == [z EXCEPT !.obj = c]

LEMMA CostTyped ==
    ASSUME NEW z \in ColumnType, NEW c \in Coefs
    PROVE  WithCost(z, c) \in ColumnType
BY DEF ColumnType, WithCost

LEMMA ObjectiveKeeps ==
    ASSUME IInv, NEW terms \in Exprs, SetObjective(terms) \/ AddObjective(terms)
    PROVE  IInv' /\ rows' = rows /\ held' = held
<1>1. UNCHANGED <<rows, free_variable_ids, held>>
  BY DEF SetObjective, AddObjective
<1>2. /\ DOMAIN cols' = DOMAIN cols /\ cols' = [i \in DOMAIN cols |-> cols'[i]]
  BY DEF SetObjective, AddObjective
<1>3. ASSUME NEW i \in DOMAIN cols
      PROVE  /\ cols'[i] \in ColumnType
             /\ i \notin held => cols'[i] = cols[i]
  <2>1. cols[i] \in ColumnType
    BY Lengths
  <2>2. i \notin held => cols[i].obj = 0 /\ CoefficientOf(terms, i) = 0
    BY NothingForOthers DEF IInv, RemovedIsNeutral
  <2>3. cols[i].obj = 0 => WithCost(cols[i], 0) = cols[i]
    BY <2>1 DEF WithCost, ColumnType
  <2>4. CASE SetObjective(terms)
    <3>1. /\ CoefficientOf(terms, i) \in Coefs
          /\ cols'[i] = WithCost(cols[i], CoefficientOf(terms, i))
      BY <2>4 DEF SetObjective, WithCost
    <3> QED BY <2>1, <2>2, <2>3, <3>1, CostTyped
  <2>5. CASE AddObjective(terms)
    <3>1. /\ cols[i].obj + CoefficientOf(terms, i) \in Coefs
          /\ cols'[i] = WithCost(cols[i], cols[i].obj + CoefficientOf(terms, i))
      BY <2>5 DEF AddObjective, WithCost
    <3> QED BY <2>1, <2>2, <2>3, <3>1, CostTyped
  <2> QED BY <2>4, <2>5
<1>4. IInv'
  BY <1>1, <1>2, <1>3, EditDoes
<1> QED BY <1>1, <1>4
----------------------------------------------------------------------------
(* Rows *)

\* The bounds of a row tell the sense and the right-hand side they were made from.
LEMMA RowRoundTrip ==
    ASSUME NEW s \in Senses, NEW b \in Rhs
    PROVE  /\ SenseOf(RowOf(s, b)) = s /\ RhsOf(RowOf(s, b)) = b
           /\ ConstraintOf(RowOf(s, b)) = [sense |-> s, rhs |-> b]
           /\ RowOf(s, b) \in RowType
<1>1. b \in Int /\ Infinity \in Int /\ -Infinity # b /\ b # Infinity /\ -Infinity # Infinity
  BY ClpDataAssumption
<1>2. RowOf(s, b) \in RowType
  BY DEF RowType
<1>3. s = "less_equal" \/ s = "equal" \/ s = "greater_equal"
  BY DEF Senses
<1>4. SenseOf(RowOf(s, b)) = s /\ RhsOf(RowOf(s, b)) = b
  <2>1. CASE s = "less_equal"
    BY <1>1, <2>1 DEF RowOf, SenseOf, RhsOf
  <2>2. CASE s = "equal"
    BY <1>1, <2>2 DEF RowOf, SenseOf, RhsOf
  <2>3. CASE s = "greater_equal"
    BY <1>1, <2>3 DEF RowOf, SenseOf, RhsOf
  <2> QED BY <1>3, <2>1, <2>2, <2>3
<1>5. ConstraintOf(RowOf(s, b)) = [sense |-> s, rhs |-> b]
  BY <1>3, <1>4 DEF ConstraintOf
<1> QED BY <1>2, <1>4, <1>5

\* A range is seen as one, unless its ends are the same.
LEMMA RangeRoundTrip ==
    ASSUME NEW lb \in Rhs, NEW ub \in Rhs
    PROVE  /\ [lower |-> lb, upper |-> ub] \in RowType
           /\ ConstraintOf([lower |-> lb, upper |-> ub]) =
                 IF lb = ub THEN [sense |-> "equal", rhs |-> ub]
                 ELSE [sense |-> "range", rhs |-> <<lb, ub>>]
<1>1. /\ lb \in Int /\ ub \in Int /\ Infinity \in Int
      /\ lb # -Infinity /\ ub # Infinity
  BY ClpDataAssumption
<1>2. CASE lb = ub
  <2>1. SenseOf([lower |-> lb, upper |-> ub]) = "equal"
    BY <1>2 DEF SenseOf
  <2> QED BY <1>2, <2>1 DEF ConstraintOf, RhsOf, RowType
<1>3. CASE lb # ub
  <2>1. SenseOf([lower |-> lb, upper |-> ub]) = "range"
    BY <1>1, <1>3 DEF SenseOf
  <2> QED BY <1>3, <2>1 DEF ConstraintOf, RowType
<1> QED BY <1>2, <1>3

\* A row that is not a range is one that the client made with a sense.
LEMMA RowIsOf ==
    ASSUME NEW row \in RowType, SenseOf(row) # "range"
    PROVE  \E s \in Senses, b \in Rhs : row = RowOf(s, b)
<1>1. CASE row \in {RowOf(s, b) : s \in Senses, b \in Rhs}
  BY <1>1
<1>2. CASE row \in [lower : Rhs, upper : Rhs]
  <2>1. PICK lb \in Rhs, ub \in Rhs : row = [lower |-> lb, upper |-> ub]
    BY <1>2
  <2>2. lb = ub
    BY <2>1, RangeRoundTrip DEF ConstraintOf
  <2> QED BY <2>1, <2>2 DEF RowOf, Senses
<1> QED BY <1>1, <1>2 DEF RowType

\* A column with other coefficients.
WithCoefs(z, e) == [z EXCEPT !.coefs = e]

\* New rows give every column a coefficient, which is 0 where nobody holds it.
LEMMA AddRowsDoes ==
    ASSUME IInv, NEW m \in Nat, NEW terms \in [1..m -> Exprs], NEW bounds \in [1..m -> RowType],
           AddRows(terms, bounds)
    PROVE  /\ IInv' /\ held' = held /\ rows' = rows \o bounds /\ Len(bounds) = m
           /\ bounds \in Seq(RowType) /\ Len(rows') = Len(rows) + m
           /\ \A r \in 1..Len(rows) : rows'[r] = rows[r]
           /\ \A r \in 1..m : rows'[Len(rows) + r] = bounds[r]
           /\ \A i \in held : cols'[i] =
                 WithCoefs(cols[i], WithRows(cols[i].coefs, Len(rows),
                                    [r \in 1..m |-> CoefficientOf(terms[r], i)], m))
<1> DEFINE n == Len(rows)
           more(i) == [r \in 1..m |-> CoefficientOf(terms[r], i)]
<1>1. bounds \in Seq(RowType) /\ Len(bounds) = m /\ DOMAIN bounds = 1..m
  BY SeqIntro
<1>2. /\ rows \in Seq(RowType) /\ n \in Nat /\ DOMAIN rows = 1..n
      /\ Len(cols) \in Nat /\ DOMAIN cols = 1..Len(cols)
      /\ \A i \in DOMAIN cols : cols[i] \in ColumnType
  BY Lengths
<1>3. /\ UNCHANGED <<free_variable_ids, held>> /\ rows' = rows \o bounds
      /\ DOMAIN cols' = DOMAIN cols /\ cols' = [i \in DOMAIN cols |-> cols'[i]]
      /\ \A i \in DOMAIN cols : cols'[i] = WithCoefs(cols[i], WithRows(cols[i].coefs, n, more(i), m))
      /\ \A r \in 1..m, i \in DOMAIN cols : CoefficientOf(terms[r], i) \in Coefs
  BY <1>1 DEF AddRows, WithCoefs
<1>4. Len(rows) = n
  OBVIOUS
<1> HIDE DEF n
<1>5. rows' \in Seq(RowType) /\ Len(rows') = n + m
  BY <1>1, <1>2, <1>3, <1>4, ConcatProperties
<1>6. /\ \A r \in 1..n : rows'[r] = rows[r]
      /\ \A r \in 1..m : rows'[n + r] = bounds[r]
  <2>1. \A r \in 1..(n + m) : rows'[r] = IF r <= n THEN rows[r] ELSE bounds[r - n]
    BY <1>1, <1>2, <1>3, <1>4, ConcatProperties
  <2>2. \A r \in 1..m : n + r \in 1..(n + m) /\ ~(n + r <= n) /\ (n + r) - n = r
    BY <1>2
  <2>3. \A r \in 1..n : r \in 1..(n + m) /\ r <= n
    BY <1>2
  <2> QED BY <2>1, <2>2, <2>3
<1>7. ASSUME NEW i \in DOMAIN cols
      PROVE  cols'[i] \in ColumnType'
  <2>1. cols[i].coefs \in [1..n -> Coefs] /\ cols[i] \in ColumnType
    BY <1>2, <1>4 DEF ColumnType
  <2>2. more(i) \in [1..m -> Coefs]
    BY <1>3
  <2>3. WithRows(cols[i].coefs, n, more(i), m) \in [1..(n + m) -> Coefs]
    <3> HIDE DEF more
    <3> QED BY <1>2, <2>1, <2>2 DEF WithRows
  <2>4. WithCoefs(cols[i], WithRows(cols[i].coefs, n, more(i), m)) \in ColumnType'
    BY <1>5, <2>1, <2>3 DEF ColumnType, WithCoefs
  <2> QED BY <1>3, <2>4
<1>8. cols' \in Seq(ColumnType') /\ Len(cols') = Len(cols)
  BY <1>2, <1>3, <1>7, SeqIntro
<1>9. TypeOK'
  BY <1>3, <1>5, <1>8 DEF IInv, TypeOK, ColumnType
<1>10. NoColumnLost'
  BY <1>3 DEF IInv, NoColumnLost
<1>11. RemovedIsNeutral'
  <2> SUFFICES ASSUME NEW i \in DOMAIN cols \ held PROVE Neutral(cols'[i])
    BY <1>3 DEF RemovedIsNeutral, Neutral
  <2>1. Neutral(cols[i]) /\ cols[i] \in ColumnType
    BY <1>2 DEF IInv, RemovedIsNeutral, Neutral
  <2>2. ASSUME NEW e PROVE Neutral(WithCoefs(cols[i], e))
    BY <2>1 DEF WithCoefs, Neutral, ColumnType
  <2> QED BY <1>3, <2>2
<1>12. held \subseteq DOMAIN cols
  BY HeldIsColumn
<1> QED BY <1>1, <1>3, <1>4, <1>5, <1>6, <1>9, <1>10, <1>11, <1>12 DEF IInv

\* The row of a constraint, written through its sense and its right-hand side.
LEMMA SetRow ==
    ASSUME IInv, NEW r \in DOMAIN rows, NEW x,
           \/ x \in Rhs /\ SetConstraintRhs(r, x)
           \/ x \in Senses /\ SetConstraintSense(r, x)
    PROVE  \E s \in Senses, b \in Rhs :
              /\ IInv' /\ UNCHANGED <<cols, held>>
              /\ rows[r] = RowOf(s, b)
              /\ SetConstraintRhs(r, x) => rows' = [rows EXCEPT ![r] = RowOf(s, x)]
              /\ SetConstraintSense(r, x) => rows' = [rows EXCEPT ![r] = RowOf(x, b)]
<1>1. rows \in Seq(RowType) /\ rows[r] \in RowType /\ SenseOf(rows[r]) # "range"
  BY Lengths DEF SetConstraintRhs, SetConstraintSense
<1>2. PICK s \in Senses, b \in Rhs : rows[r] = RowOf(s, b)
  BY <1>1, RowIsOf
<1>3. SenseOf(rows[r]) = s /\ RhsOf(rows[r]) = b
  BY <1>2, RowRoundTrip
<1>4. UNCHANGED <<cols, free_variable_ids, held>>
  BY DEF SetConstraintRhs, SetConstraintSense
<1>5. ASSUME SetConstraintRhs(r, x) PROVE rows' = [rows EXCEPT ![r] = RowOf(s, x)]
  <2>1. rows' = [rows EXCEPT ![r] =
                    CASE s = "equal" -> [lower |-> x, upper |-> x]
                      [] s = "less_equal" -> [lower |-> rows[r].lower, upper |-> x]
                      [] s = "greater_equal" -> [lower |-> x, upper |-> rows[r].upper]]
    BY <1>3, <1>5 DEF SetConstraintRhs
  <2>2. s = "less_equal" \/ s = "equal" \/ s = "greater_equal"
    BY DEF Senses
  <2>3. CASE s = "equal"
    BY <2>1, <2>3 DEF RowOf
  <2>4. CASE s = "less_equal"
    BY <1>2, <2>1, <2>4 DEF RowOf
  <2>5. CASE s = "greater_equal"
    BY <1>2, <2>1, <2>5 DEF RowOf
  <2> QED BY <2>2, <2>3, <2>4, <2>5
<1>6. ASSUME SetConstraintSense(r, x) PROVE rows' = [rows EXCEPT ![r] = RowOf(x, b)]
  <2>1. CASE s = x
    <3>1. rows' = rows
      BY <1>3, <1>6, <2>1 DEF SetConstraintSense
    <3> QED BY <1>1, <1>2, <2>1, <3>1
  <2>2. CASE s # x
    BY <1>3, <1>6, <2>2 DEF SetConstraintSense
  <2> QED BY <2>1, <2>2
<1>7. PICK row \in RowType : rows' = [rows EXCEPT ![r] = row]
  BY <1>2, <1>5, <1>6, RowRoundTrip
<1>8. rows' \in Seq(RowType) /\ Len(rows') = Len(rows)
  BY <1>1, <1>7
<1>9. ColumnType' = ColumnType
  BY <1>8 DEF ColumnType
<1>10. TypeOK'
  BY <1>4, <1>8, <1>9 DEF IInv, TypeOK, ColumnType
<1>11. NoColumnLost' /\ RemovedIsNeutral'
  BY <1>4 DEF IInv, NoColumnLost, RemovedIsNeutral
<1> QED BY <1>2, <1>4, <1>5, <1>6, <1>10, <1>11 DEF IInv
----------------------------------------------------------------------------
(* The invariant *)

\* The model of the constructor has no columns, and a free list of none of them.
LEMMA InitIInv == Init => IInv
<1> SUFFICES ASSUME Init PROVE IInv
  OBVIOUS
<1>1. /\ cols = <<>> /\ rows = <<>> /\ free_variable_ids = <<>> /\ held = {}
      /\ DOMAIN cols = {} /\ DOMAIN free_variable_ids = {} /\ Len(cols) = 0
  BY DEF Init
<1>2. TypeOK
  BY <1>1, ClpBoundsAssumption DEF TypeOK
<1>3. NoColumnLost /\ RemovedIsNeutral
  BY <1>1 DEF NoColumnLost, RemovedIsNeutral
<1> QED BY <1>2, <1>3 DEF IInv

LEMMA AddConstraintDoes ==
    ASSUME IInv, NEW m \in Nat, NEW lcs \in [1..m -> Constraints],
           AddRows([r \in DOMAIN lcs |-> lcs[r].terms],
                   [r \in DOMAIN lcs |-> RowOf(lcs[r].sense, lcs[r].rhs)])
    PROVE  /\ IInv' /\ held' = held
           /\ Len(rows') = Len(rows) + m
           /\ \A r \in 1..Len(rows) : rows'[r] = rows[r]
           /\ \A r \in 1..m : rows'[Len(rows) + r] = RowOf(lcs[r].sense, lcs[r].rhs)
           /\ \A i \in held : cols'[i] =
                 WithCoefs(cols[i], WithRows(cols[i].coefs, Len(rows),
                                    [r \in 1..m |-> CoefficientOf(lcs[r].terms, i)], m))
<1> DEFINE terms == [r \in DOMAIN lcs |-> lcs[r].terms]
           bounds == [r \in DOMAIN lcs |-> RowOf(lcs[r].sense, lcs[r].rhs)]
<1>1. \A r \in 1..m : lcs[r].terms \in Exprs /\ lcs[r].sense \in Senses /\ lcs[r].rhs \in Rhs
  BY DEF Constraints
<1>2. \A r \in 1..m : RowOf(lcs[r].sense, lcs[r].rhs) \in RowType
  BY <1>1, RowRoundTrip
<1>3. terms \in [1..m -> Exprs] /\ bounds \in [1..m -> RowType]
  BY <1>1, <1>2
<1>4. \A r \in 1..m : terms[r] = lcs[r].terms /\ bounds[r] = RowOf(lcs[r].sense, lcs[r].rhs)
  OBVIOUS
<1>5. \A i : [r \in 1..m |-> CoefficientOf(terms[r], i)] = [r \in 1..m |-> CoefficientOf(lcs[r].terms, i)]
  BY <1>4
<1>6. AddRows(terms, bounds)
  OBVIOUS
<1> HIDE DEF terms, bounds
<1>7. /\ IInv' /\ held' = held /\ Len(rows') = Len(rows) + m
      /\ \A r \in 1..Len(rows) : rows'[r] = rows[r]
      /\ \A r \in 1..m : rows'[Len(rows) + r] = bounds[r]
      /\ \A i \in held : cols'[i] =
            WithCoefs(cols[i], WithRows(cols[i].coefs, Len(rows),
                               [r \in 1..m |-> CoefficientOf(terms[r], i)], m))
  BY <1>3, <1>6, AddRowsDoes, ZenonT(60)
<1>8. \A i \in held : cols'[i] =
         WithCoefs(cols[i], WithRows(cols[i].coefs, Len(rows),
                            [r \in 1..m |-> CoefficientOf(lcs[r].terms, i)], m))
  BY <1>5, <1>7
<1> QED BY <1>4, <1>7, <1>8

LEMMA AddRangedConstraintDoes ==
    ASSUME IInv, NEW t \in Exprs, NEW lb \in Rhs, NEW ub \in Rhs,
           AddRows(<<t>>, <<[lower |-> lb, upper |-> ub]>>)
    PROVE  /\ IInv' /\ held' = held
           /\ Len(rows') = Len(rows) + 1
           /\ \A r \in 1..Len(rows) : rows'[r] = rows[r]
           /\ rows'[Len(rows) + 1] = [lower |-> lb, upper |-> ub]
           /\ \A i \in held : cols'[i] =
                 WithCoefs(cols[i], WithRows(cols[i].coefs, Len(rows), <<CoefficientOf(t, i)>>, 1))
<1> DEFINE terms == <<t>>
           bounds == <<[lower |-> lb, upper |-> ub]>>
<1>1. [lower |-> lb, upper |-> ub] \in RowType
  BY DEF RowType
<1>2. terms \in [1..1 -> Exprs] /\ bounds \in [1..1 -> RowType]
  BY <1>1
<1>3. terms[1] = t /\ bounds[1] = [lower |-> lb, upper |-> ub]
  OBVIOUS
<1>4. \A i : [r \in 1..1 |-> CoefficientOf(terms[r], i)] = <<CoefficientOf(t, i)>>
  BY <1>3
<1>5. AddRows(terms, bounds) /\ 1 \in 1..1 /\ 1 \in Nat
  OBVIOUS
<1> HIDE DEF terms, bounds
<1>6. /\ IInv' /\ held' = held /\ Len(rows') = Len(rows) + 1
      /\ \A r \in 1..Len(rows) : rows'[r] = rows[r]
      /\ \A r \in 1..1 : rows'[Len(rows) + r] = bounds[r]
      /\ \A i \in held : cols'[i] =
            WithCoefs(cols[i], WithRows(cols[i].coefs, Len(rows),
                               [r \in 1..1 |-> CoefficientOf(terms[r], i)], 1))
  BY <1>2, <1>5, AddRowsDoes
<1>7. \A i \in held : cols'[i] =
         WithCoefs(cols[i], WithRows(cols[i].coefs, Len(rows), <<CoefficientOf(t, i)>>, 1))
  BY <1>4, <1>6
<1> QED BY <1>3, <1>5, <1>6, <1>7

\* add_constraint adds one row as add_constraints does.
LEMMA AddConstraintIsOne ==
    ASSUME NEW lc \in Constraints, AddConstraint(lc)
    PROVE  /\ <<lc>> \in [1..1 -> Constraints]
           /\ AddRows([r \in DOMAIN <<lc>> |-> <<lc>>[r].terms],
                      [r \in DOMAIN <<lc>> |-> RowOf(<<lc>>[r].sense, <<lc>>[r].rhs)])
<1>1. /\ [r \in DOMAIN <<lc>> |-> <<lc>>[r].terms] = <<lc.terms>>
      /\ [r \in DOMAIN <<lc>> |-> RowOf(<<lc>>[r].sense, <<lc>>[r].rhs)]
            = <<RowOf(lc.sense, lc.rhs)>>
  OBVIOUS
<1> QED BY <1>1 DEF AddConstraint

LEMMA NextIInv == IInv /\ [Next]_vars => IInv'
<1> SUFFICES ASSUME IInv, [Next]_vars PROVE IInv'
  OBVIOUS
<1>0. Zeros \in [1..Len(rows) -> Coefs]
  BY ZerosTyped
<1>1. ASSUME NEW h \in 1..MaxColumns, NEW p \in Params, AddVariable(h, p) PROVE IInv'
  BY <1>0, <1>1, AddOneDoes DEF AddVariable
<1>2. ASSUME NEW h \in 1..MaxColumns, NEW p \in Params, NEW e \in [1..Len(rows) -> Coefs],
             AddColumn(h, p, e)
      PROVE  IInv'
  BY <1>2, AddOneDoes DEF AddColumn
<1>3. ASSUME NEW p \in Params, NEW n \in 1..MaxColumns, AddVariables(n, p) PROVE IInv'
  BY <1>3, AddVariablesDoes
<1>4. ASSUME NEW doomed \in Removals, RemoveVariables(doomed) PROVE IInv'
  BY <1>4, RemoveDoes
<1>5. ASSUME NEW h \in held, NEW b \in Bounds,
             SetVariableLowerBound(h, b) \/ SetVariableUpperBound(h, b)
      PROVE  IInv'
  BY <1>5, SetterKeeps
<1>6. ASSUME NEW terms \in Exprs, SetObjective(terms) \/ AddObjective(terms) PROVE IInv'
  BY <1>6, ObjectiveKeeps
<1>7. ASSUME NEW h \in held, NEW c \in Coefs, SetObjectiveCoefficient(h, c) PROVE IInv'
  BY <1>7, SetterKeeps
<1>8. ASSUME NEW lc \in Constraints, AddConstraint(lc) PROVE IInv'
  <2>1. 1 \in Nat
    OBVIOUS
  <2> QED BY <1>8, <2>1, AddConstraintIsOne, AddConstraintDoes
<1>9. ASSUME NEW m \in 0..MaxBatch, NEW lcs \in [1..m -> Constraints], AddConstraints(lcs)
      PROVE  IInv'
  <2>1. m \in Nat
    BY ClpBoundsAssumption
  <2> QED BY <1>9, <2>1, AddConstraintDoes DEF AddConstraints
<1>10. ASSUME NEW terms \in Exprs, NEW lb \in Rhs, NEW ub \in Rhs,
              AddRangedConstraint(terms, lb, ub)
       PROVE  IInv'
  BY <1>10, AddRangedConstraintDoes DEF AddRangedConstraint
<1>11. ASSUME NEW r \in DOMAIN rows, SetterThrows(r) PROVE IInv'
  BY <1>11 DEF SetterThrows, IInv, TypeOK, NoColumnLost, RemovedIsNeutral
<1>12. ASSUME NEW r \in DOMAIN rows, NEW b \in Rhs, SetConstraintRhs(r, b) PROVE IInv'
  BY <1>12, SetRow
<1>13. ASSUME NEW r \in DOMAIN rows, NEW s \in Senses, SetConstraintSense(r, s) PROVE IInv'
  BY <1>13, SetRow
<1>14. CASE UNCHANGED vars
  BY <1>14 DEF vars, IInv, TypeOK, NoColumnLost, RemovedIsNeutral
<1> QED BY <1>1, <1>2, <1>3, <1>4, <1>5, <1>6, <1>7, <1>8, <1>9, <1>10, <1>11, <1>12, <1>13,
          <1>14 DEF Next

\* The columns that are not held are on the free list, each once, and have no cost and
\* are fixed at 0; and every column has a coefficient for every row.
THEOREM ClpInvariant == Spec => [](TypeOK /\ NoColumnLost /\ RemovedIsNeutral)
<1>1. Spec => []IInv
  BY InitIInv, NextIInv, PTL DEF Spec
<1> QED BY <1>1, PTL DEF IInv
----------------------------------------------------------------------------
(* The refinement *)

\* The refinement mapping, named.
AsVariable(col) == [obj |-> col.obj, lb |-> col.lb, ub |-> col.ub,
                    type |-> "continuous", coefs |-> col.coefs]
VariablesMap == [h \in held |-> AsVariable(cols[h])]
ConstraintsMap == [r \in DOMAIN rows |-> ConstraintOf(rows[r])]

LEMMA RowsUnchanged == rows' = rows => ConstraintsMap' = ConstraintsMap
BY DEF ConstraintsMap, ConstraintOf, SenseOf, RhsOf

LEMMA ConstraintsLen ==
    ASSUME IInv
    PROVE  /\ Len(ConstraintsMap) = Len(rows) /\ DOMAIN ConstraintsMap = DOMAIN rows
           /\ DOMAIN rows = 1..Len(rows) /\ Len(rows) \in Nat
           /\ Promise!Zeros = Zeros
<1>1. /\ Len(ConstraintsMap) = Len(rows) /\ DOMAIN ConstraintsMap = DOMAIN rows
      /\ DOMAIN rows = 1..Len(rows) /\ Len(rows) \in Nat
  BY Lengths DEF ConstraintsMap
<1>2. Promise!Zeros = Zeros
  BY <1>1 DEF Promise!Zeros, Zeros, ConstraintsMap
<1> QED BY <1>1, <1>2

\* A new column is the new variable of the interface.
LEMMA NewVariableOf ==
    ASSUME NEW p \in Params, NEW e
    PROVE  AsVariable(Column(p, e)) = Promise!NewVariable(p, e)
<1>1. p.type = "continuous"
  BY ClpDataAssumption
<1> QED BY <1>1 DEF AsVariable, Column, Promise!NewVariable

\* The variables after new ones.
LEMMA AddedVariables ==
    ASSUME NEW H, NEW p \in Params, NEW e, H \cap held = {}, held' = held \cup H, rows' = rows,
           \A h \in H : cols'[h] = Column(p, e), \A h \in held : cols'[h] = cols[h]
    PROVE  Promise!Add(H, Promise!NewVariable(p, e))
<1>1. VariablesMap' = [h \in held' |-> AsVariable(cols'[h])]
  BY DEF VariablesMap, AsVariable
<1>2. VariablesMap' = [h \in held \cup H |->
         IF h \in H THEN Promise!NewVariable(p, e) ELSE VariablesMap[h]]
  BY <1>1, NewVariableOf DEF VariablesMap
<1>3. ConstraintsMap' = ConstraintsMap
  BY RowsUnchanged
<1> QED BY <1>2, <1>3 DEF Promise!Add, Promise!Held, VariablesMap, AsVariable, ConstraintsMap

\* add_variable and add_column: a step of the interface, unless the column that is
\* recycled still has entries.
LEMMA AddOneStep ==
    ASSUME IInv, NEW h \in 1..MaxColumns, NEW p \in Params, NEW e \in [1..Len(rows) -> Coefs],
           \/ AddVariable(h, p) /\ e = Zeros
           \/ AddColumn(h, p, e)
    PROVE  Promise!Next \/ Inherits
<1>1. /\ AddOne(h, p, e)
      /\ \/ call' = <<"add_variable", h, p>> /\ e = Zeros
         \/ call' = <<"add_column", h, p, e>>
  BY DEF AddVariable, AddColumn
<1>2. /\ h \notin held /\ held' = held \cup {h} /\ rows' = rows
      /\ cols'[h] = Column(p, EntriesOf(h, e)) /\ \A i \in held : cols'[i] = cols[i]
  BY <1>1, AddOneDoes
<1>z. PICK z : z = EntriesOf(h, e)
  OBVIOUS
<1>3. Promise!Add({h}, Promise!NewVariable(p, z))
  BY <1>z, <1>2, AddedVariables
<1>4. CASE h \in DOMAIN cols /\ Entries(cols[h].coefs) # {}
  <2>1. z = Over(e, cols[h].coefs)
    BY <1>z, <1>4 DEF EntriesOf
  <2>2. Promise!Add({h}, Promise!NewVariable(p, Over(e, cols[h].coefs)))
    BY <1>3, <2>1 DEF Promise!Add, Promise!NewVariable
  <2>3. h \in DOMAIN cols \ held
    BY <1>2, <1>4
  <2> HIDE DEF Promise!Add, Promise!NewVariable
  <2> QED BY <1>1, <1>4, <2>2, <2>3 DEF Inherits
<1>5. CASE ~(h \in DOMAIN cols /\ Entries(cols[h].coefs) # {})
  <2>1. EntriesOf(h, e) = e
    <3>1. CASE h \notin DOMAIN cols
      BY <3>1 DEF EntriesOf
    <3>2. CASE h \in DOMAIN cols /\ Entries(cols[h].coefs) = {}
      <4>1. cols[h].coefs \in [1..Len(rows) -> Coefs]
        BY <3>2, Lengths DEF ColumnType
      <4> QED BY <3>2, <4>1, OverNone DEF EntriesOf
    <3> QED BY <1>5, <3>1, <3>2
  <2>2. Promise!Add({h}, Promise!NewVariable(p, e))
    BY <1>3, <1>z, <2>1, Zenon
  <2>3. CASE call' = <<"add_variable", h, p>> /\ e = Zeros
    <3>1. Promise!AddVariable(h, p)
      BY <2>2, <2>3, ConstraintsLen DEF Promise!AddVariable, Promise!Add
    <3> QED BY <3>1 DEF Promise!Next
  <2>4. CASE call' = <<"add_column", h, p, e>>
    <3>1. Promise!AddColumn(h, p, e)
      BY <2>2, <2>4 DEF Promise!AddColumn
    <3>2. e \in [1..Len(ConstraintsMap) -> Coefs]
      BY ConstraintsLen
    <3> QED BY <3>1, <3>2 DEF Promise!Next, ConstraintsMap
  <2> QED BY <1>1, <2>3, <2>4
<1> QED BY <1>4, <1>5

LEMMA AddVariablesStep ==
    ASSUME IInv, NEW p \in Params, NEW n \in 1..MaxColumns, AddVariables(n, p)
    PROVE  Promise!Next
<1>1. PICK first : first = Len(cols) + 1
  OBVIOUS
<1>2. PICK last : last = Len(cols) + n
  OBVIOUS
<1>z. PICK z : z = Zeros
  OBVIOUS
<1>3. /\ (first..last) \cap held = {} /\ held' = held \cup (first..last) /\ rows' = rows
      /\ first..last \subseteq 1..MaxColumns
      /\ \A h \in first..last : cols'[h] = Column(p, z)
      /\ \A i \in held : cols'[i] = cols[i]
  BY <1>1, <1>2, <1>z, AddVariablesDoes
<1>4. /\ call' = <<"add_variables", first, n, p>> /\ Len(cols) \in Nat
      /\ n \in Nat \ {0} /\ MaxColumns \in Nat
  BY <1>1, Lengths, ClpBoundsAssumption DEF AddVariables
<1>5. /\ first + n - 1 = last /\ last - first + 1 = n /\ first \in first..last
      /\ last \in first..last /\ first <= last
  BY <1>1, <1>2, <1>4
<1>6. Promise!Add(first..last, Promise!NewVariable(p, z))
  BY <1>3, AddedVariables
<1>7. Promise!AddVariables(first, n, p)
  BY <1>z, <1>4, <1>5, <1>6, ConstraintsLen DEF Promise!AddVariables, Promise!Add
<1>8. first \in 1..MaxColumns /\ last \in 1..MaxColumns
  BY <1>3, <1>5
<1> QED BY <1>5, <1>7, <1>8 DEF Promise!Next

LEMMA RemoveVariablesStep ==
    ASSUME IInv, NEW doomed \in Removals, RemoveVariables(doomed) PROVE Promise!Next
<1> DEFINE D == {doomed[k] : k \in DOMAIN doomed}
<1>1. /\ D \subseteq held /\ held' = held \ D /\ rows' = rows
      /\ \A i \in held \ D : cols'[i] = cols[i]
  BY RemoveDoes
<1>2. call' = <<"remove_variables", D>>
  BY DEF RemoveVariables
<1> HIDE DEF D
<1>3. VariablesMap' = [h \in held \ D |-> VariablesMap[h]]
  <2>1. VariablesMap' = [h \in held' |-> AsVariable(cols'[h])]
    BY DEF VariablesMap, AsVariable
  <2> QED BY <1>1, <2>1 DEF VariablesMap
<1>4. ConstraintsMap' = ConstraintsMap
  BY <1>1, RowsUnchanged
<1>5. Promise!RemoveVariables(D)
  BY <1>2, <1>3, <1>4 DEF Promise!RemoveVariables, Promise!Held, VariablesMap, AsVariable,
     ConstraintsMap
<1> QED BY <1>1, <1>5 DEF Promise!Next, Promise!Held
LEMMA SetterStep ==
    ASSUME IInv, NEW h \in held, NEW x,
           \/ x \in Bounds /\ (SetVariableLowerBound(h, x) \/ SetVariableUpperBound(h, x))
           \/ x \in Coefs /\ SetObjectiveCoefficient(h, x)
    PROVE  Promise!Next
<1>1. /\ rows' = rows /\ held' = held /\ DOMAIN cols' = DOMAIN cols
      /\ \A i \in DOMAIN cols \ {h} : cols'[i] = cols[i]
  BY SetterKeeps
<1>2. h \in DOMAIN cols /\ held \subseteq DOMAIN cols
  BY HeldIsColumn
<1>3. VariablesMap' = [VariablesMap EXCEPT ![h] = AsVariable(cols'[h])]
  <2>1. VariablesMap' = [i \in held |-> AsVariable(cols'[i])]
    BY <1>1 DEF VariablesMap, AsVariable
  <2> QED BY <1>1, <1>2, <2>1 DEF VariablesMap
<1>4. VariablesMap[h] = AsVariable(cols[h]) /\ Promise!Held = held
  BY DEF VariablesMap, Promise!Held
<1>5. ConstraintsMap' = ConstraintsMap
  BY <1>1, RowsUnchanged
<1>c. cols[h] \in ColumnType
  BY <1>2, Lengths
<1>6. CASE x \in Bounds /\ SetVariableLowerBound(h, x)
  <2>1. cols'[h] = [cols[h] EXCEPT !.lb = x]
    BY <1>2, <1>6 DEF SetVariableLowerBound
  <2>2. AsVariable(cols'[h]) = [AsVariable(cols[h]) EXCEPT !.lb = x]
    BY <1>c, <2>1 DEF AsVariable, ColumnType
  <2>3. VariablesMap' = [VariablesMap EXCEPT ![h].lb = x]
    BY <1>3, <1>4, <2>2
  <2>4. Promise!SetVariableLowerBound(h, x)
    BY <1>5, <1>6, <2>3 DEF Promise!SetVariableLowerBound, SetVariableLowerBound,
       VariablesMap, AsVariable, ConstraintsMap
  <2> QED BY <1>4, <1>6, <2>4 DEF Promise!Next
<1>7. CASE x \in Bounds /\ SetVariableUpperBound(h, x)
  <2>1. cols'[h] = [cols[h] EXCEPT !.ub = x]
    BY <1>2, <1>7 DEF SetVariableUpperBound
  <2>2. AsVariable(cols'[h]) = [AsVariable(cols[h]) EXCEPT !.ub = x]
    BY <1>c, <2>1 DEF AsVariable, ColumnType
  <2>3. VariablesMap' = [VariablesMap EXCEPT ![h].ub = x]
    BY <1>3, <1>4, <2>2
  <2>4. Promise!SetVariableUpperBound(h, x)
    BY <1>5, <1>7, <2>3 DEF Promise!SetVariableUpperBound, SetVariableUpperBound,
       VariablesMap, AsVariable, ConstraintsMap
  <2> QED BY <1>4, <1>7, <2>4 DEF Promise!Next
<1>8. CASE x \in Coefs /\ SetObjectiveCoefficient(h, x)
  <2>1. cols'[h] = [cols[h] EXCEPT !.obj = x]
    BY <1>2, <1>8 DEF SetObjectiveCoefficient
  <2>2. AsVariable(cols'[h]) = [AsVariable(cols[h]) EXCEPT !.obj = x]
    BY <1>c, <2>1 DEF AsVariable, ColumnType
  <2>3. VariablesMap' = [VariablesMap EXCEPT ![h].obj = x]
    BY <1>3, <1>4, <2>2
  <2>4. Promise!SetObjectiveCoefficient(h, x)
    BY <1>5, <1>8, <2>3 DEF Promise!SetObjectiveCoefficient, SetObjectiveCoefficient,
       VariablesMap, AsVariable, ConstraintsMap
  <2> QED BY <1>4, <1>8, <2>4 DEF Promise!Next
<1> QED BY <1>6, <1>7, <1>8

\* The whole objective is the held variables': the others have none.
LEMMA ObjectiveStep ==
    ASSUME IInv, NEW terms \in Exprs, SetObjective(terms) \/ AddObjective(terms)
    PROVE  Promise!Next
<1>1. rows' = rows /\ held' = held /\ held \subseteq DOMAIN cols
  BY ObjectiveKeeps, HeldIsColumn
<1>2. ConstraintsMap' = ConstraintsMap
  BY <1>1, RowsUnchanged
<1>3. VariablesMap' = [h \in held |-> AsVariable(cols'[h])]
  BY <1>1 DEF VariablesMap, AsVariable
<1>4. Promise!Held = held /\ terms \in ExpressionsOver(Promise!Held)
  BY DEF Promise!Held, Exprs
<1>5. \A h \in held : cols[h] \in ColumnType /\ VariablesMap[h] = AsVariable(cols[h])
  BY <1>1, Lengths DEF VariablesMap
<1>6. CASE SetObjective(terms)
  <2>1. ASSUME NEW h \in held
        PROVE  AsVariable(cols'[h]) = [VariablesMap[h] EXCEPT !.obj = CoefficientOf(terms, h)]
    <3>1. cols'[h] = [cols[h] EXCEPT !.obj = CoefficientOf(terms, h)]
      BY <1>1, <1>6 DEF SetObjective
    <3>2. cols[h] \in ColumnType /\ VariablesMap[h] = AsVariable(cols[h])
      BY <1>5
    <3>3. AsVariable(cols'[h]) = [AsVariable(cols[h]) EXCEPT !.obj = CoefficientOf(terms, h)]
      BY <3>1, <3>2 DEF AsVariable, ColumnType
    <3> QED BY <3>2, <3>3
  <2>2. VariablesMap' = [h \in held |-> [VariablesMap[h] EXCEPT !.obj = CoefficientOf(terms, h)]]
    BY <1>3, <2>1
  <2>3. Promise!SetObjective(terms)
    BY <1>2, <1>4, <1>6, <2>2 DEF Promise!SetObjective, SetObjective,
       VariablesMap, AsVariable, ConstraintsMap
  <2> QED BY <1>4, <2>3 DEF Promise!Next
<1>7. CASE AddObjective(terms)
  <2>1. ASSUME NEW h \in held
        PROVE  AsVariable(cols'[h]) = [VariablesMap[h] EXCEPT !.obj = @ + CoefficientOf(terms, h)]
    <3>1. cols'[h] = [cols[h] EXCEPT !.obj = cols[h].obj + CoefficientOf(terms, h)]
      BY <1>1, <1>7 DEF AddObjective
    <3>2. cols[h] \in ColumnType /\ VariablesMap[h] = AsVariable(cols[h])
      BY <1>5
    <3>3. AsVariable(cols'[h]) = [AsVariable(cols[h]) EXCEPT !.obj = @ + CoefficientOf(terms, h)]
      BY <3>1, <3>2 DEF AsVariable, ColumnType
    <3> QED BY <3>2, <3>3
  <2>2. VariablesMap' = [h \in held |-> [VariablesMap[h] EXCEPT !.obj = @ + CoefficientOf(terms, h)]]
    BY <1>3, <2>1
  <2>3. Promise!AddObjective(terms)
    BY <1>2, <1>4, <1>7, <2>2 DEF Promise!AddObjective, AddObjective,
       VariablesMap, AsVariable, ConstraintsMap
  <2> QED BY <1>4, <2>3 DEF Promise!Next
<1> QED BY <1>6, <1>7

\* The constraints after new rows.
LEMMA AppendedConstraints ==
    ASSUME IInv, IInv', NEW m \in Nat, NEW added, DOMAIN added = 1..m, added = [r \in 1..m |-> added[r]],
           Len(rows') = Len(rows) + m, \A r \in 1..Len(rows) : rows'[r] = rows[r],
           \A r \in 1..m : ConstraintOf(rows'[Len(rows) + r]) = added[r]
    PROVE  ConstraintsMap' = ConstraintsMap \o added
<1> DEFINE n == Len(rows)
           S == {ConstraintsMap[r] : r \in DOMAIN rows} \cup {added[r] : r \in 1..m}
           joined == ConstraintsMap \o added
<1>1. n \in Nat /\ DOMAIN rows = 1..n /\ Len(ConstraintsMap) = n /\ DOMAIN ConstraintsMap = 1..n
  BY ConstraintsLen
<1>2. DOMAIN rows' = 1..(n + m)
  BY LenProperties DEF IInv, TypeOK
<1>3. ConstraintsMap' = [r \in 1..(n + m) |-> ConstraintOf(rows'[r])]
  BY <1>2 DEF ConstraintsMap, ConstraintOf, SenseOf, RhsOf
<1>4. ConstraintsMap \in Seq(S) /\ added \in Seq(S) /\ Len(added) = m
  <2>1. ConstraintsMap = [r \in 1..n |-> ConstraintsMap[r]]
    BY <1>1 DEF ConstraintsMap
  <2>2. \A r \in 1..n : ConstraintsMap[r] \in S
    BY <1>1
  <2>3. \A r \in 1..m : added[r] \in S
    OBVIOUS
  <2> HIDE DEF S, n
  <2> QED BY <1>1, <2>1, <2>2, <2>3, SeqIntro
<1>5. Len(rows) = n
  OBVIOUS
<1> HIDE DEF n, S
<1>6. /\ joined \in Seq(S) /\ Len(joined) = n + m
      /\ \A r \in 1..(n + m) : joined[r] = IF r <= n THEN ConstraintsMap[r] ELSE added[r - n]
  BY <1>1, <1>4, ConcatProperties
<1> HIDE DEF joined
<1>7. joined = [r \in 1..(n + m) |-> joined[r]]
  BY <1>6, LenProperties
<1>8. ASSUME NEW r \in 1..(n + m) PROVE joined[r] = ConstraintOf(rows'[r])
  <2>1. CASE r <= n
    <3>1. r \in 1..n
      BY <1>1, <2>1
    <3>2. joined[r] = ConstraintOf(rows[r])
      BY <1>1, <1>6, <2>1, <3>1 DEF ConstraintsMap
    <3> QED BY <1>5, <3>1, <3>2
  <2>2. CASE ~(r <= n)
    <3>1. r - n \in 1..m /\ n + (r - n) = r
      BY <1>1, <2>2
    <3>2. ConstraintOf(rows'[n + (r - n)]) = added[r - n]
      BY <1>5, <3>1
    <3> QED BY <1>6, <2>2, <3>1, <3>2
  <2> QED BY <2>1, <2>2
<1> QED BY <1>3, <1>7, <1>8 DEF joined

\* The variables after new rows.
LEMMA WidenedVariables ==
    ASSUME IInv, NEW m \in Nat, NEW more, held' = held,
           \A i \in held : cols'[i] =
              WithCoefs(cols[i], WithRows(cols[i].coefs, Len(rows), more[i], m))
    PROVE  VariablesMap' = [h \in held |-> [VariablesMap[h] EXCEPT
              !.coefs = Promise!WithRows(@, Len(rows), more[h], m)]]
<1>1. VariablesMap' = [h \in held |-> AsVariable(cols'[h])]
  BY DEF VariablesMap, AsVariable
<1>2. ASSUME NEW h \in held
      PROVE  AsVariable(cols'[h]) = [VariablesMap[h] EXCEPT
                !.coefs = Promise!WithRows(@, Len(rows), more[h], m)]
  <2>1. cols[h] \in ColumnType /\ VariablesMap[h] = AsVariable(cols[h])
    BY HeldIsColumn, Lengths DEF VariablesMap
  <2> DEFINE e == WithRows(cols[h].coefs, Len(rows), more[h], m)
  <2>2. Promise!WithRows(cols[h].coefs, Len(rows), more[h], m) = e
    BY DEF Promise!WithRows, WithRows
  <2>3. cols'[h] = WithCoefs(cols[h], e)
    OBVIOUS
  <2> HIDE DEF e
  <2>4. AsVariable(WithCoefs(cols[h], e)) = [AsVariable(cols[h]) EXCEPT !.coefs = e]
    BY <2>1 DEF AsVariable, ColumnType, WithCoefs
  <2>5. AsVariable(cols[h]).coefs = cols[h].coefs
    BY DEF AsVariable
  <2> QED BY <2>1, <2>2, <2>3, <2>4, <2>5
<1> QED BY <1>1, <1>2

LEMMA AddConstraintsStep ==
    ASSUME IInv, NEW m \in 0..MaxBatch, NEW lcs \in [1..m -> Constraints],
           call' = <<"add_constraints", lcs>>,
           AddRows([r \in DOMAIN lcs |-> lcs[r].terms],
                   [r \in DOMAIN lcs |-> RowOf(lcs[r].sense, lcs[r].rhs)])
    PROVE  Promise!Next
<1> DEFINE added == [r \in DOMAIN lcs |-> [sense |-> lcs[r].sense, rhs |-> lcs[r].rhs]]
           more == [i \in held |-> [r \in DOMAIN lcs |-> CoefficientOf(lcs[r].terms, i)]]
<1>0. m \in Nat /\ DOMAIN lcs = 1..m /\ Len(lcs) = m
  BY ClpBoundsAssumption, SeqIntro
<1>a. m \in Nat
  BY <1>0
<1>b. /\ IInv' /\ held' = held
      /\ Len(rows') = Len(rows) + m
      /\ \A r \in 1..Len(rows) : rows'[r] = rows[r]
      /\ \A r \in 1..m : rows'[Len(rows) + r] = RowOf(lcs[r].sense, lcs[r].rhs)
      /\ \A i \in held : cols'[i] =
            WithCoefs(cols[i], WithRows(cols[i].coefs, Len(rows),
                               [r \in 1..m |-> CoefficientOf(lcs[r].terms, i)], m))
  BY <1>a, AddConstraintDoes
<1>c. \A i \in held : more[i] = [r \in 1..m |-> CoefficientOf(lcs[r].terms, i)]
  BY <1>0
<1> HIDE DEF more
<1>1. /\ IInv' /\ held' = held /\ Len(rows') = Len(rows) + m
      /\ \A r \in 1..Len(rows) : rows'[r] = rows[r]
      /\ \A r \in 1..m : rows'[Len(rows) + r] = RowOf(lcs[r].sense, lcs[r].rhs)
      /\ \A i \in held : cols'[i] =
            WithCoefs(cols[i], WithRows(cols[i].coefs, Len(rows), more[i], m))
  BY <1>b, <1>c
<1>2. \A r \in 1..m : ConstraintOf(RowOf(lcs[r].sense, lcs[r].rhs)) = added[r]
  <2>1. \A r \in 1..m : lcs[r].sense \in Senses /\ lcs[r].rhs \in Rhs
    BY DEF Constraints
  <2> QED BY <1>0, <2>1, RowRoundTrip
<1>3. ConstraintsMap' = ConstraintsMap \o added
  <2>1. DOMAIN added = 1..m /\ added = [r \in 1..m |-> added[r]]
    BY <1>0
  <2> HIDE DEF added
  <2> QED BY <1>0, <1>1, <1>2, <2>1, AppendedConstraints, SMTT(60)
<1>4. VariablesMap' = [h \in held |-> [VariablesMap[h] EXCEPT
         !.coefs = Promise!WithRows(@, Len(ConstraintsMap),
                      [r \in DOMAIN lcs |-> CoefficientOf(lcs[r].terms, h)], Len(lcs))]]
  <2>1. \A h \in held : more[h] = [r \in DOMAIN lcs |-> CoefficientOf(lcs[r].terms, h)]
    BY DEF more
  <2>2. VariablesMap' = [h \in held |-> [VariablesMap[h] EXCEPT
           !.coefs = Promise!WithRows(@, Len(rows), more[h], m)]]
    BY <1>0, <1>1, WidenedVariables
  <2>3. Len(ConstraintsMap) = Len(rows)
    BY ConstraintsLen
  <2> QED BY <1>0, <2>1, <2>2, <2>3
<1>5. Promise!AddConstraints(lcs)
  BY <1>3, <1>4 DEF Promise!AddConstraints, Promise!Held, VariablesMap, AsVariable, ConstraintsMap
<1>6. lcs \in [1..m -> Promise!Rows]
  BY DEF Constraints, Promise!Rows, Promise!Held, Promise!Senses, Senses, Exprs
<1> QED BY <1>5, <1>6 DEF Promise!Next

LEMMA AddRangedConstraintStep ==
    ASSUME IInv, NEW t \in Exprs, NEW lb \in Rhs, NEW ub \in Rhs, AddRangedConstraint(t, lb, ub)
    PROVE  Promise!Next
<1> DEFINE new == ConstraintOf([lower |-> lb, upper |-> ub])
           more == [i \in held |-> <<CoefficientOf(t, i)>>]
<1>1. /\ IInv' /\ held' = held /\ Len(rows') = Len(rows) + 1
      /\ \A r \in 1..Len(rows) : rows'[r] = rows[r]
      /\ rows'[Len(rows) + 1] = [lower |-> lb, upper |-> ub]
      /\ \A i \in held : cols'[i] =
            WithCoefs(cols[i], WithRows(cols[i].coefs, Len(rows), more[i], 1))
  BY AddRangedConstraintDoes DEF AddRangedConstraint
<1>2. ConstraintsMap' = ConstraintsMap \o <<new>>
  <2>1. <<new>>[1] = new /\ DOMAIN <<new>> = 1..1 /\ <<new>> = [r \in 1..1 |-> <<new>>[r]]
    OBVIOUS
  <2>2. \A r \in 1..1 : ConstraintOf(rows'[Len(rows) + r]) = <<new>>[r]
    BY <1>1, <2>1
  <2>3. 1 \in Nat
    OBVIOUS
  <2> HIDE DEF new
  <2> QED BY <1>1, <2>1, <2>2, <2>3, AppendedConstraints
<1>3. ConstraintsMap \o <<new>> = Append(ConstraintsMap, new)
  OBVIOUS
<1>4. VariablesMap' = [h \in held |-> [VariablesMap[h] EXCEPT
         !.coefs = Promise!WithRows(@, Len(ConstraintsMap), <<CoefficientOf(t, h)>>, 1)]]
  <2>1. (\A h \in held : more[h] = <<CoefficientOf(t, h)>>) /\ 1 \in Nat
    OBVIOUS
  <2> HIDE DEF more
  <2>2. VariablesMap' = [h \in held |-> [VariablesMap[h] EXCEPT
           !.coefs = Promise!WithRows(@, Len(rows), more[h], 1)]]
    BY <2>1, <1>1, WidenedVariables
  <2>3. Len(ConstraintsMap) = Len(rows)
    BY ConstraintsLen
  <2> QED BY <2>1, <2>2, <2>3
<1>5. new = IF lb = ub THEN [sense |-> "equal", rhs |-> ub]
            ELSE [sense |-> "range", rhs |-> <<lb, ub>>]
  BY RangeRoundTrip
<1>6. call' = <<"add_ranged_constraint", t, lb, ub>>
  BY DEF AddRangedConstraint
<1> HIDE DEF new
<1>7. Promise!AddRangedConstraint(t, lb, ub)
  BY <1>2, <1>3, <1>4, <1>5, <1>6 DEF Promise!AddRangedConstraint, Promise!Held,
     VariablesMap, AsVariable, ConstraintsMap
<1>8. t \in ExpressionsOver(Promise!Held)
  BY DEF Promise!Held, Exprs
<1> QED BY <1>7, <1>8 DEF Promise!Next

\* set_constraint_rhs and set_constraint_sense, read back through the bounds of the row.
LEMMA SetConstraintStep ==
    ASSUME IInv, NEW r \in DOMAIN rows, NEW x,
           \/ x \in Rhs /\ SetConstraintRhs(r, x)
           \/ x \in Senses /\ SetConstraintSense(r, x)
    PROVE  Promise!Next
<1>1. PICK s \in Senses, b \in Rhs :
         /\ IInv' /\ UNCHANGED <<cols, held>>
         /\ rows[r] = RowOf(s, b)
         /\ SetConstraintRhs(r, x) => rows' = [rows EXCEPT ![r] = RowOf(s, x)]
         /\ SetConstraintSense(r, x) => rows' = [rows EXCEPT ![r] = RowOf(x, b)]
  BY SetRow
<1>2. VariablesMap' = VariablesMap
  BY <1>1 DEF VariablesMap, AsVariable
<1>3. DOMAIN ConstraintsMap = DOMAIN rows
  BY ConstraintsLen
<1>4. ConstraintsMap[r] = [sense |-> s, rhs |-> b] /\ ConstraintsMap[r].sense # "range"
  <2>1. ConstraintsMap[r] = [sense |-> s, rhs |-> b]
    BY <1>1, RowRoundTrip DEF ConstraintsMap
  <2> QED BY <2>1 DEF Senses
<1>5. ASSUME NEW row, rows' = [rows EXCEPT ![r] = row]
      PROVE  ConstraintsMap' = [ConstraintsMap EXCEPT ![r] = ConstraintOf(row)]
  <2>1. ConstraintsMap' = [q \in DOMAIN rows' |-> ConstraintOf(rows'[q])]
    BY DEF ConstraintsMap, ConstraintOf, SenseOf, RhsOf
  <2> QED BY <1>5, <2>1 DEF ConstraintsMap
<1>6. CASE x \in Rhs /\ SetConstraintRhs(r, x)
  <2>1. ConstraintsMap' = [ConstraintsMap EXCEPT ![r] = [sense |-> s, rhs |-> x]]
    BY <1>1, <1>5, <1>6, RowRoundTrip
  <2>2. [ConstraintsMap[r] EXCEPT !.rhs = x] = [sense |-> s, rhs |-> x]
    BY <1>4
  <2>3. ConstraintsMap' = [ConstraintsMap EXCEPT ![r].rhs = x]
    BY <2>1, <2>2
  <2>4. Promise!SetConstraintRhs(r, x)
    BY <1>2, <1>4, <1>6, <2>3 DEF Promise!SetConstraintRhs, SetConstraintRhs,
       VariablesMap, AsVariable, ConstraintsMap
  <2> QED BY <1>3, <1>6, <2>4 DEF Promise!Next, ConstraintsMap
<1>7. CASE x \in Senses /\ SetConstraintSense(r, x)
  <2>1. ConstraintsMap' = [ConstraintsMap EXCEPT ![r] = [sense |-> x, rhs |-> b]]
    BY <1>1, <1>5, <1>7, RowRoundTrip
  <2>2. [ConstraintsMap[r] EXCEPT !.sense = x] = [sense |-> x, rhs |-> b]
    BY <1>4
  <2>3. ConstraintsMap' = [ConstraintsMap EXCEPT ![r].sense = x]
    BY <2>1, <2>2
  <2>4. Promise!SetConstraintSense(r, x)
    BY <1>2, <1>4, <1>7, <2>3 DEF Promise!SetConstraintSense, SetConstraintSense,
       VariablesMap, AsVariable, ConstraintsMap
  <2> QED BY <1>3, <1>7, <2>4 DEF Promise!Next, ConstraintsMap, Promise!Senses, Senses
<1> QED BY <1>6, <1>7

\* A setter that throws on a range shows the client nothing else.
LEMMA SetterThrowsStep ==
    ASSUME NEW r \in DOMAIN rows, SetterThrows(r) PROVE Promise!Next
<1>1. UNCHANGED <<cols, rows, held>> /\ call' = <<"rejected">>
  BY DEF SetterThrows
<1>2. VariablesMap' = VariablesMap /\ ConstraintsMap' = ConstraintsMap
  BY <1>1, RowsUnchanged DEF VariablesMap, AsVariable
<1>3. Promise!Rejected
  BY <1>1, <1>2 DEF Promise!Rejected, VariablesMap, AsVariable, ConstraintsMap
<1> QED BY <1>3 DEF Promise!Next

\* The empty model is the empty promise.
LEMMA PromiseInit == Init => Promise!Init
<1> SUFFICES ASSUME Init PROVE Promise!Init
  OBVIOUS
<1>1. held = {} /\ rows = <<>> /\ DOMAIN rows = {} /\ call = <<"init">>
  BY DEF Init
<1> QED BY <1>1 DEF Promise!Init

\* Every step of the model is a step of the interface, or the new variable inherits.
LEMMA PromiseNext == IInv /\ [Next]_vars => [Promise!Next \/ Inherits]_(Promise!vars)
<1> SUFFICES ASSUME IInv, [Next]_vars PROVE [Promise!Next \/ Inherits]_(Promise!vars)
  OBVIOUS
<1>1. CASE UNCHANGED vars
  <2>1. VariablesMap' = VariablesMap /\ ConstraintsMap' = ConstraintsMap /\ call' = call
    BY <1>1, RowsUnchanged DEF vars, VariablesMap, AsVariable
  <2> QED BY <2>1 DEF Promise!vars, VariablesMap, AsVariable, ConstraintsMap
<1>2. CASE Next
  <2>1. ASSUME NEW h \in 1..MaxColumns, NEW p \in Params, AddVariable(h, p)
        PROVE  Promise!Next \/ Inherits
    <3>1. PICK e \in [1..Len(rows) -> Coefs] : e = Zeros
      BY ZerosTyped
    <3> QED BY <2>1, <3>1, AddOneStep
  <2>2. ASSUME NEW h \in 1..MaxColumns, NEW p \in Params, NEW e \in [1..Len(rows) -> Coefs],
               AddColumn(h, p, e)
        PROVE  Promise!Next \/ Inherits
    BY <2>2, AddOneStep
  <2>3. ASSUME NEW p \in Params, NEW n \in 1..MaxColumns, AddVariables(n, p) PROVE Promise!Next
    BY <2>3, AddVariablesStep
  <2>4. ASSUME NEW doomed \in Removals, RemoveVariables(doomed) PROVE Promise!Next
    BY <2>4, RemoveVariablesStep
  <2>5. ASSUME NEW h \in held, NEW b \in Bounds,
               SetVariableLowerBound(h, b) \/ SetVariableUpperBound(h, b)
        PROVE  Promise!Next
    BY <2>5, SetterStep
  <2>6. ASSUME NEW terms \in Exprs, SetObjective(terms) \/ AddObjective(terms) PROVE Promise!Next
    BY <2>6, ObjectiveStep
  <2>7. ASSUME NEW h \in held, NEW c \in Coefs, SetObjectiveCoefficient(h, c) PROVE Promise!Next
    BY <2>7, SetterStep
  <2>8. ASSUME NEW lc \in Constraints, AddConstraint(lc) PROVE Promise!Next
    <3>1. 1 \in 0..MaxBatch
      BY ClpBoundsAssumption
    <3>2. call' = <<"add_constraints", <<lc>>>>
      BY <2>8 DEF AddConstraint
    <3> QED BY <2>8, <3>1, <3>2, AddConstraintIsOne, AddConstraintsStep
  <2>9. ASSUME NEW m \in 0..MaxBatch, NEW lcs \in [1..m -> Constraints], AddConstraints(lcs)
        PROVE  Promise!Next
    BY <2>9, AddConstraintsStep DEF AddConstraints
  <2>10. ASSUME NEW t \in Exprs, NEW lb \in Rhs, NEW ub \in Rhs, AddRangedConstraint(t, lb, ub)
         PROVE  Promise!Next
    BY <2>10, AddRangedConstraintStep
  <2>11. ASSUME NEW r \in DOMAIN rows, SetterThrows(r) PROVE Promise!Next
    BY <2>11, SetterThrowsStep
  <2>12. ASSUME NEW r \in DOMAIN rows, NEW b \in Rhs, SetConstraintRhs(r, b) PROVE Promise!Next
    BY <2>12, SetConstraintStep
  <2>13. ASSUME NEW r \in DOMAIN rows, NEW s \in Senses, SetConstraintSense(r, s)
         PROVE  Promise!Next
    BY <2>13, SetConstraintStep
  <2>14. Promise!Next \/ Inherits
    BY <1>2, <2>1, <2>2, <2>3, <2>4, <2>5, <2>6, <2>7, <2>8, <2>9, <2>10, <2>11, <2>12, <2>13
       DEF Next
  <2> QED BY <2>14
<1> QED BY <1>1, <1>2

\* clp_lp implements the interface, for any history of calls: a column that is handed
\* out again carries neither cost nor bound of the variable it was taken from, and of its
\* entries only those that the removal passed over.
THEOREM ClpKeepsPromise == Spec => KeepsPromise
<1>1. Spec => []IInv
  BY InitIInv, NextIInv, PTL DEF Spec
<1>2. Spec => Promise!Init /\ [][Promise!Next \/ Inherits]_(Promise!vars)
  BY <1>1, PromiseInit, PromiseNext, PTL DEF Spec
<1> QED BY <1>2 DEF KeepsPromise
----------------------------------------------------------------------------
(* Induction and recursion on the numbers up to n.  The set T is what      *)
(* induction is about.                                                     *)

LEMMA Upward ==
    ASSUME NEW n \in Nat, NEW T, 0 \in T, \A k \in 1..n : k - 1 \in T => k \in T
    PROVE  \A k \in 0..n : k \in T
<1> DEFINE Missed == (0..n) \ T
<1>1. SUFFICES ASSUME Missed # {} PROVE FALSE
  OBVIOUS
<1>2. Missed \subseteq Nat
  OBVIOUS
<1> HIDE DEF Missed
<1>3. PICK k \in Missed : \A j \in Missed : ~(<<j, k>> \in OpToRel(<, Nat))
  BY <1>1, <1>2, WFMin, NatLessThanWellFounded
<1>4. k \in 1..n /\ k - 1 \in 0..n /\ k \notin T
  BY DEF Missed
<1>5. k - 1 \in Missed
  BY <1>4 DEF Missed
<1>6. <<k - 1, k>> \in Nat \X Nat /\ <<k - 1, k>>[1] < <<k - 1, k>>[2]
  BY <1>2, <1>4, <1>5
<1> QED BY <1>3, <1>5, <1>6 DEF OpToRel

Steps(G, S, n) == G \in [S \X (1..n) -> S]

\* A function can be defined from each number to the next.
LEMMA Recursion ==
    ASSUME NEW n \in Nat, NEW S, NEW a \in S, NEW G, Steps(G, S, n)
    PROVE  \E f \in [0..n -> S] : f[0] = a /\ \A k \in 1..n : f[k] = G[<<f[k - 1], k>>]
<1>0. \A x \in S, k \in 1..n : G[<<x, k>>] \in S
  BY DEF Steps
<1> DEFINE Upto(m, f) == f \in [0..m -> S] /\ f[0] = a /\ \A k \in 1..m : f[k] = G[<<f[k - 1], k>>]
           T == {m \in 0..n : \E f : Upto(m, f)}
<1>1. 0 \in T
  <2> DEFINE g == [k \in 0..0 |-> a]
  <2>1. Upto(0, g)
    OBVIOUS
  <2> HIDE DEF g
  <2> HIDE DEF Upto
  <2> QED BY <2>1
<1>2. ASSUME NEW m \in 1..n, m - 1 \in T PROVE m \in T
  <2>1. PICK f : Upto(m - 1, f)
    BY <1>2
  <2> DEFINE g == [k \in 0..m |-> IF k = m THEN G[<<f[m - 1], m>>] ELSE f[k]]
  <2>0. m \in Nat /\ m - 1 \in 0..m /\ m - 1 # m
    OBVIOUS
  <2>2. f[m - 1] \in S /\ G[<<f[m - 1], m>>] \in S
    BY <1>0, <2>1
  <2>3. g \in [0..m -> S] /\ g[0] = a
    BY <2>1, <2>2
  <2>4. ASSUME NEW k \in 1..m PROVE g[k] = G[<<g[k - 1], k>>]
    <3>1. g[m] = G[<<f[m - 1], m>>] /\ g[m - 1] = f[m - 1]
      BY <2>0
    <3>2. CASE k # m
      <4>1. k \in 1..(m - 1) /\ k \in 0..m /\ k - 1 \in 0..m /\ k - 1 # m
        BY <2>0, <3>2
      <4>2. g[k] = f[k] /\ g[k - 1] = f[k - 1]
        BY <3>2, <4>1
      <4>3. f[k] = G[<<f[k - 1], k>>]
        BY <2>1, <4>1
      <4> QED BY <4>2, <4>3
    <3> HIDE DEF g
    <3> QED BY <3>1, <3>2
  <2> HIDE DEF g
  <2>5. Upto(m, g)
    BY <2>3, <2>4
  <2> HIDE DEF Upto
  <2> QED BY <2>5
<1> HIDE DEF T
<1>3. n \in T
  BY <1>1, <1>2, Upward
<1> QED BY <1>3 DEF T

----------------------------------------------------------------------------
(* The rows that Clp is handed.  What is in the vectors after a row stays  *)
(* in front of what the rows behind it add, by induction over the rows.    *)

Term == [var : RowVars, coef : RowCoefs]

\* The rows of a call, and the vectors after each of them.
RowsOf(rs, n) == n \in Nat /\ rs \in [1..n -> Seq(Term)]

LEMMA PassedFilled ==
    ASSUME NEW n, NEW rs, RowsOf(rs, n)
    PROVE  /\ Passed!Filled(rs) \in [0..n -> Seq(Term)]
           /\ \A k \in 1..n : Passed!Filled(rs)[k] = Passed!Filled(rs)[k - 1] \o rs[k]
<1> DEFINE S == Seq(Term)
           G == [p \in S \X (1..n) |-> p[1] \o rs[p[2]]]
           after == Passed!Filled(rs)
<1>0. n \in Nat /\ Len(rs) = n
  BY DEF RowsOf
<1>1. Steps(G, S, n) /\ <<>> \in S
  <2>1. \A p \in S \X (1..n) : p[1] \o rs[p[2]] \in S
    BY DEF RowsOf
  <2> QED BY <2>1 DEF Steps
<1>2. PICK f \in [0..n -> S] : f[0] = <<>> /\ \A k \in 1..n : f[k] = G[<<f[k - 1], k>>]
  <2> HIDE DEF G, S
  <2> QED BY <1>0, <1>1, Recursion
<1>3. f = [k \in 0..n |-> IF k = 0 THEN <<>> ELSE f[k - 1] \o rs[k]]
  <2>1. ASSUME NEW k \in 0..n PROVE f[k] = IF k = 0 THEN <<>> ELSE f[k - 1] \o rs[k]
    <3>1. CASE k # 0
      <4>1. k \in 1..n /\ k - 1 \in 0..n
        BY <1>0, <3>1
      <4>2. <<f[k - 1], k>> \in S \X (1..n)
        BY <4>1
      <4>3. G[<<f[k - 1], k>>] = f[k - 1] \o rs[k]
        BY <4>2
      <4> HIDE DEF G
      <4> QED BY <1>2, <3>1, <4>1, <4>3
    <3> QED BY <1>2, <3>1
  <2> QED BY <1>2, <2>1
<1>4. after = CHOOSE g : g = [k \in 0..n |-> IF k = 0 THEN <<>> ELSE g[k - 1] \o rs[k]]
  BY <1>0 DEF Passed!Filled
<1>5. after = [k \in 0..n |-> IF k = 0 THEN <<>> ELSE after[k - 1] \o rs[k]]
  <2> HIDE DEF after
  <2> QED BY <1>3, <1>4
<1> HIDE DEF after
<1> HIDE DEF S, G
<1>6. after[0] = <<>> /\ \A k \in 1..n : after[k] = after[k - 1] \o rs[k]
  <2>1. 0 \in 0..n /\ \A k \in 1..n : k \in 0..n /\ k # 0
    BY <1>0
  <2> DEFINE H(k) == IF k = 0 THEN <<>> ELSE after[k - 1] \o rs[k]
  <2>2. after = [k \in 0..n |-> H(k)]
    BY <1>5
  <2>3. \A k \in 1..n : H(k) = after[k - 1] \o rs[k]
    BY <2>1
  <2>4. H(0) = <<>>
    OBVIOUS
  <2> HIDE DEF H
  <2> QED BY <2>1, <2>2, <2>3, <2>4
<1>7. \A k \in 0..n : after[k] \in S
  <2> DEFINE T == {k \in 0..n : after[k] \in S}
  <2>1. 0 \in T
    BY <1>0, <1>1, <1>6
  <2>2. ASSUME NEW k \in 1..n, k - 1 \in T PROVE k \in T
    <3>1. after[k - 1] \in Seq(Term) /\ rs[k] \in Seq(Term) /\ k \in 0..n
      BY <1>0, <2>2 DEF RowsOf, S
    <3>2. after[k - 1] \o rs[k] \in Seq(Term)
      BY <3>1
    <3> QED BY <1>6, <3>1, <3>2 DEF S
  <2> HIDE DEF T
  <2>3. \A k \in 0..n : k \in T
    BY <1>0, <2>1, <2>2, Upward
  <2> QED BY <2>3 DEF T
<1>8. after \in [0..n -> S]
  BY <1>5, <1>7
<1> QED BY <1>6, <1>8 DEF after, S

Joined(s, t, u) == u = s \o t /\ s \in Seq(Term) /\ t \in Seq(Term)

LEMMA Behind ==
    ASSUME NEW s, NEW t, NEW u, Joined(s, t, u)
    PROVE  /\ Len(s) \in Nat /\ Len(t) \in Nat /\ Len(u) = Len(s) + Len(t)
           /\ \A i \in 1..Len(s) : u[i] = s[i]
           /\ \A i \in 1..Len(t) : u[Len(s) + i] = t[i]
<1>1. PICK m \in Nat, n \in Nat : Len(s) = m /\ Len(t) = n
  BY DEF Joined
<1>2. /\ Len(s \o t) = m + n
      /\ \A i \in 1..(m + n) : (s \o t)[i] = IF i <= m THEN s[i] ELSE t[i - m]
  BY <1>1, ConcatProperties DEF Joined
<1>3. ASSUME NEW i \in 1..n PROVE (s \o t)[m + i] = t[i]
  <2>1. m + i \in 1..(m + n) /\ ~(m + i <= m) /\ (m + i) - m = i
    OBVIOUS
  <2>2. (s \o t)[m + i] = t[(m + i) - m]
    BY <1>2, <2>1
  <2> QED BY <2>1, <2>2
<1>4. ASSUME NEW i \in 1..m PROVE (s \o t)[i] = s[i]
  BY <1>2
<1>5. u = s \o t
  BY DEF Joined
<1> QED BY <1>1, <1>2, <1>3, <1>4, <1>5

\* Row r is where it was written, whatever comes behind it.
LEMMA PassedRow ==
    ASSUME NEW n, NEW rs, RowsOf(rs, n), NEW r \in 1..n
    PROVE  /\ Len(Passed!Filled(rs)[r - 1]) \in Nat
           /\ Len(Passed!Filled(rs)[r]) = Len(Passed!Filled(rs)[r - 1]) + Len(rs[r])
           /\ SubSeq(Passed!Filled(rs)[n], Len(Passed!Filled(rs)[r - 1]) + 1, Len(Passed!Filled(rs)[r])) = rs[r]
<1> DEFINE J == Passed!Filled(rs)
           a == Len(J[r - 1])
           b == Len(J[r])
           Before(k) == b <= Len(J[k]) /\ \A i \in 1..b : J[k][i] = J[r][i]
           T == {k \in 0..n : k < r} \cup {k \in 0..n : Before(k)}
<1>0. n \in Nat /\ r - 1 \in 0..n /\ r \in 0..n /\ rs[r] \in Seq(Term)
  BY DEF RowsOf
<1>1. J \in [0..n -> Seq(Term)] /\ \A k \in 1..n : J[k] = J[k - 1] \o rs[k]
  BY PassedFilled
<1> HIDE DEF J
<1>2. a \in Nat /\ b = a + Len(rs[r]) /\ \A i \in 1..Len(rs[r]) : J[r][a + i] = rs[r][i]
  <2>1. Joined(J[r - 1], rs[r], J[r])
    BY <1>0, <1>1 DEF Joined
  <2>2. /\ Len(J[r - 1]) \in Nat /\ Len(J[r]) = Len(J[r - 1]) + Len(rs[r])
        /\ \A i \in 1..Len(rs[r]) : J[r][Len(J[r - 1]) + i] = rs[r][i]
    <3> HIDE DEF a, b, T, Before
    <3>1. PICK s, t, u : s = J[r - 1] /\ t = rs[r] /\ u = J[r]
      OBVIOUS
    <3>2. Joined(s, t, u)
      BY <2>1, <3>1
    <3>3. Len(s) \in Nat /\ Len(u) = Len(s) + Len(t) /\ \A i \in 1..Len(t) : u[Len(s) + i] = t[i]
      BY <3>2, Behind
    <3> QED BY <3>1, <3>3
  <2> QED BY <2>2
<1> HIDE DEF a, b
<1>3. 0 \in T
  <2>1. 0 \in 0..n /\ 0 < r
    BY <1>0
  <2> QED BY <2>1
<1>a. ASSUME NEW k \in 0..n PROVE k \in T <=> k < r \/ Before(k)
  OBVIOUS
<1> HIDE DEF T, Before
<1>4. ASSUME NEW k \in 1..n, k - 1 \in T PROVE k \in T
  <2>1. k \in 0..n /\ k - 1 \in 0..n /\ J[k - 1] \in Seq(Term) /\ rs[k] \in Seq(Term)
    BY <1>0, <1>1 DEF RowsOf
  <2>2. CASE r <= k - 1
    <3>1. Before(k - 1) /\ Len(J[k - 1]) \in Nat /\ b \in Nat
      BY <1>0, <1>2, <1>4, <1>a, <2>1, <2>2
    <3>2. Joined(J[k - 1], rs[k], J[k])
      BY <1>1, <2>1 DEF Joined
    <3>3. /\ Len(J[k]) = Len(J[k - 1]) + Len(rs[k]) /\ Len(rs[k]) \in Nat
          /\ \A i \in 1..Len(J[k - 1]) : J[k][i] = J[k - 1][i]
      <4>1. PICK s, t, u : s = J[k - 1] /\ t = rs[k] /\ u = J[k]
        OBVIOUS
      <4>2. Joined(s, t, u)
        BY <3>2, <4>1
      <4>3. Len(u) = Len(s) + Len(t) /\ Len(t) \in Nat /\ \A i \in 1..Len(s) : u[i] = s[i]
        BY <4>2, Behind
      <4> QED BY <4>1, <4>3
    <3>4. Before(k)
      <4>1. b <= Len(J[k])
        <5>1. PICK x, y, z : x = Len(J[k - 1]) /\ y = Len(J[k]) /\ z = Len(rs[k])
          OBVIOUS
        <5>2. x \in Nat /\ z \in Nat /\ y = x + z /\ b \in Nat
          BY <3>1, <3>3, <5>1
        <5>3. b <= x
          BY <3>1, <5>1 DEF Before
        <5>4. b <= y
          BY <5>2, <5>3
        <5> QED BY <5>1, <5>4
      <4>2. ASSUME NEW i \in 1..b PROVE J[k][i] = J[r][i]
        <5>1. i \in 1..Len(J[k - 1])
          BY <3>1 DEF Before
        <5> QED BY <3>1, <3>3, <5>1 DEF Before
      <4> QED BY <4>1, <4>2 DEF Before
    <3> QED BY <1>a, <2>1, <3>4
  <2>3. CASE ~(r <= k - 1)
    <3>1. k < r \/ r = k
      BY <1>0, <2>3
    <3>2. b = Len(J[r]) /\ b \in Nat
      BY <1>0, <1>2 DEF b
    <3>3. r = k => Before(k)
      BY <3>2 DEF Before
    <3> QED BY <1>a, <2>1, <3>1, <3>3
  <2> QED BY <2>2, <2>3
<1>5. n \in T
  <2>1. \A k \in 0..n : k \in T
    BY <1>0, <1>3, <1>4, Upward
  <2> QED BY <1>0, <2>1
<1>6. Before(n)
  BY <1>0, <1>5, <1>a
<1>7. J[n] \in Seq(Term) /\ n \in 0..n
  BY <1>0, <1>1
<1>8. \A i \in 1..Len(rs[r]) : J[n][a + i] = rs[r][i]
  BY <1>0, <1>2, <1>6 DEF Before
<1> DEFINE s == SubSeq(J[n], a + 1, b)
<1>9. s \in Seq(Term) /\ Len(s) = Len(rs[r]) /\ \A i \in 1..Len(rs[r]) : s[i] = J[n][a + i]
  <2>1. a + 1 \in Int /\ b \in Int /\ Len(J[n]) \in Nat /\ b <= Len(J[n])
    BY <1>0, <1>2, <1>6, <1>7 DEF Before
  <2>2. \A i \in (a + 1)..b : J[n][i] \in Term
    BY <1>2, <1>7, <2>1
  <2>3. /\ s \in Seq(Term) /\ Len(s) = (IF a + 1 <= b THEN b - (a + 1) + 1 ELSE 0)
        /\ \A i \in 1..(b - (a + 1) + 1) : s[i] = J[n][a + 1 + i - 1]
    BY <2>1, <2>2, SubSeqProperties
  <2>4. Len(rs[r]) \in Nat
    BY <1>0
  <2> HIDE DEF s
  <2> QED BY <1>2, <2>3, <2>4
<1> HIDE DEF s
<1>10. s = rs[r]
  BY <1>0, <1>8, <1>9
<1> QED BY <1>2, <1>10 DEF s, a, b, J

\* Clp makes of the vectors the rows of the client.
RowsHandedOver ==
    /\ Len(starts) = Len(written) + 1
    /\ \A r \in DOMAIN written : Passed!Row(r) = written[r]

LEMMA OneRowHandedOver == ASSUME NEW t \in Passed!Exprs, Passed!AddConstraint(t) PROVE RowsHandedOver'
<1>1. t \in Seq(Term)
  <2>1. PICK k \in 0..MaxTerms : t \in [1..k -> Term]
    BY DEF Passed!Exprs, Passed!Expressions, Term
  <2> QED BY <2>1, ClpBoundsAssumption, SeqDef
<1>2. written' = <<t>> /\ entries' = t /\ starts' = <<0, Len(t)>>
  BY DEF Passed!AddConstraint
<1>3. SubSeq(t, 1, Len(t)) = t
  BY <1>1, SubSeqFull
<1>4. Passed!Row(1)' = t
  BY <1>2, <1>3 DEF Passed!Row
<1>5. Len(starts') = 2 /\ Len(written') = 1 /\ DOMAIN written' = {1} /\ written'[1] = t
  BY <1>2
<1> QED BY <1>4, <1>5 DEF RowsHandedOver

LEMMA RowsOfCall ==
    ASSUME NEW m \in 0..MaxCallRows, NEW rs \in [1..m -> Passed!Exprs], Passed!AddConstraints(rs)
    PROVE  RowsHandedOver'
<1> DEFINE J == Passed!Filled(rs)
<1>1. m \in Nat /\ RowsOf(rs, m) /\ Len(rs) = m /\ DOMAIN rs = 1..m
  <2>1. \A t \in Passed!Exprs : t \in Seq(Term)
    <3>1. ASSUME NEW t \in Passed!Exprs PROVE t \in Seq(Term)
      <4>1. PICK k \in 0..MaxTerms : t \in [1..k -> Term]
        BY DEF Passed!Exprs, Passed!Expressions, Term
      <4> QED BY <4>1, ClpBoundsAssumption, SeqDef
    <3> QED BY <3>1
  <2> QED BY <2>1, CallRowsAssumption DEF RowsOf
<1>2. /\ written' = rs /\ entries' = J[m]
      /\ starts' = Append([r \in 1..m |-> Len(J[r - 1])], Len(J[m]))
  BY <1>1 DEF Passed!AddConstraints, Passed!Registered
<1>3. J \in [0..m -> Seq(Term)]
  BY <1>1, PassedFilled
<1> HIDE DEF J
<1>4. \A k \in 0..m : Len(J[k]) \in Nat
  BY <1>1, <1>3
<1>5. /\ Len(starts') = m + 1
      /\ \A r \in 1..(m + 1) : starts'[r] = Len(J[r - 1])
  <2> DEFINE begins == [r \in 1..m |-> Len(J[r - 1])]
  <2>1. \A r \in 1..m : r - 1 \in 0..m
    BY <1>1
  <2>2. begins \in [1..m -> Nat]
    BY <1>4, <2>1
  <2>3. begins \in Seq(Nat) /\ Len(begins) = m /\ \A r \in 1..m : begins[r] = Len(J[r - 1])
    BY <1>1, <2>2, SeqDef
  <2>4. Len(J[m]) \in Nat /\ (m + 1) - 1 = m
    BY <1>1, <1>4
  <2> HIDE DEF begins
  <2>5. /\ Len(Append(begins, Len(J[m]))) = m + 1 /\ Append(begins, Len(J[m]))[m + 1] = Len(J[m])
        /\ \A r \in 1..m : Append(begins, Len(J[m]))[r] = begins[r]
    BY <1>1, <2>3, <2>4
  <2>6. starts' = Append(begins, Len(J[m]))
    BY <1>2 DEF begins
  <2> QED BY <1>1, <2>3, <2>4, <2>5, <2>6
<1>6. ASSUME NEW r \in 1..m PROVE Passed!Row(r)' = rs[r]
  <2>1. starts'[r] = Len(J[r - 1]) /\ starts'[r + 1] = Len(J[r])
    BY <1>1, <1>5
  <2>2. SubSeq(J[m], Len(J[r - 1]) + 1, Len(J[r])) = rs[r]
    BY <1>1, PassedRow DEF J
  <2> QED BY <1>2, <2>1, <2>2 DEF Passed!Row
<1> QED BY <1>1, <1>2, <1>5, <1>6 DEF RowsHandedOver

\* Whatever an earlier call left in the vectors, Clp makes of the rows what the client
\* wrote: what a row gives to a variable is what its terms add up to.
THEOREM RowsAlwaysAddUp == MCSpec => []RowsAddUp
<1>1. MCInit => RowsHandedOver
  BY DEF MCInit, Passed!Init, RowsHandedOver
<1>2. RowsHandedOver /\ [MCNext]_<<vars, part, passed>> => RowsHandedOver'
  <2> SUFFICES ASSUME RowsHandedOver, [MCNext]_<<vars, part, passed>> PROVE RowsHandedOver'
    OBVIOUS
  <2>1. CASE UNCHANGED passed
    BY <2>1 DEF passed, RowsHandedOver, Passed!Row
  <2>2. CASE Passed!Next
    BY <2>2, OneRowHandedOver, RowsOfCall DEF Passed!Next
  <2> QED BY <2>1, <2>2 DEF MCNext, passed
<1>3. RowsHandedOver => RowsAddUp
  BY DEF RowsHandedOver, RowsAddUp, Passed!RowsAddUp
<1> QED BY <1>1, <1>2, <1>3, PTL DEF MCSpec
=============================================================================
