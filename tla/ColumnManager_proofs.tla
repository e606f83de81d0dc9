------------------------ MODULE ColumnManager_proofs ------------------------
(***************************************************************************)
(* Manager and master agree, the count is exact but for interrupted calls, *)
(* the properties of the columns are what their events make them, and no   *)
(* call moves a column back and forth: for any seeds, variables, reduced   *)
(* costs and thresholds, and any width of size_t.                          *)
(*                                                                         *)
(* Inv1 says what each phase of manage_columns may assume, and is          *)
(* inductive by itself.  ModelInv, CountInv and HistoryKept are each       *)
(* inductive under it.                                                     *)
(***************************************************************************)
EXTENDS ColumnManager, FiniteSetTheorems, SequenceTheorems, TLAPS

\* What manage_columns has done when it is in each phase.  A column to evict is in
\* the master and unattractive; one it has evicted is in the pool and still so; one
\* to activate is in the pool and attractive.
PhaseOK ==
    /\ phase = "rest" => todo = {} /\ moved = 0 /\ evicted = {}
    /\ phase = "evicting" => \A s \in todo : s \in Master /\ columns[s].reduced_cost > HighCost
    /\ phase = "activating" => \A s \in todo : s \in Pool /\ columns[s].reduced_cost < LowCost
    /\ \A s \in evicted : s \in Pool /\ columns[s].reduced_cost > HighCost

Inv1 == TypeOK /\ PhaseOK /\ HistoryKept

\* The two directions of MasterIsModel.
ModelInv ==
    /\ \A s \in InModel : columns[s].var \in DOMAIN model /\ model[columns[s].var] = s
    /\ \A h \in DOMAIN model :
          model[h] # NoSeed => model[h] \in InModel /\ columns[model[h]].var = h

\* What the count is in each phase.
Due == CASE phase = "rest" -> 0
         [] phase = "evicting" -> 0 - moved
         [] phase = "activating" -> moved
CountInv == (num_master_columns + lost + Due) % NumSizes = Cardinality(Master)

\* The state st of a column has the properties that its events h make.
Kept(st, h) ==
    /\ st.times_activated = TimesActivated(h)
    /\ st.age = Age(h)
    /\ \A i \in DOMAIN h : PricedLast(h, i) => st.reduced_cost = h[i].cost
----------------------------------------------------------------------------
(* size_t *)

LEMMA Division ==
    ASSUME NEW n \in Nat \ {0}, NEW x \in Int
    PROVE  x % n \in 0..(n - 1) /\ x \div n \in Int /\ x = (x \div n) * n + (x % n)
OBVIOUS

LEMMA Quotient ==
    ASSUME NEW n \in Nat \ {0}, NEW x \in 0..(n - 1), NEW q \in Int
    PROVE  (q * n + x) % n = x
OBVIOUS

\* A sum may wrap early.
LEMMA ModAdd ==
    ASSUME NEW n \in Nat \ {0}, NEW x \in Int, NEW y \in Int
    PROVE  ((x % n) + y) % n = (x + y) % n
<1> DEFINE q == x \div n
           r == x % n
           p == (r + y) \div n
           t == (r + y) % n
<1>1. q \in Int /\ r \in 0..(n - 1) /\ x = q * n + r
  BY Division
<1>2. p \in Int /\ t \in 0..(n - 1) /\ r + y = p * n + t
  <2>1. r + y \in Int
    BY <1>1
  <2> HIDE DEF r
  <2> QED BY <2>1, Division
<1> HIDE DEF q, r, p, t
<1>3. x + y = (p + q) * n + t
  BY <1>1, <1>2
<1>4. ((p + q) * n + t) % n = t
  <2>1. p + q \in Int
    BY <1>1, <1>2
  <2> QED BY <2>1, <1>2, Quotient
<1> QED BY <1>3, <1>4 DEF t, r

\* What is right modulo n stays right when both sides move by d.
LEMMA ModShift ==
    ASSUME NEW n \in Nat \ {0}, NEW a \in Int, NEW d \in Int, NEW c \in Int,
           a % n = c, c + d \in 0..(n - 1)
    PROVE  (a + d) % n = c + d
<1>1. (a + d) % n = (c + d) % n
  BY ModAdd
<1>2. (0 * n + (c + d)) % n = c + d
  BY Quotient
<1>3. 0 * n + (c + d) = c + d
  OBVIOUS
<1> QED BY <1>1, <1>2, <1>3
----------------------------------------------------------------------------
(* Histories *)

LEMMA NewKept == ASSUME NEW v PROVE Kept(NewState(v), <<>>)
<1>1. TimesActivated(<<>>) = 0 /\ Age(<<>>) = 0
  <2>1. /\ {i \in DOMAIN <<>> : <<>>[i].kind = "activated"} = {}
        /\ {i \in DOMAIN <<>> : \A j \in i..Len(<<>>) : <<>>[j].kind = "priced"} = {}
    OBVIOUS
  <2> QED BY <2>1, FS_EmptySet DEF TimesActivated, Age
<1> QED BY <1>1 DEF Kept, NewState

\* An event at the end of a history.
LEMMA AppendedEvent ==
    ASSUME NEW h \in Seq(Events), NEW e \in Events
    PROVE  LET g == Append(h, e) IN
           /\ TimesActivated(h) \in Nat /\ Age(h) \in Nat
           /\ TimesActivated(g) = TimesActivated(h) + (IF e.kind = "activated" THEN 1 ELSE 0)
           /\ Age(g) = (IF e.kind = "priced" THEN Age(h) + 1 ELSE 0)
           /\ \A i \in DOMAIN g : PricedLast(g, i) =>
                  IF e.kind = "priced" THEN g[i] = e
                  ELSE i \in DOMAIN h /\ PricedLast(h, i) /\ g[i] = h[i]
<1> DEFINE g == Append(h, e)
           n == Len(h)
<1>1. /\ n \in Nat /\ Len(h) = n /\ DOMAIN h = 1..n /\ DOMAIN g = 1..(n + 1) /\ Len(g) = n + 1
      /\ g[n + 1] = e /\ \A i \in 1..n : g[i] = h[i]
  OBVIOUS
<1> HIDE DEF g, n
<1>2. TimesActivated(h) \in Nat
      /\ TimesActivated(g) = TimesActivated(h) + (IF e.kind = "activated" THEN 1 ELSE 0)
  <2> DEFINE H == {i \in 1..n : h[i].kind = "activated"}
             G == {i \in 1..(n + 1) : g[i].kind = "activated"}
  <2>1. IsFiniteSet(H) /\ n + 1 \notin H
    <3>1. IsFiniteSet(1..n)
      BY <1>1, FS_Interval
    <3> QED BY <3>1, <1>1, FS_Subset
  <2>2. G = IF e.kind = "activated" THEN H \cup {n + 1} ELSE H
    <3>1. \A i \in 1..(n + 1) : i \in 1..n \/ i = n + 1
      BY <1>1
    <3>2. \A i \in 1..n : i \in 1..(n + 1)
      BY <1>1
    <3>3. n + 1 \in 1..(n + 1)
      BY <1>1
    <3> QED BY <1>1, <3>1, <3>2, <3>3
  <2>3. TimesActivated(h) = Cardinality(H) /\ TimesActivated(g) = Cardinality(G)
    BY <1>1 DEF TimesActivated
  <2>4. Cardinality(H) \in Nat /\ Cardinality(H \cup {n + 1}) = Cardinality(H) + 1
    BY <2>1, FS_CardinalityType, FS_AddElement
  <2> HIDE DEF H, G
  <2> QED BY <2>2, <2>3, <2>4
<1>3. Age(h) \in Nat /\ Age(g) = (IF e.kind = "priced" THEN Age(h) + 1 ELSE 0)
  <2> DEFINE H == {i \in 1..n : \A j \in i..n : h[j].kind = "priced"}
             G == {i \in 1..(n + 1) : \A j \in i..(n + 1) : g[j].kind = "priced"}
  <2>1. IsFiniteSet(H) /\ n + 1 \notin H
    <3>1. IsFiniteSet(1..n)
      BY <1>1, FS_Interval
    <3> QED BY <3>1, <1>1, FS_Subset
  <2>2. CASE e.kind = "priced"
    <3>1. ASSUME NEW i \in 1..n PROVE i \in G <=> i \in H
      <4>1. \A j \in i..(n + 1) : j = n + 1 \/ j \in i..n
        BY <1>1
      <4>2. \A j \in i..n : j \in i..(n + 1) /\ g[j] = h[j]
        BY <1>1
      <4> QED BY <4>1, <4>2, <1>1, <2>2
    <3>2. n + 1 \in G
      <4>1. \A j \in (n + 1)..(n + 1) : j = n + 1
        BY <1>1
      <4> QED BY <4>1, <1>1, <2>2
    <3>3. \A i \in 1..(n + 1) : i \in 1..n \/ i = n + 1
      BY <1>1
    <3>4. G = H \cup {n + 1}
      BY <3>1, <3>2, <3>3
    <3>5. Age(h) = Cardinality(H) /\ Age(g) = Cardinality(G)
      BY <1>1 DEF Age
    <3>6. Cardinality(H) \in Nat /\ Cardinality(H \cup {n + 1}) = Cardinality(H) + 1
      BY <2>1, FS_CardinalityType, FS_AddElement
    <3> HIDE DEF H, G
    <3> QED BY <2>2, <3>4, <3>5, <3>6
  <2>3. CASE e.kind # "priced"
    <3>1. G = {}
      <4> SUFFICES ASSUME NEW i \in 1..(n + 1) PROVE n + 1 \in i..(n + 1)
        BY <1>1, <2>3
      <4> QED BY <1>1
    <3>2. Age(h) = Cardinality(H) /\ Age(g) = Cardinality(G)
      BY <1>1 DEF Age
    <3>3. Cardinality(H) \in Nat
      BY <2>1, FS_CardinalityType
    <3> HIDE DEF H, G
    <3> QED BY <2>3, <3>1, <3>2, <3>3, FS_EmptySet
  <2> QED BY <2>2, <2>3
<1>4. ASSUME NEW i \in DOMAIN g, PricedLast(g, i)
      PROVE  IF e.kind = "priced" THEN g[i] = e
             ELSE i \in DOMAIN h /\ PricedLast(h, i) /\ g[i] = h[i]
  <2>1. CASE i = n + 1
    BY <2>1, <1>1, <1>4 DEF PricedLast
  <2>2. CASE i # n + 1
    <3>1. i \in 1..n /\ n + 1 \in (i + 1)..(n + 1)
      BY <2>2, <1>1
    <3>2. e.kind # "priced"
      BY <3>1, <1>1, <1>4 DEF PricedLast
    <3>3. PricedLast(h, i)
      <4>1. \A j \in (i + 1)..n : j \in (i + 1)..(n + 1) /\ g[j] = h[j]
        BY <1>1, <3>1
      <4> QED BY <4>1, <1>1, <1>4, <3>1 DEF PricedLast, n
    <3> QED BY <3>1, <3>2, <3>3, <1>1
  <2> QED BY <2>1, <2>2
<1> QED BY <1>2, <1>3, <1>4 DEF g

\* A notification does to the properties what the event does to the history.
LEMMA NotifyKept ==
    ASSUME NEW st \in ColumnStates, NEW h \in Seq(Events), NEW e \in Events, Kept(st, h)
    PROVE  /\ Kept(Notify(st, e), Append(h, e))
           /\ Notify(st, e) \in ColumnStates
           /\ Notify(st, e).var = st.var
           /\ e.kind # "priced" => Notify(st, e).reduced_cost = st.reduced_cost
<1> DEFINE g == Append(h, e)
           nt == Notify(st, e)
<1>1. /\ nt.age = IF e.kind = "priced" THEN st.age + 1 ELSE 0
      /\ nt.times_activated = IF e.kind = "activated" THEN st.times_activated + 1
                              ELSE st.times_activated
      /\ nt.reduced_cost = IF e.kind = "priced" THEN e.cost ELSE st.reduced_cost
      /\ nt.var = st.var
  BY DEF Notify, ColumnStates
<1>2. nt \in ColumnStates
  <2>1. DOMAIN nt = {"var", "age", "times_activated", "reduced_cost"}
        /\ nt = [f \in DOMAIN nt |-> nt[f]]
    BY DEF Notify, ColumnStates
  <2>2. /\ nt.var \in Handles \cup {NoHandle} /\ nt.age \in Nat /\ nt.times_activated \in Nat
        /\ nt.reduced_cost \in ReducedCosts \cup {0}
    BY <1>1 DEF ColumnStates, Events
  <2> HIDE DEF nt
  <2> QED BY <2>1, <2>2 DEF ColumnStates
<1>3. /\ TimesActivated(h) \in Nat /\ Age(h) \in Nat
      /\ TimesActivated(g) = TimesActivated(h) + (IF e.kind = "activated" THEN 1 ELSE 0)
      /\ Age(g) = (IF e.kind = "priced" THEN Age(h) + 1 ELSE 0)
      /\ \A i \in DOMAIN g : PricedLast(g, i) =>
             IF e.kind = "priced" THEN g[i] = e
             ELSE i \in DOMAIN h /\ PricedLast(h, i) /\ g[i] = h[i]
  BY AppendedEvent
<1> HIDE DEF g, nt
<1>4. Kept(nt, g)
  BY <1>1, <1>3 DEF Kept
<1> QED BY <1>1, <1>2, <1>4 DEF g, nt

\* The transfer changes the variable and nothing else.
LEMMA TransferKept ==
    ASSUME NEW st \in ColumnStates, NEW v \in Handles \cup {NoHandle}, NEW h, Kept(st, h)
    PROVE  LET t == Transfer(st, NewState(v)) IN
           /\ t \in ColumnStates /\ t.var = v /\ t.reduced_cost = st.reduced_cost
           /\ Kept(t, h)
BY DEF Transfer, NewState, ColumnStates, Kept

LEMMA EventsTyped ==
    /\ Activated \in Events /\ Deactivated \in Events
    /\ Activated.kind # "priced" /\ Deactivated.kind # "priced"
    /\ \A c \in ReducedCosts : Priced(c) \in Events
BY DEF Activated, Deactivated, Priced, Events
----------------------------------------------------------------------------
(* What the actions do to the columns *)

ColumnsTyped ==
    /\ Known \subseteq Seeds /\ columns \in [Known -> ColumnStates]
    /\ history \in [Known -> Seq(Events)]

LEMMA HistoryIsKept == HistoryKept <=> \A s \in Known : Kept(columns[s], history[s])
BY DEF HistoryKept, Kept

LEMMA Added ==
    ASSUME ColumnsTyped, HistoryKept, NEW s \in Seeds \ Known,
           NEW st \in ColumnStates, NEW h \in Seq(Events), Kept(st, h),
           columns' = AddTo(columns, s, st), history' = AddTo(history, s, h)
    PROVE  /\ ColumnsTyped' /\ HistoryKept' /\ Known' = Known \cup {s}
           /\ columns'[s] = st /\ \A t \in Known : columns'[t] = columns[t]
<1>1. Known' = Known \cup {s} /\ DOMAIN history' = Known \cup {s}
  BY DEF AddTo, Known, ColumnsTyped
<1>2. /\ columns'[s] = st /\ \A t \in Known : t # s /\ columns'[t] = columns[t]
      /\ history'[s] = h /\ \A t \in Known : history'[t] = history[t]
  BY DEF AddTo, Known, ColumnsTyped
<1>3. ColumnsTyped'
  <2>1. \A t \in Known' : columns'[t] \in ColumnStates /\ history'[t] \in Seq(Events)
    BY <1>1, <1>2 DEF ColumnsTyped
  <2>2. /\ columns' = [t \in Known' |-> columns'[t]]
        /\ history' = [t \in Known' |-> history'[t]]
    BY <1>1 DEF AddTo, Known, ColumnsTyped
  <2> QED BY <1>1, <2>1, <2>2 DEF ColumnsTyped
<1>4. \A t \in Known' : Kept(columns'[t], history'[t])
  BY <1>1, <1>2, HistoryIsKept
<1>5. HistoryKept'
  BY <1>4 DEF HistoryKept, Kept
<1> QED BY <1>1, <1>2, <1>3, <1>5

LEMMA Moved ==
    ASSUME ColumnsTyped, HistoryKept, NEW s \in Known,
           NEW v \in Handles \cup {NoHandle}, NEW e \in Events, e.kind # "priced",
           columns' = [columns EXCEPT ![s] = Notify(Transfer(@, NewState(v)), e)],
           history' = [history EXCEPT ![s] = Append(@, e)]
    PROVE  /\ ColumnsTyped' /\ HistoryKept' /\ Known' = Known
           /\ columns'[s].var = v /\ columns'[s].reduced_cost = columns[s].reduced_cost
           /\ \A t \in Known \ {s} : columns'[t] = columns[t]
<1> DEFINE t == Transfer(columns[s], NewState(v))
           nt == Notify(t, e)
<1>1. columns[s] \in ColumnStates /\ history[s] \in Seq(Events) /\ Kept(columns[s], history[s])
  BY HistoryIsKept DEF ColumnsTyped
<1>2. /\ t \in ColumnStates /\ t.var = v /\ t.reduced_cost = columns[s].reduced_cost
      /\ Kept(t, history[s])
  BY <1>1, TransferKept
<1> HIDE DEF t
<1>3. /\ nt \in ColumnStates /\ nt.var = v /\ nt.reduced_cost = columns[s].reduced_cost
      /\ Kept(nt, Append(history[s], e))
  BY <1>1, <1>2, NotifyKept
<1>4. Append(history[s], e) \in Seq(Events)
  BY <1>1
<1>5. columns' = [columns EXCEPT ![s] = nt]
  BY DEF t
<1> HIDE DEF nt
<1>6. /\ Known' = Known /\ columns'[s] = nt /\ \A r \in Known \ {s} : columns'[r] = columns[r]
      /\ history'[s] = Append(history[s], e) /\ \A r \in Known \ {s} : history'[r] = history[r]
  BY <1>5 DEF Known, ColumnsTyped
<1>7. ColumnsTyped'
  BY <1>3, <1>4, <1>5, <1>6 DEF ColumnsTyped
<1>8. \A r \in Known' : Kept(columns'[r], history'[r])
  BY <1>3, <1>6, HistoryIsKept
<1>9. HistoryKept'
  BY <1>8 DEF HistoryKept, Kept
<1> QED BY <1>3, <1>6, <1>7, <1>9

LEMMA PoolColumnAdded ==
    ASSUME ColumnsTyped, HistoryKept, NEW s \in Seeds, EmplaceColumn(s)
    PROVE  /\ ColumnsTyped' /\ HistoryKept' /\ Known' = Known \cup {s}
           /\ columns'[s].var = NoHandle /\ \A t \in Known : columns'[t] = columns[t]
<1>1. NewState(NoHandle) \in ColumnStates /\ <<>> \in Seq(Events)
      /\ NewState(NoHandle).var = NoHandle
  BY DEF NewState, ColumnStates
<1>2. Kept(NewState(NoHandle), <<>>)
  BY NewKept
<1> QED BY <1>1, <1>2, Added DEF EmplaceColumn

LEMMA MasterColumnAdded ==
    ASSUME ColumnsTyped, HistoryKept, NEW s \in Seeds, NEW v \in Handles,
           EmplaceMasterColumn(s, v)
    PROVE  /\ ColumnsTyped' /\ HistoryKept' /\ Known' = Known \cup {s} /\ s \notin Known
           /\ columns'[s].var = v /\ v # NoHandle
           /\ \A t \in Known : columns'[t] = columns[t]
<1> DEFINE st == Notify(NewState(v), Activated)
<1>1. NewState(v) \in ColumnStates /\ <<>> \in Seq(Events) /\ Activated \in Events
      /\ Append(<<>>, Activated) = <<Activated>> /\ <<Activated>> \in Seq(Events)
      /\ NewState(v).var = v
  BY EventsTyped DEF NewState, ColumnStates
<1>2. st \in ColumnStates /\ Kept(st, <<Activated>>) /\ st.var = v
  BY <1>1, NewKept, NotifyKept
<1>3. columns' = AddTo(columns, s, st) /\ history' = AddTo(history, s, <<Activated>>)
      /\ s \notin Known /\ v # NoHandle
  BY ColumnManagerAssumption DEF EmplaceMasterColumn
<1> HIDE DEF st
<1> QED BY <1>1, <1>2, <1>3, Added

LEMMA PricedAll ==
    ASSUME ColumnsTyped, HistoryKept, NEW S \in SUBSET Known,
           NEW costs \in [Seeds -> ReducedCosts], Broadcast(S, costs)
    PROVE  /\ ColumnsTyped' /\ HistoryKept' /\ Known' = Known
           /\ \A t \in Known : columns'[t].var = columns[t].var
<1>1. Known' = Known /\ DOMAIN history' = Known
  BY DEF Broadcast, Known
<1>2. ASSUME NEW t \in Known
      PROVE  /\ columns'[t] \in ColumnStates /\ history'[t] \in Seq(Events)
             /\ columns'[t].var = columns[t].var /\ Kept(columns'[t], history'[t])
  <2>1. /\ columns[t] \in ColumnStates /\ history[t] \in Seq(Events)
        /\ Kept(columns[t], history[t])
    BY HistoryIsKept DEF ColumnsTyped
  <2>2. CASE t \in S
    <3> DEFINE e == Priced(costs[t])
    <3>1. e \in Events
      BY EventsTyped DEF ColumnsTyped
    <3>2. columns'[t] = Notify(columns[t], e) /\ history'[t] = Append(history[t], e)
      BY <2>2 DEF Broadcast, Known
    <3> HIDE DEF e
    <3> QED BY <3>1, <3>2, <2>1, NotifyKept
  <2>3. CASE t \notin S
    <3>1. columns'[t] = columns[t] /\ history'[t] = history[t]
      BY <2>3 DEF Broadcast, Known
    <3> QED BY <3>1, <2>1
  <2> QED BY <2>2, <2>3
<1>3. /\ columns' = [t \in Known' |-> columns'[t]]
      /\ history' = [t \in Known' |-> history'[t]]
  BY <1>1 DEF Broadcast, Known
<1>4. ColumnsTyped'
  BY <1>1, <1>2, <1>3 DEF ColumnsTyped
<1>5. HistoryKept'
  BY <1>1, <1>2 DEF HistoryKept, Kept
<1> QED BY <1>1, <1>2, <1>4, <1>5

LEMMA Purged ==
    ASSUME ColumnsTyped, HistoryKept, NEW K,
           columns' = DropFrom(columns, K), history' = DropFrom(history, K)
    PROVE  /\ ColumnsTyped' /\ HistoryKept' /\ Known' = Known \ K
           /\ \A t \in Known \ K : columns'[t] = columns[t]
<1>1. Known' = Known \ K /\ DOMAIN history' = Known \ K
  BY DEF DropFrom, Known, ColumnsTyped
<1>2. \A t \in Known \ K : columns'[t] = columns[t] /\ history'[t] = history[t]
  BY DEF DropFrom, Known, ColumnsTyped
<1>3. /\ columns' = [t \in Known' |-> columns'[t]]
      /\ history' = [t \in Known' |-> history'[t]]
  BY <1>1 DEF DropFrom, Known, ColumnsTyped
<1>4. ColumnsTyped'
  BY <1>1, <1>2, <1>3 DEF ColumnsTyped
<1>5. \A t \in Known' : Kept(columns'[t], history'[t])
  BY <1>1, <1>2, HistoryIsKept
<1>6. HistoryKept'
  BY <1>5 DEF HistoryKept, Kept
<1> QED BY <1>1, <1>2, <1>4, <1>6
----------------------------------------------------------------------------
(* The phases *)

LEMMA Inv1Init == Init => Inv1
<1> SUFFICES ASSUME Init PROVE Inv1
  OBVIOUS
<1>1. TypeOK
  BY ColumnManagerAssumption DEF Init, TypeOK, Known
<1>2. PhaseOK /\ HistoryKept
  BY DEF Init, PhaseOK, HistoryKept, Known
<1> QED BY <1>1, <1>2 DEF Inv1

\* The rest of TypeOK.
CountsTyped ==
    /\ num_master_columns \in 0..(NumSizes - 1) /\ lost \in 0..(NumSizes - 1)
    /\ DOMAIN model \subseteq Handles /\ model \in [DOMAIN model -> Seeds \cup {NoSeed}]
    /\ phase \in {"rest", "evicting", "activating"}
    /\ todo \subseteq Known /\ evicted \subseteq Known /\ moved \in Nat

LEMMA TypeParts == TypeOK <=> ColumnsTyped /\ CountsTyped
BY DEF TypeOK, ColumnsTyped, CountsTyped

LEMMA ModelGrows ==
    ASSUME CountsTyped, NEW v \in Handles, NEW x \in Seeds \cup {NoSeed},
           model' = AddTo(model, v, x)
    PROVE  DOMAIN model' \subseteq Handles /\ model' \in [DOMAIN model' -> Seeds \cup {NoSeed}]
BY DEF AddTo, CountsTyped

LEMMA CostsAreInts == \A c \in ReducedCosts \cup {0} : c \in Int
<1> TAKE c \in ReducedCosts \cup {0}
<1>1. CASE c = 0
  BY <1>1
<1>2. CASE c # 0
  <2>1. ReducedCosts \subseteq Int
    BY ColumnManagerAssumption
  <2> QED BY <1>2, <2>1
<1> QED BY <1>1, <1>2

LEMMA SizesAdd == \A x, y \in Int : ((x % NumSizes) + y) % NumSizes = (x + y) % NumSizes
<1>1. NumSizes \in Nat \ {0}
  BY ColumnManagerAssumption
<1> QED BY <1>1, ModAdd

LEMMA SizesWrap == \A x \in Int : x % NumSizes \in 0..(NumSizes - 1)
BY Division, ColumnManagerAssumption

LEMMA Inv1Step == Inv1 /\ [Next]_vars => Inv1'
<1> SUFFICES ASSUME Inv1, [Next]_vars PROVE Inv1'
  OBVIOUS
<1>0. ColumnsTyped /\ CountsTyped /\ HistoryKept /\ PhaseOK
  BY TypeParts DEF Inv1
<1>a. (ColumnsTyped /\ CountsTyped)' => TypeOK'
  BY DEF TypeOK, ColumnsTyped, CountsTyped
<1>1. ASSUME NEW s \in Seeds, EmplaceColumn(s) PROVE Inv1'
  <2>1. ColumnsTyped' /\ HistoryKept' /\ Known' = Known \cup {s}
    BY <1>0, <1>1, PoolColumnAdded
  <2>2. CountsTyped'
    BY <2>1, <1>0, <1>1 DEF EmplaceColumn, CountsTyped
  <2>3. PhaseOK'
    BY <1>0, <1>1 DEF EmplaceColumn, PhaseOK
  <2> QED BY <1>a, <2>1, <2>2, <2>3 DEF Inv1
<1>2. ASSUME NEW s \in Seeds, NEW v \in Handles, EmplaceMasterColumn(s, v) PROVE Inv1'
  <2>1. ColumnsTyped' /\ HistoryKept' /\ Known' = Known \cup {s}
    BY <1>0, <1>2, MasterColumnAdded
  <2>2. CountsTyped'
    <3>1. num_master_columns' \in 0..(NumSizes - 1)
      BY <1>0, <1>2, SizesWrap DEF EmplaceMasterColumn, CountsTyped
    <3>2. DOMAIN model' \subseteq Handles /\ model' \in [DOMAIN model' -> Seeds \cup {NoSeed}]
      BY <1>0, <1>2, ModelGrows DEF EmplaceMasterColumn
    <3> QED BY <3>1, <3>2, <2>1, <1>0, <1>2 DEF EmplaceMasterColumn, CountsTyped
  <2>3. PhaseOK'
    BY <1>0, <1>2 DEF EmplaceMasterColumn, PhaseOK
  <2> QED BY <1>a, <2>1, <2>2, <2>3 DEF Inv1
<1>3. ASSUME NEW s \in Seeds, NEW v \in Handles, EmplaceMasterColumnRefused(s, v) PROVE Inv1'
  <2>1. DOMAIN model' \subseteq Handles /\ model' \in [DOMAIN model' -> Seeds \cup {NoSeed}]
    BY <1>0, <1>3, ModelGrows DEF EmplaceMasterColumnRefused
  <2> QED BY <2>1, <1>0, <1>3 DEF EmplaceMasterColumnRefused, Inv1, TypeOK, CountsTyped,
             PhaseOK, HistoryKept, Known, Master, Pool
<1>4. ASSUME NEW costs \in [Seeds -> ReducedCosts], NEW S \in SUBSET Known, Broadcast(S, costs)
      PROVE  Inv1'
  <2>1. ColumnsTyped' /\ HistoryKept' /\ Known' = Known
    BY <1>0, <1>4, PricedAll
  <2>2. CountsTyped'
    BY <2>1, <1>0, <1>4 DEF Broadcast, CountsTyped
  <2>3. PhaseOK'
    BY <1>0, <1>4 DEF Broadcast, PhaseOK
  <2> QED BY <1>a, <2>1, <2>2, <2>3 DEF Inv1
<1>5. ASSUME NEW E \in SUBSET Seeds, ManageColumns(E) PROVE Inv1'
  <2>1. DOMAIN model' \subseteq Handles /\ model' \in [DOMAIN model' -> Seeds \cup {NoSeed}]
    BY <1>0, <1>5 DEF ManageColumns, DropFrom, CountsTyped
  <2>2. E \subseteq Known /\ \A s \in E : s \in Master /\ columns[s].reduced_cost > HighCost
    BY <1>5 DEF ManageColumns, Unattractive, Master
  <2>3. ColumnsTyped' /\ HistoryKept' /\ Known' = Known /\ Master' = Master
    BY <1>0, <1>5 DEF ManageColumns, ColumnsTyped, HistoryKept, Known, Master
  <2>4. CountsTyped'
    BY <2>1, <2>2, <2>3, <1>0, <1>5 DEF ManageColumns, CountsTyped
  <2>5. PhaseOK'
    BY <2>2, <2>3, <1>5 DEF ManageColumns, PhaseOK
  <2> QED BY <1>a, <2>3, <2>4, <2>5 DEF Inv1
<1>6. ASSUME NEW s \in Seeds, Evict(s) PROVE Inv1'
  <2>1. s \in Known /\ s \in todo /\ columns[s].reduced_cost > HighCost
    BY <1>0, <1>6 DEF Evict, CountsTyped, PhaseOK
  <2>2. /\ ColumnsTyped' /\ HistoryKept' /\ Known' = Known
        /\ columns'[s].var = NoHandle /\ columns'[s].reduced_cost = columns[s].reduced_cost
        /\ \A t \in Known \ {s} : columns'[t] = columns[t]
    BY <2>1, <1>0, <1>6, Moved, EventsTyped DEF Evict
  <2>3. CountsTyped'
    BY <2>1, <2>2, <1>0, <1>6 DEF Evict, CountsTyped
  <2>4. ASSUME NEW t \in todo'
        PROVE  t \in Master' /\ columns'[t].reduced_cost > HighCost
    <3>1. t \in todo \ {s} /\ t \in Known /\ t \in Master /\ columns[t].reduced_cost > HighCost
      BY <2>4, <1>0, <1>6 DEF Evict, PhaseOK, CountsTyped
    <3> QED BY <3>1, <2>2 DEF Master
  <2>5. ASSUME NEW t \in evicted'
        PROVE  t \in Pool' /\ columns'[t].reduced_cost > HighCost
    <3>1. CASE t = s
      BY <3>1, <2>1, <2>2 DEF Pool
    <3>2. CASE t # s
      <4>1. t \in evicted /\ t \in Pool /\ columns[t].reduced_cost > HighCost
        BY <3>2, <2>5, <1>0, <1>6 DEF Evict, PhaseOK
      <4> QED BY <4>1, <3>2, <2>2 DEF Pool
    <3> QED BY <3>1, <3>2
  <2>6. PhaseOK'
    BY <2>4, <2>5, <1>6 DEF Evict, PhaseOK
  <2> QED BY <1>a, <2>2, <2>3, <2>6 DEF Inv1
<1>7. ASSUME NEW A \in SUBSET Seeds, SelectToActivate(A) PROVE Inv1'
  <2>1. num_master_columns' \in 0..(NumSizes - 1)
    BY <1>0, <1>7, SizesWrap DEF SelectToActivate, CountsTyped
  <2>2. A \subseteq Known /\ \A s \in A : s \in Pool /\ columns[s].reduced_cost < LowCost
    BY <1>7 DEF SelectToActivate, Attractive, Pool
  <2>3. ColumnsTyped' /\ HistoryKept' /\ Known' = Known /\ Pool' = Pool
    BY <1>0, <1>7 DEF SelectToActivate, ColumnsTyped, HistoryKept, Known, Pool
  <2>4. CountsTyped'
    BY <2>1, <2>2, <2>3, <1>0, <1>7 DEF SelectToActivate, CountsTyped
  <2>5. PhaseOK'
    BY <2>2, <2>3, <1>0, <1>7 DEF SelectToActivate, PhaseOK
  <2> QED BY <1>a, <2>3, <2>4, <2>5 DEF Inv1
<1>8. ASSUME NEW s \in Seeds, NEW v \in Handles, Activate(s, v) PROVE Inv1'
  <2>1. s \in Known /\ s \in todo /\ columns[s].reduced_cost < LowCost
    BY <1>0, <1>8 DEF Activate, CountsTyped, PhaseOK
  <2>2. /\ ColumnsTyped' /\ HistoryKept' /\ Known' = Known
        /\ columns'[s].reduced_cost = columns[s].reduced_cost
        /\ \A t \in Known \ {s} : columns'[t] = columns[t]
    BY <2>1, <1>0, <1>8, Moved, EventsTyped DEF Activate
  <2>3. CountsTyped'
    <3>1. DOMAIN model' \subseteq Handles /\ model' \in [DOMAIN model' -> Seeds \cup {NoSeed}]
      BY <1>0, <1>8, ModelGrows DEF Activate
    <3> QED BY <3>1, <2>1, <2>2, <1>0, <1>8 DEF Activate, CountsTyped
  <2>4. ASSUME NEW t \in todo'
        PROVE  t \in Pool' /\ columns'[t].reduced_cost < LowCost
    <3>1. t \in todo \ {s} /\ t \in Known /\ t \in Pool /\ columns[t].reduced_cost < LowCost
      BY <2>4, <1>0, <1>8 DEF Activate, PhaseOK, CountsTyped
    <3> QED BY <3>1, <2>2 DEF Pool
  <2>5. ASSUME NEW t \in evicted'
        PROVE  t \in Pool' /\ columns'[t].reduced_cost > HighCost
    <3>1. t \in evicted /\ t \in Known /\ t \in Pool /\ columns[t].reduced_cost > HighCost
      BY <2>5, <1>0, <1>8 DEF Activate, PhaseOK, CountsTyped
    <3>2. t # s
      <4>1. columns[t].reduced_cost \in Int
        <5>1. columns[t] \in ColumnStates
          BY <3>1, <1>0 DEF ColumnsTyped
        <5>2. columns[t].reduced_cost \in ReducedCosts \cup {0}
          BY <5>1 DEF ColumnStates
        <5> QED BY <5>2, CostsAreInts
      <4> QED BY <4>1, <3>1, <2>1, ColumnManagerAssumption
    <3> QED BY <3>1, <3>2, <2>2 DEF Pool
  <2>6. PhaseOK'
    BY <2>4, <2>5, <1>8 DEF Activate, PhaseOK
  <2> QED BY <1>a, <2>2, <2>3, <2>6 DEF Inv1
<1>9. CASE ActivationThrows
  <2>1. lost' \in 0..(NumSizes - 1)
    BY <1>0, <1>9, SizesWrap DEF ActivationThrows, CountsTyped
  <2> QED BY <2>1, <1>0, <1>9 DEF ActivationThrows, Inv1, TypeOK, CountsTyped,
             PhaseOK, HistoryKept, Known, Master, Pool
<1>10. CASE ManageColumnsReturns
  <2>1. num_master_columns' \in 0..(NumSizes - 1)
    BY <1>0, <1>10, SizesWrap DEF ManageColumnsReturns, CountsTyped
  <2> QED BY <2>1, <1>0, <1>10 DEF ManageColumnsReturns, Inv1, TypeOK, CountsTyped,
             PhaseOK, HistoryKept, Known, Master, Pool
<1>11. ASSUME NEW P \in SUBSET Seeds, PurgePool(P) PROVE Inv1'
  <2>1. ColumnsTyped' /\ HistoryKept' /\ Known' = Known \ (P \cap Pool)
    BY <1>0, <1>11, Purged DEF PurgePool
  <2>2. todo = {} /\ evicted = {}
    BY <1>0, <1>11 DEF PurgePool, PhaseOK
  <2>3. CountsTyped'
    BY <2>1, <2>2, <1>0, <1>11 DEF PurgePool, CountsTyped
  <2>4. PhaseOK'
    BY <2>2, <1>0, <1>11 DEF PurgePool, PhaseOK
  <2> QED BY <1>a, <2>1, <2>3, <2>4 DEF Inv1
<1>12. CASE UNCHANGED vars
  BY <1>12 DEF vars, Inv1, TypeOK, PhaseOK, HistoryKept, Known, Master, Pool
<1> QED
  <2>1. Pool \in SUBSET Known /\ Master \in SUBSET Known /\ Known \in SUBSET Known
    BY DEF Pool, Master
  <2> QED BY <2>1, <1>1, <1>2, <1>3, <1>4, <1>5, <1>6, <1>7, <1>8, <1>9, <1>10, <1>11, <1>12
          DEF Next, UpdatePoolColumns, UpdateMasterColumns, UpdateColumns
----------------------------------------------------------------------------
(* The master *)

LEMMA ModelInvIsMasterIsModel == TypeOK => (ModelInv <=> MasterIsModel)
<1> SUFFICES ASSUME TypeOK PROVE ModelInv <=> MasterIsModel
  OBVIOUS
<1>1. InModel \subseteq Seeds /\ NoSeed \notin InModel
  BY ColumnManagerAssumption DEF TypeOK, InModel, Master
<1> DEFINE C == {<<columns[s].var, s>> : s \in InModel}
           M == {<<h, model[h]>> : h \in {g \in DOMAIN model : model[g] # NoSeed}}
<1>2. ASSUME ModelInv PROVE MasterIsModel
  <2>1. C \subseteq M
    BY <1>1, <1>2 DEF ModelInv
  <2>2. M \subseteq C
    BY <1>2 DEF ModelInv
  <2> QED BY <2>1, <2>2 DEF MasterIsModel
<1>3. ASSUME MasterIsModel PROVE ModelInv
  <2>1. C = M
    BY <1>3 DEF MasterIsModel
  <2>2. ASSUME NEW s \in InModel
        PROVE  columns[s].var \in DOMAIN model /\ model[columns[s].var] = s
    <3>1. <<columns[s].var, s>> \in C
      OBVIOUS
    <3>2. <<columns[s].var, s>> \in M
      BY <3>1, <2>1
    <3> QED BY <3>2
  <2>3. ASSUME NEW h \in DOMAIN model, model[h] # NoSeed
        PROVE  model[h] \in InModel /\ columns[model[h]].var = h
    <3>1. <<h, model[h]>> \in M
      BY <2>3
    <3>2. <<h, model[h]>> \in C
      BY <3>1, <2>1
    <3> QED BY <3>2
  <2> QED BY <2>2, <2>3 DEF ModelInv
<1> QED BY <1>2, <1>3

LEMMA ModelInvInit == Init => ModelInv
BY DEF Init, ModelInv, InModel, Master, Known

LEMMA ModelInvStep == Inv1 /\ ModelInv /\ [Next]_vars => ModelInv'
<1> SUFFICES ASSUME Inv1, ModelInv, [Next]_vars PROVE ModelInv'
  OBVIOUS
<1>0. ColumnsTyped /\ CountsTyped /\ HistoryKept /\ PhaseOK
  BY TypeParts DEF Inv1
<1>a. Seeds \cap {NoSeed} = {} /\ Handles \cap {NoHandle} = {} /\ Known \subseteq Seeds
  BY <1>0, ColumnManagerAssumption DEF ColumnsTyped
<1>1. ASSUME NEW s \in Seeds, EmplaceColumn(s) PROVE ModelInv'
  <2>1. /\ Known' = Known \cup {s} /\ columns'[s].var = NoHandle
        /\ \A t \in Known : columns'[t] = columns[t]
    BY <1>0, <1>1, PoolColumnAdded
  <2>2. InModel' = InModel /\ model' = model /\ InModel \subseteq Known
    BY <2>1, <1>1 DEF EmplaceColumn, InModel, Master
  <2> QED BY <2>1, <2>2 DEF ModelInv
<1>2. ASSUME NEW s \in Seeds, NEW v \in Handles, EmplaceMasterColumn(s, v) PROVE ModelInv'
  <2>1. /\ Known' = Known \cup {s} /\ columns'[s].var = v
        /\ \A t \in Known : columns'[t] = columns[t]
    BY <1>0, <1>2, MasterColumnAdded
  <2>2. InModel' = InModel \cup {s} /\ InModel \subseteq Known /\ s \notin Known
    BY <2>1, <1>2, <1>a DEF EmplaceMasterColumn, InModel, Master
  <2>3. /\ DOMAIN model' = DOMAIN model \cup {v} /\ model'[v] = s /\ v \notin DOMAIN model
        /\ \A h \in DOMAIN model : model'[h] = model[h]
    BY <1>2 DEF EmplaceMasterColumn, AddTo
  <2> QED BY <2>1, <2>2, <2>3 DEF ModelInv
<1>3. ASSUME NEW s \in Seeds, NEW v \in Handles, EmplaceMasterColumnRefused(s, v) PROVE ModelInv'
  <2>1. /\ DOMAIN model' = DOMAIN model \cup {v} /\ model'[v] = NoSeed /\ v \notin DOMAIN model
        /\ \A h \in DOMAIN model : model'[h] = model[h]
    BY <1>3 DEF EmplaceMasterColumnRefused, AddTo
  <2>2. InModel' = InModel /\ columns' = columns
    BY <1>3 DEF EmplaceMasterColumnRefused, InModel, Master, Known
  <2> QED BY <2>1, <2>2 DEF ModelInv
<1>4. ASSUME NEW costs \in [Seeds -> ReducedCosts], NEW S \in SUBSET Known, Broadcast(S, costs)
      PROVE  ModelInv'
  <2>1. Known' = Known /\ \A t \in Known : columns'[t].var = columns[t].var
    BY <1>0, <1>4, PricedAll
  <2>2. InModel' = InModel /\ model' = model /\ InModel \subseteq Known
    BY <2>1, <1>4 DEF Broadcast, InModel, Master
  <2> QED BY <2>1, <2>2 DEF ModelInv
<1>5. ASSUME NEW E \in SUBSET Seeds, ManageColumns(E) PROVE ModelInv'
  <2>1. E \subseteq Master /\ InModel = Master /\ columns' = columns
        /\ InModel' = Master \ E
    BY <1>5 DEF ManageColumns, InModel, Master, Known
  <2>2. /\ DOMAIN model' = DOMAIN model \ {columns[s].var : s \in E}
        /\ \A h \in DOMAIN model' : model'[h] = model[h]
    BY <1>5 DEF ManageColumns, DropFrom
  <2>3. ASSUME NEW s \in Master \ E
        PROVE  columns[s].var \in DOMAIN model' /\ model'[columns[s].var] = s
    <3>1. columns[s].var \in DOMAIN model /\ model[columns[s].var] = s
      BY <2>1 DEF ModelInv
    <3>2. ASSUME NEW t \in E, columns[t].var = columns[s].var PROVE FALSE
      <4>1. model[columns[t].var] = t
        BY <2>1 DEF ModelInv
      <4> QED BY <4>1, <3>1, <3>2
    <3> QED BY <3>1, <3>2, <2>2
  <2>4. ASSUME NEW h \in DOMAIN model', model'[h] # NoSeed
        PROVE  model'[h] \in Master \ E /\ columns[model'[h]].var = h
    <3>1. h \in DOMAIN model /\ model'[h] = model[h] /\ h \notin {columns[s].var : s \in E}
      BY <2>2
    <3>2. model[h] \in Master /\ columns[model[h]].var = h
      BY <3>1, <2>4, <2>1 DEF ModelInv
    <3> QED BY <3>1, <3>2
  <2> QED BY <2>1, <2>3, <2>4 DEF ModelInv
<1>6. ASSUME NEW s \in Seeds, Evict(s) PROVE ModelInv'
  <2>1. s \in Known /\ s \in todo
    BY <1>0, <1>6 DEF Evict, CountsTyped
  <2>2. /\ Known' = Known /\ columns'[s].var = NoHandle
        /\ \A t \in Known \ {s} : columns'[t] = columns[t]
    BY <2>1, <1>0, <1>6, Moved, EventsTyped DEF Evict
  <2>3. InModel' = InModel /\ model' = model /\ InModel \subseteq Known \ {s}
    BY <2>1, <2>2, <1>6 DEF Evict, InModel, Master
  <2> QED BY <2>2, <2>3 DEF ModelInv
<1>7. ASSUME NEW A \in SUBSET Seeds, SelectToActivate(A) PROVE ModelInv'
  BY <1>7 DEF SelectToActivate, ModelInv, InModel, Master, Known
<1>8. ASSUME NEW s \in Seeds, NEW v \in Handles, Activate(s, v) PROVE ModelInv'
  <2>1. s \in Known /\ s \in Pool
    BY <1>0, <1>8 DEF Activate, CountsTyped, PhaseOK
  <2>2. /\ Known' = Known /\ columns'[s].var = v
        /\ \A t \in Known \ {s} : columns'[t] = columns[t]
    BY <2>1, <1>0, <1>8, Moved, EventsTyped DEF Activate
  <2>3. InModel' = InModel \cup {s} /\ InModel \subseteq Known \ {s}
    BY <2>1, <2>2, <1>8, <1>a DEF Activate, InModel, Master, Pool
  <2>4. /\ DOMAIN model' = DOMAIN model \cup {v} /\ model'[v] = s /\ v \notin DOMAIN model
        /\ \A h \in DOMAIN model : model'[h] = model[h]
    BY <1>8 DEF Activate, AddTo
  <2> QED BY <2>2, <2>3, <2>4 DEF ModelInv
<1>9. CASE ActivationThrows
  BY <1>9 DEF ActivationThrows, ModelInv, InModel, Master, Known
<1>10. CASE ManageColumnsReturns
  BY <1>10 DEF ManageColumnsReturns, ModelInv, InModel, Master, Known
<1>11. ASSUME NEW P \in SUBSET Seeds, PurgePool(P) PROVE ModelInv'
  <2>1. /\ Known' = Known \ (P \cap Pool)
        /\ \A t \in Known \ (P \cap Pool) : columns'[t] = columns[t]
    BY <1>0, <1>11, Purged DEF PurgePool
  <2>2. InModel' = InModel /\ model' = model /\ InModel \subseteq Known \ (P \cap Pool)
    BY <2>1, <1>11 DEF PurgePool, InModel, Master, Pool
  <2> QED BY <2>1, <2>2 DEF ModelInv
<1>12. CASE UNCHANGED vars
  BY <1>12 DEF vars, ModelInv, InModel, Master, Known
<1> QED
  <2>1. Pool \in SUBSET Known /\ Master \in SUBSET Known /\ Known \in SUBSET Known
    BY DEF Pool, Master
  <2> QED BY <2>1, <1>1, <1>2, <1>3, <1>4, <1>5, <1>6, <1>7, <1>8, <1>9, <1>10, <1>11, <1>12
          DEF Next, UpdatePoolColumns, UpdateMasterColumns, UpdateColumns
----------------------------------------------------------------------------
(* The count *)

LEMMA SeedsCounted ==
    \A S \in SUBSET Seeds : IsFiniteSet(S) /\ Cardinality(S) \in 0..(NumSizes - 1)
<1> TAKE S \in SUBSET Seeds
<1>1. IsFiniteSet(Seeds) /\ Cardinality(Seeds) < NumSizes /\ NumSizes \in Nat \ {0}
  BY ColumnManagerAssumption
<1>2. IsFiniteSet(S) /\ Cardinality(S) <= Cardinality(Seeds)
  BY <1>1, FS_Subset
<1>3. Cardinality(S) \in Nat /\ Cardinality(Seeds) \in Nat
  BY <1>1, <1>2, FS_CardinalityType
<1> QED BY <1>1, <1>2, <1>3

LEMMA CountInvInit == Init => CountInv
<1> SUFFICES ASSUME Init PROVE CountInv
  OBVIOUS
<1>1. Master = {}
  BY DEF Init, Master, Known
<1>2. num_master_columns + lost + Due = 0
  BY DEF Init, Due
<1>3. (0 * NumSizes + 0) % NumSizes = 0
  BY Quotient, ColumnManagerAssumption
<1>4. 0 * NumSizes + 0 = 0
  BY ColumnManagerAssumption
<1> QED BY <1>1, <1>2, <1>3, <1>4, FS_EmptySet DEF CountInv

\* The count stays right when the sum moves by d as the master does, and when one
\* of its terms wraps.
LEMMA CountMoves ==
    ASSUME TypeOK, TypeOK', CountInv, NEW d \in Int,
           (num_master_columns' + lost' + Due') % NumSizes
               = (num_master_columns + lost + Due + d) % NumSizes,
           Cardinality(Master') = Cardinality(Master) + d
    PROVE  CountInv'
<1> DEFINE a == num_master_columns + lost + Due
           c == Cardinality(Master)
<1>1. a \in Int
  BY DEF TypeOK, Due
<1>2. c \in Int /\ c + d \in 0..(NumSizes - 1)
  <2>1. Master \in SUBSET Seeds /\ Master' \in SUBSET Seeds
    BY DEF TypeOK, Master
  <2> QED BY <2>1, SeedsCounted, ColumnManagerAssumption
<1>3. a % NumSizes = c
  BY DEF CountInv
<1> HIDE DEF a, c
<1>4. (a + d) % NumSizes = c + d
  <2>1. NumSizes \in Nat \ {0}
    BY ColumnManagerAssumption
  <2> QED BY <2>1, <1>1, <1>2, <1>3, ModShift
<1> QED BY <1>4 DEF CountInv, a, c

LEMMA CountInvStep == Inv1 /\ Inv1' /\ CountInv /\ [Next]_vars => CountInv'
<1> SUFFICES ASSUME Inv1, Inv1', CountInv, [Next]_vars PROVE CountInv'
  OBVIOUS
<1>0. ColumnsTyped /\ CountsTyped /\ HistoryKept /\ PhaseOK
  BY TypeParts DEF Inv1
<1>a. TypeOK /\ TypeOK' /\ NumSizes \in Nat \ {0}
  BY ColumnManagerAssumption DEF Inv1
<1>b. num_master_columns \in Int /\ lost \in Int /\ moved \in Nat /\ IsFiniteSet(Master)
  <2>1. Master \in SUBSET Seeds
    BY <1>a DEF TypeOK, Master
  <2> QED BY <2>1, <1>a, SeedsCounted DEF TypeOK
<1>c. Cardinality(Master) \in Nat
  BY <1>b, FS_CardinalityType
<1>d. ASSUME Master' = Master, num_master_columns' + lost' + Due' = num_master_columns + lost + Due
      PROVE  CountInv'
  BY <1>d DEF CountInv
<1>1. ASSUME NEW s \in Seeds, EmplaceColumn(s) PROVE CountInv'
  <2>1. /\ Known' = Known \cup {s} /\ columns'[s].var = NoHandle
        /\ \A t \in Known : columns'[t] = columns[t]
    BY <1>0, <1>1, PoolColumnAdded
  <2>2. Master' = Master
    BY <2>1 DEF Master
  <2> QED BY <2>2, <1>1, <1>d DEF EmplaceColumn, Due
<1>2. ASSUME NEW s \in Seeds, NEW v \in Handles, EmplaceMasterColumn(s, v) PROVE CountInv'
  <2>1. Master' = Master \cup {s} /\ s \notin Master
    <3>1. /\ Known' = Known \cup {s} /\ s \notin Known /\ columns'[s].var = v /\ v # NoHandle
          /\ \A t \in Known : columns'[t] = columns[t]
      BY <1>0, <1>2, MasterColumnAdded
    <3> QED BY <3>1 DEF Master
  <2>2. Cardinality(Master') = Cardinality(Master) + 1
    BY <2>1, <1>b, FS_AddElement
  <2>3. /\ num_master_columns' = (num_master_columns + 1) % NumSizes
        /\ lost' = lost /\ Due = 0 /\ Due' = 0
    BY <1>2 DEF EmplaceMasterColumn, Due
  <2>4. (((num_master_columns + 1) % NumSizes) + lost) % NumSizes
            = (num_master_columns + 1 + lost) % NumSizes
    <3>1. num_master_columns + 1 \in Int
      BY <1>b
    <3> QED BY <3>1, <1>b, SizesAdd
  <2>5. num_master_columns' \in Int
    BY <1>a DEF TypeOK
  <2>6. /\ num_master_columns' + lost' + Due' = ((num_master_columns + 1) % NumSizes) + lost
        /\ num_master_columns + 1 + lost = num_master_columns + lost + Due + 1
    BY <2>3, <2>5, <1>b
  <2> QED BY <2>2, <2>4, <2>6, <1>a, CountMoves
<1>3. ASSUME NEW s \in Seeds, NEW v \in Handles, EmplaceMasterColumnRefused(s, v) PROVE CountInv'
  BY <1>3 DEF EmplaceMasterColumnRefused, CountInv, Due, Master, Known
<1>4. ASSUME NEW costs \in [Seeds -> ReducedCosts], NEW S \in SUBSET Known, Broadcast(S, costs)
      PROVE  CountInv'
  <2>1. Known' = Known /\ \A t \in Known : columns'[t].var = columns[t].var
    BY <1>0, <1>4, PricedAll
  <2>2. Master' = Master
    BY <2>1 DEF Master
  <2> QED BY <2>2, <1>4, <1>d DEF Broadcast, Due
<1>5. ASSUME NEW E \in SUBSET Seeds, ManageColumns(E) PROVE CountInv'
  <2>1. Master' = Master
    BY <1>5 DEF ManageColumns, Master, Known
  <2>2. Due = 0 /\ Due' = 0 - moved' /\ moved' = 0
    BY <1>5 DEF ManageColumns, Due
  <2>3. Due' = Due
    <3>1. 0 - 0 = 0
      OBVIOUS
    <3> QED BY <2>2, <3>1
  <2> QED BY <2>1, <2>3, <1>5, <1>d DEF ManageColumns
<1>6. ASSUME NEW s \in Seeds, Evict(s) PROVE CountInv'
  <2>1. s \in Known /\ s \in Master
    BY <1>0, <1>6 DEF Evict, CountsTyped, PhaseOK
  <2>2. /\ Known' = Known /\ columns'[s].var = NoHandle
        /\ \A t \in Known \ {s} : columns'[t] = columns[t]
    BY <2>1, <1>0, <1>6, Moved, EventsTyped DEF Evict
  <2>3. Master' = Master \ {s}
    BY <2>2 DEF Master
  <2>4. Cardinality(Master') = Cardinality(Master) - 1
    BY <2>1, <2>3, <1>b, FS_RemoveElement
  <2>5. /\ num_master_columns' = num_master_columns /\ lost' = lost
        /\ Due = 0 - moved /\ Due' = 0 - (moved + 1)
    BY <1>6 DEF Evict, Due
  <2>6. num_master_columns' + lost' + Due' = num_master_columns + lost + Due + (-1)
    BY <2>5, <1>b
  <2>7. Cardinality(Master') = Cardinality(Master) + (-1)
    BY <2>4, <1>c
  <2> QED BY <2>6, <2>7, <1>a, CountMoves
<1>7. ASSUME NEW A \in SUBSET Seeds, SelectToActivate(A) PROVE CountInv'
  <2>1. Master' = Master
    BY <1>7 DEF SelectToActivate, Master, Known
  <2>2. /\ num_master_columns' = (num_master_columns - moved) % NumSizes
        /\ lost' = lost /\ Due = 0 - moved /\ Due' = 0
    BY <1>7 DEF SelectToActivate, Due
  <2>3. (((num_master_columns - moved) % NumSizes) + lost) % NumSizes
            = (num_master_columns - moved + lost) % NumSizes
    <3>1. num_master_columns - moved \in Int
      BY <1>b
    <3> QED BY <3>1, <1>b, SizesAdd
  <2>4. num_master_columns' \in Int
    BY <1>a DEF TypeOK
  <2>5. /\ num_master_columns' + lost' + Due' = ((num_master_columns - moved) % NumSizes) + lost
        /\ num_master_columns - moved + lost = num_master_columns + lost + Due + 0
    BY <2>2, <2>4, <1>b
  <2>6. Cardinality(Master') = Cardinality(Master) + 0
    BY <2>1, <1>c
  <2> QED BY <2>3, <2>5, <2>6, <1>a, CountMoves
<1>8. ASSUME NEW s \in Seeds, NEW v \in Handles, Activate(s, v) PROVE CountInv'
  <2>1. s \in Known /\ s \in Pool
    BY <1>0, <1>8 DEF Activate, CountsTyped, PhaseOK
  <2>2. /\ Known' = Known /\ columns'[s].var = v
        /\ \A t \in Known \ {s} : columns'[t] = columns[t]
    BY <2>1, <1>0, <1>8, Moved, EventsTyped DEF Activate
  <2>3. Master' = Master \cup {s} /\ s \notin Master
    <3>1. v # NoHandle
      BY ColumnManagerAssumption
    <3> QED BY <2>1, <2>2, <3>1 DEF Master, Pool
  <2>4. Cardinality(Master') = Cardinality(Master) + 1
    BY <2>3, <1>b, FS_AddElement
  <2>5. /\ num_master_columns' = num_master_columns /\ lost' = lost
        /\ Due = moved /\ Due' = moved + 1
    BY <1>8 DEF Activate, Due
  <2>6. num_master_columns' + lost' + Due' = num_master_columns + lost + Due + 1
    BY <2>5, <1>b
  <2> QED BY <2>4, <2>6, <1>a, CountMoves
<1>9. CASE ActivationThrows
  <2>1. Master' = Master
    BY <1>9 DEF ActivationThrows, Master, Known
  <2>2. /\ num_master_columns' = num_master_columns /\ lost' = (lost + moved) % NumSizes
        /\ Due = moved /\ Due' = 0
    BY <1>9 DEF ActivationThrows, Due
  <2>3. (((lost + moved) % NumSizes) + num_master_columns) % NumSizes
            = (lost + moved + num_master_columns) % NumSizes
    <3>1. lost + moved \in Int
      BY <1>b
    <3> QED BY <3>1, <1>b, SizesAdd
  <2>4. lost' \in Int
    BY <1>a DEF TypeOK
  <2>5. /\ num_master_columns' + lost' + Due' = ((lost + moved) % NumSizes) + num_master_columns
        /\ lost + moved + num_master_columns = num_master_columns + lost + Due + 0
    BY <2>2, <2>4, <1>b
  <2>6. Cardinality(Master') = Cardinality(Master) + 0
    BY <2>1, <1>c
  <2> QED BY <2>3, <2>5, <2>6, <1>a, CountMoves
<1>10. CASE ManageColumnsReturns
  <2>1. Master' = Master
    BY <1>10 DEF ManageColumnsReturns, Master, Known
  <2>2. /\ num_master_columns' = (num_master_columns + moved) % NumSizes /\ lost' = lost
        /\ Due = moved /\ Due' = 0
    BY <1>10 DEF ManageColumnsReturns, Due
  <2>3. (((num_master_columns + moved) % NumSizes) + lost) % NumSizes
            = (num_master_columns + moved + lost) % NumSizes
    <3>1. num_master_columns + moved \in Int
      BY <1>b
    <3> QED BY <3>1, <1>b, SizesAdd
  <2>4. num_master_columns' \in Int
    BY <1>a DEF TypeOK
  <2>5. /\ num_master_columns' + lost' + Due' = ((num_master_columns + moved) % NumSizes) + lost
        /\ num_master_columns + moved + lost = num_master_columns + lost + Due + 0
    BY <2>2, <2>4, <1>b
  <2>6. Cardinality(Master') = Cardinality(Master) + 0
    BY <2>1, <1>c
  <2> QED BY <2>3, <2>5, <2>6, <1>a, CountMoves
<1>11. ASSUME NEW P \in SUBSET Seeds, PurgePool(P) PROVE CountInv'
  <2>1. /\ Known' = Known \ (P \cap Pool)
        /\ \A t \in Known \ (P \cap Pool) : columns'[t] = columns[t]
    BY <1>0, <1>11, Purged DEF PurgePool
  <2>2. Master' = Master
    BY <2>1 DEF Master, Pool
  <2> QED BY <2>2, <1>11, <1>d DEF PurgePool, Due
<1>12. CASE UNCHANGED vars
  BY <1>12 DEF vars, CountInv, Due, Master, Known
<1> QED
  <2>1. Pool \in SUBSET Known /\ Master \in SUBSET Known /\ Known \in SUBSET Known
    BY DEF Pool, Master
  <2> QED BY <2>1, <1>1, <1>2, <1>3, <1>4, <1>5, <1>6, <1>7, <1>8, <1>9, <1>10, <1>11, <1>12
          DEF Next, UpdatePoolColumns, UpdateMasterColumns, UpdateColumns
----------------------------------------------------------------------------
(* The theorems *)

LEMMA Inv1Holds == Spec => []Inv1
BY Inv1Init, Inv1Step, PTL DEF Spec

\* The types are right, whatever the client calls.
THEOREM ColumnsStayTyped == Spec => []TypeOK
<1>1. Inv1 => TypeOK
  BY DEF Inv1
<1> QED BY <1>1, Inv1Holds, PTL

\* The properties of a column survive its moves between pool and master as they
\* are documented to, for any sequence of events.
THEOREM HistoryStaysKept == Spec => []HistoryKept
<1>1. Inv1 => HistoryKept
  BY DEF Inv1
<1> QED BY <1>1, Inv1Holds, PTL

\* No call of manage_columns evicts a column and activates it again, for any
\* thresholds that do not cross.
THEOREM ColumnsNeverChurn == Spec => []NoChurn
<1>1. Inv1 => NoChurn
  <2> SUFFICES ASSUME Inv1, phase = "activating", NEW s \in evicted
               PROVE  s \notin todo /\ s \notin Master
    BY DEF NoChurn
  <2>1. s \in Pool /\ columns[s].reduced_cost > HighCost
    BY DEF Inv1, PhaseOK
  <2>2. columns[s].reduced_cost \in Int
    <3>1. columns[s] \in ColumnStates
      BY <2>1 DEF Inv1, TypeOK, Pool
    <3>2. columns[s].reduced_cost \in ReducedCosts \cup {0}
      BY <3>1 DEF ColumnStates
    <3> QED BY <3>2, CostsAreInts
  <2>3. s \in todo => columns[s].reduced_cost < LowCost
    BY DEF Inv1, PhaseOK
  <2>4. s \notin todo
    BY <2>1, <2>2, <2>3, ColumnManagerAssumption
  <2>5. s \notin Master
    BY <2>1 DEF Pool, Master
  <2> QED BY <2>4, <2>5
<1> QED BY <1>1, Inv1Holds, PTL

\* The master holds a variable for each master column and no other of the manager's,
\* through any interleaving of evictions, activations that throw, purges and refusals.
THEOREM MasterStaysModel == Spec => []MasterIsModel
<1>1. Inv1 /\ ModelInv => MasterIsModel
  BY ModelInvIsMasterIsModel DEF Inv1
<1> QED BY <1>1, Inv1Holds, ModelInvInit, ModelInvStep, PTL DEF Spec

\* num_master_columns counts the master columns, but for the activations of calls
\* that an exception ended, for any width of size_t that can count the seeds.
THEOREM CountStaysMaster == Spec => []CountIsMaster
<1>1. Inv1 /\ CountInv => CountIsMaster
  <2> SUFFICES ASSUME Inv1, CountInv, phase = "rest"
               PROVE  (num_master_columns + lost) % NumSizes = Cardinality(Master)
    BY DEF CountIsMaster
  <2>1. num_master_columns + lost + Due = num_master_columns + lost
    BY DEF Inv1, TypeOK, Due
  <2> QED BY <2>1 DEF CountInv
<1> QED BY <1>1, Inv1Holds, CountInvInit, CountInvStep, PTL DEF Spec
=============================================================================
