--------------------------- MODULE ColumnManager ---------------------------
(***************************************************************************)
(* column_manager: the columns a column generation has seen, each in the   *)
(* pool or in the restricted master problem, with the properties age,      *)
(* times_activated and reduced_cost listed for both states.                *)
(*                                                                         *)
(* The map of the columns is what unordered_dense_map implements (see      *)
(* DenseMap).  manage_columns is taken one step of its two loops at a      *)
(* time, because the client's add_column lambda, which the second loop     *)
(* calls for each column, can throw.  The master is seen as its handles,   *)
(* and what each is for; a removed handle may be given out again.          *)
(***************************************************************************)
EXTENDS Integers, Sequences, FiniteSets

CONSTANTS Seeds,
          Handles,
          ReducedCosts,  \* the reduced costs that pricing finds
          LowCost,       \* activation asks for a reduced cost below this,
          HighCost,      \* eviction for one above this
          MinAge,        \* and for an age above this
          MaxAge,        \* bound: rounds a column is priced in one state
          MaxTimes,      \* bound: times a column is activated
          NumSizes,      \* size_t wraps at this number
          NoHandle,      \* no variable: the column is in the pool
          NoSeed         \* what a variable is for that is not the manager's

ASSUME ColumnManagerAssumption ==
    /\ ReducedCosts \subseteq Int /\ LowCost \in Int /\ HighCost \in Int
    /\ LowCost <= HighCost
    /\ MinAge \in Nat /\ MaxAge \in Nat /\ MaxTimes \in Nat \ {0}
    /\ NumSizes \in Nat \ {0}
    /\ IsFiniteSet(Seeds) /\ Cardinality(Seeds) < NumSizes
    /\ NoHandle \notin Handles /\ NoSeed \notin Seeds

VARIABLES columns,             \* the state of each column
          num_master_columns,
          model,               \* the variables of the master, and what each is for
          phase,               \* where manage_columns is
          todo,                \* the columns that its loop has yet to move
          moved,               \* num_evicted, then num_activated
          evicted,             \* the columns the call has evicted (history)
          lost,                \* activations no call returned for (history)
          history              \* the events of each column (history)

vars == <<columns, num_master_columns, model, phase, todo, moved, evicted, lost, history>>

Known == DOMAIN columns
Master == {s \in Known : columns[s].var # NoHandle}
Pool == {s \in Known : columns[s].var = NoHandle}

Activated == [kind |-> "activated", cost |-> 0]
Deactivated == [kind |-> "deactivated", cost |-> 0]
Priced(c) == [kind |-> "priced", cost |-> c]

\* A state that holds nothing but the initial values of its properties.
NewState(v) == [var |-> v, age |-> 0, times_activated |-> 0, reduced_cost |-> 0]

\* What the properties of a state do at an event.
Notify(st, e) ==
    [st EXCEPT !.age = IF e.kind = "priced" THEN st.age + 1 ELSE 0,
               !.times_activated = IF e.kind = "activated" THEN @ + 1 ELSE @,
               !.reduced_cost = IF e.kind = "priced" THEN e.cost ELSE @]

\* transfer_common_properties
Transfer(from, to) == [from EXCEPT !.var = to.var]

AddTo(f, k, x) == [j \in DOMAIN f \cup {k} |-> IF j = k THEN x ELSE f[j]]
DropFrom(f, K) == [j \in DOMAIN f \ K |-> f[j]]

Init == /\ columns = [s \in {} |-> NewState(NoHandle)] /\ num_master_columns = 0
        /\ model = [h \in {} |-> NoSeed]
        /\ phase = "rest" /\ todo = {} /\ moved = 0
        /\ evicted = {} /\ lost = 0
        /\ history = [s \in {} |-> <<>>]
----------------------------------------------------------------------------
(* Emplacement *)

\* emplace_column of a new seed, and each turn of emplace_columns that inserts.
EmplaceColumn(s) ==
    /\ phase = "rest" /\ s \notin Known
    /\ columns' = AddTo(columns, s, NewState(NoHandle))
    /\ history' = AddTo(history, s, <<>>)
    /\ UNCHANGED <<num_master_columns, model, phase, todo, moved, evicted, lost>>

\* The client has added v to the master for s and registers it.
EmplaceMasterColumn(s, v) ==
    /\ phase = "rest" /\ s \notin Known /\ v \notin DOMAIN model
    /\ columns' = AddTo(columns, s, Notify(NewState(v), Activated))
    /\ num_master_columns' = (num_master_columns + 1) % NumSizes
    /\ model' = AddTo(model, v, s)
    /\ history' = AddTo(history, s, <<Activated>>)
    /\ UNCHANGED <<phase, todo, moved, evicted, lost>>

\* Mutant: a registration that is refused is counted.
CountRefused(s, v) ==
    /\ phase = "rest" /\ s \in Known /\ v \notin DOMAIN model
    /\ num_master_columns' = (num_master_columns + 1) % NumSizes
    /\ model' = AddTo(model, v, NoSeed)
    /\ UNCHANGED <<columns, phase, todo, moved, evicted, lost, history>>

\* The same for a seed that is known already: the variable stays the client's.
EmplaceMasterColumnRefused(s, v) ==
    /\ phase = "rest" /\ s \in Known /\ v \notin DOMAIN model
    /\ model' = AddTo(model, v, NoSeed)
    /\ UNCHANGED <<columns, num_master_columns, phase, todo, moved, evicted, lost, history>>
----------------------------------------------------------------------------
(* Pricing *)

\* A pricing event for each column of S.
Broadcast(S, costs) ==
    /\ phase = "rest"
    /\ \A s \in S : columns[s].age < MaxAge
    /\ columns' = [s \in Known |-> IF s \in S THEN Notify(columns[s], Priced(costs[s]))
                                   ELSE columns[s]]
    /\ history' = [s \in Known |-> IF s \in S THEN Append(history[s], Priced(costs[s]))
                                   ELSE history[s]]
    /\ UNCHANGED <<num_master_columns, model, phase, todo, moved, evicted, lost>>

UpdatePoolColumns(costs) == Broadcast(Pool, costs)
UpdateMasterColumns(costs) == Broadcast(Master, costs)
UpdateColumns(costs) == Broadcast(Known, costs)
----------------------------------------------------------------------------
(* manage_columns *)

Attractive(s) == columns[s].reduced_cost < LowCost
Unattractive(s) == columns[s].age > MinAge /\ columns[s].reduced_cost > HighCost

\* The eviction strategy selects E among its candidates, and the remove lambda
\* removes their variables.  When the lambda throws nothing has changed.
ManageColumns(E) ==
    /\ phase = "rest"
    /\ E \subseteq {s \in Master : Unattractive(s)}
    /\ model' = DropFrom(model, {columns[s].var : s \in E})
    /\ phase' = "evicting" /\ todo' = E /\ moved' = 0 /\ evicted' = {}
    /\ UNCHANGED <<columns, num_master_columns, lost, history>>

\* Mutant: the properties are transferred over what the notification did.
EvictNotifiedFirst(s) ==
    /\ phase = "evicting" /\ s \in todo
    /\ columns' = [columns EXCEPT ![s] = Transfer(@, Notify(NewState(NoHandle), Deactivated))]
    /\ moved' = moved + 1 /\ todo' = todo \ {s} /\ evicted' = evicted \cup {s}
    /\ history' = [history EXCEPT ![s] = Append(@, Deactivated)]
    /\ UNCHANGED <<num_master_columns, model, phase, lost>>

\* Mutant: an evicted column starts anew in the pool.
EvictForgetting(s) ==
    /\ phase = "evicting" /\ s \in todo
    /\ columns' = [columns EXCEPT ![s] = Notify(NewState(NoHandle), Deactivated)]
    /\ moved' = moved + 1 /\ todo' = todo \ {s} /\ evicted' = evicted \cup {s}
    /\ history' = [history EXCEPT ![s] = Append(@, Deactivated)]
    /\ UNCHANGED <<num_master_columns, model, phase, lost>>

\* Mutant: an evicted column is erased.
EvictErasing(s) ==
    /\ phase = "evicting" /\ s \in todo
    /\ columns' = DropFrom(columns, {s}) /\ history' = DropFrom(history, {s})
    /\ moved' = moved + 1 /\ todo' = todo \ {s} /\ evicted' = evicted \cup {s}
    /\ UNCHANGED <<num_master_columns, model, phase, lost>>

\* One turn of the eviction loop.
Evict(s) ==
    /\ phase = "evicting" /\ s \in todo
    /\ columns' = [columns EXCEPT
           ![s] = Notify(Transfer(@, NewState(NoHandle)), Deactivated)]
    /\ moved' = moved + 1 /\ todo' = todo \ {s} /\ evicted' = evicted \cup {s}
    /\ history' = [history EXCEPT ![s] = Append(@, Deactivated)]
    /\ UNCHANGED <<num_master_columns, model, phase, lost>>

\* The evictions are counted, and the activation strategy selects A among its
\* candidates, which the evicted columns can be.
SelectToActivate(A) ==
    /\ phase = "evicting" /\ todo = {}
    /\ A \subseteq {s \in Pool : Attractive(s) /\ columns[s].times_activated < MaxTimes}
    /\ num_master_columns' = (num_master_columns - moved) % NumSizes
    /\ phase' = "activating" /\ todo' = A /\ moved' = 0
    /\ UNCHANGED <<columns, model, evicted, lost, history>>

\* One turn of the activation loop: the lambda adds the variable v.
Activate(s, v) ==
    /\ phase = "activating" /\ s \in todo /\ v \notin DOMAIN model
    /\ model' = AddTo(model, v, s)
    /\ columns' = [columns EXCEPT ![s] = Notify(Transfer(@, NewState(v)), Activated)]
    /\ moved' = moved + 1 /\ todo' = todo \ {s}
    /\ history' = [history EXCEPT ![s] = Append(@, Activated)]
    /\ UNCHANGED <<num_master_columns, phase, evicted, lost>>

\* The lambda throws, having added nothing, and the loop is left as it is.
ActivationThrows ==
    /\ phase = "activating" /\ todo # {}
    /\ lost' = (lost + moved) % NumSizes
    /\ phase' = "rest" /\ todo' = {} /\ moved' = 0 /\ evicted' = {}
    /\ UNCHANGED <<columns, num_master_columns, model, history>>

ManageColumnsReturns ==
    /\ phase = "activating" /\ todo = {}
    /\ num_master_columns' = (num_master_columns + moved) % NumSizes
    /\ phase' = "rest" /\ moved' = 0 /\ evicted' = {}
    /\ UNCHANGED <<columns, model, todo, lost, history>>

\* Mutant: the predicate is not kept from the columns of the master.
PurgeAny(P) ==
    /\ phase = "rest"
    /\ columns' = DropFrom(columns, P) /\ history' = DropFrom(history, P)
    /\ UNCHANGED <<num_master_columns, model, phase, todo, moved, evicted, lost>>

\* The columns of the pool that are in P are forgotten.
PurgePool(P) ==
    /\ phase = "rest"
    /\ columns' = DropFrom(columns, P \cap Pool) /\ history' = DropFrom(history, P \cap Pool)
    /\ UNCHANGED <<num_master_columns, model, phase, todo, moved, evicted, lost>>

Next ==
    \/ \E s \in Seeds : EmplaceColumn(s) \/ Evict(s)
    \/ \E s \in Seeds, v \in Handles :
           EmplaceMasterColumn(s, v) \/ EmplaceMasterColumnRefused(s, v) \/ Activate(s, v)
    \/ \E costs \in [Seeds -> ReducedCosts] :
           UpdatePoolColumns(costs) \/ UpdateMasterColumns(costs) \/ UpdateColumns(costs)
    \/ \E S \in SUBSET Seeds : ManageColumns(S) \/ SelectToActivate(S) \/ PurgePool(S)
    \/ ActivationThrows \/ ManageColumnsReturns

Spec == Init /\ [][Next]_vars
----------------------------------------------------------------------------
(* Properties *)

ColumnStates == [var : Handles \cup {NoHandle}, age : Nat, times_activated : Nat,
                 reduced_cost : ReducedCosts \cup {0}]
Events == [kind : {"activated", "deactivated", "priced"}, cost : ReducedCosts \cup {0}]

TypeOK ==
    /\ Known \subseteq Seeds /\ columns \in [Known -> ColumnStates]
    /\ history \in [Known -> Seq(Events)]
    /\ num_master_columns \in 0..(NumSizes - 1) /\ lost \in 0..(NumSizes - 1)
    /\ DOMAIN model \subseteq Handles /\ model \in [DOMAIN model -> Seeds \cup {NoSeed}]
    /\ phase \in {"rest", "evicting", "activating"}
    /\ todo \subseteq Known /\ evicted \subseteq Known /\ moved \in Nat

\* The columns whose variable is in the model: all of the master's, but those
\* that manage_columns has removed and not yet moved to the pool.
InModel == IF phase = "evicting" THEN Master \ todo ELSE Master

\* The master columns and the manager's variables in the model are each other's
\* inverse through any interleaving of evictions, activations, purges, refusals
\* and recycled handles: no column is in the model twice or forgotten there.
MasterIsModel ==
    {<<columns[s].var, s>> : s \in InModel}
        = {<<h, model[h]>> : h \in {g \in DOMAIN model : model[g] # NoSeed}}

\* The count is the number of master columns but for the activations of calls that
\* the client's lambda ended with an exception, modulo the width of size_t.
CountIsMaster ==
    phase = "rest" => (num_master_columns + lost) % NumSizes = Cardinality(Master)

\* What the properties are documented to be, read from a column's events:
\* how often it entered the master, for how many pricing rounds it is in its
\* state, and its last known reduced cost.
TimesActivated(h) == Cardinality({i \in DOMAIN h : h[i].kind = "activated"})
Age(h) == Cardinality({i \in DOMAIN h : \A j \in i..Len(h) : h[j].kind = "priced"})
PricedLast(h, i) == /\ h[i].kind = "priced"
                    /\ \A j \in (i + 1)..Len(h) : h[j].kind # "priced"

\* The properties survive the moves between pool and master as documented,
\* whatever the order of events.
HistoryKept ==
    \A s \in Known :
        /\ columns[s].times_activated = TimesActivated(history[s])
        /\ columns[s].age = Age(history[s])
        /\ \A i \in DOMAIN history[s] :
               PricedLast(history[s], i) => columns[s].reduced_cost = history[s][i].cost

\* No call of manage_columns evicts a column and activates it again, although the
\* evicted columns are in the pool when the activation strategy selects.
NoChurn == phase = "activating" => evicted \cap (todo \cup Master) = {}
=============================================================================
