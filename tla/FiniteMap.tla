----------------------------- MODULE FiniteMap -----------------------------
(***************************************************************************)
(* What unordered_dense_map promises, and std::unordered_map with it: a    *)
(* finite map from keys to values.  erase_if is a loop that erases one key *)
(* after the other, so it needs no operation of its own here.              *)
(***************************************************************************)
CONSTANTS Keys, Values

VARIABLE map

Init == map = [k \in {} |-> 0]

TryEmplace(k, v) ==
    /\ k \notin DOMAIN map
    /\ map' = [j \in DOMAIN map \cup {k} |-> IF j = k THEN v ELSE map[j]]

Assign(k, v) == k \in DOMAIN map /\ map' = [map EXCEPT ![k] = v]

Erase(k) == k \in DOMAIN map /\ map' = [j \in DOMAIN map \ {k} |-> map[j]]

Clear == map' = [k \in {} |-> 0]

Next == \/ \E k \in Keys, v \in Values : TryEmplace(k, v) \/ Assign(k, v)
        \/ \E k \in Keys : Erase(k)
        \/ Clear

Spec == Init /\ [][Next]_map
=============================================================================
