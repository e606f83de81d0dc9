----------------------------- MODULE MCDenseMap -----------------------------
(***************************************************************************)
(* Four keys: enough for a swap that fills a hole with a doomed pair, with *)
(* a pair to keep, or with a pair that another swap moves again.  Two of   *)
(* the keys collide.                                                       *)
(***************************************************************************)
EXTENDS DenseMap

MCHash == [k \in Keys |-> (k + 1) \div 2]
=============================================================================
