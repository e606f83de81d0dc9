-------------------------- MODULE MCColumnManager --------------------------
(***************************************************************************)
(* Two columns and three variables: a column can be evicted while the      *)
(* other is activated with the handle it had.  A history is seen as the    *)
(* properties it defines, which is all that is said of it.                 *)
(***************************************************************************)
EXTENDS ColumnManager

LastCost(h) == {h[i].cost : i \in {j \in DOMAIN h : PricedLast(h, j)}}

View == <<columns, num_master_columns, model, phase, todo, moved, evicted, lost,
          [s \in DOMAIN history |->
               <<TimesActivated(history[s]), Age(history[s]), LastCost(history[s])>>]>>

=============================================================================
