----------------------------- MODULE HighsMilp -----------------------------
(***************************************************************************)
(* What highs_milp adds to highs_base that writes the model: the setters   *)
(* of a variable's type.  They pass v.id(), the handle, where HiGHS wants  *)
(* a column.  When there is no such column HiGHS refuses, check() throws   *)
(* in a noexcept function and the program ends: these calls have no step.  *)
(***************************************************************************)
EXTENDS HighsModel

\* set_continuous and set_integer.
SetType(h, t) ==
    /\ h \in DOMAIN cols
    /\ call' = <<"set_type", h, t>>
    /\ cols' = [cols EXCEPT ![h].type = t]
    /\ UNCHANGED <<remapping, rows, held>>

\* The bounds go through _native_id, the type does not.
SetBinary(h) ==
    /\ h \in DOMAIN cols
    /\ call' = <<"set_type", h, "integer">>
    /\ cols' = [[cols EXCEPT ![NativeId(h)] = [@ EXCEPT !.lb = 0, !.ub = 1]]
                    EXCEPT ![h].type = "integer"]
    /\ UNCHANGED <<remapping, rows, held>>

MilpNext == \/ Next
            \/ \E h \in held, t \in Types : SetType(h, t)
            \/ \E h \in held : SetBinary(h)

MilpSpec == Init /\ [][MilpNext]_vars

\* Handles of surviving variables stay valid across remove_variable: giving a
\* variable a type changes that variable's type and no other's.
TypeReachesItsVariable ==
    [][\A h \in held, t \in Types : call' = <<"set_type", h, t>> =>
          \A g \in held : cols'[NativeId(g)].type =
                              IF g = h THEN t ELSE cols[NativeId(g)].type]_vars
=============================================================================
