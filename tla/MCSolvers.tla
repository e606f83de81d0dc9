----------------------------- MODULE MCSolvers -----------------------------
(***************************************************************************)
(* The models of the solvers that never remove a variable, each on a small *)
(* problem.  Generic code is compiled for one of them: `solver' says       *)
(* which, and stays as it is.  Two columns, which add_variables can make   *)
(* at once, and two rows.                                                  *)
(***************************************************************************)
EXTENDS SolverInstance

CONSTANTS BoundKinds,  \* parameters of new variables, for every kind of bounds
          Positive,    \* and some without a negative bound
          CbcRhs,      \* right-hand sides of Cbc's rows
          SignedCoefs, SignedTermCoefs, SoplexParams,  \* SoPlex: terms that cancel out,
          SoplexTerms                                  \* and as many as it takes

ASSUME SolverDataAssumption ==
    /\ BoundKinds \cup Positive \subseteq [obj : Coefs, lb : Bounds, ub : Bounds]
    /\ CbcRhs \subseteq Int /\ \A b \in CbcRhs : -Infinity < b /\ b < Infinity
    /\ SignedCoefs \subseteq Int /\ 0 \in SignedCoefs /\ SignedTermCoefs \subseteq SignedCoefs
    /\ SoplexParams \subseteq [obj : SignedCoefs, lb : Bounds, ub : Bounds]
    /\ SoplexTerms \in Nat

VARIABLES solver,
          held, heldRows,                      \* MOSEK, Xpress (columns), Cbc, SCIP (rows)
          passed,                              \* SoPlex
          cache, overrun, lazy_num_variables, lazy_num_constraints,  \* Cbc
          variables, constraints               \* SCIP

lists == <<held, heldRows>>
counters == <<cache, overrun, lazy_num_variables, lazy_num_constraints>>
pointers == <<variables, constraints>>

MCCoefs == 0..2
MCTermCoefs == {1}
MCConstants == 0..1
MCBounds == {-9, 0, 1, 9}
MCParams == {[obj |-> 0, lb |-> 0, ub |-> 9], [obj |-> 1, lb |-> -9, ub |-> 1]}
MCBoundKinds == MCParams \cup {[obj |-> 0, lb |-> -9, ub |-> 9], [obj |-> 0, lb |-> 1, ub |-> 1]}
MCPositive == {[obj |-> 0, lb |-> 0, ub |-> 9], [obj |-> 1, lb |-> 0, ub |-> 1]}
MCSignedCoefs == -3..3
MCSignedTermCoefs == {-1, 0, 1}
MCSoplexParams == {[obj |-> 1, lb |-> -9, ub |-> 1]}
MCRhs == {1}
MCTwoRhs == {1, 2}

Copt   == INSTANCE CoptModel
Mosek  == INSTANCE MosekModel WITH Params <- BoundKinds
Xpress == INSTANCE XpressModel
Glpk   == INSTANCE GlpkModel WITH Params <- BoundKinds
Soplex == INSTANCE SoplexModel WITH Coefs <- SignedCoefs, TermCoefs <- SignedTermCoefs,
                                    Params <- SoplexParams, MaxTerms <- SoplexTerms
Cbc    == INSTANCE CbcModel WITH Params <- Positive, Rhs <- CbcRhs
Scip   == INSTANCE ScipModel WITH Params <- Positive

\* What the models that are not in use would keep.
NoLists == held = {} /\ heldRows = <<>>
NotPassed == passed = Soplex!Nothing
NoCounters == cache = 0 /\ overrun = FALSE /\ lazy_num_variables = 0 /\ lazy_num_constraints = 0
NoPointers == variables = <<>> /\ constraints = <<>>

Init ==
    \/ solver = "copt" /\ Copt!Init /\ NoLists /\ NotPassed /\ NoCounters /\ NoPointers
    \/ solver = "mosek" /\ Mosek!Init /\ NotPassed /\ NoCounters /\ NoPointers
    \/ solver = "xpress" /\ Xpress!Init /\ heldRows = <<>> /\ NotPassed /\ NoCounters /\ NoPointers
    \/ solver = "glpk" /\ Glpk!Init /\ NoLists /\ NotPassed /\ NoCounters /\ NoPointers
    \/ solver = "soplex" /\ Soplex!Init /\ NoLists /\ NoCounters /\ NoPointers
    \/ solver = "cbc" /\ Cbc!Init /\ NotPassed /\ NoPointers
    \/ solver = "scip" /\ Scip!Init /\ held = {} /\ NotPassed /\ NoCounters

Next ==
    /\ UNCHANGED solver
    /\ \/ solver = "copt" /\ Copt!Next /\ UNCHANGED <<lists, passed, counters, pointers>>
       \/ solver = "mosek" /\ Mosek!Next /\ UNCHANGED <<passed, counters, pointers>>
       \/ solver = "xpress" /\ Xpress!Next /\ UNCHANGED <<heldRows, passed, counters, pointers>>
       \/ solver = "glpk" /\ Glpk!Next /\ UNCHANGED <<lists, passed, counters, pointers>>
       \/ solver = "soplex" /\ Soplex!Next /\ UNCHANGED <<lists, counters, pointers>>
       \/ solver = "cbc" /\ Cbc!Next /\ UNCHANGED <<passed, pointers>>
       \/ solver = "scip" /\ Scip!Next /\ UNCHANGED <<held, passed, counters>>

all == <<solver, vars, lists, passed, counters, pointers>>
Spec == Init /\ [][Next]_all
----------------------------------------------------------------------------
(* Bounds *)

\* What add_variable() makes by default, as the models keep it.
Default == [obj |-> 0, lb |-> 0, ub |-> 9, integer |-> FALSE, kind |-> "CV",
            type |-> IF solver \in {"copt", "mosek"} THEN "continuous" ELSE "C"]

ColumnEdits(c) == Cardinality({f \in DOMAIN c \cap DOMAIN Default : c[f] # Default[f]})
Edits(c) == ColumnEdits(c) + Cardinality({r \in DOMAIN c.coefs : c.coefs[r] # 0})

\* Whether a row is another than `<= 1'.
Edited(row) ==
    CASE solver \in {"copt", "xpress"} -> row.sense # "L"
      [] solver = "mosek" -> row.key # "UP"
      [] solver = "glpk" -> row.type # "UP"
      [] solver = "cbc" -> row # [lower |-> -9, upper |-> 1]
      [] solver = "scip" -> row.lhs # -9

Known == IF solver \in {"mosek", "xpress"} THEN held ELSE DOMAIN cols
KnownRows == IF solver = "mosek" THEN {heldRows[k] : k \in DOMAIN heldRows} ELSE DOMAIN rows

\* The columns and rows that the client has no handle of.
Unheld == Cardinality(DOMAIN cols \ Known)
          + (IF solver \in {"mosek", "cbc", "scip"} THEN Len(rows) - Len(heldRows) ELSE 0)

\* At most two values that the client knows of are not the default; a column or row
\* without a handle is one, and a variable that the cache of Cbc lacks.  What SoPlex
\* gets has no part in a later call.
FewEdits ==
    IF solver = "soplex"
    THEN /\ \A i \in DOMAIN cols : cols[i].obj \in 0..1
         /\ \A i \in DOMAIN cols, r \in DOMAIN rows : cols[i].coefs[r] \in 0..1
         /\ offset = 0 /\ ~maximize
    ELSE /\ ~overrun
         /\ MapThenSumSet(LAMBDA i : Edits(cols[i]), Known)
            + Cardinality({r \in KnownRows : Edited(rows[r])})
            + Unheld + (lazy_num_variables - cache)
            + offset + (IF maximize THEN 1 ELSE 0) <= 2

\* No guard and no update reads `call' or `passed'.
WithoutCall ==
    <<solver, instance, lists, counters, pointers,
      solver = "soplex" => Soplex!RoomForNonzeros>>
----------------------------------------------------------------------------
(* The properties of the models, of whichever is in use *)

\* Every call on a COPT model does what it says: the arrays that are not passed
\* leave the defaults that were asked for.
CoptKeepsPromise ==
    [][solver = "copt" => [Copt!Promise!Next]_(Copt!Promise!vars)]_all

\* A MOSEK handle is still its column after columns that nobody has a handle of.
MosekKeepsPromise ==
    [][solver = "mosek" => [Mosek!Promise!Next]_(Mosek!Promise!vars)]_all

\* What calls that threw left behind in a MOSEK task constrains nothing.
MosekRemnantsConstrainNothing == solver = "mosek" => Mosek!RemnantsConstrainNothing

\* An Xpress variable has the parameters it was asked for although its type comes in
\* a second call; when that is refused no variable of the client changes.
XpressKeepsPromise ==
    [][solver = "xpress" => [Xpress!Promise!Next]_(Xpress!Promise!vars)]_all

\* A GLPK variable has the bounds and type it was given last, through all the kinds
\* of bounds.
GlpkKeepsPromise ==
    [][solver = "glpk" => [Glpk!Promise!Next]_(Glpk!Promise!vars)]_all

\* SoPlex is told to make room enough, however the terms of a row repeat and cancel.
SoplexRoomForNonzeros == solver = "soplex" => Soplex!RoomForNonzeros

\* Every call on a SoPlex model but add_column does what it says.
SoplexKeepsPromiseOnRows ==
    [][solver = "soplex" =>
          call'[1] = "add_column" \/ [Soplex!Promise!Next]_(Soplex!Promise!vars)]_all

\* The counters of a Cbc model stay those of Cbc, with the rows that a throwing
\* generator leaves and the variable that solving an empty model adds.  This leaves out
\* the ranges with a variable that the cache has no entry of, see CacheHoldsAllIds.
CbcKeepsPromise ==
    [][solver = "cbc" => overrun' \/ [Cbc!Promise!Next]_(Cbc!Promise!vars)]_all

\* A SCIP handle is still its variable or constraint after constraints that nobody
\* has a handle of.
ScipKeepsPromise ==
    [][solver = "scip" => [Scip!Promise!Next]_(Scip!Promise!vars)]_all

\* The cache that merges the terms of a row has an entry for the largest id among them, as
\* _prepare_coalescing asks for: add_ranged_constraint of Cbc's model never calls it.
CacheHoldsAllIds == solver = "cbc" => Cbc!CacheHoldsAllIds
=============================================================================
