--------------------------- MODULE SolveProtocol ---------------------------
(***************************************************************************)
(* What the model classes share around solve(): the status they keep, the  *)
(* solution that the library keeps, and what clients do in between.  The   *)
(* solvers themselves are outside: a run ends with any answer its library  *)
(* can give, and leaves a solution of some kind or none.                   *)
(***************************************************************************)
EXTENDS Naturals, SolveStatus

CONSTANTS Fronts,      \* the model classes that behaviours are about
          MaxColumns   \* bound on the number of variables

ASSUME ProtocolAssumption == MaxColumns \in Nat

VARIABLES front,       \* the class of the model
          columns,     \* the number of its variables
          integers,    \* whether the library takes one of them for integer
          status,      \* _status
          is_mip,      \* _is_mip of copt_milp
          callback,    \* whether a candidate solution callback is set (cplex_milp)
          solution,    \* the kind of solution that the library keeps, or "none"
          proved,      \* whether its last run proved an optimum
          parameters,  \* the library's presolve parameters: the client's, or "refining"
          fresh,       \* nothing was changed since the last solve
          stale,       \* the optimizer threw after the status was written
          call         \* the last call and how it ended

problem == <<columns, integers, callback>>
library == <<solution, proved>>
protocolVars == <<front, problem, status, is_mip, library, parameters, fresh, stale, call>>

Ended(op, how) == call' = [op |-> op, ended |-> how]
----------------------------------------------------------------------------
(* The library *)

\* The answers of a run: codes of which `optimal' mean a proved optimum, and `carrying'
\* a solution that is not proved.
AnswersOver(codes, optimal, carrying) ==
    {a \in [code : codes, optimal : BOOLEAN, sol : BOOLEAN] :
        /\ a.optimal <=> a.code \in optimal
        /\ a.code \in optimal \cup carrying => a.sol}

Ran(kind, a) ==
    /\ solution' = IF a.sol THEN kind ELSE "none"
    /\ proved' = a.optimal
----------------------------------------------------------------------------
(* solve() *)

\* A solve that ends with the answer a, a solution of the kind given, and status s.
Solved(kind, a, s) ==
    /\ Ran(kind, a)
    /\ status' = s
    /\ fresh' = TRUE /\ stale' = FALSE
    /\ Ended("solve", "returned")
    /\ UNCHANGED <<front, integers, callback, parameters>>

\* A solve that returns before it asks the library.
ReturnsAtOnce ==
    /\ fresh' = TRUE
    /\ Ended("solve", "returned")
    /\ UNCHANGED <<front, problem, status, is_mip, library, parameters, stale>>

\* The classes whose solve() checks what the optimizer returns.
Checking == {"highs_lp", "highs_milp", "highs_qp", "gurobi_lp", "gurobi_milp", "cplex_lp",
             "cplex_milp", "scip_milp", "copt_lp", "copt_milp", "mosek_lp", "mosek_milp",
             "xpress_lp", "xpress_milp"}

\* The optimizer fails and check() throws: the status is not written.  _is_mip was read
\* before.
SolveThrows ==
    /\ front \in Checking
    /\ front \in {"highs_lp", "highs_milp", "highs_qp"} => columns > 0
    /\ solution' \in {solution, "none"} /\ proved' = FALSE
    /\ is_mip' = IF front = "copt_milp" THEN integers ELSE is_mip
    /\ fresh' = TRUE /\ stale' = TRUE
    /\ Ended("solve", "threw")
    /\ UNCHANGED <<front, problem, status, parameters>>
----------------------------------------------------------------------------
(* What else clients do *)

\* The library may drop its solution when the problem changes.
Changed ==
    /\ solution' \in {solution, "none"}
    /\ fresh' = FALSE
    /\ Ended("change", "returned")
    /\ UNCHANGED <<front, status, is_mip, proved, parameters, stale>>

Milps == {"highs_milp", "gurobi_milp", "cplex_milp", "cbc_milp", "scip_milp", "copt_milp",
          "mosek_milp", "xpress_milp", "glpk_milp"}
Removing == {"highs_lp", "highs_milp", "highs_qp", "gurobi_lp", "gurobi_milp", "cplex_lp",
             "cplex_milp", "clp_lp"}

\* To CPLEX a problem that was given a type stays a MILP.
TypedForGood == front = "cplex_milp"

\* Variables are added and removed, bounds, rows and the objective changed.
ChangeProblem(n) ==
    /\ n < columns => front \in Removing
    /\ columns' = n
    /\ integers' = (integers /\ (n > 0 \/ TypedForGood))
    /\ Changed /\ UNCHANGED callback

SetTypes(b) ==
    /\ front \in Milps /\ columns > 0
    /\ integers' = (b \/ TypedForGood)
    /\ Changed /\ UNCHANGED <<columns, callback>>

SetCandidateSolutionCallback ==
    /\ front = "cplex_milp"
    /\ callback' = TRUE
    /\ Ended("change", "returned")
    /\ UNCHANGED <<front, columns, integers, status, is_mip, library, parameters, fresh, stale>>

Init ==
    /\ front \in Fronts
    /\ columns = 0 /\ integers = FALSE /\ callback = FALSE
    /\ status = Status("unknown")
    /\ is_mip \in (IF front = "copt_milp" THEN BOOLEAN ELSE {FALSE})
    /\ solution = "none" /\ proved = FALSE
    /\ parameters = "client"
    /\ fresh = FALSE /\ stale = FALSE
    /\ call = [op |-> "construct", ended |-> "returned"]
=============================================================================
