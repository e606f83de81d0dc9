------------------------------ MODULE LpFronts ------------------------------
(***************************************************************************)
(* solve(), the status and refine_lp_status() of the LP classes, and of    *)
(* highs_qp, which is highs_lp here.  The codes are the libraries', one    *)
(* name for those that are told alike.                                     *)
(***************************************************************************)
EXTENDS SolveProtocol

Sole == "sole"    \* of the libraries that keep one solution
----------------------------------------------------------------------------
(* HiGHS *)

HighsTable ==
    [Optimal |-> "optimal", UnboundedOrInfeasible |-> "infeasible_or_unbounded",
     Infeasible |-> "infeasible", Unbounded |-> "unbounded", Interrupt |-> "interrupted",
     Error |-> "failed", Objective |-> "time_limit", TimeLimit |-> "time_limit",
     IterationLimit |-> "iteration_limit"]

HighsStatus(a) == Status(TagOf(HighsTable, a.code))

HighsLpSolve ==
    /\ front \in {"highs_lp", "highs_qp"}
    /\ IF columns = 0 THEN ReturnsAtOnce
       ELSE \E a \in AnswersOver(DOMAIN HighsTable \cup {"Unknown"}, {"Optimal"}, {}) :
               Solved(Sole, a, HighsStatus(a)) /\ UNCHANGED <<columns, is_mip>>
----------------------------------------------------------------------------
(* Gurobi *)

GurobiCompleted ==
    [OPTIMAL |-> "optimal", INF_OR_UNBD |-> "infeasible_or_unbounded",
     INFEASIBLE |-> "infeasible", UNBOUNDED |-> "unbounded"]

GurobiLpStopped ==
    [TIME_LIMIT |-> "time_limit", ITERATION_LIMIT |-> "iteration_limit",
     MEM_LIMIT |-> "memory_limit", USER_OBJ_LIMIT |-> "limit_reached",
     WORK_LIMIT |-> "limit_reached", SUBOPTIMAL |-> "failed",
     NUMERIC |-> "numerical_failure", INTERRUPTED |-> "interrupted"]

GurobiLpStatus(a) ==
    IF a.code \in DOMAIN GurobiCompleted THEN Status(GurobiCompleted[a.code])
    ELSE Told(TagOf(GurobiLpStopped, a.code), a.sol)

GurobiLpAnswers ==
    AnswersOver(DOMAIN GurobiCompleted \cup DOMAIN GurobiLpStopped \cup {"CUTOFF"}, {"OPTIMAL"}, {})

GurobiLpSolve ==
    /\ front = "gurobi_lp"
    /\ \E a \in GurobiLpAnswers :
          Solved(Sole, a, GurobiLpStatus(a)) /\ UNCHANGED <<columns, is_mip>>
----------------------------------------------------------------------------
(* CPLEX *)

CplexLpTable ==
    [OPTIMAL |-> "optimal", OPTIMAL_FACE_UNBOUNDED |-> "optimal_face_unbounded",
     OPTIMAL_INFEAS |-> "optimal_infeasible_unscaled", INForUNBD |-> "infeasible_or_unbounded",
     INFEASIBLE |-> "infeasible", UNBOUNDED |-> "unbounded", ABORT_TIME_LIM |-> "time_limit",
     ABORT_IT_LIM |-> "iteration_limit", NUM_BEST |-> "numerical_failure",
     ABORT_USER |-> "interrupted", ABORT_OBJ_LIM |-> "limit_reached",
     ABORT_OTHER_LIM |-> "limit_reached"]

\* The best solution under numerical trouble and the one at the objective limit are said
\* to be available.
CplexLpStatus(a) ==
    IF a.code \in {"NUM_BEST", "ABORT_OBJ_LIM"} THEN Told(CplexLpTable[a.code], TRUE)
    ELSE Status(TagOf(CplexLpTable, a.code))

CplexLpAnswers ==
    AnswersOver(DOMAIN CplexLpTable \cup {"UNKNOWN"},
                {"OPTIMAL", "OPTIMAL_FACE_UNBOUNDED", "OPTIMAL_INFEAS"},
                {"NUM_BEST", "ABORT_OBJ_LIM"})

CplexLpSolve ==
    /\ front = "cplex_lp"
    /\ \E a \in CplexLpAnswers :
          Solved(Sole, a, CplexLpStatus(a)) /\ UNCHANGED <<columns, is_mip>>
----------------------------------------------------------------------------
(* refine_lp_status: a second run without the reductions that leave the     *)
(* question open                                                            *)

Undecided(s) == Is(s, "infeasible_or_unbounded")

NothingToRefine ==
    /\ ~Undecided(status)
    /\ Ended("refine", "returned")
    /\ UNCHANGED <<front, problem, status, is_mip, library, parameters, fresh, stale>>

\* Reading the parameters or setting them fails, and check() throws before the run.  The
\* first of CPLEX's two parameters may have been set by then.
RefineRefused ==
    /\ Undecided(status)
    /\ parameters' \in {parameters} \cup (IF front = "cplex_lp" THEN {"refining"} ELSE {})
    /\ Ended("refine", "threw")
    /\ UNCHANGED <<front, problem, status, is_mip, library, fresh, stale>>

\* The optimizer fails and check() throws before the parameters are put back.
RefineThrows ==
    /\ Undecided(status)
    /\ solution' \in {solution, "none"} /\ proved' = FALSE
    /\ parameters' = "refining"
    /\ stale' = TRUE
    /\ Ended("refine", "threw")
    /\ UNCHANGED <<front, problem, status, is_mip, fresh>>

\* The second run answers a, which is told as s.
RanAgain(a, s) ==
    /\ Undecided(status)
    /\ Ran(Sole, a)
    /\ status' = s
    /\ fresh' = TRUE /\ stale' = FALSE
    /\ UNCHANGED <<front, problem, is_mip>>

\* The parameters cannot be put back and check() throws.
RefineNotPutBack(a, s) ==
    /\ RanAgain(a, s)
    /\ parameters' = "refining"
    /\ Ended("refine", "threw")

\* Mutant: a status that is still undecided is thrown for before the parameters are put back.
RefinedThrowingFirst(a, s) ==
    /\ RanAgain(a, s)
    /\ parameters' = IF Undecided(s) THEN "refining" ELSE parameters
    /\ Ended("refine", IF Undecided(s) THEN "undecided" ELSE "returned")

\* The parameters are put back as they were found, and then a status that is still
\* undecided is thrown for.
Refined(a, s) ==
    /\ RanAgain(a, s)
    /\ parameters' = parameters
    /\ Ended("refine", IF Undecided(s) THEN "undecided" ELSE "returned")

RefineLpStatus(a, s) == RefineNotPutBack(a, s) \/ Refined(a, s)

GurobiRefineLpStatus ==
    /\ front = "gurobi_lp"
    /\ \/ NothingToRefine
       \/ RefineRefused \/ RefineThrows
       \/ \E a \in GurobiLpAnswers : RefineLpStatus(a, GurobiLpStatus(a))

CplexRefineLpStatus ==
    /\ front = "cplex_lp"
    /\ \/ NothingToRefine
       \/ RefineRefused \/ RefineThrows
       \/ \E a \in CplexLpAnswers : RefineLpStatus(a, CplexLpStatus(a))
----------------------------------------------------------------------------
(* Clp *)

ClpTable == <<"optimal", "infeasible", "unbounded">>

ClpStatus(a) == Status(TagOf(ClpTable, a.code + 1))

ClpSolve ==
    /\ front = "clp_lp"
    /\ IF columns = 0 THEN ReturnsAtOnce
       ELSE \E a \in AnswersOver(0..4, {0}, {}) :
               Solved(Sole, a, ClpStatus(a)) /\ UNCHANGED <<columns, is_mip>>
----------------------------------------------------------------------------
(* COPT *)

CoptLpTable ==
    [OPTIMAL |-> "optimal", INFEASIBLE |-> "infeasible", UNBOUNDED |-> "unbounded",
     TIMEOUT |-> "time_limit", NUMERICAL |-> "numerical_failure",
     UNFINISHED |-> "numerical_failure", INTERRUPTED |-> "interrupted"]

CoptLpStatus(a) == Status(TagOf(CoptLpTable, a.code))

CoptLpAnswers == AnswersOver(DOMAIN CoptLpTable \cup {"UNSTARTED"}, {"OPTIMAL"}, {})

CoptLpSolve ==
    /\ front = "copt_lp"
    /\ \E a \in CoptLpAnswers :
          Solved("lp", a, CoptLpStatus(a)) /\ UNCHANGED <<columns, is_mip>>
----------------------------------------------------------------------------
(* MOSEK: how the run ended, and when it ended by itself what is known of   *)
(* the problem and, of a feasible one, of the solution.                     *)

MosekEnds ==
    [MAX_TIME |-> "time_limit", MAX_ITERATIONS |-> "iteration_limit",
     OBJECTIVE_RANGE |-> "limit_reached", USER_CALLBACK |-> "interrupted",
     NUMERICAL |-> "numerical_failure", INTERNAL |-> "failed"]

MosekProblem ==
    [PRIM_INFEAS_OR_UNBOUNDED |-> "infeasible_or_unbounded", PRIM_INFEAS |-> "infeasible",
     PRIM_AND_DUAL_INFEAS |-> "primal_and_dual_infeasible", DUAL_INFEAS |-> "unbounded"]

MosekLpStatus(a) ==
    CASE a.code \in DOMAIN MosekEnds -> Status(MosekEnds[a.code])
      [] a.code \in DOMAIN MosekProblem -> Status(MosekProblem[a.code])
      [] a.code = "FEAS_OPTIMAL" -> Status("optimal")
      [] OTHER -> Status("unknown")

MosekLpSolve ==
    /\ front = "mosek_lp"
    /\ \E a \in AnswersOver(DOMAIN MosekEnds \cup DOMAIN MosekProblem
                            \cup {"FEAS_OPTIMAL", "FEAS_OTHER", "UNKNOWN"}, {"FEAS_OPTIMAL"}, {}) :
          Solved("bas", a, MosekLpStatus(a)) /\ UNCHANGED <<columns, is_mip>>
----------------------------------------------------------------------------
(* Xpress: why the run stopped, and when it is complete how.                *)

XpressLpStops ==
    [TIMELIMIT |-> "time_limit", ITERLIMIT |-> "iteration_limit", WORKLIMIT |-> "limit_reached",
     MEMORYERROR |-> "out_of_memory", NUMERICALERROR |-> "numerical_failure",
     GENERICERROR |-> "failed", USER |-> "interrupted"]

XpressLpTable ==
    [OPTIMAL |-> "optimal", INFEAS |-> "infeasible", UNBOUNDED |-> "unbounded",
     CUTOFF |-> "limit_reached", UNSOLVED |-> "failed", UNFINISHED |-> "interrupted"]

XpressLpStatus(a) ==
    IF a.code \in DOMAIN XpressLpStops THEN Status(XpressLpStops[a.code])
    ELSE Status(TagOf(XpressLpTable, a.code))

XpressLpSolve ==
    /\ front = "xpress_lp"
    /\ \E a \in AnswersOver(DOMAIN XpressLpStops \cup DOMAIN XpressLpTable \cup {"UNSTARTED"},
                            {"OPTIMAL"}, {}) :
          Solved(Sole, a, XpressLpStatus(a)) /\ UNCHANGED <<columns, is_mip>>
----------------------------------------------------------------------------
(* GLPK: what glp_simplex returns, then the status of the basic solution    *)
(* and whether its value is finite.  The answers that no branch names leave *)
(* the status as it was.                                                    *)

GlpkLpTable ==
    [ENOPFS |-> "unbounded", ENODFS |-> "infeasible", UNBND |-> "unbounded",
     NOT_FINITE |-> "unbounded", OPT |-> "optimal", INFEAS |-> "infeasible",
     NOFEAS |-> "infeasible"]

GlpkLpSolve ==
    /\ front = "glpk_lp"
    /\ \E a \in AnswersOver(DOMAIN GlpkLpTable \cup {"FEAS", "UNDEF"}, {"OPT"}, {"FEAS"}) :
          /\ Solved(Sole, a, IF a.code \in DOMAIN GlpkLpTable
                             THEN Status(GlpkLpTable[a.code]) ELSE status)
          /\ UNCHANGED <<columns, is_mip>>
----------------------------------------------------------------------------
(* SoPlex *)

SoplexTable ==
    [OPTIMAL |-> "optimal", OPTIMAL_UNSCALED_VIOLATIONS |-> "optimal_infeasible_unscaled",
     INForUNBD |-> "infeasible_or_unbounded", INFEASIBLE |-> "infeasible",
     UNBOUNDED |-> "unbounded", STOPPED |-> "failed"]

SoplexStatus(a) == Status(TagOf(SoplexTable, a.code))

SoplexSolve ==
    /\ front = "soplex_lp"
    /\ IF columns = 0 THEN ReturnsAtOnce
       ELSE \E a \in AnswersOver(DOMAIN SoplexTable \cup {"UNKNOWN"},
                                 {"OPTIMAL", "OPTIMAL_UNSCALED_VIOLATIONS"}, {}) :
               Solved(Sole, a, SoplexStatus(a)) /\ UNCHANGED <<columns, is_mip>>
----------------------------------------------------------------------------
LpNext ==
    \/ HighsLpSolve
    \/ GurobiLpSolve \/ GurobiRefineLpStatus
    \/ CplexLpSolve \/ CplexRefineLpStatus
    \/ ClpSolve
    \/ CoptLpSolve
    \/ MosekLpSolve
    \/ XpressLpSolve
    \/ GlpkLpSolve
    \/ SoplexSolve
=============================================================================
