----------------------------- MODULE MilpFronts -----------------------------
(***************************************************************************)
(* solve(), the status and the solution that is read of the MILP classes.  *)
(* Some of them run an LP optimizer when no variable is integer, and must  *)
(* then be asked as an LP for the status and the solution.                 *)
(***************************************************************************)
EXTENDS LpFronts
----------------------------------------------------------------------------
(* HiGHS *)

HighsMilpStops ==
    [Interrupt |-> "interrupted", Error |-> "failed", Objective |-> "time_limit",
     TimeLimit |-> "time_limit", SolutionLimit |-> "solution_limit"]

HighsMilpStatus(a) ==
    IF a.code \in DOMAIN HighsMilpStops \cup {"IterationLimit", "Unknown"}
    THEN Told(TagOf(HighsMilpStops, a.code), a.sol)
    ELSE Status(HighsTable[a.code])

HighsMilpSolve ==
    /\ front = "highs_milp"
    /\ IF columns = 0 THEN ReturnsAtOnce
       ELSE \E a \in AnswersOver(DOMAIN HighsTable \cup {"SolutionLimit", "Unknown"}, {"Optimal"}, {}) :
               Solved(Sole, a, HighsMilpStatus(a)) /\ UNCHANGED <<columns, is_mip>>
----------------------------------------------------------------------------
(* Gurobi *)

GurobiMilpStopped ==
    [INTERRUPTED |-> "interrupted", SUBOPTIMAL |-> "failed", NUMERIC |-> "numerical_failure",
     TIME_LIMIT |-> "time_limit", NODE_LIMIT |-> "node_limit",
     SOLUTION_LIMIT |-> "solution_limit", MEM_LIMIT |-> "memory_limit",
     USER_OBJ_LIMIT |-> "limit_reached", WORK_LIMIT |-> "limit_reached"]

GurobiMilpStatus(a) ==
    IF a.code \in DOMAIN GurobiCompleted THEN Status(GurobiCompleted[a.code])
    ELSE Told(TagOf(GurobiMilpStopped, a.code), a.sol)

GurobiMilpSolve ==
    /\ front = "gurobi_milp"
    /\ \E a \in AnswersOver(DOMAIN GurobiCompleted \cup DOMAIN GurobiMilpStopped \cup {"CUTOFF"},
                            {"OPTIMAL"}, {}) :
          Solved(Sole, a, GurobiMilpStatus(a)) /\ UNCHANGED <<columns, is_mip>>
----------------------------------------------------------------------------
(* CPLEX, which solves a problem without integer variables as an LP, and    *)
(* not under a candidate solution callback                                  *)

CplexMilpCompleted ==
    [OPTIMAL |-> "optimal", OPTIMAL_INFEAS |-> "optimal_infeasible_unscaled",
     INForUNBD |-> "infeasible_or_unbounded", UNBOUNDED |-> "unbounded",
     INFEASIBLE |-> "infeasible"]

CplexMilpStopped ==
    [TIME_LIM |-> "time_limit", NODE_LIM |-> "node_limit", SOL_LIM |-> "solution_limit",
     MEM_LIM |-> "memory_limit", FAIL |-> "failed", FAIL_NO_TREE |-> "out_of_memory",
     ABORT |-> "interrupted", DETTIME_LIM |-> "limit_reached"]

CplexMilpStatus(a) ==
    CASE a.code \in DOMAIN CplexMilpCompleted -> Status(CplexMilpCompleted[a.code])
      [] a.code \in DOMAIN CplexMilpStopped -> Told(CplexMilpStopped[a.code], a.sol)
      [] OTHER -> Status("unknown")

CplexMilpAnswers ==
    AnswersOver(DOMAIN CplexMilpCompleted \cup DOMAIN CplexMilpStopped \cup {"UNKNOWN"},
                {"OPTIMAL", "OPTIMAL_INFEAS"}, {})

CplexMilpSolve ==
    /\ front = "cplex_milp"
    /\ IF integers
       THEN \E a \in CplexMilpAnswers :
               Solved(Sole, a, CplexMilpStatus(a)) /\ UNCHANGED <<columns, is_mip>>
       ELSE IF callback
       THEN /\ fresh' = TRUE /\ stale' = TRUE
            /\ Ended("solve", "threw")
            /\ UNCHANGED <<front, problem, status, is_mip, library, parameters>>
       ELSE \E a \in CplexLpAnswers :
               Solved(Sole, a, CplexLpStatus(a)) /\ UNCHANGED <<columns, is_mip>>
----------------------------------------------------------------------------
(* Cbc: without integer variables the flags of its LP are asked, otherwise  *)
(* the status of the search: status 0 is told apart by the flags, and 1 by  *)
(* the secondary status, which the names of CbcStops end in.                *)

CbcLpTable ==
    [OPTIMAL |-> "optimal", INFEASIBLE |-> "infeasible", UNBOUNDED |-> "unbounded",
     ABANDONED |-> "numerical_failure"]

CbcStops ==
    [INFEASIBLE_1 |-> "infeasible", GAP_2 |-> "unknown", NODES_3 |-> "node_limit",
     TIME_4 |-> "time_limit", USER_5 |-> "interrupted", SOLUTIONS_6 |-> "solution_limit",
     UNBOUNDED_7 |-> "unbounded", ITERATIONS_8 |-> "limit_reached", MORE |-> "unknown"]

CbcEnds == [ABANDONED |-> "numerical_failure", EVENT |-> "interrupted"]

CbcStatus(a) ==
    CASE ~integers -> Status(TagOf(CbcLpTable, a.code))
      [] integers /\ a.code \in {"OPTIMAL", "INFEASIBLE", "UNBOUNDED"} -> Status(CbcLpTable[a.code])
      [] integers /\ a.code \in {"INFEASIBLE_1", "UNBOUNDED_7"} -> Status(CbcStops[a.code])
      [] integers /\ a.code \in DOMAIN CbcStops \ {"INFEASIBLE_1", "UNBOUNDED_7"} ->
            Told(CbcStops[a.code], a.sol)
      [] OTHER -> Status(TagOf(CbcEnds, a.code))

\* A problem without variables is given one.
CbcSolve ==
    /\ front = "cbc_milp"
    /\ \E a \in AnswersOver(DOMAIN CbcLpTable \cup {"UNKNOWN"}
                            \cup (IF integers THEN DOMAIN CbcStops \cup DOMAIN CbcEnds ELSE {}),
                            {"OPTIMAL"}, {}) :
          Solved(IF integers THEN "best" ELSE "columns", a, CbcStatus(a))
    /\ columns' = (IF columns = 0 THEN 1 ELSE columns)
    /\ UNCHANGED is_mip

\* The best solution, or the LP's where there is none.
CbcRead == IF solution = "best" THEN "best" ELSE "columns"
----------------------------------------------------------------------------
(* SCIP *)

ScipTable ==
    [OPTIMAL |-> "optimal", INFORUNBD |-> "infeasible_or_unbounded",
     INFEASIBLE |-> "infeasible", UNBOUNDED |-> "unbounded", TIMELIMIT |-> "time_limit",
     MEMLIMIT |-> "memory_limit", NODELIMIT |-> "node_limit", SOLLIMIT |-> "solution_limit",
     OTHER_LIMIT |-> "limit_reached", STALLNODELIMIT |-> "numerical_failure",
     INTERRUPT |-> "interrupted"]

ScipStatus(a) == Status(TagOf(ScipTable, a.code))

ScipSolve ==
    /\ front = "scip_milp"
    /\ \E a \in AnswersOver(DOMAIN ScipTable \cup {"UNKNOWN"}, {"OPTIMAL"}, {}) :
          Solved(Sole, a, ScipStatus(a)) /\ UNCHANGED <<columns, is_mip>>
----------------------------------------------------------------------------
(* COPT, which is asked once for each solve whether the problem is a MIP    *)

CoptMilpTable ==
    [OPTIMAL |-> "optimal", INF_OR_UNB |-> "infeasible_or_unbounded",
     INFEASIBLE |-> "infeasible", UNBOUNDED |-> "unbounded", TIMEOUT |-> "time_limit",
     NODELIMIT |-> "node_limit", UNFINISHED |-> "numerical_failure",
     INTERRUPTED |-> "interrupted"]

CoptMilpStatus(a) == Status(TagOf(CoptMilpTable, a.code))

CoptMilpSolve ==
    /\ front = "copt_milp"
    /\ is_mip' = integers
    /\ UNCHANGED columns
    /\ IF is_mip'
       THEN \E a \in AnswersOver(DOMAIN CoptMilpTable \cup {"UNSTARTED"}, {"OPTIMAL"}, {}) :
               Solved("mip", a, CoptMilpStatus(a))
       ELSE \E a \in CoptLpAnswers : Solved("lp", a, CoptLpStatus(a))

\* Mutant: COPT is asked again, about the problem of now.
CoptMilpReadNow == IF integers THEN "mip" ELSE "lp"

CoptMilpRead == IF is_mip THEN "mip" ELSE "lp"
----------------------------------------------------------------------------
(* MOSEK, whose mixed integer optimizer is chosen by the constructor for    *)
(* problems without integer variables too                                   *)

MosekMilpEnds == [MIO_BRANCHES |-> "node_limit", INT_SOLUTIONS |-> "solution_limit"]

MosekMilpStatus(a) ==
    IF a.code \in DOMAIN MosekMilpEnds THEN Status(MosekMilpEnds[a.code]) ELSE MosekLpStatus(a)

MosekMilpSolve ==
    /\ front = "mosek_milp"
    /\ \E a \in AnswersOver(DOMAIN MosekMilpEnds \cup DOMAIN MosekEnds \cup DOMAIN MosekProblem
                            \cup {"FEAS_OPTIMAL", "FEAS_OTHER", "UNKNOWN"}, {"FEAS_OPTIMAL"}, {}) :
          Solved("itg", a, MosekMilpStatus(a)) /\ UNCHANGED <<columns, is_mip>>
----------------------------------------------------------------------------
(* Xpress: solve() runs the optimizer and does not ask for the status.      *)

XpressMilpSolve ==
    /\ front = "xpress_milp"
    /\ \E a \in AnswersOver({"OPTIMAL", "SOLUTION", "INFEAS", "UNBOUNDED", "STOPPED", "NOT_LOADED"},
                            {"OPTIMAL"}, {"SOLUTION"}) :
          Solved(Sole, a, status) /\ UNCHANGED <<columns, is_mip>>
----------------------------------------------------------------------------
(* GLPK: glp_intopt returns 0 when the search is over, whatever it found.   *)

GlpkMilpTable ==
    [DONE |-> "optimal", EMIPGAP |-> "optimal", ENODFS |-> "unbounded",
     ETMLIM |-> "time_limit", EFAIL |-> "failed", ESTOP |-> "interrupted"]

GlpkMilpSolve ==
    /\ front = "glpk_milp"
    /\ \E a \in AnswersOver(DOMAIN GlpkMilpTable \cup {"OTHER"}, {}, {"EMIPGAP"}) :
          /\ Solved(Sole, a, Status(TagOf(GlpkMilpTable, a.code)))
          /\ UNCHANGED <<columns, is_mip>>
----------------------------------------------------------------------------
Next ==
    \/ LpNext
    \/ HighsMilpSolve \/ GurobiMilpSolve \/ CplexMilpSolve \/ CbcSolve \/ ScipSolve
    \/ CoptMilpSolve \/ MosekMilpSolve \/ XpressMilpSolve \/ GlpkMilpSolve
    \/ SolveThrows
    \/ \E n \in 0..MaxColumns : ChangeProblem(n)
    \/ \E b \in BOOLEAN : SetTypes(b)
    \/ SetCandidateSolutionCallback

Spec == Init /\ [][Next]_protocolVars
----------------------------------------------------------------------------
(* Properties *)

\* The kind of solution that get_solution() reads.
Read == CASE front = "cbc_milp" -> CbcRead
          [] front = "copt_milp" -> CoptMilpRead
          [] front = "copt_lp" -> "lp"
          [] front = "mosek_lp" -> "bas"
          [] front = "mosek_milp" -> "itg"
          [] OTHER -> Sole

\* When the status says that a solution is available, and no optimizer threw since it was
\* written, get_solution() reads the solution of the last solve: the values exist, and
\* they are of the kind that was solved for, whatever the types of the variables are by
\* then.  A model without variables has nothing to read.  GLPK is left out: glpk_lp keeps
\* an earlier status after the answers that it does not name, and glpk_milp takes every
\* finished search for an optimum.
AvailableIsReadable ==
    status.available /\ ~stale /\ columns > 0 /\ front \notin {"glpk_lp", "glpk_milp"} =>
        /\ fresh => solution # "none"
        /\ solution # "none" => Read = solution

\* However refine_lp_status() ends once the library did what it was asked, the presolve
\* parameters are as they were: it returns with the question decided, or throws because
\* the second run left it open.  On a status that is not exactly undecided it returns and
\* touches nothing.
RefineDecides ==
    [][call'.op = "refine" =>
           /\ call'.ended = "returned" => ~Undecided(status')
           /\ call'.ended = "undecided" => Undecided(status')
           /\ call'.ended \in {"returned", "undecided"} => parameters' = parameters
           /\ ~Undecided(status) => /\ call'.ended = "returned"
                                   /\ UNCHANGED <<status, library>>]_protocolVars

\* A solve that proved an optimum is reported as optimal.
SolveIsReported ==
    call = [op |-> "solve", ended |-> "returned"] /\ proved /\ columns > 0
        => IsA(status, "optimal")
=============================================================================
