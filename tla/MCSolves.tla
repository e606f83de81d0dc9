----------------------------- MODULE MCSolves -----------------------------
(***************************************************************************)
(* The model classes with up to two variables: enough for a problem to     *)
(* become empty and to be filled again between two solves.                 *)
(***************************************************************************)
EXTENDS MilpFronts

MCFronts ==
    {"highs_lp", "highs_qp", "highs_milp", "gurobi_lp", "gurobi_milp", "cplex_lp", "cplex_milp",
     "clp_lp", "cbc_milp", "scip_milp", "copt_lp", "copt_milp", "mosek_lp", "mosek_milp",
     "xpress_lp", "xpress_milp", "glpk_lp", "glpk_milp", "soplex_lp"}

MCXpressMilp == {"xpress_milp"}
=============================================================================
