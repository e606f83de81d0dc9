---------------------------- MODULE SolveStatus ----------------------------
(***************************************************************************)
(* The statuses of utility/solve_status.hpp: tags that derive from each    *)
(* other, and whether a solution is available.                             *)
(***************************************************************************)
Parent ==
    [unknown |-> "any", completed |-> "any", stopped |-> "any",
     optimal |-> "completed", infeasible_or_unbounded |-> "completed",
     optimal_face_unbounded |-> "optimal", optimal_infeasible_unscaled |-> "optimal",
     infeasible |-> "infeasible_or_unbounded", unbounded |-> "infeasible_or_unbounded",
     primal_and_dual_infeasible |-> "infeasible",
     interrupted |-> "stopped", failed |-> "stopped", limit_reached |-> "stopped",
     numerical_failure |-> "failed", out_of_memory |-> "failed",
     time_limit |-> "limit_reached", iteration_limit |-> "limit_reached",
     node_limit |-> "limit_reached", solution_limit |-> "limit_reached",
     memory_limit |-> "limit_reached"]

Tags == DOMAIN Parent \cup {"any"}

\* A tag and those it derives from.
Branch[tag \in Tags] == IF tag = "any" THEN {tag} ELSE {tag} \cup Branch[Parent[tag]]

\* is<T> and is_a<T> of a status.
Is(s, tag) == s.tag = tag
IsA(s, tag) == tag \in Branch[s.tag]

\* The constructors: one is told whether a solution is available, or takes what its tag
\* says of it.
Told(tag, available) == [tag |-> tag, available |-> available]
Status(tag) == Told(tag, "optimal" \in Branch[tag])

\* The tag that a table gives a code, unknown for one that it does not name.
TagOf(table, code) == IF code \in DOMAIN table THEN table[code] ELSE "unknown"
=============================================================================
