------------------------- MODULE MilpFronts_proofs -------------------------
(***************************************************************************)
(* What holds of solve(), refine_lp_status() and the status of the         *)
(* nineteen classes, for every number of variables and every sequence of   *)
(* answers: a solution that the status calls available is one that         *)
(* get_solution() reads, and a refinement that returns has decided.        *)
(*                                                                         *)
(* The first needs ReadInv: the solution that a library keeps is of the    *)
(* kind that get_solution() asks it for until the model is changed, since  *)
(* a solve writes the members that the choice is made by together with     *)
(* the solution (is_mip, the last problem type), and nothing else does.    *)
(***************************************************************************)
EXTENDS MilpFronts, TLAPS

----------------------------------------------------------------------------
(* The tags and the tables of codes.  The hierarchy of tags is a recursive *)
(* function over a tree of depth five, which unfolding it four times       *)
(* reaches the top of.                                                     *)

\* Every tag but "any" has its place in the tree.
Up(tag) == IF tag = "any" THEN "any" ELSE Parent[tag]
Ancestors == [tag \in Tags |-> {tag, Up(tag), Up(Up(tag)), Up(Up(Up(tag))), Up(Up(Up(Up(tag))))}]

LEMMA TagsListed ==
    Tags = {"any", "unknown", "completed", "stopped", "optimal", "infeasible_or_unbounded",
            "optimal_face_unbounded", "optimal_infeasible_unscaled", "infeasible", "unbounded",
            "primal_and_dual_infeasible", "interrupted", "failed", "limit_reached",
            "numerical_failure", "out_of_memory", "time_limit", "iteration_limit", "node_limit",
            "solution_limit", "memory_limit"}
BY DEF Tags, Parent

LEMMA ParentInTags == \A tag \in Tags : tag # "any" => Parent[tag] \in Tags
BY TagsListed DEF Parent

LEMMA AnyIsReached == \A tag \in Tags : Up(Up(Up(Up(tag)))) = "any"
BY TagsListed DEF Parent, Up

LEMMA BranchUnfolds ==
    \A tag \in Tags : Branch[tag] = IF tag = "any" THEN {tag} ELSE {tag} \cup Branch[Parent[tag]]
<1> DEFINE F(f) == [tag \in Tags |-> IF tag = "any" THEN {tag} ELSE {tag} \cup f[Parent[tag]]]
<1>1. Ancestors = F(Ancestors)
  <2>1. ASSUME NEW tag \in Tags
        PROVE  Ancestors[tag] = IF tag = "any" THEN {tag} ELSE {tag} \cup Ancestors[Parent[tag]]
    <3>1. CASE tag = "any"
      BY <3>1 DEF Ancestors, Up
    <3>2. CASE tag # "any"
      <4>1. Parent[tag] \in Tags /\ Up(tag) = Parent[tag]
        BY <3>2, ParentInTags DEF Up
      <4>2. Up(Up(Up(Up(tag)))) = "any" /\ Up(Up(Up(Up(Parent[tag])))) = "any"
        BY <4>1, AnyIsReached
      <4> QED BY <3>2, <4>1, <4>2 DEF Ancestors
    <3> QED BY <3>1, <3>2
  <2> QED BY <2>1 DEF Ancestors
<1>2. Branch = CHOOSE f : f = F(f)
  BY DEF Branch
<1>3. Branch = F(Branch)
  BY <1>1, <1>2
<1> QED BY <1>3

\* The tags that say that a solution is available.
AvailableTags == {"optimal", "optimal_face_unbounded", "optimal_infeasible_unscaled"}

LEMMA StatusAvailable ==
    ASSUME NEW tag \in Tags
    PROVE  Status(tag).available <=> tag \in AvailableTags
<1> DEFINE B(t) == "optimal" \in Branch[t]
<1>1. ASSUME NEW t \in Tags PROVE B(t) <=> t = "optimal" \/ (t # "any" /\ B(Parent[t]))
  <2>1. CASE t = "any"
    <3>1. Branch["any"] = {"any"}
      BY BranchUnfolds, TagsListed
    <3> QED BY <2>1, <3>1
  <2>2. CASE t # "any"
    BY <2>2, BranchUnfolds
  <2> QED BY <2>1, <2>2
<1> HIDE DEF B
<1>2. ~B("any") /\ B("optimal")
  BY <1>1, TagsListed
<1>3. ~B("unknown") /\ ~B("completed") /\ ~B("stopped")
  BY <1>1, <1>2, TagsListed DEF Parent
<1>4. ~B("infeasible_or_unbounded") /\ ~B("interrupted") /\ ~B("failed") /\ ~B("limit_reached")
  BY <1>1, <1>3, TagsListed DEF Parent
<1>5. B("optimal_face_unbounded") /\ B("optimal_infeasible_unscaled")
  BY <1>1, <1>2, TagsListed DEF Parent
<1>6. ~B("infeasible") /\ ~B("unbounded") /\ ~B("numerical_failure") /\ ~B("out_of_memory")
      /\ ~B("time_limit") /\ ~B("iteration_limit") /\ ~B("node_limit") /\ ~B("solution_limit")
      /\ ~B("memory_limit")
  BY <1>1, <1>4, TagsListed DEF Parent
<1>7. ~B("primal_and_dual_infeasible")
  BY <1>1, <1>6, TagsListed DEF Parent
<1>8. B(tag) <=> tag \in AvailableTags
  BY <1>2, <1>3, <1>4, <1>5, <1>6, <1>7, TagsListed DEF AvailableTags
<1> QED BY <1>8 DEF Status, Told, B

\* A table that is told by tags, and the codes of it that say a solution is available.
LEMMA TableAvailable ==
    ASSUME NEW table, NEW S, \A code \in DOMAIN table : table[code] \in Tags,
           \A code \in DOMAIN table : table[code] \in AvailableTags => code \in S
    PROVE  \A code : Status(TagOf(table, code)).available => code \in S
<1>1. "unknown" \in Tags /\ "unknown" \notin AvailableTags
  BY TagsListed DEF AvailableTags
<1> QED BY <1>1, StatusAvailable DEF TagOf

\* A status says that a solution is available only when the answer carries one.
Honest(s, a) == s.available => a.sol

\* The codes that a table tells as a status with a solution are codes of an optimum.
Trusts(table, optimal) ==
    \A code \in DOMAIN table : table[code] \in Tags
                               /\ (table[code] \in AvailableTags => code \in optimal)

LEMMA StatusHonest ==
    ASSUME NEW table, NEW codes, NEW optimal, NEW carrying, Trusts(table, optimal),
           NEW a \in AnswersOver(codes, optimal, carrying)
    PROVE  /\ Honest(Status(TagOf(table, a.code)), a)
           /\ a.code \in DOMAIN table => Honest(Status(table[a.code]), a)
<1>1. "unknown" \in Tags /\ "unknown" \notin AvailableTags
  BY TagsListed DEF AvailableTags
<1>2. a.code \in optimal => a.sol
  BY DEF AnswersOver
<1> QED BY <1>1, <1>2, StatusAvailable DEF TagOf, Honest, Trusts

LEMMA ToldHonest == \A tag, a : Honest(Told(tag, a.sol), a)
BY DEF Honest, Told

LEMMA UnknownHonest == \A a : Honest(Status("unknown"), a)
<1>1. "unknown" \in Tags /\ "unknown" \notin AvailableTags
  BY TagsListed DEF AvailableTags
<1> QED BY <1>1, StatusAvailable DEF Honest

\* So do the tables of the libraries.
LEMMA TablesTrust ==
    /\ Trusts(HighsTable, {"Optimal"})
    /\ Trusts(GurobiCompleted, {"OPTIMAL"})
    /\ Trusts(CplexLpTable, {"OPTIMAL", "OPTIMAL_FACE_UNBOUNDED", "OPTIMAL_INFEAS"})
    /\ Trusts(CoptLpTable, {"OPTIMAL"})
    /\ Trusts(MosekEnds, {})
    /\ Trusts(MosekProblem, {})
    /\ Trusts(XpressLpStops, {})
    /\ Trusts(XpressLpTable, {"OPTIMAL"})
    /\ Trusts(SoplexTable, {"OPTIMAL", "OPTIMAL_UNSCALED_VIOLATIONS"})
    /\ Trusts(CplexMilpCompleted, {"OPTIMAL", "OPTIMAL_INFEAS"})
    /\ Trusts(CbcLpTable, {"OPTIMAL"})
    /\ Trusts(CbcStops, {})
    /\ Trusts(CbcEnds, {})
    /\ Trusts(ScipTable, {"OPTIMAL"})
    /\ Trusts(CoptMilpTable, {"OPTIMAL"})
    /\ Trusts(MosekMilpEnds, {})
<1>1. Trusts(HighsTable, {"Optimal"})
  BY TagsListed DEF Trusts, HighsTable, AvailableTags
<1>2. Trusts(GurobiCompleted, {"OPTIMAL"})
  BY TagsListed DEF Trusts, GurobiCompleted, AvailableTags
<1>3. Trusts(CplexLpTable, {"OPTIMAL", "OPTIMAL_FACE_UNBOUNDED", "OPTIMAL_INFEAS"})
  BY TagsListed DEF Trusts, CplexLpTable, AvailableTags
<1>4. Trusts(CoptLpTable, {"OPTIMAL"})
  BY TagsListed DEF Trusts, CoptLpTable, AvailableTags
<1>5. Trusts(MosekEnds, {})
  BY TagsListed DEF Trusts, MosekEnds, AvailableTags
<1>6. Trusts(MosekProblem, {})
  BY TagsListed DEF Trusts, MosekProblem, AvailableTags
<1>7. Trusts(XpressLpStops, {})
  BY TagsListed DEF Trusts, XpressLpStops, AvailableTags
<1>8. Trusts(XpressLpTable, {"OPTIMAL"})
  BY TagsListed DEF Trusts, XpressLpTable, AvailableTags
<1>9. Trusts(SoplexTable, {"OPTIMAL", "OPTIMAL_UNSCALED_VIOLATIONS"})
  BY TagsListed DEF Trusts, SoplexTable, AvailableTags
<1>10. Trusts(CplexMilpCompleted, {"OPTIMAL", "OPTIMAL_INFEAS"})
  BY TagsListed DEF Trusts, CplexMilpCompleted, AvailableTags
<1>11. Trusts(CbcLpTable, {"OPTIMAL"})
  BY TagsListed DEF Trusts, CbcLpTable, AvailableTags
<1>12. Trusts(CbcStops, {})
  BY TagsListed DEF Trusts, CbcStops, AvailableTags
<1>13. Trusts(CbcEnds, {})
  BY TagsListed DEF Trusts, CbcEnds, AvailableTags
<1>14. Trusts(ScipTable, {"OPTIMAL"})
  BY TagsListed DEF Trusts, ScipTable, AvailableTags
<1>15. Trusts(CoptMilpTable, {"OPTIMAL"})
  BY TagsListed DEF Trusts, CoptMilpTable, AvailableTags
<1>16. Trusts(MosekMilpEnds, {})
  BY TagsListed DEF Trusts, MosekMilpEnds, AvailableTags
<1> QED BY <1>1, <1>2, <1>3, <1>4, <1>5, <1>6, <1>7, <1>8, <1>9, <1>10, <1>11, <1>12, <1>13, <1>14, <1>15, <1>16

\* The status functions, each over the answers of its library.
LEMMA LpStatusesHonest ==
    /\ \A a \in AnswersOver(DOMAIN HighsTable \cup {"Unknown"}, {"Optimal"}, {}) :
          Honest(HighsStatus(a), a)
    /\ \A a \in GurobiLpAnswers : Honest(GurobiLpStatus(a), a)
    /\ \A a \in CplexLpAnswers : Honest(CplexLpStatus(a), a)
    /\ \A a \in AnswersOver(0..4, {0}, {}) : Honest(ClpStatus(a), a)
    /\ \A a \in CoptLpAnswers : Honest(CoptLpStatus(a), a)
    /\ \A codes, a : a \in AnswersOver(codes, {"FEAS_OPTIMAL"}, {}) => Honest(MosekLpStatus(a), a)
    /\ \A codes, a : a \in AnswersOver(codes, {"OPTIMAL"}, {}) => Honest(XpressLpStatus(a), a)
    /\ \A codes, a : a \in AnswersOver(codes, {"OPTIMAL", "OPTIMAL_UNSCALED_VIOLATIONS"}, {}) =>
          Honest(SoplexStatus(a), a)
<1> USE TablesTrust, ToldHonest, UnknownHonest
<1>1. \A a \in AnswersOver(DOMAIN HighsTable \cup {"Unknown"}, {"Optimal"}, {}) :
         Honest(HighsStatus(a), a)
  BY StatusHonest DEF HighsStatus
<1>2. \A a \in GurobiLpAnswers : Honest(GurobiLpStatus(a), a)
  BY StatusHonest DEF GurobiLpStatus, GurobiLpAnswers
<1>3. ASSUME NEW a \in CplexLpAnswers PROVE Honest(CplexLpStatus(a), a)
  <2>1. a.code \in {"NUM_BEST", "ABORT_OBJ_LIM"} => a.sol
    BY DEF CplexLpAnswers, AnswersOver
  <2> QED BY <2>1, StatusHonest DEF CplexLpStatus, CplexLpAnswers, Honest, Told
<1>4. ASSUME NEW a \in AnswersOver(0..4, {0}, {}) PROVE Honest(ClpStatus(a), a)
  <2>1. /\ a.code \in 0..4
        /\ a.code \in {0} => a.sol
        /\ DOMAIN ClpTable = 1..3
        /\ \A k \in 1..3 : ClpTable[k] \in Tags /\ (ClpTable[k] \in AvailableTags => k = 1)
    BY TagsListed DEF AnswersOver, ClpTable, AvailableTags
  <2>2. CASE a.code + 1 \in 1..3
    <3>1. TagOf(ClpTable, a.code + 1) = ClpTable[a.code + 1]
      BY <2>1, <2>2 DEF TagOf
    <3>2. ClpTable[a.code + 1] \in AvailableTags => a.code = 0
      BY <2>1, <2>2
    <3> QED BY <2>1, <2>2, <3>1, <3>2, StatusAvailable DEF ClpStatus, Honest
  <2>3. CASE a.code + 1 \notin 1..3
    BY <2>1, <2>3 DEF ClpStatus, TagOf
  <2> QED BY <2>2, <2>3
<1>5. \A a \in CoptLpAnswers : Honest(CoptLpStatus(a), a)
  BY StatusHonest DEF CoptLpStatus, CoptLpAnswers
<1>6. ASSUME NEW codes, NEW a \in AnswersOver(codes, {"FEAS_OPTIMAL"}, {})
      PROVE  Honest(MosekLpStatus(a), a)
  <2>1. a.code = "FEAS_OPTIMAL" => a.sol
    BY DEF AnswersOver
  <2>2. a.code \in DOMAIN MosekEnds => Honest(Status(MosekEnds[a.code]), a)
    BY StatusAvailable DEF Trusts, Honest
  <2>3. a.code \in DOMAIN MosekProblem => Honest(Status(MosekProblem[a.code]), a)
    BY StatusAvailable DEF Trusts, Honest
  <2> QED BY <2>1, <2>2, <2>3 DEF MosekLpStatus, Honest
<1>7. ASSUME NEW codes, NEW a \in AnswersOver(codes, {"OPTIMAL"}, {})
      PROVE  Honest(XpressLpStatus(a), a)
  <2>1. a.code \in DOMAIN XpressLpStops => Honest(Status(XpressLpStops[a.code]), a)
    BY StatusAvailable DEF Trusts, Honest
  <2> QED BY <2>1, StatusHonest DEF XpressLpStatus
<1>8. ASSUME NEW codes, NEW a \in AnswersOver(codes, {"OPTIMAL", "OPTIMAL_UNSCALED_VIOLATIONS"}, {})
      PROVE  Honest(SoplexStatus(a), a)
  BY StatusHonest DEF SoplexStatus
<1> QED BY <1>1, <1>2, <1>3, <1>4, <1>5, <1>6, <1>7, <1>8

LEMMA MilpStatusesHonest ==
    /\ \A a \in AnswersOver(DOMAIN HighsTable \cup {"SolutionLimit", "Unknown"}, {"Optimal"}, {}) :
          Honest(HighsMilpStatus(a), a)
    /\ \A codes, a : a \in AnswersOver(codes, {"OPTIMAL"}, {}) => Honest(GurobiMilpStatus(a), a)
    /\ \A a \in CplexMilpAnswers : Honest(CplexMilpStatus(a), a)
    /\ \A codes, a : a \in AnswersOver(codes, {"OPTIMAL"}, {}) => Honest(CbcStatus(a), a)
    /\ \A codes, a : a \in AnswersOver(codes, {"OPTIMAL"}, {}) => Honest(ScipStatus(a), a)
    /\ \A codes, a : a \in AnswersOver(codes, {"OPTIMAL"}, {}) => Honest(CoptMilpStatus(a), a)
    /\ \A codes, a : a \in AnswersOver(codes, {"FEAS_OPTIMAL"}, {}) => Honest(MosekMilpStatus(a), a)
<1> USE TablesTrust, ToldHonest, UnknownHonest
<1>1. ASSUME NEW a \in AnswersOver(DOMAIN HighsTable \cup {"SolutionLimit", "Unknown"}, {"Optimal"}, {})
      PROVE  Honest(HighsMilpStatus(a), a)
  <2>1. CASE a.code \in DOMAIN HighsMilpStops \cup {"IterationLimit", "Unknown"}
    BY <2>1 DEF HighsMilpStatus
  <2>2. CASE a.code \notin DOMAIN HighsMilpStops \cup {"IterationLimit", "Unknown"}
    <3>1. a.code \in DOMAIN HighsTable \cup {"SolutionLimit", "Unknown"}
      BY DEF AnswersOver
    <3>2. a.code \in DOMAIN HighsTable
      BY <2>2, <3>1 DEF HighsMilpStops
    <3> QED BY <2>2, <3>2, StatusHonest DEF HighsMilpStatus
  <2> QED BY <2>1, <2>2
<1>2. ASSUME NEW codes, NEW a \in AnswersOver(codes, {"OPTIMAL"}, {})
      PROVE  Honest(GurobiMilpStatus(a), a)
  BY StatusHonest DEF GurobiMilpStatus
<1>3. ASSUME NEW a \in CplexMilpAnswers PROVE Honest(CplexMilpStatus(a), a)
  <2>1. a.code \in DOMAIN CplexMilpCompleted => Honest(Status(CplexMilpCompleted[a.code]), a)
    BY StatusHonest DEF CplexMilpAnswers
  <2> QED BY <2>1 DEF CplexMilpStatus
<1>4. ASSUME NEW codes, NEW a \in AnswersOver(codes, {"OPTIMAL"}, {})
      PROVE  Honest(CbcStatus(a), a)
  <2>1. Honest(Status(TagOf(CbcLpTable, a.code)), a)
        /\ (a.code \in DOMAIN CbcLpTable => Honest(Status(CbcLpTable[a.code]), a))
    BY StatusHonest
  <2>2. a.code \in DOMAIN CbcStops => Honest(Status(CbcStops[a.code]), a)
    BY StatusAvailable DEF Trusts, Honest
  <2>3. Honest(Status(TagOf(CbcEnds, a.code)), a)
    BY UnknownHonest, StatusAvailable DEF Trusts, Honest, TagOf
  <2>4. {"OPTIMAL", "INFEASIBLE", "UNBOUNDED"} \subseteq DOMAIN CbcLpTable
        /\ {"INFEASIBLE_1", "UNBOUNDED_7"} \subseteq DOMAIN CbcStops
    BY DEF CbcLpTable, CbcStops
  <2> QED BY <2>1, <2>2, <2>3, <2>4 DEF CbcStatus
<1>5. ASSUME NEW codes, NEW a \in AnswersOver(codes, {"OPTIMAL"}, {})
      PROVE  Honest(ScipStatus(a), a) /\ Honest(CoptMilpStatus(a), a)
  BY StatusHonest DEF ScipStatus, CoptMilpStatus
<1>6. ASSUME NEW codes, NEW a \in AnswersOver(codes, {"FEAS_OPTIMAL"}, {})
      PROVE  Honest(MosekMilpStatus(a), a)
  <2>1. a.code \in DOMAIN MosekMilpEnds => Honest(Status(MosekMilpEnds[a.code]), a)
    BY StatusAvailable DEF Trusts, Honest
  <2> QED BY <2>1, LpStatusesHonest DEF MosekMilpStatus
<1> QED BY <1>1, <1>2, <1>3, <1>4, <1>5, <1>6
----------------------------------------------------------------------------
(* The invariant *)

Glpk == front \in {"glpk_lp", "glpk_milp"}

ReadInv ==
    /\ front = "xpress_milp" => ~status.available
    /\ ~stale /\ solution # "none" => Read = solution
    /\ fresh /\ ~stale /\ status.available /\ columns > 0 /\ ~Glpk => solution # "none"

\* A solve() or refine_lp_status() that ends with an answer.
AnsweredWith(kind, a, s) ==
    /\ Ran(kind, a) /\ status' = s /\ fresh' = TRUE /\ stale' = FALSE /\ front' = front

\* It leaves a solution of the kind that is read from then on, or says that there is none.
LEMMA AnsweredInv ==
    ASSUME NEW kind, NEW a, NEW s, AnsweredWith(kind, a, s),
           kind # "none", solution' = kind => Read' = kind, Glpk \/ Honest(s, a),
           front = "xpress_milp" => ~s.available
    PROVE  ReadInv'
<1>1. solution' = kind \/ solution' = "none"
  BY DEF AnsweredWith, Ran
<1>2. ~stale' /\ solution' # "none" => Read' = solution'
  BY <1>1
<1>3. fresh' /\ ~stale' /\ status'.available /\ columns' > 0 /\ ~Glpk' => solution' # "none"
  BY DEF AnsweredWith, Ran, Honest, Glpk
<1> QED BY <1>2, <1>3 DEF ReadInv, AnsweredWith

\* The library may drop its solution, and what else changes is no longer fresh or is stale.
LEMMA DroppedInv ==
    ASSUME ReadInv, solution' \in {solution, "none"}, ~fresh' \/ stale',
           UNCHANGED <<front, status>>, stale' \/ UNCHANGED <<is_mip, stale>>
    PROVE  ReadInv'
<1>1. CASE stale'
  BY <1>1 DEF ReadInv, Glpk
<1>2. CASE ~stale' /\ ~fresh' /\ UNCHANGED <<is_mip, stale>>
  BY <1>2 DEF ReadInv, Read, CbcRead, CoptMilpRead, Glpk, Sole
<1> QED BY <1>1, <1>2

LEMMA KeptInv ==
    ASSUME ReadInv, UNCHANGED <<front, status, is_mip, library, stale>>,
           UNCHANGED <<columns, fresh>> \/ columns' = 0
    PROVE  ReadInv'
BY DEF ReadInv, Read, CbcRead, CoptMilpRead, Glpk, Sole, library

LEMMA SoleInv ==
    ASSUME NEW a, NEW s, AnsweredWith(Sole, a, s), Glpk \/ Honest(s, a),
           front \notin {"cbc_milp", "copt_milp", "copt_lp", "mosek_lp", "mosek_milp"},
           front = "xpress_milp" => ~s.available
    PROVE  ReadInv'
<1>1. Sole # "none"
  BY DEF Sole
<1>2. Read' = Sole
  BY DEF AnsweredWith, Read
<1> QED BY <1>1, <1>2, AnsweredInv

LEMMA SolvedAnswers == \A kind, a, s : Solved(kind, a, s) => AnsweredWith(kind, a, s)
BY DEF Solved, AnsweredWith

LEMMA LpNextInv == ReadInv /\ LpNext => ReadInv'
<1> SUFFICES ASSUME ReadInv, LpNext PROVE ReadInv'
  OBVIOUS
<1>0. ASSUME ReturnsAtOnce, columns = 0 PROVE ReadInv'
  BY <1>0, KeptInv DEF ReturnsAtOnce, problem
<1>1. CASE HighsLpSolve
  BY <1>0, <1>1, SoleInv, SolvedAnswers, LpStatusesHonest DEF HighsLpSolve
<1>2. CASE GurobiLpSolve
  BY <1>2, SoleInv, SolvedAnswers, LpStatusesHonest DEF GurobiLpSolve
<1>3. CASE CplexLpSolve
  BY <1>3, SoleInv, SolvedAnswers, LpStatusesHonest DEF CplexLpSolve
<1>4. CASE GurobiRefineLpStatus \/ CplexRefineLpStatus
  <2>1. CASE NothingToRefine
    BY <2>1, KeptInv DEF NothingToRefine, problem
  <2>2. CASE RefineThrows
    BY <2>2, DroppedInv DEF RefineThrows
  <2>3. CASE RefineRefused
    BY <2>3, KeptInv DEF RefineRefused, problem
  <2>4. ASSUME NEW a, NEW s, RefineLpStatus(a, s), Honest(s, a), front \in {"gurobi_lp", "cplex_lp"}
        PROVE  ReadInv'
    <3>1. AnsweredWith(Sole, a, s)
      BY <2>4 DEF RefineLpStatus, RefineNotPutBack, Refined, RanAgain, AnsweredWith
    <3> QED BY <2>4, <3>1, SoleInv
  <2> QED BY <1>4, <2>1, <2>2, <2>3, <2>4, LpStatusesHonest DEF GurobiRefineLpStatus, CplexRefineLpStatus
<1>5. CASE ClpSolve
  BY <1>0, <1>5, SoleInv, SolvedAnswers, LpStatusesHonest DEF ClpSolve
<1>6. CASE CoptLpSolve
  <2>1. PICK a \in CoptLpAnswers : Solved("lp", a, CoptLpStatus(a)) /\ front = "copt_lp"
    BY <1>6 DEF CoptLpSolve
  <2>2. AnsweredWith("lp", a, CoptLpStatus(a)) /\ Honest(CoptLpStatus(a), a)
    BY <2>1, SolvedAnswers, LpStatusesHonest
  <2>3. Read' = "lp"
    BY <2>1, <2>2 DEF Read, AnsweredWith
  <2> QED BY <2>1, <2>2, <2>3, AnsweredInv
<1>7. CASE MosekLpSolve
  <2>1. PICK codes, a :
           /\ a \in AnswersOver(codes, {"FEAS_OPTIMAL"}, {})
           /\ Solved("bas", a, MosekLpStatus(a)) /\ front = "mosek_lp"
    BY <1>7 DEF MosekLpSolve
  <2>2. AnsweredWith("bas", a, MosekLpStatus(a)) /\ Honest(MosekLpStatus(a), a)
    BY <2>1, SolvedAnswers, LpStatusesHonest
  <2>3. Read' = "bas"
    BY <2>1, <2>2 DEF Read, AnsweredWith
  <2> QED BY <2>1, <2>2, <2>3, AnsweredInv
<1>8. CASE XpressLpSolve
  BY <1>8, SoleInv, SolvedAnswers, LpStatusesHonest DEF XpressLpSolve
<1>9. CASE GlpkLpSolve
  <2>1. PICK a, s : Solved(Sole, a, s) /\ front = "glpk_lp"
    BY <1>9 DEF GlpkLpSolve
  <2> QED BY <2>1, SoleInv, SolvedAnswers DEF Glpk
<1>10. CASE SoplexSolve
  BY <1>0, <1>10, SoleInv, SolvedAnswers, LpStatusesHonest DEF SoplexSolve
<1> QED BY <1>1, <1>2, <1>3, <1>4, <1>5, <1>6, <1>7, <1>8, <1>9, <1>10 DEF LpNext

LEMMA NextReadInv == ReadInv /\ [Next]_protocolVars => ReadInv'
<1> SUFFICES ASSUME ReadInv, [Next]_protocolVars PROVE ReadInv'
  OBVIOUS
<1>0. ASSUME ReturnsAtOnce, columns = 0 PROVE ReadInv'
  BY <1>0, KeptInv DEF ReturnsAtOnce, problem
<1>1. CASE LpNext
  BY <1>1, LpNextInv
<1>2. CASE HighsMilpSolve
  BY <1>0, <1>2, SoleInv, SolvedAnswers, MilpStatusesHonest DEF HighsMilpSolve
<1>3. CASE GurobiMilpSolve
  BY <1>3, SoleInv, SolvedAnswers, MilpStatusesHonest DEF GurobiMilpSolve
<1>4. CASE CplexMilpSolve
  <2>1. CASE integers
    BY <1>4, <2>1, SoleInv, SolvedAnswers, MilpStatusesHonest DEF CplexMilpSolve
  <2>2. CASE ~integers /\ callback
    BY <1>4, <2>2, DroppedInv DEF CplexMilpSolve, library
  <2>3. CASE ~integers /\ ~callback
    BY <1>4, <2>3, SoleInv, SolvedAnswers, LpStatusesHonest DEF CplexMilpSolve
  <2> QED BY <2>1, <2>2, <2>3
<1>5. CASE CbcSolve
  <2>1. PICK codes, a, kind :
           /\ a \in AnswersOver(codes, {"OPTIMAL"}, {}) /\ kind \in {"best", "columns"}
           /\ Solved(kind, a, CbcStatus(a)) /\ front = "cbc_milp"
    BY <1>5 DEF CbcSolve
  <2>2. AnsweredWith(kind, a, CbcStatus(a)) /\ Honest(CbcStatus(a), a)
    BY <2>1, SolvedAnswers, MilpStatusesHonest
  <2>3. solution' = kind => Read' = kind
    BY <2>1, <2>2 DEF Read, CbcRead, AnsweredWith
  <2> QED BY <2>1, <2>2, <2>3, AnsweredInv
<1>6. CASE ScipSolve
  BY <1>6, SoleInv, SolvedAnswers, MilpStatusesHonest DEF ScipSolve
<1>7. CASE CoptMilpSolve
  <2>1. PICK codes, a, kind, s :
           /\ a \in AnswersOver(codes, {"OPTIMAL"}, {})
           /\ kind = (IF is_mip' THEN "mip" ELSE "lp") /\ s \in {CoptMilpStatus(a), CoptLpStatus(a)}
           /\ a \in CoptLpAnswers \/ s = CoptMilpStatus(a)
           /\ Solved(kind, a, s) /\ front = "copt_milp"
    BY <1>7 DEF CoptMilpSolve, CoptLpAnswers
  <2>2. AnsweredWith(kind, a, s) /\ Honest(s, a)
    BY <2>1, SolvedAnswers, LpStatusesHonest, MilpStatusesHonest
  <2>3. Read' = kind
    BY <2>1, <2>2 DEF Read, CoptMilpRead, AnsweredWith
  <2> QED BY <2>1, <2>2, <2>3, AnsweredInv
<1>8. CASE MosekMilpSolve
  <2>1. PICK codes, a :
           /\ a \in AnswersOver(codes, {"FEAS_OPTIMAL"}, {})
           /\ Solved("itg", a, MosekMilpStatus(a)) /\ front = "mosek_milp"
    BY <1>8 DEF MosekMilpSolve
  <2>2. AnsweredWith("itg", a, MosekMilpStatus(a)) /\ Honest(MosekMilpStatus(a), a)
    BY <2>1, SolvedAnswers, MilpStatusesHonest
  <2>3. Read' = "itg"
    BY <2>1, <2>2 DEF Read, AnsweredWith
  <2> QED BY <2>1, <2>2, <2>3, AnsweredInv
<1>9. CASE XpressMilpSolve
  <2>1. PICK a : Solved(Sole, a, status) /\ front = "xpress_milp"
    BY <1>9 DEF XpressMilpSolve
  <2>2. ~status.available
    BY <2>1 DEF ReadInv
  <2> QED BY <2>1, <2>2, SoleInv, SolvedAnswers DEF Honest
<1>10. CASE GlpkMilpSolve
  <2>1. PICK a, s : Solved(Sole, a, s) /\ front = "glpk_milp"
    BY <1>10 DEF GlpkMilpSolve
  <2> QED BY <2>1, SoleInv, SolvedAnswers DEF Glpk
<1>11. CASE SolveThrows
  BY <1>11, DroppedInv DEF SolveThrows
<1>12. ASSUME NEW n, NEW b, ChangeProblem(n) \/ SetTypes(b) PROVE ReadInv'
  BY <1>12, DroppedInv DEF ChangeProblem, SetTypes, Changed
<1>13. CASE SetCandidateSolutionCallback
  BY <1>13, KeptInv DEF SetCandidateSolutionCallback
<1>14. CASE UNCHANGED protocolVars
  BY <1>14, KeptInv DEF protocolVars, problem
<1> QED BY <1>1, <1>2, <1>3, <1>4, <1>5, <1>6, <1>7, <1>8, <1>9, <1>10, <1>11, <1>12, <1>13,
           <1>14 DEF Next

\* When the status says that a solution is available, get_solution() reads the one that
\* the last solve() left, of the kind that it was solved for, whatever was changed or
\* refused in between: in every class but GLPK's two, which the property leaves out.
THEOREM AvailableStaysReadable == Spec => []AvailableIsReadable
<1>1. Init => ReadInv
  <2>1. ~Status("unknown").available
    BY StatusAvailable, TagsListed DEF AvailableTags
  <2> QED BY <2>1 DEF Init, ReadInv
<1>2. ReadInv => AvailableIsReadable
  BY DEF ReadInv, AvailableIsReadable, Glpk
<1> QED BY <1>1, <1>2, NextReadInv, PTL DEF Spec
----------------------------------------------------------------------------
(* refine_lp_status *)

NoRefinement == call'.op # "refine"

LEMMA EndedOtherwise ==
    \A op, how : op \in {"solve", "change"} /\ Ended(op, how) => NoRefinement
BY DEF Ended, NoRefinement

LEMMA SolvedNoRefinement == \A kind, a, s : Solved(kind, a, s) => NoRefinement
BY EndedOtherwise DEF Solved

\* refine_lp_status() returns with the question decided or throws because it is open, and
\* either way has put the presolve parameters back; on a status that is decided it
\* touches nothing.
THEOREM RefineAlwaysDecides == Spec => RefineDecides
<1> DEFINE Decides ==
       call'.op = "refine" =>
          /\ call'.ended = "returned" => ~Undecided(status')
          /\ call'.ended = "undecided" => Undecided(status')
          /\ call'.ended \in {"returned", "undecided"} => parameters' = parameters
          /\ ~Undecided(status) => call'.ended = "returned" /\ UNCHANGED <<status, library>>
<1>1. ASSUME Next PROVE Decides
  <2>0. CASE NoRefinement
    BY <2>0 DEF NoRefinement
  <2>1. CASE GurobiRefineLpStatus \/ CplexRefineLpStatus
    <3>1. CASE NothingToRefine
      BY <3>1 DEF NothingToRefine, Undecided, Ended
    <3>2. CASE RefineThrows \/ RefineRefused
      BY <3>2 DEF RefineThrows, RefineRefused, Ended
    <3>3. ASSUME NEW a, NEW s, RefineLpStatus(a, s) PROVE Decides
      <4>1. CASE RefineNotPutBack(a, s)
        BY <4>1 DEF RefineNotPutBack, RanAgain, Ended
      <4>2. CASE Refined(a, s)
        BY <4>2 DEF Refined, RanAgain, Ended, Undecided
      <4> QED BY <3>3, <4>1, <4>2 DEF RefineLpStatus
    <3> QED BY <2>1, <3>1, <3>2, <3>3 DEF GurobiRefineLpStatus, CplexRefineLpStatus
  <2>2. CASE HighsLpSolve \/ ClpSolve \/ SoplexSolve \/ HighsMilpSolve
    BY <2>0, <2>2, SolvedNoRefinement, EndedOtherwise
       DEF HighsLpSolve, ClpSolve, SoplexSolve, HighsMilpSolve, ReturnsAtOnce
  <2>3. CASE GurobiLpSolve \/ CplexLpSolve \/ CoptLpSolve \/ MosekLpSolve \/ XpressLpSolve \/ GlpkLpSolve
    BY <2>0, <2>3, SolvedNoRefinement
       DEF GurobiLpSolve, CplexLpSolve, CoptLpSolve, MosekLpSolve, XpressLpSolve, GlpkLpSolve
  <2>4. CASE CplexMilpSolve
    BY <2>0, <2>4, SolvedNoRefinement, EndedOtherwise DEF CplexMilpSolve
  <2>5. CASE GurobiMilpSolve \/ CbcSolve \/ ScipSolve \/ CoptMilpSolve \/ MosekMilpSolve
             \/ XpressMilpSolve \/ GlpkMilpSolve
    BY <2>0, <2>5, SolvedNoRefinement
       DEF GurobiMilpSolve, CbcSolve, ScipSolve, CoptMilpSolve, MosekMilpSolve,
           XpressMilpSolve, GlpkMilpSolve
  <2>6. CASE SolveThrows \/ SetCandidateSolutionCallback
             \/ (\E n \in 0..MaxColumns : ChangeProblem(n)) \/ (\E b \in BOOLEAN : SetTypes(b))
    BY <2>0, <2>6, EndedOtherwise
       DEF SolveThrows, SetCandidateSolutionCallback, ChangeProblem, SetTypes, Changed
  <2> HIDE DEF Decides
  <2> QED BY <1>1, <2>1, <2>2, <2>3, <2>4, <2>5, <2>6 DEF Next, LpNext
<1>2. [Next]_protocolVars => [Decides]_protocolVars
  BY <1>1
<1> QED BY <1>2, PTL DEF Spec, RefineDecides
=============================================================================
