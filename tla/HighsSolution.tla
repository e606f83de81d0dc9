--------------------------- MODULE HighsSolution ---------------------------
(***************************************************************************)
(* get_solution() of the HiGHS models.  It copies the column values out of *)
(* the solver and returns a function that translates a handle to a column  *)
(* when the client reads it.  A value is named by the handle whose column  *)
(* it was copied from; get_reduced_costs() is written the same way.        *)
(***************************************************************************)
EXTENDS HighsModel

VARIABLES solution,   \* the values in the object that get_solution() returned
          known       \* the handles the client has held since it asked for it

solutionVars == <<vars, solution, known>>

SolutionInit == Init /\ solution = <<>> /\ known = {}

\* Called after solve(), which runs nothing on a model without variables.
GetSolution ==
    /\ cols # <<>>
    /\ solution' = [i \in DOMAIN cols |-> VarHandle(i)]
    /\ known' = held
    /\ UNCHANGED vars

SolutionNext == \/ Next /\ known' = known \cap held' /\ UNCHANGED solution
                \/ GetSolution

SolutionSpec == SolutionInit /\ [][SolutionNext]_solutionVars

\* The function that get_solution() returns, called on a handle.
Read(h) == solution[NativeId(h)]

\* A solution is a snapshot: for every variable that was in the model when the
\* client asked and still is, reading gives the value the variable had then.
SolutionIsSnapshot ==
    \A h \in known : NativeId(h) \in DOMAIN solution /\ Read(h) = h
=============================================================================
