# MIP++ in TLA+

This directory specifies the parts of MIP++ (`include/mippp`) in which a wrong
step does its damage many calls later: the handles a client keeps while solvers
renumber their columns, the scratch buffers that turn expressions into rows, the
problems that the models of eleven solvers write call by call and in which failed calls
leave remnants, the status and the solution between one `solve()` and the next, and the
hash map and the column manager that column generation runs on. The modules are
checked on small instances with TLC, and what matters most about them is proved
for every instance with TLAPS. Line numbers are those of the commit the
specifications were written from; `PROJECT.json` maps each definition to its
lines.

MIP++ is a sequential, header-only library. There are no threads, messages or
timers, and a client that stops calling is not a failure: the only thing that the code
itself must bring to an end is a loop, and only `erase_if` has one whose end is not
plain (section 3). What makes the code hard is
*state that outlives a call* (maps, free lists, caches, lazily read results),
*calls that fail in the middle* (solver refusals and client lambdas that throw),
and *positions that move* (column deletion, swap-and-pop).

## 1. Inventory

| Component | State | Operations | What is hard | What makes it correct |
|---|---|---|---|---|
| `solvers/remapping_model_base.hpp`: handle maps of HiGHS, Gurobi, CPLEX | `_remap_ids`, `_native_ids_map`, `_handle_ids_map`, `_free_var_handles` | translate, extend, new handle, new range, compaction | renumbering on deletion; switch from identity to maps; recycled ids; a refused column leaves an entry over | maps inverse on held handles and columns; no id lost or given twice |
| `solvers/model_base.hpp`: term coalescing | `tmp_indices`, `tmp_scalars`, `tmp_entry_index_cache`, `register_count` | register entries with or without `distinct_variables`, resize | the cache is never cleared: stamps tell old entries from new, across resizes and a wrapping counter | each row lists a column once, with the sum of its terms |
| `highs_base`: HiGHS linear model | the maps and a HiGHS instance | variables, removal, bounds, objective, constraints and updates | every argument is translated; sense and right-hand side live in two bounds | every call does to the client's variable what it says |
| `highs_lp`, `highs_milp`, `highs_qp` | solve status | solve, solutions, types, quadratic objective | results read after the model changed; early returns | a result is that of the solve it was read after |
| Gurobi, CPLEX | the maps; Gurobi's counters run ahead of its update queue | as HiGHS, ranges, types, callbacks, lazy constraints | counters and solver diverge on failure; one call takes two handles; handles used for columns | as HiGHS |
| Clp | free list of native columns | removal by zeroing, entry by entry, over an array that shrinks meanwhile; recycling | a recycled column inherits what was not reset | as HiGHS, but for entries that the removal passed over |
| COPT, MOSEK, Xpress, GLPK | the solver instance | as above without removal | a variable or row is several calls, of which a later one fails; bounds have kinds; defaults are arrays not passed | a handle is still its column after remnants; bounds read back as written |
| SoPlex | a dense vector reused for every row | linear problems without removal | nonzeros counted while terms cancel | room for every entry |
| Cbc | counters that run ahead of Cbc, a cache | as above, ranges | a generator throws between rows; solving an empty model adds a column | counters are those of Cbc |
| SCIP | pointers to variables and constraints | as above, by pointer | a refused row after others were taken | a handle is its pointer |
| the `solve()` of nineteen classes, `solve_status.hpp` | `_status`, what the library keeps | solve, refine, read a solution | statuses kept from earlier solves; a status that promises a solution of another kind | what is available can be read |
| `container/unordered_dense_map.hpp` | a vector of pairs and a hash set of positions hashed *through* the vector | insert, assign, erase, `erase_if` | swap-and-pop under the index; loop that erases under itself; failing insertion | lookup and iteration see the same map |
| `utility/column_manager.hpp`, `column_generation.hpp` | seed to pool or master state; `_num_master_columns` | emplace, price, `manage_columns`, `purge_pool` | two-step moves between model and manager; recycled handles; throwing lambdas; order of transfer and notification | master = model; properties are what the events make them |
| Expressions, concepts, entities, mapping | none | lazily built term ranges | compile-time | - |
| `detail/solver_library.hpp`, `*_api.hpp` | file system; function pointers | find and bind a solver library | precedence | documented order |

**How they interact.** A client builds expressions (ranges of terms), and passes
them and the handles it holds to a model. The model translates handles
through its maps, coalesces the terms through `model_base`, and calls the solver
by column. Solvers know only columns, and renumber them when some are deleted.
`column_manager` keeps its own map from the client's seeds to handles, and edits
the model through lambdas of the client. All are plain calls on one thread.

## 2. Modules

| Module | Models | Relation |
|---|---|---|
| `LinearTerms` | an expression: the sequence of its terms; sums over it | extended by all models of solvers |
| `LinearModel` | *abstract*: what any model promises by handle | implemented by `HighsModel` and `ClpModel` |
| `MilpModel` | *abstract*: the same with a constant and a direction of the objective, types that change, ranges | `INSTANCE LinearModel`; implemented by the nine models below |
| `RemappingModel` | the handle maps, what their compaction leaves (`Compacted...`) and the loop that compacts in place (`AfterLoop`) | extended by `HighsModel`, `RemappedInstance` |
| `HighsModel` | `highs_base` over a HiGHS instance | extends the two; `INSTANCE LinearModel WITH` |
| `HighsMilp`, `HighsSolution` | the type setters; the life of a solution mapping | extend `HighsModel` |
| `SolverInstance` | the problem behind a solver's C interface | extended by the models of solvers |
| `RemappedInstance` | the same behind the handle maps | extends `RemappingModel`, `SolverInstance` |
| `GurobiModel`, `CplexModel` | `gurobi_base`, `cplex_base` and what their `_milp` classes write | extend `RemappedInstance`; `INSTANCE MilpModel WITH` |
| `CoptModel`, `MosekModel`, `XpressModel`, `GlpkModel`, `SoplexModel`, `CbcModel`, `ScipModel` | the models whose handles are columns or positions | extend `SolverInstance`; `INSTANCE MilpModel WITH` |
| `ClpModel` | `clp_lp` over a Clp instance: the free list of removed columns and the loop that zeroes one | `INSTANCE LinearModel WITH` |
| `ClpRows` | the vectors in which `clp_lp` passes rows, filled term by term (`Filled`) | justifies `AddRows` of `ClpModel` |
| `Coalescing` | `model_base`'s buffers, one turn of the loop at a time | justifies `NativeCoefficient` of `HighsModel` and `Registered` of `SolverInstance` |
| `SolveStatus` | the tags of `solve_status.hpp` and their hierarchy | extended by `SolveProtocol` |
| `SolveProtocol` | what all classes share around `solve()` | extended by `LpFronts` |
| `LpFronts`, `MilpFronts` | `solve()`, status, solution and refinement of each class | `MilpFronts` extends `LpFronts`, `MCSolves` that |
| `FiniteMap` | *abstract*: a finite map | implemented by `DenseMap` |
| `DenseMap` | `unordered_dense_map`, `erase_if` one turn at a time | `INSTANCE FiniteMap WITH` |
| `ColumnManager` | `column_manager` with `column_generation`'s properties | uses the map that `DenseMap` implements |
| `MC*` | instances for TLC | a variable `solver` says which model a behaviour is of: in `MCSolvers` one of the seven over `SolverInstance`, in `MCRemappingSolvers` Gurobi or CPLEX; `MCClpModel` has `ClpModel` and `ClpRows` |
| `*_proofs` | theorems checked by TLAPS | extend the module they are about: `ClpModel_proofs`, `Solvers_proofs` and `RemappingSolvers_proofs` the `MC` module of theirs; `Containers_proofs` is about `Coalescing` and `DenseMap`; `RemappingModel_proofs` has lemmas for `HighsModel_proofs` and `RemappingSolvers_proofs` |

**State and code.** In `RemappingModel` and `HighsModel` each vector of the code
is a variable of its name, and ids count from 1 instead of 0. `cols` and `rows`
are the HiGHS instance, external and modelled by what `highs_base` relies on:
`addCol` appends, `deleteColsBySet` closes the gaps, a row is its two bounds.
`held` is the client's knowledge, kept to say what it may pass. `call` records the
last call; nothing reads it, and it lets the refinement say *which* abstract
operation each step must be, so that a call which did another call's work would
be caught. `_var_handles_to_delete` is filled and emptied within one removal and
is an argument there. A column HiGHS refuses (`AddVariableFails`) leaves the
handle map longer than the columns, as the code does.

`ClpModel` needs no maps: a handle is its column, for ever. A removed variable
leaves a column without cost, fixed at 0, and its id on `free_variable_ids`, and `AddOne`
takes from there before it appends. `Recycled` and `WithEntries` write what
`_recylcle_variable` and `_add_column` write and keep the rest of the column, so
what the removed variable left shows. `Walked` is the loop of `remove_variable`: it goes up
the index array of Clp by one while the entry that it has just put to zero is taken out of
that array, so the entry behind it is passed over. `PassedOver` has the sets of entries that
may stay, for every order in which Clp can have them; the empty set is among them, which is
what a Clp that leaves the gaps open would give. `Inherits` is the addition of
a variable over such a column. `SetterThrows` is a setter that asked a
range for its sense. Only Clp, Gurobi and Cbc have ranges; `HighsModel` takes part
in the rest of `LinearModel`.

The models over `SolverInstance` differ in what one call of the client is for the
solver. In `MosekModel` a variable is appended, bounded, priced and typed by calls of
which all but the first can be refused: `Stages` is the column after each, and the
`...Refused` actions stop at one of them and throw, leaving a column or row under no
handle; `held` and `heldRows` are the ones the client has handles of. `XpressModel` types
a variable in a second call, `ScipModel` adds the rows of a call one by one and keeps
pointers, `CbcModel` counts columns and rows itself and meets generators that throw.
`GlpkModel` keeps the kind of the bounds, `SoplexModel` the dense vector of the last
row with the number of nonzeros that it was passed with, `CoptModel` the defaults that
COPT takes for arrays it is not passed. `GurobiModel` has both what the solver will
be after its queue is applied and, in `seen`, what a call finds that does not
update; its `num_var_native_ids` counts the slack columns of ranges. `AddConstraintRefused`
leaves the counter of rows ahead, and from there on `heldRows` has rows that Gurobi has not
(`IsRow`), for which the setters throw (`UnknownConstraint`).

In `SolveProtocol` the optimizer is outside: a run ends with any answer of its library,
and a status is a tag with whether a solution comes with it. `integers` says
whether the library takes the problem for a MIP, and `solution` of which kind the
solution is that it keeps; `LpFronts` and `MilpFronts` translate the `switch` of each
`_get_status()` and say what each `get_solution()` reads.

`Coalescing` follows one call of `_register_entries` through its loop. `entries`
are the terms not yet seen, and `totals`, a history variable, what the seen ones
sum to for each column; it stands for the recursive sum, which the
provers could not reason about by induction over the terms.

`DenseMap` models a hash set as positions in buckets: an element stays in the
bucket it was hashed to when it was inserted, and a lookup goes to the bucket its
argument hashes to now and compares through the store as it is now. This is
exactly what makes swap-and-pop delicate.

`ColumnManager` takes `manage_columns` one turn at a time: the remove lambda
(`ManageColumns`), each eviction (`Evict`), the count and the second selection
(`SelectToActivate`), each activation (`Activate`, which calls the add lambda),
and the return; `ActivationThrows` leaves the second loop as an exception does.
Any subset of the candidates may be selected, which covers every strategy. The
predicates are those of `negative`/`below` and `evict_unattractive_aged`.
`history` has the events of each column, and the documented meaning of the
properties is defined on it.

## 3. Runs

| Run | Question | Bounds, and why they are enough | Result |
|---|---|---|---|
| `highs` | Do the handle maps stay inverse, lose no id, does the compaction loop overwrite only what it has read, and does the model keep the promise of `LinearModel`? | 3 columns, 4 handles: removals in front, in the middle and at the end, a free list of two in both orders, one entry left over by a refusal, handle and column different. One constraint of up to two terms; at most one value of the model is not a default (`FewEdits`), which is enough to see it move to a wrong column. | holds |
| `highs_milp` | Do the type setters reach the variable they are given? | as above | violated: section 6 |
| `highs_solution` | Is a solution mapping that of the solve it came from? | as above | violated: section 6 |
| `clp` | Is every column held or free, once; is a removed one without cost and fixed at 0; does the model keep the promise of `LinearModel`, but for entries that a removal passed over and a recycled column has unchanged; are the rows that Clp is handed those the client wrote? | 3 columns: a free list of two in either order, columns recycled by `add_variable` and `add_column` and passed over by `add_variables`; one row of two terms, of each sense or a range. Or 2 columns and 3 rows: of three entries the removal passes over one, whichever the order. `MaxBatch`: one row in a call. At most three values are not a default, so that a variable can differ in cost and bounds when it is removed. The vectors of rows on 2 columns, two rows in a call, and calls one after another over the same vectors | holds |
| `clp_rows_merged` | Does Clp see each variable of a row once? | 2 columns, rows of two terms | violated: section 6 |
| `coalescing` | Is each row the sum of its terms, with stale stamps in the cache? | 2 columns, 3 registrations of up to 3 terms: the third meets stamps of both earlier ones, in one call and across resizes. `ShortBuffers` bounds the rows of `distinct_variables` calls, which no counter bounds. | holds |
| `dense_map` | Do index and store agree, is `erase_if` exact and does it return, do lookups see a map? | 4 keys, two pairs of which collide: the pair a swap brings can be doomed, kept, or moved again | holds |
| `solvers` | Do the models of seven solvers keep the promise of `MilpModel`, with calls that are refused in the middle, generators that throw and remnants of both; do the remnants constrain nothing; is SoPlex given room enough? | 2 columns, which one call can add together, and 2 rows: a remnant before and behind a held one. At most two values are not a default, and a remnant counts as one. Bound kinds: all five. SoPlex: rows of three terms with coefficients -1, 0, 1, enough to cancel and to come back | holds |
| `remapping_solvers` | Do Gurobi and CPLEX keep the promise of `MilpModel` through their maps, queues and counters, Gurobi as long as its rows are counted right; does a held handle lead to its column and the column back; is Gurobi's count of columns, slacks included, the one it has? | 3 columns, 4 handles, one map entry over, one row, which can be a range whose slack is a column before or behind the others; one refused row, after which every call is made | holds |
| `solves` | Is a solution that the status calls available one that `get_solution()` reads; does `refine_lp_status()` decide or throw, and put the parameter back on both ways? | the nineteen classes, every code of each `switch`, up to 2 variables: a model becomes empty and is filled again between two solves | holds |
| `solves_reported` | Does `solve_status()` report each solve? | as above, `xpress_milp` | violated: section 6 |
| `columns` | Do manager and model agree, with throwing lambdas and recycled handles? | 2 seeds, 3 variables: one column can take the variable of the other in one call. Ages and activations up to 2; `size_t` wraps at 3, so the count does wrap. | holds |

`VIEW` is used where a variable only records. In `highs` and `clp`, `call` is not part of the view: no guard reads it,
and TLC checks action properties on every transition. So it is in the runs of the solver models. In `columns`
a history is seen as the three values the invariants compute from it, and those
after a step depend on those before it alone.

**Fairness.** `FairSpec` of `DenseMap` has weak fairness of the turns of `erase_if` and
of its return: the function is one call on one thread, and once it runs the processor
takes its turns (the predicate is taken to return). Under it `EraseIfReturns`
holds, although the position stands still whenever a pair is erased, for then the store
is one pair shorter. The other loops go over a fixed range, and no function waits for
another, so there is nothing else to be fair about: `SolveProtocol` says nothing on
whether an optimizer returns.

Bounds that are guards: `MaxColumns`, `MaxRows`, `MaxBatch`, `MaxTerms`, `MaxHandles`, `MaxLeftOver`
(map entries left by refusals), `MaxIds` and `MaxRegistrations` of `Coalescing`, `MaxAge` and
`MaxTimes` of `ColumnManager`. `FewEdits` and `ShortBuffers` are constraints of runs, not of modules. No proof
assumes any of the constraints.

Every property of a passing run has a mutant, a plausible slip in the code
(a forgotten pop, an index not rebuilt, a notification before the transfer), with
which TLC finds the property violated. The mutants stand in the modules, before
the definitions they replace.

## 4. Proofs

TLC's instances have three columns or four keys. TLAPS proves for every value of
the constants:

| Theorem | Statement | Argument |
|---|---|---|
| `HighsModel_proofs!MapsStayInverse` | types, lookups in bounds, maps inverse, no id lost | `IInv`: the types and the three invariants are inductive together; `RemappingModel_proofs` has the lemmas on the maps alone |
| `HighsModel_proofs!HighsKeepsPromise` | `Spec => KeepsPromise` | each step of `HighsModel` is the step of `LinearModel` its `call` names, under `IInv` |
| `ClpModel_proofs!ClpInvariant` | columns held or free, once; free ones have no cost and are fixed at 0, whatever entries the removal passed over | the three parts are inductive together: an expression mentions held handles only, so `NothingForOthers` keeps free columns without cost through objectives |
| `ClpModel_proofs!ClpKeepsPromise` | `Spec => KeepsPromise`: each call is one of `LinearModel`, or `Inherits` | over a column fixed at 0, the bounds that recycling skips are those that it would have written; what is left of the entries are entries of the removed column, unchanged |
| `Containers_proofs!RowsAreSums` | columns once, rows are sums | `IInv`: no stamp is from the future (`StampsPast`); while a row is registered, valid cache entries and the positions of the row are inverse (`CacheFindsRow`, `RowInCache`) |
| `Containers_proofs!RowsKept` | `Spec => EarlierRowsKept` | a registration writes behind the rows before it, because valid entries lead into its own row |
| `Containers_proofs!IndexStaysStore` | keys once, index is that of the store | `IndexIsStore` is inductive with the types |
| `Containers_proofs!EraseIfErases` | `erase_if` is exact | `LoopInv`: what is behind the loop is tested, what is gone is doomed, and the count is of what is gone |
| `Containers_proofs!DenseMapIsMap` | `Spec => ImplementsMap` | under the invariant a lookup finds the value at the position of its key |
| `ColumnManager_proofs!MasterStaysModel` | manager and master agree | `ModelInv` says it in two directions; `PhaseOK`: what is left to evict is in the master, what is left to activate in the pool |
| `ColumnManager_proofs!CountStaysMaster` | the count is exact modulo `NumSizes` | `CountInv` adds to the count what is due: the evictions or activations of the loop that is running |
| `ColumnManager_proofs!HistoryStaysKept` | properties are what the events make them | `AppendedEvent`: what one event does to each of the three readings of a history |
| `ColumnManager_proofs!ColumnsNeverChurn` | no churn | an evicted column keeps a reduced cost above `HighCost`, an activated one has one below `LowCost` |
| `Solvers_proofs!RemnantsStayNeutral` | `Spec => []MosekRemnantsConstrainNothing` | `MosekInv`: a row of no handle is as it was appended but for its entries, a column of no handle is all zeros: bounds come after entries, entries of a column come last, and `MosekNothingForOthers`: expressions mention held columns only |
| `Solvers_proofs!CoptKept` | `Spec => CoptKeepsPromise` | what a client sees of a column depends on that column alone (`CoptRead`); `RegisteredIsSum`: terms that are passed as distinct and taken as they are sum to the same; then one lemma for each form a call has: new columns, one that changes, a new objective, new rows |
| `Solvers_proofs!XpressKept` | `Spec => XpressKeepsPromise` | as for COPT, under `XpressInv`: the client holds columns, and what was appended for a variable that could not be typed is under no handle, so it is not seen |
| `Solvers_proofs!GlpkKept` | `Spec => GlpkKeepsPromise` | as for COPT, with what `glp_set_col_bnds` keeps of two bounds for each kind of bounds (`GlpkBounded`) and what a binary kind does to them (`GlpkOfKind`): whatever kind the code chooses, the bounds that are read back are those that were given |
| `Solvers_proofs!MosekKept` | `Spec => MosekKeepsPromise` | under `MosekHolds` (`MosekInv`, keys that say which bounds are given, and handles that lead to columns and rows): of a column the client sees its entries in the rows that it holds, in the order in which it got them, so that rows and columns left behind do not show (`MosekShownBehind`, `MosekFilled`) and the new rows are seen behind those it holds, wherever MOSEK has put them |
| `Solvers_proofs!SoplexRoomEnough` | `Spec => []SoplexRoomForNonzeros` | by the terms of a row: after any number of them the dense vector holds the sums so far, and its nonzero entries are no more than the count, which goes up with every sum that is not zero and down with one that cancels (`SoplexCountEnough`, `Upward`) |
| `Solvers_proofs!SoplexKeptOnRows` | `Spec => SoplexKeepsPromiseOnRows` | the vector that is passed holds the sum of the terms of each column (`SoplexSums`, by the same induction); then as for COPT |
| `ClpModel_proofs!RowsAlwaysAddUp` | `MCSpec => []RowsAddUp` | `RowsHandedOver`: the entries between two starts are the terms of the row as they were written, since what is in the vectors after a row stays in front of what later rows add |
| `RemappingSolvers_proofs!RemappedHandlesAlwaysReturn` | `~Careless => (Spec => []RemappedHandlesReturn)` | `RemappedInv`: the maps agree on held handles and columns, whatever entry a refused column left over; a typed variable of CPLEX takes two handles for one column, and the one that is returned is in the maps (`TwoHandlesAgree`) |
| `RemappingSolvers_proofs!GurobiColumnsAlwaysCounted` | `~Careless => (Spec => []GurobiColumnsCounted)` | `GurobiInv`: with the maps in agreement, the count of native ids is the number of columns, of which a removal takes as many as it was given (`GurobiRemove`) |
| `MilpFronts_proofs!AvailableStaysReadable` | `Spec => []AvailableIsReadable` | `ReadInv`: a fresh status that is available comes with a solution, a solution that is not stale is of the kind that is read, and the status of `xpress_milp` never promises one |
| `MilpFronts_proofs!RefineAlwaysDecides` | `Spec => RefineDecides` | an action property: each way through the second solve of each class, by cases |

They rest on the assumptions on the constants, which TLC evaluates in every
run, and those on the maps of Gurobi and CPLEX on clients that make no call which forgets
the maps (`Careless`, sections 5 and 6): such a call writes an entry behind the end of the
handle map or takes a handle for a column, after which a held handle may no longer return
(TLC shows it within a few calls), and what the count of columns is then is not defined.
Two of the assumptions deserve mention: `InfinityAssumption` (no right-hand side is infinite, as in
`ClpDataAssumption`: sense and right-hand side could not be read back) and `NoWrapAround` in
`Coalescing` (fewer registrations than 2^32: after a wrap an old stamp is valid).

**Why the strengthening.** That the maps are inverse is not inductive alone: a
recycled handle must not be held (`NoHandleLost`), and the handle map must be at
least as long as the columns (`LookupsInBounds`) or a new column writes past it.
That rows have each column once needs to know the whole cache, because
the next term consults it.

A handle of MOSEK is a column also behind remnants, but that these constrain nothing is
an invariant only with what a column of no handle holds before its entries come. For
Gurobi, that the columns are counted needs the maps to agree: a removal counts the handles
it is given and Gurobi the columns they lead to. For the status, what matters is not the
last answer but what the library still holds of it when the model has changed.

The rows of SoPlex and of Clp are recursive functions of the terms. The provers cannot
use the induction theorems of the library, which take an operator; the proofs go to the least
counterexample instead, in the set of the lengths at which a statement fails
(`Upward`); that there is a function as defined is proved the same way (`Recursion`).

**Only model-checked.**

* The promises of Cbc, SCIP and CPLEX. Nothing but their size is in the way;
  `CoptKept` and, for models whose columns are not all held, `MosekKept` are the pattern.
* `GurobiKeepsPromise`, for the same reason. It speaks of the calls that start with the rows
  counted right: after a row that Gurobi refused, the counter is ahead and the next row is at
  another place (section 6).
* `LoopCompacts`: the proof would go by induction over the columns, as for the rows of SoPlex.
  The theorems on HiGHS, Gurobi and CPLEX rest on what the loop leaves, in one step.
* `EraseIfReturns`, which is liveness.

## 5. Modelling decisions

* The client obeys the interface: it passes handles it holds, removes none twice,
  passes `distinct_variables` only for distinct terms, and does not call the
  manager from its lambdas.
* A solver call either does what it says or refuses and changes nothing. In
  `HighsModel` calls after a successful `addCol` in the same operation (type, name) are
  taken to succeed; MOSEK and Xpress, where the second call is the rule, have the
  refusal as an action; `add_variables` is `noexcept` in effect and its failure ends the process.
* Clp adds up the entries of a repeated variable, as the randomised tests, which
  repeat variables on purpose, rely on; `AddRows` of `ClpModel` has it do so.
* The loop of Clp's `remove_variable` walks over Clp's own index array while each
  `modifyCoefficient` deletes an entry from it. Clp's code is not in the repository: the model
  has it close the gap in place (`Closed`) or delete more than that, so that any of the
  entries that are passed over may stay, or none. `ClpInvariant` and `ClpKeepsPromise` hold for
  all of these.
* `HighsModel` has no constant of the objective, which `set_objective` and `add_objective` of
  `highs_base` write too (lines 107 and 138): no call that is modelled reads it. The models
  under `MilpModel` have it.
* `CountIsMaster` counts modulo the activations of calls that a lambda has interrupted, which
  `num_columns()` loses for good; it says nothing on how many of them there are.
* Scalars are small integers: no property is about rounding.
* A remove lambda removes all the variables it is given, or throws and removes none.
* A pricing broadcast whose callback throws halfway prices a part of the columns;
  the broadcast is one step here.
* A call of a solver model that mistakes a handle for a column, or forgets the maps
  (section 6), is made only while the two are the same. `Careless` lifts this.
* `AvailableIsReadable` speaks of models with variables whose last solve did not throw:
  in the other states the status is that of an earlier solve.
* A Gurobi range has no constant: `add_ranged_constraint` ignores it.
* Running out of memory is modelled where the code handles it (`try_emplace`).

## 6. Findings

* `highs_milp.hpp:57`: `set_continuous`, `set_integer` and `set_binary` pass the handle
  id to HiGHS where it wants a column. After a removal they change the type of
  another variable, or of none. Run `highs_milp`.
* `highs_lp.hpp:94`: the mapping that `get_solution()` returns translates handles
  when it is read. After a removal it gives a variable the value of another
  one. Run `highs_solution`.

* `clp_lp.hpp:318`, `342`, `437`: no row is merged before Clp gets it, also without
  `distinct_variables`. The documentation says that repeated variables are merged on
  the fly. Run `clp_rows_merged`; clients see the same sums as long as Clp adds up.
* `xpress_milp.hpp:264`: `solve()` never asks how the optimizer ended, and `solve_status()`
  says unknown for ever. The documentation says that every class reports how its last
  solve ended. Run `solves_reported`.

Met while modelling, and not given a run of their own. Where a definition is named, it says what
the code does not keep, and TLC finds it violated on the instances of section 3:

| Where | What the code does | What is said |
|---|---|---|
| `gurobi_milp.hpp:72-83` | the type setters take the handle for the column, as in HiGHS | `docs/solving/updates.md:62` |
| `gurobi_milp.hpp:50`, `cplex_milp.hpp:50` | `_add_binary_variables` writes map entries that it did not make | - |
| `gurobi_milp.hpp:96`, `cplex_milp.hpp:110` | the indicator variable's handle is taken for its column | `special-constraints.md:18` |
| `gurobi_milp.hpp:152-160` | a lazy constraint registers handles for columns | `branch-and-cut.md:27` |
| `gurobi_base.hpp:469` | the row is counted before Gurobi can refuse it; from then on `num_constraints()` throws (184), and each new handle names the row behind its own (`RowsCounted` of `GurobiModel`) | `updates.md:9` |
| `gurobi_base.hpp:567` | a range ignores the constant of its expression | - |
| `cplex_milp.hpp:24-29`, `66-71` | a typed variable takes two handles, the first is lost | - |
| `cplex_lp.hpp:22-25` | the time limit is set as the simplex iteration limit | - |
| `copt_lp.hpp:76` | the dual values go to a buffer with one place for each variable | `solutions.md:51` |
| `highs_base.hpp:193` and the other two | a removal that the solver refused is tried again with the next one | - |
| `gurobi_lp.hpp:84`, `cplex_lp.hpp:109` | parameters stay changed when the second solve fails, or a parameter cannot be put back | - |
| `glpk_lp.hpp`, `glpk_milp.hpp` | a failed simplex leaves the status of before; an integer infeasible problem (0 of `intopt`) is reported optimal | - |
| `clp_lp`, `cbc_milp` | `get_solution()` is a live pointer into the library, no snapshot | `solutions.md:18` |
| `mosek_milp.hpp:84` | a MIP start gives 0 to variables that it does not mention | `updates.md:73` |
| `mosek_lp.hpp`, `mosek_milp.hpp` | dual infeasible is reported as unbounded; the status is taken from any solution, values from the integer one | - |
| `scip_milp.hpp:573` | the callback of the client is never called | `branch-and-cut.md:15` |
| `glpk_base.hpp:296` | a setter makes a fixed variable a bounded one with equal ends (`FixedIsFixed` of `GlpkModel`) | `updates.md:24` |
| `soplex_lp.hpp:157` | `add_column` puts entries at the wrong places (`ColumnHasItsEntries` of `SoplexModel`) | `updates.md:58` |
| `cbc_milp.hpp:430` | `add_ranged_constraint` merges terms in a cache that it never makes long enough: it has the length that the last `add_constraint` or `add_constraints` gave it, which is none in a fresh model (`CacheHoldsAllIds` of `MCSolvers`) | `model_base.hpp:104` |
| `clp_lp.hpp:269` | the loop that zeroes a removed column passes over every other entry, if Clp closes the gaps in place: of n entries (n - 1) / 2 stay, rounded down, and a variable that recycles the column has coefficients nobody gave it (`RemovedIsZeros` of `ClpModel`) | `updates.md:67`, `clp_lp.hpp:263` |
| SCIP, GLPK, Cbc, SoPlex | rows before a generator that throws stay in the problem | `expressions.md:81` |
| `highs_milp`, `cbc_milp` | an iteration limit, or a time limit without integers, is reported as unknown | - |

## 7. Not modelled

* **Names, limits and tolerances.** Each is one call that passes a value to the solver
  and keeps nothing; that `cplex_lp` passes a time limit to the wrong parameter is in the table above.
* **Callbacks, candidate solutions, lazy constraints.** When the solver calls back, from
  which thread and with what, is the solver's; what the handle classes do with it is
  coalescing as in `Coalescing` and one call, and where they take handles for columns is
  in the table above.
* **MIP starts, indicator constraints, special ordered sets.** One translation and one
  call each, without state that outlives it.
* **The quadratic objective** (`highs_qp.hpp:22-77`). A sort of pairs of handles that fills a
  triangle column by column: pure data, right only while columns increase with handles.
* **Expression templates, entities, mappings, concepts.** Stateless, resolved at compile
  time; what they build is `LinearTerms`.
* **`detail/solver_library.hpp`.** A search over environment variables and paths when
  a program starts; it has no state.
* **Memory that runs out in `erase_slot`** (`unordered_dense_map.hpp:390`) and a **wrapping
  `register_count`** (`model_base.hpp:130`): the invariants fail there, and are stated for
  what comes before.
* **A remove lambda that throws halfway** (`column_manager.hpp:257`).
* **Solver bindings, build files, tools, examples, tests, documentation.** Read for what
  they promise.

The next step would be proofs that the other models implement `MilpModel` for every
size, on the pattern of `CoptKept` and `MosekKept`.
