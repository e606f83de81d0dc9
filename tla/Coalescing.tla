----------------------------- MODULE Coalescing -----------------------------
(***************************************************************************)
(* The scratch buffers of model_base, with which every model turns linear  *)
(* expressions into the sparse rows that the C interfaces want.  A row has *)
(* each column once, so the coefficients of repeated terms are added up;   *)
(* a cache indexed by column remembers where in the row the column is.     *)
(* The cache is never cleared: an entry counts only if it was stamped by   *)
(* the present registration.                                               *)
(*                                                                         *)
(* A call of the client (`add_constraints', say) prepares the buffers and  *)
(* then registers one expression for each row, one row after the other in  *)
(* the same vectors.  One step here is one turn of the loop.  Columns and  *)
(* positions count from 1; `entries' and `totals' are what is left of the  *)
(* expression and what its terms so far add up to, column by column.       *)
(***************************************************************************)
EXTENDS LinearTerms

CONSTANTS MaxIds,            \* bound on the number of columns
          TermCoefs,         \* coefficients of the terms
          CountModulus,      \* 2^32, where register_count wraps around
          MaxRegistrations,  \* bound on the registrations of a model's lifetime
          MaxTerms           \* bound on the number of terms of an expression

ASSUME CoalescingAssumption ==
    /\ MaxIds \in Nat
    /\ TermCoefs \subseteq Int
    /\ CountModulus \in Nat
    /\ MaxRegistrations \in Nat
    /\ MaxTerms \in Nat

\* A model does not live long enough to see its counter wrap around.
ASSUME NoWrapAround == MaxRegistrations < CountModulus

VARIABLES tmp_entry_index_cache,  \* column -> stamp and position in the buffers
          register_count,         \* the stamp of the last registration
          tmp_indices,            \* the columns of the rows so far
          tmp_scalars,            \* and their coefficients
          distinct,               \* whether the caller promised distinct_variables
          begin,                  \* where the row being registered begins
          entries,                \* the terms left to register
          totals                  \* column -> sum of its terms in this row so far

buffers == <<tmp_entry_index_cache, register_count, tmp_indices, tmp_scalars>>
bufferVars == <<buffers, distinct, begin, entries, totals>>

\* vector::resize: new entries are (0, 0), and shrinking forgets the last ones.
Resized(cache, n) ==
    [i \in 1..n |-> IF i <= Len(cache) THEN cache[i] ELSE [stamp |-> 0, position |-> 0]]

InitBuffers ==
    /\ tmp_entry_index_cache = <<>>
    /\ register_count = 0
    /\ tmp_indices = <<>>
    /\ tmp_scalars = <<>>
    /\ distinct = FALSE
    /\ begin = 0
    /\ entries = <<>>
    /\ totals = [i \in {} |-> 0]

\* The start of a call on a model with n columns.  With distinct_variables the
\* cache is not needed, and it is left as it is.
Prepare(n, d) ==
    /\ entries = <<>>
    /\ distinct' = d
    /\ tmp_entry_index_cache' =
           IF d THEN tmp_entry_index_cache ELSE Resized(tmp_entry_index_cache, n)
    /\ tmp_indices' = <<>>
    /\ tmp_scalars' = <<>>
    /\ begin' = 0
    /\ totals' = [i \in {} |-> 0]
    /\ UNCHANGED <<register_count, entries>>

\* _register_raw_entries: copies the terms of an expression without repetition.
RegisterRaw(terms) ==
    /\ entries = <<>> /\ distinct
    /\ tmp_indices' = tmp_indices \o [k \in DOMAIN terms |-> terms[k].var]
    /\ tmp_scalars' = tmp_scalars \o [k \in DOMAIN terms |-> terms[k].coef]
    /\ begin' = Len(tmp_indices)
    /\ totals' = [i \in VarsOf(terms) |->
                     terms[CHOOSE k \in DOMAIN terms : terms[k].var = i].coef]
    /\ UNCHANGED <<tmp_entry_index_cache, register_count, distinct, entries>>

\* Mutant: a registration does not take a stamp of its own.
RegisterWithoutStamp(terms) ==
    /\ entries = <<>> /\ ~distinct
    /\ register_count < MaxRegistrations
    /\ register_count' = IF register_count = 0 THEN 1 ELSE register_count
    /\ begin' = Len(tmp_indices)
    /\ entries' = terms
    /\ totals' = [i \in {} |-> 0]
    /\ UNCHANGED <<tmp_entry_index_cache, tmp_indices, tmp_scalars, distinct>>

\* _register_coalescing_entries, up to its loop.
Register(terms) ==
    /\ entries = <<>> /\ ~distinct
    /\ register_count < MaxRegistrations
    /\ register_count' = (register_count + 1) % CountModulus
    /\ begin' = Len(tmp_indices)
    /\ entries' = terms
    /\ totals' = [i \in {} |-> 0]
    /\ UNCHANGED <<tmp_entry_index_cache, tmp_indices, tmp_scalars, distinct>>

\* Mutant: any stamp will do.
KnownByAnyStamp(v) == tmp_entry_index_cache[v].stamp # 0

\* One turn of the loop: the column is in the row already, or it is appended.
Known(v) == tmp_entry_index_cache[v].stamp = register_count

AddUp(v, c) ==
    /\ Known(v)
    /\ tmp_scalars' = [tmp_scalars EXCEPT ![tmp_entry_index_cache[v].position] = @ + c]
    /\ UNCHANGED <<tmp_entry_index_cache, tmp_indices>>

\* Mutant: the position is not remembered.
EmplaceWithoutCache(v, c) ==
    /\ ~Known(v)
    /\ tmp_indices' = Append(tmp_indices, v)
    /\ tmp_scalars' = Append(tmp_scalars, c)
    /\ UNCHANGED tmp_entry_index_cache

\* Mutant: the coefficient is dropped.
EmplaceWithoutScalar(v, c) ==
    /\ ~Known(v)
    /\ tmp_entry_index_cache' = [tmp_entry_index_cache EXCEPT
           ![v] = [stamp |-> register_count, position |-> Len(tmp_indices) + 1]]
    /\ tmp_indices' = Append(tmp_indices, v)
    /\ UNCHANGED tmp_scalars

Emplace(v, c) ==
    /\ ~Known(v)
    /\ tmp_entry_index_cache' = [tmp_entry_index_cache EXCEPT
           ![v] = [stamp |-> register_count, position |-> Len(tmp_indices) + 1]]
    /\ tmp_indices' = Append(tmp_indices, v)
    /\ tmp_scalars' = Append(tmp_scalars, c)

RegisterEntry ==
    /\ entries # <<>>
    /\ LET v == Head(entries).var
           c == Head(entries).coef
       IN  /\ AddUp(v, c) \/ Emplace(v, c)
           /\ totals' = [i \in DOMAIN totals \cup {v} |->
                             (IF i \in DOMAIN totals THEN totals[i] ELSE 0)
                             + (IF i = v THEN c ELSE 0)]
    /\ entries' = Tail(entries)
    /\ UNCHANGED <<register_count, distinct, begin>>

NextBuffers ==
    \/ \E n \in 0..MaxIds, d \in BOOLEAN : Prepare(n, d)
    \/ \E terms \in Expressions(1..MaxIds, TermCoefs, MaxTerms) :
           IsDistinct(terms) /\ RegisterRaw(terms)
    \/ \E terms \in Expressions(DOMAIN tmp_entry_index_cache, TermCoefs, MaxTerms) :
           Register(terms)
    \/ RegisterEntry

BuffersSpec == InitBuffers /\ [][NextBuffers]_bufferVars
----------------------------------------------------------------------------
(* Properties *)

\* Every buffer holds what the code puts in it.
BuffersTyped ==
    /\ tmp_entry_index_cache \in Seq([stamp : 0..MaxRegistrations, position : Nat])
    /\ Len(tmp_entry_index_cache) <= MaxIds
    /\ register_count \in 0..MaxRegistrations
    /\ tmp_indices \in Seq(1..MaxIds)
    /\ tmp_scalars \in Seq(Int)
    /\ Len(tmp_scalars) = Len(tmp_indices)
    /\ distinct \in BOOLEAN
    /\ begin \in 0..Len(tmp_indices)
    /\ entries \in Seq([var : DOMAIN tmp_entry_index_cache, coef : TermCoefs])
    /\ DOMAIN totals \subseteq 1..MaxIds

\* The positions of the row being registered, or registered last.
Row == (begin + 1)..Len(tmp_indices)

\* A row names each column once: the solvers refuse a row that repeats one.
ColumnsOnce == \A j, k \in Row : tmp_indices[j] = tmp_indices[k] => j = k

\* The row says of each column what the terms registered so far add up to, and
\* has the columns of those terms and no other: no stale stamp of an earlier row,
\* of an earlier call or of a cache entry that resize made is ever taken for a
\* position in this one.
RowIsSum ==
    /\ DOMAIN totals = {tmp_indices[k] : k \in Row}
    /\ \A k \in Row : tmp_scalars[k] = totals[tmp_indices[k]]

\* Registering a row leaves the earlier rows of the same call as they are; only
\* the start of a call drops them.
EarlierRowsKept ==
    [][tmp_indices' # <<>> =>
          \A k \in 1..begin' : /\ tmp_indices'[k] = tmp_indices[k]
                               /\ tmp_scalars'[k] = tmp_scalars[k]]_bufferVars
=============================================================================
