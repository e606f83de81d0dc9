--------------------------- MODULE MCCoalescing ---------------------------
(***************************************************************************)
(* Two columns and three registrations: the third can meet stamps of both  *)
(* earlier ones, in the same call and across calls that resize the cache.  *)
(***************************************************************************)
EXTENDS Coalescing

MCTermCoefs == {1}

\* Bounds the rows of calls with distinct_variables, which no counter bounds.
\* The rows of the other calls have at most 6 entries anyway.
ShortBuffers == Len(tmp_indices) <= 6
=============================================================================
