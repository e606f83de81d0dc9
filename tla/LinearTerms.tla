---------------------------- MODULE LinearTerms ----------------------------
(***************************************************************************)
(* The linear expressions that clients hand to a model: a sequence of      *)
(* terms, each a variable handle and a coefficient, in the order the       *)
(* client wrote them.  The same variable may occur several times, and what *)
(* it contributes is the sum of its coefficients.                          *)
(***************************************************************************)
EXTENDS Integers, Sequences, FiniteSetsExt

\* The expressions over a set of variables with at most n terms.
Expressions(Vars, Coefs, n) ==
    UNION {[1..k -> [var : Vars, coef : Coefs]] : k \in 0..n}

\* The sum of the coefficients of the terms at the positions in K.
SumAt(terms, K) == MapThenSumSet(LAMBDA k : terms[k].coef, K)

\* What the expression gives to variable v.
CoefficientOf(terms, v) == SumAt(terms, {k \in DOMAIN terms : terms[k].var = v})

\* The variables an expression mentions.
VarsOf(terms) == {terms[k].var : k \in DOMAIN terms}

\* No variable twice: what a caller that passes distinct_variables promises.
IsDistinct(terms) ==
    \A j, k \in DOMAIN terms : terms[j].var = terms[k].var => j = k
=============================================================================
