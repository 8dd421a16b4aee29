---------------------------- MODULE MCSSE2Lookup ----------------------------
(* Instances of SSE2Lookup for TLC.                                        *)
EXTENDS SSE2Lookup, TLC

\* With two digits the third document already has a number of two digits:
\* "aa", "aa1" and "ab", where 0 and 1 are the digits.
MCWords == <<<<2, 2>>, <<2, 2, 1>>, <<2, 3>>>>

\* The names are interchangeable: nothing orders them.
Symmetry == Permutations(Stems)

=============================================================================
