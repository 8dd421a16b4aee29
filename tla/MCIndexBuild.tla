---------------------------- MODULE MCIndexBuild ----------------------------
(* Instances of IndexBuild for TLC.                                        *)
EXTENDS IndexBuild

\* No words, one word, and two words one of which occurs more often than the
\* dictionary has words.
MCTexts == {<<>>, [w \in {2} |-> 1], [w \in {1, 2} |-> IF w = 1 THEN 3 ELSE 1]}

=============================================================================
