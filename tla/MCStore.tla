------------------------------ MODULE MCStore ------------------------------
(* Instances of Store for TLC.                                             *)
EXTENDS Store

\* Documents 2 and 3 have the same name.
MCStemOf == [d \in Docs |-> IF d = 1 THEN "a" ELSE "b"]

=============================================================================
