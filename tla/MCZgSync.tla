------------------------------ MODULE MCZgSync ------------------------------
(* ZgSync on small instances for TLC.                                        *)
EXTENDS ZgSync, TLC

CONSTANTS p1, p2

\* Searches of the whole root and of each of two sibling directories, each
\* holding one file.
Everywhere == {Path}
EachDir    == {Path, {p1}, {p2}}

\* Directory names without '_', '%' and case variants: LIKE is exact.
NoneAlike == [s \in Scopes |-> {}]

\* The directory of p1 is called "a_b", that of p2 "axb": LIKE 'a_b/%' also
\* returns the row of p2.
WildcardName == [s \in Scopes |-> IF s = {p1} THEN {p2} ELSE {}]

Symmetric == Permutations(Proc) \cup Permutations(Text)

\* With NoneAlike the two directories are interchangeable too.
SymmetricPaths == Symmetric \cup Permutations(Path)
=============================================================================
