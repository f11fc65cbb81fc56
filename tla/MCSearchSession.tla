--------------------------- MODULE MCSearchSession ---------------------------
(* SearchSession on a small instance for TLC.                                *)
EXTENDS SearchSession

CONSTANTS a, b

\* "phrase" contains the query, "word" a term of it, "near" has its meaning,
\* "doc" contains it and has its meaning; "use" contains it, in a line of code
\* that belongs to no symbol.
FilesOf == {<<"phrase", "near">>, <<"word">>, <<"doc", "word">>, <<"use", "near">>}

AllOrOne == {{a, b}, {a}}
=============================================================================
