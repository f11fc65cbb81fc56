---------------------------- MODULE MCRootCover ----------------------------
(* Three nested directories; a file of the deepest is asked for, and the     *)
(* second with what is below it.                                             *)
EXTENDS RootCover

Asked == {[dir |-> 3, file |-> TRUE], [dir |-> 2, file |-> FALSE]}
=============================================================================
