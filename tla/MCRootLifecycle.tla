--------------------------- MODULE MCRootLifecycle ---------------------------
(* RootLifecycle on a small instance for TLC.                                *)
EXTENDS RootLifecycle, TLC

Symmetric == Permutations(Proc)
=============================================================================
