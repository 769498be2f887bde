----------------------------- MODULE MCLockOrder -----------------------------
(* LockOrder for TLC: two organisations, one app, one handle, one creator. *)
EXTENDS LockOrder, TLC

HandlerSymmetry == Permutations(Proc)

MCCall == Proc \X (1..MaxDepth)
==============================================================================
