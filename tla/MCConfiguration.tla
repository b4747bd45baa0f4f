-------------------------- MODULE MCConfiguration --------------------------
(***************************************************************************)
(* Three environments with every promoteFrom, and directories that differ  *)
(* in what LoadServices and ValidateManifests look at.                     *)
(***************************************************************************)
EXTENDS Configuration

CONSTANTS a, b, x, y

Named(p, branch, from, located) ==
    [policy |-> p, branch |-> branch, promoteFrom |-> from, located |-> located]

MCEntries ==
    {Named(p, TRUE, from, TRUE) : p \in {"auto", "manual"}, from \in Source}
      \cup {Named("auto", FALSE, 0, TRUE), Named("manual", FALSE, 0, FALSE)}

At(n, r, pinned) == [name |-> n, run |-> r, pinned |-> pinned]

MCDirectories ==
    { {At(a, x, TRUE)}, {At(a, x, TRUE), At(b, y, TRUE)},
      {At(a, x, TRUE), At(b, x, TRUE)}, {At(b, x, FALSE)}, {} }
=============================================================================
