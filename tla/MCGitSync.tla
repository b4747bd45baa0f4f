------------------------------ MODULE MCGitSync ------------------------------
(* GitSync with up to five commits: the first, and those that promotions and  *)
(* others make on either side.                                                *)
EXTENDS GitSync
=============================================================================
