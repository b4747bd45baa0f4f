---------------------------- MODULE MCController ----------------------------
(* Controller with two environments, of which the first in the order of the *)
(* loop fails every time, and one commit after the first.                   *)
EXTENDS Controller
=============================================================================
