----------------------------- MODULE UnityMessages -----------------------------
(***************************************************************************)
(* What an assertion comes to: it holds, or it fails and prints why, at    *)
(* which element, and the values it shows.                                 *)
(***************************************************************************)

Holds == [why |-> "holds"]
Fails(why, at, shown) == [why |-> why, at |-> at, shown |-> shown]
==============================================================================
