------------------------------- MODULE MCFetch -------------------------------
(* A few concurrent fetches from one target.  Requests are interchangeable, and *)
(* so are tokens; no property is about liveness.                                *)
EXTENDS Fetch, TLC

Symmetry == Permutations(Request) \cup Permutations(Token)
==============================================================================
