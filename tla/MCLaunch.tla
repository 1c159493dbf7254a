------------------------------ MODULE MCLaunch ------------------------------
(* Requests are interchangeable, and so are titles: no property names one.  *)
EXTENDS Launch, TLC

Symmetry == Permutations(Handlers) \cup Permutations(Titles)
=============================================================================
