---------------------------- MODULE MCRateLimiter ----------------------------
(* Small instances of RateLimiter for TLC.                                 *)
EXTENDS RateLimiter, TLC

\* Calls are interchangeable.
Symmetry == Permutations(Allows) \cup Permutations(Closers)
=============================================================================
