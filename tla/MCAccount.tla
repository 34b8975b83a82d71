----------------------------- MODULE MCAccount -----------------------------
(* A finite instance of Account for TLC: two requests and a browser        *)
(* operation.                                                              *)
EXTENDS Account, TLC

Interchangeable == Permutations(Http)
=============================================================================
