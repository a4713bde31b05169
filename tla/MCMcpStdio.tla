---------------------------- MODULE MCMcpStdio ----------------------------
(* Model checking of McpStdio: handlers of one server are interchangeable. *)
EXTENDS McpStdio, TLC

Symmetry == Permutations(Workers)
=============================================================================
