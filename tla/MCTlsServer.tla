---------------------------- MODULE MCTlsServer ----------------------------
(* Small instances of TlsServer for TLC. *)
EXTENDS TlsServer, TLC

\* Which caller or connection does what is immaterial to the safety properties.
Symmetry == Permutations(Callers) \cup Permutations(Conns)
=============================================================================
