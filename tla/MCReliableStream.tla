-------------------------- MODULE MCReliableStream --------------------------
(* ReliableStream for TLC. *)
EXTENDS ReliableStream, TLC

\* The payloads are interchangeable: no formula of the specification tells one
\* from another.
PayloadSymmetry == Permutations(Payload)
=============================================================================
