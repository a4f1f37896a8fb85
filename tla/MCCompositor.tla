---------------------------- MODULE MCCompositor ----------------------------
(* Instances of Compositor for TLC. *)
EXTENDS Compositor, TLC

Symmetric == Permutations(Windows)
=============================================================================
