-------------------------- MODULE MCNativeRecording --------------------------
(* Instances of NativeRecording for TLC. *)
EXTENDS NativeRecording, TLC

Symmetry == Permutations(Slots)
=============================================================================
