--------------------------- MODULE MCSurfaceOutputs ---------------------------
(* SurfaceOutputs with trackers that fill up, and outputs without identity. *)
EXTENDS SurfaceOutputs, TLC

Interchangeable == Permutations(Outputs) \cup Permutations(Surfaces)
================================================================================
