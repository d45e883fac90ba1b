---------------------------- MODULE MCPoolBuffer ----------------------------
(* PoolBuffer with three mappings and three or two descriptors.              *)
EXTENDS PoolBuffer, TLC

(* The same area in two shapes, a smaller, a larger and an empty area; and    *)
(* negative sides: one, and both with the bytes of the larger area.           *)
MCSizes == {<<0, 0>>, <<1, 1>>, <<1, 2>>, <<2, 1>>, <<-1, 1>>, <<-1, -8>>}

(* Nothing in PoolBuffer tells one unused wayland object from another. *)
MCSymmetry == Permutations(Buffers) \cup Permutations(Pools)
=============================================================================
