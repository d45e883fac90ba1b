------------------------------- MODULE MCResizor -------------------------------
(* Resizor with sides of 1 and 2: a drag along the diagonal turns 1x2 into    *)
(* 2x1, which has as many bytes.  A configure event asks for 3x3, and the     *)
(* right button leads to 0 and below.                                         *)
EXTENDS Resizor, TLC

MCStart == [a \in Axes |-> a]

MCPoints == {[a \in Axes |-> 0], [a \in Axes |-> IF a = 1 THEN 1 ELSE -1]}

MCSizes == {[a \in Axes |-> 0], [a \in Axes |-> 3]}

MCSymmetry == Permutations(Buffers)
================================================================================
