----------------------------- MODULE MCResizeLoop -----------------------------
(* ResizeLoop with the program's MIN and SPEED; MAX is smaller but leaves the *)
(* same remainder modulo SPEED, so that both ends are turned at alike.        *)
EXTENDS ResizeLoop

(* The loop makes its own sizes. *)
MCSizes == {}
================================================================================
