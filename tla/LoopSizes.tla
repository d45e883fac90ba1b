------------------------------ MODULE LoopSizes ------------------------------
(***************************************************************************)
(* The sizes resize-loop goes through: a signed number that grows by SPEED *)
(* each frame, drawn as its absolute value.  While it is positive the      *)
(* window grows, while it is negative it shrinks.                          *)
(***************************************************************************)
EXTENDS Integers

CONSTANTS MIN, MAX, SPEED    (* 2, 512 and 10 in the program *)

ASSUME LoopSizesAssumption == /\ MIN \in Nat \ {0}
                              /\ MAX \in Nat
                              /\ SPEED \in Nat \ {0}
                              /\ MIN <= MAX

Absolute(n) == IF n < 0 THEN -n ELSE n

(* Mutant of Turned: turning round where n is. *)
Turned_late(n) == IF n < 0 /\ n > -MIN THEN MIN
                  ELSE IF n > 0 /\ n > MAX THEN -n
                  ELSE n

Turned(n) == IF n < 0 /\ n > -MIN THEN MIN
             ELSE IF n > 0 /\ n > MAX THEN -MAX
             ELSE n
==============================================================================
