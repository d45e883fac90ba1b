------------------------------ MODULE OutputSet ------------------------------
(***************************************************************************)
(* What surface-outputs keeps: for each surface the set of outputs it is   *)
(* on, as far as the program has been told and can remember.               *)
(***************************************************************************)
EXTENDS FiniteSets, Naturals

CONSTANTS Surfaces, Outputs,
          OUTPUT_TRACKER_CAP    (* 64 in the program *)

VARIABLES on,      (* the outputs remembered for each surface *)
          missed   (* those there was no room for             *)

Init == /\ on = [s \in Surfaces |-> {}]
        /\ missed = [s \in Surfaces |-> {}]

(* An enter event adds its output. *)
Entered(s, o) == /\ Cardinality(on[s] \cup {o}) <= OUTPUT_TRACKER_CAP
                 /\ on' = [on EXCEPT ![s] = @ \cup {o}]
                 /\ missed' = [missed EXCEPT ![s] = @ \ {o}]

(* It misses it only when there is no room. *)
Missed(s, o) == /\ Cardinality(on[s] \cup {o}) > OUTPUT_TRACKER_CAP
                /\ missed' = [missed EXCEPT ![s] = @ \cup {o}]
                /\ UNCHANGED on

Left(s, o) == /\ on' = [on EXCEPT ![s] = @ \ {o}]
              /\ missed' = [missed EXCEPT ![s] = @ \ {o}]

Next == \E s \in Surfaces, o \in Outputs :
          Entered(s, o) \/ Missed(s, o) \/ Left(s, o)

Spec == Init /\ [][Next]_<<on, missed>>
==============================================================================
