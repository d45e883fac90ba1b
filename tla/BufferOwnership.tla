--------------------------- MODULE BufferOwnership ---------------------------
(***************************************************************************)
(* The ownership rule of shared-memory buffers: the client paints into a   *)
(* buffer, replaces it or destroys it only while the buffer is its own;    *)
(* handing it over gives it to the compositor until it comes back.         *)
(***************************************************************************)
CONSTANTS Slots, Buffers, NULL

VARIABLES buffer,    (* the buffer of each slot, NULL when it has none *)
          owner      (* who may touch it                               *)

vars == <<buffer, owner>>

Init == /\ buffer = [i \in Slots |-> NULL]
        /\ owner = [i \in Slots |-> "client"]

(* Paint slot i, into its own buffer or a new one, and hand it over. *)
Submit(i) == /\ owner[i] = "client"
             /\ \E b \in Buffers :
                  /\ \A j \in Slots \ {i} : buffer[j] # b
                  /\ buffer' = [buffer EXCEPT ![i] = b]
             /\ owner' = [owner EXCEPT ![i] = "compositor"]

(* Destroy the buffer of slot i without a successor. *)
Discard(i) == /\ owner[i] = "client"
              /\ buffer' = [buffer EXCEPT ![i] = NULL]
              /\ UNCHANGED owner

Return(i) == /\ owner[i] = "compositor"
             /\ owner' = [owner EXCEPT ![i] = "client"]
             /\ UNCHANGED buffer

Next == \E i \in Slots : Submit(i) \/ Discard(i) \/ Return(i)

Spec == Init /\ [][Next]_vars
==============================================================================
