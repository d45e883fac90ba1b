-------------------------------- MODULE CopyFu --------------------------------
(***************************************************************************)
(* What the two halves of copy-fu share: CopySource has the selection it   *)
(* offers and CopyTransfers the descriptors it serves.                     *)
(***************************************************************************)
EXTENDS Integers, Sequences

CONSTANTS NULL,          (* the C null pointer                            *)
          Modes,         (* the copyfu_modes a run looks at               *)
          MaxEvents      (* bound on events on their way                  *)

copyfu_mode == {"DEFAULT", "CAT_RANDOM", "BAD_SERIAL", "ZERO_SINK", "STEAL_SERIAL",
                "RECV_FILE", "STEAL_SYNC", "RECV_FLOOD", "RECV_SOCKETPAIR",
                "RECV_EPIPE"}

ASSUME CopyFuAssumption == Modes \subseteq copyfu_mode /\ MaxEvents \in Nat

VARIABLES mode,
          events         (* sent by the compositor and not handled yet    *)

(* The handler of the event at the head of the queue runs. *)
Handle(type) == /\ events # <<>>
                /\ Head(events).type = type
                /\ events' = Tail(events)
                /\ UNCHANGED mode
================================================================================
