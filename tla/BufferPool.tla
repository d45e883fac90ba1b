------------------------------ MODULE BufferPool ------------------------------
(***************************************************************************)
(* What pool-buffer.c promises to the code that draws: a pool of two       *)
(* slots, each with at most one wl_buffer, and a get_next_buffer that      *)
(* yields a slot the compositor does not hold, with as many bytes as asked *)
(* for.  Descriptors, mappings and wl_shm_pools are left to PoolBuffer,    *)
(* which implements this module; the clients are built on this one.        *)
(***************************************************************************)
EXTENDS ShmGeometry

CONSTANTS Buffers,   (* the identities of wl_buffer objects              *)
          NULL,      (* the C null pointer                               *)
          Sizes      (* the <<width, height>> pairs a program may ask for *)

ASSUME BufferPoolAssumption == /\ NULL \notin Buffers
                               /\ Sizes \subseteq Int \X Int

VARIABLE slots       (* struct pool_buffer buffers[2], what clients see of it *)

Slots == 0 .. 1

Slot == [buffer : Buffers \cup {NULL}, width : Int, height : Int,
         busy : BOOLEAN]

EmptySlot == [buffer |-> NULL, width |-> 0, height |-> 0, busy |-> FALSE]

(* Mutant of FreeSlots: busy is not looked at. *)
FreeSlots_any == Slots

FreeSlots == {i \in Slots : ~slots[i].busy}

(* The scan of get_next_buffer does not stop at a hit: the last one wins. *)
NextSlot == IF 1 \in FreeSlots THEN 1 ELSE 0

(* create_buffer: an area of no bytes gets a slot but no wl_buffer. *)
Created(new, w, h) ==
  [buffer |-> IF Bytes(w, h) = 0 THEN NULL ELSE new,
   width |-> w, height |-> h, busy |-> FALSE]

(* The compositor makes no wl_buffer with a negative side: the protocol    *)
(* error it answers with ends the program.                                 *)
Possible(w, h) == Bytes(w, h) = 0 \/ (w > 0 /\ h > 0)

(***************************************************************************)
(* The outcomes of get_next_buffer on slot s: the slot afterwards, and     *)
(* whether it was returned.  A slot whose byte size is the one asked for   *)
(* is returned as it is, whatever its width and height.  Otherwise its     *)
(* wl_buffer is replaced, by a resize or by finish_buffer and              *)
(* create_buffer; a system call that fails leaves the slot empty.          *)
(***************************************************************************)
get_next_buffer(s, new, w, h) ==
  IF s.buffer # NULL /\ Bytes(s.width, s.height) = Bytes(w, h)
    THEN {[slot |-> s, ok |-> TRUE]}
    ELSE {[slot |-> Created(new, w, h), ok |-> TRUE] :
            made \in {TRUE} \cap {Possible(w, h)}} \cup
         {[slot |-> IF s.buffer = NULL /\ Bytes(w, h) > 0 THEN s ELSE EmptySlot,
           ok |-> FALSE] :
            fails \in {TRUE} \cap {Bytes(w, h) # 0}}

-------------------------------------------------------------------------------
PoolInit == slots = [i \in Slots |-> EmptySlot]

(* A frame of w x h pixels is drawn and committed, or no slot is returned. *)
PoolRender(w, h) ==
  /\ FreeSlots # {}
  /\ \E new \in Buffers \ {slots[i].buffer : i \in Slots} :
     \E o \in get_next_buffer(slots[NextSlot], new, w, h) :
        slots' = [slots EXCEPT
                    ![NextSlot] = [o.slot EXCEPT !.busy = o.ok]]

(* The compositor gives a wl_buffer back. *)
PoolRelease(i) ==
  /\ slots[i].busy
  /\ slots[i].buffer # NULL
  /\ slots' = [slots EXCEPT ![i].busy = FALSE]

PoolNext == \/ \E z \in Sizes : PoolRender(z[1], z[2])
            \/ \E i \in Slots : PoolRelease(i)

PoolSpec == PoolInit /\ [][PoolNext]_slots
==============================================================================
