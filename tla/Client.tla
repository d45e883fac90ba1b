-------------------------------- MODULE Client --------------------------------
(***************************************************************************)
(* The handlers client.c installs for a toplevel, and what holds of every  *)
(* program that answers each configure event with a frame.                 *)
(***************************************************************************)
EXTENDS Surface

VARIABLE skipped    (* serials acknowledged without a frame for them *)

(* A zero size says that the client may choose: it keeps the one it has. *)
OwnChoice(e) == e.width = 0 \/ e.height = 0

Sized(sf, z) == [sf EXCEPT !.width = z.width, !.height = z.height]

(* What an xdg_surface.configure handler does, r being what was drawn. *)
AnswerWith(r) ==
  /\ slots' = r.slots
  /\ surface' = r.surface
  /\ Send(Answer(Head(events).serial, r.sent))
  /\ skipped' = skipped \cup {s \in {Head(events).serial} : r.sent = <<>>}
  /\ UNCHANGED compositorVars

default_xdg_surface_handle_configure ==
  /\ Receive("configure", 2)
  /\ \E r \in surface_render(surface) : AnswerWith(r)

-------------------------------------------------------------------------------
(* When every configure has been handled and every request read, the screen
   shows the answer to the last configure, unless surface_render had no buffer
   for exactly that one: an older frame never overtakes a newer one. *)
Settled == /\ serial > 0
           /\ requests = <<>>
           /\ \A k \in DOMAIN events : events[k].type = "release"

LastConfigureShown == Settled => shown.serial = serial \/ serial \in skipped

(* Two busy slots are not for ever, as long as the compositor gives back what
   it has replaced: no lost release leaves surface_render without a slot. *)
SlotFreed == (FreeSlots = {}) ~> (FreeSlots # {})

(* The wl_buffers follow the ownership rule, the owner being read off the
   socket and the compositor and not off busy. *)
Ownership == INSTANCE BufferOwnership WITH
  buffer <- [i \in Slots |-> slots[i].buffer],
  owner  <- [i \in Slots |-> IF slots[i].buffer # NULL /\ Out(slots[i].buffer)
                               THEN "compositor" ELSE "client"]

ImplementsOwnership == Ownership!Spec
==============================================================================
