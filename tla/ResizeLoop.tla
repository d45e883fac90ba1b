------------------------------ MODULE ResizeLoop ------------------------------
(***************************************************************************)
(* resize-loop: every frame callback draws a frame of another size and     *)
(* asks for the next callback.  What the loop does to the resources of     *)
(* pool-buffer.c is the subject, so the socket is left out: a callback is  *)
(* always outstanding, and a busy buffer may come back at any time.        *)
(***************************************************************************)
EXTENDS PoolBuffer, LoopSizes

VARIABLES size,      (* growing while positive, shrinking while negative *)
          extent     (* <<width, height>> of the wleird_surface           *)

loopVars == <<vars, size, extent>>

(* surface_render with the new extent; with both slots busy nothing is drawn. *)
Render == \/ surface_render(extent'[1], extent'[2])
          \/ FreeSlots = {} /\ UNCHANGED vars

callback_handle_done ==
  /\ extent' = <<Absolute(size), Absolute(size)>>
  /\ Render
  /\ size' = Turned(size + SPEED)

(* A configure event: one with a size (sized) is answered with the loop's   *)
(* own size, and default_xdg_surface_handle_configure draws either way.     *)
handle_configure(sized) ==
  /\ extent' = IF sized THEN <<Absolute(size), Absolute(size)>> ELSE extent
  /\ Render
  /\ UNCHANGED size

Released == /\ \E i \in Slots : buffer_handle_release(i)
            /\ UNCHANGED <<size, extent>>

LoopInit == Init /\ size = MIN /\ extent = <<300, 400>>

LoopNext == \/ callback_handle_done
            \/ \E sized \in BOOLEAN : handle_configure(sized)
            \/ Released

LoopSpec == LoopInit /\ [][LoopNext]_loopVars

FrameDrawn == \E i \in Slots : ~pool[i].busy /\ pool'[i].busy

(* A frame that can be drawn again and again is drawn in the end.  With    *)
(* Refusing = FALSE a call fails only when nothing is left to serve it, so *)
(* that what stops the loop is what it has used up itself.                 *)
LoopFairness == /\ WF_loopVars(Released)
                /\ WF_loopVars(callback_handle_done)
                /\ SF_loopVars(callback_handle_done /\ FrameDrawn)

LoopFairSpec == LoopSpec /\ LoopFairness

-------------------------------------------------------------------------------
(* README.md: resizes itself indefinitely.  It does not: resize_buffer does not
   store the mapping it makes, so nothing unmaps it, and once all mappings are
   used up no frame is drawn, although no call has failed before. *)
ResizesForever == []<><<FrameDrawn>>_loopVars
==============================================================================
