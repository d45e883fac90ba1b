------------------------------- MODULE Programs -------------------------------
(***************************************************************************)
(* The programs that are one toplevel with a handler or two of their own:  *)
(* frame-callback, attach-delta-loop, resize-loop, disobey-resize,         *)
(* damage-paint and unmap, and "default", client.c with no handler added.  *)
(* Init chooses one of them; the socket and the compositor are Surface's.  *)
(***************************************************************************)
EXTENDS Client, LoopSizes

CONSTANTS FactorNum, FactorDen,  (* disobey-resize's factor, as a fraction   *)
          LoopSerial             (* bound on configure events sent to a loop *)

ASSUME ProgramsAssumption == /\ FactorNum \in Nat \ {0}
                             /\ FactorDen \in Nat \ {0}
                             /\ LoopSerial \in Nat

VARIABLES program,
          size,       (* resize-loop: growing while positive                *)
          live,       (* the program waits for a frame callback             *)
          dead,       (* callbacks destroyed before they fired              *)
          timers      (* unmap: timers armed that have not expired          *)

programVars == <<size, live, dead, timers>>

vars == <<surfaceVars, skipped, program, programVars>>

(* main of these requests a frame callback, their handler the next one. *)
Chained == {"frame-callback", "attach-delta-loop", "resize-loop"}

(* These draw a frame for each callback, without end. *)
Loops == {"attach-delta-loop", "resize-loop"}

AllPrograms == Chained \cup {"default", "disobey-resize", "damage-paint", "unmap"}

-------------------------------------------------------------------------------
(* The size a program takes over from a configure event that names one. *)
Square(n) == [width |-> n, height |-> n]

disobeyed(n) == LET scaled == (n * FactorNum) \div FactorDen
                IN  IF scaled > 1 THEN scaled ELSE 1

Taken(e) ==
  CASE program = "attach-delta-loop" -> Square(100)
    [] program = "resize-loop" -> Square(Absolute(size))
    [] program = "disobey-resize" -> [width |-> disobeyed(e.width),
                                      height |-> disobeyed(e.height)]
    [] OTHER -> [width |-> e.width, height |-> e.height]

xdg_toplevel_handle_configure ==
  /\ Receive("toplevel_configure", 0)
  /\ LET e == Head(events)
     IN  surface' = IF OwnChoice(e) THEN surface ELSE Sized(surface, Taken(e))
  /\ UNCHANGED <<slots, requests, compositorVars, skipped, programVars>>

handle_configure ==
  /\ program \notin {"damage-paint", "unmap"}
  /\ default_xdg_surface_handle_configure
  /\ UNCHANGED programVars

(* unmap: each configure event arms a timer; the mutant has one timer, which *)
(* the first of them arms.                                                   *)
Armed_once == IF Head(events).serial = 1 THEN 1 ELSE timers

Armed == timers + 1

unmap_handle_configure ==
  /\ program = "unmap"
  /\ default_xdg_surface_handle_configure
  /\ timers' = Armed
  /\ UNCHANGED <<size, live, dead>>

(* A second has passed since one of the configure events. *)
unmap ==
  /\ timers > 0
  /\ Len(requests) < MaxRequests
  /\ timers' = timers - 1
  /\ Send(<<CommitOf(EmptySlot, [surface EXCEPT !.attach = 0])>>)
  /\ UNCHANGED <<slots, surface, events, compositorVars, skipped, size, live,
                 dead>>

-------------------------------------------------------------------------------
(***************************************************************************)
(* damage-paint.  The frame callback goes with the commit it belongs to,   *)
(* and replaces the one before: a done event for a destroyed callback is   *)
(* dropped by libwayland.  Without a buffer no callback is requested.      *)
(***************************************************************************)
WithCallback(r) ==
  [r EXCEPT !.sent = [k \in DOMAIN r.sent |-> [r.sent[k] EXCEPT !.frame = TRUE]]]

damage_render == {WithCallback(r) : r \in surface_render(surface)}

Asks(r) == \E k \in DOMAIN r.sent : r.sent[k].frame

(* How many awaited callbacks are destroyed for the one r asks for; the mutant *)
(* forgets to.                                                                 *)
Destroyed_none(r) == 0

Destroyed(r) == IF Asks(r) /\ live THEN 1 ELSE 0

damage_xdg_surface_handle_configure ==
  /\ program = "damage-paint"
  /\ Receive("configure", 2)
  /\ \E r \in damage_render :
       /\ AnswerWith(r)
       /\ dead' = dead + Destroyed(r)
       /\ live' = (live \/ Asks(r))
  /\ UNCHANGED <<size, timers>>

(* Here the callback that is destroyed has fired. *)
call_render ==
  /\ program = "damage-paint"
  /\ Receive("done", 1)
  /\ dead = 0
  /\ \E r \in damage_render :
       /\ slots' = r.slots
       /\ surface' = r.surface
       /\ live' = Asks(r)
       /\ Send(r.sent)
  /\ UNCHANGED <<compositorVars, skipped, size, dead, timers>>

drop_done ==
  /\ Receive("done", 0)
  /\ dead > 0
  /\ dead' = dead - 1
  /\ UNCHANGED <<slots, surface, requests, compositorVars, skipped, size, live,
                 timers>>

-------------------------------------------------------------------------------
(* The callback_handle_done of the chained programs: a frame, or none, and *)
(* the next request in a commit of its own.  The mutant asks again only    *)
(* after a frame.                                                          *)
Next_if_drawn(sent) == IF sent = <<>> THEN <<>> ELSE <<request_frame_callback>>

NextCallback(sent) == <<request_frame_callback>>

frame_callback_done ==
  /\ program = "frame-callback"
  /\ Receive("done", 1)
  /\ Send(NextCallback(<<>>))
  /\ UNCHANGED <<slots, surface, compositorVars, skipped, programVars>>

(* Render the surface as it is in sf and ask for the next callback. *)
RenderOn(sf) ==
  \E r \in surface_render(sf) :
    /\ slots' = r.slots
    /\ surface' = r.surface
    /\ Send(r.sent \o NextCallback(r.sent))

(* The offset is a point of a circle; 1 stands for any that is not zero. *)
attach_delta_done ==
  /\ program = "attach-delta-loop"
  /\ Receive("done", 2)
  /\ RenderOn([surface EXCEPT !.attach = 1])
  /\ UNCHANGED <<compositorVars, skipped, programVars>>

resize_loop_done ==
  /\ program = "resize-loop"
  /\ Receive("done", 2)
  /\ RenderOn(Sized(surface, Square(Absolute(size))))
  /\ size' = Turned(size + SPEED)
  /\ UNCHANGED <<compositorVars, skipped, live, dead, timers>>

-------------------------------------------------------------------------------
(* main: what toplevel_init sends, and the first request of a callback. *)
Init ==
  /\ program \in AllPrograms
  /\ SurfaceInit(IF program \in Chained THEN <<request_frame_callback>> ELSE <<>>)
  /\ skipped = {}
  /\ size = MIN
  /\ live = (program \in Chained)
  /\ dead = 0
  /\ timers = 0

Dispatch == /\ \/ xdg_toplevel_handle_configure
               \/ handle_configure
               \/ unmap_handle_configure
               \/ damage_xdg_surface_handle_configure
               \/ call_render
               \/ drop_done
               \/ frame_callback_done
               \/ attach_delta_done
               \/ resize_loop_done
               \/ buffer_handle_release /\ UNCHANGED <<skipped, programVars>>
            /\ UNCHANGED program

Expiry == unmap /\ UNCHANGED program

ClientIdle == UNCHANGED <<skipped, program, programVars>>

Compositor == /\ \/ CompositorReads
                 \/ \E b \in held : Release(b)
                 \/ /\ program \in Loops => serial < LoopSerial
                    /\ \E z \in Sizes : SendConfigure(z[1], z[2])
                 \/ SendDone
              /\ ClientIdle

Next == Dispatch \/ Expiry \/ Compositor

Spec == Init /\ [][Next]_vars

(* The client keeps dispatching and its timers expire; the compositor keeps *)
(* reading its socket, gives up the buffers it has replaced and calls back  *)
(* while it shows the surface.  It owes no configure event.                 *)
Fairness == /\ WF_vars(Dispatch)
            /\ WF_vars(Expiry)
            /\ WF_vars(CompositorReads /\ ClientIdle)
            /\ WF_vars(ReleaseReplaced /\ ClientIdle)
            /\ WF_vars(SendDone /\ shown.buffer # NULL /\ ClientIdle)

FairSpec == Spec /\ Fairness

-------------------------------------------------------------------------------
(* The sizes a frame may have for the configure it answers.  disobey-resize has
   its own idea of it, but keeps the default size until another is named. *)
Due(z) == IF program = "disobey-resize"
            THEN {<<disobeyed(z[1]), disobeyed(z[2])>>} \cup ({<<300, 400>>} \cap {z})
            ELSE {z}

Obedient == AllPrograms \ Loops

(* A frame on screen answers a configure event the client has acknowledged,
   with as many bytes as the program makes of that configure's size in effect:
   ack_configure is sent before the commit it belongs to and the size is taken
   over before both.  The two loops draw sizes of their own, and draw for the
   callback main requested even if that comes before any configure event. *)
FrameAnswersAck ==
  (shown.buffer # NULL /\ program \in Obedient) =>
    /\ shown.serial > 0
    /\ \E due \in Due(wanted[shown.serial]) :
         Bytes(shown.width, shown.height) = Bytes(due[1], due[2])

(* Frame callbacks that will still fire, wherever they are. *)
Callbacks ==
  Cardinality({k \in DOMAIN requests : /\ requests[k].type \in {"commit", "empty"}
                                       /\ requests[k].frame})
    + frames + Cardinality({k \in DOMAIN events : events[k].type = "done"})

(* There is one chain of frame callbacks, or none: apart from the destroyed
   ones exactly one is on its way for a program that waits for it.  A second
   chain would double the speed of the animation with every configure event;
   a missing one would stop it. *)
OneChain == Callbacks = dead + (IF live THEN 1 ELSE 0)

(* README.md: frame-callback requests frame callbacks indefinitely, and so do
   the two loops: while the surface stays on screen there is always another
   callback, also after a frame that found no slot. *)
CallsForever ==
  program \in Chained =>
    (<>[](shown.buffer # NULL) =>
       []<>(\E k \in DOMAIN events : events[k].type = "done"))

(* damage-paint stops for one reason only: a callback for which it found no
   free slot, or could not make a buffer. *)
StopsUnpainted ==
  [][(live /\ ~live') => \/ FreeSlots = {}
                         \/ \E i \in Slots : slots'[i] = EmptySlot]_vars

(* unmap: every frame that is displayed is taken off the screen again, also
   one drawn for a configure event that came after an unmapping. *)
UnmapsAgain ==
  (program = "unmap" /\ shown.buffer # NULL) ~> shown.buffer = NULL

(* resize-loop draws widths between MIN and MAX once its first callback has
   come: turning round at either end never makes a frame of no pixels, which
   would get no wl_buffer, unmap the window and cost a slot for good.  Which
   sizes are met depends on what MIN, MAX and SPEED leave modulo SPEED. *)
SizeInRange ==
  program = "resize-loop" =>
    /\ Absolute(size) \in MIN .. MAX
    /\ surface.width # 300 => surface.width \in MIN .. MAX
==============================================================================
