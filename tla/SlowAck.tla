------------------------------- MODULE SlowAck -------------------------------
(***************************************************************************)
(* slow-ack-configure: after the first one, a configure event is           *)
(* acknowledged only FRAME_DELAY frame callbacks after it was taken up;    *)
(* those that arrive meanwhile are merged into the next one.               *)
(***************************************************************************)
EXTENDS Surface

CONSTANTS FRAME_DELAY,   (* 32 in the program                      *)
          Word           (* 2^32: countdown is a uint32_t and wraps *)

ASSUME SlowAckAssumption == /\ FRAME_DELAY \in Nat \ {0}
                            /\ Word \in Nat
                            /\ FRAME_DELAY < Word

VARIABLES acked_first_configure,
          current_configure,       (* the one being waited for  *)
          next_configure,          (* the newest one            *)
          countdown

slowVars == <<acked_first_configure, current_configure, next_configure,
              countdown>>

vars == <<surfaceVars, slowVars>>

Configure == [serial : Nat, width : Nat, height : Nat]

(* Static storage: everything is zero. *)
NoConfigure == [serial |-> 0, width |-> 0, height |-> 0]

(* uint32_t subtraction. *)
Decremented(n) == (n + Word - 1) % Word

xdg_toplevel_handle_configure ==
  /\ Receive("toplevel_configure", 0)
  /\ LET e == Head(events)
     IN  next_configure' = IF e.width = 0 \/ e.height = 0 THEN next_configure
                           ELSE [next_configure EXCEPT !.width = e.width,
                                                       !.height = e.height]
  /\ UNCHANGED <<clientVars, requests, compositorVars, acked_first_configure,
                 current_configure, countdown>>

(* The first configure is answered at once, with the default size. *)
FirstConfigure ==
  /\ Receive("configure", 2)
  /\ ~acked_first_configure
  /\ \E r \in surface_render(surface) :
       /\ slots' = r.slots
       /\ surface' = r.surface
       /\ Send(Answer(Head(events).serial, r.sent))
  /\ acked_first_configure' = TRUE
  /\ UNCHANGED <<compositorVars, current_configure, next_configure, countdown>>

(* Nothing is being waited for; the mutant does not look. *)
Idle_always == TRUE

Idle == countdown = 0

LaterConfigure ==
  /\ Receive("configure", 1)
  /\ acked_first_configure
  /\ LET newest == [next_configure EXCEPT !.serial = Head(events).serial]
     IN  /\ next_configure' = newest
         /\ IF Idle
              THEN /\ current_configure' = newest
                   /\ countdown' = FRAME_DELAY
                   /\ Send(<<request_frame_callback>>)
              ELSE UNCHANGED <<current_configure, countdown, requests>>
  /\ UNCHANGED <<clientVars, compositorVars, acked_first_configure>>

xdg_surface_handle_configure == FirstConfigure \/ LaterConfigure

KeepWaiting ==
  /\ Receive("done", 1)
  /\ Decremented(countdown) > 0
  /\ countdown' = Decremented(countdown)
  /\ Send(<<request_frame_callback>>)
  /\ UNCHANGED <<clientVars, compositorVars, acked_first_configure,
                 current_configure, next_configure>>

(* What is drawn, acknowledged and taken up when the wait is over.  The      *)
(* mutants draw the newest size, acknowledge the newest serial, forget the    *)
(* newest configure.                                                          *)
LateSurface_newest == [surface EXCEPT !.width = next_configure.width,
                                      !.height = next_configure.height]

LateSurface == [surface EXCEPT !.width = current_configure.width,
                               !.height = current_configure.height]

LateSerial_newest == next_configure.serial

LateSerial == current_configure.serial

Superseded_never == FALSE

Superseded == next_configure.serial # current_configure.serial

WaitOver ==
  /\ Receive("done", 3)
  /\ Decremented(countdown) = 0
  /\ \E r \in surface_render(LateSurface) :
       LET answer == Answer(LateSerial, r.sent)
       IN  /\ slots' = r.slots
           /\ surface' = r.surface
           /\ IF Superseded
                THEN /\ countdown' = FRAME_DELAY
                     /\ current_configure' = next_configure
                     /\ Send(Append(answer, request_frame_callback))
                ELSE /\ countdown' = 0
                     /\ Send(answer)
                     /\ UNCHANGED current_configure
  /\ UNCHANGED <<compositorVars, acked_first_configure, next_configure>>

callback_handle_done == KeepWaiting \/ WaitOver

Init == /\ SurfaceInit(<<>>)
        /\ acked_first_configure = FALSE
        /\ current_configure = NoConfigure
        /\ next_configure = NoConfigure
        /\ countdown = 0

Dispatch == \/ xdg_toplevel_handle_configure
            \/ xdg_surface_handle_configure
            \/ callback_handle_done
            \/ buffer_handle_release /\ UNCHANGED slowVars

Compositor == /\ \/ CompositorReads
                 \/ \E b \in held : Release(b)
                 \/ \E z \in Sizes : SendConfigure(z[1], z[2])
                 \/ SendDone
              /\ UNCHANGED slowVars

Next == Dispatch \/ Compositor

Spec == Init /\ [][Next]_vars

(* A compositor draws, and so sends frame callbacks, only for a surface    *)
(* that has a buffer.                                                      *)
Fairness == /\ WF_vars(Dispatch)
            /\ WF_vars(CompositorReads /\ UNCHANGED slowVars)
            /\ WF_vars(SendDone /\ shown.buffer # NULL /\ UNCHANGED slowVars)

FairSpec == Spec /\ Fairness

-------------------------------------------------------------------------------
Callbacks ==
  Cardinality({k \in DOMAIN requests : /\ requests[k].type = "empty"
                                       /\ requests[k].frame})
    + frames + Cardinality({k \in DOMAIN events : events[k].type = "done"})

(* One frame callback is outstanding while the client is waiting and none
   otherwise: a second chain of callbacks would halve the delay, and a stray
   one would take countdown below zero, to 2^32 - 1 frames. *)
OneCallbackWhileWaiting == Callbacks = (IF countdown > 0 THEN 1 ELSE 0)

(* Serials are acknowledged in the order they were sent and none of them
   twice, although current_configure and next_configure are copied to and fro
   by two handlers. *)
AcksInOrder ==
  \A k \in DOMAIN requests : requests[k].type = "ack" =>
    /\ requests[k].serial \in (acked + 1) .. serial
    /\ \A j \in 1 .. k - 1 : requests[j].type = "ack" =>
          requests[j].serial < requests[k].serial

(* A late frame has the size of the configure it acknowledges, even when newer
   sizes have been stored since: the size and the serial stay together.  The
   first configure is the exception, its size is not used. *)
LateFrameMatches ==
  (shown.buffer # NULL /\ shown.serial > 1) =>
     Bytes(shown.width, shown.height) =
       Bytes(wanted[shown.serial][1], wanted[shown.serial][2])

(* As long as the surface stays on screen, the last configure is acknowledged
   in the end: the chain of frame callbacks does not break off. *)
LastConfigureAcked ==
  <>[](ready /\ shown.buffer # NULL) => <>[](acked = serial)

(* A configure event is responded to, slowly, with a frame: no answer takes
   the window off the screen. *)
AnswersHaveContent ==
  \A k \in DOMAIN requests :
     requests[k].type = "commit" => requests[k].buffer # NULL
==============================================================================
