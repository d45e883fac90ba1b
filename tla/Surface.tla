------------------------------- MODULE Surface -------------------------------
(***************************************************************************)
(* One struct wleird_surface, the socket, and the compositor at the other  *)
(* end.  The programs are modules that extend this one with their event    *)
(* handlers; what the compositor does is the same for all of them.         *)
(*                                                                         *)
(* Both directions of the socket are FIFO.  Handlers run one at a time,    *)
(* from wl_display_dispatch, so a handler is one step; between two of them *)
(* the compositor may take any number of steps.                            *)
(***************************************************************************)
EXTENDS BufferPool, Sequences, FiniteSets

CONSTANTS MaxRequests,   (* bound on requests in the socket       *)
          MaxEvents,     (* bound on events in the socket         *)
          MaxSerial      (* bound on configure events ever sent   *)

(* Two slots, and one wl_buffer on screen that its slot has given up: a fourth *)
(* is always new.  A configure asks for no negative size.                      *)
ASSUME SurfaceAssumption == /\ Sizes \subseteq Nat \X Nat
                            /\ MaxRequests \in Nat
                            /\ MaxEvents \in Nat
                            /\ MaxSerial \in Nat
                            /\ \A a, b, c \in Buffers \cup {NULL} :
                                 Buffers \ {a, b, c} # {}

VARIABLES surface,    (* width, height and attach offset of the wleird_surface *)
          requests,   (* client to compositor                                  *)
          events,     (* compositor to client                                  *)
          ready,      (* the compositor has seen the initial commit            *)
          serial,     (* of the last xdg_surface.configure sent                *)
          wanted,     (* the size each configure asked for, in effect          *)
          acked,      (* of the last ack_configure received                    *)
          held,       (* wl_buffers the compositor may read                    *)
          shown,      (* the content on screen and the serial it answers       *)
          frames      (* frame callbacks the compositor owes                   *)

clientVars == <<slots, surface>>
compositorVars == <<ready, serial, wanted, acked, held, shown, frames>>
surfaceVars == <<clientVars, requests, events, compositorVars>>

(* Requests are ack (serial), commit (buffer, width, height, offset, frame)   *)
(* and empty (frame), a commit without an attach; events are                  *)
(* toplevel_configure (width, height), configure (serial), release (buffer)   *)
(* and done.                                                                  *)

(* What a wl_surface.commit with an attached wl_buffer displays, and the      *)
(* serial it answers.                                                         *)
Nothing == [buffer |-> NULL, width |-> 0, height |-> 0, serial |-> 0]

-------------------------------------------------------------------------------
(* A wl_buffer that neither side knows yet. *)
NewBuffers ==
  Buffers \ ({slots[i].buffer : i \in Slots} \cup held \cup {shown.buffer})

NewBuffer == CHOOSE b \in NewBuffers : TRUE

(* attach, damage_buffer and commit: the size is that of the wl_buffer, not *)
(* that of the wleird_surface; no frame callback is asked for.              *)
CommitOf(slot, sf) ==
  [type |-> "commit", buffer |-> slot.buffer, width |-> slot.width,
   height |-> slot.height, offset |-> sf.attach, frame |-> FALSE]

(* A slot that is committed becomes busy; the mutant leaves it free. *)
Marked_free(slot) == slot

Marked(slot) == [slot EXCEPT !.busy = TRUE]

(***************************************************************************)
(* What surface_render can do with the surface as sf: the slots and the    *)
(* surface afterwards and the requests sent.  Without a buffer nothing is  *)
(* sent and the attach offset stays.                                       *)
(***************************************************************************)
Skipped(sl, sf) == [slots |-> sl, surface |-> sf, sent |-> <<>>]

surface_render(sf) ==
  IF FreeSlots = {} THEN {Skipped(slots, sf)}
  ELSE {IF o.ok
          THEN [slots |-> [slots EXCEPT ![NextSlot] = Marked(o.slot)],
                surface |-> [sf EXCEPT !.attach = 0],
                sent |-> <<CommitOf(o.slot, sf)>>]
          ELSE Skipped([slots EXCEPT ![NextSlot] = o.slot], sf) :
        o \in get_next_buffer(slots[NextSlot], NewBuffer, sf.width, sf.height)}

ack_configure(s) == [type |-> "ack", serial |-> s]

(* The answer to a configure: acknowledge, then what was drawn.  The mutants *)
(* acknowledge after the frame, and never.                                   *)
Answer_frame_first(s, sent) == Append(sent, ack_configure(s))

Answer_without_ack(s, sent) == sent

Answer(s, sent) == <<ack_configure(s)>> \o sent

(* wl_surface.frame and a commit that changes nothing else. *)
request_frame_callback == [type |-> "empty", frame |-> TRUE]

Send(msgs) == requests' = requests \o msgs

(* The handler of the event at the head of the queue runs; n is the number *)
(* of requests it may send.                                                *)
Receive(type, n) == /\ events # <<>>
                    /\ Head(events).type = type
                    /\ events' = Tail(events)
                    /\ Len(requests) + n <= MaxRequests

(* buffer_handle_release: the listener's data is the slot itself.  The       *)
(* mutant frees no slot.                                                     *)
Freed_none(slot, b) == slot

Freed(slot, b) == IF slot.buffer = b THEN [slot EXCEPT !.busy = FALSE] ELSE slot

buffer_handle_release ==
  /\ Receive("release", 0)
  /\ slots' = [i \in Slots |-> Freed(slots[i], Head(events).buffer)]
  /\ UNCHANGED <<surface, requests, compositorVars>>

-------------------------------------------------------------------------------
(* The compositor. *)

CompositorReceive(type) == /\ requests # <<>>
                           /\ Head(requests).type = type
                           /\ requests' = Tail(requests)
                           /\ UNCHANGED <<clientVars, events, serial, wanted>>

ReceiveAck == /\ CompositorReceive("ack")
              /\ acked' = Head(requests).serial
              /\ UNCHANGED <<ready, held, shown, frames>>

ReceiveEmpty == /\ CompositorReceive("empty")
                /\ ready' = TRUE
                /\ frames' = frames + (IF Head(requests).frame THEN 1 ELSE 0)
                /\ UNCHANGED <<acked, held, shown>>

(* A commit without a wl_buffer unmaps the surface; on an unmapped one it is *)
(* an initial commit.                                                        *)
ReceiveCommit ==
  /\ CompositorReceive("commit")
  /\ ready' = IF Head(requests).buffer # NULL THEN ready ELSE shown.buffer = NULL
  /\ held' = held \cup ({Head(requests).buffer} \ {NULL})
  /\ shown' = [buffer |-> Head(requests).buffer, width |-> Head(requests).width,
               height |-> Head(requests).height, serial |-> acked]
  /\ frames' = frames + (IF Head(requests).frame THEN 1 ELSE 0)
  /\ UNCHANGED acked

(* A compositor that copies a buffer's content may release even the one it *)
(* shows.                                                                  *)
Release(b) == /\ b \in held
              /\ Len(events) < MaxEvents
              /\ held' = held \ {b}
              /\ events' = Append(events, [type |-> "release", buffer |-> b])
              /\ UNCHANGED <<clientVars, requests, ready, serial, wanted, acked,
                             shown, frames>>

(* xdg_toplevel.configure and the xdg_surface.configure that ends it; a    *)
(* zero size leaves the choice, and so the size in effect, to the client.  *)
SendConfigure(w, h) ==
  /\ ready
  /\ serial < MaxSerial
  /\ Len(events) + 2 <= MaxEvents
  /\ serial' = serial + 1
  /\ wanted' = [wanted EXCEPT
       ![serial + 1] = IF w = 0 \/ h = 0 THEN wanted[serial] ELSE <<w, h>>]
  /\ events' = events \o
       <<[type |-> "toplevel_configure", width |-> w, height |-> h],
         [type |-> "configure", serial |-> serial + 1]>>
  /\ UNCHANGED <<clientVars, requests, ready, acked, held, shown, frames>>

SendDone == /\ frames > 0
            /\ Len(events) < MaxEvents
            /\ frames' = frames - 1
            /\ events' = Append(events, [type |-> "done"])
            /\ UNCHANGED <<clientVars, requests, ready, serial, wanted, acked,
                           held, shown>>

(* Once its successor is shown, a buffer is of no use to the compositor. *)
ReleaseReplaced == \E b \in held \ {shown.buffer} : Release(b)

CompositorReads == ReceiveAck \/ ReceiveEmpty \/ ReceiveCommit

-------------------------------------------------------------------------------
(* toplevel_init: surface_init's size, and the initial commit on its way,  *)
(* followed by what else main sends.                                       *)
SurfaceInit(more) ==
  /\ PoolInit
  /\ surface = [width |-> 300, height |-> 400, attach |-> 0]
  /\ requests = <<[type |-> "empty", frame |-> FALSE]>> \o more
  /\ events = <<>>
  /\ ready = FALSE
  /\ serial = 0
  /\ wanted = [s \in 0 .. MaxSerial |-> <<300, 400>>]
  /\ acked = 0
  /\ held = {}
  /\ shown = Nothing
  /\ frames = 0

-------------------------------------------------------------------------------
Submitted(b) == {k \in DOMAIN requests : /\ requests[k].type = "commit"
                                         /\ requests[k].buffer = b}

Returning(b) == {k \in DOMAIN events : /\ events[k].type = "release"
                                       /\ events[k].buffer = b}

(* How often b is out of the client's hands: on its way to the compositor, *)
(* at the compositor, or on its way back.                                  *)
TimesOut(b) == Cardinality(Submitted(b)) + Cardinality(held \cap {b})
                 + Cardinality(Returning(b))

Busy(b) == \E i \in Slots : slots[i].buffer = b /\ slots[i].busy

(* busy tells the truth: a wl_buffer is out of the client's hands exactly when
   its slot is busy, and then in one place only.  So nothing is painted into a
   buffer the compositor reads, no wl_buffer is destroyed while it is attached,
   and a slot waiting for a release has one coming. *)
BusyIsOut == \A b \in Buffers : TimesOut(b) = (IF Busy(b) THEN 1 ELSE 0)

(* The owner of each slot's buffer, read off the socket and the compositor. *)
Out(b) == \/ b \in held
          \/ \E k \in DOMAIN requests : requests[k].type = "commit"
                                          /\ requests[k].buffer = b
          \/ \E k \in DOMAIN events : events[k].type = "release"
                                        /\ events[k].buffer = b
==============================================================================
