------------------------------ MODULE CopySource ------------------------------
(***************************************************************************)
(* copy-fu, the copying side: the data source it offers as the selection,  *)
(* and the two modes that try to steal the selection from other clients.   *)
(*                                                                         *)
(* events holds what the compositor has sent and no handler has seen.  The *)
(* loop dispatches all it has read and then goes on, so what is still      *)
(* there when Loop runs is what came too late for it.                      *)
(* Whether a selection is accepted depends on its serial, which is left to *)
(* the compositor: every serial may be a good one.                         *)
(***************************************************************************)
EXTENDS CopyFu, FiniteSets

CONSTANTS Sources,       (* identities of wl_data_source objects         *)
          Tries,         (* selections tried in a row: 150 in steal_serial *)
          MaxRequests    (* bound on requests in the socket              *)

ASSUME CopySourceAssumption ==
  NULL \notin Sources /\ Tries \in Nat /\ MaxRequests \in Nat

VARIABLES data_source,   (* the global pointer                           *)
          live,          (* sources created and not destroyed            *)
          steal_state,
          requests,      (* client to compositor                         *)
          selected       (* the source the compositor has accepted, if it is ours *)

clientVars == <<mode, data_source, live, steal_state>>
vars == <<clientVars, requests, events, selected>>

(* Requests are create, destroy and select (source) and sync; events are      *)
(* cancelled (source), button (pressed) and done.                             *)

Mentioned(msgs) == {msgs[k].source : k \in {j \in DOMAIN msgs :
                      msgs[j].type \in {"create", "destroy", "select", "cancelled"}}}

NewSources == Sources \ (live \cup Mentioned(requests) \cup Mentioned(events)
                              \cup {selected})

-------------------------------------------------------------------------------
(* Requests. *)
create(s)        == [type |-> "create", source |-> s]
destroy(s)       == [type |-> "destroy", source |-> s]
set_selection(s) == [type |-> "select", source |-> s]
sync             == [type |-> "sync"]

(* An old source is destroyed before a new one takes its place.             *)
Replaced == IF data_source = NULL THEN [live |-> live, sent |-> <<>>]
            ELSE [live |-> live \ {data_source}, sent |-> <<destroy(data_source)>>]

(* A new source replaces the old one, and msgs follow its creation. *)
NewSource(s, msgs) ==
  /\ s \in NewSources
  /\ live' = Replaced.live \cup {s}
  /\ data_source' = s
  /\ requests' = requests \o Replaced.sent \o <<create(s)>> \o msgs

(* A press copies; every button event also draws a frame, see Surface. *)
pointer_handle_button ==
  /\ Handle("button")
  /\ UNCHANGED <<steal_state, selected>>
  /\ IF Head(events).pressed
       THEN \E s \in Sources : NewSource(s, <<set_selection(s)>>)
       ELSE UNCHANGED <<data_source, live, requests>>

(* libwayland drops an event for an object the client has destroyed; the    *)
(* mutant does not.                                                         *)
Delivered_always(s) == TRUE

Delivered(s) == s \in live

(* What the cancelled handler leaves in data_source. *)
Forgotten == NULL

(* The handler looks at data_source and not at the object it is called for. *)
data_source_cancelled ==
  /\ Handle("cancelled")
  /\ UNCHANGED <<steal_state, selected>>
  /\ IF Delivered(Head(events).source)
       THEN /\ live' = live \ {data_source}
            /\ requests' = requests \o Replaced.sent
            /\ data_source' = Forgotten
       ELSE UNCHANGED <<data_source, live, requests>>

steal_done ==
  /\ Handle("done")
  /\ requests' = Append(requests, set_selection(data_source))
  /\ steal_state' = "DONE"
  /\ UNCHANGED <<data_source, live, selected>>

(* Time for another attempt; the mutant does not wait for the last one. *)
StealNow_early == mode \in {"STEAL_SERIAL", "STEAL_SYNC"}

StealNow == \/ mode = "STEAL_SERIAL"
            \/ mode = "STEAL_SYNC" /\ steal_state = "READY"

(* The state after the block at the end of the loop; the mutant never comes *)
(* back from "DONE".                                                        *)
Rearmed_never == steal_state

Rearmed == IF steal_state = "DONE" THEN "READY" ELSE steal_state

(* One turn of the main loop, from poll on: the descriptors served in it    *)
(* are the business of CopyTransfers.                                       *)
Loop ==
  /\ IF StealNow
       THEN \E s \in Sources :
              /\ NewSource(s, IF mode = "STEAL_SERIAL"
                                THEN [k \in 1 .. Tries |-> set_selection(s)]
                                ELSE <<sync>>)
              /\ mode = "STEAL_SERIAL" => Len(requests') <= MaxRequests
              /\ steal_state' = IF mode = "STEAL_SYNC" THEN "WAITING" ELSE Rearmed
       ELSE steal_state' = Rearmed /\ UNCHANGED <<data_source, live, requests>>
  /\ UNCHANGED <<mode, events, selected>>

-------------------------------------------------------------------------------
(* The compositor.  A source stops being the selection when another one is  *)
(* accepted, and is told so; setting the same source again may count.       *)
CompositorReceive(type) == /\ requests # <<>>
                           /\ Head(requests).type = type
                           /\ requests' = Tail(requests)
                           /\ UNCHANGED clientVars

ReceiveCreate == CompositorReceive("create") /\ UNCHANGED <<events, selected>>

ReceiveDestroy ==
  /\ CompositorReceive("destroy")
  /\ selected' = IF selected = Head(requests).source THEN NULL ELSE selected
  /\ UNCHANGED events

Cancel(s) == IF s = NULL THEN events
             ELSE Append(events, [type |-> "cancelled", source |-> s])

ReceiveSelect ==
  /\ CompositorReceive("select")
  /\ Len(events) < MaxEvents
  /\ \/ UNCHANGED <<events, selected>>
     \/ /\ selected' = Head(requests).source
        /\ events' = Cancel(selected)
     \/ /\ selected = Head(requests).source
        /\ UNCHANGED <<events, selected>>

ReceiveSync == /\ CompositorReceive("sync")
               /\ Len(events) < MaxEvents
               /\ events' = Append(events, [type |-> "done"])
               /\ UNCHANGED selected

(* Another client copies. *)
SelectionLost == /\ selected # NULL
                 /\ Len(events) < MaxEvents
                 /\ events' = Cancel(selected)
                 /\ selected' = NULL
                 /\ UNCHANGED <<clientVars, requests>>

(* Two events are left room for answers, and the socket one for a copy. *)
Button(pressed) ==
  /\ Len(events) + 2 < MaxEvents
  /\ Len(requests) + 3 <= MaxRequests
  /\ events' = Append(events, [type |-> "button", pressed |-> pressed])
  /\ UNCHANGED <<clientVars, requests, selected>>

-------------------------------------------------------------------------------
Init == /\ mode \in Modes
        /\ data_source = NULL
        /\ live = {}
        /\ steal_state = "READY"
        /\ requests = <<>>
        /\ events = <<>>
        /\ selected = NULL

Dispatch == pointer_handle_button \/ data_source_cancelled \/ steal_done

CompositorReads ==
  ReceiveCreate \/ ReceiveDestroy \/ ReceiveSelect \/ ReceiveSync

Next == \/ Dispatch
        \/ Loop
        \/ CompositorReads
        \/ SelectionLost
        \/ \E pressed \in BOOLEAN : Button(pressed)

Spec == Init /\ [][Next]_vars

(* The loop has a timeout in the modes that steal, it dispatches what it     *)
(* reads, and the compositor reads its socket.                               *)
Fairness == WF_vars(Dispatch) /\ WF_vars(Loop) /\ WF_vars(CompositorReads)

FairSpec == Spec /\ Fairness

-------------------------------------------------------------------------------
(* The cancelled handler destroys data_source whatever it is called for: the
   source it gets to see is always that one, although sources are replaced
   while events for the old ones are on their way, and it is the only one that
   has not been destroyed. *)
CancelledIsCurrent ==
  /\ live = {data_source} \ {NULL}
  /\ events # <<>> =>
       (Head(events).type = "cancelled" =>
          (Delivered(Head(events).source) => Head(events).source = data_source))

InFlight(msgs, type) == {k \in DOMAIN msgs : msgs[k].type = type}

(* The client waits exactly while one sync is on its way: a second one would
   try the serial of one attempt with the source of another.  And when the answer
   arrives there is a source to try its serial with, one that has not been
   cancelled: clicks and other clients may replace and cancel sources in the
   meantime, but not in an order that leaves none. *)
OneAttempt ==
  /\ Cardinality(InFlight(requests, "sync")) + Cardinality(InFlight(events, "done"))
       = (IF steal_state = "WAITING" THEN 1 ELSE 0)
  /\ events # <<>> => (Head(events).type = "done" => data_source # NULL)

(* copy-fu.c: "Periodically try the wl_display::sync serial". *)
TriesForever ==
  mode = "STEAL_SYNC" =>
    ([]<>(steal_state = "WAITING") /\ []<>(steal_state = "DONE"))
================================================================================
