---------------------------- MODULE SurfaceOutputs ----------------------------
(***************************************************************************)
(* surface-outputs: each surface has a tracker, a fixed number of slots in *)
(* which enter and leave events put and clear outputs.  Outputs may be     *)
(* plugged in at any time.  When one is unplugged, handle_global_remove    *)
(* does nothing: what has been bound stays known, and no output goes away. *)
(***************************************************************************)
EXTENDS Integers, Sequences, FiniteSets, Functions

CONSTANTS Surfaces,              (* the toplevel and the sub-surfaces      *)
          Outputs,               (* identities of wl_output objects        *)
          NULL,                  (* the C null pointer                     *)
          OUTPUT_TRACKER_CAP,    (* 64 in the program                      *)
          MaxEvents              (* bound on events in the socket          *)

ASSUME SurfaceOutputsAssumption ==
  /\ NULL \notin Outputs
  /\ OUTPUT_TRACKER_CAP \in Nat \ {0}
  /\ MaxEvents \in Nat

VARIABLES outputs,     (* the list: wl_outputs bound                       *)
          named,       (* those whose name is known                        *)
          tracker,     (* the slots of each surface's tracker              *)
          dropped,     (* outputs a surface entered when its slots were full *)
          requests,    (* outputs whose bind is on its way                 *)
          events,      (* compositor to client                             *)
          advertised,  (* outputs the compositor has announced             *)
          bound,       (* outputs the compositor has seen bound            *)
          entered      (* the outputs the compositor shows each surface on *)

clientVars == <<outputs, named, tracker, dropped>>
compositorVars == <<advertised, bound, entered>>
vars == <<clientVars, requests, events, compositorVars>>

Cap == 0 .. OUTPUT_TRACKER_CAP - 1

Events == [type : {"global", "geometry"}, output : Outputs]
            \cup [type : {"enter", "leave"}, surface : Surfaces, output : Outputs]

Receive(type) == /\ events # <<>>
                 /\ Head(events).type = type
                 /\ events' = Tail(events)
                 /\ UNCHANGED compositorVars

-------------------------------------------------------------------------------
(* handle_global binds an output at once and lists it. *)
handle_global == LET o == Head(events).output
                 IN  /\ Receive("global")
                     /\ outputs' = outputs \cup {o}
                     /\ requests' = Append(requests, o)
                     /\ UNCHANGED <<named, tracker, dropped>>

output_handle_geometry == /\ Receive("geometry")
                          /\ named' = named \cup {Head(events).output}
                          /\ UNCHANGED <<outputs, tracker, dropped, requests>>

(* find_output aborts the program at an output it does not know. *)
find_output(o) == o \in outputs

(* The slots in which t has o. *)
SlotsOf(t, o) == {i \in Cap : t[i] = o}

(* The last free slot, or -1.  The mutant never looks at the last one. *)
empty_index_short(t) ==
  LET free == SlotsOf(t, NULL) \ {OUTPUT_TRACKER_CAP - 1}
  IN  IF free = {} THEN -1 ELSE CHOOSE i \in free : \A j \in free : j <= i

empty_index(t) == IF SlotsOf(t, NULL) = {} THEN -1
                  ELSE CHOOSE i \in SlotsOf(t, NULL) : \A j \in SlotsOf(t, NULL) : j <= i

(* The tracker after an enter event: the loop looks at every slot for a      *)
(* duplicate before it takes a free one.                                    *)
Added(t, o) == IF SlotsOf(t, o) # {} \/ empty_index(t) < 0 THEN t
               ELSE [t EXCEPT ![empty_index(t)] = o]

surface_handle_enter ==
  LET s == Head(events).surface
      o == Head(events).output
  IN  /\ Receive("enter")
      /\ find_output(o)
      /\ tracker' = [tracker EXCEPT ![s] = Added(tracker[s], o)]
      /\ dropped' = [dropped EXCEPT
           ![s] = IF o \in Range(tracker'[s]) THEN @ \ {o} ELSE @ \cup {o}]
      /\ UNCHANGED <<outputs, named, requests>>

(* The tracker after a leave event: the first slot found is cleared.  The    *)
(* mutant clears the last one in use.                                       *)
Removed_last(t, o) ==
  LET used == {i \in Cap : t[i] # NULL}
  IN  IF SlotsOf(t, o) = {} THEN t
      ELSE [t EXCEPT ![CHOOSE i \in used : \A j \in used : j <= i] = NULL]

Removed(t, o) ==
  IF SlotsOf(t, o) = {} THEN t
  ELSE [t EXCEPT ![CHOOSE i \in SlotsOf(t, o) : \A j \in SlotsOf(t, o) : i <= j] = NULL]

surface_handle_leave ==
  LET s == Head(events).surface
      o == Head(events).output
  IN  /\ Receive("leave")
      /\ find_output(o)
      /\ tracker' = [tracker EXCEPT ![s] = Removed(tracker[s], o)]
      /\ dropped' = [dropped EXCEPT ![s] = @ \ {o}]
      /\ UNCHANGED <<outputs, named, requests>>

-------------------------------------------------------------------------------
(* The compositor. *)
Send(e) == /\ Len(events) < MaxEvents
           /\ events' = Append(events, e)
           /\ UNCHANGED clientVars

Advertise(o) == /\ o \notin advertised
                /\ advertised' = advertised \cup {o}
                /\ Send([type |-> "global", output |-> o])
                /\ UNCHANGED <<requests, bound, entered>>

(* The answer to a bind is the output's description. *)
ReceiveBind == /\ requests # <<>>
               /\ requests' = Tail(requests)
               /\ bound' = bound \cup {Head(requests)}
               /\ Send([type |-> "geometry", output |-> Head(requests)])
               /\ UNCHANGED <<advertised, entered>>

(* A compositor may repeat an enter or a leave event. *)
SurfaceEvent(type, s, o) ==
  /\ o \in bound
  /\ Send([type |-> type, surface |-> s, output |-> o])
  /\ UNCHANGED <<requests, advertised, bound>>

Enter(s, o) == /\ entered' = [entered EXCEPT ![s] = @ \cup {o}]
               /\ SurfaceEvent("enter", s, o)

Leave(s, o) == /\ entered' = [entered EXCEPT ![s] = @ \ {o}]
               /\ SurfaceEvent("leave", s, o)

Init == /\ outputs = {} /\ named = {} /\ bound = {} /\ advertised = {}
        /\ tracker = [s \in Surfaces |-> [i \in Cap |-> NULL]]
        /\ dropped = [s \in Surfaces |-> {}]
        /\ entered = [s \in Surfaces |-> {}]
        /\ requests = <<>> /\ events = <<>>

Next == \/ handle_global
        \/ output_handle_geometry
        \/ surface_handle_enter
        \/ surface_handle_leave
        \/ ReceiveBind
        \/ \E o \in Outputs : \/ Advertise(o)
                              \/ \E s \in Surfaces : Enter(s, o) \/ Leave(s, o)

Spec == Init /\ [][Next]_vars

-------------------------------------------------------------------------------
Tracked(s) == Range(tracker[s]) \ {NULL}

(* Every variable has its type, and the compositor's view of what is bound lies
   between what is named and what is listed. *)
TypeOK == /\ {outputs, named, advertised, bound} \subseteq SUBSET Outputs
          /\ named \subseteq bound /\ bound \subseteq outputs
          /\ tracker \in [Surfaces -> [Cap -> Outputs \cup {NULL}]]
          /\ {dropped, entered} \subseteq [Surfaces -> SUBSET Outputs]
          /\ requests \in Seq(Outputs)
          /\ events \in Seq(Events)

(* An output has one slot at most, or a leave event would leave it behind;
   duplicate enter events come with free slots before and after the output's. *)
OneSlotEach ==
  \A s \in Surfaces : \A i, j \in Cap :
    tracker[s][i] = tracker[s][j] => i = j \/ tracker[s][i] = NULL

Pending(s) == {k \in DOMAIN events : events[k].type \in {"enter", "leave"}
                                       /\ events[k].surface = s}

(* README.md: "prints on which outputs a surface is on".  When no event is on its
   way that is what the slots say, except for outputs that found them full, and
   their names are known by then, however outputs are plugged in while surfaces
   move. *)
TracksOutputs ==
  \A s \in Surfaces :
    /\ Tracked(s) \subseteq named
    /\ Pending(s) = {} => Tracked(s) = entered[s] \ dropped[s]

(* The slots implement a set of outputs per surface: an event changes the
   membership of its output, on its surface, and of nothing else, whichever slots
   are in use, and is dropped only when all of them are taken by other outputs. *)
Set == INSTANCE OutputSet WITH on     <- [s \in Surfaces |-> Tracked(s)],
                               missed <- dropped

ImplementsOutputSet == Set!Spec
================================================================================
