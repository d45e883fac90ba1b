------------------------------- MODULE Startup -------------------------------
(***************************************************************************)
(* How the programs start: registry_init, a second registry in some, and   *)
(* what each does before its main loop.  main is a script of calls, each   *)
(* of which is one step or, if it waits for events, one step for every     *)
(* batch of events it reads.  Which events a batch has is up to the        *)
(* socket; all of them are handled before the call can return.             *)
(***************************************************************************)
EXTENDS Subsurfaces, Naturals

CONSTANTS Adverts,    (* the sequences of globals a compositor may have *)
          MaxInput    (* bound on pings, closes and what the user does  *)

ASSUME StartupAssumption == /\ Adverts \subseteq Seq(STRING) \ {<<>>}
                            /\ MaxInput \in Nat

VARIABLES program,
          pc,          (* the next call of the script                       *)
          status,      (* running, or how the program ended                 *)
          client,      (* globals bound, the pointer, and the clicks' state *)
          listening,   (* the pointer has a listener                        *)
          split,       (* the first batch read did not have all globals     *)
          file,        (* sigbus's file: none, whole or short               *)
          requests, events,
          advert, prompt,  (* the compositor's globals; whether it sends a  *)
                           (* configure before it reads on                  *)
          owing,       (* a configure is due                                *)
          configured,  (* it has read an ack_configure                      *)
          unready,     (* and a frame of the toplevel before that           *)
          mapped,
          pool,        (* what the file was when it mapped sigbus's pool    *)
          stack, pending,  (* the order in effect and the one to come       *)
          seat,        (* its pointer: there always, not yet, late or lost  *)
          device,      (* what the client has of it: none, seat or pointer  *)
          focus,
          chosen, intent,  (* what the user has done                        *)
          inputs

clientVars == <<program, pc, status, client, listening, split, file>>
userVars == <<focus, chosen, intent, inputs>>
seatVars == <<seat, device>>
surfaceVars == <<owing, configured, unready, mapped, pool, stack, pending>>
serverVars == <<surfaceVars, seatVars>>
fixedVars == <<advert, prompt>>
vars == <<clientVars, requests, events, userVars, serverVars, fixedVars>>

Msg(t) == [type |-> t]

Capabilities(pointer) == [type |-> "capabilities", pointer |-> pointer]

AllPrograms == {"cursor", "copy-fu", "subsurfaces", "gamma-blend", "sigbus"}

(* The mutants: no roundtrip; the roundtrip first; no dispatch. *)
registry_init_dispatching == <<"get_registry", "dispatch", "check">>

registry_init_swapped == <<"get_registry", "sync", "await", "dispatch", "check">>

registry_init_at_once == <<"get_registry", "sync", "await", "check">>

registry_init == <<"get_registry", "dispatch", "sync", "await", "check">>

(* cursor and resizor; the others have a main of their own. *)
pointer_main == <<"listen", "toplevel_init">>

copy_fu_main == <<"check_devices", "listen", "toplevel_init">>

subsurfaces_main ==
  <<"get_subcompositor", "dispatch", "sync", "await", "check_subcompositor",
    "listen", "toplevel_init">>

(* The mutant does not wait before it draws. *)
gamma_blend_main_at_once ==
  <<"get_subcompositor", "sync", "await", "check_subcompositor",
    "toplevel_init", "draw">>

gamma_blend_main ==
  <<"get_subcompositor", "sync", "await", "check_subcompositor",
    "toplevel_init", "sync", "await", "draw">>

sigbus_main ==
  <<"create_pool", "sync", "await", "shrink", "toplevel_init", "sync", "await",
    "attach">>

Script ==
  registry_init \o
    CASE program = "cursor" -> pointer_main
      [] program = "copy-fu" -> copy_fu_main
      [] program = "subsurfaces" -> subsurfaces_main
      [] program = "gamma-blend" -> gamma_blend_main
      [] program = "sigbus" -> sigbus_main

At(call) == /\ status = "running"
            /\ IF pc \in DOMAIN Script THEN Script[pc] = call ELSE call = "loop"

-------------------------------------------------------------------------------
Advertised(s) == \E k \in DOMAIN advert : advert[k] = s

(* Handlers: what the client is after event e, and what it sends. *)
Wanted(registry) ==
  IF registry = 1 THEN {"shm", "compositor", "wm_base", "seat", "data_device_manager"}
                  ELSE {"subcompositor"}

handle_global(c, e) ==
  IF e.global \in Wanted(e.registry)
    THEN [c EXCEPT !.bound = c.bound \cup {e.global}] ELSE c

(* A pointer is asked for once, and kept when the seat loses it. *)
WantsPointer(c, e) == e.pointer /\ ~c.pointer

Handled(c, e) ==
  CASE e.type = "global" -> handle_global(c, e)
    [] e.type = "capabilities" /\ WantsPointer(c, e) -> [c EXCEPT !.pointer = TRUE]
    [] e.type = "enter" -> pointer_handle_enter(c, e)
    [] e.type = "leave" -> pointer_handle_leave(c)
    [] e.type = "button" -> pointer_handle_button(c, e)
    [] OTHER -> c

(* A configure of gamma-blend and sigbus is only acknowledged; the others    *)
(* draw the toplevel, for which a slot is free at that point.                *)
Sent(c, e) ==
  CASE e.type = "global" /\ e.global \in Wanted(e.registry) ->
         <<[type |-> "bind", global |-> e.global]>>
    [] e.type = "capabilities" /\ WantsPointer(c, e) -> <<Msg("get_pointer")>>
    [] e.type = "ping" -> <<Msg("pong")>>
    [] e.type = "configure" ->
         IF program \in {"gamma-blend", "sigbus"} THEN <<Msg("ack")>>
         ELSE <<Msg("ack"), Msg("frame")>>
    [] e.type = "button" /\ Places(c, e) -> Placed(c, e)
    [] OTHER -> <<>>

Step(s, e) == [client |-> Handled(s.client, e), sent |-> s.sent \o Sent(s.client, e)]

(* The client when it has handled the next n events, and what it has sent. *)
After(n) ==
  LET after[k \in 0 .. n] ==
        IF k = 0 THEN [client |-> client, sent |-> <<>>]
                 ELSE Step(after[k - 1], events[k])
  IN  after[n]

Has(n, t) == \E k \in 1 .. n : events[k].type = t

(* A batch is read and handled to its end.  A close ends the program at once, *)
(* and what it had still to send is lost; sigbus does not listen for it.      *)
Read(n) ==
  LET s == After(n)
      closes == program # "sigbus" /\ Has(n, "close")
  IN  /\ events' = SubSeq(events, n + 1, Len(events))
      /\ client' = s.client
      /\ requests' = IF closes THEN requests ELSE requests \o s.sent
      /\ status' = IF closes THEN "closed" ELSE status

Go == pc' = pc + 1

Elsewhere == UNCHANGED <<program, userVars, serverVars, fixedVars>>

Call(name, msgs) ==
  /\ At(name)
  /\ Go
  /\ requests' = requests \o msgs
  /\ Elsewhere
  /\ UNCHANGED <<events, client, split>>

get_registry ==
  \E n \in {1, 2} :
    /\ Call(<<"get_registry", "get_subcompositor">>[n],
            <<[type |-> "get_registry", registry |-> n]>>)
    /\ UNCHANGED <<status, listening, file>>

wl_display_dispatch ==
  \E n \in 1 .. Len(events) :
    /\ At("dispatch")
    /\ Go
    /\ Read(n)
    /\ split' = (split \/ (pc <= Len(registry_init) /\ n < Len(advert)))
    /\ Elsewhere
    /\ UNCHANGED <<listening, file>>

wl_display_sync ==
  Call("sync", <<Msg("sync")>>) /\ UNCHANGED <<status, listening, file>>

wl_display_roundtrip ==
  \E n \in 1 .. Len(events) :
    /\ At("await")
    /\ IF Has(n, "done") THEN Go ELSE UNCHANGED pc
    /\ Read(n)
    /\ Elsewhere
    /\ UNCHANGED <<listening, split, file>>

main_loop ==
  \E n \in 1 .. Len(events) :
    /\ At("loop")
    /\ Read(n)
    /\ Elsewhere
    /\ UNCHANGED <<pc, listening, split, file>>

(* The end of registry_init, and the tests after it. *)
Required == {"shm", "compositor", "wm_base"}

check ==
  \E name \in {"check", "check_subcompositor", "check_devices"} :
    /\ Call(name, <<>>)
    /\ status' = IF CASE name = "check" -> Required \subseteq client.bound
                      [] name = "check_subcompositor" ->
                           "subcompositor" \in client.bound
                      [] name = "check_devices" ->
                           client.pointer /\ "data_device_manager" \in client.bound
                 THEN status ELSE "failed"
    /\ UNCHANGED <<listening, file>>

listen == /\ Call("listen", <<>>)
          /\ listening' = client.pointer
          /\ UNCHANGED <<status, file>>

toplevel_init ==
  Call("toplevel_init", <<Msg("commit")>>) /\ UNCHANGED <<status, listening, file>>

(* create_pool_file may fail; create_buffer may too, and gamma-blend then    *)
(* draws with a context it has not got.                                      *)
create_pool ==
  \/ /\ Call("create_pool", <<Msg("create_pool")>>)
     /\ file' = "whole"
     /\ UNCHANGED <<status, listening>>
  \/ /\ Call("create_pool", <<>>)
     /\ status' = "failed"
     /\ UNCHANGED <<listening, file>>

shrink == /\ Call("shrink", <<>>)
          /\ \/ file' = "short" /\ UNCHANGED status
             \/ status' = "failed" /\ UNCHANGED file
          /\ UNCHANGED listening

draw ==
  \/ /\ Call("draw", <<Msg("frame")>>)
     /\ UNCHANGED <<status, listening, file>>
  \/ /\ Call("draw", <<>>)
     /\ status' = "crashed"
     /\ UNCHANGED <<listening, file>>

attach == /\ Call("attach", <<Msg("frame")>>)
          /\ UNCHANGED <<status, listening, file>>

Client == \/ get_registry \/ wl_display_dispatch \/ wl_display_sync
          \/ wl_display_roundtrip \/ main_loop \/ check \/ listen
          \/ toplevel_init \/ create_pool \/ shrink \/ draw \/ attach

-------------------------------------------------------------------------------
(* The compositor. *)
Plugged == seat \in {"always", "late"}

Event(e) == events' = Append(events, e)

Receive(t) == /\ requests # <<>>
              /\ Head(requests).type = t
              /\ requests' = Tail(requests)
              /\ UNCHANGED <<clientVars, userVars, fixedVars>>

ReceiveGetRegistry ==
  /\ Receive("get_registry")
  /\ events' = events \o
       [k \in DOMAIN advert |-> [type |-> "global", global |-> advert[k],
                                 registry |-> Head(requests).registry]]
  /\ UNCHANGED serverVars

ReceiveBind ==
  /\ Receive("bind")
  /\ IF Head(requests).global = "seat"
       THEN /\ Event(Capabilities(Plugged))
            /\ device' = IF device = "none" THEN "seat" ELSE device
       ELSE UNCHANGED <<events, device>>
  /\ UNCHANGED <<surfaceVars, seat>>

ReceiveGetPointer ==
  /\ Receive("get_pointer")
  /\ device' = "pointer"
  /\ UNCHANGED <<events, surfaceVars, seat>>

ReceiveSync == Receive("sync") /\ Event(Msg("done")) /\ UNCHANGED serverVars

(* The initial commit is answered with a configure event. *)
ReceiveCommit ==
  /\ Receive("commit")
  /\ stack' = pending
  /\ owing' = (owing \/ (~mapped /\ ~prompt))
  /\ IF ~mapped /\ prompt THEN Event(Msg("configure")) ELSE UNCHANGED events
  /\ UNCHANGED <<configured, unready, mapped, pool, pending, seatVars>>

ReceiveAck == /\ Receive("ack")
              /\ configured' = TRUE
              /\ UNCHANGED <<events, owing, unready, mapped, pool, stack, pending, seatVars>>

ReceiveFrame == /\ Receive("frame")
                /\ mapped' = TRUE
                /\ unready' = (unready \/ ~configured)
                /\ stack' = pending
                /\ UNCHANGED <<events, owing, configured, pool, pending, seatVars>>

ReceiveCreatePool ==
  /\ Receive("create_pool")
  /\ pool' = file
  /\ UNCHANGED <<events, owing, configured, unready, mapped, stack, pending, seatVars>>

ReceivePlace ==
  /\ Receive("place")
  /\ LET r == Head(requests)
     IN  pending' = Moved(pending, r.how, r.surface, r.ref)
  /\ UNCHANGED <<events, owing, configured, unready, mapped, pool, stack, seatVars>>

ReceivePong == Receive("pong") /\ UNCHANGED <<events, serverVars>>

CompositorReads ==
  \/ ReceiveGetRegistry \/ ReceiveBind \/ ReceiveGetPointer \/ ReceiveSync
  \/ ReceiveCommit \/ ReceiveAck \/ ReceiveFrame \/ ReceiveCreatePool
  \/ ReceivePlace \/ ReceivePong

SendConfigure ==
  /\ owing
  /\ owing' = FALSE
  /\ Event(Msg("configure"))
  /\ UNCHANGED <<clientVars, requests, userVars, fixedVars, configured, unready,
                 mapped, pool, stack, pending, seatVars>>

(* Pings, closes and what the user does count as inputs, except that a first *)
(* pointer is plugged in.                                                    *)
Sends(es) == /\ events' = events \o es
             /\ UNCHANGED <<clientVars, requests, surfaceVars, device, fixedVars>>

Input(es) == /\ inputs < MaxInput
             /\ inputs' = inputs + 1
             /\ Sends(es)

Ping == /\ mapped
        /\ Input(<<Msg("ping")>>)
        /\ UNCHANGED <<focus, chosen, intent, seat>>

Close == /\ mapped
         /\ Input(<<Msg("close")>>)
         /\ UNCHANGED <<focus, chosen, intent, seat>>

(* Events of a wl_pointer without a listener are dropped when their turn     *)
(* comes.  There are none before the first frame, when all listeners there   *)
(* will be have been set: the model leaves them out from the start.          *)
Heard(es) == IF listening THEN es ELSE <<>>

LeaveEvents == IF focus = "none" THEN <<>> ELSE <<Msg("leave")>>

(* The seat gets a pointer, loses it, and gets it back. *)
Told == IF device = "none" THEN <<>> ELSE <<Capabilities(Plugged')>>

Plug == /\ Advertised("seat")
        /\ seat = "not"
        /\ seat' = "late"
        /\ Sends(Told)
        /\ UNCHANGED userVars

Unplug == /\ Plugged
          /\ seat' = "lost"
          /\ focus' = "none"
          /\ Input(Heard(LeaveEvents) \o Told)
          /\ UNCHANGED <<chosen, intent>>

Replug == /\ seat = "lost"
          /\ seat' = "late"
          /\ Input(Told)
          /\ UNCHANGED <<focus, chosen, intent>>

(* The pointer comes over surface s, leaving another or not. *)
Enter(s) == /\ mapped
            /\ program = "subsurfaces"
            /\ Plugged /\ device = "pointer"
            /\ focus # s
            /\ focus' = s
            /\ Input(Heard(LeaveEvents \o <<[type |-> "enter", surface |-> s]>>))
            /\ UNCHANGED <<chosen, intent, seat>>

Leave == /\ focus # "none"
         /\ focus' = "none"
         /\ Input(Heard(<<Msg("leave")>>))
         /\ UNCHANGED <<chosen, intent, seat>>

Press == /\ focus # "none"
         /\ Input(Heard(<<[type |-> "button", released |-> FALSE, button |-> "left"]>>))
         /\ UNCHANGED <<focus, chosen, intent, seat>>

(* What the user means by it: the first click is on the surface to be moved,  *)
(* the second on the one it is to be above or below.                          *)
Release(button) ==
  /\ focus # "none"
  /\ Input(Heard(<<[type |-> "button", released |-> TRUE, button |-> button]>>))
  /\ IF chosen = "none" THEN /\ chosen' = IF focus = "main" THEN "none" ELSE focus
                             /\ UNCHANGED intent
     ELSE IF focus = chosen THEN UNCHANGED <<chosen, intent>>
     ELSE /\ chosen' = "none"
          /\ intent' = CASE button = "left" -> Moved(intent, "above", chosen, focus)
                         [] button = "right" -> Moved(intent, "below", chosen, focus)
                         [] OTHER -> intent
  /\ UNCHANGED <<focus, seat>>

Compositor ==
  \/ CompositorReads
  \/ SendConfigure
  \/ Ping
  \/ Close
  \/ Plug
  \/ Unplug
  \/ Replug
  \/ \E s \in Subsurface \cup {"main"} : Enter(s)
  \/ Leave
  \/ Press
  \/ \E button \in {"left", "middle", "right"} : Release(button)

Init ==
  /\ program \in AllPrograms
  /\ pc = 1
  /\ status = "running"
  /\ client = [bound |-> {}, pointer |-> FALSE, current |-> "none",
               selected |-> "none"]
  /\ listening = FALSE
  /\ split = FALSE
  /\ file = "none"
  /\ requests = <<>>
  /\ events = <<>>
  /\ advert \in Adverts
  /\ prompt \in BOOLEAN
  /\ owing = FALSE
  /\ configured = FALSE
  /\ unready = FALSE
  /\ mapped = FALSE
  /\ pool = "none"
  /\ stack = FirstStack
  /\ pending = FirstStack
  /\ seat \in IF Advertised("seat") THEN {"always", "not"} ELSE {"not"}
  /\ device = "none"
  /\ focus = "none"
  /\ chosen = "none"
  /\ intent = FirstStack
  /\ inputs = 0

Next == Client \/ Compositor

Spec == Init /\ [][Next]_vars

(* The client keeps going, the compositor keeps reading; when it sends a   *)
(* configure, and what the user does, is left open.                        *)
FairSpec == Spec /\ WF_vars(Client) /\ WF_vars(CompositorReads)

-------------------------------------------------------------------------------
CanRun == \A g \in Required : Advertised(g)

Started == pc > Len(registry_init)

(* What a program tests after its roundtrips is the compositor's doing and not
   the batches that events fell into: registry_init has bound every global of
   interest that there is, and a program that needs a subcompositor fails only
   without one. *)
GlobalsSeen ==
  /\ Started => \A g \in Wanted(1) : Advertised(g) => g \in client.bound
  /\ program \in {"subsurfaces", "gamma-blend"} /\ status = "failed" =>
       ~CanRun \/ ~Advertised("subcompositor")

(* The pointer of a seat that has had one all along is known when registry_init
   returns, as the programs expect that use it next, provided the first dispatch
   read every global: the seat's capabilities answer a bind sent then, before
   the roundtrip's sync.  A program that waits for a second roundtrip knows it
   in any case. *)
PointerKnown ==
  /\ Started
  /\ seat = "always"
  /\ ~split \/ (At("listen") /\ program = "subsurfaces")
  => client.pointer

(* A roundtrip is long enough for what it is there for.  sigbus shrinks its
   file after the compositor has made a pool of all of it.  "Wait for the
   xdg_surface.configure event", say gamma-blend and sigbus of the roundtrip
   before their first frame: the event has been acknowledged by then, if the
   compositor sends it before it answers the sync.  Any other compositor may get
   a buffer before the first configure. *)
RoundtripsAwaited ==
  /\ file = "short" => pool = "whole"
  /\ prompt => ~unready

(* Every program gets to its main loop, or ends, whatever is advertised: no
   call waits for an event that has been handled already. *)
StartsUp == <>(At("loop") \/ status # "running")

(* subsurfaces: when everything has been read and handled, the order on screen
   is what the clicks amount to, by the surface under the pointer at each.  A
   program that found no pointer when it set its listeners is deaf to the one
   that comes later, and its order is the first. *)
StackFollowsClicks ==
  (requests = <<>> /\ events = <<>> /\ status = "running") =>
    stack = IF listening THEN intent ELSE FirstStack
==============================================================================
