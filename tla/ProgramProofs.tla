---------------------------- MODULE ProgramProofs ----------------------------
(***************************************************************************)
(* The invariants of the programs, for any number of wl_buffers, any length *)
(* of the socket and any sizes.                                            *)
(*                                                                         *)
(* First the sizes resize-loop draws, for every MIN, MAX and SPEED for     *)
(* which counting up from -MAX never meets 0 .. MIN - 1: Turned does not   *)
(* catch these sizes, so that they never come is what keeps the loop       *)
(* drawing.  Then that busy tells the truth, that there is one chain of    *)
(* frame callbacks, and that the programs keep the ownership rule.  Then   *)
(* that frames answer the configure events in their order and with the     *)
(* sizes they ask for, and why damage-paint stops.  Last cursor, a program *)
(* of its own: where its requests lead the hotspot.                        *)
(***************************************************************************)
EXTENDS Programs, Cursor, SurfaceProofs

Counted(k) == -MAX + k * SPEED

StepsOverNothing == \A k \in Nat : Counted(k) \notin 0 .. MIN - 1

(* A size the loop meets: while it shrinks, one counted up from -MAX. *)
Met(n) == /\ n \in Int
          /\ \/ n \in MIN .. MAX
             \/ n <= -MIN /\ \E k \in Nat : n = Counted(k)

(* The constants of resize-loop.c are such: -512, -502, ... -2, 8. *)
LEMMA ProgramSteps == MIN = 2 /\ MAX = 512 /\ SPEED = 10 => StepsOverNothing
<1> SUFFICES ASSUME MIN = 2, MAX = 512, SPEED = 10, NEW k \in Nat
             PROVE  Counted(k) \notin 0 .. 1
  BY DEF StepsOverNothing
<1>1. CASE k <= 51
  BY <1>1 DEF Counted
<1>2. CASE k > 51
  BY <1>2 DEF Counted
<1> QED
  BY <1>1, <1>2

(* The next number counted. *)
LEMMA CountedNext ==
  ASSUME NEW k \in Nat
  PROVE  Counted(k) \in Int /\ Counted(k + 1) = Counted(k) + SPEED
BY LoopSizesAssumption DEF Counted

(* No size counted is further from 0 than MAX while it is negative. *)
LEMMA CountedBound ==
  ASSUME NEW k \in Nat
  PROVE  Counted(k) >= -MAX
BY LoopSizesAssumption DEF Counted

(* One callback turns a size the loop meets into another one. *)
LEMMA SizeTurned ==
  ASSUME StepsOverNothing, NEW n, Met(n)
  PROVE  Met(Turned(n + SPEED))
<1>1. /\ MIN \in Nat /\ MAX \in Nat /\ SPEED \in Nat /\ n \in Int
      /\ MIN > 0 /\ SPEED > 0 /\ MIN <= MAX
  BY LoopSizesAssumption DEF Met
<1>2. Counted(0) = -MAX
  BY <1>1 DEF Counted
<1>3. CASE n \in MIN .. MAX
  BY <1>1, <1>2, <1>3 DEF Turned, Met
<1>4. CASE n <= -MIN /\ \E k \in Nat : n = Counted(k)
  <2>1. PICK k \in Nat : n = Counted(k)
    BY <1>4
  <2>2. n + SPEED = Counted(k + 1) /\ k + 1 \in Nat
    BY <2>1, CountedNext
  <2>3. n + SPEED \notin 0 .. MIN - 1
    BY <2>2 DEF StepsOverNothing
  <2> QED
    BY <1>1, <1>2, <2>2, <2>3 DEF Turned, Met
<1> QED
  BY <1>3, <1>4 DEF Met

(* Such a size is drawn with MIN to MAX pixels a side. *)
LEMMA SizeDrawn ==
  ASSUME NEW n, Met(n)
  PROVE  Absolute(n) \in Int /\ Absolute(n) \in MIN .. MAX
<1>1. MIN \in Nat /\ MAX \in Nat /\ n \in Int /\ MIN > 0
  BY LoopSizesAssumption DEF Met
<1>2. n \in MIN .. MAX \/ (n <= -MIN /\ n >= -MAX)
  BY CountedBound DEF Met
<1> QED
  BY <1>1, <1>2 DEF Absolute

-------------------------------------------------------------------------------
Extents == [width : Int, height : Int, attach : Int]

Allowed(sf) == /\ sf \in Extents
               /\ sf.width # 300 => sf.width \in MIN .. MAX

SizeInv == program = "resize-loop" => Met(size) /\ Allowed(surface)

(* Drawing changes nothing of the surface but the attach offset. *)
LEMMA RenderKeepsSize ==
  ASSUME NEW sf, Allowed(sf), NEW r \in surface_render(sf)
  PROVE  Allowed(r.surface)
<1>1. r.surface = sf \/ r.surface = [sf EXCEPT !.attach = 0]
  BY DEF surface_render, Skipped
<1> QED
  BY <1>1 DEF Allowed, Extents

(* The loop's own size is one it may draw. *)
LEMMA SquareAllowed ==
  ASSUME SizeInv, program = "resize-loop"
  PROVE  Allowed(Sized(surface, Square(Absolute(size))))
BY SizeDrawn DEF SizeInv, Sized, Square, Allowed, Extents

(* A configure event makes the loop store its own size, or none. *)
LEMMA ConfigureKeeps ==
  ASSUME SizeInv, program = "resize-loop", xdg_toplevel_handle_configure
  PROVE  Allowed(surface') /\ size' = size
<1>1. \E e : surface' = IF OwnChoice(e) THEN surface ELSE Sized(surface, Taken(e))
  BY DEF xdg_toplevel_handle_configure
<1>2. ASSUME NEW e PROVE Taken(e) = Square(Absolute(size))
  BY DEF Taken
<1>3. surface' = surface \/ surface' = Sized(surface, Square(Absolute(size)))
  BY <1>1, <1>2
<1> QED
  BY <1>3, SquareAllowed DEF SizeInv, xdg_toplevel_handle_configure, programVars

(* A callback draws the size and goes on to the next. *)
LEMMA CallbackKeeps ==
  ASSUME StepsOverNothing, SizeInv, program = "resize-loop", resize_loop_done
  PROVE  Allowed(surface') /\ Met(size')
<1>1. PICK r \in surface_render(Sized(surface, Square(Absolute(size)))) :
        surface' = r.surface
  BY DEF resize_loop_done, RenderOn
<1>2. Allowed(surface')
  BY <1>1, SquareAllowed, RenderKeepsSize
<1>3. size' = Turned(size + SPEED)
  BY DEF resize_loop_done
<1> QED
  BY <1>2, <1>3, SizeTurned DEF SizeInv

(* No other step of the program or the compositor touches size, and none
   changes the width of the surface. *)
LEMMA OthersKeep ==
  ASSUME SizeInv, program = "resize-loop", Next,
         ~xdg_toplevel_handle_configure, ~resize_loop_done
  PROVE  Allowed(surface') /\ Met(size')
<1>1. CASE handle_configure
  <2>1. PICK r \in surface_render(surface) : surface' = r.surface
    BY <1>1 DEF handle_configure, default_xdg_surface_handle_configure, AnswerWith
  <2>2. size' = size
    BY <1>1 DEF handle_configure, programVars
  <2> QED
    BY <2>1, <2>2, RenderKeepsSize DEF SizeInv
<1>2. CASE drop_done \/ Expiry
  BY <1>2 DEF SizeInv, drop_done, Expiry, unmap
<1>3. CASE buffer_handle_release /\ UNCHANGED <<skipped, programVars>>
  BY <1>3 DEF SizeInv, buffer_handle_release, programVars
<1>4. CASE Compositor
  <2>1. size' = size
    BY <1>4 DEF Compositor, ClientIdle, programVars
  <2>2. surface' = surface
    BY <1>4 DEF Compositor, CompositorReads, ReceiveAck, ReceiveEmpty,
                ReceiveCommit, CompositorReceive, Release, SendConfigure,
                SendDone, clientVars
  <2> QED
    BY <2>1, <2>2 DEF SizeInv
<1> QED
  BY <1>1, <1>2, <1>3, <1>4
  DEF Next, Dispatch, unmap_handle_configure,
      damage_xdg_surface_handle_configure, call_render, frame_callback_done,
      attach_delta_done

(* resize-loop never draws a frame outside MIN .. MAX on its own account, and
   so never one without pixels. *)
THEOREM SizesStayInRange == StepsOverNothing => (Spec => []SizeInRange)
<1> SUFFICES ASSUME StepsOverNothing PROVE Spec => []SizeInRange
  OBVIOUS
<1>1. Init => SizeInv
  BY LoopSizesAssumption DEF Init, SurfaceInit, SizeInv, Met, Allowed, Extents
<1>2. SizeInv /\ [Next]_vars => SizeInv'
  <2> SUFFICES ASSUME SizeInv, [Next]_vars PROVE SizeInv'
    OBVIOUS
  <2>1. program' = program
    BY DEF Next, Dispatch, Expiry, Compositor, ClientIdle, vars
  <2>2. CASE program # "resize-loop"
    BY <2>1, <2>2 DEF SizeInv
  <2>3. CASE program = "resize-loop" /\ UNCHANGED vars
    BY <2>3 DEF SizeInv, vars, surfaceVars, clientVars, programVars
  <2>4. CASE program = "resize-loop" /\ Next
    <3>1. Allowed(surface') /\ Met(size')
      BY <2>4, ConfigureKeeps, CallbackKeeps, OthersKeep DEF SizeInv
    <3> QED
      BY <3>1 DEF SizeInv, Allowed, Met, Extents, Counted
  <2> QED
    BY <2>2, <2>3, <2>4
<1>3. SizeInv => SizeInRange
  BY SizeDrawn DEF SizeInv, SizeInRange, Allowed
<1> QED
  BY <1>1, <1>2, <1>3, PTL DEF Spec

-------------------------------------------------------------------------------
ProgramType == /\ program \in AllPrograms
               /\ size \in Int
               /\ live \in BOOLEAN
               /\ dead \in Nat
               /\ timers \in Nat
               /\ skipped \in SUBSET Nat

(* The inductive invariant: live and dead keep count of the callbacks. *)
IInv == SurfaceInv /\ ProgramType /\ Owing = dead + (IF live THEN 1 ELSE 0)

(* A size is positive after disobeying too. *)
LEMMA DisobeyedNat == ASSUME NEW n \in Nat PROVE disobeyed(n) \in Nat
<1> DEFINE p == n * FactorNum
<1>1. p \in Nat
  BY ProgramsAssumption
<1> HIDE DEF p
<1>2. p \div FactorDen \in Int
  BY <1>1, ProgramsAssumption
<1> DEFINE d == p \div FactorDen
<1>3. disobeyed(n) = IF d > 1 THEN d ELSE 1
  BY DEF disobeyed, p
<1> HIDE DEF d
<1>4. d \in Int
  BY <1>2 DEF d
<1> QED BY <1>3, <1>4

(* A program takes over a size that is not negative. *)
LEMMA TakenSize ==
  ASSUME NEW e \in Toplevels, size \in Int, surface \in Surfaces
  PROVE  Sized(surface, Taken(e)) \in Surfaces
<1>1. e.width \in Nat /\ e.height \in Nat
  BY DEF Toplevels
<1>2. disobeyed(e.width) \in Nat /\ disobeyed(e.height) \in Nat
  BY <1>1, DisobeyedNat
<1>3. Absolute(size) \in Nat
  BY DEF Absolute
<1>4. Taken(e).width \in Nat /\ Taken(e).height \in Nat
  <2> HIDE DEF disobeyed, Absolute
  <2> QED BY <1>1, <1>2, <1>3 DEF Taken, Square
<1> QED BY <1>4 DEF Sized, Surfaces

(* toplevel_configure only stores a size. *)
LEMMA ToplevelHandled ==
  ASSUME IInv, xdg_toplevel_handle_configure, UNCHANGED program
  PROVE  IInv'
<1>1. /\ events # <<>> /\ Head(events).type = "toplevel_configure"
      /\ events' = Tail(events)
      /\ surface' = IF OwnChoice(Head(events)) THEN surface
                    ELSE Sized(surface, Taken(Head(events)))
      /\ UNCHANGED <<slots, requests, compositorVars, skipped, programVars>>
  BY DEF xdg_toplevel_handle_configure, Receive
<1>2. events \in Seq(Events) /\ surface \in Surfaces /\ requests \in Seq(Requests)
  BY DEF IInv, SurfaceInv, SurfaceType
<1>3. Head(events) \in Toplevels
  BY <1>1, <1>2, CountTail, EventTypes
<1>4. surface' \in Surfaces
  BY <1>1, <1>2, <1>3, TakenSize DEF IInv, ProgramType
<1>5. Send(<<>>) /\ <<>> \in Seq(Requests)
  BY <1>1, <1>2 DEF Send
<1>6. SurfaceInv'
  BY <1>1, <1>4, <1>5, CountEmpty, SendKeeps DEF IInv
<1>7. Owing' = Owing
  <2>1. Owing' = Owing + Count(<<>>, Asking) - 0
    BY <1>1, <1>5, OwingHandled DEF IInv, compositorVars
  <2> QED BY <2>1, CountEmpty, OwingNat DEF IInv
<1> QED
  BY <1>1, <1>6, <1>7 DEF IInv, ProgramType, programVars

(* What a handler sends that answers a configure event without callbacks. *)
LEMMA AnswerKeeps ==
  ASSUME SurfaceInv, NEW r \in surface_render(surface), NEW t \in Seq(Requests),
         \A b \in Buffers : Count(t, CommitsOf(b)) = Count(r.sent, CommitsOf(b)),
         Receive("configure", 2),
         AnswerWith([r EXCEPT !.sent = t])
  PROVE  /\ SurfaceInv' /\ Owing' = Owing + Count(t, Asking)
         /\ skipped \in SUBSET Nat => skipped' \in SUBSET Nat
<1> DEFINE n == Head(events).serial
           msgs == Answer(n, t)
<1>1. /\ events # <<>> /\ Head(events).type = "configure" /\ events' = Tail(events)
      /\ events \in Seq(Events) /\ surface \in Surfaces
  BY DEF Receive, SurfaceInv, SurfaceType
<1>2. n \in Nat
  <2>1. Head(events) \in Configures
    BY <1>1, CountTail, EventTypes
  <2> QED BY <2>1 DEF Configures
<1>3. r = [slots |-> r.slots, surface |-> r.surface, sent |-> r.sent]
  BY <1>1, RenderShape
<1>4. /\ [r EXCEPT !.sent = t].slots = r.slots
      /\ [r EXCEPT !.sent = t].surface = r.surface
      /\ [r EXCEPT !.sent = t].sent = t
  BY <1>3
<1>5. /\ slots' = r.slots /\ surface' = r.surface /\ Send(msgs)
      /\ skipped' = skipped \cup {s \in {n} : t = <<>>}
      /\ UNCHANGED compositorVars
  BY <1>4 DEF AnswerWith
<1>6. /\ msgs \in Seq(Requests)
      /\ Count(msgs, Asking) = Count(t, Asking)
      /\ \A b \in Buffers : Count(msgs, CommitsOf(b)) = Count(r.sent, CommitsOf(b))
  BY <1>2, AnswerCounts
<1> HIDE DEF msgs, n
<1>7. SurfaceInv'
  BY <1>1, <1>5, <1>6, DrawKeeps
<1>8. Owing' = Owing + Count(t, Asking)
  <2>1. Owing' = Owing + Count(msgs, Asking) - 0 /\ Count(msgs, Asking) \in Nat
    BY <1>1, <1>5, <1>6, OwingHandled DEF compositorVars
  <2> QED BY <1>6, <2>1, OwingNat
<1> QED BY <1>2, <1>5, <1>7, <1>8

(* surface_render asks for no callback. *)
LEMMA RenderAsks ==
  ASSUME SurfaceInv, NEW sf \in Surfaces, NEW r \in surface_render(sf)
  PROVE  Count(r.sent, Asking) = 0
<1>1. CASE r.sent = <<>>
  BY <1>1, CountEmpty
<1>2. CASE r.sent # <<>>
  <2>1. PICK m \in Commits : r.sent = <<m>> /\ ~m.frame
    BY <1>2, RenderShape
  <2> QED BY <2>1, CountOne, AskingCounts
<1> QED BY <1>1, <1>2

(* client.c's configure handler. *)
LEMMA DefaultHandled ==
  ASSUME IInv, default_xdg_surface_handle_configure
  PROVE  SurfaceInv' /\ Owing' = Owing /\ skipped' \in SUBSET Nat
<1>1. PICK r \in surface_render(surface) : AnswerWith(r)
  BY DEF default_xdg_surface_handle_configure
<1>2. Receive("configure", 2) /\ surface \in Surfaces
  BY DEF default_xdg_surface_handle_configure, IInv, SurfaceInv, SurfaceType
<1>3. /\ r = [slots |-> r.slots, surface |-> r.surface, sent |-> r.sent]
      /\ r.sent \in Seq(Requests)
  BY <1>2, RenderShape DEF IInv
<1>4. r = [r EXCEPT !.sent = r.sent]
  BY <1>3
<1>5. AnswerWith([r EXCEPT !.sent = r.sent])
  BY <1>1, <1>4
<1>6. Count(r.sent, Asking) = 0
  BY <1>2, RenderAsks DEF IInv
<1> QED BY <1>2, <1>3, <1>5, <1>6, AnswerKeeps, OwingNat DEF IInv, ProgramType

(* So do the handlers that add nothing to it but unmap's timer. *)
LEMMA ConfigureHandled ==
  ASSUME IInv, handle_configure \/ unmap_handle_configure, UNCHANGED program
  PROVE  IInv'
<1>1. SurfaceInv' /\ Owing' = Owing /\ skipped' \in SUBSET Nat
  BY DefaultHandled DEF handle_configure, unmap_handle_configure
<1>2. size' = size /\ live' = live /\ dead' = dead /\ timers' \in Nat
  BY DEF IInv, ProgramType, handle_configure, unmap_handle_configure, programVars, Armed
<1> QED BY <1>1, <1>2 DEF IInv, ProgramType

(* unmap's timer attaches no wl_buffer. *)
LEMMA UnmapKeeps == ASSUME IInv, unmap, UNCHANGED program PROVE IInv'
<1> DEFINE m == CommitOf(EmptySlot, [surface EXCEPT !.attach = 0])
<1>1. /\ surface \in Surfaces /\ requests \in Seq(Requests) /\ events \in Seq(Events)
      /\ Send(<<m>>) /\ timers > 0 /\ timers' = timers - 1
      /\ UNCHANGED <<slots, surface, events, compositorVars, skipped, size, live, dead>>
  BY DEF IInv, SurfaceInv, SurfaceType, unmap
<1>2. m \in Commits /\ m.buffer = NULL /\ ~m.frame
  BY <1>1 DEF CommitOf, EmptySlot, Commits, Surfaces
<1> HIDE DEF m
<1>3. /\ <<m>> \in Seq(Requests) /\ Count(<<m>>, Asking) = 0
      /\ \A b \in Buffers : Count(<<m>>, CommitsOf(b)) = 0
  BY <1>2, CountOne, AskingCounts, CommitCounts, BufferPoolAssumption DEF Requests
<1>4. SurfaceInv'
  BY <1>1, <1>3, SendKeeps DEF IInv
<1>5. Owing' = Owing
  <2>1. Count(requests \o <<m>>, Asking) = Count(requests, Asking) + Count(<<m>>, Asking)
    BY <1>1, <1>3, CountConcat
  <2>2. Count(requests', Asking) = Count(requests, Asking)
    BY <1>1, <1>3, <2>1, OwingNat DEF Send, IInv
  <2> QED BY <1>1, <2>2 DEF Owing, compositorVars
<1> QED BY <1>1, <1>4, <1>5 DEF IInv, ProgramType

(* The requests of damage-paint's render: those of surface_render, each asking
   for a callback. *)
LEMMA DamageSent ==
  ASSUME SurfaceInv, NEW r \in damage_render
  PROVE  \E q \in surface_render(surface), t \in Seq(Requests) :
           /\ r = [q EXCEPT !.sent = t]
           /\ r = [slots |-> q.slots, surface |-> q.surface, sent |-> t]
           /\ \A b \in Buffers : Count(t, CommitsOf(b)) = Count(q.sent, CommitsOf(b))
           /\ Count(t, Asking) = IF Asks(r) THEN 1 ELSE 0
<1>1. PICK q \in surface_render(surface) : r = WithCallback(q)
  BY DEF damage_render
<1>2. surface \in Surfaces
  BY DEF SurfaceInv, SurfaceType
<1>3. q = [slots |-> q.slots, surface |-> q.surface, sent |-> q.sent]
  BY <1>2, RenderShape
<1> DEFINE t == [k \in DOMAIN q.sent |-> [q.sent[k] EXCEPT !.frame = TRUE]]
<1>4. /\ r = [q EXCEPT !.sent = t]
      /\ r = [slots |-> q.slots, surface |-> q.surface, sent |-> t]
  BY <1>1, <1>3 DEF WithCallback
<1>5. CASE q.sent = <<>>
  <2>1. t = <<>>
    BY <1>5
  <2> HIDE DEF t
  <2>2. ~Asks(r)
    BY <1>4, <2>1 DEF Asks
  <2>3. t \in Seq(Requests) /\ Count(t, Asking) = 0
    BY <2>1, CountEmpty
  <2> QED BY <1>4, <1>5, <2>1, <2>2, <2>3
<1>6. CASE q.sent # <<>>
  <2>1. PICK m \in Commits : q.sent = <<m>>
    BY <1>2, <1>6, RenderShape
  <2> DEFINE n == [m EXCEPT !.frame = TRUE]
  <2>2. n \in Commits /\ n.frame /\ n.buffer = m.buffer
    BY DEF Commits
  <2>3. t = <<n>>
    <3>1. DOMAIN q.sent = {1} /\ q.sent[1] = m
      BY <2>1
    <3>2. t = [k \in {1} |-> n]
      BY <3>1
    <3> HIDE DEF n
    <3>3. <<n>> = [k \in {1} |-> n]
      OBVIOUS
    <3> QED BY <3>2, <3>3
  <2> HIDE DEF n, t
  <2>4. Asks(r)
    BY <1>4, <2>2, <2>3 DEF Asks
  <2>5. \A b \in Buffers : Count(t, CommitsOf(b)) = Count(q.sent, CommitsOf(b))
    BY <2>1, <2>2, <2>3, CountOne, CommitCounts
  <2>6. Count(t, Asking) = 1
    BY <2>2, <2>3, CountOne, AskingCounts
  <2>7. t \in Seq(Requests)
    BY <2>2, <2>3 DEF Requests
  <2> QED BY <1>4, <2>4, <2>5, <2>6, <2>7
<1> QED BY <1>5, <1>6

(* damage-paint's configure handler destroys the callback it replaces. *)
LEMMA DamageConfigured ==
  ASSUME IInv, damage_xdg_surface_handle_configure, UNCHANGED program
  PROVE  IInv'
<1>1. PICK r \in damage_render : /\ AnswerWith(r)
                                 /\ dead' = dead + Destroyed(r)
                                 /\ live' = (live \/ Asks(r))
  BY DEF damage_xdg_surface_handle_configure
<1>2. PICK q \in surface_render(surface), t \in Seq(Requests) :
        /\ r = [q EXCEPT !.sent = t]
        /\ \A b \in Buffers : Count(t, CommitsOf(b)) = Count(q.sent, CommitsOf(b))
        /\ Count(t, Asking) = IF Asks(r) THEN 1 ELSE 0
  BY DamageSent DEF IInv
<1>3. Receive("configure", 2) /\ AnswerWith([q EXCEPT !.sent = t])
  BY <1>1, <1>2 DEF damage_xdg_surface_handle_configure
<1>4. /\ SurfaceInv' /\ Owing' = Owing + Count(t, Asking)
      /\ skipped' \in SUBSET Nat
  BY <1>2, <1>3, AnswerKeeps DEF IInv, ProgramType
<1>5. Asks(r) \in BOOLEAN
  BY DEF Asks
<1>6. /\ size' = size /\ timers' = timers
      /\ live' \in BOOLEAN /\ dead' \in Nat
      /\ Owing' = dead' + (IF live' THEN 1 ELSE 0)
  BY <1>1, <1>2, <1>4, <1>5
  DEF IInv, ProgramType, Destroyed, damage_xdg_surface_handle_configure
<1> QED BY <1>4, <1>6 DEF IInv, ProgramType

(* A callback that no other has replaced asks for the next with its frame. *)
LEMMA CallRenderKeeps == ASSUME IInv, call_render, UNCHANGED program PROVE IInv'
<1>1. PICK r \in damage_render : /\ slots' = r.slots
                                 /\ surface' = r.surface
                                 /\ live' = Asks(r)
                                 /\ Send(r.sent)
  BY DEF call_render
<1>2. PICK q \in surface_render(surface), t \in Seq(Requests) :
        /\ r = [slots |-> q.slots, surface |-> q.surface, sent |-> t]
        /\ \A b \in Buffers : Count(t, CommitsOf(b)) = Count(q.sent, CommitsOf(b))
        /\ Count(t, Asking) = IF Asks(r) THEN 1 ELSE 0
  BY DamageSent DEF IInv
<1>3. r.slots = q.slots /\ r.surface = q.surface /\ r.sent = t
  BY <1>2
<1>4. /\ events # <<>> /\ Head(events).type = "done" /\ events' = Tail(events)
      /\ dead = 0 /\ surface \in Surfaces
      /\ UNCHANGED <<compositorVars, skipped, size, dead, timers>>
  BY DEF call_render, Receive, IInv, SurfaceInv, SurfaceType
<1>5. SurfaceInv'
  BY <1>1, <1>2, <1>3, <1>4, DrawKeeps DEF IInv
<1>6. /\ Owing' = Owing + Count(t, Asking) - 1
      /\ Owing > 0
  BY <1>1, <1>3, <1>4, OwingHandled DEF IInv, compositorVars
<1>7. live' \in BOOLEAN
  BY <1>1 DEF Asks
<1>8. Owing' = dead' + (IF live' THEN 1 ELSE 0)
  BY <1>1, <1>2, <1>4, <1>6, OwingNat DEF IInv, ProgramType
<1> QED BY <1>4, <1>5, <1>7, <1>8 DEF IInv, ProgramType

(* A callback that has been replaced is forgotten. *)
LEMMA DropKeeps == ASSUME IInv, drop_done, UNCHANGED program PROVE IInv'
<1>1. /\ events # <<>> /\ Head(events).type = "done" /\ events' = Tail(events)
      /\ dead > 0 /\ dead' = dead - 1
      /\ surface \in Surfaces /\ requests \in Seq(Requests)
      /\ UNCHANGED <<slots, surface, requests, compositorVars, skipped, size, live, timers>>
  BY DEF drop_done, Receive, IInv, SurfaceInv, SurfaceType
<1>2. Send(<<>>) /\ <<>> \in Seq(Requests)
  BY <1>1 DEF Send
<1>3. SurfaceInv'
  BY <1>1, <1>2, CountEmpty, SendKeeps DEF IInv
<1>4. Owing' = Owing + Count(<<>>, Asking) - 1
  BY <1>1, <1>2, OwingHandled DEF IInv, compositorVars
<1>5. Owing' = dead' + (IF live' THEN 1 ELSE 0)
  BY <1>1, <1>4, CountEmpty, OwingNat DEF IInv, ProgramType
<1> QED BY <1>1, <1>3, <1>5 DEF IInv, ProgramType

(* frame-callback asks for the next callback and draws nothing. *)
LEMMA CallbackAsks == ASSUME IInv, frame_callback_done, UNCHANGED program PROVE IInv'
<1> DEFINE m == request_frame_callback
<1>1. /\ events # <<>> /\ Head(events).type = "done" /\ events' = Tail(events)
      /\ surface \in Surfaces /\ Send(<<m>>)
      /\ UNCHANGED <<slots, surface, compositorVars, skipped, programVars>>
  BY DEF frame_callback_done, Receive, NextCallback, IInv, SurfaceInv, SurfaceType
<1>2. /\ m \in Empties /\ One(m, Asking) = 1
  BY AskingCounts
<1> HIDE DEF m
<1>3. /\ <<m>> \in Seq(Requests) /\ Count(<<m>>, Asking) = 1
      /\ \A b \in Buffers : Count(<<m>>, CommitsOf(b)) = 0
  BY <1>2, CountOne, CommitCounts DEF Requests
<1>4. SurfaceInv'
  BY <1>1, <1>3, SendKeeps DEF IInv
<1>5. Owing' = Owing + Count(<<m>>, Asking) - 1
  BY <1>1, <1>3, OwingHandled DEF IInv, compositorVars
<1>6. Owing' = Owing
  BY <1>3, <1>5, OwingNat DEF IInv
<1> QED BY <1>1, <1>4, <1>6 DEF IInv, ProgramType, programVars

(* The loops draw a frame, or none, and ask for the next callback. *)
LEMMA RenderOnKeeps ==
  ASSUME IInv, NEW sf \in Surfaces, RenderOn(sf), Receive("done", 2),
         UNCHANGED compositorVars
  PROVE  SurfaceInv' /\ Owing' = Owing
<1> DEFINE m == request_frame_callback
<1>1. PICK r \in surface_render(sf) : /\ slots' = r.slots
                                      /\ surface' = r.surface
                                      /\ Send(r.sent \o <<m>>)
  BY DEF RenderOn, NextCallback
<1>2. events # <<>> /\ Head(events).type = "done" /\ events' = Tail(events)
  BY DEF Receive
<1>3. /\ m \in Empties /\ m \in Requests /\ One(m, Asking) = 1
      /\ r.sent \in Seq(Requests) /\ Count(r.sent, Asking) = 0
  BY AskingCounts, RenderShape, RenderAsks DEF IInv, Requests
<1> HIDE DEF m
<1>4. <<m>> \in Seq(Requests) /\ r.sent \o <<m>> \in Seq(Requests)
  BY <1>3
<1>5. Count(r.sent \o <<m>>, Asking) = 1
  <2>1. Count(r.sent \o <<m>>, Asking) = Count(r.sent, Asking) + Count(<<m>>, Asking)
    BY <1>3, <1>4, CountConcat
  <2> QED BY <1>3, <2>1, CountOne
<1>6. ASSUME NEW b \in Buffers
      PROVE  Count(r.sent \o <<m>>, CommitsOf(b)) = Count(r.sent, CommitsOf(b))
  <2>1. Count(r.sent \o <<m>>, CommitsOf(b)) =
          Count(r.sent, CommitsOf(b)) + Count(<<m>>, CommitsOf(b))
    BY <1>3, <1>4, CountConcat
  <2>2. Count(<<m>>, CommitsOf(b)) = 0 /\ Count(r.sent, CommitsOf(b)) \in Nat
    BY <1>3, CountOne, CommitCounts, CountFinite
  <2> QED BY <2>1, <2>2
<1>7. SurfaceInv'
  BY <1>1, <1>2, <1>4, <1>6, DrawKeeps DEF IInv
<1>8. Owing' = Owing + Count(r.sent \o <<m>>, Asking) - 1
  BY <1>1, <1>2, <1>4, OwingHandled DEF IInv, compositorVars
<1> QED BY <1>5, <1>7, <1>8, OwingNat DEF IInv

(* The two loops. *)
LEMMA LoopKeeps ==
  ASSUME IInv, attach_delta_done \/ resize_loop_done, UNCHANGED program
  PROVE  IInv'
<1>1. surface \in Surfaces /\ size \in Int
  BY DEF IInv, SurfaceInv, SurfaceType, ProgramType
<1>2. CASE attach_delta_done
  <2>1. [surface EXCEPT !.attach = 1] \in Surfaces
    BY <1>1 DEF Surfaces
  <2>2. SurfaceInv' /\ Owing' = Owing
    BY <1>2, <2>1, RenderOnKeeps DEF attach_delta_done
  <2> QED BY <1>2, <2>2 DEF attach_delta_done, IInv, ProgramType, programVars
<1>3. CASE resize_loop_done
  <2>1. Sized(surface, Square(Absolute(size))) \in Surfaces
    <3>1. Absolute(size) \in Nat
      BY <1>1 DEF Absolute
    <3> HIDE DEF Absolute
    <3> QED BY <1>1, <3>1 DEF Square, Sized, Surfaces
  <2>2. SurfaceInv' /\ Owing' = Owing
    BY <1>3, <2>1, RenderOnKeeps DEF resize_loop_done
  <2>3. size' \in Int
    BY <1>1, <1>3, LoopSizesAssumption DEF resize_loop_done, Turned
  <2> QED BY <1>3, <2>2, <2>3 DEF resize_loop_done, IInv, ProgramType
<1> QED BY <1>2, <1>3

(* A release concerns no callback. *)
LEMMA ReleaseStepKeeps ==
  ASSUME IInv, buffer_handle_release, UNCHANGED <<skipped, program, programVars>>
  PROVE  IInv'
<1>1. SurfaceInv'
  BY ReleaseHandled DEF IInv
<1>2. /\ events # <<>> /\ Head(events).type = "release" /\ events' = Tail(events)
      /\ requests \in Seq(Requests) /\ requests' = requests /\ frames' = frames
  BY DEF buffer_handle_release, Receive, IInv, SurfaceInv, SurfaceType, compositorVars
<1>3. Send(<<>>) /\ <<>> \in Seq(Requests)
  BY <1>2 DEF Send
<1>4. Owing' = Owing + Count(<<>>, Asking) - 0
  BY <1>2, <1>3, OwingHandled DEF IInv
<1>5. Owing' = Owing
  BY <1>4, CountEmpty, OwingNat DEF IInv
<1> QED BY <1>1, <1>5 DEF IInv, ProgramType, programVars

(* Nor does the compositor change the client's variables. *)
LEMMA CompositorStepKeeps == ASSUME IInv, Compositor PROVE IInv'
<1>1. SurfaceInv' /\ Owing' = Owing
  BY CompositorKeeps DEF Compositor, IInv
<1> QED BY <1>1 DEF Compositor, ClientIdle, IInv, ProgramType, programVars

(* Every step keeps the invariant. *)
LEMMA StepKeeps == IInv /\ [Next]_vars => IInv'
<1> SUFFICES ASSUME IInv, [Next]_vars PROVE IInv'
  OBVIOUS
<1>1. CASE Dispatch
  BY <1>1, ToplevelHandled, ConfigureHandled, DamageConfigured, CallRenderKeeps,
     DropKeeps, CallbackAsks, LoopKeeps, ReleaseStepKeeps
  DEF Dispatch
<1>2. CASE Expiry
  BY <1>2, UnmapKeeps DEF Expiry
<1>3. CASE Compositor
  BY <1>3, CompositorStepKeeps
<1>4. CASE UNCHANGED vars
  BY <1>4 DEF vars, surfaceVars, clientVars, compositorVars, programVars, IInv,
     SurfaceInv, SurfaceType, BusyCounted, Where, ProgramType, Owing
<1> QED BY <1>1, <1>2, <1>3, <1>4 DEF Next

(* It holds at the start. *)
LEMMA StartKeeps == Init => IInv
<1> SUFFICES ASSUME Init PROVE IInv
  OBVIOUS
<1> DEFINE m == request_frame_callback
           e == [type |-> "empty", frame |-> FALSE]
           more == IF program \in Chained THEN <<m>> ELSE <<>>
<1>1. /\ program \in AllPrograms /\ SurfaceInit(more) /\ skipped = {} /\ size = MIN
      /\ live = (program \in Chained) /\ dead = 0 /\ timers = 0
  BY DEF Init
<1>2. ProgramType
  BY <1>1, LoopSizesAssumption DEF ProgramType
<1>3. m \in Empties /\ m \in Requests /\ One(m, Asking) = 1
  BY AskingCounts DEF Requests
<1>4. e \in Requests /\ e \notin Asking
  BY DEF Requests, Empties, Asking
<1>5. requests = <<e>> \o more /\ events = <<>> /\ frames = 0
  BY <1>1 DEF SurfaceInit
<1> HIDE DEF m, e
<1>6. /\ more \in Seq(Requests)
      /\ Count(more, Asking) = IF program \in Chained THEN 1 ELSE 0
      /\ \A b \in Buffers : Count(more, CommitsOf(b)) = 0
  <2>1. CASE program \in Chained
    <3>1. more = <<m>>
      BY <2>1
    <3> HIDE DEF more
    <3> QED BY <1>3, <2>1, <3>1, CountOne, CommitCounts
  <2>2. CASE program \notin Chained
    <3>1. more = <<>>
      BY <2>2
    <3> HIDE DEF more
    <3> QED BY <2>2, <3>1, CountEmpty
  <2> QED BY <2>1, <2>2
<1> HIDE DEF more
<1>7. SurfaceInv
  BY <1>1, <1>6, SurfaceStarts
<1>8. Owing = dead + (IF live THEN 1 ELSE 0)
  <2>1. <<e>> \in Seq(Requests)
    BY <1>4
  <2>2. Count(requests, Asking) = Count(<<e>>, Asking) + Count(more, Asking)
    BY <1>5, <1>6, <2>1, CountConcat
  <2>3. Count(<<e>>, Asking) = 0 /\ Count(events, Dones) = 0
    BY <1>4, <1>5, CountOne, CountEmpty DEF One
  <2>4. Count(more, Asking) = IF live THEN 1 ELSE 0
    BY <1>1, <1>6
  <2>5. Owing = Count(more, Asking)
    BY <1>5, <2>2, <2>3, <2>4 DEF Owing
  <2> QED BY <1>1, <2>4, <2>5
<1> QED BY <1>2, <1>7, <1>8 DEF IInv

(* Every variable keeps its type, the slots share no wl_buffer, and the callbacks
   are counted. *)
THEOREM Invariant == Spec => []IInv
BY StartKeeps, StepKeeps, PTL DEF Spec

(* A wl_buffer is out of the client's hands exactly while its slot is busy, and in
   one place only, whatever the order in which the two ends go on. *)
THEOREM BusyTellsTruth == Spec => []BusyIsOut
<1>1. IInv => BusyIsOut
  BY BusyIsCounted DEF IInv
<1> QED BY <1>1, Invariant, PTL

(* Callbacks is the number counted. *)
LEMMA CallbacksCounted == SurfaceInv => Callbacks = Owing
<1> SUFFICES ASSUME SurfaceInv PROVE Callbacks = Owing
  OBVIOUS
<1>1. /\ \A k \in DOMAIN requests : requests[k] \in Requests
      /\ \A k \in DOMAIN events : events[k] \in Events
  BY DEF SurfaceInv, SurfaceType
<1>2. \A k \in DOMAIN requests :
        (requests[k].type \in {"commit", "empty"} /\ requests[k].frame)
          <=> requests[k] \in Asking
  BY <1>1, RequestTypes DEF Asking
<1>3. \A k \in DOMAIN events : events[k].type = "done" <=> events[k] \in Dones
  BY <1>1, EventTypes
<1>4. {k \in DOMAIN requests : /\ requests[k].type \in {"commit", "empty"}
                               /\ requests[k].frame} = At(requests, Asking)
  BY <1>2 DEF At
<1>5. {k \in DOMAIN events : events[k].type = "done"} = At(events, Dones)
  BY <1>3 DEF At
<1> QED BY <1>4, <1>5 DEF Callbacks, Owing, Count

(* There is one chain of frame callbacks or none, whichever of them are destroyed
   on their way. *)
THEOREM ChainIsOne == Spec => []OneChain
<1>1. IInv => OneChain
  BY CallbacksCounted DEF IInv, OneChain
<1> QED BY <1>1, Invariant, PTL

-------------------------------------------------------------------------------
(* The refinement mapping of Ownership, and the owners that busy says. *)
BufferOf == [i \in Slots |-> slots[i].buffer]

OwnerOf == [i \in Slots |-> IF slots[i].buffer # NULL /\ Out(slots[i].buffer)
                              THEN "compositor" ELSE "client"]

BusyOwner == [i \in Slots |-> IF slots[i].buffer # NULL /\ slots[i].busy
                                THEN "compositor" ELSE "client"]

(* They are the same, since busy tells the truth. *)
LEMMA OwnerIsBusy == SurfaceInv => OwnerOf = BusyOwner
<1> SUFFICES ASSUME SurfaceInv, NEW i \in Slots, slots[i].buffer # NULL
             PROVE  Out(slots[i].buffer) <=> slots[i].busy
  BY DEF OwnerOf, BusyOwner
<1>1. slots[i].buffer \in Buffers
  BY DEF SurfaceInv, SurfaceType, Slot
<1>2. BusyIn(slots, slots[i].buffer) <=> slots[i].busy
  BY DEF BusyIn, SurfaceInv, SurfaceType, Apart, Slots, Slot
<1> QED BY <1>1, <1>2, OutIsBusy

(* In the next state too. *)
LEMMA OwnerIsBusyNext == (SurfaceInv => OwnerOf = BusyOwner)'
BY OwnerIsBusy, PTL

(* What a step may do to the slots. *)
LEMMA SlotsStep ==
  ASSUME IInv, [Next]_vars
  PROVE  \/ slots' = slots
         \/ \E sf \in Surfaces : \E r \in surface_render(sf) : slots' = r.slots
         \/ buffer_handle_release
<1>1. surface \in Surfaces /\ size \in Int
  BY DEF IInv, SurfaceInv, SurfaceType, ProgramType
<1>2. CASE handle_configure \/ unmap_handle_configure
  BY <1>1, <1>2
  DEF handle_configure, unmap_handle_configure, default_xdg_surface_handle_configure,
      AnswerWith
<1>3. CASE damage_xdg_surface_handle_configure \/ call_render
  <2>1. PICK r \in damage_render : slots' = r.slots
    BY <1>3 DEF damage_xdg_surface_handle_configure, call_render, AnswerWith
  <2>2. PICK q \in surface_render(surface), t \in Seq(Requests) :
          r = [slots |-> q.slots, surface |-> q.surface, sent |-> t]
    BY DamageSent DEF IInv
  <2>3. slots' = q.slots
    BY <2>1, <2>2
  <2> QED BY <1>1, <2>3
<1>4. CASE attach_delta_done
  <2>1. [surface EXCEPT !.attach = 1] \in Surfaces
    BY <1>1 DEF Surfaces
  <2> QED BY <1>4, <2>1 DEF attach_delta_done, RenderOn
<1>5. CASE resize_loop_done
  <2>1. Absolute(size) \in Nat
    BY <1>1 DEF Absolute
  <2>2. Sized(surface, Square(Absolute(size))) \in Surfaces
    <3> HIDE DEF Absolute
    <3> QED BY <1>1, <2>1 DEF Square, Sized, Surfaces
  <2> QED BY <1>5, <2>2 DEF resize_loop_done, RenderOn
<1>6. CASE xdg_toplevel_handle_configure \/ drop_done \/ frame_callback_done \/ unmap
  BY <1>6 DEF xdg_toplevel_handle_configure, drop_done, frame_callback_done, unmap
<1>7. CASE Compositor
  BY <1>7 DEF Compositor, CompositorReads, ReceiveAck, ReceiveEmpty, ReceiveCommit,
              CompositorReceive, Release, SendConfigure, SendDone, clientVars
<1>8. CASE UNCHANGED vars
  BY <1>8 DEF vars, surfaceVars, clientVars
<1> QED BY <1>2, <1>3, <1>4, <1>5, <1>6, <1>7, <1>8 DEF Next, Dispatch, Expiry

(* Drawing hands a wl_buffer over, or gives it up, or does neither. *)
LEMMA RenderOwns ==
  ASSUME SurfaceInv, NEW sf \in Surfaces, NEW r \in surface_render(sf),
         slots' = r.slots
  PROVE  \/ \E i \in Slots :
              /\ BusyOwner[i] = "client"
              /\ \E b \in Buffers : /\ \A j \in Slots \ {i} : BufferOf[j] # b
                                    /\ BufferOf' = [BufferOf EXCEPT ![i] = b]
              /\ BusyOwner' = [BusyOwner EXCEPT ![i] = "compositor"]
         \/ \E i \in Slots :
              /\ BusyOwner[i] = "client"
              /\ BufferOf' = [BufferOf EXCEPT ![i] = NULL]
              /\ BusyOwner' = BusyOwner
         \/ slots' = slots
<1>1. CASE r = Skipped(slots, sf)
  BY <1>1 DEF Skipped
<1>2. CASE r # Skipped(slots, sf)
  <2>1. PICK i \in FreeSlots, t \in Slot :
          /\ t.buffer \in {slots[i].buffer, NewBuffer, NULL}
          /\ \/ /\ t.buffer = NULL /\ ~t.busy
                /\ r = Skipped([slots EXCEPT ![i] = t], sf)
             \/ /\ t.busy
                /\ Bytes(t.width, t.height) = Bytes(sf.width, sf.height)
                /\ r = [slots |-> [slots EXCEPT ![i] = t],
                        surface |-> [sf EXCEPT !.attach = 0],
                        sent |-> <<CommitOf(t, sf)>>]
    BY <1>2, RenderSlots
  <2>2. slots' = [slots EXCEPT ![i] = t]
    BY <2>1 DEF Skipped
  <2>3. t.buffer = NULL \/ t.busy
    BY <2>1
  <2>4. /\ i \in Slots /\ ~slots[i].busy
        /\ slots \in [Slots -> Slot] /\ slots' \in [Slots -> Slot]
        /\ Apart(slots')
        /\ t.buffer \in Buffers \cup {NULL}
    BY RenderShape DEF FreeSlots, SurfaceInv, SurfaceType, Slot
  <2>5. BusyOwner[i] = "client" /\ BufferOf' = [BufferOf EXCEPT ![i] = t.buffer]
    BY <2>2, <2>4 DEF BusyOwner, BufferOf
  <2>6. CASE t.buffer = NULL
    <3>1. BusyOwner' = BusyOwner
      BY <2>2, <2>4, <2>6 DEF BusyOwner
    <3> QED BY <2>4, <2>5, <2>6, <3>1
  <2>7. CASE t.buffer # NULL
    <3>1. t.buffer \in Buffers /\ t.busy
      BY <2>3, <2>4, <2>7
    <3>2. \A j \in Slots \ {i} : BufferOf[j] # t.buffer
      BY <2>2, <2>4, <2>7 DEF Apart, BufferOf, Slots
    <3>3. BusyOwner' = [BusyOwner EXCEPT ![i] = "compositor"]
      BY <2>2, <2>4, <2>7, <3>1 DEF BusyOwner
    <3> QED BY <2>4, <2>5, <3>1, <3>2, <3>3
  <2> QED BY <2>6, <2>7
<1> QED BY <1>1, <1>2

(* A release returns the one wl_buffer it names. *)
LEMMA ReleaseReturns ==
  ASSUME SurfaceInv, buffer_handle_release
  PROVE  \E i \in Slots : /\ BusyOwner[i] = "compositor"
                          /\ BusyOwner' = [BusyOwner EXCEPT ![i] = "client"]
                          /\ BufferOf' = BufferOf
<1> DEFINE c == Head(events).buffer
<1>1. /\ slots \in [Slots -> Slot] /\ events \in Seq(Events) /\ events # <<>>
      /\ Head(events).type = "release"
      /\ slots' = [i \in Slots |-> Freed(slots[i], c)]
  BY DEF SurfaceInv, SurfaceType, buffer_handle_release, Receive
<1>2. Head(events) \in Releases /\ c \in Buffers /\ c # NULL
  <2>1. Head(events) \in Releases
    BY <1>1, CountTail, EventTypes
  <2> QED BY <2>1, BufferPoolAssumption DEF Releases
<1>3. BusyIn(slots, c)
  <2>1. events[1] \in ReleasesOf(c) /\ 1 \in DOMAIN events
    BY <1>1, <1>2 DEF ReleasesOf
  <2> QED BY <1>2, <2>1, OutIsBusy
<1> HIDE DEF c
<1>4. PICK i \in Slots : slots[i].buffer = c /\ slots[i].busy
  BY <1>3 DEF BusyIn
<1>5. \A j \in Slots \ {i} : slots[j].buffer # c
  BY <1>1, <1>2, <1>4 DEF SurfaceInv, Apart, Slots
<1>6. \A j \in Slots \ {i} : slots'[j] = slots[j]
  BY <1>1, <1>5 DEF Freed
<1>7. slots'[i].buffer = slots[i].buffer /\ ~slots'[i].busy
  <2>1. slots[i] \in Slot /\ slots'[i] = [slots[i] EXCEPT !.busy = FALSE]
    BY <1>1, <1>4 DEF Freed
  <2> QED BY <2>1 DEF Slot
<1>8. BusyOwner[i] = "compositor"
  BY <1>2, <1>4 DEF BusyOwner
<1>9. BusyOwner' = [BusyOwner EXCEPT ![i] = "client"]
  BY <1>4, <1>6, <1>7 DEF BusyOwner
<1>10. BufferOf' = BufferOf
  BY <1>6, <1>7 DEF BufferOf
<1> QED BY <1>8, <1>9, <1>10

(* The wl_buffers of every program follow the ownership rule: no step paints into,
   replaces or destroys one that the compositor has, or takes one back from it. *)
THEOREM OwnershipRefinement == Spec => ImplementsOwnership
<1>1. Init => Ownership!Init
  <2> SUFFICES ASSUME Init PROVE Ownership!Init
    OBVIOUS
  <2>1. slots = [i \in Slots |-> EmptySlot]
    BY DEF Init, SurfaceInit, PoolInit
  <2> QED BY <2>1 DEF Ownership!Init, EmptySlot
<1>2. IInv /\ IInv' /\ [Next]_vars => [Ownership!Next]_Ownership!vars
  <2> SUFFICES ASSUME IInv, IInv', [Next]_vars
               PROVE  Ownership!Next \/ UNCHANGED Ownership!vars
    BY DEF Ownership!vars
  <2>1. OwnerOf = BusyOwner /\ OwnerOf' = BusyOwner'
    BY OwnerIsBusy, OwnerIsBusyNext DEF IInv
  <2>2. CASE slots' = slots
    <3>1. OwnerOf' = OwnerOf /\ BufferOf' = BufferOf
      BY <2>1, <2>2 DEF BusyOwner, BufferOf
    <3> QED BY <3>1 DEF Ownership!vars, OwnerOf, BufferOf
  <2>3. CASE \E sf \in Surfaces : \E r \in surface_render(sf) : slots' = r.slots
    <3>1. CASE \E i \in Slots :
                 /\ BusyOwner[i] = "client"
                 /\ \E b \in Buffers : /\ \A j \in Slots \ {i} : BufferOf[j] # b
                                       /\ BufferOf' = [BufferOf EXCEPT ![i] = b]
                 /\ BusyOwner' = [BusyOwner EXCEPT ![i] = "compositor"]
      <4>1. PICK i \in Slots : Ownership!Submit(i)
        BY <2>1, <3>1 DEF Ownership!Submit, OwnerOf, BufferOf
      <4> QED BY <4>1 DEF Ownership!Next
    <3>2. CASE \E i \in Slots :
                 /\ BusyOwner[i] = "client"
                 /\ BufferOf' = [BufferOf EXCEPT ![i] = NULL]
                 /\ BusyOwner' = BusyOwner
      <4>1. PICK i \in Slots : Ownership!Discard(i)
        BY <2>1, <3>2 DEF Ownership!Discard, OwnerOf, BufferOf
      <4> QED BY <4>1 DEF Ownership!Next
    <3> QED BY <2>2, <2>3, <3>1, <3>2, RenderOwns DEF IInv
  <2>4. CASE buffer_handle_release
    <3>1. PICK i \in Slots : /\ BusyOwner[i] = "compositor"
                             /\ BusyOwner' = [BusyOwner EXCEPT ![i] = "client"]
                             /\ BufferOf' = BufferOf
      BY <2>4, ReleaseReturns DEF IInv
    <3>2. Ownership!Return(i)
      BY <2>1, <3>1 DEF Ownership!Return, OwnerOf, BufferOf
    <3> QED BY <3>2 DEF Ownership!Next
  <2> QED BY <2>2, <2>3, <2>4, SlotsStep
<1> QED BY <1>1, <1>2, Invariant, PTL DEF Spec, ImplementsOwnership, Ownership!Spec

-------------------------------------------------------------------------------
(* The bytes a frame may have, and the serial it may answer. *)
Fits == {p \in Int \X (1 .. serial) :
           \E due \in Due(wanted[p[2]]) : p[1] = Bytes(due[1], due[2])}

(* The surface has a size due for the configure whose size is stored. *)
SizeDue == <<surface.width, surface.height>> \in Due(wanted[Stored])

FitInv ==
  program \in Obedient =>
    /\ SizeDue
    /\ Fitting(requests, acked, shown, Fits)
    /\ program = "damage-paint" /\ live => Handled > 0

(* The inductive invariant of the answers: wherever a frame is, it is in the order
   of the configures and has the bytes due for the one it will answer. *)
AnswerInv ==
  /\ ConfigureInv
  /\ AnswerOrder
  /\ Handled > 0 /\ Handled \notin skipped => Answered(requests, acked, shown, Handled)
  /\ FitInv

(* What was due for a serial stays due. *)
LEMMA FitsMore ==
  ASSUME SurfaceInv, serial' \in Nat, serial <= serial', program' = program,
         \A s \in 0 .. serial : wanted'[s] = wanted[s]
  PROVE  Fits \subseteq Fits'
<1> SUFFICES ASSUME NEW p \in Fits PROVE p \in Fits'
  OBVIOUS
<1>1. serial \in Nat
  BY SurfaceAssumption DEF SurfaceInv, SurfaceType
<1>2. PICK due \in Due(wanted[p[2]]) : p[1] = Bytes(due[1], due[2])
  BY DEF Fits
<1>3. /\ p \in Int \X (1 .. serial')
      /\ p[2] \in 0 .. serial
  BY <1>1 DEF Fits
<1>4. Due(wanted[p[2]])' = Due(wanted[p[2]])
  <2>1. wanted'[p[2]] = wanted[p[2]]
    BY <1>3
  <2> QED BY <2>1 DEF Due
<1> QED BY <1>2, <1>3, <1>4 DEF Fits, Bytes, Stride

(* A frame of the surface's size fits the configure whose size is stored. *)
LEMMA SurfaceFits ==
  ASSUME SurfaceInv, SizeDue, Stored \in 1 .. serial, NEW m \in Commits,
         Bytes(m.width, m.height) = Bytes(surface.width, surface.height)
  PROVE  <<Bytes(m.width, m.height), Stored>> \in Fits
<1>1. Bytes(m.width, m.height) \in Int
  BY DEF Commits, Bytes, Stride
<1>2. PICK due \in Due(wanted[Stored]) : due = <<surface.width, surface.height>>
  BY DEF SizeDue
<1>3. Bytes(m.width, m.height) = Bytes(due[1], due[2])
  BY <1>2
<1> QED BY <1>1, <1>2, <1>3 DEF Fits

(* toplevel_configure stores the size of the configure that follows. *)
LEMMA ToplevelDue ==
  ASSUME IInv, SizeDue, program \in Obedient, ConfigureInv,
         xdg_toplevel_handle_configure, UNCHANGED program
  PROVE  SizeDue'
<1>1. /\ events # <<>> /\ Head(events).type = "toplevel_configure"
      /\ events' = Tail(events)
      /\ surface' = IF OwnChoice(Head(events)) THEN surface
                    ELSE Sized(surface, Taken(Head(events)))
      /\ UNCHANGED <<slots, requests, compositorVars, skipped, programVars>>
  BY DEF xdg_toplevel_handle_configure, Receive
<1>2. /\ serial' = serial /\ wanted' = wanted /\ SurfaceInv
  BY <1>1 DEF compositorVars, IInv
<1>3. /\ Stored = Handled /\ Stored' = Handled + 1
      /\ wanted[Handled + 1] = InEffect(Head(events), wanted[Handled])
  BY <1>1, <1>2, ConfigureNext
<1> DEFINE e == Head(events)
           z == wanted[Handled]
<1>4. surface \in Surfaces
  BY <1>2 DEF SurfaceInv, SurfaceType
<1>5. <<surface.width, surface.height>> \in Due(z)
  BY <1>3 DEF SizeDue
<1>6. wanted'[Stored'] = InEffect(e, z)
  BY <1>2, <1>3
<1> HIDE DEF e, z
<1>7. CASE OwnChoice(e)
  <2>1. surface' = surface /\ InEffect(e, z) = z
    BY <1>1, <1>7 DEF OwnChoice, InEffect, e
  <2> QED BY <1>5, <1>6, <2>1 DEF SizeDue, Due
<1>8. CASE ~OwnChoice(e)
  <2>1. /\ surface' = Sized(surface, Taken(e)) /\ InEffect(e, z) = <<e.width, e.height>>
    BY <1>1, <1>8 DEF OwnChoice, InEffect, e
  <2>2. surface'.width = Taken(e).width /\ surface'.height = Taken(e).height
    BY <1>4, <2>1 DEF Sized, Surfaces
  <2>3. program # "attach-delta-loop" /\ program # "resize-loop"
    BY DEF Obedient, Loops
  <2>4. wanted'[Stored'] = <<e.width, e.height>>
    BY <1>6, <2>1
  <2>5. CASE program = "disobey-resize"
    <3>1. Taken(e) = [width |-> disobeyed(e.width), height |-> disobeyed(e.height)]
      BY <2>5 DEF Taken
    <3>2. <<disobeyed(e.width), disobeyed(e.height)>> \in Due(<<e.width, e.height>>)
      BY <2>5 DEF Due
    <3> QED BY <2>2, <2>4, <2>5, <3>1, <3>2 DEF SizeDue, Due
  <2>6. CASE program # "disobey-resize"
    <3>1. Taken(e) = [width |-> e.width, height |-> e.height]
      BY <2>3, <2>6 DEF Taken
    <3> QED BY <2>2, <2>4, <2>6, <3>1 DEF SizeDue, Due
  <2> QED BY <2>5, <2>6
<1> QED BY <1>7, <1>8

(* Between two answers. *)
LEMMA AnswersKept ==
  ASSUME SurfaceInv, AnswerInv, ConfigureInv', Handled' = Handled,
         UNCHANGED <<serial, wanted, acked, shown, skipped, program>>,
         NEW t \in Seq(Requests), \A j \in DOMAIN t : t[j] \notin Acks, Send(t),
         program \in Obedient =>
           /\ SizeDue'
           /\ \A j \in DOMAIN t : (t[j] \in Commits /\ t[j].buffer # NULL) =>
                <<Bytes(t[j].width, t[j].height), Handled>> \in Fits
           /\ (program = "damage-paint" /\ live' => Handled > 0)
  PROVE  AnswerInv'
<1>1. PICK G : G = Fits
  OBVIOUS
<1>2. AnswerOrder /\ acked' = acked /\ shown' = shown
  BY DEF AnswerInv
<1>3. /\ AnswerOrder'
      /\ Answered(requests, acked, shown, Handled) =>
           Answered(requests', acked', shown', Handled')
      /\ (/\ Fitting(requests, acked, shown, G)
          /\ \A j \in DOMAIN t : (t[j] \in Commits /\ t[j].buffer # NULL) =>
               <<Bytes(t[j].width, t[j].height), Handled>> \in G)
         => Fitting(requests', acked', shown', G)
  BY <1>2, OrderOn
<1>4. Fits' = Fits
  BY DEF Fits, Due
<1>5. FitInv'
  <2>1. Fits' = G
    BY <1>1, <1>4
  <2> SUFFICES ASSUME program \in Obedient
               PROVE  /\ Fitting(requests', acked', shown', Fits')
                      /\ (program = "damage-paint" /\ live') => Handled' > 0
    BY DEF FitInv
  <2> QED BY <1>1, <1>3, <2>1 DEF AnswerInv, FitInv
<1>6. Handled' > 0 /\ Handled' \notin skipped' =>
        Answered(requests', acked', shown', Handled')
  <2>1. Handled > 0 /\ Handled \notin skipped => Answered(requests, acked, shown, Handled)
    BY DEF AnswerInv
  <2> QED BY <1>3, <2>1
<1> QED BY <1>3, <1>5, <1>6 DEF AnswerInv

(* Sending nothing is a case of that. *)
LEMMA QuietKept ==
  ASSUME SurfaceInv, AnswerInv, ConfigureInv', Handled' = Handled,
         UNCHANGED <<requests, serial, wanted, acked, shown, skipped, program>>,
         program \in Obedient =>
           SizeDue' /\ (program = "damage-paint" /\ live' => live)
  PROVE  AnswerInv'
<1>1. Send(<<>>) /\ <<>> \in Seq(Requests)
  BY DEF Send, SurfaceInv, SurfaceType
<1>2. program \in Obedient => (program = "damage-paint" /\ live' => Handled > 0)
  BY DEF AnswerInv, FitInv
<1> DEFINE t == <<>>
<1>3. /\ t \in Seq(Requests) /\ Send(t)
      /\ DOMAIN t = {}
  BY <1>1
<1> HIDE DEF t
<1> QED BY <1>2, <1>3, AnswersKept

(* toplevel_configure, a release and a dropped callback send nothing. *)
LEMMA QuietAnswers ==
  ASSUME IInv, AnswerInv,
         xdg_toplevel_handle_configure \/ buffer_handle_release \/ drop_done,
         UNCHANGED <<skipped, program, live>>
  PROVE  AnswerInv'
<1>1. SurfaceInv /\ ConfigureInv
  BY DEF IInv, AnswerInv
<1>2. CASE xdg_toplevel_handle_configure
  <2>1. /\ events # <<>> /\ Head(events).type = "toplevel_configure"
        /\ events' = Tail(events)
        /\ UNCHANGED <<requests, compositorVars>>
    BY <1>2 DEF xdg_toplevel_handle_configure, Receive
  <2>2. UNCHANGED <<serial, wanted, acked, shown>>
    BY <2>1 DEF compositorVars
  <2>3. ConfigureInv' /\ Handled' = Handled
    BY <1>1, <2>1, <2>2, ConfigureNext
  <2>4. program \in Obedient => SizeDue'
    BY <1>1, <1>2, ToplevelDue DEF AnswerInv, FitInv
  <2> QED BY <1>1, <2>1, <2>2, <2>3, <2>4, QuietKept
<1>3. CASE buffer_handle_release \/ drop_done
  <2>1. /\ events # <<>> /\ Head(events).type \in {"release", "done"}
        /\ events' = Tail(events)
        /\ UNCHANGED <<surface, requests, compositorVars>>
    BY <1>3 DEF buffer_handle_release, drop_done, Receive
  <2>2. UNCHANGED <<serial, wanted, acked, shown>>
    BY <2>1 DEF compositorVars
  <2>3. ConfigureInv' /\ Handled' = Handled /\ Stored' = Stored
    BY <1>1, <2>1, <2>2, ConfigureNext
  <2>4. program \in Obedient => SizeDue'
    BY <2>1, <2>2, <2>3 DEF AnswerInv, FitInv, SizeDue, Due
  <2> QED BY <1>1, <2>1, <2>2, <2>3, <2>4, QuietKept
<1> QED BY <1>2, <1>3

(* An answer to a configure event, r being what was drawn and t what is sent of it. *)
LEMMA AnswerGiven ==
  ASSUME IInv, AnswerInv, NEW t \in Seq(Requests), \A j \in DOMAIN t : t[j] \in Commits,
         \A j \in DOMAIN t :
           Bytes(t[j].width, t[j].height) = Bytes(surface.width, surface.height),
         Receive("configure", 2), Send(Answer(Head(events).serial, t)),
         surface'.width = surface.width, surface'.height = surface.height,
         skipped' = skipped \cup {s \in {Head(events).serial} : t = <<>>},
         UNCHANGED <<compositorVars, program>>
  PROVE  AnswerInv'
<1>1. /\ events # <<>> /\ Head(events).type = "configure" /\ events' = Tail(events)
      /\ UNCHANGED <<serial, wanted, acked, shown>>
      /\ SurfaceInv /\ ConfigureInv /\ AnswerOrder
  BY DEF Receive, compositorVars, IInv, AnswerInv
<1>2. /\ ConfigureInv' /\ Handled \in 0 .. serial
      /\ Head(events).serial = Handled + 1
      /\ Handled' = Handled + 1 /\ Stored = Handled + 1 /\ Stored' = Handled + 1
  BY <1>1, ConfigureNext
<1>3. Handled' \in 0 .. serial'
  BY <1>2 DEF ConfigureInv, Configuring
<1>4. PICK n : n = Head(events).serial
  OBVIOUS
<1>5. PICK G : G = Fits
  OBVIOUS
<1>6. n = Handled + 1 /\ Handled' = n /\ Send(Answer(n, t)) /\ Stored = n /\ Stored' = n
  BY <1>2, <1>4
<1>7. \A j \in DOMAIN t : t[j] \notin Acks
  BY DEF Acks, Commits
<1>8. /\ AnswerOrder'
      /\ (\E j \in DOMAIN t : t[j] \in Commits) =>
           Answered(requests', acked', shown', n)
      /\ (/\ Fitting(requests, acked, shown, G)
          /\ \A j \in DOMAIN t : (t[j] \in Commits /\ t[j].buffer # NULL) =>
               <<Bytes(t[j].width, t[j].height), n>> \in G)
         => Fitting(requests', acked', shown', G)
  BY <1>1, <1>6, <1>7, OrderAnswered
<1>9. n \in 1 .. serial
  BY <1>1, <1>2, <1>3, <1>6
<1>10. Handled' > 0 /\ Handled' \notin skipped' =>
         Answered(requests', acked', shown', Handled')
  <2> SUFFICES ASSUME n \notin skipped' PROVE Answered(requests', acked', shown', n)
    BY <1>6
  <2>1. t # <<>>
    BY <1>4
  <2>2. 1 \in DOMAIN t
    BY <2>1
  <2> QED BY <1>8, <2>2
<1>11. FitInv'
  <2> SUFFICES ASSUME program \in Obedient
               PROVE  /\ SizeDue' /\ Fitting(requests', acked', shown', Fits')
                      /\ Handled' > 0
    BY DEF FitInv
  <2>1. SizeDue /\ Fitting(requests, acked, shown, G)
    BY <1>5 DEF AnswerInv, FitInv
  <2>2. Fits' = G
    BY <1>1, <1>5 DEF Fits, Due
  <2>3. \A j \in DOMAIN t : <<Bytes(t[j].width, t[j].height), n>> \in G
    BY <1>1, <1>5, <1>6, <1>9, <2>1, SurfaceFits
  <2>4. SizeDue'
    BY <1>1, <1>6, <2>1 DEF SizeDue, Due
  <2> QED BY <1>6, <1>8, <1>9, <2>1, <2>2, <2>3, <2>4
<1> QED BY <1>2, <1>8, <1>10, <1>11 DEF AnswerInv

(* What surface_render sends are commits of the surface's bytes. *)
LEMMA RenderCommits ==
  ASSUME SurfaceInv, NEW sf \in Surfaces, NEW r \in surface_render(sf)
  PROVE  \A j \in DOMAIN r.sent :
           /\ r.sent[j] \in Commits
           /\ Bytes(r.sent[j].width, r.sent[j].height) = Bytes(sf.width, sf.height)
<1>1. CASE r.sent = <<>>
  BY <1>1
<1>2. CASE r.sent # <<>>
  <2>1. PICK m \in Commits : /\ r.sent = <<m>>
                             /\ Bytes(m.width, m.height) = Bytes(sf.width, sf.height)
    BY <1>2, RenderShape
  <2> QED BY <2>1
<1> QED BY <1>1, <1>2

(* The same for damage-paint. *)
LEMMA DamageCommits ==
  ASSUME SurfaceInv, NEW r \in damage_render
  PROVE  /\ r.sent \in Seq(Requests)
         /\ r.surface.width = surface.width /\ r.surface.height = surface.height
         /\ \A j \in DOMAIN r.sent :
              /\ r.sent[j] \in Commits
              /\ Bytes(r.sent[j].width, r.sent[j].height) =
                   Bytes(surface.width, surface.height)
<1>1. surface \in Surfaces
  BY DEF SurfaceInv, SurfaceType
<1>2. PICK q \in surface_render(surface) : r = WithCallback(q)
  BY DEF damage_render
<1>3. /\ q = [slots |-> q.slots, surface |-> q.surface, sent |-> q.sent]
      /\ q.surface.width = surface.width /\ q.surface.height = surface.height
  BY <1>1, RenderShape
<1>4. r.surface = q.surface /\ r.sent = [k \in DOMAIN q.sent |-> [q.sent[k] EXCEPT !.frame = TRUE]]
  BY <1>2, <1>3 DEF WithCallback
<1>5. r.sent \in Seq(Requests)
  <2>1. PICK c \in surface_render(surface), t \in Seq(Requests) :
          r = [slots |-> c.slots, surface |-> c.surface, sent |-> t]
    BY DamageSent
  <2> QED BY <2>1
<1>6. ASSUME NEW j \in DOMAIN r.sent
      PROVE  /\ r.sent[j] \in Commits
             /\ Bytes(r.sent[j].width, r.sent[j].height) =
                  Bytes(surface.width, surface.height)
  <2>1. j \in DOMAIN q.sent /\ r.sent[j] = [q.sent[j] EXCEPT !.frame = TRUE]
    BY <1>4
  <2>2. /\ q.sent[j] \in Commits
        /\ Bytes(q.sent[j].width, q.sent[j].height) = Bytes(surface.width, surface.height)
    BY <1>1, <2>1, RenderCommits
  <2>3. /\ [q.sent[j] EXCEPT !.frame = TRUE] \in Commits
        /\ [q.sent[j] EXCEPT !.frame = TRUE].width = q.sent[j].width
        /\ [q.sent[j] EXCEPT !.frame = TRUE].height = q.sent[j].height
    BY <2>2 DEF Commits
  <2> QED BY <2>1, <2>2, <2>3
<1> QED BY <1>3, <1>4, <1>5, <1>6

(* The handlers of configure events. *)
LEMMA ConfigureAnswers ==
  ASSUME IInv, AnswerInv, UNCHANGED program,
         \/ handle_configure
         \/ unmap_handle_configure
         \/ damage_xdg_surface_handle_configure
  PROVE  AnswerInv'
<1>1. SurfaceInv /\ surface \in Surfaces
  BY DEF IInv, SurfaceInv, SurfaceType
<1>2. CASE handle_configure \/ unmap_handle_configure
  <2>1. /\ Receive("configure", 2)
        /\ \E r \in surface_render(surface) : AnswerWith(r)
    BY <1>2
    DEF handle_configure, unmap_handle_configure, default_xdg_surface_handle_configure
  <2>2. PICK r \in surface_render(surface) : AnswerWith(r)
    BY <2>1
  <2>3. /\ Send(Answer(Head(events).serial, r.sent))
        /\ surface' = r.surface
        /\ skipped' = skipped \cup {s \in {Head(events).serial} : r.sent = <<>>}
        /\ UNCHANGED compositorVars
    BY <2>2 DEF AnswerWith
  <2>4. /\ r.sent \in Seq(Requests)
        /\ r.surface.width = surface.width /\ r.surface.height = surface.height
    BY <1>1, RenderShape
  <2>5. \A j \in DOMAIN r.sent :
          /\ r.sent[j] \in Commits
          /\ Bytes(r.sent[j].width, r.sent[j].height) = Bytes(surface.width, surface.height)
    BY <1>1, RenderCommits
  <2> QED BY <2>1, <2>3, <2>4, <2>5, AnswerGiven
<1>3. CASE damage_xdg_surface_handle_configure
  <2>1. Receive("configure", 2)
    BY <1>3 DEF damage_xdg_surface_handle_configure
  <2>2. PICK r \in damage_render : AnswerWith(r)
    BY <1>3 DEF damage_xdg_surface_handle_configure
  <2>3. /\ Send(Answer(Head(events).serial, r.sent))
        /\ surface' = r.surface
        /\ skipped' = skipped \cup {s \in {Head(events).serial} : r.sent = <<>>}
        /\ UNCHANGED compositorVars
    BY <2>2 DEF AnswerWith
  <2>4. /\ r.sent \in Seq(Requests)
        /\ r.surface.width = surface.width /\ r.surface.height = surface.height
        /\ \A j \in DOMAIN r.sent : r.sent[j] \in Commits
        /\ \A j \in DOMAIN r.sent :
             Bytes(r.sent[j].width, r.sent[j].height) = Bytes(surface.width, surface.height)
    BY <1>1, DamageCommits
  <2> QED BY <2>1, <2>3, <2>4, AnswerGiven
<1> QED BY <1>2, <1>3

(* A frame callback that fires leaves the configures as they are. *)
LEMMA DoneConfigures ==
  ASSUME IInv, AnswerInv, NEW n, Receive("done", n), UNCHANGED compositorVars
  PROVE  /\ ConfigureInv' /\ Handled' = Handled /\ Stored = Handled /\ Stored' = Handled
         /\ Handled \in 0 .. serial
         /\ UNCHANGED <<serial, wanted, acked, shown>>
<1>1. /\ SurfaceInv /\ ConfigureInv /\ events # <<>> /\ events' = Tail(events)
      /\ Head(events).type = "done" /\ UNCHANGED <<serial, wanted, acked, shown>>
  BY DEF Receive, compositorVars, IInv, AnswerInv
<1> QED BY <1>1, ConfigureNext

(* damage-paint waits for a callback only after its first answer, so that the
   frame it draws answers the last configure. *)
LEMMA CallRenderAnswers ==
  ASSUME IInv, AnswerInv, call_render, UNCHANGED program
  PROVE  AnswerInv'
<1>1. /\ Receive("done", 1) /\ program = "damage-paint" /\ dead = 0
      /\ UNCHANGED <<compositorVars, skipped>>
  BY DEF call_render
<1>2. PICK r \in damage_render : surface' = r.surface /\ Send(r.sent)
  BY DEF call_render
<1>3. /\ ConfigureInv' /\ Handled' = Handled /\ Stored = Handled /\ Stored' = Handled
      /\ Handled \in 0 .. serial
      /\ UNCHANGED <<serial, wanted, acked, shown>>
  BY <1>1, DoneConfigures
<1>4. SurfaceInv /\ live \in BOOLEAN /\ Owing = dead + (IF live THEN 1 ELSE 0)
  BY DEF IInv, ProgramType
<1>5. live
  <2>1. Owing > 0
    <3>1. /\ events # <<>> /\ Head(events) \in Dones /\ events \in Seq(Events)
      <4>1. events \in Seq(Events) /\ events # <<>> /\ Head(events).type = "done"
        BY <1>1, <1>4 DEF Receive, SurfaceInv, SurfaceType
      <4> QED BY <4>1, CountTail, EventTypes
    <3>2. Count(events, Dones) = 1 + Count(Tail(events), Dones)
      BY <3>1, CountTail DEF One
    <3>3. Tail(events) \in Seq(Events)
      BY <3>1
    <3>4. Count(Tail(events), Dones) \in Nat
      BY <3>3, CountFinite
    <3>5. Count(requests, Asking) \in Nat /\ frames \in Nat
      BY <1>4, CountFinite DEF SurfaceInv, SurfaceType
    <3> QED BY <3>2, <3>4, <3>5 DEF Owing
  <2> QED BY <1>1, <1>4, <2>1
<1>6. program \in Obedient
  BY <1>1 DEF Obedient, AllPrograms, Loops
<1>7. Handled > 0 /\ SizeDue
  BY <1>1, <1>5, <1>6 DEF AnswerInv, FitInv
<1>8. /\ r.sent \in Seq(Requests)
      /\ r.surface.width = surface.width /\ r.surface.height = surface.height
      /\ \A j \in DOMAIN r.sent :
           /\ r.sent[j] \in Commits
           /\ Bytes(r.sent[j].width, r.sent[j].height) =
                Bytes(surface.width, surface.height)
  BY <1>4, DamageCommits
<1>9. Handled \in 1 .. serial
  BY <1>3, <1>7
<1>10. \A j \in DOMAIN r.sent :
         <<Bytes(r.sent[j].width, r.sent[j].height), Handled>> \in Fits
  <2>1. Stored \in 1 .. serial
    BY <1>3, <1>9
  <2> QED BY <1>3, <1>4, <1>7, <1>8, <2>1, SurfaceFits
<1>11. SizeDue'
  BY <1>2, <1>3, <1>7, <1>8 DEF SizeDue, Due
<1>12. \A j \in DOMAIN r.sent : r.sent[j] \notin Acks
  BY <1>8 DEF Acks, Commits
<1> QED BY <1>1, <1>2, <1>3, <1>4, <1>7, <1>8, <1>10, <1>11, <1>12, AnswersKept

(* The callbacks of the chained programs. *)
LEMMA CallbackAnswers ==
  ASSUME IInv, AnswerInv, UNCHANGED program,
         frame_callback_done \/ attach_delta_done \/ resize_loop_done
  PROVE  AnswerInv'
<1> DEFINE m == request_frame_callback
<1>1. SurfaceInv /\ surface \in Surfaces /\ size \in Int
  BY DEF IInv, SurfaceInv, SurfaceType, ProgramType
<1>2. m \in Requests /\ m \notin Acks /\ m \notin Commits
  BY DEF request_frame_callback, Requests, Empties, Acks, Commits
<1> HIDE DEF m
<1>3. CASE frame_callback_done
  <2>1. /\ Receive("done", 1) /\ program = "frame-callback" /\ Send(<<m>>)
        /\ UNCHANGED <<compositorVars, surface, skipped>>
    BY <1>3 DEF frame_callback_done, NextCallback, m
  <2>2. /\ ConfigureInv' /\ Handled' = Handled /\ Stored = Handled /\ Stored' = Handled
        /\ UNCHANGED <<serial, wanted, acked, shown>>
    BY <2>1, DoneConfigures
  <2> DEFINE t == <<m>>
  <2>3. /\ t \in Seq(Requests) /\ Send(t)
        /\ \A j \in DOMAIN t : t[j] \notin Acks /\ t[j] \notin Commits
    BY <1>2, <2>1
  <2> HIDE DEF t
  <2>4. program \in Obedient => SizeDue'
    BY <2>1, <2>2 DEF AnswerInv, FitInv, SizeDue, Due
  <2> QED BY <1>1, <2>1, <2>2, <2>3, <2>4, AnswersKept
<1>4. CASE attach_delta_done \/ resize_loop_done
  <2>1. /\ Receive("done", 2) /\ program \in Loops
        /\ UNCHANGED <<compositorVars, skipped>>
    BY <1>4 DEF attach_delta_done, resize_loop_done, Loops
  <2>2. PICK sf \in Surfaces : RenderOn(sf)
    <3>1. CASE attach_delta_done
      <4>1. [surface EXCEPT !.attach = 1] \in Surfaces
        BY <1>1 DEF Surfaces
      <4> QED BY <3>1, <4>1 DEF attach_delta_done
    <3>2. CASE resize_loop_done
      <4>1. Absolute(size) \in Nat
        BY <1>1 DEF Absolute
      <4>2. Sized(surface, Square(Absolute(size))) \in Surfaces
        <5> HIDE DEF Absolute
        <5> QED BY <1>1, <4>1 DEF Square, Sized, Surfaces
      <4> QED BY <3>2, <4>2 DEF resize_loop_done
    <3> QED BY <1>4, <3>1, <3>2
  <2>3. PICK r \in surface_render(sf) : Send(r.sent \o <<m>>)
    BY <2>2 DEF RenderOn, NextCallback, m
  <2>4. r.sent \in Seq(Requests)
    BY <1>1, RenderShape
  <2>5. \A j \in DOMAIN r.sent : r.sent[j] \in Commits
    BY <1>1, RenderCommits
  <2> DEFINE t == r.sent \o <<m>>
  <2>6. /\ t \in Seq(Requests)
        /\ \A j \in DOMAIN t : t[j] = m \/ (j \in DOMAIN r.sent /\ t[j] = r.sent[j])
    BY <1>2, <2>4
  <2> HIDE DEF t
  <2>7. \A j \in DOMAIN t : t[j] \notin Acks
    BY <1>2, <2>5, <2>6 DEF Acks, Commits
  <2>8. /\ ConfigureInv' /\ Handled' = Handled
        /\ UNCHANGED <<serial, wanted, acked, shown>>
    BY <2>1, DoneConfigures
  <2>9. program \notin Obedient
    BY <2>1 DEF Obedient
  <2>10. Send(t)
    BY <2>3 DEF t
  <2> QED BY <1>1, <2>1, <2>6, <2>7, <2>8, <2>9, <2>10, AnswersKept
<1> QED BY <1>3, <1>4

(* An unmapping shows nothing. *)
LEMMA UnmapAnswers ==
  ASSUME IInv, AnswerInv, unmap, UNCHANGED program
  PROVE  AnswerInv'
<1> DEFINE m == CommitOf(EmptySlot, [surface EXCEPT !.attach = 0])
<1>1. /\ SurfaceInv /\ surface \in Surfaces
      /\ Send(<<m>>)
      /\ UNCHANGED <<surface, events, compositorVars, skipped, live>>
  BY DEF IInv, SurfaceInv, SurfaceType, unmap
<1>2. m \in Commits /\ m.buffer = NULL /\ m \in Requests /\ m \notin Acks
  BY <1>1 DEF CommitOf, EmptySlot, Commits, Surfaces, Requests, Acks
<1> HIDE DEF m
<1>3. UNCHANGED <<events, surface, serial, wanted, acked, shown>>
  BY <1>1 DEF compositorVars
<1>4. ConfigureInv' /\ Handled' = Handled /\ Stored' = Stored
  BY <1>3 DEF AnswerInv, ConfigureInv, Handled, Stored
<1> DEFINE t == <<m>>
<1>5. /\ t \in Seq(Requests) /\ Send(t)
      /\ \A j \in DOMAIN t : t[j] \notin Acks /\ t[j].buffer = NULL
  BY <1>1, <1>2
<1> HIDE DEF t
<1>6. program \in Obedient => SizeDue' /\ (program = "damage-paint" /\ live' => Handled > 0)
  BY <1>1, <1>3, <1>4 DEF AnswerInv, FitInv, SizeDue, Due
<1> QED BY <1>1, <1>3, <1>4, <1>5, <1>6, AnswersKept

(* The compositor reads and sends. *)
LEMMA CompositorAnswers ==
  ASSUME IInv, AnswerInv, Compositor
  PROVE  AnswerInv'
<1>1. /\ SurfaceInv /\ ConfigureInv /\ AnswerOrder
      /\ UNCHANGED <<skipped, program, live>>
  BY DEF IInv, AnswerInv, Compositor, ClientIdle, programVars
<1>2. /\ ConfigureInv' /\ Handled' = Handled /\ Stored' = Stored
      /\ serial' \in Nat /\ serial <= serial'
      /\ \A s \in 0 .. serial : wanted'[s] = wanted[s]
  BY <1>1, ConfigureKept DEF Compositor
<1>3. Fits \subseteq Fits'
  BY <1>1, <1>2, FitsMore
<1>4. Handled \in 0 .. serial /\ Handled' \in 0 .. serial' /\ serial \in Nat
  BY <1>1, <1>2, SurfaceAssumption
  DEF ConfigureInv, Configuring, SurfaceInv, SurfaceType
<1>5. Stored \in 0 .. serial
  <2>1. CASE events # <<>> /\ Head(events) \in Configures
    <3>1. events \in Seq(Events)
      BY <1>1 DEF SurfaceInv, SurfaceType
    <3>2. 1 \in DOMAIN events /\ events[1] \in Configures
      BY <2>1, <3>1
    <3>3. events[1].serial \in Handled + 1 .. serial
      BY <1>1, <3>2 DEF ConfigureInv, Configuring
    <3> QED BY <1>4, <2>1, <3>3 DEF Stored
  <2>2. CASE ~(events # <<>> /\ Head(events) \in Configures)
    BY <1>4, <2>2 DEF Stored
  <2> QED BY <2>1, <2>2
<1>6. surface' = surface
  BY DEF Compositor, CompositorReads, ReceiveAck, ReceiveEmpty, ReceiveCommit,
         CompositorReceive, Release, SendConfigure, SendDone, clientVars
<1>7. program \in Obedient => SizeDue'
  BY <1>1, <1>2, <1>5, <1>6 DEF AnswerInv, FitInv, SizeDue, Due
<1>8. PICK G : G = Fits
  OBVIOUS
<1>9. CASE CompositorReads
  <2>1. /\ requests \in Seq(Requests) /\ requests # <<>>
        /\ requests' = Tail(requests)
        /\ acked' = AckedBy(Head(requests), acked)
        /\ shown' = ShownBy(Head(requests), acked, shown)
    BY <1>1, <1>9, ShownRead
  <2>2. /\ AnswerOrder'
        /\ \A n \in Nat : (n = Handled /\ Answered(requests, acked, shown, n)) =>
             Answered(requests', acked', shown', n)
    BY <1>1, <1>9, OrderRead
  <2>3. Handled' > 0 /\ Handled' \notin skipped' =>
          Answered(requests', acked', shown', Handled')
    BY <1>1, <1>2, <1>4, <2>2 DEF AnswerInv
  <2>4. Fitting(requests, acked, shown, G) =>
          Fitting(Tail(requests), AckedBy(Head(requests), acked),
                  ShownBy(Head(requests), acked, shown), G)
    BY <2>1, AnswersTail
  <2>5. Fitting(requests, acked, shown, G) => Fitting(requests', acked', shown', G)
    BY <2>1, <2>4
  <2>6. FitInv'
    <3> SUFFICES ASSUME program \in Obedient
                 PROVE  /\ Fitting(requests', acked', shown', Fits')
                        /\ (program = "damage-paint" /\ live') => Handled' > 0
      BY <1>1, <1>7 DEF FitInv
    <3>1. Fitting(requests', acked', shown', G)
      BY <1>8, <2>5 DEF AnswerInv, FitInv
    <3>2. Fitting(requests', acked', shown', Fits')
      BY <1>3, <1>8, <3>1, FittingMore
    <3> QED BY <1>1, <1>2, <3>2 DEF AnswerInv, FitInv
  <2> QED BY <1>2, <2>2, <2>3, <2>6 DEF AnswerInv
<1>10. CASE \/ \E b \in held : Release(b)
            \/ \E z \in Sizes : SendConfigure(z[1], z[2])
            \/ SendDone
  <2>1. UNCHANGED <<requests, acked, shown>>
    BY <1>10 DEF Release, SendConfigure, SendDone
  <2>2. /\ AnswerOrder'
        /\ (Handled' > 0 /\ Handled' \notin skipped' =>
              Answered(requests', acked', shown', Handled'))
    BY <1>1, <1>2, <2>1 DEF AnswerInv, AnswerOrder
  <2>3. FitInv'
    <3> SUFFICES ASSUME program \in Obedient
                 PROVE  /\ Fitting(requests', acked', shown', Fits')
                        /\ (program = "damage-paint" /\ live') => Handled' > 0
      BY <1>1, <1>7 DEF FitInv
    <3>1. Fitting(requests', acked', shown', G)
      BY <1>8, <2>1 DEF AnswerInv, FitInv
    <3>2. Fitting(requests', acked', shown', Fits')
      BY <1>3, <1>8, <3>1, FittingMore
    <3> QED BY <1>1, <1>2, <3>2 DEF AnswerInv, FitInv
  <2> QED BY <1>2, <2>2, <2>3 DEF AnswerInv
<1> QED BY <1>9, <1>10 DEF Compositor

(* Every step keeps the answers in order. *)
LEMMA AnswersStep == IInv /\ AnswerInv /\ [Next]_vars => AnswerInv'
<1> SUFFICES ASSUME IInv, AnswerInv, [Next]_vars PROVE AnswerInv'
  OBVIOUS
<1>1. CASE Dispatch
  <2>1. UNCHANGED program
    BY <1>1 DEF Dispatch
  <2>2. CASE \/ xdg_toplevel_handle_configure
             \/ drop_done
             \/ buffer_handle_release /\ UNCHANGED <<skipped, programVars>>
    <3>1. UNCHANGED <<skipped, live>>
      BY <2>2 DEF xdg_toplevel_handle_configure, drop_done, programVars
    <3> QED BY <2>1, <2>2, <3>1, QuietAnswers
  <2>3. CASE \/ handle_configure \/ unmap_handle_configure
             \/ damage_xdg_surface_handle_configure
    BY <2>1, <2>3, ConfigureAnswers
  <2>4. CASE call_render
    BY <2>1, <2>4, CallRenderAnswers
  <2>5. CASE frame_callback_done \/ attach_delta_done \/ resize_loop_done
    BY <2>1, <2>5, CallbackAnswers
  <2> QED BY <1>1, <2>2, <2>3, <2>4, <2>5 DEF Dispatch
<1>2. CASE Expiry
  BY <1>2, UnmapAnswers DEF Expiry
<1>3. CASE Compositor
  BY <1>3, CompositorAnswers
<1>4. CASE UNCHANGED vars
  BY <1>4 DEF vars, surfaceVars, clientVars, compositorVars, programVars, AnswerInv,
     ConfigureInv, Handled, Stored, AnswerOrder, FitInv, SizeDue, Fits, Due
<1> QED BY <1>1, <1>2, <1>3, <1>4 DEF Next

(* They are at the start. *)
LEMMA AnswersStart == Init => AnswerInv
<1> SUFFICES ASSUME Init PROVE AnswerInv
  OBVIOUS
<1> DEFINE m == request_frame_callback
           e == [type |-> "empty", frame |-> FALSE]
           more == IF program \in Chained THEN <<m>> ELSE <<>>
<1>1. /\ SurfaceInit(more) /\ live = (program \in Chained)
  BY DEF Init
<1>2. /\ requests = <<e>> \o more /\ events = <<>> /\ serial = 0 /\ acked = 0
      /\ shown = Nothing /\ wanted = [s \in 0 .. MaxSerial |-> <<300, 400>>]
      /\ surface.width = 300 /\ surface.height = 400
  BY <1>1 DEF SurfaceInit
<1>3. e \notin Acks /\ e \notin Commits /\ m \notin Acks /\ m \notin Commits
  BY DEF request_frame_callback, Acks, Commits
<1> HIDE DEF m, e
<1>4. requests \in Seq({e, m})
  <2> DEFINE M == {e, m}
  <2>1. e \in M /\ m \in M
    OBVIOUS
  <2> HIDE DEF M
  <2>2. <<e>> \in Seq(M) /\ <<m>> \in Seq(M) /\ <<>> \in Seq(M)
    BY <2>1
  <2>3. more \in Seq(M)
    BY <2>2
  <2> HIDE DEF more
  <2>4. requests \in Seq(M)
    BY <1>2, <2>2, <2>3
  <2> QED BY <2>4 DEF M
<1>5. \A k \in DOMAIN requests : requests[k] \notin Acks /\ requests[k] \notin Commits
  BY <1>3, <1>4
<1>6. ConfigureInv /\ Handled = 0 /\ Stored = 0
  BY <1>2, ConfigureStarts
<1>7. AnswerOrder
  <2>1. Acknowledging(requests, acked, Handled)
    BY <1>2, <1>5, <1>6 DEF Acknowledging
  <2>2. LastAck(requests, acked, Handled)
    <3>1. \A k \in 1 .. Len(requests) : requests[k] \notin Acks
      BY <1>4, <1>5
    <3>2. (Len(requests) + 1) - 1 = Len(requests)
      BY <1>4
    <3> QED BY <1>2, <1>6, <3>1, <3>2 DEF LastAck, AckBefore
  <2>3. shown.serial <= acked
    BY <1>2 DEF Nothing
  <2> QED BY <2>1, <2>2, <2>3 DEF AnswerOrder
<1>8. FitInv
  <2>1. wanted[0] = <<300, 400>>
    BY <1>2, SurfaceAssumption
  <2>2. program \in Obedient => SizeDue
    BY <1>2, <1>6, <2>1 DEF SizeDue, Due
  <2>3. Fitting(requests, acked, shown, Fits)
    BY <1>2, <1>5 DEF Fitting, Nothing
  <2>4. program = "damage-paint" => ~live
    BY <1>1 DEF Chained
  <2> QED BY <2>2, <2>3, <2>4 DEF FitInv
<1> QED BY <1>6, <1>7, <1>8 DEF AnswerInv

(* The answers stay in order. *)
THEOREM AnswersInOrder == Spec => []AnswerInv
BY StartKeeps, StepKeeps, AnswersStart, AnswersStep, PTL DEF Spec

(* A frame on screen has the size due for the configure the client acknowledged
   before it, whatever the sizes asked for and however late it is shown. *)
THEOREM FramesAnswer == Spec => []FrameAnswersAck
<1>1. AnswerInv => FrameAnswersAck
  <2> SUFFICES ASSUME AnswerInv, shown.buffer # NULL, program \in Obedient
               PROVE  /\ shown.serial > 0
                      /\ \E due \in Due(wanted[shown.serial]) :
                           Bytes(shown.width, shown.height) = Bytes(due[1], due[2])
    BY DEF FrameAnswersAck
  <2>1. <<Bytes(shown.width, shown.height), shown.serial>> \in Fits
    BY DEF AnswerInv, FitInv, Fitting
  <2> DEFINE p == <<Bytes(shown.width, shown.height), shown.serial>>
  <2>2. p[1] = Bytes(shown.width, shown.height) /\ p[2] = shown.serial
    OBVIOUS
  <2> HIDE DEF p
  <2>3. p \in Int \X (1 .. serial) /\ \E due \in Due(wanted[p[2]]) : p[1] = Bytes(due[1], due[2])
    BY <2>1 DEF Fits, p
  <2> QED BY <2>2, <2>3
<1> QED BY <1>1, AnswersInOrder, PTL

(* The last configure is the one the screen shows in the end. *)
THEOREM LastShown == Spec => []LastConfigureShown
<1>1. IInv /\ AnswerInv => LastConfigureShown
  <2> SUFFICES ASSUME IInv, AnswerInv, Settled, serial \notin skipped
               PROVE  shown.serial = serial
    BY DEF LastConfigureShown
  <2>1. /\ events \in Seq(Events) /\ serial > 0 /\ requests = <<>> /\ serial \in Nat
        /\ \A k \in DOMAIN events : events[k].type = "release"
    BY SurfaceAssumption DEF IInv, SurfaceInv, SurfaceType, Settled
  <2>2. \A k \in DOMAIN events : events[k] \notin Configures
    BY <2>1 DEF Configures
  <2>3. Count(events, Configures) = 0
    BY <2>1, <2>2, CountZero
  <2>4. Handled = serial
    BY <2>1, <2>3 DEF Handled
  <2>5. Answered(requests, acked, shown, Handled)
    BY <2>1, <2>4 DEF AnswerInv
  <2> QED BY <2>1, <2>4, <2>5 DEF Answered
<1> QED BY <1>1, Invariant, AnswersInOrder, PTL

-------------------------------------------------------------------------------
(* damage-paint never asks for a surface without pixels, so a slot without a
   wl_buffer is one that was never filled or was emptied by a failure. *)
Cleared(sl) == \A i \in Slots : sl[i].buffer = NULL => sl[i] = EmptySlot

PaintInv == program = "damage-paint" =>
              Bytes(surface.width, surface.height) > 0 /\ Cleared(slots)

(* A size that is not zero has bytes. *)
LEMMA BytesPositive ==
  ASSUME NEW w \in Nat, NEW h \in Nat, w # 0, h # 0 PROVE Bytes(w, h) > 0
<1>1. w >= 1 /\ h >= 1
  OBVIOUS
<1>2. w * h >= 1
  BY <1>1, Z3
<1>3. (4 * w) * h = 4 * (w * h)
  BY Z3
<1>4. w * h \in Nat
  OBVIOUS
<1> DEFINE n == w * h
<1> HIDE DEF n
<1>5. 4 * n > 0
  BY <1>2, <1>4 DEF n
<1> QED BY <1>3, <1>5 DEF Bytes, Stride, n

(* A frame that could not be drawn found no slot free or left one empty. *)
LEMMA RenderClears ==
  ASSUME SurfaceInv, Cleared(slots), NEW sf \in Surfaces,
         Bytes(sf.width, sf.height) > 0, NEW r \in surface_render(sf)
  PROVE  /\ Cleared(r.slots)
         /\ r.sent = <<>> => FreeSlots = {} \/ \E i \in Slots : r.slots[i] = EmptySlot
<1>1. CASE FreeSlots = {}
  BY <1>1 DEF surface_render, Skipped
<1>2. CASE FreeSlots # {}
  <2>1. NextSlot \in Slots /\ slots \in [Slots -> Slot] /\ ~slots[NextSlot].busy
    BY <1>2 DEF FreeSlots, NextSlot, Slots, SurfaceInv, SurfaceType
  <2>2. PICK o \in get_next_buffer(slots[NextSlot], NewBuffer, sf.width, sf.height) :
          r = IF o.ok
                THEN [slots |-> [slots EXCEPT ![NextSlot] = Marked(o.slot)],
                      surface |-> [sf EXCEPT !.attach = 0],
                      sent |-> <<CommitOf(o.slot, sf)>>]
                ELSE Skipped([slots EXCEPT ![NextSlot] = o.slot], sf)
    BY <1>2 DEF surface_render
  <2>3. o.ok \in BOOLEAN /\ o.slot \in Slot /\ NewBuffer # NULL
    BY <2>1, <2>2, NextBuffer, NewIsNew, BufferPoolAssumption DEF Surfaces
  <2>4. /\ o.ok => o.slot.buffer # NULL
        /\ ~o.ok => o.slot = EmptySlot
    <3>1. \/ /\ o = [slot |-> slots[NextSlot], ok |-> TRUE]
             /\ slots[NextSlot].buffer # NULL
          \/ o = [slot |-> Created(NewBuffer, sf.width, sf.height), ok |-> TRUE]
          \/ /\ o = [slot |-> slots[NextSlot], ok |-> FALSE]
             /\ slots[NextSlot].buffer = NULL
          \/ o = [slot |-> EmptySlot, ok |-> FALSE]
      BY <2>2 DEF get_next_buffer
    <3>2. Created(NewBuffer, sf.width, sf.height).buffer = NewBuffer
      <4>1. Bytes(sf.width, sf.height) # 0
        BY DEF Bytes, Stride, Surfaces
      <4> QED BY <4>1 DEF Created
    <3>3. slots[NextSlot].buffer = NULL => slots[NextSlot] = EmptySlot
      BY <2>1 DEF Cleared
    <3> HIDE DEF EmptySlot, Created
    <3>4. CASE /\ o = [slot |-> slots[NextSlot], ok |-> TRUE]
               /\ slots[NextSlot].buffer # NULL
      BY <3>4
    <3>5. CASE o = [slot |-> Created(NewBuffer, sf.width, sf.height), ok |-> TRUE]
      BY <2>3, <3>2, <3>5
    <3>6. CASE /\ o = [slot |-> slots[NextSlot], ok |-> FALSE]
               /\ slots[NextSlot].buffer = NULL
      BY <3>3, <3>6
    <3>7. CASE o = [slot |-> EmptySlot, ok |-> FALSE]
      BY <3>7
    <3> QED BY <3>1, <3>4, <3>5, <3>6, <3>7
  <2>5. CASE o.ok
    <3>1. r.slots = [slots EXCEPT ![NextSlot] = Marked(o.slot)] /\ r.sent # <<>>
      BY <2>2, <2>5
    <3>2. Marked(o.slot).buffer # NULL
      BY <2>3, <2>4, <2>5 DEF Marked, Slot
    <3> QED BY <2>1, <3>1, <3>2 DEF Cleared
  <2>6. CASE ~o.ok
    <3>1. r.slots = [slots EXCEPT ![NextSlot] = EmptySlot]
      BY <2>2, <2>4, <2>6 DEF Skipped
    <3> QED BY <2>1, <3>1 DEF Cleared
  <2> QED BY <2>3, <2>5, <2>6
<1> QED BY <1>1, <1>2

(* damage-paint's render is surface_render; without a commit it asks for no
   callback. *)
LEMMA DamageClears ==
  ASSUME SurfaceInv, Cleared(slots), Bytes(surface.width, surface.height) > 0,
         NEW r \in damage_render
  PROVE  /\ Cleared(r.slots)
         /\ Bytes(r.surface.width, r.surface.height) > 0
         /\ ~Asks(r) => FreeSlots = {} \/ \E i \in Slots : r.slots[i] = EmptySlot
<1>1. PICK q \in surface_render(surface) : r = WithCallback(q)
  BY DEF damage_render
<1>2. surface \in Surfaces
  BY DEF SurfaceInv, SurfaceType
<1>3. /\ q = [slots |-> q.slots, surface |-> q.surface, sent |-> q.sent]
      /\ q.surface.width = surface.width /\ q.surface.height = surface.height
      /\ q.sent = <<>> \/ \E m \in Commits : q.sent = <<m>>
  BY <1>2, RenderShape
<1>4. /\ Cleared(q.slots)
      /\ q.sent = <<>> => FreeSlots = {} \/ \E i \in Slots : q.slots[i] = EmptySlot
  BY <1>2, RenderClears
<1> DEFINE t == [k \in DOMAIN q.sent |-> [q.sent[k] EXCEPT !.frame = TRUE]]
<1>5. r = [slots |-> q.slots, surface |-> q.surface, sent |-> t]
  BY <1>1, <1>3 DEF WithCallback
<1>6. q.sent # <<>> => Asks(r)
  <2> SUFFICES ASSUME q.sent # <<>> PROVE Asks(r)
    OBVIOUS
  <2>1. PICK m \in Commits : q.sent = <<m>>
    BY <1>3
  <2>2. 1 \in DOMAIN q.sent /\ q.sent[1] = m
    BY <2>1
  <2>3. t[1] = [m EXCEPT !.frame = TRUE] /\ 1 \in DOMAIN t
    BY <2>2
  <2>4. t[1].frame
    BY <2>3 DEF Commits
  <2> QED BY <1>5, <2>3, <2>4 DEF Asks
<1> HIDE DEF t
<1> QED BY <1>3, <1>4, <1>5, <1>6 DEF Bytes, Stride

(* Every step of damage-paint keeps that. *)
LEMMA PaintStep == IInv /\ PaintInv /\ [Next]_vars => PaintInv'
<1> SUFFICES ASSUME IInv, PaintInv, [Next]_vars, program' = "damage-paint"
             PROVE  Bytes(surface.width, surface.height)' > 0 /\ Cleared(slots')
  BY DEF PaintInv, Cleared
<1>1. program = "damage-paint"
  BY DEF Next, Dispatch, Expiry, Compositor, ClientIdle, vars
<1>2. /\ Bytes(surface.width, surface.height) > 0 /\ Cleared(slots)
      /\ SurfaceInv /\ surface \in Surfaces /\ slots \in [Slots -> Slot]
      /\ events \in Seq(Events)
  BY <1>1 DEF PaintInv, IInv, SurfaceInv, SurfaceType
<1>3. CASE UNCHANGED <<slots, surface>>
  BY <1>2, <1>3
<1>4. CASE xdg_toplevel_handle_configure
  <2> DEFINE e == Head(events)
  <2>1. /\ events # <<>> /\ e.type = "toplevel_configure" /\ slots' = slots
        /\ surface' = IF OwnChoice(e) THEN surface ELSE Sized(surface, Taken(e))
    BY <1>4 DEF xdg_toplevel_handle_configure, Receive
  <2>2. e \in Events
    BY <1>2, <2>1
  <2> HIDE DEF e
  <2>3. e.width \in Nat /\ e.height \in Nat
    BY <2>1, <2>2 DEF Events, Toplevels, Configures, Releases, Dones
  <2>4. CASE ~OwnChoice(e)
    <3>1. Taken(e) = [width |-> e.width, height |-> e.height]
      BY <1>1 DEF Taken
    <3>2. surface'.width = e.width /\ surface'.height = e.height
      BY <1>2, <2>1, <2>4, <3>1 DEF Sized, Surfaces
    <3>3. Bytes(e.width, e.height) > 0
      BY <2>3, <2>4, BytesPositive DEF OwnChoice
    <3> QED BY <1>2, <2>1, <3>2, <3>3 DEF Bytes, Stride
  <2> QED BY <1>2, <2>1, <2>4
<1>5. CASE damage_xdg_surface_handle_configure \/ call_render
  <2>1. PICK r \in damage_render : slots' = r.slots /\ surface' = r.surface
    BY <1>5 DEF damage_xdg_surface_handle_configure, AnswerWith, call_render
  <2>2. Cleared(r.slots) /\ Bytes(r.surface.width, r.surface.height) > 0
    BY <1>2, DamageClears
  <2> QED BY <2>1, <2>2 DEF Bytes, Stride
<1>6. CASE buffer_handle_release
  <2>1. /\ events # <<>> /\ Head(events).type = "release" /\ surface' = surface
        /\ slots' = [i \in Slots |-> Freed(slots[i], Head(events).buffer)]
    BY <1>6 DEF buffer_handle_release, Receive
  <2>2. Head(events) \in Events
    BY <1>2, <2>1
  <2>3. Head(events).buffer # NULL
    BY <2>1, <2>2, BufferPoolAssumption DEF Events, Toplevels, Configures, Releases, Dones
  <2>4. \A i \in Slots : slots'[i].buffer = slots[i].buffer
    BY <1>2, <2>1 DEF Freed, Slot
  <2>5. \A i \in Slots : slots[i].buffer = NULL => slots'[i] = slots[i]
    BY <2>1, <2>3 DEF Freed
  <2> QED BY <1>2, <2>1, <2>4, <2>5 DEF Cleared, Bytes
<1>7. CASE Compositor
  <2>1. UNCHANGED <<slots, surface>>
    BY <1>7 DEF Compositor, CompositorReads, ReceiveAck, ReceiveEmpty, ReceiveCommit,
       CompositorReceive, Release, SendConfigure, SendDone, clientVars
  <2> QED BY <1>3, <2>1
<1>8. CASE unmap \/ drop_done \/ UNCHANGED vars
  BY <1>3, <1>8 DEF unmap, drop_done, vars, surfaceVars, clientVars
<1> QED BY <1>1, <1>4, <1>5, <1>6, <1>7, <1>8
        DEF Next, Dispatch, Expiry, handle_configure, unmap_handle_configure,
            frame_callback_done, attach_delta_done, resize_loop_done

(* damage-paint gives up its callback only where it has no slot to draw into, or
   has just lost one to a call that failed. *)
THEOREM StopsForAReason == Spec => StopsUnpainted
<1>1. Init => PaintInv
  <2> SUFFICES ASSUME Init PROVE PaintInv
    OBVIOUS
  <2>1. /\ surface.width = 300 /\ surface.height = 400
        /\ slots = [i \in Slots |-> EmptySlot]
    BY DEF Init, SurfaceInit, PoolInit
  <2> QED BY <2>1 DEF PaintInv, Cleared, Bytes, Stride
<1> DEFINE A == (live /\ ~live') => \/ FreeSlots = {}
                                    \/ \E i \in Slots : slots'[i] = EmptySlot
<1>2. IInv /\ PaintInv /\ [Next]_vars => [A]_vars
  <2> SUFFICES ASSUME IInv, PaintInv, Next, live, ~live'
               PROVE  FreeSlots = {} \/ \E i \in Slots : slots'[i] = EmptySlot
    OBVIOUS
  <2>1. call_render
    BY DEF Next, Dispatch, Expiry, Compositor, ClientIdle, programVars, unmap,
       xdg_toplevel_handle_configure, handle_configure, unmap_handle_configure,
       damage_xdg_surface_handle_configure, drop_done, frame_callback_done,
       attach_delta_done, resize_loop_done
  <2>2. PICK r \in damage_render : slots' = r.slots /\ live' = Asks(r)
    BY <2>1 DEF call_render
  <2>3. SurfaceInv /\ Cleared(slots) /\ Bytes(surface.width, surface.height) > 0
    BY <2>1 DEF IInv, PaintInv, call_render
  <2>4. ~Asks(r)
    BY <2>2
  <2> QED BY <2>2, <2>3, <2>4, DamageClears
<1>3. StopsUnpainted <=> [][A]_vars
  BY DEF StopsUnpainted
<1> HIDE DEF A
<1> QED BY <1>1, <1>2, <1>3, PaintStep, Invariant, PTL DEF Spec

-------------------------------------------------------------------------------
(* cursor.  Its requests say of the hotspot where to put it or how far to move
   it; what they will have done to it when they have all been read is the
   invariant, and the pool and its wl_buffers do not matter. *)

(* The requests are a sequence; what they say of the hotspot is a number. *)
Speaks(m) == /\ m.type = "set_cursor" => m.hotspot \in Int
             /\ m.type = "commit" => m.offset \in Int

CursorType == /\ \E Q : requests \in Seq(Q)
              /\ \A k \in DOMAIN requests : Speaks(requests[k])
                                            /\ requests[k].type \in {"set_cursor", "commit"}
              /\ surface \in [width : {cursor_size}, height : {cursor_size}, attach : Int]
              /\ hotspot \in Int
              /\ {inversed, role, lost} \subseteq BOOLEAN

(* Whether the surface is a cursor when k requests of q have been read, from r. *)
RoleAfter(q, r, k) == r \/ \E j \in 1 .. k : q[j].type = "set_cursor"

(* Where one more request puts the hotspot. *)
PlacedBy(m, r, p) == IF m.type = "set_cursor" THEN m.hotspot
                     ELSE IF r THEN p - m.offset ELSE p

(* h[k] is the hotspot when k requests of q have been read, from p. *)
Way(h, q, r, p) == /\ h \in [0 .. Len(q) -> Int]
                   /\ h[0] = p
                   /\ \A k \in 1 .. Len(q) :
                        h[k] = PlacedBy(q[k], RoleAfter(q, r, k - 1), h[k - 1])

(* The requests on their way lead the hotspot to c, if it is known where. *)
Leads(q, r, p, c, known) ==
  \E h : Way(h, q, r, p) /\ (RoleAfter(q, r, Len(q)) /\ known => h[Len(q)] = c)

(* The inductive invariant: the requests on their way lead where the program
   thinks they do, and before the first frame there are none. *)
CursorInv == /\ CursorType
             /\ ~entered_loop => ~role /\ requests = <<>> /\ surface.attach = 0
             /\ Leads(requests, role, hotspot, Corner, ~lost)

(* What is left to read leads where it did. *)
LEMMA LeadsTail ==
  ASSUME NEW Q, NEW q \in Seq(Q), q # <<>>, NEW r, NEW p, NEW c, NEW known,
         Leads(q, r, p, c, known)
  PROVE  Leads(Tail(q), r \/ Head(q).type = "set_cursor", PlacedBy(Head(q), r, p), c, known)
<1> DEFINE n == Len(q)
           t == Tail(q)
           s == (r \/ Head(q).type = "set_cursor")
           z == PlacedBy(Head(q), r, p)
<1>1. PICK h : Way(h, q, r, p) /\ (RoleAfter(q, r, n) /\ known => h[n] = c)
  BY DEF Leads
<1> DEFINE g == [k \in 0 .. n - 1 |-> h[k + 1]]
<1>2. /\ n \in Nat \ {0} /\ Len(t) = n - 1 /\ Head(q) = q[1]
      /\ \A k \in 1 .. n - 1 : t[k] = q[k + 1]
  OBVIOUS
<1> HIDE DEF t, n
<1>3. ASSUME NEW k \in 0 .. n - 1
      PROVE  RoleAfter(t, s, k) <=> RoleAfter(q, r, k + 1)
  <2>1. ASSUME RoleAfter(t, s, k) PROVE RoleAfter(q, r, k + 1)
    <3>1. CASE s
      BY <3>1, <1>2 DEF RoleAfter
    <3>2. CASE ~s
      <4>1. PICK j \in 1 .. k : t[j].type = "set_cursor"
        BY <2>1, <3>2 DEF RoleAfter
      <4>2. q[j + 1].type = "set_cursor" /\ j + 1 \in 1 .. k + 1
        BY <4>1, <1>2
      <4> QED BY <4>2 DEF RoleAfter
    <3> QED BY <3>1, <3>2
  <2>2. ASSUME RoleAfter(q, r, k + 1) PROVE RoleAfter(t, s, k)
    <3>1. CASE r
      BY <3>1 DEF RoleAfter
    <3>2. CASE ~r
      <4>1. PICK j \in 1 .. k + 1 : q[j].type = "set_cursor"
        BY <2>2, <3>2 DEF RoleAfter
      <4>2. CASE j = 1
        BY <4>1, <4>2, <1>2 DEF RoleAfter
      <4>3. CASE j # 1
        <5>1. j - 1 \in 1 .. k /\ t[j - 1] = q[j]
          BY <4>1, <4>3, <1>2
        <5> QED BY <4>1, <5>1 DEF RoleAfter
      <4> QED BY <4>2, <4>3
    <3> QED BY <3>1, <3>2
  <2> QED BY <2>1, <2>2
<1>4. g \in [0 .. n - 1 -> Int]
  BY <1>1, <1>2 DEF Way, n
<1>5. g[0] = z
  <2>1. h[1] = PlacedBy(q[1], RoleAfter(q, r, 0), h[0]) /\ h[0] = p
    BY <1>1, <1>2 DEF Way, n
  <2>2. RoleAfter(q, r, 0) <=> r
    BY DEF RoleAfter
  <2> QED BY <1>2, <2>1, <2>2 DEF PlacedBy
<1>6. ASSUME NEW k \in 1 .. n - 1
      PROVE  g[k] = PlacedBy(t[k], RoleAfter(t, s, k - 1), g[k - 1])
  <2>1. h[k + 1] = PlacedBy(q[k + 1], RoleAfter(q, r, k), h[k])
    <3>1. k + 1 \in 1 .. n /\ (k + 1) - 1 = k
      BY <1>2
    <3> QED BY <1>1, <3>1 DEF Way, n
  <2>2. RoleAfter(t, s, k - 1) <=> RoleAfter(q, r, k)
    <3>1. k - 1 \in 0 .. n - 1 /\ (k - 1) + 1 = k
      BY <1>2
    <3> QED BY <1>3, <3>1
  <2>3. g[k] = h[k + 1] /\ g[k - 1] = h[k] /\ t[k] = q[k + 1]
    BY <1>2
  <2> QED BY <2>1, <2>2, <2>3 DEF PlacedBy
<1>7. (RoleAfter(t, s, n - 1) /\ known) => g[n - 1] = c
  <2>1. RoleAfter(t, s, n - 1) <=> RoleAfter(q, r, n)
    <3>1. n - 1 \in 0 .. n - 1 /\ (n - 1) + 1 = n
      BY <1>2
    <3> QED BY <1>3, <3>1
  <2>2. g[n - 1] = h[n]
    BY <1>2
  <2> QED BY <1>1, <2>1, <2>2
<1>8. Way(g, t, s, z)
  BY <1>2, <1>4, <1>5, <1>6 DEF Way
<1>9. Leads(t, s, z, c, known)
  BY <1>2, <1>7, <1>8 DEF Leads
<1> QED BY <1>9 DEF t

(* One more request leads on from where the others did. *)
LEMMA LeadsOn ==
  ASSUME NEW Q, NEW q \in Seq(Q), NEW r, NEW p, NEW c, NEW known, NEW m, NEW d, NEW knows,
         Leads(q, r, p, c, known),
         Speaks(m), m.type \in {"set_cursor", "commit"},
         \A z \in Int :
           /\ RoleAfter(q, r, Len(q)) /\ known => z = c
           /\ RoleAfter(q, r, Len(q)) \/ m.type = "set_cursor"
           /\ knows
           => PlacedBy(m, RoleAfter(q, r, Len(q)), z) = d
  PROVE  Leads(q \o <<m>>, r, p, d, knows)
<1> DEFINE n == Len(q)
           t == q \o <<m>>
<1>1. PICK h : Way(h, q, r, p) /\ (RoleAfter(q, r, n) /\ known => h[n] = c)
  BY DEF Leads
<1> DEFINE z == h[n]
           y == PlacedBy(m, RoleAfter(q, r, n), z)
           g == [k \in 0 .. n + 1 |-> IF k = n + 1 THEN y ELSE h[k]]
<1>2. /\ n \in Nat /\ Len(t) = n + 1 /\ t[n + 1] = m
      /\ \A k \in 1 .. n : t[k] = q[k]
  OBVIOUS
<1>3. h \in [0 .. n -> Int] /\ z \in Int
  BY <1>1, <1>2 DEF Way
<1>4. y \in Int
  BY <1>3 DEF PlacedBy, Speaks
<1> HIDE DEF t, n, y
<1>5. \A k \in 0 .. n : RoleAfter(t, r, k) <=> RoleAfter(q, r, k)
  BY <1>2 DEF RoleAfter
<1>6. RoleAfter(t, r, n + 1) <=> (RoleAfter(q, r, n) \/ m.type = "set_cursor")
  BY <1>2 DEF RoleAfter
<1>7. g \in [0 .. n + 1 -> Int] /\ g[0] = p
  BY <1>1, <1>2, <1>3, <1>4 DEF Way
<1>8. ASSUME NEW k \in 1 .. n + 1
      PROVE  g[k] = PlacedBy(t[k], RoleAfter(t, r, k - 1), g[k - 1])
  <2>1. k - 1 \in 0 .. n /\ g[k - 1] = h[k - 1]
    BY <1>2
  <2>2. RoleAfter(t, r, k - 1) <=> RoleAfter(q, r, k - 1)
    BY <1>5, <2>1
  <2>3. CASE k = n + 1
    <3>1. g[k] = y /\ t[k] = m /\ k - 1 = n
      BY <1>2, <2>3
    <3> QED BY <2>1, <2>2, <3>1 DEF y, PlacedBy
  <2>4. CASE k # n + 1
    <3>1. k \in 1 .. n /\ g[k] = h[k] /\ t[k] = q[k]
      BY <1>2, <2>4
    <3>2. h[k] = PlacedBy(q[k], RoleAfter(q, r, k - 1), h[k - 1])
      BY <1>1, <3>1 DEF Way, n
    <3> QED BY <2>1, <2>2, <3>1, <3>2 DEF PlacedBy
  <2> QED BY <2>3, <2>4
<1>9. ASSUME RoleAfter(t, r, n + 1), knows PROVE g[n + 1] = d
  <2>1. PlacedBy(m, RoleAfter(q, r, n), z) = d
    BY <1>1, <1>3, <1>6, <1>9 DEF n
  <2>2. g[n + 1] = y
    BY <1>2
  <2> QED BY <2>1, <2>2 DEF y
<1>10. Way(g, t, r, p)
  BY <1>2, <1>7, <1>8 DEF Way
<1>11. Leads(t, r, p, d, knows)
  BY <1>2, <1>9, <1>10 DEF Leads
<1> QED BY <1>11 DEF t

(* surface_render sends nothing or one frame with the offset of the surface. *)
LEMMA RenderSends ==
  ASSUME NEW sf \in [width : {cursor_size}, height : {cursor_size}, attach : Int],
         NEW r \in surface_render(sf)
  PROVE  /\ r.surface \in [width : {cursor_size}, height : {cursor_size}, attach : Int]
         /\ \/ r.sent = <<>>
            \/ \E m : /\ r.sent = <<m>> /\ m.type = "commit"
                      /\ m.offset = sf.attach
<1>1. \/ \E sl : r = Skipped(sl, sf)
      \/ \E sl, t : r = [slots |-> sl, surface |-> [sf EXCEPT !.attach = 0],
                         sent |-> <<CommitOf(t, sf)>>]
  BY DEF surface_render
<1>2. CASE \E sl : r = Skipped(sl, sf)
  <2>1. PICK sl : r = Skipped(sl, sf)
    BY <1>2
  <2>2. r.surface = sf /\ r.sent = <<>>
    BY <2>1 DEF Skipped
  <2> QED BY <2>2
<1>3. CASE \E sl, t : r = [slots |-> sl, surface |-> [sf EXCEPT !.attach = 0],
                           sent |-> <<CommitOf(t, sf)>>]
  <2>1. PICK sl, t : r = [slots |-> sl, surface |-> [sf EXCEPT !.attach = 0],
                          sent |-> <<CommitOf(t, sf)>>]
    BY <1>3
  <2>2. CommitOf(t, sf).type = "commit" /\ CommitOf(t, sf).offset = sf.attach
    BY DEF CommitOf
  <2>3. r.sent = <<CommitOf(t, sf)>>
    BY <2>1
  <2>4. r.surface = [sf EXCEPT !.attach = 0]
    BY <2>1
  <2> QED BY <2>2, <2>3, <2>4
<1> QED BY <1>1, <1>2, <1>3

(* The messages of the queue when one is added or read. *)
LEMMA QueueOn ==
  ASSUME CursorType, NEW m, Speaks(m), m.type \in {"set_cursor", "commit"}
  PROVE  /\ \E Q : requests \o <<m>> \in Seq(Q)
         /\ \A k \in DOMAIN (requests \o <<m>>) :
              /\ Speaks((requests \o <<m>>)[k])
              /\ (requests \o <<m>>)[k].type \in {"set_cursor", "commit"}
<1> DEFINE t == requests \o <<m>>
           n == Len(requests)
<1>1. PICK Q : requests \in Seq(Q)
  BY DEF CursorType
<1>2. requests \in Seq(Q \cup {m}) /\ <<m>> \in Seq(Q \cup {m})
  BY <1>1
<1>3. t \in Seq(Q \cup {m})
  BY <1>2
<1>4. /\ n \in Nat /\ DOMAIN requests = 1 .. n /\ DOMAIN t = 1 .. n + 1
      /\ t[n + 1] = m /\ \A k \in 1 .. n : t[k] = requests[k]
  BY <1>1
<1> HIDE DEF t, n
<1>5. ASSUME NEW k \in DOMAIN t
      PROVE  Speaks(t[k]) /\ t[k].type \in {"set_cursor", "commit"}
  <2>1. CASE k = n + 1
    BY <1>4, <2>1
  <2>2. CASE k # n + 1
    <3>1. k \in 1 .. n
      BY <1>4, <2>2
    <3> QED BY <1>4, <3>1 DEF CursorType
  <2> QED BY <2>1, <2>2
<1> QED BY <1>3, <1>5 DEF t

(* The same of a queue whose first is read. *)
LEMMA QueueTail ==
  ASSUME CursorType, requests # <<>>
  PROVE  /\ \E Q : Tail(requests) \in Seq(Q)
         /\ \A k \in DOMAIN Tail(requests) :
              /\ Speaks(Tail(requests)[k])
              /\ Tail(requests)[k].type \in {"set_cursor", "commit"}
         /\ Speaks(Head(requests)) /\ Head(requests).type \in {"set_cursor", "commit"}
<1>1. PICK Q : requests \in Seq(Q)
  BY DEF CursorType
<1>2. Tail(requests) \in Seq(Q)
  BY <1>1
<1>3. \A k \in DOMAIN Tail(requests) :
         k + 1 \in DOMAIN requests /\ Tail(requests)[k] = requests[k + 1]
  BY <1>1
<1>4. 1 \in DOMAIN requests /\ Head(requests) = requests[1]
  BY <1>1
<1> QED BY <1>2, <1>3, <1>4 DEF CursorType

(* A program that has not drawn its cursor has sent nothing. *)
LEMMA CursorStarts == CursorInit => CursorInv
<1> SUFFICES ASSUME CursorInit PROVE CursorInv
  OBVIOUS
<1>1. requests = <<>> /\ ~role /\ hotspot = 0 /\ surface.attach = 0
  BY DEF CursorInit
<1>2. Way([k \in 0 .. 0 |-> 0], <<>>, role, hotspot)
  BY <1>1 DEF Way
<1>3. ~RoleAfter(<<>>, role, Len(<<>>))
  BY <1>1 DEF RoleAfter
<1>4. Leads(requests, role, hotspot, Corner, ~lost)
  BY <1>1, <1>2, <1>3 DEF Leads
<1>5. CursorType
  <2>1. <<>> \in Seq({})
    OBVIOUS
  <2>2. \E Q : requests \in Seq(Q)
    BY <1>1, <2>1
  <2>3. surface \in [width : {cursor_size}, height : {cursor_size}, attach : Int]
    BY DEF CursorInit
  <2>4. {inversed, role, lost} \subseteq BOOLEAN
    BY DEF CursorInit
  <2>5. DOMAIN requests = {}
    BY <1>1
  <2> QED BY <1>1, <2>2, <2>3, <2>4, <2>5 DEF CursorType
<1> QED BY <1>1, <1>4, <1>5 DEF CursorInv

(* The first cursor is drawn before the surface is one. *)
LEMMA MainLeads == CursorInv /\ main => CursorInv'
<1> SUFFICES ASSUME CursorInv, main PROVE CursorInv'
  OBVIOUS
<1>1. PICK r \in surface_render(surface) :
        slots' = r.slots /\ surface' = r.surface /\ Send(r.sent)
  BY DEF main
<1>2. /\ entered_loop' = TRUE /\ requests = <<>> /\ ~role /\ surface.attach = 0
      /\ role' = role /\ hotspot' = hotspot /\ inversed' = inversed /\ lost' = lost
      /\ CursorType /\ Leads(requests, role, hotspot, Corner, ~lost)
  BY DEF main, CursorInv, cursorVars, pointerVars
<1>3. Corner' = Corner
  BY <1>2 DEF Corner
<1>4. surface' \in [width : {cursor_size}, height : {cursor_size}, attach : Int]
  BY <1>1, <1>2, RenderSends DEF CursorType
<1>5. CASE r.sent = <<>>
  <2>1. requests' = requests
    BY <1>1, <1>2, <1>5 DEF Send
  <2> QED BY <1>2, <1>3, <1>4, <2>1 DEF CursorInv, CursorType
<1>6. CASE r.sent # <<>>
  <2>1. PICK m : r.sent = <<m>> /\ m.type = "commit" /\ m.offset = 0
    BY <1>2, <1>6, RenderSends DEF CursorType
  <2>2. requests' = requests \o <<m>> /\ Speaks(m)
    BY <1>1, <2>1 DEF Send, Speaks
  <2>3. ~(RoleAfter(requests, role, Len(requests)) \/ m.type = "set_cursor")
    BY <1>2, <2>1 DEF RoleAfter
  <2>4. PICK Q : requests \in Seq(Q)
    BY <1>2 DEF CursorType
  <2>5. Leads(requests \o <<m>>, role, hotspot, Corner, ~lost)
    BY <1>2, <2>1, <2>2, <2>3, <2>4, LeadsOn
  <2>6. CursorType'
    BY <1>2, <1>4, <2>1, <2>2, QueueOn DEF CursorType
  <2> QED BY <1>2, <1>3, <2>2, <2>5, <2>6 DEF CursorInv
<1> QED BY <1>5, <1>6

(* An entry sets the hotspot to where the program thinks it is. *)
LEMMA EnterLeads == CursorInv /\ pointer_handle_enter => CursorInv'
<1> SUFFICES ASSUME CursorInv, pointer_handle_enter PROVE CursorInv'
  OBVIOUS
<1> DEFINE m == [type |-> "set_cursor", hotspot |-> Corner]
<1>1. /\ requests' = requests \o <<m>>
      /\ entered_loop /\ entered_loop' = entered_loop /\ lost' = FALSE
      /\ role' = role /\ hotspot' = hotspot /\ inversed' = inversed
      /\ surface' = surface
      /\ CursorType /\ Leads(requests, role, hotspot, Corner, ~lost)
  BY DEF pointer_handle_enter, Send, Corner, CursorInv, clientVars, pointerVars
<1>2. Corner \in Int /\ Corner' = Corner
  BY <1>1 DEF Corner, cursor_size
<1>3. m.type = "set_cursor" /\ m.hotspot = Corner
  OBVIOUS
<1> HIDE DEF m
<1>4. Speaks(m)
  BY <1>2, <1>3 DEF Speaks
<1>5. PICK Q : requests \in Seq(Q)
  BY <1>1 DEF CursorType
<1>6. \A z : PlacedBy(m, RoleAfter(requests, role, Len(requests)), z) = Corner
  BY <1>3 DEF PlacedBy
<1>7. Leads(requests \o <<m>>, role, hotspot, Corner, ~lost')
  BY <1>1, <1>3, <1>4, <1>5, <1>6, LeadsOn
<1>8. CursorType'
  BY <1>1, <1>3, <1>4, QueueOn DEF CursorType
<1> QED BY <1>1, <1>2, <1>7, <1>8 DEF CursorInv

(* A click turns the corner and, if the frame is sent, the hotspot with it. *)
LEMMA ButtonLeads == CursorInv /\ pointer_handle_button => CursorInv'
<1> SUFFICES ASSUME CursorInv, pointer_handle_button PROVE CursorInv'
  OBVIOUS
<1>1. /\ entered_loop /\ entered_loop' = entered_loop
      /\ role' = role /\ hotspot' = hotspot
      /\ CursorType /\ Leads(requests, role, hotspot, Corner, ~lost)
  BY DEF pointer_handle_button, CursorInv, cursorVars, pointerVars
<1>2. CASE ~Head(events).released
  <2>1. UNCHANGED <<surface, requests, inversed, lost>>
    BY <1>2 DEF pointer_handle_button, clientVars, cursorVars
  <2> QED BY <1>1, <2>1 DEF CursorInv, CursorType, Corner
<1>3. CASE Head(events).released
  <2> DEFINE sf == [surface EXCEPT !.attach = Offset]
  <2>1. PICK r \in surface_render(sf) :
          /\ surface' = r.surface /\ Send(r.sent)
          /\ lost' = (lost \/ r.sent = <<>>)
    BY <1>3 DEF pointer_handle_button
  <2>2. inversed' = ~inversed
    BY <1>3 DEF pointer_handle_button
  <2>3. /\ Offset \in Int
        /\ sf \in [width : {cursor_size}, height : {cursor_size}, attach : Int]
        /\ sf.attach = Offset
    BY <1>1 DEF CursorType, Offset, cursor_size
  <2>4. Corner' = Corner - Offset /\ Corner \in Int
    <3>1. inversed = TRUE \/ inversed = FALSE
      BY <1>1 DEF CursorType
    <3>2. CASE inversed = TRUE
      <4>1. inversed' = FALSE
        BY <2>2, <3>2
      <4> QED BY <3>2, <4>1 DEF Corner, Offset, cursor_size
    <3>3. CASE inversed = FALSE
      <4>1. inversed' = TRUE
        BY <2>2, <3>3
      <4> QED BY <3>3, <4>1 DEF Corner, Offset, cursor_size
    <3> QED BY <3>1, <3>2, <3>3
  <2> HIDE DEF sf
  <2>5. surface' \in [width : {cursor_size}, height : {cursor_size}, attach : Int]
    BY <2>1, <2>3, RenderSends
  <2>6. CASE r.sent = <<>>
    <3>1. requests' = requests /\ lost' = TRUE
      <4>1. PICK Q : requests \in Seq(Q)
        BY <1>1 DEF CursorType
      <4>2. requests \o <<>> = requests
        BY <4>1
      <4>3. lost' = TRUE
        BY <2>1, <2>6
      <4> QED BY <2>1, <2>6, <4>2, <4>3 DEF Send
    <3>2. Leads(requests, role, hotspot, Corner', ~lost')
      BY <1>1, <3>1 DEF Leads
    <3> QED BY <1>1, <2>2, <2>5, <3>1, <3>2 DEF CursorInv, CursorType
  <2>7. CASE r.sent # <<>>
    <3>1. PICK m : r.sent = <<m>> /\ m.type = "commit" /\ m.offset = Offset
      BY <2>3, <2>7, RenderSends
    <3>2. requests' = requests \o <<m>> /\ Speaks(m) /\ lost' = lost
      BY <1>1, <2>1, <2>3, <2>7, <3>1 DEF Send, Speaks, CursorType
    <3>3. PICK Q : requests \in Seq(Q)
      BY <1>1 DEF CursorType
    <3>4. \A z \in Int :
            /\ RoleAfter(requests, role, Len(requests)) /\ ~lost => z = Corner
            /\ RoleAfter(requests, role, Len(requests)) \/ m.type = "set_cursor"
            /\ ~lost'
            => PlacedBy(m, RoleAfter(requests, role, Len(requests)), z) = Corner'
      BY <2>4, <3>1, <3>2 DEF PlacedBy
    <3>5. PICK q, now, p, c, known, d, knows :
            /\ q = requests /\ now = role /\ p = hotspot /\ c = Corner
            /\ known = ~lost /\ d = Corner' /\ knows = ~lost'
      OBVIOUS
    <3>6. Leads(q \o <<m>>, now, p, d, knows)
      <4>1. q \in Seq(Q) /\ Leads(q, now, p, c, known)
        BY <1>1, <3>3, <3>5
      <4>2. Speaks(m) /\ m.type \in {"set_cursor", "commit"}
        BY <3>1, <3>2
      <4>3. \A z \in Int :
              /\ RoleAfter(q, now, Len(q)) /\ known => z = c
              /\ RoleAfter(q, now, Len(q)) \/ m.type = "set_cursor"
              /\ knows
              => PlacedBy(m, RoleAfter(q, now, Len(q)), z) = d
        BY <3>4, <3>5
      <4> QED BY <4>1, <4>2, <4>3, LeadsOn
    <3>7. CursorType'
      BY <1>1, <2>2, <2>5, <3>1, <3>2, QueueOn DEF CursorType
    <3>8. Leads(requests', role', hotspot', Corner', ~lost')
      BY <1>1, <3>2, <3>5, <3>6
    <3> QED BY <1>1, <3>7, <3>8 DEF CursorInv
  <2> QED BY <2>6, <2>7
<1> QED BY <1>2, <1>3

(* What the compositor reads leads the hotspot on its way. *)
LEMMA ReadLeads == CursorInv /\ (ReceiveSetCursor \/ ReceiveCursor) => CursorInv'
<1> SUFFICES ASSUME CursorInv, ReceiveSetCursor \/ ReceiveCursor PROVE CursorInv'
  OBVIOUS
<1>1. /\ requests # <<>> /\ requests' = Tail(requests)
      /\ UNCHANGED <<surface, entered_loop, inversed, lost>>
      /\ CursorType /\ Leads(requests, role, hotspot, Corner, ~lost)
  BY DEF ReceiveSetCursor, ReceiveCursor, ReceiveCommit, CompositorReceive, CursorInv,
         clientVars, cursorVars
<1>2. Corner' = Corner /\ entered_loop
  BY <1>1 DEF Corner, CursorInv
<1>3. /\ hotspot' = PlacedBy(Head(requests), role, hotspot)
      /\ role' = (role \/ Head(requests).type = "set_cursor")
  <2>1. CASE ReceiveSetCursor
    BY <2>1 DEF ReceiveSetCursor, CompositorReceive, PlacedBy
  <2>2. CASE ReceiveCursor
    <3>1. Head(requests).type = "commit" /\ role' = role
          /\ hotspot' = IF role THEN hotspot - Head(requests).offset ELSE hotspot
      BY <2>2 DEF ReceiveCursor, ReceiveCommit, CompositorReceive
    <3>2. role \in BOOLEAN
      BY <1>1 DEF CursorType
    <3> QED BY <3>1, <3>2 DEF PlacedBy
  <2> QED BY <2>1, <2>2
<1>4. PICK Q : requests \in Seq(Q)
  BY <1>1 DEF CursorType
<1>5. Leads(Tail(requests), role', hotspot', Corner, ~lost)
  BY <1>1, <1>3, <1>4, LeadsTail
<1>6. Speaks(Head(requests)) /\ Head(requests).type \in {"set_cursor", "commit"}
  BY <1>1, QueueTail
<1>7. hotspot' \in Int
  BY <1>1, <1>3, <1>6 DEF CursorType, PlacedBy, Speaks
<1>8. CursorType'
  <2>1. {inversed', role', lost'} \subseteq BOOLEAN
    BY <1>1, <1>3 DEF CursorType
  <2> QED BY <1>1, <1>7, <2>1, QueueTail DEF CursorType
<1> QED BY <1>1, <1>2, <1>5, <1>8 DEF CursorInv

(* Every step of cursor and its compositor keeps the invariant. *)
LEMMA CursorSteps == CursorInv /\ [CursorNext]_allCursorVars => CursorInv'
<1> SUFFICES ASSUME CursorInv, [CursorNext]_allCursorVars PROVE CursorInv'
  OBVIOUS
<1>1. ASSUME UNCHANGED <<surface, requests, entered_loop, inversed, lost, role, hotspot>>
      PROVE  CursorInv'
  BY <1>1 DEF CursorInv, CursorType, Corner
<1>2. CASE main
  BY <1>2, MainLeads
<1>3. CASE pointer_handle_enter
  BY <1>3, EnterLeads
<1>4. CASE pointer_handle_leave
  BY <1>1, <1>4 DEF pointer_handle_leave, clientVars, cursorVars, pointerVars
<1>5. CASE pointer_handle_button
  BY <1>5, ButtonLeads
<1>6. CASE buffer_handle_release /\ UNCHANGED <<cursorVars, pointerVars>>
  BY <1>1, <1>6 DEF buffer_handle_release, cursorVars, pointerVars
<1>7. CASE ReceiveSetCursor \/ ReceiveCursor
  BY <1>7, ReadLeads
<1>8. CASE \E b \in held : Release(b) /\ UNCHANGED <<cursorVars, pointerVars>>
  BY <1>1, <1>8 DEF Release, clientVars, cursorVars, pointerVars
<1>9. CASE Enter \/ Leave \/ \E released \in BOOLEAN : Button(released)
  BY <1>1, <1>9 DEF Enter, Leave, Button, Input, clientVars, cursorVars
<1>10. CASE UNCHANGED allCursorVars
  BY <1>1, <1>10 DEF allCursorVars, surfaceVars, clientVars, cursorVars, pointerVars
<1> QED BY <1>2, <1>3, <1>4, <1>5, <1>6, <1>7, <1>8, <1>9, <1>10
        DEF CursorNext, CursorDispatch, CursorCompositor

(* Clicks, entries and frames in any order leave the hotspot where cursor
   thinks it is, once they have arrived and unless a frame was skipped. *)
THEOREM HotspotFollows == CursorSpec => []HotspotFollowsFrames
<1>1. CursorInv => HotspotFollowsFrames
  <2> SUFFICES ASSUME CursorInv, role, requests = <<>>, ~lost PROVE hotspot = Corner
    BY DEF HotspotFollowsFrames, Arrived
  <2>1. PICK h : /\ Way(h, requests, role, hotspot)
                 /\ RoleAfter(requests, role, Len(requests)) => h[Len(requests)] = Corner
    BY DEF CursorInv, Leads
  <2>2. Len(requests) = 0
    OBVIOUS
  <2> QED BY <2>1, <2>2 DEF Way, RoleAfter
<1> QED BY <1>1, CursorStarts, CursorSteps, PTL DEF CursorSpec
===============================================================================
