---------------------------- MODULE SlowAckProofs ----------------------------
(***************************************************************************)
(* The invariants of slow-ack-configure, for every delay, any number of    *)
(* wl_buffers and configures and any sizes: one frame callback while the   *)
(* client waits, acknowledgements in order, and a late frame of the size   *)
(* of the configure it acknowledges.                                       *)
(*                                                                         *)
(* They need each other.  The serial a wait will acknowledge is between    *)
(* those sent and those handled only as long as one callback drives the    *)
(* wait, and a size goes with its serial because both are copied from      *)
(* next_configure, whose size is that of the last toplevel_configure.      *)
(***************************************************************************)
EXTENDS SlowAck, SurfaceProofs

SlowType == /\ acked_first_configure \in BOOLEAN
            /\ current_configure \in Configure
            /\ next_configure \in Configure
            /\ countdown \in 0 .. FRAME_DELAY

(* No commit asks for a callback, and one that waits has one. *)
Waiting == /\ \A k \in DOMAIN requests : requests[k] \in Commits => ~requests[k].frame
           /\ Owing = IF countdown > 0 THEN 1 ELSE 0

(* The newest serial that may have been acknowledged. *)
Bound == IF countdown > 0 THEN current_configure.serial - 1 ELSE Handled

Serials == /\ acked_first_configure <=> Handled > 0
           /\ next_configure.serial = IF Handled > 1 THEN Handled ELSE 0
           /\ countdown > 0 => current_configure.serial \in 2 .. Handled
           /\ Acknowledging(requests, acked, Bound)

(* c says no size, or the size in effect with s. *)
Says(c, w, s) == \/ c.width = 0 /\ c.height = 0
                 \/ <<c.width, c.height>> = w[s]

Stores == /\ Says(next_configure, wanted, Stored)
          /\ countdown > 0 => Says(current_configure, wanted, current_configure.serial)

(* A slot that has a wl_buffer has bytes. *)
Filled(sl) ==
  \A i \in Slots : sl[i].buffer # NULL => Bytes(sl[i].width, sl[i].height) # 0

(* The bytes a frame may have: any number for the first configure. *)
LateFits == {p \in Int \X (0 .. serial) :
               p[2] > 1 => p[1] = Bytes(wanted[p[2]][1], wanted[p[2]][2])}

Frames == /\ Filled(slots)
          /\ Fitting(requests, acked, shown, LateFits)
          /\ \E n : LastAck(requests, acked, n)

(* The inductive invariant. *)
SlowInv == /\ SurfaceInv
           /\ SlowType
           /\ ConfigureInv
           /\ Waiting
           /\ Serials
           /\ Stores
           /\ Frames

-------------------------------------------------------------------------------
(* A countdown that has not come to its end is not wrapped by another step. *)
LEMMA CountedDown ==
  ASSUME NEW n \in 1 .. FRAME_DELAY
  PROVE  Decremented(n) = n - 1
<1>1. n - 1 \in 0 .. Word - 1 /\ Word \in Nat /\ Word > 0
  BY SlowAckAssumption
<1>2. (n + Word - 1) % Word = n - 1
  <2> DEFINE r == n - 1
  <2>1. r \in 0 .. Word - 1 /\ n + Word - 1 = r + Word
    BY <1>1
  <2> HIDE DEF r
  <2>2. (r + Word) % Word = r
    BY <1>1, <2>1, Z3
  <2> QED BY <2>1, <2>2 DEF r
<1> QED BY <1>2 DEF Decremented

(* Drawing gives a slot a wl_buffer only together with bytes. *)
LEMMA RenderFilled ==
  ASSUME SurfaceInv, Filled(slots), NEW sf \in Surfaces, NEW r \in surface_render(sf)
  PROVE  /\ Filled(r.slots)
         /\ \A j \in DOMAIN r.sent :
              /\ r.sent[j] \in Commits /\ ~r.sent[j].frame
              /\ Bytes(r.sent[j].width, r.sent[j].height) = Bytes(sf.width, sf.height)
              /\ r.sent[j].buffer # NULL => Bytes(sf.width, sf.height) # 0
<1>1. CASE FreeSlots = {}
  <2>1. r.slots = slots /\ r.sent = <<>>
    BY <1>1 DEF surface_render, Skipped
  <2> QED BY <2>1
<1>2. CASE FreeSlots # {}
  <2>1. NextSlot \in Slots /\ slots \in [Slots -> Slot] /\ ~slots[NextSlot].busy
    BY <1>2 DEF FreeSlots, NextSlot, Slots, SurfaceInv, SurfaceType
  <2>2. PICK o \in get_next_buffer(slots[NextSlot], NewBuffer, sf.width, sf.height) :
          r = IF o.ok
                THEN [slots |-> [slots EXCEPT ![NextSlot] = Marked(o.slot)],
                      surface |-> [sf EXCEPT !.attach = 0],
                      sent |-> <<CommitOf(o.slot, sf)>>]
                ELSE Skipped([slots EXCEPT ![NextSlot] = o.slot], sf)
    BY <1>2 DEF surface_render
  <2>3. /\ o.ok \in BOOLEAN /\ o.slot \in Slot
        /\ o.ok => Bytes(o.slot.width, o.slot.height) = Bytes(sf.width, sf.height)
    BY <2>1, <2>2, NextBuffer, NewIsNew DEF Surfaces
  <2>4. o.slot.buffer # NULL => Bytes(o.slot.width, o.slot.height) # 0
    <3>1. \/ o.slot = slots[NextSlot]
          \/ o.slot = Created(NewBuffer, sf.width, sf.height)
          \/ o.slot = EmptySlot
      BY <2>2 DEF get_next_buffer
    <3> QED BY <2>1, <3>1 DEF Filled, Created, EmptySlot
  <2>5. /\ Marked(o.slot).buffer = o.slot.buffer /\ Marked(o.slot).width = o.slot.width
        /\ Marked(o.slot).height = o.slot.height
    BY <2>3 DEF Marked, Slot
  <2>6. Filled(r.slots)
    <3>1. \E t : /\ r.slots = [slots EXCEPT ![NextSlot] = t]
                 /\ t.buffer = o.slot.buffer /\ t.width = o.slot.width
                 /\ t.height = o.slot.height
      BY <2>2, <2>3, <2>5 DEF Skipped
    <3> QED BY <2>1, <2>4, <3>1 DEF Filled
  <2>7. CASE ~o.ok
    <3>1. r.sent = <<>>
      BY <2>2, <2>7 DEF Skipped
    <3> QED BY <2>6, <3>1
  <2>8. CASE o.ok
    <3> DEFINE m == CommitOf(o.slot, sf)
    <3>1. r.sent = <<m>>
      BY <2>2, <2>8
    <3>2. /\ m \in Commits /\ ~m.frame /\ m.buffer = o.slot.buffer
          /\ m.width = o.slot.width /\ m.height = o.slot.height
      BY <2>3 DEF CommitOf, Commits, Slot, Surfaces
    <3> HIDE DEF m
    <3> QED BY <2>3, <2>4, <2>6, <2>8, <3>1, <3>2
  <2> QED BY <2>3, <2>7, <2>8
<1> QED BY <1>1, <1>2

-------------------------------------------------------------------------------
(* The requests behind those in the socket ask for no callback with a commit. *)
LEMMA PlainSent ==
  ASSUME SurfaceInv, NEW t \in Seq(Requests), Send(t),
         \A k \in DOMAIN requests : requests[k] \in Commits => ~requests[k].frame,
         \A j \in DOMAIN t : t[j] \in Commits => ~t[j].frame
  PROVE  \A k \in DOMAIN requests' : requests'[k] \in Commits => ~requests'[k].frame
<1>1. requests \in Seq(Requests) /\ requests' = requests \o t
  BY DEF SurfaceInv, SurfaceType, Send
<1>2. \A k \in DOMAIN (requests \o t) :
        \/ k \in DOMAIN requests /\ (requests \o t)[k] = requests[k]
        \/ k - Len(requests) \in DOMAIN t /\ (requests \o t)[k] = t[k - Len(requests)]
  BY <1>1
<1> QED BY <1>1, <1>2

(* Asking for a callback leaves the answers as they are. *)
LEMMA CallbackSent ==
  ASSUME SurfaceInv, NEW t \in Seq(Requests), \A j \in DOMAIN t : t[j] \in Empties,
         Send(t), UNCHANGED <<acked, shown>>, NEW G,
         NEW n, Acknowledging(requests, acked, n), NEW p \in Nat, n <= p,
         \E s : LastAck(requests, acked, s)
  PROVE  /\ Acknowledging(requests', acked', p)
         /\ \E s : LastAck(requests', acked', s)
         /\ Fitting(requests, acked, shown, G) => Fitting(requests', acked', shown', G)
<1>1. requests \in Seq(Requests) /\ requests' = requests \o t
  BY DEF SurfaceInv, SurfaceType, Send
<1>2. \A j \in DOMAIN t : t[j] \notin Acks /\ t[j] \notin Commits
  BY DEF Empties, Acks, Commits
<1>3. Acknowledging(requests \o t, acked, p)
  BY <1>1, <1>2, AcknowledgingOn
<1>4. PICK s : LastAck(requests, acked, s)
  OBVIOUS
<1>5. /\ LastAck(requests \o t, acked, s)
      /\ Fitting(requests, acked, shown, G) => Fitting(requests \o t, acked, shown, G)
  BY <1>1, <1>2, <1>4, AnswersOn
<1> QED BY <1>1, <1>3, <1>5

(* An answer, with what is sent behind the acknowledgement. *)
LEMMA AnswerSent ==
  ASSUME SurfaceInv, NEW t \in Seq(Requests),
         \A j \in DOMAIN t : t[j] \in Commits \cup Empties,
         NEW s \in Nat, Send(<<ack_configure(s)>> \o t), UNCHANGED <<acked, shown>>,
         NEW G, NEW n, Acknowledging(requests, acked, n), NEW p \in Nat,
         s \in n + 1 .. p
  PROVE  /\ Acknowledging(requests', acked', p)
         /\ \E l : LastAck(requests', acked', l)
         /\ (/\ Fitting(requests, acked, shown, G)
             /\ \A j \in DOMAIN t : (t[j] \in Commits /\ t[j].buffer # NULL) =>
                  <<Bytes(t[j].width, t[j].height), s>> \in G)
            => Fitting(requests', acked', shown', G)
<1> DEFINE m == ack_configure(s)
<1>1. requests \in Seq(Requests) /\ requests' = requests \o (<<m>> \o t)
  BY DEF SurfaceInv, SurfaceType, Send
<1>2. m \in Acks /\ m.serial = s
  BY DEF ack_configure, Acks
<1> HIDE DEF m
<1>3. \A j \in DOMAIN t : t[j] \notin Acks
  BY DEF Empties, Acks, Commits
<1>4. Acknowledging(requests \o (<<m>> \o t), acked, p)
  BY <1>1, <1>2, <1>3, AcknowledgingAnswer
<1>5. /\ LastAck(requests \o (<<m>> \o t), acked, m.serial)
      /\ (/\ Fitting(requests, acked, shown, G)
          /\ \A j \in DOMAIN t : (t[j] \in Commits /\ t[j].buffer # NULL) =>
               <<Bytes(t[j].width, t[j].height), m.serial>> \in G)
         => Fitting(requests \o (<<m>> \o t), acked, shown, G)
  BY <1>1, <1>2, <1>3, AnswersAnswer
<1> QED BY <1>1, <1>2, <1>4, <1>5

(* An answer has the callback requested with it behind it. *)
LEMMA AnswerAppend ==
  ASSUME NEW s \in Nat, NEW t \in Seq(Requests), NEW f \in Requests
  PROVE  Append(Answer(s, t), f) = <<ack_configure(s)>> \o (t \o <<f>>)
<1> DEFINE a == ack_configure(s)
           c == Append(<<a>> \o t, f)
           d == <<a>> \o (t \o <<f>>)
<1>1. a \in Requests
  BY DEF ack_configure, Acks, Requests
<1> HIDE DEF a
<1>2. /\ <<a>> \in Seq(Requests) /\ Len(<<a>>) = 1 /\ <<a>>[1] = a
      /\ <<f>> \in Seq(Requests) /\ Len(<<f>>) = 1 /\ <<f>>[1] = f
  BY <1>1
<1>3. /\ <<a>> \o t \in Seq(Requests) /\ Len(<<a>> \o t) = Len(t) + 1
      /\ t \o <<f>> \in Seq(Requests) /\ Len(t \o <<f>>) = Len(t) + 1
      /\ Len(t) \in Nat
  BY <1>2
<1>4. /\ c \in Seq(Requests) /\ Len(c) = Len(t) + 2
      /\ d \in Seq(Requests) /\ Len(d) = Len(t) + 2
  BY <1>2, <1>3
<1>5. ASSUME NEW k \in 1 .. Len(t) + 2 PROVE c[k] = d[k]
  <2>1. CASE k = 1
    <3>1. c[k] = (<<a>> \o t)[1] /\ (<<a>> \o t)[1] = a
      BY <1>2, <1>3, <2>1
    <3>2. d[k] = a
      BY <1>2, <1>3, <2>1
    <3> QED BY <3>1, <3>2
  <2>2. CASE k \in 2 .. Len(t) + 1
    <3>1. c[k] = (<<a>> \o t)[k] /\ (<<a>> \o t)[k] = t[k - 1]
      BY <1>2, <1>3, <2>2
    <3>2. d[k] = (t \o <<f>>)[k - 1] /\ (t \o <<f>>)[k - 1] = t[k - 1]
      BY <1>2, <1>3, <2>2
    <3> QED BY <3>1, <3>2
  <2>3. CASE k = Len(t) + 2
    <3>1. c[k] = f
      BY <1>2, <1>3, <2>3
    <3>2. d[k] = (t \o <<f>>)[k - 1] /\ (t \o <<f>>)[k - 1] = f
      BY <1>2, <1>3, <2>3
    <3> QED BY <3>1, <3>2
  <2> QED BY <1>3, <2>1, <2>2, <2>3
<1> HIDE DEF c, d
<1>6. c = d
  BY <1>4, <1>5
<1> QED BY <1>6 DEF c, d, a, Answer

-------------------------------------------------------------------------------
(* What a handler finds: the event it takes, and what taking it does. *)
LEMMA EventTaken ==
  ASSUME SlowInv, NEW y, NEW n, Receive(y, n), UNCHANGED compositorVars
  PROVE  /\ events # <<>> /\ Head(events).type = y /\ events' = Tail(events)
         /\ surface \in Surfaces /\ requests \in Seq(Requests)
         /\ UNCHANGED <<serial, wanted, acked, shown, frames>>
         /\ ConfigureInv' /\ Handled \in 0 .. serial /\ Handled' \in 0 .. serial
         /\ y = "configure" =>
              /\ Head(events).serial = Handled + 1
              /\ Handled' = Handled + 1 /\ Stored = Handled + 1 /\ Stored' = Handled + 1
         /\ y = "toplevel_configure" =>
              /\ Handled' = Handled /\ Stored = Handled /\ Stored' = Handled + 1
              /\ Head(events) \in Toplevels
              /\ wanted[Handled + 1] = InEffect(Head(events), wanted[Handled])
         /\ y \notin {"configure", "toplevel_configure"} =>
              Handled' = Handled /\ Stored = Handled /\ Stored' = Handled
         /\ LateFits' = LateFits
<1>1. /\ SurfaceInv /\ ConfigureInv
      /\ events # <<>> /\ Head(events).type = y /\ events' = Tail(events)
      /\ UNCHANGED <<serial, wanted, acked, shown, frames>>
      /\ surface \in Surfaces /\ requests \in Seq(Requests)
  BY DEF SlowInv, Receive, compositorVars, SurfaceInv, SurfaceType
<1>2. /\ ConfigureInv' /\ Handled \in 0 .. serial
      /\ y = "configure" =>
           /\ Head(events).serial = Handled + 1
           /\ Handled' = Handled + 1 /\ Stored = Handled + 1 /\ Stored' = Handled + 1
      /\ y = "toplevel_configure" =>
           /\ Handled' = Handled /\ Stored = Handled /\ Stored' = Handled + 1
           /\ Head(events) \in Toplevels
           /\ wanted[Handled + 1] = InEffect(Head(events), wanted[Handled])
      /\ y \notin {"configure", "toplevel_configure"} =>
           Handled' = Handled /\ Stored = Handled /\ Stored' = Handled
  BY <1>1, ConfigureNext
<1>3. Handled' \in 0 .. serial
  BY <1>1, <1>2 DEF ConfigureInv, Configuring
<1>4. LateFits' = LateFits
  BY <1>1 DEF LateFits
<1> QED BY <1>1, <1>2, <1>3, <1>4

(* toplevel_configure keeps the newest size, and answers nothing. *)
LEMMA SlowToplevel == ASSUME SlowInv, xdg_toplevel_handle_configure PROVE SlowInv'
<1> DEFINE e == Head(events)
<1>1. /\ Receive("toplevel_configure", 0)
      /\ next_configure' = IF e.width = 0 \/ e.height = 0 THEN next_configure
                           ELSE [next_configure EXCEPT !.width = e.width,
                                                       !.height = e.height]
      /\ UNCHANGED <<slots, surface, requests, compositorVars, acked_first_configure,
                     current_configure, countdown>>
  BY DEF xdg_toplevel_handle_configure, clientVars
<1>2. /\ events # <<>> /\ e.type = "toplevel_configure" /\ events' = Tail(events)
      /\ surface \in Surfaces /\ requests \in Seq(Requests)
      /\ UNCHANGED <<serial, wanted, acked, shown, frames>>
      /\ ConfigureInv'
      /\ Handled' = Handled /\ Stored = Handled /\ Stored' = Handled + 1
      /\ e \in Toplevels
      /\ wanted[Handled + 1] = InEffect(e, wanted[Handled])
      /\ LateFits' = LateFits
  BY <1>1, EventTaken
<1>3. /\ SurfaceInv /\ SlowType /\ Waiting /\ Serials /\ Stores /\ Frames
  BY DEF SlowInv
<1> HIDE DEF e
<1>4. Send(<<>>) /\ <<>> \in Seq(Requests)
  BY <1>1, <1>2 DEF Send
<1>5. SurfaceInv'
  BY <1>1, <1>2, <1>3, <1>4, CountEmpty, SendKeeps DEF e
<1>6. Owing' = Owing
  <2>1. Owing' = Owing + Count(<<>>, Asking) - 0
    BY <1>2, <1>3, <1>4, OwingHandled DEF e
  <2> QED BY <1>3, <2>1, CountEmpty, OwingNat
<1>7. SlowType' /\ next_configure'.serial = next_configure.serial
  BY <1>1, <1>2, <1>3 DEF SlowType, Configure, Toplevels
<1>8. Waiting'
  BY <1>1, <1>3, <1>6 DEF Waiting
<1>9. Serials'
  BY <1>1, <1>2, <1>3, <1>7 DEF Serials, Bound
<1>10. Stores'
  <2>1. Says(next_configure', wanted, Handled + 1)
    <3>1. CASE e.width = 0 \/ e.height = 0
      BY <1>1, <1>2, <1>3, <3>1 DEF Stores, Says, InEffect
    <3>2. CASE ~(e.width = 0 \/ e.height = 0)
      <4>1. next_configure'.width = e.width /\ next_configure'.height = e.height
        BY <1>1, <1>3, <3>2 DEF SlowType, Configure
      <4> QED BY <1>2, <3>2, <4>1 DEF Says, InEffect
    <3> QED BY <3>1, <3>2
  <2> QED BY <1>1, <1>2, <1>3, <2>1 DEF Stores, Says
<1>11. Frames'
  BY <1>1, <1>2, <1>3 DEF Frames, Filled
<1> QED BY <1>2, <1>5, <1>7, <1>8, <1>9, <1>10, <1>11 DEF SlowInv

(* The first configure is answered at once; nothing is waited for yet. *)
LEMMA SlowFirst == ASSUME SlowInv, FirstConfigure PROVE SlowInv'
<1>1. /\ Receive("configure", 2) /\ ~acked_first_configure
      /\ acked_first_configure' = TRUE
      /\ UNCHANGED <<compositorVars, current_configure, next_configure, countdown>>
  BY DEF FirstConfigure
<1>2. PICK r \in surface_render(surface) :
        /\ slots' = r.slots
        /\ surface' = r.surface
        /\ Send(Answer(Head(events).serial, r.sent))
  BY DEF FirstConfigure
<1>3. /\ events # <<>> /\ Head(events).type = "configure" /\ events' = Tail(events)
      /\ surface \in Surfaces /\ requests \in Seq(Requests)
      /\ UNCHANGED <<serial, wanted, acked, shown, frames>>
      /\ ConfigureInv' /\ Handled \in 0 .. serial /\ Handled' \in 0 .. serial
      /\ Head(events).serial = Handled + 1
      /\ Handled' = Handled + 1 /\ Stored = Handled + 1 /\ Stored' = Handled + 1
      /\ LateFits' = LateFits
  BY <1>1, EventTaken
<1>4. /\ SurfaceInv /\ SlowType /\ Waiting /\ Serials /\ Stores /\ Frames
  BY DEF SlowInv
<1>5. /\ Handled = 0 /\ countdown = 0 /\ Head(events).serial = 1 /\ Handled' = 1
      /\ Stored = 1 /\ Stored' = 1 /\ next_configure.serial = 0
  BY <1>1, <1>3, <1>4 DEF Serials, SlowType
<1> DEFINE msgs == Answer(1, r.sent)
<1>6. /\ r.sent \in Seq(Requests) /\ Send(msgs)
      /\ Filled(r.slots)
      /\ \A j \in DOMAIN r.sent :
           /\ r.sent[j] \in Commits /\ ~r.sent[j].frame
           /\ Bytes(r.sent[j].width, r.sent[j].height) =
                Bytes(surface.width, surface.height)
  BY <1>2, <1>3, <1>4, <1>5, RenderShape, RenderFilled DEF Frames
<1>7. /\ msgs \in Seq(Requests)
      /\ Count(msgs, Asking) = Count(r.sent, Asking)
      /\ \A b \in Buffers : Count(msgs, CommitsOf(b)) = Count(r.sent, CommitsOf(b))
  BY <1>6, AnswerCounts
<1>8. Count(r.sent, Asking) = 0
  <2>1. \A j \in DOMAIN r.sent : r.sent[j] \notin Asking
    BY <1>6 DEF Asking
  <2> QED BY <1>6, <2>1, CountZero
<1>9. msgs = <<ack_configure(1)>> \o r.sent
  BY DEF Answer
<1> HIDE DEF msgs
<1>10. SurfaceInv'
  BY <1>1, <1>2, <1>3, <1>4, <1>6, <1>7, DrawKeeps
<1>11. Owing' = Owing
  <2>1. Owing' = Owing + Count(msgs, Asking) - 0
    BY <1>3, <1>4, <1>6, <1>7, OwingHandled
  <2> QED BY <1>4, <1>7, <1>8, <2>1, OwingNat
<1>12. PICK G : G = LateFits
  OBVIOUS
<1>13. /\ Acknowledging(requests', acked', 1)
       /\ \E l : LastAck(requests', acked', l)
       /\ (/\ Fitting(requests, acked, shown, G)
           /\ \A j \in DOMAIN r.sent : (r.sent[j] \in Commits /\ r.sent[j].buffer # NULL) =>
                <<Bytes(r.sent[j].width, r.sent[j].height), 1>> \in G)
          => Fitting(requests', acked', shown', G)
  <2>1. Acknowledging(requests, acked, 0)
    BY <1>4, <1>5 DEF Serials, Bound
  <2>2. Send(<<ack_configure(1)>> \o r.sent) /\ 1 \in 0 + 1 .. 1
    BY <1>6, <1>9
  <2>3. \A j \in DOMAIN r.sent : r.sent[j] \in Commits \cup Empties
    BY <1>6
  <2> QED BY <1>3, <1>4, <1>6, <2>1, <2>2, <2>3, AnswerSent
<1>14. \A j \in DOMAIN r.sent : <<Bytes(r.sent[j].width, r.sent[j].height), 1>> \in G
  <2> SUFFICES ASSUME NEW j \in DOMAIN r.sent
               PROVE  <<Bytes(r.sent[j].width, r.sent[j].height), 1>> \in LateFits
    BY <1>12
  <2>1. Bytes(r.sent[j].width, r.sent[j].height) \in Int
    BY <1>6 DEF Commits, Bytes, Stride
  <2>2. 1 \in 0 .. serial
    BY <1>3, <1>5
  <2> QED BY <2>1, <2>2 DEF LateFits
<1>15. Frames'
  BY <1>2, <1>3, <1>4, <1>6, <1>12, <1>13, <1>14 DEF Frames
<1>16. Waiting'
  <2>1. \A k \in DOMAIN requests' : requests'[k] \in Commits => ~requests'[k].frame
    <3>1. \A j \in DOMAIN msgs : msgs[j] \in Commits => ~msgs[j].frame
      <4>1. \A j \in DOMAIN msgs :
              msgs[j] = ack_configure(1) \/ \E i \in DOMAIN r.sent : msgs[j] = r.sent[i]
        BY <1>6, <1>9
      <4>2. ack_configure(1) \notin Commits
        BY DEF ack_configure, Commits
      <4> QED BY <1>6, <4>1, <4>2
    <3> QED BY <1>4, <1>6, <1>7, <3>1, PlainSent DEF Waiting
  <2> QED BY <1>1, <1>4, <1>11, <2>1 DEF Waiting
<1>17. Serials'
  BY <1>1, <1>4, <1>5, <1>13 DEF Serials, Bound
<1>18. Stores'
  BY <1>1, <1>3, <1>4, <1>5 DEF Stores
<1>19. SlowType'
  BY <1>1, <1>4 DEF SlowType
<1> QED BY <1>3, <1>10, <1>15, <1>16, <1>17, <1>18, <1>19 DEF SlowInv

(* A later configure is kept, and waited for unless another one is. *)
LEMMA SlowLater == ASSUME SlowInv, LaterConfigure PROVE SlowInv'
<1> DEFINE newest == [next_configure EXCEPT !.serial = Head(events).serial]
           m == request_frame_callback
           t == IF Idle THEN <<m>> ELSE <<>>
<1>1. /\ Receive("configure", 1) /\ acked_first_configure
      /\ next_configure' = newest
      /\ IF Idle
           THEN current_configure' = newest /\ countdown' = FRAME_DELAY /\ Send(<<m>>)
           ELSE UNCHANGED <<current_configure, countdown, requests>>
      /\ UNCHANGED <<slots, surface, compositorVars, acked_first_configure>>
  BY DEF LaterConfigure, clientVars
<1>2. /\ events # <<>> /\ Head(events).type = "configure" /\ events' = Tail(events)
      /\ surface \in Surfaces /\ requests \in Seq(Requests)
      /\ UNCHANGED <<serial, wanted, acked, shown, frames>>
      /\ ConfigureInv' /\ Handled \in 0 .. serial /\ Handled' \in 0 .. serial
      /\ Head(events).serial = Handled + 1
      /\ Handled' = Handled + 1 /\ Stored = Handled + 1 /\ Stored' = Handled + 1
      /\ LateFits' = LateFits
  BY <1>1, EventTaken
<1>3. /\ SurfaceInv /\ SlowType /\ Waiting /\ Serials /\ Stores /\ Frames
  BY DEF SlowInv
<1>4. /\ Handled > 0 /\ Handled \in Nat /\ countdown \in 0 .. FRAME_DELAY
      /\ FRAME_DELAY \in Nat /\ FRAME_DELAY > 0
  BY <1>1, <1>2, <1>3, SlowAckAssumption DEF Serials, SlowType
<1>5. /\ newest \in Configure /\ newest.serial = Handled + 1
      /\ newest.width = next_configure.width /\ newest.height = next_configure.height
  <2>1. next_configure \in Configure
    BY <1>3 DEF SlowType
  <2>2. PICK s : s = Head(events).serial
    OBVIOUS
  <2>3. s = Handled + 1 /\ s \in Nat /\ newest = [next_configure EXCEPT !.serial = s]
    BY <1>2, <1>4, <2>2
  <2> HIDE DEF newest
  <2> QED BY <2>1, <2>3 DEF Configure
<1>6. m \in Empties /\ m \in Requests /\ One(m, Asking) = 1
  BY AskingCounts DEF Requests
<1>7. \A j \in DOMAIN t : t[j] \in Empties
  BY <1>6
<1>8. /\ t \in Seq(Requests)
      /\ Count(t, Asking) = IF Idle THEN 1 ELSE 0
      /\ \A b \in Buffers : Count(t, CommitsOf(b)) = 0
  <2>1. CASE Idle
    <3>1. t = <<m>>
      BY <2>1
    <3> HIDE DEF t, m
    <3> QED BY <1>6, <2>1, <3>1, CountOne, CommitCounts
  <2>2. CASE ~Idle
    <3>1. t = <<>>
      BY <2>2
    <3> HIDE DEF t
    <3> QED BY <2>2, <3>1, CountEmpty
  <2> QED BY <2>1, <2>2
<1>9. Send(t)
  BY <1>1, <1>2 DEF Send
<1> HIDE DEF newest, t, m
<1>10. SurfaceInv'
  BY <1>1, <1>2, <1>3, <1>8, <1>9, SendKeeps
<1>11. Owing' = Owing + (IF Idle THEN 1 ELSE 0)
  <2>1. Owing' = Owing + Count(t, Asking) - 0
    BY <1>2, <1>3, <1>8, <1>9, OwingHandled
  <2> QED BY <1>3, <1>8, <2>1, OwingNat
<1>12. Waiting'
  <2>1. \A j \in DOMAIN t : t[j] \in Commits => ~t[j].frame
    BY <1>7 DEF Empties, Commits
  <2>2. \A k \in DOMAIN requests' : requests'[k] \in Commits => ~requests'[k].frame
    BY <1>3, <1>8, <1>9, <2>1, PlainSent DEF Waiting
  <2>3. Owing' = IF countdown' > 0 THEN 1 ELSE 0
    BY <1>1, <1>3, <1>4, <1>11 DEF Waiting, Idle
  <2> QED BY <2>2, <2>3 DEF Waiting
<1>13. SlowType'
  BY <1>1, <1>3, <1>4, <1>5 DEF SlowType
<1>14. Bound' \in Nat /\ Bound \in Nat /\ Bound <= Bound'
       /\ (countdown' > 0 => current_configure'.serial \in 2 .. Handled')
  <2>1. CASE Idle
    <3>1. countdown = 0 /\ countdown' > 0 /\ current_configure'.serial = Handled + 1
      BY <1>1, <1>4, <1>5, <2>1 DEF Idle
    <3>2. Bound = Handled /\ Bound' = Handled
      BY <1>4, <3>1 DEF Bound
    <3> QED BY <1>2, <1>4, <3>1, <3>2
  <2>2. CASE ~Idle
    <3>1. /\ countdown > 0 /\ countdown' = countdown
          /\ current_configure' = current_configure
          /\ current_configure.serial \in 2 .. Handled
      BY <1>1, <1>3, <1>4, <2>2 DEF Idle, Serials
    <3>2. Bound = current_configure.serial - 1 /\ Bound' = Bound
      BY <3>1 DEF Bound
    <3> QED BY <1>2, <1>4, <3>1, <3>2
  <2> QED BY <2>1, <2>2
<1>15. PICK G : G = LateFits
  OBVIOUS
<1>16. PICK n : n = Bound
  OBVIOUS
<1>17. PICK p : p = Bound'
  OBVIOUS
<1>18. /\ Acknowledging(requests', acked', p)
       /\ \E s : LastAck(requests', acked', s)
       /\ Fitting(requests, acked, shown, G) => Fitting(requests', acked', shown', G)
  <2>1. /\ Acknowledging(requests, acked, n) /\ p \in Nat /\ n <= p
        /\ \E s : LastAck(requests, acked, s)
    BY <1>3, <1>14, <1>16, <1>17 DEF Serials, Frames
  <2>2. acked' = acked /\ shown' = shown
    BY <1>2
  <2> QED BY <1>3, <1>7, <1>8, <1>9, <2>1, <2>2, CallbackSent
<1>19. Serials'
  BY <1>1, <1>2, <1>3, <1>4, <1>5, <1>14, <1>17, <1>18 DEF Serials
<1>20. Stores'
  <2>1. Says(newest, wanted, Handled + 1)
    BY <1>2, <1>3, <1>5 DEF Stores, Says
  <2>2. Says(next_configure', wanted', Stored')
    BY <1>1, <1>2, <2>1
  <2>3. CASE Idle
    BY <1>1, <1>2, <1>5, <2>1, <2>2, <2>3 DEF Stores
  <2>4. CASE ~Idle
    BY <1>1, <1>2, <1>3, <2>2, <2>4 DEF Stores
  <2> QED BY <2>3, <2>4
<1>21. Frames'
  BY <1>1, <1>2, <1>3, <1>15, <1>18 DEF Frames
<1> QED BY <1>2, <1>10, <1>12, <1>13, <1>19, <1>20, <1>21 DEF SlowInv

(* A callback fires only for a client that waits. *)
LEMMA FiresWaiting ==
  ASSUME SlowInv, events # <<>>, Head(events).type = "done"
  PROVE  countdown \in 1 .. FRAME_DELAY
<1>1. /\ requests \in Seq(Requests) /\ events \in Seq(Events) /\ frames \in Nat
  BY DEF SlowInv, SurfaceInv, SurfaceType
<1>2. Head(events) \in Dones /\ Tail(events) \in Seq(Events)
  BY <1>1, CountTail, EventTypes
<1>3. Count(events, Dones) = 1 + Count(Tail(events), Dones)
  BY <1>1, <1>2, CountTail DEF One
<1>4. Count(Tail(events), Dones) \in Nat /\ Count(requests, Asking) \in Nat
  BY <1>1, <1>2, CountFinite
<1>5. Owing > 0
  BY <1>1, <1>3, <1>4 DEF Owing
<1> QED BY <1>5 DEF SlowInv, Waiting, SlowType

(* Another frame is waited for. *)
LEMMA SlowKeep == ASSUME SlowInv, KeepWaiting PROVE SlowInv'
<1> DEFINE m == request_frame_callback
           t == <<m>>
<1>1. /\ Receive("done", 1)
      /\ Decremented(countdown) > 0 /\ countdown' = Decremented(countdown)
      /\ Send(t)
      /\ UNCHANGED <<slots, surface, compositorVars, acked_first_configure,
                     current_configure, next_configure>>
  BY DEF KeepWaiting, clientVars
<1>2. /\ events # <<>> /\ Head(events).type = "done" /\ events' = Tail(events)
      /\ surface \in Surfaces /\ requests \in Seq(Requests)
      /\ UNCHANGED <<serial, wanted, acked, shown, frames>>
      /\ ConfigureInv' /\ Handled \in 0 .. serial
      /\ Handled' = Handled /\ Stored = Handled /\ Stored' = Handled
      /\ LateFits' = LateFits
  BY <1>1, EventTaken
<1>3. /\ SurfaceInv /\ SlowType /\ Waiting /\ Serials /\ Stores /\ Frames
  BY DEF SlowInv
<1>4. /\ countdown \in 1 .. FRAME_DELAY /\ FRAME_DELAY \in Nat
      /\ countdown' = countdown - 1 /\ countdown' > 0
  BY <1>1, <1>2, FiresWaiting, CountedDown, SlowAckAssumption
<1>5. m \in Empties /\ m \in Requests /\ One(m, Asking) = 1
  BY AskingCounts DEF Requests
<1> HIDE DEF m
<1>6. /\ t \in Seq(Requests) /\ \A j \in DOMAIN t : t[j] \in Empties
      /\ Count(t, Asking) = 1 /\ \A b \in Buffers : Count(t, CommitsOf(b)) = 0
  BY <1>5, CountOne, CommitCounts
<1> HIDE DEF t
<1>7. SurfaceInv'
  BY <1>1, <1>2, <1>3, <1>6, SendKeeps
<1>8. Owing' = Owing
  <2>1. Owing' = Owing + Count(t, Asking) - 1
    BY <1>1, <1>2, <1>3, <1>6, OwingHandled
  <2> QED BY <1>3, <1>6, <2>1, OwingNat
<1>9. Waiting'
  <2>1. \A j \in DOMAIN t : t[j] \in Commits => ~t[j].frame
    BY <1>6 DEF Empties, Commits
  <2>2. \A k \in DOMAIN requests' : requests'[k] \in Commits => ~requests'[k].frame
    BY <1>1, <1>3, <1>6, <2>1, PlainSent DEF Waiting
  <2> QED BY <1>3, <1>4, <1>8, <2>2 DEF Waiting
<1>10. SlowType'
  BY <1>1, <1>3, <1>4 DEF SlowType
<1>11. Bound' = Bound /\ Bound \in Nat
  BY <1>1, <1>3, <1>4 DEF Bound, Serials, Acknowledging
<1>12. PICK G : G = LateFits
  OBVIOUS
<1>13. PICK n : n = Bound
  OBVIOUS
<1>14. /\ Acknowledging(requests', acked', n)
       /\ \E s : LastAck(requests', acked', s)
       /\ Fitting(requests, acked, shown, G) => Fitting(requests', acked', shown', G)
  <2>1. /\ Acknowledging(requests, acked, n) /\ n \in Nat /\ n <= n
        /\ \E s : LastAck(requests, acked, s)
    BY <1>3, <1>11, <1>13 DEF Serials, Frames
  <2>2. acked' = acked /\ shown' = shown
    BY <1>2
  <2> QED BY <1>1, <1>3, <1>6, <2>1, <2>2, CallbackSent
<1>15. Serials'
  BY <1>1, <1>2, <1>3, <1>4, <1>11, <1>13, <1>14 DEF Serials
<1>16. Stores'
  BY <1>1, <1>2, <1>3, <1>4 DEF Stores
<1>17. Frames'
  BY <1>1, <1>2, <1>3, <1>12, <1>14 DEF Frames
<1> QED BY <1>2, <1>7, <1>9, <1>10, <1>15, <1>16, <1>17 DEF SlowInv

(* The wait is over: what was waited for is acknowledged and drawn, and what has
   come meanwhile is waited for. *)
LEMMA SlowOver == ASSUME SlowInv, WaitOver PROVE SlowInv'
<1> DEFINE f == request_frame_callback
           c == current_configure.serial
<1>1. /\ Receive("done", 3) /\ Decremented(countdown) = 0
      /\ UNCHANGED <<compositorVars, acked_first_configure, next_configure>>
  BY DEF WaitOver
<1>2. PICK r \in surface_render(LateSurface) :
        /\ slots' = r.slots
        /\ surface' = r.surface
        /\ IF Superseded
             THEN /\ countdown' = FRAME_DELAY
                  /\ current_configure' = next_configure
                  /\ Send(Append(Answer(c, r.sent), f))
             ELSE /\ countdown' = 0
                  /\ Send(Answer(c, r.sent))
                  /\ UNCHANGED current_configure
  BY DEF WaitOver, LateSerial
<1>3. /\ events # <<>> /\ Head(events).type = "done" /\ events' = Tail(events)
      /\ surface \in Surfaces /\ requests \in Seq(Requests)
      /\ UNCHANGED <<serial, wanted, acked, shown, frames>>
      /\ ConfigureInv' /\ Handled \in 0 .. serial
      /\ Handled' = Handled /\ Stored = Handled /\ Stored' = Handled
      /\ LateFits' = LateFits
  BY <1>1, EventTaken
<1>4. /\ SurfaceInv /\ SlowType /\ Waiting /\ Serials /\ Stores /\ Frames
  BY DEF SlowInv
<1>5. /\ countdown \in 1 .. FRAME_DELAY /\ FRAME_DELAY \in Nat /\ FRAME_DELAY > 0
      /\ c \in 2 .. Handled /\ Handled \in Nat /\ c \in Nat
      /\ next_configure.serial = Handled
      /\ Acknowledging(requests, acked, c - 1)
      /\ Says(current_configure, wanted, c)
      /\ Says(next_configure, wanted, Handled)
  <2>1. countdown \in 1 .. FRAME_DELAY /\ FRAME_DELAY \in Nat /\ FRAME_DELAY > 0
    BY <1>3, FiresWaiting, SlowAckAssumption
  <2>2. countdown > 0
    BY <2>1
  <2>3. c \in 2 .. Handled /\ Handled \in Nat /\ c \in Nat
    BY <1>3, <1>4, <2>2 DEF Serials
  <2> QED BY <1>3, <1>4, <2>1, <2>2, <2>3 DEF Serials, Bound, Stores
<1>6. LateSurface \in Surfaces /\ LateSurface.width = current_configure.width
      /\ LateSurface.height = current_configure.height
  BY <1>3, <1>4 DEF LateSurface, Surfaces, SlowType, Configure
<1>7. /\ r.sent \in Seq(Requests)
      /\ Filled(r.slots)
      /\ \A j \in DOMAIN r.sent :
           /\ r.sent[j] \in Commits /\ ~r.sent[j].frame
           /\ Bytes(r.sent[j].width, r.sent[j].height) =
                Bytes(current_configure.width, current_configure.height)
           /\ r.sent[j].buffer # NULL =>
                Bytes(current_configure.width, current_configure.height) # 0
  BY <1>2, <1>4, <1>6, RenderShape, RenderFilled DEF Frames
<1>8. f \in Empties /\ f \in Requests /\ One(f, Asking) = 1
  BY AskingCounts DEF Requests
<1> HIDE DEF f, c
<1> DEFINE t == IF Superseded THEN r.sent \o <<f>> ELSE r.sent
           a == ack_configure(c)
           msgs == <<a>> \o t
<1>9. Send(msgs)
  BY <1>2, <1>5, <1>7, <1>8, AnswerAppend DEF Answer
<1>10. Count(r.sent, Asking) = 0
  <2>1. \A j \in DOMAIN r.sent : r.sent[j] \notin Asking
    BY <1>7 DEF Asking
  <2> QED BY <1>7, <2>1, CountZero
<1>11. /\ t \in Seq(Requests)
       /\ \A j \in DOMAIN t : t[j] = f \/ \E i \in DOMAIN r.sent : t[j] = r.sent[i]
       /\ Count(t, Asking) = IF Superseded THEN 1 ELSE 0
       /\ \A b \in Buffers : Count(t, CommitsOf(b)) = Count(r.sent, CommitsOf(b))
  <2>1. CASE Superseded
    <3>1. t = r.sent \o <<f>>
      BY <2>1
    <3> HIDE DEF t
    <3>2. <<f>> \in Seq(Requests) /\ t \in Seq(Requests)
      BY <1>7, <1>8, <3>1
    <3>3. \A j \in DOMAIN t : t[j] = f \/ \E i \in DOMAIN r.sent : t[j] = r.sent[i]
      BY <1>7, <3>1
    <3>4. ASSUME NEW M
          PROVE  Count(t, M) = Count(r.sent, M) + One(f, M) /\ Count(r.sent, M) \in Nat
      <4>1. Count(t, M) = Count(r.sent, M) + Count(<<f>>, M)
        BY <1>7, <3>1, <3>2, CountConcat
      <4>2. Count(r.sent, M) \in Nat
        BY <1>7, CountFinite
      <4> QED BY <4>1, <4>2, CountOne
    <3>5. \A b \in Buffers : Count(t, CommitsOf(b)) = Count(r.sent, CommitsOf(b))
      <4> SUFFICES ASSUME NEW b \in Buffers
                   PROVE  Count(t, CommitsOf(b)) = Count(r.sent, CommitsOf(b))
        OBVIOUS
      <4>1. One(f, CommitsOf(b)) = 0
        BY <1>8, CommitCounts
      <4> QED BY <3>4, <4>1
    <3> QED BY <1>8, <1>10, <2>1, <3>2, <3>3, <3>4, <3>5
  <2>2. CASE ~Superseded
    <3>1. t = r.sent
      BY <2>2
    <3> HIDE DEF t
    <3> QED BY <1>7, <1>10, <2>2, <3>1
  <2> QED BY <2>1, <2>2
<1>12. /\ msgs \in Seq(Requests)
       /\ Count(msgs, Asking) = Count(t, Asking)
       /\ \A b \in Buffers : Count(msgs, CommitsOf(b)) = Count(r.sent, CommitsOf(b))
  BY <1>5, <1>11, AnswerCounts DEF Answer
<1>13. a \notin Commits
  BY DEF ack_configure, Commits
<1>14. a = ack_configure(c)
  OBVIOUS
<1>15. msgs = <<a>> \o t
  OBVIOUS
<1> HIDE DEF t, a, msgs
<1>16. SurfaceInv'
  BY <1>1, <1>2, <1>3, <1>4, <1>6, <1>9, <1>12, DrawKeeps
<1>17. Owing' = IF Superseded THEN 1 ELSE 0
  <2>1. Owing' = Owing + Count(msgs, Asking) - 1
    BY <1>3, <1>4, <1>9, <1>12, OwingHandled
  <2>2. Owing = 1
    BY <1>4, <1>5 DEF Waiting
  <2> QED BY <1>11, <1>12, <2>1, <2>2
<1>18. \A j \in DOMAIN t : t[j] \in Commits \cup Empties /\ (t[j] \in Commits => ~t[j].frame)
  BY <1>7, <1>8, <1>11 DEF Commits, Empties
<1>19. Waiting'
  <2>1. \A j \in DOMAIN msgs : msgs[j] \in Commits => ~msgs[j].frame
    <3>1. \A j \in DOMAIN msgs : msgs[j] = a \/ \E i \in DOMAIN t : msgs[j] = t[i]
      BY <1>11, <1>15
    <3> QED BY <1>13, <1>18, <3>1
  <2>2. \A k \in DOMAIN requests' : requests'[k] \in Commits => ~requests'[k].frame
    BY <1>4, <1>9, <1>12, <2>1, PlainSent DEF Waiting
  <2>3. Owing' = IF countdown' > 0 THEN 1 ELSE 0
    BY <1>2, <1>5, <1>17
  <2> QED BY <2>2, <2>3 DEF Waiting
<1>20. SlowType'
  BY <1>1, <1>2, <1>4, <1>5 DEF SlowType
<1>21. /\ Bound' \in Nat /\ c \in (c - 1) + 1 .. Bound'
       /\ countdown' > 0 => current_configure'.serial \in 2 .. Handled'
  <2>1. CASE Superseded
    <3>1. current_configure' = next_configure /\ countdown' > 0 /\ Handled # c
      BY <1>2, <1>5, <2>1 DEF Superseded, c
    <3>2. Bound' = Handled - 1
      BY <1>5, <3>1 DEF Bound
    <3> QED BY <1>3, <1>5, <3>1, <3>2
  <2>2. CASE ~Superseded
    <3>1. countdown' = 0 /\ Bound' = Handled
      BY <1>2, <1>3, <2>2 DEF Bound
    <3> QED BY <1>5, <3>1
  <2> QED BY <2>1, <2>2
<1>22. PICK G : G = LateFits
  OBVIOUS
<1>23. PICK p : p = Bound'
  OBVIOUS
<1>24. PICK s : s = c
  OBVIOUS
<1>25. /\ Acknowledging(requests', acked', p)
       /\ \E l : LastAck(requests', acked', l)
       /\ (/\ Fitting(requests, acked, shown, G)
           /\ \A j \in DOMAIN t : (t[j] \in Commits /\ t[j].buffer # NULL) =>
                <<Bytes(t[j].width, t[j].height), s>> \in G)
          => Fitting(requests', acked', shown', G)
  <2>1. /\ Acknowledging(requests, acked, s - 1) /\ s \in Nat /\ p \in Nat
        /\ s \in (s - 1) + 1 .. p
    BY <1>5, <1>21, <1>23, <1>24
  <2>2. Send(<<ack_configure(s)>> \o t)
    BY <1>9, <1>14, <1>15, <1>24
  <2>3. \A j \in DOMAIN t : t[j] \in Commits \cup Empties
    BY <1>18
  <2>4. acked' = acked /\ shown' = shown
    BY <1>3
  <2> QED BY <1>4, <1>11, <2>1, <2>2, <2>3, <2>4, AnswerSent
<1>26. ASSUME NEW j \in DOMAIN t, t[j] \in Commits, t[j].buffer # NULL
       PROVE  <<Bytes(t[j].width, t[j].height), c>> \in LateFits
  <2>1. t[j] # f
    BY <1>8, <1>26 DEF Commits, Empties
  <2>2. PICK i \in DOMAIN r.sent : t[j] = r.sent[i]
    BY <1>11, <2>1
  <2>3. /\ Bytes(t[j].width, t[j].height) =
             Bytes(current_configure.width, current_configure.height)
        /\ Bytes(current_configure.width, current_configure.height) # 0
    BY <1>7, <1>26, <2>2
  <2>4. ~(current_configure.width = 0 /\ current_configure.height = 0)
    BY <2>3 DEF Bytes, Stride
  <2>5. <<current_configure.width, current_configure.height>> = wanted[c]
    BY <1>5, <2>4 DEF Says
  <2>6. Bytes(t[j].width, t[j].height) = Bytes(wanted[c][1], wanted[c][2])
    BY <2>3, <2>5
  <2>7. Bytes(t[j].width, t[j].height) \in Int
    BY <1>26 DEF Commits, Bytes, Stride
  <2>8. c \in 0 .. serial
    <3>1. serial \in Nat
      BY <1>4, SurfaceAssumption DEF SurfaceInv, SurfaceType
    <3> QED BY <1>3, <1>5, <3>1
  <2> QED BY <2>6, <2>7, <2>8 DEF LateFits
<1>27. Frames'
  BY <1>2, <1>3, <1>4, <1>7, <1>22, <1>24, <1>25, <1>26 DEF Frames
<1>28. Serials'
  BY <1>1, <1>3, <1>4, <1>21, <1>23, <1>25 DEF Serials
<1>29. Stores'
  <2>1. CASE Superseded
    BY <1>1, <1>2, <1>3, <1>5, <2>1 DEF Stores
  <2>2. CASE ~Superseded
    BY <1>1, <1>2, <1>3, <1>5, <2>2 DEF Stores
  <2> QED BY <2>1, <2>2
<1> QED BY <1>3, <1>16, <1>19, <1>20, <1>27, <1>28, <1>29 DEF SlowInv

(* A release concerns the slots only. *)
LEMMA SlowRelease ==
  ASSUME SlowInv, buffer_handle_release, UNCHANGED slowVars
  PROVE  SlowInv'
<1>1. /\ Receive("release", 0)
      /\ slots' = [i \in Slots |-> Freed(slots[i], Head(events).buffer)]
      /\ UNCHANGED <<surface, requests, compositorVars, acked_first_configure,
                     current_configure, next_configure, countdown>>
  BY DEF buffer_handle_release, slowVars
<1>2. /\ events # <<>> /\ Head(events).type = "release" /\ events' = Tail(events)
      /\ requests \in Seq(Requests)
      /\ UNCHANGED <<serial, wanted, acked, shown, frames>>
      /\ ConfigureInv'
      /\ Handled' = Handled /\ Stored = Handled /\ Stored' = Handled
      /\ LateFits' = LateFits
  BY <1>1, EventTaken
<1>3. /\ SurfaceInv /\ SlowType /\ Waiting /\ Serials /\ Stores /\ Frames
      /\ slots \in [Slots -> Slot]
  BY DEF SlowInv, SurfaceInv, SurfaceType
<1>4. SurfaceInv'
  BY <1>3, ReleaseHandled
<1>5. Owing' = Owing
  <2>1. Send(<<>>) /\ <<>> \in Seq(Requests)
    BY <1>1, <1>2 DEF Send
  <2>2. Owing' = Owing + Count(<<>>, Asking) - 0
    BY <1>2, <1>3, <2>1, OwingHandled
  <2> QED BY <1>3, <2>2, CountEmpty, OwingNat
<1>6. Filled(slots')
  <2>1. \A i \in Slots : /\ slots'[i].buffer = slots[i].buffer
                         /\ slots'[i].width = slots[i].width
                         /\ slots'[i].height = slots[i].height
    BY <1>1, <1>3 DEF Freed, Slot
  <2> QED BY <1>3, <2>1 DEF Frames, Filled
<1>7. SlowType' /\ Waiting'
  BY <1>1, <1>3, <1>5 DEF SlowType, Waiting
<1>8. Serials' /\ Stores'
  BY <1>1, <1>2, <1>3 DEF Serials, Bound, Stores
<1>9. Frames'
  BY <1>1, <1>2, <1>3, <1>6 DEF Frames
<1> QED BY <1>2, <1>4, <1>7, <1>8, <1>9 DEF SlowInv

(* The compositor reads and sends. *)
LEMMA SlowCompositor == ASSUME SlowInv, Compositor PROVE SlowInv'
<1>1. /\ SurfaceInv /\ ConfigureInv /\ SlowType /\ Waiting /\ Serials /\ Stores
      /\ Frames
      /\ UNCHANGED <<acked_first_configure, current_configure, next_configure,
                     countdown>>
  BY DEF SlowInv, Compositor, slowVars
<1>2. SurfaceInv' /\ Owing' = Owing
  BY <1>1, CompositorKeeps DEF Compositor
<1>3. /\ ConfigureInv' /\ Handled' = Handled /\ Stored' = Stored
      /\ serial' \in Nat /\ serial <= serial'
      /\ \A s \in 0 .. serial : wanted'[s] = wanted[s]
  BY <1>1, ConfigureKept DEF Compositor
<1>4. slots' = slots
  BY DEF Compositor, CompositorReads, ReceiveAck, ReceiveEmpty, ReceiveCommit,
         CompositorReceive, Release, SendConfigure, SendDone, clientVars
<1>5. /\ Handled \in 0 .. serial /\ serial \in Nat
      /\ countdown > 0 => current_configure.serial \in 0 .. serial
  <2>1. Handled \in 0 .. serial /\ serial \in Nat
    BY <1>1, SurfaceAssumption DEF ConfigureInv, Configuring, SurfaceInv, SurfaceType
  <2>2. countdown > 0 => current_configure.serial \in 2 .. Handled
    BY <1>1 DEF Serials
  <2> QED BY <2>1, <2>2
<1>6. Stored \in 0 .. serial
  <2>1. CASE events # <<>> /\ Head(events) \in Configures
    <3>1. events \in Seq(Events)
      BY <1>1 DEF SurfaceInv, SurfaceType
    <3>2. 1 \in DOMAIN events /\ events[1] \in Configures
      BY <2>1, <3>1
    <3>3. events[1].serial \in Handled + 1 .. serial
      BY <1>1, <3>2 DEF ConfigureInv, Configuring
    <3> QED BY <1>5, <2>1, <3>3 DEF Stored
  <2>2. CASE ~(events # <<>> /\ Head(events) \in Configures)
    BY <1>5, <2>2 DEF Stored
  <2> QED BY <2>1, <2>2
<1>7. Stores'
  <2>1. /\ wanted'[Stored] = wanted[Stored]
        /\ countdown > 0 =>
             wanted'[current_configure.serial] = wanted[current_configure.serial]
    BY <1>3, <1>5, <1>6
  <2> QED BY <1>1, <1>3, <2>1 DEF Stores, Says
<1>8. LateFits \subseteq LateFits'
  <2> SUFFICES ASSUME NEW p \in LateFits PROVE p \in LateFits'
    OBVIOUS
  <2>1. /\ p \in Int \X (0 .. serial') /\ wanted'[p[2]] = wanted[p[2]]
    BY <1>3, <1>5 DEF LateFits
  <2> QED BY <2>1 DEF LateFits, Bytes, Stride
<1>9. SlowType' /\ Bound' = Bound
  BY <1>1, <1>3 DEF SlowType, Bound
<1>10. PICK G : G = LateFits
  OBVIOUS
<1>11. PICK n : n = Bound
  OBVIOUS
<1>12. /\ \A k \in DOMAIN requests : requests[k] \in Commits => ~requests[k].frame
       /\ Fitting(requests, acked, shown, G)
       /\ Acknowledging(requests, acked, n)
  BY <1>1, <1>10, <1>11 DEF Waiting, Frames, Serials
<1>13. /\ \A k \in DOMAIN requests' : requests'[k] \in Commits => ~requests'[k].frame
       /\ Fitting(requests', acked', shown', G)
       /\ Acknowledging(requests', acked', n)
       /\ \E s : LastAck(requests', acked', s)
  <2>1. CASE CompositorReads
    <3>1. /\ requests \in Seq(Requests) /\ requests # <<>>
          /\ requests' = Tail(requests)
          /\ acked' = AckedBy(Head(requests), acked)
          /\ shown' = ShownBy(Head(requests), acked, shown)
      BY <1>1, <2>1, ShownRead
    <3>2. PICK s : LastAck(requests, acked, s)
      BY <1>1 DEF Frames
    <3>3. /\ LastAck(Tail(requests), AckedBy(Head(requests), acked), s)
          /\ Fitting(Tail(requests), AckedBy(Head(requests), acked),
                     ShownBy(Head(requests), acked, shown), G)
      BY <1>12, <3>1, <3>2, AnswersTail
    <3>4. Acknowledging(Tail(requests), AckedBy(Head(requests), acked), n)
      BY <1>12, <3>1, AcknowledgingTail
    <3>5. \A k \in DOMAIN Tail(requests) :
            k + 1 \in DOMAIN requests /\ Tail(requests)[k] = requests[k + 1]
      BY <3>1
    <3> QED BY <1>12, <3>1, <3>3, <3>4, <3>5
  <2>2. CASE ~CompositorReads
    <3>1. UNCHANGED <<requests, acked, shown>>
      BY <2>2 DEF Compositor, Release, SendConfigure, SendDone
    <3>2. \E s : LastAck(requests, acked, s)
      BY <1>1 DEF Frames
    <3> QED BY <1>12, <3>1, <3>2
  <2> QED BY <2>1, <2>2
<1>14. Fitting(requests', acked', shown', LateFits')
  BY <1>8, <1>10, <1>13, FittingMore
<1>15. Frames'
  BY <1>1, <1>4, <1>13, <1>14 DEF Frames
<1>16. Waiting'
  BY <1>1, <1>2, <1>13 DEF Waiting
<1>17. Serials'
  BY <1>1, <1>3, <1>9, <1>11, <1>13 DEF Serials
<1> QED BY <1>2, <1>3, <1>7, <1>9, <1>15, <1>16, <1>17 DEF SlowInv

(* Every step keeps the invariant. *)
LEMMA SlowStep == SlowInv /\ [Next]_vars => SlowInv'
<1> SUFFICES ASSUME SlowInv, [Next]_vars PROVE SlowInv'
  OBVIOUS
<1>1. CASE Dispatch
  BY <1>1, SlowToplevel, SlowFirst, SlowLater, SlowKeep, SlowOver, SlowRelease
  DEF Dispatch, xdg_surface_handle_configure, callback_handle_done
<1>2. CASE Compositor
  BY <1>2, SlowCompositor
<1>3. CASE UNCHANGED vars
  <2>1. /\ UNCHANGED <<slots, surface, requests, events, ready, serial, wanted, acked,
                       held, shown, frames>>
        /\ UNCHANGED <<acked_first_configure, current_configure, next_configure,
                       countdown>>
    BY <1>3 DEF vars, surfaceVars, clientVars, compositorVars, slowVars
  <2>2. SurfaceInv' /\ ConfigureInv' /\ Handled' = Handled /\ Stored' = Stored
    BY <2>1 DEF SlowInv, SurfaceInv, SurfaceType, BusyCounted, Where, ConfigureInv,
       Handled, Stored
  <2>3. SlowType' /\ Waiting' /\ Serials'
    BY <2>1, <2>2 DEF SlowInv, SlowType, Waiting, Owing, Serials, Bound
  <2>4. Stores' /\ Frames'
    BY <2>1, <2>2 DEF SlowInv, Stores, Frames, LateFits
  <2> QED BY <2>2, <2>3, <2>4 DEF SlowInv
<1> QED BY <1>1, <1>2, <1>3 DEF Next

(* It holds at the start. *)
LEMMA SlowStart == Init => SlowInv
<1> SUFFICES ASSUME Init PROVE SlowInv
  OBVIOUS
<1> DEFINE e == [type |-> "empty", frame |-> FALSE]
<1>1. /\ SurfaceInit(<<>>) /\ acked_first_configure = FALSE
      /\ current_configure = NoConfigure /\ next_configure = NoConfigure
      /\ countdown = 0
  BY DEF Init
<1>2. /\ slots = [i \in Slots |-> EmptySlot]
      /\ requests = <<e>> \o <<>> /\ events = <<>> /\ serial = 0 /\ acked = 0
      /\ shown = Nothing /\ frames = 0
  BY <1>1 DEF SurfaceInit, PoolInit
<1>3. e \notin Acks /\ e \notin Commits /\ e \notin Asking /\ e \in Requests
  BY DEF Acks, Commits, Asking, Empties, Requests
<1> HIDE DEF e
<1>4. /\ requests \in Seq(Requests)
      /\ \A k \in DOMAIN requests : requests[k] = e
  <2>1. <<e>> \in Seq(Requests) /\ <<>> \in Seq(Requests)
    BY <1>3
  <2> QED BY <1>2, <2>1
<1>5. SurfaceInv
  <2>1. <<>> \in Seq(Requests) /\ \A b \in Buffers : Count(<<>>, CommitsOf(b)) = 0
    BY CountEmpty
  <2> QED BY <1>1, <2>1, SurfaceStarts
<1>6. ConfigureInv /\ Handled = 0 /\ Stored = 0
  BY <1>2, ConfigureStarts
<1>7. SlowType
  <2>1. NoConfigure \in Configure
    BY DEF NoConfigure, Configure
  <2>2. 0 \in 0 .. FRAME_DELAY
    BY SlowAckAssumption
  <2> QED BY <1>1, <2>1, <2>2 DEF SlowType
<1>8. Waiting
  <2>1. Count(requests, Asking) = 0 /\ Count(events, Dones) = 0
    BY <1>2, <1>3, <1>4, CountZero, CountEmpty
  <2>2. Owing = 0
    BY <1>2, <2>1 DEF Owing
  <2> QED BY <1>1, <1>3, <1>4, <2>2 DEF Waiting
<1>9. Serials
  <2>1. Acknowledging(requests, acked, Bound)
    BY <1>1, <1>2, <1>3, <1>4, <1>6 DEF Acknowledging, Bound
  <2> QED BY <1>1, <1>6, <2>1 DEF Serials, NoConfigure
<1>10. Stores
  BY <1>1 DEF Stores, Says, NoConfigure
<1>11. Frames
  <2>1. Filled(slots)
    BY <1>2 DEF Filled, EmptySlot
  <2>2. Fitting(requests, acked, shown, LateFits)
    BY <1>2, <1>3, <1>4 DEF Fitting, Nothing
  <2>3. LastAck(requests, acked, 0)
    <3>1. \A k \in 1 .. Len(requests) : requests[k] \notin Acks
      BY <1>3, <1>4
    <3>2. (Len(requests) + 1) - 1 = Len(requests)
      BY <1>4
    <3> QED BY <1>2, <3>1, <3>2 DEF LastAck, AckBefore
  <2> QED BY <2>1, <2>2, <2>3 DEF Frames
<1> QED BY <1>5, <1>6, <1>7, <1>8, <1>9, <1>10, <1>11 DEF SlowInv

-------------------------------------------------------------------------------
(* Every variable of slow-ack-configure keeps its type, and what it keeps of the
   configures agrees with what is in the socket. *)
THEOREM SlowInvariant == Spec => []SlowInv
BY SlowStart, SlowStep, PTL DEF Spec

(* One callback is outstanding while the client waits and none otherwise, so that
   countdown never wraps. *)
THEOREM OneCallback == Spec => []OneCallbackWhileWaiting
<1>1. SlowInv => OneCallbackWhileWaiting
  <2> SUFFICES ASSUME SlowInv PROVE Callbacks = Owing
    BY DEF SlowInv, Waiting, OneCallbackWhileWaiting
  <2>1. /\ \A k \in DOMAIN requests : requests[k] \in Requests
        /\ \A k \in DOMAIN events : events[k] \in Events
        /\ \A k \in DOMAIN requests : requests[k] \in Commits => ~requests[k].frame
    BY DEF SlowInv, SurfaceInv, SurfaceType, Waiting
  <2>2. \A k \in DOMAIN requests :
          (requests[k].type = "empty" /\ requests[k].frame) <=> requests[k] \in Asking
    BY <2>1, RequestTypes DEF Asking
  <2>3. \A k \in DOMAIN events : events[k].type = "done" <=> events[k] \in Dones
    BY <2>1, EventTypes
  <2>4. {k \in DOMAIN requests : /\ requests[k].type = "empty"
                                 /\ requests[k].frame} = At(requests, Asking)
    BY <2>2 DEF At
  <2>5. {k \in DOMAIN events : events[k].type = "done"} = At(events, Dones)
    BY <2>3 DEF At
  <2> QED BY <2>4, <2>5 DEF Callbacks, Owing, Count
<1> QED BY <1>1, SlowInvariant, PTL

(* Serials are acknowledged in the order they were sent, none of them twice. *)
THEOREM AcksOrdered == Spec => []AcksInOrder
<1>1. SlowInv => AcksInOrder
  <2> SUFFICES ASSUME SlowInv, NEW k \in DOMAIN requests, requests[k].type = "ack"
               PROVE  /\ requests[k].serial \in (acked + 1) .. serial
                      /\ \A j \in 1 .. k - 1 : requests[j].type = "ack" =>
                            requests[j].serial < requests[k].serial
    BY DEF AcksInOrder
  <2>1. /\ requests \in Seq(Requests)
        /\ Handled \in 0 .. serial /\ serial \in Nat
        /\ Acknowledging(requests, acked, Bound)
    BY SurfaceAssumption
    DEF SlowInv, SurfaceInv, SurfaceType, ConfigureInv, Configuring, Serials
  <2>2. Bound <= serial /\ Bound \in Nat
    <3>1. countdown > 0 => current_configure.serial \in 2 .. Handled
      BY DEF SlowInv, Serials
    <3> QED BY <2>1, <3>1 DEF Bound, Acknowledging
  <2>3. \A i \in DOMAIN requests : requests[i].type = "ack" <=> requests[i] \in Acks
    BY <2>1, RequestTypes
  <2>4. requests[k].serial \in acked + 1 .. Bound /\ acked \in Nat
    BY <2>1, <2>3 DEF Acknowledging
  <2>5. \A j \in 1 .. k - 1 : j \in DOMAIN requests
    BY <2>1
  <2>6. \A j \in 1 .. k - 1 : requests[j] \in Acks => requests[j].serial < requests[k].serial
    BY <2>1, <2>3 DEF Acknowledging
  <2> QED BY <2>1, <2>2, <2>3, <2>4, <2>5, <2>6
<1> QED BY <1>1, SlowInvariant, PTL

(* A late frame has the size of the configure it acknowledges. *)
THEOREM LateFrames == Spec => []LateFrameMatches
<1>1. SlowInv => LateFrameMatches
  <2> SUFFICES ASSUME SlowInv, shown.buffer # NULL, shown.serial > 1
               PROVE  Bytes(shown.width, shown.height) =
                        Bytes(wanted[shown.serial][1], wanted[shown.serial][2])
    BY DEF LateFrameMatches
  <2> DEFINE p == <<Bytes(shown.width, shown.height), shown.serial>>
  <2>1. p[1] = Bytes(shown.width, shown.height) /\ p[2] = shown.serial
    OBVIOUS
  <2>2. p \in LateFits
    BY DEF SlowInv, Frames, Fitting
  <2> HIDE DEF p
  <2>3. p[2] > 1 => p[1] = Bytes(wanted[p[2]][1], wanted[p[2]][2])
    BY <2>2 DEF LateFits
  <2> QED BY <2>1, <2>3
<1> QED BY <1>1, SlowInvariant, PTL
==============================================================================
