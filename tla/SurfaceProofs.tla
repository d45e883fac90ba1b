---------------------------- MODULE SurfaceProofs ----------------------------
(***************************************************************************)
(* What every program built on Surface needs: counting the messages of a   *)
(* kind in the socket, and that busy tells the truth about who holds a     *)
(* wl_buffer, for any number of wl_buffers and any length of the socket.   *)
(***************************************************************************)
EXTENDS Surface, TLAPS, FiniteSetTheorems

(* Where in a queue the messages of M are, and how many there are. *)
At(q, M) == {k \in DOMAIN q : q[k] \in M}

Count(q, M) == Cardinality(At(q, M))

One(m, M) == IF m \in M THEN 1 ELSE 0

(* An empty queue has none. *)
LEMMA CountEmpty == ASSUME NEW M PROVE Count(<<>>, M) = 0
<1>1. At(<<>>, M) = {}
  BY DEF At
<1> QED BY <1>1, FS_EmptySet DEF Count

(* Any queue has a number of them. *)
LEMMA CountFinite ==
  ASSUME NEW Q, NEW q \in Seq(Q), NEW M
  PROVE  IsFiniteSet(At(q, M)) /\ Count(q, M) \in Nat
<1>1. IsFiniteSet(1 .. Len(q))
  BY FS_Interval
<1>2. At(q, M) \in SUBSET (1 .. Len(q))
  BY DEF At
<1>3. IsFiniteSet(At(q, M))
  BY <1>1, <1>2, FS_Subset
<1> QED BY <1>3, FS_CardinalityType DEF Count

(* None, if and only if no message is in M. *)
LEMMA CountZero ==
  ASSUME NEW Q, NEW q \in Seq(Q), NEW M
  PROVE  Count(q, M) = 0 <=> \A k \in DOMAIN q : q[k] \notin M
<1>1. Count(q, M) = 0 <=> At(q, M) = {}
  BY CountFinite, FS_EmptySet DEF Count
<1> QED BY <1>1 DEF At

(* Two queues, one after the other. *)
LEMMA CountConcat ==
  ASSUME NEW Q, NEW q \in Seq(Q), NEW s \in Seq(Q), NEW M
  PROVE  Count(q \o s, M) = Count(q, M) + Count(s, M)
<1> DEFINE n == Len(q)
           T == {k \in (n + 1) .. (n + Len(s)) : s[k - n] \in M}
           f == [k \in At(s, M) |-> n + k]
<1>1. /\ n \in Nat /\ Len(s) \in Nat
      /\ DOMAIN q = 1 .. n /\ DOMAIN s = 1 .. Len(s)
      /\ DOMAIN (q \o s) = 1 .. (n + Len(s))
      /\ \A k \in 1 .. n : (q \o s)[k] = q[k]
      /\ \A k \in (n + 1) .. (n + Len(s)) : (q \o s)[k] = s[k - n]
  OBVIOUS
<1>2. At(q \o s, M) = At(q, M) \cup T
  BY <1>1 DEF At
<1>3. At(q, M) \cap T = {}
  BY <1>1 DEF At
<1>4. f \in Bijection(At(s, M), T)
  <2>1. f \in [At(s, M) -> T]
    BY <1>1 DEF At
  <2>2. \A j, k \in At(s, M) : f[j] = f[k] => j = k
    BY <1>1 DEF At
  <2>3. ASSUME NEW t \in T PROVE \E k \in At(s, M) : f[k] = t
    <3>1. t - n \in At(s, M) /\ f[t - n] = t
      BY <1>1 DEF At
    <3> QED BY <3>1
  <2>4. f \in Injection(At(s, M), T)
    <3> HIDE DEF f, T
    <3> QED BY <2>1, <2>2 DEF Injection, IsInjective
  <2>5. f \in Surjection(At(s, M), T)
    <3> HIDE DEF f, T
    <3> QED BY <2>1, <2>3 DEF Surjection
  <2> QED BY <2>4, <2>5 DEF Bijection
<1>5. IsFiniteSet(At(q, M)) /\ IsFiniteSet(At(s, M)) /\ Count(q, M) \in Nat
  BY CountFinite
<1>6. IsFiniteSet(T) /\ Cardinality(T) = Count(s, M)
  BY <1>4, <1>5, FS_Bijection DEF ExistsBijection, Count
<1> HIDE DEF T
<1>7. Cardinality(At(q, M) \cup T) = Cardinality(At(q, M)) + Cardinality(T) - Cardinality({})
  BY <1>3, <1>5, <1>6, FS_Union
<1> QED BY <1>2, <1>5, <1>6, <1>7, FS_EmptySet, CountFinite DEF Count

(* A queue of one message. *)
LEMMA CountOne == ASSUME NEW m, NEW M PROVE Count(<<m>>, M) = One(m, M)
<1>1. CASE m \in M
  <2>1. At(<<m>>, M) = {1}
    BY <1>1 DEF At
  <2> QED BY <1>1, <2>1, FS_Singleton DEF Count, One
<1>2. CASE m \notin M
  <2>1. At(<<m>>, M) = {}
    BY <1>2 DEF At
  <2> QED BY <1>2, <2>1, FS_EmptySet DEF Count, One
<1> QED BY <1>1, <1>2

(* Appending is concatenation. *)
LEMMA AppendIsConcat ==
  ASSUME NEW Q, NEW q \in Seq(Q), NEW m \in Q
  PROVE  Append(q, m) = q \o <<m>> /\ <<m>> \in Seq(Q)
<1>1. /\ <<m>> \in Seq(Q) /\ Append(q, m) \in Seq(Q) /\ q \o <<m>> \in Seq(Q)
      /\ Len(<<m>>) = 1 /\ <<m>>[1] = m
  OBVIOUS
<1>2. Len(Append(q, m)) = Len(q \o <<m>>)
  BY <1>1
<1>3. \A k \in 1 .. Len(q) + 1 : Append(q, m)[k] = (q \o <<m>>)[k]
  BY <1>1
<1> QED BY <1>1, <1>2, <1>3

(* A queue of two. *)
LEMMA CountTwo ==
  ASSUME NEW l, NEW m, NEW M
  PROVE  Count(<<l, m>>, M) = One(l, M) + One(m, M)
<1>1. <<l>> \in Seq({l, m}) /\ <<m>> \in Seq({l, m}) /\ <<l>> \o <<m>> = <<l, m>>
  <2>1. <<l>> \in Seq({l, m}) /\ <<m>> \in Seq({l, m}) /\ <<l, m>> \in Seq({l, m})
    OBVIOUS
  <2>2. Append(<<l>>, m) = <<l, m>>
    <3>1. /\ Append(<<l>>, m) \in Seq({l, m})
          /\ Len(Append(<<l>>, m)) = 2 /\ Len(<<l, m>>) = 2
          /\ Append(<<l>>, m)[1] = l /\ <<l, m>>[1] = l
          /\ Append(<<l>>, m)[2] = m /\ <<l, m>>[2] = m
      BY <2>1
    <3>2. \A k \in 1 .. Len(<<l, m>>) : Append(<<l>>, m)[k] = <<l, m>>[k]
      BY <3>1
    <3> DEFINE a == Append(<<l>>, m)
               b == <<l, m>>
    <3>3. a \in Seq({l, m}) /\ b \in Seq({l, m}) /\ Len(a) = Len(b)
      BY <3>1, <2>1
    <3> HIDE DEF a, b
    <3>4. \A k \in 1 .. Len(b) : a[k] = b[k]
      BY <3>2 DEF a, b
    <3>5. a = b
      BY <3>3, <3>4
    <3> QED BY <3>5 DEF a, b
  <2>3. Append(<<l>>, m) = <<l>> \o <<m>>
    BY <2>1, AppendIsConcat
  <2> QED BY <2>1, <2>2, <2>3
<1>2. Count(<<l>> \o <<m>>, M) = Count(<<l>>, M) + Count(<<m>>, M)
  <2> PICK Q : <<l>> \in Seq(Q) /\ <<m>> \in Seq(Q)
    BY <1>1
  <2> QED BY CountConcat
<1> QED BY <1>1, <1>2, CountOne

(* A message is put at the end of a queue. *)
LEMMA CountAppend ==
  ASSUME NEW Q, NEW q \in Seq(Q), NEW m \in Q, NEW M
  PROVE  Count(Append(q, m), M) = Count(q, M) + One(m, M)
<1>1. Append(q, m) = q \o <<m>> /\ <<m>> \in Seq(Q)
  BY AppendIsConcat
<1>2. Count(q \o <<m>>, M) = Count(q, M) + Count(<<m>>, M)
  BY <1>1, CountConcat
<1> QED BY <1>1, <1>2, CountOne

(* The first message is taken from it. *)
LEMMA CountTail ==
  ASSUME NEW Q, NEW q \in Seq(Q), q # <<>>, NEW M
  PROVE  /\ Head(q) \in Q
         /\ Tail(q) \in Seq(Q)
         /\ Count(q, M) = One(Head(q), M) + Count(Tail(q), M)
<1>1. /\ Head(q) \in Q /\ Tail(q) \in Seq(Q)
      /\ <<Head(q)>> \in Seq(Q) /\ q = <<Head(q)>> \o Tail(q)
  OBVIOUS
<1>2. Count(<<Head(q)>> \o Tail(q), M) = Count(<<Head(q)>>, M) + Count(Tail(q), M)
  BY <1>1, CountConcat
<1> QED BY <1>1, <1>2, CountOne

-------------------------------------------------------------------------------
(* What the socket and the two ends hold. *)
Surfaces == [width : Nat, height : Nat, attach : Int]

Acks == [type : {"ack"}, serial : Nat]

Commits == [type : {"commit"}, buffer : Buffers \cup {NULL}, width : Int,
            height : Int, offset : Int, frame : BOOLEAN]

Empties == [type : {"empty"}, frame : BOOLEAN]

Requests == Acks \cup Commits \cup Empties

Toplevels == [type : {"toplevel_configure"}, width : Nat, height : Nat]

Configures == [type : {"configure"}, serial : Nat]

Releases == [type : {"release"}, buffer : Buffers]

Dones == [type : {"done"}]

Events == Toplevels \cup Configures \cup Releases \cup Dones

Contents == [buffer : Buffers \cup {NULL}, width : Int, height : Int, serial : Nat]

SurfaceType ==
  /\ slots \in [Slots -> Slot]
  /\ surface \in Surfaces
  /\ requests \in Seq(Requests)
  /\ events \in Seq(Events)
  /\ ready \in BOOLEAN
  /\ serial \in 0 .. MaxSerial
  /\ wanted \in [0 .. MaxSerial -> Nat \X Nat]
  /\ acked \in Nat
  /\ held \in SUBSET Buffers
  /\ shown \in Contents
  /\ frames \in Nat

(* The slots share no wl_buffer. *)
Apart(sl) == sl[0].buffer # NULL => sl[0].buffer # sl[1].buffer

BusyIn(sl, b) == \E i \in Slots : sl[i].buffer = b /\ sl[i].busy

Owed(sl, b) == IF BusyIn(sl, b) THEN 1 ELSE 0

CommitsOf(b) == {m \in Commits : m.buffer = b}

ReleasesOf(b) == {m \in Releases : m.buffer = b}

(* TimesOut, counted with Count. *)
Where(b) == Count(requests, CommitsOf(b)) + One(b, held)
              + Count(events, ReleasesOf(b))

BusyCounted == \A b \in Buffers : Where(b) = Owed(slots, b)

(* The inductive invariant of the pool and the socket.  BusyCounted alone says
   nothing of a wl_buffer that both slots have. *)
SurfaceInv == SurfaceType /\ Apart(slots) /\ BusyCounted

(* The messages of a request, by its type. *)
LEMMA RequestTypes ==
  ASSUME NEW m \in Requests
  PROVE  /\ m.type = "ack" <=> m \in Acks
         /\ m.type = "commit" <=> m \in Commits
         /\ m.type = "empty" <=> m \in Empties
BY DEF Requests, Acks, Commits, Empties

(* The same for events. *)
LEMMA EventTypes ==
  ASSUME NEW m \in Events
  PROVE  /\ m.type = "toplevel_configure" <=> m \in Toplevels
         /\ m.type = "configure" <=> m \in Configures
         /\ m.type = "release" <=> m \in Releases
         /\ m.type = "done" <=> m \in Dones
BY DEF Events, Toplevels, Configures, Releases, Dones

(* TimesOut is the number of times a wl_buffer is in the socket or held. *)
LEMMA OutCounted ==
  ASSUME SurfaceType, NEW b \in Buffers
  PROVE  TimesOut(b) = Where(b) /\ Where(b) \in Nat
<1>1. Submitted(b) = At(requests, CommitsOf(b))
  <2>1. \A k \in DOMAIN requests : requests[k] \in Requests
    BY DEF SurfaceType
  <2>2. \A k \in DOMAIN requests :
          (requests[k].type = "commit" /\ requests[k].buffer = b)
            <=> requests[k] \in CommitsOf(b)
    BY <2>1, RequestTypes DEF CommitsOf
  <2> QED BY <2>2 DEF Submitted, At
<1>2. Returning(b) = At(events, ReleasesOf(b))
  <2>1. \A k \in DOMAIN events : events[k] \in Events
    BY DEF SurfaceType
  <2>2. \A k \in DOMAIN events :
          (events[k].type = "release" /\ events[k].buffer = b)
            <=> events[k] \in ReleasesOf(b)
    BY <2>1, EventTypes DEF ReleasesOf
  <2> QED BY <2>2 DEF Returning, At
<1>3. Cardinality(held \cap {b}) = One(b, held)
  <2>1. CASE b \in held
    <3>1. held \cap {b} = {b}
      BY <2>1
    <3> QED BY <2>1, <3>1, FS_Singleton DEF One
  <2>2. CASE b \notin held
    <3>1. held \cap {b} = {}
      BY <2>2
    <3> QED BY <2>2, <3>1, FS_EmptySet DEF One
  <2> QED BY <2>1, <2>2
<1>4. Count(requests, CommitsOf(b)) \in Nat /\ Count(events, ReleasesOf(b)) \in Nat
  BY CountFinite DEF SurfaceType
<1> QED BY <1>1, <1>2, <1>3, <1>4 DEF TimesOut, Where, Count, One

(* So the invariant says what BusyIsOut does. *)
LEMMA BusyIsCounted == SurfaceInv => BusyIsOut
BY OutCounted DEF SurfaceInv, BusyCounted, BusyIsOut, Busy, BusyIn, Owed

(* A wl_buffer is somewhere out if and only if its slot is busy. *)
LEMMA OutIsBusy ==
  ASSUME SurfaceInv, NEW b \in Buffers
  PROVE  /\ Out(b) <=> BusyIn(slots, b)
         /\ b \in held => BusyIn(slots, b)
         /\ \A k \in DOMAIN requests : requests[k] \in CommitsOf(b) => BusyIn(slots, b)
         /\ \A k \in DOMAIN events : events[k] \in ReleasesOf(b) => BusyIn(slots, b)
<1>1. /\ Where(b) = Owed(slots, b)
      /\ requests \in Seq(Requests) /\ events \in Seq(Events)
  BY DEF SurfaceInv, SurfaceType, BusyCounted
<1>2. /\ Count(requests, CommitsOf(b)) \in Nat
      /\ Count(events, ReleasesOf(b)) \in Nat
      /\ Count(requests, CommitsOf(b)) = 0
           <=> \A k \in DOMAIN requests : requests[k] \notin CommitsOf(b)
      /\ Count(events, ReleasesOf(b)) = 0
           <=> \A k \in DOMAIN events : events[k] \notin ReleasesOf(b)
  BY <1>1, CountFinite, CountZero
<1>3. \A k \in DOMAIN requests :
        (requests[k].type = "commit" /\ requests[k].buffer = b)
          <=> requests[k] \in CommitsOf(b)
  BY <1>1, RequestTypes DEF CommitsOf
<1>4. \A k \in DOMAIN events :
        (events[k].type = "release" /\ events[k].buffer = b)
          <=> events[k] \in ReleasesOf(b)
  BY <1>1, EventTypes DEF ReleasesOf
<1>5. Out(b) <=> (\/ b \in held
                  \/ \E k \in DOMAIN requests : requests[k] \in CommitsOf(b)
                  \/ \E k \in DOMAIN events : events[k] \in ReleasesOf(b))
  BY <1>3, <1>4 DEF Out
<1>6. /\ b \in held => BusyIn(slots, b)
      /\ Count(requests, CommitsOf(b)) # 0 => BusyIn(slots, b)
      /\ Count(events, ReleasesOf(b)) # 0 => BusyIn(slots, b)
      /\ BusyIn(slots, b) => \/ b \in held
                             \/ Count(requests, CommitsOf(b)) # 0
                             \/ Count(events, ReleasesOf(b)) # 0
  BY <1>1, <1>2 DEF Where, Owed, One
<1> QED BY <1>2, <1>5, <1>6

(* A wl_buffer that get_next_buffer makes is none of those around. *)
LEMMA NewIsNew ==
  ASSUME SurfaceInv
  PROVE  /\ NewBuffer \in Buffers
         /\ \A i \in Slots : slots[i].buffer # NewBuffer
         /\ NewBuffer \notin held
         /\ shown.buffer # NewBuffer
<1>1. NewBuffers # {}
  <2>1. PICK b \in Buffers : b \notin {slots[0].buffer, slots[1].buffer, shown.buffer}
    <3>1. /\ slots[0].buffer \in Buffers \cup {NULL}
          /\ slots[1].buffer \in Buffers \cup {NULL}
          /\ shown.buffer \in Buffers \cup {NULL}
      BY DEF SurfaceInv, SurfaceType, Slots, Slot, Contents
    <3> QED BY <3>1, SurfaceAssumption
  <2>2. ~BusyIn(slots, b)
    BY <2>1 DEF BusyIn, Slots
  <2>3. b \notin held
    BY <2>2, OutIsBusy
  <2> QED BY <2>1, <2>3 DEF NewBuffers, Slots
<1>2. NewBuffer \in NewBuffers
  BY <1>1 DEF NewBuffer
<1> QED BY <1>2 DEF NewBuffers

-------------------------------------------------------------------------------
(* What get_next_buffer does to a slot that is free. *)
LEMMA NextBuffer ==
  ASSUME NEW s \in Slot, NEW new \in Buffers, NEW w \in Nat, NEW h \in Nat,
         NEW o \in get_next_buffer(s, new, w, h), ~s.busy
  PROVE  /\ o.ok \in BOOLEAN
         /\ o.slot \in Slot /\ ~o.slot.busy
         /\ o.slot.buffer \in {s.buffer, new, NULL}
         /\ o.ok => Bytes(o.slot.width, o.slot.height) = Bytes(w, h)
         /\ ~o.ok => o.slot.buffer = NULL
<1>1. \/ o = [slot |-> s, ok |-> TRUE] /\ Bytes(s.width, s.height) = Bytes(w, h)
      \/ o = [slot |-> Created(new, w, h), ok |-> TRUE]
      \/ o = [slot |-> s, ok |-> FALSE] /\ s.buffer = NULL
      \/ o = [slot |-> EmptySlot, ok |-> FALSE]
  BY DEF get_next_buffer
<1>2. /\ Created(new, w, h) \in Slot /\ EmptySlot \in Slot
      /\ Created(new, w, h).buffer \in {new, NULL} /\ EmptySlot.buffer = NULL
      /\ Created(new, w, h).width = w /\ Created(new, w, h).height = h
      /\ Created(new, w, h).busy = FALSE /\ EmptySlot.busy = FALSE
  BY DEF Created, EmptySlot, Slot
<1> HIDE DEF Created, EmptySlot, Bytes
<1>3. CASE o = [slot |-> s, ok |-> TRUE] /\ Bytes(s.width, s.height) = Bytes(w, h)
  BY <1>3
<1>4. CASE o = [slot |-> Created(new, w, h), ok |-> TRUE]
  BY <1>2, <1>4
<1>5. CASE o = [slot |-> s, ok |-> FALSE] /\ s.buffer = NULL
  BY <1>5
<1>6. CASE o = [slot |-> EmptySlot, ok |-> FALSE]
  BY <1>2, <1>6
<1> QED BY <1>1, <1>3, <1>4, <1>5, <1>6

(* A slot is changed, if any, that was free: it becomes busy with a wl_buffer of
   the size asked for or with none, or it loses the one it had. *)
LEMMA RenderSlots ==
  ASSUME SurfaceInv, NEW sf \in Surfaces, NEW r \in surface_render(sf)
  PROVE  \/ r = Skipped(slots, sf) /\ FreeSlots = {}
         \/ \E i \in FreeSlots, t \in Slot :
              /\ t.buffer \in {slots[i].buffer, NewBuffer, NULL}
              /\ \/ /\ t.buffer = NULL /\ ~t.busy
                    /\ r = Skipped([slots EXCEPT ![i] = t], sf)
                 \/ /\ t.busy
                    /\ Bytes(t.width, t.height) = Bytes(sf.width, sf.height)
                    /\ r = [slots |-> [slots EXCEPT ![i] = t],
                            surface |-> [sf EXCEPT !.attach = 0],
                            sent |-> <<CommitOf(t, sf)>>]
<1>1. CASE FreeSlots = {}
  BY <1>1 DEF surface_render
<1>2. CASE FreeSlots # {}
  <2>1. NextSlot \in FreeSlots /\ NextSlot \in Slots
    BY <1>2 DEF FreeSlots, NextSlot, Slots
  <2>2. slots[NextSlot] \in Slot /\ ~slots[NextSlot].busy
    BY <2>1 DEF SurfaceInv, SurfaceType, FreeSlots
  <2>3. PICK o \in get_next_buffer(slots[NextSlot], NewBuffer, sf.width, sf.height) :
          r = IF o.ok
                THEN [slots |-> [slots EXCEPT ![NextSlot] = Marked(o.slot)],
                      surface |-> [sf EXCEPT !.attach = 0],
                      sent |-> <<CommitOf(o.slot, sf)>>]
                ELSE Skipped([slots EXCEPT ![NextSlot] = o.slot], sf)
    BY <1>2 DEF surface_render
  <2>4. sf.width \in Nat /\ sf.height \in Nat /\ NewBuffer \in Buffers
    BY NewIsNew DEF Surfaces
  <2>5. /\ o.ok \in BOOLEAN
        /\ o.slot \in Slot /\ ~o.slot.busy
        /\ o.slot.buffer \in {slots[NextSlot].buffer, NewBuffer, NULL}
        /\ o.ok => Bytes(o.slot.width, o.slot.height) = Bytes(sf.width, sf.height)
        /\ ~o.ok => o.slot.buffer = NULL
    BY <2>2, <2>3, <2>4, NextBuffer
  <2>6. CASE o.ok
    <3> DEFINE t == Marked(o.slot)
    <3>1. /\ t \in Slot /\ t.busy /\ t.buffer = o.slot.buffer
          /\ t.width = o.slot.width /\ t.height = o.slot.height
      BY <2>5 DEF Marked, Slot
    <3>2. CommitOf(t, sf) = CommitOf(o.slot, sf)
      BY <3>1 DEF CommitOf
    <3> HIDE DEF t
    <3>3. r = [slots |-> [slots EXCEPT ![NextSlot] = t],
               surface |-> [sf EXCEPT !.attach = 0],
               sent |-> <<CommitOf(t, sf)>>]
      BY <2>3, <2>6, <3>2 DEF t
    <3> QED BY <2>1, <2>5, <2>6, <3>1, <3>3
  <2>7. CASE ~o.ok
    BY <2>1, <2>3, <2>5, <2>7
  <2> QED BY <2>5, <2>6, <2>7
<1> QED BY <1>1, <1>2

(* What surface_render sends, and that the slots keep count of it. *)
LEMMA RenderShape ==
  ASSUME SurfaceInv, NEW sf \in Surfaces, NEW r \in surface_render(sf)
  PROVE  /\ r.slots \in [Slots -> Slot] /\ Apart(r.slots)
         /\ r.surface \in Surfaces
         /\ r.surface.width = sf.width /\ r.surface.height = sf.height
         /\ \/ r.sent = <<>>
            \/ \E m \in Commits :
                 /\ r.sent = <<m>> /\ ~m.frame
                 /\ Bytes(m.width, m.height) = Bytes(sf.width, sf.height)
         /\ r.sent \in Seq(Requests)
         /\ r = [slots |-> r.slots, surface |-> r.surface, sent |-> r.sent]
         /\ \A b \in Buffers :
              Owed(r.slots, b) = Owed(slots, b) + Count(r.sent, CommitsOf(b))
<1>1. /\ slots \in [Slots -> Slot] /\ Apart(slots)
      /\ Skipped(slots, sf).slots = slots
      /\ <<>> \in Seq(Requests)
  BY DEF SurfaceInv, SurfaceType, Skipped
<1>2. CASE r = Skipped(slots, sf)
  <2>1. r.slots = slots /\ r.surface = sf /\ r.sent = <<>>
    BY <1>2 DEF Skipped
  <2>2. \A b \in Buffers : Count(r.sent, CommitsOf(b)) = 0
    BY <2>1, CountEmpty
  <2>3. \A b \in Buffers :
          Owed(r.slots, b) = Owed(slots, b) + Count(r.sent, CommitsOf(b))
    BY <2>1, <2>2 DEF Owed
  <2>4. r = [slots |-> r.slots, surface |-> r.surface, sent |-> r.sent]
    BY <1>2 DEF Skipped
  <2> QED BY <1>1, <2>1, <2>3, <2>4
<1>3. ASSUME NEW i \in FreeSlots, NEW t \in Slot,
             t.buffer \in {slots[i].buffer, NewBuffer, NULL}
      PROVE  /\ [slots EXCEPT ![i] = t] \in [Slots -> Slot]
             /\ Apart([slots EXCEPT ![i] = t])
             /\ \A b \in Buffers :
                  Owed([slots EXCEPT ![i] = t], b) =
                    Owed(slots, b) + (IF t.busy /\ t.buffer = b THEN 1 ELSE 0)
  <2>1. i \in Slots /\ ~slots[i].busy /\ i \in 0 .. 1
    BY DEF FreeSlots, Slots
  <2>2. [slots EXCEPT ![i] = t] \in [Slots -> Slot]
    BY <1>1
  <2>3. Apart([slots EXCEPT ![i] = t])
    BY <1>1, <1>3, <2>1, NewIsNew DEF Apart, Slots
  <2>4. ASSUME NEW b \in Buffers
        PROVE  Owed([slots EXCEPT ![i] = t], b) =
                 Owed(slots, b) + (IF t.busy /\ t.buffer = b THEN 1 ELSE 0)
    <3>1. b # NULL
      BY BufferPoolAssumption
    <3>2. CASE t.busy /\ t.buffer = b
      <4>1. ~BusyIn(slots, b)
        BY <1>1, <1>3, <2>1, <3>1, <3>2, NewIsNew DEF BusyIn, Apart, Slots
      <4>2. BusyIn([slots EXCEPT ![i] = t], b)
        BY <1>1, <2>1, <3>2 DEF BusyIn, Slots
      <4> QED BY <3>2, <4>1, <4>2 DEF Owed
    <3>3. CASE ~(t.busy /\ t.buffer = b)
      <4>1. BusyIn([slots EXCEPT ![i] = t], b) <=> BusyIn(slots, b)
        BY <1>1, <2>1, <3>3 DEF BusyIn, Slots
      <4> QED BY <3>3, <4>1 DEF Owed
    <3> QED BY <3>2, <3>3
  <2> QED BY <2>2, <2>3, <2>4
<1>4. ASSUME NEW i \in FreeSlots, NEW t \in Slot,
             t.buffer \in {slots[i].buffer, NewBuffer, NULL}, ~t.busy,
             r = Skipped([slots EXCEPT ![i] = t], sf)
      PROVE  /\ r.slots \in [Slots -> Slot] /\ Apart(r.slots)
             /\ r.surface = sf /\ r.sent = <<>>
             /\ r = [slots |-> r.slots, surface |-> r.surface, sent |-> r.sent]
             /\ \A b \in Buffers :
                  Owed(r.slots, b) = Owed(slots, b) + Count(r.sent, CommitsOf(b))
  <2> DEFINE sl == [slots EXCEPT ![i] = t]
  <2>1. r.slots = sl /\ r.surface = sf /\ r.sent = <<>>
    BY <1>4 DEF Skipped
  <2>5. /\ sl \in [Slots -> Slot] /\ Apart(sl)
        /\ \A b \in Buffers :
             Owed(sl, b) = Owed(slots, b) + (IF t.busy /\ t.buffer = b THEN 1 ELSE 0)
    BY <1>3, <1>4
  <2> HIDE DEF sl
  <2>6. \A b \in Buffers : Owed(slots, b) \in Nat
    BY DEF Owed
  <2>2. \A b \in Buffers : Count(r.sent, CommitsOf(b)) = 0
    BY <2>1, CountEmpty
  <2>3. \A b \in Buffers :
          Owed(r.slots, b) = Owed(slots, b) + Count(r.sent, CommitsOf(b))
    BY <1>4, <2>1, <2>2, <2>5, <2>6
  <2>4. r = [slots |-> r.slots, surface |-> r.surface, sent |-> r.sent]
    BY <1>4 DEF Skipped
  <2> QED BY <2>1, <2>3, <2>4, <2>5
<1>5. ASSUME NEW i \in FreeSlots, NEW t \in Slot,
             t.buffer \in {slots[i].buffer, NewBuffer, NULL}, t.busy,
             Bytes(t.width, t.height) = Bytes(sf.width, sf.height),
             r = [slots |-> [slots EXCEPT ![i] = t],
                  surface |-> [sf EXCEPT !.attach = 0],
                  sent |-> <<CommitOf(t, sf)>>]
      PROVE  /\ r.slots \in [Slots -> Slot] /\ Apart(r.slots)
             /\ r.surface = [sf EXCEPT !.attach = 0]
             /\ \E m \in Commits :
                  /\ r.sent = <<m>> /\ ~m.frame
                  /\ Bytes(m.width, m.height) = Bytes(sf.width, sf.height)
             /\ r = [slots |-> r.slots, surface |-> r.surface, sent |-> r.sent]
             /\ \A b \in Buffers :
                  Owed(r.slots, b) = Owed(slots, b) + Count(r.sent, CommitsOf(b))
  <2> DEFINE m == CommitOf(t, sf)
  <2>1. /\ m \in Commits /\ ~m.frame /\ m.buffer = t.buffer
        /\ m.width = t.width /\ m.height = t.height
    BY DEF CommitOf, Commits, Slot, Surfaces
  <2>2. ASSUME NEW b \in Buffers
        PROVE  Count(r.sent, CommitsOf(b)) = IF t.busy /\ t.buffer = b THEN 1 ELSE 0
    <3>1. m \in CommitsOf(b) <=> t.buffer = b
      BY <2>1 DEF CommitsOf
    <3> QED BY <1>5, <3>1, CountOne DEF One
  <2> DEFINE sl == [slots EXCEPT ![i] = t]
  <2>6. /\ sl \in [Slots -> Slot] /\ Apart(sl)
        /\ \A b \in Buffers :
             Owed(sl, b) = Owed(slots, b) + (IF t.busy /\ t.buffer = b THEN 1 ELSE 0)
    BY <1>3, <1>5
  <2> HIDE DEF m
  <2>3. /\ r.slots = sl
        /\ r.surface = [sf EXCEPT !.attach = 0]
        /\ r.sent = <<m>>
        /\ r = [slots |-> r.slots, surface |-> r.surface, sent |-> r.sent]
    BY <1>5 DEF m
  <2>4. \A b \in Buffers :
          Owed(r.slots, b) = Owed(slots, b) + Count(r.sent, CommitsOf(b))
    <3> HIDE DEF sl
    <3> QED BY <2>2, <2>3, <2>6
  <2>5. \E n \in Commits :
          /\ r.sent = <<n>> /\ ~n.frame
          /\ Bytes(n.width, n.height) = Bytes(sf.width, sf.height)
    BY <1>5, <2>1, <2>3
  <2> HIDE DEF sl
  <2> QED BY <2>3, <2>4, <2>5, <2>6
<1>6. \A m \in Commits : <<m>> \in Seq(Requests)
  BY DEF Requests
<1>7. /\ [sf EXCEPT !.attach = 0].width = sf.width
      /\ [sf EXCEPT !.attach = 0].height = sf.height
      /\ [sf EXCEPT !.attach = 0] \in Surfaces
  BY DEF Surfaces
<1> DEFINE Counted(q) == /\ q.slots \in [Slots -> Slot] /\ Apart(q.slots)
                         /\ q = [slots |-> q.slots, surface |-> q.surface,
                                 sent |-> q.sent]
                         /\ \A b \in Buffers : Owed(q.slots, b) =
                              Owed(slots, b) + Count(q.sent, CommitsOf(b))
           Commit(q) == \E m \in Commits :
                          /\ q.sent = <<m>> /\ ~m.frame
                          /\ Bytes(m.width, m.height) = Bytes(sf.width, sf.height)
<1>8. \/ r = Skipped(slots, sf)
      \/ Counted(r) /\ r.surface = sf /\ r.sent = <<>>
      \/ Counted(r) /\ r.surface = [sf EXCEPT !.attach = 0] /\ Commit(r)
  <2>1. CASE r = Skipped(slots, sf)
    BY <2>1
  <2>2. ASSUME NEW i \in FreeSlots, NEW t \in Slot,
               t.buffer \in {slots[i].buffer, NewBuffer, NULL}, ~t.busy,
               r = Skipped([slots EXCEPT ![i] = t], sf)
        PROVE  Counted(r) /\ r.surface = sf /\ r.sent = <<>>
    BY <1>4, <2>2
  <2>3. ASSUME NEW i \in FreeSlots, NEW t \in Slot,
               t.buffer \in {slots[i].buffer, NewBuffer, NULL}, t.busy,
               Bytes(t.width, t.height) = Bytes(sf.width, sf.height),
               r = [slots |-> [slots EXCEPT ![i] = t],
                    surface |-> [sf EXCEPT !.attach = 0],
                    sent |-> <<CommitOf(t, sf)>>]
        PROVE  Counted(r) /\ r.surface = [sf EXCEPT !.attach = 0] /\ Commit(r)
    BY <1>5, <2>3
  <2> HIDE DEF Counted, Commit
  <2>4. ASSUME r # Skipped(slots, sf)
        PROVE  \/ Counted(r) /\ r.surface = sf /\ r.sent = <<>>
               \/ Counted(r) /\ r.surface = [sf EXCEPT !.attach = 0] /\ Commit(r)
    <3>1. PICK i \in FreeSlots, t \in Slot :
            /\ t.buffer \in {slots[i].buffer, NewBuffer, NULL}
            /\ \/ /\ t.buffer = NULL /\ ~t.busy
                  /\ r = Skipped([slots EXCEPT ![i] = t], sf)
               \/ /\ t.busy
                  /\ Bytes(t.width, t.height) = Bytes(sf.width, sf.height)
                  /\ r = [slots |-> [slots EXCEPT ![i] = t],
                          surface |-> [sf EXCEPT !.attach = 0],
                          sent |-> <<CommitOf(t, sf)>>]
      BY <2>4, RenderSlots
    <3>2. CASE ~t.busy /\ r = Skipped([slots EXCEPT ![i] = t], sf)
      BY <2>2, <3>1, <3>2
    <3>3. CASE ~(~t.busy /\ r = Skipped([slots EXCEPT ![i] = t], sf))
      BY <2>3, <3>1, <3>3
    <3> QED BY <3>2, <3>3
  <2> QED BY <2>1, <2>4
<1>9. CASE Counted(r) /\ r.surface = sf /\ r.sent = <<>>
  BY <1>1, <1>9
<1>10. CASE Counted(r) /\ r.surface = [sf EXCEPT !.attach = 0] /\ Commit(r)
  <2>1. r.sent \in Seq(Requests)
    BY <1>6, <1>10
  <2> QED BY <1>7, <1>10, <2>1
<1> QED BY <1>2, <1>8, <1>9, <1>10

-------------------------------------------------------------------------------
(* A handler that draws and sends, or only sends, keeps the invariant if the slots
   account for each commit it sends. *)
LEMMA HandlerKeeps ==
  ASSUME SurfaceInv, slots' \in [Slots -> Slot], Apart(slots'),
         surface' \in Surfaces,
         NEW msgs \in Seq(Requests), Send(msgs),
         \A b \in Buffers :
           Owed(slots', b) = Owed(slots, b) + Count(msgs, CommitsOf(b)),
         \/ events' = events
         \/ events # <<>> /\ Head(events).type # "release" /\ events' = Tail(events),
         UNCHANGED compositorVars
  PROVE  SurfaceInv'
<1>1. /\ requests \in Seq(Requests) /\ events \in Seq(Events)
      /\ requests' = requests \o msgs
      /\ held' = held
  BY DEF SurfaceInv, SurfaceType, Send, compositorVars
<1>2. events' \in Seq(Events)
  BY <1>1, CountTail
<1>3. requests' \in Seq(Requests)
  BY <1>1
<1>4. ASSUME NEW b \in Buffers
      PROVE  Count(events', ReleasesOf(b)) = Count(events, ReleasesOf(b))
  <2>1. CASE events' = events
    BY <2>1
  <2>2. CASE events # <<>> /\ Head(events).type # "release" /\ events' = Tail(events)
    <3>1. /\ Head(events) \in Events
          /\ Count(events, ReleasesOf(b)) =
               One(Head(events), ReleasesOf(b)) + Count(events', ReleasesOf(b))
      BY <1>1, <2>2, CountTail
    <3>2. One(Head(events), ReleasesOf(b)) = 0
      BY <2>2, <3>1, EventTypes DEF ReleasesOf, One
    <3>3. Count(events', ReleasesOf(b)) \in Nat
      BY <1>2, CountFinite
    <3> QED BY <3>1, <3>2, <3>3
  <2> QED BY <2>1, <2>2
<1>5. ASSUME NEW b \in Buffers PROVE Where(b)' = Owed(slots', b)
  <2>1. Count(requests', CommitsOf(b)) =
          Count(requests, CommitsOf(b)) + Count(msgs, CommitsOf(b))
    BY <1>1, CountConcat
  <2>2. Where(b) = Owed(slots, b)
    BY DEF SurfaceInv, BusyCounted
  <2>3. /\ Count(requests, CommitsOf(b)) \in Nat /\ Count(msgs, CommitsOf(b)) \in Nat
        /\ Count(events, ReleasesOf(b)) \in Nat /\ One(b, held) \in Nat
    BY <1>1, CountFinite DEF One
  <2>4. Owed(slots', b) = Owed(slots, b) + Count(msgs, CommitsOf(b))
    OBVIOUS
  <2>5. Where(b)' = Count(requests', CommitsOf(b)) + One(b, held)
                      + Count(events', ReleasesOf(b))
    BY <1>1 DEF Where
  <2> QED BY <1>4, <2>1, <2>2, <2>3, <2>4, <2>5 DEF Where
<1>6. SurfaceType'
  BY <1>2, <1>3 DEF SurfaceInv, SurfaceType, compositorVars
<1> QED BY <1>5, <1>6 DEF SurfaceInv, BusyCounted

(* A handler that draws and sends what it drew, among other requests. *)
LEMMA DrawKeeps ==
  ASSUME SurfaceInv, NEW sf \in Surfaces, NEW r \in surface_render(sf),
         NEW msgs \in Seq(Requests),
         \A b \in Buffers : Count(msgs, CommitsOf(b)) = Count(r.sent, CommitsOf(b)),
         slots' = r.slots, surface' = r.surface, Send(msgs),
         events # <<>>, Head(events).type # "release", events' = Tail(events),
         UNCHANGED compositorVars
  PROVE  SurfaceInv'
<1>1. /\ slots' \in [Slots -> Slot] /\ Apart(slots') /\ surface' \in Surfaces
      /\ \A b \in Buffers :
           Owed(slots', b) = Owed(slots, b) + Count(msgs, CommitsOf(b))
  BY RenderShape
<1> QED BY <1>1, HandlerKeeps

(* A handler that draws nothing and commits no wl_buffer. *)
LEMMA SendKeeps ==
  ASSUME SurfaceInv, surface' \in Surfaces, slots' = slots,
         NEW msgs \in Seq(Requests), Send(msgs),
         \A b \in Buffers : Count(msgs, CommitsOf(b)) = 0,
         \/ events' = events
         \/ events # <<>> /\ Head(events).type # "release" /\ events' = Tail(events),
         UNCHANGED compositorVars
  PROVE  SurfaceInv'
<1>1. slots' \in [Slots -> Slot] /\ Apart(slots')
  BY DEF SurfaceInv, SurfaceType
<1>2. \A b \in Buffers :
        Owed(slots', b) = Owed(slots, b) + Count(msgs, CommitsOf(b))
  BY DEF Owed
<1> QED BY <1>1, <1>2, HandlerKeeps

(* A release event frees the slot it names, if that is still its own. *)
LEMMA ReleaseHandled == SurfaceInv /\ buffer_handle_release => SurfaceInv'
<1> SUFFICES ASSUME SurfaceInv, buffer_handle_release PROVE SurfaceInv'
  OBVIOUS
<1> DEFINE c == Head(events).buffer
<1>1. /\ slots \in [Slots -> Slot] /\ events \in Seq(Events) /\ events # <<>>
      /\ Head(events).type = "release"
      /\ events' = Tail(events)
      /\ slots' = [i \in Slots |-> Freed(slots[i], c)]
      /\ UNCHANGED <<surface, requests, ready, serial, wanted, acked, held, shown, frames>>
  BY DEF SurfaceInv, SurfaceType, buffer_handle_release, Receive, compositorVars
<1>2. /\ Head(events) \in Releases /\ c \in Buffers /\ c # NULL
      /\ Tail(events) \in Seq(Events)
  <2>1. Head(events) \in Events /\ Tail(events) \in Seq(Events)
    BY <1>1, CountTail
  <2>2. Head(events) \in Releases
    BY <1>1, <2>1, EventTypes
  <2> QED BY <2>1, <2>2, BufferPoolAssumption DEF Releases
<1>3. \A i \in Slots : /\ Freed(slots[i], c) \in Slot
                       /\ Freed(slots[i], c).buffer = slots[i].buffer
                       /\ Freed(slots[i], c).busy =
                            (slots[i].busy /\ slots[i].buffer # c)
  <2> SUFFICES ASSUME NEW i \in Slots
               PROVE  /\ Freed(slots[i], c) \in Slot
                      /\ Freed(slots[i], c).buffer = slots[i].buffer
                      /\ Freed(slots[i], c).busy = (slots[i].busy /\ slots[i].buffer # c)
    OBVIOUS
  <2>1. slots[i] \in Slot
    BY <1>1
  <2> QED BY <2>1 DEF Freed, Slot
<1>4. slots' \in [Slots -> Slot] /\ Apart(slots')
  BY <1>1, <1>3 DEF SurfaceInv, Apart, Slots
<1>5. SurfaceType'
  BY <1>1, <1>2, <1>4 DEF SurfaceInv, SurfaceType
<1>6. \A b \in Buffers : BusyIn(slots', b) <=> (BusyIn(slots, b) /\ b # c)
  BY <1>1, <1>3 DEF BusyIn
<1>7. ASSUME NEW b \in Buffers PROVE Where(b)' = Owed(slots', b)
  <2>1. /\ Count(events, ReleasesOf(b)) =
             One(Head(events), ReleasesOf(b)) + Count(events', ReleasesOf(b))
        /\ Count(events', ReleasesOf(b)) \in Nat
        /\ Count(requests, CommitsOf(b)) \in Nat
        /\ One(b, held) \in Nat
    <3>1. requests \in Seq(Requests) /\ Tail(events) \in Seq(Events)
      BY <1>2 DEF SurfaceInv, SurfaceType
    <3>2. /\ Count(events', ReleasesOf(b)) \in Nat
          /\ Count(requests, CommitsOf(b)) \in Nat
      BY <1>1, <3>1, CountFinite
    <3>3. Count(events, ReleasesOf(b)) =
            One(Head(events), ReleasesOf(b)) + Count(events', ReleasesOf(b))
      BY <1>1, CountTail
    <3>4. One(b, held) \in Nat
      BY DEF One
    <3> QED BY <3>2, <3>3, <3>4
  <2>2. One(Head(events), ReleasesOf(b)) = IF b = c THEN 1 ELSE 0
    BY <1>2 DEF ReleasesOf, One
  <2>3. Where(b)' = Count(requests, CommitsOf(b)) + One(b, held)
                      + Count(events', ReleasesOf(b))
    BY <1>1 DEF Where
  <2>4. Where(b) = Owed(slots, b)
    BY DEF SurfaceInv, BusyCounted
  <2>5. CASE b = c
    BY <1>6, <2>1, <2>2, <2>3, <2>4, <2>5 DEF Where, Owed
  <2>6. CASE b # c
    BY <1>6, <2>1, <2>2, <2>3, <2>4, <2>6 DEF Where, Owed
  <2> QED BY <2>5, <2>6
<1> QED BY <1>4, <1>5, <1>7 DEF SurfaceInv, BusyCounted

(* What the compositor reads is a request, and the queue gets shorter by it. *)
LEMMA RequestRead ==
  ASSUME SurfaceInv, NEW type, CompositorReceive(type)
  PROVE  /\ requests # <<>> /\ Head(requests) \in Requests
         /\ Head(requests).type = type
         /\ requests' = Tail(requests) /\ requests' \in Seq(Requests)
         /\ UNCHANGED <<slots, surface, events, serial, wanted>>
         /\ \A b \in Buffers :
              /\ Count(requests', CommitsOf(b)) \in Nat
              /\ Count(requests, CommitsOf(b)) =
                   One(Head(requests), CommitsOf(b)) + Count(requests', CommitsOf(b))
<1>1. /\ requests \in Seq(Requests) /\ requests # <<>>
      /\ Head(requests).type = type
      /\ requests' = Tail(requests)
      /\ UNCHANGED <<slots, surface, events, serial, wanted>>
  BY DEF SurfaceInv, SurfaceType, CompositorReceive, clientVars
<1>2. Head(requests) \in Requests /\ requests' \in Seq(Requests)
  BY <1>1, CountTail
<1> QED BY <1>1, <1>2, CountTail, CountFinite

(* The compositor reads a request that attaches no wl_buffer. *)
LEMMA AckRead == SurfaceInv /\ (ReceiveAck \/ ReceiveEmpty) => SurfaceInv'
<1> SUFFICES ASSUME SurfaceInv, ReceiveAck \/ ReceiveEmpty PROVE SurfaceInv'
  OBVIOUS
<1>1. PICK type \in {"ack", "empty"} : CompositorReceive(type)
  BY DEF ReceiveAck, ReceiveEmpty
<1>2. /\ Head(requests) \in Requests /\ Head(requests).type \in {"ack", "empty"}
      /\ requests' \in Seq(Requests)
      /\ UNCHANGED <<slots, surface, events, serial, wanted, held, shown>>
      /\ \A b \in Buffers :
           /\ Count(requests', CommitsOf(b)) \in Nat
           /\ Count(requests, CommitsOf(b)) =
                One(Head(requests), CommitsOf(b)) + Count(requests', CommitsOf(b))
  BY <1>1, RequestRead DEF ReceiveAck, ReceiveEmpty
<1>3. acked' \in Nat /\ frames' \in Nat /\ ready' \in BOOLEAN
  <2>1. CASE ReceiveAck
    <3>1. Head(requests) \in Acks
      BY <1>2, <2>1, RequestTypes DEF ReceiveAck, CompositorReceive
    <3> QED BY <2>1, <3>1 DEF ReceiveAck, Acks, SurfaceInv, SurfaceType
  <2>2. CASE ReceiveEmpty
    BY <2>2 DEF ReceiveEmpty, SurfaceInv, SurfaceType
  <2> QED BY <2>1, <2>2
<1>4. SurfaceType'
  BY <1>2, <1>3 DEF SurfaceInv, SurfaceType
<1>5. ASSUME NEW b \in Buffers PROVE Where(b)' = Where(b)
  <2>1. One(Head(requests), CommitsOf(b)) = 0
    BY <1>2 DEF One, CommitsOf, Commits
  <2>2. Count(requests', CommitsOf(b)) = Count(requests, CommitsOf(b))
    BY <1>2, <2>1
  <2> QED BY <1>2, <2>2 DEF Where
<1> QED BY <1>2, <1>4, <1>5 DEF SurfaceInv, BusyCounted

(* A wl_buffer is handed over with its commit. *)
LEMMA CommitRead == SurfaceInv /\ ReceiveCommit => SurfaceInv'
<1> SUFFICES ASSUME SurfaceInv, ReceiveCommit PROVE SurfaceInv'
  OBVIOUS
<1> DEFINE m == Head(requests)
<1>1. /\ m \in Requests /\ m.type = "commit"
      /\ requests' \in Seq(Requests)
      /\ UNCHANGED <<slots, surface, events, serial, wanted, acked>>
      /\ \A b \in Buffers :
           /\ Count(requests', CommitsOf(b)) \in Nat
           /\ Count(requests, CommitsOf(b)) =
                One(m, CommitsOf(b)) + Count(requests', CommitsOf(b))
  BY RequestRead DEF ReceiveCommit
<1>2. m \in Commits
  BY <1>1, RequestTypes
<1>3. /\ ready' = IF m.buffer # NULL THEN ready ELSE shown.buffer = NULL
      /\ held' = held \cup ({m.buffer} \ {NULL})
      /\ shown' = [buffer |-> m.buffer, width |-> m.width,
                   height |-> m.height, serial |-> acked]
      /\ frames' = frames + (IF m.frame THEN 1 ELSE 0)
  BY DEF ReceiveCommit
<1>4. SurfaceType'
  <2>1. ready' \in BOOLEAN /\ frames' \in Nat
    <3>1. ready \in BOOLEAN /\ frames \in Nat
      BY DEF SurfaceInv, SurfaceType
    <3>2. frames' \in Nat
      BY <1>3, <3>1
    <3>3. ready' \in BOOLEAN
      <4> HIDE DEF m
      <4> QED BY <1>3, <3>1
    <3> QED BY <3>2, <3>3
  <2>2. held' \in SUBSET Buffers /\ shown' \in Contents
    BY <1>2, <1>3 DEF SurfaceInv, SurfaceType, Commits, Contents
  <2> QED BY <1>1, <2>1, <2>2 DEF SurfaceInv, SurfaceType
<1>5. ASSUME NEW b \in Buffers PROVE Where(b)' = Where(b)
  <2>1. One(m, CommitsOf(b)) = IF m.buffer = b THEN 1 ELSE 0
    BY <1>2 DEF One, CommitsOf
  <2>2. One(b, held') = IF m.buffer = b \/ b \in held THEN 1 ELSE 0
    BY <1>3, BufferPoolAssumption DEF One
  <2>3. Where(b) \in 0 .. 1
    BY DEF SurfaceInv, BusyCounted, Owed
  <2>4. Count(events, ReleasesOf(b)) \in Nat
    BY CountFinite DEF SurfaceInv, SurfaceType
  <2>5. Where(b)' = Count(requests', CommitsOf(b)) + One(b, held')
                      + Count(events, ReleasesOf(b))
    BY <1>1 DEF Where
  <2> HIDE DEF m
  <2>6. Where(b) = One(m, CommitsOf(b)) + Count(requests', CommitsOf(b)) + One(b, held)
                     + Count(events, ReleasesOf(b))
    BY <1>1 DEF Where
  <2> QED BY <1>1, <2>1, <2>2, <2>3, <2>4, <2>5, <2>6 DEF One
<1> QED BY <1>1, <1>4, <1>5 DEF SurfaceInv, BusyCounted

(* An event is added to the queue. *)
LEMMA EventSent ==
  ASSUME SurfaceInv, NEW e \in Events
  PROVE  /\ Append(events, e) \in Seq(Events)
         /\ \A b \in Buffers :
              Count(Append(events, e), ReleasesOf(b)) =
                Count(events, ReleasesOf(b)) + One(e, ReleasesOf(b))
<1>1. events \in Seq(Events)
  BY DEF SurfaceInv, SurfaceType
<1> QED BY <1>1, CountAppend

(* A release event takes the place of the wl_buffer. *)
LEMMA ReleaseKeeps ==
  ASSUME SurfaceInv, NEW c \in Buffers, Release(c)
  PROVE  SurfaceInv'
<1> DEFINE e == [type |-> "release", buffer |-> c]
<1>1. e \in Releases /\ e \in Events
  BY DEF Releases, Events
<1>2. /\ c \in held /\ held' = held \ {c}
      /\ events' = Append(events, e)
      /\ UNCHANGED <<slots, surface, requests, ready, serial, wanted, acked, shown, frames>>
  BY DEF Release, clientVars
<1>3. SurfaceType'
  BY <1>1, <1>2, EventSent DEF SurfaceInv, SurfaceType
<1>4. ASSUME NEW b \in Buffers PROVE Where(b)' = Where(b)
  <2>1. One(e, ReleasesOf(b)) = IF b = c THEN 1 ELSE 0
    BY <1>1 DEF One, ReleasesOf
  <2>2. Count(events', ReleasesOf(b)) =
          Count(events, ReleasesOf(b)) + One(e, ReleasesOf(b))
    BY <1>1, <1>2, EventSent
  <2>3. One(b, held) = One(b, held') + One(e, ReleasesOf(b)) /\ One(b, held') \in Nat
    BY <1>2, <2>1 DEF One
  <2>4. Count(events, ReleasesOf(b)) \in Nat /\ Count(requests, CommitsOf(b)) \in Nat
    BY CountFinite DEF SurfaceInv, SurfaceType
  <2>5. Where(b)' = Count(requests, CommitsOf(b)) + One(b, held')
                      + Count(events', ReleasesOf(b))
    BY <1>2 DEF Where
  <2> HIDE DEF e
  <2> QED BY <2>1, <2>2, <2>3, <2>4, <2>5 DEF Where
<1> QED BY <1>2, <1>3, <1>4 DEF SurfaceInv, BusyCounted

(* A done event is no release. *)
LEMMA DoneKeeps == SurfaceInv /\ SendDone => SurfaceInv'
<1> SUFFICES ASSUME SurfaceInv, SendDone PROVE SurfaceInv'
  OBVIOUS
<1> DEFINE e == [type |-> "done"]
<1>1. e \in Events /\ e \notin Releases
  BY DEF Dones, Releases, Events
<1>2. /\ frames > 0 /\ frames' = frames - 1
      /\ events' = Append(events, e)
      /\ UNCHANGED <<slots, surface, requests, ready, serial, wanted, acked, held, shown>>
  BY DEF SendDone, clientVars
<1>3. SurfaceType'
  BY <1>1, <1>2, EventSent DEF SurfaceInv, SurfaceType
<1>4. ASSUME NEW b \in Buffers PROVE Where(b)' = Where(b)
  <2>1. One(e, ReleasesOf(b)) = 0
    BY <1>1 DEF One, ReleasesOf
  <2>2. Count(events', ReleasesOf(b)) = Count(events, ReleasesOf(b)) + 0
    BY <1>1, <1>2, <2>1, EventSent
  <2>3. Count(events, ReleasesOf(b)) \in Nat
    BY CountFinite DEF SurfaceInv, SurfaceType
  <2> QED BY <1>2, <2>2, <2>3 DEF Where
<1> QED BY <1>2, <1>3, <1>4 DEF SurfaceInv, BusyCounted

(* Nor is a configure event, of which there are two. *)
LEMMA ConfigureSent ==
  ASSUME SurfaceInv, NEW w \in Nat, NEW h \in Nat, SendConfigure(w, h)
  PROVE  SurfaceInv'
<1> DEFINE t == [type |-> "toplevel_configure", width |-> w, height |-> h]
           c == [type |-> "configure", serial |-> serial + 1]
<1>1. /\ serial \in 0 .. MaxSerial /\ serial < MaxSerial
      /\ wanted \in [0 .. MaxSerial -> Nat \X Nat]
      /\ MaxSerial \in Nat /\ events \in Seq(Events)
      /\ serial' = serial + 1
      /\ wanted' = [wanted EXCEPT
           ![serial + 1] = IF w = 0 \/ h = 0 THEN wanted[serial] ELSE <<w, h>>]
      /\ events' = events \o <<t, c>>
      /\ UNCHANGED <<slots, surface, requests, ready, acked, held, shown, frames>>
  BY SurfaceAssumption DEF SendConfigure, clientVars, SurfaceInv, SurfaceType
<1>2. /\ t \in Events /\ c \in Events /\ t \notin Releases /\ c \notin Releases
      /\ <<t, c>> \in Seq(Events)
  BY <1>1 DEF Toplevels, Configures, Releases, Events
<1> HIDE DEF t, c
<1>3. SurfaceType'
  <2>1. events' \in Seq(Events)
    BY <1>1, <1>2
  <2>2. serial' \in 0 .. MaxSerial
    BY <1>1
  <2>3. wanted[serial] \in Nat \X Nat /\ <<w, h>> \in Nat \X Nat
    BY <1>1
  <2>4. wanted' \in [0 .. MaxSerial -> Nat \X Nat]
    BY <1>1, <2>3
  <2> QED BY <1>1, <2>1, <2>2, <2>4 DEF SurfaceInv, SurfaceType
<1>4. ASSUME NEW b \in Buffers PROVE Where(b)' = Where(b)
  <2>1. Count(<<t, c>>, ReleasesOf(b)) = 0
    BY <1>2, CountTwo DEF One, ReleasesOf
  <2>2. Count(events', ReleasesOf(b)) = Count(events, ReleasesOf(b)) + 0
    BY <1>1, <1>2, <2>1, CountConcat
  <2>3. Count(events, ReleasesOf(b)) \in Nat
    BY <1>1, CountFinite
  <2>4. Where(b)' = Count(requests, CommitsOf(b)) + One(b, held)
                      + Count(events', ReleasesOf(b))
    BY <1>1 DEF Where
  <2> QED BY <2>2, <2>3, <2>4 DEF Where
<1> QED BY <1>1, <1>3, <1>4 DEF SurfaceInv, BusyCounted

(* Before the first event. *)
LEMMA SurfaceStarts ==
  ASSUME NEW more \in Seq(Requests), SurfaceInit(more),
         \A b \in Buffers : Count(more, CommitsOf(b)) = 0
  PROVE  SurfaceInv
<1> DEFINE e == [type |-> "empty", frame |-> FALSE]
<1>1. /\ slots = [i \in Slots |-> EmptySlot]
      /\ requests = <<e>> \o more /\ events = <<>>
      /\ ready = FALSE /\ serial = 0 /\ acked = 0 /\ held = {} /\ frames = 0
      /\ shown = Nothing
      /\ surface = [width |-> 300, height |-> 400, attach |-> 0]
      /\ wanted = [s \in 0 .. MaxSerial |-> <<300, 400>>]
  BY DEF SurfaceInit, PoolInit
<1>2. EmptySlot \in Slot /\ EmptySlot.buffer = NULL /\ ~EmptySlot.busy
  BY DEF EmptySlot, Slot
<1>3. /\ e \in Requests /\ <<e>> \in Seq(Requests)
      /\ \A b \in Buffers : e \notin CommitsOf(b)
  BY DEF Requests, Empties, CommitsOf, Commits
<1> HIDE DEF e
<1>4. SurfaceType
  <2>1. slots \in [Slots -> Slot]
    BY <1>1, <1>2
  <2>2. requests \in Seq(Requests) /\ events \in Seq(Events)
    BY <1>1, <1>3
  <2>3. surface \in Surfaces /\ shown \in Contents
    BY <1>1 DEF Surfaces, Contents, Nothing
  <2>4. serial \in 0 .. MaxSerial /\ wanted \in [0 .. MaxSerial -> Nat \X Nat]
    BY <1>1, SurfaceAssumption
  <2> QED BY <1>1, <2>1, <2>2, <2>3, <2>4 DEF SurfaceType
<1>5. Apart(slots)
  BY <1>1, <1>2 DEF Apart, Slots
<1>6. ASSUME NEW b \in Buffers PROVE Where(b) = Owed(slots, b)
  <2>1. Count(requests, CommitsOf(b)) = Count(<<e>>, CommitsOf(b)) + Count(more, CommitsOf(b))
    BY <1>1, <1>3, CountConcat
  <2>2. Count(<<e>>, CommitsOf(b)) = 0
    BY <1>3, CountOne DEF One
  <2>3. Count(events, ReleasesOf(b)) = 0
    BY <1>1, CountEmpty
  <2>4. ~BusyIn(slots, b)
    BY <1>1, <1>2 DEF BusyIn
  <2> QED BY <1>1, <2>1, <2>2, <2>3, <2>4 DEF Where, One, Owed
<1> QED BY <1>4, <1>5, <1>6 DEF SurfaceInv, BusyCounted

-------------------------------------------------------------------------------
(* The requests that ask for a frame callback, and all callbacks on their way. *)
Asking == {m \in Commits \cup Empties : m.frame}

Owing == Count(requests, Asking) + frames + Count(events, Dones)

(* There is a number of them. *)
LEMMA OwingNat ==
  ASSUME SurfaceInv
  PROVE  /\ Count(requests, Asking) \in Nat /\ Count(events, Dones) \in Nat
         /\ frames \in Nat /\ Owing \in Nat
<1>1. /\ Count(requests, Asking) \in Nat /\ Count(events, Dones) \in Nat
      /\ frames \in Nat
  BY CountFinite DEF SurfaceInv, SurfaceType
<1> QED BY <1>1 DEF Owing

(* Reading a request turns it into a callback owed, if it asks for one. *)
LEMMA OwingRead == SurfaceInv /\ CompositorReads => Owing' = Owing
<1> SUFFICES ASSUME SurfaceInv, CompositorReads PROVE Owing' = Owing
  OBVIOUS
<1> DEFINE m == Head(requests)
<1>1. /\ requests \in Seq(Requests) /\ requests # <<>> /\ requests' = Tail(requests)
      /\ events' = events
  BY DEF SurfaceInv, SurfaceType, CompositorReads, ReceiveAck, ReceiveEmpty,
         ReceiveCommit, CompositorReceive
<1>2. /\ m \in Requests
      /\ Count(requests, Asking) = One(m, Asking) + Count(requests', Asking)
      /\ Count(requests', Asking) \in Nat
  <2>1. Tail(requests) \in Seq(Requests)
    BY <1>1, CountTail
  <2> QED BY <1>1, <2>1, CountTail, CountFinite
<1>3. frames' = frames + One(m, Asking)
  <2>1. CASE ReceiveAck
    <3>1. m \in Acks
      BY <1>2, <2>1, RequestTypes DEF ReceiveAck, CompositorReceive
    <3>2. m \notin Asking
      BY <3>1 DEF Asking, Acks, Commits, Empties
    <3> QED BY <2>1, <3>2, OwingNat DEF ReceiveAck, One
  <2>2. CASE ReceiveEmpty \/ ReceiveCommit
    <3>1. m \in Commits \cup Empties
      BY <1>2, <2>2, RequestTypes DEF ReceiveEmpty, ReceiveCommit, CompositorReceive
    <3>2. frames' = frames + (IF m.frame THEN 1 ELSE 0)
      BY <2>2 DEF ReceiveEmpty, ReceiveCommit
    <3> QED BY <3>1, <3>2 DEF Asking, One
  <2> QED BY <2>1, <2>2 DEF CompositorReads
<1>4. Owing' = Count(requests', Asking) + frames' + Count(events, Dones)
  BY <1>1 DEF Owing
<1>5. One(m, Asking) \in Nat
  BY DEF One
<1> HIDE DEF m
<1> QED BY <1>2, <1>3, <1>4, <1>5, OwingNat DEF Owing

(* The compositor makes and forgets no callback. *)
LEMMA OwingSent ==
  ASSUME SurfaceInv,
         \/ \E b \in held : Release(b)
         \/ \E z \in Sizes : SendConfigure(z[1], z[2])
         \/ SendDone
  PROVE  Owing' = Owing
<1>1. CASE \E b \in held : Release(b)
  <2>1. PICK b \in held : Release(b)
    BY <1>1
  <2> DEFINE e == [type |-> "release", buffer |-> b]
  <2>2. /\ events' = Append(events, e) /\ requests' = requests /\ frames' = frames
        /\ events \in Seq(Events) /\ b \in Buffers
    BY <2>1 DEF Release, SurfaceInv, SurfaceType
  <2>3. e \in Events /\ e \notin Dones
    BY <2>2 DEF Releases, Events, Dones
  <2>4. Count(events', Dones) = Count(events, Dones) + 0
    BY <2>2, <2>3, CountAppend DEF One
  <2> QED BY <2>2, <2>4, OwingNat DEF Owing
<1>2. CASE \E z \in Sizes : SendConfigure(z[1], z[2])
  <2>1. PICK z \in Sizes : SendConfigure(z[1], z[2])
    BY <1>2
  <2> DEFINE t == [type |-> "toplevel_configure", width |-> z[1], height |-> z[2]]
             c == [type |-> "configure", serial |-> serial + 1]
  <2>2. /\ events' = events \o <<t, c>> /\ requests' = requests /\ frames' = frames
        /\ events \in Seq(Events)
    BY <2>1 DEF SendConfigure, SurfaceInv, SurfaceType
  <2>6. z[1] \in Nat /\ z[2] \in Nat /\ serial + 1 \in Nat
    <3>1. z \in Nat \X Nat
      BY SurfaceAssumption
    <3>2. serial + 1 \in Nat
      BY SurfaceAssumption DEF SurfaceInv, SurfaceType
    <3> QED BY <3>1, <3>2
  <2>3. t \in Events /\ c \in Events /\ t \notin Dones /\ c \notin Dones
    BY <2>6 DEF Toplevels, Configures, Events, Dones
  <2> HIDE DEF t, c
  <2>4. <<t, c>> \in Seq(Events) /\ Count(<<t, c>>, Dones) = 0
    BY <2>3, CountTwo DEF One
  <2>5. Count(events', Dones) = Count(events, Dones) + 0
    BY <2>2, <2>4, CountConcat
  <2> QED BY <2>2, <2>5, OwingNat DEF Owing
<1>3. CASE SendDone
  <2> DEFINE e == [type |-> "done"]
  <2>1. /\ events' = Append(events, e) /\ requests' = requests /\ frames' = frames - 1
        /\ events \in Seq(Events)
    BY <1>3 DEF SendDone, SurfaceInv, SurfaceType
  <2>2. e \in Events /\ e \in Dones
    BY DEF Events, Dones
  <2>3. Count(events', Dones) = Count(events, Dones) + 1
    BY <2>1, <2>2, CountAppend DEF One
  <2>4. Owing' = Count(requests, Asking) + frames' + Count(events', Dones)
    BY <2>1 DEF Owing
  <2> QED BY <2>1, <2>3, <2>4, OwingNat DEF Owing
<1> QED BY <1>1, <1>2, <1>3

(* A handler takes one callback if it handles a done event, and asks for others. *)
LEMMA OwingHandled ==
  ASSUME SurfaceInv, NEW msgs \in Seq(Requests), Send(msgs), frames' = frames,
         events # <<>>, events' = Tail(events)
  PROVE  /\ Owing' = Owing + Count(msgs, Asking)
                       - (IF Head(events).type = "done" THEN 1 ELSE 0)
         /\ Head(events).type = "done" => Owing > 0
         /\ Count(msgs, Asking) \in Nat
<1>1. /\ requests \in Seq(Requests) /\ events \in Seq(Events)
      /\ requests' = requests \o msgs
  BY DEF SurfaceInv, SurfaceType, Send
<1>2. Count(requests', Asking) = Count(requests, Asking) + Count(msgs, Asking)
  BY <1>1, CountConcat
<1>3. /\ Head(events) \in Events
      /\ Count(events, Dones) = One(Head(events), Dones) + Count(events', Dones)
      /\ Tail(events) \in Seq(Events)
  BY <1>1, CountTail
<1>4. Count(events', Dones) \in Nat /\ Count(msgs, Asking) \in Nat
  BY <1>3, CountFinite
<1>5. One(Head(events), Dones) = IF Head(events).type = "done" THEN 1 ELSE 0
  BY <1>3, EventTypes DEF One
<1>6. Owing' = Count(requests', Asking) + frames + Count(events', Dones)
  BY DEF Owing
<1> QED BY <1>2, <1>3, <1>4, <1>5, <1>6, OwingNat DEF Owing

(* How many callbacks the requests of a handler ask for. *)
LEMMA AskingCounts ==
  /\ \A m \in Acks : One(m, Asking) = 0
  /\ \A m \in Commits : One(m, Asking) = IF m.frame THEN 1 ELSE 0
  /\ request_frame_callback \in Empties
  /\ One(request_frame_callback, Asking) = 1
BY DEF One, Asking, Acks, Commits, Empties, request_frame_callback

(* Acknowledging and asking for a callback hand over no wl_buffer. *)
LEMMA CommitCounts ==
  ASSUME NEW b \in Buffers
  PROVE  /\ \A m \in Acks \cup Empties : One(m, CommitsOf(b)) = 0
         /\ \A m \in Commits : One(m, CommitsOf(b)) = IF m.buffer = b THEN 1 ELSE 0
BY DEF One, CommitsOf, Acks, Commits, Empties

(* The answer to a configure event counts for what was drawn. *)
LEMMA AnswerCounts ==
  ASSUME NEW n \in Nat, NEW sent \in Seq(Requests)
  PROVE  /\ Answer(n, sent) \in Seq(Requests)
         /\ Count(Answer(n, sent), Asking) = Count(sent, Asking)
         /\ \A b \in Buffers :
              Count(Answer(n, sent), CommitsOf(b)) = Count(sent, CommitsOf(b))
<1> DEFINE a == ack_configure(n)
<1>1. a \in Acks /\ a \in Requests
  BY DEF ack_configure, Acks, Requests
<1> HIDE DEF a
<1>2. <<a>> \in Seq(Requests)
  BY <1>1
<1>3. ASSUME NEW M, One(a, M) = 0
      PROVE  Count(<<a>> \o sent, M) = Count(sent, M)
  <2>1. Count(<<a>> \o sent, M) = Count(<<a>>, M) + Count(sent, M)
    BY <1>2, CountConcat
  <2>2. Count(sent, M) \in Nat
    BY CountFinite
  <2> QED BY <1>3, <2>1, <2>2, CountOne
<1>4. Answer(n, sent) = <<a>> \o sent
  BY DEF Answer, a
<1> QED BY <1>1, <1>2, <1>3, <1>4, AskingCounts, CommitCounts

(* Whatever the compositor does keeps the invariant and the number of callbacks. *)
LEMMA CompositorKeeps ==
  ASSUME SurfaceInv,
         \/ CompositorReads
         \/ \E b \in held : Release(b)
         \/ \E z \in Sizes : SendConfigure(z[1], z[2])
         \/ SendDone
  PROVE  SurfaceInv' /\ Owing' = Owing
<1>1. CASE CompositorReads
  BY <1>1, AckRead, CommitRead, OwingRead DEF CompositorReads
<1>2. CASE \E b \in held : Release(b)
  <2>1. PICK b \in held : Release(b)
    BY <1>2
  <2>2. b \in Buffers
    BY <2>1 DEF SurfaceInv, SurfaceType
  <2> QED BY <1>2, <2>1, <2>2, ReleaseKeeps, OwingSent
<1>3. CASE \E z \in Sizes : SendConfigure(z[1], z[2])
  <2>1. PICK z \in Sizes : SendConfigure(z[1], z[2])
    BY <1>3
  <2>2. z[1] \in Nat /\ z[2] \in Nat
    BY SurfaceAssumption
  <2> QED BY <1>3, <2>1, <2>2, ConfigureSent, OwingSent
<1>4. CASE SendDone
  BY <1>4, DoneKeeps, OwingSent
<1> QED BY <1>1, <1>2, <1>3, <1>4

-------------------------------------------------------------------------------
(* The configure event the client has handled last, and the one whose size it
   has stored: the next one between its two events. *)
Handled == serial - Count(events, Configures)

Stored == IF events # <<>> /\ Head(events) \in Configures THEN Handled + 1 ELSE Handled

(* The size in effect with a toplevel_configure, if z was before. *)
InEffect(e, z) == IF e.width = 0 \/ e.height = 0 THEN z ELSE <<e.width, e.height>>

(* The events e hold, in their order and each behind its toplevel_configure,
   the configures from h + 1 to n. *)
Configuring(e, h, n) ==
  /\ h \in 0 .. n
  /\ \A k \in DOMAIN e : e[k] \in Configures =>
       /\ e[k].serial \in h + 1 .. n
       /\ \A j \in 1 .. k - 1 : e[j] \in Configures => e[j].serial < e[k].serial
       /\ k > 1 => e[k - 1] \in Toplevels
  /\ \A s \in h + 1 .. n :
       \E k \in DOMAIN e : e[k] \in Configures /\ e[k].serial = s
  /\ \A k \in DOMAIN e : e[k] \in Toplevels =>
       k + 1 \in DOMAIN e /\ e[k + 1] \in Configures

(* A toplevel_configure says what its configure made of wanted. *)
Sizing(e, w) ==
  \A k \in DOMAIN e : e[k] \in Toplevels =>
    LET s == e[k + 1].serial
    IN  w[s] = InEffect(e[k], w[s - 1])

ConfigureInv == Configuring(events, Handled, serial) /\ Sizing(events, wanted)

(* One event less: the handled configures are a prefix of those sent. *)
LEMMA ConfiguringTail ==
  ASSUME NEW e \in Seq(Events), e # <<>>, NEW h \in Nat, NEW n \in Nat,
         Configuring(e, h, n)
  PROVE  /\ Head(e) \in Configures =>
              Head(e).serial = h + 1 /\ Configuring(Tail(e), h + 1, n)
         /\ Head(e) \notin Configures => Configuring(Tail(e), h, n)
         /\ Head(e) \in Toplevels =>
              /\ Tail(e) # <<>> /\ Head(Tail(e)) = e[2]
              /\ e[2] \in Configures /\ e[2].serial = h + 1
         /\ Head(e) \notin Toplevels => Tail(e) = <<>> \/ Head(Tail(e)) \notin Configures
<1> DEFINE t == Tail(e)
<1>1. /\ Len(e) \in Nat /\ Len(e) > 0 /\ DOMAIN e = 1 .. Len(e)
      /\ DOMAIN t = 1 .. Len(e) - 1
      /\ \A k \in DOMAIN t : t[k] = e[k + 1] /\ k + 1 \in DOMAIN e
      /\ Head(e) = e[1] /\ 1 \in DOMAIN e
      /\ t # <<>> <=> Len(e) > 1
      /\ t # <<>> => Head(t) = e[2]
  <2>1. /\ Len(e) \in Nat /\ Len(e) > 0 /\ DOMAIN e = 1 .. Len(e)
        /\ Head(e) = e[1] /\ 1 \in DOMAIN e
    OBVIOUS
  <2>2. t \in Seq(Events) /\ Len(t) = Len(e) - 1 /\ DOMAIN t = 1 .. Len(e) - 1
    BY <2>1
  <2>3. \A k \in 1 .. Len(e) - 1 : t[k] = e[k + 1]
    BY <2>1
  <2>4. t # <<>> <=> Len(e) > 1
    <3> HIDE DEF t
    <3> QED BY <2>1, <2>2
  <2>5. t # <<>> => Head(t) = e[2]
    <3> HIDE DEF t
    <3> QED BY <2>1, <2>2, <2>3, <2>4
  <2> HIDE DEF t
  <2> QED BY <2>1, <2>2, <2>3, <2>4, <2>5
<1> HIDE DEF t
<1>2. /\ h \in 0 .. n
      /\ \A k \in DOMAIN e : e[k] \in Configures => e[k].serial \in h + 1 .. n
      /\ \A k \in DOMAIN e : e[k] \in Configures =>
           \A j \in 1 .. k - 1 : e[j] \in Configures => e[j].serial < e[k].serial
      /\ \A k \in DOMAIN e : e[k] \in Configures => (k > 1 => e[k - 1] \in Toplevels)
      /\ \A s \in h + 1 .. n :
           \E k \in DOMAIN e : e[k] \in Configures /\ e[k].serial = s
      /\ \A k \in DOMAIN e : e[k] \in Toplevels =>
           k + 1 \in DOMAIN e /\ e[k + 1] \in Configures
  BY DEF Configuring
<1>3. \A k \in DOMAIN t : t[k] \in Configures =>
        \A j \in 1 .. k - 1 : t[j] \in Configures => t[j].serial < t[k].serial
  <2> SUFFICES ASSUME NEW k \in DOMAIN t, t[k] \in Configures,
                      NEW j \in 1 .. k - 1, t[j] \in Configures
               PROVE  t[j].serial < t[k].serial
    OBVIOUS
  <2>1. j \in DOMAIN t /\ j + 1 \in 1 .. (k + 1) - 1 /\ k + 1 \in DOMAIN e
    BY <1>1
  <2> QED BY <1>1, <1>2, <2>1
<1>4. \A k \in DOMAIN t : t[k] \in Configures => (k > 1 => t[k - 1] \in Toplevels)
  <2> SUFFICES ASSUME NEW k \in DOMAIN t, t[k] \in Configures, k > 1
               PROVE  t[k - 1] \in Toplevels
    OBVIOUS
  <2>1. k - 1 \in DOMAIN t /\ k + 1 \in DOMAIN e /\ k + 1 > 1 /\ (k + 1) - 1 = (k - 1) + 1
    BY <1>1
  <2> QED BY <1>1, <1>2, <2>1
<1>5. \A k \in DOMAIN t : t[k] \in Toplevels =>
        k + 1 \in DOMAIN t /\ t[k + 1] \in Configures
  <2> SUFFICES ASSUME NEW k \in DOMAIN t, t[k] \in Toplevels
               PROVE  k + 1 \in DOMAIN t /\ t[k + 1] \in Configures
    OBVIOUS
  <2>1. (k + 1) + 1 \in DOMAIN e /\ e[(k + 1) + 1] \in Configures
    BY <1>1, <1>2
  <2>2. k + 1 \in DOMAIN t
    BY <1>1, <2>1
  <2> QED BY <1>1, <2>1, <2>2
<1>6. \A k \in DOMAIN t : t[k] \in Configures => t[k].serial \in h + 1 .. n
  BY <1>1, <1>2
<1>7. ASSUME e[1] \notin Configures
      PROVE  Configuring(t, h, n)
  <2>1. ASSUME NEW s \in h + 1 .. n
        PROVE  \E k \in DOMAIN t : t[k] \in Configures /\ t[k].serial = s
    <3>1. PICK k \in DOMAIN e : e[k] \in Configures /\ e[k].serial = s
      BY <1>2
    <3>2. k - 1 \in DOMAIN t /\ t[k - 1] = e[k]
      BY <1>1, <1>7, <3>1
    <3> QED BY <3>1, <3>2
  <2> QED BY <1>2, <1>3, <1>4, <1>5, <1>6, <2>1 DEF Configuring
<1>8. ASSUME e[1] \in Configures
      PROVE  e[1].serial = h + 1 /\ Configuring(t, h + 1, n)
  <2>1. e[1].serial \in h + 1 .. n /\ e[1].serial \in Nat
    BY <1>1, <1>2, <1>8 DEF Configures
  <2>2. PICK i \in DOMAIN e : e[i] \in Configures /\ e[i].serial = h + 1
    BY <1>2, <2>1
  <2>3. i = 1
    <3>1. CASE i > 1
      <4>1. 1 \in 1 .. i - 1
        BY <1>1, <3>1
      <4>2. e[1].serial < e[i].serial
        BY <1>2, <1>8, <2>2, <4>1
      <4> QED BY <2>1, <2>2, <4>2
    <3> QED BY <1>1, <3>1
  <2>4. \A k \in DOMAIN t : t[k] \in Configures => t[k].serial \in h + 2 .. n
    <3> SUFFICES ASSUME NEW k \in DOMAIN t, t[k] \in Configures
                 PROVE  t[k].serial \in h + 2 .. n
      OBVIOUS
    <3>1. k + 1 \in DOMAIN e /\ t[k] = e[k + 1] /\ 1 \in 1 .. (k + 1) - 1
      BY <1>1
    <3>2. e[1].serial < e[k + 1].serial /\ e[k + 1].serial \in h + 1 .. n
      BY <1>2, <1>8, <3>1
    <3> QED BY <2>2, <2>3, <3>1, <3>2
  <2>5. ASSUME NEW s \in h + 2 .. n
        PROVE  \E k \in DOMAIN t : t[k] \in Configures /\ t[k].serial = s
    <3>1. PICK k \in DOMAIN e : e[k] \in Configures /\ e[k].serial = s
      BY <1>2
    <3>2. k # 1
      BY <2>2, <2>3, <3>1
    <3>3. k - 1 \in DOMAIN t /\ t[k - 1] = e[k]
      BY <1>1, <3>2
    <3> QED BY <3>1, <3>3
  <2>6. h + 1 \in 0 .. n /\ (h + 1) + 1 = h + 2
    BY <2>1
  <2> QED BY <1>3, <1>4, <1>5, <2>2, <2>3, <2>4, <2>5, <2>6 DEF Configuring
<1>9. ASSUME e[1] \in Toplevels
      PROVE  t # <<>> /\ e[2] \in Configures /\ e[2].serial = h + 1
  <2>1. 2 \in DOMAIN e /\ e[2] \in Configures
    BY <1>1, <1>2, <1>9
  <2>2. 1 \in DOMAIN t /\ t[1] = e[2] /\ t # <<>>
    BY <1>1, <2>1
  <2>3. e[1] \notin Configures
    BY <1>9 DEF Toplevels, Configures
  <2>4. e[2].serial \in h + 1 .. n /\ e[2].serial \in Nat
    BY <1>2, <2>1 DEF Configures
  <2>5. PICK i \in DOMAIN e : e[i] \in Configures /\ e[i].serial = h + 1
    BY <1>2, <2>4
  <2>6. i = 2
    <3>1. CASE i > 2
      <4>1. 2 \in 1 .. i - 1
        BY <1>1, <3>1
      <4>2. e[2].serial < e[i].serial
        BY <1>2, <2>1, <2>5, <4>1
      <4> QED BY <2>4, <2>5, <4>2
    <3> QED BY <1>1, <2>3, <2>5, <3>1
  <2> QED BY <2>1, <2>2, <2>5, <2>6
<1>10. ASSUME e[1] \notin Toplevels, t # <<>>
       PROVE  e[2] \notin Configures
  <2>1. 2 \in DOMAIN e
    BY <1>1, <1>10
  <2> QED BY <1>2, <1>10, <2>1
<1> QED BY <1>1, <1>7, <1>8, <1>9, <1>10 DEF t

(* The sizes said go on being right. *)
LEMMA SizingTail ==
  ASSUME NEW e \in Seq(Events), e # <<>>, NEW h, NEW n, Configuring(e, h, n),
         NEW w, Sizing(e, w)
  PROVE  /\ Sizing(Tail(e), w)
         /\ Head(e) \in Toplevels =>
              w[e[2].serial] = InEffect(Head(e), w[e[2].serial - 1])
<1>1. /\ 1 \in DOMAIN e /\ Head(e) = e[1]
      /\ Tail(e) \in Seq(Events) /\ Len(Tail(e)) = Len(e) - 1
  OBVIOUS
<1> DEFINE t == Tail(e)
<1>2. \A k \in DOMAIN t :
        /\ k \in Nat /\ k + 1 \in DOMAIN e /\ t[k] = e[k + 1]
        /\ (k + 1) + 1 \in DOMAIN e => t[k + 1] = e[(k + 1) + 1]
  OBVIOUS
<1> HIDE DEF t
<1>3. ASSUME NEW k \in DOMAIN t, t[k] \in Toplevels
      PROVE  w[t[k + 1].serial] = InEffect(t[k], w[t[k + 1].serial - 1])
  <2>1. /\ k + 1 \in DOMAIN e /\ e[k + 1] \in Toplevels /\ t[k] = e[k + 1]
        /\ t[k + 1] = e[(k + 1) + 1]
    BY <1>2, <1>3 DEF Configuring
  <2> QED BY <2>1 DEF Sizing
<1>4. Sizing(t, w)
  BY <1>3 DEF Sizing
<1>5. Head(e) \in Toplevels => w[e[2].serial] = InEffect(Head(e), w[e[2].serial - 1])
  <2>1. 1 + 1 = 2
    OBVIOUS
  <2> QED BY <1>1, <2>1 DEF Sizing
<1> QED BY <1>4, <1>5 DEF t

(* An event of another kind changes nothing. *)
LEMMA ConfiguringAppend ==
  ASSUME NEW e \in Seq(Events), NEW m \in Events, m \notin Configures,
         m \notin Toplevels, NEW h \in Nat, NEW n \in Nat, NEW w,
         Configuring(e, h, n), Sizing(e, w)
  PROVE  Configuring(Append(e, m), h, n) /\ Sizing(Append(e, m), w)
<1> DEFINE a == Append(e, m)
<1>1. /\ Len(e) \in Nat /\ DOMAIN e = 1 .. Len(e) /\ DOMAIN a = 1 .. Len(e) + 1
      /\ \A k \in DOMAIN e : a[k] = e[k]
      /\ a[Len(e) + 1] = m
  OBVIOUS
<1> HIDE DEF a
<1>2. \A k \in DOMAIN a :
        (a[k] \in Configures \/ a[k] \in Toplevels) => k \in DOMAIN e /\ a[k] = e[k]
  BY <1>1
<1>3. Configuring(a, h, n)
  <2>1. \A k \in DOMAIN a : a[k] \in Configures =>
          /\ a[k].serial \in h + 1 .. n
          /\ \A j \in 1 .. k - 1 : a[j] \in Configures => a[j].serial < a[k].serial
          /\ k > 1 => a[k - 1] \in Toplevels
    <3> SUFFICES ASSUME NEW k \in DOMAIN a, a[k] \in Configures
                 PROVE  /\ a[k].serial \in h + 1 .. n
                        /\ \A j \in 1 .. k - 1 :
                             a[j] \in Configures => a[j].serial < a[k].serial
                        /\ k > 1 => a[k - 1] \in Toplevels
      OBVIOUS
    <3>1. k \in DOMAIN e /\ a[k] = e[k] /\ e[k] \in Configures
      BY <1>2
    <3>2. \A j \in 1 .. k - 1 : a[j] = e[j]
      BY <1>1, <3>1
    <3>3. k > 1 => a[k - 1] = e[k - 1]
      BY <1>1, <3>1
    <3> QED BY <3>1, <3>2, <3>3 DEF Configuring
  <2>2. \A s \in h + 1 .. n :
          \E k \in DOMAIN a : a[k] \in Configures /\ a[k].serial = s
    <3> SUFFICES ASSUME NEW s \in h + 1 .. n
                 PROVE  \E k \in DOMAIN a : a[k] \in Configures /\ a[k].serial = s
      OBVIOUS
    <3>1. PICK k \in DOMAIN e : e[k] \in Configures /\ e[k].serial = s
      BY DEF Configuring
    <3> QED BY <1>1, <3>1
  <2>3. \A k \in DOMAIN a : a[k] \in Toplevels =>
          k + 1 \in DOMAIN a /\ a[k + 1] \in Configures
    BY <1>1, <1>2 DEF Configuring
  <2> QED BY <2>1, <2>2, <2>3 DEF Configuring
<1>4. Sizing(a, w)
  <2> SUFFICES ASSUME NEW k \in DOMAIN a, a[k] \in Toplevels
               PROVE  w[a[k + 1].serial] = InEffect(a[k], w[a[k + 1].serial - 1])
    BY DEF Sizing
  <2>1. k \in DOMAIN e /\ a[k] = e[k] /\ k + 1 \in DOMAIN e /\ a[k + 1] = e[k + 1]
    BY <1>1, <1>2 DEF Configuring
  <2> QED BY <2>1 DEF Sizing
<1> QED BY <1>3, <1>4 DEF a

(* A configure goes behind those before it. *)
LEMMA ConfiguringSent ==
  ASSUME NEW e \in Seq(Events), NEW h \in Nat, NEW n \in Nat, NEW w,
         Configuring(e, h, n), Sizing(e, w),
         NEW t \in Toplevels, NEW c \in Configures, c.serial = n + 1,
         NEW v, \A s \in 0 .. n : v[s] = w[s], v[n + 1] = InEffect(t, w[n])
  PROVE  Configuring(e \o <<t, c>>, h, n + 1) /\ Sizing(e \o <<t, c>>, v)
<1> DEFINE a == e \o <<t, c>>
           l == Len(e)
<1>1. /\ l \in Nat /\ DOMAIN e = 1 .. l /\ DOMAIN a = 1 .. l + 2
      /\ \A k \in DOMAIN e : a[k] = e[k]
      /\ a[l + 1] = t /\ a[l + 2] = c
  <2>1. <<t, c>> \in Seq(Events)
    BY DEF Events
  <2> QED BY <2>1
<1> HIDE DEF a, l
<1>2. t \notin Configures /\ c \notin Toplevels
  BY DEF Toplevels, Configures
<1>3. /\ \A k \in DOMAIN a : a[k] \in Configures =>
           k = l + 2 \/ (k \in DOMAIN e /\ e[k] \in Configures /\ a[k] = e[k])
      /\ \A k \in DOMAIN a : a[k] \in Toplevels =>
           k = l + 1 \/ (k \in DOMAIN e /\ e[k] \in Toplevels /\ a[k] = e[k])
  BY <1>1, <1>2
<1>4. /\ h \in 0 .. n
      /\ \A k \in DOMAIN e : e[k] \in Configures => e[k].serial \in h + 1 .. n
      /\ \A k \in DOMAIN e : e[k] \in Configures =>
           \A j \in 1 .. k - 1 : e[j] \in Configures => e[j].serial < e[k].serial
      /\ \A k \in DOMAIN e : e[k] \in Configures => (k > 1 => e[k - 1] \in Toplevels)
      /\ \A s \in h + 1 .. n :
           \E k \in DOMAIN e : e[k] \in Configures /\ e[k].serial = s
      /\ \A k \in DOMAIN e : e[k] \in Toplevels =>
           k + 1 \in DOMAIN e /\ e[k + 1] \in Configures
  BY DEF Configuring
<1>5. ASSUME NEW k \in DOMAIN a, a[k] \in Configures
      PROVE  /\ a[k].serial \in h + 1 .. n + 1
             /\ \A j \in 1 .. k - 1 : a[j] \in Configures => a[j].serial < a[k].serial
             /\ k > 1 => a[k - 1] \in Toplevels
  <2>1. CASE k = l + 2
    <3>1. a[k].serial = n + 1 /\ n + 1 \in h + 1 .. n + 1
      BY <1>1, <1>4, <2>1
    <3>2. a[k - 1] = t
      BY <1>1, <2>1
    <3>3. ASSUME NEW j \in 1 .. k - 1, a[j] \in Configures
          PROVE  a[j].serial < a[k].serial
      <4>1. j \in DOMAIN e /\ e[j] \in Configures /\ a[j] = e[j]
        BY <1>1, <1>3, <2>1, <3>3
      <4> QED BY <1>4, <3>1, <4>1
    <3> QED BY <3>1, <3>2, <3>3
  <2>2. CASE k \in DOMAIN e /\ e[k] \in Configures /\ a[k] = e[k]
    <3>1. \A j \in 1 .. k - 1 : j \in DOMAIN e /\ a[j] = e[j]
      BY <1>1, <2>2
    <3>2. k > 1 => k - 1 \in DOMAIN e /\ a[k - 1] = e[k - 1]
      BY <1>1, <2>2
    <3>3. e[k].serial \in h + 1 .. n + 1
      BY <1>4, <2>2
    <3> QED BY <1>4, <2>2, <3>1, <3>2, <3>3
  <2> QED BY <1>3, <1>5, <2>1, <2>2
<1>6. ASSUME NEW s \in h + 1 .. n + 1
      PROVE  \E k \in DOMAIN a : a[k] \in Configures /\ a[k].serial = s
  <2>1. CASE s = n + 1
    BY <1>1, <2>1
  <2>2. CASE s \in h + 1 .. n
    <3>1. PICK k \in DOMAIN e : e[k] \in Configures /\ e[k].serial = s
      BY <1>4, <2>2
    <3> QED BY <1>1, <3>1
  <2> QED BY <2>1, <2>2
<1>7. ASSUME NEW k \in DOMAIN a, a[k] \in Toplevels
      PROVE  k + 1 \in DOMAIN a /\ a[k + 1] \in Configures
  BY <1>1, <1>3, <1>4, <1>7
<1>8. Configuring(a, h, n + 1)
  <2>1. h \in 0 .. n + 1
    BY <1>4
  <2> QED BY <1>5, <1>6, <1>7, <2>1 DEF Configuring
<1>9. ASSUME NEW k \in DOMAIN a, a[k] \in Toplevels
      PROVE  v[a[k + 1].serial] = InEffect(a[k], v[a[k + 1].serial - 1])
  <2>1. CASE k = l + 1
    <3>1. a[k] = t /\ a[k + 1] = c /\ c.serial = n + 1 /\ c.serial - 1 = n
      BY <1>1, <2>1
    <3>2. v[n] = w[n]
      OBVIOUS
    <3> QED BY <3>1, <3>2
  <2>2. CASE k \in DOMAIN e /\ e[k] \in Toplevels /\ a[k] = e[k]
    <3>1. k + 1 \in DOMAIN e /\ e[k + 1] \in Configures /\ a[k + 1] = e[k + 1]
      BY <1>1, <1>4, <2>2
    <3> DEFINE s == e[k + 1].serial
    <3>2. s \in h + 1 .. n
      BY <1>4, <3>1
    <3>3. w[s] = InEffect(e[k], w[s - 1])
      BY <2>2 DEF Sizing
    <3> HIDE DEF s
    <3>4. v[s] = w[s] /\ v[s - 1] = w[s - 1]
      BY <3>2
    <3> QED BY <2>2, <3>1, <3>3, <3>4 DEF s
  <2> QED BY <1>3, <1>9, <2>1, <2>2
<1>10. Sizing(a, v)
  BY <1>9 DEF Sizing
<1> QED BY <1>8, <1>10 DEF a

(* What taking the next event from the queue does to Handled and Stored. *)
LEMMA ConfigureNext ==
  ASSUME SurfaceInv, ConfigureInv, events # <<>>, events' = Tail(events),
         UNCHANGED <<serial, wanted>>
  PROVE  /\ ConfigureInv'
         /\ Handled \in 0 .. serial
         /\ Head(events).type = "configure" =>
              /\ Head(events).serial = Handled + 1
              /\ Handled' = Handled + 1 /\ Stored = Handled + 1 /\ Stored' = Handled + 1
         /\ Head(events).type = "toplevel_configure" =>
              /\ Handled' = Handled /\ Stored = Handled /\ Stored' = Handled + 1
              /\ Handled + 1 \in 1 .. serial
              /\ Head(events) \in Toplevels
              /\ wanted[Handled + 1] = InEffect(Head(events), wanted[Handled])
         /\ Head(events).type \notin {"configure", "toplevel_configure"} =>
              Handled' = Handled /\ Stored = Handled /\ Stored' = Handled
<1> DEFINE m == Head(events)
<1>1. /\ events \in Seq(Events) /\ serial \in Nat /\ Handled \in 0 .. serial
      /\ Configuring(events, Handled, serial) /\ Sizing(events, wanted)
  BY SurfaceAssumption DEF SurfaceInv, SurfaceType, ConfigureInv, Configuring
<1>2. /\ m \in Events
      /\ Count(events, Configures) = One(m, Configures) + Count(events', Configures)
      /\ events' \in Seq(Events)
  BY <1>1, CountTail
<1>3. Count(events, Configures) \in Nat /\ Count(events', Configures) \in Nat
  BY <1>1, <1>2, CountFinite
<1>4. Handled' = Handled + One(m, Configures)
  <2>1. One(m, Configures) \in Nat
    BY DEF One
  <2> HIDE DEF m
  <2> QED BY <1>1, <1>2, <1>3, <2>1 DEF Handled
<1>5. /\ m \in Configures =>
           m.serial = Handled + 1 /\ Configuring(events', Handled + 1, serial)
      /\ m \notin Configures => Configuring(events', Handled, serial)
      /\ m \in Toplevels =>
           /\ events' # <<>> /\ Head(events') = events[2]
           /\ events[2] \in Configures /\ events[2].serial = Handled + 1
      /\ m \notin Toplevels => events' = <<>> \/ Head(events') \notin Configures
  <2>1. Handled \in Nat
    BY <1>1
  <2> HIDE DEF Handled
  <2> QED BY <1>1, <2>1, ConfiguringTail
<1>6. /\ Sizing(events', wanted)
      /\ m \in Toplevels =>
           wanted[events[2].serial] = InEffect(m, wanted[events[2].serial - 1])
  BY <1>1, SizingTail
<1>7. /\ m.type = "configure" <=> m \in Configures
      /\ m.type = "toplevel_configure" <=> m \in Toplevels
      /\ ~(m \in Configures /\ m \in Toplevels)
  BY <1>2, EventTypes DEF Toplevels, Configures
<1> HIDE DEF m, Handled
<1>8. CASE m \in Configures
  <2>1. Handled' = Handled + 1
    BY <1>1, <1>4, <1>8 DEF One
  <2>2. ConfigureInv'
    BY <1>5, <1>6, <1>8, <2>1 DEF ConfigureInv
  <2>3. Stored = Handled + 1 /\ Stored' = Handled + 1
    BY <1>5, <1>7, <1>8, <2>1 DEF Stored, m
  <2> QED BY <1>1, <1>5, <1>7, <1>8, <2>1, <2>2, <2>3 DEF m
<1>9. CASE m \in Toplevels
  <2>1. Handled' = Handled
    BY <1>1, <1>4, <1>7, <1>9 DEF One
  <2>2. ConfigureInv'
    BY <1>5, <1>6, <1>7, <1>9, <2>1 DEF ConfigureInv
  <2>3. Stored = Handled /\ Stored' = Handled + 1
    BY <1>5, <1>7, <1>9, <2>1 DEF Stored, m
  <2>4. wanted[Handled + 1] = InEffect(m, wanted[Handled])
    <3>1. (Handled + 1) - 1 = Handled
      BY <1>1
    <3> QED BY <1>5, <1>6, <1>9, <3>1
  <2>5. Handled + 1 \in 1 .. serial
    <3>1. events[2].serial \in Handled + 1 .. serial
      <4>1. 2 \in DOMAIN events
        BY <1>1, <1>5, <1>9
      <4> QED BY <1>1, <1>5, <1>9, <4>1 DEF Configuring
    <3> QED BY <1>1, <1>5, <1>9, <3>1
  <2> QED BY <1>1, <1>7, <1>9, <2>1, <2>2, <2>3, <2>4, <2>5 DEF m
<1>10. CASE m \notin Configures /\ m \notin Toplevels
  <2>1. Handled' = Handled
    BY <1>1, <1>4, <1>10 DEF One
  <2>2. ConfigureInv'
    BY <1>5, <1>6, <1>10, <2>1 DEF ConfigureInv
  <2>3. Stored = Handled /\ Stored' = Handled
    BY <1>5, <1>10, <2>1 DEF Stored, m
  <2> QED BY <1>1, <1>7, <1>10, <2>1, <2>2, <2>3 DEF m
<1> QED BY <1>8, <1>9, <1>10

(* An event of the compositor's is added behind those the client will handle. *)
LEMMA ConfigureAdded ==
  ASSUME SurfaceInv, ConfigureInv, NEW m \in Events, m \notin Configures,
         m \notin Toplevels, events' = Append(events, m), UNCHANGED <<serial, wanted>>
  PROVE  ConfigureInv' /\ Handled' = Handled /\ Stored' = Stored
<1>1. /\ events \in Seq(Events) /\ serial \in Nat /\ Handled \in 0 .. serial
      /\ Configuring(events, Handled, serial) /\ Sizing(events, wanted)
  BY SurfaceAssumption DEF SurfaceInv, SurfaceType, ConfigureInv, Configuring
<1>2. Handled' = Handled
  <2>1. Count(events', Configures) = Count(events, Configures) + 0
    BY <1>1, CountAppend DEF One
  <2>2. Count(events, Configures) \in Nat
    BY <1>1, CountFinite
  <2> QED BY <2>1, <2>2 DEF Handled
<1>3. ConfigureInv'
  <2>1. Handled \in Nat
    BY <1>1
  <2> HIDE DEF Handled
  <2> QED BY <1>1, <1>2, <2>1, ConfiguringAppend DEF ConfigureInv
<1>4. Stored' = Stored
  <2>1. events' # <<>>
    BY <1>1
  <2>2. IF events = <<>> THEN Head(events') = m ELSE Head(events') = Head(events)
    BY <1>1
  <2> QED BY <1>2, <2>1, <2>2 DEF Stored
<1> QED BY <1>2, <1>3, <1>4

(* So is a configure; no size that was wanted before is changed. *)
LEMMA ConfigureSentLast ==
  ASSUME SurfaceInv, ConfigureInv, NEW w \in Nat, NEW h \in Nat, SendConfigure(w, h)
  PROVE  /\ ConfigureInv' /\ Handled' = Handled /\ Stored' = Stored
         /\ serial' = serial + 1
         /\ \A s \in 0 .. serial : wanted'[s] = wanted[s]
<1> DEFINE t == [type |-> "toplevel_configure", width |-> w, height |-> h]
           c == [type |-> "configure", serial |-> serial + 1]
<1>1. /\ events \in Seq(Events) /\ serial \in Nat /\ Handled \in 0 .. serial
      /\ serial < MaxSerial /\ MaxSerial \in Nat
      /\ wanted \in [0 .. MaxSerial -> Nat \X Nat]
      /\ Configuring(events, Handled, serial) /\ Sizing(events, wanted)
      /\ serial' = serial + 1
  <2>1. /\ events \in Seq(Events) /\ serial \in Nat /\ MaxSerial \in Nat
        /\ wanted \in [0 .. MaxSerial -> Nat \X Nat]
    BY SurfaceAssumption DEF SurfaceInv, SurfaceType
  <2>2. serial < MaxSerial /\ serial' = serial + 1
    BY DEF SendConfigure
  <2>3. /\ Handled \in 0 .. serial
        /\ Configuring(events, Handled, serial) /\ Sizing(events, wanted)
    BY DEF ConfigureInv, Configuring
  <2> QED BY <2>1, <2>2, <2>3
<1>2. /\ wanted' = [wanted EXCEPT
           ![serial + 1] = IF w = 0 \/ h = 0 THEN wanted[serial] ELSE <<w, h>>]
      /\ events' = events \o <<t, c>>
  BY DEF SendConfigure
<1>3. t \in Toplevels /\ c \in Configures /\ c.serial = serial + 1
  BY <1>1 DEF Toplevels, Configures
<1>4. InEffect(t, wanted[serial]) = IF w = 0 \/ h = 0 THEN wanted[serial] ELSE <<w, h>>
  BY DEF InEffect
<1> HIDE DEF t, c
<1>5. \A s \in 0 .. serial : wanted'[s] = wanted[s]
  BY <1>1, <1>2
<1>6. wanted'[serial + 1] = InEffect(t, wanted[serial])
  BY <1>1, <1>2, <1>4
<1>7. <<t, c>> \in Seq(Events) /\ t \notin Configures
  BY <1>3 DEF Events, Toplevels, Configures
<1>8. Handled' = Handled
  <2>1. Count(<<t, c>>, Configures) = 1
    BY <1>3, <1>7, CountTwo DEF One
  <2>2. Count(events', Configures) = Count(events, Configures) + 1
    <3>1. Count(events \o <<t, c>>, Configures) =
            Count(events, Configures) + Count(<<t, c>>, Configures)
      BY <1>1, <1>7, CountConcat
    <3> QED BY <1>2, <2>1, <3>1
  <2>3. Count(events, Configures) \in Nat
    BY <1>1, CountFinite
  <2> QED BY <1>1, <2>2, <2>3 DEF Handled
<1>9. ConfigureInv'
  <2>1. Handled \in Nat
    BY <1>1
  <2> HIDE DEF Handled
  <2>2. Configuring(events \o <<t, c>>, Handled, serial + 1)
          /\ Sizing(events \o <<t, c>>, wanted')
    <3>1. PICK v : v = wanted'
      OBVIOUS
    <3>2. PICK e : e = events
      OBVIOUS
    <3>3. PICK n : n = serial
      OBVIOUS
    <3>4. PICK k : k = Handled
      OBVIOUS
    <3>5. PICK u : u = wanted
      OBVIOUS
    <3>6. /\ e \in Seq(Events) /\ k \in Nat /\ n \in Nat
          /\ Configuring(e, k, n) /\ Sizing(e, u)
      BY <1>1, <2>1, <3>2, <3>3, <3>4, <3>5
    <3>7. c.serial = n + 1
      BY <1>3, <3>3
    <3>8. (\A s \in 0 .. n : v[s] = u[s]) /\ v[n + 1] = InEffect(t, u[n])
      BY <1>5, <1>6, <3>1, <3>3, <3>5
    <3>9. Configuring(e \o <<t, c>>, k, n + 1) /\ Sizing(e \o <<t, c>>, v)
      BY <1>3, <3>6, <3>7, <3>8, ConfiguringSent
    <3> QED BY <3>1, <3>2, <3>3, <3>4, <3>9
  <2> QED BY <1>1, <1>2, <1>8, <2>2 DEF ConfigureInv
<1>10. Stored' = Stored
  <2>1. events' # <<>>
    BY <1>1, <1>2, <1>7
  <2>2. IF events = <<>> THEN Head(events') = t ELSE Head(events') = Head(events)
    <3>1. events' \in Seq(Events) /\ Head(events') = events'[1]
      BY <1>1, <1>2, <1>7, <2>1
    <3>2. CASE events = <<>>
      BY <1>1, <1>2, <1>7, <3>1, <3>2
    <3>3. CASE events # <<>>
      BY <1>1, <1>2, <1>7, <3>1, <3>3
    <3> QED BY <3>2, <3>3
  <2> QED BY <1>7, <1>8, <2>1, <2>2 DEF Stored
<1> QED BY <1>1, <1>5, <1>8, <1>9, <1>10

(* The compositor's steps leave the client where it is. *)
LEMMA ConfigureKept ==
  ASSUME SurfaceInv, ConfigureInv,
         \/ CompositorReads
         \/ \E b \in held : Release(b)
         \/ \E z \in Sizes : SendConfigure(z[1], z[2])
         \/ SendDone
  PROVE  /\ ConfigureInv' /\ Handled' = Handled /\ Stored' = Stored
         /\ serial' \in Nat /\ serial <= serial'
         /\ \A s \in 0 .. serial : wanted'[s] = wanted[s]
<1>1. serial \in Nat
  BY SurfaceAssumption DEF SurfaceInv, SurfaceType
<1>2. CASE CompositorReads
  <2>1. UNCHANGED <<events, serial, wanted>>
    BY <1>2 DEF CompositorReads, ReceiveAck, ReceiveEmpty, ReceiveCommit,
                CompositorReceive
  <2> QED BY <1>1, <2>1 DEF ConfigureInv, Handled, Stored
<1>3. CASE \E b \in held : Release(b)
  <2>1. PICK b \in held : Release(b)
    BY <1>3
  <2> DEFINE e == [type |-> "release", buffer |-> b]
  <2>2. /\ events' = Append(events, e) /\ UNCHANGED <<serial, wanted>>
        /\ b \in Buffers
    BY <2>1 DEF Release, SurfaceInv, SurfaceType
  <2>3. e \in Events /\ e \notin Configures /\ e \notin Toplevels
    BY <2>2 DEF Releases, Events, Configures, Toplevels
  <2> HIDE DEF e
  <2>4. ConfigureInv' /\ Handled' = Handled /\ Stored' = Stored
    BY <2>2, <2>3, ConfigureAdded
  <2> QED BY <1>1, <2>2, <2>4
<1>4. CASE \E z \in Sizes : SendConfigure(z[1], z[2])
  <2>1. PICK z \in Sizes : SendConfigure(z[1], z[2])
    BY <1>4
  <2>2. z[1] \in Nat /\ z[2] \in Nat
    BY SurfaceAssumption
  <2>3. /\ ConfigureInv' /\ Handled' = Handled /\ Stored' = Stored
        /\ serial' = serial + 1
        /\ \A s \in 0 .. serial : wanted'[s] = wanted[s]
    BY <2>1, <2>2, ConfigureSentLast
  <2> QED BY <1>1, <2>3
<1>5. CASE SendDone
  <2> DEFINE e == [type |-> "done"]
  <2>1. events' = Append(events, e) /\ UNCHANGED <<serial, wanted>>
    BY <1>5 DEF SendDone
  <2>2. e \in Events /\ e \notin Configures /\ e \notin Toplevels
    BY DEF Dones, Events, Configures, Toplevels
  <2> HIDE DEF e
  <2>3. ConfigureInv' /\ Handled' = Handled /\ Stored' = Stored
    BY <2>1, <2>2, ConfigureAdded
  <2> QED BY <1>1, <2>1, <2>3
<1> QED BY <1>2, <1>3, <1>4, <1>5

(* No configure has been sent at the start. *)
LEMMA ConfigureStarts ==
  ASSUME events = <<>>, serial = 0
  PROVE  ConfigureInv /\ Handled = 0 /\ Stored = 0
<1>1. Handled = 0 /\ Stored = 0
  BY CountEmpty DEF Handled, Stored
<1>2. Configuring(<<>>, 0, 0) /\ Sizing(<<>>, wanted)
  BY DEF Configuring, Sizing
<1> QED BY <1>1, <1>2 DEF ConfigureInv

-------------------------------------------------------------------------------
(* s is the serial acknowledged last before the request at k is read, a being the
   one acknowledged now. *)
AckBefore(q, a, k, s) ==
  \/ s = a /\ \A j \in 1 .. k - 1 : q[j] \notin Acks
  \/ \E j \in 1 .. k - 1 : /\ q[j] \in Acks /\ q[j].serial = s
                           /\ \A i \in j + 1 .. k - 1 : q[i] \notin Acks

(* The serials still to be acknowledged are in order, above a and up to n. *)
Acknowledging(q, a, n) ==
  /\ a \in Nat /\ n \in Nat /\ a <= n
  /\ \A k \in DOMAIN q : q[k] \in Acks =>
       /\ q[k].serial \in a + 1 .. n
       /\ \A j \in 1 .. k - 1 : q[j] \in Acks => q[j].serial < q[k].serial

(* The serial acknowledged once a request is read. *)
AckedBy(m, a) == IF m \in Acks THEN m.serial ELSE a

(* Reading a request does not change what comes before the others. *)
LEMMA AckBeforeTail ==
  ASSUME NEW q \in Seq(Requests), q # <<>>, NEW a, NEW k \in 1 .. Len(q), NEW s
  PROVE  AckBefore(Tail(q), AckedBy(Head(q), a), k, s) <=> AckBefore(q, a, k + 1, s)
<1> DEFINE t == Tail(q)
           b == AckedBy(Head(q), a)
<1>1. /\ Len(q) \in Nat /\ k \in Nat /\ k >= 1
      /\ \A j \in 1 .. k - 1 : t[j] = q[j + 1]
      /\ Head(q) = q[1]
  OBVIOUS
<1>2. b = IF q[1] \in Acks THEN q[1].serial ELSE a
  BY <1>1 DEF AckedBy
<1> HIDE DEF t, b
<1>3. (\A j \in 1 .. k - 1 : t[j] \notin Acks) <=> (\A j \in 2 .. k : q[j] \notin Acks)
  <2>1. \A j \in 2 .. k : j - 1 \in 1 .. k - 1 /\ q[j] = t[j - 1]
    BY <1>1
  <2>2. \A j \in 1 .. k - 1 : j + 1 \in 2 .. k /\ t[j] = q[j + 1]
    BY <1>1
  <2> QED BY <2>1, <2>2
<1>4. ASSUME NEW j \in 1 .. k - 1
      PROVE  (\A i \in j + 1 .. k - 1 : t[i] \notin Acks)
               <=> (\A i \in j + 2 .. k : q[i] \notin Acks)
  <2>1. \A i \in j + 2 .. k : i - 1 \in j + 1 .. k - 1 /\ q[i] = t[i - 1]
    BY <1>1
  <2>2. \A i \in j + 1 .. k - 1 : i + 1 \in j + 2 .. k /\ t[i] = q[i + 1]
    BY <1>1
  <2> QED BY <2>1, <2>2
<1>5. AckBefore(q, a, k + 1, s) <=>
        \/ s = a /\ \A j \in 1 .. k : q[j] \notin Acks
        \/ \E j \in 1 .. k : /\ q[j] \in Acks /\ q[j].serial = s
                             /\ \A i \in j + 1 .. k : q[i] \notin Acks
  <2>1. (k + 1) - 1 = k
    BY <1>1
  <2> QED BY <2>1 DEF AckBefore
<1>6. AckBefore(q, a, k + 1, s) <=>
        \/ s = b /\ \A j \in 2 .. k : q[j] \notin Acks
        \/ \E j \in 2 .. k : /\ q[j] \in Acks /\ q[j].serial = s
                             /\ \A i \in j + 1 .. k : q[i] \notin Acks
  <2>1. 1 .. k = {1} \cup 2 .. k /\ 1 + 1 = 2
    BY <1>1
  <2> QED BY <1>2, <1>5, <2>1
<1>7. (\E j \in 2 .. k : /\ q[j] \in Acks /\ q[j].serial = s
                         /\ \A i \in j + 1 .. k : q[i] \notin Acks)
      <=> \E j \in 1 .. k - 1 : /\ t[j] \in Acks /\ t[j].serial = s
                                /\ \A i \in j + 1 .. k - 1 : t[i] \notin Acks
  <2>1. ASSUME NEW j \in 2 .. k
        PROVE  j - 1 \in 1 .. k - 1 /\ q[j] = t[j - 1] /\ (j - 1) + 2 = j + 1
    BY <1>1
  <2>2. ASSUME NEW j \in 1 .. k - 1
        PROVE  j + 1 \in 2 .. k /\ t[j] = q[j + 1] /\ (j + 1) + 1 = j + 2
    BY <1>1
  <2>3. ASSUME NEW j \in 2 .. k, q[j] \in Acks, q[j].serial = s,
               \A i \in j + 1 .. k : q[i] \notin Acks
        PROVE  \E l \in 1 .. k - 1 : /\ t[l] \in Acks /\ t[l].serial = s
                                      /\ \A i \in l + 1 .. k - 1 : t[i] \notin Acks
    <3>1. j - 1 \in 1 .. k - 1 /\ q[j] = t[j - 1] /\ (j - 1) + 2 = j + 1
      BY <2>1
    <3>2. \A i \in (j - 1) + 1 .. k - 1 : t[i] \notin Acks
      BY <1>4, <2>3, <3>1
    <3> QED BY <2>3, <3>1, <3>2
  <2>4. ASSUME NEW j \in 1 .. k - 1, t[j] \in Acks, t[j].serial = s,
               \A i \in j + 1 .. k - 1 : t[i] \notin Acks
        PROVE  \E l \in 2 .. k : /\ q[l] \in Acks /\ q[l].serial = s
                                  /\ \A i \in l + 1 .. k : q[i] \notin Acks
    <3>1. j + 1 \in 2 .. k /\ t[j] = q[j + 1] /\ (j + 1) + 1 = j + 2
      BY <2>2
    <3>2. \A i \in (j + 1) + 1 .. k : q[i] \notin Acks
      BY <1>4, <2>4, <3>1
    <3> QED BY <2>4, <3>1, <3>2
  <2> QED BY <2>3, <2>4
<1>8. AckBefore(t, b, k, s) <=>
        \/ s = b /\ \A j \in 1 .. k - 1 : t[j] \notin Acks
        \/ \E j \in 1 .. k - 1 : /\ t[j] \in Acks /\ t[j].serial = s
                                 /\ \A i \in j + 1 .. k - 1 : t[i] \notin Acks
  BY DEF AckBefore
<1> QED BY <1>3, <1>6, <1>7, <1>8 DEF t, b

(* The first request is read with a acknowledged. *)
LEMMA AckBeforeFirst ==
  ASSUME NEW q, NEW a, NEW s
  PROVE  AckBefore(q, a, 1, s) <=> s = a
BY DEF AckBefore

(* Requests behind k do not matter. *)
LEMMA AckBeforeConcat ==
  ASSUME NEW q \in Seq(Requests), NEW t \in Seq(Requests), NEW a,
         NEW k \in 1 .. Len(q) + 1, NEW s
  PROVE  AckBefore(q \o t, a, k, s) <=> AckBefore(q, a, k, s)
<1>1. \A j \in 1 .. k - 1 : (q \o t)[j] = q[j]
  OBVIOUS
<1> DEFINE c == q \o t
<1> HIDE DEF c
<1>2. k \in Nat
  OBVIOUS
<1>3. \A j \in 1 .. k - 1 : \A i \in j + 1 .. k - 1 : i \in 1 .. k - 1
  BY <1>2
<1> QED BY <1>1, <1>3 DEF AckBefore, c

(* Requests without an acknowledgement carry on the last one. *)
LEMMA AckBeforeOn ==
  ASSUME NEW q \in Seq(Requests), NEW t \in Seq(Requests), NEW a,
         \A j \in DOMAIN t : t[j] \notin Acks,
         NEW k \in Len(q) + 1 .. Len(q) + Len(t) + 1, NEW s,
         AckBefore(q \o t, a, k, s)
  PROVE  AckBefore(q, a, Len(q) + 1, s)
<1> DEFINE c == q \o t
           l == Len(q)
<1>1. /\ l \in Nat /\ Len(t) \in Nat /\ k \in Nat
      /\ \A j \in 1 .. l : c[j] = q[j]
      /\ \A j \in l + 1 .. l + Len(t) : c[j] = t[j - l] /\ j - l \in DOMAIN t
  OBVIOUS
<1> HIDE DEF c
<1>2. \A j \in l + 1 .. k - 1 : c[j] \notin Acks
  BY <1>1
<1>3. 1 .. l \subseteq 1 .. k - 1 /\ (l + 1) - 1 = l
  BY <1>1
<1>4. CASE s = a /\ \A j \in 1 .. k - 1 : c[j] \notin Acks
  BY <1>1, <1>3, <1>4 DEF AckBefore
<1>5. CASE \E j \in 1 .. k - 1 : /\ c[j] \in Acks /\ c[j].serial = s
                                 /\ \A i \in j + 1 .. k - 1 : c[i] \notin Acks
  <2>1. PICK j \in 1 .. k - 1 : /\ c[j] \in Acks /\ c[j].serial = s
                                /\ \A i \in j + 1 .. k - 1 : c[i] \notin Acks
    BY <1>5
  <2>2. j \in 1 .. l
    BY <1>1, <1>2, <2>1
  <2>3. \A i \in j + 1 .. l : i \in j + 1 .. k - 1 /\ c[i] = q[i]
    BY <1>1, <2>2
  <2>4. \A i \in j + 1 .. l : q[i] \notin Acks
    BY <2>1, <2>3
  <2>5. q[j] \in Acks /\ q[j].serial = s
    BY <1>1, <2>1, <2>2
  <2> HIDE DEF l
  <2> QED BY <1>3, <2>2, <2>4, <2>5 DEF AckBefore, l
<1> QED BY <1>4, <1>5 DEF AckBefore, c

(* What follows an acknowledgement answers it. *)
LEMMA AckBeforeAnswer ==
  ASSUME NEW q \in Seq(Requests), NEW m \in Acks, NEW t \in Seq(Requests), NEW a,
         \A j \in DOMAIN t : t[j] \notin Acks,
         NEW k \in Len(q) + 2 .. Len(q) + Len(t) + 2, NEW s
  PROVE  AckBefore(q \o (<<m>> \o t), a, k, s) <=> s = m.serial
<1> DEFINE c == q \o (<<m>> \o t)
           l == Len(q)
<1>1. /\ l \in Nat /\ Len(t) \in Nat /\ k \in Nat
      /\ c[l + 1] = m
      /\ \A j \in l + 2 .. l + Len(t) + 1 : c[j] = t[j - l - 1] /\ j - l - 1 \in DOMAIN t
  <2>1. <<m>> \in Seq(Requests) /\ m \in Requests
    BY DEF Requests
  <2> QED BY <2>1
<1> HIDE DEF c, l
<1>2. k \in l + 2 .. l + Len(t) + 2
  BY DEF l
<1>3. \A j \in l + 2 .. k - 1 : c[j] \notin Acks
  BY <1>1, <1>2
<1>4. l + 1 \in 1 .. k - 1 /\ c[l + 1] \in Acks /\ (l + 1) + 1 = l + 2
  BY <1>1, <1>2
<1>5. ASSUME s = m.serial PROVE AckBefore(c, a, k, s)
  BY <1>1, <1>3, <1>4, <1>5 DEF AckBefore
<1>6. ASSUME AckBefore(c, a, k, s) PROVE s = m.serial
  <2>1. PICK j \in 1 .. k - 1 : /\ c[j] \in Acks /\ c[j].serial = s
                                /\ \A i \in j + 1 .. k - 1 : c[i] \notin Acks
    BY <1>4, <1>6 DEF AckBefore
  <2>2. j \notin l + 2 .. k - 1
    BY <1>3, <2>1
  <2>3. ~(j < l + 1)
    <3>1. j < l + 1 => l + 1 \in j + 1 .. k - 1
      BY <1>1, <1>4
    <3> QED BY <1>4, <2>1, <3>1
  <2>4. j = l + 1
    BY <1>1, <1>2, <2>2, <2>3
  <2> QED BY <1>1, <2>1, <2>4
<1> QED BY <1>5, <1>6 DEF c

(* Reading a request acknowledges no older serial. *)
LEMMA AcknowledgingTail ==
  ASSUME NEW q \in Seq(Requests), q # <<>>, NEW a, NEW n, Acknowledging(q, a, n)
  PROVE  /\ Acknowledging(Tail(q), AckedBy(Head(q), a), n)
         /\ AckedBy(Head(q), a) \in Nat /\ a <= AckedBy(Head(q), a)
<1> DEFINE t == Tail(q)
           b == AckedBy(Head(q), a)
<1>1. /\ 1 \in DOMAIN q /\ Head(q) = q[1]
      /\ \A k \in DOMAIN t : k \in Nat /\ k >= 1 /\ k + 1 \in DOMAIN q /\ t[k] = q[k + 1]
      /\ \A k \in DOMAIN t : \A j \in 1 .. k - 1 :
           j \in DOMAIN t /\ j + 1 \in 1 .. (k + 1) - 1
  OBVIOUS
<1>2. b = IF q[1] \in Acks THEN q[1].serial ELSE a
  BY <1>1 DEF AckedBy
<1> HIDE DEF t, b
<1>3. /\ a \in Nat /\ n \in Nat /\ a <= n
      /\ \A k \in DOMAIN q : q[k] \in Acks => q[k].serial \in a + 1 .. n
      /\ \A k \in DOMAIN q : q[k] \in Acks =>
           \A j \in 1 .. k - 1 : q[j] \in Acks => q[j].serial < q[k].serial
  BY DEF Acknowledging
<1>4. b \in Nat /\ a <= b /\ b <= n
  BY <1>1, <1>2, <1>3
<1>5. ASSUME NEW k \in DOMAIN t, t[k] \in Acks
      PROVE  /\ t[k].serial \in b + 1 .. n
             /\ \A j \in 1 .. k - 1 : t[j] \in Acks => t[j].serial < t[k].serial
  <2>1. /\ k + 1 \in DOMAIN q /\ t[k] = q[k + 1] /\ 1 \in 1 .. (k + 1) - 1
        /\ q[k + 1].serial \in a + 1 .. n
    BY <1>1, <1>3, <1>5
  <2>2. q[1] \in Acks => q[1].serial < q[k + 1].serial /\ q[1].serial \in Nat
    BY <1>1, <1>3, <1>5, <2>1 DEF Acks
  <2>3. t[k].serial \in b + 1 .. n
    BY <1>2, <1>3, <2>1, <2>2
  <2>4. ASSUME NEW j \in 1 .. k - 1, t[j] \in Acks
        PROVE  t[j].serial < t[k].serial
    <3>1. j \in DOMAIN t /\ j + 1 \in 1 .. (k + 1) - 1 /\ t[j] = q[j + 1]
      BY <1>1
    <3> QED BY <1>3, <1>5, <2>1, <2>4, <3>1
  <2> QED BY <2>3, <2>4
<1> QED BY <1>3, <1>4, <1>5 DEF Acknowledging, t, b

(* Other requests change nothing, and the bound may be raised. *)
LEMMA AcknowledgingOn ==
  ASSUME NEW q \in Seq(Requests), NEW t \in Seq(Requests), NEW a, NEW n,
         Acknowledging(q, a, n), \A j \in DOMAIN t : t[j] \notin Acks,
         NEW p \in Nat, n <= p
  PROVE  Acknowledging(q \o t, a, p)
<1> DEFINE c == q \o t
<1>1. \A k \in DOMAIN c : k \in DOMAIN q \/ (k - Len(q) \in DOMAIN t /\ c[k] = t[k - Len(q)])
  OBVIOUS
<1>2. \A k \in DOMAIN q : c[k] = q[k] /\ \A j \in 1 .. k - 1 : j \in DOMAIN q
  OBVIOUS
<1> HIDE DEF c
<1>3. \A k \in DOMAIN c : c[k] \in Acks => k \in DOMAIN q /\ c[k] = q[k]
  BY <1>1, <1>2
<1>4. a \in Nat /\ n \in Nat /\ a <= p
  BY DEF Acknowledging
<1>5. ASSUME NEW k \in DOMAIN c, c[k] \in Acks
      PROVE  /\ c[k].serial \in a + 1 .. p
             /\ \A j \in 1 .. k - 1 : c[j] \in Acks => c[j].serial < c[k].serial
  <2>1. k \in DOMAIN q /\ c[k] = q[k] /\ \A j \in 1 .. k - 1 : c[j] = q[j]
    BY <1>2, <1>3, <1>5
  <2>2. q[k].serial \in a + 1 .. n
    BY <1>5, <2>1 DEF Acknowledging
  <2>3. q[k].serial \in a + 1 .. p
    BY <1>4, <2>2
  <2> QED BY <1>5, <2>1, <2>3 DEF Acknowledging
<1> QED BY <1>4, <1>5 DEF Acknowledging, c

(* A newer serial goes behind the others. *)
LEMMA AcknowledgingAnswer ==
  ASSUME NEW q \in Seq(Requests), NEW m \in Acks, NEW t \in Seq(Requests), NEW a, NEW n,
         Acknowledging(q, a, n), \A j \in DOMAIN t : t[j] \notin Acks,
         NEW p \in Nat, m.serial \in n + 1 .. p
  PROVE  Acknowledging(q \o (<<m>> \o t), a, p)
<1> DEFINE c == q \o (<<m>> \o t)
           l == Len(q)
<1>1. /\ l \in Nat /\ DOMAIN q = 1 .. l /\ DOMAIN c = 1 .. l + Len(t) + 1
      /\ Len(t) \in Nat
      /\ \A k \in 1 .. l : c[k] = q[k]
      /\ c[l + 1] = m
      /\ \A j \in l + 2 .. l + Len(t) + 1 : c[j] = t[j - l - 1] /\ j - l - 1 \in DOMAIN t
  <2>1. <<m>> \in Seq(Requests) /\ m \in Requests
    BY DEF Requests
  <2> QED BY <2>1
<1> HIDE DEF c, l
<1>2. \A k \in DOMAIN c : c[k] \in Acks =>
        (k = l + 1 /\ c[k] = m) \/ (k \in DOMAIN q /\ c[k] = q[k])
  BY <1>1
<1>3. a \in Nat /\ n \in Nat /\ a <= n /\ a <= p /\ m.serial \in a + 1 .. p
  BY DEF Acknowledging, Acks
<1>4. ASSUME NEW k \in DOMAIN c, c[k] \in Acks
      PROVE  /\ c[k].serial \in a + 1 .. p
             /\ \A j \in 1 .. k - 1 : c[j] \in Acks => c[j].serial < c[k].serial
  <2>1. CASE k = l + 1 /\ c[k] = m
    <3>1. ASSUME NEW j \in 1 .. k - 1, c[j] \in Acks PROVE c[j].serial < m.serial
      <4>1. j \in DOMAIN q /\ c[j] = q[j]
        BY <1>1, <2>1
      <4>2. q[j].serial \in a + 1 .. n
        BY <3>1, <4>1 DEF Acknowledging
      <4> QED BY <1>3, <4>1, <4>2
    <3> QED BY <1>3, <2>1, <3>1
  <2>2. CASE k \in DOMAIN q /\ c[k] = q[k]
    <3>1. \A j \in 1 .. k - 1 : c[j] = q[j]
      BY <1>1, <2>2
    <3>2. q[k].serial \in a + 1 .. n
      BY <1>4, <2>2 DEF Acknowledging
    <3>3. q[k].serial \in a + 1 .. p
      BY <1>3, <3>2
    <3> QED BY <1>4, <2>2, <3>1, <3>3 DEF Acknowledging
  <2> QED BY <1>2, <1>4, <2>1, <2>2
<1> QED BY <1>3, <1>4 DEF Acknowledging, c

(* So a serial acknowledged is no older than a and no newer than n. *)
LEMMA AckBeforeRange ==
  ASSUME NEW q \in Seq(Requests), NEW a, NEW n, Acknowledging(q, a, n),
         NEW k \in 1 .. Len(q) + 1, NEW s, AckBefore(q, a, k, s)
  PROVE  s \in a .. n
<1>1. a \in Nat /\ n \in Nat /\ a <= n
  BY DEF Acknowledging
<1>2. CASE \E j \in 1 .. k - 1 : q[j] \in Acks /\ q[j].serial = s
  <2>1. PICK j \in 1 .. k - 1 : q[j] \in Acks /\ q[j].serial = s
    BY <1>2
  <2>2. j \in DOMAIN q
    OBVIOUS
  <2>3. s \in a + 1 .. n
    BY <2>1, <2>2 DEF Acknowledging
  <2> QED BY <1>1, <2>3
<1> QED BY <1>1, <1>2 DEF AckBefore

-------------------------------------------------------------------------------
(* n is the serial acknowledged once every request is read. *)
LastAck(q, a, n) == \A s : AckBefore(q, a, Len(q) + 1, s) => s = n

(* A commit answering n is on screen or on its way. *)
Answered(q, a, sh, n) ==
  \/ sh.serial = n
  \/ \E k \in DOMAIN q : q[k] \in Commits /\ AckBefore(q, a, k, n)

(* The bytes of each frame, on screen or on its way, are what G allows for the
   serial it answers. *)
Fitting(q, a, sh, G) ==
  /\ \A k \in DOMAIN q : (q[k] \in Commits /\ q[k].buffer # NULL) =>
       \A s : AckBefore(q, a, k, s) => <<Bytes(q[k].width, q[k].height), s>> \in G
  /\ sh.buffer # NULL => <<Bytes(sh.width, sh.height), sh.serial>> \in G

(* What is on screen once m is read. *)
ShownBy(m, a, sh) ==
  IF m \in Commits THEN [buffer |-> m.buffer, width |-> m.width,
                         height |-> m.height, serial |-> a]
  ELSE sh

(* Reading a request changes none of this. *)
LEMMA AnswersTail ==
  ASSUME NEW q \in Seq(Requests), q # <<>>, NEW a, NEW sh, NEW n, NEW G
  PROVE  /\ LastAck(q, a, n) => LastAck(Tail(q), AckedBy(Head(q), a), n)
         /\ Fitting(q, a, sh, G) =>
              Fitting(Tail(q), AckedBy(Head(q), a), ShownBy(Head(q), a, sh), G)
<1> DEFINE t == Tail(q)
           b == AckedBy(Head(q), a)
           c == ShownBy(Head(q), a, sh)
<1>1. /\ 1 \in DOMAIN q /\ Head(q) = q[1] /\ Len(t) + 1 = Len(q)
      /\ Len(q) \in 1 .. Len(q) /\ Len(t) \in Nat
      /\ \A k \in DOMAIN t : /\ k \in 1 .. Len(q) /\ k + 1 \in DOMAIN q
                             /\ t[k] = q[k + 1]
  OBVIOUS
<1>2. ASSUME NEW k \in 1 .. Len(q), NEW s
      PROVE  AckBefore(t, b, k, s) <=> AckBefore(q, a, k + 1, s)
  BY AckBeforeTail
<1> HIDE DEF t, b, c
<1>3. ASSUME LastAck(q, a, n) PROVE LastAck(t, b, n)
  BY <1>1, <1>2, <1>3 DEF LastAck
<1>4. ASSUME Fitting(q, a, sh, G) PROVE Fitting(t, b, c, G)
  <2>1. ASSUME NEW k \in DOMAIN t, t[k] \in Commits, t[k].buffer # NULL,
               NEW s, AckBefore(t, b, k, s)
        PROVE  <<Bytes(t[k].width, t[k].height), s>> \in G
    <3>1. k + 1 \in DOMAIN q /\ t[k] = q[k + 1] /\ AckBefore(q, a, k + 1, s)
      BY <1>1, <1>2, <2>1
    <3> QED BY <1>4, <2>1, <3>1 DEF Fitting
  <2>2. ASSUME c.buffer # NULL
        PROVE  <<Bytes(c.width, c.height), c.serial>> \in G
    <3>1. CASE Head(q) \in Commits
      <4>1. /\ c.buffer = q[1].buffer /\ c.width = q[1].width
            /\ c.height = q[1].height /\ c.serial = a
        BY <1>1, <3>1 DEF c, ShownBy
      <4>2. AckBefore(q, a, 1, a)
        BY AckBeforeFirst
      <4> QED BY <1>1, <1>4, <2>2, <3>1, <4>1, <4>2 DEF Fitting
    <3>2. CASE Head(q) \notin Commits
      <4>1. c = sh
        BY <3>2 DEF c, ShownBy
      <4> QED BY <1>4, <2>2, <4>1 DEF Fitting
    <3> QED BY <3>1, <3>2
  <2> QED BY <2>1, <2>2 DEF Fitting
<1> QED BY <1>3, <1>4 DEF t, b, c

(* An answer stays the last one: no serial above n has been acknowledged. *)
LEMMA AnsweredTail ==
  ASSUME NEW q \in Seq(Requests), q # <<>>, NEW a \in Nat, NEW sh, NEW n \in Nat,
         sh.serial \in Nat, sh.serial <= a, a <= n, Answered(q, a, sh, n)
  PROVE  Answered(Tail(q), AckedBy(Head(q), a), ShownBy(Head(q), a, sh), n)
<1> DEFINE t == Tail(q)
           b == AckedBy(Head(q), a)
           c == ShownBy(Head(q), a, sh)
<1>1. /\ Head(q) = q[1] /\ DOMAIN q = 1 .. Len(q) /\ Len(q) \in Nat
      /\ DOMAIN t = 1 .. Len(q) - 1
      /\ \A k \in DOMAIN t : t[k] = q[k + 1]
  OBVIOUS
<1>2. ASSUME NEW k \in 1 .. Len(q), NEW s
      PROVE  AckBefore(t, b, k, s) <=> AckBefore(q, a, k + 1, s)
  BY AckBeforeTail
<1> HIDE DEF t, b, c
<1>3. c.serial = IF Head(q) \in Commits THEN a ELSE sh.serial
  BY DEF c, ShownBy
<1>4. CASE sh.serial = n
  <2>1. c.serial = n
    BY <1>3, <1>4
  <2> QED BY <2>1 DEF Answered, t, b, c
<1>5. CASE \E k \in DOMAIN q : q[k] \in Commits /\ AckBefore(q, a, k, n)
  <2>1. PICK k \in DOMAIN q : q[k] \in Commits /\ AckBefore(q, a, k, n)
    BY <1>5
  <2>2. CASE k = 1
    <3>1. n = a
      BY <2>1, <2>2, AckBeforeFirst
    <3>2. c.serial = n
      BY <1>1, <1>3, <2>1, <2>2, <3>1
    <3> QED BY <3>2 DEF Answered, t, b, c
  <2>3. CASE k # 1
    <3>1. k - 1 \in DOMAIN t /\ k - 1 \in 1 .. Len(q) /\ (k - 1) + 1 = k
      BY <1>1, <2>1, <2>3
    <3>2. t[k - 1] = q[k]
      BY <1>1, <3>1
    <3>3. AckBefore(t, b, k - 1, n)
      BY <1>2, <2>1, <3>1
    <3> QED BY <2>1, <3>1, <3>2, <3>3 DEF Answered, t, b, c
  <2> QED BY <2>2, <2>3
<1> QED BY <1>4, <1>5 DEF Answered

(* Requests without an acknowledgement answer the last one. *)
LEMMA AnswersOn ==
  ASSUME NEW q \in Seq(Requests), NEW t \in Seq(Requests), NEW a, NEW sh, NEW n, NEW G,
         \A j \in DOMAIN t : t[j] \notin Acks,
         LastAck(q, a, n)
  PROVE  /\ LastAck(q \o t, a, n)
         /\ Answered(q, a, sh, n) => Answered(q \o t, a, sh, n)
         /\ (/\ Fitting(q, a, sh, G)
             /\ \A j \in DOMAIN t : (t[j] \in Commits /\ t[j].buffer # NULL) =>
                  <<Bytes(t[j].width, t[j].height), n>> \in G)
            => Fitting(q \o t, a, sh, G)
<1> DEFINE c == q \o t
           l == Len(q)
<1>1. /\ l \in Nat /\ Len(t) \in Nat /\ Len(c) = l + Len(t)
      /\ DOMAIN c = 1 .. l + Len(t) /\ DOMAIN q = 1 .. l
      /\ \A k \in DOMAIN q : c[k] = q[k] /\ k \in 1 .. Len(q) + 1
      /\ \A k \in l + 1 .. l + Len(t) : c[k] = t[k - l] /\ k - l \in DOMAIN t
  OBVIOUS
<1>2. ASSUME NEW k \in 1 .. Len(q) + 1, NEW s
      PROVE  AckBefore(c, a, k, s) <=> AckBefore(q, a, k, s)
  BY AckBeforeConcat
<1>3. ASSUME NEW k \in l + 1 .. l + Len(t) + 1, NEW s, AckBefore(c, a, k, s)
      PROVE  s = n
  <2>1. AckBefore(q, a, Len(q) + 1, s)
    BY <1>3, AckBeforeOn
  <2> QED BY <2>1 DEF LastAck
<1> HIDE DEF c, l
<1>4. LastAck(c, a, n)
  <2>1. Len(c) + 1 \in l + 1 .. l + Len(t) + 1
    BY <1>1
  <2> QED BY <1>3, <2>1 DEF LastAck
<1>5. ASSUME Answered(q, a, sh, n) PROVE Answered(c, a, sh, n)
  <2>1. CASE sh.serial = n
    BY <2>1 DEF Answered
  <2>2. CASE \E k \in DOMAIN q : q[k] \in Commits /\ AckBefore(q, a, k, n)
    <3>1. PICK k \in DOMAIN q : q[k] \in Commits /\ AckBefore(q, a, k, n)
      BY <2>2
    <3>2. k \in DOMAIN c /\ c[k] \in Commits /\ AckBefore(c, a, k, n)
      BY <1>1, <1>2, <3>1
    <3> QED BY <3>2 DEF Answered
  <2> QED BY <1>5, <2>1, <2>2 DEF Answered
<1>6. ASSUME Fitting(q, a, sh, G),
             \A j \in DOMAIN t : (t[j] \in Commits /\ t[j].buffer # NULL) =>
               <<Bytes(t[j].width, t[j].height), n>> \in G
      PROVE  Fitting(c, a, sh, G)
  <2>1. ASSUME NEW k \in DOMAIN c, c[k] \in Commits, c[k].buffer # NULL,
               NEW s, AckBefore(c, a, k, s)
        PROVE  <<Bytes(c[k].width, c[k].height), s>> \in G
    <3>1. CASE k \in DOMAIN q
      <4>1. c[k] = q[k] /\ AckBefore(q, a, k, s)
        BY <1>1, <1>2, <2>1, <3>1
      <4> QED BY <1>6, <2>1, <3>1, <4>1 DEF Fitting
    <3>2. CASE k \notin DOMAIN q
      <4>1. k \in l + 1 .. l + Len(t) /\ k \in l + 1 .. l + Len(t) + 1
        BY <1>1, <3>2
      <4>2. c[k] = t[k - l] /\ k - l \in DOMAIN t /\ s = n
        BY <1>1, <1>3, <2>1, <4>1
      <4> QED BY <1>6, <2>1, <4>2
    <3> QED BY <3>1, <3>2
  <2>2. sh.buffer # NULL => <<Bytes(sh.width, sh.height), sh.serial>> \in G
    BY <1>6 DEF Fitting
  <2> QED BY <2>1, <2>2 DEF Fitting
<1> QED BY <1>4, <1>5, <1>6 DEF c

(* What is sent behind an acknowledgement answers it. *)
LEMMA AnswersAnswer ==
  ASSUME NEW q \in Seq(Requests), NEW m \in Acks, NEW t \in Seq(Requests),
         NEW a, NEW sh, NEW G,
         \A j \in DOMAIN t : t[j] \notin Acks
  PROVE  /\ LastAck(q \o (<<m>> \o t), a, m.serial)
         /\ (\E j \in DOMAIN t : t[j] \in Commits) =>
              Answered(q \o (<<m>> \o t), a, sh, m.serial)
         /\ (/\ Fitting(q, a, sh, G)
             /\ \A j \in DOMAIN t : (t[j] \in Commits /\ t[j].buffer # NULL) =>
                  <<Bytes(t[j].width, t[j].height), m.serial>> \in G)
            => Fitting(q \o (<<m>> \o t), a, sh, G)
<1> DEFINE u == <<m>> \o t
           c == q \o u
           l == Len(q)
<1>1. /\ l \in Nat /\ Len(t) \in Nat /\ Len(c) = l + Len(t) + 1
      /\ DOMAIN c = 1 .. l + Len(t) + 1 /\ DOMAIN q = 1 .. l
      /\ DOMAIN t = 1 .. Len(t)
      /\ \A k \in DOMAIN q : c[k] = q[k] /\ k \in 1 .. Len(q) + 1
      /\ c[l + 1] = m
      /\ \A k \in l + 2 .. l + Len(t) + 1 : c[k] = t[k - l - 1] /\ k - l - 1 \in DOMAIN t
      /\ u \in Seq(Requests)
  <2>1. <<m>> \in Seq(Requests) /\ m \in Requests
    BY DEF Requests
  <2> QED BY <2>1
<1>2. ASSUME NEW k \in 1 .. Len(q) + 1, NEW s
      PROVE  AckBefore(c, a, k, s) <=> AckBefore(q, a, k, s)
  BY <1>1, AckBeforeConcat
<1>3. ASSUME NEW k \in l + 2 .. l + Len(t) + 2, NEW s
      PROVE  AckBefore(c, a, k, s) <=> s = m.serial
  BY AckBeforeAnswer
<1> HIDE DEF c, l, u
<1>4. LastAck(c, a, m.serial)
  <2>1. Len(c) + 1 \in l + 2 .. l + Len(t) + 2
    BY <1>1
  <2> QED BY <1>3, <2>1 DEF LastAck
<1>5. ASSUME NEW j \in DOMAIN t, t[j] \in Commits
      PROVE  Answered(c, a, sh, m.serial)
  <2> DEFINE k == l + 1 + j
  <2>1. /\ k \in DOMAIN c /\ k \in l + 2 .. l + Len(t) + 1
        /\ k \in l + 2 .. l + Len(t) + 2 /\ k - l - 1 = j
    BY <1>1
  <2> HIDE DEF k
  <2>2. c[k] = t[j]
    BY <1>1, <2>1
  <2>3. AckBefore(c, a, k, m.serial)
    BY <1>3, <2>1
  <2> QED BY <1>5, <2>1, <2>2, <2>3 DEF Answered
<1>6. ASSUME Fitting(q, a, sh, G),
             \A j \in DOMAIN t : (t[j] \in Commits /\ t[j].buffer # NULL) =>
               <<Bytes(t[j].width, t[j].height), m.serial>> \in G
      PROVE  Fitting(c, a, sh, G)
  <2>1. ASSUME NEW k \in DOMAIN c, c[k] \in Commits, c[k].buffer # NULL,
               NEW s, AckBefore(c, a, k, s)
        PROVE  <<Bytes(c[k].width, c[k].height), s>> \in G
    <3>1. CASE k \in DOMAIN q
      <4>1. c[k] = q[k] /\ AckBefore(q, a, k, s)
        BY <1>1, <1>2, <2>1, <3>1
      <4> QED BY <1>6, <2>1, <3>1, <4>1 DEF Fitting
    <3>2. CASE k = l + 1
      BY <1>1, <2>1, <3>2 DEF Acks, Commits
    <3>3. CASE k \notin DOMAIN q /\ k # l + 1
      <4>1. k \in l + 2 .. l + Len(t) + 1 /\ k \in l + 2 .. l + Len(t) + 2
        BY <1>1, <3>3
      <4>2. c[k] = t[k - l - 1] /\ k - l - 1 \in DOMAIN t /\ s = m.serial
        BY <1>1, <1>3, <2>1, <4>1
      <4> QED BY <1>6, <2>1, <4>2
    <3> QED BY <3>1, <3>2, <3>3
  <2>2. sh.buffer # NULL => <<Bytes(sh.width, sh.height), sh.serial>> \in G
    BY <1>6 DEF Fitting
  <2> QED BY <2>1, <2>2 DEF Fitting
<1> QED BY <1>4, <1>5, <1>6 DEF c, u

(* G may allow more. *)
LEMMA FittingMore ==
  ASSUME NEW q, NEW a, NEW sh, NEW G, NEW H, Fitting(q, a, sh, G), G \subseteq H
  PROVE  Fitting(q, a, sh, H)
BY DEF Fitting

-------------------------------------------------------------------------------
(* The answers are in order, and none is to a configure not handled yet. *)
AnswerOrder ==
  /\ Acknowledging(requests, acked, Handled)
  /\ LastAck(requests, acked, Handled)
  /\ shown.serial <= acked

(* What the compositor reads. *)
LEMMA ShownRead ==
  ASSUME SurfaceInv, CompositorReads
  PROVE  /\ requests \in Seq(Requests) /\ requests # <<>>
         /\ requests' = Tail(requests)
         /\ acked' = AckedBy(Head(requests), acked)
         /\ shown' = ShownBy(Head(requests), acked, shown)
         /\ UNCHANGED <<slots, surface, events, serial, wanted>>
<1>1. /\ requests # <<>> /\ requests' = Tail(requests)
      /\ UNCHANGED <<slots, surface, events, serial, wanted>>
  BY DEF CompositorReads, ReceiveAck, ReceiveEmpty, ReceiveCommit,
         CompositorReceive, clientVars
<1>2. requests \in Seq(Requests) /\ Head(requests) \in Requests
  BY <1>1, CountTail DEF SurfaceInv, SurfaceType
<1>3. /\ Head(requests).type = "ack" <=> Head(requests) \in Acks
      /\ Head(requests).type = "commit" <=> Head(requests) \in Commits
      /\ Head(requests).type = "empty" <=> Head(requests) \in Empties
  BY <1>2, RequestTypes
<1>4. CASE ReceiveAck
  <2>1. /\ Head(requests) \in Acks /\ Head(requests) \notin Commits
        /\ acked' = Head(requests).serial /\ shown' = shown
    BY <1>3, <1>4 DEF ReceiveAck, CompositorReceive
  <2> QED BY <1>1, <1>2, <2>1 DEF AckedBy, ShownBy
<1>5. CASE ReceiveEmpty
  <2>1. /\ Head(requests) \notin Acks /\ Head(requests) \notin Commits
        /\ acked' = acked /\ shown' = shown
    BY <1>3, <1>5 DEF ReceiveEmpty, CompositorReceive
  <2> QED BY <1>1, <1>2, <2>1 DEF AckedBy, ShownBy
<1>6. CASE ReceiveCommit
  <2>1. /\ Head(requests) \notin Acks /\ Head(requests) \in Commits
        /\ acked' = acked
        /\ shown' = [buffer |-> Head(requests).buffer, width |-> Head(requests).width,
                     height |-> Head(requests).height, serial |-> acked]
    BY <1>3, <1>6 DEF ReceiveCommit, CompositorReceive
  <2> QED BY <1>1, <1>2, <2>1 DEF AckedBy, ShownBy
<1> QED BY <1>4, <1>5, <1>6 DEF CompositorReads

(* The answers stay in order while they are read. *)
LEMMA OrderRead ==
  ASSUME SurfaceInv, AnswerOrder, CompositorReads
  PROVE  /\ AnswerOrder'
         /\ \A n \in Nat : (n = Handled /\ Answered(requests, acked, shown, n)) =>
              Answered(requests', acked', shown', n)
<1>1. /\ requests \in Seq(Requests) /\ requests # <<>>
      /\ requests' = Tail(requests)
      /\ acked' = AckedBy(Head(requests), acked)
      /\ shown' = ShownBy(Head(requests), acked, shown)
      /\ UNCHANGED <<slots, surface, events, serial, wanted>>
  BY ShownRead
<1>2. Handled' = Handled
  BY <1>1 DEF Handled
<1>3. acked \in Nat /\ shown.serial \in Nat /\ shown.serial <= acked /\ acked <= Handled
  BY DEF SurfaceInv, SurfaceType, Contents, AnswerOrder, Acknowledging
<1> DEFINE b == AckedBy(Head(requests), acked)
           c == ShownBy(Head(requests), acked, shown)
<1>4. /\ Acknowledging(Tail(requests), b, Handled)
      /\ b \in Nat /\ acked <= b
  BY <1>1, AcknowledgingTail DEF AnswerOrder
<1>5. LastAck(Tail(requests), b, Handled)
  BY <1>1, AnswersTail DEF AnswerOrder
<1>6. c.serial <= b
  <2>1. c.serial = IF Head(requests) \in Commits THEN acked ELSE shown.serial
    BY DEF ShownBy
  <2> HIDE DEF b, c
  <2> QED BY <1>3, <1>4, <2>1
<1>7. AnswerOrder'
  <2> HIDE DEF b, c
  <2>1. requests' = Tail(requests) /\ acked' = b /\ shown' = c
    BY <1>1 DEF b, c
  <2> QED BY <1>2, <1>4, <1>5, <1>6, <2>1 DEF AnswerOrder
<1>8. ASSUME NEW n \in Nat, n = Handled, Answered(requests, acked, shown, n)
      PROVE  Answered(requests', acked', shown', n)
  <2>1. acked <= n
    BY <1>3, <1>8
  <2>2. Answered(Tail(requests), b, c, n)
    BY <1>1, <1>3, <1>8, <2>1, AnsweredTail
  <2> QED BY <1>1, <2>2
<1> QED BY <1>7, <1>8

(* What is sent between two answers belongs to the last one. *)
LEMMA OrderOn ==
  ASSUME SurfaceInv, AnswerOrder, NEW t \in Seq(Requests),
         \A j \in DOMAIN t : t[j] \notin Acks,
         Send(t), UNCHANGED <<acked, shown>>, Handled' = Handled, NEW G
  PROVE  /\ AnswerOrder'
         /\ Answered(requests, acked, shown, Handled) =>
              Answered(requests', acked', shown', Handled')
         /\ (/\ Fitting(requests, acked, shown, G)
             /\ \A j \in DOMAIN t : (t[j] \in Commits /\ t[j].buffer # NULL) =>
                  <<Bytes(t[j].width, t[j].height), Handled>> \in G)
            => Fitting(requests', acked', shown', G)
<1>1. PICK n : n = Handled
  OBVIOUS
<1>2. /\ requests \in Seq(Requests) /\ requests' = requests \o t
      /\ acked' = acked /\ shown' = shown /\ Handled' = n
  BY <1>1 DEF SurfaceInv, SurfaceType, Send
<1>3. Acknowledging(requests, acked, n) /\ LastAck(requests, acked, n) /\ n \in Nat
  BY <1>1 DEF AnswerOrder, Acknowledging
<1>4. Acknowledging(requests \o t, acked, n)
  BY <1>2, <1>3, AcknowledgingOn
<1>5. /\ LastAck(requests \o t, acked, n)
      /\ Answered(requests, acked, shown, n) => Answered(requests \o t, acked, shown, n)
      /\ (/\ Fitting(requests, acked, shown, G)
          /\ \A j \in DOMAIN t : (t[j] \in Commits /\ t[j].buffer # NULL) =>
               <<Bytes(t[j].width, t[j].height), n>> \in G)
         => Fitting(requests \o t, acked, shown, G)
  BY <1>2, <1>3, AnswersOn
<1>6. AnswerOrder'
  BY <1>2, <1>4, <1>5 DEF AnswerOrder
<1> QED BY <1>1, <1>2, <1>5, <1>6

(* The answer to the next configure. *)
LEMMA OrderAnswered ==
  ASSUME SurfaceInv, AnswerOrder, NEW t \in Seq(Requests),
         \A j \in DOMAIN t : t[j] \notin Acks,
         NEW n, n = Handled + 1, Handled' = n,
         Send(Answer(n, t)), UNCHANGED <<acked, shown>>, NEW G
  PROVE  /\ AnswerOrder'
         /\ (\E j \in DOMAIN t : t[j] \in Commits) =>
              Answered(requests', acked', shown', n)
         /\ (/\ Fitting(requests, acked, shown, G)
             /\ \A j \in DOMAIN t : (t[j] \in Commits /\ t[j].buffer # NULL) =>
                  <<Bytes(t[j].width, t[j].height), n>> \in G)
            => Fitting(requests', acked', shown', G)
<1>1. PICK p : p = Handled
  OBVIOUS
<1>2. p \in Nat /\ n = p + 1 /\ n \in Nat /\ n \in p + 1 .. n
  BY <1>1 DEF AnswerOrder, Acknowledging
<1> DEFINE m == ack_configure(n)
<1>3. m \in Acks /\ m.serial = n
  BY <1>2 DEF ack_configure, Acks
<1>4. Answer(n, t) = <<m>> \o t
  BY DEF Answer
<1> HIDE DEF m
<1>5. /\ requests \in Seq(Requests) /\ requests' = requests \o (<<m>> \o t)
      /\ acked' = acked /\ shown' = shown
      /\ Acknowledging(requests, acked, p)
  BY <1>1, <1>4 DEF SurfaceInv, SurfaceType, Send, AnswerOrder
<1>6. Acknowledging(requests \o (<<m>> \o t), acked, n)
  BY <1>2, <1>3, <1>5, AcknowledgingAnswer
<1>7. /\ LastAck(requests \o (<<m>> \o t), acked, n)
      /\ (\E j \in DOMAIN t : t[j] \in Commits) =>
           Answered(requests \o (<<m>> \o t), acked, shown, n)
      /\ (/\ Fitting(requests, acked, shown, G)
          /\ \A j \in DOMAIN t : (t[j] \in Commits /\ t[j].buffer # NULL) =>
               <<Bytes(t[j].width, t[j].height), n>> \in G)
         => Fitting(requests \o (<<m>> \o t), acked, shown, G)
  BY <1>3, <1>5, AnswersAnswer
<1>8. AnswerOrder'
  <2>1. shown.serial <= acked
    BY DEF AnswerOrder
  <2> QED BY <1>5, <1>6, <1>7, <2>1 DEF AnswerOrder
<1> QED BY <1>5, <1>7, <1>8
==============================================================================
