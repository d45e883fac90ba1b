----------------------------- MODULE OutputProofs -----------------------------
(***************************************************************************)
(* surface-outputs, for any surfaces, any outputs and any size of the      *)
(* trackers: the slots are a set (SlotsAreSets), it is the right one       *)
(* (OutputsTracked), and it changes the way OutputSet says (Refinement).   *)
(***************************************************************************)
EXTENDS SurfaceOutputs, TLAPS, FiniteSetTheorems, WellFoundedInduction

Slots == [Cap -> Outputs \cup {NULL}]

(* What a tracker is when no output has two of its slots. *)
NoTwice(t) == \A i, j \in Cap : t[i] = t[j] => i = j \/ t[i] = NULL

Held(t) == Range(t) \ {NULL}

-------------------------------------------------------------------------------
(* Sets of slots have first and last members. *)
LEMMA Least == ASSUME NEW T \in SUBSET Nat, T # {}
               PROVE  \E x \in T : \A y \in T : x <= y
<1> DEFINE R == {ss \in Nat \X Nat : ss[1] < ss[2]}
<1>1. IsWellFoundedOn(R, Nat)
  BY NatLessThanWellFounded DEF OpToRel
<1>2. \E x \in T : \A y \in T : ~ (<<y, x>> \in R)
  <2> HIDE DEF R
  <2> QED BY <1>1, WFMin, Zenon
<1>3. \A x, y \in T : <<y, x>> \notin R => x <= y
  OBVIOUS
<1> QED BY <1>2, <1>3

(* A set of slots has a greatest member. *)
LEMMA Greatest == ASSUME NEW T \in SUBSET Cap, T # {}
                  PROVE  \E x \in T : \A y \in T : y <= x
<1> DEFINE U == {n \in Nat : \E x \in T : n = OUTPUT_TRACKER_CAP - x}
<1>1. T \subseteq Int /\ \A x \in T : OUTPUT_TRACKER_CAP - x \in U
  BY SurfaceOutputsAssumption DEF Cap
<1>2. U \in SUBSET Nat /\ U # {}
  BY <1>1
<1>3. PICK n \in U : \A m \in U : n <= m
  BY <1>2, Least
<1>4. PICK x \in T : n = OUTPUT_TRACKER_CAP - x
  BY <1>3
<1>5. ASSUME NEW y \in T PROVE y <= x
  <2>1. n <= OUTPUT_TRACKER_CAP - y
    BY <1>1, <1>3
  <2> QED BY <2>1, <1>1, <1>4, SurfaceOutputsAssumption
<1> QED BY <1>5

(* The slot an enter event takes is a free one. *)
LEMMA EmptyIsFree ==
  ASSUME NEW t \in Slots
  PROVE  IF SlotsOf(t, NULL) = {} THEN empty_index(t) < 0
         ELSE empty_index(t) \in Cap /\ t[empty_index(t)] = NULL /\ ~(empty_index(t) < 0)
<1>1. CASE SlotsOf(t, NULL) = {}
  BY <1>1 DEF empty_index
<1>2. CASE SlotsOf(t, NULL) # {}
  <2>1. SlotsOf(t, NULL) \in SUBSET Cap
    BY DEF SlotsOf
  <2>2. \E i \in SlotsOf(t, NULL) : \A j \in SlotsOf(t, NULL) : j <= i
    BY <2>1, <1>2, Greatest
  <2>3. empty_index(t) \in SlotsOf(t, NULL)
    BY <2>2, <1>2 DEF empty_index
  <2>4. empty_index(t) \in Cap /\ t[empty_index(t)] = NULL
    BY <2>3 DEF SlotsOf
  <2> QED BY <2>4, <1>2, SurfaceOutputsAssumption DEF Cap
<1> QED BY <1>1, <1>2

(* An enter event adds its output to what the slots hold, and only that, unless
   all of them hold others. *)
LEMMA AddedHolds ==
  ASSUME NEW t \in Slots, NoTwice(t), NEW o \in Outputs
  PROVE  /\ Added(t, o) \in Slots
         /\ NoTwice(Added(t, o))
         /\ \/ o \in Held(Added(t, o)) /\ Held(Added(t, o)) = Held(t) \cup {o}
            \/ o \notin Range(t) /\ Added(t, o) = t /\ NULL \notin Range(t)
<1>1. o # NULL
  BY SurfaceOutputsAssumption
<1>2. CASE SlotsOf(t, o) # {}
  <2>1. Added(t, o) = t
    BY <1>2 DEF Added
  <2>2. o \in Held(t)
    BY <1>1, <1>2 DEF SlotsOf, Held, Range, Slots
  <2> QED BY <2>1, <2>2
<1>3. CASE SlotsOf(t, o) = {} /\ SlotsOf(t, NULL) = {}
  <2>1. Added(t, o) = t
    BY <1>3, EmptyIsFree DEF Added
  <2>2. o \notin Range(t) /\ NULL \notin Range(t)
    BY <1>3 DEF SlotsOf, Range, Slots
  <2> QED BY <2>1, <2>2
<1>4. CASE SlotsOf(t, o) = {} /\ SlotsOf(t, NULL) # {}
  <2> DEFINE e == empty_index(t)
  <2>1. e \in Cap /\ t[e] = NULL /\ ~(e < 0)
    BY <1>4, EmptyIsFree
  <2>2. Added(t, o) = [t EXCEPT ![e] = o]
    BY <1>4, <2>1 DEF Added
  <2>3. \A i \in Cap : t[i] # o
    BY <1>4 DEF SlotsOf
  <2> HIDE DEF e
  <2> DEFINE u == [t EXCEPT ![e] = o]
  <2>4. u \in Slots /\ u[e] = o /\ \A i \in Cap \ {e} : u[i] = t[i]
    BY <2>1 DEF Slots
  <2> HIDE DEF u
  <2>5. NoTwice(u)
    BY <2>1, <2>3, <2>4 DEF NoTwice
  <2>6. Held(u) = Held(t) \cup {o}
    <3>1. DOMAIN u = Cap /\ DOMAIN t = Cap
      BY <2>4 DEF Slots
    <3>2. ASSUME NEW x \in Held(u) PROVE x \in Held(t) \cup {o}
      BY <3>1, <2>4 DEF Held, Range
    <3>3. ASSUME NEW x \in Held(t) PROVE x \in Held(u)
      BY <3>1, <2>1, <2>4 DEF Held, Range
    <3>4. o \in Held(u)
      BY <3>1, <2>1, <2>4, <1>1 DEF Held, Range
    <3> QED BY <3>2, <3>3, <3>4
  <2>7. u = Added(t, o)
    BY <2>2 DEF u
  <2> QED BY <2>4, <2>5, <2>6, <2>7
<1> QED BY <1>2, <1>3, <1>4

(* A leave event takes its output from what the slots hold, and nothing else. *)
LEMMA RemovedHolds ==
  ASSUME NEW t \in Slots, NoTwice(t), NEW o \in Outputs
  PROVE  /\ Removed(t, o) \in Slots
         /\ NoTwice(Removed(t, o))
         /\ Held(Removed(t, o)) = Held(t) \ {o}
<1>1. o # NULL
  BY SurfaceOutputsAssumption
<1>2. CASE SlotsOf(t, o) = {}
  <2>1. Removed(t, o) = t
    BY <1>2 DEF Removed
  <2>2. o \notin Held(t)
    BY <1>2 DEF SlotsOf, Held, Range, Slots
  <2> QED BY <2>1, <2>2
<1>3. CASE SlotsOf(t, o) # {}
  <2> DEFINE f == CHOOSE i \in SlotsOf(t, o) : \A j \in SlotsOf(t, o) : i <= j
             u == [t EXCEPT ![f] = NULL]
  <2>1. Removed(t, o) = u
    BY <1>3 DEF Removed
  <2>2. SlotsOf(t, o) \in SUBSET Nat
    BY SurfaceOutputsAssumption DEF SlotsOf, Cap
  <2>3. \E i \in SlotsOf(t, o) : \A j \in SlotsOf(t, o) : i <= j
    BY <2>2, <1>3, Least
  <2>4. f \in SlotsOf(t, o)
    BY <2>3
  <2> HIDE DEF f
  <2>5. f \in Cap /\ t[f] = o
    BY <2>4 DEF SlotsOf
  <2>6. u \in Slots /\ u[f] = NULL /\ \A i \in Cap \ {f} : u[i] = t[i]
    BY <2>5 DEF Slots
  <2> HIDE DEF u
  <2>7. NoTwice(u)
    BY <2>6 DEF NoTwice
  <2>8. \A i \in Cap \ {f} : t[i] # o
    BY <2>5, <1>1 DEF NoTwice
  <2>9. Held(u) = Held(t) \ {o}
    <3>1. DOMAIN u = Cap /\ DOMAIN t = Cap
      BY <2>6 DEF Slots
    <3>2. ASSUME NEW x \in Held(u) PROVE x \in Held(t) \ {o}
      BY <3>1, <2>6, <2>8 DEF Held, Range
    <3>3. ASSUME NEW x \in Held(t) \ {o} PROVE x \in Held(u)
      BY <3>1, <2>5, <2>6 DEF Held, Range
    <3> QED BY <3>2, <3>3
  <2> QED BY <2>1, <2>6, <2>7, <2>9
<1> QED BY <1>2, <1>3

(* Slots hold as many outputs as there are slots at most, and as many when none
   is free. *)
LEMMA SlotsBound ==
  ASSUME NEW t \in Slots, NoTwice(t)
  PROVE  /\ IsFiniteSet(Held(t)) /\ Cardinality(Held(t)) \in Nat
         /\ Cardinality(Held(t)) <= OUTPUT_TRACKER_CAP
         /\ NULL \notin Range(t) => Cardinality(Held(t)) = OUTPUT_TRACKER_CAP
<1>1. IsFiniteSet(Cap) /\ Cardinality(Cap) = OUTPUT_TRACKER_CAP
  <2>1. OUTPUT_TRACKER_CAP - 1 \in Int /\ 0 \in Int /\ ~(0 > OUTPUT_TRACKER_CAP - 1)
    BY SurfaceOutputsAssumption
  <2> QED BY <2>1, FS_Interval, SurfaceOutputsAssumption DEF Cap
<1>2. t \in Surjection(Cap, Range(t))
  BY DEF Slots, Surjection, Range
<1>3. /\ IsFiniteSet(Range(t))
      /\ Cardinality(Range(t)) <= Cardinality(Cap)
      /\ Cardinality(Range(t)) = Cardinality(Cap) <=> t \in Injection(Cap, Range(t))
  BY <1>1, <1>2, FS_Surjection
<1>4. IsFiniteSet(Held(t)) /\ Cardinality(Held(t)) \in Nat
      /\ Cardinality(Held(t)) <= Cardinality(Range(t))
  BY <1>3, FS_Subset, FS_CardinalityType DEF Held
<1>5. Cardinality(Range(t)) \in Nat
  BY <1>3, FS_CardinalityType
<1>6. ASSUME NULL \notin Range(t) PROVE Cardinality(Held(t)) = OUTPUT_TRACKER_CAP
  <2>1. \A i, j \in Cap : t[i] = t[j] => i = j
    BY <1>6 DEF NoTwice, Range, Slots
  <2>2. t \in Injection(Cap, Range(t))
    BY <2>1, <1>2 DEF Injection, IsInjective, Surjection
  <2>3. Held(t) = Range(t)
    BY <1>6 DEF Held
  <2> QED BY <2>2, <2>3, <1>1, <1>3
<1> QED BY <1>1, <1>3, <1>4, <1>5, <1>6, SurfaceOutputsAssumption
-------------------------------------------------------------------------------
(* What holds of the events on their way: binds are of listed outputs, enter and
   leave events come after the description of their output, and what the
   compositor saw bound is described or will be. *)
OfSurface(e, s, o) == e.type \in {"enter", "leave"} /\ e.surface = s /\ e.output = o

Describes(e, o) == e.type = "geometry" /\ e.output = o

Queued ==
  /\ \A k \in DOMAIN requests : requests[k] \in outputs
  /\ \A k \in DOMAIN events : events[k].type = "geometry" => events[k].output \in bound
  /\ \A k \in DOMAIN events : events[k].type \in {"enter", "leave"} =>
       events[k].output \in named \/ \E j \in 1 .. k - 1 : Describes(events[j], events[k].output)
  /\ \A o \in bound : o \in named \/ \E k \in DOMAIN events : Describes(events[k], o)

(* An output without events on their way is where the compositor has it; with
   events, the last of them says where that is. *)
Settled(s, o) ==
  (\A k \in DOMAIN events : ~OfSurface(events[k], s, o)) =>
    (o \in Tracked(s) <=> o \in entered[s] /\ o \notin dropped[s])

LastSays(s, o) ==
  \A k \in DOMAIN events :
    /\ OfSurface(events[k], s, o)
    /\ \A j \in DOMAIN events : k < j => ~OfSurface(events[j], s, o)
    => (events[k].type = "enter" <=> o \in entered[s])

NamesKnown == \A s \in Surfaces : Tracked(s) \subseteq named

IInv == /\ TypeOK
        /\ OneSlotEach
        /\ NamesKnown
        /\ Queued
        /\ \A s \in Surfaces, o \in Outputs : Settled(s, o) /\ LastSays(s, o)

(* With empty trackers and nothing sent, every part of the invariant holds. *)
LEMMA OutputsStart == Init => IInv
<1> SUFFICES ASSUME Init PROVE IInv
  OBVIOUS
<1>1. tracker \in [Surfaces -> Slots] /\ \A s \in Surfaces, i \in Cap : tracker[s][i] = NULL
  BY DEF Init, Slots
<1>2. \A s \in Surfaces : Tracked(s) = {}
  BY <1>1 DEF Tracked, Range, Slots
<1>3. TypeOK
  <2>1. events \in Seq(Events) /\ requests \in Seq(Outputs)
    BY DEF Init
  <2> QED BY <2>1, <1>1 DEF Init, TypeOK, Slots
<1>4. OneSlotEach
  BY <1>1 DEF OneSlotEach
<1>5. Queued
  BY DEF Init, Queued
<1>6. \A s \in Surfaces, o \in Outputs : Settled(s, o) /\ LastSays(s, o)
  BY <1>2 DEF Init, Settled, LastSays
<1> QED BY <1>2, <1>3, <1>4, <1>5, <1>6 DEF IInv, NamesKnown

(* Taking an event off the queue, and putting one on it. *)
LEMMA QueueShifts ==
  ASSUME events \in Seq(Events), events # <<>>, events' = Tail(events)
  PROVE  /\ Head(events) = events[1] /\ Head(events) \in Events
         /\ events' \in Seq(Events)
         /\ Len(events) \in Nat /\ Len(events) >= 1
         /\ DOMAIN events = 1 .. Len(events)
         /\ DOMAIN events' = 1 .. Len(events) - 1
         /\ \A k \in 1 .. Len(events) - 1 : events'[k] = events[k + 1]
         /\ \A k \in 2 .. Len(events) : k - 1 \in DOMAIN events' /\ events'[k - 1] = events[k]
<1>1. /\ Len(events) \in Nat /\ Len(events) >= 1
      /\ DOMAIN events = 1 .. Len(events)
      /\ Head(events) = events[1]
  OBVIOUS
<1>2. events[1] \in Events
  BY <1>1
<1>3. events' \in Seq(Events) /\ Len(events') = Len(events) - 1
  OBVIOUS
<1>4. DOMAIN events' = 1 .. Len(events) - 1
  BY <1>3
<1>5. \A k \in 1 .. Len(events) - 1 : events'[k] = events[k + 1]
  BY <1>1
<1>6. \A k \in 2 .. Len(events) : k - 1 \in DOMAIN events' /\ events'[k - 1] = events[k]
  BY <1>1, <1>4, <1>5
<1> QED BY <1>1, <1>2, <1>3, <1>4, <1>5, <1>6

(* An event that is sent becomes the last of the queue. *)
LEMMA QueueGrows ==
  ASSUME events \in Seq(Events), NEW e \in Events, events' = Append(events, e)
  PROVE  /\ events' \in Seq(Events)
         /\ Len(events) \in Nat
         /\ DOMAIN events = 1 .. Len(events)
         /\ DOMAIN events' = 1 .. Len(events) + 1
         /\ \A k \in DOMAIN events : events'[k] = events[k]
         /\ events'[Len(events) + 1] = e
  OBVIOUS

-------------------------------------------------------------------------------
(* What an event leaves true of those behind it, whatever its handler did to
   named and tracker, as long as it took the event's own output into account. *)
LEMMA Delivered ==
  ASSUME IInv, events # <<>>, events' = Tail(events),
         bound' = bound, entered' = entered,
         outputs \subseteq outputs', named \subseteq named',
         \A k \in DOMAIN requests' : requests'[k] \in outputs',
         \A o \in Outputs : Describes(Head(events), o) => o \in named',
         \A s \in Surfaces, o \in Outputs :
           IF OfSurface(Head(events), s, o)
           THEN (Head(events).type = "enter" <=> o \in entered[s])
                  => (o \in Tracked(s)' <=> o \in entered[s] /\ o \notin dropped'[s])
           ELSE /\ o \in Tracked(s)' <=> o \in Tracked(s)
                /\ o \in dropped'[s] <=> o \in dropped[s]
  PROVE  /\ Queued'
         /\ \A s \in Surfaces, o \in Outputs : Settled(s, o)' /\ LastSays(s, o)'
<1>1. events \in Seq(Events) /\ bound \subseteq Outputs
  BY DEF IInv, TypeOK
<1>2. /\ Head(events) = events[1] /\ Head(events) \in Events
      /\ Len(events) \in Nat /\ Len(events) >= 1
      /\ DOMAIN events = 1 .. Len(events)
      /\ DOMAIN events' = 1 .. Len(events) - 1
      /\ \A k \in 1 .. Len(events) - 1 : events'[k] = events[k + 1]
      /\ \A k \in 2 .. Len(events) : k - 1 \in DOMAIN events' /\ events'[k - 1] = events[k]
  BY <1>1, QueueShifts
<1>3. \A k \in DOMAIN events' : k + 1 \in DOMAIN events /\ events'[k] = events[k + 1]
  BY <1>2
<1>4. Queued'
  <2>1. \A k \in DOMAIN events' : events'[k].type = "geometry" => events'[k].output \in bound'
    BY <1>3 DEF IInv, Queued
  <2>2. ASSUME NEW k \in DOMAIN events', events'[k].type \in {"enter", "leave"}
        PROVE  events'[k].output \in named'
                 \/ \E j \in 1 .. k - 1 : Describes(events'[j], events'[k].output)
    <3> DEFINE o == events'[k].output
    <3>1. o \in named \/ \E j \in 1 .. (k + 1) - 1 : Describes(events[j], o)
      BY <1>3, <2>2 DEF IInv, Queued
    <3>2. CASE o \in named
      BY <3>2
    <3>3. ASSUME NEW j \in 1 .. k, Describes(events[j], o) PROVE o \in named' \/ \E i \in 1 .. k - 1 : Describes(events'[i], o)
      <4>1. j \in DOMAIN events /\ k \in Nat
        BY <1>2
      <4>2. CASE j = 1
        <5>1. events[1].output \in bound
          BY <1>2, <3>3, <4>2 DEF IInv, Queued, Describes
        <5>2. o \in Outputs
          BY <5>1, <1>1, <3>3, <4>2 DEF Describes
        <5> QED BY <5>2, <1>2, <3>3, <4>2
      <4>3. CASE j # 1
        <5>1. j \in 2 .. Len(events) /\ j - 1 \in 1 .. k - 1
          BY <4>1, <4>3, <1>2
        <5>2. events'[j - 1] = events[j]
          BY <5>1, <1>2
        <5> QED BY <5>1, <5>2, <3>3
      <4> QED BY <4>2, <4>3
    <3>4. k \in Nat /\ (k + 1) - 1 = k
      BY <1>2
    <3> QED BY <3>1, <3>2, <3>3, <3>4
  <2>3. ASSUME NEW o \in bound' PROVE o \in named' \/ \E k \in DOMAIN events' : Describes(events'[k], o)
    <3>1. o \in Outputs
      BY <1>1
    <3>2. CASE o \in named
      BY <3>2
    <3>3. ASSUME NEW k \in DOMAIN events, Describes(events[k], o)
          PROVE  o \in named' \/ \E j \in DOMAIN events' : Describes(events'[j], o)
      <4>1. CASE k = 1
        BY <3>1, <3>3, <4>1, <1>2
      <4>2. CASE k # 1
        <5>1. k \in 2 .. Len(events)
          BY <4>2, <1>2
        <5> QED BY <5>1, <3>3, <1>2
      <4> QED BY <4>1, <4>2
    <3> QED BY <3>2, <3>3 DEF IInv, Queued
  <2> QED BY <2>1, <2>2, <2>3 DEF Queued
<1>5. ASSUME NEW s \in Surfaces, NEW o \in Outputs PROVE LastSays(s, o)'
  <2> SUFFICES ASSUME NEW k \in DOMAIN events', OfSurface(events'[k], s, o),
                      \A j \in DOMAIN events' : k < j => ~OfSurface(events'[j], s, o)
               PROVE  events'[k].type = "enter" <=> o \in entered'[s]
    BY DEF LastSays, OfSurface
  <2>1. k + 1 \in DOMAIN events /\ events'[k] = events[k + 1] /\ k \in Nat
    BY <1>2, <1>3
  <2>2. ASSUME NEW j \in DOMAIN events, k + 1 < j PROVE ~OfSurface(events[j], s, o)
    <3>1. j \in 2 .. Len(events) /\ k < j - 1
      BY <2>1, <2>2, <1>2
    <3> QED BY <3>1, <1>2
  <2> QED BY <2>1, <2>2 DEF IInv, LastSays
<1>6. ASSUME NEW s \in Surfaces, NEW o \in Outputs PROVE Settled(s, o)'
  <2> SUFFICES ASSUME \A k \in DOMAIN events' : ~OfSurface(events'[k], s, o)
               PROVE  o \in Tracked(s)' <=> o \in entered'[s] /\ o \notin dropped'[s]
    BY DEF Settled, OfSurface
  <2>1. ASSUME NEW k \in DOMAIN events, k # 1 PROVE ~OfSurface(events[k], s, o)
    <3>1. k \in 2 .. Len(events)
      BY <2>1, <1>2
    <3> QED BY <3>1, <1>2
  <2>2. CASE OfSurface(Head(events), s, o)
    <3>1. 1 \in DOMAIN events /\ \A j \in DOMAIN events : 1 < j => ~OfSurface(events[j], s, o)
      BY <2>1, <1>2
    <3>2. events[1].type = "enter" <=> o \in entered[s]
      BY <3>1, <2>2, <1>2 DEF IInv, LastSays
    <3> QED BY <3>2, <2>2, <1>2
  <2>3. CASE ~OfSurface(Head(events), s, o)
    <3>1. \A k \in DOMAIN events : ~OfSurface(events[k], s, o)
      BY <2>1, <2>3, <1>2
    <3>2. o \in Tracked(s) <=> o \in entered[s] /\ o \notin dropped[s]
      BY <3>1 DEF IInv, Settled
    <3> QED BY <3>2, <2>3
  <2> QED BY <2>2, <2>3
<1> QED BY <1>4, <1>5, <1>6
(* What a new event leaves true of those before it. *)
LEMMA Posted ==
  ASSUME IInv, NEW e \in Events, Send(e),
         bound \subseteq bound',
         \A k \in DOMAIN requests' : requests'[k] \in outputs,
         \A o \in bound' : o \in bound \/ Describes(e, o),
         e.type = "geometry" => e.output \in bound',
         e.type \in {"enter", "leave"} => e.output \in bound,
         \A s \in Surfaces, o \in Outputs :
           IF OfSurface(e, s, o) THEN e.type = "enter" <=> o \in entered'[s]
           ELSE o \in entered'[s] <=> o \in entered[s]
  PROVE  /\ Queued'
         /\ \A s \in Surfaces, o \in Outputs : Settled(s, o)' /\ LastSays(s, o)'
<1> DEFINE n == Len(events) + 1
<1>1. /\ events' \in Seq(Events)
      /\ n \in Nat /\ n >= 1
      /\ DOMAIN events = 1 .. n - 1
      /\ DOMAIN events' = 1 .. n
      /\ \A k \in DOMAIN events : events'[k] = events[k]
      /\ events'[n] = e
  <2>1. events \in Seq(Events) /\ events' = Append(events, e)
    BY DEF IInv, TypeOK, Send
  <2> QED BY <2>1, QueueGrows
<1>2. /\ outputs' = outputs /\ named' = named /\ tracker' = tracker /\ dropped' = dropped
      /\ \A s : Tracked(s)' = Tracked(s)
  BY DEF Send, clientVars, Tracked
<1> HIDE DEF n
<1>3. \A k \in DOMAIN events' : k = n \/ k \in DOMAIN events
  BY <1>1
<1>4. Queued'
  <2>1. ASSUME NEW k \in DOMAIN events', events'[k].type = "geometry" PROVE events'[k].output \in bound'
    BY <1>1, <1>3, <2>1 DEF IInv, Queued
  <2>2. ASSUME NEW k \in DOMAIN events', events'[k].type \in {"enter", "leave"}
        PROVE  events'[k].output \in named'
                 \/ \E j \in 1 .. k - 1 : Describes(events'[j], events'[k].output)
    <3>1. CASE k = n
      <4>1. \A o \in bound : o \in named \/ \E j \in DOMAIN events : Describes(events[j], o)
        BY DEF IInv, Queued
      <4>2. e.output \in bound
        BY <1>1, <2>2, <3>1
      <4> QED BY <1>1, <1>2, <3>1, <4>1, <4>2
    <3>2. CASE k \in DOMAIN events
      <4>1. events[k].output \in named \/ \E j \in 1 .. k - 1 : Describes(events[j], events[k].output)
        BY <1>1, <2>2, <3>2 DEF IInv, Queued
      <4>2. \A j \in 1 .. k - 1 : events'[j] = events[j]
        BY <1>1, <3>2
      <4> QED BY <1>1, <1>2, <3>2, <4>1, <4>2
    <3> QED BY <1>3, <3>1, <3>2
  <2>3. ASSUME NEW o \in bound' PROVE o \in named' \/ \E k \in DOMAIN events' : Describes(events'[k], o)
    <3>1. CASE Describes(e, o)
      <4>1. n \in DOMAIN events'
        BY <1>1
      <4> QED BY <4>1, <1>1, <3>1
    <3>2. CASE o \in bound
      <4>1. o \in named \/ \E k \in DOMAIN events : Describes(events[k], o)
        BY <3>2 DEF IInv, Queued
      <4>2. \A k \in DOMAIN events : k \in DOMAIN events'
        BY <1>1
      <4> QED BY <1>1, <1>2, <4>1, <4>2
    <3> QED BY <3>1, <3>2
  <2> QED BY <1>2, <2>1, <2>2, <2>3 DEF Queued
<1>5. ASSUME NEW s \in Surfaces, NEW o \in Outputs PROVE LastSays(s, o)'
  <2> SUFFICES ASSUME NEW k \in DOMAIN events', OfSurface(events'[k], s, o),
                      \A j \in DOMAIN events' : k < j => ~OfSurface(events'[j], s, o)
               PROVE  events'[k].type = "enter" <=> o \in entered'[s]
    BY DEF LastSays, OfSurface
  <2>1. CASE k = n
    BY <1>1, <2>1
  <2>2. CASE k \in DOMAIN events
    <3>1. n \in DOMAIN events' /\ k < n
      BY <1>1, <2>2
    <3>2. ~OfSurface(e, s, o)
      BY <3>1, <1>1
    <3>3. \A j \in DOMAIN events : k < j => ~OfSurface(events[j], s, o)
      BY <1>1
    <3>4. events[k].type = "enter" <=> o \in entered[s]
      BY <1>1, <2>2, <3>3 DEF IInv, LastSays
    <3> QED BY <1>1, <2>2, <3>2, <3>4
  <2> QED BY <1>3, <2>1, <2>2
<1>6. ASSUME NEW s \in Surfaces, NEW o \in Outputs PROVE Settled(s, o)'
  <2> SUFFICES ASSUME \A k \in DOMAIN events' : ~OfSurface(events'[k], s, o)
               PROVE  o \in Tracked(s)' <=> o \in entered'[s] /\ o \notin dropped'[s]
    BY DEF Settled, OfSurface
  <2>1. n \in DOMAIN events'
    BY <1>1
  <2>2. ~OfSurface(e, s, o)
    BY <1>1, <2>1
  <2>3. ASSUME NEW k \in DOMAIN events PROVE ~OfSurface(events[k], s, o)
    <3>1. k \in DOMAIN events'
      BY <1>1
    <3> QED BY <3>1, <1>1
  <2>4. o \in Tracked(s) <=> o \in entered[s] /\ o \notin dropped[s]
    BY <2>3 DEF IInv, Settled
  <2> QED BY <1>2, <2>2, <2>4
<1> QED BY <1>4, <1>5, <1>6

-------------------------------------------------------------------------------
(* The three handlers that take an event, and what they do to what is held. *)
LEMMA EnterChanges ==
  ASSUME IInv, surface_handle_enter,
         NEW s, s = Head(events).surface, NEW o, o = Head(events).output
  PROVE  /\ Head(events) \in Events /\ Head(events).type = "enter"
         /\ s \in Surfaces /\ o \in Outputs
         /\ tracker' \in [Surfaces -> Slots] /\ OneSlotEach'
         /\ \A q \in Surfaces \ {s} : Tracked(q)' = Tracked(q)
         /\ \/ /\ o \in Tracked(s)'
               /\ Tracked(s)' = Tracked(s) \cup {o}
               /\ dropped' = [dropped EXCEPT ![s] = @ \ {o}]
            \/ /\ o \notin Tracked(s) /\ tracker' = tracker
               /\ NULL \notin Range(tracker[s])
               /\ dropped' = [dropped EXCEPT ![s] = @ \cup {o}]
<1> DEFINE t == tracker[s]
<1>1. Head(events) \in Events /\ Head(events).type = "enter"
  <2>1. events \in Seq(Events) /\ events # <<>> /\ Head(events).type = "enter"
    BY DEF IInv, TypeOK, surface_handle_enter, Receive
  <2> QED BY <2>1
<1>2. s \in Surfaces /\ o \in Outputs
  BY <1>1 DEF Events
<1>3. /\ tracker' = [tracker EXCEPT ![s] = Added(t, o)]
      /\ dropped' = [dropped EXCEPT ![s] = IF o \in Range(tracker'[s]) THEN @ \ {o} ELSE @ \cup {o}]
  BY DEF surface_handle_enter
<1>4. tracker \in [Surfaces -> Slots] /\ \A q \in Surfaces : NoTwice(tracker[q])
  BY DEF IInv, TypeOK, Slots, OneSlotEach, NoTwice
<1>5. t \in Slots /\ NoTwice(t)
  BY <1>2, <1>4
<1>6. /\ Added(t, o) \in Slots
      /\ NoTwice(Added(t, o))
      /\ \/ o \in Held(Added(t, o)) /\ Held(Added(t, o)) = Held(t) \cup {o}
         \/ o \notin Range(t) /\ Added(t, o) = t /\ NULL \notin Range(t)
  BY <1>2, <1>5, AddedHolds
<1>7. tracker'[s] = Added(t, o) /\ \A q \in Surfaces \ {s} : tracker'[q] = tracker[q]
  BY <1>2, <1>3, <1>4
<1>8. tracker' \in [Surfaces -> Slots]
  BY <1>2, <1>3, <1>4, <1>6
<1>9. OneSlotEach'
  <2>1. \A q \in Surfaces : NoTwice(tracker'[q])
    BY <1>4, <1>6, <1>7
  <2> QED BY <2>1 DEF NoTwice, OneSlotEach
<1>10. \A q \in Surfaces \ {s} : Tracked(q)' = Tracked(q)
  BY <1>7 DEF Tracked
<1>11. Tracked(s)' = Held(Added(t, o)) /\ Tracked(s) = Held(t)
  <2>1. Tracked(s)' = Range(tracker'[s]) \ {NULL}
    BY DEF Tracked
  <2> QED BY <2>1, <1>7 DEF Tracked, Held
<1>12. CASE o \in Held(Added(t, o)) /\ Held(Added(t, o)) = Held(t) \cup {o}
  <2>1. o \in Range(tracker'[s])
    BY <1>12, <1>7 DEF Held
  <2> QED BY <2>1, <1>1, <1>2, <1>3, <1>8, <1>9, <1>10, <1>11, <1>12
<1>13. CASE o \notin Range(t) /\ Added(t, o) = t /\ NULL \notin Range(t)
  <2>1. tracker' = tracker /\ o \notin Range(tracker'[s]) /\ o \notin Tracked(s)
    BY <1>2, <1>3, <1>4, <1>7, <1>13 DEF Tracked
  <2> QED BY <2>1, <1>1, <1>2, <1>3, <1>8, <1>9, <1>10, <1>11, <1>13
<1> QED BY <1>6, <1>12, <1>13

(* surface_handle_leave takes the output out of the slots of its surface, and
   touches no other. *)
LEMMA LeaveChanges ==
  ASSUME IInv, surface_handle_leave,
         NEW s, s = Head(events).surface, NEW o, o = Head(events).output
  PROVE  /\ Head(events) \in Events /\ Head(events).type = "leave"
         /\ s \in Surfaces /\ o \in Outputs
         /\ tracker' \in [Surfaces -> Slots] /\ OneSlotEach'
         /\ \A q \in Surfaces \ {s} : Tracked(q)' = Tracked(q)
         /\ Tracked(s)' = Tracked(s) \ {o}
         /\ dropped' = [dropped EXCEPT ![s] = @ \ {o}]
<1> DEFINE t == tracker[s]
<1>1. Head(events) \in Events /\ Head(events).type = "leave"
  <2>1. events \in Seq(Events) /\ events # <<>> /\ Head(events).type = "leave"
    BY DEF IInv, TypeOK, surface_handle_leave, Receive
  <2> QED BY <2>1
<1>2. s \in Surfaces /\ o \in Outputs
  BY <1>1 DEF Events
<1>3. /\ tracker' = [tracker EXCEPT ![s] = Removed(t, o)]
      /\ dropped' = [dropped EXCEPT ![s] = @ \ {o}]
  BY DEF surface_handle_leave
<1>4. tracker \in [Surfaces -> Slots] /\ \A q \in Surfaces : NoTwice(tracker[q])
  BY DEF IInv, TypeOK, Slots, OneSlotEach, NoTwice
<1>5. t \in Slots /\ NoTwice(t)
  BY <1>2, <1>4
<1>6. /\ Removed(t, o) \in Slots
      /\ NoTwice(Removed(t, o))
      /\ Held(Removed(t, o)) = Held(t) \ {o}
  BY <1>2, <1>5, RemovedHolds
<1>7. tracker'[s] = Removed(t, o) /\ \A q \in Surfaces \ {s} : tracker'[q] = tracker[q]
  BY <1>2, <1>3, <1>4
<1>8. tracker' \in [Surfaces -> Slots]
  BY <1>2, <1>3, <1>4, <1>6
<1>9. OneSlotEach'
  <2>1. \A q \in Surfaces : NoTwice(tracker'[q])
    BY <1>4, <1>6, <1>7
  <2> QED BY <2>1 DEF NoTwice, OneSlotEach
<1>10. \A q \in Surfaces \ {s} : Tracked(q)' = Tracked(q)
  BY <1>7 DEF Tracked
<1>11. Tracked(s)' = Held(Removed(t, o)) /\ Tracked(s) = Held(t)
  <2>1. Tracked(s)' = Range(tracker'[s]) \ {NULL}
    BY DEF Tracked
  <2> QED BY <2>1, <1>7 DEF Tracked, Held
<1> QED BY <1>1, <1>2, <1>3, <1>6, <1>8, <1>9, <1>10, <1>11
-------------------------------------------------------------------------------
(* Each step keeps the invariant. *)
LEMMA EnterKeeps == IInv /\ surface_handle_enter => IInv'
<1> SUFFICES ASSUME IInv, surface_handle_enter PROVE IInv'
  OBVIOUS
<1> DEFINE e == Head(events)
<1>0. PICK s, o : s = e.surface /\ o = e.output
  OBVIOUS
<1>1. /\ Head(events) \in Events /\ Head(events).type = "enter"
      /\ s \in Surfaces /\ o \in Outputs
      /\ tracker' \in [Surfaces -> Slots] /\ OneSlotEach'
      /\ \A q \in Surfaces \ {s} : Tracked(q)' = Tracked(q)
      /\ \/ /\ o \in Tracked(s)'
            /\ Tracked(s)' = Tracked(s) \cup {o}
            /\ dropped' = [dropped EXCEPT ![s] = @ \ {o}]
         \/ /\ o \notin Tracked(s) /\ tracker' = tracker
            /\ NULL \notin Range(tracker[s])
            /\ dropped' = [dropped EXCEPT ![s] = @ \cup {o}]
  BY <1>0, EnterChanges
<1>2. /\ events # <<>> /\ events' = Tail(events)
      /\ UNCHANGED <<outputs, named, requests, advertised, bound, entered>>
  BY DEF surface_handle_enter, Receive, compositorVars
<1>3. dropped \in [Surfaces -> SUBSET Outputs] /\ dropped' \in [Surfaces -> SUBSET Outputs]
  BY <1>1 DEF IInv, TypeOK
<1>4. events \in Seq(Events)
  BY DEF IInv, TypeOK
<1>5. events' \in Seq(Events)
  BY <1>2, <1>4
<1>6. TypeOK'
  BY <1>1, <1>2, <1>3, <1>5 DEF IInv, TypeOK, Slots
<1>7. e = events[1] /\ 1 \in DOMAIN events
  BY <1>2, <1>4
<1>8. o \in named
  BY <1>0, <1>1, <1>7 DEF IInv, Queued
<1>9. NamesKnown'
  <2>1. ASSUME NEW q \in Surfaces PROVE Tracked(q)' \subseteq named
    <3>1. Tracked(q)' \subseteq Tracked(q) \cup {o}
      <4>1. CASE tracker' = tracker
        BY <4>1 DEF Tracked
      <4> QED BY <4>1, <1>1
    <3> QED BY <3>1, <1>8 DEF IInv, NamesKnown
  <2> QED BY <2>1, <1>2 DEF NamesKnown
<1>10. ASSUME NEW q \in Surfaces, NEW p \in Outputs
       PROVE  IF OfSurface(e, q, p)
              THEN (e.type = "enter" <=> p \in entered[q])
                     => (p \in Tracked(q)' <=> p \in entered[q] /\ p \notin dropped'[q])
              ELSE /\ p \in Tracked(q)' <=> p \in Tracked(q)
                   /\ p \in dropped'[q] <=> p \in dropped[q]
  <2>1. OfSurface(e, q, p) <=> q = s /\ p = o
    BY <1>0, <1>1 DEF OfSurface
  <2>2. CASE q = s /\ p = o
    <3>1. p \in Tracked(q)' <=> p \notin dropped'[q]
      <4>1. CASE o \in Tracked(s)' /\ dropped' = [dropped EXCEPT ![s] = @ \ {o}]
        BY <4>1, <2>2, <1>1, <1>3
      <4>2. CASE o \notin Tracked(s) /\ tracker' = tracker /\ dropped' = [dropped EXCEPT ![s] = @ \cup {o}]
        <5>1. o \notin Tracked(s)'
          BY <4>2 DEF Tracked
        <5>2. o \in dropped'[s]
          BY <4>2, <1>1, <1>3
        <5> QED BY <5>1, <5>2, <2>2
      <4> QED BY <4>1, <4>2, <1>1
    <3> QED BY <3>1, <2>1, <2>2, <1>1
  <2>3. CASE ~(q = s /\ p = o)
    <3>1. p \in Tracked(q)' <=> p \in Tracked(q)
      <4>1. CASE tracker' = tracker
        BY <4>1 DEF Tracked
      <4> QED BY <4>1, <2>3, <1>1
    <3>2. p \in dropped'[q] <=> p \in dropped[q]
      BY <2>3, <1>1, <1>3
    <3> QED BY <3>1, <3>2, <2>1, <2>3
  <2> QED BY <2>2, <2>3
<1>11. \A p \in Outputs : Describes(e, p) => p \in named'
  BY <1>1 DEF Describes
<1>12. \A k \in DOMAIN requests' : requests'[k] \in outputs'
  BY <1>2 DEF IInv, Queued
<1>13. Queued' /\ \A q \in Surfaces, p \in Outputs : Settled(q, p)' /\ LastSays(q, p)'
  BY <1>2, <1>10, <1>11, <1>12, Delivered
<1> QED BY <1>1, <1>6, <1>9, <1>13 DEF IInv

(* A leave event that is handled takes its output from the tracker and from
   what the queue still has to say. *)
LEMMA LeaveKeeps == IInv /\ surface_handle_leave => IInv'
<1> SUFFICES ASSUME IInv, surface_handle_leave PROVE IInv'
  OBVIOUS
<1> DEFINE e == Head(events)
<1>0. PICK s, o : s = e.surface /\ o = e.output
  OBVIOUS
<1>1. /\ Head(events) \in Events /\ Head(events).type = "leave"
      /\ s \in Surfaces /\ o \in Outputs
      /\ tracker' \in [Surfaces -> Slots] /\ OneSlotEach'
      /\ \A q \in Surfaces \ {s} : Tracked(q)' = Tracked(q)
      /\ Tracked(s)' = Tracked(s) \ {o}
      /\ dropped' = [dropped EXCEPT ![s] = @ \ {o}]
  BY <1>0, LeaveChanges
<1>2. /\ events # <<>> /\ events' = Tail(events)
      /\ UNCHANGED <<outputs, named, requests, advertised, bound, entered>>
  BY DEF surface_handle_leave, Receive, compositorVars
<1>3. dropped \in [Surfaces -> SUBSET Outputs] /\ dropped' \in [Surfaces -> SUBSET Outputs]
  BY <1>1 DEF IInv, TypeOK
<1>4. events \in Seq(Events)
  BY DEF IInv, TypeOK
<1>5. events' \in Seq(Events)
  BY <1>2, <1>4
<1>6. TypeOK'
  BY <1>1, <1>2, <1>3, <1>5 DEF IInv, TypeOK, Slots
<1>7. NamesKnown'
  <2>1. \A q \in Surfaces : Tracked(q)' \subseteq Tracked(q)
    BY <1>1
  <2> QED BY <2>1, <1>2 DEF IInv, NamesKnown
<1>8. ASSUME NEW q \in Surfaces, NEW p \in Outputs
      PROVE  IF OfSurface(e, q, p)
             THEN (e.type = "enter" <=> p \in entered[q])
                    => (p \in Tracked(q)' <=> p \in entered[q] /\ p \notin dropped'[q])
             ELSE /\ p \in Tracked(q)' <=> p \in Tracked(q)
                  /\ p \in dropped'[q] <=> p \in dropped[q]
  <2>1. OfSurface(e, q, p) <=> q = s /\ p = o
    BY <1>0, <1>1 DEF OfSurface
  <2>2. CASE q = s /\ p = o
    BY <2>1, <2>2, <1>1
  <2>3. CASE ~(q = s /\ p = o)
    BY <2>1, <2>3, <1>1, <1>3
  <2> QED BY <2>2, <2>3
<1>9. \A p \in Outputs : Describes(e, p) => p \in named'
  BY <1>1 DEF Describes
<1>10. \A k \in DOMAIN requests' : requests'[k] \in outputs'
  BY <1>2 DEF IInv, Queued
<1>11. Queued' /\ \A q \in Surfaces, p \in Outputs : Settled(q, p)' /\ LastSays(q, p)'
  BY <1>2, <1>8, <1>9, <1>10, Delivered
<1> QED BY <1>1, <1>6, <1>7, <1>11 DEF IInv

(* A global is bound at once: the output is named, and its request on its way. *)
LEMMA GlobalKeeps == IInv /\ handle_global => IInv'
<1> SUFFICES ASSUME IInv, handle_global PROVE IInv'
  OBVIOUS
<1> DEFINE e == Head(events)
<1>0. PICK o : o = e.output
  OBVIOUS
<1>1. events \in Seq(Events) /\ requests \in Seq(Outputs)
  BY DEF IInv, TypeOK
<1>2. /\ events # <<>> /\ events' = Tail(events) /\ e.type = "global"
      /\ outputs' = outputs \cup {o} /\ requests' = Append(requests, o)
      /\ UNCHANGED <<named, tracker, dropped, advertised, bound, entered>>
  BY <1>0 DEF handle_global, Receive, compositorVars
<1>3. e \in Events /\ events' \in Seq(Events)
  BY <1>1, <1>2
<1>4. o \in Outputs
  BY <1>0, <1>2, <1>3 DEF Events
<1>5. /\ requests' \in Seq(Outputs)
      /\ \A k \in DOMAIN requests' : requests'[k] = o \/ (k \in DOMAIN requests /\ requests'[k] = requests[k])
  BY <1>1, <1>2, <1>4
<1>6. TypeOK'
  BY <1>2, <1>3, <1>4, <1>5 DEF IInv, TypeOK
<1>7. OneSlotEach' /\ NamesKnown' /\ \A q : Tracked(q)' = Tracked(q)
  BY <1>2 DEF IInv, OneSlotEach, NamesKnown, Tracked
<1>8. \A k \in DOMAIN requests' : requests'[k] \in outputs'
  BY <1>2, <1>5 DEF IInv, Queued
<1>9. \A p \in Outputs : Describes(e, p) => p \in named'
  BY <1>2 DEF Describes
<1>10. \A q \in Surfaces, p \in Outputs : ~OfSurface(e, q, p)
  BY <1>2 DEF OfSurface
<1>11. Queued' /\ \A q \in Surfaces, p \in Outputs : Settled(q, p)' /\ LastSays(q, p)'
  BY <1>2, <1>7, <1>8, <1>9, <1>10, Delivered
<1> QED BY <1>6, <1>7, <1>11 DEF IInv

(* A description lists the output it names. *)
LEMMA GeometryKeeps == IInv /\ output_handle_geometry => IInv'
<1> SUFFICES ASSUME IInv, output_handle_geometry PROVE IInv'
  OBVIOUS
<1> DEFINE e == Head(events)
<1>0. PICK o : o = e.output
  OBVIOUS
<1>1. events \in Seq(Events)
  BY DEF IInv, TypeOK
<1>2. /\ events # <<>> /\ events' = Tail(events) /\ e.type = "geometry"
      /\ named' = named \cup {o}
      /\ UNCHANGED <<outputs, requests, tracker, dropped, advertised, bound, entered>>
  BY <1>0 DEF output_handle_geometry, Receive, compositorVars
<1>3. events' \in Seq(Events) /\ e = events[1] /\ 1 \in DOMAIN events
  BY <1>1, <1>2
<1>4. o \in bound
  BY <1>0, <1>2, <1>3 DEF IInv, Queued
<1>5. TypeOK'
  BY <1>2, <1>3, <1>4 DEF IInv, TypeOK
<1>6. OneSlotEach' /\ NamesKnown' /\ \A q : Tracked(q)' = Tracked(q)
  BY <1>2 DEF IInv, OneSlotEach, NamesKnown, Tracked
<1>7. \A k \in DOMAIN requests' : requests'[k] \in outputs'
  BY <1>2 DEF IInv, Queued
<1>8. \A p \in Outputs : Describes(e, p) => p \in named'
  BY <1>0, <1>2 DEF Describes
<1>9. \A q \in Surfaces, p \in Outputs : ~OfSurface(e, q, p)
  BY <1>2 DEF OfSurface
<1>10. Queued' /\ \A q \in Surfaces, p \in Outputs : Settled(q, p)' /\ LastSays(q, p)'
  BY <1>2, <1>6, <1>7, <1>8, <1>9, Delivered
<1> QED BY <1>5, <1>6, <1>10 DEF IInv

(* The compositor answers a binding with the description of the output. *)
LEMMA BindKeeps == IInv /\ ReceiveBind => IInv'
<1> SUFFICES ASSUME IInv, ReceiveBind PROVE IInv'
  OBVIOUS
<1>0. PICK o : o = Head(requests)
  OBVIOUS
<1> DEFINE e == [type |-> "geometry", output |-> o]
<1>1. events \in Seq(Events) /\ requests \in Seq(Outputs)
  BY DEF IInv, TypeOK
<1>2. /\ requests # <<>> /\ requests' = Tail(requests)
      /\ bound' = bound \cup {o} /\ Send(e)
      /\ UNCHANGED <<advertised, entered>>
  BY <1>0 DEF ReceiveBind
<1>3. /\ o \in Outputs /\ o \in outputs /\ requests' \in Seq(Outputs)
      /\ \A k \in DOMAIN requests' : k + 1 \in DOMAIN requests /\ requests'[k] = requests[k + 1]
  <2>1. o = requests[1] /\ 1 \in DOMAIN requests
    BY <1>0, <1>1, <1>2
  <2> QED BY <1>1, <1>2, <2>1 DEF IInv, Queued
<1>4. e \in Events
  BY <1>3 DEF Events
<1>5. /\ events' = Append(events, e)
      /\ UNCHANGED <<outputs, named, tracker, dropped>>
  BY <1>2 DEF Send, clientVars
<1> HIDE DEF e
<1>6. TypeOK'
  <2>1. events' \in Seq(Events)
    BY <1>1, <1>4, <1>5
  <2> QED BY <1>2, <1>3, <1>5, <2>1 DEF IInv, TypeOK
<1>7. OneSlotEach' /\ NamesKnown'
  BY <1>5 DEF IInv, OneSlotEach, NamesKnown, Tracked
<1>8. \A k \in DOMAIN requests' : requests'[k] \in outputs
  BY <1>3 DEF IInv, Queued
<1>9. e.type = "geometry" /\ e.output = o
  BY DEF e
<1>10. Queued' /\ \A q \in Surfaces, p \in Outputs : Settled(q, p)' /\ LastSays(q, p)'
  <2>1. \A p \in bound' : p \in bound \/ Describes(e, p)
    BY <1>2, <1>9 DEF Describes
  <2>2. \A q \in Surfaces, p \in Outputs : ~OfSurface(e, q, p)
    BY <1>9 DEF OfSurface
  <2> QED BY <1>2, <1>4, <1>8, <1>9, <2>1, <2>2, Posted
<1> QED BY <1>6, <1>7, <1>10 DEF IInv

(* An output plugged in is one nobody has named before. *)
LEMMA AdvertiseKeeps == ASSUME IInv, NEW o \in Outputs, Advertise(o) PROVE IInv'
<1> DEFINE e == [type |-> "global", output |-> o]
<1>1. events \in Seq(Events)
  BY DEF IInv, TypeOK
<1>2. Send(e) /\ advertised' = advertised \cup {o} /\ UNCHANGED <<requests, bound, entered>>
  BY DEF Advertise
<1>3. e \in Events /\ e.type = "global"
  BY DEF Events
<1>4. events' = Append(events, e) /\ UNCHANGED <<outputs, named, tracker, dropped>>
  BY <1>2 DEF Send, clientVars
<1> HIDE DEF e
<1>5. TypeOK'
  <2>1. events' \in Seq(Events)
    BY <1>1, <1>3, <1>4
  <2> QED BY <1>2, <1>4, <2>1 DEF IInv, TypeOK
<1>6. OneSlotEach' /\ NamesKnown'
  BY <1>4 DEF IInv, OneSlotEach, NamesKnown, Tracked
<1>7. Queued' /\ \A q \in Surfaces, p \in Outputs : Settled(q, p)' /\ LastSays(q, p)'
  <2>1. \A q \in Surfaces, p \in Outputs : ~OfSurface(e, q, p)
    BY <1>3 DEF OfSurface
  <2>2. \A k \in DOMAIN requests' : requests'[k] \in outputs
    BY <1>2 DEF IInv, Queued
  <2> QED BY <1>2, <1>3, <2>1, <2>2, Posted
<1> QED BY <1>5, <1>6, <1>7 DEF IInv

(* The compositor moves a surface on or off an output. *)
LEMMA SurfaceEventKeeps ==
  ASSUME IInv, NEW s \in Surfaces, NEW o \in Outputs, NEW type \in {"enter", "leave"},
         SurfaceEvent(type, s, o),
         entered' = [entered EXCEPT ![s] = IF type = "enter" THEN @ \cup {o} ELSE @ \ {o}]
  PROVE  IInv'
<1> DEFINE e == [type |-> type, surface |-> s, output |-> o]
<1>1. events \in Seq(Events) /\ entered \in [Surfaces -> SUBSET Outputs]
  BY DEF IInv, TypeOK
<1>2. o \in bound /\ Send(e) /\ UNCHANGED <<requests, advertised, bound>>
  BY DEF SurfaceEvent
<1>3. e \in Events /\ e.type = type /\ e.surface = s /\ e.output = o
  BY DEF Events
<1>4. events' = Append(events, e) /\ UNCHANGED <<outputs, named, tracker, dropped>>
  BY <1>2 DEF Send, clientVars
<1> HIDE DEF e
<1>5. TypeOK'
  <2>1. events' \in Seq(Events)
    BY <1>1, <1>3, <1>4
  <2>2. entered' \in [Surfaces -> SUBSET Outputs]
    BY <1>1
  <2> QED BY <1>2, <1>4, <2>1, <2>2 DEF IInv, TypeOK
<1>6. OneSlotEach' /\ NamesKnown'
  BY <1>4 DEF IInv, OneSlotEach, NamesKnown, Tracked
<1>7. Queued' /\ \A q \in Surfaces, p \in Outputs : Settled(q, p)' /\ LastSays(q, p)'
  <2>1. ASSUME NEW q \in Surfaces, NEW p \in Outputs
        PROVE  IF OfSurface(e, q, p) THEN e.type = "enter" <=> p \in entered'[q]
               ELSE p \in entered'[q] <=> p \in entered[q]
    <3>1. OfSurface(e, q, p) <=> q = s /\ p = o
      BY <1>3 DEF OfSurface
    <3> QED BY <3>1, <1>1, <1>3
  <2>2. \A k \in DOMAIN requests' : requests'[k] \in outputs
    BY <1>2 DEF IInv, Queued
  <2> QED BY <1>2, <1>3, <2>1, <2>2, Posted
<1> QED BY <1>5, <1>6, <1>7 DEF IInv

(* Every step keeps the invariant. *)
LEMMA OutputsStep == IInv /\ [Next]_vars => IInv'
<1> SUFFICES ASSUME IInv, [Next]_vars PROVE IInv'
  OBVIOUS
<1>1. CASE handle_global
  BY <1>1, GlobalKeeps
<1>2. CASE output_handle_geometry
  BY <1>2, GeometryKeeps
<1>3. CASE surface_handle_enter
  BY <1>3, EnterKeeps
<1>4. CASE surface_handle_leave
  BY <1>4, LeaveKeeps
<1>5. CASE ReceiveBind
  BY <1>5, BindKeeps
<1>6. ASSUME NEW o \in Outputs, Advertise(o) PROVE IInv'
  BY <1>6, AdvertiseKeeps
<1>7. ASSUME NEW o \in Outputs, NEW s \in Surfaces, Enter(s, o) PROVE IInv'
  BY <1>7, SurfaceEventKeeps DEF Enter
<1>8. ASSUME NEW o \in Outputs, NEW s \in Surfaces, Leave(s, o) PROVE IInv'
  BY <1>8, SurfaceEventKeeps DEF Leave
<1>9. CASE UNCHANGED vars
  BY <1>9 DEF vars, clientVars, compositorVars, IInv, TypeOK, OneSlotEach, NamesKnown, Queued,
              Settled, LastSays, Tracked
<1> QED BY <1>1, <1>2, <1>3, <1>4, <1>5, <1>6, <1>7, <1>8, <1>9 DEF Next

(* The inductive invariant: what is listed, named and bound, and what the queue
   still says of each surface and output (handle_global, output_handle_geometry,
   surface_handle_enter, surface_handle_leave). *)
THEOREM OutputsInvariant == Spec => []IInv
<1> QED BY OutputsStart, OutputsStep, PTL DEF Spec

(* Every variable has its type, and the compositor has seen bound what lies between
   what is named and what is listed (handle_global, output_handle_geometry). *)
THEOREM OutputsTyped == Spec => []TypeOK
<1>1. IInv => TypeOK
  BY DEF IInv
<1> QED BY <1>1, OutputsInvariant, PTL

(* However often an enter event is repeated, and however full the tracker is, no
   output takes a second slot (surface_handle_enter). *)
THEOREM SlotsAreSets == Spec => []OneSlotEach
<1>1. IInv => OneSlotEach
  BY DEF IInv
<1> QED BY <1>1, OutputsInvariant, PTL

(* The slots name the outputs a surface is on, by names that are known, for any
   number of slots and any plugging and moving (surface_handle_enter,
   surface_handle_leave, output_handle_geometry). *)
THEOREM OutputsTracked == Spec => []TracksOutputs
<1>1. IInv => TracksOutputs
  <2> SUFFICES ASSUME IInv, NEW s \in Surfaces
               PROVE  /\ Tracked(s) \subseteq named
                      /\ Pending(s) = {} => Tracked(s) = entered[s] \ dropped[s]
    BY DEF TracksOutputs
  <2>1. Tracked(s) \subseteq named
    BY DEF IInv, NamesKnown
  <2>2. ASSUME Pending(s) = {} PROVE Tracked(s) = entered[s] \ dropped[s]
    <3>1. Tracked(s) \subseteq Outputs /\ entered[s] \subseteq Outputs
      BY <2>1 DEF IInv, TypeOK
    <3>2. ASSUME NEW o \in Outputs PROVE o \in Tracked(s) <=> o \in entered[s] \ dropped[s]
      <4>1. \A k \in DOMAIN events : ~OfSurface(events[k], s, o)
        BY <2>2 DEF Pending, OfSurface
      <4>2. Settled(s, o)
        BY DEF IInv
      <4> QED BY <4>1, <4>2 DEF Settled
    <3> QED BY <3>1, <3>2
  <2> QED BY <2>1, <2>2
<1> QED BY <1>1, OutputsInvariant, PTL

-------------------------------------------------------------------------------
(* Empty trackers are empty sets. *)
LEMMA InitRefines == Init => Set!Init
<1> SUFFICES ASSUME Init PROVE Set!Init
  OBVIOUS
<1>1. \A s \in Surfaces : Tracked(s) = {}
  BY DEF Init, Tracked, Range
<1> QED BY <1>1 DEF Init, Set!Init

(* The instance counts as this module does. *)
LEMMA SameCardinality == \A S : Set!Cardinality(S) = Cardinality(S)
  BY Zenon DEF Set!Cardinality, Cardinality

(* surface_handle_enter adds to the set, repeats what is in it, or misses an
   output when the tracker is full. *)
LEMMA EnterRefines == IInv /\ surface_handle_enter => Set!Next
<1> SUFFICES ASSUME IInv, surface_handle_enter PROVE Set!Next
  OBVIOUS
<1> DEFINE on == [q \in Surfaces |-> Tracked(q)]
<1>0. PICK s, o : s = Head(events).surface /\ o = Head(events).output
  OBVIOUS
<1>1. /\ s \in Surfaces /\ o \in Outputs
      /\ tracker' \in [Surfaces -> Slots] /\ OneSlotEach'
      /\ \A q \in Surfaces \ {s} : Tracked(q)' = Tracked(q)
      /\ \/ /\ o \in Tracked(s)'
            /\ Tracked(s)' = Tracked(s) \cup {o}
            /\ dropped' = [dropped EXCEPT ![s] = @ \ {o}]
         \/ /\ o \notin Tracked(s) /\ tracker' = tracker
            /\ NULL \notin Range(tracker[s])
            /\ dropped' = [dropped EXCEPT ![s] = @ \cup {o}]
  BY <1>0, EnterChanges
<1>2. CASE /\ Tracked(s)' = Tracked(s) \cup {o}
           /\ dropped' = [dropped EXCEPT ![s] = @ \ {o}]
  <2>1. tracker'[s] \in Slots /\ NoTwice(tracker'[s]) /\ Tracked(s)' = Held(tracker'[s])
    BY <1>1 DEF OneSlotEach, NoTwice, Tracked, Held
  <2>2. Cardinality(Tracked(s) \cup {o}) <= OUTPUT_TRACKER_CAP
    BY <2>1, <1>2, SlotsBound
  <2>3. on' = [on EXCEPT ![s] = @ \cup {o}]
    BY <1>1, <1>2
  <2>4. on[s] = Tracked(s)
    BY <1>1
  <2> HIDE DEF on
  <2>5. Cardinality(on[s] \cup {o}) <= OUTPUT_TRACKER_CAP
    BY <2>2, <2>4
  <2>6. Set!Entered(s, o)
    BY <2>5, <2>3, <1>2, SameCardinality, Zenon DEF Set!Entered, on
  <2> QED BY <2>6, <1>1 DEF Set!Next
<1>3. CASE /\ o \notin Tracked(s) /\ tracker' = tracker
           /\ NULL \notin Range(tracker[s])
           /\ dropped' = [dropped EXCEPT ![s] = @ \cup {o}]
  <2>1. tracker[s] \in Slots /\ NoTwice(tracker[s]) /\ Tracked(s) = Held(tracker[s])
    BY <1>1 DEF IInv, TypeOK, Slots, OneSlotEach, NoTwice, Tracked, Held
  <2>2. IsFiniteSet(Tracked(s)) /\ Cardinality(Tracked(s)) = OUTPUT_TRACKER_CAP
    BY <2>1, <1>3, SlotsBound
  <2>3. Cardinality(Tracked(s) \cup {o}) = OUTPUT_TRACKER_CAP + 1
    BY <2>2, <1>3, FS_AddElement
  <2>4. Cardinality(Tracked(s) \cup {o}) > OUTPUT_TRACKER_CAP
    BY <2>3, SurfaceOutputsAssumption
  <2>5. on' = on /\ on[s] = Tracked(s)
    BY <1>1, <1>3 DEF Tracked
  <2> HIDE DEF on
  <2>6. Cardinality(on[s] \cup {o}) > OUTPUT_TRACKER_CAP
    BY <2>4, <2>5
  <2>7. Set!Missed(s, o)
    BY <2>5, <2>6, <1>3, SameCardinality, Zenon DEF Set!Missed, on
  <2> QED BY <2>7, <1>1 DEF Set!Next
<1> QED BY <1>1, <1>2, <1>3

(* surface_handle_leave takes the output from the set, if it is in it. *)
LEMMA LeaveRefines == IInv /\ surface_handle_leave => Set!Next
<1> SUFFICES ASSUME IInv, surface_handle_leave PROVE Set!Next
  OBVIOUS
<1> DEFINE on == [q \in Surfaces |-> Tracked(q)]
<1>0. PICK s, o : s = Head(events).surface /\ o = Head(events).output
  OBVIOUS
<1>1. /\ s \in Surfaces /\ o \in Outputs
      /\ \A q \in Surfaces \ {s} : Tracked(q)' = Tracked(q)
      /\ Tracked(s)' = Tracked(s) \ {o}
      /\ dropped' = [dropped EXCEPT ![s] = @ \ {o}]
  BY <1>0, LeaveChanges
<1>2. on' = [on EXCEPT ![s] = @ \ {o}]
  BY <1>1
<1> HIDE DEF on
<1>3. Set!Left(s, o)
  BY <1>1, <1>2 DEF Set!Left, on
<1> QED BY <1>1, <1>3 DEF Set!Next

(* Every other step leaves the set alone. *)
LEMMA OutputsRefine == IInv /\ [Next]_vars => [Set!Next]_<<[s \in Surfaces |-> Tracked(s)], dropped>>
<1> SUFFICES ASSUME IInv, [Next]_vars
             PROVE  [Set!Next]_<<[s \in Surfaces |-> Tracked(s)], dropped>>
  OBVIOUS
<1>1. CASE tracker' = tracker /\ dropped' = dropped
  BY <1>1 DEF Tracked
<1>2. CASE handle_global \/ output_handle_geometry
  BY <1>1, <1>2 DEF handle_global, output_handle_geometry
<1>3. CASE surface_handle_enter
  BY <1>3, EnterRefines
<1>4. CASE surface_handle_leave
  BY <1>4, LeaveRefines
<1>5. CASE ReceiveBind
  BY <1>1, <1>5 DEF ReceiveBind, Send, clientVars
<1>6. ASSUME NEW o \in Outputs, Advertise(o) PROVE tracker' = tracker /\ dropped' = dropped
  BY <1>6 DEF Advertise, Send, clientVars
<1>7. ASSUME NEW o \in Outputs, NEW s \in Surfaces, Enter(s, o) \/ Leave(s, o)
      PROVE  tracker' = tracker /\ dropped' = dropped
  BY <1>7 DEF Enter, Leave, SurfaceEvent, Send, clientVars
<1>8. CASE UNCHANGED vars
  BY <1>1, <1>8 DEF vars, clientVars
<1> QED BY <1>1, <1>2, <1>3, <1>4, <1>5, <1>6, <1>7, <1>8 DEF Next

(* The slots implement a set of outputs for each surface, whose members are dropped
   only when there are OUTPUT_TRACKER_CAP others (surface_handle_enter,
   surface_handle_leave). *)
THEOREM OutputRefinement == Spec => ImplementsOutputSet
<1> QED BY InitRefines, OutputsInvariant, OutputsRefine, PTL DEF Spec, ImplementsOutputSet, Set!Spec
================================================================================
