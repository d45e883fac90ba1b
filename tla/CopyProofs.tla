------------------------------ MODULE CopyProofs ------------------------------
(***************************************************************************)
(* First copy-fu's data source: the cancelled handler, which never looks   *)
(* at its argument, and the stealing mode, which never looks whether it    *)
(* still has a source, both get away with it, whatever the sockets hold.   *)
(*                                                                         *)
(* Then its transfers, for any number of descriptors, offers and types:    *)
(* the table of polled descriptors holds what is open and nothing else,    *)
(* a selection is received from its own offer, and nothing leaves the      *)
(* table that is not over.                                                 *)
(***************************************************************************)
EXTENDS CopySource, CopyTransfers, FiniteSetTheorems, WellFoundedInduction, TLAPS

(* No message of q is m. *)
Free(q, m) == \A j \in DOMAIN q : q[j] # m

(* Exactly one message of q is m, and those that are x come after it. *)
Marked(q, m, x) ==
  \E k \in DOMAIN q : /\ q[k] = m
                      /\ \A j \in DOMAIN q : /\ q[j] = m => j = k
                                             /\ q[j] = x => j > k

(* What is in a concatenation is in one of the parts. *)
LEMMA InConcat ==
  ASSUME NEW M, NEW q \in Seq(M), NEW t \in Seq(M)
  PROVE  /\ DOMAIN q \subseteq DOMAIN (q \o t)
         /\ \A j \in DOMAIN q : (q \o t)[j] = q[j]
         /\ \A j \in DOMAIN (q \o t) \ DOMAIN q : /\ j - Len(q) \in DOMAIN t
                                                  /\ (q \o t)[j] = t[j - Len(q)]
                                                  /\ \A k \in DOMAIN q : j > k
<1> DEFINE c == q \o t
<1>1. /\ Len(c) = Len(q) + Len(t) /\ Len(q) \in Nat /\ Len(t) \in Nat
      /\ DOMAIN q = 1 .. Len(q) /\ DOMAIN t = 1 .. Len(t) /\ DOMAIN c = 1 .. Len(c)
  OBVIOUS
<1>2. \A j \in 1 .. Len(c) : c[j] = IF j <= Len(q) THEN q[j] ELSE t[j - Len(q)]
  OBVIOUS
<1> HIDE DEF c
<1>3. /\ DOMAIN q \subseteq DOMAIN c
      /\ \A j \in DOMAIN q : c[j] = q[j]
      /\ \A j \in DOMAIN c \ DOMAIN q : /\ j - Len(q) \in DOMAIN t
                                        /\ c[j] = t[j - Len(q)]
                                        /\ \A k \in DOMAIN q : j > k
  BY <1>1, <1>2
<1> QED BY <1>3 DEF c

(* A tail has what follows the head, one place earlier. *)
LEMMA InTail ==
  ASSUME NEW M, NEW q \in Seq(M), q # <<>>
  PROVE  /\ Tail(q) \in Seq(M) /\ Head(q) \in M
         /\ 1 \in DOMAIN q /\ Head(q) = q[1]
         /\ \A j \in DOMAIN Tail(q) : j + 1 \in DOMAIN q /\ Tail(q)[j] = q[j + 1]
         /\ \A j \in DOMAIN q \ {1} : j - 1 \in DOMAIN Tail(q) /\ Tail(q)[j - 1] = q[j]
<1>1. /\ Len(q) \in Nat /\ Len(q) >= 1 /\ DOMAIN q = 1 .. Len(q)
      /\ Tail(q) \in Seq(M) /\ Head(q) = q[1]
  OBVIOUS
<1>2. /\ DOMAIN Tail(q) = 1 .. Len(q) - 1
      /\ \A j \in 1 .. Len(q) - 1 : Tail(q)[j] = q[j + 1]
  BY <1>1
<1>3. q[1] \in M
  BY <1>1
<1>4. \A j \in DOMAIN q \ {1} : j - 1 \in DOMAIN Tail(q) /\ Tail(q)[j - 1] = q[j]
  BY <1>1, <1>2
<1> QED BY <1>1, <1>2, <1>3, <1>4

(* Messages without m leave a queue free of it. *)
LEMMA FreeConcat ==
  ASSUME NEW M, NEW q \in Seq(M), NEW t \in Seq(M), NEW m, Free(q, m), Free(t, m)
  PROVE  Free(q \o t, m)
BY InConcat DEF Free

(* Handling a message does not bring another. *)
LEMMA FreeTail ==
  ASSUME NEW M, NEW q \in Seq(M), q # <<>>, NEW m, Free(q, m)
  PROVE  Free(Tail(q), m)
BY InTail DEF Free

(* What is sent later comes after the mark. *)
LEMMA MarkedConcat ==
  ASSUME NEW M, NEW q \in Seq(M), NEW t \in Seq(M), NEW m, NEW x,
         Marked(q, m, x), Free(t, m)
  PROVE  Marked(q \o t, m, x)
<1>1. PICK k \in DOMAIN q : /\ q[k] = m
                            /\ \A j \in DOMAIN q : /\ q[j] = m => j = k
                                                   /\ q[j] = x => j > k
  BY DEF Marked
<1> DEFINE c == q \o t
<1>2. /\ DOMAIN q \subseteq DOMAIN c
      /\ \A j \in DOMAIN q : c[j] = q[j]
      /\ \A j \in DOMAIN c \ DOMAIN q : /\ c[j] # m
                                        /\ j > k
  BY InConcat DEF Free
<1> HIDE DEF c
<1>3. Marked(c, m, x)
  <2>1. \A j \in DOMAIN c : /\ c[j] = m => j = k
                            /\ c[j] = x => j > k
    BY <1>1, <1>2
  <2> QED BY <1>1, <1>2, <2>1 DEF Marked
<1> QED BY <1>3 DEF c

(* A mark sent behind a queue without it and without x. *)
LEMMA MarkSent ==
  ASSUME NEW M, NEW q \in Seq(M), NEW m \in M, NEW x, m # x, Free(q, m), Free(q, x)
  PROVE  Marked(q \o <<m>>, m, x)
<1> DEFINE c == q \o <<m>>
           k == Len(q) + 1
<1>1. /\ k \in DOMAIN c /\ c[k] = m
      /\ \A j \in DOMAIN c : j # k => j \in DOMAIN q /\ c[j] = q[j]
  OBVIOUS
<1> HIDE DEF c, k
<1>2. \A j \in DOMAIN c : /\ c[j] = m => j = k
                          /\ c[j] = x => j > k
  BY <1>1 DEF Free
<1>3. Marked(c, m, x)
  BY <1>1, <1>2 DEF Marked
<1> QED BY <1>3 DEF c

(* Before the mark there is neither another mark nor x. *)
LEMMA MarkedTail ==
  ASSUME NEW M, NEW q \in Seq(M), q # <<>>, NEW m, NEW x, Marked(q, m, x), Head(q) # m
  PROVE  Head(q) # x /\ Marked(Tail(q), m, x)
<1>1. PICK k \in DOMAIN q : /\ q[k] = m
                            /\ \A j \in DOMAIN q : /\ q[j] = m => j = k
                                                   /\ q[j] = x => j > k
  BY DEF Marked
<1>2. /\ 1 \in DOMAIN q /\ Head(q) = q[1]
      /\ \A j \in DOMAIN Tail(q) : j + 1 \in DOMAIN q /\ Tail(q)[j] = q[j + 1]
      /\ \A j \in DOMAIN q \ {1} : j - 1 \in DOMAIN Tail(q) /\ Tail(q)[j - 1] = q[j]
      /\ Tail(q) \in Seq(M)
  BY InTail
<1>3. DOMAIN q \subseteq Nat \ {0} /\ DOMAIN Tail(q) \subseteq Nat
  BY <1>2
<1>4. k # 1 /\ k > 1
  BY <1>1, <1>2, <1>3
<1>5. Head(q) # x
  BY <1>1, <1>2, <1>4
<1> DEFINE t == Tail(q)
<1>6. k - 1 \in DOMAIN t /\ t[k - 1] = m
  BY <1>1, <1>2, <1>4
<1> HIDE DEF t
<1>7. \A j \in DOMAIN t : /\ t[j] = m => j = k - 1
                          /\ t[j] = x => j > k - 1
  BY <1>1, <1>2, <1>3 DEF t
<1>8. Marked(t, m, x)
  BY <1>6, <1>7 DEF Marked
<1> QED BY <1>5, <1>8 DEF t

(* With the mark handled there is no other. *)
LEMMA MarkTaken ==
  ASSUME NEW M, NEW q \in Seq(M), q # <<>>, NEW m, NEW x, Marked(q, m, x), Head(q) = m
  PROVE  Free(Tail(q), m)
<1>1. PICK k \in DOMAIN q : \A j \in DOMAIN q : q[j] = m => j = k
  BY DEF Marked
<1>2. /\ 1 \in DOMAIN q /\ Head(q) = q[1]
      /\ \A j \in DOMAIN Tail(q) : j + 1 \in DOMAIN q /\ Tail(q)[j] = q[j + 1]
      /\ Tail(q) \in Seq(M)
  BY InTail
<1>3. DOMAIN Tail(q) \subseteq Nat \ {0}
  BY <1>2
<1> QED BY <1>1, <1>2, <1>3 DEF Free

(* The mark has the same place before a message that is not there at all. *)
LEMMA MarkedAnew ==
  ASSUME NEW q, NEW m, NEW x, NEW y, Marked(q, m, x), Free(q, y)
  PROVE  Marked(q, m, y)
BY DEF Marked, Free

(* One mark is one, and none is none. *)
LEMMA Marks ==
  ASSUME NEW q, NEW m, NEW x
  PROVE  /\ Marked(q, m, x) => Cardinality({j \in DOMAIN q : q[j] = m}) = 1
         /\ Free(q, m) => Cardinality({j \in DOMAIN q : q[j] = m}) = 0
<1> DEFINE S == {j \in DOMAIN q : q[j] = m}
<1>1. ASSUME Marked(q, m, x) PROVE Cardinality(S) = 1
  <2>1. PICK k \in DOMAIN q : q[k] = m /\ \A j \in DOMAIN q : q[j] = m => j = k
    BY <1>1 DEF Marked
  <2>2. S = {k}
    BY <2>1
  <2> QED BY <2>2, FS_Singleton
<1>2. ASSUME Free(q, m) PROVE Cardinality(S) = 0
  <2>1. S = {}
    BY <1>2 DEF Free
  <2> QED BY <2>1, FS_EmptySet
<1> QED BY <1>1, <1>2

-------------------------------------------------------------------------------
(* The inductive invariant.  While an attempt is under way its source has not
   been heard of by anyone but the compositor, or its selection comes after the
   sync: nobody can cancel it before the answer. *)
Requests == [type : {"create", "destroy", "select"}, source : Sources] \cup {sync}

done == [type |-> "done"]
cancelled(s) == [type |-> "cancelled", source |-> s]

Events == [type : {"cancelled"}, source : Sources]
            \cup [type : {"button"}, pressed : BOOLEAN] \cup {done}

CopyType == /\ data_source \in Sources \cup {NULL}
            /\ steal_state \in {"READY", "WAITING", "DONE"}
            /\ requests \in Seq(Requests)
            /\ events \in Seq(Events)
            /\ selected \in Sources \cup {NULL}

(* The sync of the attempt with source s is on its way, or its answer is. *)
Asked(s) == /\ Marked(requests, sync, set_selection(s))
            /\ Free(events, done)
            /\ Free(events, cancelled(s))
            /\ selected # s

Told(s) == /\ Free(requests, sync)
           /\ Marked(events, done, cancelled(s))

Attempt == IF steal_state = "WAITING"
             THEN data_source # NULL /\ (Asked(data_source) \/ Told(data_source))
             ELSE Free(requests, sync) /\ Free(events, done)

CopyInv == /\ CopyType
           /\ live = {data_source} \ {NULL}
           /\ Attempt

(* What requests and events are and are not. *)
LEMMA Kinds ==
  /\ sync \in Requests /\ done \in Events
  /\ \A s \in Sources : /\ {create(s), destroy(s), set_selection(s)} \subseteq Requests
                        /\ create(s) # sync /\ destroy(s) # sync
                        /\ set_selection(s) # sync
                        /\ cancelled(s) \in Events /\ cancelled(s) # done
  /\ \A r, s \in Sources : /\ (set_selection(r) = set_selection(s)) => r = s
                           /\ (cancelled(r) = cancelled(s)) => r = s
  /\ \A r \in Requests : /\ r.type = "sync" <=> r = sync
                         /\ r.type = "select" => r.source \in Sources /\ r = set_selection(r.source)
  /\ \A e \in Events : /\ e.type = "done" <=> e = done
                       /\ e.type = "cancelled" => e.source \in Sources /\ e = cancelled(e.source)
BY DEF Requests, Events, sync, done, cancelled, create, destroy, set_selection

(* An unused source is in no queue. *)
LEMMA NewIsFree ==
  ASSUME CopyType, NEW s \in NewSources
  PROVE  /\ s \in Sources /\ s # selected
         /\ Free(requests, set_selection(s))
         /\ Free(events, cancelled(s))
<1>1. s \in Sources /\ s # selected /\ s \notin Mentioned(requests) /\ s \notin Mentioned(events)
  BY DEF NewSources
<1>2. Free(requests, set_selection(s))
  <2> SUFFICES ASSUME NEW j \in DOMAIN requests, requests[j] = set_selection(s)
               PROVE  FALSE
    BY DEF Free
  <2>1. requests[j].type = "select" /\ requests[j].source = s
    BY DEF set_selection
  <2> QED BY <1>1, <2>1 DEF Mentioned
<1>3. Free(events, cancelled(s))
  <2> SUFFICES ASSUME NEW j \in DOMAIN events, events[j] = cancelled(s)
               PROVE  FALSE
    BY DEF Free
  <2>1. events[j].type = "cancelled" /\ events[j].source = s
    BY DEF cancelled
  <2> QED BY <1>1, <2>1 DEF Mentioned
<1> QED BY <1>1, <1>2, <1>3

(* What is sent before the messages that go with a new source. *)
LEMMA ReplacedSent ==
  ASSUME CopyInv, NEW s \in NewSources
  PROVE  LET q == requests \o Replaced.sent \o <<create(s)>>
         IN  /\ q \in Seq(Requests)
             /\ Free(q, set_selection(s))
             /\ Free(requests, sync) => Free(q, sync)
             /\ \A x : Marked(requests, sync, x) => Marked(q, sync, x)
             /\ Replaced.live \cup {s} = {s}
<1> DEFINE r == Replaced.sent
           q == requests \o r
           c == <<create(s)>>
<1>1. /\ r \in Seq(Requests)
      /\ \A j \in DOMAIN r : r[j].type = "destroy"
  <2>1. CASE data_source = NULL
    BY <2>1 DEF Replaced
  <2>2. CASE data_source # NULL
    <3>1. destroy(data_source) \in Requests /\ destroy(data_source).type = "destroy"
      BY <2>2, Kinds DEF CopyInv, CopyType, destroy
    <3>2. r = <<destroy(data_source)>>
      BY <2>2 DEF Replaced
    <3> QED BY <3>1, <3>2
  <2> QED BY <2>1, <2>2
<1>2. /\ c \in Seq(Requests)
      /\ \A j \in DOMAIN c : c[j].type = "create"
  <2>1. create(s) \in Requests /\ create(s).type = "create"
    BY NewIsFree, Kinds DEF create, CopyInv
  <2> QED BY <2>1
<1>3. Free(r, sync) /\ Free(r, set_selection(s)) /\ Free(c, sync) /\ Free(c, set_selection(s))
  <2>1. sync.type = "sync" /\ set_selection(s).type = "select"
    BY DEF sync, set_selection
  <2> QED BY <1>1, <1>2, <2>1 DEF Free
<1> HIDE DEF r, c
<1>4. requests \in Seq(Requests) /\ Free(requests, set_selection(s))
  BY NewIsFree DEF CopyInv, CopyType
<1>5. /\ q \in Seq(Requests)
      /\ Free(q, set_selection(s))
      /\ Free(requests, sync) => Free(q, sync)
      /\ \A x : Marked(requests, sync, x) => Marked(q, sync, x)
  BY <1>1, <1>3, <1>4, FreeConcat, MarkedConcat
<1> HIDE DEF q
<1>6. /\ q \o c \in Seq(Requests)
      /\ Free(q \o c, set_selection(s))
      /\ Free(q, sync) => Free(q \o c, sync)
      /\ \A x : Marked(q, sync, x) => Marked(q \o c, sync, x)
  BY <1>2, <1>3, <1>5, FreeConcat, MarkedConcat
<1>7. Replaced.live \cup {s} = {s}
  BY DEF CopyInv, Replaced
<1> QED BY <1>5, <1>6, <1>7 DEF q, r, c

(* A new source for which other messages than a sync follow its creation. *)
LEMMA ReplacedQuietly ==
  ASSUME CopyInv, NEW s \in Sources, NEW msgs \in Seq(Requests), Free(msgs, sync),
         NewSource(s, msgs), UNCHANGED selected, steal_state' \in {"READY", "WAITING", "DONE"},
         (steal_state' = "WAITING") <=> (steal_state = "WAITING"),
         \/ UNCHANGED events
         \/ events # <<>> /\ events' = Tail(events) /\ Head(events) # done
  PROVE  CopyInv'
<1> DEFINE q == requests \o Replaced.sent \o <<create(s)>>
<1>0. s \in NewSources /\ data_source' = s /\ requests' = q \o msgs
      /\ live' = Replaced.live \cup {s}
  BY DEF NewSource
<1>1. /\ q \in Seq(Requests)
      /\ Free(requests, sync) => Free(q, sync)
      /\ \A x : Marked(requests, sync, x) => Marked(q, sync, x)
      /\ Free(q, set_selection(s))
      /\ live' = {s}
  BY <1>0, ReplacedSent
<1> HIDE DEF q
<1>2. /\ s # selected /\ s # NULL
      /\ Free(requests, set_selection(s)) /\ Free(events, cancelled(s))
  BY <1>0, NewIsFree, CopySourceAssumption DEF CopyInv
<1>3. events \in Seq(Events) /\ requests \in Seq(Requests) /\ selected \in Sources \cup {NULL}
  BY DEF CopyInv, CopyType
<1>4. /\ events' \in Seq(Events)
      /\ Free(events, done) => Free(events', done)
      /\ Free(events', cancelled(s))
      /\ Marked(events, done, cancelled(data_source)) => Marked(events', done, cancelled(s))
  <2>1. CASE UNCHANGED events
    BY <2>1, <1>2, <1>3, MarkedAnew
  <2>2. CASE events # <<>> /\ events' = Tail(events) /\ Head(events) # done
    <3>1. Tail(events) \in Seq(Events)
      BY <2>2, <1>3, InTail
    <3>2. /\ Free(events, done) => Free(events', done)
          /\ Free(events', cancelled(s))
      BY <2>2, <1>2, <1>3, FreeTail
    <3>3. Marked(events, done, cancelled(data_source)) =>
            Marked(events', done, cancelled(data_source))
      BY <2>2, <1>3, MarkedTail
    <3> QED BY <2>2, <3>1, <3>2, <3>3, MarkedAnew
  <2> QED BY <2>1, <2>2
<1>5. /\ requests' \in Seq(Requests)
      /\ Free(requests, sync) => Free(requests', sync)
      /\ Marked(requests, sync, set_selection(data_source)) =>
           Marked(requests', sync, set_selection(s))
  <2>1. q \o msgs \in Seq(Requests)
    BY <1>1
  <2>2. Free(requests, sync) => Free(q \o msgs, sync)
    BY <1>1, FreeConcat
  <2>3. ASSUME Marked(requests, sync, set_selection(data_source))
        PROVE  Marked(q \o msgs, sync, set_selection(s))
    <3>1. Marked(q, sync, set_selection(data_source))
      BY <2>3, <1>1
    <3>2. Marked(q, sync, set_selection(s))
      BY <3>1, <1>1, MarkedAnew
    <3> QED BY <3>2, <1>1, MarkedConcat
  <2> QED BY <2>1, <2>2, <2>3, <1>0
<1>6. CopyType'
  BY <1>0, <1>3, <1>4, <1>5 DEF CopyType
<1>7. live' = {data_source'} \ {NULL}
  BY <1>0, <1>1, <1>2
<1>8. Attempt'
  <2>1. CASE steal_state = "WAITING"
    <3>1. Asked(data_source) \/ Told(data_source)
      BY <2>1 DEF CopyInv, Attempt
    <3>2. ASSUME Asked(data_source) PROVE Asked(s)'
      BY <3>2, <1>2, <1>4, <1>5 DEF Asked
    <3>3. ASSUME Told(data_source) PROVE Told(s)'
      BY <3>3, <1>4, <1>5 DEF Told
    <3>4. Asked(data_source)' \/ Told(data_source)'
      BY <3>1, <3>2, <3>3, <1>0 DEF Asked, Told
    <3> QED BY <2>1, <3>4, <1>0, <1>2 DEF Attempt
  <2>2. CASE steal_state # "WAITING"
    BY <2>2, <1>4, <1>5 DEF CopyInv, Attempt
  <2> QED BY <2>1, <2>2
<1> QED BY <1>6, <1>7, <1>8 DEF CopyInv

(* An attempt begins: the sync comes behind everything about other sources. *)
LEMMA AttemptBegins ==
  ASSUME CopyInv, NEW s \in Sources, NewSource(s, <<sync>>), steal_state = "READY",
         steal_state' = "WAITING", UNCHANGED <<events, selected>>
  PROVE  CopyInv'
<1> DEFINE q == requests \o Replaced.sent \o <<create(s)>>
<1>0. s \in NewSources /\ data_source' = s /\ requests' = q \o <<sync>>
      /\ live' = Replaced.live \cup {s}
  BY DEF NewSource
<1>1. Free(requests, sync) /\ Free(events, done)
  BY DEF CopyInv, Attempt
<1>2. q \in Seq(Requests) /\ Free(q, sync) /\ Free(q, set_selection(s)) /\ live' = {s}
  BY <1>0, <1>1, ReplacedSent
<1> HIDE DEF q
<1>3. s # selected /\ s # NULL /\ Free(events, cancelled(s))
  BY <1>0, NewIsFree, CopySourceAssumption DEF CopyInv
<1>4. sync \in Requests /\ set_selection(s) # sync
  BY Kinds
<1>5. requests' \in Seq(Requests) /\ Marked(requests', sync, set_selection(s))
  <2>1. <<sync>> \in Seq(Requests)
    BY <1>4
  <2>2. q \o <<sync>> \in Seq(Requests)
    BY <2>1, <1>2
  <2> QED BY <2>2, <1>0, <1>2, <1>4, MarkSent
<1>6. CopyType'
  BY <1>0, <1>5 DEF CopyInv, CopyType
<1>7. Asked(data_source)'
  BY <1>0, <1>1, <1>3, <1>5 DEF Asked
<1> QED BY <1>0, <1>2, <1>3, <1>6, <1>7 DEF CopyInv, Attempt

(* A turn of the loop: the mode that tries a serial over and over sends no
   sync, the other one starts from READY. *)
LEMMA LoopKeeps == ASSUME CopyInv, Loop PROVE CopyInv'
<1>0. UNCHANGED <<events, selected>> /\ steal_state \in {"READY", "WAITING", "DONE"}
  BY DEF Loop, CopyInv, CopyType
<1>1. CASE StealNow /\ mode = "STEAL_SERIAL"
  <2>1. PICK s \in Sources : NewSource(s, [k \in 1 .. Tries |-> set_selection(s)])
    BY <1>1 DEF Loop
  <2> DEFINE msgs == [k \in 1 .. Tries |-> set_selection(s)]
  <2>2. set_selection(s) \in Requests /\ set_selection(s) # sync /\ Tries \in Nat
    BY Kinds, CopySourceAssumption
  <2>3. msgs \in Seq(Requests) /\ Free(msgs, sync)
    BY <2>2 DEF Free
  <2>4. steal_state' = Rearmed
    BY <1>1 DEF Loop
  <2> HIDE DEF msgs
  <2>5. NewSource(s, msgs)
    BY <2>1 DEF msgs
  <2> QED BY <1>0, <2>3, <2>4, <2>5, ReplacedQuietly DEF Rearmed
<1>2. CASE StealNow /\ mode # "STEAL_SERIAL"
  <2>1. mode = "STEAL_SYNC" /\ steal_state = "READY"
    BY <1>2 DEF StealNow
  <2>2. PICK s \in Sources : NewSource(s, <<sync>>)
    BY <1>2 DEF Loop
  <2>3. steal_state' = "WAITING"
    BY <1>2, <2>1 DEF Loop
  <2> QED BY <1>0, <2>1, <2>2, <2>3, AttemptBegins
<1>3. CASE ~StealNow
  <2>1. steal_state' = Rearmed /\ UNCHANGED <<data_source, live, requests>>
    BY <1>3 DEF Loop
  <2> QED BY <1>0, <2>1 DEF CopyInv, CopyType, Attempt, Asked, Told, Rearmed
<1> QED BY <1>1, <1>2, <1>3

(* An event other than the answer is handled. *)
LEMMA EventGone ==
  ASSUME CopyInv, events # <<>>, events' = Tail(events), Head(events) # done,
         UNCHANGED <<data_source, live, steal_state, requests, selected>>
  PROVE  CopyInv'
<1>1. events \in Seq(Events)
  BY DEF CopyInv, CopyType
<1>2. /\ events' \in Seq(Events)
      /\ \A m : Free(events, m) => Free(events', m)
      /\ \A x : Marked(events, done, x) => Marked(events', done, x)
  BY <1>1, InTail, FreeTail, MarkedTail
<1>3. Attempt'
  BY <1>2 DEF CopyInv, Attempt, Asked, Told
<1> QED BY <1>2, <1>3 DEF CopyInv, CopyType

(* A button event replaces the source or does nothing. *)
LEMMA ButtonKeeps == ASSUME CopyInv, pointer_handle_button PROVE CopyInv'
<1>1. events # <<>> /\ Head(events).type = "button" /\ events' = Tail(events)
      /\ UNCHANGED <<steal_state, selected>>
  BY DEF pointer_handle_button, Handle
<1>2. Head(events) # done
  BY <1>1 DEF done
<1>3. CASE Head(events).pressed
  <2>1. PICK s \in Sources : NewSource(s, <<set_selection(s)>>)
    BY <1>3 DEF pointer_handle_button
  <2>2. set_selection(s) \in Requests /\ set_selection(s) # sync
    BY Kinds
  <2>3. <<set_selection(s)>> \in Seq(Requests) /\ Free(<<set_selection(s)>>, sync)
    BY <2>2 DEF Free
  <2>4. steal_state \in {"READY", "WAITING", "DONE"}
    BY DEF CopyInv, CopyType
  <2> QED BY <1>1, <1>2, <2>1, <2>3, <2>4, ReplacedQuietly
<1>4. CASE ~Head(events).pressed
  BY <1>1, <1>2, <1>4, EventGone DEF pointer_handle_button
<1> QED BY <1>3, <1>4

(* A source is cancelled: it is the current one, and no attempt is under way. *)
LEMMA CancelKeeps == ASSUME CopyInv, data_source_cancelled PROVE CopyInv'
<1>1. events # <<>> /\ Head(events).type = "cancelled" /\ events' = Tail(events)
      /\ UNCHANGED <<steal_state, selected>>
  BY DEF data_source_cancelled, Handle
<1>2. events \in Seq(Events) /\ Head(events) \in Events /\ Tail(events) \in Seq(Events)
  BY <1>1, InTail DEF CopyInv, CopyType
<1>3. Head(events) = cancelled(Head(events).source) /\ Head(events) # done
  BY <1>1, <1>2, Kinds
<1>4. CASE Head(events).source \in live
  <2>1. Head(events).source = data_source /\ data_source # NULL /\ data_source \in Sources
    BY <1>4 DEF CopyInv, CopyType
  <2>2. steal_state # "WAITING"
    <3>1. ASSUME Asked(data_source) PROVE FALSE
      <4>1. Head(events) # cancelled(data_source)
        BY <1>1, <1>2, <3>1, InTail DEF Asked, Free
      <4> QED BY <4>1, <1>3, <2>1
    <3>2. ASSUME Told(data_source) PROVE FALSE
      <4>1. Head(events) # cancelled(data_source)
        BY <1>1, <1>2, <1>3, <3>2, MarkedTail DEF Told
      <4> QED BY <4>1, <1>3, <2>1
    <3> QED BY <3>1, <3>2 DEF CopyInv, Attempt
  <2>3. Free(requests, sync) /\ Free(Tail(events), done)
    BY <2>2, <1>1, <1>2, FreeTail DEF CopyInv, Attempt
  <2>4. live' = {} /\ data_source' = NULL /\ requests' = requests \o <<destroy(data_source)>>
    BY <1>4, <2>1 DEF data_source_cancelled, Delivered, Forgotten, Replaced, CopyInv
  <2>5. destroy(data_source) \in Requests /\ destroy(data_source) # sync
    BY <2>1, Kinds
  <2>6. requests' \in Seq(Requests) /\ Free(requests', sync)
    <3> DEFINE t == <<destroy(data_source)>>
    <3>1. t \in Seq(Requests) /\ Free(t, sync)
      BY <2>5 DEF Free
    <3> HIDE DEF t
    <3>2. requests' = requests \o t /\ requests \in Seq(Requests)
      BY <2>4 DEF t, CopyInv, CopyType
    <3> QED BY <3>1, <3>2, <2>3, FreeConcat
  <2> QED BY <1>1, <1>2, <2>2, <2>3, <2>4, <2>6 DEF CopyInv, CopyType, Attempt
<1>5. CASE Head(events).source \notin live
  BY <1>1, <1>3, <1>5, EventGone DEF data_source_cancelled, Delivered
<1> QED BY <1>4, <1>5

(* The answer to the sync comes while its source is there. *)
LEMMA DoneKeeps == ASSUME CopyInv, steal_done PROVE CopyInv'
<1>1. events # <<>> /\ Head(events).type = "done" /\ events' = Tail(events)
      /\ UNCHANGED <<data_source, live, selected>> /\ steal_state' = "DONE"
      /\ requests' = Append(requests, set_selection(data_source))
  BY DEF steal_done, Handle
<1>2. events \in Seq(Events) /\ Head(events) \in Events /\ Tail(events) \in Seq(Events)
      /\ 1 \in DOMAIN events /\ Head(events) = events[1]
  BY <1>1, InTail DEF CopyInv, CopyType
<1>3. Head(events) = done
  BY <1>1, <1>2, Kinds
<1>4. ~Free(events, done)
  BY <1>2, <1>3 DEF Free
<1>5. data_source # NULL /\ Told(data_source)
  BY <1>4 DEF CopyInv, Attempt, Asked
<1>6. Free(requests, sync) /\ Free(Tail(events), done)
  BY <1>1, <1>2, <1>3, <1>5, MarkTaken DEF Told
<1>7. set_selection(data_source) \in Requests /\ set_selection(data_source) # sync
  BY <1>5, Kinds DEF CopyInv, CopyType
<1>8. requests' \in Seq(Requests) /\ Free(requests', sync)
  BY <1>1, <1>6, <1>7 DEF Free, CopyInv, CopyType
<1> QED BY <1>1, <1>2, <1>6, <1>8 DEF CopyInv, CopyType, Attempt

(* What the compositor sends last arrives last. *)
LEMMA EventSent ==
  ASSUME CopyInv, NEW e \in Events, e # done
  PROVE  /\ Append(events, e) \in Seq(Events)
         /\ Free(events, done) => Free(Append(events, e), done)
         /\ \A x : Marked(events, done, x) => Marked(Append(events, e), done, x)
         /\ \A m : (Free(events, m) /\ e # m) => Free(Append(events, e), m)
<1> DEFINE t == <<e>>
<1>1. events \in Seq(Events) /\ t \in Seq(Events) /\ Append(events, e) = events \o t
  BY DEF CopyInv, CopyType
<1>2. \A m : e # m => Free(t, m)
  BY DEF Free
<1> HIDE DEF t
<1>3. events \o t \in Seq(Events)
  BY <1>1
<1>4. \A m : (Free(events, m) /\ e # m) => Free(events \o t, m)
  BY <1>1, <1>2, FreeConcat
<1>5. \A x : Marked(events, done, x) => Marked(events \o t, done, x)
  BY <1>1, <1>2, MarkedConcat
<1> QED BY <1>1, <1>3, <1>4, <1>5

(* The compositor reads a request other than the sync. *)
LEMMA RequestRead ==
  ASSUME CopyInv, requests # <<>>, Head(requests) # sync
  PROVE  /\ Tail(requests) \in Seq(Requests)
         /\ Free(requests, sync) => Free(Tail(requests), sync)
         /\ \A x : Marked(requests, sync, x) =>
                     Marked(Tail(requests), sync, x) /\ Head(requests) # x
BY InTail, FreeTail, MarkedTail DEF CopyInv, CopyType

(* A selection the compositor considers is not that of the source whose sync it
   has still to read; the one that loses it is told after the answer. *)
LEMMA SelectKeeps == ASSUME CopyInv, ReceiveSelect PROVE CopyInv'
<1>1. /\ requests # <<>> /\ Head(requests).type = "select" /\ requests' = Tail(requests)
      /\ UNCHANGED <<data_source, live, steal_state>>
      /\ requests \in Seq(Requests) /\ events \in Seq(Events)
  BY DEF ReceiveSelect, CompositorReceive, clientVars, CopyInv, CopyType
<1>2. Head(requests) \in Requests
  BY <1>1, InTail
<1>3. /\ Head(requests) = set_selection(Head(requests).source)
      /\ Head(requests).source \in Sources /\ Head(requests) # sync
  BY <1>1, <1>2, Kinds
<1>4. /\ requests' \in Seq(Requests)
      /\ Free(requests, sync) => Free(requests', sync)
      /\ \A x : Marked(requests, sync, x) => Marked(requests', sync, x) /\ Head(requests) # x
  BY <1>1, <1>3, RequestRead
<1>5. CASE UNCHANGED <<events, selected>>
  BY <1>1, <1>4, <1>5 DEF CopyInv, CopyType, Attempt, Asked, Told
<1>6. CASE selected' = Head(requests).source /\ events' = Cancel(selected)
  <2>1. /\ events' \in Seq(Events)
        /\ Free(events, done) => Free(events', done)
        /\ \A x : Marked(events, done, x) => Marked(events', done, x)
        /\ \A s \in Sources : (Free(events, cancelled(s)) /\ selected # s) =>
                                 Free(events', cancelled(s))
    <3>1. CASE selected = NULL
      BY <1>1, <1>6, <3>1 DEF Cancel
    <3>2. CASE selected # NULL
      <4>1. selected \in Sources
        BY <3>2 DEF CopyInv, CopyType
      <4>2. cancelled(selected) \in Events /\ cancelled(selected) # done
        BY <4>1, Kinds
      <4>3. events' = Append(events, cancelled(selected))
        BY <1>6, <3>2 DEF Cancel, cancelled
      <4>4. \A s \in Sources : selected # s => cancelled(selected) # cancelled(s)
        BY <4>1, Kinds
      <4> QED BY <4>2, <4>3, <4>4, EventSent
    <3> QED BY <3>1, <3>2
  <2>2. CopyType'
    BY <1>1, <1>3, <1>4, <1>6, <2>1 DEF CopyInv, CopyType
  <2>3. Attempt'
    <3>1. ASSUME data_source # NULL, Asked(data_source) PROVE Asked(data_source)'
      <4>1. data_source \in Sources
        BY <3>1 DEF CopyInv, CopyType
      <4>2. Head(requests) # set_selection(data_source)
        BY <1>4, <3>1 DEF Asked
      <4> QED BY <1>1, <1>3, <1>4, <1>6, <2>1, <3>1, <4>1, <4>2 DEF Asked
    <3>2. ASSUME Told(data_source) PROVE Told(data_source)'
      BY <1>1, <1>4, <2>1, <3>2 DEF Told
    <3> QED BY <1>1, <1>4, <2>1, <3>1, <3>2 DEF CopyInv, Attempt
  <2> QED BY <1>1, <2>2, <2>3 DEF CopyInv
<1>7. CASE selected = Head(requests).source /\ UNCHANGED <<events, selected>>
  BY <1>5, <1>7
<1> QED BY <1>5, <1>6, <1>7 DEF ReceiveSelect

(* The answer is sent behind everything else, and no cancellation of the source
   that waits for it is among that. *)
LEMMA SyncKeeps == ASSUME CopyInv, ReceiveSync PROVE CopyInv'
<1>1. /\ requests # <<>> /\ Head(requests).type = "sync" /\ requests' = Tail(requests)
      /\ events' = Append(events, done)
      /\ UNCHANGED <<data_source, live, steal_state, selected>>
      /\ requests \in Seq(Requests) /\ events \in Seq(Events)
  BY DEF ReceiveSync, CompositorReceive, clientVars, CopyInv, CopyType, done
<1>2. /\ Head(requests) \in Requests /\ Tail(requests) \in Seq(Requests)
      /\ 1 \in DOMAIN requests /\ Head(requests) = requests[1]
  BY <1>1, InTail
<1>3. Head(requests) = sync
  BY <1>1, <1>2, Kinds
<1>4. steal_state = "WAITING" /\ data_source # NULL /\ Asked(data_source)
  BY <1>2, <1>3 DEF CopyInv, Attempt, Told, Free
<1>5. data_source \in Sources
  BY <1>4 DEF CopyInv, CopyType
<1>6. done \in Events /\ done # cancelled(data_source)
  BY <1>5, Kinds
<1>7. Free(requests', sync)
  BY <1>1, <1>3, <1>4, MarkTaken DEF Asked
<1>8. events' \in Seq(Events) /\ Marked(events', done, cancelled(data_source))
  <2>1. events' = events \o <<done>> /\ events' \in Seq(Events)
    BY <1>1, <1>6
  <2> QED BY <2>1, <1>1, <1>4, <1>6, MarkSent DEF Asked
<1>9. Told(data_source)'
  BY <1>1, <1>7, <1>8 DEF Told
<1>10. CopyType'
  BY <1>1, <1>2, <1>8 DEF CopyInv, CopyType
<1> QED BY <1>1, <1>4, <1>9, <1>10 DEF CopyInv, Attempt

(* Creations and destructions only make the socket shorter. *)
LEMMA ObjectsKeep == ASSUME CopyInv, ReceiveCreate \/ ReceiveDestroy PROVE CopyInv'
<1>1. /\ requests # <<>> /\ Head(requests).type # "sync" /\ requests' = Tail(requests)
      /\ UNCHANGED <<data_source, live, steal_state, events>>
      /\ selected' \in {selected, NULL}
  BY DEF ReceiveCreate, ReceiveDestroy, CompositorReceive, clientVars
<1>2. Head(requests) # sync
  BY <1>1 DEF sync
<1>3. /\ requests' \in Seq(Requests)
      /\ Free(requests, sync) => Free(requests', sync)
      /\ \A x : Marked(requests, sync, x) => Marked(requests', sync, x)
  BY <1>1, <1>2, RequestRead
<1> QED BY <1>1, <1>3 DEF CopyInv, CopyType, Attempt, Asked, Told

(* The selection is lost to another client, or the user clicks. *)
LEMMA OthersKeep ==
  ASSUME CopyInv, SelectionLost \/ \E pressed \in BOOLEAN : Button(pressed) PROVE CopyInv'
<1>0. UNCHANGED <<data_source, live, steal_state, requests>>
  BY DEF SelectionLost, Button, clientVars
<1>1. CASE SelectionLost
  <2>1. selected # NULL /\ selected \in Sources /\ selected' = NULL
    BY <1>1 DEF SelectionLost, CopyInv, CopyType
  <2>2. events' = Append(events, cancelled(selected))
    BY <1>1, <2>1 DEF SelectionLost, Cancel, cancelled
  <2>3. /\ cancelled(selected) \in Events /\ cancelled(selected) # done
        /\ \A s \in Sources : selected # s => cancelled(selected) # cancelled(s)
    BY <2>1, Kinds
  <2>4. /\ events' \in Seq(Events)
        /\ Free(events, done) => Free(events', done)
        /\ \A x : Marked(events, done, x) => Marked(events', done, x)
        /\ \A s \in Sources : (Free(events, cancelled(s)) /\ selected # s) =>
                                 Free(events', cancelled(s))
    BY <2>2, <2>3, EventSent
  <2> QED BY <1>0, <2>1, <2>4 DEF CopyInv, CopyType, Attempt, Asked, Told
<1>2. ASSUME NEW pressed \in BOOLEAN, Button(pressed) PROVE CopyInv'
  <2> DEFINE e == [type |-> "button", pressed |-> pressed]
  <2>1. /\ e \in Events /\ e # done /\ \A s \in Sources : e # cancelled(s)
        /\ events' = Append(events, e) /\ UNCHANGED selected
    BY <1>2 DEF Button, Events, done, cancelled
  <2> HIDE DEF e
  <2>2. /\ events' \in Seq(Events)
        /\ Free(events, done) => Free(events', done)
        /\ \A x : Marked(events, done, x) => Marked(events', done, x)
        /\ \A s \in Sources : Free(events, cancelled(s)) => Free(events', cancelled(s))
    BY <2>1, EventSent
  <2> QED BY <1>0, <2>1, <2>2 DEF CopyInv, CopyType, Attempt, Asked, Told
<1> QED BY <1>1, <1>2

(* The invariant holds from the start and in every step. *)
THEOREM SourceInvariant == Spec => []CopyInv
<1>1. Init => CopyInv
  <2> SUFFICES ASSUME Init PROVE CopyInv
    OBVIOUS
  <2>1. requests = <<>> /\ events = <<>> /\ data_source = NULL /\ live = {}
        /\ steal_state = "READY" /\ selected = NULL
    BY DEF Init
  <2>2. requests \in Seq(Requests) /\ events \in Seq(Events)
    BY <2>1
  <2>3. Free(requests, sync) /\ Free(events, done)
    BY <2>1 DEF Free
  <2> QED BY <2>1, <2>2, <2>3 DEF CopyInv, CopyType, Attempt
<1>2. CopyInv /\ [Next]_vars => CopyInv'
  <2> SUFFICES ASSUME CopyInv, [Next]_vars PROVE CopyInv'
    OBVIOUS
  <2>1. CASE Dispatch
    BY <2>1, ButtonKeeps, CancelKeeps, DoneKeeps DEF Dispatch
  <2>2. CASE Loop
    BY <2>2, LoopKeeps
  <2>3. CASE CompositorReads
    BY <2>3, ObjectsKeep, SelectKeeps, SyncKeeps DEF CompositorReads
  <2>4. CASE SelectionLost \/ \E pressed \in BOOLEAN : Button(pressed)
    BY <2>4, OthersKeep
  <2>5. CASE UNCHANGED vars
    BY <2>5 DEF vars, clientVars, CopyInv, CopyType, Attempt, Asked, Told
  <2> QED BY <2>1, <2>2, <2>3, <2>4, <2>5 DEF Next
<1> QED BY <1>1, <1>2, PTL DEF Spec

(* The source the cancelled handler destroys without looking is the one that
   was cancelled. *)
THEOREM CancelsItsOwn == Spec => []CancelledIsCurrent
<1>1. CopyInv => CancelledIsCurrent
  BY DEF CopyInv, CancelledIsCurrent, Delivered
<1> QED BY <1>1, SourceInvariant, PTL

(* One sync is on its way while the client waits, none otherwise, and its
   answer finds a source whose serial can be tried. *)
THEOREM OneAtATime == Spec => []OneAttempt
<1>1. CopyInv => OneAttempt
  <2> SUFFICES ASSUME CopyInv PROVE OneAttempt
    OBVIOUS
  <2>1. requests \in Seq(Requests) /\ events \in Seq(Events)
    BY DEF CopyInv, CopyType
  <2>2. /\ \A j \in DOMAIN requests : requests[j].type = "sync" <=> requests[j] = sync
        /\ \A j \in DOMAIN events : events[j].type = "done" <=> events[j] = done
    BY <2>1, Kinds
  <2>3. /\ InFlight(requests, "sync") = {j \in DOMAIN requests : requests[j] = sync}
        /\ InFlight(events, "done") = {j \in DOMAIN events : events[j] = done}
    BY <2>2 DEF InFlight
  <2> DEFINE m == Cardinality(InFlight(requests, "sync"))
             n == Cardinality(InFlight(events, "done"))
  <2>4. /\ Free(requests, sync) => m = 0
        /\ \A x : Marked(requests, sync, x) => m = 1
        /\ Free(events, done) => n = 0
        /\ \A x : Marked(events, done, x) => n = 1
    BY <2>3, Marks
  <2> HIDE DEF m, n
  <2>5. m + n = (IF steal_state = "WAITING" THEN 1 ELSE 0)
    BY <2>4 DEF CopyInv, Attempt, Asked, Told
  <2>6. ASSUME events # <<>>, Head(events).type = "done" PROVE data_source # NULL
    <3>1. 1 \in DOMAIN events /\ Head(events) = events[1]
      BY <2>1, <2>6, InTail
    <3>2. ~Free(events, done)
      BY <2>2, <2>6, <3>1 DEF Free
    <3> QED BY <3>2 DEF CopyInv, Attempt
  <2> QED BY <2>5, <2>6 DEF OneAttempt, m, n
<1> QED BY <1>1, SourceInvariant, PTL

-------------------------------------------------------------------------------
(* A set of numbers has a smallest. *)
LEMMA Smallest ==
  ASSUME NEW T \in SUBSET Nat, T # {} PROVE \E x \in T : \A y \in T : x <= y
<1> DEFINE R == {p \in Nat \X Nat : p[1] < p[2]}
<1>1. IsWellFoundedOn(R, Nat)
  BY NatLessThanWellFounded DEF OpToRel
<1> HIDE DEF R
<1>2. PICK x \in T : \A y \in T : ~(<<y, x>> \in R)
  BY <1>1, WFMin
<1>3. ASSUME NEW y \in T, y < x PROVE FALSE
  <2>1. <<y, x>> \in Nat \X Nat /\ <<y, x>>[1] < <<y, x>>[2]
    BY <1>3
  <2>2. <<y, x>> \in R
    BY <2>1 DEF R
  <2> QED BY <1>2, <2>2
<1> QED BY <1>3

(* Induction over a set. *)
LEMMA Counting ==
  ASSUME NEW S, 0 \in S, \A n \in Nat : n \in S => n + 1 \in S
  PROVE  \A n \in Nat : n \in S
<1> DEFINE T == {n \in Nat : n \notin S}
<1> SUFFICES ASSUME T # {} PROVE FALSE
  OBVIOUS
<1>1. PICK x \in T : \A y \in T : x <= y
  BY Smallest
<1>2. x # 0 /\ x - 1 \in Nat /\ x - 1 \notin T
  BY <1>1
<1> QED BY <1>2

(* What Compacted does at ir, from what it has kept before. *)
Move(t, s, ir) == IF t[ir].refcount > 0 THEN Append(s, t[ir]) ELSE s

Moves(t, f, n) ==
  f = [ir \in 0 .. n |-> IF ir = 0 THEN <<>> ELSE Move(t, f[ir - 1], ir)]

(* The recursion has a solution. *)
LEMMA MovesDefined == ASSUME NEW t, Len(t) \in Nat PROVE \E f : Moves(t, f, Len(t))
<1> DEFINE S == {n \in Nat : \E f : Moves(t, f, n)}
<1>1. 0 \in S
  <2> DEFINE f == [ir \in 0 .. 0 |-> <<>>]
  <2>1. Moves(t, f, 0)
    BY DEF Moves
  <2> QED BY <2>1
<1>2. ASSUME NEW n \in Nat, n \in S PROVE n + 1 \in S
  <2> PICK f : Moves(t, f, n)
    BY <1>2
  <2>0. /\ DOMAIN f = 0 .. n
        /\ f[0] = <<>>
        /\ \A ir \in 1 .. n : f[ir] = Move(t, f[ir - 1], ir)
    BY DEF Moves
  <2> DEFINE g == [ir \in 0 .. n + 1 |-> IF ir <= n THEN f[ir] ELSE Move(t, f[n], ir)]
             h == [ir \in 0 .. n + 1 |-> IF ir = 0 THEN <<>> ELSE Move(t, g[ir - 1], ir)]
  <2>1. ASSUME NEW ir \in 0 .. n + 1 PROVE g[ir] = h[ir]
    <3>1. CASE ir = 0
      BY <2>0, <3>1
    <3>2. CASE ir \in 1 .. n
      <4>1. g[ir] = f[ir] /\ g[ir - 1] = f[ir - 1]
        BY <3>2
      <4> QED BY <2>0, <3>2, <4>1
    <3>3. CASE ir = n + 1
      <4>1. g[ir] = Move(t, f[n], ir) /\ g[ir - 1] = f[n]
        BY <3>3
      <4> QED BY <3>3, <4>1
    <3> QED BY <3>1, <3>2, <3>3
  <2>2. g = h
    BY <2>1
  <2>3. Moves(t, g, n + 1)
    BY <2>2 DEF Moves
  <2> QED BY <2>3
<1> HIDE DEF S
<1>3. Len(t) \in S
  BY <1>1, <1>2, Counting
<1> QED BY <1>3 DEF S

(* Compacted is what the moves end with. *)
LEMMA CompactedMoves ==
  ASSUME NEW t, Len(t) \in Nat
  PROVE  \E f : Moves(t, f, Len(t)) /\ Compacted(t) = f[Len(t)]
<1> DEFINE f == CHOOSE f : Moves(t, f, Len(t))
<1>1. Moves(t, f, Len(t))
  BY MovesDefined
<1>2. Compacted(t) = f[Len(t)]
  BY DEF Compacted, Moves, Move
<1> QED BY <1>1, <1>2

(* The entries that the moves up to n have kept. *)
Gathers(t, s, n) ==
  /\ s \in Seq(Polled)
  /\ \A m \in 1 .. Len(s) :
       \E k \in 1 .. n : s[m] = t[k] /\ t[k].refcount > 0
  /\ \A k \in 1 .. n : t[k].refcount > 0 => \E m \in 1 .. Len(s) : s[m] = t[k]
  /\ \A l, m \in 1 .. Len(s) : s[l].fd = s[m].fd => l = m
  /\ n > 0 /\ t[1].refcount > 0 => Len(s) > 0 /\ s[1] = t[1]

(* One more move. *)
LEMMA MoveGathers ==
  ASSUME NEW t \in Seq(Polled), \A j, k \in 1 .. Len(t) : t[j].fd = t[k].fd => j = k,
         NEW n \in Nat, n < Len(t), NEW s, Gathers(t, s, n)
  PROVE  Gathers(t, Move(t, s, n + 1), n + 1)
<1> DEFINE e == t[n + 1]
           r == Append(s, e)
<1>1. n + 1 \in 1 .. Len(t) /\ e \in Polled /\ s \in Seq(Polled) /\ Len(s) \in Nat
  BY DEF Gathers
<1>2. CASE e.refcount > 0
  <2>1. /\ r \in Seq(Polled) /\ Len(r) = Len(s) + 1
        /\ \A m \in 1 .. Len(s) : r[m] = s[m]
        /\ r[Len(s) + 1] = e
    BY <1>1
  <2> HIDE DEF r
  <2>2. \A m \in 1 .. Len(r) :
          \E k \in 1 .. n + 1 : r[m] = t[k] /\ t[k].refcount > 0
    <3> SUFFICES ASSUME NEW m \in 1 .. Len(r)
                 PROVE  \E k \in 1 .. n + 1 : r[m] = t[k] /\ t[k].refcount > 0
      OBVIOUS
    <3>1. CASE m = Len(s) + 1
      <4>1. r[m] = t[n + 1] /\ t[n + 1].refcount > 0 /\ n + 1 \in 1 .. n + 1
        BY <1>2, <2>1, <3>1
      <4> QED BY <4>1
    <3>2. CASE m # Len(s) + 1
      <4>1. m \in 1 .. Len(s) /\ r[m] = s[m]
        BY <1>1, <2>1, <3>2
      <4>2. PICK k \in 1 .. n : s[m] = t[k] /\ t[k].refcount > 0
        BY <4>1 DEF Gathers
      <4>3. k \in 1 .. n + 1
        OBVIOUS
      <4> QED BY <4>1, <4>2, <4>3
    <3> QED BY <3>1, <3>2
  <2>3. ASSUME NEW k \in 1 .. n + 1, t[k].refcount > 0
        PROVE  \E m \in 1 .. Len(r) : r[m] = t[k]
    <3>1. CASE k = n + 1
      <4>1. Len(s) + 1 \in 1 .. Len(r)
        BY <1>1, <2>1
      <4> QED BY <2>1, <3>1, <4>1
    <3>2. CASE k # n + 1
      <4>1. k \in 1 .. n
        BY <3>2
      <4>2. PICK m \in 1 .. Len(s) : s[m] = t[k]
        BY <2>3, <4>1 DEF Gathers
      <4>3. m \in 1 .. Len(r) /\ r[m] = t[k]
        BY <1>1, <2>1, <4>2
      <4> QED BY <4>3
    <3> QED BY <3>1, <3>2
  <2>4. ASSUME NEW m \in 1 .. Len(s) PROVE r[m].fd # e.fd
    <3>1. PICK k \in 1 .. n : s[m] = t[k]
      BY DEF Gathers
    <3>2. k \in 1 .. Len(t) /\ k # n + 1
      OBVIOUS
    <3>3. t[k].fd # t[n + 1].fd
      BY <1>1, <3>2
    <3> QED BY <2>1, <3>1, <3>3
  <2>5. ASSUME NEW l \in 1 .. Len(r), NEW m \in 1 .. Len(r), r[l].fd = r[m].fd
        PROVE  l = m
    <3>1. CASE l \in 1 .. Len(s) /\ m \in 1 .. Len(s)
      BY <2>1, <2>5, <3>1 DEF Gathers
    <3>2. CASE l = Len(s) + 1 /\ m \in 1 .. Len(s)
      BY <2>1, <2>4, <2>5, <3>2
    <3>3. CASE l \in 1 .. Len(s) /\ m = Len(s) + 1
      BY <2>1, <2>4, <2>5, <3>3
    <3>4. CASE l = Len(s) + 1 /\ m = Len(s) + 1
      BY <3>4
    <3>5. l \in 1 .. Len(s) \/ l = Len(s) + 1
      BY <1>1, <2>1
    <3>6. m \in 1 .. Len(s) \/ m = Len(s) + 1
      BY <1>1, <2>1
    <3> QED BY <3>1, <3>2, <3>3, <3>4, <3>5, <3>6
  <2>6. t[1].refcount > 0 => Len(r) > 0 /\ r[1] = t[1]
    <3>1. CASE n = 0
      <4>1. Len(s) = 0
        BY <1>1, <3>1 DEF Gathers
      <4> QED BY <1>1, <2>1, <3>1, <4>1
    <3>2. CASE n > 0
      BY <1>1, <2>1, <3>2 DEF Gathers
    <3> QED BY <3>1, <3>2
  <2>7. Gathers(t, r, n + 1)
    BY <2>1, <2>2, <2>3, <2>5, <2>6 DEF Gathers
  <2> QED BY <1>2, <2>7 DEF Move, r
<1>3. CASE ~(e.refcount > 0)
  <2>1. \A k \in 1 .. n + 1 : t[k].refcount > 0 => k \in 1 .. n
    BY <1>3
  <2>2. n = 0 => ~(t[1].refcount > 0)
    BY <1>3
  <2>3. \A m \in 1 .. Len(s) :
          \E k \in 1 .. n + 1 : s[m] = t[k] /\ t[k].refcount > 0
    BY DEF Gathers
  <2>4. \A k \in 1 .. n + 1 : t[k].refcount > 0 => \E m \in 1 .. Len(s) : s[m] = t[k]
    BY <2>1 DEF Gathers
  <2>5. t[1].refcount > 0 => Len(s) > 0 /\ s[1] = t[1]
    BY <2>2 DEF Gathers
  <2>6. Gathers(t, s, n + 1)
    BY <2>3, <2>4, <2>5 DEF Gathers
  <2> QED BY <1>3, <2>6 DEF Move
<1> QED BY <1>2, <1>3

(* What remove_done_fds leaves: each entry with references, once, the display's *)
(* still the first.                                                            *)
LEMMA CompactedGathers ==
  ASSUME NEW t \in Seq(Polled), \A j, k \in 1 .. Len(t) : t[j].fd = t[k].fd => j = k
  PROVE  Gathers(t, Compacted(t), Len(t))
<1>1. PICK f : Moves(t, f, Len(t)) /\ Compacted(t) = f[Len(t)]
  BY CompactedMoves
<1>2. /\ f[0] = <<>>
      /\ \A ir \in 1 .. Len(t) : f[ir] = Move(t, f[ir - 1], ir)
  <2>1. /\ DOMAIN f = 0 .. Len(t)
        /\ \A ir \in 0 .. Len(t) : f[ir] = IF ir = 0 THEN <<>> ELSE Move(t, f[ir - 1], ir)
    BY <1>1 DEF Moves
  <2> QED BY <2>1
<1> DEFINE S == {n \in Nat : n <= Len(t) => Gathers(t, f[n], n)}
<1>3. 0 \in S
  <2>1. Gathers(t, <<>>, 0)
    BY DEF Gathers
  <2> QED BY <1>2, <2>1
<1>4. ASSUME NEW n \in Nat, n \in S PROVE n + 1 \in S
  <2> SUFFICES ASSUME n < Len(t) PROVE Gathers(t, f[n + 1], n + 1)
    OBVIOUS
  <2>1. Gathers(t, f[n], n)
    BY <1>4
  <2>2. f[n + 1] = Move(t, f[n], n + 1)
    BY <1>2
  <2> QED BY <2>1, <2>2, MoveGathers
<1> HIDE DEF S
<1>5. Len(t) \in S
  BY <1>3, <1>4, Counting
<1> QED BY <1>1, <1>5 DEF S

-------------------------------------------------------------------------------
DataOffers == [type : {"data_offer"}, offer : Offers]
Mimes      == [type : {"offer"}, mime : Types]
Selections == [type : {"selection"}, offer : Offers \cup {NULL}, mimes : Seq(Types)]
Sends      == [type : {"send"}, fd : Fds]
Tidings    == DataOffers \cup Mimes \cup Selections \cup Sends

send(fd) == [type |-> "send", fd |-> fd]

(* A table t whose transfers are among the descriptors o. *)
Sound(t, o) ==
  /\ t \in Seq(Polled)
  /\ Len(t) > 0 /\ t[1] = DisplayEntry
  /\ \A k \in 2 .. Len(t) : t[k].fd \in o /\ t[k].recv = ~t[k].send
  /\ \A k \in 1 .. Len(t) : t[k].refcount = 1
  /\ \A j, k \in 1 .. Len(t) : t[j].fd = t[k].fd => j = k

(* The descriptors that come with events in q are among o, each comes once, and
   none is in t. *)
Awaited(q, t, o) ==
  \A k \in 1 .. Len(q) : q[k] \in Sends =>
    /\ q[k].fd \in o
    /\ \A j \in 1 .. Len(t) : t[j].fd # q[k].fd
    /\ \A j \in 1 .. Len(q) : q[j] = q[k] => j = k

(* A descriptor is in the table or on its way to it. *)
Traced(fd, t, q) == \/ \E k \in 2 .. Len(t) : t[k].fd = fd
                    \/ \E k \in 1 .. Len(q) : q[k] = send(fd)

TableInv == /\ open \subseteq Fds
            /\ events \in Seq(Tidings)
            /\ Sound(fd_set, open)
            /\ Awaited(events, fd_set, open)
            /\ mode # "RECV_FILE" => \A fd \in open : Traced(fd, fd_set, events)

(* What the types of events tell apart. *)
LEMMA TransferKinds ==
  ASSUME NEW e \in Tidings
  PROVE  /\ e.type = "data_offer" <=> e \in DataOffers
         /\ e.type = "offer" <=> e \in Mimes
         /\ e.type = "selection" <=> e \in Selections
         /\ e.type = "send" <=> e \in Sends
         /\ e \in Sends => e.fd \in Fds /\ e = send(e.fd)
         /\ e \notin Sends => \A fd : e # send(fd)
BY DEF Tidings, DataOffers, Mimes, Selections, Sends, send

(* A descriptor on its way is an event of its own. *)
LEMMA SendKinds == \A fd \in Fds : send(fd) \in Sends /\ send(fd) \in Tidings
                                   /\ send(fd).fd = fd
BY DEF Tidings, Sends, send

(* More transfers at the end of the table. *)
LEMMA SoundConcat ==
  ASSUME NEW t, NEW o, NEW p, NEW s \in Seq(Polled), Sound(t, o), o \subseteq p,
         \A k \in 1 .. Len(s) : /\ s[k].refcount = 1 /\ s[k].recv = ~s[k].send
                                /\ s[k].fd \in p
                                /\ \A j \in 1 .. Len(t) : t[j].fd # s[k].fd,
         \A j, k \in 1 .. Len(s) : s[j].fd = s[k].fd => j = k
  PROVE  Sound(t \o s, p)
<1> DEFINE c == t \o s
           n == Len(t)
<1>1. /\ t \in Seq(Polled) /\ n \in Nat /\ n > 0 /\ Len(s) \in Nat
      /\ c \in Seq(Polled) /\ Len(c) = n + Len(s)
      /\ \A k \in 1 .. n : c[k] = t[k]
      /\ \A k \in n + 1 .. Len(c) : c[k] = s[k - n] /\ k - n \in 1 .. Len(s)
  BY DEF Sound
<1> HIDE DEF c, n
<1>2. c[1] = DisplayEntry
  BY <1>1 DEF Sound, n
<1>3. ASSUME NEW k \in 2 .. Len(c) PROVE c[k].fd \in p /\ c[k].recv = ~c[k].send
  <2>1. CASE k \in 2 .. n
    BY <1>1, <2>1 DEF Sound, n
  <2>2. CASE k \in n + 1 .. Len(c)
    BY <1>1, <2>2
  <2> QED BY <1>1, <2>1, <2>2
<1>4. ASSUME NEW k \in 1 .. Len(c) PROVE c[k].refcount = 1
  <2>1. CASE k \in 1 .. n
    BY <1>1, <2>1 DEF Sound, n
  <2>2. CASE k \in n + 1 .. Len(c)
    BY <1>1, <2>2
  <2> QED BY <1>1, <2>1, <2>2
<1>5. ASSUME NEW j \in 1 .. Len(c), NEW k \in 1 .. Len(c), c[j].fd = c[k].fd PROVE j = k
  <2>1. CASE j \in 1 .. n /\ k \in 1 .. n
    BY <1>1, <1>5, <2>1 DEF Sound, n
  <2>2. CASE j \in n + 1 .. Len(c) /\ k \in n + 1 .. Len(c)
    <3>1. /\ j - n \in 1 .. Len(s) /\ k - n \in 1 .. Len(s)
          /\ s[j - n].fd = s[k - n].fd
      BY <1>1, <1>5, <2>2
    <3>2. j - n = k - n
      BY <3>1
    <3> QED BY <1>1, <2>2, <3>2
  <2>3. CASE j \in 1 .. n /\ k \in n + 1 .. Len(c)
    <3>1. k - n \in 1 .. Len(s) /\ t[j].fd = s[k - n].fd
      BY <1>1, <1>5, <2>3
    <3> QED BY <2>3, <3>1 DEF n
  <2>4. CASE j \in n + 1 .. Len(c) /\ k \in 1 .. n
    <3>1. j - n \in 1 .. Len(s) /\ t[k].fd = s[j - n].fd
      BY <1>1, <1>5, <2>4
    <3> QED BY <2>4, <3>1 DEF n
  <2> QED BY <1>1, <2>1, <2>2, <2>3, <2>4
<1>6. Len(c) > 0
  BY <1>1
<1>7. Sound(c, p)
  BY <1>1, <1>2, <1>3, <1>4, <1>5, <1>6 DEF Sound
<1> QED BY <1>7 DEF c

(* An entry is one more transfer. *)
LEMMA SoundAppend ==
  ASSUME NEW t, NEW o \in SUBSET Fds, NEW fd \in o, NEW d \in BOOLEAN, Sound(t, o),
         \A j \in 1 .. Len(t) : t[j].fd # fd
  PROVE  /\ Append(t, polled(fd, d)) = t \o <<polled(fd, d)>>
         /\ Sound(Append(t, polled(fd, d)), o)
<1> DEFINE e == polled(fd, d)
           s == <<e>>
<1>1. e \in Polled /\ e.fd = fd /\ e.refcount = 1 /\ e.recv = ~e.send
  BY DEF polled, Polled
<1> HIDE DEF e
<1>2. s \in Seq(Polled) /\ Len(s) = 1 /\ s[1] = e
  BY <1>1
<1>3. t \in Seq(Polled)
  BY DEF Sound
<1>4. Append(t, e) = t \o s
  <2>1. /\ Append(t, e) \in Seq(Polled) /\ t \o s \in Seq(Polled)
        /\ Len(Append(t, e)) = Len(t \o s)
    BY <1>1, <1>2, <1>3
  <2>2. \A k \in 1 .. Len(t) + 1 : Append(t, e)[k] = (t \o s)[k]
    BY <1>1, <1>2, <1>3
  <2> QED BY <1>1, <1>3, <2>1, <2>2
<1> HIDE DEF s
<1>5. Sound(t \o s, o)
  BY <1>1, <1>2, SoundConcat
<1> QED BY <1>4, <1>5 DEF e, s

(* The queue without its head. *)
LEMMA AwaitedTail ==
  ASSUME NEW q \in Seq(Tidings), q # <<>>, NEW t, NEW o, Awaited(q, t, o)
  PROVE  /\ Awaited(Tail(q), t, o)
         /\ Head(q) \in Sends =>
              \A k \in 1 .. Len(Tail(q)) : Tail(q)[k] # Head(q)
         /\ \A fd \in Fds : (\E k \in 1 .. Len(q) : q[k] = send(fd)) =>
               \/ Head(q) = send(fd)
               \/ \E k \in 1 .. Len(Tail(q)) : Tail(q)[k] = send(fd)
<1> DEFINE r == Tail(q)
<1>1. /\ Len(q) \in Nat /\ DOMAIN q = 1 .. Len(q) /\ DOMAIN r = 1 .. Len(r)
      /\ 1 \in DOMAIN q /\ Head(q) = q[1]
      /\ \A j \in DOMAIN r : j + 1 \in DOMAIN q /\ r[j] = q[j + 1]
      /\ \A j \in DOMAIN q \ {1} : j - 1 \in DOMAIN r /\ r[j - 1] = q[j]
  BY InTail
<1> HIDE DEF r
<1>2. ASSUME NEW k \in 1 .. Len(r), r[k] \in Sends
      PROVE  /\ r[k].fd \in o
             /\ \A j \in 1 .. Len(t) : t[j].fd # r[k].fd
             /\ \A j \in 1 .. Len(r) : r[j] = r[k] => j = k
  <2>1. k + 1 \in 1 .. Len(q) /\ r[k] = q[k + 1]
    BY <1>1
  <2>2. ASSUME NEW j \in 1 .. Len(r), r[j] = r[k] PROVE j = k
    <3>1. j + 1 \in 1 .. Len(q) /\ q[j + 1] = q[k + 1]
      BY <1>1, <2>1, <2>2
    <3>2. j + 1 = k + 1
      BY <1>2, <2>1, <3>1 DEF Awaited
    <3> QED BY <3>2
  <2> QED BY <1>2, <2>1, <2>2 DEF Awaited
<1>3. Awaited(r, t, o)
  BY <1>2 DEF Awaited
<1>4. ASSUME Head(q) \in Sends, NEW k \in 1 .. Len(r) PROVE r[k] # Head(q)
  <2>1. k + 1 \in 1 .. Len(q) /\ r[k] = q[k + 1] /\ k + 1 # 1
    BY <1>1
  <2> QED BY <1>1, <1>4, <2>1 DEF Awaited
<1>5. \A fd \in Fds : (\E k \in 1 .. Len(q) : q[k] = send(fd)) =>
               \/ Head(q) = send(fd)
               \/ \E k \in 1 .. Len(r) : r[k] = send(fd)
  BY <1>1
<1> QED BY <1>3, <1>4, <1>5 DEF r

(* More events, about descriptors that are not among o yet. *)
LEMMA AwaitedConcat ==
  ASSUME NEW q \in Seq(Tidings), NEW s \in Seq(Tidings), NEW t, NEW o, NEW p, o \subseteq p,
         Awaited(q, t, o),
         \A k \in 1 .. Len(s) : s[k] \in Sends =>
           /\ s[k].fd \in p \ o
           /\ \A j \in 1 .. Len(t) : t[j].fd # s[k].fd
           /\ \A j \in 1 .. Len(s) : s[j] = s[k] => j = k
  PROVE  /\ Awaited(q \o s, t, p)
         /\ \A k \in 1 .. Len(q) : k \in 1 .. Len(q \o s) /\ (q \o s)[k] = q[k]
         /\ \A k \in 1 .. Len(s) : \E l \in 1 .. Len(q \o s) : (q \o s)[l] = s[k]
<1> DEFINE c == q \o s
           n == Len(q)
<1>1. /\ n \in Nat /\ Len(s) \in Nat
      /\ Len(c) = n + Len(s)
      /\ \A k \in 1 .. n : c[k] = q[k]
      /\ \A k \in n + 1 .. Len(c) : c[k] = s[k - n] /\ k - n \in 1 .. Len(s)
      /\ \A k \in 1 .. Len(s) : n + k \in 1 .. Len(c) /\ c[n + k] = s[k]
  OBVIOUS
<1> HIDE DEF c, n
<1>2. ASSUME NEW k \in 1 .. Len(c), c[k] \in Sends
      PROVE  /\ c[k].fd \in p
             /\ \A j \in 1 .. Len(t) : t[j].fd # c[k].fd
             /\ \A j \in 1 .. Len(c) : c[j] = c[k] => j = k
  <2>1. CASE k \in 1 .. n
    <3>1. c[k] = q[k] /\ q[k].fd \in o /\ \A j \in 1 .. Len(t) : t[j].fd # c[k].fd
      BY <1>1, <1>2, <2>1 DEF Awaited, n
    <3>2. ASSUME NEW j \in 1 .. Len(c), c[j] = c[k] PROVE j = k
      <4>1. CASE j \in 1 .. n
        BY <1>1, <1>2, <2>1, <3>2, <4>1 DEF Awaited, n
      <4>2. CASE j \in n + 1 .. Len(c)
        <5>1. s[j - n] \in Sends /\ s[j - n].fd \in o /\ j - n \in 1 .. Len(s)
          BY <1>1, <1>2, <3>1, <3>2, <4>2
        <5> QED BY <5>1
      <4> QED BY <1>1, <4>1, <4>2
    <3> QED BY <3>1, <3>2
  <2>2. CASE k \in n + 1 .. Len(c)
    <3>1. /\ c[k] = s[k - n] /\ k - n \in 1 .. Len(s)
          /\ c[k].fd \in p \ o
          /\ \A j \in 1 .. Len(t) : t[j].fd # c[k].fd
          /\ \A j \in 1 .. Len(s) : s[j] = c[k] => j = k - n
      <4>1. c[k] = s[k - n] /\ k - n \in 1 .. Len(s)
        BY <1>1, <2>2
      <4> QED BY <1>2, <4>1
    <3>2. ASSUME NEW j \in 1 .. Len(c), c[j] = c[k] PROVE j = k
      <4>1. CASE j \in 1 .. n
        <5>1. q[j] = c[k]
          BY <1>1, <3>2, <4>1
        <5>2. c[k].fd \in o
          BY <1>2, <4>1, <5>1 DEF Awaited, n
        <5> QED BY <3>1, <5>2
      <4>2. CASE j \in n + 1 .. Len(c)
        <5>1. s[j - n] = c[k] /\ j - n \in 1 .. Len(s)
          BY <1>1, <3>2, <4>2
        <5>2. j - n = k - n
          BY <3>1, <5>1
        <5> QED BY <1>1, <2>2, <4>2, <5>2
      <4> QED BY <1>1, <4>1, <4>2
    <3> QED BY <3>1, <3>2
  <2> QED BY <1>1, <2>1, <2>2
<1>3. Awaited(c, t, p)
  BY <1>2 DEF Awaited
<1>4. \A k \in 1 .. n : k \in 1 .. Len(c) /\ c[k] = q[k]
  BY <1>1
<1>5. \A k \in 1 .. Len(s) : \E l \in 1 .. Len(c) : c[l] = s[k]
  BY <1>1
<1> QED BY <1>3, <1>4, <1>5 DEF c, n

(* The steps that leave the table alone and add no descriptor to the queue. *)
LEMMA TableQuiet ==
  ASSUME TableInv, UNCHANGED <<mode, fd_set, open>>,
         \/ /\ events # <<>>
            /\ Head(events) \notin Sends
            /\ events' = Tail(events)
         \/ \E msgs \in Seq(Tidings \ Sends) : events' = events \o msgs
         \/ UNCHANGED events
  PROVE  TableInv'
<1>1. CASE events # <<>> /\ Head(events) \notin Sends /\ events' = Tail(events)
  <2>1. Tail(events) \in Seq(Tidings)
    BY <1>1, InTail DEF TableInv
  <2>2. Awaited(Tail(events), fd_set, open)
    BY <1>1, AwaitedTail DEF TableInv
  <2>3. \A fd \in open : Traced(fd, fd_set, events) => Traced(fd, fd_set, Tail(events))
    <3>1. \A fd \in Fds : (\E k \in 1 .. Len(events) : events[k] = send(fd)) =>
               \/ Head(events) = send(fd)
               \/ \E k \in 1 .. Len(Tail(events)) : Tail(events)[k] = send(fd)
      BY <1>1, AwaitedTail DEF TableInv
    <3> QED BY <1>1, <3>1, SendKinds DEF Traced, TableInv
  <2> QED BY <1>1, <2>1, <2>2, <2>3 DEF TableInv
<1>2. CASE \E msgs \in Seq(Tidings \ Sends) : events' = events \o msgs
  <2> PICK msgs \in Seq(Tidings \ Sends) : events' = events \o msgs
    BY <1>2
  <2>1. msgs \in Seq(Tidings) /\ \A k \in 1 .. Len(msgs) : msgs[k] \notin Sends
    OBVIOUS
  <2>2. /\ Awaited(events \o msgs, fd_set, open)
        /\ \A k \in 1 .. Len(events) : k \in 1 .. Len(events \o msgs)
                                        /\ (events \o msgs)[k] = events[k]
    BY <2>1, AwaitedConcat DEF TableInv
  <2>3. events \o msgs \in Seq(Tidings)
    BY <2>1 DEF TableInv
  <2>4. \A fd \in open : Traced(fd, fd_set, events) => Traced(fd, fd_set, events \o msgs)
    BY <2>2 DEF Traced
  <2> QED BY <2>2, <2>3, <2>4 DEF TableInv
<1>3. CASE UNCHANGED events
  BY <1>3 DEF TableInv
<1> QED BY <1>1, <1>2, <1>3
(* The handler of send: what was on its way is polled now. *)
LEMMA SendTaken == TableInv /\ data_source_send => TableInv'
<1> SUFFICES ASSUME TableInv, data_source_send PROVE TableInv'
  OBVIOUS
<1> DEFINE e == Head(events)
           q == Tail(events)
           t == Append(fd_set, polled(e.fd, TRUE))
<1>1. /\ events # <<>> /\ e.type = "send" /\ events' = q
      /\ fd_set' = t /\ UNCHANGED <<mode, open>>
  BY DEF data_source_send, HandleAlive, Handle
<1>2. /\ e \in Tidings /\ q \in Seq(Tidings) /\ 1 \in 1 .. Len(events) /\ e = events[1]
  BY <1>1, InTail DEF TableInv
<1>3. e \in Sends /\ e.fd \in Fds /\ e = send(e.fd)
  BY <1>1, <1>2, TransferKinds
<1>4. e.fd \in open /\ \A j \in 1 .. Len(fd_set) : fd_set[j].fd # e.fd
  BY <1>2, <1>3 DEF TableInv, Awaited
<1> DEFINE s == <<polled(e.fd, TRUE)>>
<1>5. t = fd_set \o s /\ Sound(t, open)
  BY <1>4, SoundAppend DEF TableInv
<1>6. /\ Awaited(q, fd_set, open)
      /\ \A k \in 1 .. Len(q) : q[k] # e
      /\ \A fd \in Fds : (\E k \in 1 .. Len(events) : events[k] = send(fd)) =>
               \/ e = send(fd)
               \/ \E k \in 1 .. Len(q) : q[k] = send(fd)
  BY <1>1, <1>3, AwaitedTail DEF TableInv
<1>7. /\ Len(fd_set) \in Nat /\ Len(fd_set) > 0 /\ Len(t) = Len(fd_set) + 1
      /\ \A j \in 1 .. Len(fd_set) : t[j] = fd_set[j]
      /\ t[Len(fd_set) + 1].fd = e.fd
  <2>1. fd_set \in Seq(Polled) /\ Len(fd_set) > 0
    BY DEF TableInv, Sound
  <2>2. polled(e.fd, TRUE).fd = e.fd
    BY DEF polled
  <2>3. PICK x : x = polled(e.fd, TRUE)
    OBVIOUS
  <2>4. /\ Len(Append(fd_set, x)) = Len(fd_set) + 1
        /\ \A j \in 1 .. Len(fd_set) : Append(fd_set, x)[j] = fd_set[j]
        /\ Append(fd_set, x)[Len(fd_set) + 1] = x
        /\ Len(fd_set) \in Nat
    BY <2>1
  <2> QED BY <2>1, <2>2, <2>3, <2>4
<1> HIDE DEF t, e, q, s
<1>8. ASSUME NEW k \in 1 .. Len(q), q[k] \in Sends
      PROVE  \A j \in 1 .. Len(t) : t[j].fd # q[k].fd
  <2>1. q[k] = send(q[k].fd) /\ q[k] # e
    BY <1>2, <1>6, <1>8, TransferKinds
  <2>2. q[k].fd # e.fd
    BY <1>3, <2>1
  <2>3. \A j \in 1 .. Len(fd_set) : fd_set[j].fd # q[k].fd
    BY <1>6, <1>8 DEF Awaited
  <2> QED BY <1>7, <2>2, <2>3
<1>9. Awaited(q, t, open)
  BY <1>6, <1>8 DEF Awaited
<1>10. ASSUME NEW fd \in open, Traced(fd, fd_set, events) PROVE Traced(fd, t, q)
  <2>1. fd \in Fds
    BY DEF TableInv
  <2>2. CASE \E k \in 2 .. Len(fd_set) : fd_set[k].fd = fd
    <3>1. PICK k \in 2 .. Len(fd_set) : fd_set[k].fd = fd
      BY <2>2
    <3>2. k \in 2 .. Len(t) /\ t[k].fd = fd
      BY <1>7, <3>1
    <3> QED BY <3>2 DEF Traced
  <2>3. CASE e = send(fd)
    <3>1. e.fd = fd
      BY <2>1, <2>3, SendKinds
    <3>2. Len(fd_set) + 1 \in 2 .. Len(t) /\ t[Len(fd_set) + 1].fd = fd
      BY <1>7, <3>1
    <3> QED BY <3>2 DEF Traced
  <2>4. CASE \E k \in 1 .. Len(q) : q[k] = send(fd)
    BY <2>4 DEF Traced
  <2> QED BY <1>6, <1>10, <2>1, <2>2, <2>3, <2>4 DEF Traced
<1> QED BY <1>1, <1>2, <1>5, <1>9, <1>10 DEF TableInv

(* A descriptor that is not open is not in the table. *)
LEMMA NotPolled ==
  ASSUME NEW t, NEW o, Sound(t, o), NEW fd \in Fds \ o
  PROVE  \A j \in 1 .. Len(t) : t[j].fd # fd
<1> SUFFICES ASSUME NEW j \in 1 .. Len(t) PROVE t[j].fd # fd
  OBVIOUS
<1>1. CASE j = 1
  BY <1>1, CopyTransfersAssumption DEF Sound, DisplayEntry
<1>2. CASE j # 1
  BY <1>2 DEF Sound
<1> QED BY <1>1, <1>2

(* More may be open. *)
LEMMA SoundMore ==
  ASSUME NEW t, NEW o, NEW p, Sound(t, o), o \subseteq p PROVE Sound(t, p)
BY DEF Sound

(* What is on its way stays so when more is open. *)
LEMMA AwaitedMore ==
  ASSUME NEW q, NEW t, NEW o, NEW p, Awaited(q, t, o), o \subseteq p PROVE Awaited(q, t, p)
BY DEF Awaited

(* A paste from us. *)
LEMMA PasteSent == TableInv /\ OtherPastes => TableInv'
<1> SUFFICES ASSUME TableInv, OtherPastes PROVE TableInv'
  OBVIOUS
<1>1. PICK fd \in Fds \ open :
        /\ events' = events \o <<send(fd)>> /\ open' = open \cup {fd}
        /\ UNCHANGED <<mode, fd_set>>
  BY DEF OtherPastes, Send, send
<1>2. /\ <<send(fd)>> \in Seq(Tidings) /\ Len(<<send(fd)>>) = 1 /\ <<send(fd)>>[1] = send(fd)
      /\ send(fd).fd = fd
  BY SendKinds
<1>3. Sound(fd_set, open') /\ \A j \in 1 .. Len(fd_set) : fd_set[j].fd # fd
  BY <1>1, NotPolled, SoundMore DEF TableInv
<1> DEFINE s == <<send(fd)>>
<1>4. \A k \in 1 .. Len(s) : s[k] \in Sends =>
        /\ s[k].fd \in open' \ open
        /\ \A j \in 1 .. Len(fd_set) : fd_set[j].fd # s[k].fd
        /\ \A j \in 1 .. Len(s) : s[j] = s[k] => j = k
  BY <1>1, <1>2, <1>3
<1>5. s \in Seq(Tidings) /\ \E k \in 1 .. Len(s) : s[k] = send(fd)
  BY <1>2
<1> HIDE DEF s
<1>6. /\ Awaited(events \o s, fd_set, open')
      /\ \A k \in 1 .. Len(events) : /\ k \in 1 .. Len(events \o s)
                                     /\ (events \o s)[k] = events[k]
      /\ \A k \in 1 .. Len(s) : \E l \in 1 .. Len(events \o s) : (events \o s)[l] = s[k]
  <2>1. PICK p : p = open'
    OBVIOUS
  <2>2. open \subseteq p /\ events \in Seq(Tidings) /\ Awaited(events, fd_set, open)
    BY <1>1, <2>1 DEF TableInv
  <2> QED BY <1>4, <1>5, <2>1, <2>2, AwaitedConcat
<1>7. \A x \in open' : Traced(x, fd_set, events) \/ x = fd => Traced(x, fd_set, events \o s)
  BY <1>5, <1>6 DEF Traced
<1>8. events \o s \in Seq(Tidings)
  BY <1>5 DEF TableInv
<1>9. events' = events \o s
  BY <1>1 DEF s
<1>10. open' \subseteq Fds
  BY <1>1 DEF TableInv
<1> QED BY <1>1, <1>3, <1>6, <1>7, <1>8, <1>9, <1>10 DEF TableInv
(* What receive_offer returns is polled from then on. *)
LEMMA Received ==
  ASSUME TableInv, events # <<>>, Head(events) \notin Sends, events' = Tail(events),
         UNCHANGED mode,
         NEW n \in Nat, NEW fds \in Opened(n), receive_offers(fds)
  PROVE  TableInv'
<1> DEFINE q == Tail(events)
           s == [k \in DOMAIN fds |-> polled(fds[k], FALSE)]
           t == fd_set \o s
           o == open \cup Range(fds)
<1>1. open' = o /\ fd_set' = t
  BY DEF receive_offers
<1>2. PICK m \in 0 .. n : fds \in [1 .. m -> Fds \ open]
  BY DEF Opened
<1>3. \A j, k \in 1 .. m : fds[j] = fds[k] => j = k
  BY <1>2 DEF Opened, IsInjective
<1>4. /\ DOMAIN fds = 1 .. m /\ \A k \in 1 .. m : fds[k] \in Fds \ open /\ fds[k] \in o
      /\ \A x \in o : x \in open \/ \E k \in 1 .. m : fds[k] = x
      /\ o \subseteq Fds /\ open \subseteq o
  BY <1>2 DEF Range, TableInv
<1>5. /\ s \in Seq(Polled) /\ Len(s) = m
      /\ \A k \in 1 .. m : s[k].fd = fds[k] /\ s[k].refcount = 1 /\ s[k].recv = ~s[k].send
  <2>1. \A fd \in Fds : /\ polled(fd, FALSE) \in Polled /\ polled(fd, FALSE).fd = fd
                        /\ polled(fd, FALSE).refcount = 1
                        /\ polled(fd, FALSE).recv = ~polled(fd, FALSE).send
    BY DEF polled, Polled
  <2> HIDE DEF polled
  <2>2. s \in [1 .. m -> Polled]
    BY <1>4, <2>1
  <2>3. \A f \in [1 .. m -> Polled] : f \in Seq(Polled) /\ Len(f) = m
    OBVIOUS
  <2>4. \A k \in 1 .. m : s[k] = polled(fds[k], FALSE)
    BY <1>4
  <2> HIDE DEF s
  <2>5. s \in Seq(Polled) /\ Len(s) = m
    BY <2>2, <2>3
  <2>6. ASSUME NEW k \in 1 .. m
        PROVE  s[k].fd = fds[k] /\ s[k].refcount = 1 /\ s[k].recv = ~s[k].send
    <3>1. fds[k] \in Fds /\ s[k] = polled(fds[k], FALSE)
      BY <1>4, <2>4
    <3> QED BY <2>1, <3>1
  <2> QED BY <2>5, <2>6
<1> HIDE DEF s, o, q
<1>6. ASSUME NEW k \in 1 .. Len(s)
      PROVE  /\ s[k].refcount = 1 /\ s[k].recv = ~s[k].send
             /\ s[k].fd \in o
             /\ \A j \in 1 .. Len(fd_set) : fd_set[j].fd # s[k].fd
  <2>1. k \in 1 .. m /\ s[k].fd \in Fds \ open
    BY <1>4, <1>5
  <2>2. \A j \in 1 .. Len(fd_set) : fd_set[j].fd # s[k].fd
    BY <2>1, NotPolled DEF TableInv
  <2> QED BY <1>4, <1>5, <2>1, <2>2
<1>7. \A j, k \in 1 .. Len(s) : s[j].fd = s[k].fd => j = k
  BY <1>3, <1>5
<1>8. Sound(t, o)
  BY <1>4, <1>5, <1>6, <1>7, SoundConcat DEF TableInv
<1>9. /\ Len(fd_set) \in Nat /\ Len(fd_set) > 0 /\ Len(t) = Len(fd_set) + m
      /\ \A j \in 1 .. Len(fd_set) : t[j] = fd_set[j]
      /\ \A k \in 1 .. m : t[Len(fd_set) + k] = s[k]
      /\ \A j \in 1 .. Len(t) : j \in 1 .. Len(fd_set)
                                  \/ \E k \in 1 .. m : j = Len(fd_set) + k
  <2>1. fd_set \in Seq(Polled) /\ Len(fd_set) > 0 /\ Len(fd_set) \in Nat
    BY DEF TableInv, Sound
  <2>2. /\ Len(t) = Len(fd_set) + m
        /\ \A j \in 1 .. Len(fd_set) : t[j] = fd_set[j]
        /\ \A k \in 1 .. m : t[Len(fd_set) + k] = s[k]
    BY <1>5, <2>1
  <2> HIDE DEF t
  <2>3. \A j \in 1 .. Len(t) : j \in 1 .. Len(fd_set)
                                 \/ (/\ j - Len(fd_set) \in 1 .. m
                                     /\ j = Len(fd_set) + (j - Len(fd_set)))
    BY <1>5, <2>1, <2>2
  <2> QED BY <2>1, <2>2, <2>3
<1> HIDE DEF t
<1>10. /\ Awaited(q, fd_set, open) /\ q \in Seq(Tidings)
       /\ \A fd \in Fds : (\E k \in 1 .. Len(events) : events[k] = send(fd)) =>
            \/ Head(events) = send(fd)
            \/ \E k \in 1 .. Len(q) : q[k] = send(fd)
  BY AwaitedTail, InTail DEF TableInv, q
<1>11. Awaited(q, t, o)
  <2>1. ASSUME NEW k \in 1 .. Len(q), q[k] \in Sends, NEW j \in 1 .. Len(t)
        PROVE  t[j].fd # q[k].fd
    <3>1. q[k].fd \in open /\ \A i \in 1 .. Len(fd_set) : fd_set[i].fd # q[k].fd
      BY <1>10, <2>1 DEF Awaited
    <3>2. CASE j \in 1 .. Len(fd_set)
      BY <1>9, <3>1, <3>2
    <3>3. ASSUME NEW i \in 1 .. m, j = Len(fd_set) + i PROVE t[j].fd # q[k].fd
      <4>1. t[j].fd = fds[i] /\ fds[i] \notin open
        BY <1>4, <1>5, <1>9, <3>3
      <4> QED BY <3>1, <4>1
    <3> QED BY <1>9, <3>2, <3>3
  <2> QED BY <1>4, <1>10, <2>1 DEF Awaited
<1>12. ASSUME NEW x \in o, x \in open => Traced(x, fd_set, events) PROVE Traced(x, t, q)
  <2>1. CASE \E k \in 1 .. m : fds[k] = x
    <3>1. PICK k \in 1 .. m : fds[k] = x
      BY <2>1
    <3>2. Len(fd_set) + k \in 2 .. Len(t) /\ t[Len(fd_set) + k].fd = x
      BY <1>5, <1>9, <3>1
    <3> QED BY <3>2 DEF Traced
  <2>2. CASE \E k \in 2 .. Len(fd_set) : fd_set[k].fd = x
    <3>1. PICK k \in 2 .. Len(fd_set) : fd_set[k].fd = x
      BY <2>2
    <3>2. k \in 2 .. Len(t) /\ t[k].fd = x
      BY <1>9, <3>1
    <3> QED BY <3>2 DEF Traced
  <2>3. CASE \E k \in 1 .. Len(events) : events[k] = send(x)
    <3>1. x \in Fds /\ Head(events) # send(x)
      BY <1>4, SendKinds
    <3>2. \E k \in 1 .. Len(q) : q[k] = send(x)
      BY <1>10, <2>3, <3>1
    <3> QED BY <3>2 DEF Traced
  <2> QED BY <1>4, <1>12, <2>1, <2>2, <2>3 DEF Traced
<1>13. events' = q
  BY DEF q
<1> QED BY <1>1, <1>4, <1>8, <1>10, <1>11, <1>12, <1>13 DEF TableInv

(* A file is not. *)
LEMMA Filed ==
  ASSUME TableInv, events # <<>>, Head(events) \notin Sends, events' = Tail(events),
         mode = "RECV_FILE", UNCHANGED mode,
         NEW n \in Nat, NEW fds \in Opened(n), receive_to_file(fds)
  PROVE  TableInv'
<1>1. fd_set' = fd_set /\ open \subseteq open' /\ open' \subseteq Fds
  <2>1. PICK m \in 0 .. n : fds \in [1 .. m -> Fds \ open]
    BY DEF Opened
  <2> QED BY <2>1 DEF receive_to_file, Range, TableInv
<1>2. Sound(fd_set, open')
  BY <1>1, SoundMore DEF TableInv
<1>3. Awaited(Tail(events), fd_set, open) /\ Tail(events) \in Seq(Tidings)
  BY AwaitedTail, InTail DEF TableInv
<1>4. Awaited(Tail(events), fd_set, open')
  BY <1>1, <1>3, AwaitedMore
<1> QED BY <1>1, <1>2, <1>3, <1>4 DEF TableInv

(* Whatever the mode does with a selection. *)
LEMMA SelectionTaken ==
  ASSUME TableInv, Len(offer_list) \in Nat, data_device_selection PROVE TableInv'
<1>1. /\ events # <<>> /\ Head(events).type = "selection" /\ events' = Tail(events)
      /\ UNCHANGED mode
  BY DEF data_device_selection, HandleAlive, Handle
<1>2. Head(events) \notin Sends
  <2>1. Head(events) \in Tidings
    BY <1>1, InTail DEF TableInv
  <2> QED BY <1>1, <2>1 DEF Sends
<1>3. CASE \E fds \in Opened(Len(offer_list)) : receive_offers(fds)
  BY <1>1, <1>2, <1>3, Received
<1>4. CASE mode = "RECV_FILE" /\ \E fds \in Opened(Len(offer_list)) : receive_to_file(fds)
  BY <1>1, <1>2, <1>4, Filed
<1>5. CASE UNCHANGED tableVars
  BY <1>1, <1>2, <1>5, TableQuiet DEF tableVars
<1> QED BY <1>3, <1>4, <1>5 DEF data_device_selection
(* The table when the loop has served it. *)
LEMMA Served ==
  ASSUME TableInv
  PROVE  /\ ServedTable \in Seq(Polled) /\ Len(ServedTable) = Len(fd_set)
         /\ Len(fd_set) \in Nat /\ Len(fd_set) > 0
         /\ \A k \in 1 .. Len(fd_set) :
              /\ ServedTable[k].fd = fd_set[k].fd
              /\ ServedTable[k].recv = fd_set[k].recv
              /\ ServedTable[k].refcount > 0 => ServedTable[k] = fd_set[k]
         /\ ServedTable[1] = DisplayEntry
         /\ \A k \in 2 .. Len(fd_set) :
              ServedTable[k].refcount <= 0 <=> Wrote(fd_set[k]) \/ POLLHUP(fd_set[k])
         /\ \A j, k \in 1 .. Len(fd_set) : ServedTable[j].fd = ServedTable[k].fd => j = k
<1> DEFINE n == Len(fd_set)
<1>1. /\ fd_set \in Seq(Polled) /\ n \in Nat /\ n > 0 /\ fd_set[1] = DisplayEntry
      /\ DOMAIN fd_set = 1 .. n /\ \A k \in 1 .. n : fd_set[k] \in Polled
      /\ \A k \in 1 .. n : fd_set[k].refcount = 1
      /\ \A j, k \in 1 .. n : fd_set[j].fd = fd_set[k].fd => j = k
  <2>1. fd_set \in Seq(Polled)
    BY DEF TableInv, Sound
  <2> QED BY <2>1 DEF TableInv, Sound
<1>2. ASSUME NEW k \in 2 .. n
      PROVE  /\ Left(fd_set[k]) \in {0, 1}
             /\ Left(fd_set[k]) <= 0 <=> Wrote(fd_set[k]) \/ POLLHUP(fd_set[k])
  BY <1>1 DEF Left
<1> HIDE DEF n
<1>3. ASSUME NEW k \in 1 .. n
      PROVE  /\ ServedTable[k] \in Polled
             /\ ServedTable[k].fd = fd_set[k].fd
             /\ ServedTable[k].recv = fd_set[k].recv
             /\ ServedTable[k].refcount > 0 => ServedTable[k] = fd_set[k]
             /\ k # 1 => ServedTable[k].refcount = Left(fd_set[k])
  <2>1. CASE k = 1
    BY <1>1, <2>1 DEF ServedTable
  <2>2. CASE k # 1
    <3>1. ServedTable[k] = [fd_set[k] EXCEPT !.refcount = Left(fd_set[k])]
      BY <1>1, <2>2 DEF ServedTable
    <3>2. Left(fd_set[k]) \in {0, 1} /\ fd_set[k] \in Polled /\ fd_set[k].refcount = 1
      BY <1>1, <1>2, <2>2
    <3>3. PICK e, l : e = fd_set[k] /\ l = Left(fd_set[k])
      OBVIOUS
    <3>4. e \in Polled /\ l \in {0, 1} /\ e.refcount = 1
      BY <3>2, <3>3
    <3>5. /\ [e EXCEPT !.refcount = l] \in Polled
          /\ [e EXCEPT !.refcount = l].fd = e.fd
          /\ [e EXCEPT !.refcount = l].recv = e.recv
          /\ [e EXCEPT !.refcount = l].refcount = l
      BY <3>4 DEF Polled
    <3>6. l > 0 => [e EXCEPT !.refcount = l] = e
      BY <3>4 DEF Polled
    <3> QED BY <3>1, <3>3, <3>5, <3>6
  <2> QED BY <2>1, <2>2
<1>4. ServedTable \in [1 .. n -> Polled]
  <2>1. DOMAIN ServedTable = 1 .. n /\ ServedTable = [k \in 1 .. n |-> ServedTable[k]]
    BY <1>1 DEF ServedTable
  <2> QED BY <1>3, <2>1
<1>5. ServedTable \in Seq(Polled) /\ Len(ServedTable) = n
  BY <1>1, <1>4
<1>6. ServedTable[1] = DisplayEntry
  BY <1>1 DEF ServedTable
<1>7. \A j, k \in 1 .. n : ServedTable[j].fd = ServedTable[k].fd => j = k
  BY <1>1, <1>3
<1> QED BY <1>1, <1>2, <1>3, <1>5, <1>6, <1>7 DEF n

(* What remains of it: the entries with references, and no others. *)
LEMMA Remains ==
  ASSUME TableInv
  PROVE  /\ Sound(Kept, open \ Done)
         /\ \A k \in 2 .. Len(fd_set) : ServedTable[k].refcount > 0 =>
              \E m \in 2 .. Len(Kept) : Kept[m] = fd_set[k]
         /\ \A m \in 1 .. Len(Kept) : \E k \in 1 .. Len(fd_set) : Kept[m] = fd_set[k]
         /\ Done = {fd_set[k].fd : k \in {j \in 2 .. Len(fd_set) :
                                            ServedTable[j].refcount <= 0}}
<1> DEFINE t == ServedTable
           n == Len(fd_set)
           s == Kept
<1>1. /\ t \in Seq(Polled) /\ Len(t) = n /\ n \in Nat /\ n > 0
      /\ \A k \in 1 .. n : t[k].fd = fd_set[k].fd /\ (t[k].refcount > 0 => t[k] = fd_set[k])
      /\ t[1] = DisplayEntry
      /\ \A j, k \in 1 .. n : t[j].fd = t[k].fd => j = k
      /\ \A k \in 1 .. n : t[k].refcount \in Nat
  <2>1. \A k \in 1 .. n : t[k] \in Polled
    BY Served
  <2> QED BY <2>1, Served DEF Polled
<1>2. Gathers(t, s, n)
  BY <1>1, CompactedGathers DEF Kept
<1>3. /\ fd_set \in Seq(Polled) /\ DOMAIN fd_set = 1 .. n
      /\ \A k \in 2 .. n : fd_set[k].fd \in open /\ fd_set[k].recv = ~fd_set[k].send
      /\ \A k \in 1 .. n : fd_set[k].refcount = 1
      /\ open \subseteq Fds
  <2>1. fd_set \in Seq(Polled)
    BY DEF TableInv, Sound
  <2> QED BY <2>1 DEF TableInv, Sound
<1>4. Done = {t[k].fd : k \in {j \in 1 .. n : t[j].refcount <= 0}}
  BY <1>3 DEF Done
<1> HIDE DEF t, n, s
<1>5. t[1].refcount = 1 /\ t[1].fd = Display
  BY <1>1 DEF DisplayEntry
<1>6. Done = {fd_set[k].fd : k \in {j \in 2 .. n : t[j].refcount <= 0}}
  <2>1. \A k \in 1 .. n : t[k].refcount <= 0 => k \in 2 .. n
    BY <1>1, <1>5
  <2> QED BY <1>1, <1>4, <2>1
<1>7. /\ s \in Seq(Polled) /\ Len(s) \in Nat /\ Len(s) > 0 /\ s[1] = t[1]
      /\ \A l, m \in 1 .. Len(s) : s[l].fd = s[m].fd => l = m
  BY <1>1, <1>2, <1>5 DEF Gathers
<1>8. ASSUME NEW m \in 1 .. Len(s)
      PROVE  \E k \in 1 .. n : /\ s[m] = fd_set[k] /\ t[k].refcount > 0
                               /\ m # 1 => k # 1
  <2>1. PICK k \in 1 .. n : s[m] = t[k] /\ t[k].refcount > 0
    BY <1>2 DEF Gathers
  <2>2. m # 1 => k # 1
    BY <1>1, <1>7, <2>1
  <2> QED BY <1>1, <2>1, <2>2
<1>9. ASSUME NEW m \in 2 .. Len(s)
      PROVE  s[m].fd \in open \ Done /\ s[m].recv = ~s[m].send
  <2>1. PICK k \in 1 .. n : s[m] = fd_set[k] /\ t[k].refcount > 0 /\ k # 1
    BY <1>8
  <2>2. s[m].fd \in open /\ s[m].recv = ~s[m].send
    BY <1>3, <2>1
  <2>3. ASSUME s[m].fd \in Done PROVE FALSE
    <3>1. PICK j \in 2 .. n : t[j].refcount <= 0 /\ fd_set[j].fd = s[m].fd
      BY <1>6, <2>3
    <3>2. j = k
      BY <1>1, <2>1, <3>1
    <3> QED BY <1>1, <2>1, <3>1, <3>2
  <2> QED BY <2>2, <2>3
<1>10. \A m \in 1 .. Len(s) : s[m].refcount = 1
  BY <1>3, <1>8
<1>11. Sound(s, open \ Done)
  BY <1>1, <1>7, <1>9, <1>10 DEF Sound
<1>12. ASSUME NEW k \in 2 .. n, t[k].refcount > 0
       PROVE  \E m \in 2 .. Len(s) : s[m] = fd_set[k]
  <2>1. PICK m \in 1 .. Len(s) : s[m] = t[k]
    BY <1>2, <1>12 DEF Gathers
  <2>2. m # 1
    BY <1>1, <1>7, <2>1
  <2> QED BY <1>1, <1>12, <2>1, <2>2
<1>13. \A m \in 1 .. Len(s) : \E k \in 1 .. n : s[m] = fd_set[k]
  BY <1>8
<1> QED BY <1>6, <1>11, <1>12, <1>13 DEF t, n, s

(* One turn of the loop. *)
LEMMA TransferLoopKeeps == TableInv /\ TransferLoop => TableInv'
<1> SUFFICES ASSUME TableInv, TransferLoop PROVE TableInv'
  OBVIOUS
<1>1. fd_set' = Kept /\ open' = open \ Done /\ UNCHANGED <<mode, events>>
  BY DEF TransferLoop
<1>2. /\ Sound(Kept, open \ Done)
      /\ \A k \in 2 .. Len(fd_set) : ServedTable[k].refcount > 0 =>
           \E m \in 2 .. Len(Kept) : Kept[m] = fd_set[k]
      /\ \A m \in 1 .. Len(Kept) : \E k \in 1 .. Len(fd_set) : Kept[m] = fd_set[k]
      /\ Done = {fd_set[k].fd : k \in {j \in 2 .. Len(fd_set) :
                                         ServedTable[j].refcount <= 0}}
  BY Remains
<1>3. Awaited(events, Kept, open \ Done)
  <2> SUFFICES ASSUME NEW k \in 1 .. Len(events), events[k] \in Sends
               PROVE  /\ events[k].fd \in open \ Done
                      /\ \A j \in 1 .. Len(Kept) : Kept[j].fd # events[k].fd
                      /\ \A j \in 1 .. Len(events) : events[j] = events[k] => j = k
    BY DEF Awaited
  <2>1. /\ events[k].fd \in open
        /\ \A j \in 1 .. Len(fd_set) : fd_set[j].fd # events[k].fd
        /\ \A j \in 1 .. Len(events) : events[j] = events[k] => j = k
    BY DEF TableInv, Awaited
  <2>2. events[k].fd \notin Done
    <3>1. \A j \in 2 .. Len(fd_set) : j \in 1 .. Len(fd_set)
      OBVIOUS
    <3> QED BY <1>2, <2>1, <3>1
  <2> QED BY <1>2, <2>1, <2>2
<1>4. ASSUME NEW fd \in open \ Done, Traced(fd, fd_set, events) PROVE Traced(fd, Kept, events)
  <2>1. CASE \E k \in 2 .. Len(fd_set) : fd_set[k].fd = fd
    <3>1. PICK k \in 2 .. Len(fd_set) : fd_set[k].fd = fd
      BY <2>1
    <3>2. ServedTable[k].refcount \in Nat
      <4>1. ServedTable[k] \in Polled
        BY Served
      <4> QED BY <4>1 DEF Polled
    <3>3. ServedTable[k].refcount > 0
      BY <1>2, <3>1, <3>2
    <3> QED BY <1>2, <3>1, <3>3 DEF Traced
  <2>2. CASE \E k \in 1 .. Len(events) : events[k] = send(fd)
    BY <2>2 DEF Traced
  <2> QED BY <1>4, <2>1, <2>2 DEF Traced
<1> QED BY <1>1, <1>2, <1>3, <1>4 DEF TableInv
-------------------------------------------------------------------------------
data_offer_event(o) == [type |-> "data_offer", offer |-> o]
offer_event(m) == [type |-> "offer", mime |-> m]

(* The selection e with n types, at k of the queue q, is announced in full: by the
   events right before it, or by as many as are left of them and, the other way
   around, by what the client has taken down. *)
AnnouncesThe(e, n, q, k, d, l) ==
  \/ /\ k > n + 1
     /\ q[k - n - 1] = data_offer_event(e.offer)
     /\ \A j \in 1 .. n : q[k - n - 1 + j] = offer_event(e.mimes[j])
  \/ /\ k <= n + 1
     /\ d = e.offer
     /\ Len(l) = n - k + 1
     /\ \A j \in 1 .. n - k + 1 : l[j] = e.mimes[n - k + 2 - j]
     /\ \A j \in 1 .. k - 1 : q[j] = offer_event(e.mimes[n - k + 1 + j])

Announces(q, k, d, l) == AnnouncesThe(q[k], Len(q[k].mimes), q, k, d, l)

Selecting(q) == {k \in 1 .. Len(q) : q[k] \in Selections /\ q[k].offer # NULL}

(* A type is not announced before its offer. *)
Headed(q, d) == \A k \in 1 .. Len(q) : q[k] \in Mimes =>
                  d # NULL \/ \E j \in 1 .. k : q[j] \in DataOffers

Coming(q, d, l) == /\ d \in Offers \cup {NULL}
                   /\ l \in Seq(Types)
                   /\ d = NULL => l = <<>>
                   /\ Headed(q, d)
                   /\ \A k \in Selecting(q) : Announces(q, k, d, l)

(* The client has taken down one more event e. *)
LEMMA ComingTail ==
  ASSUME NEW q \in Seq(Tidings), q # <<>>, NEW d, NEW l, Coming(q, d, l), NEW a, NEW b,
         Head(q) \in DataOffers => a = Head(q).offer /\ b = IF d = NULL THEN l ELSE <<>>,
         Head(q) \in Mimes => a = d /\ b = <<Head(q).mime>> \o l,
         Head(q) \notin DataOffers \cup Mimes => a = d /\ b = l
  PROVE  Coming(Tail(q), a, b)
<1> DEFINE r == Tail(q)
           e == Head(q)
<1>1. /\ Len(q) \in Nat /\ Len(r) \in Nat /\ Len(q) = Len(r) + 1
      /\ e \in Tidings /\ e = q[1]
      /\ \A k \in 1 .. Len(r) : k + 1 \in 1 .. Len(q) /\ r[k] = q[k + 1]
      /\ \A k \in 2 .. Len(q) : k - 1 \in 1 .. Len(r) /\ r[k - 1] = q[k]
      /\ \A k \in 1 .. Len(q) : q[k] \in Tidings
  <2>1. /\ Len(q) \in Nat /\ Len(q) > 0 /\ r \in Seq(Tidings) /\ Len(r) = Len(q) - 1
        /\ \A k \in 1 .. Len(q) : q[k] \in Tidings
    OBVIOUS
  <2> QED BY <2>1, InTail
<1> HIDE DEF r, e
<1>2. e \in DataOffers => e \notin Mimes
  BY DEF DataOffers, Mimes
<1>3. /\ a \in Offers \cup {NULL} /\ b \in Seq(Types)
      /\ a = NULL => b = <<>>
  <2>1. CASE e \in DataOffers
    <3>1. a = e.offer /\ e.offer \in Offers
      BY <2>1 DEF DataOffers, e
    <3>2. b = <<>> /\ <<>> \in Seq(Types)
      BY <2>1 DEF Coming, e
    <3> QED BY <3>1, <3>2, CopyTransfersAssumption
  <2>2. CASE e \in Mimes
    <3>1. d # NULL
      <4>1. \A j \in 1 .. 1 : q[j] \notin DataOffers
        BY <1>1, <1>2, <2>2
      <4>2. 1 \in 1 .. Len(q) /\ q[1] \in Mimes
        BY <1>1, <2>2
      <4> QED BY <4>1, <4>2 DEF Coming, Headed
    <3>2. e.mime \in Types
      BY <2>2 DEF Mimes
    <3>3. <<e.mime>> \in Seq(Types) /\ l \in Seq(Types)
      BY <3>2 DEF Coming
    <3>4. b \in Seq(Types)
      <4>1. \A g, h \in Seq(Types) : g \o h \in Seq(Types)
        OBVIOUS
      <4>2. b = <<e.mime>> \o l
        BY <2>2 DEF e
      <4> QED BY <3>3, <4>1, <4>2
    <3> QED BY <2>2, <3>1, <3>4 DEF Coming, e
  <2>3. CASE e \notin DataOffers \cup Mimes
    BY <2>3 DEF Coming, e
  <2> QED BY <2>1, <2>2, <2>3
<1>4. Headed(r, a)
  <2> SUFFICES ASSUME NEW k \in 1 .. Len(r), r[k] \in Mimes, a = NULL
               PROVE  \E j \in 1 .. k : r[j] \in DataOffers
    BY DEF Headed
  <2>1. e \notin DataOffers
    BY CopyTransfersAssumption DEF DataOffers, e
  <2>2. d = NULL
    BY <2>1 DEF e
  <2>3. k + 1 \in 1 .. Len(q) /\ q[k + 1] \in Mimes
    BY <1>1
  <2>4. PICK j \in 1 .. k + 1 : q[j] \in DataOffers
    BY <2>2, <2>3 DEF Coming, Headed
  <2>5. j # 1 /\ j \in 2 .. Len(q)
    BY <1>1, <2>1, <2>3, <2>4
  <2>6. r[j - 1] \in DataOffers /\ j - 1 \in 1 .. k
    BY <1>1, <2>4, <2>5
  <2> QED BY <2>6
<1>5. ASSUME NEW k \in Selecting(r) PROVE Announces(r, k, a, b)
  <2> DEFINE f == r[k]
             n == Len(f.mimes)
  <2>1. /\ k \in 1 .. Len(r) /\ f \in Selections /\ f.offer # NULL
        /\ k + 1 \in Selecting(q) /\ q[k + 1] = f
    BY <1>1 DEF Selecting
  <2>2. n \in Nat /\ f.mimes \in Seq(Types) /\ \A j \in 1 .. n : f.mimes[j] \in Types
    <3>1. f.mimes \in Seq(Types)
      BY <2>1 DEF Selections
    <3> QED BY <3>1
  <2>3. AnnouncesThe(f, n, q, k + 1, d, l)
    BY <2>1 DEF Coming, Announces
  <2> HIDE DEF f, n
  <2>4. CASE k + 1 > n + 1
    <3>1. /\ q[k - n] = data_offer_event(f.offer)
          /\ \A j \in 1 .. n : q[k - n + j] = offer_event(f.mimes[j])
      <4>1. /\ q[(k + 1) - n - 1] = data_offer_event(f.offer)
            /\ \A j \in 1 .. n : q[(k + 1) - n - 1 + j] = offer_event(f.mimes[j])
        BY <2>1, <2>2, <2>3, <2>4 DEF AnnouncesThe
      <4>2. (k + 1) - n - 1 = k - n
        BY <2>1, <2>2
      <4> QED BY <4>1, <4>2
    <3>2. CASE k > n + 1
      <4>1. r[k - n - 1] = data_offer_event(f.offer)
        <5>1. k - n \in 2 .. Len(q) /\ (k - n) - 1 = k - n - 1
          BY <1>1, <2>1, <2>2, <3>2
        <5> QED BY <1>1, <3>1, <5>1
      <4>2. ASSUME NEW j \in 1 .. n PROVE r[k - n - 1 + j] = offer_event(f.mimes[j])
        <5>1. k - n + j \in 2 .. Len(q) /\ (k - n + j) - 1 = k - n - 1 + j
          BY <1>1, <2>1, <2>2, <3>2
        <5> QED BY <1>1, <3>1, <5>1
      <4> QED BY <3>2, <4>1, <4>2 DEF Announces, AnnouncesThe, f, n
    <3>3. CASE k = n + 1
      <4>1. e = data_offer_event(f.offer)
        <5>1. k - n = 1
          BY <2>2, <3>3
        <5> QED BY <1>1, <3>1, <5>1
      <4>2. e \in DataOffers /\ e.offer = f.offer
        BY <1>1, <2>1, <4>1 DEF data_offer_event, Selections, DataOffers
      <4>3. a = f.offer /\ b = IF d = NULL THEN l ELSE <<>>
        BY <4>2 DEF e
      <4>4. b = <<>>
        BY <4>3 DEF Coming
      <4>5. Len(b) = n - k + 1 /\ \A j \in 1 .. n - k + 1 : b[j] = f.mimes[n - k + 2 - j]
        BY <2>2, <3>3, <4>4
      <4>6. ASSUME NEW j \in 1 .. k - 1 PROVE r[j] = offer_event(f.mimes[n - k + 1 + j])
        <5>1. j \in 1 .. n /\ k - n + j = j + 1 /\ n - k + 1 + j = j /\ j \in 1 .. Len(r)
          BY <2>1, <2>2, <3>3
        <5>2. q[j + 1] = offer_event(f.mimes[j])
          BY <3>1, <5>1
        <5> QED BY <1>1, <5>1, <5>2
      <4> QED BY <2>2, <3>3, <4>3, <4>5, <4>6 DEF Announces, AnnouncesThe, f, n
    <3> QED BY <2>1, <2>2, <2>4, <3>2, <3>3
  <2>5. CASE k + 1 <= n + 1
    <3>1. /\ d = f.offer
          /\ Len(l) = n - k
          /\ \A j \in 1 .. n - k : l[j] = f.mimes[n - k + 1 - j]
          /\ \A j \in 1 .. k : q[j] = offer_event(f.mimes[n - k + j])
      <4>1. /\ d = f.offer
            /\ Len(l) = n - (k + 1) + 1
            /\ \A j \in 1 .. n - (k + 1) + 1 : l[j] = f.mimes[n - (k + 1) + 2 - j]
            /\ \A j \in 1 .. (k + 1) - 1 : q[j] = offer_event(f.mimes[n - (k + 1) + 1 + j])
        BY <2>1, <2>2, <2>3, <2>5 DEF AnnouncesThe
      <4>2. n - (k + 1) + 1 = n - k /\ (k + 1) - 1 = k
        BY <2>1, <2>2
      <4>3. ASSUME NEW j \in 1 .. n - k PROVE l[j] = f.mimes[n - k + 1 - j]
        <5>1. n - (k + 1) + 2 - j = n - k + 1 - j
          BY <2>1, <2>2
        <5> QED BY <4>1, <4>2, <5>1
      <4>4. ASSUME NEW j \in 1 .. k PROVE q[j] = offer_event(f.mimes[n - k + j])
        <5>1. n - (k + 1) + 1 + j = n - k + j
          BY <2>1, <2>2
        <5> QED BY <4>1, <4>2, <5>1
      <4> QED BY <4>1, <4>2, <4>3, <4>4
    <3>2. e = offer_event(f.mimes[n - k + 1]) /\ f.mimes[n - k + 1] \in Types
      <4>1. 1 \in 1 .. k /\ n - k + 1 \in 1 .. n
        BY <2>1, <2>2, <2>5
      <4> QED BY <1>1, <2>2, <3>1, <4>1
    <3>3. e \in Mimes /\ e.mime = f.mimes[n - k + 1]
      BY <3>2 DEF offer_event, Mimes
    <3>4. a = d /\ b = <<f.mimes[n - k + 1]>> \o l
      BY <3>3 DEF e
    <3>5. /\ Len(b) = Len(l) + 1 /\ b[1] = f.mimes[n - k + 1]
          /\ \A j \in 2 .. Len(l) + 1 : b[j] = l[j - 1]
      <4>1. l \in Seq(Types) /\ <<f.mimes[n - k + 1]>> \in Seq(Types)
        BY <3>2 DEF Coming
      <4>2. PICK m \in Types : m = f.mimes[n - k + 1]
        BY <3>2
      <4>3. /\ Len(<<m>> \o l) = Len(l) + 1 /\ (<<m>> \o l)[1] = m
            /\ \A j \in 2 .. Len(l) + 1 : (<<m>> \o l)[j] = l[j - 1]
        BY <4>1
      <4> QED BY <3>4, <4>2, <4>3
    <3>6. Len(b) = n - k + 1
      BY <2>1, <2>2, <3>1, <3>5
    <3>7. ASSUME NEW j \in 1 .. n - k + 1 PROVE b[j] = f.mimes[n - k + 2 - j]
      <4>1. CASE j = 1
        <5>1. n - k + 2 - j = n - k + 1
          BY <2>1, <2>2, <4>1
        <5> QED BY <3>5, <4>1, <5>1
      <4>2. CASE j # 1
        <5>1. /\ j \in 2 .. Len(l) + 1 /\ j - 1 \in 1 .. n - k
              /\ n - k + 1 - (j - 1) = n - k + 2 - j
          BY <2>1, <2>2, <3>1, <4>2
        <5> QED BY <3>1, <3>5, <5>1
      <4> QED BY <4>1, <4>2
    <3>8. ASSUME NEW j \in 1 .. k - 1 PROVE r[j] = offer_event(f.mimes[n - k + 1 + j])
      <4>1. j \in 1 .. Len(r) /\ j + 1 \in 1 .. k /\ n - k + (j + 1) = n - k + 1 + j
        BY <2>1, <2>2
      <4> QED BY <1>1, <3>1, <4>1
    <3>9. k <= n + 1
      BY <2>1, <2>2, <2>5
    <3> QED BY <3>1, <3>4, <3>6, <3>7, <3>8, <3>9 DEF Announces, AnnouncesThe, f, n
  <2> QED BY <2>1, <2>2, <2>4, <2>5
<1>6. Coming(r, a, b)
  BY <1>3, <1>4, <1>5 DEF Coming
<1> QED BY <1>6 DEF r
(* More events, which bring the offers they are about. *)
Whole(s) == /\ Headed(s, NULL)
            /\ \A k \in Selecting(s) :
                 LET n == Len(s[k].mimes)
                 IN  /\ k > n + 1
                     /\ s[k - n - 1] = data_offer_event(s[k].offer)
                     /\ \A j \in 1 .. n : s[k - n - 1 + j] = offer_event(s[k].mimes[j])

(* Announcements sent whole leave those on their way as they are. *)
LEMMA ComingConcat ==
  ASSUME NEW q \in Seq(Tidings), NEW s \in Seq(Tidings), NEW d, NEW l, Coming(q, d, l), Whole(s)
  PROVE  Coming(q \o s, d, l)
<1> DEFINE c == q \o s
           p == Len(q)
<1>1. /\ p \in Nat /\ Len(s) \in Nat /\ Len(c) = p + Len(s)
      /\ \A k \in 1 .. p : c[k] = q[k]
      /\ \A k \in 1 .. Len(s) : c[p + k] = s[k]
  OBVIOUS
<1> HIDE DEF c, p
<1>2. ASSUME NEW k \in 1 .. Len(c), ~(k \in 1 .. p) PROVE k - p \in 1 .. Len(s) /\ c[k] = s[k - p]
  <2>1. k - p \in 1 .. Len(s) /\ p + (k - p) = k
    BY <1>1, <1>2
  <2> QED BY <1>1, <2>1
<1>3. Headed(c, d)
  <2> SUFFICES ASSUME NEW k \in 1 .. Len(c), c[k] \in Mimes, d = NULL
               PROVE  \E j \in 1 .. k : c[j] \in DataOffers
    BY DEF Headed
  <2>1. CASE k \in 1 .. p
    <3>1. PICK j \in 1 .. k : q[j] \in DataOffers
      BY <1>1, <2>1 DEF Coming, Headed, p
    <3> QED BY <1>1, <2>1, <3>1
  <2>2. CASE ~(k \in 1 .. p)
    <3>1. k - p \in 1 .. Len(s) /\ s[k - p] \in Mimes
      BY <1>2, <2>2
    <3>2. PICK j \in 1 .. k - p : s[j] \in DataOffers
      BY <3>1 DEF Whole, Headed
    <3>3. p + j \in 1 .. k /\ c[p + j] \in DataOffers
      BY <1>1, <3>1, <3>2
    <3> QED BY <3>3
  <2> QED BY <2>1, <2>2
<1>4. ASSUME NEW k \in Selecting(c) PROVE Announces(c, k, d, l)
  <2> DEFINE e == c[k]
             n == Len(e.mimes)
  <2>1. k \in 1 .. Len(c) /\ e \in Selections /\ e.offer # NULL
    BY DEF Selecting
  <2>2. n \in Nat
    <3>1. e.mimes \in Seq(Types)
      BY <2>1 DEF Selections
    <3> QED BY <3>1
  <2> HIDE DEF e, n
  <2>3. CASE k \in 1 .. p
    <3>1. q[k] = e
      BY <1>1, <2>3 DEF e
    <3>2. AnnouncesThe(e, n, q, k, d, l)
      <4>1. k \in Selecting(q)
        BY <2>1, <2>3, <3>1 DEF Selecting, p
      <4> QED BY <3>1, <4>1 DEF Coming, Announces, n
    <3>3. AnnouncesThe(e, n, c, k, d, l)
      <4>1. CASE /\ k > n + 1
                 /\ q[k - n - 1] = data_offer_event(e.offer)
                 /\ \A j \in 1 .. n : q[k - n - 1 + j] = offer_event(e.mimes[j])
        <5>1. \A j \in 0 .. n : k - n - 1 + j \in 1 .. p /\ k - n - 1 \in 1 .. p
          BY <1>1, <2>2, <2>3, <4>1
        <5>2. \A j \in 1 .. n : j \in 0 .. n
          OBVIOUS
        <5>3. \A j \in 1 .. n : c[k - n - 1 + j] = offer_event(e.mimes[j])
          BY <1>1, <4>1, <5>1, <5>2
        <5>4. c[k - n - 1] = data_offer_event(e.offer)
          BY <1>1, <2>2, <2>3, <4>1
        <5> QED BY <4>1, <5>3, <5>4 DEF AnnouncesThe
      <4>2. CASE /\ k <= n + 1
                 /\ d = e.offer
                 /\ Len(l) = n - k + 1
                 /\ \A j \in 1 .. n - k + 1 : l[j] = e.mimes[n - k + 2 - j]
                 /\ \A j \in 1 .. k - 1 : q[j] = offer_event(e.mimes[n - k + 1 + j])
        <5>1. \A j \in 1 .. k - 1 : j \in 1 .. p
          BY <1>1, <2>3
        <5>2. \A j \in 1 .. k - 1 : c[j] = offer_event(e.mimes[n - k + 1 + j])
          BY <1>1, <4>2, <5>1
        <5> QED BY <4>2, <5>2 DEF AnnouncesThe
      <4> QED BY <3>2, <4>1, <4>2 DEF AnnouncesThe
    <3> QED BY <3>3 DEF Announces, e, n
  <2>4. CASE ~(k \in 1 .. p)
    <3> DEFINE i == k - p
    <3>1. i \in 1 .. Len(s) /\ s[i] = e /\ k = p + i
      BY <1>1, <1>2, <2>1, <2>4 DEF e
    <3> HIDE DEF i
    <3>2. i \in Selecting(s)
      BY <2>1, <3>1 DEF Selecting
    <3>3. /\ i > n + 1
          /\ s[i - n - 1] = data_offer_event(e.offer)
          /\ \A j \in 1 .. n : s[i - n - 1 + j] = offer_event(e.mimes[j])
      BY <3>1, <3>2 DEF Whole, n
    <3>4. c[k - n - 1] = data_offer_event(e.offer)
      <4>1. i - n - 1 \in 1 .. Len(s) /\ p + (i - n - 1) = k - n - 1
        BY <1>1, <2>2, <3>1, <3>3
      <4> QED BY <1>1, <3>3, <4>1
    <3>5. ASSUME NEW j \in 1 .. n PROVE c[k - n - 1 + j] = offer_event(e.mimes[j])
      <4>1. i - n - 1 + j \in 1 .. Len(s) /\ p + (i - n - 1 + j) = k - n - 1 + j
        BY <1>1, <2>2, <3>1, <3>3
      <4> QED BY <1>1, <3>3, <4>1
    <3>6. k > n + 1
      BY <1>1, <2>2, <3>1, <3>3
    <3> QED BY <3>4, <3>5, <3>6 DEF Announces, AnnouncesThe, e, n
  <2> QED BY <2>3, <2>4
<1>5. Coming(c, d, l)
  BY <1>3, <1>4 DEF Coming
<1> QED BY <1>5 DEF c

(* What the compositor sends comes whole. *)
LEMMA OfferSent ==
  ASSUME NEW o \in Offers, NEW m \in Seq(Types)
  PROVE  /\ OfferTo(o, m) \in Seq(Tidings \ Sends) /\ Whole(OfferTo(o, m))
         /\ OfferTo(o, m) \o Selection(o, m) \in Seq(Tidings \ Sends)
         /\ Whole(OfferTo(o, m) \o Selection(o, m))
<1> DEFINE n == Len(m)
           s == OfferTo(o, m)
           t == s \o Selection(o, m)
           e == [type |-> "selection", offer |-> o, mimes |-> m]
<1>1. n \in Nat /\ DOMAIN m = 1 .. n /\ \A j \in 1 .. n : m[j] \in Types
  OBVIOUS
<1>2. \A j \in 1 .. n : offer_event(m[j]) \in Mimes
  BY <1>1 DEF offer_event, Mimes
<1>3. data_offer_event(o) \in DataOffers /\ e \in Selections /\ e.offer # NULL
  BY CopyTransfersAssumption DEF data_offer_event, DataOffers, Selections
<1>4. /\ DataOffers \subseteq Tidings \ Sends /\ Mimes \subseteq Tidings \ Sends
      /\ Selections \subseteq Tidings \ Sends
      /\ DataOffers \cap Selections = {} /\ Mimes \cap Selections = {}
  BY DEF Tidings, Sends, DataOffers, Mimes, Selections
<1> DEFINE u == [k \in 1 .. n |-> offer_event(m[k])]
<1>5. u \in Seq(Tidings \ Sends) /\ Len(u) = n /\ \A j \in 1 .. n : u[j] = offer_event(m[j])
  <2>1. \A j \in 1 .. n : offer_event(m[j]) \in Tidings \ Sends
    BY <1>2, <1>4
  <2> HIDE DEF offer_event
  <2>2. u \in [1 .. n -> Tidings \ Sends]
    BY <2>1
  <2>3. \A f \in [1 .. n -> Tidings \ Sends] : f \in Seq(Tidings \ Sends) /\ Len(f) = n
    BY <1>1
  <2> QED BY <2>2, <2>3
<1>6. s = <<data_offer_event(o)>> \o u
  BY <1>1 DEF OfferTo, data_offer_event, offer_event
<1> HIDE DEF u, s, e
<1>7. <<data_offer_event(o)>> \in Seq(Tidings \ Sends)
  <2>1. data_offer_event(o) \in Tidings \ Sends
    BY <1>3, <1>4
  <2> HIDE DEF data_offer_event
  <2> QED BY <2>1
<1>8. /\ s \in Seq(Tidings \ Sends) /\ Len(s) = n + 1 /\ s[1] = data_offer_event(o)
      /\ \A j \in 1 .. n : s[j + 1] = offer_event(m[j])
  <2>1. PICK x : x = data_offer_event(o)
    OBVIOUS
  <2>2. /\ <<x>> \o u \in Seq(Tidings \ Sends) /\ Len(<<x>> \o u) = n + 1
        /\ (<<x>> \o u)[1] = x
        /\ \A j \in 1 .. n : (<<x>> \o u)[j + 1] = u[j]
    BY <1>1, <1>5, <1>7, <2>1
  <2> QED BY <1>5, <1>6, <2>1, <2>2
<1>9. /\ t \in Seq(Tidings \ Sends) /\ Len(t) = n + 2
      /\ \A j \in 1 .. n + 1 : t[j] = s[j]
      /\ t[n + 2] = e
  <2>1. PICK x \in Tidings \ Sends : x = e
    BY <1>3, <1>4
  <2>2. /\ s \o <<x>> \in Seq(Tidings \ Sends) /\ Len(s \o <<x>>) = n + 2
        /\ (s \o <<x>>)[n + 2] = x
        /\ \A j \in 1 .. n + 1 : (s \o <<x>>)[j] = s[j]
    BY <1>1, <1>8
  <2>3. t = s \o <<x>>
    BY <2>1 DEF Selection, e
  <2> QED BY <2>1, <2>2, <2>3
<1> HIDE DEF t
<1>10. /\ \A k \in 1 .. n + 1 : s[k] \notin Selections
       /\ s[1] \in DataOffers /\ t[1] \in DataOffers
  <2>1. ASSUME NEW k \in 1 .. n + 1 PROVE s[k] \notin Selections
    <3>1. CASE k = 1
      BY <1>3, <1>4, <1>8, <3>1
    <3>2. CASE k # 1
      <4>1. k - 1 \in 1 .. n /\ (k - 1) + 1 = k
        BY <1>1, <3>2
      <4>2. s[k] = offer_event(m[k - 1])
        BY <1>8, <4>1
      <4>3. s[k] \in Mimes
        BY <1>2, <4>1, <4>2
      <4> QED BY <1>4, <4>3
    <3> QED BY <3>1, <3>2
  <2>2. 1 \in 1 .. n + 1
    BY <1>1
  <2> QED BY <1>3, <1>8, <1>9, <2>1, <2>2
<1>11. Whole(s)
  <2>1. Selecting(s) = {}
    BY <1>8, <1>10 DEF Selecting
  <2>2. Headed(s, NULL)
    BY <1>8, <1>10 DEF Headed
  <2> QED BY <2>1, <2>2 DEF Whole
<1>12. Whole(t)
  <2>1. Selecting(t) \subseteq {n + 2}
    <3>1. \A k \in 1 .. n + 2 : k \in 1 .. n + 1 \/ k = n + 2
      BY <1>1
    <3> QED BY <1>9, <1>10, <3>1 DEF Selecting
  <2>2. Headed(t, NULL)
    BY <1>9, <1>10 DEF Headed
  <2>3. ASSUME NEW k \in Selecting(t)
        PROVE  /\ k > Len(t[k].mimes) + 1
               /\ t[k - Len(t[k].mimes) - 1] = data_offer_event(t[k].offer)
               /\ \A j \in 1 .. Len(t[k].mimes) :
                    t[k - Len(t[k].mimes) - 1 + j] = offer_event(t[k].mimes[j])
    <3>1. k = n + 2 /\ t[k] = e /\ e.mimes = m /\ e.offer = o
      BY <1>9, <2>1 DEF e
    <3>2. k > n + 1 /\ k - n - 1 = 1
      BY <1>1, <3>1
    <3>3. t[1] = data_offer_event(o)
      BY <1>1, <1>8, <1>9
    <3>4. ASSUME NEW j \in 1 .. n PROVE t[k - n - 1 + j] = offer_event(m[j])
      <4>1. k - n - 1 + j = j + 1 /\ j + 1 \in 1 .. n + 1
        BY <1>1, <3>1
      <4> QED BY <1>8, <1>9, <4>1
    <3> QED BY <3>1, <3>2, <3>3, <3>4
  <2> QED BY <2>2, <2>3 DEF Whole
<1> QED BY <1>8, <1>9, <1>11, <1>12 DEF s, t
(* Events about nothing that is offered. *)
LEMMA SmallSent ==
  /\ Selection(NULL, <<>>) \in Seq(Tidings \ Sends) /\ Whole(Selection(NULL, <<>>))
  /\ \A fd \in Fds : <<send(fd)>> \in Seq(Tidings) /\ Whole(<<send(fd)>>)
<1>1. ASSUME NEW e \in Selections \cup Sends, e \in Sends \/ e.offer = NULL
      PROVE  <<e>> \in Seq(Tidings) /\ Whole(<<e>>)
  <2>1. e \in Tidings /\ e \notin Mimes /\ (e \in Selections => e.offer = NULL)
    BY <1>1 DEF Tidings, Mimes, Selections, Sends
  <2>2. Len(<<e>>) = 1 /\ <<e>>[1] = e /\ <<e>> \in Seq(Tidings)
    BY <2>1
  <2>3. Selecting(<<e>>) = {}
    BY <2>1, <2>2 DEF Selecting
  <2>4. Headed(<<e>>, NULL)
    BY <2>1, <2>2 DEF Headed
  <2> QED BY <2>2, <2>3, <2>4 DEF Whole
<1> DEFINE e == [type |-> "selection", offer |-> NULL, mimes |-> <<>>]
<1>2. e \in Selections /\ e.offer = NULL /\ e \in Tidings \ Sends
  <2>1. <<>> \in Seq(Types)
    OBVIOUS
  <2> QED BY <2>1 DEF Selections, Tidings, Sends
<1>3. Selection(NULL, <<>>) = <<e>>
  BY DEF Selection
<1> HIDE DEF e
<1>4. <<e>> \in Seq(Tidings \ Sends) /\ Whole(<<e>>)
  BY <1>1, <1>2
<1> QED BY <1>1, <1>3, <1>4, SendKinds

(* The inductive invariant. *)
TransferInv == TableInv /\ Coming(events, data_offer, offer_list)

(* Nothing is polled but the display, and nothing is on its way. *)
LEMMA TransfersStart == TransferInit => TransferInv
<1> SUFFICES ASSUME TransferInit PROVE TransferInv
  OBVIOUS
<1>1. /\ fd_set = <<DisplayEntry>> /\ open = {} /\ events = <<>>
      /\ data_offer = NULL /\ offer_list = <<>>
  BY DEF TransferInit
<1>2. DisplayEntry \in Polled
  BY DEF DisplayEntry, Polled
<1>3. DisplayEntry.refcount = 1
  BY DEF DisplayEntry
<1>4. PICK x : x = DisplayEntry
  OBVIOUS
<1>5. <<x>> \in Seq(Polled) /\ Len(<<x>>) = 1 /\ <<x>>[1] = x
  BY <1>2, <1>4
<1>6. Sound(fd_set, open)
  BY <1>1, <1>3, <1>4, <1>5 DEF Sound
<1>7. <<>> \in Seq(Tidings) /\ <<>> \in Seq(Types) /\ Len(<<>>) = 0
  OBVIOUS
<1>8. TableInv
  BY <1>1, <1>6, <1>7 DEF TableInv, Awaited
<1>9. Coming(events, data_offer, offer_list)
  BY <1>1, <1>7 DEF Coming, Headed, Selecting
<1> QED BY <1>8, <1>9 DEF TransferInv

(* An event is handled: the offer and its types are kept up with. *)
LEMMA OffersHandled ==
  TransferInv /\ TransferDispatch => Coming(events, data_offer, offer_list)'
<1> SUFFICES ASSUME TransferInv, TransferDispatch
             PROVE  Coming(events, data_offer, offer_list)'
  OBVIOUS
<1>1. /\ events # <<>> /\ events' = Tail(events)
      /\ Head(events).type \in {"send", "data_offer", "offer", "selection"}
  BY DEF TransferDispatch, data_source_send, data_device_data_offer, data_offer_offer,
         data_device_selection, HandleAlive, Handle
<1>2. Head(events) \in Tidings /\ events \in Seq(Tidings) /\ Coming(events, data_offer, offer_list)
  BY <1>1, InTail DEF TransferInv, TableInv
<1> DEFINE e == Head(events)
<1>3. /\ e.type = "data_offer" <=> e \in DataOffers
      /\ e.type = "offer" <=> e \in Mimes
  BY <1>2, TransferKinds
<1>4. /\ e \in DataOffers => /\ data_offer' = e.offer
                             /\ offer_list' = IF data_offer = NULL THEN offer_list ELSE <<>>
      /\ e \in Mimes => data_offer' = data_offer /\ offer_list' = <<e.mime>> \o offer_list
      /\ e \notin DataOffers \cup Mimes => data_offer' = data_offer /\ offer_list' = offer_list
  <2>1. CASE data_source_send
    BY <1>3, <2>1 DEF data_source_send, HandleAlive, Handle
  <2>2. CASE data_device_data_offer
    BY <1>3, <2>2 DEF data_device_data_offer, HandleAlive, Handle, Cleared
  <2>3. CASE data_offer_offer
    BY <1>3, <2>3 DEF data_offer_offer, HandleAlive, Handle
  <2>4. CASE data_device_selection
    BY <1>3, <2>4 DEF data_device_selection, HandleAlive, Handle
  <2> QED BY <2>1, <2>2, <2>3, <2>4 DEF TransferDispatch
<1>5. PICK q, d, l, a, b : /\ q = events /\ d = data_offer /\ l = offer_list
                           /\ a = data_offer' /\ b = offer_list'
  OBVIOUS
<1>6. Coming(Tail(q), a, b)
  <2>1. q \in Seq(Tidings) /\ q # <<>> /\ Coming(q, d, l)
    BY <1>1, <1>2, <1>5
  <2>2. /\ Head(q) \in DataOffers => a = Head(q).offer /\ b = IF d = NULL THEN l ELSE <<>>
        /\ Head(q) \in Mimes => a = d /\ b = <<Head(q).mime>> \o l
        /\ Head(q) \notin DataOffers \cup Mimes => a = d /\ b = l
    BY <1>4, <1>5
  <2> QED BY <2>1, <2>2, ComingTail
<1> QED BY <1>1, <1>5, <1>6

(* The compositor sends offers whole. *)
LEMMA OffersSent ==
  ASSUME TransferInv, OtherCopies \/ OtherDrags \/ NoSelection \/ OtherPastes
  PROVE  /\ Coming(events, data_offer, offer_list)'
         /\ ~OtherPastes => /\ UNCHANGED <<mode, fd_set, open>>
                            /\ \E msgs \in Seq(Tidings \ Sends) : events' = events \o msgs
<1>1. ASSUME NEW msgs \in Seq(Tidings), Whole(msgs), events' = events \o msgs,
             UNCHANGED <<data_offer, offer_list>>
      PROVE  Coming(events, data_offer, offer_list)'
  <2>1. events \in Seq(Tidings) /\ Coming(events, data_offer, offer_list)
    BY DEF TransferInv, TableInv
  <2> QED BY <1>1, <2>1, ComingConcat
<1>2. \A msgs \in Seq(Tidings \ Sends) : msgs \in Seq(Tidings)
  OBVIOUS
<1>3. \A m \in Announced : m \in Seq(Types)
  BY DEF Announced
<1>4. ASSUME OtherCopies \/ OtherDrags \/ NoSelection
      PROVE  /\ UNCHANGED <<mode, fd_set, open, data_offer, offer_list>>
             /\ \E msgs \in Seq(Tidings \ Sends) : Whole(msgs) /\ events' = events \o msgs
  <2>1. CASE OtherCopies
    <3>1. PICK o \in Offers, m \in Announced :
            Send(OfferTo(o, m) \o Selection(o, m)) /\ UNCHANGED <<open, pipes>>
      BY <2>1 DEF OtherCopies
    <3> QED BY <1>3, <3>1, OfferSent DEF Send
  <2>2. CASE OtherDrags
    <3>1. PICK o \in Offers, m \in Announced :
            Send(OfferTo(o, m)) /\ UNCHANGED <<open, pipes>>
      BY <2>2 DEF OtherDrags
    <3> QED BY <1>3, <3>1, OfferSent DEF Send
  <2>3. CASE NoSelection
    BY <2>3, SmallSent DEF NoSelection, Send
  <2> QED BY <1>4, <2>1, <2>2, <2>3
<1>5. CASE OtherCopies \/ OtherDrags \/ NoSelection
  BY <1>1, <1>2, <1>4, <1>5
<1>6. CASE OtherPastes
  <2>1. PICK fd \in Fds : events' = events \o <<send(fd)>> /\ UNCHANGED <<data_offer, offer_list>>
    BY <1>6 DEF OtherPastes, Send, send
  <2> QED BY <1>1, <1>4, <2>1, SmallSent
<1> QED BY <1>4, <1>5, <1>6

(* Every step of copy-fu, the other clients and the compositor. *)
LEMMA TransfersStep == TransferInv /\ [TransferNext]_transferVars => TransferInv'
<1> SUFFICES ASSUME TransferInv, [TransferNext]_transferVars PROVE TransferInv'
  OBVIOUS
<1>0. TableInv /\ Coming(events, data_offer, offer_list)
  BY DEF TransferInv
<1>1. ASSUME UNCHANGED <<mode, fd_set, open, events, data_offer, offer_list>>
      PROVE  TransferInv'
  BY <1>0, <1>1 DEF TransferInv, TableInv
<1>2. CASE TransferDispatch
  <2>1. TableInv'
    <3>1. CASE data_source_send
      BY <1>0, <3>1, SendTaken
    <3>2. CASE data_device_data_offer \/ data_offer_offer
      <4>1. /\ events # <<>> /\ Head(events).type \in {"data_offer", "offer"}
            /\ events' = Tail(events) /\ UNCHANGED <<mode, fd_set, open>>
        BY <3>2 DEF data_device_data_offer, data_offer_offer, HandleAlive, Handle, tableVars
      <4>2. Head(events) \notin Sends
        BY <4>1 DEF Sends
      <4> QED BY <1>0, <4>1, <4>2, TableQuiet
    <3>3. CASE data_device_selection
      <4>1. Len(offer_list) \in Nat
        <5>1. offer_list \in Seq(Types)
          BY <1>0 DEF Coming
        <5> QED BY <5>1
      <4> QED BY <1>0, <3>3, <4>1, SelectionTaken
    <3> QED BY <1>2, <3>1, <3>2, <3>3 DEF TransferDispatch
  <2> QED BY <1>2, <2>1, OffersHandled DEF TransferInv
<1>3. CASE TransferLoop
  <2>1. UNCHANGED <<events, data_offer, offer_list>>
    BY <1>3 DEF TransferLoop
  <2> QED BY <1>0, <1>3, <2>1, TransferLoopKeeps DEF TransferInv
<1>4. CASE Killed
  BY <1>1, <1>4 DEF Killed, tableVars
<1>5. CASE OtherCopies \/ OtherDrags \/ NoSelection
  <2>1. Coming(events, data_offer, offer_list)'
    BY <1>5, OffersSent
  <2>2. CASE OtherPastes
    BY <1>0, <2>1, <2>2, PasteSent DEF TransferInv
  <2>3. CASE ~OtherPastes
    <3>1. /\ UNCHANGED <<mode, fd_set, open>>
          /\ \E msgs \in Seq(Tidings \ Sends) : events' = events \o msgs
      BY <1>5, <2>3, OffersSent
    <3> QED BY <1>0, <2>1, <3>1, TableQuiet DEF TransferInv
  <2> QED BY <2>2, <2>3
<1>6. CASE OtherPastes
  BY <1>0, <1>6, OffersSent, PasteSent DEF TransferInv
<1>7. CASE \E fd \in Fds : PeerWrites(fd) \/ PeerReads(fd) \/ PeerCloses(fd)
  BY <1>1, <1>7 DEF PeerWrites, PeerReads, PeerCloses, Peer
<1>8. CASE UNCHANGED transferVars
  BY <1>1, <1>8 DEF transferVars, tableVars
<1> QED BY <1>2, <1>3, <1>4, <1>5, <1>6, <1>7, <1>8 DEF TransferNext

(* The invariant. *)
THEOREM TransferInvariant == TransferSpec => []TransferInv
BY TransfersStart, TransfersStep, PTL DEF TransferSpec

(* TableSound: what is polled is open, polled once and referenced once, whichever
   entries end and whichever numbers are used again. *)
THEOREM TableIsSound == TransferSpec => []TableSound
<1>1. TransferInv => TableSound
  <2> SUFFICES ASSUME TransferInv PROVE TableSound
    OBVIOUS
  <2>1. /\ fd_set \in Seq(Polled) /\ Sound(fd_set, open) /\ Awaited(events, fd_set, open)
        /\ events \in Seq(Tidings)
    BY DEF TransferInv, TableInv, Sound
  <2>2. DOMAIN fd_set = 1 .. Len(fd_set) /\ DOMAIN events = 1 .. Len(events)
    BY <2>1
  <2>3. IsInjective([k \in DOMAIN fd_set |-> fd_set[k].fd])
    BY <2>1, <2>2 DEF Sound, IsInjective
  <2>4. Transfers \subseteq open
    BY <2>1 DEF Transfers, Sound
  <2>5. Transfers \cap Requested = {}
    <3> SUFFICES ASSUME NEW k \in 2 .. Len(fd_set), NEW j \in 1 .. Len(events),
                        events[j].type = "send"
                 PROVE  fd_set[k].fd # events[j].fd
      BY <2>2 DEF Transfers, Requested
    <3>1. events[j] \in Tidings
      BY <2>1
    <3>2. events[j] \in Sends /\ k \in 1 .. Len(fd_set)
      BY <3>1, TransferKinds
    <3> QED BY <2>1, <3>2 DEF Awaited
  <2> QED BY <2>1, <2>2, <2>3, <2>4, <2>5 DEF TableSound, Sound
<1> QED BY <1>1, TransferInvariant, PTL

(* OpenAccounted: no descriptor is forgotten, in any mode but recv-file. *)
THEOREM OpenIsAccounted == TransferSpec => []OpenAccounted
<1>1. TransferInv => OpenAccounted
  <2> SUFFICES ASSUME TransferInv, mode # "RECV_FILE" PROVE open = Transfers \cup Requested
    BY DEF OpenAccounted
  <2>1. /\ fd_set \in Seq(Polled) /\ Sound(fd_set, open) /\ Awaited(events, fd_set, open)
        /\ events \in Seq(Tidings) /\ open \subseteq Fds
        /\ \A fd \in open : Traced(fd, fd_set, events)
    BY DEF TransferInv, TableInv, Sound
  <2>2. DOMAIN events = 1 .. Len(events)
    BY <2>1
  <2>3. \A j \in 1 .. Len(events) : events[j] \in Tidings
    BY <2>1
  <2>4. ASSUME NEW fd \in open PROVE fd \in Transfers \cup Requested
    <3>1. CASE \E k \in 2 .. Len(fd_set) : fd_set[k].fd = fd
      BY <3>1 DEF Transfers
    <3>2. CASE \E k \in 1 .. Len(events) : events[k] = send(fd)
      <4>1. PICK k \in 1 .. Len(events) : events[k] = send(fd)
        BY <3>2
      <4>2. events[k].type = "send" /\ events[k].fd = fd
        BY <4>1 DEF send
      <4> QED BY <2>2, <4>2 DEF Requested
    <3> QED BY <2>1, <3>1, <3>2 DEF Traced
  <2>5. Transfers \subseteq open
    BY <2>1 DEF Transfers, Sound
  <2>6. Requested \subseteq open
    <3> SUFFICES ASSUME NEW j \in 1 .. Len(events), events[j].type = "send"
                 PROVE  events[j].fd \in open
      BY <2>2 DEF Requested
    <3>1. events[j] \in Sends
      BY <2>3, TransferKinds
    <3> QED BY <2>1, <3>1 DEF Awaited
  <2> QED BY <2>4, <2>5, <2>6
<1> QED BY <1>1, TransferInvariant, PTL

(* SelectionIsOffer: however offers, drags and selections follow each other, what is
   received is of the offer the selection names. *)
THEOREM SelectionsAreOffers == TransferSpec => []SelectionIsOffer
<1>1. TransferInv => SelectionIsOffer
  <2> SUFFICES ASSUME TransferInv, events # <<>>, Head(events).type = "selection",
                      Head(events).offer # NULL
               PROVE  /\ data_offer = Head(events).offer
                      /\ offer_list = Reverse(Head(events).mimes)
    BY DEF SelectionIsOffer
  <2> DEFINE e == Head(events)
             n == Len(e.mimes)
  <2>1. /\ events \in Seq(Tidings) /\ Coming(events, data_offer, offer_list)
        /\ e \in Tidings /\ e = events[1] /\ 1 \in 1 .. Len(events)
    BY InTail DEF TransferInv, TableInv
  <2>2. e \in Selections
    BY <2>1, TransferKinds
  <2>3. e.mimes \in Seq(Types) /\ n \in Nat
    <3>1. e.mimes \in Seq(Types)
      BY <2>2 DEF Selections
    <3> QED BY <3>1
  <2>4. AnnouncesThe(e, n, events, 1, data_offer, offer_list)
    BY <2>1, <2>2 DEF Coming, Selecting, Announces
  <2> HIDE DEF n
  <2>5. /\ data_offer = e.offer
        /\ Len(offer_list) = n
        /\ \A j \in 1 .. n : offer_list[j] = e.mimes[n - j + 1]
    <3>1. /\ data_offer = e.offer
          /\ Len(offer_list) = n - 1 + 1
          /\ \A j \in 1 .. n - 1 + 1 : offer_list[j] = e.mimes[n - 1 + 2 - j]
      BY <2>3, <2>4 DEF AnnouncesThe
    <3>2. \A j \in 1 .. n : n - 1 + 2 - j = n - j + 1
      BY <2>3
    <3> QED BY <2>3, <3>1, <3>2
  <2>6. offer_list = [j \in 1 .. n |-> e.mimes[n - j + 1]]
    <3>1. offer_list \in Seq(Types)
      BY <2>1 DEF Coming
    <3>2. DOMAIN offer_list = 1 .. n /\ offer_list = [j \in DOMAIN offer_list |-> offer_list[j]]
      BY <2>5, <3>1
    <3> QED BY <2>5, <3>2
  <2> QED BY <2>5, <2>6 DEF Reverse, n
<1> QED BY <1>1, TransferInvariant, PTL

-------------------------------------------------------------------------------
(* Only a turn of the loop takes an entry from the table: handlers append. *)
LEMMA OnlyLoopRemoves ==
  ASSUME TransferInv, [TransferNext]_transferVars, ~TransferLoop
  PROVE  Transfers \subseteq Transfers'
<1>1. fd_set \in Seq(Polled) /\ Len(fd_set) \in Nat
  <2>1. fd_set \in Seq(Polled)
    BY DEF TransferInv, TableInv, Sound
  <2> QED BY <2>1
<1>2. CASE data_source_send
  <2>1. PICK x \in Polled : fd_set' = Append(fd_set, x)
    <3>1. fd_set' = Append(fd_set, polled(Head(events).fd, TRUE)) /\ events # <<>>
          /\ Head(events).type = "send"
      BY <1>2 DEF data_source_send, HandleAlive, Handle
    <3>2. Head(events) \in Tidings
      BY <3>1, InTail DEF TransferInv, TableInv
    <3>3. Head(events).fd \in Fds
      BY <3>1, <3>2, TransferKinds
    <3>4. polled(Head(events).fd, TRUE) \in Polled
      BY <3>3 DEF polled, Polled
    <3> QED BY <3>1, <3>4
  <2>2. /\ Len(Append(fd_set, x)) = Len(fd_set) + 1
        /\ \A k \in 1 .. Len(fd_set) : Append(fd_set, x)[k] = fd_set[k]
    BY <1>1
  <2>3. \A k \in 2 .. Len(fd_set) : k \in 2 .. Len(fd_set') /\ fd_set'[k] = fd_set[k]
    BY <1>1, <2>1, <2>2
  <2> QED BY <2>3 DEF Transfers
<1>3. CASE \E fds \in Opened(Len(offer_list)) : receive_offers(fds)
  <2>1. PICK fds \in Opened(Len(offer_list)) : receive_offers(fds)
    BY <1>3
  <2>2. PICK m \in Nat : fds \in [1 .. m -> Fds \ open]
    <3>1. Len(offer_list) \in Nat
      <4>1. offer_list \in Seq(Types)
        BY DEF TransferInv, Coming
      <4> QED BY <4>1
    <3>2. PICK m \in 0 .. Len(offer_list) : fds \in [1 .. m -> Fds \ open]
      BY <2>1 DEF Opened
    <3> QED BY <3>1, <3>2
  <2> DEFINE s == [k \in DOMAIN fds |-> polled(fds[k], FALSE)]
  <2>3. s \in [1 .. m -> Polled]
    <3>1. \A fd \in Fds : polled(fd, FALSE) \in Polled
      BY DEF polled, Polled
    <3> QED BY <2>2, <3>1
  <2>4. fd_set' = fd_set \o s
    BY <2>1 DEF receive_offers
  <2> HIDE DEF s
  <2>5. s \in Seq(Polled)
    BY <2>2, <2>3
  <2>6. /\ Len(fd_set \o s) >= Len(fd_set) /\ Len(fd_set \o s) \in Nat
        /\ \A k \in 1 .. Len(fd_set) : (fd_set \o s)[k] = fd_set[k]
    BY <1>1, <2>5
  <2>7. \A k \in 2 .. Len(fd_set) : k \in 2 .. Len(fd_set') /\ fd_set'[k] = fd_set[k]
    BY <1>1, <2>4, <2>6
  <2> QED BY <2>7 DEF Transfers
<1>4. CASE UNCHANGED fd_set
  BY <1>4 DEF Transfers
<1> QED BY <1>2, <1>3, <1>4 DEF TransferNext, TransferDispatch, data_device_data_offer,
             data_offer_offer, data_device_selection, receive_to_file, Killed, OtherCopies,
             OtherDrags, NoSelection, OtherPastes, Send, PeerWrites, PeerReads, PeerCloses,
             Peer, transferVars, tableVars

(* What the loop takes out is over: an entry has one direction and is not polled
   twice, so either the reader was told of a hangup or the writer has written. *)
LEMMA LoopRemovesWhatIsOver ==
  ASSUME TransferInv, TransferLoop, NEW fd \in Transfers \ Transfers'
  PROVE  IF fd \in Receiving THEN ~pipes[fd].peer
         ELSE pipes[fd].held < Room /\ (mode = "CAT_RANDOM" => ~urandom)
<1>1. TableInv /\ fd_set' = Kept
  BY DEF TransferInv, TransferLoop
<1>2. PICK k \in 2 .. Len(fd_set) : fd_set[k].fd = fd
  BY DEF Transfers
<1>3. ServedTable[k].refcount \in Nat
  <2>1. k \in 1 .. Len(fd_set)
    BY <1>1, <1>2, Served
  <2>2. ServedTable[k] \in Polled
    BY <1>1, <2>1, Served
  <2> QED BY <2>2 DEF Polled
<1>4. ~(ServedTable[k].refcount > 0)
  <2> SUFFICES ASSUME ServedTable[k].refcount > 0 PROVE FALSE
    OBVIOUS
  <2>1. PICK m \in 2 .. Len(Kept) : Kept[m] = fd_set[k]
    BY <1>1, <1>2, Remains
  <2>2. m \in 2 .. Len(fd_set') /\ fd_set'[m].fd = fd
    BY <1>1, <1>2, <2>1
  <2>3. fd \in Transfers'
    BY <2>2 DEF Transfers
  <2> QED BY <2>3
<1>5. Wrote(fd_set[k]) \/ POLLHUP(fd_set[k])
  <2>1. ServedTable[k].refcount <= 0
    BY <1>3, <1>4
  <2> QED BY <1>1, <1>2, <2>1, Served
<1>6. /\ fd_set \in Seq(Polled) /\ Sound(fd_set, open) /\ DOMAIN fd_set = 1 .. Len(fd_set)
      /\ k \in 1 .. Len(fd_set)
  <2>1. fd_set \in Seq(Polled) /\ Sound(fd_set, open)
    BY <1>1 DEF TableInv, Sound
  <2> QED BY <2>1
<1>7. fd_set[k].recv = ~fd_set[k].send /\ fd_set[k].send \in BOOLEAN /\ fd_set[k].recv \in BOOLEAN
  <2>1. fd_set[k] \in Polled
    BY <1>6
  <2>2. fd_set[k].send \in BOOLEAN /\ fd_set[k].recv \in BOOLEAN
    BY <2>1 DEF Polled
  <2>3. fd_set[k].recv = ~fd_set[k].send
    BY <1>6, <2>2 DEF Sound
  <2> QED BY <2>2, <2>3
<1>8. fd \in Receiving <=> fd_set[k].recv
  <2>1. \A j \in 1 .. Len(fd_set) : fd_set[j].fd = fd_set[k].fd => j = k
    BY <1>6 DEF Sound
  <2>2. ASSUME fd \in Receiving PROVE fd_set[k].recv
    <3>1. PICK j \in 1 .. Len(fd_set) : fd_set[j].recv /\ fd_set[j].fd = fd
      BY <1>6, <2>2 DEF Receiving
    <3> QED BY <1>2, <2>1, <3>1
  <2>3. ASSUME fd_set[k].recv PROVE fd \in Receiving
    BY <1>2, <1>6, <2>3 DEF Receiving
  <2> QED BY <2>2, <2>3
<1>9. CASE fd_set[k].recv
  <2>1. ~fd_set[k].send
    BY <1>7, <1>9
  <2>2. ~pipes[fd].peer
    BY <1>2, <1>5, <2>1 DEF Wrote, POLLOUT, POLLHUP
  <2> QED BY <1>8, <1>9, <2>2
<1>10. CASE ~fd_set[k].recv
  <2>1. pipes[fd].held < Room /\ (mode = "CAT_RANDOM" => ~urandom)
    BY <1>2, <1>5, <1>10 DEF Wrote, POLLOUT, POLLHUP
  <2> QED BY <1>8, <1>10, <2>1
<1> QED BY <1>9, <1>10

(* LeftWhenOver: a transfer leaves the table in a turn of the loop that found it
   at its end, and in no other step. *)
THEOREM TransfersLeaveWhenOver == TransferSpec => LeftWhenOver
<1> DEFINE A == \A fd \in Transfers \ Transfers' :
                  IF fd \in Receiving THEN ~pipes[fd].peer
                  ELSE pipes[fd].held < Room /\ (mode = "CAT_RANDOM" => ~urandom)
<1>1. TransferInv /\ [TransferNext]_transferVars => [A]_transferVars
  <2> SUFFICES ASSUME TransferInv, [TransferNext]_transferVars PROVE A
    OBVIOUS
  <2>1. CASE TransferLoop
    BY <2>1, LoopRemovesWhatIsOver
  <2>2. CASE ~TransferLoop
    <3>1. Transfers \subseteq Transfers'
      BY <2>2, OnlyLoopRemoves
    <3> QED BY <3>1
  <2> QED BY <2>1, <2>2
<1>2. LeftWhenOver <=> [][A]_transferVars
  BY DEF LeftWhenOver
<1> HIDE DEF A
<1>3. TransferSpec => [][A]_transferVars
  BY <1>1, TransferInvariant, PTL DEF TransferSpec
<1> QED BY <1>2, <1>3
===============================================================================
