---------------------------- MODULE StartupProofs ----------------------------
(***************************************************************************)
(* The invariants of the start, for every compositor and any number of     *)
(* inputs.  They all come from the order in which requests are read and    *)
(* events handled: what a request causes comes before what a later request *)
(* causes.  So what was asked for before a sync, or what came of it, is    *)
(* Ahead of the end of the roundtrip until it has been handled.            *)
(*                                                                         *)
(* The invariant of a running program is Line, stated for a client c with  *)
(* the events e and the requests r on their way, so that it can be shown   *)
(* to survive one event handled (Handles), a batch (Batch) and a call.     *)
(***************************************************************************)
EXTENDS Startup, WellFoundedInduction, TLAPS

Surfaces == Subsurface \cup {"main"}

Clients == [bound : SUBSET STRING, pointer : BOOLEAN,
            current : Surfaces \cup {"none"}, selected : Subsurface \cup {"none"}]

PointerEvents == {"enter", "leave", "button"}

EventSet ==
  [type : {"global"}, global : STRING, registry : {1, 2}]
    \cup [type : {"capabilities"}, pointer : BOOLEAN]
    \cup [type : {"done", "configure", "ping", "close", "leave"}]
    \cup [type : {"enter"}, surface : Surfaces]
    \cup [type : {"button"}, released : BOOLEAN, button : {"left", "middle", "right"}]

RequestSet ==
  [type : {"get_registry"}, registry : {1, 2}]
    \cup [type : {"bind"}, global : STRING]
    \cup [type : {"sync", "commit", "ack", "frame", "create_pool", "get_pointer",
                  "pong"}]
    \cup [type : {"place"}, how : {"above", "below"}, surface : Subsurface,
          ref : Surfaces]

Typed(c, e, r) == c \in Clients /\ e \in Seq(EventSet) /\ r \in Seq(RequestSet)

UserTyped == /\ focus \in Surfaces \cup {"none"}
             /\ chosen \in Subsurface \cup {"none"}
             /\ program # "subsurfaces" =>
                  focus = "none" /\ chosen = "none" /\ intent = FirstStack
             /\ program \in AllPrograms /\ pc \in Nat \ {0}
             /\ prompt \in BOOLEAN /\ split \in BOOLEAN
             /\ seat \in {"always", "not", "late", "lost"}
             /\ seat # "not" => Advertised("seat")
             /\ device \in {"none", "seat", "pointer"}
             /\ advert \in Seq(STRING) \ {<<>>}

-------------------------------------------------------------------------------
(* Roundtrips.  What is ahead of one's end, and whether there is one.         *)
Global(g, n) == [type |-> "global", global |-> g, registry |-> n]

GetRegistry(n) == [type |-> "get_registry", registry |-> n]

BindSeat == [type |-> "bind", global |-> "seat"]

HasPointer == Capabilities(TRUE)

AheadRequest(req, e, r) ==
  /\ \A j \in DOMAIN e : e[j].type # "done"
  /\ \E k \in DOMAIN r : r[k] = req /\ \A j \in 1 .. k : r[j].type # "sync"

AheadEvent(ev, e) ==
  \E k \in DOMAIN e : e[k] = ev /\ \A j \in 1 .. k : e[j].type # "done"

Ahead(ev, req, e, r) == AheadEvent(ev, e) \/ AheadRequest(req, e, r)

InFlight(ev, req, e, r) ==
  (\E k \in DOMAIN e : e[k] = ev) \/ (\E k \in DOMAIN r : r[k] = req)

Quiet(e, r) == /\ \A k \in DOMAIN e : e[k].type # "done"
               /\ \A k \in DOMAIN r : r[k].type # "sync"

Once(e, r) ==
  /\ \A j, k \in DOMAIN e : e[j].type = "done" /\ e[k].type = "done" => j = k
  /\ \A j, k \in DOMAIN r : r[j].type = "sync" /\ r[k].type = "sync" => j = k
  /\ \A j \in DOMAIN e, k \in DOMAIN r : ~(e[j].type = "done" /\ r[k].type = "sync")

(* The calls that wait for the end of a roundtrip.                            *)
Awaits(p) == \/ p = 4
             \/ program = "subsurfaces" /\ p = 9
             \/ program \in {"gamma-blend", "sigbus"} /\ p \in {8, 12}

Syncs(e, r) == IF Awaits(pc) THEN Once(e, r) ELSE Quiet(e, r)

(* ev comes before the roundtrip that call p waits for is over. *)
Coming(p, ev, req, e, r) ==
  /\ pc <= p
  /\ pc = p => ~Quiet(e, r)
  /\ Ahead(ev, req, e, r)

(* GlobalsSeen and PointerKnown, with what they need before. *)
Composes == program \in {"subsurfaces", "gamma-blend"}

Second == IF program = "subsurfaces" THEN 9 ELSE 8

Globals(c, e, r) ==
  /\ \A g \in Wanted(1) : pc > 1 /\ Advertised(g) =>
       g \in c.bound \/ Coming(4, Global(g, 1), GetRegistry(1), e, r)
  /\ Composes /\ pc > 6 /\ Advertised("subcompositor") =>
       \/ "subcompositor" \in c.bound
       \/ Coming(Second, Global("subcompositor", 2), GetRegistry(2), e, r)

Pointer(c, e, r) ==
  seat = "always" =>
    /\ "seat" \in c.bound => c.pointer \/ InFlight(HasPointer, BindSeat, e, r)
    /\ pc > 2 /\ Advertised("seat") /\ ~split =>
         c.pointer \/ Coming(4, HasPointer, BindSeat, e, r)
    /\ program = "subsurfaces" /\ pc > 8 /\ Advertised("seat") =>
         c.pointer \/ Coming(9, HasPointer, BindSeat, e, r)

(* RoundtripsAwaited: the pool. *)
PoolOrder(r) ==
  /\ file \in {"none", "whole", "short"}
  /\ pc <= 6 => file = "none"
  /\ \A k \in DOMAIN r : r[k].type = "create_pool" => file = "whole" /\ pool = "none"
  /\ \A j, k \in DOMAIN r :
       r[j].type = "create_pool" /\ r[k].type = "create_pool" => j = k
  /\ file = "none" => pool = "none"
  /\ file = "short" => pool = "whole"

FileMapped(e, r) ==
  program = "sigbus" /\ pc > 6 =>
    \/ pool = "whole"
    \/ /\ pc <= 8
       /\ pc = 8 => ~Quiet(e, r)
       /\ AheadRequest(Msg("create_pool"), e, r)

(* RoundtripsAwaited: the first frame. *)
Acks(r, n) == configured \/ \E j \in 1 .. n : r[j].type = "ack"

FrameOrder(r) ==
  prompt => /\ ~unready
            /\ mapped => configured
            /\ \A k \in DOMAIN r : r[k].type = "frame" => Acks(r, k)

Configures(e, r) ==
  prompt /\ program \in {"gamma-blend", "sigbus"} /\ pc > 10 =>
    Acks(r, Len(r)) \/ Coming(12, Msg("configure"), Msg("commit"), e, r)

(* Nothing happens before the toplevel's commit, in particular in the first   *)
(* batch.                                                                     *)
Early == pc <= 5 \/ (program = "subsurfaces" /\ pc <= 12)

Beginning(e, r) ==
  Early => /\ ~owing /\ ~mapped
           /\ focus = "none" /\ chosen = "none" /\ intent = FirstStack
           /\ \A k \in DOMAIN e : e[k].type \in {"global", "capabilities", "done"}
           /\ \A k \in DOMAIN r :
                r[k].type \in {"get_registry", "bind", "sync", "get_pointer"}

FirstBatch(e, r) ==
  /\ pc <= 2 => device = "none"
  /\ pc = 1 => e = <<>> /\ r = <<>>
  /\ pc = 2 => \/ e = <<>> /\ r = <<GetRegistry(1)>>
               \/ r = <<>> /\ e = [k \in DOMAIN advert |-> Global(advert[k], 1)]

(* StackFollowsClicks: the clicks on their way lead from what the client has  *)
(* to what the user has, and the order from the compositor's to the client's. *)
Reorder(p, q) == IF q.type = "place" THEN Moved(p, q.how, q.surface, q.ref) ELSE p

Reorders(w, p, r) == /\ w[0] = p
                     /\ \A k \in 1 .. Len(r) : w[k] = Reorder(w[k - 1], r[k])

How(button) == IF button = "left" THEN "above" ELSE "below"

State(current, selected, order) ==
  [current |-> current, selected |-> selected, order |-> order]

Click(u, e) ==
  CASE e.type = "enter" -> State(e.surface, u.selected, u.order)
    [] e.type = "leave" -> State("none", u.selected, u.order)
    [] e.type = "button" /\ Selects(u, e) -> State(u.current, u.current, u.order)
    [] e.type = "button" /\ Places(u, e) ->
         State(u.current, "none",
               IF e.button = "middle" THEN u.order
               ELSE Moved(u.order, How(e.button), u.selected, u.current))
    [] OTHER -> u

Meant == IF listening THEN State(focus, chosen, intent)
         ELSE State("none", "none", FirstStack)

Follows(v, u, e) == v[0] = u /\ \A k \in 1 .. Len(e) : v[k] = Click(v[k - 1], e[k])

Clicks(c, e, r) ==
  \E w, v : /\ Reorders(w, pending, r)
            /\ Follows(v, State(c.current, c.selected, w[Len(r)]), e)
            /\ v[Len(e)] = Meant

CommitOrder(r) ==
  /\ stack # pending => \E k \in DOMAIN r : r[k].type \in {"commit", "frame"}
  /\ \A k \in DOMAIN r : r[k].type = "place" =>
       \E j \in DOMAIN r : j > k /\ r[j].type \in {"commit", "frame"}

-------------------------------------------------------------------------------
Line(c, e, r) ==
  /\ Syncs(e, r) /\ Globals(c, e, r) /\ Pointer(c, e, r) /\ FileMapped(e, r)
  /\ Configures(e, r) /\ Beginning(e, r) /\ Clicks(c, e, r)

Orders(r) == PoolOrder(r) /\ FrameOrder(r) /\ CommitOrder(r)

StartInv == /\ Typed(client, events, requests)
            /\ UserTyped
            /\ Orders(requests)
            /\ status = "running" => /\ Line(client, events, requests)
                                     /\ FirstBatch(events, requests)
            /\ status # "running" => GlobalsSeen /\ PointerKnown

-------------------------------------------------------------------------------
(* A set of numbers has a smallest. *)
LEMMA Smallest ==
  ASSUME NEW T \in SUBSET Nat, T # {} PROVE \E x \in T : \A y \in T : x <= y
<1> DEFINE R == {p \in Nat \X Nat : p[1] < p[2]}
<1>1. IsWellFoundedOn(R, Nat)
  BY NatLessThanWellFounded DEF OpToRel
<1> HIDE DEF R
<1>2. PICK x \in T : \A y \in T : ~(<<y, x>> \in R)
  BY <1>1, WFMin
<1>3. ASSUME NEW y \in T, y < x PROVE FALSE
  <2>1. <<y, x>> \in Nat \X Nat /\ <<y, x>>[1] < <<y, x>>[2]
    BY <1>3
  <2>2. <<y, x>> \in R
    BY <2>1 DEF R
  <2> QED BY <1>2, <2>2
<1> QED BY <1>3

(* Induction up to n, over a set. *)
LEMMA CountingTo ==
  ASSUME NEW n \in Nat, NEW S, 0 \in S,
         \A k \in Nat : k < n /\ k \in S => k + 1 \in S
  PROVE  \A k \in 0 .. n : k \in S
<1> DEFINE T == {k \in 0 .. n : k \notin S}
<1> SUFFICES ASSUME T # {} PROVE FALSE
  OBVIOUS
<1>0. T \in SUBSET Nat
  OBVIOUS
<1>1. PICK x \in T : \A y \in T : x <= y
  <2> HIDE DEF T
  <2> QED BY <1>0, Smallest
<1>2. x # 0 /\ x - 1 \in Nat /\ x - 1 \notin T /\ x - 1 < n /\ x - 1 \in 0 .. n
  BY <1>1
<1>3. x - 1 \in S
  BY <1>2
<1>4. (x - 1) + 1 \in S
  BY <1>2, <1>3
<1> QED BY <1>1, <1>4

(* What is in a concatenation is in one of the parts. *)
LEMMA InConcat ==
  ASSUME NEW M, NEW q \in Seq(M), NEW t \in Seq(M)
  PROVE  /\ q \o t \in Seq(M) /\ Len(q \o t) = Len(q) + Len(t)
         /\ Len(q) \in Nat /\ Len(t) \in Nat
         /\ DOMAIN q = 1 .. Len(q) /\ DOMAIN t = 1 .. Len(t)
         /\ DOMAIN (q \o t) = 1 .. Len(q) + Len(t)
         /\ \A j \in 1 .. Len(q) : (q \o t)[j] = q[j]
         /\ \A j \in 1 .. Len(t) : (q \o t)[Len(q) + j] = t[j]
         /\ \A j \in 1 .. Len(q) + Len(t) :
              j \in 1 .. Len(q) \/ (j - Len(q) \in 1 .. Len(t)
                                    /\ (q \o t)[j] = t[j - Len(q)])
<1> DEFINE c == q \o t
<1>1. /\ Len(c) = Len(q) + Len(t) /\ Len(q) \in Nat /\ Len(t) \in Nat
      /\ DOMAIN q = 1 .. Len(q) /\ DOMAIN t = 1 .. Len(t) /\ DOMAIN c = 1 .. Len(c)
      /\ c \in Seq(M)
  OBVIOUS
<1>2. \A j \in 1 .. Len(c) : c[j] = IF j <= Len(q) THEN q[j] ELSE t[j - Len(q)]
  OBVIOUS
<1> HIDE DEF c
<1>3. \A j \in 1 .. Len(q) : c[j] = q[j]
  BY <1>1, <1>2
<1>4. ASSUME NEW j \in 1 .. Len(t) PROVE c[Len(q) + j] = t[j]
  <2>1. Len(q) + j \in 1 .. Len(c) /\ ~(Len(q) + j <= Len(q)) /\ (Len(q) + j) - Len(q) = j
    BY <1>1
  <2> QED BY <1>2, <2>1
<1>5. ASSUME NEW j \in 1 .. Len(q) + Len(t), j \notin 1 .. Len(q)
      PROVE  j - Len(q) \in 1 .. Len(t) /\ c[j] = t[j - Len(q)]
  <2>1. j \in 1 .. Len(c) /\ ~(j <= Len(q)) /\ j - Len(q) \in 1 .. Len(t)
    BY <1>1, <1>5
  <2> QED BY <1>2, <2>1
<1> QED BY <1>1, <1>3, <1>4, <1>5 DEF c

(* A tail has what follows the head, one place earlier. *)
LEMMA InTail ==
  ASSUME NEW M, NEW q \in Seq(M), q # <<>>
  PROVE  /\ Tail(q) \in Seq(M) /\ Head(q) = q[1] /\ q[1] \in M
         /\ Len(q) \in Nat /\ Len(q) >= 1 /\ Len(Tail(q)) = Len(q) - 1
         /\ DOMAIN q = 1 .. Len(q) /\ DOMAIN Tail(q) = 1 .. Len(q) - 1
         /\ \A j \in 1 .. Len(q) - 1 : Tail(q)[j] = q[j + 1]
         /\ \A j \in 1 .. Len(q) :
              j = 1 \/ (j - 1 \in 1 .. Len(q) - 1 /\ Tail(q)[j - 1] = q[j])
<1>1. /\ Len(q) \in Nat /\ Len(q) >= 1 /\ DOMAIN q = 1 .. Len(q)
      /\ Tail(q) \in Seq(M) /\ Head(q) = q[1] /\ Len(Tail(q)) = Len(q) - 1
  OBVIOUS
<1>2. /\ DOMAIN Tail(q) = 1 .. Len(q) - 1
      /\ \A j \in 1 .. Len(q) - 1 : Tail(q)[j] = q[j + 1]
  BY <1>1
<1>3. q[1] \in M
  BY <1>1
<1>4. \A j \in 1 .. Len(q) :
              j = 1 \/ (j - 1 \in 1 .. Len(q) - 1 /\ Tail(q)[j - 1] = q[j])
  BY <1>1, <1>2
<1> QED BY <1>1, <1>2, <1>3, <1>4

-------------------------------------------------------------------------------
(* What is ahead stays ahead, when nothing that ends a roundtrip is added in  *)
(* front of it, when something else is handled, and when a request is read    *)
(* and answered.                                                              *)
LEMMA AheadMore ==
  ASSUME NEW ev, NEW req, NEW e \in Seq(EventSet), NEW es \in Seq(EventSet),
         NEW r \in Seq(RequestSet), NEW q \in Seq(RequestSet),
         \A k \in DOMAIN es : es[k].type # "done"
  PROVE  /\ AheadRequest(req, e, r) => AheadRequest(req, e \o es, r \o q)
         /\ Ahead(ev, req, e, r) => Ahead(ev, req, e \o es, r \o q)
<1> DEFINE d == e \o es
           s == r \o q
<1>1. /\ Len(e) \in Nat /\ Len(r) \in Nat /\ Len(es) \in Nat /\ Len(q) \in Nat
      /\ DOMAIN e = 1 .. Len(e) /\ DOMAIN r = 1 .. Len(r) /\ DOMAIN es = 1 .. Len(es)
      /\ DOMAIN d = 1 .. Len(e) + Len(es) /\ DOMAIN s = 1 .. Len(r) + Len(q)
      /\ \A j \in 1 .. Len(e) : d[j] = e[j]
      /\ \A j \in 1 .. Len(r) : s[j] = r[j]
      /\ \A j \in 1 .. Len(e) + Len(es) :
           j \in 1 .. Len(e) \/ (j - Len(e) \in 1 .. Len(es) /\ d[j] = es[j - Len(e)])
  BY InConcat
<1> HIDE DEF d, s
<1>2. ASSUME AheadRequest(req, e, r) PROVE AheadRequest(req, d, s)
  <2>1. \A j \in DOMAIN d : d[j].type # "done"
    BY <1>1, <1>2 DEF AheadRequest
  <2>2. PICK k \in 1 .. Len(r) : r[k] = req /\ \A j \in 1 .. k : r[j].type # "sync"
    BY <1>1, <1>2 DEF AheadRequest
  <2>3. k \in DOMAIN s /\ s[k] = req /\ \A j \in 1 .. k : s[j].type # "sync"
    BY <1>1, <2>2
  <2> QED BY <2>1, <2>3 DEF AheadRequest
<1>3. ASSUME AheadEvent(ev, e) PROVE AheadEvent(ev, d)
  <2>2. PICK k \in 1 .. Len(e) : e[k] = ev /\ \A j \in 1 .. k : e[j].type # "done"
    BY <1>1, <1>3 DEF AheadEvent
  <2>3. k \in DOMAIN d /\ d[k] = ev /\ \A j \in 1 .. k : d[j].type # "done"
    BY <1>1, <2>2
  <2> QED BY <2>3 DEF AheadEvent
<1> QED BY <1>2, <1>3 DEF Ahead, d, s

(* An event handled that is not ev leaves what is ahead of it. *)
LEMMA AheadTail ==
  ASSUME NEW ev, NEW req, NEW e \in Seq(EventSet), e # <<>>,
         NEW r \in Seq(RequestSet), NEW q \in Seq(RequestSet)
  PROVE  /\ AheadRequest(req, e, r) => AheadRequest(req, Tail(e), r \o q)
         /\ Ahead(ev, req, e, r) => e[1] = ev \/ Ahead(ev, req, Tail(e), r \o q)
         /\ Ahead(ev, req, e, r) => e[1].type # "done"
<1> DEFINE d == Tail(e)
           s == r \o q
<1>1. /\ Len(e) \in Nat /\ Len(e) >= 1 /\ DOMAIN e = 1 .. Len(e)
      /\ DOMAIN d = 1 .. Len(e) - 1
      /\ \A j \in 1 .. Len(e) - 1 : d[j] = e[j + 1]
  BY InTail
<1>2. /\ Len(r) \in Nat /\ Len(q) \in Nat
      /\ DOMAIN r = 1 .. Len(r) /\ DOMAIN s = 1 .. Len(r) + Len(q)
      /\ \A j \in 1 .. Len(r) : s[j] = r[j]
  BY InConcat
<1> HIDE DEF d, s
<1>3. ASSUME AheadRequest(req, e, r) PROVE AheadRequest(req, d, s) /\ e[1].type # "done"
  <2>0. \A j \in 1 .. Len(e) : e[j].type # "done"
    BY <1>1, <1>3 DEF AheadRequest
  <2>1. ASSUME NEW j \in DOMAIN d PROVE d[j].type # "done"
    <3>1. j + 1 \in 1 .. Len(e) /\ d[j] = e[j + 1]
      BY <1>1
    <3> QED BY <2>0, <3>1
  <2>4. e[1].type # "done"
    BY <1>1, <2>0
  <2>2. PICK k \in 1 .. Len(r) : r[k] = req /\ \A j \in 1 .. k : r[j].type # "sync"
    BY <1>2, <1>3 DEF AheadRequest
  <2>3. k \in DOMAIN s /\ s[k] = req /\ \A j \in 1 .. k : s[j].type # "sync"
    BY <1>2, <2>2
  <2> QED BY <2>1, <2>3, <2>4 DEF AheadRequest
<1>4. ASSUME AheadEvent(ev, e)
      PROVE  e[1].type # "done" /\ (e[1] = ev \/ AheadEvent(ev, d))
  <2>1. PICK k \in 1 .. Len(e) : e[k] = ev /\ \A j \in 1 .. k : e[j].type # "done"
    BY <1>1, <1>4 DEF AheadEvent
  <2>2. e[1].type # "done"
    BY <1>1, <2>1
  <2>3. ASSUME k # 1 PROVE AheadEvent(ev, d)
    <3>1. k - 1 \in DOMAIN d /\ d[k - 1] = ev
      BY <1>1, <2>1, <2>3
    <3>2. \A j \in 1 .. k - 1 : d[j].type # "done"
      BY <1>1, <2>1
    <3> QED BY <3>1, <3>2 DEF AheadEvent
  <2> QED BY <2>1, <2>2, <2>3
<1> QED BY <1>3, <1>4 DEF Ahead, d, s

(* A request read and answered by es leaves what is ahead. *)
LEMMA AheadServed ==
  ASSUME NEW ev, NEW req, NEW e \in Seq(EventSet), NEW es \in Seq(EventSet),
         NEW r \in Seq(RequestSet), r # <<>>, req.type # "sync",
         (\E k \in DOMAIN es : es[k].type = "done") => r[1].type = "sync"
  PROVE  /\ AheadRequest(req, e, r) => r[1] = req \/ AheadRequest(req, e \o es, Tail(r))
         /\ (r[1] = req => \E k \in DOMAIN es : es[k] = ev) =>
              (Ahead(ev, req, e, r) => Ahead(ev, req, e \o es, Tail(r)))
<1> DEFINE d == e \o es
           s == Tail(r)
<1>1. /\ Len(e) \in Nat /\ Len(es) \in Nat
      /\ DOMAIN e = 1 .. Len(e) /\ DOMAIN es = 1 .. Len(es)
      /\ DOMAIN d = 1 .. Len(e) + Len(es)
      /\ \A j \in 1 .. Len(e) : d[j] = e[j]
      /\ \A j \in 1 .. Len(es) : d[Len(e) + j] = es[j]
      /\ \A j \in 1 .. Len(e) + Len(es) :
           j \in 1 .. Len(e) \/ (j - Len(e) \in 1 .. Len(es) /\ d[j] = es[j - Len(e)])
  BY InConcat
<1>2. /\ Len(r) \in Nat /\ Len(r) >= 1 /\ DOMAIN r = 1 .. Len(r)
      /\ DOMAIN s = 1 .. Len(r) - 1
      /\ \A j \in 1 .. Len(r) - 1 : s[j] = r[j + 1]
  BY InTail
<1> HIDE DEF d, s
<1>3. ASSUME AheadRequest(req, e, r)
      PROVE  /\ \A j \in DOMAIN d : d[j].type # "done"
             /\ r[1] = req \/ AheadRequest(req, d, s)
  <2>1. PICK k \in 1 .. Len(r) : r[k] = req /\ \A j \in 1 .. k : r[j].type # "sync"
    BY <1>2, <1>3 DEF AheadRequest
  <2>2. r[1].type # "sync"
    BY <1>2, <2>1
  <2>3. \A j \in DOMAIN d : d[j].type # "done"
    BY <1>1, <1>3, <2>2 DEF AheadRequest
  <2>4. ASSUME k # 1 PROVE AheadRequest(req, d, s)
    <3>1. k - 1 \in DOMAIN s /\ s[k - 1] = req
      BY <1>2, <2>1, <2>4
    <3>2. \A j \in 1 .. k - 1 : s[j].type # "sync"
      BY <1>2, <2>1
    <3> QED BY <2>3, <3>1, <3>2 DEF AheadRequest
  <2> QED BY <2>1, <2>3, <2>4
<1>4. ASSUME AheadEvent(ev, e) PROVE AheadEvent(ev, d)
  <2>1. PICK k \in 1 .. Len(e) : e[k] = ev /\ \A j \in 1 .. k : e[j].type # "done"
    BY <1>1, <1>4 DEF AheadEvent
  <2>2. k \in DOMAIN d /\ d[k] = ev /\ \A j \in 1 .. k : d[j].type # "done"
    BY <1>1, <2>1
  <2> QED BY <2>2 DEF AheadEvent
<1>5. ASSUME AheadRequest(req, e, r), r[1] = req, \E k \in DOMAIN es : es[k] = ev
      PROVE  AheadEvent(ev, d)
  <2>1. PICK k \in 1 .. Len(es) : es[k] = ev
    BY <1>1, <1>5
  <2>2. Len(e) + k \in DOMAIN d /\ d[Len(e) + k] = ev
    BY <1>1, <2>1
  <2>3. \A j \in 1 .. Len(e) + k : j \in DOMAIN d
    BY <1>1, <2>1
  <2> QED BY <1>3, <1>5, <2>2, <2>3 DEF AheadEvent
<1> QED BY <1>3, <1>4, <1>5 DEF Ahead, d, s

-------------------------------------------------------------------------------
(* There is a roundtrip on its way or there is none; adding what neither ends *)
(* nor begins one makes no difference.                                        *)
LEMMA SyncsMore ==
  ASSUME NEW e \in Seq(EventSet), NEW es \in Seq(EventSet),
         NEW r \in Seq(RequestSet), NEW q \in Seq(RequestSet),
         \A k \in DOMAIN es : es[k].type # "done",
         \A k \in DOMAIN q : q[k].type # "sync"
  PROVE  /\ Quiet(e, r) <=> Quiet(e \o es, r \o q)
         /\ Once(e, r) => Once(e \o es, r \o q)
<1> DEFINE d == e \o es
           s == r \o q
<1>1. /\ Len(e) \in Nat /\ Len(es) \in Nat
      /\ DOMAIN e = 1 .. Len(e) /\ DOMAIN es = 1 .. Len(es)
      /\ DOMAIN d = 1 .. Len(e) + Len(es)
      /\ \A j \in 1 .. Len(e) : d[j] = e[j]
      /\ \A j \in 1 .. Len(e) + Len(es) :
           j \in 1 .. Len(e) \/ (j - Len(e) \in 1 .. Len(es) /\ d[j] = es[j - Len(e)])
  BY InConcat
<1>2. /\ Len(r) \in Nat /\ Len(q) \in Nat
      /\ DOMAIN r = 1 .. Len(r) /\ DOMAIN q = 1 .. Len(q)
      /\ DOMAIN s = 1 .. Len(r) + Len(q)
      /\ \A j \in 1 .. Len(r) : s[j] = r[j]
      /\ \A j \in 1 .. Len(r) + Len(q) :
           j \in 1 .. Len(r) \/ (j - Len(r) \in 1 .. Len(q) /\ s[j] = q[j - Len(r)])
  BY InConcat
<1> HIDE DEF d, s
<1>3. /\ \A j \in DOMAIN e : j \in DOMAIN d /\ d[j] = e[j]
      /\ \A j \in DOMAIN d : d[j].type = "done" => j \in DOMAIN e /\ d[j] = e[j]
  <2>1. \A j \in DOMAIN e : j \in DOMAIN d /\ d[j] = e[j]
    BY <1>1
  <2>2. \A j \in DOMAIN d : d[j].type = "done" => j \in DOMAIN e /\ d[j] = e[j]
    BY <1>1
  <2> QED BY <2>1, <2>2
<1>4. /\ \A j \in DOMAIN r : j \in DOMAIN s /\ s[j] = r[j]
      /\ \A j \in DOMAIN s : s[j].type = "sync" => j \in DOMAIN r /\ s[j] = r[j]
  <2>1. \A j \in DOMAIN r : j \in DOMAIN s /\ s[j] = r[j]
    BY <1>2
  <2>2. \A j \in DOMAIN s : s[j].type = "sync" => j \in DOMAIN r /\ s[j] = r[j]
    BY <1>2
  <2> QED BY <2>1, <2>2
<1>5. Quiet(e, r) <=> Quiet(d, s)
  BY <1>3, <1>4 DEF Quiet
<1>6. Once(e, r) => Once(d, s)
  <2> SUFFICES ASSUME Once(e, r) PROVE Once(d, s)
    OBVIOUS
  <2>1. \A j, k \in DOMAIN d : d[j].type = "done" /\ d[k].type = "done" => j = k
    BY <1>3 DEF Once
  <2>2. \A j, k \in DOMAIN s : s[j].type = "sync" /\ s[k].type = "sync" => j = k
    BY <1>4 DEF Once
  <2>3. \A j \in DOMAIN d, k \in DOMAIN s : ~(d[j].type = "done" /\ s[k].type = "sync")
    BY <1>3, <1>4 DEF Once
  <2> QED BY <2>1, <2>2, <2>3 DEF Once
<1> QED BY <1>5, <1>6 DEF d, s

(* wl_display_sync puts one begin of a roundtrip on its way. *)
LEMMA SyncSent ==
  ASSUME NEW e \in Seq(EventSet), NEW r \in Seq(RequestSet), Quiet(e, r)
  PROVE  Once(e, r \o <<Msg("sync")>>) /\ ~Quiet(e, r \o <<Msg("sync")>>)
<1>9. <<Msg("sync")>> \in Seq(RequestSet) /\ <<Msg("sync")>>[1].type = "sync"
  BY DEF RequestSet, Msg
<1> PICK q \in Seq(RequestSet) : q = <<Msg("sync")>>
  BY <1>9
<1>0. Len(q) = 1 /\ q[1].type = "sync"
  BY <1>9
<1> DEFINE s == r \o q
<1>2. /\ Len(r) \in Nat /\ Len(q) \in Nat
      /\ DOMAIN r = 1 .. Len(r) /\ DOMAIN q = 1 .. Len(q)
      /\ DOMAIN s = 1 .. Len(r) + Len(q)
      /\ \A j \in 1 .. Len(r) : s[j] = r[j]
      /\ \A j \in 1 .. Len(q) : s[Len(r) + j] = q[j]
  BY <1>0, InConcat
<1> HIDE DEF s
<1>3. Len(r) + 1 \in DOMAIN s /\ s[Len(r) + 1].type = "sync"
  BY <1>0, <1>2
<1>4. \A j \in DOMAIN s : s[j].type = "sync" => j = Len(r) + 1
  BY <1>0, <1>2 DEF Quiet
<1>5. ~Quiet(e, s)
  BY <1>3 DEF Quiet
<1>6. Once(e, s)
  BY <1>4 DEF Once, Quiet
<1> QED BY <1>5, <1>6 DEF s

(* An event is handled, the end of the roundtrip or another. *)
LEMMA SyncsTail ==
  ASSUME NEW e \in Seq(EventSet), e # <<>>,
         NEW r \in Seq(RequestSet), NEW q \in Seq(RequestSet),
         \A k \in DOMAIN q : q[k].type # "sync"
  PROVE  /\ Quiet(e, r) => e[1].type # "done"
         /\ e[1].type # "done" => /\ Quiet(e, r) <=> Quiet(Tail(e), r \o q)
                                  /\ Once(e, r) => Once(Tail(e), r \o q)
         /\ e[1].type = "done" /\ Once(e, r) => Quiet(Tail(e), r \o q)
<1> DEFINE d == Tail(e)
           s == r \o q
<1>1. /\ Len(e) \in Nat /\ Len(e) >= 1 /\ DOMAIN e = 1 .. Len(e)
      /\ DOMAIN d = 1 .. Len(e) - 1
      /\ \A j \in 1 .. Len(e) - 1 : d[j] = e[j + 1]
      /\ \A j \in 1 .. Len(e) : j = 1 \/ (j - 1 \in 1 .. Len(e) - 1 /\ d[j - 1] = e[j])
  BY InTail
<1>2. /\ Len(r) \in Nat /\ Len(q) \in Nat
      /\ DOMAIN r = 1 .. Len(r) /\ DOMAIN q = 1 .. Len(q)
      /\ DOMAIN s = 1 .. Len(r) + Len(q)
      /\ \A j \in 1 .. Len(r) : s[j] = r[j]
      /\ \A j \in 1 .. Len(r) + Len(q) :
           j \in 1 .. Len(r) \/ (j - Len(r) \in 1 .. Len(q) /\ s[j] = q[j - Len(r)])
  BY InConcat
<1> HIDE DEF d, s
<1>3. /\ 1 \in DOMAIN e
      /\ \A j \in DOMAIN d : j + 1 \in DOMAIN e /\ j + 1 # 1 /\ d[j] = e[j + 1]
      /\ \A j \in DOMAIN e : j = 1 \/ (j - 1 \in DOMAIN d /\ d[j - 1] = e[j])
  BY <1>1
<1>4. /\ \A j \in DOMAIN r : j \in DOMAIN s /\ s[j] = r[j]
      /\ \A j \in DOMAIN s : s[j].type = "sync" => j \in DOMAIN r /\ s[j] = r[j]
  <2>1. \A j \in DOMAIN r : j \in DOMAIN s /\ s[j] = r[j]
    BY <1>2
  <2>2. \A j \in DOMAIN s : s[j].type = "sync" => j \in DOMAIN r /\ s[j] = r[j]
    BY <1>2
  <2> QED BY <2>1, <2>2
<1>5. Quiet(e, r) => e[1].type # "done"
  BY <1>3 DEF Quiet
<1>6. ASSUME e[1].type # "done" PROVE Quiet(e, r) <=> Quiet(d, s)
  <2>1. Quiet(e, r) => Quiet(d, s)
    BY <1>3, <1>4 DEF Quiet
  <2>2. ASSUME Quiet(d, s) PROVE Quiet(e, r)
    <3>1. \A j \in DOMAIN e : e[j].type # "done"
      BY <1>3, <1>6, <2>2 DEF Quiet
    <3> QED BY <1>4, <2>2, <3>1 DEF Quiet
  <2> QED BY <2>1, <2>2
<1>7. ASSUME Once(e, r) PROVE Once(d, s)
  <2>1. ASSUME NEW j \in DOMAIN d, NEW k \in DOMAIN d,
               d[j].type = "done", d[k].type = "done"
        PROVE  j = k
    <3>1. j + 1 = k + 1
      BY <1>3, <1>7, <2>1 DEF Once
    <3>2. j \in Int /\ k \in Int
      BY <1>1
    <3> QED BY <3>1, <3>2
  <2>2. \A j, k \in DOMAIN s : s[j].type = "sync" /\ s[k].type = "sync" => j = k
    BY <1>4, <1>7 DEF Once
  <2>3. \A j \in DOMAIN d, k \in DOMAIN s : ~(d[j].type = "done" /\ s[k].type = "sync")
    BY <1>3, <1>4, <1>7 DEF Once
  <2> QED BY <2>1, <2>2, <2>3 DEF Once
<1>8. ASSUME e[1].type = "done", Once(e, r) PROVE Quiet(d, s)
  <2>1. \A j \in DOMAIN d : d[j].type # "done"
    BY <1>3, <1>8 DEF Once
  <2>2. \A j \in DOMAIN s : s[j].type # "sync"
    BY <1>3, <1>4, <1>8 DEF Once
  <2> QED BY <2>1, <2>2 DEF Quiet
<1> QED BY <1>5, <1>6, <1>7, <1>8 DEF d, s

(* A request is read, a sync or another. *)
LEMMA SyncsServed ==
  ASSUME NEW e \in Seq(EventSet), NEW es \in Seq(EventSet),
         NEW r \in Seq(RequestSet), r # <<>>,
         IF r[1].type = "sync" THEN es = <<Msg("done")>>
         ELSE \A k \in DOMAIN es : es[k].type # "done"
  PROVE  /\ Quiet(e, r) <=> Quiet(e \o es, Tail(r))
         /\ Once(e, r) => Once(e \o es, Tail(r))
<1> DEFINE d == e \o es
           s == Tail(r)
<1>1. /\ Len(e) \in Nat /\ Len(es) \in Nat
      /\ DOMAIN e = 1 .. Len(e) /\ DOMAIN es = 1 .. Len(es)
      /\ DOMAIN d = 1 .. Len(e) + Len(es)
      /\ \A j \in 1 .. Len(e) : d[j] = e[j]
      /\ \A j \in 1 .. Len(es) : d[Len(e) + j] = es[j]
      /\ \A j \in 1 .. Len(e) + Len(es) :
           j \in 1 .. Len(e) \/ (j - Len(e) \in 1 .. Len(es) /\ d[j] = es[j - Len(e)])
  BY InConcat
<1>2. /\ Len(r) \in Nat /\ Len(r) >= 1 /\ DOMAIN r = 1 .. Len(r)
      /\ DOMAIN s = 1 .. Len(r) - 1
      /\ \A j \in 1 .. Len(r) - 1 : s[j] = r[j + 1]
      /\ \A j \in 1 .. Len(r) : j = 1 \/ (j - 1 \in 1 .. Len(r) - 1 /\ s[j - 1] = r[j])
  BY InTail
<1> HIDE DEF d, s
<1>3. /\ 1 \in DOMAIN r
      /\ \A j \in DOMAIN s : j + 1 \in DOMAIN r /\ j + 1 # 1 /\ s[j] = r[j + 1]
      /\ \A j \in DOMAIN r : j = 1 \/ (j - 1 \in DOMAIN s /\ s[j - 1] = r[j])
  BY <1>2
<1>4. \A j \in DOMAIN e : j \in DOMAIN d /\ d[j] = e[j]
  BY <1>1
<1>5. CASE r[1].type = "sync"
  <2>1. Len(es) = 1 /\ es[1].type = "done"
    BY <1>5 DEF Msg
  <2>2. Len(e) + 1 \in DOMAIN d /\ d[Len(e) + 1].type = "done"
    BY <1>1, <2>1
  <2>3. ~Quiet(e, r) /\ ~Quiet(d, s)
    BY <1>3, <1>5, <2>2 DEF Quiet
  <2>4. ASSUME Once(e, r) PROVE Once(d, s)
    <3>1. \A j \in DOMAIN e : e[j].type # "done"
      BY <1>3, <1>5, <2>4 DEF Once
    <3>2. \A j \in DOMAIN s : s[j].type # "sync"
      BY <1>3, <1>5, <2>4 DEF Once
    <3>3. \A j \in DOMAIN d : d[j].type = "done" => j = Len(e) + 1
      BY <1>1, <2>1, <3>1
    <3> QED BY <3>2, <3>3 DEF Once
  <2> QED BY <2>3, <2>4 DEF d, s
<1>6. CASE r[1].type # "sync"
  <2>1. \A j \in DOMAIN d : d[j].type = "done" => j \in DOMAIN e /\ d[j] = e[j]
    BY <1>1, <1>6
  <2>2. Quiet(e, r) <=> Quiet(d, s)
    <3>1. Quiet(e, r) => Quiet(d, s)
      BY <1>3, <2>1 DEF Quiet
    <3>2. ASSUME Quiet(d, s) PROVE Quiet(e, r)
      <4>1. \A j \in DOMAIN r : r[j].type # "sync"
        BY <1>3, <1>6, <3>2 DEF Quiet
      <4> QED BY <1>4, <3>2, <4>1 DEF Quiet
    <3> QED BY <3>1, <3>2
  <2>3. ASSUME Once(e, r) PROVE Once(d, s)
    <3>1. ASSUME NEW j \in DOMAIN s, NEW k \in DOMAIN s,
                 s[j].type = "sync", s[k].type = "sync"
          PROVE  j = k
      <4>1. j + 1 = k + 1
        BY <1>3, <2>3, <3>1 DEF Once
      <4>2. j \in Int /\ k \in Int
        BY <1>2
      <4> QED BY <4>1, <4>2
    <3>2. \A j, k \in DOMAIN d : d[j].type = "done" /\ d[k].type = "done" => j = k
      BY <2>1, <2>3 DEF Once
    <3>3. \A j \in DOMAIN d, k \in DOMAIN s : ~(d[j].type = "done" /\ s[k].type = "sync")
      BY <1>3, <2>1, <2>3 DEF Once
    <3> QED BY <3>1, <3>2, <3>3 DEF Once
  <2> QED BY <2>2, <2>3 DEF d, s
<1> QED BY <1>5, <1>6

(* What is on its way stays so until it is handled. *)
LEMMA FlightGoesOn ==
  ASSUME NEW ev, NEW req, NEW e \in Seq(EventSet), NEW es \in Seq(EventSet),
         NEW r \in Seq(RequestSet), NEW q \in Seq(RequestSet), InFlight(ev, req, e, r)
  PROVE  /\ InFlight(ev, req, e \o es, r \o q)
         /\ e # <<>> => e[1] = ev \/ InFlight(ev, req, Tail(e), r \o q)
         /\ r # <<>> /\ (r[1] = req => \E k \in DOMAIN es : es[k] = ev) =>
              InFlight(ev, req, e \o es, Tail(r))
<1>1. /\ \A j \in DOMAIN e : j \in DOMAIN (e \o es) /\ (e \o es)[j] = e[j]
      /\ \A j \in DOMAIN es : /\ Len(e) + j \in DOMAIN (e \o es)
                              /\ (e \o es)[Len(e) + j] = es[j]
  BY InConcat
<1>2. \A j \in DOMAIN r : j \in DOMAIN (r \o q) /\ (r \o q)[j] = r[j]
  BY InConcat
<1>3. e # <<>> => \A j \in DOMAIN e :
                    j = 1 \/ (j - 1 \in DOMAIN Tail(e) /\ Tail(e)[j - 1] = e[j])
  BY InTail
<1>4. r # <<>> => \A j \in DOMAIN r :
                    j = 1 \/ (j - 1 \in DOMAIN Tail(r) /\ Tail(r)[j - 1] = r[j])
  BY InTail
<1>5. InFlight(ev, req, e \o es, r \o q)
  BY <1>1, <1>2 DEF InFlight
<1>6. ASSUME e # <<>> PROVE e[1] = ev \/ InFlight(ev, req, Tail(e), r \o q)
  BY <1>2, <1>3, <1>6 DEF InFlight
<1>7. ASSUME r # <<>>, r[1] = req => \E k \in DOMAIN es : es[k] = ev
      PROVE  InFlight(ev, req, e \o es, Tail(r))
  <2>1. CASE \E k \in DOMAIN e : e[k] = ev
    BY <1>1, <2>1 DEF InFlight
  <2>2. CASE \E k \in DOMAIN r : r[k] = req
    BY <1>1, <1>4, <1>7, <2>2 DEF InFlight
  <2> QED BY <2>1, <2>2 DEF InFlight
<1> QED BY <1>5, <1>6, <1>7

(* What is on its way when there is no roundtrip is ahead of the next. *)
LEMMA QuietIsAhead ==
  ASSUME NEW ev, NEW req, NEW e \in Seq(EventSet), NEW r \in Seq(RequestSet),
         Quiet(e, r), InFlight(ev, req, e, r)
  PROVE  Ahead(ev, req, e, r)
<1>1. DOMAIN e = 1 .. Len(e) /\ DOMAIN r = 1 .. Len(r) /\ Len(e) \in Nat /\ Len(r) \in Nat
  OBVIOUS
<1>2. ASSUME NEW k \in DOMAIN e, e[k] = ev PROVE AheadEvent(ev, e)
  <2>1. \A j \in 1 .. k : j \in DOMAIN e
    BY <1>1
  <2> QED BY <1>2, <2>1 DEF AheadEvent, Quiet
<1>3. ASSUME NEW k \in DOMAIN r, r[k] = req PROVE AheadRequest(req, e, r)
  <2>1. \A j \in 1 .. k : j \in DOMAIN r
    BY <1>1
  <2> QED BY <1>3, <2>1 DEF AheadRequest, Quiet
<1> QED BY <1>2, <1>3 DEF InFlight, Ahead

-------------------------------------------------------------------------------
(* The order after more requests, of which only the first may change it.      *)
LEMMA ReordersMore ==
  ASSUME NEW w, NEW p, NEW r \in Seq(RequestSet), NEW q \in Seq(RequestSet),
         Reorders(w, p, r),
         \A k \in DOMAIN q : k > 1 => q[k].type # "place"
  PROVE  \E w2 : /\ Reorders(w2, p, r \o q)
                 /\ q = <<>> => w2[Len(r \o q)] = w[Len(r)]
                 /\ q # <<>> => w2[Len(r \o q)] = Reorder(w[Len(r)], q[1])
<1> DEFINE s == r \o q
<1>1. /\ Len(r) \in Nat /\ Len(q) \in Nat /\ Len(s) = Len(r) + Len(q)
      /\ DOMAIN q = 1 .. Len(q)
      /\ \A j \in 1 .. Len(r) : s[j] = r[j]
      /\ \A j \in 1 .. Len(q) : s[Len(r) + j] = q[j]
      /\ \A j \in 1 .. Len(r) + Len(q) :
           j \in 1 .. Len(r) \/ (j - Len(r) \in 1 .. Len(q) /\ s[j] = q[j - Len(r)])
  BY InConcat
<1>2. q = <<>> <=> Len(q) = 0
  OBVIOUS
<1> HIDE DEF s
<1> DEFINE z == IF q = <<>> THEN w[Len(r)] ELSE Reorder(w[Len(r)], q[1])
           w2 == [k \in 0 .. Len(s) |-> IF k <= Len(r) THEN w[k] ELSE z]
<1>3. /\ \A k \in 0 .. Len(r) : w2[k] = w[k]
      /\ \A k \in Len(r) + 1 .. Len(s) : w2[k] = z
  BY <1>1
<1>4. w2[Len(s)] = z
  BY <1>1, <1>2, <1>3
<1> HIDE DEF w2
<1>5. Reorders(w2, p, s)
  <2>1. w2[0] = p
    BY <1>1, <1>3 DEF Reorders
  <2>2. ASSUME NEW k \in 1 .. Len(s) PROVE w2[k] = Reorder(w2[k - 1], s[k])
    <3>1. CASE k \in 1 .. Len(r)
      <4>1. k \in 0 .. Len(r) /\ k - 1 \in 0 .. Len(r) /\ s[k] = r[k]
        BY <1>1, <3>1
      <4> QED BY <1>3, <3>1, <4>1 DEF Reorders
    <3>2. CASE k = Len(r) + 1
      <4>1. /\ k \in Len(r) + 1 .. Len(s) /\ k - 1 \in 0 .. Len(r)
            /\ k - 1 = Len(r) /\ Len(q) # 0 /\ 1 \in 1 .. Len(q)
        BY <1>1, <3>2
      <4>2. s[k] = q[1]
        BY <1>1, <3>2, <4>1
      <4> QED BY <1>2, <1>3, <4>1, <4>2
    <3>3. CASE k > Len(r) + 1
      <4>1. /\ k \in Len(r) + 1 .. Len(s) /\ k - 1 \in Len(r) + 1 .. Len(s)
            /\ k - Len(r) \in DOMAIN q /\ k - Len(r) > 1 /\ s[k] = q[k - Len(r)]
        BY <1>1, <3>3
      <4>2. s[k].type # "place"
        BY <4>1
      <4> QED BY <1>3, <4>1, <4>2 DEF Reorder
    <3>4. k \in 1 .. Len(r) \/ k = Len(r) + 1 \/ k > Len(r) + 1
      BY <1>1
    <3> QED BY <3>1, <3>2, <3>3, <3>4
  <2> QED BY <2>1, <2>2 DEF Reorders
<1> QED BY <1>4, <1>5 DEF s, z

(* The order after the first request, and after those that follow it. *)
LEMMA ReordersTail ==
  ASSUME NEW w, NEW p, NEW r \in Seq(RequestSet), Reorders(w, p, r), r # <<>>
  PROVE  \E w2 : /\ Reorders(w2, Reorder(p, r[1]), Tail(r))
                 /\ w2[Len(Tail(r))] = w[Len(r)]
<1> DEFINE s == Tail(r)
<1>1. /\ Len(r) \in Nat /\ Len(r) >= 1 /\ Len(s) = Len(r) - 1
      /\ \A j \in 1 .. Len(r) - 1 : s[j] = r[j + 1]
  BY InTail
<1> HIDE DEF s
<1> DEFINE w2 == [k \in 0 .. Len(s) |-> w[k + 1]]
<1>2. \A k \in 0 .. Len(s) : w2[k] = w[k + 1]
  OBVIOUS
<1> HIDE DEF w2
<1>3. w2[0] = Reorder(p, r[1]) /\ w2[Len(s)] = w[Len(r)]
  <2>1. w[1] = Reorder(w[0], r[1])
    <3>1. 1 \in 1 .. Len(r) /\ 1 - 1 = 0
      BY <1>1
    <3> QED BY <3>1 DEF Reorders
  <2>2. w2[0] = w[1] /\ w2[Len(s)] = w[Len(r)]
    BY <1>1, <1>2
  <2> QED BY <2>1, <2>2 DEF Reorders
<1>4. ASSUME NEW k \in 1 .. Len(s) PROVE w2[k] = Reorder(w2[k - 1], s[k])
  <2>1. k + 1 \in 1 .. Len(r) /\ (k + 1) - 1 = k /\ s[k] = r[k + 1]
    BY <1>1
  <2>2. w2[k] = w[k + 1] /\ w2[k - 1] = w[k]
    BY <1>1, <1>2
  <2> QED BY <2>1, <2>2 DEF Reorders
<1> QED BY <1>3, <1>4 DEF Reorders, s

(* What the clicks lead to after one more event, *)
LEMMA FollowsOne ==
  ASSUME NEW v, NEW u, NEW e \in Seq(EventSet), NEW x \in EventSet, Follows(v, u, e)
  PROVE  \E v2 : /\ Follows(v2, u, e \o <<x>>)
                 /\ v2[Len(e \o <<x>>)] = Click(v[Len(e)], x)
<1>9. <<x>> \in Seq(EventSet)
  OBVIOUS
<1> PICK es \in Seq(EventSet) : es = <<x>>
  BY <1>9
<1> DEFINE d == e \o es
<1>0. Len(es) = 1 /\ es[1] = x
  OBVIOUS
<1>1. /\ Len(e) \in Nat /\ Len(d) = Len(e) + 1
      /\ \A j \in 1 .. Len(e) : d[j] = e[j]
      /\ d[Len(e) + 1] = x
  BY <1>0, InConcat
<1> HIDE DEF d
<1> DEFINE v2 == [k \in 0 .. Len(d) |-> IF k <= Len(e) THEN v[k] ELSE Click(v[Len(e)], x)]
<1>2. /\ \A k \in 0 .. Len(e) : v2[k] = v[k]
      /\ v2[Len(d)] = Click(v[Len(e)], x)
  BY <1>1
<1> HIDE DEF v2
<1>3. v2[0] = u
  BY <1>1, <1>2 DEF Follows
<1>4. ASSUME NEW k \in 1 .. Len(d) PROVE v2[k] = Click(v2[k - 1], d[k])
  <2>1. CASE k \in 1 .. Len(e)
    <3>1. k \in 0 .. Len(e) /\ k - 1 \in 0 .. Len(e)
      BY <1>1, <2>1
    <3> QED BY <1>1, <1>2, <2>1, <3>1 DEF Follows
  <2>2. CASE k = Len(d)
    <3>1. k - 1 = Len(e) /\ k - 1 \in 0 .. Len(e) /\ d[k] = x
      BY <1>1, <2>2
    <3> QED BY <1>2, <2>2, <3>1
  <2> QED BY <1>1, <2>1, <2>2
<1> QED BY <1>2, <1>3, <1>4 DEF Follows, d

(* after events that are not of the pointer, *)
LEMMA FollowsOthers ==
  ASSUME NEW v, NEW u, NEW e \in Seq(EventSet), NEW es \in Seq(EventSet),
         Follows(v, u, e), \A k \in DOMAIN es : es[k].type \notin PointerEvents
  PROVE  \E v2 : /\ Follows(v2, u, e \o es)
                 /\ v2[Len(e \o es)] = v[Len(e)]
<1> DEFINE d == e \o es
<1>1. /\ Len(e) \in Nat /\ Len(es) \in Nat /\ Len(d) = Len(e) + Len(es)
      /\ DOMAIN es = 1 .. Len(es)
      /\ \A j \in 1 .. Len(e) : d[j] = e[j]
      /\ \A j \in 1 .. Len(e) + Len(es) :
           j \in 1 .. Len(e) \/ (j - Len(e) \in 1 .. Len(es) /\ d[j] = es[j - Len(e)])
  BY InConcat
<1> HIDE DEF d
<1> DEFINE v2 == [k \in 0 .. Len(d) |-> IF k <= Len(e) THEN v[k] ELSE v[Len(e)]]
<1>2. /\ \A k \in 0 .. Len(e) : v2[k] = v[k]
      /\ \A k \in Len(e) .. Len(d) : v2[k] = v[Len(e)]
  BY <1>1
<1> HIDE DEF v2
<1>3. v2[0] = u /\ v2[Len(d)] = v[Len(e)]
  BY <1>1, <1>2 DEF Follows
<1>4. ASSUME NEW k \in 1 .. Len(d) PROVE v2[k] = Click(v2[k - 1], d[k])
  <2>1. CASE k \in 1 .. Len(e)
    <3>1. k \in 0 .. Len(e) /\ k - 1 \in 0 .. Len(e)
      BY <1>1, <2>1
    <3> QED BY <1>1, <1>2, <2>1, <3>1 DEF Follows
  <2>2. CASE k > Len(e)
    <3>1. /\ k - 1 \in Len(e) .. Len(d) /\ k \in Len(e) .. Len(d)
          /\ k - Len(e) \in DOMAIN es /\ d[k] = es[k - Len(e)]
      BY <1>1, <2>2
    <3>2. d[k].type \notin PointerEvents
      BY <3>1
    <3> QED BY <1>2, <3>1, <3>2 DEF Click, PointerEvents
  <2> QED BY <1>1, <2>1, <2>2
<1> QED BY <1>3, <1>4 DEF Follows, d

(* and after the first, when it has been handled. *)
LEMMA FollowsTail ==
  ASSUME NEW v, NEW u, NEW e \in Seq(EventSet), Follows(v, u, e), e # <<>>
  PROVE  \E v2 : /\ Follows(v2, Click(u, e[1]), Tail(e))
                 /\ v2[Len(Tail(e))] = v[Len(e)]
<1> DEFINE d == Tail(e)
<1>1. /\ Len(e) \in Nat /\ Len(e) >= 1 /\ Len(d) = Len(e) - 1
      /\ \A j \in 1 .. Len(e) - 1 : d[j] = e[j + 1]
  BY InTail
<1> HIDE DEF d
<1> DEFINE v2 == [k \in 0 .. Len(d) |-> v[k + 1]]
<1>2. \A k \in 0 .. Len(d) : v2[k] = v[k + 1]
  OBVIOUS
<1> HIDE DEF v2
<1>3. v2[0] = Click(u, e[1]) /\ v2[Len(d)] = v[Len(e)]
  <2>1. v[1] = Click(v[0], e[1])
    <3>1. 1 \in 1 .. Len(e) /\ 1 - 1 = 0
      BY <1>1
    <3> QED BY <3>1 DEF Follows
  <2>2. v2[0] = v[1] /\ v2[Len(d)] = v[Len(e)]
    BY <1>1, <1>2
  <2> QED BY <2>1, <2>2 DEF Follows
<1>4. ASSUME NEW k \in 1 .. Len(d) PROVE v2[k] = Click(v2[k - 1], d[k])
  <2>1. k + 1 \in 1 .. Len(e) /\ (k + 1) - 1 = k /\ d[k] = e[k + 1]
    BY <1>1
  <2>2. v2[k] = v[k + 1] /\ v2[k - 1] = v[k]
    BY <1>1, <1>2
  <2> QED BY <2>1, <2>2 DEF Follows
<1> QED BY <1>3, <1>4 DEF Follows, d

-------------------------------------------------------------------------------
(* The handlers.  What they keep is typed, and so is what they send.          *)
LEMMA HandledTyped ==
  ASSUME NEW c \in Clients, NEW x \in EventSet
  PROVE  /\ Handled(c, x) \in Clients
         /\ c.bound \subseteq Handled(c, x).bound
         /\ c.pointer => Handled(c, x).pointer
         /\ x = HasPointer => Handled(c, x).pointer
         /\ x.type = "global" => Handled(c, x) = handle_global(c, x)
         /\ x.type # "global" => Handled(c, x).bound = c.bound
<1> USE DEF Clients, Surfaces, Subsurface
<1>0. x = HasPointer => x.type = "capabilities" /\ x.pointer
  BY DEF HasPointer, Capabilities
<1>1. CASE x.type = "global"
  <2>1. Handled(c, x) = handle_global(c, x)
    BY <1>1 DEF Handled
  <2>2. x.global \in STRING
    BY <1>1 DEF EventSet
  <2>3. x # HasPointer
    BY <1>0, <1>1
  <2> QED BY <1>1, <2>1, <2>2, <2>3 DEF handle_global
<1>2. CASE x.type = "capabilities"
  <2>1. CASE WantsPointer(c, x)
    <3>1. Handled(c, x) = [c EXCEPT !.pointer = TRUE]
      BY <1>2, <2>1 DEF Handled
    <3> QED BY <1>2, <3>1
  <2>2. CASE ~WantsPointer(c, x)
    <3>1. Handled(c, x) = c
      BY <1>2, <2>2 DEF Handled
    <3> QED BY <1>0, <1>2, <2>2, <3>1 DEF WantsPointer
  <2> QED BY <2>1, <2>2
<1>3. CASE x.type = "enter"
  <2>1. Handled(c, x) = pointer_handle_enter(c, x) /\ x.surface \in Surfaces
    BY <1>3 DEF Handled, EventSet
  <2> QED BY <1>0, <1>3, <2>1 DEF pointer_handle_enter
<1>4. CASE x.type = "leave"
  <2>1. Handled(c, x) = pointer_handle_leave(c)
    BY <1>4 DEF Handled
  <2> QED BY <1>0, <1>4, <2>1 DEF pointer_handle_leave
<1>5. CASE x.type = "button"
  <2>1. Handled(c, x) = pointer_handle_button(c, x)
    BY <1>5 DEF Handled
  <2> QED BY <1>0, <1>5, <2>1 DEF pointer_handle_button, Selects
<1>6. CASE x.type \notin {"global", "capabilities", "enter", "leave", "button"}
  BY <1>0, <1>6 DEF Handled
<1> QED BY <1>1, <1>2, <1>3, <1>4, <1>5, <1>6

(* What a handler may send: nothing, one request, or one of two pairs.        *)
LEMMA SentShape ==
  ASSUME NEW c \in Clients, NEW x \in EventSet, NEW q, q = Sent(c, x)
  PROVE  \/ q = <<>> /\ x.type # "configure"
         \/ /\ x.type = "global" /\ x.global \in Wanted(x.registry)
            /\ x.global \in STRING /\ q = <<[type |-> "bind", global |-> x.global]>>
         \/ x.type = "capabilities" /\ q = <<Msg("get_pointer")>>
         \/ x.type = "ping" /\ q = <<Msg("pong")>>
         \/ x.type = "configure" /\ q = <<Msg("ack")>>
         \/ x.type = "configure" /\ q = <<Msg("ack"), Msg("frame")>>
         \/ x.type = "button" /\ Places(c, x) /\ q = <<Msg("commit")>>
         \/ /\ x.type = "button" /\ Places(c, x) /\ x.button # "middle"
            /\ q = <<Place(How(x.button), c.selected, c.current), Msg("commit")>>
<1>1. CASE x.type = "global"
  <2>1. x.global \in STRING
    BY <1>1 DEF EventSet
  <2>2. CASE x.global \in Wanted(x.registry)
    BY <1>1, <2>1, <2>2 DEF Sent
  <2>3. CASE x.global \notin Wanted(x.registry)
    BY <1>1, <2>3 DEF Sent
  <2> QED BY <2>2, <2>3
<1>2. CASE x.type = "capabilities"
  BY <1>2 DEF Sent
<1>3. CASE x.type = "ping"
  BY <1>3 DEF Sent
<1>4. CASE x.type = "configure"
  BY <1>4 DEF Sent
<1>5. CASE x.type = "button"
  <2>1. CASE ~Places(c, x)
    BY <1>5, <2>1 DEF Sent
  <2>2. CASE Places(c, x) /\ x.button = "middle"
    <3>1. q = <<>> \o <<[type |-> "commit"]>>
      BY <1>5, <2>2 DEF Sent, Placed, Reordered
    <3>0. \A m : <<>> \o <<m>> = <<m>>
      OBVIOUS
    <3>2. q = <<[type |-> "commit"]>>
      BY <3>0, <3>1
    <3> QED BY <1>5, <2>2, <3>2 DEF Msg
  <2>3. CASE Places(c, x) /\ x.button # "middle"
    <3>1. q = <<Place(How(x.button), c.selected, c.current)>> \o <<[type |-> "commit"]>>
      BY <1>5, <2>3 DEF Sent, Placed, Reordered, How
    <3>0. ASSUME NEW m, NEW n PROVE <<m>> \o <<n>> = <<m, n>>
      <4>1. <<m>> \in Seq({m, n}) /\ <<n>> \in Seq({m, n})
        OBVIOUS
      <4>2. /\ <<m>> \o <<n>> \in Seq({m, n}) /\ Len(<<m>> \o <<n>>) = 2
            /\ (<<m>> \o <<n>>)[1] = m /\ (<<m>> \o <<n>>)[2] = n
        BY <4>1
      <4>3. <<m, n>> \in Seq({m, n}) /\ Len(<<m, n>>) = 2
        OBVIOUS
      <4>4. \A a, b \in Seq({m, n}) :
              Len(a) = 2 /\ Len(b) = 2 /\ a[1] = b[1] /\ a[2] = b[2] => a = b
        OBVIOUS
      <4> QED BY <4>2, <4>3, <4>4
    <3>2. q = <<Place(How(x.button), c.selected, c.current), [type |-> "commit"]>>
      BY <3>0, <3>1
    <3> QED BY <1>5, <2>3, <3>2 DEF Msg
  <2> QED BY <2>1, <2>2, <2>3
<1>6. CASE x.type \notin {"global", "capabilities", "ping", "configure", "button"}
  BY <1>6 DEF Sent
<1> QED BY <1>1, <1>2, <1>3, <1>4, <1>5, <1>6

(* What follows from the shape. *)
LEMMA SentTyped ==
  ASSUME NEW c \in Clients, NEW x \in EventSet, NEW q, q = Sent(c, x)
  PROVE  /\ q \in Seq(RequestSet)
         /\ \A k \in DOMAIN q :
              /\ q[k].type \in {"bind", "get_pointer", "pong", "ack", "frame", "place",
                                "commit"}
              /\ x.type \in {"global", "capabilities", "done"} =>
                   q[k].type \in {"bind", "get_pointer"}
              /\ q[k].type = "frame" => k = 2 /\ 1 \in DOMAIN q /\ q[1].type = "ack"
              /\ q[k].type = "place" => k = 1 /\ 2 \in DOMAIN q /\ q[2].type = "commit"
         /\ x.type = "configure" => 1 \in DOMAIN q /\ q[1].type = "ack"
<1> USE DEF Msg, RequestSet
<1>1. CASE q = <<>> /\ x.type # "configure"
  BY <1>1
<1>2. CASE /\ x.type = "global" /\ x.global \in Wanted(x.registry)
           /\ x.global \in STRING /\ q = <<[type |-> "bind", global |-> x.global]>>
  BY <1>2
<1>3. CASE x.type = "capabilities" /\ q = <<Msg("get_pointer")>>
  BY <1>3
<1>4. CASE x.type = "ping" /\ q = <<Msg("pong")>>
  BY <1>4
<1>5. CASE x.type = "configure" /\ q = <<Msg("ack")>>
  BY <1>5
<1>6. CASE x.type = "configure" /\ q = <<Msg("ack"), Msg("frame")>>
  BY <1>6
<1>7. CASE x.type = "button" /\ Places(c, x) /\ q = <<Msg("commit")>>
  BY <1>7
<1>8. CASE /\ x.type = "button" /\ Places(c, x) /\ x.button # "middle"
           /\ q = <<Place(How(x.button), c.selected, c.current), Msg("commit")>>
  <2>1. /\ How(x.button) \in {"above", "below"}
        /\ c.selected \in Subsurface /\ c.current \in Surfaces
    BY <1>8 DEF How, Places, Clients
  <2>2. Place(How(x.button), c.selected, c.current) \in RequestSet
    BY <2>1 DEF Place
  <2>3. Place(How(x.button), c.selected, c.current).type = "place"
    BY DEF Place
  <2>4. Msg("commit") \in RequestSet /\ Msg("commit").type = "commit"
    OBVIOUS
  <2> HIDE DEF Msg, RequestSet
  <2>5. /\ q \in Seq(RequestSet) /\ DOMAIN q = {1, 2}
        /\ q[1].type = "place" /\ q[2].type = "commit"
    BY <1>8, <2>2, <2>3, <2>4
  <2> QED BY <1>8, <2>5
<1> QED BY <1>1, <1>2, <1>3, <1>4, <1>5, <1>6, <1>7, <1>8, SentShape

(* Requests that a handler sends neither begin a roundtrip nor ask again.     *)
LEMMA ComingTail ==
  ASSUME NEW p, NEW ev, NEW req, NEW e \in Seq(EventSet), e # <<>>,
         NEW r \in Seq(RequestSet), NEW q \in Seq(RequestSet),
         \A k \in DOMAIN q : q[k].type # "sync",
         Coming(p, ev, req, e, r)
  PROVE  e[1] = ev \/ Coming(p, ev, req, Tail(e), r \o q)
<1>1. Ahead(ev, req, e, r)
  BY DEF Coming
<1>2. e[1].type # "done" /\ (e[1] = ev \/ Ahead(ev, req, Tail(e), r \o q))
  BY <1>1, AheadTail
<1>3. Quiet(e, r) <=> Quiet(Tail(e), r \o q)
  BY <1>2, SyncsTail
<1> QED BY <1>2, <1>3 DEF Coming

-------------------------------------------------------------------------------
(* One event handled keeps each part of Line.                                 *)
LEMMA HandlesGlobals ==
  ASSUME NEW c \in Clients, NEW e \in Seq(EventSet), e # <<>>,
         NEW r \in Seq(RequestSet), Globals(c, e, r)
  PROVE  Globals(Handled(c, e[1]), Tail(e), r \o Sent(c, e[1]))
<1>0. e[1] \in EventSet
  BY InTail
<1> PICK x \in EventSet : x = e[1]
  BY <1>0
<1> DEFINE c2 == Handled(c, x)
<1> PICK q : q = Sent(c, x)
  OBVIOUS
<1>1. q \in Seq(RequestSet) /\ \A k \in DOMAIN q : q[k].type # "sync"
  BY SentTyped
<1>2. c.bound \subseteq c2.bound
  BY HandledTyped
<1>3. \A g, n : x = Global(g, n) /\ g \in Wanted(n) => g \in c2.bound
  <2> SUFFICES ASSUME NEW g, NEW n, x = Global(g, n), g \in Wanted(n)
               PROVE  g \in c2.bound
    OBVIOUS
  <2>1. x.type = "global" /\ x.global = g /\ x.registry = n
    BY DEF Global
  <2>2. c2 = handle_global(c, x)
    BY <2>1, HandledTyped
  <2> QED BY <2>1, <2>2 DEF handle_global, Clients
<1> HIDE DEF c2
<1>4. ASSUME NEW p, NEW ev, NEW req, Coming(p, ev, req, e, r)
      PROVE  x = ev \/ Coming(p, ev, req, Tail(e), r \o q)
  BY <1>1, <1>4, ComingTail
<1>5. ASSUME NEW g \in Wanted(1), pc > 1, Advertised(g)
      PROVE  g \in c2.bound \/ Coming(4, Global(g, 1), GetRegistry(1), Tail(e), r \o q)
  BY <1>2, <1>3, <1>4, <1>5 DEF Globals
<1>6. ASSUME Composes, pc > 6, Advertised("subcompositor")
      PROVE  \/ "subcompositor" \in c2.bound
             \/ Coming(Second, Global("subcompositor", 2), GetRegistry(2), Tail(e), r \o q)
  <2>1. "subcompositor" \in Wanted(2)
    BY DEF Wanted
  <2> QED BY <1>2, <1>3, <1>4, <1>6, <2>1 DEF Globals
<1>7. Globals(c2, Tail(e), r \o q)
  BY <1>5, <1>6 DEF Globals
<1> QED BY <1>7 DEF c2

(* The seat's bind is sent when the seat is seen, and answered.               *)
LEMMA HandlesPointer ==
  ASSUME NEW c \in Clients, NEW e \in Seq(EventSet), e # <<>>,
         NEW r \in Seq(RequestSet), Pointer(c, e, r)
  PROVE  Pointer(Handled(c, e[1]), Tail(e), r \o Sent(c, e[1]))
<1>0. e[1] \in EventSet
  BY InTail
<1> PICK x \in EventSet : x = e[1]
  BY <1>0
<1> DEFINE c2 == Handled(c, x)
<1> PICK q : q = Sent(c, x)
  OBVIOUS
<1>1. q \in Seq(RequestSet) /\ \A k \in DOMAIN q : q[k].type # "sync"
  BY SentTyped
<1> PICK cap : cap = HasPointer
  OBVIOUS
<1>2. /\ c.pointer => c2.pointer
      /\ x = cap => c2.pointer
  BY HandledTyped
<1>3. ASSUME "seat" \in c2.bound, "seat" \notin c.bound
      PROVE  x.type = "global" /\ x.global = "seat" /\ x.global \in Wanted(x.registry)
  <2>1. x.type = "global" /\ c2 = handle_global(c, x)
    BY <1>3, HandledTyped
  <2> QED BY <1>3, <2>1 DEF handle_global, Clients
<1>4. ASSUME "seat" \in c2.bound, "seat" \notin c.bound
      PROVE  q = <<BindSeat>>
  BY <1>3, <1>4 DEF Sent, BindSeat
<1> HIDE DEF c2
<1>5. ASSUME NEW p, Coming(p, cap, BindSeat, e, r)
      PROVE  c2.pointer \/ Coming(p, cap, BindSeat, Tail(e), r \o q)
  BY <1>1, <1>2, <1>5, ComingTail
<1>6. ASSUME seat = "always", "seat" \in c2.bound
      PROVE  c2.pointer \/ InFlight(cap, BindSeat, Tail(e), r \o q)
  <2>1. CASE "seat" \in c.bound
    <3>1. CASE c.pointer
      BY <1>2, <3>1
    <3>2. CASE InFlight(cap, BindSeat, e, r)
      <4>0. <<>> \in Seq(EventSet)
        OBVIOUS
      <4>1. \A ev, req : InFlight(ev, req, e, r) =>
                           e[1] = ev \/ InFlight(ev, req, Tail(e), r \o q)
        BY <1>1, <4>0, FlightGoesOn
      <4> QED BY <1>2, <3>2, <4>1
    <3> QED BY <1>6, <2>1, <3>1, <3>2 DEF Pointer
  <2>2. CASE "seat" \notin c.bound
    <3>1. q = <<BindSeat>>
      BY <1>4, <1>6, <2>2
    <3>2. Len(q) = 1 /\ q[1] = BindSeat
      BY <3>1
    <3>3. Len(r) + 1 \in DOMAIN (r \o q) /\ (r \o q)[Len(r) + 1] = BindSeat
      BY <3>2, InConcat
    <3> QED BY <3>3 DEF InFlight
  <2> QED BY <2>1, <2>2
<1>7. Pointer(c2, Tail(e), r \o q)
  BY <1>2, <1>5, <1>6 DEF Pointer
<1> QED BY <1>7 DEF c2

(* The pool, the roundtrip itself and the configure event.                    *)
LEMMA HandlesRoundtrips ==
  ASSUME NEW c \in Clients, NEW e \in Seq(EventSet), e # <<>>,
         NEW r \in Seq(RequestSet), Syncs(e, r), FileMapped(e, r), Configures(e, r)
  PROVE  /\ Syncs(Tail(e), r \o Sent(c, e[1]))
         /\ FileMapped(Tail(e), r \o Sent(c, e[1]))
         /\ Configures(Tail(e), r \o Sent(c, e[1]))
<1>0. e[1] \in EventSet
  BY InTail
<1> PICK x \in EventSet : x = e[1]
  BY <1>0
<1> PICK q : q = Sent(c, x)
  OBVIOUS
<1>1. /\ q \in Seq(RequestSet)
      /\ \A k \in DOMAIN q : q[k].type # "sync"
      /\ x.type = "configure" => 1 \in DOMAIN q /\ q[1].type = "ack"
  <2>1. q \in Seq(RequestSet) /\ \A k \in DOMAIN q : q[k].type # "sync"
    BY SentTyped
  <2>2. x.type = "configure" => 1 \in DOMAIN q /\ q[1].type = "ack"
    BY SentTyped
  <2> QED BY <2>1, <2>2
<1> DEFINE d == Tail(e)
           s == r \o q
<1>2. /\ Quiet(e, r) => x.type # "done"
      /\ x.type # "done" => (Quiet(e, r) <=> Quiet(d, s))
      /\ x.type # "done" => (Once(e, r) => Once(d, s))
      /\ x.type = "done" /\ Once(e, r) => Quiet(d, s)
  BY <1>1, SyncsTail
<1>3. Syncs(d, s)
  <2>1. Quiet(d, s) => Once(d, s)
    BY DEF Quiet, Once
  <2> QED BY <1>2, <2>1 DEF Syncs
<1>4. FileMapped(d, s)
  <2> SUFFICES ASSUME program = "sigbus", pc > 6, pool # "whole"
               PROVE  pc <= 8 /\ (pc = 8 => ~Quiet(d, s))
                      /\ AheadRequest(Msg("create_pool"), d, s)
    BY DEF FileMapped
  <2>1. /\ pc <= 8 /\ (pc = 8 => ~Quiet(e, r))
        /\ AheadRequest(Msg("create_pool"), e, r)
    BY DEF FileMapped
  <2>2. AheadRequest(Msg("create_pool"), d, s) /\ x.type # "done"
    <3>1. \A m : /\ AheadRequest(m, e, r) => AheadRequest(m, d, s)
                 /\ Ahead(m, m, e, r) => x.type # "done"
      BY <1>1, AheadTail
    <3> QED BY <2>1, <3>1 DEF Ahead
  <2> QED BY <1>2, <2>1, <2>2
<1>5. Configures(d, s)
  <2>0. Len(r) \in Nat /\ Len(q) \in Nat /\ Len(s) = Len(r) + Len(q)
        /\ DOMAIN q = 1 .. Len(q)
        /\ (\A j \in 1 .. Len(r) : s[j] = r[j])
        /\ (\A j \in 1 .. Len(q) : s[Len(r) + j] = q[j])
    BY InConcat
  <2> PICK ev : ev = Msg("configure")
    OBVIOUS
  <2> PICK req : req = Msg("commit")
    OBVIOUS
  <2> SUFFICES ASSUME prompt, program \in {"gamma-blend", "sigbus"}, pc > 10
               PROVE  Acks(s, Len(s)) \/ Coming(12, ev, req, d, s)
    BY DEF Configures
  <2>1. CASE Acks(r, Len(r))
    BY <2>0, <2>1 DEF Acks
  <2>2. CASE Coming(12, ev, req, e, r)
    <3>1. x = ev \/ Coming(12, ev, req, d, s)
      BY <1>1, <2>2, ComingTail
    <3>2. ASSUME x = ev PROVE Acks(s, Len(s))
      <4>1. x.type = "configure"
        BY <3>2 DEF Msg
      <4>2. 1 \in 1 .. Len(q) /\ q[1].type = "ack"
        BY <1>1, <2>0, <4>1
      <4>3. Len(r) + 1 \in 1 .. Len(s) /\ s[Len(r) + 1].type = "ack"
        BY <2>0, <4>2
      <4> QED BY <4>3 DEF Acks
    <3> QED BY <3>1, <3>2
  <2> QED BY <2>1, <2>2 DEF Configures
<1> QED BY <1>3, <1>4, <1>5

(* What has not begun.                                                        *)
LEMMA HandlesBeginning ==
  ASSUME NEW c \in Clients, NEW e \in Seq(EventSet), e # <<>>,
         NEW r \in Seq(RequestSet), Beginning(e, r)
  PROVE  Beginning(Tail(e), r \o Sent(c, e[1]))
<1>0. e[1] \in EventSet
  BY InTail
<1> PICK x \in EventSet : x = e[1]
  BY <1>0
<1>1. /\ Sent(c, x) \in Seq(RequestSet)
      /\ \A k \in DOMAIN Sent(c, x) : x.type \in {"global", "capabilities", "done"} =>
           Sent(c, x)[k].type \in {"bind", "get_pointer"}
  BY SentTyped
<1> PICK q \in Seq(RequestSet) : q = Sent(c, x)
  BY <1>1
<1> DEFINE d == Tail(e)
           s == r \o q
<1>2. /\ 1 \in DOMAIN e
      /\ \A j \in DOMAIN d : j + 1 \in DOMAIN e /\ d[j] = e[j + 1]
  BY InTail
<1>3. \A j \in DOMAIN s : \/ j \in DOMAIN r /\ s[j] = r[j]
                          \/ j - Len(r) \in DOMAIN q /\ s[j] = q[j - Len(r)]
  <2>1. /\ DOMAIN r = 1 .. Len(r) /\ DOMAIN q = 1 .. Len(q)
        /\ DOMAIN s = 1 .. Len(r) + Len(q)
        /\ \A j \in 1 .. Len(r) : s[j] = r[j]
        /\ \A j \in 1 .. Len(r) + Len(q) :
             j \in 1 .. Len(r) \/ (j - Len(r) \in 1 .. Len(q) /\ s[j] = q[j - Len(r)])
    BY InConcat
  <2> HIDE DEF s
  <2> QED BY <2>1
<1> HIDE DEF d, s
<1>4. Beginning(d, s)
  <2> SUFFICES ASSUME Early PROVE Beginning(d, s)
    BY DEF Beginning
  <2>1. x.type \in {"global", "capabilities", "done"}
    BY <1>2 DEF Beginning
  <2>2. \A k \in DOMAIN d : d[k].type \in {"global", "capabilities", "done"}
    BY <1>2 DEF Beginning
  <2>3. \A k \in DOMAIN s :
          s[k].type \in {"get_registry", "bind", "sync", "get_pointer"}
    BY <1>1, <1>3, <2>1 DEF Beginning
  <2> QED BY <2>2, <2>3 DEF Beginning
<1> QED BY <1>4 DEF d, s

(* A click handled is a step of what the clicks on their way lead to.         *)
LEMMA HandlesClick ==
  ASSUME NEW c \in Clients, NEW x \in EventSet, NEW order, NEW q, q = Sent(c, x)
  PROVE  Click(State(c.current, c.selected, order), x) =
           State(Handled(c, x).current, Handled(c, x).selected,
                 IF q = <<>> THEN order ELSE Reorder(order, q[1]))
<1> DEFINE u == State(c.current, c.selected, order)
           o == IF q = <<>> THEN order ELSE Reorder(order, q[1])
<1>0. u.current = c.current /\ u.selected = c.selected /\ u.order = order
  BY DEF State
<1>1. /\ Selects(u, x) <=> Selects(c, x)
      /\ Places(u, x) <=> Places(c, x)
  BY <1>0 DEF Selects, Places
<1> HIDE DEF u
<1>2. ASSUME ~(x.type = "button" /\ Places(c, x) /\ x.button # "middle")
      PROVE  o = order
  <2>1. \A m : q = <<m>> => q # <<>> /\ q[1] = m
    OBVIOUS
  <2>2. \A m, n : q = <<m, n>> => q # <<>> /\ q[1] = m
    OBVIOUS
  <2>3. q = <<>> \/ q[1].type # "place"
    BY <1>2, <2>1, <2>2, SentShape DEF Msg
  <2> QED BY <2>3 DEF Reorder
<1> HIDE DEF o
<1>3. CASE x.type = "enter"
  <2>1. Handled(c, x) = pointer_handle_enter(c, x) /\ x.surface \in Surfaces
    BY <1>3 DEF Handled, EventSet
  <2>2. Handled(c, x).current = x.surface /\ Handled(c, x).selected = c.selected
    BY <2>1 DEF pointer_handle_enter, Clients
  <2>3. Click(u, x) = State(x.surface, u.selected, u.order)
    BY <1>3 DEF Click
  <2> QED BY <1>0, <1>2, <1>3, <2>2, <2>3 DEF o, u
<1>4. CASE x.type = "leave"
  <2>1. Handled(c, x) = pointer_handle_leave(c)
    BY <1>4 DEF Handled
  <2>2. Handled(c, x).current = "none" /\ Handled(c, x).selected = c.selected
    BY <2>1 DEF pointer_handle_leave, Clients
  <2>3. Click(u, x) = State("none", u.selected, u.order)
    BY <1>4 DEF Click
  <2> QED BY <1>0, <1>2, <1>4, <2>2, <2>3 DEF o, u
<1>5. CASE x.type = "button"
  <2>0. Handled(c, x) = pointer_handle_button(c, x)
    BY <1>5 DEF Handled
  <2>1. CASE Selects(c, x)
    <3>1. ~Places(c, x)
      BY <2>1 DEF Selects, Places
    <3>2. Handled(c, x).current = c.current /\ Handled(c, x).selected = c.current
      BY <2>0, <2>1 DEF pointer_handle_button, Clients
    <3>3. Click(u, x) = State(u.current, u.current, u.order)
      BY <1>1, <1>5, <2>1, <3>1 DEF Click
    <3> QED BY <1>0, <1>2, <3>1, <3>2, <3>3 DEF o, u
  <2>2. CASE Places(c, x)
    <3>1. ~Selects(c, x)
      BY <2>2 DEF Selects, Places
    <3>2. Handled(c, x).current = c.current /\ Handled(c, x).selected = "none"
      BY <2>0, <2>2, <3>1 DEF pointer_handle_button, Clients
    <3>3. Click(u, x) = State(u.current, "none",
               IF x.button = "middle" THEN u.order
               ELSE Moved(u.order, How(x.button), u.selected, u.current))
      BY <1>1, <1>5, <2>2, <3>1 DEF Click
    <3>4. CASE x.button = "middle"
      BY <1>0, <1>2, <3>2, <3>3, <3>4 DEF o, u
    <3>5. CASE x.button # "middle"
      <4>1. q = <<Place(How(x.button), c.selected, c.current)>> \o <<[type |-> "commit"]>>
        BY <1>5, <2>2, <3>5 DEF Sent, Placed, Reordered, How
      <4>2. \A m, n : <<m>> \o <<n>> # <<>> /\ (<<m>> \o <<n>>)[1] = m
        OBVIOUS
      <4>3. q # <<>> /\ q[1] = Place(How(x.button), c.selected, c.current)
        BY <4>1, <4>2
      <4>4. o = Moved(order, How(x.button), c.selected, c.current)
        BY <4>3 DEF o, Reorder, Place
      <4> QED BY <1>0, <3>2, <3>3, <3>5, <4>4 DEF o, u
    <3> QED BY <3>4, <3>5
  <2>3. CASE ~Selects(c, x) /\ ~Places(c, x)
    <3>1. Handled(c, x) = c
      BY <2>0, <2>3 DEF pointer_handle_button
    <3>2. Click(u, x) = u
      BY <1>1, <1>5, <2>3 DEF Click
    <3> QED BY <1>2, <2>3, <3>1, <3>2 DEF o, u
  <2> QED BY <2>1, <2>2, <2>3
<1>6. CASE x.type \notin PointerEvents
  <2>1. Handled(c, x).current = c.current /\ Handled(c, x).selected = c.selected
    <3>1. CASE x.type = "global"
      <4>1. Handled(c, x) = handle_global(c, x)
        BY <3>1, HandledTyped
      <4> QED BY <4>1 DEF handle_global, Clients
    <3>2. CASE x.type = "capabilities"
      BY <3>2 DEF Handled, Clients, WantsPointer
    <3>3. CASE x.type \notin {"global", "capabilities"}
      BY <1>6, <3>3 DEF Handled, PointerEvents
    <3> QED BY <3>1, <3>2, <3>3
  <2>2. Click(u, x) = u
    BY <1>6 DEF Click, PointerEvents
  <2> QED BY <1>2, <1>6, <2>1, <2>2 DEF o, u, PointerEvents
<1> QED BY <1>3, <1>4, <1>5, <1>6 DEF PointerEvents, o, u

(* So it leads to the same. *)
LEMMA HandlesClicks ==
  ASSUME NEW c \in Clients, NEW e \in Seq(EventSet), e # <<>>,
         NEW r \in Seq(RequestSet), Clicks(c, e, r)
  PROVE  Clicks(Handled(c, e[1]), Tail(e), r \o Sent(c, e[1]))
<1>0. e[1] \in EventSet
  BY InTail
<1> PICK x \in EventSet : x = e[1]
  BY <1>0
<1> PICK q : q = Sent(c, x)
  OBVIOUS
<1>1. q \in Seq(RequestSet) /\ \A k \in DOMAIN q : q[k].type = "place" => k = 1
  BY SentTyped
<1> PICK w, v : /\ Reorders(w, pending, r)
                /\ Follows(v, State(c.current, c.selected, w[Len(r)]), e)
                /\ v[Len(e)] = Meant
  BY DEF Clicks
<1> PICK p : p = pending
  OBVIOUS
<1>6. Reorders(w, p, r)
  OBVIOUS
<1>7. \A k \in DOMAIN q : k > 1 => q[k].type # "place"
  BY <1>1
<1>9. ASSUME NEW w1, NEW p1, NEW q1 \in Seq(RequestSet), Reorders(w1, p1, r),
             \A k \in DOMAIN q1 : k > 1 => q1[k].type # "place"
      PROVE  \E w2 : /\ Reorders(w2, p1, r \o q1)
                     /\ q1 = <<>> => w2[Len(r \o q1)] = w1[Len(r)]
                     /\ q1 # <<>> => w2[Len(r \o q1)] = Reorder(w1[Len(r)], q1[1])
  BY <1>9, ReordersMore
<1>2. PICK w2 : /\ Reorders(w2, p, r \o q)
                /\ q = <<>> => w2[Len(r \o q)] = w[Len(r)]
                /\ q # <<>> => w2[Len(r \o q)] = Reorder(w[Len(r)], q[1])
  BY <1>1, <1>6, <1>7, <1>9
<1> PICK u : u = State(c.current, c.selected, w[Len(r)])
  OBVIOUS
<1>3. PICK v2 : /\ Follows(v2, Click(u, x), Tail(e))
                /\ v2[Len(Tail(e))] = v[Len(e)]
  BY FollowsTail
<1> PICK o : o = w[Len(r)]
  OBVIOUS
<1>4. Click(u, x) = State(Handled(c, x).current, Handled(c, x).selected,
                          IF q = <<>> THEN o ELSE Reorder(o, q[1]))
  BY HandlesClick
<1>5. Clicks(Handled(c, x), Tail(e), r \o q)
  BY <1>2, <1>3, <1>4 DEF Clicks
<1> QED BY <1>5

(* Handling an event keeps Line. *)
LEMMA Handles ==
  ASSUME NEW c, NEW e, NEW r, Typed(c, e, r), e # <<>>, Line(c, e, r)
  PROVE  /\ Typed(Handled(c, e[1]), Tail(e), r \o Sent(c, e[1]))
         /\ Line(Handled(c, e[1]), Tail(e), r \o Sent(c, e[1]))
<1>1. c \in Clients /\ e \in Seq(EventSet) /\ r \in Seq(RequestSet)
  BY DEF Typed
<1>2. e[1] \in EventSet /\ Tail(e) \in Seq(EventSet)
  BY <1>1, InTail
<1>3. Handled(c, e[1]) \in Clients
  BY <1>1, <1>2, HandledTyped
<1>4. Sent(c, e[1]) \in Seq(RequestSet)
  BY <1>1, <1>2, SentTyped
<1>5. r \o Sent(c, e[1]) \in Seq(RequestSet)
  BY <1>1, <1>4, InConcat
<1>6. Typed(Handled(c, e[1]), Tail(e), r \o Sent(c, e[1]))
  BY <1>2, <1>3, <1>5 DEF Typed
<1>7. Line(Handled(c, e[1]), Tail(e), r \o Sent(c, e[1]))
  BY <1>1, HandlesGlobals, HandlesPointer, HandlesRoundtrips, HandlesBeginning,
     HandlesClicks
     DEF Line
<1> QED BY <1>6, <1>7

-------------------------------------------------------------------------------
(* What a handler sends is in order: an acknowledgement before the frame, and *)
(* a commit after the request to reorder.                                     *)
LEMMA HandlesOrders ==
  ASSUME NEW c \in Clients, NEW x \in EventSet, NEW r \in Seq(RequestSet), Orders(r)
  PROVE  Orders(r \o Sent(c, x))
<1>1. ASSUME NEW q \in Seq(RequestSet), NEW s, s = r \o q,
             \A k \in DOMAIN q :
              /\ q[k].type # "create_pool"
              /\ q[k].type = "frame" => k = 2 /\ 1 \in DOMAIN q /\ q[1].type = "ack"
              /\ q[k].type = "place" => k = 1 /\ 2 \in DOMAIN q /\ q[2].type = "commit"
      PROVE  Orders(s)
  <2>0. /\ Len(r) \in Nat /\ Len(q) \in Nat
        /\ DOMAIN r = 1 .. Len(r) /\ DOMAIN q = 1 .. Len(q)
        /\ DOMAIN s = 1 .. Len(r) + Len(q)
        /\ \A j \in 1 .. Len(r) : s[j] = r[j]
        /\ \A j \in 1 .. Len(q) : s[Len(r) + j] = q[j]
        /\ \A j \in 1 .. Len(r) + Len(q) :
             j \in 1 .. Len(r) \/ (j - Len(r) \in 1 .. Len(q) /\ s[j] = q[j - Len(r)])
    BY <1>1, InConcat
  <2>1. /\ \A j \in DOMAIN r : j \in DOMAIN s /\ s[j] = r[j]
        /\ \A j \in DOMAIN s : \/ j \in DOMAIN r /\ s[j] = r[j]
                               \/ j - Len(r) \in DOMAIN q /\ s[j] = q[j - Len(r)]
    <3>1. \A j \in DOMAIN r : j \in DOMAIN s /\ s[j] = r[j]
      BY <2>0
    <3>2. \A j \in DOMAIN s : \/ j \in DOMAIN r /\ s[j] = r[j]
                              \/ j - Len(r) \in DOMAIN q /\ s[j] = q[j - Len(r)]
      BY <2>0
    <3> QED BY <3>1, <3>2
  <2>2. PoolOrder(s)
    <3>1. \A j \in DOMAIN s : s[j].type = "create_pool" => j \in DOMAIN r /\ s[j] = r[j]
      BY <1>1, <2>1
    <3>2. \A j \in DOMAIN s : s[j].type = "create_pool" => file = "whole" /\ pool = "none"
      BY <3>1 DEF Orders, PoolOrder
    <3>3. \A j, k \in DOMAIN s :
            s[j].type = "create_pool" /\ s[k].type = "create_pool" => j = k
      BY <3>1 DEF Orders, PoolOrder
    <3> QED BY <3>2, <3>3 DEF Orders, PoolOrder
  <2>3. FrameOrder(s)
    <3> SUFFICES ASSUME prompt, NEW k \in DOMAIN s, s[k].type = "frame" PROVE Acks(s, k)
      BY DEF Orders, FrameOrder
    <3>1. CASE k \in DOMAIN r
      <4>1. Acks(r, k)
        BY <2>1, <3>1 DEF Orders, FrameOrder
      <4>2. \A j \in 1 .. k : s[j] = r[j]
        BY <2>0, <3>1
      <4> QED BY <4>1, <4>2 DEF Acks
    <3>2. CASE k \notin DOMAIN r
      <4>1. k - Len(r) \in DOMAIN q /\ q[k - Len(r)].type = "frame"
        BY <2>1, <3>2
      <4>2. k - Len(r) = 2 /\ 1 \in 1 .. Len(q) /\ q[1].type = "ack"
        BY <1>1, <2>0, <4>1
      <4>3. Len(r) + 1 \in 1 .. k /\ s[Len(r) + 1].type = "ack"
        BY <2>0, <4>2
      <4> QED BY <4>3 DEF Acks
    <3> QED BY <3>1, <3>2
  <2>4. CommitOrder(s)
    <3>1. stack # pending => \E k \in DOMAIN s : s[k].type \in {"commit", "frame"}
      BY <2>1 DEF Orders, CommitOrder
    <3>2. ASSUME NEW k \in DOMAIN s, s[k].type = "place"
          PROVE  \E j \in DOMAIN s : j > k /\ s[j].type \in {"commit", "frame"}
      <4>1. CASE k \in DOMAIN r
        <5>1. \E j \in DOMAIN r : j > k /\ r[j].type \in {"commit", "frame"}
          BY <2>1, <3>2, <4>1 DEF Orders, CommitOrder
        <5> QED BY <2>1, <5>1
      <4>2. CASE k \notin DOMAIN r
        <5>1. k - Len(r) \in DOMAIN q /\ q[k - Len(r)].type = "place"
          BY <2>1, <3>2, <4>2
        <5>2. k - Len(r) = 1 /\ 2 \in 1 .. Len(q) /\ q[2].type = "commit"
          BY <1>1, <2>0, <5>1
        <5>3. /\ Len(r) + 2 \in DOMAIN s /\ s[Len(r) + 2].type = "commit"
              /\ Len(r) + 2 > k
          BY <2>0, <5>2
        <5> QED BY <5>3
      <4> QED BY <4>1, <4>2
    <3> QED BY <3>1, <3>2 DEF CommitOrder
  <2> QED BY <2>2, <2>3, <2>4 DEF Orders
<1>2. /\ Sent(c, x) \in Seq(RequestSet)
      /\ \A k \in DOMAIN Sent(c, x) :
           /\ Sent(c, x)[k].type # "create_pool"
           /\ Sent(c, x)[k].type = "frame" =>
                k = 2 /\ 1 \in DOMAIN Sent(c, x) /\ Sent(c, x)[1].type = "ack"
           /\ Sent(c, x)[k].type = "place" =>
                k = 1 /\ 2 \in DOMAIN Sent(c, x) /\ Sent(c, x)[2].type = "commit"
  BY SentTyped
<1> QED BY <1>1, <1>2

-------------------------------------------------------------------------------
(* A batch.  After is what single steps lead to: the recursion has a solution. *)
Handling(f, n) ==
  f = [k \in 0 .. n |-> IF k = 0 THEN [client |-> client, sent |-> <<>>]
                        ELSE Step(f[k - 1], events[k])]

(* There is one for every length. *)
LEMMA HandlingDefined == ASSUME NEW n \in Nat PROVE \E f : Handling(f, n)
<1> DEFINE S == {m \in Nat : \E f : Handling(f, m)}
<1>1. 0 \in S
  <2> DEFINE f == [k \in 0 .. 0 |-> [client |-> client, sent |-> <<>>]]
  <2>1. Handling(f, 0)
    BY DEF Handling
  <2> QED BY <2>1
<1>2. ASSUME NEW m \in Nat, m \in S PROVE m + 1 \in S
  <2> PICK f : Handling(f, m)
    BY <1>2
  <2>0. /\ f[0] = [client |-> client, sent |-> <<>>]
        /\ \A k \in 1 .. m : f[k] = Step(f[k - 1], events[k])
    BY DEF Handling
  <2> DEFINE g == [k \in 0 .. m + 1 |-> IF k <= m THEN f[k] ELSE Step(f[m], events[k])]
             h == [k \in 0 .. m + 1 |->
                     IF k = 0 THEN [client |-> client, sent |-> <<>>]
                     ELSE Step(g[k - 1], events[k])]
  <2>1. ASSUME NEW k \in 0 .. m + 1 PROVE g[k] = h[k]
    <3>1. CASE k = 0
      BY <2>0, <3>1
    <3>2. CASE k \in 1 .. m
      <4>1. g[k] = f[k] /\ g[k - 1] = f[k - 1]
        BY <3>2
      <4> QED BY <2>0, <3>2, <4>1
    <3>3. CASE k = m + 1
      <4>1. g[k] = Step(f[m], events[k]) /\ g[k - 1] = f[m]
        BY <3>3
      <4> QED BY <3>3, <4>1
    <3> QED BY <3>1, <3>2, <3>3
  <2>2. g = h
    BY <2>1
  <2>3. Handling(g, m + 1)
    BY <2>2 DEF Handling
  <2> QED BY <2>3
<1> HIDE DEF S
<1>3. n \in S
  BY <1>1, <1>2, CountingTo
<1> QED BY <1>3 DEF S

(* After(n) is the last of n steps. *)
LEMMA AfterIs ==
  ASSUME NEW n \in Nat
  PROVE  \E f : /\ f[0] = [client |-> client, sent |-> <<>>]
                /\ \A k \in 1 .. n : f[k] = Step(f[k - 1], events[k])
                /\ After(n) = f[n]
<1> DEFINE f == CHOOSE f : Handling(f, n)
<1>1. Handling(f, n)
  BY HandlingDefined
<1>2. After(n) = f[n]
  BY DEF After, Handling
<1> HIDE DEF f
<1>3. /\ f[0] = [client |-> client, sent |-> <<>>]
      /\ \A k \in 1 .. n : f[k] = Step(f[k - 1], events[k])
  BY <1>1 DEF Handling
<1> QED BY <1>2, <1>3

(* What is left after k events. *)
LEMMA Rests ==
  ASSUME NEW S, NEW e \in Seq(S), NEW k \in Nat, k < Len(e)
  PROVE  LET d == SubSeq(e, k + 1, Len(e))
         IN  /\ d \in Seq(S) /\ d # <<>> /\ d[1] = e[k + 1]
             /\ Tail(d) = SubSeq(e, k + 2, Len(e))
<1> DEFINE d == SubSeq(e, k + 1, Len(e))
           b == SubSeq(e, k + 2, Len(e))
<1>1. /\ d \in Seq(S) /\ Len(d) = Len(e) - k /\ Len(e) \in Nat
      /\ \A j \in 1 .. Len(e) - k : d[j] = e[k + j]
  OBVIOUS
<1>2. /\ b \in Seq(S) /\ Len(b) = (Len(e) - k) - 1
      /\ \A j \in 1 .. (Len(e) - k) - 1 : b[j] = e[k + 1 + j]
  OBVIOUS
<1> HIDE DEF d, b
<1>3. d # <<>> /\ d[1] = e[k + 1]
  BY <1>1
<1>4. /\ Tail(d) \in Seq(S) /\ Len(Tail(d)) = Len(d) - 1
      /\ \A j \in 1 .. Len(d) - 1 : Tail(d)[j] = d[j + 1]
  BY <1>1, <1>3, InTail
<1>5. Len(Tail(d)) = Len(b) /\ \A j \in 1 .. Len(b) : Tail(d)[j] = b[j]
  <2>1. Len(Tail(d)) = Len(b)
    BY <1>1, <1>2, <1>4
  <2>2. ASSUME NEW j \in 1 .. Len(b) PROVE Tail(d)[j] = b[j]
    <3>1. j \in 1 .. Len(d) - 1 /\ j + 1 \in 1 .. Len(e) - k /\ k + (j + 1) = k + 1 + j
      BY <1>1, <1>2
    <3>2. Tail(d)[j] = d[j + 1] /\ d[j + 1] = e[k + (j + 1)]
      BY <1>1, <1>4, <3>1
    <3>3. j \in 1 .. (Len(e) - k) - 1
      BY <1>1, <1>2
    <3>4. b[j] = e[k + 1 + j]
      BY <1>2, <3>3
    <3> QED BY <3>1, <3>2, <3>4
  <2> QED BY <2>1, <2>2
<1>6. \A s, t \in Seq(S) : Len(s) = Len(t) /\ (\A j \in 1 .. Len(t) : s[j] = t[j]) => s = t
  OBVIOUS
<1>7. Tail(d) = b
  BY <1>2, <1>4, <1>5, <1>6
<1> QED BY <1>1, <1>3, <1>7 DEF d, b

(* One more event, as Step handles it. *)
LEMMA Steps ==
  ASSUME NEW s, NEW e, NEW q \in Seq(RequestSet), s.sent \in Seq(RequestSet),
         Typed(s.client, e, q \o s.sent), e # <<>>,
         Line(s.client, e, q \o s.sent), Orders(q \o s.sent)
  PROVE  LET t == Step(s, e[1])
         IN  /\ Typed(t.client, Tail(e), q \o t.sent)
             /\ Line(t.client, Tail(e), q \o t.sent) /\ Orders(q \o t.sent)
             /\ t.sent \in Seq(RequestSet)
             /\ (\A k \in DOMAIN s.sent :
                   s.sent[k].type \notin {"sync", "get_registry", "create_pool"}) =>
                (\A k \in DOMAIN t.sent :
                   t.sent[k].type \notin {"sync", "get_registry", "create_pool"})
             /\ Quiet(e, q \o s.sent) => Quiet(Tail(e), q \o t.sent)
             /\ Once(e, q \o s.sent) /\ e[1].type = "done" =>
                  Quiet(Tail(e), q \o t.sent)
<1> DEFINE x == e[1]
           c == s.client
           r == q \o s.sent
           a == Sent(c, x)
           t == Step(s, x)
<1>1. /\ c \in Clients /\ e \in Seq(EventSet) /\ r \in Seq(RequestSet)
  BY DEF Typed
<1>2. x \in EventSet
  BY <1>1, InTail
<1>3. Typed(Handled(c, x), Tail(e), r \o a) /\ Line(Handled(c, x), Tail(e), r \o a)
  BY Handles
<1>4. t.client = Handled(c, x) /\ t.sent = s.sent \o a
  BY <1>3 DEF Step
<1>5. /\ a \in Seq(RequestSet)
      /\ \A k \in DOMAIN a : a[k].type \notin {"sync", "get_registry", "create_pool"}
  <2> HIDE DEF c, x
  <2> QED BY <1>1, <1>2, SentTyped
<1>6. Orders(r \o a)
  BY <1>1, <1>2, HandlesOrders
<1>7. \A f, g, h \in Seq(RequestSet) : f \o (g \o h) = (f \o g) \o h
  OBVIOUS
<1> HIDE DEF a
<1>8. q \o t.sent = r \o a
  <2>1. q \o (s.sent \o a) = (q \o s.sent) \o a
    BY <1>5, <1>7
  <2> QED BY <1>4, <2>1
<1>9. t.sent \in Seq(RequestSet)
  BY <1>4, <1>5, InConcat
<1>10. ASSUME \A k \in DOMAIN s.sent :
                s.sent[k].type \notin {"sync", "get_registry", "create_pool"},
              NEW k \in DOMAIN t.sent
       PROVE  t.sent[k].type \notin {"sync", "get_registry", "create_pool"}
  <2> PICK p \in Seq(RequestSet) : p = s.sent
    OBVIOUS
  <2>1. \A j \in DOMAIN (p \o a) : \/ j \in DOMAIN p /\ (p \o a)[j] = p[j]
                                   \/ j - Len(p) \in DOMAIN a /\ (p \o a)[j] = a[j - Len(p)]
    BY <1>5, InConcat
  <2> QED BY <1>4, <1>5, <1>10, <2>1
<1>11. /\ Quiet(e, r) => x.type # "done"
       /\ x.type # "done" => (Quiet(e, r) <=> Quiet(Tail(e), r \o a))
       /\ x.type = "done" /\ Once(e, r) => Quiet(Tail(e), r \o a)
  <2> HIDE DEF r
  <2> QED BY <1>1, <1>5, SyncsTail
<1> QED BY <1>3, <1>4, <1>6, <1>8, <1>9, <1>10, <1>11

(* What a batch leads to: the client, what is left of the events and what has *)
(* been sent are in Line, and the roundtrip is over if its end was among them. *)
LEMMA Batch ==
  ASSUME Typed(client, events, requests), Line(client, events, requests),
         Orders(requests), NEW n \in 1 .. Len(events)
  PROVE  LET s == After(n)
             d == SubSeq(events, n + 1, Len(events))
         IN  /\ Typed(s.client, d, requests \o s.sent)
             /\ Line(s.client, d, requests \o s.sent)
             /\ Orders(requests \o s.sent)
             /\ s.sent \in Seq(RequestSet)
             /\ \A k \in DOMAIN s.sent :
                  s.sent[k].type \notin {"sync", "get_registry", "create_pool"}
             /\ Awaits(pc) /\ Has(n, "done") => Quiet(d, requests \o s.sent)
<1>0. Len(events) \in Nat /\ events \in Seq(EventSet) /\ requests \in Seq(RequestSet)
  BY DEF Typed
<1>1. PICK f : /\ f[0] = [client |-> client, sent |-> <<>>]
               /\ \A k \in 1 .. n : f[k] = Step(f[k - 1], events[k])
               /\ After(n) = f[n]
  BY <1>0, AfterIs
<1> DEFINE Rest(k) == SubSeq(events, k + 1, Len(events))
           Good(k) ==
             /\ Typed(f[k].client, Rest(k), requests \o f[k].sent)
             /\ Line(f[k].client, Rest(k), requests \o f[k].sent)
             /\ Orders(requests \o f[k].sent)
             /\ f[k].sent \in Seq(RequestSet)
             /\ \A j \in DOMAIN f[k].sent :
                  f[k].sent[j].type \notin {"sync", "get_registry", "create_pool"}
             /\ Awaits(pc) /\ Has(k, "done") => Quiet(Rest(k), requests \o f[k].sent)
           S == {k \in Nat : k <= n => Good(k)}
<1>2. Good(0)
  <2>1. f[0].client = client /\ f[0].sent = <<>>
    BY <1>1
  <2>2. Rest(0) = events
    <3>1. \A e \in Seq(EventSet) : SubSeq(e, 0 + 1, Len(e)) = e
      OBVIOUS
    <3> QED BY <1>0, <3>1
  <2>3. requests \o f[0].sent = requests
    <3>1. \A r \in Seq(RequestSet) : r \o <<>> = r
      OBVIOUS
    <3> QED BY <1>0, <2>1, <3>1
  <2>4. <<>> \in Seq(RequestSet) /\ DOMAIN <<>> = {}
    OBVIOUS
  <2>5. ~Has(0, "done")
    BY DEF Has
  <2> HIDE DEF Rest
  <2> QED BY <2>1, <2>2, <2>3, <2>4, <2>5
<1>3. ASSUME NEW k \in Nat, k < n, Good(k) PROVE Good(k + 1)
  <2>1. k < Len(events)
    BY <1>0, <1>3
  <2>2. /\ Rest(k) # <<>> /\ Rest(k)[1] = events[k + 1]
        /\ Tail(Rest(k)) = Rest(k + 1)
    <3>1. (k + 1) + 1 = k + 2
      OBVIOUS
    <3> QED BY <1>0, <2>1, <3>1, Rests
  <2>3. f[k + 1] = Step(f[k], events[k + 1])
    <3>1. k + 1 \in 1 .. n /\ (k + 1) - 1 = k
      BY <1>3
    <3> QED BY <1>1, <3>1
  <2> DEFINE t == f[k + 1]
  <2> HIDE DEF Rest
  <2>4. /\ Typed(t.client, Rest(k + 1), requests \o t.sent)
        /\ Line(t.client, Rest(k + 1), requests \o t.sent)
        /\ Orders(requests \o t.sent)
        /\ t.sent \in Seq(RequestSet)
        /\ (\A j \in DOMAIN t.sent :
                  t.sent[j].type \notin {"sync", "get_registry", "create_pool"})
        /\ (Quiet(Rest(k), requests \o f[k].sent) => Quiet(Rest(k + 1), requests \o t.sent))
        /\ (Once(Rest(k), requests \o f[k].sent) /\ events[k + 1].type = "done" =>
             Quiet(Rest(k + 1), requests \o t.sent))
    <3> PICK s : s = f[k]
      OBVIOUS
    <3> PICK e : e = Rest(k)
      OBVIOUS
    <3> PICK q \in Seq(RequestSet) : q = requests
      BY <1>0
    <3> PICK x : x = Step(s, e[1])
      OBVIOUS
    <3>1. x = t /\ Tail(e) = Rest(k + 1) /\ e[1] = events[k + 1]
      BY <2>2, <2>3
    <3>2. /\ s.sent \in Seq(RequestSet) /\ Typed(s.client, e, q \o s.sent) /\ e # <<>>
          /\ Line(s.client, e, q \o s.sent) /\ Orders(q \o s.sent)
          /\ \A j \in DOMAIN s.sent :
               s.sent[j].type \notin {"sync", "get_registry", "create_pool"}
      BY <1>3, <2>2
    <3>3. /\ Typed(x.client, Tail(e), q \o x.sent)
          /\ Line(x.client, Tail(e), q \o x.sent) /\ Orders(q \o x.sent)
          /\ x.sent \in Seq(RequestSet)
          /\ \A j \in DOMAIN x.sent :
               x.sent[j].type \notin {"sync", "get_registry", "create_pool"}
          /\ Quiet(e, q \o s.sent) => Quiet(Tail(e), q \o x.sent)
          /\ Once(e, q \o s.sent) /\ e[1].type = "done" => Quiet(Tail(e), q \o x.sent)
      BY <3>2, Steps
    <3> QED BY <3>1, <3>3
  <2>5. ASSUME Awaits(pc), Has(k + 1, "done")
        PROVE  Quiet(Rest(k + 1), requests \o t.sent)
    <3>1. Once(Rest(k), requests \o f[k].sent)
      BY <1>3, <2>5 DEF Line, Syncs
    <3>2. CASE events[k + 1].type = "done"
      BY <2>4, <3>1, <3>2
    <3>3. CASE events[k + 1].type # "done"
      <4>1. Has(k, "done")
        <5>1. PICK j \in 1 .. k + 1 : events[j].type = "done"
          BY <2>5 DEF Has
        <5>2. j \in 1 .. k
          BY <3>3, <5>1
        <5> QED BY <5>1, <5>2 DEF Has
      <4> QED BY <1>3, <2>4, <2>5, <4>1
    <3> QED BY <3>2, <3>3
  <2> QED BY <2>4, <2>5
<1> HIDE DEF Good
<1>4. 0 \in S
  BY <1>2
<1>5. \A k \in Nat : k < n /\ k \in S => k + 1 \in S
  BY <1>3
<1>6. n \in S
  <2> HIDE DEF S
  <2>1. n \in Nat /\ n \in 0 .. n
    OBVIOUS
  <2> QED BY <1>4, <1>5, <2>1, CountingTo
<1>7. Good(n)
  BY <1>6
<1> QED BY <1>1, <1>7 DEF Good

-------------------------------------------------------------------------------
Plain == {"gamma-blend", "sigbus"}

(* then what the program does. *)
Table(call) ==
  \/ call = "get_registry" /\ pc = 1
  \/ call = "dispatch" /\ pc = 2
  \/ call = "sync" /\ pc = 3
  \/ call = "await" /\ pc = 4
  \/ call = "check" /\ pc = 5
  \/ /\ program = "cursor"
     /\ \/ call = "listen" /\ pc = 6
        \/ call = "toplevel_init" /\ pc = 7
        \/ call = "loop" /\ pc > 7
  \/ /\ program = "copy-fu"
     /\ \/ call = "check_devices" /\ pc = 6
        \/ call = "listen" /\ pc = 7
        \/ call = "toplevel_init" /\ pc = 8
        \/ call = "loop" /\ pc > 8
  \/ /\ program = "subsurfaces"
     /\ \/ call = "get_subcompositor" /\ pc = 6
        \/ call = "dispatch" /\ pc = 7
        \/ call = "sync" /\ pc = 8
        \/ call = "await" /\ pc = 9
        \/ call = "check_subcompositor" /\ pc = 10
        \/ call = "listen" /\ pc = 11
        \/ call = "toplevel_init" /\ pc = 12
        \/ call = "loop" /\ pc > 12
  \/ /\ program = "gamma-blend"
     /\ \/ call = "get_subcompositor" /\ pc = 6
        \/ call = "sync" /\ pc = 7
        \/ call = "await" /\ pc = 8
        \/ call = "check_subcompositor" /\ pc = 9
        \/ call = "toplevel_init" /\ pc = 10
        \/ call = "sync" /\ pc = 11
        \/ call = "await" /\ pc = 12
        \/ call = "draw" /\ pc = 13
        \/ call = "loop" /\ pc > 13
  \/ /\ program = "sigbus"
     /\ \/ call = "create_pool" /\ pc = 6
        \/ call = "sync" /\ pc = 7
        \/ call = "await" /\ pc = 8
        \/ call = "shrink" /\ pc = 9
        \/ call = "toplevel_init" /\ pc = 10
        \/ call = "sync" /\ pc = 11
        \/ call = "await" /\ pc = 12
        \/ call = "attach" /\ pc = 13
        \/ call = "loop" /\ pc > 13

(* At means what the table says. *)
LEMMA ScriptTable ==
  ASSUME UserTyped, NEW call, At(call) PROVE Table(call) /\ status = "running"
<1>1. program \in AllPrograms /\ pc \in Nat \ {0} /\ status = "running"
  BY DEF UserTyped, At
<1>2. CASE program = "cursor"
  BY <1>1, <1>2 DEF Table, At, Script, registry_init, pointer_main
<1>3. CASE program = "copy-fu"
  BY <1>1, <1>3 DEF Table, At, Script, registry_init, copy_fu_main
<1>4. CASE program = "subsurfaces"
  BY <1>1, <1>4 DEF Table, At, Script, registry_init, subsurfaces_main
<1>5. CASE program = "gamma-blend"
  BY <1>1, <1>5 DEF Table, At, Script, registry_init, gamma_blend_main
<1>6. CASE program = "sigbus"
  BY <1>1, <1>6 DEF Table, At, Script, registry_init, sigbus_main
<1> QED BY <1>1, <1>2, <1>3, <1>4, <1>5, <1>6 DEF AllPrograms

-------------------------------------------------------------------------------
(* A call of the client: it goes on, with requests q, from where no roundtrip *)
(* is on its way.                                                             *)
Goes(e, r, q) ==
  /\ pc' = pc + 1 /\ UNCHANGED <<program, advert, prompt>>
  /\ e \in Seq(EventSet) /\ r \in Seq(RequestSet) /\ q \in Seq(RequestSet)
  /\ Syncs(e, r) /\ (Awaits(pc) => Quiet(e, r))
  /\ IF Awaits(pc + 1) THEN q = <<Msg("sync")>>
     ELSE \A k \in DOMAIN q : q[k].type # "sync"

(* An empty sequence added to another leaves it as it is. *)
LEMMA NothingMore ==
  /\ <<>> \in Seq(EventSet) /\ <<>> \in Seq(RequestSet) /\ DOMAIN <<>> = {}
  /\ \A e \in Seq(EventSet) : e \o <<>> = e
  /\ \A r \in Seq(RequestSet) : r \o <<>> = r
<1>1. \A S : <<>> \in Seq(S) /\ \A e \in Seq(S) : e \o <<>> = e
  OBVIOUS
<1> QED BY <1>1

(* There is a roundtrip again if the next call waits for one. *)
LEMMA GoesQuiet ==
  ASSUME NEW e, NEW r, NEW q, Goes(e, r, q)
  PROVE  /\ Quiet(e, r)
         /\ Awaits(pc + 1) => Once(e, r \o q) /\ ~Quiet(e, r \o q)
         /\ ~Awaits(pc + 1) => Quiet(e, r \o q)
<1>1. /\ e \in Seq(EventSet) /\ r \in Seq(RequestSet) /\ q \in Seq(RequestSet)
      /\ Quiet(e, r)
  BY DEF Goes, Syncs
<1>2. CASE Awaits(pc + 1)
  <2>1. q = <<Msg("sync")>>
    BY <1>2 DEF Goes
  <2> QED BY <1>1, <1>2, <2>1, SyncSent
<1>3. CASE ~Awaits(pc + 1)
  <2>1. \A k \in DOMAIN q : q[k].type # "sync"
    BY <1>3 DEF Goes
  <2>2. ASSUME NEW es \in Seq(EventSet), DOMAIN es = {} PROVE Quiet(e \o es, r \o q)
    BY <1>1, <2>1, <2>2, SyncsMore
  <2>3. Quiet(e, r \o q)
    BY <1>1, <2>2, NothingMore
  <2> QED BY <1>1, <1>3, <2>3
<1> QED BY <1>2, <1>3

(* So it does for the roundtrip itself, *)
LEMMA GoesSyncs ==
  ASSUME NEW e, NEW r, NEW q, Goes(e, r, q) PROVE Syncs(e, r \o q)'
<1>1. Awaits(pc)' <=> Awaits(pc + 1)
  BY DEF Goes, Awaits
<1> QED BY <1>1, GoesQuiet DEF Syncs

(* for what is ahead of its end, *)
LEMMA GoesComing ==
  ASSUME NEW e, NEW r, NEW q, Goes(e, r, q), pc \in Nat,
         NEW p \in Nat, Awaits(p), NEW ev, NEW req, Coming(p, ev, req, e, r)
  PROVE  Coming(p, ev, req, e, r \o q)'
<1>1. pc' = pc + 1 /\ e \in Seq(EventSet) /\ r \in Seq(RequestSet) /\ q \in Seq(RequestSet)
  BY DEF Goes
<1>2. pc <= p /\ pc # p /\ Ahead(ev, req, e, r)
  BY GoesQuiet DEF Coming
<1>3. pc' <= p /\ (pc' = p => ~Quiet(e, r \o q))
  BY <1>1, <1>2, GoesQuiet
<1>4. Ahead(ev, req, e, r \o q)
  <2>1. ASSUME NEW es \in Seq(EventSet), DOMAIN es = {}
        PROVE  Ahead(ev, req, e \o es, r \o q)
    BY <1>1, <1>2, <2>1, AheadMore
  <2> QED BY <1>1, <2>1, NothingMore
<1> QED BY <1>3, <1>4 DEF Coming

(* and for what is asked for now. *)
LEMMA GoesAsking ==
  ASSUME NEW e, NEW r, NEW q, Goes(e, r, q), pc \in Nat, ~Awaits(pc + 1),
         NEW p \in Nat, pc + 1 < p, NEW ev, NEW req,
         InFlight(ev, req, e, r) \/ \E k \in DOMAIN q : q[k] = req
  PROVE  Coming(p, ev, req, e, r \o q)'
<1>1. pc' = pc + 1 /\ e \in Seq(EventSet) /\ r \in Seq(RequestSet) /\ q \in Seq(RequestSet)
  BY DEF Goes
<1>2. Quiet(e, r \o q) /\ r \o q \in Seq(RequestSet)
  BY <1>1, GoesQuiet, InConcat
<1>3. InFlight(ev, req, e, r \o q)
  <2>1. CASE InFlight(ev, req, e, r)
    <3>1. ASSUME NEW es \in Seq(EventSet), DOMAIN es = {}
          PROVE  InFlight(ev, req, e \o es, r \o q)
      BY <1>1, <2>1, <3>1, FlightGoesOn
    <3> QED BY <1>1, <3>1, NothingMore
  <2>2. CASE \E k \in DOMAIN q : q[k] = req
    <3>1. PICK k \in DOMAIN q : q[k] = req
      BY <2>2
    <3>2. Len(r) + k \in DOMAIN (r \o q) /\ (r \o q)[Len(r) + k] = req
      BY <1>1, <3>1, InConcat
    <3> QED BY <3>2 DEF InFlight
  <2> QED BY <2>1, <2>2
<1>4. Ahead(ev, req, e, r \o q)
  BY <1>1, <1>2, <1>3, QuietIsAhead
<1> QED BY <1>1, <1>4 DEF Coming

-------------------------------------------------------------------------------
(* What each call has to ask for, by its place in the script. *)
Asks(c, e, r, q) ==
  /\ pc = 1 => e = <<>> /\ r = <<>> /\ q = <<GetRegistry(1)>>
  /\ pc = 2 => (~split' /\ Advertised("seat") => "seat" \in c.bound)
  /\ pc # 2 => split' = split
  /\ pc = 6 /\ Composes => \E k \in DOMAIN q : q[k] = GetRegistry(2)
  /\ pc = 6 /\ program = "sigbus" => \E k \in DOMAIN q : q[k] = Msg("create_pool")
  /\ pc = 10 /\ program \in Plain => \E k \in DOMAIN q : q[k] = Msg("commit")
  /\ program = "subsurfaces" =>
       listening' = IF pc = 11 THEN c.pointer ELSE listening
  /\ \A k \in DOMAIN q : q[k].type # "place"
  /\ Early' => \A k \in DOMAIN q :
                 q[k].type \in {"get_registry", "bind", "sync", "get_pointer"}

(* Then the parts of Line hold after the call. *)
LEMMA CallGlobals ==
  ASSUME NEW c, NEW e, NEW r, NEW q, Goes(e, r, q), Asks(c, e, r, q),
         UserTyped, Globals(c, e, r)
  PROVE  Globals(c, e, r \o q)'
<1>1. pc \in Nat \ {0} /\ pc' = pc + 1 /\ program' = program /\ advert' = advert
  BY DEF UserTyped, Goes
<1>2. ASSUME NEW g \in Wanted(1), Advertised(g)
      PROVE  g \in c.bound \/ Coming(4, Global(g, 1), GetRegistry(1), e, r \o q)'
  <2>1. CASE pc = 1
    <3>1. \E k \in DOMAIN q : q[k] = GetRegistry(1)
      <4>1. q = <<GetRegistry(1)>>
        BY <2>1 DEF Asks
      <4> QED BY <4>1
    <3>2. ~Awaits(pc + 1)
      BY <2>1 DEF Awaits
    <3> QED BY <1>1, <2>1, <3>1, <3>2, GoesAsking
  <2>2. CASE pc > 1
    <3>1. g \in c.bound \/ Coming(4, Global(g, 1), GetRegistry(1), e, r)
      BY <1>2, <2>2 DEF Globals
    <3>2. Awaits(4)
      BY DEF Awaits
    <3> QED BY <1>1, <3>1, <3>2, GoesComing
  <2> QED BY <1>1, <2>1, <2>2
<1>3. ASSUME Composes, pc + 1 > 6, Advertised("subcompositor")
      PROVE  \/ "subcompositor" \in c.bound
             \/ Coming(Second, Global("subcompositor", 2), GetRegistry(2), e, r \o q)'
  <2>1. PICK p \in Nat : p = Second /\ Awaits(p) /\ p > 7
    BY <1>3 DEF Second, Awaits, Composes
  <2>2. Second' = p
    BY <1>1, <2>1 DEF Second
  <2>3. CASE pc = 6
    <3>1. \E k \in DOMAIN q : q[k] = GetRegistry(2)
      BY <1>3, <2>3 DEF Asks
    <3>2. ~Awaits(pc + 1)
      BY <2>3 DEF Awaits
    <3>3. Coming(p, Global("subcompositor", 2), GetRegistry(2), e, r \o q)'
      BY <1>1, <2>1, <2>3, <3>1, <3>2, GoesAsking
    <3> QED BY <2>2, <3>3
  <2>4. CASE pc > 6
    <3>1. \/ "subcompositor" \in c.bound
          \/ Coming(p, Global("subcompositor", 2), GetRegistry(2), e, r)
      BY <1>3, <2>1, <2>4 DEF Globals
    <3>2. \/ "subcompositor" \in c.bound
          \/ Coming(p, Global("subcompositor", 2), GetRegistry(2), e, r \o q)'
      BY <1>1, <2>1, <3>1, GoesComing
    <3> QED BY <2>2, <3>2
  <2> QED BY <1>1, <1>3, <2>3, <2>4
<1>4. (\A g : Advertised(g)' <=> Advertised(g)) /\ Second' = Second
      /\ (Composes' <=> Composes)
  BY <1>1 DEF Advertised, Second, Composes
<1> QED BY <1>1, <1>2, <1>3, <1>4 DEF Globals

(* The pointer, for which there is a second roundtrip in subsurfaces. *)
LEMMA CallPointer ==
  ASSUME NEW c, NEW e, NEW r, NEW q, Goes(e, r, q), Asks(c, e, r, q),
         UserTyped, Globals(c, e, r), Pointer(c, e, r), seat' = seat
  PROVE  Pointer(c, e, r \o q)'
<1>1. /\ pc \in Nat \ {0} /\ pc' = pc + 1 /\ program' = program /\ advert' = advert
      /\ e \in Seq(EventSet) /\ r \in Seq(RequestSet) /\ q \in Seq(RequestSet)
  BY DEF UserTyped, Goes
<1> SUFFICES ASSUME seat = "always" PROVE Pointer(c, e, r \o q)'
  BY DEF Pointer
<1>2. ASSUME NEW seen,
             "seat" \in c.bound => c.pointer \/ InFlight(seen, BindSeat, e, r),
             pc > 2 /\ Advertised("seat") /\ ~split =>
               c.pointer \/ Coming(4, seen, BindSeat, e, r),
             program = "subsurfaces" /\ pc > 8 /\ Advertised("seat") =>
               c.pointer \/ Coming(9, seen, BindSeat, e, r)
      PROVE  /\ "seat" \in c.bound => c.pointer \/ InFlight(seen, BindSeat, e, r \o q)
             /\ pc + 1 > 2 /\ Advertised("seat") /\ ~split' =>
                  c.pointer \/ Coming(4, seen, BindSeat, e, r \o q)'
             /\ program = "subsurfaces" /\ pc + 1 > 8 /\ Advertised("seat") =>
                  c.pointer \/ Coming(9, seen, BindSeat, e, r \o q)'
  <2>1. InFlight(seen, BindSeat, e, r) => InFlight(seen, BindSeat, e, r \o q)
    <3>1. ASSUME NEW es \in Seq(EventSet), DOMAIN es = {}, InFlight(seen, BindSeat, e, r)
          PROVE  InFlight(seen, BindSeat, e \o es, r \o q)
      BY <1>1, <3>1, FlightGoesOn
    <3> QED BY <1>1, <3>1, NothingMore
  <2>2. ASSUME pc + 1 > 2, Advertised("seat"), ~split'
        PROVE  c.pointer \/ Coming(4, seen, BindSeat, e, r \o q)'
    <3>1. CASE pc = 2
      <4>1. "seat" \in c.bound
        BY <2>2, <3>1 DEF Asks
      <4>2. ~Awaits(pc + 1)
        BY <3>1 DEF Awaits
      <4> QED BY <1>1, <1>2, <3>1, <4>1, <4>2, GoesAsking
    <3>2. CASE pc > 2
      <4>1. ~split
        BY <2>2, <3>2 DEF Asks
      <4>2. c.pointer \/ Coming(4, seen, BindSeat, e, r)
        BY <1>2, <2>2, <3>2, <4>1
      <4>3. Awaits(4)
        BY DEF Awaits
      <4> QED BY <1>1, <4>2, <4>3, GoesComing
    <3> QED BY <1>1, <2>2, <3>1, <3>2
  <2>3. ASSUME program = "subsurfaces", pc + 1 > 8, Advertised("seat")
        PROVE  c.pointer \/ Coming(9, seen, BindSeat, e, r \o q)'
    <3>0. Awaits(9)
      BY <2>3 DEF Awaits
    <3>1. CASE pc = 8
      <4>1. "seat" \in c.bound
        <5>1. "seat" \in Wanted(1)
          BY DEF Wanted
        <5>2. \/ "seat" \in c.bound
              \/ Coming(4, Global("seat", 1), GetRegistry(1), e, r)
          BY <2>3, <3>1, <5>1 DEF Globals
        <5> QED BY <3>1, <5>2 DEF Coming
      <4>2. Awaits(pc + 1) /\ pc' = 9
        BY <1>1, <3>0, <3>1
      <4>3. InFlight(seen, BindSeat, e, r) => Ahead(seen, BindSeat, e, r)
        BY <1>1, GoesQuiet, QuietIsAhead
      <4>4. Ahead(seen, BindSeat, e, r) => Ahead(seen, BindSeat, e, r \o q)
        <5>1. ASSUME NEW es \in Seq(EventSet), DOMAIN es = {}, Ahead(seen, BindSeat, e, r)
              PROVE  Ahead(seen, BindSeat, e \o es, r \o q)
          BY <1>1, <5>1, AheadMore
        <5> QED BY <1>1, <5>1, NothingMore
      <4>5. ~Quiet(e, r \o q)
        BY <4>2, GoesQuiet
      <4> QED BY <1>2, <4>1, <4>2, <4>3, <4>4, <4>5 DEF Coming
    <3>2. CASE pc > 8
      <4>1. c.pointer \/ Coming(9, seen, BindSeat, e, r)
        BY <1>2, <2>3, <3>2
      <4> QED BY <1>1, <3>0, <4>1, GoesComing
    <3> QED BY <1>1, <2>3, <3>1, <3>2
  <2> QED BY <1>2, <2>1, <2>2, <2>3
<1>3. Advertised("seat")' <=> Advertised("seat")
  BY <1>1 DEF Advertised
<1>4. HasPointer' = HasPointer /\ BindSeat' = BindSeat
  BY DEF HasPointer, BindSeat
<1>5. \A ev : InFlight(ev, BindSeat, e, r \o q)' <=> InFlight(ev, BindSeat, e, r \o q)
  BY DEF InFlight
<1>6. /\ "seat" \in c.bound =>
           c.pointer \/ InFlight(HasPointer, BindSeat, e, r \o q)
      /\ pc + 1 > 2 /\ Advertised("seat") /\ ~split' =>
           c.pointer \/ Coming(4, HasPointer, BindSeat, e, r \o q)'
      /\ program = "subsurfaces" /\ pc + 1 > 8 /\ Advertised("seat") =>
           c.pointer \/ Coming(9, HasPointer, BindSeat, e, r \o q)'
  BY <1>2, <1>4 DEF Pointer
<1>7. ("seat" \in c.bound => c.pointer \/ InFlight(HasPointer, BindSeat, e, r \o q))'
  BY <1>4, <1>5, <1>6
<1>8. (pc > 2 /\ Advertised("seat") /\ ~split =>
         c.pointer \/ Coming(4, HasPointer, BindSeat, e, r \o q))'
  BY <1>1, <1>3, <1>4, <1>6
<1>9. (program = "subsurfaces" /\ pc > 8 /\ Advertised("seat") =>
         c.pointer \/ Coming(9, HasPointer, BindSeat, e, r \o q))'
  BY <1>1, <1>3, <1>4, <1>6
<1> QED BY <1>7, <1>8, <1>9 DEF Pointer

(* An acknowledgement stays one when requests follow it. *)
LEMMA AcksMore ==
  ASSUME NEW r \in Seq(RequestSet), NEW q \in Seq(RequestSet)
  PROVE  /\ Len(r \o q) \in Nat /\ Len(r) \in Nat
         /\ \A k \in 1 .. Len(r) : Acks(r, k) => Acks(r \o q, k)
         /\ Acks(r, Len(r)) => Acks(r \o q, Len(r \o q))
         /\ \A k \in 1 .. Len(r \o q) : k > Len(r) =>
              (Acks(r, Len(r)) => Acks(r \o q, k))
<1>1. /\ Len(r \o q) = Len(r) + Len(q) /\ Len(r) \in Nat /\ Len(q) \in Nat
      /\ \A j \in 1 .. Len(r) : (r \o q)[j] = r[j]
  BY InConcat
<1>2. ASSUME NEW j \in Nat, NEW k \in Nat, j <= k, j <= Len(r), Acks(r, j)
      PROVE  Acks(r \o q, k)
  BY <1>1, <1>2 DEF Acks
<1> QED BY <1>1, <1>2


(* The pool and the first configure event. *)
LEMMA CallRoundtrips ==
  ASSUME NEW c, NEW e, NEW r, NEW q, Goes(e, r, q), Asks(c, e, r, q), UserTyped,
         UNCHANGED <<pool, configured>>, FileMapped(e, r), Configures(e, r)
  PROVE  FileMapped(e, r \o q)' /\ Configures(e, r \o q)'
<1>1. /\ pc \in Nat \ {0} /\ pc' = pc + 1 /\ program' = program /\ prompt' = prompt
      /\ e \in Seq(EventSet) /\ r \in Seq(RequestSet) /\ q \in Seq(RequestSet)
  BY DEF UserTyped, Goes
<1>2. ASSUME program = "sigbus", pc + 1 > 6
      PROVE  \/ pool = "whole"
             \/ /\ pc + 1 <= 8
                /\ pc + 1 = 8 => ~Quiet(e, r \o q)
                /\ AheadRequest(Msg("create_pool"), e, r \o q)
  <2>1. CASE pc = 6
    <3>1. PICK k \in DOMAIN q : q[k] = Msg("create_pool")
      BY <1>2, <2>1 DEF Asks
    <3>2. Quiet(e, r \o q)
      BY <2>1, GoesQuiet DEF Awaits
    <3>3. Len(r) + k \in DOMAIN (r \o q) /\ (r \o q)[Len(r) + k] = Msg("create_pool")
      BY <1>1, <3>1, InConcat
    <3>4. DOMAIN (r \o q) = 1 .. Len(r) + Len(q) /\ Len(r) \in Nat /\ Len(q) \in Nat
      BY <1>1, InConcat
    <3> DEFINE s == r \o q
               n == Len(r) + k
    <3>5. n \in DOMAIN s /\ s[n] = Msg("create_pool") /\ Quiet(e, s)
      BY <3>2, <3>3
    <3>6. \A j \in 1 .. n : j \in DOMAIN s
      BY <3>3, <3>4
    <3> HIDE DEF s, n
    <3>7. AheadRequest(Msg("create_pool"), e, s)
      BY <3>5, <3>6 DEF AheadRequest, Quiet
    <3> QED BY <2>1, <3>7 DEF s
  <2>2. CASE pc > 6 /\ pool # "whole"
    <3>1. /\ pc <= 8 /\ (pc = 8 => ~Quiet(e, r))
          /\ AheadRequest(Msg("create_pool"), e, r)
      BY <1>2, <2>2 DEF FileMapped
    <3>2. pc = 7
      BY <1>1, <2>2, <3>1, GoesQuiet
    <3>3. Awaits(pc + 1)
      BY <1>2, <3>2 DEF Awaits
    <3>4. ~Quiet(e, r \o q)
      BY <3>3, GoesQuiet
    <3>5. AheadRequest(Msg("create_pool"), e, r \o q)
      <4>1. ASSUME NEW es \in Seq(EventSet), DOMAIN es = {}
            PROVE  AheadRequest(Msg("create_pool"), e \o es, r \o q)
        BY <1>1, <3>1, <4>1, AheadMore
      <4> QED BY <1>1, <4>1, NothingMore
    <3> QED BY <3>2, <3>4, <3>5
  <2> QED BY <1>1, <1>2, <2>1, <2>2
<1>3. ASSUME prompt, program \in {"gamma-blend", "sigbus"}, pc + 1 > 10
      PROVE  \/ Acks(r \o q, Len(r \o q))
             \/ Coming(12, Msg("configure"), Msg("commit"), e, r \o q)'
  <2>1. CASE pc = 10
    <3>1. \E k \in DOMAIN q : q[k] = Msg("commit")
      BY <1>3, <2>1 DEF Asks, Plain
    <3>2. ~Awaits(pc + 1)
      BY <1>3, <2>1 DEF Awaits
    <3> QED BY <1>1, <2>1, <3>1, <3>2, GoesAsking
  <2>2. CASE pc > 10
    <3>1. Awaits(12)
      BY <1>3 DEF Awaits
    <3>2. \/ Acks(r, Len(r))
          \/ Coming(12, Msg("configure"), Msg("commit"), e, r)
      BY <1>3, <2>2 DEF Configures
    <3>3. Coming(12, Msg("configure"), Msg("commit"), e, r) =>
            Coming(12, Msg("configure"), Msg("commit"), e, r \o q)'
      BY <1>1, <3>1, GoesComing
    <3>4. Acks(r, Len(r)) => Acks(r \o q, Len(r \o q))
      BY <1>1, AcksMore
    <3> QED BY <3>2, <3>3, <3>4
  <2> QED BY <1>1, <1>3, <2>1, <2>2
<1>4. FileMapped(e, r \o q)'
  BY <1>1, <1>2 DEF FileMapped
<1>5. Acks(r \o q, Len(r \o q))' <=> Acks(r \o q, Len(r \o q))
  BY DEF Acks
<1> QED BY <1>1, <1>3, <1>4, <1>5 DEF Configures

(* What has not begun, and the clicks. *)
LEMMA CallClicks ==
  ASSUME NEW c, NEW e, NEW r, NEW q, Goes(e, r, q), Asks(c, e, r, q), UserTyped,
         UNCHANGED <<owing, mapped, focus, chosen, intent, pending>>,
         Beginning(e, r), Clicks(c, e, r)
  PROVE  Beginning(e, r \o q)' /\ Clicks(c, e, r \o q)'
<1>1. /\ pc \in Nat \ {0} /\ pc' = pc + 1 /\ program' = program
      /\ e \in Seq(EventSet) /\ r \in Seq(RequestSet) /\ q \in Seq(RequestSet)
  BY DEF UserTyped, Goes
<1>2. Early' => Early
  BY <1>1 DEF Early
<1>3. Beginning(e, r \o q)'
  <2> SUFFICES ASSUME Early' PROVE Beginning(e, r \o q)'
    BY DEF Beginning
  <2>1. /\ ~owing /\ ~mapped
        /\ focus = "none" /\ chosen = "none" /\ intent = FirstStack
        /\ \A k \in DOMAIN e : e[k].type \in {"global", "capabilities", "done"}
        /\ \A k \in DOMAIN r :
             r[k].type \in {"get_registry", "bind", "sync", "get_pointer"}
    BY <1>2 DEF Beginning
  <2>2. \A k \in DOMAIN q : q[k].type \in {"get_registry", "bind", "sync", "get_pointer"}
    BY DEF Asks
  <2>3. \A k \in DOMAIN (r \o q) :
          (r \o q)[k].type \in {"get_registry", "bind", "sync", "get_pointer"}
    BY <1>1, <2>1, <2>2, InConcat
  <2> QED BY <2>1, <2>3 DEF Beginning
<1>4. Meant' = Meant
  <2>1. CASE program # "subsurfaces" \/ pc = 11
    <3>1. focus = "none" /\ chosen = "none" /\ intent = FirstStack
      BY <2>1 DEF Beginning, Early, UserTyped
    <3> QED BY <3>1 DEF Meant, State
  <2>2. CASE program = "subsurfaces" /\ pc # 11
    <3>1. listening' = listening
      BY <2>2 DEF Asks
    <3> QED BY <3>1 DEF Meant, State
  <2> QED BY <2>1, <2>2
<1>5. Clicks(c, e, r \o q)'
  <2>1. PICK w, v : /\ Reorders(w, pending, r)
                    /\ Follows(v, State(c.current, c.selected, w[Len(r)]), e)
                    /\ v[Len(e)] = Meant
    BY DEF Clicks
  <2>2. \A k \in DOMAIN q : q[k].type # "place"
    BY DEF Asks
  <2>3. q # <<>> => Reorder(w[Len(r)], q[1]) = w[Len(r)]
    <3>1. q # <<>> => 1 \in DOMAIN q
      BY <1>1, InTail
    <3> QED BY <2>2, <3>1 DEF Reorder
  <2>4. PICK p : p = pending
    OBVIOUS
  <2>5. PICK w2 : /\ Reorders(w2, p, r \o q)
                  /\ w2[Len(r \o q)] = w[Len(r)]
    <3>1. PICK w2 : /\ Reorders(w2, p, r \o q)
                    /\ q = <<>> => w2[Len(r \o q)] = w[Len(r)]
                    /\ q # <<>> => w2[Len(r \o q)] = Reorder(w[Len(r)], q[1])
      BY <1>1, <2>1, <2>2, <2>4, ReordersMore
    <3> QED BY <2>3, <3>1
  <2>6. pending' = p /\ Meant' = Meant
    BY <1>4, <2>4
  <2>7. Follows(v, State(c.current, c.selected, w2[Len(r \o q)]), e)
    BY <2>1, <2>5
  <2> QED BY <2>1, <2>5, <2>6, <2>7 DEF Clicks
<1> QED BY <1>3, <1>4, <1>5

(* A call that sends requests and goes on keeps Line. *)
LEMMA Calls ==
  ASSUME NEW c, NEW e, NEW r, NEW q, Goes(e, r, q), Asks(c, e, r, q), UserTyped,
         UNCHANGED <<pool, configured, owing, mapped, focus, chosen, intent, pending,
                     seat, device>>,
         Line(c, e, r), pc = 1 => device = "none"
  PROVE  Line(c, e, r \o q)' /\ FirstBatch(e, r \o q)'
<1>1. /\ Syncs(e, r) /\ Globals(c, e, r) /\ Pointer(c, e, r) /\ FileMapped(e, r)
      /\ Configures(e, r) /\ Beginning(e, r) /\ Clicks(c, e, r)
  BY DEF Line
<1>2. Syncs(e, r \o q)'
  BY GoesSyncs
<1>3. Globals(c, e, r \o q)'
  BY <1>1, CallGlobals
<1>4. Pointer(c, e, r \o q)'
  BY <1>1, CallPointer
<1>5. FileMapped(e, r \o q)' /\ Configures(e, r \o q)'
  BY <1>1, CallRoundtrips
<1>6. Beginning(e, r \o q)' /\ Clicks(c, e, r \o q)'
  BY <1>1, CallClicks
<1>7. FirstBatch(e, r \o q)'
  <2>1. pc \in Nat \ {0} /\ pc' = pc + 1
    BY DEF UserTyped, Goes
  <2>2. CASE pc = 1
    <3>1. e = <<>> /\ r = <<>> /\ q = <<GetRegistry(1)>>
      BY <2>2 DEF Asks
    <3>2. <<>> \o <<GetRegistry(1)>> = <<GetRegistry(1)>>
      OBVIOUS
    <3> QED BY <2>1, <2>2, <3>1, <3>2 DEF FirstBatch
  <2>3. CASE pc # 1
    BY <2>1, <2>3 DEF FirstBatch
  <2> QED BY <2>2, <2>3
<1> QED BY <1>2, <1>3, <1>4, <1>5, <1>6, <1>7 DEF Line

(* A call that handles events and waits on keeps Line. *)
LEMMA Stays ==
  ASSUME NEW c, NEW e, NEW r, Line(c, e, r),
         UNCHANGED <<program, pc, advert, prompt, split, listening, file, pool,
                     configured, owing, mapped, focus, chosen, intent, pending, seat>>
  PROVE  Line(c, e, r)'
<1>1. /\ Syncs(e, r) /\ Globals(c, e, r) /\ Pointer(c, e, r) /\ FileMapped(e, r)
      /\ Configures(e, r) /\ Beginning(e, r) /\ Clicks(c, e, r)
  BY DEF Line
<1>2. Syncs(e, r)'
  BY <1>1 DEF Syncs, Awaits
<1>3. Globals(c, e, r)'
  BY <1>1 DEF Globals, Advertised, Coming, Composes, Second
<1>4. Pointer(c, e, r)'
  BY <1>1 DEF Pointer, Advertised, Coming, HasPointer
<1>5. FileMapped(e, r)'
  BY <1>1 DEF FileMapped
<1>6. Configures(e, r)'
  BY <1>1 DEF Configures, Acks, Coming
<1>7. Beginning(e, r)'
  BY <1>1 DEF Beginning, Early
<1>9. Clicks(c, e, r)'
  BY <1>1 DEF Clicks, Meant, State
<1> QED BY <1>2, <1>3, <1>4, <1>5, <1>6, <1>7, <1>9 DEF Line

(* What a program finds after its roundtrips. *)
LEMMA Seen ==
  ASSUME NEW c, NEW e, NEW r, Line(c, e, r), UserTyped, pc > 4
  PROVE  /\ \A g \in Wanted(1) : Advertised(g) => g \in c.bound
         /\ Composes /\ pc > Second /\ Advertised("subcompositor") =>
              "subcompositor" \in c.bound
         /\ seat = "always" /\ ~split => c.pointer
         /\ seat = "always" /\ program = "subsurfaces" /\ pc > 9 => c.pointer
<1>1. pc \in Nat /\ Globals(c, e, r) /\ Pointer(c, e, r)
  BY DEF Line, UserTyped
<1>2. \A p \in Nat : \A ev, req : pc > p => ~Coming(p, ev, req, e, r)
  BY <1>1 DEF Coming
<1>3. \A g \in Wanted(1) : Advertised(g) => g \in c.bound
  BY <1>1, <1>2 DEF Globals
<1>4. /\ Composes /\ pc > Second /\ Advertised("subcompositor") =>
           "subcompositor" \in c.bound
  <2>1. Second \in Nat /\ (pc > Second => pc > 6)
    BY <1>1 DEF Second
  <2> QED BY <1>1, <1>2, <2>1 DEF Globals
<1>5. /\ seat = "always" /\ ~split => c.pointer
      /\ seat = "always" /\ program = "subsurfaces" /\ pc > 9 => c.pointer
  <2>1. /\ pc > 4 => ~Coming(4, HasPointer, BindSeat, e, r)
        /\ pc > 9 => ~Coming(9, HasPointer, BindSeat, e, r)
    BY <1>1 DEF Coming
  <2>2. seat = "always" => Advertised("seat")
    BY DEF UserTyped
  <2> QED BY <1>1, <2>1, <2>2 DEF Pointer
<1> QED BY <1>3, <1>4, <1>5

-------------------------------------------------------------------------------
(* The file and its pool, by what a call does with them. *)
Files(q) == \/ /\ file' = file /\ pc' \in {pc, pc + 1}
               /\ \A k \in DOMAIN q : q[k].type # "create_pool"
            \/ pc = 6 /\ pc' = 7 /\ file' = "whole" /\ q = <<Msg("create_pool")>>
            \/ pc = 9 /\ pc' = 10 /\ pool = "whole" /\ file' = "short" /\ q = <<>>

(* A call keeps the requests in order. *)
LEMMA CallPool ==
  ASSUME UserTyped, NEW r \in Seq(RequestSet), NEW q \in Seq(RequestSet),
         PoolOrder(r), Files(q), pool' = pool
  PROVE  PoolOrder(r \o q)'
<1>1. /\ pc \in Nat \ {0} /\ Len(r) \in Nat /\ Len(q) \in Nat
      /\ DOMAIN r = 1 .. Len(r) /\ DOMAIN q = 1 .. Len(q)
      /\ DOMAIN (r \o q) = 1 .. Len(r) + Len(q)
      /\ \A j \in 1 .. Len(r) : (r \o q)[j] = r[j]
      /\ \A j \in 1 .. Len(q) : (r \o q)[Len(r) + j] = q[j]
      /\ \A j \in 1 .. Len(r) + Len(q) :
           \/ j \in 1 .. Len(r)
           \/ j - Len(r) \in 1 .. Len(q) /\ (r \o q)[j] = q[j - Len(r)]
  BY InConcat DEF UserTyped
<1>2. /\ file \in {"none", "whole", "short"}
      /\ pc <= 6 => file = "none"
      /\ file = "none" => pool = "none"
      /\ file = "short" => pool = "whole"
  BY DEF PoolOrder
<1>3. /\ \A k \in DOMAIN r : r[k].type = "create_pool" => file = "whole" /\ pool = "none"
      /\ \A j, k \in DOMAIN r :
           r[j].type = "create_pool" /\ r[k].type = "create_pool" => j = k
  BY DEF PoolOrder
<1> DEFINE s == r \o q
<1>4. CASE file' = file /\ pc' \in {pc, pc + 1} /\ \A k \in DOMAIN q : q[k].type # "create_pool"
  <2>1. \A k \in DOMAIN s : s[k].type = "create_pool" => k \in DOMAIN r /\ s[k] = r[k]
    BY <1>1, <1>4
  <2> HIDE DEF s
  <2>2. \A k \in DOMAIN s : s[k].type = "create_pool" => file = "whole" /\ pool = "none"
    BY <1>3, <2>1
  <2>3. \A j, k \in DOMAIN s :
          s[j].type = "create_pool" /\ s[k].type = "create_pool" => j = k
    BY <1>3, <2>1
  <2>4. PoolOrder(s)'
    BY <1>1, <1>2, <1>4, <2>2, <2>3 DEF PoolOrder
  <2> QED BY <2>4 DEF s
<1>5. CASE pc = 6 /\ pc' = 7 /\ file' = "whole" /\ q = <<Msg("create_pool")>>
  <2>1. Len(q) = 1 /\ \A k \in DOMAIN r : r[k].type # "create_pool"
    BY <1>2, <1>3, <1>5
  <2>2. \A k \in DOMAIN s : s[k].type = "create_pool" => k = Len(r) + 1
    BY <1>1, <2>1
  <2> HIDE DEF s
  <2>3. \A j, k \in DOMAIN s :
          s[j].type = "create_pool" /\ s[k].type = "create_pool" => j = k
    BY <2>2
  <2>4. pool = "none"
    BY <1>2, <1>5
  <2>5. PoolOrder(s)'
    BY <1>5, <2>3, <2>4 DEF PoolOrder
  <2> QED BY <2>5 DEF s
<1>6. CASE pc = 9 /\ pc' = 10 /\ pool = "whole" /\ file' = "short" /\ q = <<>>
  <2>1. Len(q) = 0 /\ \A k \in DOMAIN r : r[k].type # "create_pool"
    BY <1>3, <1>6
  <2>2. \A k \in DOMAIN s : s[k].type # "create_pool"
    BY <1>1, <2>1
  <2> HIDE DEF s
  <2>3. PoolOrder(s)'
    BY <1>6, <2>2 DEF PoolOrder
  <2> QED BY <2>3 DEF s
<1> QED BY <1>4, <1>5, <1>6 DEF Files

(* A frame drawn after a roundtrip that the compositor's configure event was  *)
(* in comes after its acknowledgement.                                        *)
LEMMA CallOrders ==
  ASSUME UserTyped, NEW r \in Seq(RequestSet), NEW q \in Seq(RequestSet), Orders(r),
         Files(q), \A k \in DOMAIN q : q[k].type # "place",
         prompt => Acks(r, Len(r)) \/ \A k \in DOMAIN q : q[k].type # "frame",
         UNCHANGED <<prompt, pool, configured, unready, mapped, stack, pending>>
  PROVE  Orders(r \o q)'
<1>1. /\ Len(r) \in Nat /\ Len(q) \in Nat
      /\ DOMAIN r = 1 .. Len(r) /\ DOMAIN q = 1 .. Len(q)
      /\ DOMAIN (r \o q) = 1 .. Len(r) + Len(q) /\ Len(r \o q) = Len(r) + Len(q)
      /\ \A j \in 1 .. Len(r) : (r \o q)[j] = r[j]
      /\ \A j \in 1 .. Len(r) + Len(q) :
           \/ j \in 1 .. Len(r)
           \/ j - Len(r) \in 1 .. Len(q) /\ (r \o q)[j] = q[j - Len(r)]
  BY InConcat
<1>2. PoolOrder(r \o q)'
  BY CallPool DEF Orders
<1>3. ASSUME prompt PROVE FrameOrder(r \o q)'
  <2>1. /\ ~unready /\ (mapped => configured)
        /\ \A k \in DOMAIN r : r[k].type = "frame" => Acks(r, k)
    BY <1>3 DEF Orders, FrameOrder
  <2>2. ASSUME NEW k \in DOMAIN (r \o q), (r \o q)[k].type = "frame"
        PROVE  Acks(r \o q, k)
    <3>1. CASE k \in 1 .. Len(r)
      <4>1. Acks(r, k)
        BY <1>1, <2>1, <2>2, <3>1
      <4> QED BY <3>1, <4>1, AcksMore
    <3>2. CASE k \notin 1 .. Len(r)
      <4>1. k - Len(r) \in DOMAIN q /\ q[k - Len(r)].type = "frame"
        BY <1>1, <2>2, <3>2
      <4>2. Acks(r, Len(r)) /\ k \in 1 .. Len(r \o q) /\ k > Len(r)
        BY <1>1, <1>3, <2>2, <3>2, <4>1
      <4> QED BY <4>2, AcksMore
    <3> QED BY <3>1, <3>2
  <2>3. \A k : Acks(r \o q, k)' <=> Acks(r \o q, k)
    BY DEF Acks
  <2> QED BY <2>1, <2>2, <2>3 DEF FrameOrder
<1>4. CommitOrder(r \o q)'
  <2>1. /\ stack # pending => \E k \in DOMAIN r : r[k].type \in {"commit", "frame"}
        /\ \A k \in DOMAIN r : r[k].type = "place" =>
             \E j \in DOMAIN r : j > k /\ r[j].type \in {"commit", "frame"}
    BY DEF Orders, CommitOrder
  <2> DEFINE s == r \o q
  <2>2. \A j \in DOMAIN r : j \in DOMAIN s /\ s[j] = r[j]
    BY <1>1
  <2>3. \A k \in DOMAIN s : s[k].type = "place" => k \in DOMAIN r
    BY <1>1
  <2> HIDE DEF s
  <2>4. stack # pending => \E k \in DOMAIN s : s[k].type \in {"commit", "frame"}
    BY <2>1, <2>2
  <2>5. \A k \in DOMAIN s : s[k].type = "place" =>
          \E j \in DOMAIN s : j > k /\ s[j].type \in {"commit", "frame"}
    <3> SUFFICES ASSUME NEW k \in DOMAIN s, s[k].type = "place"
                 PROVE  \E j \in DOMAIN s : j > k /\ s[j].type \in {"commit", "frame"}
      OBVIOUS
    <3>1. k \in DOMAIN r /\ r[k].type = "place"
      BY <2>2, <2>3
    <3>2. PICK j \in DOMAIN r : j > k /\ r[j].type \in {"commit", "frame"}
      BY <2>1, <3>1
    <3> QED BY <2>2, <3>2
  <2>6. CommitOrder(s)'
    BY <2>4, <2>5 DEF CommitOrder
  <2> QED BY <2>6 DEF s
<1>5. ~prompt => FrameOrder(r \o q)'
  BY DEF FrameOrder
<1> QED BY <1>2, <1>3, <1>4, <1>5 DEF Orders

-------------------------------------------------------------------------------
(* What the compositor does with a request x, and the events it answers with. *)
Answered(x, es) ==
  /\ es \in Seq(EventSet)
  /\ \A k \in DOMAIN es :
       /\ es[k].type \in {"global", "capabilities", "done", "configure"}
       /\ x.type \in {"get_registry", "bind", "sync", "get_pointer"} =>
            es[k].type \in {"global", "capabilities", "done"}
  /\ IF x.type = "sync" THEN es = <<Msg("done")>>
     ELSE \A k \in DOMAIN es : es[k].type # "done"
  /\ \A n \in {1, 2} :
       x = GetRegistry(n) => es = [k \in DOMAIN advert |-> Global(advert[k], n)]
  /\ seat = "always" /\ x = BindSeat =>
       \E k \in DOMAIN es : es[k] = HasPointer
  /\ x.type = "commit" /\ prompt /\ ~mapped =>
       \E k \in DOMAIN es : es[k] = Msg("configure")
  /\ x.type # "commit" => owing' = owing
  /\ seat' = seat /\ device' \in {"none", "seat", "pointer"}
  /\ x.type \notin {"bind", "get_pointer"} => device' = device
  /\ pool' = IF x.type = "create_pool" THEN file ELSE pool
  /\ configured' <=> configured \/ x.type = "ack"
  /\ mapped' <=> mapped \/ x.type = "frame"
  /\ unready' <=> unready \/ (x.type = "frame" /\ ~configured)
  /\ pending' = Reorder(pending, x)
  /\ stack' = IF x.type \in {"commit", "frame"} THEN pending ELSE stack

(* What comes before the end of a roundtrip does so when a request has been   *)
(* read and answered,                                                         *)
LEMMA AnswerComing ==
  ASSUME NEW e \in Seq(EventSet), NEW r \in Seq(RequestSet), r # <<>>, NEW es,
         Answered(r[1], es), UNCHANGED pc,
         NEW p, NEW ev, NEW req, req.type # "sync",
         r[1] = req => \E k \in DOMAIN es : es[k] = ev,
         Coming(p, ev, req, e, r)
  PROVE  Coming(p, ev, req, e \o es, Tail(r))'
<1>1. /\ es \in Seq(EventSet)
      /\ IF r[1].type = "sync" THEN es = <<Msg("done")>>
         ELSE \A k \in DOMAIN es : es[k].type # "done"
  BY DEF Answered
<1>2. (\E k \in DOMAIN es : es[k].type = "done") => r[1].type = "sync"
  BY <1>1
<1>3. pc <= p /\ (pc = p => ~Quiet(e, r)) /\ Ahead(ev, req, e, r)
  BY DEF Coming
<1>4. Ahead(ev, req, e \o es, Tail(r))
  BY <1>1, <1>2, <1>3, AheadServed
<1>5. Quiet(e, r) <=> Quiet(e \o es, Tail(r))
  BY <1>1, SyncsServed
<1> QED BY <1>3, <1>4, <1>5 DEF Coming

(* in particular globals and the pointer, *)
LEMMA AnswerGlobals ==
  ASSUME NEW c, NEW e \in Seq(EventSet), NEW r \in Seq(RequestSet), r # <<>>, NEW es,
         Answered(r[1], es), UNCHANGED <<pc, program, advert>>, Globals(c, e, r)
  PROVE  Globals(c, e \o es, Tail(r))'
<1>1. ASSUME NEW g, Advertised(g), NEW n \in {1, 2}, r[1] = GetRegistry(n)
      PROVE  \E k \in DOMAIN es : es[k] = Global(g, n)
  <2>1. es = [k \in DOMAIN advert |-> Global(advert[k], n)]
    BY <1>1 DEF Answered
  <2>2. PICK k \in DOMAIN advert : advert[k] = g
    BY <1>1 DEF Advertised
  <2> QED BY <2>1, <2>2
<1>2. ASSUME NEW g, Advertised(g), NEW n \in {1, 2}, NEW p,
             Coming(p, Global(g, n), GetRegistry(n), e, r)
      PROVE  Coming(p, Global(g, n), GetRegistry(n), e \o es, Tail(r))'
  <2>1. GetRegistry(n).type # "sync"
    BY DEF GetRegistry
  <2>2. r[1] = GetRegistry(n) => \E k \in DOMAIN es : es[k] = Global(g, n)
    BY <1>1, <1>2
  <2> DEFINE ev == Global(g, n)
             req == GetRegistry(n)
  <2>3. /\ req.type # "sync" /\ (r[1] = req => \E k \in DOMAIN es : es[k] = ev)
        /\ Coming(p, ev, req, e, r)
    BY <1>2, <2>1, <2>2
  <2> HIDE DEF ev, req
  <2>4. Coming(p, ev, req, e \o es, Tail(r))'
    BY <2>3, AnswerComing
  <2> QED BY <2>4 DEF ev, req
<1>3. \A g : Advertised(g)' <=> Advertised(g)
  BY DEF Advertised
<1>4. ASSUME NEW g \in Wanted(1), pc > 1, Advertised(g)
      PROVE  g \in c.bound \/ Coming(4, Global(g, 1), GetRegistry(1), e \o es, Tail(r))'
  <2>1. g \in c.bound \/ Coming(4, Global(g, 1), GetRegistry(1), e, r)
    BY <1>4 DEF Globals
  <2> QED BY <1>2, <1>4, <2>1
<1>5. ASSUME Composes, pc > 6, Advertised("subcompositor")
      PROVE  \/ "subcompositor" \in c.bound
             \/ Coming(Second, Global("subcompositor", 2), GetRegistry(2),
                       e \o es, Tail(r))'
  <2>1. PICK p : p = Second /\ p = Second'
    BY DEF Second
  <2>2. \/ "subcompositor" \in c.bound
        \/ Coming(p, Global("subcompositor", 2), GetRegistry(2), e, r)
    BY <1>5, <2>1 DEF Globals
  <2>3. \/ "subcompositor" \in c.bound
        \/ Coming(p, Global("subcompositor", 2), GetRegistry(2), e \o es, Tail(r))'
    BY <1>2, <1>5, <2>2
  <2> QED BY <2>1, <2>3
<1>6. Composes' <=> Composes
  BY DEF Composes
<1> QED BY <1>3, <1>4, <1>5, <1>6 DEF Globals

(* and the pointer of a seat that has been bound, *)
LEMMA AnswerPointer ==
  ASSUME NEW c, NEW e \in Seq(EventSet), NEW r \in Seq(RequestSet), r # <<>>, NEW es,
         Answered(r[1], es), UNCHANGED <<pc, program, advert, split>>,
         Pointer(c, e, r)
  PROVE  Pointer(c, e \o es, Tail(r))'
<1> SUFFICES ASSUME seat = "always" PROVE Pointer(c, e \o es, Tail(r))'
  BY DEF Pointer, Answered
<1> PICK seen : seen = HasPointer
  OBVIOUS
<1>1. /\ es \in Seq(EventSet)
      /\ r[1] = BindSeat => \E k \in DOMAIN es : es[k] = seen
      /\ BindSeat.type # "sync"
  BY DEF Answered, BindSeat
<1>2. InFlight(seen, BindSeat, e, r) =>
        InFlight(seen, BindSeat, e \o es, Tail(r))
  <2>1. <<>> \in Seq(RequestSet)
    OBVIOUS
  <2> QED BY <1>1, <2>1, FlightGoesOn
<1>3. ASSUME NEW p, Coming(p, seen, BindSeat, e, r)
      PROVE  Coming(p, seen, BindSeat, e \o es, Tail(r))'
  BY <1>1, <1>3, AnswerComing
<1>4. Advertised("seat")' <=> Advertised("seat")
  BY DEF Advertised
<1>5. "seat" \in c.bound => c.pointer \/ InFlight(seen, BindSeat, e, r)
  BY DEF Pointer
<1>6. ("seat" \in c.bound =>
        c.pointer \/ InFlight(seen, BindSeat, e \o es, Tail(r)))'
  BY <1>2, <1>5
<1>7. /\ pc > 2 /\ Advertised("seat") /\ ~split =>
           c.pointer \/ Coming(4, seen, BindSeat, e \o es, Tail(r))'
      /\ program = "subsurfaces" /\ pc > 8 /\ Advertised("seat") =>
           c.pointer \/ Coming(9, seen, BindSeat, e \o es, Tail(r))'
  BY <1>3 DEF Pointer
<1>8. HasPointer' = seen
  BY DEF HasPointer, Capabilities
<1> QED BY <1>4, <1>6, <1>7, <1>8 DEF Pointer

(* An acknowledgement is read or has still to be. *)
LEMMA AnswerAcks ==
  ASSUME NEW r \in Seq(RequestSet), r # <<>>, NEW es, Answered(r[1], es)
  PROVE  /\ Acks(r, Len(r)) => Acks(Tail(r), Len(Tail(r)))'
         /\ \A k \in DOMAIN Tail(r) : Acks(r, k + 1) => Acks(Tail(r), k)'
<1>1. configured' <=> configured \/ r[1].type = "ack"
  BY DEF Answered
<1>2. /\ Len(r) \in Nat /\ Len(r) >= 1 /\ Len(Tail(r)) = Len(r) - 1
      /\ DOMAIN Tail(r) = 1 .. Len(r) - 1
      /\ \A j \in 1 .. Len(r) :
           j = 1 \/ (j - 1 \in 1 .. Len(r) - 1 /\ Tail(r)[j - 1] = r[j])
  BY InTail
<1>3. ASSUME NEW k \in Nat, k < Len(r), Acks(r, k + 1) PROVE Acks(Tail(r), k)'
  <2>1. CASE configured
    BY <1>1, <2>1 DEF Acks
  <2>2. CASE ~configured
    <3>1. PICK j \in 1 .. k + 1 : r[j].type = "ack"
      BY <1>3, <2>2 DEF Acks
    <3>2. j = 1 \/ (j - 1 \in 1 .. k /\ Tail(r)[j - 1].type = "ack")
      BY <1>2, <1>3, <3>1
    <3> QED BY <1>1, <3>1, <3>2 DEF Acks
  <2> QED BY <2>1, <2>2
<1>4. Acks(r, Len(r)) => Acks(Tail(r), Len(Tail(r)))'
  <2>1. Len(Tail(r)) \in Nat /\ Len(Tail(r)) < Len(r) /\ Len(Tail(r)) + 1 = Len(r)
    BY <1>2
  <2> QED BY <1>3, <2>1
<1> QED BY <1>2, <1>3, <1>4

(* the roundtrip itself, the pool and the first configure event, *)
LEMMA AnswerRoundtrips ==
  ASSUME NEW e \in Seq(EventSet), NEW r \in Seq(RequestSet), r # <<>>, NEW es,
         Answered(r[1], es), UNCHANGED <<pc, program, prompt>>,
         PoolOrder(r), FrameOrder(r), Syncs(e, r), FileMapped(e, r), Configures(e, r)
  PROVE  /\ Syncs(e \o es, Tail(r))' /\ FileMapped(e \o es, Tail(r))'
         /\ Configures(e \o es, Tail(r))'
<1>1. /\ es \in Seq(EventSet)
      /\ IF r[1].type = "sync" THEN es = <<Msg("done")>>
         ELSE \A k \in DOMAIN es : es[k].type # "done"
  BY DEF Answered
<1>2. (\E k \in DOMAIN es : es[k].type = "done") => r[1].type = "sync"
  BY <1>1
<1>3. /\ Quiet(e, r) <=> Quiet(e \o es, Tail(r))
      /\ Once(e, r) => Once(e \o es, Tail(r))
  BY <1>1, SyncsServed
<1>4. Syncs(e \o es, Tail(r))'
  BY <1>3 DEF Syncs, Awaits
<1>5. FileMapped(e \o es, Tail(r))'
  <2> SUFFICES ASSUME program = "sigbus", pc > 6, pool' # "whole"
               PROVE  /\ pc <= 8 /\ (pc = 8 => ~Quiet(e \o es, Tail(r)))
                      /\ AheadRequest(Msg("create_pool"), e \o es, Tail(r))
    BY DEF FileMapped
  <2>1. CASE r[1].type = "create_pool"
    <3>1. 1 \in DOMAIN r
      BY InTail
    <3>2. file = "whole"
      BY <2>1, <3>1 DEF PoolOrder
    <3> QED BY <2>1, <3>2 DEF Answered
  <2>2. CASE r[1].type # "create_pool"
    <3>1. pool # "whole"
      BY <2>2 DEF Answered
    <3>2. /\ pc <= 8 /\ (pc = 8 => ~Quiet(e, r))
          /\ AheadRequest(Msg("create_pool"), e, r)
      BY <3>1 DEF FileMapped
    <3>3. r[1] # Msg("create_pool") /\ Msg("create_pool").type # "sync"
      BY <2>2 DEF Msg
    <3>4. AheadRequest(Msg("create_pool"), e \o es, Tail(r))
      BY <1>1, <1>2, <3>2, <3>3, AheadServed
    <3> QED BY <1>3, <3>2, <3>4
  <2> QED BY <2>1, <2>2
<1>6. Configures(e \o es, Tail(r))'
  <2> SUFFICES ASSUME prompt, program \in {"gamma-blend", "sigbus"}, pc > 10
               PROVE  \/ Acks(Tail(r), Len(Tail(r)))'
                      \/ Coming(12, Msg("configure"), Msg("commit"), e \o es, Tail(r))'
    BY DEF Configures
  <2>1. CASE Acks(r, Len(r))
    BY <2>1, AnswerAcks
  <2>2. CASE Coming(12, Msg("configure"), Msg("commit"), e, r)
    <3>1. CASE r[1].type = "commit" /\ mapped
      <4>1. configured
        BY <3>1 DEF FrameOrder
      <4>2. configured'
        BY <4>1 DEF Answered
      <4> QED BY <4>2 DEF Acks
    <3>2. CASE ~(r[1].type = "commit" /\ mapped)
      <4>1. r[1] = Msg("commit") => \E k \in DOMAIN es : es[k] = Msg("configure")
        BY <3>2 DEF Answered, Msg
      <4>2. Msg("commit").type # "sync"
        BY DEF Msg
      <4> QED BY <2>2, <4>1, <4>2, AnswerComing
    <3> QED BY <3>1, <3>2
  <2> QED BY <2>1, <2>2 DEF Configures
<1> QED BY <1>4, <1>5, <1>6

(* and the clicks. *)
LEMMA AnswerClicks ==
  ASSUME NEW c, NEW e \in Seq(EventSet), NEW r \in Seq(RequestSet), r # <<>>, NEW es,
         Answered(r[1], es),
         UNCHANGED <<pc, program, listening, focus, chosen, intent>>,
         Beginning(e, r), Clicks(c, e, r)
  PROVE  Beginning(e \o es, Tail(r))' /\ Clicks(c, e \o es, Tail(r))'
<1>1. /\ es \in Seq(EventSet)
      /\ \A k \in DOMAIN es :
            es[k].type \in {"global", "capabilities", "done", "configure"}
  BY DEF Answered
<1>2. \A k \in DOMAIN es : es[k].type \notin PointerEvents
  BY <1>1 DEF PointerEvents
<1>3. /\ r[1] \in RequestSet /\ 1 \in DOMAIN r
      /\ \A j \in DOMAIN Tail(r) : j + 1 \in DOMAIN r /\ Tail(r)[j] = r[j + 1]
  BY InTail
<1>4. \A j \in DOMAIN (e \o es) : \/ j \in DOMAIN e /\ (e \o es)[j] = e[j]
                                  \/ j - Len(e) \in DOMAIN es /\ (e \o es)[j] = es[j - Len(e)]
  BY <1>1, InConcat
<1>5. Beginning(e \o es, Tail(r))'
  <2> SUFFICES ASSUME Early PROVE Beginning(e \o es, Tail(r))'
    BY DEF Beginning, Early
  <2>1. /\ ~owing /\ ~mapped
        /\ focus = "none" /\ chosen = "none" /\ intent = FirstStack
        /\ \A k \in DOMAIN e : e[k].type \in {"global", "capabilities", "done"}
        /\ \A k \in DOMAIN r :
             r[k].type \in {"get_registry", "bind", "sync", "get_pointer"}
    BY DEF Beginning
  <2>2. r[1].type \in {"get_registry", "bind", "sync", "get_pointer"}
    BY <1>3, <2>1
  <2>3. ~owing' /\ ~mapped'
    BY <2>1, <2>2 DEF Answered
  <2>4. \A k \in DOMAIN es : es[k].type \in {"global", "capabilities", "done"}
    BY <2>2 DEF Answered
  <2>5. \A k \in DOMAIN (e \o es) :
          (e \o es)[k].type \in {"global", "capabilities", "done"}
    BY <1>4, <2>1, <2>4
  <2>6. \A k \in DOMAIN Tail(r) :
          Tail(r)[k].type \in {"get_registry", "bind", "sync", "get_pointer"}
    BY <1>3, <2>1
  <2> QED BY <2>1, <2>3, <2>5, <2>6 DEF Beginning
<1>7. Clicks(c, e \o es, Tail(r))'
  <2>1. PICK w, v : /\ Reorders(w, pending, r)
                    /\ Follows(v, State(c.current, c.selected, w[Len(r)]), e)
                    /\ v[Len(e)] = Meant
    BY DEF Clicks
  <2>2. PICK p : p = pending /\ pending' = Reorder(p, r[1])
    BY DEF Answered
  <2>3. PICK w2 : /\ Reorders(w2, Reorder(p, r[1]), Tail(r))
                  /\ w2[Len(Tail(r))] = w[Len(r)]
    BY <2>1, <2>2, ReordersTail
  <2>4. PICK u : u = State(c.current, c.selected, w[Len(r)])
    OBVIOUS
  <2>5. PICK v2 : /\ Follows(v2, u, e \o es)
                  /\ v2[Len(e \o es)] = v[Len(e)]
    BY <1>1, <1>2, <2>1, <2>4, FollowsOthers
  <2>6. Reorders(w2, pending', Tail(r))
    BY <2>2, <2>3
  <2>7. Follows(v2, State(c.current, c.selected, w2[Len(Tail(r))]), e \o es)
    BY <2>3, <2>4, <2>5
  <2>8. v2[Len(e \o es)] = Meant'
    BY <2>1, <2>5 DEF Meant, State
  <2> QED BY <2>6, <2>7, <2>8 DEF Clicks
<1> QED BY <1>5, <1>7

(* A request read and answered keeps Line. *)
LEMMA Answers ==
  ASSUME NEW c, NEW e \in Seq(EventSet), NEW r \in Seq(RequestSet), r # <<>>, NEW es,
         Answered(r[1], es),
         UNCHANGED <<pc, program, advert, prompt, split, listening,
                     focus, chosen, intent>>,
         Orders(r), Line(c, e, r)
  PROVE  Line(c, e \o es, Tail(r))'
<1>1. /\ Syncs(e, r) /\ Globals(c, e, r) /\ Pointer(c, e, r) /\ FileMapped(e, r)
      /\ Configures(e, r) /\ Beginning(e, r) /\ Clicks(c, e, r)
      /\ PoolOrder(r) /\ FrameOrder(r)
  BY DEF Line, Orders
<1>2. Globals(c, e \o es, Tail(r))'
  BY <1>1, AnswerGlobals
<1>3. Pointer(c, e \o es, Tail(r))'
  BY <1>1, AnswerPointer
<1>4. /\ Syncs(e \o es, Tail(r))' /\ FileMapped(e \o es, Tail(r))'
      /\ Configures(e \o es, Tail(r))'
  BY <1>1, AnswerRoundtrips
<1>5. Beginning(e \o es, Tail(r))' /\ Clicks(c, e \o es, Tail(r))'
  BY <1>1, AnswerClicks
<1> QED BY <1>2, <1>3, <1>4, <1>5 DEF Line

(* The requests still to be read stay in order. *)
LEMMA AnswerOrders ==
  ASSUME NEW r \in Seq(RequestSet), r # <<>>, NEW es, Answered(r[1], es),
         UNCHANGED <<pc, file, prompt>>, Orders(r)
  PROVE  Orders(Tail(r))'
<1>1. /\ 1 \in DOMAIN r
      /\ \A j \in DOMAIN Tail(r) : j \in Nat /\ j + 1 \in DOMAIN r /\ Tail(r)[j] = r[j + 1]
      /\ \A j \in DOMAIN r : j = 1 \/ (j - 1 \in DOMAIN Tail(r) /\ Tail(r)[j - 1] = r[j])
      /\ DOMAIN r \subseteq Nat
  BY InTail
<1> DEFINE s == Tail(r)
<1> HIDE DEF s
<1>2. PoolOrder(s)'
  <2>1. /\ file \in {"none", "whole", "short"}
        /\ pc <= 6 => file = "none"
        /\ \A k \in DOMAIN r : r[k].type = "create_pool" => file = "whole" /\ pool = "none"
        /\ \A j, k \in DOMAIN r :
             r[j].type = "create_pool" /\ r[k].type = "create_pool" => j = k
        /\ file = "none" => pool = "none"
        /\ file = "short" => pool = "whole"
    BY DEF PoolOrder, Orders
  <2>2. \A j, k \in DOMAIN s :
          s[j].type = "create_pool" /\ s[k].type = "create_pool" => j = k
    BY <1>1, <2>1 DEF s
  <2>3. CASE r[1].type = "create_pool"
    <3>1. \A k \in DOMAIN s : s[k].type # "create_pool"
      BY <1>1, <2>1, <2>3 DEF s
    <3>2. file = "whole" /\ pool' = "whole"
      BY <1>1, <2>1, <2>3 DEF Answered
    <3> QED BY <2>1, <3>1, <3>2 DEF PoolOrder
  <2>4. CASE r[1].type # "create_pool"
    <3>1. pool' = pool
      BY <2>4 DEF Answered
    <3>2. \A k \in DOMAIN s : s[k].type = "create_pool" => file = "whole" /\ pool = "none"
      BY <1>1, <2>1 DEF s
    <3> QED BY <2>1, <2>2, <3>1, <3>2 DEF PoolOrder
  <2> QED BY <2>3, <2>4
<1>3. FrameOrder(s)'
  <2> SUFFICES ASSUME prompt PROVE FrameOrder(s)'
    BY DEF FrameOrder
  <2>1. /\ ~unready /\ (mapped => configured)
        /\ \A k \in DOMAIN r : r[k].type = "frame" => Acks(r, k)
    BY DEF FrameOrder, Orders
  <2>2. r[1].type = "frame" => configured
    <3>1. r[1].type = "frame" => Acks(r, 1)
      BY <1>1, <2>1
    <3> QED BY <3>1 DEF Acks
  <2>3. /\ configured' <=> configured \/ r[1].type = "ack"
        /\ mapped' <=> mapped \/ r[1].type = "frame"
        /\ unready' <=> unready \/ (r[1].type = "frame" /\ ~configured)
    BY DEF Answered
  <2>4. ~unready' /\ (mapped' => configured')
    BY <2>1, <2>2, <2>3
  <2>5. \A k \in DOMAIN s : s[k].type = "frame" => Acks(s, k)'
    BY <1>1, <2>1, AnswerAcks DEF s
  <2> QED BY <2>4, <2>5 DEF FrameOrder
<1>4. CommitOrder(s)'
  <2>1. /\ stack # pending => \E k \in DOMAIN r : r[k].type \in {"commit", "frame"}
        /\ \A k \in DOMAIN r : r[k].type = "place" =>
             \E j \in DOMAIN r : j > k /\ r[j].type \in {"commit", "frame"}
    BY DEF CommitOrder, Orders
  <2>2. /\ pending' = Reorder(pending, r[1])
        /\ stack' = IF r[1].type \in {"commit", "frame"} THEN pending ELSE stack
    BY DEF Answered
  <2>3. stack' # pending' => \E k \in DOMAIN s : s[k].type \in {"commit", "frame"}
    <3>1. CASE r[1].type \in {"commit", "frame"}
      BY <2>2, <3>1 DEF Reorder
    <3>2. CASE r[1].type = "place"
      <4>1. PICK j \in DOMAIN r : j > 1 /\ r[j].type \in {"commit", "frame"}
        BY <1>1, <2>1, <3>2
      <4>2. j - 1 \in DOMAIN s /\ s[j - 1] = r[j]
        BY <1>1, <4>1 DEF s
      <4> QED BY <4>1, <4>2
    <3>3. CASE r[1].type \notin {"commit", "frame", "place"} /\ stack' # pending'
      <4>1. stack # pending
        BY <2>2, <3>3 DEF Reorder
      <4>2. PICK j \in DOMAIN r : r[j].type \in {"commit", "frame"}
        BY <2>1, <4>1
      <4>3. j - 1 \in DOMAIN s /\ s[j - 1] = r[j]
        BY <1>1, <3>3, <4>2 DEF s
      <4> QED BY <4>2, <4>3
    <3> QED BY <3>1, <3>2, <3>3
  <2>4. ASSUME NEW k \in DOMAIN s, s[k].type = "place"
        PROVE  \E j \in DOMAIN s : j > k /\ s[j].type \in {"commit", "frame"}
    <3>1. k \in Nat /\ k + 1 \in DOMAIN r /\ r[k + 1].type = "place"
      BY <1>1, <2>4 DEF s
    <3>2. PICK j \in DOMAIN r : j > k + 1 /\ r[j].type \in {"commit", "frame"}
      BY <2>1, <3>1
    <3>3. j \in Nat /\ j - 1 \in DOMAIN s /\ s[j - 1] = r[j] /\ j - 1 > k
      BY <1>1, <3>1, <3>2 DEF s
    <3> QED BY <3>2, <3>3
  <2> QED BY <2>3, <2>4 DEF CommitOrder
<1>5. Orders(s)'
  BY <1>2, <1>3, <1>4 DEF Orders
<1> QED BY <1>5 DEF s

-------------------------------------------------------------------------------
(* Events from the compositor that answer nothing.                            *)
LEMMA Adds ==
  ASSUME NEW c, NEW e \in Seq(EventSet), NEW es \in Seq(EventSet),
         NEW r \in Seq(RequestSet), Line(c, e, r),
         UNCHANGED <<pc, program, advert, prompt, split, pool, configured>>,
         \A k \in DOMAIN es : es[k].type # "done", seat' = "always" => seat = "always",
         Beginning(e \o es, r)', Clicks(c, e \o es, r)'
  PROVE  Line(c, e \o es, r)'
<1>1. /\ Syncs(e, r) /\ Globals(c, e, r) /\ Pointer(c, e, r) /\ FileMapped(e, r)
      /\ Configures(e, r)
  BY DEF Line
<1>2. /\ Quiet(e, r) <=> Quiet(e \o es, r)
      /\ Once(e, r) => Once(e \o es, r)
  <2>1. ASSUME NEW q \in Seq(RequestSet), DOMAIN q = {}
        PROVE  /\ Quiet(e, r) <=> Quiet(e \o es, r \o q)
               /\ Once(e, r) => Once(e \o es, r \o q)
    BY <2>1, SyncsMore
  <2> QED BY <2>1, NothingMore
<1>3. /\ \A req : AheadRequest(req, e, r) => AheadRequest(req, e \o es, r)
      /\ \A ev, req : Ahead(ev, req, e, r) => Ahead(ev, req, e \o es, r)
  <2>1. ASSUME NEW q \in Seq(RequestSet)
        PROVE  \A ev, req :
                 /\ AheadRequest(req, e, r) => AheadRequest(req, e \o es, r \o q)
                 /\ Ahead(ev, req, e, r) => Ahead(ev, req, e \o es, r \o q)
    BY AheadMore
  <2> QED BY <2>1, NothingMore
<1>4. \A p, ev, req : Coming(p, ev, req, e, r) => Coming(p, ev, req, e \o es, r)'
  BY <1>2, <1>3 DEF Coming
<1>5. \A ev, req : InFlight(ev, req, e, r) => InFlight(ev, req, e \o es, r)
  <2>1. ASSUME NEW q \in Seq(RequestSet)
        PROVE  \A ev, req : InFlight(ev, req, e, r) => InFlight(ev, req, e \o es, r \o q)
    BY FlightGoesOn
  <2> QED BY <2>1, NothingMore
<1>6. Syncs(e \o es, r)'
  BY <1>1, <1>2 DEF Syncs, Awaits
<1>7. Globals(c, e \o es, r)'
  <2>1. (\A g : Advertised(g)' <=> Advertised(g)) /\ Second' = Second
        /\ (Composes' <=> Composes)
    BY DEF Advertised, Second, Composes
  <2> QED BY <1>1, <1>4, <2>1 DEF Globals
<1>8. Pointer(c, e \o es, r)'
  <2>1. Advertised("seat")' <=> Advertised("seat")
    BY DEF Advertised
  <2>2. \A ev, req : InFlight(ev, req, e \o es, r)' <=> InFlight(ev, req, e \o es, r)
    BY DEF InFlight
  <2>3. HasPointer' = HasPointer
    BY DEF HasPointer
  <2> QED BY <1>1, <1>4, <1>5, <2>1, <2>2, <2>3 DEF Pointer
<1>9. FileMapped(e \o es, r)'
  BY <1>1, <1>2, <1>3 DEF FileMapped
<1>10. Configures(e \o es, r)'
  <2>1. \A k : Acks(r, k)' <=> Acks(r, k)
    BY DEF Acks
  <2> QED BY <1>1, <1>4, <2>1 DEF Configures
<1> QED BY <1>6, <1>7, <1>8, <1>9, <1>10 DEF Line

-------------------------------------------------------------------------------
(* Adding one is adding a sequence of one. *)
LEMMA AppendIs ==
  ASSUME NEW e \in Seq(EventSet), NEW x \in EventSet
  PROVE  Append(e, x) = e \o <<x>> /\ <<x>> \in Seq(EventSet)
<1>1. \A S : \A s \in Seq(S) : \A y \in S : Append(s, y) = s \o <<y>> /\ <<y>> \in Seq(S)
  OBVIOUS
<1> QED BY <1>1

(* The events that are a message without arguments. *)
LEMMA Msgs ==
  /\ \A b \in BOOLEAN :
       Capabilities(b) \in EventSet /\ Capabilities(b).type = "capabilities"
  /\ \A t \in {"done", "configure", "ping", "close", "leave"} :
       Msg(t) \in EventSet /\ Msg(t).type = t
  /\ \A t \in {"sync", "commit", "ack", "frame", "create_pool", "get_pointer", "pong"} :
       Msg(t) \in RequestSet /\ Msg(t).type = t
BY DEF Msg, Capabilities, EventSet, RequestSet

(* What every request read has in common. *)
Served(es) == /\ requests # <<>>
              /\ requests' = Tail(requests)
              /\ events' = events \o es
              /\ UNCHANGED <<clientVars, userVars, fixedVars>>
              /\ Answered(requests[1], es)

(* Requests that are answered with one event, or with none. *)
LEMMA ServesEach ==
  ASSUME Typed(client, events, requests), UserTyped, CompositorReads
  PROVE  \E es : Served(es)
<1>1. /\ events \in Seq(EventSet) /\ requests \in Seq(RequestSet)
      /\ advert \in Seq(STRING)
  BY DEF Typed, UserTyped
<1>2. /\ requests # <<>> /\ requests' = Tail(requests) /\ Head(requests) = requests[1]
      /\ requests[1] \in RequestSet
      /\ UNCHANGED <<clientVars, userVars, fixedVars>>
  <2>1. /\ requests # <<>> /\ requests' = Tail(requests)
        /\ UNCHANGED <<clientVars, userVars, fixedVars>>
    BY DEF CompositorReads, ReceiveGetRegistry, ReceiveBind, ReceiveSync, ReceiveCommit,
           ReceiveAck, ReceiveFrame, ReceiveCreatePool, ReceivePlace,
           ReceiveGetPointer, ReceivePong, Receive
  <2> QED BY <1>1, <2>1, InTail
<1> DEFINE x == requests[1]
<1>3. /\ x = BindSeat => x.type = "bind" /\ x.global = "seat"
      /\ \A n \in {1, 2} : x = GetRegistry(n) => x.type = "get_registry" /\ x.registry = n
      /\ x.type = "place" => x.type # "commit"
  BY DEF BindSeat, GetRegistry
<1>4. <<>> \in Seq(EventSet) /\ events \o <<>> = events /\ DOMAIN <<>> = {}
  BY <1>1, NothingMore
<1>5. \A y \in EventSet :
        /\ Append(events, y) = events \o <<y>> /\ <<y>> \in Seq(EventSet)
        /\ DOMAIN <<y>> = {1} /\ <<y>>[1] = y
  BY <1>1, AppendIs
<1>11. device \in {"none", "seat", "pointer"}
  BY DEF UserTyped
<1> HIDE DEF x
<1>6. CASE ReceiveGetRegistry
  <2>1. /\ x.type = "get_registry" /\ UNCHANGED serverVars
        /\ events' = events \o [k \in DOMAIN advert |->
             [type |-> "global", global |-> advert[k], registry |-> x.registry]]
    BY <1>2, <1>6 DEF ReceiveGetRegistry, Receive, x
  <2>2. PICK n \in {1, 2} : x.registry = n
    BY <1>2, <2>1 DEF RequestSet, x
  <2> DEFINE es == [k \in DOMAIN advert |->
                      [type |-> "global", global |-> advert[k], registry |-> n]]
  <2>3. es \in Seq(EventSet)
    <3>1. \A k \in DOMAIN advert : es[k] \in EventSet
      BY <1>1 DEF EventSet
    <3>2. DOMAIN advert = 1 .. Len(advert) /\ Len(advert) \in Nat
      BY <1>1
    <3>3. \A S : \A m \in Nat : \A f \in [1 .. m -> S] : f \in Seq(S)
      OBVIOUS
    <3>4. es \in [1 .. Len(advert) -> EventSet]
      BY <3>1, <3>2
    <3> HIDE DEF es
    <3> QED BY <3>2, <3>3, <3>4
  <2>4. \A k \in DOMAIN es : es[k].type = "global"
    OBVIOUS
  <2>5. \A m \in {1, 2} : x = GetRegistry(m) =>
          es = [k \in DOMAIN advert |-> Global(advert[k], m)]
    BY <1>3, <2>2 DEF Global
  <2>6. events' = events \o es
    BY <2>1, <2>2
  <2> HIDE DEF es
  <2>7. Answered(x, es)
    BY <1>3, <1>11, <2>1, <2>3, <2>4, <2>5 DEF Answered, serverVars, surfaceVars, seatVars, Reorder
  <2> QED BY <1>2, <2>6, <2>7 DEF Served, x
<1>7. CASE ReceiveBind
  <2>1. /\ x.type = "bind" /\ UNCHANGED <<surfaceVars, seat>>
        /\ IF x.global = "seat" THEN events' = Append(events, Capabilities(Plugged))
           ELSE events' = events
        /\ device' \in {"none", "seat", "pointer"}
    BY <1>2, <1>7, <1>11 DEF ReceiveBind, Receive, Event, x
  <2>4. PICK y \in EventSet : /\ y = Capabilities(Plugged) /\ y.type = "capabilities"
                              /\ seat = "always" => y = HasPointer
    <3>1. Plugged \in BOOLEAN /\ (seat = "always" => (Plugged <=> TRUE))
      BY DEF Plugged
    <3>2. Capabilities(Plugged) \in EventSet /\ Capabilities(Plugged).type = "capabilities"
      BY <3>1, Msgs
    <3>3. seat = "always" => Capabilities(Plugged) = HasPointer
      BY DEF HasPointer, Capabilities, Plugged
    <3> QED BY <3>2, <3>3
  <2>2. CASE x.global = "seat"
    <3>1. ASSUME NEW es, es \in Seq(EventSet), DOMAIN es = {1}, es[1] = y
          PROVE  Answered(x, es)
      <4>1. es[1].type = "capabilities"
        BY <2>4, <3>1
      <4>2. /\ \A k \in DOMAIN es : es[k].type = "capabilities"
            /\ seat = "always" => \E k \in DOMAIN es : es[k] = HasPointer
        BY <2>4, <3>1, <4>1
      <4> QED BY <1>3, <2>1, <3>1, <4>2 DEF Answered, surfaceVars, Reorder
    <3>2. Answered(x, <<y>>) /\ events' = events \o <<y>>
      BY <1>5, <2>1, <2>2, <2>4, <3>1
    <3> QED BY <1>2, <3>2 DEF Served, x
  <2>3. CASE x.global # "seat"
    <3>1. ASSUME NEW es, es \in Seq(EventSet), DOMAIN es = {} PROVE Answered(x, es)
      BY <1>3, <2>1, <2>3, <3>1 DEF Answered, serverVars, surfaceVars, seatVars, Reorder
    <3>2. Answered(x, <<>>) /\ events' = events \o <<>>
      BY <1>4, <2>1, <2>3, <3>1
    <3> QED BY <1>2, <3>2 DEF Served, x
  <2> QED BY <2>2, <2>3
<1>8. CASE ReceiveSync
  <2>1. /\ x.type = "sync" /\ UNCHANGED serverVars
        /\ events' = Append(events, Msg("done"))
    BY <1>2, <1>8 DEF ReceiveSync, Receive, Event, x
  <2>2. ASSUME NEW es, es \in Seq(EventSet), DOMAIN es = {1}, es[1] = Msg("done"),
               es = <<Msg("done")>>
        PROVE  Answered(x, es)
    <3>1. \A k \in DOMAIN es : es[k].type = "done"
      BY <2>2, Msgs
    <3> QED BY <1>3, <1>11, <2>1, <2>2, <3>1 DEF Answered, serverVars, surfaceVars, seatVars, Reorder
  <2>3. Answered(x, <<Msg("done")>>) /\ events' = events \o <<Msg("done")>>
    BY <1>5, <2>1, <2>2, Msgs
  <2> QED BY <1>2, <2>3 DEF Served, x
<1>9. CASE ReceiveCommit
  <2>1. /\ x.type = "commit" /\ stack' = pending
        /\ IF ~mapped /\ prompt THEN events' = Append(events, Msg("configure"))
           ELSE events' = events
        /\ UNCHANGED <<configured, unready, mapped, pool, pending, seat, device>>
    BY <1>2, <1>9 DEF ReceiveCommit, Receive, Event, seatVars, x
  <2>2. CASE ~mapped /\ prompt
    <3>1. ASSUME NEW es, es \in Seq(EventSet), DOMAIN es = {1}, es[1] = Msg("configure")
          PROVE  Answered(x, es)
      <4>1. es[1].type = "configure"
        BY <3>1, Msgs
      <4>2. /\ \A k \in DOMAIN es : es[k].type = "configure"
            /\ \E k \in DOMAIN es : es[k] = Msg("configure")
        BY <3>1, <4>1
      <4> QED BY <1>3, <1>11, <2>1, <3>1, <4>2 DEF Answered, Reorder
    <3>2. Answered(x, <<Msg("configure")>>) /\ events' = events \o <<Msg("configure")>>
      BY <1>5, <2>1, <2>2, <3>1, Msgs
    <3> QED BY <1>2, <3>2 DEF Served, x
  <2>3. CASE ~(~mapped /\ prompt)
    <3>1. ASSUME NEW es, es \in Seq(EventSet), DOMAIN es = {} PROVE Answered(x, es)
      BY <1>3, <1>11, <2>1, <2>3, <3>1 DEF Answered, Reorder
    <3>2. Answered(x, <<>>) /\ events' = events \o <<>>
      BY <1>4, <2>1, <2>3, <3>1
    <3> QED BY <1>2, <3>2 DEF Served, x
  <2> QED BY <2>2, <2>3
<1>10. CASE \/ ReceiveAck \/ ReceiveFrame \/ ReceiveCreatePool \/ ReceivePlace
            \/ ReceiveGetPointer \/ ReceivePong
  <2>1. events' = events /\ owing' = owing /\ seat' = seat
    BY <1>10 DEF ReceiveAck, ReceiveFrame, ReceiveCreatePool, ReceivePlace,
                 ReceiveGetPointer, ReceivePong, serverVars, surfaceVars, seatVars
  <2>2. /\ x.type \in {"ack", "frame", "create_pool", "place", "get_pointer", "pong"}
        /\ pool' = IF x.type = "create_pool" THEN file ELSE pool
        /\ configured' <=> configured \/ x.type = "ack"
        /\ mapped' <=> mapped \/ x.type = "frame"
        /\ unready' <=> unready \/ (x.type = "frame" /\ ~configured)
        /\ pending' = Reorder(pending, x)
        /\ stack' = IF x.type \in {"commit", "frame"} THEN pending ELSE stack
        /\ device' = IF x.type = "get_pointer" THEN "pointer" ELSE device
    <3>1. CASE ReceiveAck
      BY <1>2, <3>1 DEF ReceiveAck, Receive, Reorder, seatVars, x
    <3>2. CASE ReceiveFrame
      BY <1>2, <3>2 DEF ReceiveFrame, Receive, Reorder, seatVars, x
    <3>3. CASE ReceiveCreatePool
      BY <1>2, <3>3 DEF ReceiveCreatePool, Receive, Reorder, seatVars, x
    <3>4. CASE ReceivePlace
      BY <1>2, <3>4 DEF ReceivePlace, Receive, Reorder, seatVars, x
    <3>5. CASE ReceiveGetPointer
      BY <1>2, <3>5 DEF ReceiveGetPointer, Receive, Reorder, surfaceVars, x
    <3>6. CASE ReceivePong
      BY <1>2, <3>6 DEF ReceivePong, Receive, Reorder, serverVars, surfaceVars, seatVars, x
    <3> QED BY <1>10, <3>1, <3>2, <3>3, <3>4, <3>5, <3>6
  <2>3. ASSUME NEW es, es \in Seq(EventSet), DOMAIN es = {} PROVE Answered(x, es)
    BY <1>3, <1>11, <2>1, <2>2, <2>3 DEF Answered
  <2>4. Answered(x, <<>>) /\ events' = events \o <<>>
    BY <1>4, <2>1, <2>3
  <2> QED BY <1>2, <2>4 DEF Served, x
<1> QED BY <1>6, <1>7, <1>8, <1>9, <1>10 DEF CompositorReads

-------------------------------------------------------------------------------
(* What the compositor's steps leave as it is. *)
LEMMA Unmoved ==
  ASSUME UNCHANGED <<clientVars, fixedVars>>, seat' = "always" => seat = "always",
         GlobalsSeen /\ PointerKnown
  PROVE  (GlobalsSeen /\ PointerKnown)'
BY DEF clientVars, fixedVars, GlobalsSeen, PointerKnown, Started, CanRun, Advertised, At,
       Script

(* A request read keeps the invariant. *)
LEMMA ReadsKeep == ASSUME StartInv, CompositorReads PROVE StartInv'
<1>1. Typed(client, events, requests) /\ UserTyped /\ Orders(requests)
  BY DEF StartInv
<1>2. PICK es : Served(es)
  BY <1>1, ServesEach
<1>3. /\ requests # <<>> /\ requests' = Tail(requests) /\ events' = events \o es
      /\ UNCHANGED <<program, pc, status, client, listening, split, file>>
      /\ UNCHANGED <<focus, chosen, intent>> /\ UNCHANGED <<advert, prompt>>
      /\ Answered(requests[1], es) /\ es \in Seq(EventSet)
  BY <1>2 DEF Served, Answered, clientVars, userVars, fixedVars
<1>4. client \in Clients /\ events \in Seq(EventSet) /\ requests \in Seq(RequestSet)
  BY <1>1 DEF Typed
<1>5. Typed(client, events, requests)'
  <2>1. events \o es \in Seq(EventSet) /\ Tail(requests) \in Seq(RequestSet)
    BY <1>3, <1>4, InConcat, InTail
  <2> QED BY <1>3, <1>4, <2>1 DEF Typed
<1>6. UserTyped'
  <2>1. Advertised("seat")' <=> Advertised("seat")
    BY <1>3 DEF Advertised
  <2> QED BY <1>1, <1>3, <2>1 DEF UserTyped, Answered
<1> PICK c \in Clients : c = client
  BY <1>4
<1> PICK e \in Seq(EventSet) : e = events
  BY <1>4
<1> PICK r \in Seq(RequestSet) : r = requests
  BY <1>4
<1>7. /\ r # <<>> /\ requests' = Tail(r) /\ events' = e \o es /\ client' = c
      /\ Answered(r[1], es)
  BY <1>3
<1>8. Orders(Tail(r))'
  BY <1>1, <1>3, <1>7, AnswerOrders
<1>9. CASE status = "running"
  <2>1. Line(c, e, r) /\ FirstBatch(e, r) /\ Orders(r)
    BY <1>1, <1>9 DEF StartInv
  <2>2. Line(c, e \o es, Tail(r))'
    BY <1>3, <1>7, <2>1, Answers
  <2>3. FirstBatch(e \o es, Tail(r))'
    <3>1. pc # 1
      BY <1>7, <2>1 DEF FirstBatch
    <3>3. pc <= 2 => device' = "none"
      <4>1. pc <= 2 => pc = 2 /\ device = "none"
        BY <1>1, <2>1, <3>1 DEF FirstBatch, UserTyped
      <4>2. pc = 2 => r[1] = GetRegistry(1)
        BY <1>7, <2>1 DEF FirstBatch
      <4>3. pc = 2 => r[1].type = "get_registry"
        BY <4>2 DEF GetRegistry
      <4> QED BY <1>7, <4>1, <4>3 DEF Answered
    <3>2. ASSUME pc = 2
          PROVE  Tail(r) = <<>> /\ e \o es = [k \in DOMAIN advert |-> Global(advert[k], 1)]
      <4>1. e = <<>> /\ r = <<GetRegistry(1)>>
        BY <1>7, <2>1, <3>2 DEF FirstBatch
      <4>2. r[1] = GetRegistry(1) /\ Tail(r) = <<>>
        BY <4>1
      <4>3. es = [k \in DOMAIN advert |-> Global(advert[k], 1)]
        BY <1>7, <4>2 DEF Answered
      <4>4. \A s \in Seq(EventSet) : <<>> \o s = s
        <5>1. \A S : \A s \in Seq(S) : <<>> \o s = s
          OBVIOUS
        <5> QED BY <5>1
      <4>5. e \o es = es
        BY <1>3, <4>1, <4>4
      <4> QED BY <4>2, <4>3, <4>5
    <3> QED BY <1>3, <3>1, <3>2, <3>3 DEF FirstBatch
  <2>4. Line(client, events, requests)' /\ FirstBatch(events, requests)'
        /\ Orders(requests)' /\ status' = "running"
    BY <1>3, <1>7, <1>8, <1>9, <2>2, <2>3
  <2> QED BY <1>5, <1>6, <2>4 DEF StartInv
<1>10. CASE status # "running"
  <2>1. GlobalsSeen /\ PointerKnown
    BY <1>10 DEF StartInv
  <2>2. (GlobalsSeen /\ PointerKnown)'
    BY <1>3, <2>1, Unmoved DEF clientVars, fixedVars, Answered
  <2>3. Orders(requests)' /\ status' # "running"
    BY <1>3, <1>7, <1>8, <1>10
  <2> QED BY <1>5, <1>6, <2>2, <2>3 DEF StartInv
<1> QED BY <1>9, <1>10

(* So do events that answer nothing. *)
LEMMA AddsKeep ==
  ASSUME StartInv, NEW es \in Seq(EventSet), \A k \in DOMAIN es : es[k].type # "done",
         events' = events \o es, UserTyped', seat' = "always" => seat = "always",
         UNCHANGED <<program, pc, status, client, listening, split, file, advert, prompt,
                     requests, configured, unready, mapped, pool, stack, pending,
                     device>>,
         \/ owing \/ mapped \/ focus # "none"
         \/ /\ UNCHANGED <<owing, focus, chosen, intent>>
            /\ \A k \in DOMAIN es : es[k].type = "capabilities"
            /\ device = "none" => es = <<>>,
         Clicks(client, events, requests) => Clicks(client, events, requests)'
  PROVE  StartInv'
<1>1. /\ Typed(client, events, requests) /\ UserTyped /\ Orders(requests)
      /\ client \in Clients /\ events \in Seq(EventSet) /\ requests \in Seq(RequestSet)
      /\ pc \in Nat \ {0}
  BY DEF StartInv, Typed, UserTyped
<1>2. Typed(client, events, requests)'
  BY <1>1, InConcat DEF Typed
<1>3. Orders(requests)'
  BY <1>1 DEF Orders, PoolOrder, FrameOrder, CommitOrder, Acks
<1>4. CASE status = "running"
  <2>1. Line(client, events, requests)
    BY <1>4 DEF StartInv
  <2>2. \/ ~Early
        \/ /\ UNCHANGED <<owing, mapped, focus, chosen, intent>>
           /\ \A k \in DOMAIN es : es[k].type = "capabilities"
           /\ device = "none" => es = <<>>
    BY <2>1 DEF Line, Beginning
  <2> PICK c : c = client
    OBVIOUS
  <2> PICK e \in Seq(EventSet) : e = events
    BY <1>1
  <2> PICK r \in Seq(RequestSet) : r = requests
    BY <1>1
  <2>4. Line(c, e, r) /\ c = client' /\ r = requests' /\ events' = e \o es
    BY <2>1
  <2>5. Clicks(c, e \o es, r)'
    BY <2>1, <2>4 DEF Line
  <2>3. Beginning(e \o es, r)'
    <3> SUFFICES ASSUME Early PROVE Beginning(e \o es, r)'
      BY DEF Beginning, Early
    <3>1. /\ ~owing /\ ~mapped
          /\ focus = "none" /\ chosen = "none" /\ intent = FirstStack
          /\ \A k \in DOMAIN e : e[k].type \in {"global", "capabilities", "done"}
          /\ \A k \in DOMAIN r :
               r[k].type \in {"get_registry", "bind", "sync", "get_pointer"}
      BY <2>4 DEF Line, Beginning
    <3>2. \A k \in DOMAIN (e \o es) :
            (e \o es)[k].type \in {"global", "capabilities", "done"}
      BY <2>2, <3>1, InConcat
    <3> QED BY <2>2, <3>1, <3>2 DEF Beginning
  <2>6. Line(c, e \o es, r)'
    BY <2>3, <2>4, <2>5, Adds
  <2>7. Line(client, events, requests)'
    BY <2>4, <2>6
  <2>8. FirstBatch(events, requests)'
    <3>1. CASE ~Early
      BY <1>1, <3>1 DEF FirstBatch, Early
    <3>2. CASE device = "none" => es = <<>>
      <4>1. FirstBatch(e, r) /\ (pc <= 2 => e \o es = e)
        BY <1>4, <2>4, <3>2, NothingMore DEF StartInv, FirstBatch
      <4>2. pc <= 2 => device = "none" /\ events' = e /\ requests' = r
        BY <2>4, <4>1 DEF FirstBatch
      <4>3. UNCHANGED <<pc, device, advert>>
        OBVIOUS
      <4>4. pc = 1 \/ pc = 2 => pc <= 2
        BY <1>1
      <4>5. FirstBatch(e, r)'
        BY <4>1, <4>3 DEF FirstBatch
      <4> QED BY <4>2, <4>3, <4>4, <4>5 DEF FirstBatch
    <3> QED BY <2>2, <3>1, <3>2
  <2> QED BY <1>2, <1>3, <1>4, <2>7, <2>8 DEF StartInv
<1>5. CASE status # "running"
  <2>1. (GlobalsSeen /\ PointerKnown)'
    BY <1>5, Unmoved DEF StartInv, clientVars, fixedVars
  <2> QED BY <1>2, <1>3, <1>5, <2>1 DEF StartInv
<1> QED BY <1>4, <1>5

-------------------------------------------------------------------------------
(* What the clicks lead to, after one more event that the user knows of, *)
LEMMA OneMore ==
  ASSUME Typed(client, events, requests), NEW x \in EventSet,
         listening, UNCHANGED <<client, requests, pending, listening>>, events' = events \o <<x>>,
         Click(State(focus, chosen, intent), x) = State(focus', chosen', intent'),
         Clicks(client, events, requests)
  PROVE  Clicks(client, events, requests)'
<1>1. PICK w, v : /\ Reorders(w, pending, requests)
                  /\ Follows(v, State(client.current, client.selected,
                                      w[Len(requests)]), events)
                  /\ v[Len(events)] = Meant
  BY DEF Clicks
<1>2. PICK e \in Seq(EventSet) : e = events
  BY DEF Typed
<1>3. PICK u : u = State(client.current, client.selected, w[Len(requests)])
  OBVIOUS
<1>4. PICK v2 : /\ Follows(v2, u, e \o <<x>>)
                /\ v2[Len(e \o <<x>>)] = Click(v[Len(e)], x)
  BY <1>1, <1>2, <1>3, FollowsOne
<1>5. Follows(v2, u, events') /\ v2[Len(events')] = Meant'
  BY <1>1, <1>2, <1>4 DEF Meant, State
<1>6. Reorders(w, pending', requests')
      /\ u = State(client'.current, client'.selected, w[Len(requests')])
  BY <1>1, <1>3
<1> QED BY <1>5, <1>6 DEF Clicks

(* and after others. *)
LEMMA OthersMore ==
  ASSUME Typed(client, events, requests), NEW es \in Seq(EventSet),
         UNCHANGED <<client, requests, pending>>, Meant' = Meant,
         events' = events \o es, \A k \in DOMAIN es : es[k].type \notin PointerEvents,
         Clicks(client, events, requests)
  PROVE  Clicks(client, events, requests)'
<1>1. PICK w, v : /\ Reorders(w, pending, requests)
                  /\ Follows(v, State(client.current, client.selected,
                                      w[Len(requests)]), events)
                  /\ v[Len(events)] = Meant
  BY DEF Clicks
<1>2. PICK e \in Seq(EventSet) : e = events
  BY DEF Typed
<1>3. PICK u : u = State(client.current, client.selected, w[Len(requests)])
  OBVIOUS
<1>4. PICK v2 : Follows(v2, u, e \o es) /\ v2[Len(e \o es)] = v[Len(e)]
  <2>1. Follows(v, u, e)
    BY <1>1, <1>2, <1>3
  <2> QED BY <2>1, FollowsOthers
<1>5. Follows(v2, u, events') /\ v2[Len(events')] = Meant'
  BY <1>1, <1>2, <1>4
<1>6. Reorders(w, pending', requests')
      /\ u = State(client'.current, client'.selected, w[Len(requests')])
  BY <1>1, <1>3
<1> QED BY <1>5, <1>6 DEF Clicks

(* A configure, a ping and a close keep the invariant. *)
LEMMA SendsKeep ==
  ASSUME StartInv, NEW t \in {"configure", "ping", "close"}, owing \/ mapped,
         events' = Append(events, Msg(t)),
         UNCHANGED <<clientVars, requests, focus, chosen, intent, fixedVars,
                     configured, unready, mapped, pool, stack, pending, seatVars>>
  PROVE  StartInv'
<1>1. Typed(client, events, requests) /\ UserTyped /\ events \in Seq(EventSet)
  BY DEF StartInv, Typed
<1>2. Msg(t) \in EventSet /\ Msg(t).type = t
  BY Msgs
<1>3. UserTyped'
  BY <1>1 DEF UserTyped, clientVars, fixedVars, seatVars, Advertised
<1>4. /\ UNCHANGED <<program, pc, status, client, listening, split, file, advert, prompt,
                     seat, device>>
      /\ Meant' = Meant
  BY DEF clientVars, fixedVars, seatVars, Meant, State
<1>5. ASSUME NEW es \in Seq(EventSet), DOMAIN es = {1}, es[1] = Msg(t), events' = events \o es
      PROVE  StartInv'
  <2>1. \A k \in DOMAIN es : es[k].type = t
    BY <1>2, <1>5
  <2>2. \A k \in DOMAIN es : es[k].type # "done" /\ es[k].type \notin PointerEvents
    BY <2>1 DEF PointerEvents
  <2>3. Clicks(client, events, requests) => Clicks(client, events, requests)'
    BY <1>1, <1>4, <1>5, <2>2, OthersMore
  <2> QED BY <1>3, <1>4, <1>5, <2>2, <2>3, AddsKeep
<1>6. <<Msg(t)>> \in Seq(EventSet) /\ events' = events \o <<Msg(t)>>
      /\ DOMAIN <<Msg(t)>> = {1} /\ <<Msg(t)>>[1] = Msg(t)
  BY <1>1, <1>2, AppendIs
<1> QED BY <1>5, <1>6

(* What the user does is what the client will do. *)
LEMMA UserKeeps ==
  ASSUME StartInv, NEW x \in EventSet, x.type \in PointerEvents,
         mapped \/ focus # "none", events' = events \o Heard(<<x>>),
         UNCHANGED <<clientVars, requests, fixedVars, surfaceVars, seatVars>>,
         Click(State(focus, chosen, intent), x) = State(focus', chosen', intent'),
         UserTyped'
  PROVE  StartInv'
<1>1. Typed(client, events, requests) /\ UserTyped /\ events \in Seq(EventSet)
  BY DEF StartInv, Typed
<1>2. UNCHANGED <<program, pc, status, client, listening, split, file, advert, prompt,
                  requests, configured, unready, mapped, pool, stack, pending,
                  seat, device>>
  BY DEF clientVars, fixedVars, surfaceVars, seatVars
<1>3. <<x>> \in Seq(EventSet) /\ <<>> \in Seq(EventSet) /\ DOMAIN <<>> = {}
  BY <1>1, AppendIs, NothingMore
<1>4. \A k \in DOMAIN <<x>> : <<x>>[k].type # "done"
  BY DEF PointerEvents
<1>5. ASSUME NEW es \in Seq(EventSet), events' = events \o es,
             \A k \in DOMAIN es : es[k].type # "done",
             Clicks(client, events, requests) => Clicks(client, events, requests)'
      PROVE  StartInv'
  <2>1. mapped \/ focus # "none"
    OBVIOUS
  <2>2. StartInv /\ UserTyped'
    OBVIOUS
  <2> QED BY <1>2, <1>5, <2>1, <2>2, AddsKeep
<1>6. CASE listening
  <2>1. events' = events \o <<x>>
    BY <1>6 DEF Heard
  <2>2. Clicks(client, events, requests) => Clicks(client, events, requests)'
    BY <1>1, <1>2, <1>6, <2>1, OneMore
  <2> QED BY <1>3, <1>4, <1>5, <2>1, <2>2
<1>7. CASE ~listening
  <2>1. events' = events \o <<>> /\ Meant' = Meant
    BY <1>2, <1>7 DEF Heard, Meant, State
  <2>2. ASSUME NEW es \in Seq(EventSet), DOMAIN es = {}, events' = events \o es
        PROVE  StartInv'
    <3>1. Clicks(client, events, requests) => Clicks(client, events, requests)'
      BY <1>1, <1>2, <2>1, <2>2, OthersMore
    <3> QED BY <1>5, <2>2, <3>1
  <2> QED BY <1>3, <2>1, <2>2
<1> QED BY <1>6, <1>7

(* The pointer goes from one surface to another. *)
LEMMA TwoMore ==
  ASSUME Typed(client, events, requests), NEW x \in EventSet, NEW y \in EventSet,
         listening, UNCHANGED <<client, requests, pending, listening>>,
         events' = (events \o <<x>>) \o <<y>>,
         Click(Click(State(focus, chosen, intent), x), y) =
           State(focus', chosen', intent'),
         Clicks(client, events, requests)
  PROVE  Clicks(client, events, requests)'
<1>1. PICK w, v : /\ Reorders(w, pending, requests)
                  /\ Follows(v, State(client.current, client.selected,
                                      w[Len(requests)]), events)
                  /\ v[Len(events)] = Meant
  BY DEF Clicks
<1>2. PICK e \in Seq(EventSet) : e = events
  BY DEF Typed
<1>3. PICK u : u = State(client.current, client.selected, w[Len(requests)])
  OBVIOUS
<1>4. Follows(v, u, e)
  BY <1>1, <1>2, <1>3
<1>5. PICK v2 : /\ Follows(v2, u, e \o <<x>>)
                /\ v2[Len(e \o <<x>>)] = Click(v[Len(e)], x)
  BY <1>4, FollowsOne
<1>6. e \o <<x>> \in Seq(EventSet)
  <2>1. <<x>> \in Seq(EventSet)
    BY AppendIs
  <2> QED BY <2>1, InConcat
<1>7. PICK v3 : /\ Follows(v3, u, (e \o <<x>>) \o <<y>>)
                /\ v3[Len((e \o <<x>>) \o <<y>>)] = Click(v2[Len(e \o <<x>>)], y)
  <2>1. ASSUME NEW d \in Seq(EventSet), Follows(v2, u, d)
        PROVE  \E v3 : /\ Follows(v3, u, d \o <<y>>)
                       /\ v3[Len(d \o <<y>>)] = Click(v2[Len(d)], y)
    BY <2>1, FollowsOne
  <2> QED BY <1>5, <1>6, <2>1
<1>8. Follows(v3, u, events') /\ v3[Len(events')] = Meant'
  BY <1>1, <1>2, <1>5, <1>7 DEF Meant, State
<1>9. Reorders(w, pending', requests')
      /\ u = State(client'.current, client'.selected, w[Len(requests')])
  BY <1>1, <1>3
<1> QED BY <1>8, <1>9 DEF Clicks

(* The events of the pointer are typed. *)
LEMMA PointerTyped ==
  /\ Msg("leave") \in EventSet /\ Msg("leave").type \in PointerEvents
  /\ \A s \in Surfaces : [type |-> "enter", surface |-> s] \in EventSet
  /\ \A b \in {"left", "middle", "right"}, released \in BOOLEAN :
       [type |-> "button", released |-> released, button |-> b] \in EventSet
BY DEF Msg, EventSet, PointerEvents

(* The pointer comes onto a surface. *)
LEMMA EnterKeeps == ASSUME StartInv, NEW s \in Surfaces, Enter(s) PROVE StartInv'
<1>1. /\ Typed(client, events, requests) /\ UserTyped /\ events \in Seq(EventSet)
  BY DEF StartInv, Typed
<1> DEFINE x == Msg("leave")
           y == [type |-> "enter", surface |-> s]
<1>2. /\ mapped /\ program = "subsurfaces" /\ focus' = s
      /\ events' = events \o Heard((IF focus = "none" THEN <<>> ELSE <<x>>) \o <<y>>)
      /\ UNCHANGED <<clientVars, requests, fixedVars, surfaceVars, seatVars, chosen, intent>>
  BY DEF Enter, Input, Sends, LeaveEvents, seatVars
<1>3. x \in EventSet /\ x.type = "leave" /\ y \in EventSet /\ y.type = "enter" /\ y.surface = s
  BY PointerTyped DEF Msg
<1>4. UserTyped'
  BY <1>1, <1>2 DEF UserTyped, clientVars, fixedVars, seatVars, Advertised
<1>5. \A a, b, d : /\ Click(State(a, b, d), x) = State("none", b, d)
                   /\ Click(State(a, b, d), y) = State(s, b, d)
  BY <1>3 DEF Click, State
<1>6. focus' = s /\ chosen' = chosen /\ intent' = intent
  BY <1>2
<1> HIDE DEF x, y
<1>7. \A q \in Seq(EventSet) : <<>> \o q = q
  <2>1. \A S : \A q \in Seq(S) : <<>> \o q = q
    OBVIOUS
  <2> QED BY <2>1
<1>8. <<x>> \in Seq(EventSet) /\ <<y>> \in Seq(EventSet)
  BY <1>1, <1>3, AppendIs
<1>9. CASE focus = "none"
  <2>1. events' = events \o Heard(<<y>>)
    BY <1>2, <1>7, <1>8, <1>9
  <2>2. Click(State(focus, chosen, intent), y) = State(focus', chosen', intent')
    BY <1>5, <1>6
  <2>3. y.type \in PointerEvents
    BY <1>3 DEF PointerEvents
  <2> QED BY <1>2, <1>3, <1>4, <2>1, <2>2, <2>3, UserKeeps
<1>10. CASE ~listening
  <2>1. events' = events \o Heard(<<y>>)
    BY <1>2, <1>10 DEF Heard
  <2>2. UNCHANGED <<program, pc, status, client, listening, split, file, advert, prompt,
                    requests, configured, unready, mapped, pool, stack, pending,
                    seat, device>>
    BY <1>2 DEF clientVars, fixedVars, surfaceVars, seatVars
  <2>3. events' = events \o <<>> /\ Meant' = Meant /\ <<>> \in Seq(EventSet)
    BY <1>10, <2>1, <2>2 DEF Heard, Meant, State
  <2>4. ASSUME NEW es \in Seq(EventSet), DOMAIN es = {}, events' = events \o es
        PROVE  StartInv'
    <3>1. Clicks(client, events, requests) => Clicks(client, events, requests)'
      BY <1>1, <2>2, <2>3, <2>4, OthersMore
    <3> QED BY <1>2, <1>4, <2>2, <2>4, <3>1, AddsKeep
  <2>5. DOMAIN <<>> = {}
    OBVIOUS
  <2> QED BY <2>3, <2>4, <2>5
<1>11. CASE listening /\ focus # "none"
  <2>1. events' = events \o (<<x>> \o <<y>>)
    BY <1>2, <1>11 DEF Heard
  <2>2. events' = (events \o <<x>>) \o <<y>>
    <3>1. \A S : \A f, g, h \in Seq(S) : f \o (g \o h) = (f \o g) \o h
      OBVIOUS
    <3> QED BY <1>1, <1>8, <2>1, <3>1
  <2>3. Click(Click(State(focus, chosen, intent), x), y) = State(focus', chosen', intent')
    BY <1>5, <1>6
  <2>4. UNCHANGED <<program, pc, status, client, listening, split, file, advert, prompt,
                    requests, configured, unready, mapped, pool, stack, pending,
                    seat, device>>
    BY <1>2 DEF clientVars, fixedVars, surfaceVars, seatVars
  <2>5. Clicks(client, events, requests) => Clicks(client, events, requests)'
    BY <1>1, <1>3, <1>11, <2>2, <2>3, <2>4, TwoMore
  <2>6. /\ <<x>> \o <<y>> \in Seq(EventSet)
        /\ \A k \in DOMAIN (<<x>> \o <<y>>) : (<<x>> \o <<y>>)[k].type # "done"
    <3>1. \A k \in DOMAIN <<x>> : <<x>>[k].type # "done"
      BY <1>3
    <3>2. \A k \in DOMAIN <<y>> : <<y>>[k].type # "done"
      BY <1>3
    <3>3. ASSUME NEW f \in Seq(EventSet), NEW g \in Seq(EventSet),
                 \A k \in DOMAIN f : f[k].type # "done",
                 \A k \in DOMAIN g : g[k].type # "done"
          PROVE  f \o g \in Seq(EventSet) /\ \A k \in DOMAIN (f \o g) : (f \o g)[k].type # "done"
      BY <3>3, InConcat
    <3> QED BY <1>8, <3>1, <3>2, <3>3
  <2>7. ASSUME NEW es \in Seq(EventSet), events' = events \o es,
               \A k \in DOMAIN es : es[k].type # "done"
        PROVE  StartInv'
    BY <1>2, <1>4, <2>4, <2>5, <2>7, AddsKeep
  <2> QED BY <2>1, <2>6, <2>7
<1> QED BY <1>9, <1>10, <1>11

(* It leaves one. *)
LEMMA LeaveKeeps == ASSUME StartInv, Leave PROVE StartInv'
<1>1. /\ UserTyped /\ focus # "none" /\ focus' = "none"
      /\ events' = events \o Heard(<<Msg("leave")>>)
      /\ UNCHANGED <<clientVars, requests, fixedVars, surfaceVars, seatVars, chosen, intent>>
  BY DEF Leave, Input, Sends, seatVars, StartInv
<1>2. UserTyped'
  BY <1>1 DEF UserTyped, clientVars, fixedVars, seatVars, Advertised
<1> DEFINE x == Msg("leave")
<1>3. x \in EventSet /\ x.type \in PointerEvents
  BY PointerTyped
<1>4. Click(State(focus, chosen, intent), x) = State(focus', chosen', intent')
  BY <1>1 DEF Click, State, Msg
<1>5. events' = events \o Heard(<<x>>)
  BY <1>1
<1> HIDE DEF x
<1> QED BY <1>1, <1>2, <1>3, <1>4, <1>5, UserKeeps

(* A press counts for the surface the pointer is on. *)
LEMMA PressKeeps == ASSUME StartInv, Press PROVE StartInv'
<1> DEFINE x == [type |-> "button", released |-> FALSE, button |-> "left"]
<1>1. /\ UserTyped /\ focus # "none"
      /\ events' = events \o Heard(<<x>>)
      /\ UNCHANGED <<clientVars, requests, fixedVars, surfaceVars, seatVars, focus, chosen, intent>>
  BY DEF Press, Input, Sends, seatVars, StartInv
<1>2. UserTyped'
  BY <1>1 DEF UserTyped, clientVars, fixedVars, seatVars, Advertised
<1>3. x \in EventSet /\ x.type \in PointerEvents /\ x.type = "button" /\ ~x.released
  BY PointerTyped DEF PointerEvents
<1> HIDE DEF x
<1>4. Click(State(focus, chosen, intent), x) = State(focus', chosen', intent')
  BY <1>1, <1>3 DEF Click, State, Selects, Places
<1> QED BY <1>1, <1>2, <1>3, <1>4, UserKeeps

(* A release goes to the surface of the press, or nowhere. *)
LEMMA ReleaseKeeps ==
  ASSUME StartInv, NEW b \in {"left", "middle", "right"}, Release(b) PROVE StartInv'
<1> DEFINE x == [type |-> "button", released |-> TRUE, button |-> b]
<1>1. /\ UserTyped /\ focus # "none" /\ focus' = focus
      /\ events' = events \o Heard(<<x>>)
      /\ UNCHANGED <<clientVars, requests, fixedVars, surfaceVars, seatVars>>
      /\ IF chosen = "none" THEN /\ chosen' = IF focus = "main" THEN "none" ELSE focus
                                 /\ intent' = intent
         ELSE IF focus = chosen THEN chosen' = chosen /\ intent' = intent
         ELSE /\ chosen' = "none"
              /\ intent' = IF b = "middle" THEN intent
                           ELSE Moved(intent, How(b), chosen, focus)
  BY DEF Release, Input, Sends, seatVars, StartInv, How
<1>2. UserTyped'
  <2>1. /\ focus \in Surfaces /\ chosen \in Subsurface \cup {"none"}
        /\ program = "subsurfaces"
    BY <1>1 DEF UserTyped
  <2>2. chosen' \in Subsurface \cup {"none"}
    BY <1>1, <2>1 DEF Surfaces
  <2>3. /\ program' = program /\ pc' = pc /\ prompt' = prompt /\ split' = split
        /\ advert' = advert /\ focus' = focus /\ seat' = seat /\ device' = device
    BY <1>1 DEF clientVars, fixedVars, seatVars
  <2> QED BY <1>1, <2>1, <2>2, <2>3 DEF UserTyped, Advertised
<1>3. /\ x \in EventSet /\ x.type \in PointerEvents /\ x.type = "button" /\ x.released
      /\ x.button = b
  BY PointerTyped DEF PointerEvents
<1> HIDE DEF x
<1>4. Click(State(focus, chosen, intent), x) = State(focus', chosen', intent')
  <2>1. focus \in Surfaces /\ chosen \in Subsurface \cup {"none"} /\ "none" \notin Subsurface
    BY <1>1 DEF UserTyped, Subsurface
  <2> DEFINE u == State(focus, chosen, intent)
  <2>2. u.current = focus /\ u.selected = chosen /\ u.order = intent
    BY DEF State
  <2> HIDE DEF u
  <2>3. CASE chosen = "none"
    <3>1. CASE focus = "main"
      <4>1. ~Selects(u, x) /\ ~Places(u, x)
        BY <2>2, <2>3, <3>1 DEF Selects, Places, Subsurface
      <4>2. Click(u, x) = u
        BY <1>3, <4>1 DEF Click
      <4>3. chosen' = chosen /\ intent' = intent
        BY <1>1, <2>3, <3>1
      <4> QED BY <1>1, <4>2, <4>3 DEF u
    <3>2. CASE focus # "main"
      <4>1. Selects(u, x)
        BY <1>3, <2>1, <2>2, <2>3, <3>2 DEF Selects, Surfaces
      <4>2. Click(u, x) = State(u.current, u.current, u.order)
        BY <1>3, <4>1 DEF Click, Places, Selects
      <4>3. chosen' = focus /\ intent' = intent
        BY <1>1, <2>3, <3>2
      <4> QED BY <1>1, <2>2, <4>2, <4>3 DEF u
    <3> QED BY <3>1, <3>2
  <2>4. CASE chosen # "none" /\ focus = chosen
    <3>1. ~Selects(u, x) /\ ~Places(u, x)
      BY <2>2, <2>4 DEF Selects, Places
    <3>2. Click(u, x) = u
      BY <1>3, <3>1 DEF Click
    <3>3. chosen' = chosen /\ intent' = intent
      BY <1>1, <2>4
    <3> QED BY <1>1, <3>2, <3>3 DEF u
  <2>5. CASE chosen # "none" /\ focus # chosen
    <3>1. ~Selects(u, x) /\ Places(u, x)
      BY <1>1, <1>3, <2>2, <2>5 DEF Selects, Places
    <3>2. Click(u, x) = State(u.current, "none",
                              IF b = "middle" THEN u.order
                              ELSE Moved(u.order, How(b), u.selected, u.current))
      BY <1>3, <3>1 DEF Click
    <3>3. chosen' = "none" /\ intent' = IF b = "middle" THEN intent
                                       ELSE Moved(intent, How(b), chosen, focus)
      BY <1>1, <2>5
    <3> QED BY <1>1, <2>2, <3>2, <3>3 DEF u
  <2> QED BY <2>3, <2>4, <2>5
<1> QED BY <1>1, <1>2, <1>3, <1>4, UserKeeps

(* What the client is told of its seat. *)
LEMMA ToldIs ==
  ASSUME UNCHANGED device
  PROVE  \/ device = "none" /\ Told = <<>>
         \/ /\ device # "none"
            /\ \E y \in EventSet : y.type = "capabilities" /\ Told = <<y>>
<1>1. Plugged' \in BOOLEAN
  BY DEF Plugged
<1>2. Capabilities(Plugged') \in EventSet /\ Capabilities(Plugged').type = "capabilities"
  BY <1>1, Msgs
<1> QED BY <1>2 DEF Told

(* That alone keeps the invariant. *)
LEMMA ToldKeeps ==
  ASSUME StartInv, events' = events \o Told, Meant' = Meant,
         UNCHANGED <<clientVars, requests, fixedVars, surfaceVars, device>>,
         UNCHANGED <<chosen, intent>>, focus' = "none" \/ focus' = focus,
         seat' \in {"late", "lost"}, Advertised("seat")
  PROVE  StartInv'
<1>1. Typed(client, events, requests) /\ UserTyped /\ events \in Seq(EventSet)
  BY DEF StartInv, Typed
<1>2. UNCHANGED <<program, pc, status, client, listening, split, file, advert, prompt,
                  requests, owing, configured, unready, mapped, pool, stack, pending,
                  device>>
  BY DEF clientVars, fixedVars, surfaceVars
<1>3. UserTyped'
  BY <1>1, <1>2 DEF UserTyped, Advertised
<1>5. ASSUME NEW es \in Seq(EventSet), events' = events \o es,
             \A k \in DOMAIN es : es[k].type = "capabilities",
             device = "none" => es = <<>>
      PROVE  StartInv'
  <2>1. \A k \in DOMAIN es : es[k].type # "done" /\ es[k].type \notin PointerEvents
    BY <1>5 DEF PointerEvents
  <2>2. Clicks(client, events, requests) => Clicks(client, events, requests)'
    BY <1>1, <1>2, <1>5, <2>1, OthersMore
  <2>3. focus # "none" \/ UNCHANGED <<owing, focus, chosen, intent>>
    BY <1>2
  <2>4. seat' = "always" => seat = "always"
    OBVIOUS
  <2> QED BY <1>2, <1>3, <1>5, <2>1, <2>2, <2>3, <2>4, AddsKeep
<1>6. CASE device = "none" /\ Told = <<>>
  <2>1. <<>> \in Seq(EventSet) /\ DOMAIN <<>> = {} /\ events' = events \o <<>>
    BY <1>6, NothingMore
  <2> QED BY <1>5, <2>1
<1>7. CASE device # "none" /\ \E y \in EventSet : y.type = "capabilities" /\ Told = <<y>>
  <2>1. PICK y \in EventSet : y.type = "capabilities" /\ Told = <<y>>
    BY <1>7
  <2>2. /\ <<y>> \in Seq(EventSet) /\ events' = events \o <<y>>
        /\ \A k \in DOMAIN <<y>> : <<y>>[k].type = "capabilities"
    BY <1>1, <2>1, AppendIs
  <2> QED BY <1>5, <1>7, <2>2
<1> QED BY <1>2, <1>6, <1>7, ToldIs

(* A pointer that comes, and comes back. *)
LEMMA PlugKeeps == ASSUME StartInv, Plug \/ Replug PROVE StartInv'
<1>1. /\ events' = events \o Told /\ seat' = "late" /\ UNCHANGED <<focus, chosen, intent>>
      /\ UNCHANGED <<clientVars, requests, fixedVars, surfaceVars, device>>
  BY DEF Plug, Replug, Input, Sends, userVars
<1>2. Advertised("seat")
  BY DEF Plug, Replug, StartInv, UserTyped
<1>3. Meant' = Meant
  BY <1>1 DEF Meant, State, clientVars
<1> QED BY <1>1, <1>2, <1>3, ToldKeeps

(* The pointer goes with its seat, from a surface if it was on one. *)
LEMMA UnplugKeeps == ASSUME StartInv, Unplug PROVE StartInv'
<1>1. /\ Typed(client, events, requests) /\ UserTyped /\ events \in Seq(EventSet)
      /\ Advertised("seat")
  BY DEF StartInv, Typed, UserTyped, Unplug, Plugged
<1>2. /\ events' = events \o (Heard(LeaveEvents) \o Told) /\ seat' = "lost" /\ focus' = "none"
      /\ UNCHANGED <<clientVars, requests, fixedVars, surfaceVars, device, chosen, intent>>
  BY DEF Unplug, Input, Sends
<1>3. UNCHANGED <<program, pc, status, client, listening, split, file, advert, prompt,
                  requests, owing, configured, unready, mapped, pool, stack, pending,
                  device>>
  BY <1>2 DEF clientVars, fixedVars, surfaceVars
<1>4. Told \in Seq(EventSet)
  <2>1. \A y \in EventSet : <<y>> \in Seq(EventSet)
    BY <1>1, AppendIs
  <2> QED BY <1>3, <2>1, NothingMore, ToldIs
<1>5. \A q \in Seq(EventSet) : <<>> \o q = q /\ q \o <<>> = q
  <2>1. \A S : \A q \in Seq(S) : <<>> \o q = q /\ q \o <<>> = q
    OBVIOUS
  <2> QED BY <2>1
<1>6. CASE focus = "none" \/ ~listening
  <2>1. Heard(LeaveEvents) = <<>> /\ Meant' = Meant
    BY <1>2, <1>3, <1>6 DEF Heard, LeaveEvents, Meant, State
  <2>2. events' = events \o Told
    BY <1>2, <1>4, <1>5, <2>1
  <2> QED BY <1>1, <1>2, <2>1, <2>2, ToldKeeps
<1>7. CASE focus # "none" /\ listening
  <2>1. PICK x \in EventSet : x = Msg("leave") /\ x.type = "leave"
    BY Msgs
  <2>2. Heard(LeaveEvents) = <<x>> /\ <<x>> \in Seq(EventSet)
    BY <1>1, <1>7, <2>1, AppendIs DEF Heard, LeaveEvents
  <2>3. Click(State(focus, chosen, intent), x) = State(focus', chosen', intent')
    BY <1>2, <2>1 DEF Click, State
  <2>4. UserTyped'
    BY <1>1, <1>2, <1>3 DEF UserTyped, Advertised
  <2>5. ASSUME NEW es \in Seq(EventSet), events' = events \o es,
               \A k \in DOMAIN es : es[k].type # "done",
               Clicks(client, events, requests) => Clicks(client, events, requests)'
        PROVE  StartInv'
    <3>1. focus # "none" /\ (seat' = "always" => seat = "always")
      BY <1>2, <1>7
    <3> QED BY <1>3, <2>4, <2>5, <3>1, AddsKeep
  <2>6. \A k \in DOMAIN <<x>> : <<x>>[k].type # "done"
    BY <2>1
  <2>7. CASE Told = <<>>
    <3>1. events' = events \o <<x>>
      BY <1>2, <1>5, <2>2, <2>7
    <3>2. Clicks(client, events, requests) => Clicks(client, events, requests)'
      BY <1>1, <1>3, <1>7, <2>3, <3>1, OneMore
    <3> QED BY <2>2, <2>5, <2>6, <3>1, <3>2
  <2>8. CASE \E y \in EventSet : y.type = "capabilities" /\ Told = <<y>>
    <3>1. PICK y \in EventSet : y.type = "capabilities" /\ Told = <<y>>
      BY <2>8
    <3>2. <<y>> \in Seq(EventSet) /\ \A k \in DOMAIN <<y>> : <<y>>[k].type # "done"
      BY <1>1, <3>1, AppendIs
    <3>3. events' = (events \o <<x>>) \o <<y>>
      <4>1. \A S : \A f, g, h \in Seq(S) : f \o (g \o h) = (f \o g) \o h
        OBVIOUS
      <4>2. events' = events \o (<<x>> \o <<y>>)
        BY <1>2, <2>2, <3>1
      <4> QED BY <1>1, <2>2, <3>2, <4>1, <4>2
    <3>4. Click(Click(State(focus, chosen, intent), x), y) = State(focus', chosen', intent')
      <4>1. \A u : Click(u, y) = u
        BY <3>1 DEF Click
      <4> QED BY <2>3, <4>1
    <3>5. Clicks(client, events, requests) => Clicks(client, events, requests)'
      BY <1>1, <1>3, <1>7, <3>3, <3>4, TwoMore
    <3>6. ASSUME NEW f \in Seq(EventSet), NEW g \in Seq(EventSet),
                 \A k \in DOMAIN f : f[k].type # "done",
                 \A k \in DOMAIN g : g[k].type # "done"
          PROVE  f \o g \in Seq(EventSet) /\ \A k \in DOMAIN (f \o g) : (f \o g)[k].type # "done"
      BY <3>6, InConcat
    <3>7. /\ <<x>> \o <<y>> \in Seq(EventSet)
          /\ \A k \in DOMAIN (<<x>> \o <<y>>) : (<<x>> \o <<y>>)[k].type # "done"
      BY <2>2, <2>6, <3>2, <3>6
    <3>8. events' = events \o (<<x>> \o <<y>>)
      BY <1>2, <2>2, <3>1
    <3> QED BY <2>5, <3>5, <3>7, <3>8
  <2> QED BY <1>3, <2>7, <2>8, ToldIs
<1> QED BY <1>6, <1>7

(* Every step of the compositor keeps the invariant. *)
LEMMA CompositorKeeps == ASSUME StartInv, Compositor PROVE StartInv'
<1>1. CASE CompositorReads
  BY <1>1, ReadsKeep
<1>2. CASE SendConfigure
  BY <1>2, SendsKeep DEF SendConfigure, Event, userVars, seatVars
<1>3. CASE Ping \/ Close
  <2>1. PICK t \in {"ping", "close"} : events' = events \o <<Msg(t)>>
    BY <1>3 DEF Ping, Close, Input, Sends
  <2>2. /\ mapped
        /\ UNCHANGED <<clientVars, requests, focus, chosen, intent, fixedVars,
                       configured, unready, mapped, pool, stack, pending, seatVars>>
    BY <1>3 DEF Ping, Close, Input, Sends, surfaceVars, seatVars
  <2>3. events' = Append(events, Msg(t))
    BY <2>1, Msgs, AppendIs DEF StartInv, Typed
  <2> QED BY <2>2, <2>3, SendsKeep
<1>4. CASE \E s \in Subsurface \cup {"main"} : Enter(s)
  BY <1>4, EnterKeeps DEF Surfaces
<1>5. CASE Leave
  BY <1>5, LeaveKeeps
<1>6. CASE Press
  BY <1>6, PressKeeps
<1>7. CASE \E button \in {"left", "middle", "right"} : Release(button)
  BY <1>7, ReleaseKeeps
<1>8. CASE Plug \/ Replug
  BY <1>8, PlugKeeps
<1>9. CASE Unplug
  BY <1>9, UnplugKeeps
<1> QED BY <1>1, <1>2, <1>3, <1>4, <1>5, <1>6, <1>7, <1>8, <1>9 DEF Compositor

-------------------------------------------------------------------------------
(* A call of the client that handles no events keeps the invariant, *)
LEMMA GoesOn ==
  ASSUME StartInv, status = "running", NEW q \in Seq(RequestSet), pc # 2,
         Goes(events, requests, q), Asks(client, events, requests, q), Files(q),
         prompt => \/ Acks(requests, Len(requests))
                   \/ \A k \in DOMAIN q : q[k].type # "frame",
         requests' = requests \o q,
         UNCHANGED <<status, events, client, userVars, serverVars>>
  PROVE  StartInv'
<1>1. /\ Typed(client, events, requests) /\ UserTyped /\ Orders(requests)
      /\ Line(client, events, requests)
      /\ client \in Clients /\ events \in Seq(EventSet) /\ requests \in Seq(RequestSet)
  BY DEF StartInv, Typed
<1>2. /\ pc' = pc + 1 /\ UNCHANGED <<program, advert, prompt, split>>
      /\ \A k \in DOMAIN q : q[k].type # "place"
  BY DEF Goes, Asks
<1>3. /\ UNCHANGED <<focus, chosen, intent>>
      /\ UNCHANGED <<owing, configured, unready, mapped, pool, stack, pending,
                    seat, device>>
  BY DEF userVars, serverVars, surfaceVars, seatVars
<1> PICK c \in Clients : c = client
  BY <1>1
<1> PICK e \in Seq(EventSet) : e = events
  BY <1>1
<1> PICK r \in Seq(RequestSet) : r = requests
  BY <1>1
<1>4. Goes(e, r, q) /\ Asks(c, e, r, q) /\ Line(c, e, r) /\ Orders(r)
      /\ (prompt => \/ Acks(r, Len(r))
                    \/ \A k \in DOMAIN q : q[k].type # "frame")
  BY <1>1
<1>5. requests' = r \o q /\ events' = e /\ client' = c
  OBVIOUS
<1>6. r \o q \in Seq(RequestSet)
  BY InConcat
<1>7. Typed(client, events, requests)'
  BY <1>5, <1>6 DEF Typed
<1>8. UserTyped'
  BY <1>1, <1>2, <1>3 DEF UserTyped, Advertised
<1>9. Orders(r \o q)'
  BY <1>1, <1>2, <1>3, <1>4, CallOrders
<1>10. Line(c, e, r \o q)' /\ FirstBatch(e, r \o q)'
  <2>1. pc = 1 => device = "none"
    BY DEF StartInv, FirstBatch
  <2> QED BY <1>1, <1>3, <1>4, <2>1, Calls
<1>11. /\ Orders(requests)' /\ Line(client, events, requests)'
       /\ FirstBatch(events, requests)'
  BY <1>5, <1>9, <1>10
<1> QED BY <1>7, <1>8, <1>11 DEF StartInv

(* and so does one that ends it. *)
LEMMA Ends ==
  ASSUME StartInv, status = "running", status' # "running", Files(<<>>),
         Typed(client, events, requests)', requests' = requests,
         UNCHANGED <<program, advert, prompt, userVars, serverVars>>,
         split' \in BOOLEAN,
         pc' > 5 => /\ \A g \in Wanted(1) : Advertised(g) => g \in client'.bound
                    /\ seat = "always" /\ ~split' => client'.pointer,
         status' = "failed" /\ Composes => ~CanRun \/ ~Advertised("subcompositor")
  PROVE  StartInv'
<1>1. /\ UserTyped /\ Orders(requests) /\ requests \in Seq(RequestSet) /\ pc \in Nat \ {0}
  BY DEF StartInv, Typed, UserTyped
<1>2. /\ UNCHANGED <<focus, chosen, intent>>
      /\ UNCHANGED <<owing, configured, unready, mapped, pool, stack, pending,
                    seat, device>>
  BY DEF userVars, serverVars, surfaceVars, seatVars
<1>3. pc' \in Nat \ {0}
  BY <1>1 DEF Files
<1>4. UserTyped'
  BY <1>1, <1>2, <1>3 DEF UserTyped, Advertised
<1>5. Orders(requests)'
  <2> PICK r \in Seq(RequestSet) : r = requests
    BY <1>1
  <2>1. ASSUME NEW q \in Seq(RequestSet), DOMAIN q = {}, Files(q) PROVE Orders(r \o q)'
    BY <1>1, <1>2, <2>1, CallOrders
  <2>2. Orders(r)'
    BY <2>1, NothingMore
  <2> QED BY <2>2
<1>6. /\ \A g : Advertised(g)' <=> Advertised(g)
      /\ CanRun' <=> CanRun
      /\ Started' <=> pc' > 5
      /\ ~At("listen")'
  <2>1. Len(registry_init) = 5
    BY DEF registry_init
  <2>2. Started' <=> pc' > 5
    BY <2>1 DEF Started
  <2> QED BY <2>2 DEF Advertised, CanRun, At
<1>7. GlobalsSeen'
  BY <1>6 DEF GlobalsSeen, Composes
<1>8. PointerKnown'
  BY <1>2, <1>6 DEF PointerKnown
<1> QED BY <1>4, <1>5, <1>7, <1>8 DEF StartInv

(* A call that handles events: it waits on or goes on. *)
LEMMA BatchKeeps ==
  ASSUME StartInv, status = "running", NEW n \in 1 .. Len(events), Read(n),
         UNCHANGED <<program, listening, file, userVars, serverVars, fixedVars>>,
         \/ pc' = pc /\ pc > 2
         \/ /\ pc' = pc + 1 /\ pc \notin {1, 6, 10} /\ ~Awaits(pc + 1)
            /\ program = "subsurfaces" => pc # 11
            /\ Awaits(pc) => Has(n, "done"),
         IF pc = 2 THEN split' = (split \/ n < Len(advert)) ELSE split' = split
  PROVE  StartInv'
<1>1. /\ Typed(client, events, requests) /\ UserTyped /\ Orders(requests)
      /\ Line(client, events, requests) /\ FirstBatch(events, requests)
      /\ requests \in Seq(RequestSet) /\ events \in Seq(EventSet)
      /\ pc \in Nat \ {0} /\ split \in BOOLEAN
      /\ advert \in Seq(STRING)
  BY DEF StartInv, Typed, UserTyped
<1> PICK c : c = After(n).client
  OBVIOUS
<1> PICK sent : sent = After(n).sent
  OBVIOUS
<1> PICK d : d = SubSeq(events, n + 1, Len(events))
  OBVIOUS
<1> PICK r \in Seq(RequestSet) : r = requests
  BY <1>1
<1>2. /\ Typed(c, d, r \o sent) /\ Line(c, d, r \o sent) /\ Orders(r \o sent)
      /\ sent \in Seq(RequestSet)
      /\ \A k \in DOMAIN sent :
            sent[k].type \notin {"sync", "get_registry", "create_pool"}
      /\ Awaits(pc) /\ Has(n, "done") => Quiet(d, r \o sent)
  BY <1>1, Batch
<1>3. /\ events' = d /\ client' = c
      /\ \/ status' = "closed" /\ requests' = r
         \/ status' = "running" /\ requests' = r \o sent
  BY DEF Read
<1> DEFINE s == r \o sent
<1>4. s \in Seq(RequestSet) /\ d \in Seq(EventSet) /\ c \in Clients
  BY <1>2 DEF Typed
<1>5. /\ UNCHANGED <<focus, chosen, intent>> /\ UNCHANGED <<advert, prompt>>
      /\ UNCHANGED <<owing, configured, unready, mapped, pool, stack, pending,
                    seat, device>>
  BY DEF userVars, serverVars, surfaceVars, seatVars, fixedVars
<1>6. split' \in BOOLEAN
  BY <1>1
<1>7. pc' \in Nat \ {0} /\ pc' \in {pc, pc + 1}
  BY <1>1
<1>8. CASE status' = "closed" /\ requests' = r
  <2>1. Typed(client, events, requests)'
    BY <1>3, <1>4, <1>8 DEF Typed
  <2>2. Files(<<>>)
    BY <1>7, NothingMore DEF Files
  <2>3. pc' > 5 => /\ \A g \in Wanted(1) : Advertised(g) => g \in client'.bound
                   /\ seat = "always" /\ ~split' => client'.pointer
    <3>1. pc' > 5 => pc > 4 /\ split' = split
      BY <1>1, <1>7
    <3> HIDE DEF s
    <3>2. pc > 4 => /\ \A g \in Wanted(1) : Advertised(g) => g \in c.bound
                    /\ seat = "always" /\ ~split => c.pointer
      BY <1>1, <1>2, Seen DEF s
    <3> QED BY <1>3, <3>1, <3>2
  <2> QED BY <1>5, <1>6, <1>8, <2>1, <2>2, <2>3, Ends
<1>9. CASE status' = "running" /\ requests' = s
  <2>1. Typed(client, events, requests)'
    BY <1>3, <1>4, <1>9 DEF Typed
  <2>2. UserTyped'
    BY <1>1, <1>5, <1>6, <1>7 DEF UserTyped, Advertised
  <2>3. Orders(s)'
    <3> HIDE DEF s
    <3>1. ASSUME NEW q \in Seq(RequestSet), DOMAIN q = {} PROVE Orders(s \o q)'
      <4>1. Files(q)
        BY <1>7, <3>1 DEF Files
      <4>2. Orders(s)
        BY <1>2 DEF s
      <4> QED BY <1>1, <1>4, <1>5, <3>1, <4>1, <4>2, CallOrders
    <3> QED BY <1>4, <3>1, NothingMore
  <2>4. Line(c, d, s) /\ Orders(s)
    BY <1>2
  <2>5. CASE pc' = pc /\ pc > 2
    <3>1. Line(c, d, s)'
      <4>1. split' = split
        BY <1>1, <2>5
      <4> HIDE DEF s
      <4> QED BY <1>5, <2>4, <2>5, <4>1, Stays
    <3>2. FirstBatch(d, s)'
      BY <1>1, <2>5 DEF FirstBatch
    <3>3. Line(client, events, requests)' /\ FirstBatch(events, requests)'
          /\ Orders(requests)'
      BY <1>3, <1>9, <2>3, <3>1, <3>2
    <3> QED BY <1>9, <2>1, <2>2, <3>3 DEF StartInv
  <2>6. CASE /\ pc' = pc + 1 /\ pc \notin {1, 6, 10} /\ ~Awaits(pc + 1)
             /\ program = "subsurfaces" => pc # 11
             /\ Awaits(pc) => Has(n, "done")
    <3>1. ASSUME NEW q \in Seq(RequestSet), DOMAIN q = {} PROVE Goes(d, s, q)
      <4>1. Awaits(pc) => Quiet(d, s)
        BY <1>2, <2>6
      <4>2. Syncs(d, s)
        BY <1>2 DEF Line
      <4> HIDE DEF s
      <4> QED BY <1>4, <1>5, <2>6, <3>1, <4>1, <4>2 DEF Goes
    <3>2. ASSUME pc = 2, ~split', Advertised("seat") PROVE "seat" \in c.bound
      <4>1. ~(n < Len(advert))
        BY <3>2
      <4>2. r = <<>> /\ events = [k \in DOMAIN advert |-> Global(advert[k], 1)]
        <5>1. events # <<>>
          BY <1>1
        <5> QED BY <1>1, <3>2, <5>1 DEF FirstBatch
      <4>3. Len(events) = Len(advert)
        BY <1>1, <4>2
      <4>4. d = <<>>
        BY <1>1, <4>1, <4>3
      <4>5. s = sent
        <5>1. \A S : \A q \in Seq(S) : <<>> \o q = q
          OBVIOUS
        <5> QED BY <1>2, <4>2, <5>1
      <4>6. Globals(c, <<>>, sent)
        BY <1>2, <4>4, <4>5 DEF Line
      <4>7. ~Coming(4, Global("seat", 1), GetRegistry(1), <<>>, sent)
        <5>1. ~AheadEvent(Global("seat", 1), <<>>)
          BY NothingMore DEF AheadEvent
        <5>2. ~AheadRequest(GetRegistry(1), <<>>, sent)
          BY <1>2 DEF AheadRequest, GetRegistry
        <5> QED BY <5>1, <5>2 DEF Coming, Ahead
      <4>8. "seat" \in Wanted(1)
        BY DEF Wanted
      <4> QED BY <3>2, <4>6, <4>7, <4>8 DEF Globals
    <3>3. ASSUME NEW q \in Seq(RequestSet), DOMAIN q = {} PROVE Asks(c, d, s, q)
      <4> HIDE DEF s
      <4> QED BY <2>6, <3>2, <3>3 DEF Asks
    <3>4. Line(c, d, s)' /\ FirstBatch(d, s)'
      <4> HIDE DEF s
      <4>1. ASSUME NEW q \in Seq(RequestSet), DOMAIN q = {}
            PROVE  Line(c, d, s \o q)' /\ FirstBatch(d, s \o q)'
        <5>1. Goes(d, s, q) /\ Asks(c, d, s, q)
          BY <3>1, <3>3, <4>1
        <5> QED BY <1>1, <1>5, <2>4, <5>1, Calls
      <4> QED BY <1>4, <4>1, NothingMore
    <3>5. Line(client, events, requests)' /\ FirstBatch(events, requests)'
          /\ Orders(requests)'
      BY <1>3, <1>9, <2>3, <3>4
    <3> QED BY <1>9, <2>1, <2>2, <3>5 DEF StartInv
  <2> QED BY <2>5, <2>6
<1> QED BY <1>3, <1>8, <1>9

-------------------------------------------------------------------------------
(* The calls that send requests, or only look. *)
LEMMA SendingKeeps ==
  ASSUME StartInv, NEW call, NEW q \in Seq(RequestSet), Call(call, q),
         UNCHANGED <<status, fixedVars>>,
         \/ call = "get_registry" /\ q = <<GetRegistry(1)>>
         \/ call = "get_subcompositor" /\ q = <<GetRegistry(2)>>
         \/ call = "sync" /\ q = <<Msg("sync")>>
         \/ call = "toplevel_init" /\ q = <<Msg("commit")>>
         \/ call = "create_pool" /\ q = <<Msg("create_pool")>>
         \/ call \in {"draw", "attach"} /\ q = <<Msg("frame")>>
         \/ call \in {"check", "check_subcompositor", "check_devices", "listen",
                      "shrink"} /\ q = <<>>,
         IF call = "listen" THEN listening' = client.pointer ELSE listening' = listening,
         IF call = "create_pool" THEN file' = "whole"
         ELSE IF call = "shrink" THEN file' = "short" ELSE file' = file
  PROVE  StartInv'
<1>1. /\ UserTyped /\ Typed(client, events, requests) /\ Orders(requests)
      /\ events \in Seq(EventSet) /\ requests \in Seq(RequestSet)
      /\ pc \in Nat \ {0}
  BY DEF StartInv, Typed, UserTyped
<1>2. /\ At(call) /\ pc' = pc + 1 /\ requests' = requests \o q
      /\ UNCHANGED <<events, client, split, program, userVars, serverVars, fixedVars>>
  BY DEF Call, Go, Elsewhere
<1>3. Table(call) /\ status = "running"
  BY <1>1, <1>2, ScriptTable
<1>4. Line(client, events, requests) /\ FirstBatch(events, requests)
  BY <1>3 DEF StartInv
<1>5. \A k \in DOMAIN q :
        \/ call = "get_registry" /\ q[k].type = "get_registry"
        \/ call = "get_subcompositor" /\ q[k].type = "get_registry"
        \/ call = "sync" /\ q[k].type = "sync"
        \/ call = "toplevel_init" /\ q[k].type = "commit"
        \/ call = "create_pool" /\ q[k].type = "create_pool"
        \/ call \in {"draw", "attach"} /\ q[k].type = "frame"
  BY DEF GetRegistry, Msg
<1>6. pc # 2
  BY <1>3 DEF Table
<1>7. Goes(events, requests, q)
  <2>1. Syncs(events, requests)
    BY <1>4 DEF Line
  <2>2. ~Awaits(pc)
    BY <1>3 DEF Table, Awaits
  <2>3. Awaits(pc + 1) => call = "sync"
    BY <1>1, <1>3 DEF Table, Awaits
  <2>4. call = "sync" => Awaits(pc + 1)
    BY <1>1, <1>3 DEF Table, Awaits
  <2>5. IF Awaits(pc + 1) THEN q = <<Msg("sync")>>
        ELSE \A k \in DOMAIN q : q[k].type # "sync"
    <3>1. call = "sync" => q = <<Msg("sync")>>
      OBVIOUS
    <3> QED BY <1>5, <2>3, <2>4, <3>1
  <2> QED BY <1>1, <1>2, <2>1, <2>2, <2>5 DEF Goes, fixedVars
<1>8. Asks(client, events, requests, q)
  <2>1. pc = 1 => events = <<>> /\ requests = <<>> /\ q = <<GetRegistry(1)>>
    <3>1. pc = 1 => call = "get_registry"
      BY <1>3 DEF Table
    <3> QED BY <1>4, <3>1 DEF FirstBatch
  <2>2. pc = 6 /\ Composes => \E k \in DOMAIN q : q[k] = GetRegistry(2)
    <3>1. pc = 6 /\ Composes => call = "get_subcompositor"
      BY <1>3 DEF Table, Composes
    <3>2. call = "get_subcompositor" => q = <<GetRegistry(2)>>
      OBVIOUS
    <3>3. q = <<GetRegistry(2)>> => 1 \in DOMAIN q /\ q[1] = GetRegistry(2)
      OBVIOUS
    <3> QED BY <3>1, <3>2, <3>3
  <2>3. pc = 6 /\ program = "sigbus" => \E k \in DOMAIN q : q[k] = Msg("create_pool")
    <3>1. pc = 6 /\ program = "sigbus" => call = "create_pool"
      BY <1>3 DEF Table
    <3>2. call = "create_pool" => q = <<Msg("create_pool")>>
      OBVIOUS
    <3>3. q = <<Msg("create_pool")>> => 1 \in DOMAIN q /\ q[1] = Msg("create_pool")
      OBVIOUS
    <3> QED BY <3>1, <3>2, <3>3
  <2>4. pc = 10 /\ program \in Plain => \E k \in DOMAIN q : q[k] = Msg("commit")
    <3>1. pc = 10 /\ program \in Plain => call = "toplevel_init"
      BY <1>3 DEF Table, Plain
    <3>2. call = "toplevel_init" => q = <<Msg("commit")>>
      OBVIOUS
    <3>3. q = <<Msg("commit")>> => 1 \in DOMAIN q /\ q[1] = Msg("commit")
      OBVIOUS
    <3> QED BY <3>1, <3>2, <3>3
  <2>5. program = "subsurfaces" =>
          listening' = IF pc = 11 THEN client.pointer ELSE listening
    <3>1. program = "subsurfaces" => (call = "listen" <=> pc = 11)
      BY <1>3 DEF Table
    <3> QED BY <3>1
  <2>6. \A k \in DOMAIN q : q[k].type # "place"
    BY <1>5
  <2>7. Early' => \A k \in DOMAIN q :
                    q[k].type \in {"get_registry", "bind", "sync", "get_pointer"}
    <3>1. program' = program /\ pc' = pc + 1
      BY <1>2
    <3>2. Early' => call \notin {"toplevel_init", "create_pool", "draw", "attach"}
      BY <1>1, <1>3, <3>1 DEF Early, Table
    <3> QED BY <1>5, <3>2
  <2> QED BY <1>2, <1>6, <2>1, <2>2, <2>3, <2>4, <2>5, <2>6, <2>7 DEF Asks
<1>9. Files(q)
  <2>1. CASE call = "create_pool"
    <3>1. pc = 6
      BY <1>3, <2>1 DEF Table
    <3> QED BY <1>2, <2>1, <3>1 DEF Files
  <2>2. CASE call = "shrink"
    <3>1. pc = 9 /\ program = "sigbus"
      BY <1>3, <2>2 DEF Table
    <3>2. pool = "whole"
      BY <1>4, <3>1 DEF Line, FileMapped
    <3> QED BY <1>2, <2>2, <3>1, <3>2 DEF Files
  <2>3. CASE call \notin {"create_pool", "shrink"}
    <3>1. \A k \in DOMAIN q : q[k].type # "create_pool"
      BY <1>5, <2>3
    <3> QED BY <1>2, <2>3, <3>1 DEF Files
  <2> QED BY <2>1, <2>2, <2>3
<1>10. prompt => \/ Acks(requests, Len(requests))
                 \/ \A k \in DOMAIN q : q[k].type # "frame"
  <2>1. CASE call \in {"draw", "attach"} /\ prompt
    <3>1. pc = 13 /\ program \in {"gamma-blend", "sigbus"}
      BY <1>3, <2>1 DEF Table
    <3>2. \/ Acks(requests, Len(requests))
          \/ Coming(12, Msg("configure"), Msg("commit"), events, requests)
      BY <1>4, <2>1, <3>1 DEF Line, Configures
    <3>3. ~Coming(12, Msg("configure"), Msg("commit"), events, requests)
      BY <3>1 DEF Coming
    <3> QED BY <3>2, <3>3
  <2>2. CASE call \notin {"draw", "attach"}
    BY <1>5, <2>2
  <2> QED BY <2>1, <2>2
<1> QED BY <1>2, <1>3, <1>6, <1>7, <1>8, <1>9, <1>10, GoesOn

(* The calls that end the program. *)
LEMMA EndingKeeps ==
  ASSUME StartInv, NEW call, Call(call, <<>>),
         UNCHANGED <<listening, file>>,
         \/ status' = "crashed"
         \/ status' = "failed" /\ call \in {"create_pool", "shrink"}
         \/ status' = "failed" /\ call = "check" /\ ~(Required \subseteq client.bound)
         \/ /\ status' = "failed" /\ call = "check_subcompositor"
            /\ "subcompositor" \notin client.bound
         \/ status' = "failed" /\ call = "check_devices"
  PROVE  StartInv'
<1>1. /\ UserTyped /\ Typed(client, events, requests)
      /\ events \in Seq(EventSet) /\ requests \in Seq(RequestSet)
      /\ pc \in Nat \ {0} /\ split \in BOOLEAN
  BY DEF StartInv, Typed, UserTyped
<1>2. /\ At(call) /\ pc' = pc + 1 /\ requests' = requests \o <<>>
      /\ UNCHANGED <<events, client, split, program, userVars, serverVars, fixedVars>>
  BY DEF Call, Go, Elsewhere
<1>3. requests' = requests
  BY <1>1, <1>2, NothingMore
<1>4. Table(call) /\ status = "running"
  BY <1>1, <1>2, ScriptTable
<1>5. Line(client, events, requests)
  BY <1>4 DEF StartInv
<1>6. pc > 4 => /\ \A g \in Wanted(1) : Advertised(g) => g \in client.bound
                /\ Composes /\ pc > Second /\ Advertised("subcompositor") =>
                     "subcompositor" \in client.bound
                /\ seat = "always" /\ ~split => client.pointer
  BY <1>1, <1>5, Seen
<1>7. pc' > 5 => /\ \A g \in Wanted(1) : Advertised(g) => g \in client'.bound
                 /\ seat = "always" /\ ~split' => client'.pointer
  BY <1>1, <1>2, <1>6
<1>8. status' = "failed" /\ Composes => ~CanRun \/ ~Advertised("subcompositor")
  <2> SUFFICES ASSUME status' = "failed", Composes
               PROVE  ~CanRun \/ ~Advertised("subcompositor")
    OBVIOUS
  <2>1. CASE call = "check" /\ ~(Required \subseteq client.bound)
    <3>1. pc = 5
      BY <1>4, <2>1 DEF Table
    <3>2. Required \subseteq Wanted(1)
      BY DEF Required, Wanted
    <3>3. \A g \in Required : Advertised(g) => g \in client.bound
      BY <1>6, <3>1, <3>2
    <3> QED BY <2>1, <3>3 DEF CanRun
  <2>2. CASE call = "check_subcompositor" /\ "subcompositor" \notin client.bound
    <3>1. pc > Second /\ pc > 4
      BY <1>4, <2>2 DEF Table, Second
    <3> QED BY <1>6, <2>2, <3>1
  <2>3. CASE call \in {"create_pool", "shrink", "check_devices"}
    BY <1>4, <2>3 DEF Table, Composes
  <2> QED BY <2>1, <2>2, <2>3
<1>9. Files(<<>>)
  BY <1>2, NothingMore DEF Files
<1>10. Typed(client, events, requests)'
  BY <1>1, <1>2, <1>3 DEF Typed
<1>11. status' # "running" /\ UNCHANGED <<advert, prompt>> /\ split' \in BOOLEAN
  BY <1>1, <1>2 DEF fixedVars
<1> QED BY <1>2, <1>3, <1>4, <1>7, <1>8, <1>9, <1>10, <1>11, Ends

(* Every step of the client keeps the invariant. *)
LEMMA ClientKeeps == ASSUME StartInv, Client PROVE StartInv'
<1>1. /\ UserTyped /\ Typed(client, events, requests) /\ pc \in Nat \ {0}
      /\ events \in Seq(EventSet) /\ requests \in Seq(RequestSet)
  BY DEF StartInv, Typed, UserTyped
<1>2. \A x \in RequestSet : <<x>> \in Seq(RequestSet)
  <2>1. \A S : \A x \in S : <<x>> \in Seq(S)
    OBVIOUS
  <2> QED BY <2>1
<1>3. CASE get_registry
  <2>1. PICK n \in {1, 2} :
          /\ Call(<<"get_registry", "get_subcompositor">>[n], <<GetRegistry(n)>>)
          /\ UNCHANGED <<status, listening, file>>
    BY <1>3 DEF get_registry, GetRegistry
  <2>2. <<GetRegistry(n)>> \in Seq(RequestSet)
    BY <1>2 DEF GetRegistry, RequestSet
  <2>3. UNCHANGED fixedVars
    BY <2>1 DEF Call, Elsewhere
  <2>4. CASE n = 1
    <3>1. Call("get_registry", <<GetRegistry(1)>>)
      BY <2>1, <2>4
    <3> QED BY <2>1, <2>2, <2>3, <2>4, <3>1, SendingKeeps
  <2>5. CASE n = 2
    <3>1. Call("get_subcompositor", <<GetRegistry(2)>>)
      BY <2>1, <2>5
    <3> QED BY <2>1, <2>2, <2>3, <2>5, <3>1, SendingKeeps
  <2> QED BY <2>4, <2>5
<1>4. CASE wl_display_dispatch
  <2>1. PICK n \in 1 .. Len(events) :
          /\ At("dispatch") /\ pc' = pc + 1 /\ Read(n)
          /\ split' = (split \/ (pc <= Len(registry_init) /\ n < Len(advert)))
          /\ UNCHANGED <<program, userVars, serverVars, fixedVars, listening, file>>
    BY <1>4 DEF wl_display_dispatch, Go, Elsewhere
  <2>2. Table("dispatch") /\ status = "running"
    BY <1>1, <2>1, ScriptTable
  <2>3. pc = 2 \/ (pc = 7 /\ program = "subsurfaces")
    BY <2>2 DEF Table
  <2>4. Len(registry_init) = 5
    BY DEF registry_init
  <2>5. IF pc = 2 THEN split' = (split \/ n < Len(advert)) ELSE split' = split
    <3>1. split \in BOOLEAN
      BY <1>1 DEF UserTyped
    <3> QED BY <2>1, <2>3, <2>4, <3>1
  <2>6. pc \notin {1, 6, 10} /\ ~Awaits(pc + 1) /\ ~Awaits(pc) /\ pc # 11
    BY <2>3 DEF Awaits
  <2> QED BY <2>1, <2>2, <2>5, <2>6, BatchKeeps
<1>5. CASE wl_display_sync
  <2>1. /\ Call("sync", <<Msg("sync")>>) /\ UNCHANGED <<status, listening, file>>
        /\ UNCHANGED fixedVars
    BY <1>5 DEF wl_display_sync, Call, Elsewhere
  <2>2. <<Msg("sync")>> \in Seq(RequestSet)
    BY <1>2, Msgs
  <2> QED BY <2>1, <2>2, SendingKeeps
<1>6. CASE wl_display_roundtrip
  <2>1. PICK n \in 1 .. Len(events) :
          /\ At("await") /\ Read(n)
          /\ IF Has(n, "done") THEN pc' = pc + 1 ELSE pc' = pc
          /\ UNCHANGED <<program, userVars, serverVars, fixedVars, listening, split, file>>
    BY <1>6 DEF wl_display_roundtrip, Go, Elsewhere
  <2>2. Table("await") /\ status = "running"
    BY <1>1, <2>1, ScriptTable
  <2>3. /\ pc > 2 /\ pc \notin {1, 2, 6, 10} /\ ~Awaits(pc + 1) /\ pc # 11
    BY <1>1, <2>2 DEF Table, Awaits
  <2> QED BY <2>1, <2>2, <2>3, BatchKeeps
<1>7. CASE main_loop
  <2>1. PICK n \in 1 .. Len(events) :
          /\ At("loop") /\ Read(n) /\ pc' = pc
          /\ UNCHANGED <<program, userVars, serverVars, fixedVars, listening, split, file>>
    BY <1>7 DEF main_loop, Elsewhere
  <2>2. Table("loop") /\ status = "running"
    BY <1>1, <2>1, ScriptTable
  <2>3. pc > 2
    BY <1>1, <2>2 DEF Table
  <2> QED BY <2>1, <2>2, <2>3, BatchKeeps
<1>8. CASE check
  <2>1. PICK name \in {"check", "check_subcompositor", "check_devices"} :
          /\ Call(name, <<>>)
          /\ status' = IF CASE name = "check" -> Required \subseteq client.bound
                            [] name = "check_subcompositor" ->
                                 "subcompositor" \in client.bound
                            [] name = "check_devices" ->
                                 client.pointer /\ "data_device_manager" \in client.bound
                       THEN status ELSE "failed"
          /\ UNCHANGED <<listening, file>>
    BY <1>8 DEF check
  <2>2. UNCHANGED fixedVars
    BY <2>1 DEF Call, Elsewhere
  <2>3. CASE status' = status
    BY <2>1, <2>2, <2>3, NothingMore, SendingKeeps
  <2>4. CASE status' # status
    <3>1. /\ status' = "failed"
          /\ \/ name = "check" /\ ~(Required \subseteq client.bound)
             \/ name = "check_subcompositor" /\ "subcompositor" \notin client.bound
             \/ name = "check_devices"
      BY <2>1, <2>4
    <3> QED BY <2>1, <3>1, EndingKeeps
  <2> QED BY <2>3, <2>4
<1>9. CASE listen
  <2>1. /\ Call("listen", <<>>) /\ listening' = client.pointer
        /\ UNCHANGED <<status, file>> /\ UNCHANGED fixedVars
    BY <1>9 DEF listen, Call, Elsewhere
  <2> QED BY <2>1, NothingMore, SendingKeeps
<1>10. CASE toplevel_init
  <2>1. /\ Call("toplevel_init", <<Msg("commit")>>)
        /\ UNCHANGED <<status, listening, file>> /\ UNCHANGED fixedVars
    BY <1>10 DEF toplevel_init, Call, Elsewhere
  <2>2. <<Msg("commit")>> \in Seq(RequestSet)
    BY <1>2, Msgs
  <2> QED BY <2>1, <2>2, SendingKeeps
<1>11. CASE create_pool
  <2>1. CASE /\ Call("create_pool", <<Msg("create_pool")>>) /\ file' = "whole"
             /\ UNCHANGED <<status, listening>>
    <3>1. <<Msg("create_pool")>> \in Seq(RequestSet)
      BY <1>2, Msgs
    <3>2. UNCHANGED fixedVars
      BY <2>1 DEF Call, Elsewhere
    <3> QED BY <2>1, <3>1, <3>2, SendingKeeps
  <2>2. CASE /\ Call("create_pool", <<>>) /\ status' = "failed"
             /\ UNCHANGED <<listening, file>>
    BY <2>2, EndingKeeps
  <2> QED BY <1>11, <2>1, <2>2 DEF create_pool
<1>12. CASE shrink
  <2>1. Call("shrink", <<>>) /\ UNCHANGED listening /\ UNCHANGED fixedVars
    BY <1>12 DEF shrink, Call, Elsewhere
  <2>2. CASE file' = "short" /\ UNCHANGED status
    BY <2>1, <2>2, NothingMore, SendingKeeps
  <2>3. CASE status' = "failed" /\ UNCHANGED file
    BY <2>1, <2>3, EndingKeeps
  <2> QED BY <1>12, <2>2, <2>3 DEF shrink
<1>13. CASE draw
  <2>1. CASE /\ Call("draw", <<Msg("frame")>>) /\ UNCHANGED <<status, listening, file>>
    <3>1. <<Msg("frame")>> \in Seq(RequestSet)
      BY <1>2, Msgs
    <3>2. UNCHANGED fixedVars
      BY <2>1 DEF Call, Elsewhere
    <3> QED BY <2>1, <3>1, <3>2, SendingKeeps
  <2>2. CASE /\ Call("draw", <<>>) /\ status' = "crashed" /\ UNCHANGED <<listening, file>>
    BY <2>2, EndingKeeps
  <2> QED BY <1>13, <2>1, <2>2 DEF draw
<1>14. CASE attach
  <2>1. /\ Call("attach", <<Msg("frame")>>)
        /\ UNCHANGED <<status, listening, file>> /\ UNCHANGED fixedVars
    BY <1>14 DEF attach, Call, Elsewhere
  <2>2. <<Msg("frame")>> \in Seq(RequestSet)
    BY <1>2, Msgs
  <2> QED BY <2>1, <2>2, SendingKeeps
<1> QED BY <1>3, <1>4, <1>5, <1>6, <1>7, <1>8, <1>9, <1>10, <1>11, <1>12, <1>13, <1>14
        DEF Client

-------------------------------------------------------------------------------
(* At first nothing is on its way. *)
LEMMA StartInit == Init => StartInv
<1> SUFFICES ASSUME Init PROVE StartInv
  OBVIOUS
<1>1. /\ program \in AllPrograms /\ pc = 1 /\ status = "running"
      /\ client = [bound |-> {}, pointer |-> FALSE, current |-> "none",
                   selected |-> "none"]
      /\ listening = FALSE /\ split = FALSE /\ file = "none"
      /\ requests = <<>> /\ events = <<>>
      /\ advert \in Seq(STRING) \ {<<>>} /\ prompt \in BOOLEAN
      /\ owing = FALSE /\ configured = FALSE /\ unready = FALSE /\ mapped = FALSE
      /\ pool = "none" /\ stack = FirstStack /\ pending = FirstStack
      /\ focus = "none" /\ chosen = "none" /\ intent = FirstStack
      /\ device = "none"
  BY StartupAssumption DEF Init
<1>2. DOMAIN events = {} /\ DOMAIN requests = {}
      /\ events \in Seq(EventSet) /\ requests \in Seq(RequestSet)
      /\ Len(events) = 0 /\ Len(requests) = 0
  BY <1>1, NothingMore
<1>3. Typed(client, events, requests)
  <2>1. client \in Clients
    BY <1>1 DEF Clients
  <2> QED BY <1>2, <2>1 DEF Typed
<1>4. UserTyped
  <2>1. prompt \in BOOLEAN /\ pc \in Nat \ {0}
    BY <1>1
  <2>4. split \in BOOLEAN
    <3>1. split = FALSE
      BY DEF Init
    <3> QED BY <3>1, Zenon
  <2>2. focus \in Surfaces \cup {"none"} /\ chosen \in Subsurface \cup {"none"}
    BY <1>1
  <2>3. program \in AllPrograms /\ advert \in Seq(STRING) \ {<<>>} /\ device = "none"
    BY <1>1
  <2>5. /\ seat \in {"always", "not", "late", "lost"}
        /\ seat # "not" => Advertised("seat")
    BY DEF Init
  <2> QED BY <1>1, <2>1, <2>2, <2>3, <2>4, <2>5 DEF UserTyped
<1>5. Orders(requests)
  BY <1>1, <1>2 DEF Orders, PoolOrder, FrameOrder, CommitOrder
<1>6. Clicks(client, events, requests)
  <2> DEFINE w == [k \in {0} |-> pending]
             v == [k \in {0} |-> Meant]
  <2>1. \A k \in 1 .. Len(requests) : w[k] = Reorder(w[k - 1], requests[k])
    BY <1>2
  <2>2. \A k \in 1 .. Len(events) : v[k] = Click(v[k - 1], events[k])
    BY <1>2
  <2>3. w[0] = pending /\ v[0] = Meant
    OBVIOUS
  <2>4. State(client.current, client.selected, pending) = Meant
    BY <1>1 DEF Meant, State
  <2> HIDE DEF w, v
  <2>5. /\ Reorders(w, pending, requests)
        /\ Follows(v, State(client.current, client.selected, w[Len(requests)]), events)
        /\ v[Len(events)] = Meant
    BY <1>2, <2>1, <2>2, <2>3, <2>4 DEF Reorders, Follows
  <2> QED BY <2>5 DEF Clicks
<1>7. Line(client, events, requests)
  <2>1. Syncs(events, requests)
    BY <1>1, <1>2 DEF Syncs, Awaits, Quiet
  <2>2. Globals(client, events, requests)
    BY <1>1 DEF Globals
  <2>3. Pointer(client, events, requests)
    BY <1>1 DEF Pointer
  <2>4. FileMapped(events, requests) /\ Configures(events, requests)
    BY <1>1 DEF FileMapped, Configures
  <2>5. Beginning(events, requests)
    BY <1>1, <1>2 DEF Beginning
  <2> QED BY <1>6, <2>1, <2>2, <2>3, <2>4, <2>5 DEF Line
<1>8. FirstBatch(events, requests)
  BY <1>1 DEF FirstBatch
<1> QED BY <1>1, <1>3, <1>4, <1>5, <1>7, <1>8 DEF StartInv

(* Nothing happens in a step that changes nothing. *)
LEMMA StartStutters == ASSUME StartInv, UNCHANGED vars PROVE StartInv'
<1>1. /\ UNCHANGED <<program, pc, status, client, listening, split, file, requests, events>>
      /\ UNCHANGED <<focus, chosen, intent, advert, prompt, seat, device>>
      /\ UNCHANGED <<owing, configured, unready, mapped, pool, stack, pending>>
      /\ UNCHANGED <<clientVars, fixedVars>>
  BY DEF vars, clientVars, userVars, serverVars, surfaceVars, seatVars, fixedVars
<1>2. Typed(client, events, requests)' /\ UserTyped'
  BY <1>1 DEF StartInv, Typed, UserTyped, Advertised
<1>3. Orders(requests)'
  BY <1>1 DEF StartInv, Orders, PoolOrder, FrameOrder, CommitOrder, Acks
<1>4. CASE status = "running"
  <2> PICK c, e, r : c = client /\ e = events /\ r = requests
    OBVIOUS
  <2>1. Line(c, e, r) /\ FirstBatch(e, r)
    BY <1>4 DEF StartInv
  <2>2. Line(c, e, r)'
    BY <1>1, <2>1, Stays
  <2>3. FirstBatch(e, r)'
    BY <1>1, <2>1 DEF FirstBatch
  <2>4. c = client' /\ e = events' /\ r = requests'
    BY <1>1
  <2> QED BY <1>1, <1>2, <1>3, <1>4, <2>2, <2>3, <2>4 DEF StartInv
<1>5. CASE status # "running"
  BY <1>1, <1>2, <1>3, <1>5, Unmoved DEF StartInv
<1> QED BY <1>4, <1>5

(* What is on its way between a program that starts and its compositor always
   leads to what the program waits for: Line. *)
THEOREM StartInvariant == Spec => []StartInv
<1>1. Init => StartInv
  BY StartInit
<1>2. StartInv /\ [Next]_vars => StartInv'
  BY ClientKeeps, CompositorKeeps, StartStutters DEF Next
<1> QED BY <1>1, <1>2, PTL DEF Spec

(* registry_init and the second roundtrip see every global there is, however
   the events fall into batches. *)
THEOREM GlobalsAreSeen == Spec => []GlobalsSeen
<1>1. StartInv => GlobalsSeen
  <2> SUFFICES ASSUME StartInv PROVE GlobalsSeen
    OBVIOUS
  <2>1. CASE status = "running"
    <3>1. Line(client, events, requests) /\ UserTyped /\ pc \in Nat
      BY <2>1 DEF StartInv, UserTyped
    <3>2. Len(registry_init) = 5
      BY DEF registry_init
    <3>3. Started => pc > 4
      BY <3>1, <3>2 DEF Started
    <3>4. pc > 4 => \A g \in Wanted(1) : Advertised(g) => g \in client.bound
      BY <3>1, Seen
    <3> QED BY <2>1, <3>3, <3>4 DEF GlobalsSeen
  <2>2. CASE status # "running"
    BY <2>2 DEF StartInv
  <2> QED BY <2>1, <2>2
<1> QED BY <1>1, StartInvariant, PTL

(* The pointer of a seat that has had one all along is known when registry_init
   returns, if the first batch had all globals, and after a second roundtrip in
   any case. *)
THEOREM PointerIsKnown == Spec => []PointerKnown
<1>1. StartInv => PointerKnown
  <2> SUFFICES ASSUME StartInv PROVE PointerKnown
    OBVIOUS
  <2>1. CASE status = "running"
    <3>1. Line(client, events, requests) /\ UserTyped /\ pc \in Nat
      BY <2>1 DEF StartInv, UserTyped
    <3>2. Len(registry_init) = 5
      BY DEF registry_init
    <3>3. Started => pc > 4
      BY <3>1, <3>2 DEF Started
    <3>4. At("listen") /\ program = "subsurfaces" => pc = 11
      <4>1. At("listen") => Table("listen")
        BY <3>1, ScriptTable
      <4> QED BY <4>1 DEF Table
    <3>5. pc > 4 => /\ seat = "always" /\ ~split => client.pointer
                    /\ seat = "always" /\ program = "subsurfaces" /\ pc > 9 =>
                         client.pointer
      BY <3>1, Seen
    <3> QED BY <3>3, <3>4, <3>5 DEF PointerKnown
  <2>2. CASE status # "running"
    BY <2>2 DEF StartInv
  <2> QED BY <2>1, <2>2
<1> QED BY <1>1, StartInvariant, PTL

(* sigbus's pool is made of the whole file, and the first frame of a program
   that waits for the configure event comes after its acknowledgement. *)
THEOREM RoundtripsAreAwaited == Spec => []RoundtripsAwaited
<1>1. StartInv => RoundtripsAwaited
  BY DEF StartInv, Orders, PoolOrder, FrameOrder, RoundtripsAwaited
<1> QED BY <1>1, StartInvariant, PTL

(* When everything has been read and handled, the subsurfaces are stacked as
   the clicks would have them, or as at first if nobody listens. *)
THEOREM StackIsClicked == Spec => []StackFollowsClicks
<1>1. StartInv => StackFollowsClicks
  <2> SUFFICES ASSUME StartInv, requests = <<>>, events = <<>>, status = "running"
               PROVE  stack = IF listening THEN intent ELSE FirstStack
    BY DEF StackFollowsClicks
  <2>1. Len(events) = 0 /\ Len(requests) = 0 /\ DOMAIN requests = {}
    BY NothingMore
  <2>2. PICK w, v : /\ Reorders(w, pending, requests)
                    /\ Follows(v, State(client.current, client.selected,
                                        w[Len(requests)]), events)
                    /\ v[Len(events)] = Meant
    BY DEF StartInv, Line, Clicks
  <2>3. w[0] = pending
    BY <2>2 DEF Reorders
  <2>4. State(client.current, client.selected, w[0]) = Meant
    BY <2>1, <2>2 DEF Follows
  <2>5. w[0] = IF listening THEN intent ELSE FirstStack
    <3>1. \A a, b, d : State(a, b, d).order = d
      BY DEF State
    <3>2. Meant.order = IF listening THEN intent ELSE FirstStack
      BY <3>1 DEF Meant
    <3> QED BY <2>4, <3>1, <3>2
  <2>6. stack = pending
    BY <2>1 DEF StartInv, Orders, CommitOrder
  <2> QED BY <2>3, <2>5, <2>6
<1> QED BY <1>1, StartInvariant, PTL
==============================================================================
