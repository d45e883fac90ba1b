--------------------------- MODULE PoolBufferProofs ---------------------------
(***************************************************************************)
(* The invariants of PoolBuffer, for any number of descriptors, mappings   *)
(* and protocol objects and any set of sizes.                              *)
(*                                                                         *)
(* SlotsSound is the inductive invariant.  The argument follows the calls: *)
(* each function of pool-buffer.c takes a view that is Good with respect   *)
(* to the other slot to views that are Good again.                         *)
(***************************************************************************)
EXTENDS PoolBuffer, TLAPS

(* The byte size of a buffer is a number. *)
LEMMA BytesInt == \A w, h \in Int : Bytes(w, h) \in Int
BY DEF Bytes, Stride

(* An area with two positive sides has bytes. *)
LEMMA BytesPositive ==
  ASSUME NEW w \in Int, NEW h \in Int, w > 0, h > 0
  PROVE  Bytes(w, h) > 0
<1> DEFINE n == 4 * w
<1>1. n \in Int /\ n > 0
  OBVIOUS
<1> HIDE DEF n
<1>2. n * h > 0
  BY <1>1
<1> QED BY <1>2 DEF Bytes, Stride, n

(* What create_buffer takes for a size that is not zero is a positive one. *)
LEMMA UnsignedPositive ==
  ASSUME NEW n \in Int, n # 0, n > -Word
  PROVE  Unsigned(n) \in Nat /\ Unsigned(n) > 0
BY PoolBufferAssumption DEF Unsigned

(* What mmap and mkstemp return was not in use. *)
LEMMA FreshUnused ==
  ASSUME NEW f, NEW x \in Fresh(f)
  PROVE  x \in DOMAIN f /\ f[x] = 0
BY DEF Fresh, Unused

(* Releasing one resource leaves every other as it was. *)
LEMMA DropValue ==
  ASSUME NEW S, NEW f \in [S -> Nat], NEW x
  PROVE  /\ Drop(f, x) \in [S -> Nat]
         /\ \A y \in S : Drop(f, x)[y] = (IF y = x THEN 0 ELSE f[y])
BY DEF Drop

(* What a slot and the objects of both must satisfy for finish_buffer: less
   than Good, since resize_buffer calls it with the mapping already gone. *)
Finishable(p, other) ==
  /\ p \in Views
  /\ SlotOK(other, p)
  /\ Apart(p.slot, other)
  /\ Owned(p.slot, other, p)
  /\ p.stdin => p.file[Stdin] > 0
  /\ p.slot.data \in {NULL, p.slot.surface}

(* finish_buffer leaves an empty slot and does not touch the other one's
   resources. *)
LEMMA FinishGood ==
  ASSUME NEW p, NEW other \in SlotType, Finishable(p, other)
  PROVE  /\ Good(finish_buffer(p), other)
         /\ finish_buffer(p).slot = ZeroSlot
<1> DEFINE q == finish_buffer(p)
<1>1. /\ p \in Views
      /\ p.slot \in SlotType
      /\ p.file \in [Fds \cup {Stdin} -> Nat]
      /\ p.map \in [Maps -> Nat]
      /\ p.shm \in [Pools -> Nat]
      /\ p.buf \in [Buffers -> Nat]
      /\ p.stdin \in BOOLEAN
  BY DEF Finishable, Views
<1>2. /\ q.slot = ZeroSlot
      /\ q.file = Drop(p.file, p.slot.poolfd)
      /\ q.map = Drop(p.map, p.slot.data)
      /\ q.shm = Drop(p.shm, p.slot.pool)
      /\ q.buf = Drop(p.buf, p.slot.buffer)
      /\ q.stdin = (p.stdin /\ p.slot.poolfd # Stdin)
  BY DEF finish_buffer
<1>3. /\ q.file \in [Fds \cup {Stdin} -> Nat]
      /\ \A y \in Fds \cup {Stdin} :
           q.file[y] = IF y = p.slot.poolfd THEN 0 ELSE p.file[y]
  BY <1>1, <1>2, DropValue
<1>4. /\ q.map \in [Maps -> Nat]
      /\ \A y \in Maps : q.map[y] = IF y = p.slot.data THEN 0 ELSE p.map[y]
  BY <1>1, <1>2, DropValue
<1>5. /\ q.shm \in [Pools -> Nat]
      /\ \A y \in Pools : q.shm[y] = IF y = p.slot.pool THEN 0 ELSE p.shm[y]
  BY <1>1, <1>2, DropValue
<1>6. /\ q.buf \in [Buffers -> Nat]
      /\ \A y \in Buffers : q.buf[y] = IF y = p.slot.buffer THEN 0 ELSE p.buf[y]
  BY <1>1, <1>2, DropValue
<1>7. ZeroSlot \in SlotType
  BY DEF ZeroSlot, SlotType
<1>8. q \in Views
  BY <1>1, <1>2, <1>3, <1>4, <1>5, <1>6, <1>7 DEF finish_buffer, Views
<1>9. SlotOK(ZeroSlot, q)
  BY PoolBufferAssumption DEF SlotOK, ZeroSlot, Bytes, Stride
<1>10. SlotOK(other, q)
  <2>1. SlotOK(other, p) /\ Apart(p.slot, other)
    BY DEF Finishable
  <2>2. other.poolfd \in Fds => q.file[other.poolfd] = p.file[other.poolfd]
    BY <2>1, <1>3 DEF Finishable, Apart
  <2>3. other.surface \in Maps => q.map[other.surface] = p.map[other.surface]
    BY <2>1, <1>4, PoolBufferAssumption DEF Finishable, Apart
  <2>4. other.pool \in Pools => q.shm[other.pool] = p.shm[other.pool]
    BY <2>1, <1>5, PoolBufferAssumption DEF Apart
  <2>5. other.buffer \in Buffers => q.buf[other.buffer] = p.buf[other.buffer]
    BY <2>1, <1>6, PoolBufferAssumption DEF Apart
  <2>6. other.buffer \in Buffers \cup {NULL}
    BY DEF SlotType
  <2> QED
    BY <1>2, <2>1, <2>2, <2>3, <2>4, <2>5, <2>6 DEF SlotOK
<1>11. Apart(ZeroSlot, other)
  BY PoolBufferAssumption DEF Apart, ZeroSlot
<1>12. Owned(ZeroSlot, other, q)
  <2>1. Owned(p.slot, other, p)
    BY DEF Finishable
  <2> QED
    BY <2>1, <1>5, <1>6 DEF Owned
<1>13. q.stdin => q.file[Stdin] > 0
  BY <1>2, <1>3, PoolBufferAssumption DEF Finishable
<1> QED
  BY <1>2, <1>8, <1>9, <1>10, <1>11, <1>12, <1>13 DEF Good

(* The identities get_next_buffer may give the objects it creates. *)
News == [buffer : Buffers, pool : Pools]

Unknown(new, p) == p.buf[new.buffer] = 0 /\ p.shm[new.pool] = 0

(* A slot whose file is open and mapped gets its objects. *)
LEMMA WrapGood ==
  ASSUME NEW p, NEW other \in SlotType, Good(p, other), p.slot.buffer = NULL,
         NEW new \in News, Unknown(new, p),
         NEW w \in Int, NEW h \in Int, Bytes(w, h) > 0,
         NEW m \in Maps, p.map[m] = 0,
         p.slot.poolfd \in Fds \cup {Stdin}, p.stdin => p.slot.poolfd # Stdin,
         p.file[p.slot.poolfd] = Bytes(w, h)
  PROVE  Good(Wrap(p, new, m, w, h), other)
<1> DEFINE q == Wrap(p, new, m, w, h)
           x == p.slot.poolfd
           n == Bytes(w, h)
<1>1. /\ p \in Views
      /\ p.slot \in SlotType
      /\ p.file \in [Fds \cup {Stdin} -> Nat]
      /\ p.map \in [Maps -> Nat]
      /\ p.shm \in [Pools -> Nat]
      /\ p.buf \in [Buffers -> Nat]
      /\ SlotOK(p.slot, p)
      /\ SlotOK(other, p)
      /\ Apart(p.slot, other)
      /\ Owned(p.slot, other, p)
      /\ p.stdin => p.file[Stdin] > 0
      /\ p.stdin \in BOOLEAN
  BY DEF Good, Views
<1>2. n \in Nat
  BY BytesInt
<1>3. /\ q.slot = [poolfd |-> x, pool |-> new.pool, buffer |-> new.buffer,
                   surface |-> m, width |-> w, height |-> h, data |-> m,
                   size |-> n, busy |-> p.slot.busy]
      /\ q.file = p.file
      /\ q.map = [p.map EXCEPT ![m] = n]
      /\ q.shm = [p.shm EXCEPT ![new.pool] = n]
      /\ q.buf = [p.buf EXCEPT ![new.buffer] = n]
      /\ q.stdin = p.stdin
      /\ q = [slot |-> q.slot, file |-> q.file, map |-> q.map, shm |-> q.shm,
              buf |-> q.buf, stdin |-> q.stdin]
  BY DEF Wrap
<1>4. /\ new.buffer \in Buffers /\ new.pool \in Pools
      /\ p.buf[new.buffer] = 0 /\ p.shm[new.pool] = 0
  BY DEF News, Unknown
<1>5. q.slot \in SlotType
  BY <1>1, <1>2, <1>3, <1>4 DEF SlotType
<1>6. q \in Views
  BY <1>1, <1>2, <1>3, <1>5 DEF Views
<1> HIDE DEF q, n
<1>7. SlotOK(q.slot, q)
  BY <1>1, <1>2, <1>3, <1>4, PoolBufferAssumption DEF SlotOK, n
<1>8. SlotOK(other, q)
  <2>1. /\ other.surface \in Maps /\ p.map[other.surface] > 0 =>
             q.map[other.surface] = p.map[other.surface]
        /\ other.pool \in Pools /\ p.shm[other.pool] > 0 =>
             q.shm[other.pool] = p.shm[other.pool]
        /\ other.buffer \in Buffers /\ p.buf[other.buffer] > 0 =>
             q.buf[other.buffer] = p.buf[other.buffer]
    BY <1>1, <1>2, <1>3, <1>4
  <2>2. other.buffer \in Buffers \cup {NULL}
    BY DEF SlotType
  <2> QED
    BY <1>1, <1>3, <2>1, <2>2 DEF SlotOK
<1>9. Apart(q.slot, other)
  <2>1. x \in Fds => x # other.poolfd
    BY <1>1 DEF Apart
  <2>2. /\ other.buffer \in Buffers \cup {NULL}
        /\ other.pool \in Pools \cup {NULL}
        /\ other.surface \in Maps \cup {NULL}
    BY DEF SlotType
  <2>3. /\ other.buffer # new.buffer
        /\ other.pool # new.pool
        /\ other.surface # m
    BY <1>1, <1>4, <2>2, PoolBufferAssumption DEF SlotOK
  <2> QED
    BY <1>3, <2>1, <2>3 DEF Apart
<1>10. Owned(q.slot, other, q)
  <2>1. p.slot.pool = NULL
    BY <1>1 DEF SlotOK
  <2>2. /\ \A b \in Buffers : b # new.buffer => q.buf[b] = p.buf[b]
        /\ \A r \in Pools : r # new.pool => q.shm[r] = p.shm[r]
    BY <1>1, <1>3
  <2>3. \A b \in Buffers : q.buf[b] > 0 => b \in {q.slot.buffer, other.buffer}
    BY <1>1, <1>3, <2>2, PoolBufferAssumption DEF Owned
  <2>4. \A r \in Pools : q.shm[r] > 0 => r \in {q.slot.pool, other.pool}
    BY <1>1, <1>3, <2>1, <2>2, PoolBufferAssumption DEF Owned
  <2> QED
    BY <2>3, <2>4 DEF Owned
<1> QED
  BY <1>1, <1>3, <1>6, <1>7, <1>8, <1>9, <1>10 DEF Good, q

(* Giving an empty slot a descriptor nobody uses, or -1, changes nothing else. *)
LEMMA OpenedGood ==
  ASSUME NEW p, NEW other \in SlotType, Good(p, other), p.slot.buffer = NULL,
         NEW n \in Nat, n > 0, NEW c \in create_pool_file(p.file, n)
  PROVE  LET q == Opened(p, c)
         IN  /\ Good(q, other)
             /\ q.slot = [p.slot EXCEPT !.poolfd = c.fd]
             /\ q.map = p.map /\ q.shm = p.shm /\ q.buf = p.buf
             /\ q.stdin = p.stdin
             /\ c.fd # NoFd => /\ c.fd \in Fds \cup {Stdin}
                               /\ p.stdin => c.fd # Stdin
                               /\ q.file[c.fd] = n
<1> DEFINE q == Opened(p, c)
<1>1. /\ p \in Views
      /\ p.slot \in SlotType
      /\ p.file \in [Fds \cup {Stdin} -> Nat]
      /\ SlotOK(p.slot, p)
      /\ SlotOK(other, p)
      /\ Apart(p.slot, other)
      /\ Owned(p.slot, other, p)
      /\ p.stdin => p.file[Stdin] > 0
      /\ p.stdin \in BOOLEAN
  BY DEF Good, Views
<1>2. /\ q.slot = [p.slot EXCEPT !.poolfd = c.fd]
      /\ q.file = c.file /\ q.map = p.map /\ q.shm = p.shm /\ q.buf = p.buf
      /\ q.stdin = p.stdin
  BY DEF Opened
<1>3. CASE c.fd = NoFd /\ c.file = p.file
  <2>1. q \in Views
    BY <1>1, <1>3 DEF Opened, Views, SlotType
  <2>2. SlotOK(q.slot, q) /\ SlotOK(other, q) /\ Apart(q.slot, other)
    BY <1>1, <1>2, <1>3, PoolBufferAssumption DEF SlotOK, Apart, SlotType
  <2>3. Owned(q.slot, other, q)
    BY <1>1, <1>2, <1>3 DEF Owned, SlotType
  <2> QED
    BY <1>1, <1>2, <1>3, <2>1, <2>2, <2>3 DEF Good
<1>4. CASE \E x \in Fresh(p.file) : c = [fd |-> x, file |-> [p.file EXCEPT ![x] = n]]
  <2>1. PICK x \in Fresh(p.file) : c.fd = x /\ c.file = [p.file EXCEPT ![x] = n]
    BY <1>4
  <2>2. x \in Fds \cup {Stdin} /\ p.file[x] = 0 /\ x # NoFd /\ (p.stdin => x # Stdin)
    BY <1>1, FreshUnused, PoolBufferAssumption
  <2>3. /\ c.file \in [Fds \cup {Stdin} -> Nat]
        /\ c.file[x] = n
        /\ \A y \in Fds \cup {Stdin} : y # x => c.file[y] = p.file[y]
    BY <1>1, <2>1, <2>2
  <2>4. q \in Views
    BY <1>1, <2>1, <2>2, <2>3 DEF Opened, Views, SlotType
  <2>5. other.poolfd \in Fds => other.poolfd # x
    BY <1>1, <2>2 DEF SlotOK
  <2>6. SlotOK(q.slot, q)
    BY <1>1, <1>2, <2>1, <2>3 DEF SlotOK, SlotType
  <2>7. SlotOK(other, q)
    BY <1>1, <1>2, <2>3, <2>5 DEF SlotOK
  <2>8. Apart(q.slot, other)
    BY <1>1, <1>2, <2>1, <2>5 DEF Apart, SlotType
  <2>9. Owned(q.slot, other, q)
    BY <1>1, <1>2 DEF Owned, SlotType
  <2> QED
    BY <1>1, <1>2, <2>1, <2>2, <2>3, <2>4, <2>6, <2>7, <2>8, <2>9 DEF Good
<1> QED
  BY <1>3, <1>4 DEF create_pool_file

(* The slot of an empty area is a struct pool_buffer. *)
LEMMA HollowSlot ==
  ASSUME NEW s \in SlotType, NEW w \in Int, NEW h \in Int
  PROVE  [s EXCEPT !.data = NULL, !.size = 0, !.width = w, !.height = h,
                   !.surface = NULL] \in SlotType
BY DEF SlotType

(* create_buffer, for an area that is not empty: the file is not opened, or not
   mapped, or the slot gets its objects. *)
LEMMA CreateOutcome ==
  ASSUME NEW p, NEW new, NEW w \in Int, NEW h \in Int,
         Bytes(w, h) # 0, Bytes(w, h) > -Word,
         NEW r \in create_buffer(p, new, w, h)
  PROVE  LET n == Unsigned(Bytes(w, h))
         IN  /\ n \in Nat /\ n > 0
             /\ \E c \in create_pool_file(p.file, n) :
                  \/ r = [view |-> Opened(p, c), ok |-> FALSE]
                  \/ /\ n = Bytes(w, h) /\ w > 0 /\ h > 0
                     /\ \E m \in Fresh(p.map) :
                          /\ c.fd # NoFd
                          /\ r = [view |-> Wrap(Opened(p, c), new, m, w, h), ok |-> TRUE]
<1> DEFINE n == Unsigned(Bytes(w, h))
<1>1. n \in Nat /\ n > 0
  BY BytesInt, UnsignedPositive
<1>2. w > 0 /\ h > 0 => n = Bytes(w, h)
  BY BytesInt, BytesPositive DEF Unsigned
<1> HIDE DEF n
<1>3. \E c \in create_pool_file(p.file, n) :
        \/ r = [view |-> Opened(p, c), ok |-> FALSE]
        \/ \E m \in {x \in Fresh(p.map) : c.fd # NoFd /\ w > 0 /\ h > 0} :
              r = [view |-> Wrap(Opened(p, c), new, m, w, h), ok |-> TRUE]
  BY DEF create_buffer, n
<1>4. \E c \in create_pool_file(p.file, n) :
        \/ r = [view |-> Opened(p, c), ok |-> FALSE]
        \/ /\ n = Bytes(w, h) /\ w > 0 /\ h > 0
           /\ \E m \in Fresh(p.map) :
                /\ c.fd # NoFd
                /\ r = [view |-> Wrap(Opened(p, c), new, m, w, h), ok |-> TRUE]
  BY <1>2, <1>3
<1> QED BY <1>1, <1>4 DEF n

(* create_buffer on a slot without a wl_buffer leaves it sound: with a buffer
   of the size asked for, or without one. *)
LEMMA CreateGood ==
  ASSUME NEW p, NEW other \in SlotType, Good(p, other), p.slot.buffer = NULL,
         NEW new \in News, Unknown(new, p), NEW w \in Int, NEW h \in Int,
         Bytes(w, h) > -Word,
         NEW r \in create_buffer(p, new, w, h)
  PROVE  Good(r.view, other)
<1> DEFINE n == Bytes(w, h)
<1>1. n \in Int
  BY BytesInt
<1>2. CASE n = 0
  <2> DEFINE q == Hollow(p, w, h)
  <2>1. r.view = q
    BY <1>2 DEF create_buffer
  <2>2. /\ p \in Views /\ p.slot \in SlotType
        /\ SlotOK(p.slot, p) /\ SlotOK(other, p)
        /\ Apart(p.slot, other) /\ Owned(p.slot, other, p)
        /\ p.stdin \in BOOLEAN /\ (p.stdin => p.file[Stdin] > 0)
    BY DEF Good, Views
  <2>3. /\ q.slot = [p.slot EXCEPT !.data = NULL, !.size = 0, !.width = w,
                                   !.height = h, !.surface = NULL]
        /\ q.file = p.file /\ q.map = p.map /\ q.shm = p.shm /\ q.buf = p.buf
        /\ q.stdin = p.stdin
    BY DEF Hollow
  <2>4. q \in Views
    <3>1. [p.slot EXCEPT !.data = NULL, !.size = 0, !.width = w, !.height = h,
                         !.surface = NULL] \in SlotType
      BY <2>2, HollowSlot
    <3> QED
      BY <2>2, <3>1 DEF Hollow, Views
  <2>5. SlotOK(q.slot, q) /\ SlotOK(other, q)
    BY <1>2, <2>2, <2>3 DEF SlotOK, SlotType
  <2>6. Apart(q.slot, other) /\ Owned(q.slot, other, q)
    BY <2>2, <2>3 DEF Apart, Owned, SlotType
  <2> QED
    BY <2>1, <2>2, <2>3, <2>4, <2>5, <2>6 DEF Good
<1>3. CASE n # 0
  <2> DEFINE k == Unsigned(n)
  <2>0. k \in Nat /\ k > 0
    BY <1>3, CreateOutcome
  <2>1. PICK c \in create_pool_file(p.file, k) :
          \/ r = [view |-> Opened(p, c), ok |-> FALSE]
          \/ /\ k = n
             /\ \E m \in Fresh(p.map) :
                  /\ c.fd # NoFd
                  /\ r = [view |-> Wrap(Opened(p, c), new, m, w, h), ok |-> TRUE]
    BY <1>3, CreateOutcome
  <2> DEFINE q == Opened(p, c)
  <2> HIDE DEF k
  <2>2. /\ Good(q, other)
        /\ q.slot = [p.slot EXCEPT !.poolfd = c.fd]
        /\ q.map = p.map /\ q.shm = p.shm /\ q.buf = p.buf
        /\ q.stdin = p.stdin
        /\ c.fd # NoFd => /\ c.fd \in Fds \cup {Stdin}
                          /\ p.stdin => c.fd # Stdin
                          /\ q.file[c.fd] = k
    BY <2>0, OpenedGood
  <2>3. CASE r = [view |-> q, ok |-> FALSE]
    BY <2>2, <2>3
  <2>4. CASE /\ k = n
             /\ \E m \in Fresh(p.map) :
                  /\ c.fd # NoFd
                  /\ r = [view |-> Wrap(q, new, m, w, h), ok |-> TRUE]
    <3>1. PICK m \in Fresh(p.map) :
            c.fd # NoFd /\ r = [view |-> Wrap(q, new, m, w, h), ok |-> TRUE]
      BY <2>4
    <3>2. p.slot \in SlotType /\ p.map \in [Maps -> Nat]
      BY DEF Good, Views
    <3>3. m \in Maps /\ q.map[m] = 0
      BY <2>2, <3>1, <3>2, FreshUnused
    <3>4. q.slot.buffer = NULL /\ q.slot.poolfd = c.fd
      BY <2>2, <3>2 DEF SlotType
    <3>5. Unknown(new, q)
      BY <2>2 DEF Unknown
    <3>6. Good(Wrap(q, new, m, w, h), other)
      <4> HIDE DEF q
      <4> QED
        BY <2>0, <2>2, <2>4, <3>1, <3>3, <3>4, <3>5, WrapGood
    <3> QED
      BY <3>1, <3>6
  <2> QED
    BY <2>1, <2>3, <2>4
<1> QED
  BY <1>1, <1>2, <1>3

(* The byte size of a slot's width and height is not negative. *)
LEMMA SlotBytes ==
  ASSUME NEW p, NEW s \in SlotType, SlotOK(s, p)
  PROVE  Bytes(s.width, s.height) \in Nat
<1>1. s.size \in Nat
  BY DEF SlotType
<1>2. CASE s.buffer = NULL
  BY <1>2 DEF SlotOK
<1>3. CASE s.buffer # NULL
  <2>1. s.size = Bytes(s.width, s.height)
    BY <1>3 DEF SlotOK
  <2> QED BY <1>1, <2>1
<1> QED BY <1>2, <1>3

(* resize_buffer leaves a sound slot of the new size, or an empty one. *)
LEMMA ResizeGood ==
  ASSUME NEW p, NEW other \in SlotType, Good(p, other), p.slot.buffer # NULL,
         NEW new \in News, Unknown(new, p), NEW w \in Int, NEW h \in Int,
         Bytes(w, h) > 0,
         NEW q \in resize_buffer(p, new, w, h)
  PROVE  Good(q, other) /\ (q.slot.buffer = NULL => Unknown(new, q))
<1> DEFINE n == Bytes(w, h)
           u == [slot |-> [p.slot EXCEPT !.surface = NULL, !.data = NULL],
                 file |-> p.file, map |-> Drop(p.map, p.slot.data),
                 shm |-> p.shm, buf |-> p.buf, stdin |-> p.stdin]
<1>1. /\ p \in Views
      /\ p.slot \in SlotType
      /\ p.file \in [Fds \cup {Stdin} -> Nat]
      /\ p.map \in [Maps -> Nat]
      /\ p.shm \in [Pools -> Nat]
      /\ p.buf \in [Buffers -> Nat]
      /\ SlotOK(p.slot, p)
      /\ SlotOK(other, p)
      /\ Apart(p.slot, other)
      /\ Owned(p.slot, other, p)
      /\ p.stdin => p.file[Stdin] > 0
      /\ p.stdin \in BOOLEAN
  BY DEF Good, Views
<1>2. n \in Nat /\ n > 0
  BY BytesInt
<1>3. /\ new.buffer \in Buffers /\ new.pool \in Pools
      /\ p.buf[new.buffer] = 0 /\ p.shm[new.pool] = 0
  BY DEF News, Unknown
<1>4. /\ p.slot.poolfd \in Fds \cup {Stdin} /\ p.slot.pool \in Pools
      /\ p.stdin => p.slot.poolfd # Stdin
      /\ p.slot.buffer \in Buffers
      /\ p.slot.surface \in Maps /\ p.slot.data \in {NULL, p.slot.surface}
  BY <1>1 DEF SlotOK, SlotType
<1>5. /\ u.map \in [Maps -> Nat]
      /\ \A y \in Maps : u.map[y] = IF y = p.slot.data THEN 0 ELSE p.map[y]
  BY <1>1, DropValue
<1>6. CASE q = finish_buffer(u)
  <2>1. u \in Views
    BY <1>1, <1>5 DEF Views, SlotType
  <2>2. SlotOK(other, u)
    <3>1. other.surface \in Maps => u.map[other.surface] = p.map[other.surface]
      BY <1>1, <1>4, <1>5, PoolBufferAssumption DEF Apart
    <3> QED
      BY <1>1, <3>1 DEF SlotOK
  <2>3. Apart(u.slot, other) /\ Owned(u.slot, other, u)
    BY <1>1 DEF Apart, Owned, SlotType
  <2>4. Finishable(u, other)
    BY <1>1, <1>4, <2>1, <2>2, <2>3 DEF Finishable, SlotType
  <2>5. Good(finish_buffer(u), other)
    BY <2>4, FinishGood
  <2>6. Unknown(new, finish_buffer(u))
    BY <1>1, <1>3, DropValue DEF Unknown, finish_buffer
  <2> QED
    BY <1>6, <2>5, <2>6
<1>7. CASE \E m \in Fresh(u.map) :
             q = [slot |-> [p.slot EXCEPT !.buffer = new.buffer, !.size = n,
                                          !.width = w, !.height = h,
                                          !.surface = m, !.data = NULL],
                  file |-> [p.file EXCEPT ![p.slot.poolfd] = n],
                  map  |-> [u.map EXCEPT ![m] = n],
                  shm  |-> [p.shm EXCEPT ![p.slot.pool] = n],
                  buf  |-> [Drop(p.buf, p.slot.buffer) EXCEPT
                               ![new.buffer] = n],
                  stdin |-> p.stdin]
  <2> DEFINE v(m) ==
         [slot |-> [p.slot EXCEPT !.buffer = new.buffer, !.size = n,
                                  !.width = w, !.height = h,
                                  !.surface = m, !.data = NULL],
          file |-> [p.file EXCEPT ![p.slot.poolfd] = n],
          map  |-> [u.map EXCEPT ![m] = n],
          shm  |-> [p.shm EXCEPT ![p.slot.pool] = n],
          buf  |-> [Drop(p.buf, p.slot.buffer) EXCEPT ![new.buffer] = n],
          stdin |-> p.stdin]
  <2>0. PICK m \in Fresh(u.map) : q = v(m)
    BY <1>7
  <2>1. /\ q.slot = [p.slot EXCEPT !.buffer = new.buffer, !.size = n,
                                   !.width = w, !.height = h,
                                   !.surface = m, !.data = NULL]
        /\ q.file = [p.file EXCEPT ![p.slot.poolfd] = n]
        /\ q.map = [u.map EXCEPT ![m] = n]
        /\ q.shm = [p.shm EXCEPT ![p.slot.pool] = n]
        /\ q.buf = [Drop(p.buf, p.slot.buffer) EXCEPT ![new.buffer] = n]
        /\ q.stdin = p.stdin
        /\ q = [slot |-> q.slot, file |-> q.file, map |-> q.map,
                shm |-> q.shm, buf |-> q.buf, stdin |-> q.stdin]
    <3> HIDE DEF u, n
    <3> QED
      BY <2>0
  <2>2. m \in Maps /\ u.map[m] = 0
    BY <1>5, <2>1, FreshUnused
  <2>3. /\ Drop(p.buf, p.slot.buffer) \in [Buffers -> Nat]
        /\ \A b \in Buffers : Drop(p.buf, p.slot.buffer)[b] =
                               IF b = p.slot.buffer THEN 0 ELSE p.buf[b]
    BY <1>1, DropValue
  <2> HIDE DEF u, n
  <2>4. /\ q.slot \in SlotType
        /\ q.slot.poolfd = p.slot.poolfd /\ q.slot.pool = p.slot.pool
        /\ q.slot.buffer = new.buffer /\ q.slot.surface = m
        /\ q.slot.data = NULL /\ q.slot.size = n
        /\ q.slot.width = w /\ q.slot.height = h
    BY <1>1, <1>2, <1>3, <2>1, <2>2 DEF SlotType
  <2>5. /\ q.file \in [Fds \cup {Stdin} -> Nat]
        /\ q.map \in [Maps -> Nat]
        /\ q.shm \in [Pools -> Nat]
        /\ q.buf \in [Buffers -> Nat]
    BY <1>1, <1>2, <1>3, <1>4, <1>5, <2>1, <2>2, <2>3
  <2>6. q \in Views
    BY <1>1, <2>1, <2>4, <2>5 DEF Views
  <2>7. SlotOK(q.slot, q)
    BY <1>1, <1>2, <1>3, <1>4, <1>5, <2>1, <2>2, <2>3, <2>4,
       PoolBufferAssumption DEF SlotOK, n
  <2>8. other.surface # m
    <3>1. other.surface \in Maps => other.surface # p.slot.data
      BY <1>1, <1>4, PoolBufferAssumption DEF Apart
    <3>2. other.buffer # NULL => other.surface \in Maps /\ p.map[other.surface] > 0
      BY <1>1 DEF SlotOK
    <3>3. other.buffer = NULL => other.surface = NULL
      BY <1>1 DEF SlotOK
    <3> QED
      BY <1>5, <2>2, <3>1, <3>2, <3>3, PoolBufferAssumption
  <2>9. SlotOK(other, q)
    <3>1. other.poolfd \in Fds => q.file[other.poolfd] = p.file[other.poolfd]
      BY <1>1, <1>4, <2>1 DEF Apart
    <3>2. other.surface \in Maps => q.map[other.surface] = p.map[other.surface]
      BY <1>1, <1>4, <1>5, <2>1, <2>8, PoolBufferAssumption DEF Apart
    <3>3. other.pool \in Pools => q.shm[other.pool] = p.shm[other.pool]
      BY <1>1, <1>4, <2>1, PoolBufferAssumption DEF Apart
    <3>4. /\ other.buffer \in Buffers
          /\ p.buf[other.buffer] > 0
          => q.buf[other.buffer] = p.buf[other.buffer]
      BY <1>1, <1>3, <1>4, <2>1, <2>3, PoolBufferAssumption DEF Apart
    <3>5. other.buffer \in Buffers \cup {NULL}
      BY DEF SlotType
    <3> QED
      BY <1>1, <2>1, <3>1, <3>2, <3>3, <3>4, <3>5 DEF SlotOK
  <2>10. Apart(q.slot, other)
    <3>1. other.buffer # new.buffer
      BY <1>1, <1>3, PoolBufferAssumption DEF SlotOK
    <3> QED
      BY <1>1, <1>4, <2>4, <2>8, <3>1, PoolBufferAssumption DEF Apart
  <2>11. Owned(q.slot, other, q)
    <3>1. \A b \in Buffers : q.buf[b] > 0 => b \in {q.slot.buffer, other.buffer}
      BY <1>1, <1>3, <2>1, <2>3, <2>4 DEF Owned
    <3>2. \A r \in Pools : q.shm[r] > 0 => r \in {q.slot.pool, other.pool}
      BY <1>1, <1>4, <2>1, <2>4 DEF Owned
    <3> QED
      BY <3>1, <3>2 DEF Owned
  <2>12. q.stdin => q.file[Stdin] > 0
    BY <1>1, <1>4, <2>1, PoolBufferAssumption
  <2>13. q.slot.buffer # NULL
    BY <1>3, <2>4, PoolBufferAssumption
  <2> QED
    BY <2>6, <2>7, <2>9, <2>10, <2>11, <2>12, <2>13 DEF Good
<1> QED
  BY <1>6, <1>7 DEF resize_buffer

(* get_next_buffer leaves the slot it works on sound, whatever fails. *)
LEMMA GetGood ==
  ASSUME NEW p, NEW other \in SlotType, Good(p, other),
         NEW new \in News, Unknown(new, p), NEW w \in Int, NEW h \in Int,
         Bytes(w, h) > -Word,
         NEW r \in get_next_buffer(p, new, w, h)
  PROVE  Good(r.view, other)
<1>1. PICK q \in fit_buffer(p, new, w, h) :
        r \in IF q.slot.buffer # NULL THEN {[view |-> q, ok |-> TRUE]}
             ELSE create_buffer(q, new, w, h)
  BY DEF get_next_buffer
<1>2. p.slot \in SlotType /\ SlotOK(p.slot, p)
  BY DEF Good, Views
<1> DEFINE have == Bytes(p.slot.width, p.slot.height)
           n == Bytes(w, h)
<1>3. have \in Nat /\ n \in Int
  BY <1>2, SlotBytes, BytesInt
<1>4. Good(q, other) /\ (q.slot.buffer = NULL => Unknown(new, q))
  <2>1. CASE have > n
    <3>1. q = finish_buffer(p)
      BY <1>1, <2>1 DEF fit_buffer
    <3>3. Finishable(p, other)
      BY <1>2 DEF Good, Finishable, SlotOK
    <3>4. /\ p.shm \in [Pools -> Nat] /\ p.buf \in [Buffers -> Nat]
          /\ new.pool \in Pools /\ new.buffer \in Buffers
      BY DEF Good, Views, News
    <3>5. Unknown(new, finish_buffer(p))
      BY <3>4, DropValue DEF Unknown, finish_buffer
    <3> QED
      BY <3>1, <3>3, <3>5, FinishGood
  <2>2. CASE have > 0 /\ have < n
    <3>1. q \in resize_buffer(p, new, w, h)
      BY <1>1, <1>3, <2>2 DEF fit_buffer
    <3>2. p.slot.buffer # NULL /\ n > 0
      BY <1>2, <1>3, <2>2 DEF SlotOK
    <3> QED
      BY <3>1, <3>2, ResizeGood
  <2>3. CASE ~(have > n) /\ ~(have > 0 /\ have < n)
    BY <1>1, <2>3 DEF fit_buffer
  <2> QED
    BY <2>1, <2>2, <2>3
<1>5. CASE q.slot.buffer # NULL
  BY <1>1, <1>4, <1>5
<1>6. CASE q.slot.buffer = NULL
  BY <1>1, <1>4, <1>6, CreateGood
<1> QED
  BY <1>5, <1>6

(* What one slot and the other have in common does not depend on whose turn it
   is, nor on busy. *)
LEMMA GoodTurned ==
  ASSUME NEW p, NEW other \in SlotType, Good(p, other), NEW b \in BOOLEAN
  PROVE  LET s == [p.slot EXCEPT !.busy = b]
             q == [slot |-> s, file |-> p.file, map |-> p.map, shm |-> p.shm,
                   buf |-> p.buf, stdin |-> p.stdin]
             t == [slot |-> other, file |-> p.file, map |-> p.map,
                   shm |-> p.shm, buf |-> p.buf, stdin |-> p.stdin]
         IN  s \in SlotType /\ Good(q, other) /\ Good(t, s)
<1> DEFINE s == [p.slot EXCEPT !.busy = b]
           q == [slot |-> s, file |-> p.file, map |-> p.map, shm |-> p.shm,
                 buf |-> p.buf, stdin |-> p.stdin]
           t == [slot |-> other, file |-> p.file, map |-> p.map,
                 shm |-> p.shm, buf |-> p.buf, stdin |-> p.stdin]
<1>1. /\ p \in Views
      /\ p.slot \in SlotType
      /\ SlotOK(p.slot, p)
      /\ SlotOK(other, p)
      /\ Apart(p.slot, other)
      /\ Owned(p.slot, other, p)
      /\ p.stdin => p.file[Stdin] > 0
      /\ p.stdin \in BOOLEAN
  BY DEF Good, Views
<1>2. /\ s \in SlotType
      /\ s.poolfd = p.slot.poolfd /\ s.pool = p.slot.pool
      /\ s.buffer = p.slot.buffer /\ s.surface = p.slot.surface
      /\ s.width = p.slot.width /\ s.height = p.slot.height
      /\ s.data = p.slot.data /\ s.size = p.slot.size
  BY <1>1 DEF SlotType
<1> HIDE DEF s
<1>3. q \in Views /\ t \in Views
  BY <1>1, <1>2 DEF Views
<1>4. SlotOK(s, q) /\ SlotOK(other, q) /\ SlotOK(s, t) /\ SlotOK(other, t)
  BY <1>1, <1>2 DEF SlotOK
<1>5. Apart(s, other)
  BY <1>1, <1>2 DEF Apart
<1>6. Apart(other, s)
  BY <1>5 DEF Apart
<1>7. Owned(s, other, q) /\ Owned(other, s, t)
  BY <1>1, <1>2 DEF Owned
<1>8. Good(q, other) /\ Good(t, s)
  BY <1>1, <1>3, <1>4, <1>5, <1>6, <1>7 DEF Good
<1> QED
  BY <1>2, <1>8 DEF s

-------------------------------------------------------------------------------
IInv == TypeOK /\ SlotsSound

(* Initially nothing is open but descriptor 0. *)
LEMMA InitSound == Init => IInv
<1> SUFFICES ASSUME Init PROVE IInv
  OBVIOUS
<1>1. ZeroSlot \in SlotType
  BY DEF ZeroSlot, SlotType
<1>2. TypeOK
  BY <1>1 DEF Init, TypeOK
<1>3. ASSUME NEW i \in Slots PROVE Good(View(i), pool[1 - i])
  <2>1. 1 - i \in Slots
    BY DEF Slots
  <2>2. pool[i] = ZeroSlot /\ pool[1 - i] = ZeroSlot
    BY <2>1 DEF Init
  <2>3. View(i) \in Views
    BY <1>1, <1>2, <2>2 DEF View, Views, TypeOK
  <2>4. SlotOK(ZeroSlot, View(i))
    BY PoolBufferAssumption DEF SlotOK, ZeroSlot, Bytes, Stride
  <2>5. Apart(ZeroSlot, ZeroSlot)
    BY PoolBufferAssumption DEF Apart, ZeroSlot
  <2>6. Owned(ZeroSlot, ZeroSlot, View(i)) /\ View(i).file[Stdin] > 0
    BY DEF Owned, View, Init
  <2> QED
    BY <2>2, <2>3, <2>4, <2>5, <2>6 DEF Good, View
<1> QED
  BY <1>2, <1>3 DEF IInv, SlotsSound

(* A step that replaces slot i by a view that is Good, up to busy, preserves
   the invariant. *)
LEMMA SlotReplaced ==
  ASSUME IInv, NEW i \in Slots, NEW q, Good(q, pool[1 - i]), NEW b \in BOOLEAN,
         pool' = [pool EXCEPT ![i] = [q.slot EXCEPT !.busy = b]],
         file' = q.file, map' = q.map, shm' = q.shm, buf' = q.buf,
         stdin' = q.stdin
  PROVE  IInv'
<1> DEFINE j == 1 - i
           s == [q.slot EXCEPT !.busy = b]
<1>1. j \in Slots /\ j # i /\ 1 - j = i /\ \A k \in Slots : k = i \/ k = j
  BY DEF Slots
<1>2. pool[j] \in SlotType
  BY <1>1 DEF IInv, TypeOK
<1>3. /\ s \in SlotType
      /\ Good([slot |-> s, file |-> q.file, map |-> q.map, shm |-> q.shm,
               buf |-> q.buf, stdin |-> q.stdin], pool[j])
      /\ Good([slot |-> pool[j], file |-> q.file, map |-> q.map,
               shm |-> q.shm, buf |-> q.buf, stdin |-> q.stdin], s)
  BY <1>2, GoodTurned
<1> HIDE DEF s
<1>4. pool'[i] = s /\ pool'[j] = pool[j] /\ pool' \in [Slots -> SlotType]
  BY <1>1, <1>3 DEF IInv, TypeOK, s
<1>5. TypeOK'
  BY <1>4 DEF Good, Views, TypeOK
<1>6. Good(View(i), pool[1 - i])' /\ Good(View(j), pool[1 - j])'
  BY <1>1, <1>3, <1>4 DEF View
<1> QED
  BY <1>1, <1>5, <1>6 DEF IInv, SlotsSound

(* surface_render, taken apart: what get_next_buffer was given and returned. *)
LEMMA RenderOutcome ==
  ASSUME IInv, NEW w \in Int, NEW h \in Int,
         Bytes(w, h) > -Word, surface_render(w, h)
  PROVE  \E new \in News : \E o \in get_next_buffer(View(NextSlot), new, w, h) :
           /\ NextSlot \in Slots
           /\ ~pool[NextSlot].busy
           /\ pool[1 - NextSlot] \in SlotType
           /\ Good(View(NextSlot), pool[1 - NextSlot])
           /\ Unknown(new, View(NextSlot))
           /\ Good(o.view, pool[1 - NextSlot])
           /\ pool' = [pool EXCEPT
                         ![NextSlot] = IF o.ok
                                         THEN [o.view.slot EXCEPT !.busy = TRUE]
                                         ELSE o.view.slot]
           /\ file' = o.view.file /\ map' = o.view.map
           /\ shm' = o.view.shm /\ buf' = o.view.buf
           /\ stdin' = o.view.stdin
<1>1. PICK b \in Unused(buf), q \in Unused(shm) :
      \E o \in get_next_buffer(View(NextSlot), [buffer |-> b, pool |-> q], w, h) :
        /\ pool' = [pool EXCEPT
                      ![NextSlot] = IF o.ok THEN [o.view.slot EXCEPT !.busy = TRUE]
                                            ELSE o.view.slot]
        /\ file' = o.view.file /\ map' = o.view.map
        /\ shm' = o.view.shm /\ buf' = o.view.buf
        /\ stdin' = o.view.stdin
  BY DEF surface_render
<1> DEFINE new == [buffer |-> b, pool |-> q]
<1>2. PICK o \in get_next_buffer(View(NextSlot), new, w, h) :
        /\ pool' = [pool EXCEPT
                      ![NextSlot] = IF o.ok THEN [o.view.slot EXCEPT !.busy = TRUE]
                                            ELSE o.view.slot]
        /\ file' = o.view.file /\ map' = o.view.map
        /\ shm' = o.view.shm /\ buf' = o.view.buf
        /\ stdin' = o.view.stdin
  BY <1>1
<1>3. new \in News /\ buf[b] = 0 /\ shm[q] = 0
  BY DEF IInv, TypeOK, Unused, News
<1>4. Unknown(new, View(NextSlot))
  BY <1>3 DEF Unknown, View
<1>5. NextSlot \in Slots /\ 1 - NextSlot \in Slots /\ ~pool[NextSlot].busy
  BY DEF surface_render, NextSlot, FreeSlots, Slots
<1>6. /\ pool[1 - NextSlot] \in SlotType
      /\ Good(View(NextSlot), pool[1 - NextSlot])
  BY <1>5 DEF IInv, TypeOK, SlotsSound
<1>7. Good(o.view, pool[1 - NextSlot])
  BY <1>3, <1>4, <1>6, GetGood
<1> QED
  BY <1>2, <1>3, <1>4, <1>5, <1>6, <1>7

(* Leaving busy as it is, or setting it, is all the same to the invariant. *)
LEMMA SlotUpdated ==
  ASSUME IInv, NEW i \in Slots, NEW q, Good(q, pool[1 - i]), NEW s,
         s = q.slot \/ s = [q.slot EXCEPT !.busy = TRUE]
                    \/ s = [q.slot EXCEPT !.busy = FALSE],
         pool' = [pool EXCEPT ![i] = s],
         file' = q.file, map' = q.map, shm' = q.shm, buf' = q.buf,
         stdin' = q.stdin
  PROVE  IInv'
<1>1. q.slot \in SlotType
  BY DEF Good, Views
<1>2. q.slot.busy \in BOOLEAN /\ q.slot = [q.slot EXCEPT !.busy = q.slot.busy]
  BY <1>1 DEF SlotType
<1>3. PICK b \in BOOLEAN : s = [q.slot EXCEPT !.busy = b]
  BY <1>2
<1> QED
  BY <1>3, SlotReplaced

(* No step breaks the invariant... *)
LEMMA NextSound == IInv /\ [Next]_vars => IInv'
<1> SUFFICES ASSUME IInv, [Next]_vars PROVE IInv'
  OBVIOUS
<1>1. CASE \E z \in Sizes : surface_render(z[1], z[2])
  <2>1. PICK z \in Sizes : surface_render(z[1], z[2])
    BY <1>1
  <2>2. z[1] \in Int /\ z[2] \in Int /\ Bytes(z[1], z[2]) > -Word
    BY PoolBufferAssumption
  <2>3. PICK new \in News :
        \E o \in get_next_buffer(View(NextSlot), new, z[1], z[2]) :
          /\ NextSlot \in Slots
          /\ Good(o.view, pool[1 - NextSlot])
          /\ pool' = [pool EXCEPT
                        ![NextSlot] = IF o.ok
                                        THEN [o.view.slot EXCEPT !.busy = TRUE]
                                        ELSE o.view.slot]
          /\ file' = o.view.file /\ map' = o.view.map
          /\ shm' = o.view.shm /\ buf' = o.view.buf
          /\ stdin' = o.view.stdin
    BY <2>1, <2>2, RenderOutcome
  <2>4. PICK o \in get_next_buffer(View(NextSlot), new, z[1], z[2]) :
          /\ NextSlot \in Slots
          /\ Good(o.view, pool[1 - NextSlot])
          /\ pool' = [pool EXCEPT
                        ![NextSlot] = IF o.ok
                                        THEN [o.view.slot EXCEPT !.busy = TRUE]
                                        ELSE o.view.slot]
          /\ file' = o.view.file /\ map' = o.view.map
          /\ shm' = o.view.shm /\ buf' = o.view.buf
          /\ stdin' = o.view.stdin
    BY <2>3
  <2> QED
    BY <2>4, SlotUpdated
<1>2. CASE \E i \in Slots : buffer_handle_release(i)
  <2>1. PICK i \in Slots : buffer_handle_release(i)
    BY <1>2
  <2>2. Good(View(i), pool[1 - i]) /\ View(i).slot = pool[i]
    BY DEF IInv, SlotsSound, View
  <2>3. /\ pool' = [pool EXCEPT ![i] = [View(i).slot EXCEPT !.busy = FALSE]]
        /\ file' = View(i).file /\ map' = View(i).map
        /\ shm' = View(i).shm /\ buf' = View(i).buf
        /\ stdin' = View(i).stdin
    BY <2>1, <2>2 DEF buffer_handle_release, View
  <2> QED
    BY <2>2, <2>3, SlotUpdated
<1>3. CASE UNCHANGED vars
  BY <1>3 DEF vars, IInv, TypeOK, SlotsSound, Good, View, SlotOK, Owned
<1> QED
  BY <1>1, <1>2, <1>3 DEF Next

(* ... and so it always holds. *)
LEMMA Inductive == Spec => []IInv
BY InitSound, NextSound, PTL DEF Spec

(* Every variable keeps its type: in particular poolfd is a descriptor the
   process opened, 0 or -1. *)
THEOREM TypeCorrect == Spec => []TypeOK
<1>1. IInv => TypeOK
  BY DEF IInv
<1> QED
  BY <1>1, Inductive, PTL

(* Each slot's resources exist, have the slot's size and are its own. *)
THEOREM SlotsAreSound == Spec => []SlotsSound
<1>1. IInv => SlotsSound
  BY DEF IInv
<1> QED
  BY <1>1, Inductive, PTL

(* No wl_buffer ever reaches beyond its pool, its file or its mapping. *)
THEOREM BuffersAreBacked == Spec => []BuffersBacked
<1>1. IInv => BuffersBacked
  <2> SUFFICES ASSUME IInv, NEW i \in Slots, pool[i].buffer # NULL
               PROVE  /\ buf[pool[i].buffer] = Bytes(pool[i].width, pool[i].height)
                      /\ buf[pool[i].buffer] > 0
                      /\ buf[pool[i].buffer] <= shm[pool[i].pool]
                      /\ pool[i].poolfd \in Fds =>
                           shm[pool[i].pool] <= file[pool[i].poolfd]
                      /\ stdin => pool[i].poolfd \in Fds
                      /\ buf[pool[i].buffer] <= map[pool[i].surface]
    BY DEF BuffersBacked
  <2>1. SlotOK(pool[i], View(i)) /\ pool[i] \in SlotType
    BY DEF IInv, SlotsSound, Good, View, TypeOK
  <2>2. pool[i].size \in Nat
    BY <2>1 DEF SlotType
  <2> QED
    BY <2>1, <2>2 DEF SlotOK, View
<1> QED
  BY <1>1, Inductive, PTL

(* The protocol objects that exist are the two slots' own. *)
THEOREM ObjectsAreOwned == Spec => []ObjectsOwned
<1>1. IInv => ObjectsOwned
  <2> SUFFICES ASSUME IInv PROVE ObjectsOwned
    OBVIOUS
  <2>1. /\ 0 \in Slots /\ 1 \in Slots /\ \A i \in Slots : i = 0 \/ i = 1
        /\ 1 - 0 = 1 /\ 1 - 1 = 0
    BY DEF Slots
  <2>2. Good(View(0), pool[1]) /\ Good(View(1), pool[0])
    BY <2>1 DEF IInv, SlotsSound
  <2>3. /\ SlotOK(pool[0], View(0)) /\ SlotOK(pool[1], View(1))
        /\ Apart(pool[0], pool[1]) /\ Owned(pool[0], pool[1], View(0))
    BY <2>2 DEF Good, View
  <2>4. pool[0] \in SlotType /\ pool[1] \in SlotType
    BY <2>1 DEF IInv, TypeOK
  <2>5. \A b \in Buffers : buf[b] > 0 <=> b = pool[0].buffer \/ b = pool[1].buffer
    BY <2>3, <2>4, PoolBufferAssumption DEF SlotOK, Owned, View
  <2>6. \A q \in Pools : shm[q] > 0 <=> q = pool[0].pool \/ q = pool[1].pool
    BY <2>3, <2>4, PoolBufferAssumption DEF SlotOK, Owned, View
  <2>7. {pool[i].buffer : i \in Slots} = {pool[0].buffer, pool[1].buffer}
    BY <2>1
  <2>8. {pool[i].pool : i \in Slots} = {pool[0].pool, pool[1].pool}
    BY <2>1
  <2>9. /\ pool[0].buffer \in Buffers \cup {NULL}
        /\ pool[1].buffer \in Buffers \cup {NULL}
        /\ pool[0].pool \in Pools \cup {NULL}
        /\ pool[1].pool \in Pools \cup {NULL}
    BY <2>4 DEF SlotType
  <2>10. {b \in Buffers : buf[b] > 0} = {pool[i].buffer : i \in Slots} \ {NULL}
    BY <2>5, <2>7, <2>9, PoolBufferAssumption
  <2>11. {q \in Pools : shm[q] > 0} = {pool[i].pool : i \in Slots} \ {NULL}
    BY <2>6, <2>8, <2>9, PoolBufferAssumption
  <2> QED
    BY <2>3, <2>10, <2>11 DEF ObjectsOwned, Apart
<1> QED
  BY <1>1, Inductive, PTL

-------------------------------------------------------------------------------
(* create_buffer makes a slot whose pool is a new one, if it makes any. *)
LEMMA CreatePool ==
  ASSUME NEW p \in Views, NEW new \in News, NEW w \in Int, NEW h \in Int,
         Bytes(w, h) > -Word, NEW r \in create_buffer(p, new, w, h)
  PROVE  r.view.slot.pool \in {p.slot.pool, new.pool}
<1>1. p.slot \in SlotType
  BY DEF Views
<1>2. CASE Bytes(w, h) = 0
  <2>1. r.view = Hollow(p, w, h)
    BY <1>2 DEF create_buffer
  <2>2. [p.slot EXCEPT !.data = NULL, !.size = 0, !.width = w, !.height = h,
                       !.surface = NULL].pool = p.slot.pool
    BY <1>1 DEF SlotType
  <2> QED
    <3>1. Hollow(p, w, h).slot =
            [p.slot EXCEPT !.data = NULL, !.size = 0, !.width = w, !.height = h,
                           !.surface = NULL]
      BY DEF Hollow
    <3> QED
      BY <2>1, <2>2, <3>1
<1>3. CASE Bytes(w, h) # 0
  <2>1. PICK c \in create_pool_file(p.file, Unsigned(Bytes(w, h))) :
          \/ r = [view |-> Opened(p, c), ok |-> FALSE]
          \/ \E m \in Fresh(p.map) :
                r = [view |-> Wrap(Opened(p, c), new, m, w, h), ok |-> TRUE]
    BY <1>3, CreateOutcome
  <2> QED
    BY <1>1, <2>1 DEF Opened, Wrap, SlotType
<1> QED
  BY <1>2, <1>3

(* resize_buffer empties its slot or gives it a wl_buffer of the new size. *)
Resized(s, t, new, w, h) ==
  /\ t.buffer = new.buffer /\ t.size = Bytes(w, h)
  /\ t.width = w /\ t.height = h
  /\ t.poolfd = s.poolfd /\ t.busy = s.busy
  /\ w > 0 /\ h > 0

(* resize_buffer leaves an empty slot, or the slot with new sizes. *)
LEMMA ResizeSlot ==
  ASSUME NEW p \in Views, NEW new, NEW w, NEW h,
         NEW q \in resize_buffer(p, new, w, h)
  PROVE  q.slot = ZeroSlot \/ Resized(p.slot, q.slot, new, w, h)
<1> DEFINE n == Bytes(w, h)
           u == [slot |-> [p.slot EXCEPT !.surface = NULL, !.data = NULL],
                 file |-> p.file, map |-> Drop(p.map, p.slot.data),
                 shm |-> p.shm, buf |-> p.buf, stdin |-> p.stdin]
           s(m) == [p.slot EXCEPT !.buffer = new.buffer, !.size = n,
                                  !.width = w, !.height = h,
                                  !.surface = m, !.data = NULL]
           v(m) == [slot |-> s(m),
                    file |-> [p.file EXCEPT ![p.slot.poolfd] = n],
                    map  |-> [u.map EXCEPT ![m] = n],
                    shm  |-> [p.shm EXCEPT ![p.slot.pool] = n],
                    buf  |-> [Drop(p.buf, p.slot.buffer) EXCEPT
                                 ![new.buffer] = n],
                    stdin |-> p.stdin]
<1>1. \/ q = finish_buffer(u)
      \/ w > 0 /\ h > 0 /\ \E m \in Fresh(u.map) : q = v(m)
  BY DEF resize_buffer
<1>2. finish_buffer(u).slot = ZeroSlot
  BY DEF finish_buffer
<1>3. ASSUME NEW m PROVE v(m).slot = s(m)
  <2> HIDE DEF s, u, n
  <2> QED
    OBVIOUS
<1>4. ASSUME w > 0, h > 0, NEW m PROVE Resized(p.slot, s(m), new, w, h)
  <2>1. p.slot \in SlotType
    BY DEF Views
  <2> HIDE DEF u
  <2> QED
    BY <1>4, <2>1 DEF SlotType, Resized
<1> HIDE DEF v, u, s
<1> QED
  BY <1>1, <1>2, <1>3, <1>4

(* get_next_buffer either gives up a slot's wl_shm_pool or makes it grow. *)
LEMMA GetGrows ==
  ASSUME NEW p, NEW other \in SlotType, Good(p, other),
         NEW new \in News, Unknown(new, p), NEW w \in Int, NEW h \in Int,
         Bytes(w, h) > -Word,
         NEW r \in get_next_buffer(p, new, w, h),
         p.slot.pool # NULL, r.view.slot.pool = p.slot.pool
  PROVE  /\ r.view.slot.size >= p.slot.size
         /\ r.view.slot.poolfd = p.slot.poolfd
<1>1. PICK q \in fit_buffer(p, new, w, h) :
        r \in IF q.slot.buffer # NULL THEN {[view |-> q, ok |-> TRUE]}
             ELSE create_buffer(q, new, w, h)
  BY DEF get_next_buffer
<1> DEFINE have == Bytes(p.slot.width, p.slot.height)
           n == Bytes(w, h)
<1>2. p \in Views /\ p.slot \in SlotType /\ SlotOK(p.slot, p)
  BY DEF Good, Views
<1>3. have \in Nat /\ n \in Int
  BY <1>2, SlotBytes, BytesInt
<1>4. /\ p.slot.buffer # NULL /\ p.slot.size = have /\ have > 0
      /\ p.slot.pool \in Pools /\ p.shm[p.slot.pool] > 0
  BY <1>2 DEF SlotOK
<1>5. new.pool # p.slot.pool /\ new.pool \in Pools
  BY <1>4 DEF Unknown, News
<1>6. CASE have > n
  <2>1. q = finish_buffer(p)
    BY <1>1, <1>6 DEF fit_buffer
  <2>2. Finishable(p, other)
    BY <1>2, <1>4 DEF Good, Finishable, SlotOK
  <2>3. q \in Views /\ q.slot = ZeroSlot
    BY <2>1, <2>2, FinishGood DEF Good
  <2>4. r.view.slot.pool \in {NULL, new.pool}
    BY <1>1, <2>3, CreatePool DEF ZeroSlot
  <2> QED
    BY <1>5, <2>4
<1>7. CASE have > 0 /\ have < n
  <2>1. q \in resize_buffer(p, new, w, h)
    BY <1>1, <1>3, <1>7 DEF fit_buffer
  <2>2. Good(q, other)
    BY <1>3, <1>4, <1>7, <2>1, ResizeGood
  <2>3. CASE q.slot = ZeroSlot
    <3>1. r.view.slot.pool \in {NULL, new.pool}
      BY <1>1, <2>2, <2>3, CreatePool DEF ZeroSlot, Good
    <3> QED
      BY <1>5, <3>1
  <2>4. CASE Resized(p.slot, q.slot, new, w, h)
    <3>1. /\ q.slot.buffer = new.buffer /\ q.slot.size = n
          /\ q.slot.poolfd = p.slot.poolfd
      BY <2>4 DEF Resized
    <3>2. r.view = q
      BY <1>1, <3>1, PoolBufferAssumption DEF News
    <3> QED
      BY <1>3, <1>4, <1>7, <3>1, <3>2
  <2> QED
    BY <1>2, <2>1, <2>3, <2>4, ResizeSlot
<1>8. CASE ~(have > n) /\ ~(have > 0 /\ have < n)
  <2>1. q = p
    BY <1>1, <1>8 DEF fit_buffer
  <2> QED
    BY <1>1, <1>2, <1>4, <2>1 DEF SlotType
<1> QED
  BY <1>6, <1>7, <1>8

(* A wl_shm_pool is never shrunk, nor the file behind it. *)
THEOREM PoolsGrow == Spec => PoolsOnlyGrow
<1> DEFINE A == \A i \in Slots :
              (pool[i].pool # NULL /\ pool'[i].pool = pool[i].pool) =>
                /\ shm'[pool[i].pool] >= shm[pool[i].pool]
                /\ pool[i].poolfd \in Fds =>
                     file'[pool[i].poolfd] >= file[pool[i].poolfd]
<1>1. IInv /\ IInv' /\ [Next]_vars => [A]_vars
  <2> SUFFICES ASSUME IInv, IInv', Next, NEW i \in Slots,
                      pool[i].pool # NULL, pool'[i].pool = pool[i].pool
               PROVE  /\ shm'[pool[i].pool] >= shm[pool[i].pool]
                      /\ pool[i].poolfd \in Fds =>
                           file'[pool[i].poolfd] >= file[pool[i].poolfd]
    OBVIOUS
  <2>1. /\ SlotOK(pool[i], View(i)) /\ pool[i] \in SlotType
        /\ SlotOK(pool'[i], View(i)') /\ pool'[i] \in SlotType
    BY DEF IInv, SlotsSound, Good, View, TypeOK
  <2>2. /\ shm[pool[i].pool] = pool[i].size
        /\ pool[i].poolfd \in Fds => file[pool[i].poolfd] = pool[i].size
        /\ shm'[pool[i].pool] = pool'[i].size
        /\ pool'[i].poolfd \in Fds => file'[pool'[i].poolfd] = pool'[i].size
        /\ pool[i].size \in Nat /\ pool'[i].size \in Nat
    BY <2>1 DEF SlotOK, View, SlotType
  <2>3. pool'[i].size >= pool[i].size /\ pool'[i].poolfd = pool[i].poolfd
    <3>1. CASE \E z \in Sizes : surface_render(z[1], z[2])
      <4>1. PICK z \in Sizes : surface_render(z[1], z[2])
        BY <3>1
      <4>2. z[1] \in Int /\ z[2] \in Int /\ Bytes(z[1], z[2]) > -Word
        BY PoolBufferAssumption
      <4>3. PICK new \in News :
            \E o \in get_next_buffer(View(NextSlot), new, z[1], z[2]) :
              /\ NextSlot \in Slots
              /\ pool[1 - NextSlot] \in SlotType
              /\ Good(View(NextSlot), pool[1 - NextSlot])
              /\ Unknown(new, View(NextSlot))
              /\ Good(o.view, pool[1 - NextSlot])
              /\ pool' = [pool EXCEPT
                            ![NextSlot] = IF o.ok
                                            THEN [o.view.slot EXCEPT !.busy = TRUE]
                                            ELSE o.view.slot]
        BY <4>1, <4>2, RenderOutcome
      <4>4. PICK o \in get_next_buffer(View(NextSlot), new, z[1], z[2]) :
              /\ NextSlot \in Slots
              /\ pool[1 - NextSlot] \in SlotType
              /\ Good(View(NextSlot), pool[1 - NextSlot])
              /\ Unknown(new, View(NextSlot))
              /\ Good(o.view, pool[1 - NextSlot])
              /\ pool' = [pool EXCEPT
                            ![NextSlot] = IF o.ok
                                            THEN [o.view.slot EXCEPT !.busy = TRUE]
                                            ELSE o.view.slot]
        BY <4>3
      <4>5. CASE i # NextSlot
        BY <2>1, <2>2, <4>4, <4>5 DEF IInv, TypeOK
      <4>6. CASE i = NextSlot
        <5>1. o.view.slot \in SlotType
          BY <4>4 DEF Good, Views
        <5>2. /\ pool'[i].pool = o.view.slot.pool
              /\ pool'[i].size = o.view.slot.size
              /\ pool'[i].poolfd = o.view.slot.poolfd
          BY <4>4, <4>6, <5>1 DEF IInv, TypeOK, SlotType
        <5>3. View(NextSlot).slot = pool[i]
          BY <4>6 DEF View
        <5> QED
          BY <4>2, <4>4, <5>2, <5>3, GetGrows
      <4> QED
        BY <4>5, <4>6
    <3>2. CASE \E k \in Slots : buffer_handle_release(k)
      BY <2>1, <2>2, <3>2 DEF buffer_handle_release, IInv, TypeOK, SlotType
    <3> QED
      BY <3>1, <3>2 DEF Next
  <2> QED
    BY <2>2, <2>3
<1>2. PoolsOnlyGrow <=> [][A]_vars
  BY DEF PoolsOnlyGrow
<1> HIDE DEF A
<1> QED
  BY <1>1, <1>2, Inductive, PTL DEF Spec
-------------------------------------------------------------------------------
(* From view p to view q nothing is lost but by a slot without a wl_buffer, for
   descriptors, or without data, for mappings. *)
Tracked(p, q) ==
  /\ \A x \in Fds : /\ q.file[x] > 0 => p.file[x] > 0 \/ q.slot.poolfd = x
                    /\ (/\ p.slot.poolfd = x
                        /\ p.slot.buffer # NULL
                        /\ q.file[x] > 0) => q.slot.poolfd = x
  /\ \A m \in Maps : /\ q.map[m] > 0 => p.map[m] > 0 \/ q.slot.surface = m
                     /\ (/\ p.slot.surface = m
                         /\ p.slot.data # NULL
                         /\ q.map[m] > 0) => q.slot.surface = m

(* finish_buffer closes and unmaps what its slot names. *)
LEMMA FinishTracks ==
  ASSUME NEW p \in Views, p.slot.data \in {NULL, p.slot.surface}
  PROVE  Tracked(p, finish_buffer(p))
<1> DEFINE q == finish_buffer(p)
<1>1. /\ q.file = Drop(p.file, p.slot.poolfd) /\ q.map = Drop(p.map, p.slot.data)
      /\ p.file \in [Fds \cup {Stdin} -> Nat] /\ p.map \in [Maps -> Nat]
  BY DEF finish_buffer, Views
<1> HIDE DEF q
<1>2. /\ \A x \in Fds \cup {Stdin} :
           q.file[x] = (IF x = p.slot.poolfd THEN 0 ELSE p.file[x])
      /\ \A m \in Maps : q.map[m] = (IF m = p.slot.data THEN 0 ELSE p.map[m])
  BY <1>1, DropValue
<1>3. Tracked(p, q)
  BY <1>2, PoolBufferAssumption DEF Tracked
<1> QED BY <1>3 DEF q

(* resize_buffer keeps the descriptor and stores the new mapping as surface. *)
LEMMA ResizeTracks ==
  ASSUME NEW p \in Views, SlotOK(p.slot, p), p.slot.buffer # NULL,
         NEW new \in News, NEW w, NEW h, NEW q \in resize_buffer(p, new, w, h)
  PROVE  Tracked(p, q) /\ (q.slot = ZeroSlot \/ q.slot.buffer # NULL)
<1> DEFINE n == Bytes(w, h)
           unmapped == [p.slot EXCEPT !.surface = NULL, !.data = NULL]
           u == [slot |-> unmapped,
                 file |-> p.file, map |-> Drop(p.map, p.slot.data),
                 shm |-> p.shm, buf |-> p.buf, stdin |-> p.stdin]
           s(m) == [p.slot EXCEPT !.buffer = new.buffer, !.size = n,
                                  !.width = w, !.height = h,
                                  !.surface = m, !.data = NULL]
           v(m) == [slot |-> s(m),
                    file |-> [p.file EXCEPT ![p.slot.poolfd] = n],
                    map  |-> [u.map EXCEPT ![m] = n],
                    shm  |-> [p.shm EXCEPT ![p.slot.pool] = n],
                    buf  |-> [Drop(p.buf, p.slot.buffer) EXCEPT
                                 ![new.buffer] = n],
                    stdin |-> p.stdin]
<1>1. q = finish_buffer(u) \/ \E m \in Fresh(u.map) : q = v(m)
  BY DEF resize_buffer
<1>2. /\ p.slot \in SlotType /\ p.slot.data \in {NULL, p.slot.surface}
      /\ p.slot.poolfd \in Fds \cup {Stdin}
      /\ p.file \in [Fds \cup {Stdin} -> Nat] /\ p.map \in [Maps -> Nat]
  BY DEF Views, SlotOK
<1>3. /\ unmapped.poolfd = p.slot.poolfd /\ unmapped.data = NULL
      /\ \A m : /\ s(m).poolfd = p.slot.poolfd /\ s(m).surface = m
                /\ s(m).buffer = new.buffer
  <2> HIDE DEF n
  <2> QED BY <1>2 DEF SlotType
<1>4. new.buffer # NULL
  BY PoolBufferAssumption DEF News
<1>5. /\ Drop(p.map, p.slot.data) \in [Maps -> Nat]
      /\ \A m \in Maps : Drop(p.map, p.slot.data)[m] =
                           (IF m = p.slot.data THEN 0 ELSE p.map[m])
      /\ \A x \in Fds : Drop(p.file, p.slot.poolfd)[x] =
                           (IF x = p.slot.poolfd THEN 0 ELSE p.file[x])
  BY <1>2, DropValue
<1> HIDE DEF unmapped, s, n
<1>6. CASE q = finish_buffer(u)
  <2>1. /\ q.slot = ZeroSlot /\ q.file = Drop(p.file, p.slot.poolfd)
        /\ q.map = Drop(Drop(p.map, p.slot.data), NULL)
    BY <1>3, <1>6 DEF finish_buffer
  <2>2. \A m \in Maps : q.map[m] = (IF m = p.slot.data THEN 0 ELSE p.map[m])
    BY <1>5, <2>1, DropValue, PoolBufferAssumption
  <2>3. Tracked(p, q)
    BY <1>2, <1>5, <2>1, <2>2, PoolBufferAssumption DEF Tracked
  <2> QED BY <2>1, <2>3
<1>7. CASE \E m \in Fresh(u.map) : q = v(m)
  <2>1. PICK m \in Fresh(u.map) : q = v(m)
    BY <1>7
  <2>2. /\ q.slot = s(m) /\ q.file = [p.file EXCEPT ![p.slot.poolfd] = n]
        /\ q.map = [Drop(p.map, p.slot.data) EXCEPT ![m] = n]
    BY <2>1
  <2> HIDE DEF u, v
  <2>3. q.slot.poolfd = p.slot.poolfd /\ q.slot.surface = m /\ q.slot.buffer # NULL
    BY <1>3, <1>4, <2>2
  <2>4. /\ \A x \in Fds : x # p.slot.poolfd => q.file[x] = p.file[x]
        /\ \A k \in Maps : k # m =>
             q.map[k] = (IF k = p.slot.data THEN 0 ELSE p.map[k])
    BY <1>2, <1>5, <2>2
  <2>5. Tracked(p, q)
    BY <1>2, <2>3, <2>4, PoolBufferAssumption DEF Tracked
  <2> QED BY <2>3, <2>5
<1> QED BY <1>1, <1>6, <1>7

(* create_buffer stores what it opens and maps. *)
LEMMA CreateTracks ==
  ASSUME NEW p \in Views, NEW new \in News, NEW w \in Int, NEW h \in Int,
         Bytes(w, h) > -Word,
         NEW r \in create_buffer(p, new, w, h)
  PROVE  /\ \A x \in Fds : r.view.file[x] > 0 => p.file[x] > 0 \/ r.view.slot.poolfd = x
         /\ \A m \in Maps : r.view.map[m] > 0 => p.map[m] > 0 \/ r.view.slot.surface = m
<1>1. /\ p.slot \in SlotType
      /\ p.file \in [Fds \cup {Stdin} -> Nat] /\ p.map \in [Maps -> Nat]
  BY DEF Views
<1>2. CASE Bytes(w, h) = 0
  <2>1. r.view.file = p.file /\ r.view.map = p.map
    BY <1>2 DEF create_buffer, Hollow
  <2> QED BY <2>1
<1>3. CASE Bytes(w, h) # 0
  <2>1. PICK c \in create_pool_file(p.file, Unsigned(Bytes(w, h))) :
          \/ r = [view |-> Opened(p, c), ok |-> FALSE]
          \/ \E m \in Fresh(p.map) :
                r = [view |-> Wrap(Opened(p, c), new, m, w, h), ok |-> TRUE]
    BY <1>3, CreateOutcome
  <2>2. \A x \in Fds : c.file[x] > 0 => p.file[x] > 0 \/ c.fd = x
    BY <1>1, <2>1 DEF create_pool_file
  <2>3. /\ Opened(p, c).file = c.file /\ Opened(p, c).map = p.map
        /\ Opened(p, c).slot.poolfd = c.fd
    BY <1>1 DEF Opened, SlotType
  <2>4. CASE r = [view |-> Opened(p, c), ok |-> FALSE]
    BY <2>2, <2>3, <2>4
  <2>5. ASSUME NEW m, r = [view |-> Wrap(Opened(p, c), new, m, w, h), ok |-> TRUE]
        PROVE  /\ \A x \in Fds : r.view.file[x] > 0 =>
                     p.file[x] > 0 \/ r.view.slot.poolfd = x
               /\ \A k \in Maps : r.view.map[k] > 0 =>
                     p.map[k] > 0 \/ r.view.slot.surface = k
    <3>1. /\ r.view.file = c.file /\ r.view.map = [p.map EXCEPT ![m] = Bytes(w, h)]
          /\ r.view.slot.poolfd = c.fd /\ r.view.slot.surface = m
      BY <2>3, <2>5 DEF Wrap
    <3>2. \A k \in Maps : k # m => r.view.map[k] = p.map[k]
      BY <1>1, <3>1
    <3> QED BY <2>2, <3>1, <3>2
  <2> QED BY <2>1, <2>4, <2>5
<1> QED BY <1>2, <1>3

(* So does get_next_buffer, whichever way it takes. *)
LEMMA GetTracks ==
  ASSUME NEW p, NEW other \in SlotType, Good(p, other),
         NEW new \in News, Unknown(new, p), NEW w \in Int, NEW h \in Int,
         Bytes(w, h) > -Word,
         NEW r \in get_next_buffer(p, new, w, h)
  PROVE  Tracked(p, r.view)
<1>1. PICK q \in fit_buffer(p, new, w, h) :
        r \in IF q.slot.buffer # NULL THEN {[view |-> q, ok |-> TRUE]}
             ELSE create_buffer(q, new, w, h)
  BY DEF get_next_buffer
<1> DEFINE have == Bytes(p.slot.width, p.slot.height)
           n == Bytes(w, h)
<1>2. p \in Views /\ p.slot \in SlotType /\ SlotOK(p.slot, p)
  BY DEF Good, Views
<1>3. have \in Nat /\ n \in Int
  BY <1>2, SlotBytes, BytesInt
<1>4. have > 0 => p.slot.buffer # NULL
  BY <1>2, <1>3 DEF SlotOK
<1>5. /\ Good(q, other)
      /\ \/ q = p
         \/ Tracked(p, q) /\ (q.slot = ZeroSlot \/ q.slot.buffer # NULL)
  <2>1. CASE have > n
    <3>1. q = finish_buffer(p)
      BY <1>1, <2>1 DEF fit_buffer
    <3>3. Finishable(p, other)
      BY <1>2 DEF Good, Finishable, SlotOK
    <3> QED BY <3>1, <3>3, FinishGood, FinishTracks DEF Finishable
  <2>2. CASE have > 0 /\ have < n
    <3>1. q \in resize_buffer(p, new, w, h)
      BY <1>1, <1>3, <2>2 DEF fit_buffer
    <3>2. Good(q, other)
      BY <1>3, <1>4, <2>2, <3>1, ResizeGood
    <3> QED BY <1>2, <1>4, <2>2, <3>1, <3>2, ResizeTracks
  <2>3. CASE ~(have > n) /\ ~(have > 0 /\ have < n)
    BY <1>1, <2>3 DEF fit_buffer
  <2> QED BY <2>1, <2>2, <2>3
<1>6. q \in Views /\ q.slot \in SlotType /\ SlotOK(q.slot, q)
  BY <1>5 DEF Good, Views
<1>7. Tracked(p, p)
  BY <1>2 DEF Tracked
<1>8. CASE q.slot.buffer # NULL
  BY <1>1, <1>5, <1>7, <1>8
<1>9. CASE q.slot.buffer = NULL
  <2>1. /\ \A x \in Fds : r.view.file[x] > 0 => q.file[x] > 0 \/ r.view.slot.poolfd = x
        /\ \A m \in Maps : r.view.map[m] > 0 => q.map[m] > 0 \/ r.view.slot.surface = m
    BY <1>1, <1>6, <1>9, CreateTracks
  <2>2. CASE q = p
    <3>1. p.slot.data = NULL
      BY <1>9, <2>2, <1>6 DEF SlotOK
    <3> QED BY <1>9, <2>1, <2>2, <3>1 DEF Tracked
  <2>3. CASE q # p
    <3>1. Tracked(p, q) /\ q.slot.poolfd = Stdin /\ q.slot.surface = NULL
      BY <1>5, <1>9, <2>3 DEF ZeroSlot
    <3> QED BY <2>1, <3>1, PoolBufferAssumption DEF Tracked
  <2> QED BY <2>2, <2>3
<1> QED BY <1>8, <1>9

(* Descriptors and mappings are lost in the one known way each, whichever calls
   fail: every other path of pool-buffer.c closes and unmaps. *)
THEOREM LossesKnown == Spec => LostOneWayEach
<1> DEFINE F == \A x \in Fds : (~OrphanFd(x) /\ OrphanFd(x)') =>
                   \E i \in Slots : pool[i].poolfd = x /\ pool[i].buffer = NULL
           M == \A m \in Maps : (~OrphanMap(m) /\ OrphanMap(m)') =>
                   \E i \in Slots : pool[i].surface = m /\ pool[i].data = NULL
           A == /\ \A x \in Fds : (~OrphanFd(x) /\ OrphanFd(x)') =>
                     \E i \in Slots : pool[i].poolfd = x /\ pool[i].buffer = NULL
                /\ \A m \in Maps : (~OrphanMap(m) /\ OrphanMap(m)') =>
                     \E i \in Slots : pool[i].surface = m /\ pool[i].data = NULL
<1>1. IInv /\ [Next]_vars => [A]_vars
  <2> SUFFICES ASSUME IInv, Next PROVE F /\ M
    OBVIOUS
  <2>1. CASE \E z \in Sizes : surface_render(z[1], z[2])
    <3>1. PICK z \in Sizes : surface_render(z[1], z[2])
      BY <2>1
    <3>2. z[1] \in Int /\ z[2] \in Int /\ Bytes(z[1], z[2]) > -Word
      BY PoolBufferAssumption
    <3> DEFINE p == View(NextSlot)
    <3>3. PICK new \in News :
          \E o \in get_next_buffer(p, new, z[1], z[2]) :
            /\ NextSlot \in Slots
            /\ pool[1 - NextSlot] \in SlotType
            /\ Good(p, pool[1 - NextSlot])
            /\ Unknown(new, p)
            /\ Good(o.view, pool[1 - NextSlot])
            /\ pool' = [pool EXCEPT
                          ![NextSlot] = IF o.ok
                                          THEN [o.view.slot EXCEPT !.busy = TRUE]
                                          ELSE o.view.slot]
            /\ file' = o.view.file /\ map' = o.view.map
      BY <3>1, <3>2, RenderOutcome
    <3>4. PICK o \in get_next_buffer(p, new, z[1], z[2]) :
            /\ NextSlot \in Slots
            /\ pool[1 - NextSlot] \in SlotType
            /\ Good(p, pool[1 - NextSlot])
            /\ Unknown(new, p)
            /\ Good(o.view, pool[1 - NextSlot])
            /\ pool' = [pool EXCEPT
                          ![NextSlot] = IF o.ok
                                          THEN [o.view.slot EXCEPT !.busy = TRUE]
                                          ELSE o.view.slot]
            /\ file' = o.view.file /\ map' = o.view.map
      BY <3>3
    <3>5. Tracked(p, o.view)
      BY <3>2, <3>4, GetTracks
    <3>6. o.view.slot \in SlotType /\ pool \in [Slots -> SlotType]
          /\ p.slot = pool[NextSlot] /\ p.file = file /\ p.map = map
      BY <3>4 DEF Good, Views, IInv, TypeOK, View
    <3> DEFINE i == NextSlot
               s == o.view.slot
    <3>7. /\ pool'[i].poolfd = s.poolfd /\ pool'[i].surface = s.surface
          /\ \A k \in Slots : k # i => pool'[k] = pool[k]
      BY <3>4, <3>6 DEF SlotType
    <3> HIDE DEF p, i, s
    <3>8. F
      <4> SUFFICES ASSUME NEW x \in Fds, ~OrphanFd(x), OrphanFd(x)'
                   PROVE  \E k \in Slots : pool[k].poolfd = x /\ pool[k].buffer = NULL
        OBVIOUS
      <4>1. file'[x] > 0 /\ \A k \in Slots : pool'[k].poolfd # x
        BY DEF OrphanFd
      <4>2. file[x] > 0 \/ s.poolfd = x
        BY <3>4, <3>5, <3>6, <4>1 DEF Tracked, s
      <4>3. file[x] > 0
        BY <3>4, <3>7, <4>1, <4>2 DEF i
      <4>4. PICK k \in Slots : pool[k].poolfd = x
        BY <4>3 DEF OrphanFd
      <4>5. k = i
        BY <3>7, <4>1, <4>4
      <4>6. p.slot.poolfd = x /\ p.slot.buffer = pool[i].buffer
        BY <3>6, <4>4, <4>5 DEF i
      <4>7. s.poolfd # x
        BY <3>4, <3>7, <4>1 DEF i
      <4>8. p.slot.buffer = NULL
        BY <3>4, <3>5, <4>1, <4>6, <4>7 DEF Tracked, s
      <4> QED BY <4>4, <4>5, <4>6, <4>8
    <3>9. M
      <4> SUFFICES ASSUME NEW m \in Maps, ~OrphanMap(m), OrphanMap(m)'
                   PROVE  \E k \in Slots : pool[k].surface = m /\ pool[k].data = NULL
        OBVIOUS
      <4>1. map'[m] > 0 /\ \A k \in Slots : pool'[k].surface # m
        BY DEF OrphanMap
      <4>2. map[m] > 0 \/ s.surface = m
        BY <3>4, <3>5, <3>6, <4>1 DEF Tracked, s
      <4>3. map[m] > 0
        BY <3>4, <3>7, <4>1, <4>2 DEF i
      <4>4. PICK k \in Slots : pool[k].surface = m
        BY <4>3 DEF OrphanMap
      <4>5. k = i
        BY <3>7, <4>1, <4>4
      <4>6. p.slot.surface = m /\ p.slot.data = pool[i].data
        BY <3>6, <4>4, <4>5 DEF i
      <4>7. s.surface # m
        BY <3>4, <3>7, <4>1 DEF i
      <4>8. p.slot.data = NULL
        BY <3>4, <3>5, <4>1, <4>6, <4>7 DEF Tracked, s
      <4> QED BY <4>4, <4>5, <4>6, <4>8
    <3> QED BY <3>8, <3>9
  <2>2. CASE \E k \in Slots : buffer_handle_release(k)
    <3>1. PICK k \in Slots : buffer_handle_release(k)
      BY <2>2
    <3>2. file' = file /\ map' = map /\ pool' = [pool EXCEPT ![k].busy = FALSE]
          /\ pool \in [Slots -> SlotType]
      BY <3>1 DEF buffer_handle_release, IInv, TypeOK
    <3>3. \A i \in Slots : pool'[i].poolfd = pool[i].poolfd
                             /\ pool'[i].surface = pool[i].surface
      BY <3>2 DEF SlotType
    <3> QED BY <3>2, <3>3 DEF OrphanFd, OrphanMap
  <2> QED BY <2>1, <2>2 DEF Next
<1>2. LostOneWayEach <=> [][A]_vars
  BY DEF LostOneWayEach
<1> HIDE DEF A
<1> QED BY <1>1, <1>2, Inductive, PTL DEF Spec

-------------------------------------------------------------------------------
(* create_buffer closes nothing. *)
LEMMA CreateKeepsStdin ==
  ASSUME NEW p, NEW new, NEW w \in Int, NEW h \in Int, Bytes(w, h) > -Word,
         NEW r \in create_buffer(p, new, w, h)
  PROVE  r.view.stdin = p.stdin
<1>1. CASE Bytes(w, h) = 0
  <2>1. r.view = Hollow(p, w, h)
    BY <1>1 DEF create_buffer
  <2> QED BY <2>1 DEF Hollow
<1>2. CASE Bytes(w, h) # 0
  <2>1. PICK c \in create_pool_file(p.file, Unsigned(Bytes(w, h))) :
          \/ r = [view |-> Opened(p, c), ok |-> FALSE]
          \/ \E m \in Fresh(p.map) :
                r = [view |-> Wrap(Opened(p, c), new, m, w, h), ok |-> TRUE]
    BY <1>2, CreateOutcome
  <2> QED BY <2>1 DEF Opened, Wrap
<1> QED BY <1>1, <1>2

(* Nor does resize_buffer close descriptor 0: its slot has a file of its own. *)
LEMMA ResizeKeepsStdin ==
  ASSUME NEW p \in Views, SlotOK(p.slot, p), p.slot.buffer # NULL, p.stdin,
         NEW new, NEW w, NEW h, NEW q \in resize_buffer(p, new, w, h)
  PROVE  q.stdin
<1> DEFINE s == [p.slot EXCEPT !.surface = NULL, !.data = NULL]
           u == [slot |-> s, file |-> p.file, map |-> Drop(p.map, p.slot.data),
                 shm |-> p.shm, buf |-> p.buf, stdin |-> p.stdin]
<1>1. p.slot \in SlotType /\ p.slot.poolfd # Stdin
  BY DEF Views, SlotOK
<1>2. s.poolfd = p.slot.poolfd
  BY <1>1 DEF SlotType
<1> DEFINE n == Bytes(w, h)
           v(m) == [slot |-> [p.slot EXCEPT !.buffer = new.buffer, !.size = n,
                                            !.width = w, !.height = h,
                                            !.surface = m, !.data = NULL],
                    file |-> [p.file EXCEPT ![p.slot.poolfd] = n],
                    map  |-> [u.map EXCEPT ![m] = n],
                    shm  |-> [p.shm EXCEPT ![p.slot.pool] = n],
                    buf  |-> [Drop(p.buf, p.slot.buffer) EXCEPT
                                 ![new.buffer] = n],
                    stdin |-> p.stdin]
<1>3. q = finish_buffer(u) \/ \E m \in Fresh(u.map) : q = v(m)
  BY DEF resize_buffer
<1>5. \A m : v(m).stdin = p.stdin
  OBVIOUS
<1> HIDE DEF v, u, n
<1> HIDE DEF s
<1>4. CASE q = finish_buffer(u)
  <2>1. finish_buffer(u).stdin = (p.stdin /\ s.poolfd # Stdin)
    BY DEF finish_buffer, u
  <2> QED BY <1>1, <1>2, <1>4, <2>1
<1> QED BY <1>3, <1>4, <1>5

(* get_next_buffer closes it only for a negative size and on a slot that names
   it without having opened it. *)
LEMMA GetStdin ==
  ASSUME NEW p \in Views, SlotOK(p.slot, p), p.stdin,
         NEW new \in News, NEW w \in Int, NEW h \in Int, Bytes(w, h) > -Word,
         NEW r \in get_next_buffer(p, new, w, h), ~r.view.stdin
  PROVE  /\ p.slot.poolfd = Stdin
         /\ p.slot.buffer = NULL
         /\ Bytes(w, h) < 0
<1> DEFINE have == Bytes(p.slot.width, p.slot.height)
           n == Bytes(w, h)
<1>1. PICK q \in fit_buffer(p, new, w, h) :
        r \in IF q.slot.buffer # NULL THEN {[view |-> q, ok |-> TRUE]}
             ELSE create_buffer(q, new, w, h)
  BY DEF get_next_buffer
<1>2. p.slot \in SlotType
  BY DEF Views
<1>3. have \in Nat /\ n \in Int
  BY <1>2, SlotBytes, BytesInt
<1>4. ~q.stdin
  BY <1>1, CreateKeepsStdin
<1>5. CASE have > n
  <2>1. q = finish_buffer(p)
    BY <1>1, <1>5 DEF fit_buffer
  <2>2. q.stdin = (p.stdin /\ p.slot.poolfd # Stdin)
    BY <2>1 DEF finish_buffer
  <2>3. p.slot.poolfd = Stdin
    BY <1>4, <2>2
  <2>4. p.slot.buffer = NULL
    BY <2>3 DEF SlotOK
  <2>5. have = 0
    BY <2>4 DEF SlotOK
  <2> HIDE DEF have, n
  <2>6. n < 0
    BY <1>3, <1>5, <2>5
  <2> QED BY <2>3, <2>4, <2>6 DEF n
<1>6. CASE have > 0 /\ have < n
  <2>1. q \in resize_buffer(p, new, w, h)
    BY <1>1, <1>3, <1>6 DEF fit_buffer
  <2>2. p.slot.buffer # NULL
    BY <1>3, <1>6 DEF SlotOK
  <2> QED BY <1>4, <2>1, <2>2, ResizeKeepsStdin
<1>7. CASE ~(have > n) /\ ~(have > 0 /\ have < n)
  BY <1>1, <1>4, <1>7 DEF fit_buffer
<1> QED BY <1>5, <1>6, <1>7

(* Only a negative size costs a program its descriptor 0, and only while a slot
   names it that has no file. *)
THEOREM StdinKept == Spec => StdinClosedOneWay
<1> DEFINE A == (stdin /\ ~stdin') =>
                  /\ pool[NextSlot].poolfd = Stdin
                  /\ pool[NextSlot].buffer = NULL
                  /\ \E z \in Sizes : Bytes(z[1], z[2]) < 0
                                       /\ surface_render(z[1], z[2])
<1>1. IInv /\ [Next]_vars => [A]_vars
  <2> SUFFICES ASSUME IInv, Next, stdin, ~stdin'
               PROVE  /\ pool[NextSlot].poolfd = Stdin
                      /\ pool[NextSlot].buffer = NULL
                      /\ \E z \in Sizes : Bytes(z[1], z[2]) < 0
                                           /\ surface_render(z[1], z[2])
    OBVIOUS
  <2>1. PICK z \in Sizes : surface_render(z[1], z[2])
    BY DEF Next, buffer_handle_release
  <2>2. z[1] \in Int /\ z[2] \in Int /\ Bytes(z[1], z[2]) > -Word
    BY PoolBufferAssumption
  <2> DEFINE p == View(NextSlot)
  <2>3. \E new \in News : \E o \in get_next_buffer(p, new, z[1], z[2]) :
          Good(p, pool[1 - NextSlot]) /\ stdin' = o.view.stdin
    BY <2>1, <2>2, RenderOutcome
  <2>4. p.slot = pool[NextSlot] /\ p.stdin
    BY DEF View
  <2> HIDE DEF p
  <2>5. p \in Views /\ SlotOK(p.slot, p)
    BY <2>3 DEF Good
  <2>6. /\ p.slot.poolfd = Stdin /\ p.slot.buffer = NULL
        /\ Bytes(z[1], z[2]) < 0
    BY <2>2, <2>3, <2>4, <2>5, GetStdin
  <2> QED BY <2>1, <2>4, <2>6
<1>2. StdinClosedOneWay <=> [][A]_vars
  BY DEF StdinClosedOneWay
<1> HIDE DEF A
<1> QED BY <1>1, <1>2, Inductive, PTL DEF Spec

-------------------------------------------------------------------------------
(* What the drawing code sees of a slot. *)
Seen(s) == [buffer |-> s.buffer, width |-> s.width, height |-> s.height,
            busy |-> s.busy]

Made(new, w, h) == [buffer |-> IF Bytes(w, h) = 0 THEN NULL ELSE new.buffer,
                    width |-> w, height |-> h, busy |-> FALSE]

(* What the compositor makes a wl_buffer of, or nobody has to. *)
Drawable(w, h) == Bytes(w, h) = 0 \/ (w > 0 /\ h > 0)

(* create_buffer gives a slot the size asked for, or leaves what is seen of it
   as it was. *)
LEMMA CreateSeen ==
  ASSUME NEW p \in Views, NEW new \in News, NEW w \in Int, NEW h \in Int,
         Bytes(w, h) > -Word,
         NEW r \in create_buffer(p, new, w, h),
         p.slot.buffer = NULL, ~p.slot.busy
  PROVE  /\ r.ok \in BOOLEAN
         /\ r.ok => Seen(r.view.slot) = Made(new, w, h) /\ Drawable(w, h)
         /\ ~r.ok => Bytes(w, h) # 0 /\ Seen(r.view.slot) = Seen(p.slot)
<1>1. p.slot \in SlotType /\ p.slot.busy = FALSE
  BY DEF Views, SlotType
<1>2. CASE Bytes(w, h) = 0
  <2> DEFINE s == [p.slot EXCEPT !.data = NULL, !.size = 0, !.width = w,
                                 !.height = h, !.surface = NULL]
  <2>1. r.ok = TRUE /\ r.view = Hollow(p, w, h)
    BY <1>2 DEF create_buffer
  <2>2. Hollow(p, w, h).slot = s
    BY DEF Hollow
  <2>3. /\ s.buffer = NULL /\ s.width = w /\ s.height = h
        /\ s.busy = p.slot.busy
    BY <1>1 DEF SlotType
  <2> QED
    BY <1>1, <1>2, <2>1, <2>2, <2>3 DEF Seen, Made, Drawable
<1>3. CASE Bytes(w, h) # 0
  <2>1. PICK c \in create_pool_file(p.file, Unsigned(Bytes(w, h))) :
          \/ r = [view |-> Opened(p, c), ok |-> FALSE]
          \/ /\ w > 0 /\ h > 0
             /\ \E m \in Fresh(p.map) :
                  r = [view |-> Wrap(Opened(p, c), new, m, w, h), ok |-> TRUE]
    BY <1>3, CreateOutcome
  <2>2. /\ Opened(p, c).slot = [p.slot EXCEPT !.poolfd = c.fd]
        /\ Opened(p, c).slot.buffer = p.slot.buffer
        /\ Opened(p, c).slot.width = p.slot.width
        /\ Opened(p, c).slot.height = p.slot.height
        /\ Opened(p, c).slot.busy = p.slot.busy
    BY <1>1 DEF Opened, SlotType
  <2>3. CASE r = [view |-> Opened(p, c), ok |-> FALSE]
    BY <1>3, <2>2, <2>3 DEF Seen
  <2>4. CASE /\ w > 0 /\ h > 0
             /\ \E m \in Fresh(p.map) :
                  r = [view |-> Wrap(Opened(p, c), new, m, w, h), ok |-> TRUE]
    <3>1. PICK m \in Fresh(p.map) :
            r = [view |-> Wrap(Opened(p, c), new, m, w, h), ok |-> TRUE]
      BY <2>4
    <3>2. /\ r.ok = TRUE
          /\ r.view.slot.buffer = new.buffer
          /\ r.view.slot.width = w /\ r.view.slot.height = h
          /\ r.view.slot.busy = Opened(p, c).slot.busy
      BY <3>1 DEF Wrap
    <3> QED
      BY <1>1, <1>3, <2>2, <2>4, <3>2 DEF Seen, Made, Drawable
  <2> QED
    BY <2>1, <2>3, <2>4
<1> QED
  BY <1>2, <1>3

(* get_next_buffer, as the drawing code sees it. *)
LEMMA GetSeen ==
  ASSUME NEW p, NEW other \in SlotType, Good(p, other), ~p.slot.busy,
         NEW new \in News, Unknown(new, p), NEW w \in Int, NEW h \in Int,
         Bytes(w, h) > -Word,
         NEW r \in get_next_buffer(p, new, w, h)
  PROVE  [slot |-> Seen(r.view.slot), ok |-> r.ok] \in
            Promise!get_next_buffer(Seen(p.slot), new.buffer, w, h)
<1> DEFINE have == Bytes(p.slot.width, p.slot.height)
           n == Bytes(w, h)
           fits == p.slot.buffer # NULL /\ have = n
           created == Made(new, w, h)
           left == IF p.slot.buffer = NULL /\ n > 0 THEN Seen(p.slot) ELSE Promise!EmptySlot
<1>1. PICK q \in fit_buffer(p, new, w, h) :
        r \in IF q.slot.buffer # NULL THEN {[view |-> q, ok |-> TRUE]}
             ELSE create_buffer(q, new, w, h)
  BY DEF get_next_buffer
<1>2. /\ p \in Views /\ p.slot \in SlotType /\ SlotOK(p.slot, p)
      /\ p.slot.busy = FALSE
  BY DEF Good, Views, SlotType
<1>3. have \in Nat /\ n \in Int
  BY <1>2, SlotBytes, BytesInt
<1>4. Seen(ZeroSlot) = Promise!EmptySlot
  BY DEF Seen, ZeroSlot, Promise!EmptySlot
<1>5. \/ fits /\ r.ok = TRUE /\ Seen(r.view.slot) = Seen(p.slot)
      \/ ~fits /\ r.ok = TRUE /\ Seen(r.view.slot) = created /\ Drawable(w, h)
      \/ ~fits /\ r.ok = FALSE /\ n # 0 /\ Seen(r.view.slot) = left
  <2>1. ASSUME q \in Views, q.slot = ZeroSlot, p.slot.buffer # NULL \/ n < 0, have # n
        PROVE  \/ ~fits /\ r.ok = TRUE /\ Seen(r.view.slot) = created /\ Drawable(w, h)
               \/ ~fits /\ r.ok = FALSE /\ n # 0 /\ Seen(r.view.slot) = left
    <3>1. q.slot.buffer = NULL /\ ~q.slot.busy
      BY <2>1 DEF ZeroSlot
    <3>2. r \in create_buffer(q, new, w, h)
      BY <1>1, <3>1
    <3>3. \/ r.ok = TRUE /\ Seen(r.view.slot) = created /\ Drawable(w, h)
          \/ r.ok = FALSE /\ n # 0 /\ Seen(r.view.slot) = Seen(ZeroSlot)
      <4>1. q \in Views /\ q.slot.buffer = NULL /\ ~q.slot.busy
        BY <2>1, <3>1
      <4>2. /\ r.ok \in BOOLEAN
            /\ r.ok => Seen(r.view.slot) = Made(new, w, h) /\ Drawable(w, h)
            /\ ~r.ok => Bytes(w, h) # 0 /\ Seen(r.view.slot) = Seen(q.slot)
        <5> HIDE DEF created, left, fits, n, have
        <5> QED
          BY <3>2, <4>1, CreateSeen
      <4> QED
        BY <2>1, <4>2
    <3>4. left = Seen(ZeroSlot) /\ ~fits
      BY <1>2, <1>3, <1>4, <2>1
    <3> HIDE DEF created, left, fits, n, have
    <3> QED
      BY <1>3, <3>3, <3>4
  <2>2. CASE have > n
    <3>1. q = finish_buffer(p)
      BY <1>1, <2>2 DEF fit_buffer
    <3>2. p.slot.buffer # NULL \/ n < 0
      BY <1>2, <1>3, <2>2 DEF SlotOK
    <3>3. Finishable(p, other)
      BY <1>2 DEF Good, Finishable, SlotOK
    <3>4. q \in Views /\ q.slot = ZeroSlot
      BY <3>1, <3>3, FinishGood DEF Good
    <3>5. have # n
      BY <1>3, <2>2
    <3> HIDE DEF created, left, fits, n, have
    <3> QED
      BY <2>1, <3>2, <3>4, <3>5
  <2>3. CASE have > 0 /\ have < n
    <3>1. q \in resize_buffer(p, new, w, h)
      BY <1>1, <1>3, <2>3 DEF fit_buffer
    <3>2. p.slot.buffer # NULL
      BY <1>2, <1>3, <2>3 DEF SlotOK
    <3>3. q \in Views
      BY <1>3, <2>3, <3>1, <3>2, ResizeGood DEF Good
    <3>0. have # n
      BY <1>3, <2>3
    <3>4. CASE q.slot = ZeroSlot
      <4> HIDE DEF created, left, fits, n, have
      <4> QED
        BY <2>1, <3>0, <3>2, <3>3, <3>4
    <3>5. CASE Resized(p.slot, q.slot, new, w, h)
      <4>1. /\ q.slot.buffer = new.buffer
            /\ q.slot.width = w /\ q.slot.height = h
            /\ q.slot.busy = p.slot.busy
        BY <3>5 DEF Resized
      <4>2. r = [view |-> q, ok |-> TRUE]
        BY <1>1, <4>1, PoolBufferAssumption DEF News
      <4>3. n # 0
        BY <1>3, <2>3
      <4>4. Seen(q.slot) = created
        BY <1>2, <4>1, <4>3 DEF Seen, Made
      <4>5. Drawable(w, h)
        BY <3>5 DEF Resized, Drawable
      <4> HIDE DEF created, left, n, have
      <4> QED
        BY <3>0, <4>2, <4>4, <4>5
    <3>6. q.slot = ZeroSlot \/ Resized(p.slot, q.slot, new, w, h)
      BY <1>2, <3>1, ResizeSlot
    <3> HIDE DEF created, left, fits, n, have
    <3> QED
      BY <3>4, <3>5, <3>6
  <2>4. CASE have = n \/ (have = 0 /\ n > 0)
    <3>1. q = p
      BY <1>1, <1>3, <2>4 DEF fit_buffer
    <3>2. CASE p.slot.buffer # NULL
      <4>1. have > 0
        BY <1>2, <1>3, <3>2 DEF SlotOK
      <4>2. r = [view |-> p, ok |-> TRUE]
        BY <1>1, <3>1, <3>2
      <4> QED
        BY <1>3, <2>4, <3>2, <4>1, <4>2
    <3>3. CASE p.slot.buffer = NULL
      <4>1. r \in create_buffer(p, new, w, h)
        BY <1>1, <3>1, <3>3
      <4>2. /\ r.ok \in BOOLEAN
            /\ r.ok => Seen(r.view.slot) = created /\ Drawable(w, h)
            /\ ~r.ok => n # 0 /\ Seen(r.view.slot) = Seen(p.slot)
        BY <1>2, <3>3, <4>1, CreateSeen
      <4>0. have = 0
        BY <1>2, <3>3 DEF SlotOK
      <4>3. ~fits /\ (n # 0 => left = Seen(p.slot))
        BY <2>4, <3>3, <4>0
      <4> HIDE DEF created, left, fits, n, have
      <4> QED
        BY <1>3, <4>2, <4>3
    <3> QED
      BY <3>2, <3>3
  <2>5. have > n \/ (have > 0 /\ have < n) \/ have = n \/ (have = 0 /\ n > 0)
    <3> HIDE DEF have, n
    <3> QED
      BY <1>3
  <2> QED
    BY <2>2, <2>3, <2>4, <2>5
<1> QED
  BY <1>3, <1>5 DEF Promise!get_next_buffer, Promise!Created, Promise!Possible,
                    Promise!Bytes, Promise!Stride, Drawable, Bytes, Stride, Seen, Made

(* The slots of the abstract pool, as the refinement maps them. *)
AbstractSlots == [i \in Slots |-> [buffer |-> pool[i].buffer,
                                  width  |-> pool[i].width,
                                  height |-> pool[i].height,
                                  busy   |-> pool[i].busy]]

(* surface_render is the abstract pool's step for the same width and height. *)
LEMMA RenderRefines ==
  ASSUME IInv, IInv', NEW z \in Sizes, surface_render(z[1], z[2])
  PROVE  Promise!PoolRender(z[1], z[2])
<1> DEFINE w == z[1]
           h == z[2]
           k == NextSlot
<1>1. w \in Int /\ h \in Int /\ Bytes(w, h) > -Word
  BY PoolBufferAssumption
<1>2. PICK new \in News :
      \E o \in get_next_buffer(View(k), new, w, h) :
        /\ k \in Slots
        /\ ~pool[k].busy
        /\ pool[1 - k] \in SlotType
        /\ Good(View(k), pool[1 - k])
        /\ Unknown(new, View(k))
        /\ Good(o.view, pool[1 - k])
        /\ pool' = [pool EXCEPT ![k] = IF o.ok THEN [o.view.slot EXCEPT !.busy = TRUE]
                                              ELSE o.view.slot]
  BY <1>1, RenderOutcome
<1>3. PICK o \in get_next_buffer(View(k), new, w, h) :
        /\ k \in Slots
        /\ ~pool[k].busy
        /\ pool[1 - k] \in SlotType
        /\ Good(View(k), pool[1 - k])
        /\ Unknown(new, View(k))
        /\ Good(o.view, pool[1 - k])
        /\ pool' = [pool EXCEPT ![k] = IF o.ok THEN [o.view.slot EXCEPT !.busy = TRUE]
                                              ELSE o.view.slot]
  BY <1>2
<1>4. View(k).slot = pool[k]
  BY DEF View
<1> DEFINE out == [slot |-> Seen(o.view.slot), ok |-> o.ok]
<1>5. out \in Promise!get_next_buffer(Seen(pool[k]), new.buffer, w, h)
  BY <1>1, <1>3, <1>4, GetSeen
<1>6. /\ AbstractSlots[k] = Seen(pool[k])
      /\ AbstractSlots' = [AbstractSlots EXCEPT ![k] = [out.slot EXCEPT !.busy = out.ok]]
  <2>1. AbstractSlots[k] = Seen(pool[k])
    BY <1>3 DEF AbstractSlots, Seen
  <2>2. o.view.slot \in SlotType
    BY <1>3 DEF Good, Views
  <2>3. pool[k].busy = FALSE
    BY <1>3 DEF IInv, TypeOK, SlotType
  <2>4. o.ok \in BOOLEAN /\ (~o.ok => o.view.slot.busy = FALSE)
    <3>1. Seen(pool[k]).busy = FALSE /\ Promise!EmptySlot.busy = FALSE
      BY <2>3 DEF Seen, Promise!EmptySlot
    <3>2. out.ok \in BOOLEAN /\ (~out.ok => out.slot.busy = FALSE)
      <4> DEFINE s == Seen(pool[k])
      <4>1. \/ out = [slot |-> s, ok |-> TRUE]
            \/ out = [slot |-> Promise!Created(new.buffer, w, h), ok |-> TRUE]
            \/ out = [slot |-> s, ok |-> FALSE]
            \/ out = [slot |-> Promise!EmptySlot, ok |-> FALSE]
        <5>1. out \in Promise!get_next_buffer(s, new.buffer, w, h)
          BY <1>5
        <5> HIDE DEF out, s, k, w, h
        <5> QED
          BY <5>1 DEF Promise!get_next_buffer
      <4>2. s.busy = FALSE
        BY <3>1
      <4>3. \/ out.ok = TRUE
            \/ out.ok = FALSE /\ out.slot = s
            \/ out.ok = FALSE /\ out.slot = Promise!EmptySlot
        <5> HIDE DEF out, s
        <5> QED
          BY <4>1
      <4> HIDE DEF out, s
      <4> QED
        BY <3>1, <4>2, <4>3
    <3> QED
      BY <3>2 DEF Seen
  <2>5. AbstractSlots' = [i \in Slots |-> Seen(pool'[i])]
    BY DEF AbstractSlots, Seen
  <2>6. Seen(pool'[k]) = [out.slot EXCEPT !.busy = out.ok]
    <3>1. pool'[k] = IF o.ok THEN [o.view.slot EXCEPT !.busy = TRUE] ELSE o.view.slot
      BY <1>3 DEF IInv, TypeOK
    <3>2. /\ pool'[k].buffer = o.view.slot.buffer
          /\ pool'[k].width = o.view.slot.width
          /\ pool'[k].height = o.view.slot.height
          /\ pool'[k].busy = o.ok
      BY <2>2, <2>4, <3>1 DEF SlotType
    <3> QED
      BY <3>2 DEF Seen
  <2>7. ASSUME NEW i \in Slots, i # k
        PROVE  Seen(pool'[i]) = AbstractSlots[i]
    BY <1>3, <2>7 DEF IInv, TypeOK, AbstractSlots, Seen
  <2>8. AbstractSlots = [i \in Slots |-> AbstractSlots[i]]
    BY DEF AbstractSlots
  <2> HIDE DEF out
  <2> QED
    BY <1>3, <2>1, <2>5, <2>6, <2>7, <2>8
<1>7. Promise!FreeSlots # {} /\ Promise!NextSlot = k
  <2>1. Promise!FreeSlots = FreeSlots
    BY DEF Promise!FreeSlots, FreeSlots, Promise!Slots, Slots
  <2>2. k \in FreeSlots
    BY <1>3 DEF FreeSlots
  <2> QED
    BY <2>1, <2>2 DEF Promise!NextSlot, NextSlot
<1>8. new.buffer \in Buffers \ {AbstractSlots[i].buffer : i \in Slots}
  <2>1. new.buffer \in Buffers /\ buf[new.buffer] = 0
    BY <1>2, <1>3 DEF News, Unknown, View
  <2>2. ASSUME NEW i \in Slots, pool[i].buffer = new.buffer
        PROVE  FALSE
    <3>1. SlotOK(pool[i], View(i))
      BY DEF IInv, SlotsSound, Good, View
    <3>2. pool[i].buffer # NULL
      BY <2>1, <2>2, PoolBufferAssumption
    <3>3. buf[new.buffer] > 0
      BY <2>2, <3>1, <3>2 DEF SlotOK, View
    <3> QED
      BY <2>1, <3>3
  <2> QED
    BY <2>1, <2>2 DEF AbstractSlots
<1>9. Promise!PoolRender(w, h)
  <2>1. AbstractSlots' = [AbstractSlots EXCEPT ![Promise!NextSlot] =
                            [out.slot EXCEPT !.busy = out.ok]]
    BY <1>6, <1>7
  <2>2. out \in Promise!get_next_buffer(AbstractSlots[Promise!NextSlot], new.buffer, w, h)
    BY <1>5, <1>6, <1>7
  <2> HIDE DEF out, w, h, k
  <2> QED
    BY <1>7, <1>8, <2>1, <2>2 DEF Promise!PoolRender, AbstractSlots, Promise!Slots, Slots
<1> QED
  BY <1>9

(* pool-buffer.c, with every failure of a system call it meets, implements the
   two-slot pool that surface_render is written against. *)
THEOREM Refinement == Spec => ImplementsBufferPool
<1>1. Init => Promise!PoolInit
  BY DEF Init, ZeroSlot, Promise!PoolInit, Promise!EmptySlot, Promise!Slots, Slots
<1>2. IInv /\ IInv' /\ [Next]_vars => [Promise!PoolNext]_AbstractSlots
  <2> SUFFICES ASSUME IInv, IInv', [Next]_vars
               PROVE  Promise!PoolNext \/ UNCHANGED AbstractSlots
    OBVIOUS
  <2>1. CASE \E z \in Sizes : surface_render(z[1], z[2])
    BY <2>1, RenderRefines DEF Promise!PoolNext
  <2>2. CASE \E i \in Slots : buffer_handle_release(i)
    <3>1. PICK i \in Slots : buffer_handle_release(i)
      BY <2>2
    <3>2. Promise!PoolRelease(i)
      BY <3>1 DEF buffer_handle_release, Promise!PoolRelease, IInv, TypeOK, SlotType
    <3> QED
      BY <3>1, <3>2 DEF Promise!PoolNext, Promise!Slots, Slots
  <2>3. CASE UNCHANGED vars
    BY <2>3 DEF vars, AbstractSlots
  <2> QED
    BY <2>1, <2>2, <2>3 DEF Next
<1> QED
  BY <1>1, <1>2, Inductive, PTL
     DEF Spec, ImplementsBufferPool, Promise!PoolSpec, AbstractSlots

(* A slot that get_next_buffer returns has as many bytes as it was asked for. *)
LEMMA GetFits ==
  ASSUME NEW p, NEW other \in SlotType, Good(p, other), ~p.slot.busy,
         NEW new \in News, Unknown(new, p), NEW w \in Int, NEW h \in Int,
         Bytes(w, h) > -Word,
         NEW o \in get_next_buffer(p, new, w, h), o.ok
  PROVE  Bytes(o.view.slot.width, o.view.slot.height) = Bytes(w, h)
<1> DEFINE s == Seen(p.slot)
           t == Seen(o.view.slot)
<1>1. [slot |-> t, ok |-> o.ok] \in Promise!get_next_buffer(s, new.buffer, w, h)
  BY GetSeen
<1>2. \/ Bytes(s.width, s.height) = Bytes(w, h) /\ t = s
      \/ t = Promise!Created(new.buffer, w, h)
  <2> DEFINE out == [slot |-> t, ok |-> o.ok]
  <2>1. out.slot = t /\ out.ok
    OBVIOUS
  <2>2. out \in Promise!get_next_buffer(s, new.buffer, w, h)
    BY <1>1
  <2>0. Promise!Bytes(s.width, s.height) = Bytes(s.width, s.height)
        /\ Promise!Bytes(w, h) = Bytes(w, h)
    BY DEF Promise!Bytes, Bytes, Promise!Stride, Stride
  <2> HIDE DEF s, t, out
  <2>3. CASE s.buffer # NULL /\ Bytes(s.width, s.height) = Bytes(w, h)
    <3>1. out = [slot |-> s, ok |-> TRUE]
      BY <2>0, <2>2, <2>3 DEF Promise!get_next_buffer
    <3> QED
      BY <2>1, <2>3, <3>1
  <2>4. CASE ~(s.buffer # NULL /\ Bytes(s.width, s.height) = Bytes(w, h))
    <3>1. \/ out = [slot |-> Promise!Created(new.buffer, w, h), ok |-> TRUE]
          \/ out = [slot |-> s, ok |-> FALSE]
          \/ out = [slot |-> Promise!EmptySlot, ok |-> FALSE]
      BY <2>0, <2>2, <2>4 DEF Promise!get_next_buffer
    <3>2. out = [slot |-> Promise!Created(new.buffer, w, h), ok |-> TRUE] =>
            out.slot = Promise!Created(new.buffer, w, h)
      OBVIOUS
    <3>3. /\ out # [slot |-> s, ok |-> FALSE]
          /\ out # [slot |-> Promise!EmptySlot, ok |-> FALSE]
      BY <2>1
    <3> QED
      BY <2>1, <3>1, <3>2, <3>3
  <2> QED
    BY <2>3, <2>4
<1>3. CASE Bytes(s.width, s.height) = Bytes(w, h) /\ t = s
  BY <1>3 DEF Seen
<1>4. CASE t = Promise!Created(new.buffer, w, h)
  <2>1. t.width = w /\ t.height = h
    BY <1>4 DEF Promise!Created
  <2> QED
    BY <2>1 DEF Seen
<1> QED
  BY <1>2, <1>3, <1>4

(* A frame of one size is never drawn into what was made for another. *)
THEOREM FramesAsAsked == Spec => []DrawnAsAsked
<1>1. IInv => DrawnAsAsked
  <2> SUFFICES ASSUME IInv, FreeSlots # {},
                      NEW z \in Sizes, NEW b \in Unused(buf), NEW q \in Unused(shm),
                      NEW o \in get_next_buffer(View(NextSlot),
                                  [buffer |-> b, pool |-> q], z[1], z[2]),
                      o.ok
               PROVE  /\ Bytes(o.view.slot.width, o.view.slot.height) = Bytes(z[1], z[2])
                      /\ (o.view.slot.buffer = NULL) <=> (Bytes(z[1], z[2]) = 0)
                      /\ o.view.slot.buffer # NULL =>
                           o.view.buf[o.view.slot.buffer] = Bytes(z[1], z[2])
    BY DEF DrawnAsAsked
  <2> DEFINE new == [buffer |-> b, pool |-> q]
  <2>1. z[1] \in Int /\ z[2] \in Int /\ Bytes(z[1], z[2]) > -Word
    BY PoolBufferAssumption
  <2>2. new \in News /\ Unknown(new, View(NextSlot))
    BY DEF IInv, TypeOK, Unused, News, Unknown, View
  <2>3. NextSlot \in Slots /\ 1 - NextSlot \in Slots /\ ~pool[NextSlot].busy
    BY DEF NextSlot, FreeSlots, Slots
  <2>4. /\ pool[1 - NextSlot] \in SlotType
        /\ Good(View(NextSlot), pool[1 - NextSlot])
        /\ View(NextSlot).slot = pool[NextSlot]
    BY <2>3 DEF IInv, TypeOK, SlotsSound, View
  <2>5. Bytes(o.view.slot.width, o.view.slot.height) = Bytes(z[1], z[2])
    BY <2>1, <2>2, <2>3, <2>4, GetFits
  <2>6. Good(o.view, pool[1 - NextSlot])
    BY <2>1, <2>2, <2>4, GetGood
  <2>7. SlotOK(o.view.slot, o.view) /\ o.view.slot.size \in Nat
    BY <2>6 DEF Good, Views, SlotType
  <2> HIDE DEF new
  <2> QED
    BY <2>1, <2>5, <2>7 DEF SlotOK
<1> QED
  BY <1>1, Inductive, PTL
==============================================================================
