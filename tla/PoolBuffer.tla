------------------------------ MODULE PoolBuffer ------------------------------
(***************************************************************************)
(* pool-buffer.c with the system resources it handles: shared-memory files *)
(* behind descriptors, mappings, wl_shm_pool and wl_buffer objects.  Every *)
(* call the kernel may refuse (mkstemp, ftruncate, mmap) may fail here,    *)
(* and does once the finite set of descriptors or mappings is used up      *)
(* (RLIMIT_NOFILE, vm.max_map_count).  A program may ask for a negative    *)
(* size, as resizor does when a drag goes far enough.                      *)
(*                                                                         *)
(* A resource table maps every identity to the size of what it names, 0    *)
(* when nothing has that identity.                                         *)
(***************************************************************************)
EXTENDS ShmGeometry

CONSTANTS Fds,       (* descriptors the process can open, 0 excepted *)
          Stdin,     (* descriptor 0: what a zeroed poolfd names     *)
          NoFd,      (* -1                                           *)
          Maps,      (* the mappings mmap can create                 *)
          Pools,     (* identities of wl_shm_pool objects            *)
          Buffers,   (* identities of wl_buffer objects              *)
          NULL,      (* the C null pointer                           *)
          Sizes,     (* the <<width, height>> pairs asked for        *)
          Word,      (* 2^32: create_buffer's size is unsigned       *)
          Refusing   (* may a call fail that could be served?        *)

ASSUME PoolBufferAssumption ==
  /\ Stdin \notin Fds /\ NoFd \notin Fds /\ Stdin # NoFd
  /\ NULL \notin Maps /\ NULL \notin Pools /\ NULL \notin Buffers
  /\ Sizes \subseteq Int \X Int
  /\ Word \in Nat
  /\ \A z \in Sizes : Bytes(z[1], z[2]) > -Word

VARIABLES pool,      (* struct pool_buffer pool[2]                         *)
          file,      (* bytes of the file behind each open descriptor      *)
          map,       (* bytes of each mapping                              *)
          shm,       (* bytes of each wl_shm_pool the client has not destroyed *)
          buf,       (* bytes of each wl_buffer the client has not destroyed   *)
          stdin      (* has descriptor 0 not been closed since the start?      *)

vars == <<pool, file, map, shm, buf, stdin>>

Slots == 0 .. 1

(* struct pool_buffer.  cairo is left out: it comes and goes with surface, *)
(* which stands for the mapping the cairo surface draws into.              *)
SlotType == [poolfd : Fds \cup {Stdin, NoFd}, pool : Pools \cup {NULL},
             buffer : Buffers \cup {NULL}, surface : Maps \cup {NULL},
             width : Int, height : Int, data : Maps \cup {NULL},
             size : Nat, busy : BOOLEAN]

(* What static initialisation and memset leave: poolfd is 0, a descriptor. *)
ZeroSlot == [poolfd |-> Stdin, pool |-> NULL, buffer |-> NULL,
             surface |-> NULL, width |-> 0, height |-> 0, data |-> NULL,
             size |-> 0, busy |-> FALSE]

(***************************************************************************)
(* The functions of pool-buffer.c work on a view: the slot they are given  *)
(* and the resource tables.                                                *)
(***************************************************************************)
Views == [slot : SlotType, file : [Fds \cup {Stdin} -> Nat],
          map : [Maps -> Nat], shm : [Pools -> Nat], buf : [Buffers -> Nat],
          stdin : BOOLEAN]

View(i) == [slot |-> pool[i], file |-> file, map |-> map, shm |-> shm,
            buf |-> buf, stdin |-> stdin]

Unused(f) == {x \in DOMAIN f : f[x] = 0}

(* The kernel has a rule for the descriptor or the address it hands out,   *)
(* and nothing else depends on it than that descriptor 0 comes first: one  *)
(* unused identity, if any is left.                                        *)
Fresh(f) == IF Stdin \in Unused(f) THEN {Stdin}
            ELSE {x \in Unused(f) : x = CHOOSE y \in Unused(f) : TRUE}

(* Whether a call that needs an unused identity may fail: one member, or none. *)
Failing(f) == IF Refusing \/ Unused(f) = {} THEN {"fails"} ELSE {}

Drop(f, x) == [y \in DOMAIN f |-> IF y = x THEN 0 ELSE f[y]]

(* Mutants of finish_buffer: without close, and without wl_shm_pool_destroy. *)
finish_without_close(p) ==
  [slot |-> ZeroSlot, file |-> p.file, map |-> Drop(p.map, p.slot.data),
   shm |-> Drop(p.shm, p.slot.pool), buf |-> Drop(p.buf, p.slot.buffer),
   stdin |-> p.stdin]

finish_without_destroy(p) ==
  [slot |-> ZeroSlot, file |-> Drop(p.file, p.slot.poolfd),
   map |-> Drop(p.map, p.slot.data), shm |-> p.shm,
   buf |-> Drop(p.buf, p.slot.buffer),
   stdin |-> p.stdin /\ p.slot.poolfd # Stdin]

finish_buffer(p) ==
  [slot |-> ZeroSlot,
   file |-> Drop(p.file, p.slot.poolfd),
   map  |-> Drop(p.map, p.slot.data),
   shm  |-> Drop(p.shm, p.slot.pool),
   buf  |-> Drop(p.buf, p.slot.buffer),
   stdin |-> p.stdin /\ p.slot.poolfd # Stdin]

(* The descriptor returned and the descriptors open afterwards: whichever  *)
(* call fails, the descriptor is closed again before -1 is returned.       *)
create_pool_file(f, size) ==
  {[fd |-> NoFd, file |-> f] : fails \in Failing(f)} \cup
  {[fd |-> x, file |-> [f EXCEPT ![x] = size]] : x \in Fresh(f)}

(* create_buffer with its descriptor stored, -1 included... *)
Opened(p, c) ==
  [slot |-> [p.slot EXCEPT !.poolfd = c.fd],
   file |-> c.file, map |-> p.map, shm |-> p.shm, buf |-> p.buf,
   stdin |-> p.stdin]

(* ... and after the file is mapped at m. *)
Wrap(p, new, m, w, h) ==
  [slot |-> [poolfd |-> p.slot.poolfd, pool |-> new.pool, buffer |-> new.buffer,
             surface |-> m, width |-> w, height |-> h, data |-> m,
             size |-> Bytes(w, h), busy |-> p.slot.busy],
   file |-> p.file,
   map  |-> [p.map EXCEPT ![m] = Bytes(w, h)],
   shm  |-> [p.shm EXCEPT ![new.pool] = Bytes(w, h)],
   buf  |-> [p.buf EXCEPT ![new.buffer] = Bytes(w, h)],
   stdin |-> p.stdin]

(* An area of no bytes gets a cairo surface but no file and no wl_buffer. *)
Hollow(p, w, h) ==
  [slot |-> [p.slot EXCEPT !.data = NULL, !.size = 0, !.width = w, !.height = h,
                           !.surface = NULL],
   file |-> p.file, map |-> p.map, shm |-> p.shm, buf |-> p.buf,
   stdin |-> p.stdin]

(* The size is kept in an unsigned integer. *)
Unsigned(n) == IF n < 0 THEN n + Word ELSE n

(* A wl_shm_pool or wl_buffer with a negative size or side is a protocol error *)
(* and ends the program: what is left of such a call are its failures.         *)
create_buffer(p, new, w, h) ==
  IF Bytes(w, h) = 0 THEN {[view |-> Hollow(p, w, h), ok |-> TRUE]}
  ELSE UNION
    {{[view |-> Opened(p, c), ok |-> FALSE] :
        fails \in IF c.fd = NoFd THEN {"fails"} ELSE Failing(p.map)} \cup
     {[view |-> Wrap(Opened(p, c), new, m, w, h), ok |-> TRUE] :
        m \in {x \in Fresh(p.map) : c.fd # NoFd /\ w > 0 /\ h > 0}} :
       c \in create_pool_file(p.file, Unsigned(Bytes(w, h)))}

(* Mutant of resize_buffer: ftruncate is forgotten. *)
resize_without_ftruncate(p, new, w, h) ==
  {finish_buffer(p) : fails \in Failing(Drop(p.map, p.slot.data))} \cup
  {[slot |-> [p.slot EXCEPT !.buffer = new.buffer, !.size = Bytes(w, h),
                            !.width = w, !.height = h,
                            !.surface = m, !.data = NULL],
    file |-> p.file,
    map  |-> [Drop(p.map, p.slot.data) EXCEPT ![m] = Bytes(w, h)],
    shm  |-> [p.shm EXCEPT ![p.slot.pool] = Bytes(w, h)],
    buf  |-> [Drop(p.buf, p.slot.buffer) EXCEPT ![new.buffer] = Bytes(w, h)],
    stdin |-> p.stdin] :
     m \in Fresh(Drop(p.map, p.slot.data))}

(* The new mapping is not stored in data, so nothing will ever unmap it.  The *)
(* file is whatever poolfd names by now; ftruncate fails if that is nothing.  *)
resize_buffer(p, new, w, h) ==
  LET unmapped == [slot |-> [p.slot EXCEPT !.surface = NULL, !.data = NULL],
                   file |-> p.file, map |-> Drop(p.map, p.slot.data),
                   shm |-> p.shm, buf |-> p.buf, stdin |-> p.stdin]
      open == p.file[p.slot.poolfd] > 0
  IN  {finish_buffer(unmapped) :
         fails \in IF open THEN Failing(unmapped.map) ELSE {"fails"}} \cup
      {[slot |-> [p.slot EXCEPT !.buffer = new.buffer, !.size = Bytes(w, h),
                                !.width = w, !.height = h,
                                !.surface = m, !.data = NULL],
        file |-> [p.file EXCEPT ![p.slot.poolfd] = Bytes(w, h)],
        map  |-> [unmapped.map EXCEPT ![m] = Bytes(w, h)],
        shm  |-> [p.shm EXCEPT ![p.slot.pool] = Bytes(w, h)],
        buf  |-> [Drop(p.buf, p.slot.buffer) EXCEPT
                     ![new.buffer] = Bytes(w, h)],
        stdin |-> p.stdin] :
         m \in {x \in Fresh(unmapped.map) : open /\ w > 0 /\ h > 0}}

(* Mutants of fit_buffer: a larger buffer is resized too; it is good enough;
   one of the same size is finished as well. *)
fit_resizing_both_ways(p, new, w, h) ==
  LET have == Bytes(p.slot.width, p.slot.height)
  IN  IF have > 0 /\ Bytes(w, h) > 0 /\ have # Bytes(w, h)
        THEN resize_buffer(p, new, w, h) ELSE {p}

fit_keeping_larger(p, new, w, h) ==
  LET have == Bytes(p.slot.width, p.slot.height)
  IN  IF have > 0 /\ have < Bytes(w, h) THEN resize_buffer(p, new, w, h) ELSE {p}

fit_finishing_equal(p, new, w, h) ==
  LET have == Bytes(p.slot.width, p.slot.height)
  IN  IF have >= Bytes(w, h) THEN {finish_buffer(p)}
      ELSE IF have > 0 THEN resize_buffer(p, new, w, h) ELSE {p}

(* The part of get_next_buffer before create_buffer: the slot it is left. *)
fit_buffer(p, new, w, h) ==
  LET have == Bytes(p.slot.width, p.slot.height)
  IN  IF have > Bytes(w, h) THEN {finish_buffer(p)}
      ELSE IF have > 0 /\ have < Bytes(w, h) THEN resize_buffer(p, new, w, h)
      ELSE {p}

get_next_buffer(p, new, w, h) ==
  UNION {IF q.slot.buffer # NULL THEN {[view |-> q, ok |-> TRUE]}
         ELSE create_buffer(q, new, w, h) : q \in fit_buffer(p, new, w, h)}

(* Mutant of FreeSlots: busy is not looked at. *)
FreeSlots_any == Slots

(* The scan of get_next_buffer does not stop at a hit: the last one wins. *)
FreeSlots == {i \in Slots : ~pool[i].busy}
NextSlot  == IF 1 \in FreeSlots THEN 1 ELSE 0

-------------------------------------------------------------------------------
Init ==
  /\ pool = [i \in Slots |-> ZeroSlot]
  /\ file = [x \in Fds \cup {Stdin} |-> IF x = Stdin THEN 1 ELSE 0]
  /\ map = [x \in Maps |-> 0]
  /\ shm = [x \in Pools |-> 0]
  /\ buf = [x \in Buffers |-> 0]
  /\ stdin = TRUE

(* surface_render: a slot that was returned is committed and becomes busy. *)
surface_render(w, h) ==
  /\ FreeSlots # {}
  /\ \E b \in Unused(buf), q \in Unused(shm) :
     \E o \in get_next_buffer(View(NextSlot), [buffer |-> b, pool |-> q], w, h) :
        /\ pool' = [pool EXCEPT
                      ![NextSlot] = IF o.ok THEN [o.view.slot EXCEPT !.busy = TRUE]
                                            ELSE o.view.slot]
        /\ file' = o.view.file
        /\ map' = o.view.map
        /\ shm' = o.view.shm
        /\ buf' = o.view.buf
        /\ stdin' = o.view.stdin

(* wl_buffer.release, which the compositor sends for a buffer it was given. *)
buffer_handle_release(i) ==
  /\ pool[i].busy
  /\ pool[i].buffer # NULL
  /\ pool' = [pool EXCEPT ![i].busy = FALSE]
  /\ UNCHANGED <<file, map, shm, buf, stdin>>

Next == \/ \E z \in Sizes : surface_render(z[1], z[2])
        \/ \E i \in Slots : buffer_handle_release(i)

Spec == Init /\ [][Next]_vars

-------------------------------------------------------------------------------
TypeOK == /\ pool \in [Slots -> SlotType]
          /\ file \in [Fds \cup {Stdin} -> Nat]
          /\ map \in [Maps -> Nat]
          /\ shm \in [Pools -> Nat]
          /\ buf \in [Buffers -> Nat]
          /\ stdin \in BOOLEAN

(***************************************************************************)
(* The strengthening: what holds of one slot, of a slot and the other, and *)
(* of the objects the compositor knows.                                    *)
(***************************************************************************)
SlotOK(s, p) ==
  /\ s.poolfd \in Fds => p.file[s.poolfd] > 0
  /\ s.buffer = NULL => /\ s.pool = NULL
                        /\ s.data = NULL
                        /\ s.surface = NULL
                        /\ Bytes(s.width, s.height) = 0
  /\ s.buffer # NULL => /\ s.poolfd \in Fds \cup {Stdin}
                        /\ p.stdin => s.poolfd # Stdin
                        /\ s.poolfd \in Fds => p.file[s.poolfd] = s.size
                        /\ s.pool \in Pools
                        /\ s.surface \in Maps
                        /\ s.data \in {NULL, s.surface}
                        /\ s.size = Bytes(s.width, s.height)
                        /\ s.size > 0
                        /\ p.map[s.surface] = s.size
                        /\ p.shm[s.pool] = s.size
                        /\ p.buf[s.buffer] = s.size

Apart(s, t) ==
  /\ s.poolfd \in Fds => s.poolfd # t.poolfd
  /\ s.surface # NULL => s.surface # t.surface
  /\ s.pool # NULL => s.pool # t.pool
  /\ s.buffer # NULL => s.buffer # t.buffer

Owned(s, t, p) ==
  /\ \A b \in Buffers : p.buf[b] > 0 => b \in {s.buffer, t.buffer}
  /\ \A q \in Pools : p.shm[q] > 0 => q \in {s.pool, t.pool}

Good(p, other) == /\ p \in Views
                  /\ SlotOK(p.slot, p)
                  /\ SlotOK(other, p)
                  /\ Apart(p.slot, other)
                  /\ Owned(p.slot, other, p)
                  /\ p.stdin => p.file[Stdin] > 0

(* Each slot, seen with the other, is sound. *)
SlotsSound == \A i \in Slots : Good(View(i), pool[1 - i])

(* A wl_buffer a slot holds has as many bytes as the slot's width and height
   call for, and all of them are in the pool, in the file behind it and in
   the mapping that is drawn into: neither side can meet a SIGBUS.  This is
   about the slot being reset when ftruncate or mmap fails, and about the three
   sizes after a whole frame; what order resize_buffer changes them in does not
   show here.  Once descriptor 0 has been closed, a slot's file may be opened
   under that number, and then nothing is said of the file: the other slot,
   zeroed, has the same number in its poolfd and may close or truncate it. *)
BuffersBacked ==
  \A i \in Slots : pool[i].buffer # NULL =>
    /\ buf[pool[i].buffer] = Bytes(pool[i].width, pool[i].height)
    /\ buf[pool[i].buffer] > 0
    /\ buf[pool[i].buffer] <= shm[pool[i].pool]
    /\ pool[i].poolfd \in Fds => shm[pool[i].pool] <= file[pool[i].poolfd]
    /\ stdin => pool[i].poolfd \in Fds
    /\ buf[pool[i].buffer] <= map[pool[i].surface]

(* The wl_buffers and wl_shm_pools that exist are the ones the two slots hold,
   each held once: finish_buffer and resize_buffer leave the compositor no
   object behind, whichever call failed. *)
ObjectsOwned ==
  /\ {b \in Buffers : buf[b] > 0} = {pool[i].buffer : i \in Slots} \ {NULL}
  /\ {q \in Pools : shm[q] > 0} = {pool[i].pool : i \in Slots} \ {NULL}
  /\ pool[0].buffer = pool[1].buffer => pool[0].buffer = NULL
  /\ pool[0].pool = pool[1].pool => pool[0].pool = NULL

(* wl_shm_pool_resize may not shrink a pool: as long as a slot keeps its
   wl_shm_pool, the pool and the file behind it only grow from one frame to the
   next (a file under descriptor 0 excepted, see BuffersBacked). *)
PoolsOnlyGrow ==
  [][\A i \in Slots :
        (pool[i].pool # NULL /\ pool'[i].pool = pool[i].pool) =>
          /\ shm'[pool[i].pool] >= shm[pool[i].pool]
          /\ pool[i].poolfd \in Fds =>
               file'[pool[i].poolfd] >= file[pool[i].poolfd]]_vars

(* The descriptor 0 the process was started with is closed in one way only: a
   frame with a negative number of bytes is asked for, every size is larger than
   that, and finish_buffer is called on a slot that has no file of its own and
   whose poolfd is the 0 of zeroed memory.  A program that asks for no negative
   size keeps its standard input. *)
StdinClosedOneWay ==
  [][(stdin /\ ~stdin') =>
        /\ pool[NextSlot].poolfd = Stdin
        /\ pool[NextSlot].buffer = NULL
        /\ \E z \in Sizes : Bytes(z[1], z[2]) < 0 /\ surface_render(z[1], z[2])]_vars

OrphanFd(x)  == file[x] > 0 /\ \A i \in Slots : pool[i].poolfd # x
OrphanMap(m) == map[m] > 0 /\ \A i \in Slots : pool[i].surface # m

(* A descriptor is lost in one way only: create_buffer failed to map its file
   and the slot, still without a wl_buffer, is tried again.  A mapping is lost
   in one way only: the slot it belongs to has been resized, and resize_buffer
   did not store it in data. *)
LostOneWayEach ==
  [][/\ \A x \in Fds : (~OrphanFd(x) /\ OrphanFd(x)') =>
          \E i \in Slots : pool[i].poolfd = x /\ pool[i].buffer = NULL
     /\ \A m \in Maps : (~OrphanMap(m) /\ OrphanMap(m)') =>
          \E i \in Slots : pool[i].surface = m /\ pool[i].data = NULL]_vars

(* pool-buffer.c keeps the promise the drawing code is written against. *)
Promise == INSTANCE BufferPool WITH
  slots <- [i \in Slots |-> [buffer |-> pool[i].buffer,
                             width  |-> pool[i].width,
                             height |-> pool[i].height,
                             busy   |-> pool[i].busy]]

ImplementsBufferPool == Promise!PoolSpec

(* Whatever frames have been drawn or given up before, and whichever size is
   asked for next: the slot returned has as many bytes as that size, and so has
   its wl_buffer.  A slot that was used for another size is replaced unless its
   bytes are the same, and only a size of no bytes gets no wl_buffer. *)
DrawnAsAsked ==
  FreeSlots # {} =>
    \A z \in Sizes, b \in Unused(buf), q \in Unused(shm) :
    \A o \in get_next_buffer(View(NextSlot), [buffer |-> b, pool |-> q], z[1], z[2]) :
      o.ok => LET slot == o.view.slot
                  n == Bytes(z[1], z[2])
              IN  /\ Bytes(slot.width, slot.height) = n
                  /\ (slot.buffer = NULL) <=> (n = 0)
                  /\ slot.buffer # NULL => o.view.buf[slot.buffer] = n
==============================================================================
