# A verification model of wleird

wleird is a set of small Wayland clients that behave oddly on purpose. What
they share is a two-slot buffer pool (`pool-buffer.c`) and a surface that draws
with it (`client.c`); each program adds a few event handlers. This directory
models the shared core and the programs whose oddity is in their control flow,
checks the models with TLC, and proves the main results with TLAPS.

## The system

Every program is single-threaded: `wl_display_dispatch` reads the socket and
runs one handler per event, so handlers never interleave with each other. They
do interleave with the compositor, which reads requests, releases wl_buffers and
sends events in its own time, and with the kernel, which may refuse `mkstemp`,
`ftruncate` or `mmap`.

| Component | State it keeps | Operations | Talks to | Hard part | What makes it correct |
|---|---|---|---|---|---|
| pool-buffer | two `struct pool_buffer`: descriptor, pool, wl_buffer, mapping, size, `busy` | `get_next_buffer`, `create_buffer`, `resize_buffer`, `finish_buffer`, `create_pool_file`, release handler | kernel, wl_shm | calls failing half-way; file, mapping and pool sizes | nobody can touch pages that are not there; no object outlives its slot; a busy slot is left alone |
| client | size, attach offset, slots of a surface; globals, pointer | `surface_render`, `surface_init`, `toplevel_init`, configure handlers, `registry_init`, seat, ping, close | pool-buffer, compositor | frames, releases and configures in flight | `busy` tells the truth; a frame answers the configure acknowledged before it |
| slow-ack-configure | two pending configures, a countdown | configure handlers, frame callback | client, compositor | configures during the wait, an unsigned countdown | one callback chain; serials in order; size and serial stay together; the newest is acknowledged |
| cursor | corner of the hotspot, attach offset | enter, button | client, compositor | absolute and relative positions, skipped frames | both ends agree on the hotspot |
| resize-loop | running size | frame callback, configure | pool-buffer | turning round, resource use | never a frame without pixels; draws for ever |
| resizor | anchor, last position | motion, button | client | clamping before doubling, slots of another shape | size stays in range, anchored corner stays put |
| attach-delta-loop, frame-callback, disobey-resize | position or factor | frame callback, configure | client | callback chains | one chain, which never ends |
| unmap | timers of the event loop | configure, timer | client | a timer per configure | a mapped window is unmapped |
| gamma-blend, sigbus | a registry of their own, the size of a file | start-up only | pool-buffer, compositor | what one roundtrip waits for | first buffer after first configure |
| damage-paint | pattern, frame callback | render, configure | pool-buffer | callback replaced by a configure | one chain, which ends at a frame without a slot only |
| subsurfaces | pointed-at and selected subsurface | enter, leave, button | client | selection across enter and leave | stacking follows the clicks |
| surface-outputs | tracker slots per surface | enter, leave, globals | compositor | full table, duplicates | the slots are a set of outputs |
| copy-fu | descriptor table, source, offer, steal state | data device handlers, poll loop | other clients, kernel | descriptors added while polling, cancelled sources | no descriptor lost or closed twice |
| resource-thief | connections, block size, points | doubling and halving search | compositor | refusals at any point, 32-bit squares | the search finds the limit; points lie on their curve |
| meson.build, protocol | none | none | | | not behaviour |

## Modules

| Module | Models | Correspondence |
|---|---|---|
| `ShmGeometry` | byte sizes of ARGB8888 buffers | `stride * height`, negative when one side is |
| `PoolBuffer` | `pool-buffer.c` in detail | one record per `struct pool_buffer`; tables `file`, `map`, `shm`, `buf` give the bytes behind each descriptor, mapping, wl_shm_pool and wl_buffer, 0 for none. Each C function is an operator from a *view* (slot and tables) to the set of its outcomes; a step is a whole `surface_render` or a release |
| `BufferPool` | what pool-buffer promises the drawing code | two slots with wl_buffer, size and `busy`; no system resources |
| `Surface` | a `wleird_surface`, the socket, the compositor | `requests` and `events` are FIFO; `surface_render` returns the slots, the surface and the requests of each outcome; built on `BufferPool` |
| `BufferOwnership` | the ownership rule for shared-memory buffers | abstract specification |
| `Client` | `client.c`'s own handlers, and what holds of every program that uses them | one action per handler |
| `LoopSizes` | the arithmetic of resize-loop's sizes | `Turned` is one frame callback, `Absolute` what is drawn |
| `Programs` | default toplevel, frame-callback, attach-delta-loop, resize-loop, disobey-resize, damage-paint, unmap | `Init` chooses the program; one action per handler, `Expiry` for unmap's timers; `live` and `dead` say which frame callbacks the program waits for and which it has destroyed |
| `SlowAck` | `slow-ack-configure.c` | one action per branch of each handler |
| `Cursor` | the cursor surface of `cursor.c` | one action per handler |
| `ResizeLoop` | resize-loop on top of `PoolBuffer` | one action per handler |
| `CopyFu` | what the two halves of `copy-fu.c` share | the mode, and the queue of events that handlers are called from |
| `CopySource` | `copy-fu.c`: the data source and the modes that steal the selection | one action per handler; `Loop` is the block at the end of the main loop |
| `CopyTransfers` | `copy-fu.c`: offers, descriptors, `poll` and what it serves | one action per handler; `TransferLoop` is one turn from `poll` to `remove_done_fds`, `Killed` one that meets SIGPIPE |
| `Resizor` | `resizor.c`, built on `BufferPool` | one action per handler, both axes; a frame is drawn in a slot of any shape with the right bytes, or skipped |
| `OutputSet` | what surface-outputs promises | a set of outputs per surface |
| `SurfaceOutputs` | `surface-outputs.c` | one action per handler, with the socket and the compositor |
| `Subsurfaces` | the pointer handlers of `subsurfaces.c` | operators from the clicks' state to the next, and what placements do to the stack |
| `Startup` | start of cursor and resizor, copy-fu, subsurfaces, gamma-blend, sigbus; registry, seat, ping and close of `client.c` | `main` is a script of calls and `pc` the next one; a call that waits takes a step per batch of events; every batch is a prefix of what has arrived, and all of it is handled before the call can return |
| `ResourceThief` | `resource-thief.c` | `consume` is an attempt of several steps, one per resource and roundtrip; `Returned` is its return with what `main` does with it |
| `PoolBufferProofs`, `SurfaceProofs`, `ProgramProofs`, `SlowAckProofs`, `CopyProofs`, `ArithmeticProofs`, `OutputProofs`, `StartupProofs` | theorems | see Proofs |

`PoolBuffer` extends `ShmGeometry` and is shown to implement `BufferPool`;
`Surface` and `Resizor` extend `BufferPool`, and `Client`, `SlowAck` and `Cursor` extend
`Surface`; `Programs` extends `Client` and `LoopSizes`; `ResizeLoop` extends
`PoolBuffer`, since what it does to the resources of the pool is its point.
`Startup` extends `Subsurfaces`: the clicks are made while `main` starts, and
after. `Programs`, through `Client`, is shown to implement `BufferOwnership`, and
`SurfaceOutputs` to implement `OutputSet`. `CopySource` and `CopyTransfers` both
extend `CopyFu`, and are checked apart because they share no state but the mode and
the event queue; each has the events it needs. The
`MC*` modules give values to the constants. An operator whose name is that of
a modelled one with a suffix (`Offset_turned`, `finish_without_close`) is a
mutant of it: a slip the properties are tried against, used by no other
definition.

In `PoolBuffer` a resource table has a finite domain. When all identities are in
use the call fails, as it does at `RLIMIT_NOFILE` or `vm.max_map_count`; with
`Refusing` it may also fail at any other time. Which unused identity is handed
out is fixed, because nothing depends on it, except that descriptor 0 comes first
when it is free. Only wl_buffer and wl_shm_pool identities are chosen freely,
which makes them symmetric.

Sizes may be negative in `PoolBuffer`, as resizor's are after a centred drag that
went far enough. cairo's stride of a negative width is -1, `create_buffer` keeps
the byte count in an unsigned integer (`Word`, 2^32), and the compositor ends the
program with a protocol error when it is asked for a pool or wl_buffer with a
negative side: of such a call the failures before that are left, and the
handlers that may run before the error is read are left out. Every
negative count is smaller than the 0 of a zeroed slot, upon which
`get_next_buffer` calls `finish_buffer` on a slot without resources and closes
descriptor 0 (`stdin` says whether it has). From then on a slot's file may be
opened under the number 0, which the other, zeroed slot holds in its `poolfd` too
and may close or truncate: the model follows it there, and `BuffersBacked` and
`PoolsOnlyGrow` say nothing of a file under that number.

A surface commit carries the size of its wl_buffer rather than that of the
`wleird_surface`, because `get_next_buffer` compares byte sizes: a slot of the
transposed size is returned as it is. `FrameAnswersAck` and `LateFrameMatches`
therefore compare bytes; `DrawnAsAsked` says the same of `PoolBuffer`.

In `Startup` a seat that is advertised has a pointer all along, or gets one at some
time or never (`seat`); a pointer may be lost and come back. Each is told by a
capabilities event once the seat is bound, and the client asks for a wl_pointer
at the first that names one (`WantsPointer`). main sets the pointer's listener
once; the events of a wl_pointer it comes too late for are dropped when their turn
comes, and are left out.

In `CopyTransfers` a descriptor number is reused as soon as it is closed, and
stands for the pipe or socket behind it. The number of a descriptor that
another client sends us is taken when its event is read. What a pipe holds is
counted in reads of 4096 bytes. A pipe without a writer reports `POLLHUP`; one
without a reader reports `POLLERR`, for which the loop has no code, and
`POLLOUT` while it has room, upon which the write raises SIGPIPE.

## Runs

| Run | Checks | Shows |
|---|---|---|
| `pool_buffer` | `BuffersBacked`, `ObjectsOwned`, `PoolsOnlyGrow`, `StdinClosedOneWay`, `LostOneWayEach`, `DrawnAsAsked`, `ImplementsBufferPool` | whichever call fails and whatever size is asked for, no side can touch missing pages, no protocol object is lost, pools only grow; descriptor 0 is closed by a negative size only; a descriptor or a mapping is lost in one known way each; a frame has the bytes of the very size it was asked for; the abstract pool is implemented |
| `client` | `BusyIsOut`, `FrameAnswersAck`, `LastConfigureShown`, `OneChain`, `SizeInRange`, `ImplementsOwnership`, `SlotFreed`, `CallsForever`, `UnmapsAgain` | for seven programs: a wl_buffer is out of the client's hands exactly while its slot is busy; frames answer what was acknowledged; the last configure is what is shown, unless no slot was free; two busy slots are freed again; one chain of frame callbacks, which with three of the programs goes on for ever; resize-loop stays in its range; what unmap displays it takes down again |
| `slow_ack` | `OneCallbackWhileWaiting`, `AcksInOrder`, `LateFrameMatches`, `LastConfigureAcked` | one callback chain, serials in order, size and serial stay together; while the surface stays on screen the newest configure is acknowledged in the end |
| `slow_ack_empty` | `AnswersHaveContent`, **violated** | after configures that leave the size to the client, the late answer attaches NULL |
| `cursor` | `HotspotFollowsFrames` | both ends agree on the hotspot as long as every click gets a frame |
| `resize_loop_leak` | `ResizesForever`, **violated** | mappings are leaked until nothing can be drawn; no call fails before they, or the descriptors, are used up |
| `copy_source` | `CancelledIsCurrent`, `OneAttempt`, `TriesForever` | clicks, cancellations and stealing leave one live source, one sync on its way, and a source to select when its answer comes; steal-sync tries for ever |
| `copy_transfers` | `TableSound`, `OpenAccounted`, `SelectionIsOffer`, `LeftWhenOver`, `TransfersEnd` | no descriptor is lost, or polled once closed; selections are received from their own offer; transfers leave the table when they are over and not before, except for a full pipe of random bytes |
| `resizor` | `DragInRange`, `AnchorStays` | dragging one corner keeps both sides in range; the corner or middle held is where it was whenever the frame on screen has the size asked for, also after frames of another shape, until one is skipped |
| `surface_outputs` | `TracksOutputs`, `ImplementsOutputSet` | the slots name the outputs the compositor has in mind, but for those that found them full, each once and by a known name |
| `startup` | `GlobalsSeen`, `PointerKnown`, `RoundtripsAwaited`, `StartsUp`, `StackFollowsClicks` | wherever the socket cuts the events into batches, and whether the seat has a pointer or not, what `main` tests or uses after its roundtrips is there, no call waits for an event that has been handled, and the stack of subsurfaces ends up as the clicks say |
| `resource_thief` | `FindsLimit`, `PointsOnCurve` | the search ends with all the resources there is room for, the total is what the compositor holds, and points of a region are told apart |

### Bounds

* `pool_buffer`: three descriptors and mappings for two slots, so that a leak
  can use up one and both slots still work, or use up all; three wl_buffers and
  pools, so that one is always new. Sizes 0x0, 1x1, 1x2 and 2x1: empty, smaller,
  larger, and the same bytes in two shapes, every comparison of
  `get_next_buffer`; -1x1, a negative count, and -1x-8, two negative sides with
  the count of the larger area.
* `client`, `slow_ack`: four wl_buffers (two slots, one on screen that its slot
  has given up, one new), four requests, four events, three and four configures,
  sizes 0x0, 400x300 (the bytes of the default 300x400) and 400x400. Four requests
  are what one late answer and a pending one need; `MaxRequests` and `MaxEvents`
  stand for the socket's buffers, `MaxSerial` ends the history. Three configures
  are one to answer, one to skip and one after that.
* `client`: the two loops draw without end, so they get one configure event
  (`LoopSerial`); it may come before, between or after their frames. `MIN` 2,
  `MAX` 4 and `SPEED` 3 meet both turns of resize-loop within three frames; the
  theorem covers 512 and 10. disobey-resize's factor is 1/400, so that it makes
  all sizes 1, its lower bound, or leaves them at the default.
* `slow_ack`: `FRAME_DELAY` is 2 instead of 32 and counters have 8 values instead
  of 2^32: one callback that is not the last, and a wrap that can be seen.
* `cursor`: six pointer events, enough for two clicks with a leave and an entry
  between them.
* `resize_loop_leak`: the program's `MIN` and `SPEED`; `MAX` is 12 instead of
  512, with the same remainder modulo `SPEED`; three mappings, and calls that
  are refused only when these are used up (`Refusing` is FALSE).
* `copy_source`: six source identities so that one is always new, two selections
  in a row instead of 150, five requests (a replaced source and both of those)
  and four events: a button, two cancellations and an answer together. Requests
  made by handlers are not bounded, since the events they answer are.
* `copy_transfers`: two descriptors, enough for a selection of two types or for
  one and a paste from us, and to have none left; two offers, two types, pipes of
  two buffers, so that one read may or may not empty them; four events, an offer
  with its types and its selection. The modes are one that receives through
  pipes, one that sends without end and one that receives into a file; the
  others behave like one of these.
* `resizor`: the window starts as 1x2 and the range is 1 .. 2, so that a drag
  along the diagonal leads to 2x1, which has as many bytes, and on to 1x2 again;
  a configure event asks for 3x3, beyond the range, or leaves the size alone. Two points of the
  pointer, one step apart along the diagonal: drags both ways, each cut down at
  either end. Centred drags leave the range at both ends, as far as 3 (`Far`)
  either way: sides of 0 and less occur.
* `surface_outputs`: two trackers of two slots for three outputs, so that one can
  be full; the slots of the program are 64. Three events on their way
  (`MaxEvents`): a description, and an enter and a leave event behind it. The
  theorems cover any number of each.
* `startup`: four compositors: one with every global, one each without a
  subcompositor, a wl_shm, and a seat and a data device manager; a seat with a
  pointer all along, or one that gets it at some time or never; four inputs
  (`MaxInput`), each a ping, a close, a move, a button, or a pointer lost or
  found again: entering one subsurface, a click, a move to the next and a click.
  That a first pointer is plugged in is not counted, so this can happen besides.
* `resource_thief`: integers of 6 bits (`Root` is 8 for 2^16), roundtrips every 4
  points for 128, regions of 3 points for 300; the 10 single attempts are the
  program's. The 13 limits lie in each phase of the search, at its turns, and
  beyond the most it can find. Points are checked up to the wrap of the square.

Deadlock is not checked in the runs of copy-fu, which SIGPIPE may end; in those
whose history the bounds end (`MaxSerial`, `MaxInput`); in `startup` and
`resource_thief`, whose programs end; or where a program may end up with both
slots waiting for releases that a NULL buffer never gets (`pool_buffer`). It is
checked in `resize_loop_leak`, `resizor` and `surface_outputs`.

### Fairness

`Programs!Fairness` and `SlowAck!Fairness` assume that the client keeps
dispatching (its main loop does nothing else) and that the compositor keeps
reading its socket. `Programs` also assumes that the timers of unmap's event loop
expire, that the compositor releases a wl_buffer it has replaced, and that it
answers frame callbacks while it shows the surface; it need not release the
wl_buffer on screen and need not send a configure. `SlowAck` assumes that frame
callbacks are answered while the surface has content, and not otherwise.
`Startup!FairSpec` assumes that the client goes on and the compositor reads;
when the compositor sends a configure, and what the user does, is left open.
`LoopFairness` assumes releases and
callbacks, and that a frame that can be drawn again and again is drawn in the end
(strong fairness): even then, and with calls that fail only when nothing is left
to serve them, `ResizesForever` fails. It holds in the same run once
`resize_buffer` stores the mapping in `data`, so it is the mappings that stop the
loop, and not the descriptor that a failed `mmap` leaves behind in `create_buffer`. `CopySource!Fairness` assumes that the client
dispatches what it has and that its loop goes round, which the `poll` timeout of
1000 ms guarantees in the stealing modes, and that the compositor reads;
`CopyTransfers!TransferFairSpec` assumes that `poll` returns when a descriptor is ready. Neither
assumes anything of other clients. `Cursor`, `Resizor`, `SurfaceOutputs` and
`ResourceThief` have safety properties only and need no fairness.

## Proofs

`PoolBufferProofs` proves, for any finite or infinite sets of descriptors,
mappings, pools and wl_buffers and any sizes, negative ones included, from
`PoolBufferAssumption` (the markers `Stdin`, `NoFd` and `NULL` are not resources,
and no byte count is below `-Word`):

* `TypeCorrect`, `SlotsAreSound`, `BuffersAreBacked`, `ObjectsAreOwned`.
  `BuffersBacked` alone is not inductive: `resize_buffer` destroys
  and recreates objects of one slot, and that this leaves the other slot's
  alone needs that the slots share nothing (`Apart`), that a slot without
  a wl_buffer has no pool, mapping or bytes (`SlotOK`), and that no object is in
  use that neither slot holds (`Owned`), or a "new" identity could be an old
  one. The conjunction is `SlotsSound`, which implies them; `IInv == TypeOK /\ SlotsSound` is
  inductive. The lemmas follow the C functions: `FinishGood`, `OpenedGood`,
  `WrapGood`, `CreateGood`, `ResizeGood`, `GetGood` say that each takes a good view
  to good views, `GoodTurned` that this holds seen from the other slot, and
  `NextSound` puts them together.
* `PoolsGrow` (`PoolsOnlyGrow`): from `GetGrows`, which says that
  `get_next_buffer` keeps a slot's pool only if it does not shrink.
* `StdinKept` (`StdinClosedOneWay`): descriptor 0 is closed only at a request for a
  negative byte count, from a slot that has no file, so a program that makes no such
  request keeps it. A slot with a wl_buffer has a file of its own as long as
  descriptor 0 is open (`SlotOK`), so only `finish_buffer` on an empty slot can
  close it, and an empty slot has 0 bytes, which only a negative count is below.
* `FramesAsAsked` (`DrawnAsAsked`) and `Refinement` (`ImplementsBufferPool`): `GetSeen` shows that what is seen of an
  outcome of the detailed `get_next_buffer` is an outcome of the abstract one,
  and `RenderRefines` that the same slot is chosen and the new wl_buffer is new
  to the abstract pool too, which again needs `SlotsSound`. `GetFits` reads the
  number of bytes off the abstract outcome.
* `LossesKnown` (`LostOneWayEach`): `FinishTracks`, `ResizeTracks`, `CreateTracks` and
  `GetTracks` follow each descriptor and mapping through a call: one that is in use
  afterwards and named by no slot was so before, or was left by a failed `mmap` or
  by `resize_buffer`.

`SurfaceProofs` has the lemmas about `Surface` that the proofs of its programs share,
for any wl_buffers, sizes, socket lengths and number of configures, from
`SurfaceAssumption`. Its last conjunct, that there is always a fourth wl_buffer, says
that the compositor does not run out of names: two may be in slots and one given
up but on screen. What a queue holds is counted (`Count`, with `CountConcat` and
`CountTail`), so that "in one place only" is a sum that each step shifts. The
inductive invariant is `SurfaceInv`: types of both queues; no wl_buffer in both
slots (`Apart`); and `BusyCounted`, that a wl_buffer is as many times in the
commits, held or in the releases as its slot is busy, which is 0 or 1. Without
`Apart` a release could free the wrong slot, and without the types of the queues
a handler could store anything. `RenderSlots` and `RenderShape` say what
`surface_render` does to the slots and sends, `HandlerKeeps`, `DrawKeeps`,
`ReleaseHandled` and `CompositorKeeps` that both ends keep the invariant.

`ProgramProofs` builds on it, for all seven programs at once:

* `Invariant`: `IInv` adds that the frame callbacks on their way (`Owing`) are those
  destroyed and at most one that is waited for. `BusyTellsTruth` (`BusyIsOut`) and
  `ChainIsOne` (`OneChain`) follow by counting.
* `OwnershipRefinement` (`ImplementsOwnership`): every step is a `Submit`, `Discard`
  or `Return` of the rule or does not touch it; that the owner read off the
  socket is the client when a slot is not busy is `BusyIsOut`.
* `AnswersInOrder`: `AnswerInv`. The events still to be handled name the serials
  after the last handled one, each configure behind its toplevel_configure
  (`ConfigureInv`, which is what lets the size stored be tied to a serial); the
  acknowledgements and commits in the socket are in that order (`AnswerOrder`); the
  newest acknowledgement is followed by its frame unless that was skipped
  (`Answered`); and every frame on its way or shown has bytes that were due
  for the configure before it (`FitInv`). `FramesAnswer` (`FrameAnswersAck`) and `LastShown`
  (`LastConfigureShown`) read this off the empty queues. Each conjunct needs
  the others: a frame is known to fit only by the serial it will be
  acknowledged with, and that only by the order of the queue. What is due
  is a set of sizes (`Due`), because disobey-resize keeps its default size until
  a configure names another, and changes that.
* `StopsForAReason` (`StopsUnpainted`): from `PaintInv`, that damage-paint's surface has
  pixels always, so that a frame without a wl_buffer is one for which no slot was
  free or none could be made.
* `SizesStayInRange` (`SizeInRange`) for all `MIN`, `MAX` and `SPEED` such that
  `-MAX + k * SPEED` never falls into `0 .. MIN - 1` (`StepsOverNothing`), and
  the program's 2, 512 and 10 are such (`ProgramSteps`). `Turned` does not guard
  against these sizes, so the condition is needed: with `MAX` 510, say, the loop
  would ask for a frame of 0 pixels. The invariant is about `size` and the surface
  together, because a configure event makes the loop store a size long after
  the one it counts with has gone on.

* `HotspotFollows` (`HotspotFollowsFrames`), for `Cursor`: the property speaks of an
  empty socket; `CursorInv` says of a full one that its requests, read one after the
  other (`Way`), lead the compositor's hotspot to where the program thinks it is
  (`Leads`; `LeadsTail` takes one from the front and `LeadsOn` adds one at the end).
  That they lead somewhere even while a skipped frame has made the program wrong is
  needed for the next entry, whose absolute position makes it right again.

`SlowAckProofs` proves, for every `FRAME_DELAY` and width of the counters that holds
it, `SlowInvariant` and from it `OneCallback`, `AcksOrdered` and `LateFrames`. `SlowInv`
adds to `SurfaceInv` and `ConfigureInv`: `Waiting`, the callbacks on their way are one
while `countdown` is not 0 and none otherwise, so that the unsigned countdown is
never decremented from 0 (`CountedDown`); `Serials`, the serials acknowledged, stored
and handled are in that order; `Stores`, the sizes in the two stored configures are
those of their serials; and `Frames`, that commits and the screen have them.

`CopyProofs` proves `SourceInvariant`, `CancelsItsOwn` (`CancelledIsCurrent`) and
`OneAtATime` (`OneAttempt`) for any sources, number of tries and socket lengths.
`OneAttempt` is not inductive: that there is a source when the answer to a sync comes
depends on the order of the messages. `CopyInv` says, while the client waits, that
its sync is in the requests before any selection of its source, so the source
cannot have been cancelled yet (`Asked`), or that the answer is in the events
before any cancellation of it (`Told`).

It goes on to prove `TransferInvariant`, `TableIsSound` (`TableSound`), `OpenIsAccounted`
(`OpenAccounted`), `SelectionsAreOffers` (`SelectionIsOffer`) and `TransfersLeaveWhenOver`
(`LeftWhenOver`), for any descriptors, offers, types, size of a pipe and queue
length. Three lines of argument meet:

* What `remove_done_fds` keeps is computed by a recursive function, and what that
  returns for every table needs induction. The library's induction theorems
  cannot be instantiated here; `Counting` is induction over the members of a set,
  from the smallest number outside it (`Smallest`), and with it `CompactedGathers` says
  that the entries with references remain, once each and the first one first.
* `TableInv` joins the table (`Sound`), the descriptors that come with events still
  to be handled (`Awaited`: open, each once, none in the table) and those open (`Traced`:
  in the table or on their way). `TableSound` alone is not inductive: a descriptor
  sent to the program is appended without a look at the table. `Served` and
  `Remains` say what a turn of the loop does to the table, `SendTaken` and
  `Received` what handlers append.
* `Coming` says of every selection on its way that it is announced by the events
  right before it, or by those left of them and what the client has already taken
  down (`AnnouncesThe`). `SelectionIsOffer` is the case of a selection at the head.
  The step that needs most is that of a new offer, which must clear the old
  types exactly when there is an old offer.

`ArithmeticProofs` proves `LimitIsFound` (`FindsLimit`) for every limit, batch, number
of single tries and word size, assuming that half the range of an integer is
a power of two (`Half \in Pow2`), without which doubling and halving would not
visit the same counts. The invariant (`ThiefInv`) bounds what is left of the room
by the counts still to be tried (`Narrowed`): while doubling, all smaller counts
are taken; while halving, less than twice the next count is left unless every
attempt has succeeded. That needs the accounting of every resource the compositor holds
(`Accounted`), through attempts that end at any point (`AttemptEnds`).
`PointsAreOnCurve` (`PointsOnCurve`) also assumes that a region's share of points fits the
signed range; both hold of the program's 2^31 and 300. `PointInv` says that
`isqrt` is the root of the last point's number while the next square does not
wrap, and `region_no` the one region it belongs to; `RootGrows` and `RegionGrows`
are the step of each, with the products taken modulo the word (`SquareFits`), and
the bound on the number of points comes from the search (`CountBound`).

Its last part proves, of resizor, `DragsInRange` and `AnchorsStay` for all bounds,
buttons, coordinates and sizes. `DragsInRange` follows from the type of the state
(`ResizorTyped`). `AnchorStays` is not inductive: with the frame on screen of
another shape than asked for it says nothing, although the next frame may have
the right one again. What every step keeps is that the anchor is off by the
difference of the two sizes, `moved = drawn - size` on both axes, whatever slot
`get_next_buffer` supplied.

`OutputProofs` proves `OutputsTyped`, `SlotsAreSets`, `OutputsTracked`
(`TracksOutputs`) and `OutputRefinement` (`ImplementsOutputSet`), for any surfaces,
outputs and number of slots. What a tracker holds is right only once the queue has
been handled, so the invariant must say what the queue has still to say: `Settled`
and `LastSays`, that the last event for a surface and an output, or the tracker if
there is none, agrees with the compositor; `Queued`, that an output's global and
description come before its enter and leave events, so that `find_output` finds
it; `NamesKnown`, that whatever is in a slot has been listed; and `OneSlotEach`,
without which a leave event would clear one slot of two. `Delivered` and `Posted`
say what taking an event from the queue and adding one do to these. For the
refinement `EnterRefines` and `LeaveRefines` map each handler to a step of the set,
and a full tracker to a missed output (`Cardinality` of the slots' range).

`StartupProofs` proves `StartInvariant`, `GlobalsAreSeen` (`GlobalsSeen`), `PointerIsKnown`
(`PointerKnown`), `RoundtripsAreAwaited` (`RoundtripsAwaited`) and `StackIsClicked`
(`StackFollowsClicks`), for any lists of globals, in any order and with
repetitions, and any number of pings, clicks, moves and pointers unplugged and
plugged in again. `PointerIsKnown` is about a seat that has had a pointer all
along: any other may not name one in time, or ever. `StartupAssumption` asks that
the lists are not empty: with no global there is nothing for the first dispatch
to read, and it waits for ever.

* None of the properties is inductive: each is about what a call has brought in
  when it returns, and the reason lies in the order of what is on its way. Both
  directions are queues, so what a request causes is `Ahead` of what a later one
  causes: an event that is in the queue, or whose request is, before any end of a
  roundtrip. `Line` says, call by call, what is `Coming` ahead of the roundtrip
  that the program waits for, or has arrived: each global of interest
  (`Globals`), the capabilities that answer the bind of a seat (`Pointer`), the pool
  (`FileMapped`), and the configure event that a prompt compositor sends for a commit
  (`Configures`). `Syncs` keeps the ends of roundtrips apart: there is at most one
  on its way while a call waits for it, and none otherwise, so no call takes the
  end of an earlier roundtrip for its own.
* `Line` is stated of a client, the events and the requests on their way, so that
  one event handled keeps it (`Handles`: the head goes, what it sends is appended),
  then a batch of any length (`Batch`), the middle of which is no state of the
  model, then the call it was for (`Calls`); `Answers` is the step of the
  compositor, with all that it answers. That a batch of n events is n events
  handled one after the other is `Steps`; `HandlingDefined` justifies the recursive
  function it is defined by.
* The first batch is special: if it has all globals the seat is bound before the
  sync, otherwise perhaps not (`FirstBatch`, `Pointer`); `split` tells the two apart.
* `RoundtripsAwaited` also needs the order of requests: `PoolOrder`, and
  `FrameOrder`, that a frame in the socket has an acknowledgement before it.
* `Clicks` is why the stack is right: the events of the pointer still to be
  handled (`Follows`) lead from what the client remembers, with the placements
  still to be read (`Reorders`) applied to the compositor's order, to what the user
  means. A click handled takes its step from the events to the requests
  (`HandlesClicks`); `CommitOrder`, that a commit follows every placement, makes this
  order the one on screen when all has been read; and by `Meant`
  nothing has been pointed at while nobody listens, which is why no click is
  dropped, and why the stack of a program that found no pointer stays as it was.

Proved as part of an invariant, and not run on their own: `PoolBuffer!TypeOK`,
`SlotsSound`, `SurfaceOutputs!TypeOK`, `OneSlotEach`. Proved, and too close to the guard
it follows to be worth a run: `StopsUnpainted`.

Only model-checked: the liveness properties (`SlotFreed`, `CallsForever`, `UnmapsAgain`, `LastConfigureAcked`,
`ResizesForever`, `TriesForever`, `TransfersEnd`, `StartsUp`) rest on fairness, hence on
`ENABLED`, which the prover does not handle.

## Findings

* `slow-ack-configure.c:39`: configures that name no size leave
  `next_configure` at 0x0, and the late answer unmaps the window
  (`slow_ack_empty`).
* `pool-buffer.c:134`: `resize_buffer` does not store the new mapping in `data`
  (`resize_loop_leak`; `LostOneWayEach` says that this is the only way one is
  lost).

The following the properties state as what the code does, since no document says
otherwise:

* `copy-fu.c:489`: at a hangup the descriptor is closed after one read of 4096
  bytes, and the rest of the paste is lost (`LeftWhenOver`).
* `copy-fu.c:295`: paste_result.txt is opened for every type of every selection
  and never closed (`OpenAccounted`).
* `copy-fu.c:489`: a pipe that cat-rand has filled and whose reader has gone stays
  in the table while `poll` returns at once each time (`TransfersEnd`).
* `resizor.c:58`: the change of size is doubled after it has been clamped to
  `MIN_SIZE` and `MAX_SIZE` (`DragInRange`).
* `pool-buffer.c:171`: a size with a negative byte count, which such a drag leads
  to, makes `finish_buffer` close descriptor 0 on an empty slot
  (`StdinClosedOneWay`).
* `resizor.c:62`: the attach offset of a skipped frame is overwritten while its
  change of size stays (`AnchorStays` holds until a frame is skipped only).
* `pool-buffer.c:194`: a slot of another shape with as many bytes is not replaced:
  while such a frame is shown the corner held is somewhere else (`AnchorStays` is
  about frames of the size asked for).
* `client.c:114`: a pointer plugged in after main has set its listeners is asked
  for and never listened to (`StackFollowsClicks`).
* `pool-buffer.c:91`: a descriptor is lost when `mmap` fails in `create_buffer`
  (`LostOneWayEach`).
* `cursor.c:39`: the attach offset of a skipped frame is overwritten by the next
  click, and the two ends disagree on the hotspot until the pointer enters again
  (`HotspotFollowsFrames` holds as long as every click gets a frame).
* `damage-paint.c:80`: a frame without a free slot requests no callback, and
  nothing is painted any more until a configure event (`StopsForAReason`: it stops
  nowhere else).
* `gamma-blend.c` and `sigbus.c:56`: one roundtrip is enough for the configure event
  if the compositor sends it before it answers the sync; otherwise the first
  frame comes before the first configure (`RoundtripsAwaited`).
* `client.c:173`: the first dispatch may read only some of the globals; then the
  pointer may not be known yet when `registry_init` returns (`PointerKnown`).
* `resource-thief.c:215`: the square of 65536 wraps to 0; points are right below
  that of 65535 (`PointsOnCurve`).

Seen while reading, without a property: a SIGINT between `sigaction` and `pause` is
lost (`resource-thief.c:346`); the arrays of regions and wl_buffers are not
freed with their connection; `damage-paint.c:158` has `&` where its sibling at line
152 has `%`; `damage-paint.c:275` divides by zero for widths below 4.

## Not modelled

Pixels, colours and cairo, what gamma-blend draws, and the rectangles of
damage-paint's thirteen patterns: they change no state that a handler reads. The
decoration manager. Sizes whose bytes overflow an `int` (`pool-buffer.c:191`). What
a program does between a request that is a protocol error, such as a wl_buffer
with a negative side, and the error's arrival. The removal of globals, which the
handlers ignore: no output is unplugged in `SurfaceOutputs`. Events of a wl_pointer
without a listener, which are dropped. Several surfaces of one program at
once. Connection errors, after which every program exits. The positions of
subsurfaces, the system calls that make resource-thief's file, and its order of
destroying proxies. copy-fu as one system: the data source, the transfers and
the start are checked apart, because their product is too large to check with
bounds that mean anything; they share no state but the event queue and the start.

## Plan

Written: `ShmGeometry`, `BufferPool`, `PoolBuffer`, `Surface`, `BufferOwnership`,
`Client`, `LoopSizes`, `Programs`, `SlowAck`, `Cursor`, `ResizeLoop`, `CopyFu`, `CopySource`,
`CopyTransfers`, `Resizor`, `OutputSet`, `SurfaceOutputs`, `Subsurfaces`, `Startup`,
`ResourceThief`, and the proofs of every safety property that a
passing run checks.

Next:

1. A module for damage-paint's rectangles: which patterns cover what changed, with
   the width of their integers.
2. The width of the sizes' integers in `Resizor` and `ShmGeometry`.
