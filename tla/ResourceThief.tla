---------------------------- MODULE ResourceThief ----------------------------
(***************************************************************************)
(* resource-thief searches for how many resources of a kind a compositor   *)
(* can hold.  Each attempt, consume, opens a connection of its own and     *)
(* creates a number of them; a compositor that has no room for one breaks  *)
(* that connection, which the program notices at its next roundtrip.       *)
(***************************************************************************)
EXTENDS Integers

CONSTANTS Root,             (* 2^16: the square root of an integer's range *)
          Batch,            (* points between roundtrips, 128              *)
          PointsPerRegion,  (* POINTS_PER_REGION, 300                      *)
          Singles,          (* attempts at one resource in the end, 10     *)
          Limits            (* how many resources there may be room for    *)

ASSUME ThiefAssumption == /\ Root \in Nat /\ Root > 1
                          /\ {Batch, PointsPerRegion, Singles} \subseteq Nat \ {0}
                          /\ Limits \subseteq Nat

VARIABLES mode, phase, block_size, tries, total_pools,
          conn,       (* consume's connection: none or open                  *)
          i,          (* the index of its next resource                      *)
          waiting,    (* in a roundtrip                                      *)
          isqrt, region_no, point,    (* the last point added to a region    *)
          sent,       (* requests on their way on this connection            *)
          broken,     (* and whether the compositor has ended it             *)
          held,       (* resources the compositor holds for this connection, *)
          kept,       (* for those of the attempts that succeeded,           *)
          lingering,  (* and for broken ones it has not cleaned up after     *)
          limit, prompt,  (* its room, and whether it cleans up at once      *)
          flaky           (* whether an attempt may fail at its start        *)

searchVars == <<phase, block_size, tries, total_pools>>
pointVars == <<isqrt, region_no, point>>
connVars == <<conn, i, waiting>>
heldVars == <<sent, broken, held, kept, lingering>>
fixedVars == <<mode, limit, prompt, flaky>>
vars == <<searchVars, pointVars, connVars, heldVars, fixedVars>>

Word == Root * Root
Half == Word \div 2

Modes == {"shmpool", "dmabuf", "region"}
Searching == {"double", "halve", "single"}

(* How many resources this attempt is for. *)
Count == IF phase = "single" THEN 1 ELSE block_size

-------------------------------------------------------------------------------
(* The search.  Doubling ends with a failure or at the largest count, and  *)
(* halving starts with that count.                                         *)
Doubled(ok) ==
  IF ok THEN [phase |-> IF 2 * block_size < Half THEN "double" ELSE "halve",
              block_size |-> 2 * block_size, tries |-> tries]
  ELSE [phase |-> "halve", block_size |-> block_size, tries |-> tries]

Halved(ok) ==
  [phase |-> IF block_size \div 2 = 0 THEN "single" ELSE "halve",
   block_size |-> block_size \div 2, tries |-> tries]

Tried(ok) ==
  [phase |-> IF tries + 1 = Singles THEN "wait" ELSE "single",
   block_size |-> block_size, tries |-> tries + 1]

Advance(s) == /\ phase' = s.phase
              /\ block_size' = s.block_size
              /\ tries' = s.tries

(* consume returns: a connection that is kept, or NULL after closing it. *)
Returned(ok) ==
  /\ \/ phase = "double" /\ Advance(Doubled(ok))
     \/ phase = "halve" /\ Advance(Halved(ok))
     \/ phase = "single" /\ Advance(Tried(ok))
  /\ total_pools' = IF ok THEN total_pools + Count ELSE total_pools
  /\ conn' = "none"
  /\ i' = 0
  /\ waiting' = FALSE
  /\ isqrt' = 0
  /\ region_no' = 0
  /\ point' = [pos |-> 0, y |-> 0]
  /\ sent' = 0
  /\ broken' = FALSE
  /\ held' = 0
  /\ kept' = IF ok THEN kept + held ELSE kept
  /\ lingering' = IF ok \/ prompt THEN lingering ELSE lingering + held
  /\ UNCHANGED fixedVars

(* Connecting and the first roundtrips; without the global the mode needs,   *)
(* or without memory, the attempt fails here.                                *)
Connect == /\ phase \in Searching
           /\ conn = "none"
           /\ conn' = "open"
           /\ UNCHANGED <<searchVars, pointVars, i, waiting, heldVars, fixedVars>>

ConnectFails == /\ phase \in Searching
                /\ conn = "none"
                /\ flaky
                /\ Returned(FALSE)

(* Products of 32 bits, and the conversion to int32_t. *)
Squared(r) == (r * r) % Word

Signed(v) == IF v % Word < Half THEN v % Word ELSE (v % Word) - Word

(* The mutant is late by one. *)
Grown_late(r, pos) == IF pos > Squared(r + 1) THEN r + 1 ELSE r

Grown(r, pos) == IF pos >= Squared(r + 1) THEN r + 1 ELSE r

AddPoint ==
  \E coin \in {0, 1} :
    LET pos == 2 * i + coin
        r == Grown(isqrt, pos)
    IN  /\ isqrt' = r
        /\ point' = [pos |-> pos, y |-> Signed(pos - Squared(r))]
        /\ region_no' = IF i >= (region_no * PointsPerRegion) % Word
                          THEN region_no + 1 ELSE region_no

(* A roundtrip follows every pool and buffer, but not every point: the last   *)
(* one is followed by one for the sake of the result.  The mutant forgets it. *)
Synced_batches(k) == mode # "region" \/ k % Batch = 0

Synced(k) == mode # "region" \/ k % Batch = 0 \/ k + 1 = Count

Create ==
  /\ conn = "open"
  /\ ~waiting
  /\ i < Count
  /\ i' = i + 1
  /\ waiting' = Synced(i)
  /\ sent' = IF broken THEN sent ELSE sent + 1
  /\ IF mode = "region" THEN AddPoint ELSE UNCHANGED pointVars
  /\ UNCHANGED <<searchVars, conn, broken, held, kept, lingering, fixedVars>>

RoundtripFails == /\ waiting
                  /\ broken
                  /\ Returned(FALSE)

RoundtripDone == /\ waiting
                 /\ ~broken
                 /\ sent = 0
                 /\ waiting' = FALSE
                 /\ UNCHANGED <<searchVars, pointVars, conn, i, heldVars, fixedVars>>

Consumed == /\ conn = "open"
            /\ ~waiting
            /\ i = Count
            /\ Returned(TRUE)

(* SIGINT ends the pause, and all connections are closed. *)
Interrupt == /\ phase = "wait"
             /\ phase' = "over"
             /\ kept' = 0
             /\ UNCHANGED <<block_size, tries, total_pools, pointVars, connVars, sent,
                            broken, held, lingering, fixedVars>>

-------------------------------------------------------------------------------
(* The compositor takes a request, or ends the connection for want of room; *)
(* in its own time it cleans up after a broken one.                         *)
Accept == /\ sent > 0
          /\ ~broken
          /\ kept + held + lingering < limit
          /\ held' = held + 1
          /\ sent' = sent - 1
          /\ UNCHANGED <<searchVars, pointVars, connVars, broken, kept, lingering,
                         fixedVars>>

Refuse == /\ sent > 0
          /\ ~broken
          /\ kept + held + lingering >= limit
          /\ broken' = TRUE
          /\ UNCHANGED <<searchVars, pointVars, connVars, sent, held, kept, lingering,
                         fixedVars>>

CleanUp == /\ lingering > 0
           /\ lingering' = 0
           /\ UNCHANGED <<searchVars, pointVars, connVars, sent, broken, held, kept,
                          fixedVars>>

Init ==
  /\ mode \in Modes
  /\ phase = "double"
  /\ block_size = 1
  /\ tries = 0
  /\ total_pools = 0
  /\ conn = "none"
  /\ i = 0
  /\ waiting = FALSE
  /\ isqrt = 0
  /\ region_no = 0
  /\ point = [pos |-> 0, y |-> 0]
  /\ sent = 0
  /\ broken = FALSE
  /\ held = 0
  /\ kept = 0
  /\ lingering = 0
  /\ limit \in Limits
  /\ prompt \in BOOLEAN
  /\ flaky \in BOOLEAN

Next == \/ Connect \/ ConnectFails \/ Create \/ RoundtripFails \/ RoundtripDone
        \/ Consumed \/ Interrupt \/ Accept \/ Refuse \/ CleanUp

Spec == Init /\ [][Next]_vars

-------------------------------------------------------------------------------
(* The most that the search can create: 1 up to Half / 2, Half down to 1,
   and the single ones. *)
Most == 3 * Half - 2 + Singles

(* "Total pools" is how many resources the compositor holds for the program,
   and when it has nothing else to hold and cleans up at once, they are as
   many as there is room for. *)
FindsLimit ==
  /\ phase # "over" => kept = total_pools
  /\ (phase = "wait" /\ prompt /\ ~flaky) =>
       total_pools = IF limit < Most THEN limit ELSE Most

(* A point is the remainder of its number over the square below: no two
   points of one connection are the same, and a region has no more
   than its share of them.  The square of Root wraps, hence the bound. *)
PointsOnCurve ==
  (mode = "region" /\ i > 0) =>
    /\ region_no = (i - 1) \div PointsPerRegion + 1
    /\ point.pos < (Root - 1) * (Root - 1) =>
         /\ isqrt * isqrt + point.y = point.pos
         /\ point.y \in 0 .. 2 * isqrt
==============================================================================
