-------------------------- MODULE ArithmeticProofs ---------------------------
(***************************************************************************)
(* The two programs whose promise is about numbers, resource-thief and     *)
(* resizor.                                                                *)
(*                                                                         *)
(* resource-thief's search finds the limit, whatever it is and however     *)
(* wide the integers are, given that their number of values is a power of  *)
(* two.  Powers of two are the smallest set with 1 that doubling stays in; *)
(* what is needed of them follows from that without induction.  The second *)
(* part is about the points of a region: on that many bits the integer     *)
(* square root and the number of the region are right.                     *)
(*                                                                         *)
(* The last part is what a drag of resizor does, for every MIN_SIZE and    *)
(* MAX_SIZE, every start, every coordinate and every outcome of            *)
(* get_next_buffer: how far the edges have moved and how the frame on      *)
(* screen differs from the one asked for are kept in step.                 *)
(***************************************************************************)
EXTENDS ResourceThief, Resizor, TLAPS

Doubling(S) == 1 \in S /\ \A s \in S : 2 * s \in S

Pow2 == {b \in Nat : \A S \in SUBSET Nat : Doubling(S) => b \in S}

(* The powers of two are doubled to powers of two, and none is zero. *)
LEMMA Pow2Doubles == 1 \in Pow2 /\ \A b \in Pow2 : 2 * b \in Pow2 /\ b >= 1
<1>1. 1 \in Pow2
  BY DEF Pow2, Doubling
<1>2. ASSUME NEW b \in Pow2 PROVE 2 * b \in Pow2
  BY DEF Pow2, Doubling
<1>3. ASSUME NEW b \in Pow2 PROVE b >= 1
  <2> DEFINE S == {n \in Nat : n >= 1}
  <2>1. Doubling(S)
    BY DEF Doubling
  <2> QED BY <2>1 DEF Pow2
<1> QED BY <1>1, <1>2, <1>3

(* Every power of two but 1 is twice another. *)
LEMMA Pow2Halves == \A b \in Pow2 : b = 1 \/ \E h \in Pow2 : b = 2 * h
<1> SUFFICES ASSUME NEW b \in Pow2 PROVE b = 1 \/ \E h \in Pow2 : b = 2 * h
  OBVIOUS
<1> DEFINE S == {n \in Nat : n = 1 \/ \E h \in Pow2 : n = 2 * h}
<1>1. Pow2 \subseteq Nat
  BY DEF Pow2
<1>2. ASSUME NEW s \in S PROVE 2 * s \in S
  <2>1. s \in Pow2
    BY Pow2Doubles
  <2> QED BY <2>1, <1>1
<1>3. 1 \in S
  OBVIOUS
<1>4. Doubling(S)
  BY <1>2, <1>3 DEF Doubling
<1> QED BY <1>4 DEF Pow2

(* Between a power of two and its double there is none. *)
LEMMA Pow2Gap == \A b, h \in Pow2 : b < h => 2 * b <= h
<1> SUFFICES ASSUME NEW h \in Pow2 PROVE \A b \in Pow2 : b < h => 2 * b <= h
  OBVIOUS
<1> DEFINE S == {n \in Nat : n >= 1 /\ \A b \in Pow2 : b < n => 2 * b <= n}
<1>0. Pow2 \subseteq Nat
  BY DEF Pow2
<1>1. 1 \in S
  BY <1>0, Pow2Doubles
<1>2. ASSUME NEW s \in S PROVE 2 * s \in S
  <2>1. ASSUME NEW b \in Pow2, b < 2 * s PROVE 2 * b <= 2 * s
    <3>1. CASE b = 1
      BY <3>1
    <3>2. CASE \E c \in Pow2 : b = 2 * c
      <4> PICK c \in Pow2 : b = 2 * c
        BY <3>2
      <4>1. c < s /\ c \in Nat
        BY <2>1, <1>0
      <4>2. 2 * c <= s
        BY <4>1
      <4> QED BY <4>1, <4>2
    <3> QED BY <3>1, <3>2, Pow2Halves
  <2> QED BY <2>1
<1>3. Doubling(S)
  BY <1>1, <1>2 DEF Doubling
<1>4. h \in S
  BY <1>3 DEF Pow2
<1> QED BY <1>4

(* The range of the integers has at least two halves of two. *)
LEMMA HalfTyped == Half \in Nat /\ Half > 1
<1>1. Root \in Nat /\ Root >= 2
  BY ThiefAssumption
<1>2. Root * Root \in Nat /\ Root * Root >= 2 * Root
  BY <1>1, Z3
<1>3. Word \in Nat /\ Word >= 4
  BY <1>1, <1>2 DEF Word
<1> QED BY <1>3 DEF Half

-------------------------------------------------------------------------------
(* The inductive invariant: types; what a connection holds against what was *)
(* asked of it; and what each phase has left to find.                       *)
ThiefType ==
  /\ phase \in Searching \cup {"wait", "over"}
  /\ block_size \in Nat
  /\ tries \in Nat
  /\ total_pools \in Nat
  /\ conn \in {"none", "open"}
  /\ i \in Nat
  /\ waiting \in BOOLEAN
  /\ sent \in Nat
  /\ broken \in BOOLEAN
  /\ held \in Nat
  /\ kept \in Nat
  /\ lingering \in Nat
  /\ limit \in Nat
  /\ prompt \in BOOLEAN
  /\ flaky \in BOOLEAN

(* What was sent is held or on its way, and a connection that is not waiting
   at the end of its work was just told that all is well. *)
Accounted ==
  /\ conn = "none" => i = 0 /\ ~waiting /\ sent = 0 /\ ~broken /\ held = 0
  /\ conn = "open" => phase \in Searching
  /\ i <= Count
  /\ ~broken => held + sent = i
  /\ held <= i
  /\ (conn = "open" /\ ~waiting /\ i = Count) => sent = 0 /\ ~broken
  /\ phase # "over" => kept = total_pools
  /\ kept + held + lingering <= limit
  /\ prompt => lingering = 0
  /\ (prompt /\ broken) => kept + Count > limit

BlockSizes ==
  /\ phase \in {"double", "halve"} => block_size \in Pow2 /\ tries = 0
  /\ phase = "double" => block_size < Half
  /\ phase = "halve" => block_size <= Half
  /\ phase = "single" => tries < Singles
  /\ phase = "wait" => tries = Singles

(* The most that can have been found by the end of a phase. *)
Reached == IF phase = "halve" THEN (Half - 1) + 2 * (Half - block_size)
           ELSE 3 * Half - 2 + tries

Narrowed ==
  (prompt /\ ~flaky) =>
    /\ phase = "double" => total_pools = block_size - 1
    /\ phase = "halve" => /\ total_pools <= Reached
                          /\ \/ limit - total_pools < 2 * block_size
                             \/ total_pools = Reached
    /\ phase \in {"single", "wait"} => /\ total_pools <= Reached
                                       /\ total_pools = limit \/ total_pools = Reached

ThiefInv == ThiefType /\ Accounted /\ BlockSizes /\ Narrowed

(* Any of the sizes is at least one. *)
LEMMA CountTyped == ASSUME ThiefType, BlockSizes, phase \in Searching
                    PROVE  Count \in Nat /\ Count >= 1
BY Pow2Doubles DEF ThiefType, BlockSizes, Searching, Count

(* The search starts with nothing created. *)
LEMMA ThiefStarts == ASSUME Half \in Pow2, Init PROVE ThiefInv
<1>1. ThiefType
  BY ThiefAssumption DEF Init, ThiefType, Searching
<1>2. Accounted
  BY ThiefAssumption DEF Init, Accounted, Count, Searching
<1>3. BlockSizes
  BY HalfTyped, Pow2Doubles DEF Init, BlockSizes
<1>4. Narrowed
  BY DEF Init, Narrowed
<1> QED BY <1>1, <1>2, <1>3, <1>4 DEF ThiefInv

(* The steps within an attempt leave the search alone. *)
LEMMA WithinAttempt ==
  ASSUME ThiefInv,
         Connect \/ Create \/ RoundtripDone \/ Accept \/ Refuse \/ CleanUp
  PROVE  ThiefInv'
<1> USE DEF ThiefInv
<1>0. UNCHANGED <<phase, block_size, tries, total_pools, limit, prompt, flaky>>
  BY DEF Connect, Create, RoundtripDone, Accept, Refuse, CleanUp, searchVars, fixedVars
<1>1. BlockSizes' /\ Narrowed' /\ Count' = Count
  BY <1>0 DEF BlockSizes, Narrowed, Reached, Count
<1>2. ThiefType'
  <2>1. CASE Connect
    BY <1>0, <2>1 DEF ThiefType, Connect, heldVars
  <2>2. CASE Create
    BY <1>0, <2>2 DEF ThiefType, Create, Synced
  <2>3. CASE RoundtripDone
    BY <1>0, <2>3 DEF ThiefType, RoundtripDone, heldVars
  <2>4. CASE Accept
    BY <1>0, <2>4 DEF ThiefType, Accept, connVars
  <2>5. CASE Refuse
    BY <1>0, <2>5 DEF ThiefType, Refuse, connVars
  <2>6. CASE CleanUp
    BY <1>0, <2>6 DEF ThiefType, CleanUp, connVars
  <2> QED BY <2>1, <2>2, <2>3, <2>4, <2>5, <2>6
<1>3. CASE Connect
  <2>1. phase \in Searching
    BY <1>3 DEF Connect
  <2>2. Count \in Nat /\ Count >= 1
    BY <2>1, CountTyped
  <2> QED BY <1>0, <1>1, <1>2, <1>3, <2>1, <2>2
          DEF Accounted, ThiefType, Connect, heldVars
<1>4. CASE Create
  <2>1. phase \in Searching
    BY <1>4 DEF Create, Accounted
  <2>2. Count \in Nat /\ Count >= 1
    BY <2>1, CountTyped
  <2>3. i' = Count => waiting'
    BY <1>4, <2>2 DEF Create, Synced, ThiefType
  <2> QED BY <1>0, <1>1, <1>2, <1>4, <2>1, <2>2, <2>3 DEF Accounted, ThiefType, Create
<1>5. CASE RoundtripDone
  BY <1>0, <1>1, <1>2, <1>5 DEF Accounted, ThiefType, RoundtripDone, heldVars
<1>6. CASE Accept
  BY <1>0, <1>1, <1>2, <1>6 DEF Accounted, ThiefType, Accept, connVars
<1>7. CASE Refuse
  <2>1. conn = "open" /\ phase \in Searching
    BY <1>7 DEF Refuse, Accounted, ThiefType
  <2>2. Count \in Nat
    BY <2>1, CountTyped
  <2>3. ~(~waiting /\ i = Count)
    BY <1>7, <2>1 DEF Accounted, ThiefType, Refuse
  <2>4. prompt => kept + Count > limit
    BY <1>7, <2>2 DEF Accounted, ThiefType, Refuse
  <2> QED BY <1>0, <1>1, <1>2, <1>7, <2>1, <2>2, <2>3, <2>4
          DEF Accounted, ThiefType, Refuse, connVars
<1>8. CASE CleanUp
  BY <1>0, <1>1, <1>2, <1>8 DEF Accounted, ThiefType, CleanUp, connVars
<1> QED BY <1>1, <1>2, <1>3, <1>4, <1>5, <1>6, <1>7, <1>8

(* The end of an attempt: its resources are kept or given back, and the      *)
(* search goes on with what is left.                                         *)
LEMMA AttemptEnds ==
  ASSUME Half \in Pow2, ThiefInv, phase \in Searching,
         NEW ok \in BOOLEAN, Returned(ok),
         ok => held = Count,
         (~ok /\ prompt /\ ~flaky) => total_pools + Count > limit
  PROVE  ThiefInv'
<1> USE DEF ThiefInv
<1>1. Count \in Nat /\ Count >= 1
  BY CountTyped
<1>2. /\ total_pools' = IF ok THEN total_pools + Count ELSE total_pools
      /\ kept' = total_pools'
      /\ total_pools' \in Nat
      /\ total_pools' <= limit
      /\ UNCHANGED <<limit, prompt, flaky>>
  BY <1>1 DEF Returned, fixedVars, Accounted, ThiefType, Searching
<1>3. /\ lingering' \in Nat
      /\ kept' + lingering' <= limit
      /\ prompt => lingering' = 0
  BY <1>1 DEF Returned, Accounted, ThiefType
<1>4. ASSUME phase' \in Searching \cup {"wait"}, block_size' \in Nat, tries' \in Nat
      PROVE  ThiefType' /\ Accounted'
  <2>1. ThiefType'
    BY <1>2, <1>3, <1>4 DEF ThiefType, Returned
  <2>2. Count' \in Nat
    BY <1>4 DEF Count
  <2>3. /\ conn' = "none" /\ i' = 0 /\ ~waiting'
        /\ sent' = 0 /\ ~broken' /\ held' = 0
    BY DEF Returned
  <2>4. kept' + held' + lingering' <= limit'
    BY <1>2, <1>3, <2>3
  <2> QED BY <1>2, <1>3, <2>1, <2>2, <2>3, <2>4 DEF Accounted
<1>5. block_size \in Nat /\ tries \in Nat /\ Singles \in Nat \ {0}
      /\ total_pools \in Nat /\ limit \in Nat
  BY ThiefAssumption DEF ThiefType
<1>6. CASE phase = "double"
  <2>1. Count = block_size /\ block_size \in Pow2 /\ block_size < Half /\ tries = 0
    BY <1>6 DEF Count, BlockSizes
  <2>2. 2 * block_size <= Half /\ 2 * block_size \in Pow2
    BY <2>1, Pow2Gap, Pow2Doubles
  <2>3. (prompt /\ ~flaky) => total_pools = block_size - 1
    BY <1>6 DEF Narrowed
  <2>4. CASE ok /\ 2 * block_size < Half
    <3>1. phase' = "double" /\ block_size' = 2 * block_size /\ tries' = tries
      BY <1>6, <2>4 DEF Returned, Advance, Doubled
    <3>2. BlockSizes'
      BY <2>1, <2>2, <2>4, <3>1 DEF BlockSizes
    <3>3. Narrowed'
      BY <1>2, <1>5, <2>1, <2>3, <2>4, <3>1 DEF Narrowed
    <3> QED BY <1>4, <1>5, <3>1, <3>2, <3>3 DEF Searching
  <2>5. CASE ok /\ ~(2 * block_size < Half)
    <3>1. phase' = "halve" /\ block_size' = 2 * block_size /\ tries' = tries
      BY <1>6, <2>5 DEF Returned, Advance, Doubled
    <3>2. block_size' = Half
      BY <1>5, <2>2, <2>5, <3>1, HalfTyped
    <3>3. BlockSizes'
      BY <2>1, <2>2, <3>1, <3>2, HalfTyped DEF BlockSizes
    <3>4. Narrowed'
      BY <1>2, <1>5, <2>1, <2>3, <2>5, <3>1, <3>2, HalfTyped DEF Narrowed, Reached
    <3> QED BY <1>4, <1>5, <3>1, <3>3, <3>4 DEF Searching
  <2>6. CASE ~ok
    <3>1. phase' = "halve" /\ block_size' = block_size /\ tries' = tries
      BY <1>6, <2>6 DEF Returned, Advance, Doubled
    <3>2. BlockSizes'
      BY <1>5, <2>1, <3>1, HalfTyped DEF BlockSizes
    <3>3. Narrowed'
      BY <1>2, <1>5, <2>1, <2>3, <2>6, <3>1, HalfTyped DEF Narrowed, Reached
    <3> QED BY <1>4, <1>5, <3>1, <3>2, <3>3 DEF Searching
  <2> QED BY <2>4, <2>5, <2>6
<1>7. CASE phase = "halve"
  <2>1. Count = block_size /\ block_size \in Pow2 /\ block_size <= Half
    BY <1>7 DEF Count, BlockSizes
  <2>2. (prompt /\ ~flaky) =>
          /\ total_pools <= (Half - 1) + 2 * (Half - block_size)
          /\ \/ limit - total_pools < 2 * block_size
             \/ total_pools = (Half - 1) + 2 * (Half - block_size)
    BY <1>7 DEF Narrowed, Reached
  <2>3. CASE block_size = 1
    <3>1. phase' = "single" /\ block_size' = 0 /\ tries' = tries
      BY <1>7, <2>3 DEF Returned, Advance, Halved
    <3>2. tries = 0
      BY <1>7 DEF BlockSizes
    <3>3. BlockSizes'
      BY <1>5, <3>1, <3>2 DEF BlockSizes
    <3>4. Narrowed'
      BY <1>2, <1>5, <2>1, <2>2, <2>3, <3>1, <3>2, HalfTyped DEF Narrowed, Reached
    <3> QED BY <1>4, <1>5, <3>1, <3>3, <3>4 DEF Searching
  <2>4. CASE \E h \in Pow2 : block_size = 2 * h
    <3> PICK h \in Pow2 : block_size = 2 * h
      BY <2>4
    <3>1. h \in Nat /\ h >= 1
      BY Pow2Doubles DEF Pow2
    <3>2. phase' = "halve" /\ block_size' = h /\ tries' = tries
      BY <1>7, <3>1 DEF Returned, Advance, Halved
    <3>3. BlockSizes'
      BY <1>7, <2>1, <3>1, <3>2, HalfTyped DEF BlockSizes
    <3>4. Narrowed'
      BY <1>2, <1>5, <2>1, <2>2, <3>1, <3>2, HalfTyped DEF Narrowed, Reached
    <3> QED BY <1>4, <1>5, <3>1, <3>2, <3>3, <3>4 DEF Searching
  <2> QED BY <2>1, <2>3, <2>4, Pow2Halves
<1>8. CASE phase = "single"
  <2>1. Count = 1 /\ tries < Singles
    BY <1>8 DEF Count, BlockSizes
  <2>2. /\ phase' = IF tries + 1 = Singles THEN "wait" ELSE "single"
        /\ block_size' = block_size
        /\ tries' = tries + 1
    BY <1>8 DEF Returned, Advance, Tried
  <2>3. BlockSizes'
    BY <1>5, <2>1, <2>2 DEF BlockSizes
  <2>4. (prompt /\ ~flaky) => /\ total_pools <= 3 * Half - 2 + tries
                              /\ \/ total_pools = limit
                                 \/ total_pools = 3 * Half - 2 + tries
    BY <1>8 DEF Narrowed, Reached
  <2>5. Narrowed'
    BY <1>2, <1>5, <2>1, <2>2, <2>4, HalfTyped DEF Narrowed, Reached
  <2> QED BY <1>4, <1>5, <2>2, <2>3, <2>5 DEF Searching
<1> QED BY <1>6, <1>7, <1>8 DEF Searching

(* Every step keeps the invariant. *)
LEMMA ThiefSteps == ASSUME Half \in Pow2, ThiefInv, [Next]_vars PROVE ThiefInv'
<1> USE DEF ThiefInv
<1>1. CASE Connect \/ Create \/ RoundtripDone \/ Accept \/ Refuse \/ CleanUp
  BY <1>1, WithinAttempt
<1>2. CASE ConnectFails
  BY <1>2, AttemptEnds DEF ConnectFails
<1>3. CASE RoundtripFails
  <2>1. conn = "open" /\ phase \in Searching
    BY <1>3 DEF RoundtripFails, Accounted, ThiefType
  <2>2. prompt => total_pools + Count > limit
    BY <1>3, <2>1 DEF RoundtripFails, Accounted, Searching
  <2> QED BY <1>3, <2>1, <2>2, AttemptEnds DEF RoundtripFails
<1>4. CASE Consumed
  <2>1. phase \in Searching
    BY <1>4 DEF Consumed, Accounted
  <2>2. held = Count
    BY <1>4 DEF Consumed, Accounted, ThiefType
  <2> QED BY <1>4, <2>1, <2>2, AttemptEnds DEF Consumed
<1>5. CASE Interrupt
  BY <1>5 DEF Interrupt, ThiefType, Accounted, BlockSizes, Narrowed, Searching, Count,
              connVars, fixedVars
<1>6. CASE UNCHANGED vars
  BY <1>6 DEF vars, searchVars, connVars, heldVars, fixedVars, ThiefType, Accounted,
              BlockSizes, Narrowed, Reached, Count
<1> QED BY <1>1, <1>2, <1>3, <1>4, <1>5, <1>6 DEF Next

(* What the invariant says of the total: when the search is over it is the   *)
(* limit, or the most there can be.                                          *)
LEMMA ThiefFound == ASSUME ThiefInv PROVE FindsLimit
<1> USE DEF ThiefInv
<1>1. CASE phase = "wait" /\ prompt /\ ~flaky
  <2>1. tries = Singles /\ Singles \in Nat
    BY <1>1, ThiefAssumption DEF BlockSizes
  <2>2. /\ total_pools <= 3 * Half - 2 + Singles
        /\ total_pools = limit \/ total_pools = 3 * Half - 2 + Singles
    BY <1>1, <2>1 DEF Narrowed, Reached
  <2>3. kept = total_pools /\ total_pools <= limit
    BY <1>1 DEF Accounted, ThiefType
  <2> QED BY <1>1, <2>1, <2>2, <2>3, HalfTyped DEF ThiefType, FindsLimit, Most
<1>2. CASE ~(phase = "wait" /\ prompt /\ ~flaky)
  BY <1>2 DEF Accounted, FindsLimit
<1> QED BY <1>1, <1>2

(* For every limit, word size, batch and number of single tries: the total    *)
(* the program prints is what the compositor holds for it, and, if nothing    *)
(* else takes up room and no attempt fails at its start, all it has room for. *)
THEOREM LimitIsFound == Half \in Pow2 => (Spec => []FindsLimit)
<1> SUFFICES ASSUME Half \in Pow2 PROVE Spec => []FindsLimit
  OBVIOUS
<1>1. Init => ThiefInv
  BY ThiefStarts
<1>2. ThiefInv /\ [Next]_vars => ThiefInv'
  BY ThiefSteps
<1>3. ThiefInv => FindsLimit
  BY ThiefFound
<1> QED BY <1>1, <1>2, <1>3, PTL DEF Spec

-------------------------------------------------------------------------------
(* A remainder that is small enough is the number itself. *)
LEMMA ModSmall == \A b \in Nat : \A a \in 0 .. b - 1 : a % b = a
BY Z3

(* Every number of points has one last region. *)
LEMMA DivUnique ==
  \A p \in Nat \ {0} : \A a, q \in Nat : (q * p <= a /\ a < (q + 1) * p) => a \div p = q
<1> SUFFICES ASSUME NEW p \in Nat \ {0}, NEW a \in Nat, NEW q \in Nat,
                    q * p <= a, a < (q + 1) * p
             PROVE  a \div p = q
  OBVIOUS
<1> DEFINE d == a \div p
<1>1. d \in Nat /\ d * p <= a /\ a < (d + 1) * p
  BY Z3
<1> HIDE DEF d
<1>2. ~(d < q)
  <2> SUFFICES ASSUME d + 1 <= q PROVE FALSE
    BY <1>1
  <2>1. (d + 1) * p <= q * p
    BY <1>1, Z3
  <2>2. (d + 1) * p \in Nat /\ q * p \in Nat
    BY <1>1
  <2> QED BY <1>1, <2>1, <2>2
<1>3. ~(q < d)
  <2> SUFFICES ASSUME q + 1 <= d PROVE FALSE
    BY <1>1
  <2>1. (q + 1) * p <= d * p
    BY <1>1, Z3
  <2>2. (q + 1) * p \in Nat /\ d * p \in Nat
    BY <1>1
  <2> QED BY <1>1, <2>1, <2>2
<1> QED BY <1>1, <1>2, <1>3 DEF d

(* r is the integer square root of n. *)
RootOf(r, n) == r * r <= n /\ n < (r + 1) * (r + 1)

(* Squares below that of Root - 1 do not wrap, and leave small remainders. *)
LEMMA SquareFits ==
  ASSUME NEW r \in Nat, NEW n \in Nat, r * r <= n, n < (Root - 1) * (Root - 1)
  PROVE  /\ r <= Root - 2
         /\ Squared(r) = r * r
         /\ Squared(r + 1) = (r + 1) * (r + 1)
         /\ 2 * r < Half /\ 2 * r < Word
<1>1. Root \in Nat /\ Root >= 2 /\ Word = Root * Root /\ Word \in Nat
  BY ThiefAssumption DEF Word
<1>2. r <= Root - 2
  <2> SUFFICES ASSUME r >= Root - 1 PROVE FALSE
    BY <1>1
  <2>1. (Root - 1) * (Root - 1) <= r * r
    BY <1>1, Z3
  <2>2. (Root - 1) * (Root - 1) \in Int /\ r * r \in Int
    BY <1>1
  <2> QED BY <2>1, <2>2
<1>3. \A s \in Nat : s <= Root - 1 => s * s \in 0 .. Root * Root - 1
  BY <1>1, Z3
<1>4. \A s \in Nat : s <= Root - 1 => Squared(s) = s * s
  BY <1>1, <1>3, ModSmall DEF Squared
<1>5. 2 * r < Half /\ 2 * r < Word
  <2>1. 4 * r <= Root * Root - 4
    <3>1. 4 * (Root - 2) <= Root * Root - 4
      BY <1>1, Z3
    <3>2. Root * Root \in Nat
      BY <1>1
    <3> QED BY <1>1, <1>2, <3>1, <3>2
  <2>2. 2 * Half >= Word - 1 /\ Half \in Nat
    BY <1>1, Z3 DEF Half
  <2> QED BY <1>1, <2>1, <2>2
<1>6. r + 1 \in Nat /\ r <= Root - 1 /\ r + 1 <= Root - 1
  BY <1>1, <1>2
<1> QED BY <1>2, <1>4, <1>5, <1>6

(* The root of the next point's number is the last one's or follows it. *)
LEMMA RootGrows ==
  ASSUME NEW r \in Nat, NEW n \in Nat, NEW m \in Nat, RootOf(r, n),
         n <= m, m <= n + 3, m < (Root - 1) * (Root - 1)
  PROVE  LET g == Grown(r, m)
         IN  RootOf(g, m) /\ Signed(m - Squared(g)) = m - g * g
<1>0. Root \in Nat /\ Root >= 2 /\ (Root - 1) * (Root - 1) \in Int
      /\ r * r \in Nat /\ (r + 1) * (r + 1) \in Nat /\ (r + 2) * (r + 2) \in Nat
  BY ThiefAssumption
<1>1. r * r <= m
  BY <1>0 DEF RootOf
<1>2. Squared(r + 1) = (r + 1) * (r + 1)
  BY <1>1, SquareFits
<1> DEFINE g == Grown(r, m)
<1>3. g \in Nat /\ RootOf(g, m)
  <2>1. CASE m >= (r + 1) * (r + 1)
    <3>1. g = r + 1
      BY <1>2, <2>1 DEF Grown
    <3>2. (r + 2) * (r + 2) >= (r + 1) * (r + 1) + 3
      BY Z3
    <3>3. m < (r + 2) * (r + 2)
      BY <1>0, <3>2 DEF RootOf
    <3>4. (r + 1) + 1 = r + 2
      OBVIOUS
    <3> QED BY <2>1, <3>1, <3>3, <3>4 DEF RootOf
  <2>2. CASE ~(m >= (r + 1) * (r + 1))
    <3>1. g = r
      BY <1>2, <2>2 DEF Grown
    <3>2. m < (r + 1) * (r + 1)
      BY <1>0, <2>2
    <3> QED BY <1>1, <3>1, <3>2 DEF RootOf
  <2> QED BY <2>1, <2>2
<1> HIDE DEF g
<1>4. Squared(g) = g * g /\ 2 * g < Half /\ 2 * g < Word
  BY <1>3, SquareFits DEF RootOf
<1>5. m - g * g \in 0 .. 2 * g
  <2>1. (g + 1) * (g + 1) = g * g + 2 * g + 1
    BY <1>3, Z3
  <2>2. g * g \in Nat
    BY <1>3
  <2> QED BY <1>3, <2>1, <2>2 DEF RootOf
<1>6. Signed(m - Squared(g)) = m - g * g
  <2> DEFINE v == m - g * g
  <2>1. v \in 0 .. Word - 1 /\ v < Half /\ Word \in Nat /\ Half \in Nat
    BY <1>3, <1>4, <1>5, HalfTyped, ThiefAssumption DEF Word
  <2> HIDE DEF v
  <2>2. v % Word = v
    BY <2>1, ModSmall
  <2>3. Signed(v) = v
    BY <2>1, <2>2 DEF Signed
  <2> QED BY <1>4, <2>3 DEF v
<1> QED BY <1>3, <1>6 DEF g

(* The inductive invariant: the last region is the one the last point belongs
   to, and isqrt is the root of its number as long as squares do not wrap. *)
Regions(n, k) ==
  k > 0 /\ (k - 1) * PointsPerRegion <= n - 1 /\ n - 1 < k * PointsPerRegion

PointInv ==
  mode = "region" =>
    /\ isqrt \in Nat /\ region_no \in Nat
    /\ i = 0 => isqrt = 0 /\ region_no = 0
    /\ i > 0 => /\ Regions(i, region_no)
                /\ point.pos \in {2 * (i - 1), 2 * (i - 1) + 1}
                /\ point.pos < (Root - 1) * (Root - 1) =>
                     RootOf(isqrt, point.pos) /\ point.y = point.pos - isqrt * isqrt

(* The number of points of an attempt is at most Half. *)
LEMMA CountBound ==
  ASSUME Half \in Pow2, ThiefInv, phase \in Searching PROVE Count \in Nat /\ Count <= Half
BY Pow2Doubles, HalfTyped DEF ThiefInv, ThiefType, BlockSizes, Searching, Count

(* The next region begins with the point that has no room in the last one. *)
LEMMA RegionGrows ==
  ASSUME PointsPerRegion <= Half, NEW n \in Nat, n < Half, NEW k \in Nat,
         IF n = 0 THEN k = 0 ELSE Regions(n, k)
  PROVE  Regions(n + 1, IF n >= (k * PointsPerRegion) % Word THEN k + 1 ELSE k)
<1> DEFINE P == PointsPerRegion
           t == k * P
<1>1. P \in Nat \ {0} /\ t \in Nat /\ Half \in Nat /\ Word \in Nat
  BY ThiefAssumption, HalfTyped DEF Word
<1>2. /\ (k - 1) * P = t - P /\ (k + 1) * P = t + P /\ ((k + 1) - 1) * P = t
  BY <1>1, Z3
<1>3. 2 * Half <= Word
  <2> SUFFICES ASSUME NEW q \in Nat PROVE 2 * (q \div 2) <= q
    BY <1>1 DEF Half
  <2> QED OBVIOUS
<1> HIDE DEF t
<1>4. t \in 0 .. Word - 1
  <2>1. CASE n = 0
    BY <1>1, <1>3, <2>1, HalfTyped DEF t
  <2>2. CASE n # 0
    <3>1. t - P <= n - 1
      BY <1>2, <2>2 DEF Regions
    <3> QED BY <1>1, <1>3, <3>1
  <2> QED BY <2>1, <2>2
<1>5. t % Word = t
  BY <1>1, <1>4, ModSmall
<1>6. CASE n >= t
  <2>1. (IF n >= (k * P) % Word THEN k + 1 ELSE k) = k + 1
    BY <1>5, <1>6 DEF t
  <2>2. n < t + P
    <3>1. CASE n = 0
      BY <1>1, <3>1
    <3>2. CASE n # 0
      <4>1. n - 1 < t
        BY <3>2 DEF Regions, t
      <4> QED BY <1>1, <4>1
    <3> QED BY <3>1, <3>2
  <2>3. (n + 1) - 1 = n /\ k + 1 > 0
    OBVIOUS
  <2>4. Regions(n + 1, k + 1)
    BY <1>2, <1>6, <2>2, <2>3 DEF Regions
  <2> QED BY <2>1, <2>4
<1>7. CASE ~(n >= t)
  <2>1. (IF n >= (k * P) % Word THEN k + 1 ELSE k) = k
    BY <1>5, <1>7 DEF t
  <2>2. n # 0 /\ k > 0
    BY <1>1, <1>7 DEF t, Regions
  <2>3. t - P <= n - 1
    BY <1>2, <2>2 DEF Regions
  <2>4. (n + 1) - 1 = n /\ t - P <= n /\ n < t
    BY <1>1, <1>7, <2>3
  <2>5. Regions(n + 1, k)
    BY <1>2, <2>2, <2>4 DEF Regions, t
  <2> QED BY <2>1, <2>5
<1> QED BY <1>6, <1>7

(* One more point. *)
LEMMA PointAdded ==
  ASSUME Half \in Pow2, PointsPerRegion <= Half, ThiefInv, PointInv, Create
  PROVE  PointInv'
<1> SUFFICES ASSUME mode' = "region" PROVE PointInv'
  BY DEF PointInv
<1>1. mode = "region" /\ AddPoint /\ i' = i + 1 /\ i < Half /\ i \in Nat
  <2>1. phase \in Searching /\ i < Count /\ i \in Nat
    BY DEF Create, ThiefInv, Accounted, ThiefType
  <2>2. Count \in Nat /\ Count <= Half
    BY <2>1, CountBound
  <2>3. mode = "region" /\ AddPoint
    BY DEF Create, fixedVars
  <2>4. i' = i + 1
    BY DEF Create
  <2> QED BY <2>1, <2>2, <2>3, <2>4, HalfTyped
<1>2. /\ isqrt \in Nat /\ region_no \in Nat
      /\ i = 0 => isqrt = 0 /\ region_no = 0
      /\ i > 0 => /\ Regions(i, region_no)
                  /\ point.pos \in {2 * (i - 1), 2 * (i - 1) + 1}
                  /\ point.pos < (Root - 1) * (Root - 1) =>
                       RootOf(isqrt, point.pos) /\ point.y = point.pos - isqrt * isqrt
  BY <1>1 DEF PointInv
<1>3. PICK coin \in {0, 1} :
        LET next == 2 * i + coin
            r == Grown(isqrt, next)
        IN  /\ isqrt' = r
            /\ point' = [pos |-> next, y |-> Signed(next - Squared(r))]
            /\ region_no' = IF i >= (region_no * PointsPerRegion) % Word
                              THEN region_no + 1 ELSE region_no
  BY <1>1 DEF AddPoint
<1> DEFINE m == 2 * i + coin
<1>4. /\ isqrt' = Grown(isqrt, m)
      /\ point'.pos = m
      /\ point'.y = Signed(m - Squared(isqrt'))
      /\ m \in Nat
  BY <1>1, <1>3
<1>5. isqrt' \in Nat
  BY <1>2, <1>4 DEF Grown
<1>6. Regions(i + 1, region_no') /\ region_no' \in Nat
  <2>1. IF i = 0 THEN region_no = 0 ELSE Regions(i, region_no)
    BY <1>1, <1>2
  <2>2. Regions(i + 1, IF i >= (region_no * PointsPerRegion) % Word
                       THEN region_no + 1 ELSE region_no)
    BY <1>1, <1>2, <2>1, RegionGrows
  <2> QED BY <1>2, <1>3, <2>2
<1>7. point'.pos \in {2 * (i' - 1), 2 * (i' - 1) + 1}
  BY <1>1, <1>4
<1>8. ASSUME m < (Root - 1) * (Root - 1)
      PROVE  RootOf(isqrt', m) /\ point'.y = m - isqrt' * isqrt'
  <2>1. PICK n \in Nat : RootOf(isqrt, n) /\ n <= m /\ m <= n + 3
    <3>1. CASE i = 0
      <4>1. RootOf(isqrt, 0) /\ 0 <= m /\ m <= 0 + 3
        BY <1>2, <3>1 DEF RootOf
      <4> QED BY <4>1
    <3>2. CASE i > 0
      <4>1. point.pos \in Nat /\ point.pos <= m /\ m <= point.pos + 3
        BY <1>1, <1>2, <3>2
      <4>2. (Root - 1) * (Root - 1) \in Int
        BY ThiefAssumption
      <4>3. point.pos < (Root - 1) * (Root - 1)
        BY <1>4, <1>8, <4>1, <4>2
      <4>4. RootOf(isqrt, point.pos)
        BY <1>2, <3>2, <4>3
      <4> QED BY <4>1, <4>4
    <3> QED BY <1>1, <3>1, <3>2
  <2>2. LET g == Grown(isqrt, m)
        IN  RootOf(g, m) /\ Signed(m - Squared(g)) = m - g * g
    BY <1>2, <1>4, <1>8, <2>1, RootGrows
  <2> QED BY <1>4, <2>2
<1> HIDE DEF m
<1> QED BY <1>1, <1>4, <1>5, <1>6, <1>7, <1>8 DEF PointInv

(* Every step keeps the invariant: an attempt that ends starts the next one  *)
(* without points, and nothing else touches them.                            *)
LEMMA PointSteps ==
  ASSUME Half \in Pow2, PointsPerRegion <= Half, ThiefInv, PointInv, [Next]_vars
  PROVE  PointInv'
<1>1. ASSUME NEW ok \in BOOLEAN, Returned(ok) PROVE PointInv'
  BY <1>1 DEF Returned, PointInv
<1>2. CASE Create
  BY <1>2, PointAdded
<1>3. CASE ConnectFails \/ RoundtripFails \/ Consumed
  BY <1>1, <1>3 DEF ConnectFails, RoundtripFails, Consumed
<1>4. CASE \/ Connect \/ RoundtripDone \/ Interrupt \/ Accept \/ Refuse \/ CleanUp
           \/ UNCHANGED vars
  <2>1. UNCHANGED <<mode, i, isqrt, region_no, point>>
    BY <1>4 DEF Connect, RoundtripDone, Interrupt, Accept, Refuse, CleanUp, vars,
                pointVars, connVars, fixedVars
  <2> QED BY <2>1 DEF PointInv
<1> QED BY <1>2, <1>3, <1>4 DEF Next

(* What the invariant says of the last point. *)
LEMMA PointFound == ASSUME ThiefInv, PointInv PROVE PointsOnCurve
<1> SUFFICES ASSUME mode = "region", i > 0
             PROVE  /\ region_no = (i - 1) \div PointsPerRegion + 1
                    /\ point.pos < (Root - 1) * (Root - 1) =>
                         /\ isqrt * isqrt + point.y = point.pos
                         /\ point.y \in 0 .. 2 * isqrt
  BY DEF PointsOnCurve
<1>1. /\ i \in Nat /\ isqrt \in Nat /\ region_no \in Nat
      /\ Regions(i, region_no)
      /\ point.pos \in {2 * (i - 1), 2 * (i - 1) + 1}
      /\ point.pos < (Root - 1) * (Root - 1) =>
           RootOf(isqrt, point.pos) /\ point.y = point.pos - isqrt * isqrt
  BY DEF PointInv, ThiefInv, ThiefType
<1>2. region_no = (i - 1) \div PointsPerRegion + 1
  <2>1. /\ region_no - 1 \in Nat /\ i - 1 \in Nat
        /\ (region_no - 1) * PointsPerRegion <= i - 1
        /\ i - 1 < ((region_no - 1) + 1) * PointsPerRegion
    BY <1>1 DEF Regions
  <2>2. (i - 1) \div PointsPerRegion = region_no - 1
    BY <2>1, DivUnique, ThiefAssumption
  <2> QED BY <1>1, <2>2
<1>3. ASSUME point.pos < (Root - 1) * (Root - 1)
      PROVE  isqrt * isqrt + point.y = point.pos /\ point.y \in 0 .. 2 * isqrt
  <2>1. point.pos \in Nat /\ isqrt * isqrt \in Nat
    BY <1>1
  <2>2. (isqrt + 1) * (isqrt + 1) = isqrt * isqrt + 2 * isqrt + 1
    BY <1>1, Z3
  <2> QED BY <1>1, <1>3, <2>1, <2>2 DEF RootOf
<1> QED BY <1>2, <1>3

(* For every width of the integers that is a power of two and every share of  *)
(* a region that fits them: the 32-bit arithmetic of the points is exact as   *)
(* long as the next square is representable, and the regions follow one       *)
(* another without a gap.                                                     *)
THEOREM PointsAreOnCurve ==
  (Half \in Pow2 /\ PointsPerRegion <= Half) => (Spec => []PointsOnCurve)
<1> SUFFICES ASSUME Half \in Pow2, PointsPerRegion <= Half
             PROVE  Spec => []PointsOnCurve
  OBVIOUS
<1> DEFINE Both == ThiefInv /\ PointInv
<1>1. Init => Both
  <2>1. Init => PointInv
    BY DEF Init, PointInv
  <2> QED BY <2>1, ThiefStarts
<1>2. Both /\ [Next]_vars => Both'
  BY ThiefSteps, PointSteps
<1>3. Both => PointsOnCurve
  BY PointFound
<1> QED BY <1>1, <1>2, <1>3, PTL DEF Spec

-------------------------------------------------------------------------------
Resizings == {"NONE", "ANCHORED_TO_BOTTOM_RIGHT", "ANCHORED_TO_CENTER"}

ResizorType == /\ {pos, last, size, attach, drawn, moved} \subseteq Vectors
               /\ resizing \in Resizings
               /\ steady \in BOOLEAN
               /\ slots \in [Slots -> Slot]

(* During a steady drag what the edges have moved is what the frame on screen *)
(* differs by from the one asked for.                                         *)
Kept == steady => /\ resizing # "NONE"
                  /\ \A a \in Axes : moved[a] = drawn[a] - size[a]

(* What get_next_buffer makes of a slot is a slot. *)
LEMMA OutcomeTyped ==
  ASSUME NEW s \in Slot, NEW new \in Buffers, NEW w \in Int, NEW h \in Int,
         NEW o \in get_next_buffer(s, new, w, h)
  PROVE  o.slot \in Slot /\ o.ok \in BOOLEAN
<1>1. \/ o = [slot |-> s, ok |-> TRUE]
      \/ o = [slot |-> Created(new, w, h), ok |-> TRUE]
      \/ o = [slot |-> s, ok |-> FALSE]
      \/ o = [slot |-> EmptySlot, ok |-> FALSE]
  BY DEF get_next_buffer
<1>2. Created(new, w, h) \in Slot /\ EmptySlot \in Slot
  BY DEF Created, EmptySlot, Slot
<1> HIDE DEF Created, EmptySlot
<1>3. CASE o = [slot |-> s, ok |-> TRUE]
  BY <1>3
<1>4. CASE o = [slot |-> Created(new, w, h), ok |-> TRUE]
  BY <1>2, <1>4
<1>5. CASE o = [slot |-> s, ok |-> FALSE]
  BY <1>5
<1>6. CASE o = [slot |-> EmptySlot, ok |-> FALSE]
  BY <1>2, <1>6
<1> QED
  BY <1>1, <1>3, <1>4, <1>5, <1>6

(* The pool's slots stay records of integers, whatever becomes of a frame. *)
LEMMA RenderTyped ==
  ASSUME slots \in [Slots -> Slot], NEW w \in Int, NEW h \in Int, PoolRender(w, h)
  PROVE  slots' \in [Slots -> Slot]
<1>1. PICK new \in Buffers : \E o \in get_next_buffer(slots[NextSlot], new, w, h) :
        slots' = [slots EXCEPT ![NextSlot] = [o.slot EXCEPT !.busy = o.ok]]
  BY DEF PoolRender
<1>2. PICK o \in get_next_buffer(slots[NextSlot], new, w, h) :
        slots' = [slots EXCEPT ![NextSlot] = [o.slot EXCEPT !.busy = o.ok]]
  BY <1>1
<1>3. NextSlot \in Slots /\ slots[NextSlot] \in Slot
  BY DEF NextSlot, Slots
<1>4. o.slot \in Slot /\ o.ok \in BOOLEAN
  BY <1>2, <1>3, OutcomeTyped
<1>5. [o.slot EXCEPT !.busy = o.ok] \in Slot
  BY <1>4 DEF Slot
<1> QED
  BY <1>2, <1>3, <1>5

(* What surface_render leaves is typed when the size and the offset are. *)
LEMMA SurfaceRendered ==
  ASSUME ResizorType, size' \in Vectors, NEW o \in Vectors, surface_render(o)
  PROVE  attach' \in Vectors /\ drawn' \in Vectors /\ slots' \in [Slots -> Slot]
<1>1. slots' \in [Slots -> Slot]
  <2>1. size'[1] \in Int /\ size'[2] \in Int
    BY DEF Vectors, Axes
  <2>2. CASE PoolRender(size'[1], size'[2])
    BY <2>1, <2>2, RenderTyped DEF ResizorType
  <2> QED
    BY <2>2 DEF surface_render, ResizorType
<1>2. Content(slots'[NextSlot]) \in Vectors
  <2>1. slots'[NextSlot] \in Slot
    BY <1>1 DEF NextSlot, Slots
  <2> QED
    BY <2>1 DEF Slot, Content, Vectors, Axes, Origin
<1>3. Origin \in Vectors
  BY DEF Origin, Vectors
<1> QED
  BY <1>1, <1>2, <1>3 DEF surface_render, ResizorType

(* The clamp, on either axis: where it leads is in range. *)
LEMMA ClampedInRange ==
  ASSUME NEW s \in Int, NEW e \in Int
  PROVE  Clamped(s, e) \in Int /\ s - Clamped(s, e) \in MIN_SIZE .. MAX_SIZE
<1>1. MIN_SIZE \in Int /\ MAX_SIZE \in Int /\ MIN_SIZE <= MAX_SIZE
  BY ResizorAssumption
<1>2. CASE s - e < MIN_SIZE
  <2>1. Clamped(s, e) = s - MIN_SIZE
    BY <1>2 DEF Clamped
  <2> QED
    BY <1>1, <2>1
<1>3. CASE ~(s - e < MIN_SIZE) /\ s - e > MAX_SIZE
  <2>1. Clamped(s, e) = s - MAX_SIZE
    BY <1>3 DEF Clamped
  <2> QED
    BY <1>1, <2>1
<1>4. CASE ~(s - e < MIN_SIZE) /\ ~(s - e > MAX_SIZE)
  <2>1. Clamped(s, e) = e
    BY <1>4 DEF Clamped
  <2> QED
    BY <1>1, <1>4, <2>1
<1> QED
  BY <1>2, <1>3, <1>4

(* A motion of a drag, axis by axis. *)
LEMMA MotionResizes ==
  ASSUME ResizorType, pointer_handle_motion, resizing # "NONE"
  PROVE  /\ pos' \in Vectors
         /\ \E dx \in Vectors :
              /\ Resized(dx)
              /\ \A a \in Axes : /\ size[a] - dx[a] \in MIN_SIZE .. MAX_SIZE
                                 /\ size'[a] = size[a] - Factor * dx[a]
              /\ size' \in Vectors
              /\ last' \in Vectors
<1> DEFINE dx == [a \in Axes |-> Clamped(size[a], pos'[a] - last[a])]
<1>1. pos' \in Vectors
  BY ResizorAssumption DEF pointer_handle_motion
<1>2. \A a \in Axes : size[a] \in Int /\ pos'[a] - last[a] \in Int
  BY <1>1 DEF ResizorType, Vectors
<1>3. \A a \in Axes : Clamped(size[a], pos'[a] - last[a]) \in Int
                      /\ size[a] - Clamped(size[a], pos'[a] - last[a])
                           \in MIN_SIZE .. MAX_SIZE
  BY <1>2, ClampedInRange
<1>4. dx \in Vectors /\ \A a \in Axes : size[a] - dx[a] \in MIN_SIZE .. MAX_SIZE
  BY <1>3 DEF Vectors
<1>5. Resized(dx)
  BY DEF pointer_handle_motion
<1> HIDE DEF dx
<1>6. /\ \A a \in Axes : size'[a] = size[a] - Factor * dx[a]
      /\ size' \in Vectors /\ last' \in Vectors
  <2>1. size' = [a \in Axes |-> size[a] - Factor * dx[a]]
        /\ last' = [a \in Axes |-> pos'[a] - dx[a]]
    BY <1>5 DEF Resized
  <2>2. \A a \in Axes : dx[a] \in Int /\ size[a] \in Int /\ pos'[a] \in Int
    BY <1>1, <1>4 DEF ResizorType, Vectors
  <2>3. \A a \in Axes : size[a] - Factor * dx[a] \in Int /\ pos'[a] - dx[a] \in Int
    BY <2>2 DEF Factor
  <2> QED
    BY <2>1, <2>3 DEF Vectors
<1> QED
  BY <1>1, <1>4, <1>5, <1>6

(* How the edges move on screen while a drag goes on steadily. *)
LEMMA MovesAdd ==
  ASSUME ResizorType, drawn' \in Vectors, NEW dx \in Vectors, Resized(dx)
  PROVE  /\ moved' \in Vectors
         /\ Kept /\ steady' => \A a \in Axes : moved'[a] = drawn'[a] - size'[a]
<1>1. \A a \in Axes : /\ moved[a] \in Int /\ drawn[a] \in Int /\ drawn'[a] \in Int
                      /\ dx[a] \in Int /\ size[a] \in Int
  BY DEF ResizorType, Vectors
<1>2. \A a \in Axes : size'[a] = size[a] - Factor * dx[a]
  BY DEF Resized
<1>3. \A a \in Axes : AnchorMove(dx, a) = Factor * dx[a] + drawn'[a] - drawn[a]
  BY <1>1 DEF AnchorMove, Factor
<1>4. \A a \in Axes : Factor * dx[a] \in Int
  BY <1>1 DEF Factor
<1>5. CASE steady'
  <2>1. moved' = [a \in Axes |-> moved[a] + AnchorMove(dx, a)]
    BY <1>5 DEF Resized
  <2>2. \A a \in Axes : moved'[a] = moved[a] + Factor * dx[a] + drawn'[a] - drawn[a]
    BY <1>1, <1>3, <1>4, <2>1
  <2>3. moved' \in Vectors
    BY <1>1, <1>3, <1>4, <2>1 DEF Vectors
  <2>4. ASSUME Kept PROVE \A a \in Axes : moved'[a] = drawn'[a] - size'[a]
    <3>1. \A a \in Axes : moved[a] = drawn[a] - size[a]
      BY <1>5, <2>4 DEF Kept, Resized
    <3> QED
      BY <1>1, <1>2, <1>4, <2>2, <3>1
  <2> QED
    BY <2>3, <2>4
<1>6. CASE ~steady'
  BY <1>6 DEF Resized, Origin, Vectors
<1> QED
  BY <1>5, <1>6

(* A drag that begins anew keeps both. *)
LEMMA RestartKeeps ==
  ASSUME drawn' \in Vectors, Restarted
  PROVE  /\ moved' \in Vectors /\ steady' \in BOOLEAN
         /\ Kept'
<1>1. moved' \in Vectors /\ \A a \in Axes : moved'[a] = 0
  BY DEF Restarted, Origin, Vectors
<1>2. steady' \in BOOLEAN
  BY DEF Restarted
<1>3. ASSUME steady' PROVE resizing' # "NONE" /\ drawn' = size'
  BY <1>3 DEF Restarted
<1>4. \A a \in Axes : drawn'[a] - drawn'[a] = 0
  BY DEF Vectors
<1> QED
  BY <1>1, <1>2, <1>3, <1>4 DEF Kept

(* Every variable keeps its type, and a steady drag its account. *)
LEMMA ResizorTyped == ResizorSpec => [](ResizorType /\ Kept)
<1>1. ResizorInit => ResizorType /\ Kept
  <2> SUFFICES ASSUME ResizorInit PROVE ResizorType /\ Kept
    OBVIOUS
  <2>1. Origin \in Vectors /\ Start \in Vectors /\ Start[1] \in Int /\ Start[2] \in Int
    BY ResizorAssumption DEF Origin, Vectors, Axes
  <2>2. slots \in [Slots -> Slot]
    BY <2>1 DEF ResizorInit, Slot, EmptySlot
  <2> QED
    BY <2>1, <2>2 DEF ResizorInit, ResizorType, Kept, Resizings
<1>2. ResizorType /\ Kept /\ [ResizorNext]_resizorVars => ResizorType' /\ Kept'
  <2> SUFFICES ASSUME ResizorType, Kept, [ResizorNext]_resizorVars
               PROVE  ResizorType' /\ Kept'
    OBVIOUS
  <2>1. CASE pointer_handle_enter
    BY <2>1, ResizorAssumption DEF pointer_handle_enter, ResizorType, Kept
  <2>2. CASE pointer_handle_motion
    <3>1. pos' \in Vectors /\ resizing' = resizing
      BY <2>2, ResizorAssumption DEF pointer_handle_motion
    <3>2. CASE resizing = "NONE"
      BY <2>2, <3>1, <3>2 DEF pointer_handle_motion, ResizorType, Kept
    <3>3. CASE resizing # "NONE"
      <4>1. PICK dx \in Vectors : Resized(dx) /\ size' \in Vectors /\ last' \in Vectors
        BY <2>2, <3>3, MotionResizes
      <4>2. attach' \in Vectors /\ drawn' \in Vectors /\ slots' \in [Slots -> Slot]
        BY <4>1, SurfaceRendered DEF Resized
      <4>3. /\ moved' \in Vectors
            /\ steady' => \A a \in Axes : moved'[a] = drawn'[a] - size'[a]
        BY <4>1, <4>2, MovesAdd
      <4>4. steady' \in BOOLEAN
        BY <4>1 DEF Resized
      <4> QED
        BY <3>1, <3>3, <4>1, <4>2, <4>3, <4>4 DEF ResizorType, Kept
    <3> QED
      BY <3>2, <3>3
  <2>3. ASSUME NEW button \in Buttons, NEW pressed \in BOOLEAN,
               pointer_handle_button(button, pressed)
        PROVE  ResizorType' /\ Kept'
    <3>1. UNCHANGED <<pos, slots, size, attach, drawn>> /\ last' = pos /\ Restarted
      BY <2>3 DEF pointer_handle_button
    <3>2. resizing' \in Resizings
      BY <2>3 DEF pointer_handle_button, Anchor, ResizorType, Resizings
    <3>3. moved' \in Vectors /\ steady' \in BOOLEAN /\ Kept'
      BY <3>1, RestartKeeps DEF ResizorType
    <3> QED
      BY <3>1, <3>2, <3>3 DEF ResizorType
  <2>4. ASSUME NEW z \in Sizes, handle_configure(z) PROVE ResizorType' /\ Kept'
    <3>1. UNCHANGED pointer_state /\ surface_render(attach) /\ Restarted
      BY <2>4 DEF handle_configure
    <3>2. size' \in Vectors
      BY <2>4, ResizorAssumption DEF handle_configure, ResizorType, Vectors
    <3>3. attach' \in Vectors /\ drawn' \in Vectors /\ slots' \in [Slots -> Slot]
      BY <3>1, <3>2, SurfaceRendered DEF ResizorType
    <3>4. moved' \in Vectors /\ steady' \in BOOLEAN /\ Kept'
      BY <3>1, <3>3, RestartKeeps
    <3> QED
      BY <3>1, <3>2, <3>3, <3>4 DEF ResizorType, pointer_state
  <2>5. ASSUME NEW k \in Slots, buffer_handle_release(k) PROVE ResizorType' /\ Kept'
    <3>1. UNCHANGED <<pointer_state, size, attach, drawn, moved, steady>>
          /\ slots' = [slots EXCEPT ![k].busy = FALSE]
      BY <2>5 DEF buffer_handle_release, PoolRelease
    <3>2. slots' \in [Slots -> Slot]
      BY <3>1 DEF ResizorType, Slot
    <3> QED
      BY <3>1, <3>2 DEF ResizorType, Kept, pointer_state
  <2>6. CASE UNCHANGED resizorVars
    BY <2>6 DEF resizorVars, pointer_state, ResizorType, Kept
  <2> QED
    BY <2>1, <2>2, <2>3, <2>4, <2>5, <2>6 DEF ResizorNext
<1> QED
  BY <1>1, <1>2, PTL DEF ResizorSpec

(* A drag of one edge ends in the range, and one of both edges with the old   *)
(* and the new size as far from it as each other.                             *)
THEOREM DragsInRange == ResizorSpec => DragInRange
<1> DEFINE A == pointer_handle_motion => \A a \in Axes :
       /\ resizing = "ANCHORED_TO_BOTTOM_RIGHT" => size'[a] \in MIN_SIZE .. MAX_SIZE
       /\ resizing = "ANCHORED_TO_CENTER" =>
            size[a] + size'[a] \in 2 * MIN_SIZE .. 2 * MAX_SIZE
<1>1. ResizorType /\ [ResizorNext]_resizorVars => [A]_resizorVars
  <2> SUFFICES ASSUME ResizorType, pointer_handle_motion, resizing # "NONE",
                      NEW a \in Axes
               PROVE  /\ resizing = "ANCHORED_TO_BOTTOM_RIGHT" =>
                           size'[a] \in MIN_SIZE .. MAX_SIZE
                      /\ resizing = "ANCHORED_TO_CENTER" =>
                           size[a] + size'[a] \in 2 * MIN_SIZE .. 2 * MAX_SIZE
    OBVIOUS
  <2>1. PICK dx \in Vectors : /\ size[a] - dx[a] \in MIN_SIZE .. MAX_SIZE
                              /\ size'[a] = size[a] - Factor * dx[a]
    BY MotionResizes
  <2>2. size[a] \in Int /\ dx[a] \in Int
    BY DEF ResizorType, Vectors
  <2>3. MIN_SIZE \in Int /\ MAX_SIZE \in Int
    BY ResizorAssumption
  <2>4. CASE resizing = "ANCHORED_TO_CENTER"
    <3>1. size'[a] = size[a] - 2 * dx[a]
      BY <2>1, <2>4 DEF Factor
    <3> QED
      BY <2>1, <2>2, <2>3, <2>4, <3>1
  <2>5. CASE resizing # "ANCHORED_TO_CENTER"
    <3>1. size'[a] = size[a] - dx[a]
      BY <2>1, <2>2, <2>5 DEF Factor
    <3> QED
      BY <2>1, <2>5, <3>1
  <2> QED
    BY <2>4, <2>5
<1>2. DragInRange <=> [][A]_resizorVars
  BY DEF DragInRange
<1> HIDE DEF A
<1> QED
  BY <1>1, <1>2, ResizorTyped, PTL DEF ResizorSpec

(* In a steady drag the anchor is where it was whenever the frame on screen   *)
(* is the one asked for, whatever frames of another shape came before it.     *)
THEOREM AnchorsStay == ResizorSpec => []AnchorStays
<1>1. ResizorType /\ Kept => AnchorStays
  <2> SUFFICES ASSUME ResizorType, Kept, NEW a \in Axes, steady, drawn[a] = size[a]
               PROVE  moved[a] = 0
    BY DEF AnchorStays
  <2>1. moved[a] = drawn[a] - size[a] /\ drawn[a] \in Int
    BY DEF Kept, ResizorType, Vectors
  <2> QED
    BY <2>1
<1> QED
  BY <1>1, ResizorTyped, PTL
==============================================================================
