------------------------ MODULE HttpConnectionProofs ------------------------
(***************************************************************************)
(* Theorems about HttpConnection and the request memory under it, for any  *)
(* number and length of requests, any limits and any region.               *)
(***************************************************************************)
EXTENDS HttpConnection, SequenceTheorems, WellFoundedInduction, TLAPS

-----------------------------------------------------------------------------
(* Request memory. *)

LEMMA AlignedUp ==
    ASSUME NEW n \in Nat
    PROVE  Aligned(n) \in Nat /\ Aligned(n) >= n
BY RequestMemoryAssumption DEF Aligned

\* The region is a multiple of the alignment, so rounding up stays in it.
LEMMA AlignedFits ==
    ASSUME NEW n \in Nat, n <= MemorySize
    PROVE  Aligned(n) <= MemorySize
<1> DEFINE q == MemorySize \div Align
           r == (n + Align - 1) \div Align
<1>1. Align \in Nat \ {0} /\ MemorySize \in Nat
  BY RequestMemoryAssumption
<1>2. q \in Int /\ MemorySize = q * Align
  BY <1>1, RequestMemoryAssumption
<1>3. r \in Int /\ r * Align <= n + Align - 1
  BY <1>1
<1> HIDE DEF q, r
<1>4. SUFFICES ASSUME r > q PROVE FALSE
  <2>1. ASSUME r <= q PROVE r * Align <= q * Align
    BY <1>1, <1>2, <1>3, <2>1
  <2>2. QED
    BY <1>1, <1>2, <1>3, <2>1 DEF Aligned, r
<1>5. r * Align >= (q + 1) * Align
  BY <1>1, <1>2, <1>3, <1>4
<1>6. (q + 1) * Align = MemorySize + Align
  BY <1>1, <1>2
<1>7. (q + 1) * Align \in Int /\ r * Align \in Int
  BY <1>1, <1>2, <1>3
<1>8. QED
  BY <1>1, <1>3, <1>5, <1>6, <1>7

LEMMA MemInitInv == MemInit => MemInv
BY RequestMemoryAssumption DEF MemInit, MemInv, MemTypes, BlocksDisjoint, MarkAbove, NoMark

\* A block is appended at or above the level, and the level rises past it.
LEMMA TakenInv ==
    ASSUME MemInv, NEW start \in Nat, NEW size \in Nat, NEW rest \in BOOLEAN,
           mem_used <= start, start + size <= MemorySize,
           Taken(start, size, rest), mem_used' = start + size, UNCHANGED mark
    PROVE  MemInv'
<1> DEFINE b == [start |-> start, size |-> size, rest |-> rest]
<1>1. b \in Block /\ blocks \in Seq(Block) /\ mem_used \in Nat
  BY DEF Block, MemInv, MemTypes
<1>2. /\ blocks' \in Seq(Block) /\ Len(blocks') = Len(blocks) + 1
      /\ \A i \in 1..Len(blocks) : blocks'[i] = blocks[i]
      /\ blocks'[Len(blocks) + 1] = b
  BY <1>1, AppendProperties DEF Taken
<1>3. /\ DOMAIN blocks = 1..Len(blocks) /\ DOMAIN blocks' = 1..(Len(blocks) + 1)
      /\ Len(blocks) \in Nat
  BY <1>1, <1>2, LenProperties
<1>4. \A i \in 1..Len(blocks) : blocks[i] \in Block
  BY <1>1, ElementOfSeq
<1>5. MemTypes'
  BY <1>1, <1>2 DEF MemInv, MemTypes
<1>6. BlocksDisjoint'
  <2>1. b.start = start /\ b.size = size
    OBVIOUS
  <2> HIDE DEF b
  <2>2. \A i \in 1..Len(blocks) : /\ blocks[i].start \in Nat /\ blocks[i].size \in Nat
                                  /\ blocks[i].start + blocks[i].size <= mem_used
    BY <1>3, <1>4 DEF MemInv, BlocksDisjoint, Block
  <2>3. \A i, j \in 1..Len(blocks) : i < j => blocks[i].start + blocks[i].size <= blocks[j].start
    BY <1>3 DEF MemInv, BlocksDisjoint
  <2>4. ASSUME NEW i \in 1..(Len(blocks) + 1)
        PROVE  blocks'[i].start + blocks'[i].size <= mem_used'
    BY <1>1, <1>2, <1>3, <2>1, <2>2
  <2>5. ASSUME NEW i \in 1..(Len(blocks) + 1), NEW j \in 1..(Len(blocks) + 1), i < j
        PROVE  blocks'[i].start + blocks'[i].size <= blocks'[j].start
    <3>1. i \in 1..Len(blocks) /\ blocks'[i] = blocks[i]
      BY <1>2, <1>3, <2>5
    <3>2. CASE j = Len(blocks) + 1
      BY <1>1, <1>2, <2>1, <2>2, <3>1, <3>2
    <3>3. CASE j # Len(blocks) + 1
      <4>1. j \in 1..Len(blocks) /\ blocks'[j] = blocks[j]
        BY <1>2, <1>3, <3>3
      <4>2. QED
        BY <2>3, <2>5, <3>1, <4>1
    <3>4. QED
      BY <3>2, <3>3
  <2>6. mem_used' <= MemorySize
    OBVIOUS
  <2>7. QED
    BY <1>3, <2>4, <2>5, <2>6 DEF BlocksDisjoint
<1>7. MarkAbove'
  BY <1>2, <1>3 DEF MemInv, MarkAbove, MemTypes
<1>8. QED
  BY <1>5, <1>6, <1>7 DEF MemInv

LEMMA AllocInv ==
    ASSUME MemInv, NEW size \in Nat, request_alloc(size)
    PROVE  MemInv'
<1>1. mem_used \in Nat /\ MemorySize \in Nat
  BY RequestMemoryAssumption DEF MemInv, MemTypes
<1>2. Aligned(mem_used) \in Nat /\ Aligned(mem_used) >= mem_used
  BY <1>1, AlignedUp
<1>3. Aligned(mem_used) + size <= MemorySize
  BY <1>1, <1>2 DEF request_alloc
<1>4. FALSE \in BOOLEAN
  OBVIOUS
<1>5. /\ Taken(Aligned(mem_used), size, FALSE) /\ UNCHANGED mark
      /\ mem_used' = Aligned(mem_used) + size
  BY DEF request_alloc
<1>6. QED
  BY <1>2, <1>3, <1>4, <1>5, TakenInv

LEMMA AllocRestInv ==
    ASSUME MemInv, request_alloc_rest
    PROVE  MemInv'
<1>1. mem_used \in Nat /\ MemorySize \in Nat /\ mem_used <= MemorySize
  BY RequestMemoryAssumption DEF MemInv, MemTypes, BlocksDisjoint
<1>2. /\ Aligned(mem_used) \in Nat /\ Aligned(mem_used) >= mem_used
      /\ Aligned(mem_used) <= MemorySize
  BY <1>1, AlignedUp, AlignedFits
<1> DEFINE size == MemorySize - Aligned(mem_used)
<1>3. size \in Nat /\ Aligned(mem_used) + size = MemorySize
  BY <1>1, <1>2
<1>4. TRUE \in BOOLEAN
  OBVIOUS
<1>5. /\ Taken(Aligned(mem_used), size, TRUE) /\ UNCHANGED mark
      /\ mem_used' = Aligned(mem_used) + size
  BY <1>3 DEF request_alloc_rest
<1> HIDE DEF size
<1>6. Aligned(mem_used) + size <= MemorySize
  BY <1>1, <1>3
<1>7. QED
  BY <1>2, <1>3, <1>4, <1>5, <1>6, TakenInv

\* Only the last block and the level shrink, to the same place.
LEMMA TrimInv ==
    ASSUME MemInv, NEW used \in Nat, request_trim(used)
    PROVE  MemInv'
<1> DEFINE n == Len(blocks)
           b == [blocks[n] EXCEPT !.size = used, !.rest = FALSE]
<1>1. /\ blocks \in Seq(Block) /\ mem_used \in Nat /\ n \in Nat
      /\ DOMAIN blocks = 1..n
  BY LenProperties DEF MemInv, MemTypes
<1>2. n \in 1..n /\ \A i \in 1..n : blocks[i] \in Block
  BY <1>1, EmptySeq, ElementOfSeq DEF request_trim
<1>3. b \in Block /\ b.size = used /\ b.start = blocks[n].start /\ used <= blocks[n].size
  BY <1>2 DEF Block, request_trim, Last
<1>4. blocks' = [blocks EXCEPT ![n] = b]
  BY DEF request_trim, Last
<1>5. /\ blocks' \in Seq(Block) /\ Len(blocks') = n
      /\ \A i \in 1..n : blocks'[i] = IF i = n THEN b ELSE blocks[i]
  BY <1>1, <1>2, <1>3, <1>4, ExceptSeq
<1>6. /\ mem_used' \in Nat /\ mem_used' <= mem_used
      /\ mem_used' = IF blocks[n].start + used < mem_used THEN blocks[n].start + used ELSE mem_used
  BY <1>1, <1>2 DEF request_trim, Last, Block
<1>7. DOMAIN blocks' = 1..n
  BY <1>5, LenProperties
<1> HIDE DEF n, b
<1>8. MemTypes'
  BY <1>5, <1>6 DEF MemInv, MemTypes, request_trim
<1>9. BlocksDisjoint'
  <2>1. ASSUME NEW i \in 1..n, NEW j \in 1..n, i < j
        PROVE  blocks'[i].start + blocks'[i].size <= blocks'[j].start
    BY <1>1, <1>2, <1>3, <1>5, <2>1 DEF MemInv, BlocksDisjoint
  <2>2. ASSUME NEW i \in 1..n
        PROVE  blocks'[i].start + blocks'[i].size <= mem_used'
    <3>1. CASE i = n
      <4>1. blocks[n].start + blocks[n].size <= mem_used
        BY <1>1, <1>2 DEF MemInv, BlocksDisjoint
      <4>2. blocks[n].start \in Nat /\ blocks[n].size \in Nat
        BY <1>2 DEF Block
      <4>3. blocks'[n].start = blocks[n].start /\ blocks'[n].size = used
        BY <1>2, <1>3, <1>5
      <4>4. QED
        BY <1>1, <1>3, <1>6, <3>1, <4>1, <4>2, <4>3
    <3>2. CASE i # n
      <4>1. blocks[i].start + blocks[i].size <= blocks[n].start
        BY <1>1, <1>2, <3>2 DEF MemInv, BlocksDisjoint
      <4>2. blocks[i].start + blocks[i].size <= mem_used
        BY <1>1 DEF MemInv, BlocksDisjoint
      <4>3. QED
        BY <1>1, <1>2, <1>5, <1>6, <3>2, <4>1, <4>2 DEF Block
    <3>3. QED
      BY <3>1, <3>2
  <2>3. mem_used' <= MemorySize
    BY <1>1, <1>6, RequestMemoryAssumption DEF MemInv, BlocksDisjoint
  <2>4. QED
    BY <1>7, <2>1, <2>2, <2>3 DEF BlocksDisjoint
<1>10. MarkAbove'
  <2>1. mark' = mark /\ mark \in [level : Nat, held : Nat] \cup {NoMark}
    BY DEF request_trim, MemInv, MemTypes
  <2>2. ASSUME mark # NoMark, NEW i \in 1..mark.held
        PROVE  blocks'[i].start + blocks'[i].size <= mark.level
    <3>1. mark.held \in Nat /\ mark.level \in Nat
      BY <2>1, <2>2
    <3>2. mark.held <= n /\ blocks[i].start + blocks[i].size <= mark.level
      BY <2>2 DEF MemInv, MarkAbove, n
    <3>3. i \in 1..n
      BY <1>1, <3>1, <3>2
    <3>4. blocks[i].start \in Nat /\ blocks[i].size \in Nat
      BY <1>2, <3>3 DEF Block
    <3>5. blocks'[i].start = blocks[i].start
      BY <1>3, <1>5, <3>3
    <3>6. blocks'[i].size = (IF i = n THEN used ELSE blocks[i].size)
      BY <1>3, <1>5, <3>3
    <3>7. QED
      BY <1>3, <3>1, <3>2, <3>4, <3>5, <3>6
  <2>3. mark # NoMark => mark.held <= n
    BY DEF MemInv, MarkAbove, n
  <2>4. QED
    BY <1>5, <2>1, <2>2, <2>3 DEF MarkAbove
<1>11. QED
  BY <1>8, <1>9, <1>10 DEF MemInv

LEMMA MarkInv ==
    ASSUME MemInv, request_mark
    PROVE  MemInv'
<1>1. Len(blocks) \in Nat /\ DOMAIN blocks = 1..Len(blocks)
  BY LenProperties DEF MemInv, MemTypes
<1>2. QED
  BY <1>1 DEF MemInv, MemTypes, BlocksDisjoint, MarkAbove, request_mark

LEMMA RewindInv ==
    ASSUME MemInv, request_rewind
    PROVE  MemInv'
<1> DEFINE k == mark.held
<1>1. /\ mark \in [level : Nat, held : Nat] /\ mem_used \in Nat /\ blocks \in Seq(Block)
      /\ Len(blocks) \in Nat /\ DOMAIN blocks = 1..Len(blocks)
  BY LenProperties DEF MemInv, MemTypes, request_rewind
<1>2. k \in Nat /\ k <= Len(blocks) /\ \A i \in 1..Len(blocks) : blocks[i] \in Block
  BY <1>1, ElementOfSeq DEF MemInv, MarkAbove, request_rewind
<1>3. /\ blocks' \in Seq(Block) /\ Len(blocks') = k
      /\ \A i \in 1..k : blocks'[i] = blocks[i]
  <2>1. \A i \in 1..k : blocks[i] \in Block
    BY <1>1, <1>2
  <2>2. blocks' = SubSeq(blocks, 1, k)
    BY DEF request_rewind
  <2>3. /\ SubSeq(blocks, 1, k) \in Seq(Block)
        /\ Len(SubSeq(blocks, 1, k)) = IF 1 <= k THEN k - 1 + 1 ELSE 0
        /\ \A i \in 1..(k - 1 + 1) : SubSeq(blocks, 1, k)[i] = blocks[1 + i - 1]
    BY <1>2, <2>1, SubSeqProperties
  <2>4. QED
    BY <1>2, <2>2, <2>3
<1>4. DOMAIN blocks' = 1..k
  BY <1>3, LenProperties
<1>5. /\ mem_used' \in Nat /\ mem_used' <= mem_used
      /\ mem_used' \in {mark.level, mem_used}
  BY <1>1 DEF request_rewind
<1>6. MemTypes'
  BY <1>3, <1>5 DEF MemTypes, request_rewind
<1>7. BlocksDisjoint'
  <2>1. \A i \in 1..k : /\ blocks[i].start + blocks[i].size <= mark.level
                        /\ blocks[i].start + blocks[i].size <= mem_used
    BY <1>1, <1>2 DEF MemInv, MarkAbove, BlocksDisjoint, request_rewind
  <2>2. mem_used' <= MemorySize
    BY <1>1, <1>5, RequestMemoryAssumption DEF MemInv, BlocksDisjoint
  <2>3. \A i, j \in 1..k : i < j => blocks[i].start + blocks[i].size <= blocks[j].start
    BY <1>1, <1>2 DEF MemInv, BlocksDisjoint
  <2>4. QED
    BY <1>3, <1>4, <1>5, <2>1, <2>2, <2>3 DEF BlocksDisjoint
<1>8. MarkAbove'
  BY DEF MarkAbove, request_rewind
<1>9. QED
  BY <1>6, <1>7, <1>8 DEF MemInv

LEMMA ReleaseInv == request_release => MemInv'
BY RequestMemoryAssumption DEF request_release, MemInv, MemTypes, BlocksDisjoint, MarkAbove, NoMark

LEMMA MemUnchanged == MemInv /\ UNCHANGED memVars => MemInv'
BY DEF MemInv, MemTypes, BlocksDisjoint, MarkAbove, memVars

LEMMA MemNext == MemInv /\ [Next]_vars => MemInv'
<1> SUFFICES ASSUME MemInv, [Next]_vars PROVE MemInv'
  OBVIOUS
<1>1. CASE UNCHANGED memVars
  BY <1>1, MemUnchanged
<1>2. CASE UNCHANGED vars
  BY <1>2, MemUnchanged DEF vars, memVars
<1>3. CASE UseMemory
  <2>1. CASE \E size \in BlockSizes : request_alloc(size)
    BY <2>1, AllocInv, HttpAssumption
  <2>2. CASE \E used \in BlockSizes : request_trim(used)
    BY <2>2, TrimInv, HttpAssumption
  <2>3. QED
    BY <1>3, <2>1, <2>2, AllocRestInv, MarkInv, RewindInv DEF UseMemory
<1>4. CASE Respond
  BY <1>4, ReleaseInv DEF Respond
<1>5. QED
  BY <1>1, <1>2, <1>3, <1>4
     DEF Next, Server, SendHeader, SendBody, HangUp, http_read_request, HeaderTimeout,
         http_server_dispatch, ReadLeftover, SendContinue, ReadSocket, ReadTimeout, BodyDone,
         drain_body, KeepConnection, NextConnection

(* request.c: whatever handlers allocate, trim, mark and rewind, in any    *)
(* order request.h allows, the buffers they hold do not overlap and stay   *)
(* inside the region.                                                      *)
THEOREM HandlersMemoryDisjoint == Spec => []BlocksDisjoint
<1>1. Init => MemInv
  BY MemInitInv DEF Init
<1>2. MemInv => BlocksDisjoint
  BY DEF MemInv
<1>3. QED
  BY <1>1, <1>2, MemNext, PTL DEF Spec

-----------------------------------------------------------------------------
LEMMA LeastNat ==
    ASSUME NEW T, T \subseteq Nat, T # {}
    PROVE  \E x \in T : \A y \in T : x <= y
<1>1. PICK x \in T : \A y \in T : ~(<<y, x>> \in OpToRel(<, Nat))
  BY NatLessThanWellFounded, WFMin
<1>2. ASSUME NEW y \in T PROVE x <= y
  <2>1. <<y, x>> \in Nat \X Nat
    OBVIOUS
  <2>2. ~(y < x)
    BY <1>1, <2>1 DEF OpToRel
  <2>3. QED
    BY <2>2
<1>3. QED
  BY <1>2

-----------------------------------------------------------------------------
(* The bytes on their way, as one sequence. *)

Longer(S, T, k) ==
    /\ S \in Seq(Cell) /\ T \in Seq(Cell) /\ Len(T) = Len(S) + k
    /\ \A i \in 1..Len(S) : T[i] = S[i]
Shorter(S, T, m) ==
    /\ S \in Seq(Cell) /\ T \in Seq(Cell) /\ m \in 0..Len(S) /\ Len(T) = Len(S) - m
    /\ \A i \in 1..Len(T) : T[i] = S[i + m]

\* Taking bytes off the front keeps every body where its header says.
LEMMA BodyAtShorter ==
    ASSUME NEW c, NEW S, NEW T, NEW m, Shorter(S, T, m),
           NEW i \in Nat, NEW id, NEW n \in Nat, BodyAt(c, S, i + m, id, n)
    PROVE  BodyAt(c, T, i, id, n)
<1>1. Len(S) \in Nat /\ Len(T) \in Nat /\ m \in Nat
  BY LenProperties DEF Shorter
<1>2. ASSUME NEW j \in 1..n, i + j <= Len(T) PROVE T[i + j] = BodyByte(id)
  <2>1. i + j \in 1..Len(T) /\ (i + j) + m = (i + m) + j /\ (i + m) + j <= Len(S)
    BY <1>1, <1>2 DEF Shorter
  <2>2. T[i + j] = S[(i + m) + j]
    BY <2>1 DEF Shorter
  <2>3. QED
    BY <2>1, <2>2 DEF BodyAt
<1>3. i + n > Len(T) => c.sent = id /\ c.pending = i + n - Len(T)
  BY <1>1 DEF BodyAt, Shorter
<1>4. QED
  BY <1>2, <1>3 DEF BodyAt

LEMMA FramedShorter ==
    ASSUME NEW c, NEW S, NEW T, NEW m, Shorter(S, T, m), Framed(c, S)
    PROVE  Framed(c, T)
<1>1. Len(S) \in Nat /\ Len(T) \in Nat /\ m \in Nat
  BY LenProperties DEF Shorter
<1>2. ASSUME NEW i \in 1..Len(T), T[i].part = "end"
      PROVE  T[i].head \in Header /\ BodyAt(c, T, i, T[i].head.id, T[i].head.length)
  <2>1. i + m \in 1..Len(S) /\ T[i] = S[i + m]
    BY <1>1 DEF Shorter
  <2>2. T[i].head \in Header /\ BodyAt(c, S, i + m, T[i].head.id, T[i].head.length)
    BY <1>2, <2>1 DEF Framed
  <2>3. i \in Nat /\ T[i].head.length \in Nat
    BY <2>2 DEF Header
  <2>4. QED
    BY <2>2, <2>3, BodyAtShorter
<1>3. QED
  BY <1>2 DEF Framed

\* What is taken of a body belongs to it, and the rest follows.
LEMMA BodyTaken ==
    ASSUME NEW c, NEW S, NEW T, NEW m, Shorter(S, T, m),
           NEW id, NEW n \in Nat, m <= n, BodyAt(c, S, 0, id, n)
    PROVE  /\ \A j \in 1..m : S[j] = BodyByte(id)
           /\ BodyAt(c, T, 0, id, n - m)
<1>1. Len(S) \in Nat /\ Len(T) \in Nat /\ m \in Nat /\ m <= Len(S)
  BY LenProperties DEF Shorter
<1>2. \A j \in 1..n : j <= Len(S) => S[j] = BodyByte(id)
  BY <1>1 DEF BodyAt
<1>3. ASSUME NEW j \in 1..(n - m), 0 + j <= Len(T) PROVE T[0 + j] = BodyByte(id)
  <2>1. j \in 1..Len(T) /\ j + m \in 1..n /\ j + m <= Len(S) /\ 0 + j = j
    BY <1>1, <1>3 DEF Shorter
  <2>2. QED
    BY <1>2, <2>1 DEF Shorter
<1>4. 0 + (n - m) > Len(T) => c.sent = id /\ c.pending = 0 + (n - m) - Len(T)
  BY <1>1 DEF BodyAt, Shorter
<1>5. \A j \in 1..m : S[j] = BodyByte(id)
  BY <1>1, <1>2
<1>6. BodyAt(c, T, 0, id, n - m)
  BY <1>3, <1>4 DEF BodyAt
<1>7. QED
  BY <1>5, <1>6

\* One more byte of the body being sent.
LEMMA BodyAtSent ==
    ASSUME NEW c, NEW d, NEW S, NEW T, Longer(S, T, 1), T[Len(S) + 1] = BodyByte(c.sent),
           c.pending \in Nat \ {0}, d.sent = c.sent, d.pending = c.pending - 1,
           NEW i \in Nat, NEW id, NEW n \in Nat, i <= Len(S), BodyAt(c, S, i, id, n)
    PROVE  BodyAt(d, T, i, id, n)
<1>1. Len(S) \in Nat /\ Len(T) = Len(S) + 1
  BY LenProperties DEF Longer
<1>2. ASSUME NEW j \in 1..n, i + j <= Len(T) PROVE T[i + j] = BodyByte(id)
  <2>1. CASE i + j <= Len(S)
    <3>1. S[i + j] = BodyByte(id) /\ i + j \in 1..Len(S)
      BY <1>1, <2>1 DEF BodyAt
    <3>2. QED
      BY <3>1 DEF Longer
  <2>2. CASE i + j = Len(S) + 1
    <3>1. i + n > Len(S)
      BY <1>1, <2>2
    <3>2. QED
      BY <2>2, <3>1 DEF BodyAt
  <2>3. QED
    BY <1>1, <1>2, <2>1, <2>2
<1>3. i + n > Len(T) => d.sent = id /\ d.pending = i + n - Len(T)
  BY <1>1 DEF BodyAt
<1>4. QED
  BY <1>2, <1>3 DEF BodyAt

LEMMA FramedSent ==
    ASSUME NEW c, NEW d, NEW S, NEW T, Longer(S, T, 1), T[Len(S) + 1] = BodyByte(c.sent),
           c.pending \in Nat \ {0}, d.sent = c.sent, d.pending = c.pending - 1,
           Framed(c, S)
    PROVE  Framed(d, T)
<1>1. Len(S) \in Nat /\ Len(T) = Len(S) + 1
  BY LenProperties DEF Longer
<1>2. ASSUME NEW i \in 1..Len(T), T[i].part = "end"
      PROVE  T[i].head \in Header /\ BodyAt(d, T, i, T[i].head.id, T[i].head.length)
  <2>1. i # Len(S) + 1
    BY <1>2 DEF BodyByte, Byte
  <2>2. i \in 1..Len(S) /\ T[i] = S[i]
    BY <1>1, <2>1 DEF Longer
  <2>3. T[i].head \in Header /\ BodyAt(c, S, i, T[i].head.id, T[i].head.length)
    BY <1>2, <2>2 DEF Framed
  <2>4. i \in Nat /\ i <= Len(S) /\ T[i].head.length \in Nat
    BY <1>1, <2>2, <2>3 DEF Header
  <2>5. QED
    BY <2>3, <2>4, BodyAtSent
<1>3. QED
  BY <1>2 DEF Framed

\* A header is sent only once the body before it is.
LEMMA BodyAtWhole ==
    ASSUME NEW c, NEW d, NEW S, NEW T, NEW k \in Nat, Longer(S, T, k), c.pending = 0,
           NEW i \in Nat, NEW id, NEW n \in Nat, i <= Len(S), BodyAt(c, S, i, id, n)
    PROVE  BodyAt(d, T, i, id, n)
<1>1. Len(S) \in Nat /\ Len(T) = Len(S) + k
  BY LenProperties DEF Longer
<1>2. i + n <= Len(S)
  BY <1>1 DEF BodyAt
<1>3. ASSUME NEW j \in 1..n PROVE T[i + j] = BodyByte(id)
  <2>1. i + j \in 1..Len(S)
    BY <1>1, <1>2
  <2>2. S[i + j] = BodyByte(id)
    BY <1>1, <2>1 DEF BodyAt
  <2>3. QED
    BY <2>1, <2>2 DEF Longer
<1>4. ~(i + n > Len(T))
  BY <1>1, <1>2
<1>5. QED
  BY <1>3, <1>4 DEF BodyAt

LEMMA FramedHeader ==
    ASSUME NEW c, NEW d, NEW S, NEW T, Longer(S, T, 2), c.pending = 0, NEW h \in Header,
           T[Len(S) + 1] = Head1(h), T[Len(S) + 2] = Head2(h),
           d.sent = h.id, d.pending = h.length, Framed(c, S)
    PROVE  Framed(d, T)
<1>1. Len(S) \in Nat /\ Len(T) = Len(S) + 2 /\ 2 \in Nat /\ h.length \in Nat
  BY LenProperties DEF Longer, Header
<1>2. ASSUME NEW i \in 1..Len(T), T[i].part = "end"
      PROVE  T[i].head \in Header /\ BodyAt(d, T, i, T[i].head.id, T[i].head.length)
  <2>1. i # Len(S) + 1
    BY <1>2 DEF Head1, Byte
  <2>2. CASE i \in 1..Len(S)
    <3>1. T[i] = S[i]
      BY <2>2 DEF Longer
    <3>2. T[i].head \in Header /\ BodyAt(c, S, i, T[i].head.id, T[i].head.length)
      BY <1>2, <2>2, <3>1 DEF Framed
    <3>3. i \in Nat /\ i <= Len(S) /\ T[i].head.length \in Nat
      BY <1>1, <2>2, <3>2 DEF Header
    <3>4. QED
      BY <1>1, <3>2, <3>3, BodyAtWhole
  <2>3. CASE i = Len(S) + 2
    <3>1. T[i].head = h
      BY <2>3 DEF Head2, Byte
    <3>2. BodyAt(d, T, i, h.id, h.length)
      BY <1>1, <2>3 DEF BodyAt
    <3>3. QED
      BY <3>1, <3>2
  <2>4. QED
    BY <1>1, <2>1, <2>2, <2>3
<1>3. QED
  BY <1>2 DEF Framed

LEMMA LongerAhead ==
    ASSUME NEW A \in Seq(Cell), NEW W, NEW X, NEW k \in Nat, Longer(W, X, k)
    PROVE  /\ Longer(A \o W, A \o X, k)
           /\ \A j \in 1..k : (A \o X)[Len(A \o W) + j] = X[Len(W) + j]
<1>1. W \in Seq(Cell) /\ X \in Seq(Cell) /\ Len(X) = Len(W) + k
  BY DEF Longer
<1>2. Len(A) \in Nat /\ Len(W) \in Nat
  BY <1>1, LenProperties
<1>3. /\ A \o W \in Seq(Cell) /\ Len(A \o W) = Len(A) + Len(W)
      /\ \A i \in 1..(Len(A) + Len(W)) :
            (A \o W)[i] = IF i <= Len(A) THEN A[i] ELSE W[i - Len(A)]
  BY <1>1, ConcatProperties
<1>4. /\ A \o X \in Seq(Cell) /\ Len(A \o X) = Len(A) + Len(X)
      /\ \A i \in 1..(Len(A) + Len(X)) :
            (A \o X)[i] = IF i <= Len(A) THEN A[i] ELSE X[i - Len(A)]
  BY <1>1, ConcatProperties
<1>5. ASSUME NEW i \in 1..Len(A \o W) PROVE (A \o X)[i] = (A \o W)[i]
  <2>1. i \in 1..(Len(A) + Len(X)) /\ i \in 1..(Len(A) + Len(W))
    BY <1>1, <1>2, <1>3
  <2>2. i > Len(A) => i - Len(A) \in 1..Len(W)
    BY <1>2, <2>1
  <2>3. i > Len(A) => X[i - Len(A)] = W[i - Len(A)]
    BY <2>2 DEF Longer
  <2>4. QED
    BY <1>2, <1>3, <1>4, <2>1, <2>3
<1>6. ASSUME NEW j \in 1..k PROVE (A \o X)[Len(A \o W) + j] = X[Len(W) + j]
  <2>1. Len(A \o W) + j \in 1..(Len(A) + Len(X)) /\ ~(Len(A \o W) + j <= Len(A))
    BY <1>1, <1>2, <1>3
  <2>2. (Len(A \o W) + j) - Len(A) = Len(W) + j
    BY <1>2, <1>3
  <2>3. QED
    BY <1>4, <2>1, <2>2
<1>7. QED
  BY <1>1, <1>2, <1>3, <1>4, <1>5, <1>6 DEF Longer

LEMMA SubSeqRest ==
    ASSUME NEW L \in Seq(Cell), NEW n \in 0..Len(L)
    PROVE  /\ SubSeq(L, n + 1, Len(L)) \in Seq(Cell)
           /\ Len(SubSeq(L, n + 1, Len(L))) = Len(L) - n
           /\ \A i \in 1..(Len(L) - n) : SubSeq(L, n + 1, Len(L))[i] = L[i + n]
<1>1. Len(L) \in Nat /\ n \in Nat /\ n <= Len(L) /\ n + 1 \in Int /\ Len(L) \in Int
  BY LenProperties
<1>2. \A i \in (n + 1)..Len(L) : L[i] \in Cell
  BY <1>1, ElementOfSeq
<1>3. /\ SubSeq(L, n + 1, Len(L)) \in Seq(Cell)
      /\ Len(SubSeq(L, n + 1, Len(L))) = IF n + 1 <= Len(L) THEN Len(L) - (n + 1) + 1 ELSE 0
      /\ \A i \in 1..(Len(L) - (n + 1) + 1) :
            SubSeq(L, n + 1, Len(L))[i] = L[(n + 1) + i - 1]
  BY <1>1, <1>2, SubSeqProperties
<1>4. Len(L) - (n + 1) + 1 = Len(L) - n /\ \A i \in Int : (n + 1) + i - 1 = i + n
  BY <1>1
<1>5. Len(SubSeq(L, n + 1, Len(L))) = Len(L) - n
  BY <1>1, <1>3
<1>6. ASSUME NEW i \in 1..(Len(L) - n) PROVE SubSeq(L, n + 1, Len(L))[i] = L[i + n]
  BY <1>1, <1>3, <1>4
<1>7. QED
  BY <1>3, <1>5, <1>6

LEMMA SubSeqFront ==
    ASSUME NEW L \in Seq(Cell), NEW n \in 0..Len(L)
    PROVE  /\ SubSeq(L, 1, n) \in Seq(Cell)
           /\ Len(SubSeq(L, 1, n)) = n
           /\ \A i \in 1..n : SubSeq(L, 1, n)[i] = L[i]
<1>1. Len(L) \in Nat /\ n \in Nat /\ n <= Len(L) /\ 1 \in Int /\ n \in Int
  BY LenProperties
<1>2. \A i \in 1..n : L[i] \in Cell
  BY <1>1, ElementOfSeq
<1>3. /\ SubSeq(L, 1, n) \in Seq(Cell)
      /\ Len(SubSeq(L, 1, n)) = IF 1 <= n THEN n - 1 + 1 ELSE 0
      /\ \A i \in 1..(n - 1 + 1) : SubSeq(L, 1, n)[i] = L[1 + i - 1]
  BY <1>1, <1>2, SubSeqProperties
<1>4. QED
  BY <1>1, <1>3

LEMMA TakeFront ==
    ASSUME NEW L \in Seq(Cell), NEW W \in Seq(Cell), NEW n \in 0..Len(L),
           NEW M \in Seq(Cell), Len(M) = Len(L) - n,
           \A i \in 1..Len(M) : M[i] = L[i + n]
    PROVE  Shorter(L \o W, M \o W, n)
<1>1. Len(L) \in Nat /\ Len(W) \in Nat /\ n \in Nat /\ n <= Len(L) /\ Len(M) \in Nat
  BY LenProperties
<1>2. /\ L \o W \in Seq(Cell) /\ Len(L \o W) = Len(L) + Len(W)
      /\ \A i \in 1..(Len(L) + Len(W)) :
            (L \o W)[i] = IF i <= Len(L) THEN L[i] ELSE W[i - Len(L)]
  BY ConcatProperties
<1>3. /\ M \o W \in Seq(Cell) /\ Len(M \o W) = Len(M) + Len(W)
      /\ \A i \in 1..(Len(M) + Len(W)) :
            (M \o W)[i] = IF i <= Len(M) THEN M[i] ELSE W[i - Len(M)]
  BY ConcatProperties
<1>4. ASSUME NEW i \in 1..Len(M \o W) PROVE (M \o W)[i] = (L \o W)[i + n]
  <2>1. i \in 1..(Len(M) + Len(W)) /\ i + n \in 1..(Len(L) + Len(W))
    BY <1>1, <1>3
  <2>2. (i <= Len(M) <=> i + n <= Len(L)) /\ (i + n) - Len(L) = i - Len(M)
    BY <1>1
  <2>3. QED
    BY <1>2, <1>3, <2>1, <2>2
<1>5. QED
  BY <1>1, <1>2, <1>3, <1>4 DEF Shorter

LEMMA DropAhead ==
    ASSUME NEW L \in Seq(Cell), NEW W \in Seq(Cell)
    PROVE  Shorter(L \o W, <<>> \o W, Len(L))
<1>1. Len(L) \in 0..Len(L) /\ <<>> \in Seq(Cell) /\ Len(<<>>) = Len(L) - Len(L)
  BY LenProperties, EmptySeq
<1>2. \A i \in 1..Len(<<>>) : <<>>[i] = L[i + Len(L)]
  BY <1>1
<1>3. QED
  BY <1>1, <1>2, TakeFront

\* Receiving moves bytes from the wire to the buffer: none is lost.
LEMMA Moved ==
    ASSUME NEW B \in Seq(Cell), NEW W \in Seq(Cell), NEW n \in 1..Len(W)
    PROVE  /\ B \o SubSeq(W, 1, n) \in Seq(Cell)
           /\ SubSeq(W, n + 1, Len(W)) \in Seq(Cell)
           /\ (B \o SubSeq(W, 1, n)) \o SubSeq(W, n + 1, Len(W)) = B \o W
<1> DEFINE F == SubSeq(W, 1, n)
           R == SubSeq(W, n + 1, Len(W))
<1>1. Len(W) \in Nat /\ n \in 0..Len(W)
  BY LenProperties
<1>2. F \in Seq(Cell) /\ R \in Seq(Cell)
  BY <1>1, SubSeqFront, SubSeqRest
<1>3. Len(F) = n /\ \A i \in 1..n : F[i] = W[i]
  BY <1>1, SubSeqFront
<1>4. Len(R) = Len(W) - n /\ \A i \in 1..(Len(W) - n) : R[i] = W[i + n]
  BY <1>1, SubSeqRest
<1> HIDE DEF F, R
<1>5. /\ B \o F \in Seq(Cell) /\ Len(B \o F) = Len(B) + Len(F)
      /\ \A i \in 1..(Len(B) + Len(F)) :
            (B \o F)[i] = IF i <= Len(B) THEN B[i] ELSE F[i - Len(B)]
  BY <1>2, ConcatProperties
<1>6. Len(B) \in Nat
  BY LenProperties
<1> DEFINE P == B \o F
<1> HIDE DEF P
<1>7. /\ P \in Seq(Cell) /\ Len(P) = Len(B) + n
      /\ \A i \in 1..(Len(B) + n) : P[i] = IF i <= Len(B) THEN B[i] ELSE F[i - Len(B)]
  BY <1>3, <1>5 DEF P
<1>8. /\ P \o R \in Seq(Cell) /\ Len(P \o R) = Len(P) + Len(R)
      /\ \A i \in 1..(Len(P) + Len(R)) :
            (P \o R)[i] = IF i <= Len(P) THEN P[i] ELSE R[i - Len(P)]
  BY <1>2, <1>7, ConcatProperties
<1>9. /\ B \o W \in Seq(Cell) /\ Len(B \o W) = Len(B) + Len(W)
      /\ \A i \in 1..(Len(B) + Len(W)) :
            (B \o W)[i] = IF i <= Len(B) THEN B[i] ELSE W[i - Len(B)]
  BY ConcatProperties
<1>10. Len(P \o R) = Len(B \o W)
  BY <1>1, <1>4, <1>6, <1>7, <1>8, <1>9
<1>11. ASSUME NEW i \in 1..Len(P \o R) PROVE (P \o R)[i] = (B \o W)[i]
  <2>1. i \in 1..(Len(B) + Len(W)) /\ i \in 1..(Len(P) + Len(R)) /\ i \in Nat
    BY <1>8, <1>9, <1>10
  <2>2. CASE i <= Len(B)
    BY <1>1, <1>6, <1>7, <1>8, <1>9, <2>1, <2>2
  <2>3. CASE i > Len(B) /\ i <= Len(B) + n
    <3>1. i - Len(B) \in 1..n /\ i \in 1..(Len(B) + n)
      BY <1>1, <1>6, <2>1, <2>3
    <3>2. (P \o R)[i] = F[i - Len(B)]
      BY <1>1, <1>6, <1>7, <1>8, <2>1, <2>3, <3>1
    <3>3. QED
      BY <1>3, <1>6, <1>9, <2>1, <2>3, <3>1, <3>2
  <2>4. CASE i > Len(B) + n
    <3>1. (i - Len(B)) - n \in 1..(Len(W) - n) /\ i - Len(P) = (i - Len(B)) - n
      BY <1>1, <1>6, <1>7, <2>1, <2>4
    <3>2. ((i - Len(B)) - n) + n = i - Len(B)
      BY <1>1, <1>6, <2>1
    <3>3. (P \o R)[i] = R[i - Len(P)] /\ (B \o W)[i] = W[i - Len(B)]
      BY <1>1, <1>6, <1>7, <1>8, <1>9, <2>1, <2>4
    <3>4. QED
      BY <1>4, <3>1, <3>2, <3>3
  <2>5. QED
    BY <1>1, <1>6, <2>1, <2>2, <2>3, <2>4
<1>12. P \o R = B \o W
  BY <1>8, <1>9, <1>10, <1>11, SeqEqual
<1>13. QED
  BY <1>2, <1>7, <1>12 DEF F, R, P

-----------------------------------------------------------------------------
(* The connection: types, and where the bodies are. *)

Conn == TypeOK /\ Handling /\ Framed(client, Incoming) /\ BodyNext

LEMMA Views ==
    ASSUME TypeOK
    PROVE  /\ Ahead \in Seq(Cell) /\ wire \in Seq(Cell) /\ Incoming \in Seq(Cell)
           /\ Len(Ahead) \in Nat /\ Len(wire) \in Nat
           /\ Len(Incoming) = Len(Ahead) + Len(wire)
           /\ (Serving => req \in Request) /\ (~Serving => req \in [buf : Seq(Cell)])
<1>1. (Serving => req \in Request) /\ (~Serving => req \in [buf : Seq(Cell)])
  BY DEF TypeOK
<1>2. Ahead \in Seq(Cell) /\ wire \in Seq(Cell)
  BY <1>1 DEF Ahead, Request, TypeOK
<1>3. QED
  BY <1>1, <1>2, LenProperties, ConcatProperties DEF Incoming

LEMMA InitConn == Init => Conn
<1> SUFFICES ASSUME Init PROVE Conn
  OBVIOUS
<1>1. TypeOK
  <2>1. <<>> \in Seq(Cell) /\ <<>> \in Seq([id : Nat, clean : BOOLEAN])
    BY EmptySeq
  <2>2. ~Serving /\ req \in [buf : Seq(Cell)]
    BY <2>1 DEF Init, Serving, NoRequest
  <2>3. QED
    BY <2>1, <2>2 DEF Init, TypeOK, Fresh
<1>2. Incoming = <<>> \o <<>>
  BY DEF Init, Incoming, Ahead, Serving, NoRequest
<1>3. Len(Incoming) = 0
  BY <1>2
<1>4. Framed(client, Incoming)
  BY <1>3 DEF Framed
<1>5. Handling /\ BodyNext
  BY DEF Init, Handling, BodyNext, Serving
<1>6. QED
  BY <1>1, <1>4, <1>5 DEF Conn

\* Where bodies are depends on nothing of the client but what it has sent.
LEMMA BodyAtSame ==
    ASSUME NEW c, NEW d, d.sent = c.sent, d.pending = c.pending,
           NEW S, NEW i, NEW id, NEW n
    PROVE  BodyAt(c, S, i, id, n) <=> BodyAt(d, S, i, id, n)
BY DEF BodyAt

LEMMA FramedSame ==
    ASSUME NEW c, NEW d, d.sent = c.sent, d.pending = c.pending, NEW S, Framed(c, S)
    PROVE  Framed(d, S)
BY BodyAtSame DEF Framed

Client == [open : BOOLEAN, sent : Nat, pending : Nat, answers : Nat, piped : BOOLEAN]

\* The connection is given up, or kept for another request.
LEMMA ToHeader ==
    ASSUME Conn, pc' \in {"header", "closed"}, req' = NoRequest, client' \in Client,
           client'.sent = client.sent, client'.pending = client.pending,
           UNCHANGED <<wire, read>>, served' \in Nat
    PROVE  Conn'
<1>1. ~Serving' /\ req' \in [buf : Seq(Cell)] /\ Ahead' = <<>>
  <2>1. <<>> \in Seq(Cell)
    BY EmptySeq
  <2>2. QED
    BY <2>1 DEF Serving, NoRequest, Ahead
<1>2. TypeOK'
  BY <1>1 DEF Conn, TypeOK, Client
<1>3. Incoming' = <<>> \o wire
  BY <1>1 DEF Incoming
<1>4. Ahead \in Seq(Cell) /\ wire \in Seq(Cell)
  BY Views DEF Conn
<1>5. Framed(client, <<>> \o wire)
  BY <1>4, DropAhead, FramedShorter DEF Conn, Incoming
<1>6. Framed(client, Incoming)'
  BY <1>3, <1>5, FramedSame
<1>7. Handling' /\ BodyNext'
  BY <1>1 DEF Handling, BodyNext, Serving
<1>8. QED
  BY <1>2, <1>6, <1>7 DEF Conn

\* The request stays, with what is known of its body.
LEMMA StayConn ==
    ASSUME Conn, Serving, Serving', req' \in Request, client' \in Client,
           client'.sent = client.sent, client'.pending = client.pending,
           req'.id = req.id, req'.has_length = req.has_length, req'.length = req.length,
           req'.leftover = req.leftover, req'.consumed = req.consumed, req'.own = req.own,
           UNCHANGED <<wire, served, read>>, Handling'
    PROVE  Conn'
<1>1. Incoming' = Incoming /\ Remaining' = Remaining
  BY DEF Incoming, Ahead, Remaining
<1>2. TypeOK'
  BY DEF Conn, TypeOK, Client, Serving
<1>3. Framed(client', Incoming')
  BY <1>1, FramedSame DEF Conn
<1>4. BodyNext'
  BY <1>1, BodyAtSame DEF Conn, BodyNext
<1>5. QED
  BY <1>2, <1>3, <1>4 DEF Conn

LEMMA SendHeaderStep ==
    ASSUME Conn, NEW length \in -1..MaxBody, NEW expect \in BOOLEAN, SendHeader(length, expect)
    PROVE  \E h \in Header :
           /\ Longer(Incoming, Incoming', 2) /\ Ahead' = Ahead
           /\ Incoming'[Len(Incoming) + 1] = Head1(h)
           /\ Incoming'[Len(Incoming) + 2] = Head2(h)
           /\ h.id = client.sent + 1 /\ client.pending = 0
           /\ client'.sent = h.id /\ client'.pending = h.length
           /\ client'.answers = client.answers
           /\ client'.piped = (client.piped \/ client.answers < client.sent)
           /\ client' \in Client /\ wire' \in Seq(Cell)
           /\ UNCHANGED <<pc, req, served, read>>
<1> DEFINE h == [id |-> client.sent + 1, has_length |-> length >= 0, expect |-> expect,
                 length |-> IF length >= 0 THEN length ELSE 0]
           X == wire \o <<Head1(h), Head2(h)>>
<1>1. /\ client.sent \in Nat /\ client.pending = 0 /\ wire \in Seq(Cell)
      /\ client \in [open : BOOLEAN, sent : Nat, pending : Nat, answers : Nat, piped : BOOLEAN]
  BY DEF Conn, TypeOK, SendHeader
<1>2. h \in Header /\ h.id = client.sent + 1 /\ h.length \in Nat
  <2> DEFINE has == length >= 0
             len == IF length >= 0 THEN length ELSE 0
  <2>1. has \in BOOLEAN
    OBVIOUS
  <2>2. len \in Nat /\ (has \/ len = 0) /\ client.sent + 1 \in Nat
    BY <1>1, HttpAssumption
  <2>3. h = [id |-> client.sent + 1, has_length |-> has, expect |-> expect, length |-> len]
    OBVIOUS
  <2> HIDE DEF has, len
  <2>4. QED
    BY <2>1, <2>2, <2>3 DEF Header
<1>3. /\ wire' = X
      /\ client' = [client EXCEPT !.sent = h.id, !.pending = h.length,
                                  !.piped = @ \/ client.answers < client.sent]
      /\ UNCHANGED <<pc, req, served, read>>
  BY DEF SendHeader
<1> HIDE DEF h
<1>4. Head1(h) \in Cell /\ Head2(h) \in Cell
  BY <1>2 DEF Head1, Head2, Byte, Cell, Header
<1>5. Longer(wire, X, 2) /\ X[Len(wire) + 1] = Head1(h) /\ X[Len(wire) + 2] = Head2(h)
  <2>1. <<Head1(h), Head2(h)>> \in Seq(Cell) /\ Len(<<Head1(h), Head2(h)>>) = 2
    BY <1>4
  <2>2. Len(wire) \in Nat
    BY <1>1, LenProperties
  <2>3. /\ X \in Seq(Cell) /\ Len(X) = Len(wire) + 2
        /\ \A i \in 1..(Len(wire) + 2) :
              X[i] = IF i <= Len(wire) THEN wire[i] ELSE <<Head1(h), Head2(h)>>[i - Len(wire)]
    BY <1>1, <2>1, ConcatProperties
  <2> HIDE DEF X
  <2>4. \A i \in 1..Len(wire) : X[i] = wire[i]
    BY <2>2, <2>3
  <2>5. X[Len(wire) + 1] = <<Head1(h), Head2(h)>>[1] /\ X[Len(wire) + 2] = <<Head1(h), Head2(h)>>[2]
    BY <2>2, <2>3
  <2>6. QED
    BY <1>1, <2>3, <2>4, <2>5 DEF Longer
<1> HIDE DEF X
<1>6. /\ Longer(Incoming, Incoming', 2) /\ Ahead \in Seq(Cell) /\ Ahead' = Ahead
      /\ Incoming'[Len(Incoming) + 1] = Head1(h) /\ Incoming'[Len(Incoming) + 2] = Head2(h)
  <2>1. Ahead \in Seq(Cell) /\ Ahead' = Ahead /\ 2 \in Nat /\ 1 \in 1..2 /\ 2 \in 1..2
    BY <1>3, Views DEF Conn, Ahead, Serving
  <2>2. ASSUME NEW k \in Nat, k = 2
        PROVE  /\ Longer(Ahead \o wire, Ahead \o X, k)
               /\ \A j \in 1..k : (Ahead \o X)[Len(Ahead \o wire) + j] = X[Len(wire) + j]
    <3>1. Longer(wire, X, k)
      BY <1>5, <2>2
    <3>2. QED
      BY <2>1, <3>1, LongerAhead
  <2>3. Incoming = Ahead \o wire /\ Incoming' = Ahead \o X
    BY <1>3, <2>1 DEF Incoming
  <2>4. QED
    BY <1>5, <2>1, <2>2, <2>3
<1>7. client'.sent = h.id /\ client'.pending = h.length /\ client'.answers = client.answers
  BY <1>1, <1>3
<1>8. client'.piped = (client.piped \/ client.answers < client.sent)
  BY <1>1, <1>3
<1>9. wire' \in Seq(Cell)
  BY <1>3, <1>5 DEF Longer
<1>10. client' \in Client
  <2> DEFINE p == client.piped \/ client.answers < client.sent
  <2>1. p \in BOOLEAN
    BY Zenon
  <2>2. client' = [client EXCEPT !.sent = h.id, !.pending = h.length, !.piped = p]
    BY <1>3
  <2> HIDE DEF p
  <2>3. h.id \in Nat
    BY <1>1, <1>2
  <2>4. QED
    BY <1>1, <1>2, <2>1, <2>2, <2>3 DEF Client
<1>11. QED
  BY <1>1, <1>2, <1>3, <1>6, <1>7, <1>8, <1>9, <1>10

LEMMA SendHeaderConn ==
    ASSUME Conn, NEW length \in -1..MaxBody, NEW expect \in BOOLEAN, SendHeader(length, expect)
    PROVE  Conn'
<1>1. PICK h \in Header :
           /\ Longer(Incoming, Incoming', 2)
           /\ Incoming'[Len(Incoming) + 1] = Head1(h)
           /\ Incoming'[Len(Incoming) + 2] = Head2(h)
           /\ client.pending = 0
           /\ client'.sent = h.id /\ client'.pending = h.length
           /\ client' \in Client /\ wire' \in Seq(Cell)
           /\ UNCHANGED <<pc, req, served, read>>
  BY SendHeaderStep
<1>2. Framed(client', Incoming')
  BY <1>1, FramedHeader DEF Conn
<1>3. TypeOK'
  BY <1>1 DEF Conn, TypeOK, Serving, Client
<1>4. BodyNext'
  <2>1. SUFFICES ASSUME Serving, req.has_length PROVE BodyNext'
    BY <1>1 DEF BodyNext, Serving
  <2>2. req \in Request /\ req.own /\ req.consumed <= req.length
    BY <2>1, Views DEF Conn, BodyNext
  <2>3. Remaining \in Nat /\ Remaining' = Remaining
    BY <1>1, <2>2 DEF Remaining, Request
  <2>4. BodyAt(client, Incoming, 0, req.id, Remaining)
    BY <2>1 DEF Conn, BodyNext
  <2>5. 0 <= Len(Incoming) /\ 2 \in Nat /\ 0 \in Nat
    BY Views DEF Conn
  <2>6. BodyAt(client', Incoming', 0, req.id, Remaining)
    BY <1>1, <2>3, <2>4, <2>5, BodyAtWhole
  <2>7. QED
    BY <1>1, <2>2, <2>3, <2>6 DEF BodyNext
<1>5. Handling'
  BY <1>1 DEF Conn, Handling
<1>6. QED
  BY <1>2, <1>3, <1>4, <1>5 DEF Conn

LEMMA SendBodyStep ==
    ASSUME Conn, SendBody
    PROVE  /\ Longer(Incoming, Incoming', 1) /\ Ahead' = Ahead
           /\ Incoming'[Len(Incoming) + 1] = BodyByte(client.sent)
           /\ client.pending \in Nat \ {0}
           /\ client'.sent = client.sent /\ client'.pending = client.pending - 1
           /\ client'.answers = client.answers /\ client'.piped = client.piped
           /\ client' \in Client /\ wire' \in Seq(Cell)
           /\ UNCHANGED <<pc, req, served, read>>
<1> DEFINE b == BodyByte(client.sent)
           X == Append(wire, b)
<1>1. /\ client.sent \in Nat /\ client.pending \in Nat \ {0} /\ wire \in Seq(Cell)
      /\ client \in [open : BOOLEAN, sent : Nat, pending : Nat, answers : Nat, piped : BOOLEAN]
  BY DEF Conn, TypeOK, SendBody
<1>2. b \in Cell
  BY <1>1 DEF BodyByte, Byte, Cell
<1>3. /\ wire' = X /\ client' = [client EXCEPT !.pending = @ - 1]
      /\ UNCHANGED <<pc, req, served, read>>
  BY DEF SendBody
<1> HIDE DEF b
<1>4. Longer(wire, X, 1) /\ X[Len(wire) + 1] = b
  <2>1. Len(wire) \in Nat
    BY <1>1, LenProperties
  <2>2. QED
    BY <1>1, <1>2, <2>1, AppendProperties DEF Longer
<1> HIDE DEF X
<1>5. Longer(Incoming, Incoming', 1) /\ Ahead' = Ahead /\ Incoming'[Len(Incoming) + 1] = b
  <2>1. Ahead \in Seq(Cell) /\ Ahead' = Ahead /\ 1 \in Nat /\ 1 \in 1..1
    BY <1>3, Views DEF Conn, Ahead, Serving
  <2>2. /\ Longer(Ahead \o wire, Ahead \o X, 1)
        /\ \A j \in 1..1 : (Ahead \o X)[Len(Ahead \o wire) + j] = X[Len(wire) + j]
    BY <1>4, <2>1, LongerAhead
  <2>3. Incoming = Ahead \o wire /\ Incoming' = Ahead \o X
    BY <1>3, <2>1 DEF Incoming
  <2>4. QED
    BY <1>4, <2>1, <2>2, <2>3
<1>6. /\ client'.sent = client.sent /\ client'.pending = client.pending - 1
      /\ client'.answers = client.answers /\ client'.piped = client.piped
  BY <1>1, <1>3
<1>7. wire' \in Seq(Cell)
  BY <1>3, <1>4 DEF Longer
<1>8. client' \in Client
  BY <1>1, <1>3 DEF Client
<1>9. QED
  BY <1>1, <1>3, <1>5, <1>6, <1>7, <1>8 DEF b

LEMMA SendBodyConn ==
    ASSUME Conn, SendBody
    PROVE  Conn'
<1>1. /\ Longer(Incoming, Incoming', 1)
      /\ Incoming'[Len(Incoming) + 1] = BodyByte(client.sent)
      /\ client.pending \in Nat \ {0}
      /\ client'.sent = client.sent /\ client'.pending = client.pending - 1
      /\ client' \in Client /\ wire' \in Seq(Cell)
      /\ UNCHANGED <<pc, req, served, read>>
  BY SendBodyStep
<1>2. Framed(client', Incoming')
  BY <1>1, FramedSent DEF Conn
<1>3. TypeOK'
  BY <1>1 DEF Conn, TypeOK, Serving, Client
<1>4. BodyNext'
  <2>1. SUFFICES ASSUME Serving, req.has_length PROVE BodyNext'
    BY <1>1 DEF BodyNext, Serving
  <2>2. req \in Request /\ req.own /\ req.consumed <= req.length
    BY <2>1, Views DEF Conn, BodyNext
  <2>3. Remaining \in Nat /\ Remaining' = Remaining
    BY <1>1, <2>2 DEF Remaining, Request
  <2>4. BodyAt(client, Incoming, 0, req.id, Remaining)
    BY <2>1 DEF Conn, BodyNext
  <2>5. 0 <= Len(Incoming) /\ 0 \in Nat
    BY Views DEF Conn
  <2>6. BodyAt(client', Incoming', 0, req.id, Remaining)
    BY <1>1, <2>3, <2>4, <2>5, BodyAtSent
  <2>7. QED
    BY <1>1, <2>2, <2>3, <2>6 DEF BodyNext
<1>5. Handling'
  BY <1>1 DEF Conn, Handling
<1>6. QED
  BY <1>2, <1>3, <1>4, <1>5 DEF Conn

LEMMA HangUpConn ==
    ASSUME Conn, HangUp
    PROVE  Conn'
<1>1. /\ client' \in Client /\ client'.sent = client.sent /\ client'.pending = client.pending
      /\ UNCHANGED <<wire, pc, req, served, read>>
  BY DEF Conn, TypeOK, HangUp, Client
<1>2. Incoming' = Incoming /\ Remaining' = Remaining /\ Serving' = Serving
  BY <1>1 DEF Incoming, Ahead, Remaining, Serving
<1>3. TypeOK' /\ Handling'
  BY <1>1 DEF Conn, TypeOK, Client, Serving, Handling
<1>4. Framed(client', Incoming')
  BY <1>1, <1>2, FramedSame DEF Conn
<1>5. BodyNext'
  BY <1>1, <1>2, BodyAtSame DEF Conn, BodyNext
<1>6. QED
  BY <1>3, <1>4, <1>5 DEF Conn

LEMMA DispatchConn ==
    ASSUME Conn, http_server_dispatch
    PROVE  Conn'
<1>1. Serving /\ req \in Request /\ client \in Client
  BY Views DEF Conn, TypeOK, Client, Serving, http_server_dispatch
<1>2. PICK handler \in {"ignore", "close", "stream", "json"} :
          /\ handler = "stream" => req.has_length
          /\ req' = [req EXCEPT !.handler = handler, !.keep = @ /\ handler # "close"]
          /\ pc' = IF handler \in {"stream", "json"} THEN "body" ELSE "memory"
          /\ UNCHANGED <<client, wire, served, read>>
  BY DEF http_server_dispatch
<1> DEFINE keep == req.keep /\ handler # "close"
<1>3. keep \in BOOLEAN
  BY Zenon
<1>4. req' = [req EXCEPT !.handler = handler, !.keep = keep]
  BY <1>2
<1> HIDE DEF keep
<1>5. req' \in Request
  BY <1>1, <1>3, <1>4 DEF Request
<1>6. /\ req'.id = req.id /\ req'.has_length = req.has_length /\ req'.length = req.length
      /\ req'.leftover = req.leftover /\ req'.consumed = req.consumed /\ req'.own = req.own
      /\ req'.handler = handler
  BY <1>1, <1>4 DEF Request
<1>7. Serving' /\ Handling'
  BY <1>2, <1>6 DEF Serving, Handling
<1>8. client' = client /\ UNCHANGED <<wire, served, read>>
  BY <1>2
<1>9. QED
  BY <1>1, <1>5, <1>6, <1>7, <1>8, StayConn

LEMMA RespondConn ==
    ASSUME Conn, Respond
    PROVE  Conn'
<1>1. Serving /\ req \in Request /\ client \in Client /\ served \in Nat
  BY Views DEF Conn, TypeOK, Client, Serving, Respond
<1>2. client' \in Client /\ client'.sent = client.sent /\ client'.pending = client.pending
  BY <1>1 DEF Client, Respond
<1>3. UNCHANGED <<wire, served, read>>
  BY DEF Respond
<1>4. CASE pc' = "drain" /\ UNCHANGED req
  BY <1>1, <1>2, <1>3, <1>4, StayConn DEF Serving, Handling
<1>5. CASE Close
  BY <1>1, <1>2, <1>3, <1>5, ToHeader DEF Close
<1>6. QED
  BY <1>4, <1>5 DEF Respond

\* The other steps of the server that leave the bytes alone.
LEMMA QuietConn ==
    ASSUME Conn, SendContinue \/ ReadTimeout \/ BodyDone \/ drain_body \/ KeepConnection
    PROVE  Conn'
<1>1. Serving /\ req \in Request /\ client \in Client /\ served \in Nat
  BY Views DEF Conn, TypeOK, Client, Serving, SendContinue, ReadTimeout, BodyDone, drain_body,
               KeepConnection, MayRead, Reading
<1>2. UNCHANGED <<client, wire, read>>
  BY DEF SendContinue, ReadTimeout, BodyDone, drain_body, KeepConnection
<1>3. CASE SendContinue
  <2>1. req' = [req EXCEPT !.sent_100 = TRUE] /\ UNCHANGED <<pc, served>> /\ TRUE \in BOOLEAN
    BY <1>3 DEF SendContinue
  <2>2. req' \in Request
    BY <1>1, <2>1 DEF Request
  <2>3. /\ req'.id = req.id /\ req'.has_length = req.has_length /\ req'.length = req.length
        /\ req'.leftover = req.leftover /\ req'.consumed = req.consumed /\ req'.own = req.own
        /\ req'.handler = req.handler
    BY <1>1, <2>1 DEF Request
  <2>4. Serving' /\ Handling'
    BY <1>1, <2>1, <2>3 DEF Serving, Handling, Conn
  <2>5. QED
    BY <1>1, <1>2, <2>1, <2>2, <2>3, <2>4, StayConn
<1>4. CASE pc' \in {"memory", "keep"} /\ UNCHANGED <<req, served>>
  BY <1>1, <1>2, <1>4, StayConn DEF Serving, Handling
<1>5. CASE pc' \in {"header", "closed"} /\ req' = NoRequest /\ served' \in {served, served + 1}
  BY <1>1, <1>2, <1>5, ToHeader
<1>6. QED
  BY <1>3, <1>4, <1>5 DEF ReadTimeout, BodyDone, drain_body, KeepConnection, Close

LEMMA UnchangedConn ==
    ASSUME Conn, UNCHANGED connVars
    PROVE  Conn'
<1>1. UNCHANGED <<client, wire, pc, req, served, read>>
  BY DEF connVars
<1>2. Incoming' = Incoming /\ Remaining' = Remaining /\ (Serving' <=> Serving)
  BY <1>1 DEF Incoming, Ahead, Remaining, Serving
<1>3. TypeOK' /\ Handling'
  BY <1>1, <1>2 DEF Conn, TypeOK, Handling
<1>4. Framed(client', Incoming') /\ BodyNext'
  BY <1>1, <1>2 DEF Conn, BodyNext
<1>5. QED
  BY <1>3, <1>4 DEF Conn

LEMMA NextConnectionConn ==
    ASSUME Conn, NextConnection
    PROVE  Conn'
<1>1. <<>> \in Seq(Cell) /\ <<>> \in Seq([id : Nat, clean : BOOLEAN])
  BY EmptySeq
<1>2. ~Serving' /\ req' \in [buf : Seq(Cell)] /\ Incoming' = <<>> \o <<>>
  BY <1>1 DEF NextConnection, Serving, NoRequest, Incoming, Ahead
<1>3. TypeOK'
  BY <1>1, <1>2 DEF NextConnection, TypeOK, Fresh
<1>4. Len(Incoming') = 0
  BY <1>2
<1>5. Framed(client', Incoming')
  BY <1>4 DEF Framed
<1>6. Handling' /\ BodyNext'
  BY <1>2 DEF NextConnection, Handling, BodyNext
<1>7. QED
  BY <1>3, <1>5, <1>6 DEF Conn

\* The end of the headers is the first one in the buffer.
LEMMA HeaderEndFound ==
    ASSUME NEW buf \in Seq(Cell), \E i \in DOMAIN buf : buf[i].part = "end"
    PROVE  /\ HeaderEnd(buf) \in 1..Len(buf)
           /\ buf[HeaderEnd(buf)].part = "end"
           /\ \A j \in 1..(HeaderEnd(buf) - 1) : buf[j].part # "end"
<1> DEFINE T == {i \in 1..Len(buf) : buf[i].part = "end"}
<1>1. DOMAIN buf = 1..Len(buf) /\ Len(buf) \in Nat
  BY LenProperties
<1>2. T \subseteq Nat /\ T # {}
  BY <1>1
<1>3. PICK x \in T : \A y \in T : x <= y
  BY <1>2, LeastNat
<1>4. \A j \in 1..(x - 1) : buf[j].part # "end"
  <2>1. ASSUME NEW j \in 1..(x - 1) PROVE buf[j].part # "end"
    <3>1. j \in 1..Len(buf) /\ ~(x <= j)
      BY <1>1, <1>3
    <3>2. QED
      BY <1>3, <3>1
  <2>2. QED
    BY <2>1
<1>5. \E i \in DOMAIN buf : buf[i].part = "end" /\ \A j \in 1..(i - 1) : buf[j].part # "end"
  BY <1>1, <1>3, <1>4
<1>6. QED
  BY <1>1, <1>5 DEF HeaderEnd

\* http_read_request: what is received joins the buffer.
LEMMA Receives ==
    ASSUME TypeOK, http_read_request
    PROVE  /\ pc = "header" /\ UNCHANGED <<client, served>>
           /\ \E buf \in Seq(Cell) :
                 /\ wire' \in Seq(Cell) /\ buf \o wire' = Incoming
                 /\ \/ /\ \E i \in DOMAIN buf : buf[i].part = "end"
                       /\ Parsed(buf)
                    \/ UNCHANGED read /\ Close
                    \/ UNCHANGED <<read, pc>> /\ req' = [buf |-> buf]
<1>1. pc = "header" /\ UNCHANGED <<client, served>> /\ ~Serving /\ Incoming = req.buf \o wire
  BY DEF http_read_request, Serving, Incoming, Ahead
<1>2. req.buf \in Seq(Cell) /\ wire \in Seq(Cell) /\ DOMAIN wire = 1..Len(wire) /\ Len(wire) \in Nat
  BY <1>1, Views, LenProperties DEF TypeOK
<1>3. PICK got \in Received(HeaderMax - Len(req.buf)) :
         /\ io_recv(got)
         /\ IF \E i \in DOMAIN (req.buf \o got) : (req.buf \o got)[i].part = "end"
            THEN Parsed(req.buf \o got)
            ELSE /\ UNCHANGED read
                 /\ IF Len(req.buf \o got) = HeaderMax THEN Close
                    ELSE req' = [buf |-> req.buf \o got] /\ UNCHANGED pc
  BY DEF http_read_request
<1>4. PICK n \in DOMAIN wire : got = SubSeq(wire, 1, n)
  BY <1>3 DEF Received
<1>5. n \in 1..Len(wire) /\ Len(got) = n
  <2>1. n \in 1..Len(wire) /\ n \in 0..Len(wire)
    BY <1>2
  <2>2. QED
    BY <1>2, <1>4, <2>1, SubSeqFront
<1>6. wire' = SubSeq(wire, n + 1, Len(wire))
  BY <1>3, <1>5 DEF io_recv
<1> DEFINE buf == req.buf \o got
<1>7. buf \in Seq(Cell) /\ wire' \in Seq(Cell) /\ buf \o wire' = Incoming
  BY <1>1, <1>2, <1>4, <1>5, <1>6, Moved
<1>8. \/ (\E i \in DOMAIN buf : buf[i].part = "end") /\ Parsed(buf)
      \/ UNCHANGED read /\ Close
      \/ UNCHANGED <<read, pc>> /\ req' = [buf |-> buf]
  BY <1>3
<1> HIDE DEF buf
<1>9. QED
  BY <1>1, <1>7, <1>8

\* What a parsed header makes of the request and of the bytes ahead.
LEMMA ParsedStep ==
    ASSUME TypeOK, NEW buf \in Seq(Cell), wire' \in Seq(Cell), buf \o wire' = Incoming,
           Framed(client, Incoming), \E i \in DOMAIN buf : buf[i].part = "end", Parsed(buf)
    PROVE  \E e \in 1..Len(buf), h \in Header :
           /\ e = HeaderEnd(buf) /\ h = buf[e].head
           /\ BodyAt(client, Incoming, e, h.id, h.length)
           /\ req' \in Request /\ pc' = "dispatch" /\ Serving'
           /\ req'.id = h.id /\ req'.has_length = h.has_length /\ req'.length = h.length
           /\ req'.consumed = 0 /\ req'.own
           /\ Ahead' = req'.leftover /\ Len(Ahead') = Len(buf) - e
           /\ Shorter(Incoming, Incoming', e)
           /\ read' = Append(read, [id |-> h.id, clean |-> buf[1] = Head1(h)])
<1> DEFINE e == HeaderEnd(buf)
           h == buf[e].head
<1>1. e \in 1..Len(buf) /\ buf[e].part = "end" /\ Len(buf) \in Nat
  BY HeaderEndFound, LenProperties
<1>2. Len(wire') \in Nat /\ Len(Incoming) = Len(buf) + Len(wire') /\ Incoming[e] = buf[e]
  <2>1. Len(wire') \in Nat
    BY LenProperties
  <2>2. /\ Len(buf \o wire') = Len(buf) + Len(wire')
        /\ \A i \in 1..(Len(buf) + Len(wire')) :
              (buf \o wire')[i] = IF i <= Len(buf) THEN buf[i] ELSE wire'[i - Len(buf)]
    BY ConcatProperties
  <2>3. QED
    BY <1>1, <2>1, <2>2
<1>3. h \in Header /\ BodyAt(client, Incoming, e, h.id, h.length)
  BY <1>1, <1>2 DEF Framed
<1> DEFINE L == SubSeq(buf, e + 1, Len(buf))
<1>4. e \in 0..Len(buf) /\ e \in Nat
  BY <1>1
<1>5. /\ L \in Seq(Cell) /\ Len(L) = Len(buf) - e
      /\ \A i \in 1..(Len(buf) - e) : L[i] = buf[i + e]
  BY <1>4, SubSeqRest
<1>6. /\ req' = [id |-> h.id, has_length |-> h.has_length, length |-> h.length,
                 expect |-> h.expect, sent_100 |-> FALSE, keep |-> TRUE,
                 leftover |-> L, consumed |-> 0, handler |-> "none", guard |-> 0, own |-> TRUE]
      /\ pc' = "dispatch"
      /\ read' = Append(read, [id |-> h.id, clean |-> buf[1] = Head1(h)])
  BY DEF Parsed
<1> HIDE DEF L
<1>7. /\ h.id \in Nat /\ h.has_length \in BOOLEAN /\ h.length \in Nat /\ h.expect \in BOOLEAN
      /\ TRUE \in BOOLEAN /\ FALSE \in BOOLEAN
  BY <1>3 DEF Header
<1>8. req' \in Request
  BY <1>5, <1>6, <1>7 DEF Request
<1>9. Serving' /\ Ahead' = L /\ req'.leftover = L
  BY <1>6 DEF Serving, Ahead
<1>10. Incoming' = L \o wire'
  BY <1>9 DEF Incoming
<1>11. Shorter(buf \o wire', L \o wire', e)
  BY <1>4, <1>5, TakeFront
<1>12. /\ req'.id = h.id /\ req'.has_length = h.has_length /\ req'.length = h.length
       /\ req'.consumed = 0 /\ req'.own
  BY <1>6
<1>13. /\ e = HeaderEnd(buf) /\ h = buf[e].head
       /\ BodyAt(client, Incoming, e, h.id, h.length)
       /\ req' \in Request /\ pc' = "dispatch" /\ Serving'
       /\ req'.id = h.id /\ req'.has_length = h.has_length /\ req'.length = h.length
       /\ req'.consumed = 0 /\ req'.own
       /\ Ahead' = req'.leftover /\ Len(Ahead') = Len(buf) - e
       /\ Shorter(Incoming, Incoming', e)
       /\ read' = Append(read, [id |-> h.id, clean |-> buf[1] = Head1(h)])
  BY <1>3, <1>5, <1>6, <1>8, <1>9, <1>10, <1>11, <1>12
<1> HIDE DEF e, h
<1>14. QED
  BY <1>1, <1>3, <1>13

LEMMA ReadRequestConn ==
    ASSUME Conn, http_read_request
    PROVE  Conn'
<1>1. TypeOK /\ Framed(client, Incoming)
  BY DEF Conn
<1>2. pc = "header" /\ UNCHANGED <<client, served>>
  BY <1>1, Receives
<1>3. PICK buf \in Seq(Cell) :
         /\ wire' \in Seq(Cell) /\ buf \o wire' = Incoming
         /\ \/ (\E i \in DOMAIN buf : buf[i].part = "end") /\ Parsed(buf)
            \/ UNCHANGED read /\ Close
            \/ UNCHANGED <<read, pc>> /\ req' = [buf |-> buf]
  BY <1>1, Receives
<1>4. CASE (\E i \in DOMAIN buf : buf[i].part = "end") /\ Parsed(buf)
  <2>0. /\ wire' \in Seq(Cell) /\ buf \o wire' = Incoming
        /\ \E i \in DOMAIN buf : buf[i].part = "end"
        /\ Parsed(buf)
    BY <1>3, <1>4
  <2>1. PICK e \in 1..Len(buf), h \in Header :
           /\ e = HeaderEnd(buf) /\ h = buf[e].head
           /\ BodyAt(client, Incoming, e, h.id, h.length)
           /\ req' \in Request /\ pc' = "dispatch" /\ Serving'
           /\ req'.id = h.id /\ req'.has_length = h.has_length /\ req'.length = h.length
           /\ req'.consumed = 0 /\ req'.own
           /\ Ahead' = req'.leftover /\ Len(Ahead') = Len(buf) - e
           /\ Shorter(Incoming, Incoming', e)
           /\ read' = Append(read, [id |-> h.id, clean |-> buf[1] = Head1(h)])
    BY <1>1, <2>0, ParsedStep
  <2> DEFINE clean == buf[1] = Head1(h)
  <2>2. clean \in BOOLEAN
    BY Zenon
  <2>3. read' = Append(read, [id |-> h.id, clean |-> clean])
    BY <2>1
  <2> HIDE DEF clean
  <2>4. h.id \in Nat /\ h.length \in Nat /\ e \in Nat
    BY <2>1 DEF Header
  <2>5. [id |-> h.id, clean |-> clean] \in [id : Nat, clean : BOOLEAN]
    BY <2>2, <2>4
  <2>6. read' \in Seq([id : Nat, clean : BOOLEAN])
    BY <1>1, <2>3, <2>5, AppendProperties DEF TypeOK
  <2>7. TypeOK'
    BY <1>1, <1>2, <1>3, <2>1, <2>6 DEF TypeOK
  <2>8. Framed(client', Incoming')
    BY <1>1, <1>2, <2>1, FramedShorter
  <2>9. 0 \in Nat /\ BodyAt(client, Incoming, 0 + e, h.id, h.length)
    BY <2>1, <2>4
  <2>10. BodyAt(client, Incoming', 0, h.id, h.length)
    BY <2>1, <2>4, <2>9, BodyAtShorter
  <2>11. Remaining' = h.length
    BY <2>1, <2>4 DEF Remaining
  <2>12. BodyNext'
    BY <1>2, <2>1, <2>4, <2>10, <2>11 DEF BodyNext
  <2>13. Handling'
    BY <2>1 DEF Handling
  <2>14. QED
    BY <2>7, <2>8, <2>12, <2>13 DEF Conn
<1>5. CASE UNCHANGED read /\ Close
  <2>1. <<>> \in Seq(Cell)
    BY EmptySeq
  <2>2. ~Serving' /\ req' \in [buf : Seq(Cell)] /\ Ahead' = <<>>
    BY <1>5, <2>1 DEF Serving, NoRequest, Ahead, Close
  <2>3. TypeOK'
    BY <1>1, <1>2, <1>3, <1>5, <2>2 DEF TypeOK, Close
  <2>4. Shorter(Incoming, Incoming', Len(buf))
    BY <1>3, <2>2, DropAhead DEF Incoming
  <2>5. Framed(client', Incoming')
    BY <1>1, <1>2, <2>4, FramedShorter
  <2>6. Handling' /\ BodyNext'
    BY <1>5, <2>2 DEF Handling, BodyNext, Close
  <2>7. QED
    BY <2>3, <2>5, <2>6 DEF Conn
<1>6. CASE UNCHANGED <<read, pc>> /\ req' = [buf |-> buf]
  <2>1. ~Serving' /\ req' \in [buf : Seq(Cell)] /\ Ahead' = buf
    BY <1>2, <1>3, <1>6 DEF Serving, Ahead
  <2>2. TypeOK'
    BY <1>1, <1>2, <1>3, <1>6, <2>1 DEF TypeOK
  <2>3. Incoming' = Incoming
    BY <1>3, <2>1 DEF Incoming
  <2>4. Handling' /\ BodyNext'
    BY <1>2, <1>6, <2>1 DEF Handling, BodyNext
  <2>5. QED
    BY <1>1, <1>2, <2>2, <2>3, <2>4 DEF Conn
<1>7. QED
  BY <1>3, <1>4, <1>5, <1>6

\* A read of the body asks for something, and for no more than remains of it.
LEMMA WantedSome ==
    ASSUME Conn, MayRead
    PROVE  /\ Wanted \in Nat \ {0} /\ Serving /\ req \in Request
           /\ req.has_length => Wanted = Remaining
<1>1. Serving /\ req \in Request
  BY Views DEF Conn, MayRead, Reading, Serving
<1>2. /\ req.has_length \in BOOLEAN /\ req.length \in Nat /\ req.consumed \in Nat
      /\ JsonMax \in Nat
  BY <1>1, HttpAssumption DEF Request
<1>3. CASE req.has_length
  <2>1. req.consumed <= req.length
    BY <1>1, <1>3 DEF Conn, BodyNext
  <2>2. Remaining \in Nat \ {0}
    BY <1>2, <1>3, <2>1 DEF MayRead, AtEnd, Remaining
  <2>3. QED
    BY <1>1, <1>3, <2>2 DEF Wanted
<1>4. CASE ~req.has_length
  <2>1. pc = "body" /\ req.handler = "json"
    BY <1>4 DEF MayRead, Reading, AtEnd, Conn, Handling
  <2>2. ~(req.consumed >= JsonMax)
    BY <2>1 DEF MayRead, AtEnd
  <2>3. QED
    BY <1>1, <1>2, <1>4, <2>2 DEF Wanted
<1>5. QED
  BY <1>3, <1>4

\* http_read_body: m bytes off the front of what is coming.
LEMMA TakingStep ==
    ASSUME Conn, ReadLeftover \/ ReadSocket
    PROVE  \E m \in 1..Wanted :
           /\ Shorter(Incoming, Incoming', m)
           /\ req' \in Request /\ req'.consumed = req.consumed + m
           /\ req'.id = req.id /\ req'.has_length = req.has_length
           /\ req'.length = req.length /\ req'.handler = req.handler
           /\ req.own /\ (\A i \in 1..m : Incoming[i] = BodyByte(req.id)) => req'.own
           /\ Len(Ahead') <= Len(Ahead) /\ (Len(Ahead') = Len(Ahead) - m \/ Len(Ahead') = 0)
           /\ Serving /\ Serving' /\ UNCHANGED <<client, pc, served, read>>
           /\ wire' \in Seq(Cell)
<1>1. /\ MayRead /\ Wanted \in Nat \ {0} /\ Serving /\ req \in Request
      /\ UNCHANGED <<client, pc, served, read>>
  BY WantedSome DEF ReadLeftover, ReadSocket
<1>2. /\ Ahead = req.leftover /\ Ahead \in Seq(Cell) /\ wire \in Seq(Cell)
      /\ Len(Ahead) \in Nat /\ Len(wire) \in Nat /\ Incoming = req.leftover \o wire
      /\ DOMAIN wire = 1..Len(wire) /\ Len(Incoming) = Len(Ahead) + Len(wire)
  BY <1>1, Views, LenProperties DEF Conn, Ahead, Incoming
<1>3. \E got \in Seq(Cell), left \in Seq(Cell) :
         /\ Len(got) \in 1..Wanted /\ Taking(got, left)
         /\ \A i \in 1..Len(got) : got[i] = Incoming[i]
         /\ Shorter(Incoming, left \o wire', Len(got)) /\ wire' \in Seq(Cell)
         /\ Len(left) <= Len(Ahead) /\ (Len(left) = Len(Ahead) - Len(got) \/ Len(left) = 0)
  <2>1. CASE ReadLeftover
    <3> DEFINE L == req.leftover
               n == IF Len(L) < Wanted THEN Len(L) ELSE Wanted
               got == SubSeq(L, 1, n)
               left == SubSeq(L, n + 1, Len(L))
    <3>1. Taking(got, left) /\ wire' = wire /\ L # <<>>
      BY <2>1 DEF ReadLeftover
    <3>2. L \in Seq(Cell) /\ Len(L) \in Nat \ {0}
      BY <1>2, <3>1, EmptySeq
    <3>3. n \in 1..Wanted /\ n \in 0..Len(L) /\ n >= 1
      BY <1>1, <3>2
    <3> HIDE DEF L, n
    <3>4. got \in Seq(Cell) /\ Len(got) = n /\ \A i \in 1..n : got[i] = L[i]
      BY <3>2, <3>3, SubSeqFront
    <3>5. /\ left \in Seq(Cell) /\ Len(left) = Len(L) - n
          /\ \A i \in 1..(Len(L) - n) : left[i] = L[i + n]
      BY <3>2, <3>3, SubSeqRest
    <3> HIDE DEF got, left
    <3>6. Shorter(L \o wire, left \o wire, n)
      BY <1>2, <3>2, <3>3, <3>5, TakeFront
    <3>7. \A i \in 1..n : Incoming[i] = L[i]
      <4>1. \A i \in 1..(Len(L) + Len(wire)) :
              (L \o wire)[i] = IF i <= Len(L) THEN L[i] ELSE wire[i - Len(L)]
        BY <1>2, <3>2, ConcatProperties
      <4>2. QED
        BY <1>2, <3>2, <3>3, <4>1 DEF L
    <3>8. Shorter(Incoming, left \o wire', Len(got))
      BY <1>2, <3>1, <3>4, <3>6 DEF L
    <3>9. Len(left) <= Len(Ahead) /\ Len(left) = Len(Ahead) - Len(got)
      BY <1>2, <3>2, <3>3, <3>4, <3>5 DEF L
    <3>10. QED
      BY <1>2, <3>1, <3>3, <3>4, <3>5, <3>7, <3>8, <3>9
  <2>2. CASE ReadSocket
    <3>1. PICK got \in Received(Wanted) : io_recv(got) /\ Taking(got, <<>>)
      BY <2>2 DEF ReadSocket
    <3>2. PICK n \in DOMAIN wire : n <= Wanted /\ got = SubSeq(wire, 1, n)
      BY <3>1 DEF Received
    <3>3. n \in 1..Len(wire) /\ n \in 0..Len(wire) /\ n \in 1..Wanted
      BY <1>1, <1>2, <3>2
    <3>4. got \in Seq(Cell) /\ Len(got) = n /\ \A i \in 1..n : got[i] = wire[i]
      BY <1>2, <3>2, <3>3, SubSeqFront
    <3>5. wire' = SubSeq(wire, n + 1, Len(wire))
      BY <3>1, <3>4 DEF io_recv
    <3>6. /\ wire' \in Seq(Cell) /\ Len(wire') = Len(wire) - n
          /\ \A i \in 1..(Len(wire) - n) : wire'[i] = wire[i + n]
      BY <1>2, <3>3, <3>5, SubSeqRest
    <3>7. <<>> \in Seq(Cell) /\ Len(<<>>) = 0
      BY EmptySeq
    <3>8. Incoming = wire /\ <<>> \o wire' = wire' /\ req.leftover = <<>>
      BY <1>2, <2>2, <3>6, ConcatEmptySeq DEF ReadSocket
    <3>9. Shorter(Incoming, <<>> \o wire', Len(got))
      BY <1>2, <3>3, <3>4, <3>6, <3>8 DEF Shorter
    <3>10. Len(<<>>) <= Len(Ahead)
      BY <1>2, <3>7
    <3>11. \A i \in 1..Len(got) : got[i] = Incoming[i]
      BY <3>4, <3>8
    <3>12. QED
      BY <3>1, <3>3, <3>4, <3>6, <3>7, <3>9, <3>10, <3>11
  <2>3. QED
    BY <2>1, <2>2
<1>4. PICK got \in Seq(Cell), left \in Seq(Cell) :
         /\ Len(got) \in 1..Wanted /\ Taking(got, left)
         /\ \A i \in 1..Len(got) : got[i] = Incoming[i]
         /\ Shorter(Incoming, left \o wire', Len(got)) /\ wire' \in Seq(Cell)
         /\ Len(left) <= Len(Ahead) /\ (Len(left) = Len(Ahead) - Len(got) \/ Len(left) = 0)
  BY <1>3
<1> DEFINE own == req.own /\ \A i \in DOMAIN got : got[i] = BodyByte(req.id)
           guard == IF pc = "drain" THEN req.guard + 1 ELSE req.guard
<1>5. own \in BOOLEAN
  BY Zenon
<1>6. req' = [req EXCEPT !.leftover = left, !.consumed = @ + Len(got), !.guard = guard,
                         !.own = own]
  BY <1>4 DEF Taking
<1>7. DOMAIN got = 1..Len(got) /\ Len(got) \in Nat
  BY <1>4, LenProperties
<1>8. req.own /\ (\A i \in 1..Len(got) : Incoming[i] = BodyByte(req.id)) => own
  BY <1>4, <1>7
<1>9. guard \in Nat
  BY <1>1 DEF Request
<1> HIDE DEF own, guard
<1>10. req' \in Request
  <2>1. req.consumed + Len(got) \in Nat
    BY <1>1, <1>7 DEF Request
  <2>2. QED
    BY <1>1, <1>4, <1>5, <1>6, <1>9, <2>1 DEF Request
<1>11. /\ req'.consumed = req.consumed + Len(got) /\ req'.id = req.id
       /\ req'.has_length = req.has_length /\ req'.length = req.length
       /\ req'.handler = req.handler /\ req'.own = own /\ req'.leftover = left
  BY <1>1, <1>6 DEF Request
<1>12. Serving' /\ Ahead' = left
  BY <1>1, <1>11 DEF Serving, Ahead
<1>13. Incoming' = left \o wire'
  BY <1>12 DEF Incoming
<1>14. QED
  BY <1>1, <1>4, <1>8, <1>10, <1>11, <1>12, <1>13

LEMMA ReadBodyConn ==
    ASSUME Conn, ReadLeftover \/ ReadSocket
    PROVE  Conn'
<1>1. PICK m \in 1..Wanted :
           /\ Shorter(Incoming, Incoming', m)
           /\ req' \in Request /\ req'.consumed = req.consumed + m
           /\ req'.id = req.id /\ req'.has_length = req.has_length
           /\ req'.length = req.length /\ req'.handler = req.handler
           /\ req.own /\ (\A i \in 1..m : Incoming[i] = BodyByte(req.id)) => req'.own
           /\ Serving /\ Serving' /\ UNCHANGED <<client, pc, served, read>>
           /\ wire' \in Seq(Cell)
  BY TakingStep
<1>2. /\ Wanted \in Nat \ {0} /\ req \in Request
      /\ req.has_length => Wanted = Remaining
  BY WantedSome DEF ReadLeftover, ReadSocket
<1>3. TypeOK'
  BY <1>1 DEF Conn, TypeOK
<1>4. Framed(client', Incoming')
  BY <1>1, FramedShorter DEF Conn
<1>5. Handling'
  BY <1>1 DEF Conn, Handling
<1>6. BodyNext'
  <2>1. SUFFICES ASSUME req.has_length PROVE BodyNext'
    BY <1>1 DEF BodyNext
  <2>2. /\ req.own /\ req.consumed <= req.length
        /\ BodyAt(client, Incoming, 0, req.id, Remaining)
    BY <1>1, <2>1 DEF Conn, BodyNext
  <2>3. Remaining \in Nat /\ m \in Nat /\ m <= Remaining
    BY <1>1, <1>2, <2>1
  <2>4. /\ \A j \in 1..m : Incoming[j] = BodyByte(req.id)
        /\ BodyAt(client, Incoming', 0, req.id, Remaining - m)
    BY <1>1, <2>2, <2>3, BodyTaken
  <2>5. req.consumed \in Nat /\ req.length \in Nat
    BY <1>2 DEF Request
  <2>6. Remaining' = Remaining - m
    BY <1>1, <2>3, <2>5 DEF Remaining
  <2>7. req'.consumed <= req'.length
    BY <1>1, <2>3, <2>5 DEF Remaining
  <2>8. QED
    BY <1>1, <2>2, <2>4, <2>6, <2>7 DEF BodyNext
<1>7. QED
  BY <1>3, <1>4, <1>5, <1>6 DEF Conn

LEMMA ConnNext == Conn /\ [Next]_vars => Conn'
<1> SUFFICES ASSUME Conn, [Next]_vars PROVE Conn'
  OBVIOUS
<1>1. CASE UNCHANGED vars
  BY <1>1, UnchangedConn DEF vars, connVars
<1>2. CASE UseMemory
  BY <1>2, UnchangedConn DEF UseMemory
<1>3. CASE HeaderTimeout
  <2>1. client \in Client /\ served \in Nat
    BY DEF Conn, TypeOK, Client
  <2>2. QED
    BY <1>3, <2>1, ToHeader DEF HeaderTimeout, Close
<1>4. QED
  BY <1>1, <1>2, <1>3, SendHeaderConn, SendBodyConn, HangUpConn, ReadRequestConn, DispatchConn,
     RespondConn, ReadBodyConn, QuietConn, NextConnectionConn
     DEF Next, Server

(* http_read_body: neither a handler nor the drain takes bytes of another  *)
(* request for this one's body, for pipelining clients too, whatever is    *)
(* received at a time.                                                     *)
THEOREM OnlyOwnBodyRead == Spec => []BodyIsOwn
<1>1. Conn => BodyIsOwn
  BY DEF Conn, BodyNext, BodyIsOwn, Serving
<1>2. QED
  BY <1>1, InitConn, ConnNext, PTL DEF Spec

-----------------------------------------------------------------------------
(* A client that waits for its answers. *)

LEMMA DrainedNext ==
    ASSUME Conn, Drained, [Next]_vars
    PROVE  Drained'
<1>1. TypeOK /\ Framed(client, Incoming)
  BY DEF Conn
<1>2. CASE ~Serving'
  BY <1>2 DEF Drained
<1>3. CASE http_read_request
  <2>1. PICK buf \in Seq(Cell) :
         /\ wire' \in Seq(Cell) /\ buf \o wire' = Incoming
         /\ \/ (\E i \in DOMAIN buf : buf[i].part = "end") /\ Parsed(buf)
            \/ UNCHANGED read /\ Close
            \/ UNCHANGED <<read, pc>> /\ req' = [buf |-> buf]
    BY <1>1, <1>3, Receives
  <2>2. CASE (\E i \in DOMAIN buf : buf[i].part = "end") /\ Parsed(buf)
    <3>1. PICK e \in 1..Len(buf), h \in Header :
             /\ pc' = "dispatch"
             /\ req'.has_length = h.has_length /\ req'.length = h.length
      BY <1>1, <2>1, <2>2, ParsedStep
    <3>2. h.has_length \/ h.length = 0
      BY DEF Header
    <3>3. QED
      BY <3>1, <3>2 DEF Drained
  <2>3. CASE ~Serving'
    BY <2>3 DEF Drained
  <2>4. QED
    BY <1>3, <2>1, <2>2, <2>3 DEF Close, Serving, http_read_request
<1>4. CASE drain_body
  <2>1. CASE Close
    BY <2>1 DEF Drained, Close, Serving
  <2>2. CASE AtEnd /\ pc' = "keep" /\ UNCHANGED req
    <3>1. Serving /\ pc = "drain"
      BY <1>4 DEF drain_body, Serving
    <3>2. req.has_length => Remaining = 0
      BY <2>2, <3>1 DEF AtEnd
    <3>3. QED
      BY <2>2, <3>1, <3>2 DEF Drained, Remaining
  <2>3. QED
    BY <1>4, <2>1, <2>2 DEF drain_body
<1>5. CASE Serving /\ Serving' /\ pc' # "keep" /\ req'.has_length = req.has_length /\ req'.length = req.length
  BY <1>5 DEF Drained
<1>6. CASE UNCHANGED <<pc, req>>
  BY <1>6 DEF Drained, Serving, Remaining
<1>7. CASE ReadLeftover \/ ReadSocket
  <2>1. /\ req'.has_length = req.has_length /\ req'.length = req.length
        /\ Serving /\ Serving' /\ pc' = pc
    BY <1>7, TakingStep
  <2>2. pc # "keep"
    BY <1>7 DEF ReadLeftover, ReadSocket, MayRead, Reading
  <2>3. QED
    BY <1>5, <2>1, <2>2
<1>8. CASE http_server_dispatch \/ SendContinue
  <2>1. Serving /\ req \in Request
    BY <1>1, <1>8, Views DEF http_server_dispatch, SendContinue, MayRead, Reading, Serving
  <2>2. req'.has_length = req.has_length /\ req'.length = req.length
    BY <1>8, <2>1 DEF http_server_dispatch, SendContinue, Request
  <2>3. Serving' /\ pc' # "keep"
    BY <1>8 DEF http_server_dispatch, SendContinue, MayRead, Reading, Serving
  <2>4. QED
    BY <1>5, <2>1, <2>2, <2>3
<1>9. CASE Respond \/ ReadTimeout \/ BodyDone
  <2>1. ~Serving' \/ (Serving /\ Serving' /\ pc' # "keep" /\ UNCHANGED req)
    BY <1>9 DEF Respond, ReadTimeout, BodyDone, Close, Serving, MayRead, Reading
  <2>2. QED
    BY <1>2, <1>5, <2>1
<1>10. CASE HeaderTimeout \/ KeepConnection \/ NextConnection
  BY <1>2, <1>10 DEF HeaderTimeout, KeepConnection, NextConnection, Close, Serving
<1>11. CASE UseMemory \/ UNCHANGED vars
  BY <1>6, <1>11 DEF UseMemory, connVars, vars
<1>12. QED
  BY <1>3, <1>4, <1>6, <1>7, <1>8, <1>9, <1>10, <1>11
     DEF Next, Server, SendHeader, SendBody, HangUp

InStepRead == \A i \in DOMAIN read : read[i].id = i /\ read[i].clean
InStepOpen ==
    /\ client.answers <= Len(read)
    /\ pc \in {"dispatch", "body", "memory"} =>
          client.answers < Len(read) /\ client.sent = Len(read)
    /\ \/ client.sent = Len(read) /\ Len(Incoming) + client.pending = Rest
       \/ client.sent = Len(read) + 1 /\ Follower(client, Incoming, Rest)

LEMMA InStepParts ==
    InStep <=> (~client.piped => /\ InStepRead
                                 /\ Serving => Rest >= 0 /\ Len(Ahead) <= Rest
                                 /\ pc # "closed" => InStepOpen)
BY DEF InStep, InStepRead, InStepOpen

\* The next request stays where it is when bytes are added or taken.
LEMMA FollowerLonger ==
    ASSUME NEW c, NEW d, NEW S, NEW T, NEW k \in Nat, Longer(S, T, k), NEW r \in Nat,
           c.pending \in Nat, d.sent = c.sent, d.pending = c.pending - k, Follower(c, S, r)
    PROVE  Follower(d, T, r)
<1>1. Len(S) \in Nat /\ Len(T) = Len(S) + k
  BY LenProperties DEF Longer
<1>2. Len(S) >= r + 2 /\ r + 1 \in 1..Len(S) /\ r + 2 \in 1..Len(S)
  BY <1>1 DEF Follower
<1>3. T[r + 1] = S[r + 1] /\ T[r + 2] = S[r + 2]
  BY <1>2 DEF Longer
<1>4. /\ S[r + 1].head \in Header /\ S[r + 1].head.id = c.sent
      /\ S[r + 1] = Head1(S[r + 1].head) /\ S[r + 2] = Head2(S[r + 1].head)
      /\ Len(S) + c.pending = r + 2 + S[r + 1].head.length
  BY DEF Follower
<1>5. Len(T) + d.pending = Len(S) + c.pending /\ Len(T) >= r + 2
  BY <1>1, <1>2
<1>6. QED
  BY <1>3, <1>4, <1>5 DEF Follower

LEMMA FollowerShorter ==
    ASSUME NEW c, NEW d, NEW S, NEW T, NEW m, Shorter(S, T, m), NEW r \in Nat, m <= r,
           c.pending \in Nat, d.sent = c.sent, d.pending = c.pending, Follower(c, S, r)
    PROVE  Follower(d, T, r - m)
<1>1. Len(S) \in Nat /\ m \in Nat /\ Len(T) = Len(S) - m
  BY LenProperties DEF Shorter
<1>2. Len(S) >= r + 2 /\ (r - m) + 1 \in 1..Len(T) /\ (r - m) + 2 \in 1..Len(T)
  BY <1>1 DEF Follower
<1>3. ((r - m) + 1) + m = r + 1 /\ ((r - m) + 2) + m = r + 2
  BY <1>1
<1>4. T[(r - m) + 1] = S[r + 1] /\ T[(r - m) + 2] = S[r + 2]
  BY <1>2, <1>3 DEF Shorter
<1>5. /\ S[r + 1].head \in Header /\ S[r + 1].head.id = c.sent
      /\ S[r + 1] = Head1(S[r + 1].head) /\ S[r + 2] = Head2(S[r + 1].head)
      /\ Len(S) + c.pending = r + 2 + S[r + 1].head.length
  BY DEF Follower
<1>6. S[r + 1].head.length \in Nat
  BY <1>5 DEF Header
<1>7. Len(T) + d.pending = (r - m) + 2 + S[r + 1].head.length /\ Len(T) >= (r - m) + 2
  BY <1>1, <1>2, <1>5, <1>6
<1>8. QED
  BY <1>4, <1>5, <1>7 DEF Follower

LEMMA InStepTypes ==
    ASSUME Conn
    PROVE  /\ client.sent \in Nat /\ client.pending \in Nat /\ client.answers \in Nat
           /\ Len(read) \in Nat /\ DOMAIN read = 1..Len(read) /\ Rest \in Int
           /\ Incoming \in Seq(Cell) /\ Len(Incoming) \in Nat /\ Len(Ahead) \in Nat
<1>1. TypeOK
  BY DEF Conn
<1>2. client.sent \in Nat /\ client.pending \in Nat /\ client.answers \in Nat
  BY <1>1 DEF TypeOK
<1>3. Len(read) \in Nat /\ DOMAIN read = 1..Len(read)
  BY <1>1, LenProperties DEF TypeOK
<1>4. Rest \in Int
  BY <1>1, Views DEF Rest, Remaining, Request
<1>5. QED
  BY <1>1, <1>2, <1>3, <1>4, Views, LenProperties

\* Nothing has changed that InStep is about, or the request is over.
LEMMA InStepSame ==
    ASSUME Conn, InStep, UNCHANGED read, client'.piped = client.piped,
           client'.answers = client.answers, client'.sent = client.sent,
           client'.pending = client.pending,
           \/ pc' = "closed" /\ ~Serving'
           \/ /\ pc # "closed" /\ Incoming' = Incoming /\ Rest' = Rest
              /\ Serving' => Serving /\ Ahead' = Ahead
              /\ pc' \in {"dispatch", "body", "memory"} => pc \in {"dispatch", "body", "memory"}
    PROVE  InStep'
<1>1. SUFFICES ASSUME ~client'.piped
               PROVE  /\ InStepRead'
                      /\ Serving' => Rest' >= 0 /\ Len(Ahead') <= Rest'
                      /\ pc' # "closed" => InStepOpen'
  BY DEF InStep, InStepRead, InStepOpen
<1>2. /\ InStepRead
      /\ Serving => Rest >= 0 /\ Len(Ahead) <= Rest
      /\ pc # "closed" => InStepOpen
  BY <1>1, InStepParts
<1>3. InStepRead'
  BY <1>2 DEF InStepRead
<1>4. CASE pc' = "closed" /\ ~Serving'
  BY <1>3, <1>4
<1>5. CASE /\ pc # "closed" /\ Incoming' = Incoming /\ Rest' = Rest
           /\ Serving' => Serving /\ Ahead' = Ahead
           /\ pc' \in {"dispatch", "body", "memory"} => pc \in {"dispatch", "body", "memory"}
  <2>1. InStepOpen'
    BY <1>2, <1>5 DEF InStepOpen, Follower
  <2>2. Rest \in Int /\ Len(Ahead) \in Nat
    BY InStepTypes
  <2>3. ASSUME Serving' PROVE Rest' >= 0 /\ Len(Ahead') <= Rest'
    BY <1>2, <1>5, <2>2, <2>3
  <2>4. QED
    BY <1>3, <2>1, <2>3
<1>6. QED
  BY <1>4, <1>5

LEMMA SendHeaderInStep ==
    ASSUME Conn, InStep, NEW length \in -1..MaxBody, NEW expect \in BOOLEAN,
           SendHeader(length, expect)
    PROVE  InStep'
<1>1. PICK h \in Header :
           /\ Longer(Incoming, Incoming', 2) /\ Ahead' = Ahead
           /\ Incoming'[Len(Incoming) + 1] = Head1(h)
           /\ Incoming'[Len(Incoming) + 2] = Head2(h)
           /\ h.id = client.sent + 1 /\ client.pending = 0
           /\ client'.sent = h.id /\ client'.pending = h.length
           /\ client'.answers = client.answers
           /\ client'.piped = (client.piped \/ client.answers < client.sent)
           /\ UNCHANGED <<pc, req, served, read>>
  BY SendHeaderStep
<1>2. Rest' = Rest /\ (Serving' <=> Serving)
  BY <1>1 DEF Rest, Remaining, Serving
<1>3. SUFFICES ASSUME ~client'.piped
               PROVE  /\ InStepRead'
                      /\ Serving' => Rest' >= 0 /\ Len(Ahead') <= Rest'
                      /\ pc' # "closed" => InStepOpen'
  BY DEF InStep, InStepRead, InStepOpen
<1>4. ~client.piped /\ ~(client.answers < client.sent)
  BY <1>1, <1>3
<1>5. /\ InStepRead
      /\ Serving => Rest >= 0 /\ Len(Ahead) <= Rest
      /\ pc # "closed" => InStepOpen
  BY <1>4, InStepParts
<1>6. InStepRead'
  BY <1>1, <1>5 DEF InStepRead
<1>7. ASSUME pc # "closed" PROVE InStepOpen'
  <2>1. /\ client.sent \in Nat /\ client.answers \in Nat /\ Len(read) \in Nat
        /\ Rest \in Int /\ Len(Incoming) \in Nat
    BY InStepTypes
  <2>2. /\ client.sent = Len(read) /\ client.answers = Len(read)
        /\ pc \notin {"dispatch", "body", "memory"} /\ Len(Incoming) = Rest
    BY <1>1, <1>4, <1>5, <1>7, <2>1 DEF InStepOpen
  <2>3. client'.sent = Len(read) + 1
    BY <1>1, <2>2
  <2>4. Len(Incoming') = Rest + 2
    BY <1>1, <2>2 DEF Longer
  <2>5. Incoming'[Rest + 1].head = h
    BY <1>1, <2>2 DEF Head1, Byte
  <2>6. Incoming'[Rest + 1] = Head1(h) /\ Incoming'[Rest + 2] = Head2(h)
    BY <1>1, <2>2
  <2>7. Len(Incoming') + client'.pending = Rest + 2 + h.length
    BY <1>1, <2>4
  <2>8. Len(Incoming') >= Rest + 2
    BY <2>1, <2>4
  <2>9. Follower(client', Incoming', Rest)
    BY <1>1, <2>5, <2>6, <2>7, <2>8 DEF Follower
  <2>10. QED
    BY <1>1, <1>2, <2>1, <2>2, <2>3, <2>9 DEF InStepOpen
<1>8. QED
  BY <1>1, <1>2, <1>5, <1>6, <1>7

LEMMA SendBodyInStep ==
    ASSUME Conn, InStep, SendBody
    PROVE  InStep'
<1>1. /\ Longer(Incoming, Incoming', 1) /\ Ahead' = Ahead
      /\ client.pending \in Nat \ {0}
      /\ client'.sent = client.sent /\ client'.pending = client.pending - 1
      /\ client'.answers = client.answers /\ client'.piped = client.piped
      /\ UNCHANGED <<pc, req, served, read>>
  BY SendBodyStep
<1>2. Rest' = Rest /\ (Serving' <=> Serving)
  BY <1>1 DEF Rest, Remaining, Serving
<1>3. SUFFICES ASSUME ~client'.piped
               PROVE  /\ InStepRead'
                      /\ Serving' => Rest' >= 0 /\ Len(Ahead') <= Rest'
                      /\ pc' # "closed" => InStepOpen'
  BY DEF InStep, InStepRead, InStepOpen
<1>4. /\ InStepRead
      /\ Serving => Rest >= 0 /\ Len(Ahead) <= Rest
      /\ pc # "closed" => InStepOpen
  BY <1>1, <1>3, InStepParts
<1>5. InStepRead'
  BY <1>1, <1>4 DEF InStepRead
<1>6. ASSUME pc # "closed" PROVE InStepOpen'
  <2>1. Rest \in Nat /\ Len(Incoming) \in Nat /\ Len(Incoming') = Len(Incoming) + 1 /\ 1 \in Nat
    BY <1>1, <1>4, InStepTypes DEF Longer, Rest
  <2>2. CASE Follower(client, Incoming, Rest)
    <3>1. Follower(client', Incoming', Rest)
      BY <1>1, <2>1, <2>2, FollowerLonger
    <3>2. client.sent = Len(read) \/ client.sent = Len(read) + 1
      BY <1>4, <1>6 DEF InStepOpen
    <3>3. CASE client.sent = Len(read) + 1
      BY <1>1, <1>2, <1>4, <1>6, <3>1, <3>3 DEF InStepOpen
    <3>4. CASE client.sent # Len(read) + 1
      BY <1>1, <1>2, <1>4, <1>6, <2>1, <3>4 DEF InStepOpen
    <3>5. QED
      BY <3>3, <3>4
  <2>3. CASE ~Follower(client, Incoming, Rest)
    <3>1. client.sent = Len(read) /\ Len(Incoming) + client.pending = Rest
      BY <1>4, <1>6, <2>3 DEF InStepOpen
    <3>2. Len(Incoming') + client'.pending = Rest
      BY <1>1, <2>1, <3>1
    <3>3. QED
      BY <1>1, <1>2, <1>4, <1>6, <3>1, <3>2 DEF InStepOpen
  <2>4. QED
    BY <2>2, <2>3
<1>7. QED
  BY <1>1, <1>2, <1>4, <1>5, <1>6

\* The header after the body before it is the next one sent, and whole.
LEMMA ReadRequestInStep ==
    ASSUME Conn, InStep, http_read_request
    PROVE  InStep'
<1>1. TypeOK /\ Framed(client, Incoming)
  BY DEF Conn
<1>2. pc = "header" /\ UNCHANGED <<client, served>>
  BY <1>1, Receives
<1>3. PICK buf \in Seq(Cell) :
         /\ wire' \in Seq(Cell) /\ buf \o wire' = Incoming
         /\ \/ (\E i \in DOMAIN buf : buf[i].part = "end") /\ Parsed(buf)
            \/ UNCHANGED read /\ Close
            \/ UNCHANGED <<read, pc>> /\ req' = [buf |-> buf]
  BY <1>1, Receives
<1>4. CASE UNCHANGED read /\ Close
  BY <1>2, <1>4, InStepSame DEF Close, Serving
<1>5. CASE UNCHANGED <<read, pc>> /\ req' = [buf |-> buf]
  <2>1. ~Serving' /\ ~Serving /\ Ahead' = buf
    BY <1>2, <1>5 DEF Serving, Ahead
  <2>2. Incoming' = Incoming /\ Rest' = Rest
    BY <1>3, <2>1 DEF Incoming, Rest
  <2>3. QED
    BY <1>2, <1>5, <2>1, <2>2, InStepSame
<1>6. CASE (\E i \in DOMAIN buf : buf[i].part = "end") /\ Parsed(buf)
  <2>1. PICK e \in 1..Len(buf), h \in Header :
           /\ e = HeaderEnd(buf) /\ h = buf[e].head
           /\ pc' = "dispatch" /\ Serving'
           /\ req'.length = h.length /\ req'.consumed = 0
           /\ Len(Ahead') = Len(buf) - e
           /\ Shorter(Incoming, Incoming', e)
           /\ read' = Append(read, [id |-> h.id, clean |-> buf[1] = Head1(h)])
    BY <1>1, <1>3, <1>6, ParsedStep
  <2>2. SUFFICES ASSUME ~client.piped
                 PROVE  InStepRead' /\ Rest' >= 0 /\ Len(Ahead') <= Rest' /\ InStepOpen'
    BY <1>2 DEF InStep, InStepRead, InStepOpen
  <2>3. InStepRead /\ InStepOpen
    BY <1>2, <2>2, InStepParts
  <2>4. /\ client.sent \in Nat /\ client.pending \in Nat /\ client.answers \in Nat
        /\ Len(read) \in Nat /\ DOMAIN read = 1..Len(read)
        /\ Len(Incoming) \in Nat /\ Len(buf) \in Nat /\ Rest = 0
        /\ Len(wire') \in Nat /\ h.length \in Nat
    BY <1>2, <1>3, InStepTypes, LenProperties DEF Rest, Serving, Header
  <2>5. /\ Len(Incoming) = Len(buf) + Len(wire')
        /\ \A i \in 1..(Len(buf) + Len(wire')) :
              Incoming[i] = IF i <= Len(buf) THEN buf[i] ELSE wire'[i - Len(buf)]
    BY <1>3, ConcatProperties
  <2>6. client.sent = Len(read) + 1 /\ Follower(client, Incoming, 0)
    BY <2>1, <2>3, <2>4, <2>5 DEF InStepOpen
  <2> DEFINE g == Incoming[1].head
  <2>7. /\ Len(Incoming) >= 2 /\ g.id = client.sent
        /\ Incoming[1] = Head1(g) /\ Incoming[2] = Head2(g)
        /\ Len(Incoming) + client.pending = 2 + g.length
    BY <2>6 DEF Follower
  <2> HIDE DEF g
  <2>8. /\ buf[e].part = "end" /\ \A j \in 1..(e - 1) : buf[j].part # "end"
    BY <1>6, <2>1, HeaderEndFound
  <2>9. buf[1] = Incoming[1] /\ (Len(buf) >= 2 => buf[2] = Incoming[2])
    BY <2>1, <2>4, <2>5
  <2>10. buf[1].part = "head"
    BY <2>7, <2>9 DEF Head1, Byte
  <2>11. e \in Nat /\ e >= 2 /\ Len(buf) >= 2
    BY <2>1, <2>4, <2>8, <2>10
  <2>12. buf[2].part = "end"
    BY <2>7, <2>9, <2>11 DEF Head2, Byte
  <2>13. e = 2
    BY <2>8, <2>11, <2>12
  <2>14. h = g /\ buf[1] = Head1(h)
    BY <2>1, <2>7, <2>9, <2>11, <2>13 DEF Head2, Byte
  <2>15. read' = Append(read, [id |-> h.id, clean |-> TRUE])
    BY <2>1, <2>14
  <2>16. /\ Len(read') = Len(read) + 1 /\ DOMAIN read' = 1..(Len(read) + 1)
         /\ \A i \in 1..Len(read) : read'[i] = read[i]
         /\ read'[Len(read) + 1] = [id |-> h.id, clean |-> TRUE]
    <3>1. h.id \in Nat
      BY DEF Header
    <3>2. [id |-> h.id, clean |-> TRUE] \in [id : Nat, clean : BOOLEAN]
      BY <3>1
    <3>3. read \in Seq([id : Nat, clean : BOOLEAN])
      BY <1>1 DEF TypeOK
    <3>4. /\ read' \in Seq([id : Nat, clean : BOOLEAN]) /\ Len(read') = Len(read) + 1
          /\ \A i \in 1..Len(read) : read'[i] = read[i]
          /\ read'[Len(read) + 1] = [id |-> h.id, clean |-> TRUE]
      BY <2>15, <3>2, <3>3, AppendProperties
    <3>5. DOMAIN read' = 1..(Len(read) + 1)
      BY <3>4, LenProperties
    <3>6. QED
      BY <3>4, <3>5
  <2>17. InStepRead'
    <3>1. ASSUME NEW i \in 1..(Len(read) + 1) PROVE read'[i].id = i /\ read'[i].clean
      <4>1. CASE i \in 1..Len(read)
        BY <2>3, <2>4, <2>16, <4>1 DEF InStepRead
      <4>2. CASE i = Len(read) + 1
        BY <2>6, <2>7, <2>14, <2>16, <4>2
      <4>3. QED
        BY <2>4, <4>1, <4>2
    <3>2. QED
      BY <2>16, <3>1 DEF InStepRead
  <2>18. Rest' = h.length
    BY <2>1, <2>4 DEF Rest, Remaining
  <2>19. Len(Incoming') = Len(Incoming) - 2
    BY <2>1, <2>13 DEF Shorter
  <2>20. Len(Ahead') <= Rest'
    BY <2>1, <2>4, <2>5, <2>7, <2>13, <2>14, <2>18
  <2>21. client.answers <= Len(read)
    BY <2>3 DEF InStepOpen
  <2>22. Len(Incoming') + client'.pending = Rest'
    <3>1. client'.pending = client.pending
      BY <1>2
    <3>2. Len(Incoming) + client.pending = 2 + h.length
      BY <2>7, <2>14
    <3>3. \A a, b, c \in Nat : a + b = 2 + c => (a - 2) + b = c
      OBVIOUS
    <3>4. Len(Incoming) \in Nat /\ client.pending \in Nat /\ h.length \in Nat
      BY <2>4
    <3>5. (Len(Incoming) - 2) + client.pending = h.length
      BY <3>2, <3>3, <3>4
    <3>6. QED
      BY <2>18, <2>19, <3>1, <3>5
  <2>23. /\ client'.answers < Len(read') /\ client'.sent = Len(read')
         /\ client'.answers <= Len(read')
    BY <1>2, <2>4, <2>6, <2>16, <2>21
  <2>24. QED
    BY <2>4, <2>17, <2>18, <2>20, <2>22, <2>23 DEF InStepOpen
<1>7. QED
  BY <1>3, <1>4, <1>5, <1>6

LEMMA ReadBodyInStep ==
    ASSUME Conn, InStep, ReadLeftover \/ ReadSocket
    PROVE  InStep'
<1>1. PICK m \in 1..Wanted :
           /\ Shorter(Incoming, Incoming', m)
           /\ req' \in Request /\ req'.consumed = req.consumed + m
           /\ req'.length = req.length
           /\ Len(Ahead') <= Len(Ahead) /\ (Len(Ahead') = Len(Ahead) - m \/ Len(Ahead') = 0)
           /\ Serving /\ Serving' /\ UNCHANGED <<client, pc, served, read>>
  BY TakingStep
<1>2. /\ Wanted \in Nat \ {0} /\ req \in Request /\ MayRead
      /\ req.has_length => Wanted = Remaining
  BY WantedSome DEF ReadLeftover, ReadSocket
<1>3. SUFFICES ASSUME ~client.piped
               PROVE  InStepRead' /\ Rest' >= 0 /\ Len(Ahead') <= Rest' /\ InStepOpen'
  BY <1>1 DEF InStep, InStepRead, InStepOpen, Serving
<1>4. pc \in {"body", "drain"}
  BY <1>2 DEF MayRead, Reading
<1>5. InStepRead /\ Rest >= 0 /\ Len(Ahead) <= Rest /\ InStepOpen
  BY <1>1, <1>3, <1>4, InStepParts
<1>6. /\ client.sent \in Nat /\ client.pending \in Nat /\ Len(read) \in Nat
      /\ Rest \in Nat /\ Len(Incoming) \in Nat /\ Len(Ahead) \in Nat /\ m \in Nat /\ m >= 1
  BY <1>1, <1>2, <1>5, InStepTypes
<1>7. Rest = Remaining /\ Rest' = Rest - m
  <2>1. req.length \in Nat /\ req.consumed \in Nat
    BY <1>2 DEF Request
  <2>2. Rest = req.length - req.consumed /\ Rest' = req.length - (req.consumed + m)
    BY <1>1 DEF Rest, Remaining
  <2>3. QED
    BY <1>1, <1>6, <2>1, <2>2 DEF Rest
<1>8. m <= Len(Incoming) /\ Len(Incoming') = Len(Incoming) - m
  BY <1>1, <1>6 DEF Shorter
<1>9. InStepRead'
  BY <1>1, <1>5 DEF InStepRead
<1>10. CASE client.sent = Len(read) /\ Len(Incoming) + client.pending = Rest
  <2>1. m <= Rest
    BY <1>6, <1>8, <1>10
  <2>2. Rest' >= 0 /\ Len(Ahead') <= Rest'
    BY <1>1, <1>5, <1>6, <1>7, <2>1
  <2>3. Len(Incoming') + client'.pending = Rest'
    BY <1>1, <1>6, <1>7, <1>8, <1>10
  <2>4. InStepOpen'
    BY <1>1, <1>5, <1>10, <2>3 DEF InStepOpen
  <2>5. QED
    BY <1>9, <2>2, <2>4
<1>11. CASE client.sent = Len(read) + 1 /\ Follower(client, Incoming, Rest)
  <2>1. pc = "drain"
    BY <1>4, <1>5, <1>6, <1>11 DEF InStepOpen
  <2>2. req.has_length
    BY <1>2, <2>1 DEF MayRead, AtEnd
  <2>3. m <= Rest
    BY <1>1, <1>2, <1>6, <1>7, <2>2
  <2>4. Rest' >= 0 /\ Len(Ahead') <= Rest'
    BY <1>1, <1>5, <1>6, <1>7, <2>3
  <2>5. client' = client
    BY <1>1
  <2>6. Follower(client', Incoming', Rest - m)
    BY <1>1, <1>6, <1>11, <2>3, <2>5, FollowerShorter
  <2>7. InStepOpen'
    BY <1>1, <1>5, <1>7, <1>11, <2>6 DEF InStepOpen
  <2>8. QED
    BY <1>9, <2>4, <2>7
<1>12. QED
  BY <1>5, <1>10, <1>11 DEF InStepOpen

\* What is kept for the next request is nothing but what is on the wire.
LEMMA KeepInStep ==
    ASSUME Conn, Drained, InStep, KeepConnection
    PROVE  InStep'
<1>1. pc = "keep" /\ Serving /\ UNCHANGED <<client, wire, read>> /\ req \in Request
  BY Views DEF KeepConnection, Serving, Conn
<1>2. CASE Close
  BY <1>1, <1>2, InStepSame DEF Close, Serving
<1>3. CASE pc' = "header" /\ req' = NoRequest
  <2>1. SUFFICES ASSUME ~client.piped PROVE InStep'
    BY <1>1 DEF InStep
  <2>2. /\ Rest >= 0 /\ Len(Ahead) <= Rest /\ Rest \in Int
        /\ Ahead \in Seq(Cell) /\ Len(Ahead) \in Nat
    BY <1>1, <2>1, InStepTypes, InStepParts, Views DEF Conn
  <2>3. req.length \in Nat /\ req.consumed \in Nat /\ req.has_length \in BOOLEAN
    BY <1>1 DEF Request
  <2>4. Rest = req.length - req.consumed
    BY <1>1 DEF Rest, Remaining
  <2>5. Rest = 0
    <3>1. CASE req.has_length
      BY <1>1, <3>1 DEF Drained, Rest
    <3>2. CASE ~req.has_length
      <4>1. req.length = 0
        BY <1>1, <3>2 DEF Drained
      <4>2. QED
        BY <2>2, <2>3, <2>4, <4>1
    <3>3. QED
      BY <3>1, <3>2
  <2>6. Ahead = <<>>
    BY <2>2, <2>5, EmptySeq
  <2>7. ~Serving' /\ Ahead' = <<>>
    BY <1>3 DEF Serving, Ahead, NoRequest
  <2>8. Incoming' = Incoming /\ Rest' = Rest
    BY <1>1, <2>5, <2>6, <2>7 DEF Incoming, Rest
  <2>9. QED
    BY <1>1, <1>3, <2>7, <2>8, InStepSame
<1>4. QED
  BY <1>2, <1>3 DEF KeepConnection

LEMMA RespondInStep ==
    ASSUME Conn, InStep, Respond
    PROVE  InStep'
<1>1. /\ pc = "memory" /\ Serving /\ UNCHANGED <<wire, read>>
      /\ client.answers \in Nat /\ Len(read) \in Nat
  BY InStepTypes DEF Respond, Serving
<1>2. /\ client'.sent = client.sent /\ client'.pending = client.pending
      /\ client'.piped = client.piped /\ client'.answers \in {client.answers, client.answers + 1}
  BY DEF Respond, Conn, TypeOK
<1>3. SUFFICES ASSUME ~client.piped PROVE InStep'
  BY <1>2 DEF InStep
<1>4. InStepRead /\ Rest >= 0 /\ Len(Ahead) <= Rest /\ InStepOpen
  BY <1>1, <1>3, InStepParts
<1>5. InStepRead'
  BY <1>1, <1>4 DEF InStepRead
<1>6. CASE Close
  BY <1>5, <1>6 DEF Close, Serving, InStep, InStepRead
<1>7. CASE pc' = "drain" /\ UNCHANGED req
  <2>1. Incoming' = Incoming /\ Rest' = Rest /\ Ahead' = Ahead
    BY <1>1, <1>7 DEF Incoming, Rest, Remaining, Ahead, Serving
  <2>2. client'.answers <= Len(read')
    BY <1>1, <1>2, <1>4 DEF InStepOpen
  <2>3. InStepOpen'
    BY <1>1, <1>2, <1>4, <1>7, <2>1, <2>2 DEF InStepOpen, Follower
  <2>4. QED
    BY <1>4, <1>5, <2>1, <2>3 DEF InStep, InStepRead, InStepOpen
<1>8. QED
  BY <1>6, <1>7 DEF Respond

LEMMA NextConnectionInStep == NextConnection => InStep'
<1> SUFFICES ASSUME NextConnection PROVE InStep'
  OBVIOUS
<1>1. ~Serving' /\ Incoming' = <<>> \o <<>> /\ Rest' = 0
  BY DEF NextConnection, Serving, NoRequest, Incoming, Ahead, Rest
<1>2. Len(Incoming') = 0
  BY <1>1
<1>3. client'.sent = 0 /\ client'.pending = 0 /\ client'.answers = 0 /\ pc' = "header"
  BY DEF NextConnection, Fresh
<1>4. Len(read') = 0 /\ DOMAIN read' = {}
  BY DEF NextConnection
<1>5. InStepRead' /\ InStepOpen'
  BY <1>1, <1>2, <1>3, <1>4 DEF InStepRead, InStepOpen
<1>6. QED
  BY <1>1, <1>5 DEF InStep, InStepRead, InStepOpen

LEMMA InStepNext ==
    ASSUME Conn, Drained, InStep, [Next]_vars
    PROVE  InStep'
<1>1. CASE HangUp
  <2>1. /\ client'.piped = client.piped /\ client'.answers = client.answers
        /\ client'.sent = client.sent /\ client'.pending = client.pending
        /\ UNCHANGED <<wire, pc, req, read>>
    BY <1>1 DEF HangUp, Conn, TypeOK
  <2>2. /\ Incoming' = Incoming /\ Rest' = Rest /\ Ahead' = Ahead /\ (Serving' <=> Serving)
    BY <2>1 DEF Incoming, Rest, Ahead, Remaining, Serving
  <2>3. CASE pc = "closed"
    BY <2>1, <2>3, InStepSame DEF Serving
  <2>4. QED
    BY <2>1, <2>2, <2>3, InStepSame
<1>2. CASE UseMemory \/ UNCHANGED vars
  <2>1. UNCHANGED <<client, wire, pc, req, read>>
    BY <1>2 DEF UseMemory, connVars, vars
  <2>2. /\ Incoming' = Incoming /\ Rest' = Rest /\ Ahead' = Ahead /\ (Serving' <=> Serving)
    BY <2>1 DEF Incoming, Rest, Ahead, Remaining, Serving
  <2>3. CASE pc = "closed"
    BY <2>1, <2>3, InStepSame DEF Serving
  <2>4. QED
    BY <2>1, <2>2, <2>3, InStepSame
<1>3. CASE HeaderTimeout
  BY <1>3, InStepSame DEF HeaderTimeout, Close, Serving
<1>4. CASE http_server_dispatch \/ SendContinue
  <2>1. Serving /\ req \in Request /\ Serving' /\ UNCHANGED <<client, wire, read>>
    BY <1>4, Views DEF http_server_dispatch, SendContinue, MayRead, Reading, Serving, Conn
  <2>2. req'.length = req.length /\ req'.consumed = req.consumed /\ req'.leftover = req.leftover
    BY <1>4, <2>1 DEF http_server_dispatch, SendContinue, Request
  <2>3. Incoming' = Incoming /\ Rest' = Rest /\ Ahead' = Ahead
    BY <2>1, <2>2 DEF Incoming, Rest, Ahead, Remaining
  <2>4. pc # "closed" /\ (pc = "dispatch" \/ pc' = pc)
    BY <1>4 DEF http_server_dispatch, SendContinue, MayRead, Reading
  <2>5. QED
    BY <2>1, <2>3, <2>4, InStepSame
<1>5. CASE ReadTimeout \/ BodyDone \/ drain_body
  <2>1. Serving /\ UNCHANGED <<client, wire, read>> /\ pc \in {"body", "drain"}
    BY <1>5 DEF ReadTimeout, BodyDone, drain_body, MayRead, Reading, Serving
  <2>2. Close \/ (UNCHANGED req /\ (pc' = "keep" \/ (pc = "body" /\ pc' = "memory")))
    BY <1>5, <2>1 DEF ReadTimeout, BodyDone, drain_body
  <2>3. CASE Close
    BY <2>1, <2>3, InStepSame DEF Close, Serving
  <2>4. CASE UNCHANGED req /\ (pc' = "keep" \/ (pc = "body" /\ pc' = "memory"))
    <3>1. Incoming' = Incoming /\ Rest' = Rest /\ Ahead' = Ahead
      BY <2>1, <2>4 DEF Incoming, Rest, Ahead, Remaining, Serving
    <3>2. QED
      BY <2>1, <2>4, <3>1, InStepSame
  <2>5. QED
    BY <2>2, <2>3, <2>4
<1>6. QED
  BY <1>1, <1>2, <1>3, <1>4, <1>5, SendHeaderInStep, SendBodyInStep, ReadRequestInStep,
     ReadBodyInStep, KeepInStep, RespondInStep, NextConnectionInStep
     DEF Next, Server

LEMMA InitInStep == Init => Drained /\ InStep
<1> SUFFICES ASSUME Init PROVE Drained /\ InStep
  OBVIOUS
<1>1. ~Serving /\ Incoming = <<>> \o <<>> /\ Rest = 0
  BY DEF Init, Serving, NoRequest, Incoming, Ahead, Rest
<1>2. Len(Incoming) = 0 /\ Len(read) = 0 /\ DOMAIN read = {}
  BY <1>1 DEF Init
<1>3. client.sent = 0 /\ client.pending = 0 /\ client.answers = 0 /\ pc = "header"
  BY DEF Init, Fresh
<1>4. InStep
  BY <1>1, <1>2, <1>3 DEF InStep
<1>5. QED
  BY <1>1, <1>4 DEF Drained

(* The inductive invariant: types, the level of the request memory, where  *)
(* every body begins and ends among the bytes to come, and how far client  *)
(* and server can be apart.                                                *)
THEOREM ConnectionInvariant == Spec => []IInv
<1> DEFINE I == Conn /\ MemInv /\ Drained /\ InStep
<1>1. Init => I
  BY InitConn, MemInitInv, InitInStep DEF Init
<1>2. I /\ [Next]_vars => I'
  BY ConnNext, MemNext, DrainedNext, InStepNext
<1>3. I => IInv
  BY DEF Conn, IInv
<1>4. QED
  BY <1>1, <1>2, <1>3, PTL DEF Spec

(* http_server.c:65 "so the next request on a kept-alive connection starts *)
(* on a clean boundary": for a client that waits for its answers, whatever *)
(* handlers read of its bodies, and whatever limits cut the reads.         *)
THEOREM BoundariesClean == Spec => []CleanBoundary
<1>1. IInv => CleanBoundary
  BY DEF IInv, InStep, CleanBoundary
<1>2. QED
  BY <1>1, ConnectionInvariant, PTL
=============================================================================
