--------------------------- MODULE RequestMemory ---------------------------
(***************************************************************************)
(* core/request.c: one region, a level that rises with every allocation    *)
(* and falls by trim, rewind and release.  blocks is what handlers hold,   *)
(* as request.h lets them: a rewind ends every block taken since its mark, *)
(* a trim keeps the first bytes of the block that took the rest.           *)
(***************************************************************************)
EXTENDS Integers, Sequences, SequencesExt

CONSTANTS
    MemorySize,   \* REQUEST_MEMORY_SIZE, a multiple of Align
    Align,        \* 16 in the code
    MaxBlocks     \* bound: blocks a handler holds

ASSUME RequestMemoryAssumption ==
    /\ Align \in Nat \ {0}
    /\ MemorySize \in Nat /\ MemorySize % Align = 0
    /\ MaxBlocks \in Nat

VARIABLES
    mem_used,
    blocks,      \* history: [start, size, rest] in the order taken
    mark         \* a level request_mark returned and the blocks then held

memVars == <<mem_used, blocks, mark>>
NoMark == [level |-> -1, held |-> 0]

MemInit == mem_used = 0 /\ blocks = <<>> /\ mark = NoMark

Aligned(n) == ((n + Align - 1) \div Align) * Align
Taken(start, size, rest) ==
    blocks' = Append(blocks, [start |-> start, size |-> size, rest |-> rest])

(* Bug: the size is compared with the whole region.                        *)
request_alloc_unchecked(size) ==
    /\ Len(blocks) < MaxBlocks
    /\ LET start == Aligned(mem_used) IN
       /\ size <= MemorySize
       /\ mem_used' = start + size
       /\ Taken(start, size, FALSE)
    /\ UNCHANGED mark

(* The NULL result changes nothing: the handler gives up.                  *)
request_alloc(size) ==
    /\ Len(blocks) < MaxBlocks
    /\ LET start == Aligned(mem_used) IN
       /\ start <= MemorySize /\ size <= MemorySize - start
       /\ mem_used' = start + size
       /\ Taken(start, size, FALSE)
    /\ UNCHANGED mark

request_alloc_rest ==
    /\ Len(blocks) < MaxBlocks
    /\ LET start == Aligned(mem_used) IN Taken(start, MemorySize - start, TRUE)
    /\ mem_used' = MemorySize
    /\ UNCHANGED mark

(* "Allocate nothing else in between": the last block took the rest.       *)
request_trim(used) ==
    /\ blocks # <<>> /\ Last(blocks).rest
    /\ used <= Last(blocks).size
    /\ LET level == Last(blocks).start + used IN
       mem_used' = IF level < mem_used THEN level ELSE mem_used
    /\ blocks' = [blocks EXCEPT ![Len(blocks)] = [@ EXCEPT !.size = used, !.rest = FALSE]]
    /\ UNCHANGED mark

request_mark ==
    /\ mark = NoMark
    /\ mark' = [level |-> mem_used, held |-> Len(blocks)]
    /\ UNCHANGED <<mem_used, blocks>>

request_rewind ==
    /\ mark # NoMark
    /\ mem_used' = IF mark.level < mem_used THEN mark.level ELSE mem_used
    /\ blocks' = SubSeq(blocks, 1, mark.held)
    /\ mark' = NoMark

request_release == mem_used' = 0 /\ blocks' = <<>> /\ mark' = NoMark

(* No two buffers a handler holds overlap, whatever it allocated, trimmed  *)
(* and rewound before, and none reaches past the region.                   *)
BlocksDisjoint ==
    /\ \A i, j \in DOMAIN blocks :
          i < j => blocks[i].start + blocks[i].size <= blocks[j].start
    /\ \A i \in DOMAIN blocks : blocks[i].start + blocks[i].size <= mem_used
    /\ mem_used <= MemorySize

(* The inductive invariant: a mark is above the blocks it was set after,   *)
(* which may have been trimmed since but not dropped.                      *)
Block == [start : Nat, size : Nat, rest : BOOLEAN]
MemTypes ==
    /\ mem_used \in Nat
    /\ blocks \in Seq(Block)
    /\ mark \in [level : Nat, held : Nat] \cup {NoMark}
MarkAbove ==
    mark # NoMark =>
        /\ mark.held <= Len(blocks)
        /\ \A i \in 1..mark.held : blocks[i].start + blocks[i].size <= mark.level
MemInv == MemTypes /\ BlocksDisjoint /\ MarkAbove
=============================================================================
