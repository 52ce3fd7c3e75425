---------------------------- MODULE MemoryRegion ----------------------------
(***************************************************************************)
(* Kernel::MemoryRegionInfo (core/hle/kernel/memory.{h,cpp}): the free     *)
(* page frames of a region of FCRAM.                                       *)
(*                                                                         *)
(* `free_blocks` is a boost::icl::interval_set, which joins intervals that *)
(* touch, so that it is determined by the set of its frames: that set is   *)
(* the model, and the intervals are its runs.                              *)
(***************************************************************************)
EXTENDS Integers, Sequences, FiniteSets, FiniteSetsExt

\* HeapAllocate takes blocks from the upper end until it has enough, and the
\* upper part of the last one: the `size` highest free frames.
HeapFrames(free_blocks, size) ==
    IF Cardinality(free_blocks) < size THEN {}
    ELSE {f \in free_blocks : Cardinality({g \in free_blocks : g > f}) < size}

\* Mutant: only the first frame is looked at.
IsFreeAtStart(free_blocks, offset, size) == offset \in free_blocks

\* The frames from `offset` on are free.
IsFree(free_blocks, offset, size) == offset .. offset + size - 1 \subseteq free_blocks

\* LinearAllocate(size): the first block that is long enough.
LinearOffsets(free_blocks, size) == {f \in free_blocks : IsFree(free_blocks, f, size)}
LinearOffset(free_blocks, size) == Min(LinearOffsets(free_blocks, size))

\* The frames that follow the frame f without a gap.
RunFrom(frames, f) == {g \in frames : g >= f /\ f .. g \subseteq frames}

\* Takes the first interval of what is left.
NextInterval(s) ==
    IF s.left = {} THEN s
    ELSE LET lower == Min(s.left)
             run == RunFrom(s.left, lower)
         IN  [left |-> s.left \ run,
              blocks |-> Append(s.blocks, [memory |-> lower, size |-> Cardinality(run)])]

\* The intervals of a set of frames, in ascending order.
Blocks(frames) ==
    LET taken[n \in 0 .. Cardinality(frames)] ==
            IF n = 0 THEN [left |-> frames, blocks |-> <<>>] ELSE NextInterval(taken[n - 1])
    IN  taken[Cardinality(frames)].blocks
=============================================================================
