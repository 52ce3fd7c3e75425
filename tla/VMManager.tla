----------------------------- MODULE VMManager -----------------------------
(***************************************************************************)
(* Kernel::VMManager (core/hle/kernel/vm_manager.{h,cpp}): the areas of a  *)
(* process' address space, and the page table that follows them.           *)
(*                                                                         *)
(* Addresses and sizes are counted in pages.  An address space is a record *)
(* of `vma_map`, a function from the base of each area to the area, and    *)
(* `page_table`, a function from pages to what backs them.  An area is     *)
(* Free exactly when nothing backs it, so VMAType is not kept separately.  *)
(* The operations are pure: they take an address space and give back the   *)
(* new one, with `ok` for the result code and `at` for the iterator.       *)
(***************************************************************************)
EXTENDS Integers, Sequences, FiniteSets, FiniteSetsExt

CONSTANTS MaxAddress,  \* VMManager::MAX_ADDRESS
          Null         \* no backing memory

ASSUME SpaceAssumption == MaxAddress \in Nat \ {0} /\ Null \notin Int

Addresses == 0 .. MaxAddress - 1

ReadWrite == {"R", "W"}

\* The pages of `size` pages from `base` on.
PagesOf(base, size) == base .. base + size - 1

\* What UnmapRange resets an area to.
FreeAttributes == [perm |-> {}, state |-> "Free", backing |-> Null]

\* The area with some of its fields written.
With(vma, attributes) ==
    [f \in DOMAIN vma |-> IF f \in DOMAIN attributes THEN attributes[f] ELSE vma[f]]

FreeArea(size) == [size |-> size, perm |-> {}, state |-> "Free", backing |-> Null]

EmptySpace ==
    [vma_map |-> [b \in {0} |-> FreeArea(MaxAddress)],
     page_table |-> [p \in Addresses |-> Null]]

\* What backs the page `offset` pages into an area.
Backing(vma, offset) == IF vma.backing = Null THEN Null ELSE vma.backing + offset

FindVMA(m, target) == Max({b \in DOMAIN m : b <= target})

AreaEnd(m, b) == b + m[b].size

\* The areas that begin before `end`, from the one that holds `target` on.
AreasIn(m, target, end) == {b \in DOMAIN m : b >= FindVMA(m, target) /\ b < end}

CanBeMergedWith(m, b, n) ==
    /\ m[b].perm = m[n].perm
    /\ m[b].state = m[n].state
    /\ Backing(m[b], m[b].size) = m[n].backing

\* The area b takes over the one that follows it.
Join(m, b) ==
    LET n == AreaEnd(m, b) IN
    [x \in DOMAIN m \ {n} |-> IF x = b THEN [m[b] EXCEPT !.size = @ + m[n].size] ELSE m[x]]

MergeNext(m, b) ==
    IF AreaEnd(m, b) \in DOMAIN m /\ CanBeMergedWith(m, b, AreaEnd(m, b)) THEN Join(m, b) ELSE m

\* Mutant: only the area that follows is tried.
MergeNextOnly(m, b) == [vma_map |-> MergeNext(m, b), at |-> b]

MergeAdjacent(m, b) ==
    LET m1 == MergeNext(m, b)
        before == {x \in DOMAIN m1 : x < b}
    IN  IF before # {} /\ CanBeMergedWith(m1, Max(before), b)
        THEN [vma_map |-> Join(m1, Max(before)), at |-> Max(before)]
        ELSE [vma_map |-> m1, at |-> b]

SplitVMA(m, b, offset) ==
    [x \in DOMAIN m \cup {b + offset} |->
       CASE x = b -> [m[b] EXCEPT !.size = offset]
         [] x = b + offset -> [m[b] EXCEPT !.size = @ - offset, !.backing = Backing(m[b], offset)]
         [] OTHER -> m[x]]

SplitIf(m, b, offset) == IF offset \in {0, m[b].size} THEN m ELSE SplitVMA(m, b, offset)

UpdatePageTableForVMA(page_table, b, vma) ==
    [p \in Addresses |-> IF p \in PagesOf(b, vma.size) THEN Backing(vma, p - b) ELSE page_table[p]]

\* The end of every operation: the area at b gets its new attributes, its
\* pages are updated, and it is merged with its neighbours.
Replace(space, b, vma) ==
    LET merged == MergeAdjacent([space.vma_map EXCEPT ![b] = vma], b) IN
    [ok |-> TRUE, at |-> merged.at, vma_map |-> merged.vma_map,
     page_table |-> UpdatePageTableForVMA(space.page_table, b, vma)]

Failure(space) ==
    [ok |-> FALSE, at |-> 0, vma_map |-> space.vma_map, page_table |-> space.page_table]

Space(result) == [vma_map |-> result.vma_map, page_table |-> result.page_table]

-----------------------------------------------------------------------------
\* CarveVMA: one Free area must hold the whole range.
CanCarveVMA(m, base, size) ==
    /\ base < MaxAddress
    /\ m[FindVMA(m, base)].backing = Null
    /\ base + size <= AreaEnd(m, FindVMA(m, base))

CarveVMA(m, base, size) ==
    LET vma == FindVMA(m, base) IN
    SplitIf(SplitIf(m, vma, base + size - vma), vma, base - vma)

\* CarveVMARange: no area of the range may be Free.
CanCarveVMARange(m, target, size) ==
    \A b \in AreasIn(m, target, target + size) : m[b].backing # Null

CarveVMARange(m, target, size) ==
    LET first == FindVMA(m, target)
        m1 == SplitIf(m, first, target - first)
        end == target + size
    IN  IF end >= MaxAddress THEN m1
        ELSE SplitIf(m1, FindVMA(m1, end), end - FindVMA(m1, end))

\* One round of the loop over a carved range: the area gets its new attributes
\* and is merged; the next one follows what it was merged into.
VisitVMA(s, end, attributes) ==
    IF s.at \notin DOMAIN s.vma_map \/ s.at >= end THEN s
    ELSE LET done == Replace(s, s.at, With(s.vma_map[s.at], attributes))
         IN  [done EXCEPT !.at = AreaEnd(done.vma_map, done.at)]

\* There are at most as many rounds as pages.
ForEachVMA(space, target, size, attributes) ==
    LET carved == [ok |-> TRUE, at |-> target,
                   vma_map |-> CarveVMARange(space.vma_map, target, size),
                   page_table |-> space.page_table]
        visited[n \in 0 .. size] ==
            IF n = 0 THEN carved ELSE VisitVMA(visited[n - 1], target + size, attributes)
    IN  visited[size]

MapBackingMemory(space, target, memory, size, state) ==
    IF CanCarveVMA(space.vma_map, target, size)
    THEN Replace([space EXCEPT !.vma_map = CarveVMA(@, target, size)], target,
                 [size |-> size, perm |-> ReadWrite, state |-> state, backing |-> memory])
    ELSE Failure(space)

\* The first Free area that ends far enough behind `base`; whether it begins
\* early enough is left to MapBackingMemory.
MapBackingMemoryToBase(space, base, region_size, memory, size, state) ==
    LET m == space.vma_map
        candidates == {b \in DOMAIN m : /\ m[b].backing = Null
                                        /\ AreaEnd(m, b) > base
                                        /\ AreaEnd(m, b) >= base + size}
        target == Max({base, Min(candidates)})
    IN  IF candidates = {} \/ target + size > base + region_size THEN Failure(space)
        ELSE [MapBackingMemory(space, target, memory, size, state) EXCEPT !.at = target]

\* Mutant: only the first area of the range is looked at.
ChangeMemoryStateUnchecked(space, target, size, expected_state, expected_perms, new_state, new_perms) ==
    LET m == space.vma_map
    IN  IF /\ m[FindVMA(m, target)].state = expected_state
           /\ CanCarveVMARange(m, target, size)
        THEN ForEachVMA(space, target, size, [perm |-> new_perms, state |-> new_state])
        ELSE Failure(space)

ChangeMemoryState(space, target, size, expected_state, expected_perms, new_state, new_perms) ==
    LET m == space.vma_map
        areas == AreasIn(m, target, target + size)
    IN  IF /\ \A b \in areas : m[b].state = expected_state /\ expected_perms \subseteq m[b].perm
           /\ CanCarveVMARange(m, target, size)
        THEN ForEachVMA(space, target, size, [perm |-> new_perms, state |-> new_state])
        ELSE Failure(space)

UnmapRange(space, target, size) ==
    IF CanCarveVMARange(space.vma_map, target, size)
    THEN ForEachVMA(space, target, size, FreeAttributes)
    ELSE Failure(space)

Reprotect(space, b, new_perms) == Replace(space, b, [space.vma_map[b] EXCEPT !.perm = new_perms])

ReprotectRange(space, target, size, new_perms) ==
    IF CanCarveVMARange(space.vma_map, target, size)
    THEN ForEachVMA(space, target, size, [perm |-> new_perms])
    ELSE Failure(space)

\* GetBackingBlocksForRange: the blocks behind a range, in ascending order,
\* one for each area; it fails when part of the range is Free.
HasBackingBlocks(m, target, size) == CanCarveVMARange(m, target, size)

\* One round of its loop, at interval_target s.at.
AddBlock(s, m, end) ==
    IF s.at >= end THEN s
    ELSE LET vma == FindVMA(m, s.at)
             interval_end == Min({end, AreaEnd(m, vma)})
         IN  [at |-> interval_end,
              blocks |-> Append(s.blocks, [memory |-> Backing(m[vma], s.at - vma),
                                           size |-> interval_end - s.at])]

GetBackingBlocksForRange(m, target, size) ==
    LET added[n \in 0 .. size] ==
            IF n = 0 THEN [at |-> target, blocks |-> <<>>]
            ELSE AddBlock(added[n - 1], m, target + size)
    IN  added[size].blocks

\* The loop of Process::HeapAllocate, Process::Map and SharedMemory::Map: the
\* blocks are mapped one behind the other from `target` on, and each is given
\* its permissions through the iterator that MapBackingMemory returned, that
\* is, after it was merged.
MapBlock(s, block, state, perms) ==
    LET mapped == MapBackingMemory(s, s.at, block.memory, block.size, state)
        done == IF mapped.ok THEN Reprotect(mapped, mapped.at, perms) ELSE mapped
    IN  [done EXCEPT !.ok = s.ok /\ mapped.ok, !.at = s.at + block.size]

MapBlocks(space, target, blocks, state, perms) ==
    LET mapped[n \in 0 .. Len(blocks)] ==
            IF n = 0 THEN [Failure(space) EXCEPT !.ok = TRUE, !.at = target]
            ELSE MapBlock(mapped[n - 1], blocks[n], state, perms)
    IN  mapped[Len(blocks)]
=============================================================================
