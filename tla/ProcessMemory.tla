--------------------------- MODULE ProcessMemory ---------------------------
(***************************************************************************)
(* The memory of a process (core/hle/kernel/process.cpp,                   *)
(* shared_memory.cpp, and the calls of svc.cpp and ipc.cpp that reach      *)
(* them): its address space, the region of FCRAM its frames come from, the *)
(* counters kept beside them, the memory block it created and the buffers  *)
(* mapped into it by IPC.                                                  *)
(*                                                                         *)
(* The process is one whose memory region is BASE, as that of a system     *)
(* module is: its heap, its thread local storage and its memory block then *)
(* compete for the same frames.  A call that returns an error and changes  *)
(* nothing is a step not taken.  An ASSERT that fails stops the emulator:  *)
(* `failed` is set and nothing follows.                                    *)
(***************************************************************************)
EXTENDS VMManager, MemoryRegion, SequencesExt

CONSTANTS RegionSize,          \* MemoryRegionInfo::size, in frames
          ImageBase,           \* PROCESS_IMAGE_VADDR
          IpcBase, IpcSize,    \* IPC_MAPPING_VADDR and IPC_MAPPING_SIZE
          HeapBase, HeapEnd,   \* HEAP_VADDR and HEAP_VADDR_END
          SharedEnd,           \* SHARED_MEMORY_VADDR_END
          OldLinearBase,       \* LINEAR_HEAP_VADDR
          LinearBase,          \* GetLinearHeapAreaAddress()
          TlsBase,             \* TLS_AREA_VADDR
          CommitLimit,         \* the limit of ResourceLimitType::Commit
          SlotsPerPage,        \* entries of thread local storage in a page
          Sizes,               \* sizes the program asks for
          Perms,               \* permissions the program asks for
          MapTargets,          \* where the program maps aliases
          UnmapTargets,        \* what it names in Unmap and UnmapMemoryBlock
          SharedTargets,       \* where it maps its memory block
          AliasSizes,          \* sizes of its aliases
          BlockSizes,          \* sizes of its memory blocks
          BufferSizes,         \* sizes of the buffers of its clients
          MaxBuffers,          \* how many of them there are at a time
          MaxThreads,          \* bound on the entries in use
          MaxUnderflow,        \* bound on how far memory_used falls below zero
          MaxCalls             \* bound on the calls made

Frames == 0 .. RegionSize - 1

\* The areas of a process lie within its address space, and so does what the
\* program names.
ASSUME MemoryAssumption ==
    /\ RegionSize \in Nat \ {0}
    /\ SlotsPerPage \in Nat \ {0}
    /\ MaxBuffers \in Nat
    /\ Sizes \cup AliasSizes \cup BlockSizes \subseteq Nat \ {0}
    /\ BufferSizes \subseteq Nat
    /\ {IpcBase, HeapBase, HeapEnd, SharedEnd, OldLinearBase, LinearBase, TlsBase} \subseteq Nat
    /\ HeapBase > 0
    /\ HeapEnd <= MaxAddress /\ SharedEnd <= MaxAddress
    /\ LinearBase + RegionSize <= MaxAddress
    /\ \A size \in Sizes \cup AliasSizes : HeapEnd + size <= MaxAddress
    /\ MapTargets \cup UnmapTargets \cup SharedTargets \subseteq Addresses

\* Where memory is allocated, and where memory is only mapped once more.
HeapArea == HeapBase .. HeapEnd - 1
LinearArea == PagesOf(LinearBase, RegionSize)
TlsArea == PagesOf(TlsBase, RegionSize)
SecondArea ==
    (UNION {PagesOf(target, size) : target \in MapTargets, size \in AliasSizes})
        \cup (UNION {PagesOf(target, size) : target \in SharedTargets \cup {0}, size \in BlockSizes})
        \cup PagesOf(OldLinearBase, RegionSize)
        \cup PagesOf(IpcBase, IpcSize)

\* The areas of memory.h keep apart (the linear heap is the one of a process
\* made for a later kernel), and the program maps nothing a second time into
\* its heaps.
ASSUME LayoutAssumption ==
    /\ IpcSize \in Nat
    /\ CommitLimit \in Nat
    /\ MaxCalls \in Nat
    /\ \A size \in BufferSizes : size + 2 <= 1000
    /\ HeapArea \cap LinearArea = {}
    /\ TlsArea \cap (HeapArea \cup LinearArea) = {}
    /\ SecondArea \cap (HeapArea \cup LinearArea) = {}

VARIABLES
    space,               \* vm_manager
    free_blocks, used,   \* the MemoryRegionInfo
    holding_memory,      \* frames of heap and linear memory
    holding_tls_memory,  \* frames of thread local storage
    tls_slots,           \* entries in use, for each page
    memory_used,         \* Process::memory_used, a u32, in pages
    commit,              \* current value of ResourceLimitType::Commit
    block,               \* the SharedMemory object, or NoBlock
    buffers,             \* mapped_buffer_context
    failed,              \* an ASSERT has failed
    calls                \* calls made so far

region == <<free_blocks, used>>
tls == <<holding_tls_memory, tls_slots>>
vars == <<space, region, holding_memory, tls, memory_used, commit, block, buffers, failed,
          calls>>

NoBlock == [size |-> 0, base_address |-> 0, backing_blocks |-> <<>>, holding |-> {}, perms |-> {}]

\* memory_used is a u32 that counts bytes.
PagesOfU32 == 1048576
PlusSigned(x, n) == x + n   \* Mutant: it does not wrap.
Plus(x, n) == (x + n) % PagesOfU32

\* MemoryPermission as a set of bits; ConvertPermissions drops DontCare.
DontCare == {"DontCare"}
ConvertPermissions(perms) == perms \ DontCare

Init ==
    /\ space = EmptySpace
    /\ free_blocks = Frames /\ used = 0
    /\ holding_memory = {}
    /\ holding_tls_memory = {} /\ tls_slots = <<>>
    /\ memory_used = 0
    /\ commit = 0
    /\ block = NoBlock
    /\ buffers = {}
    /\ failed = FALSE
    /\ calls = 0

\* ResourceLimit::Reserve and Release for Commit; the callers do not look at
\* what they return.
Reserve(value, amount) == IF value + amount > CommitLimit THEN value ELSE value + amount
Release(value, amount) == IF amount > value THEN value ELSE value - amount

InHeap(target, size) == HeapBase <= target /\ target + size <= HeapEnd

InLinearHeap(target, size) == LinearBase <= target /\ target + size <= LinearBase + RegionSize

\* MemoryRegionInfo::HeapAllocate and LinearAllocate take `frames`.
TakeFrames(frames) ==
    /\ free_blocks' = free_blocks \ frames
    /\ used' = used + Cardinality(frames)

\* MemoryRegionInfo::Free asserts that the frames are allocated ones.
ReturnFrames(frames, size) ==
    /\ free_blocks' = free_blocks \cup frames
    /\ used' = used - size

AreAllocated(frames) == frames \cap free_blocks = {}

-----------------------------------------------------------------------------
(* ControlMemory: heap and linear memory.                                  *)

HeapAllocate(target, size, perms) ==
    /\ InHeap(target, size)
    /\ CanCarveVMA(space.vma_map, target, size)
    /\ HeapFrames(free_blocks, size) # {}
    /\ LET frames == HeapFrames(free_blocks, size)
           mapped == MapBlocks(space, target, Blocks(frames), "Private", perms)
       IN  /\ space' = Space(mapped)
           /\ failed' = ~mapped.ok
           /\ TakeFrames(frames)
           /\ holding_memory' = holding_memory \cup frames
    /\ memory_used' = Plus(memory_used, size)
    /\ commit' = Reserve(commit, size)
    /\ UNCHANGED <<tls, block, buffers>>

FramesOf(blocks) == UNION {PagesOf(blocks[i].memory, blocks[i].size) : i \in DOMAIN blocks}

HeapFree(target, size) ==
    /\ InHeap(target, size)
    /\ HasBackingBlocks(space.vma_map, target, size)
    /\ LET frames == FramesOf(GetBackingBlocksForRange(space.vma_map, target, size))
           unmapped == UnmapRange(space, target, size)
       IN  /\ failed' = ~(AreAllocated(frames) /\ Cardinality(frames) = size /\ unmapped.ok)
           /\ space' = Space(unmapped)
           /\ ReturnFrames(frames, size)
           /\ holding_memory' = holding_memory \ frames
    /\ memory_used' = Plus(memory_used, -size)
    /\ commit' = Release(commit, size)
    /\ UNCHANGED <<tls, block, buffers>>

\* The rest of LinearAllocate, once the frames are chosen.
LinearMap(offset, size, perms) ==
    LET mapped == MapBackingMemory(space, LinearBase + offset, offset, size, "Continuous")
        frames == PagesOf(offset, size)
    IN  /\ failed' = ~mapped.ok
        /\ space' = IF mapped.ok THEN Space(Reprotect(mapped, mapped.at, perms)) ELSE space
        /\ TakeFrames(frames)
        /\ holding_memory' = holding_memory \cup frames
        /\ memory_used' = Plus(memory_used, size)
        /\ commit' = Reserve(commit, size)
        /\ UNCHANGED <<tls, block, buffers>>

LinearAllocate(size, perms) ==
    /\ LinearOffsets(free_blocks, size) # {}
    /\ LinearMap(LinearOffset(free_blocks, size), size, perms)

LinearAllocateAt(target, size, perms) ==
    /\ InLinearHeap(target, size)
    /\ IsFree(free_blocks, target - LinearBase, size)
    /\ LinearMap(target - LinearBase, size, perms)

LinearFree(target, size) ==
    /\ InLinearHeap(target, size)
    /\ UnmapRange(space, target, size).ok
    /\ LET frames == PagesOf(target - LinearBase, size)
       IN  /\ failed' = ~AreAllocated(frames)
           /\ space' = Space(UnmapRange(space, target, size))
           /\ ReturnFrames(frames, size)
           /\ holding_memory' = holding_memory \ frames
    /\ memory_used' = Plus(memory_used, -size)
    /\ commit' = Release(commit, size)
    /\ UNCHANGED <<tls, block, buffers>>

-----------------------------------------------------------------------------
(* ControlMemory, and ldr:ro with `privileged`: mapping a range twice.     *)

Overlap(target, source, size) == PagesOf(target, size) \cap PagesOf(source, size) # {}

\* Only the address space changes.
SpaceBecomes(new_space) ==
    /\ space' = new_space
    /\ UNCHANGED <<region, holding_memory, tls, memory_used, commit, block, buffers>>

\* The state of the source while it is mapped a second time.
SourceState(privileged) == IF privileged THEN "Locked" ELSE "Aliased"

Map(target, source, size, perms, privileged) ==
    LET target_state == IF privileged THEN "AliasCode" ELSE "Alias"
        source_perm == IF privileged THEN {} ELSE ReadWrite
        marked == ChangeMemoryState(space, source, size, "Private", ReadWrite,
                                    SourceState(privileged), source_perm)
        mapped == MapBlocks(marked, target,
                            GetBackingBlocksForRange(marked.vma_map, source, size),
                            target_state, perms)
    IN  /\ privileged \/ InHeap(source, size)
        /\ ~Overlap(target, source, size)
        /\ CanCarveVMA(space.vma_map, target, size)
        /\ marked.ok
        /\ SpaceBecomes(Space(mapped))
        /\ failed' = ~mapped.ok

\* The target is unmapped even when the source is not its other half, and the
\* call then returns an error.
Unmap(target, source, size, perms, privileged) ==
    LET unmapped == UnmapRange(space, target, size)
        restored == ChangeMemoryState(unmapped, source, size, SourceState(privileged), {},
                                      "Private", perms)
    IN  /\ privileged \/ InHeap(source, size)
        /\ ~Overlap(target, source, size)
        /\ unmapped.ok
        /\ SpaceBecomes(Space(restored))
        /\ UNCHANGED failed

Protect(target, size, perms) ==
    /\ target + size <= MaxAddress
    /\ ReprotectRange(space, target, size, perms).ok
    /\ SpaceBecomes(Space(ReprotectRange(space, target, size, perms)))
    /\ UNCHANGED failed

-----------------------------------------------------------------------------
(* Thread local storage.                                                   *)

PagesWithSlot == {i \in DOMAIN tls_slots : tls_slots[i] # 0 .. SlotsPerPage - 1}

FreeSlot(i) == Min((0 .. SlotsPerPage - 1) \ tls_slots[i])

AllocateSlot ==
    /\ PagesWithSlot # {}
    /\ LET page == Min(PagesWithSlot)
       IN  tls_slots' = [tls_slots EXCEPT ![page] = @ \cup {FreeSlot(page)}]
    /\ UNCHANGED <<space, region, holding_memory, holding_tls_memory, memory_used, commit, block,
                   buffers, failed>>

AllocateTlsPage ==
    /\ PagesWithSlot = {}
    /\ LinearOffsets(free_blocks, 1) # {}
    /\ LET offset == LinearOffset(free_blocks, 1)
       IN  /\ TakeFrames({offset})
           /\ holding_tls_memory' = holding_tls_memory \cup {offset}
           /\ space' = Space(MapBackingMemory(space, TlsBase + Len(tls_slots), offset, 1, "Locked"))
    /\ memory_used' = Plus(memory_used, 1)
    /\ tls_slots' = Append(tls_slots, {0})
    /\ UNCHANGED <<holding_memory, commit, block, buffers, failed>>

AllocateThreadLocalStorage == AllocateSlot \/ AllocateTlsPage

\* Thread::Stop gives the entry back; its page stays.
FreeThreadLocalStorage(i, slot) ==
    /\ slot \in tls_slots[i]
    /\ tls_slots' = [tls_slots EXCEPT ![i] = @ \ {slot}]
    /\ UNCHANGED <<space, region, holding_memory, holding_tls_memory, memory_used, commit, block,
                   buffers, failed>>

-----------------------------------------------------------------------------
(* Memory blocks.  The process is the owner and the one that maps them.    *)

\* With address 0 the memory is taken from the region.  The code asserts that
\* there is room; the call of a program that finds none is left out.
CreateBlockInRegion(size, perms) ==
    /\ block = NoBlock
    /\ LinearOffsets(free_blocks, size) # {}
    /\ LET offset == LinearOffset(free_blocks, size)
       IN  /\ TakeFrames(PagesOf(offset, size))
           /\ block' = [size |-> size, base_address |-> 0, perms |-> perms,
                        backing_blocks |-> <<[memory |-> offset, size |-> size]>>,
                        holding |-> PagesOf(offset, size)]
    /\ memory_used' = Plus(memory_used, size)
    /\ UNCHANGED <<space, holding_memory, tls, commit, buffers, failed>>

\* What memory_used stands for: a reference for the bound MaxUnderflow.
MemoryHeld ==
    Cardinality(holding_memory) + Cardinality(holding_tls_memory) + Cardinality(block.holding)

\* With another address it is memory that is already mapped, and is locked.
\* When the range cannot be locked the object is destroyed before it has its
\* base_address, so the destructor takes it for one of the region.
CreateBlockAt(address, size, perms) ==
    /\ block = NoBlock
    /\ address >= ImageBase /\ address + size <= SharedEnd
    /\ LET locked == ChangeMemoryState(space, address, size, "Private", ReadWrite, "Locked",
                                       ConvertPermissions(perms))
       IN  IF locked.ok
           THEN /\ space' = Space(locked)
                /\ block' = [size |-> size, base_address |-> address, perms |-> perms,
                             backing_blocks |->
                                GetBackingBlocksForRange(locked.vma_map, address, size),
                             holding |-> {}]
                /\ UNCHANGED memory_used
           ELSE /\ (MemoryHeld - memory_used + size) % PagesOfU32 <= MaxUnderflow
                /\ memory_used' = Plus(memory_used, -size)
                /\ UNCHANGED <<space, block>>
    /\ UNCHANGED <<region, holding_memory, tls, commit, buffers, failed>>

\* Mutant: the frames of the block are not given back.
DestroyBlockLeaks ==
    /\ block # NoBlock
    /\ space' = IF block.base_address = 0 THEN space
                ELSE Space(ChangeMemoryState(space, block.base_address, block.size, "Locked", {},
                                             "Private", ReadWrite))
    /\ block' = NoBlock
    /\ UNCHANGED <<region, holding_memory, tls, memory_used, commit, buffers, failed>>

\* The last handle to the block is closed.
DestroyBlock ==
    /\ block # NoBlock
    /\ ReturnFrames(block.holding, Cardinality(block.holding))
    /\ failed' = ~AreAllocated(block.holding)
    /\ IF block.base_address # 0
       THEN /\ space' = Space(ChangeMemoryState(space, block.base_address, block.size, "Locked", {},
                                                "Private", ReadWrite))
            /\ UNCHANGED memory_used
       ELSE /\ memory_used' = Plus(memory_used, -block.size)
            /\ UNCHANGED space
    /\ block' = NoBlock
    /\ UNCHANGED <<holding_memory, tls, commit, buffers>>

MapMemoryBlock(address, perms, other_perms) ==
    LET own_block == block.base_address = 0
        target == IF own_block /\ address = 0
                  THEN OldLinearBase + block.backing_blocks[1].memory ELSE address
        mapped == MapBlocks(space, target, block.backing_blocks, "Shared",
                            ConvertPermissions(perms))
    IN  /\ block # NoBlock
        /\ own_block <=> other_perms = DontCare
        /\ perms \subseteq block.perms
        /\ other_perms # DontCare => block.perms \subseteq other_perms
        /\ address # 0 => address >= HeapBase /\ address + block.size < SharedEnd
        /\ CanCarveVMA(space.vma_map, target, block.size)
        /\ SpaceBecomes(Space(mapped))
        /\ failed' = ~mapped.ok

UnmapMemoryBlock(address) ==
    /\ block # NoBlock
    /\ UnmapRange(space, address, block.size).ok
    /\ SpaceBecomes(Space(UnmapRange(space, address, block.size)))
    /\ UNCHANGED failed

-----------------------------------------------------------------------------
(* IPC: a client's buffer is mapped for a request and unmapped by the      *)
(* reply, between two guard pages.                                         *)

\* Host memory of a buffer: far from the frames and from other buffers.
BufferMemory(id) == 1000 * id

MapBuffer(num_pages) ==
    LET id == Min((1 .. MaxBuffers + 1) \ {b.id : b \in buffers})
        size == num_pages + 2
        mapped == MapBackingMemoryToBase(space, IpcBase, IpcSize, BufferMemory(id), size, "Shared")
        low == ChangeMemoryState(mapped, mapped.at, 1, "Shared", ReadWrite, "Reserved", {})
        high == ChangeMemoryState(low, mapped.at + size - 1, 1, "Shared", ReadWrite, "Reserved", {})
    IN  /\ Cardinality(buffers) < MaxBuffers
        /\ IF mapped.ok
           THEN /\ failed' = ~(low.ok /\ high.ok)
                /\ space' = Space(high)
                /\ buffers' = buffers \cup {[id |-> id, at |-> mapped.at + 1, size |-> num_pages]}
           ELSE failed' = TRUE /\ UNCHANGED <<space, buffers>>
        /\ UNCHANGED <<region, holding_memory, tls, memory_used, commit, block>>

UnmapBuffer(buffer) ==
    LET m == space.vma_map
        unmapped == UnmapRange(space, buffer.at - 1, buffer.size + 2)
    IN  /\ failed' = ~(/\ m[FindVMA(m, buffer.at - 1)].state = "Reserved"
                       /\ m[FindVMA(m, buffer.at + buffer.size)].state = "Reserved"
                       /\ unmapped.ok)
        /\ space' = Space(unmapped)
        /\ buffers' = buffers \ {buffer}
        /\ UNCHANGED <<region, holding_memory, tls, memory_used, commit, block>>

-----------------------------------------------------------------------------
\* ~Process: the handles are closed first, when the block no longer finds its
\* owner; FreeAllMemory follows.  Another process begins in its place.
Terminate ==
    LET returned == holding_memory \cup holding_tls_memory \cup block.holding
        runs == Blocks(holding_memory)
        released[n \in 0 .. Len(runs)] ==
            IF n = 0 THEN commit ELSE Release(released[n - 1], runs[n].size)
    IN  /\ free_blocks' = free_blocks \cup returned
        /\ used' = used - Cardinality(holding_memory) - Cardinality(holding_tls_memory)
                        - Cardinality(block.holding)
        /\ failed' = ~(/\ AreAllocated(returned)
                       /\ holding_memory \cap holding_tls_memory = {}
                       /\ block.holding \cap (holding_memory \cup holding_tls_memory) = {})
        /\ commit' = released[Len(runs)]
        /\ space' = EmptySpace
        /\ holding_memory' = {}
        /\ holding_tls_memory' = {} /\ tls_slots' = <<>>
        /\ memory_used' = 0
        /\ block' = NoBlock
        /\ buffers' = {}

HeapNext ==
    \E size \in Sizes, perms \in Perms :
        \/ \E target \in HeapBase .. HeapEnd - 1 : HeapAllocate(target, size, perms)
        \/ LinearAllocate(size, perms)
        \/ \E target \in PagesOf(LinearBase, RegionSize) : LinearAllocateAt(target, size, perms)

FreeNext ==
    \E size \in Sizes :
        \/ \E target \in HeapBase .. HeapEnd - 1 : HeapFree(target, size)
        \/ \E target \in PagesOf(LinearBase, RegionSize) : LinearFree(target, size)

\* ldr:ro always asks for the same permissions.
AliasNext ==
    \E size \in AliasSizes, source \in HeapBase .. HeapEnd - 1 :
        \/ \E target \in MapTargets :
              \/ \E perms \in Perms : Map(target, source, size, perms, FALSE)
              \/ Map(target, source, size, {"R"}, TRUE)
        \/ \E target \in UnmapTargets :
              \/ \E perms \in Perms : Unmap(target, source, size, perms, FALSE)
              \/ Unmap(target, source, size, ReadWrite, TRUE)

ProtectNext ==
    \E target \in HeapBase .. HeapEnd - 1, size \in Sizes, perms \in {{"R"}, ReadWrite} :
        Protect(target, size, perms)

ThreadNext ==
    \/ /\ FoldLeft(LAMBDA n, slots : n + Cardinality(slots), 0, tls_slots) < MaxThreads
       /\ AllocateThreadLocalStorage
    \/ \E i \in DOMAIN tls_slots, slot \in 0 .. SlotsPerPage - 1 : FreeThreadLocalStorage(i, slot)

BlockNext ==
    \/ \E size \in BlockSizes, perms \in Perms :
          \/ CreateBlockInRegion(size, perms)
          \/ \E address \in HeapBase .. HeapEnd - 1 : CreateBlockAt(address, size, perms)
    \/ DestroyBlock
    \/ \E address \in SharedTargets \cup {0}, perms \in Perms, other \in Perms \cup {DontCare} :
          MapMemoryBlock(address, perms, other)
    \/ \E address \in UnmapTargets : UnmapMemoryBlock(address)

BufferNext ==
    \/ \E num_pages \in BufferSizes : MapBuffer(num_pages)
    \/ \E buffer \in buffers : UnmapBuffer(buffer)

Next ==
    /\ ~failed
    /\ calls < MaxCalls /\ calls' = calls + 1
    /\ HeapNext \/ FreeNext \/ AliasNext \/ ProtectNext \/ ThreadNext \/ BlockNext \/ BufferNext \/ Terminate

Spec == Init /\ [][Next]_vars

-----------------------------------------------------------------------------
\* Type invariant; memory_used stays a u32 and the committed memory within its
\* limit.
TypeOK ==
    /\ DOMAIN space.vma_map \subseteq Addresses
    /\ space.page_table \in [Addresses -> Frames \cup {Null} \cup 1000 .. 1000 * (MaxBuffers + 2)]
    /\ free_blocks \subseteq Frames
    /\ used \in 0 .. RegionSize
    /\ holding_memory \subseteq Frames /\ holding_tls_memory \subseteq Frames
    /\ \A i \in DOMAIN tls_slots : tls_slots[i] \subseteq 0 .. SlotsPerPage - 1
    /\ memory_used \in 0 .. PagesOfU32 - 1
    /\ commit \in 0 .. CommitLimit
    /\ failed \in BOOLEAN
    /\ calls \in 0 .. MaxCalls

\* The address space seen page by page.
PageView ==
    LET m == space.vma_map
        AreaOf(p) == CHOOSE b \in DOMAIN m : b <= p /\ p < AreaEnd(m, b)
        View(p, b) == [perm |-> m[b].perm, state |-> m[b].state, backing |-> Backing(m[b], p - b)]
    IN  [p \in Addresses |-> View(p, AreaOf(p))]

\* vm_manager.h:104: the areas follow each other without a gap through the
\* whole address space, no two Free ones are left apart (an allocation must
\* find its range in one of them), and the page table says of every page what
\* its area says.
VMAsExact ==
    LET m == space.vma_map
        view == PageView
    IN  /\ 0 \in DOMAIN m
        /\ \A b \in DOMAIN m :
              /\ m[b].size > 0
              /\ AreaEnd(m, b) \in DOMAIN m \cup {MaxAddress}
              /\ \A n \in DOMAIN m : n > b => n >= AreaEnd(m, b)
              /\ AreaEnd(m, b) \in DOMAIN m /\ m[b].backing = Null
                    => m[AreaEnd(m, b)].backing # Null
        /\ \A p \in Addresses : space.page_table[p] = view[p].backing

\* Memory that is not a second view of other memory.
OwnStates == {"Private", "Aliased", "Continuous", "Locked"}

\* Every frame of the region is free or has one holder, `used` and the
\* committed memory of the resource limit agree with that, and no frame is
\* given out twice: what is mapped as private, continuous or locked memory is
\* held by the process, and by one page only.
FramesExact ==
    LET view == PageView
        own == {p \in Addresses : view[p].state \in OwnStates}
        frame == [p \in own |-> space.page_table[p]]
        holders == <<free_blocks, holding_memory, holding_tls_memory, block.holding>>
    IN  /\ \A f \in Frames : \E i \in DOMAIN holders :
              \A j \in DOMAIN holders : f \in holders[j] <=> j = i
        /\ used = RegionSize - Cardinality(free_blocks)
        /\ CommitLimit >= RegionSize => commit = Cardinality(holding_memory)
        /\ \A p \in own : frame[p] \in holding_memory \cup holding_tls_memory
        /\ IsInjective(frame)

\* memory.cpp:265: "must be allocated blocks", and the ASSERTs that mapping and
\* unmapping succeed.  No call of the process, in whatever order, nor its end
\* fails one of them: only the buffers of its clients can.
OnlyBuffersFail == [][failed' => BufferNext]_vars

\* There is an address in the area of IPC where a buffer of `size` pages fits.
HasRoom(size) == \E base \in IpcBase .. IpcBase + IpcSize - size : CanCarveVMA(space.vma_map, base, size)

\* vm_manager.h:126, of MapBackingMemoryToBase: "Maps part of a ref-counted block
\* of memory at the first free address after the given base."  A buffer that
\* fits between those of other clients is mapped.
RoomIsFound ==
    \A num_pages \in BufferSizes :
        HasRoom(num_pages + 2)
            => MapBackingMemoryToBase(space, IpcBase, IpcSize, 0, num_pages + 2, "Shared").ok

\* The areas, split, merged and carved by every call, implement a plain map from
\* pages to their attributes: each call of process.cpp, shared_memory.cpp and
\* ipc.cpp changes the pages it names and no others.
PageMapSpec == INSTANCE PageMap WITH pages <- PageView
ImplementsPageMap == PageMapSpec!Spec
=============================================================================
