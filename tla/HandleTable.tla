---------------------------- MODULE HandleTable ----------------------------
(***************************************************************************)
(* Kernel::HandleTable (core/hle/kernel/handle_table.{h,cpp}): the table   *)
(* that maps the handles of an emulated process to kernel objects.         *)
(*                                                                         *)
(* A handle is a 32-bit word: bits 31:15 are a slot index (17 bits), bits  *)
(* 14:0 a generation.  It is modelled by the record of the two fields, and *)
(* the widths are constants: GEN_LIMIT stands for 2^15 and SLOT_LIMIT for  *)
(* 2^16, the range of the u16 in which GetSlot returns the slot.           *)
(***************************************************************************)
EXTENDS Integers, Sequences, FiniteSets

CONSTANTS OBJECTS,     \* kernel objects a process may hold handles to
          Null,        \* the empty std::shared_ptr
          MAX_COUNT,   \* HandleTable::MAX_COUNT (4096)
          GEN_LIMIT,   \* 1 << 15
          SLOT_LIMIT   \* 2^16

ASSUME HandleConstants ==
    /\ Null \notin OBJECTS
    /\ MAX_COUNT \in Nat \ {0}
    /\ GEN_LIMIT \in Nat /\ GEN_LIMIT > 1
    /\ SLOT_LIMIT \in Nat /\ MAX_COUNT < SLOT_LIMIT

VARIABLES objects,          \* slot -> object, or Null
          generations,      \* slot -> generation, or next free slot
          next_generation,
          next_free_slot,
          ret               \* outcome of the last call

vars == <<objects, generations, next_generation, next_free_slot, ret>>

Slots == 0 .. MAX_COUNT - 1

Handles == [slot : 0 .. 2 * SLOT_LIMIT - 1, gen : 0 .. GEN_LIMIT - 1]

\* KernelHandle: 0xFFFF8000 and 0xFFFF8001, the all-ones slot index.
CurrentThread == [slot |-> 2 * SLOT_LIMIT - 1, gen |-> 0]
CurrentProcess == [slot |-> 2 * SLOT_LIMIT - 1, gen |-> 1]

\* `handle >> 15` is a 17-bit value returned as u16: bit 31 is lost.
GetSlot(h) == IF h.slot < SLOT_LIMIT THEN h.slot ELSE h.slot - SLOT_LIMIT
GetGeneration(h) == h.gen

IsValid(h) ==
    /\ GetSlot(h) < MAX_COUNT
    /\ objects[GetSlot(h)] # Null
    /\ generations[GetSlot(h)] = GetGeneration(h)

\* The pseudo-handles resolve to the kernel's current thread or process,
\* `cur`, whatever the table holds.
GetGeneric(h, cur) ==
    IF h \in {CurrentThread, CurrentProcess} THEN cur
    ELSE IF IsValid(h) THEN objects[GetSlot(h)] ELSE Null

Outcome(code, h, obj) == [code |-> code, handle |-> h, obj |-> obj]
NoHandle == [slot |-> 0, gen |-> 0]

-----------------------------------------------------------------------------
\* The constructor calls Clear.
Init == /\ objects = [i \in Slots |-> Null]
        /\ generations = [i \in Slots |-> i + 1]
        /\ next_free_slot = 0
        /\ next_generation = 1
        /\ ret = Outcome("Init", NoHandle, Null)

\* Mutants: the counter does not wrap, or wraps one step too early.
NextGenerationNoWrap(g) == g + 1
NextGenerationEarly(g) == IF g + 1 >= GEN_LIMIT - 1 THEN 1 ELSE g + 1

\* The generation counter skips 0 and wraps to 1 at GEN_LIMIT.
NextGeneration(g) == IF g + 1 >= GEN_LIMIT THEN 1 ELSE g + 1

CreateOk(code, obj) ==
    LET slot == next_free_slot
    IN  /\ slot < MAX_COUNT
        /\ next_free_slot' = generations[slot]
        /\ next_generation' = NextGeneration(next_generation)
        /\ generations' = [generations EXCEPT ![slot] = next_generation]
        /\ objects' = [objects EXCEPT ![slot] = obj]
        /\ ret' = Outcome(code, [slot |-> slot, gen |-> next_generation], obj)

Fail(code) ==
    /\ ret' = Outcome(code, NoHandle, Null)
    /\ UNCHANGED <<objects, generations, next_generation, next_free_slot>>

\* Mutant: the last slot is never used.
CreateFullEarly == next_free_slot >= MAX_COUNT - 1 /\ Fail("OutOfHandles")

CreateFull == next_free_slot >= MAX_COUNT /\ Fail("OutOfHandles")

Create(obj) == CreateOk("Created", obj) \/ CreateFull

Duplicate(h, cur) ==
    \/ /\ GetGeneric(h, cur) # Null
       /\ CreateOk("Duplicated", GetGeneric(h, cur)) \/ CreateFull
    \/ /\ GetGeneric(h, cur) = Null
       /\ Fail("InvalidHandle")

Close(h) ==
    \/ /\ IsValid(h)
       /\ objects' = [objects EXCEPT ![GetSlot(h)] = Null]
       /\ generations' = [generations EXCEPT ![GetSlot(h)] = next_free_slot]
       /\ next_free_slot' = GetSlot(h)
       /\ ret' = Outcome("Closed", h, objects[GetSlot(h)])
       /\ UNCHANGED next_generation
    \/ /\ ~IsValid(h)
       /\ Fail("InvalidHandle")

\* Mutant: the free list is rebuilt and its head left where it was.
ClearKeepsHead ==
    /\ objects' = [i \in Slots |-> Null]
    /\ generations' = [i \in Slots |-> i + 1]
    /\ ret' = Outcome("Cleared", NoHandle, Null)
    /\ UNCHANGED <<next_free_slot, next_generation>>

Clear ==
    /\ objects' = [i \in Slots |-> Null]
    /\ generations' = [i \in Slots |-> i + 1]
    /\ next_free_slot' = 0
    /\ ret' = Outcome("Cleared", NoHandle, Null)
    /\ UNCHANGED next_generation

Next ==
    \/ \E obj \in OBJECTS : Create(obj)
    \/ \E h \in Handles, cur \in OBJECTS : Duplicate(h, cur)
    \/ \E h \in Handles : Close(h)
    \/ Clear

Spec == Init /\ [][Next]_vars

-----------------------------------------------------------------------------
TypeOK ==
    /\ objects \in [Slots -> OBJECTS \cup {Null}]
    /\ generations \in [Slots -> Nat]
    /\ next_generation \in 1 .. GEN_LIMIT - 1
    /\ next_free_slot \in 0 .. MAX_COUNT

FreeSlots == {i \in Slots : objects[i] = Null}

\* s lists the free slots in the order Create will use them: each once, each
\* slot's `generations` entry naming the next, MAX_COUNT ending the list.
IsFreeList(n, s) ==
    /\ \A i, j \in 1 .. n : s[i] = s[j] => i = j
    /\ \A f \in FreeSlots : \E i \in 1 .. n : s[i] = f
    /\ next_free_slot = IF n = 0 THEN MAX_COUNT ELSE s[1]
    /\ \A i \in 1 .. n :
          generations[s[i]] = IF i = n THEN MAX_COUNT ELSE s[i + 1]

(***************************************************************************)
(* The free list threaded through `generations` by Create, Close and Clear *)
(* visits every slot without an object exactly once and ends: no slot is   *)
(* lost, none is handed out while it is in use, and Create reports         *)
(* OutOfHandles only when all MAX_COUNT slots hold objects.                *)
(***************************************************************************)
FreeListOK ==
    \E n \in 0 .. MAX_COUNT : \E s \in [1 .. n -> FreeSlots] : IsFreeList(n, s)

\* The handles the table accepts and could have issued itself (bit 31 clear).
LiveHandles == {h \in Handles : h.slot < SLOT_LIMIT /\ IsValid(h)}

\* What the table promises: a finite map from handles to objects.
Map == INSTANCE HandleMap
         WITH HANDLES <- {h \in Handles : h.slot < MAX_COUNT /\ h.gen > 0},
              CAPACITY <- MAX_COUNT,
              live <- [h \in LiveHandles |-> objects[h.slot]]

(***************************************************************************)
(* The table implements the handle map of HandleMap: Create adds one       *)
(* handle no live handle equals and fails only at capacity, Close removes  *)
(* exactly one handle, Clear all of them, and no other call changes which  *)
(* handle denotes which object.                                            *)
(***************************************************************************)
ImplementsHandleMap == Map!Spec

=============================================================================
