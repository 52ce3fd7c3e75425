-------------------------- MODULE HandleTableProofs --------------------------
(***************************************************************************)
(* The handle table's types, its free list, the handle map it implements   *)
(* and the rejection of stale handles, for every table size and every      *)
(* width of the handle's fields.                                           *)
(***************************************************************************)
EXTENDS MCHandleTable, SequenceTheorems, FiniteSetTheorems, TLAPS

Inv == TypeOK /\ FreeListOK

(***************************************************************************)
(* A free list of n distinct slots leaves room for one more when some slot *)
(* is not on it: the bound on n that Close needs.                          *)
(***************************************************************************)
LEMMA RoomForOneMore ==
    ASSUME NEW n \in 0 .. MAX_COUNT, NEW s \in [1 .. n -> FreeSlots],
           \A i, j \in 1 .. n : s[i] = s[j] => i = j,
           NEW c \in Slots, c \notin FreeSlots
    PROVE  n + 1 \in 0 .. MAX_COUNT
<1> USE HandleConstants
<1>1. IsFiniteSet(1 .. n) /\ Cardinality(1 .. n) = n
  BY FS_Interval
<1>2. IsFiniteSet(Slots) /\ Cardinality(Slots) = MAX_COUNT
  BY FS_Interval DEF Slots
<1>3. IsFiniteSet(Slots \ {c}) /\ Cardinality(Slots \ {c}) = MAX_COUNT - 1
  BY <1>2, FS_RemoveElement
<1>4. s \in [1 .. n -> Slots \ {c}]
  BY DEF FreeSlots
<1>5. ~(MAX_COUNT - 1 < n)
  BY <1>1, <1>3, <1>4, FS_PigeonHole
<1> QED
  BY <1>5

\* The constructor's and Clear's table: all slots free, in index order.
LEMMA ClearedFreeList ==
    ASSUME objects = [i \in Slots |-> Null],
           generations = [i \in Slots |-> i + 1],
           next_free_slot = 0
    PROVE  FreeListOK
<1> USE HandleConstants
<1> DEFINE s == [i \in 1 .. MAX_COUNT |-> i - 1]
<1>1. FreeSlots = Slots
  BY DEF FreeSlots
<1>2. s \in [1 .. MAX_COUNT -> FreeSlots]
  BY <1>1 DEF Slots
<1>3. IsFreeList(MAX_COUNT, s)
  BY <1>1 DEF IsFreeList, Slots
<1> QED
  BY <1>2, <1>3 DEF FreeListOK

\* The constructor establishes the invariant.
LEMMA InitInv == Init => Inv
<1> SUFFICES ASSUME Init PROVE Inv
  OBVIOUS
<1> USE HandleConstants
<1>1. TypeOK
  BY DEF Init, TypeOK, Slots
<1>2. FreeListOK
  BY ClearedFreeList DEF Init
<1> QED
  BY <1>1, <1>2 DEF Inv

\* Create pops the head of the free list.
LEMMA CreateInv ==
    ASSUME Inv, NEW code, NEW obj \in OBJECTS, CreateOk(code, obj)
    PROVE  Inv'
<1> USE HandleConstants
<1> DEFINE slot == next_free_slot
<1>1. PICK n \in 0 .. MAX_COUNT : \E s \in [1 .. n -> FreeSlots] : IsFreeList(n, s)
  BY DEF Inv, FreeListOK
<1>2. PICK s \in [1 .. n -> FreeSlots] : IsFreeList(n, s)
  BY <1>1
<1>3. n > 0 /\ slot = s[1] /\ slot \in Slots /\ slot \in FreeSlots
  BY <1>2 DEF IsFreeList, CreateOk, FreeSlots
<1>4. FreeSlots' = FreeSlots \ {slot}
  BY <1>3 DEF Inv, TypeOK, CreateOk, FreeSlots
<1> DEFINE t == [i \in 1 .. n - 1 |-> s[i + 1]]
<1>5. t \in [1 .. n - 1 -> FreeSlots']
  <2> SUFFICES ASSUME NEW i \in 1 .. n - 1 PROVE s[i + 1] \in FreeSlots \ {slot}
    BY <1>4
  <2>1. i + 1 \in 1 .. n /\ 1 \in 1 .. n /\ i + 1 # 1
    BY <1>3
  <2> QED
    BY <2>1, <1>2, <1>3 DEF IsFreeList
<1>6. IsFreeList(n - 1, t)'
  <2>1. \A i, j \in 1 .. n - 1 : t[i] = t[j] => i = j
    BY <1>2 DEF IsFreeList
  <2>2. \A f \in FreeSlots' : \E i \in 1 .. n - 1 : t[i] = f
    <3> SUFFICES ASSUME NEW f \in FreeSlots, f # slot
                 PROVE  \E i \in 1 .. n - 1 : t[i] = f
      BY <1>4
    <3>1. PICK k \in 1 .. n : s[k] = f
      BY <1>2 DEF IsFreeList
    <3>2. k - 1 \in 1 .. n - 1 /\ t[k - 1] = f
      BY <3>1, <1>3
    <3> QED
      BY <3>2
  <2>3. next_free_slot' = IF n - 1 = 0 THEN MAX_COUNT ELSE t[1]
    BY <1>2, <1>3 DEF IsFreeList, CreateOk
  <2>4. \A i \in 1 .. n - 1 :
           generations'[t[i]] = IF i = n - 1 THEN MAX_COUNT ELSE t[i + 1]
    <3> SUFFICES ASSUME NEW i \in 1 .. n - 1
                 PROVE  generations'[t[i]] = IF i = n - 1 THEN MAX_COUNT ELSE t[i + 1]
      OBVIOUS
    <3>1. s[i + 1] # slot /\ s[i + 1] \in Slots
      BY <1>5, <1>4 DEF FreeSlots
    <3>2. generations'[s[i + 1]] = generations[s[i + 1]]
      BY <3>1, <1>3 DEF CreateOk, Inv, TypeOK
    <3>3. generations[s[i + 1]] = IF i + 1 = n THEN MAX_COUNT ELSE s[i + 2]
      BY <1>2 DEF IsFreeList
    <3> QED
      BY <3>2, <3>3
  <2> QED
    BY <2>1, <2>2, <2>3, <2>4 DEF IsFreeList
<1>7. FreeListOK'
  <2>1. n - 1 \in 0 .. MAX_COUNT
    BY <1>3
  <2> QED
    BY <2>1, <1>5, <1>6 DEF FreeListOK
<1>8. generations[slot] \in 0 .. MAX_COUNT
  <2>1. 1 \in 1 .. n /\ (n # 1 => 2 \in 1 .. n /\ s[2] \in Slots)
    BY <1>3 DEF FreeSlots
  <2>2. generations[slot] = IF n = 1 THEN MAX_COUNT ELSE s[2]
    BY <1>2, <1>3, <2>1 DEF IsFreeList
  <2> QED
    BY <2>1, <2>2 DEF Slots
<1>9. TypeOK'
  BY <1>3, <1>8 DEF Inv, TypeOK, CreateOk, NextGeneration
<1> QED
  BY <1>7, <1>9 DEF Inv

\* Close pushes the slot of a valid handle in front of the free list.
LEMMA CloseInv ==
    ASSUME Inv, NEW h \in Handles, Close(h), IsValid(h)
    PROVE  Inv'
<1> USE HandleConstants
<1> DEFINE slot == GetSlot(h)
<1>1. PICK n \in 0 .. MAX_COUNT : \E s \in [1 .. n -> FreeSlots] : IsFreeList(n, s)
  BY DEF Inv, FreeListOK
<1>2. PICK s \in [1 .. n -> FreeSlots] : IsFreeList(n, s)
  BY <1>1
<1>3. slot \in Slots /\ slot \notin FreeSlots
  BY DEF IsValid, FreeSlots, Slots, GetSlot, Handles
<1>4. /\ objects' = [objects EXCEPT ![slot] = Null]
      /\ generations' = [generations EXCEPT ![slot] = next_free_slot]
      /\ next_free_slot' = slot
      /\ next_generation' = next_generation
  BY DEF Close
<1>5. FreeSlots' = FreeSlots \cup {slot}
  BY <1>3, <1>4 DEF Inv, TypeOK, FreeSlots
<1>6. n + 1 \in 0 .. MAX_COUNT
  BY <1>2, <1>3, RoomForOneMore DEF IsFreeList
<1> DEFINE t == [i \in 1 .. n + 1 |-> IF i = 1 THEN slot ELSE s[i - 1]]
<1>7. t \in [1 .. n + 1 -> FreeSlots']
  BY <1>5
<1>8. IsFreeList(n + 1, t)'
  <2>1. ASSUME NEW i \in 1 .. n + 1, NEW j \in 1 .. n + 1, t[i] = t[j]
        PROVE  i = j
    <3>1. CASE i = 1 /\ j = 1
      BY <3>1
    <3>2. CASE i # 1 /\ j # 1
      <4>1. i - 1 \in 1 .. n /\ j - 1 \in 1 .. n /\ s[i - 1] = s[j - 1]
        BY <3>2, <2>1
      <4>2. i - 1 = j - 1
        BY <4>1, <1>2 DEF IsFreeList
      <4> QED
        BY <4>2
    <3>3. CASE i = 1 /\ j # 1
      <4>1. t[j] = s[j - 1] /\ j - 1 \in 1 .. n
        BY <3>3
      <4> QED
        BY <4>1, <3>3, <2>1, <1>3
    <3>4. CASE i # 1 /\ j = 1
      <4>1. t[i] = s[i - 1] /\ i - 1 \in 1 .. n
        BY <3>4
      <4> QED
        BY <4>1, <3>4, <2>1, <1>3
    <3> QED
      BY <3>1, <3>2, <3>3, <3>4
  <2>2. ASSUME NEW f \in FreeSlots' PROVE \E i \in 1 .. n + 1 : t[i] = f
    <3>1. CASE f = slot
      BY <3>1
    <3>2. CASE f \in FreeSlots
      <4>1. PICK k \in 1 .. n : s[k] = f
        BY <3>2, <1>2 DEF IsFreeList
      <4>2. k + 1 \in 1 .. n + 1 /\ t[k + 1] = f
        BY <4>1
      <4> QED
        BY <4>2
    <3> QED
      BY <3>1, <3>2, <1>5, <2>2
  <2>3. next_free_slot' = IF n + 1 = 0 THEN MAX_COUNT ELSE t[1]
    BY <1>4
  <2>4. ASSUME NEW i \in 1 .. n + 1
        PROVE  generations'[t[i]] = IF i = n + 1 THEN MAX_COUNT ELSE t[i + 1]
    <3>1. CASE i = 1
      <4>1. generations'[slot] = next_free_slot
        BY <1>3, <1>4 DEF Inv, TypeOK
      <4>2. next_free_slot = IF n = 0 THEN MAX_COUNT ELSE s[1]
        BY <1>2 DEF IsFreeList
      <4> QED
        BY <3>1, <4>1, <4>2
    <3>2. CASE i # 1
      <4>1. i - 1 \in 1 .. n /\ t[i] = s[i - 1] /\ s[i - 1] # slot /\ s[i - 1] \in Slots
        BY <3>2, <1>3 DEF FreeSlots
      <4>2. generations'[s[i - 1]] = generations[s[i - 1]]
        BY <4>1, <1>4, <1>3 DEF Inv, TypeOK
      <4>3. generations[s[i - 1]] = IF i - 1 = n THEN MAX_COUNT ELSE s[i - 1 + 1]
        BY <4>1, <1>2 DEF IsFreeList
      <4> QED
        BY <3>2, <4>1, <4>2, <4>3
    <3> QED
      BY <3>1, <3>2
  <2> QED
    BY <2>1, <2>2, <2>3, <2>4 DEF IsFreeList
<1>9. FreeListOK'
  BY <1>6, <1>7, <1>8 DEF FreeListOK
<1>10. TypeOK'
  BY <1>3, <1>4 DEF Inv, TypeOK, Slots
<1> QED
  BY <1>9, <1>10 DEF Inv

\* The failing calls change only what the call returned.
LEMMA UnchangedInv ==
    ASSUME Inv, UNCHANGED <<objects, generations, next_generation, next_free_slot>>
    PROVE  Inv'
<1>1. TypeOK'
  BY DEF Inv, TypeOK
<1>2. FreeSlots' = FreeSlots
  BY DEF FreeSlots
<1>3. PICK n \in 0 .. MAX_COUNT : \E s \in [1 .. n -> FreeSlots] : IsFreeList(n, s)
  BY DEF Inv, FreeListOK
<1>4. PICK s \in [1 .. n -> FreeSlots] : IsFreeList(n, s)
  BY <1>3
<1>5. IsFreeList(n, s)'
  BY <1>2, <1>4 DEF IsFreeList
<1> QED
  BY <1>1, <1>2, <1>4, <1>5 DEF Inv, FreeListOK

(***************************************************************************)
(* Every call of HandleTable preserves the types of the table and its free *)
(* list.                                                                   *)
(***************************************************************************)
LEMMA NextInv == Inv /\ [Next]_vars => Inv'
<1> SUFFICES ASSUME Inv, [Next]_vars PROVE Inv'
  OBVIOUS
<1> USE HandleConstants
<1>1. ASSUME NEW obj \in OBJECTS, Create(obj) PROVE Inv'
  BY <1>1, CreateInv, UnchangedInv DEF Create, CreateFull, Fail
<1>2. ASSUME NEW h \in Handles, NEW cur \in OBJECTS, Duplicate(h, cur) PROVE Inv'
  <2>1. ASSUME GetGeneric(h, cur) # Null PROVE GetGeneric(h, cur) \in OBJECTS
    <3>1. IsValid(h) => GetSlot(h) \in Slots
      BY DEF IsValid, GetSlot, Handles, Slots
    <3> QED
      BY <2>1, <3>1 DEF GetGeneric, Inv, TypeOK
  <2>2. CASE CreateOk("Duplicated", GetGeneric(h, cur)) /\ GetGeneric(h, cur) # Null
    BY <2>1, <2>2, CreateInv
  <2>3. CASE UNCHANGED <<objects, generations, next_generation, next_free_slot>>
    BY <2>3, UnchangedInv
  <2> QED
    BY <1>2, <2>2, <2>3 DEF Duplicate, CreateFull, Fail
<1>3. ASSUME NEW h \in Handles, Close(h) PROVE Inv'
  <2>1. CASE IsValid(h)
    BY <1>3, <2>1, CloseInv
  <2>2. CASE ~IsValid(h)
    BY <1>3, <2>2, UnchangedInv DEF Close, Fail
  <2> QED
    BY <2>1, <2>2
<1>4. CASE Clear
  <2>1. TypeOK'
    BY <1>4 DEF Clear, Inv, TypeOK, Slots
  <2>2. FreeListOK'
    <3> DEFINE s == [i \in 1 .. MAX_COUNT |-> i - 1]
    <3>1. FreeSlots' = Slots
      BY <1>4 DEF FreeSlots, Clear
    <3>2. s \in [1 .. MAX_COUNT -> FreeSlots']
      BY <3>1 DEF Slots
    <3>3. IsFreeList(MAX_COUNT, s)'
      BY <1>4, <3>1 DEF IsFreeList, Slots, Clear
    <3> QED
      BY <3>2, <3>3 DEF FreeListOK
  <2> QED
    BY <2>1, <2>2 DEF Inv
<1>5. CASE UNCHANGED vars
  BY <1>5, UnchangedInv DEF vars
<1> QED
  BY <1>1, <1>2, <1>3, <1>4, <1>5 DEF Next

(***************************************************************************)
(* The free list of handle_table.h holds every free slot exactly once in   *)
(* every reachable state, so Create never returns a slot in use and fails  *)
(* only when the table is full, for every MAX_COUNT and generation width.  *)
(***************************************************************************)
THEOREM FreeListCorrect == Spec => []FreeListOK
<1>1. Spec => []Inv
  BY InitInv, NextInv, PTL DEF Spec
<1>2. Inv => FreeListOK
  BY DEF Inv
<1> QED
  BY <1>1, <1>2, PTL

(***************************************************************************)
(* The table's arrays, counter and free-list head keep their types: the    *)
(* head never leaves 0 .. MAX_COUNT although it is read back from the      *)
(* generations array, and the generation counter is never 0 nor 2^15.      *)
(***************************************************************************)
THEOREM TypeCorrect == Spec => []TypeOK
<1>1. Spec => []Inv
  BY InitInv, NextInv, PTL DEF Spec
<1>2. Inv => TypeOK
  BY DEF Inv
<1> QED
  BY <1>1, <1>2, PTL

-----------------------------------------------------------------------------
\* A slot that holds an object holds the generation of the handle to it.
GenerationsOK ==
    \A i \in Slots : objects[i] # Null => generations[i] \in 1 .. GEN_LIMIT - 1

LiveInv == Inv /\ GenerationsOK

\* No call leaves an object in a slot without a generation.
LEMMA NextLiveInv == LiveInv /\ [Next]_vars => LiveInv'
<1> SUFFICES ASSUME LiveInv, [Next]_vars PROVE LiveInv'
  OBVIOUS
<1> USE HandleConstants
<1>0. Inv' /\ TypeOK /\ GenerationsOK
  BY NextInv DEF LiveInv, Inv
<1> SUFFICES GenerationsOK'
  BY <1>0 DEF LiveInv
<1>1. ASSUME NEW code, NEW obj, CreateOk(code, obj) PROVE GenerationsOK'
  BY <1>0, <1>1 DEF CreateOk, GenerationsOK, TypeOK
<1>2. ASSUME NEW h \in Handles, Close(h) PROVE GenerationsOK'
  BY <1>0, <1>2 DEF Close, Fail, GenerationsOK, TypeOK
<1>3. ASSUME NEW code, Fail(code) PROVE GenerationsOK'
  BY <1>0, <1>3 DEF Fail, GenerationsOK
<1>4. CASE Clear
  BY <1>4 DEF Clear, GenerationsOK
<1>5. CASE UNCHANGED vars
  BY <1>0, <1>5 DEF GenerationsOK, vars
<1> QED
  BY <1>0, <1>1, <1>2, <1>3, <1>4, <1>5 DEF Next, Create, CreateFull, Duplicate

\* The handle to the object in slot i.
HandleTo(i) == [slot |-> i, gen |-> generations[i]]

\* The open handles are those to the slots in use.
LEMMA LiveHandlesAre ==
    ASSUME LiveInv
    PROVE  /\ LiveHandles \subseteq Handles
           /\ \A h \in LiveHandles : /\ h.slot \in Slots /\ objects[h.slot] # Null
                                     /\ generations[h.slot] = h.gen /\ h = HandleTo(h.slot)
           /\ \A i \in Slots : objects[i] # Null => HandleTo(i) \in LiveHandles
<1> USE HandleConstants
<1>1. ASSUME NEW h \in LiveHandles
      PROVE  /\ h \in Handles /\ h.slot \in Slots /\ objects[h.slot] # Null
             /\ generations[h.slot] = h.gen /\ h = HandleTo(h.slot)
  BY DEF LiveHandles, Handles, IsValid, GetSlot, GetGeneration, HandleTo, Slots
<1>2. ASSUME NEW i \in Slots, objects[i] # Null PROVE HandleTo(i) \in LiveHandles
  <2>1. generations[i] \in 1 .. GEN_LIMIT - 1
    BY <1>2 DEF LiveInv, GenerationsOK
  <2>2. HandleTo(i) \in Handles /\ HandleTo(i).slot = i /\ HandleTo(i).gen = generations[i]
    BY <2>1 DEF HandleTo, Handles, Slots
  <2>3. i < SLOT_LIMIT /\ i < MAX_COUNT
    BY DEF Slots
  <2> QED
    BY <1>2, <2>2, <2>3 DEF LiveHandles, IsValid, GetSlot, GetGeneration
<1> QED
  BY <1>1, <1>2

\* The handle map is full exactly when no slot is free.
LEMMA FullTable ==
    ASSUME LiveInv
    PROVE  Cardinality(LiveHandles) = MAX_COUNT <=> FreeSlots = {}
<1> USE HandleConstants
<1> DEFINE f == [h \in LiveHandles |-> h.slot]
<1>1. IsFiniteSet(Slots) /\ Cardinality(Slots) = MAX_COUNT
  BY FS_Interval DEF Slots
<1>2. f \in Injection(LiveHandles, Slots)
  <2>1. f \in [LiveHandles -> Slots]
    BY LiveHandlesAre
  <2>2. \A g, h \in LiveHandles : g.slot = h.slot => g = h
    BY LiveHandlesAre
  <2> QED
    BY <2>1, <2>2 DEF Injection, IsInjective
<1>3. Cardinality(LiveHandles) = MAX_COUNT <=> f \in Surjection(LiveHandles, Slots)
  BY <1>1, <1>2, FS_Injection
<1>4. f \in Surjection(LiveHandles, Slots) <=> \A i \in Slots : \E h \in LiveHandles : f[h] = i
  <2>1. f \in [LiveHandles -> Slots]
    BY LiveHandlesAre
  <2> QED
    BY <2>1 DEF Surjection
<1>5. (\A i \in Slots : \E h \in LiveHandles : f[h] = i) <=> FreeSlots = {}
  <2>1. ASSUME NEW i \in Slots, NEW h \in LiveHandles, f[h] = i PROVE i \notin FreeSlots
    BY <2>1, LiveHandlesAre DEF FreeSlots
  <2>2. ASSUME NEW i \in Slots, i \notin FreeSlots PROVE \E h \in LiveHandles : f[h] = i
    <3>1. HandleTo(i) \in LiveHandles /\ HandleTo(i).slot = i
      BY <2>2, LiveHandlesAre DEF FreeSlots, HandleTo
    <3> QED
      BY <3>1
  <2>3. FreeSlots \subseteq Slots
    BY DEF FreeSlots
  <2> HIDE DEF f
  <2> QED
    BY <2>1, <2>2, <2>3
<1> QED
  BY <1>3, <1>4, <1>5

\* The handle map the table stands for, as HandleTable's Map has it.
Live == [h \in LiveHandles |-> objects[h.slot]]

\* A table whose slots are all free stands for the empty map.
LEMMA NoLiveHandle ==
    ASSUME objects = [i \in Slots |-> Null]
    PROVE  Live = << >>
<1>1. LiveHandles = {}
  BY HandleConstants DEF LiveHandles, IsValid, GetSlot, Handles, Slots
<1> QED
  BY <1>1 DEF Live

\* Calls that leave the table alone leave the map alone.
LEMMA SameLive ==
    ASSUME UNCHANGED <<objects, generations>>
    PROVE  Live' = Live
BY DEF Live, LiveHandles, IsValid

\* Create opens one handle, which no open handle equals.
LEMMA CreateOpens ==
    ASSUME LiveInv, LiveInv', NEW code, NEW obj \in OBJECTS, CreateOk(code, obj)
    PROVE  \E h \in {g \in Handles : g.slot < MAX_COUNT /\ g.gen > 0} \ LiveHandles :
             /\ Live' = [g \in LiveHandles \cup {h} |-> IF g = h THEN obj ELSE Live[g]]
             /\ ret'.code = code /\ ret'.handle = h /\ ret'.obj = obj
<1> USE HandleConstants
<1>1. PICK slot \in Slots : slot = next_free_slot /\ slot \in FreeSlots
  <2>1. PICK n \in 0 .. MAX_COUNT : \E s \in [1 .. n -> FreeSlots] : IsFreeList(n, s)
    BY DEF LiveInv, Inv, FreeListOK
  <2>2. PICK s \in [1 .. n -> FreeSlots] : IsFreeList(n, s)
    BY <2>1
  <2> QED
    BY <2>2 DEF IsFreeList, CreateOk, FreeSlots
<1>2. /\ generations' = [generations EXCEPT ![slot] = next_generation]
      /\ objects' = [objects EXCEPT ![slot] = obj]
      /\ ret' = Outcome(code, [slot |-> slot, gen |-> next_generation], obj)
  BY <1>1 DEF CreateOk
<1>3. PICK h : h = [slot |-> slot, gen |-> next_generation]
  OBVIOUS
<1>4. h \in Handles /\ h.slot = slot /\ h.slot < MAX_COUNT /\ h.gen > 0 /\ h.gen = next_generation
  BY <1>3 DEF LiveInv, Inv, TypeOK, Handles, Slots
<1>5. h \notin LiveHandles
  BY <1>1, <1>4, LiveHandlesAre DEF FreeSlots
<1>6. /\ objects[slot] = Null /\ objects'[slot] = obj /\ generations'[slot] = next_generation
      /\ obj # Null
      /\ \A i \in Slots : i # slot => objects'[i] = objects[i] /\ generations'[i] = generations[i]
  BY <1>1, <1>2 DEF LiveInv, Inv, TypeOK, FreeSlots
<1>7. ASSUME NEW g \in Handles, g.slot < SLOT_LIMIT
      PROVE  IsValid(g)' <=> IsValid(g) \/ g = h
  <2>1. GetSlot(g) = g.slot /\ (g.slot < MAX_COUNT <=> g.slot \in Slots)
    BY <1>7 DEF GetSlot, Handles, Slots
  <2>2. g = h <=> g.slot = slot /\ g.gen = next_generation
    BY <1>3 DEF Handles
  <2>3. CASE g.slot = slot
    BY <1>6, <2>1, <2>2, <2>3 DEF IsValid, GetGeneration
  <2>4. CASE g.slot # slot
    BY <1>6, <2>1, <2>2, <2>4 DEF IsValid, GetGeneration
  <2> QED
    BY <2>3, <2>4
<1>8. LiveHandles' = LiveHandles \cup {h}
  <2>1. h.slot < SLOT_LIMIT
    BY <1>4 DEF Slots
  <2> QED
    BY <1>4, <1>7, <2>1 DEF LiveHandles
<1>9. \A g \in LiveHandles : g # h /\ objects'[g.slot] = objects[g.slot]
  BY <1>1, <1>5, <1>6, LiveHandlesAre DEF FreeSlots
<1>10. Live' = [g \in LiveHandles \cup {h} |-> IF g = h THEN obj ELSE Live[g]]
  BY <1>4, <1>6, <1>8, <1>9 DEF Live
<1>11. ret'.code = code /\ ret'.handle = h /\ ret'.obj = obj
  BY <1>2, <1>3 DEF Outcome
<1> QED
  BY <1>4, <1>5, <1>10, <1>11

\* Close of a valid handle, also of one with bit 31 set, ends one handle.
LEMMA CloseEnds ==
    ASSUME LiveInv, NEW c \in Handles, IsValid(c), Close(c)
    PROVE  \E h \in LiveHandles :
             /\ Live' = [g \in LiveHandles \ {h} |-> Live[g]]
             /\ ret'.code = "Closed" /\ ret'.obj = Live[h]
<1> USE HandleConstants
<1>1. PICK slot \in Slots : slot = GetSlot(c)
  BY DEF IsValid, GetSlot, Handles, Slots
<1>2. /\ generations' = [generations EXCEPT ![slot] = next_free_slot]
      /\ objects' = [objects EXCEPT ![slot] = Null]
      /\ ret' = Outcome("Closed", c, objects[slot])
  BY <1>1 DEF Close
<1>3. PICK h : h = HandleTo(slot)
  OBVIOUS
<1>4. h \in LiveHandles /\ h.slot = slot
  <2>1. objects[slot] # Null
    BY <1>1 DEF IsValid
  <2> QED
    BY <1>3, <2>1, LiveHandlesAre DEF HandleTo
<1>5. /\ objects'[slot] = Null
      /\ \A i \in Slots : i # slot => objects'[i] = objects[i] /\ generations'[i] = generations[i]
  BY <1>2 DEF LiveInv, Inv, TypeOK
<1>6. ASSUME NEW g \in Handles, g.slot < SLOT_LIMIT
      PROVE  IsValid(g)' <=> IsValid(g) /\ g.slot # slot
  <2>1. GetSlot(g) = g.slot /\ (g.slot < MAX_COUNT <=> g.slot \in Slots)
    BY <1>6 DEF GetSlot, Handles, Slots
  <2>2. CASE g.slot = slot
    BY <1>5, <2>1, <2>2 DEF IsValid
  <2>3. CASE g.slot # slot
    BY <1>5, <2>1, <2>3 DEF IsValid, GetGeneration
  <2> QED
    BY <2>2, <2>3
<1>7. \A g \in LiveHandles : g # h <=> g.slot # slot
  BY <1>3, <1>4, LiveHandlesAre
<1>8. LiveHandles' = LiveHandles \ {h}
  BY <1>6, <1>7 DEF LiveHandles
<1>9. \A g \in LiveHandles : g # h => objects'[g.slot] = objects[g.slot]
  BY <1>5, <1>7, LiveHandlesAre
<1>10. Live' = [g \in LiveHandles \ {h} |-> Live[g]]
  BY <1>8, <1>9 DEF Live
<1>11. ret'.code = "Closed" /\ ret'.obj = Live[h]
  BY <1>2, <1>4 DEF Outcome, Live
<1> QED
  BY <1>4, <1>10, <1>11

\* Every call is a step of the handle map, or leaves it alone.
LEMMA StepRefines == LiveInv /\ [Next]_vars => [Map!Next]_<<Live, ret>>
<1> SUFFICES ASSUME LiveInv, [Next]_vars PROVE [Map!Next]_<<Live, ret>>
  OBVIOUS
<1> USE HandleConstants
<1>0. LiveInv'
  BY NextLiveInv
<1>1. DOMAIN Live = LiveHandles
  BY DEF Live
<1>2. Map!Full <=> FreeSlots = {}
  <2>1. DOMAIN [h \in LiveHandles |-> objects[h.slot]] = LiveHandles
    OBVIOUS
  <2>2. Map!Full <=> Cardinality(LiveHandles) = MAX_COUNT
    <3>1. \A S : Map!Cardinality(S) = Cardinality(S)
      BY DEF Map!Cardinality, Cardinality
    <3> QED
      BY <2>1, <3>1, Zenon DEF Map!Full
  <2> QED
    BY <2>2, FullTable
<1>3. ASSUME NEW code, NEW obj \in OBJECTS, CreateOk(code, obj)
      PROVE  Map!Open(code, obj)
  <2>1. ~Map!Full
    <3>1. PICK n \in 0 .. MAX_COUNT : \E s \in [1 .. n -> FreeSlots] : IsFreeList(n, s)
      BY DEF LiveInv, Inv, FreeListOK
    <3>2. PICK s \in [1 .. n -> FreeSlots] : IsFreeList(n, s)
      BY <3>1
    <3> QED
      BY <1>2, <1>3, <3>2 DEF IsFreeList, CreateOk
  <2> QED
    BY <1>0, <1>1, <1>3, <2>1, CreateOpens DEF Map!Open, Live
<1>4. ASSUME CreateFull PROVE Map!OpenFails
  <2>1. FreeSlots = {}
    <3>1. PICK n \in 0 .. MAX_COUNT : \E s \in [1 .. n -> FreeSlots] : IsFreeList(n, s)
      BY DEF LiveInv, Inv, FreeListOK
    <3>2. PICK s \in [1 .. n -> FreeSlots] : IsFreeList(n, s)
      BY <3>1
    <3> QED
      BY <1>4, <3>2 DEF IsFreeList, CreateFull, FreeSlots, Slots
  <2>2. Live' = Live /\ ret'.code = "OutOfHandles"
    BY <1>4, SameLive DEF CreateFull, Fail, Outcome
  <2> QED
    BY <1>2, <2>1, <2>2 DEF Map!OpenFails, Live
<1>5. ASSUME Fail("InvalidHandle") PROVE Map!Reject
  <2>1. Live' = Live /\ ret'.code = "InvalidHandle"
    BY <1>5, SameLive DEF Fail, Outcome
  <2> QED
    BY <2>1 DEF Map!Reject, Live
<1>6. ASSUME NEW h \in Handles, NEW cur \in OBJECTS, GetGeneric(h, cur) # Null
      PROVE  GetGeneric(h, cur) \in OBJECTS
  <2>1. IsValid(h) => GetSlot(h) \in Slots
    BY DEF IsValid, GetSlot, Handles, Slots
  <2> QED
    BY <1>6, <2>1 DEF GetGeneric, LiveInv, Inv, TypeOK
<1>7. ASSUME NEW obj \in OBJECTS, Create(obj) PROVE Map!Next
  BY <1>3, <1>4, <1>7 DEF Create, Map!Next, Map!Create
<1>8. ASSUME NEW h \in Handles, NEW cur \in OBJECTS, Duplicate(h, cur) PROVE Map!Next
  BY <1>3, <1>4, <1>5, <1>6, <1>8 DEF Duplicate, Map!Next, Map!Duplicate
<1>9. ASSUME NEW c \in Handles, Close(c) PROVE Map!Next
  <2>1. CASE IsValid(c)
    <3>1. PICK h \in LiveHandles : /\ Live' = [g \in LiveHandles \ {h} |-> Live[g]]
                                   /\ ret'.code = "Closed" /\ ret'.obj = Live[h]
      BY <1>9, <2>1, CloseEnds
    <3>2. Map!Close(h)
      BY <1>1, <3>1 DEF Map!Close, Live
    <3> QED
      BY <1>1, <3>2 DEF Map!Next, Live
  <2>2. CASE ~IsValid(c)
    BY <1>5, <1>9, <2>2 DEF Close, Map!Next
  <2> QED
    BY <2>1, <2>2
<1>10. CASE Clear
  <2>1. Live' = << >> /\ ret'.code = "Cleared"
    <3>1. LiveHandles' = {}
      BY <1>10 DEF Clear, LiveHandles, IsValid, GetSlot, Handles, Slots
    <3> QED
      BY <1>10, <3>1 DEF Clear, Live, Outcome
  <2> QED
    BY <2>1 DEF Map!Next, Map!CloseAll, Live
<1>11. CASE UNCHANGED vars
  BY <1>11, SameLive DEF vars
<1> QED
  BY <1>7, <1>8, <1>9, <1>10, <1>11 DEF Next

(***************************************************************************)
(* The table implements the map of handles to objects: Create and          *)
(* Duplicate open one new handle and fail only when MAX_COUNT are open,    *)
(* Close ends one, and no other call changes what a handle denotes; for    *)
(* every table size and every width of the handle's fields.                *)
(***************************************************************************)
THEOREM TableRefinesMap == Spec => ImplementsHandleMap
<1>1. Init => LiveInv
  <2>1. Init => Inv
    BY InitInv
  <2>2. Init => GenerationsOK
    BY DEF Init, GenerationsOK
  <2> QED
    BY <2>1, <2>2 DEF LiveInv
<1>2. Init => Map!Init
  <2> SUFFICES ASSUME Init PROVE Map!Init
    OBVIOUS
  <2>1. Live = << >> /\ ret.code = "Init"
    BY NoLiveHandle DEF Init, Outcome
  <2> QED
    BY <2>1 DEF Map!Init, Live
<1>3. LiveInv /\ [Next]_vars => [Map!Next]_<<[h \in LiveHandles |-> objects[h.slot]], ret>>
  BY StepRefines DEF Live
<1> QED
  BY <1>1, <1>2, <1>3, NextLiveInv, PTL DEF Spec, ImplementsHandleMap, Map!Spec

-----------------------------------------------------------------------------
\* The generation of the i-th last handle issued, when g is the next one.
GenerationBefore(g, i) == IF g - i >= 1 THEN g - i ELSE g - i + GEN_LIMIT - 1

\* What MCHandleTable remembers of a handle.
Entries == [h : Handles, open : BOOLEAN]

\* The handles remembered are of slots, have the last generations in order,
\* and are those of MCHandleTable's window.
HistoryOK ==
    /\ issued \in Seq(Entries)
    /\ Len(issued) <= GEN_LIMIT - 1
    /\ \A i \in 1 .. Len(issued) :
         /\ issued[i].h.slot < MAX_COUNT
         /\ issued[i].h.gen = GenerationBefore(next_generation, i)

HistInv == TypeOK /\ FreeListOK /\ HistoryOK /\ StaleHandlesRejected

\* Going on by one generation moves the ones before by one.
LEMMA GenerationsMove ==
    ASSUME NEW g \in 1 .. GEN_LIMIT - 1, NEW i \in 1 .. GEN_LIMIT - 1
    PROVE  /\ GenerationBefore(NextGeneration(g), 1) = g
           /\ i < GEN_LIMIT - 1 =>
                /\ GenerationBefore(NextGeneration(g), i + 1) = GenerationBefore(g, i)
                /\ GenerationBefore(g, i) # g
<1> USE HandleConstants
<1> QED
  BY DEF GenerationBefore, NextGeneration

\* Every call keeps the history: a slot that is used again gets a generation
\* that no remembered handle has.
LEMMA CreateKeepsHistory ==
    ASSUME HistInv, NEW code \in {"Created", "Duplicated"}, NEW obj \in OBJECTS,
           CreateOk(code, obj), HistNext
    PROVE  HistoryOK' /\ StaleHandlesRejected'
<1> USE HandleConstants
<1>0. TypeOK /\ HistoryOK /\ StaleHandlesRejected /\ Inv
  BY DEF HistInv, Inv
<1>1. PICK slot \in Slots : slot = next_free_slot
  BY <1>0 DEF CreateOk, TypeOK, Slots
<1>2. PICK new : new = [h |-> [slot |-> slot, gen |-> next_generation], open |-> TRUE]
  OBVIOUS
<1>3. /\ next_generation' = NextGeneration(next_generation)
      /\ generations' = [generations EXCEPT ![slot] = next_generation]
      /\ objects' = [objects EXCEPT ![slot] = obj]
      /\ ret' = Outcome(code, [slot |-> slot, gen |-> next_generation], obj)
  BY <1>1 DEF CreateOk
<1>4. ret'.code = code /\ ret'.handle = [slot |-> slot, gen |-> next_generation]
  BY <1>3 DEF Outcome
<1> DEFINE n == IF Len(issued) < GEN_LIMIT - 1 THEN Len(issued) + 1 ELSE GEN_LIMIT - 1
<1>5. issued' = SubSeq(<<new>> \o issued, 1, n)
  BY <1>2, <1>4 DEF HistNext
<1>6. new \in Entries /\ new.h.slot = slot /\ new.h.gen = next_generation
      /\ new.open
  BY <1>0, <1>2 DEF Entries, Handles, Slots, TypeOK
<1>7. Len(issued) \in Nat /\ issued \in Seq(Entries)
      /\ Len(issued) <= GEN_LIMIT - 1
  BY <1>0 DEF HistoryOK
<1>8. /\ <<new>> \o issued \in Seq(Entries)
      /\ Len(<<new>> \o issued) = Len(issued) + 1
      /\ (<<new>> \o issued)[1] = new
      /\ \A i \in 2 .. Len(issued) + 1 : (<<new>> \o issued)[i] = issued[i - 1]
  BY <1>6, <1>7
<1>9. n \in Nat /\ n >= 1 /\ n <= Len(issued) + 1 /\ n <= GEN_LIMIT - 1
  BY <1>7
<1>10. /\ issued' \in Seq(Entries) /\ Len(issued') = n
       /\ issued'[1] = new
       /\ \A i \in 2 .. n : issued'[i] = issued[i - 1] /\ i - 1 \in 1 .. Len(issued)
  <2> HIDE DEF n
  <2>1. \A i \in 1 .. n : (<<new>> \o issued)[i] \in Entries
    <3>1. PICK q : q = <<new>> \o issued
      OBVIOUS
    <3>2. q \in Seq(Entries) /\ \A i \in 1 .. n : i \in 1 .. Len(q)
      BY <1>7, <1>8, <1>9, <3>1
    <3> QED
      BY <3>1, <3>2
  <2>2. /\ SubSeq(<<new>> \o issued, 1, n) \in Seq(Entries)
        /\ Len(SubSeq(<<new>> \o issued, 1, n)) = n
        /\ \A i \in 1 .. n : SubSeq(<<new>> \o issued, 1, n)[i] = (<<new>> \o issued)[i]
    BY <1>9, <2>1, SubSeqProperties
  <2> QED
    BY <1>5, <1>8, <1>9, <2>2
<1> HIDE DEF n
<1>11. next_generation \in 1 .. GEN_LIMIT - 1
  BY <1>0 DEF TypeOK
<1>12. ASSUME NEW i \in 2 .. n
       PROVE  /\ issued'[i].h.slot < MAX_COUNT
              /\ issued'[i].h.gen = GenerationBefore(next_generation', i)
              /\ issued'[i].h.gen # next_generation
  <2>1. i - 1 \in 1 .. GEN_LIMIT - 1 /\ i - 1 < GEN_LIMIT - 1 /\ (i - 1) + 1 = i
    BY <1>9
  <2>2. /\ issued'[i].h.slot < MAX_COUNT
        /\ issued'[i].h.gen = GenerationBefore(next_generation, i - 1)
    BY <1>0, <1>10 DEF HistoryOK
  <2> QED
    BY <1>3, <1>11, <2>1, <2>2, GenerationsMove
<1>13. HistoryOK'
  <2>1. /\ issued'[1].h.slot < MAX_COUNT
        /\ issued'[1].h.gen = GenerationBefore(next_generation', 1)
    BY <1>3, <1>6, <1>10, <1>11, GenerationsMove DEF Slots
  <2>2. \A i \in 1 .. n : i = 1 \/ i \in 2 .. n
    BY <1>9
  <2>3. \A i \in 1 .. Len(issued') :
         /\ issued'[i].h.slot < MAX_COUNT
         /\ issued'[i].h.gen = GenerationBefore(next_generation', i)
    BY <1>10, <1>12, <2>1, <2>2
  <2> QED
    BY <1>9, <1>10, <2>3 DEF HistoryOK, GenerationBefore
<1>14. StaleHandlesRejected'
  <2>1. DOMAIN issued' = 1 .. n
    BY <1>10
  <2> SUFFICES ASSUME NEW i \in 1 .. n, IsValid(issued[i].h)' PROVE issued'[i].open
    BY <2>1 DEF StaleHandlesRejected
  <2>2. CASE i = 1
    BY <1>6, <1>10, <2>2
  <2>3. CASE i # 1
    <3>1. i \in 2 .. n
      BY <1>9, <2>3
    <3>2. PICK x \in Handles : x = issued'[i].h /\ x = issued[i - 1].h
      <4>1. issued[i - 1] \in Entries /\ issued'[i] = issued[i - 1]
        BY <1>7, <1>10, <3>1
      <4> QED
        BY <4>1 DEF Entries
    <3>3. IsValid(x)'
      BY <3>2 DEF IsValid
    <3>4. x.gen # next_generation /\ x.slot < MAX_COUNT /\ GetSlot(x) = x.slot /\ x.slot \in Slots
      <4>1. x.gen # next_generation /\ x.slot < MAX_COUNT
        BY <1>12, <3>1, <3>2
      <4> QED
        BY <4>1 DEF GetSlot, Slots, Handles
    <3>5. x.slot # slot
      BY <1>0, <1>3, <3>3, <3>4 DEF IsValid, GetGeneration, TypeOK
    <3>6. IsValid(x)
      BY <1>0, <1>3, <3>3, <3>4, <3>5 DEF IsValid, TypeOK
    <3>7. issued[i - 1].open
      BY <1>0, <1>7, <1>10, <3>1, <3>2, <3>6 DEF StaleHandlesRejected
    <3> QED
      BY <1>10, <3>1, <3>7
  <2> QED
    BY <2>2, <2>3
<1> QED
  BY <1>13, <1>14

\* A call that issues no handle keeps those remembered, and closes some.
LEMMA OtherCallKeepsHistory ==
    ASSUME HistInv, UNCHANGED next_generation,
           issued' = [i \in DOMAIN issued |->
                        [issued[i] EXCEPT !.open = @ /\ ~Closes(issued[i].h)]],
           \A h \in Handles : h.slot < MAX_COUNT /\ IsValid(h)' => IsValid(h) /\ ~Closes(h)
    PROVE  HistoryOK' /\ StaleHandlesRejected'
<1>0. HistoryOK /\ StaleHandlesRejected
  BY DEF HistInv
<1>1. /\ DOMAIN issued = 1 .. Len(issued) /\ Len(issued) \in Nat
      /\ \A i \in 1 .. Len(issued) : issued[i] \in Entries
  BY <1>0 DEF HistoryOK
<1>2. ASSUME NEW i \in 1 .. Len(issued)
      PROVE  /\ issued'[i] \in Entries
             /\ issued'[i].h = issued[i].h
             /\ issued'[i].open <=> issued[i].open /\ ~Closes(issued[i].h)
  <2>1. PICK closed \in BOOLEAN : closed <=> Closes(issued[i].h)
    OBVIOUS
  <2>2. issued'[i] = [issued[i] EXCEPT !.open = @ /\ ~closed]
    BY <1>1, <2>1
  <2> QED
    BY <1>1, <2>1, <2>2 DEF Entries
<1>3. issued' \in Seq(Entries) /\ Len(issued') = Len(issued)
  <2>1. issued' = [i \in 1 .. Len(issued) |-> issued'[i]]
    BY <1>1
  <2>2. issued' \in [1 .. Len(issued) -> Entries]
    BY <1>2, <2>1
  <2>3. issued' \in Seq(Entries)
    BY <1>1, <2>2, IsASeq
  <2>4. DOMAIN issued' = 1 .. Len(issued')
    BY <2>3, LenProperties
  <2>5. 1 .. Len(issued') = 1 .. Len(issued) /\ Len(issued') \in Nat
    BY <2>1, <2>3, <2>4
  <2> QED
    BY <1>1, <2>3, <2>5
<1>4. HistoryOK'
  BY <1>0, <1>1, <1>2, <1>3 DEF HistoryOK, GenerationBefore
<1>5. StaleHandlesRejected'
  <2>1. DOMAIN issued' = 1 .. Len(issued)
    BY <1>1
  <2> SUFFICES ASSUME NEW i \in 1 .. Len(issued), IsValid(issued[i].h)' PROVE issued'[i].open
    BY <2>1 DEF StaleHandlesRejected
  <2>2. PICK x \in Handles : x = issued'[i].h /\ x = issued[i].h /\ x.slot < MAX_COUNT
    BY <1>0, <1>1, <1>2 DEF HistoryOK, Entries
  <2>3. IsValid(x)'
    BY <2>2 DEF IsValid
  <2>4. IsValid(issued[i].h) /\ ~Closes(issued[i].h)
    BY <2>2, <2>3
  <2> QED
    BY <1>0, <1>1, <1>2, <2>4 DEF StaleHandlesRejected
<1> QED
  BY <1>4, <1>5

\* Every step keeps the history.
LEMMA NextHistInv == HistInv /\ [HistNext]_histVars => HistInv'
<1> SUFFICES ASSUME HistInv, [HistNext]_histVars PROVE HistInv'
  OBVIOUS
<1> USE HandleConstants
<1>0. TypeOK /\ HistoryOK /\ StaleHandlesRejected /\ Inv /\ Inv'
  BY NextInv DEF HistInv, Inv, HistNext, histVars
<1> SUFFICES HistoryOK' /\ StaleHandlesRejected'
  BY <1>0 DEF HistInv, Inv
<1> DEFINE Marks == issued' = [i \in DOMAIN issued |->
                                 [issued[i] EXCEPT !.open = @ /\ ~Closes(issued[i].h)]]
<1>1. CASE UNCHANGED histVars
  BY <1>0, <1>1 DEF histVars, vars, HistoryOK, StaleHandlesRejected, GenerationBefore, IsValid
<1>2. CASE HistNext
  <2>1. ret'.code \notin {"Created", "Duplicated"} => Marks
    BY <1>2 DEF HistNext
  <2> HIDE DEF Marks
  <2>2. ASSUME NEW code \in {"InvalidHandle", "OutOfHandles"}, Fail(code)
        PROVE  HistoryOK' /\ StaleHandlesRejected'
    <3>1. UNCHANGED <<objects, generations, next_generation>> /\ ret'.code = code
      BY <2>2 DEF Fail, Outcome
    <3>2. \A h \in Handles : IsValid(h)' => IsValid(h) /\ ~Closes(h)
      BY <3>1 DEF IsValid, Closes
    <3> QED
      BY <2>1, <3>1, <3>2, OtherCallKeepsHistory DEF Marks
  <2>3. ASSUME NEW obj \in OBJECTS, Create(obj) PROVE HistoryOK' /\ StaleHandlesRejected'
    BY <1>2, <2>2, <2>3, CreateKeepsHistory DEF Create, CreateFull
  <2>4. ASSUME NEW h \in Handles, NEW cur \in OBJECTS, Duplicate(h, cur)
        PROVE  HistoryOK' /\ StaleHandlesRejected'
    <3>1. ASSUME GetGeneric(h, cur) # Null PROVE GetGeneric(h, cur) \in OBJECTS
      <4>1. IsValid(h) => GetSlot(h) \in Slots
        BY DEF IsValid, GetSlot, Handles, Slots
      <4> QED
        BY <1>0, <3>1, <4>1 DEF GetGeneric, TypeOK
    <3>2. CASE GetGeneric(h, cur) # Null /\ CreateOk("Duplicated", GetGeneric(h, cur))
      BY <1>2, <3>1, <3>2, CreateKeepsHistory
    <3> QED
      BY <2>2, <2>4, <3>2 DEF Duplicate, CreateFull
  <2>5. ASSUME NEW c \in Handles, Close(c) PROVE HistoryOK' /\ StaleHandlesRejected'
    <3>1. CASE ~IsValid(c)
      BY <2>2, <2>5, <3>1 DEF Close
    <3>2. CASE IsValid(c)
      <4>1. PICK slot \in Slots : slot = GetSlot(c)
        BY <3>2 DEF IsValid, GetSlot, Handles, Slots
      <4>2. /\ objects' = [objects EXCEPT ![slot] = Null]
            /\ generations' = [generations EXCEPT ![slot] = next_free_slot]
            /\ ret'.code = "Closed" /\ ret'.handle = c /\ UNCHANGED next_generation
        BY <2>5, <3>2, <4>1 DEF Close, Outcome
      <4>3. ASSUME NEW h \in Handles, h.slot < MAX_COUNT, IsValid(h)'
            PROVE  IsValid(h) /\ ~Closes(h)
        <5>1. GetSlot(h) = h.slot /\ h.slot \in Slots
          BY <4>3 DEF GetSlot, Handles, Slots
        <5>2. h.slot # slot
          BY <1>0, <4>2, <4>3, <5>1 DEF IsValid, TypeOK
        <5>3. IsValid(h)
          BY <1>0, <4>2, <4>3, <5>1, <5>2 DEF IsValid, TypeOK
        <5>4. ~Closes(h)
          BY <4>1, <4>2, <5>2 DEF Closes
        <5> QED
          BY <5>3, <5>4
      <4> QED
        BY <2>1, <4>2, <4>3, OtherCallKeepsHistory DEF Marks
    <3> QED
      BY <3>1, <3>2
  <2>6. CASE Clear
    <3>1. ret'.code = "Cleared" /\ UNCHANGED next_generation /\ objects' = [i \in Slots |-> Null]
      BY <2>6 DEF Clear, Outcome
    <3>2. \A h \in Handles : ~IsValid(h)'
      BY <3>1 DEF IsValid, GetSlot, Handles, Slots
    <3> QED
      BY <2>1, <3>1, <3>2, OtherCallKeepsHistory DEF Marks
  <2> QED
    BY <1>2, <2>3, <2>4, <2>5, <2>6 DEF HistNext, Next
<1> QED
  BY <1>1, <1>2

(***************************************************************************)
(* A handle that was closed, or dropped by Clear, is rejected until        *)
(* GEN_LIMIT - 1 handles have been created since it was issued (2^15 - 1   *)
(* in the code), for every table size and every generation width.          *)
(***************************************************************************)
THEOREM StaleHandlesAreRejected == HistSpec => []StaleHandlesRejected
<1>1. HistInit => HistInv
  <2> SUFFICES ASSUME HistInit PROVE HistInv
    OBVIOUS
  <2>1. TypeOK /\ FreeListOK
    BY InitInv DEF HistInit, Inv
  <2>2. issued = << >> /\ issued \in Seq(Entries) /\ Len(issued) = 0 /\ DOMAIN issued = {}
    BY EmptySeq DEF HistInit
  <2>3. HistoryOK /\ StaleHandlesRejected
    BY <2>2, HandleConstants DEF HistoryOK, StaleHandlesRejected
  <2> QED
    BY <2>1, <2>3 DEF HistInv
<1>2. HistInv => StaleHandlesRejected
  BY DEF HistInv
<1> QED
  BY <1>1, <1>2, NextHistInv, PTL DEF HistSpec

=============================================================================
