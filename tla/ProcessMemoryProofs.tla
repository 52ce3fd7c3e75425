----------------------- MODULE ProcessMemoryProofs -----------------------
(***************************************************************************)
(* The address space of a process and the frames behind it stay exact,     *)
(* whatever the sizes and whatever the program asks for: the proofs of     *)
(* VMAsExact, FramesExact, TypeOK and OnlyBuffersFail of ProcessMemory,    *)
(* and of what PageMap says about the memory behind the pages.             *)
(*                                                                         *)
(* The first invariant, MemInv, says of the areas that they tile the       *)
(* address space (Tiles), that no two Free ones are left apart             *)
(* (FreesMerged) and that the page table agrees with them (Matches).       *)
(* Within a call it does not hold of every intermediate map: between a     *)
(* split or a write and the merge that follows, the Free areas are merged  *)
(* with the exception of one area (MergedBut).  The loops of the code are  *)
(* recursive functions: that they exist and keep their invariants is       *)
(* shown by induction on the number of rounds, as a fact about the set of  *)
(* rounds for which it holds (SetInduction).                               *)
(*                                                                         *)
(* The second, FrameInv, says which page holds which frame (Owned), that   *)
(* every frame has one holder (Divided) and that the counters agree with   *)
(* this.  It rests on what each operation of VMManager does to the state   *)
(* and the memory of a single page.                                        *)
(***************************************************************************)
EXTENDS ProcessMemory, FiniteSetTheorems, WellFoundedInduction, TLAPS

-----------------------------------------------------------------------------
\* A set of numbers has a least one.
LEMMA LeastNat ==
    ASSUME NEW T, T \subseteq Nat, T # {}
    PROVE  \E x \in T : \A y \in T : x <= y
  <1>1. PICK x \in T : \A y \in T : ~(<<y, x>> \in OpToRel(<, Nat))
    BY NatLessThanWellFounded, WFMin
  <1>2. \A y \in T : ~(y < x)
    BY <1>1 DEF OpToRel
  <1> QED
    BY <1>2

\* Induction, for a set of numbers.
LEMMA SetInduction ==
    ASSUME NEW T, T \subseteq Nat, 0 \in T, \A n \in T : n + 1 \in T
    PROVE  T = Nat
  <1> SUFFICES ASSUME Nat \ T # {} PROVE FALSE
    OBVIOUS
  <1>1. PICK x \in Nat \ T : \A y \in Nat \ T : x <= y
    BY LeastNat
  <1>2. x # 0 /\ x - 1 \in Nat
    BY <1>1
  <1>3. x - 1 \in T
    BY <1>1, <1>2
  <1>4. (x - 1) + 1 \in T
    BY <1>3
  <1> QED
    BY <1>1, <1>4

\* Min of a set of numbers, and Max of a bounded one.
LEMMA MinNat ==
    ASSUME NEW T, T \subseteq Nat, T # {}
    PROVE  Min(T) \in T /\ \A y \in T : Min(T) <= y
  <1>1. \E x \in T : \A y \in T : x <= y
    BY LeastNat
  <1> QED
    BY <1>1 DEF Min

\* Max of a bounded set of numbers is its greatest element.
LEMMA MaxNat ==
    ASSUME NEW T, T \subseteq Nat, T # {}, NEW k \in Nat, \A x \in T : x <= k
    PROVE  Max(T) \in T /\ \A y \in T : Max(T) >= y
  <1>1. {k - x : x \in T} \subseteq Nat /\ {k - x : x \in T} # {}
    <2>1. \A x \in T : k - x \in Nat
      OBVIOUS
    <2> QED
      BY <2>1
  <1>2. PICK z \in {k - x : x \in T} : \A y \in {k - x : x \in T} : z <= y
    BY <1>1, LeastNat
  <1>3. PICK x \in T : z = k - x
    BY <1>2
  <1>4. \A y \in T : k - x <= k - y
    BY <1>2, <1>3
  <1>5. \A y \in T : x >= y
    BY <1>4
  <1> QED
    BY <1>5 DEF Max

-----------------------------------------------------------------------------
(***************************************************************************)
(* The areas of an address space.                                          *)
(***************************************************************************)
AreaFields == {"size", "perm", "state", "backing"}

\* Free areas look alike, so that they can be merged.
AreaOK(vma) ==
    /\ DOMAIN vma = AreaFields
    /\ vma.size \in Nat \ {0}
    /\ vma.backing \in Nat \cup {Null}
    /\ vma.backing = Null => vma.perm = {} /\ vma.state = "Free"

\* The areas follow each other without a gap.
Tiles(m) ==
    /\ DOMAIN m \subseteq Addresses /\ 0 \in DOMAIN m
    /\ \A b \in DOMAIN m : AreaOK(m[b])
    /\ \A b \in DOMAIN m : AreaEnd(m, b) \in DOMAIN m \cup {MaxAddress}
    /\ \A b \in DOMAIN m : \A n \in DOMAIN m : n > b => n >= AreaEnd(m, b)

\* The page table says what the areas say.
Matches(m, pt) ==
    /\ pt \in [Addresses -> Nat \cup {Null}]
    /\ \A b \in DOMAIN m : \A p \in PagesOf(b, m[b].size) : pt[p] = Backing(m[b], p - b)

\* No two Free areas meet, but perhaps at the area x.
MergedBut(m, x) ==
    \A b \in DOMAIN m :
      AreaEnd(m, b) \in DOMAIN m /\ m[b].backing = Null /\ b # x /\ AreaEnd(m, b) # x
        => m[AreaEnd(m, b)].backing # Null

FreesMerged(m) ==
    \A b \in DOMAIN m :
      AreaEnd(m, b) \in DOMAIN m /\ m[b].backing = Null => m[AreaEnd(m, b)].backing # Null

\* The numbers of an area.
LEMMA AreaFacts ==
    ASSUME NEW m, Tiles(m), NEW b \in DOMAIN m
    PROVE  /\ MaxAddress \in Nat /\ b \in Nat /\ b < MaxAddress
           /\ DOMAIN m[b] = AreaFields /\ m[b].size \in Nat /\ m[b].size >= 1
           /\ m[b].backing \in Nat \cup {Null} /\ Null \notin Int
           /\ AreaEnd(m, b) = b + m[b].size /\ AreaEnd(m, b) \in Nat
           /\ AreaEnd(m, b) > b /\ AreaEnd(m, b) <= MaxAddress
           /\ m[b].backing = Null => m[b].perm = {} /\ m[b].state = "Free"
  <1>1. MaxAddress \in Nat /\ Null \notin Int
    BY SpaceAssumption
  <1>2. b \in Nat /\ b < MaxAddress
    BY <1>1 DEF Tiles, Addresses
  <1>3. AreaOK(m[b])
    BY DEF Tiles
  <1>4. /\ DOMAIN m[b] = AreaFields /\ m[b].size \in Nat /\ m[b].size >= 1
        /\ m[b].backing \in Nat \cup {Null}
        /\ m[b].backing = Null => m[b].perm = {} /\ m[b].state = "Free"
    BY <1>3 DEF AreaOK, AreaFields
  <1>5. AreaEnd(m, b) = b + m[b].size
    BY DEF AreaEnd
  <1>6. AreaEnd(m, b) \in Nat /\ AreaEnd(m, b) > b
    BY <1>2, <1>4, <1>5
  <1>7. AreaEnd(m, b) <= MaxAddress
    BY <1>1 DEF Tiles, Addresses
  <1> QED
    BY <1>1, <1>2, <1>4, <1>5, <1>6, <1>7

\* Memory stays memory.
LEMMA BackingFacts ==
    ASSUME NEW vma, vma.backing \in Nat \cup {Null}, NEW o \in Nat
    PROVE  /\ Backing(vma, o) \in Nat \cup {Null}
           /\ Backing(vma, o) = Null <=> vma.backing = Null
           /\ vma.backing # Null => Backing(vma, o) = vma.backing + o
  BY SpaceAssumption DEF Backing

\* FindVMA finds the area that holds the page.
LEMMA FindFacts ==
    ASSUME NEW m, Tiles(m), NEW target \in Addresses
    PROVE  /\ FindVMA(m, target) \in DOMAIN m
           /\ FindVMA(m, target) <= target /\ target < AreaEnd(m, FindVMA(m, target))
           /\ \A b \in DOMAIN m : b <= target => b <= FindVMA(m, target)
  <1>1. target \in Nat /\ MaxAddress \in Nat /\ target < MaxAddress
    BY SpaceAssumption DEF Addresses
  <1>2. PICK T : T = {b \in DOMAIN m : b <= target}
    OBVIOUS
  <1>3. T \subseteq Nat /\ T # {} /\ \A x \in T : x <= target
    BY <1>1, <1>2 DEF Tiles, Addresses
  <1>4. PICK f : f = FindVMA(m, target)
    OBVIOUS
  <1>5. f \in T /\ \A y \in T : f >= y
    BY <1>1, <1>2, <1>3, <1>4, MaxNat DEF FindVMA
  <1>6. f \in DOMAIN m /\ f <= target
    BY <1>2, <1>5
  <1>7. \A b \in DOMAIN m : b <= target => b <= f
    BY <1>2, <1>3, <1>5
  <1>8. /\ AreaEnd(m, f) \in Nat /\ AreaEnd(m, f) > f /\ f \in Nat
        /\ AreaEnd(m, f) \in DOMAIN m \cup {MaxAddress}
    BY <1>6, AreaFacts DEF Tiles
  <1>9. target < AreaEnd(m, f)
    <2> SUFFICES ASSUME AreaEnd(m, f) <= target PROVE FALSE
      BY <1>1, <1>8
    <2>1. AreaEnd(m, f) \in DOMAIN m
      BY <1>1, <1>8
    <2> QED
      BY <1>7, <1>8, <2>1
  <1> QED
    BY <1>4, <1>6, <1>7, <1>9

\* Two areas do not overlap.
LEMMA Apart ==
    ASSUME NEW m, Tiles(m), NEW b \in DOMAIN m, NEW n \in DOMAIN m,
           b <= n, n < AreaEnd(m, b)
    PROVE  n = b
  <1>1. b \in Nat /\ n \in Nat /\ AreaEnd(m, b) \in Nat
    BY AreaFacts
  <1>2. n > b => n >= AreaEnd(m, b)
    BY DEF Tiles
  <1> QED
    BY <1>1, <1>2

\* The state of every page.
StateOf(m) == [p \in Addresses |-> m[FindVMA(m, p)].state]

\* A page has the state of its area.
LEMMA StateAt ==
    ASSUME NEW m, Tiles(m), NEW b \in DOMAIN m, NEW p \in PagesOf(b, m[b].size)
    PROVE  p \in Addresses /\ StateOf(m)[p] = m[b].state
  <1>1. /\ b \in Nat /\ m[b].size \in Nat /\ MaxAddress \in Nat
        /\ AreaEnd(m, b) = b + m[b].size /\ AreaEnd(m, b) <= MaxAddress
    BY AreaFacts
  <1>2. p \in Nat /\ b <= p /\ p < AreaEnd(m, b) /\ p \in Addresses
    BY <1>1 DEF PagesOf, Addresses
  <1>3. PICK v : v = FindVMA(m, p)
    OBVIOUS
  <1>4. v \in DOMAIN m /\ v <= p /\ p < AreaEnd(m, v) /\ b <= v
    BY <1>2, <1>3, FindFacts
  <1>5. v < AreaEnd(m, b) /\ v \in Nat
    BY <1>1, <1>2, <1>4, AreaFacts
  <1>6. v = b
    BY <1>4, <1>5, Apart
  <1> QED
    BY <1>2, <1>3, <1>6 DEF StateOf

\* The areas give each page the state that f gives it.
StatesAre(m, f) == \A x \in DOMAIN m : \A p \in PagesOf(x, m[x].size) : f[p] = m[x].state

\* What the areas give is the state of the pages.
LEMMA StatesEqual ==
    ASSUME NEW s, Tiles(s), NEW f, StatesAre(s, f), NEW p \in Addresses
    PROVE  StateOf(s)[p] = f[p]
  <1>1. PICK v : v = FindVMA(s, p)
    OBVIOUS
  <1>2. v \in DOMAIN s /\ v <= p /\ p < AreaEnd(s, v)
    BY <1>1, FindFacts
  <1>3. v \in Nat /\ s[v].size \in Nat /\ p \in Nat /\ AreaEnd(s, v) = v + s[v].size
    BY <1>2, AreaFacts DEF Addresses
  <1>4. p \in PagesOf(v, s[v].size)
    BY <1>2, <1>3 DEF PagesOf
  <1>5. f[p] = s[v].state
    BY <1>2, <1>4 DEF StatesAre
  <1> QED
    BY <1>1, <1>5 DEF StateOf

\* Areas that give each page the state it had.
LEMMA StatesKept ==
    ASSUME NEW m, NEW s, Tiles(s), StatesAre(s, StateOf(m))
    PROVE  StateOf(s) = StateOf(m)
  <1>1. \A p \in Addresses : StateOf(s)[p] = StateOf(m)[p]
    BY StatesEqual
  <1>2. \A p \in Addresses : m[FindVMA(m, p)].state = s[FindVMA(s, p)].state
    BY <1>1 DEF StateOf
  <1> QED
    BY <1>2 DEF StateOf

\* What SplitVMA makes of the areas.
SplitResult(m, b, o, s) ==
    /\ DOMAIN s = DOMAIN m \cup {b + o} /\ b + o \notin DOMAIN m /\ b + o \in Addresses
    /\ AreaOK(s[b]) /\ s[b].size = o /\ s[b].backing = m[b].backing
    /\ AreaOK(s[b + o]) /\ s[b + o].size = m[b].size - o
    /\ s[b + o].backing = Backing(m[b], o)
    /\ s[b].state = m[b].state /\ s[b + o].state = m[b].state
    /\ \A x \in DOMAIN m : x # b => s[x] = m[x]

\* What SplitVMA makes of an area: its two parts; every other area stays.
LEMMA SplitShape ==
    ASSUME NEW m, Tiles(m), NEW b \in DOMAIN m, NEW o \in Nat, o >= 1, o < m[b].size,
           NEW s, s = SplitVMA(m, b, o)
    PROVE  SplitResult(m, b, o, s)
  <1>1. /\ b \in Nat /\ MaxAddress \in Nat /\ DOMAIN m[b] = AreaFields /\ m[b].size \in Nat
        /\ m[b].backing \in Nat \cup {Null} /\ b + m[b].size <= MaxAddress
        /\ m[b].backing = Null => m[b].perm = {} /\ m[b].state = "Free"
        /\ AreaEnd(m, b) = b + m[b].size
    BY AreaFacts
  <1>2. b + o \in Nat /\ b + o > b /\ b + o < AreaEnd(m, b) /\ b + o \in Addresses
    BY <1>1 DEF Addresses
  <1>3. b + o \notin DOMAIN m
    BY <1>1, <1>2, Apart
  <1>4. /\ DOMAIN s = DOMAIN m \cup {b + o}
        /\ s[b] = [m[b] EXCEPT !.size = o]
        /\ s[b + o] = [m[b] EXCEPT !.size = @ - o, !.backing = Backing(m[b], o)]
        /\ \A x \in DOMAIN m : x # b => s[x] = m[x]
    BY <1>2, <1>3 DEF SplitVMA
  <1>5. Backing(m[b], o) \in Nat \cup {Null} /\ (Backing(m[b], o) = Null <=> m[b].backing = Null)
    BY <1>1, BackingFacts
  <1>6. m[b].size - o \in Nat \ {0} /\ o \in Nat \ {0}
    BY <1>1
  <1>7. AreaOK(s[b]) /\ s[b].size = o /\ s[b].backing = m[b].backing
    BY <1>1, <1>4, <1>6 DEF AreaOK, AreaFields
  <1>8. /\ AreaOK(s[b + o]) /\ s[b + o].size = m[b].size - o
        /\ s[b + o].backing = Backing(m[b], o)
    BY <1>1, <1>4, <1>5, <1>6 DEF AreaOK, AreaFields
  <1>9. s[b].state = m[b].state /\ s[b + o].state = m[b].state
    BY <1>1, <1>4 DEF AreaFields
  <1> QED
    BY <1>2, <1>3, <1>4, <1>7, <1>8, <1>9 DEF SplitResult

\* A split leaves the pages as they are.
LEMMA SplitTiles ==
    ASSUME NEW m, Tiles(m), NEW b \in DOMAIN m, NEW o \in Nat, o >= 1, o < m[b].size,
           NEW s, s = SplitVMA(m, b, o)
    PROVE  /\ Tiles(s)
           /\ \A pt : Matches(m, pt) => Matches(s, pt)
           /\ StateOf(s) = StateOf(m)
           /\ FreesMerged(m) /\ m[b].backing # Null => FreesMerged(s)
  <1>1. /\ DOMAIN s = DOMAIN m \cup {b + o} /\ b + o \notin DOMAIN m /\ b + o \in Addresses
        /\ AreaOK(s[b]) /\ s[b].size = o /\ s[b].backing = m[b].backing
        /\ AreaOK(s[b + o]) /\ s[b + o].size = m[b].size - o
        /\ s[b + o].backing = Backing(m[b], o)
        /\ s[b].state = m[b].state /\ s[b + o].state = m[b].state
        /\ \A x \in DOMAIN m : x # b => s[x] = m[x]
    <2>1. SplitResult(m, b, o, s)
      BY SplitShape
    <2> QED
      BY <2>1 DEF SplitResult
  <1>2. /\ b \in Nat /\ MaxAddress \in Nat /\ m[b].size \in Nat
        /\ m[b].backing \in Nat \cup {Null} /\ AreaEnd(m, b) = b + m[b].size
        /\ AreaEnd(m, b) <= MaxAddress /\ AreaEnd(m, b) \in DOMAIN m \cup {MaxAddress}
    BY AreaFacts DEF Tiles
  <1>3. /\ AreaEnd(s, b) = b + o /\ AreaEnd(s, b + o) = AreaEnd(m, b)
        /\ \A x \in DOMAIN m : x # b => AreaEnd(s, x) = AreaEnd(m, x)
    BY <1>1, <1>2 DEF AreaEnd
  <1>4. \A x \in DOMAIN m : x \in Nat /\ AreaEnd(m, x) \in Nat /\ AreaEnd(m, x) > x
    BY AreaFacts
  <1>5. \A x \in DOMAIN s : AreaOK(s[x])
    BY <1>1 DEF Tiles
  <1>6. \A x \in DOMAIN s : AreaEnd(s, x) \in DOMAIN s \cup {MaxAddress}
    BY <1>1, <1>2, <1>3 DEF Tiles
  <1>7. ASSUME NEW x \in DOMAIN s, NEW n \in DOMAIN s, n > x PROVE n >= AreaEnd(s, x)
    <2>1. CASE x = b
      <3>1. n = b + o \/ (n \in DOMAIN m /\ n >= AreaEnd(m, b))
        BY <1>1, <1>7, <2>1 DEF Tiles
      <3> QED
        BY <1>2, <1>3, <1>4, <2>1, <3>1
    <2>2. CASE x = b + o
      <3>1. n \in DOMAIN m /\ n > b
        BY <1>1, <1>2, <1>4, <1>7, <2>2
      <3> QED
        BY <1>3, <2>2, <3>1 DEF Tiles
    <2>3. CASE x # b /\ x # b + o
      <3>1. x \in DOMAIN m /\ AreaEnd(s, x) = AreaEnd(m, x) /\ x \in Nat /\ AreaEnd(m, x) \in Nat
        BY <1>1, <1>3, <1>4, <2>3
      <3>2. CASE n \in DOMAIN m
        BY <1>7, <3>1, <3>2 DEF Tiles
      <3>3. CASE n = b + o
        <4>1. x < b
          <5> SUFFICES ASSUME x > b PROVE FALSE
            BY <1>2, <2>3, <3>1
          <5>1. x >= AreaEnd(m, b)
            BY <3>1 DEF Tiles
          <5> QED
            BY <1>2, <1>7, <3>1, <3>3, <5>1
        <4>2. b >= AreaEnd(m, x)
          BY <1>2, <3>1, <4>1 DEF Tiles
        <4> QED
          BY <1>2, <3>1, <3>3, <4>2
      <3> QED
        BY <1>1, <3>2, <3>3
    <2> QED
      BY <2>1, <2>2, <2>3
  <1>8. Tiles(s)
    BY <1>1, <1>5, <1>6, <1>7 DEF Tiles
  <1>9. ASSUME NEW pt, Matches(m, pt) PROVE Matches(s, pt)
    <2> SUFFICES ASSUME NEW x \in DOMAIN s, NEW p \in PagesOf(x, s[x].size)
                 PROVE  pt[p] = Backing(s[x], p - x)
      BY <1>9 DEF Matches
    <2>1. CASE x = b
      <3>1. p \in PagesOf(b, m[b].size)
        BY <1>1, <1>2, <2>1 DEF PagesOf
      <3> QED
        BY <1>1, <1>9, <2>1, <3>1 DEF Matches, Backing
    <2>2. CASE x = b + o
      <3>1. p \in PagesOf(b, m[b].size) /\ p \in Int
        BY <1>1, <1>2, <2>2 DEF PagesOf
      <3>2. pt[p] = Backing(m[b], p - b)
        BY <1>9, <3>1 DEF Matches
      <3>3. CASE m[b].backing = Null
        BY <1>1, <2>2, <3>2, <3>3 DEF Backing
      <3>4. CASE m[b].backing # Null
        <4>1. m[b].backing \in Nat /\ s[b + o].backing = m[b].backing + o /\ m[b].backing + o # Null
          BY <1>1, <1>2, <3>4, SpaceAssumption DEF Backing
        <4> QED
          BY <1>2, <2>2, <3>1, <3>2, <3>4, <4>1 DEF Backing
      <3> QED
        BY <3>3, <3>4
    <2>3. CASE x # b /\ x # b + o
      BY <1>1, <1>9, <2>3 DEF Matches
    <2> QED
      BY <2>1, <2>2, <2>3
  <1>10. ASSUME FreesMerged(m), m[b].backing # Null PROVE FreesMerged(s)
    <2>1. s[b].backing # Null /\ s[b + o].backing # Null
      BY <1>1, <1>2, <1>10, BackingFacts
    <2>2. SUFFICES ASSUME NEW x \in DOMAIN s, AreaEnd(s, x) \in DOMAIN s, s[x].backing = Null
                   PROVE  s[AreaEnd(s, x)].backing # Null
      BY DEF FreesMerged
    <2>3. x # b /\ x # b + o /\ x \in DOMAIN m /\ AreaEnd(s, x) = AreaEnd(m, x)
      BY <1>1, <1>3, <2>1, <2>2
    <2>4. CASE AreaEnd(s, x) \in {b, b + o}
      BY <2>1, <2>4
    <2>5. CASE AreaEnd(s, x) \notin {b, b + o}
      BY <1>1, <1>10, <2>2, <2>3, <2>5 DEF FreesMerged
    <2> QED
      BY <2>4, <2>5
  <1>11. StateOf(s) = StateOf(m)
    <2>1. ASSUME NEW x \in DOMAIN s, NEW p \in PagesOf(x, s[x].size)
          PROVE  StateOf(m)[p] = s[x].state
      <3>1. CASE x = b \/ x = b + o
        <4>1. p \in PagesOf(b, m[b].size) /\ s[x].state = m[b].state
          BY <1>1, <1>2, <3>1 DEF PagesOf
        <4> QED
          BY <4>1, StateAt
      <3>2. CASE x # b /\ x # b + o
        <4>1. x \in DOMAIN m /\ s[x] = m[x]
          BY <1>1, <3>2
        <4> QED
          BY <4>1, StateAt
      <3> QED
        BY <3>1, <3>2
    <2>2. StatesAre(s, StateOf(m))
      BY <2>1 DEF StatesAre
    <2> QED
      BY <1>8, <2>2, StatesKept
  <1> QED
    BY <1>8, <1>9, <1>10, <1>11

\* Two Free areas meet at most at the end of the area b.
UnmergedAt(m, b) ==
    \A x \in DOMAIN m :
      AreaEnd(m, x) \in DOMAIN m /\ m[x].backing = Null /\ x # b
        => m[AreaEnd(m, x)].backing # Null

\* Free areas that are all merged are merged apart from any one of them.
LEMMA MergedWeaker ==
    ASSUME NEW m, FreesMerged(m), NEW b
    PROVE  MergedBut(m, b) /\ UnmergedAt(m, b)
  BY DEF FreesMerged, MergedBut, UnmergedAt

\* The exception of one pair of neighbours is an exception of one area.
LEMMA UnmergedWeaker ==
    ASSUME NEW m, NEW b, UnmergedAt(m, b)
    PROVE  MergedBut(m, b)
  BY DEF MergedBut, UnmergedAt

\* Where a split may leave two Free areas.
LEMMA SplitUnmerged ==
    ASSUME NEW m, Tiles(m), NEW b \in DOMAIN m, NEW o \in Nat, o >= 1, o < m[b].size,
           UnmergedAt(m, b), NEW s, s = SplitVMA(m, b, o)
    PROVE  /\ MergedBut(s, b + o)
           /\ FreesMerged(m) => UnmergedAt(s, b)
  <1>1. /\ DOMAIN s = DOMAIN m \cup {b + o} /\ b + o \notin DOMAIN m /\ b + o \in Addresses
        /\ AreaOK(s[b]) /\ s[b].size = o /\ s[b].backing = m[b].backing
        /\ AreaOK(s[b + o]) /\ s[b + o].size = m[b].size - o
        /\ s[b + o].backing = Backing(m[b], o)
        /\ \A x \in DOMAIN m : x # b => s[x] = m[x]
    <2>1. SplitResult(m, b, o, s)
      BY SplitShape
    <2> QED
      BY <2>1 DEF SplitResult
  <1>2. b \in Nat /\ m[b].size \in Nat /\ m[b].backing \in Nat \cup {Null}
    BY AreaFacts
  <1>3. AreaEnd(s, b) = b + o /\ AreaEnd(s, b + o) = AreaEnd(m, b)
    BY <1>1, <1>2 DEF AreaEnd
  <1>4. \A x \in DOMAIN m : x # b => AreaEnd(s, x) = AreaEnd(m, x)
    BY <1>1 DEF AreaEnd
  <1>5. \A x \in DOMAIN m : s[x].backing = m[x].backing
    BY <1>1
  <1>6. s[b + o].backing = Null <=> m[b].backing = Null
    BY <1>1, <1>2, BackingFacts
  <1>7. MergedBut(s, b + o)
    <2> SUFFICES ASSUME NEW x \in DOMAIN s, AreaEnd(s, x) \in DOMAIN s, s[x].backing = Null,
                        x # b + o, AreaEnd(s, x) # b + o
                 PROVE  s[AreaEnd(s, x)].backing # Null
      BY DEF MergedBut
    <2>1. x # b /\ x \in DOMAIN m
      BY <1>1, <1>3
    <2>2. AreaEnd(s, x) = AreaEnd(m, x) /\ AreaEnd(m, x) \in DOMAIN m /\ m[x].backing = Null
      BY <1>1, <1>4, <1>5, <2>1
    <2> QED
      BY <1>5, <2>1, <2>2 DEF UnmergedAt
  <1>8. ASSUME FreesMerged(m) PROVE UnmergedAt(s, b)
    <2> SUFFICES ASSUME NEW x \in DOMAIN s, AreaEnd(s, x) \in DOMAIN s, s[x].backing = Null, x # b
                 PROVE  s[AreaEnd(s, x)].backing # Null
      BY DEF UnmergedAt
    <2>1. CASE x = b + o
      <3>1. AreaEnd(s, x) = AreaEnd(m, b) /\ m[b].backing = Null
        BY <1>3, <1>6, <2>1
      <3>2. AreaEnd(m, b) # b + o
        <4>1. AreaEnd(m, b) = b + m[b].size
          BY DEF AreaEnd
        <4> QED
          BY <1>2, <4>1
      <3>3. AreaEnd(m, b) \in DOMAIN m
        BY <1>1, <3>1, <3>2
      <3> QED
        BY <1>5, <1>8, <3>1, <3>3 DEF FreesMerged
    <2>2. CASE x # b + o
      <3>1. x \in DOMAIN m /\ AreaEnd(s, x) = AreaEnd(m, x) /\ m[x].backing = Null
        BY <1>1, <1>4, <1>5, <2>2
      <3>2. CASE AreaEnd(m, x) \in DOMAIN m
        BY <1>5, <1>8, <3>1, <3>2 DEF FreesMerged
      <3>3. CASE AreaEnd(m, x) \notin DOMAIN m
        <4>1. AreaEnd(m, x) = b + o
          BY <1>1, <3>1, <3>3
        <4>2. AreaEnd(m, x) \in DOMAIN m \cup {MaxAddress}
          BY <3>1 DEF Tiles
        <4>3. /\ b + o < AreaEnd(m, b) /\ AreaEnd(m, b) <= MaxAddress
              /\ AreaEnd(m, b) \in Nat /\ MaxAddress \in Nat
          <5>1. AreaEnd(m, b) = b + m[b].size /\ AreaEnd(m, b) <= MaxAddress /\ MaxAddress \in Nat
            BY AreaFacts
          <5> QED
            BY <1>2, <5>1
        <4>4. b + o # MaxAddress
          BY <1>2, <4>3
        <4> QED
          BY <3>3, <4>1, <4>2, <4>4
      <3> QED
        BY <3>2, <3>3
    <2> QED
      BY <2>1, <2>2
  <1> QED
    BY <1>7, <1>8

\* An area gets new attributes.
LEMMA PutTiles ==
    ASSUME NEW m, Tiles(m), NEW b \in DOMAIN m, NEW vma, AreaOK(vma), vma.size = m[b].size,
           NEW s, s = [m EXCEPT ![b] = vma]
    PROVE  /\ DOMAIN s = DOMAIN m /\ s[b] = vma /\ \A x \in DOMAIN m : x # b => s[x] = m[x]
           /\ \A x \in DOMAIN m : AreaEnd(s, x) = AreaEnd(m, x)
           /\ Tiles(s)
           /\ MergedBut(m, b) => MergedBut(s, b)
  <1>1. DOMAIN s = DOMAIN m /\ s[b] = vma /\ \A x \in DOMAIN m : x # b => s[x] = m[x]
    OBVIOUS
  <1>2. \A x \in DOMAIN m : s[x].size = m[x].size
    BY <1>1
  <1>3. \A x \in DOMAIN m : AreaEnd(s, x) = AreaEnd(m, x)
    BY <1>2 DEF AreaEnd
  <1>4. \A x \in DOMAIN m : AreaOK(s[x])
    BY <1>1 DEF Tiles
  <1>5. Tiles(s)
    BY <1>1, <1>3, <1>4 DEF Tiles
  <1>6. ASSUME MergedBut(m, b) PROVE MergedBut(s, b)
    BY <1>1, <1>3, <1>6 DEF MergedBut
  <1> QED
    BY <1>1, <1>3, <1>5, <1>6

\* UpdatePageTableForVMA keeps the page table in agreement with the areas.
LEMMA PutMatches ==
    ASSUME NEW m, Tiles(m), NEW b \in DOMAIN m, NEW vma, AreaOK(vma), vma.size = m[b].size,
           NEW s, s = [m EXCEPT ![b] = vma], NEW pt, Matches(m, pt),
           NEW qt, qt = UpdatePageTableForVMA(pt, b, vma)
    PROVE  Matches(s, qt)
  <1>1. /\ DOMAIN s = DOMAIN m /\ s[b] = vma /\ \A x \in DOMAIN m : x # b => s[x] = m[x]
        /\ Tiles(s)
    BY PutTiles
  <1>2. b \in Nat /\ vma.size \in Nat /\ vma.backing \in Nat \cup {Null}
    BY AreaFacts DEF AreaOK, AreaFields
  <1>3. \A p \in Addresses : qt[p] = IF p \in PagesOf(b, vma.size) THEN Backing(vma, p - b) ELSE pt[p]
    BY DEF UpdatePageTableForVMA
  <1>4. \A p \in PagesOf(b, vma.size) : p - b \in Nat
    BY <1>2 DEF PagesOf
  <1>5. qt \in [Addresses -> Nat \cup {Null}]
    <2>1. \A p \in Addresses : qt[p] \in Nat \cup {Null}
      BY <1>2, <1>3, <1>4, BackingFacts DEF Matches
    <2> QED
      BY <2>1 DEF UpdatePageTableForVMA
  <1>6. SUFFICES ASSUME NEW x \in DOMAIN s, NEW p \in PagesOf(x, s[x].size)
                 PROVE  qt[p] = Backing(s[x], p - x)
    BY <1>5 DEF Matches
  <1>7. /\ x \in Nat /\ s[x].size \in Nat /\ AreaEnd(s, x) = x + s[x].size
        /\ AreaEnd(s, x) <= MaxAddress /\ MaxAddress \in Nat
    BY <1>1, AreaFacts
  <1>8. p \in Nat /\ p >= x /\ p < AreaEnd(s, x) /\ p \in Addresses
    BY <1>7 DEF PagesOf, Addresses
  <1>9. CASE x = b
    BY <1>1, <1>3, <1>8, <1>9
  <1>10. CASE x # b
    <2>1. p \notin PagesOf(b, vma.size)
      <3> SUFFICES ASSUME p >= b, p < b + vma.size PROVE FALSE
        BY <1>2 DEF PagesOf
      <3>1. AreaEnd(s, b) = b + vma.size
        BY <1>1 DEF AreaEnd
      <3>2. x < AreaEnd(s, b) /\ b < AreaEnd(s, x)
        BY <1>2, <1>7, <1>8, <3>1
      <3>3. b <= x => x = b
        BY <1>1, <3>2, Apart
      <3>4. x <= b => x = b
        BY <1>1, <3>2, Apart
      <3> QED
        BY <1>2, <1>7, <1>10, <3>3, <3>4
    <2>2. pt[p] = Backing(m[x], p - x)
      BY <1>1, <1>10 DEF Matches
    <2> QED
      BY <1>1, <1>3, <1>8, <1>10, <2>1, <2>2
  <1> QED
    BY <1>9, <1>10

\* Writing back the backing an area has leaves the page table as it is.
LEMMA SameTable ==
    ASSUME NEW m, Tiles(m), NEW b \in DOMAIN m, NEW vma, vma.size = m[b].size,
           vma.backing = m[b].backing, NEW pt, Matches(m, pt)
    PROVE  UpdatePageTableForVMA(pt, b, vma) = pt
  <1>1. \A p \in PagesOf(b, vma.size) : Backing(vma, p - b) = pt[p]
    BY DEF Matches, Backing
  <1>2. pt \in [Addresses -> Nat \cup {Null}]
    BY DEF Matches
  <1> QED
    BY <1>1, <1>2 DEF UpdatePageTableForVMA

\* The pages from b on are written with one value.
Written(st, b, n, value) == [p \in Addresses |-> IF p \in PagesOf(b, n) THEN value ELSE st[p]]

\* The pages of an area with new attributes have its new state.
LEMMA PutStates ==
    ASSUME NEW m, Tiles(m), NEW b \in DOMAIN m, NEW vma, AreaOK(vma), vma.size = m[b].size,
           NEW s, s = [m EXCEPT ![b] = vma]
    PROVE  StateOf(s) = Written(StateOf(m), b, vma.size, vma.state)
  <1>1. /\ DOMAIN s = DOMAIN m /\ s[b] = vma /\ \A x \in DOMAIN m : x # b => s[x] = m[x]
        /\ Tiles(s)
    BY PutTiles
  <1>2. PICK f : f = Written(StateOf(m), b, vma.size, vma.state)
    OBVIOUS
  <1>3. \A p \in Addresses : f[p] = IF p \in PagesOf(b, vma.size) THEN vma.state ELSE StateOf(m)[p]
    BY <1>2 DEF Written
  <1>4. ASSUME NEW x \in DOMAIN s, NEW p \in PagesOf(x, s[x].size) PROVE f[p] = s[x].state
    <2>1. p \in Addresses
      BY <1>1, StateAt
    <2>2. CASE x = b
      BY <1>1, <1>3, <2>1, <2>2
    <2>3. CASE x # b
      <3>1. /\ x \in Nat /\ b \in Nat /\ m[x].size \in Nat /\ m[b].size \in Nat
            /\ AreaEnd(m, x) = x + m[x].size /\ AreaEnd(m, b) = b + m[b].size
        BY <1>1, AreaFacts
      <3>2. p \notin PagesOf(b, vma.size)
        <4> SUFFICES ASSUME p \in PagesOf(b, m[b].size) PROVE FALSE
          OBVIOUS
        <4>1. p \in PagesOf(x, m[x].size)
          BY <1>1, <2>3
        <4>2. x < AreaEnd(m, b) /\ b < AreaEnd(m, x)
          BY <3>1, <4>1 DEF PagesOf
        <4>3. b <= x => x = b
          BY <1>1, <4>2, Apart
        <4>4. x <= b => x = b
          BY <1>1, <4>2, Apart
        <4> QED
          BY <2>3, <3>1, <4>3, <4>4
      <3>3. f[p] = StateOf(m)[p]
        BY <1>3, <2>1, <3>2
      <3>4. StateOf(m)[p] = m[x].state
        BY <1>1, <2>3, StateAt
      <3> QED
        BY <1>1, <2>3, <3>3, <3>4
    <2> QED
      BY <2>2, <2>3
  <1>5. StatesAre(s, f)
    BY <1>4 DEF StatesAre
  <1>6. \A p \in Addresses : StateOf(s)[p] = f[p]
    BY <1>1, <1>5, StatesEqual
  <1>7. StateOf(s) = f
    <2>1. \A p \in Addresses : s[FindVMA(s, p)].state = f[p]
      BY <1>6 DEF StateOf
    <2>2. f = [p \in Addresses |-> f[p]]
      BY <1>2 DEF Written
    <2> QED
      BY <2>1, <2>2 DEF StateOf
  <1> QED
    BY <1>2, <1>7

\* Areas that can be merged are both Free or both backed.
LEMMA MergeableBacking ==
    ASSUME NEW m, Tiles(m), NEW b \in DOMAIN m, NEW n \in DOMAIN m, CanBeMergedWith(m, b, n)
    PROVE  m[b].backing = Null <=> m[n].backing = Null
  <1>1. m[b].size \in Nat /\ m[b].backing \in Nat \cup {Null}
    BY AreaFacts
  <1>2. Backing(m[b], m[b].size) = Null <=> m[b].backing = Null
    BY <1>1, BackingFacts
  <1> QED
    BY <1>2 DEF CanBeMergedWith

\* Two Free neighbours can always be merged.
LEMMA FreeMergeable ==
    ASSUME NEW m, Tiles(m), NEW b \in DOMAIN m, NEW n \in DOMAIN m,
           m[b].backing = Null, m[n].backing = Null
    PROVE  CanBeMergedWith(m, b, n)
  <1>1. m[b].perm = {} /\ m[b].state = "Free" /\ m[n].perm = {} /\ m[n].state = "Free"
    BY AreaFacts
  <1> QED
    BY <1>1 DEF CanBeMergedWith, Backing

\* What Join makes of an area and the one that follows it.
LEMMA JoinShape ==
    ASSUME NEW m, Tiles(m), NEW b \in DOMAIN m, NEW n \in DOMAIN m, n = AreaEnd(m, b),
           NEW s, s = Join(m, b)
    PROVE  /\ DOMAIN s = DOMAIN m \ {n} /\ n > b /\ b \in DOMAIN s
           /\ AreaOK(s[b]) /\ s[b].size = m[b].size + m[n].size
           /\ s[b].backing = m[b].backing /\ s[b].state = m[b].state
           /\ \A x \in DOMAIN s : x # b => s[x] = m[x]
           /\ AreaEnd(s, b) = AreaEnd(m, n)
           /\ \A x \in DOMAIN s : x # b => AreaEnd(s, x) = AreaEnd(m, x)
  <1>1. /\ b \in Nat /\ DOMAIN m[b] = AreaFields /\ m[b].size \in Nat /\ m[b].size >= 1
        /\ AreaEnd(m, b) = b + m[b].size /\ m[b].backing \in Nat \cup {Null}
        /\ m[b].backing = Null => m[b].perm = {} /\ m[b].state = "Free"
    BY AreaFacts
  <1>2. n \in Nat /\ m[n].size \in Nat /\ m[n].size >= 1 /\ AreaEnd(m, n) = n + m[n].size
    BY AreaFacts
  <1>3. n > b /\ n = b + m[b].size
    BY <1>1, <1>2
  <1>4. /\ DOMAIN s = DOMAIN m \ {n} /\ b \in DOMAIN s
        /\ s[b] = [m[b] EXCEPT !.size = m[b].size + m[n].size]
        /\ \A x \in DOMAIN s : x # b => s[x] = m[x]
    <2>1. b # n
      BY <1>1, <1>3
    <2> QED
      BY <2>1, <1>1 DEF Join, AreaFields
  <1>5. m[b].size + m[n].size \in Nat \ {0}
    BY <1>1, <1>2
  <1>6. AreaOK(s[b]) /\ s[b].size = m[b].size + m[n].size
        /\ s[b].backing = m[b].backing /\ s[b].state = m[b].state
    BY <1>1, <1>4, <1>5 DEF AreaOK, AreaFields
  <1>7. AreaEnd(s, b) = AreaEnd(m, n)
    BY <1>1, <1>2, <1>3, <1>6 DEF AreaEnd
  <1>8. \A x \in DOMAIN s : x # b => AreaEnd(s, x) = AreaEnd(m, x)
    BY <1>4 DEF AreaEnd
  <1> QED
    BY <1>3, <1>4, <1>6, <1>7, <1>8

\* Only the area that ends where another begins has that end.
LEMMA SameEnd ==
    ASSUME NEW m, Tiles(m), NEW x \in DOMAIN m, NEW y \in DOMAIN m, AreaEnd(m, x) = AreaEnd(m, y)
    PROVE  x = y
  <1>1. /\ x \in Nat /\ y \in Nat /\ AreaEnd(m, x) \in Nat /\ AreaEnd(m, y) \in Nat
        /\ x < AreaEnd(m, x) /\ y < AreaEnd(m, y)
    BY AreaFacts
  <1>2. x <= y => x = y
    BY <1>1, Apart
  <1>3. y <= x => x = y
    BY <1>1, Apart
  <1> QED
    BY <1>1, <1>2, <1>3

\* Joining two similar areas leaves the pages as they are.
LEMMA JoinTiles ==
    ASSUME NEW m, Tiles(m), NEW b \in DOMAIN m, NEW n \in DOMAIN m, n = AreaEnd(m, b),
           CanBeMergedWith(m, b, n), NEW s, s = Join(m, b)
    PROVE  /\ Tiles(s)
           /\ \A pt : Matches(m, pt) => Matches(s, pt)
           /\ StateOf(s) = StateOf(m)
  <1>1. /\ DOMAIN s = DOMAIN m \ {n} /\ n > b /\ b \in DOMAIN s
        /\ AreaOK(s[b]) /\ s[b].size = m[b].size + m[n].size
        /\ s[b].backing = m[b].backing /\ s[b].state = m[b].state
        /\ \A x \in DOMAIN s : x # b => s[x] = m[x]
        /\ AreaEnd(s, b) = AreaEnd(m, n)
        /\ \A x \in DOMAIN s : x # b => AreaEnd(s, x) = AreaEnd(m, x)
    BY JoinShape
  <1>2. /\ b \in Nat /\ m[b].size \in Nat /\ m[b].size >= 1 /\ AreaEnd(m, b) = b + m[b].size
        /\ m[b].backing \in Nat \cup {Null}
    BY AreaFacts
  <1>3. /\ n \in Nat /\ m[n].size \in Nat /\ m[n].size >= 1 /\ AreaEnd(m, n) = n + m[n].size
        /\ AreaEnd(m, n) \in Nat /\ m[n].backing \in Nat \cup {Null}
    BY AreaFacts
  <1>4. \A x \in DOMAIN s : AreaOK(s[x])
    BY <1>1 DEF Tiles
  <1>5. ASSUME NEW x \in DOMAIN s PROVE AreaEnd(s, x) \in DOMAIN s \cup {MaxAddress}
    <2>1. CASE x = b
      <3>1. AreaEnd(m, n) \in DOMAIN m \cup {MaxAddress}
        BY DEF Tiles
      <3>2. AreaEnd(m, n) # n
        BY <1>3
      <3> QED
        BY <1>1, <2>1, <3>1, <3>2
    <2>2. CASE x # b
      <3>1. x \in DOMAIN m /\ AreaEnd(s, x) = AreaEnd(m, x)
        BY <1>1, <2>2
      <3>2. AreaEnd(m, x) \in DOMAIN m \cup {MaxAddress}
        BY <3>1 DEF Tiles
      <3>3. AreaEnd(m, x) # n
        BY <2>2, <3>1, SameEnd
      <3> QED
        BY <1>1, <3>1, <3>2, <3>3
    <2> QED
      BY <2>1, <2>2
  <1>6. ASSUME NEW x \in DOMAIN s, NEW y \in DOMAIN s, y > x PROVE y >= AreaEnd(s, x)
    <2>1. x \in DOMAIN m /\ y \in DOMAIN m /\ y # n /\ y \in Nat
      BY <1>1, AreaFacts
    <2>2. CASE x = b
      <3>1. y >= AreaEnd(m, b)
        BY <1>6, <2>1, <2>2 DEF Tiles
      <3>2. y > n
        BY <1>3, <2>1, <3>1
      <3>3. y >= AreaEnd(m, n)
        BY <2>1, <3>2 DEF Tiles
      <3> QED
        BY <1>1, <2>2, <3>3
    <2>3. CASE x # b
      BY <1>1, <1>6, <2>1, <2>3 DEF Tiles
    <2> QED
      BY <2>2, <2>3
  <1>7. 0 \in DOMAIN s /\ DOMAIN s \subseteq Addresses
    BY <1>1, <1>2, <1>3 DEF Tiles
  <1>8. Tiles(s)
    BY <1>4, <1>5, <1>6, <1>7 DEF Tiles
  <1>9. ASSUME NEW pt, Matches(m, pt) PROVE Matches(s, pt)
    <2> SUFFICES ASSUME NEW x \in DOMAIN s, NEW p \in PagesOf(x, s[x].size)
                 PROVE  pt[p] = Backing(s[x], p - x)
      BY <1>9 DEF Matches
    <2>1. CASE x # b
      BY <1>1, <1>9, <2>1 DEF Matches
    <2>2. CASE x = b /\ p \in PagesOf(b, m[b].size)
      <3>1. pt[p] = Backing(m[b], p - b)
        BY <1>9, <2>2 DEF Matches
      <3> QED
        BY <1>1, <2>2, <3>1 DEF Backing
    <2>3. CASE x = b /\ p \notin PagesOf(b, m[b].size)
      <3>1. p \in PagesOf(n, m[n].size) /\ p \in Int
        BY <1>1, <1>2, <1>3, <2>3 DEF PagesOf
      <3>2. pt[p] = Backing(m[n], p - n)
        BY <1>9, <3>1 DEF Matches
      <3>3. m[n].backing = Backing(m[b], m[b].size)
        BY DEF CanBeMergedWith
      <3>4. CASE m[b].backing = Null
        BY <1>1, <2>3, <3>2, <3>3, <3>4 DEF Backing
      <3>5. CASE m[b].backing # Null
        <4>1. m[b].backing \in Nat /\ m[n].backing = m[b].backing + m[b].size /\ m[n].backing # Null
          BY <1>2, <3>3, <3>5, SpaceAssumption DEF Backing
        <4>2. pt[p] = m[n].backing + (p - n)
          BY <3>2, <4>1 DEF Backing
        <4>3. Backing(s[b], p - b) = m[b].backing + (p - b)
          BY <1>1, <3>5 DEF Backing
        <4>4. m[n].backing + (p - n) = m[b].backing + (p - b)
          BY <1>2, <3>1, <4>1
        <4> QED
          BY <2>3, <4>2, <4>3, <4>4
      <3> QED
        BY <3>4, <3>5
    <2> QED
      BY <2>1, <2>2, <2>3
  <1>10. ASSUME NEW x \in DOMAIN s, NEW p \in PagesOf(x, s[x].size)
         PROVE  StateOf(m)[p] = s[x].state
    <2>1. CASE x # b
      <3>1. x \in DOMAIN m /\ s[x] = m[x]
        BY <1>1, <2>1
      <3> QED
        BY <3>1, StateAt
    <2>2. CASE x = b /\ p \in PagesOf(b, m[b].size)
      BY <1>1, <2>2, StateAt
    <2>3. CASE x = b /\ p \notin PagesOf(b, m[b].size)
      <3>1. p \in PagesOf(n, m[n].size)
        BY <1>1, <1>2, <1>3, <2>3 DEF PagesOf
      <3>2. StateOf(m)[p] = m[n].state
        BY <3>1, StateAt
      <3> QED
        BY <1>1, <2>3, <3>2 DEF CanBeMergedWith
    <2> QED
      BY <2>1, <2>2, <2>3
  <1>11. StateOf(s) = StateOf(m)
    <2>1. StatesAre(s, StateOf(m))
      BY <1>10 DEF StatesAre
    <2> QED
      BY <1>8, <2>1, StatesKept
  <1> QED
    BY <1>8, <1>9, <1>11

\* The pages are the same in both.
SamePages(m, s) == (\A pt : Matches(m, pt) => Matches(s, pt)) /\ StateOf(s) = StateOf(m)

\* If the area b is Free, the one that follows it is not.
NextDiffers(m, b) ==
    AreaEnd(m, b) \in DOMAIN m /\ m[b].backing = Null => m[AreaEnd(m, b)].backing # Null

\* The area that took over b ends at e: not before b did, and what begins behind
\* it stays.
Further(m, s, b, e) == AreaEnd(m, b) <= e /\ \A x \in DOMAIN m : x >= e => x \in DOMAIN s

\* MergeNext keeps the pages, and leaves no Free neighbour behind the area.
LEMMA MergeNextFacts ==
    ASSUME NEW m, Tiles(m), NEW b \in DOMAIN m, MergedBut(m, b), NEW s, s = MergeNext(m, b)
    PROVE  /\ Tiles(s) /\ SamePages(m, s) /\ MergedBut(s, b) /\ NextDiffers(s, b)
           /\ b \in DOMAIN s /\ s[b].backing = m[b].backing
           /\ Further(m, s, b, AreaEnd(s, b))
  <1>1. PICK n : n = AreaEnd(m, b)
    OBVIOUS
  <1>2. CASE n \in DOMAIN m /\ CanBeMergedWith(m, b, n)
    <2>1. s = Join(m, b)
      BY <1>1, <1>2 DEF MergeNext
    <2>2. /\ DOMAIN s = DOMAIN m \ {n} /\ n > b /\ b \in DOMAIN s
          /\ AreaOK(s[b]) /\ s[b].size = m[b].size + m[n].size
          /\ s[b].backing = m[b].backing
          /\ \A x \in DOMAIN s : x # b => s[x] = m[x]
          /\ AreaEnd(s, b) = AreaEnd(m, n)
          /\ \A x \in DOMAIN s : x # b => AreaEnd(s, x) = AreaEnd(m, x)
      BY <1>1, <1>2, <2>1, JoinShape
    <2>3. Tiles(s) /\ SamePages(m, s)
      BY <1>1, <1>2, <2>1, JoinTiles DEF SamePages
    <2>4. b \in Nat /\ n \in Nat /\ n # b /\ AreaEnd(m, n) \in Nat /\ AreaEnd(m, n) > n
      BY <1>2, <2>2, AreaFacts
    <2>5. NextDiffers(s, b)
      <3> SUFFICES ASSUME AreaEnd(s, b) \in DOMAIN s, s[b].backing = Null
                   PROVE  s[AreaEnd(s, b)].backing # Null
        BY DEF NextDiffers
      <3>1. m[n].backing = Null
        BY <1>2, <2>2, MergeableBacking
      <3>2. AreaEnd(m, n) \in DOMAIN m /\ AreaEnd(m, n) # b
        BY <2>2, <2>4
      <3>3. m[AreaEnd(m, n)].backing # Null
        BY <1>2, <2>4, <3>1, <3>2 DEF MergedBut
      <3> QED
        BY <2>2, <3>2, <3>3
    <2>6. MergedBut(s, b)
      BY <2>2 DEF MergedBut
    <2>7. Further(m, s, b, AreaEnd(s, b))
      <3>1. AreaEnd(m, b) <= AreaEnd(s, b)
        BY <1>1, <2>2, <2>4
      <3>2. \A x \in DOMAIN m : x >= AreaEnd(s, b) => x # n
        BY <2>2, <2>4
      <3> QED
        BY <2>2, <3>1, <3>2 DEF Further
    <2> QED
      BY <2>2, <2>3, <2>5, <2>6, <2>7
  <1>3. CASE ~(n \in DOMAIN m /\ CanBeMergedWith(m, b, n))
    <2>1. s = m
      BY <1>1, <1>3 DEF MergeNext
    <2>2. NextDiffers(m, b)
      BY <1>1, <1>3, FreeMergeable DEF NextDiffers
    <2>3. Further(m, m, b, AreaEnd(m, b))
      BY AreaFacts DEF Further
    <2> QED
      BY <2>1, <2>2, <2>3 DEF SamePages
  <1> QED
    BY <1>2, <1>3

\* The area before b ends where b begins.
LEMMA PreviousFacts ==
    ASSUME NEW m, Tiles(m), NEW b \in DOMAIN m, NEW before, before = {x \in DOMAIN m : x < b},
           before # {}
    PROVE  /\ Max(before) \in DOMAIN m /\ Max(before) < b
           /\ AreaEnd(m, Max(before)) = b
  <1>1. b \in Nat /\ b < MaxAddress /\ MaxAddress \in Nat
    BY AreaFacts
  <1>2. \A x \in before : x \in Nat /\ x <= b
    BY <1>1, AreaFacts
  <1>3. before \subseteq Nat /\ \A x \in before : x <= b
    BY <1>2
  <1>4. PICK p : p = Max(before)
    OBVIOUS
  <1>5. p \in before /\ \A y \in before : p >= y
    BY <1>1, <1>3, <1>4, MaxNat
  <1>6. p \in DOMAIN m /\ p < b
    BY <1>5
  <1>7. /\ p \in Nat /\ AreaEnd(m, p) \in Nat /\ AreaEnd(m, p) > p /\ b >= AreaEnd(m, p)
        /\ AreaEnd(m, p) \in DOMAIN m \cup {MaxAddress}
    BY <1>6, AreaFacts DEF Tiles
  <1>8. ASSUME AreaEnd(m, p) < b PROVE FALSE
    <2>1. AreaEnd(m, p) \in before
      BY <1>1, <1>7, <1>8
    <2> QED
      BY <1>5, <1>7, <2>1
  <1> QED
    BY <1>1, <1>4, <1>6, <1>7, <1>8

\* What MergeAdjacent makes of areas that may be unmerged around b.
LEMMA MergeAdjacentFacts ==
    ASSUME NEW m, Tiles(m), NEW b \in DOMAIN m, MergedBut(m, b), NEW r, r = MergeAdjacent(m, b)
    PROVE  /\ Tiles(r.vma_map) /\ SamePages(m, r.vma_map) /\ FreesMerged(r.vma_map)
           /\ r.at \in DOMAIN r.vma_map /\ r.at <= b /\ b < AreaEnd(r.vma_map, r.at)
           /\ r.vma_map[r.at].backing = Null <=> m[b].backing = Null
           /\ Further(m, r.vma_map, b, AreaEnd(r.vma_map, r.at))
  <1>1. PICK m1 : m1 = MergeNext(m, b)
    OBVIOUS
  <1>2. /\ Tiles(m1) /\ SamePages(m, m1) /\ MergedBut(m1, b) /\ NextDiffers(m1, b)
        /\ b \in DOMAIN m1 /\ m1[b].backing = m[b].backing
        /\ Further(m, m1, b, AreaEnd(m1, b))
    BY <1>1, MergeNextFacts
  <1>3. PICK before : before = {x \in DOMAIN m1 : x < b}
    OBVIOUS
  <1>4. PICK p : p = Max(before)
    OBVIOUS
  <1>5. b \in Nat /\ b < AreaEnd(m1, b) /\ AreaEnd(m1, b) \in Nat
    BY <1>2, AreaFacts
  <1>6. CASE before # {} /\ CanBeMergedWith(m1, p, b)
    <2>1. r = [vma_map |-> Join(m1, p), at |-> p]
      BY <1>1, <1>3, <1>4, <1>6 DEF MergeAdjacent
    <2>2. p \in DOMAIN m1 /\ p < b /\ AreaEnd(m1, p) = b
      BY <1>2, <1>3, <1>4, <1>6, PreviousFacts
    <2>3. PICK s : s = Join(m1, p)
      OBVIOUS
    <2>4. /\ DOMAIN s = DOMAIN m1 \ {b} /\ b > p /\ p \in DOMAIN s
          /\ AreaOK(s[p]) /\ s[p].size = m1[p].size + m1[b].size
          /\ s[p].backing = m1[p].backing
          /\ \A x \in DOMAIN s : x # p => s[x] = m1[x]
          /\ AreaEnd(s, p) = AreaEnd(m1, b)
          /\ \A x \in DOMAIN s : x # p => AreaEnd(s, x) = AreaEnd(m1, x)
      BY <1>2, <2>2, <2>3, JoinShape
    <2>5. Tiles(s) /\ SamePages(m1, s)
      BY <1>2, <1>6, <2>2, <2>3, JoinTiles DEF SamePages
    <2>6. m1[p].backing = Null <=> m1[b].backing = Null
      BY <1>2, <1>6, <2>2, MergeableBacking
    <2>7. p \in Nat
      BY <1>2, <2>2, AreaFacts
    <2>8. FreesMerged(s)
      <3> SUFFICES ASSUME NEW x \in DOMAIN s, AreaEnd(s, x) \in DOMAIN s, s[x].backing = Null
                   PROVE  s[AreaEnd(s, x)].backing # Null
        BY DEF FreesMerged
      <3>1. \A y \in DOMAIN s : y \in DOMAIN m1 /\ y # b /\ s[y].backing = m1[y].backing
        BY <2>4
      <3>2. CASE x = p
        <4>1. AreaEnd(m1, b) \in DOMAIN m1 /\ m1[b].backing = Null
          BY <2>4, <2>6, <3>1, <3>2
        <4>2. m1[AreaEnd(m1, b)].backing # Null
          BY <1>2, <4>1 DEF NextDiffers
        <4> QED
          BY <2>4, <3>1, <3>2, <4>2
      <3>3. CASE x # p
        <4>1. AreaEnd(s, x) = AreaEnd(m1, x) /\ x \in DOMAIN m1 /\ x # b /\ m1[x].backing = Null
          BY <2>4, <3>1, <3>3
        <4>2. AreaEnd(m1, x) \in DOMAIN m1 /\ AreaEnd(m1, x) # b
          BY <3>1, <4>1
        <4>3. m1[AreaEnd(m1, x)].backing # Null
          BY <1>2, <4>1, <4>2 DEF MergedBut
        <4> QED
          BY <3>1, <4>1, <4>3
      <3> QED
        BY <3>2, <3>3
    <2>9. r.vma_map = s /\ r.at = p
      BY <2>1, <2>3
    <2>10. SamePages(m, s)
      BY <1>2, <2>5 DEF SamePages
    <2>11. p <= b /\ b < AreaEnd(s, p)
      BY <1>5, <2>2, <2>4, <2>7
    <2>12. Further(m, s, b, AreaEnd(s, p))
      BY <1>2, <1>5, <2>4 DEF Further
    <2> QED
      BY <1>2, <2>4, <2>5, <2>6, <2>8, <2>9, <2>10, <2>11, <2>12
  <1>7. CASE ~(before # {} /\ CanBeMergedWith(m1, p, b))
    <2>1. r.vma_map = m1 /\ r.at = b
      BY <1>1, <1>3, <1>4, <1>7 DEF MergeAdjacent
    <2>2. FreesMerged(m1)
      <3> SUFFICES ASSUME NEW x \in DOMAIN m1, AreaEnd(m1, x) \in DOMAIN m1, m1[x].backing = Null
                   PROVE  m1[AreaEnd(m1, x)].backing # Null
        BY DEF FreesMerged
      <3>1. CASE x = b
        BY <1>2, <3>1 DEF NextDiffers
      <3>2. CASE x # b /\ AreaEnd(m1, x) # b
        BY <1>2, <3>2 DEF MergedBut
      <3>3. CASE AreaEnd(m1, x) = b
        <4>1. x \in before
          BY <1>2, <1>3, <1>5, <3>3, AreaFacts
        <4>2. p \in DOMAIN m1 /\ AreaEnd(m1, p) = b
          BY <1>2, <1>3, <1>4, <4>1, PreviousFacts
        <4>3. p = x
          BY <1>2, <3>3, <4>2, SameEnd
        <4>4. ~CanBeMergedWith(m1, x, b)
          BY <1>7, <4>1, <4>3
        <4> QED
          BY <1>2, <3>3, <4>4, FreeMergeable
      <3> QED
        BY <3>1, <3>2, <3>3
    <2> QED
      BY <1>2, <1>5, <2>1, <2>2
  <1> QED
    BY <1>6, <1>7

-----------------------------------------------------------------------------
(***************************************************************************)
(* Address spaces, and what the operations give back.                      *)
(***************************************************************************)
GoodSpace(sp) ==
    /\ "vma_map" \in DOMAIN sp /\ "page_table" \in DOMAIN sp
    /\ Tiles(sp.vma_map) /\ FreesMerged(sp.vma_map) /\ Matches(sp.vma_map, sp.page_table)

\* A result of an operation.
IsResult(r) ==
    r = [ok |-> r.ok, at |-> r.at, vma_map |-> r.vma_map, page_table |-> r.page_table]

\* What Replace promises.
Replaced(sp, b, vma, r) ==
    /\ GoodSpace(r) /\ IsResult(r) /\ r.ok = TRUE
    /\ r.at \in DOMAIN r.vma_map /\ r.at <= b /\ b < AreaEnd(r.vma_map, r.at)
    /\ r.vma_map[r.at].backing = Null <=> vma.backing = Null
    /\ r.page_table = UpdatePageTableForVMA(sp.page_table, b, vma)
    /\ StateOf(r.vma_map) = Written(StateOf(sp.vma_map), b, vma.size, vma.state)
    /\ Further(sp.vma_map, r.vma_map, b, AreaEnd(r.vma_map, r.at))

\* The end of every operation: new attributes, new pages, merged neighbours.
LEMMA ReplaceFacts ==
    ASSUME NEW sp, Tiles(sp.vma_map), Matches(sp.vma_map, sp.page_table),
           NEW b \in DOMAIN sp.vma_map, MergedBut(sp.vma_map, b),
           NEW vma, AreaOK(vma), vma.size = sp.vma_map[b].size,
           NEW r, r = Replace(sp, b, vma)
    PROVE  Replaced(sp, b, vma, r)
  <1>1. PICK m : m = [sp.vma_map EXCEPT ![b] = vma]
    OBVIOUS
  <1>2. /\ DOMAIN m = DOMAIN sp.vma_map /\ m[b] = vma /\ Tiles(m) /\ MergedBut(m, b)
        /\ AreaEnd(m, b) = AreaEnd(sp.vma_map, b)
    BY <1>1, PutTiles
  <1>3. PICK qt : qt = UpdatePageTableForVMA(sp.page_table, b, vma)
    OBVIOUS
  <1>4. Matches(m, qt)
    BY <1>1, <1>3, PutMatches
  <1>5. PICK g : g = MergeAdjacent(m, b)
    OBVIOUS
  <1>6. /\ Tiles(g.vma_map) /\ SamePages(m, g.vma_map) /\ FreesMerged(g.vma_map)
        /\ g.at \in DOMAIN g.vma_map /\ g.at <= b /\ b < AreaEnd(g.vma_map, g.at)
        /\ g.vma_map[g.at].backing = Null <=> m[b].backing = Null
        /\ Further(m, g.vma_map, b, AreaEnd(g.vma_map, g.at))
    BY <1>2, <1>5, MergeAdjacentFacts
  <1>7. r = [ok |-> TRUE, at |-> g.at, vma_map |-> g.vma_map, page_table |-> qt]
    BY <1>1, <1>3, <1>5 DEF Replace
  <1>8. r.ok = TRUE /\ r.at = g.at /\ r.vma_map = g.vma_map /\ r.page_table = qt /\ IsResult(r)
    BY <1>7 DEF IsResult
  <1>9. Matches(g.vma_map, qt)
    BY <1>4, <1>6 DEF SamePages
  <1>10. StateOf(m) = Written(StateOf(sp.vma_map), b, vma.size, vma.state)
    BY <1>1, PutStates
  <1>11. StateOf(r.vma_map) = Written(StateOf(sp.vma_map), b, vma.size, vma.state)
    BY <1>6, <1>8, <1>10 DEF SamePages
  <1>12. GoodSpace(r)
    BY <1>6, <1>8, <1>9 DEF GoodSpace, IsResult
  <1>13. Further(sp.vma_map, r.vma_map, b, AreaEnd(r.vma_map, r.at))
    BY <1>2, <1>6, <1>8 DEF Further
  <1> QED
    BY <1>2, <1>3, <1>6, <1>8, <1>11, <1>12, <1>13 DEF Replaced

-----------------------------------------------------------------------------
(***************************************************************************)
(* Carving an area out of a Free one.                                      *)
(***************************************************************************)
LEMMA CarveFacts ==
    ASSUME NEW m, Tiles(m), FreesMerged(m), NEW base \in Nat, NEW size \in Nat, size >= 1,
           CanCarveVMA(m, base, size), NEW c, c = CarveVMA(m, base, size)
    PROVE  /\ Tiles(c) /\ SamePages(m, c) /\ MergedBut(c, base)
           /\ base \in DOMAIN c /\ c[base].size = size
           /\ base + size <= MaxAddress /\ base \in Addresses
  <1>1. PICK v : v = FindVMA(m, base)
    OBVIOUS
  <1>2. base \in Addresses /\ base + size <= AreaEnd(m, v)
    BY <1>1, SpaceAssumption DEF CanCarveVMA, Addresses
  <1>3. v \in DOMAIN m /\ v <= base /\ base < AreaEnd(m, v)
    BY <1>1, <1>2, FindFacts
  <1>4. /\ v \in Nat /\ m[v].size \in Nat /\ AreaEnd(m, v) = v + m[v].size
        /\ AreaEnd(m, v) \in Nat /\ AreaEnd(m, v) <= MaxAddress /\ MaxAddress \in Nat
    BY <1>3, AreaFacts
  <1>5. PICK o : o = base + size - v
    OBVIOUS
  <1>6. o \in Nat /\ o >= 1 /\ o <= m[v].size
    BY <1>2, <1>3, <1>4, <1>5
  <1>7. PICK m1 : m1 = SplitIf(m, v, o)
    OBVIOUS
  <1>8. /\ Tiles(m1) /\ SamePages(m, m1) /\ UnmergedAt(m1, v)
        /\ v \in DOMAIN m1 /\ m1[v].size = o
    <2>1. CASE o = m[v].size
      <3>1. m1 = m
        BY <1>7, <2>1 DEF SplitIf
      <3>2. UnmergedAt(m, v)
        BY MergedWeaker
      <3> QED
        BY <1>3, <2>1, <3>1, <3>2 DEF SamePages
    <2>2. CASE o # m[v].size
      <3>1. o < m[v].size /\ o # 0
        BY <1>4, <1>6, <2>2
      <3>2. m1 = SplitVMA(m, v, o)
        BY <1>7, <2>2, <3>1 DEF SplitIf
      <3>3. Tiles(m1) /\ SamePages(m, m1)
        BY <1>3, <1>6, <3>1, <3>2, SplitTiles DEF SamePages
      <3>4. UnmergedAt(m, v)
        BY MergedWeaker
      <3>5. UnmergedAt(m1, v)
        BY <1>3, <1>6, <3>1, <3>2, <3>4, SplitUnmerged
      <3>6. v \in DOMAIN m1 /\ m1[v].size = o
        <4>1. SplitResult(m, v, o, m1)
          BY <1>3, <1>6, <3>1, <3>2, SplitShape
        <4> QED
          BY <1>3, <4>1 DEF SplitResult
      <3> QED
        BY <3>3, <3>5, <3>6
    <2> QED
      BY <2>1, <2>2
  <1>9. PICK o2 : o2 = base - v
    OBVIOUS
  <1>10. o2 \in Nat /\ o2 < o /\ o - o2 = size /\ v + o2 = base
    BY <1>3, <1>4, <1>5, <1>9
  <1>11. c = SplitIf(m1, v, o2)
    BY <1>1, <1>5, <1>7, <1>9 DEF CarveVMA
  <1>12. base + size <= MaxAddress
    BY <1>2, <1>4
  <1>13. CASE o2 = 0
    <2>1. c = m1 /\ v = base /\ o = size
      BY <1>4, <1>6, <1>10, <1>11, <1>13 DEF SplitIf
    <2>2. MergedBut(m1, v)
      BY <1>8, UnmergedWeaker
    <2> QED
      BY <1>2, <1>8, <1>12, <2>1, <2>2
  <1>14. CASE o2 # 0
    <2>1. c = SplitVMA(m1, v, o2)
      BY <1>6, <1>8, <1>10, <1>11, <1>14 DEF SplitIf
    <2>2. o2 >= 1 /\ o2 < m1[v].size
      BY <1>8, <1>10, <1>14
    <2>3. Tiles(c) /\ SamePages(m1, c)
      BY <1>8, <1>10, <2>1, <2>2, SplitTiles DEF SamePages
    <2>4. MergedBut(c, v + o2)
      BY <1>8, <1>10, <2>1, <2>2, SplitUnmerged
    <2>5. SplitResult(m1, v, o2, c)
      BY <1>8, <1>10, <2>1, <2>2, SplitShape
    <2>6. base \in DOMAIN c /\ c[base].size = size /\ MergedBut(c, base)
      BY <1>8, <1>10, <2>4, <2>5 DEF SplitResult
    <2>7. SamePages(m, c)
      BY <1>8, <2>3 DEF SamePages
    <2> QED
      BY <1>2, <1>12, <2>3, <2>6, <2>7
  <1> QED
    BY <1>13, <1>14

\* The pages are backed and have the states they had.
SameView(sp, r) == r.page_table = sp.page_table /\ StateOf(r.vma_map) = StateOf(sp.vma_map)

\* A range of pages is backed by the memory from `memory` on.
PagesMapped(pt, target, memory, size) ==
    [p \in Addresses |-> IF p \in PagesOf(target, size) THEN memory + (p - target) ELSE pt[p]]

\* What MapBackingMemory does to the pages.
MapEffect(sp, target, memory, size, state, r) ==
    \/ /\ r.ok = TRUE
       /\ r.page_table = PagesMapped(sp.page_table, target, memory, size)
       /\ StateOf(r.vma_map) = Written(StateOf(sp.vma_map), target, size, state)
    \/ r.ok = FALSE /\ SameView(sp, r)

\* A call that fails leaves the address space as it was.
LEMMA FailureFacts ==
    ASSUME NEW sp, GoodSpace(sp), NEW r, r = Failure(sp)
    PROVE  GoodSpace(r) /\ IsResult(r) /\ r.ok = FALSE /\ r.at = 0 /\ SameView(sp, r)
  BY DEF Failure, GoodSpace, IsResult, SameView

\* A range is mapped whole or not at all.
LEMMA MapBackingFacts ==
    ASSUME NEW sp, GoodSpace(sp), NEW target \in Nat, NEW memory \in Nat, NEW size \in Nat,
           size >= 1, NEW state,
           NEW r, r = MapBackingMemory(sp, target, memory, size, state)
    PROVE  /\ GoodSpace(r) /\ IsResult(r) /\ r.ok \in BOOLEAN
           /\ r.ok => /\ target + size <= MaxAddress /\ target \in Addresses
                      /\ r.at \in DOMAIN r.vma_map /\ r.vma_map[r.at].backing # Null
           /\ MapEffect(sp, target, memory, size, state, r)
  <1>1. CASE CanCarveVMA(sp.vma_map, target, size)
    <2>1. PICK c : c = CarveVMA(sp.vma_map, target, size)
      OBVIOUS
    <2>2. /\ Tiles(c) /\ SamePages(sp.vma_map, c) /\ MergedBut(c, target)
          /\ target \in DOMAIN c /\ c[target].size = size
          /\ target + size <= MaxAddress /\ target \in Addresses
      BY <1>1, <2>1, CarveFacts DEF GoodSpace
    <2>3. PICK s : s = [sp EXCEPT !.vma_map = c]
      OBVIOUS
    <2>4. s.vma_map = c /\ s.page_table = sp.page_table
      BY <2>3 DEF GoodSpace
    <2>5. PICK vma : vma = [size |-> size, perm |-> ReadWrite, state |-> state, backing |-> memory]
      OBVIOUS
    <2>6. AreaOK(vma) /\ vma.size = size /\ vma.backing # Null
      <3>2. memory # Null
        <4>1. memory \in Int
          OBVIOUS
        <4> QED
          BY <4>1, SpaceAssumption
      <3> QED
        <4>1. vma.backing # Null
          BY <2>5, <3>2
        <4>2. DOMAIN vma = AreaFields /\ vma.size = size /\ vma.backing = memory
          BY <2>5 DEF AreaFields
        <4>3. size \in Nat \ {0}
          OBVIOUS
        <4> QED
          BY <4>1, <4>2, <4>3 DEF AreaOK
    <2>7. r = Replace(s, target, vma)
      BY <1>1, <2>1, <2>3, <2>5 DEF MapBackingMemory
    <2>8. /\ Tiles(s.vma_map) /\ Matches(s.vma_map, s.page_table)
          /\ target \in DOMAIN s.vma_map /\ MergedBut(s.vma_map, target)
          /\ vma.size = s.vma_map[target].size
      BY <2>2, <2>4, <2>6 DEF GoodSpace, SamePages
    <2>9. Replaced(s, target, vma, r)
      BY <2>6, <2>7, <2>8, ReplaceFacts
    <2>10. UpdatePageTableForVMA(sp.page_table, target, vma)
              = PagesMapped(sp.page_table, target, memory, size)
      <3>1. \A o : Backing(vma, o) = memory + o
        BY <2>5, <2>6 DEF Backing
      <3> QED
        BY <2>5, <3>1 DEF UpdatePageTableForVMA, PagesMapped
    <2>11. StateOf(c) = StateOf(sp.vma_map) /\ vma.state = state /\ vma.size = size
      BY <2>2, <2>5 DEF SamePages
    <2>12. MapEffect(sp, target, memory, size, state, r)
      BY <2>4, <2>9, <2>10, <2>11 DEF Replaced, MapEffect
    <2> QED
      BY <2>2, <2>6, <2>9, <2>12 DEF Replaced
  <1>2. CASE ~CanCarveVMA(sp.vma_map, target, size)
    <2>1. r = Failure(sp)
      BY <1>2 DEF MapBackingMemory
    <2>2. GoodSpace(r) /\ IsResult(r) /\ r.ok = FALSE /\ SameView(sp, r)
      BY <2>1, FailureFacts
    <2> QED
      BY <2>2 DEF MapEffect
  <1> QED
    BY <1>1, <1>2

\* An area that is written with the state it has leaves the states alone.
LEMMA StateWrittenBack ==
    ASSUME NEW m, Tiles(m), NEW b \in DOMAIN m
    PROVE  Written(StateOf(m), b, m[b].size, m[b].state) = StateOf(m)
  <1>1. PICK st, state : st = StateOf(m) /\ state = m[b].state
    OBVIOUS
  <1>2. \A p \in PagesOf(b, m[b].size) : st[p] = state
    BY <1>1, StateAt
  <1>3. st = [p \in Addresses |-> st[p]]
    BY <1>1 DEF StateOf
  <1>4. Written(st, b, m[b].size, state) = st
    BY <1>2, <1>3 DEF Written
  <1> QED
    BY <1>1, <1>4

\* Reprotect keeps the address space good.
LEMMA ReprotectFacts ==
    ASSUME NEW sp, GoodSpace(sp), NEW b \in DOMAIN sp.vma_map, sp.vma_map[b].backing # Null,
           NEW perms, NEW r, r = Reprotect(sp, b, perms)
    PROVE  GoodSpace(r) /\ IsResult(r) /\ r.ok = TRUE /\ SameView(sp, r)
  <1>1. PICK vma : vma = [sp.vma_map[b] EXCEPT !.perm = perms]
    OBVIOUS
  <1>2. Tiles(sp.vma_map) /\ MergedBut(sp.vma_map, b) /\ Matches(sp.vma_map, sp.page_table)
    BY MergedWeaker DEF GoodSpace
  <1>3. AreaOK(sp.vma_map[b])
    BY <1>2 DEF Tiles
  <1>4. /\ AreaOK(vma) /\ vma.size = sp.vma_map[b].size
        /\ vma.backing = sp.vma_map[b].backing /\ vma.state = sp.vma_map[b].state
    BY <1>1, <1>3 DEF AreaOK, AreaFields
  <1>5. r = Replace(sp, b, vma)
    BY <1>1 DEF Reprotect
  <1>6. Replaced(sp, b, vma, r)
    BY <1>2, <1>4, <1>5, ReplaceFacts
  <1>7. r.page_table = sp.page_table
    BY <1>2, <1>4, <1>6, SameTable DEF Replaced
  <1>8. StateOf(r.vma_map) = StateOf(sp.vma_map)
    BY <1>2, <1>4, <1>6, StateWrittenBack DEF Replaced
  <1> QED
    BY <1>6, <1>7, <1>8 DEF Replaced, SameView

\* One round of the loop that maps the blocks of a list.
BackingBlock == [memory : Nat, size : Nat \ {0}]

MapOK(s) == GoodSpace(s) /\ IsResult(s) /\ s.at \in Nat

\* What the round does to the pages.
BlockEffect(s, bk, state, r) ==
    \/ /\ r.page_table = PagesMapped(s.page_table, s.at, bk.memory, bk.size)
       /\ StateOf(r.vma_map) = Written(StateOf(s.vma_map), s.at, bk.size, state)
    \/ SameView(s, r)

\* One round of the loop that maps blocks.
LEMMA MapBlockFacts ==
    ASSUME NEW s, MapOK(s), NEW bk \in BackingBlock, NEW state,
           NEW perms
    PROVE  /\ MapOK(MapBlock(s, bk, state, perms))
           /\ MapBlock(s, bk, state, perms).at = s.at + bk.size
           /\ BlockEffect(s, bk, state, MapBlock(s, bk, state, perms))
  <1>1. bk.memory \in Nat /\ bk.size \in Nat /\ bk.size >= 1 /\ s.at \in Nat
    BY DEF BackingBlock, MapOK
  <1>2. PICK mapped : mapped = MapBackingMemory(s, s.at, bk.memory, bk.size, state)
    OBVIOUS
  <1>3. /\ GoodSpace(mapped) /\ IsResult(mapped) /\ mapped.ok \in BOOLEAN
        /\ mapped.ok => mapped.at \in DOMAIN mapped.vma_map /\ mapped.vma_map[mapped.at].backing # Null
        /\ MapEffect(s, s.at, bk.memory, bk.size, state, mapped)
    BY <1>1, <1>2, MapBackingFacts DEF MapOK
  <1>4. PICK done : done = IF mapped.ok THEN Reprotect(mapped, mapped.at, perms) ELSE mapped
    OBVIOUS
  <1>5. GoodSpace(done) /\ IsResult(done) /\ SameView(mapped, done)
    <2>1. CASE mapped.ok
      BY <1>3, <1>4, <2>1, ReprotectFacts
    <2>2. CASE ~mapped.ok
      BY <1>3, <1>4, <2>2 DEF SameView
    <2> QED
      BY <2>1, <2>2
  <1>6. PICK r : r = MapBlock(s, bk, state, perms)
    OBVIOUS
  <1>7. r = [done EXCEPT !.ok = s.ok /\ mapped.ok, !.at = s.at + bk.size]
    BY <1>2, <1>4, <1>6 DEF MapBlock
  <1>8. /\ r.at = s.at + bk.size /\ r.vma_map = done.vma_map /\ r.page_table = done.page_table
        /\ IsResult(r)
    BY <1>5, <1>7 DEF IsResult
  <1>9. GoodSpace(r)
    BY <1>5, <1>8 DEF GoodSpace, IsResult
  <1>10. BlockEffect(s, bk, state, r)
    BY <1>3, <1>5, <1>8 DEF BlockEffect, MapEffect, SameView
  <1> QED
    BY <1>1, <1>6, <1>8, <1>9, <1>10 DEF MapOK

-----------------------------------------------------------------------------
(***************************************************************************)
(* Carving a range of areas, none of them Free, and walking through it.    *)
(***************************************************************************)

\* A split of an area that is not Free, or none.
LEMMA SplitIfFacts ==
    ASSUME NEW m, Tiles(m), FreesMerged(m), NEW b \in DOMAIN m, NEW o \in Nat, o < m[b].size,
           o # 0 => m[b].backing # Null, NEW s, s = SplitIf(m, b, o)
    PROVE  /\ Tiles(s) /\ SamePages(m, s) /\ FreesMerged(s)
           /\ b + o \in DOMAIN s /\ DOMAIN m \subseteq DOMAIN s
  <1>1. b \in Nat /\ m[b].size \in Nat
    BY AreaFacts
  <1>2. CASE o = 0
    <2>1. s = m /\ b + o = b
      BY <1>1, <1>2 DEF SplitIf
    <2> QED
      BY <2>1 DEF SamePages
  <1>3. CASE o # 0
    <2>1. s = SplitVMA(m, b, o) /\ o >= 1
      BY <1>1, <1>3 DEF SplitIf
    <2>2. Tiles(s) /\ SamePages(m, s) /\ FreesMerged(s)
      BY <1>3, <2>1, SplitTiles DEF SamePages
    <2>3. b + o \in DOMAIN s /\ DOMAIN m \subseteq DOMAIN s
      BY <2>1 DEF SplitVMA
    <2> QED
      BY <2>2, <2>3
  <1> QED
    BY <1>2, <1>3

\* Every page of the range is backed.
RangeBacked(pt, target, end) ==
    \A p \in Addresses : target <= p /\ p < end => pt[p] # Null

\* CanCarveVMARange: every page of the range is backed.
LEMMA CanCarveBacked ==
    ASSUME NEW m, Tiles(m), NEW pt, Matches(m, pt), NEW target \in Addresses, NEW size \in Nat,
           CanCarveVMARange(m, target, size)
    PROVE  RangeBacked(pt, target, target + size)
  <1> SUFFICES ASSUME NEW p \in Addresses, target <= p, p < target + size PROVE pt[p] # Null
    BY DEF RangeBacked
  <1>1. target \in Nat /\ p \in Nat
    BY DEF Addresses
  <1>2. PICK f : f = FindVMA(m, target)
    OBVIOUS
  <1>3. f \in DOMAIN m /\ f <= target
    BY <1>2, FindFacts
  <1>4. PICK v : v = FindVMA(m, p)
    OBVIOUS
  <1>5. v \in DOMAIN m /\ v <= p /\ p < AreaEnd(m, v) /\ \A b \in DOMAIN m : b <= p => b <= v
    BY <1>4, FindFacts
  <1>6. f \in Nat /\ v \in Nat /\ m[v].size \in Nat /\ m[v].backing \in Nat \cup {Null}
    BY <1>3, <1>5, AreaFacts
  <1>7. f <= v /\ v < target + size
    BY <1>1, <1>3, <1>5, <1>6
  <1>8. v \in AreasIn(m, target, target + size)
    BY <1>2, <1>5, <1>6, <1>7 DEF AreasIn
  <1>9. m[v].backing # Null
    BY <1>8 DEF CanCarveVMARange
  <1>10. p - v \in Nat /\ p \in PagesOf(v, m[v].size)
    BY <1>1, <1>5, <1>6 DEF PagesOf, AreaEnd
  <1>11. pt[p] = Backing(m[v], p - v)
    BY <1>5, <1>10 DEF Matches
  <1> QED
    BY <1>6, <1>9, <1>10, <1>11, BackingFacts

\* An area that holds a page of a backed range is not Free.
LEMMA BackedArea ==
    ASSUME NEW m, Tiles(m), NEW pt, Matches(m, pt), NEW target, NEW end,
           RangeBacked(pt, target, end), NEW v \in DOMAIN m, NEW p \in Addresses,
           target <= p, p < end, v <= p, p < AreaEnd(m, v)
    PROVE  m[v].backing # Null
  <1>1. v \in Nat /\ m[v].size \in Nat /\ m[v].backing \in Nat \cup {Null} /\ p \in Nat
    BY AreaFacts DEF Addresses
  <1>2. p - v \in Nat /\ p \in PagesOf(v, m[v].size)
    BY <1>1 DEF PagesOf, AreaEnd
  <1>3. pt[p] = Backing(m[v], p - v)
    BY <1>2 DEF Matches
  <1>4. pt[p] # Null
    BY DEF RangeBacked
  <1> QED
    BY <1>1, <1>2, <1>3, <1>4, BackingFacts

\* CarveVMARange splits backed areas only, so that no Free ones are torn apart.
LEMMA CarveRangeFacts ==
    ASSUME NEW m, Tiles(m), FreesMerged(m), NEW pt, Matches(m, pt),
           NEW target \in Addresses, NEW size \in Nat,
           CanCarveVMARange(m, target, size), NEW c, c = CarveVMARange(m, target, size)
    PROVE  /\ Tiles(c) /\ Matches(c, pt) /\ FreesMerged(c) /\ StateOf(c) = StateOf(m)
           /\ target \in DOMAIN c /\ (target + size \in DOMAIN c \/ target + size >= MaxAddress)
  <1>1. target \in Nat /\ target < MaxAddress /\ MaxAddress \in Nat
    BY SpaceAssumption DEF Addresses
  <1>2. PICK f : f = FindVMA(m, target)
    OBVIOUS
  <1>3. f \in DOMAIN m /\ f <= target /\ target < AreaEnd(m, f)
    BY <1>2, FindFacts
  <1>4. /\ f \in Nat /\ m[f].size \in Nat /\ AreaEnd(m, f) = f + m[f].size
    BY <1>3, AreaFacts
  <1>5. PICK o : o = target - f
    OBVIOUS
  <1>6. o \in Nat /\ o < m[f].size /\ f + o = target
    BY <1>1, <1>3, <1>4, <1>5
  <1>7. PICK end : end = target + size
    OBVIOUS
  <1>8. end \in Nat /\ end >= target
    BY <1>1, <1>7
  <1>9. RangeBacked(pt, target, end)
    BY <1>7, CanCarveBacked
  <1>10. o # 0 => m[f].backing # Null
    <2> SUFFICES ASSUME o # 0 PROVE m[f].backing # Null
      OBVIOUS
    <2>1. f < target + size
      BY <1>1, <1>4, <1>6
    <2>2. f \in AreasIn(m, target, target + size)
      BY <1>2, <1>3, <1>4, <2>1 DEF AreasIn
    <2> QED
      BY <2>2 DEF CanCarveVMARange
  <1>11. PICK m1 : m1 = SplitIf(m, f, o)
    OBVIOUS
  <1>12. Tiles(m1) /\ SamePages(m, m1) /\ FreesMerged(m1) /\ f + o \in DOMAIN m1
    BY <1>3, <1>6, <1>10, <1>11, SplitIfFacts
  <1>13. Matches(m1, pt) /\ target \in DOMAIN m1
    BY <1>6, <1>12 DEF SamePages
  <1>14. CASE end >= MaxAddress
    <2>1. c = m1
      BY <1>2, <1>5, <1>7, <1>11, <1>14 DEF CarveVMARange
    <2> QED
      BY <1>7, <1>12, <1>13, <1>14, <2>1 DEF SamePages
  <1>15. CASE ~(end >= MaxAddress)
    <2>1. end \in Addresses
      BY <1>1, <1>8, <1>15 DEF Addresses
    <2>2. PICK v : v = FindVMA(m1, end)
      OBVIOUS
    <2>3. c = SplitIf(m1, v, end - v)
      BY <1>2, <1>5, <1>7, <1>11, <1>15, <2>2 DEF CarveVMARange
    <2>4. /\ v \in DOMAIN m1 /\ v <= end /\ end < AreaEnd(m1, v)
          /\ \A b \in DOMAIN m1 : b <= end => b <= v
      BY <1>12, <2>1, <2>2, FindFacts
    <2>5. /\ v \in Nat /\ m1[v].size \in Nat /\ AreaEnd(m1, v) = v + m1[v].size
          /\ v < AreaEnd(m1, v) /\ v < MaxAddress
      BY <1>12, <2>4, AreaFacts
    <2>6. PICK u : u = end - v
      OBVIOUS
    <2>7. u \in Nat /\ u < m1[v].size
      BY <1>8, <2>4, <2>5, <2>6
    <2>8. target <= v
      BY <1>8, <1>13, <2>4
    <2>9. u # 0 => m1[v].backing # Null
      <3> SUFFICES ASSUME u # 0 PROVE m1[v].backing # Null
        OBVIOUS
      <3>1. v < end /\ v <= v /\ v \in Addresses
        BY <1>1, <1>8, <2>5, <2>6, <2>7 DEF Addresses
      <3> QED
        BY <1>9, <1>12, <1>13, <2>4, <2>5, <2>8, <3>1, BackedArea
    <2>10. /\ Tiles(c) /\ SamePages(m1, c) /\ FreesMerged(c) /\ v + u \in DOMAIN c
           /\ DOMAIN m1 \subseteq DOMAIN c
      BY <1>12, <2>3, <2>4, <2>6, <2>7, <2>9, SplitIfFacts
    <2>11. v + u = target + size
      BY <1>7, <1>8, <2>5, <2>6
    <2> QED
      BY <1>12, <1>13, <2>10, <2>11 DEF SamePages
  <1> QED
    BY <1>14, <1>15

\* What an operation writes into the areas of its range.
Rewrites(attributes) ==
    \E perms : \/ attributes = [perm |-> perms]
               \/ \E state : attributes = [perm |-> perms, state |-> state]

\* The attributes of UnmapRange make a proper Free area.
LEMMA WithFree ==
    ASSUME NEW vma, AreaOK(vma), NEW w, w = With(vma, FreeAttributes)
    PROVE  AreaOK(w) /\ w.size = vma.size
  BY DEF AreaOK, AreaFields, With, FreeAttributes

\* The attributes of the other calls keep what backs an area.
LEMMA WithRewritten ==
    ASSUME NEW vma, AreaOK(vma), vma.backing # Null, NEW attributes, Rewrites(attributes),
           NEW w, w = With(vma, attributes)
    PROVE  AreaOK(w) /\ w.size = vma.size /\ w.backing = vma.backing
  <1>1. "size" \notin DOMAIN attributes /\ "backing" \notin DOMAIN attributes
    BY DEF Rewrites
  <1>2. DOMAIN w = AreaFields /\ w.size = vma.size /\ w.backing = vma.backing
    BY <1>1 DEF AreaOK, AreaFields, With
  <1> QED
    BY <1>2 DEF AreaOK

-----------------------------------------------------------------------------
(***************************************************************************)
(* The loops: each one is a recursive function, which exists, and keeps an *)
(* invariant.                                                              *)
(***************************************************************************)
VisitOK(s, target) ==
    GoodSpace(s) /\ IsResult(s) /\ s.ok = TRUE /\ s.at \in Nat /\ s.at >= target

Kept(attributes, pt, target, end) == Rewrites(attributes) /\ RangeBacked(pt, target, end)

\* Either the range is unmapped, or its areas are rewritten and its pages stay.
VisitInv(s, pt, target, end, attributes) ==
    /\ VisitOK(s, target)
    /\ attributes = FreeAttributes \/ (Kept(attributes, pt, target, end) /\ s.page_table = pt)

\* One round of the loop over a carved range keeps its invariant.
LEMMA VisitFacts ==
    ASSUME NEW target \in Nat, NEW end \in Nat, NEW attributes, NEW pt,
           NEW s, VisitInv(s, pt, target, end, attributes)
    PROVE  VisitInv(VisitVMA(s, end, attributes), pt, target, end, attributes)
  <1>1. VisitOK(s, target) /\ GoodSpace(s) /\ s.at \in Nat /\ s.at >= target
    BY DEF VisitInv, VisitOK
  <1>2. CASE s.at \notin DOMAIN s.vma_map \/ s.at >= end
    BY <1>2 DEF VisitVMA
  <1>3. CASE s.at \in DOMAIN s.vma_map /\ ~(s.at >= end)
    <2>1. PICK b : b = s.at
      OBVIOUS
    <2>2. b \in DOMAIN s.vma_map /\ b \in Nat /\ b >= target /\ b < end
      BY <1>1, <1>3, <2>1
    <2>3. PICK w : w = With(s.vma_map[b], attributes)
      OBVIOUS
    <2>4. /\ Tiles(s.vma_map) /\ Matches(s.vma_map, s.page_table) /\ MergedBut(s.vma_map, b)
          /\ AreaOK(s.vma_map[b])
      BY <1>1, <2>2, MergedWeaker DEF GoodSpace, Tiles
    <2>5. Kept(attributes, pt, target, end) /\ s.page_table = pt => s.vma_map[b].backing # Null
      <3> SUFFICES ASSUME RangeBacked(s.page_table, target, end) PROVE s.vma_map[b].backing # Null
        BY DEF Kept
      <3>1. b \in Addresses /\ b < AreaEnd(s.vma_map, b) /\ b <= b
        BY <2>2, <2>4, AreaFacts DEF Tiles
      <3> QED
        BY <2>2, <2>4, <3>1, BackedArea
    <2>6. AreaOK(w) /\ w.size = s.vma_map[b].size
      BY <2>3, <2>4, <2>5, WithFree, WithRewritten DEF VisitInv, Kept
    <2>7. PICK done : done = Replace(s, b, w)
      OBVIOUS
    <2>8. Replaced(s, b, w, done)
      BY <2>2, <2>4, <2>6, <2>7, ReplaceFacts
    <2>9. /\ GoodSpace(done) /\ IsResult(done) /\ done.ok = TRUE
          /\ done.at \in DOMAIN done.vma_map /\ b < AreaEnd(done.vma_map, done.at)
          /\ done.page_table = UpdatePageTableForVMA(s.page_table, b, w)
      BY <2>8 DEF Replaced
    <2>10. PICK r : r = VisitVMA(s, end, attributes)
      OBVIOUS
    <2>11. r = [done EXCEPT !.at = AreaEnd(done.vma_map, done.at)]
      BY <1>3, <2>1, <2>3, <2>7, <2>10 DEF VisitVMA
    <2>12. /\ r.at = AreaEnd(done.vma_map, done.at) /\ r.vma_map = done.vma_map
           /\ r.page_table = done.page_table /\ r.ok = TRUE /\ IsResult(r)
      BY <2>9, <2>11 DEF IsResult
    <2>13. AreaEnd(done.vma_map, done.at) \in Nat
      BY <2>9, AreaFacts DEF GoodSpace
    <2>14. GoodSpace(r) /\ r.at \in Nat /\ r.at >= target
      BY <2>2, <2>9, <2>12, <2>13 DEF GoodSpace, IsResult
    <2>15. Kept(attributes, pt, target, end) /\ s.page_table = pt => r.page_table = pt
      <3> SUFFICES ASSUME Kept(attributes, pt, target, end), s.page_table = pt
                   PROVE  r.page_table = s.page_table
        OBVIOUS
      <3>1. w.backing = s.vma_map[b].backing
        BY <2>3, <2>4, <2>5, WithRewritten DEF Kept
      <3>2. UpdatePageTableForVMA(s.page_table, b, w) = s.page_table
        BY <2>2, <2>4, <2>6, <3>1, SameTable
      <3> QED
        BY <2>9, <2>12, <3>2
    <2>16. VisitOK(r, target)
      BY <2>12, <2>14 DEF VisitOK
    <2> QED
      BY <2>10, <2>15, <2>16 DEF VisitInv
  <1> QED
    BY <1>2, <1>3

VisitLoop(v, init, end, attributes, n) ==
    v = [i \in 0 .. n |-> IF i = 0 THEN init ELSE VisitVMA(v[i - 1], end, attributes)]

\* The recursive function behind ForEachVMA exists, by induction on the rounds.
LEMMA VisitLoopExists ==
    ASSUME NEW init, NEW end, NEW attributes, NEW size \in Nat
    PROVE  \E v : VisitLoop(v, init, end, attributes, size)
  <1> DEFINE T == {n \in Nat : \E v : VisitLoop(v, init, end, attributes, n)}
  <1>1. 0 \in T
    <2>1. PICK v : v = [i \in 0 .. 0 |-> init]
      OBVIOUS
    <2>2. VisitLoop(v, init, end, attributes, 0)
      BY <2>1 DEF VisitLoop
    <2> QED
      BY <2>2
  <1>2. ASSUME NEW n \in T PROVE n + 1 \in T
    <2>1. PICK v : VisitLoop(v, init, end, attributes, n)
      OBVIOUS
    <2>2. n \in Nat /\ n + 1 \in Nat
      OBVIOUS
    <2>3. PICK w : w = [i \in 0 .. n + 1 |-> IF i <= n THEN v[i] ELSE VisitVMA(v[n], end, attributes)]
      OBVIOUS
    <2>4. \A i \in 0 .. n : w[i] = v[i]
      BY <2>2, <2>3
    <2>5. \A i \in 0 .. n : v[i] = IF i = 0 THEN init ELSE VisitVMA(v[i - 1], end, attributes)
      BY <2>1 DEF VisitLoop
    <2>6. ASSUME NEW i \in 0 .. n + 1
          PROVE  w[i] = IF i = 0 THEN init ELSE VisitVMA(w[i - 1], end, attributes)
      <3>1. CASE i = n + 1
        <4>1. w[i] = VisitVMA(v[n], end, attributes) /\ i - 1 = n /\ i # 0 /\ n \in 0 .. n
          BY <2>2, <2>3, <3>1
        <4> QED
          BY <2>4, <4>1
      <3>2. CASE i # n + 1
        <4>1. i \in 0 .. n /\ (i # 0 => i - 1 \in 0 .. n)
          BY <2>2, <3>2
        <4> QED
          BY <2>4, <2>5, <4>1
      <3> QED
        BY <3>1, <3>2
    <2>7. VisitLoop(w, init, end, attributes, n + 1)
      BY <2>3, <2>6 DEF VisitLoop
    <2> QED
      BY <2>2, <2>7
  <1>3. T = Nat
    <2> HIDE DEF T
    <2>1. T \subseteq Nat
      BY DEF T
    <2> QED
      BY <1>1, <1>2, <2>1, SetInduction
  <1> QED
    BY <1>3

\* All rounds of ForEachVMA keep the invariant of the loop.
LEMMA VisitLoopInv ==
    ASSUME NEW target \in Nat, NEW end \in Nat, NEW attributes, NEW pt, NEW init, NEW size \in Nat,
           VisitInv(init, pt, target, end, attributes),
           NEW v, VisitLoop(v, init, end, attributes, size)
    PROVE  VisitInv(v[size], pt, target, end, attributes)
  <1> DEFINE T == {n \in Nat : n <= size => VisitInv(v[n], pt, target, end, attributes)}
  <1>1. \A i \in 0 .. size : v[i] = IF i = 0 THEN init ELSE VisitVMA(v[i - 1], end, attributes)
    BY DEF VisitLoop
  <1>2. 0 \in T
    BY <1>1
  <1>3. ASSUME NEW n \in T PROVE n + 1 \in T
    <2>1. n \in Nat /\ n + 1 \in Nat
      OBVIOUS
    <2>2. ASSUME n + 1 <= size PROVE VisitInv(v[n + 1], pt, target, end, attributes)
      <3>1. VisitInv(v[n], pt, target, end, attributes)
        BY <2>1, <2>2
      <3>2. n + 1 \in 0 .. size /\ n + 1 # 0 /\ (n + 1) - 1 = n
        BY <2>1, <2>2
      <3>3. v[n + 1] = VisitVMA(v[n], end, attributes)
        BY <1>1, <3>2
      <3> QED
        BY <3>1, <3>3, VisitFacts
    <2> QED
      BY <2>1, <2>2
  <1>4. T = Nat
    <2> HIDE DEF T
    <2>1. T \subseteq Nat
      BY DEF T
    <2> QED
      BY <1>2, <1>3, <2>1, SetInduction
  <1> QED
    BY <1>4

\* The loop over a range that can be carved.
LEMMA ForEachFacts ==
    ASSUME NEW sp, GoodSpace(sp), NEW target \in Addresses, NEW size \in Nat,
           CanCarveVMARange(sp.vma_map, target, size), NEW attributes,
           attributes = FreeAttributes \/ Rewrites(attributes)
    PROVE  VisitInv(ForEachVMA(sp, target, size, attributes), sp.page_table, target,
                    target + size, attributes)
  <1>1. target \in Nat /\ target + size \in Nat
    BY DEF Addresses
  <1>2. PICK c : c = CarveVMARange(sp.vma_map, target, size)
    OBVIOUS
  <1>3. Tiles(c) /\ Matches(c, sp.page_table) /\ FreesMerged(c)
    BY <1>2, CarveRangeFacts DEF GoodSpace
  <1>4. PICK init : init = [ok |-> TRUE, at |-> target, vma_map |-> c, page_table |-> sp.page_table]
    OBVIOUS
  <1>5. VisitOK(init, target) /\ init.page_table = sp.page_table
    BY <1>1, <1>3, <1>4 DEF VisitOK, GoodSpace, IsResult
  <1>6. RangeBacked(sp.page_table, target, target + size)
    BY CanCarveBacked DEF GoodSpace
  <1>7. VisitInv(init, sp.page_table, target, target + size, attributes)
    BY <1>5, <1>6 DEF VisitInv, Kept
  <1>8. PICK v : /\ v = CHOOSE f : VisitLoop(f, init, target + size, attributes, size)
                 /\ VisitLoop(v, init, target + size, attributes, size)
    BY VisitLoopExists
  <1>9. ForEachVMA(sp, target, size, attributes) = v[size]
    BY <1>2, <1>4, <1>8 DEF ForEachVMA, VisitLoop
  <1> QED
    BY <1>1, <1>7, <1>8, <1>9, VisitLoopInv

-----------------------------------------------------------------------------
(***************************************************************************)
(* What the loop over a range does to its pages.                           *)
(***************************************************************************)

\* One round: the area at b is written with w, and the loop goes on behind all
\* that looks like it.
VisitStep(s, b, w, r) ==
    /\ r.page_table = UpdatePageTableForVMA(s.page_table, b, w)
    /\ StateOf(r.vma_map) = Written(StateOf(s.vma_map), b, w.size, w.state)
    /\ r.at >= AreaEnd(s.vma_map, b) /\ r.at \in DOMAIN r.vma_map \cup {MaxAddress}
    /\ \A x \in DOMAIN s.vma_map : x >= r.at => x \in DOMAIN r.vma_map
    /\ \A p \in b .. r.at - 1 : /\ StateOf(r.vma_map)[p] = w.state
                                /\ w.backing = Null => r.page_table[p] = Null

\* What a round of VisitVMA does.
LEMMA VisitStepFacts ==
    ASSUME NEW target \in Nat, NEW end \in Nat, NEW attributes, NEW pt,
           NEW s, VisitInv(s, pt, target, end, attributes),
           NEW b, b = s.at, b \in DOMAIN s.vma_map, b < end,
           NEW w, w = With(s.vma_map[b], attributes),
           NEW r, r = VisitVMA(s, end, attributes)
    PROVE  VisitStep(s, b, w, r) /\ w.size = s.vma_map[b].size
  <1>1. GoodSpace(s) /\ b \in Nat /\ b >= target
    BY DEF VisitInv, VisitOK
  <1>2. /\ Tiles(s.vma_map) /\ Matches(s.vma_map, s.page_table) /\ MergedBut(s.vma_map, b)
        /\ AreaOK(s.vma_map[b])
    BY <1>1, MergedWeaker DEF GoodSpace, Tiles
  <1>3. Kept(attributes, pt, target, end) /\ s.page_table = pt => s.vma_map[b].backing # Null
    <2> SUFFICES ASSUME RangeBacked(s.page_table, target, end) PROVE s.vma_map[b].backing # Null
      BY DEF Kept
    <2>1. b \in Addresses /\ b < AreaEnd(s.vma_map, b) /\ b <= b
      BY <1>1, <1>2, AreaFacts DEF Tiles
    <2> QED
      BY <1>1, <1>2, <2>1, BackedArea
  <1>4. AreaOK(w) /\ w.size = s.vma_map[b].size
    BY <1>2, <1>3, WithFree, WithRewritten DEF VisitInv, Kept
  <1>5. PICK done : done = Replace(s, b, w)
    OBVIOUS
  <1>6. Replaced(s, b, w, done)
    BY <1>2, <1>4, <1>5, ReplaceFacts
  <1>7. /\ GoodSpace(done) /\ IsResult(done)
        /\ done.at \in DOMAIN done.vma_map /\ done.at <= b /\ b < AreaEnd(done.vma_map, done.at)
        /\ done.vma_map[done.at].backing = Null <=> w.backing = Null
        /\ done.page_table = UpdatePageTableForVMA(s.page_table, b, w)
        /\ StateOf(done.vma_map) = Written(StateOf(s.vma_map), b, w.size, w.state)
        /\ Further(s.vma_map, done.vma_map, b, AreaEnd(done.vma_map, done.at))
    BY <1>6 DEF Replaced
  <1>8. r = [done EXCEPT !.at = AreaEnd(done.vma_map, done.at)]
    <2>1. ~(s.at \notin DOMAIN s.vma_map \/ s.at >= end)
      BY <1>1
    <2> QED
      BY <1>5, <2>1 DEF VisitVMA
  <1>9. /\ r.at = AreaEnd(done.vma_map, done.at) /\ r.vma_map = done.vma_map
        /\ r.page_table = done.page_table
    BY <1>7, <1>8 DEF IsResult
  <1>10. PICK a, m : a = done.at /\ m = done.vma_map
    OBVIOUS
  <1>11. /\ Tiles(m) /\ Matches(m, r.page_table) /\ a \in DOMAIN m /\ r.at = AreaEnd(m, a)
         /\ r.vma_map = m /\ a <= b
         /\ m[a].backing = Null <=> w.backing = Null
    BY <1>7, <1>9, <1>10 DEF GoodSpace
  <1>12. /\ a \in Nat /\ m[a].size \in Nat /\ r.at = a + m[a].size /\ r.at \in Nat
    BY <1>11, AreaFacts
  <1>13. r.at \in DOMAIN m \cup {MaxAddress}
    BY <1>11 DEF Tiles
  <1>14. \A p \in b .. r.at - 1 : p \in PagesOf(a, m[a].size)
    BY <1>1, <1>11, <1>12 DEF PagesOf
  <1>15. b \in PagesOf(b, w.size) /\ b \in Addresses
    BY <1>1, <1>2, <1>4, AreaFacts DEF PagesOf, Tiles
  <1>16. m[a].state = w.state
    <2>1. b \in PagesOf(a, m[a].size)
      BY <1>1, <1>7, <1>10, <1>12, <1>11 DEF PagesOf
    <2>2. StateOf(m)[b] = m[a].state
      BY <1>11, <2>1, StateAt
    <2>3. StateOf(m)[b] = w.state
      BY <1>7, <1>10, <1>15 DEF Written
    <2> QED
      BY <2>2, <2>3
  <1>17. ASSUME NEW p \in b .. r.at - 1
         PROVE  StateOf(r.vma_map)[p] = w.state /\ (w.backing = Null => r.page_table[p] = Null)
    <2>1. StateOf(m)[p] = m[a].state
      BY <1>11, <1>14, StateAt
    <2>2. r.page_table[p] = Backing(m[a], p - a)
      BY <1>11, <1>14 DEF Matches
    <2> QED
      BY <1>11, <1>16, <2>1, <2>2 DEF Backing
  <1>18. AreaEnd(s.vma_map, b) <= r.at /\ \A x \in DOMAIN s.vma_map : x >= r.at => x \in DOMAIN r.vma_map
    BY <1>7, <1>9 DEF Further
  <1>19. r.at >= AreaEnd(s.vma_map, b)
    BY <1>2, <1>12, <1>18, AreaFacts
  <1> QED
    BY <1>4, <1>7, <1>9, <1>11, <1>13, <1>17, <1>18, <1>19 DEF VisitStep

\* The state and the memory a page gets from the attributes that are written.
NewState(attributes, old) == IF "state" \in DOMAIN attributes THEN attributes.state ELSE old
NewBacking(attributes, old) == IF "backing" \in DOMAIN attributes THEN Null ELSE old

\* The loop has come to s.at: the pages before it are done, the others are as
\* they were, and the range ends with an area.
Walked(s, pt, st, attributes, target, end) ==
    /\ s.at \in DOMAIN s.vma_map \cup {MaxAddress}
    /\ s.at < end => end \in DOMAIN s.vma_map \/ end >= MaxAddress
    /\ \A p \in Addresses :
          LET done == target <= p /\ p < s.at /\ p < end IN
          /\ StateOf(s.vma_map)[p] = IF done THEN NewState(attributes, st[p]) ELSE st[p]
          /\ s.page_table[p] = IF done THEN NewBacking(attributes, pt[p]) ELSE pt[p]

\* What the attributes of the three calls write.
LEMMA WithEffect ==
    ASSUME NEW vma, AreaOK(vma), NEW attributes,
           attributes = FreeAttributes \/ Rewrites(attributes),
           NEW w, w = With(vma, attributes)
    PROVE  /\ "state" \in DOMAIN attributes => w.state = attributes.state
           /\ "state" \notin DOMAIN attributes => w.state = vma.state
           /\ "backing" \in DOMAIN attributes <=> attributes = FreeAttributes
           /\ attributes = FreeAttributes => w.backing = Null
  <1>1. "state" \in DOMAIN vma /\ "backing" \in DOMAIN vma
    BY DEF AreaOK, AreaFields
  <1>2. "backing" \in DOMAIN FreeAttributes /\ FreeAttributes.backing = Null
    BY DEF FreeAttributes
  <1>3. Rewrites(attributes) => "backing" \notin DOMAIN attributes
    BY DEF Rewrites
  <1>4. w.state = IF "state" \in DOMAIN attributes THEN attributes["state"] ELSE vma["state"]
    BY <1>1 DEF With
  <1>5. w.backing = IF "backing" \in DOMAIN attributes THEN attributes["backing"] ELSE vma["backing"]
    BY <1>1 DEF With
  <1> QED
    BY <1>2, <1>3, <1>4, <1>5

\* A round goes on from there.
LEMMA WalkStep ==
    ASSUME NEW target \in Nat, NEW end \in Nat, NEW attributes, NEW pt, NEW st,
           NEW s, VisitInv(s, pt, target, end, attributes),
           Walked(s, pt, st, attributes, target, end),
           s.at \in DOMAIN s.vma_map, s.at < end,
           NEW r, r = VisitVMA(s, end, attributes)
    PROVE  Walked(r, pt, st, attributes, target, end) /\ r.at > s.at
  <1>1. PICK b : b = s.at
    OBVIOUS
  <1>2. PICK w : w = With(s.vma_map[b], attributes)
    OBVIOUS
  <1>3. VisitStep(s, b, w, r) /\ w.size = s.vma_map[b].size
    BY <1>1, <1>2, VisitStepFacts
  <1>4. /\ GoodSpace(s) /\ Tiles(s.vma_map) /\ b \in DOMAIN s.vma_map /\ b < end /\ b >= target
        /\ AreaOK(s.vma_map[b])
        /\ attributes = FreeAttributes \/ Rewrites(attributes)
    BY <1>1 DEF VisitInv, VisitOK, GoodSpace, Tiles, Kept
  <1>5. PICK e : e = AreaEnd(s.vma_map, b)
    OBVIOUS
  <1>6. /\ b \in Nat /\ e \in Nat /\ e > b /\ e = b + w.size /\ e <= MaxAddress
        /\ MaxAddress \in Nat /\ w.size \in Nat
    BY <1>3, <1>4, <1>5, AreaFacts
  <1>7. e <= end
    <2>1. CASE end \in DOMAIN s.vma_map
      BY <1>4, <1>5, <1>6, <2>1 DEF Tiles
    <2>2. CASE end >= MaxAddress
      BY <1>6, <2>2
    <2> QED
      BY <1>1, <1>4, <2>1, <2>2 DEF Walked
  <1>8. /\ r.at >= e /\ r.at \in DOMAIN r.vma_map \cup {MaxAddress}
        /\ \A x \in DOMAIN s.vma_map : x >= r.at => x \in DOMAIN r.vma_map
        /\ \A p \in b .. r.at - 1 : /\ StateOf(r.vma_map)[p] = w.state
                                    /\ w.backing = Null => r.page_table[p] = Null
    BY <1>3, <1>5 DEF VisitStep
  <1>9. r.at \in Nat
    <2>1. VisitInv(r, pt, target, end, attributes)
      BY VisitFacts
    <2> QED
      BY <2>1 DEF VisitInv, VisitOK
  <1>10. \A p \in Addresses : p \notin PagesOf(b, w.size) =>
            /\ StateOf(r.vma_map)[p] = StateOf(s.vma_map)[p]
            /\ r.page_table[p] = s.page_table[p]
    BY <1>3 DEF VisitStep, Written, UpdatePageTableForVMA
  <1>11. /\ "state" \in DOMAIN attributes => w.state = attributes.state
         /\ "state" \notin DOMAIN attributes => w.state = s.vma_map[b].state
         /\ "backing" \in DOMAIN attributes <=> attributes = FreeAttributes
         /\ attributes = FreeAttributes => w.backing = Null
    BY <1>2, <1>4, WithEffect
  <1>12. "state" \notin DOMAIN attributes => StateOf(r.vma_map) = StateOf(s.vma_map)
    BY <1>3, <1>4, <1>11, StateWrittenBack DEF VisitStep
  <1>13. "backing" \notin DOMAIN attributes => r.page_table = pt
    <2>1. VisitInv(r, pt, target, end, attributes)
      BY VisitFacts
    <2> QED
      BY <1>11, <2>1 DEF VisitInv
  <1>14. /\ \A p \in Addresses : target <= p /\ p < b =>
               /\ StateOf(s.vma_map)[p] = NewState(attributes, st[p])
               /\ s.page_table[p] = NewBacking(attributes, pt[p])
         /\ \A p \in Addresses : p < target \/ p >= b =>
               StateOf(s.vma_map)[p] = st[p] /\ s.page_table[p] = pt[p]
    <2>1. \A p \in Addresses : p \in Nat
      BY DEF Addresses
    <2> QED
      BY <1>1, <1>4, <1>6, <2>1 DEF Walked
  <1>15. ASSUME NEW p \in Addresses
         PROVE  LET done == target <= p /\ p < r.at /\ p < end IN
                /\ StateOf(r.vma_map)[p] = IF done THEN NewState(attributes, st[p]) ELSE st[p]
                /\ r.page_table[p] = IF done THEN NewBacking(attributes, pt[p]) ELSE pt[p]
    <2>1. p \in Nat
      BY DEF Addresses
    <2>2. CASE target <= p /\ p < b
      <3>1. p \notin PagesOf(b, w.size) /\ p < r.at /\ p < end
        BY <1>4, <1>6, <1>8, <1>9, <2>1, <2>2 DEF PagesOf
      <3> QED
        BY <1>10, <1>14, <2>2, <3>1
    <2>3. CASE b <= p /\ p < r.at /\ p < end
      <3>1. p \in b .. r.at - 1 /\ target <= p
        BY <1>4, <1>6, <1>9, <2>1, <2>3
      <3>2. StateOf(r.vma_map)[p] = NewState(attributes, st[p])
        BY <1>8, <1>11, <1>12, <1>14, <2>3, <3>1 DEF NewState
      <3>3. r.page_table[p] = NewBacking(attributes, pt[p])
        BY <1>8, <1>11, <1>13, <3>1 DEF NewBacking
      <3> QED
        BY <2>3, <3>1, <3>2, <3>3
    <2>4. CASE p < target \/ p >= r.at \/ p >= end
      <3>1. p \notin PagesOf(b, w.size) /\ (p < target \/ p >= b)
        BY <1>4, <1>6, <1>7, <1>8, <1>9, <2>1, <2>4 DEF PagesOf
      <3>2. ~(target <= p /\ p < r.at /\ p < end)
        BY <1>9, <2>1, <2>4
      <3> QED
        BY <1>10, <1>14, <3>1, <3>2
    <2> QED
      BY <1>4, <1>6, <1>9, <2>1, <2>2, <2>3, <2>4
  <1>16. r.at < end => end \in DOMAIN r.vma_map \/ end >= MaxAddress
    BY <1>1, <1>4, <1>8, <1>9 DEF Walked
  <1>17. r.at > s.at
    BY <1>1, <1>6, <1>8, <1>9
  <1> QED
    BY <1>8, <1>15, <1>16, <1>17 DEF Walked

\* All rounds.
WalkInv(s, pt, st, target, end, attributes, n) ==
    /\ VisitInv(s, pt, target, end, attributes)
    /\ Walked(s, pt, st, attributes, target, end)
    /\ s.at >= target + n \/ s.at >= end \/ s.at >= MaxAddress

\* A round of the loop, also when there is nothing left to do.
LEMMA WalkRound ==
    ASSUME NEW target \in Nat, NEW end \in Nat, NEW attributes, NEW pt, NEW st, NEW n \in Nat,
           NEW s, WalkInv(s, pt, st, target, end, attributes, n)
    PROVE  WalkInv(VisitVMA(s, end, attributes), pt, st, target, end, attributes, n + 1)
  <1>1. PICK r : r = VisitVMA(s, end, attributes)
    OBVIOUS
  <1>2. VisitInv(r, pt, target, end, attributes) /\ r.at \in Nat /\ s.at \in Nat
    <2>1. VisitInv(r, pt, target, end, attributes)
      BY <1>1, VisitFacts DEF WalkInv
    <2> QED
      BY <2>1 DEF VisitInv, VisitOK, WalkInv
  <1>3. CASE s.at \in DOMAIN s.vma_map /\ s.at < end
    <2>1. Walked(r, pt, st, attributes, target, end) /\ r.at > s.at
      BY <1>1, <1>3, WalkStep DEF WalkInv
    <2>2. s.at < MaxAddress /\ MaxAddress \in Nat
      <3>1. Tiles(s.vma_map)
        BY DEF WalkInv, VisitInv, VisitOK, GoodSpace
      <3> QED
        BY <1>3, <3>1, AreaFacts
    <2>3. s.at >= target + n
      BY <1>2, <1>3, <2>2 DEF WalkInv
    <2>4. r.at >= target + (n + 1)
      BY <1>2, <2>1, <2>3
    <2> QED
      BY <1>1, <1>2, <2>1, <2>4 DEF WalkInv
  <1>4. CASE ~(s.at \in DOMAIN s.vma_map /\ s.at < end)
    <2>1. r = s
      BY <1>1, <1>2, <1>4 DEF VisitVMA
    <2>2. s.at >= end \/ s.at >= MaxAddress
      BY <1>2, <1>4, SpaceAssumption DEF WalkInv, Walked
    <2> QED
      BY <1>1, <2>1, <2>2 DEF WalkInv
  <1> QED
    BY <1>3, <1>4

\* All pages of the range get what is written, the others keep what they have.
RangeEffect(sp, target, size, attributes, r) ==
    \A p \in Addresses :
       /\ p \in PagesOf(target, size) =>
             /\ StateOf(r.vma_map)[p] = NewState(attributes, StateOf(sp.vma_map)[p])
             /\ r.page_table[p] = NewBacking(attributes, sp.page_table[p])
       /\ p \notin PagesOf(target, size) =>
             /\ StateOf(r.vma_map)[p] = StateOf(sp.vma_map)[p]
             /\ r.page_table[p] = sp.page_table[p]

\* What ForEachVMA does to the pages of a range that can be carved.
LEMMA ForEachEffect ==
    ASSUME NEW sp, GoodSpace(sp), NEW target \in Addresses, NEW size \in Nat,
           CanCarveVMARange(sp.vma_map, target, size), NEW attributes,
           attributes = FreeAttributes \/ Rewrites(attributes)
    PROVE  RangeEffect(sp, target, size, attributes, ForEachVMA(sp, target, size, attributes))
  <1>1. PICK end, pt, st : end = target + size /\ pt = sp.page_table /\ st = StateOf(sp.vma_map)
    OBVIOUS
  <1>2. target \in Nat /\ end \in Nat /\ MaxAddress \in Nat /\ target < MaxAddress
    BY <1>1, SpaceAssumption DEF Addresses
  <1>3. PICK c : c = CarveVMARange(sp.vma_map, target, size)
    OBVIOUS
  <1>4. /\ Tiles(c) /\ Matches(c, pt) /\ FreesMerged(c) /\ StateOf(c) = st
        /\ target \in DOMAIN c /\ (end \in DOMAIN c \/ end >= MaxAddress)
    BY <1>1, <1>3, CarveRangeFacts DEF GoodSpace
  <1>5. PICK init : init = [ok |-> TRUE, at |-> target, vma_map |-> c, page_table |-> pt]
    OBVIOUS
  <1>6. VisitOK(init, target) /\ init.page_table = pt /\ init.at = target /\ init.vma_map = c
    BY <1>2, <1>4, <1>5 DEF VisitOK, GoodSpace, IsResult
  <1>7. RangeBacked(pt, target, end)
    BY <1>1, CanCarveBacked DEF GoodSpace
  <1>8. VisitInv(init, pt, target, end, attributes)
    BY <1>6, <1>7 DEF VisitInv, Kept
  <1>9. Walked(init, pt, st, attributes, target, end)
    <2>1. \A p \in Addresses : ~(target <= p /\ p < init.at /\ p < end)
      BY <1>2, <1>6 DEF Addresses
    <2> QED
      BY <1>4, <1>6, <2>1 DEF Walked
  <1>10. WalkInv(init, pt, st, target, end, attributes, 0)
    BY <1>2, <1>6, <1>8, <1>9 DEF WalkInv
  <1>11. PICK v : /\ v = CHOOSE f : VisitLoop(f, init, end, attributes, size)
                  /\ VisitLoop(v, init, end, attributes, size)
    BY VisitLoopExists
  <1>12. ForEachVMA(sp, target, size, attributes) = v[size]
    BY <1>1, <1>3, <1>5, <1>11 DEF ForEachVMA, VisitLoop
  <1>13. \A i \in 0 .. size : v[i] = IF i = 0 THEN init ELSE VisitVMA(v[i - 1], end, attributes)
    BY <1>11 DEF VisitLoop
  <1> DEFINE T == {n \in Nat : n <= size => WalkInv(v[n], pt, st, target, end, attributes, n)}
  <1>14. 0 \in T
    BY <1>10, <1>13
  <1>15. ASSUME NEW n \in T PROVE n + 1 \in T
    <2>1. n \in Nat /\ n + 1 \in Nat
      OBVIOUS
    <2>2. ASSUME n + 1 <= size PROVE WalkInv(v[n + 1], pt, st, target, end, attributes, n + 1)
      <3>1. WalkInv(v[n], pt, st, target, end, attributes, n)
        BY <2>1, <2>2
      <3>2. n + 1 \in 0 .. size /\ n + 1 # 0 /\ (n + 1) - 1 = n
        BY <2>1, <2>2
      <3>3. v[n + 1] = VisitVMA(v[n], end, attributes)
        BY <1>13, <3>2
      <3> QED
        BY <1>2, <2>1, <3>1, <3>3, WalkRound
    <2> QED
      BY <2>1, <2>2
  <1>16. T = Nat
    <2> HIDE DEF T
    <2>1. T \subseteq Nat
      BY DEF T
    <2> QED
      BY <1>14, <1>15, <2>1, SetInduction
  <1>17. WalkInv(v[size], pt, st, target, end, attributes, size)
    BY <1>16
  <1>18. PICK r : r = v[size]
    OBVIOUS
  <1>19. r.at \in Nat /\ (r.at >= end \/ r.at >= MaxAddress)
    BY <1>1, <1>17, <1>18 DEF WalkInv, VisitInv, VisitOK
  <1>20. ASSUME NEW p \in Addresses
         PROVE  (target <= p /\ p < r.at /\ p < end) <=> p \in PagesOf(target, size)
    BY <1>1, <1>2, <1>19 DEF PagesOf, Addresses
  <1>21. RangeEffect(sp, target, size, attributes, r)
    BY <1>1, <1>17, <1>18, <1>20 DEF WalkInv, Walked, RangeEffect
  <1> QED
    BY <1>12, <1>18, <1>21

\* The operations on a range keep the address space good, and only UnmapRange
\* changes what backs its pages.
LEMMA VisitedGood ==
    ASSUME NEW s, NEW pt, NEW target, NEW end, NEW attributes,
           VisitInv(s, pt, target, end, attributes)
    PROVE  GoodSpace(s) /\ IsResult(s) /\ s.ok = TRUE
  BY DEF VisitInv, VisitOK

\* UnmapRange keeps the address space good.
LEMMA UnmapFacts ==
    ASSUME NEW sp, GoodSpace(sp), NEW target \in Addresses, NEW size \in Nat,
           NEW r, r = UnmapRange(sp, target, size)
    PROVE  GoodSpace(r) /\ IsResult(r)
  <1>1. CASE CanCarveVMARange(sp.vma_map, target, size)
    <2>1. r = ForEachVMA(sp, target, size, FreeAttributes)
      BY <1>1 DEF UnmapRange
    <2>2. VisitInv(r, sp.page_table, target, target + size, FreeAttributes)
      BY <1>1, <2>1, ForEachFacts
    <2> QED
      BY <2>2, VisitedGood
  <1>2. CASE ~CanCarveVMARange(sp.vma_map, target, size)
    BY <1>2, FailureFacts DEF UnmapRange
  <1> QED
    BY <1>1, <1>2

\* What the operations that keep the pages promise.
Rewritten(sp, target, size, r) ==
    /\ GoodSpace(r) /\ IsResult(r)
    /\ r.ok = TRUE => /\ RangeBacked(sp.page_table, target, target + size)
                      /\ r.page_table = sp.page_table

\* A call that rewrites permissions or states keeps the page table.
LEMMA RewriteFacts ==
    ASSUME NEW sp, GoodSpace(sp), NEW target \in Addresses, NEW size \in Nat,
           CanCarveVMARange(sp.vma_map, target, size), NEW attributes, Rewrites(attributes),
           NEW r, r = ForEachVMA(sp, target, size, attributes)
    PROVE  Rewritten(sp, target, size, r)
  <1>1. VisitInv(r, sp.page_table, target, target + size, attributes)
    BY ForEachFacts
  <1>2. attributes # FreeAttributes
    <2>1. "backing" \notin DOMAIN attributes
      BY DEF Rewrites
    <2>2. "backing" \in DOMAIN FreeAttributes
      BY DEF FreeAttributes
    <2> QED
      BY <2>1, <2>2
  <1>3. r.page_table = sp.page_table
    BY <1>1, <1>2 DEF VisitInv
  <1>4. RangeBacked(sp.page_table, target, target + size)
    BY CanCarveBacked DEF GoodSpace
  <1> QED
    BY <1>1, <1>3, <1>4, VisitedGood DEF Rewritten

\* So does one that fails.
LEMMA FailedRewrite ==
    ASSUME NEW sp, GoodSpace(sp), NEW target, NEW size, NEW r, r = Failure(sp)
    PROVE  Rewritten(sp, target, size, r)
  <1>1. GoodSpace(r) /\ IsResult(r) /\ r.ok = FALSE
    BY FailureFacts
  <1> QED
    BY <1>1 DEF Rewritten

\* ChangeMemoryState keeps the page table, and the address space good.
LEMMA ChangeFacts ==
    ASSUME NEW sp, GoodSpace(sp), NEW target \in Addresses, NEW size \in Nat,
           NEW es, NEW ep, NEW ns, NEW np,
           NEW r, r = ChangeMemoryState(sp, target, size, es, ep, ns, np)
    PROVE  Rewritten(sp, target, size, r)
  <1>1. Rewrites([perm |-> np, state |-> ns])
    BY DEF Rewrites
  <1>2. \/ r = Failure(sp)
        \/ /\ CanCarveVMARange(sp.vma_map, target, size)
           /\ r = ForEachVMA(sp, target, size, [perm |-> np, state |-> ns])
    BY DEF ChangeMemoryState
  <1>3. CASE r = Failure(sp)
    BY <1>3, FailedRewrite
  <1>4. CASE r # Failure(sp)
    BY <1>1, <1>2, <1>4, RewriteFacts
  <1> QED
    BY <1>3, <1>4

\* ReprotectRange keeps the page table, and the address space good.
LEMMA ReprotectRangeFacts ==
    ASSUME NEW sp, GoodSpace(sp), NEW target \in Addresses, NEW size \in Nat, NEW np,
           NEW r, r = ReprotectRange(sp, target, size, np)
    PROVE  Rewritten(sp, target, size, r)
  <1>1. Rewrites([perm |-> np])
    BY DEF Rewrites
  <1>2. \/ r = Failure(sp)
        \/ /\ CanCarveVMARange(sp.vma_map, target, size)
           /\ r = ForEachVMA(sp, target, size, [perm |-> np])
    BY DEF ReprotectRange
  <1>3. CASE r = Failure(sp)
    BY <1>3, FailedRewrite
  <1>4. CASE r # Failure(sp)
    BY <1>1, <1>2, <1>4, RewriteFacts
  <1> QED
    BY <1>3, <1>4

-----------------------------------------------------------------------------
\* The loop over the blocks of a list.
MapLoop(v, init, blocks, state, perms, n) ==
    v = [i \in 0 .. n |-> IF i = 0 THEN init ELSE MapBlock(v[i - 1], blocks[i], state, perms)]

\* The recursive function behind MapBlocks exists.
LEMMA MapLoopExists ==
    ASSUME NEW init, NEW blocks, NEW state, NEW perms, NEW size \in Nat
    PROVE  \E v : MapLoop(v, init, blocks, state, perms, size)
  <1> DEFINE T == {n \in Nat : \E v : MapLoop(v, init, blocks, state, perms, n)}
  <1>1. 0 \in T
    <2>1. PICK v : v = [i \in 0 .. 0 |-> init]
      OBVIOUS
    <2>2. MapLoop(v, init, blocks, state, perms, 0)
      BY <2>1 DEF MapLoop
    <2> QED
      BY <2>2
  <1>2. ASSUME NEW n \in T PROVE n + 1 \in T
    <2>1. PICK v : MapLoop(v, init, blocks, state, perms, n)
      OBVIOUS
    <2>2. n \in Nat /\ n + 1 \in Nat
      OBVIOUS
    <2>3. PICK w : w = [i \in 0 .. n + 1 |-> IF i <= n THEN v[i]
                                             ELSE MapBlock(v[n], blocks[n + 1], state, perms)]
      OBVIOUS
    <2>4. \A i \in 0 .. n : w[i] = v[i]
      BY <2>2, <2>3
    <2>5. \A i \in 0 .. n : v[i] = IF i = 0 THEN init ELSE MapBlock(v[i - 1], blocks[i], state, perms)
      BY <2>1 DEF MapLoop
    <2>6. ASSUME NEW i \in 0 .. n + 1
          PROVE  w[i] = IF i = 0 THEN init ELSE MapBlock(w[i - 1], blocks[i], state, perms)
      <3>1. CASE i = n + 1
        <4>1. /\ w[i] = MapBlock(v[n], blocks[i], state, perms)
              /\ i - 1 = n /\ i # 0 /\ n \in 0 .. n
          BY <2>2, <2>3, <3>1
        <4> QED
          BY <2>4, <4>1
      <3>2. CASE i # n + 1
        <4>1. i \in 0 .. n /\ (i # 0 => i - 1 \in 0 .. n)
          BY <2>2, <3>2
        <4> QED
          BY <2>4, <2>5, <4>1
      <3> QED
        BY <3>1, <3>2
    <2>7. MapLoop(w, init, blocks, state, perms, n + 1)
      BY <2>3, <2>6 DEF MapLoop
    <2> QED
      BY <2>2, <2>7
  <1>3. T = Nat
    <2> HIDE DEF T
    <2>1. T \subseteq Nat
      BY DEF T
    <2> QED
      BY <1>1, <1>2, <2>1, SetInduction
  <1> QED
    BY <1>3

\* All rounds of MapBlocks keep the invariant of the loop.
LEMMA MapLoopInv ==
    ASSUME NEW init, MapOK(init), NEW blocks \in Seq(BackingBlock), NEW state, NEW perms,
           NEW v, MapLoop(v, init, blocks, state, perms, Len(blocks))
    PROVE  MapOK(v[Len(blocks)])
  <1>0. PICK size \in Nat : size = Len(blocks)
    OBVIOUS
  <1> DEFINE T == {n \in Nat : n <= size => MapOK(v[n])}
  <1>1. \A i \in 0 .. size : v[i] = IF i = 0 THEN init ELSE MapBlock(v[i - 1], blocks[i], state, perms)
    BY <1>0 DEF MapLoop
  <1>2. 0 \in T
    BY <1>1
  <1>3. ASSUME NEW n \in T PROVE n + 1 \in T
    <2>1. n \in Nat /\ n + 1 \in Nat
      OBVIOUS
    <2>2. ASSUME n + 1 <= size PROVE MapOK(v[n + 1])
      <3>1. MapOK(v[n])
        BY <2>1, <2>2
      <3>2. n + 1 \in 0 .. size /\ n + 1 # 0 /\ (n + 1) - 1 = n /\ n + 1 \in 1 .. size
        BY <2>1, <2>2
      <3>3. v[n + 1] = MapBlock(v[n], blocks[n + 1], state, perms)
        BY <1>1, <3>2
      <3>4. blocks[n + 1] \in BackingBlock
        BY <1>0, <3>2
      <3> QED
        BY <3>1, <3>3, <3>4, MapBlockFacts
    <2> QED
      BY <2>1, <2>2
  <1>4. T = Nat
    <2> HIDE DEF T
    <2>1. T \subseteq Nat
      BY DEF T
    <2> QED
      BY <1>2, <1>3, <2>1, SetInduction
  <1> QED
    BY <1>0, <1>4

\* Mapping blocks one behind the other keeps the address space good.
LEMMA MapBlocksFacts ==
    ASSUME NEW sp, GoodSpace(sp), NEW target \in Nat, NEW blocks \in Seq(BackingBlock),
           NEW state, NEW perms, NEW r, r = MapBlocks(sp, target, blocks, state, perms)
    PROVE  MapOK(r)
  <1>1. PICK init : init = [Failure(sp) EXCEPT !.ok = TRUE, !.at = target]
    OBVIOUS
  <1>2. MapOK(init)
    BY <1>1 DEF Failure, GoodSpace, IsResult, MapOK
  <1>3. Len(blocks) \in Nat
    OBVIOUS
  <1>4. PICK v : /\ v = CHOOSE f : MapLoop(f, init, blocks, state, perms, Len(blocks))
                 /\ MapLoop(v, init, blocks, state, perms, Len(blocks))
    BY <1>3, MapLoopExists
  <1>5. r = v[Len(blocks)]
    BY <1>1, <1>4 DEF MapBlocks, MapLoop
  <1> QED
    BY <1>2, <1>4, <1>5, MapLoopInv

-----------------------------------------------------------------------------
(***************************************************************************)
(* What the calls on a range do to its pages.                              *)
(***************************************************************************)
UnmapEffect(sp, target, size, r) ==
    \/ r.ok = FALSE /\ SameView(sp, r)
    \/ /\ r.ok = TRUE
       /\ RangeBacked(sp.page_table, target, target + size)
       /\ \A p \in Addresses :
             /\ p \in PagesOf(target, size) =>
                   StateOf(r.vma_map)[p] = "Free" /\ r.page_table[p] = Null
             /\ p \notin PagesOf(target, size) =>
                   /\ StateOf(r.vma_map)[p] = StateOf(sp.vma_map)[p]
                   /\ r.page_table[p] = sp.page_table[p]

\* UnmapRange frees all pages of the range, and no other.
LEMMA UnmapPages ==
    ASSUME NEW sp, GoodSpace(sp), NEW target \in Addresses, NEW size \in Nat,
           NEW r, r = UnmapRange(sp, target, size)
    PROVE  UnmapEffect(sp, target, size, r)
  <1>1. CASE CanCarveVMARange(sp.vma_map, target, size)
    <2>1. r = ForEachVMA(sp, target, size, FreeAttributes)
      BY <1>1 DEF UnmapRange
    <2>2. VisitInv(r, sp.page_table, target, target + size, FreeAttributes)
      BY <1>1, <2>1, ForEachFacts
    <2>3. RangeEffect(sp, target, size, FreeAttributes, r)
      BY <1>1, <2>1, ForEachEffect
    <2>4. \A old : NewState(FreeAttributes, old) = "Free" /\ NewBacking(FreeAttributes, old) = Null
      BY DEF NewState, NewBacking, FreeAttributes
    <2>5. r.ok = TRUE
      BY <2>2, VisitedGood
    <2>6. RangeBacked(sp.page_table, target, target + size)
      BY <1>1, CanCarveBacked DEF GoodSpace
    <2> QED
      BY <2>3, <2>4, <2>5, <2>6 DEF RangeEffect, UnmapEffect
  <1>2. CASE ~CanCarveVMARange(sp.vma_map, target, size)
    <2>1. r.ok = FALSE /\ SameView(sp, r)
      BY <1>2, FailureFacts DEF UnmapRange
    <2> QED
      BY <2>1 DEF UnmapEffect
  <1> QED
    BY <1>1, <1>2

\* What the areas of a range have in common, its pages have.
LEMMA RangeStates ==
    ASSUME NEW m, Tiles(m), NEW target \in Addresses, NEW size \in Nat, NEW state,
           \A b \in AreasIn(m, target, target + size) : m[b].state = state,
           NEW p \in Addresses, p \in PagesOf(target, size)
    PROVE  StateOf(m)[p] = state
  <1>1. target \in Nat /\ p \in Nat /\ target <= p /\ p < target + size
    BY DEF Addresses, PagesOf
  <1>2. PICK f : f = FindVMA(m, target)
    OBVIOUS
  <1>3. f \in DOMAIN m /\ f <= target
    BY <1>2, FindFacts
  <1>4. PICK v : v = FindVMA(m, p)
    OBVIOUS
  <1>5. v \in DOMAIN m /\ v <= p /\ p < AreaEnd(m, v) /\ \A b \in DOMAIN m : b <= p => b <= v
    BY <1>4, FindFacts
  <1>6. f \in Nat /\ v \in Nat
    BY <1>3, <1>5, AreaFacts
  <1>7. f <= v /\ v < target + size
    BY <1>1, <1>3, <1>5, <1>6
  <1>8. v \in AreasIn(m, target, target + size)
    BY <1>2, <1>5, <1>6, <1>7 DEF AreasIn
  <1> QED
    BY <1>4, <1>8 DEF StateOf

ChangeEffect(sp, target, size, expected, new, r) ==
    /\ r.page_table = sp.page_table
    /\ \/ r.ok = FALSE /\ SameView(sp, r)
       \/ /\ r.ok = TRUE
          /\ RangeBacked(sp.page_table, target, target + size)
          /\ \A p \in Addresses :
                /\ p \in PagesOf(target, size) =>
                      StateOf(sp.vma_map)[p] = expected /\ StateOf(r.vma_map)[p] = new
                /\ p \notin PagesOf(target, size) =>
                      StateOf(r.vma_map)[p] = StateOf(sp.vma_map)[p]

\* ChangeMemoryState moves all pages of the range from one state to another.
LEMMA ChangePages ==
    ASSUME NEW sp, GoodSpace(sp), NEW target \in Addresses, NEW size \in Nat,
           NEW es, NEW ep, NEW ns, NEW np,
           NEW r, r = ChangeMemoryState(sp, target, size, es, ep, ns, np)
    PROVE  ChangeEffect(sp, target, size, es, ns, r)
  <1>1. PICK a : a = [perm |-> np, state |-> ns]
    OBVIOUS
  <1>2. Rewrites(a)
    BY <1>1 DEF Rewrites
  <1>3. \/ r = Failure(sp)
        \/ /\ CanCarveVMARange(sp.vma_map, target, size)
           /\ \A b \in AreasIn(sp.vma_map, target, target + size) : sp.vma_map[b].state = es
           /\ r = ForEachVMA(sp, target, size, a)
    BY <1>1 DEF ChangeMemoryState
  <1>4. CASE r = Failure(sp)
    <2>1. r.ok = FALSE /\ SameView(sp, r)
      BY <1>4, FailureFacts
    <2> QED
      BY <2>1 DEF ChangeEffect, SameView
  <1>5. CASE r # Failure(sp)
    <2>1. RangeEffect(sp, target, size, a, r)
      BY <1>2, <1>3, <1>5, ForEachEffect
    <2>2. Rewritten(sp, target, size, r) /\ r.ok = TRUE
      <3>1. Rewritten(sp, target, size, r)
        BY <1>2, <1>3, <1>5, RewriteFacts
      <3>2. VisitInv(r, sp.page_table, target, target + size, a)
        BY <1>2, <1>3, <1>5, ForEachFacts
      <3> QED
        BY <3>1, <3>2, VisitedGood
    <2>3. \A old : NewState(a, old) = ns
      BY <1>1 DEF NewState
    <2>4. \A p \in Addresses : p \in PagesOf(target, size) => StateOf(sp.vma_map)[p] = es
      BY <1>3, <1>5, RangeStates DEF GoodSpace
    <2> QED
      BY <2>1, <2>2, <2>3, <2>4 DEF RangeEffect, Rewritten, ChangeEffect
  <1> QED
    BY <1>4, <1>5

\* ReprotectRange changes neither memory nor states.
LEMMA ReprotectPages ==
    ASSUME NEW sp, GoodSpace(sp), NEW target \in Addresses, NEW size \in Nat, NEW np,
           NEW r, r = ReprotectRange(sp, target, size, np)
    PROVE  r.page_table = sp.page_table /\ \A p \in Addresses : StateOf(r.vma_map)[p] = StateOf(sp.vma_map)[p]
  <1>1. PICK a : a = [perm |-> np]
    OBVIOUS
  <1>2. Rewrites(a)
    BY <1>1 DEF Rewrites
  <1>3. \/ r = Failure(sp)
        \/ /\ CanCarveVMARange(sp.vma_map, target, size)
           /\ r = ForEachVMA(sp, target, size, a)
    BY <1>1 DEF ReprotectRange
  <1>4. CASE r = Failure(sp)
    BY <1>4, FailureFacts DEF SameView
  <1>5. CASE r # Failure(sp)
    <2>1. RangeEffect(sp, target, size, a, r)
      BY <1>2, <1>3, <1>5, ForEachEffect
    <2>2. Rewritten(sp, target, size, r) /\ r.ok = TRUE
      <3>1. Rewritten(sp, target, size, r)
        BY <1>2, <1>3, <1>5, RewriteFacts
      <3>2. VisitInv(r, sp.page_table, target, target + size, a)
        BY <1>2, <1>3, <1>5, ForEachFacts
      <3> QED
        BY <3>1, <3>2, VisitedGood
    <2>3. \A old : NewState(a, old) = old
      BY <1>1 DEF NewState
    <2> QED
      BY <2>1, <2>2, <2>3 DEF RangeEffect, Rewritten
  <1> QED
    BY <1>4, <1>5

-----------------------------------------------------------------------------
(***************************************************************************)
(* What mapping the blocks of a list does to the pages.                    *)
(***************************************************************************)

\* sums[n] is the size of the first n blocks.
Sums(blocks, sums) ==
    /\ sums \in [0 .. Len(blocks) -> Nat] /\ sums[0] = 0
    /\ \A i \in 1 .. Len(blocks) : sums[i] = sums[i - 1] + blocks[i].size
    /\ \A i \in 0 .. Len(blocks) : sums[i] <= sums[Len(blocks)]

TotalSize(blocks, size) == \E sums : Sums(blocks, sums) /\ sums[Len(blocks)] = size

\* No blocks have no size.
LEMMA NoBlocksSize == TotalSize(<<>>, 0)
  <1>1. PICK sums : sums = [i \in 0 .. 0 |-> 0]
    OBVIOUS
  <1>2. Len(<<>>) = 0 /\ sums \in [0 .. 0 -> Nat] /\ sums[0] = 0
    BY <1>1
  <1>3. Sums(<<>>, sums)
    BY <1>2 DEF Sums
  <1> QED
    BY <1>2, <1>3 DEF TotalSize

\* A block more.
LEMMA AppendSize ==
    ASSUME NEW blocks \in Seq(BackingBlock), NEW bk \in BackingBlock, NEW size \in Nat,
           TotalSize(blocks, size)
    PROVE  TotalSize(Append(blocks, bk), size + bk.size)
  <1>1. PICK sums : Sums(blocks, sums) /\ sums[Len(blocks)] = size
    BY DEF TotalSize
  <1>2. PICK n \in Nat : n = Len(blocks)
    OBVIOUS
  <1>3. PICK all : all = Append(blocks, bk)
    OBVIOUS
  <1>4. /\ Len(all) = n + 1 /\ all[n + 1] = bk /\ \A i \in 1 .. n : all[i] = blocks[i]
        /\ bk.size \in Nat
    BY <1>2, <1>3 DEF BackingBlock
  <1>5. PICK more : more = [i \in 0 .. n + 1 |-> IF i <= n THEN sums[i] ELSE size + bk.size]
    OBVIOUS
  <1>6. /\ sums \in [0 .. n -> Nat] /\ sums[0] = 0 /\ sums[n] = size
        /\ \A i \in 1 .. n : sums[i] = sums[i - 1] + blocks[i].size
        /\ \A i \in 0 .. n : sums[i] <= size
    BY <1>1, <1>2 DEF Sums
  <1>7. more[n + 1] = size + bk.size /\ \A i \in 0 .. n : more[i] = sums[i] /\ more[i] \in Nat
    BY <1>2, <1>5, <1>6
  <1>8. more \in [0 .. n + 1 -> Nat] /\ more[0] = 0
    <2>1. \A i \in 0 .. n + 1 : more[i] \in Nat
      BY <1>2, <1>4, <1>7
    <2> QED
      BY <1>2, <1>5, <1>6, <1>7, <2>1
  <1>9. ASSUME NEW i \in 1 .. n + 1 PROVE more[i] = more[i - 1] + all[i].size
    <2>1. CASE i = n + 1
      <3>1. i - 1 = n /\ n \in 0 .. n
        BY <1>2, <2>1
      <3> QED
        BY <1>4, <1>6, <1>7, <2>1, <3>1
    <2>2. CASE i # n + 1
      <3>1. i \in 1 .. n /\ i \in 0 .. n /\ i - 1 \in 0 .. n
        BY <1>2, <2>2
      <3> QED
        BY <1>4, <1>6, <1>7, <3>1
    <2> QED
      BY <2>1, <2>2
  <1>10. ASSUME NEW i \in 0 .. n + 1 PROVE more[i] <= more[n + 1]
    <2>1. CASE i = n + 1
      BY <1>4, <1>7, <2>1
    <2>2. CASE i # n + 1
      <3>1. i \in 0 .. n
        BY <1>2, <2>2
      <3>2. more[i] <= size /\ more[i] \in Nat
        BY <1>6, <1>7, <3>1
      <3> QED
        BY <1>4, <1>7, <3>2
    <2> QED
      BY <2>1, <2>2
  <1>11. Sums(all, more)
    BY <1>4, <1>8, <1>9, <1>10 DEF Sums
  <1> QED
    BY <1>3, <1>4, <1>7, <1>11 DEF TotalSize

SamePage(sp, s, p) ==
    s.page_table[p] = sp.page_table[p] /\ StateOf(s.vma_map)[p] = StateOf(sp.vma_map)[p]

\* The page is one of those that the block bk backs from `base` on.
InBlock(s, p, base, bk) ==
    p \in PagesOf(base, bk.size) /\ s.page_table[p] = bk.memory + (p - base)

\* The first n blocks are mapped behind each other, if they are.
BlocksMapped(sp, target, blocks, sums, state, n, s) ==
    /\ MapOK(s) /\ s.at = target + sums[n]
    /\ \A p \in Addresses :
          \/ SamePage(sp, s, p)
          \/ /\ StateOf(s.vma_map)[p] = state
             /\ \E i \in 1 .. n : InBlock(s, p, target + sums[i - 1], blocks[i])

\* One more.
LEMMA BlockMapped ==
    ASSUME NEW sp, NEW target \in Nat, NEW blocks \in Seq(BackingBlock), NEW sums,
           Sums(blocks, sums), NEW state, NEW perms, NEW n \in 0 .. Len(blocks) - 1,
           NEW s, BlocksMapped(sp, target, blocks, sums, state, n, s)
    PROVE  BlocksMapped(sp, target, blocks, sums, state, n + 1,
                        MapBlock(s, blocks[n + 1], state, perms))
  <1>1. PICK bk : bk = blocks[n + 1]
    OBVIOUS
  <1>2. PICK r : r = MapBlock(s, bk, state, perms)
    OBVIOUS
  <1>3. bk \in BackingBlock /\ n \in Nat /\ n + 1 \in 1 .. Len(blocks) /\ n \in 0 .. Len(blocks)
    BY <1>1
  <1>4. bk.size \in Nat /\ bk.memory \in Nat
    BY <1>3 DEF BackingBlock
  <1>5. MapOK(r) /\ r.at = s.at + bk.size /\ BlockEffect(s, bk, state, r)
    BY <1>2, <1>3, MapBlockFacts DEF BlocksMapped
  <1>6. sums[n] \in Nat /\ sums[n + 1] = sums[n] + bk.size /\ (n + 1) - 1 = n
    BY <1>1, <1>3 DEF Sums
  <1>7. s.at = target + sums[n] /\ r.at = target + sums[n + 1]
    BY <1>4, <1>5, <1>6 DEF BlocksMapped
  <1>8. ASSUME NEW p \in Addresses
        PROVE  \/ SamePage(sp, r, p)
               \/ /\ StateOf(r.vma_map)[p] = state
                  /\ \E i \in 1 .. n + 1 : InBlock(r, p, target + sums[i - 1], blocks[i])
    <2>1. CASE /\ p \in PagesOf(s.at, bk.size)
               /\ r.page_table[p] = bk.memory + (p - s.at)
               /\ StateOf(r.vma_map)[p] = state
      <3>1. InBlock(r, p, target + sums[(n + 1) - 1], blocks[n + 1])
        BY <1>1, <1>6, <1>7, <2>1 DEF InBlock
      <3>2. n + 1 \in 1 .. n + 1
        BY <1>3
      <3> QED
        BY <2>1, <3>1, <3>2
    <2>2. CASE SamePage(s, r, p)
      <3>1. CASE SamePage(sp, s, p)
        BY <2>2, <3>1 DEF SamePage
      <3>2. CASE ~SamePage(sp, s, p)
        <4>1. PICK i \in 1 .. n : InBlock(s, p, target + sums[i - 1], blocks[i])
          BY <3>2 DEF BlocksMapped
        <4>2. StateOf(s.vma_map)[p] = state
          BY <3>2 DEF BlocksMapped
        <4>3. InBlock(r, p, target + sums[i - 1], blocks[i]) /\ StateOf(r.vma_map)[p] = state
          BY <2>2, <4>1, <4>2 DEF InBlock, SamePage
        <4>4. i \in 1 .. n + 1
          BY <1>3
        <4> QED
          BY <4>3, <4>4
      <3> QED
        BY <3>1, <3>2
    <2>3. \/ /\ p \in PagesOf(s.at, bk.size)
             /\ r.page_table[p] = bk.memory + (p - s.at)
             /\ StateOf(r.vma_map)[p] = state
          \/ SamePage(s, r, p)
      BY <1>5 DEF BlockEffect, SameView, SamePage, PagesMapped, Written
    <2> QED
      BY <2>1, <2>2, <2>3
  <1> QED
    BY <1>1, <1>2, <1>5, <1>7, <1>8 DEF BlocksMapped

\* The whole list.
LEMMA MapBlocksPages ==
    ASSUME NEW sp, GoodSpace(sp), NEW target \in Nat, NEW blocks \in Seq(BackingBlock),
           NEW sums, Sums(blocks, sums),
           NEW state, NEW perms, NEW r, r = MapBlocks(sp, target, blocks, state, perms)
    PROVE  BlocksMapped(sp, target, blocks, sums, state, Len(blocks), r)
  <1>1. PICK init : init = [Failure(sp) EXCEPT !.ok = TRUE, !.at = target]
    OBVIOUS
  <1>2. /\ MapOK(init) /\ init.at = target
        /\ init.page_table = sp.page_table /\ init.vma_map = sp.vma_map
    BY <1>1 DEF Failure, GoodSpace, IsResult, MapOK
  <1>3. PICK size \in Nat : size = Len(blocks)
    OBVIOUS
  <1>4. PICK v : /\ v = CHOOSE f : MapLoop(f, init, blocks, state, perms, size)
                 /\ MapLoop(v, init, blocks, state, perms, size)
    BY MapLoopExists
  <1>5. r = v[size]
    BY <1>1, <1>3, <1>4 DEF MapBlocks, MapLoop
  <1>6. \A i \in 0 .. size : v[i] = IF i = 0 THEN init ELSE MapBlock(v[i - 1], blocks[i], state, perms)
    BY <1>4 DEF MapLoop
  <1> DEFINE T == {n \in Nat : n <= size => BlocksMapped(sp, target, blocks, sums, state, n, v[n])}
  <1>7. 0 \in T
    <2>1. v[0] = init
      BY <1>3, <1>6
    <2>2. sums[0] = 0
      BY DEF Sums
    <2>3. BlocksMapped(sp, target, blocks, sums, state, 0, init)
      BY <1>2, <2>2 DEF BlocksMapped, SamePage
    <2> QED
      BY <2>1, <2>3
  <1>8. ASSUME NEW n \in T PROVE n + 1 \in T
    <2>1. n \in Nat /\ n + 1 \in Nat
      OBVIOUS
    <2>2. ASSUME n + 1 <= size
          PROVE  BlocksMapped(sp, target, blocks, sums, state, n + 1, v[n + 1])
      <3>1. BlocksMapped(sp, target, blocks, sums, state, n, v[n])
        BY <2>1, <2>2
      <3>2. n + 1 \in 0 .. size /\ n + 1 # 0 /\ (n + 1) - 1 = n /\ n \in 0 .. Len(blocks) - 1
        BY <1>3, <2>1, <2>2
      <3>3. v[n + 1] = MapBlock(v[n], blocks[n + 1], state, perms)
        BY <1>6, <3>2
      <3> QED
        BY <3>1, <3>2, <3>3, BlockMapped
    <2> QED
      BY <2>1, <2>2
  <1>9. T = Nat
    <2> HIDE DEF T
    <2>1. T \subseteq Nat
      BY DEF T
    <2> QED
      BY <1>7, <1>8, <2>1, SetInduction
  <1> QED
    BY <1>3, <1>5, <1>9

-----------------------------------------------------------------------------
(***************************************************************************)
(* The blocks behind a range.                                              *)
(***************************************************************************)
AddOK(s, target) == s.blocks \in Seq(BackingBlock) /\ s.at \in Nat /\ s.at >= target

\* One round of GetBackingBlocksForRange adds a block of memory.
LEMMA AddBlockFacts ==
    ASSUME NEW m, Tiles(m), NEW pt, Matches(m, pt), NEW target \in Nat, NEW end \in Nat,
           end <= MaxAddress, RangeBacked(pt, target, end), NEW s, AddOK(s, target)
    PROVE  AddOK(AddBlock(s, m, end), target)
  <1>1. CASE s.at >= end
    BY <1>1 DEF AddBlock
  <1>2. CASE ~(s.at >= end)
    <2>1. PICK a \in Nat : a = s.at
      BY DEF AddOK
    <2>2. a >= target /\ a < end /\ a \in Addresses
      BY <1>2, <2>1, SpaceAssumption DEF AddOK, Addresses
    <2>3. PICK v : v = FindVMA(m, a)
      OBVIOUS
    <2>4. v \in DOMAIN m /\ v <= a /\ a < AreaEnd(m, v)
      BY <2>2, <2>3, FindFacts
    <2>5. v \in Nat /\ m[v].size \in Nat /\ m[v].backing \in Nat \cup {Null} /\ AreaEnd(m, v) \in Nat
      BY <2>4, AreaFacts
    <2>6. m[v].backing # Null
      BY <2>2, <2>4, BackedArea
    <2>7. PICK e : e = Min({end, AreaEnd(m, v)})
      OBVIOUS
    <2>8. e \in Nat /\ e > a
      <3>1. {end, AreaEnd(m, v)} \subseteq Nat /\ {end, AreaEnd(m, v)} # {}
        BY <2>5
      <3>2. e \in {end, AreaEnd(m, v)}
        BY <2>7, <3>1, MinNat
      <3> QED
        BY <2>2, <2>4, <2>5, <3>2
    <2>9. a - v \in Nat /\ e - a \in Nat \ {0}
      BY <2>4, <2>5, <2>8
    <2>10. Backing(m[v], a - v) \in Nat
      BY <2>5, <2>6, <2>9, BackingFacts
    <2>11. PICK bk : bk = [memory |-> Backing(m[v], a - v), size |-> e - a]
      OBVIOUS
    <2>12. bk \in BackingBlock
      BY <2>9, <2>10, <2>11 DEF BackingBlock
    <2>13. AddBlock(s, m, end) = [at |-> e, blocks |-> Append(s.blocks, bk)]
      BY <1>2, <2>1, <2>3, <2>7, <2>11 DEF AddBlock
    <2>14. Append(s.blocks, bk) \in Seq(BackingBlock)
      BY <2>12 DEF AddOK
    <2>15. e >= target
      BY <2>2, <2>8
    <2> QED
      BY <2>8, <2>13, <2>14, <2>15 DEF AddOK
  <1> QED
    BY <1>1, <1>2

AddLoop(v, init, m, end, n) ==
    v = [i \in 0 .. n |-> IF i = 0 THEN init ELSE AddBlock(v[i - 1], m, end)]

\* The recursive function behind GetBackingBlocksForRange exists.
LEMMA AddLoopExists ==
    ASSUME NEW init, NEW m, NEW end, NEW size \in Nat
    PROVE  \E v : AddLoop(v, init, m, end, size)
  <1> DEFINE T == {n \in Nat : \E v : AddLoop(v, init, m, end, n)}
  <1>1. 0 \in T
    <2>1. PICK v : v = [i \in 0 .. 0 |-> init]
      OBVIOUS
    <2>2. AddLoop(v, init, m, end, 0)
      BY <2>1 DEF AddLoop
    <2> QED
      BY <2>2
  <1>2. ASSUME NEW n \in T PROVE n + 1 \in T
    <2>1. PICK v : AddLoop(v, init, m, end, n)
      OBVIOUS
    <2>2. n \in Nat /\ n + 1 \in Nat
      OBVIOUS
    <2>3. PICK w : w = [i \in 0 .. n + 1 |-> IF i <= n THEN v[i] ELSE AddBlock(v[n], m, end)]
      OBVIOUS
    <2>4. \A i \in 0 .. n : w[i] = v[i]
      BY <2>2, <2>3
    <2>5. \A i \in 0 .. n : v[i] = IF i = 0 THEN init ELSE AddBlock(v[i - 1], m, end)
      BY <2>1 DEF AddLoop
    <2>6. ASSUME NEW i \in 0 .. n + 1
          PROVE  w[i] = IF i = 0 THEN init ELSE AddBlock(w[i - 1], m, end)
      <3>1. CASE i = n + 1
        <4>1. w[i] = AddBlock(v[n], m, end) /\ i - 1 = n /\ i # 0 /\ n \in 0 .. n
          BY <2>2, <2>3, <3>1
        <4> QED
          BY <2>4, <4>1
      <3>2. CASE i # n + 1
        <4>1. i \in 0 .. n /\ (i # 0 => i - 1 \in 0 .. n)
          BY <2>2, <3>2
        <4> QED
          BY <2>4, <2>5, <4>1
      <3> QED
        BY <3>1, <3>2
    <2>7. AddLoop(w, init, m, end, n + 1)
      BY <2>3, <2>6 DEF AddLoop
    <2> QED
      BY <2>2, <2>7
  <1>3. T = Nat
    <2> HIDE DEF T
    <2>1. T \subseteq Nat
      BY DEF T
    <2> QED
      BY <1>1, <1>2, <2>1, SetInduction
  <1> QED
    BY <1>3

\* GetBackingBlocksForRange gives blocks of memory for a backed range.
LEMMA BackingBlocksFacts ==
    ASSUME NEW sp, GoodSpace(sp), NEW target \in Addresses, NEW size \in Nat,
           target + size <= MaxAddress, RangeBacked(sp.page_table, target, target + size)
    PROVE  GetBackingBlocksForRange(sp.vma_map, target, size) \in Seq(BackingBlock)
  <1>1. PICK m, pt, end : m = sp.vma_map /\ pt = sp.page_table /\ end = target + size
    OBVIOUS
  <1>2. Tiles(m) /\ Matches(m, pt) /\ RangeBacked(pt, target, end)
    BY <1>1 DEF GoodSpace
  <1>3. target \in Nat /\ end \in Nat /\ end <= MaxAddress
    BY <1>1 DEF Addresses
  <1>4. PICK init : init = [at |-> target, blocks |-> <<>>]
    OBVIOUS
  <1>5. AddOK(init, target)
    BY <1>3, <1>4 DEF AddOK
  <1>6. PICK v : /\ v = CHOOSE f : AddLoop(f, init, m, end, size)
                 /\ AddLoop(v, init, m, end, size)
    BY AddLoopExists
  <1>7. GetBackingBlocksForRange(m, target, size) = v[size].blocks
    BY <1>1, <1>4, <1>6 DEF GetBackingBlocksForRange, AddLoop
  <1> DEFINE T == {n \in Nat : n <= size => AddOK(v[n], target)}
  <1>8. \A i \in 0 .. size : v[i] = IF i = 0 THEN init ELSE AddBlock(v[i - 1], m, end)
    BY <1>6 DEF AddLoop
  <1>9. 0 \in T
    BY <1>5, <1>8
  <1>10. ASSUME NEW n \in T PROVE n + 1 \in T
    <2>1. n \in Nat /\ n + 1 \in Nat
      OBVIOUS
    <2>2. ASSUME n + 1 <= size PROVE AddOK(v[n + 1], target)
      <3>1. AddOK(v[n], target)
        BY <2>1, <2>2
      <3>2. n + 1 \in 0 .. size /\ n + 1 # 0 /\ (n + 1) - 1 = n
        BY <2>1, <2>2
      <3>3. v[n + 1] = AddBlock(v[n], m, end)
        BY <1>8, <3>2
      <3> QED
        BY <1>2, <1>3, <3>1, <3>3, AddBlockFacts
    <2> QED
      BY <2>1, <2>2
  <1>11. T = Nat
    <2> HIDE DEF T
    <2>1. T \subseteq Nat
      BY DEF T
    <2> QED
      BY <1>9, <1>10, <2>1, SetInduction
  <1>12. AddOK(v[size], target)
    BY <1>11
  <1> QED
    BY <1>1, <1>7, <1>12 DEF AddOK

-----------------------------------------------------------------------------
(***************************************************************************)
(* Sets of frames, and their intervals.                                    *)
(***************************************************************************)
FrameSet(frames) == frames \subseteq Nat /\ IsFiniteSet(frames)

TakeOK(s) == FrameSet(s.left) /\ s.blocks \in Seq(BackingBlock)

\* Taking an interval leaves a set of frames.
LEMMA IntervalFacts ==
    ASSUME NEW s, TakeOK(s)
    PROVE  TakeOK(NextInterval(s))
  <1>1. CASE s.left = {}
    BY <1>1 DEF NextInterval
  <1>2. CASE s.left # {}
    <2>1. PICK left : left = s.left
      OBVIOUS
    <2>2. left \subseteq Nat /\ IsFiniteSet(left) /\ left # {}
      BY <1>2, <2>1 DEF TakeOK, FrameSet
    <2>3. PICK lower : lower = Min(left)
      OBVIOUS
    <2>4. lower \in left /\ lower \in Nat
      BY <2>2, <2>3, MinNat
    <2>5. PICK run : run = RunFrom(left, lower)
      OBVIOUS
    <2>6. run \subseteq left /\ lower \in run
      <3>1. lower .. lower \subseteq left
        BY <2>4
      <3> QED
        BY <2>4, <2>5, <3>1 DEF RunFrom
    <2>7. IsFiniteSet(run) /\ IsFiniteSet(left \ run)
      BY <2>2, <2>6, FS_Subset, FS_Difference
    <2>8. Cardinality(run) \in Nat \ {0}
      BY <2>6, <2>7, FS_CardinalityType, FS_EmptySet
    <2>9. PICK bk : bk = [memory |-> lower, size |-> Cardinality(run)]
      OBVIOUS
    <2>10. bk \in BackingBlock
      BY <2>4, <2>8, <2>9 DEF BackingBlock
    <2>11. NextInterval(s) = [left |-> left \ run, blocks |-> Append(s.blocks, bk)]
      BY <1>2, <2>1, <2>3, <2>5, <2>9 DEF NextInterval
    <2>12. Append(s.blocks, bk) \in Seq(BackingBlock)
      BY <2>10 DEF TakeOK
    <2>13. FrameSet(left \ run)
      BY <2>2, <2>7 DEF FrameSet
    <2> QED
      BY <2>11, <2>12, <2>13 DEF TakeOK
  <1> QED
    BY <1>1, <1>2

TakeLoop(v, init, n) == v = [i \in 0 .. n |-> IF i = 0 THEN init ELSE NextInterval(v[i - 1])]

\* The recursive function behind Blocks exists.
LEMMA TakeLoopExists ==
    ASSUME NEW init, NEW size \in Nat
    PROVE  \E v : TakeLoop(v, init, size)
  <1> DEFINE T == {n \in Nat : \E v : TakeLoop(v, init, n)}
  <1>1. 0 \in T
    <2>1. PICK v : v = [i \in 0 .. 0 |-> init]
      OBVIOUS
    <2>2. TakeLoop(v, init, 0)
      BY <2>1 DEF TakeLoop
    <2> QED
      BY <2>2
  <1>2. ASSUME NEW n \in T PROVE n + 1 \in T
    <2>1. PICK v : TakeLoop(v, init, n)
      OBVIOUS
    <2>2. n \in Nat /\ n + 1 \in Nat
      OBVIOUS
    <2>3. PICK w : w = [i \in 0 .. n + 1 |-> IF i <= n THEN v[i] ELSE NextInterval(v[n])]
      OBVIOUS
    <2>4. \A i \in 0 .. n : w[i] = v[i]
      BY <2>2, <2>3
    <2>5. \A i \in 0 .. n : v[i] = IF i = 0 THEN init ELSE NextInterval(v[i - 1])
      BY <2>1 DEF TakeLoop
    <2>6. ASSUME NEW i \in 0 .. n + 1
          PROVE  w[i] = IF i = 0 THEN init ELSE NextInterval(w[i - 1])
      <3>1. CASE i = n + 1
        <4>1. w[i] = NextInterval(v[n]) /\ i - 1 = n /\ i # 0 /\ n \in 0 .. n
          BY <2>2, <2>3, <3>1
        <4> QED
          BY <2>4, <4>1
      <3>2. CASE i # n + 1
        <4>1. i \in 0 .. n /\ (i # 0 => i - 1 \in 0 .. n)
          BY <2>2, <3>2
        <4> QED
          BY <2>4, <2>5, <4>1
      <3> QED
        BY <3>1, <3>2
    <2>7. TakeLoop(w, init, n + 1)
      BY <2>3, <2>6 DEF TakeLoop
    <2> QED
      BY <2>2, <2>7
  <1>3. T = Nat
    <2> HIDE DEF T
    <2>1. T \subseteq Nat
      BY DEF T
    <2> QED
      BY <1>1, <1>2, <2>1, SetInduction
  <1> QED
    BY <1>3

\* The intervals of a set of frames are blocks of memory.
LEMMA BlocksFacts ==
    ASSUME NEW frames, FrameSet(frames)
    PROVE  Blocks(frames) \in Seq(BackingBlock)
  <1>1. PICK size \in Nat : size = Cardinality(frames)
    BY FS_CardinalityType DEF FrameSet
  <1>2. PICK init : init = [left |-> frames, blocks |-> <<>>]
    OBVIOUS
  <1>3. TakeOK(init)
    BY <1>2 DEF TakeOK
  <1>4. PICK v : v = (CHOOSE f : TakeLoop(f, init, size)) /\ TakeLoop(v, init, size)
    BY TakeLoopExists
  <1>5. Blocks(frames) = v[size].blocks
    BY <1>1, <1>2, <1>4 DEF Blocks, TakeLoop
  <1> DEFINE T == {n \in Nat : n <= size => TakeOK(v[n])}
  <1>6. \A i \in 0 .. size : v[i] = IF i = 0 THEN init ELSE NextInterval(v[i - 1])
    BY <1>4 DEF TakeLoop
  <1>7. 0 \in T
    BY <1>3, <1>6
  <1>8. ASSUME NEW n \in T PROVE n + 1 \in T
    <2>1. n \in Nat /\ n + 1 \in Nat
      OBVIOUS
    <2>2. ASSUME n + 1 <= size PROVE TakeOK(v[n + 1])
      <3>1. TakeOK(v[n])
        BY <2>1, <2>2
      <3>2. n + 1 \in 0 .. size /\ n + 1 # 0 /\ (n + 1) - 1 = n
        BY <2>1, <2>2
      <3>3. v[n + 1] = NextInterval(v[n])
        BY <1>6, <3>2
      <3> QED
        BY <3>1, <3>3, IntervalFacts
    <2> QED
      BY <2>1, <2>2
  <1>9. T = Nat
    <2> HIDE DEF T
    <2>1. T \subseteq Nat
      BY DEF T
    <2> QED
      BY <1>7, <1>8, <2>1, SetInduction
  <1>10. TakeOK(v[size])
    BY <1>9
  <1> QED
    BY <1>5, <1>10 DEF TakeOK

\* The frames of a list of blocks.
LEMMA FramesOfFacts ==
    ASSUME NEW blocks \in Seq(BackingBlock)
    PROVE  FrameSet(FramesOf(blocks))
  <1>1. \A i \in DOMAIN blocks : blocks[i].memory \in Nat /\ blocks[i].size \in Nat
    <2>1. \A i \in DOMAIN blocks : blocks[i] \in BackingBlock
      OBVIOUS
    <2> QED
      BY <2>1 DEF BackingBlock
  <1>2. \A i \in DOMAIN blocks : /\ PagesOf(blocks[i].memory, blocks[i].size) \subseteq Nat
                                 /\ IsFiniteSet(PagesOf(blocks[i].memory, blocks[i].size))
    <2> SUFFICES ASSUME NEW i \in DOMAIN blocks
                 PROVE  /\ PagesOf(blocks[i].memory, blocks[i].size) \subseteq Nat
                        /\ IsFiniteSet(PagesOf(blocks[i].memory, blocks[i].size))
      OBVIOUS
    <2>1. PICK a \in Nat, k \in Nat : a = blocks[i].memory /\ k = blocks[i].size
      BY <1>1
    <2>2. a .. a + k - 1 \subseteq Nat /\ a \in Int /\ a + k - 1 \in Int
      OBVIOUS
    <2>3. IsFiniteSet(a .. a + k - 1)
      BY <2>2, FS_Interval
    <2> QED
      BY <2>1, <2>2, <2>3 DEF PagesOf
  <1>3. PICK F : F = {PagesOf(blocks[i].memory, blocks[i].size) : i \in DOMAIN blocks}
    OBVIOUS
  <1>4. IsFiniteSet(DOMAIN blocks)
    <2>1. PICK k \in Nat : k = Len(blocks)
      OBVIOUS
    <2>2. IsFiniteSet(1 .. k)
      BY FS_Interval
    <2>3. DOMAIN blocks = 1 .. k
      BY <2>1
    <2> QED
      BY <2>2, <2>3
  <1>5. PICK f : f = [i \in DOMAIN blocks |-> PagesOf(blocks[i].memory, blocks[i].size)]
    OBVIOUS
  <1>6. f \in Surjection(DOMAIN blocks, F)
    BY <1>3, <1>5 DEF Surjection
  <1>7. IsFiniteSet(F)
    BY <1>4, <1>6, FS_Surjection
  <1>8. IsFiniteSet(UNION F)
    BY <1>2, <1>3, <1>7, FS_UNION
  <1>9. UNION F \subseteq Nat
    BY <1>2, <1>3
  <1> QED
    BY <1>3, <1>8, <1>9 DEF FramesOf, FrameSet

-----------------------------------------------------------------------------
(***************************************************************************)
(* Which frames a list of blocks holds.                                    *)
(***************************************************************************)
\* A block more.
LEMMA AppendFrames ==
    ASSUME NEW blocks \in Seq(BackingBlock), NEW bk \in BackingBlock
    PROVE  FramesOf(Append(blocks, bk)) = FramesOf(blocks) \cup PagesOf(bk.memory, bk.size)
  <1>1. PICK n \in Nat : n = Len(blocks)
    OBVIOUS
  <1>2. PICK all : all = Append(blocks, bk)
    OBVIOUS
  <1>3. /\ DOMAIN blocks = 1 .. n /\ DOMAIN all = 1 .. n + 1
        /\ all[n + 1] = bk /\ \A i \in 1 .. n : all[i] = blocks[i]
    BY <1>1, <1>2
  <1>4. ASSUME NEW f \in FramesOf(all) PROVE f \in FramesOf(blocks) \cup PagesOf(bk.memory, bk.size)
    <2>1. PICK i \in DOMAIN all : f \in PagesOf(all[i].memory, all[i].size)
      BY DEF FramesOf
    <2>2. i = n + 1 \/ i \in 1 .. n
      BY <1>3
    <2> QED
      BY <1>3, <2>1, <2>2 DEF FramesOf
  <1>5. ASSUME NEW f \in FramesOf(blocks) PROVE f \in FramesOf(all)
    <2>1. PICK i \in DOMAIN blocks : f \in PagesOf(blocks[i].memory, blocks[i].size)
      BY DEF FramesOf
    <2>2. i \in DOMAIN all
      BY <1>3
    <2> QED
      BY <1>3, <2>1, <2>2 DEF FramesOf
  <1>6. PagesOf(bk.memory, bk.size) \subseteq FramesOf(all)
    <2>1. n + 1 \in DOMAIN all
      BY <1>3
    <2> QED
      BY <1>3, <2>1 DEF FramesOf
  <1> QED
    BY <1>2, <1>4, <1>5, <1>6

\* The blocks so far are what backs the pages before s.at.
Covers(s, pt, target, end) ==
    /\ AddOK(s, target) /\ s.at <= end
    /\ TotalSize(s.blocks, s.at - target)
    /\ FramesOf(s.blocks) = {pt[p] : p \in target .. s.at - 1}

\* A round covers an area more.
LEMMA AddBlockCovers ==
    ASSUME NEW m, Tiles(m), NEW pt, Matches(m, pt), NEW target \in Nat, NEW end \in Nat,
           end <= MaxAddress, RangeBacked(pt, target, end), NEW s, Covers(s, pt, target, end)
    PROVE  /\ Covers(AddBlock(s, m, end), pt, target, end)
           /\ s.at < end => AddBlock(s, m, end).at > s.at
           /\ s.at = end => AddBlock(s, m, end).at = end
  <1>0. s.at \in Nat /\ s.at >= target /\ s.at <= end /\ s.blocks \in Seq(BackingBlock)
    BY DEF Covers, AddOK
  <1>1. CASE s.at >= end
    <2>1. AddBlock(s, m, end) = s
      BY <1>1 DEF AddBlock
    <2> QED
      BY <1>0, <1>1, <2>1
  <1>2. CASE ~(s.at >= end)
    <2>1. PICK a \in Nat : a = s.at
      BY <1>0
    <2>2. a >= target /\ a < end /\ a \in Addresses
      BY <1>0, <1>2, <2>1, SpaceAssumption DEF Addresses
    <2>3. PICK v : v = FindVMA(m, a)
      OBVIOUS
    <2>4. v \in DOMAIN m /\ v <= a /\ a < AreaEnd(m, v)
      BY <2>2, <2>3, FindFacts
    <2>5. /\ v \in Nat /\ m[v].size \in Nat /\ m[v].backing \in Nat \cup {Null}
          /\ AreaEnd(m, v) \in Nat /\ AreaEnd(m, v) = v + m[v].size
      BY <2>4, AreaFacts
    <2>6. m[v].backing # Null
      BY <2>2, <2>4, BackedArea
    <2>7. PICK e : e = Min({end, AreaEnd(m, v)})
      OBVIOUS
    <2>8. e \in Nat /\ e > a /\ e <= end /\ e <= AreaEnd(m, v)
      <3>1. {end, AreaEnd(m, v)} \subseteq Nat /\ {end, AreaEnd(m, v)} # {}
        BY <2>5
      <3>2. e \in {end, AreaEnd(m, v)} /\ \A y \in {end, AreaEnd(m, v)} : e <= y
        BY <2>7, <3>1, MinNat
      <3> QED
        BY <2>2, <2>4, <2>5, <3>2
    <2>9. a - v \in Nat /\ e - a \in Nat \ {0}
      BY <2>4, <2>5, <2>8
    <2>10. PICK mem \in Nat : mem = m[v].backing
      BY <2>5, <2>6
    <2>11. Backing(m[v], a - v) = mem + (a - v)
      BY <2>5, <2>6, <2>9, <2>10, BackingFacts
    <2>12. PICK bk : bk = [memory |-> mem + (a - v), size |-> e - a]
      OBVIOUS
    <2>13. bk \in BackingBlock
      BY <2>9, <2>12 DEF BackingBlock
    <2>14. PICK r : r = AddBlock(s, m, end)
      OBVIOUS
    <2>15. r = [at |-> e, blocks |-> Append(s.blocks, bk)]
      BY <1>2, <2>1, <2>3, <2>7, <2>11, <2>12, <2>14 DEF AddBlock
    <2>16. AddOK(r, target) /\ r.at = e /\ r.blocks = Append(s.blocks, bk)
      BY <1>0, <2>2, <2>8, <2>13, <2>15 DEF AddOK
    <2>17. \A p \in a .. e - 1 : pt[p] = mem + (p - v)
      <3> SUFFICES ASSUME NEW p \in a .. e - 1 PROVE pt[p] = mem + (p - v)
        OBVIOUS
      <3>1. p \in PagesOf(v, m[v].size) /\ p - v \in Nat
        BY <2>4, <2>5, <2>8 DEF PagesOf
      <3>2. pt[p] = Backing(m[v], p - v)
        BY <2>4, <3>1 DEF Matches
      <3> QED
        BY <2>5, <2>6, <2>10, <3>1, <3>2, BackingFacts
    <2>18. PagesOf(bk.memory, bk.size) = {pt[p] : p \in a .. e - 1}
      <3>1. PagesOf(bk.memory, bk.size) = mem + (a - v) .. mem + (e - v) - 1
        <4>1. mem + (a - v) + (e - a) - 1 = mem + (e - v) - 1
          BY <2>5, <2>8, <2>10
        <4> QED
          BY <2>12, <4>1 DEF PagesOf
      <3>2. ASSUME NEW f \in mem + (a - v) .. mem + (e - v) - 1 PROVE f \in {pt[p] : p \in a .. e - 1}
        <4>1. PICK p : p = f - mem + v
          OBVIOUS
        <4>2. p \in a .. e - 1 /\ f = mem + (p - v)
          BY <2>5, <2>8, <2>10, <4>1
        <4> QED
          BY <2>17, <4>2
      <3>3. ASSUME NEW p \in a .. e - 1 PROVE pt[p] \in mem + (a - v) .. mem + (e - v) - 1
        BY <2>5, <2>8, <2>10, <2>17
      <3> QED
        BY <3>1, <3>2, <3>3
    <2>19. FramesOf(r.blocks) = {pt[p] : p \in target .. e - 1}
      <3>1. FramesOf(r.blocks) = FramesOf(s.blocks) \cup PagesOf(bk.memory, bk.size)
        BY <1>0, <2>13, <2>16, AppendFrames
      <3>2. FramesOf(s.blocks) = {pt[p] : p \in target .. a - 1}
        BY <2>1 DEF Covers
      <3>3. target .. e - 1 = (target .. a - 1) \cup (a .. e - 1)
        BY <2>2, <2>8
      <3> QED
        BY <2>18, <3>1, <3>2, <3>3
    <2>20. TotalSize(r.blocks, e - target)
      <3>1. a - target \in Nat /\ TotalSize(s.blocks, a - target)
        BY <2>1, <2>2 DEF Covers
      <3>2. TotalSize(Append(s.blocks, bk), (a - target) + bk.size)
        BY <1>0, <2>13, <3>1, AppendSize
      <3>3. (a - target) + bk.size = e - target
        BY <2>2, <2>8, <2>12
      <3> QED
        BY <2>16, <3>2, <3>3
    <2>21. Covers(r, pt, target, end)
      BY <2>8, <2>16, <2>19, <2>20 DEF Covers
    <2> QED
      BY <1>2, <2>1, <2>8, <2>14, <2>16, <2>21
  <1> QED
    BY <1>1, <1>2

\* What backs some pages.
FramesBehind(pt, pages) == {pt[p] : p \in pages}

\* GetBackingBlocksForRange gives what backs the range, and no more.
LEMMA BackingBlocksExact ==
    ASSUME NEW sp, GoodSpace(sp), NEW target \in Addresses, NEW size \in Nat,
           target + size <= MaxAddress, RangeBacked(sp.page_table, target, target + size),
           NEW blocks, blocks = GetBackingBlocksForRange(sp.vma_map, target, size)
    PROVE  /\ blocks \in Seq(BackingBlock) /\ TotalSize(blocks, size)
           /\ FramesOf(blocks) = FramesBehind(sp.page_table, PagesOf(target, size))
  <1>1. PICK m, pt, end : m = sp.vma_map /\ pt = sp.page_table /\ end = target + size
    OBVIOUS
  <1>2. Tiles(m) /\ Matches(m, pt) /\ RangeBacked(pt, target, end)
    BY <1>1 DEF GoodSpace
  <1>3. target \in Nat /\ end \in Nat /\ end <= MaxAddress /\ end = target + size
    BY <1>1 DEF Addresses
  <1>4. PICK init : init = [at |-> target, blocks |-> <<>>]
    OBVIOUS
  <1>5. Covers(init, pt, target, end) /\ init.at = target
    <2>1. AddOK(init, target) /\ init.at = target /\ init.blocks = <<>> /\ target <= end
      BY <1>3, <1>4 DEF AddOK
    <2>2. TotalSize(<<>>, target - target)
      <3>1. target - target = 0
        BY <1>3
      <3> QED
        BY <3>1, NoBlocksSize
    <2>3. FramesOf(<<>>) = {} /\ target .. target - 1 = {}
      BY <1>3 DEF FramesOf
    <2>4. {pt[p] : p \in target .. target - 1} = {}
      BY <2>3
    <2> QED
      BY <2>1, <2>2, <2>3, <2>4 DEF Covers
  <1>6. PICK v : /\ v = CHOOSE f : AddLoop(f, init, m, end, size)
                 /\ AddLoop(v, init, m, end, size)
    BY AddLoopExists
  <1>7. blocks = v[size].blocks
    BY <1>1, <1>4, <1>6 DEF GetBackingBlocksForRange, AddLoop
  <1> DEFINE T == {n \in Nat : n <= size => /\ Covers(v[n], pt, target, end)
                                            /\ v[n].at >= target + n}
  <1>8. \A i \in 0 .. size : v[i] = IF i = 0 THEN init ELSE AddBlock(v[i - 1], m, end)
    BY <1>6 DEF AddLoop
  <1>9. 0 \in T
    BY <1>3, <1>5, <1>8
  <1>10. ASSUME NEW n \in T PROVE n + 1 \in T
    <2>1. n \in Nat /\ n + 1 \in Nat
      OBVIOUS
    <2>2. ASSUME n + 1 <= size
          PROVE  Covers(v[n + 1], pt, target, end) /\ v[n + 1].at >= target + (n + 1)
      <3>1. Covers(v[n], pt, target, end) /\ v[n].at >= target + n
        BY <2>1, <2>2
      <3>2. n + 1 \in 0 .. size /\ n + 1 # 0 /\ (n + 1) - 1 = n
        BY <2>1, <2>2
      <3>3. v[n + 1] = AddBlock(v[n], m, end)
        BY <1>8, <3>2
      <3>4. /\ Covers(v[n + 1], pt, target, end)
            /\ v[n].at < end => v[n + 1].at > v[n].at
            /\ v[n].at = end => v[n + 1].at = end
        BY <1>2, <1>3, <3>1, <3>3, AddBlockCovers
      <3>5. v[n].at \in Nat /\ v[n + 1].at \in Nat /\ v[n].at <= end
        BY <3>1, <3>4 DEF Covers, AddOK
      <3> QED
        BY <1>3, <2>1, <2>2, <3>1, <3>4, <3>5
    <2> QED
      BY <2>1, <2>2
  <1>11. T = Nat
    <2> HIDE DEF T
    <2>1. T \subseteq Nat
      BY DEF T
    <2> QED
      BY <1>9, <1>10, <2>1, SetInduction
  <1>12. Covers(v[size], pt, target, end) /\ v[size].at >= target + size
    BY <1>11
  <1>13. v[size].at = end /\ end - target = size
    <2>1. v[size].at \in Nat /\ v[size].at <= end
      BY <1>12 DEF Covers, AddOK
    <2> QED
      BY <1>3, <1>12, <2>1
  <1> QED
    BY <1>1, <1>3, <1>7, <1>12, <1>13 DEF Covers, AddOK, PagesOf, FramesBehind

-----------------------------------------------------------------------------
(***************************************************************************)
(* The invariant of the process.                                           *)
(***************************************************************************)
FramesInv ==
    FrameSet(free_blocks) /\ FrameSet(holding_memory) /\ FrameSet(holding_tls_memory)

TlsInv == tls_slots \in Seq(SUBSET (0 .. SlotsPerPage - 1))

\* A block of the region has its memory, one that is mapped its address.
BlockOK(b) ==
    /\ b.size \in Nat
    /\ b.base_address \in Addresses
    /\ b.backing_blocks \in Seq(BackingBlock)
    /\ FrameSet(b.holding)
    /\ b # NoBlock /\ b.base_address = 0 => b.backing_blocks # <<>>

BuffersInv ==
    IsFiniteSet(buffers) /\ \A b \in buffers : b.at - 1 \in Addresses /\ b.size \in Nat

MemInv == GoodSpace(space) /\ FramesInv /\ TlsInv /\ BlockOK(block) /\ BuffersInv

\* What a call returns, as an address space.
LEMMA SpaceGood ==
    ASSUME NEW r, GoodSpace(r)
    PROVE  GoodSpace(Space(r))
  BY DEF GoodSpace, Space

\* Frames without some of them.
LEMMA FrameSetMinus ==
    ASSUME NEW a, FrameSet(a), NEW b
    PROVE  FrameSet(a \ b)
  BY FS_Difference DEF FrameSet

\* Two sets of frames together.
LEMMA FrameSetCup ==
    ASSUME NEW a, FrameSet(a), NEW b, FrameSet(b)
    PROVE  FrameSet(a \cup b)
  <1>1. IsFiniteSet(a \cup b)
    BY FS_Union DEF FrameSet
  <1> QED
    BY <1>1 DEF FrameSet

\* A range of frames.
LEMMA FrameSetPages ==
    ASSUME NEW a \in Nat, NEW n \in Nat
    PROVE  FrameSet(PagesOf(a, n))
  <1>1. a .. a + n - 1 \subseteq Nat /\ a \in Int /\ a + n - 1 \in Int
    OBVIOUS
  <1>2. IsFiniteSet(a .. a + n - 1)
    BY <1>1, FS_Interval
  <1> QED
    BY <1>1, <1>2 DEF PagesOf, FrameSet

\* HeapAllocate takes free frames.
LEMMA HeapFramesFacts ==
    ASSUME NEW free, FrameSet(free), NEW size
    PROVE  FrameSet(HeapFrames(free, size))
  <1>1. PICK S : S = HeapFrames(free, size)
    OBVIOUS
  <1>2. S \subseteq free
    BY <1>1 DEF HeapFrames
  <1>3. IsFiniteSet(S)
    BY <1>2, FS_Subset DEF FrameSet
  <1> QED
    BY <1>1, <1>2, <1>3 DEF FrameSet

\* The numbers of the layout.
LEMMA LayoutFacts ==
    /\ MaxAddress \in Nat /\ MaxAddress > 0 /\ 0 \in Addresses
    /\ RegionSize \in Nat /\ IpcBase \in Nat /\ HeapBase \in Nat /\ HeapEnd \in Nat
    /\ SharedEnd \in Nat /\ OldLinearBase \in Nat /\ LinearBase \in Nat /\ TlsBase \in Nat
    /\ HeapBase > 0 /\ HeapEnd <= MaxAddress /\ SharedEnd <= MaxAddress
    /\ LinearBase + RegionSize <= MaxAddress
    /\ SlotsPerPage \in Nat /\ SlotsPerPage >= 1 /\ MaxBuffers \in Nat
  BY SpaceAssumption, MemoryAssumption DEF Addresses

\* An address of the heap is one of the address space.
LEMMA HeapTarget ==
    ASSUME NEW target \in HeapBase .. HeapEnd - 1
    PROVE  target \in Addresses /\ target \in Nat /\ target # 0
  BY LayoutFacts DEF Addresses

\* So is an address of the linear heap, and it has a frame.
LEMMA LinearTarget ==
    ASSUME NEW target \in PagesOf(LinearBase, RegionSize)
    PROVE  target \in Addresses /\ target \in Nat /\ target - LinearBase \in Nat
  BY LayoutFacts DEF Addresses, PagesOf

\* Sizes are numbers, and what the heap ends with lies in the address space.
LEMMA SizeFacts ==
    /\ \A size \in Sizes \cup AliasSizes \cup BlockSizes : size \in Nat /\ size >= 1
    /\ \A size \in BufferSizes : size \in Nat
    /\ \A size \in Sizes \cup AliasSizes : HeapEnd + size <= MaxAddress
  BY MemoryAssumption

-----------------------------------------------------------------------------
\* Process::HeapAllocate keeps the invariant.
LEMMA HeapAllocateInv ==
    ASSUME MemInv, NEW target \in HeapBase .. HeapEnd - 1, NEW size \in Sizes, NEW perms,
           HeapAllocate(target, size, perms)
    PROVE  MemInv'
  <1>1. PICK frames : frames = HeapFrames(free_blocks, size)
    OBVIOUS
  <1>2. FrameSet(frames)
    BY <1>1, HeapFramesFacts DEF MemInv, FramesInv
  <1>3. PICK mapped : mapped = MapBlocks(space, target, Blocks(frames), "Private", perms)
    OBVIOUS
  <1>4. /\ space' = Space(mapped)
        /\ free_blocks' = free_blocks \ frames
        /\ holding_memory' = holding_memory \cup frames
        /\ UNCHANGED <<holding_tls_memory, tls_slots, block, buffers>>
    BY <1>1, <1>3 DEF HeapAllocate, TakeFrames, tls
  <1>5. MapOK(mapped)
    BY <1>2, <1>3, BlocksFacts, HeapTarget, MapBlocksFacts DEF MemInv
  <1>6. GoodSpace(space')
    BY <1>4, <1>5, SpaceGood DEF MapOK
  <1>7. FramesInv'
    BY <1>2, <1>4, FrameSetMinus, FrameSetCup DEF MemInv, FramesInv
  <1> QED
    BY <1>4, <1>6, <1>7 DEF MemInv, TlsInv, BuffersInv

\* Process::HeapFree keeps the invariant.
LEMMA HeapFreeInv ==
    ASSUME MemInv, NEW target \in HeapBase .. HeapEnd - 1, NEW size \in Sizes,
           HeapFree(target, size)
    PROVE  MemInv'
  <1>1. PICK blocks : blocks = GetBackingBlocksForRange(space.vma_map, target, size)
    OBVIOUS
  <1>2. PICK frames : frames = FramesOf(blocks)
    OBVIOUS
  <1>3. PICK unmapped : unmapped = UnmapRange(space, target, size)
    OBVIOUS
  <1>4. /\ space' = Space(unmapped)
        /\ free_blocks' = free_blocks \cup frames
        /\ holding_memory' = holding_memory \ frames
        /\ UNCHANGED <<holding_tls_memory, tls_slots, block, buffers>>
        /\ HasBackingBlocks(space.vma_map, target, size)
    BY <1>1, <1>2, <1>3 DEF HeapFree, ReturnFrames, tls
  <1>5. target \in Addresses /\ size \in Nat /\ target + size <= MaxAddress
    BY HeapTarget, SizeFacts, LayoutFacts
  <1>6. RangeBacked(space.page_table, target, target + size)
    BY <1>4, <1>5, CanCarveBacked DEF HasBackingBlocks, MemInv, GoodSpace
  <1>7. blocks \in Seq(BackingBlock)
    BY <1>1, <1>5, <1>6, BackingBlocksFacts DEF MemInv
  <1>8. FrameSet(frames)
    BY <1>2, <1>7, FramesOfFacts
  <1>9. GoodSpace(space')
    BY <1>3, <1>4, <1>5, UnmapFacts, SpaceGood DEF MemInv
  <1>10. FramesInv'
    BY <1>4, <1>8, FrameSetMinus, FrameSetCup DEF MemInv, FramesInv
  <1> QED
    BY <1>4, <1>9, <1>10 DEF MemInv, TlsInv, BuffersInv

\* Process::LinearAllocate keeps the invariant, once the frames are chosen.
LEMMA LinearMapInv ==
    ASSUME MemInv, NEW offset \in Nat, NEW size \in Sizes, NEW perms, LinearMap(offset, size, perms)
    PROVE  MemInv'
  <1>1. PICK frames : frames = PagesOf(offset, size)
    OBVIOUS
  <1>2. PICK mapped : mapped = MapBackingMemory(space, LinearBase + offset, offset, size, "Continuous")
    OBVIOUS
  <1>3. /\ space' = IF mapped.ok THEN Space(Reprotect(mapped, mapped.at, perms)) ELSE space
        /\ free_blocks' = free_blocks \ frames
        /\ holding_memory' = holding_memory \cup frames
        /\ UNCHANGED <<holding_tls_memory, tls_slots, block, buffers>>
    BY <1>1, <1>2 DEF LinearMap, TakeFrames, tls
  <1>4. size \in Nat /\ size >= 1 /\ LinearBase + offset \in Nat
    BY SizeFacts, LayoutFacts
  <1>5. /\ GoodSpace(mapped) /\ IsResult(mapped) /\ mapped.ok \in BOOLEAN
        /\ mapped.ok => mapped.at \in DOMAIN mapped.vma_map /\ mapped.vma_map[mapped.at].backing # Null
    BY <1>2, <1>4, MapBackingFacts DEF MemInv
  <1>6. FrameSet(frames)
    BY <1>1, <1>4, FrameSetPages
  <1>7. GoodSpace(space')
    <2>1. CASE mapped.ok
      BY <1>3, <1>5, <2>1, ReprotectFacts, SpaceGood
    <2>2. CASE ~mapped.ok
      BY <1>3, <2>2 DEF MemInv
    <2> QED
      BY <2>1, <2>2
  <1>8. FramesInv'
    BY <1>3, <1>6, FrameSetMinus, FrameSetCup DEF MemInv, FramesInv
  <1> QED
    BY <1>3, <1>7, <1>8 DEF MemInv, TlsInv, BuffersInv

\* The offsets that LinearAllocate finds.
LEMMA LinearOffsetFacts ==
    ASSUME NEW free, FrameSet(free), NEW size, LinearOffsets(free, size) # {}
    PROVE  LinearOffset(free, size) \in Nat
  <1>1. PICK S : S = LinearOffsets(free, size)
    OBVIOUS
  <1>2. S \subseteq Nat /\ S # {}
    BY <1>1 DEF LinearOffsets, FrameSet
  <1>3. Min(S) \in S
    BY <1>2, MinNat
  <1> QED
    BY <1>1, <1>2, <1>3 DEF LinearOffset

\* Process::LinearFree keeps the invariant.
LEMMA LinearFreeInv ==
    ASSUME MemInv, NEW target \in PagesOf(LinearBase, RegionSize), NEW size \in Sizes,
           LinearFree(target, size)
    PROVE  MemInv'
  <1>1. PICK frames : frames = PagesOf(target - LinearBase, size)
    OBVIOUS
  <1>2. /\ space' = Space(UnmapRange(space, target, size))
        /\ free_blocks' = free_blocks \cup frames
        /\ holding_memory' = holding_memory \ frames
        /\ UNCHANGED <<holding_tls_memory, tls_slots, block, buffers>>
    BY <1>1 DEF LinearFree, ReturnFrames, tls
  <1>3. target \in Addresses /\ size \in Nat /\ target - LinearBase \in Nat
    BY SizeFacts, LinearTarget
  <1>4. FrameSet(frames)
    BY <1>1, <1>3, FrameSetPages
  <1>5. GoodSpace(space')
    BY <1>2, <1>3, UnmapFacts, SpaceGood DEF MemInv
  <1>6. FramesInv'
    BY <1>2, <1>4, FrameSetMinus, FrameSetCup DEF MemInv, FramesInv
  <1> QED
    BY <1>2, <1>5, <1>6 DEF MemInv, TlsInv, BuffersInv

\* The calls on heap and linear memory keep the invariant.
LEMMA HeapNextInv ==
    ASSUME MemInv, HeapNext \/ FreeNext
    PROVE  MemInv'
  <1>1. FrameSet(free_blocks)
    BY DEF MemInv, FramesInv
  <1>2. ASSUME NEW size \in Sizes, NEW perms, LinearAllocate(size, perms) PROVE MemInv'
    <2>1. PICK offset : offset = LinearOffset(free_blocks, size)
      OBVIOUS
    <2>2. offset \in Nat /\ LinearMap(offset, size, perms)
      BY <1>1, <1>2, <2>1, LinearOffsetFacts DEF LinearAllocate
    <2> QED
      BY <2>2, LinearMapInv
  <1>3. ASSUME NEW size \in Sizes, NEW perms, NEW target \in PagesOf(LinearBase, RegionSize),
               LinearAllocateAt(target, size, perms)
        PROVE  MemInv'
    <2>1. PICK offset : offset = target - LinearBase
      OBVIOUS
    <2>2. offset \in Nat /\ LinearMap(offset, size, perms)
      BY <1>3, <2>1, LinearTarget DEF LinearAllocateAt
    <2> QED
      BY <2>2, LinearMapInv
  <1>4. CASE HeapNext
    BY <1>2, <1>3, <1>4, HeapAllocateInv DEF HeapNext
  <1>5. CASE FreeNext
    BY <1>5, HeapFreeInv, LinearFreeInv DEF FreeNext
  <1> QED
    BY <1>4, <1>5

-----------------------------------------------------------------------------
\* A step that changes nothing but the address space.
LEMMA OnlySpace ==
    ASSUME MemInv, NEW new, GoodSpace(new), SpaceBecomes(new)
    PROVE  MemInv'
  <1>1. /\ space' = new
        /\ UNCHANGED <<free_blocks, holding_memory, holding_tls_memory, tls_slots, block, buffers>>
    BY DEF SpaceBecomes, region, tls
  <1> QED
    BY <1>1 DEF MemInv, FramesInv, TlsInv, BuffersInv

\* Process::Map keeps the invariant.
LEMMA MapInv ==
    ASSUME MemInv, NEW target \in MapTargets, NEW source \in HeapBase .. HeapEnd - 1,
           NEW size \in AliasSizes, NEW perms, NEW privileged,
           Map(target, source, size, perms, privileged)
    PROVE  MemInv'
  <1>1. PICK sperm : sperm = IF privileged THEN {} ELSE ReadWrite
    OBVIOUS
  <1>2. PICK tstate : tstate = IF privileged THEN "AliasCode" ELSE "Alias"
    OBVIOUS
  <1>3. PICK marked : marked = ChangeMemoryState(space, source, size, "Private", ReadWrite,
                                                 SourceState(privileged), sperm)
    OBVIOUS
  <1>4. PICK blocks : blocks = GetBackingBlocksForRange(marked.vma_map, source, size)
    OBVIOUS
  <1>5. PICK mapped : mapped = MapBlocks(marked, target, blocks, tstate, perms)
    OBVIOUS
  <1>6. marked.ok /\ SpaceBecomes(Space(mapped))
    BY <1>1, <1>2, <1>3, <1>4, <1>5 DEF Map
  <1>7. /\ source \in Addresses /\ size \in Nat /\ source + size <= MaxAddress /\ target \in Nat
    <2>1. target \in Addresses
      BY MemoryAssumption
    <2> QED
      BY <2>1, HeapTarget, SizeFacts, LayoutFacts DEF Addresses
  <1>8. Rewritten(space, source, size, marked)
    BY <1>3, <1>7, ChangeFacts DEF MemInv
  <1>9. marked.ok = TRUE
    <2>1. marked = Failure(space) \/ (\E a : marked = ForEachVMA(space, source, size, a)
                                            /\ Rewrites(a) /\ CanCarveVMARange(space.vma_map, source, size))
      BY <1>3 DEF ChangeMemoryState, Rewrites
    <2> QED
      BY <1>6, <1>7, <2>1, FailureFacts, ForEachFacts, VisitedGood DEF MemInv
  <1>10. /\ GoodSpace(marked) /\ RangeBacked(marked.page_table, source, source + size)
    BY <1>8, <1>9 DEF Rewritten
  <1>11. blocks \in Seq(BackingBlock)
    BY <1>4, <1>7, <1>10, BackingBlocksFacts
  <1>12. MapOK(mapped)
    BY <1>5, <1>7, <1>10, <1>11, MapBlocksFacts
  <1>13. GoodSpace(Space(mapped))
    BY <1>12, SpaceGood DEF MapOK
  <1> QED
    BY <1>6, <1>13, OnlySpace

\* Process::Unmap keeps the invariant.
LEMMA UnmapInv ==
    ASSUME MemInv, NEW target \in UnmapTargets, NEW source \in HeapBase .. HeapEnd - 1,
           NEW size \in AliasSizes, NEW perms, NEW privileged,
           Unmap(target, source, size, perms, privileged)
    PROVE  MemInv'
  <1>1. PICK unmapped : unmapped = UnmapRange(space, target, size)
    OBVIOUS
  <1>2. PICK restored : restored = ChangeMemoryState(unmapped, source, size,
                                       SourceState(privileged), {}, "Private", perms)
    OBVIOUS
  <1>3. SpaceBecomes(Space(restored))
    BY <1>1, <1>2 DEF Unmap
  <1>4. source \in Addresses /\ size \in Nat /\ target \in Addresses
    BY HeapTarget, SizeFacts, MemoryAssumption
  <1>5. GoodSpace(unmapped)
    BY <1>1, <1>4, UnmapFacts DEF MemInv
  <1>6. Rewritten(unmapped, source, size, restored)
    BY <1>2, <1>4, <1>5, ChangeFacts
  <1>7. GoodSpace(Space(restored))
    BY <1>6, SpaceGood DEF Rewritten
  <1> QED
    BY <1>3, <1>7, OnlySpace

\* ControlMemory with Protect keeps the invariant.
LEMMA ProtectInv ==
    ASSUME MemInv, NEW target \in HeapBase .. HeapEnd - 1, NEW size \in Sizes, NEW perms,
           Protect(target, size, perms)
    PROVE  MemInv'
  <1>1. PICK r : r = ReprotectRange(space, target, size, perms)
    OBVIOUS
  <1>2. SpaceBecomes(Space(r))
    BY <1>1 DEF Protect
  <1>3. Rewritten(space, target, size, r)
    BY <1>1, HeapTarget, SizeFacts, ReprotectRangeFacts DEF MemInv
  <1>4. GoodSpace(Space(r))
    BY <1>3, SpaceGood DEF Rewritten
  <1> QED
    BY <1>2, <1>4, OnlySpace

\* The calls on aliases and permissions keep the invariant.
LEMMA AliasNextInv ==
    ASSUME MemInv, AliasNext \/ ProtectNext
    PROVE  MemInv'
  <1>1. CASE AliasNext
    BY <1>1, MapInv, UnmapInv DEF AliasNext
  <1>2. CASE ProtectNext
    BY <1>2, ProtectInv DEF ProtectNext
  <1> QED
    BY <1>1, <1>2

-----------------------------------------------------------------------------
\* A new entry of thread local storage in a page there is keeps the invariant.
LEMMA AllocateSlotInv ==
    ASSUME MemInv, AllocateSlot
    PROVE  MemInv'
  <1>1. PICK S : S = 0 .. SlotsPerPage - 1
    OBVIOUS
  <1>2. PICK page : page = Min(PagesWithSlot)
    OBVIOUS
  <1>3. tls_slots \in Seq(SUBSET S) /\ S \subseteq Nat
    BY <1>1, LayoutFacts DEF MemInv, TlsInv
  <1>4. PagesWithSlot \subseteq Nat /\ PagesWithSlot # {}
    BY <1>3 DEF PagesWithSlot, AllocateSlot
  <1>5. page \in DOMAIN tls_slots /\ tls_slots[page] # S
    <2>1. page \in PagesWithSlot
      BY <1>2, <1>4, MinNat
    <2> QED
      BY <1>1, <2>1 DEF PagesWithSlot
  <1>6. tls_slots[page] \subseteq S
    BY <1>3, <1>5
  <1>7. PICK slot : slot = FreeSlot(page)
    OBVIOUS
  <1>8. slot \in S
    <2>1. S \ tls_slots[page] \subseteq Nat /\ S \ tls_slots[page] # {}
      BY <1>3, <1>5, <1>6
    <2>2. slot = Min(S \ tls_slots[page])
      BY <1>1, <1>7 DEF FreeSlot
    <2> QED
      BY <2>1, <2>2, MinNat
  <1>9. /\ tls_slots' = [tls_slots EXCEPT ![page] = tls_slots[page] \cup {slot}]
        /\ UNCHANGED <<space, free_blocks, holding_memory, holding_tls_memory, block, buffers>>
    BY <1>2, <1>5, <1>7 DEF AllocateSlot, region
  <1>10. tls_slots[page] \cup {slot} \in SUBSET S
    BY <1>6, <1>8
  <1>11. tls_slots' \in Seq(SUBSET S)
    BY <1>3, <1>5, <1>9, <1>10
  <1> QED
    BY <1>1, <1>9, <1>11 DEF MemInv, FramesInv, TlsInv, BuffersInv

\* A new page of thread local storage keeps the invariant.
LEMMA AllocateTlsPageInv ==
    ASSUME MemInv, AllocateTlsPage
    PROVE  MemInv'
  <1>1. PICK offset : offset = LinearOffset(free_blocks, 1)
    OBVIOUS
  <1>2. offset \in Nat
    BY <1>1, LinearOffsetFacts DEF MemInv, FramesInv, AllocateTlsPage
  <1>3. Len(tls_slots) \in Nat
    BY DEF MemInv, TlsInv
  <1>4. PICK target \in Nat : target = TlsBase + Len(tls_slots)
    BY <1>3, LayoutFacts
  <1>5. PICK r : r = MapBackingMemory(space, target, offset, 1, "Locked")
    OBVIOUS
  <1>6. /\ space' = Space(r)
        /\ free_blocks' = free_blocks \ {offset}
        /\ holding_tls_memory' = holding_tls_memory \cup {offset}
        /\ tls_slots' = Append(tls_slots, {0})
        /\ UNCHANGED <<holding_memory, block, buffers>>
    BY <1>1, <1>5, <1>4 DEF AllocateTlsPage, TakeFrames
  <1>7. GoodSpace(space)
    BY DEF MemInv
  <1>8. GoodSpace(r)
    BY <1>2, <1>5, <1>4, <1>7, MapBackingFacts
  <1>9. GoodSpace(space')
    BY <1>6, <1>8, SpaceGood
  <1>10. FrameSet({offset})
    BY <1>2, FS_Singleton DEF FrameSet
  <1>11. FramesInv'
    BY <1>6, <1>10, FrameSetMinus, FrameSetCup DEF MemInv, FramesInv
  <1>12. TlsInv'
    <2>1. {0} \in SUBSET (0 .. SlotsPerPage - 1)
      BY LayoutFacts
    <2> QED
      BY <1>6, <2>1 DEF MemInv, TlsInv
  <1> QED
    BY <1>6, <1>9, <1>11, <1>12 DEF MemInv, BuffersInv

\* Thread::Stop, which gives its entry back, keeps the invariant.
LEMMA FreeSlotInv ==
    ASSUME MemInv, NEW i \in DOMAIN tls_slots, NEW slot, FreeThreadLocalStorage(i, slot)
    PROVE  MemInv'
  <1>1. /\ tls_slots' = [tls_slots EXCEPT ![i] = tls_slots[i] \ {slot}]
        /\ UNCHANGED <<space, free_blocks, holding_memory, holding_tls_memory, block, buffers>>
    BY DEF FreeThreadLocalStorage, region
  <1>2. tls_slots[i] \ {slot} \in SUBSET (0 .. SlotsPerPage - 1)
    BY DEF MemInv, TlsInv
  <1>3. TlsInv'
    BY <1>1, <1>2 DEF MemInv, TlsInv
  <1> QED
    BY <1>1, <1>3 DEF MemInv, FramesInv, BuffersInv

\* Thread local storage keeps the invariant.
LEMMA ThreadNextInv ==
    ASSUME MemInv, ThreadNext
    PROVE  MemInv'
  <1>1. \/ AllocateSlot \/ AllocateTlsPage
        \/ \E i \in DOMAIN tls_slots, slot \in 0 .. SlotsPerPage - 1 : FreeThreadLocalStorage(i, slot)
    BY DEF ThreadNext, AllocateThreadLocalStorage
  <1> QED
    BY <1>1, AllocateSlotInv, AllocateTlsPageInv, FreeSlotInv

-----------------------------------------------------------------------------
\* SharedMemory created in the region keeps the invariant.
LEMMA CreateInRegionInv ==
    ASSUME MemInv, NEW size \in BlockSizes, NEW perms, CreateBlockInRegion(size, perms)
    PROVE  MemInv'
  <1>1. PICK offset : offset = LinearOffset(free_blocks, size)
    OBVIOUS
  <1>2. offset \in Nat /\ size \in Nat /\ size >= 1
    BY <1>1, LinearOffsetFacts, SizeFacts DEF MemInv, FramesInv, CreateBlockInRegion
  <1>3. PICK bk : bk = [memory |-> offset, size |-> size]
    OBVIOUS
  <1>4. /\ free_blocks' = free_blocks \ PagesOf(offset, size)
        /\ block' = [size |-> size, base_address |-> 0, perms |-> perms,
                     backing_blocks |-> <<bk>>, holding |-> PagesOf(offset, size)]
        /\ UNCHANGED <<space, holding_memory, holding_tls_memory, tls_slots, buffers>>
    BY <1>1, <1>3 DEF CreateBlockInRegion, TakeFrames, tls
  <1>5. bk \in BackingBlock
    BY <1>2, <1>3 DEF BackingBlock
  <1>6. <<bk>> \in Seq(BackingBlock) /\ <<bk>> # <<>>
    BY <1>5
  <1>7. FrameSet(PagesOf(offset, size))
    BY <1>2, FrameSetPages
  <1>8. BlockOK(block')
    BY <1>2, <1>4, <1>6, <1>7, LayoutFacts DEF BlockOK
  <1>9. FramesInv'
    BY <1>4, FrameSetMinus DEF MemInv, FramesInv
  <1> QED
    BY <1>4, <1>8, <1>9 DEF MemInv, TlsInv, BuffersInv

\* SharedMemory created over mapped memory keeps the invariant.
LEMMA CreateAtInv ==
    ASSUME MemInv, NEW address \in HeapBase .. HeapEnd - 1, NEW size \in BlockSizes, NEW perms,
           CreateBlockAt(address, size, perms)
    PROVE  MemInv'
  <1>1. PICK locked : locked = ChangeMemoryState(space, address, size, "Private", ReadWrite,
                                                 "Locked", ConvertPermissions(perms))
    OBVIOUS
  <1>2. PICK blocks : blocks = GetBackingBlocksForRange(locked.vma_map, address, size)
    OBVIOUS
  <1>3. /\ address + size <= SharedEnd
        /\ UNCHANGED <<free_blocks, holding_memory, holding_tls_memory, tls_slots, buffers>>
    BY DEF CreateBlockAt, region, tls
  <1>4. \/ /\ locked.ok /\ space' = Space(locked)
           /\ block' = [size |-> size, base_address |-> address, perms |-> perms,
                        backing_blocks |-> blocks, holding |-> {}]
        \/ UNCHANGED <<space, block>>
    BY <1>1, <1>2 DEF CreateBlockAt
  <1>5. CASE UNCHANGED <<space, block>>
    BY <1>3, <1>5 DEF MemInv, FramesInv, TlsInv, BuffersInv
  <1>6. CASE /\ locked.ok /\ space' = Space(locked)
             /\ block' = [size |-> size, base_address |-> address, perms |-> perms,
                          backing_blocks |-> blocks, holding |-> {}]
    <2>1. /\ address \in Addresses /\ address # 0 /\ size \in Nat /\ address + size <= MaxAddress
      BY <1>3, HeapTarget, SizeFacts, LayoutFacts
    <2>2. Rewritten(space, address, size, locked)
      BY <1>1, <2>1, ChangeFacts DEF MemInv
    <2>3. locked.ok = TRUE
      <3>1. locked = Failure(space) \/ (\E a : locked = ForEachVMA(space, address, size, a)
                 /\ Rewrites(a) /\ CanCarveVMARange(space.vma_map, address, size))
        BY <1>1 DEF ChangeMemoryState, Rewrites
      <3> QED
        BY <1>6, <2>1, <3>1, FailureFacts, ForEachFacts, VisitedGood DEF MemInv
    <2>4. GoodSpace(locked) /\ RangeBacked(locked.page_table, address, address + size)
      BY <2>2, <2>3 DEF Rewritten
    <2>5. blocks \in Seq(BackingBlock)
      BY <1>2, <2>1, <2>4, BackingBlocksFacts
    <2>6. FrameSet({})
      BY FS_EmptySet DEF FrameSet
    <2>7. BlockOK(block')
      BY <1>6, <2>1, <2>5, <2>6 DEF BlockOK
    <2>8. GoodSpace(space')
      BY <1>6, <2>4, SpaceGood
    <2> QED
      BY <1>3, <2>7, <2>8 DEF MemInv, FramesInv, TlsInv, BuffersInv
  <1> QED
    BY <1>4, <1>5, <1>6

\* No block is a proper block.
LEMMA NoBlockOK == BlockOK(NoBlock)
  <1>1. FrameSet({})
    BY FS_EmptySet DEF FrameSet
  <1> QED
    BY <1>1, LayoutFacts DEF BlockOK, NoBlock

\* The destructor of SharedMemory keeps the invariant.
LEMMA DestroyInv ==
    ASSUME MemInv, DestroyBlock
    PROVE  MemInv'
  <1>1. PICK r : r = ChangeMemoryState(space, block.base_address, block.size, "Locked", {},
                                       "Private", ReadWrite)
    OBVIOUS
  <1>2. /\ free_blocks' = free_blocks \cup block.holding
        /\ space' \in {space, Space(r)}
        /\ block' = NoBlock
        /\ UNCHANGED <<holding_memory, holding_tls_memory, tls_slots, buffers>>
    BY <1>1 DEF DestroyBlock, ReturnFrames, tls
  <1>3. block.base_address \in Addresses /\ block.size \in Nat /\ FrameSet(block.holding)
    BY DEF MemInv, BlockOK
  <1>4. Rewritten(space, block.base_address, block.size, r)
    BY <1>1, <1>3, ChangeFacts DEF MemInv
  <1>5. GoodSpace(Space(r))
    BY <1>4, SpaceGood DEF Rewritten
  <1>6. GoodSpace(space')
    BY <1>2, <1>5 DEF MemInv
  <1>7. FramesInv'
    BY <1>2, <1>3, FrameSetCup DEF MemInv, FramesInv
  <1> QED
    BY <1>2, <1>6, <1>7, NoBlockOK DEF MemInv, TlsInv, BuffersInv

\* SharedMemory::Map keeps the invariant.
LEMMA MapMemoryBlockInv ==
    ASSUME MemInv, NEW address \in SharedTargets \cup {0}, NEW perms, NEW other_perms,
           MapMemoryBlock(address, perms, other_perms)
    PROVE  MemInv'
  <1>1. PICK target : target = IF block.base_address = 0 /\ address = 0
                               THEN OldLinearBase + block.backing_blocks[1].memory ELSE address
    OBVIOUS
  <1>2. PICK mapped : mapped = MapBlocks(space, target, block.backing_blocks, "Shared",
                                         ConvertPermissions(perms))
    OBVIOUS
  <1>3. SpaceBecomes(Space(mapped)) /\ block # NoBlock
    BY <1>1, <1>2 DEF MapMemoryBlock
  <1>4. block.backing_blocks \in Seq(BackingBlock)
    BY DEF MemInv, BlockOK
  <1>5. target \in Nat
    <2>1. CASE block.base_address = 0 /\ address = 0
      <3>1. block.backing_blocks # <<>>
        BY <1>3, <2>1 DEF MemInv, BlockOK
      <3>2. block.backing_blocks[1] \in BackingBlock
        BY <1>4, <3>1
      <3>3. block.backing_blocks[1].memory \in Nat
        BY <3>2 DEF BackingBlock
      <3> QED
        BY <1>1, <2>1, <3>3, LayoutFacts
    <2>2. CASE ~(block.base_address = 0 /\ address = 0)
      <3>1. address \in Nat
        BY MemoryAssumption DEF Addresses
      <3> QED
        BY <1>1, <2>2, <3>1
    <2> QED
      BY <2>1, <2>2
  <1>6. MapOK(mapped)
    BY <1>2, <1>4, <1>5, MapBlocksFacts DEF MemInv
  <1>7. GoodSpace(Space(mapped))
    BY <1>6, SpaceGood DEF MapOK
  <1> QED
    BY <1>3, <1>7, OnlySpace

\* SharedMemory::Unmap keeps the invariant.
LEMMA UnmapMemoryBlockInv ==
    ASSUME MemInv, NEW address \in UnmapTargets, UnmapMemoryBlock(address)
    PROVE  MemInv'
  <1>1. PICK r : r = UnmapRange(space, address, block.size)
    OBVIOUS
  <1>2. SpaceBecomes(Space(r))
    BY <1>1 DEF UnmapMemoryBlock
  <1>3. address \in Addresses /\ block.size \in Nat
    BY MemoryAssumption DEF MemInv, BlockOK
  <1>4. GoodSpace(Space(r))
    BY <1>1, <1>3, UnmapFacts, SpaceGood DEF MemInv
  <1> QED
    BY <1>2, <1>4, OnlySpace

\* The calls on memory blocks keep the invariant.
LEMMA BlockNextInv ==
    ASSUME MemInv, BlockNext
    PROVE  MemInv'
  BY CreateInRegionInv, CreateAtInv, DestroyInv, MapMemoryBlockInv, UnmapMemoryBlockInv
     DEF BlockNext

-----------------------------------------------------------------------------
\* There is an identifier for another buffer.
LEMMA BufferId ==
    ASSUME MemInv, Cardinality(buffers) < MaxBuffers,
           NEW id, id = Min((1 .. MaxBuffers + 1) \ {b.id : b \in buffers})
    PROVE  id \in Nat /\ id \in 1 .. MaxBuffers + 1
  <1>1. PICK B : B = buffers
    OBVIOUS
  <1>2. IsFiniteSet(B) /\ Cardinality(B) < MaxBuffers
    BY <1>1 DEF MemInv, BuffersInv
  <1>3. PICK I : I = {b.id : b \in B}
    OBVIOUS
  <1>4. PICK f : f = [b \in B |-> b.id]
    OBVIOUS
  <1>5. f \in Surjection(B, I)
    BY <1>3, <1>4 DEF Surjection
  <1>6. IsFiniteSet(I) /\ Cardinality(I) <= Cardinality(B)
    BY <1>2, <1>5, FS_Surjection
  <1>7. PICK J : J = 1 .. MaxBuffers + 1
    OBVIOUS
  <1>8. IsFiniteSet(J) /\ Cardinality(J) = MaxBuffers + 1 /\ J \subseteq Nat
    <2>1. PICK k \in Nat : k = MaxBuffers + 1
      BY LayoutFacts
    <2>2. IsFiniteSet(1 .. k) /\ Cardinality(1 .. k) = IF 1 > k THEN 0 ELSE k - 1 + 1
      BY FS_Interval
    <2>3. k >= 1
      BY <2>1, LayoutFacts
    <2> QED
      BY <1>7, <2>1, <2>2, <2>3
  <1>9. J \ I # {}
    <2> SUFFICES ASSUME J \subseteq I PROVE FALSE
      OBVIOUS
    <2>1. Cardinality(J) <= Cardinality(I)
      BY <1>6, FS_Subset
    <2>2. Cardinality(B) \in Nat /\ Cardinality(I) \in Nat
      BY <1>2, <1>6, FS_CardinalityType
    <2> QED
      BY <1>2, <1>6, <1>8, <2>1, <2>2, LayoutFacts
  <1>10. J \ I \subseteq Nat
    BY <1>8
  <1>11. id = Min(J \ I)
    BY <1>1, <1>3, <1>7
  <1>12. id \in J /\ id \in Nat
    BY <1>9, <1>10, <1>11, MinNat
  <1> QED
    BY <1>7, <1>12

\* Where MapBackingMemoryToBase maps.
LEMMA MapToBaseFacts ==
    ASSUME NEW sp, GoodSpace(sp), NEW base \in Nat, NEW rs, NEW memory \in Nat, NEW size \in Nat,
           size >= 1, NEW state,
           NEW r, r = MapBackingMemoryToBase(sp, base, rs, memory, size, state)
    PROVE  /\ GoodSpace(r)
           /\ r.ok => r.at \in Nat /\ r.at + size <= MaxAddress
  <1>1. PICK m : m = sp.vma_map
    OBVIOUS
  <1>2. PICK C : C = {b \in DOMAIN m : /\ m[b].backing = Null
                                       /\ AreaEnd(m, b) > base
                                       /\ AreaEnd(m, b) >= base + size}
    OBVIOUS
  <1>3. PICK target : target = Max({base, Min(C)})
    OBVIOUS
  <1>4. CASE C = {} \/ target + size > base + rs
    <2>1. r = Failure(sp)
      BY <1>1, <1>2, <1>3, <1>4 DEF MapBackingMemoryToBase
    <2>2. GoodSpace(r) /\ r.ok = FALSE
      BY <2>1, FailureFacts
    <2> QED
      BY <2>2
  <1>5. CASE ~(C = {} \/ target + size > base + rs)
    <2>1. PICK s : s = MapBackingMemory(sp, target, memory, size, state)
      OBVIOUS
    <2>2. r = [s EXCEPT !.at = target]
      BY <1>1, <1>2, <1>3, <1>5, <2>1 DEF MapBackingMemoryToBase
    <2>3. Tiles(m)
      BY <1>1 DEF GoodSpace
    <2>4. C \subseteq Nat /\ C # {}
      BY <1>2, <1>5, <2>3, AreaFacts
    <2>5. PICK low \in Nat : low = Min(C)
      BY <2>4, MinNat
    <2>6. target \in Nat
      <3>1. PICK k \in Nat : k = base + low
        OBVIOUS
      <3>2. {base, low} \subseteq Nat /\ {base, low} # {} /\ \A x \in {base, low} : x <= k
        BY <3>1
      <3>3. Max({base, low}) \in {base, low}
        BY <3>2, MaxNat
      <3> QED
        BY <1>3, <2>5, <3>2, <3>3
    <2>7. GoodSpace(s) /\ IsResult(s) /\ (s.ok => target + size <= MaxAddress)
      BY <2>1, <2>6, MapBackingFacts
    <2>8. r.at = target /\ r.ok = s.ok /\ r.vma_map = s.vma_map /\ r.page_table = s.page_table
      BY <2>2, <2>7 DEF IsResult
    <2>9. GoodSpace(r)
      BY <2>2, <2>7, <2>8 DEF GoodSpace, IsResult
    <2> QED
      BY <2>6, <2>7, <2>8, <2>9
  <1> QED
    BY <1>4, <1>5

\* A buffer mapped for a request, with its guard pages, keeps the invariant.
LEMMA MapBufferInv ==
    ASSUME MemInv, NEW num_pages \in BufferSizes, MapBuffer(num_pages)
    PROVE  MemInv'
  <1>1. PICK id : id = Min((1 .. MaxBuffers + 1) \ {b.id : b \in buffers})
    OBVIOUS
  <1>2. PICK size : size = num_pages + 2
    OBVIOUS
  <1>3. PICK mapped : mapped = MapBackingMemoryToBase(space, IpcBase, IpcSize, BufferMemory(id), size, "Shared")
    OBVIOUS
  <1>4. PICK low : low = ChangeMemoryState(mapped, mapped.at, 1, "Shared", ReadWrite, "Reserved", {})
    OBVIOUS
  <1>5. PICK high : high = ChangeMemoryState(low, mapped.at + size - 1, 1, "Shared", ReadWrite,
                                             "Reserved", {})
    OBVIOUS
  <1>6. PICK buffer : buffer = [id |-> id, at |-> mapped.at + 1, size |-> num_pages]
    OBVIOUS
  <1>7. /\ UNCHANGED <<free_blocks, holding_memory, holding_tls_memory, tls_slots, block>>
        /\ Cardinality(buffers) < MaxBuffers
    BY DEF MapBuffer, region, tls
  <1>8. \/ mapped.ok /\ space' = Space(high) /\ buffers' = buffers \cup {buffer}
        \/ UNCHANGED <<space, buffers>>
    BY <1>1, <1>2, <1>3, <1>4, <1>5, <1>6 DEF MapBuffer
  <1>9. CASE UNCHANGED <<space, buffers>>
    BY <1>7, <1>9 DEF MemInv, FramesInv, TlsInv, BuffersInv
  <1>10. CASE mapped.ok /\ space' = Space(high) /\ buffers' = buffers \cup {buffer}
    <2>1. num_pages \in Nat /\ size \in Nat /\ size >= 2
      BY <1>2, SizeFacts
    <2>2. id \in Nat
      BY <1>1, <1>7, BufferId
    <2>3. BufferMemory(id) \in Nat
      BY <2>2 DEF BufferMemory
    <2>4. GoodSpace(mapped) /\ mapped.at \in Nat /\ mapped.at + size <= MaxAddress
      <3>1. PICK memory \in Nat : memory = BufferMemory(id)
        BY <2>3
      <3>2. mapped = MapBackingMemoryToBase(space, IpcBase, IpcSize, memory, size, "Shared")
        BY <1>3, <3>1
      <3>3. GoodSpace(space) /\ IpcBase \in Nat /\ size >= 1
        BY <2>1, LayoutFacts DEF MemInv
      <3>4. /\ GoodSpace(mapped)
            /\ mapped.ok => mapped.at \in Nat /\ mapped.at + size <= MaxAddress
        BY <2>1, <3>2, <3>3, MapToBaseFacts
      <3> QED
        BY <1>10, <3>4
    <2>5. mapped.at \in Addresses /\ mapped.at + size - 1 \in Addresses
      BY <2>1, <2>4, LayoutFacts DEF Addresses
    <2>6. Rewritten(mapped, mapped.at, 1, low)
      BY <1>4, <2>4, <2>5, ChangeFacts
    <2>7. Rewritten(low, mapped.at + size - 1, 1, high)
      BY <1>5, <2>5, <2>6, ChangeFacts DEF Rewritten
    <2>8. GoodSpace(space')
      BY <1>10, <2>7, SpaceGood DEF Rewritten
    <2>9. buffer.at - 1 \in Addresses /\ buffer.size \in Nat
      <3>1. buffer.at - 1 = mapped.at
        BY <1>6, <2>4
      <3> QED
        BY <1>6, <2>1, <2>5, <3>1
    <2>10. IsFiniteSet(buffers \cup {buffer})
      BY FS_AddElement DEF MemInv, BuffersInv
    <2>11. BuffersInv'
      BY <1>10, <2>9, <2>10 DEF MemInv, BuffersInv
    <2> QED
      BY <1>7, <2>8, <2>11 DEF MemInv, FramesInv, TlsInv
  <1> QED
    BY <1>8, <1>9, <1>10

\* A buffer unmapped by the reply keeps the invariant.
LEMMA UnmapBufferInv ==
    ASSUME MemInv, NEW buffer \in buffers, UnmapBuffer(buffer)
    PROVE  MemInv'
  <1>1. PICK r : r = UnmapRange(space, buffer.at - 1, buffer.size + 2)
    OBVIOUS
  <1>2. /\ space' = Space(r) /\ buffers' = buffers \ {buffer}
        /\ UNCHANGED <<free_blocks, holding_memory, holding_tls_memory, tls_slots, block>>
    BY <1>1 DEF UnmapBuffer, region, tls
  <1>3. buffer.at - 1 \in Addresses /\ buffer.size + 2 \in Nat
    BY DEF MemInv, BuffersInv
  <1>4. GoodSpace(space')
    BY <1>1, <1>2, <1>3, UnmapFacts, SpaceGood DEF MemInv
  <1>5. BuffersInv'
    BY <1>2, FS_Difference DEF MemInv, BuffersInv
  <1> QED
    BY <1>2, <1>4, <1>5 DEF MemInv, FramesInv, TlsInv

-----------------------------------------------------------------------------
\* The address space of a new process.
LEMMA EmptyGood == GoodSpace(EmptySpace)
  <1>1. PICK m : m = EmptySpace.vma_map
    OBVIOUS
  <1>2. DOMAIN m = {0} /\ m[0] = FreeArea(MaxAddress)
    BY <1>1 DEF EmptySpace
  <1>3. MaxAddress \in Nat \ {0} /\ 0 \in Addresses
    BY SpaceAssumption, LayoutFacts
  <1>4. AreaOK(m[0]) /\ m[0].size = MaxAddress /\ m[0].backing = Null
    BY <1>2, <1>3 DEF AreaOK, AreaFields, FreeArea
  <1>5. AreaEnd(m, 0) = MaxAddress
    BY <1>3, <1>4 DEF AreaEnd
  <1>6. MaxAddress \notin DOMAIN m
    BY <1>2, <1>3
  <1>7. Tiles(m)
    BY <1>2, <1>3, <1>4, <1>5 DEF Tiles
  <1>8. FreesMerged(m)
    BY <1>2, <1>5, <1>6 DEF FreesMerged
  <1>9. PICK pt : pt = EmptySpace.page_table
    OBVIOUS
  <1>10. pt = [p \in Addresses |-> Null]
    BY <1>9 DEF EmptySpace
  <1>11. \A p \in PagesOf(0, MaxAddress) : p \in Addresses
    BY <1>3 DEF PagesOf, Addresses
  <1>12. Matches(m, pt)
    BY <1>2, <1>4, <1>10, <1>11 DEF Matches, Backing
  <1> QED
    BY <1>1, <1>7, <1>8, <1>9, <1>12 DEF GoodSpace, EmptySpace

\* The end of the process keeps the invariant.
LEMMA TerminateInv ==
    ASSUME MemInv, Terminate
    PROVE  MemInv'
  <1>1. /\ free_blocks' = free_blocks \cup (holding_memory \cup holding_tls_memory \cup block.holding)
        /\ space' = EmptySpace /\ holding_memory' = {} /\ holding_tls_memory' = {}
        /\ tls_slots' = <<>> /\ block' = NoBlock /\ buffers' = {}
    BY DEF Terminate
  <1>2. FrameSet({}) /\ IsFiniteSet({})
    BY FS_EmptySet DEF FrameSet
  <1>3. FrameSet(free_blocks')
    BY <1>1, FrameSetCup DEF MemInv, FramesInv, BlockOK
  <1>4. FramesInv'
    BY <1>1, <1>2, <1>3 DEF FramesInv
  <1>5. TlsInv' /\ BuffersInv'
    BY <1>1, <1>2 DEF TlsInv, BuffersInv
  <1> QED
    BY <1>1, <1>4, <1>5, EmptyGood, NoBlockOK DEF MemInv

\* The invariant holds at first.
LEMMA MemInit ==
    ASSUME Init
    PROVE  MemInv
  <1>1. FrameSet({}) /\ IsFiniteSet({})
    BY FS_EmptySet DEF FrameSet
  <1>2. Frames = PagesOf(0, RegionSize)
    BY LayoutFacts DEF Frames, PagesOf
  <1>3. FrameSet(Frames)
    BY <1>2, FrameSetPages, LayoutFacts
  <1>4. FramesInv
    BY <1>1, <1>3 DEF Init, FramesInv
  <1>5. TlsInv /\ BuffersInv
    BY <1>1 DEF Init, TlsInv, BuffersInv
  <1> QED
    BY <1>4, <1>5, EmptyGood, NoBlockOK DEF Init, MemInv

\* Every step keeps the invariant.
LEMMA MemStep ==
    ASSUME MemInv, [Next]_vars
    PROVE  MemInv'
  <1>1. CASE UNCHANGED vars
    BY <1>1 DEF vars, region, tls, MemInv, FramesInv, TlsInv, BuffersInv
  <1>2. CASE Next
    <2>1. \/ HeapNext \/ FreeNext \/ AliasNext \/ ProtectNext \/ ThreadNext \/ BlockNext
          \/ (\E num_pages \in BufferSizes : MapBuffer(num_pages))
          \/ (\E buffer \in buffers : UnmapBuffer(buffer))
          \/ Terminate
      BY <1>2 DEF Next, BufferNext
    <2> QED
      BY <2>1, HeapNextInv, AliasNextInv, ThreadNextInv, BlockNextInv, MapBufferInv,
         UnmapBufferInv, TerminateInv
  <1> QED
    BY <1>1, <1>2

\* A page lies in one area.
LEMMA GoodExact ==
    ASSUME GoodSpace(space)
    PROVE  VMAsExact
  <1>1. PICK m : m = space.vma_map
    OBVIOUS
  <1>2. Tiles(m) /\ FreesMerged(m) /\ Matches(m, space.page_table)
    BY <1>1 DEF GoodSpace
  <1>3. \A b \in DOMAIN m : m[b].size > 0
    BY <1>2, AreaFacts
  <1>4. ASSUME NEW p \in Addresses
        PROVE  space.page_table[p] = PageView[p].backing
    <2>1. \E b \in DOMAIN m : b <= p /\ p < AreaEnd(m, b)
      BY <1>2, FindFacts
    <2>2. PICK b : b = CHOOSE x \in DOMAIN m : x <= p /\ p < AreaEnd(m, x)
      OBVIOUS
    <2>3. b \in DOMAIN m /\ b <= p /\ p < AreaEnd(m, b)
      BY <2>1, <2>2
    <2>4. PageView[p].backing = Backing(m[b], p - b)
      BY <1>1, <2>2 DEF PageView
    <2>5. p \in PagesOf(b, m[b].size)
      <3>1. b \in Nat /\ m[b].size \in Nat /\ AreaEnd(m, b) = b + m[b].size /\ p \in Nat
        BY <1>2, <2>3, AreaFacts DEF Addresses
      <3> QED
        BY <2>3, <3>1 DEF PagesOf
    <2> QED
      BY <1>2, <2>3, <2>4, <2>5 DEF Matches
  <1> QED
    BY <1>1, <1>2, <1>3, <1>4 DEF VMAsExact, Tiles, FreesMerged

(***************************************************************************)
(* vm_manager.h:104, through every call of process.cpp, shared_memory.cpp  *)
(* and ipc.cpp: the areas follow each other without a gap, no two Free     *)
(* ones are left apart, and the page table says what the areas say.        *)
(***************************************************************************)
THEOREM AddressSpaceExact == Spec => []VMAsExact
  <1>1. Init => MemInv
    BY MemInit
  <1>2. MemInv /\ [Next]_vars => MemInv'
    BY MemStep
  <1>3. MemInv => VMAsExact
    BY GoodExact DEF MemInv
  <1> QED
    BY <1>1, <1>2, <1>3, PTL DEF Spec

-----------------------------------------------------------------------------
(***************************************************************************)
(* The frames that the calls take: how many they are, and their intervals. *)
(***************************************************************************)
\* The frames are finitely many.
LEMMA FrameFacts ==
    /\ FrameSet(Frames) /\ Cardinality(Frames) = RegionSize
    /\ RegionSize \in Nat \ {0} /\ \A f \in Frames : f \in Nat /\ f < RegionSize
  <1>1. RegionSize \in Nat \ {0}
    BY MemoryAssumption
  <1>2. 0 \in Int /\ RegionSize - 1 \in Int /\ ~(0 > RegionSize - 1)
    BY <1>1
  <1>3. IsFiniteSet(0 .. RegionSize - 1) /\ Cardinality(0 .. RegionSize - 1) = RegionSize - 1 - 0 + 1
    BY <1>2, FS_Interval
  <1>4. RegionSize - 1 - 0 + 1 = RegionSize
    BY <1>1
  <1> QED
    BY <1>1, <1>3, <1>4 DEF Frames, FrameSet

\* Some of them are so too.
LEMMA SomeFrames ==
    ASSUME NEW a, a \subseteq Frames
    PROVE  /\ FrameSet(a) /\ IsFiniteSet(a) /\ Cardinality(a) \in Nat
           /\ Cardinality(a) <= RegionSize
           /\ \A f \in a : f \in Nat /\ f < RegionSize
  <1>1. IsFiniteSet(Frames) /\ Cardinality(Frames) = RegionSize
    BY FrameFacts DEF FrameSet
  <1>2. IsFiniteSet(a) /\ Cardinality(a) <= RegionSize
    BY <1>1, FS_Subset
  <1>3. Cardinality(a) \in Nat
    BY <1>2, FS_CardinalityType
  <1>4. \A f \in a : f \in Nat /\ f < RegionSize
    BY FrameFacts
  <1> QED
    BY <1>2, <1>3, <1>4 DEF FrameSet

\* Frames that are taken out, and put back.
LEMMA TakenCount ==
    ASSUME NEW a, a \subseteq Frames, NEW b, b \subseteq a
    PROVE  /\ Cardinality(a) \in Nat /\ Cardinality(b) \in Nat
           /\ Cardinality(a \ b) = Cardinality(a) - Cardinality(b)
           /\ Cardinality(b) <= Cardinality(a)
  <1>1. IsFiniteSet(a) /\ IsFiniteSet(b) /\ Cardinality(a) \in Nat /\ Cardinality(b) \in Nat
    BY SomeFrames
  <1>2. a \cap b = b
    OBVIOUS
  <1>3. Cardinality(a \ b) = Cardinality(a) - Cardinality(a \cap b)
    BY <1>1, FS_Difference
  <1>4. Cardinality(b) <= Cardinality(a)
    BY <1>1, FS_Subset
  <1> QED
    BY <1>1, <1>2, <1>3, <1>4

\* Frames that were not free are counted when they become free.
LEMMA AddedCount ==
    ASSUME NEW a, a \subseteq Frames, NEW b, b \subseteq Frames, a \cap b = {}
    PROVE  /\ Cardinality(a) \in Nat /\ Cardinality(b) \in Nat
           /\ Cardinality(a \cup b) = Cardinality(a) + Cardinality(b)
           /\ Cardinality(a) + Cardinality(b) <= RegionSize
  <1>1. IsFiniteSet(a) /\ IsFiniteSet(b) /\ Cardinality(a) \in Nat /\ Cardinality(b) \in Nat
    BY SomeFrames
  <1>2. Cardinality(a \cup b) = Cardinality(a) + Cardinality(b) - Cardinality(a \cap b)
    BY <1>1, FS_Union
  <1>3. Cardinality(a \cap b) = 0
    BY FS_EmptySet
  <1>4. a \cup b \subseteq Frames
    OBVIOUS
  <1>5. Cardinality(a \cup b) <= RegionSize
    BY <1>4, SomeFrames
  <1> QED
    BY <1>1, <1>2, <1>3, <1>5

\* A range has as many pages as its size.
LEMMA PagesCount ==
    ASSUME NEW a \in Int, NEW n \in Nat
    PROVE  IsFiniteSet(PagesOf(a, n)) /\ Cardinality(PagesOf(a, n)) = n
  <1>1. a + n - 1 \in Int
    OBVIOUS
  <1>2. /\ IsFiniteSet(a .. a + n - 1)
        /\ Cardinality(a .. a + n - 1) = IF a > a + n - 1 THEN 0 ELSE a + n - 1 - a + 1
    BY <1>1, FS_Interval
  <1>3. (IF a > a + n - 1 THEN 0 ELSE a + n - 1 - a + 1) = n
    OBVIOUS
  <1> QED
    BY <1>2, <1>3 DEF PagesOf

\* The frames above f.
Above(free, f) == {g \in free : g > f}

\* HeapAllocate takes as many frames as it was asked for.
LEMMA HeapFramesCount ==
    ASSUME NEW free, free \subseteq Frames, NEW size \in Nat, HeapFrames(free, size) # {}
    PROVE  HeapFrames(free, size) \subseteq free /\ Cardinality(HeapFrames(free, size)) = size
  <1>1. PICK S : S = HeapFrames(free, size)
    OBVIOUS
  <1>2. ~(Cardinality(free) < size) /\ S = {f \in free : Cardinality(Above(free, f)) < size}
    <2>1. ~(Cardinality(free) < size)
      BY DEF HeapFrames
    <2> QED
      BY <1>1, <2>1 DEF HeapFrames, Above
  <1>3. S \subseteq free /\ S # {}
    BY <1>1, <1>2
  <1>4. /\ IsFiniteSet(free) /\ Cardinality(free) \in Nat
        /\ \A f \in free : f \in Nat /\ f < RegionSize
    BY SomeFrames
  <1>5. IsFiniteSet(S) /\ Cardinality(S) \in Nat
    BY <1>3, <1>4, FS_Subset, FS_CardinalityType
  <1>6. \A f : /\ Above(free, f) \subseteq free /\ IsFiniteSet(Above(free, f))
               /\ Cardinality(Above(free, f)) \in Nat
    <2> SUFFICES ASSUME NEW f
                 PROVE  /\ Above(free, f) \subseteq free /\ IsFiniteSet(Above(free, f))
                        /\ Cardinality(Above(free, f)) \in Nat
      OBVIOUS
    <2>1. Above(free, f) \subseteq free
      BY DEF Above
    <2>2. IsFiniteSet(Above(free, f))
      BY <1>4, <2>1, FS_Subset
    <2> QED
      BY <2>1, <2>2, FS_CardinalityType
  <1>7. Cardinality(S) <= size
    <2>1. S \subseteq Nat
      BY <1>3, <1>4
    <2>2. PICK f \in S : \A g \in S : f <= g
      BY <1>3, <2>1, LeastNat
    <2>3. PICK U : U = Above(free, f)
      OBVIOUS
    <2>4. S \subseteq U \cup {f}
      <3> SUFFICES ASSUME NEW g \in S, g # f PROVE g \in U
        OBVIOUS
      <3>1. f \in Nat /\ g \in Nat /\ f <= g /\ g \in free
        BY <1>3, <2>1, <2>2
      <3>2. g > f
        BY <3>1
      <3> QED
        BY <2>3, <3>1, <3>2 DEF Above
    <2>5. IsFiniteSet(U) /\ Cardinality(U) \in Nat /\ Cardinality(U) < size
      BY <1>2, <1>6, <2>2, <2>3
    <2>6. IsFiniteSet(U \cup {f}) /\ Cardinality(U \cup {f}) <= Cardinality(U) + 1
      <3>1. /\ IsFiniteSet(U \cup {f})
            /\ Cardinality(U \cup {f}) = IF f \in U THEN Cardinality(U) ELSE Cardinality(U) + 1
        BY <2>5, FS_AddElement
      <3> QED
        BY <2>5, <3>1
    <2>7. Cardinality(S) <= Cardinality(U \cup {f}) /\ Cardinality(U \cup {f}) \in Nat
      BY <2>4, <2>6, FS_Subset, FS_CardinalityType
    <2> QED
      BY <1>5, <2>5, <2>6, <2>7
  <1>8. Cardinality(S) >= size
    <2> SUFFICES ASSUME Cardinality(S) < size PROVE FALSE
      BY <1>5
    <2>1. PICK D : D = free \ S
      OBVIOUS
    <2>2. D # {}
      <3>1. S # free
        BY <1>2, <1>4, <1>5
      <3> QED
        BY <1>3, <2>1, <3>1
    <2>3. D \subseteq Nat /\ RegionSize \in Nat /\ \A x \in D : x <= RegionSize
      <3>1. \A x \in D : x \in Nat /\ x < RegionSize
        BY <1>4, <2>1
      <3>2. RegionSize \in Nat
        BY LayoutFacts
      <3> QED
        BY <3>1, <3>2
    <2>4. PICK f : f \in D /\ \A x \in D : f >= x
      BY <2>2, <2>3, MaxNat
    <2>5. Above(free, f) \subseteq S
      <3> SUFFICES ASSUME NEW g \in free, g > f PROVE g \in S
        BY DEF Above
      <3>1. g \in Nat /\ f \in Nat
        BY <1>4, <2>3, <2>4
      <3> QED
        BY <2>1, <2>4, <3>1
    <2>6. Cardinality(Above(free, f)) <= Cardinality(S)
      BY <1>5, <2>5, FS_Subset
    <2>7. Cardinality(Above(free, f)) < size
      BY <1>5, <1>6, <2>6
    <2> QED
      BY <1>2, <2>1, <2>4, <2>7
  <1> QED
    BY <1>1, <1>3, <1>5, <1>7, <1>8

\* A run is an interval of its length.
LEMMA RunIsInterval ==
    ASSUME NEW left, left \subseteq Frames, NEW lower \in left
    PROVE  RunFrom(left, lower) = PagesOf(lower, Cardinality(RunFrom(left, lower)))
  <1>1. lower \in Nat /\ lower < RegionSize /\ RegionSize \in Nat
    BY FrameFacts
  <1>2. PICK G : G = {x \in Nat : x >= lower /\ x \notin left}
    OBVIOUS
  <1>3. RegionSize \in G
    <2>1. RegionSize \notin left
      BY FrameFacts
    <2> QED
      BY <1>1, <1>2, <2>1
  <1>4. PICK u \in G : \A x \in G : u <= x
    BY <1>2, <1>3, LeastNat
  <1>5. u \in Nat /\ u > lower /\ u \notin left
    <2>1. u \in Nat /\ u >= lower /\ u \notin left
      BY <1>2, <1>4
    <2> QED
      BY <1>1, <2>1
  <1>6. \A x \in Nat : x >= lower /\ x < u => x \in left
    BY <1>2, <1>4, <1>5
  <1>7. PICK run : run = RunFrom(left, lower)
    OBVIOUS
  <1>8. run = lower .. u - 1
    <2>1. ASSUME NEW g \in run PROVE g \in lower .. u - 1
      <3>1. g \in left /\ g >= lower /\ lower .. g \subseteq left
        BY <1>7 DEF RunFrom
      <3>2. g \in Nat
        BY <3>1, FrameFacts
      <3>3. g < u
        <4> SUFFICES ASSUME g >= u PROVE FALSE
          BY <1>5, <3>2
        <4>1. u \in lower .. g
          BY <1>1, <1>5, <3>2
        <4> QED
          BY <1>5, <3>1, <4>1
      <3> QED
        BY <1>1, <1>5, <3>1, <3>2, <3>3
    <2>2. ASSUME NEW g \in lower .. u - 1 PROVE g \in run
      <3>1. g \in Nat /\ g >= lower /\ g < u
        BY <1>1, <1>5
      <3>2. lower .. g \subseteq left
        <4> SUFFICES ASSUME NEW x \in lower .. g PROVE x \in left
          OBVIOUS
        <4>1. x \in Nat /\ x >= lower /\ x < u
          BY <1>1, <1>5, <3>1
        <4> QED
          BY <1>6, <4>1
      <3>3. g \in left
        BY <1>6, <3>1
      <3> QED
        BY <1>7, <3>1, <3>2, <3>3 DEF RunFrom
    <2> QED
      BY <2>1, <2>2
  <1>9. PICK n \in Nat : n = u - lower
    BY <1>1, <1>5
  <1>10. lower + n - 1 = u - 1
    BY <1>1, <1>5, <1>9
  <1>11. run = PagesOf(lower, n)
    BY <1>8, <1>10 DEF PagesOf
  <1>12. Cardinality(run) = n
    BY <1>1, <1>11, PagesCount
  <1> QED
    BY <1>7, <1>11, <1>12

\* The blocks share no frame.
NoneShared(blocks) ==
    \A i, j \in DOMAIN blocks :
      i # j => PagesOf(blocks[i].memory, blocks[i].size) \cap PagesOf(blocks[j].memory, blocks[j].size) = {}

\* The intervals taken so far.
Taken(s, frames) ==
    /\ s.left \subseteq frames /\ s.blocks \in Seq(BackingBlock)
    /\ FramesOf(s.blocks) = frames \ s.left
    /\ TotalSize(s.blocks, Cardinality(frames) - Cardinality(s.left))
    /\ NoneShared(s.blocks)

\* A block of other frames stays apart.
LEMMA AppendNoneShared ==
    ASSUME NEW blocks \in Seq(BackingBlock), NoneShared(blocks), NEW bk \in BackingBlock,
           FramesOf(blocks) \cap PagesOf(bk.memory, bk.size) = {}
    PROVE  NoneShared(Append(blocks, bk))
  <1>1. PICK n \in Nat : n = Len(blocks)
    OBVIOUS
  <1>2. PICK all : all = Append(blocks, bk)
    OBVIOUS
  <1>3. /\ DOMAIN blocks = 1 .. n /\ DOMAIN all = 1 .. n + 1
        /\ all[n + 1] = bk /\ \A i \in 1 .. n : all[i] = blocks[i]
    BY <1>1, <1>2
  <1>4. \A i \in 1 .. n : PagesOf(blocks[i].memory, blocks[i].size) \subseteq FramesOf(blocks)
    BY <1>3 DEF FramesOf
  <1>5. ASSUME NEW i \in DOMAIN all, NEW j \in DOMAIN all, i # j
        PROVE  PagesOf(all[i].memory, all[i].size) \cap PagesOf(all[j].memory, all[j].size) = {}
    <2>1. CASE i \in 1 .. n /\ j \in 1 .. n
      BY <1>3, <1>5, <2>1 DEF NoneShared
    <2>2. CASE i = n + 1
      <3>1. j \in 1 .. n
        BY <1>3, <1>5, <2>2
      <3> QED
        BY <1>3, <1>4, <2>2, <3>1
    <2>3. CASE j = n + 1
      <3>1. i \in 1 .. n
        BY <1>3, <1>5, <2>3
      <3> QED
        BY <1>3, <1>4, <2>3, <3>1
    <2>4. (i \in 1 .. n \/ i = n + 1) /\ (j \in 1 .. n \/ j = n + 1)
      BY <1>3
    <2> QED
      BY <2>1, <2>2, <2>3, <2>4
  <1> QED
    BY <1>2, <1>5 DEF NoneShared

\* An interval more.
LEMMA IntervalTaken ==
    ASSUME NEW frames, frames \subseteq Frames, NEW s, Taken(s, frames)
    PROVE  /\ Taken(NextInterval(s), frames)
           /\ s.left # {} => Cardinality(NextInterval(s).left) < Cardinality(s.left)
           /\ s.left = {} => NextInterval(s).left = {}
  <1>1. CASE s.left = {}
    <2>1. NextInterval(s) = s
      BY <1>1 DEF NextInterval
    <2> QED
      BY <1>1, <2>1
  <1>2. CASE s.left # {}
    <2>1. PICK left : left = s.left
      OBVIOUS
    <2>2. left \subseteq Frames /\ left \subseteq frames /\ left # {}
      BY <1>2, <2>1 DEF Taken
    <2>3. left \subseteq Nat /\ IsFiniteSet(left) /\ Cardinality(left) \in Nat
      BY <2>2, SomeFrames DEF FrameSet
    <2>4. PICK lower : lower = Min(left)
      OBVIOUS
    <2>5. lower \in left /\ lower \in Nat
      BY <2>2, <2>3, <2>4, MinNat
    <2>6. PICK run : run = RunFrom(left, lower)
      OBVIOUS
    <2>7. run \subseteq left /\ lower \in run
      <3>1. lower .. lower \subseteq left
        BY <2>5
      <3> QED
        BY <2>5, <2>6, <3>1 DEF RunFrom
    <2>8. /\ Cardinality(run) \in Nat
          /\ Cardinality(left \ run) = Cardinality(left) - Cardinality(run)
          /\ Cardinality(run) <= Cardinality(left)
      BY <2>2, <2>7, TakenCount
    <2>9. Cardinality(run) # 0
      <3>1. IsFiniteSet(run)
        BY <2>3, <2>7, FS_Subset
      <3> QED
        BY <2>7, <3>1, FS_EmptySet
    <2>10. PICK n \in Nat \ {0} : n = Cardinality(run)
      BY <2>8, <2>9
    <2>11. PICK bk : bk = [memory |-> lower, size |-> n]
      OBVIOUS
    <2>12. bk \in BackingBlock
      BY <2>5, <2>11 DEF BackingBlock
    <2>13. run = PagesOf(bk.memory, bk.size)
      <3>1. run = PagesOf(lower, n)
        BY <2>2, <2>5, <2>6, <2>10, RunIsInterval
      <3> QED
        BY <2>11, <3>1
    <2>14. PICK r : r = NextInterval(s)
      OBVIOUS
    <2>15. r = [left |-> left \ run, blocks |-> Append(s.blocks, bk)]
      BY <1>2, <2>1, <2>4, <2>6, <2>10, <2>11, <2>14 DEF NextInterval
    <2>16. r.left = left \ run /\ r.blocks = Append(s.blocks, bk) /\ r.left \subseteq frames
      BY <2>2, <2>15
    <2>17. s.blocks \in Seq(BackingBlock) /\ FramesOf(s.blocks) = frames \ left /\ NoneShared(s.blocks)
      BY <2>1 DEF Taken
    <2>18. r.blocks \in Seq(BackingBlock)
      BY <2>12, <2>16, <2>17
    <2>19. FramesOf(r.blocks) = frames \ r.left
      <3>1. FramesOf(r.blocks) = FramesOf(s.blocks) \cup run
        BY <2>12, <2>13, <2>16, <2>17, AppendFrames
      <3> QED
        BY <2>2, <2>7, <2>16, <2>17, <3>1
    <2>20. NoneShared(r.blocks)
      <3>1. FramesOf(s.blocks) \cap PagesOf(bk.memory, bk.size) = {}
        BY <2>7, <2>13, <2>17
      <3> QED
        BY <2>12, <2>16, <2>17, <3>1, AppendNoneShared
    <2>21. TotalSize(r.blocks, Cardinality(frames) - Cardinality(r.left))
      <3>1. PICK k \in Nat, l \in Nat : k = Cardinality(frames) /\ l = Cardinality(left)
        BY <2>3, SomeFrames
      <3>2. l <= k
        BY <2>2, <3>1, TakenCount
      <3>3. k - l \in Nat /\ TotalSize(s.blocks, k - l)
        BY <2>1, <3>1, <3>2 DEF Taken
      <3>4. TotalSize(Append(s.blocks, bk), (k - l) + bk.size)
        BY <2>12, <2>17, <3>3, AppendSize
      <3>5. Cardinality(r.left) = l - n /\ bk.size = n
        BY <2>8, <2>10, <2>11, <2>16, <3>1
      <3>6. (k - l) + bk.size = k - (l - n)
        BY <3>5
      <3> QED
        BY <2>16, <3>1, <3>4, <3>5, <3>6
    <2>22. Taken(r, frames)
      BY <2>16, <2>18, <2>19, <2>20, <2>21 DEF Taken
    <2>23. Cardinality(r.left) < Cardinality(left)
      BY <2>3, <2>8, <2>10, <2>16
    <2> QED
      BY <1>2, <2>1, <2>14, <2>22, <2>23
  <1> QED
    BY <1>1, <1>2

\* The intervals of a set of frames hold these frames, each once.
LEMMA BlocksExact ==
    ASSUME NEW frames, frames \subseteq Frames, NEW blocks, blocks = Blocks(frames)
    PROVE  /\ blocks \in Seq(BackingBlock) /\ FramesOf(blocks) = frames
           /\ TotalSize(blocks, Cardinality(frames)) /\ NoneShared(blocks)
  <1>1. PICK size \in Nat : size = Cardinality(frames)
    BY SomeFrames
  <1>2. PICK init : init = [left |-> frames, blocks |-> <<>>]
    OBVIOUS
  <1>3. Taken(init, frames) /\ init.left = frames
    <2>1. init.left = frames /\ init.blocks = <<>> /\ <<>> \in Seq(BackingBlock)
      BY <1>2
    <2>2. FramesOf(<<>>) = {} /\ NoneShared(<<>>)
      BY DEF FramesOf, NoneShared
    <2>3. TotalSize(<<>>, size - size)
      <3>1. size - size = 0
        BY <1>1
      <3> QED
        BY <3>1, NoBlocksSize
    <2> QED
      BY <1>1, <2>1, <2>2, <2>3 DEF Taken
  <1>4. PICK v : v = (CHOOSE f : TakeLoop(f, init, size)) /\ TakeLoop(v, init, size)
    BY TakeLoopExists
  <1>5. blocks = v[size].blocks
    BY <1>1, <1>2, <1>4 DEF Blocks, TakeLoop
  <1> DEFINE T == {n \in Nat : n <= size => /\ Taken(v[n], frames)
                                            /\ Cardinality(v[n].left) <= size - n}
  <1>6. \A i \in 0 .. size : v[i] = IF i = 0 THEN init ELSE NextInterval(v[i - 1])
    BY <1>4 DEF TakeLoop
  <1>7. 0 \in T
    BY <1>1, <1>3, <1>6
  <1>8. ASSUME NEW n \in T PROVE n + 1 \in T
    <2>1. n \in Nat /\ n + 1 \in Nat
      OBVIOUS
    <2>2. ASSUME n + 1 <= size
          PROVE  Taken(v[n + 1], frames) /\ Cardinality(v[n + 1].left) <= size - (n + 1)
      <3>1. Taken(v[n], frames) /\ Cardinality(v[n].left) <= size - n
        BY <2>1, <2>2
      <3>2. n + 1 \in 0 .. size /\ n + 1 # 0 /\ (n + 1) - 1 = n
        BY <2>1, <2>2
      <3>3. v[n + 1] = NextInterval(v[n])
        BY <1>6, <3>2
      <3>4. /\ Taken(v[n + 1], frames)
            /\ v[n].left # {} => Cardinality(v[n + 1].left) < Cardinality(v[n].left)
            /\ v[n].left = {} => v[n + 1].left = {}
        BY <3>1, <3>3, IntervalTaken
      <3>5. v[n].left \subseteq Frames /\ v[n + 1].left \subseteq Frames
        BY <3>1, <3>4 DEF Taken
      <3>6. PICK k \in Nat, l \in Nat : k = Cardinality(v[n].left) /\ l = Cardinality(v[n + 1].left)
        BY <3>5, SomeFrames
      <3>7. v[n].left = {} => l = 0
        BY <3>4, <3>6, FS_EmptySet
      <3> QED
        BY <2>1, <2>2, <3>1, <3>4, <3>6, <3>7
    <2> QED
      BY <2>1, <2>2
  <1>9. T = Nat
    <2> HIDE DEF T
    <2>1. T \subseteq Nat
      BY DEF T
    <2> QED
      BY <1>7, <1>8, <2>1, SetInduction
  <1>10. Taken(v[size], frames) /\ Cardinality(v[size].left) <= size - size
    BY <1>9
  <1>11. v[size].left = {}
    <2>1. v[size].left \subseteq Frames
      BY <1>10 DEF Taken
    <2>2. IsFiniteSet(v[size].left) /\ Cardinality(v[size].left) \in Nat
      BY <2>1, SomeFrames
    <2>3. Cardinality(v[size].left) = 0
      BY <1>10, <2>2
    <2> QED
      BY <2>2, <2>3, FS_EmptySet
  <1>12. FramesOf(blocks) = frames /\ blocks \in Seq(BackingBlock) /\ NoneShared(blocks)
    BY <1>5, <1>10, <1>11 DEF Taken
  <1>13. TotalSize(blocks, size)
    <2>1. TotalSize(blocks, size - Cardinality({}))
      BY <1>1, <1>5, <1>10, <1>11 DEF Taken
    <2>2. size - Cardinality({}) = size
      BY FS_EmptySet
    <2> QED
      BY <2>1, <2>2
  <1> QED
    BY <1>1, <1>12, <1>13

-----------------------------------------------------------------------------
(***************************************************************************)
(* Which page holds which frame.                                           *)
(***************************************************************************)
\* A page of the process' own memory lies in one of its areas and is backed by
\* a frame that the process holds.
HeldPage(pt, hold, tls_hold, p) ==
    /\ pt[p] # Null
    /\ p \in HeapArea \cup LinearArea \cup TlsArea
    /\ p \in HeapArea \cup LinearArea => pt[p] \in hold
    /\ p \in TlsArea => pt[p] \in tls_hold

\* The heaps hold nothing but own memory, a page of the linear heap its own
\* frame, and no two pages hold the same.
Owned(st, pt, hold, tls_hold) ==
    /\ \A p \in HeapArea : pt[p] # Null => st[p] \in OwnStates
    /\ \A p \in LinearArea : pt[p] # Null => st[p] \in OwnStates /\ pt[p] = p - LinearBase
    /\ \A p \in Addresses : st[p] \in OwnStates => HeldPage(pt, hold, tls_hold, p)
    /\ \A p, q \in Addresses :
          st[p] \in OwnStates /\ st[q] \in OwnStates /\ pt[p] = pt[q] => p = q

\* What a page is backed by.
PageMemory == Frames \cup {Null} \cup 1000 .. 1000 * (MaxBuffers + 2)

AllBacked(pt) == \A p \in Addresses : pt[p] \in PageMemory

\* A change that gives the process no own page: a page stays what it is, or
\* becomes one that is not its own, and then is not backed within the heaps.
KeepsPage(st, pt, st2, pt2, p) ==
    \/ pt2[p] = pt[p] /\ (st2[p] \in OwnStates <=> st[p] \in OwnStates)
    \/ st2[p] \notin OwnStates /\ (p \in HeapArea \cup LinearArea => pt2[p] = Null)

Keeps(sp, sp2) ==
    \A p \in Addresses :
      KeepsPage(StateOf(sp.vma_map), sp.page_table, StateOf(sp2.vma_map), sp2.page_table, p)

\* The heaps lie within the address space.
LEMMA HeapsWithin == HeapArea \subseteq Addresses /\ LinearArea \subseteq Addresses
  <1>1. HeapArea \subseteq Addresses
    BY HeapTarget DEF HeapArea
  <1>2. LinearArea \subseteq Addresses
    BY LinearTarget DEF LinearArea
  <1> QED
    BY <1>1, <1>2

\* A change that gives no own page keeps the frames apart.
LEMMA KeepsOwned ==
    ASSUME NEW st, NEW pt, NEW st2, NEW pt2, NEW hold, NEW tls_hold, Owned(st, pt, hold, tls_hold),
           \A p \in Addresses : KeepsPage(st, pt, st2, pt2, p)
    PROVE  Owned(st2, pt2, hold, tls_hold)
  <1>1. ASSUME NEW p \in HeapArea \cup LinearArea, pt2[p] # Null
        PROVE  pt2[p] = pt[p] /\ (st2[p] \in OwnStates <=> st[p] \in OwnStates)
    BY <1>1, HeapsWithin DEF KeepsPage
  <1>2. ASSUME NEW p \in Addresses, st2[p] \in OwnStates
        PROVE  pt2[p] = pt[p] /\ st[p] \in OwnStates
    BY <1>2 DEF KeepsPage
  <1>3. \A p \in HeapArea : pt2[p] # Null => st2[p] \in OwnStates
    BY <1>1 DEF Owned
  <1>4. \A p \in LinearArea : pt2[p] # Null => st2[p] \in OwnStates /\ pt2[p] = p - LinearBase
    BY <1>1 DEF Owned
  <1>5. \A p \in Addresses : st2[p] \in OwnStates => HeldPage(pt2, hold, tls_hold, p)
    BY <1>2 DEF Owned, HeldPage
  <1>6. \A p, q \in Addresses :
          st2[p] \in OwnStates /\ st2[q] \in OwnStates /\ pt2[p] = pt2[q] => p = q
    BY <1>2 DEF Owned
  <1> QED
    BY <1>3, <1>4, <1>5, <1>6 DEF Owned

\* Two such changes in a row are one.
LEMMA KeepsTwice ==
    ASSUME NEW sp, NEW sp1, NEW sp2, Keeps(sp, sp1), Keeps(sp1, sp2)
    PROVE  Keeps(sp, sp2)
  BY DEF Keeps, KeepsPage

\* A change that keeps the view gives no own page.
LEMMA KeepsView ==
    ASSUME NEW sp, NEW r, SameView(sp, r)
    PROVE  Keeps(sp, r)
  BY DEF SameView, Keeps, KeepsPage

\* What UnmapRange does.
LEMMA UnmapKeeps ==
    ASSUME NEW sp, GoodSpace(sp), NEW target \in Addresses, NEW size \in Nat,
           AllBacked(sp.page_table), NEW r, r = UnmapRange(sp, target, size)
    PROVE  Keeps(sp, r) /\ AllBacked(r.page_table)
  <1>1. UnmapEffect(sp, target, size, r)
    BY UnmapPages
  <1>2. "Free" \notin OwnStates
    BY DEF OwnStates
  <1>3. \A p \in Addresses :
          \/ StateOf(r.vma_map)[p] = "Free" /\ r.page_table[p] = Null
          \/ /\ StateOf(r.vma_map)[p] = StateOf(sp.vma_map)[p]
             /\ r.page_table[p] = sp.page_table[p]
    BY <1>1 DEF UnmapEffect, SameView
  <1>4. Null \in PageMemory
    BY DEF PageMemory
  <1> QED
    BY <1>2, <1>3, <1>4 DEF Keeps, KeepsPage, AllBacked

\* What ChangeMemoryState does, when it makes no memory own and takes none away.
LEMMA ChangeKeeps ==
    ASSUME NEW sp, GoodSpace(sp), NEW target \in Addresses, NEW size \in Nat,
           NEW es, NEW ep, NEW ns, NEW np, es \in OwnStates <=> ns \in OwnStates,
           NEW r, r = ChangeMemoryState(sp, target, size, es, ep, ns, np)
    PROVE  Keeps(sp, r) /\ r.page_table = sp.page_table
  <1>1. ChangeEffect(sp, target, size, es, ns, r)
    BY ChangePages
  <1>2. \A p \in Addresses :
          StateOf(r.vma_map)[p] \in OwnStates <=> StateOf(sp.vma_map)[p] \in OwnStates
    BY <1>1 DEF ChangeEffect, SameView
  <1>3. r.page_table = sp.page_table
    BY <1>1 DEF ChangeEffect
  <1> QED
    BY <1>2, <1>3 DEF Keeps, KeepsPage

\* Where the pages of a list of blocks are mapped.
PageMapped(r, target, size, blocks, state, p) ==
    /\ StateOf(r.vma_map)[p] = state
    /\ p \in PagesOf(target, size)
    /\ r.page_table[p] \in FramesOf(blocks)

\* The list is mapped from `target` on, so far as it is mapped.
LEMMA MappedWhere ==
    ASSUME NEW sp, GoodSpace(sp), NEW target \in Nat, NEW blocks \in Seq(BackingBlock),
           NEW size \in Nat, TotalSize(blocks, size), NEW state, NEW perms,
           NEW r, r = MapBlocks(sp, target, blocks, state, perms)
    PROVE  /\ MapOK(r)
           /\ \A p \in Addresses : SamePage(sp, r, p) \/ PageMapped(r, target, size, blocks, state, p)
           /\ NoneShared(blocks) =>
                \A p, q \in Addresses : \/ SamePage(sp, r, p) \/ SamePage(sp, r, q)
                                        \/ r.page_table[p] = r.page_table[q] => p = q
  <1>1. PICK sums : Sums(blocks, sums) /\ sums[Len(blocks)] = size
    BY DEF TotalSize
  <1>2. PICK n \in Nat : n = Len(blocks)
    OBVIOUS
  <1>3. BlocksMapped(sp, target, blocks, sums, state, n, r)
    BY <1>1, <1>2, MapBlocksPages
  <1>4. MapOK(r)
    BY <1>3 DEF BlocksMapped
  <1>5. ASSUME NEW i \in 1 .. n
        PROVE  /\ blocks[i].memory \in Nat /\ blocks[i].size \in Nat /\ sums[i - 1] \in Nat
               /\ sums[i - 1] + blocks[i].size <= size /\ i \in DOMAIN blocks
    <2>1. i \in DOMAIN blocks /\ blocks[i] \in BackingBlock
      BY <1>2
    <2>2. blocks[i].memory \in Nat /\ blocks[i].size \in Nat
      BY <2>1 DEF BackingBlock
    <2>3. i - 1 \in 0 .. n /\ i \in 0 .. n
      BY <1>2
    <2>4. sums[i - 1] \in Nat /\ sums[i] = sums[i - 1] + blocks[i].size /\ sums[i] <= size
      BY <1>1, <1>2, <2>3 DEF Sums
    <2> QED
      BY <2>1, <2>2, <2>4
  <1>6. ASSUME NEW p \in Addresses, NEW i \in 1 .. n, InBlock(r, p, target + sums[i - 1], blocks[i])
        PROVE  /\ p \in PagesOf(target, size) /\ i \in DOMAIN blocks
               /\ r.page_table[p] \in PagesOf(blocks[i].memory, blocks[i].size)
    <2>1. PICK b \in Nat, s \in Nat, mem \in Nat :
               b = sums[i - 1] /\ s = blocks[i].size /\ mem = blocks[i].memory
      BY <1>5
    <2>2. b + s <= size /\ i \in DOMAIN blocks
      BY <1>5, <2>1
    <2>3. p \in PagesOf(target + b, s) /\ r.page_table[p] = mem + (p - (target + b))
      BY <1>6, <2>1 DEF InBlock
    <2>4. p \in target + b .. target + b + s - 1
      BY <2>3 DEF PagesOf
    <2>5. p \in target .. target + size - 1
      BY <2>2, <2>4
    <2>6. mem + (p - (target + b)) \in mem .. mem + s - 1
      BY <2>4
    <2> QED
      BY <2>1, <2>2, <2>3, <2>5, <2>6 DEF PagesOf
  <1>7. ASSUME NEW p \in Addresses, ~SamePage(sp, r, p)
        PROVE  /\ StateOf(r.vma_map)[p] = state
               /\ \E i \in 1 .. n : InBlock(r, p, target + sums[i - 1], blocks[i])
    BY <1>3, <1>7 DEF BlocksMapped
  <1>8. ASSUME NEW p \in Addresses, ~SamePage(sp, r, p)
        PROVE  PageMapped(r, target, size, blocks, state, p)
    <2>1. PICK i \in 1 .. n : InBlock(r, p, target + sums[i - 1], blocks[i])
      BY <1>7, <1>8
    <2>2. /\ p \in PagesOf(target, size) /\ i \in DOMAIN blocks
          /\ r.page_table[p] \in PagesOf(blocks[i].memory, blocks[i].size)
      BY <1>6, <2>1
    <2>3. r.page_table[p] \in FramesOf(blocks)
      BY <2>2 DEF FramesOf
    <2> QED
      BY <1>7, <1>8, <2>2, <2>3 DEF PageMapped
  <1>9. ASSUME NoneShared(blocks), NEW p \in Addresses, NEW q \in Addresses,
               ~SamePage(sp, r, p), ~SamePage(sp, r, q), r.page_table[p] = r.page_table[q]
        PROVE  p = q
    <2>1. PICK i \in 1 .. n : InBlock(r, p, target + sums[i - 1], blocks[i])
      BY <1>7, <1>9
    <2>2. PICK j \in 1 .. n : InBlock(r, q, target + sums[j - 1], blocks[j])
      BY <1>7, <1>9
    <2>3. /\ i \in DOMAIN blocks /\ r.page_table[p] \in PagesOf(blocks[i].memory, blocks[i].size)
          /\ j \in DOMAIN blocks /\ r.page_table[p] \in PagesOf(blocks[j].memory, blocks[j].size)
      BY <1>6, <1>9, <2>1, <2>2
    <2>4. i = j
      BY <1>9, <2>3 DEF NoneShared
    <2>5. PICK b \in Nat, mem \in Nat : b = target + sums[i - 1] /\ mem = blocks[i].memory
      BY <1>5
    <2>6. r.page_table[p] = mem + (p - b) /\ r.page_table[q] = mem + (q - b)
      BY <2>1, <2>2, <2>4, <2>5 DEF InBlock
    <2>7. p \in Nat /\ q \in Nat
      BY DEF Addresses
    <2>8. mem + (p - b) = mem + (q - b)
      BY <1>9, <2>6
    <2> QED
      BY <2>7, <2>8
  <1> QED
    BY <1>4, <1>8, <1>9

\* Memory that is mapped a second time, outside of the heaps.
LEMMA SecondKeeps ==
    ASSUME NEW sp, GoodSpace(sp), AllBacked(sp.page_table), NEW target \in Nat,
           NEW blocks \in Seq(BackingBlock), FramesOf(blocks) \subseteq Frames,
           NEW size \in Nat, TotalSize(blocks, size), NEW state, state \notin OwnStates, NEW perms,
           PagesOf(target, size) \cap (HeapArea \cup LinearArea) = {},
           NEW r, r = MapBlocks(sp, target, blocks, state, perms)
    PROVE  Keeps(sp, r) /\ AllBacked(r.page_table)
  <1>1. \A p \in Addresses : SamePage(sp, r, p) \/ PageMapped(r, target, size, blocks, state, p)
    BY MappedWhere
  <1>2. Frames \subseteq PageMemory
    BY DEF PageMemory
  <1> QED
    BY <1>1, <1>2 DEF Keeps, KeepsPage, SamePage, PageMapped, AllBacked

\* New pages, backed by frames that no page held.
LEMMA NewPages ==
    ASSUME NEW st, NEW pt, NEW hold, NEW tls_hold, Owned(st, pt, hold, tls_hold),
           NEW st2, NEW pt2, NEW hold2, NEW tls2, hold \subseteq hold2, tls_hold \subseteq tls2,
           NEW frames, frames \cap (hold \cup tls_hold) = {}, Null \notin frames,
           NEW new, \A p \in Addresses : p \notin new => st2[p] = st[p] /\ pt2[p] = pt[p],
           \A p \in new : st2[p] \in OwnStates /\ pt2[p] \in frames,
           \A p, q \in new : pt2[p] = pt2[q] => p = q,
           \A p \in new : \/ p \in HeapArea /\ frames \subseteq hold2
                          \/ p \in LinearArea /\ frames \subseteq hold2 /\ pt2[p] = p - LinearBase
                          \/ p \in TlsArea /\ frames \subseteq tls2
    PROVE  Owned(st2, pt2, hold2, tls2)
  <1>1. HeapArea \cap LinearArea = {} /\ TlsArea \cap (HeapArea \cup LinearArea) = {}
    BY LayoutAssumption
  <1>2. ASSUME NEW p \in HeapArea, pt2[p] # Null PROVE st2[p] \in OwnStates
    BY <1>2, HeapsWithin DEF Owned
  <1>3. ASSUME NEW p \in LinearArea, pt2[p] # Null
        PROVE  st2[p] \in OwnStates /\ pt2[p] = p - LinearBase
    <2>1. CASE p \in new
      BY <1>1, <2>1
    <2>2. CASE p \notin new
      BY <1>3, <2>2, HeapsWithin DEF Owned
    <2> QED
      BY <2>1, <2>2
  <1>4. ASSUME NEW p \in Addresses, p \notin new, st2[p] \in OwnStates
        PROVE  /\ st[p] \in OwnStates /\ pt2[p] = pt[p] /\ HeldPage(pt, hold, tls_hold, p)
               /\ pt2[p] \in hold \cup tls_hold
    <2>1. st[p] \in OwnStates /\ pt2[p] = pt[p]
      BY <1>4
    <2>2. HeldPage(pt, hold, tls_hold, p)
      BY <2>1 DEF Owned
    <2> QED
      BY <2>1, <2>2 DEF HeldPage
  <1>5. ASSUME NEW p \in Addresses, st2[p] \in OwnStates PROVE HeldPage(pt2, hold2, tls2, p)
    <2>1. CASE p \in new
      BY <1>1, <2>1 DEF HeldPage
    <2>2. CASE p \notin new
      BY <1>4, <1>5, <2>2 DEF HeldPage
    <2> QED
      BY <2>1, <2>2
  <1>6. ASSUME NEW p \in Addresses, NEW q \in Addresses, st2[p] \in OwnStates, st2[q] \in OwnStates,
               pt2[p] = pt2[q]
        PROVE  p = q
    <2>1. CASE p \in new /\ q \in new
      BY <1>6, <2>1
    <2>2. CASE p \notin new /\ q \notin new
      BY <1>4, <1>6, <2>2 DEF Owned
    <2>3. CASE p \in new /\ q \notin new
      BY <1>4, <1>6, <2>3
    <2>4. CASE p \notin new /\ q \in new
      BY <1>4, <1>6, <2>4
    <2> QED
      BY <2>1, <2>2, <2>3, <2>4
  <1> QED
    BY <1>2, <1>3, <1>5, <1>6 DEF Owned

\* Pages that are freed with the frames they hold.
LEMMA FreedPages ==
    ASSUME NEW st, NEW pt, NEW hold, NEW tls_hold, Owned(st, pt, hold, tls_hold),
           NEW st2, NEW pt2, NEW freed, freed \subseteq Addresses,
           \A p \in freed : st[p] \in OwnStates,
           \A p \in freed : st2[p] \notin OwnStates /\ pt2[p] = Null,
           \A p \in Addresses : p \notin freed => st2[p] = st[p] /\ pt2[p] = pt[p]
    PROVE  Owned(st2, pt2, hold \ FramesBehind(pt, freed), tls_hold)
  <1>1. PICK frames : frames = FramesBehind(pt, freed)
    OBVIOUS
  <1>2. ASSUME NEW p \in Addresses, st2[p] \in OwnStates
        PROVE  p \notin freed /\ st[p] \in OwnStates /\ pt2[p] = pt[p] /\ pt[p] \notin frames
    <2>1. p \notin freed /\ st[p] \in OwnStates /\ pt2[p] = pt[p]
      BY <1>2
    <2>2. \A q \in freed : pt[q] # pt[p]
      BY <2>1 DEF Owned
    <2> QED
      BY <1>1, <2>1, <2>2 DEF FramesBehind
  <1>3. \A p \in HeapArea : pt2[p] # Null => st2[p] \in OwnStates
    BY HeapsWithin DEF Owned
  <1>4. \A p \in LinearArea : pt2[p] # Null => st2[p] \in OwnStates /\ pt2[p] = p - LinearBase
    BY HeapsWithin DEF Owned
  <1>5. \A p \in Addresses : st2[p] \in OwnStates => HeldPage(pt2, hold \ frames, tls_hold, p)
    BY <1>2 DEF Owned, HeldPage
  <1>6. \A p, q \in Addresses :
          st2[p] \in OwnStates /\ st2[q] \in OwnStates /\ pt2[p] = pt2[q] => p = q
    BY <1>2 DEF Owned
  <1> QED
    BY <1>1, <1>3, <1>4, <1>5, <1>6 DEF Owned

\* A range of one of the heaps, and one that is backed.
WithinHeap(target, size) ==
    PagesOf(target, size) \subseteq HeapArea \/ PagesOf(target, size) \subseteq LinearArea

NoneFree(pt, pages) == \A p \in pages : pt[p] # Null

\* The pages are own ones, and their frames held.
HeldRange(st, hold, pages, size, frames) ==
    /\ \A p \in pages : p \in Addresses /\ st[p] \in OwnStates
    /\ frames \subseteq hold /\ Cardinality(frames) = size

\* A range of backed pages of a heap: its frames are held, and as many as the
\* pages.
LEMMA RangeFrames ==
    ASSUME NEW st, NEW pt, NEW hold, NEW tls_hold, Owned(st, pt, hold, tls_hold),
           NEW target \in Nat, NEW size \in Nat,
           WithinHeap(target, size), NoneFree(pt, PagesOf(target, size)),
           NEW frames, frames = FramesBehind(pt, PagesOf(target, size))
    PROVE  HeldRange(st, hold, PagesOf(target, size), size, frames)
  <1>1. PICK R : R = PagesOf(target, size)
    OBVIOUS
  <1>2. IsFiniteSet(R) /\ Cardinality(R) = size
    BY <1>1, PagesCount
  <1>3. \A p \in R : p \in Addresses /\ p \in HeapArea \cup LinearArea
    BY <1>1, HeapsWithin DEF WithinHeap
  <1>4. \A p \in R : st[p] \in OwnStates
    BY <1>1 DEF Owned, WithinHeap, NoneFree
  <1>5. \A p \in R : pt[p] \in hold
    BY <1>3, <1>4 DEF Owned, HeldPage
  <1>6. \A p, q \in R : pt[p] = pt[q] => p = q
    BY <1>3, <1>4 DEF Owned
  <1>7. PICK f : f = [p \in R |-> pt[p]]
    OBVIOUS
  <1>8. f \in Surjection(R, frames)
    <2>1. frames = {pt[p] : p \in R}
      BY <1>1 DEF FramesBehind
    <2> QED
      BY <1>7, <2>1 DEF Surjection
  <1>9. f \in Injection(R, frames)
    <2>1. f \in [R -> frames]
      BY <1>8 DEF Surjection
    <2>2. \A p, q \in R : f[p] = f[q] => p = q
      BY <1>6, <1>7
    <2>3. DOMAIN f = R
      BY <1>7
    <2> QED
      BY <2>1, <2>2, <2>3 DEF Injection, IsInjective
  <1>10. Cardinality(frames) = Cardinality(R)
    BY <1>2, <1>8, <1>9, FS_Surjection
  <1>11. frames \subseteq hold
    BY <1>1, <1>5 DEF FramesBehind
  <1> QED
    BY <1>1, <1>2, <1>3, <1>4, <1>10, <1>11 DEF HeldRange

\* Every frame has one holder.
Divided(free, hold, tls_hold, block_hold) ==
    /\ free \cup hold \cup tls_hold \cup block_hold = Frames
    /\ free \cap hold = {} /\ free \cap tls_hold = {} /\ free \cap block_hold = {}
    /\ hold \cap tls_hold = {} /\ hold \cap block_hold = {} /\ tls_hold \cap block_hold = {}

\* The frames behind a memory block.  Those of a block of the region follow
\* each other.
BlockFrames(b) ==
    /\ FramesOf(b.backing_blocks) \subseteq Frames
    /\ TotalSize(b.backing_blocks, b.size)
    /\ b # NoBlock => b.size \in BlockSizes
    /\ b # NoBlock /\ b.base_address = 0 => b.backing_blocks[1].memory + b.size <= RegionSize

OwnedInv ==
    /\ Owned(StateOf(space.vma_map), space.page_table, holding_memory, holding_tls_memory)
    /\ AllBacked(space.page_table)

DividedInv == Divided(free_blocks, holding_memory, holding_tls_memory, block.holding)

CountsInv ==
    /\ used = RegionSize - Cardinality(free_blocks)
    /\ commit \in 0 .. CommitLimit
    /\ CommitLimit >= RegionSize => commit = Cardinality(holding_memory)
    /\ Len(tls_slots) = Cardinality(holding_tls_memory)

FrameInv == OwnedInv /\ DividedInv /\ CountsInv /\ BlockFrames(block)

\* Frames that a call takes for the heaps.
LEMMA TakeCounts ==
    ASSUME DividedInv, CountsInv, NEW frames, frames \subseteq free_blocks,
           TakeFrames(frames), holding_memory' = holding_memory \cup frames,
           commit' = Reserve(commit, Cardinality(frames)),
           UNCHANGED <<holding_tls_memory, tls_slots, block>>
    PROVE  DividedInv' /\ CountsInv'
  <1>1. PICK free, hold : free = free_blocks /\ hold = holding_memory
    OBVIOUS
  <1>2. /\ free \subseteq Frames /\ hold \subseteq Frames /\ frames \subseteq Frames
        /\ frames \subseteq free /\ hold \cap frames = {}
    BY <1>1 DEF DividedInv, Divided
  <1>3. /\ free_blocks' = free \ frames /\ holding_memory' = hold \cup frames
        /\ used' = used + Cardinality(frames)
    BY <1>1 DEF TakeFrames
  <1>4. PICK k \in Nat, n \in Nat : k = Cardinality(free) /\ n = Cardinality(frames)
    BY <1>2, SomeFrames
  <1>5. Cardinality(free_blocks') = k - n
    BY <1>2, <1>3, <1>4, TakenCount
  <1>6. PICK h \in Nat : h = Cardinality(hold)
    BY <1>2, SomeFrames
  <1>7. Cardinality(holding_memory') = h + n /\ h + n <= RegionSize
    BY <1>2, <1>3, <1>4, <1>6, AddedCount
  <1>8. DividedInv'
    BY <1>1, <1>2, <1>3 DEF DividedInv, Divided
  <1>9. used' = RegionSize - Cardinality(free_blocks')
    <2>1. used = RegionSize - k
      BY <1>1, <1>4 DEF CountsInv
    <2> QED
      BY <1>3, <1>4, <1>5, <2>1, LayoutFacts
  <1>10. /\ commit' \in 0 .. CommitLimit
         /\ CommitLimit >= RegionSize => commit' = Cardinality(holding_memory')
    <2>1. CommitLimit \in Nat /\ RegionSize \in Nat
      BY LayoutAssumption, LayoutFacts
    <2>2. commit \in 0 .. CommitLimit /\ (CommitLimit >= RegionSize => commit = h)
      BY <1>1, <1>6 DEF CountsInv
    <2>3. commit' = IF commit + n > CommitLimit THEN commit ELSE commit + n
      BY <1>4 DEF Reserve
    <2> QED
      BY <1>7, <2>1, <2>2, <2>3
  <1> QED
    BY <1>8, <1>9, <1>10 DEF CountsInv

\* Frames of the heaps that a call gives back.
LEMMA ReturnCounts ==
    ASSUME DividedInv, CountsInv, NEW frames, frames \subseteq holding_memory,
           NEW size, size = Cardinality(frames),
           ReturnFrames(frames, size), holding_memory' = holding_memory \ frames,
           commit' = Release(commit, size),
           UNCHANGED <<holding_tls_memory, tls_slots, block>>
    PROVE  DividedInv' /\ CountsInv'
  <1>1. PICK free, hold : free = free_blocks /\ hold = holding_memory
    OBVIOUS
  <1>2. /\ free \subseteq Frames /\ hold \subseteq Frames /\ frames \subseteq Frames
        /\ frames \subseteq hold /\ free \cap frames = {}
    BY <1>1 DEF DividedInv, Divided
  <1>3. /\ free_blocks' = free \cup frames /\ holding_memory' = hold \ frames
        /\ used' = used - Cardinality(frames)
    BY <1>1 DEF ReturnFrames
  <1>4. PICK k \in Nat, n \in Nat : k = Cardinality(free) /\ n = Cardinality(frames)
    BY <1>2, SomeFrames
  <1>5. Cardinality(free_blocks') = k + n
    BY <1>2, <1>3, <1>4, AddedCount
  <1>6. PICK h \in Nat : h = Cardinality(hold)
    BY <1>2, SomeFrames
  <1>7. Cardinality(holding_memory') = h - n /\ n <= h
    BY <1>2, <1>3, <1>4, <1>6, TakenCount
  <1>8. DividedInv'
    BY <1>1, <1>2, <1>3 DEF DividedInv, Divided
  <1>9. used' = RegionSize - Cardinality(free_blocks')
    <2>1. used = RegionSize - k
      BY <1>1, <1>4 DEF CountsInv
    <2> QED
      BY <1>3, <1>4, <1>5, <2>1, LayoutFacts
  <1>10. /\ commit' \in 0 .. CommitLimit
         /\ CommitLimit >= RegionSize => commit' = Cardinality(holding_memory')
    <2>1. CommitLimit \in Nat /\ RegionSize \in Nat
      BY LayoutAssumption, LayoutFacts
    <2>2. commit \in 0 .. CommitLimit /\ (CommitLimit >= RegionSize => commit = h)
      BY <1>1, <1>6 DEF CountsInv
    <2>3. commit' = IF n > commit THEN commit ELSE commit - n
      BY <1>4 DEF Release
    <2> QED
      BY <1>7, <2>1, <2>2, <2>3
  <1> QED
    BY <1>8, <1>9, <1>10 DEF CountsInv

-----------------------------------------------------------------------------
(***************************************************************************)
(* Every call keeps the frames exact.                                      *)
(***************************************************************************)
\* The result of an operation, as the address space sees it.
LEMMA SpaceView ==
    ASSUME NEW r
    PROVE  Space(r).vma_map = r.vma_map /\ Space(r).page_table = r.page_table
  BY DEF Space

\* Null is no frame.
LEMMA NullNoFrame == Null \notin Frames /\ \A f \in Frames : f \in PageMemory
  <1>1. Null \notin Int
    BY SpaceAssumption
  <1>2. \A f \in Frames : f \in Int
    BY FrameFacts
  <1> QED
    BY <1>1, <1>2 DEF PageMemory

\* Process::HeapAllocate maps each free frame it takes at one page.
LEMMA HeapAllocateFrames ==
    ASSUME MemInv, FrameInv, NEW target \in HeapBase .. HeapEnd - 1, NEW size \in Sizes, NEW perms,
           HeapAllocate(target, size, perms)
    PROVE  FrameInv'
  <1>1. PICK frames : frames = HeapFrames(free_blocks, size)
    OBVIOUS
  <1>2. PICK blocks : blocks = Blocks(frames)
    OBVIOUS
  <1>3. PICK r : r = MapBlocks(space, target, blocks, "Private", perms)
    OBVIOUS
  <1>4. /\ InHeap(target, size) /\ frames # {} /\ space' = Space(r) /\ TakeFrames(frames)
        /\ holding_memory' = holding_memory \cup frames /\ commit' = Reserve(commit, size)
        /\ UNCHANGED <<holding_tls_memory, tls_slots, block>>
    BY <1>1, <1>2, <1>3 DEF HeapAllocate, tls
  <1>5. /\ size \in Nat /\ target \in Nat
    BY SizeFacts, HeapTarget
  <1>6. free_blocks \subseteq Frames
    BY DEF FrameInv, DividedInv, Divided
  <1>7. frames \subseteq free_blocks /\ Cardinality(frames) = size
    BY <1>1, <1>4, <1>5, <1>6, HeapFramesCount
  <1>8. frames \subseteq Frames /\ frames \cap (holding_memory \cup holding_tls_memory) = {}
    BY <1>7 DEF FrameInv, DividedInv, Divided
  <1>9. /\ blocks \in Seq(BackingBlock) /\ FramesOf(blocks) = frames
        /\ TotalSize(blocks, size) /\ NoneShared(blocks)
    BY <1>2, <1>7, <1>8, BlocksExact
  <1>10. /\ \A p \in Addresses :
               SamePage(space, r, p) \/ PageMapped(r, target, size, blocks, "Private", p)
         /\ \A p, q \in Addresses : \/ SamePage(space, r, p) \/ SamePage(space, r, q)
                                    \/ r.page_table[p] = r.page_table[q] => p = q
    BY <1>3, <1>5, <1>9, MappedWhere DEF MemInv
  <1>11. PICK st, pt, st2, pt2 : /\ st = StateOf(space.vma_map) /\ pt = space.page_table
                                 /\ st2 = StateOf(r.vma_map) /\ pt2 = r.page_table
    OBVIOUS
  <1>12. PICK new : new = {p \in Addresses : ~SamePage(space, r, p)}
    OBVIOUS
  <1>13. \A p \in Addresses : p \notin new => st2[p] = st[p] /\ pt2[p] = pt[p]
    BY <1>11, <1>12 DEF SamePage
  <1>14. ASSUME NEW p \in new
         PROVE  st2[p] \in OwnStates /\ pt2[p] \in frames /\ p \in HeapArea
    <2>1. PageMapped(r, target, size, blocks, "Private", p)
      BY <1>10, <1>12
    <2>2. "Private" \in OwnStates
      BY DEF OwnStates
    <2>3. p \in HeapArea
      BY <1>4, <1>5, <2>1, LayoutFacts DEF PageMapped, PagesOf, InHeap, HeapArea
    <2> QED
      BY <1>9, <1>11, <2>1, <2>2, <2>3 DEF PageMapped
  <1>15. \A p, q \in new : pt2[p] = pt2[q] => p = q
    BY <1>10, <1>11, <1>12
  <1>16. PICK hold, tls_hold, hold2 : /\ hold = holding_memory /\ tls_hold = holding_tls_memory
                                      /\ hold2 = hold \cup frames
    OBVIOUS
  <1>17. Owned(st, pt, hold, tls_hold)
    BY <1>11, <1>16 DEF FrameInv, OwnedInv
  <1>18. /\ hold \subseteq hold2 /\ tls_hold \subseteq tls_hold /\ frames \subseteq hold2
         /\ frames \cap (hold \cup tls_hold) = {} /\ Null \notin frames
    BY <1>8, <1>16, NullNoFrame
  <1>19. Owned(st2, pt2, hold2, tls_hold)
    BY <1>13, <1>14, <1>15, <1>17, <1>18, NewPages
  <1>20. AllBacked(pt2)
    <2>1. AllBacked(pt)
      BY <1>11 DEF FrameInv, OwnedInv
    <2>2. frames \subseteq PageMemory
      BY <1>8, NullNoFrame
    <2> QED
      BY <1>13, <1>14, <2>1, <2>2 DEF AllBacked
  <1>21. OwnedInv'
    BY <1>4, <1>11, <1>16, <1>19, <1>20, SpaceView DEF OwnedInv
  <1>22. DividedInv' /\ CountsInv'
    BY <1>4, <1>7, TakeCounts DEF FrameInv
  <1>23. BlockFrames(block')
    BY <1>4 DEF FrameInv
  <1> QED
    BY <1>21, <1>22, <1>23 DEF FrameInv

\* What UnmapRange does when it succeeds.
LEMMA UnmapDone ==
    ASSUME NEW sp, GoodSpace(sp), NEW target \in Addresses, NEW size \in Nat,
           NEW r, r = UnmapRange(sp, target, size), r.ok,
           NEW st, NEW pt, NEW st2, NEW pt2,
           st = StateOf(sp.vma_map), pt = sp.page_table, st2 = StateOf(r.vma_map), pt2 = r.page_table
    PROVE  /\ RangeBacked(pt, target, target + size)
           /\ \A p \in Addresses :
                /\ p \in PagesOf(target, size) => st2[p] \notin OwnStates /\ pt2[p] = Null
                /\ p \notin PagesOf(target, size) => st2[p] = st[p] /\ pt2[p] = pt[p]
  <1>1. UnmapEffect(sp, target, size, r)
    BY UnmapPages
  <1>2. "Free" \notin OwnStates
    BY DEF OwnStates
  <1>3. r.ok # FALSE
    OBVIOUS
  <1> QED
    BY <1>1, <1>2, <1>3 DEF UnmapEffect

\* A range of a heap is freed with its frames.
LEMMA FreeRange ==
    ASSUME MemInv, FrameInv, NEW target \in Addresses, NEW size \in Nat,
           WithinHeap(target, size), NEW r, r = UnmapRange(space, target, size), r.ok,
           NEW frames, frames = {space.page_table[p] : p \in PagesOf(target, size)},
           space' = Space(r), ReturnFrames(frames, size), holding_memory' = holding_memory \ frames,
           commit' = Release(commit, size), UNCHANGED <<holding_tls_memory, tls_slots, block>>
    PROVE  FrameInv' /\ AreAllocated(frames) /\ Cardinality(frames) = size
  <1>1. PICK st, pt, st2, pt2 : /\ st = StateOf(space.vma_map) /\ pt = space.page_table
                                /\ st2 = StateOf(r.vma_map) /\ pt2 = r.page_table
    OBVIOUS
  <1>2. PICK hold, tls_hold : hold = holding_memory /\ tls_hold = holding_tls_memory
    OBVIOUS
  <1>3. Owned(st, pt, hold, tls_hold) /\ AllBacked(pt)
    BY <1>1, <1>2 DEF FrameInv, OwnedInv
  <1>4. /\ RangeBacked(pt, target, target + size)
        /\ \A p \in Addresses :
             /\ p \in PagesOf(target, size) => st2[p] \notin OwnStates /\ pt2[p] = Null
             /\ p \notin PagesOf(target, size) => st2[p] = st[p] /\ pt2[p] = pt[p]
    BY <1>1, UnmapDone DEF MemInv
  <1>5. PICK freed : freed = PagesOf(target, size)
    OBVIOUS
  <1>6. freed \subseteq Addresses
    BY <1>5, HeapsWithin DEF WithinHeap
  <1>7. target \in Nat
    BY DEF Addresses
  <1>8. \A p \in freed : pt[p] # Null
    <2> SUFFICES ASSUME NEW p \in freed PROVE pt[p] # Null
      OBVIOUS
    <2>1. p \in Addresses /\ target <= p /\ p < target + size
      BY <1>5, <1>6, <1>7 DEF PagesOf
    <2> QED
      BY <1>4, <2>1 DEF RangeBacked
  <1>9. frames = {pt[p] : p \in freed}
    BY <1>1, <1>5
  <1>10. /\ \A p \in freed : st[p] \in OwnStates
         /\ frames \subseteq hold /\ Cardinality(frames) = size
    <2>1. NoneFree(pt, PagesOf(target, size))
      BY <1>5, <1>8 DEF NoneFree
    <2>2. frames = FramesBehind(pt, PagesOf(target, size))
      BY <1>1 DEF FramesBehind
    <2>3. HeldRange(st, hold, PagesOf(target, size), size, frames)
      BY <1>3, <1>7, <2>1, <2>2, RangeFrames
    <2> QED
      BY <1>5, <2>3 DEF HeldRange
  <1>11. Owned(st2, pt2, hold \ frames, tls_hold)
    <2>1. \A p \in freed : st2[p] \notin OwnStates /\ pt2[p] = Null
      BY <1>4, <1>5, <1>6
    <2>2. \A p \in Addresses : p \notin freed => st2[p] = st[p] /\ pt2[p] = pt[p]
      BY <1>4, <1>5
    <2>3. \A p \in freed : st[p] \in OwnStates
      BY <1>10
    <2>4. Owned(st2, pt2, hold \ FramesBehind(pt, freed), tls_hold)
      BY <1>3, <1>6, <2>1, <2>2, <2>3, FreedPages
    <2> QED
      BY <1>9, <2>4 DEF FramesBehind
  <1>12. AllBacked(pt2)
    <2>1. Null \in PageMemory
      BY DEF PageMemory
    <2> QED
      BY <1>3, <1>4, <2>1 DEF AllBacked
  <1>13. OwnedInv'
    BY <1>1, <1>2, <1>11, <1>12, SpaceView DEF OwnedInv
  <1>14. DividedInv' /\ CountsInv'
    BY <1>2, <1>10, ReturnCounts DEF FrameInv
  <1>15. BlockFrames(block')
    BY DEF FrameInv
  <1>16. AreAllocated(frames)
    BY <1>2, <1>10 DEF AreAllocated, FrameInv, DividedInv, Divided
  <1> QED
    BY <1>10, <1>13, <1>14, <1>15, <1>16 DEF FrameInv

\* Process::HeapFree gives back the frames behind the range, all of which are held, and asserts nothing that fails.
LEMMA HeapFreeFrames ==
    ASSUME MemInv, FrameInv, NEW target \in HeapBase .. HeapEnd - 1, NEW size \in Sizes,
           HeapFree(target, size)
    PROVE  FrameInv' /\ ~failed'
  <1>1. PICK blocks : blocks = GetBackingBlocksForRange(space.vma_map, target, size)
    OBVIOUS
  <1>2. PICK frames : frames = FramesOf(blocks)
    OBVIOUS
  <1>3. PICK r : r = UnmapRange(space, target, size)
    OBVIOUS
  <1>4. /\ InHeap(target, size) /\ HasBackingBlocks(space.vma_map, target, size)
        /\ failed' = ~(AreAllocated(frames) /\ Cardinality(frames) = size /\ r.ok)
        /\ space' = Space(r) /\ ReturnFrames(frames, size)
        /\ holding_memory' = holding_memory \ frames /\ commit' = Release(commit, size)
        /\ UNCHANGED <<holding_tls_memory, tls_slots, block>>
    BY <1>1, <1>2, <1>3 DEF HeapFree, tls
  <1>5. target \in Addresses /\ size \in Nat /\ target + size <= MaxAddress
    BY HeapTarget, SizeFacts, LayoutFacts
  <1>6. RangeBacked(space.page_table, target, target + size)
    BY <1>4, <1>5, CanCarveBacked DEF HasBackingBlocks, MemInv, GoodSpace
  <1>7. frames = {space.page_table[p] : p \in PagesOf(target, size)}
    <2>1. FramesOf(blocks) = FramesBehind(space.page_table, PagesOf(target, size))
      BY <1>1, <1>5, <1>6, BackingBlocksExact DEF MemInv
    <2> QED
      BY <1>2, <2>1 DEF FramesBehind
  <1>8. r.ok
    <2>1. r = ForEachVMA(space, target, size, FreeAttributes)
      BY <1>3, <1>4 DEF UnmapRange, HasBackingBlocks
    <2>2. VisitInv(r, space.page_table, target, target + size, FreeAttributes)
      BY <1>4, <1>5, <2>1, ForEachFacts DEF MemInv, HasBackingBlocks
    <2> QED
      BY <2>2, VisitedGood
  <1>9. WithinHeap(target, size)
    BY <1>4, <1>5, LayoutFacts DEF PagesOf, InHeap, HeapArea, Addresses, WithinHeap
  <1>10. FrameInv' /\ AreAllocated(frames) /\ Cardinality(frames) = size
    BY <1>3, <1>4, <1>5, <1>7, <1>8, <1>9, FreeRange
  <1> QED
    BY <1>4, <1>8, <1>10

\* So does Process::LinearFree.
LEMMA LinearFreeFrames ==
    ASSUME MemInv, FrameInv, NEW target \in PagesOf(LinearBase, RegionSize), NEW size \in Sizes,
           LinearFree(target, size)
    PROVE  FrameInv' /\ ~failed'
  <1>1. PICK frames : frames = PagesOf(target - LinearBase, size)
    OBVIOUS
  <1>2. PICK r : r = UnmapRange(space, target, size)
    OBVIOUS
  <1>3. /\ InLinearHeap(target, size) /\ r.ok /\ failed' = ~AreAllocated(frames)
        /\ space' = Space(r) /\ ReturnFrames(frames, size)
        /\ holding_memory' = holding_memory \ frames /\ commit' = Release(commit, size)
        /\ UNCHANGED <<holding_tls_memory, tls_slots, block>>
    BY <1>1, <1>2 DEF LinearFree, tls
  <1>4. target \in Addresses /\ target \in Nat /\ size \in Nat /\ LinearBase \in Nat
    BY SizeFacts, LinearTarget, LayoutFacts
  <1>5. PagesOf(target, size) \subseteq LinearArea
    BY <1>3, <1>4, LayoutFacts DEF PagesOf, InLinearHeap, LinearArea
  <1>6. RangeBacked(space.page_table, target, target + size)
    BY <1>2, <1>3, <1>4, UnmapDone DEF MemInv
  <1>7. \A p \in PagesOf(target, size) : space.page_table[p] = p - LinearBase
    <2> SUFFICES ASSUME NEW p \in PagesOf(target, size)
                 PROVE  space.page_table[p] = p - LinearBase
      OBVIOUS
    <2>1. p \in LinearArea /\ p \in Addresses
      BY <1>5, HeapsWithin DEF WithinHeap
    <2>2. target <= p /\ p < target + size
      BY <1>4 DEF PagesOf
    <2>3. space.page_table[p] # Null
      BY <1>6, <2>1, <2>2 DEF RangeBacked
    <2> QED
      BY <2>1, <2>3 DEF FrameInv, OwnedInv, Owned
  <1>8. frames = {space.page_table[p] : p \in PagesOf(target, size)}
    <2>1. ASSUME NEW f \in frames PROVE \E p \in PagesOf(target, size) : f = p - LinearBase
      <3>1. PICK p : p = f + LinearBase
        OBVIOUS
      <3>2. p \in PagesOf(target, size) /\ f = p - LinearBase
        BY <1>1, <1>4, <3>1 DEF PagesOf
      <3> QED
        BY <3>2
    <2>2. ASSUME NEW p \in PagesOf(target, size) PROVE p - LinearBase \in frames
      BY <1>1, <1>4 DEF PagesOf
    <2> QED
      BY <1>7, <2>1, <2>2
  <1>9. WithinHeap(target, size)
    BY <1>5 DEF WithinHeap
  <1>10. FrameInv' /\ AreAllocated(frames)
    BY <1>2, <1>3, <1>4, <1>8, <1>9, FreeRange
  <1> QED
    BY <1>3, <1>10

\* What MapBackingMemory does to a page.
LEMMA MapPages ==
    ASSUME NEW sp, GoodSpace(sp), NEW target \in Nat, NEW memory \in Nat, NEW size \in Nat,
           size >= 1, NEW state,
           NEW r, r = MapBackingMemory(sp, target, memory, size, state)
    PROVE  \A p \in Addresses :
             \/ SamePage(sp, r, p)
             \/ /\ p \in PagesOf(target, size)
                /\ StateOf(r.vma_map)[p] = state /\ r.page_table[p] = memory + (p - target)
  <1>1. MapEffect(sp, target, memory, size, state, r)
    BY MapBackingFacts
  <1>2. CASE r.ok = FALSE /\ SameView(sp, r)
    BY <1>2 DEF SameView, SamePage
  <1>3. CASE /\ r.page_table = PagesMapped(sp.page_table, target, memory, size)
             /\ StateOf(r.vma_map) = Written(StateOf(sp.vma_map), target, size, state)
    <2> SUFFICES ASSUME NEW p \in Addresses
                 PROVE  \/ SamePage(sp, r, p)
                        \/ /\ p \in PagesOf(target, size)
                           /\ StateOf(r.vma_map)[p] = state
                           /\ r.page_table[p] = memory + (p - target)
      OBVIOUS
    <2>1. r.page_table[p] = IF p \in PagesOf(target, size) THEN memory + (p - target)
                            ELSE sp.page_table[p]
      BY <1>3 DEF PagesMapped
    <2>2. StateOf(r.vma_map)[p] = IF p \in PagesOf(target, size) THEN state
                                  ELSE StateOf(sp.vma_map)[p]
      BY <1>3 DEF Written
    <2> QED
      BY <2>1, <2>2 DEF SamePage
  <1> QED
    BY <1>1, <1>2, <1>3 DEF MapEffect

\* Frames that follow each other.
LEMMA PagesOfFrames ==
    ASSUME NEW offset \in Nat, NEW size \in Nat, size >= 1, PagesOf(offset, size) \subseteq Frames
    PROVE  offset + size <= RegionSize /\ Cardinality(PagesOf(offset, size)) = size
  <1>1. offset + size - 1 \in PagesOf(offset, size)
    BY DEF PagesOf
  <1>2. offset + size - 1 < RegionSize /\ RegionSize \in Nat
    BY <1>1, FrameFacts
  <1>3. offset + size <= RegionSize
    BY <1>2
  <1> QED
    BY <1>3, PagesCount

\* Process::LinearAllocate maps free frames at their own pages.
LEMMA LinearMapFrames ==
    ASSUME MemInv, FrameInv, NEW offset \in Nat, NEW size \in Sizes, NEW perms,
           PagesOf(offset, size) \subseteq free_blocks, LinearMap(offset, size, perms)
    PROVE  FrameInv'
  <1>1. PICK frames : frames = PagesOf(offset, size)
    OBVIOUS
  <1>2. PICK target : target = LinearBase + offset
    OBVIOUS
  <1>3. PICK mapped : mapped = MapBackingMemory(space, target, offset, size, "Continuous")
    OBVIOUS
  <1>4. PICK r : r = IF mapped.ok THEN Space(Reprotect(mapped, mapped.at, perms)) ELSE space
    OBVIOUS
  <1>5. /\ space' = r /\ TakeFrames(frames)
        /\ holding_memory' = holding_memory \cup frames /\ commit' = Reserve(commit, size)
        /\ UNCHANGED <<holding_tls_memory, tls_slots, block>>
    BY <1>1, <1>2, <1>3, <1>4 DEF LinearMap, tls
  <1>6. size \in Nat /\ size >= 1 /\ target \in Nat /\ LinearBase \in Nat
    BY <1>2, SizeFacts, LayoutFacts
  <1>7. frames \subseteq free_blocks /\ frames \subseteq Frames
        /\ frames \cap (holding_memory \cup holding_tls_memory) = {}
    BY <1>1 DEF FrameInv, DividedInv, Divided
  <1>8. offset + size <= RegionSize /\ Cardinality(frames) = size
    BY <1>1, <1>6, <1>7, PagesOfFrames
  <1>9. /\ GoodSpace(mapped) /\ IsResult(mapped)
        /\ mapped.ok => mapped.at \in DOMAIN mapped.vma_map /\ mapped.vma_map[mapped.at].backing # Null
    BY <1>3, <1>6, MapBackingFacts DEF MemInv
  <1>10. SameView(mapped, r) \/ r = space
    <2>1. CASE mapped.ok
      <3>1. PICK done : done = Reprotect(mapped, mapped.at, perms)
        OBVIOUS
      <3>2. SameView(mapped, done)
        BY <1>9, <2>1, <3>1, ReprotectFacts
      <3> QED
        BY <1>4, <2>1, <3>1, <3>2, SpaceView DEF SameView
    <2>2. CASE ~mapped.ok
      BY <1>4, <2>2
    <2> QED
      BY <2>1, <2>2
  <1>11. \A p \in Addresses :
           \/ SamePage(space, r, p)
           \/ /\ p \in PagesOf(target, size)
              /\ StateOf(r.vma_map)[p] = "Continuous" /\ r.page_table[p] = offset + (p - target)
    <2>1. \A p \in Addresses :
            \/ SamePage(space, mapped, p)
            \/ /\ p \in PagesOf(target, size) /\ StateOf(mapped.vma_map)[p] = "Continuous"
               /\ mapped.page_table[p] = offset + (p - target)
      BY <1>3, <1>6, MapPages DEF MemInv
    <2> QED
      BY <1>10, <2>1 DEF SamePage, SameView
  <1>12. PICK st, pt, st2, pt2 : /\ st = StateOf(space.vma_map) /\ pt = space.page_table
                                 /\ st2 = StateOf(r.vma_map) /\ pt2 = r.page_table
    OBVIOUS
  <1>13. PICK new : new = {p \in Addresses : ~SamePage(space, r, p)}
    OBVIOUS
  <1>14. \A p \in Addresses : p \notin new => st2[p] = st[p] /\ pt2[p] = pt[p]
    BY <1>12, <1>13 DEF SamePage
  <1>15. ASSUME NEW p \in new
         PROVE  /\ st2[p] \in OwnStates /\ pt2[p] \in frames /\ p \in LinearArea
                /\ pt2[p] = p - LinearBase /\ p \in Nat
    <2>1. /\ p \in PagesOf(target, size) /\ st2[p] = "Continuous"
          /\ pt2[p] = offset + (p - target) /\ p \in Nat
      BY <1>11, <1>12, <1>13 DEF Addresses
    <2>2. "Continuous" \in OwnStates
      BY DEF OwnStates
    <2>3. p \in LinearArea /\ pt2[p] = p - LinearBase /\ pt2[p] \in frames
      BY <1>1, <1>2, <1>6, <1>8, <2>1, LayoutFacts DEF PagesOf, LinearArea
    <2> QED
      BY <2>1, <2>2, <2>3
  <1>16. \A p, q \in new : pt2[p] = pt2[q] => p = q
    <2> SUFFICES ASSUME NEW p \in new, NEW q \in new, pt2[p] = pt2[q] PROVE p = q
      OBVIOUS
    <2>1. p - LinearBase = q - LinearBase /\ p \in Nat /\ q \in Nat
      BY <1>15
    <2> QED
      BY <1>6, <2>1
  <1>17. PICK hold, tls_hold, hold2 : /\ hold = holding_memory /\ tls_hold = holding_tls_memory
                                      /\ hold2 = hold \cup frames
    OBVIOUS
  <1>18. Owned(st, pt, hold, tls_hold)
    BY <1>12, <1>17 DEF FrameInv, OwnedInv
  <1>19. /\ hold \subseteq hold2 /\ tls_hold \subseteq tls_hold /\ frames \subseteq hold2
         /\ frames \cap (hold \cup tls_hold) = {} /\ Null \notin frames
    BY <1>7, <1>17, NullNoFrame
  <1>20. Owned(st2, pt2, hold2, tls_hold)
    BY <1>14, <1>15, <1>16, <1>18, <1>19, NewPages
  <1>21. AllBacked(pt2)
    <2>1. AllBacked(pt)
      BY <1>12 DEF FrameInv, OwnedInv
    <2>2. frames \subseteq PageMemory
      BY <1>7, NullNoFrame
    <2> QED
      BY <1>14, <1>15, <2>1, <2>2 DEF AllBacked
  <1>22. OwnedInv'
    BY <1>5, <1>12, <1>17, <1>20, <1>21 DEF OwnedInv
  <1>23. DividedInv' /\ CountsInv'
    BY <1>5, <1>7, <1>8, TakeCounts DEF FrameInv
  <1>24. BlockFrames(block')
    BY <1>5 DEF FrameInv
  <1> QED
    BY <1>22, <1>23, <1>24 DEF FrameInv

\* The frames that LinearAllocate finds are free.
LEMMA LinearOffsetFree ==
    ASSUME NEW free, FrameSet(free), NEW size, LinearOffsets(free, size) # {}
    PROVE  LinearOffset(free, size) \in Nat /\ PagesOf(LinearOffset(free, size), size) \subseteq free
  <1>1. PICK S : S = LinearOffsets(free, size)
    OBVIOUS
  <1>2. S \subseteq Nat /\ S # {}
    BY <1>1 DEF LinearOffsets, FrameSet
  <1>3. Min(S) \in S
    BY <1>2, MinNat
  <1> QED
    BY <1>1, <1>2, <1>3 DEF LinearOffset, LinearOffsets, IsFree, PagesOf

\* The calls on heap and linear memory keep the frames exact.
LEMMA HeapNextFrames ==
    ASSUME MemInv, FrameInv, HeapNext \/ FreeNext
    PROVE  FrameInv'
  <1>1. FrameSet(free_blocks)
    BY DEF MemInv, FramesInv
  <1>2. ASSUME NEW size \in Sizes, NEW perms, LinearAllocate(size, perms) PROVE FrameInv'
    <2>1. PICK offset : offset = LinearOffset(free_blocks, size)
      OBVIOUS
    <2>2. /\ offset \in Nat /\ PagesOf(offset, size) \subseteq free_blocks
          /\ LinearMap(offset, size, perms)
      BY <1>1, <1>2, <2>1, LinearOffsetFree DEF LinearAllocate
    <2> QED
      BY <2>2, LinearMapFrames
  <1>3. ASSUME NEW size \in Sizes, NEW perms, NEW target \in PagesOf(LinearBase, RegionSize),
               LinearAllocateAt(target, size, perms)
        PROVE  FrameInv'
    <2>1. PICK offset : offset = target - LinearBase
      OBVIOUS
    <2>2. /\ offset \in Nat /\ PagesOf(offset, size) \subseteq free_blocks
          /\ LinearMap(offset, size, perms)
      BY <1>3, <2>1, LinearTarget DEF LinearAllocateAt, IsFree, PagesOf
    <2> QED
      BY <2>2, LinearMapFrames
  <1>4. CASE HeapNext
    BY <1>2, <1>3, <1>4, HeapAllocateFrames DEF HeapNext
  <1>5. CASE FreeNext
    BY <1>5, HeapFreeFrames, LinearFreeFrames DEF FreeNext
  <1> QED
    BY <1>4, <1>5

-----------------------------------------------------------------------------
\* A step that changes nothing but the address space, and gives no own page.
LEMMA OnlySpaceFrames ==
    ASSUME FrameInv, NEW r, Keeps(space, r), AllBacked(r.page_table), SpaceBecomes(Space(r))
    PROVE  FrameInv'
  <1>1. /\ space' = Space(r)
        /\ UNCHANGED <<free_blocks, used, holding_memory, holding_tls_memory, tls_slots, commit, block>>
    BY DEF SpaceBecomes, region, tls
  <1>2. PICK st, pt, st2, pt2 : /\ st = StateOf(space.vma_map) /\ pt = space.page_table
                                /\ st2 = StateOf(r.vma_map) /\ pt2 = r.page_table
    OBVIOUS
  <1>3. PICK hold, tls_hold : hold = holding_memory /\ tls_hold = holding_tls_memory
    OBVIOUS
  <1>4. Owned(st, pt, hold, tls_hold)
    BY <1>2, <1>3 DEF FrameInv, OwnedInv
  <1>5. \A p \in Addresses : KeepsPage(st, pt, st2, pt2, p)
    BY <1>2 DEF Keeps
  <1>6. Owned(st2, pt2, hold, tls_hold)
    BY <1>4, <1>5, KeepsOwned
  <1>7. OwnedInv'
    BY <1>1, <1>2, <1>3, <1>6, SpaceView DEF OwnedInv
  <1>8. DividedInv' /\ CountsInv' /\ BlockFrames(block')
    BY <1>1 DEF FrameInv, DividedInv, CountsInv
  <1> QED
    BY <1>7, <1>8 DEF FrameInv

\* What is mapped a second time lies outside of the heaps.
LEMMA SecondApart ==
    ASSUME NEW pages, pages \subseteq SecondArea
    PROVE  pages \cap (HeapArea \cup LinearArea) = {}
  BY LayoutAssumption

\* Own pages are backed by frames.
LEMMA OwnFrames ==
    ASSUME FrameInv, NEW st, NEW pt, st = StateOf(space.vma_map), pt = space.page_table,
           NEW p \in Addresses, st[p] \in OwnStates
    PROVE  pt[p] \in Frames
  <1>1. Owned(st, pt, holding_memory, holding_tls_memory)
    BY DEF FrameInv, OwnedInv
  <1>2. HeldPage(pt, holding_memory, holding_tls_memory, p)
    BY <1>1 DEF Owned
  <1>3. pt[p] \in holding_memory \cup holding_tls_memory
    BY <1>2 DEF HeldPage
  <1> QED
    BY <1>3 DEF FrameInv, DividedInv, Divided

\* The blocks behind a range of private memory that was moved to another state.
LEMMA MarkedBlocks ==
    ASSUME MemInv, FrameInv, NEW source \in Addresses, NEW size \in Nat, size >= 1,
           source + size <= MaxAddress, NEW ns, ns \in OwnStates, NEW np,
           NEW marked, marked = ChangeMemoryState(space, source, size, "Private", ReadWrite, ns, np),
           marked.ok, NEW blocks, blocks = GetBackingBlocksForRange(marked.vma_map, source, size)
    PROVE  /\ GoodSpace(marked) /\ Keeps(space, marked) /\ marked.page_table = space.page_table
           /\ blocks \in Seq(BackingBlock) /\ TotalSize(blocks, size) /\ FramesOf(blocks) \subseteq Frames
  <1>1. "Private" \in OwnStates
    BY DEF OwnStates
  <1>2. Keeps(space, marked) /\ marked.page_table = space.page_table
    BY <1>1, ChangeKeeps DEF MemInv
  <1>3. Rewritten(space, source, size, marked)
    BY ChangeFacts DEF MemInv
  <1>4. GoodSpace(marked)
    BY <1>3 DEF Rewritten
  <1>5. ChangeEffect(space, source, size, "Private", ns, marked)
    BY ChangePages DEF MemInv
  <1>6. /\ RangeBacked(space.page_table, source, source + size)
        /\ \A p \in Addresses : p \in PagesOf(source, size) => StateOf(space.vma_map)[p] = "Private"
    <2>1. marked.ok # FALSE
      OBVIOUS
    <2> QED
      BY <1>5, <2>1 DEF ChangeEffect
  <1>7. /\ blocks \in Seq(BackingBlock) /\ TotalSize(blocks, size)
        /\ FramesOf(blocks) = FramesBehind(marked.page_table, PagesOf(source, size))
    <2>1. RangeBacked(marked.page_table, source, source + size)
      BY <1>2, <1>6
    <2> QED
      BY <1>4, <2>1, BackingBlocksExact
  <1>8. \A p \in PagesOf(source, size) : p \in Addresses
    BY LayoutFacts DEF PagesOf, Addresses
  <1>9. \A p \in PagesOf(source, size) : space.page_table[p] \in Frames
    BY <1>1, <1>6, <1>8, OwnFrames
  <1>10. FramesOf(blocks) \subseteq Frames
    BY <1>2, <1>7, <1>9 DEF FramesBehind
  <1> QED
    BY <1>2, <1>4, <1>7, <1>10

\* Process::Map gives no own page, as the alias lies outside of the heaps.
LEMMA MapFrames ==
    ASSUME MemInv, FrameInv, NEW target \in MapTargets, NEW source \in HeapBase .. HeapEnd - 1,
           NEW size \in AliasSizes, NEW perms, NEW privileged,
           Map(target, source, size, perms, privileged)
    PROVE  FrameInv'
  <1>1. PICK sperm : sperm = IF privileged THEN {} ELSE ReadWrite
    OBVIOUS
  <1>2. PICK tstate : tstate = IF privileged THEN "AliasCode" ELSE "Alias"
    OBVIOUS
  <1>3. PICK marked : marked = ChangeMemoryState(space, source, size, "Private", ReadWrite,
                                                 SourceState(privileged), sperm)
    OBVIOUS
  <1>4. PICK blocks : blocks = GetBackingBlocksForRange(marked.vma_map, source, size)
    OBVIOUS
  <1>5. PICK mapped : mapped = MapBlocks(marked, target, blocks, tstate, perms)
    OBVIOUS
  <1>6. marked.ok /\ SpaceBecomes(Space(mapped))
    BY <1>1, <1>2, <1>3, <1>4, <1>5 DEF Map
  <1>7. /\ source \in Addresses /\ size \in Nat /\ size >= 1 /\ source + size <= MaxAddress
        /\ target \in Nat
    <2>1. target \in Addresses
      BY MemoryAssumption
    <2> QED
      BY <2>1, HeapTarget, SizeFacts, LayoutFacts DEF Addresses
  <1>8. SourceState(privileged) \in OwnStates /\ tstate \notin OwnStates
    BY <1>2 DEF SourceState, OwnStates
  <1>9. /\ GoodSpace(marked) /\ Keeps(space, marked) /\ marked.page_table = space.page_table
        /\ blocks \in Seq(BackingBlock) /\ TotalSize(blocks, size) /\ FramesOf(blocks) \subseteq Frames
    BY <1>3, <1>4, <1>6, <1>7, <1>8, MarkedBlocks
  <1>10. PagesOf(target, size) \cap (HeapArea \cup LinearArea) = {}
    <2>1. PagesOf(target, size) \subseteq SecondArea
      BY DEF SecondArea
    <2> QED
      BY <2>1, SecondApart
  <1>11. AllBacked(marked.page_table)
    BY <1>9 DEF FrameInv, OwnedInv
  <1>12. Keeps(marked, mapped) /\ AllBacked(mapped.page_table)
    BY <1>5, <1>7, <1>8, <1>9, <1>10, <1>11, SecondKeeps
  <1>13. Keeps(space, mapped)
    BY <1>9, <1>12, KeepsTwice
  <1> QED
    BY <1>6, <1>12, <1>13, OnlySpaceFrames

\* Process::Unmap gives no own page.
LEMMA UnmapCallFrames ==
    ASSUME MemInv, FrameInv, NEW target \in UnmapTargets, NEW source \in HeapBase .. HeapEnd - 1,
           NEW size \in AliasSizes, NEW perms, NEW privileged,
           Unmap(target, source, size, perms, privileged)
    PROVE  FrameInv'
  <1>1. PICK unmapped : unmapped = UnmapRange(space, target, size)
    OBVIOUS
  <1>2. PICK restored : restored = ChangeMemoryState(unmapped, source, size,
                                       SourceState(privileged), {}, "Private", perms)
    OBVIOUS
  <1>3. SpaceBecomes(Space(restored))
    BY <1>1, <1>2 DEF Unmap
  <1>4. source \in Addresses /\ size \in Nat /\ target \in Addresses
    BY HeapTarget, SizeFacts, MemoryAssumption
  <1>5. GoodSpace(unmapped)
    BY <1>1, <1>4, UnmapFacts DEF MemInv
  <1>6. Keeps(space, unmapped) /\ AllBacked(unmapped.page_table)
    BY <1>1, <1>4, UnmapKeeps DEF MemInv, FrameInv, OwnedInv
  <1>7. SourceState(privileged) \in OwnStates /\ "Private" \in OwnStates
    BY DEF SourceState, OwnStates
  <1>8. Keeps(unmapped, restored) /\ restored.page_table = unmapped.page_table
    BY <1>2, <1>4, <1>5, <1>7, ChangeKeeps
  <1>9. Keeps(space, restored) /\ AllBacked(restored.page_table)
    BY <1>6, <1>8, KeepsTwice
  <1> QED
    BY <1>3, <1>9, OnlySpaceFrames

\* Permissions do not matter to frames.
LEMMA ProtectFrames ==
    ASSUME MemInv, FrameInv, NEW target \in HeapBase .. HeapEnd - 1, NEW size \in Sizes, NEW perms,
           Protect(target, size, perms)
    PROVE  FrameInv'
  <1>1. PICK r : r = ReprotectRange(space, target, size, perms)
    OBVIOUS
  <1>2. SpaceBecomes(Space(r))
    BY <1>1 DEF Protect
  <1>3. target \in Addresses /\ size \in Nat
    BY HeapTarget, SizeFacts
  <1>4. /\ r.page_table = space.page_table
        /\ \A p \in Addresses : StateOf(r.vma_map)[p] = StateOf(space.vma_map)[p]
    BY <1>1, <1>3, ReprotectPages DEF MemInv
  <1>5. Keeps(space, r) /\ AllBacked(r.page_table)
    BY <1>4 DEF Keeps, KeepsPage, FrameInv, OwnedInv
  <1> QED
    BY <1>2, <1>5, OnlySpaceFrames

\* The calls on aliases and permissions keep the frames exact.
LEMMA AliasNextFrames ==
    ASSUME MemInv, FrameInv, AliasNext \/ ProtectNext
    PROVE  FrameInv'
  <1>1. CASE AliasNext
    BY <1>1, MapFrames, UnmapCallFrames DEF AliasNext
  <1>2. CASE ProtectNext
    BY <1>2, ProtectFrames DEF ProtectNext
  <1> QED
    BY <1>1, <1>2

-----------------------------------------------------------------------------
\* A new page of thread local storage takes one free frame.
LEMMA AllocateTlsPageFrames ==
    ASSUME MemInv, FrameInv, AllocateTlsPage
    PROVE  FrameInv'
  <1>1. PICK offset : offset = LinearOffset(free_blocks, 1)
    OBVIOUS
  <1>2. PICK frames : frames = {offset}
    OBVIOUS
  <1>3. PICK n \in Nat : n = Len(tls_slots)
    BY DEF MemInv, TlsInv
  <1>4. PICK target \in Nat : target = TlsBase + n
    BY LayoutFacts
  <1>5. PICK r : r = MapBackingMemory(space, target, offset, 1, "Locked")
    OBVIOUS
  <1>6. /\ space' = Space(r) /\ TakeFrames(frames)
        /\ holding_tls_memory' = holding_tls_memory \cup frames
        /\ tls_slots' = Append(tls_slots, {0})
        /\ LinearOffsets(free_blocks, 1) # {}
        /\ UNCHANGED <<holding_memory, commit, block>>
    BY <1>1, <1>2, <1>3, <1>4, <1>5 DEF AllocateTlsPage
  <1>7. offset \in Nat /\ frames \subseteq free_blocks
    <2>1. offset \in Nat /\ PagesOf(offset, 1) \subseteq free_blocks
      BY <1>1, <1>6, LinearOffsetFree DEF MemInv, FramesInv
    <2>2. offset \in PagesOf(offset, 1)
      BY <2>1 DEF PagesOf
    <2> QED
      BY <1>2, <2>1, <2>2
  <1>8. PICK free, hold, tls_hold, tls2 :
             /\ free = free_blocks /\ hold = holding_memory /\ tls_hold = holding_tls_memory
             /\ tls2 = tls_hold \cup frames
    OBVIOUS
  <1>9. /\ free \subseteq Frames /\ tls_hold \subseteq Frames /\ frames \subseteq Frames
        /\ frames \subseteq free /\ frames \cap (hold \cup tls_hold) = {}
    BY <1>7, <1>8 DEF FrameInv, DividedInv, Divided
  <1>10. Cardinality(frames) = 1
    BY <1>2, FS_Singleton
  <1>11. /\ n = Cardinality(tls_hold) /\ Cardinality(tls2) = n + 1 /\ n + 1 <= RegionSize
    <2>1. n = Cardinality(tls_hold)
      BY <1>3, <1>8 DEF FrameInv, CountsInv
    <2>2. tls_hold \cap frames = {}
      BY <1>9
    <2> QED
      BY <1>8, <1>9, <1>10, <2>1, <2>2, AddedCount
  <1>12. PICK k \in Nat : k = Cardinality(free) /\ Cardinality(free \ frames) = k - 1
    BY <1>9, <1>10, TakenCount
  <1>13. PICK st, pt, st2, pt2 : /\ st = StateOf(space.vma_map) /\ pt = space.page_table
                                 /\ st2 = StateOf(r.vma_map) /\ pt2 = r.page_table
    OBVIOUS
  <1>14. PICK new : new = {p \in Addresses : ~SamePage(space, r, p)}
    OBVIOUS
  <1>15. \A p \in Addresses : p \notin new => st2[p] = st[p] /\ pt2[p] = pt[p]
    BY <1>13, <1>14 DEF SamePage
  <1>16. ASSUME NEW p \in new
         PROVE  st2[p] \in OwnStates /\ pt2[p] \in frames /\ p \in TlsArea /\ p = target
    <2>1. p \in PagesOf(target, 1) /\ st2[p] = "Locked" /\ pt2[p] = offset + (p - target)
      BY <1>5, <1>7, <1>13, <1>14, MapPages DEF MemInv
    <2>2. p = target
      BY <2>1 DEF PagesOf
    <2>3. pt2[p] = offset
      BY <1>7, <2>1, <2>2
    <2>4. p \in TlsArea
      BY <1>4, <1>11, <2>2, LayoutFacts DEF TlsArea, PagesOf
    <2>5. "Locked" \in OwnStates
      BY DEF OwnStates
    <2> QED
      BY <1>2, <2>1, <2>2, <2>3, <2>4, <2>5
  <1>17. \A p, q \in new : pt2[p] = pt2[q] => p = q
    BY <1>16
  <1>18. Owned(st, pt, hold, tls_hold)
    BY <1>8, <1>13 DEF FrameInv, OwnedInv
  <1>19. hold \subseteq hold /\ tls_hold \subseteq tls2 /\ frames \subseteq tls2 /\ Null \notin frames
    BY <1>8, <1>9, NullNoFrame
  <1>20. Owned(st2, pt2, hold, tls2)
    BY <1>9, <1>15, <1>16, <1>17, <1>18, <1>19, NewPages
  <1>21. AllBacked(pt2)
    <2>1. AllBacked(pt)
      BY <1>13 DEF FrameInv, OwnedInv
    <2>2. frames \subseteq PageMemory
      BY <1>9, NullNoFrame
    <2> QED
      BY <1>15, <1>16, <2>1, <2>2 DEF AllBacked
  <1>22. OwnedInv'
    BY <1>6, <1>8, <1>13, <1>20, <1>21, SpaceView DEF OwnedInv
  <1>23. free_blocks' = free \ frames /\ used' = used + 1
    BY <1>6, <1>8, <1>10 DEF TakeFrames
  <1>24. DividedInv'
    BY <1>6, <1>8, <1>9, <1>23 DEF FrameInv, DividedInv, Divided
  <1>25. CountsInv'
    <2>1. used' = RegionSize - Cardinality(free_blocks')
      <3>1. used = RegionSize - k
        BY <1>8, <1>12 DEF FrameInv, CountsInv
      <3>2. Cardinality(free_blocks') = k - 1
        BY <1>12, <1>23
      <3> QED
        BY <1>23, <3>1, <3>2, LayoutFacts
    <2>2. Len(tls_slots') = n + 1
      BY <1>3, <1>6 DEF MemInv, TlsInv
    <2>3. Cardinality(holding_tls_memory') = n + 1
      BY <1>6, <1>8, <1>11
    <2> QED
      BY <1>6, <2>1, <2>2, <2>3 DEF FrameInv, CountsInv
  <1>26. BlockFrames(block')
    BY <1>6 DEF FrameInv
  <1> QED
    BY <1>22, <1>24, <1>25, <1>26 DEF FrameInv

\* A step that changes one entry of thread local storage.
LEMMA SlotFrames ==
    ASSUME MemInv, FrameInv, NEW i, NEW slots, tls_slots' = [tls_slots EXCEPT ![i] = slots],
           UNCHANGED <<space, free_blocks, used, holding_memory, holding_tls_memory, commit, block>>
    PROVE  FrameInv'
  <1>1. Len(tls_slots') = Len(tls_slots)
    BY DEF MemInv, TlsInv
  <1> QED
    BY <1>1 DEF FrameInv, OwnedInv, DividedInv, CountsInv

\* Thread local storage keeps the frames exact.
LEMMA ThreadNextFrames ==
    ASSUME MemInv, FrameInv, ThreadNext
    PROVE  FrameInv'
  <1>1. \/ AllocateSlot \/ AllocateTlsPage
        \/ \E i \in DOMAIN tls_slots, slot \in 0 .. SlotsPerPage - 1 : FreeThreadLocalStorage(i, slot)
    BY DEF ThreadNext, AllocateThreadLocalStorage
  <1>2. ASSUME AllocateSlot PROVE FrameInv'
    <2>1. PICK page : page = Min(PagesWithSlot)
      OBVIOUS
    <2>2. PICK slots : slots = tls_slots[page] \cup {FreeSlot(page)}
      OBVIOUS
    <2>3. tls_slots' = [tls_slots EXCEPT ![page] = slots]
      BY <1>2, <2>1, <2>2 DEF AllocateSlot
    <2>4. UNCHANGED <<space, free_blocks, used, holding_memory, holding_tls_memory, commit, block>>
      BY <1>2 DEF AllocateSlot, region
    <2> QED
      BY <2>3, <2>4, SlotFrames
  <1>3. ASSUME NEW i \in DOMAIN tls_slots, NEW slot, FreeThreadLocalStorage(i, slot) PROVE FrameInv'
    <2>1. PICK slots : slots = tls_slots[i] \ {slot}
      OBVIOUS
    <2>2. tls_slots' = [tls_slots EXCEPT ![i] = slots]
      BY <1>3, <2>1 DEF FreeThreadLocalStorage
    <2>3. UNCHANGED <<space, free_blocks, used, holding_memory, holding_tls_memory, commit, block>>
      BY <1>3 DEF FreeThreadLocalStorage, region
    <2> QED
      BY <2>2, <2>3, SlotFrames
  <1> QED
    BY <1>1, <1>2, <1>3, AllocateTlsPageFrames

-----------------------------------------------------------------------------
\* A step that changes the pages of nobody's own memory, and the block perhaps.
LEMMA KeepsOwnedInv ==
    ASSUME FrameInv, NEW r, Keeps(space, r), AllBacked(r.page_table), space' = Space(r),
           UNCHANGED <<holding_memory, holding_tls_memory>>
    PROVE  OwnedInv'
  <1>1. PICK st, pt, st2, pt2 : /\ st = StateOf(space.vma_map) /\ pt = space.page_table
                                /\ st2 = StateOf(r.vma_map) /\ pt2 = r.page_table
    OBVIOUS
  <1>2. PICK hold, tls_hold : hold = holding_memory /\ tls_hold = holding_tls_memory
    OBVIOUS
  <1>3. Owned(st, pt, hold, tls_hold)
    BY <1>1, <1>2 DEF FrameInv, OwnedInv
  <1>4. \A p \in Addresses : KeepsPage(st, pt, st2, pt2, p)
    BY <1>1 DEF Keeps
  <1>5. Owned(st2, pt2, hold, tls_hold)
    BY <1>3, <1>4, KeepsOwned
  <1> QED
    BY <1>1, <1>2, <1>5, SpaceView DEF OwnedInv

\* No block has no frames.
LEMMA NoBlockFrames == BlockFrames(NoBlock) /\ NoBlock.holding = {}
  <1>1. NoBlock.backing_blocks = <<>> /\ NoBlock.size = 0 /\ NoBlock.holding = {}
    BY DEF NoBlock
  <1>2. FramesOf(<<>>) = {}
    BY DEF FramesOf
  <1> QED
    BY <1>1, <1>2, NoBlocksSize DEF BlockFrames

\* One block of memory.
LEMMA OneBlock ==
    ASSUME NEW bk \in BackingBlock
    PROVE  /\ <<bk>> \in Seq(BackingBlock) /\ TotalSize(<<bk>>, bk.size)
           /\ FramesOf(<<bk>>) = PagesOf(bk.memory, bk.size)
  <1>1. PICK none : none = <<>>
    OBVIOUS
  <1>2. none \in Seq(BackingBlock) /\ <<bk>> = Append(none, bk)
    BY <1>1
  <1>3. FramesOf(none) = {}
    BY <1>1 DEF FramesOf
  <1>4. 0 \in Nat /\ TotalSize(none, 0)
    BY <1>1, NoBlocksSize
  <1>5. TotalSize(<<bk>>, 0 + bk.size)
    BY <1>2, <1>4, AppendSize
  <1>6. 0 + bk.size = bk.size
    BY DEF BackingBlock
  <1>7. FramesOf(<<bk>>) = FramesOf(none) \cup PagesOf(bk.memory, bk.size)
    BY <1>2, AppendFrames
  <1> QED
    BY <1>3, <1>5, <1>6, <1>7

\* SharedMemory created in the region takes free frames.
LEMMA CreateInRegionFrames ==
    ASSUME MemInv, FrameInv, NEW size \in BlockSizes, NEW perms, CreateBlockInRegion(size, perms)
    PROVE  FrameInv'
  <1>1. PICK offset : offset = LinearOffset(free_blocks, size)
    OBVIOUS
  <1>2. PICK frames : frames = PagesOf(offset, size)
    OBVIOUS
  <1>3. PICK bk : bk = [memory |-> offset, size |-> size]
    OBVIOUS
  <1>4. /\ block = NoBlock /\ LinearOffsets(free_blocks, size) # {} /\ TakeFrames(frames)
        /\ block' = [size |-> size, base_address |-> 0, perms |-> perms,
                     backing_blocks |-> <<bk>>, holding |-> frames]
        /\ UNCHANGED <<space, holding_memory, holding_tls_memory, tls_slots, commit>>
    BY <1>1, <1>2, <1>3 DEF CreateBlockInRegion, tls
  <1>5. size \in Nat /\ size >= 1
    BY SizeFacts
  <1>6. offset \in Nat /\ frames \subseteq free_blocks
    BY <1>1, <1>2, <1>4, LinearOffsetFree DEF MemInv, FramesInv
  <1>7. PICK free : free = free_blocks
    OBVIOUS
  <1>8. free \subseteq Frames /\ frames \subseteq free /\ frames \subseteq Frames
    BY <1>6, <1>7 DEF FrameInv, DividedInv, Divided
  <1>9. offset + size <= RegionSize /\ Cardinality(frames) = size
    BY <1>2, <1>5, <1>6, <1>8, PagesOfFrames
  <1>10. bk \in BackingBlock /\ bk.memory = offset /\ bk.size = size
    BY <1>3, <1>5, <1>6 DEF BackingBlock
  <1>11. TotalSize(<<bk>>, size) /\ FramesOf(<<bk>>) = frames
    BY <1>2, <1>10, OneBlock
  <1>12. BlockFrames(block')
    BY <1>4, <1>8, <1>9, <1>10, <1>11 DEF BlockFrames
  <1>13. free_blocks' = free \ frames /\ used' = used + size
    BY <1>4, <1>7, <1>9 DEF TakeFrames
  <1>14. DividedInv'
    <2>1. block.holding = {} /\ block'.holding = frames
      BY <1>4, NoBlockFrames
    <2> QED
      BY <1>4, <1>7, <1>8, <1>13, <2>1 DEF FrameInv, DividedInv, Divided
  <1>15. CountsInv'
    <2>1. PICK k \in Nat : k = Cardinality(free) /\ Cardinality(free \ frames) = k - size
      BY <1>8, <1>9, TakenCount
    <2>2. used = RegionSize - k
      BY <1>7, <2>1 DEF FrameInv, CountsInv
    <2>3. used' = RegionSize - Cardinality(free_blocks')
      BY <1>5, <1>13, <2>1, <2>2, LayoutFacts
    <2> QED
      BY <1>4, <2>3 DEF FrameInv, CountsInv
  <1>16. OwnedInv'
    BY <1>4 DEF FrameInv, OwnedInv
  <1> QED
    BY <1>12, <1>14, <1>15, <1>16 DEF FrameInv

\* SharedMemory created over mapped memory takes none.
LEMMA CreateAtFrames ==
    ASSUME MemInv, FrameInv, NEW address \in HeapBase .. HeapEnd - 1, NEW size \in BlockSizes,
           NEW perms, CreateBlockAt(address, size, perms)
    PROVE  FrameInv'
  <1>1. PICK np : np = ConvertPermissions(perms)
    OBVIOUS
  <1>2. PICK locked : locked = ChangeMemoryState(space, address, size, "Private", ReadWrite,
                                                 "Locked", np)
    OBVIOUS
  <1>3. PICK blocks : blocks = GetBackingBlocksForRange(locked.vma_map, address, size)
    OBVIOUS
  <1>4. /\ block = NoBlock /\ address + size <= SharedEnd
        /\ UNCHANGED <<free_blocks, used, holding_memory, holding_tls_memory, tls_slots, commit>>
    BY DEF CreateBlockAt, region, tls
  <1>5. \/ /\ locked.ok /\ space' = Space(locked)
           /\ block' = [size |-> size, base_address |-> address, perms |-> perms,
                        backing_blocks |-> blocks, holding |-> {}]
        \/ UNCHANGED <<space, block>>
    BY <1>1, <1>2, <1>3 DEF CreateBlockAt
  <1>6. CASE UNCHANGED <<space, block>>
    BY <1>4, <1>6 DEF FrameInv, OwnedInv, DividedInv, CountsInv
  <1>7. CASE /\ locked.ok /\ space' = Space(locked)
             /\ block' = [size |-> size, base_address |-> address, perms |-> perms,
                          backing_blocks |-> blocks, holding |-> {}]
    <2>1. /\ address \in Addresses /\ address # 0 /\ size \in Nat /\ size >= 1
          /\ address + size <= MaxAddress
      BY <1>4, HeapTarget, SizeFacts, LayoutFacts
    <2>2. "Locked" \in OwnStates
      BY DEF OwnStates
    <2>3. /\ Keeps(space, locked) /\ locked.page_table = space.page_table
          /\ TotalSize(blocks, size) /\ FramesOf(blocks) \subseteq Frames
      BY <1>2, <1>3, <1>7, <2>1, <2>2, MarkedBlocks
    <2>4. AllBacked(locked.page_table)
      BY <2>3 DEF FrameInv, OwnedInv
    <2>5. OwnedInv'
      BY <1>4, <1>7, <2>3, <2>4, KeepsOwnedInv
    <2>6. BlockFrames(block')
      BY <1>7, <2>1, <2>3 DEF BlockFrames
    <2>7. block'.holding = block.holding
      BY <1>4, <1>7, NoBlockFrames
    <2>8. DividedInv' /\ CountsInv'
      BY <1>4, <2>7 DEF FrameInv, DividedInv, CountsInv
    <2> QED
      BY <2>5, <2>6, <2>8 DEF FrameInv
  <1> QED
    BY <1>5, <1>6, <1>7

\* The destructor of SharedMemory gives back frames that are not free.
LEMMA DestroyFrames ==
    ASSUME MemInv, FrameInv, DestroyBlock
    PROVE  FrameInv' /\ ~failed'
  <1>1. PICK r : r = ChangeMemoryState(space, block.base_address, block.size, "Locked", {},
                                       "Private", ReadWrite)
    OBVIOUS
  <1>2. PICK frames : frames = block.holding
    OBVIOUS
  <1>3. /\ ReturnFrames(frames, Cardinality(frames)) /\ failed' = ~AreAllocated(frames)
        /\ space' = Space(r) \/ UNCHANGED space
        /\ block' = NoBlock
        /\ UNCHANGED <<holding_memory, holding_tls_memory, tls_slots, commit>>
    BY <1>1, <1>2 DEF DestroyBlock, tls
  <1>4. block.base_address \in Addresses /\ block.size \in Nat
    BY DEF MemInv, BlockOK
  <1>5. "Locked" \in OwnStates /\ "Private" \in OwnStates
    BY DEF OwnStates
  <1>6. Keeps(space, r) /\ r.page_table = space.page_table
    BY <1>1, <1>4, <1>5, ChangeKeeps DEF MemInv
  <1>7. AllBacked(r.page_table)
    BY <1>6 DEF FrameInv, OwnedInv
  <1>8. OwnedInv'
    <2>1. CASE space' = Space(r)
      BY <1>3, <1>6, <1>7, <2>1, KeepsOwnedInv
    <2>2. CASE UNCHANGED space
      BY <1>3, <2>2 DEF FrameInv, OwnedInv
    <2> QED
      BY <1>3, <2>1, <2>2
  <1>9. PICK free : free = free_blocks
    OBVIOUS
  <1>10. free \subseteq Frames /\ frames \subseteq Frames /\ free \cap frames = {}
    BY <1>2, <1>9 DEF FrameInv, DividedInv, Divided
  <1>11. free_blocks' = free \cup frames /\ used' = used - Cardinality(frames)
    BY <1>3, <1>9 DEF ReturnFrames
  <1>12. block'.holding = {} /\ BlockFrames(block')
    BY <1>3, NoBlockFrames
  <1>13. DividedInv'
    BY <1>2, <1>3, <1>9, <1>11, <1>12 DEF FrameInv, DividedInv, Divided
  <1>14. CountsInv'
    <2>1. PICK k \in Nat, n \in Nat : /\ k = Cardinality(free) /\ n = Cardinality(frames)
                                      /\ Cardinality(free \cup frames) = k + n
      BY <1>10, AddedCount
    <2>2. used = RegionSize - k
      BY <1>9, <2>1 DEF FrameInv, CountsInv
    <2>3. used' = RegionSize - Cardinality(free_blocks')
      BY <1>11, <2>1, <2>2, LayoutFacts
    <2> QED
      BY <1>3, <2>3 DEF FrameInv, CountsInv
  <1>15. AreAllocated(frames)
    BY <1>9, <1>10 DEF AreAllocated
  <1> QED
    BY <1>3, <1>8, <1>12, <1>13, <1>14, <1>15 DEF FrameInv

\* What is mapped a second time.
LEMMA SecondAreas ==
    /\ PagesOf(OldLinearBase, RegionSize) \subseteq SecondArea
    /\ PagesOf(IpcBase, IpcSize) \subseteq SecondArea
    /\ \A target \in SharedTargets \cup {0}, size \in BlockSizes :
          PagesOf(target, size) \subseteq SecondArea
  <1> DEFINE A == UNION {PagesOf(t, s) : t \in MapTargets, s \in AliasSizes}
             B == UNION {PagesOf(t, s) : t \in SharedTargets \cup {0}, s \in BlockSizes}
             C == PagesOf(OldLinearBase, RegionSize)
             D == PagesOf(IpcBase, IpcSize)
  <1>3. SecondArea = A \cup B \cup C \cup D
    BY DEF SecondArea
  <1>5. ASSUME NEW target \in SharedTargets \cup {0}, NEW size \in BlockSizes
        PROVE  PagesOf(target, size) \subseteq B
    <2>1. PagesOf(target, size) \in {PagesOf(t, s) : t \in SharedTargets \cup {0}, s \in BlockSizes}
      OBVIOUS
    <2> QED
      BY <2>1
  <1> HIDE DEF A, B
  <1>4. A \cup B \cup C \cup D \subseteq SecondArea
    BY <1>3
  <1>6. \A target \in SharedTargets \cup {0}, size \in BlockSizes :
          PagesOf(target, size) \subseteq SecondArea
    BY <1>4, <1>5
  <1> QED
    BY <1>4, <1>6

\* SharedMemory::Map gives no own page.
LEMMA MapMemoryBlockFrames ==
    ASSUME MemInv, FrameInv, NEW address \in SharedTargets \cup {0}, NEW perms, NEW other_perms,
           MapMemoryBlock(address, perms, other_perms)
    PROVE  FrameInv'
  <1>1. PICK blocks, size : blocks = block.backing_blocks /\ size = block.size
    OBVIOUS
  <1>2. PICK target : target = IF block.base_address = 0 /\ address = 0
                               THEN OldLinearBase + blocks[1].memory ELSE address
    OBVIOUS
  <1>3. PICK np : np = ConvertPermissions(perms)
    OBVIOUS
  <1>4. PICK mapped : mapped = MapBlocks(space, target, blocks, "Shared", np)
    OBVIOUS
  <1>5. SpaceBecomes(Space(mapped)) /\ block # NoBlock
    BY <1>1, <1>2, <1>3, <1>4 DEF MapMemoryBlock
  <1>6. /\ blocks \in Seq(BackingBlock) /\ size \in Nat /\ size \in BlockSizes
        /\ FramesOf(blocks) \subseteq Frames /\ TotalSize(blocks, size)
    BY <1>1, <1>5 DEF MemInv, BlockOK, FrameInv, BlockFrames
  <1>7. target \in Nat /\ PagesOf(target, size) \subseteq SecondArea
    <2>1. CASE block.base_address = 0 /\ address = 0
      <3>1. blocks # <<>> /\ blocks[1].memory + size <= RegionSize
        BY <1>1, <1>5, <2>1 DEF MemInv, BlockOK, FrameInv, BlockFrames
      <3>2. blocks[1] \in BackingBlock
        BY <1>6, <3>1
      <3>3. PICK mem \in Nat : mem = blocks[1].memory
        BY <3>2 DEF BackingBlock
      <3>4. target = OldLinearBase + mem /\ mem + size <= RegionSize
        BY <1>2, <2>1, <3>1, <3>3
      <3>5. PICK base \in Nat, rs \in Nat : base = OldLinearBase /\ rs = RegionSize
        BY LayoutFacts
      <3>6. target \in Nat /\ target = base + mem /\ mem + size <= rs
        BY <3>3, <3>4, <3>5
      <3>7. size \in Nat
        BY <1>6
      <3>8. \A p \in PagesOf(target, size) : p \in PagesOf(base, rs)
        BY <3>3, <3>5, <3>6, <3>7 DEF PagesOf
      <3> QED
        BY <3>5, <3>6, <3>8, SecondAreas
    <2>2. CASE ~(block.base_address = 0 /\ address = 0)
      <3>1. address \in Nat
        BY MemoryAssumption DEF Addresses
      <3>2. target = address
        BY <1>2, <2>2
      <3> QED
        BY <1>6, <3>1, <3>2, SecondAreas
    <2> QED
      BY <2>1, <2>2
  <1>8. PagesOf(target, size) \cap (HeapArea \cup LinearArea) = {}
    BY <1>7, SecondApart
  <1>9. "Shared" \notin OwnStates
    BY DEF OwnStates
  <1>10. GoodSpace(space) /\ AllBacked(space.page_table)
    BY DEF MemInv, FrameInv, OwnedInv
  <1>11. Keeps(space, mapped) /\ AllBacked(mapped.page_table)
    BY <1>4, <1>6, <1>7, <1>8, <1>9, <1>10, SecondKeeps
  <1> QED
    BY <1>5, <1>11, OnlySpaceFrames

\* Neither does SharedMemory::Unmap.
LEMMA UnmapMemoryBlockFrames ==
    ASSUME MemInv, FrameInv, NEW address \in UnmapTargets, UnmapMemoryBlock(address)
    PROVE  FrameInv'
  <1>1. PICK r : r = UnmapRange(space, address, block.size)
    OBVIOUS
  <1>2. SpaceBecomes(Space(r))
    BY <1>1 DEF UnmapMemoryBlock
  <1>3. address \in Addresses /\ block.size \in Nat
    BY MemoryAssumption DEF MemInv, BlockOK
  <1>4. Keeps(space, r) /\ AllBacked(r.page_table)
    BY <1>1, <1>3, UnmapKeeps DEF MemInv, FrameInv, OwnedInv
  <1> QED
    BY <1>2, <1>4, OnlySpaceFrames

\* The calls on memory blocks keep the frames exact.
LEMMA BlockNextFrames ==
    ASSUME MemInv, FrameInv, BlockNext
    PROVE  FrameInv'
  BY CreateInRegionFrames, CreateAtFrames, DestroyFrames, MapMemoryBlockFrames,
     UnmapMemoryBlockFrames DEF BlockNext

-----------------------------------------------------------------------------
\* What MapBackingMemoryToBase does to a page.
LEMMA MapToBasePages ==
    ASSUME NEW sp, GoodSpace(sp), NEW base \in Nat, NEW rs \in Nat, NEW memory \in Nat,
           NEW size \in Nat, size >= 1, NEW state,
           NEW r, r = MapBackingMemoryToBase(sp, base, rs, memory, size, state)
    PROVE  \A p \in Addresses :
             \/ SamePage(sp, r, p)
             \/ /\ p \in PagesOf(base, rs)
                /\ StateOf(r.vma_map)[p] = state
                /\ r.page_table[p] \in memory .. memory + size - 1
  <1>1. PICK m : m = sp.vma_map
    OBVIOUS
  <1>2. PICK C : C = {b \in DOMAIN m : /\ m[b].backing = Null
                                       /\ AreaEnd(m, b) > base
                                       /\ AreaEnd(m, b) >= base + size}
    OBVIOUS
  <1>3. PICK target : target = Max({base, Min(C)})
    OBVIOUS
  <1>4. CASE C = {} \/ target + size > base + rs
    <2>1. r = Failure(sp)
      BY <1>1, <1>2, <1>3, <1>4 DEF MapBackingMemoryToBase
    <2>2. SameView(sp, r)
      BY <2>1, FailureFacts
    <2> QED
      BY <2>2 DEF SameView, SamePage
  <1>5. CASE ~(C = {} \/ target + size > base + rs)
    <2>1. PICK s : s = MapBackingMemory(sp, target, memory, size, state)
      OBVIOUS
    <2>2. r = [s EXCEPT !.at = target]
      BY <1>1, <1>2, <1>3, <1>5, <2>1 DEF MapBackingMemoryToBase
    <2>3. Tiles(m)
      BY <1>1 DEF GoodSpace
    <2>4. C \subseteq Nat /\ C # {}
      BY <1>2, <1>5, <2>3, AreaFacts
    <2>5. PICK low \in Nat : low = Min(C)
      BY <2>4, MinNat
    <2>6. target \in Nat /\ target >= base
      <3>1. PICK k \in Nat : k = base + low
        OBVIOUS
      <3>2. {base, low} \subseteq Nat /\ {base, low} # {} /\ \A x \in {base, low} : x <= k
        BY <3>1
      <3>3. Max({base, low}) \in {base, low} /\ \A y \in {base, low} : Max({base, low}) >= y
        BY <3>2, MaxNat
      <3> QED
        BY <1>3, <2>5, <3>2, <3>3
    <2>7. target + size <= base + rs
      BY <1>5, <2>6
    <2>8. IsResult(s)
      BY <2>1, <2>6, MapBackingFacts
    <2>9. r.vma_map = s.vma_map /\ r.page_table = s.page_table
      BY <2>2, <2>8 DEF IsResult
    <2>10. ASSUME NEW p \in Addresses
           PROVE  \/ SamePage(sp, s, p)
                  \/ /\ p \in PagesOf(target, size)
                     /\ StateOf(s.vma_map)[p] = state /\ s.page_table[p] = memory + (p - target)
      BY <2>1, <2>6, MapPages
    <2>11. ASSUME NEW p \in PagesOf(target, size)
           PROVE  p \in PagesOf(base, rs) /\ memory + (p - target) \in memory .. memory + size - 1
      BY <2>6, <2>7 DEF PagesOf
    <2> QED
      BY <2>9, <2>10, <2>11 DEF SamePage
  <1> QED
    BY <1>4, <1>5

\* The memory of a buffer is none of the frames.
LEMMA BufferPages ==
    ASSUME NEW id \in 1 .. MaxBuffers + 1, NEW size \in Nat, size <= 1000
    PROVE  BufferMemory(id) .. BufferMemory(id) + size - 1 \subseteq PageMemory
  <1>1. PICK n \in Nat : n = MaxBuffers
    BY LayoutFacts
  <1>2. id \in Nat /\ id >= 1 /\ id <= n + 1
    BY <1>1
  <1>3. BufferMemory(id) = 1000 * id
    BY DEF BufferMemory
  <1>4. ASSUME NEW x \in 1000 * id .. 1000 * id + size - 1
        PROVE  x \in 1000 .. 1000 * (n + 2)
    BY <1>2
  <1> QED
    BY <1>1, <1>3, <1>4 DEF PageMemory

\* A buffer is mapped outside of the heaps, from memory that is no frame.
LEMMA BufferKeeps ==
    ASSUME NEW sp, GoodSpace(sp), AllBacked(sp.page_table), NEW id \in 1 .. MaxBuffers + 1,
           NEW size \in Nat, size >= 1, size <= 1000,
           NEW r, r = MapBackingMemoryToBase(sp, IpcBase, IpcSize, BufferMemory(id), size, "Shared")
    PROVE  Keeps(sp, r) /\ AllBacked(r.page_table)
  <1>1. PICK memory \in Nat : memory = BufferMemory(id)
    BY LayoutFacts DEF BufferMemory
  <1>2. PICK base \in Nat, rs \in Nat : base = IpcBase /\ rs = IpcSize
    BY LayoutFacts, LayoutAssumption
  <1>3. r = MapBackingMemoryToBase(sp, base, rs, memory, size, "Shared")
    BY <1>1, <1>2
  <1>4. \A p \in Addresses :
          \/ SamePage(sp, r, p)
          \/ /\ p \in PagesOf(base, rs)
             /\ StateOf(r.vma_map)[p] = "Shared"
             /\ r.page_table[p] \in memory .. memory + size - 1
    BY <1>3, MapToBasePages
  <1>5. PagesOf(base, rs) \cap (HeapArea \cup LinearArea) = {}
    BY <1>2, SecondAreas, SecondApart
  <1>6. memory .. memory + size - 1 \subseteq PageMemory
    BY <1>1, BufferPages
  <1>7. "Shared" \notin OwnStates
    BY DEF OwnStates
  <1>8. Keeps(sp, r)
    BY <1>4, <1>5, <1>7 DEF Keeps, KeepsPage, SamePage
  <1>9. AllBacked(r.page_table)
    BY <1>4, <1>6 DEF AllBacked, SamePage
  <1> QED
    BY <1>8, <1>9

\* A buffer is not backed by frames.
LEMMA MapBufferFrames ==
    ASSUME MemInv, FrameInv, NEW num_pages \in BufferSizes, MapBuffer(num_pages)
    PROVE  FrameInv'
  <1>1. PICK id : id = Min((1 .. MaxBuffers + 1) \ {b.id : b \in buffers})
    OBVIOUS
  <1>2. PICK size : size = num_pages + 2
    OBVIOUS
  <1>3. PICK mapped : mapped = MapBackingMemoryToBase(space, IpcBase, IpcSize, BufferMemory(id), size, "Shared")
    OBVIOUS
  <1>4. PICK low : low = ChangeMemoryState(mapped, mapped.at, 1, "Shared", ReadWrite, "Reserved", {})
    OBVIOUS
  <1>5. PICK high : high = ChangeMemoryState(low, mapped.at + size - 1, 1, "Shared", ReadWrite,
                                             "Reserved", {})
    OBVIOUS
  <1>6. /\ UNCHANGED <<free_blocks, used, holding_memory, holding_tls_memory, tls_slots, commit,
                       block>>
        /\ Cardinality(buffers) < MaxBuffers
    BY DEF MapBuffer, region, tls
  <1>7. (mapped.ok /\ space' = Space(high)) \/ UNCHANGED space
    BY <1>1, <1>2, <1>3, <1>4, <1>5 DEF MapBuffer
  <1>8. DividedInv' /\ CountsInv' /\ BlockFrames(block')
    BY <1>6 DEF FrameInv, DividedInv, CountsInv
  <1>9. CASE UNCHANGED space
    BY <1>6, <1>8, <1>9 DEF FrameInv, OwnedInv
  <1>10. CASE mapped.ok /\ space' = Space(high)
    <2>1. size \in Nat /\ size >= 2 /\ size <= 1000
      BY <1>2, SizeFacts, LayoutAssumption
    <2>2. id \in 1 .. MaxBuffers + 1 /\ id \in Nat
      BY <1>1, <1>6, BufferId
    <2>3. GoodSpace(space) /\ AllBacked(space.page_table)
      BY DEF MemInv, FrameInv, OwnedInv
    <2>4. Keeps(space, mapped) /\ AllBacked(mapped.page_table)
      BY <1>3, <2>1, <2>2, <2>3, BufferKeeps
    <2>5. GoodSpace(mapped) /\ mapped.at \in Nat /\ mapped.at + size <= MaxAddress
      <3>1. PICK memory \in Nat : memory = BufferMemory(id)
        BY <2>2 DEF BufferMemory
      <3>2. mapped = MapBackingMemoryToBase(space, IpcBase, IpcSize, memory, size, "Shared")
        BY <1>3, <3>1
      <3>3. GoodSpace(space) /\ IpcBase \in Nat /\ size >= 1
        BY <2>1, <2>3, LayoutFacts
      <3>4. /\ GoodSpace(mapped)
            /\ mapped.ok => mapped.at \in Nat /\ mapped.at + size <= MaxAddress
        BY <2>1, <3>2, <3>3, MapToBaseFacts
      <3> QED
        BY <1>10, <3>4
    <2>6. PICK first \in Addresses, last \in Addresses :
               first = mapped.at /\ last = mapped.at + size - 1
      BY <2>1, <2>5, LayoutFacts DEF Addresses
    <2>7. "Shared" \notin OwnStates /\ "Reserved" \notin OwnStates
      BY DEF OwnStates
    <2>8. low = ChangeMemoryState(mapped, first, 1, "Shared", ReadWrite, "Reserved", {})
      BY <1>4, <2>6
    <2>9. Rewritten(mapped, first, 1, low)
      BY <2>5, <2>8, ChangeFacts
    <2>10. Keeps(mapped, low) /\ low.page_table = mapped.page_table
      BY <2>5, <2>7, <2>8, ChangeKeeps
    <2>11. high = ChangeMemoryState(low, last, 1, "Shared", ReadWrite, "Reserved", {})
      BY <1>5, <2>6
    <2>12. GoodSpace(low)
      BY <2>9 DEF Rewritten
    <2>13. Keeps(low, high) /\ high.page_table = low.page_table
      BY <2>7, <2>11, <2>12, ChangeKeeps
    <2>14. Keeps(space, high)
      BY <2>4, <2>10, <2>13, KeepsTwice
    <2>15. AllBacked(high.page_table)
      BY <2>4, <2>10, <2>13
    <2>16. UNCHANGED <<holding_memory, holding_tls_memory>>
      BY <1>6
    <2>17. OwnedInv'
      BY <1>10, <2>14, <2>15, <2>16, KeepsOwnedInv
    <2> QED
      BY <1>8, <2>17 DEF FrameInv
  <1> QED
    BY <1>7, <1>9, <1>10

\* Its removal gives no own page.
LEMMA UnmapBufferFrames ==
    ASSUME MemInv, FrameInv, NEW buffer \in buffers, UnmapBuffer(buffer)
    PROVE  FrameInv'
  <1>1. PICK r : r = UnmapRange(space, buffer.at - 1, buffer.size + 2)
    OBVIOUS
  <1>2. /\ space' = Space(r)
        /\ UNCHANGED <<free_blocks, used, holding_memory, holding_tls_memory, tls_slots, commit,
                       block>>
    BY <1>1 DEF UnmapBuffer, region, tls
  <1>3. buffer.at - 1 \in Addresses /\ buffer.size + 2 \in Nat
    BY DEF MemInv, BuffersInv
  <1>4. Keeps(space, r) /\ AllBacked(r.page_table)
    BY <1>1, <1>3, UnmapKeeps DEF MemInv, FrameInv, OwnedInv
  <1>5. OwnedInv'
    BY <1>2, <1>4, KeepsOwnedInv
  <1>6. DividedInv' /\ CountsInv' /\ BlockFrames(block')
    BY <1>2 DEF FrameInv, DividedInv, CountsInv
  <1> QED
    BY <1>5, <1>6 DEF FrameInv

-----------------------------------------------------------------------------
\* The committed memory that is given back for the blocks, one after the other.
ReleaseLoop(v, value, blocks, n) ==
    v = [i \in 0 .. n |-> IF i = 0 THEN value ELSE Release(v[i - 1], blocks[i].size)]

\* The recursive function of FreeAllMemory's loop exists.
LEMMA ReleaseLoopExists ==
    ASSUME NEW value, NEW blocks, NEW size \in Nat
    PROVE  \E v : ReleaseLoop(v, value, blocks, size)
  <1> DEFINE T == {n \in Nat : \E v : ReleaseLoop(v, value, blocks, n)}
  <1>1. 0 \in T
    <2>1. PICK v : v = [i \in 0 .. 0 |-> value]
      OBVIOUS
    <2>2. ReleaseLoop(v, value, blocks, 0)
      BY <2>1 DEF ReleaseLoop
    <2> QED
      BY <2>2
  <1>2. ASSUME NEW n \in T PROVE n + 1 \in T
    <2>1. PICK v : ReleaseLoop(v, value, blocks, n)
      OBVIOUS
    <2>2. n \in Nat /\ n + 1 \in Nat
      OBVIOUS
    <2>3. PICK w : w = [i \in 0 .. n + 1 |-> IF i <= n THEN v[i] ELSE Release(v[n], blocks[i].size)]
      OBVIOUS
    <2>4. \A i \in 0 .. n : w[i] = v[i]
      BY <2>2, <2>3
    <2>5. \A i \in 0 .. n : v[i] = IF i = 0 THEN value ELSE Release(v[i - 1], blocks[i].size)
      BY <2>1 DEF ReleaseLoop
    <2>6. ASSUME NEW i \in 0 .. n + 1
          PROVE  w[i] = IF i = 0 THEN value ELSE Release(w[i - 1], blocks[i].size)
      <3>1. CASE i = n + 1
        <4>1. w[i] = Release(v[n], blocks[i].size) /\ i - 1 = n /\ i # 0 /\ n \in 0 .. n
          BY <2>2, <2>3, <3>1
        <4> QED
          BY <2>4, <4>1
      <3>2. CASE i # n + 1
        <4>1. i \in 0 .. n /\ (i # 0 => i - 1 \in 0 .. n)
          BY <2>2, <3>2
        <4> QED
          BY <2>4, <2>5, <4>1
      <3> QED
        BY <3>1, <3>2
    <2>7. ReleaseLoop(w, value, blocks, n + 1)
      BY <2>3, <2>6 DEF ReleaseLoop
    <2> QED
      BY <2>2, <2>7
  <1>3. T = Nat
    <2> HIDE DEF T
    <2>1. T \subseteq Nat
      BY DEF T
    <2> QED
      BY <1>1, <1>2, <2>1, SetInduction
  <1> QED
    BY <1>3

\* What is left after n blocks: all of what they add up to is given back.
ReleasedTo(v, value, sums, all, n) ==
    v[n] \in 0 .. value /\ (value = all => v[n] = value - sums[n])

\* FreeAllMemory releases as much committed memory as the process holds.
LEMMA ReleasedAll ==
    ASSUME NEW value \in Nat, NEW blocks \in Seq(BackingBlock), NEW all \in Nat,
           TotalSize(blocks, all), NEW v, ReleaseLoop(v, value, blocks, Len(blocks))
    PROVE  v[Len(blocks)] \in 0 .. value /\ (value = all => v[Len(blocks)] = 0)
  <1>1. PICK sums : Sums(blocks, sums) /\ sums[Len(blocks)] = all
    BY DEF TotalSize
  <1>2. PICK n \in Nat : n = Len(blocks)
    OBVIOUS
  <1>3. \A i \in 0 .. n : v[i] = IF i = 0 THEN value ELSE Release(v[i - 1], blocks[i].size)
    BY <1>2 DEF ReleaseLoop
  <1> DEFINE T == {k \in Nat : k <= n => ReleasedTo(v, value, sums, all, k)}
  <1>4. 0 \in T
    <2>1. sums[0] = 0
      BY <1>1 DEF Sums
    <2>2. v[0] = value
      BY <1>3
    <2> QED
      BY <2>1, <2>2 DEF ReleasedTo
  <1>5. ASSUME NEW k \in T PROVE k + 1 \in T
    <2>1. k \in Nat /\ k + 1 \in Nat
      OBVIOUS
    <2>2. ASSUME k + 1 <= n PROVE ReleasedTo(v, value, sums, all, k + 1)
      <3>1. v[k] \in 0 .. value /\ (value = all => v[k] = value - sums[k])
        BY <2>1, <2>2 DEF ReleasedTo
      <3>2. /\ k + 1 \in 0 .. n /\ k + 1 \in 1 .. n /\ k \in 0 .. n
            /\ k + 1 # 0 /\ (k + 1) - 1 = k
        BY <2>1, <2>2
      <3>3. v[k + 1] = Release(v[k], blocks[k + 1].size)
        BY <1>3, <3>2
      <3>4. blocks[k + 1] \in BackingBlock
        BY <1>2, <3>2
      <3>5. PICK size \in Nat : size = blocks[k + 1].size
        BY <3>4 DEF BackingBlock
      <3>6. PICK a \in Nat, b \in Nat : a = sums[k] /\ b = sums[k + 1]
        BY <1>1, <1>2, <3>2 DEF Sums
      <3>7. b = a + size /\ b <= all
        BY <1>1, <1>2, <3>2, <3>5, <3>6 DEF Sums
      <3>8. PICK x \in 0 .. value : x = v[k]
        BY <3>1
      <3>9. v[k + 1] = IF size > x THEN x ELSE x - size
        BY <3>3, <3>5, <3>8 DEF Release
      <3>10. v[k + 1] \in 0 .. value
        BY <3>5, <3>8, <3>9
      <3>11. ASSUME value = all PROVE v[k + 1] = value - b
        <4>1. x = all - a
          BY <3>1, <3>6, <3>8, <3>11
        <4>2. x = value - a /\ b = a + size /\ b <= value
          BY <3>7, <3>11, <4>1
        <4>3. x \in Nat /\ size \in Nat /\ a \in Nat /\ b \in Nat /\ value \in Nat
          BY <3>5, <3>6, <3>8
        <4>4. ~(size > x) /\ x - size = value - b
          BY <4>2, <4>3
        <4>5. v[k + 1] = x - size
          BY <3>9, <4>4
        <4> QED
          BY <4>4, <4>5
      <3> QED
        BY <3>6, <3>10, <3>11 DEF ReleasedTo
    <2> QED
      BY <2>1, <2>2
  <1>6. T = Nat
    <2> HIDE DEF T
    <2>1. T \subseteq Nat
      BY DEF T
    <2> QED
      BY <1>4, <1>5, <2>1, SetInduction
  <1>7. ReleasedTo(v, value, sums, all, n)
    BY <1>6
  <1> QED
    BY <1>1, <1>2, <1>7 DEF ReleasedTo

\* A new address space holds nothing.
LEMMA EmptyOwned == Owned(StateOf(EmptySpace.vma_map), EmptySpace.page_table, {}, {})
  <1>1. PICK m, pt : m = EmptySpace.vma_map /\ pt = EmptySpace.page_table
    OBVIOUS
  <1>2. Tiles(m)
    BY <1>1, EmptyGood DEF GoodSpace
  <1>3. DOMAIN m = {0} /\ m[0] = FreeArea(MaxAddress)
    BY <1>1 DEF EmptySpace
  <1>4. m[0].state = "Free" /\ m[0].size = MaxAddress
    BY <1>3 DEF FreeArea
  <1>5. \A p \in Addresses : StateOf(m)[p] = "Free"
    <2>1. \A p \in Addresses : p \in PagesOf(0, m[0].size)
      BY <1>4, LayoutFacts DEF PagesOf, Addresses
    <2> QED
      BY <1>2, <1>3, <1>4, <2>1, StateAt
  <1>6. \A p \in Addresses : pt[p] = Null
    BY <1>1 DEF EmptySpace
  <1>7. "Free" \notin OwnStates
    BY DEF OwnStates
  <1> QED
    BY <1>1, <1>5, <1>6, <1>7, HeapsWithin DEF Owned

\* Nothing is backed in the address space of a new process.
LEMMA EmptyBacked == AllBacked(EmptySpace.page_table)
  BY DEF AllBacked, PageMemory, EmptySpace

\* The end of the process returns every frame.
LEMMA TerminateFrames ==
    ASSUME MemInv, FrameInv, Terminate
    PROVE  FrameInv'
  <1>1. PICK free, hold, tls_hold, blk : /\ free = free_blocks /\ hold = holding_memory
                                         /\ tls_hold = holding_tls_memory /\ blk = block.holding
    OBVIOUS
  <1>2. Divided(free, hold, tls_hold, blk)
    BY <1>1 DEF FrameInv, DividedInv
  <1>3. PICK runs : runs = Blocks(hold)
    OBVIOUS
  <1>4. /\ free_blocks' = Frames /\ space' = EmptySpace
        /\ used' = used - Cardinality(hold) - Cardinality(tls_hold) - Cardinality(blk)
        /\ holding_memory' = {} /\ holding_tls_memory' = {} /\ tls_slots' = <<>> /\ block' = NoBlock
    <2>1. free_blocks' = free \cup (hold \cup tls_hold \cup blk)
      BY <1>1 DEF Terminate
    <2>2. free_blocks' = Frames
      BY <1>2, <2>1 DEF Divided
    <2> QED
      BY <1>1, <2>2 DEF Terminate
  <1>5. PICK v : /\ v = (CHOOSE f : ReleaseLoop(f, commit, runs, Len(runs)))
                 /\ commit' = v[Len(runs)]
    BY <1>1, <1>3 DEF Terminate, ReleaseLoop
  <1>6. hold \subseteq Frames
    BY <1>2 DEF Divided
  <1>7. PICK h \in Nat : h = Cardinality(hold)
    BY <1>6, SomeFrames
  <1>8. runs \in Seq(BackingBlock) /\ TotalSize(runs, h)
    BY <1>3, <1>6, <1>7, BlocksExact
  <1>9. PICK c : c = commit
    OBVIOUS
  <1>10. c \in 0 .. CommitLimit /\ (CommitLimit >= RegionSize => c = h)
    BY <1>1, <1>7, <1>9 DEF FrameInv, CountsInv
  <1>11. CommitLimit \in Nat /\ RegionSize \in Nat
    BY LayoutAssumption, LayoutFacts
  <1>12. c \in Nat
    BY <1>10, <1>11
  <1>13. Len(runs) \in Nat
    BY <1>8
  <1>14. ReleaseLoop(v, c, runs, Len(runs))
    BY <1>5, <1>9, <1>13, ReleaseLoopExists
  <1>15. v[Len(runs)] \in 0 .. c /\ (c = h => v[Len(runs)] = 0)
    BY <1>7, <1>8, <1>12, <1>14, ReleasedAll
  <1>16. commit' \in 0 .. CommitLimit /\ (CommitLimit >= RegionSize => commit' = 0)
    BY <1>5, <1>10, <1>11, <1>12, <1>15
  <1>17. used' = 0
    <2>1. free \subseteq Frames /\ tls_hold \subseteq Frames /\ blk \subseteq Frames
      BY <1>2 DEF Divided
    <2>2. PICK k \in Nat, t \in Nat, b \in Nat :
               k = Cardinality(free) /\ t = Cardinality(tls_hold) /\ b = Cardinality(blk)
      BY <2>1, SomeFrames
    <2>3. Cardinality(free \cup hold) = k + h
      BY <1>2, <1>6, <1>7, <2>1, <2>2, AddedCount DEF Divided
    <2>4. Cardinality((free \cup hold) \cup tls_hold) = k + h + t
      <3>1. (free \cup hold) \cap tls_hold = {} /\ free \cup hold \subseteq Frames
        BY <1>2, <1>6, <2>1 DEF Divided
      <3> QED
        BY <2>1, <2>2, <2>3, <3>1, AddedCount
    <2>5. Cardinality(((free \cup hold) \cup tls_hold) \cup blk) = k + h + t + b
      <3>1. ((free \cup hold) \cup tls_hold) \cap blk = {} /\ (free \cup hold) \cup tls_hold \subseteq Frames
        BY <1>2, <1>6, <2>1 DEF Divided
      <3> QED
        BY <2>1, <2>2, <2>4, <3>1, AddedCount
    <2>6. ((free \cup hold) \cup tls_hold) \cup blk = Frames
      BY <1>2 DEF Divided
    <2>7. RegionSize = k + h + t + b
      BY <2>5, <2>6, FrameFacts
    <2>8. used = RegionSize - k
      BY <1>1, <2>2 DEF FrameInv, CountsInv
    <2>9. used' = used - h - t - b
      BY <1>4, <1>7, <2>2
    <2>10. used = h + t + b
      BY <2>2, <2>7, <2>8
    <2> QED
      BY <2>2, <2>9, <2>10
  <1>18. Cardinality({}) = 0 /\ Len(<<>>) = 0
    BY FS_EmptySet
  <1>19. CountsInv'
    <2>1. RegionSize - Cardinality(Frames) = 0
      BY <1>11, FrameFacts
    <2> QED
      BY <1>4, <1>16, <1>17, <1>18, <2>1 DEF CountsInv
  <1>20. block'.holding = {} /\ BlockFrames(block')
    BY <1>4, NoBlockFrames
  <1>21. DividedInv'
    BY <1>4, <1>20 DEF DividedInv, Divided
  <1>22. OwnedInv'
    BY <1>4, EmptyOwned, EmptyBacked DEF OwnedInv
  <1> QED
    BY <1>19, <1>20, <1>21, <1>22 DEF FrameInv

-----------------------------------------------------------------------------
\* At first every frame is free.
LEMMA FrameInit ==
    ASSUME Init
    PROVE  FrameInv
  <1>1. Cardinality({}) = 0 /\ Len(<<>>) = 0
    BY FS_EmptySet
  <1>2. NoBlock.holding = {} /\ BlockFrames(block)
    BY NoBlockFrames DEF Init
  <1>3. OwnedInv
    BY EmptyOwned, EmptyBacked DEF Init, OwnedInv
  <1>4. DividedInv
    BY <1>2 DEF Init, DividedInv, Divided
  <1>5. CountsInv
    <2>1. RegionSize - Cardinality(Frames) = 0 /\ CommitLimit \in Nat
      BY FrameFacts, LayoutAssumption
    <2> QED
      BY <1>1, <2>1 DEF Init, CountsInv
  <1> QED
    BY <1>2, <1>3, <1>4, <1>5 DEF FrameInv

\* Every step keeps the frames exact.
LEMMA FrameStep ==
    ASSUME MemInv, FrameInv, [Next]_vars
    PROVE  FrameInv'
  <1>1. CASE UNCHANGED vars
    BY <1>1 DEF vars, region, tls, FrameInv, OwnedInv, DividedInv, CountsInv
  <1>2. CASE Next
    <2>1. \/ HeapNext \/ FreeNext \/ AliasNext \/ ProtectNext \/ ThreadNext \/ BlockNext
          \/ (\E num_pages \in BufferSizes : MapBuffer(num_pages))
          \/ (\E buffer \in buffers : UnmapBuffer(buffer))
          \/ Terminate
      BY <1>2 DEF Next, BufferNext
    <2> QED
      BY <2>1, HeapNextFrames, AliasNextFrames, ThreadNextFrames, BlockNextFrames, MapBufferFrames,
         UnmapBufferFrames, TerminateFrames
  <1> QED
    BY <1>1, <1>2

-----------------------------------------------------------------------------
\* The page table of the state is what the areas say of a page.
LEMMA PageState ==
    ASSUME GoodSpace(space), NEW p \in Addresses
    PROVE  PageView[p].state = StateOf(space.vma_map)[p]
  <1>1. PICK m : m = space.vma_map
    OBVIOUS
  <1>2. Tiles(m)
    BY <1>1 DEF GoodSpace
  <1>3. \E b \in DOMAIN m : b <= p /\ p < AreaEnd(m, b)
    BY <1>2, FindFacts
  <1>4. PICK b : b = CHOOSE x \in DOMAIN m : x <= p /\ p < AreaEnd(m, x)
    OBVIOUS
  <1>5. b \in DOMAIN m /\ b <= p /\ p < AreaEnd(m, b)
    BY <1>3, <1>4
  <1>6. PageView[p].state = m[b].state
    BY <1>1, <1>4 DEF PageView
  <1>7. p \in PagesOf(b, m[b].size)
    <2>1. b \in Nat /\ m[b].size \in Nat /\ AreaEnd(m, b) = b + m[b].size /\ p \in Nat
      BY <1>2, <1>5, AreaFacts DEF Addresses
    <2> QED
      BY <1>5, <2>1 DEF PagesOf
  <1>8. StateOf(m)[p] = m[b].state
    BY <1>2, <1>5, <1>7, StateAt
  <1> QED
    BY <1>1, <1>6, <1>8

\* A frame has one of the four holders.
LEMMA OneHolder ==
    ASSUME NEW free, NEW hold, NEW tls_hold, NEW blk, Divided(free, hold, tls_hold, blk),
           NEW holders, holders = <<free, hold, tls_hold, blk>>, NEW f \in Frames
    PROVE  \E i \in DOMAIN holders : \A j \in DOMAIN holders : f \in holders[j] <=> j = i
  <1>1. DOMAIN holders = 1 .. 4
    OBVIOUS
  <1>2. holders[1] = free /\ holders[2] = hold /\ holders[3] = tls_hold /\ holders[4] = blk
    OBVIOUS
  <1>3. \A j \in 1 .. 4 : j = 1 \/ j = 2 \/ j = 3 \/ j = 4
    OBVIOUS
  <1>4. CASE f \in free
    <2>1. f \notin hold /\ f \notin tls_hold /\ f \notin blk
      BY <1>4 DEF Divided
    <2>2. \A j \in 1 .. 4 : f \in holders[j] <=> j = 1
      BY <1>2, <1>3, <1>4, <2>1
    <2> QED
      BY <1>1, <2>2
  <1>5. CASE f \in hold
    <2>1. f \notin free /\ f \notin tls_hold /\ f \notin blk
      BY <1>5 DEF Divided
    <2>2. \A j \in 1 .. 4 : f \in holders[j] <=> j = 2
      BY <1>2, <1>3, <1>5, <2>1
    <2> QED
      BY <1>1, <2>2
  <1>6. CASE f \in tls_hold
    <2>1. f \notin free /\ f \notin hold /\ f \notin blk
      BY <1>6 DEF Divided
    <2>2. \A j \in 1 .. 4 : f \in holders[j] <=> j = 3
      BY <1>2, <1>3, <1>6, <2>1
    <2> QED
      BY <1>1, <2>2
  <1>7. CASE f \in blk
    <2>1. f \notin free /\ f \notin hold /\ f \notin tls_hold
      BY <1>7 DEF Divided
    <2>2. \A j \in 1 .. 4 : f \in holders[j] <=> j = 4
      BY <1>2, <1>3, <1>7, <2>1
    <2> QED
      BY <1>1, <2>2
  <1> QED
    BY <1>4, <1>5, <1>6, <1>7 DEF Divided

\* No two own pages have the same frame.
LEMMA OwnInjective ==
    ASSUME NEW st, NEW pt, NEW hold, NEW tls_hold, Owned(st, pt, hold, tls_hold),
           NEW own, own \subseteq Addresses, \A p \in own : st[p] \in OwnStates,
           NEW frame, frame = [p \in own |-> pt[p]]
    PROVE  IsInjective(frame) /\ \A p \in own : frame[p] \in hold \cup tls_hold
  <1>1. DOMAIN frame = own /\ \A p \in own : frame[p] = pt[p]
    OBVIOUS
  <1>2. \A p, q \in own : frame[p] = frame[q] => p = q
    BY <1>1 DEF Owned
  <1>3. \A p \in own : pt[p] \in hold \cup tls_hold
    BY DEF Owned, HeldPage
  <1> QED
    BY <1>1, <1>2, <1>3 DEF IsInjective

\* The invariant implies what FramesExact says.
LEMMA GoodFrames ==
    ASSUME MemInv, FrameInv
    PROVE  FramesExact
  <1>1. PICK own : own = {p \in Addresses : PageView[p].state \in OwnStates}
    OBVIOUS
  <1>2. PICK frame : frame = [p \in own |-> space.page_table[p]]
    OBVIOUS
  <1>3. PICK holders : holders = <<free_blocks, holding_memory, holding_tls_memory, block.holding>>
    OBVIOUS
  <1>4. \A p \in own : StateOf(space.vma_map)[p] \in OwnStates
    BY <1>1, PageState DEF MemInv
  <1>5. IsInjective(frame) /\ \A p \in own : frame[p] \in holding_memory \cup holding_tls_memory
    BY <1>1, <1>2, <1>4, OwnInjective DEF FrameInv, OwnedInv
  <1>6. \A f \in Frames : \E i \in DOMAIN holders :
              \A j \in DOMAIN holders : f \in holders[j] <=> j = i
    BY <1>3, OneHolder DEF FrameInv, DividedInv
  <1>7. /\ used = RegionSize - Cardinality(free_blocks)
        /\ CommitLimit >= RegionSize => commit = Cardinality(holding_memory)
    BY DEF FrameInv, CountsInv
  <1> QED
    BY <1>1, <1>2, <1>3, <1>5, <1>6, <1>7 DEF FramesExact

(***************************************************************************)
(* Process, MemoryRegionInfo and SharedMemory, through every call: a frame *)
(* of the region is free or has one holder, the counters agree, and what   *)
(* is mapped as own memory is held, by one page only.                      *)
(***************************************************************************)
THEOREM FramesStayExact == Spec => []FramesExact
  <1>1. Init => MemInv /\ FrameInv
    BY MemInit, FrameInit
  <1>2. MemInv /\ FrameInv /\ [Next]_vars => (MemInv /\ FrameInv)'
    BY MemStep, FrameStep
  <1>3. MemInv /\ FrameInv => FramesExact
    BY GoodFrames
  <1> QED
    BY <1>1, <1>2, <1>3, PTL DEF Spec

-----------------------------------------------------------------------------
(***************************************************************************)
(* The words.                                                              *)
(***************************************************************************)
WordsInv == memory_used \in 0 .. PagesOfU32 - 1 /\ failed \in BOOLEAN /\ calls \in 0 .. MaxCalls

\* memory_used stays a u32.
LEMMA PlusFacts ==
    ASSUME NEW x \in Int, NEW n \in Int
    PROVE  Plus(x, n) \in 0 .. PagesOfU32 - 1 /\ 0 \in 0 .. PagesOfU32 - 1
  <1>1. PagesOfU32 \in Nat /\ PagesOfU32 > 0
    BY SMT DEF PagesOfU32
  <1>2. PICK k \in Nat : k = PagesOfU32 /\ k > 0
    BY <1>1
  <1>3. PICK s \in Int : s = x + n
    OBVIOUS
  <1>4. s % k \in 0 .. k - 1
    BY <1>2, SMT
  <1> QED
    BY <1>2, <1>3, <1>4 DEF Plus

\* What a call does to memory_used and to `failed`.
WordsWritten ==
    /\ memory_used' \in {memory_used, 0} \/ \E n \in Int : memory_used' = Plus(memory_used, n)
    /\ failed' \in BOOLEAN

\* The calls on heap and linear memory keep the counters in range.
LEMMA HeapNextWords ==
    ASSUME HeapNext \/ FreeNext
    PROVE  WordsWritten
  <1>1. \A size \in Sizes : size \in Int /\ -size \in Int
    BY SizeFacts
  <1>2. ASSUME NEW size \in Sizes, NEW target, NEW perms, HeapAllocate(target, size, perms)
        PROVE  WordsWritten
    <2>1. memory_used' = Plus(memory_used, size) /\ failed' \in BOOLEAN
      BY <1>2 DEF HeapAllocate
    <2> QED
      BY <1>1, <2>1 DEF WordsWritten
  <1>3. ASSUME NEW size \in Sizes, NEW offset, NEW perms, LinearMap(offset, size, perms)
        PROVE  WordsWritten
    <2>1. memory_used' = Plus(memory_used, size) /\ failed' \in BOOLEAN
      BY <1>3 DEF LinearMap
    <2> QED
      BY <1>1, <2>1 DEF WordsWritten
  <1>4. ASSUME NEW size \in Sizes, NEW target, HeapFree(target, size)
        PROVE  WordsWritten
    <2>1. memory_used' = Plus(memory_used, -size) /\ failed' \in BOOLEAN
      BY <1>4 DEF HeapFree
    <2> QED
      BY <1>1, <2>1 DEF WordsWritten
  <1>5. ASSUME NEW size \in Sizes, NEW target, LinearFree(target, size)
        PROVE  WordsWritten
    <2>1. memory_used' = Plus(memory_used, -size) /\ failed' \in BOOLEAN
      BY <1>5 DEF LinearFree
    <2> QED
      BY <1>1, <2>1 DEF WordsWritten
  <1>6. CASE HeapNext
    BY <1>2, <1>3, <1>6 DEF HeapNext, LinearAllocate, LinearAllocateAt
  <1>7. CASE FreeNext
    BY <1>4, <1>5, <1>7 DEF FreeNext
  <1> QED
    BY <1>6, <1>7

\* So do those on aliases, permissions, threads and buffers.
LEMMA OtherWords ==
    ASSUME WordsInv, AliasNext \/ ProtectNext \/ ThreadNext \/ BufferNext \/ Terminate
    PROVE  WordsWritten
  <1>1. ASSUME NEW target, NEW source, NEW size, NEW perms, NEW privileged,
               Map(target, source, size, perms, privileged)
        PROVE  WordsWritten
    <2>1. memory_used' = memory_used /\ failed' \in BOOLEAN
      BY <1>1 DEF Map, SpaceBecomes
    <2> QED
      BY <2>1 DEF WordsWritten
  <1>2. ASSUME NEW target, NEW source, NEW size, NEW perms, NEW privileged,
               Unmap(target, source, size, perms, privileged)
        PROVE  WordsWritten
    <2>1. memory_used' = memory_used /\ failed' = failed
      BY <1>2 DEF Unmap, SpaceBecomes
    <2> QED
      BY <2>1 DEF WordsWritten, WordsInv
  <1>3. ASSUME NEW target, NEW size, NEW perms, Protect(target, size, perms)
        PROVE  WordsWritten
    <2>1. memory_used' = memory_used /\ failed' = failed
      BY <1>3 DEF Protect, SpaceBecomes
    <2> QED
      BY <2>1 DEF WordsWritten, WordsInv
  <1>4. CASE AliasNext
    BY <1>1, <1>2, <1>4 DEF AliasNext
  <1>5. CASE ProtectNext
    BY <1>3, <1>5 DEF ProtectNext
  <1>6. CASE ThreadNext
    <2>1. failed' = failed /\ memory_used' \in {memory_used, Plus(memory_used, 1)}
      BY <1>6 DEF ThreadNext, AllocateThreadLocalStorage, AllocateSlot, AllocateTlsPage,
                  FreeThreadLocalStorage
    <2> QED
      BY <2>1 DEF WordsWritten, WordsInv
  <1>7. CASE BufferNext
    <2>1. memory_used' = memory_used /\ failed' \in BOOLEAN
      BY <1>7 DEF BufferNext, MapBuffer, UnmapBuffer
    <2> QED
      BY <2>1 DEF WordsWritten
  <1>8. CASE Terminate
    <2>1. memory_used' = 0 /\ failed' \in BOOLEAN
      BY <1>8 DEF Terminate
    <2> QED
      BY <2>1 DEF WordsWritten
  <1> QED
    BY <1>4, <1>5, <1>6, <1>7, <1>8

\* So do those on memory blocks.
LEMMA BlockNextWords ==
    ASSUME MemInv, WordsInv, BlockNext
    PROVE  WordsWritten
  <1>1. ASSUME NEW size \in BlockSizes, NEW perms, CreateBlockInRegion(size, perms)
        PROVE  WordsWritten
    <2>1. memory_used' = Plus(memory_used, size) /\ failed' = failed
      BY <1>1 DEF CreateBlockInRegion
    <2> QED
      BY <2>1, SizeFacts DEF WordsWritten, WordsInv
  <1>2. ASSUME NEW size \in BlockSizes, NEW address, NEW perms, CreateBlockAt(address, size, perms)
        PROVE  WordsWritten
    <2>1. failed' = failed /\ memory_used' \in {memory_used, Plus(memory_used, -size)}
      BY <1>2 DEF CreateBlockAt
    <2>2. -size \in Int
      BY SizeFacts
    <2> QED
      BY <2>1, <2>2 DEF WordsWritten, WordsInv
  <1>3. CASE DestroyBlock
    <2>1. failed' \in BOOLEAN /\ memory_used' \in {memory_used, Plus(memory_used, -block.size)}
      BY <1>3 DEF DestroyBlock
    <2>2. -block.size \in Int
      BY DEF MemInv, BlockOK
    <2> QED
      BY <2>1, <2>2 DEF WordsWritten
  <1>4. ASSUME NEW address, NEW perms, NEW other, MapMemoryBlock(address, perms, other)
        PROVE  WordsWritten
    <2>1. memory_used' = memory_used /\ failed' \in BOOLEAN
      BY <1>4 DEF MapMemoryBlock, SpaceBecomes
    <2> QED
      BY <2>1 DEF WordsWritten
  <1>5. ASSUME NEW address, UnmapMemoryBlock(address)
        PROVE  WordsWritten
    <2>1. memory_used' = memory_used /\ failed' = failed
      BY <1>5 DEF UnmapMemoryBlock, SpaceBecomes
    <2> QED
      BY <2>1 DEF WordsWritten, WordsInv
  <1> QED
    BY <1>1, <1>2, <1>3, <1>4, <1>5 DEF BlockNext

\* Every step keeps the counters in range.
LEMMA WordsStep ==
    ASSUME MemInv, WordsInv, [Next]_vars
    PROVE  WordsInv'
  <1>1. CASE UNCHANGED vars
    BY <1>1 DEF vars, WordsInv
  <1>2. CASE Next
    <2>1. HeapNext \/ FreeNext \/ AliasNext \/ ProtectNext \/ ThreadNext \/ BlockNext \/ BufferNext
          \/ Terminate
      BY <1>2 DEF Next
    <2>2. WordsWritten
      BY <2>1, HeapNextWords, OtherWords, BlockNextWords
    <2>3. memory_used' \in 0 .. PagesOfU32 - 1
      <3>1. memory_used \in 0 .. PagesOfU32 - 1 /\ memory_used \in Int
        BY DEF WordsInv
      <3>2. 0 \in 0 .. PagesOfU32 - 1
        BY PlusFacts
      <3> QED
        BY <2>2, <3>1, <3>2, PlusFacts DEF WordsWritten
    <2>4. calls' \in 0 .. MaxCalls
      <3>1. calls < MaxCalls /\ calls' = calls + 1
        BY <1>2 DEF Next
      <3>2. PICK c \in Nat : c = calls
        BY LayoutAssumption DEF WordsInv
      <3>3. MaxCalls \in Nat
        BY LayoutAssumption
      <3> QED
        BY <3>1, <3>2, <3>3
    <2> QED
      BY <2>2, <2>3, <2>4 DEF WordsInv, WordsWritten
  <1> QED
    BY <1>1, <1>2

\* The invariants imply TypeOK.
LEMMA GoodTypes ==
    ASSUME MemInv, FrameInv, WordsInv
    PROVE  TypeOK
  <1>1. DOMAIN space.vma_map \subseteq Addresses
    BY DEF MemInv, GoodSpace, Tiles
  <1>2. space.page_table \in [Addresses -> PageMemory]
    <2>1. \A p \in Addresses : space.page_table[p] \in PageMemory
      BY DEF FrameInv, OwnedInv, AllBacked
    <2>2. space.page_table \in [Addresses -> Nat \cup {Null}]
      BY DEF MemInv, GoodSpace, Matches
    <2> QED
      BY <2>1, <2>2
  <1>3. free_blocks \subseteq Frames /\ holding_memory \subseteq Frames
        /\ holding_tls_memory \subseteq Frames
    BY DEF FrameInv, DividedInv, Divided
  <1>4. used \in 0 .. RegionSize
    <2>1. PICK k \in Nat : k = Cardinality(free_blocks) /\ k <= RegionSize
      BY <1>3, SomeFrames
    <2>2. used = RegionSize - k
      BY <2>1 DEF FrameInv, CountsInv
    <2> QED
      BY <2>1, <2>2, LayoutFacts
  <1>5. \A i \in DOMAIN tls_slots : tls_slots[i] \subseteq 0 .. SlotsPerPage - 1
    <2>1. \A i \in DOMAIN tls_slots : tls_slots[i] \in SUBSET (0 .. SlotsPerPage - 1)
      BY DEF MemInv, TlsInv
    <2> QED
      BY <2>1
  <1>6. commit \in 0 .. CommitLimit
    BY DEF FrameInv, CountsInv
  <1> QED
    BY <1>1, <1>2, <1>3, <1>4, <1>5, <1>6 DEF WordsInv, TypeOK, PageMemory

(***************************************************************************)
(* The type invariant: with it that memory_used stays a u32 whatever is    *)
(* subtracted from it (process.cpp:  memory_used), and the committed       *)
(* memory within its limit.                                                *)
(***************************************************************************)
THEOREM MemoryTyped == Spec => []TypeOK
  <1>1. Init => MemInv /\ FrameInv /\ WordsInv
    <2>1. ASSUME Init PROVE WordsInv
      <3>1. memory_used = 0 /\ failed = FALSE /\ calls = 0
        BY <2>1 DEF Init
      <3>2. 0 \in 0 .. PagesOfU32 - 1
        BY PlusFacts
      <3>3. 0 \in 0 .. MaxCalls
        BY LayoutAssumption
      <3> QED
        BY <3>1, <3>2, <3>3 DEF WordsInv
    <2> QED
      BY <2>1, MemInit, FrameInit
  <1>2. MemInv /\ FrameInv /\ WordsInv /\ [Next]_vars => (MemInv /\ FrameInv /\ WordsInv)'
    BY MemStep, FrameStep, WordsStep
  <1>3. MemInv /\ FrameInv /\ WordsInv => TypeOK
    BY GoodTypes
  <1> QED
    BY <1>1, <1>2, <1>3, PTL DEF Spec

-----------------------------------------------------------------------------
(***************************************************************************)
(* A range that is free is mapped.                                         *)
(***************************************************************************)
NullRange(pt, from, end) == \A p \in Addresses : from <= p /\ p < end => pt[p] = Null

\* CarveVMA finds a range whose pages are not backed.
LEMMA CarvedIsFree ==
    ASSUME NEW sp, GoodSpace(sp), NEW target \in Nat, NEW size \in Nat,
           CanCarveVMA(sp.vma_map, target, size)
    PROVE  target + size <= MaxAddress /\ NullRange(sp.page_table, target, target + size)
  <1>1. PICK m, pt : m = sp.vma_map /\ pt = sp.page_table
    OBVIOUS
  <1>2. Tiles(m) /\ Matches(m, pt)
    BY <1>1 DEF GoodSpace
  <1>3. PICK v : v = FindVMA(m, target)
    OBVIOUS
  <1>4. target < MaxAddress /\ m[v].backing = Null /\ target + size <= AreaEnd(m, v)
    BY <1>1, <1>3 DEF CanCarveVMA
  <1>5. target \in Addresses
    BY <1>4, LayoutFacts DEF Addresses
  <1>6. v \in DOMAIN m /\ v <= target
    BY <1>2, <1>3, <1>5, FindFacts
  <1>7. /\ v \in Nat /\ m[v].size \in Nat /\ MaxAddress \in Nat
        /\ AreaEnd(m, v) = v + m[v].size /\ AreaEnd(m, v) <= MaxAddress
    BY <1>2, <1>6, AreaFacts
  <1>8. ASSUME NEW p \in Addresses, target <= p, p < target + size PROVE pt[p] = Null
    <2>1. p \in Nat /\ p \in PagesOf(v, m[v].size)
      BY <1>4, <1>6, <1>7, <1>8 DEF Addresses, PagesOf
    <2>2. pt[p] = Backing(m[v], p - v)
      BY <1>2, <1>6, <2>1 DEF Matches
    <2> QED
      BY <1>4, <2>2 DEF Backing
  <1> QED
    BY <1>1, <1>4, <1>7, <1>8 DEF NullRange

\* Pages that are not backed lie in one Free area, as no two of these meet.
LEMMA FreeIsCarved ==
    ASSUME NEW sp, GoodSpace(sp), NEW target \in Nat, NEW size \in Nat, size >= 1,
           target + size <= MaxAddress, NullRange(sp.page_table, target, target + size)
    PROVE  CanCarveVMA(sp.vma_map, target, size)
  <1>1. PICK m, pt : m = sp.vma_map /\ pt = sp.page_table
    OBVIOUS
  <1>2. Tiles(m) /\ FreesMerged(m) /\ Matches(m, pt) /\ NullRange(pt, target, target + size)
    BY <1>1 DEF GoodSpace
  <1>3. target \in Addresses /\ target < MaxAddress
    BY LayoutFacts DEF Addresses
  <1>4. PICK v : v = FindVMA(m, target)
    OBVIOUS
  <1>5. v \in DOMAIN m /\ v <= target /\ target < AreaEnd(m, v)
    BY <1>2, <1>3, <1>4, FindFacts
  <1>6. /\ v \in Nat /\ m[v].size \in Nat /\ MaxAddress \in Nat
        /\ AreaEnd(m, v) = v + m[v].size /\ AreaEnd(m, v) <= MaxAddress
        /\ m[v].backing \in Nat \cup {Null}
    BY <1>2, <1>5, AreaFacts
  <1>7. m[v].backing = Null
    <2>1. target \in PagesOf(v, m[v].size) /\ target - v \in Nat
      BY <1>5, <1>6 DEF PagesOf
    <2>2. pt[target] = Backing(m[v], target - v)
      BY <1>2, <1>5, <2>1 DEF Matches
    <2>3. pt[target] = Null
      BY <1>2, <1>3 DEF NullRange
    <2> QED
      BY <1>6, <2>1, <2>2, <2>3, BackingFacts
  <1>8. target + size <= AreaEnd(m, v)
    <2> SUFFICES ASSUME ~(target + size <= AreaEnd(m, v)) PROVE FALSE
      OBVIOUS
    <2>1. PICK n \in Nat : n = AreaEnd(m, v)
      BY <1>6
    <2>2. target < n /\ n < target + size /\ n < MaxAddress
      BY <1>5, <1>6, <2>1
    <2>3. n \in DOMAIN m
      BY <1>2, <1>5, <2>1, <2>2 DEF Tiles
    <2>4. m[n].backing # Null
      BY <1>2, <1>5, <1>7, <2>1, <2>3 DEF FreesMerged
    <2>5. m[n].size \in Nat /\ m[n].size >= 1 /\ m[n].backing \in Nat \cup {Null}
      BY <1>2, <2>3, AreaFacts
    <2>6. n \in PagesOf(n, m[n].size) /\ n - n = 0 /\ n \in Addresses
      BY <2>2, <2>5, LayoutFacts DEF PagesOf, Addresses
    <2>7. pt[n] = Backing(m[n], 0)
      BY <1>2, <2>3, <2>6 DEF Matches
    <2>8. pt[n] = Null
      BY <1>2, <2>2, <2>6 DEF NullRange
    <2> QED
      BY <2>4, <2>5, <2>7, <2>8, BackingFacts
  <1> QED
    BY <1>1, <1>3, <1>4, <1>7, <1>8 DEF CanCarveVMA

\* MapBackingMemory succeeds where CarveVMA does.
LEMMA CarvedIsMapped ==
    ASSUME NEW sp, NEW target, NEW memory, NEW size, NEW state,
           CanCarveVMA(sp.vma_map, target, size)
    PROVE  MapBackingMemory(sp, target, memory, size, state).ok = TRUE
  BY DEF MapBackingMemory, Replace

\* All went well so far, and the rest of the range is free.
RestFree(s, from, end) == s.ok = TRUE /\ NullRange(s.page_table, from, end)

\* One round of the loop that maps blocks succeeds in a free range.
LEMMA MapBlockDone ==
    ASSUME NEW s, MapOK(s), NEW bk \in BackingBlock, NEW state, NEW perms, NEW end \in Nat,
           s.at + bk.size <= end, end <= MaxAddress, RestFree(s, s.at, end),
           NEW r, r = MapBlock(s, bk, state, perms)
    PROVE  RestFree(r, s.at + bk.size, end)
  <1>1. PICK a \in Nat, size \in Nat, memory \in Nat :
             a = s.at /\ size = bk.size /\ memory = bk.memory /\ size >= 1
    BY DEF MapOK, BackingBlock
  <1>2. PICK mapped : mapped = MapBackingMemory(s, a, memory, size, state)
    OBVIOUS
  <1>3. GoodSpace(s) /\ NullRange(s.page_table, a, a + size)
    BY <1>1, LayoutFacts DEF MapOK, RestFree, NullRange, Addresses
  <1>4. CanCarveVMA(s.vma_map, a, size)
    BY <1>1, <1>3, LayoutFacts, FreeIsCarved
  <1>5. mapped.ok = TRUE
    BY <1>2, <1>4, CarvedIsMapped
  <1>6. PICK done : done = IF mapped.ok THEN Reprotect(mapped, mapped.at, perms) ELSE mapped
    OBVIOUS
  <1>7. done = Reprotect(mapped, mapped.at, perms)
    BY <1>5, <1>6
  <1>8. r = [done EXCEPT !.ok = s.ok /\ mapped.ok, !.at = a + size]
    BY <1>1, <1>2, <1>6 DEF MapBlock
  <1>9. "ok" \in DOMAIN done
    BY <1>7 DEF Reprotect, Replace
  <1>10. r.ok = TRUE
    BY <1>5, <1>8, <1>9 DEF RestFree
  <1>11. BlockEffect(s, bk, state, r)
    BY MapBlockFacts
  <1>12. ASSUME NEW p \in Addresses, a + size <= p, p < end PROVE r.page_table[p] = Null
    <2>1. p \in Nat /\ p \notin PagesOf(a, size) /\ a <= p
      BY <1>12 DEF Addresses, PagesOf
    <2>2. r.page_table[p] = s.page_table[p]
      BY <1>1, <1>11, <2>1 DEF BlockEffect, SameView, PagesMapped
    <2> QED
      BY <1>1, <1>12, <2>1, <2>2 DEF RestFree, NullRange
  <1> QED
    BY <1>1, <1>10, <1>12 DEF RestFree, NullRange

\* Mapping blocks one behind the other succeeds in a range that is free.
LEMMA MapBlocksDone ==
    ASSUME NEW sp, GoodSpace(sp), NEW target \in Nat, NEW blocks \in Seq(BackingBlock),
           NEW size \in Nat, TotalSize(blocks, size), target + size <= MaxAddress,
           NullRange(sp.page_table, target, target + size), NEW state, NEW perms,
           NEW r, r = MapBlocks(sp, target, blocks, state, perms)
    PROVE  r.ok = TRUE
  <1>1. PICK sums : Sums(blocks, sums) /\ sums[Len(blocks)] = size
    BY DEF TotalSize
  <1>2. PICK init : init = [Failure(sp) EXCEPT !.ok = TRUE, !.at = target]
    OBVIOUS
  <1>3. /\ MapOK(init) /\ init.at = target /\ init.ok = TRUE
        /\ init.page_table = sp.page_table /\ init.vma_map = sp.vma_map
    BY <1>2 DEF Failure, GoodSpace, IsResult, MapOK
  <1>4. PICK len \in Nat : len = Len(blocks)
    OBVIOUS
  <1>5. PICK v : /\ v = CHOOSE f : MapLoop(f, init, blocks, state, perms, len)
                 /\ MapLoop(v, init, blocks, state, perms, len)
    BY MapLoopExists
  <1>6. r = v[len]
    BY <1>2, <1>4, <1>5 DEF MapBlocks, MapLoop
  <1>7. \A i \in 0 .. len : v[i] = IF i = 0 THEN init ELSE MapBlock(v[i - 1], blocks[i], state, perms)
    BY <1>5 DEF MapLoop
  <1>8. PICK end \in Nat : end = target + size /\ end <= MaxAddress
    OBVIOUS
  <1> DEFINE T == {n \in Nat : n <= len =>
                     /\ BlocksMapped(sp, target, blocks, sums, state, n, v[n])
                     /\ RestFree(v[n], target + sums[n], end)}
  <1>9. 0 \in T
    <2>1. v[0] = init
      BY <1>4, <1>7
    <2>2. sums[0] = 0 /\ target + 0 = target
      BY <1>1 DEF Sums
    <2>3. BlocksMapped(sp, target, blocks, sums, state, 0, init)
      BY <1>3, <2>2 DEF BlocksMapped, SamePage
    <2>4. RestFree(init, target + sums[0], end)
      BY <1>3, <1>8, <2>2 DEF RestFree
    <2> QED
      BY <2>1, <2>3, <2>4
  <1>10. ASSUME NEW n \in T PROVE n + 1 \in T
    <2>1. n \in Nat /\ n + 1 \in Nat
      OBVIOUS
    <2>2. ASSUME n + 1 <= len
          PROVE  /\ BlocksMapped(sp, target, blocks, sums, state, n + 1, v[n + 1])
                 /\ RestFree(v[n + 1], target + sums[n + 1], end)
      <3>1. PICK s : s = v[n]
        OBVIOUS
      <3>2. /\ BlocksMapped(sp, target, blocks, sums, state, n, s)
            /\ RestFree(s, target + sums[n], end)
        BY <2>1, <2>2, <3>1
      <3>3. /\ n + 1 \in 0 .. len /\ n + 1 # 0 /\ (n + 1) - 1 = n /\ n \in 0 .. Len(blocks) - 1
            /\ n + 1 \in 1 .. Len(blocks) /\ n \in 0 .. Len(blocks) /\ n + 1 \in 0 .. Len(blocks)
        BY <1>4, <2>1, <2>2
      <3>4. PICK bk \in BackingBlock : bk = blocks[n + 1]
        BY <3>3
      <3>5. v[n + 1] = MapBlock(s, bk, state, perms)
        BY <1>7, <3>1, <3>3, <3>4
      <3>6. BlocksMapped(sp, target, blocks, sums, state, n + 1, v[n + 1])
        BY <1>1, <3>2, <3>3, <3>4, <3>5, BlockMapped
      <3>7. sums[n] \in Nat /\ sums[n + 1] \in Nat /\ sums[n + 1] <= size
        BY <1>1, <3>3 DEF Sums
      <3>8. sums[n + 1] = sums[(n + 1) - 1] + blocks[n + 1].size
        BY <1>1, <3>3 DEF Sums
      <3>9. sums[n + 1] = sums[n] + bk.size
        BY <3>3, <3>4, <3>8
      <3>10. bk.size \in Nat
        BY DEF BackingBlock
      <3>11. PICK a \in Nat, b \in Nat, k \in Nat : /\ a = sums[n] /\ b = sums[n + 1] /\ k = bk.size
                                                   /\ b = a + k /\ b <= size
        BY <3>7, <3>9, <3>10
      <3>12. MapOK(s) /\ s.at = target + sums[n]
        BY <3>2 DEF BlocksMapped
      <3>13. MapOK(s) /\ s.at = target + a
        BY <3>11, <3>12
      <3>14. s.at + bk.size <= end /\ s.at + bk.size = target + b
        <4>1. s.at + bk.size = (target + a) + k
          BY <3>11, <3>13
        <4>2. (target + a) + k = target + b
          BY <3>11
        <4>3. target + b <= target + size
          BY <3>11
        <4> QED
          BY <1>8, <4>1, <4>2, <4>3
      <3>15. RestFree(s, s.at, end)
        BY <3>2, <3>11, <3>13
      <3>16. RestFree(v[n + 1], s.at + bk.size, end)
        BY <1>8, <3>5, <3>13, <3>14, <3>15, MapBlockDone
      <3> QED
        BY <3>6, <3>11, <3>14, <3>16
    <2> QED
      BY <2>1, <2>2
  <1>11. T = Nat
    <2> HIDE DEF T
    <2>1. T \subseteq Nat
      BY DEF T
    <2> QED
      BY <1>9, <1>10, <2>1, SetInduction
  <1>12. RestFree(v[len], target + sums[len], end)
    BY <1>11
  <1> QED
    BY <1>6, <1>12 DEF RestFree

-----------------------------------------------------------------------------
(***************************************************************************)
(* Who can fail an ASSERT.                                                 *)
(***************************************************************************)
LEMMA HeapAllocateDone ==
    ASSUME MemInv, FrameInv, NEW target \in HeapBase .. HeapEnd - 1, NEW size \in Sizes, NEW perms,
           HeapAllocate(target, size, perms)
    PROVE  ~failed'
  <1>1. PICK frames : frames = HeapFrames(free_blocks, size)
    OBVIOUS
  <1>2. PICK blocks : blocks = Blocks(frames)
    OBVIOUS
  <1>3. PICK r : r = MapBlocks(space, target, blocks, "Private", perms)
    OBVIOUS
  <1>4. frames # {} /\ CanCarveVMA(space.vma_map, target, size) /\ failed' = ~r.ok
    BY <1>1, <1>2, <1>3 DEF HeapAllocate
  <1>5. size \in Nat /\ target \in Nat /\ GoodSpace(space)
    BY SizeFacts, HeapTarget DEF MemInv
  <1>6. free_blocks \subseteq Frames
    BY DEF FrameInv, DividedInv, Divided
  <1>7. frames \subseteq Frames /\ Cardinality(frames) = size
    BY <1>1, <1>4, <1>5, <1>6, HeapFramesCount
  <1>8. blocks \in Seq(BackingBlock) /\ TotalSize(blocks, size)
    BY <1>2, <1>7, BlocksExact
  <1>9. target + size <= MaxAddress /\ NullRange(space.page_table, target, target + size)
    BY <1>4, <1>5, CarvedIsFree
  <1>10. r.ok = TRUE
    BY <1>3, <1>5, <1>8, <1>9, MapBlocksDone
  <1> QED
    BY <1>4, <1>10

\* The linear heap maps a frame at its own page only, so the page of a free
\* frame is free.
LEMMA FreeFramesUnmapped ==
    ASSUME FrameInv, NEW offset \in Nat, NEW size \in Nat, PagesOf(offset, size) \subseteq free_blocks,
           NEW target, target = LinearBase + offset
    PROVE  NullRange(space.page_table, target, target + size)
  <1>1. PICK st, pt, hold, tls_hold, free :
             /\ st = StateOf(space.vma_map) /\ pt = space.page_table
             /\ hold = holding_memory /\ tls_hold = holding_tls_memory /\ free = free_blocks
    OBVIOUS
  <1>2. Owned(st, pt, hold, tls_hold)
    BY <1>1 DEF FrameInv, OwnedInv
  <1>3. free \cap hold = {} /\ free \subseteq Frames
    BY <1>1 DEF FrameInv, DividedInv, Divided
  <1>4. LinearBase \in Nat
    BY LayoutFacts
  <1>5. ASSUME NEW p \in Addresses, target <= p, p < target + size PROVE pt[p] = Null
    <2>1. p \in Nat
      BY DEF Addresses
    <2>2. p - LinearBase \in PagesOf(offset, size)
      BY <1>4, <1>5, <2>1 DEF PagesOf
    <2>3. PICK f \in Nat : f = p - LinearBase /\ f \in free /\ f \in Frames
      BY <1>1, <1>3, <1>4, <1>5, <2>1, <2>2
    <2>4. p \in LinearArea
      <3>1. f < RegionSize
        BY <2>3, FrameFacts
      <3> QED
        BY <1>4, <2>1, <2>3, <3>1, LayoutFacts DEF LinearArea, PagesOf
    <2>5. CASE pt[p] # Null
      <3>1. st[p] \in OwnStates /\ pt[p] = f
        BY <1>2, <2>3, <2>4, <2>5 DEF Owned
      <3>2. HeldPage(pt, hold, tls_hold, p)
        BY <1>2, <3>1 DEF Owned
      <3>3. f \in hold
        BY <2>4, <3>1, <3>2 DEF HeldPage
      <3> QED
        BY <1>3, <2>3, <3>3
    <2> QED
      BY <2>5
  <1> QED
    BY <1>1, <1>5 DEF NullRange

\* Process::LinearAllocate always finds the pages of its frames free.
LEMMA LinearMapDone ==
    ASSUME MemInv, FrameInv, NEW offset \in Nat, NEW size \in Sizes, NEW perms,
           PagesOf(offset, size) \subseteq free_blocks, LinearMap(offset, size, perms)
    PROVE  ~failed'
  <1>1. PICK target : target = LinearBase + offset
    OBVIOUS
  <1>2. PICK mapped : mapped = MapBackingMemory(space, target, offset, size, "Continuous")
    OBVIOUS
  <1>3. failed' = ~mapped.ok
    BY <1>1, <1>2 DEF LinearMap
  <1>4. size \in Nat /\ size >= 1 /\ GoodSpace(space)
    BY SizeFacts DEF MemInv
  <1>5. PICK base \in Nat, rs \in Nat : base = LinearBase /\ rs = RegionSize /\ base + rs <= MaxAddress
    BY LayoutFacts
  <1>6. offset + size <= rs
    <2>1. PagesOf(offset, size) \subseteq Frames
      BY DEF FrameInv, DividedInv, Divided
    <2> QED
      BY <1>4, <1>5, <2>1, PagesOfFrames
  <1>7. target \in Nat /\ target + size <= MaxAddress
    BY <1>1, <1>4, <1>5, <1>6, LayoutFacts
  <1>8. NullRange(space.page_table, target, target + size)
    BY <1>1, <1>4, FreeFramesUnmapped
  <1>9. CanCarveVMA(space.vma_map, target, size)
    BY <1>4, <1>7, <1>8, FreeIsCarved
  <1>10. mapped.ok = TRUE
    BY <1>2, <1>9, CarvedIsMapped
  <1> QED
    BY <1>3, <1>10

\* No ASSERT of the calls on heap and linear memory fails.
LEMMA HeapNextDone ==
    ASSUME MemInv, FrameInv, HeapNext \/ FreeNext
    PROVE  ~failed'
  <1>1. FrameSet(free_blocks)
    BY DEF MemInv, FramesInv
  <1>2. ASSUME NEW size \in Sizes, NEW perms, LinearAllocate(size, perms) PROVE ~failed'
    <2>1. PICK offset : offset = LinearOffset(free_blocks, size)
      OBVIOUS
    <2>2. /\ offset \in Nat /\ PagesOf(offset, size) \subseteq free_blocks
          /\ LinearMap(offset, size, perms)
      BY <1>1, <1>2, <2>1, LinearOffsetFree DEF LinearAllocate
    <2> QED
      BY <2>2, LinearMapDone
  <1>3. ASSUME NEW size \in Sizes, NEW perms, NEW target \in PagesOf(LinearBase, RegionSize),
               LinearAllocateAt(target, size, perms)
        PROVE  ~failed'
    <2>1. PICK offset : offset = target - LinearBase
      OBVIOUS
    <2>2. /\ offset \in Nat /\ PagesOf(offset, size) \subseteq free_blocks
          /\ LinearMap(offset, size, perms)
      BY <1>3, <2>1, LinearTarget DEF LinearAllocateAt, IsFree, PagesOf
    <2> QED
      BY <2>2, LinearMapDone
  <1>4. CASE HeapNext
    BY <1>2, <1>3, <1>4, HeapAllocateDone DEF HeapNext
  <1>5. CASE FreeNext
    BY <1>5, HeapFreeFrames, LinearFreeFrames DEF FreeNext
  <1> QED
    BY <1>4, <1>5

-----------------------------------------------------------------------------
\* The source of an alias stays backed, and its target was found free.
LEMMA MapDone ==
    ASSUME MemInv, FrameInv, NEW target \in MapTargets, NEW source \in HeapBase .. HeapEnd - 1,
           NEW size \in AliasSizes, NEW perms, NEW privileged,
           Map(target, source, size, perms, privileged)
    PROVE  ~failed'
  <1>1. PICK sperm : sperm = IF privileged THEN {} ELSE ReadWrite
    OBVIOUS
  <1>2. PICK tstate : tstate = IF privileged THEN "AliasCode" ELSE "Alias"
    OBVIOUS
  <1>3. PICK marked : marked = ChangeMemoryState(space, source, size, "Private", ReadWrite,
                                                 SourceState(privileged), sperm)
    OBVIOUS
  <1>4. PICK blocks : blocks = GetBackingBlocksForRange(marked.vma_map, source, size)
    OBVIOUS
  <1>5. PICK mapped : mapped = MapBlocks(marked, target, blocks, tstate, perms)
    OBVIOUS
  <1>6. marked.ok /\ CanCarveVMA(space.vma_map, target, size) /\ failed' = ~mapped.ok
    BY <1>1, <1>2, <1>3, <1>4, <1>5 DEF Map
  <1>7. /\ source \in Addresses /\ size \in Nat /\ size >= 1 /\ source + size <= MaxAddress
        /\ target \in Nat
    <2>1. target \in Addresses
      BY MemoryAssumption
    <2> QED
      BY <2>1, HeapTarget, SizeFacts, LayoutFacts DEF Addresses
  <1>8. SourceState(privileged) \in OwnStates
    BY DEF SourceState, OwnStates
  <1>9. /\ GoodSpace(marked) /\ marked.page_table = space.page_table
        /\ blocks \in Seq(BackingBlock) /\ TotalSize(blocks, size)
    BY <1>3, <1>4, <1>6, <1>7, <1>8, MarkedBlocks
  <1>10. target + size <= MaxAddress /\ NullRange(space.page_table, target, target + size)
    BY <1>6, <1>7, CarvedIsFree DEF MemInv
  <1>11. mapped.ok = TRUE
    BY <1>5, <1>7, <1>9, <1>10, MapBlocksDone
  <1> QED
    BY <1>6, <1>11

\* None of those on aliases, permissions and threads.
LEMMA AliasNextDone ==
    ASSUME MemInv, FrameInv, ~failed, AliasNext \/ ProtectNext \/ ThreadNext
    PROVE  ~failed'
  <1>1. ASSUME NEW target, NEW source, NEW size, NEW perms, NEW privileged,
               Unmap(target, source, size, perms, privileged)
        PROVE  ~failed'
    BY <1>1 DEF Unmap
  <1>2. ASSUME NEW target, NEW size, NEW perms, Protect(target, size, perms)
        PROVE  ~failed'
    BY <1>2 DEF Protect
  <1>3. CASE AliasNext
    BY <1>1, <1>3, MapDone DEF AliasNext
  <1>4. CASE ProtectNext
    BY <1>2, <1>4 DEF ProtectNext
  <1>5. CASE ThreadNext
    BY <1>5 DEF ThreadNext, AllocateThreadLocalStorage, AllocateSlot, AllocateTlsPage,
                FreeThreadLocalStorage
  <1> QED
    BY <1>3, <1>4, <1>5

-----------------------------------------------------------------------------
\* A memory block is mapped where the code found a free range.
LEMMA MapMemoryBlockDone ==
    ASSUME MemInv, FrameInv, NEW address \in SharedTargets \cup {0}, NEW perms, NEW other_perms,
           MapMemoryBlock(address, perms, other_perms)
    PROVE  ~failed'
  <1>1. PICK blocks, size : blocks = block.backing_blocks /\ size = block.size
    OBVIOUS
  <1>2. PICK target : target = IF block.base_address = 0 /\ address = 0
                               THEN OldLinearBase + blocks[1].memory ELSE address
    OBVIOUS
  <1>3. PICK np : np = ConvertPermissions(perms)
    OBVIOUS
  <1>4. PICK mapped : mapped = MapBlocks(space, target, blocks, "Shared", np)
    OBVIOUS
  <1>5. CanCarveVMA(space.vma_map, target, size) /\ failed' = ~mapped.ok /\ block # NoBlock
    BY <1>1, <1>2, <1>3, <1>4 DEF MapMemoryBlock
  <1>6. blocks \in Seq(BackingBlock) /\ size \in Nat /\ TotalSize(blocks, size)
    BY <1>1, <1>5 DEF MemInv, BlockOK, FrameInv, BlockFrames
  <1>7. target \in Nat
    <2>1. CASE block.base_address = 0 /\ address = 0
      <3>1. blocks # <<>>
        BY <1>1, <1>5, <2>1 DEF MemInv, BlockOK
      <3>2. blocks[1] \in BackingBlock
        BY <1>6, <3>1
      <3>3. PICK mem \in Nat : mem = blocks[1].memory
        BY <3>2 DEF BackingBlock
      <3> QED
        BY <1>2, <2>1, <3>3, LayoutFacts
    <2>2. CASE ~(block.base_address = 0 /\ address = 0)
      BY <1>2, <2>2, MemoryAssumption DEF Addresses
    <2> QED
      BY <2>1, <2>2
  <1>8. target + size <= MaxAddress /\ NullRange(space.page_table, target, target + size)
    BY <1>5, <1>6, <1>7, CarvedIsFree DEF MemInv
  <1>9. mapped.ok = TRUE
    BY <1>4, <1>6, <1>7, <1>8, MapBlocksDone DEF MemInv
  <1> QED
    BY <1>5, <1>9

\* None of those on memory blocks.
LEMMA BlockNextDone ==
    ASSUME MemInv, FrameInv, ~failed, BlockNext
    PROVE  ~failed'
  <1>1. ASSUME NEW size, NEW perms, CreateBlockInRegion(size, perms) PROVE ~failed'
    BY <1>1 DEF CreateBlockInRegion
  <1>2. ASSUME NEW size, NEW address, NEW perms, CreateBlockAt(address, size, perms) PROVE ~failed'
    BY <1>2 DEF CreateBlockAt
  <1>3. ASSUME NEW address, UnmapMemoryBlock(address) PROVE ~failed'
    BY <1>3 DEF UnmapMemoryBlock
  <1> QED
    BY <1>1, <1>2, <1>3, DestroyFrames, MapMemoryBlockDone DEF BlockNext

\* At the end of the process its frames, those of its threads and of its block
\* are apart, and none is free.
LEMMA TerminateDone ==
    ASSUME FrameInv, Terminate
    PROVE  ~failed'
  <1>1. PICK hold, tls_hold, blk : /\ hold = holding_memory /\ tls_hold = holding_tls_memory
                                   /\ blk = block.holding
    OBVIOUS
  <1>2. Divided(free_blocks, hold, tls_hold, blk)
    BY <1>1 DEF FrameInv, DividedInv
  <1>3. AreAllocated(hold \cup tls_hold \cup blk)
    BY <1>2 DEF Divided, AreAllocated
  <1>4. hold \cap tls_hold = {} /\ blk \cap (hold \cup tls_hold) = {}
    BY <1>2 DEF Divided
  <1>5. failed' = ~(/\ AreAllocated(hold \cup tls_hold \cup blk)
                    /\ hold \cap tls_hold = {}
                    /\ blk \cap (hold \cup tls_hold) = {})
    BY <1>1 DEF Terminate
  <1> QED
    BY <1>3, <1>4, <1>5

\* A step that fails an ASSERT is one of a buffer.
LEMMA OwnCallsDone ==
    ASSUME MemInv, FrameInv, Next, failed'
    PROVE  BufferNext
  <1>1. /\ ~failed
        /\ \/ HeapNext \/ FreeNext \/ AliasNext \/ ProtectNext \/ ThreadNext \/ BlockNext
           \/ BufferNext \/ Terminate
    BY DEF Next
  <1> QED
    BY <1>1, HeapNextDone, AliasNextDone, BlockNextDone, TerminateDone

(***************************************************************************)
(* No call of the process fails an ASSERT of process.cpp, memory.cpp or    *)
(* shared_memory.cpp, whatever it names and in whatever order, and neither *)
(* does its end: only the buffers of its clients can.                      *)
(***************************************************************************)
THEOREM ProgramFailsNoAssert == Spec => OnlyBuffersFail
  <1>1. Init => MemInv /\ FrameInv
    BY MemInit, FrameInit
  <1>2. MemInv /\ FrameInv /\ [Next]_vars => (MemInv /\ FrameInv)'
    BY MemStep, FrameStep
  <1>3. MemInv /\ FrameInv /\ [Next]_vars => [failed' => BufferNext]_vars
    BY OwnCallsDone
  <1> QED
    BY <1>1, <1>2, <1>3, PTL DEF Spec, OnlyBuffersFail

-----------------------------------------------------------------------------
(***************************************************************************)
(* What backs a page: a call maps pages or unmaps pages, never both, and   *)
(* gives no page other memory.                                             *)
(***************************************************************************)
\* Pages are mapped, and no page loses its memory.
Grows(pt, pt2) == \A p \in Addresses : pt[p] # Null => pt2[p] = pt[p]

\* It only grows, or it only shrinks.
OneWay(sp, sp2) == Grows(sp.page_table, sp2.page_table) \/ Grows(sp2.page_table, sp.page_table)

\* Reprotect leaves the page table alone.
LEMMA ReprotectTable ==
    ASSUME NEW sp, GoodSpace(sp), NEW b \in DOMAIN sp.vma_map, sp.vma_map[b].backing # Null,
           NEW perms, NEW r, r = Reprotect(sp, b, perms)
    PROVE  IsResult(r) /\ r.page_table = sp.page_table
  <1>1. IsResult(r) /\ SameView(sp, r)
    BY ReprotectFacts
  <1> QED
    BY <1>1 DEF SameView

\* So does ChangeMemoryState.
LEMMA ChangeTable ==
    ASSUME NEW sp, GoodSpace(sp), NEW target \in Addresses, NEW size \in Nat,
           NEW es, NEW ep, NEW ns, NEW np,
           NEW r, r = ChangeMemoryState(sp, target, size, es, ep, ns, np)
    PROVE  GoodSpace(r) /\ r.page_table = sp.page_table
  <1>1. ChangeEffect(sp, target, size, es, ns, r)
    BY ChangePages
  <1>2. Rewritten(sp, target, size, r)
    BY ChangeFacts
  <1> QED
    BY <1>1, <1>2 DEF ChangeEffect, Rewritten

\* MapBackingMemory maps only pages that nothing backed.
LEMMA MapGrows ==
    ASSUME NEW sp, GoodSpace(sp), NEW target \in Nat, NEW memory \in Nat, NEW size \in Nat,
           size >= 1, NEW state,
           NEW r, r = MapBackingMemory(sp, target, memory, size, state)
    PROVE  Grows(sp.page_table, r.page_table)
  <1>1. CASE CanCarveVMA(sp.vma_map, target, size)
    <2>1. NullRange(sp.page_table, target, target + size)
      BY <1>1, CarvedIsFree
    <2>2. \A p \in Addresses : r.page_table[p] = sp.page_table[p] \/ p \in PagesOf(target, size)
      BY MapPages DEF SamePage
    <2>3. \A p \in Addresses : p \in PagesOf(target, size) => sp.page_table[p] = Null
      BY <2>1 DEF NullRange, PagesOf, Addresses
    <2> QED
      BY <2>2, <2>3 DEF Grows
  <1>2. CASE ~CanCarveVMA(sp.vma_map, target, size)
    <2>1. r = Failure(sp)
      BY <1>2 DEF MapBackingMemory
    <2> QED
      BY <2>1, FailureFacts DEF SameView, Grows
  <1> QED
    BY <1>1, <1>2

\* So does a round of the loop that maps blocks.
LEMMA BlockGrows ==
    ASSUME NEW s, MapOK(s), NEW bk \in BackingBlock, NEW state, NEW perms,
           NEW r, r = MapBlock(s, bk, state, perms)
    PROVE  Grows(s.page_table, r.page_table)
  <1>1. bk.memory \in Nat /\ bk.size \in Nat /\ bk.size >= 1 /\ s.at \in Nat /\ GoodSpace(s)
    BY DEF BackingBlock, MapOK
  <1>2. PICK mapped : mapped = MapBackingMemory(s, s.at, bk.memory, bk.size, state)
    OBVIOUS
  <1>3. Grows(s.page_table, mapped.page_table)
    BY <1>1, <1>2, MapGrows
  <1>4. PICK done : done = IF mapped.ok THEN Reprotect(mapped, mapped.at, perms) ELSE mapped
    OBVIOUS
  <1>5. /\ GoodSpace(mapped) /\ IsResult(mapped)
        /\ mapped.ok => mapped.at \in DOMAIN mapped.vma_map /\ mapped.vma_map[mapped.at].backing # Null
    BY <1>1, <1>2, MapBackingFacts
  <1>6. IsResult(done) /\ done.page_table = mapped.page_table
    <2>1. CASE mapped.ok
      BY <1>4, <1>5, <2>1, ReprotectTable
    <2>2. CASE ~mapped.ok
      BY <1>4, <1>5, <2>2
    <2> QED
      BY <2>1, <2>2
  <1>7. r = [done EXCEPT !.ok = s.ok /\ mapped.ok, !.at = s.at + bk.size]
    BY <1>2, <1>4 DEF MapBlock
  <1>8. r.page_table = done.page_table
    BY <1>6, <1>7 DEF IsResult
  <1> QED
    BY <1>3, <1>6, <1>8

\* So does the whole loop, however far it comes.
LEMMA BlocksGrow ==
    ASSUME NEW sp, GoodSpace(sp), NEW target \in Nat, NEW blocks \in Seq(BackingBlock),
           NEW state, NEW perms, NEW r, r = MapBlocks(sp, target, blocks, state, perms)
    PROVE  Grows(sp.page_table, r.page_table)
  <1>1. PICK init : init = [Failure(sp) EXCEPT !.ok = TRUE, !.at = target]
    OBVIOUS
  <1>2. MapOK(init) /\ init.page_table = sp.page_table
    BY <1>1 DEF Failure, GoodSpace, IsResult, MapOK
  <1>3. PICK size \in Nat : size = Len(blocks)
    OBVIOUS
  <1>4. PICK v : /\ v = CHOOSE f : MapLoop(f, init, blocks, state, perms, size)
                 /\ MapLoop(v, init, blocks, state, perms, size)
    BY MapLoopExists
  <1>5. r = v[size]
    BY <1>1, <1>3, <1>4 DEF MapBlocks, MapLoop
  <1>6. \A i \in 0 .. size : v[i] = IF i = 0 THEN init ELSE MapBlock(v[i - 1], blocks[i], state, perms)
    BY <1>4 DEF MapLoop
  <1> DEFINE T == {n \in Nat : n <= size => MapOK(v[n]) /\ Grows(sp.page_table, v[n].page_table)}
  <1>7. 0 \in T
    BY <1>2, <1>6 DEF Grows
  <1>8. ASSUME NEW n \in T PROVE n + 1 \in T
    <2>1. n \in Nat /\ n + 1 \in Nat
      OBVIOUS
    <2>2. ASSUME n + 1 <= size
          PROVE  MapOK(v[n + 1]) /\ Grows(sp.page_table, v[n + 1].page_table)
      <3>1. MapOK(v[n]) /\ Grows(sp.page_table, v[n].page_table)
        BY <2>1, <2>2
      <3>2. n + 1 \in 0 .. size /\ n + 1 # 0 /\ (n + 1) - 1 = n /\ n + 1 \in 1 .. size
        BY <2>1, <2>2
      <3>3. v[n + 1] = MapBlock(v[n], blocks[n + 1], state, perms)
        BY <1>6, <3>2
      <3>4. blocks[n + 1] \in BackingBlock
        BY <1>3, <3>2
      <3>5. MapOK(v[n + 1])
        BY <3>1, <3>3, <3>4, MapBlockFacts
      <3>6. Grows(v[n].page_table, v[n + 1].page_table)
        BY <3>1, <3>3, <3>4, BlockGrows
      <3> QED
        BY <3>1, <3>5, <3>6 DEF Grows
    <2> QED
      BY <2>1, <2>2
  <1>9. T = Nat
    <2> HIDE DEF T
    <2>1. T \subseteq Nat
      BY DEF T
    <2> QED
      BY <1>7, <1>8, <2>1, SetInduction
  <1> QED
    BY <1>3, <1>5, <1>9

\* UnmapRange gives no page other memory.
LEMMA UnmapShrinks ==
    ASSUME NEW sp, GoodSpace(sp), NEW target \in Addresses, NEW size \in Nat,
           NEW r, r = UnmapRange(sp, target, size)
    PROVE  Grows(r.page_table, sp.page_table)
  <1>1. UnmapEffect(sp, target, size, r)
    BY UnmapPages
  <1> QED
    BY <1>1 DEF UnmapEffect, SameView, Grows

\* MapBackingMemoryToBase maps only pages that nothing backed.
LEMMA ToBaseGrows ==
    ASSUME NEW sp, GoodSpace(sp), NEW base \in Nat, NEW rs, NEW memory \in Nat,
           NEW size \in Nat, size >= 1, NEW state,
           NEW r, r = MapBackingMemoryToBase(sp, base, rs, memory, size, state)
    PROVE  Grows(sp.page_table, r.page_table)
  <1>1. PICK m : m = sp.vma_map
    OBVIOUS
  <1>2. PICK C : C = {b \in DOMAIN m : /\ m[b].backing = Null
                                       /\ AreaEnd(m, b) > base
                                       /\ AreaEnd(m, b) >= base + size}
    OBVIOUS
  <1>3. PICK target : target = Max({base, Min(C)})
    OBVIOUS
  <1>4. CASE C = {} \/ target + size > base + rs
    <2>1. r = Failure(sp)
      BY <1>1, <1>2, <1>3, <1>4 DEF MapBackingMemoryToBase
    <2> QED
      BY <2>1, FailureFacts DEF SameView, Grows
  <1>5. CASE ~(C = {} \/ target + size > base + rs)
    <2>1. PICK s : s = MapBackingMemory(sp, target, memory, size, state)
      OBVIOUS
    <2>2. r = [s EXCEPT !.at = target]
      BY <1>1, <1>2, <1>3, <1>5, <2>1 DEF MapBackingMemoryToBase
    <2>3. Tiles(m)
      BY <1>1 DEF GoodSpace
    <2>4. C \subseteq Nat /\ C # {}
      BY <1>2, <1>5, <2>3, AreaFacts
    <2>5. PICK low \in Nat : low = Min(C)
      BY <2>4, MinNat
    <2>6. target \in Nat
      <3>1. PICK k \in Nat : k = base + low
        OBVIOUS
      <3>2. {base, low} \subseteq Nat /\ {base, low} # {} /\ \A x \in {base, low} : x <= k
        BY <3>1
      <3>3. Max({base, low}) \in {base, low}
        BY <3>2, MaxNat
      <3> QED
        BY <1>3, <2>5, <3>2, <3>3
    <2>7. IsResult(s)
      BY <2>1, <2>6, MapBackingFacts
    <2>8. r.page_table = s.page_table
      BY <2>2, <2>7 DEF IsResult
    <2> QED
      BY <2>1, <2>6, <2>8, MapGrows
  <1> QED
    BY <1>4, <1>5

\* The calls on heap and linear memory map or unmap.
LEMMA HeapOneWay ==
    ASSUME MemInv, HeapNext \/ FreeNext
    PROVE  OneWay(space, space')
  <1>1. GoodSpace(space) /\ FrameSet(free_blocks)
    BY DEF MemInv, FramesInv
  <1>2. ASSUME NEW target \in HeapBase .. HeapEnd - 1, NEW size \in Sizes, NEW perms,
               HeapAllocate(target, size, perms)
        PROVE  OneWay(space, space')
    <2>1. PICK blocks : blocks = Blocks(HeapFrames(free_blocks, size))
      OBVIOUS
    <2>2. PICK mapped : mapped = MapBlocks(space, target, blocks, "Private", perms)
      OBVIOUS
    <2>3. space' = Space(mapped)
      BY <1>2, <2>1, <2>2 DEF HeapAllocate
    <2>4. blocks \in Seq(BackingBlock)
      BY <1>1, <2>1, HeapFramesFacts, BlocksFacts
    <2>5. Grows(space.page_table, mapped.page_table)
      BY <1>1, <2>2, <2>4, HeapTarget, BlocksGrow
    <2> QED
      BY <2>3, <2>5, SpaceView DEF OneWay
  <1>3. ASSUME NEW offset \in Nat, NEW size \in Sizes, NEW perms, LinearMap(offset, size, perms)
        PROVE  OneWay(space, space')
    <2>1. PICK target \in Nat : target = LinearBase + offset
      BY LayoutFacts
    <2>2. PICK mapped : mapped = MapBackingMemory(space, target, offset, size, "Continuous")
      OBVIOUS
    <2>3. space' = IF mapped.ok THEN Space(Reprotect(mapped, mapped.at, perms)) ELSE space
      BY <1>3, <2>1, <2>2 DEF LinearMap
    <2>4. size \in Nat /\ size >= 1
      BY SizeFacts
    <2>5. Grows(space.page_table, mapped.page_table)
      BY <1>1, <2>2, <2>4, MapGrows
    <2>6. CASE mapped.ok
      <3>1. PICK done : done = Reprotect(mapped, mapped.at, perms)
        OBVIOUS
      <3>2. /\ GoodSpace(mapped)
            /\ mapped.at \in DOMAIN mapped.vma_map /\ mapped.vma_map[mapped.at].backing # Null
        BY <1>1, <2>2, <2>4, <2>6, MapBackingFacts
      <3>3. done.page_table = mapped.page_table
        BY <3>1, <3>2, ReprotectTable
      <3> QED
        BY <2>3, <2>5, <2>6, <3>1, <3>3, SpaceView DEF OneWay
    <2>7. CASE ~mapped.ok
      BY <2>3, <2>7 DEF OneWay, Grows
    <2> QED
      BY <2>6, <2>7
  <1>4. ASSUME NEW size \in Sizes, NEW target \in Addresses, space' = Space(UnmapRange(space, target, size))
        PROVE  OneWay(space, space')
    <2>1. PICK r : r = UnmapRange(space, target, size)
      OBVIOUS
    <2>2. Grows(r.page_table, space.page_table)
      BY <1>1, <2>1, SizeFacts, UnmapShrinks
    <2> QED
      BY <1>4, <2>1, <2>2, SpaceView DEF OneWay
  <1>5. CASE HeapNext
    <2>1. ASSUME NEW size \in Sizes, NEW perms, LinearAllocate(size, perms)
          PROVE  OneWay(space, space')
      BY <1>1, <1>3, <2>1, LinearOffsetFacts DEF LinearAllocate
    <2>2. ASSUME NEW size \in Sizes, NEW perms, NEW target \in PagesOf(LinearBase, RegionSize),
                 LinearAllocateAt(target, size, perms)
          PROVE  OneWay(space, space')
      BY <1>3, <2>2, LinearTarget DEF LinearAllocateAt
    <2> QED
      BY <1>2, <1>5, <2>1, <2>2 DEF HeapNext
  <1>6. CASE FreeNext
    <2>1. PICK size \in Sizes, target \in Addresses : space' = Space(UnmapRange(space, target, size))
      BY <1>6, HeapTarget, LinearTarget DEF FreeNext, HeapFree, LinearFree
    <2> QED
      BY <1>4, <2>1
  <1> QED
    BY <1>5, <1>6

\* So do those on aliases; those on permissions do neither.
LEMMA AliasOneWay ==
    ASSUME MemInv, AliasNext \/ ProtectNext
    PROVE  OneWay(space, space')
  <1>1. GoodSpace(space)
    BY DEF MemInv
  <1>2. ASSUME NEW target \in MapTargets, NEW source \in HeapBase .. HeapEnd - 1,
               NEW size \in AliasSizes, NEW perms, NEW privileged,
               Map(target, source, size, perms, privileged)
        PROVE  OneWay(space, space')
    <2>1. PICK sperm : sperm = IF privileged THEN {} ELSE ReadWrite
      OBVIOUS
    <2>2. PICK tstate : tstate = IF privileged THEN "AliasCode" ELSE "Alias"
      OBVIOUS
    <2>3. PICK marked : marked = ChangeMemoryState(space, source, size, "Private", ReadWrite,
                                                   SourceState(privileged), sperm)
      OBVIOUS
    <2>4. PICK blocks : blocks = GetBackingBlocksForRange(marked.vma_map, source, size)
      OBVIOUS
    <2>5. PICK mapped : mapped = MapBlocks(marked, target, blocks, tstate, perms)
      OBVIOUS
    <2>6. marked.ok /\ space' = Space(mapped)
      BY <1>2, <2>1, <2>2, <2>3, <2>4, <2>5 DEF Map, SpaceBecomes
    <2>7. /\ source \in Addresses /\ size \in Nat /\ size >= 1 /\ source + size <= MaxAddress
          /\ target \in Nat
      <3>1. target \in Addresses
        BY MemoryAssumption
      <3> QED
        BY <3>1, HeapTarget, SizeFacts, LayoutFacts DEF Addresses
    <2>8. ChangeEffect(space, source, size, "Private", SourceState(privileged), marked)
      BY <1>1, <2>3, <2>7, ChangePages
    <2>9. /\ marked.page_table = space.page_table
          /\ RangeBacked(marked.page_table, source, source + size)
      BY <2>6, <2>8 DEF ChangeEffect
    <2>10. GoodSpace(marked)
      BY <1>1, <2>3, <2>7, ChangeFacts DEF Rewritten
    <2>11. blocks \in Seq(BackingBlock)
      BY <2>4, <2>7, <2>9, <2>10, BackingBlocksFacts
    <2>12. Grows(marked.page_table, mapped.page_table)
      BY <2>5, <2>7, <2>10, <2>11, BlocksGrow
    <2> QED
      BY <2>6, <2>9, <2>12, SpaceView DEF OneWay
  <1>3. ASSUME NEW target \in UnmapTargets, NEW source \in HeapBase .. HeapEnd - 1,
               NEW size \in AliasSizes, NEW perms, NEW privileged,
               Unmap(target, source, size, perms, privileged)
        PROVE  OneWay(space, space')
    <2>1. PICK unmapped : unmapped = UnmapRange(space, target, size)
      OBVIOUS
    <2>2. PICK restored : restored = ChangeMemoryState(unmapped, source, size,
                                         SourceState(privileged), {}, "Private", perms)
      OBVIOUS
    <2>3. space' = Space(restored)
      BY <1>3, <2>1, <2>2 DEF Unmap, SpaceBecomes
    <2>4. source \in Addresses /\ size \in Nat /\ target \in Addresses
      BY HeapTarget, SizeFacts, MemoryAssumption
    <2>5. GoodSpace(unmapped) /\ Grows(unmapped.page_table, space.page_table)
      BY <1>1, <2>1, <2>4, UnmapFacts, UnmapShrinks
    <2>6. restored.page_table = unmapped.page_table
      BY <2>2, <2>4, <2>5, ChangeTable
    <2> QED
      BY <2>3, <2>5, <2>6, SpaceView DEF OneWay
  <1>4. ASSUME NEW target \in HeapBase .. HeapEnd - 1, NEW size \in Sizes, NEW perms,
               Protect(target, size, perms)
        PROVE  OneWay(space, space')
    <2>1. PICK r : r = ReprotectRange(space, target, size, perms)
      OBVIOUS
    <2>2. space' = Space(r)
      BY <1>4, <2>1 DEF Protect, SpaceBecomes
    <2>3. r.page_table = space.page_table
      BY <1>1, <2>1, HeapTarget, SizeFacts, ReprotectPages
    <2> QED
      BY <2>2, <2>3, SpaceView DEF OneWay, Grows
  <1>5. CASE AliasNext
    BY <1>2, <1>3, <1>5 DEF AliasNext
  <1>6. CASE ProtectNext
    BY <1>4, <1>6 DEF ProtectNext
  <1> QED
    BY <1>5, <1>6

\* So do those on threads.
LEMMA ThreadOneWay ==
    ASSUME MemInv, ThreadNext
    PROVE  OneWay(space, space')
  <1>1. CASE AllocateTlsPage
    <2>1. PICK offset : offset = LinearOffset(free_blocks, 1)
      OBVIOUS
    <2>2. offset \in Nat
      BY <1>1, <2>1, LinearOffsetFacts DEF MemInv, FramesInv, AllocateTlsPage
    <2>3. Len(tls_slots) \in Nat
      BY DEF MemInv, TlsInv
    <2>4. PICK target \in Nat : target = TlsBase + Len(tls_slots)
      BY <2>3, LayoutFacts
    <2>5. PICK r : r = MapBackingMemory(space, target, offset, 1, "Locked")
      OBVIOUS
    <2>6. space' = Space(r)
      BY <1>1, <2>1, <2>4, <2>5 DEF AllocateTlsPage
    <2>7. GoodSpace(space)
      BY DEF MemInv
    <2>8. Grows(space.page_table, r.page_table)
      BY <2>2, <2>4, <2>5, <2>7, MapGrows
    <2> QED
      BY <2>6, <2>8, SpaceView DEF OneWay
  <1>2. CASE UNCHANGED space
    BY <1>2 DEF OneWay, Grows
  <1> QED
    BY <1>1, <1>2 DEF ThreadNext, AllocateThreadLocalStorage, AllocateSlot, FreeThreadLocalStorage

\* So do those on memory blocks.
LEMMA BlockOneWay ==
    ASSUME MemInv, BlockNext
    PROVE  OneWay(space, space')
  <1>1. GoodSpace(space)
    BY DEF MemInv
  <1>2. ASSUME UNCHANGED space PROVE OneWay(space, space')
    BY <1>2 DEF OneWay, Grows
  <1>3. ASSUME NEW target \in Addresses, NEW size \in Nat, NEW es, NEW ep, NEW ns, NEW np,
               space' = Space(ChangeMemoryState(space, target, size, es, ep, ns, np))
        PROVE  OneWay(space, space')
    <2>1. PICK r : r = ChangeMemoryState(space, target, size, es, ep, ns, np)
      OBVIOUS
    <2>2. r.page_table = space.page_table
      BY <1>1, <2>1, ChangeTable
    <2> QED
      BY <1>3, <2>1, <2>2, SpaceView DEF OneWay, Grows
  <1>4. ASSUME NEW address \in HeapBase .. HeapEnd - 1, NEW size \in BlockSizes, NEW perms,
               CreateBlockAt(address, size, perms)
        PROVE  OneWay(space, space')
    <2>1. \/ UNCHANGED space
          \/ space' = Space(ChangeMemoryState(space, address, size, "Private", ReadWrite, "Locked",
                                              ConvertPermissions(perms)))
      BY <1>4 DEF CreateBlockAt
    <2>2. address \in Addresses /\ size \in Nat
      BY HeapTarget, SizeFacts
    <2> QED
      BY <1>2, <1>3, <2>1, <2>2
  <1>5. CASE DestroyBlock
    <2>1. \/ UNCHANGED space
          \/ space' = Space(ChangeMemoryState(space, block.base_address, block.size, "Locked", {},
                                              "Private", ReadWrite))
      BY <1>5 DEF DestroyBlock
    <2>2. block.base_address \in Addresses /\ block.size \in Nat
      BY DEF MemInv, BlockOK
    <2> QED
      BY <1>2, <1>3, <2>1, <2>2
  <1>6. ASSUME NEW address \in SharedTargets \cup {0}, NEW perms, NEW other_perms,
               MapMemoryBlock(address, perms, other_perms)
        PROVE  OneWay(space, space')
    <2>1. PICK blocks : blocks = block.backing_blocks
      OBVIOUS
    <2>2. PICK target : target = IF block.base_address = 0 /\ address = 0
                                 THEN OldLinearBase + blocks[1].memory ELSE address
      OBVIOUS
    <2>3. PICK np : np = ConvertPermissions(perms)
      OBVIOUS
    <2>4. PICK mapped : mapped = MapBlocks(space, target, blocks, "Shared", np)
      OBVIOUS
    <2>5. space' = Space(mapped) /\ block # NoBlock
      BY <1>6, <2>1, <2>2, <2>3, <2>4 DEF MapMemoryBlock, SpaceBecomes
    <2>6. blocks \in Seq(BackingBlock)
      BY <2>1 DEF MemInv, BlockOK
    <2>7. target \in Nat
      <3>1. CASE block.base_address = 0 /\ address = 0
        <4>1. blocks # <<>>
          BY <2>1, <2>5, <3>1 DEF MemInv, BlockOK
        <4>2. blocks[1] \in BackingBlock
          BY <2>6, <4>1
        <4>3. blocks[1].memory \in Nat
          BY <4>2 DEF BackingBlock
        <4> QED
          BY <2>2, <3>1, <4>3, LayoutFacts
      <3>2. CASE ~(block.base_address = 0 /\ address = 0)
        <4>1. address \in Nat
          BY MemoryAssumption DEF Addresses
        <4> QED
          BY <2>2, <3>2, <4>1
      <3> QED
        BY <3>1, <3>2
    <2>8. Grows(space.page_table, mapped.page_table)
      BY <1>1, <2>4, <2>6, <2>7, BlocksGrow
    <2> QED
      BY <2>5, <2>8, SpaceView DEF OneWay
  <1>7. ASSUME NEW address \in UnmapTargets, UnmapMemoryBlock(address)
        PROVE  OneWay(space, space')
    <2>1. PICK r : r = UnmapRange(space, address, block.size)
      OBVIOUS
    <2>2. space' = Space(r)
      BY <1>7, <2>1 DEF UnmapMemoryBlock, SpaceBecomes
    <2>3. address \in Addresses /\ block.size \in Nat
      BY MemoryAssumption DEF MemInv, BlockOK
    <2>4. Grows(r.page_table, space.page_table)
      BY <1>1, <2>1, <2>3, UnmapShrinks
    <2> QED
      BY <2>2, <2>4, SpaceView DEF OneWay
  <1>8. ASSUME NEW size, NEW perms, CreateBlockInRegion(size, perms)
        PROVE  OneWay(space, space')
    BY <1>2, <1>8 DEF CreateBlockInRegion
  <1> QED
    BY <1>4, <1>5, <1>6, <1>7, <1>8 DEF BlockNext

\* So do those on buffers.
LEMMA BufferOneWay ==
    ASSUME MemInv, BufferNext
    PROVE  OneWay(space, space')
  <1>1. GoodSpace(space)
    BY DEF MemInv
  <1>2. ASSUME NEW num_pages \in BufferSizes, MapBuffer(num_pages)
        PROVE  OneWay(space, space')
    <2>1. PICK id : id = Min((1 .. MaxBuffers + 1) \ {b.id : b \in buffers})
      OBVIOUS
    <2>2. PICK size : size = num_pages + 2
      OBVIOUS
    <2>3. PICK mapped : mapped = MapBackingMemoryToBase(space, IpcBase, IpcSize, BufferMemory(id), size, "Shared")
      OBVIOUS
    <2>4. PICK low : low = ChangeMemoryState(mapped, mapped.at, 1, "Shared", ReadWrite, "Reserved", {})
      OBVIOUS
    <2>5. PICK high : high = ChangeMemoryState(low, mapped.at + size - 1, 1, "Shared", ReadWrite,
                                               "Reserved", {})
      OBVIOUS
    <2>6. Cardinality(buffers) < MaxBuffers
      BY <1>2 DEF MapBuffer
    <2>7. (mapped.ok /\ space' = Space(high)) \/ UNCHANGED space
      BY <1>2, <2>1, <2>2, <2>3, <2>4, <2>5 DEF MapBuffer
    <2>8. size \in Nat /\ size >= 2
      BY <2>2, SizeFacts
    <2>9. id \in Nat
      BY <2>1, <2>6, BufferId
    <2>10. PICK memory \in Nat : memory = BufferMemory(id)
      BY <2>9 DEF BufferMemory
    <2>11. mapped = MapBackingMemoryToBase(space, IpcBase, IpcSize, memory, size, "Shared")
      BY <2>3, <2>10
    <2>12. IpcBase \in Nat
      BY LayoutFacts
    <2>13. /\ GoodSpace(mapped) /\ Grows(space.page_table, mapped.page_table)
           /\ mapped.ok => mapped.at \in Nat /\ mapped.at + size <= MaxAddress
      BY <1>1, <2>8, <2>11, <2>12, MapToBaseFacts, ToBaseGrows
    <2>14. CASE mapped.ok /\ space' = Space(high)
      <3>1. PICK first \in Addresses, last \in Addresses :
                 first = mapped.at /\ last = mapped.at + size - 1
        BY <2>8, <2>13, <2>14, LayoutFacts DEF Addresses
      <3>2. GoodSpace(low) /\ low.page_table = mapped.page_table
        BY <2>4, <2>13, <2>14, <3>1, ChangeTable
      <3>3. high = ChangeMemoryState(low, last, 1, "Shared", ReadWrite, "Reserved", {})
        BY <2>5, <3>1
      <3>4. high.page_table = low.page_table
        BY <3>2, <3>3, ChangeTable
      <3> QED
        BY <2>13, <2>14, <3>2, <3>4, SpaceView DEF OneWay
    <2>15. CASE UNCHANGED space
      BY <2>15 DEF OneWay, Grows
    <2> QED
      BY <2>7, <2>14, <2>15
  <1>3. ASSUME NEW buffer \in buffers, UnmapBuffer(buffer)
        PROVE  OneWay(space, space')
    <2>1. PICK r : r = UnmapRange(space, buffer.at - 1, buffer.size + 2)
      OBVIOUS
    <2>2. space' = Space(r)
      BY <1>3, <2>1 DEF UnmapBuffer
    <2>3. buffer.at - 1 \in Addresses /\ buffer.size + 2 \in Nat
      BY DEF MemInv, BuffersInv
    <2>4. Grows(r.page_table, space.page_table)
      BY <1>1, <2>1, <2>3, UnmapShrinks
    <2> QED
      BY <2>2, <2>4, SpaceView DEF OneWay
  <1> QED
    BY <1>2, <1>3 DEF BufferNext

-----------------------------------------------------------------------------
\* PageMap's SameMemory, and its classes of steps with memory: what is gained
\* and what is lost never come together.
MapsOrUnmaps(old, new) ==
    /\ PageMapSpec!SameMemory(old, new)
    /\ \/ PageMapSpec!Change(old, new).gained = {}
       \/ PageMapSpec!Change(old, new).lost = {}

\* What holds of the page table holds of the pages as PageMap sees them.
LEMMA ViewOneWay ==
    ASSUME NEW old, NEW new, NEW pt, NEW pt2,
           \A p \in Addresses : old[p].backing = pt[p] /\ new[p].backing = pt2[p],
           Grows(pt, pt2) \/ Grows(pt2, pt)
    PROVE  MapsOrUnmaps(old, new)
  <1>1. PageMapSpec!Pages = Addresses
    BY DEF PageMapSpec!Pages, Addresses
  <1>2. PageMapSpec!SameMemory(old, new)
    BY <1>1 DEF PageMapSpec!SameMemory, Grows
  <1>3. CASE Grows(pt, pt2)
    <2>1. PageMapSpec!Change(old, new).lost = {}
      BY <1>1, <1>3 DEF PageMapSpec!Change, Grows
    <2> QED
      BY <1>2, <2>1 DEF MapsOrUnmaps
  <1>4. CASE Grows(pt2, pt)
    <2>1. PageMapSpec!Change(old, new).gained = {}
      BY <1>1, <1>4 DEF PageMapSpec!Change, Grows
    <2> QED
      BY <1>2, <2>1 DEF MapsOrUnmaps
  <1> QED
    BY <1>3, <1>4

\* Every step but the end of the process maps or unmaps.
LEMMA NextOneWay ==
    ASSUME MemInv, Next, ~Terminate
    PROVE  MapsOrUnmaps(PageView, PageView')
  <1>1. HeapNext \/ FreeNext \/ AliasNext \/ ProtectNext \/ ThreadNext \/ BlockNext \/ BufferNext
    BY DEF Next
  <1>2. OneWay(space, space')
    BY <1>1, HeapOneWay, AliasOneWay, ThreadOneWay, BlockOneWay, BufferOneWay
  <1>3. MemInv'
    BY MemStep
  <1>4. VMAsExact
    BY GoodExact DEF MemInv
  <1>5. VMAsExact'
    <2>1. GoodSpace(space')
      BY <1>3 DEF MemInv
    <2> QED
      BY <1>3, GoodExact, PTL DEF MemInv
  <1>6. \A p \in Addresses : PageView[p].backing = space.page_table[p]
    BY <1>4 DEF VMAsExact
  <1>7. \A p \in Addresses : PageView'[p].backing = space'.page_table[p]
    BY <1>5 DEF VMAsExact
  <1>8. PICK pt, pt2 : pt = space.page_table /\ pt2 = space'.page_table
    OBVIOUS
  <1>9. PICK old, new : old = PageView /\ new = PageView'
    OBVIOUS
  <1>10. Grows(pt, pt2) \/ Grows(pt2, pt)
    BY <1>2, <1>8 DEF OneWay
  <1>11. \A p \in Addresses : old[p].backing = pt[p] /\ new[p].backing = pt2[p]
    BY <1>6, <1>7, <1>8, <1>9
  <1>12. MapsOrUnmaps(old, new)
    BY <1>10, <1>11, ViewOneWay
  <1> QED
    BY <1>9, <1>12

(***************************************************************************)
(* Of the refinement of PageMap, the part about memory: no call of         *)
(* process.cpp, shared_memory.cpp or ipc.cpp, succeed or fail, puts other  *)
(* memory behind a mapped page, and none both maps and unmaps; only the    *)
(* end of the process, which begins another, is outside of this.           *)
(***************************************************************************)
THEOREM PagesKeepMemory == Spec => [][Terminate \/ MapsOrUnmaps(PageView, PageView')]_vars
  <1>1. Init => MemInv
    BY MemInit
  <1>2. MemInv /\ [Next]_vars => MemInv'
    BY MemStep
  <1>3. MemInv /\ [Next]_vars => [Terminate \/ MapsOrUnmaps(PageView, PageView')]_vars
    BY NextOneWay
  <1> QED
    BY <1>1, <1>2, <1>3, PTL DEF Spec
=============================================================================
