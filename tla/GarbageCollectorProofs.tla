----------------------- MODULE GarbageCollectorProofs -----------------------
(***************************************************************************)
(* Proofs about the garbage collector for every number of cells and every  *)
(* graph of references.                                                    *)
(***************************************************************************)
EXTENDS GarbageCollector, FiniteSetTheorems, TLAPS

-----------------------------------------------------------------------------
(* Reachability                                                            *)

\* Reachable lies in every closed set with the roots.
LEMMA ReachableLeast ==
  ASSUME NEW S \in SUBSET Cells, GcRoots \subseteq S, Closed(S)
  PROVE  Reachable \subseteq S
BY DEF Reachable

\* Reachable is itself closed and contains the roots.
LEMMA ReachableClosed ==
  ASSUME TypeOK
  PROVE  Reachable \subseteq Cells /\ GcRoots \subseteq Reachable /\ Closed(Reachable)
<1>1. GcRoots \subseteq Cells
  BY DEF GcRoots, TypeOK
<1>2. \A c \in Cells : Children(c) \subseteq Cells
  BY GcAssumption DEF Children, TypeOK, Cells, AllCells
<1>3. GcRoots \subseteq Reachable
  BY <1>1 DEF Reachable
<1>4. ASSUME NEW c \in Reachable, NEW d \in Children(c) PROVE d \in Reachable
  <2>1. d \in Cells
    BY <1>2 DEF Reachable
  <2>2. ASSUME NEW S \in SUBSET Cells, GcRoots \subseteq S, Closed(S) PROVE d \in S
    BY <2>2 DEF Reachable, Closed
  <2> QED
    BY <2>1, <2>2 DEF Reachable
<1> QED
  BY <1>3, <1>4 DEF Closed, Reachable

-----------------------------------------------------------------------------
(* The inductive invariant.                                                *)

\* What a collection in progress will not free.
Kept == IF pc = "sweep" THEN live \cap (marked \cup 0 .. at - 1) ELSE live

KeptInv ==
  /\ GcRoots \subseteq Kept
  /\ Closed(Kept)
  /\ wants \subseteq Reachable

MarkInv ==
  /\ pc \in {"roots", "immortals"} =>
       /\ \A c \in marked : Children(c) \subseteq marked \cup todo
       /\ (marked \cup todo) \cap live \subseteq Reachable
  /\ pc = "roots" => (running => roots \subseteq marked \cup todo)
  /\ pc = "immortals" => (running => roots \subseteq marked)
                         /\ immortal \subseteq marked \cup todo
  /\ pc = "sweep" => Kept \subseteq Reachable /\ marked \cap 0 .. at - 1 = {}
  /\ pc \notin {"roots", "immortals"} => todo = {}
  /\ pc \notin {"roots", "immortals", "sweep"} => marked = {}

FreshInv ==
  /\ fresh \cap live = {}
  /\ pc = "idle" => fresh = {} /\ wants = {}
  /\ pc = "grow" => freelist = <<>>
  /\ pc \in {"idle", "init"} => freelist # <<>>

GcInv == TypeOK /\ FreelistExact /\ FreshInv /\ KeptInv /\ MarkInv

\* The invariant keeps every reachable cell.
LEMMA ReachableKept ==
  ASSUME TypeOK, KeptInv
  PROVE  Reachable \subseteq Kept /\ Reachable \subseteq live
<1>1. Kept \subseteq live /\ Kept \in SUBSET Cells
  BY DEF Kept, TypeOK
<1>2. Reachable \subseteq Kept
  BY <1>1, ReachableLeast DEF KeptInv
<1> QED
  BY <1>1, <1>2

\* A step that keeps the roots, and the references out of a closed set K with
\* the roots, keeps every reachable cell reachable.
LEMMA ReachableGrows ==
  ASSUME TypeOK, NEW K \in SUBSET Cells, GcRoots \subseteq K, Closed(K),
         Cells \subseteq Cells', GcRoots \subseteq GcRoots',
         \A c \in K : Children(c) \subseteq Children(c)'
  PROVE  Reachable \subseteq Reachable'
<1> SUFFICES ASSUME NEW S \in SUBSET Cells', GcRoots' \subseteq S, Closed(S)'
             PROVE  Reachable \subseteq S
  <2>1. Reachable \subseteq Cells'
    BY DEF Reachable
  <2> QED
    BY <2>1 DEF Reachable
<1>1. GcRoots \subseteq S \cap K
  OBVIOUS
<1>2. Closed(S \cap K)
  BY DEF Closed
<1> QED
  BY <1>1, <1>2, ReachableLeast

-----------------------------------------------------------------------------
(* Types                                                                   *)

\* The cells add_heap puts on the list.
LEMMA AddedCellsType ==
  ASSUME NEW from \in Nat, NEW n \in Nat
  PROVE  /\ AddedCells(from, n) \in Seq(from .. from + n - 1)
         /\ Len(AddedCells(from, n)) = n
         /\ \A i \in 1 .. n : AddedCells(from, n)[i] = from + n - i
BY DEF AddedCells

\* The initial state is well typed.
LEMMA InitType == Init => TypeOK
<1> SUFFICES ASSUME Init PROVE TypeOK
  OBVIOUS
<1>1. AddedCells(0, size) \in Seq(0 .. size - 1)
  BY AddedCellsType, GcAssumption DEF Init
<1>2. freelist \in Seq(Cells)
  BY <1>1 DEF Init, Cells
<1>3. size \in 1 .. MaxCells /\ at \in 0 .. size
  BY GcAssumption DEF Init
<1> QED
  BY <1>2, <1>3 DEF Init, TypeOK

\* Every step of allocate_cell keeps the types.
LEMMA AllocateType == TypeOK /\ FreshInv /\ Allocate => TypeOK'
<1> SUFFICES ASSUME TypeOK, FreshInv, Allocate PROVE TypeOK'
  OBVIOUS
<1> USE DEF TypeOK, mutatorVars, heapVars, Cells
<1>a. \A c \in Cells : c \in AllCells /\ Children(c) \subseteq Cells
  BY GcAssumption DEF Children, AllCells
<1>1. ASSUME NEW ws \in SUBSET Cells, Take(ws) PROVE TypeOK'
  <2>1. freelist # <<>>
    BY <1>1 DEF Take, FreshInv
  <2>2. Head(freelist) \in Cells /\ Tail(freelist) \in Seq(Cells)
    BY <2>1
  <2> QED
    BY <1>1, <2>2 DEF Take
<1>2. CASE MarkRoots
  BY <1>2 DEF MarkRoots
<1>3. CASE MarkImmortals
  BY <1>3 DEF MarkImmortals
<1>4. CASE MarkDone
  BY <1>4 DEF MarkDone
<1>5. ASSUME NEW c \in Cells, Mark(c) PROVE TypeOK'
  BY <1>5, <1>a DEF Mark
<1>6. CASE Sweep
  <2>1. at \in Cells /\ at + 1 \in 0 .. size
    BY <1>6 DEF Sweep
  <2>2. CASE at \notin marked /\ at \in live
    <3>1. <<at>> \o freelist \in Seq(Cells)
      BY <2>1
    <3>2. [refs EXCEPT ![at] = {}] \in [AllCells -> SUBSET Cells]
      OBVIOUS
    <3> QED
      BY <1>6, <2>1, <2>2, <3>1, <3>2 DEF Sweep, Deallocate
  <2>3. CASE ~ (at \notin marked /\ at \in live)
    BY <1>6, <2>1, <2>3 DEF Sweep
  <2> QED
    BY <2>2, <2>3
<1>7. CASE SweepDone
  BY <1>7 DEF SweepDone
<1>8. CASE Grow
  <2>1. 0 .. size - 1 \subseteq 0 .. 2 * size - 1 /\ 2 * size \in 1 .. MaxCells
    BY <1>8, GcAssumption DEF Grow
  <2>2. AddedCells(size, size) \in Seq(size .. size + size - 1)
    BY AddedCellsType
  <2>3. size .. size + size - 1 \subseteq 0 .. 2 * size - 1
    BY GcAssumption
  <2>4. AddedCells(size, size) \in Seq(0 .. 2 * size - 1)
    BY <2>2, <2>3
  <2>5. freelist \in Seq(0 .. 2 * size - 1)
    BY <2>1
  <2>6. freelist' \in Seq(0 .. 2 * size - 1)
    BY <1>8, <2>4, <2>5 DEF Grow
  <2>7. refs' \in [AllCells -> SUBSET (0 .. 2 * size - 1)] /\ at' \in 0 .. 2 * size
    BY <1>8, <2>1 DEF Grow
  <2> QED
    BY <1>8, <2>1, <2>6, <2>7 DEF Grow
<1>9. ASSUME NEW asRoot \in BOOLEAN, InitCell(asRoot) PROVE TypeOK'
  <2>1. refs' \in [AllCells -> SUBSET Cells]
    BY <1>9 DEF InitCell
  <2> QED
    BY <1>9, <2>1 DEF InitCell
<1> QED
  BY <1>1, <1>2, <1>3, <1>4, <1>5, <1>6, <1>7, <1>8, <1>9 DEF Allocate

\* Every step of the program keeps the types.
LEMMA MutateType == TypeOK /\ Mutate => TypeOK'
<1> SUFFICES ASSUME TypeOK, Mutate PROVE TypeOK'
  OBVIOUS
<1> USE DEF TypeOK, mutatorVars, heapVars, Cells
<1>1. ASSUME NEW c \in Cells, AddRoot(c) \/ DropRoot(c) \/ Protect(c) \/ Unprotect(c)
      PROVE  TypeOK'
  BY <1>1 DEF AddRoot, DropRoot, Protect, Unprotect
<1>2. ASSUME NEW c \in Cells, NEW d \in Cells, Link(c, d) \/ Unlink(c, d)
      PROVE  TypeOK'
  BY <1>2 DEF Link, Unlink
<1>3. CASE Stop
  BY <1>3 DEF Stop
<1> QED
  BY <1>1, <1>2, <1>3 DEF Mutate

-----------------------------------------------------------------------------
(* The free list                                                           *)

FreeInv == FreelistExact /\ FreshInv

\* What is left of the values of a sequence without its head.
LEMMA RangeWithout ==
  ASSUME NEW f, NEW t, NEW x,
         \A c : (\E i \in DOMAIN t : t[i] = c)
               <=> (c # x /\ \E i \in DOMAIN f : f[i] = c)
  PROVE  {t[i] : i \in DOMAIN t} = {f[i] : i \in DOMAIN f} \ {x}
OBVIOUS

\* The free list is right when the heaps are made.
LEMMA InitFree == Init => FreeInv
<1> SUFFICES ASSUME Init PROVE FreeInv
  OBVIOUS
<1> DEFINE f == AddedCells(0, size)
<1>1. size \in Nat /\ size > 0
  BY GcAssumption DEF Init
<1>2. /\ f \in Seq(0 .. size - 1)
      /\ Len(f) = size
      /\ \A i \in 1 .. size : f[i] = size - i
  BY <1>1, AddedCellsType
<1>3. DOMAIN f = 1 .. size
  BY <1>1, <1>2
<1>4. \A c \in 0 .. size - 1 : \E i \in 1 .. size : f[i] = c
  <2> TAKE c \in 0 .. size - 1
  <2>1. size - c \in 1 .. size
    BY <1>1
  <2>2. f[size - c] = c
    BY <1>1, <1>2, <2>1
  <2> QED
    BY <2>1, <2>2
<1>5. {f[i] : i \in DOMAIN f} = 0 .. size - 1
  <2>1. \A i \in 1 .. size : f[i] \in 0 .. size - 1
    BY <1>1, <1>2
  <2> HIDE DEF f
  <2> QED
    BY <1>3, <1>4, <2>1
<1>6. \A i, j \in DOMAIN f : f[i] = f[j] => i = j
  BY <1>1, <1>2, <1>3
<1>7. f # <<>>
  BY <1>1, <1>2
<1> HIDE DEF f
<1>8. freelist = f
  BY DEF Init, f
<1>9. FreelistExact
  BY <1>5, <1>6, <1>8 DEF FreelistExact, Init, Dead, Cells
<1> QED
  BY <1>7, <1>8, <1>9 DEF FreeInv, FreshInv, Init

\* Every step keeps the free list exact.
LEMMA NextFree == TypeOK /\ FreeInv /\ [Next]_vars => FreeInv'
<1> SUFFICES ASSUME TypeOK, FreeInv, [Next]_vars PROVE FreeInv'
  OBVIOUS
<1> USE DEF FreeInv, mutatorVars, heapVars
<1>1. ASSUME NEW ws \in SUBSET Cells, Take(ws) PROVE FreeInv'
  <2> DEFINE f == freelist
  <2>1. f # <<>> /\ f \in Seq(Cells) /\ fresh = {}
    BY <1>1 DEF Take, FreshInv, TypeOK
  <2>2. Len(f) \in Nat /\ Len(f) > 0 /\ DOMAIN f = 1 .. Len(f)
    BY <2>1
  <2>3. /\ Tail(f) \in Seq(Cells) /\ Len(Tail(f)) = Len(f) - 1
        /\ DOMAIN Tail(f) = 1 .. Len(f) - 1
        /\ \A i \in 1 .. Len(f) - 1 : Tail(f)[i] = f[i + 1]
        /\ Head(f) = f[1]
    BY <2>1, <2>2
  <2>4. \A i, j \in DOMAIN Tail(f) : Tail(f)[i] = Tail(f)[j] => i = j
    <3> SUFFICES ASSUME NEW i \in 1 .. Len(f) - 1, NEW j \in 1 .. Len(f) - 1,
                        Tail(f)[i] = Tail(f)[j]
                 PROVE  i = j
      BY <2>3
    <3>1. i + 1 \in DOMAIN f /\ j + 1 \in DOMAIN f /\ f[i + 1] = f[j + 1]
      BY <2>2, <2>3
    <3>2. i + 1 = j + 1
      BY <3>1 DEF FreelistExact
    <3> QED
      BY <2>2, <3>2
  <2>5. \A c : (\E i \in DOMAIN Tail(f) : Tail(f)[i] = c)
               <=> (c # f[1] /\ \E i \in DOMAIN f : f[i] = c)
    <3> TAKE c
    <3>1. ASSUME NEW i \in DOMAIN Tail(f), Tail(f)[i] = c
          PROVE  c # f[1] /\ \E k \in DOMAIN f : f[k] = c
      <4>1. i + 1 \in DOMAIN f /\ 1 \in DOMAIN f /\ f[i + 1] = c /\ i + 1 # 1
        BY <2>2, <2>3, <3>1
      <4> QED
        BY <4>1 DEF FreelistExact
    <3>2. ASSUME NEW i \in DOMAIN f, f[i] = c, c # f[1]
          PROVE  \E k \in DOMAIN Tail(f) : Tail(f)[k] = c
      <4>1. i - 1 \in 1 .. Len(f) - 1
        BY <2>2, <3>2
      <4>2. Tail(f)[i - 1] = c
        BY <2>2, <2>3, <3>2, <4>1
      <4> QED
        BY <2>3, <4>1, <4>2
    <3> QED
      BY <3>1, <3>2
  <2>6. {Tail(f)[i] : i \in DOMAIN Tail(f)} = {f[i] : i \in DOMAIN f} \ {f[1]}
    <3> DEFINE t == Tail(f)
    <3>1. \A c : (\E i \in DOMAIN t : t[i] = c) <=> (c # f[1] /\ \E i \in DOMAIN f : f[i] = c)
      BY <2>5
    <3> HIDE DEF t, f
    <3>2. {t[i] : i \in DOMAIN t} = {f[i] : i \in DOMAIN f} \ {f[1]}
      BY <3>1, RangeWithout
    <3> QED
      BY <3>2 DEF t
  <2>7. freelist' = Tail(f) /\ fresh' = {f[1]} /\ live' = live /\ size' = size
    BY <1>1, <2>3 DEF Take
  <2>8. f[1] \in Dead
    BY <2>1, <2>2, <2>3 DEF FreelistExact
  <2>9. FreelistExact'
    <3>1. Dead' = Dead
      BY <2>7 DEF Dead, Cells
    <3>2. {f[i] : i \in DOMAIN f} = Dead
      BY <2>1 DEF FreelistExact
    <3>3. {freelist'[i] : i \in DOMAIN freelist'} = Dead' \ fresh'
      BY <2>6, <2>7, <3>1, <3>2
    <3>4. \A i, j \in DOMAIN freelist' : freelist'[i] = freelist'[j] => i = j
      BY <2>4, <2>7
    <3> QED
      BY <3>3, <3>4 DEF FreelistExact
  <2> QED
    BY <1>1, <2>7, <2>8, <2>9 DEF FreshInv, Take, Dead
<1>2. CASE Sweep
  <2>1. CASE at \notin marked /\ at \in live
    <3> DEFINE f == freelist  g == <<at>> \o freelist
    <3>1. f \in Seq(Cells) /\ at \in Cells /\ Len(f) \in Nat /\ DOMAIN f = 1 .. Len(f)
      BY <2>1 DEF TypeOK
    <3>2. /\ g \in Seq(Cells) /\ Len(g) = Len(f) + 1
          /\ DOMAIN g = 1 .. Len(f) + 1
          /\ g[1] = at
          /\ \A i \in 2 .. Len(f) + 1 : g[i] = f[i - 1]
      BY <3>1
    <3>3. \A i \in DOMAIN f : f[i] # at /\ f[i] = g[i + 1]
      <4>1. \A i \in DOMAIN f : f[i] # at
        BY <2>1 DEF FreelistExact, Dead
      <4> QED
        BY <3>1, <3>2, <4>1
    <3>4. \A i, j \in DOMAIN g : g[i] = g[j] => i = j
      <4> SUFFICES ASSUME NEW i \in 1 .. Len(f) + 1, NEW j \in 1 .. Len(f) + 1, g[i] = g[j]
                   PROVE  i = j
        BY <3>2
      <4>1. CASE i = 1 /\ j # 1
        <5>1. j - 1 \in DOMAIN f /\ g[j] = f[j - 1]
          BY <3>1, <3>2, <4>1
        <5> QED
          BY <3>2, <3>3, <4>1, <5>1
      <4>2. CASE i # 1 /\ j = 1
        <5>1. i - 1 \in DOMAIN f /\ g[i] = f[i - 1]
          BY <3>1, <3>2, <4>2
        <5> QED
          BY <3>2, <3>3, <4>2, <5>1
      <4>3. CASE i # 1 /\ j # 1
        <5>1. i - 1 \in DOMAIN f /\ j - 1 \in DOMAIN f /\ f[i - 1] = f[j - 1]
          BY <3>1, <3>2, <4>3
        <5>2. i - 1 = j - 1
          BY <5>1 DEF FreelistExact
        <5> QED
          BY <3>1, <5>2
      <4> QED
        BY <4>1, <4>2, <4>3
    <3>5. \A c : (\E i \in DOMAIN g : g[i] = c)
                 <=> (c = at \/ \E i \in DOMAIN f : f[i] = c)
      <4> TAKE c
      <4>1. ASSUME NEW i \in DOMAIN g, g[i] = c, c # at PROVE \E k \in DOMAIN f : f[k] = c
        <5>1. i - 1 \in DOMAIN f /\ f[i - 1] = c
          BY <3>1, <3>2, <4>1
        <5> QED
          BY <5>1
      <4>2. ASSUME NEW i \in DOMAIN f, f[i] = c PROVE \E k \in DOMAIN g : g[k] = c
        <5>1. i + 1 \in DOMAIN g /\ g[i + 1] = c
          BY <3>1, <3>2, <3>3, <4>2
        <5> QED
          BY <5>1
      <4>3. 1 \in DOMAIN g /\ g[1] = at
        BY <3>1, <3>2
      <4> QED
        BY <4>1, <4>2, <4>3
    <3>6. {g[i] : i \in DOMAIN g} = {at} \cup {f[i] : i \in DOMAIN f}
      BY <3>5
    <3>7. freelist' = g /\ fresh' = fresh /\ live' = live \ {at} /\ size' = size
          /\ pc' = "sweep" /\ wants' = wants
      BY <1>2, <2>1 DEF Sweep, Deallocate
    <3>8. at \notin fresh
      BY <2>1 DEF FreshInv
    <3>9. FreelistExact'
      <4>1. Dead' = Dead \cup {at}
        BY <3>1, <3>7 DEF Dead, Cells
      <4>2. {f[i] : i \in DOMAIN f} = Dead \ fresh
        BY DEF FreelistExact
      <4>3. {freelist'[i] : i \in DOMAIN freelist'} = Dead' \ fresh'
        BY <3>6, <3>7, <3>8, <4>1, <4>2
      <4>4. \A i, j \in DOMAIN freelist' : freelist'[i] = freelist'[j] => i = j
        BY <3>4, <3>7
      <4> QED
        BY <4>3, <4>4 DEF FreelistExact
    <3> QED
      BY <3>7, <3>9 DEF FreshInv
  <2>2. CASE ~ (at \notin marked /\ at \in live)
    BY <1>2, <2>2 DEF Sweep, FreelistExact, FreshInv, Dead, Cells
  <2> QED
    BY <2>1, <2>2
<1>3. CASE SweepDone
  BY <1>3 DEF SweepDone, FreelistExact, FreshInv, Dead, Cells
<1>4. CASE Grow
  <2> DEFINE f == AddedCells(size, size)
  <2>1. size \in Nat /\ size > 0
    BY GcAssumption DEF TypeOK
  <2>2. /\ f \in Seq(size .. size + size - 1) /\ Len(f) = size
        /\ \A i \in 1 .. size : f[i] = size + size - i
    BY <2>1, AddedCellsType
  <2>3. DOMAIN f = 1 .. size
    BY <2>1, <2>2
  <2>4. \A c \in size .. 2 * size - 1 : \E i \in 1 .. size : f[i] = c
    <3> TAKE c \in size .. 2 * size - 1
    <3>1. 2 * size - c \in 1 .. size
      BY <2>1
    <3>2. f[2 * size - c] = c
      BY <2>1, <2>2, <3>1
    <3> QED
      BY <3>1, <3>2
  <2>5. {f[i] : i \in DOMAIN f} = size .. 2 * size - 1
    <3>1. \A i \in 1 .. size : f[i] \in size .. 2 * size - 1
      BY <2>1, <2>2
    <3> QED
      BY <2>3, <2>4, <3>1
  <2>6. \A i, j \in DOMAIN f : f[i] = f[j] => i = j
    BY <2>1, <2>2, <2>3
  <2>7. f # <<>> /\ f \o <<>> = f
    BY <2>1, <2>2
  <2> HIDE DEF f
  <2>8. freelist = <<>> /\ freelist' = f
    BY <1>4, <2>7 DEF Grow, FreshInv, f
  <2>9. Dead \ fresh = {}
    BY <2>8 DEF FreelistExact
  <2>10. (Dead \ fresh)' = size .. 2 * size - 1
    <3>1. Cells' = Cells \cup (size .. 2 * size - 1) /\ Cells \cap (size .. 2 * size - 1) = {}
      BY <1>4, <2>1 DEF Grow, Cells
    <3>2. live' = live /\ fresh' = fresh /\ live \subseteq Cells /\ fresh \subseteq Cells
      BY <1>4 DEF Grow, TypeOK
    <3> QED
      BY <2>9, <3>1, <3>2 DEF Dead
  <2>11. FreelistExact'
    BY <2>5, <2>6, <2>8, <2>10 DEF FreelistExact
  <2> QED
    BY <1>4, <2>7, <2>8, <2>11 DEF FreshInv, Grow
<1>5. ASSUME NEW asRoot \in BOOLEAN, InitCell(asRoot) PROVE FreeInv'
  BY <1>5 DEF InitCell, FreelistExact, FreshInv, Dead, Cells
<1>6. CASE MarkRoots \/ MarkImmortals \/ MarkDone
  BY <1>6 DEF MarkRoots, MarkImmortals, MarkDone, FreelistExact, FreshInv, Dead, Cells
<1>7. ASSUME NEW c \in Cells, Mark(c) PROVE FreeInv'
  BY <1>7 DEF Mark, FreelistExact, FreshInv, Dead, Cells
<1>8. CASE Mutate
  BY <1>8 DEF Mutate, AddRoot, DropRoot, Protect, Unprotect, Link, Unlink, Stop,
              FreelistExact, FreshInv, Dead, Cells
<1>9. CASE UNCHANGED vars
  BY <1>9 DEF vars, FreelistExact, FreshInv, Dead, Cells
<1> QED
  BY <1>1, <1>2, <1>3, <1>4, <1>5, <1>6, <1>7, <1>8, <1>9 DEF Next, Allocate

-----------------------------------------------------------------------------
(* Marking and sweeping                                                    *)

\* A step that leaves the graph alone leaves what is reachable alone.
LEMMA SameGraph ==
  ASSUME UNCHANGED <<size, live, refs, roots, running, immortal>>
  PROVE  /\ Cells' = Cells /\ GcRoots' = GcRoots /\ Reachable' = Reachable
         /\ \A c : Children(c)' = Children(c)
         /\ \A S : Closed(S)' = Closed(S)
BY DEF Cells, GcRoots, Reachable, Children, Closed

\* A step inside allocate_cell and before the sweep keeps KeptInv.
LEMMA SameKept ==
  ASSUME KeptInv, UNCHANGED <<size, live, refs, roots, running, immortal, wants>>,
         pc # "sweep", pc' # "sweep"
  PROVE  KeptInv'
<1>1. Kept = live /\ Kept' = live
  BY DEF Kept
<1>2. GcRoots' = GcRoots /\ Reachable' = Reachable /\ Closed(live)' = Closed(live)
  BY SameGraph
<1>3. live' = live /\ wants' = wants
  OBVIOUS
<1>4. GcRoots' \subseteq Kept' /\ wants' \subseteq Reachable'
  BY <1>1, <1>2, <1>3 DEF KeptInv
<1>5. Closed(Kept)'
  BY <1>1, <1>2, <1>3 DEF KeptInv, Closed, Children
<1> QED
  BY <1>4, <1>5 DEF KeptInv

\* The mark phase leaves exactly the reachable cells marked, and the sweep
\* frees no other; every step of allocate_cell keeps this.
LEMMA AllocateKept ==
  ASSUME TypeOK, FreeInv, KeptInv, MarkInv, Allocate
  PROVE  KeptInv' /\ MarkInv'
<1> USE DEF mutatorVars, heapVars
<1>a. Reachable \subseteq Kept /\ Reachable \subseteq live
  BY ReachableKept
<1>b. Reachable \subseteq Cells /\ GcRoots \subseteq Reachable /\ Closed(Reachable)
  BY ReachableClosed
<1>1. ASSUME NEW ws \in SUBSET Cells, Take(ws) PROVE KeptInv' /\ MarkInv'
  <2>1. Cells' = Cells /\ GcRoots' = GcRoots /\ Reachable' = Reachable
        /\ Closed(live)' = Closed(live)
    BY <1>1, SameGraph DEF Take
  <2>2. Kept = live /\ Kept' = live /\ wants' = ws /\ ws \subseteq Reachable
    BY <1>1 DEF Take, Kept
  <2>3. live' = live
    BY <1>1 DEF Take
  <2>4. Closed(Kept)'
    BY <1>1, <2>2, <2>3 DEF KeptInv, Closed, Children, Take
  <2>5. KeptInv'
    BY <2>1, <2>2, <2>4 DEF KeptInv
  <2>6. MarkInv'
    BY <1>1 DEF MarkInv, Take
  <2> QED
    BY <2>5, <2>6
<1>2. CASE MarkRoots
  <2>1. KeptInv'
    BY <1>2, SameKept DEF MarkRoots
  <2>2. Reachable' = Reachable /\ marked = {} /\ marked' = {} /\ todo' \subseteq GcRoots
    BY <1>2, SameGraph DEF MarkRoots, MarkInv, GcRoots
  <2>3. MarkInv'
    BY <1>2, <1>b, <2>2 DEF MarkInv, MarkRoots
  <2> QED
    BY <2>1, <2>3
<1>3. CASE MarkImmortals
  <2>1. KeptInv'
    BY <1>3, SameKept DEF MarkImmortals
  <2>2. Reachable' = Reachable /\ \A c : Children(c)' = Children(c)
    BY <1>3, SameGraph DEF MarkImmortals
  <2>3. /\ \A c \in marked : Children(c) \subseteq marked
        /\ marked \cap live \subseteq Reachable
        /\ running => roots \subseteq marked
    BY <1>3 DEF MarkImmortals, MarkInv
  <2>4. immortal \cap live \subseteq Reachable
    BY <1>b DEF GcRoots
  <2>5. /\ pc' = "immortals" /\ todo' = immortal /\ marked' = marked /\ live' = live
        /\ running' = running /\ roots' = roots /\ immortal' = immortal
    BY <1>3 DEF MarkImmortals
  <2>6. MarkInv'
    BY <2>2, <2>3, <2>4, <2>5 DEF MarkInv
  <2> QED
    BY <2>1, <2>6
<1>4. ASSUME NEW c \in Cells, Mark(c) PROVE KeptInv' /\ MarkInv'
  <2>1. KeptInv'
    BY <1>4, SameKept DEF Mark
  <2>2. Reachable' = Reachable /\ \A d : Children(d)' = Children(d)
    BY <1>4, SameGraph DEF Mark
  <2>3. Children(c) \subseteq Reachable
    <3>1. CASE c \in live
      BY <1>4, <1>b, <3>1 DEF Mark, MarkInv, Closed
    <3>2. CASE c \notin live
      BY <3>2 DEF Children
    <3> QED
      BY <3>1, <3>2
  <2>4. /\ pc' = pc /\ live' = live /\ running' = running /\ roots' = roots
        /\ immortal' = immortal /\ pc \in {"roots", "immortals"}
    BY <1>4 DEF Mark
  <2>5. CASE c \in marked
    <3>1. todo' = todo \ {c} /\ marked' = marked /\ todo' \cup marked' = todo \cup marked
      BY <1>4, <2>5 DEF Mark
    <3> QED
      BY <2>1, <2>2, <2>4, <3>1 DEF MarkInv
  <2>6. CASE c \notin marked
    <3>1. /\ todo' = (todo \ {c}) \cup Children(c) /\ marked' = marked \cup {c}
          /\ todo' \cup marked' = todo \cup marked \cup Children(c)
      BY <1>4, <2>6 DEF Mark
    <3>2. \A d \in marked' : Children(d)' \subseteq marked' \cup todo'
      BY <2>2, <2>4, <3>1 DEF MarkInv
    <3>3. (marked' \cup todo') \cap live' \subseteq Reachable'
      BY <2>2, <2>3, <2>4, <3>1 DEF MarkInv
    <3>4. MarkInv'
      BY <2>4, <3>1, <3>2, <3>3 DEF MarkInv
    <3> QED
      BY <2>1, <3>4
  <2> QED
    BY <2>5, <2>6
<1>5. CASE MarkDone
  <2>1. Reachable' = Reachable /\ GcRoots' = GcRoots /\ \A c : Children(c)' = Children(c)
    BY <1>5, SameGraph DEF MarkDone
  <2>2. /\ pc' = "sweep" /\ at' = 0 /\ marked' = marked /\ live' = live /\ wants' = wants
        /\ todo' = {} /\ Kept = live
    BY <1>5 DEF MarkDone, Kept
  <2>3. 0 .. at' - 1 = {}
    BY <2>2
  <2>4. Kept' = live \cap marked
    BY <2>2, <2>3 DEF Kept
  <2>5. GcRoots \subseteq live \cap marked
    BY <1>5, <1>a, <1>b DEF MarkDone, MarkInv, GcRoots
  <2>6. \A c \in live \cap marked : Children(c) \subseteq live \cap marked
    BY <1>5, <2>2 DEF MarkDone, MarkInv, KeptInv, Closed
  <2>7. Closed(Kept)'
    BY <2>1, <2>4, <2>6 DEF Closed
  <2>8. KeptInv'
    BY <2>1, <2>2, <2>4, <2>5, <2>7 DEF KeptInv
  <2>9. live \cap marked \subseteq Reachable
    BY <1>5 DEF MarkDone, MarkInv
  <2>10. MarkInv'
    BY <2>1, <2>2, <2>3, <2>4, <2>9 DEF MarkInv
  <2> QED
    BY <2>8, <2>10
<1>6. CASE Sweep
  <2>0. /\ pc = "sweep" /\ pc' = "sweep" /\ at \in Nat /\ at' = at + 1 /\ size' = size
        /\ marked' = marked \ {at} /\ todo' = todo /\ wants' = wants
        /\ roots' = roots /\ running' = running
    BY <1>6 DEF Sweep, TypeOK
  <2>1. 0 .. at' - 1 = (0 .. at - 1) \cup {at} /\ at \notin 0 .. at - 1
    BY <2>0
  <2>2. Kept' = Kept /\ GcRoots' = GcRoots /\ \A c \in Kept : Children(c)' = Children(c)
    <3>1. CASE at \notin marked /\ at \in live
      <4>1. /\ live' = live \ {at} /\ immortal' = immortal \cup {at}
            /\ refs' = [refs EXCEPT ![at] = {}]
        BY <1>6, <3>1 DEF Sweep, Deallocate
      <4>2. at \notin Kept /\ Kept \subseteq live
        BY <2>0, <2>1, <3>1 DEF Kept
      <4>3. Kept' = Kept
        BY <2>0, <2>1, <3>1, <4>1 DEF Kept
      <4>4. at \notin GcRoots
        BY <4>2 DEF KeptInv
      <4>5. GcRoots' = GcRoots
        BY <2>0, <4>1, <4>4 DEF GcRoots
      <4>6. \A c \in Kept : Children(c)' = Children(c)
        <5> TAKE c \in Kept
        <5>1. c \in live /\ c \in live' /\ c # at /\ c \in AllCells
          BY <4>1, <4>2, GcAssumption DEF TypeOK, Cells, AllCells
        <5>2. refs'[c] = refs[c]
          BY <4>1, <5>1 DEF TypeOK
        <5> QED
          BY <5>1, <5>2 DEF Children
      <4> QED
        BY <4>3, <4>5, <4>6
    <3>2. CASE ~ (at \notin marked /\ at \in live)
      <4>1. live' = live /\ refs' = refs /\ immortal' = immortal
        BY <1>6, <3>2 DEF Sweep
      <4>2. Kept' = Kept
        BY <2>0, <2>1, <3>2, <4>1 DEF Kept
      <4> QED
        BY <2>0, <4>1, <4>2 DEF GcRoots, Children
    <3> QED
      BY <3>1, <3>2
  <2>3. Cells' = Cells /\ Kept \in SUBSET Cells
    BY <2>0 DEF Cells, Kept, TypeOK
  <2>4. Reachable \subseteq Reachable'
    BY <2>2, <2>3, ReachableGrows DEF KeptInv
  <2>5. Closed(Kept)'
    BY <2>2 DEF KeptInv, Closed
  <2>6. KeptInv'
    BY <2>0, <2>2, <2>4, <2>5 DEF KeptInv
  <2>7. marked' \cap (0 .. at' - 1) = {}
    BY <2>0, <2>1 DEF MarkInv
  <2>8. MarkInv'
    BY <2>0, <2>2, <2>4, <2>7 DEF MarkInv
  <2> QED
    BY <2>6, <2>8
<1>7. CASE SweepDone
  <2>1. /\ pc = "sweep" /\ pc' \in {"grow", "init"} /\ at = size /\ live' = live
        /\ marked' = marked /\ wants' = wants /\ todo' = todo
    BY <1>7 DEF SweepDone
  <2>2. Reachable' = Reachable /\ GcRoots' = GcRoots /\ \A c : Children(c)' = Children(c)
    BY <1>7, SameGraph DEF SweepDone
  <2>3. live \subseteq 0 .. at - 1 /\ marked \subseteq 0 .. at - 1
    BY <2>1 DEF TypeOK, Cells
  <2>4. Kept = live /\ Kept' = live /\ marked = {}
    BY <2>1, <2>3 DEF Kept, MarkInv
  <2>5. Closed(Kept)'
    BY <2>2, <2>4 DEF Closed, KeptInv
  <2>6. KeptInv'
    BY <2>1, <2>2, <2>4, <2>5 DEF KeptInv
  <2>7. MarkInv'
    BY <2>1, <2>4 DEF MarkInv
  <2> QED
    BY <2>6, <2>7
<1>8. CASE Grow
  <2>1. /\ pc = "grow" /\ pc' = "init" /\ live' = live /\ refs' = refs
        /\ marked' = marked /\ wants' = wants /\ todo' = todo
        /\ immortal' = immortal /\ roots' = roots /\ running' = running
        /\ size' = 2 * size
    BY <1>8 DEF Grow
  <2>2. Cells \subseteq Cells'
    BY <2>1 DEF Cells, TypeOK
  <2>3. GcRoots' = GcRoots /\ \A c : Children(c)' = Children(c)
    BY <2>1 DEF GcRoots, Children
  <2>4. Kept = live /\ Kept' = live /\ live \in SUBSET Cells
    BY <2>1 DEF Kept, TypeOK
  <2>5. Reachable \subseteq Reachable'
    BY <2>2, <2>3, <2>4, ReachableGrows DEF KeptInv
  <2>6. Closed(Kept)'
    BY <2>3, <2>4 DEF Closed, KeptInv
  <2>7. KeptInv'
    BY <2>1, <2>3, <2>4, <2>5, <2>6 DEF KeptInv
  <2>8. MarkInv'
    BY <2>1 DEF MarkInv
  <2> QED
    BY <2>7, <2>8
<1>9. ASSUME NEW asRoot \in BOOLEAN, InitCell(asRoot) PROVE KeptInv' /\ MarkInv'
  <2>1. /\ pc = "init" /\ pc' = "idle" /\ live' = live \cup fresh
        /\ refs' = [c \in AllCells |-> IF c \in fresh THEN wants ELSE refs[c]]
        /\ wants' = {} /\ todo' = todo /\ running' = running
        /\ marked' = marked \ fresh
    BY <1>9 DEF InitCell
  <2>2. Kept = live /\ Kept' = live \cup fresh
    BY <2>1 DEF Kept
  <2>3. GcRoots' \subseteq live \cup fresh
    BY <1>9, <2>2 DEF InitCell, GcRoots, KeptInv
  <2>4. ASSUME NEW c \in live \cup fresh PROVE Children(c)' \subseteq live \cup fresh
    <3>1. c \in AllCells
      BY GcAssumption DEF TypeOK, Cells, AllCells
    <3>2. Children(c)' = IF c \in fresh THEN wants ELSE refs[c]
      BY <2>1, <3>1 DEF Children
    <3>3. wants \subseteq live
      BY <1>a DEF KeptInv
    <3>4. c \in live => refs[c] \subseteq live
      BY <2>2 DEF KeptInv, Closed, Children
    <3> QED
      BY <3>2, <3>3, <3>4
  <2>5. Closed(Kept)'
    BY <2>2, <2>4 DEF Closed
  <2>6. KeptInv'
    BY <2>1, <2>2, <2>3, <2>5 DEF KeptInv
  <2>7. MarkInv'
    BY <2>1 DEF MarkInv
  <2> QED
    BY <2>6, <2>7
<1> QED
  BY <1>1, <1>2, <1>3, <1>4, <1>5, <1>6, <1>7, <1>8, <1>9 DEF Allocate

\* Between two allocations the program only moves references it can get at.
LEMMA MutateKept ==
  ASSUME TypeOK, FreeInv, KeptInv, MarkInv, Mutate
  PROVE  KeptInv' /\ MarkInv'
<1> USE DEF mutatorVars, heapVars
<1>a. Reachable \subseteq live
  BY ReachableKept
<1>0. /\ pc = "idle" /\ pc' = "idle" /\ live' = live /\ marked' = marked
      /\ wants' = wants /\ todo' = todo
  BY DEF Mutate, AddRoot, DropRoot, Protect, Unprotect, Link, Unlink, Stop
<1>b. Kept = live /\ Kept' = live /\ wants = {}
  BY <1>0 DEF Kept, FreeInv, FreshInv
<1>1. MarkInv'
  BY <1>0 DEF MarkInv
<1>2. ASSUME GcRoots' \subseteq live, \A c \in live : Children(c)' \subseteq live
      PROVE  KeptInv'
  <2>1. Closed(Kept)'
    BY <1>b, <1>2 DEF Closed
  <2> QED
    BY <1>0, <1>b, <1>2, <2>1 DEF KeptInv
<1>c. GcRoots \subseteq live /\ \A c \in live : Children(c) \subseteq live
  BY <1>b DEF KeptInv, Closed
<1>3. ASSUME NEW c \in Cells, AddRoot(c) \/ DropRoot(c) \/ Protect(c) \/ Unprotect(c)
      PROVE  KeptInv'
  <2>1. refs' = refs
    BY <1>3 DEF AddRoot, DropRoot, Protect, Unprotect
  <2>2. \A d \in live : Children(d)' \subseteq live
    BY <1>0, <1>c, <2>1 DEF Children
  <2>3. GcRoots' \subseteq live
    BY <1>3, <1>a, <1>c, <1>0 DEF AddRoot, DropRoot, Protect, Unprotect, GcRoots
  <2> QED
    BY <1>2, <2>2, <2>3
<1>4. ASSUME NEW c \in Cells, NEW d \in Cells, Link(c, d) \/ Unlink(c, d)
      PROVE  KeptInv'
  <2>1. GcRoots' = GcRoots
    BY <1>0, <1>4 DEF Link, Unlink, GcRoots
  <2>2. \A b \in live : refs'[b] \subseteq refs[b] \cup live
    <3>1. live \subseteq AllCells
      BY GcAssumption DEF TypeOK, Cells, AllCells
    <3>2. CASE Link(c, d)
      BY <1>a, <3>1, <3>2 DEF Link, TypeOK
    <3>3. CASE Unlink(c, d)
      BY <3>1, <3>3 DEF Unlink, TypeOK
    <3> QED
      BY <1>4, <3>2, <3>3
  <2>3. \A b \in live : Children(b)' \subseteq live
    BY <1>0, <1>c, <2>2 DEF Children
  <2> QED
    BY <1>2, <1>c, <2>1, <2>3
<1>5. ASSUME Stop PROVE KeptInv'
  <2>1. \A d \in live : Children(d)' \subseteq live
    BY <1>0, <1>5, <1>c DEF Stop, Children
  <2>2. GcRoots' \subseteq live
    BY <1>0, <1>5, <1>c DEF Stop, GcRoots
  <2> QED
    BY <1>2, <2>1, <2>2
<1>6. KeptInv'
  BY <1>3, <1>4, <1>5 DEF Mutate
<1> QED
  BY <1>1, <1>6

-----------------------------------------------------------------------------
(* The theorems                                                            *)

\* GcInv holds in every state the collector and the program can reach.
LEMMA GcInvariant == Spec => []GcInv
<1>1. Init => GcInv
  <2> SUFFICES ASSUME Init PROVE GcInv
    OBVIOUS
  <2>1. TypeOK /\ FreeInv
    BY InitType, InitFree
  <2>2. Kept = {} /\ GcRoots = {} /\ wants = {}
    BY DEF Init, Kept, GcRoots
  <2>3. KeptInv
    BY <2>2 DEF KeptInv, Closed
  <2>4. MarkInv
    BY DEF Init, MarkInv
  <2> QED
    BY <2>1, <2>3, <2>4 DEF GcInv, FreeInv
<1>2. GcInv /\ [Next]_vars => GcInv'
  <2> SUFFICES ASSUME GcInv, [Next]_vars PROVE GcInv'
    OBVIOUS
  <2>1. TypeOK /\ FreeInv /\ KeptInv /\ MarkInv
    BY DEF GcInv, FreeInv
  <2>2. FreeInv'
    BY <2>1, NextFree
  <2>3. CASE Allocate
    <3>1. TypeOK'
      BY <2>1, <2>3, AllocateType DEF FreeInv
    <3>2. KeptInv' /\ MarkInv'
      BY <2>1, <2>3, AllocateKept
    <3> QED
      BY <2>2, <3>1, <3>2 DEF GcInv, FreeInv
  <2>4. CASE Mutate
    <3>1. TypeOK'
      BY <2>1, <2>4, MutateType
    <3>2. KeptInv' /\ MarkInv'
      BY <2>1, <2>4, MutateKept
    <3> QED
      BY <2>2, <3>1, <3>2 DEF GcInv, FreeInv
  <2>5. CASE UNCHANGED vars
    <3>1. TypeOK'
      BY <2>1, <2>5 DEF TypeOK, vars, Cells
    <3>2. Kept' = Kept /\ Reachable' = Reachable /\ GcRoots' = GcRoots
          /\ \A c : Children(c)' = Children(c)
      BY <2>5, SameGraph DEF vars, Kept
    <3>3. Closed(Kept)'
      BY <2>1, <3>2 DEF KeptInv, Closed
    <3>4. KeptInv'
      BY <2>1, <2>5, <3>2, <3>3 DEF KeptInv, vars
    <3>5. MarkInv'
      BY <2>1, <2>5, <3>2 DEF MarkInv, vars
    <3> QED
      BY <2>2, <3>1, <3>4, <3>5 DEF GcInv, FreeInv
  <2> QED
    BY <2>3, <2>4, <2>5 DEF Next
<1> QED
  BY <1>1, <1>2, PTL DEF Spec

\* The variables of the collector keep their types: in particular the sweep
\* never looks beyond the heaps (gc.cpp:158-175).
THEOREM TypeCorrect == Spec => []TypeOK
<1>1. GcInv => TypeOK
  BY DEF GcInv
<1> QED
  BY <1>1, GcInvariant, PTL

\* No cell the program can get at is freed, at any point of a collection, on
\* any graph and in heaps of any size (gc.cpp:65-188).
THEOREM ReachableNeverFreed == Spec => []NoDangling
<1>1. GcInv => NoDangling
  <2> SUFFICES ASSUME GcInv PROVE NoDangling
    OBVIOUS
  <2>1. Reachable \subseteq live
    BY ReachableKept DEF GcInv
  <2> QED
    BY <2>1 DEF NoDangling, GcInv, KeptInv
<1> QED
  BY <1>1, GcInvariant, PTL

\* The free list is exactly the dead cells, each once: no cell is handed out
\* twice and none is lost (gc.cpp:190-196, 249-280).
THEOREM FreelistAlwaysExact == Spec => []FreelistExact
<1>1. GcInv => FreelistExact
  BY DEF GcInv
<1> QED
  BY <1>1, GcInvariant, PTL

\* allocate_cell finds a free cell whenever it is entered (gc.cpp:253-262).
THEOREM AllocationServed == Spec => []NextAllocationServed
<1>1. GcInv => NextAllocationServed
  BY DEF GcInv, FreshInv, NextAllocationServed
<1> QED
  BY <1>1, GcInvariant, PTL

\* What is live after a sweep is reachable: a collection frees all garbage
\* there is when it starts, cycles included (gc.cpp:158-175, 282-369).
THEOREM GarbageAllFreed == Spec => []NoGarbageKept
<1>1. GcInv => NoGarbageKept
  <2> SUFFICES ASSUME GcInv, pc = "sweep", at = size PROVE live \subseteq Reachable
    BY DEF NoGarbageKept
  <2>1. live \subseteq 0 .. at - 1
    BY DEF GcInv, TypeOK, Cells
  <2>2. Kept = live
    BY <2>1 DEF Kept
  <2> QED
    BY <2>2 DEF GcInv, MarkInv
<1> QED
  BY <1>1, GcInvariant, PTL
-----------------------------------------------------------------------------
(* allocate_cell ends.  AllocationEnds needs fairness, which is out of     *)
(* reach here; that only finitely many steps are possible is not.  The     *)
(* measure is three numbers compared from the left.                        *)

\* Phases of allocate_cell still to come.
PhasesLeft ==
  CASE pc = "collect"   -> 6
    [] pc = "roots"     -> 5
    [] pc = "immortals" -> 4
    [] pc = "sweep"     -> 3
    [] pc = "grow"      -> 2
    [] pc = "init"      -> 1
    [] pc = "idle"      -> 0

\* Cells the phase has not dealt with yet.
CellsLeft == IF pc = "sweep" THEN size - at ELSE Cardinality(Cells \ marked)

\* Calls of mark() that are to be made.
CallsLeft == Cardinality(todo)

\* The measure is made of natural numbers, none beyond the size of the heaps.
Measured ==
  /\ PhasesLeft \in 0 .. 6
  /\ CellsLeft \in 0 .. size
  /\ CallsLeft \in 0 .. size

\* Every step of allocate_cell lessens the measure.  A call of mark() on a
\* marked cell makes no calls; on any other cell it makes as many as it likes,
\* but there is one unmarked cell less (gc.cpp:291-296).
AllocationAdvances ==
  pc # "idle" =>
    \/ PhasesLeft' < PhasesLeft
    \/ PhasesLeft' = PhasesLeft /\ CellsLeft' < CellsLeft
    \/ PhasesLeft' = PhasesLeft /\ CellsLeft' = CellsLeft /\ CallsLeft' < CallsLeft

\* A set of cells is finite and no larger than the heaps.
LEMMA CellsFinite ==
  ASSUME TypeOK, NEW S, S \subseteq Cells
  PROVE  IsFiniteSet(S) /\ Cardinality(S) \in 0 .. size
<1>1. size \in Nat /\ 0 \in Int /\ size - 1 \in Int
  BY GcAssumption DEF TypeOK
<1>2. IsFiniteSet(Cells) /\ Cardinality(Cells) = size
  BY <1>1, FS_Interval DEF Cells
<1>3. IsFiniteSet(S) /\ Cardinality(S) <= size
  BY <1>2, FS_Subset
<1>4. Cardinality(S) \in Nat
  BY <1>3, FS_CardinalityType
<1> QED
  BY <1>1, <1>3, <1>4

\* The types bound the measure.
LEMMA TypedMeasure == TypeOK => Measured
<1> SUFFICES ASSUME TypeOK PROVE Measured
  OBVIOUS
<1>1. PhasesLeft \in 0 .. 6
  BY DEF PhasesLeft, TypeOK
<1>2. Cardinality(Cells \ marked) \in 0 .. size
  BY CellsFinite
<1>3. size - at \in 0 .. size
  BY GcAssumption DEF TypeOK
<1>4. CallsLeft \in 0 .. size
  BY CellsFinite DEF CallsLeft, TypeOK
<1> QED
  BY <1>1, <1>2, <1>3, <1>4 DEF Measured, CellsLeft

\* A call of mark() either marks a cell or is one call less.
LEMMA MarkAdvances ==
  ASSUME TypeOK, NEW c \in Cells, Mark(c)
  PROVE  AllocationAdvances
<1>1. /\ pc \in {"roots", "immortals"} /\ pc' = pc
      /\ Cells' = Cells /\ c \in todo
  BY DEF Mark, heapVars, Cells
<1>2. PhasesLeft' = PhasesLeft
  BY <1>1 DEF PhasesLeft
<1>3. /\ CellsLeft = Cardinality(Cells \ marked)
      /\ CellsLeft' = Cardinality(Cells \ marked')
  BY <1>1 DEF CellsLeft
<1>4. CASE c \in marked
  <2>1. todo' = todo \ {c} /\ marked' = marked
    BY <1>4 DEF Mark
  <2>2. IsFiniteSet(todo) /\ Cardinality(todo) \in Nat
    BY CellsFinite DEF TypeOK
  <2>3. Cardinality(todo \ {c}) = Cardinality(todo) - 1
    BY <1>1, <2>2, FS_RemoveElement
  <2> QED
    BY <1>2, <1>3, <2>1, <2>2, <2>3 DEF AllocationAdvances, CallsLeft
<1>5. CASE c \notin marked
  <2>1. marked' = marked \cup {c}
    BY <1>5 DEF Mark
  <2>2. Cells \ marked' = (Cells \ marked) \ {c} /\ c \in Cells \ marked
    BY <1>5, <2>1
  <2>3. IsFiniteSet(Cells \ marked) /\ Cardinality(Cells \ marked) \in Nat
    BY CellsFinite
  <2>4. Cardinality((Cells \ marked) \ {c}) = Cardinality(Cells \ marked) - 1
    BY <2>2, <2>3, FS_RemoveElement
  <2> QED
    BY <1>2, <1>3, <2>2, <2>3, <2>4 DEF AllocationAdvances
<1> QED
  BY <1>4, <1>5

\* So does every other step.
LEMMA NextAdvances == TypeOK /\ Next => AllocationAdvances
<1> SUFFICES ASSUME TypeOK, Next, pc # "idle" PROVE AllocationAdvances
  BY DEF AllocationAdvances
<1>0. ~Mutate
  BY DEF Mutate, AddRoot, DropRoot, Protect, Unprotect, Link, Unlink, Stop
<1>1. ASSUME NEW ws \in SUBSET Cells, Take(ws) PROVE FALSE
  BY <1>1 DEF Take
<1>2. CASE MarkRoots \/ MarkImmortals \/ MarkDone \/ SweepDone \/ Grow
  <2>1. PhasesLeft' < PhasesLeft
    BY <1>2 DEF MarkRoots, MarkImmortals, MarkDone, SweepDone, Grow, PhasesLeft
  <2> QED
    BY <2>1 DEF AllocationAdvances
<1>3. ASSUME NEW asRoot \in BOOLEAN, InitCell(asRoot) PROVE AllocationAdvances
  <2>1. pc = "init" /\ pc' = "idle"
    BY <1>3 DEF InitCell
  <2>2. PhasesLeft' < PhasesLeft
    BY <2>1 DEF PhasesLeft
  <2> QED
    BY <2>2 DEF AllocationAdvances
<1>4. ASSUME NEW c \in Cells, Mark(c) PROVE AllocationAdvances
  BY <1>4, MarkAdvances
<1>5. CASE Sweep
  <2>1. pc = "sweep" /\ pc' = "sweep" /\ size' = size /\ at' = at + 1
    BY <1>5 DEF Sweep
  <2>2. size \in Int /\ at \in Int
    BY GcAssumption DEF TypeOK
  <2>3. PhasesLeft' = PhasesLeft /\ CellsLeft' < CellsLeft
    BY <2>1, <2>2 DEF PhasesLeft, CellsLeft
  <2> QED
    BY <2>3 DEF AllocationAdvances
<1> QED
  BY <1>0, <1>1, <1>2, <1>3, <1>4, <1>5 DEF Next, Allocate

\* Marking and sweeping end, on any graph, cyclic or not, and in heaps of any
\* size: allocate_cell takes at most 7 * (size + 1)^2 steps (gc.cpp:65-188,
\* 249-369).
THEOREM AllocationCannotRunOn == Spec => []Measured /\ [][AllocationAdvances]_vars
<1>1. TypeOK => Measured
  BY TypedMeasure
<1>2. TypeOK /\ [Next]_vars => [AllocationAdvances]_vars
  BY NextAdvances
<1> QED
  BY <1>1, <1>2, TypeCorrect, PTL DEF Spec
=============================================================================
