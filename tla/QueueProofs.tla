----------------------------- MODULE QueueProofs -----------------------------
(***************************************************************************)
(* The linked list of the Queue class is well formed and implements a      *)
(* queue, for any number of entries; next to a ring, which does not touch  *)
(* it, as in the run.                                                      *)
(***************************************************************************)
EXTENDS MCBuffers, CircularBufferProofs, WellFoundedInduction

-----------------------------------------------------------------------------
(* Walking along the list                                                  *)

\* Entries are made one after the other and each is linked to the one before
\* it, so those in the list are the last ones made, in that order.  Entries
\* that left the list may point into it, but none in it points out of it.
ListInv ==
  /\ listMade \in 0 .. MaxEntries
  /\ listLength \in 0 .. listMade
  /\ listData \in [1 .. MaxEntries -> Values \cup {Null}]
  /\ listNext \in [1 .. MaxEntries -> 0 .. MaxEntries]
  /\ listLength = 0 => listHead = 0 /\ listTail = 0
  /\ listLength > 0 => listHead = listMade - listLength + 1 /\ listTail = listMade
  /\ \A e \in 1 .. MaxEntries :
       listMade - listLength < e /\ e < listMade => listNext[e] = e + 1
  /\ \A e \in 1 .. MaxEntries : listMade <= e => listNext[e] = 0

\* A set of naturals has a least element.
LEMMA LeastOf ==
  ASSUME NEW T, T \subseteq Nat, T # {}
  PROVE  \E x \in T : \A y \in T : x <= y
<1> DEFINE R == {ss \in Nat \X Nat : ss[1] < ss[2]}
<1>1. IsWellFoundedOn(R, Nat)
  BY NatLessThanWellFounded DEF OpToRel
<1>2. \A x, y \in Nat : x < y => <<x, y>> \in R
  OBVIOUS
<1> HIDE DEF R
<1>3. PICK x \in T : \A y \in T : ~(<<y, x>> \in R)
  BY <1>1, WFMin
<1>4. ASSUME NEW y \in T PROVE x <= y
  <2>1. x \in Nat /\ y \in Nat
    OBVIOUS
  <2>2. ~(y < x)
    BY <1>2, <1>3, <2>1
  <2> QED
    BY <2>1, <2>2
<1> QED
  BY <1>4

\* length steps along next from the head: by contradiction, at the first
\* step that leads elsewhere.
LEMMA ChainIs ==
  ASSUME ListInv
  PROVE  Waiters!Chain = [i \in 1 .. listLength |-> listHead + i - 1]
<1> DEFINE Eq(g) == g = [i \in 1 .. listLength |->
                           IF i = 1 THEN listHead ELSE listNext[g[i - 1]]]
           step == CHOOSE g : Eq(g)
           walk == [i \in 1 .. listLength |-> listHead + i - 1]
<1>0. /\ MaxEntries \in Nat /\ listMade \in 0 .. MaxEntries /\ listLength \in 0 .. listMade
      /\ listLength > 0 => listHead = listMade - listLength + 1
      /\ \A e \in 1 .. MaxEntries :
           listMade - listLength < e /\ e < listMade => listNext[e] = e + 1
  BY ListAssumption DEF ListInv
<1>1. Waiters!Chain = [i \in 1 .. listLength |-> step[i]]
  BY DEF Waiters!Chain
<1>2. \A i \in 2 .. listLength : listNext[listHead + i - 2] = listHead + i - 1
  <2> TAKE i \in 2 .. listLength
  <2> DEFINE e == listHead + i - 2
  <2>1. e \in 1 .. MaxEntries /\ listMade - listLength < e /\ e < listMade
    BY <1>0
  <2> QED
    BY <1>0, <2>1
<1>3. \E g : Eq(g)
  <2>1. \A i \in 1 .. listLength :
          walk[i] = IF i = 1 THEN listHead ELSE listNext[walk[i - 1]]
    <3> TAKE i \in 1 .. listLength
    <3>1. CASE i = 1
      BY <1>0, <3>1
    <3>2. CASE i # 1
      <4>1. i \in 2 .. listLength /\ walk[i - 1] = listHead + i - 2
        BY <1>0, <3>2
      <4> QED
        BY <1>2, <3>2, <4>1
    <3> QED
      BY <3>1, <3>2
  <2>2. walk = [i \in 1 .. listLength |->
                  IF i = 1 THEN listHead ELSE listNext[walk[i - 1]]]
    BY <2>1
  <2> QED
    BY <2>2
<1>4. Eq(step)
  BY <1>3
<1>5. \A i \in 1 .. listLength :
        step[i] = IF i = 1 THEN listHead ELSE listNext[step[i - 1]]
  BY <1>4
<1> HIDE DEF step
<1>6. \A i \in 1 .. listLength : step[i] = listHead + i - 1
  <2> DEFINE B == {i \in 1 .. listLength : step[i] # listHead + i - 1}
  <2> SUFFICES ASSUME B # {} PROVE FALSE
    OBVIOUS
  <2>1. PICK i \in B : \A j \in B : i <= j
    <3>1. B \subseteq Nat
      BY <1>0
    <3> HIDE DEF B
    <3> QED
      BY <3>1, LeastOf
  <2>2. i \in 1 .. listLength /\ step[i] # listHead + i - 1
    OBVIOUS
  <2>3. i # 1
    BY <1>0, <1>5, <2>2
  <2>4. i - 1 \in 1 .. listLength /\ i \in 2 .. listLength
    BY <1>0, <2>2, <2>3
  <2>5. step[i - 1] = listHead + (i - 1) - 1
    BY <1>0, <2>1, <2>4
  <2>6. step[i] = listNext[listHead + i - 2]
    BY <1>0, <1>5, <2>2, <2>3, <2>5
  <2> QED
    BY <1>2, <2>2, <2>4, <2>6
<1> QED
  BY <1>1, <1>6

\* The values in the list.
LEMMA ListContents ==
  ASSUME ListInv
  PROVE  /\ Waiters!Contents = [i \in 1 .. listLength |-> listData[listHead + i - 1]]
         /\ Waiters!Contents \in Seq(Values \cup {Null})
         /\ Len(Waiters!Contents) = listLength
<1>0. /\ MaxEntries \in Nat /\ listMade \in 0 .. MaxEntries /\ listLength \in 0 .. listMade
      /\ listLength > 0 => listHead = listMade - listLength + 1
      /\ listData \in [1 .. MaxEntries -> Values \cup {Null}]
  BY ListAssumption DEF ListInv
<1>1. Waiters!Contents = [i \in 1 .. listLength |-> listData[listHead + i - 1]]
  BY ChainIs DEF Waiters!Contents
<1>2. \A i \in 1 .. listLength : listData[listHead + i - 1] \in Values \cup {Null}
  BY <1>0
<1> QED
  BY <1>0, <1>1, <1>2

\* The same after a step.
LEMMA ListContentsNext ==
  ListInv' => (Waiters!Contents = [i \in 1 .. listLength |-> listData[listHead + i - 1]])'
<1>1. ListInv => Waiters!Contents = [i \in 1 .. listLength |-> listData[listHead + i - 1]]
  BY ListContents
<1> QED
  BY <1>1, PTL

-----------------------------------------------------------------------------
(* The invariant                                                           *)

\* It holds initially.
LEMMA InitList == Waiters!Init => ListInv
<1>1. MaxEntries \in Nat
  BY ListAssumption
<1> QED
  BY <1>1 DEF Waiters!Init, Waiters!NullHead, Waiters!Entries, ListInv

\* Every operation keeps it.
LEMMA NextList == ListInv /\ [Waiters!Next]_listVars => ListInv'
<1> SUFFICES ASSUME ListInv, [Waiters!Next]_listVars PROVE ListInv'
  OBVIOUS
<1>0. /\ MaxEntries \in Nat /\ listMade \in 0 .. MaxEntries /\ listLength \in 0 .. listMade
      /\ listData \in [1 .. MaxEntries -> Values \cup {Null}]
      /\ listNext \in [1 .. MaxEntries -> 0 .. MaxEntries]
      /\ listLength = 0 => listHead = 0 /\ listTail = 0
      /\ listLength > 0 => listHead = listMade - listLength + 1 /\ listTail = listMade
      /\ \A e \in 1 .. MaxEntries :
           listMade - listLength < e /\ e < listMade => listNext[e] = e + 1
      /\ \A e \in 1 .. MaxEntries : listMade <= e => listNext[e] = 0
  BY ListAssumption DEF ListInv
<1>1. ASSUME NEW v \in Values, Waiters!Write(v) PROVE ListInv'
  <2>1. /\ listMade < MaxEntries /\ listMade' = listMade + 1
        /\ listData' = [listData EXCEPT ![listMade + 1] = v]
        /\ listTail' = listMade + 1 /\ listLength' = listLength + 1
    BY <1>1 DEF Waiters!Write
  <2>2. listMade' \in 0 .. MaxEntries /\ listLength' \in 0 .. listMade' /\ listLength' > 0
    BY <1>0, <2>1
  <2>3. listData' \in [1 .. MaxEntries -> Values \cup {Null}]
    BY <1>0, <2>1
  <2>4. CASE listLength = 0
    <3>1. listHead' = listMade + 1 /\ listNext' = listNext
      BY <1>1, <2>4 DEF Waiters!Write
    <3> QED
      BY <1>0, <2>1, <2>2, <2>3, <2>4, <3>1 DEF ListInv
  <2>5. CASE listLength # 0
    <3>1. /\ listHead' = listHead /\ listNext' = [listNext EXCEPT ![listMade] = listMade + 1]
          /\ listMade \in 1 .. MaxEntries
      BY <1>0, <1>1, <2>5 DEF Waiters!Write
    <3>2. listNext' \in [1 .. MaxEntries -> 0 .. MaxEntries]
      BY <1>0, <2>1, <3>1
    <3>3. \A e \in 1 .. MaxEntries :
            listNext'[e] = IF e = listMade THEN listMade + 1 ELSE listNext[e]
      BY <1>0, <3>1
    <3>4. \A e \in 1 .. MaxEntries :
            listMade' - listLength' < e /\ e < listMade' => listNext'[e] = e + 1
      BY <1>0, <2>1, <3>3
    <3>5. \A e \in 1 .. MaxEntries : listMade' <= e => listNext'[e] = 0
      BY <1>0, <2>1, <3>3
    <3>6. listHead' = listMade' - listLength' + 1 /\ listTail' = listMade'
      BY <1>0, <2>1, <2>5, <3>1
    <3>7. listLength' # 0
      BY <1>0, <2>1
    <3> QED
      BY <2>2, <2>3, <3>2, <3>4, <3>5, <3>6, <3>7 DEF ListInv
  <2> QED
    BY <2>4, <2>5
<1>2. CASE Waiters!Read
  <2>1. listLength # 0 /\ UNCHANGED <<listData, listNext, listMade>>
    BY <1>2 DEF Waiters!Read
  <2>2. CASE listLength = 1
    <3>1. listHead' = 0 /\ listTail' = 0 /\ listLength' = 0
      BY <1>2, <2>2 DEF Waiters!Read, Waiters!Reset, Waiters!NullHead
    <3> QED
      BY <1>0, <2>1, <3>1 DEF ListInv
  <2>3. CASE listLength # 1
    <3>1. /\ listHead' = listNext[listHead] /\ listLength' = listLength - 1
          /\ listTail' = listTail
      BY <1>2, <2>3 DEF Waiters!Read
    <3>2. listHead \in 1 .. MaxEntries /\ listNext[listHead] = listHead + 1
      BY <1>0, <2>1, <2>3
    <3> QED
      BY <1>0, <2>1, <2>3, <3>1, <3>2 DEF ListInv
  <2> QED
    BY <2>2, <2>3
<1>3. CASE Waiters!Clear
  <2>1. /\ listHead' = 0 /\ listTail' = 0 /\ listLength' = 0
        /\ UNCHANGED <<listData, listNext, listMade>>
    BY <1>3 DEF Waiters!Clear, Waiters!Reset, Waiters!NullHead
  <2> QED
    BY <1>0, <2>1 DEF ListInv
<1>4. CASE UNCHANGED listVars
  BY <1>4 DEF listVars, ListInv
<1> QED
  BY <1>1, <1>2, <1>3, <1>4 DEF Waiters!Next

\* The steps of the two containers do not touch each other.
LEMMA StepsApart == [BothNext]_allVars => [Next]_vars /\ [Waiters!Next]_listVars
BY DEF BothNext, allVars

\* The invariant of the list holds next to the ring.
LEMMA ListInvHolds == BothSpec => []ListInv
<1>1. BothInit => ListInv
  BY InitList DEF BothInit
<1>2. ListInv /\ [BothNext]_allVars => ListInv'
  BY StepsApart, NextList
<1> QED
  BY <1>1, <1>2, PTL DEF BothSpec

-----------------------------------------------------------------------------
(* The theorems                                                            *)

\* head, tail and length of a list always agree, also across the reads that
\* empty it and the writes that fill it again (queue.ch:43-76).
THEOREM ListAlwaysWellFormed == BothSpec => []ListWellFormed
<1>1. ListInv => ListWellFormed
  <2> SUFFICES ASSUME ListInv PROVE Waiters!WellFormed
    BY DEF ListWellFormed
  <2>1. /\ MaxEntries \in Nat /\ listMade \in 0 .. MaxEntries
        /\ listLength \in 0 .. listMade
        /\ listLength = 0 => listHead = 0 /\ listTail = 0
        /\ listLength > 0 => listHead = listMade - listLength + 1 /\ listTail = listMade
        /\ \A e \in 1 .. MaxEntries : listMade <= e => listNext[e] = 0
    BY ListAssumption DEF ListInv
  <2>2. Waiters!Chain = [i \in 1 .. listLength |-> listHead + i - 1]
    BY ChainIs
  <2> HIDE DEF Waiters!Chain
  <2>3. \A i \in 1 .. listLength : Waiters!Chain[i] = listHead + i - 1
    BY <2>2
  <2>4. \A i, j \in 1 .. listLength : Waiters!Chain[i] = Waiters!Chain[j] => i = j
    BY <2>1, <2>3
  <2>5. listLength > 0 => Waiters!Chain[listLength] = listTail /\ listNext[listTail] = 0
    BY <2>1, <2>3
  <2> QED
    BY <2>1, <2>4, <2>5 DEF Waiters!WellFormed, Waiters!NullHead
<1> QED
  BY <1>1, ListInvHolds, PTL

\* Every operation of the list is the operation of the queue.
LEMMA ListStepIsFifo ==
  ListInv /\ ListInv' /\ [Waiters!Next]_listVars
    => [Waiters!List!Next]_(Waiters!List!vars)
<1> SUFFICES ASSUME ListInv, ListInv', [Waiters!Next]_listVars
             PROVE  [Waiters!List!Next]_(Waiters!List!vars)
  OBVIOUS
<1> DEFINE C == Waiters!Contents
<1>0. /\ MaxEntries \in Nat /\ listMade \in 0 .. MaxEntries /\ listLength \in 0 .. listMade
      /\ listData \in [1 .. MaxEntries -> Values \cup {Null}]
      /\ listLength > 0 => listHead = listMade - listLength + 1 /\ listTail = listMade
      /\ \A e \in 1 .. MaxEntries :
           listMade - listLength < e /\ e < listMade => listNext[e] = e + 1
  BY ListAssumption DEF ListInv
<1>a. C \in Seq(Values \cup {Null}) /\ Len(C) = listLength
  BY ListContents
<1>c. \A i \in 1 .. listLength : C[i] = listData[listHead + i - 1]
  BY ListContents
<1>b. C' = [i \in 1 .. listLength' |-> listData'[listHead' + i - 1]]
  BY ListContentsNext
<1> HIDE DEF C
<1>1. ASSUME NEW v \in Values, Waiters!Write(v) PROVE Waiters!List!Write(v)
  <2>1. /\ listMade < MaxEntries /\ listLength' = listLength + 1 /\ listOut' = listOut
        /\ listData' = [listData EXCEPT ![listMade + 1] = v]
        /\ listHead' = IF listLength = 0 THEN listMade + 1 ELSE listHead
    BY <1>1 DEF Waiters!Write
  <2>2. listHead' = listMade - listLength + 1
    <3>1. CASE listLength = 0
      BY <1>0, <2>1, <3>1
    <3>2. CASE listLength > 0
      BY <1>0, <2>1, <3>2
    <3> QED
      BY <1>0, <3>1, <3>2
  <2>3. \A i \in 1 .. listLength : /\ listData'[listHead' + i - 1] = C[i]
    <3> TAKE i \in 1 .. listLength
    <3>1. /\ listHead' = listHead /\ listHead + i - 1 \in 1 .. MaxEntries
          /\ listHead + i - 1 # listMade + 1
      BY <1>0, <2>1
    <3>2. C[i] = listData[listHead + i - 1]
      BY <1>c
    <3> QED
      BY <1>0, <2>1, <3>1, <3>2
  <2>4. listData'[listHead' + (listLength + 1) - 1] = v
    <3>1. listHead' + (listLength + 1) - 1 = listMade + 1 /\ listMade + 1 \in 1 .. MaxEntries
      BY <1>0, <2>1, <2>2
    <3> QED
      BY <1>0, <2>1, <3>1
  <2>5. Append(C, v) = [i \in 1 .. listLength + 1 |-> IF i = listLength + 1 THEN v ELSE C[i]]
    BY <1>a, AppendIs
  <2>6. C' = Append(C, v)
    <3>1. \A i \in 1 .. listLength + 1 :
            listData'[listHead' + i - 1] = IF i = listLength + 1 THEN v ELSE C[i]
      BY <1>0, <2>3, <2>4
    <3>2. C' = [i \in 1 .. listLength + 1 |-> listData'[listHead' + i - 1]]
      BY <1>b, <2>1
    <3> QED
      BY <2>5, <3>1, <3>2
  <2>7. Len(C) < MaxEntries
    BY <1>0, <1>a, <2>1
  <2> QED
    BY <2>1, <2>6, <2>7 DEF Waiters!List!Write, C
<1>2. ASSUME Waiters!Read PROVE Waiters!List!Read
  <2>1. listLength # 0 /\ listData' = listData /\ listOut' = listData[listHead]
        /\ listLength' = listLength - 1
    BY <1>2, <1>0 DEF Waiters!Read, Waiters!Reset
  <2>2. C # <<>> /\ Head(C) = listData[listHead]
    <3>1. C # <<>> /\ Head(C) = C[1]
      BY <1>a, <2>1
    <3>2. C[1] = listData[listHead]
      BY <1>0, <1>c, <2>1
    <3> QED
      BY <3>1, <3>2
  <2>3. \A i \in 1 .. listLength - 1 : listData'[listHead' + i - 1] = C[i + 1]
    <3> TAKE i \in 1 .. listLength - 1
    <3>1. listLength # 1 /\ listHead \in 1 .. MaxEntries /\ listNext[listHead] = listHead + 1
      BY <1>0, <2>1
    <3>2. listHead' = listHead + 1
      BY <1>2, <3>1 DEF Waiters!Read
    <3>3. i + 1 \in 1 .. listLength /\ listHead + (i + 1) - 1 = listHead' + i - 1
      BY <1>0, <3>1, <3>2
    <3> QED
      BY <1>c, <2>1, <3>3
  <2>4. Tail(C) = [i \in 1 .. listLength - 1 |-> C[i + 1]]
    BY <1>a, <2>2, TailIs
  <2>5. C' = Tail(C)
    BY <1>b, <2>1, <2>3, <2>4
  <2> QED
    BY <2>1, <2>2, <2>5 DEF Waiters!List!Read, C
<1>3. ASSUME Waiters!Clear PROVE Waiters!List!Clear
  <2>1. listLength' = 0 /\ listOut' = listOut
    BY <1>3 DEF Waiters!Clear, Waiters!Reset
  <2>2. C' = [i \in 1 .. 0 |-> listData'[listHead' + i - 1]]
    BY <1>b, <2>1
  <2>3. C' = <<>>
    BY <2>2
  <2> QED
    BY <2>1, <2>3 DEF Waiters!List!Clear, C
<1>4. ASSUME UNCHANGED listVars PROVE UNCHANGED Waiters!List!vars
  <2>1. C' = C /\ listOut' = listOut
    BY <1>4, ListContents, <1>b DEF listVars, C
  <2> QED
    BY <2>1 DEF Waiters!List!vars, C
<1> QED
  BY <1>1, <1>2, <1>3, <1>4 DEF Waiters!Next, Waiters!List!Next

\* The list is a queue: values come out in the order in which they went in,
\* each once, whatever reads, writes and clears (queue.ch:43-76).
THEOREM LinkedListIsFifo == BothSpec => ListIsFifo
<1>1. BothInit => Waiters!List!Init
  <2> SUFFICES ASSUME Waiters!Init PROVE Waiters!Contents = <<>> /\ listOut = Null
    BY DEF BothInit, Waiters!List!Init
  <2>1. ListInv /\ listLength = 0 /\ listOut = Null
    BY InitList DEF Waiters!Init
  <2>2. Waiters!Contents = [i \in 1 .. 0 |-> listData[listHead + i - 1]]
    BY <2>1, ListContents
  <2>3. Waiters!Contents = <<>>
    BY <2>2
  <2> QED
    BY <2>1, <2>3
<1> QED
  BY <1>1, StepsApart, ListStepIsFifo, ListInvHolds, PTL
     DEF BothSpec, ListIsFifo, Waiters!IsFifo, Waiters!List!Spec
=============================================================================
