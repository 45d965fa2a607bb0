-------------------------- MODULE CompareSetsProofs --------------------------
(***************************************************************************)
(* The merge of CompareSets, for slices of any length over any set of      *)
(* keys.  The invariant to strengthen is NoSplit: what was removed so far  *)
(* has a smaller key than every remote object still to come, and what was  *)
(* added a smaller key than every database object still to come, because   *)
(* the arrays are sorted.  That the results are the ones of the reference  *)
(* definition follows by counting: the steps of the loop keep Counted, and *)
(* a sorted permutation has every key as often as the input.               *)
(***************************************************************************)
EXTENDS CompareSets, FiniteSetTheorems, TLAPS

\* Nothing has happened before the arrays are sorted.
Fresh ==
  pc = "sort" => /\ i = 1 /\ j = 1
                 /\ removed = <<>> /\ added = <<>>
                 /\ commonDB = <<>> /\ commonExt = <<>>

\* Both arrays are sorted permutations from then on.
Sorted ==
  pc # "sort" => /\ SortedPermutation(dbArr, localKey)
                 /\ SortedPermutation(extArr, extKey)

RemovedBelow ==
  \A k \in DOMAIN removed : \A q \in j..Len(extKey) :
    localKey[removed[k]] < extKey[extArr[q]]

AddedBelow ==
  \A m \in DOMAIN added : \A p \in i..Len(localKey) :
    extKey[added[m]] < localKey[dbArr[p]]

\* The inductive invariant.
IInv == /\ TypeOK /\ Fresh /\ Sorted
        /\ RemovedBelow /\ AddedBelow
        /\ Pairing /\ NoSplit /\ EachOnce

\* The input slices are sequences of natural numbers.
LEMMA KeySeqFacts ==
  ASSUME NEW s \in KeySeqs
  PROVE  /\ s \in Seq(Nat)
         /\ DOMAIN s = 1..Len(s)
         /\ \A p \in 1..Len(s) : s[p] \in Nat
<1>1. PICK n \in 0..MaxLen : s \in [1..n -> Keys]
  BY DEF KeySeqs
<1>2. n \in Nat
  BY MaxLenAssumption
<1>3. s \in [1..n -> Nat]
  BY <1>1, KeysAssumption
<1> QED
  BY <1>2, <1>3

\* s is a sequence of elements of S.
Lists(s, S) ==
  /\ s \in Seq(S) /\ Len(s) \in Nat /\ DOMAIN s = 1..Len(s)
  /\ \A k \in 1..Len(s) : s[k] \in S

\* t is s with e at its end.
Extends(t, s, e) ==
  /\ Len(t) = Len(s) + 1 /\ DOMAIN t = 1..(Len(s) + 1)
  /\ \A k \in 1..Len(s) : t[k] = s[k]
  /\ t[Len(s) + 1] = e

LEMMA SeqFacts ==
  ASSUME NEW S, NEW s \in Seq(S)
  PROVE  Lists(s, S)
  BY DEF Lists

LEMMA AppendFacts ==
  ASSUME NEW S, NEW s \in Seq(S), NEW e \in S
  PROVE  Append(s, e) \in Seq(S) /\ Extends(Append(s, e), s, e)
  BY DEF Extends

LEMMA InitIInv == Init => IInv
<1> SUFFICES ASSUME Init PROVE IInv
  OBVIOUS
<1>0. Len(localKey) \in Nat /\ Len(extKey) \in Nat
  BY KeySeqFacts DEF Init
<1> USE <1>0
<1>1. TypeOK
  BY DEF Init, TypeOK, LocalPos, ExtPos
<1>2. Fresh /\ Sorted
  BY DEF Init, Fresh, Sorted
<1>3. RemovedBelow /\ AddedBelow /\ Pairing /\ NoSplit
  BY DEF Init, RemovedBelow, AddedBelow, Pairing, NoSplit
<1>4. EachOnce
  BY DEF Init, EachOnce
<1> QED
  BY <1>1, <1>2, <1>3, <1>4 DEF IInv

\* A sorted permutation of the positions of key is ordered by key.
Ordered(arr, key) ==
  /\ \A p \in 1..Len(key) : arr[p] \in 1..Len(key) /\ key[arr[p]] \in Nat
  /\ \A p, q \in 1..Len(key) : p <= q => key[arr[p]] <= key[arr[q]]

LEMMA OrderedFacts ==
  ASSUME NEW key \in KeySeqs, NEW arr, SortedPermutation(arr, key)
  PROVE  Ordered(arr, key)
<1>1. DOMAIN key = 1..Len(key) /\ Len(key) \in Nat
      /\ \A p \in 1..Len(key) : key[p] \in Nat
  BY KeySeqFacts
<1>2. \A p \in 1..Len(key) : arr[p] \in 1..Len(key)
  BY <1>1 DEF SortedPermutation
<1>3. \A p, q \in 1..Len(key) : p < q => key[arr[p]] <= key[arr[q]]
  BY <1>1 DEF SortedPermutation
<1>4. ASSUME NEW p \in 1..Len(key), NEW q \in 1..Len(key), p <= q
      PROVE  key[arr[p]] <= key[arr[q]]
  <2>1. CASE p = q
    BY <1>1, <1>2, <2>1
  <2>2. CASE p < q
    BY <1>3, <2>2
  <2> QED
    BY <1>1, <1>4, <2>1, <2>2
<1> QED
  BY <1>1, <1>2, <1>4 DEF Ordered

\* The facts about a state of the loop that the steps below share.
LoopOK ==
  /\ Len(localKey) \in Nat /\ Len(extKey) \in Nat
  /\ LocalPos = 1..Len(localKey) /\ ExtPos = 1..Len(extKey)
  /\ i \in 1..(Len(localKey) + 1) /\ j \in 1..(Len(extKey) + 1)
  /\ \A p \in 1..Len(localKey) : localKey[p] \in Nat
  /\ \A q \in 1..Len(extKey) : extKey[q] \in Nat
  /\ Lists(removed, LocalPos) /\ Lists(commonDB, LocalPos)
  /\ Lists(added, ExtPos) /\ Lists(commonExt, ExtPos)

LEMMA LoopFacts ==
  ASSUME IInv, pc # "sort"
  PROVE  LoopOK /\ Ordered(dbArr, localKey) /\ Ordered(extArr, extKey)
<1>1. localKey \in KeySeqs /\ extKey \in KeySeqs
  BY DEF IInv, TypeOK
<1>2. /\ Len(localKey) \in Nat /\ Len(extKey) \in Nat
      /\ LocalPos = 1..Len(localKey) /\ ExtPos = 1..Len(extKey)
      /\ \A p \in 1..Len(localKey) : localKey[p] \in Nat
      /\ \A q \in 1..Len(extKey) : extKey[q] \in Nat
  BY <1>1, KeySeqFacts DEF LocalPos, ExtPos
<1>3. Ordered(dbArr, localKey) /\ Ordered(extArr, extKey)
  BY <1>1, OrderedFacts DEF IInv, Sorted
<1>4. /\ Lists(removed, LocalPos) /\ Lists(commonDB, LocalPos)
      /\ Lists(added, ExtPos) /\ Lists(commonExt, ExtPos)
  BY SeqFacts DEF IInv, TypeOK
<1> QED
  BY <1>2, <1>3, <1>4 DEF LoopOK, IInv, TypeOK

LEMMA SortStep == IInv /\ SortArrays => IInv'
<1> SUFFICES ASSUME IInv, SortArrays PROVE IInv'
  OBVIOUS
<1>1. /\ localKey' = localKey /\ extKey' = extKey
      /\ i = 1 /\ j = 1 /\ i' = 1 /\ j' = 1
      /\ removed' = <<>> /\ added' = <<>> /\ commonDB' = <<>> /\ commonExt' = <<>>
      /\ pc' = "loop"
  BY DEF IInv, Fresh, SortArrays, inputs
<1>2. Len(localKey) \in Nat /\ Len(extKey) \in Nat
  BY KeySeqFacts DEF IInv, TypeOK
<1>3. TypeOK'
  BY <1>1, <1>2 DEF IInv, TypeOK, LocalPos, ExtPos
<1>4. Fresh' /\ Sorted'
  BY <1>1 DEF Fresh, Sorted, SortArrays
<1>5. RemovedBelow' /\ AddedBelow' /\ Pairing' /\ NoSplit'
  BY <1>1 DEF RemovedBelow, AddedBelow, Pairing, NoSplit
<1>6. EachOnce'
  BY <1>1 DEF EachOnce
<1> QED
  BY <1>3, <1>4, <1>5, <1>6 DEF IInv

LEMMA CommonStep == IInv /\ TakeCommon => IInv'
<1> SUFFICES ASSUME IInv, TakeCommon PROVE IInv'
  OBVIOUS
<1>1. /\ localKey' = localKey /\ extKey' = extKey
      /\ dbArr' = dbArr /\ extArr' = extArr
      /\ i <= Len(localKey) /\ j <= Len(extKey)
      /\ localKey[dbArr[i]] = extKey[extArr[j]]
      /\ i' = i + 1 /\ j' = j + 1
      /\ removed' = removed /\ added' = added
      /\ commonDB' = Append(commonDB, dbArr[i])
      /\ commonExt' = Append(commonExt, extArr[j])
      /\ pc = "loop" /\ pc' = pc
  BY DEF TakeCommon, LoopRuns, DbLeft, ExtLeft, DbKey, ExtKey, inputs, arrays
<1>2. LoopOK /\ Ordered(dbArr, localKey) /\ Ordered(extArr, extKey)
  BY <1>1, LoopFacts
<1>3. dbArr[i] \in LocalPos /\ extArr[j] \in ExtPos
  BY <1>1, <1>2 DEF LoopOK, Ordered
<1>4. /\ commonDB' \in Seq(LocalPos) /\ Extends(commonDB', commonDB, dbArr[i])
      /\ commonExt' \in Seq(ExtPos) /\ Extends(commonExt', commonExt, extArr[j])
  BY <1>1, <1>2, <1>3, AppendFacts DEF LoopOK, Lists
<1>5. TypeOK'
  BY <1>1, <1>2, <1>4 DEF IInv, TypeOK, LocalPos, ExtPos, LoopOK
<1>6. Fresh' /\ Sorted'
  BY <1>1 DEF IInv, Fresh, Sorted
<1>7. RemovedBelow' /\ AddedBelow' /\ NoSplit'
  BY <1>1, <1>2 DEF IInv, RemovedBelow, AddedBelow, NoSplit, LoopOK
<1>8. Pairing'
  <2>1. Len(commonDB') = Len(commonExt')
    BY <1>2, <1>4 DEF IInv, Pairing, Extends
  <2>2. ASSUME NEW k \in DOMAIN commonDB'
        PROVE  localKey[commonDB'[k]] = extKey[commonExt'[k]]
    <3>1. CASE k = Len(commonDB) + 1
      BY <1>1, <1>4, <3>1 DEF IInv, Pairing, Extends
    <3>2. CASE k \in 1..Len(commonDB)
      BY <1>2, <1>4, <3>2 DEF IInv, Pairing, Extends, LoopOK, Lists
    <3> QED
      BY <1>2, <1>4, <3>1, <3>2 DEF Extends, LoopOK, Lists
  <2> QED
    BY <1>1, <2>1, <2>2 DEF Pairing
<1>9. EachOnce'
  <2>1. /\ Len(removed') + Len(commonDB') = i' - 1
        /\ Len(added') + Len(commonExt') = j' - 1
    BY <1>1, <1>2, <1>4 DEF IInv, EachOnce, Extends, LoopOK, Lists
  <2>2. ASSUME NEW p \in 1..(i' - 1)
        PROVE  \/ \E k \in DOMAIN removed' : removed'[k] = dbArr'[p]
               \/ \E k \in DOMAIN commonDB' : commonDB'[k] = dbArr'[p]
    <3>1. CASE p = i
      <4>1. Len(commonDB) + 1 \in DOMAIN commonDB'
        BY <1>2, <1>4 DEF Extends, LoopOK, Lists
      <4>2. commonDB'[Len(commonDB) + 1] = dbArr'[p]
        BY <1>1, <1>4, <3>1 DEF Extends
      <4> QED
        BY <4>1, <4>2
    <3>2. CASE p \in 1..(i - 1)
      <4>1. \/ \E k \in DOMAIN removed : removed[k] = dbArr[p]
            \/ \E k \in DOMAIN commonDB : commonDB[k] = dbArr[p]
        BY <1>1, <3>2 DEF IInv, EachOnce
      <4> QED
        BY <1>1, <1>2, <1>4, <4>1 DEF Extends, LoopOK, Lists
    <3> QED
      BY <1>1, <1>2, <3>1, <3>2 DEF LoopOK
  <2>3. ASSUME NEW p \in 1..(j' - 1)
        PROVE  \/ \E k \in DOMAIN added' : added'[k] = extArr'[p]
               \/ \E k \in DOMAIN commonExt' : commonExt'[k] = extArr'[p]
    <3>1. CASE p = j
      <4>1. Len(commonExt) + 1 \in DOMAIN commonExt'
        BY <1>2, <1>4 DEF Extends, LoopOK, Lists
      <4>2. commonExt'[Len(commonExt) + 1] = extArr'[p]
        BY <1>1, <1>4, <3>1 DEF Extends
      <4> QED
        BY <4>1, <4>2
    <3>2. CASE p \in 1..(j - 1)
      <4>1. \/ \E k \in DOMAIN added : added[k] = extArr[p]
            \/ \E k \in DOMAIN commonExt : commonExt[k] = extArr[p]
        BY <1>1, <3>2 DEF IInv, EachOnce
      <4> QED
        BY <1>1, <1>2, <1>4, <4>1 DEF Extends, LoopOK, Lists
    <3> QED
      BY <1>1, <1>2, <3>1, <3>2 DEF LoopOK
  <2> QED
    BY <2>1, <2>2, <2>3 DEF EachOnce
<1> QED
  BY <1>5, <1>6, <1>7, <1>8, <1>9 DEF IInv

LEMMA RemovedStep == IInv /\ TakeRemoved => IInv'
<1> SUFFICES ASSUME IInv, TakeRemoved PROVE IInv'
  OBVIOUS
<1>1. /\ localKey' = localKey /\ extKey' = extKey
      /\ dbArr' = dbArr /\ extArr' = extArr
      /\ i <= Len(localKey)
      /\ j <= Len(extKey) => localKey[dbArr[i]] < extKey[extArr[j]]
      /\ i' = i + 1 /\ j' = j
      /\ removed' = Append(removed, dbArr[i]) /\ added' = added
      /\ commonDB' = commonDB /\ commonExt' = commonExt
      /\ pc = "loop" /\ pc' = pc
  BY DEF TakeRemoved, LoopRuns, DbLeft, ExtLeft, DbKey, ExtKey, inputs, arrays
<1>2. LoopOK /\ Ordered(dbArr, localKey) /\ Ordered(extArr, extKey)
  BY <1>1, LoopFacts
<1>3. dbArr[i] \in LocalPos
  BY <1>1, <1>2 DEF LoopOK, Ordered
<1>4. removed' \in Seq(LocalPos) /\ Extends(removed', removed, dbArr[i])
  BY <1>1, <1>2, <1>3, AppendFacts DEF LoopOK, Lists
<1>5. TypeOK'
  BY <1>1, <1>2, <1>4 DEF IInv, TypeOK, LocalPos, ExtPos, LoopOK
<1>6. Fresh' /\ Sorted'
  BY <1>1 DEF IInv, Fresh, Sorted
<1>7. RemovedBelow'
  <2> SUFFICES ASSUME NEW k \in DOMAIN removed', NEW q \in j..Len(extKey)
               PROVE  localKey[removed'[k]] < extKey[extArr[q]]
    BY <1>1 DEF RemovedBelow
  <2>1. CASE k = Len(removed) + 1
    <3>1. removed'[k] = dbArr[i]
      BY <1>4, <2>1 DEF Extends
    <3>2. j \in 1..Len(extKey) /\ q \in 1..Len(extKey) /\ j <= q
      BY <1>2 DEF LoopOK
    <3>3. extKey[extArr[j]] <= extKey[extArr[q]]
      BY <1>2, <3>2 DEF Ordered
    <3>4. /\ localKey[dbArr[i]] \in Nat
          /\ extKey[extArr[j]] \in Nat /\ extKey[extArr[q]] \in Nat
      BY <1>2, <1>3, <3>2 DEF LoopOK, Ordered
    <3>5. localKey[dbArr[i]] < extKey[extArr[j]]
      BY <1>1, <1>2, <3>2 DEF LoopOK
    <3> QED
      BY <3>1, <3>3, <3>4, <3>5
  <2>2. CASE k \in 1..Len(removed)
    <3>1. removed'[k] = removed[k] /\ k \in DOMAIN removed
      BY <1>2, <1>4, <2>2 DEF Extends, LoopOK, Lists
    <3>2. localKey[removed[k]] < extKey[extArr[q]]
      BY <3>1 DEF IInv, RemovedBelow
    <3> QED
      BY <3>1, <3>2
  <2> QED
    BY <1>2, <1>4, <2>1, <2>2 DEF Extends, LoopOK, Lists
<1>8. AddedBelow' /\ Pairing'
  BY <1>1, <1>2 DEF IInv, AddedBelow, Pairing, LoopOK
<1>9. NoSplit'
  <2> SUFFICES ASSUME NEW k \in DOMAIN removed', NEW m \in DOMAIN added
               PROVE  localKey[removed'[k]] # extKey[added[m]]
    BY <1>1 DEF NoSplit
  <2>1. CASE k = Len(removed) + 1
    <3>1. removed'[k] = dbArr[i]
      BY <1>4, <2>1 DEF Extends
    <3>2. extKey[added[m]] < localKey[dbArr[i]]
      <4>1. i \in i..Len(localKey)
        BY <1>1, <1>2 DEF LoopOK
      <4> QED
        BY <4>1 DEF IInv, AddedBelow
    <3>3. extKey[added[m]] \in Nat /\ localKey[dbArr[i]] \in Nat
      BY <1>2, <1>3 DEF LoopOK, Lists
    <3> QED
      BY <3>1, <3>2, <3>3
  <2>2. CASE k \in 1..Len(removed)
    <3>1. removed'[k] = removed[k] /\ k \in DOMAIN removed
      BY <1>2, <1>4, <2>2 DEF Extends, LoopOK, Lists
    <3> QED
      BY <3>1 DEF IInv, NoSplit
  <2> QED
    BY <1>2, <1>4, <2>1, <2>2 DEF Extends, LoopOK, Lists
<1>10. EachOnce'
  <2>1. /\ Len(removed') + Len(commonDB') = i' - 1
        /\ Len(added') + Len(commonExt') = j' - 1
    BY <1>1, <1>2, <1>4 DEF IInv, EachOnce, Extends, LoopOK, Lists
  <2>2. ASSUME NEW p \in 1..(i' - 1)
        PROVE  \/ \E k \in DOMAIN removed' : removed'[k] = dbArr'[p]
               \/ \E k \in DOMAIN commonDB' : commonDB'[k] = dbArr'[p]
    <3>1. CASE p = i
      <4>1. Len(removed) + 1 \in DOMAIN removed'
        BY <1>2, <1>4 DEF Extends, LoopOK, Lists
      <4>2. removed'[Len(removed) + 1] = dbArr'[p]
        BY <1>1, <1>4, <3>1 DEF Extends
      <4> QED
        BY <4>1, <4>2
    <3>2. CASE p \in 1..(i - 1)
      <4>1. \/ \E k \in DOMAIN removed : removed[k] = dbArr[p]
            \/ \E k \in DOMAIN commonDB : commonDB[k] = dbArr[p]
        BY <1>1, <3>2 DEF IInv, EachOnce
      <4> QED
        BY <1>1, <1>2, <1>4, <4>1 DEF Extends, LoopOK, Lists
    <3> QED
      BY <1>1, <1>2, <3>1, <3>2 DEF LoopOK
  <2> QED
    BY <1>1, <2>1, <2>2 DEF IInv, EachOnce
<1> QED
  BY <1>5, <1>6, <1>7, <1>8, <1>9, <1>10 DEF IInv

LEMMA AddedStep == IInv /\ TakeAdded => IInv'
<1> SUFFICES ASSUME IInv, TakeAdded PROVE IInv'
  OBVIOUS
<1>1. /\ localKey' = localKey /\ extKey' = extKey
      /\ dbArr' = dbArr /\ extArr' = extArr
      /\ j <= Len(extKey)
      /\ i <= Len(localKey) => extKey[extArr[j]] < localKey[dbArr[i]]
      /\ j' = j + 1 /\ i' = i
      /\ added' = Append(added, extArr[j]) /\ removed' = removed
      /\ commonDB' = commonDB /\ commonExt' = commonExt
      /\ pc = "loop" /\ pc' = pc
  <2>1. /\ localKey' = localKey /\ extKey' = extKey
        /\ dbArr' = dbArr /\ extArr' = extArr
        /\ j <= Len(extKey)
        /\ i <= Len(localKey) => localKey[dbArr[i]] > extKey[extArr[j]]
        /\ j' = j + 1 /\ i' = i
        /\ added' = Append(added, extArr[j]) /\ removed' = removed
        /\ commonDB' = commonDB /\ commonExt' = commonExt
        /\ pc = "loop" /\ pc' = pc
    BY DEF TakeAdded, LoopRuns, DbLeft, ExtLeft, DbKey, ExtKey, inputs, arrays
  <2>2. LoopOK /\ Ordered(dbArr, localKey) /\ Ordered(extArr, extKey)
    BY <2>1, LoopFacts
  <2> QED
    BY <2>1, <2>2 DEF LoopOK, Ordered
<1>2. LoopOK /\ Ordered(dbArr, localKey) /\ Ordered(extArr, extKey)
  BY <1>1, LoopFacts
<1>3. extArr[j] \in ExtPos
  BY <1>1, <1>2 DEF LoopOK, Ordered
<1>4. added' \in Seq(ExtPos) /\ Extends(added', added, extArr[j])
  BY <1>1, <1>2, <1>3, AppendFacts DEF LoopOK, Lists
<1>5. TypeOK'
  BY <1>1, <1>2, <1>4 DEF IInv, TypeOK, LocalPos, ExtPos, LoopOK
<1>6. Fresh' /\ Sorted'
  BY <1>1 DEF IInv, Fresh, Sorted
<1>7. AddedBelow'
  <2> SUFFICES ASSUME NEW k \in DOMAIN added', NEW q \in i..Len(localKey)
               PROVE  extKey[added'[k]] < localKey[dbArr[q]]
    BY <1>1 DEF AddedBelow
  <2>1. CASE k = Len(added) + 1
    <3>1. added'[k] = extArr[j]
      BY <1>4, <2>1 DEF Extends
    <3>2. i \in 1..Len(localKey) /\ q \in 1..Len(localKey) /\ i <= q
      BY <1>2 DEF LoopOK
    <3>3. localKey[dbArr[i]] <= localKey[dbArr[q]]
      BY <1>2, <3>2 DEF Ordered
    <3>4. /\ extKey[extArr[j]] \in Nat
          /\ localKey[dbArr[i]] \in Nat /\ localKey[dbArr[q]] \in Nat
      BY <1>2, <1>3, <3>2 DEF LoopOK, Ordered
    <3>5. extKey[extArr[j]] < localKey[dbArr[i]]
      BY <1>1, <1>2, <3>2 DEF LoopOK
    <3> QED
      BY <3>1, <3>3, <3>4, <3>5
  <2>2. CASE k \in 1..Len(added)
    <3>1. added'[k] = added[k] /\ k \in DOMAIN added
      BY <1>2, <1>4, <2>2 DEF Extends, LoopOK, Lists
    <3>2. extKey[added[k]] < localKey[dbArr[q]]
      BY <3>1 DEF IInv, AddedBelow
    <3> QED
      BY <3>1, <3>2
  <2> QED
    BY <1>2, <1>4, <2>1, <2>2 DEF Extends, LoopOK, Lists
<1>8. RemovedBelow' /\ Pairing'
  BY <1>1, <1>2 DEF IInv, RemovedBelow, Pairing, LoopOK
<1>9. NoSplit'
  <2> SUFFICES ASSUME NEW k \in DOMAIN added', NEW m \in DOMAIN removed
               PROVE  extKey[added'[k]] # localKey[removed[m]]
    BY <1>1 DEF NoSplit
  <2>1. CASE k = Len(added) + 1
    <3>1. added'[k] = extArr[j]
      BY <1>4, <2>1 DEF Extends
    <3>2. localKey[removed[m]] < extKey[extArr[j]]
      <4>1. j \in j..Len(extKey)
        BY <1>1, <1>2 DEF LoopOK
      <4> QED
        BY <4>1 DEF IInv, RemovedBelow
    <3>3. localKey[removed[m]] \in Nat /\ extKey[extArr[j]] \in Nat
      BY <1>2, <1>3 DEF LoopOK, Lists
    <3> QED
      BY <3>1, <3>2, <3>3
  <2>2. CASE k \in 1..Len(added)
    <3>1. added'[k] = added[k] /\ k \in DOMAIN added
      BY <1>2, <1>4, <2>2 DEF Extends, LoopOK, Lists
    <3> QED
      BY <3>1 DEF IInv, NoSplit
  <2> QED
    BY <1>2, <1>4, <2>1, <2>2 DEF Extends, LoopOK, Lists
<1>10. EachOnce'
  <2>1. /\ Len(removed') + Len(commonDB') = i' - 1
        /\ Len(added') + Len(commonExt') = j' - 1
    BY <1>1, <1>2, <1>4 DEF IInv, EachOnce, Extends, LoopOK, Lists
  <2>2. ASSUME NEW p \in 1..(j' - 1)
        PROVE  \/ \E k \in DOMAIN added' : added'[k] = extArr'[p]
               \/ \E k \in DOMAIN commonExt' : commonExt'[k] = extArr'[p]
    <3>1. CASE p = j
      <4>1. Len(added) + 1 \in DOMAIN added'
        BY <1>2, <1>4 DEF Extends, LoopOK, Lists
      <4>2. added'[Len(added) + 1] = extArr'[p]
        BY <1>1, <1>4, <3>1 DEF Extends
      <4> QED
        BY <4>1, <4>2
    <3>2. CASE p \in 1..(j - 1)
      <4>1. \/ \E k \in DOMAIN added : added[k] = extArr[p]
            \/ \E k \in DOMAIN commonExt : commonExt[k] = extArr[p]
        BY <1>1, <3>2 DEF IInv, EachOnce
      <4> QED
        BY <1>1, <1>2, <1>4, <4>1 DEF Extends, LoopOK, Lists
    <3> QED
      BY <1>1, <1>2, <3>1, <3>2 DEF LoopOK
  <2> QED
    BY <1>1, <2>1, <2>2 DEF IInv, EachOnce
<1> QED
  BY <1>5, <1>6, <1>7, <1>8, <1>9, <1>10 DEF IInv

\* Returning, or a step that changes nothing.
LEMMA IdleStep == IInv /\ (Return \/ UNCHANGED vars) => IInv'
<1> SUFFICES ASSUME IInv, Return \/ UNCHANGED vars PROVE IInv'
  OBVIOUS
<1>1. /\ UNCHANGED <<localKey, extKey, dbArr, extArr, i, j,
                     removed, commonDB, commonExt, added>>
      /\ pc' = pc \/ (pc = "loop" /\ pc' = "done")
  BY DEF Return, vars, inputs, arrays
<1>2. TypeOK'
  BY <1>1 DEF IInv, TypeOK, LocalPos, ExtPos
<1>3. Fresh' /\ Sorted'
  BY <1>1 DEF IInv, Fresh, Sorted
<1>4. RemovedBelow' /\ AddedBelow' /\ Pairing' /\ NoSplit'
  BY <1>1 DEF IInv, RemovedBelow, AddedBelow, Pairing, NoSplit
<1>5. EachOnce'
  BY <1>1 DEF IInv, EachOnce
<1> QED
  BY <1>2, <1>3, <1>4, <1>5 DEF IInv

LEMMA Inductive == Spec => []IInv
<1>1. IInv /\ [Next]_vars => IInv'
  BY SortStep, CommonStep, RemovedStep, AddedStep, IdleStep DEF Next
<1> QED
  BY InitIInv, <1>1, PTL DEF Spec

\* For inputs of any length, the indices of CompareSetsByFunc stay within one
\* past the end of the arrays and every result holds positions of its input.
THEOREM TypeCorrect == Spec => []TypeOK
<1>1. IInv => TypeOK
  BY DEF IInv
<1> QED
  BY Inductive, <1>1, PTL

\* commondb[k] and commonext[k], which syncClusterResources updates one from
\* the other, are always the same object.
THEOREM PairingHolds == Spec => []Pairing
<1>1. IInv => Pairing
  BY DEF IInv
<1> QED
  BY Inductive, <1>1, PTL

\* No external id is both removed and added, duplicate ids included.
THEOREM NoSplitHolds == Spec => []NoSplit
<1>1. IInv => NoSplit
  BY DEF IInv
<1> QED
  BY Inductive, <1>1, PTL

\* Nothing of either input is lost or counted twice by the merge.
THEOREM EachOnceHolds == Spec => []EachOnce
<1>1. IInv => EachOnce
  BY DEF IInv
<1> QED
  BY Inductive, <1>1, PTL

------------------------------------------------------------------------------
(* Counting *)

\* How often key c occurs among the first n elements of the sorted array.
Seen(key, arr, n, c) == Cardinality({p \in 1..n : key[arr[p]] = c})

\* What was visited of a key is in one of the two results for it.
Counted ==
  pc # "sort" =>
    \A c \in Keys :
      /\ Seen(localKey, dbArr, i - 1, c)
           = Occurrences(localKey, removed, c) + Occurrences(localKey, commonDB, c)
      /\ Seen(extKey, extArr, j - 1, c)
           = Occurrences(extKey, added, c) + Occurrences(extKey, commonExt, c)

LEMMA PartOfInterval ==
  ASSUME NEW n \in Nat, NEW X \in SUBSET (1..n)
  PROVE  IsFiniteSet(X) /\ Cardinality(X) \in Nat
<1>1. IsFiniteSet(1..n)
  BY FS_Interval
<1>2. IsFiniteSet(X)
  BY <1>1, FS_Subset
<1> QED
  BY <1>2, FS_CardinalityType

LEMMA OccurrencesNat ==
  ASSUME NEW key, NEW S, NEW s \in Seq(S), NEW c
  PROVE  Occurrences(key, s, c) \in Nat
<1>1. {k \in DOMAIN s : key[s[k]] = c} \in SUBSET (1..Len(s)) /\ Len(s) \in Nat
  OBVIOUS
<1> QED
  BY <1>1, PartOfInterval DEF Occurrences

LEMMA CountOne ==
  ASSUME NEW n \in Nat, NEW X \in SUBSET (1..n), NEW Y, NEW b \in BOOLEAN,
         Y = IF b THEN X \cup {n + 1} ELSE X
  PROVE  Cardinality(Y) = Cardinality(X) + (IF b THEN 1 ELSE 0)
<1>1. IsFiniteSet(X) /\ Cardinality(X) \in Nat
  BY PartOfInterval
<1>2. n + 1 \notin X
  OBVIOUS
<1>3. Cardinality(X \cup {n + 1}) = Cardinality(X) + 1
  BY <1>1, <1>2, FS_AddElement
<1>4. CASE b
  BY <1>3, <1>4
<1>5. CASE ~b
  BY <1>1, <1>5
<1> QED
  BY <1>4, <1>5

\* A result that gets one more element.
LEMMA OccurrencesStep ==
  ASSUME NEW key, NEW S, NEW s \in Seq(S), NEW e \in S, NEW t, Extends(t, s, e), NEW c
  PROVE  Occurrences(key, t, c) = Occurrences(key, s, c) + (IF key[e] = c THEN 1 ELSE 0)
<1> DEFINE X == {k \in DOMAIN s : key[s[k]] = c}
           Y == {k \in DOMAIN t : key[t[k]] = c}
           n == Len(s)
<1>1. n \in Nat /\ DOMAIN s = 1..n /\ DOMAIN t = 1..(n + 1)
      /\ (\A k \in 1..n : t[k] = s[k]) /\ t[n + 1] = e
  BY DEF Extends
<1>2. X \in SUBSET (1..n) /\ (key[e] = c) \in BOOLEAN
  BY <1>1
<1> HIDE DEF n
<1>3. Y = IF key[e] = c THEN X \cup {n + 1} ELSE X
  <2>1. \A k : k \in 1..(n + 1) <=> (k \in 1..n \/ k = n + 1)
    BY <1>1
  <2> QED
    BY <1>1, <2>1
<1> HIDE DEF X, Y
<1>4. Cardinality(Y) = Cardinality(X) + (IF key[e] = c THEN 1 ELSE 0)
  BY <1>1, <1>2, <1>3, CountOne
<1> QED
  BY <1>4 DEF Occurrences, X, Y

\* An index that advances.
LEMMA SeenStep ==
  ASSUME NEW key, NEW arr, NEW n \in Nat, NEW c
  PROVE  /\ Seen(key, arr, n, c) \in Nat
         /\ Seen(key, arr, n + 1, c)
              = Seen(key, arr, n, c) + (IF key[arr[n + 1]] = c THEN 1 ELSE 0)
<1> DEFINE X == {p \in 1..n : key[arr[p]] = c}
           Y == {p \in 1..(n + 1) : key[arr[p]] = c}
           b == key[arr[n + 1]] = c
<1>1. X \in SUBSET (1..n) /\ b \in BOOLEAN
  OBVIOUS
<1>2. Y = IF b THEN X \cup {n + 1} ELSE X
  <2>1. \A k : k \in 1..(n + 1) <=> (k \in 1..n \/ k = n + 1)
    OBVIOUS
  <2> QED
    BY <2>1
<1> HIDE DEF X, Y
<1>3. Cardinality(Y) = Cardinality(X) + (IF b THEN 1 ELSE 0)
  BY <1>1, <1>2, CountOne
<1>4. Cardinality(X) \in Nat
  BY <1>1, PartOfInterval
<1> QED
  BY <1>3, <1>4 DEF Seen, X, Y

\* Sorting changes no count.
LEMMA Permuted ==
  ASSUME NEW key \in KeySeqs, NEW arr, SortedPermutation(arr, key), NEW c
  PROVE  Seen(key, arr, Len(key), c) = Total(key, c)
<1> DEFINE n == Len(key)
           D == 1..n
           S == {p \in D : key[arr[p]] = c}
           T == {p \in D : key[p] = c}
           f == [p \in S |-> arr[p]]
<1>1. n \in Nat /\ DOMAIN key = D
  BY KeySeqFacts
<1>2. arr \in [D -> D] /\ \A p, q \in D : p # q => arr[p] # arr[q]
  BY <1>1 DEF SortedPermutation
<1>3. IsFiniteSet(D)
  BY <1>1, FS_Interval
<1>4. arr \in Injection(D, D)
  BY <1>2 DEF Injection, IsInjective
<1> HIDE DEF D
<1>5. arr \in Surjection(D, D)
  BY <1>3, <1>4, FS_Injection
<1>6. \A q \in D : \E p \in D : arr[p] = q
  BY <1>5 DEF Surjection
<1>7. f \in Bijection(S, T)
  <2>1. f \in [S -> T]
    BY <1>2
  <2>2. \A p, q \in S : f[p] = f[q] => p = q
    BY <1>2
  <2>3. \A q \in T : \E p \in S : f[p] = q
    BY <1>6
  <2> QED
    BY <2>1, <2>2, <2>3 DEF Bijection, Injection, Surjection, IsInjective
<1>8. IsFiniteSet(S)
  BY <1>3, FS_Subset
<1>9. Cardinality(T) = Cardinality(S)
  <2> HIDE DEF S, T, f
  <2> QED
    BY <1>7, <1>8, FS_Bijection DEF ExistsBijection
<1> QED
  BY <1>1, <1>9 DEF Seen, Total, D

\* The common results of one key are as many on both sides.
LEMMA CommonAlike ==
  ASSUME IInv, NEW c
  PROVE  Occurrences(localKey, commonDB, c) = Occurrences(extKey, commonExt, c)
<1>1. commonDB \in Seq(LocalPos) /\ commonExt \in Seq(ExtPos) /\ Len(commonDB) = Len(commonExt)
  BY DEF IInv, TypeOK, Pairing
<1>2. DOMAIN commonDB = DOMAIN commonExt
  BY <1>1
<1>3. {k \in DOMAIN commonDB : localKey[commonDB[k]] = c}
        = {k \in DOMAIN commonExt : extKey[commonExt[k]] = c}
  BY <1>2 DEF IInv, Pairing
<1> QED
  BY <1>3 DEF Occurrences

\* The numbers that the counts are.
LEMMA CountTypes ==
  ASSUME IInv, pc # "sort", NEW c
  PROVE  /\ Occurrences(localKey, removed, c) \in Nat /\ Occurrences(localKey, commonDB, c) \in Nat
         /\ Occurrences(extKey, added, c) \in Nat /\ Occurrences(extKey, commonExt, c) \in Nat
         /\ i - 1 \in Nat /\ j - 1 \in Nat
         /\ Seen(localKey, dbArr, i, c)
              = Seen(localKey, dbArr, i - 1, c) + (IF localKey[dbArr[i]] = c THEN 1 ELSE 0)
         /\ Seen(extKey, extArr, j, c)
              = Seen(extKey, extArr, j - 1, c) + (IF extKey[extArr[j]] = c THEN 1 ELSE 0)
<1>1. /\ removed \in Seq(LocalPos) /\ commonDB \in Seq(LocalPos)
      /\ added \in Seq(ExtPos) /\ commonExt \in Seq(ExtPos)
  BY DEF IInv, TypeOK
<1>2. i - 1 \in Nat /\ j - 1 \in Nat /\ (i - 1) + 1 = i /\ (j - 1) + 1 = j
  BY LoopFacts DEF LoopOK
<1>3. Seen(localKey, dbArr, i, c)
        = Seen(localKey, dbArr, i - 1, c) + (IF localKey[dbArr[i]] = c THEN 1 ELSE 0)
  <2>1. Seen(localKey, dbArr, (i - 1) + 1, c)
          = Seen(localKey, dbArr, i - 1, c) + (IF localKey[dbArr[(i - 1) + 1]] = c THEN 1 ELSE 0)
    BY <1>2, SeenStep
  <2> QED
    BY <1>2, <2>1
<1>4. Seen(extKey, extArr, j, c)
        = Seen(extKey, extArr, j - 1, c) + (IF extKey[extArr[j]] = c THEN 1 ELSE 0)
  <2>1. Seen(extKey, extArr, (j - 1) + 1, c)
          = Seen(extKey, extArr, j - 1, c) + (IF extKey[extArr[(j - 1) + 1]] = c THEN 1 ELSE 0)
    BY <1>2, SeenStep
  <2> QED
    BY <1>2, <2>1
<1> QED
  BY <1>1, <1>2, <1>3, <1>4, OccurrencesNat

LEMMA CommonCounted == ASSUME IInv, Counted, TakeCommon PROVE Counted'
<1>1. /\ localKey' = localKey /\ extKey' = extKey /\ dbArr' = dbArr /\ extArr' = extArr
      /\ i <= Len(localKey) /\ j <= Len(extKey)
      /\ i' = i + 1 /\ j' = j + 1 /\ removed' = removed /\ added' = added
      /\ commonDB' = Append(commonDB, dbArr[i]) /\ commonExt' = Append(commonExt, extArr[j])
      /\ pc = "loop"
  BY DEF TakeCommon, LoopRuns, DbLeft, ExtLeft, inputs, arrays
<1>2. LoopOK /\ Ordered(dbArr, localKey) /\ Ordered(extArr, extKey)
  BY <1>1, LoopFacts
<1>3. dbArr[i] \in LocalPos /\ extArr[j] \in ExtPos /\ i' - 1 = i /\ j' - 1 = j
  BY <1>1, <1>2 DEF LoopOK, Ordered
<1>4. /\ commonDB \in Seq(LocalPos) /\ Extends(commonDB', commonDB, dbArr[i])
      /\ commonExt \in Seq(ExtPos) /\ Extends(commonExt', commonExt, extArr[j])
  BY <1>1, <1>2, <1>3, AppendFacts DEF LoopOK, Lists
<1>5. ASSUME NEW c \in Keys
      PROVE  /\ Seen(localKey, dbArr, i, c)
                  = Occurrences(localKey, removed, c) + Occurrences(localKey, commonDB', c)
             /\ Seen(extKey, extArr, j, c)
                  = Occurrences(extKey, added, c) + Occurrences(extKey, commonExt', c)
  <2>1. /\ Occurrences(localKey, commonDB', c)
             = Occurrences(localKey, commonDB, c) + (IF localKey[dbArr[i]] = c THEN 1 ELSE 0)
        /\ Occurrences(extKey, commonExt', c)
             = Occurrences(extKey, commonExt, c) + (IF extKey[extArr[j]] = c THEN 1 ELSE 0)
    BY <1>3, <1>4, OccurrencesStep
  <2>2. /\ Seen(localKey, dbArr, i - 1, c)
             = Occurrences(localKey, removed, c) + Occurrences(localKey, commonDB, c)
        /\ Seen(extKey, extArr, j - 1, c)
             = Occurrences(extKey, added, c) + Occurrences(extKey, commonExt, c)
    BY <1>1 DEF Counted
  <2>3. pc # "sort"
    BY <1>1
  <2>4. Seen(localKey, dbArr, i, c)
          = Occurrences(localKey, removed, c) + Occurrences(localKey, commonDB', c)
    BY <2>1, <2>2, <2>3, CountTypes
  <2>5. Seen(extKey, extArr, j, c)
          = Occurrences(extKey, added, c) + Occurrences(extKey, commonExt', c)
    BY <2>1, <2>2, <2>3, CountTypes
  <2> QED
    BY <2>4, <2>5
<1> QED
  BY <1>1, <1>3, <1>5 DEF Counted

LEMMA RemovedCounted == ASSUME IInv, Counted, TakeRemoved PROVE Counted'
<1>1. /\ localKey' = localKey /\ extKey' = extKey /\ dbArr' = dbArr /\ extArr' = extArr
      /\ i <= Len(localKey) /\ i' = i + 1 /\ j' = j
      /\ removed' = Append(removed, dbArr[i]) /\ added' = added
      /\ commonDB' = commonDB /\ commonExt' = commonExt /\ pc = "loop"
  BY DEF TakeRemoved, LoopRuns, DbLeft, inputs, arrays
<1>2. LoopOK /\ Ordered(dbArr, localKey)
  BY <1>1, LoopFacts
<1>3. dbArr[i] \in LocalPos /\ i' - 1 = i
  BY <1>1, <1>2 DEF LoopOK, Ordered
<1>4. removed \in Seq(LocalPos) /\ Extends(removed', removed, dbArr[i])
  BY <1>1, <1>2, <1>3, AppendFacts DEF LoopOK, Lists
<1>5. ASSUME NEW c \in Keys
      PROVE  Seen(localKey, dbArr, i, c)
               = Occurrences(localKey, removed', c) + Occurrences(localKey, commonDB, c)
  <2>1. Occurrences(localKey, removed', c)
          = Occurrences(localKey, removed, c) + (IF localKey[dbArr[i]] = c THEN 1 ELSE 0)
    BY <1>3, <1>4, OccurrencesStep
  <2>2. Seen(localKey, dbArr, i - 1, c)
          = Occurrences(localKey, removed, c) + Occurrences(localKey, commonDB, c)
    BY <1>1 DEF Counted
  <2> QED
    BY <1>1, <2>1, <2>2, CountTypes
<1>6. \A c \in Keys : Seen(extKey, extArr, j - 1, c)
                        = Occurrences(extKey, added, c) + Occurrences(extKey, commonExt, c)
  BY <1>1 DEF Counted
<1> QED
  BY <1>1, <1>3, <1>5, <1>6 DEF Counted

LEMMA AddedCounted == ASSUME IInv, Counted, TakeAdded PROVE Counted'
<1>1. /\ localKey' = localKey /\ extKey' = extKey /\ dbArr' = dbArr /\ extArr' = extArr
      /\ j <= Len(extKey) /\ j' = j + 1 /\ i' = i
      /\ added' = Append(added, extArr[j]) /\ removed' = removed
      /\ commonDB' = commonDB /\ commonExt' = commonExt /\ pc = "loop"
  BY DEF TakeAdded, LoopRuns, ExtLeft, inputs, arrays
<1>2. LoopOK /\ Ordered(extArr, extKey)
  BY <1>1, LoopFacts
<1>3. extArr[j] \in ExtPos /\ j' - 1 = j
  BY <1>1, <1>2 DEF LoopOK, Ordered
<1>4. added \in Seq(ExtPos) /\ Extends(added', added, extArr[j])
  BY <1>1, <1>2, <1>3, AppendFacts DEF LoopOK, Lists
<1>5. ASSUME NEW c \in Keys
      PROVE  Seen(extKey, extArr, j, c)
               = Occurrences(extKey, added', c) + Occurrences(extKey, commonExt, c)
  <2>1. Occurrences(extKey, added', c)
          = Occurrences(extKey, added, c) + (IF extKey[extArr[j]] = c THEN 1 ELSE 0)
    BY <1>3, <1>4, OccurrencesStep
  <2>2. Seen(extKey, extArr, j - 1, c)
          = Occurrences(extKey, added, c) + Occurrences(extKey, commonExt, c)
    BY <1>1 DEF Counted
  <2> QED
    BY <1>1, <2>1, <2>2, CountTypes
<1>6. \A c \in Keys : Seen(localKey, dbArr, i - 1, c)
                        = Occurrences(localKey, removed, c) + Occurrences(localKey, commonDB, c)
  BY <1>1 DEF Counted
<1> QED
  BY <1>1, <1>3, <1>5, <1>6 DEF Counted

LEMMA SortCounted == ASSUME IInv, SortArrays PROVE Counted'
<1>1. /\ i' = 1 /\ j' = 1
      /\ removed' = <<>> /\ added' = <<>> /\ commonDB' = <<>> /\ commonExt' = <<>>
  BY DEF IInv, Fresh, SortArrays, inputs
<1>2. \A key, c : Occurrences(key, <<>>, c) = 0
  <2>1. \A key, c : {k \in DOMAIN <<>> : key[<<>>[k]] = c} = {}
    OBVIOUS
  <2> QED
    BY <2>1, FS_EmptySet DEF Occurrences
<1>3. \A key, arr, c : Seen(key, arr, 0, c) = 0
  <2>1. \A key, arr, c : {p \in 1..0 : key[arr[p]] = c} = {}
    OBVIOUS
  <2> QED
    BY <2>1, FS_EmptySet DEF Seen
<1>4. i' - 1 = 0 /\ j' - 1 = 0
  BY <1>1
<1>5. ASSUME NEW c \in Keys
      PROVE  /\ Seen(localKey', dbArr', i' - 1, c)
                  = Occurrences(localKey', removed', c) + Occurrences(localKey', commonDB', c)
             /\ Seen(extKey', extArr', j' - 1, c)
                  = Occurrences(extKey', added', c) + Occurrences(extKey', commonExt', c)
  BY <1>1, <1>2, <1>3, <1>4
<1> QED
  BY <1>5 DEF Counted

LEMMA InductiveCounted == Spec => []Counted
<1>1. Init => Counted
  BY DEF Init, Counted
<1>2. IInv /\ Counted /\ [Next]_vars => Counted'
  <2> SUFFICES ASSUME IInv, Counted, [Next]_vars PROVE Counted'
    OBVIOUS
  <2>1. CASE Return \/ UNCHANGED vars
    <3>1. /\ UNCHANGED <<localKey, extKey, dbArr, extArr, i, j,
                         removed, commonDB, commonExt, added>>
          /\ pc' = "sort" \/ pc # "sort"
      BY <2>1 DEF Return, vars, inputs, arrays
    <3> QED
      BY <3>1 DEF Counted
  <2> QED
    BY <2>1, SortCounted, CommonCounted, RemovedCounted, AddedCounted DEF Next
<1> QED
  BY Inductive, <1>1, <1>2, PTL DEF Spec

\* A result that holds key c in no place counts it zero times.
LEMMA NoOccurrence ==
  ASSUME NEW key, NEW s, NEW c, \A k \in DOMAIN s : key[s[k]] # c
  PROVE  Occurrences(key, s, c) = 0
<1>1. {k \in DOMAIN s : key[s[k]] = c} = {}
  OBVIOUS
<1> QED
  BY <1>1, FS_EmptySet DEF Occurrences

\* The merge returns what the reference definition says, for slices of any
\* length with any number of duplicate ids: of every external id as many
\* pairs as both sides have copies, and the surplus removed or added
\* (CompareSetsByFunc, which only looks at the heads of two sorted arrays).
THEOREM ReferenceMatched == Spec => []MatchesReference
<1>1. IInv /\ (pc = "done" => i = Len(localKey) + 1 /\ j = Len(extKey) + 1) /\ Counted
        => MatchesReference
  <2> SUFFICES ASSUME IInv, Counted, pc = "done", i = Len(localKey) + 1, j = Len(extKey) + 1,
                      NEW c \in Keys
               PROVE  /\ Occurrences(localKey, removed, c)
                           = Monus(Total(localKey, c), Total(extKey, c))
                      /\ Occurrences(extKey, added, c)
                           = Monus(Total(extKey, c), Total(localKey, c))
    BY DEF MatchesReference
  <2> DEFINE a == Occurrences(localKey, removed, c)
             b == Occurrences(localKey, commonDB, c)
             d == Occurrences(extKey, added, c)
  <2>1. localKey \in KeySeqs /\ extKey \in KeySeqs
        /\ SortedPermutation(dbArr, localKey) /\ SortedPermutation(extArr, extKey)
    BY DEF IInv, TypeOK, Sorted
  <2>2. i - 1 = Len(localKey) /\ j - 1 = Len(extKey)
    BY <2>1, KeySeqFacts
  <2>3. Total(localKey, c) = Seen(localKey, dbArr, i - 1, c)
        /\ Total(extKey, c) = Seen(extKey, extArr, j - 1, c)
    BY <2>1, <2>2, Permuted
  <2>4. /\ Seen(localKey, dbArr, i - 1, c) = a + b
        /\ Seen(extKey, extArr, j - 1, c) = d + Occurrences(extKey, commonExt, c)
    BY DEF Counted
  <2>5. Occurrences(extKey, commonExt, c) = b
    BY CommonAlike
  <2>6. a \in Nat /\ b \in Nat /\ d \in Nat
    BY CountTypes
  <2>7. a = 0 \/ d = 0
    <3>1. CASE \E k \in DOMAIN removed : localKey[removed[k]] = c
      <4>1. \A m \in DOMAIN added : extKey[added[m]] # c
        BY <3>1 DEF IInv, NoSplit
      <4> QED
        BY <4>1, NoOccurrence
    <3>2. CASE \A k \in DOMAIN removed : localKey[removed[k]] # c
      BY <3>2, NoOccurrence
    <3> QED
      BY <3>1, <3>2
  <2> HIDE DEF a, b, d
  <2>8. Total(localKey, c) = a + b /\ Total(extKey, c) = d + b
    BY <2>3, <2>4, <2>5
  <2>9. a = Monus(a + b, d + b) /\ d = Monus(d + b, a + b)
    BY <2>6, <2>7 DEF Monus
  <2> QED
    BY <2>8, <2>9 DEF a, d
<1> DEFINE Ended == pc = "done" => i = Len(localKey) + 1 /\ j = Len(extKey) + 1
<1>2. Init => Ended
  BY DEF Init
<1>3. IInv /\ Ended /\ [Next]_vars => Ended'
  <2> SUFFICES ASSUME IInv, Ended, [Next]_vars PROVE Ended'
    OBVIOUS
  <2>1. CASE Return
    <3>1. LoopOK /\ i' = i /\ j' = j /\ localKey' = localKey /\ extKey' = extKey
          /\ ~(i <= Len(localKey)) /\ ~(j <= Len(extKey))
      BY <2>1, LoopFacts DEF Return, DbLeft, ExtLeft, inputs
    <3> QED
      BY <3>1 DEF LoopOK
  <2>2. CASE pc' # "done"
    BY <2>2
  <2>3. CASE UNCHANGED vars
    BY <2>3 DEF vars
  <2>4. CASE SortArrays \/ TakeCommon \/ TakeRemoved \/ TakeAdded
    BY <2>2, <2>4 DEF SortArrays, TakeCommon, TakeRemoved, TakeAdded, LoopRuns
  <2> QED
    BY <2>1, <2>3, <2>4 DEF Next
<1> HIDE DEF Ended
<1>4. IInv /\ Ended /\ Counted => MatchesReference
  BY <1>1 DEF Ended
<1> QED
  BY Inductive, InductiveCounted, <1>2, <1>3, <1>4, PTL DEF Spec
=============================================================================
