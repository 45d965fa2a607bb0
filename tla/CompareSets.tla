----------------------------- MODULE CompareSets -----------------------------
(***************************************************************************)
(* CompareSetsByFunc of models/compare.go: the merge that decides which    *)
(* database rows a sync pass removes, which it updates and which remote    *)
(* objects it adds.  Both inputs are turned into arrays of (key, value),   *)
(* sorted by key, and walked with two indices.                             *)
(*                                                                         *)
(* A key is a natural number standing for an external id or UID (only      *)
(* their order matters); a value is its position in the input slice.       *)
(* sort.Sort is not stable: every sorted permutation is a possible result. *)
(***************************************************************************)
EXTENDS Naturals, Sequences, FiniteSets

CONSTANTS Keys,      \* the possible external ids
          MaxLen     \* longest input slice considered

ASSUME KeysAssumption   == Keys \subseteq Nat
ASSUME MaxLenAssumption == MaxLen \in Nat

VARIABLES localKey,   \* external id of each database object
          extKey,     \* UID of each remote object
          dbArr,      \* dbSetArray: positions of localKey in sorted order
          extArr,     \* extSetArray: positions of extKey in sorted order
          i, j,       \* loop indices (1-based)
          removed, commonDB, commonExt, added,
          pc          \* "sort", "loop" or "done"

vars == <<localKey, extKey, dbArr, extArr, i, j,
          removed, commonDB, commonExt, added, pc>>

inputs == <<localKey, extKey>>
arrays == <<dbArr, extArr>>

KeySeqs == UNION {[1..n -> Keys] : n \in 0..MaxLen}

\* Mutant: the array is a permutation, but sort.Sort was not called on it.
AnyPermutation(arr, key) ==
  /\ arr \in [DOMAIN key -> DOMAIN key]
  /\ \A p, q \in DOMAIN key : p # q => arr[p] # arr[q]

\* A possible result of sort.Sort(valueSet(arr)): a permutation of the
\* positions of key, ordered by strings.Compare of the keys.
SortedPermutation(arr, key) ==
  /\ arr \in [DOMAIN key -> DOMAIN key]
  /\ \A p, q \in DOMAIN key : p # q => arr[p] # arr[q]
  /\ \A p, q \in DOMAIN key : p < q => key[arr[p]] <= key[arr[q]]

Init ==
  /\ localKey \in KeySeqs
  /\ extKey \in KeySeqs
  /\ dbArr = <<>>
  /\ extArr = <<>>
  /\ i = 1
  /\ j = 1
  /\ removed = <<>>
  /\ commonDB = <<>>
  /\ commonExt = <<>>
  /\ added = <<>>
  /\ pc = "sort"

\* valueSet2Array on both slices followed by the two calls of sort.Sort.
SortArrays ==
  /\ pc = "sort"
  /\ dbArr' \in [DOMAIN localKey -> DOMAIN localKey]
  /\ SortedPermutation(dbArr', localKey)
  /\ extArr' \in [DOMAIN extKey -> DOMAIN extKey]
  /\ SortedPermutation(extArr', extKey)
  /\ pc' = "loop"
  /\ UNCHANGED <<inputs, i, j, removed, commonDB, commonExt, added>>

\* The key under each index, when there is one.
DbLeft  == i <= Len(localKey)
ExtLeft == j <= Len(extKey)
DbKey   == localKey[dbArr[i]]
ExtKey  == extKey[extArr[j]]

\* The loop condition of the merge.
LoopRuns == pc = "loop" /\ (DbLeft \/ ExtLeft)

\* Mutant: the remote index is not advanced on a match.
TakeCommonKeepsExt ==
  /\ LoopRuns
  /\ DbLeft /\ ExtLeft
  /\ DbKey = ExtKey
  /\ commonDB' = Append(commonDB, dbArr[i])
  /\ commonExt' = Append(commonExt, extArr[j])
  /\ i' = i + 1
  /\ UNCHANGED <<inputs, arrays, j, removed, added, pc>>

\* Mutant: the pair is taken from the remote array's next position.
TakeCommonShifted ==
  /\ LoopRuns
  /\ DbLeft /\ ExtLeft
  /\ DbKey = ExtKey
  /\ commonDB' = Append(commonDB, dbArr[i])
  /\ commonExt' = Append(commonExt, extArr[Len(commonExt) + 1])
  /\ i' = i + 1
  /\ j' = j + 1
  /\ UNCHANGED <<inputs, arrays, removed, added, pc>>

\* cmp == 0
TakeCommon ==
  /\ LoopRuns
  /\ DbLeft /\ ExtLeft
  /\ DbKey = ExtKey
  /\ commonDB' = Append(commonDB, dbArr[i])
  /\ commonExt' = Append(commonExt, extArr[j])
  /\ i' = i + 1
  /\ j' = j + 1
  /\ UNCHANGED <<inputs, arrays, removed, added, pc>>

\* Mutant: both indices advance on a removal.
TakeRemovedSkipsExt ==
  /\ LoopRuns
  /\ DbLeft
  /\ ExtLeft => DbKey < ExtKey
  /\ removed' = Append(removed, dbArr[i])
  /\ i' = i + 1
  /\ j' = j + 1
  /\ UNCHANGED <<inputs, arrays, commonDB, commonExt, added, pc>>

\* Mutant: the index of the database array is not advanced.
TakeRemovedStays ==
  /\ LoopRuns
  /\ DbLeft
  /\ ExtLeft => DbKey < ExtKey
  /\ UNCHANGED vars

\* cmp < 0, or the remote array is exhausted
TakeRemoved ==
  /\ LoopRuns
  /\ DbLeft
  /\ ExtLeft => DbKey < ExtKey
  /\ removed' = Append(removed, dbArr[i])
  /\ i' = i + 1
  /\ UNCHANGED <<inputs, arrays, j, commonDB, commonExt, added, pc>>

\* cmp > 0, or the database array is exhausted
TakeAdded ==
  /\ LoopRuns
  /\ ExtLeft
  /\ DbLeft => DbKey > ExtKey
  /\ added' = Append(added, extArr[j])
  /\ j' = j + 1
  /\ UNCHANGED <<inputs, arrays, i, removed, commonDB, commonExt, pc>>

Return ==
  /\ pc = "loop"
  /\ ~DbLeft /\ ~ExtLeft
  /\ pc' = "done"
  /\ UNCHANGED <<inputs, arrays, i, j, removed, commonDB, commonExt, added>>

Next == SortArrays \/ TakeCommon \/ TakeRemoved \/ TakeAdded \/ Return

Spec == Init /\ [][Next]_vars /\ WF_vars(Next)

------------------------------------------------------------------------------
(* Properties *)

LocalPos == DOMAIN localKey
ExtPos   == DOMAIN extKey

\* Type invariant: the results hold positions of the inputs and the indices
\* stay within one past the end of the arrays.
TypeOK ==
  /\ localKey \in KeySeqs
  /\ extKey \in KeySeqs
  /\ pc \in {"sort", "loop", "done"}
  /\ i \in 1..(Len(localKey) + 1)
  /\ j \in 1..(Len(extKey) + 1)
  /\ removed \in Seq(LocalPos) /\ commonDB \in Seq(LocalPos)
  /\ added \in Seq(ExtPos) /\ commonExt \in Seq(ExtPos)

\* commonDB and commonExt are parallel: syncClusterResources updates
\* commondb[i] from commonext[i], so position k of both must be the same
\* object.
Pairing ==
  /\ Len(commonDB) = Len(commonExt)
  /\ \A k \in DOMAIN commonDB : localKey[commonDB[k]] = extKey[commonExt[k]]

\* No external id is both removed and added: the pass never deletes the row
\* of an object that it is about to insert again, duplicates included.
NoSplit ==
  \A k \in DOMAIN removed : \A m \in DOMAIN added :
    localKey[removed[k]] # extKey[added[m]]

\* Every database object visited so far is in exactly one of removed and
\* commonDB, every remote object visited in exactly one of added and commonExt.
EachOnce ==
  pc # "sort" =>
    /\ Len(removed) + Len(commonDB) = i - 1
    /\ Len(added) + Len(commonExt) = j - 1
    /\ \A p \in 1..(i - 1) :
         \/ \E k \in DOMAIN removed : removed[k] = dbArr[p]
         \/ \E k \in DOMAIN commonDB : commonDB[k] = dbArr[p]
    /\ \A q \in 1..(j - 1) :
         \/ \E k \in DOMAIN added : added[k] = extArr[q]
         \/ \E k \in DOMAIN commonExt : commonExt[k] = extArr[q]

\* How often key c occurs among the positions listed in s.
Occurrences(key, s, c) == Cardinality({k \in DOMAIN s : key[s[k]] = c})
Total(key, c) == Cardinality({p \in DOMAIN key : key[p] = c})
Monus(a, b) == IF a > b THEN a - b ELSE 0

\* The reference definition of the comparison: per key, as many pairs as both
\* sides have copies, the surplus rows removed, the surplus objects added.
MatchesReference ==
  pc = "done" =>
    \A c \in Keys :
      /\ Occurrences(localKey, removed, c)
           = Monus(Total(localKey, c), Total(extKey, c))
      /\ Occurrences(extKey, added, c)
           = Monus(Total(extKey, c), Total(localKey, c))

\* The merge loop ends: every iteration advances an index.
Terminates == <>(pc = "done")
=============================================================================
