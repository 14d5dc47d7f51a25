----------------------- MODULE IndexAllocator_proofs -----------------------
(***************************************************************************)
(* The allocation loop is correct for every limit, every set of indices in *)
(* use and every number required.                                          *)
(***************************************************************************)
EXTENDS IndexAllocator, WellFoundedInduction, TLAPS

\* What Append does to the list of indices taken.
LEMMA AppendTaken ==
  ASSUME NEW q \in Seq(Nat), NEW x \in Nat
  PROVE  /\ Append(q, x) \in Seq(Nat)
         /\ Len(Append(q, x)) = Len(q) + 1
         /\ Len(q) \in Nat
         /\ \A i \in 1..Len(q) : Append(q, x)[i] = q[i] /\ q[i] \in Nat
         /\ Append(q, x)[Len(q) + 1] = x
  OBVIOUS

\* Bits are natural numbers, and every index below MaxIndex is one.
LEMMA BitsType ==
  ASSUME used \in SUBSET Nat
  PROVE  Bits \subseteq Nat /\ 0..MaxIndex - 1 \subseteq Bits
  BY AllocatorAssumption DEF Bits

\* A free index at or after from is never before the one NextClear returns.
LEMMA NextClearIsLowest ==
  ASSUME used \in SUBSET Nat, NEW from \in Nat, NEW j \in Bits, NextClear(from, j),
         NEW v \in (1..MaxIndex - 1) \ used, from <= v
  PROVE  j <= v
  <1>1. v \in Bits /\ Clear(v) /\ v \in Nat /\ j \in Nat
    BY BitsType, AllocatorAssumption DEF Clear
  <1>2. QED
    BY <1>1 DEF NextClear

\* A set of natural numbers that is not empty has a least element.
LEMMA LeastElement ==
  ASSUME NEW S \in SUBSET Nat, NEW v \in S
  PROVE  \E j \in S : \A k \in S : j <= k
  <1> DEFINE R == OpToRel(<, Nat)
  <1>1. PICK j \in S : \A k \in S : ~(<<k, j>> \in R)
    <2>1. IsWellFoundedOn(R, Nat)
      BY NatLessThanWellFounded
    <2> HIDE DEF R
    <2>2. QED
      BY <2>1, WFMin
  <1>2. \A k \in S : ~(k < j)
    BY <1>1 DEF OpToRel
  <1>3. QED
    BY <1>2

\* Initially nothing is searched.
LEMMA AllocInit == Init => AllocInv
  BY AllocatorAssumption
  DEF Init, AllocInv, AllocType, SearchedUpToNext, LowestFree, ErrorOnlyWhenExhausted, Taken

\* A turn of the loop that finds an index keeps the loop invariant.
LEMMA TakeKeeps ==
  ASSUME AllocInv, Take
  PROVE  AllocInv'
  <1>1. PICK j \in Bits : /\ NextClear(next, j) /\ j <= MaxIndex
                          /\ rlist' = Append(rlist, j) /\ next' = j + 1
    BY DEF Take
  <1>2. UNCHANGED <<used, requiredNum, outcome>> /\ outcome = "loop"
        /\ Len(rlist) < requiredNum
    BY DEF Take
  <1>3. used \in SUBSET Nat /\ next \in Nat /\ rlist \in Seq(Nat) /\ requiredNum \in Nat
    BY DEF AllocInv, AllocType
  <1>4. j \in Nat /\ j # 0 /\ j \notin used /\ j >= next
    BY <1>1, <1>3, BitsType DEF NextClear, Clear
  <1>5. /\ rlist' \in Seq(Nat) /\ Len(rlist') = Len(rlist) + 1 /\ Len(rlist) \in Nat
        /\ \A i \in 1..Len(rlist) : rlist'[i] = rlist[i] /\ rlist[i] \in Nat
        /\ rlist'[Len(rlist) + 1] = j
    BY <1>1, <1>3, <1>4, AppendTaken
  <1>6. \A i \in 1..Len(rlist') : i \in 1..Len(rlist) \/ (i = Len(rlist) + 1 /\ rlist'[i] = j)
    BY <1>5
  <1>7. Taken' = Taken \cup {j}
    BY <1>5, <1>6 DEF Taken
  <1>8. AllocType'
    BY <1>1, <1>2, <1>3, <1>4, <1>5 DEF AllocInv, AllocType
  <1>9. \A i \in 1..Len(rlist) : rlist[i] < next
    BY DEF AllocInv, SearchedUpToNext
  <1>10. SearchedUpToNext'
    <2>1. \A i \in 1..Len(rlist') : rlist'[i] < next'
      BY <1>1, <1>3, <1>4, <1>5, <1>6, <1>9
    <2>2. ASSUME NEW v \in (1..MaxIndex - 1) \ used, v < next'
          PROVE  v \in Taken'
      <3>1. CASE v < next
        BY <3>1, <1>7 DEF AllocInv, SearchedUpToNext
      <3>2. CASE next <= v
        <4>1. v \in Nat
          BY AllocatorAssumption
        <4>2. v = j
          BY <1>1, <1>3, <1>4, <2>2, <3>2, <4>1, NextClearIsLowest
        <4>3. QED
          BY <4>2, <1>7
      <3>3. QED
        BY <1>3, <3>1, <3>2, AllocatorAssumption
    <2>3. Len(rlist') <= requiredNum'
      BY <1>2, <1>3, <1>5
    <2>4. QED
      BY <1>2, <2>1, <2>2, <2>3 DEF SearchedUpToNext
  <1>11. LowestFree'
    <2>1. ASSUME NEW i \in 1..Len(rlist')
          PROVE  rlist'[i] \in (1..MaxIndex) \ used'
      BY <1>1, <1>2, <1>4, <1>5, <1>6, AllocatorAssumption DEF AllocInv, LowestFree
    <2>2. ASSUME NEW i \in 1..Len(rlist'), NEW k \in 1..Len(rlist'), i < k
          PROVE  rlist'[i] < rlist'[k]
      <3>1. i \in 1..Len(rlist)
        BY <1>5, <2>2
      <3>2. CASE k \in 1..Len(rlist)
        BY <1>5, <2>2, <3>1, <3>2 DEF AllocInv, LowestFree
      <3>3. CASE rlist'[k] = j
        BY <1>3, <1>4, <1>5, <1>9, <3>1, <3>3
      <3>4. QED
        BY <1>6, <3>2, <3>3
    <2>3. ASSUME NEW v \in (1..MaxIndex - 1) \ used', NEW i \in 1..Len(rlist'), v < rlist'[i]
          PROVE  v \in Taken'
      <3>1. rlist'[i] < next' /\ rlist'[i] \in Nat /\ next' \in Nat /\ v \in Nat
        BY <1>8, <1>10, <1>5, <1>6, <1>4, AllocatorAssumption DEF SearchedUpToNext, AllocType
      <3>2. v < next'
        BY <2>3, <3>1
      <3>3. QED
        BY <3>2, <1>10 DEF SearchedUpToNext
    <2>4. QED
      BY <2>1, <2>2, <2>3 DEF LowestFree
  <1>12. ErrorOnlyWhenExhausted'
    BY <1>2 DEF ErrorOnlyWhenExhausted
  <1>13. QED
    BY <1>8, <1>10, <1>11, <1>12 DEF AllocInv

\* The function gives up only when everything below MaxIndex is in use.
LEMMA FailKeeps ==
  ASSUME AllocInv, Fail
  PROVE  AllocInv'
  <1>1. UNCHANGED <<used, requiredNum, next, rlist>> /\ outcome' = "error"
        /\ Len(rlist) < requiredNum
    BY DEF Fail
  <1>2. used \in SUBSET Nat /\ next \in Nat
    BY DEF AllocInv, AllocType
  <1>3. ASSUME NEW v \in (1..MaxIndex - 1) \ used
        PROVE  v \in Taken
    <2>1. v \in Nat /\ v \in Bits /\ Clear(v) /\ v < MaxIndex
      BY <1>2, BitsType, AllocatorAssumption DEF Clear
    <2>2. CASE v < next
      BY <2>2 DEF AllocInv, SearchedUpToNext
    <2>3. CASE next <= v
      <3> DEFINE S == {k \in Nat : k \in Bits /\ next <= k /\ Clear(k)}
      <3>1. PICK j \in S : \A k \in S : j <= k
        <4>1. S \subseteq Nat /\ v \in S
          BY <2>1, <2>3
        <4>2. QED
          BY <4>1, LeastElement
      <3>2. NextClear(next, j) /\ j \in Bits /\ j \in Nat
        BY <1>2, <3>1, BitsType DEF NextClear
      <3>3. j > MaxIndex /\ j <= v
        BY <3>1, <3>2, <2>1, <2>3 DEF Fail
      <3>4. QED
        BY <2>1, <3>2, <3>3, AllocatorAssumption
    <2>4. QED
      BY <1>2, <2>1, <2>2, <2>3
  <1>4. QED
    BY <1>1, <1>3 DEF AllocInv, AllocType, SearchedUpToNext, LowestFree,
       ErrorOnlyWhenExhausted, Taken

\* The function returns as many indices as required.
LEMMA FinishKeeps ==
  ASSUME AllocInv, Finish
  PROVE  AllocInv'
  <1>1. UNCHANGED <<used, requiredNum, next, rlist>> /\ outcome' = "ok"
        /\ Len(rlist) >= requiredNum
    BY DEF Finish
  <1>2. Len(rlist) = requiredNum
    BY <1>1 DEF AllocInv, AllocType, SearchedUpToNext
  <1>3. QED
    BY <1>1, <1>2 DEF AllocInv, AllocType, SearchedUpToNext, LowestFree,
       ErrorOnlyWhenExhausted, Taken

\* The loop invariant holds throughout.
LEMMA AllocInvariant == Spec => []AllocInv
  <1>1. ASSUME AllocInv, [Next]_vars PROVE AllocInv'
    <2>1. CASE UNCHANGED vars
      BY <1>1, <2>1 DEF vars, AllocInv, AllocType, SearchedUpToNext, LowestFree,
         ErrorOnlyWhenExhausted, Taken
    <2>2. QED
      BY <1>1, <2>1, TakeKeeps, FailKeeps, FinishKeeps DEF Next
  <1>2. QED
    BY <1>1, AllocInit, PTL DEF Spec

\* What GetAvailableVNIs and GetAvailableBrIndex hand out is in use by no
\* object listed, within the limit, without repetition, and the lowest.
THEOREM LowestFreeTheorem == Spec => []LowestFree
  <1>1. AllocInv => LowestFree
    BY DEF AllocInv
  <1>2. QED
    BY <1>1, AllocInvariant, PTL

\* They return an error only when the indices below the limit do not suffice.
THEOREM ErrorOnlyWhenExhaustedTheorem == Spec => []ErrorOnlyWhenExhausted
  <1>1. AllocInv => ErrorOnlyWhenExhausted
    BY DEF AllocInv
  <1>2. QED
    BY <1>1, AllocInvariant, PTL

=============================================================================
