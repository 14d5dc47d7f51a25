--------------------------- MODULE IndexAllocator ---------------------------
(***************************************************************************)
(* The loop that GetAvailableVNIs and GetAvailableBrIndex share: a bitset  *)
(* of the indices in use, from which the lowest clear bits are taken one   *)
(* by one.  The indices in use are those of the objects listed, and are    *)
(* not the operator's alone: a LAN or a NetworkAttachmentDefinition        *)
(* written by someone else may carry any.                                  *)
(***************************************************************************)
EXTENDS Naturals, Sequences

CONSTANTS
  MaxIndex,   \* maxVNI, maxBridgeIndex: 16777215
  Carried,    \* the indices that listed objects may carry
  MaxNeed     \* bound: requiredNum

ASSUME AllocatorAssumption ==
  MaxIndex \in Nat \ {0} /\ Carried \subseteq Nat /\ MaxNeed \in Nat

VARIABLES
  used,        \* bits set by the objects listed
  requiredNum,
  next,        \* where the search goes on
  rlist,       \* indices taken so far
  outcome      \* "loop" until the function returns: "ok" or "error"

vars == <<used, requiredNum, next, rlist, outcome>>

\* bitset.New(MaxIndex) has the bits 0..MaxIndex-1; Set of a higher one makes
\* the bitset longer.  Bit 0 is always set.
Bits     == (0..MaxIndex - 1) \cup UNION {0..u : u \in used}
Clear(i) == i \in Bits /\ i # 0 /\ i \notin used

\* NextClear(from) returns j; it returns not ok when there is no such j.
NextClear(from, j) ==
  /\ j >= from /\ Clear(j)
  /\ \A k \in Bits : from <= k /\ k < j => ~Clear(k)

Init ==
  /\ used \in SUBSET Carried /\ requiredNum \in 0..MaxNeed
  /\ next = 0 /\ rlist = <<>> /\ outcome = "loop"

\* Mutant: the search goes on at the index just taken.
Take_SameNext ==
  /\ outcome = "loop" /\ Len(rlist) < requiredNum
  /\ \E j \in Bits :
       /\ NextClear(next, j) /\ j <= MaxIndex
       /\ rlist' = Append(rlist, j) /\ next' = j
  /\ UNCHANGED <<used, requiredNum, outcome>>

\* One turn of the loop that finds an index.
Take ==
  /\ outcome = "loop" /\ Len(rlist) < requiredNum
  /\ \E j \in Bits :
       /\ NextClear(next, j) /\ j <= MaxIndex
       /\ rlist' = Append(rlist, j) /\ next' = j + 1
  /\ UNCHANGED <<used, requiredNum, outcome>>

\* Mutant: the last index below the limit is given up.
Fail_OneEarly ==
  /\ outcome = "loop" /\ Len(rlist) < requiredNum
  /\ \A j \in Bits : NextClear(next, j) => j >= MaxIndex - 1
  /\ outcome' = "error"
  /\ UNCHANGED <<used, requiredNum, next, rlist>>

\* "no available vni to allocate": none clear, or only beyond MaxIndex.
Fail ==
  /\ outcome = "loop" /\ Len(rlist) < requiredNum
  /\ \A j \in Bits : NextClear(next, j) => j > MaxIndex
  /\ outcome' = "error"
  /\ UNCHANGED <<used, requiredNum, next, rlist>>

Finish ==
  /\ outcome = "loop" /\ Len(rlist) >= requiredNum
  /\ outcome' = "ok"
  /\ UNCHANGED <<used, requiredNum, next, rlist>>

Next == Take \/ Fail \/ Finish

Spec == Init /\ [][Next]_vars

-----------------------------------------------------------------------------
Taken == {rlist[i] : i \in 1..Len(rlist)}

\* The indices taken are in use by no object listed, lie in 1..MaxIndex, are
\* in ascending order, hence different, and are the lowest such: the promise
\* of GetAvailableVNIs and GetAvailableBrIndex to their callers, at every turn
\* of the loop and with indices in use below, at and beyond the limit.
LowestFree ==
  /\ \A i \in 1..Len(rlist) : rlist[i] \in (1..MaxIndex) \ used
  /\ \A i, j \in 1..Len(rlist) : i < j => rlist[i] < rlist[j]
  /\ \A v \in (1..MaxIndex - 1) \ used :
       (\E i \in 1..Len(rlist) : v < rlist[i]) => v \in Taken

\* The function returns an error only when there really are too few: all
\* below MaxIndex are in use or taken.  MaxIndex itself may be left over.
ErrorOnlyWhenExhausted ==
  /\ outcome = "error" => /\ Len(rlist) < requiredNum
                          /\ (1..MaxIndex - 1) \subseteq used \cup Taken
  /\ outcome = "ok" => Len(rlist) = requiredNum

-----------------------------------------------------------------------------
(* The loop invariant: next is beyond all that is taken, and every free    *)
(* index before it has been taken.                                         *)

AllocType ==
  /\ used \in SUBSET Nat /\ requiredNum \in Nat /\ next \in Nat
  /\ rlist \in Seq(Nat) /\ outcome \in {"loop", "ok", "error"}

SearchedUpToNext ==
  /\ \A i \in 1..Len(rlist) : rlist[i] < next
  /\ \A v \in (1..MaxIndex - 1) \ used : v < next => v \in Taken
  /\ Len(rlist) <= requiredNum

AllocInv ==
  /\ AllocType
  /\ SearchedUpToNext
  /\ LowestFree
  /\ ErrorOnlyWhenExhausted

=============================================================================
