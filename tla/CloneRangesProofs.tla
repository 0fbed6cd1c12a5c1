-------------------------- MODULE CloneRangesProofs --------------------------
(***************************************************************************)
(* For all limits and all numbers of blocks: the requests of clone_lun are *)
(* within the limits, and the ranges tile the blocks that are wanted.      *)
(***************************************************************************)
EXTENDS CloneRanges, TLAPS

\* What rounding up means.
LEMMA CeilBounds ==
  ASSUME NEW n \in Nat, NEW d \in Nat \ {0}
  PROVE  /\ Ceil(n, d) \in Nat
         /\ n <= Ceil(n, d) * d
         /\ n > 0 => Ceil(n, d) > 0 /\ (Ceil(n, d) - 1) * d < n
BY DEF Ceil

LEMMA CeilZero == ASSUME NEW d \in Nat \ {0} PROVE Ceil(0, d) = 0
BY DEF Ceil

\* One iteration takes one unit, or what is left in the last one.
LEMMA Iteration ==
  ASSUME NEW n \in Nat, NEW d \in Nat \ {0}, NEW k \in Nat \ {0},
         (k - 1) * d < n, n <= k * d
  PROVE  /\ n > d  => k - 1 > 0 /\ (k - 2) * d < n - d /\ n - d <= (k - 1) * d
         /\ n <= d => k - 1 = 0
<1>1. (k - 1) * d = k * d - d /\ (k - 2) * d = k * d - 2 * d
  OBVIOUS
<1>2. ASSUME n > d PROVE k - 1 > 0
  BY <1>2
<1>3. ASSUME n <= d PROVE k - 1 = 0
  BY <1>3
<1> QED
  BY <1>1, <1>2, <1>3

LEMMA ZLimitType == ZLimit \in Nat \ {0}
BY LimitsAssumption DEF ZLimit

\* The appended range is one more of the ranges.
LEMMA RangeOfAppend ==
  ASSUME NEW s \in Seq(RangeType), NEW r \in RangeType
  PROVE  /\ Append(s, r) \in Seq(RangeType)
         /\ Len(Append(s, r)) = Len(s) + 1
         /\ Range(Append(s, r)) = Range(s) \cup {r}
<1>1. /\ Append(s, r) \in Seq(RangeType) /\ Len(Append(s, r)) = Len(s) + 1
      /\ DOMAIN Append(s, r) = 1 .. Len(s) + 1 /\ DOMAIN s = 1 .. Len(s)
      /\ \A i \in 1 .. Len(s) : Append(s, r)[i] = s[i]
      /\ Append(s, r)[Len(s) + 1] = r
  OBVIOUS
<1>2. Len(s) \in Nat
  OBVIOUS
<1> HIDE DEF RangeType
<1>3. ASSUME NEW x PROVE x \in Range(Append(s, r)) <=> x \in Range(s) \cup {r}
  BY <1>1, <1>2 DEF Range
<1> QED
  BY <1>1, <1>3

LEMMA InitHolds == RangesInit => CutInv
<1> SUFFICES ASSUME RangesInit PROVE CutInv
  OBVIOUS
<1>1. want \in RangeType
  BY WantedAssumption DEF RangesInit, RangeType
<1>2. want.count \in Nat /\ want.src \in Nat /\ want.dest \in Nat
  BY <1>1 DEF RangeType
<1> DEFINE k == Ceil(want.count, ZLimit)
<1>3. k \in Nat /\ want.count <= k * ZLimit /\ (want.count > 0 => k > 0 /\ (k - 1) * ZLimit < want.count)
  BY <1>2, CeilBounds, ZLimitType
<1>4. want.count = 0 => k = 0
  BY <1>2, ZLimitType DEF Ceil
<1>5. ZLimit \in Nat
  BY ZLimitType
<1> HIDE DEF k
<1>6. /\ calls \in Nat /\ calls > 0 /\ zbc <= calls * ZLimit
      /\ want.count > 0 => (calls - 1) * ZLimit < zbc
  BY <1>2, <1>3, <1>4, <1>5 DEF RangesInit, k
<1>7. Counted
  BY <1>1, <1>2, <1>6 DEF RangesInit, Counted, LeftInCall, LeftInCalls
<1>8. Range(ranges) = {}
  BY DEF RangesInit, Range
<1>9. Tiled
  BY <1>2, <1>8, LimitsAssumption DEF RangesInit, Tiled
<1> QED
  BY <1>7, <1>9 DEF CutInv

LEMMA NextCallKeeps == CutInv /\ NextCall => CutInv'
<1> SUFFICES ASSUME CutInv, NextCall PROVE CutInv'
  OBVIOUS
<1> DEFINE part == IF zbc > ZLimit THEN ZLimit ELSE zbc
           k    == Ceil(part, BcLimit)
<1>1. /\ calls \in Nat \ {0} /\ zbc \in Nat /\ want.count \in Nat /\ want.dest \in Nat
      /\ dest_block \in Nat
  BY DEF CutInv, Counted, NextCall, RangeType
<1>2. ZLimit \in Nat \ {0} /\ BcLimit \in Nat \ {0} /\ BrLimit \in Nat \ {0}
  BY ZLimitType, LimitsAssumption
<1>3. part \in Nat /\ part <= ZLimit /\ (zbc > 0 => part > 0)
  BY <1>1, <1>2
<1>4. /\ k \in Nat /\ part <= k * BcLimit
      /\ part > 0 => k > 0 /\ (k - 1) * BcLimit < part
  BY <1>2, <1>3, CeilBounds
<1>5. part = 0 => k = 0
  BY <1>2, CeilZero
<1>6. k <= BrLimit
  <2>1. CASE part = 0
    BY <1>2, <1>5, <2>1
  <2>2. CASE part > 0
    <3> HIDE DEF part, k
    <3>1. (k - 1) * BcLimit < BrLimit * BcLimit
      BY <1>2, <1>3, <1>4, <2>2 DEF ZLimit
    <3> QED
      BY <1>2, <1>4, <3>1
  <2> QED
    BY <1>3, <2>1, <2>2
<1>7. /\ zbc' = IF zbc > ZLimit THEN zbc - ZLimit ELSE zbc
      /\ bc' = part /\ segments' = k /\ ranges' = <<>> /\ calls' = calls - 1 /\ phase' = "cut"
      /\ UNCHANGED <<want, src_block, dest_block, sent>>
  BY DEF NextCall
<1>8. zbc <= calls * ZLimit /\ (want.count > 0 => (calls - 1) * ZLimit < zbc)
  BY <1>1 DEF CutInv, Counted
<1>9. want.count > 0 => zbc > 0
  <2>1. (calls - 1) * ZLimit >= 0
    BY <1>1, <1>2
  <2> QED
    BY <1>1, <1>2, <1>8, <2>1
<1>10. want.count = 0 => zbc = 0
  BY <1>1 DEF CutInv, Counted, LeftInCall, LeftInCalls, NextCall
<1>11. /\ zbc > ZLimit => calls - 1 > 0
       /\ want.count > 0 /\ zbc <= ZLimit => calls - 1 = 0
       /\ zbc > ZLimit => zbc - ZLimit <= (calls - 1) * ZLimit
                          /\ (calls - 2) * ZLimit < zbc - ZLimit
  BY <1>1, <1>2, <1>8, <1>9, <1>10, Iteration
<1> HIDE DEF part, k
<1>12. Counted'
  <2>1. part + (IF calls' > 0 THEN zbc' ELSE 0) = zbc
    BY <1>1, <1>2, <1>7, <1>9, <1>10, <1>11 DEF part
  <2> QED
    <3>1. /\ calls' \in Nat /\ zbc' \in Nat /\ segments' \in Nat /\ bc' \in Nat
          /\ calls' - 1 = calls - 2
      BY <1>1, <1>2, <1>3, <1>4, <1>7
    <3>2. LeftInCall' = part
      BY <1>3, <1>4, <1>5, <1>7 DEF LeftInCall
    <3>3. dest_block + zbc = want.dest + want.count
      BY <1>1 DEF CutInv, Counted, LeftInCall, LeftInCalls, NextCall
    <3>4. dest_block' + LeftInCall' + LeftInCalls' = want'.dest + want'.count
      <4>1. LeftInCalls' = IF calls' > 0 THEN zbc' ELSE 0
        BY DEF LeftInCalls
      <4> QED
        BY <1>1, <1>3, <1>7, <2>1, <3>1, <3>2, <3>3, <4>1
    <3>5. /\ calls' > 0 /\ want.count > 0 => zbc > ZLimit
          /\ want.count = 0 => zbc' = 0 /\ calls' * ZLimit >= 0
      BY <1>1, <1>2, <1>7, <1>10, <1>11, <3>1
    <3>6. /\ calls' > 0 => zbc' <= calls' * ZLimit'
          /\ calls' > 0 /\ want'.count > 0 => (calls' - 1) * ZLimit' < zbc'
      <4>1. ZLimit' = ZLimit
        BY DEF ZLimit
      <4> QED
        BY <1>1, <1>2, <1>7, <1>11, <3>1, <3>5, <4>1
    <3>7. segments' > 0 => (segments' - 1) * BcLimit < bc' /\ bc' <= segments' * BcLimit
      BY <1>3, <1>4, <1>5, <1>7
    <3>8. /\ want' \in RangeType /\ src_block' \in Nat /\ dest_block' \in Nat
          /\ src_block' - want'.src = dest_block' - want'.dest /\ dest_block' >= want'.dest
      BY <1>7 DEF CutInv, Counted
    <3> QED
      BY <1>7, <3>1, <3>4, <3>6, <3>7, <3>8 DEF Counted
<1>13. Tiled'
  <2>1. Range(ranges') = {} /\ ranges' \in Seq(RangeType) /\ Len(ranges') = 0
    BY <1>7 DEF Range
  <2>2. Range(ranges) \subseteq sent
    BY DEF CutInv, Tiled, NextCall
  <2>3. sent' \cup Range(ranges') = sent \cup Range(ranges)
    BY <1>7, <2>1, <2>2
  <2>4. segments' = 0 => want.count = 0
    BY <1>1, <1>3, <1>4, <1>7, <1>9
  <2> QED
    BY <1>2, <1>4, <1>6, <1>7, <2>1, <2>3, <2>4 DEF CutInv, Tiled
<1> QED
  BY <1>12, <1>13 DEF CutInv

LEMMA NextRangeKeeps == CutInv /\ NextRange => CutInv'
<1> SUFFICES ASSUME CutInv, NextRange PROVE CutInv'
  OBVIOUS
<1> DEFINE n   == IF bc > BcLimit THEN BcLimit ELSE bc
           new == [src |-> src_block, dest |-> dest_block, count |-> n]
           all == sent \cup Range(ranges)
<1>1. /\ segments \in Nat \ {0} /\ bc \in Nat /\ BcLimit \in Nat \ {0}
      /\ calls \in Nat /\ zbc \in Nat
      /\ want.count \in Nat /\ want.dest \in Nat /\ want.src \in Nat
      /\ dest_block \in Nat /\ src_block \in Nat
      /\ src_block - want.src = dest_block - want.dest /\ dest_block >= want.dest
  BY LimitsAssumption DEF CutInv, Counted, NextRange, RangeType
<1>2. /\ bc' = IF bc > BcLimit THEN bc - BcLimit ELSE bc
      /\ ranges' = Append(ranges, new)
      /\ src_block' = src_block + n /\ dest_block' = dest_block + n
      /\ segments' = segments - 1
      /\ phase = "cut" /\ UNCHANGED <<phase, want, calls, zbc, sent>>
  BY DEF NextRange
<1>3. (segments - 1) * BcLimit < bc /\ bc <= segments * BcLimit
  BY <1>1 DEF CutInv, Counted
<1>4. /\ bc > BcLimit => segments - 1 > 0 /\ (segments - 2) * BcLimit < bc - BcLimit
                         /\ bc - BcLimit <= (segments - 1) * BcLimit
      /\ bc <= BcLimit => segments - 1 = 0
  BY <1>1, <1>3, Iteration
<1>5. n \in 1..BcLimit
  <2>1. (segments - 1) * BcLimit >= 0
    BY <1>1
  <2> QED
    BY <1>1, <1>3, <2>1
<1>6. bc = n + (IF segments' > 0 THEN bc' ELSE 0)
  BY <1>1, <1>2, <1>4
<1>7. n \in Nat /\ n > 0
  BY <1>1, <1>5
<1> HIDE DEF n
<1>8. Counted'
  <2> DEFINE left == IF segments' > 0 THEN bc' ELSE 0
  <2>1. segments' \in Nat /\ bc' \in Nat /\ segments' - 1 = segments - 2 /\ left \in Nat
    BY <1>1, <1>2
  <2>2. /\ src_block' \in Nat /\ dest_block' \in Nat /\ want' = want
        /\ src_block' - want.src = dest_block' - want.dest /\ dest_block' >= want.dest
    <3>1. src_block' = src_block + n /\ dest_block' = dest_block + n /\ want' = want
      BY <1>2
    <3> HIDE DEF left, new, all
    <3>2. src_block' \in Nat /\ dest_block' \in Nat /\ dest_block' >= want.dest
      BY <1>1, <1>7, <3>1
    <3>3. src_block' - want.src = dest_block' - want.dest
      BY <1>1, <1>7, <3>1
    <3> QED
      BY <3>1, <3>2, <3>3
  <2>3. LeftInCall' = left /\ LeftInCall = bc
        /\ LeftInCalls' = LeftInCalls /\ LeftInCalls \in Nat
    BY <1>1, <1>2 DEF LeftInCall, LeftInCalls
  <2>4. dest_block' + LeftInCall' + LeftInCalls' = want'.dest + want'.count
    <3>1. dest_block + bc + LeftInCalls = want.dest + want.count
      BY <2>3 DEF CutInv, Counted
    <3>2. bc = n + left /\ dest_block' = dest_block + n
      BY <1>2, <1>6
    <3> HIDE DEF left
    <3> QED
      BY <1>1, <1>7, <2>1, <2>2, <2>3, <3>1, <3>2
  <2>5. segments' > 0 => (segments' - 1) * BcLimit < bc' /\ bc' <= segments' * BcLimit
    BY <1>1, <1>2, <1>4, <2>1
  <2>6. /\ want' \in RangeType
        /\ calls' > 0 => zbc' <= calls' * ZLimit'
        /\ calls' > 0 /\ want'.count > 0 => (calls' - 1) * ZLimit' < zbc'
    BY <1>2 DEF CutInv, Counted, ZLimit
  <2> QED
    BY <1>1, <1>2, <2>1, <2>2, <2>4, <2>5, <2>6 DEF Counted
<1>9. new \in RangeType /\ ranges \in Seq(RangeType) /\ all \subseteq RangeType
  <2>1. new \in RangeType
    BY <1>1, <1>7 DEF RangeType
  <2>2. ranges \in Seq(RangeType) /\ sent \subseteq RangeType
    BY DEF CutInv, Tiled
  <2> QED
    BY <2>1, <2>2 DEF Range
<1>10. /\ ranges' \in Seq(RangeType) /\ Len(ranges') = Len(ranges) + 1
       /\ sent' \cup Range(ranges') = all \cup {new} /\ Len(ranges) \in Nat
  BY <1>2, <1>9, RangeOfAppend
<1>11. ranges' # <<>>
  BY <1>10
<1>12. new.src = src_block /\ new.dest = dest_block /\ new.count = n
  OBVIOUS
<1> HIDE DEF new
<1>13. ASSUME NEW r \in all \cup {new}
       PROVE  /\ r.count \in 1..BcLimit
              /\ r.src - want.src = r.dest - want.dest
              /\ want.dest <= r.dest /\ r.dest + r.count <= dest_block + n
              /\ r.dest = want.dest \/ \E s \in all \cup {new} : s.dest + s.count = r.dest
              /\ \A s \in all \cup {new} :
                   r # s => r.dest + r.count <= s.dest \/ s.dest + s.count <= r.dest
  <2>1. \A s \in all : /\ s.dest \in Nat /\ s.count \in Nat
                       /\ s.count \in 1..BcLimit
                       /\ s.src - want.src = s.dest - want.dest
                       /\ want.dest <= s.dest /\ s.dest + s.count <= dest_block
    BY <1>9 DEF CutInv, Tiled, RangeType
  <2>2. CASE r = new
    <3>1. r.dest = want.dest \/ \E s \in all : s.dest + s.count = r.dest
      BY <1>12, <2>2 DEF CutInv, Tiled
    <3> QED
      BY <1>1, <1>5, <1>7, <1>12, <2>1, <2>2, <3>1
  <2>3. CASE r \in all
    <3>1. /\ r.dest = want.dest \/ \E s \in all : s.dest + s.count = r.dest
          /\ \A s \in all : r # s => r.dest + r.count <= s.dest \/ s.dest + s.count <= r.dest
      BY <2>3 DEF CutInv, Tiled
    <3>2. r.dest + r.count <= new.dest
      BY <1>12, <2>1, <2>3
    <3> QED
      BY <1>1, <1>7, <2>1, <2>3, <3>1, <3>2
  <2> QED
    BY <2>2, <2>3
<1>14. ASSUME NEW b \in want.dest .. dest_block + n - 1
       PROVE  \E r \in all \cup {new} : Holds(r, b)
  <2>1. CASE b < dest_block
    BY <1>1, <2>1 DEF CutInv, Tiled
  <2>2. CASE b >= dest_block
    BY <1>1, <1>7, <1>12, <2>2 DEF Holds
  <2> QED
    BY <1>1, <2>1, <2>2
<1>15. \E s \in all \cup {new} : s.dest + s.count = dest_block + n
  BY <1>12
<1>16. /\ sent \subseteq RangeType /\ Len(ranges) + segments <= BrLimit
       /\ \A r \in sent : r.dest = want.dest \/ \E s \in sent : s.dest + s.count = r.dest
  BY DEF CutInv, Tiled
<1>17. Len(ranges') + segments' <= BrLimit
  BY <1>1, <1>2, <1>10, <1>16, LimitsAssumption
<1> HIDE DEF all
<1>18. Tiled'
  <2> DEFINE every == sent' \cup Range(ranges')
  <2>1. every = all \cup {new}
    BY <1>10
  <2>2. \A r \in every :
          /\ r.count \in 1..BcLimit
          /\ r.src - want'.src = r.dest - want'.dest
          /\ want'.dest <= r.dest /\ r.dest + r.count <= dest_block'
          /\ r.dest = want'.dest \/ \E s \in every : s.dest + s.count = r.dest
          /\ \A s \in every : r # s => r.dest + r.count <= s.dest \/ s.dest + s.count <= r.dest
    BY <1>2, <1>13, <2>1
  <2>3. /\ \A b \in want'.dest .. dest_block' - 1 : \E r \in every : Holds(r, b)
        /\ \E s \in every : s.dest + s.count = dest_block'
    <3>1. want' = want /\ dest_block' = dest_block + n /\ dest_block' - 1 = dest_block + n - 1
      BY <1>1, <1>2, <1>7
    <3> HIDE DEF every
    <3> QED
      BY <1>14, <1>15, <2>1, <3>1
  <2>4. /\ ranges' \in Seq(RangeType) /\ sent' \subseteq RangeType
        /\ Len(ranges') + segments' <= BrLimit
        /\ ranges' # <<>> /\ phase' = "cut"
        /\ \A r \in sent' : r.dest = want'.dest \/ \E s \in sent' : s.dest + s.count = r.dest
    BY <1>2, <1>10, <1>11, <1>16, <1>17
  <2> QED
    BY <2>2, <2>3, <2>4 DEF Tiled
<1> QED
  BY <1>8, <1>18 DEF CutInv

LEMMA RequestKeeps == CutInv /\ (Request \/ RequestFails) => CutInv'
<1> SUFFICES ASSUME CutInv, Request \/ RequestFails PROVE CutInv'
  OBVIOUS
<1>1. /\ phase = "cut" /\ segments = 0 /\ phase' \in {"call", "ok", "failed"}
      /\ phase' = "call" => calls # 0
      /\ phase' = "ok" => calls = 0
      /\ UNCHANGED <<want, calls, zbc, segments, bc, src_block, dest_block, ranges>>
  BY DEF Request, RequestFails, Complete
<1>2. Counted'
  BY <1>1 DEF CutInv, Counted, LeftInCall, LeftInCalls
<1>3. sent' \in {sent, sent \cup Range(ranges)} /\ (phase' \in {"call", "ok"} => Range(ranges) \subseteq sent')
  BY <1>1 DEF Request, RequestFails
<1>4. sent' \cup Range(ranges') = sent \cup Range(ranges)
  BY <1>1, <1>3
<1>5. sent' \subseteq RangeType
  BY <1>3 DEF CutInv, Tiled, Range
<1>6. \A r \in sent' : r.dest = want.dest \/ \E s \in sent' : s.dest + s.count = r.dest
  BY <1>3 DEF CutInv, Tiled
<1>7. Tiled'
  BY <1>1, <1>3, <1>4, <1>5, <1>6 DEF CutInv, Tiled
<1> QED
  BY <1>2, <1>7 DEF CutInv

\* What is left to copy is always known, and the ranges made so far tile what
\* is not: the counters of the loops of clone_lun agree with the blocks.
THEOREM CutInvariant == RangesSpec => []CutInv
<1>1. CutInv /\ UNCHANGED rangesVars => CutInv'
  BY DEF CutInv, Counted, Tiled, LeftInCall, LeftInCalls, rangesVars
<1>2. CutInv /\ [RangesNext]_rangesVars => CutInv'
  BY <1>1, NextCallKeeps, NextRangeKeeps, RequestKeeps DEF RangesNext
<1> QED
  BY <1>2, InitHolds, PTL DEF RangesSpec

\* For all limits: clone_lun sends no request beyond them, and no request for
\* the whole LUN in place of one for some blocks.
THEOREM RequestsWithinLimits == RangesSpec => []WithinLimits
<1>1. CutInv => WithinLimits
  <2> SUFFICES ASSUME CutInv, Complete PROVE WithinLimits
    BY DEF WithinLimits
  <2>1. Len(ranges) <= BrLimit
    BY DEF CutInv, Tiled, Complete
  <2>2. \A i \in DOMAIN ranges : ranges[i].count \in 1..BcLimit
    BY DEF CutInv, Tiled, Range
  <2>3. ranges = <<>> => want.count = 0
    BY DEF CutInv, Tiled, Complete
  <2> QED
    BY <2>1, <2>2, <2>3 DEF WithinLimits
<1> QED
  BY <1>1, CutInvariant, PTL

\* For all limits and counts: wherever clone_lun stops, what it copied is a
\* first part of what was wanted, without a gap and without a block twice.
THEOREM CopiesInOrder == RangesSpec => []CopiedInOrder
<1>1. CutInv => CopiedInOrder
  <2> SUFFICES ASSUME CutInv, NEW r \in sent
               PROVE  /\ r.src - want.src = r.dest - want.dest
                      /\ want.dest <= r.dest /\ r.dest + r.count <= want.dest + want.count
                      /\ r.dest = want.dest \/ \E s \in sent : s.dest + s.count = r.dest
                      /\ \A s \in sent : r # s => \/ r.dest + r.count <= s.dest
                                                  \/ s.dest + s.count <= r.dest
    BY DEF CopiedInOrder
  <2>1. dest_block <= want.dest + want.count
    BY DEF CutInv, Counted, LeftInCall, LeftInCalls, RangeType
  <2>2. r \in RangeType /\ want \in RangeType /\ dest_block \in Nat
    BY DEF CutInv, Counted, Tiled
  <2>3. r.dest + r.count <= dest_block
    BY DEF CutInv, Tiled
  <2>4. r.dest + r.count <= want.dest + want.count
    BY <2>1, <2>2, <2>3 DEF RangeType
  <2> QED
    BY <2>4 DEF CutInv, Tiled
<1> QED
  BY <1>1, CutInvariant, PTL

\* For all limits and counts: a clone_lun that returns has copied all blocks.
THEOREM CopiesAll == RangesSpec => []AllCopied
<1>1. CutInv => AllCopied
  <2> SUFFICES ASSUME CutInv, phase = "ok", NEW b \in want.dest .. want.dest + want.count - 1
               PROVE  \E r \in sent : Holds(r, b)
    BY DEF AllCopied
  <2>1. dest_block = want.dest + want.count
    BY DEF CutInv, Counted, LeftInCall, LeftInCalls, RangeType
  <2>2. sent \cup Range(ranges) = sent
    BY DEF CutInv, Tiled
  <2>3. b \in want.dest .. dest_block - 1
    <3>1. want.dest \in Nat /\ want.count \in Nat /\ dest_block \in Nat
      BY DEF CutInv, Counted, RangeType
    <3> QED
      BY <2>1, <3>1
  <2> QED
    BY <2>2, <2>3 DEF CutInv, Tiled
<1> QED
  BY <1>1, CutInvariant, PTL
==============================================================================
