----------------------------- MODULE CloneRanges -----------------------------
(***************************************************************************)
(* clone_lun of the clients: a number of blocks is cut into ranges and the *)
(* ranges into requests, within the limits of the ZAPI.  A request is      *)
(* taken by the filer as a whole or fails, which ends the clone with what  *)
(* the earlier requests copied.  A request without ranges clones the whole *)
(* LUN: that is what a block count of 0 stands for.                        *)
(***************************************************************************)
EXTENDS Integers, Sequences, Functions

CONSTANTS
  BcLimit,    \* bc_limit: blocks in a range, 2^24
  BrLimit,    \* br_limit: ranges in a request, 32
  Wanted      \* [src, dest, count]: the arguments the clone may be made with

ASSUME LimitsAssumption == BcLimit \in Nat \ {0} /\ BrLimit \in Nat \ {0}
ASSUME WantedAssumption == Wanted \subseteq [src : Nat, dest : Nat, count : Nat]

VARIABLES
  phase,           \* "call", "cut" within a call, or the end: "ok", "failed"
  want,         \* the arguments
  calls,        \* iterations of the outer loop to go
  zbc,          \* blocks that are in none of the calls begun, except the last
  segments,     \* iterations of the inner loop to go
  bc,           \* blocks of this call that are in no range, except the last
  src_block,    \* where the next range is copied from
  dest_block,   \* and to
  ranges,       \* the ranges of this request
  sent          \* the ranges the filer has taken

rangesVars == <<phase, want, calls, zbc, segments, bc, src_block, dest_block, ranges, sent>>

ZLimit == BrLimit * BcLimit

\* math.ceil(n / float(d))
Ceil(n, d) == (n + d - 1) \div d

\* Mutant: the number of calls is rounded down.
RangesInitRoundedDown ==
  /\ want \in Wanted
  /\ calls = IF want.count \div ZLimit = 0 THEN 1 ELSE want.count \div ZLimit
  /\ zbc = want.count
  /\ src_block = want.src /\ dest_block = want.dest
  /\ segments = 0 /\ bc = 0 /\ ranges = <<>> /\ sent = {}
  /\ phase = "call"

RangesInit ==
  /\ want \in Wanted
  /\ calls = IF Ceil(want.count, ZLimit) = 0 THEN 1 ELSE Ceil(want.count, ZLimit)
  /\ zbc = want.count
  /\ src_block = want.src /\ dest_block = want.dest
  /\ segments = 0 /\ bc = 0 /\ ranges = <<>> /\ sent = {}
  /\ phase = "call"

\* Mutant: the blocks of a call are not limited.
NextCallUnlimited ==
  /\ phase = "call"
  /\ bc' = zbc /\ segments' = Ceil(zbc, BcLimit) /\ zbc' = 0
  /\ ranges' = <<>>
  /\ calls' = 0
  /\ phase' = "cut"
  /\ UNCHANGED <<want, src_block, dest_block, sent>>

NextCall ==
  /\ phase = "call"
  /\ LET part == IF zbc > ZLimit THEN ZLimit ELSE zbc IN
       /\ bc' = part /\ segments' = Ceil(part, BcLimit)
       /\ zbc' = IF zbc > ZLimit THEN zbc - ZLimit ELSE zbc
  /\ ranges' = <<>>
  /\ calls' = calls - 1
  /\ phase' = "cut"
  /\ UNCHANGED <<want, src_block, dest_block, sent>>

\* Mutant: each call starts over from where its first range was read.
NextRangeOfOneSource ==
  /\ phase = "cut" /\ segments > 0
  /\ LET n == IF bc > BcLimit THEN BcLimit ELSE bc IN
       /\ bc' = IF bc > BcLimit THEN bc - BcLimit ELSE bc
       /\ ranges' = Append(ranges, [src |-> src_block, dest |-> dest_block, count |-> n])
       /\ dest_block' = dest_block + n
  /\ segments' = segments - 1
  /\ UNCHANGED <<phase, want, calls, zbc, src_block, sent>>

NextRange ==
  /\ phase = "cut" /\ segments > 0
  /\ LET n == IF bc > BcLimit THEN BcLimit ELSE bc IN
       /\ bc' = IF bc > BcLimit THEN bc - BcLimit ELSE bc
       /\ ranges' = Append(ranges, [src |-> src_block, dest |-> dest_block, count |-> n])
       /\ src_block' = src_block + n
       /\ dest_block' = dest_block + n
  /\ segments' = segments - 1
  /\ UNCHANGED <<phase, want, calls, zbc, sent>>

Complete == phase = "cut" /\ segments = 0

\* The request succeeds, or takes effect and its answer is lost.
Request ==
  /\ Complete
  /\ sent' = sent \cup Range(ranges)
  /\ phase' \in {IF calls = 0 THEN "ok" ELSE "call", "failed"}
  /\ UNCHANGED <<want, calls, zbc, segments, bc, src_block, dest_block, ranges>>

RequestFails ==
  /\ Complete
  /\ phase' = "failed"
  /\ UNCHANGED <<want, calls, zbc, segments, bc, src_block, dest_block, ranges, sent>>

RangesNext == NextCall \/ NextRange \/ Request \/ RequestFails

RangesSpec == RangesInit /\ [][RangesNext]_rangesVars
-----------------------------------------------------------------------------
(* Properties *)

RangeType == [src : Nat, dest : Nat, count : Nat]

Holds(r, b) == r.dest <= b /\ b < r.dest + r.count

\* What the filer is asked for is within its limits ("zAPI can only handle
\* 2^24 blocks per range", "32 block ranges per call"), and the whole LUN is
\* asked for only where that was wanted.
WithinLimits ==
  Complete =>
    /\ Len(ranges) <= BrLimit
    /\ \A i \in DOMAIN ranges : ranges[i].count \in 1..BcLimit
    /\ ranges = <<>> => want.count = 0

\* However far the clone came: each range is copied from and to the blocks that
\* were wanted, no block is copied twice, and there is no gap before a range.
CopiedInOrder ==
  \A r \in sent :
    /\ r.src - want.src = r.dest - want.dest
    /\ want.dest <= r.dest /\ r.dest + r.count <= want.dest + want.count
    /\ r.dest = want.dest \/ \E s \in sent : s.dest + s.count = r.dest
    /\ \A s \in sent : r # s => r.dest + r.count <= s.dest \/ s.dest + s.count <= r.dest

\* A clone that succeeds has copied every block that was wanted.
AllCopied ==
  phase = "ok" => \A b \in want.dest .. want.dest + want.count - 1 : \E r \in sent : Holds(r, b)

\* Why it holds: what is left is known, and it takes the iterations that are left.
LeftInCalls == IF calls > 0 THEN zbc ELSE 0
LeftInCall  == IF phase = "cut" /\ segments > 0 THEN bc ELSE 0

Counted ==
  /\ phase \in {"call", "cut", "ok", "failed"}
  /\ want \in RangeType
  /\ calls \in Nat /\ zbc \in Nat /\ segments \in Nat /\ bc \in Nat
  /\ src_block \in Nat /\ dest_block \in Nat
  /\ src_block - want.src = dest_block - want.dest
  /\ dest_block >= want.dest
  /\ dest_block + LeftInCall + LeftInCalls = want.dest + want.count
  /\ phase = "call" => calls > 0
  /\ phase = "ok" => calls = 0
  /\ calls > 0 => zbc <= calls * ZLimit
  /\ calls > 0 /\ want.count > 0 => (calls - 1) * ZLimit < zbc
  /\ phase = "ok" => segments = 0
  /\ segments > 0 => (segments - 1) * BcLimit < bc /\ bc <= segments * BcLimit

Tiled ==
  /\ ranges \in Seq(RangeType) /\ sent \subseteq RangeType
  /\ Len(ranges) + segments <= BrLimit
  /\ phase = "cut" /\ ranges = <<>> /\ segments = 0 => want.count = 0
  /\ \A r \in sent \cup Range(ranges) :
       /\ r.count \in 1..BcLimit
       /\ r.src - want.src = r.dest - want.dest
       /\ want.dest <= r.dest /\ r.dest + r.count <= dest_block
       /\ r.dest = want.dest \/ \E s \in sent \cup Range(ranges) : s.dest + s.count = r.dest
       /\ \A s \in sent \cup Range(ranges) :
            r # s => r.dest + r.count <= s.dest \/ s.dest + s.count <= r.dest
  /\ \A r \in sent : r.dest = want.dest \/ \E s \in sent : s.dest + s.count = r.dest
  /\ \A b \in want.dest .. dest_block - 1 : \E r \in sent \cup Range(ranges) : Holds(r, b)
  /\ dest_block = want.dest \/ \E s \in sent \cup Range(ranges) : s.dest + s.count = dest_block
  /\ phase \in {"call", "ok"} => Range(ranges) \subseteq sent

CutInv == Counted /\ Tiled
==============================================================================
