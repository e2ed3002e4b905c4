----------------------------- MODULE SegmentRange -----------------------------
(***************************************************************************)
(* Which segments a read of bytes  begin .. end - 1  of a file needs       *)
(* (FindSegmentIdxRange, UpdateVBegin) and what is copied of each of them  *)
(* (TryGetData).  The yEnc header of a segment tells where it lies in the  *)
(* file; until a segment was downloaded its end is an estimate made from   *)
(* the bytes of its article.  A read downloads the segments that the       *)
(* estimates lead to, and tries again when their headers are known.        *)
(*                                                                         *)
(* The segments lie in the file one behind the other.  What NZBFile leaves *)
(* out of TryGetData is here, and the cache and failures are there.        *)
(***************************************************************************)
EXTENDS Naturals, FiniteSets

CONSTANTS
  Last,         \* index of the last of m_segments
  Size,         \* the sizes a segment may have
  Estimate,     \* the values of  f * msgBytes
  MaxSpan       \* bound: segments a read overlaps

ASSUME RangeAssumption ==
  /\ Last \in Nat
  /\ Size \subseteq Nat \ {0}
  /\ Estimate \subseteq Nat
  /\ MaxSpan \in Nat

Index == 0 .. Last

VARIABLES
  size,      \* what =ypart will say of each segment
  estimate,  \* (long)(f * SegmentInfo::msgBytes)
  known,     \* segments with SegmentInfo::ypart
  begin, end,\* the read
  copied,    \* what it copied: file bytes by position in buf
  ready      \* TryGetData returned true

vars == <<size, estimate, known, begin, end, copied, ready>>

-----------------------------------------------------------------------------

\* partInfo.end of a segment, and partInfo.begin - 1.
PartEnd(i) == LET sum[j \in Index] == size[j] + (IF j = 0 THEN 0 ELSE sum[j - 1])
              IN sum[i]
PartBegin(i) == PartEnd(i) - size[i]
FileSize == PartEnd(Last)

Overlaps(i) == begin < PartEnd(i) /\ PartBegin(i) < end
Needed == {i \in Index : Overlaps(i)}

\* UpdateVBegin: end_boundary is exact where the header is known.
EndBoundary(K) ==
  LET e[i \in Index] == IF i \in K THEN PartEnd(i)
                        ELSE estimate[i] + (IF i = 0 THEN 0 ELSE e[i - 1])
  IN e

\* The interval <<lb, ub>> after the loop that halves it until it is one long;
\* the upper half is left where m is in  left.
Bisect(left, lb, ub) ==
  LET f[p \in Index \X Index] ==
        LET m == (p[1] + p[2]) \div 2 IN
        IF p[2] <= p[1] + 1 THEN p
        ELSE IF m \in left THEN f[<<p[1], m>>] ELSE f[<<m, p[2]>>]
  IN f[<<lb, ub>>]

\* Mutant: the search for the end stops one segment early.
FindSegmentIdxRange_short(e) ==
  LET b == Bisect({m \in Index : begin < e[m]}, 0, Last)
      r == Bisect({m \in Index : end <= e[m] + 1}, b[1], Last)
  IN r[1] .. r[2]

\* FindSegmentIdxRange: the second search starts at, and moves, the lower bound
\* that the first one found.
FindSegmentIdxRange(e) ==
  LET b == Bisect({m \in Index : begin < e[m]}, 0, Last)
      r == Bisect({m \in Index : end <= e[m]}, b[1], Last)
  IN r[1] .. r[2]

\* The part of a segment that overlaps the read, put where it belongs in buf.
Copy(i) ==
  LET bufOffset == IF PartBegin(i) > begin THEN PartBegin(i) - begin ELSE 0
      segOffset == IF begin > PartBegin(i) THEN begin - PartBegin(i) ELSE 0
      atMost == PartEnd(i) - (IF PartBegin(i) > begin THEN PartBegin(i) ELSE begin)
      wanted == end - begin - bufOffset
      n == IF wanted < atMost THEN wanted ELSE atMost
  IN [p \in bufOffset .. bufOffset + n - 1 |-> PartBegin(i) + segOffset + p - bufOffset]

-----------------------------------------------------------------------------

Init ==
  /\ size \in [Index -> Size]
  /\ estimate \in [Index -> Estimate]
  /\ known \in {{}, {0}}
  /\ begin \in 0 .. FileSize - 1
  /\ end \in begin + 1 .. FileSize + 1
  /\ Cardinality(Needed) <= MaxSpan
  /\ copied = {}
  /\ ready = FALSE

\* Another read of the file, or Preload, got a segment.
OtherSegment(i) ==
  /\ ~ ready /\ i \notin known
  /\ known' = known \cup {i}
  /\ UNCHANGED <<size, estimate, begin, end, copied, ready>>

\* Mutant: SetFileInfo does not keep the header.
TryGetData_forgets ==
  LET range == FindSegmentIdxRange(EndBoundary(known))
      here == {i \in range \cap known : Overlaps(i)}
  IN
  /\ ~ ready
  /\ copied' = copied \cup UNION {{<<p, Copy(i)[p]>> : p \in DOMAIN Copy(i)} : i \in here}
  /\ ready' = (range \subseteq known)
  /\ UNCHANGED <<size, estimate, known, begin, end>>

\* TryGetData: segments of the range that are known are copied, and the others
\* are downloaded before it is called again.
TryGetData ==
  LET range == FindSegmentIdxRange(EndBoundary(known))
      here == {i \in range \cap known : Overlaps(i)}
  IN
  /\ ~ ready
  /\ copied' = copied \cup UNION {{<<p, Copy(i)[p]>> : p \in DOMAIN Copy(i)} : i \in here}
  /\ known' = known \cup range
  /\ ready' = (range \subseteq known)
  /\ UNCHANGED <<size, estimate, begin, end>>

Next == TryGetData \/ \E i \in Index : OtherSegment(i)

Spec == Init /\ [][Next]_vars /\ WF_vars(TryGetData)

-----------------------------------------------------------------------------
(* Properties.                                                             *)

\* The types of the variables; what is copied is written into buf and read from
\* the file (TryGetData's arithmetic on offsets and sizes).
TypeOK ==
  /\ size \in [Index -> Size]
  /\ estimate \in [Index -> Estimate]
  /\ known \subseteq Index
  /\ begin < end
  /\ copied \subseteq (0 .. end - begin - 1) \X (0 .. FileSize - 1)
  /\ ready \in BOOLEAN

\* A read that is ready copied every byte of  begin .. end - 1  that the file
\* has, each to its place, whatever the estimates led it to before.
AllBytes ==
  ready => copied = {<<p, begin + p>> : p \in {q \in 0 .. end - begin - 1 : begin + q < FileSize}}

\* The estimates are replaced until the read is ready: it does not go round.
ReadyAtLast == <>ready
=============================================================================
