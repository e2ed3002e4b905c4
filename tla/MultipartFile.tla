---------------------------- MODULE MultipartFile ----------------------------
(***************************************************************************)
(* Files whose bytes are in other files (MultipartFile.cpp): the base of   *)
(* the files found in archives and of split files.                         *)
(*                                                                         *)
(* A file is a record.  One of an NZB has its index there in nzb; one made *)
(* of parts has nzb = 0, its FileParts in parts, by part number, and after *)
(* Finalize the same by end address in map.  map is the sequence of the    *)
(* entries of m_parts_map.                                                 *)
(***************************************************************************)
EXTENDS Integers, Sequences, FiniteSets, SequencesExt

SumSeq(s) == FoldLeft(+, 0, s)

NZBFileOf(i, name, size) ==
  [name |-> name, nzb |-> i, method |-> "stored", size |-> size, parts |-> <<>>, map |-> <<>>]

NewMultipartFile(name, method) ==
  [name |-> name, nzb |-> 0, method |-> method, size |-> 0, parts |-> <<>>, map |-> <<>>]

FilePart(file, offset, size, bof, eof) ==
  [file |-> file, offset |-> offset, size |-> size, bof |-> bof, eof |-> eof]

-----------------------------------------------------------------------------

\* The parts of a file that is complete have the numbers first, first + 1, ...
First(f) == Min(DOMAIN f.parts)
PartOf(f, i) == f.parts[First(f) + i - 1]

\* The address behind each part; behind none of them 0.
Ends(f) ==
  LET end[i \in 0 .. Cardinality(DOMAIN f.parts)] ==
        IF i = 0 THEN 0 ELSE end[i - 1] + PartOf(f, i).size
  IN end

\* Mutant: the sizes of the parts for their end addresses.
Finalize_sizes(f) ==
  LET order == 1 .. Cardinality(DOMAIN f.parts) IN
  [f EXCEPT !.size = SumSeq([i \in order |-> PartOf(f, i).size]),
            !.map = [i \in order |-> [end |-> PartOf(f, i).size, part |-> PartOf(f, i)]]]

\* An entry of m_parts_map is overwritten by a later part with the same end
\* address, one without bytes.
Finalize(f) ==
  LET count == Cardinality(DOMAIN f.parts)
      end == Ends(f)
      kept == {i \in 1 .. count : \A j \in i + 1 .. count : end[j] # end[i]}
      Kept(n) == CHOOSE i \in kept : Cardinality({j \in kept : j <= i}) = n IN
  [f EXCEPT !.size = end[count],
            !.map = [n \in 1 .. Cardinality(kept) |-> [end |-> end[Kept(n)], part |-> PartOf(f, Kept(n))]]]

\* Mutant: the volumes are there once the last is.
IsComplete_last(f) == f.parts[Max(DOMAIN f.parts)].eof

\* All parts of the file are found.
IsComplete(f) ==
  LET first == First(f)
      last == Max(DOMAIN f.parts) IN
  /\ f.parts[first].bof /\ f.parts[last].eof
  /\ last - first = Cardinality(DOMAIN f.parts) - 1

\* A part that is already there stays.
SetFilePart(f, k, part) ==
  LET g == [f EXCEPT !.parts = [i \in DOMAIN @ \cup {k} |-> IF i \in DOMAIN @ THEN @[i] ELSE part]] IN
  IF k \notin DOMAIN f.parts /\ IsComplete(g) THEN Finalize(g) ELSE g

\* Mutant: only a duplicate counts as complete.
SetFilePartReturns_known(f, k, part) == k \in DOMAIN f.parts

\* What SetFilePart returns; a duplicate counts as complete.
SetFilePartReturns(f, k, part) ==
  LET g == SetFilePart(f, k, part) IN
  k \in DOMAIN f.parts \/ (IsComplete(g) /\ g.size # 0)

-----------------------------------------------------------------------------

\* m_parts_map.upper_bound(offset).
UpperBound(f, offset) == 1 + Cardinality({i \in DOMAIN f.map : f.map[i].end <= offset})

\* The reads of the parts that a read of size bytes at offset becomes
\* (_AsyncGetFileData and the loop of GetFileData as long as no part reads
\* short).  The size is clipped to that of the file.
Reads(f, offset, size) ==
  LET first == UpperBound(f, offset)
      stop == IF offset + size > f.size THEN f.size ELSE offset + size
      inside == {i \in first .. Len(f.map) : IF i = first THEN offset < stop ELSE f.map[i - 1].end < stop}
      From(i) == IF i = first THEN offset ELSE f.map[i - 1].end
      To(i) == IF f.map[i].end < stop THEN f.map[i].end ELSE stop
      Begin(i) == f.map[i].end - f.map[i].part.size IN
  [j \in 1 .. Cardinality(inside) |->
     LET i == first + j - 1 IN
     [file |-> f.map[i].part.file, offset |-> From(i) - Begin(i) + f.map[i].part.offset,
      size |-> To(i) - From(i)]]

\* CountMissingBytesInRange and BufferNextSegmentInRange: the ranges
\* [begin, end) of the parts that they ask, as reads.
Ranges(f, begin, end) ==
  LET first == UpperBound(f, begin)
      last == 1 + Cardinality({i \in DOMAIN f.map : f.map[i].end < end})
      Begin(i) == f.map[i].end - f.map[i].part.size
      SubBegin(i) == IF i = first THEN begin - Begin(i) + f.map[i].part.offset
                     ELSE f.map[i].part.offset
      SubEnd(i) == IF i = last THEN end - Begin(i) + f.map[i].part.offset
                   ELSE f.map[i].part.offset + f.map[i].part.size
      asked == first .. (IF last > Len(f.map) THEN Len(f.map) ELSE last) IN
  [j \in 1 .. Cardinality(asked) |->
     LET i == first + j - 1 IN
     [file |-> f.map[i].part.file, offset |-> SubBegin(i), size |-> SubEnd(i) - SubBegin(i)]]

\* A read of a file made of parts becomes reads of these, and they of others: the
\* reads after n steps.
ReadsAfter(f, depth, offset, size) ==
  LET Step(r) == IF r.file.nzb # 0 THEN <<r>> ELSE Reads(r.file, r.offset, r.size)
      reads[n \in 0 .. depth] ==
        IF n = 0 THEN <<[file |-> f, offset |-> offset, size |-> size]>>
        ELSE FlattenSeq([i \in DOMAIN reads[n - 1] |-> Step(reads[n - 1][i])])
  IN reads

\* The reads of files of the NZB in the end; a file is made of parts of files, and
\* these of others, at most depth times.
NZBReads(f, depth, offset, size) == ReadsAfter(f, depth, offset, size)[depth]

-----------------------------------------------------------------------------
(* What the file is meant to hold.                                         *)

\* The byte at an offset of a file made of parts is a byte of one of these.
Place(f, offset) ==
  LET end == Ends(f)
      i == CHOOSE i \in 1 .. Cardinality(DOMAIN f.parts) : end[i - 1] <= offset /\ offset < end[i]
  IN [file |-> PartOf(f, i).file, at |-> PartOf(f, i).offset + offset - end[i - 1]]

\* Where the byte at offset o of f is, after n steps.
PlaceAfter(f, depth, o) ==
  LET place[n \in 0 .. depth] ==
        IF n = 0 THEN [file |-> f, at |-> o]
        ELSE IF place[n - 1].file.nzb # 0 THEN place[n - 1]
        ELSE Place(place[n - 1].file, place[n - 1].at)
  IN place

\* The byte at offset o of f: a file of the NZB and a place there.
ByteAt(f, depth, o) ==
  LET place == PlaceAfter(f, depth, o)[depth] IN <<place.file.nzb, place.at>>

\* On the way there no file made of parts ends before the byte or has a part
\* without bytes.
HasByte(f, depth, o) ==
  \A n \in 0 .. depth - 1 :
    LET place == PlaceAfter(f, depth, o)[n] IN
    place.file.nzb = 0 =>
      /\ place.at < place.file.size
      /\ \A k \in DOMAIN place.file.parts : place.file.parts[k].size # 0

BytesRead(reads) ==
  FlattenSeq([i \in DOMAIN reads |->
    [k \in 1 .. reads[i].size |-> <<reads[i].file.nzb, reads[i].offset + k - 1>>]])
=============================================================================
