------------------------------ MODULE NZBLoader ------------------------------
(***************************************************************************)
(* How an nzb document becomes the segments of its files: loadnzb          *)
(* (nzb_fileloader.cpp), Validate (nzb.hpp), and the constructor of        *)
(* NZBFile.                                                                *)
(*                                                                         *)
(* A document is [root, files]; a file is [groups, segments], and a        *)
(* segment [number, id] with number 0 when it has no such attribute.  A    *)
(* program may also hand over an nzb of its own, whose ids may be empty.   *)
(***************************************************************************)
EXTENDS Integers, Sequences, FiniteSets

CONSTANT ID      \* the message-IDs

Empty == ""

SegmentElement == [number : Nat, id : ID \cup {Empty}]
File == [groups : SUBSET STRING, segments : Seq(SegmentElement)]

\* loadnzb throws unless the document has all these.
Loads(doc) ==
  /\ doc.root = "nzb"
  /\ doc.files # <<>>
  /\ \A i \in DOMAIN doc.files : doc.files[i].groups # {} /\ doc.files[i].segments # <<>>

\* The numbers of the segments of all files, in one set.
NumbersOf(file) == {file.segments[j].number : j \in DOMAIN file.segments}
Numbers(files) == UNION {NumbersOf(files[i]) : i \in DOMAIN files}

\* The smallest is 1, and the largest is how many there are.
Validate(files) ==
  LET size == Cardinality(Numbers(files)) IN
  /\ 1 \in Numbers(files) /\ size \in Numbers(files)
  /\ \A n \in Numbers(files) : 1 <= n /\ n <= size

\* The segment elements that the constructor of NZBFile keeps.
Kept(file) == {j \in DOMAIN file.segments : file.segments[j].id # Empty}

\* m_segments is resized to the largest number among them.
Indexes(file) == UNION {0 .. file.segments[j].number - 1 : j \in Kept(file)}

\* Its msgIDs at index i: any of them has the article.
MsgIDs(file, i) == {file.segments[j].id : j \in {k \in Kept(file) : file.segments[k].number - 1 = i}}

\* Segments between others that the document does not have.
Missing(file) == {i \in Indexes(file) : MsgIDs(file, i) = {}}
=============================================================================
