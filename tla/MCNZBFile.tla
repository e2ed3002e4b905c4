------------------------------ MODULE MCNZBFile ------------------------------
(* Instances of NZBFile for TLC: one read of the whole file that waits in    *)
(* m_data_requests, and one of the last segments that blocks its thread.     *)
EXTENDS NZBFile

CONSTANTS async, sync

Loader == INSTANCE NZBLoader WITH ID <- {"a", "b", "c", "d", "e"}

\* A document with a whole file and one whose first segment is missing.
Element(number, id) == [number |-> number, id |-> id]
Document ==
  [root |-> "nzb",
   files |-> <<[groups |-> {"g"}, segments |-> <<Element(1, "a"), Element(2, "b")>>],
               [groups |-> {"g"}, segments |-> <<Element(3, "c"), Element(2, "d"),
                                                 Element(2, "e")>>]>>]

\* The file of a run is one of a document that mounts.
ASSUME FileOfDocument ==
  /\ Loader!Loads(Document) /\ Loader!Validate(Document.files)
  /\ \E i \in DOMAIN Document.files :
       /\ Segment = Loader!Indexes(Document.files[i])
       /\ NoArticle = Loader!Missing(Document.files[i])

AllAndLast == [r \in {async, sync} |->
                 IF r = async THEN Segment
                 ELSE {s \in Segment : \A o \in Segment : o <= s}]

\* The first segment with an article, and that one and the next.
First == CHOOSE s \in Segment \ NoArticle : \A o \in Segment \ NoArticle : s <= o
FirstAndTwo == [r \in {async, sync} |-> IF r = async THEN {First} ELSE {First, First + 1}]
=============================================================================
