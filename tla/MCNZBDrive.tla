----------------------------- MODULE MCNZBDrive -----------------------------
EXTENDS NZBDriveIMPL

Named(base, ext, num) == [base |-> base, ext |-> ext, num |-> num]
X == NoExt("x")
Y == NoExt("y")

\* Two volumes, the first with a part of x, the second with the rest and y.
A1 == Named("a", "part", 1)
A2 == Named("a", "part", 2)
\* An archive of two files.
Z == Named("z", "zip", 0)
\* Two volumes with an archive in them that has the header of x in both.
O1 == Named("o", "rar", 0)
O2 == Named("o", "r", 0)
I == Named("i", "rar", 0)
\* The last volume of an archive.
L == Named("l", "part", 2)
\* Blocks of the other kinds.
B == Named("b", "rar", 0)
\* An archive of a split file of one part, with the name of the archive beside it.
C == Named("c", "rar", 0)
C1 == Named("c", "num", 1)
T1 == Named("t", "num", 1)
S1 == Named("s", "num", 1)
S2 == Named("s", "num", 2)

MCLayout ==
  A1 :> <<Plain("mark"), Plain("main"), Block("file", X, 2, TRUE, FALSE, "stored")>>
  @@ A2 :> <<Plain("mark"), Block("file", X, 1, FALSE, TRUE, "stored"),
             Block("file", Y, 1, TRUE, TRUE, "compressed")>>
  @@ B :> <<Plain("mark"), Block("sub", Y, 1, TRUE, TRUE, "stored"),
            [Block("file", X, 1, TRUE, TRUE, "stored") EXCEPT !.high = TRUE], Plain("encrypted")>>
  @@ Z :> <<Block("local", X, 2, TRUE, TRUE, "stored"), Block("local", Y, 1, TRUE, TRUE, "password"),
            Plain("central")>>
  @@ O1 :> <<Plain("mark"), Block("file", I, 2, TRUE, FALSE, "stored")>>
  @@ O2 :> <<Plain("mark"), Block("file", I, 3, FALSE, TRUE, "stored")>>
  @@ C :> <<Plain("mark"), Block("file", T1, 1, TRUE, TRUE, "stored")>>
  @@ L :> <<Plain("mark"), Block("file", X, 1, FALSE, TRUE, "stored")>>
  @@ I :> <<Plain("mark"), Block("file", X, 1, TRUE, TRUE, "stored")>>

SizeOf(name) == SumSeq([i \in DOMAIN MCLayout[name] |-> BlockSize(MCLayout[name][i])])
Archive(name) == [name |-> name, size |-> SizeOf(name)]

Volumes == <<Archive(A2), Archive(A1)>>
ZipFile == <<Archive(Z)>>
Blocks == <<Archive(B)>>
Nested == <<Archive(O1), Archive(O2)>>
Split == <<[name |-> S2, size |-> 1], [name |-> S1, size |-> 2]>>
\* A file with the name of an archive's directory.
Conflict == <<[name |-> NoExt("i"), size |-> 1], Archive(I)>>
\* A split file with the name of the directory of an archive with another.
Splits == <<[name |-> C1, size |-> 1], Archive(C)>>
\* A volume that was posted twice.
Twice == <<Archive(L), Archive(L)>>
MCNZBs == {Twice, Volumes, ZipFile, Blocks, Nested, Split, Conflict, Splits}
MCStops == MCNZBs \ {Volumes, Conflict, Splits, Twice}
=============================================================================
