----------------------------- MODULE NZBDirectory -----------------------------
(***************************************************************************)
(* The directory tree of the drive (NZBDirectory.cpp) and what FUSE asks   *)
(* of it (NZBFuseDrive.cpp).                                               *)
(*                                                                         *)
(* A tree is the set of its files, [path, file]; there is a directory for  *)
(* every proper prefix of a path, and an element of the tree that has both *)
(* a file and a directory is two of these.  m_root_mutex makes each of the *)
(* operations atomic.                                                      *)
(***************************************************************************)
EXTENDS Integers, Sequences, SequencesExt, FiniteSets, FiniteSetsExt

\* GetFile: none or one.
GetFile(tree, path) == {e.file : e \in {d \in tree : d.path = path}}

\* GetDirectory finds one where something is below, and at the root.
IsDirectory(tree, path) ==
  path = <<>> \/ \E e \in tree : IsStrictPrefix(path, e.path)

\* NZBDirectory::Exists: a file or a directory, but not the root.
Exists(tree, path) == path # <<>> /\ (GetFile(tree, path) # {} \/ IsDirectory(tree, path))

\* RegisterFile throws: there is a file on the way or something at its end.
Throws(tree, path) == \E e \in tree : IsPrefix(e.path, path) \/ IsPrefix(path, e.path)

\* GetContent: the names in a directory, with their type.
GetContent(tree, path) ==
  LET below == {e \in tree : IsStrictPrefix(path, e.path)}
      Child(e) == e.path[Len(path) + 1] IN
  [n \in {Child(e) : e \in below} |->
     IF GetFile(tree, Append(path, n)) # {} THEN "File" ELSE "Directory"]

\* Unmount(i, p) does not advance i: below the root it looks for the first name of
\* the path again and again, and a directory is erased only if the next such
\* directory was erased and nothing else was in it.
Unmount(tree, path) ==
  LET depth == Max({Len(e.path) : e \in tree} \cup {0})
      At(k) == [i \in 1 .. k |-> path[1]]
      returns[k \in 0 .. depth] ==
        /\ k < depth /\ IsDirectory(tree, At(k + 1))
        /\ returns[k + 1]
        /\ \A e \in tree : IsStrictPrefix(At(k), e.path) => IsPrefix(At(k + 1), e.path) IN
  {e \in tree : \A k \in 1 .. depth : returns[k] => ~IsPrefix(At(k), e.path)}

\* nzb_getattr: what FUSE takes the path for.
Attributes(tree, path) ==
  IF path # <<>> /\ GetFile(tree, path) # {} THEN "File"
  ELSE IF IsDirectory(tree, path) THEN "Directory" ELSE "ENOENT"

\* nzb_readdir lists the names without their types, nzb_open wants a file.
Readdir(tree, path) == DOMAIN GetContent(tree, path)
Opens(tree, path) == GetFile(tree, path) # {}
=============================================================================
