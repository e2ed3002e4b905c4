------------------------- MODULE MCNewsClientCache -------------------------
(***************************************************************************)
(* Constants of the model-checking runs of NewsClientCache.                *)
(***************************************************************************)
EXTENDS NewsClientCache, TLC

One == [s \in Server |-> 1]
Two == [s \in Server |-> 2]

\* No property or action tells the articles of run dispatch apart.
SymmetricArticles == Permutations(Article)
=============================================================================
