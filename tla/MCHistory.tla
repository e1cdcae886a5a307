------------------------------ MODULE MCHistory ------------------------------
(***************************************************************************)
(* A small instance of History: a page is moved on one side of a merge and *)
(* another deleted by the merge itself.                                    *)
(***************************************************************************)
EXTENDS History, TLC

CONSTANTS root, side, merge, none, repo, other, chapter, moved, note, T1, T2

Parents == root :> none @@ side :> root @@ merge :> root
Walks == root :> <<root>> @@ side :> <<side, root>> @@ merge :> <<merge, side, root>>
Trees == root :> {chapter, note} @@ side :> {moved, note} @@ merge :> {moved}
Names == chapter :> "page" @@ moved :> "page" @@ note :> "note"
Alike == Permutations(Readers) \union Permutations(Repos)
=============================================================================
