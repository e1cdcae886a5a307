------------------------------ MODULE MCMerge ------------------------------
(***************************************************************************)
(* A small instance of Merge: two files, a history with a clean merge, a   *)
(* merge that deletes a file, one that conflicts in one file and not in    *)
(* the other, a fast-forward and an up-to-date branch; and every commit    *)
(* that merging, replaying or committing on top of those may make.         *)
(***************************************************************************)
EXTENDS Merge, TLC

CONSTANTS root, left, right, plain, gone, knot, main, topic, lost, page, notes, A, B, D

\* root - left, right, plain, gone, each a child of root; knot merges two.
Single == {left, right, plain, gone}
Given == Single \union {root, knot}

GivenTree ==
  root :> (page :> A @@ notes :> Absent) @@
  left :> (page :> B @@ notes :> Absent) @@
  right :> (page :> D @@ notes :> B) @@
  plain :> (page :> A @@ notes :> A) @@
  gone :> (page :> Absent @@ notes :> Absent) @@
  knot :> (page :> B @@ notes :> A)

Made ==
  [tree : [{page, notes} -> {A, B, D, Absent}],
   parents : {<<c>> : c \in Single \union {root}}
             \union {<<c, d>> : c \in Single \union {root}, d \in Single}]
  \ {[tree |-> GivenTree[knot], parents |-> <<left, plain>>]}

AllCommits == Given \union Made
AllTrees == [c \in AllCommits |-> IF c \in Given THEN GivenTree[c] ELSE c.tree]
AllParents ==
  [c \in AllCommits |->
     CASE c = root -> <<>> [] c \in Single -> <<root>> [] c = knot -> <<left, plain>>
       [] OTHER -> c.parents]
History ==
  [c \in AllCommits |-> {c, root} \union (IF c \in Single THEN {} ELSE {AllParents[c][i] : i \in DOMAIN AllParents[c]})]

Starts ==
  {[b \in {main, topic, lost} |-> CASE b = main -> s[1] [] b = topic -> s[2] [] OTHER -> Absent] :
     s \in {<<left, plain>>, <<plain, gone>>, <<left, right>>, <<root, left>>}}

Entry(p, c) == [path |-> p, content |-> c]
Lists ==
  {<<>>, <<Entry(page, A)>>, <<Entry(page, Absent)>>, <<Entry(page, A), Entry(page, B)>>,
   <<Entry(page, B), Entry(notes, A)>>}
=============================================================================
