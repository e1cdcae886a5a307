----------------------------- MODULE MCCheckout -----------------------------
(***************************************************************************)
(* Small instances of Checkout: two branches, two files and a history that *)
(* modifies, adds, deletes and leaves alone.                               *)
(***************************************************************************)
EXTENDS Checkout, TLC

CONSTANTS root, side, tip, top, main, topic, page, notes, A, B, C

\*   root - tip - top
\*      \
\*       side
History ==
  root :> {root} @@ side :> {root, side} @@ tip :> {root, tip} @@ top :> {root, tip, top}

Trees ==
  root :> (page :> A @@ notes :> Absent) @@
  side :> (page :> Absent @@ notes :> B) @@
  tip :> (page :> B @@ notes :> A) @@
  top :> (page :> B @@ notes :> B)

\* main at the root, or a step from the tip; topic nowhere or anywhere.
Starts ==
  {[b \in {main, topic} |-> IF b = main THEN m ELSE t] :
     m \in {root, tip}, t \in {Absent, root, side, tip, top}}

\* For the longer runs: topic behind main, beside it, nowhere.
FewStarts == {s \in Starts : s[main] = tip /\ s[topic] \in {Absent, root, side}}
=============================================================================
