----------------------------- MODULE MCRemotes -----------------------------
(***************************************************************************)
(* A small instance of Remotes: a server that asks for passwords, for a    *)
(* name and then a key, or for what nobody here has, and an address        *)
(* libgit2 cannot read; a branch, and one that is nowhere.                 *)
(***************************************************************************)
EXTENDS Remotes, TLC

CONSTANTS base, ours, theirs, main, nowhere, hub, typo

\* ours and theirs each follow base.
History == base :> {base} @@ ours :> {base, ours} @@ theirs :> {base, theirs}
Starts == {main :> base}
AnyDoor == {{"user_pass"}, {"username"}, {"negotiate"}}
=============================================================================
