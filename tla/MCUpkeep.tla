------------------------------ MODULE MCUpkeep ------------------------------
(***************************************************************************)
(* A small instance of Upkeep: one file, two settings, two remotes, a tag. *)
(***************************************************************************)
EXTENDS Upkeep

CONSTANTS page, draft, A, B, name, email, me, origin, backup, v1, old1, new1,
          ConfigFile, IndexFile, HeadFile

TextsAlike == Contents \X Contents
Order == <<name, email>>
NoGlobal == [k \in {name, email} |-> Absent]
=============================================================================
