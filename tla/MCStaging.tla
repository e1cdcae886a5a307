------------------------------ MODULE MCStaging ------------------------------
(***************************************************************************)
(* Small instances of Staging: two files, one or two contents; a directory *)
(* has one file.                                                           *)
(***************************************************************************)
EXTENDS Staging, TLC

CONSTANTS page, notes, A, B

\* Files are interchangeable, and so are contents.
Interchange == Permutations(Paths) \union Permutations(Contents)

\* Either file may be the whole of a directory that is moved onto the other.
OneFile == {{<<page, notes>>}, {<<notes, page>>}}
=============================================================================
