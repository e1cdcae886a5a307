------------------------------ MODULE MCStatus ------------------------------
(***************************************************************************)
(* A small instance of Status: two files, two texts alike enough to be     *)
(* taken for one, and a link.                                              *)
(***************************************************************************)
EXTENDS Status

CONSTANTS page, draft, A, B, link

TextsAlike == {A, B} \X {A, B}
=============================================================================
