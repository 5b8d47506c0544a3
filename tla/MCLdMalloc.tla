----------------------------- MODULE MCLdMalloc -----------------------------
(***************************************************************************)
(* LdMalloc for TLC.                                                       *)
(***************************************************************************)
EXTENDS LdMalloc

SomeProducts == {<<4, 17>>, <<128, 128>>}

=============================================================================
