--------------------------- MODULE MCThreadState ---------------------------
(***************************************************************************)
(* ThreadState for TLC.                                                    *)
(***************************************************************************)
EXTENDS ThreadState

Req(s, a, r) == [sig |-> s, act |-> a, reset |-> r]

Handlers == {Req("usr", "app", TRUE), Req("usr", "dfl", FALSE), Req("segv", "app", FALSE)}

=============================================================================
