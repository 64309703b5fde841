---------------------------- MODULE MCRecording ----------------------------
(* Recording with two rows in the channel table, or one.                     *)
EXTENDS Recording

TwoNames == {"a", "b"}
OwnNames == <<"a", "b">>
OneName  == <<"a">>
=============================================================================
