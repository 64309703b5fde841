--------------------------- MODULE MCRouterClient ---------------------------
(* RouterClient with a handful of requests: enough for connect, AddNote, a   *)
(* sample, DelNote and one more request that may time out or come late.      *)
EXTENDS RouterClient
=============================================================================
