--------------------------- MODULE MCSharedStore ---------------------------
(* Every capture and file holds a channel of the same name, so that each      *)
(* meets the others in the store.                                            *)
EXTENDS SharedStore

SameName == [x \in Captures \cup Files |-> "n"]
=============================================================================
