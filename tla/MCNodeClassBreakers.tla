------------------------ MODULE MCNodeClassBreakers ------------------------
(* Small instances of NodeClassBreakers for TLC. *)
EXTENDS NodeClassBreakers
=============================================================================
