----------------------------- MODULE MCBatcher -----------------------------
(***************************************************************************)
(* Three callers and three catalog entries, two of which have the same     *)
(* hash.                                                                   *)
(***************************************************************************)
EXTENDS Batcher, TLC

CONSTANTS c1, c2, c3, e1, e2, e3

MCCallers == {c1, c2, c3}
MCEntries == {e1, e2, e3}
MCEntryOf == (c1 :> e1) @@ (c2 :> e2) @@ (c3 :> e3)
MCHashOf == (e1 :> 1) @@ (e2 :> 1) @@ (e3 :> 2)
=============================================================================
