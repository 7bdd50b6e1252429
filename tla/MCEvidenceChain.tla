-------------------------- MODULE MCEvidenceChain --------------------------
(***************************************************************************)
(* A small instance of EvidenceChain for TLC.  One builder records up to   *)
(* four links: it reallocates for the first three and writes the fourth    *)
(* in place, into the array it shares with the chains built before.  The   *)
(* other one records a single link, so arrays of both live in one heap.    *)
(***************************************************************************)
EXTENDS EvidenceChain

CONSTANTS b1, b2

MCBuilders == {b1, b2}
MCMaxLinks == [b \in MCBuilders |-> IF b = b1 THEN 4 ELSE 1]
=============================================================================
