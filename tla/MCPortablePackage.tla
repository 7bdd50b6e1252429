-------------------------- MODULE MCPortablePackage --------------------------
(***************************************************************************)
(* A small instance of PortablePackage for TLC.  Of the three instants the *)
(* first two fall on one float64.                                          *)
(***************************************************************************)
EXTENDS PortablePackage

(* Anchored anew, a bundle gets another transaction, in a later block or   *)
(* in the same one.                                                        *)
MCAnchorings == {[tx |-> "tx1", block |-> 1], [tx |-> "tx2", block |-> 1],
                 [tx |-> "tx2", block |-> 2]}
=============================================================================
