---------------------------- MODULE MCMerkleTree ----------------------------
(***************************************************************************)
(* A small instance of MerkleTree for TLC: chains of up to six links, so   *)
(* that trees of depth 0 to 3 occur, full and padded, over two contents,   *)
(* so that links repeat.  One content is the digest of the other, twice: a *)
(* link with it has the hash that is the root of two links with the other. *)
(***************************************************************************)
EXTENDS MerkleTree

CONSTANT a

MCContents == {<<a>>, <<Hash(<<a>>), Hash(<<a>>)>>}
=============================================================================
