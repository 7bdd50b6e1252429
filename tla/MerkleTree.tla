----------------------------- MODULE MerkleTree -----------------------------
(***************************************************************************)
(* Inclusion proofs over the content hashes of an evidence chain: the root *)
(* of evidence/anchordata.go (ComputeEvidenceMerkleRoot), the proof of     *)
(* evidence/merkle.go (GenerateMerkleInclusionProof) and its check         *)
(* (VerifyMerkleInclusionProof).  Root and proof build the tree twice, in  *)
(* two different ways: the root in place, level by level in one array, the *)
(* proof with a fresh array per level; they have to agree.                 *)
(*                                                                         *)
(* A chain grows while proofs for its links are handed out; a holder keeps *)
(* a proof and checks it later, against this chain or the next one.        *)
(***************************************************************************)
EXTENDS Naturals, Sequences

CONSTANTS Contents,  \* contents of links, as the bytes that are hashed
          Zero,      \* the zero [32]byte
          MaxLinks   \* bound: links of the chain

ASSUME BoundsAssumption == MaxLinks \in Nat

VARIABLES links,   \* the content hashes of bundle.Chain.Links
          proof,   \* the MerkleInclusionProof handed out last, or NoProof
          from     \* history: the links it was generated from

vars == <<links, proof, from>>

NoProof == [index |-> 0, leaf |-> Zero, path |-> <<>>, root |-> Zero]

-----------------------------------------------------------------------------

(* The idealised hash: a digest stands for the bytes it was made of.  Bytes *)
(* are a sequence of pieces, and a digest may be one of them: the content  *)
(* of a link and two digests one after the other go through the same hash, *)
(* so a content that is two digests has the hash of their parent.          *)
Hash(bytes) == [of |-> bytes]
ContentHash(content) == Hash(content)
Sum256(left, right) == Hash(<<left, right>>)

Hashes == {ContentHash(c) : c \in Contents}

(* The size of a full tree, doubled once for each level below the root.    *)
Size[d \in Nat] == IF d = 0 THEN 1 ELSE 2 * Size[d - 1]

(* The depth of the smallest full tree with n leaves.                      *)
Depth(n) == CHOOSE d \in 0..n : n <= Size[d] /\ \A e \in 0..(d - 1) : Size[e] < n

(* The last leaf is repeated up to a power of two.                         *)
Padded(hashes) ==
  [i \in 1..Size[Depth(Len(hashes))] |-> hashes[IF i <= Len(hashes) THEN i ELSE Len(hashes)]]

(* Slip: a node is combined with its neighbour, not with its sibling.      *)
HalvedByNeighbour(array, half) ==
  LET pass[i \in 0..half] ==
        IF i = 0 THEN array
        ELSE [pass[i - 1] EXCEPT ![i] = Sum256(pass[i - 1][i], pass[i - 1][i + 1])]
  IN pass[half]

(* One pass of the root over its array: the first half cells are           *)
(* overwritten one after the other, the rest keeps the level below.        *)
Halved(array, half) ==
  LET pass[i \in 0..half] ==
        IF i = 0 THEN array
        ELSE [pass[i - 1] EXCEPT ![i] = Sum256(pass[i - 1][2 * i - 1], pass[i - 1][2 * i])]
  IN pass[half]

(* The array after each pass; the last one leaves the root in its first    *)
(* cell.                                                                   *)
Passes(hashes) ==
  LET depth == Depth(Len(hashes))
      array[d \in 0..depth] ==
        IF d = 0 THEN Padded(hashes) ELSE Halved(array[d - 1], Size[depth - d])
  IN array

ComputeEvidenceMerkleRoot(hashes) ==
  IF hashes = <<>> THEN Zero ELSE Passes(hashes)[Depth(Len(hashes))][1]

-----------------------------------------------------------------------------

(* Positions count from 0, as linkIndex does.                              *)
At(level, position) == level[position + 1]
SiblingOf(position) == IF position % 2 = 0 THEN position + 1 ELSE position - 1

(* A position on each level, from a leaf upwards: halved level by level.    *)
Positions(index, depth) ==
  LET idx[d \in 0..depth] == IF d = 0 THEN index ELSE idx[d - 1] \div 2 IN idx

(* The levels of the tree from the leaves to the root, an array for each.  *)
Levels(hashes) ==
  LET depth == Depth(Len(hashes))
      level[d \in 0..depth] ==
        IF d = 0 THEN Padded(hashes)
        ELSE [i \in 1..Size[depth - d] |-> Sum256(level[d - 1][2 * i - 1], level[d - 1][2 * i])]
  IN level

(* The siblings on the way from the leaf at index to the root.             *)
buildMerkleProof(hashes, index) ==
  LET depth == Depth(Len(hashes)) IN
  [d \in 1..depth |->
     At(Levels(hashes)[d - 1], SiblingOf(Positions(index, depth)[d - 1]))]

(* Slip: the index of the proof counts from 1.                             *)
ProofFromOne(hashes, index) ==
  [index |-> index + 1, leaf |-> At(hashes, index),
   path |-> buildMerkleProof(hashes, index), root |-> ComputeEvidenceMerkleRoot(hashes)]

ProofFor(hashes, index) ==
  [index |-> index, leaf |-> At(hashes, index),
   path |-> buildMerkleProof(hashes, index), root |-> ComputeEvidenceMerkleRoot(hashes)]

(* Slip: the leaf always comes first, whatever its side.                   *)
CombinedLeafFirst(p) ==
  LET computed[d \in 0..Len(p.path)] ==
        IF d = 0 THEN p.leaf ELSE Sum256(computed[d - 1], p.path[d])
  IN computed

(* What the verifier has computed after each sibling of the path.          *)
Combined(p) ==
  LET computed[d \in 0..Len(p.path)] ==
        IF d = 0 THEN p.leaf
        ELSE IF Positions(p.index, Len(p.path))[d - 1] % 2 = 0
             THEN Sum256(computed[d - 1], p.path[d])
             ELSE Sum256(p.path[d], computed[d - 1])
  IN computed

(* Slip: with nothing to combine there is nothing to check.                *)
VerifyUnlessEmpty(p) == p.path = <<>> \/ Combined(p)[Len(p.path)] = p.root

VerifyMerkleInclusionProof(p) == Combined(p)[Len(p.path)] = p.root

-----------------------------------------------------------------------------

(* The collector begins the chain of another bundle; proofs for links of    *)
(* the one before stay in their holders' hands.                            *)
NewBuilder ==
  /\ links' = <<>>
  /\ UNCHANGED <<proof, from>>

AddLink(h) ==
  /\ Len(links) < MaxLinks
  /\ links' = Append(links, h)
  /\ UNCHANGED <<proof, from>>

GenerateMerkleInclusionProof(index) ==
  /\ index < Len(links)
  /\ proof' = ProofFor(links, index)
  /\ from' = links
  /\ UNCHANGED links

(* nil bundle, no chain, index out of range: an error and no proof.        *)
GenerateRejected(index) == index >= Len(links) /\ UNCHANGED vars

Init == links = <<>> /\ proof = NoProof /\ from = <<>>

Next == \/ NewBuilder
        \/ \E h \in Hashes : AddLink(h)
        \/ \E index \in 0..MaxLinks :
             GenerateMerkleInclusionProof(index) \/ GenerateRejected(index)

Spec == Init /\ [][Next]_vars

-----------------------------------------------------------------------------
(* Properties *)

(* A proof in somebody's hands names a link of the chain it came from and   *)
(* has one sibling per level.                                               *)
TypeOK ==
  /\ links \in Seq(Hashes) /\ Len(links) <= MaxLinks
  /\ proof = NoProof \/
       /\ proof.index \in 0..(Len(from) - 1)
       /\ proof.leaf = At(from, proof.index)
       /\ Len(proof.path) = Depth(Len(from))

(* Every proof that was handed out verifies, at once and however much the   *)
(* chain grew since: the two ways to build the tree agree on every length   *)
(* and index, the padded ones included (GenerateMerkleInclusionProof,       *)
(* VerifyMerkleInclusionProof).                                             *)
ProofsVerify == proof # NoProof => VerifyMerkleInclusionProof(proof)

(* A proof vouches for one link: with another content in the place of its   *)
(* link it does not verify (VerifyMerkleInclusionProof).                    *)
ProofBindsLink ==
  proof # NoProof =>
    \A h \in Hashes \ {proof.leaf} : ~VerifyMerkleInclusionProof([proof EXCEPT !.leaf = h])

(* The check reads only the low bits of LinkIndex, and repeated padding     *)
(* leaves verify as well; still an index with which a proof verifies leads, *)
(* in the padded tree, to a link of the content the proof shows.            *)
IndexLeadsToContent ==
  proof # NoProof =>
    LET leaves == Padded(from) IN
    \A k \in 0..(2 * Len(leaves) - 1) :
      VerifyMerkleInclusionProof([proof EXCEPT !.index = k])
        => At(leaves, k % Len(leaves)) = proof.leaf

(* The leaves of the shallower tree are a level of the other: its leaves,   *)
(* or, if contents of links are digests, the nodes these are made of.      *)
SameLeaves(f, g) ==
  LET m == Depth(Len(f))
      n == Depth(Len(g))
  IN IF m <= n THEN Padded(f) = Levels(g)[n - m] ELSE Padded(g) = Levels(f)[m - n]

(* A root stands for one chain, with two exceptions and no other: the last  *)
(* link repeated as the padding would have done anyway, and, since leaves  *)
(* and inner nodes are hashed alike, a chain whose contents are the pairs  *)
(* of digests of a level of the other tree (ComputeEvidenceMerkleRoot).    *)
RootTellsLinks ==
  proof # NoProof /\ links # <<>> =>
    (ComputeEvidenceMerkleRoot(links) = proof.root <=> SameLeaves(links, from))
=============================================================================
