--------------------------- MODULE EvidenceBundle ---------------------------
(***************************************************************************)
(* The evidence bundle of evidence/bundle.go: its content, the hash that   *)
(* seals it (ComputeBundleHash), SetAnchorCandidate and Finalize, used by  *)
(* the parties the file names: a collector that fills and seals the        *)
(* bundle, an anchoring workflow and a retention policy.  Those three live *)
(* outside the repository; their steps are external, as free as the        *)
(* comments of bundle.go allow, and interleave with Finalize.              *)
(*                                                                         *)
(* The hash is the idealised Sum256 of what is written to it, in the       *)
(* order of the code: the characters of the identifiers one after the      *)
(* other, the level, the chain hash, the state root, the sections that are *)
(* not empty and the anchor candidate when it is not zero.                 *)
(***************************************************************************)
EXTENDS Naturals, Sequences

CONSTANTS Bundles,
          Characters,
          Identities,     \* [intent, plan, outcome]: sequences of characters
          Levels,         \* the evidence levels in use (ValidEvidenceLevels)
          ChainHashes,    \* ChainHash values of chains a bundle may embed
          StateRoots,
          SectionOrder,   \* the six optional sections, in hashing order
          FloatSections,  \* those that hold a float64: drift, step outcomes
          Entries,        \* contents of a section that marshal
          NotANumber,     \* contents with a NaN or Inf: json.Marshal fails
          Digests         \* anchor candidates

VARIABLES bundle,   \* the EvidenceBundle structs
          result,   \* what the last call of Finalize returned
          sealed    \* history: the content at the last successful Finalize

vars == <<bundle, result, sealed>>

-----------------------------------------------------------------------------

Zero == <<>>                \* the zero [32]byte
Sum256(bytes) == <<bytes>>

Sections == {SectionOrder[i] : i \in DOMAIN SectionOrder}
Empty == "empty"            \* a nil or zero-length section
NilChain == [nil |-> TRUE]
Chain(hash, intact) == [nil |-> FALSE, chainHash |-> hash, intact |-> intact]
Chains == {NilChain} \cup {Chain(h, i) : h \in ChainHashes, i \in BOOLEAN}

(* VerifyChainIntegrity (EvidenceChain): a nil chain is an error, else the *)
(* links match each other and the chain hash.                              *)
ChainIntact(chain) == ~chain.nil /\ chain.intact

AnchorStatuses == {"", "unanchored", "pending", "anchored", "verified"}
BundleStates == {"", "created", "anchored", "verified", "expired"}

ASSUME LevelsAssumption == Levels \subseteq {"light", "standard", "full", "anchored"}

ASSUME SectionsAssumption == SectionOrder \in Seq(STRING)

ASSUME IdentitiesAssumption ==
  Identities \subseteq
    [intent : Seq(Characters), plan : Seq(Characters), outcome : Seq(Characters)]

(* What hashing relies on: a level is one symbol that no identifier holds,  *)
(* and the JSON of a section is not a hash.  Hashes of different kinds may  *)
(* be equal: an empty chain and a state root nobody set are both zero.     *)
ASSUME HashesAssumption ==
  /\ Characters \cap Levels = {}
  /\ \A s \in Sections : \A value \in Entries :
       <<s, value>> \notin UNION {ChainHashes, StateRoots, Digests}
  /\ Zero \notin Digests

-----------------------------------------------------------------------------
(* ComputeBundleHash *)

(* The identifiers, one after the other with nothing between them.         *)
Joined(ids) == ids.intent \o ids.plan \o ids.outcome

ChainHashOf(b) == IF b.chain.nil THEN <<>> ELSE <<b.chain.chainHash>>
Roots(b) == ChainHashOf(b) \o <<b.stateRoot>>

(* The sections that are not empty, in hashing order.                      *)
SectionsWritten(sections) ==
  LET written[n \in 0..Len(SectionOrder)] ==
        IF n = 0 THEN <<>>
        ELSE IF sections[SectionOrder[n]] = Empty THEN written[n - 1]
        ELSE Append(written[n - 1], <<SectionOrder[n], sections[SectionOrder[n]]>>)
  IN written[Len(SectionOrder)]

CandidateOf(b) == IF b.candidate = Zero THEN <<>> ELSE <<b.candidate>>
Body(b) == SectionsWritten(b.sections) \o CandidateOf(b)

Marshals(b) == \A s \in Sections : b.sections[s] # NotANumber

Written(b) == Joined(b.ids) \o (<<b.level>> \o (Roots(b) \o Body(b)))

(* Slip, the state before the fix the comment of ComputeBundleHash tells   *)
(* of: a section that does not marshal is left out of the hash.            *)
HashSkippingUnmarshalable(b) ==
  [err |-> FALSE, hash |-> Sum256(Written([b EXCEPT !.sections =
     [s \in Sections |-> IF b.sections[s] = NotANumber THEN Empty ELSE b.sections[s]]]))]

ComputeBundleHash(b) ==
  IF Marshals(b) THEN [err |-> FALSE, hash |-> Sum256(Written(b))]
  ELSE [err |-> TRUE, hash |-> Zero]

-----------------------------------------------------------------------------
(* The collector: external, apart from SetAnchorCandidate and Finalize.    *)
(* The fields are exported and nothing stops a holder from writing them,   *)
(* before the seal or after it.                                            *)

SetIdentity(b, ids) ==
  /\ bundle' = [bundle EXCEPT ![b].ids = ids]
  /\ UNCHANGED <<result, sealed>>

SetLevel(b, level) ==
  /\ bundle' = [bundle EXCEPT ![b].level = level]
  /\ UNCHANGED <<result, sealed>>

SetStateRoot(b, root) ==
  /\ bundle' = [bundle EXCEPT ![b].stateRoot = root]
  /\ UNCHANGED <<result, sealed>>

AttachChain(b, chain) ==
  /\ bundle' = [bundle EXCEPT ![b].chain = chain]
  /\ UNCHANGED <<result, sealed>>

SetSection(b, s, value) ==
  /\ bundle' = [bundle EXCEPT ![b].sections = [@ EXCEPT ![s] = value]]
  /\ UNCHANGED <<result, sealed>>

SetAnchorCandidate(b, digest) ==
  /\ bundle' = [bundle EXCEPT ![b].candidate = digest]
  /\ UNCHANGED <<result, sealed>>

(* The immutable content of a bundle, in the words of ComputeBundleHash's   *)
(* comment, and whether the chain it names was intact.                     *)
Content(b) == [ids |-> b.ids, level |-> b.level, stateRoot |-> b.stateRoot,
               chainHash |-> ChainHashOf(b),
               sections |-> b.sections, candidate |-> b.candidate]
SealOf(b) == [content |-> Content(b), chainIntact |-> ChainIntact(b.chain)]

(* Slip: the candidate of an anchored bundle is not asked for.             *)
NeedsNoCandidate(b) == FALSE

NeedsCandidate(b) == bundle[b].level = "anchored" /\ bundle[b].candidate = Zero

(* Level anchored without a candidate: nothing of the bundle changes.      *)
RejectCandidate(b) ==
  /\ NeedsCandidate(b)
  /\ result' = [result EXCEPT ![b] = "needs candidate"]
  /\ UNCHANGED <<bundle, sealed>>

(* Slip: hash and error are assigned together, the seal is lost on error.  *)
RejectedClearingHash(b) == [bundle[b] EXCEPT !.type = "evidence_bundle", !.bundleHash = Zero]

(* The hash fails: the type has been set already, nothing else.            *)
Rejected(b) == [bundle[b] EXCEPT !.type = "evidence_bundle"]

RejectContent(b) ==
  /\ ~NeedsCandidate(b) /\ ComputeBundleHash(bundle[b]).err
  /\ bundle' = [bundle EXCEPT ![b] = Rejected(b)]
  /\ result' = [result EXCEPT ![b] = "not marshalled"]
  /\ UNCHANGED sealed

(* Slip: a chain that was verified once is not looked at again.            *)
SealedVerifyingOnce(b) ==
  [bundle[b] EXCEPT !.type = "evidence_bundle",
                    !.bundleHash = ComputeBundleHash(bundle[b]).hash,
                    !.chainVerified = @ \/ ChainIntact(bundle[b].chain),
                    !.state = "created",
                    !.anchor = IF @ = "" THEN "unanchored" ELSE @]

(* Slip: the anchor status starts over with every seal.                    *)
SealedUnanchored(b) ==
  [bundle[b] EXCEPT !.type = "evidence_bundle",
                    !.bundleHash = ComputeBundleHash(bundle[b]).hash,
                    !.chainVerified = ChainIntact(bundle[b].chain),
                    !.state = "created",
                    !.anchor = "unanchored"]

Sealed(b) ==
  [bundle[b] EXCEPT !.type = "evidence_bundle",
                    !.bundleHash = ComputeBundleHash(bundle[b]).hash,
                    !.chainVerified = ChainIntact(bundle[b].chain),
                    !.state = "created",
                    !.anchor = IF @ = "" THEN "unanchored" ELSE @]

Seal(b) ==
  /\ ~NeedsCandidate(b) /\ ~ComputeBundleHash(bundle[b]).err
  /\ bundle' = [bundle EXCEPT ![b] = Sealed(b)]
  /\ result' = [result EXCEPT ![b] = "nil"]
  /\ sealed' = [sealed EXCEPT ![b] = <<SealOf(bundle[b])>>]

Finalize(b) == RejectCandidate(b) \/ RejectContent(b) \/ Seal(b)

-----------------------------------------------------------------------------
(* The anchoring workflow, retention and storage: external.                *)

Advance(b, anchor, state) ==
  /\ bundle' = [bundle EXCEPT ![b] = [@ EXCEPT !.anchor = anchor, !.state = state]]
  /\ UNCHANGED <<result, sealed>>

AnchorStep(b) ==
  \/ bundle[b].anchor = "unanchored" /\ Advance(b, "pending", bundle[b].state)
  \/ bundle[b].anchor = "pending" /\ Advance(b, "anchored", "anchored")
  \/ bundle[b].anchor = "anchored" /\ Advance(b, "verified", "verified")

Expire(b) == bundle[b].state # "" /\ Advance(b, bundle[b].anchor, "expired")

(* The embedded chain is a pointer: its links can be damaged behind the    *)
(* bundle, in storage or by another holder, with ChainHash left alone.     *)
DamageLinks(b) ==
  /\ ~bundle[b].chain.nil
  /\ AttachChain(b, Chain(bundle[b].chain.chainHash, FALSE))

-----------------------------------------------------------------------------

New(ids, level, root) ==
  [ids |-> ids, level |-> level, chain |-> NilChain, stateRoot |-> root,
   sections |-> [s \in Sections |-> Empty], candidate |-> Zero, type |-> "",
   bundleHash |-> Zero, chainVerified |-> FALSE, state |-> "", anchor |-> ""]

NewBundles == {New(i, l, r) : i \in Identities, l \in Levels, r \in StateRoots}

Init ==
  /\ bundle \in [Bundles -> NewBundles]
  /\ result = [b \in Bundles |-> ""]
  /\ sealed = [b \in Bundles |-> <<>>]

Values(s) == {Empty} \cup Entries \cup (IF s \in FloatSections THEN {NotANumber} ELSE {})

CollectorStep(b) ==
  \/ \E ids \in Identities : SetIdentity(b, ids)
  \/ \E level \in Levels : SetLevel(b, level)
  \/ \E root \in StateRoots : SetStateRoot(b, root)
  \/ \E h \in ChainHashes : AttachChain(b, Chain(h, TRUE))
  \/ \E s \in Sections : \E value \in Values(s) : SetSection(b, s, value)
  \/ \E digest \in Digests \cup {Zero} : SetAnchorCandidate(b, digest)
  \/ Finalize(b)

Next == \E b \in Bundles : CollectorStep(b) \/ AnchorStep(b) \/ Expire(b) \/ DamageLinks(b)

Spec == Init /\ [][Next]_vars

-----------------------------------------------------------------------------
(* Properties *)

IsSealed(b) == sealed[b] # <<>>

(* Every field of every bundle has its type; a bundle that Finalize sealed  *)
(* has a type string, an anchor status and a lifecycle state.               *)
TypeOK ==
  \A b \in Bundles :
    LET r == bundle[b] IN
    /\ r.ids \in Identities /\ r.level \in Levels /\ r.stateRoot \in StateRoots
    /\ r.chain \in Chains
    /\ \A s \in Sections : r.sections[s] \in Values(s)
    /\ r.candidate \in Digests \cup {Zero}
    /\ r.chainVerified \in BOOLEAN
    /\ r.anchor \in AnchorStatuses /\ r.state \in BundleStates
    /\ result[b] \in {"", "nil", "needs candidate", "not marshalled"}
    /\ IsSealed(b) => r.type # "" /\ r.anchor # "" /\ r.state # "" /\ r.bundleHash # Zero

(* The hash of the bundle as it is now is the one that Finalize stored.    *)
Matches(b) ==
  LET now == ComputeBundleHash(bundle[b]) IN ~now.err /\ now.hash = bundle[b].bundleHash

(* Contents that the hash cannot tell apart.  Characters may have moved     *)
(* from one identifier to the next; and where no section comes between     *)
(* them, what was state root and candidate may be chain hash and state     *)
(* root, or the other way round.  Nothing else may differ.                 *)
HashesOf(c) == c.chainHash \o <<c.stateRoot>> \o CandidateOf(c)

Alike(c, d) ==
  /\ Joined(c.ids) = Joined(d.ids) /\ c.level = d.level /\ c.sections = d.sections
  /\ IF \A s \in Sections : c.sections[s] = Empty
     THEN HashesOf(c) = HashesOf(d)
     ELSE c.chainHash = d.chainHash /\ c.stateRoot = d.stateRoot /\ c.candidate = d.candidate

(* Drift since the seal is visible, but for those exceptions: at any time   *)
(* after a successful Finalize, recomputing the hash gives BundleHash       *)
(* exactly when the immutable content, every field of which a holder may   *)
(* have written since, is alike to what was sealed, whatever the anchoring *)
(* workflow and retention did to the mutable fields, and never when it     *)
(* does not marshal (ComputeBundleHash).                                   *)
DriftVisible ==
  \A b \in Bundles : IsSealed(b) =>
    (Matches(b) <=> Alike(Content(bundle[b]), sealed[b][1].content))

(* ChainVerified is the verdict on the chain as it was when the bundle was  *)
(* last sealed: sealing again after the links were damaged or the chain     *)
(* replaced does not keep an old verdict (Finalize, ChainVerified).         *)
VerdictOfSealedChain ==
  \A b \in Bundles : IsSealed(b) => bundle[b].chainVerified = sealed[b][1].chainIntact

(* Since the seal a chain was attached whose hash is the old state root,    *)
(* and the candidate went to the state root.                               *)
Shifted(b) ==
  LET seal == sealed[b][1].content IN
  /\ seal.chainHash = <<>> /\ ChainHashOf(bundle[b]) = <<seal.stateRoot>>
  /\ bundle[b].stateRoot = seal.candidate /\ bundle[b].candidate = Zero
  /\ \A s \in Sections : bundle[b].sections[s] = Empty

(* A bundle of level anchored whose BundleHash still fits has the anchor    *)
(* candidate it was sealed with, and did not get its level only afterwards: *)
(* a candidate that is removed or exchanged after Finalize, or was never   *)
(* there, shows (the comment above AnchorCandidateDigest in                *)
(* ComputeBundleHash, ErrAnchoredBundleNeedsCandidate).  One exception:    *)
(* Shifted.                                                                *)
CandidateStays ==
  \A b \in Bundles : IsSealed(b) /\ bundle[b].level = "anchored" /\ Matches(b) =>
    LET seal == sealed[b][1].content IN
    /\ seal.level = "anchored" /\ seal.candidate \in Digests
    /\ bundle[b].candidate = seal.candidate \/ Shifted(b)

(* A Finalize that fails, on a bundle that was sealed before, leaves the    *)
(* seal and the lifecycle as they were.                                     *)
FailedFinalizeKeepsSeal ==
  [][\A b \in Bundles :
       result'[b] # result[b] /\ result'[b] # "nil" =>
         /\ bundle'[b].bundleHash = bundle[b].bundleHash
         /\ bundle'[b].chainVerified = bundle[b].chainVerified
         /\ bundle'[b].state = bundle[b].state
         /\ bundle'[b].anchor = bundle[b].anchor]_vars

AnchorRank(a) == CASE a = "" -> 0 [] a = "unanchored" -> 1 [] a = "pending" -> 2
                   [] a = "anchored" -> 3 [] a = "verified" -> 4

(* The anchoring workflow's progress survives Finalize: sealing a bundle    *)
(* again never takes its anchor status back (AnchorStatus, Finalize).       *)
AnchorNeverRegresses ==
  [][\A b \in Bundles : AnchorRank(bundle'[b].anchor) >= AnchorRank(bundle[b].anchor)]_vars
=============================================================================
