--------------------------- MODULE PortablePackage ---------------------------
(***************************************************************************)
(* Export of an evidence bundle: evidence/portable.go, with CanonicalJSON  *)
(* (canonical.go) where the export hash is computed.                       *)
(*                                                                         *)
(* An exporter first marshals the bundle, then gathers the other inputs    *)
(* and calls BuildPortablePackageWithBindings (or the older                *)
(* BuildPortablePackage); between the two reads the bundle lives on.  The  *)
(* package is written as JSON and read back, witnesses and a signer add    *)
(* to it, a holder may put a field of another export in it, and at any     *)
(* time somebody calls VerifyPortablePackage.  Bundle and exporter are     *)
(* external; they are as free as the fields of the two structs allow.      *)
(***************************************************************************)
EXTENDS Naturals, FiniteSets

CONSTANTS Plans,       \* plan hashes
          Outcomes,    \* outcome digests
          Decisions,   \* policy decisions
          Profiles,    \* trust profiles
          Anchorings,  \* [tx, block]: where and when on L0 it may be anchored
          Instants,    \* timestamps of anchor data, in nanoseconds
          Spacing      \* distance of neighbouring float64 at such values

ASSUME NumbersAssumption == /\ \A a \in Anchorings : a.block \in Nat \ {0}
                            /\ Instants \subseteq Nat /\ Instants # {}
                            /\ Spacing \in Nat \ {0}
ASSUME AnchoringsAssumption == \A a \in Anchorings : a.tx # ""

VARIABLES live,      \* the bundle, as far as a package refers to it
          data,      \* the bundle as it was marshalled, or NotABundle
          given,     \* the inputs of the build, or NoInputs
          pkg,       \* the PortableEvidencePackage, or NoPackage
          replaced   \* history: a holder has replaced a field

vars == <<live, data, given, pkg, replaced>>

-----------------------------------------------------------------------------
(* Data.  Slices keep nil and empty apart; order does not matter here.     *)

NotABundle == [id |-> ""]   \* BundleData that is empty or does not parse
NoInputs == [bundleData |-> NotABundle]
NoPackage == [version |-> ""]

Nil == [nil |-> TRUE, elems |-> {}]
Slice(elems) == [nil |-> FALSE, elems |-> elems]

NoProof == [bundleId |-> "", block |-> 0, instant |-> 0]

Zero == <<>>   \* the zero [32]byte

Sum256(bytes) == <<bytes>>

ASSUME ZeroAssumption == Zero \notin Outcomes

(* Every number of the document passes through a float64: of a time in     *)
(* nanoseconds, the nearest multiple of Spacing is left.                   *)
Float64(n) == ((n + Spacing \div 2) \div Spacing) * Spacing

-----------------------------------------------------------------------------
(* The export hash *)

(* Slip: a field that was added last is not committed to.                  *)
CoveredButCapsule(p) ==
  [f \in DOMAIN p \ {"exportHash", "attached", "capsule"} |-> p[f]]

(* All fields but ExportHash, Signature and WitnessReceipts.               *)
Uncovered == {"exportHash", "attached"}
Covered(p) == [f \in DOMAIN p \ Uncovered |-> p[f]]

CanonicalJSON(fields) == [fields EXCEPT !.anchorProof.instant = Float64(@)]

ComputePortableExportHash(p) == Sum256(CanonicalJSON(Covered(p)))

computePolicyDecisionDigest(decisions) ==
  IF decisions = {} THEN Zero ELSE Sum256(decisions)

-----------------------------------------------------------------------------
(* Building *)

(* A raw message that is empty but not nil does not marshal.               *)
Marshals(in) == in.capsule # "empty"

Unhashed(in) ==
  [version |-> "4", bundleData |-> in.bundleData, planHash |-> in.planHash,
   outcome |-> in.outcome, trust |-> in.trust, proofs |-> in.proofs,
   anchorProof |-> in.anchorProof, anchorTx |-> in.anchorTx,
   anchorBlock |-> in.anchorBlock, plugins |-> in.plugins, capsule |-> in.capsule,
   policyDigest |-> computePolicyDecisionDigest(in.policies),
   exportHash |-> Zero, attached |-> FALSE]

(* Slip: the hash is taken before the policy digest is in its place.       *)
PackageHashedEarly(in) ==
  [Unhashed(in) EXCEPT !.exportHash =
     ComputePortableExportHash([Unhashed(in) EXCEPT !.policyDigest = Zero])]

(* Slip: the hash is left to the caller.                                   *)
PackageUnhashed(in) == Unhashed(in)

PackageOf(in) ==
  [Unhashed(in) EXCEPT !.exportHash = ComputePortableExportHash(Unhashed(in))]

(* The older entry point passes on none of the bindings.                   *)
WithoutBindings(in) ==
  [in EXCEPT !.anchorTx = "", !.anchorBlock = 0, !.plugins = Nil,
             !.policies = {}, !.capsule = "nil"]

BuildPortablePackageWithBindings(in) ==
  /\ pkg = NoPackage
  /\ Marshals(in)
  /\ given' = in /\ pkg' = PackageOf(in)
  /\ UNCHANGED <<live, data, replaced>>

BuildRejected(in) == pkg = NoPackage /\ ~Marshals(in) /\ UNCHANGED vars

BuildPortablePackage(in) == BuildPortablePackageWithBindings(WithoutBindings(in))

-----------------------------------------------------------------------------
(* VerifyPortablePackage, check by check *)

(* A non-zero plan hash that an approval of the bundle names; without such *)
(* approvals it has to be the outcome's.                                   *)
PlanHashBound(p) ==
  LET approved == p.bundleData.approvals \ {Zero} IN
  /\ p.planHash # Zero
  /\ IF approved # {} THEN p.planHash \in approved ELSE p.planHash = p.outcome

(* Slip: any digest but zero will do.                                      *)
OutcomePresent(p) == p.outcome # Zero

OutcomeBound(p) == p.outcome # Zero /\ p.bundleData.outcome = p.outcome

ProofsVerify(p) == \A verifies \in p.proofs.elems : verifies

Anchored(b) == b.anchor \in {"anchored", "verified"}

AnchorBound(p) ==
  LET b == p.bundleData IN
  Anchored(b) =>
    /\ p.anchorProof # NoProof /\ p.anchorProof.bundleId = b.id
    /\ b.anchorTx # "" => p.anchorTx = b.anchorTx
    /\ b.anchorBlock # 0 => p.anchorBlock = b.anchorBlock

TrustBound(p) ==
  \A entry \in p.trust.elems :
    /\ entry.block # 0
    /\ p.bundleData.trust # {} => entry.profile \in p.bundleData.trust

PoliciesBound(p) == computePolicyDecisionDigest(p.bundleData.policies) = p.policyDigest

PluginsIdentified(p) == \A plugin \in p.plugins.elems : plugin = "identified"

VerifyPortablePackage(p) ==
  /\ p.version = "4"
  /\ ComputePortableExportHash(p) = p.exportHash
  /\ p.bundleData # NotABundle
  /\ PlanHashBound(p)
  /\ OutcomeBound(p)
  /\ ProofsVerify(p)
  /\ AnchorBound(p)
  /\ TrustBound(p)
  /\ PoliciesBound(p)
  /\ PluginsIdentified(p)

-----------------------------------------------------------------------------
(* The JSON form of a package: fields that are empty are omitted and come  *)
(* back as nil.                                                            *)

OmitEmpty(slice) == IF slice.elems = {} THEN Nil ELSE slice

Wire(p) == [p EXCEPT !.trust = OmitEmpty(@), !.proofs = OmitEmpty(@), !.plugins = OmitEmpty(@)]

Transport ==
  /\ pkg # NoPackage
  /\ pkg' = Wire(pkg)
  /\ UNCHANGED <<live, data, given, replaced>>

(* A witness receipt or a signature, added after the export.               *)
Attach ==
  /\ pkg # NoPackage /\ ~replaced
  /\ pkg' = [pkg EXCEPT !.attached = TRUE]
  /\ UNCHANGED <<live, data, given, replaced>>

(* Bound: one replacement, in a package of a bundle that stood still, with  *)
(* nothing attached.                                                       *)
Replace(field, other) ==
  /\ pkg # NoPackage /\ data = live /\ ~pkg.attached /\ ~replaced
  /\ pkg' = [pkg EXCEPT ![field] = other[field]]
  /\ replaced' = TRUE
  /\ UNCHANGED <<live, data, given>>

-----------------------------------------------------------------------------
(* The bundle, external: it changes until the inputs have been gathered.   *)
(* Bound: one change between the two reads.                                *)

Change(b) ==
  /\ pkg = NoPackage
  /\ data \in {NotABundle, live}
  /\ live' = b
  /\ UNCHANGED <<data, given, pkg, replaced>>

BundleStep ==
  \/ \E plan \in Plans : Change([live EXCEPT !.approvals = @ \cup {plan}])
  \/ \E outcome \in Outcomes : Change([live EXCEPT !.outcome = outcome])
  \/ \E decision \in Decisions : Change([live EXCEPT !.policies = @ \cup {decision}])
  \/ \E profile \in Profiles : Change([live EXCEPT !.trust = @ \cup {profile}])
  \/ \E a \in Anchorings :
       Change([live EXCEPT !.anchor = "anchored", !.anchorTx = a.tx, !.anchorBlock = a.block])

(* The exporter, external.                                                 *)

MarshalBundle ==
  /\ data = NotABundle /\ pkg = NoPackage
  /\ data' = live
  /\ UNCHANGED <<live, given, pkg, replaced>>

PlansOf(b) == IF b.approvals \ {Zero} = {} THEN {b.outcome} ELSE b.approvals \ {Zero}

(* Inputs as they should be: everything but BundleData from the bundle as  *)
(* it is now, nil for what there is none of.                               *)
Regular(plan) ==
  [bundleData |-> data, planHash |-> plan, outcome |-> live.outcome,
   trust |-> IF live.trust = {} THEN Nil ELSE Slice({[profile |-> t, block |-> 1] : t \in live.trust}),
   proofs |-> Nil,
   anchorProof |-> IF Anchored(live)
                   THEN [bundleId |-> live.id, block |-> live.anchorBlock,
                         instant |-> CHOOSE i \in Instants : TRUE]
                   ELSE NoProof,
   anchorTx |-> live.anchorTx, anchorBlock |-> live.anchorBlock,
   plugins |-> Nil, policies |-> live.policies, capsule |-> "nil"]

(* ... and with one of them out of the ordinary.                           *)
Irregular(r) ==
  {[r EXCEPT !.bundleData = NotABundle], [r EXCEPT !.outcome = Zero], [r EXCEPT !.policies = {}]}
  \cup {[r EXCEPT !.planHash = hash] : hash \in Plans \cup {Zero}}
  \cup {[r EXCEPT !.trust = Slice(s)] :
          s \in {{}, {[profile |-> "other", block |-> 1]}}
               \cup {{[profile |-> t, block |-> 0]} : t \in Profiles}}
  \cup {[r EXCEPT !.proofs = Slice(s)] : s \in {{}, {TRUE}, BOOLEAN}}
  \cup {[r EXCEPT !.anchorProof = q] :
          q \in {NoProof} \cup [bundleId : {"bundle"}, block : {a.block : a \in Anchorings},
                                instant : Instants]
                         \cup [bundleId : {"other"}, block : {live.anchorBlock}, instant : {0}]}
  \cup {[r EXCEPT !.plugins = Slice(s)] :
          s \in {{}, {"identified"}, {"identified", "partial"}}}
  \cup {[r EXCEPT !.capsule = c] : c \in {"empty", "capsule"}}

Inputs == UNION {{Regular(plan)} \cup Irregular(Regular(plan)) : plan \in PlansOf(live)}

-----------------------------------------------------------------------------

Init ==
  /\ \E outcome \in Outcomes, approvals \in {{}, {Zero}} :
       live = [id |-> "bundle", outcome |-> outcome, approvals |-> approvals, policies |-> {},
               trust |-> {}, anchor |-> "unanchored", anchorTx |-> "", anchorBlock |-> 0]
  /\ data = NotABundle
  /\ given = NoInputs /\ pkg = NoPackage
  /\ replaced = FALSE

Next ==
  \/ BundleStep
  \/ MarshalBundle
  \/ data # NotABundle /\ \E in \in Inputs :
       BuildPortablePackageWithBindings(in) \/ BuildPortablePackage(in) \/ BuildRejected(in)
  \/ Transport
  \/ Attach
  \/ \E in \in Inputs : \E field \in DOMAIN pkg \ Uncovered : Replace(field, Unhashed(in))

Spec == Init /\ [][Next]_vars

-----------------------------------------------------------------------------
(* Properties *)

Built == pkg # NoPackage
Accepted == Built /\ VerifyPortablePackage(pkg)

(* A package has the inputs it was built from, and a hash.                  *)
TypeOK ==
  /\ live.anchor \in {"unanchored", "anchored"} /\ live.outcome \in Outcomes
  /\ data # NotABundle => data.id = live.id
  /\ Built <=> given # NoInputs
  /\ Built => pkg.exportHash # Zero /\ pkg.attached \in BOOLEAN
  /\ replaced => Built

(* A careful export is never refused: built from regular inputs, of a       *)
(* bundle that did not change between the two reads, the package is         *)
(* accepted whatever way it travels and whatever is attached to it          *)
(* (BuildPortablePackageWithBindings, VerifyPortablePackage).               *)
CarefulExportAccepted ==
  Built /\ ~replaced /\ data = live /\ given \in {Regular(plan) : plan \in PlansOf(live)}
    => Accepted

(* A torn export is refused: when the outcome, the policy decisions or, for *)
(* a bundle marshalled as anchored, its anchor transaction and block        *)
(* changed between the two reads, no package of regular inputs is accepted. *)
TornExportRefused ==
  Accepted /\ ~replaced /\ given \in {Regular(plan) : plan \in PlansOf(live)} =>
    /\ data.outcome = live.outcome /\ data.policies = live.policies
    /\ Anchored(data) => data.anchorTx = live.anchorTx /\ data.anchorBlock = live.anchorBlock

(* An accepted package says what was built: no field but the attachments    *)
(* can have been replaced, apart from times of the anchor data that fall    *)
(* on the same float64 (ComputePortableExportHash).                         *)
AcceptedAsBuilt ==
  Accepted =>
    LET built == PackageOf(given) IN
    /\ \A field \in DOMAIN pkg \ (Uncovered \cup {"anchorProof"}) : pkg[field] = built[field]
    /\ pkg.anchorProof.bundleId = built.anchorProof.bundleId
    /\ pkg.anchorProof.block = built.anchorProof.block
    /\ pkg.anchorProof.instant < built.anchorProof.instant + Spacing
    /\ built.anchorProof.instant < pkg.anchorProof.instant + Spacing

(* What the comments say of a package (self-contained, verifiable offline,  *)
(* an empty slice is permitted): a package that verifies where it was built *)
(* verifies after it was written and read.  The hash tells empty slices     *)
(* from nil ones, the JSON form does not.                                   *)
SurvivesTransport == Accepted => VerifyPortablePackage(Wire(pkg))

(* Step 7 in the comment of VerifyPortablePackage: the AnchorProof of an    *)
(* anchored bundle matches its AnchorBlock, and AnchorBlockHeight agrees    *)
(* with the proof.  The code never looks at the block of the proof.         *)
AnchorProofMatches ==
  Accepted /\ Anchored(pkg.bundleData) =>
    /\ pkg.anchorProof.block = pkg.bundleData.anchorBlock
    /\ pkg.anchorProof.block = pkg.anchorBlock
=============================================================================
