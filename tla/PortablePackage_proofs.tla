----------------------- MODULE PortablePackage_proofs -----------------------
(***************************************************************************)
(* Proofs about PortablePackage for all plans, outcomes, decisions,        *)
(* profiles, anchorings and instants.                                      *)
(*                                                                         *)
(* The argument: whatever happens to a package, its export hash stays the  *)
(* one of the inputs it was built from, so a package that is accepted has  *)
(* the fields of that build.  As long as nothing was replaced, it is the   *)
(* build's result but for slices that the way through JSON made nil; with  *)
(* regular inputs these were nil before.                                   *)
(***************************************************************************)
EXTENDS PortablePackage, TLAPS

-----------------------------------------------------------------------------
(* The bundle *)

Bundle == [id : {"bundle"}, outcome : Outcomes, approvals : SUBSET (Plans \cup {Zero}),
           policies : SUBSET Decisions, trust : SUBSET Profiles,
           anchor : {"unanchored", "anchored"},
           anchorTx : {""} \cup {a.tx : a \in Anchorings}, anchorBlock : Nat]

BundleOK(b) == b \in Bundle /\ (Anchored(b) => b.anchorTx # "" /\ b.anchorBlock # 0)

BundleInv == BundleOK(live) /\ (data # NotABundle => BundleOK(data))

LEMMA BundleIsOne == \A b \in Bundle : b # NotABundle
<1> TAKE b \in Bundle
<1>1. b.id = "bundle"
  BY DEF Bundle
<1>2. NotABundle.id = ""
  BY DEF NotABundle
<1> QED BY <1>1, <1>2

LEMMA InitBundle == Init => BundleInv
<1> SUFFICES ASSUME Init PROVE BundleInv
  OBVIOUS
<1> DEFINE Fresh(outcome, approvals) ==
             [id |-> "bundle", outcome |-> outcome, approvals |-> approvals, policies |-> {},
              trust |-> {}, anchor |-> "unanchored", anchorTx |-> "", anchorBlock |-> 0]
<1>1. PICK outcome \in Outcomes, approvals \in {{}, {Zero}} : live = Fresh(outcome, approvals)
  BY DEF Init
<1>2. live \in Bundle
  <2>1. approvals \in SUBSET (Plans \cup {Zero})
    OBVIOUS
  <2>2. "" \in {""} \cup {a.tx : a \in Anchorings}
    OBVIOUS
  <2> DEFINE Txs == {""} \cup {a.tx : a \in Anchorings}
  <2>3. Bundle = [id : {"bundle"}, outcome : Outcomes, approvals : SUBSET (Plans \cup {Zero}),
                  policies : SUBSET Decisions, trust : SUBSET Profiles,
                  anchor : {"unanchored", "anchored"}, anchorTx : Txs, anchorBlock : Nat]
    BY DEF Bundle
  <2> HIDE DEF Txs
  <2> QED BY <1>1, <2>1, <2>2, <2>3 DEF Txs
<1>3. ~Anchored(live)
  BY <1>1 DEF Anchored
<1> QED BY <1>2, <1>3 DEF Init, BundleInv, BundleOK

LEMMA StepBundle == BundleInv /\ [Next]_vars => BundleInv'
<1> SUFFICES ASSUME BundleInv, [Next]_vars PROVE BundleInv'
  OBVIOUS
<1>1. CASE live' = live /\ data' \in {data, live}
  BY <1>1 DEF BundleInv
<1>2. ASSUME NEW b, BundleOK(b), Change(b) PROVE BundleInv'
  BY <1>2 DEF Change, BundleInv
<1>3. CASE BundleStep
  <2>1. live \in Bundle /\ (Anchored(live) => live.anchorTx # "" /\ live.anchorBlock # 0)
    BY DEF BundleInv, BundleOK
  <2>2. ASSUME NEW plan \in Plans PROVE BundleOK([live EXCEPT !.approvals = @ \cup {plan}])
    BY <2>1 DEF BundleOK, Bundle, Anchored
  <2>3. ASSUME NEW outcome \in Outcomes PROVE BundleOK([live EXCEPT !.outcome = outcome])
    BY <2>1 DEF BundleOK, Bundle, Anchored
  <2>4. ASSUME NEW decision \in Decisions
        PROVE  BundleOK([live EXCEPT !.policies = @ \cup {decision}])
    BY <2>1 DEF BundleOK, Bundle, Anchored
  <2>5. ASSUME NEW profile \in Profiles PROVE BundleOK([live EXCEPT !.trust = @ \cup {profile}])
    BY <2>1 DEF BundleOK, Bundle, Anchored
  <2>6. ASSUME NEW a \in Anchorings
        PROVE  BundleOK([live EXCEPT !.anchor = "anchored", !.anchorTx = a.tx,
                                     !.anchorBlock = a.block])
    BY <2>1, NumbersAssumption, AnchoringsAssumption DEF BundleOK, Bundle, Anchored
  <2> QED BY <1>2, <1>3, <2>2, <2>3, <2>4, <2>5, <2>6 DEF BundleStep
<1> QED BY <1>1, <1>3 DEF Next, MarshalBundle, BuildPortablePackageWithBindings,
        BuildPortablePackage, BuildRejected, Transport, Attach, Replace, vars

-----------------------------------------------------------------------------
(* Inputs and packages *)

AnchorProofs == [bundleId : {"", "bundle", "other"}, block : Nat, instant : Nat]

InputFields == {"bundleData", "planHash", "outcome", "trust", "proofs", "anchorProof",
                "anchorTx", "anchorBlock", "plugins", "policies", "capsule"}

InputOK(in) == DOMAIN in = InputFields /\ in.anchorProof \in AnchorProofs

Fields == {"version", "bundleData", "planHash", "outcome", "trust", "proofs", "anchorProof",
           "anchorTx", "anchorBlock", "plugins", "capsule", "policyDigest", "exportHash",
           "attached"}

PackageOK(p) == DOMAIN p = Fields /\ p.anchorProof \in AnchorProofs

LEMMA RegularOK == BundleInv => \A plan : InputOK(Regular(plan))
<1> SUFFICES ASSUME BundleInv, NEW plan PROVE InputOK(Regular(plan))
  OBVIOUS
<1>1. live.id = "bundle" /\ live.anchorBlock \in Nat
  BY DEF BundleInv, BundleOK, Bundle
<1>2. (CHOOSE i \in Instants : TRUE) \in Nat
  BY NumbersAssumption
<1>3. Regular(plan).anchorProof \in AnchorProofs
  BY <1>1, <1>2 DEF Regular, AnchorProofs, NoProof
<1> QED BY <1>3 DEF InputOK, InputFields, Regular

LEMMA IrregularOK == BundleInv => \A r : InputOK(r) => \A in \in Irregular(r) : InputOK(in)
<1> SUFFICES ASSUME BundleInv, NEW r, InputOK(r), NEW in \in Irregular(r) PROVE InputOK(in)
  OBVIOUS
<1>1. CASE \E field \in InputFields \ {"anchorProof"} : \E value : in = [r EXCEPT ![field] = value]
  BY <1>1 DEF InputOK, InputFields
<1>2. ASSUME NEW q \in AnchorProofs, in = [r EXCEPT !.anchorProof = q] PROVE InputOK(in)
  BY <1>2 DEF InputOK, InputFields
<1>3. /\ NoProof \in AnchorProofs
      /\ [bundleId : {"bundle"}, block : {a.block : a \in Anchorings}, instant : Instants]
           \subseteq AnchorProofs
      /\ [bundleId : {"other"}, block : {live.anchorBlock}, instant : {0}] \subseteq AnchorProofs
  <2> DEFINE Blocks == {a.block : a \in Anchorings}
  <2>1. Blocks \subseteq Nat /\ Instants \subseteq Nat
    BY NumbersAssumption
  <2>2. live.anchorBlock \in Nat
    BY DEF BundleInv, BundleOK, Bundle
  <2>3. NoProof \in AnchorProofs
    BY DEF AnchorProofs, NoProof
  <2> HIDE DEF Blocks
  <2>4. \A blocks, instants : blocks \subseteq Nat /\ instants \subseteq Nat =>
          /\ [bundleId : {"bundle"}, block : blocks, instant : instants] \subseteq AnchorProofs
          /\ [bundleId : {"other"}, block : blocks, instant : instants] \subseteq AnchorProofs
    BY DEF AnchorProofs
  <2>5. {live.anchorBlock} \subseteq Nat /\ {0} \subseteq Nat
    BY <2>2
  <2>6. [bundleId : {"bundle"}, block : Blocks, instant : Instants] \subseteq AnchorProofs
    BY <2>1, <2>4
  <2>7. [bundleId : {"other"}, block : {live.anchorBlock}, instant : {0}] \subseteq AnchorProofs
    BY <2>4, <2>5
  <2> QED BY <2>3, <2>6, <2>7 DEF Blocks
<1>4. CASE \/ in \in {[r EXCEPT !.bundleData = NotABundle], [r EXCEPT !.outcome = Zero],
                      [r EXCEPT !.policies = {}]}
           \/ \E hash : in = [r EXCEPT !.planHash = hash]
           \/ \E s : in = [r EXCEPT !.trust = Slice(s)]
           \/ \E s : in = [r EXCEPT !.proofs = Slice(s)]
           \/ \E s : in = [r EXCEPT !.plugins = Slice(s)]
           \/ \E c : in = [r EXCEPT !.capsule = c]
  BY <1>1, <1>4 DEF InputFields
<1> QED BY <1>2, <1>3, <1>4 DEF Irregular

LEMMA InputsOK == BundleInv => \A in \in Inputs : InputOK(in)
BY RegularOK, IrregularOK DEF Inputs

LEMMA UnhashedOK == \A in : InputOK(in) => PackageOK(Unhashed(in))
BY DEF InputOK, PackageOK, Unhashed, Fields

LEMMA PackageOfIs ==
  ASSUME NEW in
  PROVE  /\ DOMAIN PackageOf(in) = Fields
         /\ PackageOf(in).exportHash = ComputePortableExportHash(Unhashed(in))
         /\ \A f \in Fields \ {"exportHash"} : PackageOf(in)[f] = Unhashed(in)[f]
<1>1. DOMAIN Unhashed(in) = Fields
  BY DEF Unhashed, Fields
<1> QED BY <1>1 DEF PackageOf, Fields

-----------------------------------------------------------------------------
(* The export hash *)

LEMMA FloatsClose ==
  ASSUME NEW n \in Nat, NEW m \in Nat, Float64(n) = Float64(m)
  PROVE  n < m + Spacing /\ m < n + Spacing
<1> DEFINE h == Spacing \div 2
           a == (n + h) \div Spacing
           b == (m + h) \div Spacing
<1>1. Spacing \in Nat /\ Spacing > 0
  BY NumbersAssumption
<1>2. h \in Nat
  BY <1>1
<1> HIDE DEF h
<1>3. /\ a * Spacing <= n + h /\ n + h < a * Spacing + Spacing
      /\ b * Spacing <= m + h /\ m + h < b * Spacing + Spacing
  BY <1>1, <1>2
<1>4. a * Spacing = b * Spacing /\ a * Spacing \in Nat
  BY <1>1, <1>2 DEF Float64, h
<1> HIDE DEF a, b
<1> QED BY <1>1, <1>2, <1>3, <1>4

LEMMA HashIsNotZero == \A bytes : Sum256(bytes) # Zero
BY DEF Sum256, Zero

LEMMA HashTells ==
  ASSUME NEW p, PackageOK(p), NEW q, PackageOK(q),
         ComputePortableExportHash(p) = ComputePortableExportHash(q)
  PROVE  /\ \A f \in Fields \ (Uncovered \cup {"anchorProof"}) : p[f] = q[f]
         /\ p.anchorProof.bundleId = q.anchorProof.bundleId
         /\ p.anchorProof.block = q.anchorProof.block
         /\ Float64(p.anchorProof.instant) = Float64(q.anchorProof.instant)
<1> DEFINE P == CanonicalJSON(Covered(p))
           Q == CanonicalJSON(Covered(q))
<1>1. P = Q
  BY DEF ComputePortableExportHash, Sum256
<1>2. ASSUME NEW r, PackageOK(r)
      PROVE  LET R == CanonicalJSON(Covered(r)) IN
             /\ \A f \in Fields \ (Uncovered \cup {"anchorProof"}) : R[f] = r[f]
             /\ R.anchorProof = [r.anchorProof EXCEPT !.instant = Float64(@)]
  <2> DEFINE c == Covered(r)
  <2>1. /\ DOMAIN c = Fields \ Uncovered
        /\ \A f \in Fields \ Uncovered : c[f] = r[f]
    BY <1>2 DEF Covered, PackageOK
  <2>2. "anchorProof" \in Fields \ Uncovered
    BY DEF Fields, Uncovered
  <2> HIDE DEF c
  <2>3. /\ \A f \in Fields \ (Uncovered \cup {"anchorProof"}) : CanonicalJSON(c)[f] = c[f]
        /\ CanonicalJSON(c).anchorProof = [c.anchorProof EXCEPT !.instant = Float64(@)]
    BY <2>1, <2>2 DEF CanonicalJSON
  <2> QED BY <2>1, <2>2, <2>3 DEF c
<1>3. /\ \A f \in Fields \ (Uncovered \cup {"anchorProof"}) : P[f] = p[f] /\ Q[f] = q[f]
      /\ P.anchorProof = [p.anchorProof EXCEPT !.instant = Float64(@)]
      /\ Q.anchorProof = [q.anchorProof EXCEPT !.instant = Float64(@)]
  BY <1>2
<1> HIDE DEF P, Q
<1>4. ASSUME NEW r, PackageOK(r)
      PROVE  LET a == [r.anchorProof EXCEPT !.instant = Float64(@)] IN
             /\ a.bundleId = r.anchorProof.bundleId /\ a.block = r.anchorProof.block
             /\ a.instant = Float64(r.anchorProof.instant)
  BY <1>4 DEF PackageOK, AnchorProofs
<1>5. [p.anchorProof EXCEPT !.instant = Float64(@)] = [q.anchorProof EXCEPT !.instant = Float64(@)]
  BY <1>1, <1>3
<1>6. /\ p.anchorProof.bundleId = q.anchorProof.bundleId
      /\ p.anchorProof.block = q.anchorProof.block
      /\ Float64(p.anchorProof.instant) = Float64(q.anchorProof.instant)
  BY <1>4, <1>5
<1> QED BY <1>1, <1>3, <1>6

-----------------------------------------------------------------------------
(* What happens to a package *)

Slices == {"trust", "proofs", "plugins"}

(* As it was built, but for slices that became nil. *)
Faithful(p, q) ==
  \A f \in Fields \ {"attached"} : p[f] = q[f] \/ (f \in Slices /\ p[f] = OmitEmpty(q[f]))

HashInv ==
  Built => /\ PackageOK(pkg) /\ InputOK(given)
           /\ pkg.exportHash = PackageOf(given).exportHash
           /\ ~replaced => Faithful(pkg, PackageOf(given))

LEMMA OmitTwice == \A slice : OmitEmpty(OmitEmpty(slice)) = OmitEmpty(slice)
BY DEF OmitEmpty, Nil

LEMMA WireIs ==
  ASSUME NEW p, PackageOK(p)
  PROVE  /\ PackageOK(Wire(p)) /\ Wire(p).exportHash = p.exportHash
         /\ \A f \in Fields \ Slices : Wire(p)[f] = p[f]
         /\ \A f \in Slices : Wire(p)[f] = OmitEmpty(p[f])
<1>1. Wire(p) = [p EXCEPT !.trust = OmitEmpty(p.trust), !.proofs = OmitEmpty(p.proofs),
                          !.plugins = OmitEmpty(p.plugins)]
  BY DEF Wire
<1> QED BY <1>1 DEF PackageOK, Fields, Slices

LEMMA InitHash == Init => HashInv
BY DEF Init, HashInv, Built

LEMMA StepHash == BundleInv /\ HashInv /\ [Next]_vars => HashInv'
<1> SUFFICES ASSUME BundleInv, HashInv, [Next]_vars PROVE HashInv'
  OBVIOUS
<1>1. CASE pkg' = pkg /\ given' = given /\ replaced' = replaced
  BY <1>1 DEF HashInv, Built
<1>2. ASSUME NEW in, InputOK(in), BuildPortablePackageWithBindings(in) PROVE HashInv'
  <2>1. given' = in /\ pkg' = PackageOf(in)
    BY <1>2 DEF BuildPortablePackageWithBindings
  <2>2. PackageOK(Unhashed(in)) /\ DOMAIN PackageOf(in) = Fields
        /\ PackageOf(in).anchorProof = Unhashed(in).anchorProof
    BY <1>2, UnhashedOK, PackageOfIs DEF Fields
  <2>3. PackageOK(PackageOf(in)) /\ Faithful(PackageOf(in), PackageOf(in))
    BY <2>2 DEF PackageOK, Faithful
  <2> QED BY <1>2, <2>1, <2>3 DEF HashInv
<1>3. ASSUME NEW in \in Inputs, BuildPortablePackage(in) PROVE HashInv'
  <2>1. InputOK(in)
    BY InputsOK
  <2>2. /\ DOMAIN WithoutBindings(in) = DOMAIN in
        /\ WithoutBindings(in).anchorProof = in.anchorProof
    BY <2>1 DEF WithoutBindings, InputOK, InputFields
  <2>3. InputOK(WithoutBindings(in))
    BY <2>1, <2>2 DEF InputOK
  <2> QED BY <1>2, <1>3, <2>3 DEF BuildPortablePackage
<1>4. CASE Transport
  <2>1. Built /\ pkg' = Wire(pkg) /\ given' = given /\ replaced' = replaced
    BY <1>4 DEF Transport, Built
  <2>2. PackageOK(Wire(pkg)) /\ Wire(pkg).exportHash = pkg.exportHash
    BY <2>1, WireIs DEF HashInv
  <2>3. ASSUME ~replaced PROVE Faithful(Wire(pkg), PackageOf(given))
    BY <2>1, <2>3, WireIs, OmitTwice DEF HashInv, Faithful
  <2> QED BY <2>1, <2>2, <2>3 DEF HashInv
<1>5. CASE Attach
  <2>1. /\ Built /\ pkg' = [pkg EXCEPT !.attached = TRUE] /\ given' = given
        /\ replaced' = replaced /\ PackageOK(pkg)
    BY <1>5 DEF Attach, Built, HashInv
  <2>2. DOMAIN pkg' = Fields /\ \A f \in Fields \ {"attached"} : pkg'[f] = pkg[f]
    BY <2>1 DEF PackageOK
  <2>3. pkg'.anchorProof = pkg.anchorProof /\ pkg'.exportHash = pkg.exportHash
    BY <2>2 DEF Fields
  <2> QED BY <2>1, <2>2, <2>3 DEF HashInv, PackageOK, Faithful
<1>6. ASSUME NEW in \in Inputs, NEW field \in DOMAIN pkg \ Uncovered, Replace(field, Unhashed(in))
      PROVE  HashInv'
  <2>1. /\ Built /\ pkg' = [pkg EXCEPT ![field] = Unhashed(in)[field]] /\ given' = given
        /\ replaced' /\ PackageOK(pkg)
    BY <1>6 DEF Replace, Built, HashInv
  <2>2. Unhashed(in).anchorProof \in AnchorProofs
    BY InputsOK, UnhashedOK DEF PackageOK
  <2>3. DOMAIN pkg' = Fields /\ pkg'.exportHash = pkg.exportHash
    BY <2>1 DEF PackageOK, Uncovered
  <2>4. pkg'.anchorProof \in AnchorProofs
    BY <2>1, <2>2 DEF PackageOK
  <2> QED BY <2>1, <2>3, <2>4 DEF HashInv, PackageOK
<1> QED BY <1>1, <1>2, <1>3, <1>4, <1>5, <1>6, InputsOK
        DEF Next, BundleStep, Change, MarshalBundle, BuildRejected, vars

THEOREM Unaltered == Spec => [](BundleInv /\ HashInv)
BY InitBundle, StepBundle, InitHash, StepHash, PTL DEF Spec

(* Only a build makes a package, and nothing takes one away.                *)
BuiltInv ==
  /\ ~Built => given = NoInputs /\ ~replaced
  /\ Built => pkg.attached \in BOOLEAN

LEMMA PackageIsOne == \A p : PackageOK(p) => p # NoPackage
<1>1. "outcome" \in Fields /\ "outcome" \notin DOMAIN NoPackage
  BY DEF Fields, NoPackage
<1> QED BY <1>1 DEF PackageOK

LEMMA StepBuilt == BundleInv /\ HashInv /\ HashInv' /\ BuiltInv /\ [Next]_vars => BuiltInv'
<1> SUFFICES ASSUME BundleInv, HashInv, HashInv', BuiltInv, [Next]_vars PROVE BuiltInv'
  OBVIOUS
<1>1. CASE pkg' = pkg /\ given' = given /\ replaced' = replaced
  BY <1>1 DEF BuiltInv, Built
<1>2. ASSUME NEW in, InputOK(in), BuildPortablePackageWithBindings(in) PROVE BuiltInv'
  <2>1. pkg' = PackageOf(in) /\ "attached" \in Fields \ {"exportHash"}
    BY <1>2 DEF BuildPortablePackageWithBindings, Fields
  <2>2. PackageOf(in).attached = Unhashed(in).attached
    BY <2>1, PackageOfIs
  <2>3. pkg'.attached = FALSE
    BY <2>1, <2>2 DEF Unhashed
  <2>4. PackageOK(PackageOf(in))
    <3>1. PackageOf(in).anchorProof = Unhashed(in).anchorProof /\ DOMAIN PackageOf(in) = Fields
      BY PackageOfIs DEF Fields
    <3> QED BY <1>2, <3>1, UnhashedOK DEF PackageOK
  <2>5. Built'
    BY <2>1, <2>4, PackageIsOne DEF Built
  <2> QED BY <2>3, <2>5 DEF BuiltInv
<1>3. ASSUME NEW in \in Inputs, BuildPortablePackage(in) PROVE BuiltInv'
  <2>1. InputOK(in)
    BY InputsOK
  <2>2. InputOK(WithoutBindings(in))
    BY <2>1 DEF WithoutBindings, InputOK, InputFields
  <2> QED BY <1>2, <1>3, <2>2 DEF BuildPortablePackage
<1>4. CASE Transport
  <2>1. Built /\ pkg' = Wire(pkg) /\ PackageOK(pkg)
    BY <1>4 DEF Transport, Built, HashInv
  <2>2. PackageOK(Wire(pkg)) /\ Wire(pkg).attached = pkg.attached
    BY <2>1, WireIs DEF Fields, Slices
  <2> QED BY <2>1, <2>2, PackageIsOne DEF BuiltInv, Built
<1>5. CASE Attach
  <2>1. pkg' = [pkg EXCEPT !.attached = TRUE] /\ PackageOK(pkg)
    BY <1>5 DEF Attach, Built, HashInv
  <2>2. DOMAIN pkg' = Fields /\ pkg'.attached = TRUE /\ "anchorProof" \in Fields
    BY <2>1 DEF PackageOK, Fields
  <2>3. PackageOK(pkg')
    BY <2>1, <2>2 DEF PackageOK, Fields
  <2> QED BY <2>2, <2>3, PackageIsOne DEF BuiltInv, Built
<1>6. ASSUME NEW in \in Inputs, NEW field \in DOMAIN pkg \ Uncovered, Replace(field, Unhashed(in))
      PROVE  BuiltInv'
  <2>1. /\ pkg' = [pkg EXCEPT ![field] = Unhashed(in)[field]] /\ Built /\ PackageOK(pkg)
        /\ field # "attached"
    BY <1>6 DEF Replace, Built, HashInv, Uncovered
  <2>2. DOMAIN pkg' = Fields /\ pkg'.attached = pkg.attached
    BY <2>1 DEF PackageOK
  <2>3. "outcome" \in Fields /\ "outcome" \notin DOMAIN NoPackage
    BY DEF Fields, NoPackage
  <2> QED BY <2>1, <2>2, <2>3 DEF BuiltInv, Built
<1> QED BY <1>1, <1>2, <1>3, <1>4, <1>5, <1>6, InputsOK
        DEF Next, BundleStep, Change, MarshalBundle, BuildRejected, vars

(* A package has the inputs it was built from, and a hash.                  *)
THEOREM TypeCorrect == Spec => []TypeOK
<1>1. Init => BuiltInv
  BY DEF Init, BuiltInv, Built
<1>2. BundleInv /\ HashInv /\ BuiltInv => TypeOK
  <2> SUFFICES ASSUME BundleInv, HashInv, BuiltInv PROVE TypeOK
    OBVIOUS
  <2>1. /\ live.anchor \in {"unanchored", "anchored"} /\ live.outcome \in Outcomes
        /\ data # NotABundle => data.id = live.id
    BY DEF BundleInv, BundleOK, Bundle
  <2>2. ASSUME Built PROVE given # NoInputs
    <3>1. "outcome" \in DOMAIN given /\ "outcome" \notin DOMAIN NoInputs
      BY <2>2 DEF HashInv, InputOK, InputFields, NoInputs
    <3> QED BY <3>1
  <2>3. ASSUME Built PROVE pkg.exportHash # Zero
    BY <2>3, PackageOfIs, HashIsNotZero DEF HashInv, ComputePortableExportHash
  <2> QED BY <2>1, <2>2, <2>3 DEF TypeOK, BuiltInv
<1> QED BY <1>1, <1>2, StepBuilt, InitBundle, StepBundle, InitHash, StepHash, PTL DEF Spec

(* An accepted package says what was built: no field but the attachments    *)
(* can have been replaced, apart from times of the anchor data that fall    *)
(* on the same float64 (ComputePortableExportHash).                         *)
THEOREM AsBuilt == Spec => []AcceptedAsBuilt
<1>1. HashInv => AcceptedAsBuilt
  <2> SUFFICES ASSUME HashInv, Accepted PROVE AcceptedAsBuilt
    BY DEF AcceptedAsBuilt
  <2> DEFINE q == Unhashed(given)
             built == PackageOf(given)
  <2>1. /\ PackageOK(pkg) /\ PackageOK(q)
        /\ ComputePortableExportHash(pkg) = ComputePortableExportHash(q)
    BY UnhashedOK, PackageOfIs DEF HashInv, Accepted, VerifyPortablePackage
  <2>2. /\ built.anchorProof = q.anchorProof
        /\ \A f \in Fields \ (Uncovered \cup {"anchorProof"}) : built[f] = q[f]
    BY PackageOfIs DEF Fields, Uncovered
  <2> HIDE DEF q, built
  <2>3. /\ \A f \in Fields \ (Uncovered \cup {"anchorProof"}) : pkg[f] = built[f]
        /\ pkg.anchorProof.bundleId = built.anchorProof.bundleId
        /\ pkg.anchorProof.block = built.anchorProof.block
        /\ Float64(pkg.anchorProof.instant) = Float64(built.anchorProof.instant)
    BY <2>1, <2>2, HashTells
  <2>4. pkg.anchorProof.instant \in Nat /\ built.anchorProof.instant \in Nat
    BY <2>1, <2>2 DEF PackageOK, AnchorProofs
  <2>5. /\ pkg.anchorProof.instant < built.anchorProof.instant + Spacing
        /\ built.anchorProof.instant < pkg.anchorProof.instant + Spacing
    BY <2>3, <2>4, FloatsClose
  <2> QED BY <2>1, <2>3, <2>5 DEF AcceptedAsBuilt, PackageOK, built
<1> QED BY <1>1, Unaltered, PTL

-----------------------------------------------------------------------------
(* Torn and careful exports *)

LEMMA RegularIs ==
  ASSUME NEW plan
  PROVE  LET in == Regular(plan) IN
         /\ in.bundleData = data /\ in.planHash = plan /\ in.outcome = live.outcome
         /\ in.trust = (IF live.trust = {} THEN Nil
                        ELSE Slice({[profile |-> t, block |-> 1] : t \in live.trust}))
         /\ in.proofs = Nil /\ in.plugins = Nil
         /\ in.anchorTx = live.anchorTx /\ in.anchorBlock = live.anchorBlock
         /\ in.policies = live.policies
         /\ Anchored(live) => in.anchorProof.bundleId = live.id
BY DEF Regular

LEMMA UnhashedIs ==
  ASSUME NEW in
  PROVE  LET q == Unhashed(in) IN
         /\ DOMAIN q = Fields /\ q.version = "4" /\ q.bundleData = in.bundleData
         /\ q.planHash = in.planHash /\ q.outcome = in.outcome /\ q.trust = in.trust
         /\ q.proofs = in.proofs /\ q.plugins = in.plugins /\ q.anchorProof = in.anchorProof
         /\ q.anchorTx = in.anchorTx /\ q.anchorBlock = in.anchorBlock
         /\ q.policyDigest = computePolicyDecisionDigest(in.policies)
BY DEF Unhashed, Fields

(* While nothing was replaced, all fields but the slices are the inputs'. *)
LEMMA FaithfulIs ==
  ASSUME HashInv, Built, ~replaced
  PROVE  LET q == Unhashed(given) IN
         /\ pkg.version = "4" /\ pkg.bundleData = given.bundleData
         /\ pkg.planHash = given.planHash /\ pkg.outcome = given.outcome
         /\ pkg.anchorProof = given.anchorProof /\ pkg.anchorTx = given.anchorTx
         /\ pkg.anchorBlock = given.anchorBlock
         /\ pkg.policyDigest = computePolicyDecisionDigest(given.policies)
         /\ \A f \in Fields \ Uncovered :
              pkg[f] = q[f] \/ (f \in Slices /\ pkg[f] = OmitEmpty(q[f]))
<1> DEFINE q == Unhashed(given)
<1>1. \A f \in Fields \ Uncovered :
        pkg[f] = q[f] \/ (f \in Slices /\ pkg[f] = OmitEmpty(q[f]))
  BY PackageOfIs DEF HashInv, Faithful, Uncovered
<1>2. /\ q.version = "4" /\ q.bundleData = given.bundleData
      /\ q.planHash = given.planHash /\ q.outcome = given.outcome
      /\ q.anchorProof = given.anchorProof /\ q.anchorTx = given.anchorTx
      /\ q.anchorBlock = given.anchorBlock
      /\ q.policyDigest = computePolicyDecisionDigest(given.policies)
  BY UnhashedIs
<1> HIDE DEF q
<1>3. \A f \in Fields \ (Uncovered \cup Slices) : pkg[f] = q[f]
  BY <1>1
<1>4. {"version", "bundleData", "planHash", "outcome", "anchorProof", "anchorTx", "anchorBlock",
       "policyDigest"} \subseteq Fields \ (Uncovered \cup Slices)
  BY DEF Fields, Uncovered, Slices
<1> QED BY <1>1, <1>2, <1>3, <1>4 DEF q

LEMMA DigestTells ==
  ASSUME NEW d \in SUBSET Decisions, NEW e \in SUBSET Decisions,
         computePolicyDecisionDigest(d) = computePolicyDecisionDigest(e)
  PROVE  d = e
<1>1. Sum256(d) # Zero /\ Sum256(e) # Zero
  BY HashIsNotZero
<1>2. Sum256(d) = Sum256(e) => d = e
  BY DEF Sum256
<1> QED BY <1>1, <1>2 DEF computePolicyDecisionDigest

(* A torn export is refused: when the outcome, the policy decisions or, for *)
(* a bundle marshalled as anchored, its anchor transaction and block        *)
(* changed between the two reads, no package of regular inputs is accepted. *)
THEOREM TornRefused == Spec => []TornExportRefused
<1>1. BundleInv /\ HashInv => TornExportRefused
  <2> SUFFICES ASSUME BundleInv, HashInv, Accepted, ~replaced,
                      NEW plan \in PlansOf(live), given = Regular(plan)
               PROVE  /\ data.outcome = live.outcome /\ data.policies = live.policies
                      /\ Anchored(data) => /\ data.anchorTx = live.anchorTx
                                           /\ data.anchorBlock = live.anchorBlock
    BY DEF TornExportRefused
  <2>1. /\ pkg.bundleData = data /\ pkg.outcome = live.outcome
        /\ pkg.anchorTx = live.anchorTx /\ pkg.anchorBlock = live.anchorBlock
        /\ pkg.policyDigest = computePolicyDecisionDigest(live.policies)
    <3> DEFINE q == Unhashed(given)
    <3>1. Built
      BY DEF Accepted
    <3>2. /\ pkg.bundleData = given.bundleData /\ pkg.outcome = given.outcome
          /\ pkg.anchorTx = given.anchorTx /\ pkg.anchorBlock = given.anchorBlock
          /\ pkg.policyDigest = computePolicyDecisionDigest(given.policies)
      <4> HIDE DEF q
      <4> QED BY <3>1, FaithfulIs
    <3>3. /\ given.bundleData = data /\ given.outcome = live.outcome
          /\ given.anchorTx = live.anchorTx /\ given.anchorBlock = live.anchorBlock
          /\ given.policies = live.policies
      BY RegularIs
    <3> QED BY <3>2, <3>3
  <2>2. /\ data # NotABundle /\ OutcomeBound(pkg) /\ AnchorBound(pkg) /\ PoliciesBound(pkg)
    BY <2>1 DEF Accepted, VerifyPortablePackage
  <2>3. BundleOK(data) /\ BundleOK(live)
    BY <2>2 DEF BundleInv
  <2>4. data.policies \in SUBSET Decisions /\ live.policies \in SUBSET Decisions
    BY <2>3 DEF BundleOK, Bundle
  <2>5. data.policies = live.policies
    BY <2>1, <2>2, <2>4, DigestTells DEF PoliciesBound
  <2>6. data.outcome = live.outcome
    BY <2>1, <2>2 DEF OutcomeBound
  <2>7. ASSUME Anchored(data)
        PROVE  data.anchorTx = live.anchorTx /\ data.anchorBlock = live.anchorBlock
    BY <2>1, <2>2, <2>3, <2>7 DEF AnchorBound, BundleOK
  <2> QED BY <2>5, <2>6, <2>7
<1> QED BY <1>1, Unaltered, PTL

(* A careful export is never refused: built from regular inputs, of a       *)
(* bundle that did not change between the two reads, the package is         *)
(* accepted whatever way it travels and whatever is attached to it          *)
(* (BuildPortablePackageWithBindings, VerifyPortablePackage).               *)
THEOREM CarefulAccepted == Spec => []CarefulExportAccepted
<1>1. BundleInv /\ HashInv => CarefulExportAccepted
  <2> SUFFICES ASSUME BundleInv, HashInv, Built, ~replaced, data = live,
                      NEW plan \in PlansOf(live), given = Regular(plan)
               PROVE  VerifyPortablePackage(pkg)
    BY DEF CarefulExportAccepted, Accepted
  <2> DEFINE q == Unhashed(given)
             trust == IF live.trust = {} THEN Nil
                      ELSE Slice({[profile |-> t, block |-> 1] : t \in live.trust})
  <2>1. live \in Bundle /\ BundleOK(live)
    BY DEF BundleInv, BundleOK
  <2>2. /\ pkg.version = "4" /\ pkg.bundleData = live /\ pkg.planHash = plan
        /\ pkg.outcome = live.outcome
        /\ pkg.anchorTx = live.anchorTx /\ pkg.anchorBlock = live.anchorBlock
        /\ Anchored(live) => pkg.anchorProof.bundleId = live.id
        /\ pkg.policyDigest = computePolicyDecisionDigest(live.policies)
    <3> HIDE DEF q, trust
    <3>1. /\ pkg.version = "4" /\ pkg.bundleData = given.bundleData
          /\ pkg.planHash = given.planHash /\ pkg.outcome = given.outcome
          /\ pkg.anchorProof = given.anchorProof /\ pkg.anchorTx = given.anchorTx
          /\ pkg.anchorBlock = given.anchorBlock
          /\ pkg.policyDigest = computePolicyDecisionDigest(given.policies)
      BY FaithfulIs
    <3>2. /\ given.bundleData = data /\ given.planHash = plan /\ given.outcome = live.outcome
          /\ given.anchorTx = live.anchorTx /\ given.anchorBlock = live.anchorBlock
          /\ given.policies = live.policies
          /\ Anchored(live) => given.anchorProof.bundleId = live.id
      BY RegularIs
    <3> QED BY <3>1, <3>2
  <2>3. q.trust = trust /\ q.proofs = Nil /\ q.plugins = Nil
    BY UnhashedIs, RegularIs
  <2>4. OmitEmpty(trust) = trust /\ OmitEmpty(Nil) = Nil
    <3> DEFINE entries == {[profile |-> t, block |-> 1] : t \in live.trust}
    <3>1. ASSUME live.trust # {} PROVE entries # {}
      <4>1. PICK t : t \in live.trust
        BY <3>1
      <4>2. [profile |-> t, block |-> 1] \in entries
        BY <4>1
      <4> QED BY <4>2
    <3>2. trust = IF live.trust = {} THEN Nil ELSE Slice(entries)
      OBVIOUS
    <3> HIDE DEF entries, trust
    <3>3. OmitEmpty(Nil) = Nil /\ \A s : s # {} => OmitEmpty(Slice(s)) = Slice(s)
      BY DEF OmitEmpty, Slice, Nil
    <3> QED BY <3>1, <3>2, <3>3
  <2>5. \A f \in Slices : OmitEmpty(q[f]) = q[f]
    <3> HIDE DEF q, trust
    <3> QED BY <2>3, <2>4 DEF Slices
  <2>6. \A f \in Fields \ Uncovered : pkg[f] = q[f]
    BY <2>5, FaithfulIs
  <2>7. pkg.trust = trust /\ pkg.proofs = Nil /\ pkg.plugins = Nil
    <3> HIDE DEF q, trust
    <3> QED BY <2>3, <2>6 DEF Fields, Uncovered
  <2>8. ComputePortableExportHash(pkg) = pkg.exportHash
    <3>1. DOMAIN pkg = Fields /\ DOMAIN q = Fields
      BY UnhashedIs DEF HashInv, PackageOK
    <3>2. pkg.exportHash = ComputePortableExportHash(q)
      BY PackageOfIs DEF HashInv
    <3> HIDE DEF q
    <3>3. Covered(pkg) = Covered(q)
      BY <2>6, <3>1 DEF Covered
    <3> QED BY <3>2, <3>3 DEF ComputePortableExportHash
  <2> HIDE DEF q
  <2>9. pkg.bundleData # NotABundle
    BY <2>1, <2>2, BundleIsOne
  <2>10. live.outcome # Zero
    BY <2>1, ZeroAssumption DEF Bundle
  <2>11. PlanHashBound(pkg)
    BY <2>2, <2>10 DEF PlanHashBound, PlansOf
  <2>12. OutcomeBound(pkg)
    BY <2>2, <2>10 DEF OutcomeBound
  <2>13. ProofsVerify(pkg) /\ PluginsIdentified(pkg)
    BY <2>7 DEF ProofsVerify, PluginsIdentified, Nil
  <2>14. AnchorBound(pkg)
    <3>1. ASSUME Anchored(live) PROVE pkg.anchorProof # NoProof
      <4>1. pkg.anchorProof.bundleId = "bundle"
        BY <2>1, <2>2, <3>1 DEF Bundle
      <4>2. NoProof.bundleId = ""
        BY DEF NoProof
      <4> QED BY <4>1, <4>2
    <3> QED BY <2>2, <3>1 DEF AnchorBound
  <2>15. TrustBound(pkg)
    <3>1. \A entry \in trust.elems : entry.block # 0 /\ entry.profile \in live.trust
      BY DEF Nil, Slice
    <3> QED BY <2>2, <2>7, <3>1 DEF TrustBound
  <2>16. PoliciesBound(pkg)
    BY <2>2 DEF PoliciesBound
  <2> QED BY <2>2, <2>8, <2>9, <2>11, <2>12, <2>13, <2>14, <2>15, <2>16 DEF VerifyPortablePackage
<1> QED BY <1>1, Unaltered, PTL
=============================================================================
