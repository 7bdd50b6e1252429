------------------------- MODULE ProofReceipt_proofs -------------------------
(***************************************************************************)
(* Proofs about ProofReceipt for all writers, artifacts, levels and        *)
(* received receipts.                                                      *)
(*                                                                         *)
(* The argument: every receipt on its way to the file is true of the       *)
(* artifact it names and stays so, because artifacts only get on.  Until   *)
(* two writes have broken off over one another, what lies in the file is   *)
(* such a receipt, or fields of two; Validate refuses the latter unless    *)
(* both are about one artifact, and then each claim is one that one of the *)
(* two made.                                                               *)
(***************************************************************************)
EXTENDS ProofReceipt, TLAPS

-----------------------------------------------------------------------------
(* The ladder *)

LEMMA FieldsAre ==
  /\ Fields = {"version", "type", "id", "status", "proofLevel", "label", "nodeTrusted",
               "l0Verified", "replayVerified", "witnessQuorumVerified", "artifactId",
               "command", "network"}
  /\ DOMAIN NoReceipt # Fields
BY DEF Fields, Position, NoReceipt

LEMMA LevelNames ==
  /\ ProofLevelString(0) = "L0" /\ ProofLevelString(1) = "L1" /\ ProofLevelString(2) = "L2"
  /\ ProofLevelString(3) = "L3" /\ ProofLevelString(4) = "L4"
  /\ ValidProofLevels = {0, 1, 2, 3, 4}
<1>1. ValidProofLevels = {0, 1, 2, 3, 4}
  BY DEF ValidProofLevels, None, L0Settlement
<1> QED BY <1>1 DEF ProofLevelString

LEMMA NamesTell ==
  \A p, q \in ValidProofLevels : ProofLevelString(p) = ProofLevelString(q) => p = q /\ p >= q
BY LevelNames

(* ClassFor is total and monotone (comment of ClassFor): for every value of *)
(* the integer types, raising any axis never lowers the class.              *)
THEOREM ClassForMonotone ==
  ASSUME NEW p \in Nat, NEW q \in Nat, p <= q, NEW g \in Nat, NEW h \in Nat, g <= h,
         NEW r \in BOOLEAN, NEW s \in BOOLEAN, r => s
  PROVE  /\ ClassFor(p, g, r) \in ValidIUAssuranceClasses
         /\ ClassFor(p, g, r) <= ClassFor(q, h, s)
BY DEF ClassFor, ValidIUAssuranceClasses, Sandbox, Standard, Anchored, CrossDomain, HighAssurance,
   Regulated, StorageInclusion, BatchInclusion, L0Settlement, PolicyPassed, ThresholdApproved,
   CredentialedAnchored

LEMMA Prices ==
  /\ ValidIUAssuranceClasses = {0, 1, 2, 3, 4, 5}
  /\ Multiplier(0) = 1 /\ Multiplier(1) = 4 /\ Multiplier(2) = 8
  /\ Multiplier(3) = 16 /\ Multiplier(4) = 32 /\ Multiplier(5) = 48
<1>1. ValidIUAssuranceClasses = {0, 1, 2, 3, 4, 5}
  BY DEF ValidIUAssuranceClasses, Sandbox, Regulated
<1> QED BY <1>1 DEF Multiplier

LEMMA Billing ==
  ASSUME NEW p \in Nat, NEW g \in Nat, NEW regulated \in BOOLEAN
  PROVE  /\ Achieved(ClassFor(p, g, regulated), p, g, regulated)
         /\ \A dearer \in ValidIUAssuranceClasses :
              Multiplier(dearer) > Multiplier(ClassFor(p, g, regulated))
                => ~Achieved(dearer, p, g, regulated)
<1>1. \A c, d \in ValidIUAssuranceClasses : Multiplier(d) > Multiplier(c) => d > c
  BY Prices
<1>2. ClassFor(p, g, regulated) \in ValidIUAssuranceClasses
  BY ClassForMonotone
<1>3. Achieved(ClassFor(p, g, regulated), p, g, regulated)
  BY DEF ClassFor, Achieved, Sandbox, Standard, Anchored, CrossDomain, HighAssurance,
     Regulated, StorageInclusion, BatchInclusion, L0Settlement, PolicyPassed, ThresholdApproved,
     CredentialedAnchored
<1>4. \A d \in ValidIUAssuranceClasses :
        d > ClassFor(p, g, regulated) => ~Achieved(d, p, g, regulated)
  BY Prices DEF ClassFor, Achieved, Sandbox, Standard, Anchored, CrossDomain, HighAssurance,
     Regulated, StorageInclusion, BatchInclusion, L0Settlement, PolicyPassed, ThresholdApproved,
     CredentialedAnchored
<1> QED BY <1>1, <1>2, <1>3, <1>4

-----------------------------------------------------------------------------
(* Receipts the writers make *)

(* A receipt of the converters, for the artifact it names. *)
Backed(r) ==
  /\ DOMAIN r = Fields /\ r.type = Kind /\ r.id \in Ids /\ r.artifactId = r.id
  /\ ClaimsTrue(r)

(* A receipt of the converters, or fields of two of them. *)
OfTwo(r) ==
  \/ Backed(r)
  \/ \E front, back : /\ Backed(front) /\ Backed(back)
                      /\ \E cut \in Cuts : r = Splice(front, back, cut)

(* What lies in the file, and what it reads as. *)
LiesIn(under, n) ==
  \A text \in under : /\ DOMAIN text = Fields
                      /\ n = 0 => Backed(text)
                      /\ n <= 1 => OfTwo(text)

Pieced ==
  /\ file.breaks \in Nat /\ LiesIn(file.under, file.breaks)
  /\ file.state = "receipt" => file.receipt \in file.under

(* The receipts on their way to the file. *)
Afoot == {writer[w] : w \in {v \in Writers : Writing(v)}}

TrueInv ==
  /\ reached \in [Ids -> Levels] /\ quorum \subseteq Ids
  /\ DOMAIN writer = Writers
  /\ file.state \in {"absent", "empty", "garbled", "received", "receipt"}
  /\ Pieced
  /\ \A r \in Afoot : Backed(r)

LEMMA ConvertBacked ==
  ASSUME reached \in [Ids -> Levels], quorum \subseteq Ids, NEW id \in Ids
  PROVE  Backed(Convert(id)) /\ Validate(Convert(id)) /\ Convert(id) # NoReceipt
<1> DEFINE r == Convert(id)
<1>1. reached[id] \in {0, 1, 2, 3, 4} /\ \A level \in Levels : level \in {0, 1, 2, 3, 4}
  BY LevelsAssumption, LevelNames
<1>2. /\ DOMAIN r = Fields /\ r.version = "1" /\ r.type = Kind /\ r.id = id /\ r.artifactId = id
      /\ r.proofLevel = ProofLevelString(reached[id]) /\ r.nodeTrusted = "false"
      /\ r.status = IF reached[id] = 0 THEN "failed" ELSE "verified"
  BY FieldsAre DEF Convert, None
<1>3. /\ r.l0Verified = (reached[id] = 4)
      /\ r.witnessQuorumVerified = (reached[id] = 4 /\ id \in quorum)
      /\ r.label = (IF reached[id] = 4 THEN "L4" ELSE "plain")
      /\ r.command = (IF reached[id] = 4 THEN "verify" ELSE "")
      /\ r.network = (IF reached[id] = 4 THEN "kermit" ELSE "")
  BY DEF Convert, L0Settlement
<1>4. IsLevelL4(r.proofLevel) <=> reached[id] = 4
  BY <1>1, <1>2, LevelNames DEF IsLevelL4, ToUpper
<1>5. hasL4(r.label) <=> reached[id] = 4
  BY <1>3 DEF hasL4
<1>6. \A level \in Levels : r.proofLevel = ProofLevelString(level) => reached[id] >= level
  BY <1>2, NamesTell, LevelsAssumption
<1>7. Backed(r)
  BY <1>2, <1>3, <1>4, <1>5, <1>6 DEF Backed, ClaimsTrue, ClaimsL4, L0Settlement
<1>8. WellFormed(r)
  BY <1>1, <1>2, KindAssumption DEF WellFormed
<1>9. r.status = "verified" => hasPositiveAssurance(r)
  BY <1>1, <1>2, LevelNames DEF hasPositiveAssurance, IsProofLevel, ToUpper
<1>10. L4Backed(r) /\ L0Located(r) /\ (r.witnessQuorumVerified => r.l0Verified)
  BY <1>3, <1>4, <1>5 DEF L4Backed, L0Located, TrimSpace
<1>11. checkArtifactConsistency(r)
  BY <1>2, IdsAssumption DEF checkArtifactConsistency, TrimSpace
<1> QED BY <1>2, <1>7, <1>8, <1>9, <1>10, <1>11, FieldsAre DEF Validate

(* Artifacts get on, in every step: what was true of them stays true.      *)
GetOn == /\ reached \in [Ids -> Levels] /\ reached' \in [Ids -> Levels]
         /\ \A id \in Ids : reached'[id] >= reached[id]
         /\ quorum \subseteq quorum'

LEMMA ClaimsStay ==
  ASSUME GetOn, NEW r, Backed(r)
  PROVE  Backed(r)'
<1>1. \A level \in Levels : level \in {0, 1, 2, 3, 4}
  BY LevelsAssumption, LevelNames
<1>2. /\ reached[r.id] \in {0, 1, 2, 3, 4} /\ reached'[r.id] \in {0, 1, 2, 3, 4}
      /\ reached'[r.id] >= reached[r.id]
  BY <1>1 DEF Backed, GetOn
<1>3. \A level \in Levels : reached[r.id] >= level => reached'[r.id] >= level
  BY <1>1, <1>2
<1>4. reached[r.id] = L0Settlement => reached'[r.id] = L0Settlement
  BY <1>2 DEF L0Settlement
<1> QED BY <1>3, <1>4 DEF Backed, ClaimsTrue, GetOn

(* Fields of two receipts about one artifact claim nothing that neither of *)
(* them claims.                                                            *)
LEMMA ClaimsOfTwo ==
  ASSUME NEW a, NEW b, Backed(a), Backed(b), NEW r, r.id = a.id, r.id = b.id,
         r.proofLevel \in {a.proofLevel, b.proofLevel}, r.label \in {a.label, b.label},
         r.l0Verified \in {a.l0Verified, b.l0Verified},
         r.witnessQuorumVerified \in {a.witnessQuorumVerified, b.witnessQuorumVerified}
  PROVE  ClaimsTrue(r)
<1>1. ClaimsL4(r) => ClaimsL4(a) \/ ClaimsL4(b)
  BY DEF ClaimsL4
<1>2. r.witnessQuorumVerified => a.witnessQuorumVerified \/ b.witnessQuorumVerified
  OBVIOUS
<1> QED BY <1>1, <1>2 DEF Backed, ClaimsTrue

(* Of two artifacts, the ids do not fit, or one receipt made every claim.  *)
LEMMA SpliceTrue ==
  ASSUME NEW front, NEW back, Backed(front), Backed(back), NEW cut \in Cuts,
         NEW r, r = Splice(front, back, cut), checkArtifactConsistency(r)
  PROVE  ClaimsTrue(r)
<1>1. /\ r.type = Kind
      /\ r.id = (IF 3 <= cut THEN front.id ELSE back.id)
      /\ r.proofLevel = (IF 5 <= cut THEN front.proofLevel ELSE back.proofLevel)
      /\ r.label = (IF 6 <= cut THEN front.label ELSE back.label)
      /\ r.l0Verified = (IF 8 <= cut THEN front.l0Verified ELSE back.l0Verified)
      /\ r.witnessQuorumVerified =
           (IF 10 <= cut THEN front.witnessQuorumVerified ELSE back.witnessQuorumVerified)
      /\ r.artifactId = (IF 11 <= cut THEN front.artifactId ELSE back.artifactId)
  BY FieldsAre DEF Splice, Position, Backed
<1>2. cut \in Nat
  BY DEF Cuts
<1>3. r.id \in Ids /\ r.artifactId \in Ids
  BY <1>1 DEF Backed
<1>4. r.id = r.artifactId
  BY <1>1, <1>3, KindAssumption, IdsAssumption DEF checkArtifactConsistency, TrimSpace
<1>5. CASE cut < 3
  BY <1>1, <1>2, <1>5, ClaimsOfTwo
<1>6. CASE cut >= 11
  BY <1>1, <1>2, <1>6, ClaimsOfTwo
<1>7. CASE cut >= 3 /\ cut < 11
  <2>1. front.id = back.id
    BY <1>1, <1>2, <1>4, <1>7 DEF Backed
  <2> QED BY <1>1, <1>2, <1>7, <2>1, ClaimsOfTwo
<1> QED BY <1>2, <1>5, <1>6, <1>7

LEMMA TrueInvAccepted == TrueInv => AcceptedIsTrue
<1> SUFFICES ASSUME TrueInv, Accepted, file.state = "receipt", file.breaks <= 1
             PROVE  ClaimsTrue(file.receipt)
  BY DEF AcceptedIsTrue
<1>1. checkArtifactConsistency(file.receipt)
  BY DEF Accepted, Validate
<1>2. OfTwo(file.receipt)
  BY DEF TrueInv, Pieced, LiesIn
<1> QED BY <1>1, <1>2, SpliceTrue DEF OfTwo, Backed

-----------------------------------------------------------------------------
(* The steps *)

LEMMA NextGetsOn ==
  ASSUME reached \in [Ids -> Levels], [Next]_vars
  PROVE  GetOn
<1>1. \A level \in Levels : level \in Nat
  BY LevelsAssumption, LevelNames
<1>2. CASE UNCHANGED <<reached, quorum>>
  BY <1>1, <1>2 DEF GetOn
<1>3. CASE \E id \in Ids : Witness(id)
  BY <1>1, <1>3 DEF Witness, GetOn
<1>4. CASE \E id \in Ids, level \in Levels : Raise(id, level)
  BY <1>1, <1>4 DEF Raise, GetOn
<1> QED BY <1>2, <1>3, <1>4 DEF Next, vars, Finish, WriteFileOpen, WriteFileDone, WriteFileFailed

LEMMA InitTrueInv == Init => TrueInv
<1> SUFFICES ASSUME Init PROVE TrueInv
  OBVIOUS
<1>1. file.state \in {"absent", "received"} /\ file.under = {} /\ file.breaks = 0
  BY DEF Init, Absent, FromElsewhere
<1> QED BY <1>1, LevelsAssumption DEF Init, TrueInv, Pieced, LiesIn, Afoot, Writing

(* What one more break may leave in the file.                              *)
LEMMA MixedIs ==
  ASSUME NEW r, Backed(r), NEW under, NEW n \in Nat, LiesIn(under, n),
         NEW mixed, mixed = {Splice(r, old, cut) : old \in under, cut \in Cuts}
  PROVE  LiesIn(mixed, n + 1) /\ LiesIn(under, n + 1)
<1>1. LiesIn(under, n + 1)
  BY DEF LiesIn
<1>2. ASSUME NEW text \in mixed
      PROVE  DOMAIN text = Fields /\ (n + 1 = 0 => Backed(text)) /\ (n + 1 <= 1 => OfTwo(text))
  <2>1. PICK old \in under, cut \in Cuts : text = Splice(r, old, cut)
    OBVIOUS
  <2>2. DOMAIN text = Fields
    BY <2>1 DEF Splice
  <2>3. n + 1 <= 1 => Backed(old)
    BY DEF LiesIn
  <2>4. n + 1 <= 1 => OfTwo(text)
    BY <2>1, <2>3 DEF OfTwo
  <2> QED BY <2>2, <2>4
<1> QED BY <1>1, <1>2 DEF LiesIn

LEMMA StepTrueInv == TrueInv /\ [Next]_vars => TrueInv'
<1> SUFFICES ASSUME TrueInv, [Next]_vars PROVE TrueInv'
  OBVIOUS
<1>1. GetOn
  BY NextGetsOn DEF TrueInv
<1>2. ASSUME NEW r, Backed(r) PROVE Backed(r)'
  BY <1>1, <1>2, ClaimsStay
<1>3. ASSUME NEW r, OfTwo(r) PROVE OfTwo(r)'
  <2>1. CASE Backed(r)
    BY <1>2, <2>1 DEF OfTwo
  <2>2. ASSUME NEW front, NEW back, Backed(front), Backed(back),
               NEW cut \in Cuts, r = Splice(front, back, cut)
        PROVE  OfTwo(r)'
    <3>1. Backed(front)' /\ Backed(back)'
      BY <1>2, <2>2
    <3> QED BY <2>2, <3>1 DEF OfTwo
  <2> QED BY <1>3, <2>1, <2>2 DEF OfTwo
<1>5. ASSUME DOMAIN writer' = Writers, \A r \in Afoot' : r \in Afoot \/ Backed(r),
             file'.state \in {"absent", "empty", "garbled", "received", "receipt"},
             file'.breaks \in Nat, LiesIn(file'.under, file'.breaks),
             file'.state = "receipt" => file'.receipt \in file'.under,
             quorum' \subseteq Ids
      PROVE  TrueInv'
  <2>1. Pieced'
    BY <1>2, <1>3, <1>5 DEF Pieced, LiesIn
  <2>2. \A r \in Afoot' : Backed(r)'
    BY <1>2, <1>5 DEF TrueInv
  <2> QED BY <1>1, <1>5, <2>1, <2>2 DEF TrueInv, GetOn
<1>6. /\ DOMAIN writer = Writers /\ quorum \subseteq Ids
      /\ file.breaks \in Nat /\ LiesIn(file.under, file.breaks)
      /\ file.state \in {"absent", "empty", "garbled", "received", "receipt"}
      /\ file.state = "receipt" => file.receipt \in file.under
      /\ \A w \in Writers : Writing(w) => Backed(writer[w])
  BY DEF TrueInv, Pieced, Afoot
<1>7. CASE UNCHANGED <<file, writer>> /\ quorum' \subseteq Ids
  BY <1>5, <1>6, <1>7 DEF Afoot, Writing
<1>8. CASE \E w \in Writers, id \in Ids : WriteFileOpen(w, id)
  <2>1. PICK w \in Writers, id \in Ids : WriteFileOpen(w, id)
    BY <1>8
  <2>2. Backed(Convert(id))
    BY ConvertBacked DEF TrueInv
  <2>3. /\ file' = Empty /\ quorum' = quorum
        /\ writer' = [writer EXCEPT ![w] = Convert(id)]
    BY <2>1 DEF WriteFileOpen, TruncatedOnOpen
  <2>4. /\ file'.state = "empty" /\ file'.breaks \in Nat
        /\ LiesIn(file'.under, file'.breaks)
    BY <2>3 DEF Empty, LiesIn
  <2>5. \A r \in Afoot' : r \in Afoot \/ r = Convert(id)
    BY <1>6, <2>3 DEF Afoot, Writing
  <2> QED BY <1>5, <1>6, <2>2, <2>3, <2>4, <2>5
<1>9. ASSUME NEW w \in Writers, WriteFileDone(w) PROVE TrueInv'
  <2>1. /\ writer' = [writer EXCEPT ![w] = NoReceipt] /\ quorum' = quorum /\ Writing(w)
        /\ file' \in {Text(writer[w], 0), Garbled(file.under, file.breaks)}
    BY <1>9 DEF WriteFileDone, Overwritten
  <2>2. Backed(writer[w])
    BY <1>6, <2>1
  <2>3. LiesIn({writer[w]}, 0)
    BY <2>2 DEF LiesIn, OfTwo, Backed
  <2>4. /\ file'.state \in {"garbled", "receipt"} /\ file'.breaks \in Nat
        /\ LiesIn(file'.under, file'.breaks)
        /\ file'.state = "receipt" => file'.receipt \in file'.under
    BY <1>6, <2>1, <2>3 DEF Text, Garbled
  <2>5. Afoot' \subseteq Afoot
    BY <1>6, <2>1 DEF Afoot, Writing
  <2> QED BY <1>5, <1>6, <2>1, <2>4, <2>5
<1>10. ASSUME NEW w \in Writers, WriteFileFailed(w) PROVE TrueInv'
  <2>1. /\ writer' = [writer EXCEPT ![w] = NoReceipt] /\ quorum' = quorum /\ Writing(w)
        /\ file' \in BrokenOff(writer[w]) \cup {file}
    BY <1>10 DEF WriteFileFailed
  <2> Afoot' \subseteq Afoot
    BY <1>6, <2>1 DEF Afoot, Writing
  <2>2. CASE file' = file
    BY <1>5, <1>6, <2>1, <2>2
  <2>3. CASE file' \in BrokenOff(writer[w])
    <3> DEFINE mixed == {Splice(writer[w], old, cut) : old \in file.under, cut \in Cuts}
               n == IF file.under = {} THEN 0 ELSE file.breaks + 1
    <3>1. \/ file' = Garbled(file.under \cup mixed, n)
          \/ \E text \in mixed : file' = Text(text, n)
      BY <2>3 DEF BrokenOff
    <3>2. n \in Nat /\ LiesIn(mixed, n) /\ LiesIn(file.under, n)
      <4>1. CASE file.under = {}
        BY <4>1 DEF LiesIn
      <4>2. CASE file.under # {}
        <5>1. n = file.breaks + 1
          BY <4>2
        <5>2. LiesIn(mixed, file.breaks + 1) /\ LiesIn(file.under, file.breaks + 1)
          <6>1. Backed(writer[w])
            BY <1>6, <2>1
          <6> QED BY <1>6, <6>1, MixedIs
        <5> QED BY <1>6, <5>1, <5>2
      <4> QED BY <4>1, <4>2
    <3> HIDE DEF mixed, n
    <3>3. /\ file'.state \in {"garbled", "receipt"} /\ file'.breaks = n
          /\ LiesIn(file'.under, file'.breaks)
          /\ file'.state = "receipt" => file'.receipt \in file'.under
      <4>1. CASE file' = Garbled(file.under \cup mixed, n)
        BY <3>2, <4>1 DEF Garbled, LiesIn
      <4>2. ASSUME NEW text \in mixed, file' = Text(text, n)
            PROVE  /\ file'.state = "receipt" /\ file'.breaks = n
                   /\ LiesIn(file'.under, file'.breaks)
                   /\ file'.receipt \in file'.under
        BY <3>2, <4>2 DEF Text, LiesIn
      <4> QED BY <3>1, <4>1, <4>2
    <3> QED BY <1>5, <1>6, <2>1, <3>2, <3>3
  <2> QED BY <2>1, <2>2, <2>3
<1>11. CASE \E id \in Ids : Witness(id) \/ \E level \in Levels : Raise(id, level)
  BY <1>6, <1>7, <1>11 DEF Witness, Raise
<1>12. CASE UNCHANGED vars
  BY <1>6, <1>7, <1>12 DEF vars
<1> QED BY <1>8, <1>9, <1>10, <1>11, <1>12 DEF Next, Finish

THEOREM TrueInvariant == Spec => []TrueInv
BY InitTrueInv, StepTrueInv, PTL DEF Spec

(* A receipt that is loaded from a file the writers have written and that   *)
(* Validate accepts claims nothing untrue of its subject, however writes    *)
(* overlapped, if at most one has broken off over a whole text (WriteFile,  *)
(* checkArtifactConsistency).                                               *)
THEOREM AcceptedTrue == Spec => []AcceptedIsTrue
BY TrueInvariant, TrueInvAccepted, PTL

(* At whatever level an artifact is, it is billed at the dearest class      *)
(* whose label is true of it (ClassFor).                                    *)
THEOREM Billed == Spec => []BilledAsAchieved
<1>1. TrueInv => BilledAsAchieved
  <2> SUFFICES ASSUME TrueInv, NEW id \in Ids, NEW g \in ValidGovernanceLevels,
                      NEW regulated \in BOOLEAN
               PROVE  /\ Achieved(ClassFor(reached[id], g, regulated), reached[id], g, regulated)
                      /\ \A dearer \in ValidIUAssuranceClasses :
                           Multiplier(dearer) > Multiplier(ClassFor(reached[id], g, regulated))
                             => ~Achieved(dearer, reached[id], g, regulated)
    BY DEF BilledAsAchieved
  <2>1. reached[id] \in Nat
    <3>1. \A level \in Levels : level \in Nat
      BY LevelsAssumption, LevelNames
    <3>2. reached[id] \in Levels
      BY DEF TrueInv
    <3> QED BY <3>1, <3>2
  <2>2. g \in Nat
    BY DEF ValidGovernanceLevels, Ungoverned, CredentialedAnchored
  <2> QED BY <2>1, <2>2, Billing
<1> QED BY <1>1, TrueInvariant, PTL
(* Artifacts, writers and file have their types; what lies in the file has  *)
(* every field (Receipt).                                                   *)
THEOREM TypeCorrect == Spec => []TypeOK
<1> DEFINE TypeInv == /\ damaged \in BOOLEAN
                      /\ file.state = "received" => file.receipt \in Received /\ file.under = {}
<1>1. Init => TypeInv
  <2> SUFFICES ASSUME Init PROVE TypeInv
    OBVIOUS
  <2>1. CASE file = Absent
    BY <2>1 DEF Init, Absent
  <2>2. CASE \E r \in Received : file = FromElsewhere(r)
    <3>1. PICK r \in Received : file = FromElsewhere(r)
      BY <2>2
    <3>2. file.receipt = r /\ file.under = {}
      BY <3>1 DEF FromElsewhere
    <3> QED BY <3>2 DEF Init
  <2> QED BY <2>1, <2>2 DEF Init
<1>2. TypeInv /\ [Next]_vars => TypeInv'
  <2> SUFFICES ASSUME TypeInv, [Next]_vars PROVE TypeInv'
    OBVIOUS
  <2>1. CASE UNCHANGED <<file, damaged>>
    BY <2>1
  <2>2. CASE \E w \in Writers, id \in Ids : WriteFileOpen(w, id)
    BY <2>2 DEF WriteFileOpen, TruncatedOnOpen, Empty
  <2>3. CASE \E w \in Writers : WriteFileDone(w)
    BY <2>3 DEF WriteFileDone, Overwritten, Text, Garbled
  <2>4. CASE \E w \in Writers : WriteFileFailed(w)
    BY <2>4 DEF WriteFileFailed, BrokenOff, Text, Garbled
  <2> QED BY <2>1, <2>2, <2>3, <2>4 DEF Next, Finish, vars, Witness, Raise
<1>3. TrueInv /\ TypeInv => TypeOK
  <2> SUFFICES ASSUME TrueInv, TypeInv PROVE TypeOK
    OBVIOUS
  <2>1. \A r \in file.under : DOMAIN r = Fields
    BY DEF TrueInv, Pieced, LiesIn
  <2>2. \A w \in Writers : Writing(w) => DOMAIN writer[w] = Fields
    BY DEF TrueInv, Afoot, Backed
  <2>3. Loads => DOMAIN file.receipt = Fields
    BY <2>1, ReceivedAssumption DEF Loads, TrueInv, Pieced
  <2>4. file.breaks \in Nat
    BY DEF TrueInv, Pieced
  <2> QED BY <2>1, <2>2, <2>3, <2>4 DEF TypeOK, TrueInv
<1> QED BY <1>1, <1>2, <1>3, TrueInvariant, PTL DEF Spec

(* What an accepted receipt shows is backed, wherever the file comes from   *)
(* (Validate, RenderText, ClassFor).                                        *)
THEOREM Shown == Spec => []ShownIsBacked
<1>1. ShownIsBacked
  <2> SUFFICES ASSUME NEW r, Validate(r), NEW shown, shown = RenderText(r)
               PROVE  /\ ClaimsL4(r) \/ hasL4(shown.label) \/ shown.witness = "verified"
                           => shown.l0 = "confirmed on a network"
                      /\ \A p \in ValidProofLevels, g \in ValidGovernanceLevels, regulated \in BOOLEAN :
                           /\ ToUpper(r.proofLevel) = ProofLevelString(p)
                           /\ ClassFor(p, g, regulated) >= CrossDomain
                           => shown.l0 = "confirmed on a network"
                      /\ shown.headline = "VERIFIED" => hasPositiveAssurance(r)
                      /\ shown.trustsNode = "no" => r.nodeTrusted = "false"
    BY DEF ShownIsBacked, Accepted
  <2>1. r.l0Verified => shown.l0 = "confirmed on a network"
    BY DEF RenderText, l0Line, Validate, L0Located
  <2>2. ClaimsL4(r) \/ r.witnessQuorumVerified => r.l0Verified
    BY DEF ClaimsL4, Validate, L4Backed
  <2>3. /\ shown.label = r.label
        /\ shown.witness = "verified" => r.witnessQuorumVerified
    BY DEF RenderText
  <2>4. ASSUME NEW p \in ValidProofLevels, NEW g \in ValidGovernanceLevels, NEW regulated \in BOOLEAN,
               ToUpper(r.proofLevel) = ProofLevelString(p), ClassFor(p, g, regulated) >= CrossDomain
        PROVE  r.l0Verified
    <3>1. p = 4
      BY <2>4, LevelNames DEF ClassFor, Sandbox, Standard, Anchored, CrossDomain, L0Settlement
    <3>2. IsLevelL4(r.proofLevel)
      BY <2>4, <3>1, LevelNames DEF IsLevelL4
    <3> QED BY <2>2, <3>2 DEF ClaimsL4
  <2>5. shown.headline = "VERIFIED" => hasPositiveAssurance(r)
    BY DEF RenderText, Validate
  <2>6. shown.trustsNode = "no" => r.nodeTrusted = "false"
    BY DEF RenderText, Validate, WellFormed
  <2> QED BY <2>1, <2>2, <2>3, <2>4, <2>5, <2>6 DEF ClaimsL4
<1> QED BY <1>1, PTL
-----------------------------------------------------------------------------
(* Calls that do not overlap *)

QuietInv ==
  /\ last # NoReceipt => Validate(last)
  /\ \A w \in Writers : Writing(w) => Validate(writer[w])
  /\ ~damaged =>
       /\ \A v, w \in Writers : Writing(v) /\ Writing(w) => v = w
       /\ (\E w \in Writers : Writing(w)) => file = Empty
       /\ (\A w \in Writers : ~Writing(w)) /\ last # NoReceipt
            => file.state = "receipt" /\ file.receipt = last

LEMMA StepQuietInv == TrueInv /\ QuietInv /\ [Next]_vars => QuietInv'
<1> SUFFICES ASSUME TrueInv, QuietInv, [Next]_vars PROVE QuietInv'
  OBVIOUS
<1>1. CASE UNCHANGED <<file, writer, last, damaged>>
  BY <1>1 DEF QuietInv, Writing
<1>2. CASE \E w \in Writers, id \in Ids : WriteFileOpen(w, id)
  <2>1. PICK w \in Writers, id \in Ids : WriteFileOpen(w, id)
    BY <1>2
  <2>2. Validate(Convert(id)) /\ Convert(id) # NoReceipt
    BY ConvertBacked DEF TrueInv
  <2>3. /\ file' = Empty /\ last' = last /\ ~Writing(w)
        /\ writer' = [writer EXCEPT ![w] = Convert(id)]
        /\ damaged' = \E v \in Writers : Writing(v)
    BY <2>1 DEF WriteFileOpen, TruncatedOnOpen
  <2>4. /\ writer'[w] = Convert(id)
        /\ \A v \in Writers : v # w => writer'[v] = writer[v]
    BY <2>3 DEF TrueInv
  <2> QED BY <2>2, <2>3, <2>4 DEF QuietInv, Writing
<1>3. CASE \E w \in Writers : WriteFileDone(w)
  <2>1. PICK w \in Writers : WriteFileDone(w)
    BY <1>3
  <2>2. /\ file' \in Overwritten(writer[w]) /\ last' = writer[w] /\ Writing(w) /\ damaged' = damaged
        /\ writer' = [writer EXCEPT ![w] = NoReceipt]
    BY <2>1 DEF WriteFileDone
  <2>3. /\ writer'[w] = NoReceipt
        /\ \A v \in Writers : v # w => writer'[v] = writer[v]
    BY <2>2 DEF TrueInv
  <2>4. ASSUME ~damaged
        PROVE  /\ \A v \in Writers : ~Writing(v)'
               /\ file'.state = "receipt" /\ file'.receipt = writer[w]
    BY <2>2, <2>3, <2>4 DEF QuietInv, Writing, Overwritten, Text
  <2> QED BY <2>2, <2>3, <2>4 DEF QuietInv, Writing
<1>4. CASE \E w \in Writers : WriteFileFailed(w)
  <2>1. PICK w \in Writers : WriteFileFailed(w)
    BY <1>4
  <2>2. /\ damaged' = TRUE /\ last' = last
        /\ writer' = [writer EXCEPT ![w] = NoReceipt]
    BY <2>1 DEF WriteFileFailed
  <2> QED BY <2>2 DEF QuietInv, Writing, TrueInv
<1> QED BY <1>1, <1>2, <1>3, <1>4 DEF Next, Finish, vars, Witness, Raise

(* Between calls that did not overlap and were not broken off, the file     *)
(* holds the last receipt, and Validate accepts it (WriteFile, Load).       *)
THEOREM Undisturbed == Spec => []UndisturbedIsRead
<1>1. Init => QuietInv
  BY DEF Init, QuietInv, Writing
<1>2. QuietInv => UndisturbedIsRead
  BY DEF QuietInv, UndisturbedIsRead, Accepted, Loads
<1> QED BY <1>1, <1>2, StepQuietInv, TrueInvariant, PTL DEF Spec
=============================================================================
