--------------------------- MODULE AssuranceLadder ---------------------------
(***************************************************************************)
(* The ladders of assurance/ladder.go: proof levels, governance levels and *)
(* the billing class that ClassFor projects them on.  All three are uint8  *)
(* in the code, so values past the last defined one occur; the definitions *)
(* are for every natural number.                                           *)
(***************************************************************************)
EXTENDS Naturals

(* ProofLevel: how deep an artifact's commitment has been settled.         *)
None == 0
StorageInclusion == 1
AccountInclusion == 2
BatchInclusion == 3
L0Settlement == 4

ValidProofLevels == None..L0Settlement

ProofLevelString(p) ==
  IF p \in ValidProofLevels THEN <<"L0", "L1", "L2", "L3", "L4">>[p + 1] ELSE "undefined"

(* GovernanceLevel: how strongly an operation was governed.                *)
Ungoverned == 0
PolicyPassed == 1
ThresholdApproved == 2
CredentialedAnchored == 3

ValidGovernanceLevels == Ungoverned..CredentialedAnchored

(* IUAssuranceClass: the price face.                                       *)
Sandbox == 0
Standard == 1
Anchored == 2
CrossDomain == 3
HighAssurance == 4
Regulated == 5

ValidIUAssuranceClasses == Sandbox..Regulated

(* In quarters, so that 0.25x is a natural number.                         *)
Multiplier(class) ==
  IF class \in ValidIUAssuranceClasses THEN <<1, 4, 8, 16, 32, 48>>[class + 1] ELSE 0

(* Slip: batch inclusion is asked for before the settled classes are.      *)
ClassForBatchFirst(p, g, regulated) ==
  IF p >= BatchInclusion THEN Anchored
  ELSE IF p >= L0Settlement /\ g >= CredentialedAnchored /\ regulated THEN Regulated
  ELSE IF p >= L0Settlement /\ g >= CredentialedAnchored THEN HighAssurance
  ELSE IF p >= L0Settlement /\ g >= ThresholdApproved THEN CrossDomain
  ELSE IF g >= PolicyPassed \/ p >= StorageInclusion THEN Standard
  ELSE Sandbox

(* The first case that matches wins.                                       *)
ClassFor(p, g, regulated) ==
  IF p >= L0Settlement /\ g >= CredentialedAnchored /\ regulated THEN Regulated
  ELSE IF p >= L0Settlement /\ g >= CredentialedAnchored THEN HighAssurance
  ELSE IF p >= L0Settlement /\ g >= ThresholdApproved THEN CrossDomain
  ELSE IF p >= BatchInclusion THEN Anchored
  ELSE IF g >= PolicyPassed \/ p >= StorageInclusion THEN Standard
  ELSE Sandbox

(* What Label says an action at a class has achieved.                      *)
Achieved(class, p, g, regulated) ==
  CASE class = Sandbox -> g < PolicyPassed /\ p < StorageInclusion
    [] class = Standard -> (g >= PolicyPassed \/ p >= StorageInclusion) /\ p < BatchInclusion
    [] class = Anchored -> p >= BatchInclusion
    [] class = CrossDomain -> p >= L0Settlement /\ g >= ThresholdApproved
    [] class = HighAssurance -> p >= L0Settlement /\ g >= CredentialedAnchored
    [] class = Regulated -> p >= L0Settlement /\ g >= CredentialedAnchored /\ regulated
    [] OTHER -> FALSE
=============================================================================
