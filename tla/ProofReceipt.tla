---------------------------- MODULE ProofReceipt ----------------------------
(***************************************************************************)
(* Proof receipts: receipt.go, validate.go and the text of render.go, with *)
(* the levels of assurance/ladder.go.                                      *)
(*                                                                         *)
(* Several processes verify artifacts of one kind and keep the receipt in  *)
(* one file.  WriteFile is os.WriteFile: it truncates the file, then       *)
(* writes at offset 0, and may stop half way.  At any time somebody loads  *)
(* the file, validates the receipt and shows it.  At the start the file is *)
(* absent, or a receipt somebody else has put there, right or wrong.       *)
(***************************************************************************)
EXTENDS AssuranceLadder

CONSTANTS Writers,     \* processes that call WriteFile
          Ids,         \* the artifacts: all intents, or all evidence bundles
          Levels,      \* proof levels they may reach
          Kind,        \* the subject type of the artifacts
          Received     \* receipts from elsewhere

ASSUME KindAssumption == Kind \in {"intent", "evidence"}
ASSUME LevelsAssumption == None \in Levels /\ Levels \subseteq ValidProofLevels
ASSUME IdsAssumption == "" \notin Ids /\ "blank" \notin Ids

VARIABLES reached,   \* external: the proof level each artifact has reached
          quorum,    \* external: artifacts a witness quorum has confirmed
          file,      \* the file: its text and what may lie under it
          writer,    \* process -> the receipt it is writing, or NoReceipt
          last,      \* history: the last receipt written as a whole, or NoReceipt
          damaged    \* history: writes have overlapped or been broken off since
                     \* the last truncation by a process alone

vars == <<reached, quorum, file, writer, last, damaged>>

-----------------------------------------------------------------------------
(* Receipts: fields in the order of the JSON text, those that no rule and  *)
(* no line looks at left out.  artifactId is the id among Artifacts that   *)
(* belongs to the subject's type.                                          *)

Position == [version |-> 1, type |-> 2, id |-> 3, status |-> 4, proofLevel |-> 5, label |-> 6,
             nodeTrusted |-> 7, l0Verified |-> 8, replayVerified |-> 9, witnessQuorumVerified |-> 10,
             artifactId |-> 11, command |-> 12, network |-> 13]
Fields == DOMAIN Position
Cuts == 1..12

ASSUME ReceivedAssumption == \A r \in Received : DOMAIN r = Fields

NoReceipt == [version |-> ""]

(* Text is free of meaning but for these: "blank" is nothing but spaces,   *)
(* "l4" is L4 in lower case or among spaces, a label "L4" contains L4.     *)
TrimSpace(text) == IF text = "blank" THEN "" ELSE text
ToUpper(level) == IF level = "l4" THEN "L4" ELSE level

IsProofLevel(level) == ToUpper(level) \in {"L1", "L2", "L3", "L4"}
IsLevelL4(level) == ToUpper(level) = "L4"
hasL4(label) == label = "L4"

ClaimsL4(r) == r.l0Verified \/ IsLevelL4(r.proofLevel) \/ hasL4(r.label)

-----------------------------------------------------------------------------
(* Validate, rule by rule *)

WellFormed(r) ==
  /\ r.version = "1"
  /\ r.type \in {"intent", "evidence", "release", "metamask_acceptance"}
  /\ r.status \in {"verified", "partial", "failed"}
  /\ r.nodeTrusted \in {"true", "false"}   \* not omitted

hasPositiveAssurance(r) ==
  r.l0Verified \/ r.replayVerified \/ r.witnessQuorumVerified \/ IsProofLevel(r.proofLevel)

(* Slip: the label is not held against l0Verified.                         *)
L4BackedLevelOnly(r) == IsLevelL4(r.proofLevel) => r.l0Verified

L4Backed(r) == IsLevelL4(r.proofLevel) \/ hasL4(r.label) => r.l0Verified

L0Located(r) ==
  r.l0Verified => TrimSpace(r.network) # "" /\ TrimSpace(r.command) # ""

(* Slip: an artifact under another id than the subject's is let pass.      *)
ArtifactsUnchecked(r) == TRUE

checkArtifactConsistency(r) ==
  r.type \in {"intent", "evidence"} =>
    \/ r.artifactId = "" \/ TrimSpace(r.id) = ""
    \/ r.artifactId = TrimSpace(r.id)

Validate(r) ==
  /\ WellFormed(r)
  /\ r.status = "verified" => hasPositiveAssurance(r)
  /\ L4Backed(r)
  /\ L0Located(r)
  /\ r.witnessQuorumVerified => r.l0Verified
  /\ checkArtifactConsistency(r)

-----------------------------------------------------------------------------
(* What a reader is shown *)

l0Line(r) ==
  IF ~r.l0Verified THEN "not checked (offline)"
  ELSE IF TrimSpace(r.network) = "" THEN "confirmed" ELSE "confirmed on a network"

RenderText(r) ==
  [headline |-> CASE r.status = "verified" -> "VERIFIED"
                  [] r.status = "partial" -> "PARTIALLY VERIFIED"
                  [] OTHER -> "NOT VERIFIED",
   label |-> r.label,
   trustsNode |-> IF r.nodeTrusted = "true" THEN "yes" ELSE "no",
   l0 |-> l0Line(r),
   replay |-> IF r.replayVerified THEN "reproduced" ELSE "not reproduced",
   witness |-> IF r.witnessQuorumVerified THEN "verified" ELSE "not required"]

-----------------------------------------------------------------------------
(* The file: absent, empty, with a receipt that somebody else put there    *)
(* ("received") or a writer wrote, or with a text that does not parse.     *)
(* under: the texts whose end the file may hold; they show again behind a  *)
(* write that breaks off.  breaks: history, how many writes have broken    *)
(* off over the last text that was written as a whole.                     *)

Absent == [state |-> "absent", receipt |-> NoReceipt, under |-> {}, breaks |-> 0]
Empty == [state |-> "empty", receipt |-> NoReceipt, under |-> {}, breaks |-> 0]
FromElsewhere(r) == [state |-> "received", receipt |-> r, under |-> {}, breaks |-> 0]
Text(r, n) == [state |-> "receipt", receipt |-> r, under |-> {r}, breaks |-> n]
Garbled(under, n) ==
  [state |-> "garbled", receipt |-> NoReceipt, under |-> under, breaks |-> n]

(* Load: an absent or empty file and a text that does not parse are errors.*)
Loads == file.state \in {"received", "receipt"}
Accepted == Loads /\ Validate(file.receipt)

(* Slip: the file is opened without O_TRUNC.                               *)
KeptOnOpen == IF file = Absent THEN Empty ELSE file

TruncatedOnOpen == Empty

(* A whole text over an older one covers it, or leaves a tail behind, and  *)
(* the file does not parse.  Lengths are not modelled, both may be.        *)
Overwritten(r) ==
  {Text(r, 0)} \cup (IF file = Empty THEN {} ELSE {Garbled(file.under, file.breaks)})

(* Slip: a text that breaks off reads as the fields before the break.      *)
SpliceFront(r, old, cut) == [f \in {g \in Fields : Position[g] <= cut} |-> r[f]]

(* A text that breaks off after the field at position cut, over an older   *)
(* one, which may have come about like that itself.                        *)
Splice(r, old, cut) == [f \in Fields |-> IF Position[f] <= cut THEN r[f] ELSE old[f]]

(* The file reads as fields of both, if by chance they line up.  A later   *)
(* write may cut away the place where they do not.                         *)
BrokenOff(r) ==
  LET mixed == {Splice(r, old, cut) : old \in file.under, cut \in Cuts}
      n == IF file.under = {} THEN 0 ELSE file.breaks + 1
  IN {Garbled(file.under \cup mixed, n)} \cup {Text(text, n) : text \in mixed}

-----------------------------------------------------------------------------
(* A receipt as the converters of the sibling package fill it, external:   *)
(* what the artifact has reached, with the id on both sides.               *)
Convert(id) ==
  LET settled == reached[id] = L0Settlement IN
  [version |-> "1", type |-> Kind, id |-> id,
   status |-> IF reached[id] = None THEN "failed" ELSE "verified",
   proofLevel |-> ProofLevelString(reached[id]),
   label |-> IF settled THEN "L4" ELSE "plain",
   nodeTrusted |-> "false", l0Verified |-> settled, replayVerified |-> FALSE,
   witnessQuorumVerified |-> settled /\ id \in quorum,
   artifactId |-> id,
   command |-> IF settled THEN "verify" ELSE "", network |-> IF settled THEN "kermit" ELSE ""]

Writing(w) == writer[w] # NoReceipt

(* Artifacts get on, external.                                             *)
Raise(id, level) ==
  /\ level > reached[id]
  /\ reached' = [reached EXCEPT ![id] = level]
  /\ UNCHANGED <<quorum, file, writer, last, damaged>>

Witness(id) ==
  /\ reached[id] = L0Settlement
  /\ quorum' = quorum \cup {id}
  /\ UNCHANGED <<reached, file, writer, last, damaged>>

(* WriteFile: the receipt is marshalled and the file opened, ...           *)
WriteFileOpen(w, id) ==
  /\ ~Writing(w)
  /\ writer' = [writer EXCEPT ![w] = Convert(id)]
  /\ file' = TruncatedOnOpen
  /\ damaged' = (\E v \in Writers : Writing(v))
  /\ UNCHANGED <<reached, quorum, last>>

(* Slip: a buffer takes the text and is not flushed.                       *)
WriteFileLost(w) ==
  /\ Writing(w)
  /\ writer' = [writer EXCEPT ![w] = NoReceipt]
  /\ last' = writer[w]
  /\ UNCHANGED <<reached, quorum, file, damaged>>

(* ... then written, ...                                                   *)
WriteFileDone(w) ==
  /\ Writing(w)
  /\ file' \in Overwritten(writer[w])
  /\ writer' = [writer EXCEPT ![w] = NoReceipt]
  /\ last' = writer[w]
  /\ UNCHANGED <<reached, quorum, damaged>>

(* ... or broken off: a write error, or the end of the process.            *)
WriteFileFailed(w) ==
  /\ Writing(w)
  /\ file' \in BrokenOff(writer[w]) \cup {file}
  /\ writer' = [writer EXCEPT ![w] = NoReceipt]
  /\ damaged' = TRUE
  /\ UNCHANGED <<reached, quorum, last>>

Finish(w) == WriteFileDone(w) \/ WriteFileFailed(w)

Init ==
  /\ reached = [id \in Ids |-> None] /\ quorum = {}
  /\ file = Absent \/ \E r \in Received : file = FromElsewhere(r)
  /\ writer = [w \in Writers |-> NoReceipt]
  /\ last = NoReceipt /\ damaged = FALSE

Next ==
  \/ \E id \in Ids : Witness(id) \/ \E level \in Levels : Raise(id, level)
  \/ \E w \in Writers : Finish(w) \/ \E id \in Ids : WriteFileOpen(w, id)

Spec == Init /\ [][Next]_vars

(* A process that is in os.WriteFile is scheduled until the call returns   *)
(* or the process ends.  Nobody has to start a call.                       *)
FairSpec == Spec /\ \A w \in Writers : WF_vars(Finish(w))

-----------------------------------------------------------------------------
(* Properties *)

(* The artifacts, the writers and the file have their types; what lies in   *)
(* the file has every field.                                                *)
TypeOK ==
  /\ reached \in [Ids -> Levels] /\ quorum \subseteq Ids
  /\ file.state \in {"absent", "empty", "garbled", "received", "receipt"}
  /\ \A r \in file.under \cup (IF Loads THEN {file.receipt} ELSE {}) : DOMAIN r = Fields
  /\ file.breaks \in Nat
  /\ \A w \in Writers : Writing(w) => DOMAIN writer[w] = Fields
  /\ damaged \in BOOLEAN

(* What a receipt claims of the artifact it names has come true: the level, *)
(* the L0 confirmation, the quorum.                                         *)
ClaimsTrue(r) ==
  /\ ClaimsL4(r) => reached[r.id] = L0Settlement
  /\ \A level \in Levels : r.proofLevel = ProofLevelString(level) => reached[r.id] >= level
  /\ r.witnessQuorumVerified => r.id \in quorum

(* A receipt that is loaded from a file the writers have written and that   *)
(* Validate accepts claims nothing untrue of its subject, however writes    *)
(* overlapped, if at most one has broken off over a whole text: two         *)
(* receipts run together are refused, unless they are about one artifact    *)
(* (WriteFile, checkArtifactConsistency).  With a second broken-off write   *)
(* the id and the artifact may come from one receipt and the claims between *)
(* them from another, and Validate has nothing to tell it by.               *)
AcceptedIsTrue ==
  Accepted /\ file.state = "receipt" /\ file.breaks <= 1 => ClaimsTrue(file.receipt)

(* Between calls that did not overlap and were not broken off, the file     *)
(* holds the last receipt, and Validate accepts it (WriteFile, Load).       *)
UndisturbedIsRead ==
  last # NoReceipt /\ ~damaged /\ (\A w \in Writers : ~Writing(w))
    => Accepted /\ file.receipt = last

(* At whatever level and however governed, an artifact is billed at the     *)
(* dearest class whose label is true of it (ClassFor, Label, Multiplier).   *)
BilledAsAchieved ==
  \A id \in Ids, g \in ValidGovernanceLevels, regulated \in BOOLEAN :
    LET class == ClassFor(reached[id], g, regulated) IN
    /\ Achieved(class, reached[id], g, regulated)
    /\ \A dearer \in ValidIUAssuranceClasses :
         Multiplier(dearer) > Multiplier(class) => ~Achieved(dearer, reached[id], g, regulated)

(* What an accepted receipt shows is backed, wherever it comes from: any    *)
(* claim to L4, and any level that is billed as settled, by a confirmation  *)
(* on a named network; a headline VERIFIED by a check; a line that no node  *)
(* is trusted by an explicit answer; a quorum by L0 (Validate, RenderText). *)
ShownIsBacked ==
  Accepted =>
    LET r == file.receipt
        shown == RenderText(r) IN
    /\ ClaimsL4(r) \/ hasL4(shown.label) \/ shown.witness = "verified"
         => shown.l0 = "confirmed on a network"
    /\ \A p \in ValidProofLevels, g \in ValidGovernanceLevels, regulated \in BOOLEAN :
         ToUpper(r.proofLevel) = ProofLevelString(p) /\ ClassFor(p, g, regulated) >= CrossDomain
           => shown.l0 = "confirmed on a network"
    /\ shown.headline = "VERIFIED" => hasPositiveAssurance(r)
    /\ shown.trustsNode = "no" => r.nodeTrusted = "false"

(* A truncated file does not stay empty: unless writes overlap or break     *)
(* off, an accepted receipt takes its place (WriteFile).                    *)
EmptyIsTemporary == (file.state = "empty") ~> (Accepted \/ damaged)
=============================================================================
