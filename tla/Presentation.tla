---------------------------- MODULE Presentation ----------------------------
(***************************************************************************)
(* Credentials and presentations: credential.go (SigningContent of a       *)
(* credential, CredentialStatus and Resolve) and presentation_signing.go   *)
(* (proof configuration, SigningContent of a presentation).                *)
(*                                                                         *)
(* A holder puts a credential in a presentation, signs it and sends it.    *)
(* Copies reach verifiers at any time, in any order and more than once, as *)
(* they were or with a member lost or changed on the way.  A verifier      *)
(* demands a challenge, or none, and recomputes the bytes that should have *)
(* been signed.  Issuer, holder and verifier are external: they call the   *)
(* code modelled here and sign or compare what it returns.                 *)
(***************************************************************************)
EXTENDS Naturals, FiniteSets

CONSTANTS Challenges,    \* the nonces of verifiers
          Domains,       \* domains a holder may sign for, "" for none
          Claims,        \* [claim, status]: what the issuer may certify
          Decimals,      \* the status list indices in canonical decimal form
          Spacing,       \* distance of neighbouring float64 at the claims
          MaxSent        \* bound: presentations the holder makes

ASSUME SpacingAssumption == Spacing \in Nat \ {0} /\ \A c \in Claims : c.claim \in Nat
ASSUME ChallengesAssumption == "" \notin Challenges
ASSUME DecimalsAssumption == "" \notin Decimals
ASSUME MaxSentAssumption == MaxSent \in Nat

VARIABLES sent,      \* the presentations the holder has made, with the
                     \* challenge each was signed for
          verdict    \* what a verifier said last, or NoVerdict

vars == <<sent, verdict>>

Demands == Challenges \cup {""}

-----------------------------------------------------------------------------
(* The status entry of a credential *)

ErrStatusEntry == [form |-> "error"]
NoStatus == [revocationListIndex |-> "", revocationListCredential |-> "",
             statusPurpose |-> "", statusListIndex |-> "", statusListCredential |-> ""]

ASSUME ClaimsAssumption ==
  \A c \in Claims : DOMAIN c.status = DOMAIN NoStatus

(* Slip: the legacy members are read whenever there is no standard index.  *)
ResolveByIndex(s) ==
  IF s.statusListIndex \in Decimals
  THEN [form |-> "StatusList2021", list |-> s.statusListCredential, index |-> s.statusListIndex]
  ELSE IF s.revocationListIndex # "" \/ s.revocationListCredential # ""
  THEN [form |-> "legacy:RevocationList2020", list |-> s.revocationListCredential,
        index |-> s.revocationListIndex]
  ELSE ErrStatusEntry

Resolve(s) ==
  LET standard == \E m \in {"statusPurpose", "statusListIndex", "statusListCredential"} : s[m] # ""
      legacy == \E m \in {"revocationListIndex", "revocationListCredential"} : s[m] # ""
  IN CASE /\ standard /\ ~legacy
          /\ s.statusPurpose \in {"revocation", "suspension"}
          /\ s.statusListIndex \in Decimals
          /\ s.statusListCredential # ""
            -> [form |-> "StatusList2021", list |-> s.statusListCredential,
                index |-> s.statusListIndex]
       [] /\ legacy /\ ~standard
          /\ s.revocationListIndex # "" /\ s.revocationListCredential # ""
            -> [form |-> "legacy:RevocationList2020", list |-> s.revocationListCredential,
                index |-> s.revocationListIndex]
       [] OTHER -> ErrStatusEntry

-----------------------------------------------------------------------------
(* Credentials.  The number in credentialSubject stands for every value of *)
(* that map: decoded into an any, it becomes a float64.                    *)

Sum256(bytes) == <<bytes>>
Sign(key, content) == [by |-> key, over |-> content]   \* an Ed25519 signature, idealised
NoSignature == [by |-> "nobody", over |-> Sum256("")]

Float64(n) == ((n + Spacing \div 2) \div Spacing) * Spacing

CredentialContent(vc) == Sum256([claim |-> vc.claim, status |-> vc.status])

Issue(c) ==
  [claim |-> c.claim, status |-> c.status,
   proof |-> Sign("issuer", CredentialContent(c))]

(* Slip: the legacy members are not declared, and so dropped on reading.   *)
DecodedWithoutLegacy(vc) ==
  [vc EXCEPT !.claim = Float64(@),
             !.status = [@ EXCEPT !.revocationListIndex = "", !.revocationListCredential = ""]]

Decoded(vc) == [vc EXCEPT !.claim = Float64(@)]

(* A wallet from before the standard members drops them.                   *)
DecodedByOldWallet(vc) ==
  [vc EXCEPT !.status = [@ EXCEPT !.statusPurpose = "", !.statusListIndex = "",
                                  !.statusListCredential = ""]]

(* What a holder may have: credentials as issued, or read from a wallet.   *)
Held ==
  LET issued == {Issue(c) : c \in Claims} IN
  issued \cup {Decoded(vc) : vc \in issued} \cup {DecodedByOldWallet(vc) : vc \in issued}

-----------------------------------------------------------------------------
(* Presentations: the body is the document without its proof; rest are the *)
(* members of the proof configuration that nothing here tells apart.       *)

NoProof == [value |-> NoSignature]

(* Slip: a member that was added last is not in the configuration.         *)
ConfigurationWithoutDomain(p) ==
  {m \in {<<"challenge", p.challenge>>, <<"rest", p.rest>>} : m[2] # ""}

(* Members that are empty are left out.                                    *)
ProofConfigurationJSON(p) ==
  {m \in {<<"challenge", p.challenge>>, <<"domain", p.domain>>, <<"rest", p.rest>>} : m[2] # ""}

Error == [error |-> TRUE]
Content(bytes) == [error |-> FALSE, bytes |-> bytes]

(* Slip: the challenge the proof carries is replaced, not compared.        *)
SigningContentReplacing(vp, challenge) ==
  IF vp.proof = NoProof THEN Error
  ELSE LET cfg == IF challenge = "" THEN vp.proof ELSE [vp.proof EXCEPT !.challenge = challenge]
       IN Content(<<Sum256(ProofConfigurationJSON(cfg)), Sum256(vp.body)>>)

(* Slip: the digest of the configuration is left out.                      *)
SigningContentBodyOnly(vp, challenge) ==
  IF vp.proof = NoProof \/ (challenge # "" /\ vp.proof.challenge \notin {"", challenge}) THEN Error
  ELSE Content(<<Sum256(vp.body)>>)

(* The body always marshals: a credential that does not was never issued,  *)
(* for the issuer signs its JSON, and Decoded values come from JSON.       *)
SigningContent(vp, challenge) ==
  IF vp.proof = NoProof \/ (challenge # "" /\ vp.proof.challenge \notin {"", challenge}) THEN Error
  ELSE LET cfg == IF challenge = "" THEN vp.proof ELSE [vp.proof EXCEPT !.challenge = challenge]
       IN Content(<<Sum256(ProofConfigurationJSON(cfg)), Sum256(vp.body)>>)

(* A verifier, external: both signatures over the recomputed contents.     *)
Verifies(vp, demand) ==
  LET content == SigningContent(vp, demand) IN
  /\ ~content.error /\ vp.proof.value = Sign(vp.body.holder, content.bytes)
  /\ vp.body.vc.proof = Sign("issuer", CredentialContent(vp.body.vc))

-----------------------------------------------------------------------------
NoVerdict == [accepted |-> FALSE, received |-> FALSE]

(* The holder, external: the challenge goes into the proof, is passed to   *)
(* SigningContent, or both.  Nothing the holder does depends on a verdict, *)
(* so it is enough to let it act between two of them.                      *)

Unsigned(vc, carried, domain) ==
  [body |-> [holder |-> "holder", vc |-> vc],
   proof |-> [challenge |-> carried, domain |-> domain, rest |-> "assertion",
              value |-> NoSignature]]

Present(vc, carried, passed, domain) ==
  LET vp == Unsigned(vc, carried, domain)
      content == SigningContent(vp, passed) IN
  /\ Cardinality(sent) < MaxSent /\ ~content.error
  /\ sent' = sent \cup {[vp |-> [vp EXCEPT !.proof.value = Sign("holder", content.bytes)],
                         challenge |-> IF passed # "" THEN passed ELSE carried]}
  /\ UNCHANGED verdict

PresentRefused(vc, carried, passed, domain) ==
  /\ SigningContent(Unsigned(vc, carried, domain), passed).error
  /\ UNCHANGED vars

(* On the way: JSON written and read, ...                                  *)
Wire(vp) == [vp EXCEPT !.body.vc = Decoded(@)]

(* ... members of the status entry lost, ...                               *)
Lossy(vp) ==
  {[vp EXCEPT !.body.vc.status = [m \in DOMAIN @ |-> IF m \in lost THEN "" ELSE @[m]]] :
     lost \in SUBSET DOMAIN NoStatus}

(* ... something of another presentation in its place, or a member changed *)
(* or lost.  Bound: one such change of a copy.                             *)
Mixed(vp) ==
  UNION {{[vp EXCEPT !.body = other.body], [vp EXCEPT !.proof = other.proof],
          [vp EXCEPT !.body.vc = other.body.vc], [vp EXCEPT !.proof.value = other.proof.value],
          [vp EXCEPT !.body.vc.proof = other.body.vc.proof]} : other \in {m.vp : m \in sent}}

Changed(vp) ==
  {[vp EXCEPT !.proof.challenge = c] : c \in Demands}
  \cup {[vp EXCEPT !.proof.domain = d] : d \in Domains}
  \cup {[vp EXCEPT !.proof.rest = ""], [vp EXCEPT !.body.holder = "other"],
        [vp EXCEPT !.body.vc.claim = 0], [vp EXCEPT !.proof = NoProof]}

Copies(vp) == {vp, Wire(vp)} \cup Lossy(vp) \cup Mixed(vp) \cup Changed(vp)

(* A copy of a presentation reaches a verifier.                            *)
Receive(m, copy, demand) ==
  /\ verdict = NoVerdict
  /\ verdict' = [accepted |-> Verifies(copy, demand), received |-> TRUE,
                 copy |-> copy, demand |-> demand, of |-> m]
  /\ UNCHANGED sent

(* The verifier, which keeps nothing, goes on to the next copy.            *)
Forget == verdict # NoVerdict /\ verdict' = NoVerdict /\ UNCHANGED sent

Init == sent = {} /\ verdict = NoVerdict

Next ==
  \/ verdict = NoVerdict /\ \E vc \in Held, carried, passed \in Demands, domain \in Domains :
       Present(vc, carried, passed, domain) \/ PresentRefused(vc, carried, passed, domain)
  \/ \E m \in sent : \E copy \in Copies(m.vp), demand \in Demands : Receive(m, copy, demand)
  \/ Forget

Spec == Init /\ [][Next]_vars

-----------------------------------------------------------------------------
(* Properties *)

(* The holder signs two digests, the configuration's and the body's, and a  *)
(* verdict is about a copy of a presentation that was sent.                 *)
TypeOK ==
  /\ Cardinality(sent) <= MaxSent
  /\ \A m \in sent : m.challenge \in Demands /\ m.vp.body.vc \in Held
  /\ \A m \in sent : DOMAIN m.vp.proof.value.over = 1..2
  /\ verdict.received => verdict.of \in sent /\ verdict.demand \in Demands
  /\ verdict.accepted => verdict.received

(* What a verifier accepts is a presentation the holder signed, body and    *)
(* proof configuration member by member, and signed for the challenge this  *)
(* verifier demands: a presentation made for one verifier, or for none,     *)
(* satisfies no other that demands a challenge, however often and however   *)
(* changed it arrives (SigningContent, ProofConfigurationJSON).             *)
AcceptedAsSigned ==
  verdict.accepted =>
    LET vp == verdict.copy IN
    \E m \in sent :
      /\ vp.body = m.vp.body
      /\ vp.proof.domain = m.vp.proof.domain /\ vp.proof.rest = m.vp.proof.rest
      /\ m.challenge = IF verdict.demand # "" THEN verdict.demand ELSE vp.proof.challenge

(* An accepted proof does not show another challenge than the one demanded  *)
(* (ErrChallengeMismatch).  It may show none: see BareProofSatisfiesNobody. *)
ShowsTheDemand ==
  verdict.accepted /\ verdict.demand # ""
    => verdict.copy.proof.challenge \in {"", verdict.demand}

(* What the comment of SigningContent says: a proof with no challenge is    *)
(* signed over a configuration with none, so it cannot satisfy a verifier   *)
(* that demands one.  The code puts the expected challenge into the         *)
(* configuration of such a proof, for the holder who passes it as well as   *)
(* for the verifier, and the two contents agree.                            *)
BareProofSatisfiesNobody ==
  verdict.accepted /\ verdict.demand # "" => verdict.copy.proof.challenge # ""

(* A presentation whose proof carries the challenge it was signed for, or   *)
(* none if for none, is accepted where that challenge is demanded, also     *)
(* after a way through JSON, provided every number of its credential is a   *)
(* float64: others change when they are read (SigningContent of both).      *)
HonestIsAccepted ==
  /\ verdict.received /\ verdict.copy \in {verdict.of.vp, Wire(verdict.of.vp)}
  /\ verdict.of.challenge = verdict.of.vp.proof.challenge
  /\ verdict.demand = verdict.of.challenge
  /\ (\E c \in Claims : verdict.of.vp.body.vc = Issue(c) /\ Float64(c.claim) = c.claim)
  => verdict.accepted

(* The status entry of an accepted credential is the one that was issued.   *)
(* And whoever reads the entry of a copy before checking it, when members   *)
(* were lost on the way, finds the issued position or an error, never       *)
(* another list or form (Resolve, SigningContent of a credential).          *)
StatusAsIssued ==
  verdict.received =>
    LET issued == verdict.of.vp.body.vc.status
        received == verdict.copy.body.vc.status IN
    /\ verdict.accepted =>
         \E c \in Claims : verdict.copy.body.vc = Issue(c) /\ received = c.status
    /\ verdict.copy \in Lossy(verdict.of.vp) /\ Resolve(issued) # ErrStatusEntry
         => Resolve(received) \in {Resolve(issued), ErrStatusEntry}
=============================================================================
