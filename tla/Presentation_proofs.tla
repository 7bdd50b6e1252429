------------------------- MODULE Presentation_proofs -------------------------
(***************************************************************************)
(* Proofs about Presentation for all challenges, domains, claims and any   *)
(* number of presentations and copies.                                     *)
(*                                                                         *)
(* The argument: a copy can only carry a signature the holder made, and    *)
(* the holder's signature is over two digests from which the members of    *)
(* the configuration and the body can be told.  If it verifies, what the   *)
(* verifier recomputed is what the holder signed.                          *)
(***************************************************************************)
EXTENDS Presentation, FiniteSetTheorems, TLAPS

-----------------------------------------------------------------------------
(* What is signed *)

Members(c, d, r) ==
  {m \in {<<"challenge", c>>, <<"domain", d>>, <<"rest", r>>} : m[2] # ""}

Signed(body, c, d, r) == <<Sum256(Members(c, d, r)), Sum256(body)>>

LEMMA MembersTell ==
  ASSUME NEW c, NEW d, NEW r, NEW c2, NEW d2, NEW r2
  PROVE  Members(c, d, r) = Members(c2, d2, r2) => c = c2 /\ d = d2 /\ r = r2
<1> DEFINE M1 == Members(c, d, r)
           M2 == Members(c2, d2, r2)
<1>1. /\ <<"challenge", c>> \in M1 <=> c # ""
      /\ <<"challenge", c>> \in M2 <=> c = c2 /\ c # ""
      /\ <<"challenge", c2>> \in M2 <=> c2 # ""
      /\ <<"challenge", c2>> \in M1 <=> c2 = c /\ c2 # ""
  BY DEF Members
<1>2. /\ <<"domain", d>> \in M1 <=> d # ""
      /\ <<"domain", d>> \in M2 <=> d = d2 /\ d # ""
      /\ <<"domain", d2>> \in M2 <=> d2 # ""
      /\ <<"domain", d2>> \in M1 <=> d2 = d /\ d2 # ""
  BY DEF Members
<1>3. /\ <<"rest", r>> \in M1 <=> r # ""
      /\ <<"rest", r>> \in M2 <=> r = r2 /\ r # ""
      /\ <<"rest", r2>> \in M2 <=> r2 # ""
      /\ <<"rest", r2>> \in M1 <=> r2 = r /\ r2 # ""
  BY DEF Members
<1> HIDE DEF M1, M2
<1>4. M1 = M2 => c = c2 /\ d = d2 /\ r = r2
  BY <1>1, <1>2, <1>3
<1> QED BY <1>4 DEF M1, M2

LEMMA SignedTells ==
  ASSUME NEW b, NEW c, NEW d, NEW r, NEW b2, NEW c2, NEW d2, NEW r2,
         Signed(b, c, d, r) = Signed(b2, c2, d2, r2)
  PROVE  b = b2 /\ c = c2 /\ d = d2 /\ r = r2
<1>1. Sum256(Members(c, d, r)) = Sum256(Members(c2, d2, r2)) /\ Sum256(b) = Sum256(b2)
  BY DEF Signed
<1>2. Members(c, d, r) = Members(c2, d2, r2) /\ b = b2
  BY <1>1 DEF Sum256
<1> QED BY <1>2, MembersTell

(* A presentation has a holder, a credential and, unless it was lost, the  *)
(* four members of a proof.                                                *)
Shape(vp) ==
  /\ DOMAIN vp = {"body", "proof"}
  /\ vp.body = [holder |-> vp.body.holder, vc |-> vp.body.vc]
  /\ vp.body.vc = [claim |-> vp.body.vc.claim, status |-> vp.body.vc.status,
                   proof |-> vp.body.vc.proof]
  /\ vp.proof = NoProof \/ DOMAIN vp.proof = {"challenge", "domain", "rest", "value"}

LEMMA ContentIs ==
  ASSUME NEW vp, Shape(vp), NEW demand
  PROVE  /\ SigningContent(vp, demand).error <=>
              vp.proof = NoProof \/ (demand # "" /\ vp.proof.challenge \notin {"", demand})
         /\ ~SigningContent(vp, demand).error =>
              SigningContent(vp, demand).bytes =
                Signed(vp.body, IF demand # "" THEN demand ELSE vp.proof.challenge,
                       vp.proof.domain, vp.proof.rest)
<1>1. CASE vp.proof = NoProof \/ (demand # "" /\ vp.proof.challenge \notin {"", demand})
  BY <1>1 DEF SigningContent, Error
<1>2. CASE ~(vp.proof = NoProof \/ (demand # "" /\ vp.proof.challenge \notin {"", demand}))
  <2> DEFINE cfg == IF demand = "" THEN vp.proof ELSE [vp.proof EXCEPT !.challenge = demand]
  <2>1. SigningContent(vp, demand) = Content(<<Sum256(ProofConfigurationJSON(cfg)), Sum256(vp.body)>>)
    BY <1>2 DEF SigningContent
  <2>2. /\ cfg.challenge = (IF demand # "" THEN demand ELSE vp.proof.challenge)
        /\ cfg.domain = vp.proof.domain /\ cfg.rest = vp.proof.rest
    BY <1>2 DEF Shape
  <2>3. ProofConfigurationJSON(cfg) = Members(cfg.challenge, cfg.domain, cfg.rest)
    BY DEF ProofConfigurationJSON, Members
  <2>4. /\ ~SigningContent(vp, demand).error
        /\ SigningContent(vp, demand).bytes =
             <<Sum256(ProofConfigurationJSON(cfg)), Sum256(vp.body)>>
    <3> HIDE DEF cfg
    <3> QED BY <2>1 DEF Content
  <2> HIDE DEF cfg
  <2> QED BY <1>2, <2>2, <2>3, <2>4 DEF Signed
<1> QED BY <1>1, <1>2

-----------------------------------------------------------------------------
(* Credentials *)

HeldShape(vc) ==
  /\ vc = [claim |-> vc.claim, status |-> vc.status, proof |-> vc.proof]
  /\ \E c \in Claims : vc.proof = Issue(c).proof

LEMMA HeldIs == \A vc \in Held : HeldShape(vc)
<1>1. \A c \in Claims : HeldShape(Issue(c))
  BY DEF HeldShape, Issue
<1>2. \A c \in Claims : HeldShape(Decoded(Issue(c)))
  BY DEF HeldShape, Issue, Decoded
<1>3. \A c \in Claims : HeldShape(DecodedByOldWallet(Issue(c)))
  BY DEF HeldShape, Issue, DecodedByOldWallet
<1> QED BY <1>1, <1>2, <1>3 DEF Held
-----------------------------------------------------------------------------
(* What was sent, and what arrives *)

(* m was signed for its challenge, which the proof carries or leaves open. *)
SignedFor(m) ==
  LET vp == m.vp IN
  /\ Shape(vp) /\ vp.proof # NoProof /\ vp.body.holder = "holder"
  /\ vp.body.vc \in Held
  /\ vp.proof.challenge \in {"", m.challenge} /\ m.challenge \in Demands
  /\ vp.proof.value = Sign("holder", Signed(vp.body, m.challenge, vp.proof.domain, vp.proof.rest))

(* A copy carries a signature of a presentation that was sent, or none,    *)
(* and a credential with a signature the issuer made.                      *)
Arrived(vp, S) ==
  /\ Shape(vp) /\ vp.body.holder \in {"holder", "other"}
  /\ \E c \in Claims : vp.body.vc.proof = Issue(c).proof
  /\ vp.proof.value = NoSignature \/ \E m \in S : vp.proof.value = m.vp.proof.value

LEMMA SentArrives ==
  ASSUME NEW m \in sent, SignedFor(m)
  PROVE  Arrived(m.vp, sent)
BY HeldIs DEF Arrived, SignedFor, HeldShape

LEMMA CopiesArrive ==
  ASSUME \A m \in sent : SignedFor(m), NEW m \in sent, NEW copy \in Copies(m.vp)
  PROVE  Arrived(copy, sent)
<1> DEFINE vp == m.vp
<1>1. Arrived(vp, sent) /\ vp.proof # NoProof
  BY SentArrives DEF SignedFor
<1> HIDE DEF vp
<1>2. CASE copy = vp
  BY <1>1, <1>2
<1>3. CASE copy = Wire(vp)
  BY <1>1, <1>3 DEF Arrived, Shape, Wire, Decoded
<1>4. CASE copy \in Lossy(vp)
  <2>1. PICK status : copy = [vp EXCEPT !.body.vc.status = status]
    BY <1>4 DEF Lossy
  <2> QED BY <1>1, <2>1 DEF Arrived, Shape
<1>5. CASE copy \in Changed(vp)
  <2>1. CASE \/ \E c : copy = [vp EXCEPT !.proof.challenge = c]
             \/ \E d : copy = [vp EXCEPT !.proof.domain = d]
             \/ copy = [vp EXCEPT !.proof.rest = ""]
    BY <1>1, <2>1 DEF Arrived, Shape
  <2>2. CASE copy = [vp EXCEPT !.body.holder = "other"]
    BY <1>1, <2>2 DEF Arrived, Shape
  <2>3. CASE copy = [vp EXCEPT !.body.vc.claim = 0]
    BY <1>1, <2>3 DEF Arrived, Shape
  <2>4. CASE copy = [vp EXCEPT !.proof = NoProof]
    <3>1. NoProof.value = NoSignature
      BY DEF NoProof
    <3> QED BY <1>1, <2>4, <3>1 DEF Arrived, Shape
  <2> QED BY <1>5, <2>1, <2>2, <2>3, <2>4 DEF Changed
<1>6. CASE copy \in Mixed(vp)
  <2>1. PICK n \in sent :
          copy \in {[vp EXCEPT !.body = n.vp.body], [vp EXCEPT !.proof = n.vp.proof],
                    [vp EXCEPT !.body.vc = n.vp.body.vc],
                    [vp EXCEPT !.proof.value = n.vp.proof.value],
                    [vp EXCEPT !.body.vc.proof = n.vp.body.vc.proof]}
    BY <1>6 DEF Mixed
  <2>2. Arrived(n.vp, sent) /\ n.vp.proof # NoProof
    BY SentArrives DEF SignedFor
  <2> QED BY <1>1, <2>1, <2>2 DEF Arrived, Shape
<1> QED BY <1>2, <1>3, <1>4, <1>5, <1>6 DEF Copies, vp

-----------------------------------------------------------------------------
(* The invariant *)

VerdictIs ==
  verdict.received =>
    /\ verdict.of \in sent /\ verdict.demand \in Demands
    /\ Arrived(verdict.copy, sent)
    /\ (verdict.accepted <=> Verifies(verdict.copy, verdict.demand))

BindingInv ==
  /\ \A m \in sent : SignedFor(m)
  /\ VerdictIs
  /\ verdict.accepted => verdict.received

LEMMA PresentSigns ==
  ASSUME NEW vc \in Held, NEW carried \in Demands, NEW passed \in Demands, NEW domain,
         Present(vc, carried, passed, domain), \A m \in sent : SignedFor(m)
  PROVE  \A m \in sent' : SignedFor(m)
<1> DEFINE vp == Unsigned(vc, carried, domain)
           content == SigningContent(vp, passed)
           signed == [vp EXCEPT !.proof.value = Sign("holder", content.bytes)]
           c == IF passed # "" THEN passed ELSE carried
           new == [vp |-> signed, challenge |-> c]
<1>1. /\ ~content.error /\ sent' = sent \cup {new}
  BY DEF Present
<1>2. Shape(vp) /\ vp.proof # NoProof /\ vp.body.holder = "holder" /\ vp.body.vc = vc
      /\ vp.proof.challenge = carried
  BY HeldIs DEF Shape, Unsigned, HeldShape, NoProof
<1>3. /\ content.bytes = Signed(vp.body, c, vp.proof.domain, vp.proof.rest)
      /\ carried \in {"", c} /\ c \in Demands
  BY <1>1, <1>2, ContentIs
<1>4. /\ Shape(signed) /\ signed.proof # NoProof /\ signed.body = vp.body
      /\ signed.proof.challenge = vp.proof.challenge /\ signed.proof.domain = vp.proof.domain
      /\ signed.proof.rest = vp.proof.rest /\ signed.proof.value = Sign("holder", content.bytes)
  <2> HIDE DEF vp, content
  <2> QED BY <1>2 DEF Shape, NoProof
<1>5. new.vp = signed /\ new.challenge = c
  OBVIOUS
<1> HIDE DEF vp, content, signed, c, new
<1>6. SignedFor(new)
  BY <1>2, <1>3, <1>4, <1>5 DEF SignedFor
<1> QED BY <1>1, <1>6
LEMMA InitBinding == Init => BindingInv
BY DEF Init, BindingInv, VerdictIs, NoVerdict

LEMMA StepBinding == BindingInv /\ [Next]_vars => BindingInv'
<1> SUFFICES ASSUME BindingInv, [Next]_vars PROVE BindingInv'
  OBVIOUS
<1>1. CASE UNCHANGED vars
  <2>1. sent' = sent /\ verdict' = verdict
    BY <1>1 DEF vars
  <2> QED BY <2>1 DEF BindingInv, VerdictIs
<1>2. ASSUME NEW vc \in Held, NEW carried \in Demands, NEW passed \in Demands, NEW domain \in Domains,
             Present(vc, carried, passed, domain), verdict = NoVerdict
      PROVE  BindingInv'
  <2>1. \A m \in sent' : SignedFor(m)
    BY <1>2, PresentSigns DEF BindingInv
  <2>2. verdict' = verdict /\ ~verdict.received /\ ~verdict.accepted
    BY <1>2 DEF Present, NoVerdict
  <2> QED BY <2>1, <2>2 DEF BindingInv, VerdictIs
<1>3. ASSUME NEW m \in sent, NEW copy \in Copies(m.vp), NEW demand \in Demands, Receive(m, copy, demand)
      PROVE  BindingInv'
  <2>1. Arrived(copy, sent)
    BY CopiesArrive DEF BindingInv
  <2>2. /\ sent' = sent /\ verdict'.received /\ verdict'.copy = copy /\ verdict'.demand = demand
        /\ verdict'.of = m /\ (verdict'.accepted <=> Verifies(copy, demand))
    BY <1>3 DEF Receive
  <2> QED BY <2>1, <2>2 DEF BindingInv, VerdictIs
<1>4. CASE Forget
  BY <1>4 DEF Forget, NoVerdict, BindingInv, VerdictIs
<1> QED BY <1>1, <1>2, <1>3, <1>4 DEF Next, PresentRefused

THEOREM Binding == Spec => []BindingInv
BY InitBinding, StepBinding, PTL DEF Spec

-----------------------------------------------------------------------------
(* What acceptance means *)

WasSigned(vp, demand, S) ==
  \E m \in S :
    /\ vp.body = m.vp.body
    /\ vp.proof.domain = m.vp.proof.domain /\ vp.proof.rest = m.vp.proof.rest
    /\ m.challenge = IF demand # "" THEN demand ELSE vp.proof.challenge

LEMMA SignIs == ASSUME NEW key, NEW content
                PROVE  Sign(key, content).by = key /\ Sign(key, content).over = content
BY DEF Sign

(* What verifies was signed by the holder, for the demand if there is one. *)
LEMMA VerifiedWasSigned ==
  ASSUME BindingInv, NEW vp, Arrived(vp, sent), NEW demand, Verifies(vp, demand)
  PROVE  /\ demand # "" => vp.proof.challenge \in {"", demand}
         /\ WasSigned(vp, demand, sent)
<1> DEFINE c == IF demand # "" THEN demand ELSE vp.proof.challenge
           signed == Signed(vp.body, c, vp.proof.domain, vp.proof.rest)
<1>1. /\ ~SigningContent(vp, demand).error
      /\ vp.proof.value = Sign(vp.body.holder, SigningContent(vp, demand).bytes)
  BY DEF Verifies
<1>2. /\ demand # "" => vp.proof.challenge \in {"", demand}
      /\ vp.proof.value = Sign(vp.body.holder, signed)
  BY <1>1, ContentIs DEF Arrived
<1>3. vp.proof.value.by = vp.body.holder /\ vp.proof.value.over = signed
  <2> HIDE DEF signed
  <2>1. vp.proof.value = Sign(vp.body.holder, signed)
    BY <1>2
  <2> QED BY <2>1, SignIs
<1>4. PICK m \in sent : vp.proof.value = m.vp.proof.value
  <2>1. NoSignature.by = "nobody"
    BY DEF NoSignature
  <2>2. vp.body.holder # "nobody"
    BY DEF Arrived
  <2> QED BY <1>3, <2>1, <2>2 DEF Arrived
<1>5. m.vp.proof.value.over =
        Signed(m.vp.body, m.challenge, m.vp.proof.domain, m.vp.proof.rest)
  <2>1. m.vp.proof.value =
          Sign("holder", Signed(m.vp.body, m.challenge, m.vp.proof.domain, m.vp.proof.rest))
    BY DEF BindingInv, SignedFor
  <2> QED BY <2>1 DEF Sign
<1>6. Signed(vp.body, c, vp.proof.domain, vp.proof.rest) =
        Signed(m.vp.body, m.challenge, m.vp.proof.domain, m.vp.proof.rest)
  BY <1>3, <1>4, <1>5
<1> HIDE DEF c
<1>7. /\ vp.body = m.vp.body /\ c = m.challenge
      /\ vp.proof.domain = m.vp.proof.domain /\ vp.proof.rest = m.vp.proof.rest
  BY <1>6, SignedTells
<1> QED BY <1>2, <1>7 DEF c, WasSigned

(* What a verifier accepts is a presentation the holder signed, body and    *)
(* proof configuration member by member, and signed for the challenge this  *)
(* verifier demands (SigningContent, ProofConfigurationJSON).               *)
THEOREM Bound == Spec => []AcceptedAsSigned
<1>1. ASSUME BindingInv, verdict.accepted
      PROVE  /\ Arrived(verdict.copy, sent) /\ Verifies(verdict.copy, verdict.demand)
  BY <1>1 DEF BindingInv, VerdictIs
<1>2. ASSUME BindingInv, verdict.accepted
      PROVE  WasSigned(verdict.copy, verdict.demand, sent)
  BY <1>1, <1>2, VerifiedWasSigned
<1>3. BindingInv => AcceptedAsSigned
  BY <1>2 DEF AcceptedAsSigned, WasSigned
<1> QED BY <1>3, Binding, PTL

(* An accepted proof does not show another challenge than the one demanded  *)
(* (ErrChallengeMismatch).                                                  *)
THEOREM DemandShown == Spec => []ShowsTheDemand
<1>1. BindingInv => ShowsTheDemand
  BY VerifiedWasSigned DEF ShowsTheDemand, BindingInv, VerdictIs
<1> QED BY <1>1, Binding, PTL

-----------------------------------------------------------------------------
(* What is accepted *)

LEMMA HonestVerifies ==
  ASSUME NEW m \in sent, SignedFor(m),
         NEW c \in Claims, m.vp.body.vc = Issue(c), Float64(c.claim) = c.claim,
         NEW copy \in {m.vp, Wire(m.vp)}, Arrived(copy, sent)
  PROVE  Verifies(copy, m.challenge)
<1> DEFINE vp == m.vp
<1>1. copy.proof = vp.proof /\ copy.body = vp.body
  <2>1. CASE copy = vp
    BY <2>1
  <2>2. CASE copy = Wire(vp)
    <3>1. Decoded(vp.body.vc) = vp.body.vc
      BY DEF Decoded, Issue
    <3>2. Shape(vp)
      BY DEF SignedFor
    <3> HIDE DEF vp
    <3> QED BY <2>2, <3>1, <3>2 DEF Wire, Shape
  <2> QED BY <2>1, <2>2
<1>2. /\ vp.proof # NoProof /\ vp.body.holder = "holder"
      /\ vp.proof.challenge \in {"", m.challenge}
      /\ vp.proof.value =
           Sign("holder", Signed(vp.body, m.challenge, vp.proof.domain, vp.proof.rest))
  BY DEF SignedFor
<1>3. Shape(copy)
  BY DEF Arrived
<1> HIDE DEF vp
<1>4. /\ ~SigningContent(copy, m.challenge).error
      /\ SigningContent(copy, m.challenge).bytes =
           Signed(copy.body, IF m.challenge # "" THEN m.challenge ELSE copy.proof.challenge,
                  copy.proof.domain, copy.proof.rest)
  BY <1>1, <1>2, <1>3, ContentIs
<1>5. (IF m.challenge # "" THEN m.challenge ELSE copy.proof.challenge) = m.challenge
  BY <1>1, <1>2
<1>6. copy.proof.value = Sign(copy.body.holder, SigningContent(copy, m.challenge).bytes)
  BY <1>1, <1>2, <1>4, <1>5
<1>7. Issue(c).proof = Sign("issuer", CredentialContent(Issue(c)))
  BY DEF Issue, CredentialContent
<1>8. copy.body.vc = Issue(c)
  BY <1>1 DEF vp
<1> QED BY <1>4, <1>6, <1>7, <1>8 DEF Verifies

(* A presentation whose proof carries the challenge it was signed for, or   *)
(* none if for none, is accepted where that challenge is demanded, also     *)
(* after a way through JSON, provided every number of its credential is a   *)
(* float64 (SigningContent of both).                                        *)
THEOREM Honest == Spec => []HonestIsAccepted
<1>1. BindingInv => HonestIsAccepted
  <2> SUFFICES ASSUME BindingInv, verdict.received,
                      verdict.copy \in {verdict.of.vp, Wire(verdict.of.vp)},
                      verdict.of.challenge = verdict.of.vp.proof.challenge,
                      verdict.demand = verdict.of.challenge,
                      NEW c \in Claims, verdict.of.vp.body.vc = Issue(c),
                      Float64(c.claim) = c.claim
               PROVE  verdict.accepted
    BY DEF HonestIsAccepted
  <2>1. /\ verdict.of \in sent /\ Arrived(verdict.copy, sent)
        /\ (verdict.accepted <=> Verifies(verdict.copy, verdict.demand))
    BY DEF BindingInv, VerdictIs
  <2>2. SignedFor(verdict.of)
    BY <2>1 DEF BindingInv
  <2> QED BY <2>1, <2>2, HonestVerifies
<1> QED BY <1>1, Binding, PTL

-----------------------------------------------------------------------------
(* The status entry *)

Entry == {"revocationListIndex", "revocationListCredential", "statusPurpose",
          "statusListIndex", "statusListCredential"}

LEMMA HeldHasEntry == \A vc \in Held : DOMAIN vc.status = Entry
<1>1. \A c \in Claims : DOMAIN c.status = Entry
  BY ClaimsAssumption DEF NoStatus, Entry
<1>2. \A c \in Claims : DOMAIN Issue(c).status = Entry
  BY <1>1 DEF Issue
<1>3. \A c \in Claims : DOMAIN Decoded(Issue(c)).status = Entry
  BY <1>1 DEF Issue, Decoded
<1>4. \A c \in Claims : DOMAIN DecodedByOldWallet(Issue(c)).status = Entry
  BY <1>1 DEF Issue, DecodedByOldWallet
<1> QED BY <1>2, <1>3, <1>4 DEF Held

(* Without some of its members, an entry resolves as before, or not.       *)
LEMMA LossResolves ==
  ASSUME NEW s, DOMAIN s = Entry, Resolve(s) # ErrStatusEntry, NEW lost,
         NEW r, r = [m \in Entry |-> IF m \in lost THEN "" ELSE s[m]]
  PROVE  Resolve(r) \in {Resolve(s), ErrStatusEntry}
<1>1. \A m \in Entry : r[m] = IF m \in lost THEN "" ELSE s[m]
  OBVIOUS
<1>2. /\ r.statusPurpose \in {"", s.statusPurpose}
      /\ r.statusListIndex \in {"", s.statusListIndex}
      /\ r.statusListCredential \in {"", s.statusListCredential}
      /\ r.revocationListIndex \in {"", s.revocationListIndex}
      /\ r.revocationListCredential \in {"", s.revocationListCredential}
  BY <1>1 DEF Entry
<1> DEFINE Standard(e) ==
             /\ e.revocationListIndex = "" /\ e.revocationListCredential = ""
             /\ e.statusPurpose \in {"revocation", "suspension"}
             /\ e.statusListIndex \in Decimals /\ e.statusListCredential # ""
           Legacy(e) ==
             /\ e.statusPurpose = "" /\ e.statusListIndex = "" /\ e.statusListCredential = ""
             /\ e.revocationListIndex # "" /\ e.revocationListCredential # ""
           Is(e) ==
             /\ Standard(e) => Resolve(e) = [form |-> "StatusList2021",
                                list |-> e.statusListCredential, index |-> e.statusListIndex]
             /\ Legacy(e) => Resolve(e) = [form |-> "legacy:RevocationList2020",
                                list |-> e.revocationListCredential,
                                index |-> e.revocationListIndex]
             /\ ~Standard(e) /\ ~Legacy(e) => Resolve(e) = ErrStatusEntry
<1>3. \A e : Is(e)
  <2> SUFFICES ASSUME NEW e PROVE Is(e)
    OBVIOUS
  <2>1. CASE Standard(e)
    BY <2>1 DEF Resolve
  <2>2. CASE Legacy(e)
    BY <2>2 DEF Resolve
  <2>3. CASE ~Standard(e) /\ ~Legacy(e)
    BY <2>3 DEF Resolve
  <2> QED BY <2>1, <2>2, <2>3
<1>4. Is(s) /\ Is(r)
  BY <1>3
<1> QED BY <1>2, <1>4, DecimalsAssumption

LEMMA AcceptedIsIssued ==
  ASSUME NEW vp, Arrived(vp, sent), NEW demand, Verifies(vp, demand)
  PROVE  \E c \in Claims : vp.body.vc = Issue(c) /\ vp.body.vc.status = c.status
<1> DEFINE vc == vp.body.vc
<1>1. vc = [claim |-> vc.claim, status |-> vc.status, proof |-> vc.proof]
  BY DEF Arrived, Shape
<1>2. PICK c \in Claims : vc.proof = Issue(c).proof
  BY DEF Arrived
<1>3. vc.proof = Sign("issuer", CredentialContent(vc))
  BY DEF Verifies
<1> HIDE DEF vc
<1>4. Issue(c).proof = Sign("issuer", Sum256([claim |-> c.claim, status |-> c.status]))
  BY DEF Issue, CredentialContent
<1>5. CredentialContent(vc) = Sum256([claim |-> c.claim, status |-> c.status])
  <2>1. Sign("issuer", CredentialContent(vc)).over = CredentialContent(vc)
    BY SignIs
  <2>2. Issue(c).proof.over = Sum256([claim |-> c.claim, status |-> c.status])
    BY <1>4 DEF Sign
  <2> QED BY <1>2, <1>3, <2>1, <2>2
<1>6. [claim |-> vc.claim, status |-> vc.status] = [claim |-> c.claim, status |-> c.status]
  BY <1>5 DEF CredentialContent, Sum256
<1>7. vc.claim = c.claim /\ vc.status = c.status
  BY <1>6
<1>8. Issue(c) = [claim |-> c.claim, status |-> c.status, proof |-> Issue(c).proof]
  BY DEF Issue
<1> QED BY <1>1, <1>2, <1>7, <1>8 DEF vc

(* The status entry of an accepted credential is the one that was issued,   *)
(* and whoever reads the entry of a copy before checking it finds the       *)
(* issued position or an error (Resolve, SigningContent of a credential).   *)
THEOREM Status == Spec => []StatusAsIssued
<1>1. BindingInv => StatusAsIssued
  <2> SUFFICES ASSUME BindingInv, verdict.received PROVE StatusAsIssued
    BY DEF StatusAsIssued
  <2> DEFINE issued == verdict.of.vp.body.vc.status
             received == verdict.copy.body.vc.status
  <2>1. /\ verdict.of \in sent /\ Arrived(verdict.copy, sent)
        /\ (verdict.accepted <=> Verifies(verdict.copy, verdict.demand))
    BY DEF BindingInv, VerdictIs
  <2>2. verdict.accepted =>
          \E c \in Claims : verdict.copy.body.vc = Issue(c) /\ received = c.status
    BY <2>1, AcceptedIsIssued
  <2>3. ASSUME verdict.copy \in Lossy(verdict.of.vp), Resolve(issued) # ErrStatusEntry
        PROVE  Resolve(received) \in {Resolve(issued), ErrStatusEntry}
    <3> DEFINE vp == verdict.of.vp
    <3>1. DOMAIN issued = Entry /\ Shape(vp)
      BY <2>1, HeldHasEntry DEF BindingInv, SignedFor
    <3>2. PICK lost : verdict.copy =
            [vp EXCEPT !.body.vc.status =
               [m \in DOMAIN @ |-> IF m \in lost THEN "" ELSE @[m]]]
      BY <2>3 DEF Lossy
    <3> DEFINE kept == [m \in DOMAIN vp.body.vc.status |->
                          IF m \in lost THEN "" ELSE vp.body.vc.status[m]]
    <3> HIDE DEF vp
    <3>3. verdict.copy = [vp EXCEPT !.body.vc.status = kept]
      BY <3>2
    <3>4. verdict.copy.body.vc.status = kept
      <4> HIDE DEF kept
      <4> QED BY <3>1, <3>3 DEF Shape
    <3>5. received = [m \in Entry |-> IF m \in lost THEN "" ELSE issued[m]]
      BY <3>1, <3>4 DEF vp
    <3> HIDE DEF issued, received
    <3> QED BY <2>3, <3>1, <3>5, LossResolves DEF vp
  <2> QED BY <2>2, <2>3 DEF StatusAsIssued
<1> QED BY <1>1, Binding, PTL

-----------------------------------------------------------------------------
(* Types *)

SizeInv == IsFiniteSet(sent) /\ Cardinality(sent) <= MaxSent

(* The holder signs two digests, the configuration's and the body's, and a  *)
(* verdict is about a copy of a presentation that was sent.                 *)
THEOREM TypeCorrect == Spec => []TypeOK
<1>1. Init => SizeInv
  BY FS_EmptySet, MaxSentAssumption DEF Init, SizeInv
<1>2. SizeInv /\ [Next]_vars => SizeInv'
  <2> SUFFICES ASSUME SizeInv, [Next]_vars PROVE SizeInv'
    OBVIOUS
  <2>1. CASE sent' = sent
    BY <2>1 DEF SizeInv
  <2>2. ASSUME NEW vc, NEW carried, NEW passed, NEW domain, Present(vc, carried, passed, domain)
        PROVE  SizeInv'
    <3>1. PICK m : Cardinality(sent) < MaxSent /\ sent' = sent \cup {m}
      BY <2>2 DEF Present
    <3>2. Cardinality(sent) \in Nat
      BY FS_CardinalityType DEF SizeInv
    <3>3. IsFiniteSet(sent') /\ Cardinality(sent') \in {Cardinality(sent), Cardinality(sent) + 1}
      BY <3>1, FS_AddElement DEF SizeInv
    <3> QED BY <3>1, <3>2, <3>3, MaxSentAssumption DEF SizeInv
  <2> QED BY <2>1, <2>2 DEF Next, PresentRefused, Receive, Forget, vars
<1>3. BindingInv /\ SizeInv => TypeOK
  <2> SUFFICES ASSUME BindingInv, SizeInv PROVE TypeOK
    OBVIOUS
  <2>1. ASSUME NEW m \in sent
        PROVE  /\ m.challenge \in Demands /\ m.vp.body.vc \in Held
               /\ DOMAIN m.vp.proof.value.over = 1..2
    <3>1. /\ m.challenge \in Demands /\ m.vp.body.vc \in Held
          /\ m.vp.proof.value =
               Sign("holder", Signed(m.vp.body, m.challenge, m.vp.proof.domain, m.vp.proof.rest))
      BY DEF BindingInv, SignedFor
    <3>2. m.vp.proof.value.over =
            Signed(m.vp.body, m.challenge, m.vp.proof.domain, m.vp.proof.rest)
      BY <3>1, SignIs
    <3> QED BY <3>1, <3>2 DEF Signed
  <2> QED BY <2>1 DEF TypeOK, BindingInv, VerdictIs, SizeInv
<1> QED BY <1>1, <1>2, <1>3, Binding, PTL DEF Spec
=============================================================================
