# A verification project for infrix-schema

TLA+ models of the parts of `infrix-schema` that keep state, chain hashes or decide whether
evidence is sound, with the TLC configurations that check them on small instances and TLAPS proofs
of the theorems that hold for every instance. Everything is translated from the Go source under
`src/`; line references are to that source.

## 1. The system and its parts

`infrix-schema` is a library of wire types with the code that builds, hashes, seals, exports and
checks them. It has no server and starts no goroutine of its own: what interleaves is its callers.
Several goroutines share a chain builder's slices, several CLI processes share a telemetry
directory, and a bundle is handled in turn by a collector, an anchoring workflow and a retention
policy that live in other repositories.

| component | source | state | operations |
|---|---|---|---|
| evidence chain | `evidence/chain.go` | `Builder.links`, `Builder.seq`; the `EvidenceChain`s returned | `AddLink`, `AddJSON`, ~25 typed `Add...`, `Links`, `Build`, `VerifyChainIntegrity` |
| evidence bundle | `evidence/bundle.go` | the `EvidenceBundle` struct: content, anchor status, lifecycle state, seal | `ComputeBundleHash`, `SetAnchorCandidate`, `Finalize` |
| Merkle proofs | `evidence/merkle.go`, `anchordata.go` | proofs in their holders' hands | `ComputeEvidenceMerkleRoot`, `GenerateMerkleInclusionProof`, `VerifyMerkleInclusionProof` |
| portable package | `evidence/portable.go` | the package and its export hash | `BuildPortablePackage(WithBindings)`, `ComputePortableExportHash`, `VerifyPortablePackage` |
| canonical JSON | `evidence/canonical.go` | none | `CanonicalJSON` |
| assurance ladder | `assurance/ladder.go` | none | `ClassFor`, `Multiplier`, validity of levels |
| proof receipt | `proofreceipt/*.go` | receipt files | `Validate`, `ClaimsL4`, `WriteFile`, `Load`, renderers |
| telemetry | `onboardingmetrics/recorder.go`, `local_store.go`, `event.go`, `redact.go` | `config.json`, the events file | `Record`, `OptIn`, `OptOut`, `Append`, `Read`, `Clear` |
| summary | `onboardingmetrics/summary.go` | none | `Summarize`, `Render` |
| credentials | `credential/*.go` | none | `Resolve`, `SigningContent`, multikey encoding |
| intent vocabulary | `intent/types.go` | none | constants and structs |

How they interact. A bundle embeds a chain (a pointer) and records the verdict of
`VerifyChainIntegrity` when it is sealed. Merkle proofs are made from the content hashes of that
chain. A portable package carries the marshalled bundle, inclusion proofs and digests that must
agree with it; `VerifyPortablePackage` calls `VerifyMerkleInclusionProof`. `Recorder` calls
`Event.Validate`, `Redact` and `LocalStore`; `Summarize` works on what `LocalStore.Read` returns.

### What is hard, and what should hold

* **Evidence chain.** `Build` does not copy: the chain it returns and the builder share one backing
  array, and the next `AddLink` writes into it in place when there is room, possibly while somebody
  verifies the chain. Built chains must not change, must verify at every later moment, and two
  chains of one builder must tell one story. A record that does not marshal becomes `{}`.
* **Evidence bundle.** `Finalize` fails half way, is called again after the anchoring workflow has
  moved on, and stores a verdict about a chain that may change behind it. Every field is public and may
  be written after the seal, and the hash separates neither identifiers nor optional hashes. The seal
  must bind the content, and only the content; where it cannot, that must be known; a failed call must
  leave an old seal alone.
* **Merkle proofs.** Two different constructions of one tree, one of them in place; padding at
  lengths that are not powers of two; leaves hashed like inner nodes; proofs that outlive the chain
  they came from.
* **Portable package.** Inputs gathered at different moments; slices that are nil or empty; numbers
  that pass through a float64; fields that must, or must not, be in the export hash.
* **Telemetry.** Non-atomic writes by several processes, crashes between them, a check of the
  user's choice that is stale when the event is written.
* **Receipts and the ladder.** A file that several processes truncate and write, and that somebody
  loads in between; rules that must agree with each other (`Validate`, `ClaimsL4`, the renderer,
  the levels); a cascade whose order decides what is billed.
* **Summary.** Events are stamped before they are written, so the order of the file is not the order
  of the times; what the dashboard has shown should not be taken back.
* **Credentials and presentations.** Holder and verifier compute the signed bytes apart from each
  other; presentations arrive late, twice, at the wrong verifier or changed. Nothing is remembered:
  what the signature covers is the only protection, and what it covers must survive JSON.

The `hazards` of `PROJECT.json` list these at their lines, with the properties that cover them.

## 2. The modules

| module | what it is |
|---|---|
| `EvidenceLog` | abstract: append-only logs, sealed copies |
| `EvidenceChain` | `chain.go` over a heap of Go arrays; implements `EvidenceLog` |
| `EvidenceChain_proofs` | proofs about it, the refinement of `EvidenceLog` among them |
| `EvidenceBundle` | `bundle.go` |
| `EvidenceBundle_proofs` | proofs about it |
| `MerkleTree` | `merkle.go` and the root of `anchordata.go` |
| `MerkleTree_proofs` | proofs about it |
| `PortablePackage` | `portable.go`, and what `canonical.go` does to the hashed document |
| `PortablePackage_proofs` | proofs about it |
| `TelemetryStore` | `recorder.go` over `local_store.go`, with `event.go` and `redact.go` |
| `OnboardingSummary` | `summary.go` over the events of `TelemetryStore`, which it extends |
| `TelemetryStore_proofs` | proofs about both |
| `AssuranceLadder` | `ladder.go`: levels, classes, `ClassFor`; operators only |
| `ProofReceipt` | `receipt.go`, `validate.go`, the text of `render.go`, over `AssuranceLadder` |
| `ProofReceipt_proofs` | proofs about both |
| `Presentation` | `credential.go` and `presentation_signing.go` |
| `Presentation_proofs` | proofs about it |
| `Induction` | lemmas: induction over the naturals, and functions defined by recursion over them |
| `MC...` | the small instance of each |

Some definitions carry the note *Slip*: operators that show how the definition after them could
have been written wrongly. No specification uses them; each property is shown to fail when the
correct definition is replaced by such a slip.

Three idealisations hold throughout. SHA-256 (`Sum256`) is a constructor, so different inputs have
different digests; what is written to a hash is modelled in the order in which the code writes it.
Contents, decisions, profiles and the like are model values. Timestamps, artifact references,
messages and layout are left out, except where a property is about them.

### EvidenceChain

`heap` holds the backing arrays, `slice[b]` is the header `b.links`, `chains` what `Build` returned
(header and `ChainHash`), `seq[b]` the sequence counter. `AppendTo` is Go's `append`: in place while
there is capacity, else into a new array of twice the capacity (an `EvidenceLink` occupies 128 bytes, so
the allocator's size classes follow the doubling). The typed `Add...` methods are `AddRecord`.
`VerifyChainIntegrity` appears twice: as a function of links and hash, and as the steps
`VerifyStart`, `VerifyLink`, `VerifyHash`, which read one link from the heap at a time and
interleave with the builders. One builder is used by one goroutine at a time, as in the code, which
has no lock in `Builder`.

### EvidenceBundle

`bundle[b]` is the struct. The identity, level, chain hash, state root, sections and anchor
candidate are its content. A section may hold a NaN or an infinity if its type has a float64
(`DriftAnalysisRef`, `StepOutcomeRef`), and then does not marshal. `Written` is what
`ComputeBundleHash` writes, in its order: the characters of the identifiers one after the other
without a separator (`Joined`), the level, the chain hash unless there is no chain and the state root
(`Roots`), the sections that are not empty and the candidate unless it is zero (`Body`). A holder may
write any field before or after a seal: `SetIdentity`, `SetLevel`, `SetStateRoot`, `AttachChain`,
`SetSection`, `SetAnchorCandidate`.

The hash therefore does not tell every drift, and `Alike` says exactly which one it does not tell:
identifiers that join to the same text, and, in a bundle without sections, a chain hash, state root and
candidate that take each other's places. `DriftVisible` is an equivalence: recomputing the hash gives
`BundleHash` exactly when the content is alike to the one sealed. `CandidateStays` is what the comment above
`AnchorCandidateDigest` is after: an anchored bundle whose hash still fits has the candidate it was sealed
with. It has one exception (`Shifted`): the candidate went to the state root, and the state root to the
hash of a chain that was not there. Both exceptions occur in the instance: without them TLC finds
counterexamples.

What is idealised: a level is one symbol that no identifier holds (no valid level's name ends another's,
so the level can be told from the bytes as well), a hash is not taken for characters, and a section's JSON
tells which section it is and is no hash (`HashesAssumption`). Hashes of different kinds may be equal, as
those of an empty chain and of a state root nobody set are. The zero hash (`Zero`) of a candidate is no
digest. `Finalize` is three actions for
its three outcomes: `RejectCandidate`, `RejectContent` (which has set `Type` by then) and `Seal`.
Collector, anchoring workflow, retention and damage in storage are external and unrestricted apart
from the order of anchor states the comment of `AnchorStatus` gives; the collector may even stamp the
zero candidate, and so take one away. `sealed[b]` is a history
variable: content and verdict at the last successful `Finalize`.

### MerkleTree

`links` are the content hashes of a growing chain, until `NewBuilder` begins another; `proof` is the
proof handed out last, `from` the links it was made from (history). `Halved` is one in-place pass of `ComputeEvidenceMerkleRoot`,
cell by cell, and `Passes` the array after each; `buildMerkleProof` takes its siblings from `Levels`, a
fresh array per level, as the code does, at the `Positions` that `idx /= 2` runs through. `Combined` is
what the verifier has computed after each sibling.

The code hashes the raw bytes of a content (`chain.go:206`) and the 64 bytes of two children
(`merkle.go:128`, `anchordata.go:80`) alike, with no prefix to tell them apart. So there is one idealised
`Hash` for both, a content is a sequence of pieces, and two digests are a content like any other: a chain of
one such link has the root of the chain of two links whose hashes it holds. `RootTellsLinks` says exactly when
two chains share a root (`SameLeaves`): the padded leaves of the shallower tree are a level of the other. The
records this package adds are JSON objects, whose text nobody expects to spell two digests; for such chains
`RootTellsPlainChain` says that padding alone makes roots equal.

### PortablePackage

`live` is the bundle, `data` the bundle as marshalled into `BundleData`, `given` the inputs of the
build, `pkg` the package. The exporter reads the bundle twice: once in `MarshalBundle`, once when
it builds. `Regular` are the inputs a careful exporter passes; `Irregular` replaces one of them by
an unusual value. `Wire` is the way through JSON (`omitempty` drops empty slices, which come back
nil). `CanonicalJSON` passes the one number where it matters, a time in nanoseconds, through
`Float64`; `Spacing` is the distance of neighbouring floats there (256 for today's times, 4 in the
instance). The checks of `VerifyPortablePackage` are one operator each, numbered in the map.
A package is about one bundle; an inclusion proof is a Boolean here (it verifies or not), because
`VerifyMerkleInclusionProof` looks at nothing else in the package.

### TelemetryStore

`config` is the content of `config.json`, `file` the sequence of writes in the events file, each a
whole line, a line without its newline, or a torn beginning. `proc[p]` says where a process is:
`Record` is load, open, write; `SaveConfig` is truncate, then `SaveWrite` or, when the write breaks off,
`SaveBroken`, which leaves the old text, a beginning of the new one or a mixture (`Torn`). `Clear` unlinks the file, so a
write already opened goes nowhere. `Crash` ends any call. Write failures are torn writes. History
variables: `choice` (of the save that touched `config.json` last, `unsettled` if it did not write all of it), `optedOut`, and `promise[p]`, what the user's choice was when the
call of `p` started.

A line longer than the scanner's buffer (`TooLong`) ends `Read` with an error, and none of the
file's events is returned; `Append` writes such a line like any other.

An event's time is a number: 0 for none, which `Record` replaces by an instant of the clock,
negative for one that is not RFC 3339. `FairSpec` adds that a `Record` that was started runs to its
end.

### OnboardingSummary

Extends `TelemetryStore` by what `Summarize` makes of the events that `Read` returns. `AddEvent` is
one round of the loop, `EventsAt` the scan that collects the lines that parse, `setFirst` the closure that sets a milestone once, `Rates` the five shares
as pairs of numerator and denominator. It has no actions: the property `MilestonesStay` compares
the summary before and after every step of the store, whichever process writes and whenever its
event was stamped.

### AssuranceLadder and ProofReceipt

The ladder's levels are numbers, as in the code, and `ClassFor` is defined for every number (a
`uint8` may lie past the last level). `Achieved` says of a class what `Label` says of it in words.

In `ProofReceipt`, `file` is the receipt file: absent, empty, a text that does not parse, or one that
reads as a receipt. `writer[w]` is the receipt a call of `WriteFile` is about to write.
`WriteFileOpen` truncates, `WriteFileDone` writes the whole text, `WriteFileFailed` breaks off. `under`
are the texts whose end may show behind a shorter or broken-off text: what the file read as, or, while
it does not parse, everything it was put together from, splices included. If the mixture happens to
parse, the receipt has its first fields from one text and its last from the other (`Splice`, cut between any
two fields, in the order of the JSON text), and the next broken-off write may lie over that (`breaks` counts
them since the last whole text). A cut
within a value counts as a cut beside it, or as a text that does not parse; lengths are not
modelled, so both a clean and a garbled outcome are possible whenever texts lie over each other.
Receipts are filled by `Convert` as the converters of the sibling package do, from what the artifact
has reached, which only grows. The file may also start with a receipt somebody else wrote, right or
wrong (`Received`). All receipts a file gets from the writers have one subject type (`Kind`), intents
or evidence: for the other two types the code has no artifact id to compare.

### Presentation

`sent` are the presentations the holder has signed, each with the challenge it was signed for;
`verdict` is what a verifier said of a copy last. `Copies` are what may arrive: the presentation
as it was, after a way through JSON, with members of the status entry lost, with a part of another
presentation in place of its own, or with one member changed. Copies may arrive in any order and any
number of times. `SigningContent` is the code's; holder (`Present`) and verifier (`Verifies`) call it and
sign or compare. Its error return of `json.Marshal` is left out: what is in the model came from JSON, and
marshals. The challenge may be in the proof or only be passed to `SigningContent`. A signature is a record of key and content that nobody else can make. A number of a
credential's claims goes through `Float64` when it is read, as in PortablePackage. The members of the
proof configuration that nothing here tells apart are one member, `rest`.

## 3. The runs

| run | properties | bounds | distinct states |
|---|---|---|---|
| `chain` | type; built chains frozen, verify, raise no false alarm, nest; rearranged copies rejected; refines `EvidenceLog` | two builders with 4 and 1 links, one verifier, 2 chains | 80 000 |
| `bundle` | type; drift visible; verdict of the sealed chain; candidate stays; failed `Finalize` keeps the seal; anchor never regresses | one bundle, 2 levels, 3 identities, 1 section (with floats), 2 state roots, 1 chain hash, 1 candidate | 545 000 |
| `merkle` | type; proofs verify; bind their link; index leads to content; root tells links | 6 links over 2 contents | 82 000 |
| `portable` | type; careful exports accepted; torn exports refused; accepted as built | 2 outcomes, 1 plan, decision, profile; 3 anchorings | 190 000 |
| `portable_transport` | violation: `SurvivesTransport` | as above | |
| `portable_anchor` | violation: `AnchorProofMatches` | as above | |
| `telemetry` | type; stored events valid and redacted; consent respected; config is the last choice; damage local; milestones stay; an opt-out takes effect (liveness) | 2 processes, 4 events, 2 instants, 3 writes | 338 000 |
| `telemetry_opt_out` | violation: `OptOutHolds` | 1 event | |
| `telemetry_sensitive` | violation: `SensitiveNeverStored` | 2 events | |
| `receipt` | type; billed as achieved; accepted is true; undisturbed is read; shown is backed; an empty file is temporary (liveness) | 3 writers, 2 intents, levels L0, L3, L4; 5 800 receipts from elsewhere | 210 000 |
| `presentation` | type; accepted as signed; shows the demand; honest is accepted; status as issued | 2 challenges, 2 domains, 3 credentials, 2 presentations | 110 000 |
| `presentation_bare` | violation: `BareProofSatisfiesNobody` | as above | |

Why the bounds are enough. *chain*: with 4 links a builder reallocates at 1, 2 and 3 and writes the
fourth in place, so a chain built at 3 shares its array with a later write; the second builder's
array lies in the same heap. *bundle*: bundles do not share state, so one is enough; the one
section, which may hold a NaN, stands for the six. Two of the three identities join to the same text, the third
does not, and the chain hash and the candidate occur as state roots too, so both exceptions of `Alike`
happen. *merkle*: 5 and 6 leaves reach depth 3 with padding; links repeat, and one content is the digest of the
other twice, so chains of different depths share a root. *portable*: every field takes its regular
value and each unusual one, the bundle changes at most once between the exporter's two reads, one
field is replaced. *telemetry*: two processes are what an overlap needs; three writes are what a
torn write between two whole ones needs; with two instants an event can be stamped before one that
is already in the file. *receipt*: three writers are what it takes to
break off over a splice, two intents what it takes to tell receipts apart; of the levels L0, L3 and L4 stand for
no claim, a positive one and settlement (the theorems `Billed` and `AcceptedTrue` cover every level); the receipts from
elsewhere take every combination of the values the rules tell apart. *presentation*: two challenges
and two presentations are what a replay and a mix need; the credentials have a status entry of each
spelling and a number that is, and one that is not, a float64. All bounds are constants or named in comments; none of the
passing runs turns off the deadlock check.

The runs that expect a violation show where the code departs from its own comments:

* A package built with an empty, non-nil slice is refused after one trip through JSON
  (`portable.go:473`, against `portable.go:33-34`): a nil slice is the only form that survives.
* The block of the anchor proof is never compared (`portable.go:358`, against `portable.go:285-288`).
* A `Record` may write although the user had opted out, when a save has truncated `config.json`
  (`local_store.go:156`, against `recorder.go:16-17`). `ConsentRespected` in the run `telemetry`
  says what does hold: if no save is under way or was broken off, an opted-out user's choice is
  respected by every `Record` that starts then.
* `Record` never asks `SensitiveField` (`recorder.go:92`, against `event.go:97-98`).
* A proof that carries no challenge is accepted by a verifier that demands one, if the holder passed that
  challenge to `SigningContent` (`presentation_signing.go:112`, against `presentation_signing.go:101-102`). The
  signature covers the demand all the same (`AcceptedAsSigned`).

More was seen and has no run of its own: two writes of a receipt file that break off, one over the other, can
leave a receipt with the id and artifact of one receipt and the claims between them of another, which `Validate`
accepts (`receipt.go:135`; `AcceptedIsTrue` covers at most one such write); a `SaveConfig` that breaks off leaves a
text that counts as opted in, whatever was chosen before (`local_store.go:156`; `ConfigIsLastChoice` covers the
saves that wrote all, and the caller sees the error of the others); a last line left without its newline is read
until the next write spoils it, and the summary takes back what it had shown of it (`local_store.go:118`;
`MilestonesStay` leaves that write out); a second `Finalize` of an anchored bundle puts `State` back to created and
keeps the anchor status (`bundle.go:491`, whose comment calls the two independent); the verifier does not ask for plugin versions of full or anchored
bundles (`portable.go:408-416`, against `portable.go:88-89`); the summary measures from the first event of
the file, not the earliest (`summary.go:72`, against `summary.go:25`); and the setup failure rate
counts failures of any event over commands only, so it can exceed one (`summary.go:148`, against
`summary.go:60`), as can the rate of kermit timeouts, whose numerator counts every mode
(`summary.go:157`).

**Fairness.** The library has no loop that waits; what it promises of the future is that a call that was
started ends. `FairSpec` of `TelemetryStore` has weak fairness for the steps of a `Record` under way,
`FairSpec` of `ProofReceipt` for the end of a `WriteFile`: these are straight-line code after the
call, so the operating system's scheduling of a runnable process justifies it, and a killed process has
ended too. Nothing says that anybody starts a call. Under it `OptOutTakesEffect` says that after a
lasting opt-out the calls that were past the check run out, and `EmptyIsTemporary` that a truncated
receipt file gets a receipt unless a write overlaps or breaks off. All other properties are invariants
or action properties and hold without fairness.

## 4. What is proved

Every invariant and every action property that a run checks, and the refinement of `EvidenceLog`, is a
theorem here, for all values of the constants that satisfy the stated assumptions. Only the two
liveness properties are left to TLC.

### EvidenceChain

`EvidenceChain_proofs` proves, for any sets of builders, verifiers, contents and types and any
bounds, `ChainsFrozen`, `ChainsVerify`, `TypeCorrect`, `NoFalseAlarms`, `OneStory`, `OrderIsTold`, and
`ImplementsLog`, the refinement of `EvidenceLog`. The only assumption is `BoundsAssumption`: the
bounds are natural numbers.

None of these properties is inductive. The strengthening has three layers, each used by the next.

1. `Isolation`: every slice lies within an allocated array with all its elements written; no two
   builders own one array; and a chain that shares an array with a builder ends no later than that
   builder's slice (`Behind`). The single write of `AddLink` falls behind the end of its builder's
   slice, so it is outside every chain (`AppendIsolated`). This gives `ChainsFrozen`.
2. `Sound`: what each builder holds is well linked, and each chain's hash is that of its links. It
   is kept because the new link refers to the last one (`AppendVerifies`) and because links of
   chains do not change (layer 1). This gives `ChainsVerify`.
3. `Readers`: a verifier that is on its way is about an existing chain, has compared what it says
   it has and has written to its digest the content hashes of a prefix of the links. Because the
   links stay, what it read at different moments fits together. This gives `NoFalseAlarms` and
   `TypeCorrect`.

The refinement maps each builder's slice to its log and each chain to its sealed copy: `AddLink` is
`Record`, `Build` is `Seal`, the verifier's steps stutter.

`OneStory` (`ChainsNest`) and `OrderIsTold` (`RearrangedCopyRejected`) need one invariant more. `Nested`
lies on top of `Isolation`: each chain is a beginning of its builder's links, each earlier chain a
beginning of each later one of the same builder, and those links are numbered without a gap.
`OrderIsTold` follows from `Sound`, because `Sum256` of a sequence tells the sequence.

### Induction

The provers are first-order, and the library's induction rules take an operator. `Induction`
therefore states induction for sets: `InductionUpTo` and `InductionOnNat` follow from `WFMin` and the
well-foundedness of `<` (`NatLessThanWellFounded`), and are cited with the set of the numbers that have a property. From them
it proves that a function defined by recursion over the naturals exists and is the only one
(`Recursion`, `BoundedRecursion`, `BeginningsAgree`). A definition `f[n \in S] == ...` is a `CHOOSE`, so only
this makes its equations available; each proof module first derives the equations of its own recursive
functions, and then argues by induction with them.

### EvidenceBundle

`EvidenceBundle_proofs` proves all six properties of the run, for any bundles, identities, sections,
contents and digests. `DriftVisible` needs that what is written to the hash tells the content as far as
`Alike` says (`WrittenTells`), and no further (`AlikeIsWritten`). The level is the first symbol that is no
character, so it ends the identifiers, and the first section ends the hashes before it (`SplitTells`); the
sections are found among the elements as a set of pairs (`SectionsTold`, `PairsTellSections`); without
any section the hashes run together, and how many there are decides which fields they are (`HashesAre`,
`CandidateTold`). This is where `HashesAssumption` is used. `CandidateHolds` follows from
the same and from the guard of `Finalize`.

The inductive invariant `SealInv` has the record shape of a bundle, that a sealed bundle's hash is
that of the content in its history, that this content marshals, that the verdict is the sealed one, and that a content sealed at level anchored
has a candidate. The steps fall into four kinds by what they write (`StepCases`): writing the
content, moving the status, a failing `Finalize`, `Seal`. Only the last writes hash, verdict and
history, and it does so from one content. The ranks of the workflow's three statuses are the
only arithmetic.

### MerkleTree

`MerkleTree_proofs` proves five theorems about the functions, for chains of any length and any
index: every generated proof verifies, binds its leaf, is led by no index to another content, two chains share
a root exactly if `SameLeaves` says so, and chains without contents of two digests exactly if padding makes
them equal. The five properties of the run follow with an invariant that
says where the proof came from (`Inv`, `Generated`). The argument climbs the tree.

1. The sizes double (`SizeIs`), and a chain of n leaves has the depth that its size first reaches n
   (`DepthIs`, `ChainDepth`).
2. A pass that overwrites cell i reads cells 2i - 1 and 2i, neither of which it has overwritten yet
   unless it is done with them (`HalvedIs`). So the first cells of the array after each pass are the next level
   of the tree that `buildMerkleProof` builds afresh (`PassesAre`), and the root is its top (`RootIs`).
3. On the way up, what the verifier has computed is the node at its position
   (`PathClimbs`): the parity of the position says on which side the sibling stands, and both have one
   parent (`ParentIs`). At the top this is `EveryProofVerifies`.
4. On the way down, equal nodes have equal children, for `Sum256` is a constructor. A changed leaf
   changes every node above it (`EveryProofBinds`); an index that verifies goes through nodes that equal
   the path's (`PathDescends`), so its leaf has the same content.
5. Of two trees with one root the shallower has its leaves at a level of the other: down from the root,
   level by level, equal nodes are made of equal pairs (`NodeTells`, `RootTellsLevel`), and the other way round
   equal levels give equal roots (`LevelTellsRoot`). Nothing is assumed of the contents (`RootTellsChain`). If no
   content is two digests, no leaf is a node (`PlainLeafIsNoNode`), so the depths are equal too
   (`RootTellsPlainChain`).

### PortablePackage

`PortablePackage_proofs` proves the type invariant, `AcceptedAsBuilt`, `TornExportRefused` and
`CarefulExportAccepted` for any plans, outcomes, decisions, profiles, anchorings and instants and any spacing of floats. What
carries them is `HashInv`: whatever replaces a field or carries the package, its export hash stays
that of the inputs of its build, and as long as nothing was replaced the package is the build's result
up to slices that JSON made nil. `BundleInv` says that an anchored bundle has a transaction and a block, `BuiltInv` that only a build makes a
package and nothing takes one away. The
assumptions are facts about values the code cannot see: blocks are not 0 and transactions not empty
(`NumbersAssumption`, `AnchoringsAssumption`), and the zero hash is no outcome (`ZeroAssumption`). That it is no digest either is not assumed: `Zero` and
`Sum256` are different constructors.

### TelemetryStore and OnboardingSummary

`TelemetryStore_proofs` proves the type invariant, `StoredValidAndRedacted`, `ConsentRespected`,
`ConfigIsLastChoice` and `DamageIsLocal`, for any number of processes. The parts do not depend
on each other: an event is good from `RecordStart` on and never changes (`GoodEvents`); a process that was
promised quiet sees the opt-out, since every save takes the promise back (`QuietInv`); and a save that writes
all of its choice makes file and choice agree, whatever lay in the file, while every other save unsettles the
choice (`ConfigIsLastChoice` is inductive itself). The events are assumed to
be records of the fields `Event` lists (`EventsAssumption`), the instants positive
(`BoundsAssumption`).

`MilestonesRemain` states `MilestonesStay`, for files of any length. A write that does not land on an event
left without its newline, in a file without a line too long, changes nothing of what could be read before
(`ReadMore`), so the events read are the same as before or one more (`EventsAtMore`). With one event more, `Summarize`
is one round more, counted from the same first event (`OneMore`), or the first round of all. One
round keeps the summary typed, with each of the two numerators at most its denominator
(`Summaries`), and takes back no milestone (`AddEventIs`, `GrowsTo`).

### ProofReceipt

`ProofReceipt_proofs` proves `ClassForMonotone`, the claim of the comment of `ClassFor`, for
all values of the integer types, and about the specification the type invariant,
`BilledAsAchieved`, `AcceptedIsTrue`, `ShownIsBacked` and `UndisturbedIsRead`, for all writers, artifacts and levels.
`TrueInv` says that every receipt on its way to the file or in it is `Backed` by the
artifact it names. It stays so because artifacts only get on (`ClaimsStay`). As long as at most one write broke off over other texts, the file
reads as one of these receipts or as a splice of two (`Pieced`, `LiesIn`); `Validate` refuses a splice of two artifacts, and of
a splice of two receipts of one artifact each claim was made by one of them. `QuietInv` adds that undisturbed, at most one
write is under way, over an empty file. Assumed are the subject type (`KindAssumption`), valid levels
(`LevelsAssumption`), identifiers that are not blank (`IdsAssumption`) and that a received receipt has every
field (`ReceivedAssumption`).

### Presentation

`Presentation_proofs` proves the type invariant, `AcceptedAsSigned`, `ShowsTheDemand`,
`HonestIsAccepted` (of a presentation whose proof carries the demanded challenge itself) and `StatusAsIssued`, for all challenges, domains and claims and any number of presentations
and copies. `BindingInv` says that every presentation sent is signed for its challenge and that the
copy a verdict is about carries a sent signature or none, and an issuer's. The
rest is about the content: from its two digests the members of the proof configuration, the
demanded challenge among them, and the body can be told (`MembersTell`, `SignedTells`). Assumed are that
no challenge is empty (`ChallengesAssumption`), claims are natural numbers, floats have a spacing
(`SpacingAssumption`), a written index is not the empty text (`DecimalsAssumption`) and every status entry has the
same members (`ClaimsAssumption`).

### What stays with TLC

Liveness: `OptOutTakesEffect` and `EmptyIsTemporary` hold under weak fairness, whose proof needs
`ENABLED`, and that is beyond these provers. They are checked on the small instances of section 3.

## 5. What is not modelled

* Layout: the HTML receipt of `render.go`, the wrapping and columns of its text and
  `Summary.Render`. What a receipt's text claims is modelled.
* The intent vocabulary (`intent/types.go`): constants and structs without behaviour.
* `multikey.go`: base58 arithmetic on byte strings, pinned by test vectors; nothing in it
  depends on state or order.
* The wording of errors, and failures to find or to create a directory (`DefaultDir`,
  `ensureDir`): such a call returns before it touches a file.
* Key order and escapes of `CanonicalJSON`, which are part of the idealised hash; what it does to numbers
  is modelled.

## 6. The plan

Done: every module of section 2, their runs and the proofs of section 4. Left, in this order:

1. The composition of `EvidenceBundle`, `MerkleTree` and `PortablePackage` through one export, with the
   bundle's level, so that what the comment of `PluginVersions` says of full and anchored bundles
   (`portable.go:411`) can be stated.
2. Theorems about the operators that no run checks: `suggestNextStep` and `rate` for all summaries, and
   that `Validate` of a receipt implies what `ClaimsL4` claims for every record.
