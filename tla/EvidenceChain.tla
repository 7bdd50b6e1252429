--------------------------- MODULE EvidenceChain ---------------------------
(***************************************************************************)
(* The evidence chain of evidence/chain.go: builders that append           *)
(* hash-linked evidence links, the chains they build, and the verifier     *)
(* VerifyChainIntegrity.                                                   *)
(*                                                                         *)
(* A Go slice is a header over a backing array.  Build copies the header   *)
(* (Links: b.links), so a built chain and its builder share one array and  *)
(* later AddLink calls write into it while other code reads the chain.     *)
(* The module therefore keeps the arrays (heap) and the headers apart, and *)
(* a verifier reads one link per step, interleaved with everything else.   *)
(*                                                                         *)
(* SHA-256 is idealised as a constructor (Sum256), so distinct inputs have *)
(* distinct digests.  Timestamps, artifact references, the state root and  *)
(* the anchor fields are left out: no code of the file reads them back.    *)
(***************************************************************************)
EXTENDS Naturals, Sequences

CONSTANTS Builders,     \* evidence builders (one per executing intent)
          Verifiers,    \* goroutines that run VerifyChainIntegrity
          LinkTypes,    \* types callers pass to AddLink and AddJSON
          RecordTypes,  \* types the typed Add... methods pass to AddJSON
          Contents,     \* byte strings callers add, or values that marshal
          Opaque,       \* values json.Marshal refuses (channels, NaN, ...)
          EmptyObject,  \* the two bytes {}
          MaxLinks,     \* bound: builder -> links it records
          MaxChains     \* bound: chains built

ASSUME BoundsAssumption == MaxLinks \in [Builders -> Nat] /\ MaxChains \in Nat

VARIABLES heap,      \* the backing arrays allocated so far
          slice,     \* builder -> b.links, a header over an array of heap
          seq,       \* builder -> b.seq
          chains,    \* the chains Build has returned
          verifier   \* verifier -> the state of its VerifyChainIntegrity call

vars == <<heap, slice, seq, chains, verifier>>

-----------------------------------------------------------------------------
(* Digests and JSON *)

Sum256(bytes) == <<bytes>>
ZeroHash == <<>>

(* Slip: the error of json.Marshal ignored. *)
JSONUnchecked(value) == value

(* A value that does not marshal is recorded as the empty object. *)
JSON(value) == IF value \in Opaque THEN EmptyObject ELSE value

Types == LinkTypes \cup RecordTypes
ContentHashes == {Sum256(c) : c \in Contents \cup {EmptyObject}}

Link == [sequence : Nat \ {0}, type : Types, contentHash : ContentHashes,
         prevHash : ContentHashes \cup {ZeroHash}]

Unused == [sequence |-> 0]   \* an element of a backing array never written

-----------------------------------------------------------------------------
(* Slices *)

Slice == [arr : Nat, len : Nat]     \* arr = 0: the nil slice
NilSlice == [arr |-> 0, len |-> 0]

Cap(s) == IF s.arr = 0 THEN 0 ELSE Len(heap[s.arr])

(* A link takes 128 bytes, a size class of the allocator for every         *)
(* doubling, so append grows the capacity as 1, 2, 4, 8, ...               *)
GrowCap(c) == IF c = 0 THEN 1 ELSE 2 * c

Elems(s) == [i \in 1..s.len |-> heap[s.arr][i]]

(* The array append allocates when s is full: a copy, the link, free room. *)
Grown(s, link) == [i \in 1..GrowCap(Cap(s)) |->
                     IF i <= s.len THEN heap[s.arr][i]
                     ELSE IF i = s.len + 1 THEN link ELSE Unused]

(* Slip: the in-place branch of append writes over the last element. *)
AppendOverLast(b, link) ==
  LET s == slice[b] IN
  \/ /\ s.len < Cap(s)
     /\ heap' = [heap EXCEPT ![s.arr] = [@ EXCEPT ![s.len] = link]]
     /\ UNCHANGED slice
  \/ /\ s.len >= Cap(s)
     /\ heap' = Append(heap, Grown(s, link))
     /\ slice' = [slice EXCEPT ![b] = [arr |-> Len(heap) + 1, len |-> s.len + 1]]

AppendTo(b, link) ==
  LET s == slice[b] IN
  \/ /\ s.len < Cap(s)
     /\ heap' = [heap EXCEPT ![s.arr] = [@ EXCEPT ![s.len + 1] = link]]
     /\ slice' = [slice EXCEPT ![b] = [arr |-> s.arr, len |-> s.len + 1]]
  \/ /\ s.len >= Cap(s)
     /\ heap' = Append(heap, Grown(s, link))
     /\ slice' = [slice EXCEPT ![b] = [arr |-> Len(heap) + 1, len |-> s.len + 1]]

-----------------------------------------------------------------------------
(* Builders *)

(* Slip: the link before the last one is referenced. *)
PrevHashOffByOne(s) ==
  IF s.len > 1 THEN heap[s.arr][s.len - 1].contentHash ELSE ZeroHash

PrevHash(s) == IF s.len > 0 THEN heap[s.arr][s.len].contentHash ELSE ZeroHash

AddLink(b, type, content) ==
  /\ seq[b] < MaxLinks[b]
  /\ AppendTo(b, [sequence |-> seq[b] + 1, type |-> type,
                  contentHash |-> Sum256(content),
                  prevHash |-> PrevHash(slice[b])])
  /\ seq' = [seq EXCEPT ![b] = @ + 1]
  /\ UNCHANGED <<chains, verifier>>

AddJSON(b, type, value) == AddLink(b, type, JSON(value))

(* AddGhostEvidence, AddSoDViolation, AddRoleState, ...: a fixed link type *)
(* and a record built from the arguments, handed to AddJSON.               *)
AddRecord(b, value) == \E type \in RecordTypes : AddJSON(b, type, value)

ContentHashesOf(links) == [i \in 1..Len(links) |-> links[i].contentHash]
ChainHash(links) == Sum256(ContentHashesOf(links))

(* Slip: the builder is made ready for reuse, keeping its array ... *)
BuildTruncating(b) ==
  /\ Len(chains) < MaxChains
  /\ chains' = Append(chains, [intent |-> b, slice |-> slice[b],
                               chainHash |-> ChainHash(Elems(slice[b]))])
  /\ slice' = [slice EXCEPT ![b].len = 0]
  /\ UNCHANGED <<heap, seq, verifier>>

(* ... or dropping it. *)
BuildResetting(b) ==
  /\ Len(chains) < MaxChains
  /\ chains' = Append(chains, [intent |-> b, slice |-> slice[b],
                               chainHash |-> ChainHash(Elems(slice[b]))])
  /\ slice' = [slice EXCEPT ![b] = NilSlice]
  /\ UNCHANGED <<heap, seq, verifier>>

Build(b) ==
  /\ Len(chains) < MaxChains
  /\ chains' = Append(chains, [intent |-> b, slice |-> slice[b],
                               chainHash |-> ChainHash(Elems(slice[b]))])
  /\ UNCHANGED <<heap, slice, seq, verifier>>

-----------------------------------------------------------------------------
(* VerifyChainIntegrity, as one function of the links and the chain hash   *)

GenesisOK(links) == links[1].prevHash = ZeroHash
LinkOK(links, i) == links[i].prevHash = links[i - 1].contentHash

(* Slip: the chain hash is not recomputed. *)
VerifyLinksOnly(links, chainHash) ==
  links # <<>> => GenesisOK(links) /\ \A i \in 2..Len(links) : LinkOK(links, i)

VerifyChainIntegrity(links, chainHash) ==
  \/ links = <<>>
  \/ /\ GenesisOK(links)
     /\ \A i \in 2..Len(links) : LinkOK(links, i)
     /\ chainHash = ChainHash(links)

(* ... and as the code runs it: one link read from the heap per step.      *)
(* Phase "links" compares neighbours, "hash" feeds the digest, "nil" and   *)
(* "error" are the two results.                                            *)

Idle == [phase |-> "idle", chain |-> 0, i |-> 0, written |-> <<>>]

Goto(v, phase, chain, i, written) ==
  verifier' = [verifier EXCEPT ![v] =
                 [phase |-> phase, chain |-> chain, i |-> i, written |-> written]]

VerifyStart(v, c) ==
  /\ verifier[v].phase \notin {"links", "hash"}
  /\ LET links == Elems(chains[c].slice) IN
     \/ links = <<>> /\ Goto(v, "nil", c, 2, <<>>)
     \/ links # <<>> /\ GenesisOK(links) /\ Goto(v, "links", c, 2, <<>>)
     \/ links # <<>> /\ ~GenesisOK(links) /\ Goto(v, "error", c, 2, <<>>)
  /\ UNCHANGED <<heap, slice, seq, chains>>

VerifyLink(v) ==
  LET r == verifier[v]  links == Elems(chains[r.chain].slice) IN
  /\ r.phase = "links"
  /\ \/ r.i <= Len(links) /\ LinkOK(links, r.i) /\ Goto(v, "links", r.chain, r.i + 1, <<>>)
     \/ r.i <= Len(links) /\ ~LinkOK(links, r.i) /\ Goto(v, "error", r.chain, r.i, <<>>)
     \/ r.i > Len(links) /\ Goto(v, "hash", r.chain, 1, <<>>)
  /\ UNCHANGED <<heap, slice, seq, chains>>

VerifyHash(v) ==
  LET r == verifier[v]  links == Elems(chains[r.chain].slice) IN
  /\ r.phase = "hash"
  /\ \/ /\ r.i <= Len(links)
        /\ Goto(v, "hash", r.chain, r.i + 1, Append(r.written, links[r.i].contentHash))
     \/ /\ r.i > Len(links)
        /\ Goto(v, IF chains[r.chain].chainHash = Sum256(r.written) THEN "nil" ELSE "error",
                r.chain, r.i, r.written)
  /\ UNCHANGED <<heap, slice, seq, chains>>

-----------------------------------------------------------------------------

Init == /\ heap = <<>>
        /\ slice = [b \in Builders |-> NilSlice]
        /\ seq = [b \in Builders |-> 0]
        /\ chains = <<>>
        /\ verifier = [v \in Verifiers |-> Idle]

BuilderStep(b) ==
  \/ \E type \in LinkTypes, content \in Contents : AddLink(b, type, content)
  \/ \E type \in LinkTypes, value \in Contents \cup Opaque : AddJSON(b, type, value)
  \/ \E value \in Contents \cup Opaque : AddRecord(b, value)
  \/ Build(b)

VerifierStep(v) ==
  \/ \E c \in DOMAIN chains : VerifyStart(v, c)
  \/ VerifyLink(v)
  \/ VerifyHash(v)

Next == (\E b \in Builders : BuilderStep(b)) \/ (\E v \in Verifiers : VerifierStep(v))

Spec == Init /\ [][Next]_vars

-----------------------------------------------------------------------------
(* Properties *)

ChainLinks(c) == Elems(chains[c].slice)

(* Every variable has its type: an element of a slice is a link whose       *)
(* digests come from what callers may add, or the empty object, and a       *)
(* verifier that started works on a chain that exists.                      *)
TypeOK ==
  /\ heap \in Seq(Seq(Link \cup {Unused}))
  /\ slice \in [Builders -> Slice]
  /\ seq \in [Builders -> Nat]
  /\ \A c \in DOMAIN chains :
       /\ chains[c].intent \in Builders
       /\ chains[c].slice \in Slice
  /\ verifier \in [Verifiers -> [phase : {"idle", "links", "hash", "nil", "error"},
                                chain : Nat, i : Nat, written : Seq(ContentHashes)]]
  /\ \A v \in Verifiers : verifier[v].phase # "idle" => verifier[v].chain \in DOMAIN chains

(* Build returns a snapshot: whatever its builder adds later, in place or   *)
(* after a reallocation, the links a caller reads through a chain that was  *)
(* already built are the ones it had (chain.go Build, Links: b.links).      *)
BuiltChainsFrozen ==
  [][\A c \in DOMAIN chains : ChainLinks(c)' = ChainLinks(c)]_vars

(* At any later moment the code's own verifier accepts every chain that     *)
(* Build returned: its links, read from the shared array as it is now,      *)
(* still match each other and the ChainHash computed when it was built.     *)
BuiltChainsVerify ==
  \A c \in DOMAIN chains : VerifyChainIntegrity(ChainLinks(c), chains[c].chainHash)

(* VerifyChainIntegrity never reports an error for a chain of this package, *)
(* even when its builder keeps appending between two reads of the verifier. *)
NoFalseAlarm == \A v \in Verifiers : verifier[v].phase # "error"

(* Two chains built from one builder tell one story: the earlier one is the *)
(* beginning of the later one, numbered from 1 without a gap, and           *)
(* no entry of the builder's log is missing from the slice it holds.        *)
ChainsNest ==
  /\ \A c, d \in DOMAIN chains :
       c < d /\ chains[c].intent = chains[d].intent =>
         /\ Len(ChainLinks(c)) <= Len(ChainLinks(d))
         /\ \A i \in 1..Len(ChainLinks(c)) : ChainLinks(c)[i] = ChainLinks(d)[i]
  /\ \A b \in Builders :
       /\ slice[b].len = seq[b]
       /\ \A i \in 1..slice[b].len : Elems(slice[b])[i].sequence = i

(* What VerifyChainIntegrity guarantees about a copy of a built chain whose *)
(* links were dropped, repeated or reordered on the way: unless the copy is *)
(* empty, it is accepted only if the sequence of content hashes is intact.  *)
RearrangedCopyRejected ==
  \A c \in DOMAIN chains :
    LET links == ChainLinks(c) IN
    \A m \in 1..Len(links) + 1 : \A pick \in [1..m -> DOMAIN links] :
      LET copy == [i \in 1..m |-> links[pick[i]]] IN
      VerifyChainIntegrity(copy, chains[c].chainHash) =>
        ContentHashesOf(copy) = ContentHashesOf(links)

-----------------------------------------------------------------------------
(* The abstract log.  b.links is what Links() returns for inspection.       *)

Links(b) == Elems(slice[b])
Entry(link) == [type |-> link.type, digest |-> link.contentHash]
EntriesOf(links) == [i \in 1..Len(links) |-> Entry(links[i])]
LogOf == [b \in Builders |-> EntriesOf(Links(b))]
SealedOf == [c \in 1..Len(chains) |->
               [builder |-> chains[c].intent, entries |-> EntriesOf(ChainLinks(c))]]

Log == INSTANCE EvidenceLog WITH
         Entries <- [type : Types, digest : ContentHashes],
         log <- LogOf, sealed <- SealedOf

(* The slices, arrays and headers of chain.go implement append-only logs    *)
(* and immutable copies: no step of a builder or a verifier changes, loses  *)
(* or reorders an entry, and a chain holds exactly what was recorded when   *)
(* it was built.                                                            *)
LogSpec == Log!Spec
=============================================================================
