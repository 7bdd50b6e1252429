----------------------- MODULE EvidenceChain_proofs -----------------------
(***************************************************************************)
(* Proofs about EvidenceChain for every set of builders, verifiers, types  *)
(* and contents.                                                           *)
(*                                                                         *)
(* The argument: no two builders own the same array, and a built chain     *)
(* that shares an array with a builder ends no later than the builder's    *)
(* own slice.  So the one write AddLink does, behind the end of that       *)
(* slice, is outside every chain (AppendIsolated), and what a chain        *)
(* satisfied when it was built it satisfies for ever.                      *)
(***************************************************************************)
EXTENDS EvidenceChain, TLAPS, SequenceTheorems

Cell == Link \cup {Unused}

(* A slice that lies within an allocated array, all its elements written. *)
Fits(s) ==
  /\ s \in Slice
  /\ s.arr \in 0..Len(heap)
  /\ s.arr = 0 => s.len = 0
  /\ s.arr # 0 => s.len <= Len(heap[s.arr])
  /\ \A i \in 1..s.len : heap[s.arr][i] \in Link

(* The slices of a builder and of a chain that share an array: the chain's *)
(* is the shorter one.                                                     *)
Behind(s, t) == s.arr = t.arr /\ t.arr # 0 => s.len <= t.len

BuildersOK == /\ heap \in Seq(Seq(Cell))
              /\ slice \in [Builders -> Slice]
              /\ seq \in [Builders -> Nat]
              /\ \A b \in Builders : Fits(slice[b])
              /\ \A b, d \in Builders : slice[b].arr = slice[d].arr /\ slice[b].arr # 0 => b = d

Chain == [intent : Builders, slice : Slice, chainHash : {Sum256(h) : h \in Seq(ContentHashes)}]

ChainsOK == /\ chains \in Seq(Chain)
            /\ \A c \in DOMAIN chains : Fits(chains[c].slice)
            /\ \A c \in DOMAIN chains, b \in Builders : Behind(chains[c].slice, slice[b])

(* The inductive invariant behind the isolation of built chains. *)
Isolation == BuildersOK /\ ChainsOK

-----------------------------------------------------------------------------
(* Typing of what the builders record.                                     *)

LEMMA LinkTyping ==
  ASSUME BuildersOK, NEW b \in Builders, NEW type \in Types,
         NEW content \in Contents \cup {EmptyObject}
  PROVE  [sequence |-> seq[b] + 1, type |-> type, contentHash |-> Sum256(content),
          prevHash |-> PrevHash(slice[b])] \in Link
<1>1. PrevHash(slice[b]) \in ContentHashes \cup {ZeroHash}
  BY DEF PrevHash, BuildersOK, Fits, Slice, Link
<1>2. Sum256(content) \in ContentHashes
  BY DEF ContentHashes
<1>3. seq[b] + 1 \in Nat \ {0}
  BY DEF BuildersOK
<1> QED BY <1>1, <1>2, <1>3 DEF Link

LEMMA JSONTyping ==
  ASSUME NEW value \in Contents \cup Opaque
  PROVE  JSON(value) \in Contents \cup {EmptyObject}
BY DEF JSON

(* A step of AddLink, AddJSON or AddRecord is AddLink with a typed content. *)
LEMMA BuilderStepCases ==
  ASSUME NEW b \in Builders, BuilderStep(b)
  PROVE  \/ \E type \in Types, content \in Contents \cup {EmptyObject} :
              AddLink(b, type, content)
         \/ Build(b)
<1>1. CASE \E type \in LinkTypes, content \in Contents : AddLink(b, type, content)
  BY <1>1 DEF Types
<1>2. CASE \E type \in LinkTypes, value \in Contents \cup Opaque : AddJSON(b, type, value)
  BY <1>2, JSONTyping DEF AddJSON, Types
<1>3. CASE \E value \in Contents \cup Opaque : AddRecord(b, value)
  BY <1>3, JSONTyping DEF AddRecord, AddJSON, Types
<1> QED BY <1>1, <1>2, <1>3 DEF BuilderStep

-----------------------------------------------------------------------------
(* append *)

LEMMA GrownTyping ==
  ASSUME BuildersOK, NEW b \in Builders, NEW link \in Link,
         slice[b].len >= Cap(slice[b])
  PROVE  /\ Grown(slice[b], link) \in Seq(Cell)
         /\ Len(Grown(slice[b], link)) >= slice[b].len + 1
         /\ \A i \in 1..slice[b].len : Grown(slice[b], link)[i] = heap[slice[b].arr][i]
         /\ Grown(slice[b], link)[slice[b].len + 1] = link
<1> DEFINE s == slice[b]
           g == GrowCap(Cap(s))
<1>1. s \in Slice /\ Fits(s)
  BY DEF BuildersOK
<1>2. Cap(s) \in Nat /\ s.len = Cap(s)
  BY <1>1, LenProperties DEF BuildersOK, Fits, Slice, Cap
<1>3. g \in Nat /\ g >= s.len + 1 /\ s.len \in Nat
  BY <1>1, <1>2 DEF GrowCap, Slice
<1>4. \A i \in 1..g : (IF i <= s.len THEN heap[s.arr][i]
                       ELSE IF i = s.len + 1 THEN link ELSE Unused) \in Cell
  BY <1>1, <1>3 DEF Fits, Cell
<1>5. Grown(s, link) \in [1..g -> Cell]
  BY <1>4 DEF Grown
<1>6. Grown(s, link) \in Seq(Cell) /\ Len(Grown(s, link)) = g
  BY <1>3, <1>5, IsASeq, LenProperties
<1>7. /\ \A i \in 1..s.len : Grown(s, link)[i] = heap[s.arr][i]
      /\ Grown(s, link)[s.len + 1] = link
  BY <1>3 DEF Grown
<1> QED BY <1>3, <1>6, <1>7

(* What append does to the two slices of interest: the builder's own grows *)
(* by the link, and every slice behind it keeps its place and its links.   *)
LEMMA AppendEffect ==
  ASSUME BuildersOK, NEW b \in Builders, NEW link \in Link, AppendTo(b, link)
  PROVE  /\ heap' \in Seq(Seq(Cell))
         /\ slice' \in [Builders -> Slice]
         /\ slice'[b].len = slice[b].len + 1
         /\ slice'[b].arr \in 1..Len(heap')
         /\ slice'[b].len <= Len(heap'[slice'[b].arr])
         /\ \A d \in Builders : d # b => slice'[d] = slice[d]
         /\ slice'[b].arr = slice[b].arr \/ slice'[b].arr = Len(heap) + 1
         /\ Len(heap') >= Len(heap)
         /\ \A a \in 1..Len(heap) : Len(heap'[a]) = Len(heap[a])
         /\ \A a \in 1..Len(heap), i \in Nat :
              a # slice[b].arr \/ i <= slice[b].len => heap'[a][i] = heap[a][i]
         /\ \A i \in 1..slice[b].len : heap'[slice'[b].arr][i] = heap[slice[b].arr][i]
         /\ heap'[slice'[b].arr][slice[b].len + 1] = link
<1> DEFINE s == slice[b]
<1>1. s \in Slice /\ Fits(s) /\ s.len \in Nat /\ s.arr \in 0..Len(heap) /\ Len(heap) \in Nat
  BY DEF BuildersOK, Fits, Slice
<1>2. link \in Cell
  BY DEF Cell
<1>3. CASE s.len < Cap(s) /\ heap' = [heap EXCEPT ![s.arr] = [@ EXCEPT ![s.len + 1] = link]]
           /\ slice' = [slice EXCEPT ![b] = [arr |-> s.arr, len |-> s.len + 1]]
  <2>1. s.arr \in 1..Len(heap) /\ Cap(s) = Len(heap[s.arr])
    BY <1>1, <1>3 DEF Cap
  <2>2. heap[s.arr] \in Seq(Cell) /\ s.len + 1 \in 1..Len(heap[s.arr])
    BY <1>1, <1>3, <2>1, ElementOfSeq DEF BuildersOK
  <2> DEFINE arr2 == [heap[s.arr] EXCEPT ![s.len + 1] = link]
  <2>3. arr2 \in Seq(Cell) /\ Len(arr2) = Len(heap[s.arr])
    BY <1>2, <2>2, ExceptSeq
  <2>4. /\ arr2[s.len + 1] = link
        /\ \A i \in Nat : i <= s.len => arr2[i] = heap[s.arr][i]
    BY <1>1, <2>2
  <2>5. heap' = [heap EXCEPT ![s.arr] = arr2]
    BY <1>3
  <2> HIDE DEF arr2
  <2>6. heap' \in Seq(Seq(Cell)) /\ Len(heap') = Len(heap)
    BY <2>1, <2>3, <2>5, ExceptSeq DEF BuildersOK
  <2>7. heap'[s.arr] = arr2 /\ \A a \in 1..Len(heap) : a # s.arr => heap'[a] = heap[a]
    BY <2>1, <2>5 DEF BuildersOK
  <2>8. slice'[b] = [arr |-> s.arr, len |-> s.len + 1] /\ slice' \in [Builders -> Slice]
        /\ \A d \in Builders : d # b => slice'[d] = slice[d]
    BY <1>1, <1>3 DEF BuildersOK, Slice
  <2>9. heap'[slice'[b].arr] = arr2 /\ slice'[b].len = s.len + 1 /\ slice'[b].arr = s.arr
    BY <2>7, <2>8
  <2>10. \A a \in 1..Len(heap) : Len(heap'[a]) = Len(heap[a])
    BY <2>3, <2>7
  <2>11. \A a \in 1..Len(heap), i \in Nat : a # s.arr \/ i <= s.len => heap'[a][i] = heap[a][i]
    BY <2>4, <2>7
  <2>12. slice'[b].arr \in 1..Len(heap') /\ slice'[b].len <= Len(heap'[slice'[b].arr])
    BY <2>1, <2>2, <2>3, <2>6, <2>9
  <2>13. /\ \A i \in 1..s.len : heap'[slice'[b].arr][i] = heap[s.arr][i]
         /\ heap'[slice'[b].arr][s.len + 1] = link
    BY <1>1, <2>4, <2>9
  <2> QED BY <1>1, <2>6, <2>8, <2>9, <2>10, <2>11, <2>12, <2>13
<1>4. CASE s.len >= Cap(s) /\ heap' = Append(heap, Grown(s, link))
           /\ slice' = [slice EXCEPT ![b] = [arr |-> Len(heap) + 1, len |-> s.len + 1]]
  <2> DEFINE arr2 == Grown(s, link)
  <2>1. /\ arr2 \in Seq(Cell)
        /\ Len(arr2) >= s.len + 1
        /\ \A i \in 1..s.len : arr2[i] = heap[s.arr][i]
        /\ arr2[s.len + 1] = link
    BY <1>4, GrownTyping
  <2>2. heap' = Append(heap, arr2)
    BY <1>4
  <2> HIDE DEF arr2
  <2>3. /\ heap' \in Seq(Seq(Cell))
        /\ Len(heap') = Len(heap) + 1
        /\ \A a \in 1..Len(heap) : heap'[a] = heap[a]
        /\ heap'[Len(heap) + 1] = arr2
    BY <2>1, <2>2, AppendProperties DEF BuildersOK
  <2>4. slice'[b] = [arr |-> Len(heap) + 1, len |-> s.len + 1] /\ slice' \in [Builders -> Slice]
        /\ \A d \in Builders : d # b => slice'[d] = slice[d]
    BY <1>1, <1>4 DEF BuildersOK, Slice
  <2>5. heap'[slice'[b].arr] = arr2 /\ slice'[b].len = s.len + 1 /\ slice'[b].arr = Len(heap) + 1
    BY <2>3, <2>4
  <2>6. \A a \in 1..Len(heap) : Len(heap'[a]) = Len(heap[a])
    BY <2>3
  <2>7. \A a \in 1..Len(heap), i \in Nat : heap'[a][i] = heap[a][i]
    BY <2>3
  <2>8. slice'[b].arr \in 1..Len(heap') /\ slice'[b].len <= Len(heap'[slice'[b].arr])
    BY <1>1, <2>1, <2>3, <2>5
  <2>9. /\ \A i \in 1..s.len : heap'[slice'[b].arr][i] = heap[s.arr][i]
        /\ heap'[slice'[b].arr][s.len + 1] = link
    BY <2>1, <2>5
  <2> QED BY <1>1, <2>3, <2>4, <2>5, <2>6, <2>7, <2>8, <2>9
<1> QED BY <1>3, <1>4 DEF AppendTo

(* The point of the module: the write of append is outside every slice     *)
(* that is not longer than the builder's own.                              *)
LEMMA AppendIsolated ==
  ASSUME BuildersOK, NEW b \in Builders, NEW link \in Link, AppendTo(b, link),
         NEW s \in Slice, Fits(s), Behind(s, slice[b])
  PROVE  /\ Elems(s)' = Elems(s)
         /\ s.arr \in 0..Len(heap')
         /\ s.arr # 0 => s.len <= Len(heap'[s.arr])
         /\ \A i \in 1..s.len : heap'[s.arr][i] \in Link
         /\ Behind(s, slice'[b])
<1>1. s.arr \in 0..Len(heap) /\ s.len \in Nat /\ Len(heap) \in Nat
  BY DEF Fits, Slice, BuildersOK
<1>2. \A i \in 1..s.len : heap'[s.arr][i] = heap[s.arr][i]
  <2> TAKE i \in 1..s.len
  <2>1. s.arr \in 1..Len(heap) /\ i \in Nat
    BY <1>1 DEF Fits
  <2>2. s.arr # slice[b].arr \/ i <= slice[b].len
    BY <1>1, <2>1 DEF Behind, BuildersOK, Slice
  <2> QED BY <2>1, <2>2, AppendEffect
<1>3. Elems(s)' = Elems(s)
  BY <1>2 DEF Elems
<1>4. Behind(s, slice'[b])
  BY <1>1, AppendEffect DEF Behind, BuildersOK, Slice
<1>5. /\ Len(heap') \in Nat /\ Len(heap') >= Len(heap)
      /\ \A a \in 1..Len(heap) : Len(heap'[a]) = Len(heap[a])
  BY AppendEffect
<1>6. s.arr \in 0..Len(heap')
  BY <1>1, <1>5
<1>7. s.arr # 0 => s.len <= Len(heap'[s.arr])
  BY <1>1, <1>5 DEF Fits
<1>8. \A i \in 1..s.len : heap'[s.arr][i] \in Link
  BY <1>2 DEF Fits
<1> QED BY <1>3, <1>4, <1>6, <1>7, <1>8

-----------------------------------------------------------------------------
(* Isolation is inductive.                                                 *)

LEMMA ElemsTyping ==
  ASSUME NEW s, Fits(s)
  PROVE  /\ Elems(s) \in Seq(Link)
         /\ Len(Elems(s)) = s.len
         /\ \A i \in 1..s.len : Elems(s)[i] = heap[s.arr][i]
<1>1. s.len \in Nat
  BY DEF Fits, Slice
<1>2. Elems(s) \in [1..s.len -> Link]
  BY DEF Elems, Fits
<1>3. Elems(s) \in Seq(Link)
  BY <1>1, <1>2
<1>4. Len(Elems(s)) = s.len
  BY <1>1, <1>2, <1>3, LenProperties
<1> QED BY <1>3, <1>4 DEF Elems

LEMMA ChainHashTyping ==
  ASSUME NEW links \in Seq(Link)
  PROVE  /\ ContentHashesOf(links) \in Seq(ContentHashes)
         /\ Len(ContentHashesOf(links)) = Len(links)
<1>1. \A i \in 1..Len(links) : links[i].contentHash \in ContentHashes
  <2>1. \A i \in 1..Len(links) : links[i] \in Link
    OBVIOUS
  <2> QED BY <2>1 DEF Link
<1>2. ContentHashesOf(links) \in [1..Len(links) -> ContentHashes]
  BY <1>1 DEF ContentHashesOf
<1>3. Len(links) \in Nat /\ ContentHashesOf(links) \in Seq(ContentHashes)
  BY <1>2, LenProperties
<1> QED BY <1>2, <1>3, LenProperties

LEMMA AddLinkKeepsBuilders ==
  ASSUME BuildersOK, NEW b \in Builders, NEW type \in Types,
         NEW content \in Contents \cup {EmptyObject}, AddLink(b, type, content)
  PROVE  BuildersOK'
<1> DEFINE link == [sequence |-> seq[b] + 1, type |-> type, contentHash |-> Sum256(content),
                    prevHash |-> PrevHash(slice[b])]
<1>1. link \in Link
  BY LinkTyping
<1>2. AppendTo(b, link)
  BY DEF AddLink
<1> HIDE DEF link
<1>3. seq' \in [Builders -> Nat]
  BY DEF AddLink, BuildersOK
<1>4. Fits(slice[b])'
  <2>1. \A i \in 1..slice[b].len : heap'[slice'[b].arr][i] \in Link
    BY <1>1, <1>2, AppendEffect DEF BuildersOK, Fits
  <2>2. slice[b].len \in Nat /\ heap'[slice'[b].arr][slice[b].len + 1] \in Link
    BY <1>1, <1>2, AppendEffect DEF BuildersOK, Slice
  <2>3. \A i \in 1..slice'[b].len : heap'[slice'[b].arr][i] \in Link
    BY <1>1, <1>2, <2>1, <2>2, AppendEffect
  <2>4. slice'[b] \in Slice /\ slice'[b].arr \in 1..Len(heap')
        /\ slice'[b].len <= Len(heap'[slice'[b].arr])
    BY <1>1, <1>2, AppendEffect
  <2> QED BY <2>3, <2>4 DEF Fits
<1>5. ASSUME NEW d \in Builders, d # b
      PROVE  Fits(slice[d])'
  <2>1. slice'[d] = slice[d] /\ slice[d] \in Slice /\ Fits(slice[d])
    BY <1>1, <1>2, <1>5, AppendEffect DEF BuildersOK
  <2>2. Behind(slice[d], slice[b])
    BY <1>5 DEF Behind, BuildersOK
  <2>3. /\ slice[d].arr \in 0..Len(heap')
        /\ slice[d].arr # 0 => slice[d].len <= Len(heap'[slice[d].arr])
        /\ \A i \in 1..slice[d].len : heap'[slice[d].arr][i] \in Link
    BY <1>1, <1>2, <2>1, <2>2, AppendIsolated
  <2> QED BY <2>1, <2>3 DEF Fits
<1>6. \A d, e \in Builders : slice'[d].arr = slice'[e].arr /\ slice'[d].arr # 0 => d = e
  <2>1. \A d \in Builders : d # b => slice'[d] = slice[d] /\ slice[d].arr \in 0..Len(heap)
    BY <1>1, <1>2, AppendEffect DEF BuildersOK, Fits
  <2>2. Len(heap) \in Nat
    BY DEF BuildersOK
  <2>3. slice'[b].arr = slice[b].arr \/ slice'[b].arr = Len(heap) + 1
    BY <1>1, <1>2, AppendEffect
  <2> QED BY <2>1, <2>2, <2>3 DEF BuildersOK
<1>7. heap' \in Seq(Seq(Cell)) /\ slice' \in [Builders -> Slice]
  BY <1>1, <1>2, AppendEffect
<1> QED BY <1>3, <1>4, <1>5, <1>6, <1>7 DEF BuildersOK

LEMMA AddLinkKeepsChains ==
  ASSUME Isolation, NEW b \in Builders, NEW type \in Types,
         NEW content \in Contents \cup {EmptyObject}, AddLink(b, type, content)
  PROVE  /\ ChainsOK'
         /\ chains' = chains
         /\ \A c \in DOMAIN chains : ChainLinks(c)' = ChainLinks(c)
<1> DEFINE link == [sequence |-> seq[b] + 1, type |-> type, contentHash |-> Sum256(content),
                    prevHash |-> PrevHash(slice[b])]
<1>1. link \in Link
  BY LinkTyping DEF Isolation
<1>2. AppendTo(b, link)
  BY DEF AddLink
<1> HIDE DEF link
<1>3. chains' = chains
  BY DEF AddLink
<1>4. ASSUME NEW c \in DOMAIN chains
      PROVE  /\ Fits(chains[c].slice)'
             /\ ChainLinks(c)' = ChainLinks(c)
             /\ \A d \in Builders : Behind(chains[c].slice, slice[d])'
  <2> DEFINE s == chains[c].slice
  <2>1. s \in Slice /\ Fits(s) /\ Behind(s, slice[b])
    BY DEF Isolation, ChainsOK, Fits
  <2>2. /\ Elems(s)' = Elems(s)
        /\ s.arr \in 0..Len(heap')
        /\ s.arr # 0 => s.len <= Len(heap'[s.arr])
        /\ \A i \in 1..s.len : heap'[s.arr][i] \in Link
        /\ Behind(s, slice'[b])
    <3> HIDE DEF s
    <3>1. \A t \in Slice : Fits(t) /\ Behind(t, slice[b]) =>
            /\ [i \in 1..t.len |-> heap'[t.arr][i]] = Elems(t)
            /\ t.arr \in 0..Len(heap')
            /\ t.arr # 0 => t.len <= Len(heap'[t.arr])
            /\ \A i \in 1..t.len : heap'[t.arr][i] \in Link
            /\ Behind(t, slice'[b])
      BY <1>1, <1>2, AppendIsolated DEF Isolation, Elems
    <3>2. s' = s
      BY <1>3 DEF s
    <3> QED BY <2>1, <3>1, <3>2 DEF Elems
  <2>3. ASSUME NEW d \in Builders, d # b
        PROVE  Behind(s, slice'[d])
    BY <1>1, <1>2, <2>3, AppendEffect DEF Isolation, ChainsOK
  <2>4. s' = s
    BY <1>3
  <2>5. \A d \in Builders : Behind(s, slice'[d])
    BY <2>2, <2>3
  <2>6. Fits(s)'
    BY <2>1, <2>2, <2>4 DEF Fits
  <2>7. ChainLinks(c)' = ChainLinks(c)
    BY <2>2 DEF ChainLinks
  <2>8. \A d \in Builders : Behind(s, slice[d])'
    BY <2>4, <2>5 DEF Behind
  <2> QED BY <2>6, <2>7, <2>8
<1> QED BY <1>3, <1>4 DEF ChainsOK, Isolation

LEMMA BuildKeeps ==
  ASSUME Isolation, NEW b \in Builders, Build(b)
  PROVE  /\ Isolation'
         /\ Len(chains') = Len(chains) + 1
         /\ chains'[Len(chains) + 1] = [intent |-> b, slice |-> slice[b],
                                        chainHash |-> ChainHash(Links(b))]
         /\ \A c \in DOMAIN chains : c \in DOMAIN chains' /\ chains'[c] = chains[c]
         /\ \A d \in Builders : Links(d)' = Links(d)
         /\ \A c \in DOMAIN chains : ChainLinks(c)' = ChainLinks(c)
         /\ \A c \in DOMAIN chains' : c \notin DOMAIN chains =>
              c = Len(chains) + 1 /\ ChainLinks(c)' = Links(b)
<1> DEFINE new == [intent |-> b, slice |-> slice[b], chainHash |-> ChainHash(Links(b))]
<1>1. UNCHANGED <<heap, slice, seq, verifier>> /\ chains' = Append(chains, new)
  BY DEF Build, Links
<1>2. new \in Chain
  <2>1. slice[b] \in Slice /\ Fits(slice[b])
    BY DEF Isolation, BuildersOK
  <2>2. ContentHashesOf(Links(b)) \in Seq(ContentHashes)
    BY <2>1, ElemsTyping, ChainHashTyping DEF Links
  <2> QED BY <2>1, <2>2 DEF Chain, ChainHash
<1>3. chains \in Seq(Chain) /\ DOMAIN chains = 1..Len(chains) /\ Len(chains) \in Nat
  BY DEF Isolation, ChainsOK
<1>4. new.slice = slice[b]
  OBVIOUS
<1>5. chains'[Len(chains) + 1] = new
  BY <1>1, <1>2, <1>3, AppendProperties
<1> HIDE DEF new
<1>6. /\ chains' \in Seq(Chain)
      /\ Len(chains') = Len(chains) + 1
      /\ DOMAIN chains' = 1..(Len(chains) + 1)
      /\ \A c \in 1..Len(chains) : chains'[c] = chains[c]
  BY <1>1, <1>2, <1>3, AppendProperties
<1>7. BuildersOK'
  BY <1>1 DEF Isolation, BuildersOK, Fits
<1>8. ASSUME NEW c \in DOMAIN chains'
      PROVE  Fits(chains[c].slice)' /\ \A d \in Builders : Behind(chains[c].slice, slice[d])'
  <2>1. CASE c \in DOMAIN chains
    BY <1>1, <1>3, <1>6, <2>1 DEF Isolation, ChainsOK, Fits, Behind
  <2>2. CASE c = Len(chains) + 1
    <3>1. chains'[c].slice = slice[b]
      BY <1>4, <1>5, <2>2
    <3>2. Fits(slice[b]) /\ slice[b].len \in Nat
      BY DEF Isolation, BuildersOK, Slice
    <3>3. \A d \in Builders : Behind(slice[b], slice[d])
      BY <3>2 DEF Behind, Isolation, BuildersOK, Slice
    <3> QED BY <1>1, <3>1, <3>2, <3>3 DEF Fits, Behind
  <2> QED BY <1>3, <1>6, <2>1, <2>2
<1>9. \A c \in DOMAIN chains : ChainLinks(c)' = ChainLinks(c)
  BY <1>1, <1>3, <1>6 DEF ChainLinks, Elems
<1>10. \A d \in Builders : Links(d)' = Links(d)
  BY <1>1 DEF Links, Elems
<1>11. ASSUME NEW c \in DOMAIN chains', c \notin DOMAIN chains
       PROVE  c = Len(chains) + 1 /\ ChainLinks(c)' = Links(b)
  <2>1. c = Len(chains) + 1
    BY <1>3, <1>6, <1>11
  <2>2. chains'[c].slice = slice[b]
    BY <1>4, <1>5, <2>1
  <2> QED BY <1>1, <2>1, <2>2 DEF ChainLinks, Links, Elems
<1>12. chains'[Len(chains) + 1] = [intent |-> b, slice |-> slice[b], chainHash |-> ChainHash(Links(b))]
  BY <1>5 DEF new
<1>13. ChainsOK'
  BY <1>6, <1>8 DEF ChainsOK
<1> QED BY <1>3, <1>6, <1>7, <1>9, <1>10, <1>11, <1>12, <1>13 DEF Isolation

LEMMA AddLinkLog ==
  ASSUME Isolation, NEW b \in Builders, NEW type \in Types,
         NEW content \in Contents \cup {EmptyObject}, AddLink(b, type, content)
  PROVE  /\ Links(b)' = Append(Links(b), [sequence |-> seq[b] + 1, type |-> type,
                                          contentHash |-> Sum256(content),
                                          prevHash |-> PrevHash(slice[b])])
         /\ \A d \in Builders : d # b => Links(d)' = Links(d)
<1> DEFINE link == [sequence |-> seq[b] + 1, type |-> type, contentHash |-> Sum256(content),
                    prevHash |-> PrevHash(slice[b])]
<1>1. link \in Link /\ BuildersOK
  BY LinkTyping DEF Isolation
<1>2. AppendTo(b, link)
  BY DEF AddLink
<1> HIDE DEF link
<1>3. Links(b)' = Append(Links(b), link)
  <2> DEFINE old == Links(b)
             new == Links(b)'
             n == slice[b].len
  <2>1. old \in Seq(Link) /\ Len(old) = n /\ n \in Nat
        /\ \A i \in 1..n : old[i] = heap[slice[b].arr][i]
    BY ElemsTyping DEF Links, Isolation, BuildersOK, Slice
  <2>2. new = [i \in 1..(n + 1) |-> heap'[slice'[b].arr][i]]
    BY <1>1, <1>2, AppendEffect DEF Links, Elems
  <2>3. /\ \A i \in 1..n : heap'[slice'[b].arr][i] = heap[slice[b].arr][i]
        /\ heap'[slice'[b].arr][n + 1] = link
    BY <1>1, <1>2, AppendEffect
  <2> HIDE DEF old, new, n
  <2>4. \A i \in 1..(n + 1) : new[i] \in Link /\ new[i] = Append(old, link)[i]
    <3> SUFFICES ASSUME NEW i \in 1..(n + 1)
                 PROVE  new[i] \in Link /\ new[i] = Append(old, link)[i]
      OBVIOUS
    <3>1. CASE i \in 1..n
      BY <1>1, <2>1, <2>2, <2>3, <3>1, AppendProperties
    <3>2. CASE i = n + 1
      BY <1>1, <2>1, <2>2, <2>3, <3>2, AppendProperties
    <3> QED BY <2>1, <3>1, <3>2
  <2>5. new \in Seq(Link) /\ Len(new) = n + 1
    <3>1. new \in [1..(n + 1) -> Link]
      BY <2>2, <2>4
    <3>2. new \in Seq(Link)
      BY <2>1, <3>1
    <3> QED BY <2>1, <3>1, <3>2, LenProperties
  <2>6. Append(old, link) \in Seq(Link) /\ Len(Append(old, link)) = n + 1
    BY <1>1, <2>1, AppendProperties
  <2> QED BY <2>4, <2>5, <2>6, SeqEqual DEF old, new
<1>4. ASSUME NEW d \in Builders, d # b
      PROVE  Links(d)' = Links(d)
  <2>1. slice[d] \in Slice /\ Fits(slice[d]) /\ Behind(slice[d], slice[b])
    BY <1>4 DEF Isolation, BuildersOK, Behind
  <2>2. slice'[d] = slice[d]
    BY <1>1, <1>2, <1>4, AppendEffect
  <2>3. \A t \in Slice : Fits(t) /\ Behind(t, slice[b]) =>
          [i \in 1..t.len |-> heap'[t.arr][i]] = Elems(t)
    BY <1>1, <1>2, AppendIsolated DEF Elems
  <2> QED BY <2>1, <2>2, <2>3 DEF Links, Elems
<1> QED BY <1>3, <1>4 DEF link

-----------------------------------------------------------------------------
(* Every chain that Build returned is frozen.                              *)

LEMMA InitIsolation == Init => Isolation
BY DEF Init, Isolation, BuildersOK, ChainsOK, Fits, NilSlice, Slice

LEMMA VerifierUnchanged ==
  ASSUME NEW v \in Verifiers, VerifierStep(v)
  PROVE  UNCHANGED <<heap, slice, seq, chains>>
BY DEF VerifierStep, VerifyStart, VerifyLink, VerifyHash

LEMMA StutterIsolation ==
  ASSUME Isolation, UNCHANGED <<heap, slice, seq, chains>>
  PROVE  /\ Isolation'
         /\ \A c \in DOMAIN chains : ChainLinks(c)' = ChainLinks(c)
         /\ \A b \in Builders : Links(b)' = Links(b)
<1>1. BuildersOK' /\ ChainsOK'
  BY DEF Isolation, BuildersOK, ChainsOK, Fits, Behind
<1> QED BY <1>1 DEF Isolation, ChainLinks, Links, Elems

LEMMA NextIsolation ==
  ASSUME Isolation, [Next]_vars
  PROVE  Isolation' /\ \A c \in DOMAIN chains : ChainLinks(c)' = ChainLinks(c)
<1>1. CASE UNCHANGED vars
  BY <1>1, StutterIsolation DEF vars
<1>2. ASSUME NEW b \in Builders, NEW type \in Types,
             NEW content \in Contents \cup {EmptyObject}, AddLink(b, type, content)
      PROVE  Isolation' /\ \A c \in DOMAIN chains : ChainLinks(c)' = ChainLinks(c)
  BY <1>2, AddLinkKeepsBuilders, AddLinkKeepsChains DEF Isolation
<1>3. ASSUME NEW b \in Builders, Build(b)
      PROVE  Isolation' /\ \A c \in DOMAIN chains : ChainLinks(c)' = ChainLinks(c)
  BY <1>3, BuildKeeps
<1>4. ASSUME NEW v \in Verifiers, VerifierStep(v)
      PROVE  Isolation' /\ \A c \in DOMAIN chains : ChainLinks(c)' = ChainLinks(c)
  BY <1>4, VerifierUnchanged, StutterIsolation
<1> QED BY <1>1, <1>2, <1>3, <1>4, BuilderStepCases DEF Next

LEMMA AlwaysIsolation == Spec => []Isolation
<1>1. Isolation /\ [Next]_vars => Isolation'
  BY NextIsolation
<1> QED BY InitIsolation, <1>1, PTL DEF Spec

(* Build returns a snapshot: no step of a builder or a verifier changes    *)
(* the links that are read through a chain built before (chain.go Build    *)
(* shares b.links with the chain).                                         *)
THEOREM ChainsFrozen == Spec => BuiltChainsFrozen
<1>1. Isolation /\ [Next]_vars => [\A c \in DOMAIN chains : ChainLinks(c)' = ChainLinks(c)]_vars
  BY NextIsolation
<1> QED BY AlwaysIsolation, <1>1, PTL DEF Spec, BuiltChainsFrozen

-----------------------------------------------------------------------------
(* Built chains verify, now and later.                                     *)

Verifies(links) == VerifyChainIntegrity(links, ChainHash(links))

(* What builders and chains satisfy: chain.go's own verifier accepts them. *)
Sound == /\ \A b \in Builders : Verifies(Links(b))
         /\ \A c \in DOMAIN chains : /\ Verifies(ChainLinks(c))
                                     /\ chains[c].chainHash = ChainHash(ChainLinks(c))

(* A link that refers to the last one extends a chain that verifies.       *)
LEMMA AppendVerifies ==
  ASSUME NEW links \in Seq(Link), NEW link \in Link, Verifies(links),
         link.prevHash = IF Len(links) > 0 THEN links[Len(links)].contentHash ELSE ZeroHash
  PROVE  Verifies(Append(links, link))
<1> DEFINE new == Append(links, link)
           n == Len(links)
<1>1. /\ new \in Seq(Link) /\ Len(new) = n + 1 /\ n \in Nat
      /\ \A i \in 1..n : new[i] = links[i]
      /\ new[n + 1] = link
  BY AppendProperties, LenProperties
<1> HIDE DEF new
<1>2. CASE n = 0
  <2>1. GenesisOK(new)
    BY <1>1, <1>2 DEF GenesisOK
  <2>2. \A i \in 2..Len(new) : LinkOK(new, i)
    BY <1>1, <1>2
  <2> QED BY <2>1, <2>2 DEF Verifies, VerifyChainIntegrity, new
<1>3. CASE n > 0
  <2>1. GenesisOK(links) /\ \A i \in 2..n : LinkOK(links, i)
    BY <1>1, <1>3 DEF Verifies, VerifyChainIntegrity
  <2>2. GenesisOK(new)
    BY <1>1, <1>3, <2>1 DEF GenesisOK
  <2>3. ASSUME NEW i \in 2..(n + 1)
        PROVE  LinkOK(new, i)
    <3>1. CASE i \in 2..n
      <4>1. i \in 1..n /\ i - 1 \in 1..n
        BY <1>1, <3>1
      <4>2. new[i] = links[i] /\ new[i - 1] = links[i - 1]
        BY <1>1, <4>1
      <4> QED BY <2>1, <3>1, <4>2 DEF LinkOK
    <3>2. CASE i = n + 1
      BY <1>1, <1>3, <3>2 DEF LinkOK
    <3> QED BY <1>1, <3>1, <3>2
  <2> QED BY <1>1, <2>2, <2>3 DEF Verifies, VerifyChainIntegrity, new
<1> QED BY <1>1, <1>2, <1>3

LEMMA BuilderLinks ==
  ASSUME Isolation, NEW b \in Builders
  PROVE  /\ Links(b) \in Seq(Link)
         /\ Len(Links(b)) = slice[b].len
         /\ PrevHash(slice[b]) = IF Len(Links(b)) > 0
                                 THEN Links(b)[Len(Links(b))].contentHash ELSE ZeroHash
<1> DEFINE s == slice[b]
<1>1. s \in Slice /\ Fits(s) /\ s.len \in Nat
  BY DEF Isolation, BuildersOK, Slice
<1>2. /\ Links(b) \in Seq(Link) /\ Len(Links(b)) = s.len
      /\ \A i \in 1..s.len : Links(b)[i] = heap[s.arr][i]
  BY <1>1, ElemsTyping DEF Links
<1> QED BY <1>1, <1>2 DEF PrevHash

LEMMA AddLinkSound ==
  ASSUME Isolation, Sound, NEW b \in Builders, NEW type \in Types,
         NEW content \in Contents \cup {EmptyObject}, AddLink(b, type, content)
  PROVE  Sound'
<1> DEFINE link == [sequence |-> seq[b] + 1, type |-> type, contentHash |-> Sum256(content),
                    prevHash |-> PrevHash(slice[b])]
<1>1. link \in Link
  BY LinkTyping DEF Isolation
<1>2. link.prevHash = PrevHash(slice[b])
  OBVIOUS
<1>3. Links(b)' = Append(Links(b), link) /\ \A d \in Builders : d # b => Links(d)' = Links(d)
  BY AddLinkLog
<1> HIDE DEF link
<1>4. Verifies(Links(b)')
  BY <1>1, <1>2, <1>3, BuilderLinks, AppendVerifies DEF Sound
<1>5. \A d \in Builders : Verifies(Links(d)')
  BY <1>3, <1>4 DEF Sound
<1>6. chains' = chains /\ \A c \in DOMAIN chains : ChainLinks(c)' = ChainLinks(c)
  BY AddLinkKeepsChains
<1>7. \A c \in DOMAIN chains : Verifies(ChainLinks(c)') /\ chains'[c].chainHash = ChainHash(ChainLinks(c)')
  BY <1>6 DEF Sound
<1> QED BY <1>5, <1>6, <1>7 DEF Sound, Verifies, VerifyChainIntegrity, GenesisOK, LinkOK,
           ChainHash, ContentHashesOf

LEMMA BuildSound ==
  ASSUME Isolation, Sound, NEW b \in Builders, Build(b)
  PROVE  Sound'
<1>1. \A d \in Builders : Verifies(Links(d)')
  BY BuildKeeps DEF Sound
<1>2. ASSUME NEW c \in DOMAIN chains'
      PROVE  Verifies(ChainLinks(c)') /\ chains'[c].chainHash = ChainHash(ChainLinks(c)')
  <2>1. CASE c \in DOMAIN chains
    BY <2>1, BuildKeeps DEF Sound
  <2>2. CASE c \notin DOMAIN chains
    <3>1. c = Len(chains) + 1 /\ ChainLinks(c)' = Links(b)
      BY <2>2, BuildKeeps
    <3>2. chains'[c] = [intent |-> b, slice |-> slice[b], chainHash |-> ChainHash(Links(b))]
      BY <3>1, BuildKeeps
    <3>3. chains'[c].chainHash = ChainHash(Links(b))
      BY <3>2
    <3> QED BY <3>1, <3>3 DEF Sound
  <2> QED BY <2>1, <2>2
<1> QED BY <1>1, <1>2 DEF Sound, Verifies, VerifyChainIntegrity, GenesisOK, LinkOK,
           ChainHash, ContentHashesOf

LEMMA StutterSound ==
  ASSUME Isolation, Sound, UNCHANGED <<heap, slice, seq, chains>>
  PROVE  Sound'
<1>1. /\ \A c \in DOMAIN chains : ChainLinks(c)' = ChainLinks(c)
      /\ \A b \in Builders : Links(b)' = Links(b)
      /\ chains' = chains
  BY StutterIsolation
<1>2. \A b \in Builders : Verifies(Links(b)')
  BY <1>1 DEF Sound
<1>3. \A c \in DOMAIN chains : Verifies(ChainLinks(c)') /\ chains'[c].chainHash = ChainHash(ChainLinks(c)')
  BY <1>1 DEF Sound
<1> QED BY <1>1, <1>2, <1>3 DEF Sound, Verifies, VerifyChainIntegrity, GenesisOK, LinkOK,
           ChainHash, ContentHashesOf

LEMMA InitSound == Init => Sound
<1> SUFFICES ASSUME Init PROVE Sound
  OBVIOUS
<1>1. \A b \in Builders : Links(b) = <<>>
  <2> SUFFICES ASSUME NEW b \in Builders PROVE Links(b) = <<>>
    OBVIOUS
  <2>1. Links(b) = [i \in 1..0 |-> heap[0][i]]
    BY DEF Init, Links, Elems, NilSlice
  <2> QED BY <2>1
<1>2. chains = <<>>
  BY DEF Init
<1> QED BY <1>1, <1>2 DEF Sound, Verifies, VerifyChainIntegrity

LEMMA NextSound ==
  ASSUME Isolation, Sound, [Next]_vars
  PROVE  Sound'
<1>1. CASE UNCHANGED vars
  BY <1>1, StutterSound DEF vars
<1>2. ASSUME NEW b \in Builders, NEW type \in Types,
             NEW content \in Contents \cup {EmptyObject}, AddLink(b, type, content)
      PROVE  Sound'
  BY <1>2, AddLinkSound
<1>3. ASSUME NEW b \in Builders, Build(b)
      PROVE  Sound'
  BY <1>3, BuildSound
<1>4. ASSUME NEW v \in Verifiers, VerifierStep(v)
      PROVE  Sound'
  BY <1>4, VerifierUnchanged, StutterSound
<1> QED BY <1>1, <1>2, <1>3, <1>4, BuilderStepCases DEF Next

(* At any time after Build, VerifyChainIntegrity accepts the chain with    *)
(* the links its slice then refers to (chain.go Build and                  *)
(* VerifyChainIntegrity), whatever its builder did in between.             *)
THEOREM ChainsVerify == Spec => []BuiltChainsVerify
<1>1. Isolation /\ Sound /\ [Next]_vars => Sound'
  BY NextSound
<1>2. Sound => BuiltChainsVerify
  BY DEF Sound, BuiltChainsVerify, Verifies
<1> QED BY AlwaysIsolation, InitSound, <1>1, <1>2, PTL DEF Spec

-----------------------------------------------------------------------------
(* The verifier, interleaved with the builders.                            *)

Reader == [phase : {"idle", "links", "hash", "nil", "error"},
           chain : Nat, i : Nat, written : Seq(ContentHashes)]

(* What a verification in progress has established: it never failed, and   *)
(* the digest has been fed the content hashes of the links before r.i.     *)
Progress(r, links) ==
  /\ r.phase \in {"links", "hash"} => links # <<>>
  /\ r.phase = "links" => r.i >= 2
  /\ r.phase = "hash" =>
       /\ r.i \in 1..Len(links) + 1
       /\ Len(r.written) = r.i - 1
       /\ \A j \in 1..Len(r.written) : r.written[j] = links[j].contentHash

Reading(r) ==
  /\ r.phase # "error"
  /\ r.phase # "idle" => r.chain \in DOMAIN chains /\ Progress(r, ChainLinks(r.chain))

Readers == /\ verifier \in [Verifiers -> Reader]
           /\ \A v \in Verifiers : Reading(verifier[v])

LEMMA ChainLinksTyping ==
  ASSUME Isolation, NEW c \in DOMAIN chains
  PROVE  ChainLinks(c) \in Seq(Link) /\ c \in Nat
<1>1. chains \in Seq(Chain) /\ Fits(chains[c].slice)
  BY DEF Isolation, ChainsOK
<1> QED BY <1>1, ElemsTyping DEF ChainLinks

LEMMA InitReaders == Init => Readers
<1> SUFFICES ASSUME Init PROVE Readers
  OBVIOUS
<1>1. Idle \in Reader /\ Idle.phase = "idle"
  BY DEF Idle, Reader
<1> QED BY <1>1 DEF Init, Readers, Reading

(* A step that leaves the verifiers and the built chains alone.            *)
LEMMA OthersReaders ==
  ASSUME Readers, verifier' = verifier,
         \A c \in DOMAIN chains : c \in DOMAIN chains' /\ ChainLinks(c)' = ChainLinks(c)
  PROVE  Readers'
<1> SUFFICES ASSUME NEW v \in Verifiers PROVE Reading(verifier[v])'
  BY DEF Readers
<1>1. PICK r \in Reader : r = verifier[v] /\ r = verifier'[v] /\ Reading(r)
  BY DEF Readers
<1>2. CASE r.phase = "idle"
  BY <1>1, <1>2 DEF Reading
<1>3. CASE r.phase # "idle"
  <2>1. r.chain \in DOMAIN chains /\ r.chain \in DOMAIN chains'
        /\ ChainLinks(r.chain)' = ChainLinks(r.chain)
    BY <1>1, <1>3 DEF Reading
  <2> QED BY <1>1, <1>3, <2>1 DEF Reading
<1> QED BY <1>2, <1>3

(* A step of one verifier, to a state r that reads the same chains.        *)
LEMMA OneReader ==
  ASSUME Readers, NEW v \in Verifiers, NEW r \in Reader, Reading(r),
         verifier' = [verifier EXCEPT ![v] = r], UNCHANGED <<heap, slice, seq, chains>>
  PROVE  Readers'
<1>1. /\ verifier' \in [Verifiers -> Reader]
      /\ verifier'[v] = r
      /\ \A w \in Verifiers : w # v => verifier'[w] = verifier[w]
  BY DEF Readers
<1>2. ASSUME NEW w \in Verifiers
      PROVE  Reading(verifier[w])'
  <2>1. PICK t \in Reader : verifier'[w] = t /\ Reading(t)
    BY <1>1 DEF Readers
  <2>2. ChainLinks(t.chain)' = ChainLinks(t.chain)
    BY DEF ChainLinks, Elems
  <2> QED BY <2>1, <2>2 DEF Reading
<1> QED BY <1>1, <1>2 DEF Readers

LEMMA VerifyStartReaders ==
  ASSUME Isolation, Sound, Readers, NEW v \in Verifiers, NEW c \in DOMAIN chains,
         VerifyStart(v, c)
  PROVE  Readers'
<1> DEFINE links == ChainLinks(c)
           to(phase) == [phase |-> phase, chain |-> c, i |-> 2, written |-> <<>>]
<1>1. links \in Seq(Link) /\ c \in Nat /\ (links # <<>> => GenesisOK(links))
  BY ChainLinksTyping DEF Sound, Verifies, VerifyChainIntegrity
<1>2. \/ links = <<>> /\ verifier' = [verifier EXCEPT ![v] = to("nil")]
      \/ links # <<>> /\ verifier' = [verifier EXCEPT ![v] = to("links")]
  BY <1>1 DEF VerifyStart, Goto, ChainLinks
<1>3. to("nil") \in Reader /\ to("links") \in Reader
  BY <1>1 DEF Reader
<1>4. Reading(to("nil")) /\ (links # <<>> => Reading(to("links")))
  BY DEF Reading, Progress
<1>5. UNCHANGED <<heap, slice, seq, chains>>
  BY DEF VerifyStart
<1> HIDE DEF links, to
<1> QED BY <1>2, <1>3, <1>4, <1>5, OneReader

LEMMA VerifyLinkReaders ==
  ASSUME Isolation, Sound, Readers, NEW v \in Verifiers, VerifyLink(v)
  PROVE  Readers'
<1> DEFINE r == verifier[v]
           links == ChainLinks(r.chain)
           next == [phase |-> "links", chain |-> r.chain, i |-> r.i + 1, written |-> <<>>]
           hash == [phase |-> "hash", chain |-> r.chain, i |-> 1, written |-> <<>>]
<1>1. r \in Reader /\ Reading(r) /\ r.phase = "links" /\ r.i \in Nat /\ r.chain \in Nat
  BY DEF Readers, Reader, VerifyLink
<1>2. r.chain \in DOMAIN chains /\ r.i >= 2 /\ links # <<>>
  BY <1>1 DEF Reading, Progress
<1>3. links \in Seq(Link) /\ Len(links) \in Nat
  BY <1>2, ChainLinksTyping
<1>4. \A i \in 2..Len(links) : LinkOK(links, i)
  BY <1>2 DEF Sound, Verifies, VerifyChainIntegrity
<1>5. \/ verifier' = [verifier EXCEPT ![v] = next]
      \/ verifier' = [verifier EXCEPT ![v] = hash]
  BY <1>1, <1>2, <1>3, <1>4 DEF VerifyLink, Goto, ChainLinks
<1>6. next \in Reader /\ hash \in Reader
  BY <1>1 DEF Reader
<1>7. Reading(next) /\ Reading(hash)
  BY <1>1, <1>2, <1>3 DEF Reading, Progress
<1>8. UNCHANGED <<heap, slice, seq, chains>>
  BY DEF VerifyLink
<1> HIDE DEF r, links, next, hash
<1> QED BY <1>5, <1>6, <1>7, <1>8, OneReader

LEMMA VerifyHashReaders ==
  ASSUME Isolation, Sound, Readers, NEW v \in Verifiers, VerifyHash(v)
  PROVE  Readers'
<1> DEFINE r == verifier[v]
           links == ChainLinks(r.chain)
           digest == links[r.i].contentHash
           next == [phase |-> "hash", chain |-> r.chain, i |-> r.i + 1,
                    written |-> Append(r.written, digest)]
           nil == [phase |-> "nil", chain |-> r.chain, i |-> r.i, written |-> r.written]
<1>1. /\ r \in Reader /\ Reading(r) /\ r.phase = "hash" /\ r.i \in Nat /\ r.chain \in Nat
      /\ r.written \in Seq(ContentHashes)
  BY DEF Readers, Reader, VerifyHash
<1>2. r.chain \in DOMAIN chains /\ links # <<>> /\ Progress(r, links)
  BY <1>1 DEF Reading, Progress
<1>3. links \in Seq(Link) /\ Len(links) \in Nat
  BY <1>2, ChainLinksTyping
<1>4. UNCHANGED <<heap, slice, seq, chains>>
  BY DEF VerifyHash
<1>5. CASE r.i <= Len(links)
  <2>1. verifier' = [verifier EXCEPT ![v] = next]
    BY <1>1, <1>3, <1>5 DEF VerifyHash, Goto, ChainLinks
  <2>2. r.i \in 1..Len(links) /\ Len(r.written) = r.i - 1
    BY <1>1, <1>2, <1>3, <1>5 DEF Progress
  <2>3. digest \in ContentHashes
    <3>1. links[r.i] \in Link
      BY <1>3, <2>2
    <3> QED BY <3>1 DEF Link
  <2>4. /\ Append(r.written, digest) \in Seq(ContentHashes)
        /\ Len(Append(r.written, digest)) = r.i
        /\ \A j \in 1..r.i : Append(r.written, digest)[j] = links[j].contentHash
    <3>1. /\ Append(r.written, digest) \in Seq(ContentHashes)
          /\ Len(Append(r.written, digest)) = Len(r.written) + 1
          /\ \A j \in 1..Len(r.written) : Append(r.written, digest)[j] = r.written[j]
          /\ Append(r.written, digest)[Len(r.written) + 1] = digest
      BY <1>1, <2>3, AppendProperties
    <3>2. \A j \in 1..Len(r.written) : r.written[j] = links[j].contentHash
      BY <1>1, <1>2, <2>2 DEF Progress
    <3>3. digest = links[r.i].contentHash /\ r.i \in Nat
      BY <1>1
    <3> HIDE DEF r, links, digest
    <3> QED BY <2>2, <3>1, <3>2, <3>3
  <2>5. next \in Reader
    BY <1>1, <2>4 DEF Reader
  <2>6. Progress(next, links)
    <3>1. next.phase = "hash" /\ next.i = r.i + 1 /\ next.written = Append(r.written, digest)
      OBVIOUS
    <3>2. r.i + 1 \in 1..Len(links) + 1 /\ r.i = (r.i + 1) - 1
      BY <1>1, <1>3, <2>2
    <3> HIDE DEF next, r, links, digest
    <3> QED BY <1>2, <2>4, <3>1, <3>2 DEF Progress
  <2>7. Reading(next)
    BY <1>2, <2>6 DEF Reading
  <2> HIDE DEF r, links, digest, next
  <2> QED BY <1>4, <2>1, <2>5, <2>7, OneReader
<1>6. CASE r.i > Len(links)
  <2>1. /\ r.i = Len(links) + 1 /\ Len(r.written) = Len(links)
        /\ \A j \in 1..Len(links) : r.written[j] = links[j].contentHash
    BY <1>1, <1>2, <1>3, <1>6 DEF Progress
  <2>2. /\ ContentHashesOf(links) \in Seq(ContentHashes)
        /\ Len(ContentHashesOf(links)) = Len(links)
        /\ \A j \in 1..Len(links) : ContentHashesOf(links)[j] = links[j].contentHash
    <3>1. \A j \in 1..Len(links) : ContentHashesOf(links)[j] = links[j].contentHash
      BY DEF ContentHashesOf
    <3> QED BY <1>3, <3>1, ChainHashTyping
  <2>3. r.written = ContentHashesOf(links)
    BY <1>1, <2>1, <2>2, SeqEqual
  <2>4. chains[r.chain].chainHash = Sum256(r.written)
    BY <1>2, <2>3 DEF Sound, ChainHash
  <2>5. verifier' = [verifier EXCEPT ![v] = nil]
    BY <1>1, <1>3, <1>6, <2>4 DEF VerifyHash, Goto, ChainLinks
  <2>6. nil \in Reader
    BY <1>1 DEF Reader
  <2>7. Reading(nil)
    BY <1>2 DEF Reading, Progress
  <2> HIDE DEF r, links, nil
  <2> QED BY <1>4, <2>5, <2>6, <2>7, OneReader
<1> QED BY <1>1, <1>3, <1>5, <1>6

LEMMA NextReaders ==
  ASSUME Isolation, Sound, Readers, [Next]_vars
  PROVE  Readers'
<1>1. CASE UNCHANGED vars
  BY <1>1, StutterIsolation, OthersReaders DEF vars
<1>2. ASSUME NEW b \in Builders, NEW type \in Types,
             NEW content \in Contents \cup {EmptyObject}, AddLink(b, type, content)
      PROVE  Readers'
  <2>1. verifier' = verifier
    BY <1>2 DEF AddLink
  <2> QED BY <1>2, <2>1, AddLinkKeepsChains, OthersReaders
<1>3. ASSUME NEW b \in Builders, Build(b)
      PROVE  Readers'
  <2>1. verifier' = verifier
    BY <1>3 DEF Build
  <2> QED BY <1>3, <2>1, BuildKeeps, OthersReaders
<1>4. ASSUME NEW v \in Verifiers, VerifierStep(v)
      PROVE  Readers'
  BY <1>4, VerifyStartReaders, VerifyLinkReaders, VerifyHashReaders DEF VerifierStep
<1> QED BY <1>1, <1>2, <1>3, <1>4, BuilderStepCases DEF Next

LEMMA AlwaysReaders == Spec => [](Isolation /\ Sound /\ Readers)
<1>1. Init => Isolation /\ Sound /\ Readers
  BY InitIsolation, InitSound, InitReaders
<1>2. Isolation /\ Sound /\ Readers /\ [Next]_vars => (Isolation /\ Sound /\ Readers)'
  BY NextIsolation, NextSound, NextReaders
<1> QED BY <1>1, <1>2, PTL DEF Spec

(* Type correctness of the model: every link a slice refers to has been    *)
(* written, with digests of contents callers added (chain.go AddLink).     *)
THEOREM TypeCorrect == Spec => []TypeOK
<1>1. ASSUME Isolation, Readers
      PROVE  TypeOK
  <2>1. heap \in Seq(Seq(Link \cup {Unused})) /\ slice \in [Builders -> Slice]
        /\ seq \in [Builders -> Nat]
    BY <1>1 DEF Isolation, BuildersOK, Cell
  <2>2. \A c \in DOMAIN chains : chains[c].intent \in Builders /\ chains[c].slice \in Slice
    <3>1. \A c \in DOMAIN chains : chains[c] \in Chain
      BY <1>1, LenProperties DEF Isolation, ChainsOK
    <3> QED BY <3>1 DEF Chain
  <2>3. verifier \in [Verifiers -> Reader]
        /\ \A v \in Verifiers : verifier[v].phase # "idle" => verifier[v].chain \in DOMAIN chains
    BY <1>1 DEF Readers, Reading
  <2> QED BY <2>1, <2>2, <2>3 DEF TypeOK, Reader
<1> QED BY AlwaysReaders, <1>1, PTL

(* A verification that runs while builders append never reports an error   *)
(* for a chain this package built (chain.go VerifyChainIntegrity).         *)
THEOREM NoFalseAlarms == Spec => []NoFalseAlarm
<1>1. Readers => NoFalseAlarm
  BY DEF Readers, Reading, NoFalseAlarm
<1> QED BY AlwaysReaders, <1>1, PTL

-----------------------------------------------------------------------------
(* How the links of several chains are related: the chains of one builder   *)
(* are beginnings of one growing list, numbered without a gap, and the      *)
(* chain hash tells the order of its links.  Every chain is a beginning of  *)
(* its builder's links when it is built, AddLink only appends to those, and *)
(* isolation keeps what is read through the chain as it was.                *)

Begins(s, t) == Len(s) <= Len(t) /\ \A i \in 1..Len(s) : s[i] = t[i]

Numbered(links, n) == Len(links) = n /\ \A i \in 1..Len(links) : links[i].sequence = i

(* The inductive invariant, on top of Isolation. *)
Nested ==
  /\ \A c \in DOMAIN chains, b \in Builders :
       chains[c].intent = b => Begins(ChainLinks(c), Links(b))
  /\ \A c, d \in DOMAIN chains :
       c < d /\ chains[c].intent = chains[d].intent => Begins(ChainLinks(c), ChainLinks(d))
  /\ \A b \in Builders : Numbered(Links(b), seq[b])

-----------------------------------------------------------------------------

LEMMA AppendBegins ==
  ASSUME NEW s, NEW links \in Seq(Link), NEW link \in Link, Begins(s, links), Len(s) \in Nat
  PROVE  Begins(s, Append(links, link))
<1>1. /\ Len(Append(links, link)) = Len(links) + 1 /\ Len(links) \in Nat
      /\ \A i \in 1..Len(links) : Append(links, link)[i] = links[i]
  BY AppendProperties, LenProperties
<1> QED BY <1>1 DEF Begins

LEMMA AppendNumbered ==
  ASSUME NEW n, NEW links \in Seq(Link), NEW link \in Link, Numbered(links, n),
         link.sequence = n + 1
  PROVE  Numbered(Append(links, link), n + 1)
<1>1. /\ Len(Append(links, link)) = Len(links) + 1 /\ Len(links) \in Nat
      /\ \A i \in 1..Len(links) : Append(links, link)[i] = links[i]
      /\ Append(links, link)[Len(links) + 1] = link
  BY AppendProperties, LenProperties
<1> HIDE DEF Numbered
<1>2. Len(links) = n /\ \A i \in 1..n : links[i].sequence = i
  BY DEF Numbered
<1>3. \A i \in 1..n + 1 : Append(links, link)[i].sequence = i
  <2> TAKE i \in 1..n + 1
  <2>1. CASE i \in 1..n
    BY <1>1, <1>2, <2>1
  <2>2. CASE i = n + 1
    BY <1>1, <1>2, <2>2
  <2> QED BY <1>1, <1>2, <2>1, <2>2
<1> QED BY <1>1, <1>2, <1>3 DEF Numbered

LEMMA InitNested == Init => Nested
<1> SUFFICES ASSUME Init PROVE Nested
  OBVIOUS
<1>1. ASSUME NEW b \in Builders PROVE Numbered(Links(b), seq[b])
  <2>1. Links(b) = [i \in 1..0 |-> heap[0][i]]
    BY DEF Init, Links, Elems, NilSlice
  <2>2. Links(b) = <<>>
    BY <2>1
  <2> QED BY <2>2 DEF Init, Numbered
<1>2. DOMAIN chains = {}
  BY DEF Init
<1> QED BY <1>1, <1>2 DEF Nested

LEMMA AddLinkNested ==
  ASSUME Isolation, Nested, NEW b \in Builders, NEW type \in Types,
         NEW content \in Contents \cup {EmptyObject}, AddLink(b, type, content)
  PROVE  Nested'
<1> DEFINE link == [sequence |-> seq[b] + 1, type |-> type, contentHash |-> Sum256(content),
                    prevHash |-> PrevHash(slice[b])]
<1>1. link \in Link /\ link.sequence = seq[b] + 1
  BY LinkTyping DEF Isolation
<1>2. Links(b)' = Append(Links(b), link) /\ \A d \in Builders : d # b => Links(d)' = Links(d)
  BY AddLinkLog
<1>3. chains' = chains /\ \A c \in DOMAIN chains : ChainLinks(c)' = ChainLinks(c)
  BY AddLinkKeepsChains
<1>4. seq'[b] = seq[b] + 1 /\ \A d \in Builders : d # b => seq'[d] = seq[d]
  BY DEF AddLink, Isolation, BuildersOK
<1> HIDE DEF link
<1>5. Links(b) \in Seq(Link)
  BY BuilderLinks
<1>6. ASSUME NEW c \in DOMAIN chains, NEW d \in Builders, chains[c].intent = d
      PROVE  Begins(ChainLinks(c), Links(d)')
  <2>1. Begins(ChainLinks(c), Links(d))
    BY <1>6 DEF Nested
  <2>2. Len(ChainLinks(c)) \in Nat
    BY ChainLinksTyping, LenProperties
  <2> QED BY <1>1, <1>2, <1>5, <2>1, <2>2, AppendBegins
<1>7. ASSUME NEW d \in Builders PROVE Numbered(Links(d)', seq'[d])
  BY <1>1, <1>2, <1>4, <1>5, AppendNumbered DEF Nested
<1> QED BY <1>3, <1>6, <1>7 DEF Nested

LEMMA BuildNested ==
  ASSUME Isolation, Nested, NEW b \in Builders, Build(b)
  PROVE  Nested'
<1> DEFINE n == Len(chains)
<1>1. /\ DOMAIN chains = 1..n /\ n \in Nat
  BY DEF Isolation, ChainsOK
<1>2. /\ Len(chains') = n + 1 /\ chains'[n + 1].intent = b
      /\ \A c \in DOMAIN chains : c \in DOMAIN chains' /\ chains'[c] = chains[c]
      /\ \A d \in Builders : Links(d)' = Links(d)
      /\ \A c \in DOMAIN chains : ChainLinks(c)' = ChainLinks(c)
      /\ \A c \in DOMAIN chains' : c \notin DOMAIN chains =>
           c = n + 1 /\ ChainLinks(c)' = Links(b)
  <2>1. chains'[n + 1] = [intent |-> b, slice |-> slice[b], chainHash |-> ChainHash(Links(b))]
    BY BuildKeeps
  <2>2. chains'[n + 1].intent = b
    BY <2>1
  <2> QED BY <2>2, BuildKeeps
<1>3. seq' = seq
  BY DEF Build
<1> HIDE DEF n
<1>4. ASSUME NEW c \in DOMAIN chains', NEW d \in Builders, chains'[c].intent = d
      PROVE  Begins(ChainLinks(c)', Links(d)')
  <2>1. CASE c \in DOMAIN chains
    BY <1>2, <1>4, <2>1 DEF Nested
  <2>2. CASE c \notin DOMAIN chains
    <3>1. d = b /\ ChainLinks(c)' = Links(b)
      BY <1>2, <1>4, <2>2
    <3>2. Len(Links(b)) \in Nat
      BY BuilderLinks, LenProperties
    <3> QED BY <1>2, <3>1, <3>2 DEF Begins
  <2> QED BY <2>1, <2>2
<1>5. ASSUME NEW c \in DOMAIN chains', NEW d \in DOMAIN chains', c < d,
             chains'[c].intent = chains'[d].intent
      PROVE  Begins(ChainLinks(c)', ChainLinks(d)')
  <2>1. c \in DOMAIN chains
    BY <1>1, <1>2, <1>5
  <2>2. CASE d \in DOMAIN chains
    BY <1>2, <1>5, <2>1, <2>2 DEF Nested
  <2>3. CASE d \notin DOMAIN chains
    <3>1. chains[c].intent = b /\ ChainLinks(d)' = Links(b)
      BY <1>2, <1>5, <2>1, <2>3
    <3> QED BY <1>2, <2>1, <3>1 DEF Nested
  <2> QED BY <2>2, <2>3
<1>6. \A d \in Builders : Numbered(Links(d)', seq'[d])
  BY <1>2, <1>3 DEF Nested
<1> QED BY <1>4, <1>5, <1>6 DEF Nested

LEMMA StutterNested ==
  ASSUME Isolation, Nested, UNCHANGED <<heap, slice, seq, chains>>
  PROVE  Nested'
<1>1. /\ \A c \in DOMAIN chains : ChainLinks(c)' = ChainLinks(c)
      /\ \A b \in Builders : Links(b)' = Links(b)
      /\ chains' = chains /\ seq' = seq
  BY StutterIsolation
<1> QED BY <1>1 DEF Nested

LEMMA NextNested ==
  ASSUME Isolation, Nested, [Next]_vars
  PROVE  Nested'
<1>1. CASE UNCHANGED vars
  BY <1>1, StutterNested DEF vars
<1>2. ASSUME NEW b \in Builders, NEW type \in Types,
             NEW content \in Contents \cup {EmptyObject}, AddLink(b, type, content)
      PROVE  Nested'
  BY <1>2, AddLinkNested
<1>3. ASSUME NEW b \in Builders, Build(b)
      PROVE  Nested'
  BY <1>3, BuildNested
<1>4. ASSUME NEW v \in Verifiers, VerifierStep(v)
      PROVE  Nested'
  BY <1>4, VerifierUnchanged, StutterNested
<1> QED BY <1>1, <1>2, <1>3, <1>4, BuilderStepCases DEF Next

(* Two chains built from one builder tell one story: the earlier one is the *)
(* beginning of the later one, numbered from 1 without a gap, and           *)
(* no entry of the builder's log is missing from the slice it holds         *)
(* (chain.go AddLink and Build).                                            *)
THEOREM OneStory == Spec => []ChainsNest
<1>1. Isolation /\ Nested /\ [Next]_vars => Nested'
  BY NextNested
<1>2. Isolation /\ Nested => ChainsNest
  <2> SUFFICES ASSUME Isolation, Nested PROVE ChainsNest
    OBVIOUS
  <2>1. ASSUME NEW c \in DOMAIN chains, NEW d \in DOMAIN chains, c < d,
               chains[c].intent = chains[d].intent
        PROVE  Begins(ChainLinks(c), ChainLinks(d))
    BY <2>1 DEF Nested
  <2>2. ASSUME NEW b \in Builders
        PROVE  /\ slice[b].len = seq[b]
               /\ \A i \in 1..slice[b].len : Elems(slice[b])[i].sequence = i
    <3>1. Len(Links(b)) = slice[b].len /\ Numbered(Links(b), seq[b])
      BY BuilderLinks DEF Nested
    <3> QED BY <3>1 DEF Numbered, Links
  <2> QED BY <2>1, <2>2 DEF ChainsNest, Begins
<1> QED BY AlwaysIsolation, InitNested, <1>1, <1>2, PTL DEF Spec

-----------------------------------------------------------------------------

LEMMA AlwaysSound == Spec => [](Isolation /\ Sound)
<1>1. Isolation /\ Sound /\ [Next]_vars => Sound'
  BY NextSound
<1> QED BY AlwaysIsolation, InitSound, <1>1, PTL DEF Spec

(* What VerifyChainIntegrity guarantees about a copy of a built chain whose *)
(* links were dropped, repeated or reordered on the way: unless the copy is *)
(* empty, it is accepted only if the sequence of content hashes is intact.  *)
THEOREM OrderIsTold == Spec => []RearrangedCopyRejected
<1>1. Isolation /\ Sound => RearrangedCopyRejected
  <2> SUFFICES ASSUME Isolation, Sound, NEW c \in DOMAIN chains,
                      NEW m \in 1..Len(ChainLinks(c)) + 1,
                      NEW pick \in [1..m -> DOMAIN ChainLinks(c)],
                      VerifyChainIntegrity([i \in 1..m |-> ChainLinks(c)[pick[i]]],
                                           chains[c].chainHash)
               PROVE  ContentHashesOf([i \in 1..m |-> ChainLinks(c)[pick[i]]]) =
                        ContentHashesOf(ChainLinks(c))
    BY DEF RearrangedCopyRejected
  <2> DEFINE copy == [i \in 1..m |-> ChainLinks(c)[pick[i]]]
  <2>1. m \in Nat /\ m >= 1
    BY ChainLinksTyping, LenProperties
  <2>2. copy # <<>>
    <3>1. 1 \in DOMAIN copy
      BY <2>1
    <3> QED BY <3>1
  <2> HIDE DEF copy
  <2>3. chains[c].chainHash = ChainHash(copy)
    BY <2>2 DEF VerifyChainIntegrity, copy
  <2>4. chains[c].chainHash = ChainHash(ChainLinks(c))
    BY DEF Sound
  <2>5. ContentHashesOf(copy) = ContentHashesOf(ChainLinks(c))
    BY <2>3, <2>4 DEF ChainHash, Sum256
  <2> QED BY <2>5 DEF copy
<1> QED BY <1>1, AlwaysSound, PTL

-----------------------------------------------------------------------------
(* EvidenceChain implements EvidenceLog: the initial state maps to an       *)
(* initial state, AddLink maps to Record, Build maps to Seal and every      *)
(* other step to a stutter.  The mapping reads entries through the slice    *)
(* headers of builders and chains; isolation keeps it stable under writes   *)
(* to shared arrays.                                                        *)

Entries == [type : Types, digest : ContentHashes]

LEMMA EntryTyping ==
  ASSUME NEW link \in Link
  PROVE  Entry(link) \in Entries
BY DEF Entry, Entries, Link

LEMMA EntriesTyping ==
  ASSUME NEW links \in Seq(Link)
  PROVE  /\ EntriesOf(links) \in Seq(Entries)
         /\ Len(EntriesOf(links)) = Len(links)
         /\ \A i \in 1..Len(links) : EntriesOf(links)[i] = Entry(links[i])
<1>1. \A i \in 1..Len(links) : links[i] \in Link
  OBVIOUS
<1>2. EntriesOf(links) \in [1..Len(links) -> Entries] /\ Len(links) \in Nat
  BY <1>1, EntryTyping DEF EntriesOf
<1>3. EntriesOf(links) \in Seq(Entries)
  BY <1>2
<1>4. Len(EntriesOf(links)) = Len(links)
  BY <1>2, <1>3, LenProperties
<1> QED BY <1>3, <1>4 DEF EntriesOf

LEMMA EntriesAppend ==
  ASSUME NEW links \in Seq(Link), NEW link \in Link
  PROVE  EntriesOf(Append(links, link)) = Append(EntriesOf(links), Entry(link))
<1> DEFINE new == Append(links, link)
           n == Len(links)
<1>1. /\ new \in Seq(Link) /\ Len(new) = n + 1 /\ n \in Nat
      /\ \A i \in 1..n : new[i] = links[i]
      /\ new[n + 1] = link
  BY AppendProperties, LenProperties
<1> HIDE DEF new
<1>2. /\ EntriesOf(new) \in Seq(Entries) /\ Len(EntriesOf(new)) = n + 1
      /\ \A i \in 1..(n + 1) : EntriesOf(new)[i] = Entry(new[i])
  BY <1>1, EntriesTyping
<1>3. /\ EntriesOf(links) \in Seq(Entries) /\ Len(EntriesOf(links)) = n
      /\ \A i \in 1..n : EntriesOf(links)[i] = Entry(links[i])
  BY EntriesTyping
<1>4. Entry(link) \in Entries
  BY EntryTyping
<1> DEFINE app == Append(EntriesOf(links), Entry(link))
<1>5. /\ app \in Seq(Entries) /\ Len(app) = n + 1
      /\ \A i \in 1..n : app[i] = EntriesOf(links)[i]
      /\ app[n + 1] = Entry(link)
  BY <1>3, <1>4, AppendProperties
<1> HIDE DEF app
<1>6. \A i \in 1..(n + 1) : EntriesOf(new)[i] = app[i]
  <2> TAKE i \in 1..(n + 1)
  <2>1. CASE i \in 1..n
    BY <1>1, <1>2, <1>3, <1>5, <2>1
  <2>2. CASE i = n + 1
    BY <1>1, <1>2, <1>5, <2>2
  <2> QED BY <1>1, <2>1, <2>2
<1>7. EntriesOf(new) = app
  BY <1>2, <1>5, <1>6, SeqEqual
<1> QED BY <1>7 DEF new, app

-----------------------------------------------------------------------------

LEMMA InitLog == Init => Log!Init
<1> SUFFICES ASSUME Init PROVE Log!Init
  OBVIOUS
<1>1. ASSUME NEW b \in Builders PROVE EntriesOf(Links(b)) = <<>>
  <2>1. Links(b) = [i \in 1..0 |-> heap[0][i]]
    BY DEF Init, Links, Elems, NilSlice
  <2>2. Links(b) = <<>>
    BY <2>1
  <2> QED BY <2>2 DEF EntriesOf
<1>2. LogOf = [b \in Builders |-> <<>>]
  BY <1>1 DEF LogOf
<1>3. SealedOf = <<>>
  BY DEF Init, SealedOf
<1> QED BY <1>2, <1>3 DEF Log!Init

LEMMA StutterLog ==
  ASSUME Isolation, UNCHANGED <<heap, slice, seq, chains>>
  PROVE  UNCHANGED <<LogOf, SealedOf>>
BY DEF LogOf, SealedOf, EntriesOf, Links, ChainLinks, Elems

LEMMA AddLinkLogged ==
  ASSUME Isolation, NEW b \in Builders, NEW type \in Types,
         NEW content \in Contents \cup {EmptyObject}, AddLink(b, type, content)
  PROVE  Log!Next
<1> DEFINE link == [sequence |-> seq[b] + 1, type |-> type, contentHash |-> Sum256(content),
                    prevHash |-> PrevHash(slice[b])]
<1>1. link \in Link
  BY LinkTyping DEF Isolation
<1>2. Links(b)' = Append(Links(b), link) /\ \A d \in Builders : d # b => Links(d)' = Links(d)
  BY AddLinkLog
<1> HIDE DEF link
<1>3. Entry(link) \in Entries
  BY <1>1, EntryTyping
<1>4. LogOf' = [LogOf EXCEPT ![b] = Append(@, Entry(link))]
  <2>1. EntriesOf(Links(b)') = Append(EntriesOf(Links(b)), Entry(link))
    BY <1>1, <1>2, BuilderLinks, EntriesAppend
  <2>2. LogOf' = [d \in Builders |-> EntriesOf(Links(d)')]
    BY DEF LogOf, EntriesOf
  <2> QED BY <1>2, <2>1, <2>2 DEF LogOf
<1>5. SealedOf' = SealedOf
  <2>1. chains' = chains /\ \A c \in DOMAIN chains : ChainLinks(c)' = ChainLinks(c)
    BY AddLinkKeepsChains
  <2>2. DOMAIN chains = 1..Len(chains)
    BY DEF Isolation, ChainsOK
  <2>3. SealedOf' = [c \in 1..Len(chains') |->
                       [builder |-> chains'[c].intent, entries |-> EntriesOf(ChainLinks(c)')]]
    BY DEF SealedOf, EntriesOf
  <2> QED BY <2>1, <2>2, <2>3 DEF SealedOf
<1> QED BY <1>3, <1>4, <1>5 DEF Log!Next, Log!Record, Entries

LEMMA BuildLogged ==
  ASSUME Isolation, NEW b \in Builders, Build(b)
  PROVE  Log!Next
<1> DEFINE S == [builder : Builders, entries : Seq(Entries)]
           new == [builder |-> b, entries |-> EntriesOf(Links(b))]
           n == Len(chains)
           old == SealedOf
           post == SealedOf'
<1>1. Links(b) \in Seq(Link) /\ EntriesOf(Links(b)) \in Seq(Entries)
  BY BuilderLinks, EntriesTyping
<1>2. new \in S
  BY <1>1
<1>3. chains \in Seq(Chain) /\ n \in Nat /\ DOMAIN chains = 1..n
  BY DEF Isolation, ChainsOK
<1>4. chains' \in Seq(Chain) /\ Len(chains') = n + 1 /\ DOMAIN chains' = 1..(n + 1)
  <2>1. Isolation' /\ Len(chains') = n + 1
    BY BuildKeeps
  <2>2. chains' \in Seq(Chain)
    BY <2>1 DEF Isolation, ChainsOK
  <2> QED BY <2>1, <2>2, LenProperties
<1>5. old = [c \in 1..n |-> [builder |-> chains[c].intent, entries |-> EntriesOf(ChainLinks(c))]]
  BY DEF SealedOf
<1>6. post = [c \in 1..(n + 1) |->
                [builder |-> chains'[c].intent, entries |-> EntriesOf(ChainLinks(c)')]]
  BY <1>4 DEF SealedOf, EntriesOf
<1>7. old \in Seq(S) /\ Len(old) = n
  <2>1. \A c \in 1..n : chains[c] \in Chain /\ EntriesOf(ChainLinks(c)) \in Seq(Entries)
    BY <1>3, ChainLinksTyping, EntriesTyping
  <2>2. \A c \in 1..n : chains[c].intent \in Builders
    BY <2>1 DEF Chain
  <2> DEFINE e(c) == [builder |-> chains[c].intent, entries |-> EntriesOf(ChainLinks(c))]
  <2>3. \A c \in 1..n : e(c) \in S
    BY <2>1, <2>2
  <2>4. old = [c \in 1..n |-> e(c)]
    BY <1>5
  <2> HIDE DEF old, S, e, n
  <2>5. old \in [1..n -> S]
    BY <2>3, <2>4
  <2>6. old \in Seq(S)
    BY <1>3, <2>5
  <2> QED BY <1>3, <2>5, <2>6, LenProperties
<1>8. \A c \in 1..n : post[c] = old[c]
  <2> TAKE c \in 1..n
  <2>1. c \in DOMAIN chains /\ c \in 1..(n + 1)
    BY <1>3
  <2>2. chains'[c] = chains[c] /\ ChainLinks(c)' = ChainLinks(c)
    BY <2>1, BuildKeeps
  <2>3. post[c] = [builder |-> chains'[c].intent, entries |-> EntriesOf(ChainLinks(c)')]
    BY <1>6, <2>1
  <2>4. old[c] = [builder |-> chains[c].intent, entries |-> EntriesOf(ChainLinks(c))]
    BY <1>5
  <2> HIDE DEF post, old
  <2> QED BY <2>2, <2>3, <2>4
<1>9. post[n + 1] = new
  <2>1. n + 1 \in DOMAIN chains' /\ n + 1 \notin DOMAIN chains
    BY <1>3, <1>4
  <2>2. \A c \in DOMAIN chains' : c \notin DOMAIN chains => ChainLinks(c)' = Links(b)
    BY BuildKeeps
  <2>3. chains'[n + 1].intent = b
    <3>1. chains'[n + 1] = [intent |-> b, slice |-> slice[b], chainHash |-> ChainHash(Links(b))]
      BY BuildKeeps
    <3> QED BY <3>1
  <2>4. \A c \in 1..(n + 1) : c = n + 1 => post[c] = new
    BY <1>3, <1>4, <1>6, <2>1, <2>2, <2>3
  <2> QED BY <1>3, <2>4
<1> HIDE DEF old, post, S, new, n
<1>10. post = Append(old, new)
  <2>1. /\ Append(old, new) \in Seq(S) /\ Len(Append(old, new)) = n + 1
        /\ \A c \in 1..n : Append(old, new)[c] = old[c]
        /\ Append(old, new)[n + 1] = new
    BY <1>2, <1>7, AppendProperties
  <2>2. \A c \in 1..(n + 1) : post[c] = Append(old, new)[c]
    BY <1>3, <1>8, <1>9, <2>1
  <2>3. \A c \in 1..(n + 1) : post[c] \in S
    BY <1>3, <2>1, <2>2
  <2>4. post \in [1..(n + 1) -> S]
    BY <1>6, <2>3
  <2>5. post \in Seq(S)
    BY <1>3, <2>4
  <2>6. Len(post) = n + 1
    BY <1>3, <2>4, <2>5, LenProperties
  <2> QED BY <2>1, <2>2, <2>5, <2>6, SeqEqual
<1>11. LogOf' = LogOf
  <2>1. LogOf' = [d \in Builders |-> EntriesOf(Links(d)')]
    BY DEF LogOf, EntriesOf
  <2> QED BY <2>1, BuildKeeps DEF LogOf
<1>12. SealedOf' = Append(SealedOf, [builder |-> b, entries |-> LogOf[b]])
  BY <1>10 DEF old, post, new, LogOf
<1> QED BY <1>11, <1>12 DEF Log!Next, Log!Seal

LEMMA NextLog ==
  ASSUME Isolation, [Next]_vars
  PROVE  [Log!Next]_<<LogOf, SealedOf>>
<1>1. CASE UNCHANGED vars
  BY <1>1, StutterLog DEF vars
<1>2. ASSUME NEW b \in Builders, NEW type \in Types,
             NEW content \in Contents \cup {EmptyObject}, AddLink(b, type, content)
      PROVE  Log!Next
  BY <1>2, AddLinkLogged
<1>3. ASSUME NEW b \in Builders, Build(b)
      PROVE  Log!Next
  BY <1>3, BuildLogged
<1>4. ASSUME NEW v \in Verifiers, VerifierStep(v)
      PROVE  UNCHANGED <<LogOf, SealedOf>>
  BY <1>4, VerifierUnchanged, StutterLog
<1> QED BY <1>1, <1>2, <1>3, <1>4, BuilderStepCases DEF Next

(* The evidence builder with its shared arrays implements append-only logs *)
(* and immutable copies (chain.go AddLink, AddJSON, Build, Links).         *)
THEOREM ImplementsLog == Spec => LogSpec
<1>1. Isolation /\ [Next]_vars => [Log!Next]_<<LogOf, SealedOf>>
  BY NextLog
<1>2. Log!Spec <=> Log!Init /\ [][Log!Next]_<<LogOf, SealedOf>>
  BY DEF Log!Spec
<1> QED BY AlwaysIsolation, InitLog, <1>1, <1>2, PTL DEF Spec, LogSpec
=============================================================================
