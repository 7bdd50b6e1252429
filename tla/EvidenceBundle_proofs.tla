------------------------ MODULE EvidenceBundle_proofs ------------------------
(***************************************************************************)
(* Proofs about EvidenceBundle for every set of bundles, identities,       *)
(* sections, contents and digests.                                         *)
(*                                                                         *)
(* The argument has two parts.  What is written to the hash tells the      *)
(* content as far as Alike says: the first symbol that is no character     *)
(* ends the identifiers, the first section ends the hashes before it, the  *)
(* sections are found as a set of pairs, and without any section the       *)
(* hashes run together.  And only Seal writes bundleHash, chainVerified    *)
(* and the history of seals, all from the same content and behind the      *)
(* guard on the anchor candidate; every other step, the writes of a holder *)
(* and the failing calls of Finalize included, leaves them alone.          *)
(***************************************************************************)
EXTENDS EvidenceBundle, Induction, SequenceTheorems

-----------------------------------------------------------------------------
(* What is written to the hash tells the content.                          *)

(* The sections that are not empty, as they are written.                   *)
Pairs(f) == {<<s, f[s]>> : s \in {t \in Sections : f[t] # Empty}}

Elements(w) == {w[i] : i \in 1..Len(w)}

LEMMA SectionsAre ==
  ASSUME NEW f
  PROVE  \E w : /\ SectionsWritten(f) = w[Len(SectionOrder)] /\ w[0] = <<>>
                /\ \A d \in 1..Len(SectionOrder) :
                     w[d] = IF f[SectionOrder[d]] = Empty THEN w[d - 1]
                            ELSE Append(w[d - 1], <<SectionOrder[d], f[SectionOrder[d]]>>)
<1> DEFINE order == SectionOrder
           n == Len(order)
           With(v, d) == IF f[order[d]] = Empty THEN v ELSE Append(v, <<order[d], f[order[d]]>>)
           Built(g) == g = [d \in 0..n |-> IF d = 0 THEN <<>> ELSE With(g[d - 1], d)]
           S == Seq(Pairs(f))
           step == [d \in 1..n |-> [v \in S |-> With(v, d)]]
           w == CHOOSE g : Built(g)
<1>1. n \in Nat /\ \A d \in 1..n : order[d] \in Sections
  BY SectionsAssumption DEF Sections
<1>2. ASSUME NEW d \in 1..n, NEW v \in S PROVE With(v, d) \in S
  BY <1>1 DEF Pairs
<1>3. PICK g \in [0..n -> S] : g[0] = <<>> /\ \A d \in 1..n : g[d] = step[d][g[d - 1]]
  <2> DEFINE first == <<>>
  <2>1. first \in S
    OBVIOUS
  <2>2. step \in [1..n -> [S -> S]]
    <3> HIDE DEF n, S, With
    <3> QED BY <1>2
  <2>3. n \in Nat
    BY <1>1
  <2> HIDE DEF n, S, step, first, With, Built, w
  <2>4. \E g : GoesOnUpTo(n, g, S, first, step)
    BY <2>1, <2>2, <2>3, BoundedRecursion
  <2> QED BY <2>4 DEF GoesOnUpTo, first
<1>4. \A d \in 1..n : g[d] = With(g[d - 1], d)
  <2> TAKE d \in 1..n
  <2>1. d - 1 \in 0..n
    BY <1>1
  <2> HIDE DEF With, S
  <2> QED BY <1>3, <2>1
<1>5. Built(g)
  <2> HIDE DEF With
  <2> QED BY <1>1, <1>3, <1>4
<1>6. Built(w)
  <2> HIDE DEF Built
  <2> QED BY <1>5
<1>7. SectionsWritten(f) = w[n]
  BY DEF SectionsWritten
<1>8. w[0] = <<>> /\ \A d \in 1..n : w[d] = With(w[d - 1], d)
  <2> HIDE DEF With, w
  <2> QED BY <1>1, <1>6
<1> HIDE DEF w
<1> QED BY <1>7, <1>8

(* Every section that is not empty is written, and nothing else is.        *)
LEMMA SectionsTold ==
  ASSUME NEW f
  PROVE  SectionsWritten(f) \in Seq(Pairs(f)) /\ Elements(SectionsWritten(f)) = Pairs(f)
<1> DEFINE n == Len(SectionOrder)
           pair(d) == <<SectionOrder[d], f[SectionOrder[d]]>>
           Nth(d) == IF f[SectionOrder[d]] = Empty THEN {} ELSE {pair(d)}
           Upto(d) == UNION {Nth(e) : e \in 1..d}
<1>1. PICK w : /\ SectionsWritten(f) = w[n] /\ w[0] = <<>>
               /\ \A d \in 1..n : w[d] = IF f[SectionOrder[d]] = Empty THEN w[d - 1]
                                         ELSE Append(w[d - 1], pair(d))
  BY SectionsAre
<1> DEFINE T == {d \in 0..n : w[d] \in Seq(Pairs(f)) /\ Elements(w[d]) = Upto(d)}
<1>2. n \in Nat /\ Sections = {SectionOrder[d] : d \in 1..n}
  BY SectionsAssumption DEF Sections
<1>3. 0 \in T
  <2>1. w[0] = <<>> /\ 0 \in 0..n
    BY <1>1, <1>2
  <2>2. w[0] \in Seq(Pairs(f)) /\ Elements(w[0]) = {}
    BY <2>1 DEF Elements
  <2>3. Upto(0) = {}
    <3> HIDE DEF Nth
    <3> QED OBVIOUS
  <2> HIDE DEF Upto
  <2> QED BY <2>1, <2>2, <2>3
<1>4. ASSUME NEW d \in 1..n, d - 1 \in T PROVE d \in T
  <2>1. w[d - 1] \in Seq(Pairs(f)) /\ Elements(w[d - 1]) = Upto(d - 1)
    BY <1>4
  <2>2. Upto(d) = Upto(d - 1) \cup Nth(d)
    <3>1. 1..d = (1..(d - 1)) \cup {d}
      BY <1>2
    <3> HIDE DEF Nth
    <3> QED BY <3>1
  <2>3. CASE f[SectionOrder[d]] = Empty
    <3>1. w[d] = w[d - 1] /\ Nth(d) = {}
      BY <1>1, <2>3
    <3> HIDE DEF Upto, Nth
    <3> QED BY <2>1, <2>2, <3>1
  <2>4. CASE f[SectionOrder[d]] # Empty
    <3>1. w[d] = Append(w[d - 1], pair(d)) /\ Nth(d) = {pair(d)}
      BY <1>1, <2>4
    <3>2. pair(d) \in Pairs(f)
      BY <1>2, <2>4 DEF Pairs
    <3> HIDE DEF Upto, Nth, pair
    <3>3. w[d] \in Seq(Pairs(f)) /\ Elements(w[d]) = Elements(w[d - 1]) \cup {pair(d)}
      <4>1. Len(w[d]) = Len(w[d - 1]) + 1 /\ Len(w[d - 1]) \in Nat
        BY <2>1, <3>1, <3>2
      <4>2. /\ \A i \in 1..Len(w[d - 1]) : w[d][i] = w[d - 1][i]
            /\ w[d][Len(w[d - 1]) + 1] = pair(d)
        BY <2>1, <3>1, <3>2
      <4> QED BY <2>1, <3>1, <3>2, <4>1, <4>2 DEF Elements
    <3>4. Elements(w[d]) = Upto(d)
      BY <2>1, <2>2, <3>1, <3>3
    <3>5. d \in 0..n
      BY <1>2
    <3> HIDE DEF n
    <3> QED BY <3>3, <3>4, <3>5
  <2> QED BY <2>3, <2>4
<1>5. n \in T
  <2> HIDE DEF T, n
  <2>1. 0..n \subseteq T
    BY <1>2, <1>3, <1>4, InductionUpTo
  <2> QED BY <1>2, <2>1
<1>6. Upto(n) = Pairs(f)
  BY <1>2 DEF Pairs
<1> QED BY <1>1, <1>5, <1>6

LEMMA ElementsOfBoth ==
  ASSUME NEW S, NEW v \in Seq(S), NEW w \in Seq(S)
  PROVE  Elements(v \o w) = Elements(v) \cup Elements(w)
<1>1. /\ Len(v \o w) = Len(v) + Len(w) /\ Len(v) \in Nat /\ Len(w) \in Nat
      /\ \A i \in 1..(Len(v) + Len(w)) : (v \o w)[i] = IF i <= Len(v) THEN v[i] ELSE w[i - Len(v)]
  BY ConcatProperties
<1>2. ASSUME NEW i \in 1..Len(v) PROVE v[i] \in Elements(v \o w)
  BY <1>1 DEF Elements
<1>3. ASSUME NEW i \in 1..Len(w) PROVE w[i] \in Elements(v \o w)
  <2>1. i + Len(v) \in 1..(Len(v) + Len(w)) /\ (i + Len(v)) - Len(v) = i /\ ~(i + Len(v) <= Len(v))
    BY <1>1
  <2> QED BY <1>1, <2>1 DEF Elements
<1>4. ASSUME NEW i \in 1..(Len(v) + Len(w)) PROVE (v \o w)[i] \in Elements(v) \cup Elements(w)
  <2>1. CASE i <= Len(v)
    BY <1>1, <2>1 DEF Elements
  <2>2. CASE ~(i <= Len(v))
    <3>1. i - Len(v) \in 1..Len(w)
      BY <1>1, <2>2
    <3> QED BY <1>1, <2>2, <3>1 DEF Elements
  <2> QED BY <2>1, <2>2
<1> QED BY <1>1, <1>2, <1>3, <1>4 DEF Elements

(* A content that marshals.                                                *)
Hashable(r) ==
  /\ r.ids \in Identities /\ r.level \in Levels /\ r.stateRoot \in StateRoots
  /\ r.chain \in Chains /\ r.candidate \in Digests \cup {Zero}
  /\ r.sections \in [Sections -> {Empty} \cup Entries]

(* All that is ever written.                                               *)
Hashes == UNION {ChainHashes, StateRoots, Digests}
SectionTexts == Sections \X Entries
Writable == UNION {Characters, Levels, Hashes, SectionTexts}

LEMMA HashesAreNoSections == Hashes \cap SectionTexts = {}
BY HashesAssumption DEF Hashes, SectionTexts

(* The parts of what is written, each from a set of its own.               *)
LEMMA PartsAre ==
  ASSUME NEW r, Hashable(r)
  PROVE  /\ Joined(r.ids) \in Seq(Characters) /\ r.level \in Levels \ Characters
         /\ ChainHashOf(r) \in Seq(Hashes) /\ Roots(r) \in Seq(Hashes)
         /\ CandidateOf(r) \in Seq(Hashes)
         /\ SectionsWritten(r.sections) \in Seq(SectionTexts)
         /\ Elements(SectionsWritten(r.sections)) = Pairs(r.sections)
         /\ Pairs(r.sections) \subseteq SectionTexts
<1>1. Joined(r.ids) \in Seq(Characters)
  <2>1. /\ r.ids.intent \in Seq(Characters) /\ r.ids.plan \in Seq(Characters)
        /\ r.ids.outcome \in Seq(Characters)
    BY IdentitiesAssumption DEF Hashable
  <2> QED BY <2>1 DEF Joined
<1>2. r.level \in Levels \ Characters
  BY HashesAssumption DEF Hashable
<1>3. ChainHashOf(r) \in Seq(Hashes)
  <2>1. r.chain.nil \/ r.chain.chainHash \in Hashes
    BY DEF Hashable, Chains, NilChain, Chain, Hashes
  <2> QED BY <2>1 DEF ChainHashOf
<1>4. Roots(r) \in Seq(Hashes)
  <2>1. r.stateRoot \in Hashes
    BY DEF Hashable, Hashes
  <2>2. <<r.stateRoot>> \in Seq(Hashes)
    BY <2>1
  <2> QED BY <1>3, <2>2, ConcatProperties DEF Roots
<1>5. CandidateOf(r) \in Seq(Hashes)
  <2>1. r.candidate = Zero \/ r.candidate \in Hashes
    BY DEF Hashable, Hashes
  <2> QED BY <2>1 DEF CandidateOf
<1>6. Pairs(r.sections) \subseteq SectionTexts
  BY DEF Pairs, Hashable, SectionTexts
<1>7. SectionsWritten(r.sections) \in Seq(Pairs(r.sections))
      /\ Elements(SectionsWritten(r.sections)) = Pairs(r.sections)
  BY SectionsTold
<1>8. SectionsWritten(r.sections) \in Seq(SectionTexts)
  BY <1>6, <1>7, SeqMonotonic
<1> QED BY <1>1, <1>2, <1>3, <1>4, <1>5, <1>6, <1>7, <1>8

LEMMA WrittenParts ==
  ASSUME NEW r, Hashable(r)
  PROVE  /\ Joined(r.ids) \in Seq(Writable) /\ <<r.level>> \in Seq(Writable)
         /\ Roots(r) \in Seq(Writable) /\ Body(r) \in Seq(Writable)
         /\ Written(r) = Joined(r.ids) \o (<<r.level>> \o (Roots(r) \o Body(r)))
<1> DEFINE S == Writable
<1>1. Characters \subseteq S /\ Hashes \subseteq S /\ SectionTexts \subseteq S /\ r.level \in S
  BY DEF Writable, Hashable
<1> HIDE DEF S
<1>2. /\ Joined(r.ids) \in Seq(S) /\ Roots(r) \in Seq(S)
      /\ CandidateOf(r) \in Seq(S) /\ SectionsWritten(r.sections) \in Seq(S)
  BY <1>1, PartsAre, SeqMonotonic
<1>3. Body(r) \in Seq(S)
  BY <1>2, ConcatProperties DEF Body
<1>4. <<r.level>> \in Seq(S)
  BY <1>1
<1>5. Written(r) = Joined(r.ids) \o (<<r.level>> \o (Roots(r) \o Body(r)))
  BY DEF Written
<1> QED BY <1>2, <1>3, <1>4, <1>5 DEF S

LEMMA CancelLeft ==
  ASSUME NEW S, NEW s \in Seq(S), NEW t \in Seq(S), NEW v \in Seq(S), s \o t = s \o v
  PROVE  t = v
BY ConcatSimplifications

LEMMA ConcatAt ==
  ASSUME NEW S, NEW s \in Seq(S), NEW t \in Seq(S)
  PROVE  /\ \A i \in 1..Len(s) : (s \o t)[i] = s[i]
         /\ \A i \in 1..Len(t) : (s \o t)[Len(s) + i] = t[i]
<1>1. /\ Len(s) \in Nat /\ Len(t) \in Nat
      /\ \A i \in 1..(Len(s) + Len(t)) : (s \o t)[i] = IF i <= Len(s) THEN s[i] ELSE t[i - Len(s)]
  BY ConcatProperties, LenProperties
<1>2. ASSUME NEW i \in 1..Len(s) PROVE (s \o t)[i] = s[i]
  BY <1>1
<1>3. ASSUME NEW i \in 1..Len(t) PROVE (s \o t)[Len(s) + i] = t[i]
  <2>1. /\ Len(s) + i \in 1..(Len(s) + Len(t)) /\ ~(Len(s) + i <= Len(s))
        /\ (Len(s) + i) - Len(s) = i
    BY <1>1
  <2> QED BY <1>1, <2>1
<1> QED BY <1>2, <1>3

(* Two sequences that begin with elements of S and go on with another one  *)
(* are split by it.                                                        *)
LEMMA SplitTells ==
  ASSUME NEW U, NEW S, S \subseteq U, NEW u \in Seq(S), NEW v \in Seq(S),
         NEW x \in Seq(U), NEW y \in Seq(U), x # <<>>, y # <<>>, x[1] \notin S, y[1] \notin S,
         u \o x = v \o y
  PROVE  u = v /\ x = y
<1>1. ASSUME NEW a \in Seq(S), NEW b \in Seq(S), NEW p \in Seq(U), NEW q \in Seq(U),
             p # <<>>, p[1] \notin S, a \o p = b \o q
      PROVE  Len(b) <= Len(a)
  <2>1. a \in Seq(U) /\ b \in Seq(U) /\ Len(a) \in Nat /\ Len(b) \in Nat /\ Len(p) \in Nat \ {0}
        /\ Len(q) \in Nat
    BY <1>1, SeqMonotonic, EmptySeq, LenProperties
  <2> SUFFICES ASSUME Len(a) < Len(b) PROVE FALSE
    BY <2>1
  <2> DEFINE k == Len(a) + 1
  <2>2. k \in 1..Len(b) /\ 1 \in 1..Len(p)
    BY <2>1
  <2>3. (a \o p)[k] = p[1]
    <3>1. (a \o p)[Len(a) + 1] = p[1]
      BY <2>1, <2>2, ConcatAt, SMTT(30)
    <3> QED BY <3>1
  <2>4. (b \o q)[k] = b[k]
    <3> HIDE DEF k
    <3> QED BY <1>1, <2>1, <2>2, ConcatAt
  <2>5. b[k] \in S
    BY <2>2, ElementOfSeq
  <2> QED BY <1>1, <2>3, <2>4, <2>5
<1>2. Len(u) = Len(v)
  <2>1. Len(v) <= Len(u) /\ Len(u) <= Len(v)
    BY <1>1
  <2> QED BY <2>1, LenProperties
<1>3. u \in Seq(U) /\ v \in Seq(U) /\ Len(u) \in Nat /\ Len(x) \in Nat /\ Len(y) \in Nat
  BY SeqMonotonic, LenProperties
<1>4. \A i \in 1..Len(u) : u[i] = v[i]
  <2> TAKE i \in 1..Len(u)
  <2>1. i \in 1..Len(v)
    BY <1>2
  <2>2. (u \o x)[i] = u[i]
    BY <1>3, ConcatAt
  <2>3. (v \o y)[i] = v[i]
    BY <1>3, <2>1, ConcatAt
  <2> QED BY <2>2, <2>3
<1>5. u = v
  BY <1>2, <1>4, SeqEqual
<1> QED BY <1>3, <1>5, CancelLeft

LEMMA OneByOne ==
  ASSUME NEW S, NEW e \in S, NEW w \in Seq(S)
  PROVE  /\ <<e>> \o w \in Seq(S) /\ <<e>> \o w # <<>> /\ (<<e>> \o w)[1] = e
         /\ Len(<<e>> \o w) = 1 + Len(w)
<1> DEFINE one == <<e>>
<1>1. one \in Seq(S) /\ Len(one) = 1 /\ one[1] = e /\ Len(w) \in Nat
  OBVIOUS
<1> HIDE DEF one
<1>2. one \o w \in Seq(S) /\ Len(one \o w) = 1 + Len(w) /\ (one \o w)[1] = e
  <2>1. one \o w \in Seq(S) /\ Len(one \o w) = Len(one) + Len(w)
    BY <1>1, ConcatProperties
  <2>2. 1 \in 1..Len(one)
    BY <1>1
  <2>3. (one \o w)[1] = one[1]
    BY <1>1, <2>2, ConcatAt
  <2> QED BY <1>1, <2>1, <2>3
<1>3. one \o w # <<>>
  BY <1>1, <1>2, EmptySeq
<1> QED BY <1>2, <1>3 DEF one

LEMMA PairsTellSections ==
  ASSUME NEW r, NEW q, Hashable(r), Hashable(q), Pairs(r.sections) = Pairs(q.sections)
  PROVE  r.sections = q.sections
<1> DEFINE f == r.sections
           g == q.sections
<1>1. \A s \in Sections : f[s] = g[s]
  <2>1. Pairs(f) = Pairs(g)
    OBVIOUS
  <2> HIDE DEF f, g
  <2> SUFFICES ASSUME NEW s \in Sections PROVE f[s] = g[s]
    OBVIOUS
  <2>2. CASE f[s] # Empty
    <3>1. <<s, f[s]>> \in Pairs(g)
      BY <2>1, <2>2 DEF Pairs
    <3> QED BY <3>1 DEF Pairs
  <2>3. CASE g[s] # Empty
    <3>1. <<s, g[s]>> \in Pairs(f)
      BY <2>1, <2>3 DEF Pairs
    <3> QED BY <3>1 DEF Pairs
  <2> QED BY <2>2, <2>3
<1> QED BY <1>1 DEF Hashable

Unwritten(f) == \A s \in Sections : f[s] = Empty

LEMMA NothingWritten ==
  ASSUME NEW f
  PROVE  Unwritten(f) <=> SectionsWritten(f) = <<>>
<1>1. SectionsWritten(f) \in Seq(Pairs(f)) /\ Elements(SectionsWritten(f)) = Pairs(f)
  BY SectionsTold
<1>2. Unwritten(f) <=> Pairs(f) = {}
  BY DEF Unwritten, Pairs
<1>3. ASSUME SectionsWritten(f) # <<>> PROVE Pairs(f) # {}
  <2>1. 1 \in 1..Len(SectionsWritten(f))
    BY <1>1, <1>3, EmptySeq
  <2> QED BY <1>1, <2>1, ElementOfSeq
<1>4. ASSUME SectionsWritten(f) = <<>> PROVE Pairs(f) = {}
  BY <1>1, <1>4 DEF Elements
<1> QED BY <1>2, <1>3, <1>4

LEMMA CandidatesTell ==
  ASSUME NEW r, NEW q, CandidateOf(r) = CandidateOf(q)
  PROVE  r.candidate = q.candidate
<1>1. \A e : <<e>> # <<>>
  OBVIOUS
<1> QED BY <1>1 DEF CandidateOf

LEMMA JoinedTuples ==
  ASSUME NEW h, NEW x, NEW d
  PROVE  /\ <<>> \o <<x>> = <<x>> /\ <<x>> \o <<>> = <<x>> /\ <<h, x>> \o <<>> = <<h, x>>
         /\ <<h>> \o <<x>> = <<h, x>> /\ <<h, x>> \o <<d>> = <<h, x, d>>
<1> DEFINE S == {h, x, d}
           one == <<x>>
           last == <<d>>
           first == <<h>>
           two == <<h, x>>
           three == <<h, x, d>>
<1>1. /\ one \in Seq(S) /\ Len(one) = 1 /\ one[1] = x
      /\ last \in Seq(S) /\ Len(last) = 1 /\ last[1] = d
      /\ first \in Seq(S) /\ Len(first) = 1 /\ first[1] = h
  OBVIOUS
<1>2. two \in Seq(S) /\ Len(two) = 2 /\ two[1] = h /\ two[2] = x
  OBVIOUS
<1>3. three \in Seq(S) /\ Len(three) = 3 /\ three[1] = h /\ three[2] = x /\ three[3] = d
  OBVIOUS
<1> HIDE DEF S, one, last, first, two, three
<1>4. <<>> \o one = one /\ one \o <<>> = one /\ two \o <<>> = two
  BY <1>1, <1>2, ConcatEmptySeq
<1>5. first \o one = two
  <2>1. first \o one \in Seq(S) /\ Len(first \o one) = 2
    <3>1. /\ first \o one \in Seq(S)
          /\ Len(first \o one) = Len(first) + Len(one)
      <4> HIDE DEF first, one
      <4> QED BY <1>1, ConcatProperties
    <3> QED BY <1>1, <3>1
  <2>2. (first \o one)[1] = h /\ (first \o one)[2] = x
    <3>1. 1 \in 1..Len(first) /\ 1 \in 1..Len(one) /\ Len(first) + 1 = 2
      BY <1>1
    <3>2. (first \o one)[1] = first[1] /\ (first \o one)[Len(first) + 1] = one[1]
      BY <1>1, <3>1, ConcatAt
    <3> QED BY <1>1, <3>1, <3>2
  <2>3. \A i \in 1..2 : (first \o one)[i] = two[i]
    <3>1. \A i \in 1..2 : i = 1 \/ i = 2
      OBVIOUS
    <3> QED BY <1>2, <2>2, <3>1, Zenon
  <2> QED BY <1>2, <2>1, <2>3, SeqEqual
<1>6. two \o last = three
  <2>1. two \o last \in Seq(S) /\ Len(two \o last) = 3
    <3>1. two \o last \in Seq(S) /\ Len(two \o last) = Len(two) + Len(last)
      BY <1>1, <1>2, ConcatProperties, Zenon
    <3> QED BY <1>1, <1>2, <3>1
  <2>2. (two \o last)[1] = h /\ (two \o last)[2] = x /\ (two \o last)[3] = d
    <3>1. /\ 1 \in 1..Len(two) /\ 2 \in 1..Len(two) /\ 1 \in 1..Len(last)
          /\ Len(two) + 1 = 3
      BY <1>1, <1>2
    <3>2. /\ (two \o last)[1] = two[1] /\ (two \o last)[2] = two[2]
          /\ (two \o last)[Len(two) + 1] = last[1]
      BY <1>1, <1>2, <3>1, ConcatAt
    <3> QED BY <1>1, <1>2, <3>1, <3>2
  <2>3. \A i \in 1..3 : (two \o last)[i] = three[i]
    <3>1. \A i \in 1..3 : i = 1 \/ i = 2 \/ i = 3
      OBVIOUS
    <3> QED BY <1>3, <2>2, <3>1, Zenon
  <2> QED BY <1>3, <2>1, <2>3, SeqEqual
<1> QED BY <1>4, <1>5, <1>6 DEF one, last, first, two, three

(* Chain hash and state root are told apart by their number.               *)
LEMMA RootsTell ==
  ASSUME NEW r, NEW q, Hashable(r), Hashable(q), Roots(r) = Roots(q)
  PROVE  ChainHashOf(r) = ChainHashOf(q) /\ r.stateRoot = q.stateRoot
<1>1. ASSUME NEW a, Hashable(a)
      PROVE  Roots(a) = IF a.chain.nil THEN <<a.stateRoot>>
                        ELSE <<a.chain.chainHash, a.stateRoot>>
  BY JoinedTuples DEF Roots, ChainHashOf
<1> QED BY <1>1 DEF ChainHashOf

(* What is written tells the content but for the exceptions of Alike       *)
(* (ComputeBundleHash).                                                    *)
LEMMA WrittenTells ==
  ASSUME NEW r, NEW q, Hashable(r), Hashable(q), Written(r) = Written(q)
  PROVE  Alike(Content(r), Content(q))
<1> DEFINE S == Writable
           restr == Roots(r) \o Body(r)
           restq == Roots(q) \o Body(q)
<1>1. /\ Characters \subseteq S /\ Hashes \subseteq S /\ SectionTexts \subseteq S
      /\ r.level \in S /\ q.level \in S
  BY DEF Writable, Hashable
<1>2. /\ restr \in Seq(S) /\ restq \in Seq(S)
      /\ Body(r) \in Seq(S) /\ Body(q) \in Seq(S)
      /\ Written(r) = Joined(r.ids) \o (<<r.level>> \o restr)
      /\ Written(q) = Joined(q.ids) \o (<<q.level>> \o restq)
  <2>1. /\ Roots(r) \in Seq(S) /\ Roots(q) \in Seq(S)
        /\ Body(r) \in Seq(S) /\ Body(q) \in Seq(S)
    BY WrittenParts
  <2>2. restr \in Seq(S) /\ restq \in Seq(S)
    <3> HIDE DEF S
    <3> QED BY <2>1, ConcatProperties
  <2> QED BY <2>1, <2>2, WrittenParts
<1> HIDE DEF S, restr, restq
<1>3. Joined(r.ids) = Joined(q.ids) /\ <<r.level>> \o restr = <<q.level>> \o restq
  <2> DEFINE x == <<r.level>> \o restr
             y == <<q.level>> \o restq
  <2>1. x \in Seq(S) /\ y \in Seq(S) /\ x # <<>> /\ y # <<>> /\ x[1] = r.level /\ y[1] = q.level
    BY <1>1, <1>2, OneByOne
  <2>2. Joined(r.ids) \o x = Joined(q.ids) \o y
    BY <1>2
  <2> HIDE DEF x, y
  <2>3. /\ x[1] \notin Characters /\ y[1] \notin Characters
        /\ Joined(r.ids) \in Seq(Characters) /\ Joined(q.ids) \in Seq(Characters)
    BY <2>1, PartsAre
  <2>4. \A u, v \in Seq(Characters) : \A s, t \in Seq(S) :
          s # <<>> /\ t # <<>> /\ s[1] \notin Characters /\ t[1] \notin Characters
            /\ u \o s = v \o t => u = v /\ s = t
    BY <1>1, SplitTells
  <2>5. Joined(r.ids) = Joined(q.ids) /\ x = y
    BY <2>1, <2>2, <2>3, <2>4, ZenonT(60)
  <2> QED BY <2>5 DEF x, y
<1>4. r.level = q.level
  <2>1. (<<r.level>> \o restr)[1] = r.level /\ (<<q.level>> \o restq)[1] = q.level
    BY <1>1, <1>2, OneByOne
  <2> QED BY <1>3, <2>1
<1>5. restr = restq
  <2>1. <<r.level>> \in Seq(S)
    BY <1>1
  <2> QED BY <1>2, <1>3, <1>4, <2>1, CancelLeft
<1>6. ASSUME NEW a, Hashable(a)
      PROVE  Pairs(a.sections) = Elements(Roots(a) \o Body(a)) \cap SectionTexts
  <2> DEFINE w == SectionsWritten(a.sections)
  <2>1. /\ Roots(a) \in Seq(Hashes) /\ CandidateOf(a) \in Seq(Hashes) /\ w \in Seq(SectionTexts)
        /\ Elements(w) = Pairs(a.sections) /\ Pairs(a.sections) \subseteq SectionTexts
    BY <1>6, PartsAre
  <2>2. Roots(a) \in Seq(S) /\ CandidateOf(a) \in Seq(S) /\ w \in Seq(S) /\ Body(a) \in Seq(S)
    <3> HIDE DEF w
    <3> QED BY <1>1, <1>6, <2>1, SeqMonotonic, WrittenParts DEF S
  <2>3. Elements(Roots(a)) \subseteq Hashes /\ Elements(CandidateOf(a)) \subseteq Hashes
    BY <2>1 DEF Elements
  <2>4. Elements(Body(a)) = Elements(w) \cup Elements(CandidateOf(a))
    BY <2>2, ElementsOfBoth DEF Body
  <2>5. Elements(Roots(a) \o Body(a)) = Elements(Roots(a)) \cup Elements(Body(a))
    BY <2>2, ElementsOfBoth
  <2> QED BY <2>1, <2>3, <2>4, <2>5, HashesAreNoSections
<1>7. r.sections = q.sections
  <2>1. Pairs(r.sections) = Elements(restr) \cap SectionTexts
    BY <1>6 DEF restr
  <2>2. Pairs(q.sections) = Elements(restq) \cap SectionTexts
    BY <1>6 DEF restq
  <2> QED BY <1>5, <2>1, <2>2, PairsTellSections
<1> DEFINE w == SectionsWritten(r.sections)
<1>8. CASE Unwritten(r.sections)
  <2>1. w = <<>> /\ SectionsWritten(q.sections) = <<>>
    BY <1>7, <1>8, NothingWritten
  <2>2. \A v \in Seq(Hashes) : <<>> \o v = v
    BY ConcatEmptySeq
  <2>3. Body(r) = CandidateOf(r) /\ Body(q) = CandidateOf(q)
    BY <2>1, <2>2, PartsAre DEF Body
  <2>4. HashesOf(Content(r)) = Roots(r) \o CandidateOf(r)
        /\ HashesOf(Content(q)) = Roots(q) \o CandidateOf(q)
    BY DEF HashesOf, Content, Roots, CandidateOf
  <2>5. HashesOf(Content(r)) = HashesOf(Content(q))
    BY <1>5, <2>3, <2>4 DEF restr, restq
  <2> QED BY <1>3, <1>4, <1>7, <1>8, <2>5 DEF Alike, Content, Unwritten
<1>9. CASE ~Unwritten(r.sections)
  <2>1. w # <<>> /\ w \in Seq(SectionTexts) /\ w \in Seq(S) /\ CandidateOf(r) \in Seq(S)
        /\ CandidateOf(q) \in Seq(S)
    <3>1. w # <<>>
      BY <1>9, NothingWritten
    <3> QED BY <1>1, <3>1, PartsAre, SeqMonotonic
  <2>2. Body(r) = w \o CandidateOf(r) /\ Body(q) = w \o CandidateOf(q)
    BY <1>7 DEF Body
  <2>3. w[1] \notin Hashes /\ Len(w) \in Nat \ {0}
    <3>1. Len(w) \in Nat \ {0}
      BY <2>1, EmptySeq
    <3>2. w[1] \in SectionTexts
      BY <2>1, <3>1, ElementOfSeq
    <3> QED BY <3>1, <3>2, HashesAreNoSections
  <2> HIDE DEF w
  <2>4. ASSUME NEW v \in Seq(S) PROVE w \o v # <<>> /\ (w \o v)[1] = w[1]
    <3>1. Len(v) \in Nat /\ 1 \in 1..(Len(w) + Len(v)) /\ 1 <= Len(w)
      BY <2>3, LenProperties
    <3>2. Len(w \o v) = Len(w) + Len(v) /\ (w \o v)[1] = w[1]
      BY <2>1, <3>1, ConcatProperties
    <3> QED BY <2>3, <3>1, <3>2, EmptySeq
  <2>5. /\ Body(r) # <<>> /\ Body(q) # <<>>
        /\ Body(r)[1] \notin Hashes /\ Body(q)[1] \notin Hashes
    BY <2>1, <2>2, <2>3, <2>4
  <2>6. Roots(r) \o Body(r) = Roots(q) \o Body(q)
    BY <1>5 DEF restr, restq
  <2>7. Roots(r) \in Seq(Hashes) /\ Roots(q) \in Seq(Hashes)
    BY PartsAre
  <2>8. Roots(r) = Roots(q) /\ Body(r) = Body(q)
    <3>1. \A u, v \in Seq(Hashes) : \A s, t \in Seq(S) :
            s # <<>> /\ t # <<>> /\ s[1] \notin Hashes /\ t[1] \notin Hashes
              /\ u \o s = v \o t => u = v /\ s = t
      BY <1>1, SplitTells
    <3> QED BY <1>2, <2>5, <2>6, <2>7, <3>1, ZenonT(60)
  <2>9. CandidateOf(r) = CandidateOf(q)
    BY <2>1, <2>2, <2>8, CancelLeft
  <2>10. /\ ChainHashOf(r) = ChainHashOf(q) /\ r.stateRoot = q.stateRoot
         /\ r.candidate = q.candidate
    BY <2>8, <2>9, RootsTell, CandidatesTell
  <2> QED BY <1>3, <1>4, <1>7, <1>9, <2>10 DEF Alike, Content, Unwritten
<1> QED BY <1>8, <1>9

(* And the exceptions are real: alike contents are written alike.          *)
LEMMA AlikeIsWritten ==
  ASSUME NEW r, NEW q, Hashable(r), Hashable(q), Alike(Content(r), Content(q))
  PROVE  Written(r) = Written(q)
<1>1. Joined(r.ids) = Joined(q.ids) /\ r.level = q.level /\ r.sections = q.sections
  BY DEF Alike, Content
<1>2. Roots(r) \o Body(r) = Roots(q) \o Body(q)
  <2>1. CASE Unwritten(r.sections)
    <3>1. SectionsWritten(r.sections) = <<>> /\ SectionsWritten(q.sections) = <<>>
      BY <1>1, <2>1, NothingWritten
    <3>2. \A v \in Seq(Hashes) : <<>> \o v = v
      BY ConcatEmptySeq
    <3>3. Body(r) = CandidateOf(r) /\ Body(q) = CandidateOf(q)
      BY <3>1, <3>2, PartsAre DEF Body
    <3>4. HashesOf(Content(r)) = HashesOf(Content(q))
      BY <2>1 DEF Alike, Content, Unwritten
    <3>5. HashesOf(Content(r)) = Roots(r) \o CandidateOf(r)
          /\ HashesOf(Content(q)) = Roots(q) \o CandidateOf(q)
      BY DEF HashesOf, Content, Roots, CandidateOf
    <3> QED BY <3>3, <3>4, <3>5
  <2>2. CASE ~Unwritten(r.sections)
    <3>1. /\ ChainHashOf(r) = ChainHashOf(q) /\ r.stateRoot = q.stateRoot
          /\ r.candidate = q.candidate
      BY <2>2 DEF Alike, Content, Unwritten
    <3> QED BY <1>1, <3>1 DEF Roots, Body, CandidateOf
  <2> QED BY <2>1, <2>2
<1> QED BY <1>1, <1>2, WrittenParts

(* The hashes of a content, counted.                                       *)
LEMMA HashesAre ==
  ASSUME NEW r, Hashable(r)
  PROVE  HashesOf(Content(r)) =
           IF r.chain.nil
           THEN IF r.candidate = Zero THEN <<r.stateRoot>> ELSE <<r.stateRoot, r.candidate>>
           ELSE IF r.candidate = Zero THEN <<r.chain.chainHash, r.stateRoot>>
                ELSE <<r.chain.chainHash, r.stateRoot, r.candidate>>
<1>1. HashesOf(Content(r)) = Roots(r) \o CandidateOf(r)
  BY DEF HashesOf, Content, Roots, CandidateOf
<1>2. Roots(r) = IF r.chain.nil THEN <<r.stateRoot>> ELSE <<r.chain.chainHash, r.stateRoot>>
  BY JoinedTuples DEF Roots, ChainHashOf
<1> DEFINE h == r.chain.chainHash
           x == r.stateRoot
           d == r.candidate
<1> HIDE DEF h, x, d
<1>3. CandidateOf(r) = IF d = Zero THEN <<>> ELSE <<d>>
  BY DEF CandidateOf, d
<1>4. Roots(r) = IF r.chain.nil THEN <<x>> ELSE <<h, x>>
  BY <1>2 DEF h, x
<1>5. /\ <<x>> \o <<>> = <<x>> /\ <<h, x>> \o <<>> = <<h, x>>
      /\ <<x>> \o <<d>> = <<x, d>> /\ <<h, x>> \o <<d>> = <<h, x, d>>
  BY JoinedTuples
<1>6. HashesOf(Content(r)) = IF r.chain.nil THEN IF d = Zero THEN <<x>> ELSE <<x, d>>
                             ELSE IF d = Zero THEN <<h, x>> ELSE <<h, x, d>>
  BY <1>1, <1>3, <1>4, <1>5
<1> QED BY <1>6 DEF h, x, d

(* A candidate that is hashed is found again, or has become the state root *)
(* behind a chain that was not there.                                      *)
LEMMA CandidateTold ==
  ASSUME NEW r, NEW q, Hashable(r), Hashable(q), Alike(Content(r), Content(q)),
         q.candidate # Zero
  PROVE  \/ r.candidate = q.candidate
         \/ /\ ChainHashOf(q) = <<>> /\ ChainHashOf(r) = <<q.stateRoot>>
            /\ r.stateRoot = q.candidate /\ r.candidate = Zero /\ Unwritten(r.sections)
<1>1. CASE ~Unwritten(r.sections)
  BY <1>1 DEF Alike, Content, Unwritten
<1>2. CASE Unwritten(r.sections)
  <2>1. HashesOf(Content(r)) = HashesOf(Content(q))
    BY <1>2 DEF Alike, Content, Unwritten
  <2> DEFINE h(a) == a.chain.chainHash
  <2> HIDE DEF h
  <2>2. HashesOf(Content(q)) = IF q.chain.nil THEN <<q.stateRoot, q.candidate>>
                               ELSE <<h(q), q.stateRoot, q.candidate>>
    BY HashesAre DEF h
  <2>3. HashesOf(Content(r)) =
          IF r.chain.nil
          THEN IF r.candidate = Zero THEN <<r.stateRoot>> ELSE <<r.stateRoot, r.candidate>>
          ELSE IF r.candidate = Zero THEN <<h(r), r.stateRoot>>
               ELSE <<h(r), r.stateRoot, r.candidate>>
    BY HashesAre DEF h
  <2>4. \/ r.candidate = q.candidate
        \/ /\ q.chain.nil /\ ~r.chain.nil /\ h(r) = q.stateRoot
           /\ r.stateRoot = q.candidate /\ r.candidate = Zero
    BY <2>1, <2>2, <2>3
  <2> QED BY <1>2, <2>4 DEF ChainHashOf, h
<1> QED BY <1>1, <1>2

-----------------------------------------------------------------------------
(* The invariant *)

Fields == {"ids", "level", "chain", "stateRoot", "sections", "candidate", "type",
           "bundleHash", "chainVerified", "state", "anchor"}

(* A bundle is a record of its fields.                                     *)
Typed(r) ==
  /\ DOMAIN r = Fields
  /\ r.ids \in Identities /\ r.level \in Levels /\ r.stateRoot \in StateRoots
  /\ r.chain \in Chains /\ r.candidate \in Digests \cup {Zero}
  /\ r.sections \in [Sections -> UNION {Values(s) : s \in Sections}]
  /\ \A s \in Sections : r.sections[s] \in Values(s)
  /\ r.chainVerified \in BOOLEAN /\ r.anchor \in AnchorStatuses /\ r.state \in BundleStates

Results == {"", "nil", "needs candidate", "not marshalled"}

(* What a seal leaves behind: the hash is that of a content that marshals,  *)
(* the sealed one.                                                         *)
HashOfSealed(b) ==
  \E c : /\ Typed(c) /\ Marshals(c)
         /\ Content(c) = sealed[b][1].content
         /\ bundle[b].bundleHash = Sum256(Written(c))

SealOK(b) ==
  IsSealed(b) =>
    /\ bundle[b].type # "" /\ bundle[b].anchor # "" /\ bundle[b].state # ""
    /\ bundle[b].chainVerified = sealed[b][1].chainIntact
    /\ sealed[b][1].content.level = "anchored" => sealed[b][1].content.candidate \in Digests
    /\ HashOfSealed(b)

(* The inductive invariant.                                                *)
SealInv ==
  /\ DOMAIN bundle = Bundles /\ DOMAIN result = Bundles /\ DOMAIN sealed = Bundles
  /\ \A b \in Bundles : Typed(bundle[b]) /\ result[b] \in Results /\ SealOK(b)

-----------------------------------------------------------------------------
(* The steps, by what they write.                                          *)

(* From r to q nothing is sealed: the seal stays, and no type, state or     *)
(* anchor status is taken back.                                            *)
Unsealed(r, q) ==
  /\ q.bundleHash = r.bundleHash /\ q.chainVerified = r.chainVerified
  /\ q.type = r.type \/ q.type # ""
  /\ q.state = r.state \/ q.state # ""
  /\ q.anchor = r.anchor \/ q.anchor # ""
  /\ AnchorRank(q.anchor) >= AnchorRank(r.anchor)

Becomes(b, q) ==
  /\ DOMAIN bundle' = Bundles /\ bundle'[b] = q /\ sealed' = sealed
  /\ \A d \in Bundles \ {b} : bundle'[d] = bundle[d]
  /\ Typed(q) /\ Unsealed(bundle[b], q)

(* A step of the collector that fills in the bundle, of the anchoring       *)
(* workflow, of retention or of storage.                                   *)
Quiet(b) == result' = result /\ \E q : Becomes(b, q)

(* A Finalize that fails.                                                  *)
Fails(b) ==
  /\ DOMAIN result' = Bundles /\ result'[b] \in Results
  /\ \A d \in Bundles \ {b} : result'[d] = result[d]
  /\ \E q : Becomes(b, q) /\ q.state = bundle[b].state /\ q.anchor = bundle[b].anchor

LEMMA RankIsNat == \A a \in AnchorStatuses : AnchorRank(a) \in Nat
BY DEF AnchorStatuses, AnchorRank

LEMMA RankedStatuses ==
  /\ AnchorRank("unanchored") >= AnchorRank("")
  /\ AnchorRank("pending") >= AnchorRank("unanchored")
  /\ AnchorRank("anchored") >= AnchorRank("pending")
  /\ AnchorRank("verified") >= AnchorRank("anchored")
BY DEF AnchorRank

LEMMA HashIsNotZero == \A bytes : Sum256(bytes) # Zero
<1> SUFFICES ASSUME NEW bytes PROVE Sum256(bytes) # Zero
  OBVIOUS
<1>1. Len(<<bytes>>) = 1 /\ Len(<<>>) = 0
  OBVIOUS
<1>2. <<bytes>> # <<>>
  BY <1>1
<1> QED BY <1>2 DEF Sum256, Zero

LEMMA ChainsAre == \A h \in ChainHashes : \A intact \in BOOLEAN : Chain(h, intact) \in Chains
BY DEF Chains

LEMMA NilIsChain == NilChain \in Chains
<1> DEFINE others == {Chain(h, i) : h \in ChainHashes, i \in BOOLEAN}
<1>1. Chains = {NilChain} \cup others
  BY DEF Chains
<1> HIDE DEF others
<1> QED BY <1>1

LEMMA InitSealInv == Init => SealInv
<1> SUFFICES ASSUME Init PROVE SealInv
  OBVIOUS
<1>1. \A n \in NewBundles : Typed(n)
  <2> TAKE n \in NewBundles
  <2>1. PICK i \in Identities, l \in Levels, r \in StateRoots : n = New(i, l, r)
    BY DEF NewBundles
  <2> DEFINE sections == [s \in Sections |-> Empty]
  <2>2. /\ sections \in [Sections -> UNION {Values(s) : s \in Sections}]
        /\ \A s \in Sections : sections[s] \in Values(s)
    BY DEF Values
  <2>3. n.sections = sections
    BY <2>1 DEF New
  <2>4. DOMAIN n = Fields
    BY <2>1 DEF New, Fields
  <2> HIDE DEF sections
  <2>5. /\ n.ids = i /\ n.level = l /\ n.stateRoot = r /\ n.chain = NilChain /\ n.candidate = Zero
        /\ n.state = "" /\ n.anchor = ""
    BY <2>1 DEF New
  <2>6. n.chainVerified \in BOOLEAN
    BY <2>1 DEF New
  <2>7. /\ n.chain \in Chains /\ n.candidate \in Digests \cup {Zero}
        /\ n.anchor \in AnchorStatuses /\ n.state \in BundleStates
    BY <2>5, NilIsChain DEF AnchorStatuses, BundleStates
  <2>8. n.ids \in Identities /\ n.level \in Levels /\ n.stateRoot \in StateRoots
    BY <2>5
  <2> QED BY <2>2, <2>3, <2>4, <2>6, <2>7, <2>8 DEF Typed
<1>2. DOMAIN bundle = Bundles /\ \A b \in Bundles : Typed(bundle[b])
  BY <1>1 DEF Init
<1>3. result = [b \in Bundles |-> ""] /\ sealed = [b \in Bundles |-> <<>>]
  BY DEF Init
<1> QED BY <1>2, <1>3 DEF SealInv, SealOK, IsSealed, Results

LEMMA Refilled ==
  ASSUME NEW r, Typed(r)
  PROVE  Unsealed(r, r)
BY RankIsNat DEF Typed, Unsealed

LEMMA FillIsQuiet ==
  ASSUME SealInv, NEW b \in Bundles
  PROVE  /\ \A ids \in Identities : SetIdentity(b, ids) => Quiet(b)
         /\ \A level \in Levels : SetLevel(b, level) => Quiet(b)
         /\ \A root \in StateRoots : SetStateRoot(b, root) => Quiet(b)
         /\ \A chain \in Chains : AttachChain(b, chain) => Quiet(b)
         /\ \A s \in Sections : \A value \in Values(s) : SetSection(b, s, value) => Quiet(b)
         /\ \A digest \in Digests \cup {Zero} : SetAnchorCandidate(b, digest) => Quiet(b)
<1> DEFINE r == bundle[b]
<1>1. DOMAIN bundle = Bundles /\ Typed(r) /\ Unsealed(r, r)
  BY Refilled DEF SealInv
<1>2. ASSUME NEW chain \in Chains, AttachChain(b, chain) PROVE Quiet(b)
  <2> DEFINE q == [r EXCEPT !.chain = chain]
  <2>1. Typed(q) /\ Unsealed(r, q)
    <3> HIDE DEF r
    <3> QED BY <1>1 DEF Typed, Unsealed, Fields
  <2>2. Becomes(b, q)
    BY <1>1, <1>2, <2>1 DEF AttachChain, Becomes
  <2> HIDE DEF q
  <2> QED BY <1>2, <2>2 DEF AttachChain, Quiet
<1>3. ASSUME NEW s \in Sections, NEW value \in Values(s), SetSection(b, s, value) PROVE Quiet(b)
  <2> DEFINE sections == [r.sections EXCEPT ![s] = value]
             q == [r EXCEPT !.sections = sections]
  <2>1. /\ sections \in [Sections -> UNION {Values(t) : t \in Sections}]
        /\ \A t \in Sections : sections[t] \in Values(t)
    <3> HIDE DEF r
    <3> QED BY <1>1 DEF Typed
  <2>2. Typed(q) /\ Unsealed(r, q)
    <3> HIDE DEF r, sections
    <3> QED BY <1>1, <2>1 DEF Typed, Unsealed, Fields
  <2>3. Becomes(b, q)
    BY <1>1, <1>3, <2>2 DEF SetSection, Becomes
  <2> HIDE DEF q
  <2> QED BY <1>3, <2>3 DEF SetSection, Quiet
<1>4. ASSUME NEW digest \in Digests \cup {Zero}, SetAnchorCandidate(b, digest) PROVE Quiet(b)
  <2> DEFINE q == [r EXCEPT !.candidate = digest]
  <2>1. Typed(q) /\ Unsealed(r, q)
    <3> HIDE DEF r
    <3> QED BY <1>1 DEF Typed, Unsealed, Fields
  <2>2. Becomes(b, q)
    BY <1>1, <1>4, <2>1 DEF SetAnchorCandidate, Becomes
  <2> HIDE DEF q
  <2> QED BY <1>4, <2>2 DEF SetAnchorCandidate, Quiet
<1>5. ASSUME NEW ids \in Identities, SetIdentity(b, ids) PROVE Quiet(b)
  <2> DEFINE q == [r EXCEPT !.ids = ids]
  <2>1. Typed(q) /\ Unsealed(r, q)
    <3> HIDE DEF r
    <3> QED BY <1>1 DEF Typed, Unsealed, Fields
  <2>2. Becomes(b, q)
    BY <1>1, <1>5, <2>1 DEF SetIdentity, Becomes
  <2> HIDE DEF q
  <2> QED BY <1>5, <2>2 DEF SetIdentity, Quiet
<1>6. ASSUME NEW level \in Levels, SetLevel(b, level) PROVE Quiet(b)
  <2> DEFINE q == [r EXCEPT !.level = level]
  <2>1. Typed(q) /\ Unsealed(r, q)
    <3> HIDE DEF r
    <3> QED BY <1>1 DEF Typed, Unsealed, Fields
  <2>2. Becomes(b, q)
    BY <1>1, <1>6, <2>1 DEF SetLevel, Becomes
  <2> HIDE DEF q
  <2> QED BY <1>6, <2>2 DEF SetLevel, Quiet
<1>7. ASSUME NEW root \in StateRoots, SetStateRoot(b, root) PROVE Quiet(b)
  <2> DEFINE q == [r EXCEPT !.stateRoot = root]
  <2>1. Typed(q) /\ Unsealed(r, q)
    <3> HIDE DEF r
    <3> QED BY <1>1 DEF Typed, Unsealed, Fields
  <2>2. Becomes(b, q)
    BY <1>1, <1>7, <2>1 DEF SetStateRoot, Becomes
  <2> HIDE DEF q
  <2> QED BY <1>7, <2>2 DEF SetStateRoot, Quiet
<1> QED BY <1>2, <1>3, <1>4, <1>5, <1>6, <1>7

LEMMA AdvanceIsQuiet ==
  ASSUME SealInv, NEW b \in Bundles, NEW a \in AnchorStatuses,
         NEW s \in {bundle[b].state, "anchored", "verified", "expired"},
         Advance(b, a, s), a = bundle[b].anchor \/ a # "",
         AnchorRank(a) >= AnchorRank(bundle[b].anchor)
  PROVE  Quiet(b)
<1> DEFINE r == bundle[b]
           q == [r EXCEPT !.anchor = a, !.state = s]
<1>1. DOMAIN bundle = Bundles /\ Typed(r) /\ Unsealed(r, r)
  BY Refilled DEF SealInv
<1>2. s \in BundleStates /\ (s = r.state \/ s # "")
  BY <1>1 DEF Typed, BundleStates
<1>3. Typed(q) /\ Unsealed(r, q)
  <2>1. AnchorRank(a) >= AnchorRank(r.anchor) /\ (a = r.anchor \/ a # "")
    OBVIOUS
  <2> HIDE DEF r
  <2> QED BY <1>1, <1>2, <2>1 DEF Typed, Unsealed, Fields
<1>4. Becomes(b, q)
  BY <1>1, <1>3 DEF Advance, Becomes
<1> HIDE DEF q
<1> QED BY <1>4 DEF Advance, Quiet

LEMMA WorkflowIsQuiet ==
  ASSUME SealInv, NEW b \in Bundles, AnchorStep(b) \/ Expire(b) \/ DamageLinks(b)
  PROVE  Quiet(b)
<1>1. Typed(bundle[b])
  BY DEF SealInv
<1>2. CASE bundle[b].anchor = "unanchored" /\ Advance(b, "pending", bundle[b].state)
  BY <1>2, AdvanceIsQuiet, RankedStatuses DEF AnchorStatuses
<1>3. CASE bundle[b].anchor = "pending" /\ Advance(b, "anchored", "anchored")
  BY <1>3, AdvanceIsQuiet, RankedStatuses DEF AnchorStatuses
<1>4. CASE bundle[b].anchor = "anchored" /\ Advance(b, "verified", "verified")
  BY <1>4, AdvanceIsQuiet, RankedStatuses DEF AnchorStatuses
<1>5. CASE Expire(b)
  <2>1. bundle[b].anchor \in AnchorStatuses /\ AnchorRank(bundle[b].anchor) >= AnchorRank(bundle[b].anchor)
    BY <1>1, RankIsNat DEF Typed
  <2> QED BY <1>5, <2>1, AdvanceIsQuiet DEF Expire
<1>6. CASE DamageLinks(b)
  <2>1. PICK h \in ChainHashes, i \in BOOLEAN : bundle[b].chain = Chain(h, i)
    BY <1>1, <1>6 DEF DamageLinks, Typed, Chains, NilChain
  <2>2. bundle[b].chain.chainHash = h
    BY <2>1 DEF Chain
  <2>3. FALSE \in BOOLEAN /\ Chain(h, FALSE) \in Chains
    BY ChainsAre
  <2> QED BY <1>6, <2>2, <2>3, FillIsQuiet DEF DamageLinks
<1> QED BY <1>2, <1>3, <1>4, <1>5, <1>6 DEF AnchorStep

LEMMA RejectFails ==
  ASSUME SealInv, NEW b \in Bundles, RejectCandidate(b) \/ RejectContent(b)
  PROVE  Fails(b)
<1> DEFINE r == bundle[b]
<1>1. DOMAIN bundle = Bundles /\ DOMAIN result = Bundles /\ Typed(r) /\ Unsealed(r, r)
  BY Refilled DEF SealInv
<1>2. PICK q \in {r, Rejected(b)} :
        /\ DOMAIN bundle' = Bundles /\ bundle'[b] = q /\ sealed' = sealed
        /\ \A d \in Bundles \ {b} : bundle'[d] = bundle[d]
  <2>1. CASE RejectCandidate(b)
    BY <1>1, <2>1 DEF RejectCandidate
  <2>2. CASE RejectContent(b)
    BY <1>1, <2>2 DEF RejectContent
  <2> QED BY <2>1, <2>2
<1>3. Typed(q) /\ Unsealed(r, q) /\ q.state = r.state /\ q.anchor = r.anchor
  <2>1. q = r \/ q = [r EXCEPT !.type = "evidence_bundle"]
    BY DEF Rejected
  <2> HIDE DEF r
  <2> QED BY <1>1, <2>1 DEF Typed, Unsealed, Fields
<1>4. Becomes(b, q)
  BY <1>1, <1>2, <1>3 DEF Becomes
<1>5. /\ DOMAIN result' = Bundles /\ result'[b] \in Results
      /\ \A d \in Bundles \ {b} : result'[d] = result[d]
  BY <1>1 DEF RejectCandidate, RejectContent, Results
<1> QED BY <1>3, <1>4, <1>5 DEF Fails

(* Every step is quiet, a Finalize that fails or one that seals.           *)
LEMMA StepCases ==
  ASSUME SealInv, Next
  PROVE  \E b \in Bundles : Quiet(b) \/ Fails(b) \/ Seal(b)
<1>1. PICK b \in Bundles : CollectorStep(b) \/ AnchorStep(b) \/ Expire(b) \/ DamageLinks(b)
  BY DEF Next
<1>2. TRUE \in BOOLEAN /\ \A h \in ChainHashes : Chain(h, TRUE) \in Chains
  BY ChainsAre
<1>3. CASE CollectorStep(b)
  <2>1. CASE Finalize(b)
    BY <2>1, RejectFails DEF Finalize
  <2> QED BY <1>2, <1>3, <2>1, FillIsQuiet DEF CollectorStep
<1> QED BY <1>1, <1>3, WorkflowIsQuiet

-----------------------------------------------------------------------------
(* The steps keep the invariant.                                           *)

LEMMA BecomesPreserves ==
  ASSUME SealInv, NEW b \in Bundles, NEW q, Becomes(b, q)
  PROVE  \A d \in Bundles : Typed(bundle'[d]) /\ SealOK(d)' /\ Unsealed(bundle[d], bundle'[d])
<1> SUFFICES ASSUME NEW d \in Bundles
             PROVE  Typed(bundle'[d]) /\ SealOK(d)' /\ Unsealed(bundle[d], bundle'[d])
  OBVIOUS
<1>1. Typed(bundle[d]) /\ Unsealed(bundle[d], bundle[d]) /\ SealOK(d)
  BY Refilled DEF SealInv
<1>2. Typed(bundle'[d]) /\ Unsealed(bundle[d], bundle'[d])
  BY <1>1 DEF Becomes
<1>3. sealed' = sealed
  BY DEF Becomes
<1>4. HashOfSealed(d) => HashOfSealed(d)'
  BY <1>2, <1>3 DEF HashOfSealed, Unsealed
<1>5. SealOK(d)'
  BY <1>1, <1>2, <1>3, <1>4 DEF SealOK, IsSealed, Unsealed
<1> QED BY <1>2, <1>5

LEMMA SealSeals ==
  ASSUME SealInv, NEW b \in Bundles, Seal(b)
  PROVE  /\ Typed(bundle'[b]) /\ SealOK(b)'
         /\ AnchorRank(bundle'[b].anchor) >= AnchorRank(bundle[b].anchor)
<1> DEFINE r == bundle[b]
           q == bundle'[b]
<1>1. Typed(r) /\ DOMAIN bundle = Bundles /\ DOMAIN sealed = Bundles
  BY DEF SealInv
<1>2. q = Sealed(b) /\ sealed'[b] = <<SealOf(r)>>
  BY <1>1 DEF Seal
<1>3. Marshals(r) /\ ComputeBundleHash(r).hash = Sum256(Written(r))
  BY DEF Seal, ComputeBundleHash
<1>4. ChainIntact(r.chain) \in BOOLEAN
  BY <1>1 DEF Typed, Chains, NilChain, Chain, ChainIntact
<1>5. /\ Typed(q)
      /\ q.type # "" /\ q.state # "" /\ q.anchor # ""
      /\ q.anchor = IF r.anchor = "" THEN "unanchored" ELSE r.anchor
      /\ q.chainVerified = ChainIntact(r.chain)
      /\ q.bundleHash = Sum256(Written(r))
  <2>1. q = [r EXCEPT !.type = "evidence_bundle", !.bundleHash = Sum256(Written(r)),
                      !.chainVerified = ChainIntact(r.chain), !.state = "created",
                      !.anchor = IF r.anchor = "" THEN "unanchored" ELSE r.anchor]
    BY <1>2, <1>3 DEF Sealed
  <2> DEFINE intact == ChainIntact(r.chain)
             hash == Sum256(Written(r))
             status == IF r.anchor = "" THEN "unanchored" ELSE r.anchor
  <2>2. status \in AnchorStatuses /\ status # "" /\ "created" \in BundleStates
    BY <1>1 DEF Typed, AnchorStatuses, BundleStates
  <2> HIDE DEF r, q, intact, hash, status
  <2>3. q = [r EXCEPT !.type = "evidence_bundle", !.bundleHash = hash,
                      !.chainVerified = intact, !.state = "created", !.anchor = status]
    BY <2>1 DEF intact, hash, status
  <2>4. /\ Typed(q)
        /\ q.type # "" /\ q.state # "" /\ q.anchor = status
        /\ q.chainVerified = intact /\ q.bundleHash = hash
    <3>1. intact \in BOOLEAN
      BY <1>4 DEF intact
    <3> QED BY <1>1, <2>2, <2>3, <3>1 DEF Typed, Fields
  <2> QED BY <2>2, <2>4 DEF intact, hash, status
<1>6. /\ sealed'[b][1].chainIntact = ChainIntact(r.chain)
      /\ sealed'[b][1].content = Content(r)
  BY <1>2 DEF SealOf
<1>7. HashOfSealed(b)'
  <2>1. q.bundleHash = Sum256(Written(r))
    BY <1>5
  <2> HIDE DEF r
  <2> QED BY <1>1, <1>3, <1>6, <2>1 DEF HashOfSealed
<1>8. r.level = "anchored" => r.candidate \in Digests
  BY <1>1 DEF Seal, NeedsCandidate, Typed
<1>9. /\ sealed'[b][1].content.level = r.level
      /\ sealed'[b][1].content.candidate = r.candidate
  BY <1>6 DEF Content
<1>10. SealOK(b)'
  BY <1>5, <1>6, <1>7, <1>8, <1>9 DEF SealOK
<1>11. AnchorRank(q.anchor) >= AnchorRank(r.anchor)
  <2>1. CASE r.anchor = ""
    BY <1>5, <2>1, RankedStatuses
  <2>2. CASE r.anchor # ""
    <3>1. q.anchor = r.anchor /\ r.anchor \in AnchorStatuses
      BY <1>1, <1>5, <2>2 DEF Typed
    <3>2. AnchorRank(r.anchor) \in Nat
      BY <3>1, RankIsNat
    <3> HIDE DEF r, q
    <3> QED BY <3>1, <3>2
  <2> QED BY <2>1, <2>2
<1> QED BY <1>5, <1>10, <1>11

LEMMA SealPreserves ==
  ASSUME SealInv, NEW b \in Bundles, Seal(b)
  PROVE  /\ SealInv' /\ result'[b] = "nil" /\ \A d \in Bundles \ {b} : result'[d] = result[d]
         /\ \A d \in Bundles : AnchorRank(bundle'[d].anchor) >= AnchorRank(bundle[d].anchor)
<1>1. /\ DOMAIN bundle' = Bundles /\ DOMAIN result' = Bundles /\ DOMAIN sealed' = Bundles
      /\ result'[b] = "nil"
      /\ \A d \in Bundles \ {b} : bundle'[d] = bundle[d] /\ sealed'[d] = sealed[d]
                                  /\ result'[d] = result[d]
  BY DEF Seal, SealInv
<1>2. ASSUME NEW d \in Bundles \ {b}
      PROVE  /\ Typed(bundle'[d]) /\ SealOK(d)'
             /\ AnchorRank(bundle'[d].anchor) >= AnchorRank(bundle[d].anchor)
  <2>1. bundle'[d] = bundle[d] /\ sealed'[d] = sealed[d]
    BY <1>1
  <2>2. Typed(bundle[d]) /\ SealOK(d) /\ Unsealed(bundle[d], bundle[d])
    BY Refilled DEF SealInv
  <2>3. HashOfSealed(d) => HashOfSealed(d)'
    BY <2>1 DEF HashOfSealed
  <2>4. SealOK(d)'
    BY <2>1, <2>2, <2>3 DEF SealOK, IsSealed
  <2> QED BY <2>1, <2>2, <2>4 DEF Unsealed
<1>3. \A d \in Bundles : result'[d] \in Results
  BY <1>1 DEF SealInv, Results
<1>4. \A d \in Bundles : /\ Typed(bundle'[d]) /\ SealOK(d)'
                         /\ AnchorRank(bundle'[d].anchor) >= AnchorRank(bundle[d].anchor)
  BY <1>2, SealSeals
<1>5. SealInv'
  BY <1>1, <1>3, <1>4 DEF SealInv
<1> QED BY <1>1, <1>4, <1>5

LEMMA OthersPreserve ==
  ASSUME SealInv, NEW b \in Bundles, Quiet(b) \/ Fails(b)
  PROVE  SealInv' /\ \A d \in Bundles : Unsealed(bundle[d], bundle'[d])
<1>1. PICK q : Becomes(b, q)
  BY DEF Quiet, Fails
<1>2. DOMAIN result' = Bundles /\ \A d \in Bundles : result'[d] \in Results
  BY DEF Quiet, Fails, SealInv
<1>3. \A d \in Bundles : Typed(bundle'[d]) /\ SealOK(d)' /\ Unsealed(bundle[d], bundle'[d])
  BY <1>1, BecomesPreserves
<1>4. DOMAIN bundle' = Bundles /\ DOMAIN sealed' = Bundles
  BY <1>1 DEF Becomes, SealInv
<1> QED BY <1>2, <1>3, <1>4 DEF SealInv

LEMMA SealInvariant == Spec => []SealInv
<1>1. SealInv /\ [Next]_vars => SealInv'
  <2> SUFFICES ASSUME SealInv, [Next]_vars PROVE SealInv'
    OBVIOUS
  <2>1. CASE Next
    BY <2>1, StepCases, OthersPreserve, SealPreserves
  <2>2. CASE UNCHANGED vars
    BY <2>2 DEF vars, SealInv, SealOK, IsSealed, HashOfSealed
  <2> QED BY <2>1, <2>2
<1> QED BY <1>1, InitSealInv, PTL DEF Spec

-----------------------------------------------------------------------------
(* The properties *)

(* Every field keeps its type, and a bundle that was sealed has a hash, a   *)
(* type, a state and an anchor status from then on, whatever calls of      *)
(* Finalize fail later (Finalize).                                         *)
THEOREM TypeCorrect == Spec => []TypeOK
<1>1. SealInv => TypeOK
  <2> SUFFICES ASSUME SealInv, NEW b \in Bundles
               PROVE  /\ Typed(bundle[b]) /\ result[b] \in Results
                      /\ IsSealed(b) => /\ bundle[b].type # "" /\ bundle[b].anchor # ""
                                        /\ bundle[b].state # "" /\ bundle[b].bundleHash # Zero
    BY DEF TypeOK, Typed, Results
  <2>1. Typed(bundle[b]) /\ result[b] \in Results /\ SealOK(b)
    BY DEF SealInv
  <2>2. ASSUME HashOfSealed(b) PROVE bundle[b].bundleHash # Zero
    <3>1. PICK c : bundle[b].bundleHash = Sum256(Written(c))
      BY <2>2 DEF HashOfSealed
    <3> QED BY <3>1, HashIsNotZero
  <2> QED BY <2>1, <2>2 DEF SealOK
<1> QED BY <1>1, SealInvariant, PTL

LEMMA TypedHashes ==
  ASSUME NEW r, Typed(r), Marshals(r)
  PROVE  Hashable(r)
<1>1. \A s \in Sections : r.sections[s] \in {Empty} \cup Entries
  BY DEF Typed, Marshals, Values
<1>2. r.sections \in [Sections -> {Empty} \cup Entries]
  BY <1>1 DEF Typed
<1> QED BY <1>2 DEF Typed, Hashable

(* A seal and the bundle now: the hash fits exactly when the contents are  *)
(* alike.                                                                  *)
LEMMA SealTells ==
  ASSUME SealInv, NEW b \in Bundles, IsSealed(b)
  PROVE  \E c : /\ Typed(c) /\ Hashable(c) /\ Content(c) = sealed[b][1].content
                /\ Matches(b) <=> (Marshals(bundle[b]) /\ Written(bundle[b]) = Written(c))
                /\ Matches(b) <=> Alike(Content(bundle[b]), Content(c))
<1> DEFINE r == bundle[b]
<1>1. PICK c : /\ Typed(c) /\ Marshals(c) /\ Content(c) = sealed[b][1].content
               /\ r.bundleHash = Sum256(Written(c))
  BY DEF SealInv, SealOK, HashOfSealed
<1>2. Typed(r)
  BY DEF SealInv
<1>3. Matches(b) <=> (Marshals(r) /\ Written(r) = Written(c))
  <2>1. ComputeBundleHash(r).err = ~Marshals(r)
    BY DEF ComputeBundleHash
  <2>2. Marshals(r) => ComputeBundleHash(r).hash = Sum256(Written(r))
    BY DEF ComputeBundleHash
  <2>3. Marshals(r) => (ComputeBundleHash(r).hash = r.bundleHash <=> Written(r) = Written(c))
    BY <1>1, <2>2 DEF Sum256
  <2> QED BY <2>1, <2>3 DEF Matches
<1>4. Hashable(c)
  BY <1>1, TypedHashes
<1> HIDE DEF r
<1>5. ASSUME Marshals(r), Written(r) = Written(c) PROVE Alike(Content(r), Content(c))
  BY <1>2, <1>4, <1>5, TypedHashes, WrittenTells
<1>6. ASSUME Alike(Content(r), Content(c)) PROVE Marshals(r) /\ Written(r) = Written(c)
  <2>1. r.sections = c.sections
    BY <1>6 DEF Alike, Content
  <2>2. Marshals(r)
    BY <1>1, <2>1 DEF Marshals
  <2> QED BY <1>2, <1>4, <1>6, <2>2, TypedHashes, AlikeIsWritten
<1>7. Matches(b) <=> Alike(Content(r), Content(c))
  BY <1>3, <1>5, <1>6
<1> QED BY <1>1, <1>3, <1>4, <1>7 DEF r

(* Recomputing the hash of a sealed bundle gives its BundleHash exactly     *)
(* when the content is the sealed one or one the code writes in the same   *)
(* way, for any identifiers, sections and digests, whoever wrote what      *)
(* since, and whatever became of the mutable fields (ComputeBundleHash,    *)
(* Finalize).                                                              *)
THEOREM DriftAlwaysVisible == Spec => []DriftVisible
<1>1. SealInv => DriftVisible
  BY SealTells DEF DriftVisible
<1> QED BY <1>1, SealInvariant, PTL

(* ChainVerified is the verdict on the chain as it was at the last          *)
(* successful Finalize, however often the bundle is sealed and damaged.    *)
THEOREM VerdictHolds == Spec => []VerdictOfSealedChain
<1>1. SealInv => VerdictOfSealedChain
  BY DEF SealInv, SealOK, VerdictOfSealedChain
<1> QED BY <1>1, SealInvariant, PTL

(* As long as its hash fits, a bundle of level anchored has the candidate   *)
(* it was sealed with, whatever was written to it since; but for the one   *)
(* exception that the hash cannot see (Finalize, ComputeBundleHash,        *)
(* ErrAnchoredBundleNeedsCandidate).                                       *)
THEOREM CandidateHolds == Spec => []CandidateStays
<1>1. SealInv => CandidateStays
  <2> SUFFICES ASSUME SealInv, NEW b \in Bundles, IsSealed(b), bundle[b].level = "anchored",
                      Matches(b)
               PROVE  LET seal == sealed[b][1].content IN
                      /\ seal.level = "anchored" /\ seal.candidate \in Digests
                      /\ bundle[b].candidate = seal.candidate \/ Shifted(b)
    BY DEF CandidateStays
  <2> DEFINE r == bundle[b]
             seal == sealed[b][1].content
  <2>1. PICK c : /\ Hashable(c) /\ Content(c) = seal /\ Marshals(r)
                 /\ Alike(Content(r), Content(c))
    BY SealTells
  <2>2. Hashable(r)
    BY <2>1, TypedHashes DEF SealInv
  <2>3. /\ seal.level = c.level /\ seal.candidate = c.candidate
        /\ seal.chainHash = ChainHashOf(c) /\ seal.stateRoot = c.stateRoot
    BY <2>1 DEF Content
  <2>4. seal.level = "anchored"
    BY <2>1, <2>3 DEF Alike, Content
  <2>5. seal.candidate \in Digests
    BY <2>4 DEF SealInv, SealOK
  <2>6. c.candidate # Zero
    BY <2>3, <2>5, HashesAssumption
  <2>7. \/ r.candidate = c.candidate
        \/ /\ ChainHashOf(c) = <<>> /\ ChainHashOf(r) = <<c.stateRoot>>
           /\ r.stateRoot = c.candidate /\ r.candidate = Zero /\ Unwritten(r.sections)
    BY <2>1, <2>2, <2>6, CandidateTold
  <2> QED BY <2>3, <2>4, <2>5, <2>7 DEF Shifted, Unwritten
<1> QED BY <1>1, SealInvariant, PTL

(* Sealing again never takes an anchor status back (Finalize).             *)
THEOREM AnchorHolds == Spec => AnchorNeverRegresses
<1> DEFINE Forward == \A b \in Bundles : AnchorRank(bundle'[b].anchor) >= AnchorRank(bundle[b].anchor)
<1>1. ASSUME SealInv, [Next]_vars PROVE Forward
  <2>1. CASE UNCHANGED vars
    BY <1>1, <2>1, Refilled DEF vars, SealInv, Unsealed
  <2>2. CASE Next
    <3>1. PICK b \in Bundles : Quiet(b) \/ Fails(b) \/ Seal(b)
      BY <1>1, <2>2, StepCases
    <3> QED BY <1>1, <3>1, OthersPreserve, SealPreserves DEF Unsealed
  <2> QED BY <1>1, <2>1, <2>2
<1>2. SealInv /\ [Next]_vars => [Forward]_vars
  BY <1>1
<1> QED BY <1>2, SealInvariant, PTL DEF Spec, AnchorNeverRegresses

(* A Finalize that fails leaves the seal and the lifecycle of a bundle as   *)
(* they were (Finalize, its two early returns).                            *)
THEOREM FailedFinalizeHolds == Spec => FailedFinalizeKeepsSeal
<1> DEFINE Kept(b) == /\ bundle'[b].bundleHash = bundle[b].bundleHash
                      /\ bundle'[b].chainVerified = bundle[b].chainVerified
                      /\ bundle'[b].state = bundle[b].state
                      /\ bundle'[b].anchor = bundle[b].anchor
           Failed(b) == result'[b] # result[b] /\ result'[b] # "nil"
<1>1. ASSUME SealInv, [Next]_vars PROVE \A b \in Bundles : Failed(b) => Kept(b)
  <2>1. CASE UNCHANGED vars
    BY <2>1 DEF vars
  <2>2. CASE Next
    <3>1. PICK d \in Bundles : Quiet(d) \/ Fails(d) \/ Seal(d)
      BY <1>1, <2>2, StepCases
    <3>2. CASE Quiet(d)
      BY <3>2 DEF Quiet
    <3>3. CASE Fails(d)
      BY <1>1, <3>3 DEF Fails, Becomes, Unsealed
    <3>4. CASE Seal(d)
      BY <1>1, <3>4, SealPreserves
    <3> QED BY <3>1, <3>2, <3>3, <3>4
  <2> QED BY <1>1, <2>1, <2>2
<1>2. SealInv /\ [Next]_vars => [\A b \in Bundles : Failed(b) => Kept(b)]_vars
  BY <1>1
<1> QED BY <1>2, SealInvariant, PTL DEF Spec, FailedFinalizeKeepsSeal
=============================================================================
