-------------------------- MODULE MerkleTree_proofs --------------------------
(***************************************************************************)
(* Proofs about MerkleTree for chains of any length over any contents.     *)
(*                                                                         *)
(* The argument: the root's passes over one array leave in its first cells *)
(* the levels that the proof builds afresh, so there is one tree.  Upwards *)
(* from the leaf, what the verifier computes is the node at its position;  *)
(* downwards from the root, equal nodes have equal children.  All of it is *)
(* by induction on the level.                                              *)
(***************************************************************************)
EXTENDS MerkleTree, Induction

-----------------------------------------------------------------------------
(* Sizes and depths *)

LEMMA SizeIs ==
  /\ Size \in [Nat -> Nat] /\ Size[0] = 1
  /\ \A d \in Nat : Size[d + 1] = 2 * Size[d]
<1> DEFINE twice == [v \in Nat |-> 2 * v]
           Doubles(g) == g = [d \in Nat |-> IF d = 0 THEN 1 ELSE 2 * g[d - 1]]
<1>1. PICK f : GoesOnBy(f, Nat, 1, twice)
  <2>1. 1 \in Nat /\ twice \in [Nat -> Nat]
    OBVIOUS
  <2> HIDE DEF twice
  <2> QED BY <2>1, Recursion
<1>2. \A d \in Nat : f[d] = IF d = 0 THEN 1 ELSE 2 * f[d - 1]
  <2> TAKE d \in Nat
  <2>1. CASE d # 0
    <3>1. d - 1 \in Nat /\ (d - 1) + 1 = d
      BY <2>1
    <3> QED BY <1>1, <2>1, <3>1 DEF GoesOnBy
  <2> QED BY <1>1, <2>1 DEF GoesOnBy
<1>3. Doubles(f)
  BY <1>1, <1>2 DEF GoesOnBy
<1>4. Doubles(Size)
  <2>1. Size = CHOOSE g : Doubles(g)
    BY DEF Size
  <2> HIDE DEF Doubles
  <2> QED BY <1>3, <2>1
<1>5. \A d \in Nat : Size[d] = IF d = 0 THEN 1 ELSE 2 * Size[d - 1]
  BY <1>4
<1>6. \A d \in Nat : Size[d + 1] = 2 * Size[d]
  <2> TAKE d \in Nat
  <2>1. d + 1 \in Nat /\ d + 1 # 0 /\ (d + 1) - 1 = d
    OBVIOUS
  <2> QED BY <1>5, <2>1
<1>7. \A d \in Nat : Size[d] \in Nat
  <2> DEFINE T == {d \in Nat : Size[d] \in Nat}
  <2>1. 0 \in T
    BY <1>5
  <2>2. \A d \in Nat : d \in T => d + 1 \in T
    BY <1>6
  <2> HIDE DEF T
  <2>3. Nat \subseteq T
    BY <2>1, <2>2, InductionOnNat
  <2> QED BY <2>3 DEF T
<1> QED BY <1>4, <1>5, <1>6, <1>7

LEMMA SizeGrows == \A d \in Nat : d < Size[d]
<1> DEFINE T == {d \in Nat : d < Size[d]}
<1>1. 0 \in T /\ \A d \in Nat : d \in T => d + 1 \in T
  BY SizeIs
<1>2. Nat \subseteq T
  <2> HIDE DEF T
  <2> QED BY <1>1, InductionOnNat
<1> QED BY <1>2

LEMMA SizeMonotone == \A d, e \in Nat : d < e => Size[d] < Size[e]
<1> DEFINE T == {k \in Nat : \A d \in Nat : Size[d] < Size[d + k + 1]}
<1>1. \A d \in Nat : Size[d] \in Nat /\ 0 < Size[d] /\ Size[d + 1] = 2 * Size[d]
  BY SizeIs, SizeGrows
<1>2. 0 \in T
  BY <1>1
<1>3. ASSUME NEW k \in Nat, k \in T PROVE k + 1 \in T
  <2> SUFFICES ASSUME NEW d \in Nat PROVE Size[d] < Size[d + (k + 1) + 1]
    OBVIOUS
  <2>1. Size[d] < Size[d + k + 1] /\ d + k + 1 \in Nat /\ d + (k + 1) + 1 = (d + k + 1) + 1
    BY <1>3
  <2> QED BY <1>1, <2>1
<1>4. Nat \subseteq T
  <2> HIDE DEF T
  <2> QED BY <1>2, <1>3, InductionOnNat
<1> SUFFICES ASSUME NEW d \in Nat, NEW e \in Nat, d < e PROVE Size[d] < Size[e]
  OBVIOUS
<1>5. e - d - 1 \in Nat /\ d + (e - d - 1) + 1 = e
  OBVIOUS
<1> QED BY <1>4, <1>5

LEMMA DepthIs ==
  ASSUME NEW n \in Nat
  PROVE  /\ Depth(n) \in 0..n /\ n <= Size[Depth(n)]
         /\ \A e \in 0..(Depth(n) - 1) : Size[e] < n
<1> DEFINE T == {d \in 0..n : n <= Size[d]}
<1>1. n \in T
  BY SizeGrows, SizeIs
<1>2. PICK d \in T : \A e \in T : d <= e
  <2>1. T \subseteq Nat
    OBVIOUS
  <2> HIDE DEF T
  <2> QED BY <1>1, <2>1, Smallest
<1>3. \A e \in 0..(d - 1) : Size[e] < n
  BY <1>2, SizeIs
<1> QED BY <1>2, <1>3 DEF Depth

-----------------------------------------------------------------------------
(* The recursive definitions have the equations they are written with: for *)
(* every number of steps there is a function that has them.                *)

(* The level above another one.                                            *)
Above(array, half) == [i \in 1..half |-> Sum256(array[2 * i - 1], array[2 * i])]

LEMMA LevelsAre ==
  ASSUME NEW hashes, Len(hashes) \in Nat, NEW depth, depth = Depth(Len(hashes))
  PROVE  /\ Levels(hashes)[0] = Padded(hashes)
         /\ \A d \in 1..depth : Levels(hashes)[d] = Above(Levels(hashes)[d - 1], Size[depth - d])
<1> DEFINE Built(n, g) == g = [d \in 0..n |-> IF d = 0 THEN Padded(hashes) ELSE Above(g[d - 1], Size[depth - d])]
           T == {n \in Nat : \E g : Built(n, g)}
<1>1. 0 \in T
  <2>1. Built(0, [d \in 0..0 |-> Padded(hashes)])
    OBVIOUS
  <2> QED BY <2>1
<1>2. ASSUME NEW n \in Nat, n \in T PROVE n + 1 \in T
  <2>1. PICK g : Built(n, g)
    BY <1>2
  <2> DEFINE h == [d \in 0..(n + 1) |-> IF d = n + 1 THEN Above(g[n], Size[depth - (n + 1)]) ELSE g[d]]
  <2>2. \A d \in 0..(n + 1) : h[d] = IF d = 0 THEN Padded(hashes) ELSE Above(h[d - 1], Size[depth - d])
    <3> TAKE d \in 0..(n + 1)
    <3>1. CASE d = 0
      BY <2>1, <3>1
    <3>2. CASE d \in 1..n
      BY <2>1, <3>2
    <3>3. CASE d = n + 1
      BY <3>3
    <3> QED BY <3>1, <3>2, <3>3
  <2>3. Built(n + 1, h)
    BY <2>2
  <2> HIDE DEF Built, h
  <2> QED BY <2>3
<1>3. depth \in Nat
  BY DepthIs
<1>4. Built(depth, Levels(hashes))
  <2>1. \E g : Built(depth, g)
    <3> HIDE DEF Built
    <3>1. Nat \subseteq T
      <4> HIDE DEF T
      <4> QED BY <1>1, <1>2, InductionOnNat
    <3> QED BY <1>3, <3>1
  <2>2. Levels(hashes) = CHOOSE g : Built(depth, g)
    BY DEF Levels, Above
  <2> HIDE DEF Built
  <2> QED BY <2>1, <2>2
<1>5. \A d \in 0..depth : Levels(hashes)[d] =
        IF d = 0 THEN Padded(hashes) ELSE Above(Levels(hashes)[d - 1], Size[depth - d])
  BY <1>4
<1> QED BY <1>3, <1>5

LEMMA HalvedIs ==
  ASSUME NEW array, NEW half \in Nat, NEW N \in Nat, DOMAIN array = 1..N, 2 * half <= N
  PROVE  /\ DOMAIN Halved(array, half) = 1..N
         /\ \A j \in 1..half : Halved(array, half)[j] = Sum256(array[2 * j - 1], array[2 * j])
<1> DEFINE Set(a, i) == [a EXCEPT ![i] = Sum256(a[2 * i - 1], a[2 * i])]
           Built(n, g) == g = [d \in 0..n |-> IF d = 0 THEN array ELSE Set(g[d - 1], d)]
           T == {n \in Nat : \E g : Built(n, g)}
<1>1. 0 \in T
  <2>1. Built(0, [d \in 0..0 |-> array])
    OBVIOUS
  <2> QED BY <2>1
<1>2. ASSUME NEW n \in Nat, n \in T PROVE n + 1 \in T
  <2>1. PICK g : Built(n, g)
    BY <1>2
  <2> HIDE DEF Set
  <2> DEFINE h == [d \in 0..(n + 1) |-> IF d = n + 1 THEN Set(g[n], n + 1) ELSE g[d]]
  <2>2. \A d \in 0..(n + 1) : h[d] = IF d = 0 THEN array ELSE Set(h[d - 1], d)
    <3> TAKE d \in 0..(n + 1)
    <3>1. CASE d = 0
      BY <2>1, <3>1
    <3>2. CASE d \in 1..n
      BY <2>1, <3>2
    <3>3. CASE d = n + 1
      BY <3>3
    <3> QED BY <3>1, <3>2, <3>3
  <2>3. Built(n + 1, h)
    BY <2>2
  <2> HIDE DEF Built, h
  <2> QED BY <2>3
<1>3. half \in Nat
  OBVIOUS
<1>4. Built(half, (CHOOSE g : Built(half, g)))
  <2>1. \E g : Built(half, g)
    <3> HIDE DEF Built
    <3>1. Nat \subseteq T
      <4> HIDE DEF T
      <4> QED BY <1>1, <1>2, InductionOnNat
    <3> QED BY <1>3, <3>1
  <2> HIDE DEF Built
  <2> QED BY <2>1
<1> DEFINE pass == CHOOSE g : Built(half, g)
<1>5. Halved(array, half) = pass[half]
  BY DEF Halved
<1> HIDE DEF pass
<1>6. Built(half, pass)
  BY <1>4 DEF pass
<1>7. pass[0] = array /\ \A i \in 1..half : pass[i] = Set(pass[i - 1], i)
  <2> HIDE DEF Set
  <2> QED BY <1>6
<1> DEFINE Right(i) ==
             /\ DOMAIN pass[i] = 1..N
             /\ \A j \in 1..i : pass[i][j] = Sum256(array[2 * j - 1], array[2 * j])
             /\ \A j \in (i + 1)..N : pass[i][j] = array[j]
           U == {i \in 0..half : Right(i)}
<1>8. 0 \in U
  BY <1>7
<1>9. ASSUME NEW i \in 1..half, i - 1 \in U PROVE i \in U
  <2>1. Right(i - 1)
    BY <1>9
  <2>2. pass[i] = Set(pass[i - 1], i)
    BY <1>7
  <2>3. 2 * i - 1 \in i..N /\ 2 * i \in i..N /\ i \in 1..N
    OBVIOUS
  <2>4. pass[i - 1][2 * i - 1] = array[2 * i - 1] /\ pass[i - 1][2 * i] = array[2 * i]
    BY <2>1, <2>3
  <2>5. /\ DOMAIN pass[i] = 1..N /\ pass[i][i] = Sum256(array[2 * i - 1], array[2 * i])
        /\ \A j \in 1..N : j # i => pass[i][j] = pass[i - 1][j]
    BY <2>1, <2>2, <2>3, <2>4
  <2>6. \A j \in 1..i : pass[i][j] = Sum256(array[2 * j - 1], array[2 * j])
    <3> TAKE j \in 1..i
    <3>1. CASE j = i
      BY <2>5, <3>1
    <3>2. CASE j # i
      <4>1. j \in 1..(i - 1) /\ j \in 1..N /\ j # i
        BY <3>2
      <4> QED BY <2>1, <2>5, <3>2, <4>1
    <3> QED BY <3>1, <3>2
  <2>7. \A j \in (i + 1)..N : pass[i][j] = array[j]
    <3> TAKE j \in (i + 1)..N
    <3>1. j \in 1..N /\ j # i /\ j \in ((i - 1) + 1)..N
      OBVIOUS
    <3> QED BY <2>1, <2>5, <3>1
  <2> QED BY <2>5, <2>6, <2>7
<1>10. half \in U
  <2> HIDE DEF U
  <2> QED BY <1>8, <1>9, InductionUpTo, SMTT(30)
<1> QED BY <1>5, <1>10

LEMMA PassesAre ==
  ASSUME NEW hashes, Len(hashes) \in Nat, NEW depth, depth = Depth(Len(hashes))
  PROVE  /\ Passes(hashes)[0] = Padded(hashes)
         /\ \A d \in 1..depth :
              Passes(hashes)[d] = Halved(Passes(hashes)[d - 1], Size[depth - d])
<1> DEFINE Pass(array, d) == Halved(array, Size[depth - d])
           Built(n, g) == g = [d \in 0..n |-> IF d = 0 THEN Padded(hashes) ELSE Pass(g[d - 1], d)]
           T == {n \in Nat : \E g : Built(n, g)}
<1>1. 0 \in T
  <2>1. Built(0, [d \in 0..0 |-> Padded(hashes)])
    OBVIOUS
  <2> QED BY <2>1
<1>2. ASSUME NEW n \in Nat, n \in T PROVE n + 1 \in T
  <2>1. PICK g : Built(n, g)
    BY <1>2
  <2> HIDE DEF Pass
  <2> DEFINE h == [d \in 0..(n + 1) |-> IF d = n + 1 THEN Pass(g[n], n + 1) ELSE g[d]]
  <2>2. \A d \in 0..(n + 1) : h[d] = IF d = 0 THEN Padded(hashes) ELSE Pass(h[d - 1], d)
    <3> TAKE d \in 0..(n + 1)
    <3>1. CASE d = 0
      BY <2>1, <3>1
    <3>2. CASE d \in 1..n
      BY <2>1, <3>2
    <3>3. CASE d = n + 1
      BY <3>3
    <3> QED BY <3>1, <3>2, <3>3
  <2>3. Built(n + 1, h)
    BY <2>2
  <2> HIDE DEF Built, h
  <2> QED BY <2>3
<1>3. depth \in Nat
  BY DepthIs
<1>4. Built(depth, Passes(hashes))
  <2>1. \E g : Built(depth, g)
    <3> HIDE DEF Built
    <3>1. Nat \subseteq T
      <4> HIDE DEF T
      <4> QED BY <1>1, <1>2, InductionOnNat
    <3> QED BY <1>3, <3>1
  <2>2. Passes(hashes) = CHOOSE g : Built(depth, g)
    BY DEF Passes
  <2> HIDE DEF Built
  <2> QED BY <2>1, <2>2
<1>5. \A d \in 0..depth : Passes(hashes)[d] =
        IF d = 0 THEN Padded(hashes) ELSE Pass(Passes(hashes)[d - 1], d)
  <2> HIDE DEF Pass
  <2> QED BY <1>4
<1> QED BY <1>3, <1>5

LEMMA PositionsAre ==
  ASSUME NEW index \in Nat, NEW depth \in Nat
  PROVE  /\ Positions(index, depth)[0] = index
         /\ \A d \in 1..depth : Positions(index, depth)[d] = Positions(index, depth)[d - 1] \div 2
         /\ \A d \in 0..depth : Positions(index, depth)[d] \in Nat
<1> DEFINE Half(v, d) == v \div 2
           Built(n, g) == g = [d \in 0..n |-> IF d = 0 THEN index ELSE Half(g[d - 1], d)]
           T == {n \in Nat : \E g : Built(n, g)}
<1>1. 0 \in T
  <2>1. Built(0, [d \in 0..0 |-> index])
    OBVIOUS
  <2> QED BY <2>1
<1>2. ASSUME NEW n \in Nat, n \in T PROVE n + 1 \in T
  <2>1. PICK g : Built(n, g)
    BY <1>2
  <2> HIDE DEF Half
  <2> DEFINE h == [d \in 0..(n + 1) |-> IF d = n + 1 THEN Half(g[n], n + 1) ELSE g[d]]
  <2>2. \A d \in 0..(n + 1) : h[d] = IF d = 0 THEN index ELSE Half(h[d - 1], d)
    <3> TAKE d \in 0..(n + 1)
    <3>1. CASE d = 0
      BY <2>1, <3>1
    <3>2. CASE d \in 1..n
      BY <2>1, <3>2
    <3>3. CASE d = n + 1
      BY <3>3
    <3> QED BY <3>1, <3>2, <3>3
  <2>3. Built(n + 1, h)
    BY <2>2
  <2> HIDE DEF Built, h
  <2> QED BY <2>3
<1>3. depth \in Nat
  OBVIOUS
<1>4. Built(depth, Positions(index, depth))
  <2>1. \E g : Built(depth, g)
    <3> HIDE DEF Built
    <3>1. Nat \subseteq T
      <4> HIDE DEF T
      <4> QED BY <1>1, <1>2, InductionOnNat
    <3> QED BY <1>3, <3>1
  <2>2. Positions(index, depth) = CHOOSE g : Built(depth, g)
    BY DEF Positions
  <2> HIDE DEF Built
  <2> QED BY <2>1, <2>2
<1> DEFINE idx == Positions(index, depth)
<1>5. \A d \in 0..depth : idx[d] = IF d = 0 THEN index ELSE Half(idx[d - 1], d)
  <2> HIDE DEF Half
  <2> QED BY <1>4
<1> HIDE DEF idx
<1>6. idx[0] = index /\ \A d \in 1..depth : idx[d] = idx[d - 1] \div 2
  BY <1>5
<1> DEFINE U == {d \in 0..depth : idx[d] \in Nat}
<1>7. 0 \in U /\ \A d \in 1..depth : d - 1 \in U => d \in U
  BY <1>6
<1>8. 0..depth \subseteq U
  <2> HIDE DEF U
  <2> QED BY <1>7, InductionUpTo
<1> QED BY <1>6, <1>8 DEF idx

Combine(computed, sibling, position) ==
  IF position % 2 = 0 THEN Sum256(computed, sibling) ELSE Sum256(sibling, computed)

LEMMA CombinedIs ==
  ASSUME NEW p, NEW depth \in Nat, Len(p.path) = depth
  PROVE  /\ Combined(p)[0] = p.leaf
         /\ \A d \in 1..depth :
              Combined(p)[d] =
                Combine(Combined(p)[d - 1], p.path[d], Positions(p.index, depth)[d - 1])
<1> DEFINE With(v, d) == Combine(v, p.path[d], Positions(p.index, depth)[d - 1])
           Built(n, g) == g = [d \in 0..n |-> IF d = 0 THEN p.leaf ELSE With(g[d - 1], d)]
           T == {n \in Nat : \E g : Built(n, g)}
<1>1. 0 \in T
  <2>1. Built(0, [d \in 0..0 |-> p.leaf])
    OBVIOUS
  <2> QED BY <2>1
<1>2. ASSUME NEW n \in Nat, n \in T PROVE n + 1 \in T
  <2>1. PICK g : Built(n, g)
    BY <1>2
  <2> HIDE DEF With
  <2> DEFINE h == [d \in 0..(n + 1) |-> IF d = n + 1 THEN With(g[n], n + 1) ELSE g[d]]
  <2>2. \A d \in 0..(n + 1) : h[d] = IF d = 0 THEN p.leaf ELSE With(h[d - 1], d)
    <3> TAKE d \in 0..(n + 1)
    <3>1. CASE d = 0
      BY <2>1, <3>1
    <3>2. CASE d \in 1..n
      BY <2>1, <3>2
    <3>3. CASE d = n + 1
      BY <3>3
    <3> QED BY <3>1, <3>2, <3>3
  <2>3. Built(n + 1, h)
    BY <2>2
  <2> HIDE DEF Built, h
  <2> QED BY <2>3
<1>3. depth \in Nat
  OBVIOUS
<1>4. Built(depth, Combined(p))
  <2>1. \E g : Built(depth, g)
    <3> HIDE DEF Built
    <3>1. Nat \subseteq T
      <4> HIDE DEF T
      <4> QED BY <1>1, <1>2, InductionOnNat
    <3> QED BY <1>3, <3>1
  <2>2. Combined(p) = CHOOSE g : Built(depth, g)
    BY DEF Combined, Combine
  <2> HIDE DEF Built
  <2> QED BY <2>1, <2>2
<1>5. \A d \in 0..depth : Combined(p)[d] = IF d = 0 THEN p.leaf ELSE With(Combined(p)[d - 1], d)
  <2> HIDE DEF With
  <2> QED BY <1>4
<1> QED BY <1>5

-----------------------------------------------------------------------------
(* The tree of a chain *)

Chains == Seq(Hashes) \ {<<>>}

LEMMA ChainDepth ==
  ASSUME NEW hashes \in Chains, NEW depth, depth = Depth(Len(hashes))
  PROVE  /\ Len(hashes) \in Nat \ {0} /\ depth \in Nat
         /\ Len(hashes) <= Size[depth]
         /\ \A d \in 0..depth : Size[d] \in Nat /\ 0 < Size[d] /\ Size[d] <= Size[depth]
         /\ \A d \in 1..depth : Size[depth - (d - 1)] = 2 * Size[depth - d]
<1>1. Len(hashes) \in Nat \ {0}
  BY DEF Chains
<1>2. depth \in Nat /\ Len(hashes) <= Size[depth]
  BY <1>1, DepthIs
<1>3. \A d \in 0..depth : Size[d] \in Nat /\ 0 < Size[d] /\ Size[d] <= Size[depth]
  <2> TAKE d \in 0..depth
  <2>1. d \in Nat /\ (d < depth \/ d = depth)
    BY <1>2
  <2>2. Size[d] \in Nat /\ Size[depth] \in Nat /\ d < Size[d]
    BY <1>2, <2>1, SizeIs, SizeGrows
  <2>3. Size[d] < Size[depth] \/ Size[d] = Size[depth]
    BY <1>2, <2>1, SizeMonotone
  <2> QED BY <2>1, <2>2, <2>3
<1>4. \A d \in 1..depth : Size[depth - (d - 1)] = 2 * Size[depth - d]
  <2> TAKE d \in 1..depth
  <2>1. depth - d \in Nat /\ (depth - d) + 1 = depth - (d - 1)
    BY <1>2
  <2>2. Size[(depth - d) + 1] = 2 * Size[depth - d]
    BY <2>1, SizeIs
  <2> QED BY <2>1, <2>2
<1> QED BY <1>1, <1>2, <1>3, <1>4

LEMMA LeavesAre ==
  ASSUME NEW hashes \in Chains, NEW depth, depth = Depth(Len(hashes))
  PROVE  /\ Padded(hashes) \in [1..Size[depth] -> Hashes]
         /\ \A i \in 1..Len(hashes) : Padded(hashes)[i] = hashes[i]
<1>1. Len(hashes) \in Nat \ {0} /\ depth \in Nat /\ Len(hashes) <= Size[depth] /\ Size[depth] \in Nat
  BY ChainDepth, SizeIs
<1>2. \A i \in 1..Len(hashes) : hashes[i] \in Hashes
  BY DEF Chains
<1> QED BY <1>1, <1>2 DEF Padded

(* Each level is half as long as the one below, and its nodes combine the  *)
(* two below them.                                                         *)
LEMMA LevelsShape ==
  ASSUME NEW hashes \in Chains, NEW depth, depth = Depth(Len(hashes))
  PROVE  /\ \A d \in 0..depth : DOMAIN Levels(hashes)[d] = 1..Size[depth - d]
         /\ Levels(hashes)[0] = Padded(hashes)
         /\ \A d \in 1..depth : \A i \in 1..Size[depth - d] :
              Levels(hashes)[d][i] =
                Sum256(Levels(hashes)[d - 1][2 * i - 1], Levels(hashes)[d - 1][2 * i])
<1>1. Len(hashes) \in Nat /\ depth \in Nat
  BY ChainDepth
<1>2. Levels(hashes)[0] = Padded(hashes)
  BY <1>1, LevelsAre
<1>3. ASSUME NEW d \in 1..depth
      PROVE  Levels(hashes)[d] = Above(Levels(hashes)[d - 1], Size[depth - d])
  BY <1>1, LevelsAre
<1>4. DOMAIN Levels(hashes)[0] = 1..Size[depth - 0]
  BY <1>1, <1>2, LeavesAre
<1>5. ASSUME NEW d \in 0..depth PROVE DOMAIN Levels(hashes)[d] = 1..Size[depth - d]
  <2>1. CASE d = 0
    BY <1>4, <2>1
  <2>2. CASE d \in 1..depth
    BY <1>3, <2>2 DEF Above
  <2> QED BY <1>1, <2>1, <2>2
<1> QED BY <1>2, <1>3, <1>5 DEF Above

(* The root computed in place is the top of that tree: after every pass    *)
(* the first cells of the array hold the level.                            *)
LEMMA RootIs ==
  ASSUME NEW hashes \in Chains, NEW depth, depth = Depth(Len(hashes))
  PROVE  ComputeEvidenceMerkleRoot(hashes) = Levels(hashes)[depth][1]
<1> DEFINE Agree(d) ==
             /\ DOMAIN Passes(hashes)[d] = 1..Size[depth]
             /\ \A j \in 1..Size[depth - d] : Passes(hashes)[d][j] = Levels(hashes)[d][j]
           T == {d \in 0..depth : Agree(d)}
<1>1. Len(hashes) \in Nat /\ depth \in Nat
  BY ChainDepth
<1>2. 0 \in T
  BY <1>1, PassesAre, LevelsShape, LeavesAre
<1>3. ASSUME NEW d \in 1..depth, d - 1 \in T PROVE d \in T
  <2> DEFINE half == Size[depth - d]
             array == Passes(hashes)[d - 1]
             below == Levels(hashes)[d - 1]
  <2>1. /\ DOMAIN array = 1..Size[depth]
        /\ \A j \in 1..Size[depth - (d - 1)] : array[j] = below[j]
    BY <1>3
  <2>2. half \in Nat /\ Size[depth] \in Nat /\ Size[depth - (d - 1)] = 2 * half
        /\ 2 * half <= Size[depth]
    <3>1. depth - d \in 0..depth /\ depth - (d - 1) \in 0..depth /\ depth \in 0..depth
      BY <1>1
    <3> QED BY <3>1, ChainDepth
  <2>3. Passes(hashes)[d] = Halved(array, half)
    BY <1>1, PassesAre
  <2> HIDE DEF half, array, below
  <2>4. /\ DOMAIN Halved(array, half) = 1..Size[depth]
        /\ \A j \in 1..half : Halved(array, half)[j] = Sum256(array[2 * j - 1], array[2 * j])
    BY <2>1, <2>2, HalvedIs
  <2>5. \A j \in 1..half : Levels(hashes)[d][j] = Sum256(below[2 * j - 1], below[2 * j])
    BY LevelsShape DEF half, below
  <2>6. \A j \in 1..half : array[2 * j - 1] = below[2 * j - 1] /\ array[2 * j] = below[2 * j]
    <3> TAKE j \in 1..half
    <3>1. 2 * j - 1 \in 1..(2 * half) /\ 2 * j \in 1..(2 * half)
      BY <2>2
    <3> QED BY <2>1, <2>2, <3>1
  <2>7. \A j \in 1..half : Passes(hashes)[d][j] = Levels(hashes)[d][j]
    BY <2>3, <2>4, <2>5, <2>6
  <2> QED BY <2>3, <2>4, <2>7 DEF half
<1>4. depth \in T
  <2>1. 0..depth \subseteq T
    <3> HIDE DEF T
    <3> QED BY <1>1, <1>2, <1>3, InductionUpTo
  <2> HIDE DEF T
  <2> QED BY <1>1, <2>1
<1>5. Size[depth - depth] = 1
  <2>1. depth - depth = 0
    BY <1>1
  <2> QED BY <2>1, SizeIs
<1>6. hashes # <<>>
  BY DEF Chains
<1> QED BY <1>4, <1>5, <1>6 DEF ComputeEvidenceMerkleRoot

-----------------------------------------------------------------------------
(* Proofs *)

LEMMA HalfIs ==
  \A m \in Nat : /\ m \div 2 \in Nat
                 /\ m % 2 = 0 => m = 2 * (m \div 2)
                 /\ m % 2 # 0 => m = 2 * (m \div 2) + 1
OBVIOUS

LEMMA HalfFits == \A bound \in Nat : \A m \in 0..(2 * bound - 1) : m \div 2 \in 0..(bound - 1)
<1> SUFFICES ASSUME NEW bound \in Nat, NEW m \in 0..(2 * bound - 1)
             PROVE  m \div 2 \in 0..(bound - 1)
  OBVIOUS
<1> DEFINE half == m \div 2
<1>1. m \in Nat /\ m < 2 * bound
  OBVIOUS
<1>2. half \in Nat /\ (m = 2 * half \/ m = 2 * half + 1)
  BY <1>1, HalfIs
<1> HIDE DEF half
<1>3. half < bound
  BY <1>1, <1>2
<1>4. half \in 0..(bound - 1)
  BY <1>2, <1>3
<1> QED BY <1>4 DEF half

LEMMA PositionsFit ==
  ASSUME NEW hashes \in Chains, NEW depth, depth = Depth(Len(hashes)),
         NEW index \in 0..(Size[depth] - 1)
  PROVE  \A d \in 0..depth : Positions(index, depth)[d] \in 0..(Size[depth - d] - 1)
<1> DEFINE idx == Positions(index, depth)
           T == {d \in 0..depth : idx[d] \in 0..(Size[depth - d] - 1)}
<1>1. depth \in Nat /\ index \in Nat /\ \A d \in 0..depth : Size[d] \in Nat
  BY ChainDepth
<1>2. idx[0] = index /\ \A d \in 1..depth : idx[d] = idx[d - 1] \div 2
  BY <1>1, PositionsAre
<1>3. 0 \in T
  BY <1>1, <1>2
<1>4. ASSUME NEW d \in 1..depth, d - 1 \in T PROVE d \in T
  <2>1. idx[d - 1] \in 0..(2 * Size[depth - d] - 1) /\ idx[d] = idx[d - 1] \div 2
    BY <1>2, <1>4, ChainDepth
  <2>2. Size[depth - d] \in Nat
    BY <1>1
  <2>3. idx[d] \in 0..(Size[depth - d] - 1)
    BY <2>1, <2>2, HalfFits
  <2> QED BY <2>3
<1>5. 0..depth \subseteq T
  <2> HIDE DEF T
  <2> QED BY <1>1, <1>3, <1>4, InductionUpTo
<1> QED BY <1>5

(* A node is what the verifier makes of one below it and its sibling.      *)
LEMMA ParentIs ==
  ASSUME NEW hashes \in Chains, NEW depth, depth = Depth(Len(hashes)),
         NEW d \in 1..depth, NEW m \in 0..(Size[depth - (d - 1)] - 1)
  PROVE  At(Levels(hashes)[d], m \div 2) =
           Combine(At(Levels(hashes)[d - 1], m), At(Levels(hashes)[d - 1], SiblingOf(m)), m)
<1> DEFINE half == Size[depth - d]
<1>1. half \in Nat /\ Size[depth - (d - 1)] = 2 * half /\ m \in Nat
  <2>1. depth \in Nat /\ depth - d \in 0..depth /\ depth - (d - 1) \in 0..depth
    BY ChainDepth
  <2>2. half \in Nat
    BY <2>1, ChainDepth
  <2>3. Size[depth - (d - 1)] = 2 * half
    BY <2>1, ChainDepth
  <2> QED BY <2>2, <2>3
<1>2. m \div 2 \in 0..(half - 1)
  <2> HIDE DEF half
  <2>1. m \in 0..(2 * half - 1)
    BY <1>1
  <2> QED BY <1>1, <2>1, HalfFits, Zenon
<1> DEFINE q == m \div 2
<1>3. Levels(hashes)[d][q + 1] = Sum256(Levels(hashes)[d - 1][2 * (q + 1) - 1],
                                        Levels(hashes)[d - 1][2 * (q + 1)])
  <2>1. q + 1 \in 1..half
    BY <1>1, <1>2
  <2> QED BY <2>1, LevelsShape
<1>4. q \in Nat /\ 2 * (q + 1) - 1 = 2 * q + 1 /\ 2 * (q + 1) = 2 * q + 2
  BY <1>1, <1>2
<1>5. CASE m % 2 = 0
  <2>1. m = 2 * q /\ SiblingOf(m) = m + 1
    BY <1>1, <1>5, HalfIs DEF SiblingOf
  <2>2. m + 1 = 2 * (q + 1) - 1 /\ SiblingOf(m) + 1 = 2 * (q + 1)
    BY <1>4, <2>1
  <2> HIDE DEF q
  <2> QED BY <1>3, <1>5, <2>2 DEF At, Combine, q
<1>6. CASE m % 2 # 0
  <2>1. m = 2 * q + 1 /\ SiblingOf(m) = m - 1
    BY <1>1, <1>6, HalfIs DEF SiblingOf
  <2>2. m + 1 = 2 * (q + 1) /\ SiblingOf(m) + 1 = 2 * (q + 1) - 1
    BY <1>4, <2>1
  <2> HIDE DEF q
  <2> QED BY <1>3, <1>6, <2>2 DEF At, Combine, q
<1> QED BY <1>5, <1>6

LEMMA ProofIs ==
  ASSUME NEW hashes \in Chains, NEW depth, depth = Depth(Len(hashes)),
         NEW index \in 0..(Len(hashes) - 1), NEW p, p = ProofFor(hashes, index)
  PROVE  /\ index \in Nat /\ index \in 0..(Size[depth] - 1)
         /\ p.index = index /\ p.leaf = At(hashes, index) /\ p.leaf \in Hashes
         /\ p.leaf = At(Levels(hashes)[0], index)
         /\ p.root = Levels(hashes)[depth][1]
         /\ Len(p.path) = depth
         /\ \A d \in 1..depth :
              p.path[d] = At(Levels(hashes)[d - 1], SiblingOf(Positions(index, depth)[d - 1]))
<1>1. Len(hashes) \in Nat /\ depth \in Nat /\ Len(hashes) <= Size[depth] /\ Size[depth] \in Nat
  BY ChainDepth, SizeIs
<1>2. index \in Nat /\ index \in 0..(Size[depth] - 1) /\ index + 1 \in 1..Len(hashes)
  BY <1>1
<1>3. p.index = index /\ p.leaf = At(hashes, index) /\ p.root = Levels(hashes)[depth][1]
  BY RootIs DEF ProofFor
<1>4. p.leaf = At(Levels(hashes)[0], index)
  BY <1>2, <1>3, LevelsShape, LeavesAre DEF At
<1>5. hashes[index + 1] \in Hashes
  BY <1>2 DEF Chains
<1>6. p.path = [d \in 1..depth |->
                  At(Levels(hashes)[d - 1], SiblingOf(Positions(index, depth)[d - 1]))]
  BY DEF ProofFor, buildMerkleProof
<1>7. Len(p.path) = depth
  BY <1>1, <1>6
<1> QED BY <1>2, <1>3, <1>4, <1>5, <1>6, <1>7 DEF At

(* On its way up the path the verifier meets the nodes of the tree.        *)
LEMMA PathClimbs ==
  ASSUME NEW hashes \in Chains, NEW depth, depth = Depth(Len(hashes)),
         NEW index \in 0..(Len(hashes) - 1), NEW p, p = ProofFor(hashes, index)
  PROVE  \A d \in 0..depth :
           Combined(p)[d] = At(Levels(hashes)[d], Positions(index, depth)[d])
<1> DEFINE idx == Positions(index, depth)
           T == {d \in 0..depth : Combined(p)[d] = At(Levels(hashes)[d], idx[d])}
<1>1. /\ depth \in Nat /\ index \in Nat /\ index \in 0..(Size[depth] - 1)
      /\ p.index = index /\ Len(p.path) = depth
  BY ProofIs, ChainDepth
<1>2. 0 \in T
  BY <1>1, CombinedIs, PositionsAre, ProofIs
<1>3. ASSUME NEW d \in 1..depth, d - 1 \in T PROVE d \in T
  <2>1. Combined(p)[d] = Combine(Combined(p)[d - 1], p.path[d], idx[d - 1])
    BY <1>1, CombinedIs
  <2>2. p.path[d] = At(Levels(hashes)[d - 1], SiblingOf(idx[d - 1]))
    BY ProofIs
  <2>3. Combined(p)[d - 1] = At(Levels(hashes)[d - 1], idx[d - 1])
    BY <1>3
  <2>4. idx[d] = idx[d - 1] \div 2
    BY <1>1, PositionsAre
  <2>5. idx[d - 1] \in 0..(Size[depth - (d - 1)] - 1)
    <3>1. d - 1 \in 0..depth
      BY <1>1
    <3> QED BY <1>1, <3>1, PositionsFit
  <2> HIDE DEF idx
  <2>6. At(Levels(hashes)[d], idx[d]) =
          Combine(At(Levels(hashes)[d - 1], idx[d - 1]),
                  At(Levels(hashes)[d - 1], SiblingOf(idx[d - 1])), idx[d - 1])
    BY <2>4, <2>5, ParentIs
  <2> QED BY <2>1, <2>2, <2>3, <2>6
<1>4. 0..depth \subseteq T
  <2> HIDE DEF T
  <2> QED BY <1>1, <1>2, <1>3, InductionUpTo
<1> QED BY <1>4

(* The root computed in place and the path taken from fresh arrays belong   *)
(* to one tree: for a chain of any length and each of its links, the proof *)
(* that GenerateMerkleInclusionProof hands out is accepted by               *)
(* VerifyMerkleInclusionProof.                                             *)
THEOREM EveryProofVerifies ==
  ASSUME NEW hashes \in Chains, NEW index \in 0..(Len(hashes) - 1)
  PROVE  VerifyMerkleInclusionProof(ProofFor(hashes, index))
<1> DEFINE depth == Depth(Len(hashes))
           p == ProofFor(hashes, index)
<1>1. depth \in Nat /\ index \in 0..(Size[depth] - 1)
  BY ProofIs, ChainDepth
<1>2. Len(p.path) = depth /\ p.root = Levels(hashes)[depth][1]
  BY ProofIs
<1>3. Combined(p)[depth] = At(Levels(hashes)[depth], Positions(index, depth)[depth])
  BY <1>1, PathClimbs
<1>4. Positions(index, depth)[depth] = 0
  <2>1. depth \in 0..depth /\ depth - depth = 0
    BY <1>1
  <2>2. Positions(index, depth)[depth] \in 0..(Size[0] - 1)
    BY <1>1, <2>1, PositionsFit
  <2> QED BY <2>2, SizeIs
<1> HIDE DEF depth, p
<1> QED BY <1>2, <1>3, <1>4 DEF At, VerifyMerkleInclusionProof, p

-----------------------------------------------------------------------------
(* What a proof that verifies is about *)

(* A digest tells both parts of what was hashed.                           *)
LEMMA NodeTells ==
  ASSUME NEW l, NEW r, NEW x, NEW y, Sum256(l, r) = Sum256(x, y)
  PROVE  l = x /\ r = y
<1>1. Hash(<<l, r>>).of = Hash(<<x, y>>).of
  BY DEF Sum256
<1>2. <<l, r>> = <<x, y>>
  BY <1>1 DEF Hash
<1> QED BY <1>2

(* Different leaves stay different on the way up.                          *)
LEMMA LeavesTell ==
  ASSUME NEW p, NEW q, NEW depth \in Nat, Len(p.path) = depth,
         q.path = p.path, q.index = p.index, q.leaf # p.leaf
  PROVE  \A d \in 0..depth : Combined(q)[d] # Combined(p)[d]
<1> DEFINE T == {d \in 0..depth : Combined(q)[d] # Combined(p)[d]}
<1>1. 0 \in T
  BY CombinedIs
<1>2. ASSUME NEW d \in 1..depth, d - 1 \in T PROVE d \in T
  <2> DEFINE at == Positions(p.index, depth)[d - 1]
  <2>1. Combined(p)[d] = Combine(Combined(p)[d - 1], p.path[d], at)
    BY CombinedIs
  <2>2. Combined(q)[d] = Combine(Combined(q)[d - 1], p.path[d], at)
    BY CombinedIs
  <2>3. Combined(q)[d - 1] # Combined(p)[d - 1]
    BY <1>2
  <2>4. \A v, w, s : v # w => Combine(v, s, at) # Combine(w, s, at)
    BY NodeTells DEF Combine
  <2> HIDE DEF at
  <2> QED BY <2>1, <2>2, <2>3, <2>4
<1>3. 0..depth \subseteq T
  <2> HIDE DEF T
  <2> QED BY <1>1, <1>2, InductionUpTo
<1> QED BY <1>3

(* A proof vouches for one content: no other hash verifies in its place,   *)
(* for a chain of any length (VerifyMerkleInclusionProof).                 *)
THEOREM EveryProofBinds ==
  ASSUME NEW hashes \in Chains, NEW index \in 0..(Len(hashes) - 1),
         NEW h, h # ProofFor(hashes, index).leaf
  PROVE  ~VerifyMerkleInclusionProof([ProofFor(hashes, index) EXCEPT !.leaf = h])
<1> DEFINE depth == Depth(Len(hashes))
           p == ProofFor(hashes, index)
           q == [p EXCEPT !.leaf = h]
<1>1. depth \in Nat /\ Len(p.path) = depth
  BY ProofIs, ChainDepth
<1>2. q.path = p.path /\ q.index = p.index /\ q.leaf # p.leaf /\ q.root = p.root
  BY DEF ProofFor
<1>3. Combined(p)[depth] = p.root
  BY <1>1, EveryProofVerifies DEF VerifyMerkleInclusionProof
<1> HIDE DEF depth, p, q
<1>4. Combined(q)[depth] # Combined(p)[depth]
  BY <1>1, <1>2, LeavesTell
<1> QED BY <1>1, <1>2, <1>3, <1>4 DEF VerifyMerkleInclusionProof, p, q

LEMMA ModuloIs ==
  \A size \in Nat \ {0}, m \in Nat :
    /\ m < size => m % size = m
    /\ size <= m /\ m < 2 * size => m % size = m - size
OBVIOUS

LEMMA ModuloHalves ==
  ASSUME NEW size \in Nat \ {0}, NEW m \in 0..(4 * size - 1)
  PROVE  /\ m \div 2 \in 0..(2 * size - 1) /\ (m \div 2) % size \in 0..(size - 1)
         /\ m % 2 = 0 => m % (2 * size) = 2 * ((m \div 2) % size)
         /\ m % 2 # 0 => m % (2 * size) = 2 * ((m \div 2) % size) + 1
<1> DEFINE q == m \div 2
           twice == 2 * size
<1>1. q \in Nat /\ (m % 2 = 0 => m = 2 * q) /\ (m % 2 # 0 => m = 2 * q + 1)
  BY HalfIs
<1>2. twice \in Nat \ {0} /\ m \in Nat /\ m < 2 * twice
  OBVIOUS
<1>3. q \in 0..(2 * size - 1)
  <2> HIDE DEF q
  <2> QED BY <1>1
<1>4. (q < size => q % size = q) /\ (size <= q => q % size = q - size)
  <2>1. q \in Nat /\ (size <= q => q < 2 * size)
    <3> HIDE DEF q
    <3> QED BY <1>3
  <2> HIDE DEF q
  <2> QED BY <2>1, ModuloIs
<1>5. (m < twice => m % twice = m) /\ (twice <= m => m % twice = m - twice)
  <2> HIDE DEF twice
  <2> QED BY <1>2, ModuloIs
<1>6. CASE q < size
  <2>1. m < twice
    <3> HIDE DEF q
    <3> QED BY <1>1, <1>6
  <2> HIDE DEF q
  <2> QED BY <1>1, <1>3, <1>4, <1>5, <1>6, <2>1 DEF q
<1>7. CASE size <= q
  <2>1. twice <= m
    <3> HIDE DEF q
    <3> QED BY <1>1, <1>7
  <2> HIDE DEF q
  <2> QED BY <1>1, <1>3, <1>4, <1>5, <1>7, <2>1 DEF q
<1> QED BY <1>3, <1>6, <1>7

Moved(p, k) == [p EXCEPT !.index = k]

(* Going down the path of a proof that verifies with position k, the        *)
(* verifier has met the nodes of the tree.                                 *)
LEMMA PathDescends ==
  ASSUME NEW hashes \in Chains, NEW depth, depth = Depth(Len(hashes)),
         NEW index \in 0..(Len(hashes) - 1), NEW k \in 0..(2 * Size[depth] - 1),
         VerifyMerkleInclusionProof(Moved(ProofFor(hashes, index), k))
  PROVE  At(Padded(hashes), k % Size[depth]) = ProofFor(hashes, index).leaf
<1> DEFINE p == ProofFor(hashes, index)
           q == Moved(p, k)
           idx == Positions(k, depth)
           Met(t) == /\ idx[depth - t] \in 0..(2 * Size[t] - 1)
                     /\ idx[depth - t] % Size[t] \in 0..(Size[t] - 1)
                     /\ Combined(q)[depth - t] =
                          At(Levels(hashes)[depth - t], idx[depth - t] % Size[t])
           T == {t \in 0..depth : Met(t)}
<1>1. /\ depth \in Nat /\ Len(p.path) = depth /\ k \in Nat
      /\ \A d \in 0..depth : Size[d] \in Nat \ {0}
  BY ProofIs, ChainDepth
<1>2. q.path = p.path /\ q.index = k /\ q.leaf = p.leaf /\ q.root = p.root
      /\ VerifyMerkleInclusionProof(q)
  <2>1. VerifyMerkleInclusionProof(q)
    OBVIOUS
  <2> QED BY <2>1 DEF ProofFor, Moved
<1> HIDE DEF p, q
<1>3. Combined(q)[depth] = Levels(hashes)[depth][1]
  BY <1>1, <1>2, ProofIs DEF VerifyMerkleInclusionProof, p
<1>4. /\ idx[0] = k /\ \A d \in 1..depth : idx[d] = idx[d - 1] \div 2
      /\ \A d \in 0..depth : idx[d] \in Nat
  BY <1>1, PositionsAre
<1>5. /\ Combined(q)[0] = q.leaf
      /\ \A d \in 1..depth : Combined(q)[d] = Combine(Combined(q)[d - 1], q.path[d], idx[d - 1])
  <2>1. Len(q.path) = depth /\ Positions(q.index, depth) = idx
    BY <1>1, <1>2
  <2>2. /\ Combined(q)[0] = q.leaf
        /\ \A d \in 1..depth :
             Combined(q)[d] =
               Combine(Combined(q)[d - 1], q.path[d], Positions(q.index, depth)[d - 1])
    <3>1. \A x : Len(x.path) = depth =>
            /\ Combined(x)[0] = x.leaf
            /\ \A d \in 1..depth :
                 Combined(x)[d] =
                   Combine(Combined(x)[d - 1], x.path[d], Positions(x.index, depth)[d - 1])
      BY <1>1, CombinedIs
    <3> QED BY <2>1, <3>1
  <2> HIDE DEF idx
  <2> QED BY <2>1, <2>2
<1> HIDE DEF idx
<1>6. \A d \in 0..depth : idx[d] \in 0..(2 * Size[depth - d] - 1)
  <2> DEFINE U == {d \in 0..depth : idx[d] \in 0..(2 * Size[depth - d] - 1)}
  <2>1. 0 \in U
    BY <1>1, <1>4
  <2>2. ASSUME NEW d \in 1..depth, d - 1 \in U PROVE d \in U
    <3>1. idx[d - 1] \in 0..(2 * (2 * Size[depth - d]) - 1) /\ idx[d] = idx[d - 1] \div 2
      BY <1>4, <2>2, ChainDepth
    <3>2. Size[depth - d] \in Nat /\ 2 * Size[depth - d] \in Nat
      BY <1>1
    <3>3. idx[d] \in 0..(2 * Size[depth - d] - 1)
      BY <3>1, <3>2, HalfFits
    <3> QED BY <3>3
  <2>3. 0..depth \subseteq U
    <3> HIDE DEF U
    <3> QED BY <1>1, <2>1, <2>2, InductionUpTo
  <2> QED BY <2>3
<1>7. 0 \in T
  <2>1. depth - 0 = depth /\ depth - depth = 0 /\ depth \in 0..depth /\ 0 \in 0..depth
    BY <1>1
  <2>2. Size[0] = 1
    BY SizeIs
  <2>3. idx[depth] \in 0..(2 * Size[0] - 1)
    BY <1>6, <2>1
  <2>4. idx[depth] % Size[0] = 0
    BY <2>2, <2>3
  <2>5. Combined(q)[depth] = At(Levels(hashes)[depth], 0)
    BY <1>3 DEF At
  <2>6. Met(0)
    BY <2>1, <2>2, <2>3, <2>4, <2>5
  <2> QED BY <2>1, <2>6
<1>8. ASSUME NEW t \in 1..depth, t - 1 \in T PROVE t \in T
  <2> DEFINE d == depth - (t - 1)
             size == Size[t - 1]
             m == idx[d - 1]
             r == idx[d] % size
             below == Levels(hashes)[d - 1]
  <2>1. d \in 1..depth /\ d - 1 = depth - t /\ depth - d = t - 1 /\ depth - (d - 1) = t
        /\ d - 1 \in 0..depth /\ t - 1 \in 0..depth
    BY <1>1
  <2>2. size \in Nat \ {0} /\ Size[t] = 2 * size
    <3>1. Size[t - 1] \in Nat \ {0}
      BY <1>1, <2>1
    <3>2. Size[depth - (d - 1)] = 2 * Size[depth - d]
      <4> HIDE DEF d
      <4> QED BY <2>1, ChainDepth
    <3> QED BY <2>1, <3>1, <3>2
  <2>3. idx[d] = m \div 2 /\ m \in 0..(2 * Size[t] - 1)
    BY <1>4, <1>6, <2>1
  <2>4. Combined(q)[d] = At(Levels(hashes)[d], r) /\ r \in 0..(size - 1)
    BY <1>8
  <2>5. Combined(q)[d] = Combine(Combined(q)[d - 1], q.path[d], m)
    BY <1>5, <2>1
  <2>6. r + 1 \in 1..Size[depth - d]
    <3>1. Size[depth - d] = size
      BY <2>1
    <3> HIDE DEF r, size, d
    <3> QED BY <2>2, <2>4, <3>1
  <2>7. Levels(hashes)[d][r + 1] = Sum256(below[2 * (r + 1) - 1], below[2 * (r + 1)])
    BY <2>1, <2>6, LevelsShape
  <2> HIDE DEF size, m, r, below, d
  <2>8. m \in 0..(4 * size - 1)
    BY <2>2, <2>3
  <2>9. /\ m % 2 = 0 => m % Size[t] = 2 * r
        /\ m % 2 # 0 => m % Size[t] = 2 * r + 1
    <3>1. r = (m \div 2) % size
      BY <2>3 DEF r
    <3> QED BY <2>2, <2>8, <3>1, ModuloHalves
  <2>10. r \in Nat
    BY <2>2, <2>4
  <2>11. CASE m % 2 = 0
    <3>1. Combined(q)[d - 1] = below[2 * (r + 1) - 1]
      <4>1. Combined(q)[d] = Sum256(Combined(q)[d - 1], q.path[d])
        BY <2>5, <2>11 DEF Combine
      <4>2. Combined(q)[d] = Sum256(below[2 * (r + 1) - 1], below[2 * (r + 1)])
        BY <2>4, <2>7 DEF At
      <4>3. Sum256(Combined(q)[d - 1], q.path[d])
              = Sum256(below[2 * (r + 1) - 1], below[2 * (r + 1)])
        BY <4>1, <4>2
      <4> QED BY <4>3, NodeTells
    <3>2. 2 * (r + 1) - 1 = (m % Size[t]) + 1 /\ m % Size[t] \in 0..(Size[t] - 1)
      BY <2>2, <2>4, <2>9, <2>10, <2>11
    <3>3. Combined(q)[d - 1] = At(below, m % Size[t])
      BY <3>1, <3>2 DEF At
    <3> QED BY <2>1, <2>3, <3>2, <3>3 DEF m, below
  <2>12. CASE m % 2 # 0
    <3>1. Combined(q)[d - 1] = below[2 * (r + 1)]
      <4>1. Combined(q)[d] = Sum256(q.path[d], Combined(q)[d - 1])
        BY <2>5, <2>12 DEF Combine
      <4>2. Combined(q)[d] = Sum256(below[2 * (r + 1) - 1], below[2 * (r + 1)])
        BY <2>4, <2>7 DEF At
      <4>3. Sum256(q.path[d], Combined(q)[d - 1])
              = Sum256(below[2 * (r + 1) - 1], below[2 * (r + 1)])
        BY <4>1, <4>2
      <4> QED BY <4>3, NodeTells
    <3>2. 2 * (r + 1) = (m % Size[t]) + 1 /\ m % Size[t] \in 0..(Size[t] - 1)
      BY <2>2, <2>4, <2>9, <2>10, <2>12
    <3>3. Combined(q)[d - 1] = At(below, m % Size[t])
      BY <3>1, <3>2 DEF At
    <3> QED BY <2>1, <2>3, <3>2, <3>3 DEF m, below
  <2> QED BY <2>11, <2>12
<1>9. Met(depth)
  <2>1. 0..depth \subseteq T
    <3> HIDE DEF T
    <3> QED BY <1>1, <1>7, <1>8, InductionUpTo
  <2>2. depth \in T
    <3> HIDE DEF T
    <3> QED BY <1>1, <2>1
  <2> QED BY <2>2
<1>10. depth - depth = 0
  BY <1>1
<1>11. Levels(hashes)[0] = Padded(hashes)
  BY LevelsShape
<1> QED BY <1>2, <1>4, <1>5, <1>9, <1>10, <1>11 DEF p

(* The check reads only the low bits of LinkIndex; still a position with    *)
(* which a proof verifies leads to the content it shows, for a chain of    *)
(* any length (VerifyMerkleInclusionProof).                                *)
THEOREM EveryIndexLeads ==
  ASSUME NEW hashes \in Chains, NEW index \in 0..(Len(hashes) - 1)
  PROVE  \A k \in 0..(2 * Len(Padded(hashes)) - 1) :
           VerifyMerkleInclusionProof([ProofFor(hashes, index) EXCEPT !.index = k])
             => At(Padded(hashes), k % Len(Padded(hashes))) = ProofFor(hashes, index).leaf
<1> DEFINE depth == Depth(Len(hashes))
<1>1. Len(Padded(hashes)) = Size[depth]
  <2>1. Size[depth] \in Nat
    BY ChainDepth, SizeIs
  <2> QED BY <2>1, LeavesAre
<1>2. \A k \in 0..(2 * Size[depth] - 1) :
        VerifyMerkleInclusionProof(Moved(ProofFor(hashes, index), k))
          => At(Padded(hashes), k % Size[depth]) = ProofFor(hashes, index).leaf
  BY PathDescends
<1> QED BY <1>1, <1>2 DEF Moved

-----------------------------------------------------------------------------
(* What a root stands for *)

LEMMA SameValues ==
  ASSUME NEW D, NEW f, NEW g, f = [i \in D |-> f[i]], g = [i \in D |-> g[i]],
         \A i \in D : f[i] = g[i]
  PROVE  f = g
<1>1. [i \in D |-> f[i]] = [i \in D |-> g[i]]
  OBVIOUS
<1> QED BY <1>1

LEMMA LevelIsArray ==
  ASSUME NEW hashes \in Chains, NEW depth, depth = Depth(Len(hashes)), NEW d \in 0..depth
  PROVE  Levels(hashes)[d] = [i \in 1..Size[depth - d] |-> Levels(hashes)[d][i]]
<1>1. Len(hashes) \in Nat /\ depth \in Nat
  BY ChainDepth
<1>2. CASE d = 0
  <2>1. Levels(hashes)[d] = Padded(hashes) /\ depth - d = depth
    BY <1>1, <1>2, LevelsAre
  <2>2. Padded(hashes) \in [1..Size[depth] -> Hashes]
    BY LeavesAre
  <2> QED BY <2>1, <2>2
<1>3. CASE d \in 1..depth
  <2>1. Levels(hashes)[d] = Above(Levels(hashes)[d - 1], Size[depth - d])
    BY <1>1, <1>3, LevelsAre
  <2> QED BY <2>1 DEF Above
<1> QED BY <1>1, <1>2, <1>3

(* Equal roots: going down, the levels of the deeper tree are those of the *)
(* other, as far as that one goes.                                         *)
LEMMA RootTellsLevel ==
  ASSUME NEW f \in Chains, NEW g \in Chains, NEW m, NEW n,
         m = Depth(Len(f)), n = Depth(Len(g)), m <= n,
         Levels(f)[m][1] = Levels(g)[n][1]
  PROVE  Padded(f) = Levels(g)[n - m]
<1> DEFINE Same(t) == \A i \in 1..Size[t] : Levels(f)[m - t][i] = Levels(g)[n - t][i]
           T == {t \in 0..m : Same(t)}
<1>1. m \in Nat /\ n \in Nat /\ \A d \in 0..m : Size[d] \in Nat
  BY ChainDepth
<1>2. 0 \in T
  <2>1. Size[0] = 1
    BY SizeIs
  <2>2. m - 0 = m /\ n - 0 = n
    BY <1>1
  <2> QED BY <1>1, <2>1, <2>2
<1>3. ASSUME NEW t \in 1..m, t - 1 \in T PROVE t \in T
  <2> DEFINE half == Size[t - 1]
             below(h, k) == Levels(h)[k - t]
  <2>1. t - 1 \in 0..m /\ m - (t - 1) \in 1..m /\ n - (t - 1) \in 1..n
    BY <1>1
  <2>2. half \in Nat /\ Size[t] = 2 * half
    <3>1. t - 1 \in Nat /\ (t - 1) + 1 = t
      BY <2>1
    <3> QED BY <3>1, SizeIs
  <2>3. \A i \in 1..half : Levels(f)[m - (t - 1)][i] = Levels(g)[n - (t - 1)][i]
    BY <1>3
  <2>4. ASSUME NEW h \in Chains, NEW k, k = Depth(Len(h)), k \in Nat, t <= k, NEW i \in 1..half
        PROVE  Levels(h)[k - (t - 1)][i] = Sum256(below(h, k)[2 * i - 1], below(h, k)[2 * i])
    <3> DEFINE d == k - (t - 1)
    <3>1. d \in 1..k /\ k - d = t - 1 /\ d - 1 = k - t
      BY <2>4
    <3>2. i \in 1..Size[k - d]
      BY <2>4, <3>1
    <3> HIDE DEF d
    <3>3. Levels(h)[d][i] = Sum256(Levels(h)[d - 1][2 * i - 1], Levels(h)[d - 1][2 * i])
      BY <2>4, <3>1, <3>2, LevelsShape
    <3> QED BY <3>1, <3>3 DEF d
  <2> HIDE DEF half, below
  <2>5. ASSUME NEW i \in 1..half
        PROVE  /\ below(f, m)[2 * i - 1] = below(g, n)[2 * i - 1]
               /\ below(f, m)[2 * i] = below(g, n)[2 * i]
    <3>1. t <= m /\ t <= n
      BY <1>1
    <3>2. Levels(f)[m - (t - 1)][i] = Sum256(below(f, m)[2 * i - 1], below(f, m)[2 * i])
      BY <1>1, <2>4, <3>1
    <3>3. Levels(g)[n - (t - 1)][i] = Sum256(below(g, n)[2 * i - 1], below(g, n)[2 * i])
      BY <1>1, <2>4, <3>1
    <3>4. Sum256(below(f, m)[2 * i - 1], below(f, m)[2 * i])
            = Sum256(below(g, n)[2 * i - 1], below(g, n)[2 * i])
      BY <2>3, <3>2, <3>3
    <3> QED BY <3>4, NodeTells
  <2>6. ASSUME NEW j \in 1..Size[t] PROVE below(f, m)[j] = below(g, n)[j]
    <3>1. j \in Nat /\ j \in 1..(2 * half)
      BY <2>2
    <3>2. CASE j % 2 = 0
      <4>1. j \div 2 \in 1..half /\ j = 2 * (j \div 2)
        BY <2>2, <3>1, <3>2, HalfIs
      <4> QED BY <2>5, <4>1
    <3>3. CASE j % 2 # 0
      <4>1. (j \div 2) + 1 \in 1..half /\ j = 2 * ((j \div 2) + 1) - 1
        BY <2>2, <3>1, <3>3, HalfIs
      <4> QED BY <2>5, <4>1
    <3> QED BY <3>2, <3>3
  <2> QED BY <2>6 DEF below
<1>4. Same(m)
  <2>1. 0..m \subseteq T
    <3> HIDE DEF T
    <3> QED BY <1>1, <1>2, <1>3, InductionUpTo
  <2>2. m \in T
    <3> HIDE DEF T
    <3> QED BY <1>1, <2>1
  <2> QED BY <2>2
<1>5. m - m = 0 /\ Levels(f)[0] = Padded(f)
  BY <1>1, LevelsShape
<1> DEFINE F == Padded(f)
           G == Levels(g)[n - m]
           cells == 1..Size[m]
<1>6. F = [i \in cells |-> F[i]]
  BY LeavesAre
<1>7. G = [i \in cells |-> G[i]]
  <2>1. n - m \in 0..n /\ n - (n - m) = m
    BY <1>1
  <2> QED BY <2>1, LevelIsArray
<1>8. \A i \in cells : F[i] = G[i]
  BY <1>4, <1>5
<1>9. F = G
  <2> HIDE DEF Same, T, cells, F, G
  <2> QED BY <1>6, <1>7, <1>8, SameValues
<1> QED BY <1>9

(* And the levels above are made from that one alone.                      *)
LEMMA LevelTellsRoot ==
  ASSUME NEW f \in Chains, NEW g \in Chains, NEW m, NEW n,
         m = Depth(Len(f)), n = Depth(Len(g)), m <= n, Padded(f) = Levels(g)[n - m]
  PROVE  Levels(f)[m][1] = Levels(g)[n][1]
<1> DEFINE T == {d \in 0..m : Levels(f)[d] = Levels(g)[(n - m) + d]}
<1>1. m \in Nat /\ n \in Nat /\ Len(f) \in Nat /\ Len(g) \in Nat
  BY ChainDepth
<1>2. 0 \in T
  <2>1. (n - m) + 0 = n - m
    BY <1>1
  <2> QED BY <1>1, <2>1, LevelsShape
<1>3. ASSUME NEW d \in 1..m, d - 1 \in T PROVE d \in T
  <2> DEFINE e == (n - m) + d
  <2>1. e \in 1..n /\ e - 1 = (n - m) + (d - 1) /\ n - e = m - d
    BY <1>1
  <2>2. Levels(f)[d] = Above(Levels(f)[d - 1], Size[m - d])
    BY <1>1, LevelsAre
  <2>3. Levels(g)[e] = Above(Levels(g)[e - 1], Size[n - e])
    <3>1. \A k \in 1..n : Levels(g)[k] = Above(Levels(g)[k - 1], Size[n - k])
      BY <1>1, LevelsAre
    <3> QED BY <2>1, <3>1
  <2>4. Levels(f)[d - 1] = Levels(g)[(n - m) + (d - 1)]
    BY <1>3
  <2>5. Levels(f)[d] = Levels(g)[e]
    <3> HIDE DEF e
    <3> QED BY <2>1, <2>2, <2>3, <2>4
  <2> QED BY <2>5
<1>4. m \in T
  <2>1. 0..m \subseteq T
    <3> HIDE DEF T
    <3> QED BY <1>1, <1>2, <1>3, InductionUpTo
  <2> HIDE DEF T
  <2> QED BY <1>1, <2>1
<1>5. (n - m) + m = n
  BY <1>1
<1> QED BY <1>4, <1>5

(* A root stands for one chain, of whatever length and whatever contents,   *)
(* with two exceptions and no other: repetitions of its last link that     *)
(* padding would have made, and a chain whose contents are the pairs of    *)
(* digests of a level of its tree (ComputeEvidenceMerkleRoot).             *)
THEOREM RootTellsChain ==
  ASSUME NEW f \in Chains, NEW g \in Chains
  PROVE  ComputeEvidenceMerkleRoot(f) = ComputeEvidenceMerkleRoot(g) <=> SameLeaves(f, g)
<1> DEFINE m == Depth(Len(f))
           n == Depth(Len(g))
<1>1. /\ ComputeEvidenceMerkleRoot(f) = Levels(f)[m][1]
      /\ ComputeEvidenceMerkleRoot(g) = Levels(g)[n][1]
  BY RootIs
<1>2. m \in Nat /\ n \in Nat
  BY ChainDepth
<1>3. CASE m <= n
  <2>1. SameLeaves(f, g) <=> Padded(f) = Levels(g)[n - m]
    BY <1>3 DEF SameLeaves
  <2> QED BY <1>1, <1>3, <2>1, RootTellsLevel, LevelTellsRoot
<1>4. CASE ~(m <= n)
  <2>1. SameLeaves(f, g) <=> Padded(g) = Levels(f)[m - n]
    BY <1>4 DEF SameLeaves
  <2>2. n <= m
    BY <1>2, <1>4
  <2> QED BY <1>1, <2>1, <2>2, RootTellsLevel, LevelTellsRoot
<1> QED BY <1>3, <1>4

(* No link of the chain has two digests for its content.                   *)
Plain(hashes) == \A i \in 1..Len(hashes) : \A l, r : hashes[i] # Sum256(l, r)

(* The first leaf of a plain chain is no inner node of any tree.           *)
LEMMA PlainLeafIsNoNode ==
  ASSUME NEW f \in Chains, NEW g \in Chains, NEW m, NEW n,
         m = Depth(Len(f)), n = Depth(Len(g)), m < n, Plain(f)
  PROVE  Padded(f) # Levels(g)[n - m]
<1>1. m \in Nat /\ n \in Nat /\ Len(f) \in Nat \ {0} /\ 0 < Size[m] /\ Size[m] \in Nat
  BY ChainDepth
<1>2. n - m \in 1..n /\ n - (n - m) = m /\ 1 \in 1..Size[m] /\ 1 \in 1..Len(f)
  BY <1>1
<1> DEFINE d == n - m
<1> HIDE DEF d
<1>3. PICK l, r : Levels(g)[d][1] = Sum256(l, r)
  BY <1>2, LevelsShape DEF d
<1>4. Padded(f)[1] = f[1]
  BY <1>2, LeavesAre
<1> QED BY <1>2, <1>3, <1>4 DEF d, Plain

(* Between chains that have no such content (that of AddJSON is text) only  *)
(* the repetitions of the last link are left: a chain that grew by         *)
(* anything else has another root (ComputeEvidenceMerkleRoot).             *)
THEOREM RootTellsPlainChain ==
  ASSUME NEW f \in Chains, NEW g \in Chains, Plain(f), Plain(g)
  PROVE  ComputeEvidenceMerkleRoot(f) = ComputeEvidenceMerkleRoot(g) <=> Padded(f) = Padded(g)
<1> DEFINE m == Depth(Len(f))
           n == Depth(Len(g))
<1>1. m \in Nat /\ n \in Nat /\ Size[m] \in Nat /\ Size[n] \in Nat
  BY ChainDepth, SizeIs
<1>2. Len(Padded(f)) = Size[m] /\ Len(Padded(g)) = Size[n]
  BY <1>1, LeavesAre
<1>3. SameLeaves(f, g) <=> Padded(f) = Padded(g)
  <2>1. CASE m = n
    <3>1. n - m = 0 /\ m <= n /\ Levels(g)[0] = Padded(g)
      BY <1>1, <2>1, LevelsShape
    <3> QED BY <3>1 DEF SameLeaves
  <2>2. CASE m < n
    <3>1. Padded(f) # Levels(g)[n - m] /\ m <= n
      BY <1>1, <2>2, PlainLeafIsNoNode
    <3>2. Size[m] # Size[n]
      BY <1>1, <2>2, SizeMonotone
    <3> QED BY <1>2, <3>1, <3>2 DEF SameLeaves
  <2>3. CASE n < m
    <3>1. Padded(g) # Levels(f)[m - n] /\ ~(m <= n)
      BY <1>1, <2>3, PlainLeafIsNoNode
    <3>2. Size[m] # Size[n]
      BY <1>1, <2>3, SizeMonotone
    <3> QED BY <1>2, <3>1, <3>2 DEF SameLeaves
  <2> QED BY <1>1, <2>1, <2>2, <2>3
<1> QED BY <1>3, RootTellsChain

-----------------------------------------------------------------------------
(* The system *)

(* The proof in somebody's hands is one that GenerateMerkleInclusionProof   *)
(* makes, for the chain as it was then.                                    *)
Generated ==
  /\ from \in Chains
  /\ \E index \in 0..(Len(from) - 1) : proof = ProofFor(from, index)

Inv ==
  /\ links \in Seq(Hashes) /\ Len(links) <= MaxLinks
  /\ proof = NoProof \/ Generated

LEMMA InvInductive == Spec => []Inv
<1>1. Init => Inv
  BY BoundsAssumption DEF Init, Inv
<1>2. Inv /\ [Next]_vars => Inv'
  <2> SUFFICES ASSUME Inv, [Next]_vars PROVE Inv'
    OBVIOUS
  <2>1. ASSUME NEW h \in Hashes, AddLink(h) PROVE Inv'
    <3>1. links' \in Seq(Hashes) /\ Len(links') = Len(links) + 1 /\ Len(links) + 1 <= MaxLinks
      BY <2>1, BoundsAssumption DEF AddLink, Inv
    <3>2. proof' = proof /\ from' = from
      BY <2>1 DEF AddLink
    <3>3. (proof = NoProof)' \/ Generated'
      BY <3>2 DEF Inv, Generated, NoProof
    <3> QED BY <3>1, <3>3 DEF Inv
  <2>2. ASSUME NEW index \in 0..MaxLinks, GenerateMerkleInclusionProof(index) PROVE Inv'
    <3>1. links' = links /\ from' = links /\ proof' = ProofFor(links, index) /\ index < Len(links)
      BY <2>2 DEF GenerateMerkleInclusionProof
    <3>2. links \in Chains /\ index \in 0..(Len(links) - 1) /\ Len(links) \in Nat
      BY <3>1, BoundsAssumption DEF Inv, Chains
    <3>3. Generated'
      BY <3>1, <3>2 DEF Generated
    <3> QED BY <3>1, <3>2, <3>3 DEF Inv
  <2>3. ASSUME NewBuilder PROVE Inv'
    <3>1. links' = <<>> /\ proof' = proof /\ from' = from
      BY <2>3 DEF NewBuilder
    <3>2. (proof = NoProof)' \/ Generated'
      BY <3>1 DEF Inv, Generated, NoProof
    <3>3. <<>> \in Seq(Hashes) /\ Len(<<>>) <= MaxLinks
      BY BoundsAssumption
    <3> QED BY <3>1, <3>2, <3>3 DEF Inv
  <2>4. ASSUME UNCHANGED vars PROVE Inv'
    BY <2>4 DEF Inv, Generated, vars
  <2> QED BY <2>1, <2>2, <2>3, <2>4 DEF Next, GenerateRejected
<1> QED BY <1>1, <1>2, PTL DEF Spec

(* The chain stays within its bound, and a proof names a link of the chain  *)
(* it came from with one sibling per level (GenerateMerkleInclusionProof). *)
THEOREM TypeCorrect == Spec => []TypeOK
<1>1. Inv => TypeOK
  <2> SUFFICES ASSUME Inv PROVE TypeOK
    OBVIOUS
  <2>1. ASSUME Generated
        PROVE  /\ proof.index \in 0..(Len(from) - 1)
               /\ proof.leaf = At(from, proof.index)
               /\ Len(proof.path) = Depth(Len(from))
    <3>1. PICK index \in 0..(Len(from) - 1) : proof = ProofFor(from, index)
      BY <2>1 DEF Generated
    <3> QED BY <2>1, <3>1, ProofIs DEF Generated
  <2> QED BY <2>1 DEF Inv, TypeOK
<1> QED BY <1>1, InvInductive, PTL

(* A proof that was handed out verifies from then on, whatever the length   *)
(* of the chain and however it grows (GenerateMerkleInclusionProof,        *)
(* VerifyMerkleInclusionProof).                                            *)
THEOREM ProofsAlwaysVerify == Spec => []ProofsVerify
<1>1. Inv => ProofsVerify
  BY EveryProofVerifies DEF Inv, Generated, ProofsVerify
<1> QED BY <1>1, InvInductive, PTL

(* With another content in the place of its link no proof verifies         *)
(* (VerifyMerkleInclusionProof).                                           *)
THEOREM ProofsAlwaysBind == Spec => []ProofBindsLink
<1>1. Inv => ProofBindsLink
  <2> SUFFICES ASSUME Inv, proof # NoProof, NEW h \in Hashes \ {proof.leaf}
               PROVE  ~VerifyMerkleInclusionProof([proof EXCEPT !.leaf = h])
    BY DEF ProofBindsLink
  <2>1. from \in Chains
    BY DEF Inv, Generated
  <2>2. PICK index \in 0..(Len(from) - 1) : proof = ProofFor(from, index)
    BY DEF Inv, Generated
  <2> QED BY <2>1, <2>2, EveryProofBinds
<1> QED BY <1>1, InvInductive, PTL

(* An index with which a proof verifies leads to a leaf of the content the  *)
(* proof shows, in a tree of any depth (VerifyMerkleInclusionProof).       *)
THEOREM IndexAlwaysLeads == Spec => []IndexLeadsToContent
<1>1. Inv => IndexLeadsToContent
  <2> SUFFICES ASSUME Inv, proof # NoProof
               PROVE  \A k \in 0..(2 * Len(Padded(from)) - 1) :
                        VerifyMerkleInclusionProof([proof EXCEPT !.index = k])
                          => At(Padded(from), k % Len(Padded(from))) = proof.leaf
    BY DEF IndexLeadsToContent
  <2>1. from \in Chains
    BY DEF Inv, Generated
  <2>2. PICK index \in 0..(Len(from) - 1) : proof = ProofFor(from, index)
    BY DEF Inv, Generated
  <2> QED BY <2>1, <2>2, EveryIndexLeads
<1> QED BY <1>1, InvInductive, PTL

(* The root of a proof somebody holds is the root of the present chain,     *)
(* grown or another, exactly when the leaves of one are a level of the     *)
(* other's tree (ComputeEvidenceMerkleRoot).                               *)
THEOREM RootAlwaysTells == Spec => []RootTellsLinks
<1>1. Inv => RootTellsLinks
  <2> SUFFICES ASSUME Inv, proof # NoProof, links # <<>>
               PROVE  ComputeEvidenceMerkleRoot(links) = proof.root <=> SameLeaves(links, from)
    BY DEF RootTellsLinks
  <2>1. from \in Chains /\ links \in Chains
    BY DEF Inv, Generated, Chains
  <2>2. proof.root = ComputeEvidenceMerkleRoot(from)
    BY DEF Inv, Generated, ProofFor
  <2> QED BY <2>1, <2>2, RootTellsChain
<1> QED BY <1>1, InvInductive, PTL
=============================================================================
