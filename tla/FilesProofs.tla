---------------------------- MODULE FilesProofs -----------------------------
(***************************************************************************)
(* The file system and the descriptors, for any image, any size of block,  *)
(* any number of descriptors and depth of programs, and reads of any       *)
(* length.                                                                 *)
(***************************************************************************)
EXTENDS Programs, SequenceTheorems, WellFoundedInduction, TLAPS

-----------------------------------------------------------------------------
(* Data *)

(* A set of numbers that is not empty has a least one, which Min is. *)
LEMMA MinIs ==
  ASSUME NEW S, S \subseteq Nat, S # {}
  PROVE  Min(S) \in S /\ \A x \in S : Min(S) <= x
<1> DEFINE R == {e \in Nat \X Nat : e[1] < e[2]}
<1>1. IsWellFoundedOn(R, Nat)
  BY NatLessThanWellFounded DEF OpToRel
<1>2. PICK k \in S : \A q \in S : ~(<<q, k>> \in R)
  <2> HIDE DEF R
  <2> QED  BY <1>1, WFMin, Zenon
<1>3. \A q \in S : k <= q
  <2>1. TAKE q \in S
  <2>2. q \in Nat /\ k \in Nat /\ ~(<<q, k>> \in R)
    BY <1>2
  <2>3. ~(q < k)
    BY <2>2
  <2> QED  BY <2>2, <2>3
<1> QED
  BY <1>3, Zenon DEF Min

(* The concatenations that Joined computes one after the other are the     *)
(* only ones that begin and go on as it does.                              *)
LEMMA JoinedIs ==
  ASSUME NEW seqs, NEW n \in Nat \ {0}, NEW G,
         Len(seqs) = n,
         G[1] = seqs[1],
         \A i \in 2..n : G[i] = G[i - 1] \o seqs[i]
  PROVE  Joined(seqs) = G[n]
<1> DEFINE F == [i \in 1..n |-> G[i]]
           Body(g) == [i \in 1..n |-> IF i = 1 THEN seqs[i] ELSE g[i - 1] \o seqs[i]]
           upTo == CHOOSE g : g = Body(g)
           R == {e \in Nat \X Nat : e[1] < e[2]}
           S == {i \in 1..n : upTo[i] # F[i]}
<1>0. F[1] = seqs[1] /\ F[n] = G[n] /\ \A i \in 2..n : F[i] = F[i - 1] \o seqs[i]
  <2>1. \A i \in 2..n : i \in 1..n /\ i - 1 \in 1..n
    OBVIOUS
  <2>2. \A i \in 1..n : F[i] = G[i]
    OBVIOUS
  <2> HIDE DEF F
  <2>3. ASSUME NEW i \in 2..n PROVE F[i] = F[i - 1] \o seqs[i]
    <3>1. F[i] = G[i] /\ F[i - 1] = G[i - 1] /\ G[i] = G[i - 1] \o seqs[i]
      BY <2>1, <2>2, Zenon
    <3> QED  BY <3>1
  <2>4. F[1] = G[1] /\ F[n] = G[n]
    BY <2>2
  <2> QED  BY <2>3, <2>4, Zenon
<1>1. Joined(seqs) = upTo[n]
  BY DEF Joined
<1>2. F = Body(F)
  <2>1. ASSUME NEW i \in 1..n
        PROVE  F[i] = IF i = 1 THEN seqs[i] ELSE F[i - 1] \o seqs[i]
    <3>1. CASE i = 1
      BY <3>1
    <3>2. CASE i # 1
      <4>1. i \in 2..n
        BY <3>2
      <4> HIDE DEF F
      <4> QED  BY <1>0, <3>2, <4>1, Zenon
    <3> QED  BY <3>1, <3>2
  <2> QED  BY <2>1
<1>3. upTo = Body(upTo)
  <2> HIDE DEF Body
  <2> QED  BY <1>2, Zenon
<1>4. \A i \in 1..n : upTo[i] = IF i = 1 THEN seqs[i] ELSE upTo[i - 1] \o seqs[i]
  <2> HIDE DEF upTo
  <2> QED  BY <1>3, Zenon
<1> HIDE DEF upTo
<1>5. SUFFICES ASSUME S # {} PROVE FALSE
  BY <1>1
<1>6. IsWellFoundedOn(R, Nat)
  BY NatLessThanWellFounded DEF OpToRel
<1>7. S \subseteq Nat
  OBVIOUS
<1>8. PICK k \in S : \A q \in S : ~(<<q, k>> \in R)
  <2> HIDE DEF R, S
  <2> QED  BY <1>5, <1>6, <1>7, WFMin, Zenon
<1>9. k \in 1..n /\ upTo[k] # F[k]
  BY <1>8
<1>10. k # 1
  BY <1>4, <1>9
<1>11. k - 1 \in 1..n /\ <<k - 1, k>> \in R
  BY <1>9, <1>10
<1>12. upTo[k - 1] = F[k - 1]
  BY <1>8, <1>11
<1>13. upTo[k] = upTo[k - 1] \o seqs[k]
  BY <1>4, <1>9, <1>10, Zenon
<1>14. k \in 2..n
  BY <1>9, <1>10
<1>15. F[k] = F[k - 1] \o seqs[k]
  <2> HIDE DEF F
  <2> QED  BY <1>0, <1>14, Zenon
<1> QED
  BY <1>9, <1>12, <1>13, <1>15, Zenon

-----------------------------------------------------------------------------
(* read_data *)

(* The byte at a place of a file, and those from place a to before b. *)
ByteAt(blocks, i) == <<blocks[i \div BLOCK_SIZE], i % BLOCK_SIZE>>
Bytes(blocks) == {ByteAt(blocks, i) : i \in Nat}
Cut(blocks, a, b) == [i \in 1..(b - a) |-> ByteAt(blocks, a + i - 1)]

(* A place is a block and an offset in it in one way only. *)
LEMMA PlaceIs ==
  ASSUME NEW q \in Nat, NEW r \in 0..(BLOCK_SIZE - 1)
  PROVE  (q * BLOCK_SIZE + r) \div BLOCK_SIZE = q /\ (q * BLOCK_SIZE + r) % BLOCK_SIZE = r
<1> DEFINE n == q * BLOCK_SIZE + r
           d == n \div BLOCK_SIZE
           m == n % BLOCK_SIZE
<1>1. n \in Nat /\ BLOCK_SIZE \in Nat \ {0}
  BY FilesAssumption
<1> HIDE DEF n
<1>2. d \in Int /\ m \in 0..(BLOCK_SIZE - 1) /\ n = d * BLOCK_SIZE + m
  BY <1>1
<1> HIDE DEF d, m
<1>3. (q - d) * BLOCK_SIZE = m - r
  <2>1. q * BLOCK_SIZE + r = d * BLOCK_SIZE + m
    BY <1>2 DEF n
  <2>2. (q - d) * BLOCK_SIZE = q * BLOCK_SIZE - d * BLOCK_SIZE
    BY <1>1, <1>2
  <2>3. q * BLOCK_SIZE \in Int /\ d * BLOCK_SIZE \in Int
    BY <1>1, <1>2
  <2> QED  BY <1>1, <1>2, <2>1, <2>2, <2>3
<1>4. q - d = 0
  <2> DEFINE e == q - d
  <2>1. e \in Int /\ e * BLOCK_SIZE < BLOCK_SIZE /\ e * BLOCK_SIZE > 0 - BLOCK_SIZE
    BY <1>1, <1>2, <1>3
  <2> HIDE DEF e
  <2>2. ~(e >= 1) /\ ~(e <= -1)
    BY <1>1, <2>1
  <2>3. e = 0
    BY <2>1, <2>2
  <2> QED  BY <2>3 DEF e
<1>5. d = q /\ m = r
  BY <1>1, <1>2, <1>3, <1>4
<1> QED
  BY <1>5 DEF n, d, m

(* Whole blocks. *)
LEMMA BlocksOf ==
  ASSUME NEW m \in Nat, NEW n \in Nat
  PROVE  /\ m * BLOCK_SIZE \in Nat
         /\ (m + n) * BLOCK_SIZE = m * BLOCK_SIZE + n * BLOCK_SIZE
         /\ (m + 1) * BLOCK_SIZE = m * BLOCK_SIZE + BLOCK_SIZE
         /\ m < n => m * BLOCK_SIZE + BLOCK_SIZE <= n * BLOCK_SIZE
<1>1. BLOCK_SIZE \in Nat \ {0}
  BY FilesAssumption
<1>2. m < n => m * BLOCK_SIZE + BLOCK_SIZE <= n * BLOCK_SIZE
  <2>1. SUFFICES ASSUME m < n PROVE m * BLOCK_SIZE + BLOCK_SIZE <= n * BLOCK_SIZE
    OBVIOUS
  <2>2. PICK d \in Nat : n = m + 1 + d
    <3>1. n - m - 1 \in Nat /\ n = m + 1 + (n - m - 1)
      BY <2>1
    <3> QED  BY <3>1
  <2>3. n * BLOCK_SIZE = m * BLOCK_SIZE + BLOCK_SIZE + d * BLOCK_SIZE
    BY <1>1, <2>2
  <2>4. d * BLOCK_SIZE \in Nat /\ m * BLOCK_SIZE \in Nat
    BY <1>1
  <2> QED  BY <1>1, <2>3, <2>4
<1> QED
  BY <1>1, <1>2

LEMMA PlaceOf ==
  ASSUME NEW a \in Nat
  PROVE  /\ a \div BLOCK_SIZE \in Nat /\ a % BLOCK_SIZE \in 0..(BLOCK_SIZE - 1)
         /\ a = (a \div BLOCK_SIZE) * BLOCK_SIZE + (a % BLOCK_SIZE)
<1> QED
  BY FilesAssumption

LEMMA CutIs ==
  ASSUME NEW blocks, NEW a \in Nat, NEW b \in Nat, a <= b
  PROVE  /\ Cut(blocks, a, b) \in Seq(Bytes(blocks))
         /\ Len(Cut(blocks, a, b)) = b - a
         /\ \A i \in 1..(b - a) : Cut(blocks, a, b)[i] = ByteAt(blocks, a + i - 1)
<1>1. \A i \in 1..(b - a) : ByteAt(blocks, a + i - 1) \in Bytes(blocks)
  <2>1. TAKE i \in 1..(b - a)
  <2>2. a + i - 1 \in Nat
    OBVIOUS
  <2> QED  BY <2>2 DEF Bytes
<1> QED
  BY <1>1 DEF Cut

(* Bytes that follow one another. *)
LEMMA CutJoin ==
  ASSUME NEW blocks, NEW a \in Nat, NEW b \in Nat, NEW c \in Nat, a <= b, b <= c
  PROVE  Cut(blocks, a, b) \o Cut(blocks, b, c) = Cut(blocks, a, c)
<1> DEFINE x == Cut(blocks, a, b)
           y == Cut(blocks, b, c)
           z == Cut(blocks, a, c)
<1>1. /\ x \in Seq(Bytes(blocks)) /\ Len(x) = b - a
      /\ \A i \in 1..(b - a) : x[i] = ByteAt(blocks, a + i - 1)
  BY CutIs, Zenon
<1>2. /\ y \in Seq(Bytes(blocks)) /\ Len(y) = c - b
      /\ \A i \in 1..(c - b) : y[i] = ByteAt(blocks, b + i - 1)
  BY CutIs, Zenon
<1>3. /\ z \in Seq(Bytes(blocks)) /\ Len(z) = c - a
      /\ \A i \in 1..(c - a) : z[i] = ByteAt(blocks, a + i - 1)
  <2>1. a <= c
    OBVIOUS
  <2> QED  BY <2>1, CutIs, Zenon
<1> HIDE DEF x, y, z
<1>4. /\ x \o y \in Seq(Bytes(blocks)) /\ Len(x \o y) = Len(x) + Len(y)
      /\ \A i \in 1..(Len(x) + Len(y)) :
           (x \o y)[i] = IF i <= Len(x) THEN x[i] ELSE y[i - Len(x)]
  <2>1. x \in Seq(Bytes(blocks)) /\ y \in Seq(Bytes(blocks))
    BY <1>1, <1>2
  <2> HIDE DEF Bytes
  <2> QED  BY <2>1, ConcatProperties, Zenon
<1>5. Len(x) + Len(y) = c - a
  BY <1>1, <1>2
<1>6. ASSUME NEW i \in 1..(c - a) PROVE (x \o y)[i] = z[i]
  <2>1. CASE i <= b - a
    <3>1. i \in 1..(b - a) /\ i \in 1..(Len(x) + Len(y)) /\ i <= Len(x)
      BY <1>1, <1>5, <2>1
    <3>2. (x \o y)[i] = x[i]
      BY <1>4, <3>1
    <3> QED  BY <1>1, <1>3, <3>1, <3>2
  <2>2. CASE ~(i <= b - a)
    <3>1. i - (b - a) \in 1..(c - b) /\ b + (i - (b - a)) - 1 = a + i - 1
      BY <2>2
    <3>2. i \in 1..(Len(x) + Len(y)) /\ ~(i <= Len(x)) /\ i - Len(x) = i - (b - a)
      BY <1>1, <1>5, <2>2
    <3>3. (x \o y)[i] = y[i - (b - a)]
      BY <1>4, <3>2
    <3>4. y[i - (b - a)] = ByteAt(blocks, b + (i - (b - a)) - 1)
      BY <1>2, <3>1
    <3> QED  BY <1>3, <3>1, <3>3, <3>4
  <2> QED  BY <2>1, <2>2, Zenon
<1>7. x \o y = z
  <2>1. Len(x \o y) = Len(z) /\ \A i \in 1..Len(z) : (x \o y)[i] = z[i]
    BY <1>3, <1>4, <1>5, <1>6, Zenon
  <2> QED  BY <1>3, <1>4, <2>1, SeqEqual, Zenon
<1> QED
  BY <1>7 DEF x, y, z

(* What memcpy copies of one block. *)
LEMMA PieceIs ==
  ASSUME NEW blocks, NEW q \in Nat, NEW r \in 0..(BLOCK_SIZE - 1), NEW n \in Nat,
         r + n <= BLOCK_SIZE
  PROVE  Piece(blocks[q], r, n) = Cut(blocks, q * BLOCK_SIZE + r, q * BLOCK_SIZE + r + n)
<1>1. PICK a \in Nat : a = q * BLOCK_SIZE + r
  BY FilesAssumption
<1>2. ASSUME NEW i \in 1..n PROVE ByteAt(blocks, a + i - 1) = <<blocks[q], r + i - 1>>
  <2>1. r + i - 1 \in 0..(BLOCK_SIZE - 1)
    BY FilesAssumption
  <2>2. /\ (q * BLOCK_SIZE + (r + i - 1)) \div BLOCK_SIZE = q
        /\ (q * BLOCK_SIZE + (r + i - 1)) % BLOCK_SIZE = r + i - 1
    BY <2>1, PlaceIs
  <2>3. a + i - 1 = q * BLOCK_SIZE + (r + i - 1)
    BY <1>1, FilesAssumption
  <2> QED  BY <2>2, <2>3 DEF ByteAt
<1>3. Piece(blocks[q], r, n) = Cut(blocks, a, a + n)
  <2>1. (a + n) - a = n
    OBVIOUS
  <2> QED  BY <1>2, <2>1, Zenon DEF Piece, Cut
<1> QED
  BY <1>1, <1>3

(* The whole blocks between the first and the last. *)
LEMMA MiddleIs ==
  ASSUME NEW blocks, NEW s \in Nat, NEW k \in Nat
  PROVE  Joined([j \in 1..k |-> Piece(blocks[s + j], 0, BLOCK_SIZE)])
           = Cut(blocks, (s + 1) * BLOCK_SIZE, (s + 1 + k) * BLOCK_SIZE)
<1> DEFINE middle == [j \in 1..k |-> Piece(blocks[s + j], 0, BLOCK_SIZE)]
           Edge(j) == (s + 1 + j) * BLOCK_SIZE
           F == [j \in 1..k |-> Cut(blocks, Edge(0), Edge(j))]
<1>1. ASSUME NEW j \in Nat
      PROVE  /\ Edge(j) \in Nat /\ Edge(0) <= Edge(j)
             /\ Edge(j) + BLOCK_SIZE = Edge(j + 1)
             /\ Edge(j) = (s + (j + 1)) * BLOCK_SIZE
  <2>1. /\ s + 1 \in Nat /\ s + 1 + j \in Nat /\ (s + 1) + 0 = s + 1
        /\ s + 1 + (j + 1) = (s + 1 + j) + 1 /\ s + (j + 1) = s + 1 + j
    OBVIOUS
  <2>2. Edge(j) = (s + 1) * BLOCK_SIZE + j * BLOCK_SIZE /\ Edge(0) = (s + 1) * BLOCK_SIZE
    BY <2>1, BlocksOf
  <2>3. Edge(j + 1) = Edge(j) + BLOCK_SIZE
    BY <2>1, BlocksOf
  <2>4. (s + 1) * BLOCK_SIZE \in Nat /\ j * BLOCK_SIZE \in Nat
    BY <2>1, BlocksOf, Zenon
  <2>5. Edge(j) \in Nat /\ Edge(0) <= Edge(j)
    <3> HIDE DEF Edge
    <3> QED  BY <2>2, <2>4
  <2>6. Edge(j) = (s + (j + 1)) * BLOCK_SIZE
    BY <2>1
  <2> QED  BY <2>3, <2>5, <2>6
<1>2. ASSUME NEW j \in 1..k PROVE middle[j] = Cut(blocks, Edge(j - 1), Edge(j))
  <2>1. Piece(blocks[s + j], 0, BLOCK_SIZE)
          = Cut(blocks, (s + j) * BLOCK_SIZE + 0, (s + j) * BLOCK_SIZE + 0 + BLOCK_SIZE)
    BY PieceIs, FilesAssumption
  <2>2. /\ Edge(j - 1) = (s + j) * BLOCK_SIZE + 0
        /\ Edge(j) = (s + j) * BLOCK_SIZE + 0 + BLOCK_SIZE
    BY FilesAssumption
  <2> QED  BY <2>1, <2>2
<1>3. Len(middle) = k
  OBVIOUS
<1>4. Edge(0) = (s + 1) * BLOCK_SIZE /\ Edge(k) = (s + 1 + k) * BLOCK_SIZE
  OBVIOUS
<1>5. CASE k = 0
  <2>1. Joined(middle) = <<>>
    BY <1>3, <1>5 DEF Joined
  <2>2. Cut(blocks, Edge(0), Edge(0)) = <<>>
    <3>1. Edge(0) \in Nat
      BY <1>1
    <3>2. Edge(0) - Edge(0) = 0
      BY <3>1
    <3> HIDE DEF Edge
    <3>3. 1..(Edge(0) - Edge(0)) = {}
      BY <3>2
    <3> QED  BY <3>3 DEF Cut
  <2> QED  BY <1>4, <1>5, <2>1, <2>2
<1>6. CASE k # 0
  <2> HIDE DEF Edge
  <2>1. F[1] = middle[1]
    BY <1>2, <1>6
  <2>2. ASSUME NEW j \in 2..k PROVE F[j] = F[j - 1] \o middle[j]
    <3>1. /\ Edge(0) \in Nat /\ Edge(j - 1) \in Nat /\ Edge(j) \in Nat
          /\ Edge(0) <= Edge(j - 1) /\ Edge(j - 1) + BLOCK_SIZE = Edge(j)
      <4>1. j - 1 \in Nat /\ (j - 1) + 1 = j
        OBVIOUS
      <4> QED  BY <1>1, <4>1
    <3>2. Edge(j - 1) <= Edge(j)
      BY <3>1, FilesAssumption
    <3>3. Cut(blocks, Edge(0), Edge(j - 1)) \o Cut(blocks, Edge(j - 1), Edge(j))
            = Cut(blocks, Edge(0), Edge(j))
      BY <3>1, <3>2, CutJoin, Zenon
    <3>4. F[j] = Cut(blocks, Edge(0), Edge(j)) /\ F[j - 1] = Cut(blocks, Edge(0), Edge(j - 1))
      OBVIOUS
    <3>5. middle[j] = Cut(blocks, Edge(j - 1), Edge(j))
      BY <1>2
    <3> QED  BY <3>3, <3>4, <3>5, Zenon
  <2> HIDE DEF middle, F
  <2>3. Joined(middle) = F[k]
    <3>1. k \in Nat \ {0} /\ \A j \in 2..k : F[j] = F[j - 1] \o middle[j]
      BY <1>6, <2>2, Zenon
    <3> QED  BY <1>3, <2>1, <3>1, JoinedIs, Zenon
  <2> USE DEF middle, F
  <2> QED  BY <1>4, <1>6, <2>3
<1> QED
  BY <1>5, <1>6

(* A read of a file copies the bytes from its start to its end. *)
LEMMA CopyIs ==
  ASSUME NEW blocks, NEW a \in Nat, NEW b \in Nat, a <= b
  PROVE  CopyBlocks(blocks, a \div BLOCK_SIZE, a % BLOCK_SIZE,
                    b \div BLOCK_SIZE, b % BLOCK_SIZE) = Cut(blocks, a, b)
<1>1. PICK q \in Nat, r \in 0..(BLOCK_SIZE - 1) :
        a \div BLOCK_SIZE = q /\ a % BLOCK_SIZE = r /\ a = q * BLOCK_SIZE + r
  BY PlaceOf
<1>2. PICK p \in Nat, t \in 0..(BLOCK_SIZE - 1) :
        b \div BLOCK_SIZE = p /\ b % BLOCK_SIZE = t /\ b = p * BLOCK_SIZE + t
  BY PlaceOf
<1>3. CASE q = p
  <2>1. r <= t /\ t - r \in Nat /\ r + (t - r) <= BLOCK_SIZE
    BY <1>1, <1>2, <1>3, FilesAssumption
  <2>2. Piece(blocks[q], r, t - r) = Cut(blocks, q * BLOCK_SIZE + r, q * BLOCK_SIZE + r + (t - r))
    BY <2>1, PieceIs
  <2>3. q * BLOCK_SIZE + r + (t - r) = b
    BY <1>1, <1>2, <1>3, FilesAssumption
  <2> QED  BY <1>1, <1>2, <1>3, <2>2, <2>3 DEF CopyBlocks
<1>4. CASE q # p
  <2> DEFINE k == p - q - 1
             first == (q + 1) * BLOCK_SIZE
             last == p * BLOCK_SIZE
  <2>1. q < p
    <3>1. SUFFICES ASSUME p < q PROVE FALSE
      BY <1>4
    <3>2. p * BLOCK_SIZE + BLOCK_SIZE <= q * BLOCK_SIZE
      BY <3>1, BlocksOf
    <3>3. p * BLOCK_SIZE \in Nat /\ q * BLOCK_SIZE \in Nat /\ BLOCK_SIZE \in Nat
      BY BlocksOf, FilesAssumption
    <3>4. PICK x \in Nat, y \in Nat : x = p * BLOCK_SIZE /\ y = q * BLOCK_SIZE
      BY <3>3
    <3>5. x + t >= y + r /\ x + BLOCK_SIZE <= y
      BY <1>1, <1>2, <3>2, <3>4
    <3> QED  BY <3>3, <3>4, <3>5
  <2>2. k \in Nat /\ q + 1 + k = p
    BY <2>1
  <2>3. first \in Nat /\ last \in Nat /\ first <= last
    BY <2>1, FilesAssumption
  <2>4. Piece(blocks[q], r, BLOCK_SIZE - r) = Cut(blocks, a, first)
    <3>1. BLOCK_SIZE - r \in Nat /\ r + (BLOCK_SIZE - r) <= BLOCK_SIZE
      BY FilesAssumption
    <3>2. Piece(blocks[q], r, BLOCK_SIZE - r)
            = Cut(blocks, q * BLOCK_SIZE + r, q * BLOCK_SIZE + r + (BLOCK_SIZE - r))
      BY <3>1, PieceIs
    <3>3. q * BLOCK_SIZE + r + (BLOCK_SIZE - r) = first
      BY FilesAssumption
    <3> QED  BY <1>1, <3>2, <3>3
  <2>5. Joined([j \in 1..k |-> Piece(blocks[q + j], 0, BLOCK_SIZE)])
          = Cut(blocks, first, last)
    <3>1. Joined([j \in 1..k |-> Piece(blocks[q + j], 0, BLOCK_SIZE)])
            = Cut(blocks, (q + 1) * BLOCK_SIZE, (q + 1 + k) * BLOCK_SIZE)
      <4> HIDE DEF k
      <4> QED  BY <2>2, MiddleIs, Zenon
    <3> QED  BY <2>2, <3>1
  <2>6. Piece(blocks[p], 0, t) = Cut(blocks, last, b)
    <3>1. Piece(blocks[p], 0, t) = Cut(blocks, p * BLOCK_SIZE + 0, p * BLOCK_SIZE + 0 + t)
      BY PieceIs, FilesAssumption
    <3>2. p * BLOCK_SIZE + 0 = last /\ p * BLOCK_SIZE + 0 + t = b
      BY <1>2, FilesAssumption
    <3> QED  BY <3>1, <3>2
  <2>7. CopyBlocks(blocks, q, r, p, t)
          = Cut(blocks, a, first) \o Cut(blocks, first, last) \o Cut(blocks, last, b)
    BY <1>4, <2>4, <2>5, <2>6, Zenon DEF CopyBlocks
  <2>8. a <= first /\ last <= b
    BY <1>1, <1>2, FilesAssumption
  <2> HIDE DEF first, last
  <2>9. Cut(blocks, a, first) \o Cut(blocks, first, last) = Cut(blocks, a, last)
    BY <2>3, <2>8, CutJoin, ZenonT(60)
  <2>10. a <= last
    BY <2>3, <2>8
  <2>11. Cut(blocks, a, last) \o Cut(blocks, last, b) = Cut(blocks, a, b)
    BY <2>3, <2>8, <2>10, CutJoin, ZenonT(60)
  <2> QED  BY <1>1, <1>2, <2>7, <2>9, <2>11, Zenon
<1> QED
  BY <1>3, <1>4

-----------------------------------------------------------------------------
(* Descriptors *)

(* What the reads of a descriptor have returned, by its position. *)
Returned(e) == IF Readable(e) THEN SubSeq(Content(e), 1, e.file_pos) ELSE <<>>

(* How far a descriptor can be read. *)
End(op, i) ==
  IF op = "file" THEN inodes[i].length ELSE IF op = "dir" THEN Len(files) ELSE 0

(* An entry from the third on is free, or open and not read past its end. *)
EntryOK(e) ==
  \/ e = FREE
  \/ \E op \in {"rtc", "dir", "file"} : \E i \in DOMAIN inodes : \E pos \in 0..End(op, i) :
       e = Opened(op, i, pos)

LEMMA Fields ==
  /\ \A op, i, pos : /\ Opened(op, i, pos).op = op
                     /\ Opened(op, i, pos).inode = i
                     /\ Opened(op, i, pos).file_pos = pos
                     /\ Opened(op, i, pos).used
                     /\ Content(Opened(op, i, pos)) = Content(Opened(op, i, 0))
  /\ ~ FREE.used
<1> QED
  BY DEF Opened, FREE, Content

(* The bytes of a file, by place. *)
LEMMA FileContent ==
  ASSUME NEW i \in DOMAIN inodes, NEW pos
  PROVE  Content(Opened("file", i, pos)) = Cut(inodes[i].blocks, 0, inodes[i].length)
<1>1. inodes[i].length \in Nat
  BY FilesAssumption
<1>2. PICK L \in Nat, blocks \in {inodes[i].blocks} : L = inodes[i].length /\ blocks = inodes[i].blocks
  BY <1>1
<1>3. Content(Opened("file", i, pos))
        = [j \in 1..L |-> <<blocks[(j - 1) \div BLOCK_SIZE], (j - 1) % BLOCK_SIZE>>]
  <2>1. PICK e : e = Opened("file", i, pos) /\ e.op = "file" /\ e.inode = i
    BY Fields
  <2>2. Content(e) = [j \in 1..inodes[i].length |->
                       <<inodes[i].blocks[(j - 1) \div BLOCK_SIZE], (j - 1) % BLOCK_SIZE>>]
    BY <2>1, Zenon DEF Content
  <2> QED  BY <1>2, <2>1, <2>2, Zenon
<1>4. L - 0 = L /\ \A j \in 1..L : 0 + j - 1 = j - 1
  OBVIOUS
<1>5. Cut(blocks, 0, L)
        = [j \in 1..L |-> <<blocks[(j - 1) \div BLOCK_SIZE], (j - 1) % BLOCK_SIZE>>]
  BY <1>4 DEF Cut, ByteAt
<1> QED
  BY <1>2, <1>3, <1>5

LEMMA CutFirst ==
  ASSUME NEW blocks, NEW a \in Nat
  PROVE  /\ Cut(blocks, 0, a) \in Seq(Bytes(blocks))
         /\ Len(Cut(blocks, 0, a)) = a
         /\ \A i \in 1..a : Cut(blocks, 0, a)[i] = ByteAt(blocks, i - 1)
<1>1. 0 \in Nat /\ 0 <= a /\ a - 0 = a /\ \A i \in 1..a : 0 + i - 1 = i - 1
  OBVIOUS
<1>2. /\ Cut(blocks, 0, a) \in Seq(Bytes(blocks))
      /\ Len(Cut(blocks, 0, a)) = a - 0
      /\ \A i \in 1..(a - 0) : Cut(blocks, 0, a)[i] = ByteAt(blocks, 0 + i - 1)
  BY <1>1, CutIs
<1> QED
  BY <1>1, <1>2

(* The first bytes of a file. *)
LEMMA CutPrefix ==
  ASSUME NEW blocks, NEW a \in Nat, NEW b \in Nat, a <= b
  PROVE  SubSeq(Cut(blocks, 0, b), 1, a) = Cut(blocks, 0, a)
<1> DEFINE x == Cut(blocks, 0, a)
           y == Cut(blocks, 0, b)
<1>1. x \in Seq(Bytes(blocks)) /\ Len(x) = a /\ \A i \in 1..a : x[i] = ByteAt(blocks, i - 1)
  BY CutFirst
<1>2. y \in Seq(Bytes(blocks)) /\ Len(y) = b /\ \A i \in 1..b : y[i] = ByteAt(blocks, i - 1)
  BY CutFirst
<1> HIDE DEF x, y
<1>3. \A i \in 1..a : y[i] \in Bytes(blocks) /\ y[i] = x[i]
  BY <1>1, <1>2
<1>4. /\ SubSeq(y, 1, a) \in Seq(Bytes(blocks))
      /\ Len(SubSeq(y, 1, a)) = a
      /\ \A i \in 1..a : SubSeq(y, 1, a)[i] = y[i]
  BY <1>2, <1>3, SubSeqProperties
<1>5. SubSeq(y, 1, a) = x
  BY <1>1, <1>3, <1>4, SeqEqual
<1> QED
  BY <1>5 DEF x, y

(* A read of a file, from anywhere in it and of any length, goes on with   *)
(* the bytes that follow; it returns 0 for a positive length only at the   *)
(* end.                                                                    *)
LEMMA FileRead ==
  ASSUME NEW i \in DOMAIN inodes, NEW pos \in 0..inodes[i].length, NEW n, NoWrap(n),
         read_data(i, pos, n).val # -1
  PROVE  LET r == read_data(i, pos, n) IN
         /\ pos + r.val \in 0..inodes[i].length
         /\ r.val \in Nat
         /\ SubSeq(Content(Opened("file", i, 0)), 1, pos) \o r.bytes
              = SubSeq(Content(Opened("file", i, 0)), 1, pos + r.val)
         /\ r.val = 0 /\ n > 0 => pos = inodes[i].length
<1>1. PICK L \in Nat, blocks \in {inodes[i].blocks} : L = inodes[i].length /\ blocks = inodes[i].blocks
  BY FilesAssumption
<1>2. n \in Nat /\ L + n < Word /\ Word \in Nat /\ pos \in Nat /\ pos <= L
  BY <1>1, FilesAssumption DEF NoWrap
<1>3. (pos + n) % Word = pos + n
  BY <1>2
<1>4. PICK end : end = EndOf(L, pos, n)
  OBVIOUS
<1>5. end = IF pos + n >= L THEN L ELSE pos + n
  BY <1>3, <1>4 DEF EndOf
<1>6. end \in Nat /\ pos <= end /\ end <= L /\ (end = pos => n = 0 \/ pos = L)
  BY <1>2, <1>5
<1>7. PICK C : C = Content(Opened("file", i, 0)) /\ C = Cut(blocks, 0, L)
  BY <1>1, FileContent
<1>8. CASE AtEnd(L, pos)
  <2>1. pos = L
    BY <1>2, <1>8 DEF AtEnd
  <2>2. i < MAX_FILES
    BY <1>1, <1>8, FilesAssumption DEF read_data, Fails
  <2>3. read_data(i, pos, n) = [val |-> 0, bytes |-> <<>>]
    BY <1>1, <1>8, <2>2, FilesAssumption DEF read_data
  <2>4. SubSeq(C, 1, pos) \in Seq(Bytes(blocks))
    BY <1>2, <1>7, <2>1, CutPrefix, CutFirst
  <2>5. SubSeq(C, 1, pos) \o <<>> = SubSeq(C, 1, pos)
    BY <2>4, ConcatEmptySeq
  <2> QED  BY <1>1, <1>2, <1>7, <2>1, <2>3, <2>5
<1>9. CASE ~ AtEnd(L, pos)
  <2>1. /\ read_data(i, pos, n).val = end - pos
        /\ read_data(i, pos, n).bytes
             = CopyBlocks(blocks, pos \div BLOCK_SIZE, pos % BLOCK_SIZE,
                          end \div BLOCK_SIZE, end % BLOCK_SIZE)
    BY <1>1, <1>4, <1>9 DEF read_data, Fails
  <2>2. read_data(i, pos, n).bytes = Cut(blocks, pos, end)
    BY <1>2, <1>6, <2>1, CopyIs
  <2>3. pos # L
    BY <1>2, <1>9 DEF AtEnd
  <2>4. SubSeq(C, 1, pos) = Cut(blocks, 0, pos) /\ SubSeq(C, 1, end) = Cut(blocks, 0, end)
    BY <1>2, <1>6, <1>7, CutPrefix
  <2>5. Cut(blocks, 0, pos) \o Cut(blocks, pos, end) = Cut(blocks, 0, end)
    <3>1. 0 \in Nat /\ 0 <= pos
      BY <1>2
    <3> QED  BY <1>2, <1>6, <3>1, CutJoin, ZenonT(60)
  <2>6. pos + (end - pos) = end /\ end - pos \in Nat /\ (end - pos = 0 => n = 0)
    BY <1>2, <1>6, <2>3
  <2>7. end \in 0..L /\ (end - pos = 0 /\ n > 0 => pos = L)
    BY <1>2, <1>6, <2>6
  <2>8. SubSeq(C, 1, pos) \o read_data(i, pos, n).bytes = SubSeq(C, 1, end)
    BY <2>2, <2>4, <2>5, Zenon
  <2> QED  BY <1>1, <1>7, <2>1, <2>6, <2>7, <2>8
<1> QED
  BY <1>8, <1>9, Zenon

LEMMA DirContent ==
  ASSUME NEW i, NEW pos
  PROVE  Content(Opened("dir", i, pos)) = [j \in DOMAIN files |-> files[j].key]
<1>1. PICK e : e = Opened("dir", i, pos) /\ e.op = "dir" /\ e.op # "file"
  BY Fields
<1>2. Content(e) = [j \in DOMAIN files |-> files[j].key]
  BY <1>1, Zenon DEF Content
<1> QED
  BY <1>1, <1>2, Zenon

(* A read of the directory goes on with the next name, until the last. *)
LEMMA DirRead ==
  ASSUME NEW i, NEW pos \in 0..Len(files)
  PROVE  LET r == dir_read(pos) IN
         /\ r.val # -1
         /\ pos + Len(r.bytes) \in 0..Len(files)
         /\ SubSeq(Content(Opened("dir", i, 0)), 1, pos) \o r.bytes
              = SubSeq(Content(Opened("dir", i, 0)), 1, pos + Len(r.bytes))
         /\ r.val = 0 => pos = Len(files)
<1> DEFINE Key == {files[j].key : j \in DOMAIN files}
           r == dir_read(pos)
<1>1. PICK L \in Nat : L = Len(files) /\ DOMAIN files = 1..L
  BY FilesAssumption, Zenon
<1>2. PICK C : C = Content(Opened("dir", i, 0)) /\ C = [j \in 1..L |-> files[j].key]
  BY <1>1, DirContent, Zenon
<1>3. C \in Seq(Key) /\ Len(C) = L /\ \A j \in 1..L : C[j] = files[j].key
  BY <1>1, <1>2
<1> HIDE DEF Key
<1>4. ASSUME NEW a \in 0..L
      PROVE  /\ SubSeq(C, 1, a) \in Seq(Key) /\ Len(SubSeq(C, 1, a)) = a
             /\ \A j \in 1..a : SubSeq(C, 1, a)[j] = C[j]
  BY <1>3, SubSeqProperties
<1>5. CASE pos >= L
  <2>1. r = [val |-> 0, bytes |-> <<>>]
    BY <1>1, <1>5 DEF dir_read
  <2>2. r.val = 0 /\ r.bytes = <<>> /\ Len(r.bytes) = 0
    BY <2>1
  <2>3. SubSeq(C, 1, pos) \o <<>> = SubSeq(C, 1, pos)
    BY <1>1, <1>4, ConcatEmptySeq
  <2>4. pos = L /\ pos + 0 = pos /\ pos \in 0..L
    BY <1>1, <1>5
  <2> HIDE DEF r
  <2> QED  BY <1>1, <1>2, <2>2, <2>3, <2>4 DEF r
<1>6. CASE ~(pos >= L)
  <2>1. r = [val |-> files[pos + 1].len, bytes |-> <<files[pos + 1].key>>]
    BY <1>1, <1>6 DEF dir_read
  <2>2. r.val = files[pos + 1].len /\ r.bytes = <<files[pos + 1].key>> /\ Len(r.bytes) = 1
    BY <2>1
  <2>3. pos + 1 \in 1..L /\ pos + 1 \in 0..L /\ pos \in 0..L
    BY <1>1, <1>6
  <2>4. files[pos + 1].len \in Nat \ {0}
    BY <1>1, <2>3, FilesAssumption
  <2>5. SubSeq(C, 1, pos) \o <<files[pos + 1].key>> = SubSeq(C, 1, pos + 1)
    <3>1. PICK x, k, z : x = SubSeq(C, 1, pos) /\ k = C[pos + 1] /\ z = SubSeq(C, 1, pos + 1)
      BY Zenon
    <3>2. /\ x \in Seq(Key) /\ Len(x) = pos /\ \A j \in 1..pos : x[j] = C[j]
          /\ z \in Seq(Key) /\ Len(z) = pos + 1 /\ \A j \in 1..(pos + 1) : z[j] = C[j]
      BY <1>4, <2>3, <3>1
    <3>3. k \in Key /\ k = files[pos + 1].key
      BY <1>3, <2>3, <3>1
    <3>4. /\ Append(x, k) \in Seq(Key) /\ Len(Append(x, k)) = pos + 1
          /\ \A j \in 1..pos : Append(x, k)[j] = x[j]
          /\ Append(x, k)[pos + 1] = k
      BY <3>2, <3>3, AppendProperties
    <3>5. \A j \in 1..(pos + 1) : Append(x, k)[j] = z[j]
      BY <2>3, <3>1, <3>2, <3>4
    <3>6. Append(x, k) = z
      BY <3>2, <3>4, <3>5, SeqEqual
    <3>7. x \o <<k>> = Append(x, k)
      BY <3>2, <3>3
    <3> QED  BY <3>1, <3>3, <3>6, <3>7
  <2>6. files[pos + 1].len # -1 /\ files[pos + 1].len # 0
    BY <2>4
  <2> HIDE DEF r
  <2> QED  BY <1>1, <1>2, <2>2, <2>3, <2>5, <2>6 DEF r
<1> QED
  BY <1>5, <1>6, Zenon

(* All of it. *)
LEMMA WholeContent ==
  ASSUME NEW op \in {"dir", "file"}, NEW i \in DOMAIN inodes
  PROVE  SubSeq(Content(Opened(op, i, 0)), 1, End(op, i)) = Content(Opened(op, i, 0))
<1>1. CASE op = "file"
  <2>1. PICK L \in Nat, blocks \in {inodes[i].blocks} : L = inodes[i].length /\ blocks = inodes[i].blocks
    BY FilesAssumption
  <2>2. Content(Opened(op, i, 0)) = Cut(blocks, 0, L) /\ End(op, i) = L
    BY <1>1, <2>1, FileContent DEF End
  <2>3. SubSeq(Cut(blocks, 0, L), 1, L) = Cut(blocks, 0, L)
    BY CutPrefix
  <2> QED  BY <2>2, <2>3
<1>2. CASE op = "dir"
  <2> DEFINE Key == {files[j].key : j \in DOMAIN files}
  <2>1. PICK L \in Nat : L = Len(files) /\ DOMAIN files = 1..L
    BY FilesAssumption, Zenon
  <2>2. PICK C : C = Content(Opened("dir", i, 0)) /\ C = [j \in 1..L |-> files[j].key]
    BY <2>1, DirContent, Zenon
  <2>3. C \in Seq(Key) /\ Len(C) = L /\ \A j \in 1..L : C[j] \in Key
    BY <2>1, <2>2
  <2> HIDE DEF Key
  <2>4. /\ SubSeq(C, 1, L) \in Seq(Key) /\ Len(SubSeq(C, 1, L)) = L
        /\ \A j \in 1..L : SubSeq(C, 1, L)[j] = C[j]
    BY <2>3, SubSeqProperties
  <2>5. SubSeq(C, 1, L) = C
    BY <2>3, <2>4, SeqEqual
  <2>6. End(op, i) = L
    BY <1>2, <2>1 DEF End
  <2> QED  BY <1>2, <2>2, <2>5, <2>6
<1> QED
  BY <1>1, <1>2

LEMMA ReturnedIs ==
  ASSUME NEW op, NEW i, NEW pos
  PROVE  Returned(Opened(op, i, pos))
           = IF op \in {"file", "dir"} THEN SubSeq(Content(Opened(op, i, 0)), 1, pos) ELSE <<>>
<1>1. PICK e, C : /\ e = Opened(op, i, pos) /\ e.op = op /\ e.used /\ e.file_pos = pos
                  /\ C = Content(e) /\ C = Content(Opened(op, i, 0))
  BY Fields
<1>2. Returned(e) = IF op \in {"file", "dir"} THEN SubSeq(C, 1, pos) ELSE <<>>
  BY <1>1 DEF Returned, Readable
<1> QED
  BY <1>1, <1>2

(* How far a read moves its descriptor on. *)
Advance(op, r) == IF op = "file" THEN r.val ELSE Len(r.bytes)

(* What a read that succeeds does to its entry and returns. *)
LEMMA ReadKeeps ==
  ASSUME NEW op \in {"rtc", "dir", "file"}, NEW i \in DOMAIN inodes,
         NEW pos \in 0..End(op, i), NEW n, NoWrap(n),
         NEW r, r = ReadOf(Opened(op, i, pos), n), r.val # -1
  PROVE  /\ Advance(op, r) \in Nat /\ pos + Advance(op, r) \in 0..End(op, i)
         /\ Returned(Opened(op, i, pos)) \o r.bytes
              = Returned(Opened(op, i, pos + Advance(op, r)))
         /\ op # "rtc" /\ r.val = 0 /\ n > 0 =>
              Returned(Opened(op, i, pos + Advance(op, r)))
                = Content(Opened(op, i, pos + Advance(op, r)))
<1> DEFINE step == Advance(op, r)
<1> HIDE DEF step
<1>1. PICK e : /\ e = Opened(op, i, pos) /\ e.op = op /\ e.inode = i /\ e.file_pos = pos
               /\ Content(e) = Content(Opened(op, i, 0))
  BY Fields
<1>2. Content(Opened(op, i, pos + step)) = Content(Opened(op, i, 0))
  BY Fields
<1>3. CASE op = "rtc"
  <2>1. r = [val |-> 0, bytes |-> <<>>] /\ End(op, i) = 0
    BY <1>1, <1>3 DEF ReadOf, End
  <2>2. r.bytes = <<>> /\ step = 0 /\ pos = 0
    BY <1>3, <2>1 DEF step, Advance
  <2>3. Returned(Opened(op, i, 0)) = <<>>
    BY <1>3, ReturnedIs
  <2>4. pos + step = 0 /\ <<>> \o <<>> = <<>>
    BY <2>2
  <2>5. step \in Nat /\ pos + step \in 0..End(op, i)
    BY <2>1, <2>2, <2>4
  <2> QED  BY <1>3, <2>2, <2>3, <2>4, <2>5, Zenon DEF step
<1>4. CASE op = "file"
  <2>1. r = read_data(i, pos, n) /\ End(op, i) = inodes[i].length /\ step = r.val
    BY <1>1, <1>4 DEF ReadOf, End, Advance, step
  <2>2. /\ step \in Nat /\ pos + step \in 0..End(op, i)
        /\ SubSeq(Content(Opened(op, i, 0)), 1, pos) \o r.bytes
             = SubSeq(Content(Opened(op, i, 0)), 1, pos + step)
        /\ r.val = 0 /\ n > 0 => pos = End(op, i)
    BY <1>4, <2>1, FileRead, Zenon
  <2>3. r.val = 0 => pos + step = pos
    BY <2>1
  <2>4. /\ Returned(Opened(op, i, pos)) = SubSeq(Content(Opened(op, i, 0)), 1, pos)
        /\ Returned(Opened(op, i, pos + step)) = SubSeq(Content(Opened(op, i, 0)), 1, pos + step)
    BY <1>4, ReturnedIs
  <2> QED  BY <1>2, <1>4, <2>2, <2>3, <2>4, WholeContent, Zenon DEF step
<1>5. CASE op = "dir"
  <2>1. r = dir_read(pos) /\ End(op, i) = Len(files) /\ step = Len(r.bytes)
    BY <1>1, <1>5 DEF ReadOf, End, Advance, step
  <2>2. /\ pos + step \in 0..End(op, i)
        /\ SubSeq(Content(Opened(op, i, 0)), 1, pos) \o r.bytes
             = SubSeq(Content(Opened(op, i, 0)), 1, pos + step)
        /\ r.val = 0 => pos = End(op, i)
    <3>1. pos \in 0..Len(files)
      BY <2>1
    <3>2. /\ pos + Len(r.bytes) \in 0..Len(files)
          /\ SubSeq(Content(Opened("dir", i, 0)), 1, pos) \o r.bytes
               = SubSeq(Content(Opened("dir", i, 0)), 1, pos + Len(r.bytes))
          /\ r.val = 0 => pos = Len(files)
      BY <2>1, <3>1, DirRead, Zenon
    <3> QED  BY <1>5, <2>1, <3>2, Zenon
  <2>3. step \in Nat /\ (r.val = 0 => pos + step = pos)
    BY <2>1, FilesAssumption DEF dir_read
  <2>4. /\ Returned(Opened(op, i, pos)) = SubSeq(Content(Opened(op, i, 0)), 1, pos)
        /\ Returned(Opened(op, i, pos + step)) = SubSeq(Content(Opened(op, i, 0)), 1, pos + step)
    BY <1>5, ReturnedIs
  <2> QED  BY <1>2, <1>5, <2>2, <2>3, <2>4, WholeContent, Zenon DEF step
<1> QED
  BY <1>3, <1>4, <1>5 DEF step

-----------------------------------------------------------------------------
(* The inductive invariant *)

(* A program's table: the first two entries are the terminal's. *)
TableOK(t) ==
  /\ t = [fd \in Fd |-> t[fd]]
  /\ t[0] = Terminal("stdin") /\ t[1] = Terminal("stdout")
  /\ \A fd \in 2..(FD_NUM - 1) : EntryOK(t[fd])

(* The position of a descriptor says what its reads have returned. *)
Tables(T, G) ==
  /\ T = [p \in Prog |-> T[p]] /\ G = [p \in Prog |-> G[p]]
  /\ \A p \in Prog : TableOK(T[p]) /\ G[p] = [fd \in Fd |-> Returned(T[p][fd])]

FilesInv == cur \in Prog /\ Tables(pcb_fds, got) /\ ZeroMeansEnd

LEMMA FdRange ==
  /\ 0 \in Fd /\ 1 \in Fd /\ 1 \in Prog
  /\ \A fd \in Fd : fd \in Int /\ (fd = 0 \/ fd = 1 \/ fd \in 2..(FD_NUM - 1))
  /\ \A fd \in 2..(FD_NUM - 1) : fd \in Fd /\ fd # 0 /\ fd # 1
<1> QED
  BY FilesAssumption DEF Fd, Prog

LEMMA ReturnsNothing == Returned(FREE) = <<>> /\ \A op \in {"stdin", "stdout"} : Returned(Terminal(op)) = <<>>
<1>1. Returned(FREE) = <<>>
  BY Fields DEF Returned, Readable
<1>2. \A op \in {"stdin", "stdout"} : Returned(Terminal(op)) = <<>>
  BY ReturnedIs DEF Terminal
<1> QED
  BY <1>1, <1>2

(* One program's table is replaced. *)
LEMMA SetTable ==
  ASSUME NEW T, NEW G, Tables(T, G), NEW p \in Prog, NEW t, TableOK(t),
         NEW g, g = [fd \in Fd |-> Returned(t[fd])]
  PROVE  Tables([T EXCEPT ![p] = t], [G EXCEPT ![p] = g])
<1> DEFINE T2 == [T EXCEPT ![p] = t]
           G2 == [G EXCEPT ![p] = g]
<1>1. T = [q \in Prog |-> T[q]] /\ G = [q \in Prog |-> G[q]]
  BY DEF Tables
<1>2. T2 = [q \in Prog |-> IF q = p THEN t ELSE T[q]]
  BY <1>1
<1>3. G2 = [q \in Prog |-> IF q = p THEN g ELSE G[q]]
  BY <1>1
<1>4. \A q \in Prog : T2[q] = (IF q = p THEN t ELSE T[q]) /\ G2[q] = (IF q = p THEN g ELSE G[q])
  BY <1>2, <1>3
<1>5. T2 = [q \in Prog |-> T2[q]] /\ G2 = [q \in Prog |-> G2[q]]
  BY <1>2, <1>3
<1> HIDE DEF T2, G2
<1>6. ASSUME NEW q \in Prog
      PROVE  TableOK(T2[q]) /\ G2[q] = [fd \in Fd |-> Returned(T2[q][fd])]
  <2>1. CASE q = p
    <3>1. T2[q] = t /\ G2[q] = g
      BY <1>4, <2>1
    <3> QED  BY <3>1
  <2>2. CASE q # p
    <3>1. T2[q] = T[q] /\ G2[q] = G[q]
      BY <1>4, <2>2
    <3> QED  BY <3>1 DEF Tables
  <2> QED  BY <2>1, <2>2
<1>7. Tables(T2, G2)
  BY <1>5, <1>6, Zenon DEF Tables
<1> QED
  BY <1>7 DEF T2, G2

(* One entry is replaced. *)
LEMMA SetEntry ==
  ASSUME NEW T, NEW G, Tables(T, G), NEW p \in Prog, NEW fd \in 2..(FD_NUM - 1),
         NEW e, EntryOK(e), NEW g, g = Returned(e)
  PROVE  Tables([T EXCEPT ![p][fd] = e], [G EXCEPT ![p][fd] = g])
<1>1. /\ TableOK(T[p]) /\ G[p] = [d \in Fd |-> Returned(T[p][d])]
      /\ p \in DOMAIN T /\ p \in DOMAIN G
  BY DEF Tables
<1>2. PICK t : t = [T[p] EXCEPT ![fd] = e]
  BY Zenon
<1>3. /\ fd \in Fd /\ fd # 0 /\ fd # 1 /\ 0 \in Fd /\ 1 \in Fd
      /\ \A d \in 2..(FD_NUM - 1) : d \in Fd
  BY FdRange
<1>4. T[p] = [d \in Fd |-> T[p][d]]
  BY <1>1 DEF TableOK
<1>5. t = [d \in Fd |-> IF d = fd THEN e ELSE T[p][d]]
  BY <1>2, <1>4
<1>6. /\ t = [d \in Fd |-> t[d]]
      /\ \A d \in Fd : t[d] = IF d = fd THEN e ELSE T[p][d]
  BY <1>5
<1>7. TableOK(t)
  <2>1. t[0] = T[p][0] /\ t[1] = T[p][1]
    BY <1>3, <1>6
  <2>2. \A d \in 2..(FD_NUM - 1) : t[d] = e \/ t[d] = T[p][d]
    BY <1>3, <1>6
  <2>3. \A d \in 2..(FD_NUM - 1) : EntryOK(t[d])
    <3>1. TAKE d \in 2..(FD_NUM - 1)
    <3>2. EntryOK(T[p][d])
      BY <1>1 DEF TableOK
    <3> QED  BY <2>2, <3>2
  <2> QED  BY <1>1, <1>6, <2>1, <2>3 DEF TableOK
<1>8. [G[p] EXCEPT ![fd] = g] = [d \in Fd |-> Returned(t[d])]
  <2>1. [G[p] EXCEPT ![fd] = g] = [d \in Fd |-> IF d = fd THEN g ELSE Returned(T[p][d])]
    BY <1>1
  <2>2. \A d \in Fd : Returned(t[d]) = IF d = fd THEN g ELSE Returned(T[p][d])
    BY <1>6
  <2> QED  BY <2>1, <2>2
<1>9. PICK h : h = [G[p] EXCEPT ![fd] = g]
  BY Zenon
<1>10. Tables([T EXCEPT ![p] = t], [G EXCEPT ![p] = h])
  BY <1>7, <1>8, <1>9, SetTable
<1>11. /\ [T EXCEPT ![p][fd] = e] = [T EXCEPT ![p] = t]
       /\ [G EXCEPT ![p][fd] = g] = [G EXCEPT ![p] = h]
  BY <1>1, <1>2, <1>9
<1> QED
  BY <1>10, <1>11

LEMMA EntryAfter ==
  ASSUME NEW T, NEW G, Tables(T, G), NEW p \in Prog, NEW fd \in Fd, NEW e,
         NEW q \in Prog, NEW d \in Fd
  PROVE  [T EXCEPT ![p][fd] = e][q][d] = IF q = p /\ d = fd THEN e ELSE T[q][d]
<1>1. T = [r \in Prog |-> T[r]] /\ T[q] = [c \in Fd |-> T[q][c]] /\ T[p] = [c \in Fd |-> T[p][c]]
  BY DEF Tables, TableOK
<1> QED
  BY <1>1

(* An entry in use that is not the terminal's. *)
LEMMA OpenedIs ==
  ASSUME NEW T, NEW G, Tables(T, G), NEW p \in Prog, NEW fd \in Fd,
         T[p][fd].used, T[p][fd].op \notin {"stdin", "stdout"}
  PROVE  /\ fd \in 2..(FD_NUM - 1)
         /\ \E op \in {"rtc", "dir", "file"} : \E i \in DOMAIN inodes : \E pos \in 0..End(op, i) :
              T[p][fd] = Opened(op, i, pos)
<1>1. TableOK(T[p])
  BY DEF Tables
<1>2. T[p][0].op = "stdin" /\ T[p][1].op = "stdout"
  BY <1>1, Fields DEF TableOK, Terminal
<1>3. fd \in 2..(FD_NUM - 1)
  BY <1>2, FdRange
<1>4. EntryOK(T[p][fd]) /\ T[p][fd] # FREE
  BY <1>1, <1>3, Fields DEF TableOK
<1> QED
  BY <1>3, <1>4 DEF EntryOK

LEMMA ReadablePos ==
  ASSUME NEW T, NEW G, Tables(T, G), NEW p \in Prog, NEW fd \in Fd, Readable(T[p][fd])
  PROVE  T[p][fd].file_pos \in Nat /\ fd \in 2..(FD_NUM - 1)
<1>1. T[p][fd].used /\ T[p][fd].op \notin {"stdin", "stdout"}
  BY DEF Readable
<1>2. PICK op \in {"rtc", "dir", "file"}, i \in DOMAIN inodes :
        \E pos \in 0..End(op, i) : T[p][fd] = Opened(op, i, pos)
  BY <1>1, OpenedIs, Zenon
<1>3. End(op, i) \in Nat
  BY FilesAssumption DEF End
<1>4. PICK pos \in Nat : T[p][fd] = Opened(op, i, pos)
  BY <1>2, <1>3
<1>5. T[p][fd].file_pos = pos
  BY <1>4, Fields
<1> QED
  BY <1>1, <1>4, <1>5, OpenedIs

LEMMA CallFields ==
  \A c, fd, n, v : /\ Call(c, fd, n, v).call = c /\ Call(c, fd, n, v).fd = fd
                   /\ Call(c, fd, n, v).nbytes = n /\ Call(c, fd, n, v).val = v
<1> QED
  BY DEF Call

-----------------------------------------------------------------------------
(* The calls *)

(* What every call keeps. *)
Preserved == cur' \in Prog /\ Tables(pcb_fds', got') /\ ZeroMeansEnd' /\ Keeps

(* An entry that stays as it was. *)
LEMMA SameEntry ==
  ASSUME Tables(pcb_fds, got), NEW p \in Prog, NEW fd \in Fd,
         Readable(pcb_fds[p][fd]), pcb_fds'[p][fd] = pcb_fds[p][fd]
  PROVE  EntryKept(p, fd)
<1>1. pcb_fds[p][fd].file_pos \in Nat /\ pcb_fds[p][fd].used
  BY ReadablePos DEF Readable
<1>2. pcb_fds[p][fd].file_pos >= pcb_fds[p][fd].file_pos
  BY <1>1
<1> QED
  BY <1>1, <1>2 DEF EntryKept

LEMMA NotZero ==
  ASSUME ret'.call # "read" \/ ret'.val # 0
  PROVE  ZeroMeansEnd'
<1> QED
  BY DEF ZeroMeansEnd

(* A call that changes no descriptor. *)
LEMMA NothingChanges ==
  ASSUME cur \in Prog, Tables(pcb_fds, got), UNCHANGED <<pcb_fds, cur, got>>,
         ret'.call # "read" \/ ret'.val # 0
  PROVE  Preserved
<1>1. pcb_fds' = pcb_fds /\ cur' = cur /\ got' = got
  OBVIOUS
<1>2. Tables(pcb_fds', got') /\ cur' \in Prog
  BY <1>1
<1>3. Keeps
  <2>1. \A p \in Prog, fd \in Fd : pcb_fds'[p][fd] = pcb_fds[p][fd]
    BY <1>1
  <2> QED  BY <2>1, SameEntry DEF Keeps
<1> QED
  BY <1>2, <1>3, NotZero DEF Preserved

LEMMA RefuseKeeps ==
  ASSUME cur \in Prog, Tables(pcb_fds, got), NEW c, Refuse(c)
  PROVE  Preserved
<1>1. ret'.val = -1 /\ UNCHANGED <<pcb_fds, cur, got>>
  BY CallFields DEF Refuse
<1>2. ret'.val # 0
  BY <1>1
<1> QED
  BY <1>1, <1>2, NothingChanges

(* A call that changes one descriptor. *)
LEMMA EntryChanges ==
  ASSUME cur \in Prog, Tables(pcb_fds, got), NEW fd \in 2..(FD_NUM - 1),
         NEW e, EntryOK(e), NEW g, g = Returned(e), cur' = cur,
         pcb_fds' = [pcb_fds EXCEPT ![cur][fd] = e], got' = [got EXCEPT ![cur][fd] = g]
  PROVE  /\ cur' \in Prog /\ Tables(pcb_fds', got')
         /\ pcb_fds'[cur][fd] = e /\ got'[cur'][fd] = g
         /\ \A p \in Prog, d \in Fd :
              (p # cur \/ d # fd) /\ Readable(pcb_fds[p][d]) => EntryKept(p, d)
<1>1. fd \in Fd
  BY FdRange
<1>2. Tables(pcb_fds', got')
  BY SetEntry, Zenon
<1>3. \A p \in Prog, d \in Fd :
        pcb_fds'[p][d] = IF p = cur /\ d = fd THEN e ELSE pcb_fds[p][d]
  BY <1>1, EntryAfter
<1>4. pcb_fds'[cur][fd] = e
  BY <1>1, <1>3
<1>5. got'[cur][fd] = Returned(pcb_fds'[cur][fd])
  BY <1>1, <1>2, Zenon DEF Tables
<1>6. ASSUME NEW p \in Prog, NEW d \in Fd, p # cur \/ d # fd, Readable(pcb_fds[p][d])
      PROVE  EntryKept(p, d)
  <2>1. pcb_fds'[p][d] = pcb_fds[p][d]
    BY <1>3, <1>6
  <2> QED  BY <1>6, <2>1, SameEntry
<1> QED
  BY <1>2, <1>4, <1>5, <1>6

LEMMA NothingReturned ==
  ASSUME NEW op, NEW i
  PROVE  Returned(Opened(op, i, 0)) = <<>>
<1> DEFINE C == Content(Opened(op, i, 0))
<1> HIDE DEF C
<1>1. SubSeq(C, 1, 0) \in Seq({}) /\ Len(SubSeq(C, 1, 0)) = 0
  BY SubSeqProperties
<1>2. SubSeq(C, 1, 0) = <<>>
  BY <1>1, EmptySeq
<1> QED
  BY <1>2, ReturnedIs DEF C

(* open takes a free descriptor and starts it afresh. *)
LEMMA OpenKeeps ==
  ASSUME cur \in Prog, Tables(pcb_fds, got), NEW name, syscall_open(name)
  PROVE  Preserved
<1>1. CASE Refuse("open")
  BY <1>1, RefuseKeeps
<1>2. CASE ~ Refuse("open")
  <2>1. PICK i : i = read_dentry_by_name(name) /\ i # -1 /\ Candidates # {}
    BY <1>2 DEF syscall_open
  <2>2. i \in DOMAIN files
    <3> DEFINE found == {j \in DOMAIN files : files[j].key = name.key}
    <3>1. found # {} /\ i = Min(found)
      BY <2>1 DEF read_dentry_by_name
    <3>2. found \subseteq Nat
      BY FilesAssumption
    <3> HIDE DEF found
    <3>3. i \in found
      BY <3>1, <3>2, MinIs, Zenon
    <3> QED  BY <3>3 DEF found
  <2>3. PICK fd : fd = Min(Candidates)
    OBVIOUS
  <2>4. fd \in Candidates
    <3>1. Candidates \subseteq Nat
      BY FilesAssumption DEF Candidates
    <3> QED  BY <2>1, <2>3, <3>1, MinIs, Zenon
  <2>5. fd \in 2..(FD_NUM - 1) /\ ~ pcb_fds[cur][fd].used
    BY <2>4 DEF Candidates
  <2>6. PICK e : e = Opened(OpsOf(files[i].type), files[i].inode, 0)
    OBVIOUS
  <2>7. /\ pcb_fds' = [pcb_fds EXCEPT ![cur][fd] = e]
        /\ got' = [got EXCEPT ![cur][fd] = <<>>]
        /\ ret' = Call("open", fd, 0, fd) /\ cur' = cur
    BY <2>1, <2>3, <2>6 DEF syscall_open
  <2>8. EntryOK(e)
    <3>1. files[i].type \in 0..2 /\ files[i].inode \in DOMAIN inodes
      BY <2>2, FilesAssumption
    <3>2. OpsOf(files[i].type) \in {"rtc", "dir", "file"}
      BY <3>1 DEF OpsOf
    <3>3. 0 \in 0..End(OpsOf(files[i].type), files[i].inode)
      BY <3>1, FilesAssumption DEF End
    <3> QED  BY <2>6, <3>1, <3>2, <3>3 DEF EntryOK
  <2>9. Returned(e) = <<>>
    BY <2>6, NothingReturned
  <2>10. /\ cur' \in Prog /\ Tables(pcb_fds', got')
         /\ \A p \in Prog, d \in Fd :
              (p # cur \/ d # fd) /\ Readable(pcb_fds[p][d]) => EntryKept(p, d)
    BY <2>5, <2>7, <2>8, <2>9, EntryChanges, Zenon
  <2>11. Keeps
    BY <2>5, <2>10 DEF Keeps, Readable
  <2>12. ret'.call # "read"
    BY <2>7, CallFields
  <2> QED  BY <2>10, <2>11, <2>12, NotZero DEF Preserved
<1> QED
  BY <1>1, <1>2

(* close frees its own descriptor only. *)
LEMMA CloseKeeps ==
  ASSUME cur \in Prog, Tables(pcb_fds, got), NEW fd, syscall_close(fd)
  PROVE  Preserved
<1>1. CASE Refuse("close")
  BY <1>1, RefuseKeeps
<1>2. CASE ~ Refuse("close")
  <2>1. /\ ~(fd < 2) /\ fd \in Fd
        /\ pcb_fds' = [pcb_fds EXCEPT ![cur][fd] = FREE]
        /\ got' = [got EXCEPT ![cur][fd] = <<>>]
        /\ ret' = Call("close", fd, 0, 0) /\ cur' = cur
    BY <1>2 DEF syscall_close, InUse
  <2>2. fd \in 2..(FD_NUM - 1)
    BY <2>1, FdRange
  <2>3. EntryOK(FREE) /\ Returned(FREE) = <<>>
    BY ReturnsNothing DEF EntryOK
  <2>4. /\ cur' \in Prog /\ Tables(pcb_fds', got')
        /\ \A p \in Prog, d \in Fd :
             (p # cur \/ d # fd) /\ Readable(pcb_fds[p][d]) => EntryKept(p, d)
    BY <2>1, <2>2, <2>3, EntryChanges, Zenon
  <2>5. ret'.call = "close" /\ ret'.val = 0 /\ ret'.fd = fd
    BY <2>1, CallFields
  <2>6. EntryKept(cur, fd)
    BY <2>5 DEF EntryKept
  <2>7. Keeps
    BY <2>4, <2>6 DEF Keeps
  <2>8. ret'.call # "read"
    BY <2>5
  <2> QED  BY <2>4, <2>7, <2>8, NotZero DEF Preserved
<1> QED
  BY <1>1, <1>2

(* read moves its descriptor on by what it returns. *)
LEMMA ReadCallKeeps ==
  ASSUME cur \in Prog, Tables(pcb_fds, got), NEW fd, NEW n, NoWrap(n), syscall_read(fd, n)
  PROVE  Preserved
<1>1. CASE Refuse("read")
  BY <1>1, RefuseKeeps
<1>2. CASE ~ Refuse("read")
  <2>1. fd # 1 /\ fd \in Fd /\ pcb_fds[cur][fd].used /\ pcb_fds[cur][fd].op # "stdin"
    BY <1>2, Zenon DEF syscall_read, InUse
  <2>2. pcb_fds[cur][fd].op # "stdout"
    <3>1. TableOK(pcb_fds[cur])
      BY DEF Tables
    <3>2. fd # 0
      BY <2>1, <3>1, Fields, SMTT(30) DEF TableOK, Terminal
    <3>3. EntryOK(pcb_fds[cur][fd])
      BY <2>1, <3>1, <3>2, FdRange DEF TableOK
    <3>4. pcb_fds[cur][fd] # FREE
      BY <2>1, Fields
    <3> QED  BY <3>3, <3>4, Fields DEF EntryOK
  <2>3. /\ fd \in 2..(FD_NUM - 1)
        /\ \E op \in {"rtc", "dir", "file"} : \E i \in DOMAIN inodes :
             \E pos \in 0..End(op, i) : pcb_fds[cur][fd] = Opened(op, i, pos)
    BY <2>1, <2>2, OpenedIs
  <2>4. PICK op \in {"rtc", "dir", "file"}, i \in DOMAIN inodes :
          \E pos \in 0..End(op, i) : pcb_fds[cur][fd] = Opened(op, i, pos)
    BY <2>3, Zenon
  <2>5. PICK pos \in 0..End(op, i) : pcb_fds[cur][fd] = Opened(op, i, pos)
    BY <2>4, Zenon
  <2>6. PICK e : /\ e = pcb_fds[cur][fd] /\ e = Opened(op, i, pos)
                 /\ e.op = op /\ e.inode = i /\ e.file_pos = pos
    BY <2>5, Fields
  <2>7. PICK r : r = ReadOf(e, n)
    OBVIOUS
  <2>8. /\ ret' = Call("read", fd, n, r.val) /\ cur' = cur
        /\ r.val = -1 => UNCHANGED <<pcb_fds, got>>
    BY <1>2, <2>6, <2>7, Zenon DEF syscall_read
  <2>9. ret'.call = "read" /\ ret'.fd = fd /\ ret'.nbytes = n /\ ret'.val = r.val
    BY <2>8, CallFields
  <2>10. CASE r.val = -1
    <3>1. ret'.val # 0
      BY <2>9, <2>10
    <3> QED  BY <2>8, <2>10, <3>1, NothingChanges
  <2>11. CASE r.val # -1
    <3>1. PICK step : step = Advance(op, r)
      OBVIOUS
    <3>2. PICK f, g : f = Opened(op, i, pos + step) /\ g = got[cur][fd] \o r.bytes
      BY Zenon
    <3>3. /\ pcb_fds' = [pcb_fds EXCEPT ![cur][fd] = f]
          /\ got' = [got EXCEPT ![cur][fd] = g]
      BY <1>2, <2>6, <2>7, <2>11, <3>1, <3>2, Zenon DEF syscall_read, Advance
    <3>4. r = ReadOf(Opened(op, i, pos), n)
      BY <2>6, <2>7
    <3>5. /\ step \in Nat /\ pos + step \in 0..End(op, i)
          /\ Returned(Opened(op, i, pos)) \o r.bytes = Returned(f)
          /\ op # "rtc" /\ r.val = 0 /\ n > 0 => Returned(f) = Content(f)
      <4>1. /\ step \in Nat /\ pos + step \in 0..End(op, i)
            /\ Returned(Opened(op, i, pos)) \o r.bytes = Returned(Opened(op, i, pos + step))
            /\ op # "rtc" /\ r.val = 0 /\ n > 0 =>
                 Returned(Opened(op, i, pos + step)) = Content(Opened(op, i, pos + step))
        <5>1. Advance(op, r) \in Nat /\ pos + Advance(op, r) \in 0..End(op, i)
          BY <2>11, <3>4, ReadKeeps
        <5>2. Returned(Opened(op, i, pos)) \o r.bytes
                = Returned(Opened(op, i, pos + Advance(op, r)))
          BY <2>11, <3>4, ReadKeeps, Zenon
        <5>3. op # "rtc" /\ r.val = 0 /\ n > 0 =>
                Returned(Opened(op, i, pos + Advance(op, r)))
                  = Content(Opened(op, i, pos + Advance(op, r)))
          BY <2>11, <3>4, ReadKeeps
        <5> QED  BY <3>1, <5>1, <5>2, <5>3, Zenon
      <4> QED  BY <3>2, <4>1
    <3>6. got[cur][fd] = Returned(Opened(op, i, pos))
      BY <2>1, <2>5 DEF Tables
    <3>7. g = Returned(f)
      BY <3>2, <3>5, <3>6
    <3>8. EntryOK(f)
      BY <3>2, <3>5 DEF EntryOK
    <3>9. /\ cur' \in Prog /\ Tables(pcb_fds', got')
          /\ pcb_fds'[cur][fd] = f /\ got'[cur'][fd] = g
          /\ \A p \in Prog, d \in Fd :
               (p # cur \/ d # fd) /\ Readable(pcb_fds[p][d]) => EntryKept(p, d)
      BY <2>3, <2>8, <3>3, <3>7, <3>8, EntryChanges, Zenon
    <3>10. f.op = op /\ f.inode = i /\ f.used /\ f.file_pos = pos + step
      BY <3>2, Fields
    <3>11. pos + step >= pos
      BY <3>5, SMTT(30)
    <3>12. EntryKept(cur, fd)
      BY <2>6, <3>9, <3>10, <3>11 DEF EntryKept
    <3>13. Keeps
      BY <3>9, <3>12, SMTT(30) DEF Keeps
    <3>14. ZeroMeansEnd'
      <4>1. SUFFICES ASSUME ret'.val = 0, ret'.nbytes > 0, Readable(pcb_fds'[cur'][ret'.fd])
                     PROVE  got'[cur'][ret'.fd] = Content(pcb_fds'[cur'][ret'.fd])
        BY DEF ZeroMeansEnd
      <4>2. Readable(f) /\ r.val = 0 /\ n > 0
        BY <2>8, <2>9, <3>9, <4>1
      <4>3. op # "rtc"
        BY <3>10, <4>2 DEF Readable
      <4>4. g = Content(f)
        BY <3>5, <3>7, <4>2, <4>3
      <4> QED  BY <2>8, <2>9, <3>9, <4>4, SMTT(30)
    <3> QED  BY <3>9, <3>13, <3>14 DEF Preserved
  <2> QED  BY <2>10, <2>11
<1> QED
  BY <1>1, <1>2

LEMMA WriteKeeps ==
  ASSUME cur \in Prog, Tables(pcb_fds, got), NEW fd, NEW n, syscall_write(fd, n)
  PROVE  Preserved
<1>1. CASE Refuse("write")
  BY <1>1, RefuseKeeps
<1>2. CASE ~ Refuse("write")
  <2>1. ret' = Call("write", fd, 0, n) /\ UNCHANGED <<pcb_fds, cur, got>>
    BY <1>2 DEF syscall_write
  <2>2. ret'.call # "read"
    BY <2>1, CallFields
  <2> QED  BY <2>1, <2>2, NothingChanges
<1> QED
  BY <1>1, <1>2

(* The tables that execute and halt leave. *)
LEMMA FreshTable ==
  /\ TableOK(init_file_table)
  /\ Nothing = [fd \in Fd |-> Returned(init_file_table[fd])]
<1>1. /\ init_file_table[0] = Terminal("stdin") /\ init_file_table[1] = Terminal("stdout")
      /\ \A fd \in 2..(FD_NUM - 1) : init_file_table[fd] = FREE
  BY FdRange DEF init_file_table
<1>2. init_file_table = [fd \in Fd |-> init_file_table[fd]]
  BY DEF init_file_table
<1>3. \A fd \in Fd : Returned(init_file_table[fd]) = <<>>
  BY <1>1, FdRange, ReturnsNothing
<1> QED
  BY <1>1, <1>2, <1>3 DEF TableOK, EntryOK, Nothing

LEMMA ClosedTable ==
  ASSUME NEW t, TableOK(t), NEW u, u = [fd \in Fd |-> IF fd < 2 THEN t[fd] ELSE FREE]
  PROVE  TableOK(u) /\ Nothing = [fd \in Fd |-> Returned(u[fd])]
<1>1. 0 < 2 /\ 1 < 2 /\ \A fd \in 2..(FD_NUM - 1) : ~(fd < 2)
  BY FilesAssumption
<1>2. /\ u[0] = Terminal("stdin") /\ u[1] = Terminal("stdout")
      /\ \A fd \in 2..(FD_NUM - 1) : u[fd] = FREE
  BY <1>1, FdRange DEF TableOK
<1>3. u = [fd \in Fd |-> u[fd]]
  OBVIOUS
<1>4. \A fd \in Fd : Returned(u[fd]) = <<>>
  BY <1>2, FdRange, ReturnsNothing
<1> QED
  BY <1>2, <1>3, <1>4 DEF TableOK, EntryOK, Nothing

(* execute leaves the table of the program that called it as it is. *)
LEMMA ExecuteKeeps ==
  ASSUME cur \in Prog, Tables(pcb_fds, got), syscall_execute
  PROVE  Preserved
<1>1. /\ cur' = cur + 1 /\ ret' = NoCall
      /\ pcb_fds' = [pcb_fds EXCEPT ![cur + 1] = init_file_table]
      /\ got' = [got EXCEPT ![cur + 1] = Nothing]
  BY DEF syscall_execute
<1>2. cur + 1 \in Prog
  BY FilesAssumption DEF syscall_execute, Prog
<1>3. Tables(pcb_fds', got')
  BY <1>1, <1>2, FreshTable, SetTable, Zenon
<1>4. \A p \in Prog : p <= cur => pcb_fds'[p] = pcb_fds[p]
  <2>1. \A p \in Prog : p <= cur => p # cur + 1
    BY FilesAssumption DEF Prog
  <2>2. pcb_fds = [p \in Prog |-> pcb_fds[p]]
    BY DEF Tables
  <2> QED  BY <1>1, <2>1, <2>2
<1>5. Keeps
  BY <1>4, SameEntry DEF Keeps
<1>6. ret'.call # "read"
  BY <1>1 DEF NoCall
<1> QED
  BY <1>1, <1>2, <1>3, <1>5, <1>6, NotZero DEF Preserved

(* halt closes the descriptors of the program that ends, and no others. *)
LEMMA HaltKeeps ==
  ASSUME cur \in Prog, Tables(pcb_fds, got), syscall_halt
  PROVE  Preserved
<1>1. ret' = NoCall /\ ret'.call # "read"
  BY DEF syscall_halt, NoCall
<1>2. CASE cur = 1
  <2>1. /\ cur' = cur
        /\ pcb_fds' = [pcb_fds EXCEPT ![1] = init_file_table]
        /\ got' = [got EXCEPT ![1] = Nothing]
    BY <1>2 DEF syscall_halt
  <2>2. Tables(pcb_fds', got')
    BY <2>1, FdRange, FreshTable, SetTable, Zenon
  <2>3. Keeps
    BY <1>1, <1>2, <2>1 DEF Keeps, BaseShellRestarts
  <2> QED  BY <1>1, <2>1, <2>2, <2>3, NotZero DEF Preserved
<1>3. CASE cur # 1
  <2>1. PICK u : u = [fd \in Fd |-> IF fd < 2 THEN pcb_fds[cur][fd] ELSE FREE]
    BY Zenon
  <2>2. /\ cur' = cur - 1
        /\ pcb_fds' = [pcb_fds EXCEPT ![cur] = u]
        /\ got' = [got EXCEPT ![cur] = Nothing]
    BY <1>3, <2>1 DEF syscall_halt
  <2>3. cur - 1 \in Prog /\ \A p \in Prog : p <= cur - 1 => p # cur
    BY <1>3, FilesAssumption DEF Prog
  <2>4. TableOK(u) /\ Nothing = [fd \in Fd |-> Returned(u[fd])]
    <3>1. TableOK(pcb_fds[cur])
      BY DEF Tables
    <3> QED  BY <2>1, <3>1, ClosedTable
  <2>5. Tables(pcb_fds', got')
    BY <2>2, <2>4, SetTable, Zenon
  <2>6. \A p \in Prog : p <= cur' => pcb_fds'[p] = pcb_fds[p]
    <3>1. pcb_fds = [p \in Prog |-> pcb_fds[p]]
      BY DEF Tables
    <3> QED  BY <2>2, <2>3, <3>1
  <2>7. Keeps
    BY <2>6, SameEntry DEF Keeps
  <2> QED  BY <1>1, <2>2, <2>3, <2>5, <2>7, NotZero DEF Preserved
<1> QED
  BY <1>2, <1>3

-----------------------------------------------------------------------------
(* The programs *)

(* What a step of a program is to the kernel. *)
SystemCall ==
  \/ \E name : syscall_open(name)
  \/ \E fd, n : NoWrap(n) /\ syscall_read(fd, n)
  \/ \E fd, n : syscall_write(fd, n)
  \/ \E fd : syscall_close(fd)
  \/ syscall_execute
  \/ syscall_halt
  \/ \E c : Refuse(c)

LEMMA StepIsCall == ProgNext => SystemCall \/ UNCHANGED vars
<1>1. NoWrap(BUFSIZE) /\ NoWrap(31) /\ NoWrap(32)
  BY ProgramsAssumption
<1>2. \A n \in NBytes : NoWrap(n)
  BY FilesAssumption
<1>3. ASSUME AnyProgram PROVE SystemCall
  BY <1>2, <1>3, Zenon DEF AnyProgram, AnyCall, SystemCall
<1>4. ASSUME Start \/ Halt PROVE SystemCall
  BY <1>4, Zenon DEF Start, Halt, SystemCall
<1>5. ASSUME ListerOpen \/ ListerRead \/ ListerWrite PROVE SystemCall
  BY <1>1, <1>5, Zenon DEF ListerOpen, ListerRead, ListerWrite, SystemCall
<1>6. ASSUME Grep PROVE SystemCall
  BY <1>1, <1>6, Zenon DEF Grep, GrepOpen, GrepEntry, do_one_file, SystemCall
<1>7. ASSUME NEW c, Make(c) PROVE SystemCall
  BY <1>1, <1>7, Zenon DEF Make, syscall_vidmap, syscall_entry, SystemCall
<1>8. ASSUME SyserrCall PROVE SystemCall
  BY <1>7, <1>8, Zenon DEF SyserrCall
<1>9. ASSUME SyserrMain \/ SyserrVerdict PROVE UNCHANGED vars
  BY <1>9, Zenon DEF SyserrMain, SyserrVerdict
<1>10. ASSUME GetargsFails PROVE SystemCall
  BY <1>10, Zenon DEF GetargsFails, SystemCall
<1> QED
  BY <1>3, <1>4, <1>5, <1>6, <1>8, <1>9, <1>10, Zenon DEF ProgNext

LEMMA StepPreserves ==
  ASSUME FilesInv, ProgNext \/ UNCHANGED progVars
  PROVE  FilesInv' /\ (Keeps \/ UNCHANGED vars)
<1>1. CASE UNCHANGED vars
  BY <1>1 DEF FilesInv, vars, ZeroMeansEnd
<1>2. CASE SystemCall
  <2>1. Preserved
    BY <1>2, OpenKeeps, ReadCallKeeps, WriteKeeps, CloseKeeps, ExecuteKeeps, HaltKeeps,
       RefuseKeeps, Zenon DEF SystemCall, FilesInv
  <2> QED  BY <2>1 DEF Preserved, FilesInv
<1> QED
  BY <1>1, <1>2, StepIsCall DEF progVars

LEMMA InitFiles == ProgInit => FilesInv
<1>1. SUFFICES ASSUME ProgInit PROVE FilesInv
  OBVIOUS
<1>2. /\ pcb_fds = [p \in Prog |-> init_file_table] /\ cur = 1
      /\ got = [p \in Prog |-> Nothing] /\ ret = NoCall
  BY <1>1 DEF ProgInit, Init
<1>3. Tables(pcb_fds, got)
  BY <1>2, FreshTable DEF Tables
<1>4. ZeroMeansEnd
  BY <1>2 DEF ZeroMeansEnd, NoCall
<1> QED
  BY <1>2, <1>3, <1>4, FdRange DEF FilesInv

LEMMA FilesInvAlways == ProgSpec => []FilesInv
<1>1. ProgInit => FilesInv
  BY InitFiles
<1>2. FilesInv /\ [ProgNext]_progVars => FilesInv'
  BY StepPreserves
<1> QED
  BY <1>1, <1>2, PTL DEF ProgSpec

-----------------------------------------------------------------------------
(* Theorems *)

(***************************************************************************)
(* Whatever programs run on the terminal, however they open, read, close,  *)
(* execute and halt, and whatever the lengths of the reads and the size of *)
(* the blocks, what read_data and dir_read returned through a descriptor   *)
(* is the beginning of its file or of the list of names.                   *)
(***************************************************************************)
THEOREM ReadsFollowFile == ProgSpec => []ReadsInOrder
<1>1. FilesInv => ReadsInOrder
  BY DEF FilesInv, Tables, Returned, ReadsInOrder
<1> QED
  BY <1>1, FilesInvAlways, PTL

(***************************************************************************)
(* A read of at least one byte that returns 0 has left the whole file with *)
(* the program.                                                            *)
(***************************************************************************)
THEOREM ZeroOnlyAtEnd == ProgSpec => []ZeroMeansEnd
<1>1. FilesInv => ZeroMeansEnd
  BY DEF FilesInv
<1> QED
  BY <1>1, FilesInvAlways, PTL

(***************************************************************************)
(* A descriptor stays with its file, and its position never goes back,     *)
(* until its own program closes it: an open elsewhere takes another entry, *)
(* and execute and halt touch only the tables of other programs.           *)
(***************************************************************************)
THEOREM DescriptorsStay == ProgSpec => DescriptorKept
<1>1. FilesInv /\ [ProgNext]_progVars => [Keeps]_vars
  BY StepPreserves
<1> QED
  BY <1>1, FilesInvAlways, PTL DEF ProgSpec, DescriptorKept

-----------------------------------------------------------------------------
(* What the descriptors mean to the running program *)

(* What reads return: bytes of files and names of the directory. *)
Item == {files[i].key : i \in DOMAIN files}
          \cup UNION {Bytes(inodes[i].blocks) : i \in DOMAIN inodes}

(* The descriptors that the running program has opened. *)
Taken == {fd \in 2..(FD_NUM - 1) : pcb_fds[cur][fd].used}

(* What entry fd of its table stands for: entry i of the directory, read   *)
(* up to pos.                                                              *)
OpenedAt(fd, i, pos) ==
  /\ fd \in 2..(FD_NUM - 1) /\ i \in DOMAIN files
  /\ pos \in 0..End(OpsOf(files[i].type), files[i].inode)
  /\ pcb_fds[cur][fd] = Opened(OpsOf(files[i].type), files[i].inode, pos)

HasRead(fd) == Returned(pcb_fds[cur][fd])

(* Sequences *)

(* G holds the concatenations of the first parts, up to the k-th. *)
Chained(G, f, k) ==
  /\ k > 0 => G[1] = f[1]
  /\ \A i \in 2..k : G[i] = G[i - 1] \o f[i]

(* One more part. *)
LEMMA ChainGrows ==
  ASSUME NEW S, NEW k \in Nat, NEW f, \A i \in 1..(k + 1) : f[i] \in Seq(S),
         NEW G \in [1..k -> Seq(S)], Chained(G, f, k)
  PROVE  \E H \in [1..(k + 1) -> Seq(S)] : Chained(H, f, k + 1)
<1>1. PICK last : last = IF k = 0 THEN f[1] ELSE G[k] \o f[k + 1]
  BY Zenon
<1>2. last \in Seq(S)
  <2>1. CASE k = 0
    BY <1>1, <2>1
  <2>2. CASE k # 0
    <3>1. G[k] \in Seq(S) /\ f[k + 1] \in Seq(S)
      BY <2>2
    <3> QED  BY <1>1, <2>2, <3>1, ConcatProperties, Zenon
  <2> QED  BY <2>1, <2>2
<1>3. PICK H : H = [i \in 1..(k + 1) |-> IF i = k + 1 THEN last ELSE G[i]]
  BY Zenon
<1>4. H[k + 1] = last /\ \A i \in 1..k : H[i] = G[i]
  BY <1>3
<1>5. H \in [1..(k + 1) -> Seq(S)]
  <2>1. \A i \in 1..(k + 1) : i # k + 1 => i \in 1..k
    OBVIOUS
  <2> QED  BY <1>2, <1>3, <2>1
<1>6. H[1] = f[1]
  BY <1>1, <1>4 DEF Chained
<1>7. ASSUME NEW i \in 2..(k + 1) PROVE H[i] = H[i - 1] \o f[i]
  <2>1. i - 1 \in 1..k /\ (i # k + 1 => i \in 2..k /\ i \in 1..k) /\ (i = k + 1 => i - 1 = k /\ k # 0)
    OBVIOUS
  <2>2. H[i - 1] = G[i - 1]
    BY <1>4, <2>1, Zenon
  <2>3. CASE i = k + 1
    BY <1>1, <1>4, <2>1, <2>2, <2>3, Zenon
  <2>4. CASE i # k + 1
    BY <1>4, <2>1, <2>2, <2>4, Zenon DEF Chained
  <2> QED  BY <2>3, <2>4, Zenon
<1> QED
  BY <1>5, <1>6, <1>7, Zenon DEF Chained

(* Concatenations one after the other exist for any sequences. *)
LEMMA ChainExists ==
  ASSUME NEW S, NEW n \in Nat, NEW f, \A i \in 1..n : f[i] \in Seq(S)
  PROVE  \E G \in [1..n -> Seq(S)] : Chained(G, f, n)
<1> DEFINE Good(k) == \E G \in [1..k -> Seq(S)] : Chained(G, f, k)
           R == {e \in Nat \X Nat : e[1] < e[2]}
           Bad == {k \in 0..n : ~ Good(k)}
<1>1. Good(0)
  <2>1. [i \in 1..0 |-> <<>>] \in [1..0 -> Seq(S)] /\ 2..0 = {} /\ ~(0 > 0)
    OBVIOUS
  <2> QED  BY <2>1, Zenon DEF Chained
<1>2. ASSUME NEW k \in Nat, k < n, Good(k) PROVE Good(k + 1)
  <2>1. \A i \in 1..(k + 1) : f[i] \in Seq(S)
    BY <1>2
  <2> QED  BY <1>2, <2>1, ChainGrows, Zenon
<1>3. SUFFICES Good(n)
  OBVIOUS
<1> HIDE DEF Good
<1>4. SUFFICES ASSUME Bad # {} PROVE FALSE
  BY DEF Bad
<1>5. IsWellFoundedOn(R, Nat)
  BY NatLessThanWellFounded DEF OpToRel
<1>6. Bad \subseteq Nat
  OBVIOUS
<1>7. PICK k \in Bad : \A q \in Bad : ~(<<q, k>> \in R)
  <2> HIDE DEF R, Bad
  <2> QED  BY <1>4, <1>5, <1>6, WFMin, Zenon
<1>8. k \in 0..n /\ ~ Good(k) /\ k # 0
  BY <1>1, <1>7
<1>9. k - 1 \in 0..n /\ <<k - 1, k>> \in R /\ k - 1 < n /\ k - 1 \in Nat /\ (k - 1) + 1 = k
  BY <1>8
<1>10. Good(k - 1)
  BY <1>7, <1>9
<1> HIDE DEF R, Bad
<1>11. Good((k - 1) + 1)
  BY <1>2, <1>9, <1>10, Zenon
<1> QED
  BY <1>8, <1>9, <1>11

(* The first k parts, joined. *)
UpTo(f, k) == Joined([i \in 1..k |-> f[i]])

(* What is joined grows by one part at a time. *)
LEMMA JoinedGrows ==
  ASSUME NEW S, NEW n \in Nat, NEW f, \A i \in 1..n : f[i] \in Seq(S)
  PROVE  /\ UpTo(f, 0) = <<>>
         /\ \A k \in 0..n : UpTo(f, k) \in Seq(S)
         /\ \A k \in 1..n : UpTo(f, k) = UpTo(f, k - 1) \o f[k]
<1>0. PICK G \in [1..n -> Seq(S)] : Chained(G, f, n)
  BY ChainExists, Zenon
<1>1. (n > 0 => G[1] = f[1]) /\ \A i \in 2..n : G[i] = G[i - 1] \o f[i]
  BY <1>0, Zenon DEF Chained
<1>2. UpTo(f, 0) = <<>>
  <2>1. Len([i \in 1..0 |-> f[i]]) = 0
    OBVIOUS
  <2> QED  BY <2>1 DEF Joined, UpTo
<1>3. ASSUME NEW k \in 1..n PROVE UpTo(f, k) = G[k]
  <2> DEFINE seqs == [i \in 1..k |-> f[i]]
  <2>1. /\ k \in Nat \ {0} /\ Len(seqs) = k /\ n > 0 /\ 1 \in 1..k
        /\ \A i \in 2..k : i \in 2..n /\ i \in 1..k
    OBVIOUS
  <2>2. \A i \in 1..k : seqs[i] = f[i]
    OBVIOUS
  <2> HIDE DEF seqs
  <2>3. G[1] = seqs[1] /\ \A i \in 2..k : G[i] = G[i - 1] \o seqs[i]
    BY <1>1, <2>1, <2>2, Zenon
  <2>4. Joined(seqs) = G[k]
    BY <2>1, <2>3, JoinedIs, Zenon
  <2> QED  BY <2>4 DEF seqs, UpTo
<1>4. \A k \in 0..n : UpTo(f, k) \in Seq(S)
  <2>1. TAKE k \in 0..n
  <2>2. CASE k = 0
    BY <1>2, <2>2, EmptySeq, Zenon
  <2>3. CASE k # 0
    <3>1. k \in 1..n
      BY <2>3
    <3> QED  BY <1>1, <1>3, <3>1
  <2> QED  BY <2>2, <2>3
<1>5. ASSUME NEW k \in 1..n PROVE UpTo(f, k) = UpTo(f, k - 1) \o f[k]
  <2>1. CASE k = 1
    <3>1. UpTo(f, k) = f[1] /\ f[1] \in Seq(S) /\ k - 1 = 0
      BY <1>1, <1>3, <2>1
    <3>2. <<>> \o f[1] = f[1]
      BY <3>1, ConcatEmptySeq
    <3> QED  BY <1>2, <2>1, <3>1, <3>2, Zenon
  <2>2. CASE k # 1
    <3>1. k - 1 \in 1..n /\ k \in 2..n
      BY <2>2
    <3> QED  BY <1>1, <1>3, <3>1, Zenon
  <2> QED  BY <2>1, <2>2, Zenon
<1> QED
  BY <1>2, <1>4, <1>5, Zenon

(* What follows the beginning of a sequence. *)
LEMMA RestIs ==
  ASSUME NEW S, NEW b \in Seq(S), NEW p \in Nat, NEW q \in Nat, p <= q, Len(b) = q,
         NEW c, c = SubSeq(b, p + 1, q)
  PROVE  c \in Seq(S) /\ Len(c) = q - p /\ \A i \in 1..(q - p) : c[i] = b[p + i]
<1> QED
  OBVIOUS

LEMMA RestFollows ==
  ASSUME NEW S, NEW a \in Seq(S), NEW b \in Seq(S), NEW c \in Seq(S),
         NEW p \in Nat, NEW q \in Nat, p <= q, Len(a) = p, Len(b) = q, Len(c) = q - p,
         \A i \in 1..p : a[i] = b[i], \A i \in 1..(q - p) : c[i] = b[p + i]
  PROVE  a \o c = b
<1>1. /\ a \o c \in Seq(S) /\ Len(a \o c) = Len(a) + Len(c)
      /\ \A i \in 1..(Len(a) + Len(c)) :
           (a \o c)[i] = IF i <= Len(a) THEN a[i] ELSE c[i - Len(a)]
  BY ConcatProperties, Zenon
<1>2. Len(a) + Len(c) = q
  OBVIOUS
<1>3. \A i \in 1..q : (a \o c)[i] = IF i <= p THEN a[i] ELSE c[i - p]
  BY <1>1, <1>2, Zenon
<1>4. ASSUME NEW i \in 1..q PROVE (a \o c)[i] = b[i]
  <2>1. CASE i <= p
    <3>1. i \in 1..p
      BY <2>1
    <3> QED  BY <1>3, <2>1, <3>1, Zenon
  <2>2. CASE ~(i <= p)
    <3>1. i - p \in 1..(q - p) /\ p + (i - p) = i
      BY <2>2
    <3>2. (a \o c)[i] = c[i - p] /\ c[i - p] = b[p + (i - p)]
      BY <1>3, <2>2, <3>1, Zenon
    <3> QED  BY <3>1, <3>2, Zenon
  <2> QED  BY <2>1, <2>2, Zenon
<1>5. Len(a \o c) = Len(b) /\ \A i \in 1..Len(a \o c) : (a \o c)[i] = b[i]
  BY <1>1, <1>2, <1>4, Zenon
<1> QED
  BY <1>1, <1>5, SeqEqual, Zenon

(* The part c of a sequence between two of its beginnings. *)
Parted(C, p, q, a, b, c) ==
  /\ p \in 0..Len(C) /\ q \in p..Len(C)
  /\ a = SubSeq(C, 1, p) /\ b = SubSeq(C, 1, q) /\ c = SubSeq(b, Len(a) + 1, Len(b))

PartBetween(S, C, p, q, a, b, c) ==
  /\ a \in Seq(S) /\ Len(a) = p /\ b \in Seq(S) /\ Len(b) = q
  /\ c \in Seq(S) /\ Len(c) = q - p /\ a \o c = b
  /\ q = p + 1 => c = <<C[q]>>

LEMMA Between ==
  ASSUME NEW S, NEW C \in Seq(S), NEW p, NEW q, NEW a, NEW b, NEW c, Parted(C, p, q, a, b, c)
  PROVE  PartBetween(S, C, p, q, a, b, c)
<1>0. /\ p \in 0..Len(C) /\ q \in p..Len(C) /\ a = SubSeq(C, 1, p)
      /\ b = SubSeq(C, 1, q) /\ c = SubSeq(b, Len(a) + 1, Len(b))
  BY Zenon DEF Parted
<1>1. Len(C) \in Nat /\ p \in Nat /\ q \in Nat /\ p <= q /\ \A i \in 1..Len(C) : C[i] \in S
  BY <1>0, LenProperties, ElementOfSeq
<1>2. a \in Seq(S) /\ Len(a) = p /\ \A i \in 1..p : a[i] = C[i]
  BY <1>0, <1>1, SubSeqProperties
<1>3. b \in Seq(S) /\ Len(b) = q /\ \A i \in 1..q : b[i] = C[i]
  BY <1>0, <1>1, SubSeqProperties
<1>4. c \in Seq(S) /\ Len(c) = q - p /\ \A i \in 1..(q - p) : c[i] = b[p + i]
  <2>1. c = SubSeq(b, p + 1, q)
    BY <1>0, <1>2, <1>3, Zenon
  <2> QED  BY <1>1, <1>3, <2>1, RestIs
<1>5. \A i \in 1..p : a[i] = b[i]
  <2>1. \A i \in 1..p : i \in 1..q
    BY <1>1
  <2> QED  BY <1>2, <1>3, <2>1, Zenon
<1>6. a \o c = b
  BY <1>1, <1>2, <1>3, <1>4, <1>5, RestFollows, ZenonT(60)
<1>7. ASSUME q = p + 1 PROVE c = <<C[q]>>
  <2>1. Len(c) = 1 /\ c[1] = C[q] /\ C[q] \in S
    BY <1>1, <1>3, <1>4, <1>7
  <2>2. <<C[q]>> \in Seq(S) /\ Len(<<C[q]>>) = 1 /\ <<C[q]>>[1] = C[q]
    BY <2>1
  <2>3. \A i \in 1..Len(c) : c[i] = <<C[q]>>[i]
    BY <2>1, <2>2
  <2> QED  BY <1>4, <2>1, <2>2, <2>3, SeqEqual, Zenon
<1> QED
  BY <1>2, <1>3, <1>4, <1>6, <1>7, Zenon DEF PartBetween

(* The contents of files and of the directory are sequences of items. *)
LEMMA ContentSeq ==
  ASSUME NEW op \in {"dir", "file"}, NEW i \in DOMAIN inodes
  PROVE  /\ Content(Opened(op, i, 0)) \in Seq(Item)
         /\ Len(Content(Opened(op, i, 0))) = End(op, i)
         /\ End(op, i) \in Nat
<1>1. CASE op = "file"
  <2>1. PICK L \in Nat, blocks \in {inodes[i].blocks} : L = inodes[i].length /\ blocks = inodes[i].blocks
    BY FilesAssumption
  <2>2. Content(Opened(op, i, 0)) = Cut(blocks, 0, L) /\ End(op, i) = L
    BY <1>1, <2>1, FileContent DEF End
  <2>3. Cut(blocks, 0, L) \in Seq(Bytes(blocks)) /\ Len(Cut(blocks, 0, L)) = L
    BY CutFirst
  <2>4. Bytes(blocks) \subseteq Item
    BY <2>1, Zenon DEF Item
  <2> QED  BY <2>2, <2>3, <2>4, SeqMonotonic
<1>2. CASE op = "dir"
  <2>1. PICK L \in Nat : L = Len(files) /\ DOMAIN files = 1..L
    BY FilesAssumption, Zenon
  <2>2. PICK C : C = Content(Opened("dir", i, 0)) /\ C = [j \in 1..L |-> files[j].key]
    BY <2>1, DirContent, Zenon
  <2>3. \A j \in 1..L : files[j].key \in Item
    BY <2>1, Zenon DEF Item
  <2>4. C \in Seq(Item) /\ Len(C) = L
    BY <2>2, <2>3
  <2> QED  BY <1>2, <2>1, <2>2, <2>4 DEF End
<1> QED
  BY <1>1, <1>2

(* What reads have returned is one, too. *)
LEMMA ReturnedSeq ==
  ASSUME NEW op \in {"rtc", "dir", "file"}, NEW i \in DOMAIN inodes, NEW pos \in 0..End(op, i)
  PROVE  /\ Returned(Opened(op, i, pos)) \in Seq(Item)
         /\ Len(Returned(Opened(op, i, pos))) = pos
<1>1. CASE op = "rtc"
  <2>1. pos = 0
    BY <1>1 DEF End
  <2>2. Returned(Opened(op, i, pos)) = <<>>
    BY <1>1, ReturnedIs
  <2> QED  BY <2>1, <2>2, EmptySeq, Zenon
<1>2. CASE op # "rtc"
  <2>1. PICK C : C = Content(Opened(op, i, 0))
    OBVIOUS
  <2>2. C \in Seq(Item) /\ Len(C) = End(op, i) /\ End(op, i) \in Nat
    BY <1>2, <2>1, ContentSeq
  <2>3. Returned(Opened(op, i, pos)) = SubSeq(C, 1, pos)
    BY <1>2, <2>1, ReturnedIs
  <2>4. \A j \in 1..pos : C[j] \in Item
    BY <2>2, ElementOfSeq
  <2> QED  BY <2>2, <2>3, <2>4, SubSeqProperties
<1> QED
  BY <1>1, <1>2

LEMMA ThreeParts ==
  ASSUME NEW k
  PROVE  <<"try">> \o <<k>> \o <<"newline">> = <<"try", k, "newline">>
<1> DEFINE S == {"try", k, "newline"}
           x == <<"try">>
           y == <<k>>
           z == <<"newline">>
           w == <<"try", k, "newline">>
<1>1. x \in Seq(S) /\ y \in Seq(S) /\ z \in Seq(S) /\ w \in Seq(S)
  OBVIOUS
<1>2. Len(x) = 1 /\ Len(y) = 1 /\ Len(z) = 1 /\ Len(w) = 3
  OBVIOUS
<1>3. x[1] = "try" /\ y[1] = k /\ z[1] = "newline" /\ w[1] = "try" /\ w[2] = k /\ w[3] = "newline"
  OBVIOUS
<1> HIDE DEF S, x, y, z, w
<1>4. PICK u : u = x \o y /\ u \in Seq(S) /\ Len(u) = 2 /\ u[1] = x[1] /\ u[2] = y[1]
  <2>1. /\ x \o y \in Seq(S) /\ Len(x \o y) = Len(x) + Len(y)
        /\ \A i \in 1..(Len(x) + Len(y)) : (x \o y)[i] = IF i <= Len(x) THEN x[i] ELSE y[i - Len(x)]
    BY <1>1, ConcatProperties
  <2>2. PICK r : r = x \o y
    BY Zenon
  <2>3. Len(x) + Len(y) = 2
    BY <1>2
  <2>4. r \in Seq(S) /\ Len(r) = 2 /\ \A i \in 1..2 : r[i] = IF i <= 1 THEN x[i] ELSE y[i - 1]
    BY <1>2, <2>1, <2>2, <2>3, Zenon
  <2>5. r[1] = x[1] /\ r[2] = y[1]
    BY <2>4
  <2> QED  BY <2>2, <2>4, <2>5, Zenon
<1>5. PICK v : v = u \o z /\ v \in Seq(S) /\ Len(v) = 3 /\ v[1] = u[1] /\ v[2] = u[2] /\ v[3] = z[1]
  <2>1. /\ u \o z \in Seq(S) /\ Len(u \o z) = Len(u) + Len(z)
        /\ \A i \in 1..(Len(u) + Len(z)) : (u \o z)[i] = IF i <= Len(u) THEN u[i] ELSE z[i - Len(u)]
    BY <1>1, <1>4, ConcatProperties
  <2>2. PICK r : r = u \o z
    BY Zenon
  <2>3. Len(u) + Len(z) = 3
    BY <1>2, <1>4
  <2>4. r \in Seq(S) /\ Len(r) = 3 /\ \A i \in 1..3 : r[i] = IF i <= 2 THEN u[i] ELSE z[i - 2]
    BY <1>2, <1>4, <2>1, <2>2, <2>3, Zenon
  <2>5. r[1] = u[1] /\ r[2] = u[2] /\ r[3] = z[1]
    BY <2>4
  <2> QED  BY <2>2, <2>4, <2>5, Zenon
<1>6. \A i \in 1..3 : v[i] = w[i]
  BY <1>3, <1>4, <1>5
<1>7. v = w
  BY <1>1, <1>2, <1>5, <1>6, SeqEqual, Zenon
<1> QED
  BY <1>4, <1>5, <1>7, Zenon DEF x, y, z, w

-----------------------------------------------------------------------------
(* The calls, as the running program sees them *)

(* The program's other descriptors stay as they are. *)
Elsewhere(fd) == cur' = cur /\ \A d \in Fd : d # fd => pcb_fds'[cur][d] = pcb_fds[cur][d]

LEMMA OneEntry ==
  ASSUME FilesInv, NEW fd \in 2..(FD_NUM - 1), NEW e,
         cur' = cur, pcb_fds' = [pcb_fds EXCEPT ![cur][fd] = e]
  PROVE  /\ pcb_fds'[cur][fd] = e /\ Elsewhere(fd)
         /\ e.used => Taken' = Taken \cup {fd}
         /\ ~ e.used => Taken' = Taken \ {fd}
<1>1. cur \in Prog /\ Tables(pcb_fds, got) /\ fd \in Fd
  BY FdRange DEF FilesInv
<1>2. \A d \in Fd : pcb_fds'[cur][d] = IF d = fd THEN e ELSE pcb_fds[cur][d]
  BY <1>1, EntryAfter
<1>3. \A d \in 2..(FD_NUM - 1) : pcb_fds'[cur'][d] = IF d = fd THEN e ELSE pcb_fds[cur][d]
  BY <1>2, FdRange
<1>4. pcb_fds'[cur][fd] = e /\ Elsewhere(fd)
  BY <1>1, <1>2 DEF Elsewhere
<1>5. e.used => Taken' = Taken \cup {fd}
  BY <1>3 DEF Taken
<1>6. ~ e.used => Taken' = Taken \ {fd}
  BY <1>3 DEF Taken
<1> QED
  BY <1>4, <1>5, <1>6

(* A descriptor that no call is made on. *)
LEMMA Untouched ==
  ASSUME NEW d, NEW i, NEW pos, OpenedAt(d, i, pos), cur' = cur,
         pcb_fds'[cur][d] = pcb_fds[cur][d]
  PROVE  OpenedAt(d, i, pos)' /\ HasRead(d)' = HasRead(d)
<1> QED
  BY Zenon DEF OpenedAt, HasRead

LEMMA OpenedIn ==
  ASSUME NEW fd, NEW i, NEW pos, OpenedAt(fd, i, pos)
  PROVE  /\ fd \in Taken /\ fd \in Fd /\ fd \in 2..(FD_NUM - 1) /\ i \in DOMAIN files
         /\ files[i].inode \in DOMAIN inodes /\ files[i].type \in 0..2
         /\ OpsOf(files[i].type) \in {"rtc", "dir", "file"}
         /\ pos \in 0..End(OpsOf(files[i].type), files[i].inode)
         /\ HasRead(fd) = Returned(Opened(OpsOf(files[i].type), files[i].inode, pos))
<1>1. fd \in 2..(FD_NUM - 1) /\ i \in DOMAIN files /\ pcb_fds[cur][fd].used
  BY Fields DEF OpenedAt
<1>2. files[i].inode \in DOMAIN inodes /\ files[i].type \in 0..2
  BY <1>1, FilesAssumption
<1>3. OpsOf(files[i].type) \in {"rtc", "dir", "file"}
  BY <1>2 DEF OpsOf
<1> QED
  BY <1>1, <1>2, <1>3, FdRange, SMTT(30) DEF OpenedAt, Taken, HasRead

(* An entry of the directory as it is found by its name. *)
LEMMA FoundIs ==
  ASSUME NEW name, read_dentry_by_name(name) # -1
  PROVE  /\ read_dentry_by_name(name) \in DOMAIN files
         /\ files[read_dentry_by_name(name)].key = name.key
<1> DEFINE found == {j \in DOMAIN files : files[j].key = name.key}
<1>1. found # {} /\ read_dentry_by_name(name) = Min(found)
  BY DEF read_dentry_by_name
<1>2. found \subseteq Nat
  BY FilesAssumption
<1>3. Min(found) \in found
  <2> HIDE DEF found
  <2> QED  BY <1>1, <1>2, MinIs, Zenon
<1> QED
  BY <1>1, <1>3

(* open of a name that is there takes a descriptor that is free, if any. *)
OpenTo(fd, i) ==
  /\ fd \in 2..(FD_NUM - 1) /\ fd \notin Taken /\ Taken' = Taken \cup {fd}
  /\ ret'.val = fd /\ fd # -1 /\ Elsewhere(fd)
  /\ OpenedAt(fd, i, 0)' /\ HasRead(fd)' = <<>>
  /\ \A d \in 2..(FD_NUM - 1) : d \notin Taken => fd <= d

LEMMA OpenGoes ==
  ASSUME FilesInv, NEW name, syscall_open(name)
  PROVE  /\ read_dentry_by_name(name) = -1 \/ 2..(FD_NUM - 1) \subseteq Taken =>
              ret'.val = -1 /\ UNCHANGED <<pcb_fds, cur, got>>
         /\ read_dentry_by_name(name) # -1 /\ ~(2..(FD_NUM - 1) \subseteq Taken) =>
              \E fd : OpenTo(fd, read_dentry_by_name(name))
<1>1. PICK i : i = read_dentry_by_name(name)
  BY Zenon
<1>2. /\ Candidates = {} <=> 2..(FD_NUM - 1) \subseteq Taken
      /\ \A d \in 2..(FD_NUM - 1) : d \in Candidates <=> d \notin Taken
  BY DEF Candidates, Taken
<1>3. ASSUME i = -1 \/ Candidates = {}
      PROVE  ret'.val = -1 /\ UNCHANGED <<pcb_fds, cur, got>>
  <2>1. Refuse("open")
    BY <1>1, <1>3, Zenon DEF syscall_open
  <2> QED  BY <2>1, CallFields DEF Refuse
<1>4. ASSUME i # -1, Candidates # {} PROVE \E fd : OpenTo(fd, i)
  <2>1. PICK fd : fd = Min(Candidates)
    BY Zenon
  <2>2. Candidates \subseteq Nat
    BY FilesAssumption DEF Candidates
  <2>3. fd \in Candidates /\ \A d \in Candidates : fd <= d
    BY <1>4, <2>1, <2>2, MinIs, Zenon
  <2>4. fd \in 2..(FD_NUM - 1)
    BY <2>3 DEF Candidates
  <2>5. PICK op, node : op = OpsOf(files[i].type) /\ node = files[i].inode
    BY Zenon
  <2>6. /\ pcb_fds' = [pcb_fds EXCEPT ![cur][fd] = Opened(op, node, 0)]
        /\ ret' = Call("open", fd, 0, fd) /\ cur' = cur
    BY <1>1, <1>4, <2>1, <2>5 DEF syscall_open
  <2>7. /\ pcb_fds'[cur][fd] = Opened(op, node, 0) /\ Elsewhere(fd)
        /\ Taken' = Taken \cup {fd}
    <3>1. PICK e : e = Opened(op, node, 0) /\ e.used
      BY Fields
    <3> QED  BY <2>4, <2>6, <3>1, OneEntry, Zenon
  <2>8. i \in DOMAIN files
    BY <1>1, <1>4, FoundIs, Zenon
  <2>9. 0 \in 0..End(op, node)
    <3>1. node \in DOMAIN inodes
      BY <2>5, <2>8, FilesAssumption
    <3> QED  BY <3>1, FilesAssumption DEF End
  <2>10. OpenedAt(fd, i, 0)' /\ HasRead(fd)' = <<>>
    BY <2>4, <2>5, <2>6, <2>7, <2>8, <2>9, NothingReturned, Zenon DEF OpenedAt, HasRead
  <2>11. ret'.val = fd /\ fd # -1
    BY <2>4, <2>6, CallFields
  <2> QED  BY <1>2, <2>3, <2>4, <2>7, <2>10, <2>11, Zenon DEF OpenTo
<1> QED
  BY <1>1, <1>2, <1>3, <1>4, Zenon

(* close of an open descriptor frees it. *)
LEMMA CloseGoes ==
  ASSUME FilesInv, NEW fd \in Taken, syscall_close(fd)
  PROVE  ret'.val = 0 /\ Taken' = Taken \ {fd} /\ Elsewhere(fd)
<1>1. fd \in 2..(FD_NUM - 1) /\ fd \in Fd /\ pcb_fds[cur][fd].used /\ ~(fd < 2)
  BY FdRange, FilesAssumption DEF Taken
<1>2. /\ pcb_fds' = [pcb_fds EXCEPT ![cur][fd] = FREE]
      /\ ret' = Call("close", fd, 0, 0) /\ cur' = cur
  BY <1>1, Zenon DEF syscall_close, InUse
<1>3. PICK e : e = FREE /\ ~ e.used
  BY Fields
<1>4. Taken' = Taken \ {fd} /\ Elsewhere(fd)
  BY <1>1, <1>2, <1>3, OneEntry, Zenon
<1> QED
  BY <1>2, <1>4, CallFields

(* write of something to the terminal succeeds. *)
LEMMA WriteGoes ==
  ASSUME FilesInv, NEW n \in Nat \ {0}, syscall_write(1, n)
  PROVE  ret'.val = n /\ n # -1 /\ UNCHANGED <<pcb_fds, cur, got>>
<1>1. pcb_fds[cur][1] = Terminal("stdout") /\ 1 \in Fd
  BY FdRange DEF FilesInv, Tables, TableOK
<1>2. pcb_fds[cur][1].used /\ pcb_fds[cur][1].op = "stdout"
  BY <1>1, Fields DEF Terminal
<1>3. ret' = Call("write", 1, 0, n) /\ UNCHANGED <<pcb_fds, cur, got>>
  BY <1>1, <1>2 DEF syscall_write, InUse
<1> QED
  BY <1>3, CallFields

LEMMA BlockMonotone ==
  ASSUME NEW a \in Nat, NEW b \in Nat, a <= b
  PROVE  a \div BLOCK_SIZE <= b \div BLOCK_SIZE
<1>1. PICK q \in Nat, r \in 0..(BLOCK_SIZE - 1) :
        a \div BLOCK_SIZE = q /\ a = q * BLOCK_SIZE + r
  BY PlaceOf
<1>2. PICK p \in Nat, t \in 0..(BLOCK_SIZE - 1) :
        b \div BLOCK_SIZE = p /\ b = p * BLOCK_SIZE + t
  BY PlaceOf
<1>3. SUFFICES ASSUME p < q PROVE FALSE
  BY <1>1, <1>2
<1>4. PICK x \in Nat, y \in Nat : x = p * BLOCK_SIZE /\ y = q * BLOCK_SIZE
  BY BlocksOf, FilesAssumption
<1>5. x + BLOCK_SIZE <= y
  BY <1>3, <1>4, BlocksOf
<1>6. x + t >= y + r
  BY <1>1, <1>2, <1>4
<1> QED
  BY <1>5, <1>6, FilesAssumption

(* No read of a file of the image is refused. *)
LEMMA DataThere ==
  ASSUME NEW i \in DOMAIN inodes, NEW pos \in 0..inodes[i].length, NEW n, NoWrap(n)
  PROVE  read_data(i, pos, n).val # -1
<1>1. PICK L, blocks, last :
        /\ L = inodes[i].length /\ blocks = inodes[i].blocks /\ last = L \div BLOCK_SIZE
        /\ L \in Nat
  BY FilesAssumption
<1>2. /\ i < MAX_FILES /\ last < MAX_FILES /\ num_data_blocks \in Nat
      /\ \A j \in 0..last : blocks[j] \in 0..(num_data_blocks - 1)
  BY <1>1, ImageAssumption
<1>3. n \in Nat /\ L + n < Word /\ Word \in Nat /\ pos \in Nat /\ pos <= L /\ i \in Nat
  BY <1>1, FilesAssumption DEF NoWrap
<1>4. PICK end : end = EndOf(L, pos, n)
  BY Zenon
<1>5. end \in Nat /\ pos <= end /\ end <= L
  <2>1. (pos + n) % Word = pos + n
    BY <1>1, <1>3
  <2>2. end = IF pos + n >= L THEN L ELSE pos + n
    BY <1>4, <2>1 DEF EndOf
  <2> QED  BY <1>1, <1>3, <2>2
<1>6. PICK start \in Nat, stop \in Nat :
        start = pos \div BLOCK_SIZE /\ stop = end \div BLOCK_SIZE
  BY <1>3, <1>5, PlaceOf
<1>7. start <= last /\ stop <= last /\ last \in Nat
  BY <1>1, <1>3, <1>5, <1>6, BlockMonotone, PlaceOf, SMTT(30)
<1>8. /\ ~(start >= MAX_FILES) /\ ~(stop >= MAX_FILES) /\ ~(i >= MAX_FILES)
      /\ ~ \E j \in start..stop : blocks[j] >= num_data_blocks
  <2>1. \A j \in start..stop : blocks[j] \in 0..(num_data_blocks - 1)
    BY <1>2, <1>7
  <2> QED  BY <1>2, <1>3, <1>7, <2>1, FilesAssumption
<1>9. CASE AtEnd(L, pos)
  <2>1. read_data(i, pos, n) = [val |-> 0, bytes |-> <<>>]
    BY <1>1, <1>8, <1>9, Zenon DEF read_data
  <2> QED  BY <2>1
<1>10. CASE ~ AtEnd(L, pos)
  <2>1. read_data(i, pos, n)
          = [val |-> end - pos,
             bytes |-> CopyBlocks(blocks, start, pos % BLOCK_SIZE, stop, end % BLOCK_SIZE)]
    BY <1>1, <1>4, <1>6, <1>8, <1>10, Zenon DEF read_data
  <2>2. read_data(i, pos, n).val = end - pos
    BY <2>1
  <2> QED  BY <1>3, <1>5, <2>2
<1> QED
  BY <1>9, <1>10

(* What a read has added, c, to what was read before. *)
Added(op, i, pos, q, a, b, c) ==
  /\ a = Returned(Opened(op, i, pos)) /\ b = Returned(Opened(op, i, q))
  /\ c = SubSeq(b, Len(a) + 1, Len(b))

GoesOn(op, pos, q, a, b, c) ==
  /\ c \in Seq(Item) /\ Len(c) = q - pos /\ a \o c = b
  /\ op = "dir" /\ q = pos + 1 => c = <<files[q].key>>

LEMMA AddedIs ==
  ASSUME NEW op \in {"rtc", "dir", "file"}, NEW i \in DOMAIN inodes,
         NEW pos \in 0..End(op, i), NEW q \in pos..End(op, i),
         NEW a, NEW b, NEW c, Added(op, i, pos, q, a, b, c)
  PROVE  GoesOn(op, pos, q, a, b, c)
<1>1. CASE op = "rtc"
  <2>1. pos = 0 /\ q = 0
    BY <1>1 DEF End
  <2>2. a = <<>> /\ b = <<>>
    BY <1>1, ReturnedIs DEF Added
  <2>3. c = <<>> /\ a \o c = b
    BY <2>2 DEF Added
  <2> QED  BY <1>1, <2>1, <2>3 DEF GoesOn
<1>2. CASE op # "rtc"
  <2>1. PICK C, L : C = Content(Opened(op, i, 0)) /\ L = End(op, i)
    BY Zenon
  <2>2. C \in Seq(Item) /\ Len(C) = L
    BY <1>2, <2>1, ContentSeq
  <2>3. a = SubSeq(C, 1, pos) /\ b = SubSeq(C, 1, q)
    <3>1. op \in {"file", "dir"}
      BY <1>2
    <3> QED  BY <2>1, <3>1, ReturnedIs, Zenon DEF Added
  <2>4. pos \in 0..Len(C) /\ q \in pos..Len(C)
    BY <2>1, <2>2
  <2>5. c \in Seq(Item) /\ Len(c) = q - pos /\ a \o c = b /\ (q = pos + 1 => c = <<C[q]>>)
    <3>1. Parted(C, pos, q, a, b, c)
      BY <2>3, <2>4, Zenon DEF Parted, Added
    <3>2. C \in Seq(Item)
      BY <2>2
    <3>3. PartBetween(Item, C, pos, q, a, b, c)
      BY <3>1, <3>2, Between, Zenon
    <3> QED  BY <3>3, Zenon DEF PartBetween
  <2>6. ASSUME op = "dir", q = pos + 1 PROVE C[q] = files[q].key
    <3>1. C = [j \in DOMAIN files |-> files[j].key]
      BY <2>1, <2>6, DirContent, SMTT(30)
    <3>2. q \in DOMAIN files
      BY <2>6, FilesAssumption DEF End
    <3> QED  BY <3>1, <3>2
  <2> QED  BY <2>5, <2>6 DEF GoesOn
<1> QED
  BY <1>1, <1>2

(* All that reads of entry i can return. *)
AllOf(i) ==
  IF files[i].type = 0 THEN <<>> ELSE Content(Opened(OpsOf(files[i].type), files[i].inode, 0))

(* A read through a descriptor of the program goes on to place q. *)
ReadTo(fd, i, pos, q) ==
  /\ OpenedAt(fd, i, q)' /\ Elsewhere(fd) /\ Taken' = Taken
  /\ NewBytes(fd) \in Seq(Item) /\ HasRead(fd) \o NewBytes(fd) = HasRead(fd)'
  /\ ret'.val # -1
  /\ ret'.val # 0 => NewBytes(fd) # <<>>
  /\ ret'.val = 0 => q = pos /\ HasRead(fd) = AllOf(i)
  /\ files[i].type = 1 =>
       IF ret'.val = 0 THEN pos = Len(files)
       ELSE q = pos + 1 /\ NewBytes(fd) = <<files[q].key>>

(* How far a read from pos goes, and what it returns. *)
StepFrom(op, i, pos, r, step) ==
  /\ r.val # -1
  /\ r.val = 0 <=> step = 0
  /\ r.val = 0 => pos = End(op, i)
  /\ op = "dir" /\ r.val # 0 => step = 1

LEMMA StepIs ==
  ASSUME NEW op \in {"rtc", "dir", "file"}, NEW i \in DOMAIN inodes,
         NEW pos \in 0..End(op, i), NEW n, NoWrap(n), n > 0,
         NEW r, r = ReadOf(Opened(op, i, pos), n)
  PROVE  StepFrom(op, i, pos, r, Advance(op, r))
<1>1. PICK e : e = Opened(op, i, pos) /\ e.op = op /\ e.inode = i /\ e.file_pos = pos
  BY Fields
<1>2. CASE op = "rtc"
  <2>1. r = [val |-> 0, bytes |-> <<>>]
    BY <1>1, <1>2 DEF ReadOf
  <2>2. pos = End(op, i)
    BY <1>2 DEF End
  <2> QED  BY <1>2, <2>1, <2>2 DEF Advance, StepFrom
<1>3. CASE op = "file"
  <2>1. r = read_data(i, pos, n) /\ End(op, i) = inodes[i].length /\ Advance(op, r) = r.val
    BY <1>1, <1>3 DEF ReadOf, End, Advance
  <2>2. r.val # -1
    BY <2>1, DataThere
  <2>3. r.val = 0 => pos = End(op, i)
    BY <2>1, <2>2, FileRead, Zenon
  <2> QED  BY <1>3, <2>1, <2>2, <2>3 DEF StepFrom
<1>4. CASE op = "dir"
  <2>1. r = dir_read(pos) /\ End(op, i) = Len(files) /\ Advance(op, r) = Len(r.bytes)
    BY <1>1, <1>4 DEF ReadOf, End, Advance
  <2>2. CASE pos >= Len(files)
    <3>1. r = [val |-> 0, bytes |-> <<>>]
      BY <2>1, <2>2, SMTT(30) DEF dir_read
    <3> QED  BY <2>1, <2>2, <3>1, FilesAssumption, SMTT(30) DEF StepFrom
  <2>3. CASE ~(pos >= Len(files))
    <3>1. r = [val |-> files[pos + 1].len, bytes |-> <<files[pos + 1].key>>]
      BY <2>1, <2>3 DEF dir_read
    <3>2. pos + 1 \in DOMAIN files
      BY <2>1, <2>3, FilesAssumption, SMTT(30)
    <3>3. files[pos + 1].len \in Nat \ {0}
      BY <3>2, FilesAssumption
    <3> QED  BY <2>1, <3>1, <3>3, SMTT(30) DEF StepFrom
  <2> QED  BY <2>2, <2>3
<1> QED
  BY <1>2, <1>3, <1>4, SMTT(30)

LEMMA ReadGoes ==
  ASSUME FilesInv, NEW fd, NEW i, NEW pos, OpenedAt(fd, i, pos),
         NEW n, NoWrap(n), n > 0, syscall_read(fd, n)
  PROVE  \E q \in Nat : ReadTo(fd, i, pos, q)
<1>1. PICK op, node : op = OpsOf(files[i].type) /\ node = files[i].inode
  BY Zenon
<1>2. /\ fd \in Taken /\ fd \in Fd /\ fd \in 2..(FD_NUM - 1) /\ i \in DOMAIN files
      /\ node \in DOMAIN inodes /\ op \in {"rtc", "dir", "file"} /\ pos \in 0..End(op, node)
      /\ HasRead(fd) = Returned(Opened(op, node, pos)) /\ files[i].type \in 0..2
  BY <1>1, OpenedIn, Zenon
<1>3. PICK e : /\ e = pcb_fds[cur][fd] /\ e = Opened(op, node, pos) /\ e.used
               /\ e.op = op /\ e.inode = node /\ e.file_pos = pos
  BY <1>1, Fields DEF OpenedAt
<1>4. PICK r, step, q : r = ReadOf(e, n) /\ step = Advance(op, r) /\ q = pos + step
  BY Zenon
<1>5. StepFrom(op, node, pos, r, step)
  <2>1. r = ReadOf(Opened(op, node, pos), n)
    BY <1>3, <1>4, Zenon
  <2>2. StepFrom(op, node, pos, r, Advance(op, r))
    BY <1>2, <2>1, StepIs, Zenon
  <2> QED  BY <1>4, <2>2, Zenon
<1>6. /\ step \in Nat /\ q \in 0..End(op, node)
      /\ Returned(Opened(op, node, pos)) \o r.bytes = Returned(Opened(op, node, q))
  <2>1. r = ReadOf(Opened(op, node, pos), n)
    BY <1>3, <1>4, Zenon
  <2>2. /\ Advance(op, r) \in Nat /\ pos + Advance(op, r) \in 0..End(op, node)
        /\ Returned(Opened(op, node, pos)) \o r.bytes
             = Returned(Opened(op, node, pos + Advance(op, r)))
    BY <1>2, <1>5, <2>1, ReadKeeps, ZenonT(60) DEF StepFrom
  <2> QED  BY <1>4, <2>2, Zenon
<1>7. /\ pcb_fds' = [pcb_fds EXCEPT ![cur][fd] = Opened(op, node, q)]
      /\ ret' = Call("read", fd, n, r.val) /\ cur' = cur
  <2>1. fd # 1 /\ InUse(fd) /\ op # "stdin"
    BY <1>2, <1>3, FdRange, SMTT(30) DEF InUse
  <2> QED  BY <1>3, <1>4, <1>5, <2>1, Zenon DEF syscall_read, Advance, StepFrom
<1>8. pcb_fds'[cur][fd] = Opened(op, node, q) /\ Elsewhere(fd) /\ Taken' = Taken
  <2>1. PICK f : f = Opened(op, node, q) /\ f.used
    BY Fields
  <2>2. pcb_fds'[cur][fd] = f /\ Elsewhere(fd) /\ Taken' = Taken \cup {fd}
    BY <1>2, <1>7, <2>1, OneEntry, Zenon
  <2> QED  BY <1>2, <2>1, <2>2
<1>9. OpenedAt(fd, i, q)' /\ HasRead(fd)' = Returned(Opened(op, node, q))
  BY <1>1, <1>2, <1>6, <1>7, <1>8, Zenon DEF OpenedAt, HasRead
<1>10. Added(op, node, pos, q, HasRead(fd), HasRead(fd)', NewBytes(fd))
  <2>1. Tables(pcb_fds, got) /\ Tables(pcb_fds', got') /\ cur \in Prog
    BY ReadCallKeeps DEF FilesInv, Preserved
  <2>2. got[cur][fd] = HasRead(fd) /\ got'[cur][fd] = HasRead(fd)'
    BY <1>2, <1>7, <2>1, SMTT(30) DEF Tables, HasRead
  <2> QED  BY <1>2, <1>9, <2>2, Zenon DEF Added, NewBytes
<1>11. q \in pos..End(op, node) /\ q \in Nat /\ (q = pos <=> step = 0) /\ (step = 1 => q = pos + 1)
  BY <1>2, <1>4, <1>6
<1>12. GoesOn(op, pos, q, HasRead(fd), HasRead(fd)', NewBytes(fd))
  BY <1>2, <1>10, <1>11, AddedIs, Zenon
<1>13. ret'.val = r.val /\ (r.val # 0 => NewBytes(fd) # <<>>)
  <2>1. r.val # 0 => Len(NewBytes(fd)) # 0
    BY <1>2, <1>5, <1>11, <1>12 DEF StepFrom, GoesOn
  <2> QED  BY <1>7, <2>1, CallFields
<1>14. ASSUME r.val = 0 PROVE q = pos /\ HasRead(fd) = AllOf(i)
  <2>1. q = pos /\ q = End(op, node)
    BY <1>5, <1>11, <1>14, SMTT(30) DEF StepFrom
  <2>2. CASE op = "rtc"
    <3>1. files[i].type = 0
      BY <1>1, <1>2, <2>2 DEF OpsOf
    <3> QED  BY <1>2, <2>1, <2>2, <3>1, ReturnedIs DEF AllOf
  <2>3. CASE op # "rtc"
    <3>1. files[i].type # 0 /\ op \in {"dir", "file"}
      BY <1>1, <1>2, <2>3 DEF OpsOf
    <3>2. AllOf(i) = Content(Opened(op, node, 0))
      BY <1>1, <3>1, ZenonT(60) DEF AllOf
    <3>3. Returned(Opened(op, node, q)) = SubSeq(Content(Opened(op, node, 0)), 1, End(op, node))
      BY <2>1, <3>1, ReturnedIs
    <3> QED  BY <1>2, <2>1, <3>1, <3>2, <3>3, WholeContent, Zenon
  <2> QED  BY <2>2, <2>3
<1>15. ASSUME files[i].type = 1
       PROVE  IF r.val = 0 THEN pos = Len(files)
              ELSE q = pos + 1 /\ NewBytes(fd) = <<files[q].key>>
  <2>1. op = "dir" /\ End(op, node) = Len(files)
    BY <1>1, <1>15 DEF OpsOf, End
  <2> QED  BY <1>5, <1>11, <1>12, <2>1, Zenon DEF StepFrom, GoesOn
<1>16. ReadTo(fd, i, pos, q)
  BY <1>5, <1>8, <1>9, <1>12, <1>13, <1>14, <1>15, Zenon DEF ReadTo, StepFrom, GoesOn
<1> QED
  BY <1>11, <1>16, Zenon
=============================================================================
