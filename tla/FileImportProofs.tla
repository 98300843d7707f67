------------------------- MODULE FileImportProofs --------------------------
(***************************************************************************)
(* The import of a blob, for any number of deliveries of its event and of  *)
(* workers, any lengths and any size of chunk.                             *)
(*                                                                         *)
(* First, the chunks of a file in closed form: Chunks is a recursive       *)
(* function, so this is an induction, from the end of the file.  Then the  *)
(* types, and what deliveries, workers and jobs know, LInv.  On LInv rest  *)
(* the two invariants that say what the import is for: that a long file is *)
(* seen to, SInv, and how often a line can still be processed, BInv.       *)
(***************************************************************************)
EXTENDS FileImport, SequenceTheorems, FiniteSetTheorems, TLAPS

-----------------------------------------------------------------------------
(* Induction.                                                              *)

\* A set of naturals that is not empty has a least member.
LEMMA Least ==
  ASSUME NEW S, S \subseteq Nat, S # {}
  PROVE  \E m \in S : \A n \in S : m <= n
<1> DEFINE R == OpToRel(<, Nat)
<1>1. IsWellFoundedOn(R, Nat)
  BY NatLessThanWellFounded
<1>2. \A m, n \in Nat : n < m => <<n, m>> \in R
  BY DEF OpToRel
<1> HIDE DEF R
<1>3. \E m \in S : \A n \in S : <<n, m>> \notin R
  BY <1>1, WFMin
<1>4. PICK m \in S : \A n \in S : <<n, m>> \notin R
  BY <1>3
<1>5. \A n \in S : ~(n < m)
  BY <1>2, <1>4
<1> QED BY <1>4, <1>5

LEMMA Induct ==
  ASSUME NEW S, 0 \in S, \A n \in Nat : n \in S => n + 1 \in S
  PROVE  Nat \subseteq S
<1> SUFFICES ASSUME NEW k \in Nat \ S PROVE FALSE
  OBVIOUS
<1>1. PICK m \in Nat \ S : \A n \in Nat \ S : m <= n
  <2> DEFINE T == Nat \ S
  <2>1. T \subseteq Nat /\ T # {}
    OBVIOUS
  <2> HIDE DEF T
  <2>2. \E i \in T : \A n \in T : i <= n
    BY <2>1, Least
  <2> QED BY <2>2 DEF T
<1>2. m - 1 \in Nat /\ m = (m - 1) + 1
  BY <1>1
<1>3. m - 1 \in S
  BY <1>1, <1>2
<1> QED BY <1>1, <1>2, <1>3

-----------------------------------------------------------------------------
(* Chunks.                                                                 *)

LEMMA Quotient ==
  ASSUME NEW a \in Nat, NEW s \in Nat \ {0}
  PROVE  /\ a \div s \in Nat
         /\ (a \div s) * s <= a
         /\ a < (a \div s) * s + s
OBVIOUS

LEMMA TimesNext ==
  ASSUME NEW q \in Nat, NEW s \in Nat
  PROVE  q * s \in Nat /\ (q + 1) * s = q * s + s
OBVIOUS

LEMMA TimesMono ==
  ASSUME NEW i \in Nat, NEW j \in Nat, NEW s \in Nat, i <= j
  PROVE  i * s <= j * s
OBVIOUS

\* The quotient is the only such number.
LEMMA QuotientOnly ==
  ASSUME NEW a \in Nat, NEW s \in Nat \ {0}, NEW q \in Nat, q * s <= a, a < q * s + s
  PROVE  a \div s = q
<1> DEFINE d == a \div s
<1>1. d \in Nat /\ d * s <= a /\ a < d * s + s
  BY Quotient
<1> HIDE DEF d
<1>2. ASSUME d < q PROVE FALSE
  <2>1. (d + 1) * s <= q * s /\ (d + 1) * s = d * s + s /\ d * s \in Nat /\ q * s \in Nat
    BY <1>1, <1>2, TimesMono, TimesNext
  <2> QED BY <1>1, <2>1
<1>3. ASSUME q < d PROVE FALSE
  <2>1. (q + 1) * s <= d * s /\ (q + 1) * s = q * s + s /\ d * s \in Nat /\ q * s \in Nat
    BY <1>1, <1>3, TimesMono, TimesNext
  <2> QED BY <1>1, <2>1
<1> QED BY <1>1, <1>2, <1>3 DEF d

\* The chunks of the lines from first to n, the k-th in closed form.
Count(n, size, first) == IF first > n THEN 0 ELSE (n - first) \div size + 1

Until(n, i) == IF i > n THEN n ELSE i

Piece(n, size, first, k) == first + (k - 1) * size .. Until(n, first + (k - 1) * size + size - 1)

Pieces(n, size, first) == [k \in 1 .. Count(n, size, first) |-> Piece(n, size, first, k)]

LEMMA PiecesType ==
  ASSUME NEW n \in Nat, NEW size \in Nat \ {0}, NEW first \in Nat \ {0}
  PROVE  /\ Count(n, size, first) \in Nat
         /\ Pieces(n, size, first) \in Seq(SUBSET Int)
         /\ Len(Pieces(n, size, first)) = Count(n, size, first)
         /\ \A k \in 1 .. Count(n, size, first) :
              Pieces(n, size, first)[k] = Piece(n, size, first, k)
<1> DEFINE c == Count(n, size, first)
           p == Pieces(n, size, first)
<1>1. c \in Nat
  <2>1. CASE first > n
    BY <2>1 DEF Count
  <2>2. CASE first <= n
    <3>1. n - first \in Nat
      BY <2>2
    <3>2. (n - first) \div size \in Nat
      BY <3>1, Quotient
    <3> QED BY <2>2, <3>2 DEF Count
  <2> QED BY <2>1, <2>2
<1>2. p = [k \in 1 .. c |-> Piece(n, size, first, k)]
  BY DEF Pieces
<1>3. \A k \in 1 .. c : Piece(n, size, first, k) \in SUBSET Int
  BY DEF Piece, Until
<1> HIDE DEF c, p
<1>4. p \in Seq(SUBSET Int) /\ Len(p) = c
  BY <1>1, <1>2, <1>3
<1> QED BY <1>1, <1>2, <1>4 DEF c, p

\* How many chunks there are from the next one on.
LEMMA CountNext ==
  ASSUME NEW n \in Nat, NEW size \in Nat \ {0}, NEW first \in 1 .. n,
         NEW next, next = Until(n, first + size - 1) + 1
  PROVE  /\ next \in first + 1 .. n + 1
         /\ Count(n, size, first) = Count(n, size, next) + 1
         /\ Count(n, size, next) > 0 => next = first + size
<1>0. next \in first + 1 .. n + 1
  BY DEF Until
<1>1. CASE first + size - 1 >= n
  <2>1. next = n + 1
    BY <1>1 DEF Until
  <2>2. (n - first) \div size = 0
    BY <1>1, QuotientOnly
  <2> QED BY <1>0, <2>1, <2>2 DEF Count
<1>2. CASE first + size - 1 < n
  <2>1. next = first + size /\ next <= n
    BY <1>2 DEF Until
  <2> DEFINE a == n - next
             d == a \div size
  <2>2. a \in Nat /\ n - first = a + size
    BY <2>1
  <2>3. d \in Nat /\ d * size <= a /\ a < d * size + size
    BY <2>2, Quotient
  <2>4. (d + 1) * size = d * size + size /\ d * size \in Nat
    BY <2>3, TimesNext
  <2> HIDE DEF d
  <2>5. (n - first) \div size = d + 1
    <3> DEFINE b == n - first
               q == d + 1
    <3>1. b \in Nat /\ q \in Nat /\ q * size <= b /\ b < q * size + size
      BY <2>2, <2>3, <2>4
    <3> HIDE DEF b, q
    <3>2. b \div size = q
      BY <3>1, QuotientOnly
    <3> QED BY <3>2 DEF b, q
  <2>6. Count(n, size, first) = d + 2 /\ Count(n, size, next) = d + 1
    BY <2>1, <2>3, <2>5 DEF Count, d
  <2> QED BY <1>0, <2>1, <2>3, <2>6
<1> QED BY <1>1, <1>2

LEMMA PiecesNext ==
  ASSUME NEW n \in Nat, NEW size \in Nat \ {0}, NEW first \in 1 .. n,
         NEW end, end = Until(n, first + size - 1)
  PROVE  Pieces(n, size, first) = <<first .. end>> \o Pieces(n, size, end + 1)
<1> DEFINE p == Pieces(n, size, first)
           q == Pieces(n, size, end + 1)
           one == <<first .. end>>
           c == Count(n, size, first)
           d == Count(n, size, end + 1)
<1>1. end + 1 \in first + 1 .. n + 1 /\ c = d + 1 /\ (d > 0 => end + 1 = first + size)
  BY CountNext
<1>2. end + 1 \in Nat \ {0} /\ end \in Int
  BY <1>1 DEF Until
<1>3. /\ p \in Seq(SUBSET Int) /\ Len(p) = c /\ c \in Nat
      /\ \A k \in 1 .. c : p[k] = Piece(n, size, first, k)
  <2>1. first \in Nat \ {0}
    OBVIOUS
  <2> QED BY <2>1, PiecesType
<1>4. /\ q \in Seq(SUBSET Int) /\ Len(q) = d /\ d \in Nat
      /\ \A k \in 1 .. d : q[k] = Piece(n, size, end + 1, k)
  BY <1>2, PiecesType
<1>5. one \in Seq(SUBSET Int) /\ Len(one) = 1 /\ one[1] = first .. end
  BY <1>2
<1> HIDE DEF p, q, one, c, d
<1>6. /\ one \o q \in Seq(SUBSET Int) /\ Len(one \o q) = 1 + d
      /\ \A i \in 1 .. 1 + d : (one \o q)[i] = IF i <= 1 THEN one[i] ELSE q[i - 1]
  <2>1. /\ one \o q \in Seq(SUBSET Int)
        /\ Len(one \o q) = Len(one) + Len(q)
        /\ \A i \in 1 .. Len(one) + Len(q) : (one \o q)[i] =
                     IF i <= Len(one) THEN one[i] ELSE q[i - Len(one)]
    <3> DEFINE S == SUBSET Int
    <3>1. one \in Seq(S) /\ q \in Seq(S)
      BY <1>4, <1>5
    <3> HIDE DEF S
    <3>2. /\ one \o q \in Seq(S)
          /\ Len(one \o q) = Len(one) + Len(q)
          /\ \A i \in 1 .. Len(one) + Len(q) : (one \o q)[i] =
                     IF i <= Len(one) THEN one[i] ELSE q[i - Len(one)]
      BY <3>1, ConcatProperties
    <3> QED BY <3>2 DEF S
  <2> QED BY <1>4, <1>5, <2>1
<1>7. ASSUME NEW k \in 1 .. c PROVE p[k] = (one \o q)[k]
  <2>1. CASE k = 1
    <3>1. Piece(n, size, first, 1) = first .. end
      BY DEF Piece
    <3> QED BY <1>1, <1>3, <1>4, <1>5, <1>6, <2>1, <3>1
  <2>2. CASE k # 1
    <3>1. k - 1 \in 1 .. d /\ end + 1 = first + size /\ k \in 1 .. 1 + d
      BY <1>1, <1>4, <2>2
    <3>2. (one \o q)[k] = Piece(n, size, end + 1, k - 1)
      BY <1>4, <1>6, <2>2, <3>1
    <3>3. ((k - 2) + 1) * size = (k - 2) * size + size /\ (k - 2) + 1 = k - 1
      BY <3>1, TimesNext
    <3>4. (k - 1) - 1 = k - 2
      BY <3>1
    <3>5. Piece(n, size, end + 1, k - 1) = Piece(n, size, first, k)
      <4> DEFINE x == (k - 2) * size
                 y == (k - 1) * size
      <4>1. y = x + size /\ x \in Int /\ y \in Int
        BY <3>1, <3>3, TimesNext
      <4> HIDE DEF x, y
      <4>2. first + size + x = first + y
        BY <4>1
      <4> QED BY <3>1, <3>4, <4>2 DEF Piece, x, y
    <3> QED BY <1>3, <3>2, <3>5
  <2> QED BY <2>1, <2>2
<1>8. p = one \o q
  <2>1. Len(p) = Len(one \o q) /\ \A k \in 1 .. Len(p) : p[k] = (one \o q)[k]
    BY <1>1, <1>3, <1>4, <1>6, <1>7
  <2> QED BY <1>3, <1>6, <2>1, SeqEqual
<1> QED BY <1>8 DEF p, q, one

\* The recursion of Chunks has one solution.
LEMMA ChunksAre ==
  ASSUME NEW n \in Nat, NEW size \in Nat \ {0}
  PROVE  Chunks(n, size) = Pieces(n, size, 1)
<1> DEFINE D == 1 .. n + size
           Rest(f, line) ==
             IF line > n THEN << >>
             ELSE LET end == IF line + size - 1 > n THEN n ELSE line + size - 1
                  IN <<line .. end>> \o f[end + 1]
           F == [line \in D |-> Pieces(n, size, line)]
           f == CHOOSE f : f = [line \in D |-> Rest(f, line)]
<1>1. Chunks(n, size) = f[1]
  BY DEF Chunks
<1>2. ASSUME NEW g, NEW line \in D,
             \A i \in D : i > line => g[i] = Pieces(n, size, i)
      PROVE  Rest(g, line) = Pieces(n, size, line)
  <2>1. CASE line > n
    <3>1. Count(n, size, line) = 0
      BY <2>1 DEF Count
    <3> QED BY <2>1, <3>1 DEF Pieces
  <2>2. CASE line <= n
    <3> DEFINE end == Until(n, line + size - 1)
    <3>1. line \in 1 .. n
      BY <2>2
    <3>2. end + 1 \in line + 1 .. n + 1
      BY <3>1, CountNext
    <3>3. end + 1 \in D /\ end + 1 > line
      BY <3>2
    <3>4. Rest(g, line) = <<line .. end>> \o g[end + 1]
      BY <2>2 DEF Until
    <3> HIDE DEF end, Rest
    <3>5. g[end + 1] = Pieces(n, size, end + 1)
      BY <1>2, <3>3
    <3>6. Pieces(n, size, line) = <<line .. end>> \o Pieces(n, size, end + 1)
      BY <3>1, PiecesNext DEF end
    <3> QED BY <3>4, <3>5, <3>6
  <2> QED BY <2>1, <2>2
<1>3. F = [line \in D |-> Rest(F, line)]
  <2>1. \A line \in D : F[line] = Pieces(n, size, line)
    OBVIOUS
  <2>2. DOMAIN F = D /\ F = [line \in D |-> F[line]]
    OBVIOUS
  <2> HIDE DEF F, Rest, D
  <2>3. \A line \in D : Rest(F, line) = Pieces(n, size, line)
    BY <1>2, <2>1
  <2> QED BY <2>1, <2>2, <2>3
<1>4. f = [line \in D |-> Rest(f, line)]
  <2> HIDE DEF F, Rest, D
  <2> QED BY <1>3
<1> HIDE DEF f, Rest, F
<1>5. 1 \in D
  OBVIOUS
<1> DEFINE N == {m \in Nat : \A line \in D : n + size - line <= m => f[line] = Pieces(n, size, line)}
<1>6. ASSUME NEW line \in D, \A i \in D : i > line => f[i] = Pieces(n, size, i)
      PROVE  f[line] = Pieces(n, size, line)
  <2>1. Rest(f, line) = Pieces(n, size, line)
    BY <1>2, <1>6
  <2> HIDE DEF D
  <2> QED BY <1>4, <2>1
<1>7. 0 \in N
  <2> SUFFICES ASSUME NEW line \in D, n + size - line <= 0 PROVE f[line] = Pieces(n, size, line)
    OBVIOUS
  <2>1. \A i \in D : ~(i > line)
    OBVIOUS
  <2> QED BY <1>6, <2>1
<1>8. ASSUME NEW m \in Nat, m \in N PROVE m + 1 \in N
  <2> SUFFICES ASSUME NEW line \in D, n + size - line <= m + 1
               PROVE  f[line] = Pieces(n, size, line)
    OBVIOUS
  <2>1. \A i \in D : i > line => n + size - i <= m
    OBVIOUS
  <2>2. \A i \in D : i > line => f[i] = Pieces(n, size, i)
    BY <1>8, <2>1
  <2> QED BY <1>6, <2>2
<1> HIDE DEF N
<1>9. Nat \subseteq N
  BY <1>7, <1>8, Induct
<1>10. f[1] = Pieces(n, size, 1)
  <2>1. n + size \in N
    BY <1>9
  <2>2. \A line \in D : n + size - line <= n + size => f[line] = Pieces(n, size, line)
    BY <2>1 DEF N
  <2> QED BY <1>5, <2>2
<1> QED BY <1>1, <1>10

\* The sets c divide the lines 1 .. n, and no chunk begins after the last line.
Divides(c, n, size) ==
  /\ Len(c) \in Nat /\ DOMAIN c = 1 .. Len(c)
  /\ \A k \in 1 .. Len(c) : /\ c[k] # {} /\ c[k] \subseteq 1 .. n
                            /\ k \in 1 .. n /\ (k - 1) * size + 1 \in 1 .. n
  /\ \A l \in 1 .. n : \E k \in 1 .. Len(c) : l \in c[k]
  /\ \A j, k \in 1 .. Len(c) : j # k => c[j] \cap c[k] = {}

\* What CreateChunksWithCompleteRecords makes of a file of n lines, whatever
\* the size aimed at: the chunks have every line, and no line twice.
LEMMA ChunksDivide ==
  ASSUME NEW n \in Nat, NEW size \in Nat \ {0}, NEW c, c = Chunks(n, size)
  PROVE  Divides(c, n, size)
<1> DEFINE m == Count(n, size, 1)
           From(k) == (k - 1) * size
<1>1. /\ c \in Seq(SUBSET Int) /\ Len(c) = m /\ m \in Nat
      /\ \A k \in 1 .. m : c[k] = Piece(n, size, 1, k)
  <2> DEFINE p == Pieces(n, size, 1)
  <2>1. c = p
    BY ChunksAre
  <2>2. /\ p \in Seq(SUBSET Int) /\ Len(p) = m /\ m \in Nat
        /\ \A k \in 1 .. m : p[k] = Piece(n, size, 1, k)
    <3>1. 1 \in Nat \ {0}
      OBVIOUS
    <3> QED BY <3>1, PiecesType
  <2> HIDE DEF p, m
  <2> QED BY <2>1, <2>2
<1>2. DOMAIN c = 1 .. m
  BY <1>1
<1>3. \A k \in 1 .. m : c[k] = From(k) + 1 .. Until(n, From(k) + size)
  <2> SUFFICES ASSUME NEW k \in 1 .. m PROVE c[k] = From(k) + 1 .. Until(n, From(k) + size)
    OBVIOUS
  <2> DEFINE x == (k - 1) * size
  <2>1. x \in Int
    OBVIOUS
  <2>2. c[k] = 1 + x .. Until(n, 1 + x + size - 1)
    BY <1>1 DEF Piece
  <2> HIDE DEF x
  <2>3. 1 + x = x + 1 /\ 1 + x + size - 1 = x + size
    BY <2>1
  <2> QED BY <2>2, <2>3 DEF x
<1>4. ASSUME NEW k \in 1 .. m
      PROVE  From(k) \in Nat /\ From(k) < n /\ k <= From(k) + 1
  <2>1. n >= 1 /\ m = (n - 1) \div size + 1
    BY DEF Count
  <2> DEFINE d == (n - 1) \div size
  <2>2. d \in Nat /\ d * size <= n - 1
    <3>1. n - 1 \in Nat
      BY <2>1
    <3> QED BY <3>1, Quotient
  <2>3. k - 1 \in Nat /\ k - 1 <= d
    BY <1>1, <2>1
  <2> HIDE DEF d
  <2>4. (k - 1) * size <= d * size /\ (k - 1) * size \in Nat
    BY <2>2, <2>3, TimesMono, TimesNext
  <2>5. k - 1 <= (k - 1) * size
    <3> DEFINE i == k - 1
    <3>1. i \in Nat
      BY <2>3
    <3> HIDE DEF i
    <3>2. i <= i * size
      BY <3>1
    <3> QED BY <3>2 DEF i
  <2> DEFINE y == (k - 1) * size
             z == d * size
  <2>6. y \in Nat /\ y <= z /\ z <= n - 1 /\ k - 1 <= y
    BY <2>2, <2>4, <2>5
  <2> HIDE DEF y, z
  <2>7. y < n /\ k <= y + 1
    <3>1. k \in Int /\ z \in Int
      BY <2>2, <2>6 DEF z
    <3> QED BY <2>1, <2>6, <3>1
  <2> QED BY <2>6, <2>7 DEF y
<1>5. ASSUME NEW j \in 1 .. m, NEW k \in 1 .. m, j < k PROVE From(j) + size <= From(k)
  <2>1. j - 1 \in Nat /\ j \in Nat /\ k - 1 \in Nat /\ j <= k - 1 /\ (j - 1) + 1 = j
    BY <1>1, <1>5
  <2>2. j * size = (j - 1) * size + size
    BY <2>1, TimesNext
  <2>3. j * size <= (k - 1) * size
    BY <2>1, TimesMono
  <2> QED BY <2>2, <2>3
<1>6. ASSUME NEW l \in 1 .. n PROVE \E k \in 1 .. m : From(k) < l /\ l <= From(k) + size
  <2> DEFINE i == l - 1
             q == i \div size
             d == (n - 1) \div size
  <2>1. i \in Nat /\ n - 1 \in Nat /\ i <= n - 1
    OBVIOUS
  <2>2. q \in Nat /\ q * size <= i /\ i < q * size + size
    BY <2>1, Quotient
  <2>3. d \in Nat /\ d * size <= n - 1 /\ n - 1 < d * size + size
    BY <2>1, Quotient
  <2>4. m = d + 1
    BY <2>1 DEF Count
  <2> HIDE DEF q, d, m
  <2>5. q <= d
    <3> SUFFICES ASSUME d + 1 <= q PROVE FALSE
      BY <2>2, <2>3
    <3>1. (d + 1) * size <= q * size /\ (d + 1) * size = d * size + size
      BY <2>2, <2>3, TimesMono, TimesNext
    <3>2. d * size \in Nat /\ q * size \in Nat
      BY <2>2, <2>3, TimesNext
    <3> QED BY <2>1, <2>2, <2>3, <3>1, <3>2
  <2>6. q + 1 \in 1 .. m /\ (q + 1) - 1 = q
    BY <2>2, <2>3, <2>4, <2>5
  <2>7. From(q + 1) = q * size /\ q * size \in Nat
    BY <2>2, <2>6, TimesNext
  <2>8. From(q + 1) < l /\ l <= From(q + 1) + size
    BY <2>1, <2>2, <2>7
  <2> QED BY <2>6, <2>8
<1> HIDE DEF m, From
<1>7. ASSUME NEW k \in 1 .. m
      PROVE  /\ c[k] # {} /\ c[k] \subseteq 1 .. n
             /\ k \in 1 .. n /\ From(k) + 1 \in 1 .. n
  <2>1. From(k) \in Nat /\ From(k) < n /\ k <= From(k) + 1
    BY <1>4
  <2>2. c[k] = From(k) + 1 .. Until(n, From(k) + size)
    BY <1>3
  <2>3. From(k) + 1 \in c[k]
    BY <2>1, <2>2 DEF Until
  <2>4. c[k] \subseteq 1 .. n
    BY <2>1, <2>2 DEF Until
  <2> QED BY <1>1, <2>1, <2>3, <2>4
<1>8. ASSUME NEW l \in 1 .. n PROVE \E k \in 1 .. m : l \in c[k]
  <2>1. PICK k \in 1 .. m : From(k) < l /\ l <= From(k) + size
    BY <1>6
  <2>2. l \in c[k]
    BY <1>3, <1>4, <2>1 DEF Until
  <2> QED BY <2>2
<1>9. ASSUME NEW j \in 1 .. m, NEW k \in 1 .. m, j < k PROVE c[j] \cap c[k] = {}
  <2>1. /\ From(j) \in Nat /\ From(k) \in Nat /\ From(j) + size <= From(k)
    BY <1>4, <1>5, <1>9
  <2>2. \A l \in c[j] : l <= From(j) + size
    BY <1>3, <2>1 DEF Until
  <2>3. \A l \in c[k] : l >= From(k) + 1
    BY <1>3, <2>1 DEF Until
  <2>4. c[j] \subseteq 1 .. n
    BY <1>7
  <2> QED BY <2>1, <2>2, <2>3, <2>4
<1>10. \A j, k \in 1 .. m : j # k => c[j] \cap c[k] = {}
  <2> SUFFICES ASSUME NEW j \in 1 .. m, NEW k \in 1 .. m, j # k PROVE c[j] \cap c[k] = {}
    OBVIOUS
  <2>1. j < k \/ k < j
    BY <1>1
  <2> QED BY <1>9, <2>1
<1> QED BY <1>1, <1>2, <1>7, <1>8, <1>10 DEF From, Divides

\* A line is in one chunk.
LEMMA ChunkOfLine ==
  ASSUME NEW n \in Nat, NEW size \in Nat \ {0}, NEW c, c = Chunks(n, size), NEW l \in 1 .. n
  PROVE  Cardinality({k \in DOMAIN c : l \in c[k]}) = 1
<1>1. PICK k \in DOMAIN c : l \in c[k] /\ \A j \in DOMAIN c : j # k => c[j] \cap c[k] = {}
  <2>1. /\ DOMAIN c = 1 .. Len(c)
        /\ \E k \in 1 .. Len(c) : l \in c[k]
        /\ \A j, k \in 1 .. Len(c) : j # k => c[j] \cap c[k] = {}
    BY ChunksDivide DEF Divides
  <2> QED BY <2>1
<1>2. {j \in DOMAIN c : l \in c[j]} = {k}
  BY <1>1
<1> QED BY <1>2, FS_Singleton

LEMMA OneLess ==
  ASSUME NEW S, IsFiniteSet(S), NEW x \in S
  PROVE  /\ IsFiniteSet(S \ {x})
         /\ Cardinality(S) \in Nat \ {0}
         /\ Cardinality(S \ {x}) = Cardinality(S) - 1
<1>1. Cardinality(S) \in Nat /\ Cardinality(S) # 0
  BY FS_CardinalityType, FS_EmptySet
<1> QED BY <1>1, FS_RemoveElement

-----------------------------------------------------------------------------
(* Types.                                                                  *)

FileRec == [fresh: BOOLEAN, uploaded: BOOLEAN]

DeliveryRec == [pc: Place, file: 0 .. Len(files), chunk: Nat]

WorkerPC == {"idle", "count", "size", "run", "complete", "failed"}

\* The deliveries that have not made a file.
Unmade == {d \in Delivery : delivery[d].pc \in {"new", "create"}}

\* No delivery makes two.
TInv == TypeOK /\ Len(files) + Cardinality(Unmade) <= Cardinality(Delivery)

LEMMA ConstantTypes ==
  /\ IsFiniteSet(Delivery) /\ Cardinality(Delivery) \in Nat
  /\ Line \subseteq Nat \ {0}
  /\ \A n \in Lengths : n \in Nat \ {0} /\ 1 .. n \subseteq Line
  /\ RecordsPerChunk \in Nat \ {0}
  /\ Nobody \notin Delivery /\ Nobody \notin Worker
BY ImportAssumption, FS_CardinalityType DEF Line

\* A chunk of the file is a chunk that it may have.
LEMMA SplitFacts ==
  ASSUME length \in Lengths
  PROVE  /\ Len(Split) \in Nat /\ DOMAIN Split = 1 .. Len(Split)
         /\ \A k \in 1 .. Len(Split) : /\ k \in ChunkNo /\ k # 0 /\ k \in Nat
                                       /\ Split[k] # {} /\ Split[k] \subseteq 1 .. length
         /\ \A l \in 1 .. length : \E k \in 1 .. Len(Split) : l \in Split[k]
         /\ \A j, k \in 1 .. Len(Split) : j # k => Split[j] \cap Split[k] = {}
<1>1. length \in Nat \ {0} /\ 1 .. length \subseteq Line /\ RecordsPerChunk \in Nat \ {0}
  BY ConstantTypes
<1> DEFINE c == Split
           n == length
           size == RecordsPerChunk
<1>2. /\ Len(c) \in Nat /\ DOMAIN c = 1 .. Len(c)
      /\ \A k \in 1 .. Len(c) : /\ c[k] # {} /\ c[k] \subseteq 1 .. n
                                /\ k \in 1 .. n /\ (k - 1) * size + 1 \in 1 .. n
      /\ \A l \in 1 .. n : \E k \in 1 .. Len(c) : l \in c[k]
      /\ \A j, k \in 1 .. Len(c) : j # k => c[j] \cap c[k] = {}
  <2>1. c = Chunks(n, size) /\ n \in Nat /\ size \in Nat \ {0}
    BY <1>1 DEF Split
  <2> HIDE DEF c, n, size
  <2>2. Divides(c, n, size)
    BY <2>1, ChunksDivide
  <2> QED BY <2>2 DEF Divides
<1>3. \A k \in 1 .. Len(c) : k \in ChunkNo /\ k # 0 /\ k \in Nat
  <2> SUFFICES ASSUME NEW k \in 1 .. Len(c) PROVE k \in ChunkNo /\ k # 0 /\ k \in Nat
    OBVIOUS
  <2>1. k \in 1 .. n /\ (k - 1) * size + 1 \in 1 .. n /\ 1 .. n \subseteq Line
    BY <1>1, <1>2
  <2>2. k \in Line /\ (k - 1) * RecordsPerChunk + 1 \in Line
    BY <2>1
  <2> QED BY <2>1, <2>2 DEF ChunkNo
<1> HIDE DEF c
<1> QED BY <1>2, <1>3 DEF c

LEMMA UnmadeFewer ==
  ASSUME NEW f, f \in Nat, f + Cardinality(Unmade) <= Cardinality(Delivery)
  PROVE  /\ Unmade' \subseteq Unmade => f + Cardinality(Unmade') <= Cardinality(Delivery)
         /\ \A d \in Unmade : Unmade' \subseteq Unmade \ {d} =>
              f + 1 + Cardinality(Unmade') <= Cardinality(Delivery)
<1> DEFINE U == Unmade
           V == {d \in Delivery : delivery'[d].pc \in {"new", "create"}}
<1>1. IsFiniteSet(U) /\ IsFiniteSet(V) /\ Unmade' = V /\ Cardinality(Delivery) \in Nat
  BY ConstantTypes, FS_Subset DEF Unmade
<1> HIDE DEF U, V
<1>2. Cardinality(U) \in Nat /\ Cardinality(V) \in Nat
  BY <1>1, FS_CardinalityType
<1>3. V \subseteq U => Cardinality(V) <= Cardinality(U)
  BY <1>1, FS_Subset
<1>4. ASSUME NEW d \in U, V \subseteq U \ {d} PROVE Cardinality(V) <= Cardinality(U) - 1
  <2>1. IsFiniteSet(U \ {d}) /\ Cardinality(U \ {d}) = Cardinality(U) - 1
    BY <1>1, OneLess
  <2> QED BY <1>4, <2>1, FS_Subset
<1>5. f + Cardinality(U) <= Cardinality(Delivery)
  BY DEF U
<1>6. V \subseteq U => f + Cardinality(V) <= Cardinality(Delivery)
  BY <1>1, <1>2, <1>3, <1>5
<1>7. \A d \in U : V \subseteq U \ {d} => f + 1 + Cardinality(V) <= Cardinality(Delivery)
  BY <1>1, <1>2, <1>4, <1>5
<1> QED BY <1>1, <1>6, <1>7 DEF U

LEMMA StartTypes == Init => TInv
<1> SUFFICES ASSUME Init PROVE TInv
  OBVIOUS
<1>1. /\ length \in Lengths /\ files = << >> /\ jobs = [j \in JobId |-> NoJob]
      /\ delivery = [d \in Delivery |-> [pc |-> "new", file |-> 0, chunk |-> 0]]
      /\ worker = [w \in Worker |-> [pc |-> "idle", job |-> Nobody]]
      /\ runs = [l \in Line |-> 0] /\ since = {}
  BY DEF Init
<1>2. files \in Seq([fresh: BOOLEAN, uploaded: BOOLEAN]) /\ Len(files) = 0
  BY <1>1
<1>3. jobs \in [JobId -> Job] /\ \A j \in JobId : jobs[j].owner # Nobody <=> jobs[j].status = "processing"
  BY <1>1 DEF Job, NoJob, Status
<1>4. delivery \in [Delivery -> [pc: Place, file: 0 .. Len(files), chunk: Nat]]
  BY <1>1, <1>2 DEF Place
<1>5. Cardinality(Delivery) \in Nat /\ Unmade = Delivery
  BY <1>1, ConstantTypes DEF Unmade
<1> QED BY <1>1, <1>2, <1>3, <1>4, <1>5 DEF TInv, TypeOK

\* The step of a delivery that leaves its file and its chunk.
LEMMA GotoType ==
  ASSUME TypeOK, NEW d \in Delivery, NEW place \in Place, Goto(d, place),
         Len(files') = Len(files)
  PROVE  delivery' \in [Delivery -> [pc: Place, file: 0 .. Len(files'), chunk: Nat]]
BY DEF TypeOK, Goto

LEMMA JobsType ==
  ASSUME TypeOK, NEW j, NEW new \in Job, new.owner # Nobody <=> new.status = "processing",
         jobs' = [jobs EXCEPT ![j] = new]
  PROVE  /\ jobs' \in [JobId -> Job]
         /\ \A i \in JobId : jobs'[i].owner # Nobody <=> jobs'[i].status = "processing"
BY DEF TypeOK

LEMMA DeliveryTypes ==
  ASSUME TInv, NEW d \in Delivery, Find(d) \/ Import(d) \/ Cut(d)
  PROVE  TInv'
<1>0. /\ TypeOK /\ Len(files) \in Nat /\ files \in Seq(FileRec)
      /\ delivery \in [Delivery -> DeliveryRec] /\ since \subseteq Delivery
      /\ Len(files) + Cardinality(Unmade) <= Cardinality(Delivery)
      /\ Len(files) <= Cardinality(Delivery)
      /\ Cardinality(Delivery) \in Nat
  BY ConstantTypes DEF TInv, TypeOK, FileRec, DeliveryRec
<1>1. ASSUME UNCHANGED <<length, worker, runs>>, since' \subseteq Delivery,
             files' \in Seq(FileRec), Len(files') <= Cardinality(Delivery),
             delivery' \in [Delivery -> [pc: Place, file: 0 .. Len(files'), chunk: Nat]],
             jobs' \in [JobId -> Job],
             \A j \in JobId : jobs'[j].owner # Nobody <=> jobs'[j].status = "processing"
      PROVE  TypeOK'
  BY <1>0, <1>1 DEF TypeOK, FileRec
<1>2. ASSUME jobs' = jobs
      PROVE  /\ jobs' \in [JobId -> Job]
             /\ \A j \in JobId : jobs'[j].owner # Nobody <=> jobs'[j].status = "processing"
  BY <1>0, <1>2 DEF TypeOK
<1>3. ASSUME TypeOK', Len(files') = Len(files), Unmade' \subseteq Unmade PROVE TInv'
  BY <1>0, <1>3, UnmadeFewer DEF TInv
<1>4. CASE Find(d)
  <2>1. /\ delivery' \in [Delivery -> [pc: Place, file: 0 .. Len(files), chunk: Nat]]
        /\ Unmade' \subseteq Unmade
    <3>1. CASE Goto(d, "create")
      BY <1>0, <1>4, <3>1 DEF Find, Goto, At, Unmade, DeliveryRec, Place
    <3>2. CASE delivery' = [delivery EXCEPT ![d].pc = "jobs", ![d].file = Len(files)]
      <4> DEFINE new == [delivery[d] EXCEPT !.pc = "jobs", !.file = Len(files)]
      <4>1. delivery' = [delivery EXCEPT ![d] = new]
        BY <1>0, <3>2
      <4>2. new \in DeliveryRec /\ new.pc = "jobs"
        <5>1. delivery[d] \in DeliveryRec /\ Len(files) \in 0 .. Len(files)
          BY <1>0
        <5> QED BY <5>1 DEF DeliveryRec, Place
      <4> HIDE DEF new
      <4> QED BY <1>0, <4>1, <4>2 DEF Unmade, DeliveryRec
    <3> QED BY <1>4, <3>1, <3>2 DEF Find
  <2>2. UNCHANGED <<length, worker, runs, files, jobs>> /\ since' \subseteq Delivery
    BY <1>0, <1>4 DEF Find
  <2> QED BY <1>0, <1>1, <1>2, <1>3, <2>1, <2>2
<1>5. CASE FindParent(d) \/ MissParent(d) \/ Cut(d)
  <2>1. PICK place \in {"split", "mend", "cut"} : Goto(d, place)
    BY <1>5 DEF FindParent, MissParent, Cut
  <2>2. UNCHANGED <<length, worker, runs, files, jobs>> /\ since' \subseteq Delivery
    BY <1>0, <1>5 DEF FindParent, MissParent, Cut
  <2>3. delivery' \in [Delivery -> [pc: Place, file: 0 .. Len(files'), chunk: Nat]]
    BY <1>0, <2>1, <2>2, GotoType DEF Place
  <2>4. Unmade' \subseteq Unmade
    BY <1>0, <2>1 DEF Goto, Unmade, DeliveryRec
  <2> QED BY <1>0, <1>1, <1>2, <1>3, <2>2, <2>3, <2>4
<1>6. CASE CreateFile(d)
  <2> DEFINE new == [fresh |-> TRUE, uploaded |-> FALSE]
  <2>1. /\ files' = Append(files, new) /\ new \in FileRec /\ At(d, "create")
        /\ delivery' = [delivery EXCEPT ![d].pc = "parent", ![d].file = Len(files')]
        /\ UNCHANGED <<length, worker, runs, jobs, since>>
    BY <1>6 DEF CreateFile, FileRec
  <2> HIDE DEF new
  <2>2. files' \in Seq(FileRec) /\ Len(files') = Len(files) + 1
    BY <1>0, <2>1
  <2>3. delivery' \in [Delivery -> [pc: Place, file: 0 .. Len(files'), chunk: Nat]]
    BY <1>0, <2>1, <2>2 DEF DeliveryRec, Place
  <2>4. d \in Unmade /\ Unmade' \subseteq Unmade \ {d}
    BY <1>0, <2>1 DEF At, Unmade, DeliveryRec
  <2>5. Len(files) + 1 + Cardinality(Unmade') <= Cardinality(Delivery)
    BY <1>0, <2>4, UnmadeFewer
  <2>6. Cardinality(Unmade') \in Nat
    <3>1. IsFiniteSet({e \in Delivery : delivery'[e].pc \in {"new", "create"}})
      BY ConstantTypes, FS_Subset
    <3> QED BY <3>1, FS_CardinalityType DEF Unmade
  <2>7. TypeOK'
    BY <1>0, <1>1, <1>2, <2>1, <2>2, <2>3, <2>5, <2>6
  <2> QED BY <2>2, <2>5, <2>7 DEF TInv
<1>7. CASE CreateParent(d)
  <2>1. /\ jobs' = [jobs EXCEPT ![Parent(delivery[d].file)] = Pending]
        /\ UNCHANGED <<length, files, worker, runs, since>>
    BY <1>7 DEF CreateParent
  <2>2. PICK place \in {"upload", "split"} : Goto(d, place)
    BY <1>7 DEF CreateParent
  <2>3. Pending \in Job /\ (Pending.owner # Nobody <=> Pending.status = "processing")
    BY DEF Pending, Job, Status
  <2>4. delivery' \in [Delivery -> [pc: Place, file: 0 .. Len(files'), chunk: Nat]]
    BY <1>0, <2>1, <2>2, GotoType DEF Place
  <2>5. Unmade' \subseteq Unmade
    BY <1>0, <2>2 DEF Goto, Unmade, DeliveryRec
  <2> QED BY <1>0, <1>1, <1>3, <2>1, <2>3, <2>4, <2>5, JobsType
<1>8. CASE Upload(d)
  <2>1. /\ files' = [files EXCEPT ![delivery[d].file].uploaded = TRUE] /\ Goto(d, "split")
        /\ UNCHANGED <<length, jobs, worker, runs, since>>
    BY <1>8 DEF Upload
  <2>2. files' \in Seq(FileRec) /\ Len(files') = Len(files)
    <3>1. CASE delivery[d].file \in DOMAIN files
      <4> DEFINE new == [files[delivery[d].file] EXCEPT !.uploaded = TRUE]
      <4>1. new \in FileRec
        <5>1. files[delivery[d].file] \in FileRec
          BY <1>0, <3>1
        <5> QED BY <5>1 DEF FileRec
      <4>2. files' = [files EXCEPT ![delivery[d].file] = new]
        BY <2>1
      <4> HIDE DEF new
      <4> QED BY <1>0, <3>1, <4>1, <4>2
    <3>2. CASE delivery[d].file \notin DOMAIN files
      <4>1. files' = files
        BY <1>0, <2>1, <3>2
      <4> QED BY <1>0, <4>1
    <3> QED BY <3>1, <3>2
  <2>3. delivery' \in [Delivery -> [pc: Place, file: 0 .. Len(files'), chunk: Nat]]
    BY <1>0, <2>1, <2>2, GotoType DEF Place
  <2>4. Unmade' \subseteq Unmade
    BY <1>0, <2>1 DEF Goto, Unmade, DeliveryRec
  <2> QED BY <1>0, <1>1, <1>2, <1>3, <2>1, <2>2, <2>3, <2>4
<1>9. CASE SplitFile(d)
  <2>1. /\ \/ delivery' = [delivery EXCEPT ![d].pc = "store", ![d].chunk = 1]
           \/ Goto(d, "done")
        /\ UNCHANGED <<length, files, jobs, worker, runs, since>>
    BY <1>9 DEF SplitFile
  <2>2. /\ delivery' \in [Delivery -> [pc: Place, file: 0 .. Len(files'), chunk: Nat]]
        /\ Unmade' \subseteq Unmade
    <3>1. CASE Goto(d, "done")
      BY <1>0, <2>1, <3>1 DEF Goto, Unmade, DeliveryRec, Place
    <3>2. CASE delivery' = [delivery EXCEPT ![d].pc = "store", ![d].chunk = 1]
      <4> DEFINE new == [delivery[d] EXCEPT !.pc = "store", !.chunk = 1]
      <4>1. delivery' = [delivery EXCEPT ![d] = new]
        BY <1>0, <3>2
      <4>2. new \in DeliveryRec /\ new.pc = "store"
        BY <1>0 DEF DeliveryRec, Place
      <4> HIDE DEF new
      <4> QED BY <1>0, <2>1, <4>1, <4>2 DEF Unmade, DeliveryRec
    <3> QED BY <2>1, <3>1, <3>2
  <2> QED BY <1>0, <1>1, <1>2, <1>3, <2>1, <2>2
<1>10. CASE StoreChunk(d)
  <2>1. PICK j : jobs' = [jobs EXCEPT ![j] = Pending]
    BY <1>10 DEF StoreChunk
  <2>2. /\ \/ delivery' = [delivery EXCEPT ![d].chunk = @ + 1]
           \/ Goto(d, "done")
        /\ UNCHANGED <<length, files, worker, runs, since>>
    BY <1>10 DEF StoreChunk
  <2>3. Pending \in Job /\ (Pending.owner # Nobody <=> Pending.status = "processing")
    BY DEF Pending, Job, Status
  <2>4. /\ delivery' \in [Delivery -> [pc: Place, file: 0 .. Len(files'), chunk: Nat]]
        /\ Unmade' \subseteq Unmade
    <3>1. CASE Goto(d, "done")
      BY <1>0, <2>2, <3>1 DEF Goto, Unmade, DeliveryRec, Place
    <3>2. CASE delivery' = [delivery EXCEPT ![d].chunk = @ + 1]
      <4> DEFINE new == [delivery[d] EXCEPT !.chunk = @ + 1]
      <4>1. delivery' = [delivery EXCEPT ![d] = new]
        BY <1>0, <3>2
      <4>2. new \in DeliveryRec /\ new.pc = delivery[d].pc
        <5>1. delivery[d] \in DeliveryRec
          BY <1>0
        <5> QED BY <5>1 DEF DeliveryRec
      <4> HIDE DEF new
      <4> QED BY <1>0, <2>2, <4>1, <4>2 DEF Unmade, DeliveryRec
    <3> QED BY <2>2, <3>1, <3>2
  <2> QED BY <1>0, <1>1, <1>3, <2>1, <2>2, <2>3, <2>4, JobsType
<1> QED BY <1>4, <1>5, <1>6, <1>7, <1>8, <1>9, <1>10 DEF Import

LEMMA WorkTypes ==
  ASSUME TInv, NEW w \in Worker, Work(w)
  PROVE  TInv'
<1>0. /\ TypeOK /\ UNCHANGED <<length, files, delivery, since>>
      /\ worker \in [Worker -> [pc: WorkerPC, job: JobId \cup {Nobody}]]
      /\ runs \in [Line -> Nat] /\ jobs \in [JobId -> Job]
  BY DEF TInv, TypeOK, WorkerPC, Work, Claim, CountJobs, Size, Run, Finish
<1>1. ASSUME worker' \in [Worker -> [pc: WorkerPC, job: JobId \cup {Nobody}]],
             runs' \in [Line -> Nat], jobs' \in [JobId -> Job],
             \A j \in JobId : jobs'[j].owner # Nobody <=> jobs'[j].status = "processing"
      PROVE  TInv'
  <2>1. TypeOK'
    BY <1>0, <1>1 DEF TypeOK, WorkerPC
  <2>2. Unmade' = Unmade
    BY <1>0 DEF Unmade
  <2> QED BY <1>0, <2>1, <2>2 DEF TInv
<1>2. CASE Claim(w)
  <2>1. PICK j \in JobId :
          /\ jobs' = [jobs EXCEPT ![j] = [status |-> "processing", owner |-> w]]
          /\ worker' = [worker EXCEPT ![w] =
                          [pc |-> IF IsChunk(j) THEN "run" ELSE "count", job |-> j]]
          /\ runs' = runs
    BY <1>2 DEF Claim
  <2> DEFINE new == [status |-> "processing", owner |-> w]
  <2>2. new \in Job /\ (new.owner # Nobody <=> new.status = "processing")
    BY ConstantTypes DEF Job, Status
  <2>3. worker' \in [Worker -> [pc: WorkerPC, job: JobId \cup {Nobody}]]
    BY <1>0, <2>1 DEF WorkerPC
  <2>4. /\ jobs' \in [JobId -> Job]
        /\ \A i \in JobId : jobs'[i].owner # Nobody <=> jobs'[i].status = "processing"
    BY <1>0, <2>1, <2>2, JobsType
  <2> QED BY <1>0, <1>1, <2>1, <2>3, <2>4
<1>3. CASE CountJobs(w) \/ Size(w) \/ Run(w)
  <2>1. PICK place \in WorkerPC : Proceed(w, place)
    BY <1>3 DEF CountJobs, Size, Run, WorkerPC
  <2>2. worker' \in [Worker -> [pc: WorkerPC, job: JobId \cup {Nobody}]]
    BY <1>0, <2>1 DEF Proceed
  <2>3. jobs' = jobs /\ runs' \in [Line -> Nat]
    BY <1>0, <1>3 DEF CountJobs, Size, Run
  <2> QED BY <1>0, <1>1, <2>2, <2>3 DEF TypeOK
<1>4. CASE Finish(w)
  <2> DEFINE j == worker[w].job
             new == IF jobs[j].owner = w THEN [status |-> worker[w].pc, owner |-> Nobody]
                                         ELSE jobs[j]
  <2>1. /\ worker[w].pc \in {"complete", "failed"} /\ runs' = runs
        /\ jobs' = [jobs EXCEPT ![j] = new]
        /\ worker' = [worker EXCEPT ![w] = [pc |-> "idle", job |-> Nobody]]
    BY <1>4 DEF Finish
  <2>2. worker' \in [Worker -> [pc: WorkerPC, job: JobId \cup {Nobody}]]
    BY <1>0, <2>1 DEF WorkerPC
  <2>3. /\ jobs' \in [JobId -> Job]
        /\ \A i \in JobId : jobs'[i].owner # Nobody <=> jobs'[i].status = "processing"
    <3>1. CASE j \notin JobId
      <4>1. jobs' = jobs
        BY <1>0, <2>1, <3>1
      <4> QED BY <1>0, <4>1 DEF TypeOK
    <3>2. CASE j \in JobId
      <4>1. new \in Job /\ (new.owner # Nobody <=> new.status = "processing")
        BY <1>0, <2>1, <3>2 DEF Job, Status, TypeOK
      <4> HIDE DEF new, j
      <4> QED BY <1>0, <2>1, <4>1, JobsType
    <3> QED BY <3>1, <3>2
  <2> QED BY <1>0, <1>1, <2>1, <2>2, <2>3
<1> QED BY <1>2, <1>3, <1>4 DEF Work

LEMMA NextTypes == TInv /\ [Next]_vars => TInv'
<1> SUFFICES ASSUME TInv, [Next]_vars PROVE TInv'
  OBVIOUS
<1>1. CASE Age
  <2>1. PICK f \in DOMAIN files : files' = [files EXCEPT ![f].fresh = FALSE]
    BY <1>1 DEF Age
  <2>2. files \in Seq(FileRec) /\ Len(files) \in Nat
    BY DEF TInv, TypeOK, FileRec
  <2>3. files' \in Seq([fresh: BOOLEAN, uploaded: BOOLEAN]) /\ Len(files') = Len(files)
    <3> DEFINE new == [files[f] EXCEPT !.fresh = FALSE]
    <3>1. new \in FileRec
      <4>1. files[f] \in FileRec
        BY <2>1, <2>2
      <4> QED BY <4>1 DEF FileRec
    <3>2. files' = [files EXCEPT ![f] = new]
      BY <2>1
    <3> HIDE DEF new
    <3> QED BY <2>2, <3>1, <3>2 DEF FileRec
  <2>4. UNCHANGED <<length, jobs, delivery, worker, runs, since>>
    BY <1>1 DEF Age
  <2> QED BY <2>3, <2>4 DEF TInv, TypeOK, Unmade
<1>2. CASE UNCHANGED vars
  BY <1>2 DEF vars, TInv, TypeOK, Unmade
<1> QED BY <1>1, <1>2, DeliveryTypes, WorkTypes DEF Next

(***************************************************************************)
(* However deliveries of the event and workers interleave                  *)
(* (CreateBatchJobsFromBlobUri, RunJobAsync), files, jobs, deliveries and  *)
(* workers have their types: there are no more batch files than            *)
(* deliveries, and a job has a worker exactly when it is processing.       *)
(***************************************************************************)
THEOREM TypeCorrect == Spec => []TypeOK
<1>1. TInv => TypeOK
  BY DEF TInv
<1> QED BY <1>1, StartTypes, NextTypes, PTL DEF Spec

(***************************************************************************)
(* Whatever the lengths of the blob and the sizes aimed at,                *)
(* CreateChunksWithCompleteRecords puts each line of a file in exactly one *)
(* chunk, and no chunk is empty or goes beyond the file.                   *)
(***************************************************************************)
THEOREM ChunksCorrect == Spec => []ChunksPartition
<1>1. TypeOK => ChunksPartition
  <2> SUFFICES ASSUME TypeOK,
                      NEW n \in 0 .. 3 * length, NEW size \in 1 .. 4,
                      NEW c, c = Chunks(n, size)
               PROVE  /\ \A l \in 1 .. n : Cardinality({k \in DOMAIN c : l \in c[k]}) = 1
                      /\ \A k \in DOMAIN c : c[k] # {} /\ c[k] \subseteq 1 .. n
    BY DEF ChunksPartition
  <2>1. n \in Nat /\ size \in Nat \ {0}
    BY ConstantTypes DEF TypeOK
  <2>2. Divides(c, n, size)
    BY <2>1, ChunksDivide
  <2>3. \A l \in 1 .. n : Cardinality({k \in DOMAIN c : l \in c[k]}) = 1
    BY <2>1, ChunkOfLine
  <2> QED BY <2>2, <2>3 DEF Divides
<1> QED BY <1>1, TypeCorrect, PTL

-----------------------------------------------------------------------------
(* What deliveries, workers and jobs know.                                 *)

Kept(j) == jobs[j].status # "none"

Uploaded(f) == f \in DOMAIN files /\ files[f].uploaded

DeliveryOK(d) ==
  /\ delivery[d].pc \in {"jobs", "mend", "parent", "upload", "split", "store", "done"} =>
       delivery[d].file \in DOMAIN files
  /\ delivery[d].pc \in {"upload", "split", "store", "done"} => Kept(Parent(delivery[d].file))
  /\ delivery[d].pc = "store" => /\ Long
                                 /\ Uploaded(delivery[d].file)
                                 /\ delivery[d].chunk \in DOMAIN Split

\* What it says that a job is complete: the parent of a long file is so as soon
\* as the file is there, any other job when its lines were processed.
Worked(j) ==
  Uploaded(j[1]) /\ (IsChunk(j) \/ ~ Long => \A l \in LinesOf(j) : runs[l] > 0)

WorkerOK(w) ==
  /\ worker[w].pc # "idle" => worker[w].job \in JobId /\ Kept(worker[w].job)
  /\ worker[w].pc \in {"count", "size"} => ~ IsChunk(worker[w].job)
  /\ worker[w].pc = "complete" => Worked(worker[w].job)

JobOK(j) ==
  /\ Kept(j) => j[1] \in DOMAIN files
  /\ Kept(j) /\ IsChunk(j) => Uploaded(j[1]) /\ Long /\ j[2] \in DOMAIN Split
  /\ jobs[j].status = "complete" => Worked(j)
  /\ jobs[j].status = "processing" => /\ jobs[j].owner \in Worker
                                      /\ worker[jobs[j].owner].pc # "idle"
                                      /\ worker[jobs[j].owner].job = j

LInv ==
  /\ TInv
  /\ \A d \in Delivery : DeliveryOK(d)
  /\ \A w \in Worker : WorkerOK(w)
  /\ \A j \in JobId : JobOK(j)

LEMMA JobIds ==
  /\ \A f \in File : Parent(f) \in JobId /\ ~ IsChunk(Parent(f)) /\ Parent(f)[1] = f
  /\ \A f \in File, k \in ChunkNo, d \in Delivery :
       /\ <<f, k, d>> \in JobId /\ IsChunk(<<f, k, d>>)
       /\ <<f, k, d>>[1] = f /\ <<f, k, d>>[2] = k /\ <<f, k, d>>[3] = d
  /\ \A j \in JobId : /\ j[1] \in File
                      /\ ~ IsChunk(j) <=> j = Parent(j[1])
                      /\ IsChunk(j) => /\ j[2] \in ChunkNo /\ j[3] \in Delivery
                                       /\ j = <<j[1], j[2], j[3]>>
<1>1. 0 \notin ChunkNo
  BY ConstantTypes DEF ChunkNo
<1> QED BY <1>1 DEF JobId, Parent, IsChunk

\* What is there stays there.
Grown ==
  /\ length' = length
  /\ \A f \in DOMAIN files : f \in DOMAIN files'
  /\ \A f \in DOMAIN files : files[f].uploaded => files'[f].uploaded
  /\ \A j \in JobId : jobs[j].status # "none" => jobs'[j].status # "none"
  /\ \A l \in Line : runs[l] > 0 => runs'[l] > 0

LEMMA DeliveryGrows ==
  ASSUME TInv, NEW d \in Delivery, Find(d) \/ Import(d) \/ Cut(d)
  PROVE  Grown
<1>0. length \in Lengths /\ files \in Seq(FileRec) /\ jobs \in [JobId -> Job] /\ runs \in [Line -> Nat]
  BY DEF TInv, TypeOK, FileRec
<1>1. UNCHANGED <<length, worker, runs>>
  BY DEF Find, Import, Cut, FindParent, MissParent, CreateFile, CreateParent, Upload, SplitFile, StoreChunk
<1>2. \/ files' = files
      \/ files' = Append(files, [fresh |-> TRUE, uploaded |-> FALSE])
      \/ files' = [files EXCEPT ![delivery[d].file].uploaded = TRUE]
  BY DEF Find, Import, Cut, FindParent, MissParent, CreateFile, CreateParent, Upload, SplitFile, StoreChunk
<1>3. \/ jobs' = jobs
      \/ \E j : jobs' = [jobs EXCEPT ![j] = Pending]
  BY DEF Find, Import, Cut, FindParent, MissParent, CreateFile, CreateParent, Upload, SplitFile, StoreChunk
<1>4. \A j \in JobId : jobs[j].status # "none" => jobs'[j].status # "none"
  BY <1>0, <1>3 DEF Pending
<1>5. /\ \A f \in DOMAIN files : f \in DOMAIN files'
      /\ \A f \in DOMAIN files : files[f].uploaded => files'[f].uploaded
  <2>1. CASE files' = files
    BY <2>1
  <2>2. CASE files' = Append(files, [fresh |-> TRUE, uploaded |-> FALSE])
    <3> DEFINE new == [fresh |-> TRUE, uploaded |-> FALSE]
    <3>1. new \in FileRec /\ files' = Append(files, new)
      BY <2>2 DEF FileRec
    <3> HIDE DEF new
    <3> QED BY <1>0, <3>1
  <2>3. CASE files' = [files EXCEPT ![delivery[d].file].uploaded = TRUE]
    BY <1>0, <2>3 DEF FileRec
  <2> QED BY <1>2, <2>1, <2>2, <2>3
<1> QED BY <1>1, <1>4, <1>5 DEF Grown

LEMMA WorkGrows ==
  ASSUME TInv, NEW w \in Worker, Work(w)
  PROVE  Grown
<1>0. jobs \in [JobId -> Job] /\ runs \in [Line -> Nat]
  BY DEF TInv, TypeOK
<1>1. UNCHANGED <<length, files>>
  BY DEF Work, Claim, CountJobs, Size, Run, Finish
<1>2. \A j \in JobId : jobs[j].status # "none" => jobs'[j].status # "none"
  BY <1>0 DEF Work, Claim, CountJobs, Size, Run, Finish
<1>3. \A l \in Line : runs[l] > 0 => runs'[l] > 0
  <2>1. \/ runs' = runs
        \/ runs' = [l \in Line |-> IF l \in LinesOf(worker[w].job) THEN runs[l] + 1 ELSE runs[l]]
    BY DEF Work, Claim, CountJobs, Size, Run, Finish
  <2> QED BY <1>0, <2>1
<1> QED BY <1>1, <1>2, <1>3 DEF Grown

\* What was known is still known.
LEMMA GrownFacts ==
  ASSUME Grown
  PROVE  /\ Split' = Split /\ (Long <=> Long')
         /\ \A j : LinesOf(j)' = LinesOf(j)
         /\ \A f : Uploaded(f) => Uploaded(f)'
         /\ \A j \in JobId : Kept(j) => Kept(j)'
         /\ \A j \in JobId : Worked(j) /\ LinesOf(j) \subseteq Line => Worked(j)'
<1>1. Split' = Split /\ (Long <=> Long') /\ length' = length
  BY DEF Grown, Split, Long
<1>2. \A j : LinesOf(j)' = LinesOf(j)
  BY <1>1 DEF LinesOf
<1>3. \A f : Uploaded(f) => Uploaded(f)'
  BY DEF Grown, Uploaded
<1>4. \A j \in JobId : Kept(j) => Kept(j)'
  BY DEF Grown, Kept
<1>5. \A j \in JobId : Worked(j) /\ LinesOf(j) \subseteq Line => Worked(j)'
  BY <1>1, <1>2, <1>3 DEF Worked, Grown
<1> QED BY <1>1, <1>2, <1>3, <1>4, <1>5

\* The lines of a stored job are lines of the file.
LEMMA JobLines ==
  ASSUME TInv, NEW j \in JobId, JobOK(j), Kept(j)
  PROVE  LinesOf(j) \subseteq 1 .. length /\ 1 .. length \subseteq Line
<1>1. length \in Lengths /\ 1 .. length \subseteq Line
  BY ConstantTypes DEF TInv, TypeOK
<1>2. CASE IsChunk(j)
  <2>1. j[2] \in 1 .. Len(Split)
    BY <1>1, <1>2, SplitFacts DEF JobOK
  <2>2. Split[j[2]] \subseteq 1 .. length
    BY <1>1, <2>1, SplitFacts
  <2> QED BY <1>1, <1>2, <2>2 DEF LinesOf
<1>3. CASE ~ IsChunk(j)
  BY <1>1, <1>3 DEF LinesOf
<1> QED BY <1>2, <1>3

LEMMA StartLocal == Init => LInv
<1> SUFFICES ASSUME Init PROVE LInv
  OBVIOUS
<1>1. TInv
  BY StartTypes
<1>2. \A j \in JobId : jobs[j].status = "none"
  BY DEF Init, NoJob
<1>3. \A d \in Delivery : delivery[d].pc = "new"
  BY DEF Init
<1>4. \A w \in Worker : worker[w].pc = "idle"
  BY DEF Init
<1> QED BY <1>1, <1>2, <1>3, <1>4 DEF LInv, DeliveryOK, WorkerOK, JobOK, Kept

\* Who does not take the step keeps what it knows.
LEMMA OthersKeep ==
  ASSUME LInv, Grown
  PROVE  /\ \A d \in Delivery : delivery'[d] = delivery[d] => DeliveryOK(d)'
         /\ \A w \in Worker : worker'[w] = worker[w] => WorkerOK(w)'
         /\ \A j \in JobId : jobs'[j] = jobs[j] /\ worker' = worker => JobOK(j)'
<1>1. /\ Split' = Split /\ (Long <=> Long')
      /\ \A f : Uploaded(f) => Uploaded(f)'
      /\ \A j \in JobId : Kept(j) => Kept(j)'
      /\ \A f \in DOMAIN files : f \in DOMAIN files'
  BY GrownFacts DEF Grown
<1>2. \A j \in JobId : Worked(j) /\ Kept(j) => Worked(j)'
  <2> SUFFICES ASSUME NEW j \in JobId, Worked(j), Kept(j) PROVE Worked(j)'
    OBVIOUS
  <2>1. LinesOf(j) \subseteq Line
    BY JobLines DEF LInv
  <2> QED BY <2>1, GrownFacts
<1>3. ASSUME NEW d \in Delivery, delivery'[d] = delivery[d] PROVE DeliveryOK(d)'
  <2>1. DeliveryOK(d)
    BY DEF LInv
  <2>2. PICK f : f = delivery[d].file
    OBVIOUS
  <2>3. /\ delivery[d].pc \in {"jobs", "mend", "parent", "upload", "split", "store", "done"} =>
             f \in DOMAIN files'
        /\ delivery[d].pc = "store" => Long' /\ Uploaded(f)' /\ delivery[d].chunk \in DOMAIN Split'
    BY <1>1, <2>1, <2>2 DEF DeliveryOK
  <2>4. delivery[d].pc \in {"upload", "split", "store", "done"} => Kept(Parent(f))'
    <3> SUFFICES ASSUME delivery[d].pc \in {"upload", "split", "store", "done"}
                 PROVE  Kept(Parent(f))'
      OBVIOUS
    <3>1. f \in DOMAIN files /\ Kept(Parent(f))
      BY <2>1, <2>2 DEF DeliveryOK
    <3>2. f \in File
      BY <3>1, ConstantTypes DEF LInv, TInv, TypeOK, File
    <3> QED BY <1>1, <3>1, <3>2, JobIds
  <2> QED BY <1>3, <2>2, <2>3, <2>4 DEF DeliveryOK
<1>4. ASSUME NEW w \in Worker, worker'[w] = worker[w] PROVE WorkerOK(w)'
  <2>1. WorkerOK(w)
    BY DEF LInv
  <2>2. PICK j : j = worker[w].job
    OBVIOUS
  <2>3. worker[w].pc = "complete" => Worked(j)'
    BY <1>2, <2>1, <2>2 DEF WorkerOK
  <2>4. worker[w].pc # "idle" => j \in JobId /\ Kept(j)'
    BY <1>1, <2>1, <2>2 DEF WorkerOK
  <2> QED BY <1>4, <2>1, <2>2, <2>3, <2>4 DEF WorkerOK
<1>5. ASSUME NEW j \in JobId, jobs'[j] = jobs[j], worker' = worker PROVE JobOK(j)'
  <2>1. JobOK(j) /\ (Kept(j)' <=> Kept(j))
    BY <1>5 DEF LInv, Kept
  <2>2. jobs'[j].status = "complete" => Worked(j)'
    BY <1>2, <1>5, <2>1 DEF JobOK, Kept
  <2>3. Kept(j)' => j[1] \in DOMAIN files'
    BY <1>1, <2>1 DEF JobOK
  <2>4. Kept(j)' /\ IsChunk(j) => Uploaded(j[1])' /\ Long' /\ j[2] \in DOMAIN Split'
    BY <1>1, <2>1 DEF JobOK
  <2>5. jobs'[j].status = "processing" => /\ jobs'[j].owner \in Worker
                                      /\ worker'[jobs'[j].owner].pc # "idle"
                                      /\ worker'[jobs'[j].owner].job = j
    BY <1>5, <2>1 DEF JobOK
  <2> QED BY <2>2, <2>3, <2>4, <2>5 DEF JobOK
<1> QED BY <1>3, <1>4, <1>5

LEMMA FileTypes ==
  ASSUME TInv
  PROVE  /\ Len(files) \in Nat /\ files \in Seq(FileRec) /\ DOMAIN files = 1 .. Len(files)
         /\ DOMAIN files \subseteq File
         /\ delivery \in [Delivery -> DeliveryRec] /\ jobs \in [JobId -> Job]
         /\ worker \in [Worker -> [pc: WorkerPC, job: JobId \cup {Nobody}]]
         /\ runs \in [Line -> Nat] /\ length \in Lengths
BY ConstantTypes DEF TInv, TypeOK, File, FileRec, DeliveryRec, WorkerPC

\* A job that is stored anew is pending.
LEMMA NewJob ==
  ASSUME LInv, Grown, NEW j \in JobId, jobs' = [jobs EXCEPT ![j] = Pending], worker' = worker,
         j[1] \in DOMAIN files,
         IsChunk(j) => Uploaded(j[1]) /\ Long /\ j[2] \in DOMAIN Split
  PROVE  (\A i \in JobId : JobOK(i)') /\ Kept(j)'
<1>1. jobs \in [JobId -> Job]
  BY FileTypes DEF LInv
<1>2. ASSUME NEW i \in JobId, i # j PROVE JobOK(i)'
  BY <1>1, <1>2, OthersKeep
<1>3. jobs'[j].status = "pending"
  BY <1>1 DEF Pending
<1>4. j[1] \in DOMAIN files' /\ (IsChunk(j) => Uploaded(j[1])' /\ Long' /\ j[2] \in DOMAIN Split')
  BY GrownFacts DEF Grown
<1>5. JobOK(j)'
  BY <1>3, <1>4 DEF JobOK
<1> QED BY <1>2, <1>3, <1>5 DEF Kept

LEMMA DeliveryLocal ==
  ASSUME LInv, NEW d \in Delivery, Find(d) \/ Import(d) \/ Cut(d)
  PROVE  LInv'
<1>0. /\ TInv /\ TInv' /\ Grown /\ DeliveryOK(d) /\ worker' = worker
      /\ \A e \in Delivery \ {d} : delivery'[e] = delivery[e]
  <2>1. TInv /\ TInv' /\ Grown /\ DeliveryOK(d)
    BY DeliveryTypes, DeliveryGrows DEF LInv
  <2>2. /\ worker' = worker
        /\ \A e \in Delivery \ {d} : delivery'[e] = delivery[e]
    BY <2>1, FileTypes
    DEF Find, Import, Cut, Goto, FindParent, MissParent, CreateFile, CreateParent, Upload, SplitFile, StoreChunk
  <2> QED BY <2>1, <2>2
<1>1. /\ Len(files) \in Nat /\ files \in Seq(FileRec) /\ DOMAIN files = 1 .. Len(files)
      /\ DOMAIN files \subseteq File
      /\ delivery \in [Delivery -> DeliveryRec] /\ jobs \in [JobId -> Job]
  BY <1>0, FileTypes
<1>2. /\ \A w \in Worker : WorkerOK(w)'
      /\ \A e \in Delivery \ {d} : DeliveryOK(e)'
      /\ jobs' = jobs => \A j \in JobId : JobOK(j)'
  BY <1>0, OthersKeep
<1>3. /\ Split' = Split /\ (Long <=> Long')
      /\ \A f : Uploaded(f) => Uploaded(f)'
      /\ \A j \in JobId : Kept(j) => Kept(j)'
      /\ \A f \in DOMAIN files : f \in DOMAIN files'
  BY <1>0, GrownFacts DEF Grown
<1>4. ASSUME DeliveryOK(d)', \A j \in JobId : JobOK(j)' PROVE LInv'
  BY <1>0, <1>2, <1>4 DEF LInv
<1>5. CASE Find(d)
  <2>1. jobs' = jobs /\ files' = files
    BY <1>5 DEF Find
  <2>2. DeliveryOK(d)'
    <3>1. CASE Goto(d, "create")
      <4>1. delivery'[d].pc = "create"
        BY <1>1, <3>1 DEF Goto, DeliveryRec
      <4> QED BY <4>1 DEF DeliveryOK
    <3>2. CASE /\ delivery' = [delivery EXCEPT ![d].pc = "jobs", ![d].file = Len(files)]
               /\ Len(files) > 0
      <4>1. delivery'[d].pc = "jobs" /\ delivery'[d].file = Len(files) /\ Len(files) \in DOMAIN files
        BY <1>1, <3>2 DEF DeliveryRec
      <4> QED BY <2>1, <4>1 DEF DeliveryOK
    <3> QED BY <1>5, <3>1, <3>2 DEF Find
  <2> QED BY <1>2, <1>4, <2>1, <2>2
<1>6. CASE MissParent(d) \/ Cut(d)
  <2>1. jobs' = jobs /\ files' = files
    BY <1>6 DEF MissParent, Cut
  <2>2. DeliveryOK(d)'
    <3>1. CASE Goto(d, "cut")
      <4>1. delivery'[d].pc = "cut"
        BY <1>1, <3>1 DEF Goto, DeliveryRec
      <4> QED BY <4>1 DEF DeliveryOK
    <3>2. CASE Goto(d, "mend") /\ At(d, "jobs")
      <4>1. delivery'[d].pc = "mend" /\ delivery'[d].file = delivery[d].file
        BY <1>1, <3>2 DEF Goto, DeliveryRec
      <4>2. delivery[d].file \in DOMAIN files
        BY <1>0, <3>2 DEF At, DeliveryOK
      <4> QED BY <2>1, <4>1, <4>2 DEF DeliveryOK
    <3> QED BY <1>6, <3>1, <3>2 DEF MissParent, Cut
  <2> QED BY <1>2, <1>4, <2>1, <2>2
<1>7. CASE FindParent(d)
  <2>1. jobs' = jobs /\ files' = files /\ At(d, "jobs")
        /\ jobs[Parent(delivery[d].file)] # NoJob /\ Goto(d, "split")
    BY <1>7 DEF FindParent
  <2>2. delivery'[d].pc = "split" /\ delivery'[d].file = delivery[d].file
    BY <1>1, <2>1 DEF Goto, DeliveryRec
  <2>3. delivery[d].file \in DOMAIN files
    BY <1>0, <2>1 DEF At, DeliveryOK
  <2>4. Kept(Parent(delivery[d].file))
    <3> DEFINE p == Parent(delivery[d].file)
    <3>1. p \in JobId
      BY <1>1, <2>3, JobIds
    <3>2. TypeOK /\ jobs[p] # NoJob /\ jobs[p] \in [status: Status, owner: Worker \cup {Nobody}]
      BY <1>0, <1>1, <2>1, <3>1 DEF TInv, Job
    <3>3. jobs[p].status = "none" => jobs[p].owner = Nobody
      BY <3>1, <3>2 DEF TypeOK
    <3> QED BY <3>2, <3>3 DEF Kept, NoJob
  <2>5. DeliveryOK(d)'
    BY <2>1, <2>2, <2>3, <2>4 DEF DeliveryOK, Kept
  <2> QED BY <1>2, <1>4, <2>1, <2>5
<1>8. CASE CreateFile(d)
  <2>1. /\ delivery' = [delivery EXCEPT ![d].pc = "parent", ![d].file = Len(files')] /\ jobs' = jobs
        /\ files' = Append(files, [fresh |-> TRUE, uploaded |-> FALSE])
    BY <1>8 DEF CreateFile
  <2>2. delivery'[d].pc = "parent" /\ delivery'[d].file = Len(files')
    BY <1>1, <2>1 DEF DeliveryRec
  <2>3. Len(files') \in DOMAIN files'
    <3> DEFINE new == [fresh |-> TRUE, uploaded |-> FALSE]
    <3>1. new \in FileRec /\ files' = Append(files, new)
      BY <2>1 DEF FileRec
    <3> HIDE DEF new
    <3> QED BY <1>1, <3>1
  <2>4. DeliveryOK(d)'
    BY <2>2, <2>3 DEF DeliveryOK
  <2> QED BY <1>2, <1>4, <2>1, <2>4
<1>9. CASE CreateParent(d)
  <2>0. PICK f, p : f = delivery[d].file /\ p = Parent(f)
    OBVIOUS
  <2>1. /\ delivery[d].pc \in {"parent", "mend"} /\ jobs' = [jobs EXCEPT ![p] = Pending]
        /\ files' = files
    BY <1>9, <2>0 DEF CreateParent
  <2>2. PICK place \in {"upload", "split"} : Goto(d, place)
    BY <1>9 DEF CreateParent
  <2>3. f \in DOMAIN files /\ p \in JobId /\ p[1] = f /\ ~ IsChunk(p)
    <3>1. f \in DOMAIN files
      BY <1>0, <2>0, <2>1 DEF DeliveryOK
    <3> QED BY <1>1, <2>0, <3>1, JobIds
  <2>4. delivery'[d].pc = place /\ delivery'[d].file = f
    BY <1>1, <2>0, <2>2 DEF Goto, DeliveryRec
  <2>5. (\A i \in JobId : JobOK(i)') /\ Kept(p)'
    BY <1>0, <2>1, <2>3, NewJob
  <2>6. DeliveryOK(d)'
    <3>1. Kept(Parent(delivery[d].file))'
      BY <2>0, <2>4, <2>5
    <3>2. delivery'[d].file \in DOMAIN files' /\ delivery'[d].pc \in {"upload", "split"}
      BY <2>1, <2>2, <2>3, <2>4
    <3> QED BY <3>1, <3>2 DEF DeliveryOK
  <2> QED BY <1>4, <2>5, <2>6
<1>10. CASE Upload(d)
  <2>1. /\ Goto(d, "split") /\ jobs' = jobs /\ delivery[d].pc = "upload"
    BY <1>10 DEF Upload, At
  <2>2. delivery'[d].pc = "split" /\ delivery'[d].file = delivery[d].file
    BY <1>1, <2>1 DEF Goto, DeliveryRec
  <2>3. delivery[d].file \in DOMAIN files /\ Kept(Parent(delivery[d].file))
    BY <1>0, <2>1 DEF DeliveryOK
  <2>4. Kept(Parent(delivery[d].file))'
    BY <2>1, <2>2, <2>3 DEF Kept
  <2>5. DeliveryOK(d)'
    BY <1>3, <2>2, <2>3, <2>4 DEF DeliveryOK
  <2> QED BY <1>2, <1>4, <2>1, <2>5
<1>11. CASE SplitFile(d)
  <2>1. /\ jobs' = jobs /\ files' = files /\ delivery[d].pc = "split"
        /\ \/ Goto(d, "done")
           \/ /\ delivery' = [delivery EXCEPT ![d].pc = "store", ![d].chunk = 1]
              /\ files[delivery[d].file].uploaded /\ Long
    BY <1>11 DEF SplitFile, At
  <2>2. delivery[d].file \in DOMAIN files /\ Kept(Parent(delivery[d].file))
    BY <1>0, <2>1 DEF DeliveryOK
  <2>3. delivery'[d].file = delivery[d].file
    BY <1>1, <2>1 DEF Goto, DeliveryRec
  <2>4. Kept(Parent(delivery[d].file))' /\ delivery'[d].file \in DOMAIN files'
    BY <2>1, <2>2, <2>3 DEF Kept
  <2>5. DeliveryOK(d)'
    <3>1. CASE Goto(d, "done")
      <4>1. delivery'[d].pc = "done"
        BY <1>1, <3>1 DEF Goto, DeliveryRec
      <4> QED BY <2>4, <4>1 DEF DeliveryOK
    <3>2. CASE /\ delivery' = [delivery EXCEPT ![d].pc = "store", ![d].chunk = 1]
               /\ files[delivery[d].file].uploaded /\ Long
      <4>1. delivery'[d].pc = "store" /\ delivery'[d].chunk = 1
        BY <1>1, <3>2 DEF DeliveryRec
      <4>2. 1 \in DOMAIN Split
        BY <1>0, <3>2, SplitFacts DEF Long, TInv, TypeOK
      <4>3. Uploaded(delivery[d].file)'
        BY <2>1, <2>2, <2>3, <3>2 DEF Uploaded
      <4> QED BY <1>3, <2>4, <3>2, <4>1, <4>2, <4>3 DEF DeliveryOK
    <3> QED BY <2>1, <3>1, <3>2
  <2> QED BY <1>2, <1>4, <2>1, <2>5
<1>12. CASE StoreChunk(d)
  <2>0. PICK f, k, j : f = delivery[d].file /\ k = delivery[d].chunk /\ j = <<f, k, d>>
    OBVIOUS
  <2>1. /\ delivery[d].pc = "store" /\ jobs' = [jobs EXCEPT ![j] = Pending] /\ files' = files
        /\ \/ Goto(d, "done")
           \/ delivery' = [delivery EXCEPT ![d].chunk = @ + 1] /\ k # Len(Split)
    BY <1>12, <2>0 DEF StoreChunk, At
  <2>2. /\ f \in DOMAIN files /\ f \in File /\ Long /\ Uploaded(f) /\ k \in DOMAIN Split
        /\ Parent(f) \in JobId /\ Kept(Parent(f))
    BY <1>0, <1>1, <2>0, <2>1, JobIds DEF DeliveryOK
  <2>3. k \in 1 .. Len(Split) /\ Len(Split) \in Nat /\ DOMAIN Split = 1 .. Len(Split) /\ k \in ChunkNo
    BY <1>0, <2>2, SplitFacts DEF TInv, TypeOK
  <2>4. j \in JobId /\ IsChunk(j) /\ j[1] = f /\ j[2] = k
    BY <2>0, <2>2, <2>3, JobIds
  <2>5. \A i \in JobId : JobOK(i)'
    BY <1>0, <2>1, <2>2, <2>4, NewJob
  <2>6. delivery'[d].file = f
    BY <1>1, <2>0, <2>1 DEF Goto, DeliveryRec
  <2>7. Kept(Parent(delivery[d].file))' /\ delivery'[d].file \in DOMAIN files'
    <3>1. Kept(Parent(f))'
      BY <1>3, <2>2
    <3> QED BY <2>1, <2>2, <2>6, <3>1
  <2>8. DeliveryOK(d)'
    <3>1. CASE Goto(d, "done")
      <4>1. delivery'[d].pc = "done"
        BY <1>1, <3>1 DEF Goto, DeliveryRec
      <4> QED BY <2>7, <4>1 DEF DeliveryOK
    <3>2. CASE delivery' = [delivery EXCEPT ![d].chunk = @ + 1] /\ k # Len(Split)
      <4>1. delivery'[d].pc = "store" /\ delivery'[d].chunk = k + 1
        BY <1>1, <2>0, <2>1, <3>2 DEF DeliveryRec
      <4>2. k + 1 \in DOMAIN Split
        <5> DEFINE m == Len(Split)
        <5>1. k \in 1 .. m /\ m \in Nat /\ k # m
          BY <2>3, <3>2
        <5> HIDE DEF m
        <5>2. k + 1 \in 1 .. m
          BY <5>1
        <5> QED BY <2>3, <5>2 DEF m
      <4>3. Uploaded(delivery[d].file)'
        <5>1. Uploaded(f)'
          BY <1>3, <2>2
        <5> QED BY <2>6, <5>1
      <4> QED BY <1>3, <2>2, <2>7, <4>1, <4>2, <4>3 DEF DeliveryOK
    <3> QED BY <2>1, <3>1, <3>2
  <2> QED BY <1>4, <2>5, <2>8
<1> QED BY <1>5, <1>6, <1>7, <1>8, <1>9, <1>10, <1>11, <1>12 DEF Import

\* A parent is complete when it has chunks: the file was there, and is long.
LEMMA ManyStored ==
  ASSUME LInv, NEW f \in DOMAIN files, Cardinality(Stored(f)) > 1
  PROVE  Long /\ Uploaded(f)
<1>1. PICK j \in Stored(f) : j # Parent(f)
  <2> SUFFICES ASSUME \A j \in Stored(f) : j = Parent(f) PROVE FALSE
    OBVIOUS
  <2>1. Stored(f) \subseteq {Parent(f)}
    OBVIOUS
  <2>2. IsFiniteSet({Parent(f)}) /\ Cardinality({Parent(f)}) = 1
    BY FS_Singleton
  <2>3. Cardinality(Stored(f)) <= 1
    BY <2>1, <2>2, FS_Subset
  <2>4. Cardinality(Stored(f)) \in Nat
    BY <2>1, <2>2, FS_Subset, FS_CardinalityType
  <2> QED BY <2>3, <2>4
<1>2. j \in JobId /\ j[1] = f /\ Kept(j)
  BY <1>1 DEF Stored, Kept
<1>3. IsChunk(j)
  BY <1>1, <1>2, JobIds
<1> QED BY <1>2, <1>3 DEF LInv, JobOK

LEMMA WorkLocal ==
  ASSUME LInv, NEW w \in Worker, Work(w)
  PROVE  LInv'
<1>0. /\ TInv /\ TInv' /\ Grown /\ WorkerOK(w)
      /\ \A v \in Worker \ {w} : worker'[v] = worker[v]
      /\ UNCHANGED <<length, files, delivery>>
  <2>1. TInv /\ TInv' /\ Grown /\ WorkerOK(w)
    BY WorkTypes, WorkGrows DEF LInv
  <2>2. \A v \in Worker \ {w} : worker'[v] = worker[v]
    BY <2>1, FileTypes DEF Work, Claim, CountJobs, Size, Run, Finish, Proceed
  <2>3. UNCHANGED <<length, files, delivery>>
    BY DEF Work, Claim, CountJobs, Size, Run, Finish
  <2> QED BY <2>1, <2>2, <2>3
<1>1. /\ DOMAIN files \subseteq File /\ jobs \in [JobId -> Job] /\ length \in Lengths
      /\ worker \in [Worker -> [pc: WorkerPC, job: JobId \cup {Nobody}]]
      /\ runs \in [Line -> Nat]
  BY <1>0, FileTypes
<1>2. /\ \A v \in Worker \ {w} : WorkerOK(v)'
      /\ \A d \in Delivery : DeliveryOK(d)'
  BY <1>0, OthersKeep
<1>3. /\ Split' = Split /\ (Long <=> Long')
      /\ \A f : Uploaded(f)' <=> Uploaded(f)
      /\ \A j \in JobId : Kept(j) => Kept(j)'
      /\ \A j : LinesOf(j)' = LinesOf(j)
  BY <1>0, GrownFacts DEF Uploaded
<1>4. \A j \in JobId : Worked(j) /\ Kept(j) => Worked(j)'
  <2> SUFFICES ASSUME NEW j \in JobId, Worked(j), Kept(j) PROVE Worked(j)'
    OBVIOUS
  <2>1. LinesOf(j) \subseteq Line
    BY <1>0, JobLines DEF LInv
  <2> QED BY <1>0, <2>1, GrownFacts
<1>5. ASSUME WorkerOK(w)', \A j \in JobId : JobOK(j)' PROVE LInv'
  BY <1>0, <1>2, <1>5 DEF LInv
<1>6. \* A job keeps what it had, up to its status and its worker.
      ASSUME NEW j \in JobId, JobOK(j), Kept(j), jobs'[j].status \notin {"none", "complete"},
             jobs'[j].status = "processing" =>
               /\ jobs'[j].owner \in Worker
               /\ worker'[jobs'[j].owner].pc # "idle"
               /\ worker'[jobs'[j].owner].job = j
      PROVE  JobOK(j)'
  BY <1>0, <1>3, <1>6 DEF JobOK
<1>7. CASE Claim(w)
  <2>1. PICK j \in JobId :
          /\ worker[w].pc = "idle" /\ jobs[j].status = "pending"
          /\ jobs' = [jobs EXCEPT ![j] = [status |-> "processing", owner |-> w]]
          /\ worker' = [worker EXCEPT ![w] =
                          [pc |-> IF IsChunk(j) THEN "run" ELSE "count", job |-> j]]
    BY <1>7 DEF Claim
  <2>2. /\ jobs'[j].status = "processing" /\ jobs'[j].owner = w
        /\ worker'[w].pc = (IF IsChunk(j) THEN "run" ELSE "count") /\ worker'[w].job = j
    BY <1>1, <2>1
  <2>3. Kept(j) /\ Kept(j)'
    BY <1>3, <2>1 DEF Kept
  <2>4. WorkerOK(w)'
    BY <2>2, <2>3 DEF WorkerOK
  <2>5. ASSUME NEW i \in JobId PROVE JobOK(i)'
    <3>1. JobOK(i)
      BY DEF LInv
    <3>2. CASE i = j
      BY <1>6, <2>2, <2>3, <3>1, <3>2
    <3>3. CASE i # j
      <4>1. jobs'[i] = jobs[i]
        BY <1>1, <2>1, <3>3
      <4>2. jobs[i].status = "processing" =>
               /\ jobs[i].owner \in Worker
               /\ worker'[jobs[i].owner].pc # "idle"
               /\ worker'[jobs[i].owner].job = i
        BY <1>0, <2>1, <3>1 DEF JobOK
      <4>3. jobs[i].status = "complete" => Worked(i)'
        BY <1>4, <3>1 DEF JobOK, Kept
      <4> QED BY <1>0, <1>3, <3>1, <4>1, <4>2, <4>3 DEF JobOK, Kept
    <3> QED BY <3>2, <3>3
  <2> QED BY <1>5, <2>4, <2>5
<1>8. CASE CountJobs(w) \/ Size(w) \/ Run(w)
  <2>1. PICK place \in {"complete", "size", "run", "failed"} : Proceed(w, place)
    BY <1>8 DEF CountJobs, Size, Run
  <2>2. PICK j : j = worker[w].job
    OBVIOUS
  <2>3. jobs' = jobs /\ worker[w].pc \in {"count", "size", "run"}
    BY <1>8 DEF CountJobs, Size, Run
  <2>4. worker'[w].pc = place /\ worker'[w].job = j
    BY <1>1, <2>1, <2>2 DEF Proceed
  <2>5. j \in JobId /\ Kept(j) /\ Kept(j)' /\ j[1] \in DOMAIN files
    <3>1. j \in JobId /\ Kept(j) /\ Kept(j)'
      BY <1>0, <1>3, <2>2, <2>3 DEF WorkerOK
    <3> QED BY <3>1 DEF LInv, JobOK
  <2>6. place = "complete" => Worked(j)'
    <3>1. CASE CountJobs(w)
      <4>1. place = "complete" => Cardinality(Stored(j[1])) > 1
        BY <1>1, <2>2, <2>4, <3>1 DEF CountJobs, Proceed
      <4>2. ~ IsChunk(j)
        BY <1>0, <2>2, <3>1 DEF CountJobs, WorkerOK
      <4>3. place = "complete" => Long /\ Uploaded(j[1])
        BY <2>5, <4>1, ManyStored
      <4> QED BY <1>3, <4>2, <4>3 DEF Worked
    <3>2. CASE Size(w)
      <4>1. place = "complete" => files[j[1]].uploaded /\ Long
        BY <1>1, <2>2, <2>4, <3>2 DEF Size, Proceed
      <4>2. ~ IsChunk(j)
        BY <1>0, <2>2, <3>2 DEF Size, WorkerOK
      <4> QED BY <1>3, <2>5, <4>1, <4>2 DEF Worked, Uploaded
    <3>3. CASE Run(w)
      <4>1. place = "complete" =>
              /\ files[j[1]].uploaded
              /\ runs' = [l \in Line |-> IF l \in LinesOf(j) THEN runs[l] + 1 ELSE runs[l]]
        BY <1>1, <2>2, <2>4, <3>3 DEF Run, Proceed
      <4>2. LinesOf(j) \subseteq Line
        BY <1>0, <2>5, JobLines DEF LInv
      <4>3. place = "complete" => \A l \in LinesOf(j) : runs'[l] > 0
        <5> SUFFICES ASSUME place = "complete", NEW l \in LinesOf(j) PROVE runs'[l] > 0
          OBVIOUS
        <5>1. l \in Line /\ runs'[l] = runs[l] + 1 /\ runs[l] \in Nat
          BY <1>1, <4>1, <4>2
        <5> QED BY <5>1
      <4>4. place = "complete" => Uploaded(j[1])'
        BY <1>3, <2>5, <4>1 DEF Uploaded
      <4> QED BY <1>3, <4>3, <4>4 DEF Worked
    <3> QED BY <1>8, <3>1, <3>2, <3>3
  <2>7. place = "size" => ~ IsChunk(j)
    BY <1>0, <1>1, <1>8, <2>1, <2>2, <2>4 DEF CountJobs, Size, Run, Proceed, WorkerOK
  <2>8. WorkerOK(w)'
    BY <2>1, <2>4, <2>5, <2>6, <2>7 DEF WorkerOK
  <2>9. ASSUME NEW i \in JobId PROVE JobOK(i)'
    <3>1. JobOK(i)
      BY DEF LInv
    <3>2. jobs[i].status = "processing" =>
             /\ jobs[i].owner \in Worker
             /\ worker'[jobs[i].owner].pc # "idle"
             /\ worker'[jobs[i].owner].job = i
      BY <1>0, <2>1, <2>2, <2>4, <3>1 DEF JobOK
    <3>3. jobs[i].status = "complete" => Worked(i)'
      BY <1>4, <3>1 DEF JobOK, Kept
    <3> QED BY <1>0, <1>3, <2>3, <3>1, <3>2, <3>3 DEF JobOK, Kept
  <2> QED BY <1>5, <2>8, <2>9
<1>9. CASE Finish(w)
  <2>1. PICK j : j = worker[w].job
    OBVIOUS
  <2>2. /\ worker[w].pc \in {"complete", "failed"}
        /\ jobs' = [jobs EXCEPT ![j] = IF jobs[j].owner = w
                                         THEN [status |-> worker[w].pc, owner |-> Nobody]
                                         ELSE jobs[j]]
        /\ worker' = [worker EXCEPT ![w] = [pc |-> "idle", job |-> Nobody]]
    BY <1>9, <2>1 DEF Finish
  <2>3. j \in JobId /\ Kept(j) /\ (worker[w].pc = "complete" => Worked(j)')
    <3>1. j \in JobId /\ Kept(j)
      BY <1>0, <2>1, <2>2 DEF WorkerOK
    <3>2. worker[w].pc = "complete" => Worked(j)
      BY <1>0, <2>1 DEF WorkerOK
    <3> QED BY <1>4, <3>1, <3>2
  <2>4. worker'[w].pc = "idle"
    BY <1>1, <2>2
  <2>5. WorkerOK(w)'
    BY <2>4 DEF WorkerOK
  <2>6. ASSUME NEW i \in JobId PROVE JobOK(i)'
    <3>1. JobOK(i)
      BY DEF LInv
    <3>2. CASE i = j /\ jobs[i].owner = w
      <4>1. jobs'[i].status = worker[w].pc
        BY <1>1, <2>2, <2>3, <3>2
      <4> QED BY <1>0, <1>3, <2>2, <2>3, <3>1, <3>2, <4>1 DEF JobOK, Kept
    <3>3. CASE ~ (i = j /\ jobs[i].owner = w)
      <4>1. jobs'[i] = jobs[i]
        BY <1>1, <2>2, <3>3
      <4>2. jobs[i].status = "processing" =>
               /\ jobs[i].owner \in Worker
               /\ worker'[jobs[i].owner].pc # "idle"
               /\ worker'[jobs[i].owner].job = i
        BY <1>0, <2>1, <3>1, <3>3 DEF JobOK
      <4>3. jobs[i].status = "complete" => Worked(i)'
        BY <1>4, <3>1 DEF JobOK, Kept
      <4> QED BY <1>0, <1>3, <3>1, <4>1, <4>2, <4>3 DEF JobOK, Kept
    <3> QED BY <3>2, <3>3
  <2> QED BY <1>5, <2>5, <2>6
<1> QED BY <1>7, <1>8, <1>9 DEF Work

LEMMA NextLocal == LInv /\ [Next]_vars => LInv'
<1> SUFFICES ASSUME LInv, [Next]_vars PROVE LInv'
  OBVIOUS
<1>0. TInv' /\ TInv
  BY NextTypes DEF LInv
<1>1. CASE Age
  <2>1. PICK f \in DOMAIN files : files' = [files EXCEPT ![f].fresh = FALSE]
    BY <1>1 DEF Age
  <2>2. UNCHANGED <<length, jobs, delivery, worker, runs>>
    BY <1>1 DEF Age
  <2>3. Grown
    <3>1. files \in Seq(FileRec)
      BY <1>0, FileTypes
    <3>2. \A g \in DOMAIN files : g \in DOMAIN files' /\ (files[g].uploaded => files'[g].uploaded)
      BY <2>1, <3>1 DEF FileRec
    <3> QED BY <2>2, <3>2 DEF Grown
  <2> QED BY <1>0, <2>2, <2>3, OthersKeep DEF LInv
<1>2. CASE UNCHANGED vars
  <2>1. Grown /\ UNCHANGED <<jobs, delivery, worker>>
    BY <1>2 DEF Grown, vars
  <2> QED BY <1>0, <2>1, OthersKeep DEF LInv
<1> QED BY <1>1, <1>2, DeliveryLocal, WorkLocal DEF Next

-----------------------------------------------------------------------------
(* A long file is seen to.                                                 *)

\* The chunks that delivery c has stored, up to the m-th.
StoredTo(c, m) == \A k \in 1 .. m : Kept(<<delivery[c].file, k, c>>)

\* Delivery c has stored every chunk of its file or is about to.
Sees(c) ==
  \/ delivery[c].pc \in {"jobs", "mend", "parent", "upload", "split"}
  \/ delivery[c].pc = "store" /\ StoredTo(c, delivery[c].chunk - 1)
  \/ delivery[c].pc = "done" /\ StoredTo(c, Len(Split))

\* Since the last cut, a long file that is there is seen to by some delivery.
SeenTo ==
  Long =>
    \A d \in since : Uploaded(delivery[d].file) =>
      \E c \in Delivery : delivery[c].file = delivery[d].file /\ Sees(c)

SInv ==
  /\ LInv
  /\ \A d \in Unmade : delivery[d].file = 0
  /\ SeenTo

LEMMA StartSeen == Init => SInv
<1> SUFFICES ASSUME Init PROVE SInv
  OBVIOUS
<1>1. LInv
  BY StartLocal
<1>2. (\A d \in Unmade : delivery[d].file = 0) /\ since = {}
  BY DEF Init, Unmade
<1> QED BY <1>1, <1>2 DEF SInv, SeenTo

\* The chunks that were stored are stored.
LEMMA KeepsChunks ==
  ASSUME TInv, Grown, NEW c \in Delivery, NEW f \in DOMAIN files, NEW m \in Int,
         m <= Len(Split), \A k \in 1 .. m : Kept(<<f, k, c>>)
  PROVE  \A k \in 1 .. m : Kept(<<f, k, c>>)'
<1> SUFFICES ASSUME NEW k \in 1 .. m PROVE Kept(<<f, k, c>>)'
  OBVIOUS
<1>1. Len(Split) \in Nat /\ \A i \in 1 .. Len(Split) : i \in ChunkNo
  BY SplitFacts DEF TInv, TypeOK
<1>2. k \in 1 .. Len(Split)
  BY <1>1
<1>3. <<f, k, c>> \in JobId
  BY <1>1, <1>2, FileTypes, JobIds
<1> QED BY <1>3, GrownFacts

\* A delivery that takes no step sees what it saw.
LEMMA IdleSees ==
  ASSUME LInv, Grown, NEW c \in Delivery, delivery'[c] = delivery[c], Sees(c)
  PROVE  Sees(c)'
<1>1. PICK f, n : f = delivery[c].file /\ n = delivery[c].chunk
  OBVIOUS
<1>2. TInv /\ Split' = Split /\ Len(Split) \in Nat /\ DOMAIN Split = 1 .. Len(Split)
  BY GrownFacts, SplitFacts DEF LInv, TInv, TypeOK
<1>3. delivery[c].pc \in {"store", "done"} => f \in DOMAIN files
  BY <1>1 DEF LInv, DeliveryOK
<1>4. CASE delivery[c].pc \in {"jobs", "mend", "parent", "upload", "split"}
  BY <1>4 DEF Sees
<1>5. CASE delivery[c].pc = "store"
  <2> DEFINE m == n - 1
  <2>1. n \in 1 .. Len(Split)
    BY <1>1, <1>2, <1>5 DEF LInv, DeliveryOK
  <2>2. m \in Int /\ m <= Len(Split)
    <3> DEFINE t == Len(Split)
    <3>1. n \in 1 .. t /\ t \in Nat
      BY <1>2, <2>1
    <3> HIDE DEF t
    <3>2. m \in Int /\ m <= t
      BY <3>1
    <3> QED BY <3>2 DEF t
  <2>3. \A k \in 1 .. m : Kept(<<f, k, c>>)
    BY <1>1, <1>5 DEF Sees, StoredTo
  <2> HIDE DEF m
  <2>4. \A k \in 1 .. m : Kept(<<f, k, c>>)'
    BY <1>2, <1>3, <1>5, <2>2, <2>3, KeepsChunks
  <2> QED BY <1>1, <1>5, <2>4 DEF m, Sees, StoredTo
<1>6. CASE delivery[c].pc = "done"
  <2> DEFINE m == Len(Split)
  <2>1. \A k \in 1 .. m : Kept(<<f, k, c>>)
    BY <1>1, <1>6 DEF Sees, StoredTo
  <2>2. \A k \in 1 .. m : Kept(<<f, k, c>>)'
    BY <1>2, <1>3, <1>6, <2>1, KeepsChunks
  <2> QED BY <1>1, <1>2, <1>6, <2>2 DEF Sees, StoredTo
<1> QED BY <1>4, <1>5, <1>6 DEF Sees

\* A delivery that goes on sees to a long file that is there until the end.
LEMMA GoingOnSees ==
  ASSUME LInv, NEW d \in Delivery, Import(d), Long, Sees(d), Uploaded(delivery[d].file)
  PROVE  Sees(d)' /\ delivery'[d].file = delivery[d].file
<1>1. PICK f, n : f = delivery[d].file /\ n = delivery[d].chunk
  OBVIOUS
<1>2. /\ TInv /\ Grown /\ Split' = Split /\ Len(Split) \in Nat /\ DOMAIN Split = 1 .. Len(Split)
      /\ delivery \in [Delivery -> DeliveryRec] /\ jobs \in [JobId -> Job]
      /\ DOMAIN files \subseteq File
  BY DeliveryGrows, GrownFacts, SplitFacts, FileTypes DEF LInv, TInv, TypeOK
<1>3. CASE FindParent(d) \/ MissParent(d) \/ CreateParent(d) \/ Upload(d)
  <2>1. PICK place \in {"split", "mend", "upload"} : Goto(d, place)
    BY <1>3 DEF FindParent, MissParent, CreateParent, Upload
  <2>2. delivery'[d].pc = place /\ delivery'[d].file = delivery[d].file
    BY <1>2, <2>1 DEF Goto, DeliveryRec
  <2> QED BY <2>2 DEF Sees
<1>4. CASE CreateFile(d)
  BY <1>4 DEF CreateFile, At, Sees
<1>5. CASE SplitFile(d)
  <2>1. delivery' = [delivery EXCEPT ![d].pc = "store", ![d].chunk = 1]
    BY <1>5 DEF SplitFile, Uploaded
  <2>2. delivery'[d].pc = "store" /\ delivery'[d].chunk = 1 /\ delivery'[d].file = delivery[d].file
    BY <1>2, <2>1 DEF DeliveryRec
  <2>3. \A k \in 1 .. delivery'[d].chunk - 1 : FALSE
    BY <2>2
  <2> QED BY <2>2, <2>3 DEF Sees, StoredTo
<1>6. CASE StoreChunk(d)
  <2> DEFINE t == Len(Split)
  <2>1. /\ delivery[d].pc = "store" /\ jobs' = [jobs EXCEPT ![<<f, n, d>>] = Pending]
        /\ \/ Goto(d, "done") /\ n = t
           \/ delivery' = [delivery EXCEPT ![d].chunk = n + 1]
    BY <1>1, <1>6 DEF StoreChunk, At
  <2>2. f \in DOMAIN files /\ n \in 1 .. t /\ t \in Nat
    BY <1>1, <1>2, <2>1 DEF LInv, DeliveryOK
  <2>3. <<f, n, d>> \in JobId
    <3>1. n \in ChunkNo
      BY <1>2, <2>2, SplitFacts DEF TInv, TypeOK
    <3> QED BY <1>2, <2>2, <3>1, JobIds
  <2>4. Kept(<<f, n, d>>)'
    <3>1. jobs'[<<f, n, d>>] = Pending
      BY <1>2, <2>1, <2>3
    <3>2. PICK j : j = <<f, n, d>>
      OBVIOUS
    <3> QED BY <3>1 DEF Kept, Pending
  <2>5. \A k \in 1 .. n - 1 : Kept(<<f, k, d>>)
    BY <1>1, <2>1 DEF Sees, StoredTo
  <2>6. \A k \in 1 .. n - 1 : Kept(<<f, k, d>>)'
    <3> DEFINE m == n - 1
    <3>1. m \in Int /\ m <= t
      <4> HIDE DEF t
      <4> QED BY <2>2
    <3>2. \A k \in 1 .. m : Kept(<<f, k, d>>)
      BY <2>5
    <3> HIDE DEF m
    <3>3. \A k \in 1 .. m : Kept(<<f, k, d>>)'
      BY <1>2, <2>2, <3>1, <3>2, KeepsChunks
    <3> QED BY <3>3 DEF m
  <2>7. \A k \in 1 .. n : Kept(<<f, k, d>>)'
    <3> SUFFICES ASSUME NEW k \in 1 .. n PROVE Kept(<<f, k, d>>)'
      OBVIOUS
    <3>1. k = n \/ k \in 1 .. n - 1
      <4> HIDE DEF t
      <4> QED BY <2>2
    <3> QED BY <2>4, <2>6, <3>1
  <2>8. CASE Goto(d, "done") /\ n = t
    <3>1. delivery'[d].pc = "done" /\ delivery'[d].file = f
      BY <1>1, <1>2, <2>8 DEF Goto, DeliveryRec
    <3> QED BY <1>1, <1>2, <2>7, <2>8, <3>1 DEF Sees, StoredTo
  <2>9. CASE delivery' = [delivery EXCEPT ![d].chunk = n + 1]
    <3>1. delivery'[d].pc = "store" /\ delivery'[d].file = f /\ delivery'[d].chunk = n + 1
      BY <1>1, <1>2, <2>1, <2>9 DEF DeliveryRec
    <3>2. delivery'[d].chunk - 1 = n
      <4> DEFINE x == delivery'[d].chunk
      <4>1. x = n + 1
        BY <3>1
      <4> HIDE DEF x
      <4>2. x - 1 = n
        <5> HIDE DEF t
        <5> QED BY <2>2, <4>1
      <4> QED BY <4>2 DEF x
    <3>3. \A k \in 1 .. delivery'[d].chunk - 1 : Kept(<<delivery[d].file, k, d>>)'
      BY <2>7, <3>1, <3>2
    <3> QED BY <1>1, <3>1, <3>3 DEF Sees, StoredTo
  <2> QED BY <2>1, <2>8, <2>9
<1> QED BY <1>3, <1>4, <1>5, <1>6 DEF Import

LEMMA DeliverySeen ==
  ASSUME SInv, NEW d \in Delivery, Find(d) \/ Import(d) \/ Cut(d)
  PROVE  SInv'
<1>0. LInv /\ TInv /\ Grown /\ LInv' /\ length \in Lengths
  BY DeliveryLocal, DeliveryGrows DEF SInv, LInv, TInv, TypeOK
<1>1. /\ delivery \in [Delivery -> DeliveryRec] /\ files \in Seq(FileRec) /\ since \subseteq Delivery
      /\ Len(files) \in Nat /\ DOMAIN files = 1 .. Len(files)
      /\ \A e \in Delivery : delivery[e].file \in 0 .. Len(files)
      /\ Long' <=> Long
  BY <1>0, FileTypes, GrownFacts DEF LInv, TInv, TypeOK
<1>2. \A e \in Delivery \ {d} : delivery'[e] = delivery[e]
  BY <1>1 DEF Find, Import, Cut, Goto, FindParent, MissParent, CreateFile, CreateParent, Upload, SplitFile, StoreChunk
<1>3. \A e \in Unmade' : delivery'[e].file = 0
  <2>1. ASSUME NEW e \in Unmade', e # d PROVE delivery'[e].file = 0
    BY <1>2, <2>1 DEF Unmade, SInv
  <2>2. delivery'[d].pc \in {"new", "create"} => delivery'[d].file = 0
    <3>1. CASE Find(d)
      <4>1. delivery[d].file = 0
        BY <3>1 DEF Find, At, SInv, Unmade
      <4> QED BY <1>1, <3>1, <4>1 DEF Find, Goto, DeliveryRec
    <3>2. CASE Import(d)
      BY <1>1, <3>2
      DEF Import, Goto, At, FindParent, MissParent, CreateFile, CreateParent, Upload, SplitFile, StoreChunk, DeliveryRec
    <3>3. CASE Cut(d)
      BY <1>1, <3>3 DEF Cut, Goto, DeliveryRec
    <3> QED BY <3>1, <3>2, <3>3
  <2> QED BY <2>1, <2>2 DEF Unmade
<1>4. ASSUME SeenTo' PROVE SInv'
  BY <1>0, <1>3, <1>4 DEF SInv
<1>5. CASE Cut(d)
  BY <1>4, <1>5 DEF Cut, SeenTo
<1>6. CASE ~ Long
  BY <1>1, <1>4, <1>6 DEF SeenTo
<1>7. ASSUME Long, Find(d) \/ Import(d), NEW e \in since',
             Uploaded(delivery[e].file)'
      PROVE  \E c \in Delivery : delivery'[c].file = delivery'[e].file /\ Sees(c)'
  <2>1. \A c \in Delivery \ {d} : Sees(c) => Sees(c)'
    BY <1>0, <1>2, IdleSees
  <2>2. ASSUME NEW c \in Delivery, Uploaded(delivery[c].file), Sees(c)
        PROVE  delivery'[c].file = delivery[c].file /\ Sees(c)'
    <3>1. CASE c # d
      BY <1>2, <2>1, <2>2, <3>1
    <3>2. CASE c = d
      <4>1. Import(d)
        BY <1>7, <2>2, <3>2 DEF Find, At, Sees
      <4> QED BY <1>0, <1>7, <2>2, <3>2, <4>1, GoingOnSees
    <3> QED BY <3>1, <3>2
  <2>3. ASSUME e \in since, Uploaded(delivery[e].file), delivery'[e].file = delivery[e].file
        PROVE  \E c \in Delivery : delivery'[c].file = delivery'[e].file /\ Sees(c)'
    <3>1. PICK c \in Delivery : delivery[c].file = delivery[e].file /\ Sees(c)
      BY <1>7, <2>3 DEF SInv, SeenTo
    <3>2. Uploaded(delivery[c].file)
      <4> DEFINE f == delivery[c].file
                 g == delivery[e].file
      <4>1. f = g /\ Uploaded(g)
        BY <2>3, <3>1
      <4> HIDE DEF f, g
      <4>2. Uploaded(f)
        BY <4>1
      <4> QED BY <4>2 DEF f
    <3> QED BY <2>2, <2>3, <3>1, <3>2
  <2>4. CASE Find(d)
    <3>1. files' = files /\ since' = since \cup {d} /\ delivery[d].pc = "new"
      BY <2>4 DEF Find, At
    <3>2. CASE e = d
      <4>1. delivery[d].file = 0
        BY <3>1 DEF SInv, Unmade
      <4>2. delivery'[d].pc = "jobs"
        <5>1. CASE Goto(d, "create")
          <6>1. delivery'[d].file = 0
            BY <1>1, <4>1, <5>1 DEF Goto, DeliveryRec
          <6>2. 0 \in DOMAIN files
            BY <1>7, <3>1, <3>2, <6>1 DEF Uploaded
          <6> QED BY <1>1, <6>2
        <5>2. CASE delivery' = [delivery EXCEPT ![d].pc = "jobs", ![d].file = Len(files)]
          BY <1>1, <5>2 DEF DeliveryRec
        <5> QED BY <2>4, <5>1, <5>2 DEF Find
      <4> QED BY <3>2, <4>2 DEF Sees
    <3>3. CASE e # d
      <4>1. e \in since /\ delivery'[e] = delivery[e] /\ e \in Delivery
        BY <1>1, <1>2, <3>1, <3>3
      <4>2. Uploaded(delivery[e].file)
        BY <1>7, <3>1, <4>1 DEF Uploaded
      <4> QED BY <2>3, <4>1, <4>2
    <3> QED BY <3>2, <3>3
  <2>5. CASE Import(d)
    <3>1. e \in since /\ e \in Delivery
      BY <1>1, <2>5 DEF Import, FindParent, MissParent, CreateFile, CreateParent, Upload, SplitFile, StoreChunk
    <3>2. CASE CreateFile(d)
      <4> DEFINE new == [fresh |-> TRUE, uploaded |-> FALSE]
      <4>1. /\ files' = Append(files, new) /\ new \in FileRec /\ ~ new.uploaded
            /\ delivery' = [delivery EXCEPT ![d].pc = "parent", ![d].file = Len(files')]
        BY <3>2 DEF CreateFile, FileRec
      <4> HIDE DEF new
      <4>2. /\ Len(files') = Len(files) + 1 /\ DOMAIN files' = 1 .. Len(files')
            /\ files'[Len(files')] = new /\ \A f \in DOMAIN files : files'[f] = files[f]
        BY <1>1, <4>1
      <4>3. delivery'[d].file = Len(files')
        BY <1>1, <4>1 DEF DeliveryRec
      <4>4. e # d
        BY <1>7, <4>1, <4>2, <4>3 DEF Uploaded
      <4>5. delivery'[e] = delivery[e]
        BY <1>2, <3>1, <4>4
      <4>6. PICK f : f = delivery[e].file
        OBVIOUS
      <4>7. f \in 0 .. Len(files) /\ f \in DOMAIN files' /\ files'[f].uploaded
        BY <1>1, <1>7, <3>1, <4>5, <4>6 DEF Uploaded
      <4>8. f \in DOMAIN files /\ files'[f] = files[f]
        <5>1. f \in DOMAIN files
          BY <1>1, <4>2, <4>7
        <5> QED BY <4>2, <5>1
      <4>9. Uploaded(delivery[e].file)
        BY <4>6, <4>7, <4>8 DEF Uploaded
      <4> QED BY <2>3, <3>1, <4>5, <4>9
    <3>3. CASE Upload(d)
      <4>1. /\ files' = [files EXCEPT ![delivery[d].file].uploaded = TRUE] /\ Goto(d, "split")
        BY <3>3 DEF Upload
      <4>2. /\ delivery'[d].pc = "split" /\ delivery'[d].file = delivery[d].file
            /\ delivery'[e].file = delivery[e].file
        BY <1>1, <1>2, <3>1, <4>1 DEF Goto, DeliveryRec
      <4>3. CASE delivery[e].file = delivery[d].file
        BY <4>2, <4>3 DEF Sees
      <4>4. CASE delivery[e].file # delivery[d].file
        <5>1. Uploaded(delivery[e].file)
          BY <1>1, <1>7, <4>1, <4>2, <4>4 DEF Uploaded, FileRec
        <5> QED BY <2>3, <3>1, <4>2, <5>1
      <4> QED BY <4>3, <4>4
    <3>4. CASE FindParent(d) \/ MissParent(d) \/ CreateParent(d) \/ SplitFile(d) \/ StoreChunk(d)
      <4>1. files' = files
        BY <3>4 DEF FindParent, MissParent, CreateParent, SplitFile, StoreChunk
      <4>2. delivery'[d].file = delivery[d].file
        BY <1>1, <3>4 DEF FindParent, MissParent, CreateParent, SplitFile, StoreChunk, Goto, DeliveryRec
      <4>3. delivery'[e].file = delivery[e].file
        BY <1>2, <3>1, <4>2
      <4>4. Uploaded(delivery[e].file)
        BY <1>7, <4>1, <4>3 DEF Uploaded
      <4> QED BY <2>3, <3>1, <4>3, <4>4
    <3> QED BY <2>5, <3>2, <3>3, <3>4 DEF Import
  <2> QED BY <1>7, <2>4, <2>5
<1>8. ASSUME Long, Find(d) \/ Import(d) PROVE SeenTo'
  <2> SUFFICES ASSUME NEW e \in since', Uploaded(delivery[e].file)'
               PROVE  (\E c \in Delivery : delivery[c].file = delivery[e].file /\ Sees(c))'
    BY DEF SeenTo
  <2> QED BY <1>7, <1>8
<1> QED BY <1>4, <1>5, <1>6, <1>8

LEMMA OthersSeen ==
  ASSUME SInv, LInv', Grown, UNCHANGED <<delivery, since>>,
         \A f : Uploaded(f)' => Uploaded(f)
  PROVE  SInv'
<1>1. Long' <=> Long
  BY GrownFacts
<1>2. \A e \in Unmade' : delivery'[e].file = 0
  BY DEF SInv, Unmade
<1>3. \A c \in Delivery : Sees(c) => Sees(c)'
  BY IdleSees DEF SInv
<1>4. SeenTo'
  <2> SUFFICES ASSUME Long, NEW e \in since, Uploaded(delivery[e].file)'
               PROVE  (\E c \in Delivery : delivery[c].file = delivery[e].file /\ Sees(c))'
    BY <1>1 DEF SeenTo
  <2>1. Uploaded(delivery[e].file)
    <3>1. PICK f : f = delivery[e].file
      OBVIOUS
    <3>2. Uploaded(f)'
      BY <3>1 DEF Uploaded
    <3> QED BY <3>1, <3>2
  <2> QED BY <1>3, <2>1 DEF SInv, SeenTo
<1> QED BY <1>2, <1>4 DEF SInv

LEMMA NextSeen == SInv /\ [Next]_vars => SInv'
<1> SUFFICES ASSUME SInv, [Next]_vars PROVE SInv'
  OBVIOUS
<1>0. LInv' /\ LInv /\ TInv
  BY NextLocal DEF SInv, LInv
<1>1. CASE Age
  <2>1. PICK f \in DOMAIN files : files' = [files EXCEPT ![f].fresh = FALSE]
    BY <1>1 DEF Age
  <2>2. UNCHANGED <<length, jobs, delivery, worker, runs, since>>
    BY <1>1 DEF Age
  <2>3. files \in Seq(FileRec)
    BY <1>0, FileTypes
  <2>4. /\ DOMAIN files' = DOMAIN files
        /\ \A g \in DOMAIN files : files[g].uploaded <=> files'[g].uploaded
    BY <2>1, <2>3 DEF FileRec
  <2>5. Grown /\ \A g : Uploaded(g)' => Uploaded(g)
    BY <2>2, <2>4 DEF Grown, Uploaded
  <2> QED BY <1>0, <2>2, <2>5, OthersSeen
<1>2. CASE UNCHANGED vars
  <2>1. Grown /\ UNCHANGED <<delivery, since>> /\ \A g : Uploaded(g)' => Uploaded(g)
    BY <1>2 DEF Grown, vars, Uploaded
  <2> QED BY <1>0, <2>1, OthersSeen
<1>3. ASSUME NEW w \in Worker, Work(w) PROVE SInv'
  <2>1. UNCHANGED <<files, delivery, since>>
    BY <1>3 DEF Work, Claim, CountJobs, Size, Run, Finish
  <2>2. Grown /\ \A g : Uploaded(g)' => Uploaded(g)
    BY <1>0, <1>3, <2>1, WorkGrows DEF Uploaded
  <2> QED BY <1>0, <2>1, <2>2, OthersSeen
<1> QED BY <1>1, <1>2, <1>3, DeliverySeen DEF Next

(***************************************************************************)
(* For any deliveries, workers, length and size of chunks: when nothing is *)
(* under way and a delivery has ended that began after the last one that   *)
(* was cut short, every line of the blob was processed or a job that       *)
(* stands for it shows as failed, whenever RunJobAsync took the parent job *)
(* that CreateBatchJobsFromBlobUri stores before the upload and the        *)
(* chunks.                                                                 *)
(***************************************************************************)
THEOREM LinesCorrect == Spec => []LinesAccounted
<1>1. SInv => LinesAccounted
  <2> SUFFICES ASSUME SInv, Quiet, NEW d \in since, At(d, "done"), NEW l \in 1 .. length
               PROVE  Accounted(l)
    BY DEF LinesAccounted
  <2>1. LInv /\ TInv /\ since \subseteq Delivery /\ length \in Lengths
    BY DEF SInv, LInv, TInv, TypeOK
  <2>2. PICK f : f = delivery[d].file
    OBVIOUS
  <2>3. f \in DOMAIN files /\ f \in File /\ Kept(Parent(f)) /\ Parent(f) \in JobId
        /\ ~ IsChunk(Parent(f)) /\ Parent(f)[1] = f
    <3>1. f \in DOMAIN files /\ Kept(Parent(f))
      BY <2>1, <2>2 DEF At, LInv, DeliveryOK
    <3> QED BY <2>1, <3>1, FileTypes, JobIds
  <2>4. \* Every stored job is complete or has failed.
        ASSUME NEW j \in JobId, Kept(j), l \in LinesOf(j), IsChunk(j) \/ ~ Long
        PROVE  Accounted(l)
    <3>1. JobOK(j)
      BY <2>1 DEF LInv
    <3>2. jobs[j].status \in Status /\ jobs[j].status \notin {"none", "pending", "processing"}
      <4>1. jobs[j].status \in Status
        BY <2>1, FileTypes DEF Job
      <4> QED BY <2>4, <3>1, <4>1 DEF Quiet, JobOK, Kept
    <3>3. jobs[j].status = "complete" => runs[l] > 0
      BY <2>4, <3>1 DEF JobOK, Worked
    <3> QED BY <2>4, <3>2, <3>3 DEF Accounted, Status
  <2>5. l \in LinesOf(Parent(f))
    BY <2>3 DEF LinesOf
  <2>6. CASE ~ Long
    BY <2>3, <2>4, <2>5, <2>6
  <2>7. CASE Long /\ Uploaded(f)
    <3>1. PICK c \in Delivery : delivery[c].file = f /\ Sees(c)
      BY <2>2, <2>7 DEF SInv, SeenTo
    <3>2. StoredTo(c, Len(Split))
      BY <3>1 DEF Quiet, Sees
    <3>3. PICK k \in 1 .. Len(Split) : l \in Split[k]
      BY <2>1, SplitFacts
    <3>4. PICK j : j = <<f, k, c>>
      OBVIOUS
    <3>5. k \in ChunkNo
      BY <2>1, SplitFacts
    <3>6. j \in JobId /\ IsChunk(j) /\ j[2] = k
      BY <2>3, <3>4, <3>5, JobIds
    <3>7. Kept(j)
      BY <3>1, <3>2, <3>4 DEF StoredTo
    <3>8. l \in LinesOf(j)
      BY <3>3, <3>6 DEF LinesOf
    <3> QED BY <2>4, <3>6, <3>7, <3>8
  <2>8. CASE Long /\ ~ Uploaded(f)
    <3>1. JobOK(Parent(f))
      BY <2>1, <2>3 DEF LInv
    <3>2. jobs[Parent(f)].status \in Status
          /\ jobs[Parent(f)].status \notin {"none", "pending", "processing", "complete"}
      <4>1. jobs[Parent(f)].status \in Status
        BY <2>1, <2>3, FileTypes DEF Job
      <4>2. jobs[Parent(f)].status \notin {"none", "pending", "processing"}
        BY <2>3, <3>1, <4>1 DEF Quiet, JobOK, Kept
      <4>3. jobs[Parent(f)].status # "complete"
        BY <2>3, <2>8, <3>1 DEF JobOK, Worked
      <4> QED BY <4>1, <4>2, <4>3
    <3> QED BY <2>3, <2>5, <3>2 DEF Accounted, Status
  <2> QED BY <2>6, <2>7, <2>8
<1> QED BY <1>1, StartSeen, NextSeen, PTL DEF Spec

-----------------------------------------------------------------------------
(* How often a line is processed.                                          *)

\* Jobs that wait, and workers that have one.
Waiting == {j \in JobId : jobs[j].status = "pending"}

Busy == {w \in Worker : worker[w].pc # "idle"}

\* Jobs that wait for line l to be processed, and workers that may process it.
Open(l) == {j \in JobId : jobs[j].status = "pending" /\ l \in LinesOf(j)}

Doing(l) ==
  {w \in Worker : worker[w].pc \in {"count", "size", "run"} /\ l \in LinesOf(worker[w].job)}

\* Deliveries that may have stored a parent, and a chunk job with line l.
MadeParent == {d \in Delivery : delivery[d].pc \in {"upload", "split", "store", "done", "cut"}}

MadeChunk(l) ==
  {d \in Delivery :
     /\ Long
     /\ \/ delivery[d].pc \in {"done", "cut"}
        \/ /\ delivery[d].pc = "store"
           /\ \A k \in DOMAIN Split : k >= delivery[d].chunk => l \notin Split[k]}

Within(r, O, W, P, C) ==
  r + Cardinality(O) + Cardinality(W) <= Cardinality(P) + Cardinality(C)

Bounded(l) == Within(runs[l], Open(l), Doing(l), MadeParent, MadeChunk(l))

BInv ==
  /\ LInv
  /\ IsFiniteSet(Waiting) /\ IsFiniteSet(Busy)
  /\ \A l \in Line : Bounded(l)

LEMMA Sizes ==
  ASSUME NEW A, NEW B, IsFiniteSet(A), IsFiniteSet(B)
  PROVE  /\ Cardinality(A) \in Nat /\ Cardinality(B) \in Nat
         /\ B \subseteq A => Cardinality(B) <= Cardinality(A)
         /\ \A x : B \subseteq A \cup {x} => Cardinality(B) <= Cardinality(A) + 1
         /\ \A x \in A : B \subseteq A \ {x} => Cardinality(B) + 1 <= Cardinality(A)
<1>1. Cardinality(A) \in Nat /\ Cardinality(B) \in Nat
  BY FS_CardinalityType
<1>2. B \subseteq A => Cardinality(B) <= Cardinality(A)
  BY FS_Subset
<1>3. ASSUME NEW x, B \subseteq A \cup {x} PROVE Cardinality(B) <= Cardinality(A) + 1
  <2>1. IsFiniteSet(A \cup {x}) /\ Cardinality(A \cup {x}) <= Cardinality(A) + 1
        /\ Cardinality(A \cup {x}) \in Nat
    <3>1. IsFiniteSet(A \cup {x}) /\ Cardinality(A \cup {x}) = IF x \in A THEN Cardinality(A) ELSE Cardinality(A) + 1
      BY FS_AddElement
    <3> QED BY <1>1, <3>1, FS_CardinalityType
  <2>2. Cardinality(B) <= Cardinality(A \cup {x})
    BY <1>3, <2>1, FS_Subset
  <2> QED BY <1>1, <2>1, <2>2
<1>4. ASSUME NEW x \in A, B \subseteq A \ {x} PROVE Cardinality(B) + 1 <= Cardinality(A)
  <2>1. IsFiniteSet(A \ {x}) /\ Cardinality(A \ {x}) = Cardinality(A) - 1
    BY OneLess
  <2>2. Cardinality(B) <= Cardinality(A \ {x})
    BY <1>4, <2>1, FS_Subset
  <2> QED BY <1>1, <2>1, <2>2
<1> QED BY <1>1, <1>2, <1>3, <1>4

\* A step from O, W, P, C to O2, W2, P2, C2.
Shift(r, r2, O, O2, W, W2, P, P2, C, C2) ==
  /\ P \subseteq P2 /\ C \subseteq C2
  /\ \/ r2 = r /\ O2 \subseteq O /\ W2 \subseteq W
     \/ r2 = r /\ (\E x : O2 \subseteq O \cup {x}) /\ W2 \subseteq W /\ (\E d \in P2 : d \notin P)
     \/ r2 = r /\ (\E x : O2 \subseteq O \cup {x}) /\ W2 \subseteq W /\ (\E d \in C2 : d \notin C)
     \/ r2 = r /\ (\E x \in O : O2 \subseteq O \ {x}) /\ (\E x : W2 \subseteq W \cup {x})
     \/ r2 = r + 1 /\ O2 \subseteq O /\ (\E x \in W : W2 \subseteq W \ {x})

Counted(r, O, W, P, C) ==
  r \in Nat /\ IsFiniteSet(O) /\ IsFiniteSet(W) /\ IsFiniteSet(P) /\ IsFiniteSet(C)

\* A job more has a delivery more that made it, a worker more a job fewer, and
\* a run more a worker fewer.
LEMMA Fits ==
  ASSUME NEW r, NEW r2, NEW O, NEW O2, NEW W, NEW W2, NEW P, NEW P2, NEW C, NEW C2,
         Counted(r, O, W, P, C), Counted(r2, O2, W2, P2, C2),
         Shift(r, r2, O, O2, W, W2, P, P2, C, C2),
         Within(r, O, W, P, C)
  PROVE  Within(r2, O2, W2, P2, C2)
<1> DEFINE o == Cardinality(O)
           o2 == Cardinality(O2)
           v == Cardinality(W)
           v2 == Cardinality(W2)
           p == Cardinality(P)
           p2 == Cardinality(P2)
           c == Cardinality(C)
           c2 == Cardinality(C2)
<1>1. /\ o \in Nat /\ o2 \in Nat
      /\ O2 \subseteq O => o2 <= o
      /\ (\E x : O2 \subseteq O \cup {x}) => o2 <= o + 1
      /\ (\E x \in O : O2 \subseteq O \ {x}) => o2 + 1 <= o
  BY Sizes DEF Counted
<1>2. /\ v \in Nat /\ v2 \in Nat
      /\ W2 \subseteq W => v2 <= v
      /\ (\E x : W2 \subseteq W \cup {x}) => v2 <= v + 1
      /\ (\E x \in W : W2 \subseteq W \ {x}) => v2 + 1 <= v
  BY Sizes DEF Counted
<1>3. /\ p \in Nat /\ p2 \in Nat /\ p <= p2
      /\ (\E d \in P2 : d \notin P) => p + 1 <= p2
  <2>1. \A d \in P2 : d \notin P => P \subseteq P2 \ {d}
    BY DEF Shift
  <2> QED BY <2>1, Sizes DEF Counted, Shift
<1>4. /\ c \in Nat /\ c2 \in Nat /\ c <= c2
      /\ (\E d \in C2 : d \notin C) => c + 1 <= c2
  <2>1. \A d \in C2 : d \notin C => C \subseteq C2 \ {d}
    BY DEF Shift
  <2> QED BY <2>1, Sizes DEF Counted, Shift
<1>5. r \in Nat /\ r2 \in Nat /\ r + o + v <= p + c
  BY DEF Within, Counted
<1> HIDE DEF o, o2, v, v2, p, p2, c, c2
<1>6. r2 + o2 + v2 <= p2 + c2
  <2>1. CASE r2 = r /\ O2 \subseteq O /\ W2 \subseteq W
    BY <1>1, <1>2, <1>3, <1>4, <1>5, <2>1
  <2>2. CASE r2 = r /\ (\E x : O2 \subseteq O \cup {x}) /\ W2 \subseteq W /\ (\E d \in P2 : d \notin P)
    <3>1. r2 = r /\ o2 <= o + 1 /\ v2 <= v /\ p + 1 <= p2
      BY <1>1, <1>2, <1>3, <2>2
    <3> QED BY <1>1, <1>2, <1>3, <1>4, <1>5, <3>1
  <2>3. CASE r2 = r /\ (\E x : O2 \subseteq O \cup {x}) /\ W2 \subseteq W /\ (\E d \in C2 : d \notin C)
    <3>1. r2 = r /\ o2 <= o + 1 /\ v2 <= v /\ c + 1 <= c2
      BY <1>1, <1>2, <1>4, <2>3
    <3> QED BY <1>1, <1>2, <1>3, <1>4, <1>5, <3>1
  <2>4. CASE r2 = r /\ (\E x \in O : O2 \subseteq O \ {x}) /\ (\E x : W2 \subseteq W \cup {x})
    <3>1. r2 = r /\ o2 + 1 <= o /\ v2 <= v + 1
      BY <1>1, <1>2, <2>4
    <3> QED BY <1>1, <1>2, <1>3, <1>4, <1>5, <3>1
  <2>5. CASE r2 = r + 1 /\ O2 \subseteq O /\ (\E x \in W : W2 \subseteq W \ {x})
    <3>1. r2 = r + 1 /\ o2 <= o /\ v2 + 1 <= v
      BY <1>1, <1>2, <2>5
    <3> QED BY <1>1, <1>2, <1>3, <1>4, <1>5, <3>1
  <2> QED BY <2>1, <2>2, <2>3, <2>4, <2>5 DEF Shift
<1> QED BY <1>6 DEF Within, o, o2, v, v2, p, p2, c, c2

\* The step of the bound for one line.
LEMMA BoundStep ==
  ASSUME BInv, LInv', IsFiniteSet(Waiting'), IsFiniteSet(Busy'), length' = length,
         NEW l \in Line,
         Shift(runs[l], runs'[l], Open(l), Open(l)', Doing(l), Doing(l)',
               MadeParent, MadeParent', MadeChunk(l), MadeChunk(l)')
  PROVE  Bounded(l)'
<1>1. runs[l] \in Nat /\ runs'[l] \in Nat
  BY DEF BInv, LInv, TInv, TypeOK
<1>2. IsFiniteSet(Open(l)) /\ IsFiniteSet(Open(l)') /\ IsFiniteSet(Doing(l)) /\ IsFiniteSet(Doing(l)')
  <2>1. Open(l) \subseteq Waiting /\ Open(l)' \subseteq Waiting'
    BY DEF Open, Waiting
  <2>2. Doing(l) \subseteq Busy /\ Doing(l)' \subseteq Busy'
    BY DEF Doing, Busy
  <2> QED BY <2>1, <2>2, FS_Subset DEF BInv
<1>3. IsFiniteSet(MadeParent) /\ IsFiniteSet(MadeParent') /\ IsFiniteSet(MadeChunk(l)) /\ IsFiniteSet(MadeChunk(l)')
  <2>1. MadeParent \subseteq Delivery /\ MadeParent' \subseteq Delivery
    BY DEF MadeParent
  <2>2. MadeChunk(l) \subseteq Delivery /\ MadeChunk(l)' \subseteq Delivery
    BY DEF MadeChunk
  <2> QED BY <2>1, <2>2, ConstantTypes, FS_Subset
<1>4. Within(runs[l], Open(l), Doing(l), MadeParent, MadeChunk(l))
  BY DEF BInv, Bounded
<1>5. Counted(runs[l], Open(l), Doing(l), MadeParent, MadeChunk(l))
  BY <1>1, <1>2, <1>3 DEF Counted
<1>6. Counted(runs'[l], Open(l)', Doing(l)', MadeParent', MadeChunk(l)')
  BY <1>1, <1>2, <1>3 DEF Counted
<1>7. Within(runs'[l], Open(l)', Doing(l)', MadeParent', MadeChunk(l)')
  BY <1>4, <1>5, <1>6, Fits
<1> QED BY <1>7 DEF Bounded

LEMMA StartBound == Init => BInv
<1> SUFFICES ASSUME Init PROVE BInv
  OBVIOUS
<1>1. LInv
  BY StartLocal
<1>2. Waiting = {} /\ Busy = {}
  BY DEF Init, NoJob, Waiting, Busy
<1>3. ASSUME NEW l \in Line PROVE Bounded(l)
  <2>1. runs[l] = 0 /\ Open(l) = {} /\ Doing(l) = {} /\ MadeParent = {} /\ MadeChunk(l) = {}
    BY DEF Init, NoJob, Open, Doing, MadeParent, MadeChunk
  <2> QED BY <2>1, FS_EmptySet DEF Bounded, Within
<1> QED BY <1>1, <1>2, <1>3, FS_EmptySet DEF BInv

\* A step that stores at most one job.
LEMMA StoreStep ==
  ASSUME BInv, LInv', Grown, UNCHANGED <<worker, runs>>, NEW j,
         jobs' = jobs \/ jobs' = [jobs EXCEPT ![j] = Pending],
         \A l \in Line : /\ MadeParent \subseteq MadeParent'
                         /\ MadeChunk(l) \subseteq MadeChunk(l)'
                         /\ \/ jobs' = jobs \/ l \notin LinesOf(j)
                            \/ \E d \in MadeParent' : d \notin MadeParent
                            \/ \E d \in MadeChunk(l)' : d \notin MadeChunk(l)
  PROVE  BInv'
<1>1. jobs \in [JobId -> Job] /\ length' = length /\ \A i : LinesOf(i)' = LinesOf(i)
  BY FileTypes, GrownFacts DEF BInv, LInv, Grown
<1>2. IsFiniteSet(Waiting') /\ IsFiniteSet(Busy')
  <2>1. Busy' = Busy
    BY DEF Busy
  <2>2. Waiting' \subseteq Waiting \cup {j}
    BY <1>1 DEF Waiting
  <2>3. IsFiniteSet(Waiting \cup {j})
    BY FS_AddElement DEF BInv
  <2> QED BY <2>1, <2>2, <2>3, FS_Subset DEF BInv
<1>3. ASSUME NEW l \in Line PROVE Bounded(l)'
  <2>1. Doing(l)' \subseteq Doing(l) /\ runs'[l] = runs[l]
    BY <1>1 DEF Doing
  <2>2. Open(l)' \subseteq Open(l) \cup {j}
    BY <1>1 DEF Open
  <2>3. jobs' = jobs \/ l \notin LinesOf(j) => Open(l)' \subseteq Open(l)
    BY <1>1 DEF Open
  <2>4. Shift(runs[l], runs'[l], Open(l), Open(l)', Doing(l), Doing(l)',
               MadeParent, MadeParent', MadeChunk(l), MadeChunk(l)')
    BY <2>1, <2>2, <2>3 DEF Shift
  <2> QED BY <1>1, <1>2, <2>4, BoundStep
<1> QED BY <1>2, <1>3 DEF BInv

LEMMA DeliveryBound ==
  ASSUME BInv, NEW d \in Delivery, Find(d) \/ Import(d) \/ Cut(d)
  PROVE  BInv'
<1>0. LInv /\ TInv /\ Grown /\ LInv' /\ DeliveryOK(d) /\ length \in Lengths
  BY DeliveryLocal, DeliveryGrows DEF BInv, LInv, TInv, TypeOK
<1>1. /\ delivery \in [Delivery -> DeliveryRec] /\ Split' = Split /\ (Long' <=> Long)
      /\ Len(Split) \in Nat /\ DOMAIN Split = 1 .. Len(Split)
  BY <1>0, FileTypes, GrownFacts, SplitFacts
<1>2. /\ UNCHANGED <<worker, runs>>
      /\ \A e \in Delivery \ {d} : delivery'[e] = delivery[e]
  BY <1>1 DEF Find, Import, Cut, Goto, FindParent, MissParent, CreateFile, CreateParent, Upload, SplitFile, StoreChunk
<1>3. ASSUME d \in MadeParent => d \in MadeParent' PROVE MadeParent \subseteq MadeParent'
  BY <1>2, <1>3 DEF MadeParent
<1>4. ASSUME NEW l \in Line, d \in MadeChunk(l) => d \in MadeChunk(l)'
      PROVE  MadeChunk(l) \subseteq MadeChunk(l)'
  BY <1>1, <1>2, <1>4 DEF MadeChunk
<1>5. CASE Find(d) \/ FindParent(d) \/ MissParent(d) \/ CreateFile(d) \/ Upload(d) \/ Cut(d)
  <2>1. jobs' = jobs
    BY <1>5 DEF Find, FindParent, MissParent, CreateFile, Upload, Cut
  <2>2. /\ delivery'[d].pc \in {"create", "jobs", "split", "mend", "parent", "cut"}
        /\ delivery'[d].pc = "cut" \/ delivery[d].pc \in {"new", "create", "jobs", "upload"}
        /\ delivery[d].pc = "upload" => delivery'[d].pc \in {"split", "cut"}
        /\ delivery[d].pc \notin {"done", "cut"}
    BY <1>1, <1>5 DEF Find, FindParent, MissParent, CreateFile, Upload, Cut, At, Goto, DeliveryRec
  <2>3. d \in MadeParent => d \in MadeParent'
    BY <2>2 DEF MadeParent
  <2>4. ASSUME NEW l \in Line PROVE d \in MadeChunk(l) => d \in MadeChunk(l)'
    BY <1>1, <2>2 DEF MadeChunk
  <2> QED BY <1>0, <1>2, <1>3, <1>4, <2>1, <2>3, <2>4, StoreStep
<1>6. CASE CreateParent(d)
  <2>1. PICK j : jobs' = [jobs EXCEPT ![j] = Pending]
    BY <1>6 DEF CreateParent
  <2>2. delivery[d].pc \in {"parent", "mend"} /\ delivery'[d].pc \in {"upload", "split"}
    BY <1>1, <1>6 DEF CreateParent, Goto, DeliveryRec
  <2>3. d \notin MadeParent /\ d \in MadeParent'
    BY <2>2 DEF MadeParent
  <2>4. ASSUME NEW l \in Line PROVE d \notin MadeChunk(l)
    BY <2>2 DEF MadeChunk
  <2> QED BY <1>0, <1>2, <1>3, <1>4, <2>1, <2>3, <2>4, StoreStep
<1>7. CASE SplitFile(d)
  <2>1. jobs' = jobs
    BY <1>7 DEF SplitFile
  <2>2. delivery[d].pc = "split" /\ delivery'[d].pc \in {"store", "done"}
    BY <1>1, <1>7 DEF SplitFile, At, Goto, DeliveryRec
  <2>3. d \in MadeParent'
    BY <2>2 DEF MadeParent
  <2>4. ASSUME NEW l \in Line PROVE d \notin MadeChunk(l)
    BY <2>2 DEF MadeChunk
  <2> QED BY <1>0, <1>2, <1>3, <1>4, <2>1, <2>3, <2>4, StoreStep
<1>8. CASE StoreChunk(d)
  <2>0. PICK f, k, j, t : f = delivery[d].file /\ k = delivery[d].chunk /\ j = <<f, k, d>> /\ t = Len(Split)
    OBVIOUS
  <2>1. /\ delivery[d].pc = "store" /\ jobs' = [jobs EXCEPT ![j] = Pending]
        /\ \/ Goto(d, "done")
           \/ delivery' = [delivery EXCEPT ![d].chunk = k + 1]
    BY <1>8, <2>0 DEF StoreChunk, At
  <2>2. Long /\ k \in 1 .. t /\ t \in Nat
    BY <1>0, <1>1, <2>0, <2>1 DEF DeliveryOK
  <2>3. \/ delivery'[d].pc = "done"
        \/ delivery'[d].pc = "store" /\ delivery'[d].chunk = k + 1
    <3>1. delivery[d] \in [pc: Place, file: 0 .. Len(files), chunk: Nat]
      BY <1>1 DEF DeliveryRec
    <3>2. CASE Goto(d, "done")
      BY <1>1, <3>1, <3>2 DEF Goto
    <3>3. CASE delivery' = [delivery EXCEPT ![d].chunk = k + 1]
      BY <1>1, <2>1, <3>1, <3>3
    <3> QED BY <2>1, <3>2, <3>3
  <2>4. d \in MadeParent'
    BY <2>3 DEF MadeParent
  <2>5. ASSUME NEW l \in Line
        PROVE  /\ d \in MadeChunk(l) => d \in MadeChunk(l)'
               /\ l \in Split[k] => d \notin MadeChunk(l) /\ d \in MadeChunk(l)'
    <3>1. /\ DOMAIN Split = 1 .. t
          /\ \A i, m \in 1 .. t : i # m => Split[i] \cap Split[m] = {}
      BY <1>0, <1>1, <2>0, SplitFacts
    <3>2. d \in MadeChunk(l) <=> \A i \in 1 .. t : i >= k => l \notin Split[i]
      BY <2>0, <2>1, <2>2, <3>1 DEF MadeChunk
    <3>3. (\A i \in 1 .. t : i >= k + 1 => l \notin Split[i]) => d \in MadeChunk(l)'
      BY <1>1, <2>2, <2>3, <3>1 DEF MadeChunk
    <3>4. \A i \in 1 .. t : i >= k + 1 => i >= k /\ i # k
      BY <2>2
    <3>5. k >= k
      BY <2>2
    <3>6. d \in MadeChunk(l) => d \in MadeChunk(l)'
      BY <3>2, <3>3, <3>4
    <3>7. l \in Split[k] => d \notin MadeChunk(l)
      BY <2>2, <3>2, <3>5
    <3>8. l \in Split[k] => d \in MadeChunk(l)'
      BY <2>2, <3>1, <3>3, <3>4
    <3> QED BY <3>6, <3>7, <3>8
  <2>6. \A l : l \in LinesOf(j) <=> l \in Split[k]
    <3>1. j[2] = k /\ k # 0
      BY <2>0, <2>2
    <3> QED BY <3>1 DEF LinesOf, IsChunk
  <2>7. \A l \in Line : /\ MadeParent \subseteq MadeParent'
                        /\ MadeChunk(l) \subseteq MadeChunk(l)'
                        /\ l \notin LinesOf(j) \/ \E e \in MadeChunk(l)' : e \notin MadeChunk(l)
    BY <1>3, <1>4, <2>4, <2>5, <2>6
  <2> QED BY <1>0, <1>2, <2>1, <2>7, StoreStep
<1> QED BY <1>5, <1>6, <1>7, <1>8 DEF Import

LEMMA WorkBound ==
  ASSUME BInv, NEW w \in Worker, Work(w)
  PROVE  BInv'
<1>0. LInv /\ TInv /\ Grown /\ LInv' /\ WorkerOK(w)
  BY WorkLocal, WorkGrows DEF BInv, LInv
<1>1. /\ jobs \in [JobId -> Job] /\ runs \in [Line -> Nat]
      /\ worker \in [Worker -> [pc: WorkerPC, job: JobId \cup {Nobody}]]
      /\ length' = length /\ (\A i : LinesOf(i)' = LinesOf(i))
  BY <1>0, FileTypes, GrownFacts DEF Grown
<1>2. /\ delivery' = delivery
      /\ \A v \in Worker \ {w} : worker'[v] = worker[v]
  BY <1>1 DEF Work, Claim, CountJobs, Size, Run, Finish, Proceed
<1>3. MadeParent \subseteq MadeParent' /\ \A l \in Line : MadeChunk(l) \subseteq MadeChunk(l)'
  BY <1>1, <1>2 DEF MadeParent, MadeChunk, Split, Long
<1>4. IsFiniteSet(Busy')
  <2>1. Busy' \subseteq Busy \cup {w}
    BY <1>2 DEF Busy
  <2>2. IsFiniteSet(Busy \cup {w})
    BY FS_AddElement DEF BInv
  <2> QED BY <2>1, <2>2, FS_Subset
<1>5. ASSUME Waiting' \subseteq Waiting,
             \A l \in Line : Shift(runs[l], runs'[l], Open(l), Open(l)', Doing(l), Doing(l)',
                                   MadeParent, MadeParent', MadeChunk(l), MadeChunk(l)')
      PROVE  BInv'
  <2>1. IsFiniteSet(Waiting')
    BY <1>5, FS_Subset DEF BInv
  <2>2. \A l \in Line : Bounded(l)'
    BY <1>0, <1>1, <1>4, <1>5, <2>1, BoundStep
  <2> QED BY <1>0, <1>4, <2>1, <2>2 DEF BInv
<1>6. CASE Claim(w)
  <2>1. PICK j \in JobId :
          /\ worker[w].pc = "idle" /\ jobs[j].status = "pending" /\ runs' = runs
          /\ jobs' = [jobs EXCEPT ![j] = [status |-> "processing", owner |-> w]]
          /\ worker' = [worker EXCEPT ![w] =
                          [pc |-> IF IsChunk(j) THEN "run" ELSE "count", job |-> j]]
    BY <1>6 DEF Claim
  <2>2. /\ jobs'[j].status = "processing"
        /\ worker'[w].pc = (IF IsChunk(j) THEN "run" ELSE "count") /\ worker'[w].job = j
        /\ \A i \in JobId \ {j} : jobs'[i] = jobs[i]
    BY <1>1, <2>1
  <2>3. Waiting' \subseteq Waiting
    BY <2>1, <2>2 DEF Waiting
  <2>4. ASSUME NEW l \in Line
        PROVE  Shift(runs[l], runs'[l], Open(l), Open(l)', Doing(l), Doing(l)',
                     MadeParent, MadeParent', MadeChunk(l), MadeChunk(l)')
    <3>1. runs'[l] = runs[l] /\ Open(l)' \subseteq Open(l) \ {j}
      BY <1>1, <2>1, <2>2 DEF Open
    <3>2. CASE l \in LinesOf(j)
      <4>1. j \in Open(l)
        BY <2>1, <3>2 DEF Open
      <4>2. Doing(l)' \subseteq Doing(l) \cup {w}
        BY <1>1, <1>2 DEF Doing
      <4> QED BY <1>3, <3>1, <4>1, <4>2 DEF Shift
    <3>3. CASE l \notin LinesOf(j)
      <4>1. LinesOf(worker[w].job)' = LinesOf(j)
        <5>1. LinesOf(j)' = LinesOf(j)
          BY <1>1
        <5> QED BY <2>2, <5>1
      <4>2. Doing(l)' \subseteq Doing(l)
        <5>1. w \notin Doing(l)'
          BY <3>3, <4>1 DEF Doing
        <5>2. \A v \in Worker \ {w} : LinesOf(worker[v].job)' = LinesOf(worker[v].job)
          BY <1>1, <1>2
        <5>3. \A v \in Worker \ {w} : v \in Doing(l)' => v \in Doing(l)
          BY <1>2, <5>2 DEF Doing
        <5>4. Doing(l)' \subseteq Worker
          BY DEF Doing
        <5> QED BY <5>1, <5>3, <5>4
      <4> QED BY <1>3, <3>1, <4>2 DEF Shift
    <3> QED BY <3>2, <3>3
  <2> QED BY <1>5, <2>3, <2>4
<1>7. CASE CountJobs(w) \/ Size(w) \/ Run(w)
  <2>1. PICK place \in {"complete", "size", "run", "failed"} : Proceed(w, place)
    BY <1>7 DEF CountJobs, Size, Run
  <2>2. PICK j : j = worker[w].job
    OBVIOUS
  <2>3. jobs' = jobs /\ worker[w].pc \in {"count", "size", "run"}
    BY <1>7 DEF CountJobs, Size, Run
  <2>4. worker'[w].pc = place /\ worker'[w].job = j
    BY <1>1, <2>1, <2>2 DEF Proceed
  <2>5. Waiting' \subseteq Waiting
    BY <2>3 DEF Waiting
  <2>6. ASSUME NEW l \in Line
        PROVE  Shift(runs[l], runs'[l], Open(l), Open(l)', Doing(l), Doing(l)',
                     MadeParent, MadeParent', MadeChunk(l), MadeChunk(l)')
    <3>1. Open(l)' \subseteq Open(l)
      BY <1>1, <2>3 DEF Open
    <3>2. \A v \in Worker : LinesOf(worker[v].job)' = LinesOf(worker[v].job)
      <4>1. \A v \in Worker : worker'[v].job = worker[v].job
        BY <1>2, <2>2, <2>4
      <4> QED BY <1>1, <4>1
    <3>3. Doing(l)' \subseteq Doing(l)
      <4>1. \A v \in Worker : v \in Doing(l)' => v \in Doing(l)
        BY <1>2, <2>3, <3>2 DEF Doing
      <4> QED BY <4>1 DEF Doing
    <3>4. CASE runs' = runs
      BY <1>3, <3>1, <3>3, <3>4 DEF Shift
    <3>5. CASE Run(w) /\ place = "complete"
      <4>1. runs' = [i \in Line |-> IF i \in LinesOf(j) THEN runs[i] + 1 ELSE runs[i]]
            /\ worker[w].pc = "run"
        BY <2>2, <2>4, <3>5, <1>1 DEF Run, Proceed
      <4>2. CASE l \in LinesOf(j)
        <5>1. w \in Doing(l) /\ w \notin Doing(l)'
          BY <2>2, <2>4, <3>5, <4>1, <4>2 DEF Doing
        <5>2. runs'[l] = runs[l] + 1
          BY <4>1, <4>2
        <5>3. Doing(l)' \subseteq Doing(l) \ {w}
          BY <3>3, <5>1
        <5> QED BY <1>3, <3>1, <5>1, <5>2, <5>3 DEF Shift
      <4>3. CASE l \notin LinesOf(j)
        <5>1. runs'[l] = runs[l]
          BY <4>1, <4>3
        <5> QED BY <1>3, <3>1, <3>3, <5>1 DEF Shift
      <4> QED BY <4>2, <4>3
    <3>6. runs' = runs \/ (Run(w) /\ place = "complete")
      BY <1>1, <1>7, <2>1, <2>4 DEF CountJobs, Size, Run, Proceed
    <3> QED BY <3>4, <3>5, <3>6
  <2> QED BY <1>5, <2>5, <2>6
<1>8. CASE Finish(w)
  <2>1. /\ runs' = runs
        /\ worker' = [worker EXCEPT ![w] = [pc |-> "idle", job |-> Nobody]]
        /\ \A i \in JobId : jobs'[i].status = "pending" => jobs[i].status = "pending"
    BY <1>1, <1>8 DEF Finish
  <2>2. Waiting' \subseteq Waiting
    BY <2>1 DEF Waiting
  <2>3. ASSUME NEW l \in Line
        PROVE  Shift(runs[l], runs'[l], Open(l), Open(l)', Doing(l), Doing(l)',
                     MadeParent, MadeParent', MadeChunk(l), MadeChunk(l)')
    <3>1. Open(l)' \subseteq Open(l)
      BY <1>1, <2>1 DEF Open
    <3>2. worker'[w].pc = "idle"
      BY <1>1, <2>1
    <3>3. \A v \in Worker \ {w} : LinesOf(worker[v].job)' = LinesOf(worker[v].job)
      BY <1>1, <1>2
    <3>4. \A v \in Worker : v \in Doing(l)' => v \in Doing(l)
      BY <1>2, <3>2, <3>3 DEF Doing
    <3>5. Doing(l)' \subseteq Doing(l)
      BY <3>4 DEF Doing
    <3> QED BY <1>3, <2>1, <3>1, <3>5 DEF Shift
  <2> QED BY <1>5, <2>2, <2>3
<1> QED BY <1>6, <1>7, <1>8 DEF Work

LEMMA NextBound == BInv /\ [Next]_vars => BInv'
<1> SUFFICES ASSUME BInv, [Next]_vars PROVE BInv'
  OBVIOUS
<1>0. LInv' /\ LInv
  BY NextLocal DEF BInv
<1>1. CASE Age \/ UNCHANGED vars
  <2>1. UNCHANGED <<length, jobs, delivery, worker, runs>>
    BY <1>1 DEF Age, vars
  <2>2. Waiting' = Waiting /\ Busy' = Busy
    BY <2>1 DEF Waiting, Busy
  <2>3. ASSUME NEW l \in Line PROVE Bounded(l)'
    <3>1. Open(l)' = Open(l) /\ Doing(l)' = Doing(l)
      BY <2>1 DEF Open, Doing, LinesOf, Split
    <3>2. MadeParent' = MadeParent /\ MadeChunk(l)' = MadeChunk(l)
      BY <2>1 DEF MadeParent, MadeChunk, Split, Long
    <3> QED BY <2>1, <3>1, <3>2 DEF BInv, Bounded
  <2> QED BY <1>0, <2>2, <2>3 DEF BInv
<1> QED BY <1>1, DeliveryBound, WorkBound DEF Next

(***************************************************************************)
(* For any deliveries, workers, length and size of chunks: a delivery of   *)
(* CreateBatchJobsFromBlobUri makes a line of a short file be processed at *)
(* most once more, and one of a long file at most twice: what workers run  *)
(* is backed by a parent or a chunk job that some delivery stored, and     *)
(* each job that is stored is run once at most.                            *)
(***************************************************************************)
THEOREM RunsCorrect == Spec => []RunsBounded
<1>1. BInv => RunsBounded
  <2> DEFINE begun == {d \in Delivery : ~ At(d, "new")}
             b == Cardinality(begun)
  <2> SUFFICES ASSUME BInv, NEW l \in Line PROVE runs[l] <= b * (IF Long THEN 2 ELSE 1)
    BY DEF RunsBounded
  <2> DEFINE r == runs[l]
             o == Cardinality(Open(l))
             v == Cardinality(Doing(l))
             p == Cardinality(MadeParent)
             c == Cardinality(MadeChunk(l))
  <2>1. IsFiniteSet(begun) /\ MadeParent \subseteq begun /\ MadeChunk(l) \subseteq begun
        /\ (~ Long => MadeChunk(l) = {})
    <3>1. begun \subseteq Delivery
      OBVIOUS
    <3> QED BY <3>1, ConstantTypes, FS_Subset DEF MadeParent, MadeChunk, At
  <2>2. /\ b \in Nat /\ p \in Nat /\ c \in Nat /\ p <= b /\ c <= b /\ (~ Long => c = 0)
    BY <2>1, FS_Subset, FS_CardinalityType, FS_EmptySet
  <2>3. r \in Nat /\ o \in Nat /\ v \in Nat
    <3>1. Open(l) \subseteq Waiting /\ Doing(l) \subseteq Busy
      BY DEF Open, Waiting, Doing, Busy
    <3>2. IsFiniteSet(Open(l)) /\ IsFiniteSet(Doing(l))
      BY <3>1, FS_Subset DEF BInv
    <3>3. r \in Nat
      BY DEF BInv, LInv, TInv, TypeOK
    <3> QED BY <3>2, <3>3, FS_CardinalityType
  <2>4. r + o + v <= p + c
    BY DEF BInv, Bounded, Within
  <2> HIDE DEF b, r, o, v, p, c
  <2>5. r <= b * (IF Long THEN 2 ELSE 1)
    <3>1. CASE Long
      BY <2>2, <2>3, <2>4, <3>1
    <3>2. CASE ~ Long
      BY <2>2, <2>3, <2>4, <3>2
    <3> QED BY <3>1, <3>2
  <2> QED BY <2>5 DEF r
<1> QED BY <1>1, StartBound, NextBound, PTL DEF Spec

=============================================================================
