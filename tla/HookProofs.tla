----------------------------- MODULE HookProofs -----------------------------
(***************************************************************************)
(* Proof that the command on a document has the options of the hook, for a *)
(* hook with any number of options.                                        *)
(*                                                                         *)
(* A command is the words of its options, one option behind the other.     *)
(* Each loop over the words goes through the options: an index that a turn *)
(* has reached is the first word of an option, the words before it are     *)
(* what is left of the options before, and the words from there on are as  *)
(* they were.  That is shown by induction over the turns, and what the     *)
(* words are by induction over the options.                                *)
(***************************************************************************)
EXTENDS HookCommand, SequencesExt, SequenceTheorems, FiniteSetTheorems, TLAPS

\* Every set of numbers that is not empty has a smallest one: the initial
\* segments 0..k are finite sets, and so well-founded by inclusion.
LEMMA Smallest ==
  ASSUME NEW S \in SUBSET Nat, S # {}
  PROVE  \E m \in S : \A k \in S : m <= k
<1> DEFINE Upto == {0..k : k \in S}
<1>1. /\ Upto # {}
      /\ Upto \subseteq FiniteSubsetsOf(Nat)
  <2>1. \A k \in S : 0..k \in SUBSET Nat /\ IsFiniteSet(0..k)
    BY FS_Interval
  <2>2. \A k \in S : 0..k \in FiniteSubsetsOf(Nat)
    BY <2>1 DEF FiniteSubsetsOf
  <2>3. QED  BY <2>2
<1>2. PICK U \in Upto : \A V \in Upto : ~(<<V, U>> \in StrictSubsetOrdering(Nat))
  <2>1. IsWellFoundedOn(StrictSubsetOrdering(Nat), FiniteSubsetsOf(Nat))
    BY FS_StrictSubsetOrderingWellFounded, Zenon
  <2>2. QED  BY <1>1, <2>1, WFMin, Zenon
<1>3. PICK m \in S : U = 0..m  BY <1>2
<1>4. ASSUME NEW k \in S, k < m
      PROVE  FALSE
  <2>1. 0..k \in Upto  OBVIOUS
  <2>2. 0..k \subseteq 0..m /\ 0..k # 0..m  BY <1>4
  <2>3. <<0..k, 0..m>> \in StrictSubsetOrdering(Nat)
    BY <2>2 DEF StrictSubsetOrdering
  <2>4. QED  BY <1>2, <1>3, <2>1, <2>3
<1>5. QED  BY <1>4

\* Induction: a set with 0 and the successor of what is in it has every number.
LEMMA InductiveSet ==
  ASSUME NEW S \in SUBSET Nat, 0 \in S, \A n \in S : n + 1 \in S
  PROVE  S = Nat
<1>1. SUFFICES ASSUME Nat \ S # {} PROVE FALSE  OBVIOUS
<1>2. PICK m \in Nat \ S : \A k \in Nat \ S : m <= k  BY <1>1, Smallest
<1>3. m # 0 /\ m - 1 \in Nat  BY <1>2
<1>4. m - 1 \in S  BY <1>2, <1>3
<1>5. QED  BY <1>2, <1>4

\* A function on 0..n whose value at each number is made of the one before exists.
StepByStep(f, n, base, step) ==
  f[0] = base /\ \A m \in 1..n : f[m] = step[m][f[m - 1]]

LEMMA Recursion ==
  ASSUME NEW V, NEW base \in V, NEW step \in [Nat -> [V -> V]], NEW n \in Nat
  PROVE  \E f \in [0..n -> V] : StepByStep(f, n, base, step)
<1> DEFINE Takes(f, k) == f[0] = base /\ \A m \in 1..k : f[m] = step[m][f[m - 1]]
           Made == {k \in Nat : \E f \in [0..k -> V] : Takes(f, k)}
<1>1. 0 \in Made
  <2> DEFINE f == [m \in 0..0 |-> base]
  <2>1. f \in [0..0 -> V] /\ Takes(f, 0)
    OBVIOUS
  <2>2. QED
    BY <2>1
<1>2. ASSUME NEW k \in Made PROVE k + 1 \in Made
  <2>1. PICK f \in [0..k -> V] : Takes(f, k)
    OBVIOUS
  <2> DEFINE h == [m \in 0..(k + 1) |-> IF m = k + 1 THEN step[k + 1][f[k]] ELSE f[m]]
  <2>2. \A m \in 0..(k + 1) : h[m] \in V
    <3>1. f[k] \in V /\ step[k + 1] \in [V -> V]
      OBVIOUS
    <3>2. QED
      BY <3>1
  <2>3. h \in [0..(k + 1) -> V]
    BY <2>2
  <2>4. h[0] = base
    BY <2>1
  <2>5. ASSUME NEW m \in 1..(k + 1) PROVE h[m] = step[m][h[m - 1]]
    <3>1. CASE m = k + 1
      BY <3>1
    <3>2. CASE m # k + 1
      <4>1. m \in 1..k /\ m \in 0..(k + 1) /\ m - 1 \in 0..(k + 1) /\ m - 1 # k + 1
        BY <3>2
      <4>2. QED
        BY <2>1, <3>2, <4>1
    <3>3. QED
      BY <3>1, <3>2
  <2> HIDE DEF h
  <2>6. Takes(h, k + 1) /\ k + 1 \in Nat
    BY <2>4, <2>5
  <2>7. QED
    BY <2>3, <2>6
<1>3. n \in Made
  <2> HIDE DEF Made
  <2>1. Made \in SUBSET Nat
    BY DEF Made
  <2>2. QED
    BY <1>1, <1>2, <2>1, InductiveSet
<1>4. QED
  BY <1>3 DEF StepByStep


LEMMA ByInduction ==
  ASSUME NEW n \in Nat, NEW S \in SUBSET Nat, 0 \in S, \A m \in S : m < n => m + 1 \in S
  PROVE  \A m \in 0..n : m \in S
<1> DEFINE T == {m \in Nat : m <= n => m \in S}
<1>1. 0 \in T
  OBVIOUS
<1>2. ASSUME NEW m \in T PROVE m + 1 \in T
  BY DEF T
<1>3. T = Nat
  <2> HIDE DEF T
  <2>1. T \in SUBSET Nat
    BY DEF T
  <2>2. QED
    BY <1>1, <1>2, <2>1, InductiveSet
<1>4. \A m \in 0..n : m \in T /\ m <= n
  <2> HIDE DEF T
  <2>1. QED
    BY <1>3
<1>5. QED
  BY <1>4

-----------------------------------------------------------------------------
(* The words of the hook's command *)

Texts == {"cros", "verb", "--check", "--commit", "sha", "--exclude", "dir", "--include",
          "${PRESUBMIT_FILES}", "--", "-v"}
Words == [word : Texts, resolved : BOOLEAN]
Chunks == Options \cup {<<"cros">>, <<"verb">>}

\* The length of a sequence, and a sequence with another one behind it.
Length(s) == Len(s)
Joined(s, t) == s \o t

LEMMA JoinedFacts ==
  ASSUME NEW S, NEW s \in Seq(S), NEW t \in Seq(S)
  PROVE  /\ Joined(s, t) \in Seq(S)
         /\ Length(Joined(s, t)) = Length(s) + Length(t)
         /\ \A i \in 1..Length(s) : Joined(s, t)[i] = s[i]
         /\ \A i \in 1..Length(t) : Joined(s, t)[Length(s) + i] = t[i]
BY DEF Joined, Length

\* W[k] is what the first k of the pieces w are together.
Pieces(W, w, n) ==
  /\ n \in Nat /\ Length(W[0]) = 0
  /\ \A k \in 0..n : W[k] \in Seq(Words)
  /\ \A k \in 1..n : w[k] \in Seq(Words)
  /\ \A k \in 1..n :
       /\ Length(W[k]) = Length(W[k - 1]) + Length(w[k])
       /\ \A j \in 1..Length(W[k - 1]) : W[k][j] = W[k - 1][j]
       /\ \A j \in 1..Length(w[k]) : W[k][Length(W[k - 1]) + j] = w[k][j]

\* What the first pieces are together is the beginning of what more are.
Begins(W, k, n) ==
  /\ Length(W[k]) <= Length(W[n])
  /\ \A j \in 1..Length(W[k]) : W[n][j] = W[k][j]

LEMMA PieceFacts ==
  ASSUME NEW n \in Nat, NEW W, NEW w, Pieces(W, w, n)
  PROVE  /\ n \in Nat
         /\ \A k \in 0..n : W[k] \in Seq(Words) /\ Length(W[k]) \in Nat
         /\ \A k \in 1..n : w[k] \in Seq(Words) /\ Length(w[k]) \in Nat
         /\ Length(W[0]) = 0
<1>1. /\ n \in Nat /\ Length(W[0]) = 0
      /\ \A k \in 0..n : W[k] \in Seq(Words)
      /\ \A k \in 1..n : w[k] \in Seq(Words)
  BY DEF Pieces
<1>2. \A s \in Seq(Words) : Length(s) \in Nat
  BY LenProperties DEF Length
<1>3. QED
  BY <1>1, <1>2

LEMMA BeginsOn ==
  ASSUME NEW W, NEW k, NEW l, NEW m, Begins(W, k, l), Begins(W, l, m),
         Length(W[k]) \in Nat, Length(W[l]) \in Nat, Length(W[m]) \in Nat
  PROVE  Begins(W, k, m)
BY DEF Begins

\* The piece behind the first c is put at their end.
Adds(W, w, c) ==
  /\ Length(W[c]) \in Nat /\ Length(w[c + 1]) \in Nat
  /\ Length(W[c + 1]) = Length(W[c]) + Length(w[c + 1])
  /\ \A j \in 1..Length(W[c]) : W[c + 1][j] = W[c][j]
  /\ \A j \in 1..Length(w[c + 1]) : W[c + 1][Length(W[c]) + j] = w[c + 1][j]

LEMMA NextPiece ==
  ASSUME NEW n \in Nat, NEW W, NEW w, Pieces(W, w, n), NEW c \in 0..n, c < n
  PROVE  Adds(W, w, c)
<1>1. c + 1 \in 1..n /\ c + 1 \in 0..n /\ (c + 1) - 1 = c
  BY PieceFacts
<1>2. Length(W[c]) \in Nat /\ Length(w[c + 1]) \in Nat
  BY <1>1, PieceFacts
<1>3. ASSUME NEW k \in 1..n, k - 1 = c
      PROVE  /\ Length(W[k]) = Length(W[c]) + Length(w[k])
             /\ \A j \in 1..Length(W[c]) : W[k][j] = W[c][j]
             /\ \A j \in 1..Length(w[k]) : W[k][Length(W[c]) + j] = w[k][j]
  <2>1. /\ Length(W[k]) = Length(W[k - 1]) + Length(w[k])
        /\ \A j \in 1..Length(W[k - 1]) : W[k][j] = W[k - 1][j]
        /\ \A j \in 1..Length(w[k]) : W[k][Length(W[k - 1]) + j] = w[k][j]
    BY DEF Pieces
  <2>2. QED
    BY <1>3, <2>1
<1>4. QED
  BY <1>1, <1>2, <1>3 DEF Adds

LEMMA EarlierPieces ==
  ASSUME NEW n \in Nat, NEW W, NEW w, Pieces(W, w, n), NEW k \in 0..n, NEW p \in 0..n, k <= p
  PROVE  Begins(W, k, p)
<1>0. \A j \in 0..n : Length(W[j]) \in Nat
  BY PieceFacts
<1> DEFINE S == {l \in Nat : k <= l /\ l <= n => Begins(W, k, l)}
<1>1. 0 \in S
  <2>1. CASE k = 0
    BY <2>1, PieceFacts DEF Begins
  <2>2. CASE k # 0
    <3>1. ~(k <= 0)
      BY <2>2, PieceFacts
    <3>2. QED
      BY <3>1
  <2>3. QED
    BY <2>1, <2>2
<1>2. ASSUME NEW l \in S PROVE l + 1 \in S
  <2>1. SUFFICES ASSUME k <= l + 1, l + 1 <= n PROVE Begins(W, k, l + 1)
    OBVIOUS
  <2>2. CASE k = l + 1
    BY <2>2, PieceFacts DEF Begins
  <2>3. CASE k <= l
    <3>1. Begins(W, k, l)
      BY <2>1, <2>3, PieceFacts
    <3>2. l + 1 \in 1..n /\ (l + 1) - 1 = l /\ l \in 0..n
      BY <2>1, PieceFacts
    <3>3. Begins(W, l, l + 1)
      <4> HIDE DEF S
      <4>1. /\ Length(W[l]) \in Nat /\ Length(w[l + 1]) \in Nat
            /\ Length(W[l + 1]) = Length(W[l]) + Length(w[l + 1])
            /\ \A j \in 1..Length(W[l]) : W[l + 1][j] = W[l][j]
        <5>1. l \in 0..n /\ l < n
          BY <2>1, <3>2, PieceFacts
        <5>2. QED
          BY <5>1, NextPiece DEF Adds
      <4>2. Length(W[l]) <= Length(W[l + 1])
        BY <4>1
      <4>3. QED
        BY <4>1, <4>2 DEF Begins
    <3>4. Length(W[k]) \in Nat /\ Length(W[l]) \in Nat /\ Length(W[l + 1]) \in Nat
      <4> HIDE DEF S
      <4>1. QED
        BY <1>0, <3>2
    <3>5. QED
      BY <3>1, <3>3, <3>4, BeginsOn
  <2>4. QED
    BY <2>1, <2>2, <2>3, PieceFacts
<1>3. p \in S
  <2> HIDE DEF S
  <2>1. S \in SUBSET Nat /\ p \in Nat
    BY DEF S
  <2>2. QED
    BY <1>1, <1>2, <2>1, InductiveSet
<1>4. QED
  BY <1>3, PieceFacts

LEMMA FirstPieces ==
  ASSUME NEW n \in Nat, NEW W, NEW w, Pieces(W, w, n), NEW k \in 0..n
  PROVE  Begins(W, k, n)
<1>1. n \in 0..n /\ k <= n
  BY PieceFacts
<1>2. QED
  BY <1>1, EarlierPieces

\* A loop that changes the words W[n] into F[n], piece by piece: c pieces are as
\* they will be, and the others as they were.
Reached(a, c, W, F, n) ==
  /\ c \in 0..n /\ a \in Seq(Words)
  /\ Length(a) = Length(F[c]) + (Length(W[n]) - Length(W[c]))
  /\ \A j \in 1..Length(F[c]) : a[j] = F[c][j]
  /\ \A j \in 1..(Length(W[n]) - Length(W[c])) : a[Length(F[c]) + j] = W[n][Length(W[c]) + j]

LEMMA NothingReached ==
  ASSUME NEW n \in Nat, NEW W, NEW w, NEW F, NEW f, Pieces(W, w, n), Pieces(F, f, n)
  PROVE  Reached(W[n], 0, W, F, n)
<1>1. /\ 0 \in 0..n /\ W[n] \in Seq(Words) /\ Length(F[0]) = 0 /\ Length(W[0]) = 0
      /\ Length(W[n]) \in Nat
  BY PieceFacts
<1>2. QED
  BY <1>1 DEF Reached

\* The words of the next piece are those behind what was reached.
Follows(a, y, w) == \A j \in 1..Length(w) : a[y + j] = w[j]

LEMMA NextWords ==
  ASSUME NEW n \in Nat, NEW W, NEW w, NEW F, NEW f, Pieces(W, w, n), Pieces(F, f, n),
         NEW a, NEW c \in 0..n, c < n, Reached(a, c, W, F, n)
  PROVE  /\ Length(w[c + 1]) <= Length(W[n]) - Length(W[c])
         /\ Follows(a, Length(F[c]), w[c + 1])
<1> DEFINE x == Length(W[c])
           z == Length(w[c + 1])
           m == Length(W[n])
<1>1. c + 1 \in 1..n /\ c + 1 \in 0..n /\ (c + 1) - 1 = c
  BY PieceFacts
<1>2. x \in Nat /\ z \in Nat /\ m \in Nat
  BY <1>1, PieceFacts
<1>3. /\ Length(W[c + 1]) = x + z
      /\ \A j \in 1..z : W[c + 1][x + j] = w[c + 1][j]
  BY NextPiece DEF Adds
<1>4. /\ Length(W[c + 1]) <= m
      /\ \A j \in 1..Length(W[c + 1]) : W[n][j] = W[c + 1][j]
  BY <1>1, FirstPieces DEF Begins
<1>5. \A j \in 1..(m - x) : a[Length(F[c]) + j] = W[n][x + j]
  BY DEF Reached
<1> HIDE DEF x, z, m
<1>6. ASSUME NEW j \in 1..z PROVE a[Length(F[c]) + j] = w[c + 1][j]
  <2>1. j \in 1..(m - x) /\ x + j \in 1..Length(W[c + 1])
    BY <1>2, <1>3, <1>4
  <2>2. QED
    BY <1>3, <1>4, <1>5, <2>1
<1>7. z <= m - x
  BY <1>2, <1>3, <1>4
<1>8. QED
  BY <1>6, <1>7 DEF x, z, m, Follows

\* The next piece is changed, and nothing before and behind it.
Replaced(a, b, y, z, f) ==
  /\ b \in Seq(Words) /\ Length(b) = Length(a) - z + Length(f)
  /\ \A j \in 1..y : b[j] = a[j]
  /\ \A j \in 1..Length(f) : b[y + j] = f[j]
  /\ \A j \in 1..(Length(a) - (y + z)) : b[y + Length(f) + j] = a[y + z + j]

LEMMA PieceChanged ==
  ASSUME NEW n \in Nat, NEW W, NEW w, NEW F, NEW f, Pieces(W, w, n), Pieces(F, f, n),
         NEW a, NEW b, NEW c \in 0..n, c < n, Reached(a, c, W, F, n),
         Replaced(a, b, Length(F[c]), Length(w[c + 1]), f[c + 1])
  PROVE  Reached(b, c + 1, W, F, n)
<1> DEFINE x == Length(W[c])
           y == Length(F[c])
           z == Length(w[c + 1])
           q == Length(f[c + 1])
           m == Length(W[n])
<1>1. c + 1 \in 1..n /\ c + 1 \in 0..n /\ (c + 1) - 1 = c
  BY PieceFacts
<1>2. x \in Nat /\ y \in Nat /\ z \in Nat /\ q \in Nat /\ m \in Nat
  <2>1. x \in Nat /\ m \in Nat /\ z \in Nat
    BY <1>1, PieceFacts
  <2>2. y \in Nat /\ q \in Nat
    BY <1>1, PieceFacts
  <2>3. QED
    BY <2>1, <2>2
<1>3. Length(W[c + 1]) = x + z
  <2>1. Adds(W, w, c)
    BY NextPiece
  <2>2. QED
    BY <2>1 DEF Adds
<1>4. /\ Length(F[c + 1]) = y + q
      /\ \A j \in 1..y : F[c + 1][j] = F[c][j]
      /\ \A j \in 1..q : F[c + 1][y + j] = f[c + 1][j]
  <2>1. Adds(F, f, c)
    BY NextPiece
  <2>2. QED
    BY <2>1 DEF Adds
<1>5. /\ Length(a) = y + (m - x)
      /\ \A j \in 1..y : a[j] = F[c][j]
      /\ \A j \in 1..(m - x) : a[y + j] = W[n][x + j]
  BY DEF Reached
<1>6. /\ b \in Seq(Words) /\ Length(b) = Length(a) - z + q
      /\ \A j \in 1..y : b[j] = a[j]
      /\ \A j \in 1..q : b[y + j] = f[c + 1][j]
      /\ \A j \in 1..(Length(a) - (y + z)) : b[y + q + j] = a[y + z + j]
  BY DEF Replaced
<1> HIDE DEF x, y, z, q, m
<1>7. Length(b) = (y + q) + (m - (x + z))
  BY <1>2, <1>5, <1>6
<1>8. ASSUME NEW j \in 1..(y + q) PROVE b[j] = F[c + 1][j]
  <2>1. CASE j <= y
    BY <1>2, <1>4, <1>5, <1>6, <2>1
  <2>2. CASE j > y
    <3>1. PICK i \in 1..q : j = y + i
      <4>1. j - y \in 1..q /\ j = y + (j - y)
        BY <1>2, <2>2
      <4>2. QED
        BY <4>1
    <3>2. QED
      BY <1>4, <1>6, <3>1
  <2>3. QED
    BY <1>2, <2>1, <2>2
<1>9. ASSUME NEW j \in 1..(m - (x + z)) PROVE b[(y + q) + j] = W[n][(x + z) + j]
  <2>1. /\ z + j \in 1..(m - x) /\ j \in 1..(Length(a) - (y + z))
        /\ y + (z + j) = y + z + j /\ x + (z + j) = (x + z) + j
    BY <1>2, <1>5
  <2>2. b[y + q + j] = a[y + z + j] /\ a[y + (z + j)] = W[n][x + (z + j)]
    BY <1>5, <1>6, <2>1
  <2>3. QED
    BY <2>1, <2>2
<1>10. QED
  BY <1>1, <1>3, <1>4, <1>6, <1>7, <1>8, <1>9 DEF Reached, m

\* A piece that stays as it is needs no change.
LEMMA PiecePassed ==
  ASSUME NEW n \in Nat, NEW W, NEW w, NEW F, NEW f, Pieces(W, w, n), Pieces(F, f, n),
         NEW a, NEW c \in 0..n, c < n, Reached(a, c, W, F, n), w[c + 1] = f[c + 1]
  PROVE  Reached(a, c + 1, W, F, n)
<1>1. a \in Seq(Words) /\ Length(a) \in Nat
  BY LenProperties DEF Reached, Length
<1>2. Length(w[c + 1]) \in Nat
  <2>1. c + 1 \in 1..n
    OBVIOUS
  <2>2. QED
    BY <2>1, PieceFacts
<1>3. \A j \in 1..Length(f[c + 1]) : a[Length(F[c]) + j] = f[c + 1][j]
  <2>1. \A j \in 1..Length(w[c + 1]) : a[Length(F[c]) + j] = w[c + 1][j]
    BY NextWords DEF Follows
  <2>2. QED
    BY <2>1
<1>4. Length(a) = Length(a) - Length(w[c + 1]) + Length(f[c + 1])
  BY <1>1, <1>2
<1>5. Replaced(a, a, Length(F[c]), Length(w[c + 1]), f[c + 1])
  BY <1>1, <1>3, <1>4 DEF Replaced
<1>6. QED
  BY <1>5, PieceChanged

LEMMA AllReached ==
  ASSUME NEW n \in Nat, NEW W, NEW w, NEW F, NEW f, Pieces(W, w, n), Pieces(F, f, n),
         NEW a, Reached(a, n, W, F, n)
  PROVE  a = F[n]
<1>1. /\ a \in Seq(Words) /\ Length(a) = Length(F[n]) + (Length(W[n]) - Length(W[n]))
      /\ \A j \in 1..Length(F[n]) : a[j] = F[n][j]
  BY DEF Reached
<1>2. F[n] \in Seq(Words) /\ Length(F[n]) \in Nat /\ Length(W[n]) \in Nat
  BY PieceFacts
<1>3. Length(a) = Length(F[n])
  BY <1>1, <1>2
<1> HIDE DEF Words
<1>4. QED
  BY <1>1, <1>2, <1>3, SeqEqual DEF Length

\* So if all the pieces behind stay as they are, the loop may stop.
LEMMA OthersPassed ==
  ASSUME NEW n \in Nat, NEW W, NEW w, NEW F, NEW f, Pieces(W, w, n), Pieces(F, f, n),
         NEW a, NEW c \in 0..n, Reached(a, c, W, F, n),
         \A k \in 1..n : k > c => w[k] = f[k]
  PROVE  a = F[n]
<1> DEFINE S == {k \in Nat : c <= k /\ k <= n => Reached(a, k, W, F, n)}
<1>1. 0 \in S
  <2>1. CASE c = 0
    BY <2>1
  <2>2. CASE c # 0
    <3>1. ~(c <= 0)
      BY <2>2, PieceFacts
    <3>2. QED
      BY <3>1
  <2>3. QED
    BY <2>1, <2>2
<1>2. ASSUME NEW k \in S PROVE k + 1 \in S
  <2>1. SUFFICES ASSUME c <= k + 1, k + 1 <= n PROVE Reached(a, k + 1, W, F, n)
    OBVIOUS
  <2>2. CASE c = k + 1
    BY <2>2
  <2>3. CASE c <= k
    <3>1. Reached(a, k, W, F, n)
      BY <2>1, <2>3, PieceFacts
    <3>2. k \in 0..n /\ k < n /\ k + 1 \in 1..n /\ k + 1 > c
      BY <2>1, <2>3, PieceFacts
    <3>3. w[k + 1] = f[k + 1]
      BY <3>2
    <3>4. QED
      BY <3>1, <3>2, <3>3, PiecePassed
  <2>4. QED
    BY <2>1, <2>2, <2>3, PieceFacts
<1>3. Reached(a, n, W, F, n)
  <2>1. n \in S
    <3> HIDE DEF S
    <3>1. S \in SUBSET Nat
      BY DEF S
    <3>2. QED
      BY <1>1, <1>2, <3>1, InductiveSet, PieceFacts
  <2>2. QED
    BY <2>1, PieceFacts
<1>4. QED
  BY <1>3, AllReached

\* The index s.i is behind the pieces that were reached, or at the last word of
\* them, which has to stay (back = 1).
At(s, c, back, W, w, F, f, n) ==
  /\ back \in 0..1
  /\ Reached(s.a, c, W, F, n)
  /\ s.i = Length(F[c]) + 1 - back
  /\ back = 1 => c # 0 /\ w[c] = f[c] /\ Length(w[c]) = 2

\* The words that are still to be looked at.
Left(c, back, W, n) == Length(W[n]) - Length(W[c]) + back

LeftIsRight(c, back, W, n) ==
  /\ Left(c, back, W, n) \in Int
  /\ Left(c, back, W, n) = Length(W[n]) - Length(W[c]) + back
  /\ Length(W[n]) \in Nat /\ Length(W[c]) \in Nat

LEMMA LeftIs ==
  ASSUME NEW n \in Nat, NEW W, NEW w, Pieces(W, w, n), NEW c \in 0..n, NEW back \in 0..1
  PROVE  LeftIsRight(c, back, W, n)
<1>1. n \in 0..n
  BY PieceFacts
<1>2. Length(W[n]) \in Nat /\ Length(W[c]) \in Nat
  BY <1>1, PieceFacts
<1>3. QED
  BY <1>2 DEF Left, LeftIsRight

\* What may become of the pieces: those that change have room words at least.
Changes(w, f, n, room) ==
  \A k \in 1..n : w[k] = f[k] \/ Length(w[k]) >= room

\* What a turn makes of s: nothing if there are too few words, or it moves to
\* the next word, or it changes the next piece.
Turned(s, t, c, back, W, w, F, f, n, room) ==
  \/ Left(c, back, W, n) < room /\ t = s
  \/ t.a = s.a /\ t.i = s.i + 1 /\ back = 1
  \/ t.a = s.a /\ t.i = s.i + 1 /\ back = 0 /\ c < n
     /\ w[c + 1] = f[c + 1] /\ Length(w[c + 1]) \in 1..2
  \/ back = 0 /\ c < n /\ Length(w[c + 1]) > 0
     /\ Reached(t.a, c + 1, W, F, n) /\ t.i = Length(F[c + 1]) + 1

States == [a : Seq(Words), i : Nat \ {0}]

\* A turn does this wherever the loop is, at the end or before a piece with words.
Turns(turn, W, w, F, f, n, room) ==
  \A s \in States, c \in 0..n, back \in 0..1 :
    At(s, c, back, W, w, F, f, n) /\ (back = 0 => c = n \/ Length(w[c + 1]) > 0)
      => Turned(s, turn[s], c, back, W, w, F, f, n, room)

\* The index is nowhere else than before a piece with words, or at the end.
LEMMA BeforeWords ==
  ASSUME NEW n \in Nat, NEW W, NEW w, NEW F, NEW f, Pieces(W, w, n), Pieces(F, f, n),
         \A k \in 1..n : Length(w[k]) = 0 => w[k] = f[k],
         NEW s, NEW c \in 0..n, At(s, c, 0, W, w, F, f, n)
  PROVE  \E d \in 0..n :
           /\ At(s, d, 0, W, w, F, f, n) /\ Left(d, 0, W, n) = Left(c, 0, W, n)
           /\ d = n \/ Length(w[d + 1]) > 0
<1> DEFINE Fits(d) == At(s, d, 0, W, w, F, f, n) /\ Left(d, 0, W, n) = Left(c, 0, W, n)
           S == {k \in Nat : k <= n /\ Fits(n - k)}
<1>1. n \in Nat /\ n - c \in S
  <2>1. n \in Nat /\ n - c \in Nat /\ n - c <= n /\ n - (n - c) = c
    BY PieceFacts
  <2>2. Fits(c)
    OBVIOUS
  <2> HIDE DEF Fits
  <2>3. QED
    BY <2>1, <2>2
<1>2. PICK k \in S : \A l \in S : k <= l
  <2> HIDE DEF Fits
  <2>1. S \in SUBSET Nat /\ S # {}
    BY <1>1
  <2> HIDE DEF S
  <2>2. QED
    BY <2>1, Smallest
<1> DEFINE d == n - k
<1>3. d \in 0..n /\ Fits(d)
  BY <1>1, <1>2
<1>4. CASE d # n /\ Length(w[d + 1]) = 0
  <2>1. d + 1 \in 1..n /\ d + 1 \in 0..n /\ d < n /\ (d + 1) - 1 = d
    BY <1>1, <1>3, <1>4
  <2>2. w[d + 1] = f[d + 1]
    BY <1>4, <2>1
  <2>3. Reached(s.a, d, W, F, n) /\ s.i = Length(F[d]) + 1 - 0
    BY <1>3 DEF At
  <2>4. Reached(s.a, d + 1, W, F, n)
    BY <1>3, <2>1, <2>2, <2>3, PiecePassed
  <2>5. Length(F[d + 1]) = Length(F[d]) + 0 /\ Length(W[d + 1]) = Length(W[d]) + 0
    <3>1. Adds(F, f, d) /\ Adds(W, w, d)
      BY <1>3, <2>1, NextPiece
    <3>2. QED
      BY <1>4, <2>2, <3>1 DEF Adds
  <2>6. Length(F[d]) \in Nat /\ Length(W[d]) \in Nat
    BY <1>3, PieceFacts
  <2>7. At(s, d + 1, 0, W, w, F, f, n)
    BY <2>3, <2>4, <2>5, <2>6 DEF At
  <2>8. Left(d + 1, 0, W, n) = Left(d, 0, W, n)
    BY <2>5, <2>6 DEF Left
  <2>9. k - 1 \in Nat /\ k - 1 <= n /\ n - (k - 1) = d + 1
    BY <1>1, <1>2, <2>1
  <2>10. Fits(n - (k - 1))
    BY <1>3, <2>7, <2>8, <2>9
  <2>11. k - 1 \in S
    <3> HIDE DEF Fits
    <3>1. QED
      BY <2>9, <2>10
  <2>12. k <= k - 1 /\ k \in Nat
    BY <1>2, <2>11
  <2>13. QED
    BY <2>12
<1>5. CASE d = n
  BY <1>3, <1>5
<1>6. CASE d # n /\ Length(w[d + 1]) # 0
  <2>1. d + 1 \in 1..n
    BY <1>1, <1>3, <1>6
  <2>2. Length(w[d + 1]) > 0
    <3>1. Length(w[d + 1]) \in Nat
      BY <2>1, PieceFacts
    <3>2. QED
      BY <1>6, <3>1
  <2>3. QED
    BY <1>3, <2>2
<1>7. QED
  BY <1>4, <1>5, <1>6

\* A turn gets on, or there were too few words.
LEMMA TurnGetsOn ==
  ASSUME NEW n \in Nat, NEW W, NEW w, NEW F, NEW f, Pieces(W, w, n), Pieces(F, f, n),
         NEW room, NEW s, NEW t, NEW c \in 0..n, NEW back \in 0..1,
         At(s, c, back, W, w, F, f, n),
         Turned(s, t, c, back, W, w, F, f, n, room)
  PROVE  \/ Left(c, back, W, n) < room /\ t = s
         \/ \E d \in 0..n, more \in 0..1 :
              /\ At(t, d, more, W, w, F, f, n)
              /\ Left(d, more, W, n) < Left(c, back, W, n)
<1>1. /\ n \in Nat /\ Length(W[c]) \in Nat /\ Length(F[c]) \in Nat /\ Length(W[n]) \in Nat
  <2>1. n \in 0..n
    OBVIOUS
  <2>2. QED
    BY <2>1, PieceFacts
<1>2. /\ Reached(s.a, c, W, F, n) /\ s.i = Length(F[c]) + 1 - back
      /\ back = 1 => c # 0 /\ w[c] = f[c] /\ Length(w[c]) = 2
  BY DEF At
<1>3. CASE t.a = s.a /\ t.i = s.i + 1 /\ back = 1
  <2>1. t.i = Length(F[c]) + 1 - 0
    BY <1>1, <1>2, <1>3
  <2>2. At(t, c, 0, W, w, F, f, n)
    BY <1>2, <1>3, <2>1 DEF At
  <2>3. Left(c, 0, W, n) < Left(c, back, W, n)
    <3>1. LeftIsRight(c, 0, W, n) /\ LeftIsRight(c, back, W, n)
      BY LeftIs DEF LeftIsRight
    <3>2. QED
      BY <1>3, <3>1 DEF LeftIsRight
  <2>4. QED
    BY <2>2, <2>3
<1>4. ASSUME c < n
      PROVE  /\ c + 1 \in 1..n /\ c + 1 \in 0..n /\ (c + 1) - 1 = c
             /\ Length(w[c + 1]) \in Nat /\ Length(f[c + 1]) \in Nat
             /\ Length(W[c + 1]) = Length(W[c]) + Length(w[c + 1])
             /\ Length(F[c + 1]) = Length(F[c]) + Length(f[c + 1])
  <2>1. c + 1 \in 1..n /\ c + 1 \in 0..n /\ (c + 1) - 1 = c
    BY <1>1, <1>4
  <2>2. Adds(W, w, c) /\ Adds(F, f, c)
    BY <1>4, NextPiece
  <2>3. QED
    BY <2>1, <2>2 DEF Adds
<1>5. CASE /\ t.a = s.a /\ t.i = s.i + 1 /\ back = 0 /\ c < n
           /\ w[c + 1] = f[c + 1] /\ Length(w[c + 1]) \in 1..2
  <2> DEFINE more == Length(w[c + 1]) - 1
  <2>1. more \in 0..1
    BY <1>5
  <2>2. Reached(t.a, c + 1, W, F, n)
    BY <1>2, <1>5, PiecePassed
  <2>3. t.i = Length(F[c + 1]) + 1 - more
    <3>1. s.i = Length(F[c]) + 1 - 0 /\ t.i = s.i + 1
      BY <1>2, <1>5
    <3>2. Length(F[c + 1]) = Length(F[c]) + Length(w[c + 1]) /\ Length(w[c + 1]) \in Nat
      BY <1>4, <1>5
    <3>3. QED
      BY <1>1, <3>1, <3>2
  <2>4. more = 1 => c + 1 # 0 /\ w[c + 1] = f[c + 1] /\ Length(w[c + 1]) = 2
    BY <1>1, <1>5
  <2>5. Left(c + 1, more, W, n) < Left(c, back, W, n)
    <3>1. /\ Left(c + 1, more, W, n) = Length(W[n]) - Length(W[c + 1]) + more
          /\ Left(c, back, W, n) = Length(W[n]) - Length(W[c]) + 0
      <4>1. LeftIsRight(c + 1, more, W, n) /\ LeftIsRight(c, back, W, n)
        BY <1>4, <1>5, <2>1, LeftIs
      <4>2. QED
        BY <1>5, <4>1 DEF LeftIsRight
    <3>2. Length(W[c + 1]) = Length(W[c]) + more + 1
      <4>1. Length(W[c + 1]) = Length(W[c]) + Length(w[c + 1]) /\ Length(w[c + 1]) \in Nat
        BY <1>4, <1>5
      <4>2. QED
        BY <1>1, <4>1
    <3>3. QED
      BY <1>1, <2>1, <3>1, <3>2
  <2> HIDE DEF more
  <2>6. At(t, c + 1, more, W, w, F, f, n)
    BY <2>1, <2>2, <2>3, <2>4 DEF At
  <2>7. QED
    BY <1>4, <1>5, <2>1, <2>5, <2>6
<1>6. CASE /\ back = 0 /\ c < n /\ Length(w[c + 1]) > 0
           /\ Reached(t.a, c + 1, W, F, n) /\ t.i = Length(F[c + 1]) + 1
  <2>1. t.i = Length(F[c + 1]) + 1 - 0
    BY <1>1, <1>4, <1>6
  <2>2. At(t, c + 1, 0, W, w, F, f, n)
    BY <1>6, <2>1 DEF At
  <2>3. Left(c + 1, 0, W, n) < Left(c, back, W, n)
    <3>1. /\ Left(c + 1, 0, W, n) = Length(W[n]) - Length(W[c + 1]) + 0
          /\ Left(c, back, W, n) = Length(W[n]) - Length(W[c]) + 0
      <4>1. LeftIsRight(c + 1, 0, W, n) /\ LeftIsRight(c, back, W, n)
        BY <1>4, <1>6, LeftIs
      <4>2. QED
        BY <1>6, <4>1 DEF LeftIsRight
    <3>2. Length(W[c + 1]) = Length(W[c]) + Length(w[c + 1])
      BY <1>4, <1>6
    <3>3. QED
      BY <1>1, <1>4, <1>6, <3>1, <3>2
  <2>4. QED
    BY <1>4, <1>6, <2>2, <2>3
<1>7. QED
  BY <1>3, <1>5, <1>6 DEF Turned

\* The state after k of the turns, of which there are as many as words: they
\* have got on, or there are too few words.
Gone(s, k, W, w, F, f, n, room) ==
  \E c \in 0..n, back \in 0..1 :
    /\ At(s, c, back, W, w, F, f, n)
    /\ Left(c, back, W, n) + k <= Length(W[n]) \/ Left(c, back, W, n) < room

\* The states that a turn leads to, one after the other.
IsLoop(g, m, base, turn) ==
  /\ g \in [0..m -> States] /\ g[0] = base
  /\ \A k \in 1..m : g[k] = turn[g[k - 1]]

\* The loop that turns the first pieces w into f.
Edits(st, turn, W, w, F, f, n, room) ==
  /\ Pieces(W, w, n) /\ Pieces(F, f, n) /\ Changes(w, f, n, room)
  /\ Turns(turn, W, w, F, f, n, room)
  /\ IsLoop(st, Length(W[n]), [a |-> W[n], i |-> 1], turn)

EndsWith(st, W, F, n) == st[Length(W[n])].a = F[n]

LEMMA LoopEnds ==
  ASSUME NEW n \in Nat, NEW W, NEW w, NEW F, NEW f,
         NEW room \in 1..2, NEW turn, NEW st, Edits(st, turn, W, w, F, f, n, room)
  PROVE  EndsWith(st, W, F, n)
<1> DEFINE m == Length(W[n])
           S == {k \in 0..m : Gone(st[k], k, W, w, F, f, n, room)}
<1>1. /\ Pieces(W, w, n) /\ Pieces(F, f, n) /\ Changes(w, f, n, room)
      /\ Turns(turn, W, w, F, f, n, room)
      /\ st \in [0..m -> States] /\ st[0] = [a |-> W[n], i |-> 1]
      /\ \A k \in 1..m : st[k] = turn[st[k - 1]]
  BY DEF Edits, IsLoop
<1> USE <1>1
<1>2. /\ n \in Nat /\ m \in Nat /\ Length(W[0]) = 0 /\ Length(F[0]) = 0
  BY PieceFacts
<1>3. \A k \in 1..n : Length(w[k]) = 0 => w[k] = f[k]
  BY PieceFacts DEF Changes
<1>4. \A c \in 0..n, back \in 0..1 : Left(c, back, W, n) \in Int
  BY LeftIs DEF LeftIsRight
<1>5. 0 \in S
  <2>1. Reached(st[0].a, 0, W, F, n) /\ st[0].i = 1
    BY NothingReached
  <2>2. At(st[0], 0, 0, W, w, F, f, n)
    BY <1>2, <2>1 DEF At
  <2>3. Left(0, 0, W, n) + 0 <= m
    BY <1>2 DEF Left
  <2>4. QED
    BY <1>2, <2>2, <2>3 DEF Gone
<1>6. ASSUME NEW k \in S, k < m PROVE k + 1 \in S
  <2>1. k \in 0..m /\ k + 1 \in 0..m /\ k + 1 \in 1..m /\ (k + 1) - 1 = k
    BY <1>2, <1>6
  <2>2. st[k + 1] = turn[st[k]] /\ st[k] \in States
    BY <2>1
  <2> DEFINE s == st[k]
             t == st[k + 1]
  <2>3. PICK c \in 0..n, back \in 0..1 :
          /\ At(s, c, back, W, w, F, f, n)
          /\ Left(c, back, W, n) + k <= m \/ Left(c, back, W, n) < room
          /\ back = 0 => c = n \/ Length(w[c + 1]) > 0
    <3>1. PICK c \in 0..n, back \in 0..1 :
            /\ At(s, c, back, W, w, F, f, n)
            /\ Left(c, back, W, n) + k <= m \/ Left(c, back, W, n) < room
      BY DEF Gone
    <3>2. CASE back = 1
      BY <3>1, <3>2
    <3>3. CASE back = 0
      <4>1. PICK d \in 0..n :
              /\ At(s, d, 0, W, w, F, f, n) /\ Left(d, 0, W, n) = Left(c, 0, W, n)
              /\ d = n \/ Length(w[d + 1]) > 0
        BY <1>3, <3>1, <3>3, BeforeWords
      <4>2. QED
        BY <3>1, <3>3, <4>1
    <3>4. QED
      BY <3>2, <3>3
  <2> HIDE DEF s, t
  <2>4. Turned(s, t, c, back, W, w, F, f, n, room)
    BY <2>2, <2>3 DEF Turns, s, t
  <2>5. \/ Left(c, back, W, n) < room /\ t = s
        \/ \E d \in 0..n, more \in 0..1 :
             /\ At(t, d, more, W, w, F, f, n)
             /\ Left(d, more, W, n) < Left(c, back, W, n)
    BY <2>3, <2>4, TurnGetsOn
  <2>6. CASE Left(c, back, W, n) < room /\ t = s
    <3>1. Gone(t, k + 1, W, w, F, f, n, room)
      BY <2>3, <2>6 DEF Gone
    <3>2. QED
      BY <2>1, <3>1 DEF t
  <2>7. CASE \E d \in 0..n, more \in 0..1 :
               /\ At(t, d, more, W, w, F, f, n)
               /\ Left(d, more, W, n) < Left(c, back, W, n)
    <3>1. PICK d \in 0..n, more \in 0..1 :
            /\ At(t, d, more, W, w, F, f, n)
            /\ Left(d, more, W, n) < Left(c, back, W, n)
      BY <2>7
    <3>2. Left(d, more, W, n) \in Int /\ Left(c, back, W, n) \in Int
      BY <1>4
    <3>3. Left(d, more, W, n) + (k + 1) <= m \/ Left(d, more, W, n) < room
      BY <1>2, <2>1, <2>3, <3>1, <3>2
    <3>4. Gone(t, k + 1, W, w, F, f, n, room)
      BY <3>1, <3>3 DEF Gone, m
    <3>5. QED
      BY <2>1, <3>4 DEF t
  <2>8. QED
    BY <2>5, <2>6, <2>7
<1>7. m \in S
  <2> HIDE DEF S, m
  <2>1. S \in SUBSET Nat
    BY <1>2 DEF S
  <2>2. \A k \in 0..m : k \in S
    BY <1>2, <1>5, <1>6, <2>1, ByInduction
  <2>3. QED
    BY <1>2, <2>2
<1>8. PICK c \in 0..n, back \in 0..1 :
        /\ At(st[m], c, back, W, w, F, f, n)
        /\ Left(c, back, W, n) + m <= m \/ Left(c, back, W, n) < room
  BY <1>7 DEF Gone
<1>9. Left(c, back, W, n) < room
  <2>1. Left(c, back, W, n) \in Int
    BY <1>4
  <2>2. QED
    BY <1>2, <1>8, <2>1
<1>10. ASSUME NEW k \in 1..n, k > c PROVE w[k] = f[k]
  <2>1. k - 1 \in 0..n /\ k \in 0..n /\ k - 1 >= c
    BY <1>2, <1>10
  <2>2. Length(W[k]) = Length(W[k - 1]) + Length(w[k])
    BY DEF Pieces
  <2>3. Length(W[k]) <= m
    BY <2>1, FirstPieces DEF Begins
  <2>4. Length(W[c]) <= Length(W[k - 1])
    <3>1. Begins(W, c, k - 1)
      BY <1>2, <2>1, EarlierPieces
    <3>2. QED
      BY <3>1 DEF Begins
  <2>5. /\ Length(W[c]) \in Nat /\ Length(W[k]) \in Nat
        /\ Length(W[k - 1]) \in Nat /\ Length(w[k]) \in Nat
    BY <2>1, PieceFacts
  <2>6. Length(w[k]) < room
    <3>1. LeftIsRight(c, back, W, n)
      BY LeftIs
    <3>2. Left(c, back, W, n) = m - Length(W[c]) + back
      BY <3>1 DEF LeftIsRight
    <3>3. QED
      BY <1>2, <1>9, <2>2, <2>3, <2>4, <2>5, <3>2
  <2>7. QED
    BY <2>5, <2>6 DEF Changes
<1>11. Reached(st[m].a, c, W, F, n)
  BY <1>8 DEF At
<1>12. QED
  BY <1>10, <1>11, OthersPassed DEF EndsWith

(* The words of options *)

\* What the command has of an option.
Chunk(o, dropped, resolved) ==
  IF o[1] \in dropped THEN <<>> ELSE Rendered(o, resolved)

\* The words that are looked for, none of which is the value of an option.
Marks == {"--check", "--commit", "${PRESUBMIT_FILES}", "--exclude", "--include", "--"}

\* An option has a value after it exactly if its first word is one of these.
Valued == {"--commit", "--exclude", "--include"}

OptionIsRight(o) ==
  /\ Len(o) \in 1..2 /\ DOMAIN o = 1..Len(o)
  /\ \A j \in 1..Len(o) : o[j] \in Texts
  /\ Len(o) = 2 <=> o[1] \in Valued
  /\ Len(o) = 2 => o[2] \notin Marks
  /\ o[1] = "--" <=> o = <<"--">>

LEMMA OneWord ==
  ASSUME NEW x \in Texts \ Valued
  PROVE  OptionIsRight(<<x>>)
<1>1. \A y : Len(<<y>>) = 1 /\ DOMAIN <<y>> = 1..1 /\ <<y>>[1] = y
  OBVIOUS
<1>2. \A j \in 1..1 : <<x>>[j] \in Texts
  BY <1>1
<1>3. <<x>>[1] = "--" <=> <<x>> = <<"--">>
  BY <1>1
<1>4. QED
  BY <1>1, <1>2, <1>3 DEF OptionIsRight

LEMMA TwoWords ==
  ASSUME NEW x \in Texts \cap Valued, NEW y \in Texts \ Marks
  PROVE  OptionIsRight(<<x, y>>)
<1> DEFINE o == <<x, y>>
<1>1. Len(o) = 2 /\ DOMAIN o = 1..2 /\ o[1] = x /\ o[2] = y
  OBVIOUS
<1>2. Len(<<"--">>) = 1 /\ x # "--"
  BY DEF Valued
<1> HIDE DEF o
<1>3. \A j \in 1..2 : o[j] \in Texts
  <2>1. \A j \in 1..2 : j = 1 \/ j = 2
    OBVIOUS
  <2>2. QED
    BY <1>1, <2>1
<1>4. o # <<"--">>
  BY <1>1, <1>2
<1>5. OptionIsRight(o)
  BY <1>1, <1>2, <1>3, <1>4 DEF OptionIsRight
<1>6. QED
  BY <1>5 DEF o

LEMMA OptionFacts ==
  ASSUME NEW o \in Chunks
  PROVE  OptionIsRight(o)
<1>1. \A x \in {"cros", "verb", "--check", "${PRESUBMIT_FILES}", "--", "-v", "dir"} :
        x \in Texts \ Valued
  BY DEF Texts, Valued
<1>2. /\ \A x \in Valued : x \in Texts \cap Valued
      /\ \A y \in {"sha", "dir"} : y \in Texts \ Marks
  BY DEF Texts, Valued, Marks
<1>3. \/ \E x \in {"cros", "verb", "--check", "${PRESUBMIT_FILES}", "--", "-v", "dir"} : o = <<x>>
      \/ \E x \in Valued, y \in {"sha", "dir"} : o = <<x, y>>
  BY DEF Chunks, Options, Valued
<1>4. QED
  BY <1>1, <1>2, <1>3, OneWord, TwoWords

LEMMA ChunkFacts ==
  ASSUME NEW o \in Chunks, NEW dropped, NEW resolved
  PROVE  /\ Chunk(o, dropped, resolved) \in Seq(Words)
         /\ o[1] \in dropped => Chunk(o, dropped, resolved) = <<>>
         /\ o[1] \notin dropped =>
              /\ Length(Chunk(o, dropped, resolved)) = Len(o)
              /\ \A j \in 1..Len(o) :
                   Chunk(o, dropped, resolved)[j] =
                     [word |-> o[j], resolved |-> j = 2 /\ o[1] \in resolved]
<1> DEFINE w == Rendered(o, resolved)
<1>1. Len(o) \in 1..2 /\ DOMAIN o = 1..Len(o) /\ \A j \in 1..Len(o) : o[j] \in Texts
  BY OptionFacts DEF OptionIsRight
<1>2. \A j \in 1..Len(o) :
        [word |-> o[j], resolved |-> j = 2 /\ o[1] \in resolved] \in Words
  BY <1>1 DEF Words
<1>3. w = [j \in 1..Len(o) |-> [word |-> o[j], resolved |-> j = 2 /\ o[1] \in resolved]]
  BY <1>1 DEF Rendered
<1>4. w \in [1..Len(o) -> Words]
  BY <1>2, <1>3
<1>5. /\ \A j \in 1..Len(o) :
           w[j] = [word |-> o[j], resolved |-> j = 2 /\ o[1] \in resolved]
  BY <1>3
<1> HIDE DEF w, Words
<1>6. w \in Seq(Words) /\ Len(w) = Len(o)
  BY <1>1, <1>4, LenProperties
<1>7. o[1] \in dropped => Chunk(o, dropped, resolved) = <<>>
  BY DEF Chunk
<1>8. o[1] \notin dropped => Chunk(o, dropped, resolved) = w
  BY DEF Chunk, w
<1>9. Length(w) = Len(o)
  BY <1>6 DEF Length
<1>10. CASE o[1] \in dropped
  <2>1. <<>> \in Seq(Words)
    OBVIOUS
  <2>2. QED
    BY <1>7, <1>10, <2>1
<1>11. CASE o[1] \notin dropped
  <2>1. Chunk(o, dropped, resolved) = w
    BY <1>8, <1>11
  <2>2. QED
    BY <1>5, <1>6, <1>9, <1>11, <2>1
<1>12. QED
  BY <1>10, <1>11

\* The words of the first options are those of one more after the other.
PiecesOf(os, dropped, resolved) == [k \in 1..Len(os) |-> Chunk(os[k], dropped, resolved)]

LEMMA WrittenByOption ==
  ASSUME NEW os \in Seq(Chunks), NEW dropped, NEW resolved
  PROVE  /\ Written(os, dropped, resolved)[0] = <<>>
         /\ \A k \in 0..Len(os) : Written(os, dropped, resolved)[k] \in Seq(Words)
         /\ \A k \in 1..Len(os) :
              Written(os, dropped, resolved)[k] =
                Joined(Written(os, dropped, resolved)[k - 1],
                       Chunk(os[k], dropped, resolved))
<1> DEFINE m == Len(os)
           V == Seq(Words)
           chunk(k) == Chunk(os[k], dropped, resolved)
           step == [k \in Nat |-> [acc \in V |-> IF k \in 1..m THEN Joined(acc, chunk(k)) ELSE acc]]
           Takes(h) == h = [k \in 0..m |-> IF k = 0 THEN <<>> ELSE Joined(h[k - 1], chunk(k))]
<1>1. m \in Nat /\ \A k \in 1..m : os[k] \in Chunks
  BY ElementOfSeq
<1>2. \A k \in 1..m : chunk(k) \in V
  BY <1>1, ChunkFacts
<1>3. <<>> \in V
  OBVIOUS
<1> HIDE DEF m, chunk
<1>4. \A acc \in V, k \in 1..m : Joined(acc, chunk(k)) \in V
  <2> HIDE DEF Words
  <2>1. QED
    BY <1>2, JoinedFacts
<1> HIDE DEF V
<1>5. step \in [Nat -> [V -> V]]
  <2>1. ASSUME NEW k \in Nat, NEW acc \in V
        PROVE  (IF k \in 1..m THEN Joined(acc, chunk(k)) ELSE acc) \in V
    BY <1>4
  <2>2. QED
    BY <2>1
<1>6. PICK h \in [0..m -> V] : StepByStep(h, m, <<>>, step)
  <2> HIDE DEF step
  <2>1. QED
    BY <1>1, <1>3, <1>5, Recursion
<1>7. Takes(h)
  <2>1. \A k \in 1..m : k - 1 \in 0..m /\ k \in Nat /\ h[k - 1] \in V
    BY <1>1
  <2>2. \A k \in 1..m : h[k] = Joined(h[k - 1], chunk(k))
    BY <1>6, <2>1 DEF StepByStep
  <2>3. h[0] = <<>>
    BY <1>6 DEF StepByStep
  <2>4. \A k \in 0..m : h[k] = IF k = 0 THEN <<>> ELSE Joined(h[k - 1], chunk(k))
    BY <1>1, <2>2, <2>3
  <2>5. h = [k \in 0..m |-> h[k]]
    OBVIOUS
  <2>6. QED
    BY <2>4, <2>5
<1> DEFINE g == Written(os, dropped, resolved)
<1>8. Takes(g)
  BY <1>7 DEF Written, Joined, Chunk, chunk, m
<1> HIDE DEF g
<1>9. g[0] = <<>> /\ \A k \in 1..m : g[k] = Joined(g[k - 1], chunk(k))
  <2>1. 0 \in 0..m /\ \A k \in 1..m : k \in 0..m /\ k # 0
    BY <1>1
  <2>2. QED
    BY <1>8, <2>1
<1> DEFINE Good == {k \in 0..m : g[k] \in V}
<1>10. 0 \in Good
  BY <1>1, <1>3, <1>9
<1>11. ASSUME NEW k \in Good, k < m PROVE k + 1 \in Good
  <2>1. k + 1 \in 1..m /\ k + 1 \in 0..m /\ (k + 1) - 1 = k /\ g[k] \in V
    BY <1>1, <1>11
  <2>2. g[k + 1] = Joined(g[k], chunk(k + 1))
    BY <1>9, <2>1
  <2>3. QED
    BY <1>4, <2>1, <2>2
<1>12. \A k \in 0..m : k \in Good
  <2> HIDE DEF Good
  <2>1. Good \in SUBSET Nat
    BY <1>1 DEF Good
  <2>2. QED
    BY <1>1, <1>10, <1>11, <2>1, ByInduction
<1>13. QED
  BY <1>9, <1>12 DEF g, m, V, chunk

LEMMA WrittenPieces ==
  ASSUME NEW os \in Seq(Chunks), NEW dropped, NEW resolved, NEW n \in 0..Len(os)
  PROVE  Pieces(Written(os, dropped, resolved), PiecesOf(os, dropped, resolved), n)
<1> DEFINE W == Written(os, dropped, resolved)
           w == PiecesOf(os, dropped, resolved)
<1>1. Len(os) \in Nat /\ \A k \in 1..Len(os) : os[k] \in Chunks
  BY ElementOfSeq
<1>2. /\ W[0] = <<>>
      /\ \A k \in 0..Len(os) : W[k] \in Seq(Words)
      /\ \A k \in 1..Len(os) : W[k] = Joined(W[k - 1], Chunk(os[k], dropped, resolved))
  BY WrittenByOption
<1>3. \A k \in 1..Len(os) : w[k] = Chunk(os[k], dropped, resolved)
  BY DEF PiecesOf
<1> HIDE DEF W, w
<1>4. \A k \in 1..Len(os) : w[k] \in Seq(Words)
  BY <1>1, <1>3, ChunkFacts
<1>5. \A k \in 1..n : k \in 1..Len(os) /\ k - 1 \in 0..Len(os) /\ k \in 0..Len(os)
  BY <1>1
<1>6. \A k \in 0..n : k \in 0..Len(os)
  BY <1>1
<1>7. ASSUME NEW k \in 1..n
      PROVE  /\ Length(W[k]) = Length(W[k - 1]) + Length(w[k])
             /\ \A j \in 1..Length(W[k - 1]) : W[k][j] = W[k - 1][j]
             /\ \A j \in 1..Length(w[k]) : W[k][Length(W[k - 1]) + j] = w[k][j]
  <2>1. W[k] = Joined(W[k - 1], w[k]) /\ W[k - 1] \in Seq(Words) /\ w[k] \in Seq(Words)
    BY <1>2, <1>3, <1>4, <1>5
  <2> HIDE DEF Words
  <2>2. QED
    BY <2>1, JoinedFacts
<1>8. Length(W[0]) = 0 /\ n \in Nat
  BY <1>1, <1>2 DEF Length
<1>9. Pieces(W, w, n)
  BY <1>2, <1>4, <1>5, <1>6, <1>7, <1>8 DEF Pieces
<1>10. QED
  BY <1>9 DEF W, w

(* A turn of the two loops *)

\* The subsequence with k words from the i-th on.
From(s, i, k) == SubSeq(s, i, i + k - 1)

LEMMA FromFacts ==
  ASSUME NEW s \in Seq(Words), NEW i \in Nat \ {0}, NEW k \in Nat, i + k - 1 <= Length(s)
  PROVE  /\ From(s, i, k) \in Seq(Words)
         /\ Length(From(s, i, k)) = k
         /\ \A j \in 1..k : From(s, i, k)[j] = s[i - 1 + j]
<1> HIDE DEF Words
<1>1. Len(s) \in Nat /\ Length(s) = Len(s)
  BY LenProperties DEF Length
<1>2. \A j \in i..(i + k - 1) : s[j] \in Words
  <2>1. \A j \in i..(i + k - 1) : j \in 1..Len(s)
    BY <1>1
  <2>2. QED
    BY <2>1, ElementOfSeq
<1> DEFINE t == SubSeq(s, i, i + k - 1)
<1>3. /\ t \in Seq(Words)
      /\ Len(t) = IF i <= i + k - 1 THEN (i + k - 1) - i + 1 ELSE 0
      /\ \A j \in 1..((i + k - 1) - i + 1) : t[j] = s[i + j - 1]
  BY <1>2, SubSeqProperties
<1> HIDE DEF t
<1>4. Len(t) = k
  BY <1>3
<1>5. \A j \in 1..k : t[j] = s[i - 1 + j]
  <2>1. (i + k - 1) - i + 1 = k /\ \A j \in 1..k : i + j - 1 = i - 1 + j
    OBVIOUS
  <2>2. QED
    BY <1>3, <2>1
<1>6. QED
  BY <1>3, <1>4, <1>5 DEF t, From, Length

LEMMA SpliceFacts ==
  ASSUME NEW a \in Seq(Words), NEW y \in Nat, NEW z \in Nat, y + z <= Length(a), NEW f, f = <<>>
  PROVE  Replaced(a, Splice(a, y + 1, z), y, z, f)
<1> DEFINE l == Length(a)
           s == From(a, 1, y)
           t == From(a, y + z + 1, l - (y + z))
           b == Joined(s, t)
<1>1. l \in Nat /\ Length(f) = 0
  BY LenProperties DEF Length
<1>2. /\ s \in Seq(Words) /\ Length(s) = y
      /\ \A j \in 1..y : s[j] = a[1 - 1 + j]
  <2>1. 1 + y - 1 <= l /\ 1 \in Nat \ {0}
    BY <1>1
  <2>2. QED
    BY <2>1, FromFacts
<1>3. /\ t \in Seq(Words) /\ Length(t) = l - (y + z)
      /\ \A j \in 1..(l - (y + z)) : t[j] = a[(y + z + 1) - 1 + j]
  <2>1. /\ (y + z + 1) + (l - (y + z)) - 1 <= l /\ y + z + 1 \in Nat \ {0}
        /\ l - (y + z) \in Nat
    BY <1>1
  <2> HIDE DEF l
  <2>2. QED
    BY <2>1, FromFacts DEF l
<1>4. Splice(a, y + 1, z) = b
  <2>1. 1 + y - 1 = (y + 1) - 1 /\ y + z + 1 = (y + 1) + z
        /\ (y + z + 1) + (l - (y + z)) - 1 = l
    BY <1>1
  <2>2. s = SubSeq(a, 1, (y + 1) - 1) /\ t = SubSeq(a, (y + 1) + z, l)
    BY <2>1 DEF From
  <2>3. QED
    BY <2>2 DEF Splice, Joined, Length
<1> HIDE DEF l, s, t, Words
<1>5. /\ b \in Seq(Words) /\ Length(b) = y + (l - (y + z))
      /\ \A j \in 1..y : b[j] = s[j]
      /\ \A j \in 1..(l - (y + z)) : b[y + j] = t[j]
  BY <1>2, <1>3, JoinedFacts
<1> HIDE DEF b
<1>6. /\ Length(b) = l - z + Length(f)
      /\ \A j \in 1..y : b[j] = a[j]
      /\ \A j \in 1..Length(f) : b[y + j] = f[j]
  <2>1. \A j \in 1..y : 1 - 1 + j = j
    OBVIOUS
  <2>2. QED
    BY <1>1, <1>2, <1>5, <2>1
<1>7. \A j \in 1..(l - (y + z)) : b[y + Length(f) + j] = a[y + z + j]
  <2>1. \A j \in 1..(l - (y + z)) : y + Length(f) + j = y + j /\ (y + z + 1) - 1 + j = y + z + j
    BY <1>1
  <2>2. QED
    BY <1>3, <1>5, <2>1
<1>8. QED
  BY <1>4, <1>5, <1>6, <1>7 DEF Replaced, l

LEMMA ExceptFacts ==
  ASSUME NEW a \in Seq(Words), NEW y \in Nat, y + 2 <= Length(a), NEW f \in Seq(Words), Length(f) = 2,
         NEW e \in Words, f[1] = a[y + 1], f[2] = e
  PROVE  Replaced(a, [a EXCEPT ![y + 2] = e], y, 2, f)
<1> DEFINE b == [a EXCEPT ![y + 2] = e]
<1>1. Len(a) \in Nat /\ Length(a) = Len(a)
  BY LenProperties DEF Length
<1>2. y + 2 \in 1..Len(a)
  BY <1>1
<1> HIDE DEF Words
<1>3. /\ b \in Seq(Words) /\ Len(b) = Len(a)
      /\ \A j \in 1..Len(a) : b[j] = IF j = y + 2 THEN e ELSE a[j]
  BY <1>2, ExceptSeq
<1> HIDE DEF b
<1>4. Length(b) = Length(a) - 2 + 2
  BY <1>1, <1>3 DEF Length
<1>5. \A j \in 1..y : b[j] = a[j]
  <2>1. \A j \in 1..y : j \in 1..Len(a) /\ j # y + 2
    BY <1>1
  <2>2. QED
    BY <1>3, <2>1
<1>6. \A j \in 1..2 : b[y + j] = f[j]
  <2>1. y + 1 \in 1..Len(a) /\ y + 1 # y + 2 /\ \A j \in 1..2 : j = 1 \/ j = 2
    BY <1>1
  <2>2. QED
    BY <1>2, <1>3, <2>1
<1>7. \A j \in 1..(Length(a) - (y + 2)) : b[y + 2 + j] = a[y + 2 + j]
  <2>1. \A j \in 1..(Length(a) - (y + 2)) : y + 2 + j \in 1..Len(a) /\ y + 2 + j # y + 2
    BY <1>1
  <2>2. QED
    BY <1>3, <2>1
<1>8. QED
  BY <1>3, <1>4, <1>5, <1>6, <1>7 DEF Replaced, b

\* A piece with words is an option that was not dropped.
StaysAs(o, w, dropped, resolved) ==
  /\ o \in Chunks /\ o[1] \notin dropped
  /\ Length(w) = Len(o)
  /\ \A j \in 1..Len(o) : w[j] = [word |-> o[j], resolved |-> j = 2 /\ o[1] \in resolved]

LEMMA StaysWord ==
  ASSUME NEW o, NEW w, NEW dropped, NEW resolved, StaysAs(o, w, dropped, resolved),
         NEW j \in 1..Len(o)
  PROVE  w[j].word = o[j]
<1> DEFINE b == (j = 2 /\ o[1] \in resolved)
<1>1. w[j] = [word |-> o[j], resolved |-> b]
  BY DEF StaysAs
<1> HIDE DEF b
<1>2. QED
  BY <1>1

LEMMA PieceWithWords ==
  ASSUME NEW os \in Seq(Chunks), NEW dropped, NEW resolved, NEW k \in 1..Len(os),
         Length(PiecesOf(os, dropped, resolved)[k]) # 0
  PROVE  StaysAs(os[k], PiecesOf(os, dropped, resolved)[k], dropped, resolved)
<1> DEFINE o == os[k]
           w == PiecesOf(os, dropped, resolved)[k]
<1>1. o \in Chunks
  BY ElementOfSeq
<1>2. w = Chunk(o, dropped, resolved)
  BY DEF PiecesOf
<1>3. Length(<<>>) = 0
  BY DEF Length
<1> HIDE DEF o, w
<1>4. o[1] \notin dropped
  <2>1. CASE o[1] \in dropped
    <3>1. w = <<>>
      BY <1>1, <1>2, <2>1, ChunkFacts
    <3>2. QED
      BY <1>3, <3>1 DEF w
  <2>2. QED
    BY <2>1
<1>5. /\ Length(w) = Len(o)
      /\ \A j \in 1..Len(o) : w[j] = [word |-> o[j], resolved |-> j = 2 /\ o[1] \in resolved]
  BY <1>1, <1>2, <1>4, ChunkFacts
<1>6. QED
  BY <1>1, <1>4, <1>5 DEF o, w, StaysAs

\* The last word of an option with a value is none that is looked for.
LEMMA LastWord ==
  ASSUME NEW os \in Seq(Chunks), NEW dropped, NEW resolved, NEW n \in 0..Len(os), NEW W, NEW a,
         NEW c \in 0..n, c # 0,
         Length(PiecesOf(os, dropped, resolved)[c]) = 2,
         Reached(a, c, W, Written(os, dropped, resolved), n)
  PROVE  /\ Length(Written(os, dropped, resolved)[c]) \in Nat \ {0}
         /\ a[Length(Written(os, dropped, resolved)[c])].word \notin Marks
<1> DEFINE F == Written(os, dropped, resolved)
           f == PiecesOf(os, dropped, resolved)
<1>1. Len(os) \in Nat /\ n \in Nat /\ c \in 1..Len(os) /\ c - 1 \in 0..n /\ c - 1 < n /\ (c - 1) + 1 = c
  <2>1. Len(os) \in Nat
    BY LenProperties
  <2>2. QED
    BY <2>1
<1>2. Pieces(F, f, n)
  BY WrittenPieces
<1>3. Length(f[c]) # 0
  OBVIOUS
<1>4. /\ os[c] \in Chunks /\ Len(os[c]) = 2
      /\ \A j \in 1..Len(os[c]) :
           f[c][j] = [word |-> os[c][j], resolved |-> j = 2 /\ os[c][1] \in resolved]
  <2>1. StaysAs(os[c], f[c], dropped, resolved)
    BY <1>1, <1>3, PieceWithWords
  <2> HIDE DEF f
  <2>2. /\ os[c] \in Chunks
        /\ Length(f[c]) = Len(os[c])
        /\ \A j \in 1..Len(os[c]) :
             f[c][j] = [word |-> os[c][j], resolved |-> j = 2 /\ os[c][1] \in resolved]
    BY <2>1 DEF StaysAs
  <2>3. Len(os[c]) = 2
    <3>1. Length(f[c]) = 2
      BY DEF f
    <3>2. QED
      BY <2>2, <3>1
  <2>4. QED
    BY <2>2, <2>3
<1>5. os[c][2] \notin Marks
  BY <1>4, OptionFacts DEF OptionIsRight
<1>6. f[c][2].word \notin Marks
  BY <1>4, <1>5
<1>7. \A j \in 1..Length(F[c]) : a[j] = F[c][j]
  BY DEF Reached
<1> HIDE DEF F, f
<1>8. Adds(F, f, c - 1)
  BY <1>1, <1>2, NextPiece
<1>9. /\ Length(F[c - 1]) \in Nat /\ Length(F[c]) = Length(F[c - 1]) + Length(f[c])
      /\ \A j \in 1..Length(f[c]) : F[c][Length(F[c - 1]) + j] = f[c][j]
  <2>1. ASSUME NEW d, d + 1 = c, Adds(F, f, d)
        PROVE  /\ Length(F[d]) \in Nat /\ Length(F[c]) = Length(F[d]) + Length(f[c])
               /\ \A j \in 1..Length(f[c]) : F[c][Length(F[d]) + j] = f[c][j]
    BY <2>1 DEF Adds
  <2>2. QED
    BY <1>1, <1>8, <2>1
<1>10. Length(f[c]) = 2
  BY DEF f
<1>11. F[c][Length(F[c])] = f[c][2] /\ Length(F[c]) \in Nat \ {0}
  BY <1>9, <1>10
<1>12. a[Length(F[c])].word \notin Marks
  <2>1. Length(F[c]) \in 1..Length(F[c])
    BY <1>11
  <2>2. QED
    BY <1>6, <1>7, <1>11, <2>1
<1>13. QED
  BY <1>11, <1>12 DEF F

\* Where the index is, and how many words are left behind it.
IndexIsRight(s, c, back, W, F, n) ==
  /\ Length(F[c]) \in Nat /\ s.i = Length(F[c]) + 1 - back
  /\ s.a \in Seq(Words)
  /\ Left(c, back, W, n) \in Int
  /\ Length(s.a) = Length(F[c]) + Left(c, back, W, n) - back

LEMMA IndexIs ==
  ASSUME NEW n \in Nat, NEW W, NEW w, NEW F, NEW f, Pieces(W, w, n), Pieces(F, f, n),
         NEW s, NEW c \in 0..n, NEW back \in 0..1, At(s, c, back, W, w, F, f, n)
  PROVE  IndexIsRight(s, c, back, W, F, n)
<1>1. LeftIsRight(c, back, W, n)
  BY LeftIs
<1>2. Length(F[c]) \in Nat
  BY PieceFacts
<1>3. /\ s.i = Length(F[c]) + 1 - back /\ s.a \in Seq(Words)
      /\ Length(s.a) = Length(F[c]) + (Length(W[n]) - Length(W[c]))
  BY DEF At, Reached
<1>4. Length(s.a) = Length(F[c]) + Left(c, back, W, n) - back /\ Left(c, back, W, n) \in Int
  BY <1>1, <1>2, <1>3 DEF LeftIsRight
<1>5. QED
  BY <1>2, <1>3, <1>4 DEF IndexIsRight

\* What `remove` is called with.
Removed == {<<"--check">>, <<"--commit", AnyWord>>, <<"${PRESUBMIT_FILES}">>}

RemovedIsRight(rs) ==
  /\ Len(rs) \in 1..2 /\ DOMAIN rs = 1..Len(rs)
  /\ rs[1] \in Marks /\ rs[1] # AnyWord
  /\ Len(rs) = 2 => rs[2] = AnyWord
  /\ Len(rs) = 2 <=> rs[1] \in Valued

\* Words side by side.
LEMMA WordByWord ==
  /\ \A x : Len(<<x>>) = 1 /\ DOMAIN <<x>> = 1..1 /\ <<x>>[1] = x
  /\ \A x, y : /\ Len(<<x, y>>) = 2 /\ DOMAIN <<x, y>> = 1..2
               /\ <<x, y>>[1] = x /\ <<x, y>>[2] = y
<1>1. ASSUME NEW x
      PROVE  Len(<<x>>) = 1 /\ DOMAIN <<x>> = 1..1 /\ <<x>>[1] = x
  OBVIOUS
<1>2. ASSUME NEW x, NEW y
      PROVE  /\ Len(<<x, y>>) = 2 /\ DOMAIN <<x, y>> = 1..2
             /\ <<x, y>>[1] = x /\ <<x, y>>[2] = y
  OBVIOUS
<1>3. QED
  BY <1>1, <1>2

LEMMA RemovedFacts ==
  ASSUME NEW rs \in Removed
  PROVE  RemovedIsRight(rs)
<1>1. /\ "--check" \in Marks \ Valued /\ "${PRESUBMIT_FILES}" \in Marks \ Valued
      /\ "--commit" \in Marks \cap Valued
      /\ \A x \in Marks : x # AnyWord
  BY DEF Marks, Valued, AnyWord
<1>2. CASE Len(rs) = 1 /\ DOMAIN rs = 1..1 /\ rs[1] \in Marks \ Valued
  <2>1. Len(rs) \in 1..2
    BY <1>2
  <2>2. DOMAIN rs = 1..Len(rs)
    BY <1>2
  <2>3. rs[1] \in Marks /\ rs[1] # AnyWord
    BY <1>1, <1>2
  <2>4. Len(rs) = 2 => rs[2] = AnyWord
    BY <1>2
  <2>5. Len(rs) = 2 <=> rs[1] \in Valued
    BY <1>2
  <2>6. QED
    BY <2>1, <2>2, <2>3, <2>4, <2>5 DEF RemovedIsRight
<1>3. CASE Len(rs) = 2 /\ DOMAIN rs = 1..2 /\ rs[1] \in Marks \cap Valued /\ rs[2] = AnyWord
  <2>1. Len(rs) \in 1..2
    BY <1>3
  <2>2. DOMAIN rs = 1..Len(rs)
    BY <1>3
  <2>3. rs[1] \in Marks /\ rs[1] # AnyWord
    BY <1>1, <1>3
  <2>4. Len(rs) = 2 => rs[2] = AnyWord
    BY <1>3
  <2>5. Len(rs) = 2 <=> rs[1] \in Valued
    BY <1>3
  <2>6. QED
    BY <2>1, <2>2, <2>3, <2>4, <2>5 DEF RemovedIsRight
<1>4. rs = <<"--check">> \/ rs = <<"--commit", AnyWord>> \/ rs = <<"${PRESUBMIT_FILES}">>
  BY DEF Removed
<1>5. CASE rs = <<"--commit", AnyWord>>
  <2>1. Len(rs) = 2 /\ DOMAIN rs = 1..2 /\ rs[1] = "--commit" /\ rs[2] = AnyWord
    BY <1>5, WordByWord
  <2>2. QED
    BY <1>1, <1>3, <2>1
<1>6. CASE rs = <<"--check">> \/ rs = <<"${PRESUBMIT_FILES}">>
  <2>1. Len(rs) = 1 /\ DOMAIN rs = 1..1 /\ (rs[1] = "--check" \/ rs[1] = "${PRESUBMIT_FILES}")
    BY <1>6, WordByWord
  <2>2. QED
    BY <1>1, <1>2, <2>1
<1>7. QED
  BY <1>4, <1>5, <1>6

\* Whether the words from the i-th on are rs shows in the first of them.
LEMMA MatchIs ==
  ASSUME NEW rs \in Removed, NEW a, NEW i \in Nat
  PROVE  MatchesAt(a, i, rs) <=> a[i].word = rs[1]
<1>1. RemovedIsRight(rs)
  BY RemovedFacts
<1>2. i + 1 - 1 = i
  OBVIOUS
<1>3. \A j \in 1..Len(rs) : j = 1 \/ (j = 2 /\ Len(rs) = 2)
  BY <1>1 DEF RemovedIsRight
<1>4. 1 \in 1..Len(rs)
  BY <1>1 DEF RemovedIsRight
<1>5. DOMAIN rs = 1..Len(rs) /\ rs[1] # AnyWord /\ (Len(rs) = 2 => rs[2] = AnyWord)
  BY <1>1 DEF RemovedIsRight
<1>6. QED
  BY <1>2, <1>3, <1>4, <1>5 DEF MatchesAt

\* A turn of `remove`, by the word at the index.
RemoveTurnIsRight(s, t, rs) ==
  /\ t = [a |-> t.a, i |-> t.i]
  /\ s.i > Length(s.a) - Len(rs) + 1 => t = s
  /\ s.i <= Length(s.a) - Len(rs) + 1 /\ s.a[s.i].word = rs[1] =>
       t.a = Splice(s.a, s.i, Len(rs)) /\ t.i = s.i
  /\ s.i <= Length(s.a) - Len(rs) + 1 /\ s.a[s.i].word # rs[1] =>
       t.a = s.a /\ t.i = s.i + 1

LEMMA RemoveTurnFacts ==
  ASSUME NEW s \in States, NEW rs \in Removed
  PROVE  RemoveTurnIsRight(s, RemoveTurn(s, rs), rs)
<1>1. s.a \in Seq(Words) /\ s.i \in Nat \ {0}
  BY DEF States
<1> HIDE DEF Words
<1>2. Len(s.a) \in Nat /\ Length(s.a) = Len(s.a)
  BY <1>1, LenProperties DEF Length
<1>3. Len(rs) \in 1..2
  BY RemovedFacts DEF RemovedIsRight
<1>4. MatchesAt(s.a, s.i, rs) <=> s.a[s.i].word = rs[1]
  BY <1>1, MatchIs
<1> DEFINE t == RemoveTurn(s, rs)
<1>5. CASE s.i > Len(s.a) - Len(rs) + 1
  <2>1. t = s
    <3>1. ~(s.i <= Len(s.a) - Len(rs) + 1)
      BY <1>1, <1>2, <1>3, <1>5
    <3>2. QED
      BY <1>5, <3>1 DEF RemoveTurn
  <2>2. s = [a |-> s.a, i |-> s.i]
    BY DEF States
  <2>3. ~(s.i <= Length(s.a) - Len(rs) + 1)
    BY <1>1, <1>2, <1>3, <1>5
  <2> HIDE DEF t
  <2>4. RemoveTurnIsRight(s, t, rs)
    BY <2>1, <2>2, <2>3 DEF RemoveTurnIsRight
  <2>5. QED
    BY <2>4 DEF t
<1>6. CASE s.i <= Len(s.a) - Len(rs) + 1
  <2>1. ~(s.i > Len(s.a) - Len(rs) + 1) /\ ~(s.i > Length(s.a) - Len(rs) + 1)
    BY <1>1, <1>2, <1>3, <1>6
  <2>2. CASE s.a[s.i].word = rs[1]
    <3>1. t = [a |-> Splice(s.a, s.i, Len(rs)), i |-> s.i]
      BY <1>4, <1>6, <2>1, <2>2 DEF RemoveTurn
    <3> HIDE DEF t
    <3>2. t.a = Splice(s.a, s.i, Len(rs)) /\ t.i = s.i /\ t = [a |-> t.a, i |-> t.i]
      BY <3>1
    <3>3. RemoveTurnIsRight(s, t, rs)
      BY <2>1, <2>2, <3>2 DEF RemoveTurnIsRight
    <3>4. QED
      BY <3>3 DEF t
  <2>3. CASE s.a[s.i].word # rs[1]
    <3>1. t = [a |-> s.a, i |-> s.i + 1]
      BY <1>4, <1>6, <2>1, <2>3 DEF RemoveTurn
    <3> HIDE DEF t
    <3>2. t.a = s.a /\ t.i = s.i + 1 /\ t = [a |-> t.a, i |-> t.i]
      BY <3>1
    <3>3. RemoveTurnIsRight(s, t, rs)
      BY <2>1, <2>3, <3>2 DEF RemoveTurnIsRight
    <3>4. QED
      BY <3>3 DEF t
  <2>4. QED
    BY <2>2, <2>3
<1>7. QED
  BY <1>1, <1>2, <1>3, <1>5, <1>6

LEMMA SameLength ==
  ASSUME NEW o \in Chunks, NEW rs \in Removed, o[1] = rs[1]
  PROVE  Len(o) = Len(rs)
<1>1. Len(rs) \in 1..2 /\ (Len(rs) = 2 <=> rs[1] \in Valued)
  BY RemovedFacts DEF RemovedIsRight
<1>2. Len(o) \in 1..2 /\ (Len(o) = 2 <=> o[1] \in Valued)
  BY OptionFacts DEF OptionIsRight
<1>3. CASE o[1] \in Valued
  <2>1. Len(o) = 2 /\ Len(rs) = 2
    BY <1>1, <1>2, <1>3
  <2>2. QED
    BY <2>1
<1>4. CASE o[1] \notin Valued
  <2>1. Len(o) # 2 /\ Len(rs) # 2
    BY <1>1, <1>2, <1>4
  <2>2. Len(o) = 1 /\ Len(rs) = 1
    BY <1>1, <1>2, <2>1
  <2>3. QED
    BY <2>2
<1>5. QED
  BY <1>3, <1>4

\* The options without those that begin as rs does.
Less(dropped, rs) == dropped \cup {rs[1]}

LEMMA RemoveTurns ==
  ASSUME NEW os \in Seq(Chunks), NEW dropped, NEW resolved, NEW n \in 0..Len(os), NEW rs \in Removed
  PROVE  Turns([s \in States |-> RemoveTurn(s, rs)],
               Written(os, dropped, resolved), PiecesOf(os, dropped, resolved),
               Written(os, Less(dropped, rs), resolved), PiecesOf(os, Less(dropped, rs), resolved),
               n, Len(rs))
<1> DEFINE W == Written(os, dropped, resolved)
           w == PiecesOf(os, dropped, resolved)
           F == Written(os, Less(dropped, rs), resolved)
           f == PiecesOf(os, Less(dropped, rs), resolved)
           turn == [s \in States |-> RemoveTurn(s, rs)]
<1>1. Len(os) \in Nat /\ n \in Nat
  <2>1. Len(os) \in Nat
    BY LenProperties
  <2>2. QED
    BY <2>1
<1>2. Pieces(W, w, n) /\ Pieces(F, f, n)
  BY WrittenPieces
<1>3. /\ Len(rs) \in 1..2 /\ rs[1] \in Marks
      /\ Len(rs) = 2 <=> rs[1] \in Valued
  BY RemovedFacts DEF RemovedIsRight
<1>4. ASSUME NEW s \in States, NEW c \in 0..n, NEW back \in 0..1, At(s, c, back, W, w, F, f, n),
             back = 0 => c = n \/ Length(w[c + 1]) > 0
      PROVE  Turned(s, turn[s], c, back, W, w, F, f, n, Len(rs))
  <2> DEFINE t == turn[s]
             y == Length(F[c])
             l == Left(c, back, W, n)
  <2>1. RemoveTurnIsRight(s, t, rs)
    BY RemoveTurnFacts
  <2>2. /\ y \in Nat /\ s.i = y + 1 - back /\ s.a \in Seq(Words)
        /\ l \in Int /\ Length(s.a) = y + l - back
    <3> HIDE DEF W, w, F, f
    <3>1. IndexIsRight(s, c, back, W, F, n)
      BY <1>1, <1>2, <1>4, IndexIs
    <3>2. QED
      BY <3>1 DEF IndexIsRight
  <2>3. s.i > Length(s.a) - Len(rs) + 1 <=> l < Len(rs)
    <3> HIDE DEF y, l
    <3>1. QED
      BY <1>3, <2>2
  <2>4. s.i <= Length(s.a) - Len(rs) + 1 <=> ~(l < Len(rs))
    <3> HIDE DEF y, l
    <3>1. QED
      BY <1>3, <2>2
  <2>5. CASE l < Len(rs)
    <3> HIDE DEF W, w, F, f, t
    <3>1. t = s
      BY <2>1, <2>3, <2>5 DEF RemoveTurnIsRight
    <3>2. QED
      BY <2>5, <3>1 DEF Turned, t
  <2>6. CASE ~(l < Len(rs)) /\ back = 1
    <3>1. c # 0 /\ w[c] = f[c] /\ Length(w[c]) = 2 /\ Reached(s.a, c, W, F, n)
      BY <1>4, <2>6 DEF At
    <3>2. s.a[y].word \notin Marks
      BY <3>1, LastWord
    <3> HIDE DEF W, w, F, f, t, l, y
    <3>3. s.i = y
      BY <2>2, <2>6
    <3>4. s.a[s.i].word # rs[1]
      BY <1>3, <3>2, <3>3
    <3>5. t.a = s.a /\ t.i = s.i + 1
      BY <2>1, <2>4, <2>6, <3>4 DEF RemoveTurnIsRight
    <3>6. QED
      BY <2>6, <3>5 DEF Turned, t
  <2>7. CASE ~(l < Len(rs)) /\ back = 0
    <3>1. c < n
      <4>1. CASE c = n
        <5>1. LeftIsRight(c, back, W, n)
          BY <1>1, <1>2, LeftIs
        <5>2. l = Length(W[n]) - Length(W[n]) + 0 /\ Length(W[n]) \in Nat
          BY <2>7, <4>1, <5>1 DEF LeftIsRight
        <5> HIDE DEF W, l
        <5>3. l = 0
          BY <5>2
        <5>4. QED
          BY <1>3, <2>7, <5>3
      <4>2. QED
        BY <1>1, <4>1
    <3> DEFINE o == os[c + 1]
    <3>2. c + 1 \in 1..n /\ c + 1 \in 1..Len(os)
      BY <1>1, <3>1
    <3>3. Length(w[c + 1]) # 0
      <4>1. Length(w[c + 1]) > 0
        <5> HIDE DEF w
        <5>1. QED
          BY <1>1, <1>4, <2>7, <3>1
      <4>2. Length(w[c + 1]) \in Nat
        BY <1>1, <1>2, <3>2, PieceFacts
      <4> HIDE DEF w
      <4>3. QED
        BY <4>1, <4>2
    <3>4. StaysAs(o, w[c + 1], dropped, resolved)
      BY <3>2, <3>3, PieceWithWords
    <3>5. w[c + 1] = Chunk(o, dropped, resolved) /\ f[c + 1] = Chunk(o, Less(dropped, rs), resolved)
      BY <3>2 DEF PiecesOf
    <3>6. Reached(s.a, c, W, F, n)
      BY <1>4 DEF At
    <3> HIDE DEF W, w, F, f, t, l, y, o
    <3>7. /\ o \in Chunks /\ o[1] \notin dropped /\ Length(w[c + 1]) = Len(o)
          /\ Len(o) \in 1..2 /\ (Len(o) = 2 <=> o[1] \in Valued)
      <4>1. o \in Chunks /\ o[1] \notin dropped /\ Length(w[c + 1]) = Len(o)
        BY <3>4 DEF StaysAs
      <4>2. Len(o) \in 1..2 /\ (Len(o) = 2 <=> o[1] \in Valued)
        BY <4>1, OptionFacts DEF OptionIsRight
      <4>3. QED
        BY <4>1, <4>2
    <3>8. s.a[s.i].word = o[1] /\ s.i = y + 1
      <4>1. s.i = y + 1
        BY <2>2, <2>7
      <4>2. 1 \in 1..Len(o)
        BY <3>7
      <4>3. Follows(s.a, y, w[c + 1])
        BY <1>1, <1>2, <3>1, <3>6, NextWords DEF y
      <4>4. s.a[y + 1] = w[c + 1][1]
        BY <3>7, <4>2, <4>3 DEF Follows
      <4>5. w[c + 1][1].word = o[1]
        BY <3>4, <4>2, StaysWord
      <4>6. QED
        BY <4>1, <4>4, <4>5
    <3>9. CASE o[1] = rs[1]
      <4>1. Len(o) = Len(rs)
        BY <3>7, <3>9, SameLength
      <4>2. t.a = Splice(s.a, y + 1, Len(rs)) /\ t.i = y + 1
        BY <2>1, <2>4, <2>7, <3>8, <3>9 DEF RemoveTurnIsRight
      <4>3. f[c + 1] = <<>>
        BY <3>5, <3>7, <3>9, ChunkFacts DEF Less
      <4>4. y + Len(rs) <= Length(s.a) /\ Len(rs) \in Nat
        BY <1>3, <2>2, <2>7
      <4>5. Replaced(s.a, t.a, y, Len(rs), f[c + 1])
        BY <2>2, <4>2, <4>3, <4>4, SpliceFacts
      <4>6. Reached(t.a, c + 1, W, F, n)
        <5>1. Replaced(s.a, t.a, Length(F[c]), Length(w[c + 1]), f[c + 1])
          BY <3>7, <4>1, <4>5 DEF y
        <5>2. QED
          BY <1>1, <1>2, <3>1, <3>6, <5>1, PieceChanged
      <4>7. t.i = Length(F[c + 1]) + 1
        <5>1. Adds(F, f, c)
          BY <1>1, <1>2, <3>1, NextPiece
        <5>2. Length(F[c + 1]) = y + Length(f[c + 1])
          BY <5>1 DEF Adds, y
        <5>3. Length(f[c + 1]) = 0
          BY <4>3 DEF Length
        <5>4. QED
          BY <2>2, <4>2, <5>2, <5>3
      <4>8. Length(w[c + 1]) > 0
        BY <3>7
      <4>9. QED
        BY <2>7, <3>1, <4>6, <4>7, <4>8 DEF Turned, t
    <3>10. CASE o[1] # rs[1]
      <4>1. t.a = s.a /\ t.i = s.i + 1
        BY <2>1, <2>4, <2>7, <3>8, <3>10 DEF RemoveTurnIsRight
      <4>2. w[c + 1] = f[c + 1]
        BY <3>5, <3>10 DEF Chunk, Less
      <4>3. Length(w[c + 1]) \in 1..2
        BY <3>7
      <4>4. QED
        BY <2>7, <3>1, <4>1, <4>2, <4>3 DEF Turned, t
    <3>11. QED
      BY <3>9, <3>10
  <2>8. QED
    BY <2>5, <2>6, <2>7
<1>5. Turns(turn, W, w, F, f, n, Len(rs))
  BY <1>4 DEF Turns
<1>6. QED
  BY <1>5

\* A turn of `replaceArg`, by the word at the index.
Pathed == {"--exclude", "--include"}

ReplaceTurnIsRight(s, t, arg) ==
  /\ t = [a |-> t.a, i |-> t.i]
  /\ s.i >= Length(s.a) => t = s
  /\ s.i < Length(s.a) /\ s.a[s.i].word = arg =>
       t.a = [s.a EXCEPT ![s.i + 1] = Resolve(s.a[s.i + 1])] /\ t.i = s.i + 2
  /\ s.i < Length(s.a) /\ s.a[s.i].word # arg =>
       t.a = s.a /\ t.i = s.i + 1

LEMMA ReplaceTurnFacts ==
  ASSUME NEW s \in States, NEW arg
  PROVE  ReplaceTurnIsRight(s, ReplaceTurn(s, arg), arg)
<1>1. s.a \in Seq(Words) /\ s.i \in Nat \ {0}
  BY DEF States
<1> HIDE DEF Words
<1>2. Len(s.a) \in Nat /\ Length(s.a) = Len(s.a)
  BY <1>1, LenProperties DEF Length
<1> DEFINE t == ReplaceTurn(s, arg)
<1>3. CASE s.i >= Len(s.a)
  <2>1. t = s
    <3>1. ~(s.i < Len(s.a))
      BY <1>1, <1>2, <1>3
    <3>2. QED
      BY <1>3, <3>1 DEF ReplaceTurn
  <2>2. s = [a |-> s.a, i |-> s.i]
    BY DEF States
  <2>3. ~(s.i < Length(s.a))
    BY <1>1, <1>2, <1>3
  <2> HIDE DEF t
  <2>4. ReplaceTurnIsRight(s, t, arg)
    BY <2>1, <2>2, <2>3 DEF ReplaceTurnIsRight
  <2>5. QED
    BY <2>4 DEF t
<1>4. CASE s.i < Len(s.a)
  <2>1. ~(s.i >= Len(s.a)) /\ ~(s.i >= Length(s.a))
    BY <1>1, <1>2, <1>4
  <2>2. CASE s.a[s.i].word = arg
    <3>1. t = [a |-> [s.a EXCEPT ![s.i + 1] = Resolve(s.a[s.i + 1])], i |-> s.i + 2]
      BY <1>4, <2>1, <2>2 DEF ReplaceTurn
    <3> HIDE DEF t
    <3>2. t.a = [s.a EXCEPT ![s.i + 1] = Resolve(s.a[s.i + 1])] /\ t.i = s.i + 2 /\ t = [a |-> t.a, i |-> t.i]
      BY <3>1
    <3>3. ReplaceTurnIsRight(s, t, arg)
      BY <2>1, <2>2, <3>2 DEF ReplaceTurnIsRight
    <3>4. QED
      BY <3>3 DEF t
  <2>3. CASE s.a[s.i].word # arg
    <3>1. t = [a |-> s.a, i |-> s.i + 1]
      BY <1>4, <2>1, <2>3 DEF ReplaceTurn
    <3> HIDE DEF t
    <3>2. t.a = s.a /\ t.i = s.i + 1 /\ t = [a |-> t.a, i |-> t.i]
      BY <3>1
    <3>3. ReplaceTurnIsRight(s, t, arg)
      BY <2>1, <2>3, <3>2 DEF ReplaceTurnIsRight
    <3>4. QED
      BY <3>3 DEF t
  <2>4. QED
    BY <2>2, <2>3
<1>5. QED
  BY <1>1, <1>2, <1>3, <1>4

\* The options, with one more of them resolved.
More(resolved, arg) == resolved \cup {arg}

\* What becomes of an option that is resolved.
LEMMA ResolvedPiece ==
  ASSUME NEW o \in Chunks, NEW dropped, NEW resolved, NEW arg \in Pathed, o[1] = arg, arg \notin dropped
  PROVE  /\ Chunk(o, dropped, More(resolved, arg)) \in Seq(Words)
         /\ Length(Chunk(o, dropped, resolved)) = 2
         /\ Length(Chunk(o, dropped, More(resolved, arg))) = 2
         /\ Chunk(o, dropped, More(resolved, arg))[1] = Chunk(o, dropped, resolved)[1]
         /\ Chunk(o, dropped, More(resolved, arg))[2] = Resolve(Chunk(o, dropped, resolved)[2])
         /\ Resolve(Chunk(o, dropped, resolved)[2]) \in Words
<1> DEFINE x == Chunk(o, dropped, resolved)
           y == Chunk(o, dropped, More(resolved, arg))
<1>1. Len(o) = 2
  <2>1. arg \in Valued
    BY DEF Pathed, Valued
  <2>2. QED
    BY <2>1, OptionFacts DEF OptionIsRight
<1>2. /\ Length(x) = Len(o)
      /\ \A j \in 1..Len(o) : x[j] = [word |-> o[j], resolved |-> j = 2 /\ o[1] \in resolved]
  BY ChunkFacts
<1>3. /\ y \in Seq(Words) /\ Length(y) = Len(o)
      /\ \A j \in 1..Len(o) : y[j] = [word |-> o[j], resolved |-> j = 2 /\ o[1] \in More(resolved, arg)]
  BY ChunkFacts
<1> HIDE DEF x, y
<1>4. Length(x) = 2 /\ Length(y) = 2
  BY <1>1, <1>2, <1>3
<1>5. x[1] = y[1]
  <2>1. 1 \in 1..Len(o)
    BY <1>1
  <2>2. /\ x[1] = [word |-> o[1], resolved |-> 1 = 2 /\ o[1] \in resolved]
        /\ y[1] = [word |-> o[1], resolved |-> 1 = 2 /\ o[1] \in More(resolved, arg)]
    BY <1>2, <1>3, <2>1
  <2>3. (1 = 2 /\ o[1] \in resolved) = (1 = 2 /\ o[1] \in More(resolved, arg))
    OBVIOUS
  <2>4. QED
    BY <2>2, <2>3
<1>6. y[2] = Resolve(x[2])
  <2> DEFINE b == (2 = 2 /\ o[1] \in resolved)
             d == (2 = 2 /\ o[1] \in More(resolved, arg))
  <2>1. 2 \in 1..Len(o)
    BY <1>1
  <2>2. x[2] = [word |-> o[2], resolved |-> b]
    BY <1>2, <2>1
  <2>3. y[2] = [word |-> o[2], resolved |-> d]
    BY <1>3, <2>1
  <2>4. d = TRUE
    BY DEF More
  <2> HIDE DEF b, d
  <2>5. Resolve(x[2]) = [word |-> o[2], resolved |-> TRUE]
    BY <2>2 DEF Resolve
  <2>6. QED
    BY <2>3, <2>4, <2>5
<1>7. y[2] \in Words
  <2>1. 2 \in 1..Len(y)
    BY <1>4 DEF Length
  <2> HIDE DEF Words
  <2>2. QED
    BY <1>3, <2>1, ElementOfSeq
<1>8. QED
  BY <1>3, <1>4, <1>5, <1>6, <1>7 DEF x, y

LEMMA ReplaceTurns ==
  ASSUME NEW os \in Seq(Chunks), NEW dropped, NEW resolved, NEW n \in 0..Len(os), NEW arg \in Pathed, arg \notin dropped
  PROVE  Turns([s \in States |-> ReplaceTurn(s, arg)],
               Written(os, dropped, resolved), PiecesOf(os, dropped, resolved),
               Written(os, dropped, More(resolved, arg)), PiecesOf(os, dropped, More(resolved, arg)),
               n, 2)
<1> DEFINE W == Written(os, dropped, resolved)
           w == PiecesOf(os, dropped, resolved)
           F == Written(os, dropped, More(resolved, arg))
           f == PiecesOf(os, dropped, More(resolved, arg))
           turn == [s \in States |-> ReplaceTurn(s, arg)]
<1>1. Len(os) \in Nat /\ n \in Nat
  <2>1. Len(os) \in Nat
    BY LenProperties
  <2>2. QED
    BY <2>1
<1>2. Pieces(W, w, n) /\ Pieces(F, f, n)
  BY WrittenPieces
<1>3. arg \in Marks
  BY DEF Pathed, Marks
<1>4. ASSUME NEW s \in States, NEW c \in 0..n, NEW back \in 0..1, At(s, c, back, W, w, F, f, n),
             back = 0 => c = n \/ Length(w[c + 1]) > 0
      PROVE  Turned(s, turn[s], c, back, W, w, F, f, n, 2)
  <2> DEFINE t == turn[s]
             y == Length(F[c])
             l == Left(c, back, W, n)
  <2>1. ReplaceTurnIsRight(s, t, arg)
    BY ReplaceTurnFacts
  <2>2. /\ y \in Nat /\ s.i = y + 1 - back /\ s.a \in Seq(Words)
        /\ l \in Int /\ Length(s.a) = y + l - back
    <3> HIDE DEF W, w, F, f
    <3>1. IndexIsRight(s, c, back, W, F, n)
      BY <1>1, <1>2, <1>4, IndexIs
    <3>2. QED
      BY <3>1 DEF IndexIsRight
  <2>3. s.i >= Length(s.a) <=> l < 2
    <3> HIDE DEF y, l
    <3>1. QED
      BY <1>3, <2>2
  <2>4. s.i < Length(s.a) <=> ~(l < 2)
    <3> HIDE DEF y, l
    <3>1. QED
      BY <1>3, <2>2
  <2>5. CASE l < 2
    <3> HIDE DEF W, w, F, f, t
    <3>1. t = s
      BY <2>1, <2>3, <2>5 DEF ReplaceTurnIsRight
    <3>2. QED
      BY <2>5, <3>1 DEF Turned, t
  <2>6. CASE ~(l < 2) /\ back = 1
    <3>1. c # 0 /\ w[c] = f[c] /\ Length(w[c]) = 2 /\ Reached(s.a, c, W, F, n)
      BY <1>4, <2>6 DEF At
    <3>2. s.a[y].word \notin Marks
      BY <3>1, LastWord
    <3> HIDE DEF W, w, F, f, t, l, y
    <3>3. s.i = y
      BY <2>2, <2>6
    <3>4. s.a[s.i].word # arg
      BY <1>3, <3>2, <3>3
    <3>5. t.a = s.a /\ t.i = s.i + 1
      BY <2>1, <2>4, <2>6, <3>4 DEF ReplaceTurnIsRight
    <3>6. QED
      BY <2>6, <3>5 DEF Turned, t
  <2>7. CASE ~(l < 2) /\ back = 0
    <3>1. c < n
      <4>1. CASE c = n
        <5>1. LeftIsRight(c, back, W, n)
          BY <1>1, <1>2, LeftIs
        <5>2. l = Length(W[n]) - Length(W[n]) + 0 /\ Length(W[n]) \in Nat
          BY <2>7, <4>1, <5>1 DEF LeftIsRight
        <5> HIDE DEF W, l
        <5>3. l = 0
          BY <5>2
        <5>4. QED
          BY <1>3, <2>7, <5>3
      <4>2. QED
        BY <1>1, <4>1
    <3> DEFINE o == os[c + 1]
    <3>2. c + 1 \in 1..n /\ c + 1 \in 1..Len(os)
      BY <1>1, <3>1
    <3>3. Length(w[c + 1]) # 0
      <4>1. Length(w[c + 1]) > 0
        <5> HIDE DEF w
        <5>1. QED
          BY <1>1, <1>4, <2>7, <3>1
      <4>2. Length(w[c + 1]) \in Nat
        BY <1>1, <1>2, <3>2, PieceFacts
      <4> HIDE DEF w
      <4>3. QED
        BY <4>1, <4>2
    <3>4. StaysAs(o, w[c + 1], dropped, resolved)
      BY <3>2, <3>3, PieceWithWords
    <3>5. w[c + 1] = Chunk(o, dropped, resolved) /\ f[c + 1] = Chunk(o, dropped, More(resolved, arg))
      BY <3>2 DEF PiecesOf
    <3>6. Reached(s.a, c, W, F, n)
      BY <1>4 DEF At
    <3> HIDE DEF W, w, F, f, t, l, y, o
    <3>7. /\ o \in Chunks /\ o[1] \notin dropped /\ Length(w[c + 1]) = Len(o)
          /\ Len(o) \in 1..2 /\ (Len(o) = 2 <=> o[1] \in Valued)
      <4>1. o \in Chunks /\ o[1] \notin dropped /\ Length(w[c + 1]) = Len(o)
        BY <3>4 DEF StaysAs
      <4>2. Len(o) \in 1..2 /\ (Len(o) = 2 <=> o[1] \in Valued)
        BY <4>1, OptionFacts DEF OptionIsRight
      <4>3. QED
        BY <4>1, <4>2
    <3>8. s.a[s.i].word = o[1] /\ s.i = y + 1
      <4>1. s.i = y + 1
        BY <2>2, <2>7
      <4>2. 1 \in 1..Len(o)
        BY <3>7
      <4>3. Follows(s.a, y, w[c + 1])
        BY <1>1, <1>2, <3>1, <3>6, NextWords DEF y
      <4>4. s.a[y + 1] = w[c + 1][1]
        BY <3>7, <4>2, <4>3 DEF Follows
      <4>5. w[c + 1][1].word = o[1]
        BY <3>4, <4>2, StaysWord
      <4>6. QED
        BY <4>1, <4>4, <4>5
    <3>9. CASE o[1] = arg
      <4>1. /\ f[c + 1] \in Seq(Words)
            /\ Length(w[c + 1]) = 2 /\ Length(f[c + 1]) = 2
            /\ f[c + 1][1] = w[c + 1][1]
            /\ f[c + 1][2] = Resolve(w[c + 1][2])
            /\ Resolve(w[c + 1][2]) \in Words
        BY <3>5, <3>7, <3>9, ResolvedPiece
      <4>2. s.a[y + 1] = w[c + 1][1] /\ s.a[y + 2] = w[c + 1][2]
        <5>1. Follows(s.a, y, w[c + 1])
          BY <1>1, <1>2, <3>1, <3>6, NextWords DEF y
        <5>2. 1 \in 1..Length(w[c + 1]) /\ 2 \in 1..Length(w[c + 1])
          BY <4>1
        <5>3. QED
          BY <5>1, <5>2 DEF Follows
      <4>3. t.a = [s.a EXCEPT ![y + 2] = f[c + 1][2]] /\ t.i = y + 3
        <5>1. s.i + 1 = y + 2 /\ s.i + 2 = y + 3
          BY <2>2, <3>8
        <5>2. /\ t.a = [s.a EXCEPT ![s.i + 1] = Resolve(s.a[s.i + 1])]
              /\ t.i = s.i + 2
          BY <2>1, <2>4, <2>7, <3>8, <3>9 DEF ReplaceTurnIsRight
        <5>3. QED
          BY <4>1, <4>2, <5>1, <5>2
      <4>4. y + 2 <= Length(s.a)
        BY <2>2, <2>7
      <4>5. Replaced(s.a, t.a, y, 2, f[c + 1])
        <5> HIDE DEF Words
        <5>1. f[c + 1][2] \in Words /\ f[c + 1][1] = s.a[y + 1]
          BY <4>1, <4>2
        <5>2. /\ s.a \in Seq(Words) /\ y \in Nat /\ f[c + 1] \in Seq(Words)
              /\ Length(f[c + 1]) = 2
          BY <2>2, <4>1
        <5>3. Replaced(s.a, [s.a EXCEPT ![y + 2] = f[c + 1][2]], y, 2, f[c + 1])
          BY <4>4, <5>1, <5>2, ExceptFacts
        <5>4. QED
          BY <4>3, <5>3
      <4>6. Reached(t.a, c + 1, W, F, n)
        <5>1. Replaced(s.a, t.a, Length(F[c]), Length(w[c + 1]), f[c + 1])
          BY <4>1, <4>5 DEF y
        <5>2. QED
          BY <1>1, <1>2, <3>1, <3>6, <5>1, PieceChanged
      <4>7. t.i = Length(F[c + 1]) + 1
        <5>1. Adds(F, f, c)
          BY <1>1, <1>2, <3>1, NextPiece
        <5>2. Length(F[c + 1]) = y + Length(f[c + 1])
          BY <5>1 DEF Adds, y
        <5>3. QED
          BY <2>2, <4>1, <4>3, <5>2
      <4>8. Length(w[c + 1]) > 0
        BY <4>1
      <4>9. QED
        BY <2>7, <3>1, <4>6, <4>7, <4>8 DEF Turned, t
    <3>10. CASE o[1] # arg
      <4>1. t.a = s.a /\ t.i = s.i + 1
        BY <2>1, <2>4, <2>7, <3>8, <3>10 DEF ReplaceTurnIsRight
      <4>2. w[c + 1] = f[c + 1]
        BY <3>5, <3>10 DEF Chunk, More, Rendered
      <4>3. Length(w[c + 1]) \in 1..2
        BY <3>7
      <4>4. QED
        BY <2>7, <3>1, <4>1, <4>2, <4>3 DEF Turned, t
    <3>11. QED
      BY <3>9, <3>10
  <2>8. QED
    BY <2>5, <2>6, <2>7
<1>5. Turns(turn, W, w, F, f, n, 2)
  BY <1>4 DEF Turns
<1>6. QED
  BY <1>5

(* The loops *)

LEMMA RemoveStates ==
  ASSUME NEW s \in States, NEW rs \in Removed
  PROVE  RemoveTurn(s, rs) \in States
<1> DEFINE t == RemoveTurn(s, rs)
<1>1. s.a \in Seq(Words) /\ s.i \in Nat \ {0}
  BY DEF States
<1>2. Length(s.a) \in Nat
  BY <1>1, LenProperties DEF Length
<1>3. Len(rs) \in 1..2
  BY RemovedFacts DEF RemovedIsRight
<1>4. RemoveTurnIsRight(s, t, rs)
  BY RemoveTurnFacts
<1> HIDE DEF t, Words
<1>5. t = [a |-> t.a, i |-> t.i]
  BY <1>4 DEF RemoveTurnIsRight
<1>6. t.a \in Seq(Words) /\ t.i \in Nat \ {0}
  <2>1. CASE s.i > Length(s.a) - Len(rs) + 1
    BY <1>1, <1>4, <2>1 DEF RemoveTurnIsRight
  <2>2. CASE s.i <= Length(s.a) - Len(rs) + 1 /\ s.a[s.i].word = rs[1]
    <3> DEFINE y == s.i - 1
    <3>1. y \in Nat /\ y + 1 = s.i /\ y + Len(rs) <= Length(s.a) /\ Len(rs) \in Nat
      <4>1. y \in Nat /\ y + 1 = s.i
        BY <1>1
      <4>2. s.i <= Length(s.a) - Len(rs) + 1
        BY <2>2
      <4> HIDE DEF y
      <4>3. y + Len(rs) <= Length(s.a) /\ Len(rs) \in Nat
        BY <1>2, <1>3, <4>1, <4>2
      <4>4. QED
        BY <4>1, <4>3
    <3> HIDE DEF y
    <3>2. Replaced(s.a, Splice(s.a, y + 1, Len(rs)), y, Len(rs), <<>>)
      BY <1>1, <3>1, SpliceFacts
    <3>3. t.a = Splice(s.a, y + 1, Len(rs)) /\ t.i = s.i
      BY <1>4, <2>2, <3>1 DEF RemoveTurnIsRight
    <3>4. QED
      BY <1>1, <3>2, <3>3 DEF Replaced
  <2>3. CASE s.i <= Length(s.a) - Len(rs) + 1 /\ s.a[s.i].word # rs[1]
    <3>1. t.a = s.a /\ t.i = s.i + 1
      BY <1>4, <2>3 DEF RemoveTurnIsRight
    <3>2. QED
      BY <1>1, <3>1
  <2>4. s.i > Length(s.a) - Len(rs) + 1 \/ s.i <= Length(s.a) - Len(rs) + 1
    BY <1>1, <1>2, <1>3
  <2>5. QED
    BY <2>1, <2>2, <2>3, <2>4
<1>7. t \in States
  BY <1>5, <1>6 DEF States
<1>8. QED
  BY <1>7 DEF t

LEMMA ReplaceStates ==
  ASSUME NEW s \in States, NEW arg
  PROVE  ReplaceTurn(s, arg) \in States
<1> DEFINE t == ReplaceTurn(s, arg)
<1>1. s.a \in Seq(Words) /\ s.i \in Nat \ {0}
  BY DEF States
<1>2. ReplaceTurnIsRight(s, t, arg)
  BY ReplaceTurnFacts
<1>3. \A x \in Words : Resolve(x) \in Words
  BY DEF Words, Resolve
<1> HIDE DEF t, Words
<1>4. Len(s.a) \in Nat /\ Length(s.a) = Len(s.a)
  BY <1>1, LenProperties DEF Length
<1>5. t = [a |-> t.a, i |-> t.i]
  BY <1>2 DEF ReplaceTurnIsRight
<1>6. t.a \in Seq(Words) /\ t.i \in Nat \ {0}
  <2>1. CASE s.i >= Length(s.a)
    BY <1>1, <1>2, <2>1 DEF ReplaceTurnIsRight
  <2>2. CASE s.i < Length(s.a) /\ s.a[s.i].word = arg
    <3>1. s.i + 1 \in 1..Len(s.a)
      BY <1>1, <1>4, <2>2
    <3>2. Resolve(s.a[s.i + 1]) \in Words
      BY <1>1, <1>3, <3>1, ElementOfSeq
    <3>3. [s.a EXCEPT ![s.i + 1] = Resolve(s.a[s.i + 1])] \in Seq(Words)
      BY <1>1, <3>1, <3>2, ExceptSeq
    <3>4. t.a = [s.a EXCEPT ![s.i + 1] = Resolve(s.a[s.i + 1])] /\ t.i = s.i + 2
      BY <1>2, <2>2 DEF ReplaceTurnIsRight
    <3>5. t.i \in Nat \ {0}
      BY <1>1, <3>4
    <3>6. QED
      BY <3>3, <3>4, <3>5
  <2>3. CASE s.i < Length(s.a) /\ s.a[s.i].word # arg
    <3>1. t.a = s.a /\ t.i = s.i + 1
      BY <1>2, <2>3 DEF ReplaceTurnIsRight
    <3>2. QED
      BY <1>1, <3>1
  <2>4. s.i >= Length(s.a) \/ s.i < Length(s.a)
    BY <1>1, <1>4
  <2>5. QED
    BY <2>1, <2>2, <2>3, <2>4
<1>7. t \in States
  BY <1>5, <1>6 DEF States
<1>8. QED
  BY <1>7 DEF t

LEMMA LoopExists ==
  ASSUME NEW turn \in [States -> States], NEW base \in States, NEW m \in Nat
  PROVE  \E g : IsLoop(g, m, base, turn)
<1> DEFINE step == [k \in Nat |-> turn]
<1>1. step \in [Nat -> [States -> States]]
  OBVIOUS
<1>2. \A k \in 1..m : step[k] = turn
  OBVIOUS
<1> HIDE DEF step
<1>3. PICK g \in [0..m -> States] : StepByStep(g, m, base, step)
  BY <1>1, Recursion
<1>4. IsLoop(g, m, base, turn)
  BY <1>2, <1>3 DEF IsLoop, StepByStep
<1>5. QED
  BY <1>4

LEMMA LoopIs ==
  ASSUME NEW turn \in [States -> States], NEW base \in States, NEW m \in Nat, NEW g,
         DOMAIN g = 0..m, g = [k \in 0..m |-> g[k]], g[0] = base,
         \A k \in 1..m : g[k - 1] \in States => g[k] = turn[g[k - 1]]
  PROVE  IsLoop(g, m, base, turn)
<1> DEFINE S == {k \in 0..m : g[k] \in States}
<1>1. 0 \in S
  OBVIOUS
<1>2. ASSUME NEW k \in S, k < m PROVE k + 1 \in S
  <2>1. k + 1 \in 1..m /\ k + 1 \in 0..m /\ (k + 1) - 1 = k /\ g[k] \in States
    BY <1>2
  <2>2. g[k + 1] = turn[g[k]]
    BY <2>1
  <2>3. QED
    BY <2>1, <2>2
<1>3. \A k \in 0..m : k \in S
  <2> HIDE DEF S
  <2>1. S \in SUBSET Nat
    BY DEF S
  <2>2. QED
    BY <1>1, <1>2, <2>1, ByInduction
<1>4. g \in [0..m -> States]
  BY <1>3
<1>5. \A k \in 1..m : k - 1 \in 0..m
  OBVIOUS
<1>6. QED
  BY <1>3, <1>4, <1>5 DEF IsLoop

LEMMA RemovingIs ==
  ASSUME NEW a \in Seq(Words), NEW rs \in Removed
  PROVE  IsLoop(Removing(a, rs), Length(a), [a |-> a, i |-> 1],
                [s \in States |-> RemoveTurn(s, rs)])
<1> DEFINE m == Len(a)
           base == [a |-> a, i |-> 1]
           turn == [s \in States |-> RemoveTurn(s, rs)]
           Takes(h) == h = [k \in 0..m |-> IF k = 0 THEN base ELSE RemoveTurn(h[k - 1], rs)]
           g == Removing(a, rs)
<1>1. m \in Nat /\ Length(a) = m
  <2> HIDE DEF Words
  <2>1. QED
    BY LenProperties DEF Length
<1>2. base \in States
  BY DEF States
<1>3. turn \in [States -> States]
  BY RemoveStates
<1>4. \A s \in States : turn[s] = RemoveTurn(s, rs)
  OBVIOUS
<1> HIDE DEF turn
<1>5. PICK h : IsLoop(h, m, base, turn)
  <2> HIDE DEF m, base
  <2>1. QED
    BY <1>1, <1>2, <1>3, LoopExists
<1>6. Takes(h)
  <2>1. /\ h \in [0..m -> States] /\ h[0] = base
        /\ \A k \in 1..m : h[k] = turn[h[k - 1]]
    BY <1>5 DEF IsLoop
  <2> HIDE DEF base
  <2>2. ASSUME NEW k \in 0..m PROVE h[k] = IF k = 0 THEN base ELSE RemoveTurn(h[k - 1], rs)
    <3>1. CASE k = 0
      BY <2>1, <3>1
    <3>2. CASE k # 0
      <4>1. k \in 1..m /\ k - 1 \in 0..m
        BY <1>1, <3>2
      <4>2. QED
        BY <1>4, <2>1, <3>2, <4>1
    <3>3. QED
      BY <3>1, <3>2
  <2>3. h = [k \in 0..m |-> h[k]]
    BY <2>1
  <2>4. QED
    BY <2>2, <2>3
<1>7. Takes(g)
  BY <1>6 DEF Removing
<1> HIDE DEF g, base
<1>8. DOMAIN g = 0..m /\ g = [k \in 0..m |-> g[k]]
  BY <1>7
<1>9. g[0] = base
  BY <1>1, <1>7
<1>10. \A k \in 1..m : g[k] = RemoveTurn(g[k - 1], rs)
  <2>1. \A k \in 1..m : k \in 0..m /\ k # 0
    BY <1>1
  <2>2. QED
    BY <1>7, <2>1
<1>11. IsLoop(g, m, base, turn)
  <2> HIDE DEF m, Takes
  <2>1. \A k \in 1..m : g[k - 1] \in States => g[k] = turn[g[k - 1]]
    BY <1>4, <1>10
  <2>2. QED
    BY <1>1, <1>2, <1>3, <1>8, <1>9, <2>1, LoopIs
<1>12. QED
  BY <1>1, <1>11 DEF g, base, turn

LEMMA ReplacingIs ==
  ASSUME NEW a \in Seq(Words), NEW arg
  PROVE  IsLoop(Replacing(a, arg), Length(a), [a |-> a, i |-> 1],
                [s \in States |-> ReplaceTurn(s, arg)])
<1> DEFINE m == Len(a)
           base == [a |-> a, i |-> 1]
           turn == [s \in States |-> ReplaceTurn(s, arg)]
           Takes(h) == h = [k \in 0..m |-> IF k = 0 THEN base ELSE ReplaceTurn(h[k - 1], arg)]
           g == Replacing(a, arg)
<1>1. m \in Nat /\ Length(a) = m
  <2> HIDE DEF Words
  <2>1. QED
    BY LenProperties DEF Length
<1>2. base \in States
  BY DEF States
<1>3. turn \in [States -> States]
  BY ReplaceStates
<1>4. \A s \in States : turn[s] = ReplaceTurn(s, arg)
  OBVIOUS
<1> HIDE DEF turn
<1>5. PICK h : IsLoop(h, m, base, turn)
  <2> HIDE DEF m, base
  <2>1. QED
    BY <1>1, <1>2, <1>3, LoopExists
<1>6. Takes(h)
  <2>1. /\ h \in [0..m -> States] /\ h[0] = base
        /\ \A k \in 1..m : h[k] = turn[h[k - 1]]
    BY <1>5 DEF IsLoop
  <2> HIDE DEF base
  <2>2. ASSUME NEW k \in 0..m PROVE h[k] = IF k = 0 THEN base ELSE ReplaceTurn(h[k - 1], arg)
    <3>1. CASE k = 0
      BY <2>1, <3>1
    <3>2. CASE k # 0
      <4>1. k \in 1..m /\ k - 1 \in 0..m
        BY <1>1, <3>2
      <4>2. QED
        BY <1>4, <2>1, <3>2, <4>1
    <3>3. QED
      BY <3>1, <3>2
  <2>3. h = [k \in 0..m |-> h[k]]
    BY <2>1
  <2>4. QED
    BY <2>2, <2>3
<1>7. Takes(g)
  BY <1>6 DEF Replacing
<1> HIDE DEF g, base
<1>8. DOMAIN g = 0..m /\ g = [k \in 0..m |-> g[k]]
  BY <1>7
<1>9. g[0] = base
  BY <1>1, <1>7
<1>10. \A k \in 1..m : g[k] = ReplaceTurn(g[k - 1], arg)
  <2>1. \A k \in 1..m : k \in 0..m /\ k # 0
    BY <1>1
  <2>2. QED
    BY <1>7, <2>1
<1>11. IsLoop(g, m, base, turn)
  <2> HIDE DEF m, Takes
  <2>1. \A k \in 1..m : g[k - 1] \in States => g[k] = turn[g[k - 1]]
    BY <1>4, <1>10
  <2>2. QED
    BY <1>1, <1>2, <1>3, <1>8, <1>9, <2>1, LoopIs
<1>12. QED
  BY <1>1, <1>11 DEF g, base, turn

(* What the loops leave *)

LEMMA RemoveChanges ==
  ASSUME NEW os \in Seq(Chunks), NEW dropped, NEW resolved, NEW n \in 0..Len(os), NEW rs \in Removed
  PROVE  Changes(PiecesOf(os, dropped, resolved), PiecesOf(os, Less(dropped, rs), resolved), n, Len(rs))
<1> DEFINE w == PiecesOf(os, dropped, resolved)
           f == PiecesOf(os, Less(dropped, rs), resolved)
<1>1. Len(os) \in Nat /\ \A k \in 1..n : k \in 1..Len(os)
  <2>1. Len(os) \in Nat
    BY LenProperties
  <2>2. QED
    BY <2>1
<1>2. \A k \in 1..Len(os) : os[k] \in Chunks
  BY ElementOfSeq
<1>3. Len(rs) \in 1..2
  BY RemovedFacts DEF RemovedIsRight
<1>4. ASSUME NEW k \in 1..n PROVE w[k] = f[k] \/ Length(w[k]) >= Len(rs)
  <2>1. /\ w[k] = Chunk(os[k], dropped, resolved) /\ f[k] = Chunk(os[k], Less(dropped, rs), resolved)
        /\ os[k] \in Chunks
    BY <1>1, <1>2 DEF PiecesOf
  <2> HIDE DEF w, f
  <2>2. CASE os[k][1] = rs[1] /\ os[k][1] \notin dropped
    <3>1. Length(Chunk(os[k], dropped, resolved)) = Len(os[k])
      BY <2>1, <2>2, ChunkFacts
    <3>2. Len(os[k]) = Len(rs)
      BY <2>1, <2>2, SameLength
    <3>3. QED
      BY <1>3, <2>1, <3>1, <3>2
  <2>3. CASE ~(os[k][1] = rs[1] /\ os[k][1] \notin dropped)
    BY <2>1, <2>3 DEF Chunk, Less
  <2>4. QED
    BY <2>2, <2>3
<1>5. Changes(w, f, n, Len(rs))
  BY <1>4 DEF Changes
<1>6. QED
  BY <1>5

LEMMA ReplaceChanges ==
  ASSUME NEW os \in Seq(Chunks), NEW dropped, NEW resolved, NEW n \in 0..Len(os),
         NEW arg \in Pathed, arg \notin dropped
  PROVE  Changes(PiecesOf(os, dropped, resolved), PiecesOf(os, dropped, More(resolved, arg)), n, 2)
<1> DEFINE w == PiecesOf(os, dropped, resolved)
           f == PiecesOf(os, dropped, More(resolved, arg))
<1>1. Len(os) \in Nat /\ \A k \in 1..n : k \in 1..Len(os)
  <2>1. Len(os) \in Nat
    BY LenProperties
  <2>2. QED
    BY <2>1
<1>2. \A k \in 1..Len(os) : os[k] \in Chunks
  BY ElementOfSeq
<1>3. ASSUME NEW k \in 1..n PROVE w[k] = f[k] \/ Length(w[k]) >= 2
  <2>1. /\ w[k] = Chunk(os[k], dropped, resolved) /\ f[k] = Chunk(os[k], dropped, More(resolved, arg))
        /\ os[k] \in Chunks
    BY <1>1, <1>2 DEF PiecesOf
  <2> HIDE DEF w, f
  <2>2. CASE os[k][1] = arg
    <3>1. Length(w[k]) = 2
      BY <2>1, <2>2, ResolvedPiece
    <3>2. QED
      BY <3>1
  <2>3. CASE os[k][1] # arg
    BY <2>1, <2>3 DEF Chunk, More, Rendered
  <2>4. QED
    BY <2>2, <2>3
<1>4. Changes(w, f, n, 2)
  BY <1>3 DEF Changes
<1>5. QED
  BY <1>4

\* `remove` leaves the words of the options that do not begin as rs does.
LEMMA RemoveAllLeaves ==
  ASSUME NEW os \in Seq(Chunks), NEW dropped, NEW resolved, NEW n \in 0..Len(os), NEW rs \in Removed
  PROVE  RemoveAll(Written(os, dropped, resolved)[n], rs) =
           Written(os, Less(dropped, rs), resolved)[n]
<1> DEFINE W == Written(os, dropped, resolved)
           w == PiecesOf(os, dropped, resolved)
           F == Written(os, Less(dropped, rs), resolved)
           f == PiecesOf(os, Less(dropped, rs), resolved)
           turn == [s \in States |-> RemoveTurn(s, rs)]
           g == Removing(W[n], rs)
<1>1. Len(os) \in Nat /\ n \in Nat
  <2>1. Len(os) \in Nat
    BY LenProperties
  <2>2. QED
    BY <2>1
<1>2. Pieces(W, w, n) /\ Pieces(F, f, n)
  BY WrittenPieces
<1>3. Len(rs) \in 1..2
  BY RemovedFacts DEF RemovedIsRight
<1>4. Changes(w, f, n, Len(rs)) /\ Turns(turn, W, w, F, f, n, Len(rs))
  BY RemoveChanges, RemoveTurns
<1>5. W[n] \in Seq(Words) /\ n \in 0..n
  BY <1>1, <1>2, PieceFacts
<1>6. IsLoop(g, Length(W[n]), [a |-> W[n], i |-> 1], turn)
  <2> HIDE DEF W
  <2>1. QED
    BY <1>5, RemovingIs
<1>7. RemoveAll(W[n], rs) = g[Length(W[n])].a
  BY DEF RemoveAll, Length
<1> HIDE DEF W, w, F, f, turn, g
<1>8. Edits(g, turn, W, w, F, f, n, Len(rs))
  BY <1>2, <1>4, <1>6 DEF Edits
<1>9. EndsWith(g, W, F, n)
  BY <1>1, <1>3, <1>8, LoopEnds
<1>10. g[Length(W[n])].a = F[n]
  BY <1>9 DEF EndsWith
<1>11. QED
  BY <1>7, <1>10 DEF W, F

\* `replaceArg` leaves them all, with the value of arg resolved.
LEMMA ReplaceArgLeaves ==
  ASSUME NEW os \in Seq(Chunks), NEW dropped, NEW resolved, NEW n \in 0..Len(os),
         NEW arg \in Pathed, arg \notin dropped
  PROVE  ReplaceArg(Written(os, dropped, resolved)[n], arg) =
           Written(os, dropped, More(resolved, arg))[n]
<1> DEFINE W == Written(os, dropped, resolved)
           w == PiecesOf(os, dropped, resolved)
           F == Written(os, dropped, More(resolved, arg))
           f == PiecesOf(os, dropped, More(resolved, arg))
           turn == [s \in States |-> ReplaceTurn(s, arg)]
           g == Replacing(W[n], arg)
<1>1. Len(os) \in Nat /\ n \in Nat
  <2>1. Len(os) \in Nat
    BY LenProperties
  <2>2. QED
    BY <2>1
<1>2. Pieces(W, w, n) /\ Pieces(F, f, n)
  BY WrittenPieces
<1>3. Changes(w, f, n, 2) /\ Turns(turn, W, w, F, f, n, 2)
  BY ReplaceChanges, ReplaceTurns
<1>4. W[n] \in Seq(Words) /\ n \in 0..n
  BY <1>1, <1>2, PieceFacts
<1>5. IsLoop(g, Length(W[n]), [a |-> W[n], i |-> 1], turn)
  <2> HIDE DEF W
  <2>1. QED
    BY <1>4, ReplacingIs
<1>6. ReplaceArg(W[n], arg) = g[Length(W[n])].a
  BY DEF ReplaceArg, Length
<1> HIDE DEF W, w, F, f, turn, g
<1>7. Edits(g, turn, W, w, F, f, n, 2) /\ 2 \in 1..2
  BY <1>2, <1>3, <1>5 DEF Edits
<1>8. EndsWith(g, W, F, n)
  BY <1>1, <1>7, LoopEnds
<1>9. g[Length(W[n])].a = F[n]
  BY <1>8 DEF EndsWith
<1>10. QED
  BY <1>6, <1>9 DEF W, F

(* The "--" *)

LEMMA NoDashes ==
  ASSUME NEW os \in Seq(Chunks), NEW n \in 0..Len(os), \A k \in 1..n : os[k] # <<"--">>
  PROVE  \A j \in 1..Length(Written(os, {}, {})[n]) :
           Written(os, {}, {})[n][j].word # "--"
<1> DEFINE W == Written(os, {}, {})
           w == PiecesOf(os, {}, {})
           Free(k) == \A j \in 1..Length(W[k]) : W[k][j].word # "--"
           S == {k \in 0..n : Free(k)}
<1>1. Len(os) \in Nat /\ n \in Nat /\ \A k \in 1..n : k \in 1..Len(os)
  <2>1. Len(os) \in Nat
    BY LenProperties
  <2>2. QED
    BY <2>1
<1>2. Pieces(W, w, n)
  BY WrittenPieces
<1>3. 0 \in S
  <2>1. Length(W[0]) = 0 /\ 0 \in 0..n
    BY <1>1, <1>2, PieceFacts
  <2>2. QED
    BY <2>1
<1>4. ASSUME NEW k \in S, k < n PROVE k + 1 \in S
  <2>1. k + 1 \in 1..n /\ k + 1 \in 0..n /\ k + 1 \in 1..Len(os) /\ k \in 0..n /\ Free(k)
    BY <1>1, <1>4
  <2>2. os[k + 1] \in Chunks /\ w[k + 1] = Chunk(os[k + 1], {}, {}) /\ os[k + 1] # <<"--">>
    BY <2>1, ElementOfSeq DEF PiecesOf
  <2> HIDE DEF W, w, Free
  <2>3. Adds(W, w, k)
    BY <1>1, <1>2, <1>4, <2>1, NextPiece
  <2>4. ASSUME NEW i \in 1..Length(w[k + 1]) PROVE w[k + 1][i].word # "--"
    <3> DEFINE o == os[k + 1]
    <3>1. Length(w[k + 1]) # 0
      BY <2>4
    <3>2. StaysAs(o, w[k + 1], {}, {})
      BY <2>1, <3>1, PieceWithWords DEF w
    <3>3. o \in Chunks /\ Length(w[k + 1]) = Len(o)
      BY <3>2 DEF StaysAs
    <3>4. w[k + 1][i].word = o[i]
      BY <2>4, <3>2, <3>3, StaysWord
    <3>5. /\ Len(o) \in 1..2 /\ (Len(o) = 2 => o[2] \notin Marks)
          /\ o[1] = "--" <=> o = <<"--">>
      BY <3>3, OptionFacts DEF OptionIsRight
    <3>6. "--" \in Marks
      BY DEF Marks
    <3>7. i = 1 \/ (i = 2 /\ Len(o) = 2)
      <4>1. i \in 1..Len(o)
        BY <2>4, <3>3
      <4>2. Len(o) \in 1..2
        BY <3>5
      <4>3. \A l \in 1..2 : \A x \in 1..l : x = 1 \/ (x = 2 /\ l = 2)
        OBVIOUS
      <4> HIDE DEF o
      <4>4. QED
        BY <4>1, <4>2, <4>3
    <3>8. QED
      BY <2>2, <3>4, <3>5, <3>6, <3>7
  <2>5. ASSUME NEW j \in 1..Length(W[k + 1]) PROVE W[k + 1][j].word # "--"
    <3>1. /\ Length(W[k]) \in Nat /\ Length(w[k + 1]) \in Nat
          /\ Length(W[k + 1]) = Length(W[k]) + Length(w[k + 1])
          /\ \A i \in 1..Length(W[k]) : W[k + 1][i] = W[k][i]
          /\ \A i \in 1..Length(w[k + 1]) : W[k + 1][Length(W[k]) + i] = w[k + 1][i]
      BY <2>3 DEF Adds
    <3>2. CASE j <= Length(W[k])
      <4>1. j \in 1..Length(W[k])
        BY <3>1, <3>2
      <4>2. QED
        BY <2>1, <3>1, <4>1 DEF Free
    <3>3. CASE j > Length(W[k])
      <4>1. PICK i \in 1..Length(w[k + 1]) : j = Length(W[k]) + i
        <5>1. /\ j - Length(W[k]) \in 1..Length(w[k + 1])
              /\ j = Length(W[k]) + (j - Length(W[k]))
          BY <3>1, <3>3
        <5>2. QED
          BY <5>1
      <4>2. QED
        BY <2>4, <3>1, <4>1
    <3>4. QED
      BY <3>1, <3>2, <3>3
  <2>6. Free(k + 1)
    BY <2>5 DEF Free
  <2>7. QED
    BY <2>1, <2>6
<1>5. \A k \in 0..n : k \in S
  <2> HIDE DEF S
  <2>1. S \in SUBSET Nat
    BY DEF S
  <2>2. QED
    BY <1>1, <1>3, <1>4, <2>1, ByInduction
<1>6. QED
  BY <1>1, <1>5

\* The options before the first "--".
LastOf(os) ==
  LET ends == {i \in DOMAIN os : os[i] = <<"--">>}
  IN IF ends = {} THEN Len(os) ELSE (CHOOSE i \in ends : \A j \in ends : i <= j) - 1

LEMMA LastIs ==
  ASSUME NEW os \in Seq(Chunks)
  PROVE  /\ LastOf(os) \in 0..Len(os)
         /\ \A k \in 1..LastOf(os) : os[k] # <<"--">>
         /\ \/ LastOf(os) = Len(os)
            \/ LastOf(os) + 1 \in 1..Len(os) /\ os[LastOf(os) + 1] = <<"--">>
<1> DEFINE ends == {i \in DOMAIN os : os[i] = <<"--">>}
<1>1. Len(os) \in Nat /\ DOMAIN os = 1..Len(os)
  BY LenProperties
<1>2. CASE ends = {}
  <2>1. LastOf(os) = Len(os)
    BY <1>2 DEF LastOf
  <2>2. \A k \in 1..Len(os) : os[k] # <<"--">>
    BY <1>1, <1>2
  <2>3. QED
    BY <1>1, <2>1, <2>2
<1>3. CASE ends # {}
  <2>1. PICK e \in ends : \A j \in ends : e <= j
    <3>1. ends \in SUBSET Nat
      BY <1>1
    <3> HIDE DEF ends
    <3>2. QED
      BY <1>3, <3>1, Smallest
  <2>2. \A i \in ends : i \in 1..Len(os) /\ os[i] = <<"--">>
    BY <1>1
  <2> DEFINE c == CHOOSE i \in ends : \A j \in ends : i <= j
  <2>3. c \in ends /\ \A j \in ends : c <= j
    <3> HIDE DEF ends
    <3>1. QED
      BY <2>1
  <2>4. LastOf(os) = c - 1
    BY <1>3 DEF LastOf
  <2>5. \A k \in 1..(c - 1) : os[k] # <<"--">>
    <3>1. SUFFICES ASSUME NEW k \in 1..(c - 1), os[k] = <<"--">> PROVE FALSE
      OBVIOUS
    <3>2. c \in 1..Len(os)
      BY <2>2, <2>3
    <3> HIDE DEF c
    <3>3. k \in 1..Len(os) /\ ~(c <= k)
      BY <1>1, <3>2
    <3>4. k \in ends
      BY <1>1, <3>1, <3>3
    <3>5. QED
      BY <2>3, <3>3, <3>4
  <2>6. c \in 1..Len(os) /\ os[c] = <<"--">>
    BY <2>2, <2>3
  <2> HIDE DEF c, ends
  <2>7. c - 1 \in 0..Len(os) /\ (c - 1) + 1 = c
    BY <1>1, <2>6
  <2>8. QED
    BY <2>4, <2>5, <2>6, <2>7
<1>4. QED
  BY <1>2, <1>3

\* What is before the first word "--" is the options before it.
LEMMA BeforeEndLeaves ==
  ASSUME NEW os \in Seq(Chunks)
  PROVE  BeforeEnd(Written(os, {}, {})[Len(os)]) = Written(os, {}, {})[LastOf(os)]
<1> DEFINE W == Written(os, {}, {})
           w == PiecesOf(os, {}, {})
           m == Len(os)
           e == LastOf(os)
           a == W[m]
           x == Length(W[e])
           Dash(i) == i \in DOMAIN a /\ a[i].word = "--"
<1>1. m \in Nat /\ m \in 0..m /\ e \in 0..m
  BY LenProperties, LastIs
<1>2. Pieces(W, w, m)
  <2> HIDE DEF m
  <2>1. QED
    BY <1>1, WrittenPieces DEF m
<1>3. a \in Seq(Words) /\ W[e] \in Seq(Words) /\ x \in Nat /\ Length(a) \in Nat
  <2> HIDE DEF W, w, m, e
  <2>1. QED
    BY <1>1, <1>2, PieceFacts
<1>4. DOMAIN a = 1..Length(a)
  <2> HIDE DEF a, Words
  <2>1. QED
    BY <1>3, LenProperties DEF Length
<1>5. \A j \in 1..x : W[e][j].word # "--"
  <2>1. \A k \in 1..e : os[k] # <<"--">>
    BY LastIs
  <2>2. QED
    BY <1>1, <2>1, NoDashes
<1>6. x <= Length(a) /\ \A j \in 1..x : a[j] = W[e][j]
  <2> HIDE DEF W, w, m, e
  <2>1. Begins(W, e, m)
    BY <1>1, <1>2, FirstPieces
  <2>2. QED
    BY <2>1 DEF Begins
<1>7. \A j \in 1..x : a[j].word # "--"
  BY <1>5, <1>6
<1>8. CASE e = m
  <2>1. \A i \in DOMAIN a : a[i].word # "--"
    BY <1>4, <1>7, <1>8
  <2>2. BeforeEnd(a) = a
    <3> HIDE DEF a
    <3>1. QED
      BY <2>1 DEF BeforeEnd
  <2>3. QED
    BY <1>8, <2>2
<1>9. CASE e # m
  <2>1. e + 1 \in 1..m /\ e < m /\ os[e + 1] = <<"--">>
    BY <1>1, <1>9, LastIs
  <2>2. Length(w[e + 1]) = 1 /\ w[e + 1][1].word = "--"
    <3> DEFINE o == os[e + 1]
    <3>1. o \in Chunks /\ w[e + 1] = Chunk(o, {}, {})
      BY <2>1, ElementOfSeq DEF PiecesOf
    <3>2. Len(o) = 1 /\ o[1] = "--"
      BY <2>1, WordByWord
    <3> HIDE DEF o, w
    <3>3. Length(w[e + 1]) = Len(o)
      BY <3>1, ChunkFacts
    <3>4. Length(w[e + 1]) = 1 /\ Length(w[e + 1]) # 0
      BY <3>2, <3>3
    <3>5. StaysAs(o, w[e + 1], {}, {})
      BY <2>1, <3>4, PieceWithWords DEF o, w
    <3>6. 1 \in 1..Len(o)
      BY <3>2
    <3>7. w[e + 1][1].word = o[1]
      BY <3>5, <3>6, StaysWord
    <3>8. QED
      BY <3>2, <3>4, <3>7
  <2> DEFINE p == x + 1
  <2>3. p \in DOMAIN a /\ a[p].word = "--"
    <3> HIDE DEF W, w, m, e, a
    <3>1. Adds(W, w, e)
      BY <1>1, <1>2, <2>1, NextPiece
    <3>2. /\ Length(W[e + 1]) = x + 1
          /\ W[e + 1][x + 1] = w[e + 1][1]
      <4>1. /\ Length(W[e + 1]) = x + Length(w[e + 1])
            /\ \A j \in 1..Length(w[e + 1]) : W[e + 1][x + j] = w[e + 1][j]
        BY <3>1 DEF Adds
      <4>2. 1 \in 1..Length(w[e + 1])
        BY <2>2
      <4>3. QED
        BY <2>2, <4>1, <4>2
    <3>3. e + 1 \in 0..m
      BY <1>1, <2>1
    <3>4. Begins(W, e + 1, m)
      BY <1>1, <1>2, <3>3, FirstPieces
    <3>5. x + 1 <= Length(a) /\ a[x + 1] = W[e + 1][x + 1]
      <4>1. /\ Length(W[e + 1]) <= Length(a)
            /\ \A j \in 1..Length(W[e + 1]) : a[j] = W[e + 1][j]
        BY <3>4 DEF Begins, a
      <4>2. x + 1 \in 1..Length(W[e + 1])
        BY <1>3, <3>2
      <4>3. QED
        BY <3>2, <4>1, <4>2
    <3>6. QED
      BY <1>3, <1>4, <2>2, <3>2, <3>5
  <2>4. \A j \in 1..(p - 1) : a[j].word # "--"
    <3>1. p - 1 = x
      BY <1>3
    <3>2. QED
      BY <1>7, <3>1
  <2> DEFINE c == CHOOSE i \in DOMAIN a : a[i].word = "--" /\ \A j \in 1..(i-1) : a[j].word # "--"
  <2>5. p \in 1..Length(a) /\ p \in Nat /\ p - 1 = x
    <3>1. x \in Nat
      BY <1>3
    <3> HIDE DEF x
    <3>2. p \in Nat /\ p - 1 = x
      BY <3>1
    <3> HIDE DEF p, a
    <3>3. p \in 1..Length(a)
      BY <1>4, <2>3
    <3>4. QED
      BY <3>2, <3>3
  <2> HIDE DEF p, a
  <2>6. /\ c \in DOMAIN a /\ a[c].word = "--" /\ \A j \in 1..(c - 1) : a[j].word # "--"
    BY <2>3, <2>4
  <2> HIDE DEF c
  <2>7. c = p
    <3>1. c \in 1..Length(a)
      BY <1>4, <2>6
    <3>2. ~(c < p)
      <4>1. c < p => c \in 1..(p - 1)
        BY <1>3, <2>5, <3>1
      <4>2. QED
        BY <2>4, <2>6, <4>1
    <3>3. ~(p < c)
      <4>1. p < c => p \in 1..(c - 1)
        BY <1>3, <2>5, <3>1
      <4>2. QED
        BY <2>3, <2>6, <4>1
    <3>4. QED
      BY <1>3, <2>5, <3>1, <3>2, <3>3
  <2>8. BeforeEnd(a) = SubSeq(a, 1, c - 1)
    BY <2>3 DEF BeforeEnd, c
  <2>9. SubSeq(a, 1, c - 1) = From(a, 1, x)
    <3>1. c - 1 = 1 + x - 1
      BY <1>3, <2>5, <2>7
    <3>2. QED
      BY <3>1 DEF From
  <2>10. From(a, 1, x) = W[e]
    <3> HIDE DEF W, e, x
    <3>1. 1 + x - 1 <= Length(a) /\ 1 \in Nat \ {0}
      BY <1>3, <1>6
    <3>2. /\ From(a, 1, x) \in Seq(Words) /\ Length(From(a, 1, x)) = x
          /\ \A j \in 1..x : From(a, 1, x)[j] = a[1 - 1 + j]
      BY <1>3, <3>1, FromFacts
    <3>3. \A j \in 1..x : 1 - 1 + j = j
      OBVIOUS
    <3>4. \A j \in 1..x : From(a, 1, x)[j] = W[e][j]
      BY <1>6, <3>2, <3>3
    <3> HIDE DEF Words
    <3>5. Len(From(a, 1, x)) = Len(W[e]) /\ Len(W[e]) = x
      BY <3>2 DEF Length, x
    <3> DEFINE s == From(a, 1, x)
               t == W[e]
    <3>6. s \in Seq(Words) /\ t \in Seq(Words) /\ Len(s) = Len(t) /\ \A j \in 1..Len(s) : s[j] = t[j]
      BY <1>3, <3>2, <3>4, <3>5
    <3> HIDE DEF s, t
    <3>7. s = t
      BY <3>6, SeqEqual
    <3>8. QED
      BY <3>7 DEF s, t
  <2>11. QED
    BY <2>8, <2>9, <2>10 DEF a
<1>10. QED
  BY <1>8, <1>9

(* The commands *)

LEMMA NamedIs ==
  ASSUME NEW options \in Seq(Options)
  PROVE  Named(options) \in Seq(Chunks)
<1>1. <<<<"cros">>, <<"verb">>>> \in Seq(Chunks)
  <2>1. <<"cros">> \in Chunks /\ <<"verb">> \in Chunks
    BY DEF Chunks
  <2> HIDE DEF Chunks
  <2>2. \A x \in Chunks, y \in Chunks : <<x, y>> \in Seq(Chunks)
    OBVIOUS
  <2>3. QED
    BY <2>1, <2>2
<1>2. options \in Seq(Chunks)
  <2>1. Options \subseteq Chunks
    BY DEF Chunks
  <2>2. \A S, T : S \subseteq T => Seq(S) \subseteq Seq(T)
    OBVIOUS
  <2>3. QED
    BY <2>1, <2>2
<1>3. QED
  <2> DEFINE s == <<<<"cros">>, <<"verb">>>>
  <2>1. s \in Seq(Chunks)
    BY <1>1
  <2> HIDE DEF s
  <2>2. Joined(s, options) \in Seq(Chunks)
    BY <1>2, <2>1, JoinedFacts
  <2>3. QED
    BY <2>2 DEF Joined, s, Named

\* The three words that are removed and the two that are replaced.
LEMMA WordsOfRemoved ==
  /\ <<"--check">> \in Removed /\ <<"--check">>[1] = "--check"
  /\ <<"--commit", AnyWord>> \in Removed /\ <<"--commit", AnyWord>>[1] = "--commit"
  /\ <<"${PRESUBMIT_FILES}">> \in Removed /\ <<"${PRESUBMIT_FILES}">>[1] = "${PRESUBMIT_FILES}"
BY WordByWord DEF Removed

LEMMA CommitsRemoved ==
  ASSUME NEW os \in Seq(Chunks), NEW dropped, NEW n \in 0..Len(os)
  PROVE  RemoveAll(RemoveAll(Written(os, dropped, {})[n], <<"--commit", AnyWord>>),
                        <<"${PRESUBMIT_FILES}">>) =
           Written(os, dropped \cup {"--commit", "${PRESUBMIT_FILES}"}, {})[n]
<1> DEFINE commit == <<"--commit", AnyWord>>
           files == <<"${PRESUBMIT_FILES}">>
           fewer == Less(dropped, commit)
           neither == Less(fewer, files)
<1>1. commit \in Removed /\ files \in Removed
  BY WordsOfRemoved
<1>2. neither = dropped \cup {"--commit", "${PRESUBMIT_FILES}"}
  BY WordsOfRemoved DEF Less
<1> HIDE DEF commit, files
<1>3. RemoveAll(Written(os, dropped, {})[n], commit) = Written(os, fewer, {})[n]
  BY <1>1, RemoveAllLeaves
<1>4. RemoveAll(Written(os, fewer, {})[n], files) = Written(os, neither, {})[n]
  <2> HIDE DEF fewer
  <2>1. QED
    BY <1>1, RemoveAllLeaves
<1>5. QED
  BY <1>2, <1>3, <1>4 DEF commit, files

LEMMA PatternsLeave ==
  ASSUME NEW os \in Seq(Chunks), NEW dropped, NEW n \in 0..Len(os),
         "--exclude" \notin dropped, "--include" \notin dropped
  PROVE  Patterns(Written(os, dropped, {})[n]) =
           Written(os, dropped, {"--exclude", "--include"})[n]
<1> DEFINE first == More({}, "--exclude")
           both == More(first, "--include")
<1>1. "--exclude" \in Pathed /\ "--include" \in Pathed
  BY DEF Pathed
<1>2. ReplaceArg(Written(os, dropped, {})[n], "--exclude") = Written(os, dropped, first)[n]
  BY <1>1, ReplaceArgLeaves
<1>3. ReplaceArg(Written(os, dropped, first)[n], "--include") = Written(os, dropped, both)[n]
  <2> HIDE DEF first
  <2>1. QED
    BY <1>1, ReplaceArgLeaves
<1>4. both = {"--exclude", "--include"}
  BY DEF More
<1>5. QED
  BY <1>2, <1>3, <1>4 DEF Patterns

LEMMA MeantIs ==
  ASSUME NEW os, NEW dropped
  PROVE  Meant(os, dropped) = Written(os, dropped, {"--exclude", "--include"})[LastOf(os)]
BY DEF Meant, LastOf

\* What the loops make of the words is what is meant by the options.
LEMMA HookRight ==
  ASSUME TypeOK
  PROVE  OptionsSurvive
<1> DEFINE os == Named(hook)
           e == LastOf(os)
           a == BeforeEnd(Parsed(hook))
           fd == {"--check", "--commit", "${PRESUBMIT_FILES}"}
           ld == {"--commit", "${PRESUBMIT_FILES}"}
           R == {"--exclude", "--include"}
<1>1. os \in Seq(Chunks)
  BY NamedIs DEF TypeOK
<1> HIDE DEF os
<1>2. e \in 0..Len(os)
  BY <1>1, LastIs
<1>3. a = Written(os, {}, {})[e]
  BY <1>1, BeforeEndLeaves DEF Parsed, os
<1> HIDE DEF e, a
<1>4. RemoveAll(a, <<"--check">>) = Written(os, {"--check"}, {})[e]
  <2>1. Less({}, <<"--check">>) = {"--check"}
    BY WordsOfRemoved DEF Less
  <2> DEFINE check == <<"--check">>
  <2>2. check \in Removed
    BY WordsOfRemoved
  <2> HIDE DEF check
  <2>3. RemoveAll(a, check) = Written(os, Less({}, check), {})[e]
    BY <1>1, <1>2, <1>3, <2>2, RemoveAllLeaves
  <2>4. QED
    BY <2>1, <2>3 DEF check
<1>5. RemoveAll(RemoveAll(RemoveAll(a, <<"--check">>), <<"--commit", AnyWord>>),
                     <<"${PRESUBMIT_FILES}">>) = Written(os, fd, {})[e]
  <2>1. {"--check"} \cup {"--commit", "${PRESUBMIT_FILES}"} = fd
    OBVIOUS
  <2> HIDE DEF fd
  <2>2. QED
    BY <1>1, <1>2, <1>4, <2>1, CommitsRemoved
<1>6. RemoveAll(RemoveAll(a, <<"--commit", AnyWord>>), <<"${PRESUBMIT_FILES}">>) =
        Written(os, ld, {})[e]
  <2>1. {} \cup {"--commit", "${PRESUBMIT_FILES}"} = ld
    OBVIOUS
  <2> HIDE DEF ld
  <2>2. QED
    BY <1>1, <1>2, <1>3, <2>1, CommitsRemoved
<1>7. /\ "--exclude" \notin fd /\ "--include" \notin fd
      /\ "--exclude" \notin ld /\ "--include" \notin ld
  OBVIOUS
<1> HIDE DEF fd, ld
<1>8. Patterns(Written(os, fd, {})[e]) = Meant(os, fd)
  BY <1>1, <1>2, <1>7, PatternsLeave, MeantIs DEF e
<1>9. Patterns(Written(os, ld, {})[e]) = Meant(os, ld)
  BY <1>1, <1>2, <1>7, PatternsLeave, MeantIs DEF e
<1>10. FormatCommand(hook) =
         Meant(os, fd) \o <<Word("--stdout"), Word("document")>>
  BY <1>5, <1>8 DEF FormatCommand, a
<1>11. LintCommand(hook, "shellscript") =
         Meant(os, ld) \o <<Word("--output=parseable")>> \o <<Word("document")>>
  BY <1>6, <1>9 DEF LintCommand, a
<1>12. QED
  BY <1>10, <1>11 DEF OptionsSurvive, os, fd, ld

\* The command on the document has every option of the hook up to the "--", in
\* order and with its patterns resolved, and nothing of what selects other files
\* (formatting_edit_provider.ts:264), for a hook with any number of options.
THEOREM CommandsAreMeant == Spec => []OptionsSurvive
<1>1. Init => TypeOK
  BY DEF Init, TypeOK
<1>2. TypeOK /\ [Next]_hook => TypeOK'
  <2>1. SUFFICES ASSUME hook \in Seq(Options), [Next]_hook PROVE hook' \in Seq(Options)
    BY DEF TypeOK
  <2>2. \A o \in Options : Append(hook, o) \in Seq(Options)
    <3> HIDE DEF Options
    <3>1. QED
      BY <2>1
  <2>3. QED
    BY <2>1, <2>2 DEF Next
<1>3. QED
  BY <1>1, <1>2, HookRight, PTL DEF Spec
=============================================================================
