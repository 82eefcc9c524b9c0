--------------------------- MODULE KcpLinkProofs ---------------------------
(***************************************************************************)
(* Proofs about KcpLink: one conversation, for any windows, any numbers,   *)
(* any messages and any faults, of which only the last part excludes one,  *)
(* the restart of the listener.                                            *)
(*                                                                         *)
(* First the operators of KcpControl, one lemma for each function of the   *)
(* control block: what it changes, in terms of the sets its queues draw    *)
(* from (Blk).  With the plain sets of segments these lemmas give the type *)
(* invariant, and the window of the sender with it.  With the sets of the  *)
(* segments that carry the number they should (KeptN, EarlyN, WireN), and  *)
(* of the acknowledgements that are true (AckT), they give the invariant   *)
(* of a direction (Flow), from which it follows that nothing is forgotten  *)
(* and that the stream keeps the promise of Pipe.                          *)
(***************************************************************************)
EXTENDS KcpLink, SequenceTheorems, FiniteSetTheorems, WellFoundedInduction, TLAPS

\* The sequence numbers.
Number == 0..(SnMod - 1)

(* What the assumptions say of each constant. *)
LEMMA ConstantFacts ==
  /\ SndWnd \in Nat \ {0} /\ RcvWnd \in Nat \ {0} /\ WndRcv \in Nat \ {0}
  /\ DeadLink \in Nat \ {0} /\ SnMod \in Nat \ {0}
  /\ WndRcv <= RcvWnd /\ 2 * (SndWnd + RcvWnd) <= SnMod
  /\ Start \in Number
PROOF BY WindowsFit, LinkAssumption DEF Number

-----------------------------------------------------------------------------
(* Arithmetic modulo SnMod, over the span the control block needs.         *)

(* A number within the range is its own remainder. *)
LEMMA ModLow == ASSUME NEW a \in Int, 0 <= a, a < SnMod PROVE a % SnMod = a
PROOF BY ConstantFacts, Z3

(* One turn above the range, the remainder is a turn less. *)
LEMMA ModMid == ASSUME NEW a \in Int, SnMod <= a, a < 2 * SnMod PROVE a % SnMod = a - SnMod
PROOF BY ConstantFacts, Z3

(* One turn below the range, it is a turn more. *)
LEMMA ModNeg == ASSUME NEW a \in Int, -SnMod <= a, a < 0 PROVE a % SnMod = a + SnMod
PROOF BY ConstantFacts, Z3

(* Two turns below the range, it is two turns more. *)
LEMMA ModNegTwo ==
  ASSUME NEW a \in Int, -(2 * SnMod) <= a, a < -SnMod PROVE a % SnMod = a + 2 * SnMod
PROOF BY ConstantFacts, Z3

(* A remainder is a sequence number. *)
LEMMA ModRange == ASSUME NEW a \in Int PROVE a % SnMod \in Number
PROOF BY ConstantFacts, Z3 DEF Number

(* A remainder as a case split, for a number up to two turns below and one above. *)
LEMMA ModCases ==
  ASSUME NEW a \in Int, -(2 * SnMod) <= a, a < 2 * SnMod
  PROVE  a % SnMod = IF a < -SnMod THEN a + 2 * SnMod ELSE IF a < 0 THEN a + SnMod
                     ELSE IF a < SnMod THEN a ELSE a - SnMod
PROOF BY ModLow, ModMid, ModNeg, ModNegTwo, ConstantFacts

-----------------------------------------------------------------------------
(* The least and the greatest element of a set of numbers.                 *)

(* A set of numbers that is not empty has a least element. *)
LEMMA LeastExists ==
  ASSUME NEW S, S \subseteq Nat, S # {} PROVE \E x \in S : \A y \in S : x <= y
PROOF
<1>1. IsWellFoundedOn(OpToRel(<, Nat), Nat)
  BY NatLessThanWellFounded
<1>2. PICK x \in S : \A y \in S : ~ (<<y, x>> \in OpToRel(<, Nat))
  BY <1>1, WFMin, Zenon
<1>3. ASSUME NEW y \in S, ~ (<<y, x>> \in OpToRel(<, Nat)) PROVE x <= y
  BY <1>3 DEF OpToRel
<1> QED BY <1>2, <1>3

(* Min of a set of numbers is in it, and below the others. *)
LEMMA MinOf ==
  ASSUME NEW S, S \subseteq Nat, S # {}
  PROVE  Min(S) \in S /\ \A y \in S : Min(S) <= y
PROOF
<1>1. \E x \in S : \A y \in S : x <= y BY LeastExists
<1> QED BY <1>1, Zenon DEF Min

(* Max of a bounded set of numbers is in it, and above the others. *)
LEMMA MaxOf ==
  ASSUME NEW n \in Nat, NEW S, S \subseteq 0..n, S # {}
  PROVE  Max(S) \in S /\ \A y \in S : Max(S) >= y
PROOF
<1> DEFINE T == {n - x : x \in S}
<1>0. \A x \in S : x \in Nat /\ n - x \in Nat BY SMT
<1>1. T \subseteq Nat /\ T # {} BY <1>0
<1>2. PICK t \in T : \A y \in T : t <= y BY <1>1, LeastExists
<1>3. PICK x \in S : t = n - x BY <1>2
<1>4. ASSUME NEW y \in S PROVE x >= y
  <2>1. n - y \in T OBVIOUS
  <2>2. n - x <= n - y BY <1>2, <1>3, <2>1
  <2> QED BY <2>2, <1>0
<1>5. \E z \in S : \A y \in S : z >= y BY <1>4
<1> QED BY <1>5, Zenon DEF Max

(* Min of two numbers is the smaller. *)
LEMMA MinOfTwo ==
  ASSUME NEW a \in Int, NEW b \in Int PROVE Min({a, b}) = IF a <= b THEN a ELSE b
PROOF
<1>1. \E x \in {a, b} : \A y \in {a, b} : x <= y BY SMT
<1>2. Min({a, b}) \in {a, b} /\ \A y \in {a, b} : Min({a, b}) <= y
  BY <1>1, Zenon DEF Min
<1> QED BY <1>2, SMT

(* Max of two numbers is the larger. *)
LEMMA MaxOfTwo ==
  ASSUME NEW a \in Int, NEW b \in Int PROVE Max({a, b}) = IF a >= b THEN a ELSE b
PROOF
<1>1. \E x \in {a, b} : \A y \in {a, b} : x >= y BY SMT
<1>2. Max({a, b}) \in {a, b} /\ \A y \in {a, b} : Max({a, b}) >= y
  BY <1>1, Zenon DEF Max
<1> QED BY <1>2, SMT

-----------------------------------------------------------------------------
(* Sequences.                                                              *)

(* A concatenation, element by element. *)
LEMMA ConcatFacts ==
  ASSUME NEW S, NEW s \in Seq(S), NEW t \in Seq(S)
  PROVE  /\ s \o t \in Seq(S) /\ Len(s \o t) = Len(s) + Len(t)
         /\ \A i \in 1..Len(s) : (s \o t)[i] = s[i]
         /\ \A i \in 1..Len(t) : (s \o t)[Len(s) + i] = t[i]
PROOF
<1>1. s \o t \in Seq(S) /\ Len(s \o t) = Len(s) + Len(t)
  BY ConcatProperties
<1>2. \A i \in 1..(Len(s) + Len(t)) : (s \o t)[i] = IF i <= Len(s) THEN s[i] ELSE t[i - Len(s)]
  BY ConcatProperties
<1>3. Len(s) \in Nat /\ Len(t) \in Nat BY LenProperties
<1>4. ASSUME NEW i \in 1..Len(s) PROVE (s \o t)[i] = s[i]
  BY <1>2, <1>3
<1>5. ASSUME NEW i \in 1..Len(t) PROVE (s \o t)[Len(s) + i] = t[i]
  <2>1. Len(s) + i \in 1..(Len(s) + Len(t)) /\ ~(Len(s) + i <= Len(s)) /\ Len(s) + i - Len(s) = i
    BY <1>3
  <2> QED BY <2>1, <1>2
<1> QED BY <1>1, <1>4, <1>5

(* A piece of a sequence, element by element. *)
LEMMA SubSeqFacts ==
  ASSUME NEW S, NEW s \in Seq(S), NEW m \in Nat, NEW n \in Nat, m <= n, n <= Len(s)
  PROVE  /\ SubSeq(s, m + 1, n) \in Seq(S) /\ Len(SubSeq(s, m + 1, n)) = n - m
         /\ \A i \in 1..(n - m) : SubSeq(s, m + 1, n)[i] = s[m + i]
PROOF
<1>1. \A i \in (m + 1)..n : s[i] \in S BY ElementOfSeq, LenProperties
<1>2. m + 1 \in Int /\ n \in Int /\ m + 1 <= n + 1 BY SMT
<1>3. /\ SubSeq(s, m + 1, n) \in Seq(S)
      /\ Len(SubSeq(s, m + 1, n)) = IF m + 1 <= n THEN n - (m + 1) + 1 ELSE 0
      /\ \A i \in 1..(n - (m + 1) + 1) : SubSeq(s, m + 1, n)[i] = s[(m + 1) + i - 1]
  BY <1>1, <1>2, SubSeqProperties
<1>4. n - (m + 1) + 1 = n - m BY SMT
<1>5. \A i \in 1..(n - m) : (m + 1) + i - 1 = m + i BY SMT
<1> QED BY <1>3, <1>4, <1>5

(* RemoveAt moves what follows one place down. *)
LEMMA RemoveFacts ==
  ASSUME NEW S, NEW s \in Seq(S), NEW i \in 1..Len(s)
  PROVE  /\ RemoveAt(s, i) \in Seq(S) /\ Len(RemoveAt(s, i)) = Len(s) - 1
         /\ \A j \in 1..(Len(s) - 1) : RemoveAt(s, i)[j] = IF j < i THEN s[j] ELSE s[j + 1]
PROOF
<1> DEFINE left == SubSeq(s, 1, i - 1)  right == SubSeq(s, i + 1, Len(s))
<1>1. Len(s) \in Nat /\ i \in Nat /\ i - 1 \in Nat /\ i <= Len(s) BY LenProperties
<1>2. left \in Seq(S) /\ Len(left) = i - 1 /\ \A j \in 1..(i - 1) : left[j] = s[j]
  <2>1. SubSeq(s, 0 + 1, i - 1) = left BY SMT
  <2> QED BY <1>1, <2>1, SubSeqFacts
<1>3. right \in Seq(S) /\ Len(right) = Len(s) - i /\ \A j \in 1..(Len(s) - i) : right[j] = s[i + j]
  BY <1>1, SubSeqFacts
<1>4. RemoveAt(s, i) = left \o right BY DEF RemoveAt
<1> HIDE DEF left, right
<1>5. /\ left \o right \in Seq(S) /\ Len(left \o right) = Len(left) + Len(right)
      /\ \A j \in 1..Len(left) : (left \o right)[j] = left[j]
      /\ \A j \in 1..Len(right) : (left \o right)[Len(left) + j] = right[j]
  <2>1. left \in Seq(S) /\ right \in Seq(S) BY <1>2, <1>3
  <2> QED BY <2>1, ConcatFacts
<1>6. ASSUME NEW j \in 1..(Len(s) - 1)
      PROVE  RemoveAt(s, i)[j] = IF j < i THEN s[j] ELSE s[j + 1]
  <2>1. CASE j < i BY <2>1, <1>1, <1>2, <1>4, <1>5
  <2>2. CASE ~(j < i)
    <3>1. j - (i - 1) \in 1..(Len(s) - i) /\ Len(left) + (j - (i - 1)) = j /\ i + (j - (i - 1)) = j + 1
      BY <2>2, <1>1, <1>2
    <3> QED BY <2>2, <3>1, <1>3, <1>4, <1>5
  <2> QED BY <2>1, <2>2
<1>7. RemoveAt(s, i) \in Seq(S) BY <1>4, <1>5
<1>8. Len(RemoveAt(s, i)) = Len(s) - 1 BY <1>1, <1>2, <1>3, <1>4, <1>5
<1> QED BY <1>6, <1>7, <1>8

(* InsertAt moves what follows one place up. *)
LEMMA InsertFacts ==
  ASSUME NEW S, NEW s \in Seq(S), NEW i \in 1..(Len(s) + 1), NEW x \in S
  PROVE  /\ InsertAt(s, i, x) \in Seq(S) /\ Len(InsertAt(s, i, x)) = Len(s) + 1
         /\ \A j \in 1..(i - 1) : InsertAt(s, i, x)[j] = s[j]
         /\ InsertAt(s, i, x)[i] = x
         /\ \A j \in i..Len(s) : InsertAt(s, i, x)[j + 1] = s[j]
PROOF
<1> DEFINE left == SubSeq(s, 1, i - 1)  right == SubSeq(s, i, Len(s))  mid == left \o <<x>>
<1>1. Len(s) \in Nat /\ i \in Nat /\ i - 1 \in Nat /\ i - 1 <= Len(s) BY LenProperties
<1>2. left \in Seq(S) /\ Len(left) = i - 1 /\ \A j \in 1..(i - 1) : left[j] = s[j]
  <2>1. SubSeq(s, 0 + 1, i - 1) = left BY SMT
  <2> QED BY <1>1, <2>1, SubSeqFacts
<1>3. /\ right \in Seq(S) /\ Len(right) = Len(s) - (i - 1)
      /\ \A j \in 1..(Len(s) - (i - 1)) : right[j] = s[(i - 1) + j]
  <2>1. SubSeq(s, (i - 1) + 1, Len(s)) = right BY <1>1, SMT
  <2> QED BY <1>1, <2>1, SubSeqFacts
<1>4. InsertAt(s, i, x) = mid \o right BY DEF InsertAt
<1>x. <<x>> \in Seq(S) /\ Len(<<x>>) = 1 /\ <<x>>[1] = x OBVIOUS
<1> HIDE DEF left, right
<1>5. /\ mid \in Seq(S) /\ Len(mid) = Len(left) + Len(<<x>>)
      /\ \A j \in 1..Len(left) : mid[j] = left[j]
      /\ \A j \in 1..Len(<<x>>) : mid[Len(left) + j] = <<x>>[j]
  BY <1>2, <1>x, ConcatFacts
<1>6. Len(mid) = i /\ mid[i] = x /\ \A j \in 1..(i - 1) : mid[j] = s[j]
  <2>1. Len(mid) = i BY <1>1, <1>2, <1>5, <1>x
  <2>2. mid[Len(left) + 1] = x BY <1>5, <1>x
  <2>3. mid[i] = x BY <2>2, <1>2, <1>1
  <2> QED BY <2>1, <2>3, <1>2, <1>5
<1> HIDE DEF mid
<1>7. /\ mid \o right \in Seq(S) /\ Len(mid \o right) = Len(mid) + Len(right)
      /\ \A j \in 1..Len(mid) : (mid \o right)[j] = mid[j]
      /\ \A j \in 1..Len(right) : (mid \o right)[Len(mid) + j] = right[j]
  <2>1. mid \in Seq(S) /\ right \in Seq(S) BY <1>3, <1>5
  <2> QED BY <2>1, ConcatFacts
<1>8. ASSUME NEW j \in i..Len(s) PROVE InsertAt(s, i, x)[j + 1] = s[j]
  <2>1. j - (i - 1) \in 1..(Len(s) - (i - 1)) /\ Len(mid) + (j - (i - 1)) = j + 1
         /\ (i - 1) + (j - (i - 1)) = j
    BY <1>1, <1>6
  <2>2. j - (i - 1) \in 1..Len(right) BY <2>1, <1>3
  <2>3. (mid \o right)[j + 1] = right[j - (i - 1)] BY <2>1, <2>2, <1>7
  <2>4. right[j - (i - 1)] = s[j] BY <2>1, <1>3
  <2> QED BY <2>3, <2>4, <1>4
<1>9. \A j \in 1..(i - 1) : InsertAt(s, i, x)[j] = s[j] BY <1>1, <1>4, <1>6, <1>7
<1>10. InsertAt(s, i, x)[i] = x BY <1>1, <1>4, <1>6, <1>7
<1>11. Len(InsertAt(s, i, x)) = Len(s) + 1 BY <1>1, <1>3, <1>4, <1>6, <1>7
<1> QED BY <1>4, <1>7, <1>8, <1>9, <1>10, <1>11

(* The first n elements. *)
LEMMA PrefixFacts ==
  ASSUME NEW S, NEW s \in Seq(S), NEW n \in 0..Len(s)
  PROVE  /\ SubSeq(s, 1, n) \in Seq(S) /\ Len(SubSeq(s, 1, n)) = n
         /\ \A i \in 1..n : SubSeq(s, 1, n)[i] = s[i]
PROOF
<1>1. Len(s) \in Nat /\ n \in Nat /\ 0 \in Nat /\ 0 <= n /\ n <= Len(s) BY LenProperties
<1>2. /\ SubSeq(s, 0 + 1, n) \in Seq(S) /\ Len(SubSeq(s, 0 + 1, n)) = n - 0
      /\ \A i \in 1..(n - 0) : SubSeq(s, 0 + 1, n)[i] = s[0 + i]
  BY <1>1, SubSeqFacts
<1>3. SubSeq(s, 0 + 1, n) = SubSeq(s, 1, n) /\ n - 0 = n BY <1>1
<1>4. \A i \in 1..n : 0 + i = i BY <1>1
<1> QED BY <1>2, <1>3, <1>4

(* What is left after the first n elements. *)
LEMMA SuffixFacts ==
  ASSUME NEW S, NEW s \in Seq(S), NEW n \in 0..Len(s)
  PROVE  /\ SubSeq(s, n + 1, Len(s)) \in Seq(S) /\ Len(SubSeq(s, n + 1, Len(s))) = Len(s) - n
         /\ \A i \in 1..(Len(s) - n) : SubSeq(s, n + 1, Len(s))[i] = s[n + i]
PROOF
<1>1. Len(s) \in Nat /\ n \in Nat /\ n <= Len(s) /\ Len(s) <= Len(s) BY LenProperties
<1> QED BY <1>1, SubSeqFacts

(* Sequences of no element and of one. *)
LEMMA ShortFacts ==
  ASSUME NEW S, NEW x \in S
  PROVE  /\ <<>> \in Seq(S) /\ Len(<<>>) = 0
         /\ <<x>> \in Seq(S) /\ Len(<<x>>) = 1 /\ <<x>>[1] = x
PROOF OBVIOUS

(* Induction along 1..n, over a set of numbers. *)
LEMMA UpTo ==
  ASSUME NEW n \in Nat, NEW S, 1 \in S,
         \A i \in 1..(n - 1) : i \in S => i + 1 \in S
  PROVE  1..n \subseteq S
PROOF
<1> SUFFICES ASSUME ~(1..n \subseteq S) PROVE FALSE OBVIOUS
<1> DEFINE B == (1..n) \ S
<1>1. B \subseteq Nat /\ B # {} OBVIOUS
<1> HIDE DEF B
<1>2. PICK m \in B : \A y \in B : m <= y BY <1>1, LeastExists
<1>3. m \in 1..n /\ m \notin S BY <1>2 DEF B
<1>4. m - 1 \in 1..(n - 1) /\ m - 1 + 1 = m
  <2>1. m # 1 BY <1>3
  <2> QED BY <1>3, <2>1
<1>5. m - 1 \notin B BY <1>2, <1>3, SMT
<1>6. m - 1 \in S BY <1>4, <1>5 DEF B
<1> QED BY <1>3, <1>4, <1>6

(* What FlattenSeq computes: the last of the partial concatenations. *)
LEMMA FlattenRecursion ==
  ASSUME NEW S, NEW seqs \in Seq(Seq(S)), Len(seqs) > 0
  PROVE  \E f : /\ \A i \in 1..Len(seqs) : f[i] \in Seq(S)
                /\ f[1] = seqs[1]
                /\ \A i \in 1..(Len(seqs) - 1) : f[i + 1] = f[i] \o seqs[i + 1]
                /\ FlattenSeq(seqs) = f[Len(seqs)]
PROOF
<1> DEFINE N == Len(seqs)
           Partial(f, n) == f = [i \in 1..n |-> IF i = 1 THEN seqs[i] ELSE f[i - 1] \o seqs[i]]
           Good == {n \in 1..N : \E f : Partial(f, n)}
<1>1. N \in Nat /\ N > 0 BY LenProperties
<1>2. 1..N \subseteq Good
  <2>1. 1 \in Good
    <3>1. Partial([i \in 1..1 |-> seqs[i]], 1) BY SMT
    <3> HIDE DEF Partial
    <3>2. \E f : Partial(f, 1) BY <3>1
    <3>3. 1 \in 1..N BY <1>1
    <3> QED BY <3>2, <3>3
  <2>2. ASSUME NEW n \in 1..(N - 1), n \in Good PROVE n + 1 \in Good
    <3>1. PICK g : Partial(g, n) BY <2>2
    <3> DEFINE h == [i \in 1..(n + 1) |-> IF i <= n THEN g[i] ELSE g[n] \o seqs[n + 1]]
    <3>2. ASSUME NEW i \in 1..(n + 1)
          PROVE  h[i] = IF i = 1 THEN seqs[i] ELSE h[i - 1] \o seqs[i]
      <4>1. CASE i <= n
        <5>1. h[i] = g[i] /\ i \in 1..n BY <4>1
        <5>2. g[i] = IF i = 1 THEN seqs[i] ELSE g[i - 1] \o seqs[i] BY <3>1, <5>1
        <5>3. i # 1 => h[i - 1] = g[i - 1] BY <4>1
        <5> QED BY <5>1, <5>2, <5>3
      <4>2. CASE i = n + 1
        <5>0. n \in Nat /\ n >= 1 BY <1>1
        <5>1. i # 1 /\ i - 1 = n /\ ~(i <= n) BY <4>2, <5>0
        <5>3. h[i] = g[n] \o seqs[n + 1] BY <5>1
        <5>2. h[n] = g[n] OBVIOUS
        <5> QED BY <4>2, <5>1, <5>2, <5>3
      <4> QED BY <4>1, <4>2
    <3>3. Partial(h, n + 1)
      <4> DEFINE rhs == [i \in 1..(n + 1) |-> IF i = 1 THEN seqs[i] ELSE h[i - 1] \o seqs[i]]
      <4>1. h = [i \in 1..(n + 1) |-> h[i]] OBVIOUS
      <4> HIDE DEF h
      <4>2. [i \in 1..(n + 1) |-> h[i]] = rhs BY <3>2, Zenon
      <4> QED BY <4>1, <4>2
    <3> HIDE DEF Partial, h
    <3>4. \E f : Partial(f, n + 1) BY <3>3
    <3> HIDE DEF N
    <3>5. n + 1 \in 1..N BY <1>1
    <3> QED BY <3>4, <3>5
  <2> HIDE DEF Good, N
  <2> QED BY <1>1, <2>1, <2>2, UpTo
<1>3. \E f : Partial(f, N)
  <2> HIDE DEF Partial
  <2>1. N \in 1..N BY <1>1
  <2>2. N \in Good BY <2>1, <1>2
  <2> QED BY <2>2
<1> DEFINE f == CHOOSE f : Partial(f, N)
<1>4. Partial(f, N) BY <1>3, Zenon
<1>5. FlattenSeq(seqs) = f[N] BY <1>1 DEF FlattenSeq
<1> HIDE DEF f
<1>6. \A i \in 1..N : f[i] = IF i = 1 THEN seqs[i] ELSE f[i - 1] \o seqs[i] BY <1>4, Zenon
<1>7. \A i \in 1..(N - 1) : f[i + 1] = f[i] \o seqs[i + 1]
  <2>1. ASSUME NEW i \in 1..(N - 1) PROVE f[i + 1] = f[i] \o seqs[i + 1]
    <3>1. PICK p : p = i + 1 OBVIOUS
    <3>2. p \in 1..N /\ p # 1 /\ p - 1 = i BY <1>1, <3>1
    <3> HIDE DEF N
    <3>3. f[p] = f[p - 1] \o seqs[p] BY <1>6, <3>2, Zenon
    <3>4. f[p] = f[i] \o seqs[p] BY <3>2, <3>3, Zenon
    <3> QED BY <3>1, <3>4, Zenon
  <2> QED BY <2>1
<1>8. f[1] = seqs[1] BY <1>1, <1>6
<1>9. \A i \in 1..N : seqs[i] \in Seq(S) BY ElementOfSeq
<1>10. 1..N \subseteq {i \in 1..N : f[i] \in Seq(S)}
  <2> DEFINE T == {i \in 1..N : f[i] \in Seq(S)}
  <2>1. 1 \in T BY <1>1, <1>8, <1>9
  <2>2. ASSUME NEW i \in 1..(N - 1), i \in T PROVE i + 1 \in T
    <3>1. f[i] \in Seq(S) /\ seqs[i + 1] \in Seq(S) /\ i + 1 \in 1..N BY <1>1, <1>9, <2>2
    <3>2. f[i] \o seqs[i + 1] \in Seq(S) BY <3>1, ConcatFacts
    <3> QED BY <1>7, <3>1, <3>2
  <2> HIDE DEF T, N
  <2>3. 1..N \subseteq T BY <1>1, <2>1, <2>2, UpTo
  <2> QED BY <2>3 DEF T
<1>11. \A i \in 1..N : f[i] \in Seq(S) BY <1>10
<1> QED BY <1>5, <1>7, <1>8, <1>11

(* FlattenSeq of sequences over S is a sequence over S. *)
LEMMA FlattenType ==
  ASSUME NEW S, NEW seqs \in Seq(Seq(S)) PROVE FlattenSeq(seqs) \in Seq(S)
PROOF
<1>1. Len(seqs) \in Nat BY LenProperties
<1>2. CASE Len(seqs) = 0
  <2>1. seqs = <<>> BY <1>2, EmptySeq
  <2>2. FlattenSeq(seqs) = <<>> BY <1>2, <2>1 DEF FlattenSeq
  <2> QED BY <2>2
<1>3. CASE Len(seqs) > 0
  <2>1. PICK f : /\ \A i \in 1..Len(seqs) : f[i] \in Seq(S)
                 /\ FlattenSeq(seqs) = f[Len(seqs)]
    BY <1>3, FlattenRecursion
  <2>2. Len(seqs) \in 1..Len(seqs) BY <1>1, <1>3
  <2> QED BY <2>1, <2>2
<1> QED BY <1>1, <1>2, <1>3

(* Flattening x sequences of one number each, which count on from n, and then *)
(* empty ones, yields x numbers that count on from n.                         *)
LEMMA FlattenCount ==
  ASSUME NEW n \in Nat, NEW seqs \in Seq(Seq(Nat)), NEW x \in 0..Len(seqs), Len(seqs) > 0,
         \A i \in 1..Len(seqs) : seqs[i] = IF i <= x THEN <<n + i>> ELSE <<>>
  PROVE  /\ FlattenSeq(seqs) \in Seq(Nat) /\ Len(FlattenSeq(seqs)) = x
         /\ \A j \in 1..x : FlattenSeq(seqs)[j] = n + j
PROOF
<1>1. PICK f : /\ \A i \in 1..Len(seqs) : f[i] \in Seq(Nat)
               /\ f[1] = seqs[1]
               /\ \A i \in 1..(Len(seqs) - 1) : f[i + 1] = f[i] \o seqs[i + 1]
               /\ FlattenSeq(seqs) = f[Len(seqs)]
  BY FlattenRecursion
<1> DEFINE N == Len(seqs)
           Count(i) == /\ Len(f[i]) = IF i <= x THEN i ELSE x
                       /\ \A j \in 1..Len(f[i]) : f[i][j] = n + j
           T == {i \in 1..N : Count(i)}
<1>2. N \in Nat /\ N > 0 /\ x \in Nat /\ x <= N BY LenProperties
<1>3. 1 \in T
  <2>0. 1 \in 1..N /\ seqs[1] = IF 1 <= x THEN <<n + 1>> ELSE <<>> BY <1>2
  <2>1. CASE x = 0
    <3>1. f[1] = <<>> BY <1>1, <2>0, <2>1
    <3>2. Len(f[1]) = 0 BY <3>1
    <3>3. Count(1) BY <3>2, <2>1
    <3> QED BY <2>0, <3>3
  <2>2. CASE x > 0
    <3>0. 1 <= x BY <1>2, <2>2
    <3>1. f[1] = <<n + 1>> BY <1>1, <2>0, <3>0
    <3>2. Len(f[1]) = 1 /\ f[1][1] = n + 1 BY <3>1
    <3>3. Count(1) BY <3>2, <3>0
    <3> QED BY <2>0, <3>3
  <2> QED BY <1>2, <2>1, <2>2
<1>4. ASSUME NEW i \in 1..(N - 1), i \in T PROVE i + 1 \in T
  <2>1. i + 1 \in 1..N /\ i \in 1..N /\ i \in Nat BY <1>2
  <2>2. Count(i) BY <1>4
  <2>3. f[i + 1] = f[i] \o seqs[i + 1] BY <1>1
  <2>4. f[i] \in Seq(Nat) BY <1>1, <2>1
  <2>5. CASE i + 1 <= x
    <3>1. seqs[i + 1] = <<n + (i + 1)>> BY <2>1, <2>5
    <3>2. <<n + (i + 1)>> \in Seq(Nat) /\ Len(<<n + (i + 1)>>) = 1 /\ <<n + (i + 1)>>[1] = n + (i + 1)
      BY <2>1
    <3> DEFINE one == <<n + (i + 1)>>
    <3> HIDE DEF one
    <3>3. one \in Seq(Nat) /\ Len(one) = 1 /\ one[1] = n + (i + 1) /\ f[i + 1] = f[i] \o one
      BY <2>3, <3>1, <3>2 DEF one
    <3>4. /\ Len(f[i] \o one) = Len(f[i]) + Len(one)
          /\ \A j \in 1..Len(f[i]) : (f[i] \o one)[j] = f[i][j]
          /\ \A j \in 1..Len(one) : (f[i] \o one)[Len(f[i]) + j] = one[j]
      <4> DEFINE u == f[i]
      <4>1. u \in Seq(Nat) /\ one \in Seq(Nat) BY <2>4, <3>3
      <4> HIDE DEF u
      <4>2. /\ Len(u \o one) = Len(u) + Len(one)
            /\ \A j \in 1..Len(u) : (u \o one)[j] = u[j]
            /\ \A j \in 1..Len(one) : (u \o one)[Len(u) + j] = one[j]
        BY <4>1, ConcatFacts
      <4> QED BY <4>2 DEF u
    <3>5. Len(f[i]) = i BY <2>1, <2>2, <2>5, <1>2
    <3>6. Len(f[i + 1]) = i + 1 BY <3>3, <3>4, <3>5
    <3>7. f[i + 1][i + 1] = n + (i + 1)
      <4>1. (f[i] \o one)[Len(f[i]) + 1] = one[1] BY <3>3, <3>4
      <4> QED BY <4>1, <3>3, <3>5
    <3>8. \A j \in 1..i : f[i + 1][j] = n + j BY <2>2, <3>3, <3>4, <3>5
    <3>9. \A j \in 1..(i + 1) : f[i + 1][j] = n + j
      <4>1. \A j \in 1..(i + 1) : j \in 1..i \/ j = i + 1 BY <2>1
      <4> QED BY <3>7, <3>8, <4>1
    <3>10. Count(i + 1) BY <2>5, <3>6, <3>9
    <3> QED BY <2>1, <3>10
  <2>6. CASE ~(i + 1 <= x)
    <3>1. seqs[i + 1] = <<>> BY <2>1, <2>6
    <3>2. f[i + 1] = f[i] BY <2>3, <2>4, <3>1, ConcatEmptySeq
    <3>3. Len(f[i]) = x BY <1>2, <2>1, <2>2, <2>6
    <3>4. Count(i + 1) BY <2>2, <2>6, <3>2, <3>3
    <3> QED BY <2>1, <3>4
  <2> QED BY <2>5, <2>6
<1>5. 1..N \subseteq T
  <2> HIDE DEF T, N
  <2> QED BY <1>2, <1>3, <1>4, UpTo
<1>6. N \in 1..N BY <1>2
<1>7. Count(N) BY <1>5, <1>6
<1>8. Len(f[N]) = x BY <1>2, <1>7
<1> QED BY <1>1, <1>6, <1>7, <1>8

-----------------------------------------------------------------------------
(* Blocks.  A block is typed by the sets its queues draw from: t.queued for  *)
(* snd_queue, t.kept for snd_buf, t.early for rcv_buf, t.ready for           *)
(* rcv_queue, t.acks for acklist and t.out for buf.  What the lemmas below   *)
(* keep is used with the plain sets of segments for TypeOK, and again with   *)
(* the segments that are numbered as they should be.                         *)

Datum(U) == {<<>>} \union {<<u>> : u \in U}
Seg(U) == [cmd : Cmd, frg : 0..(WndRcv - 1), wnd : 0..RcvWnd, sn : Number, una : Number,
           data : Datum(U)]
Kept(U) == [frg : 0..(WndRcv - 1), sn : Number, data : Datum(U), xmit : Nat]

Blk(t) ==
  [close_state : CloseState, dead : BOOLEAN, snd_una : Number, snd_nxt : Number,
   rcv_nxt : Number, rmt_wnd : 0..RcvWnd, probe : SUBSET {"ask", "tell"}, probe_wait : BOOLEAN,
   snd_queue : Seq(t.queued), snd_buf : Seq(t.kept), rcv_buf : Seq(t.early),
   rcv_queue : Seq(t.ready), acklist : Seq(t.acks), buf : Seq(t.out)]

(* move_buf takes the first n segments of rcv_buf, all in their place. *)
LEMMA MoveBufEffect ==
  ASSUME NEW t, NEW k \in Blk(t), t.early \subseteq t.ready
  PROVE  \E n \in 0..Len(k.rcv_buf) :
           /\ \A i \in 1..n : /\ k.rcv_buf[i].sn = (k.rcv_nxt + i - 1) % SnMod
                              /\ Len(k.rcv_queue) + i - 1 < RcvWnd
           /\ MoveBuf(k) = [k EXCEPT !.rcv_nxt = (k.rcv_nxt + n) % SnMod,
                                     !.rcv_queue = k.rcv_queue \o SubSeq(k.rcv_buf, 1, n),
                                     !.rcv_buf = SubSeq(k.rcv_buf, n + 1, Len(k.rcv_buf))]
           /\ MoveBuf(k) \in Blk(t)
PROOF
<1> DEFINE Moves(n) == \A i \in 1..n : /\ k.rcv_buf[i].sn = (k.rcv_nxt + i - 1) % SnMod
                                       /\ Len(k.rcv_queue) + i - 1 < RcvWnd
           S == {i \in 0..Len(k.rcv_buf) : Moves(i)}
           n == Max(S)
           q == k.rcv_queue \o SubSeq(k.rcv_buf, 1, n)
           b == SubSeq(k.rcv_buf, n + 1, Len(k.rcv_buf))
           x == (k.rcv_nxt + n) % SnMod
<1>1. /\ k.rcv_buf \in Seq(t.early) /\ k.rcv_queue \in Seq(t.ready) /\ k.rcv_nxt \in Number
  BY DEF Blk
<1>2. Len(k.rcv_buf) \in Nat BY <1>1, LenProperties
<1>3. n \in S
  <2>1. 0 \in S BY <1>2
  <2>2. S \subseteq 0..Len(k.rcv_buf) /\ S # {} BY <2>1
  <2> HIDE DEF S
  <2> QED BY <1>2, <2>2, MaxOf
<1>4. MoveBuf(k) = [k EXCEPT !.rcv_nxt = x, !.rcv_queue = q, !.rcv_buf = b]
  BY DEF MoveBuf
<1>5. n \in 0..Len(k.rcv_buf) /\ Moves(n) BY <1>3
<1> HIDE DEF S, n
<1>6. x \in Number BY <1>1, <1>2, <1>5, ModRange DEF Number
<1>7. q \in Seq(t.ready)
  <2> DEFINE m == SubSeq(k.rcv_buf, 1, n)
  <2>1. k.rcv_buf \in Seq(t.early) /\ n \in 0..Len(k.rcv_buf) BY <1>1, <1>5
  <2>2. m \in Seq(t.early) BY <2>1, PrefixFacts
  <2> HIDE DEF m
  <2>3. m \in Seq(t.ready) BY <2>2, SeqMonotonic
  <2> QED BY <1>1, <2>3, ConcatFacts DEF m
<1>8. b \in Seq(t.early)
  <2>1. k.rcv_buf \in Seq(t.early) /\ n \in 0..Len(k.rcv_buf) BY <1>1, <1>5
  <2> QED BY <2>1, SuffixFacts
<1> HIDE DEF x, q, b
<1>9. [k EXCEPT !.rcv_nxt = x, !.rcv_queue = q, !.rcv_buf = b] \in Blk(t)
  BY <1>6, <1>7, <1>8 DEF Blk
<1>10. MoveBuf(k) \in Blk(t) BY <1>4, <1>9
<1> QED BY <1>4, <1>5, <1>10 DEF x, q, b

(* parse_una drops the first n segments of snd_buf, all below una. *)
LEMMA ParseUnaEffect ==
  ASSUME NEW t, NEW k \in Blk(t), NEW una
  PROVE  \E n \in 0..Len(k.snd_buf) :
           /\ \A i \in 1..n : TimeDiff(una, k.snd_buf[i].sn) > 0
           /\ ParseUna(k, una) = [k EXCEPT !.snd_buf = SubSeq(k.snd_buf, n + 1, Len(k.snd_buf))]
           /\ ParseUna(k, una) \in Blk(t)
PROOF
<1> DEFINE Acked(n) == \A i \in 1..n : TimeDiff(una, k.snd_buf[i].sn) > 0
           S == {i \in 0..Len(k.snd_buf) : Acked(i)}
           n == Max(S)
           b == SubSeq(k.snd_buf, n + 1, Len(k.snd_buf))
<1>1. k.snd_buf \in Seq(t.kept) BY DEF Blk
<1>2. Len(k.snd_buf) \in Nat BY <1>1, LenProperties
<1>3. n \in S
  <2>1. 0 \in S BY <1>2
  <2>2. S \subseteq 0..Len(k.snd_buf) /\ S # {} BY <2>1
  <2> HIDE DEF S
  <2> QED BY <1>2, <2>2, MaxOf
<1>4. ParseUna(k, una) = [k EXCEPT !.snd_buf = b] BY DEF ParseUna
<1>5. n \in 0..Len(k.snd_buf) /\ Acked(n) BY <1>3
<1> HIDE DEF S, n
<1>6. b \in Seq(t.kept)
  <2>1. k.snd_buf \in Seq(t.kept) /\ n \in 0..Len(k.snd_buf) BY <1>1, <1>5
  <2> QED BY <2>1, SuffixFacts
<1> HIDE DEF b
<1>7. [k EXCEPT !.snd_buf = b] \in Blk(t) BY <1>6 DEF Blk
<1>8. ParseUna(k, una) \in Blk(t) BY <1>4, <1>7
<1> QED BY <1>4, <1>5, <1>8 DEF b

(* parse_ack changes nothing, or removes a segment with that number. *)
LEMMA ParseAckEffect ==
  ASSUME NEW t, NEW k \in Blk(t), NEW sn
  PROVE  /\ ParseAck(k, sn) \in Blk(t)
         /\ \/ ParseAck(k, sn) = k
            \/ \E i \in 1..Len(k.snd_buf) :
                 /\ k.snd_buf[i].sn = sn
                 /\ ParseAck(k, sn) = [k EXCEPT !.snd_buf = RemoveAt(k.snd_buf, i)]
PROOF
<1> DEFINE found == {i \in DOMAIN k.snd_buf : /\ k.snd_buf[i].sn = sn
                                              /\ \A j \in 1..(i - 1) : k.snd_buf[j].sn < sn}
           known == TimeDiff(sn, k.snd_una) >= 0 /\ TimeDiff(sn, k.snd_nxt) < 0
           c == CHOOSE i \in found : TRUE
           b == RemoveAt(k.snd_buf, c)
<1>1. k.snd_buf \in Seq(t.kept) /\ DOMAIN k.snd_buf = 1..Len(k.snd_buf)
  BY LenProperties DEF Blk
<1>2. ParseAck(k, sn) = IF known /\ found # {} THEN [k EXCEPT !.snd_buf = b] ELSE k
  BY DEF ParseAck
<1>3. CASE ~(known /\ found # {})
  <2> HIDE DEF known, found, c
  <2>1. ParseAck(k, sn) = k BY <1>2, <1>3, Zenon
  <2> QED BY <2>1
<1>4. CASE known /\ found # {}
  <2>1. c \in found
    <3>1. \E i \in found : TRUE BY <1>4
    <3> HIDE DEF found
    <3> QED BY <3>1, Zenon
  <2>2. c \in 1..Len(k.snd_buf) /\ k.snd_buf[c].sn = sn BY <1>1, <2>1
  <2> HIDE DEF known, found, c
  <2>3. b \in Seq(t.kept) BY <1>1, <2>2, RemoveFacts
  <2> HIDE DEF b
  <2>4. ParseAck(k, sn) = [k EXCEPT !.snd_buf = b] BY <1>2, <1>4, Zenon
  <2>5. [k EXCEPT !.snd_buf = b] \in Blk(t) BY <2>3 DEF Blk
  <2>6. ParseAck(k, sn) \in Blk(t) BY <2>4, <2>5
  <2> QED BY <2>2, <2>4, <2>6 DEF b
<1> QED BY <1>3, <1>4

(* shrink_buf: snd_una is the number at the front of snd_buf, or snd_nxt. *)
LEMMA ShrinkBufEffect ==
  ASSUME NEW t, NEW k \in Blk(t), \A s \in t.kept : s.sn \in Number
  PROVE  /\ ShrinkBuf(k) \in Blk(t)
         /\ \E x \in Number : /\ ShrinkBuf(k) = [k EXCEPT !.snd_una = x]
                              /\ x = IF k.snd_buf = <<>> THEN k.snd_nxt ELSE k.snd_buf[1].sn
PROOF
<1> DEFINE x == IF k.snd_buf = <<>> THEN k.snd_nxt ELSE Head(k.snd_buf).sn
<1>1. k.snd_buf \in Seq(t.kept) /\ k.snd_nxt \in Number BY DEF Blk
<1>2. k.snd_buf # <<>> => Head(k.snd_buf) = k.snd_buf[1] /\ k.snd_buf[1] \in t.kept
  <2> HAVE k.snd_buf # <<>>
  <2>1. Len(k.snd_buf) \in Nat /\ Len(k.snd_buf) # 0 BY <1>1, EmptySeq
  <2> QED BY <1>1, <2>1, ElementOfSeq
<1>3. x \in Number BY <1>1, <1>2
<1>4. ShrinkBuf(k) = [k EXCEPT !.snd_una = x] BY DEF ShrinkBuf
<1>5. x = IF k.snd_buf = <<>> THEN k.snd_nxt ELSE k.snd_buf[1].sn BY <1>2
<1> HIDE DEF x
<1>6. [k EXCEPT !.snd_una = x] \in Blk(t) BY <1>3 DEF Blk
<1> QED BY <1>3, <1>4, <1>5, <1>6

(* TimeDiff of two numbers is a number. *)
LEMMA TimeDiffType == ASSUME NEW a \in Int, NEW b \in Int PROVE TimeDiff(a, b) \in Int
PROOF
<1>1. (a - b) % SnMod \in Int BY ModRange, ConstantFacts DEF Number
<1> QED BY <1>1, ConstantFacts DEF TimeDiff

(* parse_data: the segment is there already, or it is put in some place; then *)
(* move_buf runs.                                                             *)
LEMMA ParseDataEffect ==
  ASSUME NEW t, NEW k \in Blk(t), NEW seg \in t.early
  PROVE  \E k1 \in Blk(t) :
           /\ ParseData(k, seg) = MoveBuf(k1)
           /\ \/ k1 = k /\ \E i \in 1..Len(k.rcv_buf) : k.rcv_buf[i].sn = seg.sn
              \/ \E i \in 1..(Len(k.rcv_buf) + 1) :
                   k1 = [k EXCEPT !.rcv_buf = InsertAt(k.rcv_buf, i, seg)]
PROOF
<1> DEFINE repeat == \E i \in DOMAIN k.rcv_buf : k.rcv_buf[i].sn = seg.sn
           before == {i \in DOMAIN k.rcv_buf : TimeDiff(seg.sn, k.rcv_buf[i].sn) > 0}
           p == Cardinality(before) + 1
           b == InsertAt(k.rcv_buf, p, seg)
           k2 == [k EXCEPT !.rcv_buf = b]
<1>1. /\ k.rcv_buf \in Seq(t.early) /\ Len(k.rcv_buf) \in Nat
      /\ DOMAIN k.rcv_buf = 1..Len(k.rcv_buf)
  BY LenProperties DEF Blk
<1>2. ParseData(k, seg) = MoveBuf(IF repeat THEN k ELSE k2) BY DEF ParseData
<1>3. CASE repeat
  <2>1. \E i \in 1..Len(k.rcv_buf) : k.rcv_buf[i].sn = seg.sn BY <1>1, <1>3
  <2> HIDE DEF repeat, k2
  <2>2. ParseData(k, seg) = MoveBuf(k) BY <1>2, <1>3
  <2> QED BY <2>1, <2>2
<1>4. CASE ~repeat
  <2>1. p \in 1..(Len(k.rcv_buf) + 1)
    <3>1. IsFiniteSet(1..Len(k.rcv_buf)) /\ Cardinality(1..Len(k.rcv_buf)) = Len(k.rcv_buf)
      BY <1>1, FS_Interval
    <3>2. before \in SUBSET (1..Len(k.rcv_buf)) BY <1>1
    <3> HIDE DEF before
    <3>3. /\ IsFiniteSet(before) /\ Cardinality(before) <= Cardinality(1..Len(k.rcv_buf))
      BY <3>1, <3>2, FS_Subset
    <3>4. Cardinality(before) \in Nat BY <3>3, FS_CardinalityType
    <3> QED BY <1>1, <3>1, <3>3, <3>4
  <2> HIDE DEF p
  <2>2. b \in Seq(t.early) BY <1>1, <2>1, InsertFacts
  <2>3. ParseData(k, seg) = MoveBuf(k2)
    <3> HIDE DEF repeat, k2
    <3> QED BY <1>2, <1>4
  <2>4. k2 \in Blk(t)
    <3> HIDE DEF b
    <3> QED BY <2>2 DEF Blk
  <2> HIDE DEF k2
  <2>5. \E i \in 1..(Len(k.rcv_buf) + 1) :
          k2 = [k EXCEPT !.rcv_buf = InsertAt(k.rcv_buf, i, seg)]
    BY <2>1 DEF k2
  <2> QED BY <2>3, <2>4, <2>5
<1> QED BY <1>3, <1>4

(* What FillWindow makes of the i-th segment of snd_queue. *)
Sending(k, i) == [frg |-> k.snd_queue[i].frg, sn |-> (k.snd_nxt + i - 1) % SnMod,
                  data |-> k.snd_queue[i].data, xmit |-> 0]

(* The segments that FillWindow makes are a sequence. *)
LEMMA SendingFacts ==
  ASSUME NEW k, NEW n \in Nat, NEW S, \A i \in 1..n : Sending(k, i) \in S
  PROVE  [i \in 1..n |-> Sending(k, i)] \in Seq(S)
PROOF OBVIOUS

\* How many it takes.
Fitting(k) ==
  Max({0, Min({Min({SndWnd, k.rmt_wnd}) - TimeDiff(k.snd_nxt, k.snd_una), Len(k.snd_queue)})})

(* The first loop of flush moves as many segments as fit from snd_queue to *)
(* snd_buf and numbers them on from snd_nxt.                               *)
LEMMA FillWindowEffect ==
  ASSUME NEW t, NEW k \in Blk(t), NEW n, n = Fitting(k)
  PROVE    /\ n \in 0..Len(k.snd_queue)
           /\ n = 0 \/ n <= SndWnd - TimeDiff(k.snd_nxt, k.snd_una)
           /\ FillWindow(k) =
                [k EXCEPT !.snd_buf = k.snd_buf \o [i \in 1..n |-> Sending(k, i)],
                          !.snd_queue = SubSeq(k.snd_queue, n + 1, Len(k.snd_queue)),
                          !.snd_nxt = (k.snd_nxt + n) % SnMod]
           /\ (\A i \in 1..n : Sending(k, i) \in t.kept) => FillWindow(k) \in Blk(t)
PROOF
<1> DEFINE room == Min({SndWnd, k.rmt_wnd}) - TimeDiff(k.snd_nxt, k.snd_una)
           new == [i \in 1..n |-> Sending(k, i)]
           b == k.snd_buf \o new
           q == SubSeq(k.snd_queue, n + 1, Len(k.snd_queue))
           x == (k.snd_nxt + n) % SnMod
<1>1. /\ k.snd_queue \in Seq(t.queued) /\ k.snd_buf \in Seq(t.kept)
      /\ k.snd_nxt \in Int /\ k.snd_una \in Int /\ k.rmt_wnd \in Int
  BY ConstantFacts DEF Blk, Number
<1>2. Len(k.snd_queue) \in Nat BY <1>1, LenProperties
<1>3. /\ Min({SndWnd, k.rmt_wnd}) \in Int /\ Min({SndWnd, k.rmt_wnd}) <= SndWnd
  BY <1>1, ConstantFacts, MinOfTwo
<1>4. TimeDiff(k.snd_nxt, k.snd_una) \in Int BY <1>1, TimeDiffType
<1>5. room \in Int /\ room <= SndWnd - TimeDiff(k.snd_nxt, k.snd_una) BY <1>3, <1>4, ConstantFacts
<1>6. n \in 0..Len(k.snd_queue) /\ (n = 0 \/ n <= room)
  <2> DEFINE m == Min({room, Len(k.snd_queue)})
  <2>3. n = Max({0, m}) BY DEF Fitting
  <2> HIDE DEF room
  <2>1. Min({room, Len(k.snd_queue)}) = IF room <= Len(k.snd_queue) THEN room ELSE Len(k.snd_queue)
    BY <1>2, <1>5, MinOfTwo
  <2>2. m \in Int /\ m <= room /\ m <= Len(k.snd_queue) BY <1>2, <1>5, <2>1
  <2> HIDE DEF m
  <2>4. Max({0, m}) = IF 0 >= m THEN 0 ELSE m BY <2>2, MaxOfTwo
  <2> QED BY <1>2, <1>5, <2>2, <2>3, <2>4
<1>7. FillWindow(k) = [k EXCEPT !.snd_buf = b, !.snd_queue = q, !.snd_nxt = x]
  BY DEF FillWindow, Fitting, Sending
<1> HIDE DEF room
<1>8. n = 0 \/ n <= SndWnd - TimeDiff(k.snd_nxt, k.snd_una) BY <1>4, <1>5, <1>6, ConstantFacts
<1>9. q \in Seq(t.queued)
  <2>1. k.snd_queue \in Seq(t.queued) /\ n \in 0..Len(k.snd_queue) BY <1>1, <1>6
  <2> QED BY <2>1, SuffixFacts
<1>10. x \in Number BY <1>1, <1>2, <1>6, ModRange
<1>11. ASSUME \A i \in 1..n : Sending(k, i) \in t.kept PROVE FillWindow(k) \in Blk(t)
  <2>1. n \in Nat BY <1>2, <1>6
  <2>2. new \in Seq(t.kept) BY <1>11, <2>1, IsASeq
  <2> HIDE DEF new
  <2>3. b \in Seq(t.kept) BY <1>1, <2>2, ConcatFacts
  <2> HIDE DEF b, q, x
  <2>4. [k EXCEPT !.snd_buf = b, !.snd_queue = q, !.snd_nxt = x] \in Blk(t)
    BY <1>9, <1>10, <2>3 DEF Blk
  <2> QED BY <1>7, <2>4
<1> HIDE DEF q, x
<1> QED BY <1>6, <1>7, <1>8, <1>11 DEF b, new, q, x

(* What the loop over snd_buf makes of a segment it sends or leaves alone: *)
(* its number and its data stay.                                           *)
LEMMA TransmitEffect ==
  ASSUME NEW t, NEW k \in Blk(t), NEW late, NEW U, t.kept \subseteq Kept(U),
         \A s \in t.kept : [s EXCEPT !.xmit = @ + 1] \in t.kept,
         \A s \in t.kept : OnWire(k, s) \in t.out
  PROVE  \E b \in Seq(t.kept), o \in Seq(t.out), d \in BOOLEAN :
           /\ Transmit(k, late) = [k EXCEPT !.snd_buf = b, !.buf = k.buf \o o, !.dead = d]
           /\ Len(b) = Len(k.snd_buf)
           /\ \A i \in 1..Len(b) : b[i].sn = k.snd_buf[i].sn /\ b[i].data = k.snd_buf[i].data
           /\ Transmit(k, late) \in Blk(t)
PROOF
<1> DEFINE Due(s) == s.xmit = 0 \/ s.sn \in late
           Sent(s) == IF Due(s) THEN [s EXCEPT !.xmit = @ + 1] ELSE s
           b == [i \in DOMAIN k.snd_buf |-> Sent(k.snd_buf[i])]
           ss == [i \in DOMAIN b |-> IF Due(k.snd_buf[i]) THEN <<OnWire(k, b[i])>> ELSE <<>>]
           o == FlattenSeq(ss)
           d == k.dead \/ \E i \in DOMAIN b : Due(k.snd_buf[i]) /\ b[i].xmit >= DeadLink
<1>1. k.snd_buf \in Seq(t.kept) /\ k.buf \in Seq(t.out) BY DEF Blk
<1>2. Len(k.snd_buf) \in Nat /\ DOMAIN k.snd_buf = 1..Len(k.snd_buf) BY <1>1, LenProperties
<1>3. ASSUME NEW s \in t.kept
      PROVE  Sent(s) \in t.kept /\ Sent(s).sn = s.sn /\ Sent(s).data = s.data
  <2>1. s \in Kept(U) BY <1>3
  <2>2. [s EXCEPT !.xmit = @ + 1].sn = s.sn /\ [s EXCEPT !.xmit = @ + 1].data = s.data
    BY <2>1 DEF Kept
  <2>3. [s EXCEPT !.xmit = @ + 1] \in t.kept OBVIOUS
  <2> HIDE DEF Due
  <2>4. Sent(s) = [s EXCEPT !.xmit = @ + 1] \/ Sent(s) = s OBVIOUS
  <2> HIDE DEF Sent
  <2> QED BY <2>2, <2>3, <2>4
<1>4. \A i \in 1..Len(k.snd_buf) : k.snd_buf[i] \in t.kept BY <1>1, ElementOfSeq
<1> HIDE DEF Sent, Due
<1>5. /\ \A i \in 1..Len(k.snd_buf) : b[i] = Sent(k.snd_buf[i])
      /\ b = [i \in 1..Len(k.snd_buf) |-> Sent(k.snd_buf[i])]
  BY <1>2
<1>6. b \in Seq(t.kept) /\ Len(b) = Len(k.snd_buf) /\ DOMAIN b = 1..Len(k.snd_buf)
  <2>1. [i \in 1..Len(k.snd_buf) |-> Sent(k.snd_buf[i])] \in Seq(t.kept)
    BY <1>2, <1>3, <1>4, IsASeq
  <2> QED BY <1>2, <1>5, <2>1
<1>7. \A i \in 1..Len(b) : b[i].sn = k.snd_buf[i].sn /\ b[i].data = k.snd_buf[i].data
  BY <1>3, <1>4, <1>5, <1>6
<1>8. o \in Seq(t.out)
  <2> DEFINE one(i) == IF Due(k.snd_buf[i]) THEN <<OnWire(k, b[i])>> ELSE <<>>
  <2>1. ASSUME NEW i \in 1..Len(k.snd_buf) PROVE one(i) \in Seq(t.out)
    <3>1. b[i] \in t.kept BY <1>3, <1>4, <1>5
    <3>2. <<OnWire(k, b[i])>> \in Seq(t.out) /\ <<>> \in Seq(t.out) BY <3>1, ShortFacts
    <3> HIDE DEF b
    <3> QED BY <3>2, Zenon
  <2> HIDE DEF b
  <2>s. ss = [i \in 1..Len(k.snd_buf) |-> one(i)] BY <1>6
  <2> HIDE DEF one
  <2>2. [i \in 1..Len(k.snd_buf) |-> one(i)] \in Seq(Seq(t.out)) BY <1>2, <2>1, IsASeq
  <2>3. ss \in Seq(Seq(t.out)) BY <2>s, <2>2
  <2> HIDE DEF ss
  <2> QED BY <2>3, FlattenType
<1>9. d \in BOOLEAN
  <2>1. k.dead \in BOOLEAN BY DEF Blk
  <2> HIDE DEF b
  <2> QED BY <2>1, Zenon
<1>10. Transmit(k, late) = [k EXCEPT !.snd_buf = b, !.buf = k.buf \o o, !.dead = d]
  BY DEF Transmit, Due, Sent
<1> HIDE DEF b, o, d
<1>11. k.buf \o o \in Seq(t.out) BY <1>1, <1>8, ConcatFacts
<1>12. [k EXCEPT !.snd_buf = b, !.buf = k.buf \o o, !.dead = d] \in Blk(t)
  BY <1>6, <1>9, <1>11 DEF Blk
<1>13. Transmit(k, late) \in Blk(t) BY <1>10, <1>12
<1> HIDE DEF ss
<1> b \in Seq(t.kept) /\ o \in Seq(t.out) /\ d \in BOOLEAN BY <1>6, <1>8, <1>9
<1> WITNESS b \in Seq(t.kept), o \in Seq(t.out), d \in BOOLEAN
<1> QED BY <1>6, <1>7, <1>10, <1>13

(* flush_ack, probe_wnd_size and flush_probe_commands write answers to buf. *)
LEMMA FlushAckEffect ==
  ASSUME NEW t, NEW k \in Blk(t), \A x \in t.acks : Answer(k, "ACK", x) \in t.out
  PROVE  \E o \in Seq(t.out) :
           /\ FlushAck(k) = [k EXCEPT !.buf = o, !.acklist = <<>>]
           /\ FlushAck(k) \in Blk(t)
PROOF
<1> DEFINE new == [i \in DOMAIN k.acklist |-> Answer(k, "ACK", k.acklist[i])]
           o == k.buf \o new
<1>1. k.acklist \in Seq(t.acks) /\ k.buf \in Seq(t.out) BY DEF Blk
<1>2. Len(k.acklist) \in Nat /\ DOMAIN k.acklist = 1..Len(k.acklist) BY <1>1, LenProperties
<1>3. \A i \in 1..Len(k.acklist) : Answer(k, "ACK", k.acklist[i]) \in t.out
  BY <1>1, ElementOfSeq
<1>4. new \in Seq(t.out)
  <2>1. [i \in 1..Len(k.acklist) |-> Answer(k, "ACK", k.acklist[i])] \in Seq(t.out)
    BY <1>2, <1>3, IsASeq
  <2> QED BY <1>2, <2>1
<1>5. FlushAck(k) = [k EXCEPT !.buf = o, !.acklist = <<>>] BY DEF FlushAck
<1> HIDE DEF new
<1>6. o \in Seq(t.out) BY <1>1, <1>4, ConcatFacts
<1> HIDE DEF o
<1>7. [k EXCEPT !.buf = o, !.acklist = <<>>] \in Blk(t) BY <1>6, EmptySeq DEF Blk
<1> QED BY <1>5, <1>6, <1>7

(* probe_wnd_size changes the probe state alone. *)
LEMMA ProbeWndSizeEffect ==
  ASSUME NEW t, NEW k \in Blk(t)
  PROVE  \E p \in SUBSET {"ask", "tell"}, w \in BOOLEAN :
           /\ ProbeWndSize(k) = [k EXCEPT !.probe = p, !.probe_wait = w]
           /\ ProbeWndSize(k) \in Blk(t)
PROOF
<1>1. k.probe \in SUBSET {"ask", "tell"} /\ k.probe_wait \in BOOLEAN BY DEF Blk
<1>2. ASSUME NEW p \in SUBSET {"ask", "tell"}, NEW w \in BOOLEAN
      PROVE  [k EXCEPT !.probe = p, !.probe_wait = w] \in Blk(t)
  BY <1>2 DEF Blk
<1>3. CASE k.rmt_wnd # 0
  <2>1. ProbeWndSize(k) = [k EXCEPT !.probe_wait = FALSE] BY <1>3 DEF ProbeWndSize
  <2>2. [k EXCEPT !.probe_wait = FALSE] = [k EXCEPT !.probe = k.probe, !.probe_wait = FALSE]
    BY DEF Blk
  <2> QED BY <1>1, <1>2, <2>1, <2>2
<1>4. CASE k.rmt_wnd = 0
  <2> DEFINE p == k.probe \union (IF k.probe_wait THEN {"ask"} ELSE {})
  <2>1. p \in SUBSET {"ask", "tell"} BY <1>1
  <2>2. ProbeWndSize(k) = [k EXCEPT !.probe_wait = TRUE, !.probe = p] BY <1>4 DEF ProbeWndSize
  <2> HIDE DEF p
  <2>3. [k EXCEPT !.probe_wait = TRUE, !.probe = p] = [k EXCEPT !.probe = p, !.probe_wait = TRUE]
    BY DEF Blk
  <2> QED BY <1>2, <2>1, <2>2, <2>3
<1> QED BY <1>3, <1>4

(* flush_probe_commands writes WASK and WINS, and clears the probe state. *)
LEMMA FlushProbeCommandsEffect ==
  ASSUME NEW t, NEW k \in Blk(t), Answer(k, "WASK", 0) \in t.out, Answer(k, "WINS", 0) \in t.out
  PROVE  \E o \in Seq(t.out) :
           /\ FlushProbeCommands(k) = [k EXCEPT !.buf = o, !.probe = {}]
           /\ FlushProbeCommands(k) \in Blk(t)
PROOF
<1> DEFINE ask == IF "ask" \in k.probe THEN <<Answer(k, "WASK", 0)>> ELSE <<>>
           tell == IF "tell" \in k.probe THEN <<Answer(k, "WINS", 0)>> ELSE <<>>
           o == k.buf \o ask \o tell
<1>1. k.buf \in Seq(t.out) BY DEF Blk
<1>2. ask \in Seq(t.out) /\ tell \in Seq(t.out)
  <2>1. /\ <<Answer(k, "WASK", 0)>> \in Seq(t.out) /\ <<Answer(k, "WINS", 0)>> \in Seq(t.out)
        /\ <<>> \in Seq(t.out)
    BY ShortFacts
  <2> QED BY <2>1, Zenon
<1>3. FlushProbeCommands(k) = [k EXCEPT !.buf = o, !.probe = {}] BY DEF FlushProbeCommands
<1> HIDE DEF ask, tell
<1>4. k.buf \o ask \in Seq(t.out) BY <1>1, <1>2, ConcatFacts
<1>5. o \in Seq(t.out) BY <1>2, <1>4, ConcatFacts
<1> HIDE DEF o
<1>6. [k EXCEPT !.buf = o, !.probe = {}] \in Blk(t) BY <1>5 DEF Blk
<1> QED BY <1>3, <1>5, <1>6

-----------------------------------------------------------------------------
(* flush and update.                                                       *)

(* What a block answers depends on its receiving side alone. *)
LEMMA AnswerSame ==
  ASSUME NEW k, NEW k2, k2.rcv_queue = k.rcv_queue, k2.rcv_nxt = k.rcv_nxt
  PROVE  /\ \A cmd, sn : Answer(k2, cmd, sn) = Answer(k, cmd, sn)
         /\ \A s : OnWire(k2, s) = OnWire(k, s)
PROOF BY DEF Answer, OnWire, WndUnused

(* A block whose queues hold what the flush may write. *)
Writable(t, k, U) ==
  /\ t.kept \subseteq Kept(U)
  /\ \A s \in t.kept : [s EXCEPT !.xmit = @ + 1] \in t.kept
  /\ \A s \in t.kept : OnWire(k, s) \in t.out
  /\ \A x \in t.acks : Answer(k, "ACK", x) \in t.out
  /\ Answer(k, "WASK", 0) \in t.out /\ Answer(k, "WINS", 0) \in t.out

(* w is what is left and what is sent when n segments are taken from snd_queue. *)
Flushed(t, k, n, w) ==
  /\ n \in 0..Len(k.snd_queue)
  /\ n = 0 \/ n <= SndWnd - TimeDiff(k.snd_nxt, k.snd_una)
  /\ w.k \in Blk(t) /\ w.out \in Seq(t.out)
  /\ w.k.rcv_nxt = k.rcv_nxt /\ w.k.rcv_buf = k.rcv_buf /\ w.k.rcv_queue = k.rcv_queue
  /\ w.k.snd_una = k.snd_una /\ w.k.close_state = k.close_state
  /\ w.k.snd_nxt = (k.snd_nxt + n) % SnMod
  /\ w.k.snd_queue = SubSeq(k.snd_queue, n + 1, Len(k.snd_queue))
  /\ Len(w.k.snd_buf) = Len(k.snd_buf) + n
  /\ \A i \in 1..Len(k.snd_buf) : /\ w.k.snd_buf[i].sn = k.snd_buf[i].sn
                                  /\ w.k.snd_buf[i].data = k.snd_buf[i].data
  /\ \A i \in 1..n : /\ w.k.snd_buf[Len(k.snd_buf) + i].sn = Sending(k, i).sn
                     /\ w.k.snd_buf[Len(k.snd_buf) + i].data = Sending(k, i).data

(* flush as a whole. *)
LEMMA FlushEffect ==
  ASSUME NEW t, NEW k \in Blk(t), NEW late, NEW U, Writable(t, k, U),
         NEW n, n = Fitting(k), \A i \in 1..n : Sending(k, i) \in t.kept,
         NEW w, w = Flush(k, late)
  PROVE  Flushed(t, k, n, w)
PROOF
<1> DEFINE k1 == FlushAck(k)  k2 == ProbeWndSize(k1)  k3 == FlushProbeCommands(k2)
           k4 == FillWindow(k3)  k5 == Transmit(k4, late)
<1>w. /\ t.kept \subseteq Kept(U)
      /\ \A s \in t.kept : [s EXCEPT !.xmit = @ + 1] \in t.kept
      /\ \A s \in t.kept : OnWire(k, s) \in t.out
      /\ \A x \in t.acks : Answer(k, "ACK", x) \in t.out
      /\ Answer(k, "WASK", 0) \in t.out /\ Answer(k, "WINS", 0) \in t.out
  BY DEF Writable
<1>1. PICK o1 \in Seq(t.out) : k1 = [k EXCEPT !.buf = o1, !.acklist = <<>>] /\ k1 \in Blk(t)
  BY <1>w, FlushAckEffect
<1>2. PICK p2 \in SUBSET {"ask", "tell"}, w2 \in BOOLEAN :
        k2 = [k1 EXCEPT !.probe = p2, !.probe_wait = w2] /\ k2 \in Blk(t)
  <2>1. k1 \in Blk(t) BY <1>1
  <2> HIDE DEF k1
  <2> QED BY <2>1, ProbeWndSizeEffect
<1> HIDE DEF k1, k2
<1>3. /\ k2.rcv_nxt = k.rcv_nxt /\ k2.rcv_buf = k.rcv_buf /\ k2.rcv_queue = k.rcv_queue
      /\ k2.snd_una = k.snd_una /\ k2.snd_nxt = k.snd_nxt /\ k2.snd_queue = k.snd_queue
      /\ k2.snd_buf = k.snd_buf /\ k2.close_state = k.close_state /\ k2.acklist = <<>>
      /\ k2.rmt_wnd = k.rmt_wnd
  <2>1. /\ k1.rcv_nxt = k.rcv_nxt /\ k1.rcv_buf = k.rcv_buf /\ k1.rcv_queue = k.rcv_queue
        /\ k1.snd_una = k.snd_una /\ k1.snd_nxt = k.snd_nxt /\ k1.snd_queue = k.snd_queue
        /\ k1.snd_buf = k.snd_buf /\ k1.close_state = k.close_state /\ k1.acklist = <<>>
        /\ k1.rmt_wnd = k.rmt_wnd
    BY <1>1 DEF Blk
  <2> QED BY <1>1, <1>2, <2>1 DEF Blk
<1>4. PICK o3 \in Seq(t.out) : k3 = [k2 EXCEPT !.buf = o3, !.probe = {}] /\ k3 \in Blk(t)
  <2>1. Answer(k2, "WASK", 0) \in t.out /\ Answer(k2, "WINS", 0) \in t.out
    BY <1>w, <1>3, AnswerSame
  <2> QED BY <1>2, <2>1, FlushProbeCommandsEffect
<1> HIDE DEF k3
<1>5. /\ k3.rcv_nxt = k.rcv_nxt /\ k3.rcv_buf = k.rcv_buf /\ k3.rcv_queue = k.rcv_queue
      /\ k3.snd_una = k.snd_una /\ k3.snd_nxt = k.snd_nxt /\ k3.snd_queue = k.snd_queue
      /\ k3.snd_buf = k.snd_buf /\ k3.close_state = k.close_state /\ k3.acklist = <<>>
      /\ k3.rmt_wnd = k.rmt_wnd
  BY <1>2, <1>3, <1>4 DEF Blk
<1>6. n = Fitting(k3) BY <1>5 DEF Fitting
<1>7. \A i \in 1..n : Sending(k3, i) = Sending(k, i) BY <1>5 DEF Sending
<1> DEFINE new == [i \in 1..n |-> Sending(k, i)]
           b4 == k.snd_buf \o new
           q4 == SubSeq(k.snd_queue, n + 1, Len(k.snd_queue))
           x4 == (k.snd_nxt + n) % SnMod
<1>8. /\ n \in 0..Len(k.snd_queue)
      /\ n = 0 \/ n <= SndWnd - TimeDiff(k.snd_nxt, k.snd_una)
      /\ k4 = [k3 EXCEPT !.snd_buf = b4, !.snd_queue = q4, !.snd_nxt = x4]
      /\ k4 \in Blk(t)
  <2>1. /\ n \in 0..Len(k3.snd_queue)
        /\ n = 0 \/ n <= SndWnd - TimeDiff(k3.snd_nxt, k3.snd_una)
        /\ k4 = [k3 EXCEPT !.snd_buf = k3.snd_buf \o [i \in 1..n |-> Sending(k3, i)],
                           !.snd_queue = SubSeq(k3.snd_queue, n + 1, Len(k3.snd_queue)),
                           !.snd_nxt = (k3.snd_nxt + n) % SnMod]
        /\ (\A i \in 1..n : Sending(k3, i) \in t.kept) => k4 \in Blk(t)
    <3>1. k3 \in Blk(t) /\ n = Fitting(k3) BY <1>4, <1>6
    <3> QED BY <3>1, FillWindowEffect, Zenon
  <2>2. [i \in 1..n |-> Sending(k3, i)] = new BY <1>7
  <2>3. \A i \in 1..n : Sending(k3, i) \in t.kept BY <1>7
  <2> HIDE DEF k4, new
  <2>4. k4 = [k3 EXCEPT !.snd_buf = b4, !.snd_queue = q4, !.snd_nxt = x4]
    BY <1>5, <2>1, <2>2
  <2> QED BY <1>5, <2>1, <2>3, <2>4
<1> HIDE DEF k4, b4, q4, x4
<1>9. /\ k4.rcv_nxt = k.rcv_nxt /\ k4.rcv_buf = k.rcv_buf /\ k4.rcv_queue = k.rcv_queue
      /\ k4.snd_una = k.snd_una /\ k4.snd_nxt = x4 /\ k4.snd_queue = q4
      /\ k4.snd_buf = b4 /\ k4.close_state = k.close_state /\ k4.acklist = <<>>
  BY <1>4, <1>5, <1>8 DEF Blk
<1>10. PICK b \in Seq(t.kept), o \in Seq(t.out), d \in BOOLEAN :
         /\ k5 = [k4 EXCEPT !.snd_buf = b, !.buf = k4.buf \o o, !.dead = d]
         /\ Len(b) = Len(b4)
         /\ \A i \in 1..Len(b) : b[i].sn = b4[i].sn /\ b[i].data = b4[i].data
         /\ k5 \in Blk(t)
  <2>1. \A s \in t.kept : OnWire(k4, s) \in t.out BY <1>w, <1>9, AnswerSame
  <2>2. \E b \in Seq(t.kept), o \in Seq(t.out), d \in BOOLEAN :
         /\ k5 = [k4 EXCEPT !.snd_buf = b, !.buf = k4.buf \o o, !.dead = d]
         /\ Len(b) = Len(k4.snd_buf)
         /\ \A i \in 1..Len(b) : b[i].sn = k4.snd_buf[i].sn /\ b[i].data = k4.snd_buf[i].data
         /\ k5 \in Blk(t)
    <3>1. /\ k4 \in Blk(t) /\ t.kept \subseteq Kept(U)
          /\ \A s \in t.kept : [s EXCEPT !.xmit = @ + 1] \in t.kept
          /\ \A s \in t.kept : OnWire(k4, s) \in t.out
      BY <1>w, <1>8, <2>1
    <3> QED BY <3>1, TransmitEffect, Zenon
  <2> QED BY <1>9, <2>2
<1> HIDE DEF k5
<1>11. /\ k5.rcv_nxt = k.rcv_nxt /\ k5.rcv_buf = k.rcv_buf /\ k5.rcv_queue = k.rcv_queue
       /\ k5.snd_una = k.snd_una /\ k5.snd_nxt = x4 /\ k5.snd_queue = q4
       /\ k5.snd_buf = b /\ k5.close_state = k.close_state /\ k5.acklist = <<>>
  BY <1>8, <1>9, <1>10 DEF Blk
<1>12. w = [k |-> [k5 EXCEPT !.buf = <<>>], out |-> k5.buf]
  BY DEF Flush, k1, k2, k3, k4, k5
<1>13. w.k = [k5 EXCEPT !.buf = <<>>] /\ w.out = k5.buf BY <1>12
<1>14. /\ w.k \in Blk(t) /\ w.out \in Seq(t.out)
       /\ w.k.rcv_nxt = k.rcv_nxt /\ w.k.rcv_buf = k.rcv_buf /\ w.k.rcv_queue = k.rcv_queue
       /\ w.k.snd_una = k.snd_una /\ w.k.close_state = k.close_state
       /\ w.k.acklist = <<>> /\ w.k.buf = <<>>
       /\ w.k.snd_nxt = x4 /\ w.k.snd_queue = q4 /\ w.k.snd_buf = b
  <2>1. [k5 EXCEPT !.buf = <<>>] \in Blk(t) /\ k5.buf \in Seq(t.out)
    <3>1. <<>> \in Seq(t.out) BY EmptySeq
    <3>2. k5 \in Blk(t) BY <1>10
    <3> QED BY <3>1, <3>2 DEF Blk
  <2>2. k5 \in Blk(t) BY <1>10
  <2>3. /\ w.k.rcv_nxt = k5.rcv_nxt /\ w.k.rcv_buf = k5.rcv_buf /\ w.k.rcv_queue = k5.rcv_queue
        /\ w.k.snd_una = k5.snd_una /\ w.k.close_state = k5.close_state
        /\ w.k.acklist = k5.acklist /\ w.k.buf = <<>>
        /\ w.k.snd_nxt = k5.snd_nxt /\ w.k.snd_queue = k5.snd_queue /\ w.k.snd_buf = k5.snd_buf
    BY <1>13, <2>2 DEF Blk
  <2> QED BY <1>11, <1>13, <2>1, <2>3
<1>15. /\ Len(b4) = Len(k.snd_buf) + n
       /\ \A i \in 1..Len(k.snd_buf) : b4[i] = k.snd_buf[i]
       /\ \A i \in 1..n : b4[Len(k.snd_buf) + i] = Sending(k, i)
  <2>1. k.snd_buf \in Seq(t.kept) /\ k.snd_queue \in Seq(t.queued) BY DEF Blk
  <2>2. n \in Nat BY <1>8, <2>1, LenProperties
  <2>3. new \in Seq(t.kept)
    <3>1. \A i \in 1..n : Sending(k, i) \in t.kept OBVIOUS
    <3> QED BY <2>2, <3>1, SendingFacts
  <2>4. Len(new) = n /\ \A i \in 1..n : new[i] = Sending(k, i) BY <2>2
  <2> HIDE DEF new
  <2>5. k.snd_buf \in Seq(t.kept) /\ new \in Seq(t.kept) BY <2>1, <2>3
  <2>6. /\ Len(k.snd_buf \o new) = Len(k.snd_buf) + Len(new)
        /\ \A i \in 1..Len(k.snd_buf) : (k.snd_buf \o new)[i] = k.snd_buf[i]
        /\ \A i \in 1..Len(new) : (k.snd_buf \o new)[Len(k.snd_buf) + i] = new[i]
    BY <2>5, ConcatFacts
  <2>7. b4 = k.snd_buf \o new BY DEF b4
  <2> HIDE DEF b4
  <2> QED BY <2>4, <2>6, <2>7
<1>16. /\ \A i \in 1..Len(k.snd_buf) : b[i].sn = k.snd_buf[i].sn /\ b[i].data = k.snd_buf[i].data
       /\ \A i \in 1..n : /\ b[Len(k.snd_buf) + i].sn = Sending(k, i).sn
                          /\ b[Len(k.snd_buf) + i].data = Sending(k, i).data
  <2>1. k.snd_buf \in Seq(t.kept) /\ k.snd_queue \in Seq(t.queued) BY DEF Blk
  <2>2. n \in Nat /\ Len(k.snd_buf) \in Nat BY <1>8, <2>1, LenProperties
  <2>3. \A i \in 1..Len(k.snd_buf) : i \in 1..Len(b) BY <2>2, <1>10, <1>15
  <2>4. \A i \in 1..n : Len(k.snd_buf) + i \in 1..Len(b) BY <2>2, <1>10, <1>15
  <2> QED BY <1>10, <1>15, <2>3, <2>4
<1>17. Len(b) = Len(k.snd_buf) + n BY <1>10, <1>15
<1> QED BY <1>8, <1>14, <1>16, <1>17 DEF q4, x4, Flushed

(* update up to its flush: what it hands to the two halves of the close. *)
LEMMA MaybeFlushEffect ==
  ASSUME NEW t, NEW k \in Blk(t), NEW flushes \in BOOLEAN, NEW late, NEW U, Writable(t, k, U),
         NEW n, n = IF flushes THEN Fitting(k) ELSE 0, \A i \in 1..n : Sending(k, i) \in t.kept,
         NEW w, w = IF flushes THEN Flush(k, late) ELSE [k |-> k, out |-> <<>>]
  PROVE  Flushed(t, k, n, w)
PROOF
<1>1. CASE flushes = TRUE
  <2>1. n = Fitting(k) /\ w = Flush(k, late) BY <1>1
  <2>2. Writable(t, k, U) /\ \A i \in 1..n : Sending(k, i) \in t.kept OBVIOUS
  <2> QED BY <2>1, <2>2, FlushEffect
<1>2. CASE flushes = FALSE
  <2>1. n = 0 /\ w.k = k /\ w.out = <<>>
    <3>1. n = 0 /\ w = [k |-> k, out |-> <<>>] BY <1>2
    <3> QED BY <3>1
  <2>2. k.snd_queue \in Seq(t.queued) /\ k.snd_buf \in Seq(t.kept) /\ k.snd_nxt \in Number
    BY DEF Blk
  <2>3. Len(k.snd_queue) \in Nat /\ Len(k.snd_buf) \in Nat BY <2>2, LenProperties
  <2>4. k.snd_nxt = (k.snd_nxt + 0) % SnMod
    <3>1. /\ k.snd_nxt \in Int /\ 0 <= k.snd_nxt /\ k.snd_nxt < SnMod
          /\ k.snd_nxt + 0 = k.snd_nxt
      BY <2>2, ConstantFacts DEF Number
    <3>2. k.snd_nxt % SnMod = k.snd_nxt BY <3>1, ModLow
    <3> QED BY <3>1, <3>2
  <2>5. SubSeq(k.snd_queue, 0 + 1, Len(k.snd_queue)) = k.snd_queue
    <3>1. SubSeq(k.snd_queue, 1, Len(k.snd_queue)) = k.snd_queue BY <2>2, SubSeqFull
    <3> QED BY <3>1
  <2>6. <<>> \in Seq(t.out) BY EmptySeq
  <2>7. /\ 0 \in 0..Len(k.snd_queue) /\ Len(k.snd_buf) = Len(k.snd_buf) + 0
        /\ \A i \in 1..0 : FALSE
    BY <2>3
  <2>8. /\ 0 \in 0..Len(k.snd_queue) /\ k \in Blk(t)
        /\ k.snd_nxt = (k.snd_nxt + 0) % SnMod
        /\ k.snd_queue = SubSeq(k.snd_queue, 0 + 1, Len(k.snd_queue))
        /\ Len(k.snd_buf) = Len(k.snd_buf) + 0
        /\ \A i \in 1..0 : /\ k.snd_buf[Len(k.snd_buf) + i].sn = Sending(k, i).sn
                           /\ k.snd_buf[Len(k.snd_buf) + i].data = Sending(k, i).data
    BY <2>4, <2>5, <2>7
  <2> QED BY <2>1, <2>6, <2>8, Zenon DEF Flushed
<1> QED BY <1>1, <1>2

(* Half one of the close: acknowledgements, and CLS when all is acknowledged. *)
CloseSent(t, w, w2) ==
  /\ w2.k \in Blk(t) /\ w2.out \in Seq(t.out)
  /\ w2.k.rcv_nxt = w.k.rcv_nxt /\ w2.k.rcv_buf = w.k.rcv_buf
  /\ w2.k.rcv_queue = w.k.rcv_queue
  /\ w2.k.snd_una = w.k.snd_una /\ w2.k.snd_nxt = w.k.snd_nxt /\ w2.k.snd_buf = w.k.snd_buf
  /\ \/ w2.k.snd_queue = w.k.snd_queue /\ w2.k.close_state = w.k.close_state
     \/ /\ w.k.close_state = "wsnd" /\ w2.k.close_state = "wait"
        /\ w.k.snd_queue = <<>> /\ w2.k.snd_queue = <<Bare("CLS")>>

(* The first half of the close does what CloseSent says. *)
LEMMA CloseSendEffect ==
  ASSUME NEW t, NEW w, w.k \in Blk(t), w.out \in Seq(t.out),
         \A x \in t.acks : Answer(w.k, "ACK", x) \in t.out,
         w.k.close_state # "no" => Bare("CLS") \in t.out /\ Bare("CLS") \in t.queued,
         NEW w2, w2 = CloseSend(w)
  PROVE  CloseSent(t, w, w2)
PROOF
<1> DEFINE k == IF w.k.close_state = "wsnd" THEN FlushAck(w.k) ELSE w.k
           cls == [k EXCEPT !.snd_queue = Append(@, Bare("CLS")), !.close_state = "wait"]
<1>1. /\ k \in Blk(t)
      /\ k.rcv_nxt = w.k.rcv_nxt /\ k.rcv_buf = w.k.rcv_buf /\ k.rcv_queue = w.k.rcv_queue
      /\ k.snd_una = w.k.snd_una /\ k.snd_nxt = w.k.snd_nxt /\ k.snd_buf = w.k.snd_buf
      /\ k.snd_queue = w.k.snd_queue /\ k.close_state = w.k.close_state
  <2>1. CASE w.k.close_state = "wsnd"
    <3>1. k = FlushAck(w.k) BY <2>1
    <3>2. PICK o \in Seq(t.out) :
            k = [w.k EXCEPT !.buf = o, !.acklist = <<>>] /\ k \in Blk(t)
      BY <3>1, FlushAckEffect
    <3> HIDE DEF k
    <3> QED BY <3>2 DEF Blk
  <2>2. CASE w.k.close_state # "wsnd" BY <2>2
  <2> QED BY <2>1, <2>2
<1>2. w2 = IF k.close_state = "wsnd" /\ WaitSnd(k) = 0
           THEN [k |-> cls, out |-> Append(w.out, Bare("CLS"))]
           ELSE [k |-> k, out |-> w.out]
  BY DEF CloseSend
<1> HIDE DEF k
<1>3. CASE k.close_state = "wsnd" /\ WaitSnd(k) = 0
  <2>1. k.snd_queue \in Seq(t.queued) /\ k.snd_buf \in Seq(t.kept) BY <1>1 DEF Blk
  <2>2. k.snd_queue = <<>>
    <3>1. Len(k.snd_queue) \in Nat /\ Len(k.snd_buf) \in Nat BY <2>1, LenProperties
    <3>2. Len(k.snd_buf) + Len(k.snd_queue) = 0 BY <1>3 DEF WaitSnd
    <3> DEFINE a == Len(k.snd_buf)  b == Len(k.snd_queue)
    <3>3. a \in Nat /\ b \in Nat /\ a + b = 0 BY <3>1, <3>2
    <3> HIDE DEF a, b
    <3>4. b = 0 BY <3>3
    <3>5. Len(k.snd_queue) = 0 BY <3>4 DEF b
    <3> QED BY <2>1, <3>5, EmptySeq
  <2>3. Bare("CLS") \in t.out /\ Bare("CLS") \in t.queued BY <1>1, <1>3
  <2>4. <<Bare("CLS")>> \in Seq(t.queued) BY <2>3, ShortFacts
  <2>5. cls = [k EXCEPT !.snd_queue = <<Bare("CLS")>>, !.close_state = "wait"] BY <2>2
  <2>6. w2.k = cls /\ w2.out = Append(w.out, Bare("CLS")) BY <1>2, <1>3
  <2> HIDE DEF cls
  <2>7. "wait" \in CloseState BY DEF CloseState
  <2>8. w2.k \in Blk(t)
    <3>1. k \in Blk(t) BY <1>1
    <3>2. [k EXCEPT !.snd_queue = <<Bare("CLS")>>, !.close_state = "wait"] \in Blk(t)
      BY <3>1, <2>4, <2>7 DEF Blk
    <3> QED BY <2>5, <2>6, <3>2
  <2>9. w2.out \in Seq(t.out)
    <3>1. w.out \in Seq(t.out) /\ Bare("CLS") \in t.out BY <2>3
    <3>2. Append(w.out, Bare("CLS")) \in Seq(t.out) BY <3>1, AppendProperties
    <3> QED BY <2>6, <3>2
  <2>10. /\ w2.k.rcv_nxt = k.rcv_nxt /\ w2.k.rcv_buf = k.rcv_buf /\ w2.k.rcv_queue = k.rcv_queue
         /\ w2.k.snd_una = k.snd_una /\ w2.k.snd_nxt = k.snd_nxt /\ w2.k.snd_buf = k.snd_buf
         /\ w2.k.snd_queue = <<Bare("CLS")>> /\ w2.k.close_state = "wait"
    <3>1. k \in Blk(t) BY <1>1
    <3>2. w2.k = [k EXCEPT !.snd_queue = <<Bare("CLS")>>, !.close_state = "wait"]
      BY <2>5, <2>6
    <3> QED BY <3>1, <3>2 DEF Blk
  <2>11. k.close_state = "wsnd" BY <1>3
  <2> QED BY <1>1, <2>2, <2>8, <2>9, <2>10, <2>11 DEF CloseSent
<1>4. CASE ~(k.close_state = "wsnd" /\ WaitSnd(k) = 0)
  <2>1. w2 = [k |-> k, out |-> w.out] BY <1>2, <1>4, Zenon
  <2> QED BY <1>1, <2>1 DEF CloseSent
<1> QED BY <1>3, <1>4

(* Half two: a CLS of the peer is answered. *)
CloseAnswered(t, w, w2) ==
  /\ w2.k \in Blk(t) /\ w2.out \in Seq(t.out)
  /\ w2.k.rcv_nxt = w.k.rcv_nxt /\ w2.k.rcv_buf = w.k.rcv_buf
  /\ w2.k.rcv_queue = w.k.rcv_queue
  /\ w2.k.snd_una = w.k.snd_una /\ w2.k.snd_nxt = w.k.snd_nxt
  /\ w2.k.snd_buf = w.k.snd_buf /\ w2.k.snd_queue = w.k.snd_queue
  /\ \/ w2.k.close_state = w.k.close_state
     \/ w.k.close_state = "wrcv" /\ w2.k.close_state = "yes"

(* The second half does what CloseAnswered says. *)
LEMMA CloseAnswerEffect ==
  ASSUME NEW t, NEW w, w.k \in Blk(t), w.out \in Seq(t.out),
         w.k.close_state # "no" => Bare("CLS") \in t.out,
         NEW w2, w2 = CloseAnswer(w)
  PROVE  CloseAnswered(t, w, w2)
PROOF
<1>1. CASE w.k.close_state = "wrcv"
  <2> DEFINE yes == [w.k EXCEPT !.close_state = "yes"]
  <2>1. w2 = [k |-> yes, out |-> Append(w.out, Bare("CLS"))] BY <1>1 DEF CloseAnswer
  <2>2. yes \in Blk(t) BY DEF Blk, CloseState
  <2>3. Append(w.out, Bare("CLS")) \in Seq(t.out) BY <1>1, AppendProperties
  <2>4. /\ yes.rcv_nxt = w.k.rcv_nxt /\ yes.rcv_buf = w.k.rcv_buf
        /\ yes.rcv_queue = w.k.rcv_queue
        /\ yes.snd_una = w.k.snd_una /\ yes.snd_nxt = w.k.snd_nxt
        /\ yes.snd_buf = w.k.snd_buf /\ yes.snd_queue = w.k.snd_queue
        /\ yes.close_state = "yes"
    BY DEF Blk
  <2> HIDE DEF yes
  <2> QED BY <1>1, <2>1, <2>2, <2>3, <2>4 DEF CloseAnswered
<1>2. CASE w.k.close_state # "wrcv"
  <2>1. w2 = w BY <1>2 DEF CloseAnswer
  <2> QED BY <2>1 DEF CloseAnswered
<1> QED BY <1>1, <1>2

(* update as a whole. *)
Updated(t, k, n, w) ==
  /\ n \in 0..Len(k.snd_queue)
  /\ n = 0 \/ n <= SndWnd - TimeDiff(k.snd_nxt, k.snd_una)
  /\ w.k \in Blk(t) /\ w.out \in Seq(t.out)
  /\ w.k.rcv_nxt = k.rcv_nxt /\ w.k.rcv_buf = k.rcv_buf /\ w.k.rcv_queue = k.rcv_queue
  /\ w.k.snd_una = k.snd_una
  /\ w.k.snd_nxt = (k.snd_nxt + n) % SnMod
  /\ \/ /\ w.k.snd_queue = SubSeq(k.snd_queue, n + 1, Len(k.snd_queue))
        /\ \/ w.k.close_state = k.close_state
           \/ k.close_state = "wrcv" /\ w.k.close_state = "yes"
     \/ /\ SubSeq(k.snd_queue, n + 1, Len(k.snd_queue)) = <<>>
        /\ w.k.snd_queue = <<Bare("CLS")>>
        /\ k.close_state = "wsnd" /\ w.k.close_state = "wait"
  /\ Len(w.k.snd_buf) = Len(k.snd_buf) + n
  /\ \A i \in 1..Len(k.snd_buf) : /\ w.k.snd_buf[i].sn = k.snd_buf[i].sn
                                  /\ w.k.snd_buf[i].data = k.snd_buf[i].data
  /\ \A i \in 1..n : /\ w.k.snd_buf[Len(k.snd_buf) + i].sn = Sending(k, i).sn
                     /\ w.k.snd_buf[Len(k.snd_buf) + i].data = Sending(k, i).data

(* update does what Updated says. *)
LEMMA UpdateEffect ==
  ASSUME NEW t, NEW k \in Blk(t), NEW flushes \in BOOLEAN, NEW late, NEW U, Writable(t, k, U),
         k.close_state # "no" => Bare("CLS") \in t.out /\ Bare("CLS") \in t.queued,
         NEW n, n = IF flushes THEN Fitting(k) ELSE 0, \A i \in 1..n : Sending(k, i) \in t.kept,
         NEW w, w = Update(k, flushes, late)
  PROVE  Updated(t, k, n, w)
PROOF
<1> DEFINE w0 == IF flushes THEN Flush(k, late) ELSE [k |-> k, out |-> <<>>]
           w1 == CloseSend(w0)
<1>0. w0 = (IF flushes THEN Flush(k, late) ELSE [k |-> k, out |-> <<>>]) OBVIOUS
<1> HIDE DEF w0
<1>1. Flushed(t, k, n, w0)
  <2>1. /\ Writable(t, k, U) /\ n = (IF flushes THEN Fitting(k) ELSE 0)
        /\ \A i \in 1..n : Sending(k, i) \in t.kept
    OBVIOUS
  <2> QED BY <1>0, <2>1, MaybeFlushEffect, Zenon
<1>2. /\ w0.k \in Blk(t) /\ w0.out \in Seq(t.out)
      /\ w0.k.rcv_queue = k.rcv_queue /\ w0.k.rcv_nxt = k.rcv_nxt
      /\ w0.k.close_state = k.close_state
  BY <1>1 DEF Flushed
<1>3. CloseSent(t, w0, w1)
  <2>1. \A x \in t.acks : Answer(w0.k, "ACK", x) \in t.out
    <3>1. w0.k.rcv_queue = k.rcv_queue /\ w0.k.rcv_nxt = k.rcv_nxt BY <1>2
    <3>2. \A cmd, sn : Answer(w0.k, cmd, sn) = Answer(k, cmd, sn) BY <3>1, AnswerSame
    <3>3. \A x \in t.acks : Answer(k, "ACK", x) \in t.out BY DEF Writable
    <3> QED BY <3>2, <3>3
  <2>2. w0.k.close_state # "no" => Bare("CLS") \in t.out /\ Bare("CLS") \in t.queued BY <1>2
  <2> QED BY <1>2, <2>1, <2>2, CloseSendEffect
<1>4. w = CloseAnswer(w1) BY <1>0 DEF Update
<1> HIDE DEF w1
<1>5. CloseAnswered(t, w1, w)
  <2>1. w1.k \in Blk(t) /\ w1.out \in Seq(t.out) BY <1>3 DEF CloseSent
  <2>2. w1.k.close_state # "no" => Bare("CLS") \in t.out BY <1>2, <1>3 DEF CloseSent
  <2> QED BY <1>4, <2>1, <2>2, CloseAnswerEffect
<1>6. /\ w.k.snd_buf = w0.k.snd_buf /\ w.k \in Blk(t) /\ w.out \in Seq(t.out)
      /\ w.k.rcv_nxt = w0.k.rcv_nxt /\ w.k.rcv_buf = w0.k.rcv_buf
      /\ w.k.rcv_queue = w0.k.rcv_queue
      /\ w.k.snd_una = w0.k.snd_una /\ w.k.snd_nxt = w0.k.snd_nxt
  BY <1>3, <1>5 DEF CloseSent, CloseAnswered
<1>7. \/ /\ w.k.snd_queue = w0.k.snd_queue
         /\ \/ w.k.close_state = w0.k.close_state
            \/ w0.k.close_state = "wrcv" /\ w.k.close_state = "yes"
      \/ /\ w0.k.snd_queue = <<>> /\ w.k.snd_queue = <<Bare("CLS")>>
         /\ w0.k.close_state = "wsnd" /\ w.k.close_state = "wait"
  BY <1>3, <1>5 DEF CloseSent, CloseAnswered
<1> QED BY <1>1, <1>6, <1>7 DEF Flushed, Updated

-----------------------------------------------------------------------------
(* What input does to a block.                                              *)

(* b2 is what is left of b: the same segments, some of them taken out. *)
Thinned(b, b2) ==
  \E m \in [1..Len(b2) -> 1..Len(b)] :
    /\ \A i \in 1..Len(b2) : b2[i] = b[m[i]]
    /\ \A i, j \in 1..Len(b2) : i <= j => m[j] - m[i] >= j - i

(* Nothing is taken out of a sequence that stays. *)
LEMMA ThinnedSame ==
  ASSUME NEW S, NEW b \in Seq(S) PROVE Thinned(b, b)
PROOF
<1> DEFINE m == [i \in 1..Len(b) |-> i]
<1>1. Len(b) \in Nat BY LenProperties
<1>2. m \in [1..Len(b) -> 1..Len(b)] OBVIOUS
<1>3. /\ \A i \in 1..Len(b) : b[i] = b[m[i]]
      /\ \A i, j \in 1..Len(b) : i <= j => m[j] - m[i] >= j - i
  BY <1>1
<1> HIDE DEF m
<1> QED BY <1>2, <1>3 DEF Thinned

(* What is taken out twice is taken out once. *)
LEMMA ThinnedTwice ==
  ASSUME NEW S, NEW b \in Seq(S), NEW b1 \in Seq(S), NEW b2 \in Seq(S),
         Thinned(b, b1), Thinned(b1, b2)
  PROVE  Thinned(b, b2)
PROOF
<1>0. Len(b) \in Nat /\ Len(b1) \in Nat /\ Len(b2) \in Nat BY LenProperties
<1>1. PICK m1 \in [1..Len(b1) -> 1..Len(b)] :
        /\ \A i \in 1..Len(b1) : b1[i] = b[m1[i]]
        /\ \A i, j \in 1..Len(b1) : i <= j => m1[j] - m1[i] >= j - i
  BY DEF Thinned
<1>2. PICK m2 \in [1..Len(b2) -> 1..Len(b1)] :
        /\ \A i \in 1..Len(b2) : b2[i] = b1[m2[i]]
        /\ \A i, j \in 1..Len(b2) : i <= j => m2[j] - m2[i] >= j - i
  BY DEF Thinned
<1> DEFINE m == [i \in 1..Len(b2) |-> m1[m2[i]]]
<1>3. m \in [1..Len(b2) -> 1..Len(b)] OBVIOUS
<1>4. \A i \in 1..Len(b2) : m[i] = m1[m2[i]] /\ m2[i] \in 1..Len(b1) OBVIOUS
<1>5. \A i \in 1..Len(b2) : b2[i] = b[m[i]] BY <1>1, <1>2, <1>4
<1>6. ASSUME NEW i \in 1..Len(b2), NEW j \in 1..Len(b2), i <= j
      PROVE  m[j] - m[i] >= j - i
  <2>1. m2[j] - m2[i] >= j - i BY <1>2, <1>6
  <2>2. m2[i] \in 1..Len(b1) /\ m2[j] \in 1..Len(b1) BY <1>4
  <2>3. m2[i] <= m2[j] BY <1>0, <1>6, <2>1, <2>2
  <2>4. m1[m2[j]] - m1[m2[i]] >= m2[j] - m2[i] BY <1>1, <2>2, <2>3
  <2>5. m1[m2[j]] \in 1..Len(b) /\ m1[m2[i]] \in 1..Len(b) BY <2>2
  <2>6. m[j] = m1[m2[j]] /\ m[i] = m1[m2[i]] BY <1>4
  <2> HIDE DEF m
  <2> QED BY <1>0, <2>1, <2>2, <2>4, <2>5, <2>6
<1> HIDE DEF m
<1> QED BY <1>3, <1>5, <1>6 DEF Thinned

(* Everything taken out was acknowledged by p. *)
Acknowledges(p, sn) == TimeDiff(p.una, sn) > 0 \/ (p.cmd = "ACK" /\ sn = p.sn)
OnlyAcked(p, b, b2) ==
  /\ Thinned(b, b2)
  /\ \A i \in 1..Len(b) : Acknowledges(p, b[i].sn) \/ \E j \in 1..Len(b2) : b2[j] = b[i]

(* parse_una: the front is taken out, where una acknowledges all of it. *)
LEMMA ThinnedSuffix ==
  ASSUME NEW S, NEW b \in Seq(S), NEW n \in 0..Len(b), NEW b2, b2 = SubSeq(b, n + 1, Len(b)),
         NEW p, \A i \in 1..n : Acknowledges(p, b[i].sn)
  PROVE  OnlyAcked(p, b, b2)
PROOF
<1>0. Len(b) \in Nat /\ n \in Nat BY LenProperties
<1>1. /\ Len(b2) = Len(b) - n /\ \A i \in 1..(Len(b) - n) : b2[i] = b[n + i]
  BY SuffixFacts
<1> DEFINE m == [i \in 1..Len(b2) |-> n + i]
<1>2. m \in [1..Len(b2) -> 1..Len(b)] BY <1>0, <1>1
<1>3. /\ \A i \in 1..Len(b2) : b2[i] = b[m[i]]
      /\ \A i, j \in 1..Len(b2) : i <= j => m[j] - m[i] >= j - i
  BY <1>0, <1>1, SMTT(20)
<1> HIDE DEF m
<1>4. ASSUME NEW i \in 1..Len(b), i > n PROVE \E j \in 1..Len(b2) : b2[j] = b[i]
  <2>1. i - n \in 1..(Len(b) - n) /\ n + (i - n) = i BY <1>0, <1>4
  <2>2. b2[i - n] = b[n + (i - n)] BY <1>1, <2>1
  <2> QED BY <1>1, <2>1, <2>2
<1>5. \A i \in 1..Len(b) : i \in 1..n \/ i > n BY <1>0
<1>6. Thinned(b, b2) BY <1>2, <1>3 DEF Thinned
<1>7. \A i \in 1..Len(b) : Acknowledges(p, b[i].sn) \/ \E j \in 1..Len(b2) : b2[j] = b[i]
  BY <1>4, <1>5
<1> QED BY <1>6, <1>7 DEF OnlyAcked

(* parse_ack: one segment is taken out, where it is acknowledged. *)
LEMMA ThinnedRemove ==
  ASSUME NEW S, NEW b \in Seq(S), NEW c \in 1..Len(b), NEW b2, b2 = RemoveAt(b, c),
         NEW p, Acknowledges(p, b[c].sn)
  PROVE  OnlyAcked(p, b, b2)
PROOF
<1>0. Len(b) \in Nat /\ c \in Nat BY LenProperties
<1>1. /\ Len(b2) = Len(b) - 1
      /\ \A j \in 1..(Len(b) - 1) : b2[j] = IF j < c THEN b[j] ELSE b[j + 1]
  BY RemoveFacts
<1> DEFINE m == [i \in 1..Len(b2) |-> IF i < c THEN i ELSE i + 1]
<1>2. m \in [1..Len(b2) -> 1..Len(b)] BY <1>0, <1>1
<1>3. \A i \in 1..Len(b2) : b2[i] = b[m[i]] BY <1>0, <1>1
<1>4. \A i, j \in 1..Len(b2) : i <= j => m[j] - m[i] >= j - i BY <1>0, <1>1
<1> HIDE DEF m
<1>5. ASSUME NEW i \in 1..Len(b), i # c PROVE \E j \in 1..Len(b2) : b2[j] = b[i]
  <2>1. CASE i < c
    <3>1. i \in 1..(Len(b) - 1) BY <1>0, <2>1
    <3>2. b2[i] = b[i] BY <1>1, <2>1, <3>1
    <3> QED BY <1>1, <3>1, <3>2
  <2>2. CASE i > c
    <3>1. i - 1 \in 1..(Len(b) - 1) /\ ~(i - 1 < c) /\ (i - 1) + 1 = i BY <1>0, <2>2
    <3>2. b2[i - 1] = b[(i - 1) + 1] BY <1>1, <3>1
    <3> QED BY <1>1, <3>1, <3>2
  <2> QED BY <1>0, <1>5, <2>1, <2>2
<1>6. Thinned(b, b2) BY <1>2, <1>3, <1>4 DEF Thinned
<1>7. \A i \in 1..Len(b) : Acknowledges(p, b[i].sn) \/ \E j \in 1..Len(b2) : b2[j] = b[i]
  BY <1>5
<1> QED BY <1>6, <1>7 DEF OnlyAcked

(* snd_una is the first number that is not acknowledged. *)
Based(k) == k.snd_una = IF k.snd_buf = <<>> THEN k.snd_nxt ELSE k.snd_buf[1].sn

(* k2 and k differ in what the sender knows alone. *)
SameReceiver(k, k2) ==
  /\ k2.rcv_nxt = k.rcv_nxt /\ k2.rcv_buf = k.rcv_buf /\ k2.rcv_queue = k.rcv_queue
  /\ k2.acklist = k.acklist
SameSender(k, k2) ==
  /\ k2.snd_nxt = k.snd_nxt /\ k2.snd_queue = k.snd_queue /\ k2.snd_buf = k.snd_buf
  /\ k2.snd_una = k.snd_una

(* rmt_wnd, parse_una and shrink_buf, which every datagram goes through. *)
LEMMA HeardEffect ==
  ASSUME NEW t, NEW k \in Blk(t), \A s \in t.kept : s.sn \in Number,
         NEW p, p.wnd \in 0..RcvWnd,
         NEW h, h = ShrinkBuf(ParseUna([k EXCEPT !.rmt_wnd = p.wnd], p.una))
  PROVE  /\ h \in Blk(t) /\ SameReceiver(k, h) /\ Based(h) /\ OnlyAcked(p, k.snd_buf, h.snd_buf)
         /\ h.snd_nxt = k.snd_nxt /\ h.snd_queue = k.snd_queue
         /\ h.buf = k.buf /\ h.close_state = k.close_state
PROOF
<1> DEFINE k1 == [k EXCEPT !.rmt_wnd = p.wnd]  k2 == ParseUna(k1, p.una)
<1>1. /\ k1 \in Blk(t) /\ k1.snd_buf = k.snd_buf /\ k1.rcv_nxt = k.rcv_nxt
      /\ k1.rcv_buf = k.rcv_buf /\ k1.rcv_queue = k.rcv_queue /\ k1.acklist = k.acklist
      /\ k1.snd_nxt = k.snd_nxt /\ k1.snd_queue = k.snd_queue
      /\ k1.buf = k.buf /\ k1.close_state = k.close_state
  BY DEF Blk
<1> HIDE DEF k1
<1>2. PICK n \in 0..Len(k1.snd_buf) :
        /\ \A i \in 1..n : TimeDiff(p.una, k1.snd_buf[i].sn) > 0
        /\ k2 = [k1 EXCEPT !.snd_buf = SubSeq(k1.snd_buf, n + 1, Len(k1.snd_buf))]
        /\ k2 \in Blk(t)
  BY <1>1, ParseUnaEffect
<1> HIDE DEF k2
<1> DEFINE b == SubSeq(k.snd_buf, n + 1, Len(k.snd_buf))
<1>3. k2 = [k1 EXCEPT !.snd_buf = b] BY <1>1, <1>2
<1>4. n \in 0..Len(k.snd_buf) /\ \A i \in 1..n : TimeDiff(p.una, k.snd_buf[i].sn) > 0
  BY <1>1, <1>2
<1>5. h = ShrinkBuf(k2) BY DEF k1, k2
<1>6. PICK x \in Number : /\ h = [k2 EXCEPT !.snd_una = x] /\ h \in Blk(t)
                          /\ x = IF k2.snd_buf = <<>> THEN k2.snd_nxt ELSE k2.snd_buf[1].sn
  <2>1. k2 \in Blk(t) /\ \A s \in t.kept : s.sn \in Number BY <1>2
  <2> QED BY <1>5, <2>1, ShrinkBufEffect
<1>7. k.snd_buf \in Seq(t.kept) /\ Len(k.snd_buf) \in Nat BY LenProperties DEF Blk
<1>b. b = SubSeq(k.snd_buf, n + 1, Len(k.snd_buf)) OBVIOUS
<1> HIDE DEF b
<1>8. OnlyAcked(p, k.snd_buf, b)
  <2>1. k.snd_buf \in Seq(t.kept) /\ n \in 0..Len(k.snd_buf) BY <1>4, <1>7
  <2>2. \A i \in 1..n : Acknowledges(p, k.snd_buf[i].sn) BY <1>4 DEF Acknowledges
  <2> QED BY <1>b, <2>1, <2>2, ThinnedSuffix
<1>9. /\ k2.snd_buf = b /\ k2.rcv_nxt = k1.rcv_nxt
      /\ k2.rcv_buf = k1.rcv_buf /\ k2.rcv_queue = k1.rcv_queue /\ k2.acklist = k1.acklist
      /\ k2.snd_nxt = k1.snd_nxt /\ k2.snd_queue = k1.snd_queue
      /\ k2.buf = k1.buf /\ k2.close_state = k1.close_state
  BY <1>1, <1>3 DEF Blk
<1>10. /\ h.snd_buf = k2.snd_buf /\ h.rcv_nxt = k2.rcv_nxt
       /\ h.rcv_buf = k2.rcv_buf /\ h.rcv_queue = k2.rcv_queue /\ h.acklist = k2.acklist
       /\ h.snd_nxt = k2.snd_nxt /\ h.snd_queue = k2.snd_queue
       /\ h.buf = k2.buf /\ h.close_state = k2.close_state /\ h.snd_una = x
  <2>1. k2 \in Blk(t) /\ h = [k2 EXCEPT !.snd_una = x] BY <1>2, <1>6
  <2> QED BY <2>1 DEF Blk
<1>13. Based(h) BY <1>6, <1>10 DEF Based
<1>14. SameReceiver(k, h) BY <1>1, <1>9, <1>10 DEF SameReceiver
<1> QED BY <1>1, <1>6, <1>8, <1>9, <1>10, <1>13, <1>14

(* input of an acknowledgement. *)
LEMMA InputAckEffect ==
  ASSUME NEW t, NEW k \in Blk(t), \A s \in t.kept : s.sn \in Number,
         NEW p, p.cmd = "ACK", NEW h, h = ShrinkBuf(ParseAck(k, p.sn)), Based(k)
  PROVE  /\ h \in Blk(t) /\ SameReceiver(k, h) /\ Based(h) /\ OnlyAcked(p, k.snd_buf, h.snd_buf)
         /\ h.snd_nxt = k.snd_nxt /\ h.snd_queue = k.snd_queue
         /\ h.buf = k.buf /\ h.close_state = k.close_state
PROOF
<1> DEFINE k2 == ParseAck(k, p.sn)
<1>1. /\ k2 \in Blk(t)
      /\ \/ k2 = k
         \/ \E i \in 1..Len(k.snd_buf) :
              /\ k.snd_buf[i].sn = p.sn
              /\ k2 = [k EXCEPT !.snd_buf = RemoveAt(k.snd_buf, i)]
  BY ParseAckEffect
<1>2. h = ShrinkBuf(k2) OBVIOUS
<1> HIDE DEF k2
<1>3. k.snd_buf \in Seq(t.kept) BY DEF Blk
<1>4. /\ k2.rcv_nxt = k.rcv_nxt
      /\ k2.rcv_buf = k.rcv_buf /\ k2.rcv_queue = k.rcv_queue /\ k2.acklist = k.acklist
      /\ k2.snd_nxt = k.snd_nxt /\ k2.snd_queue = k.snd_queue
      /\ k2.buf = k.buf /\ k2.close_state = k.close_state
      /\ OnlyAcked(p, k.snd_buf, k2.snd_buf)
  <2>1. CASE k2 = k
    <3>1. Thinned(k.snd_buf, k.snd_buf) BY <1>3, ThinnedSame
    <3>2. OnlyAcked(p, k.snd_buf, k.snd_buf) BY <3>1 DEF OnlyAcked
    <3> QED BY <2>1, <3>2
  <2>2. ASSUME NEW c \in 1..Len(k.snd_buf), k.snd_buf[c].sn = p.sn,
               k2 = [k EXCEPT !.snd_buf = RemoveAt(k.snd_buf, c)]
        PROVE  /\ k2.rcv_nxt = k.rcv_nxt
               /\ k2.rcv_buf = k.rcv_buf /\ k2.rcv_queue = k.rcv_queue /\ k2.acklist = k.acklist
               /\ k2.snd_nxt = k.snd_nxt /\ k2.snd_queue = k.snd_queue
               /\ k2.buf = k.buf /\ k2.close_state = k.close_state
               /\ OnlyAcked(p, k.snd_buf, k2.snd_buf)
    <3> DEFINE b == RemoveAt(k.snd_buf, c)
    <3>0. b = RemoveAt(k.snd_buf, c) OBVIOUS
    <3>1. Acknowledges(p, k.snd_buf[c].sn) BY <2>2 DEF Acknowledges
    <3>2. k2 = [k EXCEPT !.snd_buf = b] BY <2>2
    <3> HIDE DEF b
    <3>3. OnlyAcked(p, k.snd_buf, b) BY <1>3, <3>0, <3>1, ThinnedRemove
    <3> QED BY <3>2, <3>3 DEF Blk
  <2> QED BY <1>1, <2>1, <2>2
<1>5. PICK x \in Number : /\ h = [k2 EXCEPT !.snd_una = x] /\ h \in Blk(t)
                          /\ x = IF k2.snd_buf = <<>> THEN k2.snd_nxt ELSE k2.snd_buf[1].sn
  <2>1. k2 \in Blk(t) /\ \A s \in t.kept : s.sn \in Number BY <1>1
  <2> QED BY <1>2, <2>1, ShrinkBufEffect
<1>6. /\ h.snd_buf = k2.snd_buf /\ h.rcv_nxt = k2.rcv_nxt
      /\ h.rcv_buf = k2.rcv_buf /\ h.rcv_queue = k2.rcv_queue /\ h.acklist = k2.acklist
      /\ h.snd_nxt = k2.snd_nxt /\ h.snd_queue = k2.snd_queue
      /\ h.buf = k2.buf /\ h.close_state = k2.close_state /\ h.snd_una = x
  <2>1. k2 \in Blk(t) /\ h = [k2 EXCEPT !.snd_una = x] BY <1>1, <1>5
  <2> QED BY <2>1 DEF Blk
<1>7. Based(h) BY <1>5, <1>6 DEF Based
<1>8. SameReceiver(k, h) BY <1>4, <1>6 DEF SameReceiver
<1> QED BY <1>4, <1>5, <1>6, <1>7, <1>8

(* k2 is k after n segments of rcv_buf, all next in the stream, have gone on. *)
Moved(k, k2, n) ==
  /\ n \in 0..Len(k.rcv_buf)
  /\ \A i \in 1..n : /\ k.rcv_buf[i].sn = (k.rcv_nxt + i - 1) % SnMod
                     /\ Len(k.rcv_queue) + i - 1 < RcvWnd
  /\ k2.rcv_nxt = (k.rcv_nxt + n) % SnMod
  /\ k2.rcv_queue = k.rcv_queue \o SubSeq(k.rcv_buf, 1, n)
  /\ k2.rcv_buf = SubSeq(k.rcv_buf, n + 1, Len(k.rcv_buf))

(* k1 is k with p among the segments of rcv_buf. *)
Placed(k, k1, p) ==
  /\ k1.rcv_nxt = k.rcv_nxt /\ k1.rcv_queue = k.rcv_queue
  /\ \A j \in 1..Len(k.rcv_buf) : \E i \in 1..Len(k1.rcv_buf) : k1.rcv_buf[i] = k.rcv_buf[j]
  /\ \E i \in 1..Len(k1.rcv_buf) : k1.rcv_buf[i].sn = p.sn

(* What a datagram p does to the receiving side of a block. *)
Late(k, p, k2) ==
  /\ TimeDiff(p.sn, k.rcv_nxt) < 0
  /\ k2.rcv_nxt = k.rcv_nxt /\ k2.rcv_buf = k.rcv_buf /\ k2.rcv_queue = k.rcv_queue
  /\ k2.acklist = Append(k.acklist, p.sn)
Arrived(t, k, p, k2) ==
  /\ \E k1 \in Blk(t), n \in Nat : Placed(k, k1, p) /\ Moved(k1, k2, n)
  /\ k2.acklist = Append(k.acklist, p.sn)
Received(t, k, p, k2) ==
  SameReceiver(k, k2) \/ (p.cmd = "PUSH" /\ (Late(k, p, k2) \/ Arrived(t, k, p, k2)))

(* move_buf moves the segments that are next in the stream to the reader. *)
LEMMA MoveBufMoves ==
  ASSUME NEW t, NEW k \in Blk(t), t.early \subseteq t.ready, NEW k2, k2 = MoveBuf(k)
  PROVE  /\ k2 \in Blk(t) /\ SameSender(k, k2) /\ k2.acklist = k.acklist
         /\ k2.buf = k.buf /\ k2.close_state = k.close_state
         /\ \E n \in Nat : Moved(k, k2, n)
PROOF
<1>1. PICK n \in 0..Len(k.rcv_buf) :
        /\ \A i \in 1..n : /\ k.rcv_buf[i].sn = (k.rcv_nxt + i - 1) % SnMod
                           /\ Len(k.rcv_queue) + i - 1 < RcvWnd
        /\ k2 = [k EXCEPT !.rcv_nxt = (k.rcv_nxt + n) % SnMod,
                          !.rcv_queue = k.rcv_queue \o SubSeq(k.rcv_buf, 1, n),
                          !.rcv_buf = SubSeq(k.rcv_buf, n + 1, Len(k.rcv_buf))]
        /\ k2 \in Blk(t)
  BY MoveBufEffect
<1> DEFINE x == (k.rcv_nxt + n) % SnMod  q == k.rcv_queue \o SubSeq(k.rcv_buf, 1, n)
           b == SubSeq(k.rcv_buf, n + 1, Len(k.rcv_buf))
<1>2. k2 = [k EXCEPT !.rcv_nxt = x, !.rcv_queue = q, !.rcv_buf = b] BY <1>1
<1> HIDE DEF x, q, b
<1>3. /\ k2.rcv_nxt = x /\ k2.rcv_queue = q /\ k2.rcv_buf = b
      /\ k2.acklist = k.acklist /\ k2.buf = k.buf /\ k2.close_state = k.close_state
      /\ k2.snd_nxt = k.snd_nxt /\ k2.snd_queue = k.snd_queue /\ k2.snd_buf = k.snd_buf
      /\ k2.snd_una = k.snd_una
  BY <1>2 DEF Blk
<1>4. n \in Nat
  <2>1. k.rcv_buf \in Seq(t.early) BY DEF Blk
  <2> QED BY <2>1, LenProperties
<1>5. Moved(k, k2, n) BY <1>1, <1>3 DEF Moved, x, q, b
<1> QED BY <1>1, <1>3, <1>4, <1>5 DEF SameSender

(* parse_data puts the segment in its place, unless it is there, and moves. *)
LEMMA ParseDataArrives ==
  ASSUME NEW t, NEW k \in Blk(t), t.early \subseteq t.ready, NEW p \in t.early,
         NEW k2, k2 = ParseData(k, p)
  PROVE  /\ k2 \in Blk(t) /\ SameSender(k, k2) /\ k2.acklist = k.acklist
         /\ k2.buf = k.buf /\ k2.close_state = k.close_state
         /\ \E k1 \in Blk(t), n \in Nat : Placed(k, k1, p) /\ Moved(k1, k2, n)
PROOF
<1>1. PICK k1 \in Blk(t) :
        /\ k2 = MoveBuf(k1)
        /\ \/ k1 = k /\ \E i \in 1..Len(k.rcv_buf) : k.rcv_buf[i].sn = p.sn
           \/ \E i \in 1..(Len(k.rcv_buf) + 1) :
                k1 = [k EXCEPT !.rcv_buf = InsertAt(k.rcv_buf, i, p)]
  BY ParseDataEffect
<1>2. /\ Placed(k, k1, p) /\ SameSender(k, k1) /\ k1.acklist = k.acklist
      /\ k1.buf = k.buf /\ k1.close_state = k.close_state
  <2>1. CASE k1 = k /\ \E i \in 1..Len(k.rcv_buf) : k.rcv_buf[i].sn = p.sn
    BY <2>1 DEF Placed, SameSender
  <2>2. ASSUME NEW i \in 1..(Len(k.rcv_buf) + 1),
               k1 = [k EXCEPT !.rcv_buf = InsertAt(k.rcv_buf, i, p)]
        PROVE  /\ Placed(k, k1, p) /\ SameSender(k, k1) /\ k1.acklist = k.acklist
               /\ k1.buf = k.buf /\ k1.close_state = k.close_state
    <3> DEFINE b == InsertAt(k.rcv_buf, i, p)
    <3>1. k.rcv_buf \in Seq(t.early) /\ Len(k.rcv_buf) \in Nat BY LenProperties DEF Blk
    <3>2. /\ Len(b) = Len(k.rcv_buf) + 1
          /\ \A j \in 1..(i - 1) : b[j] = k.rcv_buf[j]
          /\ b[i] = p
          /\ \A j \in i..Len(k.rcv_buf) : b[j + 1] = k.rcv_buf[j]
      <4>1. k.rcv_buf \in Seq(t.early) BY <3>1
      <4> QED BY <4>1, InsertFacts, SMTT(20)
    <3>3. k1 = [k EXCEPT !.rcv_buf = b] BY <2>2
    <3> HIDE DEF b
    <3>4. /\ k1.rcv_buf = b /\ k1.rcv_nxt = k.rcv_nxt /\ k1.rcv_queue = k.rcv_queue
          /\ k1.acklist = k.acklist /\ k1.buf = k.buf /\ k1.close_state = k.close_state
          /\ SameSender(k, k1)
      BY <3>3 DEF Blk, SameSender
    <3>5. i \in 1..Len(b) BY <3>1, <3>2
    <3>6. ASSUME NEW j \in 1..Len(k.rcv_buf) PROVE \E m \in 1..Len(b) : b[m] = k.rcv_buf[j]
      <4>1. CASE j < i
        <5>1. j \in 1..(i - 1) /\ j \in 1..Len(b) BY <3>1, <3>2, <4>1
        <5> QED BY <3>2, <5>1
      <4>2. CASE j >= i
        <5>1. j \in i..Len(k.rcv_buf) /\ j + 1 \in 1..Len(b) BY <3>1, <3>2, <4>2
        <5> QED BY <3>2, <5>1
      <4> QED BY <3>1, <4>1, <4>2
    <3> QED BY <3>2, <3>4, <3>5, <3>6 DEF Placed
  <2> QED BY <1>1, <2>1, <2>2
<1>3. /\ k2 \in Blk(t) /\ SameSender(k1, k2) /\ k2.acklist = k1.acklist
      /\ k2.buf = k1.buf /\ k2.close_state = k1.close_state
      /\ \E n \in Nat : Moved(k1, k2, n)
  BY <1>1, MoveBufMoves
<1>4. SameSender(k, k2) BY <1>2, <1>3 DEF SameSender
<1> QED BY <1>1, <1>2, <1>3, <1>4

(* input of data: out of the window it changes nothing, late it is            *)
(* acknowledged again, and otherwise it is acknowledged and put in its place. *)
LEMMA InputPushEffect ==
  ASSUME NEW t, NEW k \in Blk(t), t.early \subseteq t.ready,
         NEW p \in t.early, p.sn \in t.acks, p.sn \in Number, p.cmd = "PUSH", NEW k2, k2 = InputPush(k, p)
  PROVE  /\ k2 \in Blk(t) /\ SameSender(k, k2) /\ Received(t, k, p, k2)
         /\ k2.buf = k.buf /\ k2.close_state = k.close_state
PROOF
<1> DEFINE a == Append(k.acklist, p.sn)  acked == [k EXCEPT !.acklist = a]
<1>1. a \in Seq(t.acks)
  <2>1. k.acklist \in Seq(t.acks) /\ p.sn \in t.acks BY DEF Blk
  <2> QED BY <2>1, AppendProperties
<1>2. a = Append(k.acklist, p.sn) OBVIOUS
<1>3. \/ k2 = k
      \/ TimeDiff(p.sn, k.rcv_nxt) >= 0 /\ k2 = ParseData(acked, p)
      \/ ~(TimeDiff(p.sn, k.rcv_nxt) >= 0) /\ k2 = acked
  BY DEF InputPush
<1> HIDE DEF a
<1>4. /\ acked \in Blk(t) /\ SameSender(k, acked) /\ acked.acklist = a
      /\ acked.rcv_nxt = k.rcv_nxt /\ acked.rcv_buf = k.rcv_buf /\ acked.rcv_queue = k.rcv_queue
      /\ acked.buf = k.buf /\ acked.close_state = k.close_state
  BY <1>1 DEF Blk, SameSender
<1> HIDE DEF acked
<1>5. CASE k2 = k BY <1>5 DEF SameSender, Received, SameReceiver
<1>6. CASE ~(TimeDiff(p.sn, k.rcv_nxt) >= 0) /\ k2 = acked
  <2>1. p.sn \in Int /\ k.rcv_nxt \in Int BY ConstantFacts DEF Blk, Number
  <2>2. TimeDiff(p.sn, k.rcv_nxt) \in Int BY <2>1, TimeDiffType
  <2>3. TimeDiff(p.sn, k.rcv_nxt) < 0 BY <1>6, <2>2
  <2> QED BY <1>2, <1>4, <1>6, <2>3 DEF Received, Late
<1>7. CASE k2 = ParseData(acked, p)
  <2>1. /\ k2 \in Blk(t) /\ SameSender(acked, k2) /\ k2.acklist = acked.acklist
        /\ k2.buf = acked.buf /\ k2.close_state = acked.close_state
        /\ \E k1 \in Blk(t), n \in Nat : Placed(acked, k1, p) /\ Moved(k1, k2, n)
    BY <1>4, <1>7, ParseDataArrives
  <2>2. \A k1 : Placed(acked, k1, p) => Placed(k, k1, p) BY <1>4 DEF Placed
  <2>3. Arrived(t, k, p, k2) BY <1>2, <1>4, <2>1, <2>2 DEF Arrived
  <2>4. SameSender(k, k2) BY <1>4, <2>1 DEF SameSender
  <2> QED BY <1>4, <2>1, <2>3, <2>4 DEF Received
<1> QED BY <1>3, <1>5, <1>6, <1>7

(* input as a whole. *)
Taken(t, k, p, k2) ==
  /\ k2 \in Blk(t) /\ Based(k2) /\ OnlyAcked(p, k.snd_buf, k2.snd_buf)
  /\ k2.snd_nxt = k.snd_nxt /\ k2.snd_queue = k.snd_queue /\ k2.buf = k.buf
  /\ Received(t, k, p, k2)
  /\ \/ k2.close_state = k.close_state
     \/ /\ p.cmd \in {"CLS", "CLF"} /\ k2.close_state # "no"
        /\ k.close_state \in {"wait", "yes"} => k2.close_state \in {"wait", "yes"}

(* input does what Taken says. *)
LEMMA InputEffect ==
  ASSUME NEW t, NEW k \in Blk(t), \A s \in t.kept : s.sn \in Number, t.early \subseteq t.ready,
         NEW p, p.wnd \in 0..RcvWnd, p.cmd \in Cmd,
         p.cmd = "PUSH" => p \in t.early /\ p.sn \in t.acks /\ p.sn \in Number,
         NEW k2, k2 = Input(k, p)
  PROVE  Taken(t, k, p, k2)
PROOF
<1> DEFINE h == ShrinkBuf(ParseUna([k EXCEPT !.rmt_wnd = p.wnd], p.una))
<1>1. /\ h \in Blk(t) /\ SameReceiver(k, h) /\ Based(h) /\ OnlyAcked(p, k.snd_buf, h.snd_buf)
      /\ h.snd_nxt = k.snd_nxt /\ h.snd_queue = k.snd_queue
      /\ h.buf = k.buf /\ h.close_state = k.close_state
  BY HeardEffect
<1>2. /\ p.cmd = "ACK" => k2 = ShrinkBuf(ParseAck(h, p.sn))
      /\ p.cmd = "PUSH" => k2 = InputPush(h, p)
      /\ p.cmd = "WASK" => k2 = [h EXCEPT !.probe = @ \union {"tell"}]
      /\ p.cmd = "WINS" => k2 = h
      /\ p.cmd = "CLS" => k2 = InputClose(h)
      /\ p.cmd = "CLF" => k2 = [h EXCEPT !.close_state = "yes"]
  BY DEF Input
<1> HIDE DEF h
<1>3. CASE p.cmd = "ACK"
  <2>1. /\ k2 \in Blk(t) /\ SameReceiver(h, k2) /\ Based(k2) /\ OnlyAcked(p, h.snd_buf, k2.snd_buf)
        /\ k2.snd_nxt = h.snd_nxt /\ k2.snd_queue = h.snd_queue
        /\ k2.buf = h.buf /\ k2.close_state = h.close_state
    <3>1. k2 = ShrinkBuf(ParseAck(h, p.sn)) /\ h \in Blk(t) /\ Based(h) BY <1>1, <1>2, <1>3
    <3> QED BY <1>3, <3>1, InputAckEffect
  <2>2. OnlyAcked(p, k.snd_buf, k2.snd_buf)
    <3>1. /\ k.snd_buf \in Seq(t.kept) /\ h.snd_buf \in Seq(t.kept) /\ k2.snd_buf \in Seq(t.kept)
      BY <1>1, <2>1 DEF Blk
    <3>2. /\ Thinned(k.snd_buf, h.snd_buf) /\ Thinned(h.snd_buf, k2.snd_buf)
      BY <1>1, <2>1 DEF OnlyAcked
    <3>3. Thinned(k.snd_buf, k2.snd_buf) BY <3>1, <3>2, ThinnedTwice
    <3>4. \A i \in 1..Len(k.snd_buf) : Acknowledges(p, k.snd_buf[i].sn)
                                       \/ \E j \in 1..Len(k2.snd_buf) : k2.snd_buf[j] = k.snd_buf[i]
      <4>1. SUFFICES ASSUME NEW i \in 1..Len(k.snd_buf), ~Acknowledges(p, k.snd_buf[i].sn)
                     PROVE  \E j \in 1..Len(k2.snd_buf) : k2.snd_buf[j] = k.snd_buf[i]
        OBVIOUS
      <4>2. PICK j \in 1..Len(h.snd_buf) : h.snd_buf[j] = k.snd_buf[i]
        BY <1>1, <4>1 DEF OnlyAcked
      <4>3. ~Acknowledges(p, h.snd_buf[j].sn) BY <4>1, <4>2
      <4>4. PICK m \in 1..Len(k2.snd_buf) : k2.snd_buf[m] = h.snd_buf[j]
        BY <2>1, <4>3 DEF OnlyAcked
      <4> QED BY <4>2, <4>4
    <3> QED BY <3>3, <3>4 DEF OnlyAcked
  <2>3. SameReceiver(k, k2) BY <1>1, <2>1 DEF SameReceiver
  <2> QED BY <1>1, <2>1, <2>2, <2>3 DEF Taken, Received
<1>4. CASE p.cmd = "PUSH"
  <2>1. /\ k2 \in Blk(t) /\ SameSender(h, k2) /\ Received(t, h, p, k2)
        /\ k2.buf = h.buf /\ k2.close_state = h.close_state
    <3>1. /\ k2 = InputPush(h, p) /\ h \in Blk(t) /\ p \in t.early
          /\ p.sn \in t.acks /\ p.sn \in Number
      BY <1>1, <1>2, <1>4
    <3> QED BY <1>4, <3>1, InputPushEffect
  <2>2. Received(t, k, p, k2)
    <3>1. \A k1 : Placed(h, k1, p) => Placed(k, k1, p) BY <1>1 DEF Placed, SameReceiver
    <3>2. Arrived(t, h, p, k2) => Arrived(t, k, p, k2) BY <1>1, <3>1 DEF Arrived, SameReceiver
    <3>3. Late(h, p, k2) => Late(k, p, k2) BY <1>1 DEF Late, SameReceiver
    <3>4. SameReceiver(h, k2) => SameReceiver(k, k2) BY <1>1 DEF SameReceiver
    <3> QED BY <2>1, <3>2, <3>3, <3>4 DEF Received
  <2>3. Based(k2) BY <1>1, <2>1 DEF Based, SameSender
  <2> QED BY <1>1, <2>1, <2>2, <2>3 DEF Taken, SameSender
<1>5. ASSUME NEW g, NEW c \in CloseState, k2 = [h EXCEPT !.probe = g, !.close_state = c],
             g \in SUBSET {"ask", "tell"},
             \/ c = h.close_state
             \/ /\ p.cmd \in {"CLS", "CLF"} /\ c # "no"
                /\ h.close_state \in {"wait", "yes"} => c \in {"wait", "yes"}
      PROVE  Taken(t, k, p, k2)
  <2>1. /\ k2 \in Blk(t) /\ SameReceiver(h, k2) /\ SameSender(h, k2)
        /\ k2.buf = h.buf /\ k2.close_state = c
    <3>1. h \in Blk(t) /\ c \in CloseState /\ g \in SUBSET {"ask", "tell"} BY <1>1, <1>5
    <3>2. k2 = [h EXCEPT !.probe = g, !.close_state = c] BY <1>5
    <3>3. k2 \in Blk(t) BY <3>1, <3>2 DEF Blk
    <3>4. SameReceiver(h, k2) BY <3>1, <3>2 DEF Blk, SameReceiver
    <3>5. SameSender(h, k2) /\ k2.buf = h.buf /\ k2.close_state = c
      BY <3>1, <3>2 DEF Blk, SameSender
    <3> QED BY <3>3, <3>4, <3>5
  <2>2. SameReceiver(k, k2) BY <1>1, <2>1 DEF SameReceiver
  <2>3. Based(k2) BY <1>1, <2>1 DEF Based, SameSender
  <2> QED BY <1>1, <1>5, <2>1, <2>2, <2>3 DEF Taken, SameSender, Received
<1>6. h.probe \in SUBSET {"ask", "tell"} /\ h.close_state \in CloseState BY <1>1 DEF Blk
<1>7. CASE p.cmd = "WASK"
  <2> DEFINE g == h.probe \union {"tell"}
  <2>1. g \in SUBSET {"ask", "tell"} BY <1>6
  <2>2. k2 = [h EXCEPT !.probe = g] BY <1>2, <1>7
  <2> HIDE DEF g
  <2>3. k2 = [h EXCEPT !.probe = g, !.close_state = h.close_state] BY <1>1, <2>2 DEF Blk
  <2> QED BY <1>5, <1>6, <2>1, <2>3
<1>8. CASE p.cmd = "WINS"
  <2>1. k2 = h BY <1>2, <1>8
  <2>2. k2 = [h EXCEPT !.probe = h.probe, !.close_state = h.close_state] BY <1>1, <2>1 DEF Blk
  <2> QED BY <1>5, <1>6, <2>2
<1>9. CASE p.cmd = "CLF"
  <2>1. k2 = [h EXCEPT !.close_state = "yes"] BY <1>2, <1>9
  <2>2. k2 = [h EXCEPT !.probe = h.probe, !.close_state = "yes"] BY <1>1, <2>1 DEF Blk
  <2>3. "yes" \in CloseState BY DEF CloseState
  <2> QED BY <1>5, <1>6, <1>9, <2>2, <2>3
<1>10. CASE p.cmd = "CLS"
  <2> DEFINE c == CASE h.close_state = "wait" -> "yes" [] h.close_state = "no" -> "wrcv"
                    [] OTHER -> h.close_state
  <2>1. k2 = [h EXCEPT !.close_state = c] BY <1>2, <1>10 DEF InputClose
  <2>2. /\ c \in CloseState /\ c # "no"
        /\ h.close_state \in {"wait", "yes"} => c \in {"wait", "yes"}
    BY <1>6 DEF CloseState
  <2> HIDE DEF c
  <2>3. k2 = [h EXCEPT !.probe = h.probe, !.close_state = c] BY <1>1, <2>1 DEF Blk
  <2> QED BY <1>5, <1>6, <1>10, <2>2, <2>3
<1> QED BY <1>3, <1>4, <1>7, <1>8, <1>9, <1>10 DEF Cmd

-----------------------------------------------------------------------------
(* send, recv and the rest.                                                 *)

(* The i-th segment of a message of n units, the first of which is m + 1. *)
Piece(n, i, m) == [Bare("PUSH") EXCEPT !.frg = n - i, !.data = <<m + i>>]

(* k2 is k with a message of n units, counted on from m, in snd_queue. *)
Queued(t, k, n, m, k2) ==
  /\ k2 \in Blk(t) /\ SameReceiver(k, k2) /\ k2.buf = k.buf /\ k2.close_state = k.close_state
  /\ k2.snd_nxt = k.snd_nxt /\ k2.snd_buf = k.snd_buf /\ k2.snd_una = k.snd_una
  /\ Len(k2.snd_queue) = Len(k.snd_queue) + n
  /\ \A i \in 1..Len(k.snd_queue) : k2.snd_queue[i] = k.snd_queue[i]
  /\ \A i \in 1..n : k2.snd_queue[Len(k.snd_queue) + i].data = <<m + i>>

Joined(s, u, v) ==
  /\ Len(v) = Len(s) + Len(u)
  /\ \A i \in 1..Len(s) : v[i] = s[i]
  /\ \A i \in 1..Len(u) : v[Len(s) + i] = u[i]

(* s \o u is s, then u. *)
LEMMA JoinedFacts ==
  ASSUME NEW S, NEW s \in Seq(S), NEW u \in Seq(S), NEW v, v = s \o u
  PROVE  v \in Seq(S) /\ Joined(s, u, v)
PROOF BY ConcatFacts DEF Joined

(* send cuts a message into segments that count down to zero. *)
LEMMA SendEffect ==
  ASSUME NEW t, NEW k \in Blk(t), NEW m \in Nat, NEW n \in Nat, n >= 1,
         \A i \in 1..n : Piece(n, i, m) \in t.queued,
         NEW k2, k2 = Send(k, [i \in 1..n |-> m + i])
  PROVE  Queued(t, k, n, m, k2)
PROOF
<1> DEFINE units == [i \in 1..n |-> m + i]
           Part(i) == [Bare("PUSH") EXCEPT !.frg = n - i,
                                           !.data = SubSeq(units, i, Min({i, Len(units)}))]
           new == [i \in 1..n |-> Piece(n, i, m)]
           q == k.snd_queue \o new
<1>1. units \in Seq(Nat) /\ Len(units) = n /\ \A i \in 1..n : units[i] = m + i OBVIOUS
<1>2. Max({1, Len(units)}) = n
  <2>1. 1 \in Int /\ Len(units) \in Int BY <1>1
  <2>2. Max({1, Len(units)}) = IF 1 >= Len(units) THEN 1 ELSE Len(units) BY <2>1, MaxOfTwo
  <2> HIDE DEF units
  <2> QED BY <1>1, <2>2
<1> HIDE DEF units
<1>3. ASSUME NEW i \in 1..n PROVE Part(i) = Piece(n, i, m)
  <2>1. i \in Int /\ Len(units) \in Int /\ i <= Len(units) BY <1>1
  <2>2. Min({i, Len(units)}) = i BY <2>1, MinOfTwo
  <2>3. /\ units \in Seq(Nat) /\ i - 1 \in Nat /\ i \in Nat /\ i - 1 <= i /\ i <= Len(units)
    BY <1>1, <2>1
  <2>4. /\ SubSeq(units, (i - 1) + 1, i) \in Seq(Nat)
        /\ Len(SubSeq(units, (i - 1) + 1, i)) = i - (i - 1)
        /\ \A j \in 1..(i - (i - 1)) : SubSeq(units, (i - 1) + 1, i)[j] = units[(i - 1) + j]
    BY <2>3, SubSeqFacts
  <2>5. (i - 1) + 1 = i /\ i - (i - 1) = 1 /\ 1 \in 1..1 OBVIOUS
  <2>6. /\ SubSeq(units, i, i) \in Seq(Nat) /\ Len(SubSeq(units, i, i)) = 1
        /\ SubSeq(units, i, i)[1] = units[(i - 1) + 1]
    BY <2>4, <2>5
  <2>7. SubSeq(units, i, i)[1] = m + i BY <1>1, <2>5, <2>6
  <2> DEFINE z == SubSeq(units, i, i)
  <2>8. z \in Seq(Nat) /\ Len(z) = 1 /\ z[1] = m + i BY <2>6, <2>7
  <2> HIDE DEF z
  <2>9. z = <<m + i>> BY <2>8
  <2>10. SubSeq(units, i, Min({i, Len(units)})) = <<m + i>> BY <2>2, <2>9 DEF z
  <2> QED BY <2>10 DEF Piece
<1>4. [i \in 1..n |-> Part(i)] = new BY <1>3
<1>5. k2 = [k EXCEPT !.snd_queue = q]
  <2>1. k2 = Send(k, units) BY DEF units
  <2>2. k2 = [k EXCEPT !.snd_queue = k.snd_queue \o [i \in 1..Max({1, Len(units)}) |->
                [Bare("PUSH") EXCEPT !.frg = Max({1, Len(units)}) - i,
                                     !.data = SubSeq(units, i, Min({i, Len(units)}))]]]
    BY <2>1 DEF Send
  <2>3. k2 = [k EXCEPT !.snd_queue = k.snd_queue \o [i \in 1..n |-> Part(i)]] BY <1>2, <2>2
  <2> HIDE DEF Part, new
  <2> QED BY <1>4, <2>3
<1> HIDE DEF Part
<1>6. new \in Seq(t.queued) /\ Len(new) = n /\ \A i \in 1..n : new[i] = Piece(n, i, m)
  <2>1. \A i \in 1..n : Piece(n, i, m) \in t.queued OBVIOUS
  <2> HIDE DEF Piece
  <2> QED BY <2>1, IsASeq
<1>7. \A i \in 1..n : new[i].data = <<m + i>> BY <1>6 DEF Piece, Bare
<1> HIDE DEF new
<1>8. k.snd_queue \in Seq(t.queued) BY DEF Blk
<1>9. /\ q \in Seq(t.queued) /\ Len(q) = Len(k.snd_queue) + Len(new)
      /\ \A i \in 1..Len(k.snd_queue) : q[i] = k.snd_queue[i]
      /\ \A i \in 1..Len(new) : q[Len(k.snd_queue) + i] = new[i]
  <2>1. k.snd_queue \in Seq(t.queued) /\ new \in Seq(t.queued) BY <1>6, <1>8
  <2>2. q = k.snd_queue \o new OBVIOUS
  <2> HIDE DEF q
  <2>3. q \in Seq(t.queued) /\ Joined(k.snd_queue, new, q) BY <2>1, <2>2, JoinedFacts
  <2> QED BY <2>3 DEF Joined
<1> HIDE DEF q
<1>10. /\ k2 \in Blk(t) /\ SameReceiver(k, k2) /\ k2.snd_queue = q
       /\ k2.buf = k.buf /\ k2.close_state = k.close_state
       /\ k2.snd_nxt = k.snd_nxt /\ k2.snd_buf = k.snd_buf /\ k2.snd_una = k.snd_una
  BY <1>5, <1>9 DEF Blk, SameReceiver
<1> QED BY <1>6, <1>7, <1>9, <1>10 DEF Queued

(* The message at the front is not empty. *)
LEMMA FrontMessageEffect ==
  ASSUME NEW S, NEW k, k.rcv_queue \in Seq(S), k.rcv_queue # <<>>
  PROVE  \E x \in 1..Len(k.rcv_queue) : FrontMessage(k) = SubSeq(k.rcv_queue, 1, x)
PROOF
<1> DEFINE ends == {i \in DOMAIN k.rcv_queue : k.rcv_queue[i].frg = 0}
           x == IF ends = {} THEN Len(k.rcv_queue) ELSE Min(ends)
<1>1. Len(k.rcv_queue) \in Nat /\ Len(k.rcv_queue) # 0 BY LenProperties, EmptySeq
<1>2. ends \subseteq 1..Len(k.rcv_queue) BY LenProperties
<1>3. FrontMessage(k) = SubSeq(k.rcv_queue, 1, x) BY DEF FrontMessage
<1> HIDE DEF ends
<1>4. x \in 1..Len(k.rcv_queue)
  <2>1. CASE ends = {} BY <1>1, <2>1
  <2>2. CASE ends # {}
    <3>1. ends \subseteq Nat BY <1>1, <1>2
    <3>2. Min(ends) \in ends BY <2>2, <3>1, MinOf
    <3> QED BY <1>2, <2>2, <3>2
  <2> QED BY <2>1, <2>2
<1> QED BY <1>3, <1>4

(* k2 is k with the first x segments of rcv_queue read. *)
Fetched(t, k, x, k2) ==
  /\ k2 \in Blk(t) /\ SameSender(k, k2) /\ k2.acklist = k.acklist
  /\ k2.buf = k.buf /\ k2.close_state = k.close_state
  /\ \E k1 \in Blk(t), n \in Nat :
       /\ k1.rcv_nxt = k.rcv_nxt /\ k1.rcv_buf = k.rcv_buf
       /\ k1.rcv_queue = SubSeq(k.rcv_queue, x + 1, Len(k.rcv_queue))
       /\ Moved(k1, k2, n)

(* recv takes the message at the front, then moves up what has come early. *)
LEMMA RecvEffect ==
  ASSUME NEW t, NEW k \in Blk(t), t.early \subseteq t.ready, k.rcv_queue # <<>>,
         NEW k2, k2 = Recv(k)
  PROVE  \E x \in 1..Len(k.rcv_queue) :
           FrontMessage(k) = SubSeq(k.rcv_queue, 1, x) /\ Fetched(t, k, x, k2)
PROOF
<1>1. k.rcv_queue \in Seq(t.ready) BY DEF Blk
<1>2. PICK x \in 1..Len(k.rcv_queue) : FrontMessage(k) = SubSeq(k.rcv_queue, 1, x)
  BY <1>1, FrontMessageEffect
<1>3. Len(k.rcv_queue) \in Nat BY <1>1, LenProperties
<1>4. x \in 0..Len(k.rcv_queue) BY <1>3
<1>5. Len(FrontMessage(k)) = x BY <1>1, <1>2, <1>4, PrefixFacts
<1> DEFINE q == SubSeq(k.rcv_queue, x + 1, Len(k.rcv_queue))
           k1 == [k EXCEPT !.rcv_queue = q]
           m == MoveBuf(k1)
<1>6. q \in Seq(t.ready) BY <1>1, <1>4, SuffixFacts
<1>7. m = MoveBuf([k EXCEPT !.rcv_queue = SubSeq(@, Len(FrontMessage(k)) + 1, Len(@))]) BY <1>5
<1>8. k2 = m \/ k2 = [m EXCEPT !.probe = @ \union {"tell"}]
  <2> HIDE DEF m
  <2> QED BY <1>7 DEF Recv
<1>9. q = SubSeq(k.rcv_queue, x + 1, Len(k.rcv_queue)) OBVIOUS
<1> HIDE DEF q
<1>10. /\ k1 \in Blk(t) /\ SameSender(k, k1) /\ k1.acklist = k.acklist
       /\ k1.buf = k.buf /\ k1.close_state = k.close_state
       /\ k1.rcv_nxt = k.rcv_nxt /\ k1.rcv_buf = k.rcv_buf /\ k1.rcv_queue = q
  BY <1>6 DEF Blk, SameSender
<1>11. m = MoveBuf(k1) OBVIOUS
<1> HIDE DEF k1, m
<1>12. /\ m \in Blk(t) /\ SameSender(k1, m) /\ m.acklist = k1.acklist
       /\ m.buf = k1.buf /\ m.close_state = k1.close_state
       /\ \E n \in Nat : Moved(k1, m, n)
  BY <1>10, <1>11, MoveBufMoves
<1>13. PICK n \in Nat : Moved(k1, m, n) BY <1>12
<1>14. Fetched(t, k, x, m)
  BY <1>9, <1>10, <1>12, <1>13 DEF Fetched, SameSender
<1>15. CASE k2 = [m EXCEPT !.probe = @ \union {"tell"}]
  <2> DEFINE g == m.probe \union {"tell"}
  <2>1. g \in SUBSET {"ask", "tell"} BY <1>12 DEF Blk
  <2>2. k2 = [m EXCEPT !.probe = g] BY <1>15
  <2> HIDE DEF g
  <2>3. /\ k2 \in Blk(t) /\ SameSender(m, k2) /\ k2.acklist = m.acklist
        /\ k2.buf = m.buf /\ k2.close_state = m.close_state
        /\ k2.rcv_nxt = m.rcv_nxt /\ k2.rcv_buf = m.rcv_buf /\ k2.rcv_queue = m.rcv_queue
    BY <1>12, <2>1, <2>2 DEF Blk, SameSender
  <2>4. Moved(k1, k2, n) BY <1>13, <2>3 DEF Moved
  <2>5. Fetched(t, k, x, k2)
    BY <1>9, <1>10, <1>12, <2>3, <2>4 DEF Fetched, SameSender
  <2> QED BY <1>2, <2>5
<1> QED BY <1>2, <1>8, <1>14, <1>15

(* Close and ForceClose change the state of the close alone. *)
LEMMA ClosedBlock ==
  ASSUME NEW t, NEW k \in Blk(t), NEW c \in CloseState, NEW k2, k2 = [k EXCEPT !.close_state = c]
  PROVE  /\ k2 \in Blk(t) /\ SameSender(k, k2) /\ SameReceiver(k, k2)
         /\ k2.buf = k.buf /\ k2.close_state = c
PROOF BY DEF Blk, SameSender, SameReceiver

(* close of an open block starts to send; of another it changes nothing. *)
LEMMA CloseEffect ==
  ASSUME NEW t, NEW k \in Blk(t), NEW k2, k2 = Close(k)
  PROVE  /\ k2 \in Blk(t) /\ SameSender(k, k2) /\ SameReceiver(k, k2) /\ k2.buf = k.buf
         /\ k2.close_state = IF k.close_state = "no" THEN "wsnd" ELSE k.close_state
PROOF
<1>1. CASE k.close_state = "no"
  <2>1. k2 = [k EXCEPT !.close_state = "wsnd"] BY <1>1 DEF Close
  <2>2. "wsnd" \in CloseState BY DEF CloseState
  <2> QED BY <1>1, <2>1, <2>2, ClosedBlock
<1>2. CASE k.close_state # "no"
  <2>1. k2 = k BY <1>2 DEF Close
  <2> QED BY <1>2, <2>1 DEF SameSender, SameReceiver
<1> QED BY <1>1, <1>2

(* force_close ends the handshake at once. *)
LEMMA ForceCloseEffect ==
  ASSUME NEW t, NEW k \in Blk(t), NEW k2, k2 = ForceClose(k)
  PROVE  /\ k2 \in Blk(t) /\ SameSender(k, k2) /\ SameReceiver(k, k2) /\ k2.buf = k.buf
         /\ k2.close_state = "yes"
PROOF
<1>1. k2 = [k EXCEPT !.close_state = "yes"] BY DEF ForceClose
<1>2. "yes" \in CloseState BY DEF CloseState
<1> QED BY <1>1, <1>2, ClosedBlock

(* A new block is empty, and stands at the given number. *)
LEMMA ConstructType ==
  ASSUME NEW t, NEW s \in Number
  PROVE  /\ Construct(s) \in Blk(t)
         /\ Construct(s).close_state = "no" /\ Construct(s).snd_nxt = s
         /\ Construct(s).snd_una = s /\ Construct(s).rcv_nxt = s
         /\ Construct(s).snd_queue = <<>> /\ Construct(s).snd_buf = <<>>
         /\ Construct(s).rcv_buf = <<>> /\ Construct(s).rcv_queue = <<>>
         /\ Construct(s).acklist = <<>> /\ Construct(s).buf = <<>>
PROOF
<1>1. WndRcv \in 0..RcvWnd /\ "no" \in CloseState BY ConstantFacts DEF CloseState
<1>2. /\ <<>> \in Seq(t.queued) /\ <<>> \in Seq(t.kept) /\ <<>> \in Seq(t.early)
      /\ <<>> \in Seq(t.ready) /\ <<>> \in Seq(t.acks) /\ <<>> \in Seq(t.out)
  BY EmptySeq
<1>3. Construct(s) \in Blk(t) BY <1>1, <1>2 DEF Construct, Blk
<1> QED BY <1>3 DEF Construct

(* A block typed by smaller sets is typed by larger ones. *)
LEMMA BlkGrows ==
  ASSUME NEW t, NEW t2, NEW k \in Blk(t),
         t.queued \subseteq t2.queued, t.kept \subseteq t2.kept, t.early \subseteq t2.early,
         t.ready \subseteq t2.ready, t.acks \subseteq t2.acks, t.out \subseteq t2.out
  PROVE  k \in Blk(t2)
PROOF
<1>1. /\ k.snd_queue \in Seq(t.queued) /\ k.snd_buf \in Seq(t.kept) /\ k.rcv_buf \in Seq(t.early)
      /\ k.rcv_queue \in Seq(t.ready) /\ k.acklist \in Seq(t.acks) /\ k.buf \in Seq(t.out)
  BY DEF Blk
<1>2. k.snd_queue \in Seq(t2.queued) BY <1>1, SeqMonotonic
<1>3. k.snd_buf \in Seq(t2.kept) BY <1>1, SeqMonotonic
<1>4. k.rcv_buf \in Seq(t2.early) BY <1>1, SeqMonotonic
<1>5. k.rcv_queue \in Seq(t2.ready) BY <1>1, SeqMonotonic
<1>6. k.acklist \in Seq(t2.acks) BY <1>1, SeqMonotonic
<1>7. k.buf \in Seq(t2.out) BY <1>1, SeqMonotonic
<1> QED BY <1>2, <1>3, <1>4, <1>5, <1>6, <1>7 DEF Blk

-----------------------------------------------------------------------------
(* The window.  Seen from snd_una, the numbers in snd_buf go up, and snd_nxt  *)
(* is above them all: there are as many of them at most as numbers between.   *)

Off(k, x) == (x - k.snd_una) % SnMod

Window(k) ==
  /\ Off(k, k.snd_nxt) <= SndWnd
  /\ Based(k)
  /\ \A i \in 1..Len(k.snd_buf) :
       Off(k, k.snd_nxt) - Off(k, k.snd_buf[i].sn) >= Len(k.snd_buf) + 1 - i
  /\ \A i, j \in 1..Len(k.snd_buf) :
       i <= j => Off(k, k.snd_buf[j].sn) - Off(k, k.snd_buf[i].sn) >= j - i

(* Seen from a number in between, everything above it moves down by its place. *)
LEMMA OffShift ==
  ASSUME NEW a \in Number, NEW b \in Number, NEW c \in Number,
         (b - a) % SnMod <= (c - a) % SnMod
  PROVE  (c - b) % SnMod = ((c - a) % SnMod) - ((b - a) % SnMod)
PROOF
<1>0. SnMod \in Nat \ {0} /\ a \in Int /\ b \in Int /\ c \in Int BY ConstantFacts DEF Number
<1>1. /\ 0 <= a /\ a < SnMod /\ 0 <= b /\ b < SnMod /\ 0 <= c /\ c < SnMod
  BY <1>0 DEF Number
<1>2. (b - a) % SnMod = IF b - a < 0 THEN b - a + SnMod ELSE b - a
  <2>1. b - a \in Int /\ -SnMod <= b - a /\ b - a < SnMod BY <1>0, <1>1
  <2> QED BY <1>0, <2>1, ModLow, ModNeg
<1>3. (c - a) % SnMod = IF c - a < 0 THEN c - a + SnMod ELSE c - a
  <2>1. c - a \in Int /\ -SnMod <= c - a /\ c - a < SnMod BY <1>0, <1>1
  <2> QED BY <1>0, <2>1, ModLow, ModNeg
<1>4. (c - b) % SnMod = IF c - b < 0 THEN c - b + SnMod ELSE c - b
  <2>1. c - b \in Int /\ -SnMod <= c - b /\ c - b < SnMod BY <1>0, <1>1
  <2> QED BY <1>0, <2>1, ModLow, ModNeg
<1> DEFINE x == (b - a) % SnMod  y == (c - a) % SnMod  z == (c - b) % SnMod
<1>5. x <= y OBVIOUS
<1>6. /\ x = (IF b - a < 0 THEN b - a + SnMod ELSE b - a)
      /\ y = (IF c - a < 0 THEN c - a + SnMod ELSE c - a)
      /\ z = (IF c - b < 0 THEN c - b + SnMod ELSE c - b)
  BY <1>2, <1>3, <1>4
<1> HIDE DEF x, y, z
<1>7. z = y - x BY <1>0, <1>1, <1>5, <1>6
<1> QED BY <1>7 DEF x, y, z

(* snd_una is where the window begins. *)
LEMMA OffSelf == ASSUME NEW k, k.snd_una \in Number PROVE Off(k, k.snd_una) = 0
PROOF
<1>1. k.snd_una \in Int /\ k.snd_una - k.snd_una = 0 BY ConstantFacts DEF Number
<1>2. 0 % SnMod = 0 BY ModLow, ConstantFacts
<1> QED BY <1>1, <1>2 DEF Off

(* An offset in the window is not negative. *)
LEMMA OffType ==
  ASSUME NEW k, k.snd_una \in Number, NEW x \in Number
  PROVE  Off(k, x) \in Int /\ Off(k, x) >= 0
PROOF
<1>1. x - k.snd_una \in Int BY ConstantFacts DEF Number
<1>2. Off(k, x) \in Number BY <1>1, ModRange DEF Off
<1> QED BY <1>2, ConstantFacts DEF Number

(* The window bounds snd_buf. *)
LEMMA WindowBounds ==
  ASSUME NEW t, NEW k \in Blk(t), \A s \in t.kept : s.sn \in Number, Window(k)
  PROVE  Len(k.snd_buf) <= SndWnd
PROOF
<1>1. /\ k.snd_buf \in Seq(t.kept) /\ Len(k.snd_buf) \in Nat
      /\ k.snd_una \in Number /\ k.snd_nxt \in Number
  BY LenProperties DEF Blk
<1>2. CASE Len(k.snd_buf) = 0 BY <1>2, ConstantFacts
<1>3. CASE Len(k.snd_buf) # 0
  <2>1. 1 \in 1..Len(k.snd_buf) BY <1>1, <1>3
  <2>2. k.snd_buf[1].sn \in Number BY <1>1, <2>1, ElementOfSeq
  <2> DEFINE x == Off(k, k.snd_buf[1].sn)  y == Off(k, k.snd_nxt)  l == Len(k.snd_buf)
  <2>3. x \in Int /\ y \in Int /\ x >= 0
    BY <1>1, <2>2, OffType
  <2>4. y - x >= l + 1 - 1 /\ y <= SndWnd BY <2>1 DEF Window
  <2>5. l \in Nat /\ SndWnd \in Nat BY <1>1, ConstantFacts
  <2> HIDE DEF x, y, l
  <2>6. l <= SndWnd BY <2>3, <2>4, <2>5
  <2> QED BY <2>6 DEF l
<1> QED BY <1>2, <1>3

(* The window is the sender's: what the receiver does leaves it alone. *)
LEMMA WindowSame ==
  ASSUME NEW k, NEW k2, Window(k), SameSender(k, k2) PROVE Window(k2)
PROOF BY DEF Window, SameSender, Off, Based

(* What is acknowledged leaves the window, whose base moves up. *)
LEMMA WindowThinned ==
  ASSUME NEW t, NEW k \in Blk(t), NEW k2 \in Blk(t), \A s \in t.kept : s.sn \in Number,
         Window(k), k2.snd_nxt = k.snd_nxt, Thinned(k.snd_buf, k2.snd_buf), Based(k2)
  PROVE  Window(k2)
PROOF
<1> DEFINE l == Len(k.snd_buf)  l2 == Len(k2.snd_buf)
           p(i) == Off(k, k.snd_buf[i].sn)  d == Off(k, k.snd_nxt)
           p2(i) == Off(k2, k2.snd_buf[i].sn)  d2 == Off(k2, k2.snd_nxt)
<1>1. PICK m \in [1..l2 -> 1..l] :
        /\ \A i \in 1..l2 : k2.snd_buf[i] = k.snd_buf[m[i]]
        /\ \A i, j \in 1..l2 : i <= j => m[j] - m[i] >= j - i
  BY DEF Thinned
<1>2. /\ k.snd_buf \in Seq(t.kept) /\ l \in Nat /\ k.snd_una \in Number /\ k.snd_nxt \in Number
      /\ k2.snd_buf \in Seq(t.kept) /\ l2 \in Nat /\ k2.snd_una \in Number
  BY LenProperties DEF Blk
<1>3. \A i \in 1..l : k.snd_buf[i].sn \in Number BY <1>2, ElementOfSeq
<1>4. \A i \in 1..l : p(i) \in Int /\ p(i) >= 0 BY <1>2, <1>3, OffType
<1>5. d \in Int /\ d >= 0 BY <1>2, OffType
<1>6. /\ d <= SndWnd /\ \A i \in 1..l : d - p(i) >= l + 1 - i
      /\ \A i, j \in 1..l : i <= j => p(j) - p(i) >= j - i
  BY DEF Window
<1>7. CASE l2 = 0
  <2>1. k2.snd_buf = <<>> BY <1>2, <1>7, EmptySeq
  <2>2. k2.snd_una = k2.snd_nxt BY <2>1 DEF Based
  <2>3. d2 = 0 BY <1>2, <2>2, OffSelf
  <2>4. \A i \in 1..l2 : FALSE BY <1>7
  <2>5. 0 <= SndWnd BY ConstantFacts
  <2> QED BY <2>3, <2>4, <2>5 DEF Window
<1>8. CASE l2 # 0
  <2>1. 1 \in 1..l2 BY <1>2, <1>8
  <2>2. m[1] \in 1..l /\ k2.snd_buf[1] = k.snd_buf[m[1]] BY <1>1, <2>1
  <2>3. k2.snd_buf # <<>> BY <1>2, <1>8, EmptySeq
  <2>4. k2.snd_una = k.snd_buf[m[1]].sn BY <2>2, <2>3 DEF Based
  <2> DEFINE x == p(m[1])
  <2>5. x \in Int /\ x >= 0 /\ x = (k2.snd_una - k.snd_una) % SnMod BY <1>4, <2>2, <2>4 DEF Off
  <2>6. ASSUME NEW c \in Number, x <= Off(k, c) PROVE Off(k2, c) = Off(k, c) - x
    <3>1. (k2.snd_una - k.snd_una) % SnMod <= (c - k.snd_una) % SnMod BY <2>5, <2>6 DEF Off
    <3>2. (c - k2.snd_una) % SnMod
            = ((c - k.snd_una) % SnMod) - ((k2.snd_una - k.snd_una) % SnMod)
      BY <1>2, <3>1, OffShift
    <3> QED BY <2>5, <3>2 DEF Off
  <2>7. x <= d
    <3>1. d - p(m[1]) >= l + 1 - m[1] BY <1>6, <2>2
    <3>2. m[1] \in Int /\ m[1] <= l BY <1>2, <2>2
    <3> HIDE DEF d, p
    <3> QED BY <1>2, <1>5, <2>5, <3>1, <3>2
  <2>8. d2 = d - x BY <1>2, <2>6, <2>7
  <2>9. ASSUME NEW i \in 1..l2
        PROVE  m[i] \in 1..l /\ x <= p(m[i]) /\ p2(i) = p(m[i]) - x
    <3>1. m[i] \in 1..l BY <1>1
    <3>2. m[i] - m[1] >= i - 1
      <4>1. 1 <= i BY <1>2
      <4> QED BY <1>1, <2>1, <4>1
    <3>3. m[1] \in Int /\ m[i] \in Int /\ m[1] <= m[i]
      <4>1. i \in Int /\ i >= 1 BY <1>2
      <4>2. m[1] \in Int /\ m[i] \in Int BY <1>2, <2>2, <3>1
      <4> QED BY <3>2, <4>1, <4>2
    <3>4. p(m[i]) - p(m[1]) >= m[i] - m[1] BY <1>6, <2>2, <3>1, <3>3
    <3>5. p(m[i]) \in Int /\ p(m[1]) \in Int BY <1>4, <2>2, <3>1
    <3>6. x <= p(m[i])
      <4> HIDE DEF p
      <4> QED BY <3>3, <3>4, <3>5
    <3>7. k.snd_buf[m[i]].sn \in Number BY <1>3, <3>1
    <3>8. Off(k2, k.snd_buf[m[i]].sn) = p(m[i]) - x BY <2>6, <3>6, <3>7
    <3> QED BY <1>1, <3>1, <3>6, <3>8
  <2>10. d2 <= SndWnd
    <3> HIDE DEF d, d2, p
    <3> QED BY <1>5, <1>6, <2>5, <2>8, ConstantFacts
  <2>11. ASSUME NEW i \in 1..l2 PROVE d2 - p2(i) >= l2 + 1 - i
    <3>1. d - p(m[i]) >= l + 1 - m[i] BY <1>6, <2>9
    <3>2. l2 \in 1..l2 /\ i <= l2 BY <1>2, <1>8
    <3>3. m[l2] - m[i] >= l2 - i BY <1>1, <3>2
    <3>4. m[l2] \in Int /\ m[l2] <= l /\ m[i] \in Int
      <4>1. m[l2] \in 1..l /\ m[i] \in 1..l BY <2>9, <3>2
      <4> QED BY <1>2, <4>1
    <3>5. p(m[i]) \in Int BY <1>4, <2>9
    <3>6. p2(i) = p(m[i]) - x BY <2>9
    <3>7. i \in Int BY <1>2
    <3> DEFINE a == p(m[i])  a2 == p2(i)  mi == m[i]  ml == m[l2]
    <3>8. /\ d - a >= l + 1 - mi /\ ml - mi >= l2 - i /\ ml <= l /\ a2 = a - x /\ d2 = d - x
          /\ a \in Int /\ mi \in Int /\ ml \in Int /\ i \in Int /\ d \in Int /\ x \in Int
          /\ l \in Int /\ l2 \in Int
      BY <1>2, <1>5, <2>5, <2>8, <3>1, <3>3, <3>4, <3>5, <3>6, <3>7
    <3> HIDE DEF a, a2, mi, ml, d, d2, p, p2, l, l2, x
    <3>9. d2 - a2 >= l2 + 1 - i BY <3>8
    <3> QED BY <3>9 DEF a2
  <2>12. ASSUME NEW i \in 1..l2, NEW j \in 1..l2, i <= j PROVE p2(j) - p2(i) >= j - i
    <3>1. m[j] - m[i] >= j - i BY <1>1, <2>12
    <3>2. m[i] \in Int /\ m[j] \in Int /\ i \in Int /\ j \in Int
      <4>1. m[j] \in 1..l /\ m[i] \in 1..l BY <2>9
      <4> QED BY <1>2, <4>1
    <3>3. m[i] <= m[j] BY <2>12, <3>1, <3>2
    <3>4. p(m[j]) - p(m[i]) >= m[j] - m[i] BY <1>6, <2>9, <3>3
    <3>5. p(m[i]) \in Int /\ p(m[j]) \in Int BY <1>4, <2>9
    <3>6. p2(i) = p(m[i]) - x /\ p2(j) = p(m[j]) - x BY <2>9
    <3> HIDE DEF d, d2, p, p2, l, l2
    <3> QED BY <2>5, <3>1, <3>2, <3>4, <3>5, <3>6
  <2> QED BY <2>10, <2>11, <2>12 DEF Window
<1> QED BY <1>7, <1>8

(* What fits is numbered on from snd_nxt. *)
LEMMA WindowUpdated ==
  ASSUME NEW t, NEW k \in Blk(t), \A s \in t.kept : s.sn \in Number, Window(k),
         NEW k2 \in Blk(t), NEW n \in Nat,
         n = 0 \/ n <= SndWnd - TimeDiff(k.snd_nxt, k.snd_una),
         k2.snd_una = k.snd_una, k2.snd_nxt = (k.snd_nxt + n) % SnMod,
         Len(k2.snd_buf) = Len(k.snd_buf) + n,
         \A i \in 1..Len(k.snd_buf) : k2.snd_buf[i].sn = k.snd_buf[i].sn,
         \A i \in 1..n : k2.snd_buf[Len(k.snd_buf) + i].sn = (k.snd_nxt + i - 1) % SnMod
  PROVE  Window(k2)
PROOF
<1> DEFINE l == Len(k.snd_buf)  p(i) == Off(k, k.snd_buf[i].sn)  d == Off(k, k.snd_nxt)
           p2(i) == Off(k2, k2.snd_buf[i].sn)  d2 == Off(k2, k2.snd_nxt)
<1>1. /\ k.snd_buf \in Seq(t.kept) /\ l \in Nat /\ k.snd_una \in Number /\ k.snd_nxt \in Number
      /\ k2.snd_buf \in Seq(t.kept)
  BY LenProperties DEF Blk
<1>2. \A i \in 1..l : k.snd_buf[i].sn \in Number BY <1>1, ElementOfSeq
<1>3. \A i \in 1..l : p(i) \in Int /\ p(i) >= 0 BY <1>1, <1>2, OffType
<1>4. d \in Int /\ d >= 0 BY <1>1, OffType
<1>5. /\ d <= SndWnd /\ \A i \in 1..l : d - p(i) >= l + 1 - i
      /\ \A i, j \in 1..l : i <= j => p(j) - p(i) >= j - i
  BY DEF Window
<1>6. d + n <= SndWnd
  <2>1. CASE n = 0 BY <1>4, <1>5, <2>1, ConstantFacts
  <2>2. CASE n <= SndWnd - TimeDiff(k.snd_nxt, k.snd_una)
    <3>1. d = (k.snd_nxt - k.snd_una) % SnMod BY DEF Off
    <3>2. 2 * d < SnMod
      <4> HIDE DEF d
      <4> QED BY <1>4, <1>5, ConstantFacts
    <3>3. TimeDiff(k.snd_nxt, k.snd_una) = d
      <4>1. TimeDiff(k.snd_nxt, k.snd_una) = IF 2 * d < SnMod THEN d ELSE d - SnMod
        BY <3>1 DEF TimeDiff
      <4> HIDE DEF d
      <4> QED BY <3>2, <4>1
    <3> HIDE DEF d
    <3> QED BY <1>4, <2>2, <3>3, ConstantFacts
  <2> QED BY <2>1, <2>2
<1>7. ASSUME NEW i \in 0..n PROVE Off(k, (k.snd_nxt + i) % SnMod) = d + i
  <2> DEFINE u == k.snd_una  v == k.snd_nxt
  <2>1. /\ u \in Int /\ 0 <= u /\ u < SnMod /\ v \in Int /\ 0 <= v /\ v < SnMod
        /\ SnMod \in Nat \ {0}
    BY <1>1, ConstantFacts DEF Number
  <2>2. d = (v - u) % SnMod BY DEF Off
  <2> HIDE DEF d
  <2>3. i \in Int /\ 0 <= i /\ d + i < SnMod BY <1>4, <1>6, ConstantFacts
  <2> HIDE DEF u, v
  <2>4. d = IF v - u < 0 THEN v - u + SnMod ELSE v - u
    <3>1. v - u \in Int /\ -SnMod <= v - u /\ v - u < SnMod BY <2>1
    <3>2. v - u >= 0 => (v - u) % SnMod = v - u BY <3>1, ModLow
    <3>3. v - u < 0 => (v - u) % SnMod = v - u + SnMod BY <3>1, ModNeg
    <3> QED BY <2>2, <3>1, <3>2, <3>3
  <2> DEFINE y == (v + i) % SnMod
  <2>5. y = IF v + i < SnMod THEN v + i ELSE v + i - SnMod
    <3>1. v + i \in Int /\ 0 <= v + i /\ v + i < 2 * SnMod BY <2>1, <2>3, <2>4
    <3>2. v + i < SnMod => y = v + i BY <3>1, ModLow
    <3> DEFINE a == v + i
    <3>4. a \in Int /\ a < 2 * SnMod /\ y = a % SnMod BY <3>1
    <3> HIDE DEF a, y, d
    <3>5. SnMod <= a => y = a - SnMod BY <3>4, ModMid
    <3>3. SnMod <= v + i => y = v + i - SnMod BY <2>1, <2>3, <3>5 DEF a
    <3> QED BY <2>1, <3>1, <3>2, <3>3
  <2> HIDE DEF y
  <2>6. (y - u) % SnMod = IF y - u < 0 THEN y - u + SnMod ELSE y - u
    <3>1. y - u \in Int /\ -SnMod <= y - u /\ y - u < SnMod BY <2>1, <2>3, <2>4, <2>5
    <3>2. y - u >= 0 => (y - u) % SnMod = y - u BY <3>1, ModLow
    <3>3. y - u < 0 => (y - u) % SnMod = y - u + SnMod BY <3>1, ModNeg
    <3> QED BY <3>1, <3>2, <3>3
  <2> DEFINE z == (y - u) % SnMod
  <2>7. z = IF y - u < 0 THEN y - u + SnMod ELSE y - u BY <2>6
  <2> HIDE DEF z
  <2>8. z = d + i BY <2>1, <2>3, <2>4, <2>5, <2>7
  <2>9. z = Off(k, y) BY DEF z, Off, u
  <2> QED BY <2>8, <2>9 DEF y, v
<1>8. \A x : Off(k2, x) = Off(k, x) BY DEF Off
<1>9. d2 = d + n
  <2>1. n \in 0..n OBVIOUS
  <2>2. Off(k, (k.snd_nxt + n) % SnMod) = d + n BY <1>7, <2>1
  <2> QED BY <1>8, <2>2
<1>10. \A i \in 1..l : p2(i) = p(i) BY <1>8
<1>11. ASSUME NEW i \in 1..n PROVE p2(l + i) = d + i - 1
  <2>1. i - 1 \in 0..n /\ (k.snd_nxt + i) - 1 = k.snd_nxt + (i - 1)
    BY <1>1, ConstantFacts DEF Number
  <2>2. k2.snd_buf[l + i].sn = (k.snd_nxt + (i - 1)) % SnMod
    <3>1. k2.snd_buf[l + i].sn = (k.snd_nxt + i - 1) % SnMod OBVIOUS
    <3> QED BY <2>1, <3>1
  <2>3. Off(k, (k.snd_nxt + (i - 1)) % SnMod) = d + (i - 1) BY <1>7, <2>1
  <2>4. p2(l + i) = d + (i - 1) BY <1>8, <2>2, <2>3
  <2>5. i \in Int OBVIOUS
  <2> HIDE DEF d, p2
  <2> QED BY <1>4, <2>4, <2>5
<1>12. Based(k2)
  <2>1. CASE l = 0 /\ n = 0
    <3>1. k2.snd_buf = <<>> /\ k.snd_buf = <<>> BY <1>1, <2>1, EmptySeq
    <3>2. k2.snd_nxt = k.snd_nxt
      <4>1. k.snd_nxt \in Int /\ 0 <= k.snd_nxt /\ k.snd_nxt < SnMod /\ k.snd_nxt + 0 = k.snd_nxt
        BY <1>1, ConstantFacts DEF Number
      <4>2. k.snd_nxt % SnMod = k.snd_nxt BY <4>1, ModLow
      <4>3. k2.snd_nxt = (k.snd_nxt + 0) % SnMod BY <2>1
      <4> QED BY <4>1, <4>2, <4>3
    <3> QED BY <3>1, <3>2 DEF Window, Based
  <2>2. CASE l = 0 /\ n # 0
    <3>1. k2.snd_buf # <<>> /\ k.snd_buf = <<>> BY <1>1, <2>2, EmptySeq
    <3>2. k2.snd_buf[0 + 1].sn = (k.snd_nxt + 1 - 1) % SnMod
      <4>1. 1 \in 1..n BY <2>2
      <4> QED BY <2>2, <4>1
    <3>3. k.snd_nxt \in Int /\ 0 <= k.snd_nxt /\ k.snd_nxt < SnMod /\ k.snd_nxt + 1 - 1 = k.snd_nxt
      BY <1>1, ConstantFacts DEF Number
    <3>4. k.snd_nxt % SnMod = k.snd_nxt BY <3>3, ModLow
    <3>5. k.snd_una = k.snd_nxt BY <3>1 DEF Window, Based
    <3>6. k2.snd_buf[1].sn = k.snd_nxt BY <3>2, <3>3, <3>4
    <3> QED BY <3>1, <3>5, <3>6 DEF Based
  <2>3. CASE l # 0
    <3>1. 1 \in 1..l /\ Len(k2.snd_buf) # 0 BY <1>1, <2>3
    <3>2. k2.snd_buf # <<>> /\ k.snd_buf # <<>> BY <1>1, <2>3, <3>1, EmptySeq
    <3>3. k2.snd_buf[1].sn = k.snd_buf[1].sn BY <3>1
    <3> QED BY <3>2, <3>3 DEF Window, Based
  <2> QED BY <2>1, <2>2, <2>3
<1>13. \A i \in 1..(l + n) : i \in 1..l \/ \E x \in 1..n : i = l + x
  <2>1. SUFFICES ASSUME NEW i \in 1..(l + n), ~(i \in 1..l) PROVE \E x \in 1..n : i = l + x
    OBVIOUS
  <2>2. i - l \in 1..n /\ i = l + (i - l) BY <1>1, <2>1
  <2> QED BY <2>2
<1>14. \A i \in 1..(l + n) : \/ i \in 1..l /\ p2(i) = p(i)
                             \/ i - l \in 1..n /\ p2(i) = d + (i - l) - 1
  <2>1. SUFFICES ASSUME NEW i \in 1..(l + n), ~(i \in 1..l)
                 PROVE  i - l \in 1..n /\ p2(i) = d + (i - l) - 1
    BY <1>10
  <2>2. PICK x \in 1..n : i = l + x BY <1>13, <2>1
  <2>3. i - l = x BY <1>1, <2>2
  <2>4. p2(l + x) = d + x - 1 BY <1>11
  <2> HIDE DEF p2, d
  <2> QED BY <2>2, <2>3, <2>4
<1>15. ASSUME NEW i \in 1..(l + n) PROVE d2 - p2(i) >= (l + n) + 1 - i
  <2>1. CASE i \in 1..l /\ p2(i) = p(i)
    <3>1. d - p(i) >= l + 1 - i /\ p(i) \in Int BY <1>3, <1>5, <2>1
    <3>2. p2(i) = p(i) BY <2>1
    <3> HIDE DEF d, d2, p, p2, l
    <3> QED BY <1>1, <1>4, <1>9, <3>1, <3>2
  <2>2. CASE i - l \in 1..n /\ p2(i) = d + (i - l) - 1
    <3>1. p2(i) = d + (i - l) - 1 BY <2>2
    <3> HIDE DEF d, d2, p2, l
    <3> QED BY <1>1, <1>4, <1>9, <3>1
  <2> QED BY <1>14, <2>1, <2>2
<1>16. ASSUME NEW i \in 1..(l + n), NEW j \in 1..(l + n), i <= j PROVE p2(j) - p2(i) >= j - i
  <2>1. CASE i \in 1..l /\ p2(i) = p(i) /\ j \in 1..l /\ p2(j) = p(j)
    <3>1. p(j) - p(i) >= j - i BY <1>5, <1>16, <2>1
    <3> HIDE DEF p, p2
    <3> QED BY <2>1, <3>1
  <2>2. CASE i \in 1..l /\ p2(i) = p(i) /\ j - l \in 1..n /\ p2(j) = d + (j - l) - 1
    <3>1. d - p(i) >= l + 1 - i /\ p(i) \in Int BY <1>3, <1>5, <2>2
    <3>2. p2(i) = p(i) /\ p2(j) = d + (j - l) - 1 BY <2>2
    <3> HIDE DEF d, p, p2, l
    <3> QED BY <1>1, <1>4, <3>1, <3>2
  <2>3. CASE i - l \in 1..n /\ p2(i) = d + (i - l) - 1 /\ j - l \in 1..n /\ p2(j) = d + (j - l) - 1
    <3>1. p2(i) = d + (i - l) - 1 /\ p2(j) = d + (j - l) - 1 BY <2>3
    <3> HIDE DEF d, p2, l
    <3> QED BY <1>1, <1>4, <3>1
  <2>4. CASE i - l \in 1..n /\ j \in 1..l
    <3> HIDE DEF l
    <3> QED BY <1>1, <1>16, <2>4
  <2> QED BY <1>14, <2>1, <2>2, <2>3, <2>4
<1>17. d2 <= SndWnd BY <1>6, <1>9
<1>18. Len(k2.snd_buf) = l + n OBVIOUS
<1> QED BY <1>12, <1>15, <1>16, <1>17, <1>18 DEF Window

(* The window of a new block is empty. *)
LEMMA WindowConstruct == ASSUME NEW s \in Number PROVE Window(Construct(s))
PROOF
<1>1. /\ Construct(s).snd_una = s /\ Construct(s).snd_nxt = s /\ Construct(s).snd_buf = <<>>
  BY DEF Construct
<1>2. Off(Construct(s), s) = 0 BY <1>1, OffSelf
<1>3. 0 <= SndWnd BY ConstantFacts
<1>4. Len(<<>>) = 0 /\ \A i \in 1..0 : FALSE OBVIOUS
<1> QED BY <1>1, <1>2, <1>3, <1>4 DEF Window, Based

-----------------------------------------------------------------------------
(* The type invariant.                                                      *)

(* There are two ends, each the other's. *)
LEMMA FarFacts ==
  ASSUME NEW e \in Ends
  PROVE  /\ Far(e) \in Ends /\ Far(e) # e /\ Far(Far(e)) = e
         /\ \A f \in Ends : f = e \/ f = Far(e)
PROOF BY DEF Ends, Far

Plain(e) ==
  [queued |-> Seg(Unit(e)), kept |-> Kept(Unit(e)), early |-> Seg(Unit(Far(e))),
   ready |-> Seg(Unit(Far(e))), acks |-> Number, out |-> Seg(Unit(e))]

BlockOK(e, k) == k \in Blk(Plain(e)) /\ Len(k.rcv_queue) <= RcvWnd /\ Window(k)

BlocksOK == DOMAIN kcp = Ends /\ \A e \in Ends : BlockOK(e, kcp[e])
NetOK == DOMAIN net = Ends /\ \A e \in Ends : net[e] \in Seq(Seg(Unit(Far(e))))
ReadOK == /\ DOMAIN kbuf = Ends /\ DOMAIN got = Ends
          /\ \A e \in Ends : kbuf[e] \in Seq(Unit(Far(e))) /\ got[e] \in Seq(Unit(Far(e)))
WriteOK == sent \in [Ends -> Nat] /\ todo \in [Ends -> Seq(1..(WndRcv - 1))]
LifeOK == /\ life \in [Ends -> Life]
          /\ reader \in [Ends -> {"run", "wait", "eof", "reset"}]
          /\ handle \in [Ends -> {"none", "open", "closing", "closed"}]
          /\ faults \in 0..MaxFaults
Typed == BlocksOK /\ NetOK /\ ReadOK /\ WriteOK /\ LifeOK

(* The sets a block of end e draws from. *)
LEMMA PlainFacts ==
  ASSUME NEW e
  PROVE  /\ Plain(e).queued = Seg(Unit(e)) /\ Plain(e).kept = Kept(Unit(e))
         /\ Plain(e).early = Seg(Unit(Far(e))) /\ Plain(e).ready = Seg(Unit(Far(e)))
         /\ Plain(e).acks = Number /\ Plain(e).out = Seg(Unit(e))
         /\ Plain(e).early \subseteq Plain(e).ready
         /\ \A s \in Plain(e).kept : s.sn \in Number
PROOF
<1>1. /\ Plain(e).queued = Seg(Unit(e)) /\ Plain(e).kept = Kept(Unit(e))
      /\ Plain(e).early = Seg(Unit(Far(e))) /\ Plain(e).ready = Seg(Unit(Far(e)))
      /\ Plain(e).acks = Number /\ Plain(e).out = Seg(Unit(e))
  BY DEF Plain
<1>2. \A s \in Kept(Unit(e)) : s.sn \in Number BY DEF Kept
<1> QED BY <1>1, <1>2

(* What a block may write is typed. *)
LEMMA BareType ==
  ASSUME NEW U, NEW cmd \in Cmd PROVE Bare(cmd) \in Seg(U)
PROOF
<1>1. 0 \in Number /\ 0 \in 0..(WndRcv - 1) /\ 0 \in 0..RcvWnd BY ConstantFacts DEF Number
<1>2. <<>> \in Datum(U) BY DEF Datum
<1> QED BY <1>1, <1>2 DEF Bare, Seg

(* An answer is typed, and says what it was made from. *)
LEMMA AnswerType ==
  ASSUME NEW t, NEW k \in Blk(t), NEW U, NEW cmd \in Cmd, NEW sn \in Number
  PROVE  /\ Answer(k, cmd, sn) \in Seg(U) /\ Answer(k, cmd, sn).cmd = cmd
         /\ Answer(k, cmd, sn).sn = sn /\ Answer(k, cmd, sn).una = k.rcv_nxt
PROOF
<1>1. Bare(cmd) \in Seg(U) BY BareType
<1>2. k.rcv_queue \in Seq(t.ready) /\ k.rcv_nxt \in Number BY DEF Blk
<1>3. Len(k.rcv_queue) \in Nat BY <1>2, LenProperties
<1>4. WndUnused(k) \in 0..RcvWnd BY <1>3, ConstantFacts DEF WndUnused
<1>5. Bare(cmd).cmd = cmd BY DEF Bare
<1> DEFINE w == WndUnused(k)  u == k.rcv_nxt
<1>6. Answer(k, cmd, sn) = [Bare(cmd) EXCEPT !.wnd = w, !.una = u, !.sn = sn] BY DEF Answer
<1>7. w \in 0..RcvWnd /\ u \in Number BY <1>2, <1>4
<1> HIDE DEF w, u
<1>8. /\ Answer(k, cmd, sn) \in Seg(U) /\ Answer(k, cmd, sn).cmd = Bare(cmd).cmd
      /\ Answer(k, cmd, sn).sn = sn /\ Answer(k, cmd, sn).una = u
  BY <1>1, <1>6, <1>7 DEF Seg
<1> QED BY <1>5, <1>8 DEF u

(* A segment on the wire is typed, and carries the number and the data of the *)
(* one that is kept.                                                          *)
LEMMA OnWireType ==
  ASSUME NEW t, NEW k \in Blk(t), NEW U, NEW s \in Kept(U)
  PROVE  /\ OnWire(k, s) \in Seg(U) /\ OnWire(k, s).cmd = "PUSH" /\ OnWire(k, s).sn = s.sn
         /\ OnWire(k, s).data = s.data /\ OnWire(k, s).una = k.rcv_nxt
PROOF
<1>1. s.sn \in Number /\ s.data \in Datum(U) /\ s.frg \in 0..(WndRcv - 1) BY DEF Kept
<1>2. "PUSH" \in Cmd BY DEF Cmd
<1>3. /\ Answer(k, "PUSH", s.sn) \in Seg(U) /\ Answer(k, "PUSH", s.sn).cmd = "PUSH"
      /\ Answer(k, "PUSH", s.sn).sn = s.sn /\ Answer(k, "PUSH", s.sn).una = k.rcv_nxt
  BY <1>1, <1>2, AnswerType, SMTT(20)
<1> QED BY <1>1, <1>3 DEF OnWire, Seg

(* A segment taken from snd_queue is one that may be kept. *)
LEMMA SendingType ==
  ASSUME NEW t, NEW k \in Blk(t), NEW U, t.queued \subseteq Seg(U), NEW n, n = Fitting(k)
  PROVE  \A i \in 1..n : Sending(k, i) \in Kept(U)
PROOF
<1>1. n \in 0..Len(k.snd_queue) BY FillWindowEffect
<1>2. k.snd_queue \in Seq(t.queued) /\ k.snd_nxt \in Int /\ Len(k.snd_queue) \in Nat
  BY LenProperties, ConstantFacts DEF Blk, Number
<1>3. ASSUME NEW i \in 1..n PROVE Sending(k, i) \in Kept(U)
  <2>1. i \in 1..Len(k.snd_queue) /\ i \in Int BY <1>1, <1>2
  <2>2. k.snd_queue[i] \in t.queued BY <1>2, <2>1, ElementOfSeq
  <2>3. k.snd_queue[i] \in Seg(U) BY <2>2
  <2>4. k.snd_queue[i].frg \in 0..(WndRcv - 1) /\ k.snd_queue[i].data \in Datum(U)
    BY <2>3 DEF Seg
  <2>5. (k.snd_nxt + i - 1) % SnMod \in Number BY <1>2, <2>1, ModRange
  <2> QED BY <2>4, <2>5 DEF Sending, Kept
<1> QED BY <1>3

(* What a well formed block writes is typed. *)
LEMMA PlainWritable ==
  ASSUME NEW e, NEW k \in Blk(Plain(e)) PROVE Writable(Plain(e), k, Unit(e))
PROOF
<1>1. \A s \in Kept(Unit(e)) : [s EXCEPT !.xmit = @ + 1] \in Kept(Unit(e))
  BY DEF Kept
<1>2. \A s \in Kept(Unit(e)) : OnWire(k, s) \in Seg(Unit(e)) BY OnWireType
<1>3. "ACK" \in Cmd /\ "WASK" \in Cmd /\ "WINS" \in Cmd /\ 0 \in Number
  BY ConstantFacts DEF Cmd, Number
<1>4. \A x \in Number : Answer(k, "ACK", x) \in Seg(Unit(e)) BY <1>3, AnswerType
<1>5. Answer(k, "WASK", 0) \in Seg(Unit(e)) /\ Answer(k, "WINS", 0) \in Seg(Unit(e))
  BY <1>3, AnswerType
<1> QED BY <1>1, <1>2, <1>4, <1>5, PlainFacts DEF Writable

(* The queue of the reader never grows past its window. *)
LEMMA MovedBounded ==
  ASSUME NEW t, NEW k \in Blk(t), t.early \subseteq t.ready, NEW k2, NEW n, Moved(k, k2, n),
         Len(k.rcv_queue) <= RcvWnd
  PROVE  Len(k2.rcv_queue) <= RcvWnd
PROOF
<1>1. /\ k.rcv_queue \in Seq(t.ready) /\ k.rcv_buf \in Seq(t.early) /\ Len(k.rcv_queue) \in Nat
      /\ Len(k.rcv_buf) \in Nat
  BY LenProperties DEF Blk
<1>2. n \in 0..Len(k.rcv_buf) BY DEF Moved
<1> DEFINE m == SubSeq(k.rcv_buf, 1, n)
<1>3. m \in Seq(t.early) /\ Len(m) = n BY <1>1, <1>2, PrefixFacts
<1>4. k2.rcv_queue = k.rcv_queue \o m BY DEF Moved
<1> HIDE DEF m
<1>5. m \in Seq(t.ready) BY <1>3, SeqMonotonic
<1>6. Len(k2.rcv_queue) = Len(k.rcv_queue) + n
  <2>1. k.rcv_queue \in Seq(t.ready) /\ m \in Seq(t.ready) BY <1>1, <1>5
  <2>2. Joined(k.rcv_queue, m, k2.rcv_queue) BY <1>4, <2>1, JoinedFacts
  <2> QED BY <1>3, <2>2 DEF Joined
<1>7. CASE n = 0 BY <1>1, <1>6, <1>7
<1>8. CASE n # 0
  <2>1. n \in 1..n BY <1>1, <1>2, <1>8
  <2>2. Len(k.rcv_queue) + n - 1 < RcvWnd BY <2>1 DEF Moved
  <2>3. n \in Nat BY <1>1, <1>2
  <2> QED BY <1>1, <1>6, <2>2, <2>3, ConstantFacts
<1> QED BY <1>7, <1>8

(* Input, update, send, recv and the closes keep a block well formed. *)
LEMMA InputOK ==
  ASSUME NEW e \in Ends, NEW k, BlockOK(e, k), NEW p \in Seg(Unit(Far(e))), NEW k2, k2 = Input(k, p)
  PROVE  BlockOK(e, k2) /\ Taken(Plain(e), k, p, k2)
PROOF
<1>1. k \in Blk(Plain(e)) /\ Len(k.rcv_queue) <= RcvWnd /\ Window(k) BY DEF BlockOK
<1>2. p.wnd \in 0..RcvWnd /\ p.cmd \in Cmd /\ p.sn \in Number BY DEF Seg
<1>3. Taken(Plain(e), k, p, k2)
  <2>1. /\ \A s \in Plain(e).kept : s.sn \in Number
        /\ Plain(e).early \subseteq Plain(e).ready
        /\ p.cmd = "PUSH" => p \in Plain(e).early /\ p.sn \in Plain(e).acks /\ p.sn \in Number
    BY <1>2, PlainFacts
  <2> QED BY <1>1, <1>2, <2>1, InputEffect
<1>4. /\ k2 \in Blk(Plain(e)) /\ Based(k2) /\ Thinned(k.snd_buf, k2.snd_buf)
      /\ k2.snd_nxt = k.snd_nxt
  BY <1>3 DEF Taken, OnlyAcked
<1>5. Window(k2)
  <2>1. \A s \in Plain(e).kept : s.sn \in Number BY PlainFacts
  <2> QED BY <1>1, <1>4, <2>1, WindowThinned
<1>6. Len(k2.rcv_queue) <= RcvWnd
  <2>1. CASE SameReceiver(k, k2) \/ Late(k, p, k2) BY <1>1, <2>1 DEF SameReceiver, Late
  <2>2. CASE Arrived(Plain(e), k, p, k2)
    <3>1. PICK k1 \in Blk(Plain(e)), n \in Nat : Placed(k, k1, p) /\ Moved(k1, k2, n)
      BY <2>2 DEF Arrived
    <3>2. Len(k1.rcv_queue) <= RcvWnd BY <1>1, <3>1 DEF Placed
    <3>3. Plain(e).early \subseteq Plain(e).ready BY PlainFacts
    <3> QED BY <3>1, <3>2, <3>3, MovedBounded
  <2> QED BY <1>3, <2>1, <2>2 DEF Taken, Received
<1> QED BY <1>3, <1>4, <1>5, <1>6 DEF BlockOK

(* update keeps a block well formed. *)
LEMMA UpdateOK ==
  ASSUME NEW e \in Ends, NEW k, BlockOK(e, k), NEW flushes \in BOOLEAN, NEW late,
         NEW w, w = Update(k, flushes, late)
  PROVE  /\ BlockOK(e, w.k) /\ w.out \in Seq(Seg(Unit(e)))
         /\ \E n \in Nat : Updated(Plain(e), k, n, w)
PROOF
<1>1. k \in Blk(Plain(e)) /\ Len(k.rcv_queue) <= RcvWnd /\ Window(k) BY DEF BlockOK
<1> DEFINE n == IF flushes THEN Fitting(k) ELSE 0
<1>n. n = (IF flushes THEN Fitting(k) ELSE 0) OBVIOUS
<1> HIDE DEF n
<1>2. \A i \in 1..n : Sending(k, i) \in Plain(e).kept
  <2>1. CASE flushes
    <3>1. Plain(e).queued \subseteq Seg(Unit(e)) /\ n = Fitting(k) BY <1>n, <2>1, PlainFacts
    <3>2. \A i \in 1..n : Sending(k, i) \in Kept(Unit(e)) BY <1>1, <3>1, SendingType
    <3> QED BY <3>2, PlainFacts
  <2>2. CASE ~flushes
    <3>1. n = 0 BY <1>n, <2>2
    <3> QED BY <3>1
  <2> QED BY <2>1, <2>2
<1>3. Bare("CLS") \in Plain(e).out /\ Bare("CLS") \in Plain(e).queued
  <2>1. "CLS" \in Cmd BY DEF Cmd
  <2>2. Bare("CLS") \in Seg(Unit(e)) BY <2>1, BareType
  <2> QED BY <2>2, PlainFacts
<1>4. Updated(Plain(e), k, n, w)
  <2>1. Writable(Plain(e), k, Unit(e)) BY <1>1, PlainWritable
  <2>2. k.close_state # "no" => Bare("CLS") \in Plain(e).out /\ Bare("CLS") \in Plain(e).queued
    BY <1>3
  <2> QED BY <1>1, <1>2, <1>n, <2>1, <2>2, UpdateEffect
<1>5. n \in Nat
  <2>1. n \in 0..Len(k.snd_queue) BY <1>4 DEF Updated
  <2>2. k.snd_queue \in Seq(Plain(e).queued) BY <1>1 DEF Blk
  <2> QED BY <2>1, <2>2, LenProperties
<1>6. w.k \in Blk(Plain(e)) /\ w.out \in Seq(Seg(Unit(e)))
  BY <1>4, PlainFacts DEF Updated
<1>7. Window(w.k)
  <2>1. \A i \in 1..n : w.k.snd_buf[Len(k.snd_buf) + i].sn = (k.snd_nxt + i - 1) % SnMod
    BY <1>4 DEF Updated, Sending
  <2>2. /\ n = 0 \/ n <= SndWnd - TimeDiff(k.snd_nxt, k.snd_una)
        /\ w.k.snd_una = k.snd_una /\ w.k.snd_nxt = (k.snd_nxt + n) % SnMod
        /\ Len(w.k.snd_buf) = Len(k.snd_buf) + n
        /\ \A i \in 1..Len(k.snd_buf) : w.k.snd_buf[i].sn = k.snd_buf[i].sn
    BY <1>4 DEF Updated
  <2>3. \A s \in Plain(e).kept : s.sn \in Number BY PlainFacts
  <2>4. k \in Blk(Plain(e)) /\ Window(k) /\ w.k \in Blk(Plain(e)) BY <1>1, <1>6
  <2> QED BY <1>5, <2>1, <2>2, <2>3, <2>4, WindowUpdated
<1>8. Len(w.k.rcv_queue) <= RcvWnd BY <1>1, <1>4 DEF Updated
<1> QED BY <1>4, <1>5, <1>6, <1>7, <1>8 DEF BlockOK

(* flush keeps a block well formed. *)
LEMMA FlushOK ==
  ASSUME NEW e \in Ends, NEW k, BlockOK(e, k), NEW late, NEW w, w = Flush(k, late)
  PROVE  /\ BlockOK(e, w.k) /\ \E n \in Nat : Flushed(Plain(e), k, n, w)
PROOF
<1>1. k \in Blk(Plain(e)) /\ Len(k.rcv_queue) <= RcvWnd /\ Window(k) BY DEF BlockOK
<1> DEFINE n == Fitting(k)
<1>n. n = Fitting(k) OBVIOUS
<1> HIDE DEF n
<1>2. \A i \in 1..n : Sending(k, i) \in Plain(e).kept
  <2>1. Plain(e).queued \subseteq Seg(Unit(e)) BY PlainFacts
  <2>2. \A i \in 1..n : Sending(k, i) \in Kept(Unit(e)) BY <1>1, <1>n, <2>1, SendingType
  <2> QED BY <2>2, PlainFacts
<1>3. Flushed(Plain(e), k, n, w)
  <2>1. Writable(Plain(e), k, Unit(e)) BY <1>1, PlainWritable
  <2> QED BY <1>1, <1>2, <1>n, <2>1, FlushEffect
<1>4. n \in Nat
  <2>1. n \in 0..Len(k.snd_queue) BY <1>3 DEF Flushed
  <2>2. k.snd_queue \in Seq(Plain(e).queued) BY <1>1 DEF Blk
  <2> QED BY <2>1, <2>2, LenProperties
<1>5. w.k \in Blk(Plain(e)) BY <1>3 DEF Flushed
<1>6. Window(w.k)
  <2>1. \A i \in 1..n : w.k.snd_buf[Len(k.snd_buf) + i].sn = (k.snd_nxt + i - 1) % SnMod
    BY <1>3 DEF Flushed, Sending
  <2>2. /\ n = 0 \/ n <= SndWnd - TimeDiff(k.snd_nxt, k.snd_una)
        /\ w.k.snd_una = k.snd_una /\ w.k.snd_nxt = (k.snd_nxt + n) % SnMod
        /\ Len(w.k.snd_buf) = Len(k.snd_buf) + n
        /\ \A i \in 1..Len(k.snd_buf) : w.k.snd_buf[i].sn = k.snd_buf[i].sn
    BY <1>3 DEF Flushed
  <2>3. \A s \in Plain(e).kept : s.sn \in Number BY PlainFacts
  <2>4. k \in Blk(Plain(e)) /\ Window(k) /\ w.k \in Blk(Plain(e)) BY <1>1, <1>5
  <2> QED BY <1>4, <2>1, <2>2, <2>3, <2>4, WindowUpdated
<1>7. Len(w.k.rcv_queue) <= RcvWnd BY <1>1, <1>3 DEF Flushed
<1> QED BY <1>3, <1>4, <1>5, <1>6, <1>7 DEF BlockOK

(* recv keeps a block well formed, and takes the message at the front. *)
LEMMA RecvOK ==
  ASSUME NEW e \in Ends, NEW k, BlockOK(e, k), k.rcv_queue # <<>>, NEW k2, k2 = Recv(k)
  PROVE  /\ BlockOK(e, k2)
         /\ \E x \in 1..Len(k.rcv_queue) :
              FrontMessage(k) = SubSeq(k.rcv_queue, 1, x) /\ Fetched(Plain(e), k, x, k2)
PROOF
<1>1. k \in Blk(Plain(e)) /\ Len(k.rcv_queue) <= RcvWnd /\ Window(k) BY DEF BlockOK
<1>2. Plain(e).early \subseteq Plain(e).ready BY PlainFacts
<1>3. PICK x \in 1..Len(k.rcv_queue) :
        FrontMessage(k) = SubSeq(k.rcv_queue, 1, x) /\ Fetched(Plain(e), k, x, k2)
  BY <1>1, <1>2, RecvEffect
<1>4. PICK k1 \in Blk(Plain(e)), n \in Nat :
        /\ k1.rcv_queue = SubSeq(k.rcv_queue, x + 1, Len(k.rcv_queue))
        /\ Moved(k1, k2, n)
  BY <1>3 DEF Fetched
<1>5. k.rcv_queue \in Seq(Plain(e).ready) /\ Len(k.rcv_queue) \in Nat BY <1>1, LenProperties DEF Blk
<1>6. Len(k1.rcv_queue) = Len(k.rcv_queue) - x
  <2>1. x \in 0..Len(k.rcv_queue) BY <1>5
  <2> QED BY <1>4, <1>5, <2>1, SuffixFacts
<1>7. Len(k1.rcv_queue) <= RcvWnd BY <1>1, <1>5, <1>6, ConstantFacts
<1>8. Len(k2.rcv_queue) <= RcvWnd BY <1>2, <1>4, <1>7, MovedBounded
<1>9. k2 \in Blk(Plain(e)) /\ SameSender(k, k2) BY <1>3 DEF Fetched
<1>10. Window(k2) BY <1>1, <1>9, WindowSame
<1> QED BY <1>3, <1>8, <1>9, <1>10 DEF BlockOK

(* A close keeps a block well formed. *)
LEMMA ClosedOK ==
  ASSUME NEW e, NEW k, BlockOK(e, k), NEW k2, k2 \in Blk(Plain(e)), SameSender(k, k2),
         SameReceiver(k, k2)
  PROVE  BlockOK(e, k2)
PROOF
<1>1. Window(k2) BY WindowSame DEF BlockOK
<1> QED BY <1>1 DEF BlockOK, SameReceiver

(* While nothing is written, the sets that type blocks stay. *)
LEMMA PlainSame ==
  ASSUME UNCHANGED sent PROVE \A e : Plain(e)' = Plain(e) /\ Unit(e)' = Unit(e)
PROOF BY DEF Plain, Unit

(* One block is replaced by another that is well formed. *)
LEMMA BlocksStep ==
  ASSUME BlocksOK, NEW e \in Ends, NEW b, BlockOK(e, b), kcp' = [kcp EXCEPT ![e] = b],
         UNCHANGED sent
  PROVE  BlocksOK'
PROOF
<1>1. DOMAIN kcp' = Ends BY DEF BlocksOK
<1>2. ASSUME NEW f \in Ends PROVE BlockOK(f, kcp[f])'
  <2>1. kcp'[f] = IF f = e THEN b ELSE kcp[f] BY DEF BlocksOK
  <2>2. BlockOK(f, kcp'[f])
    <3>1. BlockOK(f, kcp[f]) BY DEF BlocksOK
    <3> QED BY <2>1, <3>1
  <2> QED BY <2>2, PlainSame DEF BlockOK
<1> QED BY <1>1, <1>2 DEF BlocksOK

(* No block changes. *)
LEMMA BlocksSame ==
  ASSUME BlocksOK, UNCHANGED <<kcp, sent>> PROVE BlocksOK'
PROOF BY PlainSame DEF BlocksOK, BlockOK

(* Nothing is sent. *)
LEMMA NetSame == ASSUME NetOK, UNCHANGED <<net, sent>> PROVE NetOK'
PROOF BY PlainSame DEF NetOK

(* Nothing is read. *)
LEMMA ReadSame == ASSUME ReadOK, UNCHANGED <<kbuf, got, sent>> PROVE ReadOK'
PROOF BY PlainSame DEF ReadOK

(* What is under way to one end is replaced. *)
LEMMA NetStep ==
  ASSUME NetOK, NEW f \in Ends, NEW s, s \in Seq(Seg(Unit(Far(f)))),
         net' = [net EXCEPT ![f] = s], UNCHANGED sent
  PROVE  NetOK'
PROOF
<1>1. DOMAIN net' = Ends BY DEF NetOK
<1>2. ASSUME NEW g \in Ends PROVE net'[g] \in Seq(Seg(Unit(Far(g))))
  <2>1. net'[g] = IF g = f THEN s ELSE net[g] BY DEF NetOK
  <2> QED BY <2>1 DEF NetOK
<1> QED BY <1>1, <1>2, PlainSame DEF NetOK

(* More units, more segments. *)
LEMMA SegGrows ==
  ASSUME NEW m \in Nat, NEW n \in Nat, m <= n
  PROVE  1..m \subseteq 1..n /\ Seg(1..m) \subseteq Seg(1..n) /\ Kept(1..m) \subseteq Kept(1..n)
PROOF
<1>1. 1..m \subseteq 1..n OBVIOUS
<1> DEFINE U == 1..m  V == 1..n
<1>2. U \subseteq V BY <1>1
<1> HIDE DEF U, V
<1>3. Datum(U) \subseteq Datum(V) BY <1>2 DEF Datum
<1>4. Seg(U) \subseteq Seg(V) BY <1>3 DEF Seg
<1>5. Kept(U) \subseteq Kept(V) BY <1>3 DEF Kept
<1> QED BY <1>1, <1>4, <1>5 DEF U, V

(* The initial states are typed. *)
LEMMA TypedInit == ASSUME Init PROVE Typed
PROOF
<1>1. \A e \in Ends : Construct(Start) \in Blk(Plain(e)) BY ConstructType, ConstantFacts
<1>2. Window(Construct(Start)) /\ Construct(Start).rcv_queue = <<>>
  BY WindowConstruct, ConstantFacts DEF Construct
<1>3. Len(Construct(Start).rcv_queue) <= RcvWnd BY <1>2, ConstantFacts
<1>4. BlocksOK BY <1>1, <1>2, <1>3 DEF Init, BlocksOK, BlockOK
<1>5. NetOK BY EmptySeq DEF Init, NetOK
<1>6. ReadOK BY EmptySeq DEF Init, ReadOK
<1>7. WriteOK BY LinkAssumption DEF Init, WriteOK
<1>8. LifeOK BY LinkAssumption DEF Init, LifeOK, Life
<1> QED BY <1>4, <1>5, <1>6, <1>7, <1>8 DEF Typed

(* What may be queued of the message that is written next. *)
LEMMA PieceType ==
  ASSUME NEW m \in Nat, NEW n \in 1..(WndRcv - 1)
  PROVE  \A i \in 1..n : Piece(n, i, m) \in Seg(1..(m + n))
PROOF
<1>1. ASSUME NEW i \in 1..n PROVE Piece(n, i, m) \in Seg(1..(m + n))
  <2>1. "PUSH" \in Cmd BY DEF Cmd
  <2>2. Bare("PUSH") \in Seg(1..(m + n)) BY <2>1, BareType
  <2>3. n \in Nat /\ n <= WndRcv - 1 /\ i \in Nat /\ i >= 1 /\ i <= n BY ConstantFacts
  <2>4. n - i \in 0..(WndRcv - 1) BY <2>3, ConstantFacts
  <2>5. m + i \in 1..(m + n) BY <2>3
  <2> DEFINE U == 1..(m + n)
  <2>6. m + i \in U /\ Bare("PUSH") \in Seg(U) BY <2>2, <2>5
  <2> HIDE DEF U
  <2>7. <<m + i>> \in Datum(U) BY <2>6 DEF Datum
  <2>8. Piece(n, i, m) \in Seg(U) BY <2>4, <2>6, <2>7 DEF Piece, Seg
  <2> QED BY <2>8 DEF U
<1> QED BY <1>1

(* A write keeps the types: there is one more message in snd_queue, and more *)
(* units that datagrams and readers may hold.                                *)
LEMMA TypedWrite == ASSUME Typed, NEW e \in Ends, Write(e) PROVE Typed'
PROOF
<1>1. Far(e) \in Ends /\ Far(e) # e /\ Far(Far(e)) = e /\ \A f \in Ends : f = e \/ f = Far(e)
  BY FarFacts
<1>2. /\ BlocksOK /\ NetOK /\ ReadOK /\ WriteOK /\ LifeOK
      /\ todo[e] \in Seq(1..(WndRcv - 1)) /\ todo[e] # <<>>
      /\ UNCHANGED <<life, reader, kbuf, handle, got, net, faults>>
  BY DEF Typed, WriteOK, Write
<1>3. LifeOK' BY <1>2 DEF LifeOK
<1>4. CASE kcp[e].close_state # "no"
  <2>1. todo' = [todo EXCEPT ![e] = <<>>] /\ UNCHANGED <<kcp, sent>> BY <1>4 DEF Write
  <2>2. <<>> \in Seq(1..(WndRcv - 1)) BY EmptySeq
  <2>3. WriteOK' BY <1>2, <2>1, <2>2 DEF WriteOK
  <2> QED BY <1>2, <1>3, <2>1, <2>3, BlocksSame, NetSame, ReadSame DEF Typed
<1>5. CASE kcp[e].close_state = "no"
  <2> DEFINE n == Head(todo[e])  m == sent[e]
             k == kcp[e]  k2 == Send(kcp[e], [i \in 1..n |-> m + i])
  <2>1. /\ kcp' = [kcp EXCEPT ![e] = k2] /\ sent' = [sent EXCEPT ![e] = m + n]
        /\ todo' = [todo EXCEPT ![e] = Tail(todo[e])]
    BY <1>5 DEF Write
  <2>2. n \in 1..(WndRcv - 1) /\ Tail(todo[e]) \in Seq(1..(WndRcv - 1))
    BY <1>2, HeadTailProperties
  <2>3. m \in Nat BY <1>2 DEF WriteOK
  <2>4. n \in Nat /\ n >= 1 BY <2>2, ConstantFacts
  <2>5. WriteOK'
    <3>1. m + n \in Nat BY <2>3, <2>4
    <3> HIDE DEF n, m
    <3> QED BY <1>2, <2>1, <2>2, <3>1 DEF WriteOK
  <2>k. k2 = Send(k, [i \in 1..n |-> m + i]) OBVIOUS
  <2>6. sent'[e] = m + n /\ sent'[Far(e)] = sent[Far(e)] BY <1>1, <1>2, <2>1 DEF WriteOK
  <2>7. Unit(e) = 1..m /\ Unit(e)' = 1..(m + n) /\ Unit(Far(e))' = Unit(Far(e))
    BY <2>6 DEF Unit
  <2> HIDE DEF n, m, k2
  <2>8. /\ Unit(e) \subseteq Unit(e)' /\ Seg(Unit(e)) \subseteq Seg(Unit(e)')
        /\ Kept(Unit(e)) \subseteq Kept(Unit(e)')
    <3>1. m + n \in Nat /\ m <= m + n BY <2>3, <2>4
    <3>2. /\ 1..m \subseteq 1..(m + n) /\ Seg(1..m) \subseteq Seg(1..(m + n))
          /\ Kept(1..m) \subseteq Kept(1..(m + n))
      BY <2>3, <3>1, SegGrows
    <3> QED BY <2>7, <3>2
  <2> DEFINE t == [queued |-> Seg(Unit(e)'), kept |-> Kept(Unit(e)'), early |-> Seg(Unit(Far(e))'),
                   ready |-> Seg(Unit(Far(e))'), acks |-> Number, out |-> Seg(Unit(e)')]
             v == [queued |-> Seg(Unit(Far(e))'), kept |-> Kept(Unit(Far(e))'), early |-> Seg(Unit(e)'),
                   ready |-> Seg(Unit(e)'), acks |-> Number, out |-> Seg(Unit(Far(e))')]
  <2>9. Plain(e)' = t /\ Plain(Far(e))' = v BY <1>1 DEF Plain
  <2>10. /\ t.queued = Seg(Unit(e)') /\ t.kept = Kept(Unit(e)') /\ t.early = Seg(Unit(Far(e)))
         /\ t.ready = Seg(Unit(Far(e))) /\ t.acks = Number /\ t.out = Seg(Unit(e)')
         /\ v.queued = Seg(Unit(Far(e))) /\ v.kept = Kept(Unit(Far(e))) /\ v.early = Seg(Unit(e)')
         /\ v.ready = Seg(Unit(e)') /\ v.acks = Number /\ v.out = Seg(Unit(Far(e)))
    BY <2>7
  <2> HIDE DEF t, v
  <2>11. BlockOK(e, k) /\ BlockOK(Far(e), kcp[Far(e)]) BY <1>1, <1>2 DEF BlocksOK
  <2>12. k \in Blk(t)
    <3>1. k \in Blk(Plain(e)) BY <2>11 DEF BlockOK
    <3>2. /\ Plain(e).queued \subseteq t.queued /\ Plain(e).kept \subseteq t.kept
          /\ Plain(e).early \subseteq t.early /\ Plain(e).ready \subseteq t.ready
          /\ Plain(e).acks \subseteq t.acks /\ Plain(e).out \subseteq t.out
      BY <2>8, <2>10, PlainFacts
    <3> HIDE DEF k
    <3> QED BY <3>1, <3>2, BlkGrows
  <2>13. kcp[Far(e)] \in Blk(v)
    <3>1. kcp[Far(e)] \in Blk(Plain(Far(e))) BY <2>11 DEF BlockOK
    <3>2. /\ Plain(Far(e)).queued \subseteq v.queued /\ Plain(Far(e)).kept \subseteq v.kept
          /\ Plain(Far(e)).early \subseteq v.early /\ Plain(Far(e)).ready \subseteq v.ready
          /\ Plain(Far(e)).acks \subseteq v.acks /\ Plain(Far(e)).out \subseteq v.out
      BY <1>1, <2>8, <2>10, PlainFacts
    <3> QED BY <3>1, <3>2, BlkGrows
  <2>14. Queued(t, k, n, m, k2)
    <3>1. \A i \in 1..n : Piece(n, i, m) \in Seg(1..(m + n)) BY <2>2, <2>3, PieceType
    <3>2. \A i \in 1..n : Piece(n, i, m) \in t.queued BY <2>7, <2>10, <3>1
    <3> HIDE DEF k
    <3> QED BY <2>3, <2>4, <2>12, <2>k, <3>2, SendEffect
  <2>15. k2 \in Blk(t) /\ SameReceiver(k, k2) /\ SameSender([k EXCEPT !.snd_queue = k2.snd_queue], k2)
    BY <2>12, <2>14 DEF Queued, SameSender, Blk
  <2>16. Window(k2)
    <3>1. Window(k) BY <2>11 DEF BlockOK
    <3>2. k2.snd_una = k.snd_una /\ k2.snd_nxt = k.snd_nxt /\ k2.snd_buf = k.snd_buf
      BY <2>14 DEF Queued
    <3> QED BY <3>1, <3>2 DEF Window, Off, Based
  <2>17. BlocksOK'
    <3>1. DOMAIN kcp' = Ends /\ kcp'[e] = k2 /\ kcp'[Far(e)] = kcp[Far(e)]
      BY <1>1, <1>2, <2>1 DEF BlocksOK
    <3>2. kcp'[e] \in Blk(Plain(e)') /\ kcp'[Far(e)] \in Blk(Plain(Far(e))')
      BY <2>9, <2>13, <2>15, <3>1
    <3>3. Len(kcp'[e].rcv_queue) <= RcvWnd /\ Len(kcp'[Far(e)].rcv_queue) <= RcvWnd
      BY <2>11, <2>15, <3>1 DEF BlockOK, SameReceiver
    <3>4. Window(kcp'[e]) /\ Window(kcp'[Far(e)]) BY <2>11, <2>16, <3>1 DEF BlockOK
    <3>5. \A f \in Ends : /\ kcp'[f] \in Blk(Plain(f)') /\ Len(kcp'[f].rcv_queue) <= RcvWnd
                          /\ Window(kcp'[f])
      BY <1>1, <3>2, <3>3, <3>4
    <3> QED BY <3>1, <3>5 DEF BlocksOK, BlockOK
  <2>18. NetOK'
    <3>1. net[Far(e)] \in Seq(Seg(Unit(e))) /\ net[e] \in Seq(Seg(Unit(Far(e)))) /\ DOMAIN net = Ends
      BY <1>1, <1>2 DEF NetOK
    <3>2. net[Far(e)] \in Seq(Seg(Unit(e)')) BY <2>8, <3>1, SeqMonotonic
    <3>3. net[e] \in Seq(Seg(Unit(Far(e))')) BY <2>7, <3>1
    <3>4. \A f \in Ends : net[f] \in Seq(Seg(Unit(Far(f))'))
      <4>1. ASSUME NEW f \in Ends PROVE net[f] \in Seq(Seg(Unit(Far(f))'))
        <5>1. CASE f = e BY <3>3, <5>1
        <5>2. CASE f = Far(e)
          <6>1. Unit(Far(f))' = Unit(e)' BY <1>1, <5>2
          <6> QED BY <3>2, <5>2, <6>1
        <5> QED BY <1>1, <5>1, <5>2
      <4> QED BY <4>1
    <3> QED BY <1>2, <3>1, <3>4 DEF NetOK
  <2>19. ReadOK'
    <3>1. /\ kbuf[Far(e)] \in Seq(Unit(e)) /\ kbuf[e] \in Seq(Unit(Far(e)))
          /\ got[Far(e)] \in Seq(Unit(e)) /\ got[e] \in Seq(Unit(Far(e)))
          /\ DOMAIN kbuf = Ends /\ DOMAIN got = Ends
      BY <1>1, <1>2 DEF ReadOK
    <3>2. kbuf[Far(e)] \in Seq(Unit(e)') /\ got[Far(e)] \in Seq(Unit(e)')
      BY <2>8, <3>1, SeqMonotonic
    <3>3. kbuf[e] \in Seq(Unit(Far(e))') /\ got[e] \in Seq(Unit(Far(e))') BY <2>7, <3>1
    <3>4. \A f \in Ends : kbuf[f] \in Seq(Unit(Far(f))') /\ got[f] \in Seq(Unit(Far(f))')
      <4>1. ASSUME NEW f \in Ends
            PROVE  kbuf[f] \in Seq(Unit(Far(f))') /\ got[f] \in Seq(Unit(Far(f))')
        <5>1. CASE f = e BY <3>3, <5>1
        <5>2. CASE f = Far(e)
          <6>1. Unit(Far(f))' = Unit(e)' BY <1>1, <5>2
          <6> QED BY <3>2, <5>2, <6>1
        <5> QED BY <1>1, <5>1, <5>2
      <4> QED BY <4>1
    <3> QED BY <1>2, <3>1, <3>4 DEF ReadOK
  <2> QED BY <1>3, <2>5, <2>17, <2>18, <2>19 DEF Typed
<1> QED BY <1>4, <1>5

(* What a read of at most size units takes of s, and what it leaves. *)
Cut(S, s, size, a, b) ==
  /\ a \in Seq(S) /\ b \in Seq(S) /\ Len(a) + Len(b) = Len(s)
  /\ Len(a) = IF size <= Len(s) THEN size ELSE Len(s)
  /\ \A i \in 1..Len(a) : a[i] = s[i]
  /\ \A i \in 1..Len(b) : b[i] = s[Len(a) + i]

(* The two SubSeqs of poll_read cut the data in two. *)
LEMMA CutFacts ==
  ASSUME NEW S, NEW s \in Seq(S), NEW size \in Nat
  PROVE  Cut(S, s, size, SubSeq(s, 1, Min({size, Len(s)})), SubSeq(s, size + 1, Len(s)))
PROOF
<1> DEFINE m == Min({size, Len(s)})  a == SubSeq(s, 1, m)  b == SubSeq(s, size + 1, Len(s))
           l == Len(s)
<1>1. l \in Nat BY LenProperties
<1>2. m = IF size <= l THEN size ELSE l BY <1>1, MinOfTwo
<1>3. m \in 0..l
  <2> HIDE DEF m, l
  <2> QED BY <1>1, <1>2
<1>4. a \in Seq(S) /\ Len(a) = m /\ \A i \in 1..m : a[i] = s[i]
  <2> HIDE DEF m
  <2> QED BY <1>3, PrefixFacts
<1>5. CASE size <= l
  <2>1. size \in 0..l BY <1>1, <1>5
  <2>2. b \in Seq(S) /\ Len(b) = l - size /\ \A i \in 1..(l - size) : b[i] = s[size + i]
    BY <2>1, SuffixFacts
  <2> HIDE DEF a, b, m
  <2>3. m = size BY <1>2, <1>5
  <2>4. Len(a) + Len(b) = Len(s) BY <1>1, <1>4, <2>2, <2>3
  <2>5. \A i \in 1..Len(b) : b[i] = s[Len(a) + i] BY <1>4, <2>2, <2>3
  <2> QED BY <1>4, <1>5, <2>2, <2>3, <2>4, <2>5 DEF Cut, a, b, m
<1>6. CASE ~(size <= l)
  <2>1. b = <<>> BY <1>1, <1>6
  <2>2. <<>> \in Seq(S) /\ Len(<<>>) = 0 BY EmptySeq
  <2> HIDE DEF a, b, m
  <2>3. m = l BY <1>2, <1>6
  <2>4. b \in Seq(S) /\ Len(b) = 0 BY <2>1, <2>2
  <2>5. Len(a) + Len(b) = Len(s) BY <1>1, <1>4, <2>3, <2>4
  <2>6. \A i \in 1..Len(b) : b[i] = s[Len(a) + i] BY <2>4
  <2> QED BY <1>4, <1>6, <2>3, <2>4, <2>5, <2>6 DEF Cut, a, b, m
<1> QED BY <1>5, <1>6

(* The data of typed segments are units. *)
LEMMA DataType ==
  ASSUME NEW U, NEW segs \in Seq(Seg(U)) PROVE DataOf(segs) \in Seq(U)
PROOF
<1> DEFINE d == [i \in DOMAIN segs |-> segs[i].data]
<1>1. DOMAIN segs = 1..Len(segs) /\ Len(segs) \in Nat BY LenProperties
<1>2. \A i \in 1..Len(segs) : segs[i].data \in Seq(U)
  <2>1. ASSUME NEW i \in 1..Len(segs) PROVE segs[i].data \in Seq(U)
    <3>1. segs[i] \in Seg(U) BY ElementOfSeq
    <3>2. segs[i].data \in Datum(U) BY <3>1 DEF Seg
    <3>3. segs[i].data = <<>> \/ \E u \in U : segs[i].data = <<u>> BY <3>2 DEF Datum
    <3>4. <<>> \in Seq(U) /\ \A u \in U : <<u>> \in Seq(U) BY ShortFacts, EmptySeq
    <3> QED BY <3>3, <3>4
  <2> QED BY <2>1
<1>3. d \in Seq(Seq(U))
  <2> DEFINE elem(i) == segs[i].data
  <2>1. \A i \in 1..Len(segs) : elem(i) \in Seq(U) BY <1>2
  <2>2. d = [i \in 1..Len(segs) |-> elem(i)] BY <1>1
  <2> HIDE DEF elem, d
  <2>3. [i \in 1..Len(segs) |-> elem(i)] \in Seq(Seq(U)) BY <1>1, <2>1, IsASeq
  <2> QED BY <2>2, <2>3
<1> HIDE DEF d
<1>4. FlattenSeq(d) \in Seq(U) BY <1>3, FlattenType
<1> QED BY <1>4 DEF DataOf, d

(* What one end has read is replaced. *)
LEMMA ReadStep ==
  ASSUME ReadOK, NEW e \in Ends, NEW a \in Seq(Unit(Far(e))), NEW b \in Seq(Unit(Far(e))),
         got' = [got EXCEPT ![e] = a], kbuf' = [kbuf EXCEPT ![e] = b], UNCHANGED sent
  PROVE  ReadOK'
PROOF
<1>1. DOMAIN kbuf' = Ends /\ DOMAIN got' = Ends BY DEF ReadOK
<1>2. ASSUME NEW f \in Ends
      PROVE  kbuf'[f] \in Seq(Unit(Far(f))) /\ got'[f] \in Seq(Unit(Far(f)))
  <2>1. /\ kbuf'[f] = IF f = e THEN b ELSE kbuf[f]
        /\ got'[f] = IF f = e THEN a ELSE got[f]
    BY DEF ReadOK
  <2> QED BY <2>1 DEF ReadOK
<1> QED BY <1>1, <1>2, PlainSame DEF ReadOK

(* Where there is a message to read, rcv_queue is not empty. *)
LEMMA PeekFacts ==
  ASSUME NEW k, Peek(k) PROVE k.rcv_queue # <<>>
PROOF BY DEF Peek

(* A read keeps the types. *)
LEMMA TypedRead ==
  ASSUME Typed, NEW e \in Ends, NEW size \in BufSizes, Read(e, size) PROVE Typed'
PROOF
<1>1. /\ BlocksOK /\ NetOK /\ ReadOK /\ WriteOK /\ LifeOK /\ size \in Nat
      /\ UNCHANGED <<life, handle, todo, sent, net, faults>>
  BY LinkAssumption DEF Typed, Read
<1>2. NetOK' /\ WriteOK' BY <1>1, NetSame DEF WriteOK
<1>3. got[e] \in Seq(Unit(Far(e))) /\ kbuf[e] \in Seq(Unit(Far(e))) BY <1>1 DEF ReadOK
<1>4. CASE ReadRest(e, size)
  <2> DEFINE a == SubSeq(kbuf[e], 1, Min({size, Len(kbuf[e])}))
             b == SubSeq(kbuf[e], size + 1, Len(kbuf[e]))
  <2>1. a \in Seq(Unit(Far(e))) /\ b \in Seq(Unit(Far(e)))
    BY <1>1, <1>3, CutFacts DEF Cut
  <2>2. /\ got' = [got EXCEPT ![e] = got[e] \o a] /\ kbuf' = [kbuf EXCEPT ![e] = b]
        /\ UNCHANGED <<kcp, reader>>
    BY <1>4 DEF ReadRest
  <2> HIDE DEF a, b
  <2>3. got[e] \o a \in Seq(Unit(Far(e))) BY <1>3, <2>1, ConcatFacts
  <2>4. ReadOK' BY <1>1, <2>1, <2>2, <2>3, ReadStep
  <2>5. BlocksOK' BY <1>1, <2>2, BlocksSame
  <2>6. LifeOK' BY <1>1, <2>2 DEF LifeOK
  <2> QED BY <1>2, <2>4, <2>5, <2>6 DEF Typed
<1>5. CASE ReadMessage(e, size)
  <2> DEFINE k == kcp[e]  data == DataOf(FrontMessage(k))
             a == SubSeq(data, 1, Min({size, Len(data)}))
             b == SubSeq(data, size + 1, Len(data))
  <2>1. BlockOK(e, k) /\ k.rcv_queue # <<>>
    BY <1>1, <1>5, PeekFacts DEF BlocksOK, ReadMessage
  <2>2. PICK x \in 1..Len(k.rcv_queue) : FrontMessage(k) = SubSeq(k.rcv_queue, 1, x)
    BY <2>1, RecvOK
  <2>3. k.rcv_queue \in Seq(Seg(Unit(Far(e)))) BY <2>1, PlainFacts DEF BlockOK, Blk
  <2>4. FrontMessage(k) \in Seq(Seg(Unit(Far(e))))
    <3>1. x \in 0..Len(k.rcv_queue) OBVIOUS
    <3> QED BY <2>2, <2>3, <3>1, PrefixFacts
  <2>5. data \in Seq(Unit(Far(e))) BY <2>4, DataType
  <2>6. /\ got' = [got EXCEPT ![e] = got[e] \o a] /\ kbuf' = [kbuf EXCEPT ![e] = b]
        /\ reader' = [reader EXCEPT ![e] = IF data = <<>> THEN "eof" ELSE "run"]
        /\ kcp' = [kcp EXCEPT ![e] = Recv(k)]
    BY <1>5 DEF ReadMessage
  <2>7. a \in Seq(Unit(Far(e))) /\ b \in Seq(Unit(Far(e)))
    <3> HIDE DEF data
    <3> QED BY <1>1, <2>5, CutFacts DEF Cut
  <2>8. BlockOK(e, Recv(k)) BY <2>1, RecvOK
  <2> HIDE DEF a, b, data
  <2>9. got[e] \o a \in Seq(Unit(Far(e))) BY <1>3, <2>7, ConcatFacts
  <2>10. ReadOK' BY <1>1, <2>6, <2>7, <2>9, ReadStep
  <2>11. BlocksOK' BY <1>1, <2>6, <2>8, BlocksStep
  <2>12. LifeOK' BY <1>1, <2>6 DEF LifeOK
  <2> QED BY <1>2, <2>10, <2>11, <2>12 DEF Typed
<1>6. CASE ReadNothing(e)
  <2>1. UNCHANGED <<kcp, kbuf, got>> BY <1>6 DEF ReadNothing
  <2>2. \E c \in {"reset", "wait"} : reader' = [reader EXCEPT ![e] = c] BY <1>6 DEF ReadNothing
  <2>3. LifeOK' BY <1>1, <2>2 DEF LifeOK
  <2> QED BY <1>1, <1>2, <2>1, <2>3, BlocksSame, ReadSame DEF Typed
<1> QED BY <1>4, <1>5, <1>6 DEF Read

(* Steps that touch neither the data nor the network. *)
LEMMA QuietTyped ==
  ASSUME Typed, UNCHANGED <<kbuf, todo, sent, got>>, BlocksOK', NetOK', LifeOK' PROVE Typed'
PROOF BY ReadSame DEF Typed, WriteOK

(* A waker changes a reader from waiting to running, and nothing else. *)
LEMMA WakeType ==
  ASSUME LifeOK, NEW e \in Ends, NEW k
  PROVE  /\ Wake(e, k) \in [Ends -> {"run", "wait", "eof", "reset"}]
         /\ WakeAlways(e) \in [Ends -> {"run", "wait", "eof", "reset"}]
PROOF BY DEF LifeOK, Wake, WakeAlways

(* The count of the faults stays in its range. *)
LEMMA FaultType == ASSUME LifeOK, NEW c, Fault(c) PROVE faults' \in 0..MaxFaults
PROOF BY LinkAssumption DEF LifeOK, Fault

(* The closes keep the types. *)
LEMMA TypedClose ==
  ASSUME Typed, NEW e \in Ends, CloseStream(e) \/ RunClose(e) \/ Clean(e) PROVE Typed'
PROOF
<1>1. /\ BlocksOK /\ NetOK /\ LifeOK /\ BlockOK(e, kcp[e])
      /\ UNCHANGED <<reader, kbuf, todo, sent, got, net, faults>>
  BY DEF Typed, BlocksOK, CloseStream, RunClose, Clean
<1>2. BlockOK(e, Close(kcp[e]))
  <2>1. kcp[e] \in Blk(Plain(e)) BY <1>1 DEF BlockOK
  <2>2. /\ Close(kcp[e]) \in Blk(Plain(e)) /\ SameSender(kcp[e], Close(kcp[e]))
        /\ SameReceiver(kcp[e], Close(kcp[e]))
    BY <2>1, CloseEffect
  <2> QED BY <1>1, <2>2, ClosedOK
<1>3. LifeOK'
  BY <1>1 DEF LifeOK, CloseStream, RunClose, Clean, Life
<1>4. BlocksOK'
  <2>1. kcp' = kcp \/ kcp' = [kcp EXCEPT ![e] = Close(kcp[e])] BY DEF CloseStream, RunClose, Clean
  <2> QED BY <1>1, <1>2, <2>1, BlocksStep, BlocksSame
<1>5. NetOK' BY <1>1, NetSame
<1> QED BY <1>1, <1>3, <1>4, <1>5, QuietTyped

(* The ends of a session keep the types. *)
LEMMA TypedEnd ==
  ASSUME Typed, NEW e \in Ends, EndClosed(e) \/ WaitExpires(e) \/ Crash(e) PROVE Typed'
PROOF
<1>1. BlocksOK /\ NetOK /\ LifeOK /\ UNCHANGED <<kcp, kbuf, todo, sent, got, net>>
  BY DEF Typed, EndClosed, WaitExpires, Crash
<1>2. LifeOK'
  <2>1. CASE EndClosed(e)
    <3>1. reader' \in [Ends -> {"run", "wait", "eof", "reset"}]
      BY <1>1, <2>1, WakeType DEF EndClosed, LifeOK
    <3> QED BY <1>1, <2>1, <3>1 DEF LifeOK, EndClosed, Life
  <2>2. CASE WaitExpires(e) BY <1>1, <2>2 DEF LifeOK, WaitExpires, Life
  <2>3. CASE Crash(e)
    <3>1. faults' \in 0..MaxFaults BY <1>1, <2>3, FaultType DEF Crash
    <3> QED BY <1>1, <2>3, <3>1 DEF LifeOK, Crash, Life
  <2> QED BY <2>1, <2>2, <2>3
<1>3. BlocksOK' /\ NetOK' BY <1>1, BlocksSame, NetSame
<1> QED BY <1>1, <1>2, <1>3, QuietTyped

(* The update of an open block keeps the types. *)
LEMMA TypedUpdate ==
  ASSUME Typed, NEW e \in Ends, NEW flushes \in BOOLEAN, NEW late, UpdateOpen(e, flushes, late)
  PROVE  Typed'
PROOF
<1> DEFINE u == Update(kcp[e], flushes, late)
           b == IF u.k.dead THEN ForceClose(u.k) ELSE u.k
<1>1. /\ BlocksOK /\ NetOK /\ LifeOK /\ BlockOK(e, kcp[e])
      /\ UNCHANGED <<kbuf, handle, todo, sent, got>>
  BY DEF Typed, BlocksOK, UpdateOpen
<1>2. /\ net' = [net EXCEPT ![Far(e)] = net[Far(e)] \o u.out] /\ kcp' = [kcp EXCEPT ![e] = b]
      /\ \/ life' = [life EXCEPT ![e] = "ended"] /\ reader' = WakeAlways(e)
         \/ reader' = Wake(e, u.k) /\ UNCHANGED life
      /\ faults' = faults \/ Fault("early")
  BY DEF UpdateOpen
<1>3. BlockOK(e, u.k) /\ u.out \in Seq(Seg(Unit(e))) BY <1>1, UpdateOK
<1> HIDE DEF u
<1>4. BlockOK(e, b)
  <2>1. u.k \in Blk(Plain(e)) BY <1>3 DEF BlockOK
  <2>2. /\ ForceClose(u.k) \in Blk(Plain(e)) /\ SameSender(u.k, ForceClose(u.k))
        /\ SameReceiver(u.k, ForceClose(u.k))
    BY <2>1, ForceCloseEffect
  <2>3. BlockOK(e, ForceClose(u.k)) BY <1>3, <2>2, ClosedOK
  <2> QED BY <1>3, <2>3
<1> HIDE DEF b
<1>5. BlocksOK' BY <1>1, <1>2, <1>4, BlocksStep
<1>6. NetOK'
  <2>1. Far(e) \in Ends /\ Far(Far(e)) = e BY FarFacts
  <2>2. net[Far(e)] \in Seq(Seg(Unit(Far(Far(e))))) BY <1>1, <2>1 DEF NetOK
  <2>3. net[Far(e)] \in Seq(Seg(Unit(e))) BY <2>1, <2>2
  <2>4. net[Far(e)] \o u.out \in Seq(Seg(Unit(e))) BY <1>3, <2>3, ConcatFacts
  <2>5. net[Far(e)] \o u.out \in Seq(Seg(Unit(Far(Far(e))))) BY <2>1, <2>4
  <2> QED BY <1>1, <1>2, <2>1, <2>5, NetStep
<1>7. LifeOK'
  <2>1. reader' \in [Ends -> {"run", "wait", "eof", "reset"}] BY <1>1, <1>2, WakeType
  <2>2. faults' \in 0..MaxFaults BY <1>1, <1>2, FaultType DEF LifeOK
  <2>3. life' \in [Ends -> Life] BY <1>1, <1>2 DEF LifeOK, Life
  <2> QED BY <1>1, <2>1, <2>2, <2>3 DEF LifeOK
<1> QED BY <1>1, <1>5, <1>6, <1>7, QuietTyped

(* So does an update whose socket refuses. *)
LEMMA TypedUpdateFails == ASSUME Typed, NEW e \in Ends, UpdateFails(e) PROVE Typed'
PROOF
<1>1. /\ BlocksOK /\ NetOK /\ LifeOK /\ BlockOK(e, kcp[e])
      /\ UNCHANGED <<reader, kbuf, handle, todo, sent, got, net>>
  BY DEF Typed, BlocksOK, UpdateFails
<1>2. /\ kcp' = [kcp EXCEPT ![e] = Flush(kcp[e], {}).k] /\ life' = [life EXCEPT ![e] = "ended"]
      /\ Fault("io")
  BY DEF UpdateFails
<1>3. BlockOK(e, Flush(kcp[e], {}).k) BY <1>1, FlushOK
<1>4. BlocksOK' BY <1>1, <1>2, <1>3, BlocksStep
<1>5. NetOK' BY <1>1, NetSame
<1>6. LifeOK'
  <2>1. faults' \in 0..MaxFaults BY <1>1, <1>2, FaultType
  <2> QED BY <1>1, <1>2, <2>1 DEF LifeOK, Life
<1> QED BY <1>1, <1>4, <1>5, <1>6, QuietTyped

(* A datagram that arrives is one of those under way; the others stay under way. *)
LEMMA TakenFromNet ==
  ASSUME NetOK, NEW e \in Ends, NEW i \in DOMAIN net[e]
  PROVE  /\ net[e][i] \in Seg(Unit(Far(e))) /\ i \in 1..Len(net[e])
         /\ Without(net[e], i) \in Seq(Seg(Unit(Far(e))))
PROOF
<1>1. net[e] \in Seq(Seg(Unit(Far(e)))) BY DEF NetOK
<1>2. i \in 1..Len(net[e]) BY <1>1, LenProperties
<1>3. net[e][i] \in Seg(Unit(Far(e))) BY <1>1, <1>2, ElementOfSeq
<1>4. Without(net[e], i) \in Seq(Seg(Unit(Far(e)))) BY <1>1, <1>2, RemoveFacts DEF Without
<1> QED BY <1>2, <1>3, <1>4

(* The network loses one to e and gains one the other way, or not. *)
LEMMA NetTaken ==
  ASSUME NetOK, NEW e \in Ends, NEW i \in DOMAIN net[e], UNCHANGED sent,
         \/ net' = [net EXCEPT ![e] = Without(net[e], i)]
         \/ net' = [[net EXCEPT ![e] = Without(net[e], i)] EXCEPT ![Far(e)] = Append(@, Bare("CLF"))]
  PROVE  NetOK'
PROOF
<1>1. Without(net[e], i) \in Seq(Seg(Unit(Far(e)))) BY TakenFromNet
<1>2. /\ Far(e) \in Ends /\ Far(e) # e /\ Far(Far(e)) = e /\ \A f \in Ends : f = e \/ f = Far(e)
  BY FarFacts
<1>3. CASE net' = [net EXCEPT ![e] = Without(net[e], i)] BY <1>1, <1>3, NetStep
<1>4. CASE net' = [[net EXCEPT ![e] = Without(net[e], i)] EXCEPT ![Far(e)] = Append(@, Bare("CLF"))]
  <2>1. net[Far(e)] \in Seq(Seg(Unit(e)))
    <3>1. net[Far(e)] \in Seq(Seg(Unit(Far(Far(e))))) BY <1>2 DEF NetOK
    <3> QED BY <1>2, <3>1
  <2>2. Bare("CLF") \in Seg(Unit(e))
    <3>1. "CLF" \in Cmd BY DEF Cmd
    <3> QED BY <3>1, BareType
  <2>3. Append(net[Far(e)], Bare("CLF")) \in Seq(Seg(Unit(e))) BY <2>1, <2>2, AppendProperties
  <2>4. /\ DOMAIN net' = Ends /\ net'[e] = Without(net[e], i)
        /\ net'[Far(e)] = Append(net[Far(e)], Bare("CLF"))
    BY <1>2, <1>4 DEF NetOK
  <2>5. \A f \in Ends : net'[f] \in Seq(Seg(Unit(Far(f))))
    <3>1. ASSUME NEW f \in Ends PROVE net'[f] \in Seq(Seg(Unit(Far(f))))
      <4>1. CASE f = e BY <1>1, <2>4, <4>1
      <4>2. CASE f = Far(e)
        <5>1. Far(f) = e BY <1>2, <4>2
        <5> QED BY <2>3, <2>4, <4>2, <5>1
      <4> QED BY <1>2, <4>1, <4>2
    <3> QED BY <3>1
  <2>6. \A f : Unit(f)' = Unit(f) BY PlainSame
  <2>7. \A f \in Ends : net'[f] \in Seq(Seg(Unit(Far(f))'))
    BY <2>5, <2>6
  <2> QED BY <2>4, <2>7 DEF NetOK
<1> QED BY <1>3, <1>4

(* So does a datagram that arrives. *)
LEMMA TypedReceive ==
  ASSUME Typed, NEW e \in Ends, NEW i \in DOMAIN net[e], Receive(e, i) PROVE Typed'
PROOF
<1> DEFINE p == net[e][i]
<1>1. /\ BlocksOK /\ NetOK /\ LifeOK /\ BlockOK(e, kcp[e])
      /\ UNCHANGED <<kbuf, todo, sent, got>>
  BY DEF Typed, BlocksOK, Receive
<1>2. p \in Seg(Unit(Far(e))) BY <1>1, TakenFromNet
<1>3. NetOK'
  <2>1. \/ net' = [net EXCEPT ![e] = Without(net[e], i)]
        \/ net' = [[net EXCEPT ![e] = Without(net[e], i)] EXCEPT ![Far(e)] = Append(@, Bare("CLF"))]
    BY DEF Receive
  <2> QED BY <1>1, <2>1, NetTaken
<1>4. faults' \in 0..MaxFaults
  <2>1. faults' = faults \/ Fault("reorder") BY DEF Receive
  <2> QED BY <1>1, <2>1, FaultType DEF LifeOK
<1>5. CASE Accept(e, p)
  <2>1. /\ life' = [life EXCEPT ![e] = "updating"] /\ handle' = [handle EXCEPT ![e] = "open"]
        /\ kcp' = [kcp EXCEPT ![e] = Input(Construct(0), p)] /\ UNCHANGED reader
    BY <1>5 DEF Accept
  <2>2. BlockOK(e, Construct(0))
    <3>1. 0 \in Number BY ConstantFacts DEF Number
    <3>2. Construct(0) \in Blk(Plain(e)) /\ Construct(0).rcv_queue = <<>> BY <3>1, ConstructType
    <3>3. Len(Construct(0).rcv_queue) <= RcvWnd BY <3>2, ConstantFacts
    <3>4. Window(Construct(0)) BY <3>1, WindowConstruct
    <3> QED BY <3>2, <3>3, <3>4 DEF BlockOK
  <2> HIDE DEF p
  <2>3. BlockOK(e, Input(Construct(0), p)) BY <1>2, <2>2, InputOK
  <2>4. BlocksOK' BY <1>1, <2>1, <2>3, BlocksStep
  <2>5. LifeOK' BY <1>1, <1>4, <2>1 DEF LifeOK, Life
  <2> QED BY <1>1, <1>3, <2>4, <2>5, QuietTyped
<1>6. CASE InputActive(e, p)
  <2>1. /\ kcp' = [kcp EXCEPT ![e] = Input(kcp[e], p)] /\ reader' = Wake(e, kcp'[e])
        /\ UNCHANGED <<life, handle>>
    BY <1>6 DEF InputActive
  <2> HIDE DEF p
  <2>2. BlockOK(e, Input(kcp[e], p)) BY <1>1, <1>2, InputOK
  <2>3. BlocksOK' BY <1>1, <2>1, <2>2, BlocksStep
  <2>4. reader' \in [Ends -> {"run", "wait", "eof", "reset"}]
    BY <1>1, <2>1 DEF LifeOK, Wake
  <2>5. LifeOK' BY <1>1, <1>4, <2>1, <2>4 DEF LifeOK
  <2> QED BY <1>1, <1>3, <2>3, <2>5, QuietTyped
<1>7. CASE UNCHANGED <<kcp, life, handle, reader>>
  <2>1. BlocksOK' BY <1>1, <1>7, BlocksSame
  <2>2. LifeOK' BY <1>1, <1>4, <1>7 DEF LifeOK
  <2> QED BY <1>1, <1>3, <2>1, <2>2, QuietTyped
<1> QED BY <1>5, <1>6, <1>7 DEF Receive

(* So does one that is lost or repeated. *)
LEMMA TypedFault ==
  ASSUME Typed, NEW e \in Ends, NEW i \in DOMAIN net[e], Lose(e, i) \/ Repeat(e, i) PROVE Typed'
PROOF
<1>1. /\ BlocksOK /\ NetOK /\ LifeOK
      /\ UNCHANGED <<kcp, life, reader, kbuf, handle, todo, sent, got>>
  BY DEF Typed, Lose, Repeat
<1>2. NetOK'
  <2>1. CASE Lose(e, i)
    <3>1. net' = [net EXCEPT ![e] = Without(net[e], i)] BY <2>1 DEF Lose
    <3> QED BY <1>1, <3>1, NetTaken
  <2>2. CASE Repeat(e, i)
    <3>1. net' = [net EXCEPT ![e] = Append(net[e], net[e][i])] BY <2>2 DEF Repeat
    <3>2. net[e] \in Seq(Seg(Unit(Far(e)))) /\ net[e][i] \in Seg(Unit(Far(e)))
      BY <1>1, TakenFromNet DEF NetOK
    <3>3. Append(net[e], net[e][i]) \in Seq(Seg(Unit(Far(e)))) BY <3>2, AppendProperties
    <3> QED BY <1>1, <3>1, <3>3, NetStep
  <2> QED BY <2>1, <2>2
<1>3. faults' \in 0..MaxFaults
  <2>1. Fault("lose") \/ Fault("repeat") BY DEF Lose, Repeat
  <2> QED BY <1>1, <2>1, FaultType
<1>4. BlocksOK' BY <1>1, BlocksSame
<1>5. LifeOK' BY <1>1, <1>3 DEF LifeOK
<1> QED BY <1>1, <1>2, <1>4, <1>5, QuietTyped

(* So does a listener that is started again. *)
LEMMA TypedRestart == ASSUME Typed, Restart PROVE Typed'
PROOF
<1>1. /\ BlocksOK /\ NetOK /\ ReadOK /\ WriteOK /\ LifeOK /\ UNCHANGED <<todo, sent, net>>
      /\ Fault("restart") /\ "b" \in Ends
  BY DEF Typed, Restart, Ends
<1>2. BlockOK("b", Construct(0))
  <2>1. 0 \in Number BY ConstantFacts DEF Number
  <2>2. Construct(0) \in Blk(Plain("b")) /\ Construct(0).rcv_queue = <<>> BY <2>1, ConstructType
  <2>3. Len(Construct(0).rcv_queue) <= RcvWnd BY <2>2, ConstantFacts
  <2>4. Window(Construct(0)) BY <2>1, WindowConstruct
  <2> QED BY <2>2, <2>3, <2>4 DEF BlockOK
<1>3. kcp' = [kcp EXCEPT !["b"] = Construct(0)] BY DEF Restart
<1>4. BlocksOK' BY <1>1, <1>2, <1>3, BlocksStep
<1>5. ReadOK'
  <2>1. got' = [got EXCEPT !["b"] = <<>>] /\ kbuf' = [kbuf EXCEPT !["b"] = <<>>] BY DEF Restart
  <2>2. <<>> \in Seq(Unit(Far("b"))) BY EmptySeq
  <2> QED BY <1>1, <2>1, <2>2, ReadStep
<1>6. LifeOK'
  <2>1. faults' \in 0..MaxFaults BY <1>1, FaultType
  <2> QED BY <1>1, <2>1 DEF LifeOK, Restart, Life
<1>7. NetOK' /\ WriteOK' BY <1>1, NetSame DEF WriteOK
<1> QED BY <1>4, <1>5, <1>6, <1>7 DEF Typed

(* Every step keeps the types. *)
LEMMA TypedNext == ASSUME Typed, [Next]_vars PROVE Typed'
PROOF
<1>1. CASE UNCHANGED vars
  <2>1. UNCHANGED <<kcp, life, reader, kbuf, handle, todo, sent, got, net, faults>>
    BY <1>1 DEF vars
  <2> QED BY <2>1, BlocksSame, NetSame, ReadSame DEF Typed, WriteOK, LifeOK
<1>2. ASSUME NEW e \in Ends,
             \/ Write(e) \/ CloseStream(e) \/ RunClose(e)
             \/ \E size \in BufSizes : Read(e, size)
             \/ EndClosed(e) \/ UpdateFails(e) \/ WaitExpires(e) \/ Clean(e)
             \/ \E flushes \in BOOLEAN, late \in SUBSET Sns(e) : UpdateOpen(e, flushes, late)
             \/ \E i \in DOMAIN net[e] : Receive(e, i) \/ Lose(e, i) \/ Repeat(e, i)
             \/ Crash(e)
             \/ Restart
      PROVE  Typed'
  <2>1. CASE Write(e) BY <2>1, TypedWrite
  <2>2. CASE CloseStream(e) \/ RunClose(e) \/ Clean(e) BY <2>2, TypedClose
  <2>3. CASE \E size \in BufSizes : Read(e, size) BY <2>3, TypedRead
  <2>4. CASE EndClosed(e) \/ WaitExpires(e) \/ Crash(e) BY <2>4, TypedEnd
  <2>5. CASE UpdateFails(e) BY <2>5, TypedUpdateFails
  <2>6. CASE \E flushes \in BOOLEAN, late \in SUBSET Sns(e) : UpdateOpen(e, flushes, late)
    BY <2>6, TypedUpdate
  <2>7. CASE \E i \in DOMAIN net[e] : Receive(e, i) \/ Lose(e, i) \/ Repeat(e, i)
    BY <2>7, TypedReceive, TypedFault
  <2>8. CASE Restart BY <2>8, TypedRestart
  <2> QED BY <1>2, <2>1, <2>2, <2>3, <2>4, <2>5, <2>6, <2>7, <2>8
<1> QED BY <1>1, <1>2 DEF Next

(* What the invariant says of the blocks, in the words of TypeOK. *)
LEMMA SegmentCovers ==
  ASSUME WriteOK, NEW e \in Ends PROVE Seg(Unit(e)) \subseteq Segment
PROOF
<1>1. sent["a"] \in Nat /\ sent["b"] \in Nat BY DEF WriteOK, Ends
<1>2. Unit(e) \subseteq 1..(sent["a"] + sent["b"])
  <2>1. sent[e] = sent["a"] \/ sent[e] = sent["b"] BY DEF Ends
  <2> QED BY <1>1, <2>1 DEF Unit
<1>3. Datum(Unit(e)) \subseteq {<<>>} \union {<<u>> : u \in 1..(sent["a"] + sent["b"])}
  BY <1>2 DEF Datum
<1> QED BY <1>3 DEF Seg, Segment, Number

(* The elements of a typed sequence are in its type. *)
LEMMA RangeWithin ==
  ASSUME NEW S, NEW T, S \subseteq T, NEW s \in Seq(S) PROVE Range(s) \subseteq T
PROOF
<1>1. Range(s) \in SUBSET S BY RangeOfSeq
<1> QED BY <1>1

(* The invariant that the steps keep implies TypeOK. *)
LEMMA TypedTypeOK == ASSUME Typed PROVE TypeOK
PROOF
<1>1. BlocksOK /\ NetOK /\ ReadOK /\ WriteOK /\ LifeOK BY DEF Typed
<1>2. ASSUME NEW e \in Ends
      PROVE  /\ kcp[e].close_state \in CloseState /\ kcp[e].rmt_wnd \in 0..RcvWnd
             /\ {kcp[e].snd_una, kcp[e].snd_nxt, kcp[e].rcv_nxt} \subseteq 0..(SnMod - 1)
             /\ Range(kcp[e].rcv_buf) \union Range(kcp[e].rcv_queue) \subseteq Segment
             /\ Range(kcp[e].snd_queue) \union Range(net[e]) \subseteq Segment
             /\ Len(kcp[e].rcv_queue) <= RcvWnd /\ Len(kcp[e].snd_buf) <= SndWnd
             /\ kbuf[e] \in Seq(Unit(Far(e))) /\ got[e] \in Seq(Unit(Far(e)))
  <2> DEFINE k == kcp[e]
  <2>1. k \in Blk(Plain(e)) /\ Len(k.rcv_queue) <= RcvWnd /\ Window(k)
    BY <1>1 DEF BlocksOK, BlockOK
  <2> HIDE DEF k
  <2>2. Far(e) \in Ends BY FarFacts
  <2>3. Seg(Unit(e)) \subseteq Segment /\ Seg(Unit(Far(e))) \subseteq Segment
    BY <1>1, <2>2, SegmentCovers
  <2>4. /\ k.close_state \in CloseState /\ k.rmt_wnd \in 0..RcvWnd
        /\ k.snd_una \in Number /\ k.snd_nxt \in Number /\ k.rcv_nxt \in Number
        /\ k.snd_queue \in Seq(Seg(Unit(e))) /\ k.rcv_buf \in Seq(Seg(Unit(Far(e))))
        /\ k.rcv_queue \in Seq(Seg(Unit(Far(e))))
    BY <2>1, PlainFacts DEF Blk
  <2>5. /\ Range(k.snd_queue) \subseteq Segment /\ Range(k.rcv_buf) \subseteq Segment
        /\ Range(k.rcv_queue) \subseteq Segment
    BY <2>3, <2>4, RangeWithin
  <2>6. Range(net[e]) \subseteq Segment
    <3>1. net[e] \in Seq(Seg(Unit(Far(e)))) BY <1>1 DEF NetOK
    <3> QED BY <2>3, <3>1, RangeWithin
  <2>7. Len(k.snd_buf) <= SndWnd
    <3>1. \A s \in Plain(e).kept : s.sn \in Number BY PlainFacts
    <3> QED BY <2>1, <3>1, WindowBounds
  <2>8. kbuf[e] \in Seq(Unit(Far(e))) /\ got[e] \in Seq(Unit(Far(e))) BY <1>1 DEF ReadOK
  <2> QED BY <2>1, <2>4, <2>5, <2>6, <2>7, <2>8 DEF k, Number
<1> QED BY <1>1, <1>2 DEF TypeOK, LifeOK

(* The control blocks, the datagrams and what the programs hold are well     *)
(* formed in every behaviour, whatever is lost, repeated or restarted: the   *)
(* queue of the reader never passes rcv_wnd and snd_buf never passes snd_wnd *)
(* (kcp/third_party/mod.rs, move_buf and flush).                             *)
THEOREM TypeCorrect == Spec => []TypeOK
PROOF
<1>1. Init => Typed BY TypedInit
<1>2. Typed /\ [Next]_vars => Typed' BY TypedNext
<1>3. Typed => TypeOK BY TypedTypeOK
<1> QED BY <1>1, <1>2, <1>3, PTL DEF Spec

-----------------------------------------------------------------------------
(* The numbers of the units.  Unit u of a direction travels under Sn(u - 1).  *)
(* As long as a direction carries less than half of SnMod units, number and   *)
(* unit determine each other, and TimeDiff compares units.                    *)

Sn(o) == (Start + o) % SnMod
Carried(s, u) == IF u <= s THEN <<u>> ELSE <<>>
Numbered(seg, s, q) == \E u \in 1..q : seg.sn = Sn(u - 1) /\ seg.data = Carried(s, u)
Half(s) == 2 * (s + 1) <= SnMod

(* The number of a unit, by whether the numbers have wrapped before it. *)
LEMMA SnCases ==
  ASSUME NEW o \in Nat, o < SnMod
  PROVE  /\ Sn(o) = IF Start + o < SnMod THEN Start + o ELSE Start + o - SnMod
         /\ Sn(o) \in Int /\ 0 <= Sn(o) /\ Sn(o) < SnMod /\ Sn(o) \in Number
PROOF
<1>1. Start \in Int /\ 0 <= Start /\ Start < SnMod /\ SnMod \in Nat
  BY ConstantFacts DEF Number
<1> DEFINE a == Start + o
<1>2. a \in Int /\ 0 <= a /\ a < 2 * SnMod /\ Start + o - SnMod = a - SnMod BY <1>1
<1>3. Sn(o) = a % SnMod BY DEF Sn
<1> HIDE DEF a
<1>4. a < SnMod => a % SnMod = a BY <1>2, ModLow
<1>5. SnMod <= a => a % SnMod = a - SnMod BY <1>2, ModMid
<1>6. Sn(o) = IF a < SnMod THEN a ELSE a - SnMod BY <1>1, <1>2, <1>3, <1>4, <1>5
<1>7. Sn(o) \in Int /\ 0 <= Sn(o) /\ Sn(o) < SnMod BY <1>1, <1>2, <1>6
<1>8. Sn(o) \in Number BY <1>1, <1>7 DEF Number
<1> QED BY <1>2, <1>6, <1>7, <1>8 DEF a

(* Fewer than SnMod units have different numbers. *)
LEMMA SnInjective ==
  ASSUME NEW a \in Nat, a < SnMod, NEW b \in Nat, b < SnMod, Sn(a) = Sn(b) PROVE a = b
PROOF
<1>1. Start \in Int /\ 0 <= Start /\ Start < SnMod /\ SnMod \in Nat
  BY ConstantFacts DEF Number
<1>2. Sn(a) = IF Start + a < SnMod THEN Start + a ELSE Start + a - SnMod BY SnCases
<1>3. Sn(b) = IF Start + b < SnMod THEN Start + b ELSE Start + b - SnMod BY SnCases
<1> DEFINE x == Sn(a)  y == Sn(b)
<1>4. x = y OBVIOUS
<1>5. /\ x = (IF Start + a < SnMod THEN Start + a ELSE Start + a - SnMod)
      /\ y = (IF Start + b < SnMod THEN Start + b ELSE Start + b - SnMod)
  BY <1>2, <1>3
<1>6. x \in Int /\ y \in Int BY SnCases
<1> HIDE DEF x, y
<1>7. x = Start + a \/ x = Start + a - SnMod BY <1>5
<1>8. y = Start + b \/ y = Start + b - SnMod BY <1>5
<1> QED BY <1>1, <1>4, <1>6, <1>7, <1>8

(* Numbers count on. *)
LEMMA SnNext ==
  ASSUME NEW o \in Nat, NEW n \in Nat, o + n < SnMod PROVE (Sn(o) + n) % SnMod = Sn(o + n)
PROOF
<1>1. Start \in Int /\ 0 <= Start /\ Start < SnMod /\ SnMod \in Nat
  BY ConstantFacts DEF Number
<1>2. o < SnMod /\ o + n \in Nat BY <1>1
<1>3. Sn(o) = IF Start + o < SnMod THEN Start + o ELSE Start + o - SnMod BY <1>2, SnCases
<1>4. Sn(o + n) = IF Start + (o + n) < SnMod THEN Start + (o + n) ELSE Start + (o + n) - SnMod
  BY <1>2, SnCases
<1> DEFINE x == Sn(o)  a == x + n  y == Sn(o + n)
<1>5. x \in Int /\ 0 <= x /\ x < SnMod BY <1>2, SnCases
<1>6. (Sn(o) + n) % SnMod = a % SnMod OBVIOUS
<1>7. /\ x = (IF Start + o < SnMod THEN Start + o ELSE Start + o - SnMod)
      /\ y = (IF Start + (o + n) < SnMod THEN Start + (o + n) ELSE Start + (o + n) - SnMod)
      /\ a = x + n
  BY <1>3, <1>4
<1> HIDE DEF x, y, a
<1>8. a \in Int /\ 0 <= a /\ a < 2 * SnMod BY <1>1, <1>5, <1>7
<1>9. a < SnMod => a % SnMod = a BY <1>8, ModLow
<1>10. SnMod <= a => a % SnMod = a - SnMod BY <1>8, ModMid
<1>11. CASE a < SnMod
  <2>1. y = a BY <1>1, <1>2, <1>5, <1>7, <1>11
  <2> QED BY <1>6, <1>9, <1>11, <2>1 DEF y
<1>12. CASE SnMod <= a
  <2>1. y = a - SnMod BY <1>1, <1>2, <1>5, <1>7, <1>12
  <2> QED BY <1>6, <1>10, <1>12, <2>1 DEF y
<1> QED BY <1>1, <1>8, <1>11, <1>12

(* TimeDiff compares units less than half of the numbers apart. *)
LEMMA SnDiff ==
  ASSUME NEW a \in Nat, NEW b \in Nat, 2 * a <= SnMod, 2 * b <= SnMod
  PROVE  /\ TimeDiff(Sn(a), Sn(b)) > 0 => a > b
         /\ TimeDiff(Sn(a), Sn(b)) < 0 => a < b \/ 2 * (a - b) = SnMod
PROOF
<1>1. Start \in Int /\ 0 <= Start /\ Start < SnMod /\ SnMod \in Nat \ {0}
  BY ConstantFacts DEF Number
<1>2. a < SnMod /\ b < SnMod BY <1>1
<1>3. Sn(a) = IF Start + a < SnMod THEN Start + a ELSE Start + a - SnMod BY <1>2, SnCases
<1>4. Sn(b) = IF Start + b < SnMod THEN Start + b ELSE Start + b - SnMod BY <1>2, SnCases
<1> DEFINE x == Sn(a)  y == Sn(b)  c == x - y  d == c % SnMod
<1>5. x \in Int /\ 0 <= x /\ x < SnMod /\ y \in Int /\ 0 <= y /\ y < SnMod BY <1>2, SnCases
<1>6. TimeDiff(Sn(a), Sn(b)) = IF 2 * d < SnMod THEN d ELSE d - SnMod BY DEF TimeDiff
<1>7. /\ x = (IF Start + a < SnMod THEN Start + a ELSE Start + a - SnMod)
      /\ y = (IF Start + b < SnMod THEN Start + b ELSE Start + b - SnMod)
      /\ c = x - y /\ d = c % SnMod
  BY <1>3, <1>4
<1> HIDE DEF x, y, c, d
<1>8. c \in Int /\ -SnMod <= c /\ c < SnMod BY <1>1, <1>5, <1>7
<1>9. (0 <= c => d = c) /\ (c < 0 => d = c + SnMod)
  <2>1. 0 <= c => c % SnMod = c BY <1>8, ModLow
  <2>2. c < 0 => c % SnMod = c + SnMod BY <1>8, ModNeg
  <2> QED BY <1>7, <2>1, <2>2
<1>10. c = a - b \/ c = a - b - SnMod \/ c = a - b + SnMod BY <1>1, <1>5, <1>7
<1>11. d = IF a - b < 0 THEN a - b + SnMod ELSE a - b BY <1>1, <1>2, <1>8, <1>9, <1>10
<1> QED BY <1>1, <1>2, <1>6, <1>11

(* What carries no una says 0, which acknowledges nothing while numbers are low. *)
LEMMA SnFromZero ==
  ASSUME NEW a \in Nat, 2 * (Start + a) < SnMod PROVE ~(TimeDiff(0, Sn(a)) > 0)
PROOF
<1>1. Start \in Int /\ 0 <= Start /\ Start < SnMod /\ SnMod \in Nat \ {0}
  BY ConstantFacts DEF Number
<1>2. a < SnMod /\ Start + a < SnMod BY <1>1
<1>3. Sn(a) = Start + a BY <1>1, <1>2, SnCases
<1> DEFINE c == 0 - Sn(a)  d == c % SnMod
<1>4. TimeDiff(0, Sn(a)) = IF 2 * d < SnMod THEN d ELSE d - SnMod BY DEF TimeDiff
<1>5. c \in Int /\ -SnMod <= c /\ c <= 0 /\ 2 * c > -SnMod BY <1>1, <1>2, <1>3
<1>6. d = c % SnMod OBVIOUS
<1> HIDE DEF c, d
<1>7. c = 0 => d = 0
  <2>1. 0 % SnMod = 0 BY <1>1, ModLow
  <2> QED BY <1>6, <2>1
<1>8. c < 0 => d = c + SnMod
  <2>1. c < 0 => c % SnMod = c + SnMod BY <1>5, ModNeg
  <2> QED BY <1>6, <2>1
<1> QED BY <1>1, <1>4, <1>5, <1>7, <1>8

(* A sequence whose elements are in T is a sequence over T. *)
LEMMA SeqNarrow ==
  ASSUME NEW S, NEW T, NEW s \in Seq(S), \A i \in 1..Len(s) : s[i] \in T PROVE s \in Seq(T)
PROOF
<1> DEFINE elem(i) == s[i]
<1>1. Len(s) \in Nat /\ DOMAIN s = 1..Len(s) BY LenProperties
<1>2. s = [i \in 1..Len(s) |-> elem(i)] BY <1>1
<1>3. \A i \in 1..Len(s) : elem(i) \in T OBVIOUS
<1> HIDE DEF elem
<1>4. [i \in 1..Len(s) |-> elem(i)] \in Seq(T) BY <1>1, <1>3, IsASeq
<1> QED BY <1>2, <1>4

-----------------------------------------------------------------------------
(* The sending side of a direction that has carried s units, q of which have  *)
(* a number.  The close adds one more, the copy of CLS that carries nothing.  *)

KeptN(s, q) == {x \in Kept(1..s) : Numbered(x, s, q)}
EarlyN(s, q) == {p \in Seg(1..s) : Numbered(p, s, q)}
WireN(s, q) == {p \in Seg(1..s) : p.cmd = "PUSH" => Numbered(p, s, q)}

Shutting(c) == c \in {"wait", "yes"}

SendSide(k, s, q) ==
  /\ k.snd_nxt = Sn(q)
  /\ q + Len(k.snd_queue) = s \/ (q + Len(k.snd_queue) = s + 1 /\ Shutting(k.close_state))
  /\ \A i \in 1..Len(k.snd_queue) : k.snd_queue[i].data = Carried(s, q + i)
  /\ k.snd_buf \in Seq(KeptN(s, q)) /\ k.buf \in Seq(WireN(s, q))

(* More numbers, or more units, leave what is numbered numbered. *)
LEMMA NumberedMore ==
  ASSUME NEW s \in Nat, NEW q \in Nat, NEW s2 \in Nat, NEW q2 \in Nat, s <= s2, q <= q2,
         s = s2 \/ q <= s
  PROVE  /\ \A x : Numbered(x, s, q) => Numbered(x, s2, q2)
         /\ KeptN(s, q) \subseteq KeptN(s2, q2) /\ EarlyN(s, q) \subseteq EarlyN(s2, q2)
         /\ WireN(s, q) \subseteq WireN(s2, q2)
PROOF
<1>1. \A u \in 1..q : u \in 1..q2 /\ Carried(s, u) = Carried(s2, u)
  <2>1. \A u \in 1..q : u \in Int /\ u \in 1..q2 /\ (s = s2 \/ (u <= s /\ u <= s2)) OBVIOUS
  <2> QED BY <2>1 DEF Carried
<1>2. \A x : Numbered(x, s, q) => Numbered(x, s2, q2) BY <1>1 DEF Numbered
<1>3. Seg(1..s) \subseteq Seg(1..s2) /\ Kept(1..s) \subseteq Kept(1..s2) BY SegGrows
<1>4. KeptN(s, q) \subseteq KeptN(s2, q2) BY <1>2, <1>3 DEF KeptN
<1>5. EarlyN(s, q) \subseteq EarlyN(s2, q2) BY <1>2, <1>3 DEF EarlyN
<1>6. WireN(s, q) \subseteq WireN(s2, q2) BY <1>2, <1>3 DEF WireN
<1> QED BY <1>2, <1>4, <1>5, <1>6

(* At first a direction has carried nothing. *)
LEMMA SendSideInit == ASSUME NEW k, k = Construct(Start) PROVE SendSide(k, 0, 0)
PROOF
<1>1. /\ k.snd_nxt = Start /\ k.snd_queue = <<>> /\ k.snd_buf = <<>> /\ k.buf = <<>>
  BY ConstructType, ConstantFacts
<1>2. Sn(0) = Start
  <2>1. 0 \in Nat /\ 0 < SnMod /\ Start \in Int /\ Start < SnMod BY ConstantFacts DEF Number
  <2>2. Sn(0) = IF Start + 0 < SnMod THEN Start + 0 ELSE Start + 0 - SnMod BY <2>1, SnCases
  <2> QED BY <2>1, <2>2
<1>3. <<>> \in Seq(KeptN(0, 0)) /\ <<>> \in Seq(WireN(0, 0)) /\ Len(<<>>) = 0 BY EmptySeq
<1>4. 0 + Len(<<>>) = 0 /\ \A i \in 1..Len(<<>>) : FALSE BY <1>3
<1> QED BY <1>1, <1>2, <1>3, <1>4 DEF SendSide

(* Steps of the receiver, and closes, leave the sending side as it was. *)
LEMMA SendSideSame ==
  ASSUME NEW k, NEW s, NEW q, SendSide(k, s, q), NEW k2, SameSender(k, k2), k2.buf = k.buf,
         Shutting(k.close_state) => Shutting(k2.close_state)
  PROVE  SendSide(k2, s, q)
PROOF BY DEF SendSide, SameSender

(* input takes segments out of snd_buf, and numbers none. *)
LEMMA SendSideInput ==
  ASSUME NEW t, NEW k, NEW s \in Nat, NEW q \in Nat, SendSide(k, s, q),
         NEW p, NEW k2, Taken(t, k, p, k2)
  PROVE  SendSide(k2, s, q)
PROOF
<1>1. /\ k2.snd_nxt = k.snd_nxt /\ k2.snd_queue = k.snd_queue /\ k2.buf = k.buf
      /\ Thinned(k.snd_buf, k2.snd_buf) /\ k2.snd_buf \in Seq(t.kept)
      /\ Shutting(k.close_state) => Shutting(k2.close_state)
  BY DEF Taken, OnlyAcked, Shutting, Blk
<1>2. k2.snd_buf \in Seq(KeptN(s, q))
  <2>1. k.snd_buf \in Seq(KeptN(s, q)) BY DEF SendSide
  <2>2. PICK m \in [1..Len(k2.snd_buf) -> 1..Len(k.snd_buf)] :
          \A i \in 1..Len(k2.snd_buf) : k2.snd_buf[i] = k.snd_buf[m[i]]
    BY <1>1 DEF Thinned
  <2>3. \A i \in 1..Len(k2.snd_buf) : k2.snd_buf[i] \in KeptN(s, q)
    <3>1. \A j \in 1..Len(k.snd_buf) : k.snd_buf[j] \in KeptN(s, q) BY <2>1, ElementOfSeq
    <3> QED BY <2>2, <3>1
  <2> QED BY <1>1, <2>3, SeqNarrow
<1> QED BY <1>1, <1>2 DEF SendSide

(* A write adds units that have no number yet. *)
LEMMA SendSideWrite ==
  ASSUME NEW t, NEW t2, NEW s \in Nat, NEW q \in Nat, NEW n \in Nat, n >= 1,
         NEW k \in Blk(t), SendSide(k, s, q), k.close_state = "no",
         NEW k2, Queued(t2, k, n, s, k2)
  PROVE  q <= s /\ SendSide(k2, s + n, q)
PROOF
<1>1. k.snd_queue \in Seq(t.queued) /\ Len(k.snd_queue) \in Nat BY LenProperties DEF Blk
<1> DEFINE l == Len(k.snd_queue)  l2 == Len(k2.snd_queue)
<1>2. q + l = s BY DEF SendSide, Shutting
<1>3. /\ k2.snd_nxt = k.snd_nxt /\ k2.snd_buf = k.snd_buf /\ k2.buf = k.buf /\ l2 = l + n
      /\ \A i \in 1..l : k2.snd_queue[i] = k.snd_queue[i]
      /\ \A i \in 1..n : k2.snd_queue[l + i].data = <<s + i>>
  BY DEF Queued
<1>4. \A i \in 1..l : k.snd_queue[i].data = Carried(s, q + i) BY DEF SendSide
<1> HIDE DEF l, l2
<1>5. l \in Nat /\ q <= s BY <1>1, <1>2 DEF l
<1>6. q + l2 = s + n BY <1>2, <1>3, <1>5
<1>7. ASSUME NEW i \in 1..l2 PROVE k2.snd_queue[i].data = Carried(s + n, q + i)
  <2>1. CASE i <= l
    <3>1. i \in 1..l /\ q + i <= s /\ q + i <= s + n BY <1>2, <1>5, <2>1
    <3>2. k2.snd_queue[i].data = Carried(s, q + i) BY <1>3, <1>4, <3>1
    <3> QED BY <3>1, <3>2 DEF Carried
  <2>2. CASE ~(i <= l)
    <3> DEFINE j == i - l
    <3>1. j \in 1..n /\ i = l + j /\ q + i = s + j /\ s + j <= s + n BY <1>2, <1>3, <1>5, <2>2
    <3> HIDE DEF j
    <3>2. k2.snd_queue[i].data = <<s + j>> BY <1>3, <3>1
    <3> QED BY <3>1, <3>2 DEF Carried
  <2> QED BY <2>1, <2>2
<1>8. k2.snd_buf \in Seq(KeptN(s + n, q)) /\ k2.buf \in Seq(WireN(s + n, q))
  <2>1. k.snd_buf \in Seq(KeptN(s, q)) /\ k.buf \in Seq(WireN(s, q)) BY DEF SendSide
  <2>2. s + n \in Nat /\ s <= s + n /\ q <= q BY <1>5
  <2>3. KeptN(s, q) \subseteq KeptN(s + n, q) /\ WireN(s, q) \subseteq WireN(s + n, q)
    BY <1>5, <2>2, NumberedMore
  <2> QED BY <1>3, <2>1, <2>3, SeqMonotonic
<1>9. k2.snd_nxt = Sn(q) BY <1>3 DEF SendSide
<1> QED BY <1>5, <1>6, <1>7, <1>8, <1>9 DEF SendSide, l2

(* A typing of the plain kind, for an end that has carried s units. *)
PlainFor(t, s) ==
  /\ t.queued = Seg(1..s) /\ t.kept = Kept(1..s) /\ t.out = Seg(1..s) /\ t.acks = Number

(* The same, where what is sent is numbered. *)
SendT(t, s, q) ==
  [queued |-> t.queued, kept |-> KeptN(s, q), early |-> t.early, ready |-> t.ready,
   acks |-> t.acks, out |-> WireN(s, q)]

(* A sending side that is as it should be is typed by the numbered sets. *)
LEMMA SendTFacts ==
  ASSUME NEW t, NEW s \in Nat, NEW q \in Nat, NEW q2 \in Nat, q <= q2,
         NEW k \in Blk(t), SendSide(k, s, q)
  PROVE  /\ k \in Blk(SendT(t, s, q2)) /\ SendT(t, s, q2).queued = t.queued
         /\ SendT(t, s, q2).kept = KeptN(s, q2) /\ SendT(t, s, q2).out = WireN(s, q2)
         /\ SendT(t, s, q2).acks = t.acks
PROOF
<1> DEFINE v == SendT(t, s, q2)
<1>1. /\ v.queued = t.queued /\ v.kept = KeptN(s, q2) /\ v.early = t.early
      /\ v.ready = t.ready /\ v.acks = t.acks /\ v.out = WireN(s, q2)
  BY DEF SendT
<1>2. k.snd_buf \in Seq(v.kept) /\ k.buf \in Seq(v.out)
  <2>1. k.snd_buf \in Seq(KeptN(s, q)) /\ k.buf \in Seq(WireN(s, q)) BY DEF SendSide
  <2>2. KeptN(s, q) \subseteq KeptN(s, q2) /\ WireN(s, q) \subseteq WireN(s, q2)
    BY NumberedMore
  <2> QED BY <1>1, <2>1, <2>2, SeqMonotonic
<1> HIDE DEF v
<1>3. k \in Blk(v) BY <1>1, <1>2 DEF Blk
<1> QED BY <1>1, <1>3 DEF v

(* What is taken from snd_queue gets the numbers that follow. *)
LEMMA SendingNumbered ==
  ASSUME NEW t, NEW s \in Nat, NEW q \in Nat, Half(s), NEW k \in Blk(t), PlainFor(t, s),
         SendSide(k, s, q), NEW n \in 0..Len(k.snd_queue), \A i \in 1..n : Sending(k, i) \in Kept(1..s)
  PROVE  /\ n \in Nat /\ q + n \in Nat /\ q + n < SnMod /\ q + n <= s + 1
         /\ \A i \in 1..n : Sending(k, i) \in KeptN(s, q + n)
PROOF
<1> DEFINE l == Len(k.snd_queue)
<1>1. l \in Nat BY LenProperties DEF Blk
<1>2. q + l <= s + 1
  <2>1. q + l = s \/ q + l = s + 1 BY DEF SendSide
  <2> HIDE DEF l
  <2> QED BY <1>1, <2>1
<1>3. k.snd_nxt = Sn(q) BY DEF SendSide
<1>4. n \in Nat /\ n <= l BY <1>1
<1>5. \A i \in 1..l : k.snd_queue[i].data = Carried(s, q + i) BY DEF SendSide
<1> HIDE DEF l
<1>6. q + n \in Nat /\ q + n < SnMod /\ q + n <= s + 1
  BY <1>1, <1>2, <1>4, ConstantFacts DEF Half
<1>7. ASSUME NEW i \in 1..n PROVE Sending(k, i) \in KeptN(s, q + n)
  <2>1. i \in 1..l /\ i \in Nat /\ i - 1 \in Nat /\ q + i \in 1..(q + n) BY <1>1, <1>4
  <2>2. Sending(k, i).sn = (k.snd_nxt + i - 1) % SnMod /\ Sending(k, i).data = Carried(s, q + i)
    BY <1>5, <2>1 DEF Sending
  <2>3. q + (i - 1) < SnMod /\ q + (i - 1) = q + i - 1 BY <1>4, <1>6, <2>1, ConstantFacts
  <2>4. q < SnMod BY <1>4, <1>6, ConstantFacts
  <2>5. Sn(q) \in Int BY <2>4, SnCases
  <2>6. k.snd_nxt + i - 1 = Sn(q) + (i - 1) BY <1>3, <2>1, <2>5
  <2>7. (Sn(q) + (i - 1)) % SnMod = Sn(q + (i - 1)) BY <2>1, <2>3, SnNext
  <2>8. Sending(k, i).sn = Sn(q + i - 1) BY <2>2, <2>3, <2>6, <2>7
  <2>9. Numbered(Sending(k, i), s, q + n) BY <2>1, <2>2, <2>8 DEF Numbered
  <2> QED BY <2>9 DEF KeptN
<1> QED BY <1>4, <1>6, <1>7

(* What it writes is numbered. *)
LEMMA SendWritable ==
  ASSUME NEW t, NEW s \in Nat, NEW q \in Nat, NEW k \in Blk(t), PlainFor(t, s),
         NEW v, v.kept = KeptN(s, q), v.out = WireN(s, q), v.acks = t.acks
  PROVE  Writable(v, k, 1..s) /\ Bare("CLS") \in v.out
PROOF
<1>1. v.kept \subseteq Kept(1..s) BY DEF KeptN
<1>2. \A x \in KeptN(s, q) : [x EXCEPT !.xmit = @ + 1] \in KeptN(s, q)
  BY DEF KeptN, Numbered, Kept
<1>3. \A x \in KeptN(s, q) : OnWire(k, x) \in WireN(s, q)
  <2>1. ASSUME NEW x \in KeptN(s, q) PROVE OnWire(k, x) \in WireN(s, q)
    <3>1. x \in Kept(1..s) /\ Numbered(x, s, q) BY DEF KeptN
    <3>2. OnWire(k, x) \in Seg(1..s) /\ OnWire(k, x).sn = x.sn /\ OnWire(k, x).data = x.data
      BY <3>1, OnWireType
    <3>3. Numbered(OnWire(k, x), s, q) BY <3>1, <3>2 DEF Numbered
    <3> QED BY <3>2, <3>3 DEF WireN
  <2> QED BY <2>1
<1>4. \A c \in {"ACK", "WASK", "WINS"}, x \in Number : Answer(k, c, x) \in WireN(s, q)
  <2>1. ASSUME NEW c \in {"ACK", "WASK", "WINS"}, NEW x \in Number
        PROVE  Answer(k, c, x) \in WireN(s, q)
    <3>1. c \in Cmd /\ c # "PUSH" BY DEF Cmd
    <3>2. Answer(k, c, x) \in Seg(1..s) /\ Answer(k, c, x).cmd = c BY <3>1, AnswerType
    <3> QED BY <3>1, <3>2 DEF WireN
  <2> QED BY <2>1
<1>5. 0 \in Number BY ConstantFacts DEF Number
<1>6. v.acks = Number BY DEF PlainFor
<1>7. Bare("CLS") \in WireN(s, q)
  <2>1. "CLS" \in Cmd BY DEF Cmd
  <2>2. Bare("CLS") \in Seg(1..s) /\ Bare("CLS").cmd = "CLS" BY <2>1, BareType DEF Bare
  <2> QED BY <2>2 DEF WireN
<1>8. Writable(v, k, 1..s) BY <1>1, <1>2, <1>3, <1>4, <1>5, <1>6 DEF Writable
<1> QED BY <1>7, <1>8

(* flush is an update that closes nothing. *)
LEMMA FlushedUpdated ==
  ASSUME NEW t, NEW k, NEW n, NEW w, Flushed(t, k, n, w) PROVE Updated(t, k, n, w)
PROOF BY Zenon DEF Flushed, Updated

(* What update leaves, and what it sends, is numbered. *)
LEMMA SendSideUpdated ==
  ASSUME NEW t, NEW v, NEW s \in Nat, NEW q \in Nat, NEW n \in Nat, q + n < SnMod,
         NEW k \in Blk(t), SendSide(k, s, q), v.kept = KeptN(s, q + n), v.out = WireN(s, q + n),
         NEW w, Updated(v, k, n, w)
  PROVE  SendSide(w.k, s, q + n) /\ w.out \in Seq(WireN(s, q + n))
PROOF
<1> DEFINE l == Len(k.snd_queue)  b == w.k
<1>1. k.snd_queue \in Seq(t.queued) /\ l \in Nat BY LenProperties DEF Blk
<1>2. /\ n \in 0..l /\ b.snd_nxt = (k.snd_nxt + n) % SnMod
      /\ b.snd_buf \in Seq(KeptN(s, q + n)) /\ b.buf \in Seq(WireN(s, q + n))
      /\ w.out \in Seq(WireN(s, q + n))
  BY DEF Updated, Blk
<1>3. b.snd_nxt = Sn(q + n)
  <2>1. k.snd_nxt = Sn(q) BY DEF SendSide
  <2>2. (Sn(q) + n) % SnMod = Sn(q + n) BY SnNext
  <2> QED BY <1>2, <2>1, <2>2
<1>4. /\ q + l = s \/ (q + l = s + 1 /\ Shutting(k.close_state))
      /\ \A i \in 1..l : k.snd_queue[i].data = Carried(s, q + i)
  BY DEF SendSide
<1>5. CASE /\ b.snd_queue = SubSeq(k.snd_queue, n + 1, l)
           /\ \/ b.close_state = k.close_state
              \/ k.close_state = "wrcv" /\ b.close_state = "yes"
  <2>1. /\ Len(b.snd_queue) = l - n
        /\ \A i \in 1..(l - n) : b.snd_queue[i] = k.snd_queue[n + i]
    BY <1>1, <1>2, <1>5, SuffixFacts
  <2> HIDE DEF l, b
  <2>2. /\ (q + n) + Len(b.snd_queue) = s
           \/ ((q + n) + Len(b.snd_queue) = s + 1 /\ Shutting(b.close_state))
    <3>1. (q + n) + Len(b.snd_queue) = q + l BY <1>1, <1>2, <2>1
    <3>2. Shutting(k.close_state) => Shutting(b.close_state) BY <1>5 DEF Shutting
    <3> QED BY <1>4, <3>1, <3>2
  <2>3. \A i \in 1..Len(b.snd_queue) : b.snd_queue[i].data = Carried(s, (q + n) + i)
    <3>1. ASSUME NEW i \in 1..Len(b.snd_queue)
          PROVE  b.snd_queue[i].data = Carried(s, (q + n) + i)
      <4>1. i \in 1..(l - n) /\ n + i \in 1..l /\ q + (n + i) = (q + n) + i BY <1>1, <1>2, <2>1
      <4> QED BY <1>4, <2>1, <4>1
    <3> QED BY <3>1
  <2> QED BY <1>2, <1>3, <2>2, <2>3 DEF SendSide, b
<1>6. CASE /\ SubSeq(k.snd_queue, n + 1, l) = <<>> /\ b.snd_queue = <<Bare("CLS")>>
           /\ k.close_state = "wsnd" /\ b.close_state = "wait"
  <2>1. Len(SubSeq(k.snd_queue, n + 1, l)) = l - n BY <1>1, <1>2, SuffixFacts
  <2>2. Len(<<>>) = 0 /\ Len(<<Bare("CLS")>>) = 1 /\ <<Bare("CLS")>>[1] = Bare("CLS")
    BY ShortFacts
  <2>x. l - n = 0 BY <1>6, <2>1, <2>2
  <2>y. q + l = s BY <1>4, <1>6 DEF Shutting
  <2> HIDE DEF l, b
  <2>z. l = n BY <1>1, <1>2, <2>x
  <2>3. l = n /\ q + l = s BY <2>y, <2>z
  <2>4. (q + n) + Len(b.snd_queue) = s + 1 BY <1>6, <2>2, <2>3
  <2>5. \A i \in 1..Len(b.snd_queue) : b.snd_queue[i].data = Carried(s, (q + n) + i)
    <3>1. ASSUME NEW i \in 1..Len(b.snd_queue)
          PROVE  b.snd_queue[i].data = Carried(s, (q + n) + i)
      <4>1. i = 1 /\ ~((q + n) + i <= s) BY <1>6, <2>2, <2>3
      <4>2. b.snd_queue[i] = Bare("CLS") BY <1>6, <2>2, <4>1
      <4>3. b.snd_queue[i].data = <<>> BY <4>2 DEF Bare
      <4> QED BY <4>1, <4>3 DEF Carried
    <3> QED BY <3>1
  <2> QED BY <1>2, <1>3, <1>6, <2>4, <2>5 DEF SendSide, Shutting, b
<1> QED BY <1>5, <1>6 DEF Updated

(* The segment with number x is held by k, which has passed on r, or was. *)
AtPeer(k, r, x) ==
  \/ \E u \in 1..r : x = Sn(u - 1)
  \/ \E i \in 1..Len(k.rcv_buf) : k.rcv_buf[i].sn = x
Reach(k, r, k2, r2) == \A x : AtPeer(k, r, x) => AtPeer(k2, r2, x)

(* A segment with a number is kept by the sender until the receiver has it. *)
Held(k, far, q, r) ==
  \A u \in 1..q : \/ AtPeer(far, r, Sn(u - 1))
                  \/ \E i \in 1..Len(k.snd_buf) : k.snd_buf[i].sn = Sn(u - 1)

(* What update numbers it keeps. *)
LEMMA HeldUpdated ==
  ASSUME NEW v, NEW k, Len(k.snd_buf) \in Nat, NEW q \in Nat, NEW n \in Nat, q + n < SnMod,
         k.snd_nxt = Sn(q), NEW w, Updated(v, k, n, w)
  PROVE  \A far, r : Held(k, far, q, r) => Held(w.k, far, q + n, r)
PROOF
<1> DEFINE b == k.snd_buf  b2 == w.k.snd_buf
<1>1. /\ Len(b2) = Len(b) + n /\ \A i \in 1..Len(b) : b2[i].sn = b[i].sn
      /\ \A i \in 1..n : b2[Len(b) + i].sn = Sending(k, i).sn
  BY DEF Updated
<1>2. \A i \in 1..n : Sending(k, i).sn = (Sn(q) + i - 1) % SnMod BY DEF Sending
<1>3. Len(b) \in Nat OBVIOUS
<1> SUFFICES ASSUME NEW far, NEW r, Held(k, far, q, r) PROVE Held(w.k, far, q + n, r)
  OBVIOUS
<1>4. ASSUME NEW u \in 1..(q + n)
      PROVE  AtPeer(far, r, Sn(u - 1)) \/ \E i \in 1..Len(b2) : b2[i].sn = Sn(u - 1)
  <2>1. CASE u \in 1..q
    <3>1. CASE AtPeer(far, r, Sn(u - 1)) BY <3>1
    <3>2. CASE \E i \in 1..Len(b) : b[i].sn = Sn(u - 1)
      <4>1. PICK i \in 1..Len(b) : b[i].sn = Sn(u - 1) BY <3>2
      <4> HIDE DEF b, b2
      <4>2. i \in 1..Len(b2) /\ b2[i].sn = Sn(u - 1) BY <1>1, <1>3, <4>1
      <4> QED BY <4>2
    <3> QED BY <2>1, <3>1, <3>2 DEF Held
  <2>2. CASE ~(u \in 1..q)
    <3> DEFINE i == u - q
    <3>1. i \in 1..n /\ i \in Nat /\ i - 1 \in Nat /\ q + (i - 1) = u - 1 /\ q + (i - 1) < SnMod
      BY <2>2, ConstantFacts
    <3>2. q < SnMod BY ConstantFacts
    <3>3. Sn(q) \in Int BY <3>2, SnCases
    <3> HIDE DEF i, b, b2
    <3>4. Sn(q) + i - 1 = Sn(q) + (i - 1) BY <3>1, <3>3
    <3>5. (Sn(q) + (i - 1)) % SnMod = Sn(q + (i - 1)) BY <3>1, SnNext
    <3>6. b2[Len(b) + i].sn = Sn(u - 1) BY <1>1, <1>2, <3>1, <3>4, <3>5
    <3>7. Len(b) + i \in 1..Len(b2) BY <1>1, <1>3, <3>1
    <3> QED BY <3>6, <3>7
  <2> QED BY <2>1, <2>2
<1> QED BY <1>4 DEF Held

(* update, of a block of end e. *)
LEMMA SendSideUpdate ==
  ASSUME NEW e \in Ends, NEW k, BlockOK(e, k), sent[e] \in Nat, Half(sent[e]), NEW q \in Nat,
         SendSide(k, sent[e], q), NEW flushes \in BOOLEAN, NEW late,
         NEW w, w = Update(k, flushes, late)
  PROVE  \E n \in Nat : /\ SendSide(w.k, sent[e], q + n)
                        /\ w.out \in Seq(WireN(sent[e], q + n))
                        /\ \A far, r : Held(k, far, q, r) => Held(w.k, far, q + n, r)
PROOF
<1> DEFINE s == sent[e]  n == IF flushes THEN Fitting(k) ELSE 0
<1>n. n = (IF flushes THEN Fitting(k) ELSE 0) OBVIOUS
<1> DEFINE t == Plain(e)  v == SendT(t, s, q + n)
<1>1. k \in Blk(t) BY DEF BlockOK
<1>2. PlainFor(t, s) BY PlainFacts DEF PlainFor, Unit
<1>3. n \in 0..Len(k.snd_queue) /\ \A i \in 1..n : Sending(k, i) \in Kept(1..s)
  <2>1. CASE flushes
    <3>1. n = Fitting(k) /\ t.queued \subseteq Seg(1..s) BY <1>2, <2>1 DEF PlainFor
    <3> HIDE DEF n, t
    <3>2. n \in 0..Len(k.snd_queue) BY <1>1, <3>1, FillWindowEffect
    <3>3. \A i \in 1..n : Sending(k, i) \in Kept(1..s) BY <1>1, <3>1, SendingType
    <3> QED BY <3>2, <3>3
  <2>2. CASE ~flushes
    <3>1. n = 0 BY <2>2
    <3>2. Len(k.snd_queue) \in Nat BY <1>1, LenProperties DEF Blk
    <3> HIDE DEF n
    <3> QED BY <3>1, <3>2
  <2> QED BY <2>1, <2>2
<1> HIDE DEF t, n
<1>4. /\ n \in Nat /\ q + n \in Nat /\ q + n < SnMod
      /\ \A i \in 1..n : Sending(k, i) \in KeptN(s, q + n)
  BY <1>1, <1>2, <1>3, SendingNumbered
<1>5. /\ k \in Blk(v) /\ v.queued = t.queued /\ v.kept = KeptN(s, q + n)
      /\ v.out = WireN(s, q + n) /\ v.acks = t.acks
  BY <1>1, <1>4, SendTFacts
<1> HIDE DEF v
<1>6. Writable(v, k, 1..s) /\ Bare("CLS") \in v.out BY <1>1, <1>2, <1>4, <1>5, SendWritable
<1>7. Bare("CLS") \in v.queued
  <2>1. "CLS" \in Cmd BY DEF Cmd
  <2>2. Bare("CLS") \in Seg(1..s) BY <2>1, BareType
  <2> QED BY <1>2, <1>5, <2>2 DEF PlainFor
<1>8. Updated(v, k, n, w)
  <2>1. k.close_state # "no" => Bare("CLS") \in v.out /\ Bare("CLS") \in v.queued
    BY <1>6, <1>7
  <2>2. \A i \in 1..n : Sending(k, i) \in v.kept BY <1>4, <1>5
  <2> QED BY <1>5, <1>6, <1>n, <2>1, <2>2, UpdateEffect
<1>9. SendSide(w.k, s, q + n) /\ w.out \in Seq(WireN(s, q + n))
  BY <1>1, <1>4, <1>5, <1>8, SendSideUpdated
<1>10. \A far, r : Held(k, far, q, r) => Held(w.k, far, q + n, r)
  <2>1. Len(k.snd_buf) \in Nat BY <1>1, LenProperties DEF Blk
  <2>2. k.snd_nxt = Sn(q) BY DEF SendSide
  <2> QED BY <1>4, <1>8, <2>1, <2>2, HeldUpdated
<1> QED BY <1>4, <1>9, <1>10

(* flush, of a block of end e. *)
LEMMA SendSideFlush ==
  ASSUME NEW e \in Ends, NEW k, BlockOK(e, k), sent[e] \in Nat, Half(sent[e]), NEW q \in Nat,
         SendSide(k, sent[e], q), NEW late, NEW w, w = Flush(k, late)
  PROVE  \E n \in Nat : /\ SendSide(w.k, sent[e], q + n)
                        /\ \A far, r : Held(k, far, q, r) => Held(w.k, far, q + n, r)
PROOF
<1> DEFINE s == sent[e]  n == Fitting(k)
<1>n. n = Fitting(k) OBVIOUS
<1> DEFINE t == Plain(e)  v == SendT(t, s, q + n)
<1>1. k \in Blk(t) BY DEF BlockOK
<1>2. PlainFor(t, s) BY PlainFacts DEF PlainFor, Unit
<1> HIDE DEF t, n
<1>3. n \in 0..Len(k.snd_queue) /\ \A i \in 1..n : Sending(k, i) \in Kept(1..s)
  <2>1. t.queued \subseteq Seg(1..s) BY <1>2 DEF PlainFor
  <2>2. n \in 0..Len(k.snd_queue) BY <1>1, <1>n, FillWindowEffect
  <2>3. \A i \in 1..n : Sending(k, i) \in Kept(1..s) BY <1>1, <1>n, <2>1, SendingType
  <2> QED BY <2>2, <2>3
<1>4. /\ n \in Nat /\ q + n \in Nat /\ q + n < SnMod
      /\ \A i \in 1..n : Sending(k, i) \in KeptN(s, q + n)
  BY <1>1, <1>2, <1>3, SendingNumbered
<1>5. /\ k \in Blk(v) /\ v.queued = t.queued /\ v.kept = KeptN(s, q + n)
      /\ v.out = WireN(s, q + n) /\ v.acks = t.acks
  BY <1>1, <1>4, SendTFacts
<1> HIDE DEF v
<1>6. Writable(v, k, 1..s) BY <1>1, <1>2, <1>4, <1>5, SendWritable
<1>7. Updated(v, k, n, w)
  <2>1. \A i \in 1..n : Sending(k, i) \in v.kept BY <1>4, <1>5
  <2>2. Flushed(v, k, n, w) BY <1>5, <1>6, <1>n, <2>1, FlushEffect
  <2> QED BY <2>2, FlushedUpdated
<1>8. SendSide(w.k, s, q + n) BY <1>1, <1>4, <1>5, <1>7, SendSideUpdated
<1>9. \A far, r : Held(k, far, q, r) => Held(w.k, far, q + n, r)
  <2>1. Len(k.snd_buf) \in Nat BY <1>1, LenProperties DEF Blk
  <2>2. k.snd_nxt = Sn(q) BY DEF SendSide
  <2> QED BY <1>4, <1>7, <2>1, <2>2, HeldUpdated
<1> QED BY <1>4, <1>8, <1>9

-----------------------------------------------------------------------------
(* The receiving side.  r units have passed move_buf, and g of them were      *)
(* given to the program, which takes the copy of CLS for the end of stream.   *)

RecvSide(k, s, q, r, g) ==
  /\ k.rcv_nxt = Sn(r) /\ r <= q /\ q <= s + 1
  /\ r = g + Len(k.rcv_queue) \/ (r = g + 1 + Len(k.rcv_queue) /\ g = s)
  /\ \A i \in 1..Len(k.rcv_queue) : k.rcv_queue[i].data = Carried(s, (r - Len(k.rcv_queue)) + i)
  /\ k.rcv_buf \in Seq(EarlyN(s, q))

(* At first nothing has been received. *)
LEMMA RecvSideInit == ASSUME NEW k, k = Construct(Start) PROVE RecvSide(k, 0, 0, 0, 0)
PROOF
<1>1. k.rcv_nxt = Start /\ k.rcv_queue = <<>> /\ k.rcv_buf = <<>>
  BY ConstructType, ConstantFacts
<1>2. Sn(0) = Start
  <2>1. 0 \in Nat /\ 0 < SnMod /\ Start \in Int /\ Start < SnMod BY ConstantFacts DEF Number
  <2>2. Sn(0) = IF Start + 0 < SnMod THEN Start + 0 ELSE Start + 0 - SnMod BY <2>1, SnCases
  <2> QED BY <2>1, <2>2
<1>3. <<>> \in Seq(EarlyN(0, 0)) /\ Len(<<>>) = 0 BY EmptySeq
<1>4. 0 = 0 + Len(<<>>) /\ \A i \in 1..Len(<<>>) : FALSE BY <1>3
<1>5. 0 <= 0 /\ 0 <= 0 + 1 OBVIOUS
<1> QED BY <1>1, <1>2, <1>3, <1>4, <1>5 DEF RecvSide

(* What leaves the receiving queues alone leaves the side as it was. *)
LEMMA RecvSideSame ==
  ASSUME NEW k, NEW s, NEW q, NEW r, NEW g, RecvSide(k, s, q, r, g),
         NEW k2, k2.rcv_nxt = k.rcv_nxt, k2.rcv_buf = k.rcv_buf, k2.rcv_queue = k.rcv_queue
  PROVE  RecvSide(k2, s, q, r, g) /\ Reach(k, r, k2, r)
PROOF BY DEF RecvSide, Reach, AtPeer

(* The sender writes, or gives numbers to more segments. *)
LEMMA RecvSideMore ==
  ASSUME NEW t, NEW k \in Blk(t), NEW s \in Nat, NEW q \in Nat, NEW s2 \in Nat, NEW q2 \in Nat,
         s <= s2, q <= q2, s = s2 \/ q <= s, q2 <= s2 + 1, NEW r \in Nat, NEW g \in Nat,
         RecvSide(k, s, q, r, g)
  PROVE  RecvSide(k, s2, q2, r, g)
PROOF
<1> DEFINE l == Len(k.rcv_queue)
<1>1. l \in Nat BY LenProperties DEF Blk
<1>2. /\ k.rcv_nxt = Sn(r) /\ r <= q /\ (r = g + l \/ (r = g + 1 + l /\ g = s))
      /\ \A i \in 1..l : k.rcv_queue[i].data = Carried(s, (r - l) + i)
      /\ k.rcv_buf \in Seq(EarlyN(s, q))
  BY DEF RecvSide
<1> HIDE DEF l
<1>3. r <= q2 BY <1>2
<1>4. r = g + l \/ (r = g + 1 + l /\ g = s2) BY <1>1, <1>2
<1>5. ASSUME NEW i \in 1..l PROVE k.rcv_queue[i].data = Carried(s2, (r - l) + i)
  <2>1. (r - l) + i \in Int /\ (r - l) + i <= r BY <1>1
  <2>2. s = s2 \/ ((r - l) + i <= s /\ (r - l) + i <= s2) BY <1>2, <2>1
  <2>3. k.rcv_queue[i].data = Carried(s, (r - l) + i) BY <1>2
  <2> QED BY <2>2, <2>3 DEF Carried
<1>6. k.rcv_buf \in Seq(EarlyN(s2, q2))
  <2>1. EarlyN(s, q) \subseteq EarlyN(s2, q2) BY NumberedMore
  <2> QED BY <1>2, <2>1, SeqMonotonic
<1> QED BY <1>2, <1>3, <1>4, <1>5, <1>6 DEF RecvSide, l

(* move_buf: what goes on to the reader is the next in the stream, by number. *)
LEMMA RecvSideMoved ==
  ASSUME NEW t, NEW k \in Blk(t), t.early \subseteq t.ready, NEW s \in Nat, Half(s),
         NEW q \in Nat, NEW r \in Nat, NEW g \in Nat,
         RecvSide(k, s, q, r, g), NEW k2, NEW n \in Nat, Moved(k, k2, n)
  PROVE  RecvSide(k2, s, q, r + n, g) /\ Reach(k, r, k2, r + n)
PROOF
<1> DEFINE l == Len(k.rcv_queue)  b == k.rcv_buf  m == SubSeq(b, 1, n)  l2 == Len(k2.rcv_queue)
<1>1. /\ k.rcv_queue \in Seq(t.ready) /\ b \in Seq(t.early) /\ l \in Nat /\ Len(b) \in Nat
  BY LenProperties DEF Blk
<1>2. /\ k.rcv_nxt = Sn(r) /\ r <= q /\ q <= s + 1 /\ (r = g + l \/ (r = g + 1 + l /\ g = s))
      /\ \A i \in 1..l : k.rcv_queue[i].data = Carried(s, (r - l) + i)
      /\ b \in Seq(EarlyN(s, q))
  BY DEF RecvSide
<1>3. /\ n \in 0..Len(b)
      /\ \A i \in 1..n : b[i].sn = (k.rcv_nxt + i - 1) % SnMod /\ l + i - 1 < RcvWnd
      /\ k2.rcv_nxt = (k.rcv_nxt + n) % SnMod
      /\ k2.rcv_queue = k.rcv_queue \o m /\ k2.rcv_buf = SubSeq(b, n + 1, Len(b))
  BY DEF Moved
<1>4. m \in Seq(t.early) /\ Len(m) = n /\ \A i \in 1..n : m[i] = b[i] BY <1>1, <1>3, PrefixFacts
<1>5. /\ k2.rcv_buf \in Seq(EarlyN(s, q)) /\ Len(k2.rcv_buf) = Len(b) - n
      /\ \A i \in 1..(Len(b) - n) : k2.rcv_buf[i] = b[n + i]
  BY <1>2, <1>3, SuffixFacts
<1>6. Joined(k.rcv_queue, m, k2.rcv_queue)
  <2>1. m \in Seq(t.ready) BY <1>4, SeqMonotonic
  <2> HIDE DEF m
  <2> QED BY <1>1, <1>3, <2>1, JoinedFacts
<1>7. /\ l2 = l + n /\ \A i \in 1..l : k2.rcv_queue[i] = k.rcv_queue[i]
      /\ \A i \in 1..n : k2.rcv_queue[l + i] = b[i]
  BY <1>4, <1>6 DEF Joined
<1>8. \A i \in 1..Len(b) : b[i] \in EarlyN(s, q) BY <1>2, ElementOfSeq
<1> HIDE DEF l, b, m, l2
<1>9. 2 * q <= SnMod /\ SnMod \in Nat /\ 2 * RcvWnd < SnMod /\ RcvWnd \in Nat
  BY <1>2, ConstantFacts DEF Half
<1>10. ASSUME NEW i \in 1..n
       PROVE  /\ r + i <= q /\ b[i].sn = Sn((r + i) - 1) /\ b[i].data = Carried(s, r + i)
  <2>1. i \in 1..Len(b) /\ i \in Nat /\ i - 1 \in Nat BY <1>1, <1>3
  <2>2. PICK u \in 1..q : b[i].sn = Sn(u - 1) /\ b[i].data = Carried(s, u)
    BY <1>8, <2>1 DEF EarlyN, Numbered
  <2>3. l + i - 1 < RcvWnd BY <1>3
  <2>4. r + (i - 1) < SnMod /\ r < SnMod BY <1>1, <1>2, <1>9, <2>1, <2>3
  <2>5. Sn(r) \in Int BY <2>4, SnCases
  <2>6. k.rcv_nxt + i - 1 = Sn(r) + (i - 1) BY <1>2, <2>1, <2>5
  <2>7. (Sn(r) + (i - 1)) % SnMod = Sn(r + (i - 1)) BY <2>1, <2>4, SnNext
  <2>8. b[i].sn = Sn(r + (i - 1)) BY <1>3, <2>6, <2>7
  <2>9. u - 1 \in Nat /\ u - 1 < SnMod /\ r + (i - 1) \in Nat BY <1>9, <2>1
  <2>10. u - 1 = r + (i - 1) BY <2>2, <2>4, <2>8, <2>9, SnInjective
  <2>11. u = r + i BY <2>1, <2>9, <2>10
  <2> QED BY <2>2, <2>11
<1>11. r + n <= q
  <2>1. CASE n = 0 BY <1>2, <2>1
  <2>2. CASE n # 0
    <3>1. n \in 1..n BY <2>2
    <3> QED BY <1>10, <3>1
  <2> QED BY <2>1, <2>2
<1>12. k2.rcv_nxt = Sn(r + n)
  <2>1. r + n < SnMod BY <1>9, <1>11, ConstantFacts
  <2> QED BY <1>2, <1>3, <2>1, SnNext
<1>13. r + n = g + l2 \/ (r + n = g + 1 + l2 /\ g = s) BY <1>1, <1>2, <1>7, SMTT(20)
<1>14. ASSUME NEW i \in 1..l2 PROVE k2.rcv_queue[i].data = Carried(s, ((r + n) - l2) + i)
  <2>1. (r + n) - l2 = r - l BY <1>1, <1>7
  <2>2. CASE i <= l
    <3>1. i \in 1..l BY <1>1, <2>2
    <3> QED BY <1>2, <1>7, <2>1, <3>1
  <2>3. CASE ~(i <= l)
    <3> DEFINE j == i - l
    <3>1. j \in 1..n /\ i = l + j /\ (r - l) + i = r + j BY <1>1, <1>7, <2>3
    <3> HIDE DEF j
    <3> QED BY <1>7, <1>10, <2>1, <3>1
  <2> QED BY <2>2, <2>3
<1>15. RecvSide(k2, s, q, r + n, g)
  BY <1>2, <1>5, <1>11, <1>12, <1>13, <1>14 DEF RecvSide, l2
<1>16. ASSUME NEW x, AtPeer(k, r, x) PROVE AtPeer(k2, r + n, x)
  <2>1. CASE \E u \in 1..r : x = Sn(u - 1)
    <3>1. \A u \in 1..r : u \in 1..(r + n) OBVIOUS
    <3> QED BY <2>1, <3>1 DEF AtPeer
  <2>2. CASE \E i \in 1..Len(b) : b[i].sn = x
    <3>1. PICK i \in 1..Len(b) : b[i].sn = x BY <2>2
    <3>2. CASE i <= n
      <4>1. i \in 1..n /\ r + i \in 1..(r + n) BY <1>1, <3>2
      <4> QED BY <1>10, <3>1, <4>1 DEF AtPeer
    <3>3. CASE ~(i <= n)
      <4> DEFINE j == i - n
      <4>1. j \in 1..(Len(b) - n) /\ n + j = i BY <1>1, <1>3, <3>3
      <4> HIDE DEF j
      <4>2. k2.rcv_buf[j].sn = x BY <1>5, <3>1, <4>1
      <4> QED BY <1>5, <4>1, <4>2 DEF AtPeer
    <3> QED BY <3>2, <3>3
  <2> QED BY <1>16, <2>1, <2>2 DEF AtPeer, b
<1> QED BY <1>15, <1>16 DEF Reach

(* Every acknowledgement that waits to be sent is of a segment that is held. *)
AcksHeld(k, r) == \A i \in 1..Len(k.acklist) : AtPeer(k, r, k.acklist[i])

(* One more acknowledgement, of a segment that is held. *)
LEMMA AcksAppend ==
  ASSUME NEW S, NEW k, NEW r, k.acklist \in Seq(S), AcksHeld(k, r),
         NEW x \in S, NEW k2, NEW r2, k2.acklist = Append(k.acklist, x),
         Reach(k, r, k2, r2), AtPeer(k2, r2, x)
  PROVE  AcksHeld(k2, r2)
PROOF
<1> DEFINE a == k.acklist
<1>1. /\ Len(a) \in Nat /\ Len(Append(a, x)) = Len(a) + 1
      /\ \A i \in 1..Len(a) : Append(a, x)[i] = a[i]
      /\ Append(a, x)[Len(a) + 1] = x
  BY LenProperties, AppendProperties
<1>2. k2.acklist = Append(a, x) OBVIOUS
<1>3. \A i \in 1..Len(a) : AtPeer(k2, r2, a[i]) BY DEF AcksHeld, Reach
<1>4. ASSUME NEW i \in 1..Len(k2.acklist) PROVE AtPeer(k2, r2, k2.acklist[i])
  <2>1. i \in 1..(Len(a) + 1) BY <1>1, <1>2
  <2>2. CASE i \in 1..Len(a) BY <1>1, <1>2, <1>3, <2>2
  <2>3. CASE i = Len(a) + 1 BY <1>1, <1>2, <2>3
  <2> HIDE DEF a
  <2> QED BY <1>1, <2>1, <2>2, <2>3
<1> QED BY <1>4 DEF AcksHeld

(* What is held through two steps is held. *)
LEMMA ReachTwice ==
  ASSUME NEW k, NEW r, NEW k1, NEW r1, NEW k2, NEW r2, Reach(k, r, k1, r1), Reach(k1, r1, k2, r2)
  PROVE  Reach(k, r, k2, r2)
PROOF BY DEF Reach

(* The same typing, where what waits to be put in order is numbered. *)
RecvT(t, s, q) ==
  [queued |-> t.queued, kept |-> t.kept, early |-> EarlyN(s, q), ready |-> t.ready,
   acks |-> t.acks, out |-> t.out]

(* input of a numbered segment: the side stays in order, holds what it held, *)
(* and acknowledges what it holds.                                           *)
LEMMA RecvSideInput ==
  ASSUME NEW t, NEW s \in Nat, Half(s), NEW q \in Nat, NEW r \in Nat, NEW g \in Nat,
         t.ready = Seg(1..s), t.acks = Number, \A x \in t.kept : x.sn \in Number,
         NEW k \in Blk(t), RecvSide(k, s, q, r, g),
         NEW p \in WireN(s, q), NEW k2, k2 = Input(k, p)
  PROVE  \E r2 \in Nat : /\ r <= r2 /\ RecvSide(k2, s, q, r2, g) /\ Reach(k, r, k2, r2)
                         /\ AcksHeld(k, r) => AcksHeld(k2, r2)
PROOF
<1> DEFINE v == RecvT(t, s, q)
<1>1. /\ v.queued = t.queued /\ v.kept = t.kept /\ v.early = EarlyN(s, q) /\ v.ready = t.ready
      /\ v.acks = Number /\ v.out = t.out
  BY DEF RecvT
<1> HIDE DEF v
<1>2. k.rcv_buf \in Seq(EarlyN(s, q)) BY DEF RecvSide
<1>3. k \in Blk(v) BY <1>1, <1>2 DEF Blk
<1>4. p \in Seg(1..s) /\ (p.cmd = "PUSH" => Numbered(p, s, q)) BY DEF WireN
<1>5. p.wnd \in 0..RcvWnd /\ p.cmd \in Cmd /\ p.sn \in Number BY <1>4 DEF Seg
<1>6. v.early \subseteq v.ready /\ (p.cmd = "PUSH" => p \in v.early) BY <1>1, <1>4 DEF EarlyN
<1>7. Taken(v, k, p, k2)
  <2>1. \A x \in v.kept : x.sn \in Number BY <1>1
  <2>2. p.cmd = "PUSH" => p \in v.early /\ p.sn \in v.acks /\ p.sn \in Number BY <1>1, <1>5, <1>6
  <2> QED BY <1>3, <1>5, <1>6, <2>1, <2>2, InputEffect
<1>8. k.acklist \in Seq(Number) BY <1>1, <1>3 DEF Blk
<1>9. CASE SameReceiver(k, k2)
  <2>1. /\ k2.rcv_nxt = k.rcv_nxt /\ k2.rcv_buf = k.rcv_buf /\ k2.rcv_queue = k.rcv_queue
        /\ k2.acklist = k.acklist
    BY <1>9 DEF SameReceiver
  <2>2. RecvSide(k2, s, q, r, g) /\ Reach(k, r, k2, r) BY <2>1, RecvSideSame
  <2>3. AcksHeld(k, r) => AcksHeld(k2, r) BY <2>1, <2>2 DEF AcksHeld, Reach
  <2> QED BY <2>2, <2>3
<1>10. CASE p.cmd = "PUSH" /\ Late(k, p, k2)
  <2>1. /\ TimeDiff(p.sn, k.rcv_nxt) < 0 /\ k2.acklist = Append(k.acklist, p.sn)
        /\ k2.rcv_nxt = k.rcv_nxt /\ k2.rcv_buf = k.rcv_buf /\ k2.rcv_queue = k.rcv_queue
    BY <1>10 DEF Late
  <2>2. RecvSide(k2, s, q, r, g) /\ Reach(k, r, k2, r) BY <2>1, RecvSideSame
  <2>3. k.rcv_nxt = Sn(r) /\ r <= q /\ q <= s + 1 BY DEF RecvSide
  <2>4. PICK u \in 1..q : p.sn = Sn(u - 1) BY <1>4, <1>10 DEF Numbered
  <2>5. SnMod \in Nat /\ 2 * q <= SnMod BY <2>3, ConstantFacts DEF Half
  <2>6. u - 1 \in Nat /\ 2 * (u - 1) <= SnMod /\ 2 * r <= SnMod /\ u \in Nat BY <2>3, <2>5
  <2>7. TimeDiff(Sn(u - 1), Sn(r)) < 0 BY <2>1, <2>3, <2>4
  <2>8. u - 1 < r \/ 2 * ((u - 1) - r) = SnMod BY <2>6, <2>7, SnDiff
  <2>9. u \in 1..r BY <2>4, <2>5, <2>6, <2>8
  <2>10. AtPeer(k2, r, p.sn) BY <2>4, <2>9 DEF AtPeer
  <2>11. AcksHeld(k, r) => AcksHeld(k2, r) BY <1>5, <1>8, <2>1, <2>2, <2>10, AcksAppend
  <2> QED BY <2>2, <2>11
<1>11. CASE p.cmd = "PUSH" /\ Arrived(v, k, p, k2)
  <2>1. PICK k1 \in Blk(v), n \in Nat : Placed(k, k1, p) /\ Moved(k1, k2, n)
    BY <1>11 DEF Arrived
  <2>2. k2.acklist = Append(k.acklist, p.sn) BY <1>11 DEF Arrived
  <2>3. RecvSide(k1, s, q, r, g)
    <3>1. k1.rcv_buf \in Seq(EarlyN(s, q)) BY <1>1 DEF Blk
    <3>2. k1.rcv_nxt = k.rcv_nxt /\ k1.rcv_queue = k.rcv_queue BY <2>1 DEF Placed
    <3> QED BY <3>1, <3>2 DEF RecvSide
  <2>4. Reach(k, r, k1, r) /\ AtPeer(k1, r, p.sn)
    <3>1. \A j \in 1..Len(k.rcv_buf) : \E i \in 1..Len(k1.rcv_buf) : k1.rcv_buf[i] = k.rcv_buf[j]
      BY <2>1 DEF Placed
    <3>2. \E i \in 1..Len(k1.rcv_buf) : k1.rcv_buf[i].sn = p.sn BY <2>1 DEF Placed
    <3>3. AtPeer(k1, r, p.sn) BY <3>2 DEF AtPeer
    <3>4. ASSUME NEW x, AtPeer(k, r, x) PROVE AtPeer(k1, r, x)
      <4>1. CASE \E u \in 1..r : x = Sn(u - 1) BY <4>1 DEF AtPeer
      <4>2. CASE \E j \in 1..Len(k.rcv_buf) : k.rcv_buf[j].sn = x
        <5>1. PICK j \in 1..Len(k.rcv_buf) : k.rcv_buf[j].sn = x BY <4>2
        <5>2. PICK i \in 1..Len(k1.rcv_buf) : k1.rcv_buf[i] = k.rcv_buf[j] BY <3>1
        <5>3. k1.rcv_buf[i].sn = x BY <5>1, <5>2
        <5> QED BY <5>3 DEF AtPeer
      <4> QED BY <3>4, <4>1, <4>2 DEF AtPeer
    <3> QED BY <3>3, <3>4 DEF Reach
  <2>5. RecvSide(k2, s, q, r + n, g) /\ Reach(k1, r, k2, r + n)
    BY <1>6, <2>1, <2>3, RecvSideMoved
  <2>6. Reach(k, r, k2, r + n) /\ AtPeer(k2, r + n, p.sn)
    BY <2>4, <2>5, ReachTwice DEF Reach
  <2>7. AcksHeld(k, r) => AcksHeld(k2, r + n) BY <1>5, <1>8, <2>2, <2>6, AcksAppend
  <2>8. r + n \in Nat /\ r <= r + n BY <2>1
  <2> QED BY <2>5, <2>6, <2>7, <2>8
<1> QED BY <1>7, <1>9, <1>10, <1>11 DEF Taken, Received

(* data, y units, has been handed to the program, which had g units before. *)
Handed(k, k2, data, s, q, r, g, y, r2) ==
  /\ data \in Seq(Nat) /\ Len(data) = y /\ \A j \in 1..y : data[j] = g + j
  /\ g + y <= s /\ (y = 0 => g = s /\ q = s + 1)
  /\ r <= r2 /\ RecvSide(k2, s, q, r2, g + y) /\ Reach(k, r, k2, r2)

(* recv: the program is given the units that follow those it had, or the end of *)
(* the stream when all the units were given to it and the sender is closing.    *)
LEMMA RecvSideFetch ==
  ASSUME NEW t, NEW s \in Nat, Half(s), NEW q \in Nat, NEW r \in Nat, NEW g \in Nat,
         t.ready = Seg(1..s), t.early \subseteq t.ready,
         NEW k \in Blk(t), RecvSide(k, s, q, r, g), NEW x \in 1..Len(k.rcv_queue),
         NEW front, front = SubSeq(k.rcv_queue, 1, x), NEW k2, Fetched(t, k, x, k2)
  PROVE  \E y \in Nat, r2 \in Nat : Handed(k, k2, DataOf(front), s, q, r, g, y, r2)
PROOF
<1> DEFINE l == Len(k.rcv_queue)  y == IF x <= s - g THEN x ELSE s - g
<1>1. k.rcv_queue \in Seq(Seg(1..s)) /\ l \in Nat BY LenProperties DEF Blk
<1>2. /\ k.rcv_nxt = Sn(r) /\ r <= q /\ q <= s + 1 /\ (r = g + l \/ (r = g + 1 + l /\ g = s))
      /\ \A i \in 1..l : k.rcv_queue[i].data = Carried(s, (r - l) + i)
      /\ k.rcv_buf \in Seq(EarlyN(s, q))
  BY DEF RecvSide
<1>x. x \in 1..l OBVIOUS
<1>3. PICK k1 \in Blk(t), n \in Nat :
        /\ k1.rcv_nxt = k.rcv_nxt /\ k1.rcv_buf = k.rcv_buf
        /\ k1.rcv_queue = SubSeq(k.rcv_queue, x + 1, l)
        /\ Moved(k1, k2, n)
  BY DEF Fetched
<1>4. /\ front \in Seq(Seg(1..s)) /\ Len(front) = x
      /\ \A i \in 1..x : front[i] = k.rcv_queue[i]
  <2>1. x \in 0..Len(k.rcv_queue) BY <1>1
  <2> QED BY <1>1, <2>1, PrefixFacts
<1>5. /\ Len(k1.rcv_queue) = l - x
      /\ \A i \in 1..(l - x) : k1.rcv_queue[i] = k.rcv_queue[x + i]
  <2>1. x \in 0..Len(k.rcv_queue) BY <1>1
  <2> QED BY <1>1, <1>3, <2>1, SuffixFacts
<1>y. y = (IF x <= s - g THEN x ELSE s - g) OBVIOUS
<1> HIDE DEF l, y
<1>6. r = g + l /\ g <= s /\ x \in Nat /\ x >= 1 /\ x <= l BY <1>1, <1>2, <1>x
<1>7. /\ y \in Nat /\ y <= x /\ g + y <= s /\ (y = 0 => g = s /\ q = s + 1)
      /\ x = y \/ (x = y + 1 /\ g + y = s)
  BY <1>1, <1>2, <1>6, <1>y
<1>8. DataOf(front) \in Seq(Nat) /\ Len(DataOf(front)) = y /\ \A j \in 1..y : DataOf(front)[j] = g + j
  <2> DEFINE seqs == [i \in DOMAIN front |-> front[i].data]  elem(i) == front[i].data
  <2>1. DOMAIN front = 1..x BY <1>4, LenProperties
  <2>2. seqs = [i \in 1..x |-> elem(i)] BY <2>1
  <2>3. \A i \in 1..x : elem(i) = IF i <= y THEN <<g + i>> ELSE <<>>
    <3>1. ASSUME NEW i \in 1..x PROVE elem(i) = IF i <= y THEN <<g + i>> ELSE <<>>
      <4>1. i \in 1..l /\ (r - l) + i = g + i /\ (g + i <= s <=> i <= y)
        BY <1>1, <1>6, <1>7, <1>y
      <4>2. front[i].data = Carried(s, g + i) BY <1>2, <1>4, <4>1
      <4> QED BY <4>1, <4>2 DEF Carried
    <3> QED BY <3>1
  <2>4. \A i \in 1..x : elem(i) \in Seq(Nat)
    <3>1. ASSUME NEW i \in 1..x PROVE elem(i) \in Seq(Nat)
      <4>1. g + i \in Nat OBVIOUS
      <4>2. <<g + i>> \in Seq(Nat) /\ <<>> \in Seq(Nat) BY <4>1, ShortFacts
      <4> QED BY <2>3, <4>2
    <3> QED BY <3>1
  <2> HIDE DEF elem
  <2>5. [i \in 1..x |-> elem(i)] \in Seq(Seq(Nat)) BY <1>6, <2>4, IsASeq
  <2>7. DataOf(front) = FlattenSeq(seqs) BY DEF DataOf
  <2> HIDE DEF seqs
  <2>a. x \in Nat BY <1>6
  <2>b. Len([i \in 1..x |-> elem(i)]) = x BY <2>a
  <2>c. \A i \in 1..x : [j \in 1..x |-> elem(j)][i] = elem(i) OBVIOUS
  <2>6. seqs \in Seq(Seq(Nat)) /\ Len(seqs) = x /\ \A i \in 1..x : seqs[i] = elem(i)
    BY <2>2, <2>5, <2>b, <2>c
  <2>8. /\ FlattenSeq(seqs) \in Seq(Nat) /\ Len(FlattenSeq(seqs)) = y
        /\ \A j \in 1..y : FlattenSeq(seqs)[j] = g + j
    <3>1. y \in 0..Len(seqs) /\ Len(seqs) > 0 BY <1>6, <1>7, <2>6
    <3>2. \A i \in 1..Len(seqs) : seqs[i] = IF i <= y THEN <<g + i>> ELSE <<>> BY <2>3, <2>6
    <3> QED BY <2>6, <3>1, <3>2, FlattenCount
  <2> QED BY <2>7, <2>8
<1>9. RecvSide(k1, s, q, r, g + y) /\ Reach(k, r, k1, r)
  <2> DEFINE l1 == Len(k1.rcv_queue)
  <2>1. l1 = l - x BY <1>5
  <2>2. r = (g + y) + l1 \/ (r = (g + y) + 1 + l1 /\ g + y = s) BY <1>1, <1>6, <1>7, <2>1
  <2>3. ASSUME NEW i \in 1..l1 PROVE k1.rcv_queue[i].data = Carried(s, (r - l1) + i)
    <3>1. i \in 1..(l - x) /\ x + i \in 1..l /\ (r - l1) + i = (r - l) + (x + i)
      BY <1>1, <1>6, <2>1
    <3> QED BY <1>2, <1>5, <3>1
  <2>4. RecvSide(k1, s, q, r, g + y) BY <1>2, <1>3, <2>2, <2>3 DEF RecvSide
  <2>5. Reach(k, r, k1, r) BY <1>3 DEF Reach, AtPeer
  <2> QED BY <2>4, <2>5
<1>10. RecvSide(k2, s, q, r + n, g + y) /\ Reach(k1, r, k2, r + n)
  <2>1. g + y \in Nat BY <1>7
  <2> QED BY <1>3, <1>9, <2>1, RecvSideMoved
<1>11. Reach(k, r, k2, r + n) /\ r + n \in Nat /\ r <= r + n BY <1>9, <1>10, ReachTwice
<1> QED BY <1>7, <1>8, <1>10, <1>11 DEF Handed

-----------------------------------------------------------------------------
(* What the sender is told.  A datagram of the other end acknowledges, by its *)
(* una or as an ACK, nothing that the other end does not hold.  CLS and CLF   *)
(* are made without a una: theirs is 0, whatever the numbers have got to.     *)

Told(k, r, p) ==
  /\ p.cmd = "ACK" => AtPeer(k, r, p.sn)
  /\ p.cmd \in {"CLS", "CLF"} => p.una = 0 /\ k.close_state # "no"
  /\ p.cmd \notin {"CLS", "CLF"} => \E u \in 0..r : p.una = Sn(u)

AckSide(k, r) == AcksHeld(k, r) /\ \A i \in 1..Len(k.buf) : Told(k, r, k.buf[i])

(* What was told truly stays true while the receiver forgets nothing. *)
LEMMA ToldMore ==
  ASSUME NEW k, NEW r \in Nat, NEW k2, NEW r2 \in Nat, r <= r2, Reach(k, r, k2, r2),
         k.close_state # "no" => k2.close_state # "no"
  PROVE  \A p : Told(k, r, p) => Told(k2, r2, p)
PROOF
<1>1. \A u \in 0..r : u \in 0..r2 OBVIOUS
<1> QED BY <1>1 DEF Told, Reach

(* So does what waits to be told. *)
LEMMA AckSideMore ==
  ASSUME NEW k, NEW r \in Nat, NEW k2, NEW r2 \in Nat, r <= r2, Reach(k, r, k2, r2),
         k.close_state # "no" => k2.close_state # "no", k2.buf = k.buf,
         AckSide(k, r), AcksHeld(k, r) => AcksHeld(k2, r2)
  PROVE  AckSide(k2, r2)
PROOF BY ToldMore DEF AckSide

(* The same typing, where what is acknowledged is held. *)
AckT(t, k, r, U) ==
  [queued |-> t.queued, kept |-> t.kept, early |-> t.early, ready |-> t.ready,
   acks |-> {x \in Number : AtPeer(k, r, x)}, out |-> {p \in Seg(U) : Told(k, r, p)}]

(* A receiving side that is as it should be is typed by the true *)
(* acknowledgements.                                             *)
LEMMA AckTFacts ==
  ASSUME NEW t, NEW U, NEW k \in Blk(t), t.acks = Number, t.out = Seg(U), t.kept = Kept(U),
         NEW r \in Nat, AckSide(k, r), k.rcv_nxt = Sn(r), NEW v, v = AckT(t, k, r, U)
  PROVE  /\ k \in Blk(v) /\ v.queued = t.queued /\ v.kept = t.kept
         /\ v.acks = {x \in Number : AtPeer(k, r, x)} /\ v.out = {p \in Seg(U) : Told(k, r, p)}
         /\ Writable(v, k, U) /\ (k.close_state # "no" => Bare("CLS") \in v.out)
PROOF
<1>1. /\ v.queued = t.queued /\ v.kept = t.kept /\ v.early = t.early /\ v.ready = t.ready
      /\ v.acks = {x \in Number : AtPeer(k, r, x)} /\ v.out = {p \in Seg(U) : Told(k, r, p)}
  BY DEF AckT
<1>2. k.acklist \in Seq(v.acks)
  <2>1. k.acklist \in Seq(Number) BY DEF Blk
  <2>2. \A i \in 1..Len(k.acklist) : k.acklist[i] \in v.acks
    <3>1. \A i \in 1..Len(k.acklist) : k.acklist[i] \in Number BY <2>1, ElementOfSeq
    <3> QED BY <1>1, <3>1 DEF AckSide, AcksHeld
  <2> QED BY <2>1, <2>2, SeqNarrow
<1>3. k.buf \in Seq(v.out)
  <2>1. k.buf \in Seq(Seg(U)) BY DEF Blk
  <2>2. \A i \in 1..Len(k.buf) : k.buf[i] \in v.out
    <3>1. \A i \in 1..Len(k.buf) : k.buf[i] \in Seg(U) BY <2>1, ElementOfSeq
    <3> QED BY <1>1, <3>1 DEF AckSide
  <2> QED BY <2>1, <2>2, SeqNarrow
<1>4. k \in Blk(v) BY <1>1, <1>2, <1>3 DEF Blk
<1>5. r \in 0..r OBVIOUS
<1>6. \A x \in Kept(U) : OnWire(k, x) \in v.out
  <2>1. ASSUME NEW x \in Kept(U) PROVE OnWire(k, x) \in v.out
    <3>1. OnWire(k, x) \in Seg(U) /\ OnWire(k, x).cmd = "PUSH" /\ OnWire(k, x).una = k.rcv_nxt
      BY OnWireType
    <3>2. Told(k, r, OnWire(k, x)) BY <1>5, <3>1 DEF Told
    <3> QED BY <1>1, <3>1, <3>2
  <2> QED BY <2>1
<1>7. \A x \in v.acks : Answer(k, "ACK", x) \in v.out
  <2>1. ASSUME NEW x \in v.acks PROVE Answer(k, "ACK", x) \in v.out
    <3>1. x \in Number /\ AtPeer(k, r, x) /\ "ACK" \in Cmd BY <1>1 DEF Cmd
    <3>2. /\ Answer(k, "ACK", x) \in Seg(U) /\ Answer(k, "ACK", x).cmd = "ACK"
          /\ Answer(k, "ACK", x).sn = x /\ Answer(k, "ACK", x).una = k.rcv_nxt
      BY <3>1, AnswerType
    <3>3. Told(k, r, Answer(k, "ACK", x)) BY <1>5, <3>1, <3>2 DEF Told
    <3> QED BY <1>1, <3>2, <3>3
  <2> QED BY <2>1
<1>8. \A c \in {"WASK", "WINS"} : Answer(k, c, 0) \in v.out
  <2>1. ASSUME NEW c \in {"WASK", "WINS"} PROVE Answer(k, c, 0) \in v.out
    <3>1. c \in Cmd /\ 0 \in Number /\ c # "ACK" /\ c \notin {"CLS", "CLF"}
      BY ConstantFacts DEF Cmd, Number
    <3>2. /\ Answer(k, c, 0) \in Seg(U) /\ Answer(k, c, 0).cmd = c
          /\ Answer(k, c, 0).una = k.rcv_nxt
      BY <3>1, AnswerType
    <3>3. Told(k, r, Answer(k, c, 0)) BY <1>5, <3>1, <3>2 DEF Told
    <3> QED BY <1>1, <3>2, <3>3
  <2> QED BY <2>1
<1>9. \A x \in Kept(U) : [x EXCEPT !.xmit = @ + 1] \in Kept(U) BY DEF Kept
<1>10. Writable(v, k, U) BY <1>1, <1>6, <1>7, <1>8, <1>9 DEF Writable
<1>11. k.close_state # "no" => Bare("CLS") \in v.out
  <2>1. "CLS" \in Cmd BY DEF Cmd
  <2>2. Bare("CLS") \in Seg(U) BY <2>1, BareType
  <2>3. k.close_state # "no" => Told(k, r, Bare("CLS")) BY DEF Told, Bare
  <2> QED BY <1>1, <2>2, <2>3
<1> QED BY <1>1, <1>4, <1>10, <1>11

(* What update leaves to be told, and what it sends, is true. *)
LEMMA AckSideUpdated ==
  ASSUME NEW t, NEW U, NEW k, NEW r \in Nat, NEW v, NEW n, NEW w, Updated(v, k, n, w),
         v.acks = {x \in Number : AtPeer(k, r, x)}, v.out = {p \in Seg(U) : Told(k, r, p)}
  PROVE  AckSide(w.k, r) /\ Reach(k, r, w.k, r) /\ \A i \in 1..Len(w.out) : Told(w.k, r, w.out[i])
PROOF
<1>1. /\ w.k.rcv_buf = k.rcv_buf /\ w.k.acklist \in Seq(v.acks) /\ w.k.buf \in Seq(v.out)
      /\ w.out \in Seq(v.out)
  BY DEF Updated, Blk
<1>2. k.close_state # "no" => w.k.close_state # "no" BY DEF Updated
<1>3. Reach(k, r, w.k, r) BY <1>1 DEF Reach, AtPeer
<1>4. \A p : Told(k, r, p) => Told(w.k, r, p) BY <1>2, <1>3, ToldMore
<1>5. AcksHeld(w.k, r)
  <2>1. \A i \in 1..Len(w.k.acklist) : w.k.acklist[i] \in v.acks BY <1>1, ElementOfSeq
  <2> QED BY <1>3, <2>1 DEF AcksHeld, Reach
<1>6. \A i \in 1..Len(w.k.buf) : Told(w.k, r, w.k.buf[i])
  <2>1. \A i \in 1..Len(w.k.buf) : w.k.buf[i] \in v.out BY <1>1, ElementOfSeq
  <2> QED BY <1>4, <2>1
<1>7. \A i \in 1..Len(w.out) : Told(w.k, r, w.out[i])
  <2>1. \A i \in 1..Len(w.out) : w.out[i] \in v.out BY <1>1, ElementOfSeq
  <2> QED BY <1>4, <2>1
<1> QED BY <1>3, <1>5, <1>6, <1>7 DEF AckSide

(* update, of a block of end e. *)
LEMMA AckSideUpdate ==
  ASSUME NEW e \in Ends, NEW k, BlockOK(e, k), NEW r \in Nat, AckSide(k, r), k.rcv_nxt = Sn(r),
         NEW flushes \in BOOLEAN, NEW late, NEW w, w = Update(k, flushes, late)
  PROVE  AckSide(w.k, r) /\ Reach(k, r, w.k, r) /\ \A i \in 1..Len(w.out) : Told(w.k, r, w.out[i])
PROOF
<1> DEFINE t == Plain(e)  U == Unit(e)  v == AckT(t, k, r, U)
           n == IF flushes THEN Fitting(k) ELSE 0
<1>n. n = (IF flushes THEN Fitting(k) ELSE 0) OBVIOUS
<1>1. /\ k \in Blk(t) /\ t.acks = Number /\ t.out = Seg(U) /\ t.kept = Kept(U)
      /\ t.queued = Seg(U)
  BY PlainFacts DEF BlockOK
<1> HIDE DEF n, t, U
<1>2. /\ k \in Blk(v) /\ v.queued = t.queued /\ v.kept = t.kept
      /\ v.acks = {x \in Number : AtPeer(k, r, x)} /\ v.out = {p \in Seg(U) : Told(k, r, p)}
      /\ Writable(v, k, U) /\ (k.close_state # "no" => Bare("CLS") \in v.out)
  BY <1>1, AckTFacts
<1> HIDE DEF v
<1>3. \A i \in 1..n : Sending(k, i) \in v.kept
  <2>1. CASE flushes
    <3>1. n = Fitting(k) BY <1>n, <2>1
    <3>2. \A i \in 1..n : Sending(k, i) \in Kept(U) BY <1>1, <3>1, SendingType
    <3> QED BY <1>1, <1>2, <3>2
  <2>2. CASE ~flushes
    <3>1. n = 0 BY <1>n, <2>2
    <3> QED BY <3>1
  <2> QED BY <2>1, <2>2
<1>4. Bare("CLS") \in v.queued
  <2>1. "CLS" \in Cmd BY DEF Cmd
  <2> QED BY <1>1, <1>2, <2>1, BareType
<1>5. Updated(v, k, n, w)
  <2>1. k.close_state # "no" => Bare("CLS") \in v.out /\ Bare("CLS") \in v.queued BY <1>2, <1>4
  <2> QED BY <1>2, <1>3, <1>n, <2>1, UpdateEffect
<1> QED BY <1>2, <1>5, AckSideUpdated

(* flush, of a block of end e. *)
LEMMA AckSideFlush ==
  ASSUME NEW e \in Ends, NEW k, BlockOK(e, k), NEW r \in Nat, AckSide(k, r), k.rcv_nxt = Sn(r),
         NEW late, NEW w, w = Flush(k, late)
  PROVE  AckSide(w.k, r) /\ Reach(k, r, w.k, r)
PROOF
<1> DEFINE t == Plain(e)  U == Unit(e)  v == AckT(t, k, r, U)  n == Fitting(k)
<1>n. n = Fitting(k) OBVIOUS
<1>1. /\ k \in Blk(t) /\ t.acks = Number /\ t.out = Seg(U) /\ t.kept = Kept(U)
      /\ t.queued = Seg(U)
  BY PlainFacts DEF BlockOK
<1> HIDE DEF n, t, U
<1>2. /\ k \in Blk(v) /\ v.queued = t.queued /\ v.kept = t.kept
      /\ v.acks = {x \in Number : AtPeer(k, r, x)} /\ v.out = {p \in Seg(U) : Told(k, r, p)}
      /\ Writable(v, k, U)
  BY <1>1, AckTFacts
<1> HIDE DEF v
<1>3. \A i \in 1..n : Sending(k, i) \in v.kept
  <2>1. \A i \in 1..n : Sending(k, i) \in Kept(U) BY <1>1, <1>n, SendingType
  <2> QED BY <1>1, <1>2, <2>1
<1>4. Updated(v, k, n, w)
  <2>1. Flushed(v, k, n, w) BY <1>2, <1>3, <1>n, FlushEffect
  <2> QED BY <2>1, FlushedUpdated
<1> QED BY <1>2, <1>4, AckSideUpdated

(* The sender. *)
LEMMA HeldReach ==
  ASSUME NEW k, NEW q, NEW far, NEW r, Held(k, far, q, r), NEW far2, NEW r2,
         Reach(far, r, far2, r2), NEW k2, k2.snd_buf = k.snd_buf
  PROVE  Held(k2, far2, q, r2)
PROOF BY DEF Held, Reach

(* An acknowledgement that was told truly takes out only what the receiver has. *)
LEMMA HeldInput ==
  ASSUME NEW s \in Nat, Half(s), NEW q \in Nat, q <= s + 1, NEW r \in Nat, r <= q,
         NEW k, NEW far, Held(k, far, q, r), NEW p, Told(far, r, p),
         far.close_state = "no" \/ 2 * (Start + s + 1) <= SnMod,
         NEW k2, OnlyAcked(p, k.snd_buf, k2.snd_buf)
  PROVE  Held(k2, far, q, r)
PROOF
<1>0. /\ SnMod \in Nat \ {0} /\ Start \in Int /\ 2 * q <= SnMod /\ 2 * r <= SnMod
  BY ConstantFacts DEF Half, Number
<1>1. ASSUME NEW u \in 1..q
      PROVE  AtPeer(far, r, Sn(u - 1)) \/ \E i \in 1..Len(k2.snd_buf) : k2.snd_buf[i].sn = Sn(u - 1)
  <2>1. CASE AtPeer(far, r, Sn(u - 1)) BY <2>1
  <2>2. CASE \E i \in 1..Len(k.snd_buf) : k.snd_buf[i].sn = Sn(u - 1)
    <3>1. PICK i \in 1..Len(k.snd_buf) : k.snd_buf[i].sn = Sn(u - 1) BY <2>2
    <3>2. Acknowledges(p, Sn(u - 1)) \/ \E j \in 1..Len(k2.snd_buf) : k2.snd_buf[j] = k.snd_buf[i]
      BY <3>1 DEF OnlyAcked
    <3>3. CASE \E j \in 1..Len(k2.snd_buf) : k2.snd_buf[j] = k.snd_buf[i] BY <3>1, <3>3
    <3>4. CASE p.cmd = "ACK" /\ Sn(u - 1) = p.sn BY <3>4 DEF Told
    <3>5. CASE TimeDiff(p.una, Sn(u - 1)) > 0
      <4>1. u \in Nat /\ u - 1 \in Nat /\ u - 1 <= s /\ 2 * (u - 1) <= SnMod BY <1>0
      <4>2. CASE p.cmd \in {"CLS", "CLF"}
        <5>1. p.una = 0 /\ 2 * (Start + s + 1) <= SnMod BY <4>2 DEF Told
        <5>2. 2 * (Start + (u - 1)) < SnMod BY <1>0, <4>1, <5>1
        <5> QED BY <3>5, <4>1, <5>1, <5>2, SnFromZero
      <4>3. CASE p.cmd \notin {"CLS", "CLF"}
        <5>1. PICK v \in 0..r : p.una = Sn(v) BY <4>3 DEF Told
        <5>2. v \in Nat /\ 2 * v <= SnMod BY <1>0
        <5>3. v > u - 1 BY <3>5, <4>1, <5>1, <5>2, SnDiff
        <5>4. u \in 1..r BY <4>1, <5>2, <5>3
        <5> QED BY <5>4 DEF AtPeer
      <4> QED BY <4>2, <4>3
    <3> QED BY <3>2, <3>3, <3>4, <3>5 DEF Acknowledges
  <2> QED BY <2>1, <2>2 DEF Held
<1> QED BY <1>1 DEF Held

-----------------------------------------------------------------------------
(* A direction as a whole.  k has taken s units of its program and sends to   *)
(* far, which has handed g of them on; the datagrams in to are under way to   *)
(* far, those in back to k.                                                   *)
Low(far, s) == far.close_state = "no" \/ 2 * (Start + s + 1) <= SnMod
Flows(k, far, s, g, to, back, q, r) ==
  /\ SendSide(k, s, q) /\ RecvSide(far, s, q, r, g) /\ to \in Seq(WireN(s, q))
  /\ AckSide(far, r) /\ \A i \in 1..Len(back) : Told(far, r, back[i])
  /\ Low(far, s) => Held(k, far, q, r)
Flow(k, far, s, g, to, back) == \E q, r \in Nat : Flows(k, far, s, g, to, back, q, r)

(* What is under way after datagrams were lost, repeated or taken, a dead session *)
(* refused one, or others that carry no data were sent.                          *)
Onward(s, to, to2) ==
  /\ to2 \in Seq(Seg(1..s))
  /\ \A i \in 1..Len(to2) : to2[i].cmd # "PUSH" \/ \E j \in 1..Len(to) : to2[i] = to[j]
Backward(far2, back, back2) ==
  \A i \in 1..Len(back2) : \/ back2[i] = Bare("CLF") /\ far2.close_state # "no"
                           \/ \E j \in 1..Len(back) : back2[i] = back[j]

(* The receiver changes, and what is under way to the sender: what has to hold *)
(* for the acknowledgements to stay true.                                      *)
LEMMA ToldAll ==
  ASSUME NEW far, NEW r \in Nat, NEW far2, NEW r2 \in Nat, r <= r2, Reach(far, r, far2, r2),
         far.close_state # "no" => far2.close_state # "no",
         NEW back, \A i \in 1..Len(back) : Told(far, r, back[i]),
         NEW back2, Backward(far2, back, back2)
  PROVE  \A i \in 1..Len(back2) : Told(far2, r2, back2[i])
PROOF
<1>1. ASSUME NEW i \in 1..Len(back2) PROVE Told(far2, r2, back2[i])
  <2>1. CASE back2[i] = Bare("CLF") /\ far2.close_state # "no"
    <3>1. back2[i].cmd = "CLF" /\ back2[i].una = 0 BY <2>1 DEF Bare
    <3> QED BY <2>1, <3>1 DEF Told
  <2>2. CASE \E j \in 1..Len(back) : back2[i] = back[j]
    <3>1. PICK j \in 1..Len(back) : back2[i] = back[j] BY <2>2
    <3>2. Told(far, r, back[j]) OBVIOUS
    <3>3. Told(far2, r2, back[j]) BY <3>2, ToldMore
    <3> QED BY <3>1, <3>3
  <2> QED BY <2>1, <2>2 DEF Backward
<1> QED BY <1>1

(* Steps that leave the queues alone: datagrams are lost, repeated or refused, *)
(* and the state of the close moves on.                                        *)
LEMMA FlowQuiet ==
  ASSUME NEW k, NEW far, NEW s \in Nat, NEW g, NEW to, NEW back, Flow(k, far, s, g, to, back),
         NEW k2, SameSender(k, k2), k2.buf = k.buf,
         Shutting(k.close_state) => Shutting(k2.close_state),
         NEW far2, SameReceiver(far, far2), far2.buf = far.buf,
         far.close_state # "no" => far2.close_state # "no",
         NEW to2, Onward(s, to, to2),
         NEW back2, Backward(far2, back, back2)
  PROVE  Flow(k2, far2, s, g, to2, back2)
PROOF
<1>1. PICK q \in Nat, r \in Nat : Flows(k, far, s, g, to, back, q, r) BY DEF Flow
<1>2. /\ SendSide(k, s, q) /\ RecvSide(far, s, q, r, g) /\ to \in Seq(WireN(s, q))
      /\ AckSide(far, r) /\ \A i \in 1..Len(back) : Told(far, r, back[i])
      /\ Low(far, s) => Held(k, far, q, r)
  BY <1>1 DEF Flows
<1>3. SendSide(k2, s, q) BY <1>2, SendSideSame
<1>4. RecvSide(far2, s, q, r, g) /\ Reach(far, r, far2, r)
  BY <1>2, RecvSideSame DEF SameReceiver
<1>5. to2 \in Seq(WireN(s, q))
  <2>1. ASSUME NEW i \in 1..Len(to2) PROVE to2[i] \in WireN(s, q)
    <3>1. to2[i] \in Seg(1..s) BY ElementOfSeq DEF Onward
    <3>2. CASE to2[i].cmd # "PUSH" BY <3>1, <3>2 DEF WireN
    <3>3. CASE \E j \in 1..Len(to) : to2[i] = to[j] BY <1>2, <3>3, ElementOfSeq
    <3> QED BY <3>2, <3>3 DEF Onward
  <2>2. to2 \in Seq(Seg(1..s)) BY DEF Onward
  <2> QED BY <2>1, <2>2, SeqNarrow
<1>6. r <= r BY <1>1
<1>7. AckSide(far2, r)
  <2>1. AcksHeld(far, r) => AcksHeld(far2, r) BY <1>4 DEF AcksHeld, Reach, SameReceiver
  <2> QED BY <1>2, <1>4, <1>6, <2>1, AckSideMore
<1>8. \A i \in 1..Len(back2) : Told(far2, r, back2[i])
  BY <1>2, <1>4, <1>6, ToldAll
<1>9. Low(far2, s) => Held(k2, far2, q, r)
  <2>1. Low(far2, s) => Low(far, s) BY DEF Low
  <2>2. k2.snd_buf = k.snd_buf BY DEF SameSender
  <2> QED BY <1>2, <1>4, <2>1, <2>2, HeldReach
<1> QED BY <1>3, <1>4, <1>5, <1>7, <1>8, <1>9 DEF Flow, Flows

(* send. *)
LEMMA FlowWrite ==
  ASSUME NEW t, NEW t2, NEW t3, NEW k \in Blk(t), NEW far \in Blk(t3), NEW s \in Nat, NEW g \in Nat,
         NEW to, NEW back, Flow(k, far, s, g, to, back), k.close_state = "no",
         NEW n \in Nat, n >= 1, NEW k2, Queued(t2, k, n, s, k2)
  PROVE  Flow(k2, far, s + n, g, to, back)
PROOF
<1>1. PICK q \in Nat, r \in Nat : Flows(k, far, s, g, to, back, q, r) BY DEF Flow
<1>2. /\ SendSide(k, s, q) /\ RecvSide(far, s, q, r, g) /\ to \in Seq(WireN(s, q))
      /\ AckSide(far, r) /\ \A i \in 1..Len(back) : Told(far, r, back[i])
      /\ Low(far, s) => Held(k, far, q, r)
  BY <1>1 DEF Flows
<1>3. q <= s /\ SendSide(k2, s + n, q) BY <1>2, SendSideWrite
<1>4. s + n \in Nat /\ s <= s + n /\ q <= q /\ q <= (s + n) + 1 BY <1>3
<1>5. RecvSide(far, s + n, q, r, g) BY <1>2, <1>3, <1>4, RecvSideMore
<1>6. to \in Seq(WireN(s + n, q))
  <2>1. WireN(s, q) \subseteq WireN(s + n, q) BY <1>3, <1>4, NumberedMore
  <2> QED BY <1>2, <2>1, SeqMonotonic
<1>7. Low(far, s + n) => Held(k2, far, q, r)
  <2>1. Low(far, s + n) => Low(far, s) BY ConstantFacts DEF Low, Number
  <2>2. k2.snd_buf = k.snd_buf BY DEF Queued
  <2>3. Reach(far, r, far, r) BY DEF Reach
  <2> QED BY <1>2, <2>1, <2>2, <2>3, HeldReach
<1> QED BY <1>2, <1>3, <1>5, <1>6, <1>7 DEF Flow, Flows

(* update at the sender, and the flush before an error of the socket. *)
LEMMA FlowGrows ==
  ASSUME NEW t3, NEW far \in Blk(t3), NEW s \in Nat, NEW g \in Nat, NEW q \in Nat, NEW r \in Nat,
         NEW k, NEW to, NEW back, Flows(k, far, s, g, to, back, q, r),
         NEW n \in Nat, NEW k2, SendSide(k2, s, q + n), NEW out \in Seq(WireN(s, q + n)),
         Held(k, far, q, r) => Held(k2, far, q + n, r)
  PROVE  Flow(k2, far, s, g, to \o out, back) /\ Flow(k2, far, s, g, to, back)
PROOF
<1>1. /\ RecvSide(far, s, q, r, g) /\ to \in Seq(WireN(s, q))
      /\ AckSide(far, r) /\ \A i \in 1..Len(back) : Told(far, r, back[i])
      /\ Low(far, s) => Held(k, far, q, r)
  BY DEF Flows
<1>2. Len(k2.snd_queue) \in Nat /\ q + n <= s + 1
  <2>1. Len(k2.snd_queue) \in Nat
    <3>1. \/ q + n + Len(k2.snd_queue) = s \/ q + n + Len(k2.snd_queue) = s + 1 BY DEF SendSide
    <3> QED BY <3>1
  <2> QED BY <2>1 DEF SendSide
<1>3. q + n \in Nat /\ s <= s /\ q <= q + n BY <1>2
<1>4. RecvSide(far, s, q + n, r, g) BY <1>1, <1>2, <1>3, RecvSideMore
<1>5. to \in Seq(WireN(s, q + n))
  <2>1. WireN(s, q) \subseteq WireN(s, q + n) BY <1>3, NumberedMore
  <2> QED BY <1>1, <2>1, SeqMonotonic
<1>6. to \o out \in Seq(WireN(s, q + n)) BY <1>5, ConcatFacts
<1>7. Low(far, s) => Held(k2, far, q + n, r) BY <1>1
<1> QED BY <1>1, <1>3, <1>4, <1>5, <1>6, <1>7 DEF Flow, Flows

(* The sender updates. *)
LEMMA FlowUpdate ==
  ASSUME NEW e \in Ends, NEW k, BlockOK(e, k), sent[e] \in Nat, Half(sent[e]),
         NEW t3, NEW far \in Blk(t3), NEW g \in Nat, NEW to, NEW back,
         Flow(k, far, sent[e], g, to, back), NEW flushes \in BOOLEAN, NEW late,
         NEW w, w = Update(k, flushes, late)
  PROVE  Flow(w.k, far, sent[e], g, to \o w.out, back)
PROOF
<1> DEFINE s == sent[e]
<1>1. PICK q \in Nat, r \in Nat : Flows(k, far, s, g, to, back, q, r) BY DEF Flow
<1>2. SendSide(k, s, q) BY <1>1 DEF Flows
<1>3. PICK n \in Nat : /\ SendSide(w.k, s, q + n) /\ w.out \in Seq(WireN(s, q + n))
                       /\ \A f, x : Held(k, f, q, x) => Held(w.k, f, q + n, x)
  BY <1>2, SendSideUpdate
<1>4. Held(k, far, q, r) => Held(w.k, far, q + n, r) BY <1>3
<1>5. s \in Nat OBVIOUS
<1> HIDE DEF s
<1>6. Flow(w.k, far, s, g, to \o w.out, back) BY <1>1, <1>3, <1>4, <1>5, FlowGrows
<1> QED BY <1>6 DEF s

(* The sender flushes, and its socket refuses. *)
LEMMA FlowFlush ==
  ASSUME NEW e \in Ends, NEW k, BlockOK(e, k), sent[e] \in Nat, Half(sent[e]),
         NEW t3, NEW far \in Blk(t3), NEW g \in Nat, NEW to, NEW back,
         Flow(k, far, sent[e], g, to, back), NEW late, NEW w, w = Flush(k, late)
  PROVE  Flow(w.k, far, sent[e], g, to, back)
PROOF
<1> DEFINE s == sent[e]
<1>1. PICK q \in Nat, r \in Nat : Flows(k, far, s, g, to, back, q, r) BY DEF Flow
<1>2. SendSide(k, s, q) BY <1>1 DEF Flows
<1>3. PICK n \in Nat : /\ SendSide(w.k, s, q + n)
                       /\ \A f, x : Held(k, f, q, x) => Held(w.k, f, q + n, x)
  BY <1>2, SendSideFlush
<1>4. Held(k, far, q, r) => Held(w.k, far, q + n, r) BY <1>3
<1>5. s \in Nat OBVIOUS
<1> HIDE DEF s
<1>6. <<>> \in Seq(WireN(s, q + n)) BY EmptySeq
<1>7. Flow(w.k, far, s, g, to, back) BY <1>1, <1>3, <1>4, <1>5, <1>6, FlowGrows
<1> QED BY <1>7 DEF s

(* update at the receiver: it acknowledges what it holds. *)
LEMMA FlowTells ==
  ASSUME NEW k, NEW far, NEW s, NEW g, NEW q \in Nat, NEW r \in Nat, NEW to, NEW back,
         Flows(k, far, s, g, to, back, q, r),
         NEW far2, RecvSide(far2, s, q, r, g), Reach(far, r, far2, r), AckSide(far2, r),
         far.close_state # "no" => far2.close_state # "no",
         NEW S, back \in Seq(S), NEW out \in Seq(S), \A i \in 1..Len(out) : Told(far2, r, out[i])
  PROVE  Flow(k, far2, s, g, to, back \o out)
PROOF
<1>1. /\ SendSide(k, s, q) /\ to \in Seq(WireN(s, q))
      /\ \A i \in 1..Len(back) : Told(far, r, back[i])
      /\ Low(far, s) => Held(k, far, q, r)
  BY DEF Flows
<1>2. \A p : Told(far, r, p) => Told(far2, r, p)
  <2>1. r <= r OBVIOUS
  <2> QED BY <2>1, ToldMore
<1>3. ASSUME NEW i \in 1..Len(back \o out) PROVE Told(far2, r, (back \o out)[i])
  <2>1. /\ Len(back \o out) = Len(back) + Len(out)
        /\ \A j \in 1..Len(back) : (back \o out)[j] = back[j]
        /\ \A j \in 1..Len(out) : (back \o out)[Len(back) + j] = out[j]
    BY ConcatFacts
  <2>2. Len(back) \in Nat /\ Len(out) \in Nat BY LenProperties
  <2>3. CASE i <= Len(back)
    <3>1. i \in 1..Len(back) BY <2>3
    <3>2. Told(far, r, back[i]) BY <1>1, <3>1
    <3> QED BY <1>2, <2>1, <3>1, <3>2
  <2>4. CASE ~(i <= Len(back))
    <3>1. i - Len(back) \in 1..Len(out) /\ Len(back) + (i - Len(back)) = i BY <2>1, <2>2, <2>4
    <3>2. (back \o out)[i] = out[i - Len(back)] BY <2>1, <3>1
    <3> QED BY <3>1, <3>2
  <2> QED BY <2>3, <2>4
<1>4. Low(far2, s) => Held(k, far2, q, r)
  <2>1. Low(far2, s) => Low(far, s) BY DEF Low
  <2> QED BY <1>1, <2>1, HeldReach
<1> QED BY <1>1, <1>3, <1>4 DEF Flow, Flows

(* The receiver updates. *)
LEMMA FlowAnswers ==
  ASSUME NEW e \in Ends, NEW far, BlockOK(e, far), NEW k, NEW s, NEW g, NEW to,
         NEW back \in Seq(Seg(Unit(e))), Flow(k, far, s, g, to, back),
         NEW flushes \in BOOLEAN, NEW late, NEW w, w = Update(far, flushes, late)
  PROVE  Flow(k, w.k, s, g, to, back \o w.out)
PROOF
<1>1. PICK q \in Nat, r \in Nat : Flows(k, far, s, g, to, back, q, r) BY DEF Flow
<1>2. RecvSide(far, s, q, r, g) /\ AckSide(far, r) /\ far.rcv_nxt = Sn(r)
  BY <1>1 DEF Flows, RecvSide
<1>3. AckSide(w.k, r) /\ Reach(far, r, w.k, r) /\ \A i \in 1..Len(w.out) : Told(w.k, r, w.out[i])
  BY <1>2, AckSideUpdate
<1>4. PICK n \in Nat : Updated(Plain(e), far, n, w) BY UpdateOK
<1>5. w.out \in Seq(Seg(Unit(e))) BY UpdateOK
<1>6. /\ w.k.rcv_nxt = far.rcv_nxt /\ w.k.rcv_buf = far.rcv_buf /\ w.k.rcv_queue = far.rcv_queue
      /\ far.close_state # "no" => w.k.close_state # "no"
  BY <1>4 DEF Updated
<1>7. RecvSide(w.k, s, q, r, g) BY <1>2, <1>6, RecvSideSame
<1> QED BY <1>1, <1>3, <1>5, <1>6, <1>7, FlowTells

(* The receiver flushes, and its socket refuses. *)
LEMMA FlowAnswersNothing ==
  ASSUME NEW e \in Ends, NEW far, BlockOK(e, far), NEW k, NEW s, NEW g, NEW to,
         NEW back \in Seq(Seg(Unit(e))), Flow(k, far, s, g, to, back),
         NEW late, NEW w, w = Flush(far, late)
  PROVE  Flow(k, w.k, s, g, to, back)
PROOF
<1>1. PICK q \in Nat, r \in Nat : Flows(k, far, s, g, to, back, q, r) BY DEF Flow
<1>2. RecvSide(far, s, q, r, g) /\ AckSide(far, r) /\ far.rcv_nxt = Sn(r)
  BY <1>1 DEF Flows, RecvSide
<1>3. AckSide(w.k, r) /\ Reach(far, r, w.k, r) BY <1>2, AckSideFlush
<1>4. PICK n \in Nat : Flushed(Plain(e), far, n, w) BY FlushOK
<1>5. /\ w.k.rcv_nxt = far.rcv_nxt /\ w.k.rcv_buf = far.rcv_buf /\ w.k.rcv_queue = far.rcv_queue
      /\ w.k.close_state = far.close_state
  BY <1>4 DEF Flushed
<1>6. RecvSide(w.k, s, q, r, g) BY <1>2, <1>5, RecvSideSame
<1> DEFINE out == <<>>
<1>7. out \in Seq(Seg(Unit(e))) /\ Len(out) = 0 /\ back \o out = back BY EmptySeq, ConcatEmptySeq
<1> HIDE DEF out
<1>8. \A i \in 1..Len(out) : Told(w.k, r, out[i]) BY <1>7
<1>9. far.close_state # "no" => w.k.close_state # "no" BY <1>5
<1>10. Flow(k, w.k, s, g, to, back \o out) BY <1>1, <1>3, <1>6, <1>7, <1>8, <1>9, FlowTells
<1> QED BY <1>7, <1>10

(* input at the sender: what it is told to forget, the receiver holds. *)
LEMMA FlowHears ==
  ASSUME NEW e \in Ends, NEW k, BlockOK(e, k), NEW p \in Seg(Unit(Far(e))),
         NEW far, NEW s \in Nat, Half(s), NEW g, NEW to, NEW back, Flow(k, far, s, g, to, back),
         \E j \in 1..Len(back) : p = back[j], NEW k2, k2 = Input(k, p),
         NEW back2, Backward(far, back, back2)
  PROVE  Flow(k2, far, s, g, to, back2)
PROOF
<1>1. PICK q \in Nat, r \in Nat : Flows(k, far, s, g, to, back, q, r) BY DEF Flow
<1>2. /\ SendSide(k, s, q) /\ RecvSide(far, s, q, r, g) /\ to \in Seq(WireN(s, q))
      /\ AckSide(far, r) /\ \A i \in 1..Len(back) : Told(far, r, back[i])
      /\ Low(far, s) => Held(k, far, q, r)
      /\ r <= q /\ q <= s + 1
  BY <1>1 DEF Flows, RecvSide
<1>3. Taken(Plain(e), k, p, k2) BY InputOK
<1>4. SendSide(k2, s, q) BY <1>2, <1>3, SendSideInput
<1>5. Told(far, r, p) BY <1>2
<1>6. ASSUME Low(far, s) PROVE Held(k2, far, q, r)
  <2>1. Held(k, far, q, r) BY <1>2, <1>6
  <2>2. OnlyAcked(p, k.snd_buf, k2.snd_buf) BY <1>3 DEF Taken
  <2>3. far.close_state = "no" \/ 2 * (Start + s + 1) <= SnMod BY <1>6 DEF Low
  <2> QED BY <1>2, <1>5, <2>1, <2>2, <2>3, HeldInput
<1>7. \A i \in 1..Len(back2) : Told(far, r, back2[i])
  <2>1. r <= r /\ Reach(far, r, far, r) BY DEF Reach
  <2> QED BY <1>2, <2>1, ToldAll
<1> QED BY <1>2, <1>4, <1>6, <1>7 DEF Flow, Flows

(* input at the receiver. *)
LEMMA FlowTakes ==
  ASSUME NEW e \in Ends, NEW far, BlockOK(e, far), NEW p \in Seg(Unit(Far(e))),
         NEW k, NEW s \in Nat, s = sent[Far(e)], Half(s), NEW g \in Nat, NEW to, NEW back,
         Flow(k, far, s, g, to, back),
         \E j \in 1..Len(to) : p = to[j], NEW far2, far2 = Input(far, p),
         NEW to2, Onward(s, to, to2)
  PROVE  Flow(k, far2, s, g, to2, back)
PROOF
<1>1. PICK q \in Nat, r \in Nat : Flows(k, far, s, g, to, back, q, r) BY DEF Flow
<1>2. /\ SendSide(k, s, q) /\ RecvSide(far, s, q, r, g) /\ to \in Seq(WireN(s, q))
      /\ AckSide(far, r) /\ \A i \in 1..Len(back) : Told(far, r, back[i])
      /\ Low(far, s) => Held(k, far, q, r)
      /\ AcksHeld(far, r)
  BY <1>1 DEF Flows, AckSide
<1>3. Taken(Plain(e), far, p, far2) BY InputOK
<1>4. p \in WireN(s, q) BY <1>2, ElementOfSeq
<1>5. PICK r2 \in Nat : /\ r <= r2 /\ RecvSide(far2, s, q, r2, g) /\ Reach(far, r, far2, r2)
                        /\ AcksHeld(far, r) => AcksHeld(far2, r2)
  <2> DEFINE t == Plain(e)
  <2>1. /\ t.ready = Seg(1..s) /\ t.acks = Number /\ \A x \in t.kept : x.sn \in Number
    BY PlainFacts DEF Unit
  <2>2. far \in Blk(t) BY DEF BlockOK
  <2> HIDE DEF t
  <2> QED BY <1>2, <1>4, <2>1, <2>2, RecvSideInput
<1>6. far.close_state # "no" => far2.close_state # "no" BY <1>3 DEF Taken
<1>7. AckSide(far2, r2)
  <2>1. far2.buf = far.buf BY <1>3 DEF Taken
  <2> QED BY <1>2, <1>5, <1>6, <2>1, AckSideMore
<1>8. to2 \in Seq(WireN(s, q))
  <2>1. ASSUME NEW i \in 1..Len(to2) PROVE to2[i] \in WireN(s, q)
    <3>1. to2[i] \in Seg(1..s) BY ElementOfSeq DEF Onward
    <3>2. CASE to2[i].cmd # "PUSH" BY <3>1, <3>2 DEF WireN
    <3>3. CASE \E j \in 1..Len(to) : to2[i] = to[j] BY <1>2, <3>3, ElementOfSeq
    <3> QED BY <3>2, <3>3 DEF Onward
  <2>2. to2 \in Seq(Seg(1..s)) BY DEF Onward
  <2> QED BY <2>1, <2>2, SeqNarrow
<1>9. \A i \in 1..Len(back) : Told(far2, r2, back[i])
  <2>1. \A x : Told(far, r, x) => Told(far2, r2, x) BY <1>5, <1>6, ToldMore
  <2> QED BY <1>2, <2>1
<1>10. Low(far2, s) => Held(k, far2, q, r2)
  <2>1. Low(far2, s) => Low(far, s) BY <1>6 DEF Low
  <2> QED BY <1>2, <1>5, <2>1, HeldReach
<1> QED BY <1>2, <1>5, <1>7, <1>8, <1>9, <1>10 DEF Flow, Flows

(* recv: the program gets the units that follow, or learns that the sender is *)
(* closing and that there are no more.                                        *)
Follows(data, k, s, g, y) ==
  /\ data \in Seq(Nat) /\ Len(data) = y /\ \A j \in 1..y : data[j] = g + j
  /\ g + y <= s /\ (y = 0 => g = s /\ Shutting(k.close_state))

(* A message is taken from the receiver: it is what follows. *)
LEMMA FlowReads ==
  ASSUME NEW e \in Ends, NEW far, BlockOK(e, far), far.rcv_queue # <<>>,
         NEW t, NEW k \in Blk(t), NEW s \in Nat, s = sent[Far(e)], Half(s), NEW g \in Nat,
         NEW to, NEW back, Flow(k, far, s, g, to, back),
         NEW far2, far2 = Recv(far), NEW data, data = DataOf(FrontMessage(far))
  PROVE  \E y \in Nat : Follows(data, k, s, g, y) /\ Flow(k, far2, s, g + y, to, back)
PROOF
<1>1. PICK q \in Nat, r \in Nat : Flows(k, far, s, g, to, back, q, r) BY DEF Flow
<1>2. /\ SendSide(k, s, q) /\ RecvSide(far, s, q, r, g) /\ to \in Seq(WireN(s, q))
      /\ AckSide(far, r) /\ \A i \in 1..Len(back) : Told(far, r, back[i])
      /\ Low(far, s) => Held(k, far, q, r)
  BY <1>1 DEF Flows
<1>3. PICK x \in 1..Len(far.rcv_queue) :
        FrontMessage(far) = SubSeq(far.rcv_queue, 1, x) /\ Fetched(Plain(e), far, x, far2)
  BY RecvOK
<1> DEFINE front == SubSeq(far.rcv_queue, 1, x)
<1>4. data = DataOf(front) BY <1>3
<1>a. PICK y \in Nat, r2 \in Nat : Handed(far, far2, DataOf(front), s, q, r, g, y, r2)
  <2> DEFINE t2 == Plain(e)
  <2>1. t2.ready = Seg(1..s) /\ t2.early \subseteq t2.ready BY PlainFacts DEF Unit
  <2>2. far \in Blk(t2) BY DEF BlockOK
  <2>3. front = SubSeq(far.rcv_queue, 1, x) /\ Fetched(t2, far, x, far2) BY <1>3
  <2> HIDE DEF t2, front
  <2> QED BY <1>2, <2>1, <2>2, <2>3, RecvSideFetch
<1>5. /\ data \in Seq(Nat) /\ Len(data) = y /\ \A j \in 1..y : data[j] = g + j
      /\ g + y <= s /\ (y = 0 => g = s /\ q = s + 1)
      /\ r <= r2 /\ RecvSide(far2, s, q, r2, g + y) /\ Reach(far, r, far2, r2)
  BY <1>4, <1>a DEF Handed
<1> HIDE DEF front
<1>6. y = 0 => Shutting(k.close_state)
  <2>1. Len(k.snd_queue) \in Nat BY LenProperties DEF Blk
  <2>2. q + Len(k.snd_queue) = s \/ Shutting(k.close_state) BY <1>2 DEF SendSide
  <2> QED BY <1>5, <2>1, <2>2
<1>7. Follows(data, k, s, g, y) BY <1>5, <1>6 DEF Follows
<1>8. far2.close_state = far.close_state /\ far2.acklist = far.acklist /\ far2.buf = far.buf
  BY <1>3 DEF Fetched
<1>9. AckSide(far2, r2)
  <2>1. AcksHeld(far, r) => AcksHeld(far2, r2) BY <1>5, <1>8 DEF AcksHeld, Reach
  <2> QED BY <1>2, <1>5, <1>8, <2>1, AckSideMore
<1>10. \A i \in 1..Len(back) : Told(far2, r2, back[i])
  <2>1. \A z : Told(far, r, z) => Told(far2, r2, z) BY <1>5, <1>8, ToldMore
  <2> QED BY <1>2, <2>1
<1>11. Low(far2, s) => Held(k, far2, q, r2)
  <2>1. Low(far2, s) => Low(far, s) BY <1>8 DEF Low
  <2> QED BY <1>2, <1>5, <2>1, HeldReach
<1>12. Flow(k, far2, s, g + y, to, back)
  BY <1>2, <1>5, <1>9, <1>10, <1>11 DEF Flow, Flows
<1> QED BY <1>7, <1>12

-----------------------------------------------------------------------------
(* The two directions of the link.  While one has carried less than half of   *)
(* the numbers, what its two ends and the network hold fits together, and the *)
(* program that reads was given the units in order.                           *)
Given(e) == Len(got[e]) + Len(kbuf[e])
InOrder(g, b) == /\ \A i \in 1..Len(g) : g[i] = i
                 /\ \A i \in 1..Len(b) : b[i] = Len(g) + i
Ordered(e) == InOrder(got[e], kbuf[e])
Direction(e) ==
  Half(sent[e]) => /\ Flow(kcp[e], kcp[Far(e)], sent[e], Given(Far(e)), net[Far(e)], net[e])
                   /\ Ordered(Far(e))
Directions == \A e \in Ends : Direction(e)

(* An end that was never addressed is as new; a dead session refuses writes. *)
Births ==
  \A e \in Ends : /\ life[e] = "absent" => kcp[e] = Construct(0) /\ handle[e] = "none"
                  /\ life[e] = "dead" => kcp[e].close_state # "no"

(* The inductive invariant, for a link whose listener is not restarted. *)
Sound == Typed /\ Births /\ Directions

(* The initial states are sound. *)
LEMMA SoundInit == ASSUME Init PROVE Sound
PROOF
<1>1. Typed BY TypedInit
<1>2. Births
  <2>1. ASSUME NEW e \in Ends
        PROVE  /\ life[e] = "absent" => kcp[e] = Construct(0) /\ handle[e] = "none"
               /\ life[e] = "dead" => kcp[e].close_state # "no"
    <3>1. /\ kcp[e] = Construct(Start) /\ life[e] \in {"updating", "absent"}
          /\ life[e] = "absent" => Start = 0 /\ handle[e] = "none"
      BY DEF Init
    <3> QED BY <3>1
  <2> QED BY <2>1 DEF Births
<1>3. Directions
  <2>1. ASSUME NEW e \in Ends PROVE Direction(e)
    <3> DEFINE k == Construct(Start)
    <3>1. Far(e) \in Ends BY FarFacts
    <3>2. /\ kcp[e] = k /\ kcp[Far(e)] = k /\ sent[e] = 0
          /\ net[e] = <<>> /\ net[Far(e)] = <<>> /\ got[Far(e)] = <<>> /\ kbuf[Far(e)] = <<>>
      BY <3>1 DEF Init
    <3>3. SendSide(k, 0, 0) /\ RecvSide(k, 0, 0, 0, 0) BY SendSideInit, RecvSideInit
    <3>4. k.acklist = <<>> /\ k.buf = <<>> BY DEF Construct
    <3> HIDE DEF k
    <3>5. AckSide(k, 0) BY <3>4 DEF AckSide, AcksHeld
    <3>6. Held(k, k, 0, 0) BY DEF Held
    <3>7. <<>> \in Seq(WireN(0, 0)) /\ Len(<<>>) = 0 BY EmptySeq
    <3>8. Flows(k, k, 0, 0, <<>>, <<>>, 0, 0) BY <3>3, <3>5, <3>6, <3>7 DEF Flows
    <3>9. Flow(k, k, 0, 0, <<>>, <<>>) BY <3>8 DEF Flow
    <3>10. Given(Far(e)) = 0 /\ Ordered(Far(e)) BY <3>2 DEF Given, Ordered, InOrder
    <3> QED BY <3>2, <3>9, <3>10 DEF Direction
  <2> QED BY <2>1 DEF Directions
<1> QED BY <1>1, <1>2, <1>3 DEF Sound

(* What a step needs to know of the end that acts and of the other one. *)
LEMMA TypedEnds ==
  ASSUME Typed, NEW e \in Ends
  PROVE  /\ BlockOK(e, kcp[e]) /\ kcp[e] \in Blk(Plain(e))
         /\ BlockOK(Far(e), kcp[Far(e)]) /\ kcp[Far(e)] \in Blk(Plain(Far(e)))
         /\ sent[e] \in Nat /\ Given(e) \in Nat /\ Unit(e) = 1..sent[e]
         /\ got[e] \in Seq(Nat) /\ kbuf[e] \in Seq(Nat)
         /\ net[e] \in Seq(Seg(1..sent[Far(e)])) /\ Unit(Far(e)) = 1..sent[Far(e)]
PROOF
<1>1. Far(e) \in Ends BY FarFacts
<1>2. BlocksOK /\ NetOK /\ ReadOK /\ WriteOK BY DEF Typed
<1>3. BlockOK(e, kcp[e]) /\ BlockOK(Far(e), kcp[Far(e)]) BY <1>1, <1>2 DEF BlocksOK
<1>4. kcp[e] \in Blk(Plain(e)) /\ kcp[Far(e)] \in Blk(Plain(Far(e))) BY <1>3 DEF BlockOK
<1>5. sent[e] \in Nat /\ Unit(e) = 1..sent[e] /\ Unit(Far(e)) = 1..sent[Far(e)]
  BY <1>2 DEF WriteOK, Unit
<1>6. net[e] \in Seq(Seg(1..sent[Far(e)])) BY <1>2, <1>5 DEF NetOK
<1>7. got[e] \in Seq(Unit(Far(e))) /\ kbuf[e] \in Seq(Unit(Far(e))) BY <1>2 DEF ReadOK
<1>8. Unit(Far(e)) \subseteq Nat BY DEF Unit
<1>9. got[e] \in Seq(Nat) /\ kbuf[e] \in Seq(Nat) BY <1>7, <1>8, SeqMonotonic
<1>10. Given(e) \in Nat
  <2>1. Len(got[e]) \in Nat /\ Len(kbuf[e]) \in Nat BY <1>9, LenProperties
  <2>2. \A a, b \in Nat : a + b \in Nat OBVIOUS
  <2> QED BY <2>1, <2>2, Zenon DEF Given
<1> QED BY <1>3, <1>4, <1>5, <1>6, <1>9, <1>10

(* Steps that move no data: blocks are closed, datagrams lost, repeated, refused. *)
Calm(k, k2) ==
  /\ SameSender(k, k2) /\ SameReceiver(k, k2) /\ k2.buf = k.buf
  /\ Shutting(k.close_state) => Shutting(k2.close_state)
  /\ k.close_state # "no" => k2.close_state # "no"

(* A block that does not change is calm. *)
LEMMA CalmSame == ASSUME NEW k PROVE Calm(k, k)
PROOF BY DEF Calm, SameSender, SameReceiver

(* So is one that is closed. *)
LEMMA CalmClose ==
  ASSUME NEW t, NEW k \in Blk(t) PROVE Calm(k, Close(k)) /\ Calm(k, ForceClose(k))
PROOF
<1>1. Calm(k, Close(k))
  <2>1. /\ SameSender(k, Close(k)) /\ SameReceiver(k, Close(k)) /\ Close(k).buf = k.buf
        /\ Close(k).close_state = IF k.close_state = "no" THEN "wsnd" ELSE k.close_state
    BY CloseEffect
  <2> QED BY <2>1 DEF Calm, Shutting
<1>2. Calm(k, ForceClose(k))
  <2>1. /\ SameSender(k, ForceClose(k)) /\ SameReceiver(k, ForceClose(k))
        /\ ForceClose(k).buf = k.buf /\ ForceClose(k).close_state = "yes"
    BY ForceCloseEffect
  <2> QED BY <2>1 DEF Calm, Shutting
<1> QED BY <1>1, <1>2

(* Calm steps leave both directions as they were. *)
LEMMA DirectionsCalm ==
  ASSUME Typed, Typed', Directions, UNCHANGED <<sent, kbuf, got>>,
         \A e \in Ends : Calm(kcp[e], kcp'[e]),
         \A e \in Ends : Backward(kcp'[Far(e)], net[e], net'[e])
  PROVE  Directions'
PROOF
<1>1. ASSUME NEW e \in Ends, Half(sent[e])
      PROVE  /\ Flow(kcp'[e], kcp'[Far(e)], sent[e], Given(Far(e)), net'[Far(e)], net'[e])
             /\ Ordered(Far(e))
  <2>1. Far(e) \in Ends /\ Far(Far(e)) = e BY FarFacts
  <2>2. /\ Flow(kcp[e], kcp[Far(e)], sent[e], Given(Far(e)), net[Far(e)], net[e])
        /\ Ordered(Far(e))
    BY <1>1 DEF Directions, Direction
  <2>3. sent[e] \in Nat BY TypedEnds
  <2>4. net'[Far(e)] \in Seq(Seg(1..sent[e]))
    <3>1. NetOK' /\ sent' = sent BY DEF Typed
    <3>2. net'[Far(e)] \in Seq(Seg(Unit(Far(Far(e)))')) BY <2>1, <3>1 DEF NetOK
    <3>3. Unit(Far(Far(e)))' = 1..sent[e] BY <2>1, <3>1 DEF Unit
    <3> QED BY <3>2, <3>3
  <2>5. Onward(sent[e], net[Far(e)], net'[Far(e)])
    <3>1. Backward(kcp'[Far(Far(e))], net[Far(e)], net'[Far(e)]) BY <2>1
    <3>2. \A i \in 1..Len(net'[Far(e)]) : \/ net'[Far(e)][i] = Bare("CLF")
                                          \/ \E j \in 1..Len(net[Far(e)]) : net'[Far(e)][i] = net[Far(e)][j]
      BY <3>1 DEF Backward
    <3>3. Bare("CLF").cmd # "PUSH" BY DEF Bare
    <3> QED BY <2>4, <3>2, <3>3 DEF Onward
  <2>6. Calm(kcp[e], kcp'[e]) /\ Calm(kcp[Far(e)], kcp'[Far(e)]) BY <2>1
  <2>7. Backward(kcp'[Far(e)], net[e], net'[e]) OBVIOUS
  <2>8. Flow(kcp'[e], kcp'[Far(e)], sent[e], Given(Far(e)), net'[Far(e)], net'[e])
    BY <2>2, <2>3, <2>5, <2>6, <2>7, FlowQuiet DEF Calm
  <2> QED BY <2>2, <2>8
<1>2. \A e \in Ends : Given(Far(e))' = Given(Far(e)) /\ (Ordered(Far(e))' <=> Ordered(Far(e)))
  BY DEF Given, Ordered
<1>3. sent' = sent OBVIOUS
<1> QED BY <1>1, <1>2, <1>3 DEF Directions, Direction

(* A session that ends, or whose process dies, is neither new nor dead. *)
LEMMA BirthsCalm ==
  ASSUME Births, UNCHANGED <<kcp, handle>>, NEW e \in Ends, NEW c,
         c \notin {"absent", "dead"}, life' = [life EXCEPT ![e] = c], LifeOK
  PROVE  Births'
PROOF BY DEF Births, LifeOK

(* The program closes its stream, or the session is closed or ends. *)
LEMMA SoundClose ==
  ASSUME Sound, NEW e \in Ends, \/ CloseStream(e) \/ RunClose(e) \/ Clean(e)
                                \/ EndClosed(e) \/ WaitExpires(e) \/ Crash(e)
  PROVE  Births' /\ Directions'
PROOF
<1>1. Typed /\ Births /\ Directions /\ LifeOK
      /\ DOMAIN kcp = Ends /\ DOMAIN life = Ends /\ DOMAIN handle = Ends
  BY DEF Sound, Typed, BlocksOK, LifeOK
<1>2. Typed' BY <1>1, TypedClose, TypedEnd
<1>3. UNCHANGED <<sent, kbuf, got, net>>
  BY DEF CloseStream, RunClose, Clean, EndClosed, WaitExpires, Crash
<1>4. kcp' = kcp \/ kcp' = [kcp EXCEPT ![e] = Close(kcp[e])]
  BY DEF CloseStream, RunClose, Clean, EndClosed, WaitExpires, Crash
<1>5. \A f \in Ends : Calm(kcp[f], kcp'[f])
  <2>1. ASSUME NEW f \in Ends PROVE Calm(kcp[f], kcp'[f])
    <3>1. Calm(kcp[f], kcp[f]) /\ Calm(kcp[f], Close(kcp[f]))
      BY <1>1, TypedEnds, CalmSame, CalmClose
    <3>2. kcp'[f] = kcp[f] \/ kcp'[f] = Close(kcp[f]) BY <1>1, <1>4
    <3> QED BY <3>1, <3>2
  <2> QED BY <2>1
<1>6. \A f \in Ends : Backward(kcp'[Far(f)], net[f], net'[f]) BY <1>3 DEF Backward
<1>7. Directions' BY <1>1, <1>2, <1>3, <1>5, <1>6, DirectionsCalm
<1>8. Births'
  <2>1. CASE CloseStream(e)
    <3>1. /\ handle[e] = "open" /\ handle' = [handle EXCEPT ![e] = "closing"]
          /\ UNCHANGED <<kcp, life>>
      BY <2>1 DEF CloseStream
    <3> QED BY <1>1, <3>1 DEF Births
  <2>2. CASE RunClose(e)
    <3>1. /\ handle[e] = "closing" /\ handle' = [handle EXCEPT ![e] = "closed"]
          /\ life' = life
      BY <2>2 DEF RunClose
    <3>2. Close(kcp[e]).close_state # "no"
      <4>1. kcp[e] \in Blk(Plain(e)) BY <1>1, TypedEnds
      <4>2. Close(kcp[e]).close_state = IF kcp[e].close_state = "no" THEN "wsnd" ELSE kcp[e].close_state
        BY <4>1, CloseEffect
      <4> QED BY <4>2
    <3>3. \A f \in Ends : kcp'[f] = kcp[f] \/ (f = e /\ kcp'[f].close_state # "no")
      BY <1>1, <1>4, <3>2
    <3>4. life[e] # "absent" BY <1>1, <3>1 DEF Births
    <3> QED BY <1>1, <3>1, <3>3, <3>4 DEF Births
  <2>3. CASE Clean(e)
    <3>1. /\ life[e] = "ended" /\ life' = [life EXCEPT ![e] = "dead"] /\ handle' = handle
          /\ kcp' = [kcp EXCEPT ![e] = Close(kcp[e])]
      BY <2>3 DEF Clean
    <3>2. Close(kcp[e]).close_state # "no"
      <4>1. kcp[e] \in Blk(Plain(e)) BY <1>1, TypedEnds
      <4>2. Close(kcp[e]).close_state = IF kcp[e].close_state = "no" THEN "wsnd" ELSE kcp[e].close_state
        BY <4>1, CloseEffect
      <4> QED BY <4>2
    <3> QED BY <1>1, <3>1, <3>2 DEF Births
  <2>4. CASE EndClosed(e) \/ WaitExpires(e)
    <3>1. life' = [life EXCEPT ![e] = "ended"] /\ UNCHANGED <<kcp, handle>>
      BY <2>4 DEF EndClosed, WaitExpires
    <3> QED BY <1>1, <3>1, BirthsCalm
  <2>5. CASE Crash(e)
    <3>1. life' = [life EXCEPT ![e] = "gone"] /\ UNCHANGED <<kcp, handle>>
      BY <2>5 DEF Crash
    <3> QED BY <1>1, <3>1, BirthsCalm
  <2> QED BY <2>1, <2>2, <2>3, <2>4, <2>5
<1> QED BY <1>7, <1>8

(* What is under way after one datagram is gone, or one is added. *)
LEMMA WithoutAmong ==
  ASSUME NEW S, NEW s \in Seq(S), NEW i \in 1..Len(s), NEW s2, s2 = Without(s, i)
  PROVE  \A j \in 1..Len(s2) : \E m \in 1..Len(s) : s2[j] = s[m]
PROOF
<1>1. /\ Len(s2) = Len(s) - 1 /\ Len(s) \in Nat
      /\ \A j \in 1..(Len(s) - 1) : s2[j] = IF j < i THEN s[j] ELSE s[j + 1]
  BY RemoveFacts, LenProperties DEF Without
<1>2. ASSUME NEW j \in 1..Len(s2) PROVE \E m \in 1..Len(s) : s2[j] = s[m]
  <2>1. j \in 1..Len(s) /\ j + 1 \in 1..Len(s) /\ j \in 1..(Len(s) - 1) BY <1>1
  <2> QED BY <1>1, <2>1
<1> QED BY <1>2

(* What is there after one is added is the new one or was there. *)
LEMMA AppendAmong ==
  ASSUME NEW S, NEW s \in Seq(S), NEW x \in S, NEW s2, s2 = Append(s, x)
  PROVE  \A j \in 1..Len(s2) : s2[j] = x \/ \E m \in 1..Len(s) : s2[j] = s[m]
PROOF
<1>1. /\ Len(s2) = Len(s) + 1 /\ Len(s) \in Nat /\ s2[Len(s) + 1] = x
      /\ \A j \in 1..Len(s) : s2[j] = s[j]
  BY AppendProperties, LenProperties
<1>2. \A j \in 1..Len(s2) : j = Len(s) + 1 \/ j \in 1..Len(s) BY <1>1
<1> QED BY <1>1, <1>2

(* A datagram is lost or repeated. *)
LEMMA SoundFault ==
  ASSUME Sound, NEW e \in Ends, NEW i \in DOMAIN net[e], Lose(e, i) \/ Repeat(e, i)
  PROVE  Births' /\ Directions'
PROOF
<1>1. Typed /\ Births /\ Directions /\ NetOK BY DEF Sound, Typed
<1>2. Typed' BY <1>1, TypedFault
<1>3. UNCHANGED <<kcp, life, handle, sent, kbuf, got>> BY DEF Lose, Repeat
<1>4. Births' BY <1>1, <1>3 DEF Births
<1>5. \A f \in Ends : Calm(kcp[f], kcp'[f]) BY <1>3, CalmSame
<1>6. net[e] \in Seq(Seg(Unit(Far(e)))) /\ net[e][i] \in Seg(Unit(Far(e))) /\ i \in 1..Len(net[e])
  BY <1>1, TakenFromNet DEF NetOK
<1>7. /\ \A j \in 1..Len(net'[e]) : \E m \in 1..Len(net[e]) : net'[e][j] = net[e][m]
      /\ \A f \in Ends : f # e => net'[f] = net[f]
  <2>1. CASE Lose(e, i)
    <3>1. net' = [net EXCEPT ![e] = Without(net[e], i)] BY <2>1 DEF Lose
    <3>2. net'[e] = Without(net[e], i) /\ \A f \in Ends : f # e => net'[f] = net[f]
      BY <1>1, <3>1 DEF NetOK
    <3> QED BY <1>6, <3>2, WithoutAmong
  <2>2. CASE Repeat(e, i)
    <3>1. net' = [net EXCEPT ![e] = Append(net[e], net[e][i])] BY <2>2 DEF Repeat
    <3>2. net'[e] = Append(net[e], net[e][i]) /\ \A f \in Ends : f # e => net'[f] = net[f]
      BY <1>1, <3>1 DEF NetOK
    <3>3. \A j \in 1..Len(net'[e]) : net'[e][j] = net[e][i]
                                          \/ \E m \in 1..Len(net[e]) : net'[e][j] = net[e][m]
      BY <1>6, <3>2, AppendAmong
    <3> QED BY <1>6, <3>2, <3>3
  <2> QED BY <2>1, <2>2
<1>8. \A f \in Ends : Backward(kcp'[Far(f)], net[f], net'[f]) BY <1>7 DEF Backward
<1>9. Directions' BY <1>1, <1>2, <1>3, <1>5, <1>8, DirectionsCalm
<1> QED BY <1>4, <1>9

(* A datagram arrives where the session is dead or the process is gone. *)
LEMMA SoundRefuse ==
  ASSUME Sound, NEW e \in Ends, NEW i \in DOMAIN net[e], Receive(e, i),
         UNCHANGED <<kcp, life, handle>>,
         \/ net' = [net EXCEPT ![e] = Without(net[e], i)]
         \/ /\ life[e] = "dead"
            /\ net' = [[net EXCEPT ![e] = Without(net[e], i)] EXCEPT ![Far(e)] = Append(@, Bare("CLF"))]
  PROVE  Births' /\ Directions'
PROOF
<1>1. Typed /\ Births /\ Directions /\ NetOK BY DEF Sound, Typed
<1>2. Typed' BY <1>1, TypedReceive
<1>3. UNCHANGED <<sent, kbuf, got>> BY DEF Receive
<1>4. Births' BY <1>1 DEF Births
<1>5. \A f \in Ends : Calm(kcp[f], kcp'[f]) BY CalmSame
<1>6. net[e] \in Seq(Seg(Unit(Far(e)))) /\ i \in 1..Len(net[e]) BY <1>1, TakenFromNet DEF NetOK
<1>7. Far(e) \in Ends /\ Far(e) # e /\ Far(Far(e)) = e /\ \A f \in Ends : f = e \/ f = Far(e)
  BY FarFacts
<1>8. \A j \in 1..Len(Without(net[e], i)) : \E m \in 1..Len(net[e]) : Without(net[e], i)[j] = net[e][m]
  BY <1>6, WithoutAmong
<1>9. Backward(kcp'[Far(e)], net[e], net'[e])
  <2>1. net'[e] = Without(net[e], i) BY <1>1, <1>7 DEF NetOK
  <2> QED BY <1>8, <2>1 DEF Backward
<1>10. Backward(kcp'[e], net[Far(e)], net'[Far(e)])
  <2>1. CASE net' = [net EXCEPT ![e] = Without(net[e], i)]
    <3>1. net'[Far(e)] = net[Far(e)] BY <1>1, <1>7, <2>1 DEF NetOK
    <3> QED BY <3>1 DEF Backward
  <2>2. CASE /\ life[e] = "dead"
             /\ net' = [[net EXCEPT ![e] = Without(net[e], i)] EXCEPT ![Far(e)] = Append(@, Bare("CLF"))]
    <3>1. net'[Far(e)] = Append(net[Far(e)], Bare("CLF")) BY <1>1, <1>7, <2>2 DEF NetOK
    <3>2. kcp'[e].close_state # "no" BY <1>1, <2>2 DEF Births
    <3>3. net[Far(e)] \in Seq(Seg(Unit(e))) /\ Bare("CLF") \in Seg(Unit(e))
      <4>1. net[Far(e)] \in Seq(Seg(Unit(Far(Far(e))))) BY <1>1, <1>7 DEF NetOK
      <4>2. "CLF" \in Cmd BY DEF Cmd
      <4> QED BY <1>7, <4>1, <4>2, BareType
    <3>4. \A j \in 1..Len(net'[Far(e)]) : \/ net'[Far(e)][j] = Bare("CLF")
                                          \/ \E m \in 1..Len(net[Far(e)]) : net'[Far(e)][j] = net[Far(e)][m]
      BY <3>1, <3>3, AppendAmong
    <3> QED BY <3>2, <3>4 DEF Backward
  <2> QED BY <2>1, <2>2
<1>11. \A f \in Ends : Backward(kcp'[Far(f)], net[f], net'[f]) BY <1>7, <1>9, <1>10
<1>12. Directions' BY <1>1, <1>2, <1>3, <1>5, <1>11, DirectionsCalm
<1> QED BY <1>4, <1>12

(* A datagram is input to a block: as news of what the peer holds in the one *)
(* direction, as data in the other.                                          *)
LEMMA SoundInput ==
  ASSUME Sound, NEW e \in Ends, NEW i \in DOMAIN net[e], Receive(e, i),
         kcp' = [kcp EXCEPT ![e] = Input(kcp[e], net[e][i])],
         net' = [net EXCEPT ![e] = Without(net[e], i)]
  PROVE  Directions'
PROOF
<1> DEFINE p == net[e][i]  f == Far(e)  k2 == Input(kcp[e], p)  n2 == Without(net[e], i)
<1>1. Typed /\ Directions /\ NetOK /\ BlocksOK BY DEF Sound, Typed
<1>2. UNCHANGED <<sent, kbuf, got>> BY DEF Receive
<1>3. f \in Ends /\ f # e /\ Far(f) = e /\ \A x \in Ends : x = e \/ x = f BY FarFacts
<1>4. p \in Seg(Unit(f)) /\ i \in 1..Len(net[e]) /\ n2 \in Seq(Seg(Unit(f))) BY <1>1, TakenFromNet
<1>5. /\ kcp'[e] = k2 /\ kcp'[f] = kcp[f] /\ net'[e] = n2 /\ net'[f] = net[f]
  BY <1>1, <1>3 DEF BlocksOK, NetOK
<1>6. /\ BlockOK(e, kcp[e]) /\ sent[e] \in Nat /\ sent[f] \in Nat /\ Given(e) \in Nat
      /\ net[e] \in Seq(Seg(1..sent[f])) /\ Unit(f) = 1..sent[f]
  BY <1>1, <1>3, TypedEnds
<1>7. \A j \in 1..Len(n2) : \E m \in 1..Len(net[e]) : n2[j] = net[e][m]
  <2> DEFINE u == net[e]  S == Seg(1..sent[f])
  <2>1. n2 = Without(u, i) /\ u \in Seq(S) /\ i \in 1..Len(u) BY <1>4, <1>6
  <2> HIDE DEF n2, p, f, u, S
  <2>2. \A j \in 1..Len(n2) : \E m \in 1..Len(u) : n2[j] = u[m] BY <2>1, WithoutAmong
  <2> QED BY <2>2 DEF u
<1>8. \E j \in 1..Len(net[e]) : p = net[e][j] BY <1>4
<1>k. k2 = Input(kcp[e], p) OBVIOUS
<1> HIDE DEF p, k2, n2
<1>9. ASSUME Half(sent[e])
      PROVE  Flow(k2, kcp[f], sent[e], Given(f), net[f], n2) /\ Ordered(f)
  <2>1. Flow(kcp[e], kcp[f], sent[e], Given(f), net[f], net[e]) /\ Ordered(f)
    BY <1>1, <1>9 DEF Directions, Direction
  <2>2. Backward(kcp[f], net[e], n2) BY <1>7 DEF Backward
  <2> HIDE DEF f
  <2>3. p \in Seg(Unit(Far(e))) BY <1>4 DEF f
  <2>4. Flow(k2, kcp[f], sent[e], Given(f), net[f], n2)
    BY <1>6, <1>8, <1>9, <1>k, <2>1, <2>2, <2>3, FlowHears
  <2> QED BY <2>1, <2>4
<1>10. ASSUME Half(sent[f])
       PROVE  Flow(kcp[f], k2, sent[f], Given(e), n2, net[f]) /\ Ordered(e)
  <2>1. Flow(kcp[f], kcp[e], sent[f], Given(e), net[e], net[f]) /\ Ordered(e)
    BY <1>1, <1>3, <1>10 DEF Directions, Direction
  <2>2. Onward(sent[f], net[e], n2) BY <1>4, <1>6, <1>7 DEF Onward
  <2> HIDE DEF f
  <2>3. p \in Seg(Unit(Far(e))) /\ sent[f] = sent[Far(e)] BY <1>4 DEF f
  <2>4. Flow(kcp[f], k2, sent[f], Given(e), n2, net[f])
    BY <1>6, <1>8, <1>10, <1>k, <2>1, <2>2, <2>3, FlowTakes
  <2> QED BY <2>1, <2>4
<1>11. \A x \in Ends : Given(x)' = Given(x) /\ (Ordered(x)' <=> Ordered(x))
  BY <1>2 DEF Given, Ordered
<1>12. Direction(e)' BY <1>2, <1>3, <1>5, <1>9, <1>11 DEF Direction
<1>13. Direction(f)' BY <1>2, <1>3, <1>5, <1>10, <1>11 DEF Direction
<1> QED BY <1>3, <1>12, <1>13 DEF Directions

(* A datagram arrives. *)
LEMMA SoundReceive ==
  ASSUME Sound, NEW e \in Ends, NEW i \in DOMAIN net[e], Receive(e, i)
  PROVE  Births' /\ Directions'
PROOF
<1>1. Typed /\ Births /\ NetOK /\ BlocksOK /\ LifeOK BY DEF Sound, Typed
<1>2. CASE Accept(e, net[e][i]) /\ net' = [net EXCEPT ![e] = Without(net[e], i)]
  <2>1. /\ life[e] = "absent" /\ life' = [life EXCEPT ![e] = "updating"]
        /\ handle' = [handle EXCEPT ![e] = "open"]
        /\ kcp' = [kcp EXCEPT ![e] = Input(Construct(0), net[e][i])]
    BY <1>2 DEF Accept
  <2>2. kcp[e] = Construct(0) BY <1>1, <2>1 DEF Births
  <2>3. Directions' BY <1>2, <2>1, <2>2, SoundInput
  <2>4. Births'
    <3>1. /\ life'[e] = "updating"
          /\ \A f \in Ends : f # e => life'[f] = life[f] /\ kcp'[f] = kcp[f] /\ handle'[f] = handle[f]
      BY <1>1, <2>1 DEF LifeOK, BlocksOK
    <3> QED BY <1>1, <3>1 DEF Births
  <2> QED BY <2>3, <2>4
<1>3. CASE InputActive(e, net[e][i]) /\ net' = [net EXCEPT ![e] = Without(net[e], i)]
  <2>1. /\ life[e] \in {"updating", "ended"} /\ UNCHANGED <<life, handle>>
        /\ kcp' = [kcp EXCEPT ![e] = Input(kcp[e], net[e][i])]
    BY <1>3 DEF InputActive, Active
  <2>2. Directions' BY <1>3, <2>1, SoundInput
  <2>3. Births'
    <3>1. \A f \in Ends : f # e => kcp'[f] = kcp[f] BY <1>1, <2>1 DEF BlocksOK
    <3> QED BY <1>1, <2>1, <3>1 DEF Births
  <2> QED BY <2>2, <2>3
<1>4. CASE life[e] = "dead" /\ UNCHANGED <<kcp, life, handle, reader>>
           /\ net' = [[net EXCEPT ![e] = Without(net[e], i)] EXCEPT ![Far(e)] = Append(@, Bare("CLF"))]
  BY <1>4, SoundRefuse
<1>5. CASE UNCHANGED <<kcp, life, handle, reader>> /\ net' = [net EXCEPT ![e] = Without(net[e], i)]
  BY <1>5, SoundRefuse
<1> QED BY <1>2, <1>3, <1>4, <1>5 DEF Receive

(* Blocks that are closed leave a direction as it was. *)
LEMMA FlowCalm ==
  ASSUME NEW k, NEW far, NEW s \in Nat, NEW g, NEW to, NEW back, Flow(k, far, s, g, to, back),
         NEW k2, Calm(k, k2), NEW far2, Calm(far, far2)
  PROVE  Flow(k2, far2, s, g, to, back)
PROOF
<1>1. PICK q \in Nat, r \in Nat : Flows(k, far, s, g, to, back, q, r) BY DEF Flow
<1>2. to \in Seq(WireN(s, q)) BY <1>1 DEF Flows
<1>3. to \in Seq(Seg(1..s))
  <2>1. WireN(s, q) \subseteq Seg(1..s) BY DEF WireN
  <2> QED BY <1>2, <2>1, SeqMonotonic
<1>4. Onward(s, to, to) BY <1>3 DEF Onward
<1>5. Backward(far2, back, back) BY DEF Backward
<1> QED BY <1>4, <1>5, FlowQuiet DEF Calm

(* The update task of e runs: it sends in the one direction and acknowledges *)
(* in the other.                                                             *)
LEMMA SoundUpdate ==
  ASSUME Sound, NEW e \in Ends, NEW flushes \in BOOLEAN, NEW late, UpdateOpen(e, flushes, late)
  PROVE  Births' /\ Directions'
PROOF
<1> DEFINE f == Far(e)  u == Update(kcp[e], flushes, late)
           b == IF u.k.dead THEN ForceClose(u.k) ELSE u.k
<1>1. Typed /\ Births /\ Directions /\ NetOK /\ BlocksOK /\ LifeOK BY DEF Sound, Typed
<1>2. /\ net' = [net EXCEPT ![f] = net[f] \o u.out] /\ kcp' = [kcp EXCEPT ![e] = b]
      /\ life[e] = "updating"
      /\ life' = [life EXCEPT ![e] = "ended"] \/ UNCHANGED life
      /\ UNCHANGED <<kbuf, handle, sent, got>>
  BY DEF UpdateOpen, CanUpdate
<1>3. f \in Ends /\ f # e /\ Far(f) = e /\ \A x \in Ends : x = e \/ x = f BY FarFacts
<1>5. /\ kcp'[e] = b /\ kcp'[f] = kcp[f] /\ net'[e] = net[e] /\ net'[f] = net[f] \o u.out
  <2> HIDE DEF u, b
  <2> QED BY <1>1, <1>2, <1>3 DEF BlocksOK, NetOK
<1>6. /\ BlockOK(e, kcp[e]) /\ sent[e] \in Nat /\ sent[f] \in Nat /\ Given(e) \in Nat /\ Given(f) \in Nat
      /\ net[f] \in Seq(Seg(Unit(e))) /\ kcp[f] \in Blk(Plain(f))
  <2>1. /\ BlockOK(e, kcp[e]) /\ sent[e] \in Nat /\ Given(e) \in Nat BY <1>1, TypedEnds
  <2>2. /\ sent[f] \in Nat /\ Given(f) \in Nat /\ kcp[f] \in Blk(Plain(f)) BY <1>1, <1>3, TypedEnds
  <2>3. net[f] \in Seq(Seg(Unit(Far(f)))) BY <1>1, <1>3 DEF NetOK
  <2> QED BY <1>3, <2>1, <2>2, <2>3
<1>u. u = Update(kcp[e], flushes, late) OBVIOUS
<1>7. u.k \in Blk(Plain(e)) BY <1>6, UpdateOK DEF BlockOK
<1> HIDE DEF u
<1>8. Calm(u.k, b) BY <1>7, CalmSame, CalmClose
<1> HIDE DEF b
<1>9. ASSUME Half(sent[e])
      PROVE  Flow(b, kcp[f], sent[e], Given(f), net[f] \o u.out, net[e]) /\ Ordered(f)
  <2>1. Flow(kcp[e], kcp[f], sent[e], Given(f), net[f], net[e]) /\ Ordered(f)
    BY <1>1, <1>9 DEF Directions, Direction
  <2> HIDE DEF f
  <2>2. Flow(u.k, kcp[f], sent[e], Given(f), net[f] \o u.out, net[e])
    BY <1>6, <1>9, <1>u, <2>1, FlowUpdate
  <2>3. Calm(kcp[f], kcp[f]) BY CalmSame
  <2> QED BY <1>6, <1>8, <2>1, <2>2, <2>3, FlowCalm
<1>10. ASSUME Half(sent[f])
       PROVE  Flow(kcp[f], b, sent[f], Given(e), net[e], net[f] \o u.out) /\ Ordered(e)
  <2>1. Flow(kcp[f], kcp[e], sent[f], Given(e), net[e], net[f]) /\ Ordered(e)
    BY <1>1, <1>3, <1>10 DEF Directions, Direction
  <2> HIDE DEF f
  <2>2. Flow(kcp[f], u.k, sent[f], Given(e), net[e], net[f] \o u.out)
    BY <1>6, <1>u, <2>1, FlowAnswers
  <2>3. Calm(kcp[f], kcp[f]) BY CalmSame
  <2> QED BY <1>6, <1>8, <2>1, <2>2, <2>3, FlowCalm
<1>11. \A x \in Ends : Given(x)' = Given(x) /\ (Ordered(x)' <=> Ordered(x))
  BY <1>2 DEF Given, Ordered
<1>12. Direction(e)' BY <1>2, <1>3, <1>5, <1>9, <1>11 DEF Direction
<1>13. Direction(f)' BY <1>2, <1>3, <1>5, <1>10, <1>11 DEF Direction
<1>14. Births'
  <2>1. \A x \in Ends : x # e => kcp'[x] = kcp[x] /\ life'[x] = life[x]
    BY <1>1, <1>2 DEF BlocksOK, LifeOK
  <2>2. life'[e] \in {"ended", "updating"} BY <1>1, <1>2 DEF LifeOK
  <2> QED BY <1>1, <1>2, <2>1, <2>2 DEF Births
<1> QED BY <1>3, <1>12, <1>13, <1>14 DEF Directions

(* The socket refuses: what the flush did to the block stays. *)
LEMMA SoundUpdateFails ==
  ASSUME Sound, NEW e \in Ends, UpdateFails(e) PROVE Births' /\ Directions'
PROOF
<1> DEFINE f == Far(e)  w == Flush(kcp[e], {})
<1>1. Typed /\ Births /\ Directions /\ NetOK /\ BlocksOK /\ LifeOK BY DEF Sound, Typed
<1>2. /\ kcp' = [kcp EXCEPT ![e] = w.k] /\ life' = [life EXCEPT ![e] = "ended"]
      /\ UNCHANGED <<kbuf, handle, sent, got, net>>
  BY DEF UpdateFails
<1>3. f \in Ends /\ f # e /\ Far(f) = e /\ \A x \in Ends : x = e \/ x = f BY FarFacts
<1>w. w = Flush(kcp[e], {}) OBVIOUS
<1> HIDE DEF w
<1>5. kcp'[e] = w.k /\ kcp'[f] = kcp[f] BY <1>1, <1>2, <1>3 DEF BlocksOK
<1>6. /\ BlockOK(e, kcp[e]) /\ sent[e] \in Nat /\ sent[f] \in Nat /\ Given(e) \in Nat /\ Given(f) \in Nat
      /\ net[f] \in Seq(Seg(Unit(e))) /\ kcp[f] \in Blk(Plain(f))
  <2>1. /\ BlockOK(e, kcp[e]) /\ sent[e] \in Nat /\ Given(e) \in Nat BY <1>1, TypedEnds
  <2>2. /\ sent[f] \in Nat /\ Given(f) \in Nat /\ kcp[f] \in Blk(Plain(f)) BY <1>1, <1>3, TypedEnds
  <2>3. net[f] \in Seq(Seg(Unit(Far(f)))) BY <1>1, <1>3 DEF NetOK
  <2> QED BY <1>3, <2>1, <2>2, <2>3
<1>9. ASSUME Half(sent[e])
      PROVE  Flow(w.k, kcp[f], sent[e], Given(f), net[f], net[e]) /\ Ordered(f)
  <2>1. Flow(kcp[e], kcp[f], sent[e], Given(f), net[f], net[e]) /\ Ordered(f)
    BY <1>1, <1>9 DEF Directions, Direction
  <2> HIDE DEF f
  <2> QED BY <1>6, <1>9, <1>w, <2>1, FlowFlush
<1>10. ASSUME Half(sent[f])
       PROVE  Flow(kcp[f], w.k, sent[f], Given(e), net[e], net[f]) /\ Ordered(e)
  <2>1. Flow(kcp[f], kcp[e], sent[f], Given(e), net[e], net[f]) /\ Ordered(e)
    BY <1>1, <1>3, <1>10 DEF Directions, Direction
  <2> HIDE DEF f
  <2> QED BY <1>6, <1>w, <2>1, FlowAnswersNothing
<1>11. \A x \in Ends : Given(x)' = Given(x) /\ (Ordered(x)' <=> Ordered(x))
  BY <1>2 DEF Given, Ordered
<1>12. Direction(e)' BY <1>2, <1>3, <1>5, <1>9, <1>11 DEF Direction
<1>13. Direction(f)' BY <1>2, <1>3, <1>5, <1>10, <1>11 DEF Direction
<1>14. Births'
  <2>1. \A x \in Ends : x # e => kcp'[x] = kcp[x] /\ life'[x] = life[x]
    BY <1>1, <1>2 DEF BlocksOK, LifeOK
  <2>2. life'[e] = "ended" BY <1>1, <1>2 DEF LifeOK
  <2> QED BY <1>1, <1>2, <2>1, <2>2 DEF Births
<1> QED BY <1>3, <1>12, <1>13, <1>14 DEF Directions

(* A program writes. *)
LEMMA SoundWrite == ASSUME Sound, NEW e \in Ends, Write(e) PROVE Births' /\ Directions'
PROOF
<1> DEFINE f == Far(e)  n == Head(todo[e])  m == sent[e]  k == kcp[e]
           k2 == Send(kcp[e], [i \in 1..n |-> m + i])
<1>1. Typed /\ Births /\ Directions /\ NetOK /\ BlocksOK /\ LifeOK /\ WriteOK BY DEF Sound, Typed
<1>2. /\ UNCHANGED <<life, reader, kbuf, handle, got, net, faults>> /\ handle[e] # "none"
      /\ todo[e] # <<>> /\ todo[e] \in Seq(1..(WndRcv - 1))
  BY <1>1 DEF Write, WriteOK
<1>3. f \in Ends /\ f # e /\ Far(f) = e /\ \A x \in Ends : x = e \/ x = f BY FarFacts
<1>4. CASE kcp[e].close_state # "no"
  <2>1. UNCHANGED <<kcp, sent>> BY <1>4 DEF Write
  <2>2. Births' BY <1>1, <1>2, <2>1 DEF Births
  <2>3. Typed' BY <1>1, TypedWrite
  <2>4. \A x \in Ends : Calm(kcp[x], kcp'[x]) BY <2>1, CalmSame
  <2>5. \A x \in Ends : Backward(kcp'[Far(x)], net[x], net'[x]) BY <1>2 DEF Backward
  <2>6. UNCHANGED <<sent, kbuf, got>> BY <1>2, <2>1
  <2>7. Directions' BY <1>1, <2>3, <2>4, <2>5, <2>6, DirectionsCalm
  <2> QED BY <2>2, <2>7
<1>5. CASE kcp[e].close_state = "no"
  <2>1. kcp' = [kcp EXCEPT ![e] = k2] /\ sent' = [sent EXCEPT ![e] = m + n] BY <1>5 DEF Write
  <2>2. n \in 1..(WndRcv - 1) BY <1>2, HeadTailProperties
  <2>3. m \in Nat /\ sent[f] \in Nat BY <1>1, <1>3 DEF WriteOK
  <2>4. n \in Nat /\ n >= 1 BY <2>2, ConstantFacts
  <2>5. k2 = Send(k, [i \in 1..n |-> m + i]) /\ k.close_state = "no" /\ k = kcp[e] BY <1>5
  <2> HIDE DEF n, k, k2
  <2>6. /\ kcp'[e] = k2 /\ kcp'[f] = kcp[f] /\ sent'[e] = m + n /\ sent'[f] = sent[f]
    BY <1>1, <1>3, <2>1 DEF BlocksOK, WriteOK
  <2> HIDE DEF m
  <2>7. k \in Blk(Plain(e)) BY <1>1, <2>5, TypedEnds
  <2> DEFINE t == [queued |-> Seg(1..(m + n)), kept |-> Plain(e).kept, early |-> Plain(e).early,
                   ready |-> Plain(e).ready, acks |-> Plain(e).acks, out |-> Plain(e).out]
  <2>8. k \in Blk(t)
    <3>1. Seg(1..m) \subseteq Seg(1..(m + n))
      <4>1. m + n \in Nat /\ m <= m + n BY <2>3, <2>4
      <4> QED BY <2>3, <4>1, SegGrows
    <3>2. Plain(e).queued \subseteq t.queued BY <3>1, PlainFacts DEF Unit, m
    <3> HIDE DEF k
    <3>3. /\ t.kept = Plain(e).kept /\ t.early = Plain(e).early /\ t.ready = Plain(e).ready
          /\ t.acks = Plain(e).acks /\ t.out = Plain(e).out
      OBVIOUS
    <3> HIDE DEF t
    <3> QED BY <2>7, <3>2, <3>3, BlkGrows
  <2>9. Queued(t, k, n, m, k2)
    <3>1. \A i \in 1..n : Piece(n, i, m) \in t.queued BY <2>2, <2>3, PieceType
    <3> HIDE DEF t
    <3> QED BY <2>3, <2>4, <2>5, <2>8, <3>1, SendEffect
  <2> HIDE DEF t
  <2>10. Given(e) \in Nat /\ Given(f) \in Nat /\ kcp[f] \in Blk(Plain(f)) BY <1>1, <1>3, TypedEnds
  <2>11. ASSUME Half(m + n)
         PROVE  Flow(k2, kcp[f], m + n, Given(f), net[f], net[e]) /\ Ordered(f)
    <3>1. Half(m) BY <2>3, <2>4, <2>11, ConstantFacts DEF Half
    <3>2. Flow(k, kcp[f], m, Given(f), net[f], net[e]) /\ Ordered(f)
      BY <1>1, <2>5, <3>1 DEF Directions, Direction, m
    <3> HIDE DEF f
    <3>3. Flow(k2, kcp[f], m + n, Given(f), net[f], net[e])
      BY <2>3, <2>4, <2>5, <2>8, <2>9, <2>10, <3>2, FlowWrite
    <3> QED BY <3>2, <3>3
  <2>12. ASSUME Half(sent[f])
         PROVE  Flow(kcp[f], k2, sent[f], Given(e), net[e], net[f]) /\ Ordered(e)
    <3>1. Flow(kcp[f], k, sent[f], Given(e), net[e], net[f]) /\ Ordered(e)
      BY <1>1, <1>3, <2>5, <2>12 DEF Directions, Direction
    <3>2. SameReceiver(k, k2) /\ k2.buf = k.buf /\ k2.close_state = k.close_state
      BY <2>9 DEF Queued
    <3>3. SameSender(kcp[f], kcp[f]) BY DEF SameSender
    <3>4. net[e] \in Seq(Seg(1..sent[f])) BY <1>1, TypedEnds
    <3> HIDE DEF f
    <3>5. Onward(sent[f], net[e], net[e]) BY <3>4 DEF Onward
    <3>6. Backward(k2, net[f], net[f]) BY DEF Backward
    <3>7. Flow(kcp[f], k2, sent[f], Given(e), net[e], net[f])
      BY <2>3, <3>1, <3>2, <3>3, <3>5, <3>6, FlowQuiet
    <3> QED BY <3>1, <3>7
  <2>13. \A x \in Ends : Given(x)' = Given(x) /\ (Ordered(x)' <=> Ordered(x))
    BY <1>2 DEF Given, Ordered
  <2>14. Direction(e)' BY <1>2, <1>3, <2>6, <2>11, <2>13 DEF Direction
  <2>15. Direction(f)' BY <1>2, <1>3, <2>6, <2>12, <2>13 DEF Direction
  <2>16. Births'
    <3>1. k2.close_state = kcp[e].close_state BY <2>5, <2>9 DEF Queued
    <3>2. \A x \in Ends : x # e => kcp'[x] = kcp[x] BY <1>3, <2>6
    <3> QED BY <1>1, <1>2, <2>6, <3>1, <3>2 DEF Births
  <2> QED BY <1>3, <2>14, <2>15, <2>16 DEF Directions
<1> QED BY <1>4, <1>5

(* A read takes what it has room for, and keeps the rest for the next one. *)
TookOn(g, d, v, b) == Len(v) + Len(b) = Len(g) + Len(d) /\ InOrder(v, b)

(* What is read, and the rest, go on in order. *)
LEMMA CutOrdered ==
  ASSUME NEW g \in Seq(Nat), NEW d \in Seq(Nat), NEW size, NEW a, NEW b, Cut(Nat, d, size, a, b),
         InOrder(g, d), NEW v, v = g \o a
  PROVE  TookOn(g, d, v, b)
PROOF
<1> DEFINE x == Len(g)  y == Len(a)  z == Len(b)  w == Len(d)
<1>1. /\ a \in Seq(Nat) /\ b \in Seq(Nat) /\ y + z = w
      /\ \A i \in 1..y : a[i] = d[i]
      /\ \A i \in 1..z : b[i] = d[y + i]
  BY DEF Cut
<1>2. x \in Nat /\ y \in Nat /\ z \in Nat /\ w \in Nat BY <1>1, LenProperties
<1>3. /\ Len(v) = x + y
      /\ \A i \in 1..x : v[i] = g[i]
      /\ \A i \in 1..y : v[x + i] = a[i]
  BY <1>1, ConcatFacts
<1>4. (\A i \in 1..x : g[i] = i) /\ (\A i \in 1..w : d[i] = x + i) BY DEF InOrder
<1> HIDE DEF x, y, z, w
<1>5. Len(v) + z = x + w BY <1>1, <1>2, <1>3
<1>6. ASSUME NEW i \in 1..Len(v) PROVE v[i] = i
  <2>1. CASE i <= x
    <3>1. i \in 1..x BY <1>2, <1>3, <2>1
    <3> QED BY <1>3, <1>4, <3>1
  <2>2. CASE ~(i <= x)
    <3>1. i - x \in 1..y /\ i - x \in 1..w /\ x + (i - x) = i BY <1>1, <1>2, <1>3, <2>2
    <3>2. v[i] = a[i - x] /\ a[i - x] = d[i - x] /\ d[i - x] = x + (i - x)
      BY <1>1, <1>3, <1>4, <3>1
    <3> QED BY <3>1, <3>2
  <2> QED BY <2>1, <2>2
<1>7. ASSUME NEW i \in 1..z PROVE b[i] = Len(v) + i
  <2>1. y + i \in 1..w /\ x + (y + i) = Len(v) + i BY <1>1, <1>2, <1>3
  <2>2. b[i] = d[y + i] /\ d[y + i] = x + (y + i) BY <1>1, <1>4, <2>1
  <2> QED BY <2>1, <2>2
<1> QED BY <1>5, <1>6, <1>7 DEF x, z, w, InOrder, TookOn

(* A read from the rest of a message. *)
LEMMA SoundReadRest ==
  ASSUME Sound, NEW e \in Ends, NEW size \in BufSizes, Read(e, size), ReadRest(e, size)
  PROVE  Births' /\ Directions'
PROOF
<1> DEFINE f == Far(e)  a == SubSeq(kbuf[e], 1, Min({size, Len(kbuf[e])}))
           b == SubSeq(kbuf[e], size + 1, Len(kbuf[e]))
<1>1. Typed /\ Births /\ Directions /\ ReadOK BY DEF Sound, Typed
<1>2. UNCHANGED <<kcp, life, handle, sent, net>> BY DEF Read, ReadRest
<1>3. f \in Ends /\ f # e /\ Far(f) = e /\ \A x \in Ends : x = e \/ x = f BY FarFacts
<1>4. got' = [got EXCEPT ![e] = got[e] \o a] /\ kbuf' = [kbuf EXCEPT ![e] = b] BY DEF ReadRest
<1>5. got[e] \in Seq(Nat) /\ kbuf[e] \in Seq(Nat) /\ size \in Nat BY <1>1, TypedEnds, LinkAssumption
<1>6. Cut(Nat, kbuf[e], size, a, b) BY <1>5, CutFacts
<1> HIDE DEF a, b
<1>7. /\ got'[e] = got[e] \o a /\ kbuf'[e] = b /\ got'[f] = got[f] /\ kbuf'[f] = kbuf[f]
  BY <1>1, <1>3, <1>4 DEF ReadOK
<1>8. Given(f)' = Given(f) /\ (Ordered(f)' <=> Ordered(f)) BY <1>7 DEF Given, Ordered
<1>9. ASSUME Ordered(e) PROVE Ordered(e)' /\ Given(e)' = Given(e)
  <2>1. TookOn(got[e], kbuf[e], got'[e], b)
    <3>1. InOrder(got[e], kbuf[e]) BY <1>9 DEF Ordered
    <3> QED BY <1>5, <1>6, <1>7, <3>1, CutOrdered
  <2> QED BY <1>7, <2>1 DEF Ordered, Given, TookOn
<1>10. Direction(e)' BY <1>1, <1>2, <1>8 DEF Directions, Direction
<1>11. Direction(f)' BY <1>1, <1>2, <1>3, <1>9 DEF Directions, Direction
<1>12. Births' BY <1>1, <1>2 DEF Births
<1> QED BY <1>3, <1>10, <1>11, <1>12 DEF Directions

(* What a read of the next message takes, seen from the stream. *)
Fresh(e, size, y) ==
  LET data == DataOf(FrontMessage(kcp[e]))
  IN /\ Follows(data, kcp[Far(e)], sent[Far(e)], Given(e), y)
     /\ Flow(kcp[Far(e)], Recv(kcp[e]), sent[Far(e)], Given(e) + y, net[e], net[Far(e)])
     /\ Cut(Nat, data, size, SubSeq(data, 1, Min({size, Len(data)})), SubSeq(data, size + 1, Len(data)))
     /\ Ordered(e) /\ Len(data) = y

(* The message at the front is fresh. *)
LEMMA ReadFresh ==
  ASSUME Sound, NEW e \in Ends, NEW size \in BufSizes, kcp[e].rcv_queue # <<>>, Half(sent[Far(e)])
  PROVE  \E y \in Nat : Fresh(e, size, y)
PROOF
<1> DEFINE f == Far(e)  data == DataOf(FrontMessage(kcp[e]))
<1>1. Typed /\ Directions BY DEF Sound
<1>2. f \in Ends /\ Far(f) = e BY FarFacts
<1>3. Flow(kcp[f], kcp[e], sent[f], Given(e), net[e], net[f]) /\ Ordered(e)
  BY <1>1, <1>2 DEF Directions, Direction
<1>4. /\ BlockOK(e, kcp[e]) /\ kcp[f] \in Blk(Plain(f)) /\ sent[f] \in Nat /\ Given(e) \in Nat
  BY <1>1, <1>2, TypedEnds
<1>5. sent[f] = sent[Far(e)] /\ Half(sent[f]) /\ data = DataOf(FrontMessage(kcp[e])) OBVIOUS
<1> HIDE DEF f, data
<1>6. PICK y \in Nat :
        /\ Follows(data, kcp[f], sent[f], Given(e), y)
        /\ Flow(kcp[f], Recv(kcp[e]), sent[f], Given(e) + y, net[e], net[f])
  BY <1>3, <1>4, <1>5, FlowReads
<1>7. data \in Seq(Nat) /\ Len(data) = y BY <1>6 DEF Follows
<1>8. size \in Nat BY LinkAssumption
<1>9. Cut(Nat, data, size, SubSeq(data, 1, Min({size, Len(data)})), SubSeq(data, size + 1, Len(data)))
  BY <1>7, <1>8, CutFacts
<1> QED BY <1>3, <1>6, <1>7, <1>9 DEF Fresh, f, data

(* A read of the next message. *)
LEMMA SoundReadMessage ==
  ASSUME Sound, NEW e \in Ends, NEW size \in BufSizes, Read(e, size), ReadMessage(e, size)
  PROVE  Births' /\ Directions'
PROOF
<1> DEFINE f == Far(e)  data == DataOf(FrontMessage(kcp[e]))
           a == SubSeq(data, 1, Min({size, Len(data)}))  b == SubSeq(data, size + 1, Len(data))
<1>1. Typed /\ Births /\ Directions /\ ReadOK /\ BlocksOK BY DEF Sound, Typed
<1>2. UNCHANGED <<life, handle, sent, net>> BY DEF Read
<1>3. f \in Ends /\ f # e /\ Far(f) = e /\ \A x \in Ends : x = e \/ x = f BY FarFacts
<1>4. /\ got' = [got EXCEPT ![e] = got[e] \o a] /\ kbuf' = [kbuf EXCEPT ![e] = b]
      /\ kcp' = [kcp EXCEPT ![e] = Recv(kcp[e])] /\ kbuf[e] = <<>>
      /\ kcp[e].rcv_queue # <<>>
  BY PeekFacts DEF ReadMessage
<1>5. /\ got'[e] = got[e] \o a /\ kbuf'[e] = b /\ got'[f] = got[f] /\ kbuf'[f] = kbuf[f]
      /\ kcp'[e] = Recv(kcp[e]) /\ kcp'[f] = kcp[f]
  <2> HIDE DEF a, b
  <2> QED BY <1>1, <1>3, <1>4 DEF ReadOK, BlocksOK
<1>6. Given(f)' = Given(f) /\ (Ordered(f)' <=> Ordered(f)) BY <1>5 DEF Given, Ordered
<1>7. /\ SameSender(kcp[e], Recv(kcp[e])) /\ Recv(kcp[e]).buf = kcp[e].buf
      /\ Recv(kcp[e]).close_state = kcp[e].close_state
  <2>1. BlockOK(e, kcp[e]) BY <1>1, TypedEnds
  <2>2. PICK x \in 1..Len(kcp[e].rcv_queue) : Fetched(Plain(e), kcp[e], x, Recv(kcp[e]))
    BY <1>4, <2>1, RecvOK
  <2> QED BY <2>2 DEF Fetched
<1>8. Direction(e)'
  <2>1. ASSUME Half(sent[e])
        PROVE  Flow(Recv(kcp[e]), kcp[f], sent[e], Given(f), net[f], net[e]) /\ Ordered(f)
    <3>1. Flow(kcp[e], kcp[f], sent[e], Given(f), net[f], net[e]) /\ Ordered(f)
      BY <1>1, <2>1 DEF Directions, Direction
    <3>2. sent[e] \in Nat BY <1>1, TypedEnds
    <3>3. net[f] \in Seq(Seg(1..sent[e]))
      <4>1. net[f] \in Seq(Seg(1..sent[Far(f)])) BY <1>1, <1>3, TypedEnds
      <4> QED BY <1>3, <4>1
    <3> HIDE DEF f
    <3>4. Onward(sent[e], net[f], net[f]) BY <3>3 DEF Onward
    <3>5. Backward(kcp[f], net[e], net[e]) BY DEF Backward
    <3>6. SameReceiver(kcp[f], kcp[f]) BY DEF SameReceiver
    <3>7. Flow(Recv(kcp[e]), kcp[f], sent[e], Given(f), net[f], net[e])
      BY <1>7, <3>1, <3>2, <3>4, <3>5, <3>6, FlowQuiet
    <3> QED BY <3>1, <3>7
  <2> QED BY <1>2, <1>5, <1>6, <2>1 DEF Direction
<1>9. Direction(f)'
  <2>1. ASSUME Half(sent[f])
        PROVE  /\ Flow(kcp[f], Recv(kcp[e]), sent[f], Given(e)', net[e], net[f])
               /\ Ordered(e)'
    <3>1. PICK y \in Nat : Fresh(e, size, y) BY <1>4, <2>1, ReadFresh
    <3>2. /\ Follows(data, kcp[f], sent[f], Given(e), y) /\ Ordered(e) /\ Len(data) = y
          /\ Flow(kcp[f], Recv(kcp[e]), sent[f], Given(e) + y, net[e], net[f])
          /\ Cut(Nat, data, size, a, b)
      BY <3>1 DEF Fresh
    <3>3. got[e] \in Seq(Nat) BY <1>1, TypedEnds
    <3> HIDE DEF data, a, b, f
    <3>4. /\ Given(e) = Len(got[e]) /\ Len(got[e]) \in Nat
      <4>1. Len(kbuf[e]) = 0 /\ Len(got[e]) \in Nat BY <1>4, <3>3, LenProperties
      <4> QED BY <4>1 DEF Given
    <3>5. data \in Seq(Nat) /\ \A i \in 1..Len(data) : data[i] = Len(got[e]) + i
      BY <3>2, <3>4 DEF Follows
    <3>d. InOrder(got[e], data) BY <3>2, <3>5 DEF Ordered, InOrder
    <3>6. TookOn(got[e], data, got'[e], b)
      BY <1>5, <3>2, <3>3, <3>5, <3>d, CutOrdered
    <3>7. Given(e)' = Given(e) + y BY <1>5, <3>2, <3>4, <3>6 DEF Given, TookOn
    <3>8. Ordered(e)' BY <1>5, <3>6 DEF Ordered, TookOn
    <3> QED BY <3>2, <3>7, <3>8
  <2> QED BY <1>2, <1>3, <1>5, <2>1 DEF Direction
<1>10. Births'
  <2>1. \A x \in Ends : x # e => kcp'[x] = kcp[x] BY <1>3, <1>5
  <2>2. life[e] # "absent" BY <1>1 DEF Births, Read
  <2> QED BY <1>1, <1>2, <1>5, <1>7, <2>1, <2>2 DEF Births
<1> QED BY <1>3, <1>8, <1>9, <1>10 DEF Directions

(* A read keeps both directions as they should be. *)
LEMMA SoundRead ==
  ASSUME Sound, NEW e \in Ends, NEW size \in BufSizes, Read(e, size) PROVE Births' /\ Directions'
PROOF
<1>1. CASE ReadRest(e, size) BY <1>1, SoundReadRest
<1>2. CASE ReadMessage(e, size) BY <1>2, SoundReadMessage
<1>3. CASE ReadNothing(e)
  <2>1. UNCHANGED <<kcp, life, handle, sent, net, got, kbuf>> BY <1>3 DEF Read, ReadNothing
  <2>2. Births' BY <2>1 DEF Sound, Births
  <2>3. Typed /\ Directions /\ Typed' BY TypedRead DEF Sound
  <2>4. \A x \in Ends : Calm(kcp[x], kcp'[x]) BY <2>1, CalmSame
  <2>5. \A x \in Ends : Backward(kcp'[Far(x)], net[x], net'[x]) BY <2>1 DEF Backward
  <2>6. Directions' BY <2>1, <2>3, <2>4, <2>5, DirectionsCalm
  <2> QED BY <2>2, <2>6
<1> QED BY <1>1, <1>2, <1>3 DEF Read

(* Every step keeps it, unless the listener is restarted. *)
LEMMA SoundNext == ASSUME "restart" \notin Faults, Sound, [Next]_vars PROVE Sound'
PROOF
<1>1. Typed' BY TypedNext DEF Sound
<1>2. CASE UNCHANGED vars
  <2>1. UNCHANGED <<kcp, life, reader, kbuf, handle, todo, sent, got, net, faults>>
    BY <1>2 DEF vars
  <2>2. Births' BY <2>1 DEF Sound, Births
  <2>3. Directions' BY <2>1 DEF Sound, Directions, Direction, Given, Ordered
  <2> QED BY <1>1, <2>2, <2>3 DEF Sound
<1>3. ASSUME NEW e \in Ends,
             \/ Write(e) \/ CloseStream(e) \/ RunClose(e)
             \/ \E size \in BufSizes : Read(e, size)
             \/ EndClosed(e) \/ UpdateFails(e) \/ WaitExpires(e) \/ Clean(e)
             \/ \E flushes \in BOOLEAN, late \in SUBSET Sns(e) : UpdateOpen(e, flushes, late)
             \/ \E i \in DOMAIN net[e] : Receive(e, i) \/ Lose(e, i) \/ Repeat(e, i)
             \/ Crash(e)
             \/ Restart
      PROVE  Births' /\ Directions'
  <2>1. CASE Write(e) BY <2>1, SoundWrite
  <2>2. CASE \/ CloseStream(e) \/ RunClose(e) \/ Clean(e)
             \/ EndClosed(e) \/ WaitExpires(e) \/ Crash(e)
    BY <2>2, SoundClose
  <2>3. CASE \E size \in BufSizes : Read(e, size) BY <2>3, SoundRead
  <2>4. CASE UpdateFails(e) BY <2>4, SoundUpdateFails
  <2>5. CASE \E flushes \in BOOLEAN, late \in SUBSET Sns(e) : UpdateOpen(e, flushes, late)
    BY <2>5, SoundUpdate
  <2>6. CASE \E i \in DOMAIN net[e] : Receive(e, i) \/ Lose(e, i) \/ Repeat(e, i)
    BY <2>6, SoundReceive, SoundFault
  <2>7. ~Restart BY DEF Restart, Fault
  <2> QED BY <1>3, <2>1, <2>2, <2>3, <2>4, <2>5, <2>6, <2>7
<1> QED BY <1>1, <1>2, <1>3 DEF Next, Sound

-----------------------------------------------------------------------------
(* Nothing is forgotten.                                                      *)

(* The hypothesis.  A direction carries less than half of the numbers, so that *)
(* a copy that is late is told from a new segment; and before an end that       *)
(* closes sends its CLS, whose una is 0 whatever has been received, the numbers *)
(* of what it receives have not passed the half either.                         *)
FewUnits == \A e \in Ends : Half(sent[e]) /\ Low(kcp[Far(e)], sent[e])

(* A segment that carries u is among those that carry u. *)
LEMMA HasUnit ==
  ASSUME NEW S, NEW segs \in Seq(S), NEW i \in 1..Len(segs), NEW u, segs[i].data = <<u>>
  PROVE  u \in UnitsOf(segs)
PROOF
<1>1. i \in DOMAIN segs BY LenProperties
<1>2. u \in Range(segs[i].data)
  <2>1. DOMAIN <<u>> = {1} /\ <<u>>[1] = u OBVIOUS
  <2> QED BY <2>1 DEF Range
<1> QED BY <1>1, <1>2 DEF UnitsOf

(* Segments typed by U carry units of U. *)
LEMMA UnitsWithin ==
  ASSUME NEW S, NEW U, \A x \in S : x.data \in Datum(U), NEW segs \in Seq(S)
  PROVE  UnitsOf(segs) \subseteq U
PROOF
<1>1. ASSUME NEW i \in DOMAIN segs, NEW u \in Range(segs[i].data) PROVE u \in U
  <2>1. segs[i] \in S
    <3>1. i \in 1..Len(segs) BY LenProperties
    <3> QED BY <3>1, ElementOfSeq
  <2>2. segs[i].data = <<>> \/ \E v \in U : segs[i].data = <<v>> BY <2>1 DEF Datum
  <2>3. Range(<<>>) = {} BY DEF Range
  <2>4. \A v \in U : Range(<<v>>) = {v}
    <3>1. ASSUME NEW v \in U PROVE Range(<<v>>) = {v}
      <4>1. DOMAIN <<v>> = {1} /\ <<v>>[1] = v OBVIOUS
      <4> QED BY <4>1 DEF Range
    <3> QED BY <3>1
  <2> QED BY <2>2, <2>3, <2>4
<1> QED BY <1>1 DEF UnitsOf

(* The segment that carries the number of a unit carries the unit. *)
LEMMA CarriesUnit ==
  ASSUME NEW s \in Nat, Half(s), NEW q \in Nat, q <= s + 1, NEW u \in 1..s, u <= q,
         NEW x, Numbered(x, s, q), x.sn = Sn(u - 1)
  PROVE  x.data = <<u>>
PROOF
<1>1. PICK w \in 1..q : x.sn = Sn(w - 1) /\ x.data = Carried(s, w) BY DEF Numbered
<1>2. w - 1 \in Nat /\ w - 1 < SnMod /\ u - 1 \in Nat /\ u - 1 < SnMod
  BY ConstantFacts DEF Half
<1>3. w - 1 = u - 1 BY <1>1, <1>2, SnInjective
<1>4. w = u BY <1>3
<1> QED BY <1>1, <1>4 DEF Carried

(* Where a unit that was written is. *)
LEMMA UnitSomewhere ==
  ASSUME NEW t, NEW k \in Blk(t), NEW t3, NEW far \in Blk(t3), NEW s \in Nat, Half(s),
         NEW q \in Nat, NEW r \in Nat, NEW g \in Nat, NEW to, NEW back,
         Flows(k, far, s, g, to, back, q, r), Held(k, far, q, r), NEW u \in 1..s
  PROVE  \/ u \in UnitsOf(k.snd_queue) \/ u \in UnitsOf(k.snd_buf)
         \/ u \in UnitsOf(far.rcv_buf) \/ u \in UnitsOf(far.rcv_queue) \/ u <= g
PROOF
<1>1. SendSide(k, s, q) /\ RecvSide(far, s, q, r, g) BY DEF Flows
<1>2. /\ k.snd_queue \in Seq(t.queued) /\ Len(k.snd_queue) \in Nat
      /\ far.rcv_queue \in Seq(t3.ready) /\ Len(far.rcv_queue) \in Nat
  BY LenProperties DEF Blk
<1>3. q <= s + 1 /\ r <= q BY <1>1 DEF RecvSide
<1>4. CASE ~(u <= q)
  <2>1. u - q \in 1..Len(k.snd_queue) /\ q + (u - q) = u BY <1>1, <1>2, <1>4 DEF SendSide
  <2>2. k.snd_queue[u - q].data = Carried(s, u) BY <1>1, <2>1 DEF SendSide
  <2>3. k.snd_queue[u - q].data = <<u>> BY <2>2 DEF Carried
  <2> QED BY <1>2, <2>1, <2>3, HasUnit
<1>5. CASE u <= q
  <2>1. u \in 1..q BY <1>5
  <2>2. CASE \E i \in 1..Len(k.snd_buf) : k.snd_buf[i].sn = Sn(u - 1)
    <3>1. PICK i \in 1..Len(k.snd_buf) : k.snd_buf[i].sn = Sn(u - 1) BY <2>2
    <3>2. k.snd_buf \in Seq(KeptN(s, q)) BY <1>1 DEF SendSide
    <3>3. Numbered(k.snd_buf[i], s, q)
      <4>1. k.snd_buf[i] \in KeptN(s, q) BY <3>2, ElementOfSeq
      <4> QED BY <4>1 DEF KeptN
    <3>4. k.snd_buf[i].data = <<u>> BY <1>3, <1>5, <3>1, <3>3, CarriesUnit
    <3> QED BY <3>2, <3>4, HasUnit
  <2>3. CASE \E i \in 1..Len(far.rcv_buf) : far.rcv_buf[i].sn = Sn(u - 1)
    <3>1. PICK i \in 1..Len(far.rcv_buf) : far.rcv_buf[i].sn = Sn(u - 1) BY <2>3
    <3>2. far.rcv_buf \in Seq(EarlyN(s, q)) BY <1>1 DEF RecvSide
    <3>3. Numbered(far.rcv_buf[i], s, q)
      <4>1. far.rcv_buf[i] \in EarlyN(s, q) BY <3>2, ElementOfSeq
      <4> QED BY <4>1 DEF EarlyN
    <3>4. far.rcv_buf[i].data = <<u>> BY <1>3, <1>5, <3>1, <3>3, CarriesUnit
    <3> QED BY <3>2, <3>4, HasUnit
  <2>4. CASE \E w \in 1..r : Sn(u - 1) = Sn(w - 1)
    <3>1. PICK w \in 1..r : Sn(u - 1) = Sn(w - 1) BY <2>4
    <3>2. w - 1 \in Nat /\ w - 1 < SnMod /\ u - 1 \in Nat /\ u - 1 < SnMod
      BY <1>3, ConstantFacts DEF Half
    <3>3. u - 1 = w - 1 BY <3>1, <3>2, SnInjective
    <3>4. u <= r BY <3>3
    <3>5. CASE u <= g BY <3>5
    <3>6. CASE ~(u <= g)
      <4>a. r = g + Len(far.rcv_queue) \/ g = s BY <1>1 DEF RecvSide
      <4>1. r = g + Len(far.rcv_queue) BY <3>6, <4>a
      <4>2. u - g \in 1..Len(far.rcv_queue) /\ (r - Len(far.rcv_queue)) + (u - g) = u
        BY <1>2, <3>4, <3>6, <4>1
      <4>3. far.rcv_queue[u - g].data = Carried(s, (r - Len(far.rcv_queue)) + (u - g))
        BY <1>1, <4>2 DEF RecvSide
      <4>4. far.rcv_queue[u - g].data = Carried(s, u) BY <4>2, <4>3
      <4>5. far.rcv_queue[u - g].data = <<u>> BY <4>4 DEF Carried
      <4> QED BY <1>2, <4>2, <4>5, HasUnit
    <3> QED BY <3>5, <3>6
  <2> QED BY <2>1, <2>2, <2>3, <2>4 DEF Held, AtPeer
<1> QED BY <1>4, <1>5

(* The invariant implies that nothing is forgotten. *)
LEMMA SoundNothingForgotten == ASSUME Sound, FewUnits PROVE NothingForgotten
PROOF
<1>1. Typed /\ Directions BY DEF Sound
<1>2. ASSUME NEW e \in Ends
      PROVE  Unit(e) = UnitsOf(kcp[e].snd_queue) \union UnitsOf(kcp[e].snd_buf)
                       \union UnitsOf(kcp[Far(e)].rcv_buf) \union UnitsOf(kcp[Far(e)].rcv_queue)
                       \union Range(kbuf[Far(e)]) \union Range(got[Far(e)])
  <2> DEFINE f == Far(e)  k == kcp[e]  far == kcp[f]  s == sent[e]  g == Given(f)
  <2>1. f \in Ends /\ Far(f) = e BY FarFacts
  <2>2. /\ k \in Blk(Plain(e)) /\ far \in Blk(Plain(f)) /\ s \in Nat /\ g \in Nat /\ Unit(e) = 1..s
        /\ got[f] \in Seq(Nat) /\ kbuf[f] \in Seq(Nat)
    BY <1>1, <2>1, TypedEnds
  <2>3. Half(s) /\ Low(far, s) BY DEF FewUnits
  <2>4. Flow(k, far, s, g, net[f], net[e]) /\ Ordered(f) BY <1>1, <2>3 DEF Directions, Direction
  <2>5. g = Len(got[f]) + Len(kbuf[f]) BY DEF Given
  <2>6. kbuf[f] \in Seq(Unit(e)) /\ got[f] \in Seq(Unit(e))
    <3>1. ReadOK BY <1>1 DEF Typed
    <3>2. kbuf[f] \in Seq(Unit(Far(f))) /\ got[f] \in Seq(Unit(Far(f))) BY <2>1, <3>1 DEF ReadOK
    <3> QED BY <2>1, <3>2
  <2>7. /\ k.snd_queue \in Seq(Seg(Unit(e))) /\ k.snd_buf \in Seq(Kept(Unit(e)))
        /\ far.rcv_buf \in Seq(Seg(Unit(e))) /\ far.rcv_queue \in Seq(Seg(Unit(e)))
    BY <2>1, <2>2, PlainFacts DEF Blk
  <2> HIDE DEF f, k, far, s, g
  <2>8. PICK q \in Nat, r \in Nat : Flows(k, far, s, g, net[f], net[e], q, r) BY <2>4 DEF Flow
  <2>9. Held(k, far, q, r) BY <2>3, <2>8 DEF Flows
  <2>10. ASSUME NEW u \in Unit(e)
         PROVE  \/ u \in UnitsOf(k.snd_queue) \/ u \in UnitsOf(k.snd_buf)
                \/ u \in UnitsOf(far.rcv_buf) \/ u \in UnitsOf(far.rcv_queue)
                \/ u \in Range(kbuf[f]) \/ u \in Range(got[f])
    <3>1. u \in 1..s BY <2>2
    <3>2. \/ u \in UnitsOf(k.snd_queue) \/ u \in UnitsOf(k.snd_buf)
          \/ u \in UnitsOf(far.rcv_buf) \/ u \in UnitsOf(far.rcv_queue) \/ u <= g
      BY <2>2, <2>3, <2>8, <2>9, <3>1, UnitSomewhere
    <3>3. CASE u <= g
      <4>1. /\ DOMAIN got[f] = 1..Len(got[f]) /\ DOMAIN kbuf[f] = 1..Len(kbuf[f])
            /\ Len(got[f]) \in Nat /\ Len(kbuf[f]) \in Nat
        BY <2>2, LenProperties
      <4>2. CASE u <= Len(got[f])
        <5>1. u \in DOMAIN got[f] BY <3>1, <4>1, <4>2
        <5>2. got[f][u] = u BY <2>4, <4>1, <5>1 DEF Ordered, InOrder
        <5> QED BY <5>1, <5>2 DEF Range
      <4>3. CASE ~(u <= Len(got[f]))
        <5>1. u - Len(got[f]) \in 1..Len(kbuf[f]) /\ Len(got[f]) + (u - Len(got[f])) = u
          <6>1. \A a, b \in Nat, v \in 1..s :
                  ~(v <= a) /\ v <= a + b => v - a \in 1..b /\ a + (v - a) = v
            BY <2>2
          <6>2. u <= Len(got[f]) + Len(kbuf[f]) BY <2>5, <3>3
          <6> QED BY <3>1, <4>1, <4>3, <6>1, <6>2
        <5>2. kbuf[f][u - Len(got[f])] = u BY <2>4, <5>1 DEF Ordered, InOrder
        <5> QED BY <4>1, <5>1, <5>2 DEF Range
      <4> QED BY <4>2, <4>3
    <3> QED BY <3>2, <3>3
  <2>11. /\ UnitsOf(k.snd_queue) \subseteq Unit(e) /\ UnitsOf(k.snd_buf) \subseteq Unit(e)
         /\ UnitsOf(far.rcv_buf) \subseteq Unit(e) /\ UnitsOf(far.rcv_queue) \subseteq Unit(e)
    <3>1. /\ \A x \in Seg(Unit(e)) : x.data \in Datum(Unit(e))
          /\ \A x \in Kept(Unit(e)) : x.data \in Datum(Unit(e))
      BY DEF Seg, Kept
    <3> QED BY <2>7, <3>1, UnitsWithin
  <2>12. Range(kbuf[f]) \subseteq Unit(e) /\ Range(got[f]) \subseteq Unit(e)
    BY <2>6, RangeWithin
  <2> QED BY <2>10, <2>11, <2>12 DEF f, k, far
<1> QED BY <1>2 DEF NothingForgotten

(* A unit that was written is in one of the queues of the two ends or was read *)
(* (parse_una, parse_ack and move_buf of kcp/third_party/mod.rs): whatever is   *)
(* lost, repeated or reordered, and however the streams are closed, the sender  *)
(* forgets a segment only when the receiver holds it.                           *)
THEOREM UnitsKept ==
  ASSUME "restart" \notin Faults PROVE Spec => [](FewUnits => NothingForgotten)
PROOF
<1>1. Init => Sound BY SoundInit
<1>2. Sound /\ [Next]_vars => Sound' BY SoundNext
<1>3. Sound => (FewUnits => NothingForgotten) BY SoundNothingForgotten
<1> QED BY <1>1, <1>2, <1>3, PTL DEF Spec

-----------------------------------------------------------------------------
(* The promise of Pipe.                                                       *)

\* No direction has carried half of the numbers.
Unwrapped == \A e \in Ends : Half(sent[e])

\* What has been read is a function on the two ends, whatever was read.
Readers == got = [e \in Ends |-> got[e]]

Over == [e \in Ends |-> IF reader[e] \in {"eof", "reset"} THEN reader[e] ELSE "no"]
Shutted == [e \in Ends |-> kcp[e].close_state # "no"]

(* A waker ends no reading. *)
LEMMA OverSame ==
  ASSUME LifeOK, NEW e \in Ends, NEW k,
         reader' = reader \/ reader' = Wake(e, k) \/ reader' = WakeAlways(e)
  PROVE  Over' = Over
PROOF
<1>1. ASSUME NEW f \in Ends
      PROVE  (IF reader'[f] \in {"eof", "reset"} THEN reader'[f] ELSE "no")
               = IF reader[f] \in {"eof", "reset"} THEN reader[f] ELSE "no"
  <2>1. reader'[f] = reader[f] \/ (reader[f] = "wait" /\ reader'[f] = "run")
    BY DEF LifeOK, Wake, WakeAlways
  <2> QED BY <2>1
<1> QED BY <1>1, Zenon DEF Over

(* Steps that neither write nor read: an end is shut, or nothing happens. *)
LEMMA StepShut ==
  ASSUME BlocksOK, NEW e \in Ends, UNCHANGED <<sent, got>>, Over' = Over,
         NEW b, kcp' = [kcp EXCEPT ![e] = b],
         kcp[e].close_state # "no" => b.close_state # "no"
  PROVE  [Promise!Next]_(Promise!vars)
PROOF
<1>1. kcp'[e] = b /\ \A f \in Ends : f # e => kcp'[f] = kcp[f] BY DEF BlocksOK
<1>2. CASE kcp[e].close_state = "no" /\ b.close_state # "no"
  <2>1. Shutted' = [Shutted EXCEPT ![e] = TRUE]
    <3>1. \A f \in Ends : (kcp'[f].close_state # "no") = IF f = e THEN TRUE ELSE kcp[f].close_state # "no"
      BY <1>1, <1>2
    <3> QED BY <3>1, Zenon DEF Shutted
  <2>2. ~Shutted[e] BY <1>2 DEF Shutted
  <2>3. Promise!Shut(e) BY <2>1, <2>2 DEF Promise!Shut, Shutted, Over
  <2> QED BY <2>3 DEF Promise!Next
<1>3. CASE ~(kcp[e].close_state = "no" /\ b.close_state # "no")
  <2>1. Shutted' = Shutted
    <3>1. \A f \in Ends : kcp'[f].close_state # "no" <=> kcp[f].close_state # "no" BY <1>1, <1>3
    <3> QED BY <3>1, Zenon DEF Shutted
  <2> QED BY <2>1 DEF Promise!vars, Shutted, Over
<1> QED BY <1>2, <1>3

(* Nothing the promise is about changes. *)
LEMMA StepQuiet ==
  ASSUME UNCHANGED <<sent, got, kcp>>, Over' = Over PROVE [Promise!Next]_(Promise!vars)
PROOF BY DEF Promise!vars, Over

(* A write is a write of the promise, or changes nothing there. *)
LEMMA PromiseWrite == ASSUME Typed, NEW e \in Ends, Write(e) PROVE [Promise!Next]_(Promise!vars)
PROOF
<1>1. BlocksOK /\ LifeOK /\ WriteOK BY DEF Typed
<1>2. UNCHANGED <<reader, got>> /\ todo[e] # <<>> /\ todo[e] \in Seq(1..(WndRcv - 1))
  BY <1>1 DEF Write, WriteOK
<1>3. Over' = Over BY <1>2 DEF Over
<1>4. CASE kcp[e].close_state # "no"
  <2>1. UNCHANGED <<kcp, sent>> BY <1>4 DEF Write
  <2> QED BY <1>2, <1>3, <2>1, StepQuiet
<1>5. CASE kcp[e].close_state = "no"
  <2> DEFINE n == Head(todo[e])  m == sent[e]  k2 == Send(kcp[e], [i \in 1..n |-> m + i])
  <2>1. kcp' = [kcp EXCEPT ![e] = k2] /\ sent' = [sent EXCEPT ![e] = m + n] BY <1>5 DEF Write
  <2>2. n \in 1..(WndRcv - 1) BY <1>2, HeadTailProperties
  <2>3. m \in Nat BY <1>1 DEF WriteOK
  <2>4. n \in Nat /\ n >= 1 BY <2>2, ConstantFacts
  <2>5. k2.close_state = kcp[e].close_state BY DEF Send
  <2> HIDE DEF n, k2
  <2>6. sent'[e] = m + n /\ kcp'[e] = k2 /\ \A f \in Ends : f # e => kcp'[f] = kcp[f]
    BY <1>1, <2>1 DEF WriteOK, BlocksOK
  <2>7. Shutted' = Shutted /\ ~Shutted[e]
    <3>1. \A f \in Ends : kcp'[f].close_state # "no" <=> kcp[f].close_state # "no" BY <2>5, <2>6
    <3>2. Shutted' = Shutted BY <3>1, Zenon DEF Shutted
    <3> QED BY <1>5, <3>2 DEF Shutted
  <2>8. m + n \in Nat /\ m + n > m BY <2>3, <2>4
  <2>9. Promise!Write(e)
    <3>1. sent' = [sent EXCEPT ![e] = sent'[e]] BY <2>1, <2>6
    <3> QED BY <1>2, <1>3, <2>6, <2>7, <2>8, <3>1 DEF Promise!Write, Shutted, Over
  <2> QED BY <2>9 DEF Promise!Next
<1> QED BY <1>4, <1>5

(* A read hands the program the units that follow those it has. *)
LEMMA StepRead ==
  ASSUME NEW e \in Ends, got[e] \in Seq(Nat), Over[e] = "no", UNCHANGED sent,
         Over' = Over, Shutted' = Shutted,
         NEW a \in Seq(Nat), got' = [got EXCEPT ![e] = got[e] \o a],
         \A i \in 1..Len(a) : a[i] = Len(got[e]) + i,
         Len(a) >= 1, sent[Far(e)] \in Nat, Len(got[e]) + Len(a) <= sent[Far(e)]
  PROVE  [Promise!Next]_(Promise!vars)
PROOF
<1> DEFINE n == Len(a)  g == got[e]  l == Len(g)  s == sent[Far(e)]
<1>1. n \in Nat /\ l \in Nat /\ DOMAIN a = 1..n BY LenProperties
<1>2. n \in 1..(s - l)
  <2> HIDE DEF n, l, s
  <2>1. n >= 1 /\ s \in Nat /\ l + n <= s BY DEF n, s, l
  <2> QED BY <1>1, <2>1
<1>3. a = [i \in 1..n |-> l + i]
  <2>1. a = [i \in 1..n |-> a[i]] BY <1>1
  <2>2. \A i \in 1..n : a[i] = l + i OBVIOUS
  <2> HIDE DEF n, l
  <2> QED BY <2>1, <2>2
<1>4. got' = [got EXCEPT ![e] = @ \o [i \in 1..n |-> Len(@) + i]] BY <1>3
<1>5. \E m \in 1..(sent[Far(e)] - Len(got[e])) :
        got' = [got EXCEPT ![e] = @ \o [i \in 1..m |-> Len(@) + i]]
  <2> HIDE DEF n
  <2> QED BY <1>2, <1>4
<1>6. Promise!Read(e) BY <1>5 DEF Promise!Read, Over, Shutted
<1> QED BY <1>6 DEF Promise!Next

(* A cut that has something to take from takes something. *)
LEMMA CutTakes ==
  ASSUME NEW d \in Seq(Nat), NEW size \in Nat, size >= 1, NEW a, NEW b, Cut(Nat, d, size, a, b)
  PROVE  /\ a \in Seq(Nat) /\ Len(a) \in Nat /\ Len(a) <= Len(d)
         /\ Len(d) >= 1 => Len(a) >= 1
         /\ \A i \in 1..Len(a) : a[i] = d[i] /\ i \in 1..Len(d)
PROOF
<1>1. /\ a \in Seq(Nat) /\ Len(a) = IF size <= Len(d) THEN size ELSE Len(d)
      /\ \A i \in 1..Len(a) : a[i] = d[i]
  BY DEF Cut
<1>2. Len(a) \in Nat /\ Len(d) \in Nat BY <1>1, LenProperties
<1> QED BY <1>1, <1>2

(* A read from the rest of a message is a read of the promise. *)
LEMMA PromiseReadRest ==
  ASSUME Sound, Unwrapped, NEW e \in Ends, NEW size \in BufSizes, Read(e, size), ReadRest(e, size)
  PROVE  [Promise!Next]_(Promise!vars)
PROOF
<1> DEFINE f == Far(e)  a == SubSeq(kbuf[e], 1, Min({size, Len(kbuf[e])}))
           b == SubSeq(kbuf[e], size + 1, Len(kbuf[e]))
<1>1. Typed /\ Directions /\ ReadOK BY DEF Sound, Typed
<1>2. f \in Ends /\ Far(f) = e BY FarFacts
<1>3. UNCHANGED <<kcp, reader, sent>> /\ reader[e] = "run" /\ kbuf[e] # <<>>
  BY DEF Read, ReadRest
<1>4. got' = [got EXCEPT ![e] = got[e] \o a] BY DEF ReadRest
<1>5. /\ got[e] \in Seq(Nat) /\ kbuf[e] \in Seq(Nat) /\ size \in Nat /\ size >= 1 /\ sent[f] \in Nat
  BY <1>1, <1>2, TypedEnds, LinkAssumption
<1>6. Cut(Nat, kbuf[e], size, a, b) BY <1>5, CutFacts
<1> HIDE DEF a, b
<1>7. Ordered(e)
  <2>1. Direction(f) /\ Half(sent[f]) BY <1>1, <1>2 DEF Directions, Unwrapped
  <2> QED BY <1>2, <2>1 DEF Direction
<1>8. Len(kbuf[e]) \in Nat /\ Len(got[e]) \in Nat /\ Len(kbuf[e]) >= 1
  BY <1>3, <1>5, LenProperties, EmptySeq
<1>9. Len(got[e]) + Len(kbuf[e]) <= sent[f]
  <2>1. kbuf[e] \in Seq(1..sent[f]) BY <1>1 DEF ReadOK, Unit
  <2>2. Len(kbuf[e]) \in 1..Len(kbuf[e]) BY <1>8
  <2>3. kbuf[e][Len(kbuf[e])] \in 1..sent[f] BY <2>1, <2>2, ElementOfSeq
  <2>4. kbuf[e][Len(kbuf[e])] = Len(got[e]) + Len(kbuf[e]) BY <1>7, <2>2 DEF Ordered, InOrder
  <2> DEFINE x == kbuf[e][Len(kbuf[e])]  y == Len(got[e]) + Len(kbuf[e])  s == sent[f]
  <2>5. x \in 1..s /\ x = y /\ s \in Nat BY <1>5, <2>3, <2>4
  <2> HIDE DEF x, y, s
  <2>6. y <= s BY <2>5
  <2> QED BY <2>6 DEF y, s
<1>10. /\ a \in Seq(Nat) /\ Len(a) \in Nat /\ Len(a) <= Len(kbuf[e]) /\ Len(a) >= 1
       /\ \A i \in 1..Len(a) : a[i] = kbuf[e][i] /\ i \in 1..Len(kbuf[e])
  BY <1>5, <1>6, <1>8, CutTakes
<1>11. \A i \in 1..Len(a) : a[i] = Len(got[e]) + i BY <1>7, <1>10 DEF Ordered, InOrder
<1>12. Len(got[e]) + Len(a) <= sent[Far(e)]
  <2> DEFINE x == Len(got[e])  y == Len(kbuf[e])  z == Len(a)  s == sent[f]
  <2>1. x \in Nat /\ y \in Nat /\ z \in Nat /\ s \in Nat /\ x + y <= s /\ z <= y
    BY <1>5, <1>8, <1>9, <1>10
  <2> HIDE DEF x, y, z, s
  <2>2. x + z <= s BY <2>1
  <2> QED BY <2>2 DEF x, z, s
<1>13. Over' = Over /\ Shutted' = Shutted /\ Over[e] = "no" BY <1>3 DEF Over, Shutted
<1> QED BY <1>3, <1>4, <1>5, <1>10, <1>11, <1>12, <1>13, StepRead

(* So is a read of the next message, unless it is the copy of CLS: that is *)
(* the end of the stream, and all of it has been read.                     *)
LEMMA PromiseReadMessage ==
  ASSUME Sound, Readers, Unwrapped, NEW e \in Ends, NEW size \in BufSizes, Read(e, size), ReadMessage(e, size)
  PROVE  [Promise!Next]_(Promise!vars)
PROOF
<1> DEFINE f == Far(e)  data == DataOf(FrontMessage(kcp[e]))
           a == SubSeq(data, 1, Min({size, Len(data)}))  b == SubSeq(data, size + 1, Len(data))
<1>1. Typed /\ Directions /\ ReadOK /\ BlocksOK /\ LifeOK BY DEF Sound, Typed
<1>2. f \in Ends /\ Far(f) = e BY FarFacts
<1>3. /\ UNCHANGED sent /\ reader[e] = "run" /\ kbuf[e] = <<>> /\ kcp[e].rcv_queue # <<>>
      /\ reader' = [reader EXCEPT ![e] = IF data = <<>> THEN "eof" ELSE "run"]
      /\ got' = [got EXCEPT ![e] = got[e] \o a]
      /\ kcp' = [kcp EXCEPT ![e] = Recv(kcp[e])]
  BY PeekFacts DEF Read, ReadMessage
<1>4. got[e] \in Seq(Nat) /\ size \in Nat /\ size >= 1 /\ sent[f] \in Nat
  BY <1>1, <1>2, TypedEnds, LinkAssumption
<1>5. Half(sent[f]) BY <1>2 DEF Unwrapped
<1>6. PICK y \in Nat : Fresh(e, size, y) BY <1>3, <1>5, ReadFresh
<1>7. /\ Follows(data, kcp[f], sent[f], Given(e), y) /\ Len(data) = y
      /\ Cut(Nat, data, size, a, b)
  BY <1>6 DEF Fresh
<1> HIDE DEF data, a, b
<1>8. Given(e) = Len(got[e]) /\ Len(got[e]) \in Nat
  <2>1. Len(kbuf[e]) = 0 /\ Len(got[e]) \in Nat BY <1>3, <1>4, LenProperties
  <2> QED BY <2>1 DEF Given
<1>9. /\ data \in Seq(Nat) /\ \A i \in 1..y : data[i] = Len(got[e]) + i
      /\ Len(got[e]) + y <= sent[f] /\ (y = 0 => Len(got[e]) = sent[f] /\ Shutting(kcp[f].close_state))
  BY <1>7, <1>8 DEF Follows
<1>10. Shutted' = Shutted
  <2>1. Recv(kcp[e]).close_state = kcp[e].close_state
    <3>1. BlockOK(e, kcp[e]) BY <1>1, TypedEnds
    <3>2. PICK x \in 1..Len(kcp[e].rcv_queue) : Fetched(Plain(e), kcp[e], x, Recv(kcp[e]))
      BY <1>3, <3>1, RecvOK
    <3> QED BY <3>2 DEF Fetched
  <2>2. \A x \in Ends : kcp'[x].close_state # "no" <=> kcp[x].close_state # "no"
    BY <1>1, <1>3, <2>1 DEF BlocksOK
  <2> QED BY <2>2, Zenon DEF Shutted
<1>11. Over[e] = "no" BY <1>3 DEF Over
<1>12. /\ a \in Seq(Nat) /\ Len(a) \in Nat /\ Len(a) <= y /\ (y >= 1 => Len(a) >= 1)
       /\ \A i \in 1..Len(a) : a[i] = data[i] /\ i \in 1..y
  BY <1>4, <1>7, <1>9, CutTakes, SMTT(20)
<1>13. CASE y # 0
  <2>1. data # <<>> BY <1>7, <1>13, EmptySeq
  <2>2. reader' = reader BY <1>1, <1>3, <2>1 DEF LifeOK
  <2>3. Over' = Over BY <2>2 DEF Over
  <2>4. Len(a) >= 1 BY <1>12, <1>13
  <2>5. \A i \in 1..Len(a) : a[i] = Len(got[e]) + i BY <1>9, <1>12
  <2>6. Len(got[e]) + Len(a) <= sent[Far(e)] BY <1>4, <1>8, <1>9, <1>12
  <2> QED BY <1>3, <1>4, <1>10, <1>11, <1>12, <2>3, <2>4, <2>5, <2>6, StepRead
<1>14. CASE y = 0
  <2>1. data = <<>> /\ a = <<>> BY <1>7, <1>9, <1>12, <1>14, EmptySeq
  <2>2. got' = got
    <3>1. got[e] \o a = got[e] BY <1>4, <2>1, ConcatEmptySeq
    <3>2. got' = [got EXCEPT ![e] = got[e]] BY <1>3, <3>1
    <3>3. [got EXCEPT ![e] = got[e]] = [x \in Ends |-> got[x]] BY <1>1 DEF ReadOK
    <3> QED BY <3>2, <3>3 DEF Readers
  <2>3. Over' = [Over EXCEPT ![e] = "eof"]
    <3>1. \A x \in Ends : reader'[x] = IF x = e THEN "eof" ELSE reader[x]
      BY <1>1, <1>3, <2>1 DEF LifeOK
    <3> QED BY <3>1 DEF Over
  <2>4. Shutted[Far(e)] /\ Len(got[e]) = sent[Far(e)]
    BY <1>2, <1>9, <1>14 DEF Shutted, Shutting
  <2>5. Promise!EndOfStream(e)
    BY <1>3, <1>10, <1>11, <2>2, <2>3, <2>4 DEF Promise!EndOfStream, Over, Shutted
  <2> QED BY <2>5 DEF Promise!Next
<1> QED BY <1>13, <1>14

(* Every read is a step of the promise; one that finds the block closed is a *)
(* reset.                                                                    *)
LEMMA PromiseRead ==
  ASSUME Sound, Readers, Unwrapped, NEW e \in Ends, NEW size \in BufSizes, Read(e, size)
  PROVE  [Promise!Next]_(Promise!vars)
PROOF
<1>1. CASE ReadRest(e, size) BY <1>1, PromiseReadRest
<1>2. CASE ReadMessage(e, size) BY <1>2, PromiseReadMessage
<1>3. CASE ReadNothing(e)
  <2>1. UNCHANGED <<kcp, sent, got>> /\ reader[e] = "run" /\ LifeOK
    BY <1>3 DEF Read, ReadNothing, Sound, Typed
  <2>2. CASE reader' = [reader EXCEPT ![e] = "reset"]
    <3>1. Over' = [Over EXCEPT ![e] = "reset"] /\ Over[e] = "no"
      <4>1. \A x \in Ends : reader'[x] = IF x = e THEN "reset" ELSE reader[x]
        BY <2>1, <2>2 DEF LifeOK
      <4> QED BY <2>1, <4>1 DEF Over
    <3>2. Promise!Reset(e) BY <2>1, <3>1 DEF Promise!Reset, Over
    <3> QED BY <3>2 DEF Promise!Next
  <2>3. CASE reader' = [reader EXCEPT ![e] = "wait"]
    <3>1. \A x \in Ends : reader'[x] = IF x = e THEN "wait" ELSE reader[x]
      BY <2>1, <2>3 DEF LifeOK
    <3>2. Over' = Over BY <2>1, <3>1 DEF Over
    <3> QED BY <2>1, <3>2, StepQuiet
  <2> QED BY <1>3, <2>2, <2>3 DEF ReadNothing
<1> QED BY <1>1, <1>2, <1>3 DEF Read

(* Steps that touch neither what was written nor what was read. *)
LEMMA PromiseClose ==
  ASSUME Typed, NEW e \in Ends, \/ CloseStream(e) \/ RunClose(e) \/ Clean(e)
                                \/ EndClosed(e) \/ WaitExpires(e) \/ Crash(e)
  PROVE  [Promise!Next]_(Promise!vars)
PROOF
<1>1. LifeOK /\ BlocksOK /\ kcp[e] \in Blk(Plain(e)) BY TypedEnds DEF Typed
<1>2. UNCHANGED <<sent, got>>
  BY DEF CloseStream, RunClose, Clean, EndClosed, WaitExpires, Crash
<1>3. reader' = reader \/ reader' = WakeAlways(e)
  BY DEF CloseStream, RunClose, Clean, EndClosed, WaitExpires, Crash
<1>4. Over' = Over BY <1>1, <1>3, OverSame
<1>5. kcp' = kcp \/ kcp' = [kcp EXCEPT ![e] = Close(kcp[e])]
  BY DEF CloseStream, RunClose, Clean, EndClosed, WaitExpires, Crash
<1>6. CASE kcp' = kcp BY <1>2, <1>4, <1>6, StepQuiet
<1>7. CASE kcp' = [kcp EXCEPT ![e] = Close(kcp[e])]
  <2>1. Close(kcp[e]).close_state # "no"
    <3>1. Close(kcp[e]).close_state = IF kcp[e].close_state = "no" THEN "wsnd" ELSE kcp[e].close_state
      BY <1>1, CloseEffect
    <3> QED BY <3>1
  <2> QED BY <1>1, <1>2, <1>4, <1>7, <2>1, StepShut
<1> QED BY <1>5, <1>6, <1>7

(* An update may shut an end. *)
LEMMA PromiseUpdate ==
  ASSUME Typed, NEW e \in Ends, NEW flushes \in BOOLEAN, NEW late, UpdateOpen(e, flushes, late)
  PROVE  [Promise!Next]_(Promise!vars)
PROOF
<1> DEFINE u == Update(kcp[e], flushes, late)
           b == IF u.k.dead THEN ForceClose(u.k) ELSE u.k
<1>1. LifeOK /\ BlocksOK /\ BlockOK(e, kcp[e]) BY TypedEnds DEF Typed
<1>2. kcp' = [kcp EXCEPT ![e] = b] /\ UNCHANGED <<sent, got>> BY DEF UpdateOpen
<1>3. reader' = WakeAlways(e) \/ reader' = Wake(e, u.k) BY DEF UpdateOpen
<1>4. Over' = Over BY <1>1, <1>3, OverSame
<1>u. u = Update(kcp[e], flushes, late) OBVIOUS
<1> HIDE DEF u
<1>5. PICK n \in Nat : Updated(Plain(e), kcp[e], n, u) BY <1>1, <1>u, UpdateOK
<1>6. kcp[e].close_state # "no" => u.k.close_state # "no" BY <1>5 DEF Updated
<1>7. u.k \in Blk(Plain(e)) BY <1>5 DEF Updated
<1>8. kcp[e].close_state # "no" => b.close_state # "no"
  <2>1. ForceClose(u.k).close_state # "no" BY <1>7 DEF ForceClose, Blk
  <2> QED BY <1>6, <2>1
<1> HIDE DEF b
<1> QED BY <1>1, <1>2, <1>4, <1>8, StepShut

(* A flush whose socket refuses changes nothing the promise is about. *)
LEMMA PromiseUpdateFails ==
  ASSUME Typed, NEW e \in Ends, UpdateFails(e) PROVE [Promise!Next]_(Promise!vars)
PROOF
<1> DEFINE w == Flush(kcp[e], {})
<1>1. LifeOK /\ BlocksOK /\ BlockOK(e, kcp[e]) BY TypedEnds DEF Typed
<1>2. kcp' = [kcp EXCEPT ![e] = w.k] /\ UNCHANGED <<sent, got, reader>> BY DEF UpdateFails
<1>w. w = Flush(kcp[e], {}) OBVIOUS
<1> HIDE DEF w
<1>3. PICK n \in Nat : Flushed(Plain(e), kcp[e], n, w) BY <1>1, <1>w, FlushOK
<1>4. kcp[e].close_state # "no" => w.k.close_state # "no" BY <1>3 DEF Flushed
<1>5. Over' = Over BY <1>2 DEF Over
<1> QED BY <1>1, <1>2, <1>4, <1>5, StepShut

(* A datagram that is input may shut an end, and never opens it again. *)
LEMMA PromiseInput ==
  ASSUME Typed, NEW e \in Ends, NEW i \in DOMAIN net[e], NEW k, k = kcp[e], UNCHANGED <<sent, got>>,
         NEW k2, k2 = Input(k, net[e][i]), kcp' = [kcp EXCEPT ![e] = k2],
         reader' = reader \/ reader' = Wake(e, k2)
  PROVE  [Promise!Next]_(Promise!vars)
PROOF
<1>1. LifeOK /\ BlocksOK /\ NetOK /\ BlockOK(e, k) BY TypedEnds DEF Typed
<1>2. Over' = Over BY <1>1, OverSame
<1>3. net[e][i] \in Seg(Unit(Far(e))) BY <1>1, TakenFromNet
<1>4. Taken(Plain(e), k, net[e][i], k2) BY <1>1, <1>3, InputOK
<1>5. k.close_state # "no" => k2.close_state # "no" BY <1>4 DEF Taken
<1> QED BY <1>1, <1>2, <1>5, StepShut

(* A datagram arrives. *)
LEMMA PromiseReceive ==
  ASSUME Sound, NEW e \in Ends, NEW i \in DOMAIN net[e], Receive(e, i)
  PROVE  [Promise!Next]_(Promise!vars)
PROOF
<1>1. Typed /\ Births /\ BlocksOK BY DEF Sound, Typed
<1>2. UNCHANGED <<sent, got>> BY DEF Receive
<1>3. CASE Accept(e, net[e][i])
  <2>1. /\ kcp[e] = Construct(0) /\ UNCHANGED reader
        /\ kcp' = [kcp EXCEPT ![e] = Input(Construct(0), net[e][i])]
    BY <1>1, <1>3 DEF Accept, Births
  <2> QED BY <1>1, <1>2, <2>1, PromiseInput
<1>4. CASE InputActive(e, net[e][i])
  <2>1. kcp' = [kcp EXCEPT ![e] = Input(kcp[e], net[e][i])] /\ reader' = Wake(e, kcp'[e])
    BY <1>4 DEF InputActive
  <2>2. kcp'[e] = Input(kcp[e], net[e][i]) BY <1>1, <2>1 DEF BlocksOK
  <2> QED BY <1>1, <1>2, <2>1, <2>2, PromiseInput
<1>5. CASE UNCHANGED <<kcp, reader>>
  <2>1. Over' = Over BY <1>5 DEF Over
  <2> QED BY <1>2, <1>5, <2>1, StepQuiet
<1> QED BY <1>3, <1>4, <1>5 DEF Receive

(* The initial states are those of the promise. *)
LEMMA PromiseInit == ASSUME Init PROVE Promise!Init
PROOF
<1>1. sent = [e \in Ends |-> 0] /\ got = [e \in Ends |-> <<>>] BY DEF Init
<1>2. Over = [e \in Ends |-> "no"] BY DEF Init, Over
<1>3. Shutted = [e \in Ends |-> FALSE]
  <2>1. \A e \in Ends : ~(kcp[e].close_state # "no") BY DEF Init, Construct
  <2> QED BY <2>1, Zenon DEF Shutted
<1> QED BY <1>1, <1>2, <1>3 DEF Promise!Init, Over, Shutted

(* Every step is a step of the promise, or changes nothing there. *)
LEMMA PromiseNext ==
  ASSUME "restart" \notin Faults, Sound, Readers, Unwrapped, [Next]_vars
  PROVE  [Promise!Next]_(Promise!vars)
PROOF
<1>1. Typed BY DEF Sound
<1>2. CASE UNCHANGED vars
  <2>1. UNCHANGED <<sent, got, kcp, reader>> BY <1>2 DEF vars
  <2>2. Over' = Over BY <2>1 DEF Over
  <2> QED BY <2>1, <2>2, StepQuiet
<1>3. ASSUME NEW e \in Ends,
             \/ Write(e) \/ CloseStream(e) \/ RunClose(e)
             \/ \E size \in BufSizes : Read(e, size)
             \/ EndClosed(e) \/ UpdateFails(e) \/ WaitExpires(e) \/ Clean(e)
             \/ \E flushes \in BOOLEAN, late \in SUBSET Sns(e) : UpdateOpen(e, flushes, late)
             \/ \E i \in DOMAIN net[e] : Receive(e, i) \/ Lose(e, i) \/ Repeat(e, i)
             \/ Crash(e)
             \/ Restart
      PROVE  [Promise!Next]_(Promise!vars)
  <2>1. CASE Write(e) BY <1>1, <2>1, PromiseWrite
  <2>2. CASE \/ CloseStream(e) \/ RunClose(e) \/ Clean(e)
             \/ EndClosed(e) \/ WaitExpires(e) \/ Crash(e)
    BY <1>1, <2>2, PromiseClose
  <2>3. CASE \E size \in BufSizes : Read(e, size) BY <2>3, PromiseRead
  <2>4. CASE UpdateFails(e) BY <1>1, <2>4, PromiseUpdateFails
  <2>5. CASE \E flushes \in BOOLEAN, late \in SUBSET Sns(e) : UpdateOpen(e, flushes, late)
    BY <1>1, <2>5, PromiseUpdate
  <2>6. CASE \E i \in DOMAIN net[e] : Receive(e, i) BY <2>6, PromiseReceive
  <2>7. CASE \E i \in DOMAIN net[e] : Lose(e, i) \/ Repeat(e, i)
    <3>1. UNCHANGED <<sent, got, kcp, reader>> BY <2>7 DEF Lose, Repeat
    <3>2. Over' = Over BY <3>1 DEF Over
    <3> QED BY <3>1, <3>2, StepQuiet
  <2>8. ~Restart BY DEF Restart, Fault
  <2> QED BY <1>3, <2>1, <2>2, <2>3, <2>4, <2>5, <2>6, <2>7, <2>8
<1> QED BY <1>2, <1>3 DEF Next

(* Every step keeps got a function on the ends. *)
LEMMA ReadersNext ==
  ASSUME "restart" \notin Faults, ReadOK, Readers, [Next]_vars PROVE Readers'
PROOF
<1>1. CASE got' = got BY <1>1 DEF Readers
<1>2. CASE \E e \in Ends : \E x : got' = [got EXCEPT ![e] = x] BY <1>2 DEF ReadOK, Readers
<1>3. ASSUME NEW e \in Ends,
             \/ Write(e) \/ CloseStream(e) \/ RunClose(e)
             \/ EndClosed(e) \/ UpdateFails(e) \/ WaitExpires(e) \/ Clean(e)
             \/ \E flushes \in BOOLEAN, late \in SUBSET Sns(e) : UpdateOpen(e, flushes, late)
             \/ \E i \in DOMAIN net[e] : Receive(e, i) \/ Lose(e, i) \/ Repeat(e, i)
             \/ Crash(e)
      PROVE  got' = got
  BY <1>3 DEF Write, CloseStream, RunClose, EndClosed, UpdateFails, WaitExpires, Clean, UpdateOpen,
              Receive, Lose, Repeat, Crash
<1>4. ASSUME NEW e \in Ends, NEW size \in BufSizes, Read(e, size)
      PROVE  got' = got \/ \E x : got' = [got EXCEPT ![e] = x]
  BY <1>4 DEF Read, ReadRest, ReadMessage, ReadNothing
<1>5. UNCHANGED vars => got' = got BY DEF vars
<1>6. ~Restart BY DEF Restart, Fault
<1> QED BY <1>1, <1>2, <1>3, <1>4, <1>5, <1>6 DEF Next

(* A stream keeps the promise of Pipe (KcpStream of kcp/stream.rs): what is read *)
(* is what was written, from the first unit on and without a gap, and the end of *)
(* the stream comes after all of it, as long as no direction carries half of the *)
(* numbers a datagram can name.                                                  *)
THEOREM LinkKeepsPromise ==
  ASSUME "restart" \notin Faults PROVE Spec /\ []Unwrapped => KeepsPromise
PROOF
<1>1. Init => Sound /\ Readers /\ Promise!Init
  <2>1. ASSUME Init PROVE Readers BY <2>1 DEF Init, Readers
  <2> QED BY <2>1, SoundInit, PromiseInit
<1>2. Sound /\ Readers /\ [Next]_vars => Sound' /\ Readers'
  <2>1. ASSUME Sound, Readers, [Next]_vars PROVE Sound' /\ Readers'
    <3>1. Sound' BY <2>1, SoundNext
    <3>2. Readers' BY <2>1, ReadersNext DEF Sound, Typed
    <3> QED BY <3>1, <3>2
  <2> QED BY <2>1
<1>3. Sound /\ Readers /\ Unwrapped /\ [Next]_vars => [Promise!Next]_(Promise!vars) BY PromiseNext
<1> QED BY <1>1, <1>2, <1>3, PTL DEF Spec, KeepsPromise, Promise!Spec

-----------------------------------------------------------------------------
(* Links whose programs have little to write.  The hypotheses on the units    *)
(* that were written follow there from the constants alone.                   *)

\* W[e][j]: the units of the first j messages of e.
Counts(W) ==
  \A e \in Ends : /\ \A j \in 0..Len(Messages[e]) : W[e][j] \in Nat
                  /\ W[e][0] = 0
                  /\ \A j \in 1..Len(Messages[e]) : W[e][j] = W[e][j - 1] + Messages[e][j]

\* The first j messages of e are written, and the others follow or are given up.
Wrote(W, e, j) ==
  /\ j \in 0..Len(Messages[e]) /\ sent[e] = W[e][j]
  /\ todo[e] = <<>> \/ todo[e] = SubSeq(Messages[e], j + 1, Len(Messages[e]))
Written(W) == \A e \in Ends : \E j \in Nat : Wrote(W, e, j)

(* At first none is written. *)
LEMMA WrittenInit == ASSUME NEW W, Counts(W), Init PROVE Written(W)
PROOF
<1>1. ASSUME NEW e \in Ends PROVE Wrote(W, e, 0)
  <2>1. Messages[e] \in Seq(1..(WndRcv - 1)) BY LinkAssumption
  <2>2. Len(Messages[e]) \in Nat BY <2>1, LenProperties
  <2>3. SubSeq(Messages[e], 1, Len(Messages[e])) = Messages[e] BY <2>1
  <2>4. sent[e] = 0 /\ todo[e] = Messages[e] BY DEF Init
  <2> QED BY <2>2, <2>3, <2>4 DEF Wrote, Counts
<1> QED BY <1>1 DEF Written

(* The message that is written is the next one. *)
LEMMA WrittenWrite ==
  ASSUME NEW W, Counts(W), Typed, NEW e \in Ends, Write(e), NEW j \in Nat, Wrote(W, e, j)
  PROVE  \E i \in Nat : Wrote(W, e, i)'
PROOF
<1> DEFINE m == Messages[e]  l == Len(m)
<1>1. m \in Seq(1..(WndRcv - 1)) /\ l \in Nat /\ j \in 0..l BY LinkAssumption, LenProperties DEF Wrote
<1>2. todo[e] # <<>> /\ WriteOK BY DEF Write, Typed
<1>3. todo[e] = SubSeq(m, j + 1, l) BY <1>2 DEF Wrote
<1>4. CASE kcp[e].close_state # "no"
  <2>1. todo' = [todo EXCEPT ![e] = <<>>] /\ sent' = sent BY <1>4 DEF Write
  <2>2. todo'[e] = <<>> /\ sent'[e] = sent[e] BY <1>2, <2>1 DEF WriteOK
  <2>3. Wrote(W, e, j)' BY <2>2 DEF Wrote
  <2> QED BY <2>3
<1>5. CASE kcp[e].close_state = "no"
  <2>1. /\ todo' = [todo EXCEPT ![e] = Tail(todo[e])]
        /\ sent' = [sent EXCEPT ![e] = sent[e] + Head(todo[e])]
    BY <1>5 DEF Write
  <2>2. todo'[e] = Tail(todo[e]) /\ sent'[e] = sent[e] + Head(todo[e])
    BY <1>2, <2>1 DEF WriteOK
  <2>3. j < l
    <3>1. CASE j = l
      <4>1. SubSeq(m, j + 1, l) = <<>>
        <5>1. Len(SubSeq(m, l + 1, l)) = 0 /\ SubSeq(m, l + 1, l) \in Seq(1..(WndRcv - 1))
          <6>1. l \in 0..l /\ l - l = 0 BY <1>1
          <6> HIDE DEF m
          <6> QED BY <1>1, <6>1, SuffixFacts
        <5> QED BY <3>1, <5>1, EmptySeq
      <4> QED BY <1>2, <1>3, <4>1
    <3> QED BY <1>1, <3>1
  <2>4. Head(todo[e]) = m[j + 1] /\ Tail(todo[e]) = SubSeq(m, j + 2, l)
    <3> HIDE DEF m
    <3> QED BY <1>1, <1>3, <2>3
  <2>5. W[e][j + 1] = W[e][j] + m[j + 1]
    <3>1. j + 1 \in 1..l /\ (j + 1) - 1 = j BY <1>1, <2>3
    <3> QED BY <3>1 DEF Counts
  <2>6. Wrote(W, e, j + 1)'
    <3>1. j + 1 \in 0..l /\ (j + 1) + 1 = j + 2 BY <1>1, <2>3
    <3>2. sent[e] = W[e][j] BY DEF Wrote
    <3>3. sent'[e] = W[e][j + 1] BY <2>2, <2>4, <2>5, <3>2
    <3>4. todo'[e] = SubSeq(m, (j + 1) + 1, l) BY <2>2, <2>4, <3>1
    <3> QED BY <3>1, <3>3, <3>4 DEF Wrote
  <2>7. j + 1 \in Nat OBVIOUS
  <2> QED BY <2>6, <2>7
<1> QED BY <1>4, <1>5

(* Every step keeps the count of what is written. *)
LEMMA WrittenNext ==
  ASSUME NEW W, Counts(W), Typed, Written(W), [Next]_vars PROVE Written(W)'
PROOF
<1>1. ASSUME UNCHANGED <<sent, todo>> PROVE Written(W)' BY <1>1 DEF Written, Wrote
<1>2. ASSUME NEW e \in Ends, Write(e) PROVE Written(W)'
  <2>1. ASSUME NEW f \in Ends PROVE \E i \in Nat : Wrote(W, f, i)'
    <3>1. PICK j \in Nat : Wrote(W, f, j) BY DEF Written
    <3>2. CASE f = e BY <1>2, <3>1, <3>2, WrittenWrite
    <3>3. CASE f # e
      <4>1. sent'[f] = sent[f] /\ todo'[f] = todo[f] BY <1>2, <3>3 DEF Write, Typed, WriteOK
      <4>2. Wrote(W, f, j)' BY <3>1, <4>1 DEF Wrote
      <4> QED BY <4>2
    <3> QED BY <3>2, <3>3
  <2> QED BY <2>1 DEF Written
<1>3. ASSUME NEW e \in Ends,
             \/ CloseStream(e) \/ RunClose(e)
             \/ \E size \in BufSizes : Read(e, size)
             \/ EndClosed(e) \/ UpdateFails(e) \/ WaitExpires(e) \/ Clean(e)
             \/ \E flushes \in BOOLEAN, late \in SUBSET Sns(e) : UpdateOpen(e, flushes, late)
             \/ \E i \in DOMAIN net[e] : Receive(e, i) \/ Lose(e, i) \/ Repeat(e, i)
             \/ Crash(e) \/ Restart
      PROVE  UNCHANGED <<sent, todo>>
  BY <1>3 DEF CloseStream, RunClose, Read, EndClosed, UpdateFails, WaitExpires, Clean, UpdateOpen,
              Receive, Lose, Repeat, Crash, Restart
<1>4. UNCHANGED vars => UNCHANGED <<sent, todo>> BY DEF vars
<1> QED BY <1>1, <1>2, <1>3, <1>4 DEF Next

(* A link that is used for less than half of the numbers keeps the promise of    *)
(* Pipe (KcpStream of kcp/stream.rs), whatever the constants are otherwise: what *)
(* is read is what was written, in order and without a gap, and the end of the   *)
(* stream comes after all of it.                                                 *)
THEOREM ShortLinkKeepsPromise ==
  ASSUME "restart" \notin Faults, NEW W, Counts(W),
         \A e \in Ends : \A j \in 0..Len(Messages[e]) : Half(W[e][j])
  PROVE  Spec => KeepsPromise
PROOF
<1>1. Init => Typed /\ Written(W) BY TypedInit, WrittenInit
<1>2. Typed /\ Written(W) /\ [Next]_vars => Typed' /\ Written(W)' BY TypedNext, WrittenNext
<1>3. Written(W) => Unwrapped BY DEF Written, Wrote, Unwrapped
<1>4. Spec /\ []Unwrapped => KeepsPromise BY LinkKeepsPromise
<1> QED BY <1>1, <1>2, <1>3, <1>4, PTL DEF Spec

(* Where the numbers begin low enough that no end gets to their upper half, even *)
(* the una of a CLS acknowledges nothing, and what was written is held or read   *)
(* in every state (parse_una, parse_ack and move_buf of kcp/third_party/mod.rs). *)
THEOREM ShortLinkForgetsNothing ==
  ASSUME "restart" \notin Faults, NEW W, Counts(W),
         \A e \in Ends : \A j \in 0..Len(Messages[e]) : 2 * (Start + W[e][j] + 1) <= SnMod
  PROVE  Spec => []NothingForgotten
PROOF
<1>1. Init => Typed /\ Written(W) BY TypedInit, WrittenInit
<1>2. Typed /\ Written(W) /\ [Next]_vars => Typed' /\ Written(W)' BY TypedNext, WrittenNext
<1>3. Typed /\ Written(W) => FewUnits
  <2>1. ASSUME Written(W), WriteOK, NEW e \in Ends PROVE Half(sent[e]) /\ Low(kcp[Far(e)], sent[e])
    <3>1. PICK j \in Nat : Wrote(W, e, j) BY <2>1 DEF Written
    <3>2. 2 * (Start + sent[e] + 1) <= SnMod BY <3>1 DEF Wrote
    <3>3. sent[e] \in Nat /\ Start \in Nat /\ SnMod \in Nat BY <2>1, ConstantFacts DEF WriteOK, Number
    <3>4. 2 * (sent[e] + 1) <= SnMod BY <3>2, <3>3
    <3> QED BY <3>2, <3>4 DEF Half, Low
  <2> QED BY <2>1 DEF FewUnits, Typed
<1>4. Spec => [](FewUnits => NothingForgotten) BY UnitsKept
<1> QED BY <1>1, <1>2, <1>3, <1>4, PTL DEF Spec
=============================================================================
