---------------------------- MODULE CommonLemmas ----------------------------
(***************************************************************************)
(* Facts that the proofs about different components share: sequences       *)
(* without repetition (stacks that are popped and pushed, queues, the      *)
(* order of a finite set), induction by a least or a largest element,      *)
(* recursion over trees, the algebra of costs, and products and maxima     *)
(* over finite sets.                                                       *)
(***************************************************************************)
EXTENDS Costs, Sequences, SequenceTheorems, WellFoundedInduction, FiniteSetTheorems, TLAPS

Elements(s) == {s[i] : i \in DOMAIN s}
NoRepeat(s) == \A i, j \in DOMAIN s : s[i] = s[j] => i = j

(* A set of natural numbers that is not empty has a least element.         *)
LEMMA LeastNat ==
  ASSUME NEW T, T \subseteq Nat, T # {}
  PROVE  \E x \in T : \A y \in T : x <= y
<1>1. PICK x \in T : \A y \in T : << y, x >> \notin OpToRel(<, Nat)
  BY NatLessThanWellFounded, WFMin, Zenon
<1>2. \A y \in T : ~(y < x)
  BY <1>1 DEF OpToRel
<1> QED  BY <1>2

(* Popping a stack without repetitions removes exactly its top.            *)
LEMMA PopStack ==
  ASSUME NEW S, NEW s \in Seq(S), s # << >>, NoRepeat(s)
  PROVE  LET t == SubSeq(s, 1, Len(s) - 1)
         IN  /\ t \in Seq(S) /\ NoRepeat(t)
             /\ s[Len(s)] \in Elements(s)
             /\ Elements(t) = Elements(s) \ {s[Len(s)]}
<1> DEFINE t == SubSeq(s, 1, Len(s) - 1)
<1>1. Len(s) \in Nat /\ Len(s) >= 1 /\ DOMAIN s = 1 .. Len(s)
  BY EmptySeq, LenProperties
<1>2. \A i \in 1 .. Len(s) : s[i] \in S
  BY ElementOfSeq
<1>3. /\ t \in Seq(S) /\ Len(t) = Len(s) - 1
      /\ \A i \in 1 .. Len(s) - 1 : t[i] = s[i]
  <2> DEFINE m == Len(s) - 1
  <2>1. m \in Nat /\ \A i \in 1 .. m : s[i] \in S
    BY <1>1, <1>2
  <2>2. t = SubSeq(s, 1, m) /\ m = Len(s) - 1
    OBVIOUS
  <2> HIDE DEF m, t
  <2>3. /\ SubSeq(s, 1, m) \in Seq(S)
        /\ Len(SubSeq(s, 1, m)) = IF 1 <= m THEN m - 1 + 1 ELSE 0
        /\ \A i \in 1 .. m - 1 + 1 : SubSeq(s, 1, m)[i] = s[1 + i - 1]
    <3>1. m \in Int /\ 1 \in Int
      BY <2>1
    <3> QED  BY <2>1, <3>1, SubSeqProperties
  <2>4. Len(t) = m
    BY <2>1, <2>2, <2>3
  <2>5. ASSUME NEW i \in 1 .. m PROVE t[i] = s[i]
    <3>1. i \in 1 .. m - 1 + 1 /\ 1 + i - 1 = i
      BY <2>1
    <3> QED  BY <2>2, <2>3, <3>1
  <2> QED  BY <2>2, <2>3, <2>4, <2>5
<1>4. DOMAIN t = 1 .. Len(s) - 1
  BY <1>3, LenProperties
<1> HIDE DEF t
<1>5. NoRepeat(t)
  BY <1>1, <1>3, <1>4 DEF NoRepeat
<1>6. s[Len(s)] \in Elements(s)
  BY <1>1 DEF Elements
<1>7. Elements(t) = Elements(s) \ {s[Len(s)]}
  <2>1. ASSUME NEW i \in 1 .. Len(s) - 1
        PROVE  t[i] \in Elements(s) /\ t[i] # s[Len(s)]
    BY <1>1, <1>3 DEF Elements, NoRepeat
  <2>2. ASSUME NEW i \in 1 .. Len(s), s[i] # s[Len(s)]
        PROVE  s[i] \in Elements(t)
    <3>1. i \in 1 .. Len(s) - 1
      BY <1>1, <2>2
    <3> QED  BY <1>3, <1>4, <3>1 DEF Elements
  <2>3. Elements(t) \subseteq Elements(s) \ {s[Len(s)]}
    BY <1>4, <2>1 DEF Elements
  <2>4. Elements(s) \ {s[Len(s)]} \subseteq Elements(t)
    BY <1>1, <2>2 DEF Elements
  <2> QED  BY <2>3, <2>4
<1> QED  BY <1>3, <1>5, <1>6, <1>7 DEF t

(* Pushing new elements keeps a stack free of repetitions.                 *)
LEMMA PushStack ==
  ASSUME NEW S, NEW s \in Seq(S), NEW t \in Seq(S), NoRepeat(s), NoRepeat(t),
         Elements(s) \cap Elements(t) = {}
  PROVE  /\ s \o t \in Seq(S) /\ NoRepeat(s \o t)
         /\ Elements(s \o t) = Elements(s) \cup Elements(t)
<1> DEFINE u == s \o t
<1>1. /\ Len(s) \in Nat /\ DOMAIN s = 1 .. Len(s)
      /\ Len(t) \in Nat /\ DOMAIN t = 1 .. Len(t)
  BY LenProperties
<1>2. /\ u \in Seq(S) /\ Len(u) = Len(s) + Len(t)
      /\ \A i \in 1 .. Len(s) + Len(t) :
           u[i] = IF i <= Len(s) THEN s[i] ELSE t[i - Len(s)]
  BY ConcatProperties
<1>3. DOMAIN u = 1 .. Len(s) + Len(t)
  BY <1>2, LenProperties
<1> HIDE DEF u
<1>4. ASSUME NEW i \in 1 .. Len(s) PROVE u[i] = s[i] /\ i \in DOMAIN u
  BY <1>1, <1>2, <1>3
<1>5. ASSUME NEW i \in 1 .. Len(t) PROVE u[Len(s) + i] = t[i] /\ Len(s) + i \in DOMAIN u
  <2>1. Len(s) + i \in 1 .. Len(s) + Len(t) /\ ~(Len(s) + i <= Len(s))
    BY <1>1
  <2>2. u[Len(s) + i] = t[Len(s) + i - Len(s)]
    BY <1>2, <2>1
  <2>3. Len(s) + i - Len(s) = i
    BY <1>1
  <2> QED  BY <1>3, <2>1, <2>2, <2>3
<1>6. ASSUME NEW i \in DOMAIN u
      PROVE  (i \in 1 .. Len(s)) \/ (\E j \in 1 .. Len(t) : i = Len(s) + j)
  <2>1. CASE i <= Len(s)
    BY <1>1, <1>3, <2>1
  <2>2. CASE ~(i <= Len(s))
    <3>1. i - Len(s) \in 1 .. Len(t) /\ i = Len(s) + (i - Len(s))
      BY <1>1, <1>3, <2>2
    <3> QED  BY <3>1
  <2> QED  BY <2>1, <2>2
<1>7. Elements(u) = Elements(s) \cup Elements(t)
  <2>1. Elements(s) \subseteq Elements(u)
    BY <1>1, <1>4 DEF Elements
  <2>2. Elements(t) \subseteq Elements(u)
    BY <1>1, <1>5 DEF Elements
  <2>3. Elements(u) \subseteq Elements(s) \cup Elements(t)
    BY <1>1, <1>4, <1>5, <1>6 DEF Elements
  <2> QED  BY <2>1, <2>2, <2>3
<1>8. ASSUME NEW i \in DOMAIN u, NEW j \in DOMAIN u, u[i] = u[j] PROVE i = j
  <2>1. ASSUME NEW k \in 1 .. Len(s), NEW l \in 1 .. Len(t) PROVE s[k] # t[l]
    BY <1>1 DEF Elements
  <2>2. CASE i \in 1 .. Len(s) /\ j \in 1 .. Len(s)
    BY <1>1, <1>4, <1>8, <2>2 DEF NoRepeat
  <2>3. CASE i \in 1 .. Len(s) /\ j \notin 1 .. Len(s)
    BY <1>4, <1>5, <1>6, <1>8, <2>1, <2>3
  <2>4. CASE i \notin 1 .. Len(s) /\ j \in 1 .. Len(s)
    BY <1>4, <1>5, <1>6, <1>8, <2>1, <2>4
  <2>5. CASE i \notin 1 .. Len(s) /\ j \notin 1 .. Len(s)
    <3>1. PICK k \in 1 .. Len(t) : i = Len(s) + k
      BY <1>6, <2>5
    <3>2. PICK l \in 1 .. Len(t) : j = Len(s) + l
      BY <1>6, <2>5
    <3>3. t[k] = t[l]
      BY <1>5, <1>8, <3>1, <3>2
    <3>4. k = l
      BY <1>1, <3>3 DEF NoRepeat
    <3> QED  BY <3>1, <3>2, <3>4
  <2> QED  BY <2>2, <2>3, <2>4, <2>5
<1>9. NoRepeat(u)
  BY <1>8 DEF NoRepeat
<1> QED  BY <1>2, <1>7, <1>9 DEF u

(* A stack whose top makes room for the elements of t.                     *)
LEMMA ReplaceTop ==
  ASSUME NEW S, NEW s \in Seq(S), s # << >>, NEW t \in Seq(S)
  PROVE  LET m == Len(s) - 1
             u == SubSeq(s, 1, m) \o t
         IN  /\ m \in Nat /\ DOMAIN s = 1 .. m + 1
             /\ u \in Seq(S) /\ Len(t) \in Nat /\ DOMAIN u = 1 .. m + Len(t)
             /\ \A i \in 1 .. m : i \in DOMAIN u /\ u[i] = s[i]
             /\ \A i \in DOMAIN u : i \notin 1 .. m => u[i] \in Elements(t) /\ i > m
<1> DEFINE m == Len(s) - 1
           p == SubSeq(s, 1, m)
           u == p \o t
<1>1. m \in Nat /\ DOMAIN s = 1 .. m + 1 /\ \A i \in 1 .. m : s[i] \in S
  BY EmptySeq, LenProperties, ElementOfSeq
<1> HIDE DEF m
<1>2. p \in Seq(S) /\ Len(p) = m /\ \A i \in 1 .. m : p[i] = s[i]
  <2>1. /\ p \in Seq(S) /\ Len(p) = IF 1 <= m THEN m - 1 + 1 ELSE 0
        /\ \A i \in 1 .. m - 1 + 1 : p[i] = s[1 + i - 1]
    BY <1>1, SubSeqProperties
  <2> QED  BY <1>1, <2>1
<1> HIDE DEF p
<1>3. Len(t) \in Nat /\ DOMAIN t = 1 .. Len(t)
  BY LenProperties
<1>4. /\ u \in Seq(S) /\ Len(u) = m + Len(t)
      /\ \A i \in 1 .. m + Len(t) : u[i] = IF i <= m THEN p[i] ELSE t[i - m]
  BY <1>2, ConcatProperties
<1>5. DOMAIN u = 1 .. m + Len(t)
  BY <1>4, LenProperties
<1> HIDE DEF u
<1>6. ASSUME NEW i \in 1 .. m PROVE i \in DOMAIN u /\ u[i] = s[i]
  <2>1. i \in 1 .. m + Len(t) /\ i <= m
    BY <1>1, <1>3
  <2> QED  BY <1>2, <1>4, <1>5, <2>1
<1>7. ASSUME NEW i \in DOMAIN u, i \notin 1 .. m PROVE u[i] \in Elements(t) /\ i > m
  <2>1. i \in 1 .. m + Len(t) /\ i - m \in DOMAIN t /\ ~(i <= m) /\ i > m
    BY <1>1, <1>3, <1>5, <1>7
  <2>2. u[i] = t[i - m]
    BY <1>4, <2>1
  <2> QED  BY <2>1, <2>2 DEF Elements
<1> QED  BY <1>1, <1>3, <1>4, <1>5, <1>6, <1>7 DEF m, p, u

(* An order of a finite set names each of its elements exactly once.       *)
LEMMA OrderOfSet ==
  ASSUME NEW S, NEW K \in SUBSET S, IsFiniteSet(K),
         NEW s \in [1 .. Cardinality(K) -> K],
         \A i, j \in 1 .. Cardinality(K) : i # j => s[i] # s[j]
  PROVE  /\ s \in Seq(S) /\ NoRepeat(s) /\ Elements(s) = K
         /\ Len(s) = Cardinality(K)
         /\ s = << >> <=> K = {}
<1> DEFINE n == Cardinality(K)
<1>1. n \in Nat
  BY FS_CardinalityType
<1>2. /\ s \in [1 .. n -> K]
      /\ \A i, j \in 1 .. n : i # j => s[i] # s[j]
  OBVIOUS
<1> HIDE DEF n
<1>3. s \in Seq(K) /\ Len(s) = n /\ DOMAIN s = 1 .. n
  BY <1>1, <1>2
<1>4. s \in Seq(S)
  BY <1>3, SeqMonotonic
<1>5. NoRepeat(s)
  BY <1>2, <1>3 DEF NoRepeat
<1>6. s \in Injection(1 .. n, K)
  BY <1>2 DEF Injection, IsInjective
<1>7. IsFiniteSet(1 .. n) /\ Cardinality(1 .. n) = n
  BY <1>1, FS_Interval
<1>8. s \in Surjection(1 .. n, K)
  <2>1. Cardinality(1 .. n) = Cardinality(K)
    BY <1>7 DEF n
  <2>2. Cardinality(1 .. n) = Cardinality(K) <=> s \in Surjection(1 .. n, K)
    BY <1>6, FS_Injection
  <2> QED  BY <2>1, <2>2
<1>9. Elements(s) = K
  <2>1. \A i \in 1 .. n : s[i] \in K
    BY <1>2
  <2>2. \A e \in K : \E i \in 1 .. n : s[i] = e
    BY <1>8 DEF Surjection
  <2>3. Elements(s) \subseteq K
    BY <1>3, <2>1 DEF Elements
  <2>4. K \subseteq Elements(s)
    BY <1>3, <2>2 DEF Elements
  <2> QED  BY <2>3, <2>4
<1>10. s = << >> <=> K = {}
  <2>1. n = 0 <=> K = {}
    BY FS_EmptySet DEF n
  <2> QED  BY <1>1, <1>3, <2>1, EmptySeq
<1> QED  BY <1>3, <1>4, <1>5, <1>9, <1>10 DEF n

-----------------------------------------------------------------------------
(* Entering a new element into a queue without repetitions.                *)
LEMMA PushQueue ==
  ASSUME NEW S, NEW s \in Seq(S), NEW e \in S
  PROVE  /\ Append(s, e) \in Seq(S) /\ Append(s, e) # << >>
         /\ Elements(Append(s, e)) = Elements(s) \cup {e}
         /\ NoRepeat(s) /\ e \notin Elements(s) => NoRepeat(Append(s, e))
         /\ s # << >> => Head(Append(s, e)) = Head(s)
<1> DEFINE t == Append(s, e)
<1>1. /\ t \in Seq(S) /\ t # << >> /\ Len(t) = Len(s) + 1
      /\ \A i \in 1 .. Len(s) : t[i] = s[i]
      /\ t[Len(s) + 1] = e
  BY AppendProperties
<1>2. /\ Len(s) \in Nat /\ DOMAIN s = 1 .. Len(s)
      /\ DOMAIN t = 1 .. Len(s) + 1
  BY <1>1, LenProperties
<1>3. s # << >> => Head(t) = Head(s)
  BY HeadTailAppend
<1> HIDE DEF t
<1>4. \A i \in DOMAIN t : i \in DOMAIN s \/ i = Len(s) + 1
  BY <1>2
<1>5. \A i \in DOMAIN s : i \in DOMAIN t /\ t[i] = s[i]
  BY <1>1, <1>2
<1>6. Elements(t) = Elements(s) \cup {e}
  <2>1. Elements(t) \subseteq Elements(s) \cup {e}
    BY <1>1, <1>4, <1>5 DEF Elements
  <2>2. Elements(s) \subseteq Elements(t)
    BY <1>5 DEF Elements
  <2>3. e \in Elements(t)
    BY <1>1, <1>2 DEF Elements
  <2> QED  BY <2>1, <2>2, <2>3
<1>7. NoRepeat(s) /\ e \notin Elements(s) => NoRepeat(t)
  BY <1>1, <1>4, <1>5 DEF Elements, NoRepeat
<1> QED  BY <1>1, <1>3, <1>6, <1>7 DEF t

(* Taking the first item out of a queue without repetitions.                *)
LEMMA PopQueue ==
  ASSUME NEW S, NEW s \in Seq(S), s # << >>, NoRepeat(s)
  PROVE  /\ Head(s) \in S /\ Head(s) \in Elements(s)
         /\ Tail(s) \in Seq(S) /\ NoRepeat(Tail(s))
         /\ Elements(Tail(s)) = Elements(s) \ {Head(s)}
<1> DEFINE t == Tail(s)
           h == Head(s)
<1>1. /\ h \in S /\ t \in Seq(S) /\ Len(t) = Len(s) - 1
      /\ \A i \in 1 .. Len(t) : t[i] = s[i + 1]
  BY HeadTailProperties
<1>2. h = s[1]
  OBVIOUS
<1>3. /\ Len(s) \in Nat /\ Len(s) >= 1 /\ DOMAIN s = 1 .. Len(s)
      /\ DOMAIN t = 1 .. Len(s) - 1
  BY <1>1, EmptySeq, LenProperties
<1> HIDE DEF t, h
<1>4. \A i \in DOMAIN t : i + 1 \in DOMAIN s /\ i + 1 # 1 /\ t[i] = s[i + 1]
  BY <1>1, <1>3
<1>5. \A i \in DOMAIN s : i = 1 \/ (i - 1 \in DOMAIN t /\ t[i - 1] = s[i])
  <2>1. ASSUME NEW i \in DOMAIN s, i # 1 PROVE i - 1 \in DOMAIN t /\ t[i - 1] = s[i]
    <3>1. i - 1 \in DOMAIN t /\ (i - 1) + 1 = i
      BY <1>3, <2>1
    <3> QED  BY <1>4, <3>1
  <2> QED  BY <2>1
<1>6. 1 \in DOMAIN s
  BY <1>3
<1>7. NoRepeat(t)
  BY <1>3, <1>4 DEF NoRepeat
<1>8. Elements(t) = Elements(s) \ {h}
  <2>1. Elements(t) \subseteq Elements(s) \ {h}
    BY <1>2, <1>4, <1>6 DEF Elements, NoRepeat
  <2>2. Elements(s) \ {h} \subseteq Elements(t)
    BY <1>2, <1>5 DEF Elements
  <2> QED  BY <2>1, <2>2
<1> QED  BY <1>1, <1>2, <1>6, <1>7, <1>8 DEF t, h, Elements

(* What is in a queue has the queue's type.                                 *)
LEMMA InQueue ==
  ASSUME NEW S, NEW s \in Seq(S)
  PROVE  Elements(s) \subseteq S
<1> QED  BY LenProperties, ElementOfSeq DEF Elements

(* Taking the first element of a queue to its end.                         *)
LEMMA RotateQueue ==
  ASSUME NEW S, NEW s \in Seq(S), s # << >>, NoRepeat(s)
  PROVE  LET r == Append(Tail(s), Head(s))
         IN  r \in Seq(S) /\ NoRepeat(r) /\ Elements(r) = Elements(s)
<1>1. /\ Head(s) \in S /\ Head(s) \in Elements(s)
      /\ Tail(s) \in Seq(S) /\ NoRepeat(Tail(s))
      /\ Elements(Tail(s)) = Elements(s) \ {Head(s)}
  BY PopQueue
<1> DEFINE t == Tail(s)
           h == Head(s)
<1>2. /\ h \in S /\ h \in Elements(s) /\ t \in Seq(S) /\ NoRepeat(t)
      /\ Elements(t) = Elements(s) \ {h}
  BY <1>1
<1> HIDE DEF t, h
<1>3. /\ Append(t, h) \in Seq(S) /\ Elements(Append(t, h)) = Elements(t) \cup {h}
      /\ NoRepeat(t) /\ h \notin Elements(t) => NoRepeat(Append(t, h))
  BY <1>2, PushQueue
<1>4. h \notin Elements(t) /\ Elements(t) \cup {h} = Elements(s)
  BY <1>2
<1> QED  BY <1>2, <1>3, <1>4 DEF t, h

(* Reversing a sequence keeps its elements.                                *)
LEMMA ReverseOrder ==
  ASSUME NEW S, NEW s \in Seq(S), NoRepeat(s),
         NEW r, r = [i \in 1 .. Len(s) |-> s[(Len(s) - i) + 1]]
  PROVE  r \in Seq(S) /\ NoRepeat(r) /\ Elements(r) = Elements(s)
<1> DEFINE m == Len(s)
<1>1. m \in Nat /\ DOMAIN s = 1 .. m /\ \A i \in 1 .. m : s[i] \in S
  BY LenProperties, ElementOfSeq
<1>2. DOMAIN r = 1 .. m /\ \A i \in 1 .. m : r[i] = s[(m - i) + 1]
  OBVIOUS
<1> HIDE DEF m
<1>3. \A i \in 1 .. m : (m - i) + 1 \in 1 .. m /\ (m - ((m - i) + 1)) + 1 = i
  BY <1>1
<1>4. r \in Seq(S)
  <2>1. r = [i \in 1 .. m |-> s[(m - i) + 1]] /\ \A i \in 1 .. m : s[(m - i) + 1] \in S
    BY <1>1, <1>3 DEF m
  <2>2. r \in [1 .. m -> S]
    BY <2>1
  <2> QED  BY <1>1, <2>2
<1>5. NoRepeat(r)
  <2>1. ASSUME NEW i \in 1 .. m, NEW j \in 1 .. m, r[i] = r[j] PROVE i = j
    <3> DEFINE a == (m - i) + 1
               b == (m - j) + 1
    <3>1. a \in DOMAIN s /\ b \in DOMAIN s /\ s[a] = s[b]
      BY <1>1, <1>2, <1>3, <2>1
    <3>2. (m - i) + 1 = (m - j) + 1
      <4> HIDE DEF a, b
      <4>1. a = b
        BY <3>1 DEF NoRepeat
      <4> QED  BY <4>1 DEF a, b
    <3> QED  BY <1>1, <3>2
  <2> QED  BY <1>2, <2>1 DEF NoRepeat
<1>6. Elements(r) = Elements(s)
  <2>1. Elements(r) \subseteq Elements(s)
    BY <1>1, <1>2, <1>3 DEF Elements
  <2>2. ASSUME NEW i \in 1 .. m PROVE s[i] \in Elements(r)
    <3>1. r[(m - i) + 1] = s[i] /\ (m - i) + 1 \in DOMAIN r
      BY <1>1, <1>2, <1>3
    <3> QED  BY <3>1 DEF Elements
  <2>3. Elements(s) \subseteq Elements(r)
    <3>1. Elements(s) = {s[i] : i \in 1 .. m}
      BY <1>1 DEF Elements
    <3> QED  BY <2>2, <3>1
  <2> QED  BY <2>1, <2>3
<1> QED  BY <1>4, <1>5, <1>6

(* A sequence has finitely many elements.                                  *)
LEMMA FiniteElements ==
  ASSUME NEW S, NEW s \in Seq(S)
  PROVE  IsFiniteSet(Elements(s))
<1>1. Len(s) \in Nat /\ DOMAIN s = 1 .. Len(s)
  BY LenProperties
<1>2. [i \in 1 .. Len(s) |-> s[i]] \in Surjection(1 .. Len(s), Elements(s))
  BY <1>1 DEF Surjection, Elements
<1> QED  BY <1>1, <1>2, FS_Interval, FS_Surjection

(* The image of a finite set is finite.                                    *)
LEMMA FiniteImage ==
  ASSUME NEW S, IsFiniteSet(S), NEW f
  PROVE  IsFiniteSet({f[x] : x \in S})
<1>1. [x \in S |-> f[x]] \in Surjection(S, {f[x] : x \in S})
  BY DEF Surjection
<1> QED  BY <1>1, FS_Surjection

-----------------------------------------------------------------------------
(* A family of subsets of a finite set that is not empty has a member none *)
(* of whose proper subsets belongs to the family.                          *)
LEMMA SmallestSet ==
  ASSUME NEW S, IsFiniteSet(S), NEW B \in SUBSET (SUBSET S), B # {}
  PROVE  \E s \in B : \A t \in SUBSET s : t # s => t \notin B
<1> DEFINE N == {Cardinality(s) : s \in B}
<1>1. \A s \in B : IsFiniteSet(s) /\ Cardinality(s) \in Nat
  BY FS_Subset, FS_CardinalityType
<1>2. N \subseteq Nat /\ N # {}
  BY <1>1
<1> HIDE DEF N
<1>3. PICK n \in N : \A m \in N : n <= m
  BY <1>2, LeastNat
<1>4. PICK s \in B : n = Cardinality(s)
  BY <1>3 DEF N
<1>5. ASSUME NEW t \in SUBSET s, t # s, t \in B PROVE FALSE
  <2>1. Cardinality(t) < Cardinality(s) /\ Cardinality(t) \in Nat
    BY <1>1, <1>4, <1>5, FS_Subset
  <2>2. n <= Cardinality(t)
    BY <1>3, <1>5 DEF N
  <2> QED  BY <1>1, <1>4, <2>1, <2>2
<1> QED  BY <1>5

(* Among finitely many elements there is one of the highest rank.          *)
LEMMA HighestOf ==
  ASSUME NEW S, IsFiniteSet(S), S # {}, NEW rank, \A x \in S : rank[x] \in Int
  PROVE  \E x \in S : \A y \in S : rank[y] <= rank[x]
<1> DEFINE Highest(s, x) == \A y \in s : rank[y] <= rank[x]
           B == {s \in SUBSET S : s # {} /\ \A x \in s : ~Highest(s, x)}
<1>1. ASSUME B # {} PROVE FALSE
  <2>1. B \in SUBSET (SUBSET S)
    OBVIOUS
  <2> HIDE DEF B
  <2>2. PICK s \in B : \A t \in SUBSET s : t # s => t \notin B
    BY <1>1, <2>1, SmallestSet
  <2>3. s \in SUBSET S /\ s # {} /\ \A x \in s : ~Highest(s, x)
    BY <2>2 DEF B
  <2>4. PICK x \in s : x \in S
    BY <2>3
  <2> DEFINE t == s \ {x}
  <2>5. t \in SUBSET s /\ t # s /\ t \in SUBSET S /\ \A y \in s : y = x \/ y \in t
    BY <2>3, <2>4
  <2>6. t \notin B
    BY <2>2, <2>5
  <2> HIDE DEF t
  <2>7. CASE t = {}
    BY <2>3, <2>4, <2>5, <2>7
  <2>8. CASE t # {}
    <3>1. PICK y \in t : Highest(t, y)
      <4> HIDE DEF Highest
      <4> QED  BY <2>5, <2>6, <2>8 DEF B
    <3>2. Highest(s, x) \/ Highest(s, y)
      BY <2>3, <2>4, <2>5, <3>1
    <3> HIDE DEF Highest
    <3> QED  BY <2>3, <2>4, <2>5, <3>1, <3>2
  <2> QED  BY <2>7, <2>8
<1>2. S \notin B
  BY <1>1
<1> QED  BY <1>2

-----------------------------------------------------------------------------
(* What can be reached in a finite graph whose arcs climb. *)

ReachedBy(f, V, nx) == f = [n \in V |-> {n} \cup UNION {f[m] : m \in nx[n]}]

(* The recursion down a graph has a solution: what every closed set with   *)
(* the node contains.                                                      *)
LEMMA ReachExists ==
  ASSUME NEW V, NEW nx, \A n \in V : nx[n] \subseteq V
  PROVE  \E f : ReachedBy(f, V, nx)
<1> DEFINE Closed(C) == \A x \in C : nx[x] \subseteq C
           R(n) == {z \in V : \A C \in SUBSET V : n \in C /\ Closed(C) => z \in C}
           f == [n \in V |-> R(n)]
<1>1. ASSUME NEW n \in V PROVE n \in R(n) /\ Closed(R(n)) /\ R(n) \in SUBSET V
  <2>1. R(n) \in SUBSET V
    OBVIOUS
  <2>2. ASSUME NEW x \in R(n), NEW z \in nx[x] PROVE z \in R(n)
    <3>1. x \in V /\ z \in V
      OBVIOUS
    <3>2. ASSUME NEW C \in SUBSET V, n \in C, Closed(C) PROVE z \in C
      <4>1. x \in C
        BY <3>2
      <4> QED  BY <3>2, <4>1
    <3> QED  BY <3>1, <3>2
  <2> QED  BY <2>1, <2>2
<1>2. ASSUME NEW n \in V PROVE R(n) = {n} \cup UNION {f[m] : m \in nx[n]}
  <2> DEFINE U == {n} \cup UNION {f[m] : m \in nx[n]}
  <2>1. ASSUME NEW m \in nx[n] PROVE m \in V /\ f[m] = R(m)
    OBVIOUS
  <2>2. ASSUME NEW z \in U PROVE z \in R(n)
    <3>1. CASE z = n
      BY <1>1, <3>1
    <3>2. CASE z # n
      <4>1. PICK m \in nx[n] : z \in R(m)
        BY <2>1, <3>2
      <4>2. m \in R(n)
        BY <1>1
      <4>3. ASSUME NEW C \in SUBSET V, n \in C, Closed(C) PROVE z \in C
        <5>1. m \in C
          BY <4>3
        <5> QED  BY <4>1, <4>3, <5>1
      <4> QED  BY <4>1, <4>3
    <3> QED  BY <3>1, <3>2
  <2>3. U \in SUBSET V
    <3> HIDE DEF R, U
    <3> QED  BY <1>1, <2>2
  <2>4. Closed(U)
    <3> SUFFICES ASSUME NEW x \in U, NEW z \in nx[x] PROVE z \in U
      OBVIOUS
    <3>1. CASE x = n
      <4>1. z \in V /\ z \in nx[n] /\ f[z] = R(z)
        BY <3>1, <2>1
      <4>2. z \in R(z)
        BY <1>1, <4>1
      <4> QED  BY <4>1, <4>2
    <3>2. CASE x # n
      <4>1. PICK m \in nx[n] : x \in f[m]
        BY <3>2
      <4>2. m \in V /\ f[m] = R(m)
        BY <2>1
      <4>3. Closed(R(m))
        BY <1>1, <4>2
      <4> HIDE DEF R, f
      <4> QED  BY <4>1, <4>2, <4>3
    <3> QED  BY <3>1, <3>2
  <2>5. n \in U
    OBVIOUS
  <2>6. ASSUME NEW z \in R(n) PROVE z \in U
    <3> HIDE DEF U
    <3> QED  BY <2>3, <2>4, <2>5
  <2> HIDE DEF R
  <2> QED  BY <2>2, <2>6
<1>3. f = [n \in V |-> {n} \cup UNION {f[m] : m \in nx[n]}]
  <2>1. \A n \in V : R(n) = {n} \cup UNION {f[m] : m \in nx[n]}
    BY <1>2
  <2>2. f = [n \in V |-> R(n)]
    OBVIOUS
  <2> HIDE DEF R, f
  <2> QED  BY <2>1, <2>2
<1> HIDE DEF f
<1> QED  BY <1>3 DEF ReachedBy

(* Where the arcs climb, the solution from t is a tree of arcs that starts *)
(* in t, closed under them.                                                *)
LEMMA ReachedTree ==
  ASSUME NEW V, IsFiniteSet(V), NEW nx, \A n \in V : nx[n] \subseteq V,
         NEW rank, \A n \in V : rank[n] \in Int,
         \A n \in V : \A m \in nx[n] : rank[n] < rank[m],
         NEW f, ReachedBy(f, V, nx), NEW t \in V
  PROVE  /\ t \in f[t] /\ f[t] \subseteq V
         /\ \A z \in f[t] : nx[z] \subseteq f[t]
         /\ \A z \in f[t] : z = t \/ \E p \in f[t] : z \in nx[p]
<1> DEFINE P(n) == /\ f[n] \subseteq V
                   /\ \A z \in f[n] : nx[z] \subseteq f[n]
                   /\ \A z \in f[n] : z = n \/ \E p \in f[n] : z \in nx[p]
           B == {n \in V : ~P(n)}
<1>1. \A n \in V : f[n] = {n} \cup UNION {f[m] : m \in nx[n]}
  BY DEF ReachedBy
<1>2. ASSUME NEW n \in V, \A m \in nx[n] : P(m) PROVE P(n)
  <2>1. \A m \in nx[n] : m \in V /\ m \in f[m] /\ f[m] \subseteq f[n]
    BY <1>1
  <2>2. n \in f[n]
    BY <1>1
  <2>3. \A z \in f[n] : z = n \/ \E m \in nx[n] : z \in f[m]
    BY <1>1
  <2>4. f[n] \subseteq V
    BY <1>2, <2>3
  <2>5. ASSUME NEW z \in f[n] PROVE nx[z] \subseteq f[n]
    <3>1. CASE z = n
      BY <2>1, <3>1
    <3>2. CASE z # n
      <4>1. PICK m \in nx[n] : z \in f[m]
        BY <2>3, <3>2
      <4> QED  BY <1>2, <2>1, <4>1
    <3> QED  BY <3>1, <3>2
  <2>6. ASSUME NEW z \in f[n] PROVE z = n \/ \E p \in f[n] : z \in nx[p]
    <3>1. CASE z = n
      BY <3>1
    <3>2. CASE z # n
      <4>1. PICK m \in nx[n] : z \in f[m]
        BY <2>3, <3>2
      <4>2. CASE z = m
        BY <2>2, <4>2
      <4>3. CASE z # m
        <5>1. PICK p \in f[m] : z \in nx[p]
          BY <1>2, <4>1, <4>3
        <5> QED  BY <2>1, <5>1
      <4> QED  BY <4>2, <4>3
    <3> QED  BY <3>1, <3>2
  <2> QED  BY <2>4, <2>5, <2>6
<1>3. B = {}
  <2> SUFFICES ASSUME B # {} PROVE FALSE
    OBVIOUS
  <2>1. B \subseteq V /\ IsFiniteSet(B)
    BY FS_Subset
  <2>2. \A n \in V : n \in B <=> ~P(n)
    OBVIOUS
  <2> HIDE DEF B, P
  <2>3. PICK n \in B : \A m \in B : rank[m] <= rank[n]
    BY <2>1, HighestOf
  <2>4. n \in V
    BY <2>1
  <2>5. ASSUME NEW m \in nx[n] PROVE P(m)
    <3>1. m \in V /\ rank[n] < rank[m] /\ rank[n] \in Int /\ rank[m] \in Int
      BY <2>4
    <3>2. m \notin B
      BY <2>3, <3>1
    <3> QED  BY <2>2, <3>1, <3>2
  <2> QED  BY <1>2, <2>2, <2>3, <2>4, <2>5
<1>4. P(t) /\ t \in f[t]
  BY <1>1, <1>3
<1> QED  BY <1>4

-----------------------------------------------------------------------------
(* A tree over V: up gives the parents, and all lie below the root r. *)
RootedTree(V, r, up) ==
  /\ r \in V /\ \A x \in V \ {r} : up[x] \in V
  /\ \A S \in SUBSET V : r \in S /\ (\A x \in V \ {r} : up[x] \in S => x \in S) => S = V

(* A descent of n steps from the root r to x. *)
Descent(V, r, up, n, x) ==
  \E s \in [0 .. n -> V] :
    s[0] = r /\ s[n] = x /\ \A i \in 0 .. n - 1 : s[i + 1] # r /\ up[s[i + 1]] = s[i]

(* In a tree every element is reached, one step after its parent.          *)
LEMMA Descents ==
  ASSUME NEW V, NEW r, NEW up, RootedTree(V, r, up)
  PROVE  /\ Descent(V, r, up, 0, r)
         /\ \A x \in V \ {r} : \A n \in Nat :
              Descent(V, r, up, n, up[x]) => Descent(V, r, up, n + 1, x)
         /\ \A x \in V \ {r} : \A n \in Nat : Descent(V, r, up, n, x) =>
              n # 0 /\ Descent(V, r, up, n - 1, up[x])
         /\ \A x \in V : \E n \in Nat : Descent(V, r, up, n, x)
<1> USE DEF RootedTree
<1>1. Descent(V, r, up, 0, r)
  <2> DEFINE s == [i \in 0 .. 0 |-> r]
  <2>1. s \in [0 .. 0 -> V] /\ s[0] = r /\ 0 .. 0 - 1 = {}
    OBVIOUS
  <2> HIDE DEF s
  <2> QED  BY <2>1 DEF Descent
<1>2. ASSUME NEW x \in V \ {r}, NEW n \in Nat, Descent(V, r, up, n, up[x])
      PROVE  Descent(V, r, up, n + 1, x)
  <2>1. PICK s \in [0 .. n -> V] :
          s[0] = r /\ s[n] = up[x] /\ \A i \in 0 .. n - 1 : s[i + 1] # r /\ up[s[i + 1]] = s[i]
    BY <1>2 DEF Descent
  <2> DEFINE t == [i \in 0 .. n + 1 |-> IF i = n + 1 THEN x ELSE s[i]]
  <2>2. t \in [0 .. n + 1 -> V]
    OBVIOUS
  <2>3. t[0] = r /\ t[n + 1] = x
    BY <2>1
  <2>4. \A i \in 0 .. (n + 1) - 1 : t[i + 1] # r /\ up[t[i + 1]] = t[i]
    BY <2>1
  <2> HIDE DEF t
  <2> QED  BY <2>2, <2>3, <2>4 DEF Descent
<1>3. ASSUME NEW x \in V \ {r}, NEW n \in Nat, Descent(V, r, up, n, x)
      PROVE  n # 0 /\ Descent(V, r, up, n - 1, up[x])
  <2>1. PICK s \in [0 .. n -> V] :
          s[0] = r /\ s[n] = x /\ \A i \in 0 .. n - 1 : s[i + 1] # r /\ up[s[i + 1]] = s[i]
    BY <1>3 DEF Descent
  <2>2. n # 0 /\ n - 1 \in 0 .. n - 1 /\ n - 1 \in Nat
    BY <1>3, <2>1
  <2>3. up[x] = s[n - 1]
    <3>1. up[s[(n - 1) + 1]] = s[n - 1]
      BY <2>1, <2>2
    <3> QED  BY <2>1, <3>1
  <2> DEFINE t == [i \in 0 .. n - 1 |-> s[i]]
  <2>4. t \in [0 .. n - 1 -> V] /\ t[0] = r /\ t[n - 1] = up[x]
    BY <2>1, <2>2, <2>3
  <2>5. ASSUME NEW i \in 0 .. (n - 1) - 1 PROVE t[i + 1] # r /\ up[t[i + 1]] = t[i]
    <3>1. i \in 0 .. n - 1 /\ i + 1 \in 0 .. n - 1
      BY <2>2
    <3>2. t[i + 1] = s[i + 1] /\ t[i] = s[i]
      BY <3>1
    <3> QED  BY <2>1, <3>1, <3>2
  <2> HIDE DEF t
  <2> QED  BY <2>2, <2>4, <2>5 DEF Descent
<1>4. \A x \in V : \E n \in Nat : Descent(V, r, up, n, x)
  <2> DEFINE S == {x \in V : \E n \in Nat : Descent(V, r, up, n, x)}
  <2>1. S \in SUBSET V /\ r \in S
    BY <1>1
  <2>2. ASSUME NEW x \in V \ {r}, up[x] \in S PROVE x \in S
    <3>1. PICK n \in Nat : Descent(V, r, up, n, up[x])
      BY <2>2
    <3>2. Descent(V, r, up, n + 1, x) /\ n + 1 \in Nat
      BY <1>2, <3>1
    <3> QED  BY <3>2
  <2> HIDE DEF S
  <2>3. S = V
    BY <2>1, <2>2
  <2> QED  BY <2>3 DEF S
<1> QED  BY <1>1, <1>2, <1>3, <1>4

IsDepth(d, V, r, up, base) ==
  /\ d \in [V -> Int]
  /\ \A x \in V : d[x] >= base /\ d[x] = IF x = r THEN base ELSE d[up[x]] + 1

(* The recursion up a tree that defines the depth of its elements, base    *)
(* that of the root, has a solution.                                       *)
LEMMA TreeDepth ==
  ASSUME NEW V, NEW r, NEW up, RootedTree(V, r, up), NEW base \in Int
  PROVE  \E d : IsDepth(d, V, r, up, base)
<1> DEFINE Steps(x) == {n \in Nat : Descent(V, r, up, n, x)}
           Least(n, x) == n \in Steps(x) /\ \A m \in Steps(x) : n <= m
           least(x) == CHOOSE n \in Nat : Least(n, x)
           f == [x \in V |-> least(x) + base]
<1>0. r \in V /\ \A x \in V \ {r} : up[x] \in V
  BY DEF RootedTree
<1>1. ASSUME NEW x \in V PROVE least(x) \in Nat /\ Least(least(x), x)
  <2>1. Steps(x) \subseteq Nat /\ Steps(x) # {}
    BY Descents
  <2> HIDE DEF Steps
  <2>2. \E n \in Nat : Least(n, x)
    BY <2>1, LeastNat
  <2> QED  BY <2>2
<1>2. least(r) = 0
  <2>1. r \in V /\ 0 \in Steps(r)
    BY <1>0, Descents
  <2> HIDE DEF Steps
  <2>2. least(r) \in Nat /\ Least(least(r), r)
    BY <1>1, <2>1
  <2> HIDE DEF least
  <2> QED  BY <2>1, <2>2
<1>3. ASSUME NEW x \in V \ {r}
      PROVE  up[x] \in V /\ least(x) = least(up[x]) + 1
  <2>1. up[x] \in V
    BY <1>0
  <2>2. least(x) \in Steps(x) /\ least(up[x]) \in Steps(up[x])
    BY <1>1, <2>1
  <2>3. least(up[x]) + 1 \in Steps(x)
    BY <2>1, <2>2, Descents
  <2>4. least(x) - 1 \in Steps(up[x])
    BY <1>0, <2>2, Descents
  <2>5. least(x) <= least(up[x]) + 1 /\ least(up[x]) <= least(x) - 1
    <3> HIDE DEF Steps, least
    <3> QED  BY <1>1, <2>1, <2>3, <2>4
  <2>6. least(x) \in Nat /\ least(up[x]) \in Nat
    BY <1>1, <2>1
  <2> HIDE DEF least, Steps
  <2> QED  BY <2>1, <2>5, <2>6
<1>4. f \in [V -> Int] /\ \A x \in V : f[x] >= base
  <2>1. \A x \in V : least(x) \in Nat
    BY <1>1
  <2> HIDE DEF least
  <2> QED  BY <2>1
<1> HIDE DEF least, Steps
<1>5. \A x \in V : f[x] = IF x = r THEN base ELSE f[up[x]] + 1
  <2> SUFFICES ASSUME NEW x \in V
               PROVE  f[x] = IF x = r THEN base ELSE f[up[x]] + 1
    OBVIOUS
  <2>1. f[r] = base
    BY <1>0, <1>2
  <2>2. x # r => up[x] \in V /\ f[x] = f[up[x]] + 1
    BY <1>0, <1>1, <1>3
  <2> QED  BY <2>1, <2>2
<1> HIDE DEF f
<1> QED  BY <1>4, <1>5 DEF IsDepth

(* And it has no other.                                                    *)
LEMMA OneDepth ==
  ASSUME NEW V, NEW r, NEW up, RootedTree(V, r, up), NEW base \in Int,
         NEW g, g = [x \in V |-> IF x = r THEN base ELSE g[up[x]] + 1]
  PROVE  IsDepth(g, V, r, up, base)
<1>1. PICK f : IsDepth(f, V, r, up, base)
  BY TreeDepth
<1> DEFINE S == {y \in V : g[y] = f[y]}
<1>2. r \in S
  BY <1>1 DEF RootedTree, IsDepth
<1>3. ASSUME NEW y \in V \ {r}, up[y] \in S PROVE y \in S
  <2>1. g[y] = g[up[y]] + 1 /\ f[y] = f[up[y]] + 1
    BY <1>1 DEF IsDepth
  <2> QED  BY <1>3, <2>1
<1>4. S \in SUBSET V
  OBVIOUS
<1> HIDE DEF S
<1>5. S = V
  BY <1>2, <1>3, <1>4 DEF RootedTree
<1>6. \A y \in V : g[y] = f[y]
  BY <1>5 DEF S
<1>7. f \in [V -> Int] /\ g = [x \in V |-> g[x]]
  BY <1>1 DEF IsDepth
<1>8. g = f
  BY <1>6, <1>7
<1> QED  BY <1>1, <1>8

(* g is computed by recursion over the subsets of S: from base, step adds  *)
(* the element that pick names.                                            *)
Folds(g, S, C, base, pick, step) ==
  /\ g \in [SUBSET S -> C]
  /\ \A s \in SUBSET S : g[s] = IF s = {} THEN base ELSE step[s][g[s \ {pick[s]}]]

(* A recursion over the subsets of a finite set, which takes away one      *)
(* element after the other, defines a function.                            *)
LEMMA FoldExists ==
  ASSUME NEW S, IsFiniteSet(S), NEW C, NEW base \in C,
         NEW pick, \A s \in SUBSET S : s # {} => pick[s] \in s,
         NEW step, \A s \in SUBSET S : \A c \in C : step[s][c] \in C
  PROVE  \E g : Folds(g, S, C, base, pick, step)
<1> DEFINE D(n) == {s \in SUBSET S : Cardinality(s) <= n}
           Rec(g, n) == \A s \in D(n) :
              g[s] = IF s = {} THEN base ELSE step[s][g[s \ {pick[s]}]]
           P(n) == \E g \in [D(n) -> C] : Rec(g, n)
<1>1. /\ \A s \in SUBSET S : IsFiniteSet(s) /\ Cardinality(s) \in Nat
      /\ \A s \in SUBSET S : Cardinality(s) = 0 <=> s = {}
  BY FS_Subset, FS_CardinalityType, FS_EmptySet
<1>2. ASSUME NEW n \in Nat, NEW s \in D(n + 1), s # {}
      PROVE  s \ {pick[s]} \in D(n)
  <2>1. Cardinality(s \ {pick[s]}) = Cardinality(s) - 1
    BY <1>1, <1>2, FS_RemoveElement
  <2> QED  BY <1>1, <1>2, <2>1
<1>3. P(0)
  <2> DEFINE g == [s \in D(0) |-> base]
  <2>1. \A s \in D(0) : s = {}
    BY <1>1
  <2>2. g \in [D(0) -> C] /\ Rec(g, 0)
    BY <2>1
  <2> QED  BY <2>2
<1>4. ASSUME NEW n \in Nat, P(n) PROVE P(n + 1)
  <2>1. PICK g \in [D(n) -> C] : Rec(g, n)
    BY <1>4
  <2> DEFINE h == [s \in D(n + 1) |->
                     IF s = {} THEN base ELSE step[s][g[s \ {pick[s]}]]]
  <2>2. h \in [D(n + 1) -> C]
    <3>1. ASSUME NEW s \in D(n + 1), s # {} PROVE step[s][g[s \ {pick[s]}]] \in C
      BY <1>2, <2>1, <3>1
    <3> QED  BY <3>1
  <2>3. \A s \in D(n) : s \in D(n + 1) /\ h[s] = g[s]
    BY <1>1, <2>1
  <2>4. Rec(h, n + 1)
    BY <1>2, <2>3
  <2> QED  BY <2>2, <2>4
<1> HIDE DEF P
<1>5. \A n \in Nat : P(n)
  <2> DEFINE T == {n \in Nat : ~P(n)}
  <2>1. ASSUME T # {} PROVE FALSE
    <3>1. PICK n \in T : \A m \in T : n <= m
      BY <2>1, LeastNat
    <3>2. n # 0 /\ n - 1 \in Nat /\ n - 1 \notin T
      BY <1>3, <3>1
    <3> QED  BY <1>4, <3>1, <3>2
  <2> QED  BY <2>1
<1>6. Cardinality(S) \in Nat /\ D(Cardinality(S)) = SUBSET S
  BY <1>1, FS_Subset
<1>7. PICK g \in [D(Cardinality(S)) -> C] : Rec(g, Cardinality(S))
  BY <1>5, <1>6 DEF P
<1>8. g \in [SUBSET S -> C]
  BY <1>6, <1>7
<1>9. \A s \in SUBSET S : g[s] = IF s = {} THEN base ELSE step[s][g[s \ {pick[s]}]]
  BY <1>6, <1>7
<1> QED  BY <1>8, <1>9 DEF Folds

-----------------------------------------------------------------------------
(* The cost algebra is closed, and Times is commutative and associative.   *)
LEMMA TimesLaws ==
  /\ ELEM_ONE \in Known /\ ELEM_ZERO \in Known /\ ELEM_NAN \in Cost /\ Known \subseteq Cost
  /\ \A a, b \in Cost : /\ Times(a, b) \in Cost /\ Larger(a, b) \in Cost
                        /\ Times(a, b) = Times(b, a)
  /\ \A a, b \in Known : Times(a, b) \in Known
  /\ \A a, b, c \in Cost : Times(a, Times(b, c)) = Times(b, Times(a, c))
  /\ \A a, b, c \in Cost : Times(a, Times(b, c)) = Times(Times(a, b), c)
  /\ \A a \in Cost : Times(ELEM_ONE, a) = a
BY SpecialCosts DEF Times, times, Larger, larger, Greater, greater, Cost, Known, ELEM_ONE

(* Two factors may change places before a third one.                       *)
LEMMA TimesSwap ==
  ASSUME NEW a \in Cost, NEW b \in Cost, NEW c \in Cost
  PROVE  Times(a, Times(b, c)) = Times(b, Times(a, c))
BY SpecialCosts DEF Times, times, Cost, Known

(* Times keeps upper bounds; nothing is greater than a cost not known.     *)
LEMMA TimesBelow ==
  ASSUME NEW a \in Cost, NEW b \in Cost, NEW c \in Known, NEW d \in Known,
         ~Greater(a, c), ~Greater(b, d)
  PROVE  ~Greater(Times(a, b), Times(c, d))
BY SpecialCosts DEF Times, times, Greater, greater, Cost, Known

Pick(s) == CHOOSE x \in s : TRUE

(* What g is if it multiplies the values of f over the subsets of S. *)
Multiplies(g, f, S) ==
  /\ g \in [SUBSET S -> Cost]
  /\ \A s \in SUBSET S :
       g[s] = IF s = {} THEN ELEM_ONE ELSE Times(f[Pick(s)], g[s \ {Pick(s)}])

(* A product is computed by recursion over the subsets of the domain.      *)
LEMMA ProductRecursion ==
  ASSUME NEW S, IsFiniteSet(S), NEW f \in [S -> Cost]
  PROVE  \E g : Multiplies(g, f, S) /\ Product(f) = g[S]
<1> DEFINE pick == [s \in SUBSET S |-> Pick(s)]
           Rec(g) == g = [s \in SUBSET S |-> IF s = {} THEN ELEM_ONE
                            ELSE Times(f[Pick(s)], g[s \ {Pick(s)}])]
<1>1. \A s \in SUBSET S : s # {} => Pick(s) \in s
  BY DEF Pick
<1>2. \E g : Rec(g)
  <2>1. \A s \in SUBSET S : s # {} => pick[s] \in s
    BY <1>1
  <2> DEFINE step == [s \in SUBSET S |-> [c \in Cost |->
                        IF s = {} THEN ELEM_ONE ELSE Times(f[Pick(s)], c)]]
  <2>2. \A s \in SUBSET S : \A c \in Cost : step[s][c] \in Cost
    <3> SUFFICES ASSUME NEW s \in SUBSET S, NEW c \in Cost PROVE step[s][c] \in Cost
      OBVIOUS
    <3>1. CASE s = {}
      BY <3>1, TimesLaws
    <3>2. CASE s # {}
      BY <1>1, <3>2, TimesLaws
    <3> QED  BY <3>1, <3>2
  <2>3. ELEM_ONE \in Cost
    BY TimesLaws
  <2> HIDE DEF step, pick
  <2>4. PICK g : Folds(g, S, Cost, ELEM_ONE, pick, step)
    BY <2>1, <2>2, <2>3, FoldExists
  <2>5. \A s \in SUBSET S : g[s] = IF s = {} THEN ELEM_ONE
                                   ELSE Times(f[Pick(s)], g[s \ {Pick(s)}])
    BY <2>4 DEF step, pick, Folds
  <2>6. g = [s \in SUBSET S |-> g[s]]
    BY <2>4 DEF Folds
  <2> QED  BY <2>5, <2>6
<1> DEFINE it == CHOOSE g : Rec(g)
<1>3. Rec(it)
  BY <1>2, Zenon
<1>4. Product(f) = it[S]
  <2>1. DOMAIN f = S
    OBVIOUS
  <2> QED  BY <2>1, Zenon DEF Product, MapThenFoldSet, Pick
<1> HIDE DEF it
<1>5. Multiplies(it, f, S)
  <2>1. \A s \in SUBSET S : it[s] = IF s = {} THEN ELEM_ONE
                                    ELSE Times(f[Pick(s)], it[s \ {Pick(s)}])
    BY <1>3
  <2> DEFINE Bad == {s \in SUBSET S : it[s] \notin Cost}
  <2>2. Bad = {}
    <3>1. ASSUME Bad # {} PROVE FALSE
      <4> HIDE DEF Bad
      <4>1. PICK s \in Bad : \A t \in SUBSET s : t # s => t \notin Bad
        <5>1. Bad \in SUBSET (SUBSET S)
          BY DEF Bad
        <5> QED  BY <3>1, <5>1, SmallestSet
      <4> USE DEF Bad
      <4>2. s # {}
        BY <2>1, <4>1, TimesLaws
      <4>3. it[s \ {Pick(s)}] \in Cost /\ f[Pick(s)] \in Cost
        BY <1>1, <4>1, <4>2
      <4>4. it[s] = Times(f[Pick(s)], it[s \ {Pick(s)}])
        BY <2>1, <4>1, <4>2
      <4>5. it[s] \in Cost
        BY <4>3, <4>4, TimesLaws
      <4> QED  BY <4>1, <4>5
    <3> QED  BY <3>1
  <2> QED  BY <1>3, <2>1, <2>2 DEF Multiplies
<1> QED  BY <1>4, <1>5

(* The factors may be taken in any order. *)
LEMMA AnyFactorFirst ==
  ASSUME NEW S, IsFiniteSet(S), NEW f \in [S -> Cost], NEW g, Multiplies(g, f, S),
         NEW s \in SUBSET S, NEW x \in s
  PROVE  g[s] = Times(f[x], g[s \ {x}])
<1> DEFINE Bad == {t \in SUBSET S : \E y \in t : g[t] # Times(f[y], g[t \ {y}])}
<1>1. /\ g \in [SUBSET S -> Cost]
      /\ \A t \in SUBSET S : t # {} => g[t] = Times(f[Pick(t)], g[t \ {Pick(t)}])
  BY DEF Multiplies
<1>2. \A t \in SUBSET S : t # {} => Pick(t) \in t
  BY DEF Pick
<1>3. ASSUME Bad # {} PROVE FALSE
  <2>1. Bad \in SUBSET (SUBSET S)
    OBVIOUS
  <2> HIDE DEF Bad
  <2>2. PICK t \in Bad : \A u \in SUBSET t : u # t => u \notin Bad
    BY <1>3, <2>1, SmallestSet
  <2> USE DEF Bad
  <2>3. PICK y \in t : g[t] # Times(f[y], g[t \ {y}])
    BY <2>2
  <2> DEFINE z == Pick(t)
             r == t \ {y, z}
  <2>4. t \in SUBSET S /\ z \in t /\ g[t] = Times(f[z], g[t \ {z}])
    BY <1>1, <1>2, <2>2, <2>3
  <2> HIDE DEF z
  <2>5. y # z
    BY <2>3, <2>4
  <2>6. /\ t \ {z} \in SUBSET t /\ t \ {z} # t /\ y \in t \ {z} /\ (t \ {z}) \ {y} = r
        /\ t \ {y} \in SUBSET t /\ t \ {y} # t /\ z \in t \ {y} /\ (t \ {y}) \ {z} = r
    BY <2>3, <2>4, <2>5
  <2>7. g[t \ {z}] = Times(f[y], g[r]) /\ g[t \ {y}] = Times(f[z], g[r])
    <3>1. t \ {z} \notin Bad /\ t \ {y} \notin Bad
      <4> HIDE DEF Bad, r
      <4> QED  BY <2>2, <2>6
    <3>2. t \ {z} \in SUBSET S /\ t \ {y} \in SUBSET S
      BY <2>4
    <3>3. g[t \ {z}] = Times(f[y], g[(t \ {z}) \ {y}])
      BY <2>6, <3>1, <3>2
    <3>4. g[t \ {y}] = Times(f[z], g[(t \ {y}) \ {z}])
      BY <2>6, <3>1, <3>2
    <3> QED  BY <2>6, <3>3, <3>4
  <2>8. f[y] \in Cost /\ f[z] \in Cost /\ g[r] \in Cost
    BY <1>1, <2>3, <2>4
  <2>9. Times(f[z], Times(f[y], g[r])) = Times(f[y], Times(f[z], g[r]))
    <3> HIDE DEF r
    <3> QED  BY <2>8, TimesSwap
  <2> QED  BY <2>3, <2>4, <2>7, <2>9
<1> QED  BY <1>3

(* On the subsets of T, only the values on T matter. *)
LEMMA OnlyPartMatters ==
  ASSUME NEW S, NEW T \in SUBSET S, IsFiniteSet(S), NEW f \in [S -> Cost], NEW g, Multiplies(g, f, S),
         NEW e \in [T -> Cost], NEW h, Multiplies(h, e, T), \A x \in T : e[x] = f[x]
  PROVE  g[T] = h[T]
<1> DEFINE Bad == {t \in SUBSET T : g[t] # h[t]}
<1>1. /\ \A t \in SUBSET S : g[t] = IF t = {} THEN ELEM_ONE ELSE Times(f[Pick(t)], g[t \ {Pick(t)}])
      /\ \A t \in SUBSET T : h[t] = IF t = {} THEN ELEM_ONE ELSE Times(e[Pick(t)], h[t \ {Pick(t)}])
  BY DEF Multiplies
<1>2. \A t \in SUBSET T : t # {} => Pick(t) \in t
  BY DEF Pick
<1>3. ASSUME Bad # {} PROVE FALSE
  <2>1. Bad \in SUBSET (SUBSET T) /\ IsFiniteSet(T)
    BY FS_Subset
  <2> HIDE DEF Bad
  <2>2. PICK t \in Bad : \A u \in SUBSET t : u # t => u \notin Bad
    BY <1>3, <2>1, SmallestSet
  <2> USE DEF Bad
  <2>3. t # {} /\ t \in SUBSET T /\ g[t] # h[t]
    BY <1>1, <2>2
  <2>4. Pick(t) \in t /\ t \ {Pick(t)} \in SUBSET t /\ t \ {Pick(t)} # t
    BY <1>2, <2>3
  <2>5. g[t \ {Pick(t)}] = h[t \ {Pick(t)}] /\ e[Pick(t)] = f[Pick(t)]
    BY <2>2, <2>3, <2>4
  <2> QED  BY <1>1, <2>3, <2>5
<1> QED  BY <1>3

Part(f, s) == [x \in s |-> f[x]]

(* The empty product is one, and any factor may be split off.              *)
LEMMA ProductSplit ==
  ASSUME NEW S, IsFiniteSet(S), NEW f \in [S -> Cost]
  PROVE  /\ Part(f, S) = f /\ Product(f) \in Cost
         /\ \A s \in SUBSET S : /\ Part(f, s) \in [s -> Cost]
                                /\ Product(Part(f, s)) \in Cost
         /\ Product(Part(f, {})) = ELEM_ONE
         /\ \A s \in SUBSET S : \A x \in s :
              Product(Part(f, s)) = Times(f[x], Product(Part(f, s \ {x})))
<1>1. PICK g : Multiplies(g, f, S) /\ Product(f) = g[S]
  BY ProductRecursion
<1>2. g \in [SUBSET S -> Cost] /\ g[{}] = ELEM_ONE
  BY <1>1 DEF Multiplies
<1>3. ASSUME NEW s \in SUBSET S
      PROVE  Part(f, s) \in [s -> Cost] /\ Product(Part(f, s)) = g[s]
  <2>1. IsFiniteSet(s) /\ Part(f, s) \in [s -> Cost] /\ \A x \in s : Part(f, s)[x] = f[x]
    BY FS_Subset DEF Part
  <2>2. PICK h : Multiplies(h, Part(f, s), s) /\ Product(Part(f, s)) = h[s]
    BY <2>1, ProductRecursion
  <2> QED  BY <1>1, <2>1, <2>2, OnlyPartMatters
<1>4. Part(f, S) = f
  BY DEF Part
<1>5. ASSUME NEW s \in SUBSET S, NEW x \in s
      PROVE  Product(Part(f, s)) = Times(f[x], Product(Part(f, s \ {x})))
  <2>1. g[s] = Times(f[x], g[s \ {x}])
    BY <1>1, AnyFactorFirst
  <2> QED  BY <1>3, <2>1
<1> QED  BY <1>1, <1>2, <1>3, <1>4, <1>5

(* The product of no factors. *)
LEMMA NoFactors == ASSUME NEW e PROVE Product([y \in {} |-> e]) = ELEM_ONE
<1> DEFINE f == [y \in {} |-> e]
<1>1. f \in [{} -> Cost] /\ IsFiniteSet({})
  BY FS_EmptySet
<1> HIDE DEF f
<1>2. Part(f, {}) = f /\ Product(Part(f, {})) = ELEM_ONE
  BY <1>1, ProductSplit
<1> QED  BY <1>2 DEF f

(* A product of values other than NaN is not NaN. *)
LEMMA ProductKnown ==
  ASSUME NEW S, IsFiniteSet(S), NEW f \in [S -> Known]
  PROVE  Product(f) \in Known
<1>1. f \in [S -> Cost]
  BY TimesLaws
<1> DEFINE Bad == {s \in SUBSET S : Product(Part(f, s)) \notin Known}
<1>2. ASSUME Bad # {} PROVE FALSE
  <2>1. Bad \in SUBSET (SUBSET S)
    OBVIOUS
  <2> HIDE DEF Bad
  <2>2. PICK s \in Bad : \A t \in SUBSET s : t # s => t \notin Bad
    BY <1>2, <2>1, SmallestSet
  <2> USE DEF Bad
  <2>3. PICK x \in s : TRUE
    <3>1. ASSUME s = {} PROVE FALSE
      <4>1. Product(Part(f, {})) = ELEM_ONE
        BY <1>1, ProductSplit
      <4> QED  BY <2>2, <3>1, <4>1, TimesLaws
    <3> QED  BY <3>1
  <2>4. s \ {x} \in SUBSET s /\ s \ {x} # s /\ s \in SUBSET S /\ f[x] \in Known
    BY <2>2, <2>3
  <2>5. Product(Part(f, s \ {x})) \in Known
    BY <2>2, <2>4
  <2>6. Product(Part(f, s)) = Times(f[x], Product(Part(f, s \ {x})))
    BY <1>1, <2>3, <2>4, ProductSplit
  <2> QED  BY <2>2, <2>4, <2>5, <2>6, TimesLaws
<1> QED  BY <1>1, <1>2, ProductSplit

(* A product is at most another one if its factors are at most the other's *)
(* factors that h assigns to them, one to one and leaving none out.        *)
LEMMA ProductBelow ==
  ASSUME NEW S, IsFiniteSet(S), NEW f \in [S -> Cost],
         NEW T, NEW g \in [T -> Known],
         NEW h \in [S -> T], \A x, y \in S : h[x] = h[y] => x = y,
         \A y \in T : \E x \in S : h[x] = y,
         \A x \in S : ~Greater(f[x], g[h[x]])
  PROVE  IsFiniteSet(T) /\ ~Greater(Product(f), Product(g))
<1> DEFINE Im(s) == {h[x] : x \in s}
           Bad == {s \in SUBSET S : Greater(Product(Part(f, s)), Product(Part(g, Im(s))))}
<1>1. IsFiniteSet(T) /\ Im(S) = T
  <2>1. Im(S) = T
    OBVIOUS
  <2>2. h \in Surjection(S, T)
    BY DEF Surjection
  <2> QED  BY <2>1, <2>2, FS_Surjection
<1>2. g \in [T -> Cost]
  BY TimesLaws
<1>3. ASSUME Bad # {} PROVE FALSE
  <2>1. Bad \in SUBSET (SUBSET S)
    OBVIOUS
  <2> HIDE DEF Bad
  <2>2. PICK s \in Bad : \A t \in SUBSET s : t # s => t \notin Bad
    BY <1>3, <2>1, SmallestSet
  <2> USE DEF Bad
  <2>3. PICK x \in s : TRUE
    <3>1. ASSUME s = {} PROVE FALSE
      <4>1. Im({}) = {}
        OBVIOUS
      <4>2. Product(Part(f, {})) = ELEM_ONE /\ Product(Part(g, {})) = ELEM_ONE
        BY <1>1, <1>2, ProductSplit
      <4>3. ~Greater(ELEM_ONE, ELEM_ONE)
        BY SpecialCosts DEF Greater, greater, ELEM_ONE, Cost, Known
      <4> QED  BY <2>2, <3>1, <4>1, <4>2, <4>3
    <3> QED  BY <3>1
  <2> DEFINE r == s \ {x}
  <2>4. /\ s \in SUBSET S /\ r \in SUBSET s /\ r # s /\ f[x] \in Cost
        /\ h[x] \in Im(s) /\ Im(s) \in SUBSET T /\ Im(r) = Im(s) \ {h[x]}
    BY <2>2, <2>3
  <2>5. /\ Product(Part(f, s)) = Times(f[x], Product(Part(f, r)))
        /\ Product(Part(f, r)) \in Cost
    BY <2>3, <2>4, ProductSplit
  <2>6. Product(Part(g, Im(s))) = Times(g[h[x]], Product(Part(g, Im(r))))
    <3> HIDE DEF Im, r, Bad
    <3> QED  BY <1>1, <1>2, <2>4, ProductSplit
  <2>7. Product(Part(g, Im(r))) \in Known /\ g[h[x]] \in Known
    <3>1. Im(r) \in SUBSET T /\ IsFiniteSet(Im(r)) /\ Part(g, Im(r)) \in [Im(r) -> Known]
      BY <1>1, <2>4, FS_Subset DEF Part
    <3> QED  BY <2>4, <3>1, ProductKnown
  <2>8. ~Greater(Product(Part(f, r)), Product(Part(g, Im(r))))
    BY <2>2, <2>4
  <2>9. ~Greater(f[x], g[h[x]])
    BY <2>4
  <2> HIDE DEF r, Im
  <2>10. ~Greater(Times(f[x], Product(Part(f, r))), Times(g[h[x]], Product(Part(g, Im(r)))))
    BY <2>4, <2>5, <2>7, <2>8, <2>9, TimesBelow
  <2> QED  BY <2>2, <2>5, <2>6, <2>10
<1>4. Part(f, S) = f /\ Part(g, Im(S)) = g
  BY <1>1 DEF Part
<1> QED  BY <1>1, <1>3, <1>4

(* A product over two disjoint sets is the product of the two products.    *)
LEMMA ProductUnion ==
  ASSUME NEW S, NEW T, IsFiniteSet(S), IsFiniteSet(T), S \cap T = {},
         NEW f \in [S \cup T -> Cost]
  PROVE  Product(f) = Times(Product(Part(f, S)), Product(Part(f, T)))
<1> DEFINE U == S \cup T
           Q(s) == Product(Part(f, s \cup T)) = Times(Product(Part(f, s)), Product(Part(f, T)))
           Bad == {s \in SUBSET S : ~Q(s)}
<1>1. IsFiniteSet(U) /\ S \in SUBSET U /\ T \in SUBSET U
  BY FS_Union
<1>2. ASSUME Bad # {} PROVE FALSE
  <2>1. Bad \in SUBSET (SUBSET S)
    OBVIOUS
  <2> HIDE DEF Bad
  <2>2. PICK s \in Bad : \A t \in SUBSET s : t # s => t \notin Bad
    BY <1>2, <2>1, SmallestSet
  <2> USE DEF Bad
  <2>3. PICK x \in s : TRUE
    <3>1. ASSUME s = {} PROVE FALSE
      <4>1. s \cup T = T
        BY <3>1
      <4>2. Product(Part(f, {})) = ELEM_ONE /\ Product(Part(f, T)) \in Cost
        BY <1>1, ProductSplit
      <4> QED  BY <2>2, <3>1, <4>1, <4>2, TimesLaws
    <3> QED  BY <3>1
  <2> DEFINE r == s \ {x}
  <2>4. /\ s \in SUBSET U /\ r \in SUBSET s /\ r # s /\ f[x] \in Cost /\ r \in SUBSET S
        /\ s \cup T \in SUBSET U /\ x \in s \cup T /\ r \cup T = (s \cup T) \ {x}
    BY <2>2, <2>3
  <2>5. Product(Part(f, s)) = Times(f[x], Product(Part(f, r)))
    BY <1>1, <2>3, <2>4, ProductSplit
  <2>6. Product(Part(f, s \cup T)) = Times(f[x], Product(Part(f, r \cup T)))
    BY <1>1, <2>4, ProductSplit
  <2>7. Q(r)
    BY <2>2, <2>4
  <2>8. Product(Part(f, r)) \in Cost /\ Product(Part(f, T)) \in Cost
    BY <1>1, <2>4, ProductSplit
  <2>9. ~Q(s)
    BY <2>2
  <2> HIDE DEF r
  <2> QED  BY <2>4, <2>5, <2>6, <2>7, <2>8, <2>9, TimesLaws
<1>3. Part(f, U) = f
  BY DEF Part
<1> QED  BY <1>2, <1>3

(* A maximum bounds all values, and is one of them or ELEM_ZERO.           *)
LEMMA MaximumOf ==
  ASSUME NEW S, IsFiniteSet(S), NEW f \in [S -> Known]
  PROVE  /\ Maximum(f) \in Known
         /\ \A x \in S : ~Greater(f[x], Maximum(f))
         /\ Maximum(f) = ELEM_ZERO \/ \E x \in S : Maximum(f) = f[x]
<1> DEFINE pick == [s \in SUBSET S |-> Pick(s)]
           Rec(g) == g = [s \in SUBSET S |-> IF s = {} THEN ELEM_ZERO
                            ELSE Larger(f[Pick(s)], g[s \ {Pick(s)}])]
<1>1. \A s \in SUBSET S : s # {} => Pick(s) \in s
  BY DEF Pick
<1>2. \E g : Rec(g)
  <2>1. \A s \in SUBSET S : s # {} => pick[s] \in s
    BY <1>1
  <2> DEFINE step == [s \in SUBSET S |-> [c \in Cost |->
                        IF s = {} THEN ELEM_ONE ELSE Larger(f[Pick(s)], c)]]
  <2>2. \A s \in SUBSET S : \A c \in Cost : step[s][c] \in Cost
    <3> SUFFICES ASSUME NEW s \in SUBSET S, NEW c \in Cost PROVE step[s][c] \in Cost
      OBVIOUS
    <3>1. CASE s = {}
      BY <3>1, TimesLaws
    <3>2. CASE s # {}
      BY <1>1, <3>2, TimesLaws
    <3> QED  BY <3>1, <3>2
  <2>3. ELEM_ZERO \in Cost
    BY TimesLaws
  <2> HIDE DEF step, pick
  <2>4. PICK g : Folds(g, S, Cost, ELEM_ZERO, pick, step)
    BY <2>1, <2>2, <2>3, FoldExists
  <2>5. \A s \in SUBSET S : g[s] = IF s = {} THEN ELEM_ZERO
                                   ELSE Larger(f[Pick(s)], g[s \ {Pick(s)}])
    BY <2>4 DEF step, pick, Folds
  <2>6. g = [s \in SUBSET S |-> g[s]]
    BY <2>4 DEF Folds
  <2> QED  BY <2>5, <2>6
<1> DEFINE it == CHOOSE g : Rec(g)
<1>3. Rec(it)
  BY <1>2, Zenon
<1>4. Maximum(f) = it[S]
  <2>1. DOMAIN f = S
    OBVIOUS
  <2> QED  BY <2>1, Zenon DEF Maximum, MapThenFoldSet, Pick
<1> HIDE DEF it
<1> DEFINE Good(s) == /\ it[s] \in Known
                      /\ \A x \in s : ~Greater(f[x], it[s])
                      /\ it[s] = ELEM_ZERO \/ \E x \in s : it[s] = f[x]
           Bad == {s \in SUBSET S : ~Good(s)}
<1>5. \A s \in SUBSET S : it[s] = IF s = {} THEN ELEM_ZERO
                                  ELSE Larger(f[Pick(s)], it[s \ {Pick(s)}])
  BY <1>3
<1>6. ASSUME Bad # {} PROVE FALSE
  <2>1. Bad \in SUBSET (SUBSET S)
    OBVIOUS
  <2> HIDE DEF Bad
  <2>2. PICK s \in Bad : \A t \in SUBSET s : t # s => t \notin Bad
    BY <1>6, <2>1, SmallestSet
  <2> USE DEF Bad
  <2>3. s # {}
    BY <1>5, <2>2, TimesLaws
  <2> DEFINE y == Pick(s)
             r == s \ {y}
  <2>4. y \in s /\ r \in SUBSET s /\ r # s /\ s \in SUBSET S /\ f[y] \in Known
    BY <1>1, <2>2, <2>3
  <2>5. it[s] = Larger(f[y], it[r]) /\ Good(r)
    BY <1>5, <2>2, <2>3, <2>4
  <2> HIDE DEF y
  <2>6. \A a, b, c \in Known : /\ Larger(a, b) \in {a, b}
                               /\ ~Greater(a, Larger(a, b))
                               /\ ~Greater(c, b) => ~Greater(c, Larger(a, b))
    BY SpecialCosts DEF Larger, larger, Greater, greater, Cost, Known
  <2>7. \A x \in s : f[x] \in Known /\ (x = y \/ x \in r)
    BY <2>4
  <2>8. \A x \in s : ~Greater(f[x], it[s])
    <3>1. ~Greater(f[y], it[s]) /\ \A c \in Known : ~Greater(c, it[r]) => ~Greater(c, it[s])
      <4>1. it[r] \in Known
        BY <2>5
      <4> HIDE DEF Good, Bad, r
      <4> QED  BY <2>4, <2>5, <2>6, <4>1
    <3>2. \A x \in r : ~Greater(f[x], it[r])
      BY <2>5
    <3> QED  BY <2>7, <3>1, <3>2
  <2>9. it[s] = f[y] \/ it[s] = it[r]
    BY <2>4, <2>5, <2>6
  <2>10. Good(s)
    BY <2>4, <2>5, <2>8, <2>9
  <2> QED  BY <2>2, <2>10
<1> QED  BY <1>4, <1>6

(* What is at most a cost is at most what that cost is at most.            *)
LEMMA AtMostTransitive ==
  ASSUME NEW a \in Cost, NEW b \in Known, NEW c \in Known,
         ~Greater(a, b), ~Greater(b, c)
  PROVE  ~Greater(a, c)
BY SpecialCosts DEF Greater, greater, Cost, Known

(* Nothing is greater than itself, and NaN is greater than nothing.        *)
LEMMA NeverGreater ==
  ASSUME NEW a \in Cost
  PROVE  /\ ~Greater(a, a) /\ ~Greater(ELEM_NAN, a) /\ ~Greater(ELEM_ZERO, a)
BY SpecialCosts DEF Greater, greater, Cost, Known

(* Known costs are ordered, and no solution stays none.                    *)
LEMMA CostOrder ==
  /\ \A a, b \in Known : ~Greater(a, b) /\ ~Greater(b, a) => a = b
  /\ \A a \in Cost : \A b \in Cost : Greater(a, b) => a \in Known /\ b \in Known /\ ~Greater(b, a)
  /\ \A a \in Known : a # ELEM_NAN
  /\ \A a \in Cost : a # ELEM_NAN => a \in Known
  /\ \A a \in Known : Times(a, ELEM_ZERO) = ELEM_ZERO /\ Times(ELEM_ZERO, a) = ELEM_ZERO
  /\ \A a \in Known : \A b \in Known : Times(a, b) = ELEM_ZERO => ELEM_ZERO \in {a, b}
  /\ \A a \in Known : ~Greater(a, ELEM_ZERO) => a = ELEM_ZERO
  /\ \A a \in Known : \A b \in Cost : GapClosed(a, b) => b \in Known /\ ~Greater(a, b)
  /\ \A a \in Cost : Times(a, ELEM_NAN) = ELEM_NAN /\ Times(ELEM_NAN, a) = ELEM_NAN
  /\ \A a, b \in Cost : Times(a, b) \in Known => a \in Known /\ b \in Known
BY SpecialCosts DEF Times, times, Greater, greater, GapClosed, gapClosed, Cost, Known

(* The larger of two costs. *)
LEMMA LargerOf ==
  ASSUME NEW a \in Known, NEW b \in Known
  PROVE  Larger(a, b) \in {a, b} /\ ~Greater(a, Larger(a, b)) /\ ~Greater(b, Larger(a, b))
BY SpecialCosts DEF Larger, larger, Greater, greater, Cost, Known
=============================================================================
