---------------------------- MODULE AnswersProofs ----------------------------
(***************************************************************************)
(* What taking one answer out of a sequence, or adding one at its end,     *)
(* leaves of the others.                                                   *)
(***************************************************************************)
EXTENDS Answers, TLAPS

\* Taking an answer out leaves a sequence of answers.
LEMMA WithoutType ==
  ASSUME NEW S, NEW s \in Seq(S), NEW i \in DOMAIN s
  PROVE  Without(s, i) \in Seq(S)
<1>1. Len(s) \in Nat /\ i \in 1 .. Len(s)
  OBVIOUS
<1>2. \A j \in 1 .. Len(s) - 1 : (IF j < i THEN s[j] ELSE s[j + 1]) \in S
  BY <1>1
<1>3. QED
  BY <1>1, <1>2 DEF Without

\* Whatever is left was there before, at another place than the one taken out.
LEMMA WithoutFrom ==
  ASSUME NEW S, NEW s \in Seq(S), NEW i \in DOMAIN s, NEW j \in DOMAIN Without(s, i)
  PROVE  \E k \in DOMAIN s : k # i /\ Without(s, i)[j] = s[k]
<1>1. Len(s) \in Nat /\ i \in 1 .. Len(s) /\ DOMAIN s = 1 .. Len(s)
  OBVIOUS
<1>2. j \in 1 .. Len(s) - 1 /\ Without(s, i)[j] = IF j < i THEN s[j] ELSE s[j + 1]
  BY DEF Without
<1>3. CASE j < i
  BY <1>1, <1>2, <1>3
<1>4. CASE ~ (j < i)
  <2>1. j + 1 \in DOMAIN s /\ j + 1 # i
    BY <1>1, <1>2, <1>4
  <2>2. QED
    BY <1>2, <1>4, <2>1
<1>5. QED
  BY <1>3, <1>4

\* Whatever was there at another place is left.
LEMMA WithoutKeeps ==
  ASSUME NEW S, NEW s \in Seq(S), NEW i \in DOMAIN s, NEW k \in DOMAIN s, k # i
  PROVE  \E j \in DOMAIN Without(s, i) : Without(s, i)[j] = s[k]
<1>1. Len(s) \in Nat /\ i \in 1 .. Len(s) /\ k \in 1 .. Len(s)
  OBVIOUS
<1>2. DOMAIN Without(s, i) = 1 .. Len(s) - 1
  BY DEF Without
<1>3. CASE k < i
  <2>1. k \in 1 .. Len(s) - 1
    BY <1>1, <1>3
  <2>2. Without(s, i)[k] = s[k]
    BY <1>3, <2>1 DEF Without
  <2>3. QED
    BY <1>2, <2>1, <2>2
<1>4. CASE ~ (k < i)
  <2>1. k - 1 \in 1 .. Len(s) - 1 /\ ~ (k - 1 < i) /\ (k - 1) + 1 = k
    BY <1>1, <1>4
  <2>2. Without(s, i)[k - 1] = s[k]
    BY <2>1 DEF Without
  <2>3. QED
    BY <1>2, <2>1, <2>2
<1>5. QED
  BY <1>3, <1>4

\* Where the answer at place j was before the one at place i was taken out.
From(i, j) == IF j < i THEN j ELSE j + 1

LEMMA WithoutPlace ==
  ASSUME NEW S, NEW s \in Seq(S), NEW i \in DOMAIN s, NEW j \in DOMAIN Without(s, i)
  PROVE  /\ From(i, j) \in DOMAIN s /\ From(i, j) # i /\ j \in Nat /\ i \in Nat
         /\ Without(s, i)[j] = s[From(i, j)]
<1>1. Len(s) \in Nat /\ i \in 1 .. Len(s) /\ DOMAIN s = 1 .. Len(s) /\ j \in 1 .. Len(s) - 1
  BY DEF Without
<1>2. Without(s, i)[j] = s[From(i, j)]
  BY <1>1 DEF Without, From
<1>3. From(i, j) \in DOMAIN s /\ From(i, j) # i
  BY <1>1 DEF From
<1>4. QED
  BY <1>1, <1>2, <1>3

LEMMA FromOrder ==
  ASSUME NEW i \in Nat, NEW j \in Nat, NEW k \in Nat
  PROVE  /\ From(i, j) = From(i, k) => j = k
         /\ From(i, j) < From(i, k) => j < k
         /\ j < k => From(i, j) < From(i, k)
BY DEF From

\* Whatever was at another place is left at one that is found again.
LEMMA WithoutTo ==
  ASSUME NEW S, NEW s \in Seq(S), NEW i \in DOMAIN s, NEW k \in DOMAIN s, k # i
  PROVE  \E j \in DOMAIN Without(s, i) : From(i, j) = k /\ Without(s, i)[j] = s[k]
<1>1. Len(s) \in Nat /\ i \in 1 .. Len(s) /\ k \in 1 .. Len(s)
  OBVIOUS
<1>2. DOMAIN Without(s, i) = 1 .. Len(s) - 1
  BY DEF Without
<1> DEFINE j == IF k < i THEN k ELSE k - 1
<1>3. j \in 1 .. Len(s) - 1 /\ From(i, j) = k
  BY <1>1 DEF From
<1> HIDE DEF j
<1>4. Without(s, i)[j] = s[k]
  BY <1>2, <1>3, WithoutPlace
<1>5. QED
  BY <1>2, <1>3, <1>4

\* An answer that is added comes last.
LEMMA AppendAll ==
  ASSUME NEW S, NEW s \in Seq(S), NEW a
  PROVE  /\ DOMAIN Append(s, a) = DOMAIN s \union {Len(s) + 1} /\ Append(s, a)[Len(s) + 1] = a
         /\ \A j \in DOMAIN s : j < Len(s) + 1 /\ Append(s, a)[j] = s[j]
         /\ \A j \in DOMAIN Append(s, a) : ~(j > Len(s) + 1)
OBVIOUS

\* What is in a sequence after an answer was added.
LEMMA AppendFrom ==
  ASSUME NEW S, NEW s \in Seq(S), NEW a \in S, NEW j \in DOMAIN Append(s, a)
  PROVE  \/ j \in DOMAIN s /\ Append(s, a)[j] = s[j]
         \/ Append(s, a)[j] = a
OBVIOUS

\* The mishaps of the network are two.
LEMMA NetworkTwo ==
  ASSUME NEW answers, NEW S, NEW i
  PROVE  NetworkMishaps(answers, S, i) \subseteq {"order", "lost"}
BY DEF NetworkMishaps
\* Before place n there is no answer of M; or there is, and the last is also of G.
NoneBefore(s, M, n) == \A j \in DOMAIN s : j < n => s[j] \notin M
LastBefore(s, M, G, n) ==
  \E k \in DOMAIN s : /\ k < n /\ s[k] \in M \intersect G
                      /\ \A j \in DOMAIN s : (k < j /\ j < n) => s[j] \notin M

\* Taking an answer out before any older one of M: either it was the last of M, which
\* leaves none, or that one is still there.
LEMMA LastTaken ==
  ASSUME NEW S, NEW s \in Seq(S), NEW i \in DOMAIN s, NEW M, NEW G, NEW m \in 1 .. Len(s),
         s[i] \in M => i < From(i, m) /\ NoneBefore(s, M, i)
  PROVE  /\ NoneBefore(s, M, From(i, m)) => s[i] \notin M /\ NoneBefore(Without(s, i), M, m)
         /\ LastBefore(s, M, G, From(i, m)) =>
              \/ s[i] \in M \intersect G /\ NoneBefore(Without(s, i), M, m)
              \/ LastBefore(Without(s, i), M, G, m)
<1> DEFINE w == Without(s, i)
<1>1. i \in Nat /\ m \in Nat /\ \A j \in DOMAIN s : j \in Nat
  OBVIOUS
<1>2. ASSUME NEW j \in DOMAIN w
      PROVE  From(i, j) \in DOMAIN s /\ From(i, j) # i /\ j \in Nat /\ w[j] = s[From(i, j)]
  BY <1>2, WithoutPlace
<1>3. ASSUME NEW k \in DOMAIN s, k # i PROVE \E j \in DOMAIN w : From(i, j) = k /\ w[j] = s[k]
  BY <1>3, WithoutTo
<1> HIDE DEF w
<1>4. \A j \in DOMAIN w : (j < m => From(i, j) < From(i, m)) /\ (From(i, j) < From(i, m) => j < m)
  BY <1>1, <1>2, FromOrder
<1>5. ASSUME NoneBefore(s, M, From(i, m)) PROVE s[i] \notin M /\ NoneBefore(w, M, m)
  BY <1>2, <1>4, <1>5 DEF NoneBefore
<1>6. ASSUME NEW k \in DOMAIN s, k < From(i, m), s[k] \in M \intersect G,
             \A j \in DOMAIN s : (k < j /\ j < From(i, m)) => s[j] \notin M
      PROVE  \/ s[i] \in M \intersect G /\ NoneBefore(w, M, m)
             \/ LastBefore(w, M, G, m)
  <2>1. CASE k = i
    <3>1. \A j \in DOMAIN s : j # i /\ j < From(i, m) => s[j] \notin M
      <4>1. \A j \in DOMAIN s : j # i => j < i \/ i < j
        BY <1>1
      <4>2. QED
        BY <1>6, <2>1, <4>1 DEF NoneBefore
    <3>2. NoneBefore(w, M, m)
      BY <1>2, <1>4, <3>1 DEF NoneBefore
    <3>3. QED
      BY <1>6, <2>1, <3>2
  <2>2. CASE k # i
    <3>1. PICK j \in DOMAIN w : From(i, j) = k /\ w[j] = s[k]
      BY <1>3, <2>2
    <3>2. j < m
      BY <1>4, <1>6, <3>1
    <3>3. ASSUME NEW l \in DOMAIN w, j < l, l < m PROVE w[l] \notin M
      <4>1. k < From(i, l) /\ From(i, l) < From(i, m)
        BY <1>1, <1>2, <1>4, <3>1, <3>3, FromOrder
      <4>2. QED
        BY <1>2, <1>6, <4>1
    <3>4. QED
      BY <1>6, <3>1, <3>2, <3>3 DEF LastBefore
  <2>3. QED
    BY <2>1, <2>2
<1>7. QED
  BY <1>5, <1>6 DEF LastBefore, w

\* An answer that is added comes after any place there was, and is the last of M if it
\* is one.
LEMMA StillBefore ==
  ASSUME NEW S, NEW s \in Seq(S), NEW a, NEW M, NEW G, NEW n \in 1 .. Len(s) + 1
  PROVE  /\ NoneBefore(s, M, n) => NoneBefore(Append(s, a), M, n)
         /\ LastBefore(s, M, G, n) => LastBefore(Append(s, a), M, G, n)
<1> DEFINE w == Append(s, a)   l == Len(s) + 1
<1>1. /\ DOMAIN w = DOMAIN s \union {l} /\ w[l] = a
      /\ \A j \in DOMAIN s : j < l /\ w[j] = s[j]
  BY AppendAll
<1>2. l \in Nat /\ n \in Nat /\ n <= l
  OBVIOUS
<1> HIDE DEF w, l
<1>3. ~(l < n)
  BY <1>2
<1>4. NoneBefore(s, M, n) => NoneBefore(w, M, n)
  BY <1>1, <1>3 DEF NoneBefore
<1>5. LastBefore(s, M, G, n) => LastBefore(w, M, G, n)
  BY <1>1, <1>3 DEF LastBefore
<1>6. QED
  BY <1>4, <1>5 DEF w

LEMMA LastAdded ==
  ASSUME NEW S, NEW s \in Seq(S), NEW a, NEW M, NEW G
  PROVE  /\ a \in M \intersect G => LastBefore(Append(s, a), M, G, Len(s) + 2)
         /\ a \notin M /\ NoneBefore(s, M, Len(s) + 1) => NoneBefore(Append(s, a), M, Len(s) + 2)
         /\ a \notin M /\ LastBefore(s, M, G, Len(s) + 1) => LastBefore(Append(s, a), M, G, Len(s) + 2)
<1> DEFINE w == Append(s, a)   l == Len(s) + 1
<1>1. /\ DOMAIN w = DOMAIN s \union {l} /\ w[l] = a
      /\ \A j \in DOMAIN s : j < l /\ w[j] = s[j]
  BY AppendAll
<1>2. l \in Nat /\ (\A j \in DOMAIN s : j \in Nat) /\ Len(s) + 2 = l + 1
  OBVIOUS
<1> HIDE DEF w, l
<1>3. l < l + 1 /\ \A j \in DOMAIN s : j < l + 1 /\ ~(l < j)
  BY <1>1, <1>2
<1>4. a \in M \intersect G => LastBefore(w, M, G, l + 1)
  BY <1>1, <1>2, <1>3 DEF LastBefore
<1>5. a \notin M /\ NoneBefore(s, M, l) => NoneBefore(w, M, l + 1)
  BY <1>1 DEF NoneBefore
<1>6. ASSUME a \notin M, LastBefore(s, M, G, l) PROVE LastBefore(w, M, G, l + 1)
  <2>1. PICK k \in DOMAIN s : /\ k < l /\ s[k] \in M \intersect G
                              /\ \A j \in DOMAIN s : (k < j /\ j < l) => s[j] \notin M
    BY <1>6 DEF LastBefore
  <2>2. \A j \in DOMAIN w : k < j => w[j] \notin M
    BY <1>1, <1>6, <2>1
  <2>3. QED
    BY <1>1, <1>3, <2>1, <2>2 DEF LastBefore
<1>7. QED
  BY <1>2, <1>4, <1>5, <1>6 DEF w, l
==============================================================================
