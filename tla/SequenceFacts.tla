--------------------------- MODULE SequenceFacts ---------------------------
(***************************************************************************)
(* What the wallet does to its lists of requests: one is appended, one     *)
(* that was answered is taken out, wherever it is.  And the least element  *)
(* of a set of numbers, with which a proof goes along a sequence.          *)
(***************************************************************************)
EXTENDS SequencesExt, SequenceTheorems, WellFoundedInduction, TLAPS

\* A set of numbers has a least element: what fails somewhere fails somewhere first.
LEMMA LeastElement ==
  ASSUME NEW T, T \subseteq Nat, T # {}
  PROVE  \E n \in T : \A m \in T : n <= m
<1>1. PICK R : R = {ss \in Nat \X Nat : ss[1] < ss[2]}
  OBVIOUS
<1>2. IsWellFoundedOn(R, Nat)
  BY <1>1, NatLessThanWellFounded DEF OpToRel
<1>3. PICK n \in T : \A m \in T : ~(<<m, n>> \in R)
  BY <1>2, WFMin
<1>4. ASSUME NEW m \in T PROVE n <= m
  <2>1. m \in Nat /\ n \in Nat
    OBVIOUS
  <2>2. ~(<<m, n>> \in R)
    BY <1>3
  <2>3. QED BY <1>1, <2>1, <2>2
<1>5. QED BY <1>4

\* One element of a sequence is taken out: those behind it move up.
LEMMA RemoveAtIndices ==
  ASSUME NEW S, NEW seq \in Seq(S), NEW i \in DOMAIN seq
  PROVE  /\ RemoveAt(seq, i) \in Seq(S)
         /\ Len(RemoveAt(seq, i)) = Len(seq) - 1
         /\ DOMAIN RemoveAt(seq, i) = 1..(Len(seq) - 1)
         /\ \A j \in 1..(i - 1) : RemoveAt(seq, i)[j] = seq[j]
         /\ \A j \in i..(Len(seq) - 1) : RemoveAt(seq, i)[j] = seq[j + 1]
<1> DEFINE front == SubSeq(seq, 1, i - 1)
           back == SubSeq(seq, i + 1, Len(seq))
           rest == front \o back
<1>1. RemoveAt(seq, i) = rest
  BY DEF RemoveAt
<1>2. i \in 1..Len(seq) /\ Len(seq) \in Nat
  OBVIOUS
<1>3. /\ front \in Seq(S) /\ Len(front) = i - 1
      /\ \A j \in 1..(i - 1) : front[j] = seq[j]
  BY <1>2
<1>4. /\ back \in Seq(S) /\ Len(back) = Len(seq) - i
      /\ \A j \in 1..(Len(seq) - i) : back[j] = seq[j + i]
  BY <1>2
<1> HIDE DEF front, back
<1>5. /\ rest \in Seq(S) /\ Len(rest) = Len(seq) - 1
      /\ \A j \in 1..(Len(seq) - 1) : rest[j] = IF j <= i - 1 THEN front[j] ELSE back[j - (i - 1)]
  <2>1. /\ rest \in Seq(S) /\ Len(rest) = Len(front) + Len(back)
        /\ \A j \in 1..(Len(front) + Len(back)) :
             rest[j] = IF j <= Len(front) THEN front[j] ELSE back[j - Len(front)]
    BY <1>3, <1>4, ConcatProperties
  <2>2. Len(front) + Len(back) = Len(seq) - 1
    BY <1>2, <1>3, <1>4
  <2>3. QED BY <1>3, <2>1, <2>2
<1> HIDE DEF rest
<1>6. /\ \A j \in 1..(i - 1) : rest[j] = seq[j]
      /\ \A j \in i..(Len(seq) - 1) : rest[j] = seq[j + 1]
  <2>1. \A j \in 1..(i - 1) : rest[j] = seq[j]
    BY <1>2, <1>3, <1>5
  <2>2. ASSUME NEW j \in i..(Len(seq) - 1) PROVE rest[j] = seq[j + 1]
    <3>1. rest[j] = back[j - (i - 1)]
      <4>1. j \in 1..(Len(seq) - 1) /\ ~(j <= i - 1)
        BY <1>2
      <4>2. QED BY <1>5, <4>1
    <3>2. j - (i - 1) \in 1..(Len(seq) - i) /\ j - (i - 1) + i = j + 1
      BY <1>2
    <3>3. QED BY <1>4, <3>1, <3>2
  <2>3. QED BY <2>1, <2>2
<1>7. DOMAIN rest = 1..(Len(seq) - 1)
  BY <1>5
<1>8. QED BY <1>1, <1>5, <1>6, <1>7

\* One element of a sequence is taken out: the others are those that were there.
LEMMA RemoveAtElements ==
  ASSUME NEW S, NEW seq \in Seq(S), NEW i \in DOMAIN seq
  PROVE  /\ RemoveAt(seq, i) \in Seq(S)
         /\ Len(RemoveAt(seq, i)) = Len(seq) - 1
         /\ \A j \in DOMAIN RemoveAt(seq, i) :
              \E k \in DOMAIN seq : RemoveAt(seq, i)[j] = seq[k]
         /\ \A k \in DOMAIN seq \ {i} :
              \E j \in DOMAIN RemoveAt(seq, i) : RemoveAt(seq, i)[j] = seq[k]
<1>1. /\ RemoveAt(seq, i) \in Seq(S)
      /\ Len(RemoveAt(seq, i)) = Len(seq) - 1
      /\ DOMAIN RemoveAt(seq, i) = 1..(Len(seq) - 1)
      /\ \A j \in 1..(i - 1) : RemoveAt(seq, i)[j] = seq[j]
      /\ \A j \in i..(Len(seq) - 1) : RemoveAt(seq, i)[j] = seq[j + 1]
  BY RemoveAtIndices
<1>2. i \in 1..Len(seq) /\ Len(seq) \in Nat /\ DOMAIN seq = 1..Len(seq)
  OBVIOUS
<1> DEFINE rest == RemoveAt(seq, i)
<1> HIDE DEF rest
<1>3. ASSUME NEW j \in 1..(Len(seq) - 1) PROVE \E k \in 1..Len(seq) : rest[j] = seq[k]
  <2>1. CASE j < i
    <3>1. j \in 1..(i - 1) /\ j \in 1..Len(seq)
      BY <1>2, <2>1
    <3>2. QED BY <1>1, <3>1 DEF rest
  <2>2. CASE j >= i
    <3>1. j \in i..(Len(seq) - 1) /\ j + 1 \in 1..Len(seq)
      BY <1>2, <2>2
    <3>2. QED BY <1>1, <3>1 DEF rest
  <2>3. QED BY <1>2, <2>1, <2>2
<1>4. ASSUME NEW k \in 1..Len(seq), k # i PROVE \E j \in 1..(Len(seq) - 1) : rest[j] = seq[k]
  <2>1. CASE k < i
    <3>1. k \in 1..(i - 1) /\ k \in 1..(Len(seq) - 1)
      BY <1>2, <2>1
    <3>2. QED BY <1>1, <3>1 DEF rest
  <2>2. CASE k > i
    <3>1. k - 1 \in i..(Len(seq) - 1) /\ (k - 1) + 1 = k /\ k - 1 \in 1..(Len(seq) - 1)
      BY <1>2, <2>2
    <3>2. QED BY <1>1, <3>1 DEF rest
  <2>3. QED BY <1>2, <1>4, <2>1, <2>2
<1>5. QED BY <1>1, <1>2, <1>3, <1>4 DEF rest

\* An element is appended: those that were there stay where they are.
LEMMA AppendElements ==
  ASSUME NEW S, NEW seq \in Seq(S), NEW s \in S
  PROVE  /\ Append(seq, s) \in Seq(S) /\ Len(Append(seq, s)) = Len(seq) + 1
         /\ \A j \in DOMAIN Append(seq, s) :
              Append(seq, s)[j] = s \/ (j \in DOMAIN seq /\ Append(seq, s)[j] = seq[j])
         /\ \A j \in DOMAIN seq : j \in DOMAIN Append(seq, s) /\ Append(seq, s)[j] = seq[j]
         /\ Len(seq) + 1 \in DOMAIN Append(seq, s) /\ Append(seq, s)[Len(seq) + 1] = s
  OBVIOUS

=============================================================================
