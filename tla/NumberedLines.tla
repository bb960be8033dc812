--------------------------- MODULE NumberedLines ---------------------------
(***************************************************************************)
(* Facts about sequences of records with a kind and a number, which the    *)
(* proofs about the links share: the lines of a window helper, the frames  *)
(* of a WebSocket peer. Append writes a record, Head and Tail read one.    *)
(***************************************************************************)
EXTENDS Naturals, Sequences, TLAPS, SequenceTheorems

\* The numbers of the records of a kind, that they increase along the
\* sequence, and that a record is in it.
NumbersIn(s, k) == {n \in Nat : \E i \in DOMAIN s : s[i].kind = k /\ s[i].n = n}
Rising(s, k)    == \A i, j \in DOMAIN s :
                      i < j /\ s[i].kind = k /\ s[j].kind = k => s[i].n < s[j].n
Has(s, m)       == \E i \in DOMAIN s : s[i] = m

\* The records of a kind have natural numbers.
Numbered(S, k) == \A m \in S : m.kind = k => m.n \in Nat

\* Nothing is in an empty sequence.
LEMMA NoLines == ASSUME NEW k, NEW m PROVE NumbersIn(<<>>, k) = {} /\ Rising(<<>>, k) /\ ~Has(<<>>, m)
  BY DEF NumbersIn, Rising, Has

\* What a new line adds.
LEMMA LineAdded ==
    ASSUME NEW S, NEW k, Numbered(S, k), NEW s \in Seq(S), NEW m \in S, NEW e
    PROVE  /\ NumbersIn(Append(s, m), k) = NumbersIn(s, k) \cup (IF m.kind = k THEN {m.n} ELSE {})
           /\ Has(Append(s, m), e) = (Has(s, e) \/ m = e)
           /\ Rising(s, k) /\ (m.kind = k => \A n \in NumbersIn(s, k) : n < m.n) => Rising(Append(s, m), k)
  <1>. DEFINE t == Append(s, m)
  <1>1. /\ Len(t) = Len(s) + 1 /\ DOMAIN t = 1..(Len(s) + 1) /\ DOMAIN s = 1..Len(s) /\ Len(s) \in Nat
        /\ t[Len(s) + 1] = m /\ \A i \in 1..Len(s) : t[i] = s[i]
    BY AppendProperties
  <1>2. m.kind = k => m.n \in Nat
    BY DEF Numbered
  <1>3. \A i \in DOMAIN s : s[i] \in S
    BY ElementOfSeq, <1>1
  <1>. HIDE DEF t
  <1>4. NumbersIn(t, k) = NumbersIn(s, k) \cup (IF m.kind = k THEN {m.n} ELSE {})
    <2>1. ASSUME NEW n \in NumbersIn(t, k) PROVE n \in NumbersIn(s, k) \/ (m.kind = k /\ n = m.n)
      BY <1>1, <2>1 DEF NumbersIn
    <2>2. ASSUME NEW n \in NumbersIn(s, k) PROVE n \in NumbersIn(t, k)
      BY <1>1, <2>2 DEF NumbersIn
    <2>3. ASSUME m.kind = k PROVE m.n \in NumbersIn(t, k)
      BY <1>1, <1>2, <2>3 DEF NumbersIn
    <2>. QED BY <2>1, <2>2, <2>3
  <1>5. Has(t, e) = (Has(s, e) \/ m = e)
    <2>1. Has(t, e) => Has(s, e) \/ m = e
      BY <1>1 DEF Has
    <2>2. Has(s, e) => Has(t, e)
      BY <1>1 DEF Has
    <2>3. m = e => Has(t, e)
      BY <1>1 DEF Has
    <2>. QED BY <2>1, <2>2, <2>3 DEF Has
  <1>6. ASSUME Rising(s, k), m.kind = k => \A n \in NumbersIn(s, k) : n < m.n PROVE Rising(t, k)
    <2>. SUFFICES ASSUME NEW i \in DOMAIN t, NEW j \in DOMAIN t, i < j,
                         t[i].kind = k, t[j].kind = k
                  PROVE  t[i].n < t[j].n
      BY DEF Rising
    <2>1. i \in DOMAIN s /\ t[i] = s[i]
      BY <1>1
    <2>2. CASE j \in DOMAIN s
      BY <1>1, <1>6, <2>1, <2>2 DEF Rising
    <2>3. CASE j \notin DOMAIN s
      <3>1. t[j] = m
        BY <1>1, <2>3
      <3>2. s[i].n \in NumbersIn(s, k)
        <4>1. s[i].n \in Nat
          BY <1>3, <2>1 DEF Numbered
        <4>. QED BY <2>1, <4>1 DEF NumbersIn
      <3>. QED BY <1>6, <2>1, <3>1, <3>2
    <2>. QED BY <2>2, <2>3
  <1>. QED BY <1>4, <1>5, <1>6 DEF t

\* What taking the first line leaves.
LEMMA LineTaken ==
    ASSUME NEW S, NEW k, Numbered(S, k), NEW s \in Seq(S), s # <<>>, NEW e
    PROVE  /\ NumbersIn(s, k) = NumbersIn(Tail(s), k) \cup (IF Head(s).kind = k THEN {Head(s).n} ELSE {})
           /\ Has(s, e) = (Has(Tail(s), e) \/ Head(s) = e)
           /\ Rising(s, k) => Rising(Tail(s), k)
           /\ Rising(s, k) /\ Head(s).kind = k => \A n \in NumbersIn(Tail(s), k) : Head(s).n < n
  <1>. DEFINE t == Tail(s)
  <1>1. /\ Len(s) \in Nat /\ Len(s) > 0 /\ Len(t) = Len(s) - 1 /\ DOMAIN t = 1..(Len(s) - 1)
        /\ DOMAIN s = 1..Len(s) /\ Head(s) = s[1] /\ \A i \in 1..(Len(s) - 1) : t[i] = s[i + 1]
    BY HeadTailProperties, EmptySeq, LenProperties
  <1>2. \A i \in DOMAIN s : s[i] \in S
    BY ElementOfSeq, <1>1
  <1>3. 1 \in DOMAIN s /\ \A i \in DOMAIN s : i # 1 => i - 1 \in DOMAIN t /\ t[i - 1] = s[i]
    <2>1. ASSUME NEW i \in 1..Len(s), i # 1 PROVE i - 1 \in 1..(Len(s) - 1) /\ t[i - 1] = s[i]
      <3>1. i - 1 \in 1..(Len(s) - 1) /\ (i - 1) + 1 = i
        BY <1>1, <2>1
      <3>. HIDE DEF t
      <3>2. t[i - 1] = s[(i - 1) + 1]
        BY <1>1, <3>1
      <3>. QED BY <3>1, <3>2
    <2>. QED BY <1>1, <2>1
  <1>4. \A i \in DOMAIN t : i + 1 \in DOMAIN s /\ t[i] = s[i + 1] /\ 1 < i + 1 /\ i \in Nat
    BY <1>1
  <1>5. Head(s).kind = k => Head(s).n \in Nat
    BY <1>1, <1>2, <1>3 DEF Numbered
  <1>. HIDE DEF t
  <1>6. NumbersIn(s, k) = NumbersIn(t, k) \cup (IF Head(s).kind = k THEN {Head(s).n} ELSE {})
    <2>1. ASSUME NEW n \in NumbersIn(s, k) PROVE n \in NumbersIn(t, k) \/ (Head(s).kind = k /\ n = Head(s).n)
      <3>1. PICK i \in DOMAIN s : s[i].kind = k /\ s[i].n = n /\ n \in Nat
        BY <2>1 DEF NumbersIn
      <3>2. CASE i = 1
        BY <1>1, <3>1, <3>2
      <3>3. CASE i # 1
        BY <1>3, <3>1, <3>3 DEF NumbersIn
      <3>. QED BY <3>2, <3>3
    <2>2. ASSUME NEW n \in NumbersIn(t, k) PROVE n \in NumbersIn(s, k)
      BY <1>4, <2>2 DEF NumbersIn
    <2>3. ASSUME Head(s).kind = k PROVE Head(s).n \in NumbersIn(s, k)
      BY <1>1, <1>3, <1>5, <2>3 DEF NumbersIn
    <2>. QED BY <2>1, <2>2, <2>3
  <1>7. Has(s, e) = (Has(t, e) \/ Head(s) = e)
    <2>1. Has(s, e) => Has(t, e) \/ Head(s) = e
      BY <1>1, <1>3 DEF Has
    <2>2. Has(t, e) => Has(s, e)
      BY <1>4 DEF Has
    <2>3. Head(s) = e => Has(s, e)
      BY <1>1, <1>3 DEF Has
    <2>. QED BY <2>1, <2>2, <2>3 DEF Has
  <1>8. ASSUME Rising(s, k) PROVE Rising(t, k)
    <2>. SUFFICES ASSUME NEW i \in DOMAIN t, NEW j \in DOMAIN t, i < j,
                         t[i].kind = k, t[j].kind = k
                  PROVE  t[i].n < t[j].n
      BY DEF Rising
    <2>1. i + 1 < j + 1
      BY <1>4
    <2>. QED BY <1>4, <1>8, <2>1 DEF Rising
  <1>9. ASSUME Rising(s, k), Head(s).kind = k, NEW n \in NumbersIn(t, k) PROVE Head(s).n < n
    <2>1. PICK i \in DOMAIN t : t[i].kind = k /\ t[i].n = n
      BY <1>9 DEF NumbersIn
    <2>. QED BY <1>1, <1>3, <1>4, <1>9, <2>1 DEF Rising
  <1>. QED BY <1>6, <1>7, <1>8, <1>9 DEF t
=============================================================================
