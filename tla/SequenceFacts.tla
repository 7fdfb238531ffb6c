--------------------------- MODULE SequenceFacts ---------------------------
(***************************************************************************)
(* Facts about sequences that the proofs of several components rest on:    *)
(* what appending, taking the front and cutting out an entry do to the     *)
(* entries, and to there being no two alike.                               *)
(***************************************************************************)
EXTENDS SequenceTheorems, TLAPS

(* Appending adds the entry, and no other.                                 *)
LEMMA RangeOfAppend ==
  ASSUME NEW S, NEW s \in Seq(S), NEW e \in S
  PROVE  Range(Append(s, e)) = Range(s) \cup {e}
  <1>1. DOMAIN s = 1 .. Len(s) /\ DOMAIN Append(s, e) = 1 .. Len(s) + 1
    OBVIOUS
  <1>2. /\ \A i \in 1 .. Len(s) : Append(s, e)[i] = s[i]
        /\ Append(s, e)[Len(s) + 1] = e
    OBVIOUS
  <1>3. Len(s) + 1 \in 1 .. Len(s) + 1 /\ 1 .. Len(s) \subseteq 1 .. Len(s) + 1
    OBVIOUS
  <1>4. \A i \in 1 .. Len(s) + 1 : i \in 1 .. Len(s) \/ i = Len(s) + 1
    OBVIOUS
  <1>5. Range(s) \cup {e} \subseteq Range(Append(s, e))
    BY <1>1, <1>2, <1>3 DEF Range
  <1>6. Range(Append(s, e)) \subseteq Range(s) \cup {e}
    BY <1>1, <1>2, <1>4 DEF Range
  <1> QED
    BY <1>5, <1>6

(* Taking the front leaves the others.                                     *)
LEMMA RangeOfTail ==
  ASSUME NEW S, NEW q \in Seq(S), q # <<>>
  PROVE  /\ Head(q) \in S /\ Tail(q) \in Seq(S) /\ Len(Tail(q)) = Len(q) - 1
         /\ Range(q) = {Head(q)} \cup Range(Tail(q))
  <1> DEFINE u == Tail(q)
  <1>1. Head(q) \in S /\ u \in Seq(S) /\ Len(u) = Len(q) - 1
    OBVIOUS
  <1>2. /\ DOMAIN q = 1 .. Len(q) /\ DOMAIN u = 1 .. Len(q) - 1
        /\ Head(q) = q[1] /\ \A i \in 1 .. Len(q) - 1 : u[i] = q[i + 1]
    BY <1>1
  <1>3. Len(q) \in Nat /\ 1 \in 1 .. Len(q)
    OBVIOUS
  <1>4. Range(u) \subseteq Range(q) /\ Head(q) \in Range(q)
    <2>1. \A i \in 1 .. Len(q) - 1 : i + 1 \in 1 .. Len(q)
      BY <1>3
    <2> HIDE DEF u
    <2> QED
      BY <1>2, <1>3, <2>1 DEF Range
  <1>5. Range(q) \subseteq {Head(q)} \cup Range(u)
    <2> SUFFICES ASSUME NEW i \in DOMAIN q, i # 1 PROVE q[i] \in Range(u)
      BY <1>2 DEF Range
    <2>1. i - 1 \in DOMAIN u /\ u[i - 1] = q[i]
      BY <1>2, <1>3
    <2> HIDE DEF u
    <2> QED
      BY <2>1 DEF Range
  <1> QED
    BY <1>1, <1>4, <1>5

(* Moving the front of one sequence to the end of another changes nothing  *)
(* about the two together.                                                 *)
LEMMA TakeKeepsTheWhole ==
  ASSUME NEW S, NEW s \in Seq(S), NEW q \in Seq(S), q # <<>>
  PROVE  Append(s, Head(q)) \o Tail(q) = s \o q
  <1> DEFINE u == Append(s, Head(q)) \o Tail(q)
  <1>1. u \in Seq(S) /\ s \o q \in Seq(S)
    OBVIOUS
  <1>2. Len(u) = Len(s \o q)
    OBVIOUS
  <1>3. \A i \in 1 .. Len(u) : u[i] = (s \o q)[i]
    OBVIOUS
  <1> QED
    BY <1>1, <1>2, <1>3, SeqEqual

(* Adding to the end of a sequence adds to the end of any it ends.         *)
LEMMA AppendToTheWhole ==
  ASSUME NEW S, NEW s \in Seq(S), NEW q \in Seq(S), NEW e \in S
  PROVE  s \o Append(q, e) = Append(s \o q, e)
  <1> DEFINE u == s \o Append(q, e)
             v == Append(s \o q, e)
  <1>1. u \in Seq(S) /\ v \in Seq(S) /\ Len(u) = Len(v)
    OBVIOUS
  <1>2. \A i \in 1 .. Len(u) : u[i] = v[i]
    OBVIOUS
  <1> QED
    BY <1>1, <1>2, SeqEqual

(* A new entry leaves a sequence without repetitions.                      *)
LEMMA AppendIsInjective ==
  ASSUME NEW S, NEW s \in Seq(S), NEW e \in S, IsInjective(s), e \notin Range(s)
  PROVE  IsInjective(Append(s, e))
  <1> DEFINE u == Append(s, e)
  <1>1. \A i \in DOMAIN s : s[i] # e
    BY DEF Range
  <1>2. /\ DOMAIN u = 1 .. Len(s) + 1 /\ DOMAIN s = 1 .. Len(s)
        /\ u[Len(s) + 1] = e /\ \A i \in DOMAIN s : u[i] = s[i]
    OBVIOUS
  <1>3. \A i \in DOMAIN u : i \in DOMAIN s \/ i = Len(s) + 1
    BY <1>2
  <1> HIDE DEF u
  <1>4. IsInjective(u)
    BY <1>1, <1>2, <1>3 DEF IsInjective
  <1> QED
    BY <1>4 DEF u

(* Cutting out one entry of a sequence without repetitions leaves one      *)
(* without that entry and with the others.                                 *)
LEMMA CutOut ==
  ASSUME NEW S, NEW s \in Seq(S), IsInjective(s), NEW k \in DOMAIN s
  PROVE  LET u == SubSeq(s, 1, k - 1) \o SubSeq(s, k + 1, Len(s))
         IN  /\ u \in Seq(S) /\ IsInjective(u) /\ Range(u) = Range(s) \ {s[k]}
  <1> DEFINE l == SubSeq(s, 1, k - 1)
             r == SubSeq(s, k + 1, Len(s))
             u == l \o r
             from(i) == IF i < k THEN i ELSE i + 1
  <1>1. k \in 1 .. Len(s) /\ Len(s) \in Nat
    OBVIOUS
  <1>2. l \in Seq(S) /\ Len(l) = k - 1 /\ \A i \in 1 .. k - 1 : l[i] = s[i]
    BY <1>1
  <1>3. /\ r \in Seq(S) /\ Len(r) = Len(s) - k
        /\ \A i \in 1 .. Len(s) - k : r[i] = s[k + i]
    BY <1>1
  <1> HIDE DEF l, r
  <1>4. /\ u \in Seq(S) /\ Len(u) = Len(s) - 1
        /\ \A i \in 1 .. Len(s) - 1 : u[i] = IF i <= k - 1 THEN l[i] ELSE r[i - (k - 1)]
    <2>1. /\ u \in Seq(S) /\ Len(u) = Len(l) + Len(r)
          /\ \A i \in 1 .. Len(l) + Len(r) :
               u[i] = IF i <= Len(l) THEN l[i] ELSE r[i - Len(l)]
      BY <1>2, <1>3, ConcatProperties
    <2>2. Len(l) + Len(r) = Len(s) - 1
      BY <1>1, <1>2, <1>3
    <2> HIDE DEF u
    <2> QED
      BY <1>2, <2>1, <2>2
  <1>5. \A i \in 1 .. Len(s) - 1 : from(i) \in DOMAIN s /\ u[i] = s[from(i)]
    <2> SUFFICES ASSUME NEW i \in 1 .. Len(s) - 1
                 PROVE  from(i) \in DOMAIN s /\ u[i] = s[from(i)]
      OBVIOUS
    <2>1. CASE i < k
      <3>1. i \in 1 .. k - 1 /\ i \in 1 .. Len(s)
        BY <1>1, <2>1
      <3> QED
        BY <1>1, <1>2, <1>4, <2>1, <3>1
    <2>2. CASE ~(i < k)
      <3>1. i - (k - 1) \in 1 .. Len(s) - k /\ k + (i - (k - 1)) = i + 1
            /\ i + 1 \in 1 .. Len(s)
        BY <1>1, <2>2
      <3>2. u[i] = r[i - (k - 1)]
        BY <1>1, <1>4, <2>2
      <3>3. r[i - (k - 1)] = s[i + 1]
        BY <1>3, <3>1
      <3> QED
        BY <2>2, <3>1, <3>2, <3>3
    <2> QED
      BY <2>1, <2>2
  <1>6. /\ \A i, j \in 1 .. Len(s) - 1 : from(i) = from(j) => i = j
        /\ \A i \in 1 .. Len(s) - 1 : from(i) # k
        /\ \A j \in DOMAIN s : j # k => \E i \in 1 .. Len(s) - 1 : from(i) = j
    <2>1. \A i, j \in 1 .. Len(s) - 1 : from(i) = from(j) => i = j
      BY <1>1
    <2>2. \A i \in 1 .. Len(s) - 1 : from(i) # k
      BY <1>1
    <2>3. ASSUME NEW j \in DOMAIN s, j # k
          PROVE  \E i \in 1 .. Len(s) - 1 : from(i) = j
      <3>1. CASE j < k
        BY <1>1, <3>1
      <3>2. CASE j > k
        <4>1. j - 1 \in 1 .. Len(s) - 1 /\ from(j - 1) = j
          BY <1>1, <3>2
        <4> QED
          BY <4>1
      <3> QED
        BY <1>1, <2>3, <3>1, <3>2
    <2> QED
      BY <2>1, <2>2, <2>3
  <1>7. DOMAIN u = 1 .. Len(s) - 1
    BY <1>4, LenProperties
  <1> HIDE DEF u, from
  <1>8. IsInjective(u)
    BY <1>5, <1>6, <1>7 DEF IsInjective
  <1>9. Range(u) = Range(s) \ {s[k]}
    <2>1. ASSUME NEW i \in DOMAIN u PROVE u[i] \in Range(s) \ {s[k]}
      BY <1>5, <1>6, <1>7 DEF IsInjective, Range
    <2>2. ASSUME NEW j \in DOMAIN s, s[j] # s[k] PROVE s[j] \in Range(u)
      <3>1. PICK i \in DOMAIN u : from(i) = j
        BY <1>6, <1>7, <2>2
      <3> QED
        BY <1>5, <1>7, <3>1 DEF Range
    <2> QED
      BY <2>1, <2>2 DEF Range
  <1> QED
    BY <1>4, <1>8, <1>9 DEF u, l, r
=============================================================================
