--------------------------- MODULE SequenceLemmas ---------------------------
(***************************************************************************)
(* What the queues' proofs need of sequences, seen as what they hold: the  *)
(* range of a sequence, that it holds nothing twice, that it ascends.      *)
(***************************************************************************)
EXTENDS Integers, Sequences, Functions, SequenceTheorems, TLAPS

Ascends(s) == \A i, j \in DOMAIN s : i < j => s[i] < s[j]

LEMMA RangeType ==
  ASSUME NEW S, NEW s \in Seq(S)
  PROVE  Range(s) \subseteq S
BY DEF Range

LEMMA EmptyType ==
  ASSUME NEW S
  PROVE  << >> \in Seq(S)
OBVIOUS

LEMMA SeqTypes ==
  ASSUME NEW S, NEW s \in Seq(S)
  PROVE  /\ \A e \in S : Append(s, e) \in Seq(S)
         /\ s # << >> => Head(s) \in S /\ Tail(s) \in Seq(S)
OBVIOUS

LEMMA WiderSeq ==
  ASSUME NEW S, NEW T, S \subseteq T, NEW s \in Seq(S)
  PROVE  s \in Seq(T)
OBVIOUS

LEMMA AppendRange ==
  ASSUME NEW S, NEW s \in Seq(S), NEW e \in S
  PROVE  /\ Range(Append(s, e)) = Range(s) \cup {e}
         /\ IsInjective(s) /\ e \notin Range(s) => IsInjective(Append(s, e))
<1> DEFINE t == Append(s, e)
<1>1. /\ t \in Seq(S) /\ Len(t) = Len(s) + 1
      /\ \A i \in 1 .. Len(s) : t[i] = s[i]
      /\ t[Len(s) + 1] = e
  BY AppendProperties
<1>2. /\ DOMAIN t = 1 .. (Len(s) + 1) /\ DOMAIN s = 1 .. Len(s)
      /\ Len(s) \in Nat
  BY <1>1, LenProperties
<1> HIDE DEF t
<1>3. Range(t) = Range(s) \cup {e}
  BY <1>1, <1>2 DEF Range
<1>4. ASSUME IsInjective(s), e \notin Range(s) PROVE IsInjective(t)
  BY <1>1, <1>2, <1>4 DEF IsInjective, Range
<1> QED
  BY <1>3, <1>4 DEF t

LEMMA TailRange ==
  ASSUME NEW S, NEW s \in Seq(S), s # << >>, IsInjective(s)
  PROVE  /\ Range(s) = Range(Tail(s)) \cup {Head(s)}
         /\ Head(s) \notin Range(Tail(s)) /\ IsInjective(Tail(s))
<1>1. /\ Len(s) \in Nat \ {0} /\ DOMAIN s = 1 .. Len(s)
      /\ DOMAIN Tail(s) = 1 .. (Len(s) - 1)
      /\ \A i \in 1 .. (Len(s) - 1) : Tail(s)[i] = s[i + 1]
      /\ Head(s) = s[1]
  OBVIOUS
<1>2. Range(s) \subseteq Range(Tail(s)) \cup {Head(s)}
  <2> SUFFICES ASSUME NEW i \in 1 .. Len(s), i # 1
               PROVE  s[i] \in Range(Tail(s))
    BY <1>1 DEF Range
  <2>1. i - 1 \in 1 .. (Len(s) - 1) /\ Tail(s)[i - 1] = s[i]
    BY <1>1
  <2> QED
    BY <2>1, <1>1 DEF Range
<1>3. Range(Tail(s)) \cup {Head(s)} \subseteq Range(s)
  BY <1>1 DEF Range
<1>4. Head(s) \notin Range(Tail(s)) /\ IsInjective(Tail(s))
  BY <1>1 DEF Range, IsInjective
<1> QED
  BY <1>2, <1>3, <1>4

LEMMA TailPart ==
  ASSUME NEW S, NEW s \in Seq(S), s # << >>
  PROVE  /\ Range(s) = Range(Tail(s)) \cup {Head(s)}
         /\ Head(s) \in S
<1>1. /\ Len(s) \in Nat \ {0} /\ DOMAIN s = 1 .. Len(s)
      /\ DOMAIN Tail(s) = 1 .. (Len(s) - 1)
      /\ \A i \in 1 .. (Len(s) - 1) : Tail(s)[i] = s[i + 1]
      /\ Head(s) = s[1] /\ Head(s) \in S
  OBVIOUS
<1>2. \A k \in DOMAIN Tail(s) : k + 1 \in DOMAIN s /\ Tail(s)[k] = s[k + 1]
  BY <1>1
<1>3. \A k \in DOMAIN s :
        k = 1 \/ (k - 1 \in DOMAIN Tail(s) /\ Tail(s)[k - 1] = s[k])
  BY <1>1
<1>4. 1 \in DOMAIN s
  BY <1>1
<1>5. Range(s) \subseteq Range(Tail(s)) \cup {Head(s)}
  BY <1>1, <1>3 DEF Range
<1>6. Range(Tail(s)) \cup {Head(s)} \subseteq Range(s)
  BY <1>1, <1>2, <1>4 DEF Range
<1> QED
  BY <1>1, <1>5, <1>6

LEMMA AscendsAppend ==
  ASSUME NEW s \in Seq(Nat), NEW e \in Nat, Ascends(s),
         \A x \in Range(s) : x < e
  PROVE  Ascends(Append(s, e))
<1>1. /\ Append(s, e) \in Seq(Nat) /\ Len(Append(s, e)) = Len(s) + 1
      /\ \A i \in 1 .. Len(s) : Append(s, e)[i] = s[i]
      /\ Append(s, e)[Len(s) + 1] = e
      /\ DOMAIN s = 1 .. Len(s) /\ Len(s) \in Nat
  OBVIOUS
<1>2. DOMAIN Append(s, e) = 1 .. (Len(s) + 1)
  BY <1>1
<1> SUFFICES ASSUME NEW i \in 1 .. (Len(s) + 1), NEW j \in 1 .. (Len(s) + 1),
                    i < j
             PROVE  Append(s, e)[i] < Append(s, e)[j]
  BY <1>2 DEF Ascends
<1>3. i \in 1 .. Len(s) /\ s[i] \in Range(s) /\ Append(s, e)[i] = s[i]
  BY <1>1 DEF Range
<1>4. CASE j = Len(s) + 1
  BY <1>1, <1>3, <1>4
<1>5. CASE j # Len(s) + 1
  <2>1. j \in 1 .. Len(s)
    BY <1>1, <1>5
  <2> QED
    BY <1>1, <1>3, <2>1 DEF Ascends
<1> QED
  BY <1>4, <1>5

LEMMA AscendsTail ==
  ASSUME NEW s \in Seq(Nat), s # << >>, Ascends(s)
  PROVE  Ascends(Tail(s)) /\ \A x \in Range(Tail(s)) : Head(s) < x
<1>1. /\ Len(s) \in Nat \ {0} /\ DOMAIN s = 1 .. Len(s)
      /\ DOMAIN Tail(s) = 1 .. (Len(s) - 1)
      /\ \A i \in 1 .. (Len(s) - 1) : Tail(s)[i] = s[i + 1]
      /\ Head(s) = s[1]
  OBVIOUS
<1>2. ASSUME NEW i \in 1 .. (Len(s) - 1), NEW j \in 1 .. (Len(s) - 1), i < j
      PROVE  Tail(s)[i] < Tail(s)[j]
  <2>1. i + 1 \in DOMAIN s /\ j + 1 \in DOMAIN s /\ i + 1 < j + 1
    BY <1>1, <1>2
  <2> QED
    BY <1>1, <2>1 DEF Ascends
<1>3. ASSUME NEW i \in 1 .. (Len(s) - 1) PROVE Head(s) < Tail(s)[i]
  <2>1. 1 \in DOMAIN s /\ i + 1 \in DOMAIN s /\ 1 < i + 1
    BY <1>1
  <2> QED
    BY <1>1, <2>1 DEF Ascends
<1> QED
  BY <1>1, <1>2, <1>3 DEF Ascends, Range

(* Indices and elements of a sequence before and after an append or tail. *)
LEMMA AppendShape ==
  ASSUME NEW S, NEW s \in Seq(S), NEW e \in S
  PROVE  /\ Len(s) \in Nat /\ DOMAIN s = 1 .. Len(s)
         /\ DOMAIN Append(s, e) = 1 .. (Len(s) + 1)
         /\ \A k \in 1 .. Len(s) : Append(s, e)[k] = s[k]
         /\ Append(s, e)[Len(s) + 1] = e
         /\ Append(s, e) \in Seq(S)
OBVIOUS

LEMMA TailShape ==
  ASSUME NEW S, NEW s \in Seq(S), s # << >>
  PROVE  /\ Len(s) \in Nat \ {0} /\ DOMAIN s = 1 .. Len(s)
         /\ DOMAIN Tail(s) = 1 .. (Len(s) - 1)
         /\ \A k \in 1 .. (Len(s) - 1) : Tail(s)[k] = s[k + 1]
         /\ Head(s) = s[1] /\ Head(s) \in S /\ Tail(s) \in Seq(S)
OBVIOUS
=============================================================================
