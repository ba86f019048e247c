----------------------------- MODULE ListFacts -----------------------------
(***************************************************************************)
(* Facts about sequences and numbers that the proofs of several modules    *)
(* cite.                                                                   *)
(***************************************************************************)
EXTENDS Lists, SequenceTheorems, FiniteSetTheorems, WellFoundedInduction, TLAPS

LEMMA SeqFacts ==
  ASSUME NEW S
  PROVE  /\ <<>> \in Seq(S) /\ Len(<<>>) = 0
         /\ \A s \in Seq(S) : Len(s) \in Nat /\ (s = <<>> <=> Len(s) = 0)
         /\ \A s \in Seq(S) : \A i \in 1..Len(s) : s[i] \in S
         /\ \A s \in Seq(S), e \in S :
              /\ Append(s, e) \in Seq(S)
              /\ Len(Append(s, e)) = Len(s) + 1
              /\ \A i \in 1..Len(s) : Append(s, e)[i] = s[i]
              /\ Append(s, e)[Len(s) + 1] = e
         /\ \A s \in Seq(S) : s # <<>> =>
              /\ Tail(s) \in Seq(S)
              /\ Len(Tail(s)) = Len(s) - 1
              /\ \A i \in 1..Len(Tail(s)) : Tail(s)[i] = s[i + 1]
              /\ Head(s) = s[1] /\ Head(s) \in S
BY EmptySeq, LenProperties, ElementOfSeq, AppendProperties, HeadTailProperties

LEMMA NoElems == Elems(<<>>) = {} /\ Distinct(<<>>)
BY EmptySeq DEF Elems, Distinct

LEMMA ElemsEmpty ==
  ASSUME NEW S, NEW s \in Seq(S)
  PROVE  /\ Elems(s) \subseteq S
         /\ s = <<>> <=> Elems(s) = {}
<1>1. Len(s) \in Nat /\ (s = <<>> <=> Len(s) = 0)
  BY SeqFacts
<1>2. Len(s) # 0 => 1 \in 1..Len(s)
  BY <1>1
<1>3. QED
  BY <1>1, <1>2, NoElems, SeqFacts DEF Elems

LEMMA ElemsFacts ==
  ASSUME NEW S
  PROVE  /\ Elems(<<>>) = {}
         /\ \A s \in Seq(S) : Elems(s) \subseteq S
         /\ \A s \in Seq(S), e \in S : Elems(Append(s, e)) = Elems(s) \cup {e}
<1>1. Elems(<<>>) = {}
  BY SeqFacts DEF Elems
<1>2. ASSUME NEW s \in Seq(S) PROVE Elems(s) \subseteq S
  BY ElementOfSeq DEF Elems
<1>3. ASSUME NEW s \in Seq(S), NEW e \in S
      PROVE  Elems(Append(s, e)) = Elems(s) \cup {e}
  <2>1. /\ Len(s) \in Nat /\ Len(Append(s, e)) = Len(s) + 1
        /\ \A i \in 1..Len(s) : Append(s, e)[i] = s[i]
        /\ Append(s, e)[Len(s) + 1] = e
    BY SeqFacts
  <2>2. 1..(Len(s) + 1) = (1..Len(s)) \cup {Len(s) + 1}
    BY <2>1
  <2>3. QED
    BY <2>1, <2>2 DEF Elems
<1>4. QED
  BY <1>1, <1>2, <1>3

LEMMA DistinctAppend ==
  ASSUME NEW S, NEW s \in Seq(S), NEW e \in S, Distinct(s), e \notin Elems(s)
  PROVE  Distinct(Append(s, e))
<1>1. /\ Len(s) \in Nat /\ Len(Append(s, e)) = Len(s) + 1
      /\ \A i \in 1..Len(s) : Append(s, e)[i] = s[i]
      /\ Append(s, e)[Len(s) + 1] = e
  BY SeqFacts
<1>2. \A i \in 1..Len(s) : s[i] # e
  BY DEF Elems
<1>3. QED
  BY <1>1, <1>2 DEF Distinct

LEMMA AppendFacts ==
  ASSUME NEW S, NEW s \in Seq(S), NEW e \in S, Distinct(s), e \notin Elems(s)
  PROVE  /\ Append(s, e) \in Seq(S) /\ Distinct(Append(s, e))
         /\ Elems(Append(s, e)) = Elems(s) \cup {e}
BY SeqFacts, ElemsFacts, DistinctAppend

LEMMA TailFacts ==
  ASSUME NEW S, NEW s \in Seq(S), Distinct(s), s # <<>>
  PROVE  /\ Tail(s) \in Seq(S) /\ Distinct(Tail(s))
         /\ s[1] \in Elems(s)
         /\ Elems(Tail(s)) = Elems(s) \ {s[1]}
         /\ Tail(s) = <<>> <=> Len(s) = 1
<1>1. /\ Tail(s) \in Seq(S) /\ Len(s) \in Nat \ {0}
      /\ Len(Tail(s)) = Len(s) - 1
      /\ \A i \in 1..Len(Tail(s)) : Tail(s)[i] = s[i + 1]
  BY SeqFacts
<1>2. Distinct(Tail(s))
  BY <1>1 DEF Distinct
<1>3. s[1] \in Elems(s)
  BY <1>1 DEF Elems
<1>4. ASSUME NEW x \in Elems(Tail(s)) PROVE x \in Elems(s) /\ x # s[1]
  BY <1>1 DEF Elems, Distinct
<1>5. ASSUME NEW x \in Elems(s), x # s[1] PROVE x \in Elems(Tail(s))
  <2>1. PICK i \in 1..Len(s) : x = s[i]
    BY DEF Elems
  <2>2. i - 1 \in 1..Len(Tail(s)) /\ Tail(s)[i - 1] = x
    BY <1>1, <1>5, <2>1
  <2>3. QED
    BY <2>2 DEF Elems
<1>6. Tail(s) = <<>> <=> Len(s) = 1
  BY <1>1, SeqFacts
<1>7. QED
  BY <1>1, <1>2, <1>3, <1>4, <1>5, <1>6

(* Putting a new one first. *)
LEMMA ConsFacts ==
  ASSUME NEW S, NEW s \in Seq(S), NEW e \in S, Distinct(s), e \notin Elems(s)
  PROVE  /\ <<e>> \o s \in Seq(S) /\ Distinct(<<e>> \o s)
         /\ Elems(<<e>> \o s) = Elems(s) \cup {e}
         /\ <<e>> \o s # <<>>
<1>1. <<e>> \in Seq(S) /\ Len(<<e>>) = 1 /\ <<e>>[1] = e /\ Len(s) \in Nat
  BY SeqFacts
<1>2. /\ <<e>> \o s \in Seq(S)
      /\ Len(<<e>> \o s) = Len(s) + 1
      /\ \A i \in 1..Len(s) + 1 :
           (<<e>> \o s)[i] = IF i <= 1 THEN <<e>>[i] ELSE s[i - 1]
  BY <1>1, ConcatProperties
<1>3. /\ 1 \in 1..Len(s) + 1 /\ (<<e>> \o s)[1] = e
      /\ \A i \in 1..Len(s) + 1 : i # 1 =>
           i - 1 \in 1..Len(s) /\ (<<e>> \o s)[i] = s[i - 1]
      /\ \A i \in 1..Len(s) :
           i + 1 \in 1..Len(s) + 1 /\ (<<e>> \o s)[i + 1] = s[i]
  BY <1>1, <1>2
<1>4. \A i \in 1..Len(s) : s[i] # e
  BY DEF Elems
<1>5. Distinct(<<e>> \o s)
  BY <1>1, <1>2, <1>3, <1>4 DEF Distinct
<1>6. Elems(<<e>> \o s) = Elems(s) \cup {e}
  <2>1. \A x \in Elems(<<e>> \o s) : x \in Elems(s) \cup {e}
    BY <1>2, <1>3 DEF Elems
  <2>2. e \in Elems(<<e>> \o s)
    BY <1>2, <1>3 DEF Elems
  <2>3. ASSUME NEW x \in Elems(s) PROVE x \in Elems(<<e>> \o s)
    <3>1. PICK i \in 1..Len(s) : x = s[i]
      BY DEF Elems
    <3>2. i + 1 \in 1..Len(<<e>> \o s) /\ (<<e>> \o s)[i + 1] = x
      BY <1>2, <1>3, <3>1
    <3>3. QED
      BY <3>2 DEF Elems
  <2>4. QED
    BY <2>1, <2>2, <2>3
<1>7. <<e>> \o s # <<>>
  BY <1>1, <1>2, SeqFacts
<1>8. QED
  BY <1>2, <1>5, <1>6, <1>7

(* As many different elements as places. *)
LEMMA CountedOnce ==
  ASSUME NEW S, NEW s \in Seq(S), Distinct(s)
  PROVE  IsFiniteSet(Elems(s)) /\ Cardinality(Elems(s)) = Len(s)
<1>1. Len(s) \in Nat /\ s \in [1..Len(s) -> S]
  BY LenProperties
<1>2. s \in Bijection(1..Len(s), Elems(s))
  BY <1>1 DEF Bijection, Injection, Surjection, IsInjective, Elems, Distinct
<1>3. ExistsBijection(1..Len(s), Elems(s))
  BY <1>2 DEF ExistsBijection
<1>4. QED
  BY <1>1, <1>3, FS_CountingElements, FS_NatBijection

(* Moving the head of the second part to the first. *)
LEMMA ConcatTake ==
  ASSUME NEW S, NEW s \in Seq(S), NEW t \in Seq(S), t # <<>>
  PROVE  s \o t = Append(s, Head(t)) \o Tail(t)
<1>1. /\ Head(t) \in S /\ Tail(t) \in Seq(S) /\ <<Head(t)>> \in Seq(S)
  BY SeqFacts
<1>2. t = <<Head(t)>> \o Tail(t)
  <2>1. /\ Len(<<Head(t)>>) = 1 /\ <<Head(t)>>[1] = Head(t)
    OBVIOUS
  <2>2. /\ <<Head(t)>> \o Tail(t) \in Seq(S)
        /\ Len(<<Head(t)>> \o Tail(t)) = 1 + Len(Tail(t))
        /\ \A i \in 1..(1 + Len(Tail(t))) : (<<Head(t)>> \o Tail(t))[i] =
               IF i <= 1 THEN Head(t) ELSE Tail(t)[i - 1]
    BY <1>1, <2>1, ConcatProperties
  <2>3. /\ Len(t) \in Nat /\ Len(Tail(t)) = Len(t) - 1 /\ Head(t) = t[1]
        /\ \A i \in 1..Len(Tail(t)) : Tail(t)[i] = t[i + 1]
    BY SeqFacts
  <2>4. \A i \in 1..Len(t) : t[i] = (<<Head(t)>> \o Tail(t))[i]
    BY <2>2, <2>3
  <2>5. QED
    BY <2>2, <2>3, <2>4, SeqEqual
<1>3. Append(s, Head(t)) = s \o <<Head(t)>>
  BY <1>1, AppendIsConcat
<1>4. QED
  BY <1>1, <1>2, <1>3, ConcatAssociative

(* In a sequence without duplicates the head of the second part is not in    *)
(* the first.                                                               *)
LEMMA HeadIsNew ==
  ASSUME NEW S, NEW s \in Seq(S), NEW t \in Seq(S), t # <<>>, Distinct(s \o t)
  PROVE  Head(t) \notin Elems(s)
<1>1. /\ Len(s) \in Nat /\ Len(t) \in Nat /\ Len(t) # 0 /\ Head(t) = t[1]
  BY SeqFacts
<1>2. /\ Len(s \o t) = Len(s) + Len(t)
      /\ \A i \in 1..Len(s) + Len(t) :
           (s \o t)[i] = IF i <= Len(s) THEN s[i] ELSE t[i - Len(s)]
  BY ConcatProperties
<1>3. /\ Len(s) + 1 \in 1..Len(s \o t)
      /\ (s \o t)[Len(s) + 1] = Head(t)
  BY <1>1, <1>2
<1>4. \A i \in 1..Len(s) : i \in 1..Len(s \o t) /\ (s \o t)[i] = s[i]
  BY <1>1, <1>2
<1>5. \A i \in 1..Len(s) : s[i] # Head(t)
  <2>1. SUFFICES ASSUME NEW i \in 1..Len(s), s[i] = Head(t) PROVE FALSE
    OBVIOUS
  <2>2. i = Len(s) + 1
    BY <1>3, <1>4, <2>1 DEF Distinct
  <2>3. QED
    BY <1>1, <2>2
<1>6. QED
  BY <1>5 DEF Elems

LEMMA TailElems ==
  ASSUME NEW S, NEW s \in Seq(S), s # <<>>
  PROVE  Head(s) \in Elems(s) /\ Elems(Tail(s)) \subseteq Elems(s)
<1>1. /\ Len(s) \in Nat /\ Len(s) # 0 /\ Head(s) = s[1]
      /\ Len(Tail(s)) = Len(s) - 1
      /\ \A i \in 1..Len(Tail(s)) : Tail(s)[i] = s[i + 1]
  BY SeqFacts
<1>2. Head(s) \in Elems(s)
  BY <1>1 DEF Elems
<1>3. ASSUME NEW i \in 1..Len(Tail(s)) PROVE Tail(s)[i] \in Elems(s)
  <2>1. i + 1 \in 1..Len(s) /\ Tail(s)[i] = s[i + 1]
    BY <1>1
  <2>2. QED
    BY <2>1 DEF Elems
<1>4. QED
  BY <1>2, <1>3 DEF Elems

LEMMA AppendConcat ==
  ASSUME NEW S, NEW s \in Seq(S), NEW t \in Seq(S), NEW e \in S
  PROVE  s \o Append(t, e) = Append(s \o t, e)
<1>1. /\ <<e>> \in Seq(S) /\ s \o t \in Seq(S)
      /\ Append(t, e) = t \o <<e>>
  BY ConcatProperties, AppendIsConcat
<1>2. Append(s \o t, e) = (s \o t) \o <<e>>
  BY <1>1, AppendIsConcat
<1>3. QED
  BY <1>1, <1>2, ConcatAssociative

LEMMA TailConcat ==
  ASSUME NEW S, NEW s \in Seq(S), NEW t \in Seq(S), s # <<>>
  PROVE  /\ s \o t # <<>> /\ Head(s \o t) = Head(s)
         /\ Tail(s) \o t = Tail(s \o t)
<1>1. /\ Len(s) \in Nat /\ Len(s) # 0 /\ Len(t) \in Nat
      /\ Head(s) = s[1] /\ Tail(s) \in Seq(S) /\ Len(Tail(s)) = Len(s) - 1
      /\ \A i \in 1..Len(Tail(s)) : Tail(s)[i] = s[i + 1]
  BY SeqFacts
<1>2. /\ s \o t \in Seq(S) /\ Len(s \o t) = Len(s) + Len(t)
      /\ \A i \in 1..Len(s) + Len(t) :
           (s \o t)[i] = IF i <= Len(s) THEN s[i] ELSE t[i - Len(s)]
  BY ConcatProperties
<1>3. s \o t # <<>>
  BY <1>1, <1>2, SeqFacts
<1>4. /\ Head(s \o t) = (s \o t)[1]
      /\ Tail(s \o t) \in Seq(S) /\ Len(Tail(s \o t)) = Len(s \o t) - 1
      /\ \A i \in 1..Len(Tail(s \o t)) : Tail(s \o t)[i] = (s \o t)[i + 1]
  BY <1>2, <1>3, SeqFacts
<1>5. Head(s \o t) = Head(s)
  BY <1>1, <1>2, <1>4
<1>6. /\ Tail(s) \o t \in Seq(S) /\ Len(Tail(s) \o t) = Len(Tail(s)) + Len(t)
      /\ \A i \in 1..Len(Tail(s)) + Len(t) :
           (Tail(s) \o t)[i] = IF i <= Len(Tail(s)) THEN Tail(s)[i]
                               ELSE t[i - Len(Tail(s))]
  BY <1>1, ConcatProperties
<1>7. Len(Tail(s) \o t) = Len(Tail(s \o t))
  BY <1>1, <1>2, <1>4, <1>6
<1>8. ASSUME NEW i \in 1..Len(Tail(s) \o t)
      PROVE  (Tail(s) \o t)[i] = Tail(s \o t)[i]
  <2>1. /\ i \in Nat /\ i \in 1..Len(Tail(s)) + Len(t)
        /\ i \in 1..Len(Tail(s \o t)) /\ i + 1 \in 1..Len(s) + Len(t)
    BY <1>1, <1>2, <1>4, <1>6
  <2>2. Tail(s \o t)[i] = IF i + 1 <= Len(s) THEN s[i + 1] ELSE t[i + 1 - Len(s)]
    BY <1>2, <1>4, <2>1
  <2>3. CASE i <= Len(s) - 1
    <3>1. i \in 1..Len(Tail(s)) /\ i + 1 <= Len(s)
      BY <1>1, <2>1, <2>3
    <3>2. QED
      BY <1>1, <1>6, <2>1, <2>2, <3>1
  <2>4. CASE i > Len(s) - 1
    <3>1. ~(i <= Len(Tail(s))) /\ ~(i + 1 <= Len(s))
          /\ i - Len(Tail(s)) = i + 1 - Len(s)
      BY <1>1, <2>1, <2>4
    <3>2. QED
      BY <1>6, <2>1, <2>2, <3>1
  <2>5. QED
    BY <1>1, <2>1, <2>3, <2>4
<1>9. Tail(s) \o t = Tail(s \o t)
  BY <1>4, <1>6, <1>7, <1>8, SeqEqual
<1>10. QED
  BY <1>3, <1>5, <1>9

LEMMA ElemsConcat ==
  ASSUME NEW S, NEW s \in Seq(S), NEW t \in Seq(S)
  PROVE  Elems(s \o t) = Elems(s) \cup Elems(t)
<1>1. /\ Len(s) \in Nat /\ Len(t) \in Nat /\ Len(s \o t) = Len(s) + Len(t)
      /\ \A i \in 1..Len(s) + Len(t) :
           (s \o t)[i] = IF i <= Len(s) THEN s[i] ELSE t[i - Len(s)]
  BY SeqFacts, ConcatProperties
<1>2. ASSUME NEW x \in Elems(s \o t) PROVE x \in Elems(s) \cup Elems(t)
  <2>1. PICK i \in 1..Len(s) + Len(t) : x = (s \o t)[i]
    BY <1>1 DEF Elems
  <2>2. CASE i <= Len(s)
    <3>1. i \in 1..Len(s) /\ x = s[i]
      BY <1>1, <2>1, <2>2
    <3>2. QED
      BY <3>1 DEF Elems
  <2>3. CASE ~(i <= Len(s))
    <3>1. i - Len(s) \in 1..Len(t) /\ x = t[i - Len(s)]
      BY <1>1, <2>1, <2>3
    <3>2. QED
      BY <3>1 DEF Elems
  <2>4. QED
    BY <2>2, <2>3
<1>3. ASSUME NEW i \in 1..Len(s) PROVE s[i] \in Elems(s \o t)
  <2>1. i \in 1..Len(s \o t) /\ (s \o t)[i] = s[i]
    BY <1>1
  <2>2. QED
    BY <2>1 DEF Elems
<1>4. ASSUME NEW i \in 1..Len(t) PROVE t[i] \in Elems(s \o t)
  <2>1. i + Len(s) \in 1..Len(s \o t) /\ (s \o t)[i + Len(s)] = t[i]
    BY <1>1
  <2>2. QED
    BY <2>1 DEF Elems
<1>5. Elems(s) \subseteq Elems(s \o t) /\ Elems(t) \subseteq Elems(s \o t)
  BY <1>3, <1>4 DEF Elems
<1>6. QED
  BY <1>2, <1>5

(* Where the elements of H are in a list.                                   *)
Spots(s, H) == {i \in 1..Len(s) : s[i] \in H}
Single(S) == \E i : S = {i}

LEMMA SpotsAppend ==
  ASSUME NEW S, NEW s \in Seq(S), NEW x \in S, NEW H
  PROVE  Spots(Append(s, x), H) = IF x \in H THEN Spots(s, H) \cup {Len(s) + 1}
                                  ELSE Spots(s, H)
<1>1. /\ Len(s) \in Nat /\ Len(Append(s, x)) = Len(s) + 1
      /\ \A i \in 1..Len(s) : Append(s, x)[i] = s[i]
      /\ Append(s, x)[Len(s) + 1] = x
  BY SeqFacts
<1>2. QED
  BY <1>1 DEF Spots

LEMMA SpotsTail ==
  ASSUME NEW S, NEW s \in Seq(S), s # <<>>, NEW H
  PROVE  /\ Spots(s, H) = {} => Spots(Tail(s), H) = {}
         /\ Single(Spots(s, H)) /\ Head(s) \in H => Spots(Tail(s), H) = {}
         /\ Single(Spots(s, H)) /\ Head(s) \notin H => Single(Spots(Tail(s), H))
<1>1. /\ Tail(s) \in Seq(S) /\ Len(s) \in Nat \ {0}
      /\ Len(Tail(s)) = Len(s) - 1 /\ Head(s) = s[1]
      /\ \A i \in 1..Len(Tail(s)) : Tail(s)[i] = s[i + 1]
  BY SeqFacts
<1>2. Spots(Tail(s), H) = {i \in 1..(Len(s) - 1) : i + 1 \in Spots(s, H)}
  BY <1>1 DEF Spots
<1>3. 1 \in Spots(s, H) <=> Head(s) \in H
  BY <1>1 DEF Spots
<1>4. Spots(s, H) \subseteq 1..Len(s)
  BY DEF Spots
<1>5. ASSUME Single(Spots(s, H))
      PROVE  \/ Spots(s, H) = {1} /\ Spots(Tail(s), H) = {}
             \/ 1 \notin Spots(s, H) /\ Single(Spots(Tail(s), H))
  <2>1. PICK k \in 1..Len(s) : Spots(s, H) = {k}
    BY <1>4, <1>5 DEF Single
  <2>2. CASE k = 1
    BY <1>1, <1>2, <2>1, <2>2
  <2>3. CASE k # 1
    <3>1. Spots(Tail(s), H) = {k - 1}
      BY <1>1, <1>2, <2>1, <2>3
    <3>2. QED
      BY <2>1, <2>3, <3>1 DEF Single
  <2>4. QED
    BY <2>2, <2>3
<1>6. QED
  BY <1>2, <1>3, <1>5

LEMMA SpotsConcat ==
  ASSUME NEW S, NEW s \in Seq(S), NEW t \in Seq(S), NEW H
  PROVE  /\ Spots(t, H) = {} => Spots(s \o t, H) = Spots(s, H)
         /\ Spots(s, H) = {} /\ Single(Spots(t, H)) => Single(Spots(s \o t, H))
<1>1. /\ Len(s) \in Nat /\ Len(t) \in Nat /\ Len(s \o t) = Len(s) + Len(t)
      /\ \A i \in 1..Len(s) + Len(t) :
           (s \o t)[i] = IF i <= Len(s) THEN s[i] ELSE t[i - Len(s)]
  BY SeqFacts, ConcatProperties
<1>2. Spots(s \o t, H) = Spots(s, H) \cup {i \in (Len(s) + 1)..(Len(s) + Len(t)) :
                                             i - Len(s) \in Spots(t, H)}
  BY <1>1 DEF Spots
<1>3. ASSUME Spots(s, H) = {}, Single(Spots(t, H)) PROVE Single(Spots(s \o t, H))
  <2>1. PICK k : Spots(t, H) = {k}
    BY <1>3 DEF Single
  <2>2. k \in 1..Len(t)
    BY <2>1 DEF Spots
  <2>3. Spots(s \o t, H) = {Len(s) + k}
    BY <1>1, <1>2, <1>3, <2>1, <2>2
  <2>4. QED
    BY <2>3 DEF Single
<1>4. QED
  BY <1>2, <1>3

(* The least number of a set of natural numbers. *)
LEMMA LeastNumber ==
  ASSUME NEW S \in SUBSET Nat, S # {}
  PROVE  \E m \in S : \A n \in S : m <= n
<1> DEFINE Less == {ss \in Nat \X Nat : ss[1] < ss[2]}
<1>1. IsWellFoundedOn(Less, Nat)
  BY NatLessThanWellFounded DEF OpToRel
<1> HIDE DEF Less
<1>2. PICK m \in S : \A n \in S : <<n, m>> \notin Less
  BY <1>1, WFMin
<1>3. ASSUME NEW n \in S PROVE m <= n
  <2>1. ~ (n < m)
    BY <1>2 DEF Less
  <2>2. QED
    BY <2>1
<1>4. QED
  BY <1>3
=============================================================================
