------------------------- MODULE ControlSessionProofs -------------------------
(***************************************************************************)
(* Proofs about ControlSession and FileTree, for any names, any arguments  *)
(* and any size of the file system.                                        *)
(*                                                                         *)
(* Paths are walked, and directories made, by recursive functions.  What   *)
(* these compute is shown by an induction in the form of a set that has 0  *)
(* and with each number the next; it follows from WFMin.                   *)
(***************************************************************************)
EXTENDS ControlSession, Integers, SequenceTheorems, WellFoundedInduction, TLAPS

-------------------------------------------------------------------------------
(* Induction, and functions defined by it.                                 *)

LEMMA NaturalInduction ==
    ASSUME NEW S, 0 \in S, \A n \in Nat : n \in S => n + 1 \in S
    PROVE  Nat \subseteq S
<1> DEFINE less == OpToRel(<, Nat)
           others == Nat \ S
<1>1. IsWellFoundedOn(less, Nat)
  BY NatLessThanWellFounded DEF OpToRel
<1>2. \A x, y \in Nat : x < y => <<x, y>> \in less
  BY DEF OpToRel
<1> HIDE DEF less
<1> SUFFICES ASSUME others # {} PROVE FALSE
  OBVIOUS
<1>3. PICK x \in others : \A y \in others : <<y, x>> \notin less
  <2>1. others \subseteq Nat
    OBVIOUS
  <2> HIDE DEF others
  <2> QED BY <1>1, <2>1, WFMin
<1>4. x # 0 /\ x - 1 \in Nat /\ x - 1 < x /\ x = (x - 1) + 1
  OBVIOUS
<1>5. x - 1 \notin others
  BY <1>2, <1>3, <1>4
<1> QED BY <1>4, <1>5

LEMMA FrontAndLast ==
    ASSUME NEW S, NEW p \in Seq(S), p # <<>>
    PROVE  /\ Front(p) \in Seq(S) /\ Last(p) \in S
           /\ Len(Front(p)) = Len(p) - 1 /\ Len(p) \in Nat /\ Len(p) > 0
           /\ \A i \in 1 .. Len(p) - 1 : Front(p)[i] = p[i]
           /\ p = Append(Front(p), Last(p))
<1>1. Len(p) \in Nat /\ Len(p) > 0 /\ \A i \in 1 .. Len(p) : p[i] \in S
  BY EmptySeq, ElementOfSeq
<1>2. /\ Front(p) \in Seq(S) /\ Len(Front(p)) = Len(p) - 1
      /\ \A i \in 1 .. Len(p) - 1 : Front(p)[i] = p[i]
  <2>1. \A i \in 1 .. Len(p) - 1 : p[i] \in S
    BY <1>1
  <2> DEFINE f == SubSeq(p, 1, Len(p) - 1)
  <2>2. /\ f \in Seq(S)
        /\ Len(f) = IF 1 <= Len(p) - 1 THEN Len(p) - 1 - 1 + 1 ELSE 0
        /\ \A i \in 1 .. Len(p) - 1 - 1 + 1 : f[i] = p[1 + i - 1]
    BY <1>1, <2>1, SubSeqProperties
  <2> HIDE DEF f
  <2>3. /\ f \in Seq(S) /\ Len(f) = Len(p) - 1
        /\ \A i \in 1 .. Len(p) - 1 : f[i] = p[i]
    <3>1. Len(f) = Len(p) - 1
      <4>1. CASE 1 <= Len(p) - 1
        BY <1>1, <2>2, <4>1
      <4>2. CASE ~(1 <= Len(p) - 1)
        <5>1. PICK n \in Nat : n = Len(p)
          BY <1>1
        <5>2. n = 1
          BY <1>1, <4>2, <5>1
        <5> QED BY <2>2, <4>2, <5>1, <5>2
      <4> QED BY <4>1, <4>2
    <3>2. \A i \in 1 .. Len(p) - 1 : i \in 1 .. Len(p) - 1 - 1 + 1 /\ 1 + i - 1 = i
      BY <1>1
    <3> QED BY <2>2, <3>1, <3>2
  <2> QED BY <2>3 DEF f, Front
<1>3. Last(p) \in S
  BY <1>1 DEF Last
<1> DEFINE q == Append(Front(p), Last(p))
<1>4. /\ q \in Seq(S) /\ Len(q) = Len(p)
      /\ \A i \in 1 .. Len(p) - 1 : q[i] = p[i]
      /\ q[Len(p)] = Last(p)
  BY <1>1, <1>2, <1>3, AppendProperties
<1>5. \A i \in 1 .. Len(p) : q[i] = p[i]
  BY <1>1, <1>4 DEF Last
<1> HIDE DEF q
<1>6. q = p
  BY <1>4, <1>5, SeqEqual
<1> QED BY <1>1, <1>2, <1>3, <1>6 DEF q

LEMMA FrontOfAppend ==
    ASSUME NEW S, NEW p \in Seq(S), NEW e \in S
    PROVE  /\ Append(p, e) \in Seq(S) /\ Append(p, e) # <<>>
           /\ Len(Append(p, e)) = Len(p) + 1
           /\ Front(Append(p, e)) = p /\ Last(Append(p, e)) = e
<1> DEFINE q == Append(p, e)
<1>1. /\ q \in Seq(S) /\ q # <<>> /\ Len(q) = Len(p) + 1 /\ q[Len(p) + 1] = e
      /\ Len(p) \in Nat
  BY AppendProperties
<1> HIDE DEF q
<1>2. Last(q) = e
  BY <1>1 DEF Last
<1>3. q = Append(Front(q), Last(q)) /\ Front(q) \in Seq(S) /\ Last(q) \in S
  BY <1>1, FrontAndLast
<1>4. Front(q) = p
  BY <1>3, <1>2, AppendInjective DEF q
<1> QED BY <1>1, <1>2, <1>4 DEF q

LEMMA SequenceInduction ==
    ASSUME NEW S, NEW G, <<>> \in G,
           \A p \in Seq(S), e \in S : p \in G => Append(p, e) \in G
    PROVE  Seq(S) \subseteq G
<1> DEFINE Lengths == {n \in Nat : \A p \in Seq(S) : Len(p) = n => p \in G}
<1>1. 0 \in Lengths
  BY EmptySeq
<1>2. ASSUME NEW n \in Nat, n \in Lengths PROVE n + 1 \in Lengths
  <2> SUFFICES ASSUME NEW p \in Seq(S), Len(p) = n + 1 PROVE p \in G
    OBVIOUS
  <2>1. p # <<>>
    BY <1>2, EmptySeq
  <2>2. /\ Front(p) \in Seq(S) /\ Last(p) \in S /\ Len(Front(p)) = n
        /\ p = Append(Front(p), Last(p))
    BY <2>1, FrontAndLast
  <2> QED BY <1>2, <2>2
<1>3. Nat \subseteq Lengths
  <2> HIDE DEF Lengths
  <2> QED BY <1>1, <1>2, NaturalInduction
<1> QED BY <1>3, LenProperties

\* A function computed from a value in as many steps as there are numbers.
Iterates(f, X, x, top, step) ==
    /\ f \in [0 .. top -> X] /\ f[0] = x
    /\ \A n \in 1 .. top : f[n] = step[n][f[n - 1]]

LEMMA Iteration ==
    ASSUME NEW X, NEW x \in X, NEW top \in Nat, NEW step \in [1 .. top -> [X -> X]]
    PROVE  \E f : Iterates(f, X, x, top, step)
<1> DEFINE Computes(f, m) == Iterates(f, X, x, m, step)
           Reached == {m \in Nat : m <= top => \E f : Computes(f, m)}
<1>1. 0 \in Reached
  <2>1. Computes([i \in 0 .. 0 |-> x], 0)
    BY DEF Iterates
  <2> QED BY <2>1
<1>2. ASSUME NEW m \in Nat, m \in Reached PROVE m + 1 \in Reached
  <2> SUFFICES ASSUME m + 1 <= top PROVE \E f : Computes(f, m + 1)
    OBVIOUS
  <2>1. PICK f : Computes(f, m)
    BY <1>2
  <2> DEFINE g == [i \in 0 .. m + 1 |-> IF i = m + 1 THEN step[m + 1][f[m]] ELSE f[i]]
  <2>2. f[m] \in X /\ m + 1 \in 1 .. top
    BY <2>1 DEF Iterates
  <2>3. step[m + 1] \in [X -> X]
    BY <2>2
  <2>4. step[m + 1][f[m]] \in X
    BY <2>2, <2>3
  <2>5. g \in [0 .. m + 1 -> X]
    BY <2>1, <2>4 DEF Iterates
  <2>6. g[0] = x
    BY <2>1 DEF Iterates
  <2>7. ASSUME NEW n \in 1 .. m + 1 PROVE g[n] = step[n][g[n - 1]]
    <3>1. CASE n = m + 1
      BY <3>1
    <3>2. CASE n # m + 1
      <4>1. n \in 1 .. m /\ n - 1 \in 0 .. m
        BY <3>2
      <4> QED BY <2>1, <4>1 DEF Iterates
    <3> QED BY <3>1, <3>2
  <2> HIDE DEF g
  <2>8. Computes(g, m + 1)
    BY <2>5, <2>6, <2>7 DEF Iterates
  <2> QED BY <2>8
<1>3. Nat \subseteq Reached
  <2> HIDE DEF Reached
  <2> QED BY <1>1, <1>2, NaturalInduction
<1> QED BY <1>3

-------------------------------------------------------------------------------
LEMMA UnderElements ==
    ASSUME NEW S, NEW p \in Seq(S), NEW top \in Seq(S)
    PROVE  /\ Len(p) \in Nat /\ Len(top) \in Nat
           /\ Under(p, top) <=>
                 Len(top) <= Len(p) /\ \A i \in 1 .. Len(top) : p[i] = top[i]
<1>1. /\ Len(p) \in Nat /\ Len(top) \in Nat
      /\ \A i \in 1 .. Len(p) : p[i] \in S
      /\ SubSeq(top, 1, Len(top)) = top
  BY ElementOfSeq, LenProperties, SubSeqFull
<1>2. CASE Len(top) <= Len(p)
  <2> DEFINE q == SubSeq(p, 1, Len(top))
  <2>1. \A i \in 1 .. Len(top) : p[i] \in S
    BY <1>1, <1>2
  <2>2. /\ q \in Seq(S) /\ Len(q) = Len(top)
        /\ \A i \in 1 .. Len(top) : q[i] = p[i]
    BY <1>1, <2>1, SubSeqProperties
  <2> HIDE DEF q
  <2>3. top = q <=> \A i \in 1 .. Len(top) : q[i] = top[i]
    BY <2>2, SeqEqual
  <2>4. Under(p, top) <=> top = q
    BY <1>1, <1>2 DEF Under, IsPrefix, q
  <2> QED BY <1>1, <1>2, <2>2, <2>3, <2>4
<1>3. CASE ~(Len(top) <= Len(p))
  BY <1>1, <1>3 DEF Under, IsPrefix
<1> QED BY <1>1, <1>2, <1>3

\* At and under a path; what is under one of two is under the other, or the
\* one is under the other.
LEMMA UnderItself == ASSUME NEW S, NEW p \in Seq(S) PROVE Under(p, p) /\ Under(p, <<>>)
<1> DEFINE none == <<>>
<1>1. none \in Seq(S) /\ Len(none) = 0
  BY EmptySeq
<1> HIDE DEF none
<1>2. Under(p, none)
  <2>1. /\ Len(p) \in Nat
        /\ Under(p, none) <=>
              Len(none) <= Len(p) /\ \A i \in 1 .. Len(none) : p[i] = none[i]
    BY <1>1, UnderElements
  <2>2. 0 <= Len(p) /\ 1 .. 0 = {}
    BY <2>1
  <2> QED BY <1>1, <2>1, <2>2
<1>3. Under(p, p)
  BY UnderElements
<1> QED BY <1>2, <1>3 DEF none

LEMMA UnderUnder ==
    ASSUME NEW S, NEW p \in Seq(S), NEW q \in Seq(S), NEW top \in Seq(S),
           Under(p, q), Under(q, top)
    PROVE  Under(p, top)
<1>1. /\ Len(q) <= Len(p) /\ \A i \in 1 .. Len(q) : p[i] = q[i]
      /\ Len(top) <= Len(q) /\ \A i \in 1 .. Len(top) : q[i] = top[i]
      /\ Len(p) \in Nat /\ Len(q) \in Nat /\ Len(top) \in Nat
  BY UnderElements
<1> QED BY <1>1, UnderElements

LEMMA UnderOneOther ==
    ASSUME NEW S, NEW p \in Seq(S), NEW q \in Seq(S), NEW r \in Seq(S),
           Under(p, q), Under(p, r)
    PROVE  Under(q, r) \/ Under(r, q)
<1>1. /\ Len(q) <= Len(p) /\ \A i \in 1 .. Len(q) : p[i] = q[i]
      /\ Len(r) <= Len(p) /\ \A i \in 1 .. Len(r) : p[i] = r[i]
      /\ Len(p) \in Nat /\ Len(q) \in Nat /\ Len(r) \in Nat
  BY UnderElements
<1> QED BY <1>1, UnderElements

LEMMA UnderEachOther ==
    ASSUME NEW S, NEW p \in Seq(S), NEW q \in Seq(S), Under(p, q), Len(p) <= Len(q)
    PROVE  p = q
  BY UnderElements, SeqEqual

LEMMA UnderFront ==
    ASSUME NEW S, NEW p \in Seq(S), p # <<>>
    PROVE  /\ Under(p, Front(p)) /\ ~Under(Front(p), p)
           /\ \A top \in Seq(S) : Under(Front(p), top) => Under(p, top)
           /\ \A top \in Seq(S) : Under(p, top) /\ p # top => Under(Front(p), top)
<1> DEFINE f == Front(p)
<1>1. /\ f \in Seq(S) /\ Len(f) = Len(p) - 1 /\ Len(p) \in Nat
      /\ \A i \in 1 .. Len(p) - 1 : f[i] = p[i]
  BY FrontAndLast
<1> HIDE DEF f
<1>2. Under(p, f) /\ ~Under(f, p)
  BY <1>1, UnderElements
<1>3. ASSUME NEW top \in Seq(S), Under(f, top) PROVE Under(p, top)
  BY <1>1, <1>2, <1>3, UnderUnder
<1>4. ASSUME NEW top \in Seq(S), Under(p, top), p # top PROVE Under(f, top)
  <2>1. /\ Len(top) <= Len(p) /\ \A i \in 1 .. Len(top) : p[i] = top[i]
        /\ Len(top) \in Nat
    BY <1>4, UnderElements
  <2>2. Len(top) # Len(p)
    BY <1>4, <2>1, UnderEachOther
  <2> QED BY <1>1, <2>1, <2>2, UnderElements
<1> QED BY <1>2, <1>3, <1>4 DEF f

LEMMA UnderFirst ==
    ASSUME NEW S, NEW p \in Seq(S), NEW e \in S
    PROVE  Under(p, <<e>>) <=> p # <<>> /\ p[1] = e
<1> DEFINE q == <<e>>
<1>1. q \in Seq(S) /\ Len(q) = 1 /\ q[1] = e
  OBVIOUS
<1>2. p # <<>> <=> Len(p) >= 1
  BY EmptySeq
<1> HIDE DEF q
<1>3. Under(p, q) <=> p # <<>> /\ p[1] = e
  BY <1>1, <1>2, UnderElements
<1> QED BY <1>3 DEF q

\* What stands under one directory, put under another.
RestOf(p, top) == SubSeq(p, Len(top) + 1, Len(p))

LEMMA Rest ==
    ASSUME NEW S, NEW p \in Seq(S), NEW top \in Seq(S), Under(p, top)
    PROVE  /\ RestOf(p, top) \in Seq(S) /\ p = top \o RestOf(p, top)
           /\ Len(RestOf(p, top)) = Len(p) - Len(top)
<1> DEFINE r == SubSeq(p, Len(top) + 1, Len(p))
           q == top \o r
<1>1. /\ Len(p) \in Nat /\ Len(top) \in Nat /\ Len(top) <= Len(p)
      /\ \A i \in 1 .. Len(top) : p[i] = top[i]
      /\ \A i \in 1 .. Len(p) : p[i] \in S
  BY UnderElements, ElementOfSeq
<1>2. \A i \in Len(top) + 1 .. Len(p) : p[i] \in S
  BY <1>1
<1>3. /\ r \in Seq(S) /\ Len(r) = Len(p) - Len(top)
      /\ \A i \in 1 .. Len(p) - Len(top) : r[i] = p[Len(top) + i]
  <2>1. /\ r \in Seq(S)
        /\ Len(r) = IF Len(top) + 1 <= Len(p) THEN Len(p) - (Len(top) + 1) + 1 ELSE 0
        /\ \A i \in 1 .. Len(p) - (Len(top) + 1) + 1 : r[i] = p[Len(top) + 1 + i - 1]
    BY <1>1, <1>2, SubSeqProperties
  <2> HIDE DEF r
  <2> QED BY <1>1, <2>1
<1> HIDE DEF r
<1>4. /\ q \in Seq(S) /\ Len(q) = Len(p)
      /\ \A i \in 1 .. Len(p) : q[i] = IF i <= Len(top) THEN top[i] ELSE r[i - Len(top)]
  <2>1. /\ q \in Seq(S) /\ Len(q) = Len(top) + Len(r)
        /\ \A i \in 1 .. Len(top) + Len(r) :
              q[i] = IF i <= Len(top) THEN top[i] ELSE r[i - Len(top)]
    BY <1>3, ConcatProperties
  <2> HIDE DEF q
  <2> QED BY <1>1, <1>3, <2>1
<1>5. \A i \in 1 .. Len(p) : q[i] = p[i]
  <2> SUFFICES ASSUME NEW i \in 1 .. Len(p) PROVE q[i] = p[i]
    OBVIOUS
  <2>1. CASE i <= Len(top)
    BY <1>1, <1>4, <2>1
  <2>2. CASE ~(i <= Len(top))
    <3>1. i - Len(top) \in 1 .. Len(p) - Len(top) /\ Len(top) + (i - Len(top)) = i
      BY <1>1, <2>2
    <3> QED BY <1>3, <1>4, <2>2, <3>1
  <2> QED BY <2>1, <2>2
<1> HIDE DEF q
<1>6. q = p
  BY <1>4, <1>5, SeqEqual
<1> QED BY <1>3, <1>6 DEF q, r, RestOf

LEMMA Joined ==
    ASSUME NEW S, NEW top \in Seq(S), NEW r \in Seq(S)
    PROVE  /\ top \o r \in Seq(S) /\ Under(top \o r, top)
           /\ RestOf(top \o r, top) = r
           /\ r # <<>> => /\ top \o r # <<>> /\ top \o r # top
                          /\ Front(top \o r) = top \o Front(r)
                          /\ Last(top \o r) = Last(r)
           /\ r = <<>> => top \o r = top
<1> DEFINE q == top \o r
<1>1. /\ q \in Seq(S) /\ Len(q) = Len(top) + Len(r)
      /\ \A i \in 1 .. Len(top) + Len(r) :
            q[i] = IF i <= Len(top) THEN top[i] ELSE r[i - Len(top)]
      /\ Len(top) \in Nat /\ Len(r) \in Nat
  BY ConcatProperties, LenProperties
<1> HIDE DEF q
<1>2. Under(q, top)
  BY <1>1, UnderElements
<1>3. /\ \A i \in 1 .. Len(r) : q[Len(top) + i] = r[i]
      /\ \A i \in 1 .. Len(top) : q[i] = top[i]
  <2> SUFFICES ASSUME NEW i \in 1 .. Len(r) PROVE q[Len(top) + i] = r[i]
    BY <1>1
  <2>1. /\ Len(top) + i \in 1 .. Len(top) + Len(r) /\ ~(Len(top) + i <= Len(top))
        /\ (Len(top) + i) - Len(top) = i
    BY <1>1
  <2> QED BY <1>1, <2>1
<1> DEFINE w == RestOf(q, top)
<1>4. /\ w \in Seq(S) /\ q = top \o w /\ Len(w) = Len(q) - Len(top)
  BY <1>1, <1>2, Rest
<1> HIDE DEF w
<1>5. w = r
  <2>1. \A i \in 1 .. Len(top) + Len(w) :
            (top \o w)[i] = IF i <= Len(top) THEN top[i] ELSE w[i - Len(top)]
    BY <1>4, ConcatProperties
  <2>2. ASSUME NEW i \in 1 .. Len(r) PROVE w[i] = r[i]
    <3>1. /\ Len(top) + i \in 1 .. Len(top) + Len(w) /\ ~(Len(top) + i <= Len(top))
          /\ (Len(top) + i) - Len(top) = i
      BY <1>1, <1>4
    <3> QED BY <1>3, <1>4, <2>1, <3>1
  <2> QED BY <1>1, <1>4, <2>2, SeqEqual
<1>6. ASSUME r # <<>>
      PROVE  q # <<>> /\ q # top /\ Front(q) = top \o Front(r) /\ Last(q) = Last(r)
  <2>1. /\ Front(r) \in Seq(S) /\ Last(r) \in S /\ Len(Front(r)) = Len(r) - 1
        /\ Len(r) > 0 /\ \A i \in 1 .. Len(r) - 1 : Front(r)[i] = r[i]
    BY <1>6, FrontAndLast
  <2>2. q # <<>> /\ q # top
    BY <1>1, <2>1, EmptySeq
  <2>3. Last(q) = Last(r)
    BY <1>1, <1>3, <2>1 DEF Last
  <2>4. /\ Front(q) \in Seq(S) /\ Len(Front(q)) = Len(q) - 1
        /\ \A i \in 1 .. Len(q) - 1 : Front(q)[i] = q[i]
    BY <1>1, <2>2, FrontAndLast
  <2> DEFINE s == top \o Front(r)
  <2>5. /\ s \in Seq(S) /\ Len(s) = Len(top) + Len(Front(r))
        /\ \A i \in 1 .. Len(top) + Len(Front(r)) :
              s[i] = IF i <= Len(top) THEN top[i] ELSE Front(r)[i - Len(top)]
    BY <2>1, ConcatProperties
  <2> HIDE DEF s
  <2>6. \A i \in 1 .. Len(q) - 1 : q[i] = s[i]
    <3> SUFFICES ASSUME NEW i \in 1 .. Len(q) - 1 PROVE q[i] = s[i]
      OBVIOUS
    <3>0. i \in 1 .. Len(top) + Len(r) /\ i \in 1 .. Len(top) + Len(Front(r))
      BY <1>1, <2>1
    <3>1. CASE i <= Len(top)
      BY <1>1, <2>5, <3>0, <3>1
    <3>2. CASE ~(i <= Len(top))
      <4>1. i - Len(top) \in 1 .. Len(r) - 1
        BY <1>1, <3>2
      <4>2. q[i] = r[i - Len(top)] /\ s[i] = Front(r)[i - Len(top)]
        BY <1>1, <2>5, <3>0, <3>2
      <4> QED BY <2>1, <4>1, <4>2
    <3> QED BY <3>1, <3>2
  <2>7. Len(s) = Len(q) - 1 /\ \A i \in 1 .. Len(s) : Front(q)[i] = s[i]
    BY <1>1, <2>1, <2>4, <2>5, <2>6
  <2>8. Front(q) = s
    BY <2>4, <2>5, <2>7, SeqEqual
  <2> QED BY <2>2, <2>3, <2>8 DEF s
<1>7. r = <<>> => q = top
  BY ConcatEmptySeq DEF q
<1> QED BY <1>1, <1>2, <1>5, <1>6, <1>7 DEF q, w

LEMMA JoinedFurther ==
    ASSUME NEW S, NEW top \in Seq(S), NEW r \in Seq(S), r # <<>>
    PROVE  /\ top \o r # <<>> /\ top \o r # top
           /\ Front(top \o r) = top \o Front(r) /\ Last(top \o r) = Last(r)
  BY Joined

-------------------------------------------------------------------------------
(* Trees, and where paths lead in them.                                    *)

\* The files that the server makes for an upload.
Made == {Part, Converted}

Plain == Names \cup {"srv", "srvold", "old"} \cup Made
Visible == Plain \ Made
Text == Plain \cup Dots \cup {""}

Trees == UNION {[D -> {"dir", "file"}] : D \in SUBSET Seq(Plain)}

LEMMA OneName ==
    ASSUME NEW S, NEW e \in S
    PROVE  <<e>> \in Seq(S) /\ Len(<<e>>) = 1 /\ <<e>>[1] = e /\ <<e>> # <<>>
  OBVIOUS

LEMMA PlainText ==
    /\ Plain \subseteq Text /\ Visible \subseteq Plain /\ Plain \cap Dots = {}
    /\ Seq(Visible) \subseteq Seq(Plain) /\ Seq(Plain) \subseteq Seq(Text)
    /\ NoPath \in Seq(Text) /\ NoPath \notin Seq(Plain) /\ NoPath # <<>>
    /\ Root \in Seq(Visible) /\ Len(Root) = 1 /\ Root[1] = "srv"
    /\ Root # NoPath /\ Root # <<>> /\ <<>> \in Seq(Visible)
    /\ Made \subseteq Plain /\ "srv" \notin Made
<1>1. Plain \subseteq Text /\ Visible \subseteq Plain
  BY DEF Plain, Visible, Text
<1>2. /\ "" \notin Plain /\ Plain \cap Dots = {} /\ "" \in Text /\ "srv" \in Visible
      /\ Made \subseteq Plain /\ "srv" \notin Made
  BY NamesAssumption DEF Plain, Text, Dots, Made, Part, Converted, Visible
<1>3. Seq(Visible) \subseteq Seq(Plain) /\ Seq(Plain) \subseteq Seq(Text)
  BY <1>1, SeqMonotonic
<1>4. NoPath \in Seq(Text) /\ Len(NoPath) = 1 /\ NoPath[1] = "" /\ NoPath # <<>>
  BY <1>2, OneName DEF NoPath
<1>5. Root \in Seq(Visible) /\ Len(Root) = 1 /\ Root[1] = "srv" /\ Root # <<>>
  BY <1>2, OneName DEF Root
<1>6. NoPath \notin Seq(Plain)
  <2> SUFFICES ASSUME NoPath \in Seq(Plain) PROVE FALSE
    OBVIOUS
  <2>1. \A p \in Seq(Plain) : Len(p) = 1 => p[1] \in Plain
    BY ElementOfSeq
  <2>2. NoPath[1] \in Plain
    BY <1>4, <2>1
  <2> QED BY <1>2, <1>4, <2>2
<1>7. <<>> \in Seq(Visible)
  BY EmptySeq
<1>8. Root # NoPath
  BY <1>3, <1>5, <1>6
<1> QED BY <1>1, <1>2, <1>3, <1>4, <1>5, <1>6, <1>7, <1>8

LEMMA TreePaths ==
    ASSUME NEW t \in Trees, NEW p \in DOMAIN t
    PROVE  p \in Seq(Plain) /\ p \in Seq(Text) /\ p # NoPath /\ t[p] \in {"dir", "file"}
<1>1. p \in Seq(Plain) /\ t[p] \in {"dir", "file"}
  BY DEF Trees
<1> QED BY <1>1, PlainText

Led(t) == DOMAIN t \cup {NoPath}

LEMMA LedInto ==
    ASSUME NEW t \in Trees, WellFormed(t), NEW at \in Led(t), NEW name
    PROVE  Into(t, at, name) \in Led(t)
  BY DEF Led, Into, WellFormed, IsDirAt

\* A path leads to a place, in steps.
Leads(t, p, place) ==
    \E to \in [0 .. Len(p) -> Led(t)] :
        /\ to[0] = <<>> /\ \A n \in 1 .. Len(p) : to[n] = Into(t, to[n - 1], p[n])
        /\ place = to[Len(p)]

LEMMA OneLead ==
    ASSUME NEW t, NEW p \in Seq(Text), NEW a, NEW b, Leads(t, p, a), Leads(t, p, b)
    PROVE  a = b
<1> DEFINE Steps(to) ==
              to[0] = <<>> /\ \A n \in 1 .. Len(p) : to[n] = Into(t, to[n - 1], p[n])
<1>0. Len(p) \in Nat
  OBVIOUS
<1>1. PICK to \in [0 .. Len(p) -> Led(t)] : Steps(to) /\ a = to[Len(p)]
  BY DEF Leads
<1>2. PICK so \in [0 .. Len(p) -> Led(t)] : Steps(so) /\ b = so[Len(p)]
  BY DEF Leads
<1> DEFINE Same == {n \in Nat : n <= Len(p) => to[n] = so[n]}
<1>3. 0 \in Same
  BY <1>1, <1>2
<1>4. ASSUME NEW n \in Nat, n \in Same PROVE n + 1 \in Same
  <2> SUFFICES ASSUME n + 1 <= Len(p) PROVE to[n + 1] = so[n + 1]
    OBVIOUS
  <2>1. n + 1 \in 1 .. Len(p) /\ (n + 1) - 1 = n /\ to[n] = so[n]
    BY <1>0, <1>4
  <2> QED BY <1>1, <1>2, <2>1
<1>5. Nat \subseteq Same
  <2> HIDE DEF Same
  <2> QED BY <1>3, <1>4, NaturalInduction
<1> QED BY <1>0, <1>1, <1>2, <1>5

LEMMA LeadsFurther ==
    ASSUME NEW t \in Trees, WellFormed(t), NEW p \in Seq(Text), NEW e \in Text,
           NEW place, Leads(t, p, place)
    PROVE  Leads(t, Append(p, e), Into(t, place, e))
<1> DEFINE q == Append(p, e)
<1>1. /\ Len(p) \in Nat /\ Len(q) = Len(p) + 1 /\ q[Len(p) + 1] = e
      /\ \A i \in 1 .. Len(p) : q[i] = p[i]
  BY AppendProperties
<1>2. PICK to \in [0 .. Len(p) -> Led(t)] :
          /\ to[0] = <<>> /\ \A n \in 1 .. Len(p) : to[n] = Into(t, to[n - 1], p[n])
          /\ place = to[Len(p)]
  BY DEF Leads
<1> DEFINE so == [n \in 0 .. Len(p) + 1 |->
                    IF n = Len(p) + 1 THEN Into(t, place, e) ELSE to[n]]
<1>3. place \in Led(t) /\ Into(t, place, e) \in Led(t)
  <2>1. Len(p) \in 0 .. Len(p)
    BY <1>1
  <2>2. place \in Led(t)
    BY <1>2, <2>1
  <2> QED BY <2>2, LedInto
<1>4. so \in [0 .. Len(p) + 1 -> Led(t)]
  BY <1>1, <1>2, <1>3
<1>5. /\ so[Len(p) + 1] = Into(t, place, e)
      /\ \A n \in 0 .. Len(p) : so[n] = to[n]
  BY <1>1
<1> HIDE DEF so, q
<1>6. ASSUME NEW n \in 1 .. Len(p) + 1 PROVE so[n] = Into(t, so[n - 1], q[n])
  <2>1. CASE n = Len(p) + 1
    <3>1. n - 1 = Len(p) /\ n - 1 \in 0 .. Len(p)
      BY <1>1, <2>1
    <3> QED BY <1>1, <1>2, <1>5, <2>1, <3>1
  <2>2. CASE n # Len(p) + 1
    <3>1. n \in 1 .. Len(p) /\ n - 1 \in 0 .. Len(p) /\ n \in 0 .. Len(p)
      BY <1>1, <2>2
    <3> QED BY <1>1, <1>2, <1>5, <3>1
  <2> QED BY <2>1, <2>2
<1>7. so[0] = <<>>
  BY <1>1, <1>2, <1>5
<1> QED BY <1>1, <1>4, <1>5, <1>6, <1>7 DEF Leads, q

LEMMA WalkLeads ==
    ASSUME NEW t \in Trees, WellFormed(t), NEW p \in Seq(Text), p \notin DOMAIN t
    PROVE  Leads(t, p, Walk(t, p))
<1> DEFINE to[n \in 0 .. Len(p)] == IF n = 0 THEN <<>> ELSE Into(t, to[n - 1], p[n])
           step == [n \in 1 .. Len(p) |-> [at \in Led(t) |-> Into(t, at, p[n])]]
<1>1. Len(p) \in Nat /\ <<>> \in Led(t)
  BY DEF Led, WellFormed, IsDirAt
<1>2. step \in [1 .. Len(p) -> [Led(t) -> Led(t)]]
  BY LedInto
<1>3. \A n \in 1 .. Len(p), at \in Led(t) : step[n][at] = Into(t, at, p[n])
  OBVIOUS
<1> HIDE DEF step, to
<1>4. PICK f \in [0 .. Len(p) -> Led(t)] :
          f[0] = <<>> /\ \A n \in 1 .. Len(p) : f[n] = step[n][f[n - 1]]
  <2>1. \E f : Iterates(f, Led(t), <<>>, Len(p), step)
    BY <1>1, <1>2, Iteration
  <2> QED BY <2>1 DEF Iterates
<1>5. ASSUME NEW n \in 1 .. Len(p) PROVE f[n] = Into(t, f[n - 1], p[n])
  <2>1. n - 1 \in 0 .. Len(p)
    BY <1>1
  <2>2. f[n - 1] \in Led(t)
    BY <1>4, <2>1
  <2> QED BY <1>3, <1>4, <2>2
<1>6. f = [n \in 0 .. Len(p) |-> IF n = 0 THEN <<>> ELSE Into(t, f[n - 1], p[n])]
  <2>1. \A n \in 0 .. Len(p) : n # 0 => n \in 1 .. Len(p)
    BY <1>1
  <2> QED BY <1>4, <1>5, <2>1
<1>7. to = [n \in 0 .. Len(p) |-> IF n = 0 THEN <<>> ELSE Into(t, to[n - 1], p[n])]
  BY <1>6 DEF to
<1>8. to[Len(p)] = Walk(t, p)
  BY DEF Walk, to
<1>9. \A n \in 1 .. Len(p) : to[n] = Into(t, to[n - 1], p[n])
  BY <1>1, <1>7
<1>10. to[0] = <<>>
  BY <1>1, <1>7
<1> DEFINE Typed == {n \in Nat : n <= Len(p) => to[n] \in Led(t)}
<1>11. 0 \in Typed
  BY <1>1, <1>10
<1>12. ASSUME NEW n \in Nat, n \in Typed PROVE n + 1 \in Typed
  <2> SUFFICES ASSUME n + 1 <= Len(p) PROVE to[n + 1] \in Led(t)
    OBVIOUS
  <2>1. n + 1 \in 1 .. Len(p) /\ (n + 1) - 1 = n /\ to[n] \in Led(t)
    BY <1>1, <1>12
  <2> QED BY <1>9, <2>1, LedInto
<1>13. Nat \subseteq Typed
  <2> HIDE DEF Typed
  <2> QED BY <1>11, <1>12, NaturalInduction
<1>14. to \in [0 .. Len(p) -> Led(t)]
  <2>1. \A n \in 0 .. Len(p) : n \in Nat /\ n <= Len(p)
    BY <1>1
  <2>2. \A n \in 0 .. Len(p) : to[n] \in Led(t)
    BY <1>13, <2>1
  <2>3. to = [n \in 0 .. Len(p) |-> to[n]]
    BY <1>7
  <2> QED BY <2>2, <2>3
<1> QED BY <1>8, <1>9, <1>10, <1>14 DEF Leads

\* A path leads where its parent leads, and from there into its last name.
LEMMA WalkStart ==
    ASSUME NEW t \in Trees, WellFormed(t)
    PROVE  Walk(t, <<>>) = <<>> /\ Leads(t, <<>>, <<>>)
<1>1. <<>> \in DOMAIN t
  BY DEF WellFormed, IsDirAt
<1> DEFINE to == [n \in 0 .. 0 |-> <<>>]
<1>2. to \in [0 .. 0 -> Led(t)] /\ to[0] = <<>> /\ 1 .. 0 = {}
  BY <1>1 DEF Led
<1>3. Len(<<>>) = 0
  BY EmptySeq
<1> HIDE DEF to
<1> QED BY <1>1, <1>2, <1>3 DEF Walk, Leads

LEMMA WalkAlwaysLeads ==
    ASSUME NEW t \in Trees, WellFormed(t), NEW p \in Seq(Text)
    PROVE  Leads(t, p, Walk(t, p)) /\ Walk(t, p) \in Led(t)
<1> DEFINE G == {q \in Seq(Text) : q \in DOMAIN t => Leads(t, q, q)}
<1>1. <<>> \in G
  BY WalkStart, EmptySeq
<1>2. ASSUME NEW q \in Seq(Text), NEW e \in Text, q \in G PROVE Append(q, e) \in G
  <2>1. /\ Append(q, e) \in Seq(Text) /\ Append(q, e) # <<>>
        /\ Front(Append(q, e)) = q /\ Last(Append(q, e)) = e
    BY FrontOfAppend
  <2> SUFFICES ASSUME Append(q, e) \in DOMAIN t PROVE Leads(t, Append(q, e), Append(q, e))
    BY <2>1
  <2>2. IsDirAt(t, q) /\ e \notin Dots
    BY <2>1 DEF WellFormed
  <2>3. Leads(t, q, q)
    BY <1>2, <2>2 DEF IsDirAt
  <2>4. Into(t, q, e) = Append(q, e)
    BY <2>2 DEF Into, Dots
  <2> QED BY <2>3, <2>4, LeadsFurther
<1>3. Seq(Text) \subseteq G
  <2> HIDE DEF G
  <2> QED BY <1>1, <1>2, SequenceInduction
<1>4. Leads(t, p, Walk(t, p))
  <2>1. CASE p \in DOMAIN t
    <3>1. Walk(t, p) = p
      BY <2>1 DEF Walk
    <3> QED BY <1>3, <2>1, <3>1
  <2>2. CASE p \notin DOMAIN t
    BY <2>2, WalkLeads
  <2> QED BY <2>1, <2>2
<1>5. Walk(t, p) \in Led(t)
  <2>1. Len(p) \in 0 .. Len(p)
    BY LenProperties
  <2> QED BY <1>4, <2>1 DEF Leads
<1> QED BY <1>4, <1>5

LEMMA WalkFurther ==
    ASSUME NEW t \in Trees, WellFormed(t), NEW p \in Seq(Text), NEW e \in Text
    PROVE  Walk(t, Append(p, e)) = Into(t, Walk(t, p), e)
<1>1. Append(p, e) \in Seq(Text)
  BY AppendProperties
<1>2. /\ Leads(t, Append(p, e), Walk(t, Append(p, e)))
      /\ Leads(t, Append(p, e), Into(t, Walk(t, p), e))
  BY <1>1, WalkAlwaysLeads, LeadsFurther
<1> QED BY <1>1, <1>2, OneLead

LEMMA WalkFront ==
    ASSUME NEW t \in Trees, WellFormed(t), NEW p \in Seq(Text), p # <<>>
    PROVE  Walk(t, p) = Into(t, Walk(t, Front(p)), Last(p))
<1>1. Front(p) \in Seq(Text) /\ Last(p) \in Text /\ p = Append(Front(p), Last(p))
  BY FrontAndLast
<1>2. Walk(t, Append(Front(p), Last(p))) = Into(t, Walk(t, Front(p)), Last(p))
  BY <1>1, WalkFurther
<1> QED BY <1>1, <1>2

\* Without dots, a path that exists leads to itself.
LEMMA WalkPlain ==
    ASSUME NEW t \in Trees, WellFormed(t), NEW p \in Seq(Plain)
    PROVE  Walk(t, p) = IF p \in DOMAIN t THEN p ELSE NoPath
<1> DEFINE G == {q \in Seq(Plain) : Walk(t, q) = IF q \in DOMAIN t THEN q ELSE NoPath}
<1>1. <<>> \in G
  BY WalkStart, EmptySeq DEF WellFormed, IsDirAt
<1>2. ASSUME NEW q \in Seq(Plain), NEW e \in Plain, q \in G PROVE Append(q, e) \in G
  <2>1. Append(q, e) \in Seq(Plain) /\ q \in Seq(Text) /\ e \in Text /\ e \notin Dots
    BY AppendProperties, PlainText
  <2>2. Walk(t, Append(q, e)) = Into(t, Walk(t, q), e)
    BY <2>1, WalkFurther
  <2>3. CASE Append(q, e) \in DOMAIN t
    BY <2>1, <2>3 DEF Walk
  <2>4. CASE Append(q, e) \notin DOMAIN t
    <3>1. NoPath \notin DOMAIN t
      BY TreePaths
    <3> QED BY <1>2, <2>1, <2>2, <2>4, <3>1 DEF Into, IsDirAt, Dots
  <2> QED BY <2>1, <2>3, <2>4
<1>3. Seq(Plain) \subseteq G
  <2> HIDE DEF G
  <2> QED BY <1>1, <1>2, SequenceInduction
<1> QED BY <1>3

\* A walk meets no names but those of the path.
LEMMA WalkVisible ==
    ASSUME NEW t \in Trees, WellFormed(t), NEW p \in Seq(Visible \cup Dots)
    PROVE  Walk(t, p) \in Seq(Visible) \cup {NoPath}
<1> DEFINE Names2 == Visible \cup Dots
           G == {q \in Seq(Names2) : Walk(t, q) \in Seq(Visible) \cup {NoPath}}
<1>0. Names2 \subseteq Text
  BY PlainText DEF Text
<1>1. <<>> \in G
  BY WalkStart, EmptySeq
<1>2. ASSUME NEW q \in Seq(Names2), NEW e \in Names2, q \in G PROVE Append(q, e) \in G
  <2> DEFINE w == Walk(t, q)
  <2>1. Append(q, e) \in Seq(Names2) /\ q \in Seq(Text) /\ e \in Text
    BY <1>0, AppendProperties, SeqMonotonic
  <2>2. Walk(t, Append(q, e)) = Into(t, w, e)
    BY <2>1, WalkFurther
  <2>3. NoPath \notin DOMAIN t
    BY TreePaths
  <2>4. w \in Seq(Visible) \cup {NoPath}
    BY <1>2
  <2> HIDE DEF w
  <2>5. CASE w \in DOMAIN t
    <3>1. w \in Seq(Visible)
      BY <2>3, <2>4, <2>5
    <3>2. w # <<>> => Front(w) \in Seq(Visible)
      BY <3>1, FrontAndLast
    <3>3. e \notin Dots => Append(w, e) \in Seq(Visible)
      BY <3>1, AppendProperties
    <3> QED BY <2>1, <2>2, <3>1, <3>2, <3>3 DEF Into, Dots
  <2>6. CASE w \notin DOMAIN t
    BY <2>1, <2>2, <2>6 DEF Into, IsDirAt
  <2> QED BY <2>5, <2>6
<1>3. Seq(Names2) \subseteq G
  <2> HIDE DEF G, Names2
  <2> QED BY <1>1, <1>2, SequenceInduction
<1> QED BY <1>3

\* What stands above a file or directory is a directory.
LEMMA AboveExists ==
    ASSUME NEW t \in Trees, WellFormed(t), NEW p \in DOMAIN t,
           NEW q \in Seq(Plain), Under(p, q)
    PROVE  q \in DOMAIN t /\ (q # p => t[q] = "dir")
<1> DEFINE Above(r) == \A s \in Seq(Plain) :
                          Under(r, s) => s \in DOMAIN t /\ (s # r => t[s] = "dir")
           G == {r \in Seq(Plain) : r \in DOMAIN t => Above(r)}
<1>1. <<>> \in G
  <2>1. <<>> \in Seq(Plain) /\ Len(<<>>) = 0
    BY EmptySeq
  <2>2. ASSUME NEW s \in Seq(Plain), Under(<<>>, s) PROVE s = <<>>
    <3> DEFINE none == <<>>
    <3>1. none \in Seq(Plain) /\ Len(none) = 0 /\ Len(s) \in Nat /\ Under(none, s)
      BY <2>1, <2>2, LenProperties
    <3> HIDE DEF none
    <3>2. Len(none) <= Len(s)
      BY <3>1
    <3>3. none = s
      BY <3>1, <3>2, UnderEachOther
    <3> QED BY <3>3 DEF none
  <2> QED BY <2>1, <2>2
<1>2. ASSUME NEW r \in Seq(Plain), NEW e \in Plain, r \in G PROVE Append(r, e) \in G
  <2> DEFINE x == Append(r, e)
  <2>1. x \in Seq(Plain) /\ x # <<>> /\ Front(x) = r
    BY FrontOfAppend
  <2> HIDE DEF x
  <2> SUFFICES ASSUME x \in DOMAIN t, NEW s \in Seq(Plain), Under(x, s), s # x
               PROVE  s \in DOMAIN t /\ t[s] = "dir"
    BY <2>1 DEF x
  <2>2. IsDirAt(t, r)
    BY <2>1 DEF WellFormed
  <2>3. Under(r, s)
    BY <2>1, UnderFront
  <2> QED BY <1>2, <2>2, <2>3 DEF IsDirAt
<1>3. Seq(Plain) \subseteq G
  <2> HIDE DEF G
  <2> QED BY <1>1, <1>2, SequenceInduction
<1> QED BY <1>3, TreePaths

LEMMA FileIsEmpty ==
    ASSUME NEW t \in Trees, WellFormed(t), NEW p, IsFileAt(t, p)
    PROVE  IsEmpty(t, p)
<1>1. p \in Seq(Plain) /\ t[p] # "dir"
  BY TreePaths DEF IsFileAt
<1> QED BY <1>1, AboveExists DEF IsEmpty

-------------------------------------------------------------------------------
(* What is kept of the storage, and which paths the session uses.          *)

PartsAreFiles(t) == \A p \in DOMAIN t : p # <<>> /\ Last(p) \in Made => t[p] = "file"

\* What an upload to the root makes beside it.
PartPath == <<Part>>
OfRoot == {PartPath, <<Converted>>}

Untouched(p) == ~Under(p, Root) /\ p \notin OfRoot

Kept(t) == {<<p, t[p]>> : p \in {q \in DOMAIN t : Untouched(q)}}

Storage(t) ==
    /\ t \in Trees /\ WellFormed(t) /\ PartsAreFiles(t)
    /\ IsDirAt(t, Root) /\ Kept(t) = Kept(InitialTree)

\* A path in the storage; "." or ".." may be its last name, where a file was
\* in the place of a directory when it was resolved.
Confined(p) ==
    /\ p \in Seq(Visible \cup Dots) /\ p # <<>> /\ p[1] = "srv"
    /\ Front(p) \in Seq(Visible)
    /\ Last(p) \in Dots => Len(p) > 2

LEMMA UnderRoot ==
    ASSUME NEW p \in Seq(Text)
    PROVE  Under(p, Root) <=> p # <<>> /\ p[1] = "srv"
<1>1. "srv" \in Text
  BY DEF Text, Plain
<1> QED BY <1>1, UnderFirst DEF Root

LEMMA EntryPlain ==
    ASSUME NEW t \in Trees, WellFormed(t), NEW p \in Seq(Plain), p # <<>>
    PROVE  Entry(t, p) = IF IsDirAt(t, Front(p)) THEN p ELSE NoPath
<1>1. Front(p) \in Seq(Plain) /\ Last(p) \in Plain /\ p = Append(Front(p), Last(p))
  BY FrontAndLast
<1>2. CASE p \in DOMAIN t
  BY <1>2 DEF Entry, Walk, WellFormed
<1>3. CASE p \notin DOMAIN t
  <2>1. Last(p) \notin Dots /\ ~IsDirAt(t, NoPath)
    BY <1>1, PlainText, TreePaths DEF IsDirAt
  <2>2. Walk(t, Front(p)) = IF Front(p) \in DOMAIN t THEN Front(p) ELSE NoPath
    BY <1>1, WalkPlain
  <2>3. IsDirectory(t, Front(p)) <=> IsDirAt(t, Front(p))
    BY <2>1, <2>2 DEF IsDirectory, IsDirAt
  <2>4. Entry(t, p) = IF IsDirectory(t, Front(p))
                      THEN Append(Walk(t, Front(p)), Last(p)) ELSE NoPath
    BY <1>3, <2>1 DEF Entry
  <2> QED BY <1>1, <2>2, <2>3, <2>4 DEF IsDirAt
<1> QED BY <1>2, <1>3

LEMMA ConfinedText ==
    ASSUME NEW p, Confined(p)
    PROVE  /\ p \in Seq(Text) /\ p # NoPath /\ p # <<>> /\ Under(p, Root)
           /\ Front(p) \in Seq(Visible) /\ p = Append(Front(p), Last(p))
           /\ Last(p) \in Visible \cup Dots
           /\ Last(p) \notin Dots => p \in Seq(Visible)
<1>0. Visible \cup Dots \subseteq Text
  BY PlainText DEF Text
<1>1. p \in Seq(Visible \cup Dots) /\ p \in Seq(Text) /\ p # <<>> /\ p[1] = "srv"
  BY <1>0, SeqMonotonic DEF Confined
<1>2. p = Append(Front(p), Last(p)) /\ Last(p) \in Visible \cup Dots
  BY <1>1, FrontAndLast
<1>3. Front(p) \in Seq(Visible)
  BY DEF Confined
<1>4. Last(p) \notin Dots => p \in Seq(Visible)
  <2> SUFFICES ASSUME Last(p) \notin Dots PROVE Append(Front(p), Last(p)) \in Seq(Visible)
    BY <1>2
  <2>1. Last(p) \in Visible
    BY <1>2
  <2> QED BY <1>3, <2>1, AppendProperties
<1>5. Under(p, Root)
  BY <1>1, UnderRoot
<1>6. NoPath[1] = ""
  BY OneName DEF NoPath
<1> QED BY <1>1, <1>2, <1>3, <1>4, <1>5, <1>6

LEMMA DeepFront ==
    ASSUME NEW p \in Seq(Text), Len(p) > 1
    PROVE  Front(p) # <<>> /\ Front(p)[1] = p[1]
<1>1. p # <<>>
  BY EmptySeq
<1>2. /\ Len(Front(p)) = Len(p) - 1 /\ Len(p) \in Nat
      /\ \A i \in 1 .. Len(p) - 1 : Front(p)[i] = p[i]
  BY <1>1, FrontAndLast
<1>3. Len(Front(p)) > 0 /\ 1 \in 1 .. Len(p) - 1
  BY <1>2
<1> QED BY <1>2, <1>3, EmptySeq

LEMMA EntryConfined ==
    ASSUME NEW t, Storage(t), NEW p, Confined(p), NEW e, e = Entry(t, p), e # NoPath
    PROVE  /\ e \in Seq(Visible) /\ e # <<>> /\ Under(e, Root)
           /\ e \notin DOMAIN t => IsDirAt(t, Front(e))
           /\ Last(p) \in Dots => e \in DOMAIN t
           /\ Last(p) \notin Dots => e = p
<1>0. t \in Trees /\ WellFormed(t)
  BY DEF Storage
<1> DEFINE f == Front(p)
<1>1. /\ p \in Seq(Text) /\ p # <<>> /\ Under(p, Root) /\ f \in Seq(Visible)
      /\ Last(p) \notin Dots => p \in Seq(Visible)
  BY ConfinedText
<1>2. CASE Last(p) \notin Dots
  <2>1. p \in Seq(Visible) /\ p \in Seq(Plain)
    BY <1>1, <1>2, PlainText
  <2>2. e = p /\ IsDirAt(t, Front(p))
    BY <1>0, <1>1, <2>1, EntryPlain
  <2> QED BY <1>1, <1>2, <2>1, <2>2
<1>3. CASE Last(p) \in Dots
  <2>1. Len(p) > 2 /\ Len(p) \in Nat /\ p[1] = "srv"
    BY <1>1, <1>3, LenProperties DEF Confined
  <2>2. f # <<>> /\ f[1] = "srv" /\ Len(f) > 1 /\ f \in Seq(Text) /\ f \in Seq(Plain)
    <3>1. Len(f) = Len(p) - 1
      BY <1>1, FrontAndLast
    <3> QED BY <1>1, <2>1, <3>1, DeepFront, PlainText
  <2>3. Front(f) # <<>> /\ Front(f)[1] = "srv" /\ Front(f) \in Seq(Visible)
    BY <1>1, <2>2, DeepFront, FrontAndLast
  <2>4. e = Into(t, Walk(t, f), Last(p)) /\ e \in Led(t)
    BY <1>0, <1>1, <1>3, WalkFront, WalkAlwaysLeads DEF Entry
  <2>5. Walk(t, f) = IF f \in DOMAIN t THEN f ELSE NoPath
    BY <1>0, <2>2, WalkPlain
  <2>6. ~IsDirAt(t, NoPath)
    BY <1>0, TreePaths DEF IsDirAt
  <2> HIDE DEF f
  <2>7. e \in {f, Front(f)}
    BY <1>3, <2>2, <2>4, <2>5, <2>6 DEF Into, Dots
  <2>8. e \in Seq(Visible) /\ e # <<>> /\ e[1] = "srv"
    BY <1>1, <2>2, <2>3, <2>7
  <2>9. e \in Seq(Text)
    BY <2>8, PlainText
  <2> QED BY <1>3, <2>4, <2>8, <2>9, UnderRoot DEF Led
<1> QED BY <1>2, <1>3

-------------------------------------------------------------------------------
(* The calls that change a tree.                                           *)

\* Where the sessions may make and remove entries.
Usable(p) ==
    p \in Seq(Plain) /\ p # <<>> /\ p # Root /\ (Under(p, Root) \/ p \in OfRoot)

LEMMA MadeFacts == Part \in Made /\ Converted \in Made /\ Part # Converted
  BY DEF Made, Part, Converted

LEMMA OfRootFacts ==
    ASSUME NEW p \in OfRoot
    PROVE  /\ p \in Seq(Plain) /\ p # <<>> /\ Front(p) = <<>> /\ Last(p) \in Made
           /\ ~Under(p, Root) /\ p # Root
<1> DEFINE none == <<>>
<1>1. none \in Seq(Plain)
  BY EmptySeq
<1>2. PICK e \in Made : p = <<e>>
  BY DEF OfRoot, PartPath, Made
<1>3. p = Append(none, e) /\ e \in Plain /\ e # "srv"
  BY <1>2, PlainText
<1> HIDE DEF none
<1>4. p \in Seq(Plain) /\ p # <<>> /\ Front(p) = none /\ Last(p) = e
  BY <1>1, <1>3, FrontOfAppend
<1>5. p[1] = e /\ p \in Seq(Text)
  BY <1>2, <1>4, PlainText, OneName
<1>6. ~Under(p, Root) /\ p # Root
  BY <1>3, <1>5, UnderRoot, PlainText
<1> QED BY <1>2, <1>4, <1>6 DEF none

LEMMA UsableTouched == ASSUME NEW p, Usable(p) PROVE ~Untouched(p)
  BY DEF Usable, Untouched

LEMMA KeptSame ==
    ASSUME NEW t, NEW u,
           \A p : Untouched(p) =>
              (p \in DOMAIN u <=> p \in DOMAIN t) /\ (p \in DOMAIN t => u[p] = t[p])
    PROVE  Kept(u) = Kept(t)
<1>1. {q \in DOMAIN u : Untouched(q)} = {q \in DOMAIN t : Untouched(q)}
  OBVIOUS
<1> QED BY <1>1 DEF Kept

LEMMA WithoutFacts ==
    ASSUME NEW t, NEW at
    PROVE  /\ DOMAIN Without(t, at) = DOMAIN t \ {at}
           /\ \A p \in DOMAIN t \ {at} : Without(t, at)[p] = t[p]
  BY DEF Without

LEMMA WithStorage ==
    ASSUME NEW t, Storage(t), NEW at, Usable(at), at \notin DOMAIN t,
           IsDirAt(t, Front(at)), NEW what \in {"dir", "file"},
           Last(at) \in Made => what = "file"
    PROVE  Storage(With(t, at, what))
<1> DEFINE u == With(t, at, what)
<1>1. /\ DOMAIN u = DOMAIN t \cup {at} /\ u[at] = what
      /\ \A p \in DOMAIN t : u[p] = t[p]
  <2>1. \A p \in DOMAIN t : p # at
    OBVIOUS
  <2> HIDE DEF u
  <2>2. /\ DOMAIN u = DOMAIN t \cup {at} /\ u[at] = what
        /\ \A p \in DOMAIN t : p # at => u[p] = t[p]
    <3>1. u = With(t, at, what)
      BY DEF u
    <3>2. DOMAIN With(t, at, what) = DOMAIN t \cup {at} /\ With(t, at, what)[at] = what
      BY DEF With
    <3>3. \A p \in DOMAIN t : p # at => With(t, at, what)[p] = t[p]
      BY DEF With
    <3> QED BY <3>1, <3>2, <3>3
  <2>3. ASSUME NEW p \in DOMAIN t PROVE u[p] = t[p]
    BY <2>1, <2>2
  <2> QED BY <2>2, <2>3
<1>2. u \in Trees
  <2>1. DOMAIN u \in SUBSET Seq(Plain)
    BY <1>1, TreePaths DEF Storage, Usable
  <2>2. u = [p \in DOMAIN u |-> u[p]]
    BY <1>1 DEF With
  <2>3. \A p \in DOMAIN u : u[p] \in {"dir", "file"}
    BY <1>1, TreePaths DEF Storage
  <2>4. u \in [DOMAIN u -> {"dir", "file"}]
    BY <2>2, <2>3
  <2> HIDE DEF u
  <2> QED BY <2>1, <2>4 DEF Trees
<1> HIDE DEF u
<1>3. Last(at) \notin Dots /\ at # <<>>
  BY FrontAndLast, PlainText DEF Usable
<1>4. WellFormed(u)
  BY <1>1, <1>3 DEF Storage, WellFormed, IsDirAt
<1>5. PartsAreFiles(u)
  BY <1>1 DEF Storage, PartsAreFiles
<1>6. IsDirAt(u, Root)
  BY <1>1 DEF Storage, IsDirAt
<1>7. Kept(u) = Kept(t)
  BY <1>1, UsableTouched, KeptSame
<1> QED BY <1>2, <1>4, <1>5, <1>6, <1>7 DEF Storage, u

LEMMA WithSame ==
    ASSUME NEW t \in Trees, NEW at \in DOMAIN t
    PROVE  With(t, at, t[at]) = t
<1>1. t = [p \in DOMAIN t |-> t[p]] /\ DOMAIN t \cup {at} = DOMAIN t
  BY DEF Trees
<1> QED BY <1>1 DEF With

LEMMA WithoutStorage ==
    ASSUME NEW t, Storage(t), NEW at \in DOMAIN t, Usable(at), IsEmpty(t, at)
    PROVE  Storage(Without(t, at))
<1> DEFINE u == Without(t, at)
<1>1. /\ DOMAIN u = DOMAIN t \ {at} /\ \A p \in DOMAIN u : u[p] = t[p]
  BY WithoutFacts
<1>2. u \in Trees
  <2>1. DOMAIN u \in SUBSET Seq(Plain)
    BY <1>1, TreePaths DEF Storage
  <2>2. u = [p \in DOMAIN u |-> u[p]]
    BY <1>1 DEF Without
  <2>3. \A p \in DOMAIN u : u[p] \in {"dir", "file"}
    BY <1>1, TreePaths DEF Storage
  <2>4. u \in [DOMAIN u -> {"dir", "file"}]
    BY <2>2, <2>3
  <2> HIDE DEF u
  <2> QED BY <2>1, <2>4 DEF Trees
<1> HIDE DEF u
<1>3. \A p \in DOMAIN u : p # <<>> => Front(p) # at
  <2> SUFFICES ASSUME NEW p \in DOMAIN u, p # <<>>, Front(p) = at PROVE FALSE
    OBVIOUS
  <2>1. p \in DOMAIN t /\ p # at /\ p \in Seq(Plain)
    BY <1>1, TreePaths DEF Storage
  <2>2. Under(p, Front(p))
    BY <2>1, UnderFront
  <2> QED BY <2>1, <2>2 DEF IsEmpty
<1>4. WellFormed(u)
  BY <1>1, <1>3 DEF Storage, WellFormed, IsDirAt, Usable
<1>5. PartsAreFiles(u)
  BY <1>1 DEF Storage, PartsAreFiles
<1>6. IsDirAt(u, Root)
  BY <1>1 DEF Storage, IsDirAt, Usable
<1>7. Kept(u) = Kept(t)
  BY <1>1, UsableTouched, KeptSame
<1> QED BY <1>2, <1>4, <1>5, <1>6, <1>7 DEF Storage, u

\* What a move takes along, and what it leaves.
Taken(t, from) == {q \in DOMAIN t : Under(q, from)}
Left(t, from, to) == {q \in DOMAIN t : ~Under(q, from) /\ q # to}
MovedTo(from, to, q) == to \o RestOf(q, from)

CanMove(t, from, to) ==
    /\ Storage(t) /\ from \in DOMAIN t /\ Usable(from)
    /\ Usable(to) /\ Under(to, Root) /\ Last(to) \notin Made /\ IsDirAt(t, Front(to))
    /\ ~Under(to, from)
    /\ to \in DOMAIN t => IsEmpty(t, to)

LEMMA MovedPath ==
    ASSUME NEW from \in Seq(Plain), NEW to \in Seq(Plain), NEW q \in Seq(Plain),
           Under(q, from)
    PROVE  /\ MovedTo(from, to, q) \in Seq(Plain) /\ Under(MovedTo(from, to, q), to)
           /\ MovedTo(to, from, MovedTo(from, to, q)) = q
           /\ q = from => MovedTo(from, to, q) = to
           /\ q # from => /\ q # <<>> /\ Under(Front(q), from)
                          /\ Front(MovedTo(from, to, q)) = MovedTo(from, to, Front(q))
                          /\ Last(MovedTo(from, to, q)) = Last(q)
                          /\ MovedTo(from, to, q) # <<>>
<1> DEFINE r == RestOf(q, from)
<1>1. r \in Seq(Plain) /\ q = from \o r /\ Len(r) = Len(q) - Len(from)
  BY Rest
<1> HIDE DEF r
<1>2. /\ to \o r \in Seq(Plain) /\ Under(to \o r, to)
      /\ RestOf(to \o r, to) = r
      /\ r = <<>> => to \o r = to
  BY <1>1, Joined
<1>3. MovedTo(from, to, q) = to \o r /\ MovedTo(to, from, to \o r) = from \o r
  BY <1>2 DEF MovedTo, r
<1>4. q = from => r = <<>>
  <2> SUFFICES ASSUME q = from PROVE r = <<>>
    OBVIOUS
  <2>1. Len(r) = 0
    BY <1>1, LenProperties
  <2> QED BY <1>1, <2>1, EmptySeq
<1>5. ASSUME q # from
      PROVE  /\ q # <<>> /\ Under(Front(q), from)
             /\ Front(to \o r) = MovedTo(from, to, Front(q))
             /\ Last(to \o r) = Last(q) /\ to \o r # <<>>
  <2>1. r # <<>>
    BY <1>1, <1>5, ConcatEmptySeq
  <2>2. Front(r) \in Seq(Plain)
    BY <1>1, <2>1, FrontAndLast
  <2>3. q # <<>> /\ Front(q) = from \o Front(r) /\ Last(q) = Last(r)
    BY <1>1, <2>1, JoinedFurther
  <2>4. /\ to \o r # <<>> /\ Front(to \o r) = to \o Front(r)
        /\ Last(to \o r) = Last(r)
    BY <1>1, <2>1, JoinedFurther
  <2>5. RestOf(Front(q), from) = Front(r)
    BY <2>2, <2>3, Joined
  <2>6. Under(Front(q), from)
    BY <1>5, <2>3, UnderFront
  <2> QED BY <2>3, <2>4, <2>5, <2>6 DEF MovedTo
<1> QED BY <1>1, <1>2, <1>3, <1>4, <1>5

LEMMA MoveFacts ==
    ASSUME NEW t, NEW from, NEW to, CanMove(t, from, to), NEW u, u = Move(t, from, to)
    PROVE  /\ u = [p \in DOMAIN u |-> u[p]]
           /\ DOMAIN u = Left(t, from, to) \cup {MovedTo(from, to, q) : q \in Taken(t, from)}
           /\ \A p \in Left(t, from, to) : u[p] = t[p] /\ ~Under(p, to)
           /\ \A q \in Taken(t, from) : u[MovedTo(from, to, q)] = t[q]
<1>0. t \in Trees /\ WellFormed(t) /\ from \in Seq(Plain) /\ to \in Seq(Plain)
  BY DEF CanMove, Storage, Usable
<1> DEFINE Places2 == Left(t, from, to) \cup {MovedTo(from, to, q) : q \in Taken(t, from)}
<1>1. u = [p \in Places2 |-> IF Under(p, to) THEN t[MovedTo(to, from, p)] ELSE t[p]]
  BY DEF Move, MovedTo, Left, Taken, RestOf
<1> HIDE DEF Places2
<1>2. DOMAIN u = Places2 /\ u = [p \in DOMAIN u |-> u[p]]
  BY <1>1
<1>3. ASSUME NEW p \in Left(t, from, to) PROVE u[p] = t[p] /\ ~Under(p, to)
  <2>1. p \in DOMAIN t /\ p # to /\ p \in Places2
    BY DEF Left, Places2
  <2>2. ~Under(p, to)
    BY <1>0, <2>1, AboveExists DEF CanMove, IsEmpty
  <2> QED BY <1>1, <2>1, <2>2
<1>4. ASSUME NEW q \in Taken(t, from) PROVE u[MovedTo(from, to, q)] = t[q]
  <2>1. q \in Seq(Plain) /\ Under(q, from)
    BY <1>0, TreePaths DEF Taken
  <2>2. /\ Under(MovedTo(from, to, q), to)
        /\ MovedTo(to, from, MovedTo(from, to, q)) = q
    BY <1>0, <2>1, MovedPath
  <2>3. MovedTo(from, to, q) \in Places2
    BY DEF Places2
  <2> QED BY <1>1, <2>2, <2>3
<1> QED BY <1>2, <1>3, <1>4 DEF Places2

\* A move takes nothing but what is under the storage root, or one file.
LEMMA MoveTakes ==
    ASSUME NEW t, NEW from, NEW to, CanMove(t, from, to)
    PROVE  /\ ~Under(Root, from)
           /\ ~Under(from, Root) => Taken(t, from) = {from} /\ Last(from) \in Made
           /\ \A q \in Taken(t, from) : q \in Seq(Plain) /\ ~Untouched(q)
<1>0. /\ t \in Trees /\ WellFormed(t) /\ from \in Seq(Plain) /\ from \in Seq(Text)
      /\ from \in DOMAIN t /\ from # <<>> /\ from # Root
      /\ Under(from, Root) \/ from \in OfRoot
      /\ Root \in Seq(Plain) /\ Root \in Seq(Text)
  BY PlainText DEF CanMove, Storage, Usable
<1>1. ~Under(Root, from)
  <2> SUFFICES ASSUME Under(Root, from) PROVE FALSE
    OBVIOUS
  <2>1. /\ Len(from) \in Nat /\ Len(from) <= Len(Root)
        /\ \A i \in 1 .. Len(from) : Root[i] = from[i]
    BY <1>0, UnderElements
  <2>2. Len(from) > 0
    BY <1>0, EmptySeq
  <2>3. Root[1] = from[1]
    BY <2>1, <2>2
  <2>4. Under(from, Root)
    BY <1>0, <2>3, UnderRoot, PlainText
  <2>5. Len(Root) = 1 /\ Len(Root) <= Len(from)
    BY <2>1, <2>2, PlainText
  <2>6. Root = from
    BY <1>0, <2>5, UnderEachOther
  <2> QED BY <1>0, <2>6
<1>2. ASSUME ~Under(from, Root) PROVE Taken(t, from) = {from} /\ Last(from) \in Made
  <2>1. Last(from) \in Made /\ IsFileAt(t, from)
    BY <1>0, <1>2, OfRootFacts DEF CanMove, Storage, PartsAreFiles, IsFileAt
  <2>2. IsEmpty(t, from) /\ Under(from, from)
    BY <1>0, <2>1, FileIsEmpty, UnderItself
  <2> QED BY <1>0, <2>1, <2>2 DEF Taken, IsEmpty
<1>3. ASSUME NEW q \in Taken(t, from) PROVE q \in Seq(Plain) /\ ~Untouched(q)
  <2>1. q \in DOMAIN t /\ Under(q, from) /\ q \in Seq(Plain)
    BY <1>0, TreePaths DEF Taken
  <2>2. CASE Under(from, Root)
    BY <1>0, <2>1, <2>2, UnderUnder DEF Untouched
  <2>3. CASE ~Under(from, Root)
    BY <1>2, <2>1, <2>3, UsableTouched DEF CanMove
  <2> QED BY <2>1, <2>2, <2>3
<1> QED BY <1>1, <1>2, <1>3

LEMMA MoveStorage ==
    ASSUME NEW t, NEW from, NEW to, CanMove(t, from, to)
    PROVE  Storage(Move(t, from, to))
<1> DEFINE u == Move(t, from, to)
           Moved(q) == MovedTo(from, to, q)
           left == Left(t, from, to)
           taken == Taken(t, from)
<1>0. /\ t \in Trees /\ WellFormed(t) /\ from \in Seq(Plain) /\ to \in Seq(Plain)
      /\ to # <<>> /\ from # <<>> /\ IsDirAt(t, Front(to)) /\ ~Under(to, from)
      /\ Last(to) \notin Made /\ Under(to, Root) /\ to # Root
      /\ <<>> \in Seq(Plain) /\ Root \in Seq(Plain)
  BY PlainText DEF CanMove, Storage, Usable
<1>1. /\ u = [p \in DOMAIN u |-> u[p]]
      /\ DOMAIN u = left \cup {Moved(q) : q \in taken}
      /\ \A p \in left : u[p] = t[p] /\ ~Under(p, to)
      /\ \A q \in taken : u[Moved(q)] = t[q]
  BY MoveFacts
<1>2. /\ \A p \in left : p \in DOMAIN t /\ p \in Seq(Plain) /\ ~Under(p, from) /\ p # to
      /\ \A q \in taken : q \in DOMAIN t /\ q \in Seq(Plain) /\ Under(q, from)
      /\ \A p \in DOMAIN t : ~Under(p, from) /\ p # to => p \in left
      /\ \A p \in DOMAIN t : Under(p, from) => p \in taken
  BY <1>0, TreePaths DEF Left, Taken
<1>3. \A q \in taken :
          /\ Moved(q) \in Seq(Plain) /\ Under(Moved(q), to)
          /\ q = from => Moved(q) = to
          /\ q # from => /\ q # <<>> /\ Under(Front(q), from)
                         /\ Front(Moved(q)) = Moved(Front(q)) /\ Last(Moved(q)) = Last(q)
  BY <1>0, <1>2, MovedPath
<1> HIDE DEF u, Moved, left, taken
<1>4. u \in Trees
  <2>1. DOMAIN u \in SUBSET Seq(Plain)
    BY <1>1, <1>2, <1>3
  <2>2. \A p \in DOMAIN u : u[p] \in {"dir", "file"}
    BY <1>0, <1>1, <1>2, TreePaths
  <2>3. u \in [DOMAIN u -> {"dir", "file"}]
    BY <1>1, <2>2
  <2> QED BY <2>1, <2>3 DEF Trees
<1>5. ASSUME NEW p \in left, p # <<>>
      PROVE  IsDirAt(u, Front(p)) /\ Last(p) \notin Dots
  <2>1. IsDirAt(t, Front(p)) /\ Last(p) \notin Dots
    BY <1>0, <1>2, <1>5 DEF WellFormed
  <2>2. ~Under(Front(p), from) /\ Under(p, Front(p))
    BY <1>0, <1>2, <1>5, UnderFront
  <2>3. Front(p) # to
    BY <1>1, <2>2
  <2>4. Front(p) \in left
    BY <1>2, <2>1, <2>2, <2>3 DEF IsDirAt
  <2> QED BY <1>1, <2>1, <2>4 DEF IsDirAt
<1>6. IsDirAt(u, Front(to)) /\ Last(to) \notin Dots
  <2>1. ~Under(Front(to), from) /\ ~Under(Front(to), to) /\ Last(to) \in Plain
    BY <1>0, UnderFront, FrontAndLast
  <2>2. Under(to, to)
    BY <1>0, UnderItself
  <2>3. Front(to) \in left
    BY <1>0, <1>2, <2>1, <2>2 DEF IsDirAt
  <2> QED BY <1>0, <1>1, <2>1, <2>3, PlainText DEF IsDirAt
<1>7. ASSUME NEW q \in taken, q # from
      PROVE  IsDirAt(u, Front(Moved(q))) /\ Last(Moved(q)) \notin Dots
  <2>1. IsDirAt(t, Front(q)) /\ Last(q) \notin Dots
    BY <1>0, <1>2, <1>3, <1>7 DEF WellFormed
  <2>2. Front(q) \in taken
    BY <1>2, <1>3, <1>7, <2>1 DEF IsDirAt
  <2> QED BY <1>1, <1>3, <1>7, <2>1, <2>2 DEF IsDirAt
<1>8. /\ ~Under(Root, from) /\ ~Under(<<>>, from) /\ <<>> # to
      /\ Root \in left /\ <<>> \in left
  <2>1. ~Under(Root, from)
    BY MoveTakes
  <2>2. Under(Root, <<>>)
    BY <1>0, UnderItself
  <2>3. ~Under(<<>>, from)
    BY <1>0, <2>1, <2>2, UnderUnder
  <2> QED
    BY <1>0, <1>2, <2>1, <2>3 DEF CanMove, Storage, WellFormed, IsDirAt
<1>9. WellFormed(u)
  <2>1. IsDirAt(u, <<>>)
    BY <1>0, <1>1, <1>8 DEF WellFormed, IsDirAt
  <2>2. ASSUME NEW p \in DOMAIN u, p # <<>>
        PROVE  IsDirAt(u, Front(p)) /\ Last(p) \notin Dots
    <3>1. CASE p \in left
      BY <1>5, <2>2, <3>1
    <3>2. CASE p \notin left
      <4>1. PICK q \in taken : p = Moved(q)
        BY <1>1, <3>2
      <4> QED BY <1>3, <1>6, <1>7, <4>1
    <3> QED BY <3>1, <3>2
  <2> QED BY <2>1, <2>2 DEF WellFormed
<1>10. PartsAreFiles(u)
  <2> SUFFICES ASSUME NEW p \in DOMAIN u, p # <<>>, Last(p) \in Made PROVE u[p] = "file"
    BY DEF PartsAreFiles
  <2>0. \A q \in DOMAIN t : q # <<>> /\ Last(q) \in Made => t[q] = "file"
    BY DEF CanMove, Storage, PartsAreFiles
  <2>1. CASE p \in left
    BY <1>1, <1>2, <2>0, <2>1
  <2>2. CASE p \notin left
    <3>1. PICK q \in taken : p = Moved(q)
      BY <1>1, <2>2
    <3>2. q # from
      BY <1>0, <1>3, <3>1
    <3> QED BY <1>1, <1>2, <1>3, <2>0, <3>1, <3>2
  <2> QED BY <2>1, <2>2
<1>11. IsDirAt(u, Root)
  BY <1>1, <1>8 DEF CanMove, Storage, IsDirAt
<1>12. Kept(u) = Kept(t)
  <2> SUFFICES ASSUME NEW p, Untouched(p)
               PROVE  (p \in DOMAIN u <=> p \in DOMAIN t) /\ (p \in DOMAIN t => u[p] = t[p])
    BY KeptSame
  <2>1. p \notin taken
    BY MoveTakes DEF taken
  <2>2. p # to /\ ~Under(p, Root)
    BY <1>0 DEF Untouched
  <2>3. ASSUME NEW q \in taken PROVE p # Moved(q)
    BY <1>0, <1>3, <2>2, UnderUnder
  <2> QED BY <1>1, <1>2, <2>1, <2>2, <2>3
<1> QED
  BY <1>4, <1>9, <1>10, <1>11, <1>12 DEF Storage, CanMove, u

\* A tree that has all of another and nothing new that is staged.
Grows(t, u) ==
    /\ DOMAIN t \subseteq DOMAIN u /\ \A p \in DOMAIN t : u[p] = t[p]
    /\ \A p \in DOMAIN u : p \notin DOMAIN t => p \in Seq(Plain) /\ p # <<>> /\ Last(p) \notin Made

LEMMA GrowsFurther ==
    ASSUME NEW t, NEW u, NEW v, Grows(t, u), Grows(u, v)
    PROVE  Grows(t, v)
  BY DEF Grows

LEMMA NothingStaged == ASSUME NEW t, NEW u, Grows(t, u) PROVE StagedOf(u) = StagedOf(t)
  BY MadeFacts DEF Grows, StagedOf, IsStaged

LEMMA MakeDirGrows ==
    ASSUME NEW t, Storage(t), NEW p, Confined(p)
    PROVE  Storage(MakeDir(t, p)) /\ Grows(t, MakeDir(t, p))
<1> DEFINE at == Entry(t, p)
<1>1. CASE at # NoPath /\ at \notin DOMAIN t /\ HasRoom(t, at)
  <2>1. /\ at \in Seq(Visible) /\ at # <<>> /\ Under(at, Root) /\ IsDirAt(t, Front(at))
    BY <1>1, EntryConfined
  <2>2. MakeDir(t, p) = With(t, at, "dir")
    BY <1>1 DEF MakeDir
  <2>3. Last(at) \in Visible /\ at \in Seq(Plain) /\ at # Root
    BY <1>1, <2>1, FrontAndLast, PlainText DEF Storage, IsDirAt
  <2>4. Usable(at) /\ Last(at) \notin Made
    BY <2>1, <2>3 DEF Usable, Visible
  <2> HIDE DEF at
  <2>5. Storage(With(t, at, "dir"))
    BY <1>1, <2>1, <2>4, WithStorage
  <2>6. Grows(t, With(t, at, "dir"))
    <3> DEFINE v == With(t, at, "dir")
    <3> HIDE DEF v
    <3>1. /\ DOMAIN v = DOMAIN t \cup {at} /\ \A q \in DOMAIN t : q # at => v[q] = t[q]
      BY DEF With, v
    <3>2. \A q \in DOMAIN t : q # at
      BY <1>1
    <3>3. Grows(t, v)
      BY <2>1, <2>3, <2>4, <3>1, <3>2 DEF Grows
    <3> QED BY <3>3 DEF v
  <2> QED BY <2>2, <2>5, <2>6
<1>2. CASE ~(at # NoPath /\ at \notin DOMAIN t /\ HasRoom(t, at))
  <2>1. MakeDir(t, p) = t
    BY <1>2 DEF MakeDir
  <2> QED BY <2>1 DEF Grows
<1> QED BY <1>1, <1>2

LEMMA PrefixConfined ==
    ASSUME NEW p, Confined(p), NEW n \in 1 .. Len(p)
    PROVE  Confined(SubSeq(p, 1, n))
<1> DEFINE q == SubSeq(p, 1, n)
           S == Visible \cup Dots
<1>1. /\ p \in Seq(S) /\ p # <<>> /\ p[1] = "srv" /\ Front(p) \in Seq(Visible)
      /\ Len(p) \in Nat
  BY LenProperties DEF Confined
<1>2. CASE n = Len(p)
  BY <1>1, <1>2, SubSeqFull
<1>3. CASE n # Len(p)
  <2>1. /\ Len(Front(p)) = Len(p) - 1
        /\ \A i \in 1 .. Len(p) - 1 : Front(p)[i] = p[i]
    BY <1>1, FrontAndLast
  <2>2. \A i \in 1 .. n : i \in 1 .. Len(p) - 1 /\ p[i] \in Visible
    <3> SUFFICES ASSUME NEW i \in 1 .. n PROVE i \in 1 .. Len(p) - 1 /\ p[i] \in Visible
      OBVIOUS
    <3>1. i \in 1 .. Len(p) - 1
      BY <1>1, <1>3
    <3>2. Front(p)[i] \in Visible
      BY <1>1, <2>1, <3>1, ElementOfSeq
    <3> QED BY <2>1, <3>1, <3>2
  <2>3. /\ q \in Seq(Visible) /\ Len(q) = IF 1 <= n THEN n - 1 + 1 ELSE 0
        /\ \A i \in 1 .. n - 1 + 1 : q[i] = p[1 + i - 1]
    <3>1. \A i \in 1 .. n : p[i] \in Visible
      BY <2>2
    <3> QED BY <1>1, <3>1, SubSeqProperties
  <2> HIDE DEF q
  <2>4. 1 \in 1 .. n - 1 + 1 /\ 1 <= n /\ 1 + 1 - 1 = 1
    OBVIOUS
  <2>5. q[1] = "srv"
    BY <1>1, <2>3, <2>4
  <2>6. q # <<>>
    BY <2>3, <2>4, EmptySeq
  <2>7. Front(q) \in Seq(Visible) /\ Last(q) \in Visible
    BY <2>3, <2>6, FrontAndLast
  <2>8. Last(q) \notin Dots /\ q \in Seq(Visible \cup Dots)
    BY <2>3, <2>7, PlainText, SeqMonotonic
  <2> QED BY <2>5, <2>6, <2>7, <2>8 DEF Confined, q
<1> QED BY <1>2, <1>3

\* What each mkdir of makedirs keeps, makedirs keeps.
LEMMA MakeDirsIn ==
    ASSUME NEW X, NEW t \in X, NEW p, Len(p) \in Nat,
           \A n \in 1 .. Len(p), u \in X : MakeDir(u, SubSeq(p, 1, n)) \in X
    PROVE  MakeDirs(t, p) \in X
<1> DEFINE made[n \in 0 .. Len(p)] ==
              IF n = 0 THEN t ELSE MakeDir(made[n - 1], SubSeq(p, 1, n))
           step == [n \in 1 .. Len(p) |-> [u \in X |-> MakeDir(u, SubSeq(p, 1, n))]]
<1>2. step \in [1 .. Len(p) -> [X -> X]]
  OBVIOUS
<1>3. \A n \in 1 .. Len(p), u \in X : step[n][u] = MakeDir(u, SubSeq(p, 1, n))
  OBVIOUS
<1> HIDE DEF step, made
<1>4. PICK f \in [0 .. Len(p) -> X] :
          f[0] = t /\ \A n \in 1 .. Len(p) : f[n] = step[n][f[n - 1]]
  <2>1. \E f : Iterates(f, X, t, Len(p), step)
    BY <1>2, Iteration
  <2> QED BY <2>1 DEF Iterates
<1>5. ASSUME NEW n \in 1 .. Len(p) PROVE f[n] = MakeDir(f[n - 1], SubSeq(p, 1, n))
  <2>1. n - 1 \in 0 .. Len(p)
    OBVIOUS
  <2>2. f[n - 1] \in X
    BY <1>4, <2>1
  <2> QED BY <1>3, <1>4, <2>2
<1>6. f = [n \in 0 .. Len(p) |->
              IF n = 0 THEN t ELSE MakeDir(f[n - 1], SubSeq(p, 1, n))]
  <2>1. \A n \in 0 .. Len(p) : n # 0 => n \in 1 .. Len(p)
    OBVIOUS
  <2> QED BY <1>4, <1>5, <2>1
<1>7. made = [n \in 0 .. Len(p) |->
                IF n = 0 THEN t ELSE MakeDir(made[n - 1], SubSeq(p, 1, n))]
  BY <1>6 DEF made
<1>8. MakeDirs(t, p) = made[Len(p)]
  BY DEF MakeDirs, made
<1> DEFINE Good == {n \in Nat : n <= Len(p) => made[n] \in X}
<1>9. 0 \in Good
  BY <1>7
<1>10. ASSUME NEW n \in Nat, n \in Good PROVE n + 1 \in Good
  <2> SUFFICES ASSUME n + 1 <= Len(p) PROVE made[n + 1] \in X
    OBVIOUS
  <2>1. /\ n + 1 \in 1 .. Len(p) /\ n + 1 \in 0 .. Len(p) /\ n + 1 # 0
        /\ (n + 1) - 1 = n /\ made[n] \in X
    BY <1>10
  <2> QED BY <1>7, <2>1
<1>11. Nat \subseteq Good
  <2> HIDE DEF Good
  <2> QED BY <1>9, <1>10, NaturalInduction
<1> QED BY <1>8, <1>11

LEMMA MakeDirsGrows ==
    ASSUME NEW t, Storage(t), NEW p, Confined(p) \/ p = <<>>
    PROVE  Storage(MakeDirs(t, p)) /\ Grows(t, MakeDirs(t, p))
<1> DEFINE X == {u \in Trees : Storage(u) /\ Grows(t, u)}
<1>1. t \in X
  BY DEF Storage, Grows
<1>2. Len(p) \in Nat /\ (p = <<>> => 1 .. Len(p) = {})
  <2>1. CASE Confined(p)
    BY <2>1, LenProperties DEF Confined
  <2>2. CASE p = <<>>
    <3>1. Len(p) = 0
      BY <2>2, EmptySeq
    <3> QED BY <3>1
  <2> QED BY <2>1, <2>2, ConfinedText
<1>3. ASSUME NEW n \in 1 .. Len(p), NEW u \in X PROVE MakeDir(u, SubSeq(p, 1, n)) \in X
  <2>1. Confined(SubSeq(p, 1, n))
    BY <1>2, PrefixConfined
  <2> DEFINE v == MakeDir(u, SubSeq(p, 1, n))
  <2>2. Storage(v) /\ Grows(u, v)
    BY <2>1, MakeDirGrows
  <2>3. Grows(t, v) /\ v \in Trees
    BY <2>2, GrowsFurther DEF Storage
  <2> HIDE DEF v
  <2>4. v \in X
    BY <2>2, <2>3
  <2> QED BY <2>4 DEF v
<1>4. MakeDirs(t, p) \in X
  <2> HIDE DEF X
  <2> QED BY <1>1, <1>2, <1>3, MakeDirsIn
<1> QED BY <1>4

\* Where all directories are there already, none is made.
LEMMA MakeDirsNothing ==
    ASSUME NEW t, Storage(t), NEW p \in DOMAIN t
    PROVE  MakeDirs(t, p) = t
<1> DEFINE X == {t}
<1>0. t \in Trees /\ WellFormed(t)
  BY DEF Storage
<1>1. p \in Seq(Plain) /\ Len(p) \in Nat
  BY <1>0, TreePaths, LenProperties
<1>2. ASSUME NEW n \in 1 .. Len(p) PROVE MakeDir(t, SubSeq(p, 1, n)) = t
  <2> DEFINE q == SubSeq(p, 1, n)
  <2>1. \A i \in 1 .. n : p[i] \in Plain
    BY <1>1, ElementOfSeq
  <2>2. /\ q \in Seq(Plain) /\ Len(q) = IF 1 <= n THEN n - 1 + 1 ELSE 0
        /\ \A i \in 1 .. n - 1 + 1 : q[i] = p[1 + i - 1]
    BY <1>1, <2>1, SubSeqProperties
  <2> HIDE DEF q
  <2>3. Len(q) <= Len(p) /\ \A i \in 1 .. Len(q) : p[i] = q[i]
    <3>1. Len(q) = n
      BY <2>2
    <3>2. \A i \in 1 .. n : i \in 1 .. n - 1 + 1 /\ 1 + i - 1 = i
      OBVIOUS
    <3> QED BY <1>1, <2>2, <3>1, <3>2
  <2>4. Under(p, q)
    BY <1>1, <2>2, <2>3, UnderElements
  <2>5. q \in DOMAIN t
    BY <1>0, <2>2, <2>4, AboveExists
  <2>6. Entry(t, q) = q
    BY <2>5 DEF Entry, Walk
  <2>7. MakeDir(t, q) = t
    BY <2>5, <2>6 DEF MakeDir
  <2> QED BY <2>7 DEF q
<1>3. MakeDirs(t, p) \in X
  <2>1. t \in X /\ \A n \in 1 .. Len(p), u \in X : MakeDir(u, SubSeq(p, 1, n)) \in X
    BY <1>2
  <2> HIDE DEF X
  <2> QED BY <1>1, <2>1, MakeDirsIn
<1> QED BY <1>3

\* What is made for an upload: in the directory that it goes to.
MadeFor(p, name) == Append(Front(p), name)

LEMMA Stage ==
    ASSUME NEW p, Confined(p), NEW name \in Made, NEW s, s = MadeFor(p, name)
    PROVE  /\ s \in Seq(Plain) /\ s # <<>> /\ Front(s) = Front(p) /\ Last(s) = name
           /\ Usable(s)
           /\ \/ Confined(Front(p)) /\ Under(s, Root)
              \/ Front(p) = <<>> /\ s = <<name>> /\ s \in OfRoot /\ p = Root
<1>1. /\ p \in Seq(Text) /\ p # <<>> /\ p[1] = "srv" /\ Front(p) \in Seq(Visible)
      /\ Front(p) \in Seq(Plain) /\ name \in Plain
  BY ConfinedText, PlainText DEF Confined
<1>2. s \in Seq(Plain) /\ s # <<>> /\ Front(s) = Front(p) /\ Last(s) = name
  BY <1>1, FrontOfAppend DEF MadeFor
<1>3. Len(p) \in Nat /\ Len(p) > 0 /\ Len(Front(p)) = Len(p) - 1
  BY <1>1, FrontAndLast
<1>4. s # Root
  <2>1. Last(Root) \in Visible
    BY PlainText, FrontAndLast
  <2> QED BY <1>2, <2>1 DEF Visible
<1>5. CASE Len(p) > 1
  <2> DEFINE d == Front(p)
  <2>1. d # <<>> /\ d[1] = "srv"
    BY <1>1, <1>5, DeepFront
  <2>2. Front(d) \in Seq(Visible) /\ Last(d) \in Visible /\ d \in Seq(Visible \cup Dots)
    BY <1>1, <2>1, FrontAndLast, SeqMonotonic
  <2>3. Last(d) \notin Dots
    BY <2>2, PlainText
  <2> HIDE DEF d
  <2>4. Confined(d)
    BY <2>1, <2>2, <2>3 DEF Confined
  <2>5. Under(d, Root) /\ d \in Seq(Plain) /\ Root \in Seq(Plain)
    BY <1>1, <2>4, ConfinedText, PlainText DEF d
  <2>6. Under(Front(s), Root) => Under(s, Root)
    BY <1>2, <2>5, UnderFront
  <2>7. Under(s, Root)
    BY <1>2, <2>5, <2>6 DEF d
  <2> QED BY <1>2, <1>4, <2>4, <2>7 DEF Usable, d
<1>6. CASE ~(Len(p) > 1)
  <2>0. PICK n \in Nat : n = Len(p)
    BY <1>3
  <2>1. Len(Front(p)) = 0 /\ Len(p) = 1
    BY <1>3, <1>6, <2>0
  <2>2. Front(p) = <<>>
    BY <1>1, <2>1, EmptySeq
  <2>3. s = <<name>>
    BY <2>2 DEF MadeFor
  <2>4. s \in OfRoot
    BY <2>3 DEF OfRoot, PartPath, Made
  <2>5. p = Root
    <3>1. Under(p, Root) /\ Len(Root) = 1 /\ Root \in Seq(Text)
      BY ConfinedText, PlainText
    <3> QED BY <1>1, <2>1, <3>1, UnderEachOther
  <2> QED BY <1>2, <1>4, <2>2, <2>3, <2>4, <2>5 DEF Usable
<1> QED BY <1>5, <1>6

\* What a call with a path of the session, or of another, is about.
LEMMA EntryUsable ==
    ASSUME NEW t, Storage(t), NEW p, Confined(p) \/ Usable(p),
           NEW e, e = Entry(t, p), e # NoPath
    PROVE  /\ e \in Seq(Plain) /\ e # <<>> /\ (e # Root => Usable(e))
           /\ e \notin DOMAIN t => IsDirAt(t, Front(e))
           /\ Usable(p) \/ Last(p) \notin Dots => e = p
<1>0. t \in Trees /\ WellFormed(t)
  BY DEF Storage
<1>1. CASE Usable(p)
  <2>1. p \in Seq(Plain) /\ p # <<>>
    BY <1>1 DEF Usable
  <2>2. e = p /\ IsDirAt(t, Front(p))
    BY <1>0, <2>1, EntryPlain
  <2> QED BY <1>1, <2>1, <2>2
<1>2. CASE ~Usable(p)
  <2>1. /\ e \in Seq(Visible) /\ e # <<>> /\ Under(e, Root)
        /\ e \notin DOMAIN t => IsDirAt(t, Front(e))
        /\ Last(p) \notin Dots => e = p
    BY <1>2, EntryConfined
  <2>2. e \in Seq(Plain)
    BY <2>1, PlainText
  <2> QED BY <1>2, <2>1, <2>2 DEF Usable
<1> QED BY <1>1, <1>2

LEMMA CreateStaged ==
    ASSUME NEW t, Storage(t), NEW s, Usable(s), Last(s) \in Made,
           NEW u, u = CreateFile(t, s)
    PROVE  /\ Storage(u) /\ DOMAIN u \subseteq DOMAIN t \cup {s}
           /\ DOMAIN t \subseteq DOMAIN u
<1>1. CASE CanCreate(t, s)
  <2>1. Entry(t, s) # NoPath
    BY <1>1 DEF CanCreate
  <2>2. Entry(t, s) = s /\ (s \notin DOMAIN t => IsDirAt(t, Front(s)))
    BY <2>1, EntryUsable
  <2>3. u = With(t, s, "file")
    BY <1>1, <2>2 DEF CreateFile
  <2>4. DOMAIN u = DOMAIN t \cup {s}
    BY <2>3 DEF With
  <2>5. CASE s \in DOMAIN t
    <3>1. t \in Trees /\ t[s] = "file"
      BY <2>5 DEF Storage, PartsAreFiles, Usable
    <3>2. u = t
      BY <2>3, <2>5, <3>1, WithSame
    <3> QED BY <3>2
  <2>6. CASE s \notin DOMAIN t
    <3>1. Storage(With(t, s, "file"))
      BY <2>2, <2>6, WithStorage
    <3> QED BY <2>3, <2>4, <3>1
  <2> QED BY <2>5, <2>6
<1>2. CASE ~CanCreate(t, s)
  BY <1>2 DEF CreateFile
<1> QED BY <1>1, <1>2

\* An append to the target of an upload makes it, if nothing is there.
LEMMA CreateConfined ==
    ASSUME NEW t, Storage(t), NEW p, Confined(p), NEW u, u = CreateFile(t, p)
    PROVE  Storage(u) /\ Grows(t, u)
<1> DEFINE e == Entry(t, p)
<1>0. t \in Trees /\ IsDirAt(t, Root)
  BY DEF Storage
<1>1. u = t => Grows(t, u)
  BY DEF Grows
<1>2. CASE ~CanCreate(t, p)
  BY <1>1, <1>2 DEF CreateFile
<1>3. CASE CanCreate(t, p)
  <2>1. /\ e # NoPath /\ u = With(t, e, "file")
        /\ IsFileAt(t, e) \/ e \notin DOMAIN t
    BY <1>3 DEF CanCreate, CreateFile
  <2>2. /\ e \in Seq(Visible) /\ e # <<>> /\ Under(e, Root)
        /\ e \notin DOMAIN t => IsDirAt(t, Front(e))
    BY <2>1, EntryConfined
  <2>3. e \in Seq(Plain) /\ Last(e) \notin Made
    BY <2>2, PlainText, FrontAndLast DEF Visible
  <2> HIDE DEF e
  <2>4. CASE e \in DOMAIN t
    <3>1. t[e] = "file"
      BY <2>1, <2>4 DEF IsFileAt
    <3>2. u = t
      BY <1>0, <2>1, <2>4, <3>1, WithSame
    <3> QED BY <1>1, <3>2
  <2>5. CASE e \notin DOMAIN t
    <3>1. e # Root
      BY <1>0, <2>5 DEF IsDirAt
    <3>2. Storage(u)
      BY <2>1, <2>2, <2>3, <2>5, <3>1, WithStorage DEF Usable
    <3>3. DOMAIN u = DOMAIN t \cup {e} /\ \A q \in DOMAIN t : q # e => u[q] = t[q]
      BY <2>1 DEF With
    <3>4. \A q \in DOMAIN t : q # e
      BY <2>5
    <3>5. Grows(t, u)
      BY <2>2, <2>3, <3>3, <3>4 DEF Grows
    <3> QED BY <3>2, <3>5
  <2> QED BY <2>4, <2>5
<1> QED BY <1>2, <1>3

LEMMA FileRemoved ==
    ASSUME NEW t, Storage(t), NEW p, Confined(p) \/ Usable(p),
           NEW u, u = RemoveFile(t, p)
    PROVE  /\ Storage(u) /\ DOMAIN u \subseteq DOMAIN t
           /\ Usable(p) => DOMAIN t \subseteq DOMAIN u \cup {p}
           /\ Usable(p) /\ Last(p) = Part => p \notin DOMAIN u
<1> DEFINE e == Entry(t, p)
<1>0. t \in Trees /\ WellFormed(t) /\ IsDirAt(t, Root)
  BY DEF Storage
<1>1. CASE IsFileAt(t, e)
  <2>1. e # NoPath /\ e # Root /\ e \in DOMAIN t
    BY <1>0, <1>1, TreePaths DEF IsFileAt, IsDirAt
  <2>2. Usable(e) /\ IsEmpty(t, e) /\ (Usable(p) => e = p)
    <3>1. Usable(e) /\ (Usable(p) => e = p)
      BY <2>1, EntryUsable
    <3> QED BY <1>0, <1>1, <3>1, FileIsEmpty
  <2>3. u = Without(t, e)
    BY <1>1 DEF RemoveFile
  <2>4. DOMAIN u = DOMAIN t \ {e}
    BY <2>3 DEF Without
  <2> HIDE DEF e
  <2>5. Storage(u)
    BY <2>1, <2>2, <2>3, WithoutStorage
  <2> QED BY <2>2, <2>4, <2>5
<1>2. CASE ~IsFileAt(t, e)
  <2>1. u = t
    BY <1>2 DEF RemoveFile
  <2>2. ASSUME Usable(p), Last(p) = Part, p \in DOMAIN t PROVE FALSE
    <3>1. e = p
      BY <2>2 DEF Entry, Walk
    <3> QED BY <1>2, <2>2, <3>1, MadeFacts DEF Storage, PartsAreFiles, IsFileAt, Usable
  <2> QED BY <2>1, <2>2
<1> QED BY <1>1, <1>2

LEMMA DirRemoved ==
    ASSUME NEW t, Storage(t), NEW p, (Confined(p) /\ p # Root) \/ Usable(p),
           NEW u, u = RemoveDir(t, p)
    PROVE  /\ Storage(u) /\ DOMAIN u \subseteq DOMAIN t
           /\ DOMAIN t \subseteq DOMAIN u \cup {p}
<1> DEFINE e == Entry(t, p)
<1>0. t \in Trees
  BY DEF Storage
<1>1. CASE Last(p) \notin Dots /\ IsDirAt(t, e) /\ IsEmpty(t, e)
  <2>1. e # NoPath /\ e \in DOMAIN t
    BY <1>0, <1>1, TreePaths DEF IsDirAt
  <2>2. e = p
    BY <1>1, <2>1, EntryUsable
  <2>3. Usable(e)
    BY <2>1, <2>2, EntryUsable DEF Usable
  <2>4. u = Without(t, e)
    BY <1>1 DEF RemoveDir
  <2>5. DOMAIN u = DOMAIN t \ {e}
    BY <2>4 DEF Without
  <2> HIDE DEF e
  <2>6. Storage(u)
    BY <1>1, <2>1, <2>3, <2>4, WithoutStorage
  <2> QED BY <2>2, <2>5, <2>6
<1>2. CASE ~(Last(p) \notin Dots /\ IsDirAt(t, e) /\ IsEmpty(t, e))
  <2>1. u = t
    BY <1>2 DEF RemoveDir
  <2> QED BY <2>1
<1> QED BY <1>1, <1>2

\* A rename that changes anything moves an entry of the storage, or a staged
\* file, to a place in the storage.
MayReceive(p) == Usable(p) /\ Under(p, Root) /\ Last(p) \notin Made

LEMMA RenameMoves ==
    ASSUME NEW t, Storage(t), NEW old, Confined(old) \/ Usable(old),
           NEW new, Confined(new) \/ MayReceive(new),
           CanRename(t, old, new), Entry(t, old) # Entry(t, new)
    PROVE  CanMove(t, old, new) /\ Rename(t, old, new) = Move(t, old, new)
<1> DEFINE from == Entry(t, old)
           to == Entry(t, new)
<1>0. t \in Trees /\ WellFormed(t) /\ IsDirAt(t, Root) /\ PartsAreFiles(t)
  BY DEF Storage
<1>1. /\ from \in DOMAIN t /\ to # NoPath
      /\ Last(old) \notin Dots /\ Last(new) \notin Dots
      /\ ~Under(to, from)
      /\ to \in DOMAIN t => t[to] = t[from] /\ IsEmpty(t, to)
  BY DEF CanRename
<1>2. Rename(t, old, new) = Move(t, from, to)
  BY DEF Rename
<1>3. from # NoPath
  BY <1>0, <1>1, TreePaths
<1>4. Confined(new) \/ Usable(new)
  BY DEF MayReceive
<1>5. /\ from = old /\ from \in Seq(Plain) /\ from # <<>> /\ (from # Root => Usable(from))
      /\ to = new /\ to \in Seq(Plain) /\ to # <<>> /\ (to # Root => Usable(to))
      /\ to \notin DOMAIN t => IsDirAt(t, Front(to))
  BY <1>1, <1>3, <1>4, EntryUsable
<1>6. Under(to, Root) /\ Last(to) \notin Made
  <2>1. CASE Confined(new)
    <3>1. new \in Seq(Visible) /\ new # <<>> /\ Under(new, Root)
      BY <1>1, <2>1, ConfinedText
    <3>2. Last(new) \in Visible
      BY <3>1, FrontAndLast
    <3> QED BY <1>5, <3>1, <3>2 DEF Visible
  <2>2. CASE MayReceive(new)
    BY <1>5, <2>2 DEF MayReceive
  <2> QED BY <2>1, <2>2
<1> HIDE DEF from, to
<1>7. from # Root
  BY <1>1, <1>6
<1>8. to # Root
  <2> SUFFICES ASSUME to = Root PROVE FALSE
    OBVIOUS
  <2>1. t[from] = "dir" /\ IsEmpty(t, Root)
    BY <1>0, <1>1 DEF IsDirAt
  <2>2. Last(from) \notin Made
    BY <1>0, <1>1, <1>5, <2>1 DEF PartsAreFiles
  <2>3. Under(from, Root)
    BY <1>5, <1>7, <2>2, OfRootFacts DEF Usable
  <2> QED BY <1>1, <1>7, <2>1, <2>3 DEF IsEmpty
<1>9. IsDirAt(t, Front(to))
  BY <1>0, <1>5 DEF WellFormed
<1>10. CanMove(t, from, to)
  BY <1>1, <1>5, <1>6, <1>7, <1>8, <1>9 DEF CanMove
<1> QED BY <1>2, <1>5, <1>10

\* Staged files that a move leaves behind were there before, elsewhere.
LEMMA MoveStaged ==
    ASSUME NEW t, NEW from, NEW to, CanMove(t, from, to),
           NEW p \in StagedOf(Move(t, from, to))
    PROVE  \E q \in StagedOf(t) : q # from
<1> DEFINE u == Move(t, from, to)
           Moved(q) == MovedTo(from, to, q)
<1>0. /\ t \in Trees /\ from \in Seq(Plain) /\ to \in Seq(Plain) /\ Last(to) \notin Made
      /\ Root \in Seq(Plain) /\ from # <<>>
  BY PlainText DEF CanMove, Storage, Usable
<1>1. /\ DOMAIN u = Left(t, from, to) \cup {Moved(q) : q \in Taken(t, from)}
  BY MoveFacts
<1>2. p \in DOMAIN u /\ IsStaged(p)
  BY DEF StagedOf
<1> HIDE DEF u
<1>3. CASE p \in Left(t, from, to)
  <2>1. p \in DOMAIN t /\ ~Under(p, from)
    BY <1>3 DEF Left
  <2>2. p # from
    BY <1>0, <2>1, UnderItself
  <2> QED BY <1>2, <2>1, <2>2 DEF StagedOf
<1>4. CASE p \notin Left(t, from, to)
  <2>1. PICK q \in Taken(t, from) : p = Moved(q)
    BY <1>1, <1>2, <1>4
  <2>2. q \in DOMAIN t /\ Under(q, from) /\ q \in Seq(Plain)
    BY <1>0, <2>1, TreePaths DEF Taken
  <2>3. /\ q = from => Moved(q) = to
        /\ q # from => Last(Moved(q)) = Last(q)
    BY <1>0, <2>2, MovedPath
  <2>4. Last(p) = Part
    BY <1>2 DEF IsStaged
  <2>5. q # from /\ Last(q) = Part
    BY <1>0, <2>1, <2>3, <2>4, MadeFacts
  <2>6. Under(from, Root) /\ ~Under(Root, from)
    BY <2>1, <2>5, MoveTakes
  <2>7. Under(q, Root) /\ q # Root
    BY <1>0, <2>2, <2>6, UnderUnder
  <2> QED BY <2>2, <2>5, <2>7 DEF StagedOf, IsStaged
<1> QED BY <1>3, <1>4

\* A file that moves takes nothing along.
LEMMA MoveFile ==
    ASSUME NEW t, NEW from, NEW to, CanMove(t, from, to), IsFileAt(t, from)
    PROVE  StagedOf(Move(t, from, to)) \subseteq StagedOf(t)
<1> DEFINE u == Move(t, from, to)
<1>0. /\ t \in Trees /\ WellFormed(t) /\ from \in Seq(Plain) /\ to \in Seq(Plain)
      /\ Last(to) \notin Made /\ Under(from, from)
  BY UnderItself DEF CanMove, Storage, Usable
<1>4. u = Move(t, from, to)
  OBVIOUS
<1> HIDE DEF u
<1>1. DOMAIN u = Left(t, from, to) \cup {MovedTo(from, to, q) : q \in Taken(t, from)}
  BY <1>4, MoveFacts
<1>2. \A q \in Taken(t, from) : MovedTo(from, to, q) = to
  <2>1. IsEmpty(t, from)
    BY <1>0, FileIsEmpty
  <2>2. MovedTo(from, to, from) = to
    BY <1>0, MovedPath
  <2> QED BY <2>1, <2>2 DEF Taken, IsEmpty
<1>3. ASSUME NEW q \in StagedOf(u) PROVE q \in StagedOf(t)
  <2>1. q \in DOMAIN u /\ IsStaged(q) /\ q # to
    BY <1>0, MadeFacts DEF StagedOf, IsStaged
  <2>2. q \in DOMAIN t
    BY <1>1, <1>2, <2>1 DEF Left
  <2> QED BY <2>1, <2>2 DEF StagedOf
<1> QED BY <1>3 DEF u

LEMMA RenameKeeps ==
    ASSUME NEW t, Storage(t), NEW old, Confined(old) \/ Usable(old),
           NEW new, Confined(new) \/ MayReceive(new),
           NEW u, u = Rename(t, old, new)
    PROVE  /\ Storage(u)
           /\ StagedOf(t) = {} => StagedOf(u) = {}
           /\ CanRename(t, old, new) /\ StagedOf(t) \subseteq {old}
                /\ Last(old) = Part /\ Usable(old) => StagedOf(u) = {}
           /\ ~CanRename(t, old, new) => u = t
           /\ \A p \in DOMAIN t :
                ~Under(p, Root) /\ (Confined(old) \/ Under(old, Root)) => p \in DOMAIN u
           /\ \A p \in DOMAIN u : ~Under(p, Root) => p \in DOMAIN t
           /\ CanRename(t, old, new) /\ Usable(old) /\ Last(old) \in Made =>
                StagedOf(u) \subseteq StagedOf(t) /\ (~Under(old, Root) => old \notin DOMAIN u)
<1>1. CASE CanRename(t, old, new) /\ Entry(t, old) # Entry(t, new)
  <2>1. CanMove(t, old, new) /\ u = Move(t, old, new)
    BY <1>1, RenameMoves
  <2>2. Storage(u)
    BY <2>1, MoveStorage
  <2>3. StagedOf(u) # {} => \E q \in StagedOf(t) : q # old
    BY <2>1, MoveStaged
  <2>4. ASSUME NEW p \in DOMAIN t, ~Under(p, Root), Confined(old) \/ Under(old, Root)
        PROVE  p \in DOMAIN u
    <3>0. /\ t \in Trees /\ old \in Seq(Plain) /\ new \in Seq(Plain)
          /\ Under(new, Root) /\ Root \in Seq(Plain)
      BY <2>1, PlainText DEF CanMove, Storage, Usable
    <3>1. Under(old, Root)
      BY <2>4, ConfinedText
    <3>2. p \in Seq(Plain)
      BY <3>0, TreePaths
    <3>3. ~Under(p, old) /\ p # new
      BY <2>4, <3>0, <3>1, <3>2, UnderUnder
    <3>4. p \in Left(t, old, new)
      BY <3>3 DEF Left
    <3> DEFINE v == Move(t, old, new)
    <3> HIDE DEF v
    <3>5. DOMAIN v = Left(t, old, new)
                        \cup {MovedTo(old, new, q) : q \in Taken(t, old)}
      BY <2>1, MoveFacts DEF v
    <3>6. p \in DOMAIN v
      BY <3>4, <3>5
    <3> QED BY <2>1, <3>6 DEF v
  <2>5. ASSUME NEW p \in DOMAIN u, ~Under(p, Root)
        PROVE  p \in DOMAIN t /\ p # old
    <3>0. /\ t \in Trees /\ old \in Seq(Plain) /\ new \in Seq(Plain)
          /\ Under(new, Root) /\ Root \in Seq(Plain) /\ Under(old, old)
      BY <2>1, PlainText, UnderItself DEF CanMove, Storage, Usable
    <3>1. DOMAIN u = Left(t, old, new) \cup {MovedTo(old, new, q) : q \in Taken(t, old)}
      BY <2>1, MoveFacts
    <3>2. ASSUME NEW q \in Taken(t, old) PROVE p # MovedTo(old, new, q)
      <4>1. q \in Seq(Plain) /\ Under(q, old)
        BY <3>0, TreePaths DEF Taken
      <4>2. MovedTo(old, new, q) \in Seq(Plain) /\ Under(MovedTo(old, new, q), new)
        BY <3>0, <4>1, MovedPath
      <4> DEFINE m == MovedTo(old, new, q)
      <4> HIDE DEF m
      <4>3. m \in Seq(Plain) /\ Under(m, new)
        BY <4>2 DEF m
      <4>4. Under(m, Root)
        BY <3>0, <4>3, UnderUnder
      <4> QED BY <2>5, <4>4 DEF m
    <3>3. p \in Left(t, old, new)
      BY <2>5, <3>1, <3>2
    <3> QED BY <3>0, <3>3 DEF Left
  <2>6. ASSUME Usable(old), Last(old) \in Made PROVE StagedOf(u) \subseteq StagedOf(t)
    <3>1. IsFileAt(t, old)
      BY <2>1, <2>6 DEF CanMove, Storage, PartsAreFiles, Usable, IsFileAt
    <3> QED BY <2>1, <3>1, MoveFile
  <2>7. ~Under(old, Root) => old \notin DOMAIN u
    BY <2>5
  <2>8. \A p \in DOMAIN u : ~Under(p, Root) => p \in DOMAIN t
    BY <2>5
  <2>9. CanRename(t, old, new) /\ StagedOf(t) \subseteq {old} => StagedOf(u) = {}
    BY <2>3
  <2>10. StagedOf(t) = {} => StagedOf(u) = {}
    BY <2>3
  <2> QED BY <1>1, <2>2, <2>4, <2>6, <2>7, <2>8, <2>9, <2>10
<1>2. CASE ~CanRename(t, old, new)
  <2>1. u = t
    BY <1>2 DEF Rename
  <2> QED BY <1>2, <2>1
<1>3. CASE CanRename(t, old, new) /\ Entry(t, old) = Entry(t, new)
  <2>1. u = t
    BY <1>3 DEF Rename
  <2>2. ASSUME Last(old) \in Made, Usable(old) PROVE FALSE
    <3>1. Entry(t, old) \in DOMAIN t /\ t \in Trees
      BY <1>3 DEF CanRename, Storage
    <3>2. Entry(t, old) # NoPath
      BY <3>1, TreePaths
    <3>3. Entry(t, old) = old
      BY <2>2, <3>2, EntryUsable
    <3>4. Last(new) \notin Dots
      BY <1>3 DEF CanRename
    <3>5. Entry(t, new) = new
      BY <1>3, <3>2, <3>4, EntryUsable DEF MayReceive
    <3>6. Last(new) \notin Made
      <4>1. CASE Confined(new)
        <5>1. Last(new) \in Visible
          BY <3>4, <4>1, ConfinedText
        <5> QED BY <5>1 DEF Visible
      <4>2. CASE MayReceive(new)
        BY <4>2 DEF MayReceive
      <4> QED BY <4>1, <4>2
    <3> QED BY <1>3, <2>2, <3>3, <3>5, <3>6, MadeFacts
  <2> QED BY <1>3, <2>1, <2>2, MadeFacts
<1> QED BY <1>1, <1>2, <1>3

-------------------------------------------------------------------------------
(* How an argument is resolved.                                            *)

LEMMA RealPathLeads ==
    ASSUME NEW t, Storage(t), NEW target \in Seq(Visible \cup Dots), target # <<>>,
           NEW f, f = Front(target), NEW l, l = Last(target), NEW w, w = Walk(t, f)
    PROVE  /\ target \in Seq(Text) /\ f \in Seq(Text) /\ l \in Visible \cup Dots
           /\ Exists(t, target) =>
                 /\ RealPath(t, target) = Walk(t, target)
                 /\ Entry(t, target) = Walk(t, target)
                 /\ Walk(t, target) \in Seq(Visible) /\ Walk(t, target) \in DOMAIN t
           /\ ~Exists(t, target) /\ Exists(t, f) =>
                 /\ RealPath(t, target) = Append(w, l)
                 /\ w \in Seq(Visible) /\ w \in DOMAIN t
                 /\ l \in Dots => Into(t, w, l) = NoPath /\ ~IsDirAt(t, w)
           /\ ~Exists(t, target) =>
                 Entry(t, target) = IF l \notin Dots /\ IsDirAt(t, w) THEN Append(w, l) ELSE NoPath
           /\ ~Exists(t, target) /\ ~Exists(t, f) =>
                 RealPath(t, target) = NoPath /\ Entry(t, target) = NoPath
<1>0. t \in Trees /\ WellFormed(t) /\ NoPath \notin DOMAIN t
  <2>1. t \in Trees /\ WellFormed(t)
    BY DEF Storage
  <2> QED BY <2>1, TreePaths
<1>1. Visible \cup Dots \subseteq Text
  BY PlainText DEF Text
<1>2. /\ f \in Seq(Visible \cup Dots) /\ l \in Visible \cup Dots
      /\ target \in Seq(Text) /\ f \in Seq(Text) /\ l \in Text
  <2>1. f \in Seq(Visible \cup Dots) /\ l \in Visible \cup Dots
    BY FrontAndLast
  <2> QED BY <1>1, <2>1, SeqMonotonic
<1>3. /\ Walk(t, target) \in Seq(Visible) \cup {NoPath} /\ Walk(t, target) \in Led(t)
      /\ w \in Seq(Visible) \cup {NoPath} /\ w \in Led(t)
      /\ Walk(t, target) = Into(t, w, l)
  BY <1>0, <1>2, WalkVisible, WalkAlwaysLeads, WalkFront
<1>4. ASSUME Exists(t, target)
      PROVE  /\ RealPath(t, target) = Walk(t, target)
             /\ Entry(t, target) = Walk(t, target)
             /\ Walk(t, target) \in Seq(Visible) /\ Walk(t, target) \in DOMAIN t
  <2>1. RealPath(t, target) = Walk(t, target)
    BY <1>4 DEF RealPath
  <2>2. Walk(t, target) \in Seq(Visible) /\ Walk(t, target) \in DOMAIN t
    BY <1>3, <1>4 DEF Exists, Led
  <2>3. CASE target \in DOMAIN t \/ l \in Dots
    BY <2>1, <2>2, <2>3 DEF Entry
  <2>4. CASE ~(target \in DOMAIN t \/ l \in Dots)
    <3>1. IsDirAt(t, w) /\ Walk(t, target) = Append(w, l)
      BY <1>3, <1>4, <2>4 DEF Exists, Into, Dots
    <3>2. Entry(t, target) = Append(w, l)
      BY <2>4, <3>1 DEF Entry, IsDirectory
    <3> QED BY <2>1, <2>2, <3>1, <3>2
  <2> QED BY <2>3, <2>4
<1>5. ASSUME ~Exists(t, target)
      PROVE  Entry(t, target) = IF l \notin Dots /\ IsDirAt(t, w) THEN Append(w, l) ELSE NoPath
  <2>1. target \notin DOMAIN t /\ Walk(t, target) = NoPath
    BY <1>0, <1>5 DEF Exists, Walk
  <2> QED BY <2>1 DEF Entry, IsDirectory
<1>6. ASSUME ~Exists(t, target), Exists(t, f)
      PROVE  /\ RealPath(t, target) = Append(w, l)
             /\ w \in Seq(Visible) /\ w \in DOMAIN t
             /\ l \in Dots => Into(t, w, l) = NoPath /\ ~IsDirAt(t, w)
  <2>1. RealPath(t, target) = Append(w, l)
    BY <1>6 DEF RealPath
  <2>2. w \in Seq(Visible) /\ w \in DOMAIN t
    BY <1>3, <1>6 DEF Exists, Led
  <2>3. Into(t, w, l) = NoPath
    BY <1>3, <1>6 DEF Exists
  <2>4. ASSUME l \in Dots, IsDirAt(t, w) PROVE FALSE
    <3>1. Into(t, w, l) = w \/ (w # <<>> /\ Into(t, w, l) = Front(w))
      BY <2>4 DEF Into, Dots
    <3>2. w # <<>> => Front(w) \in DOMAIN t
      BY <1>0, <2>2 DEF WellFormed, IsDirAt
    <3> QED BY <1>0, <2>2, <2>3, <3>1, <3>2
  <2> QED BY <2>1, <2>2, <2>3, <2>4
<1>7. ASSUME ~Exists(t, target), ~Exists(t, f)
      PROVE  RealPath(t, target) = NoPath /\ Entry(t, target) = NoPath
  <2>1. RealPath(t, target) = NoPath
    BY <1>7 DEF RealPath
  <2>2. ~IsDirAt(t, w)
    BY <1>0, <1>7 DEF Exists, IsDirAt
  <2> QED BY <1>5, <1>7, <2>1, <2>2
<1> QED BY <1>2, <1>4, <1>5, <1>6, <1>7

\* The target of a command names something, and nothing that is staged.
LEMMA TargetNames ==
    ASSUME NEW base, Confined(base), NEW input \in Arguments,
           NEW target, target = Target(base, input)
    PROVE  target \in Seq(Visible \cup Dots) /\ target # <<>>
<1> DEFINE S == Visible \cup Dots
           top == IF input.absolute THEN Root ELSE base
<1>1. top \in Seq(S) /\ top # <<>>
  <2>1. Root \in Seq(S) /\ Root # <<>>
    BY PlainText, SeqMonotonic
  <2> QED BY <2>1 DEF Confined
<1>2. input.parts \in Seq(S)
  <2>1. CASE input \in Inputs
    <3>1. Names \cup Dots \cup {"srvold", "old"} \subseteq S
      BY NamesAssumption DEF Visible, Plain, Made, Part, Converted
    <3>2. input.parts \in Seq(Names \cup Dots \cup {"srvold", "old"})
      BY <2>1, InputsAssumption
    <3> HIDE DEF S
    <3> QED BY <3>1, <3>2, SeqMonotonic
  <2>2. CASE input = Empty
    BY <2>2, EmptySeq DEF Empty
  <2>3. CASE input = Parent
    <3>1. <<"..">> \in Seq(S)
      BY OneName DEF Dots
    <3> QED BY <2>3, <3>1 DEF Parent
  <2> QED BY <2>1, <2>2, <2>3 DEF Arguments
<1>3. target = top \o input.parts
  BY DEF Target
<1> HIDE DEF top, S
<1>4. target \in Seq(S) /\ target # <<>>
  <2>1. /\ target \in Seq(S) /\ Len(target) = Len(top) + Len(input.parts)
        /\ Len(top) \in Nat /\ Len(input.parts) \in Nat
    BY <1>1, <1>2, <1>3, ConcatProperties, LenProperties
  <2>2. Len(top) # 0
    BY <1>1, EmptySeq
  <2>3. Len(target) # 0
    BY <2>1, <2>2
  <2> QED BY <2>1, <2>3, EmptySeq
<1> QED BY <1>4 DEF S

LEMMA InsideIsUnder ==
    ASSUME NEW p \in Seq(Text)
    PROVE  InsideRoot(p) <=> Under(p, Root)
  BY UnderRoot DEF InsideRoot, HasRootAsPrefix

\* What is resolved is in the storage.
LEMMA ResolveConfined ==
    ASSUME NEW t, Storage(t), NEW base, Confined(base), NEW input \in Arguments,
           NEW out, out = Resolve(t, base, input), out # NoPath
    PROVE  Confined(out)
<1> DEFINE target == Target(base, input)
           f == Front(target)
           l == Last(target)
           w == Walk(t, f)
<1>1. target \in Seq(Visible \cup Dots) /\ target # <<>>
  BY TargetNames
<1> HIDE DEF target
<1>2. out = RealPath(t, target) /\ out # <<>> /\ out[1] = "srv"
  BY DEF Resolve, InsideRoot, HasRootAsPrefix, target
<1> HIDE DEF f, l, w
<1>3. /\ l \in Visible \cup Dots
      /\ Exists(t, target) => out \in Seq(Visible)
      /\ ~Exists(t, target) /\ Exists(t, f) =>
            /\ out = Append(w, l) /\ w \in Seq(Visible) /\ w \in DOMAIN t
            /\ l \in Dots => ~IsDirAt(t, w)
      /\ ~Exists(t, target) /\ ~Exists(t, f) => out = NoPath
  BY <1>1, <1>2, RealPathLeads DEF f, l, w
<1>4. CASE out \in Seq(Visible)
  <2>1. Front(out) \in Seq(Visible) /\ Last(out) \in Visible
    BY <1>2, <1>4, FrontAndLast
  <2>2. Last(out) \notin Dots /\ out \in Seq(Visible \cup Dots)
    BY <1>4, <2>1, PlainText, SeqMonotonic
  <2> QED BY <1>2, <2>1, <2>2 DEF Confined
<1>5. CASE out \notin Seq(Visible)
  <2>1. out = Append(w, l) /\ w \in Seq(Visible) /\ w \in DOMAIN t
    BY <1>3, <1>5
  <2>2. l \in Dots /\ ~IsDirAt(t, w)
    <3>1. l \in Visible => Append(w, l) \in Seq(Visible)
      BY <2>1, AppendProperties
    <3> QED BY <1>3, <1>5, <2>1, <3>1
  <2>3. w \in Seq(Visible \cup Dots)
    BY <2>1, SeqMonotonic
  <2>4. /\ out \in Seq(Visible \cup Dots) /\ Len(out) = Len(w) + 1
        /\ Front(out) = w /\ Last(out) = l
    BY <1>3, <2>1, <2>3, FrontOfAppend
  <2>5. w # <<>> /\ w # Root
    BY <2>2 DEF Storage, WellFormed
  <2>6. Len(w) \in Nat /\ Len(w) > 0
    BY <2>3, <2>5, EmptySeq
  <2>7. w[1] = "srv"
    <3>1. out[1] = w[1]
      BY <2>1, <2>3, <2>6
    <3> QED BY <1>2, <3>1
  <2>8. Len(w) # 1
    <3> SUFFICES ASSUME Len(w) = 1 PROVE FALSE
      OBVIOUS
    <3>1. \A i \in 1 .. Len(w) : w[i] = Root[i]
      BY <2>6, <2>7, PlainText
    <3>2. w = Root
      BY <2>1, <3>1, PlainText, SeqEqual
    <3> QED BY <2>5, <3>2
  <2>9. Len(out) > 2
    <3>1. PICK n \in Nat : n = Len(w)
      BY <2>6
    <3>2. n > 0 /\ n # 1 /\ Len(out) = n + 1
      BY <2>4, <2>6, <2>8, <3>1
    <3> QED BY <3>2
  <2> QED BY <1>2, <2>1, <2>4, <2>9 DEF Confined
<1> QED BY <1>4, <1>5

-------------------------------------------------------------------------------
(* What the other sessions do.                                             *)

LEMMA PlacesReceive ==
    ASSUME Storage(tree), NEW p \in Places
    PROVE  MayReceive(p)
<1>1. PICK q \in DOMAIN tree, n \in Names : p = Append(q, n) /\ Under(q, Root)
  BY DEF Places
<1>2. q \in Seq(Plain) /\ n \in Plain /\ n \notin Made
  BY TreePaths, NamesAssumption DEF Storage, Plain, Made
<1>3. p \in Seq(Plain) /\ p # <<>> /\ Front(p) = q /\ Last(p) = n
  BY <1>1, <1>2, FrontOfAppend
<1>4. Root \in Seq(Plain)
  BY PlainText
<1>5. Under(p, Root) /\ ~Under(q, p)
  <2>1. Under(Front(p), Root) => Under(p, Root)
    BY <1>3, <1>4, UnderFront
  <2>2. ~Under(Front(p), p)
    BY <1>3, UnderFront
  <2> QED BY <1>1, <1>3, <2>1, <2>2
<1> QED BY <1>1, <1>2, <1>3, <1>5 DEF MayReceive, Usable

LEMMA OtherMakes ==
    ASSUME NEW t, Storage(t), NEW p, MayReceive(p), p \notin DOMAIN t,
           NEW u \in {MakeDir(t, p), CreateFile(t, p)}
    PROVE  Storage(u) /\ Grows(t, u)
<1>1. Usable(p) /\ Last(p) \notin Made /\ p \in Seq(Plain) /\ p # <<>>
  BY DEF MayReceive, Usable
<1>2. u = t \/ (IsDirAt(t, Front(p)) /\ \E what \in {"dir", "file"} : u = With(t, p, what))
  <2> DEFINE e == Entry(t, p)
  <2>1. e # NoPath => e = p /\ IsDirAt(t, Front(p))
    BY <1>1, EntryUsable
  <2>2. CASE u = MakeDir(t, p)
    BY <2>1, <2>2 DEF MakeDir
  <2>3. CASE u = CreateFile(t, p)
    BY <2>1, <2>3 DEF CreateFile, CanCreate
  <2> QED BY <2>2, <2>3
<1>3. CASE u = t
  BY <1>3 DEF Grows
<1>4. CASE u # t
  <2>1. PICK what \in {"dir", "file"} : u = With(t, p, what)
    BY <1>2, <1>4
  <2>2. Storage(u)
    BY <1>1, <1>2, <1>4, <2>1, WithStorage
  <2>3. DOMAIN u = DOMAIN t \cup {p} /\ \A q \in DOMAIN t : q # p => u[q] = t[q]
    BY <2>1 DEF With
  <2>4. \A q \in DOMAIN t : q # p
    OBVIOUS
  <2>5. Grows(t, u)
    BY <1>1, <2>3, <2>4 DEF Grows
  <2> QED BY <2>2, <2>5
<1> QED BY <1>3, <1>4

LEMMA OthersUse ==
    ASSUME Storage(tree), NEW p \in DOMAIN tree, Under(p, Root), p # Root
    PROVE  Usable(p)
<1>1. p \in Seq(Plain) /\ p \in Seq(Text)
  BY TreePaths DEF Storage
<1>2. p # <<>>
  BY <1>1, UnderRoot
<1> QED BY <1>1, <1>2 DEF Usable

-------------------------------------------------------------------------------
(* The invariant.                                                          *)

PathsOK ==
    /\ Confined(currentDir)
    /\ \A p \in {renameFrom, path, upTarget} : p = NoPath \/ Confined(p)

PlacesOK ==
    /\ pc \in Commands \cup {"read", "makedirs", "rmdir", "remove"} /\ upPc \in UploadPcs
    /\ displaced \in BOOLEAN
    /\ pc # "read" => upPc = "none"
    /\ upPc # "none" => upTarget # NoPath
    /\ pc \in {"makedirs", "rmdir", "remove"} => path # NoPath
    /\ pc = "rmdir" => path # Root
    /\ pc = "RNTO" => renameFrom # NoPath

\* The one staged file is that of the upload that is under way, and while it
\* waits to be installed it is there.
StagedOK ==
    ~displaced =>
        /\ \A p \in StagedOf(tree) : p = Staged /\ upPc \notin {"none", "parent", "open"}
        /\ upPc = "install" => Staged \in DOMAIN tree

\* Nor does another staged file stand beside the root.
BesideOK ==
    PartPath \in DOMAIN tree => Staged = PartPath /\ upPc \notin {"none", "parent", "open"}

Inv == Storage(tree) /\ PathsOK /\ PlacesOK /\ StagedOK /\ BesideOK

LEMMA RootConfined == Confined(Root)
<1>1. Root \in Seq(Visible) /\ Root # <<>> /\ Root[1] = "srv"
  BY PlainText
<1>2. Front(Root) \in Seq(Visible) /\ Last(Root) \in Visible
  BY <1>1, FrontAndLast
<1>3. Last(Root) \notin Dots /\ Root \in Seq(Visible \cup Dots)
  BY <1>1, <1>2, PlainText, SeqMonotonic
<1> QED BY <1>1, <1>2, <1>3 DEF Confined

LEMMA InitialStorage == Storage(InitialTree)
<1> DEFINE t == InitialTree
           old == Append(Beside, "old")
<1>1. /\ Root \in Seq(Plain) /\ Beside \in Seq(Plain) /\ old \in Seq(Plain)
      /\ <<>> \in Seq(Plain) /\ Root # <<>> /\ Beside # <<>> /\ old # <<>>
      /\ Front(Root) = <<>> /\ Front(Beside) = <<>> /\ Front(old) = Beside
      /\ Last(Root) = "srv" /\ Last(Beside) = "srvold" /\ Last(old) = "old"
      /\ Root # Beside /\ old # Root /\ old # Beside
  <2>1. /\ <<>> \in Seq(Plain) /\ "srv" \in Plain /\ "srvold" \in Plain /\ "old" \in Plain
    BY EmptySeq DEF Plain
  <2>2. Root = Append(<<>>, "srv") /\ Beside = Append(<<>>, "srvold")
    BY DEF Root, Beside
  <2> DEFINE none == <<>>
  <2>3. none \in Seq(Plain)
    BY <2>1
  <2> HIDE DEF none
  <2>4. /\ Root \in Seq(Plain) /\ Root # <<>> /\ Front(Root) = none /\ Last(Root) = "srv"
        /\ Beside \in Seq(Plain) /\ Beside # <<>> /\ Front(Beside) = none
        /\ Last(Beside) = "srvold"
    <3>1. Root = Append(none, "srv") /\ Beside = Append(none, "srvold")
      BY <2>2 DEF none
    <3> HIDE DEF Root, Beside
    <3> QED BY <2>1, <2>3, <3>1, FrontOfAppend
  <2>5. old \in Seq(Plain) /\ old # <<>> /\ Front(old) = Beside /\ Last(old) = "old"
    BY <2>1, <2>4, FrontOfAppend
  <2>6. "srv" # "srvold" /\ "old" # "srv" /\ "old" # "srvold"
    OBVIOUS
  <2> QED BY <2>1, <2>4, <2>5, <2>6 DEF none
<1>2. /\ t = [p \in DOMAIN t |-> t[p]] /\ DOMAIN t = {<<>>, Root, Beside, old}
      /\ t[<<>>] = "dir" /\ t[Root] = "dir" /\ t[Beside] = "dir" /\ t[old] = "file"
  BY <1>1 DEF InitialTree
<1> HIDE DEF t, old
<1>3. t \in Trees
  <2>1. DOMAIN t \in SUBSET Seq(Plain)
    BY <1>1, <1>2
  <2>2. t \in [DOMAIN t -> {"dir", "file"}]
    BY <1>2
  <2> QED BY <2>1, <2>2 DEF Trees
<1>4. WellFormed(t)
  <2>1. "srv" \notin Dots /\ "srvold" \notin Dots /\ "old" \notin Dots
    BY DEF Dots
  <2> QED BY <1>1, <1>2, <2>1 DEF WellFormed, IsDirAt
<1>5. PartsAreFiles(t)
  BY <1>1, <1>2 DEF PartsAreFiles, Made, Part, Converted
<1> QED BY <1>2, <1>3, <1>4, <1>5 DEF Storage, IsDirAt, t

LEMMA NoneOfRoot == DOMAIN InitialTree \cap OfRoot = {}
<1> SUFFICES ASSUME NEW p \in OfRoot, p \in DOMAIN InitialTree PROVE FALSE
  OBVIOUS
<1>1. Beside \in Seq(Plain) /\ "old" \in Plain /\ "old" \notin Made
  BY OneName DEF Beside, Plain, Made, Part, Converted
<1>2. p # <<>> /\ Last(p) \in Made /\ p # Root
  BY OfRootFacts
<1>3. Last(Append(Beside, "old")) = "old"
  BY <1>1, FrontOfAppend
<1>4. p # Beside
  <2>1. Beside[1] = "srvold" /\ PartPath[1] = "part" /\ <<Converted>>[1] = "converted"
    BY DEF Beside, PartPath, Part, Converted
  <2> QED BY <2>1 DEF OfRoot
<1> QED BY <1>1, <1>2, <1>3, <1>4 DEF InitialTree

LEMMA InitInv == Init => Inv
<1> SUFFICES ASSUME Init PROVE Inv
  OBVIOUS
<1>1. Storage(tree)
  BY InitialStorage DEF Init
<1>2. PathsOK
  BY RootConfined DEF Init, PathsOK
<1>3. PlacesOK
  BY DEF Init, PlacesOK, UploadPcs
<1>4. StagedOf(tree) = {}
  <2>1. /\ Root \in Seq(Plain) /\ <<>> \in Seq(Plain)
    BY PlainText
  <2> SUFFICES ASSUME NEW p \in DOMAIN tree, IsStaged(p) PROVE FALSE
    BY DEF StagedOf
  <2>2. tree[p] = "file" /\ p # <<>>
    <3>1. p \in Seq(Text) /\ Under(p, Root) /\ Last(p) = Part
      BY <1>1, TreePaths DEF Storage, IsStaged
    <3>2. p # <<>>
      BY <3>1, UnderRoot
    <3> QED BY <1>1, <3>1, <3>2, MadeFacts DEF Storage, PartsAreFiles
  <2>3. p = Append(Beside, "old")
    BY <2>2 DEF Init, InitialTree
  <2>4. Beside \in Seq(Plain) /\ "old" \in Plain
    BY OneName DEF Beside, Plain
  <2>5. Last(p) = "old"
    BY <2>3, <2>4, FrontOfAppend
  <2> QED BY <2>5 DEF IsStaged, Part
<1>5. StagedOK
  BY <1>4 DEF Init, StagedOK
<1>6. BesideOK
  <2>1. PartPath \notin DOMAIN tree
    BY NoneOfRoot DEF Init, OfRoot
  <2> QED BY <2>1 DEF BesideOK
<1> QED BY <1>1, <1>2, <1>3, <1>5, <1>6 DEF Inv

\* A change of the tree that stages nothing.
StagesNothing(t, u) ==
    /\ StagedOf(t) = {} => StagedOf(u) = {}
    /\ PartPath \in DOMAIN u => PartPath \in DOMAIN t

\* An invariant in the form in which the actions of this session keep it:
\* where no upload is under way, there is no staged file.
LEMMA HandlerInv ==
    ASSUME Inv, upPc = "none", UNCHANGED displaced, PathsOK', PlacesOK', Storage(tree'),
           StagesNothing(tree, tree'), upPc' \in {"none", "parent"}
    PROVE  Inv'
<1>1. StagedOK'
  BY DEF Inv, StagedOK, StagesNothing
<1>2. BesideOK'
  BY DEF Inv, BesideOK, StagesNothing
<1> QED BY <1>1, <1>2 DEF Inv

LEMMA SameStaged == ASSUME NEW t PROVE StagesNothing(t, t)
  BY DEF StagesNothing

LEMMA NoneStaged ==
    ASSUME NEW t, NEW u, DOMAIN u \subseteq DOMAIN t
    PROVE  StagesNothing(t, u)
  BY DEF StagesNothing, StagedOf

LEMMA PartIsOfRoot ==
    /\ PartPath # <<>> /\ Last(PartPath) \in Made /\ ~Under(PartPath, Root)
    /\ PartPath \in Seq(Plain)
<1>1. PartPath \in OfRoot
  BY DEF OfRoot
<1> QED BY <1>1, OfRootFacts

LEMMA PartLast == Last(PartPath) = Part
<1> DEFINE none == <<>>
<1>1. none \in Seq(Plain) /\ Part \in Plain
  BY EmptySeq, PlainText, MadeFacts
<1>2. PartPath = Append(none, Part)
  BY DEF PartPath
<1> HIDE DEF none
<1> QED BY <1>1, <1>2, FrontOfAppend

LEMMA GrowsStages ==
    ASSUME NEW t, NEW u, Grows(t, u)
    PROVE  StagesNothing(t, u)
<1>1. StagedOf(u) = StagedOf(t)
  BY NothingStaged
<1>2. PartPath \in DOMAIN u => PartPath \in DOMAIN t
  BY PartIsOfRoot DEF Grows
<1> QED BY <1>1, <1>2 DEF StagesNothing

LEMMA SessionInv == ASSUME Inv, Session PROVE Inv'
<1>0. Storage(tree) /\ PathsOK /\ PlacesOK
  BY DEF Inv
<1>1. CASE S_Command
  <2>1. PICK input \in Arguments :
            path' = Resolve(tree, currentDir, input)
    BY <1>1 DEF S_Command
  <2>2. path' = NoPath \/ Confined(path')
    BY <1>0, <2>1, ResolveConfined DEF PathsOK
  <2>3. PathsOK'
    BY <1>0, <1>1, <2>2 DEF PathsOK, S_Command, uploadVars
  <2>4. PlacesOK' /\ upPc = "none" /\ upPc' = "none"
    BY <1>0, <1>1 DEF PlacesOK, S_Command, Ready, uploadVars, Commands
  <2>5. tree' = tree /\ UNCHANGED displaced
    BY <1>1 DEF S_Command
  <2> QED BY <1>0, <2>3, <2>4, <2>5, HandlerInv, SameStaged
<1>2. CASE S_ChangeDirectory
  <2>1. PathsOK'
    BY <1>0, <1>2 DEF PathsOK, S_ChangeDirectory, Replies, Valid, uploadVars
  <2>2. PlacesOK' /\ upPc = "none" /\ upPc' = "none" /\ tree' = tree /\ UNCHANGED displaced
    BY <1>0, <1>2 DEF PlacesOK, S_ChangeDirectory, Replies, uploadVars
  <2> QED BY <1>0, <2>1, <2>2, HandlerInv, SameStaged
<1>3. CASE S_ChangeToParent
  <2>1. PathsOK'
    BY <1>0, <1>3, RootConfined DEF PathsOK, S_ChangeToParent, Replies, Valid, uploadVars
  <2>2. PlacesOK' /\ upPc = "none" /\ upPc' = "none" /\ tree' = tree /\ UNCHANGED displaced
    BY <1>0, <1>3 DEF PlacesOK, S_ChangeToParent, Replies, uploadVars
  <2> QED BY <1>0, <2>1, <2>2, HandlerInv, SameStaged
<1>4. CASE S_MayMake
  <2>1. PathsOK'
    BY <1>0, <1>4 DEF PathsOK, S_MayMake, Tests, Replies, uploadVars
  <2>2. PlacesOK' /\ upPc = "none" /\ upPc' = "none" /\ tree' = tree /\ UNCHANGED displaced
    BY <1>0, <1>4 DEF PlacesOK, S_MayMake, Tests, Replies, Valid, uploadVars
  <2> QED BY <1>0, <2>1, <2>2, HandlerInv, SameStaged
<1>5. CASE S_MakesDirectory
  <2>1. PathsOK'
    BY <1>0, <1>5 DEF PathsOK, S_MakesDirectory, Calls, Replies, uploadVars
  <2>2. PlacesOK' /\ upPc = "none" /\ upPc' = "none" /\ UNCHANGED displaced
    BY <1>0, <1>5 DEF PlacesOK, S_MakesDirectory, Calls, Replies, uploadVars
  <2>3. Confined(path) /\ tree' = MakeDirs(tree, path)
    BY <1>0, <1>5 DEF PathsOK, PlacesOK, S_MakesDirectory, Calls
  <2>4. Storage(tree') /\ StagesNothing(tree, tree')
    <3>1. Storage(MakeDirs(tree, path)) /\ Grows(tree, MakeDirs(tree, path))
      BY <1>0, <2>3, MakeDirsGrows
    <3> QED BY <2>3, <3>1, GrowsStages
  <2> QED BY <2>1, <2>2, <2>4, HandlerInv, SameStaged
<1>6. CASE S_MayRemoveDirectory
  <2>1. PathsOK'
    BY <1>0, <1>6 DEF PathsOK, S_MayRemoveDirectory, Tests, Replies, uploadVars
  <2>2. PlacesOK' /\ upPc = "none" /\ upPc' = "none" /\ tree' = tree /\ UNCHANGED displaced
    BY <1>0, <1>6 DEF PlacesOK, S_MayRemoveDirectory, Tests, Replies, Valid, uploadVars
  <2> QED BY <1>0, <2>1, <2>2, HandlerInv, SameStaged
<1>7. CASE S_RemovesDirectory
  <2>1. PathsOK'
    BY <1>0, <1>7 DEF PathsOK, S_RemovesDirectory, Calls, Replies, uploadVars
  <2>2. PlacesOK' /\ upPc = "none" /\ upPc' = "none" /\ UNCHANGED displaced
    BY <1>0, <1>7 DEF PlacesOK, S_RemovesDirectory, Calls, Replies, uploadVars
  <2>3. Confined(path) /\ path # Root /\ tree' = RemoveDir(tree, path)
    BY <1>0, <1>7 DEF PathsOK, PlacesOK, S_RemovesDirectory, Calls
  <2>4. Storage(tree') /\ DOMAIN tree' \subseteq DOMAIN tree
    BY <1>0, <2>3, DirRemoved
  <2> QED BY <2>1, <2>2, <2>4, NoneStaged, HandlerInv, SameStaged
<1>8. CASE S_MayDelete
  <2>1. PathsOK'
    BY <1>0, <1>8 DEF PathsOK, S_MayDelete, Tests, Replies, uploadVars
  <2>2. PlacesOK' /\ upPc = "none" /\ upPc' = "none" /\ tree' = tree /\ UNCHANGED displaced
    BY <1>0, <1>8 DEF PlacesOK, S_MayDelete, Tests, Replies, Valid, uploadVars
  <2> QED BY <1>0, <2>1, <2>2, HandlerInv, SameStaged
<1>9. CASE S_Deletes
  <2>1. PathsOK'
    BY <1>0, <1>9 DEF PathsOK, S_Deletes, Calls, Replies, uploadVars
  <2>2. PlacesOK' /\ upPc = "none" /\ upPc' = "none" /\ UNCHANGED displaced
    BY <1>0, <1>9 DEF PlacesOK, S_Deletes, Calls, Replies, uploadVars
  <2>3. Confined(path) /\ tree' = RemoveFile(tree, path)
    BY <1>0, <1>9 DEF PathsOK, PlacesOK, S_Deletes, Calls
  <2>4. Storage(tree') /\ DOMAIN tree' \subseteq DOMAIN tree
    BY <1>0, <2>3, FileRemoved
  <2> QED BY <2>1, <2>2, <2>4, NoneStaged, HandlerInv, SameStaged
<1>10. CASE S_RenameFrom
  <2>1. PathsOK'
    BY <1>0, <1>10 DEF PathsOK, S_RenameFrom, Replies, uploadVars
  <2>2. PlacesOK' /\ upPc = "none" /\ upPc' = "none" /\ tree' = tree /\ UNCHANGED displaced
    BY <1>0, <1>10 DEF PlacesOK, S_RenameFrom, Replies, uploadVars
  <2> QED BY <1>0, <2>1, <2>2, HandlerInv, SameStaged
<1>11. CASE S_RenameTo
  <2>1. PathsOK'
    BY <1>0, <1>11 DEF PathsOK, S_RenameTo, Calls, Replies, uploadVars
  <2>2. PlacesOK' /\ upPc = "none" /\ upPc' = "none" /\ UNCHANGED displaced
    BY <1>0, <1>11 DEF PlacesOK, S_RenameTo, Calls, Replies, uploadVars
  <2>3. Confined(renameFrom)
    BY <1>0, <1>11 DEF PathsOK, PlacesOK, S_RenameTo
  <2>4. Storage(tree') /\ StagesNothing(tree, tree')
    <3>1. CASE Valid
      <4>1. Confined(path) /\ tree' = Rename(tree, renameFrom, path)
        BY <1>0, <1>11, <3>1 DEF PathsOK, Valid, S_RenameTo, Calls
      <4> QED BY <1>0, <2>3, <4>1, RenameKeeps, PartIsOfRoot DEF StagesNothing
    <3>2. CASE ~Valid
      BY <1>0, <1>11, <3>2, SameStaged DEF S_RenameTo, Calls
    <3> QED BY <3>1, <3>2
  <2> QED BY <2>1, <2>2, <2>4, HandlerInv, SameStaged
<1>12. CASE S_Store
  <2>1. PathsOK'
    BY <1>0, <1>12 DEF PathsOK, S_Store, Replies
  <2>2. /\ PlacesOK' /\ upPc = "none" /\ upPc' \in {"none", "parent"}
        /\ tree' = tree /\ UNCHANGED displaced
    BY <1>0, <1>12 DEF PlacesOK, S_Store, Replies, Valid, UploadPcs
  <2> QED BY <1>0, <2>1, <2>2, HandlerInv, SameStaged
<1> QED
  BY <1>1, <1>2, <1>3, <1>4, <1>5, <1>6, <1>7, <1>8, <1>9, <1>10, <1>11, <1>12
  DEF Session

\* The paths and the places of an upload; its staged file.
LEMMA UploadFacts ==
    ASSUME Inv, upPc # "none"
    PROVE  /\ Storage(tree) /\ PathsOK /\ PlacesOK /\ Confined(upTarget) /\ pc = "read"
           /\ Staged = MadeFor(upTarget, Part) /\ Staged \in Seq(Plain) /\ Staged # <<>>
           /\ Front(Staged) = Directory /\ Last(Staged) = Part /\ Usable(Staged)
           /\ Confined(Directory) \/ Directory = <<>>
           /\ Under(Staged, Root) => IsStaged(Staged)
           /\ Staged = PartPath => upTarget = Root
           /\ Usable(Conversion) /\ Last(Conversion) = Converted
<1>1. Storage(tree) /\ PathsOK /\ PlacesOK /\ Confined(upTarget) /\ pc = "read"
  BY DEF Inv, PathsOK, PlacesOK
<1>2. /\ Staged = MadeFor(upTarget, Part) /\ Directory = Front(upTarget)
      /\ Conversion = MadeFor(upTarget, Converted)
  BY DEF Staged, Conversion, MadeFor, Directory
<1>3. /\ Staged \in Seq(Plain) /\ Staged # <<>>
      /\ Front(Staged) = Directory /\ Last(Staged) = Part /\ Usable(Staged)
      /\ Confined(Directory) \/ Directory = <<>>
      /\ Under(Staged, Root) \/ upTarget = Root
  BY <1>1, <1>2, Stage, MadeFacts
<1>4. Under(Staged, Root) => IsStaged(Staged)
  BY <1>3 DEF IsStaged, Usable
<1>5. Usable(Conversion) /\ Last(Conversion) = Converted
  BY <1>1, <1>2, Stage, MadeFacts
<1>6. Staged = PartPath => upTarget = Root
  BY <1>3, PartIsOfRoot
<1> QED BY <1>1, <1>2, <1>3, <1>4, <1>5, <1>6

\* What the upload does to the tree, but for the steps that stage the file,
\* install it and remove it.
LEMMA UploadBeside ==
    ASSUME Inv, upPc \notin {"none", "open"}, Staged' = Staged,
           upPc' \notin {"none", "parent", "open"} \/ upPc = "parent",
           PartPath \in DOMAIN tree' => PartPath \in DOMAIN tree
    PROVE  BesideOK'
  BY DEF Inv, BesideOK

LEMMA UploadInv == ASSUME Inv, Upload PROVE Inv'
<1>0. upPc # "none" /\ HandlerStays
  BY DEF Upload, U_MakeParent, U_Open, U_Receive, U_MakeParentAgain, U_Install,
         U_Convert, U_Replace, U_Append, U_CleanUp
<1>1. /\ Storage(tree) /\ PathsOK /\ PlacesOK /\ Confined(upTarget) /\ pc = "read"
      /\ Staged = MadeFor(upTarget, Part) /\ Staged \in Seq(Plain) /\ Staged # <<>>
      /\ Front(Staged) = Directory /\ Last(Staged) = Part /\ Usable(Staged)
      /\ Confined(Directory) \/ Directory = <<>>
      /\ Usable(Conversion) /\ Last(Conversion) = Converted
      /\ BesideOK
  BY <1>0, UploadFacts DEF Inv
<1>2. PathsOK' /\ PlacesOK'
  <2>1. Goes(upPc') \/ UploadEnds
    BY DEF Upload, U_MakeParent, U_Open, U_Receive, U_MakeParentAgain, U_Install,
           U_Convert, U_Replace, U_Append, U_CleanUp, Goes, UploadEnds
  <2>2. upPc' \in UploadPcs
    BY DEF Upload, U_MakeParent, U_Open, U_Receive, U_MakeParentAgain, U_Install,
           U_Convert, U_Replace, U_Append, U_CleanUp, Goes, UploadEnds, UploadPcs
  <2> QED
    BY <1>0, <1>1, <2>1, <2>2
    DEF PathsOK, PlacesOK, HandlerStays, handlerVars, Goes, UploadEnds
<1>3. UNCHANGED displaced
  BY <1>0 DEF HandlerStays
<1>4. StagedOK
  BY DEF Inv
<1>5. CASE U_MakeParent
  <2>1. /\ Storage(tree') /\ StagedOf(tree') = StagedOf(tree)
        /\ StagesNothing(tree, tree')
    <3>1. /\ Storage(MakeDirs(tree, Directory)) /\ Grows(tree, MakeDirs(tree, Directory))
      BY <1>1, MakeDirsGrows
    <3> QED BY <1>5, <3>1, NothingStaged, GrowsStages DEF U_MakeParent
  <2>2. upPc = "parent" /\ upPc' # "install" /\ Staged' = Staged
    BY <1>5 DEF U_MakeParent, Goes, Staged, Directory
  <2>3. StagedOK'
    BY <1>3, <1>4, <2>1, <2>2 DEF StagedOK
  <2>4. BesideOK'
    BY <2>1, <2>2, UploadBeside DEF StagesNothing
  <2> QED BY <1>2, <2>1, <2>3, <2>4 DEF Inv
<1>6. CASE U_Open
  <2>1. tree' = CreateFile(tree, Staged) /\ upPc = "open"
    BY <1>6 DEF U_Open
  <2>2. Storage(tree') /\ DOMAIN tree' \subseteq DOMAIN tree \cup {Staged}
    BY <1>1, <2>1, CreateStaged, MadeFacts
  <2>3. upPc' \in {"receive", "cleanup"} /\ Staged' = Staged
    BY <1>6 DEF U_Open, Goes, Staged, Directory
  <2>4. ~displaced => StagedOf(tree') \subseteq {Staged}
    BY <1>4, <2>1, <2>2 DEF StagedOK, StagedOf
  <2>5. StagedOK'
    BY <1>3, <2>3, <2>4 DEF StagedOK
  <2>6. BesideOK'
    BY <1>1, <2>1, <2>2, <2>3 DEF BesideOK
  <2> QED BY <1>2, <2>2, <2>5, <2>6 DEF Inv
<1>7. CASE U_Receive
  <2>1. /\ tree' = tree /\ upPc = "receive" /\ Staged' = Staged
        /\ upPc' \in {"install", "cleanup"} /\ (upPc' = "install" => Exists(tree, Staged))
    BY <1>7 DEF U_Receive, Goes, Staged, Directory
  <2>2. Exists(tree, Staged) => Staged \in DOMAIN tree
    BY <1>1, WalkPlain DEF Exists, Storage
  <2>3. StagedOK'
    BY <1>3, <1>4, <2>1, <2>2 DEF StagedOK
  <2>4. BesideOK'
    BY <2>1, UploadBeside
  <2> QED BY <1>1, <1>2, <2>1, <2>3, <2>4 DEF Inv
<1>8. CASE U_MakeParentAgain
  <2>1. /\ Storage(tree') /\ StagedOf(tree') = StagedOf(tree)
        /\ StagesNothing(tree, tree')
    <3>1. /\ Storage(MakeDirs(tree, Directory)) /\ Grows(tree, MakeDirs(tree, Directory))
      BY <1>1, MakeDirsGrows
    <3> QED BY <1>8, <3>1, NothingStaged, GrowsStages DEF U_MakeParentAgain
  <2>2. /\ upPc = "install" /\ Staged' = Staged
        /\ upPc' \in {"rename", "convert", "append", "cleanup"}
    BY <1>8 DEF U_MakeParentAgain, Goes, Staged, Directory
  <2>3. StagedOK'
    BY <1>3, <1>4, <2>1, <2>2 DEF StagedOK
  <2>4. BesideOK'
    BY <2>1, <2>2, UploadBeside DEF StagesNothing
  <2> QED BY <1>2, <2>1, <2>3, <2>4 DEF Inv
<1>9. CASE U_Install
  <2>1. tree' = Rename(tree, Staged, upTarget) /\ upPc = "rename"
    BY <1>9 DEF U_Install
  <2>2. /\ Storage(tree')
        /\ CanRename(tree, Staged, upTarget) /\ StagedOf(tree) \subseteq {Staged}
             => StagedOf(tree') = {}
        /\ ~CanRename(tree, Staged, upTarget) => tree' = tree
    BY <1>1, <2>1, RenameKeeps
  <2>7. ASSUME CanRename(tree, Staged, upTarget), ~Under(Staged, Root)
        PROVE  Staged \notin DOMAIN tree'
    <3>1. Last(Staged) \in Made
      BY <1>1, MadeFacts
    <3> QED BY <1>1, <2>1, <2>7, <3>1, RenameKeeps
  <2>6. PartPath \in DOMAIN tree' => PartPath \in DOMAIN tree
    <3>1. \A p \in DOMAIN tree' : ~Under(p, Root) => p \in DOMAIN tree
      BY <1>1, <2>1, RenameKeeps
    <3> QED BY <3>1, PartIsOfRoot
  <2>3. ~displaced => StagedOf(tree) \subseteq {Staged}
    BY <1>4 DEF StagedOK
  <2>4. StagedOK'
    <3>1. CASE CanRename(tree, Staged, upTarget)
      <4>1. upPc' = "none"
        BY <1>9, <3>1 DEF U_Install, UploadEnds
      <4> QED BY <1>3, <2>2, <2>3, <3>1, <4>1 DEF StagedOK
    <3>2. CASE ~CanRename(tree, Staged, upTarget)
      <4>1. upPc' = "cleanup" /\ Staged' = Staged
        BY <1>9, <3>2 DEF U_Install, Goes, Staged, Directory
      <4> QED BY <1>3, <1>4, <2>2, <3>2, <4>1 DEF StagedOK
    <3> QED BY <3>1, <3>2
  <2>5. BesideOK'
    <3>1. CASE CanRename(tree, Staged, upTarget)
      <4>1. PartPath \notin DOMAIN tree'
        BY <1>1, <2>6, <2>7, <3>1, PartIsOfRoot DEF BesideOK
      <4> QED BY <4>1 DEF BesideOK
    <3>2. CASE ~CanRename(tree, Staged, upTarget)
      <4>1. upPc' = "cleanup" /\ Staged' = Staged
        BY <1>9, <3>2 DEF U_Install, Goes, Staged, Directory
      <4> QED BY <2>1, <2>6, <4>1, UploadBeside
    <3> QED BY <3>1, <3>2
  <2> QED BY <1>2, <2>2, <2>4, <2>5 DEF Inv
<1>10. CASE U_CleanUp
  <2>1. tree' = RemoveFile(tree, Staged) /\ upPc' = "none"
    BY <1>10 DEF U_CleanUp, UploadEnds
  <2>2. Storage(tree') /\ DOMAIN tree' \subseteq DOMAIN tree /\ Staged \notin DOMAIN tree'
    BY <1>1, <2>1, FileRemoved, MadeFacts
  <2>3. ~displaced => StagedOf(tree') = {}
    BY <1>4, <2>2 DEF StagedOK, StagedOf
  <2>4. StagedOK'
    BY <1>3, <2>1, <2>3 DEF StagedOK
  <2>5. BesideOK'
    BY <1>1, <2>2 DEF BesideOK
  <2> QED BY <1>2, <2>2, <2>4, <2>5 DEF Inv
<1>11. CASE U_Convert
  <2>1. /\ upPc = "convert" /\ upPc' \in {"replace", "cleanup"} /\ Staged' = Staged
        /\ tree' = tree \/ tree' = CreateFile(tree, Conversion)
    BY <1>11 DEF U_Convert, Goes, Staged, Directory
  <2>2. Storage(tree') /\ DOMAIN tree' \subseteq DOMAIN tree \cup {Conversion}
    BY <1>1, <2>1, CreateStaged, MadeFacts
  <2>3. Conversion # PartPath /\ ~IsStaged(Conversion)
    BY <1>1, PartLast, MadeFacts DEF IsStaged
  <2>4. StagedOf(tree') \subseteq StagedOf(tree)
    BY <2>2, <2>3 DEF StagedOf
  <2>5. StagedOK'
    BY <1>3, <1>4, <2>1, <2>4 DEF StagedOK
  <2>6. BesideOK'
    BY <2>1, <2>2, <2>3, UploadBeside
  <2> QED BY <1>2, <2>2, <2>5, <2>6 DEF Inv
<1>12. CASE U_Replace
  <2>1. /\ upPc = "replace" /\ upPc' = "cleanup" /\ Staged' = Staged
        /\ tree' = Rename(tree, Conversion, upTarget)
    BY <1>12 DEF U_Replace, Goes, Staged, Directory
  <2>2. /\ Storage(tree')
        /\ PartPath \in DOMAIN tree' => PartPath \in DOMAIN tree
        /\ StagedOf(tree') \subseteq StagedOf(tree)
    BY <1>1, <2>1, RenameKeeps, MadeFacts, PartIsOfRoot
  <2>3. StagedOK'
    BY <1>3, <1>4, <2>1, <2>2 DEF StagedOK
  <2>4. BesideOK'
    BY <2>1, <2>2, UploadBeside
  <2> QED BY <1>2, <2>2, <2>3, <2>4 DEF Inv
<1>13. CASE U_Append
  <2>1. /\ upPc = "append" /\ upPc' = "cleanup" /\ Staged' = Staged
        /\ tree' = tree \/ tree' = CreateFile(tree, upTarget)
    BY <1>13 DEF U_Append, Goes, Staged, Directory
  <2>2. Storage(tree') /\ Grows(tree, tree')
    <3>1. Grows(tree, tree)
      BY DEF Grows
    <3> QED BY <1>1, <2>1, <3>1, CreateConfined
  <2>3. StagedOf(tree') = StagedOf(tree) /\ StagesNothing(tree, tree')
    BY <2>2, NothingStaged, GrowsStages
  <2>4. StagedOK'
    BY <1>3, <1>4, <2>1, <2>3 DEF StagedOK
  <2>5. BesideOK'
    BY <2>1, <2>3, UploadBeside DEF StagesNothing
  <2> QED BY <1>2, <2>2, <2>4, <2>5 DEF Inv
<1> QED
  BY <1>5, <1>6, <1>7, <1>8, <1>9, <1>10, <1>11, <1>12, <1>13 DEF Upload

\* A staged file of the upload stays where it is, unless others displace it.
LEMMA OthersInv == ASSUME Inv, Others PROVE Inv'
<1>0. Storage(tree) /\ PathsOK /\ PlacesOK /\ StagedOK /\ BesideOK /\ OwnVarsStay
  BY DEF Inv, Others, O_Makes, O_Removes, O_Renames
<1>1. PathsOK' /\ Staged' = Staged /\ UNCHANGED <<pc, path, upPc, upTarget, renameFrom>>
  BY <1>0 DEF PathsOK, Staged, Directory, OwnVarsStay, handlerVars, uploadVars
<1>2. displaced' \in BOOLEAN => PlacesOK'
  BY <1>0, <1>1 DEF PlacesOK
<1>3. ASSUME displaced' \in BOOLEAN, Storage(tree'),
             ~displaced' => ~displaced /\ StagedOf(tree') = StagedOf(tree),
             \A p \in DOMAIN tree : ~Under(p, Root) => p \in DOMAIN tree',
             PartPath \in DOMAIN tree' => PartPath \in DOMAIN tree
      PROVE  Inv'
  <2>1. ASSUME ~displaced', upPc = "install" PROVE Staged \in DOMAIN tree'
    <3>1. Staged \in DOMAIN tree /\ StagedOf(tree') = StagedOf(tree)
      BY <1>0, <1>3, <2>1 DEF StagedOK
    <3>2. Under(Staged, Root) => IsStaged(Staged)
      BY <2>1, UploadFacts
    <3>3. CASE Under(Staged, Root)
      BY <3>1, <3>2, <3>3 DEF StagedOf
    <3>4. CASE ~Under(Staged, Root)
      BY <1>3, <3>1, <3>4
    <3> QED BY <3>3, <3>4
  <2>2. StagedOK'
    BY <1>0, <1>1, <1>3, <2>1 DEF StagedOK
  <2>3. BesideOK'
    BY <1>0, <1>1, <1>3 DEF BesideOK
  <2> QED BY <1>1, <1>2, <1>3, <2>2, <2>3 DEF Inv
<1>4. CASE O_Makes
  <2>1. PICK p \in Places \ DOMAIN tree : tree' \in {MakeDir(tree, p), CreateFile(tree, p)}
    BY <1>4 DEF O_Makes
  <2>2. MayReceive(p)
    BY <1>0, <2>1, PlacesReceive
  <2>3. Storage(tree') /\ Grows(tree, tree')
    BY <1>0, <2>1, <2>2, OtherMakes
  <2>4. displaced' = displaced /\ displaced \in BOOLEAN
    BY <1>0, <1>4 DEF O_Makes, PlacesOK
  <2>5. /\ StagedOf(tree') = StagedOf(tree) /\ DOMAIN tree \subseteq DOMAIN tree'
        /\ PartPath \in DOMAIN tree' => PartPath \in DOMAIN tree
    BY <2>3, NothingStaged, GrowsStages DEF Grows, StagesNothing
  <2> QED BY <1>3, <2>3, <2>4, <2>5
<1>5. CASE O_Removes
  <2>1. PICK p \in {q \in DOMAIN tree : Under(q, Root) /\ q # Root} :
            tree' \in {RemoveDir(tree, p), RemoveFile(tree, p)}
    BY <1>5 DEF O_Removes
  <2>2. Usable(p)
    BY <1>0, <2>1, OthersUse
  <2>3. /\ Storage(tree') /\ DOMAIN tree \subseteq DOMAIN tree' \cup {p}
        /\ DOMAIN tree' \subseteq DOMAIN tree
    BY <1>0, <2>1, <2>2, DirRemoved, FileRemoved
  <2>4. /\ displaced' \in BOOLEAN
        /\ ~displaced' => ~displaced /\ StagedOf(tree') = StagedOf(tree)
    BY <1>5 DEF O_Removes
  <2> QED BY <1>3, <2>1, <2>3, <2>4
<1>6. CASE O_Renames
  <2>1. PICK p \in {q \in DOMAIN tree : Under(q, Root) /\ q # Root}, new \in Places :
            tree' = Rename(tree, p, new)
    BY <1>6 DEF O_Renames
  <2>2. Usable(p) /\ MayReceive(new)
    BY <1>0, <2>1, OthersUse, PlacesReceive
  <2>3. /\ Storage(tree')
        /\ \A q \in DOMAIN tree : ~Under(q, Root) => q \in DOMAIN tree'
        /\ PartPath \in DOMAIN tree' => PartPath \in DOMAIN tree
    BY <1>0, <2>1, <2>2, RenameKeeps, PartIsOfRoot
  <2>4. /\ displaced' \in BOOLEAN
        /\ ~displaced' => ~displaced /\ StagedOf(tree') = StagedOf(tree)
    BY <1>6 DEF O_Renames
  <2> QED BY <1>3, <2>3, <2>4
<1> QED BY <1>4, <1>5, <1>6 DEF Others

LEMMA NextInv == ASSUME Inv, [Next]_vars PROVE Inv'
<1>1. CASE Session
  BY <1>1, SessionInv
<1>2. CASE Upload
  BY <1>2, UploadInv
<1>3. CASE Others
  BY <1>3, OthersInv
<1>4. CASE UNCHANGED vars
  BY <1>4 DEF vars, handlerVars, uploadVars, Inv, PathsOK, PlacesOK, StagedOK, BesideOK,
     Staged, Directory
<1> QED BY <1>1, <1>2, <1>3, <1>4 DEF Next

LEMMA Invariance == Spec => []Inv
  BY InitInv, NextInv, PTL DEF Spec

-------------------------------------------------------------------------------
(* The theorems.                                                           *)

(* The tree of files is well formed, and each path that the session keeps  *)
(* (current_dir, rename_from, what resolve_safe_path has returned, and the *)
(* destination of an upload) is in the storage root.                       *)
THEOREM Typing == Spec => []TypeOK
<1>1. Inv => TypeOK
  <2> SUFFICES ASSUME Inv PROVE TypeOK
    OBVIOUS
  <2>1. Storage(tree) /\ PathsOK /\ PlacesOK
    BY DEF Inv
  <2>2. /\ Plain \subseteq Components /\ Visible \cup Dots \subseteq Components
    BY PlainText DEF Plain, Visible, Made, Components
  <2>3. ASSUME NEW p \in DOMAIN tree PROVE p \in Seq(Components) /\ tree[p] \in {"dir", "file"}
    <3>1. p \in Seq(Plain) /\ tree[p] \in {"dir", "file"}
      BY <2>1, TreePaths DEF Storage
    <3> QED BY <2>2, <3>1, SeqMonotonic
  <2>4. ASSUME NEW p, p = NoPath \/ Confined(p) PROVE InStorageOrNot(p)
    <3>1. CASE Confined(p)
      <4>1. p \in Seq(Components)
        BY <2>2, <3>1, SeqMonotonic DEF Confined
      <4>2. Under(p, Root)
        BY <3>1, ConfinedText
      <4> QED BY <4>1, <4>2 DEF InStorageOrNot
    <3>2. CASE p = NoPath
      BY <3>2 DEF InStorageOrNot
    <3> QED BY <2>4, <3>1, <3>2
  <2>5. currentDir # NoPath
    BY <2>1, ConfinedText DEF PathsOK
  <2>6. \A p \in {currentDir, renameFrom, path, upTarget} : InStorageOrNot(p)
    BY <2>1, <2>4 DEF PathsOK
  <2> QED BY <2>1, <2>3, <2>5, <2>6 DEF TypeOK, PlacesOK, Storage
<1> QED BY <1>1, Invariance, PTL


(* file_system.py:1 - whatever the arguments of CWD, MKD, RMD, DELE, RNFR, *)
(* RNTO, STOR and APPE, and whatever the other sessions do between the     *)
(* test of a path and its use: nothing that is outside the storage root is *)
(* removed, renamed or replaced.  Something is made there only by an       *)
(* upload whose target is the root: its staged file, which is there only   *)
(* as long as the upload is under way, and its converted file, which       *)
(* nothing removes.                                                        *)
THEOREM OutsideIsKept == Spec => []OutsideKept
<1>1. Inv => OutsideKept
  <2> SUFFICES ASSUME Inv PROVE OutsideKept
    OBVIOUS
  <2>1. Storage(tree) /\ BesideOK /\ tree \in Trees
    BY DEF Inv, Storage
  <2>2. \A p \in DOMAIN tree : p \in OfRoot => tree[p] = "file"
    BY <2>1, OfRootFacts DEF Storage, PartsAreFiles
  <2>3. \A e \in Outside(tree) : e \in {StagedOutside, ConvertedOutside} <=> e[1] \in OfRoot
    BY <2>2 DEF Outside, StagedOutside, ConvertedOutside, OfRoot, PartPath
  <2>4. Outside(tree) \ {StagedOutside, ConvertedOutside} = Kept(tree)
    <3>1. Kept(tree) = {e \in Outside(tree) : e[1] \notin OfRoot}
      BY DEF Kept, Outside, Untouched
    <3> QED BY <2>3, <3>1
  <2>5. Kept(InitialTree) = Outside(InitialTree)
    BY NoneOfRoot DEF Kept, Outside, Untouched
  <2>6. StagedOutside \in Outside(tree) => upTarget = Root
    <3>1. StagedOutside \in Outside(tree) => PartPath \in DOMAIN tree
      BY DEF Outside, StagedOutside, PartPath
    <3>2. PartPath \in DOMAIN tree => upTarget = Root
      BY <2>1, UploadFacts DEF BesideOK
    <3> QED BY <3>1, <3>2
  <2> QED BY <2>1, <2>4, <2>5, <2>6 DEF OutsideKept, Storage
<1> QED BY <1>1, Invariance, PTL

(* The storage root is never removed, renamed or replaced: RMD tests for   *)
(* it (tcp_server.py), and a rename of it would have to go under it.       *)
THEOREM RootIsKept == Spec => []RootStays
<1>1. Inv => RootStays
  BY DEF Inv, Storage, RootStays
<1> QED BY <1>1, Invariance, PTL

(* Both exception handlers of udp_receive_file unlink what the upload has  *)
(* staged, and the rename takes it away: no staged file outlives its       *)
(* upload, unless another session has moved it.                            *)
THEOREM NoStagedFileIsLeft == Spec => []StagedIsRemoved
<1>1. Inv => StagedIsRemoved
  BY DEF Inv, StagedOK, StagedIsRemoved
<1> QED BY <1>1, Invariance, PTL

(* What resolve_safe_path returns means the entry that the kernel finds,   *)
(* or would make, for the argument: one in the root, or (of a path through *)
(* a file) none.  It refuses no argument whose entry is in the root.       *)
THEOREM ResolvingAgrees == Spec => []ResolveAgrees
<1>1. Inv => ResolveAgrees
  <2> SUFFICES ASSUME Inv, NEW input \in Arguments,
                      NEW out, out = Resolve(tree, currentDir, input),
                      NEW meant, meant = Entry(tree, Target(currentDir, input))
               PROVE  /\ out # NoPath =>
                            /\ Entry(tree, out) = meant
                            /\ (meant # NoPath /\ Under(meant, Root)) \/ meant = NoPath
                      /\ meant # NoPath /\ Under(meant, Root) => out # NoPath
    BY DEF ResolveAgrees
  <2>1. Storage(tree) /\ Confined(currentDir) /\ tree \in Trees /\ WellFormed(tree)
    BY DEF Inv, PathsOK, Storage
  <2> DEFINE target == Target(currentDir, input)
             f == Front(target)
             l == Last(target)
             w == Walk(tree, f)
             real == RealPath(tree, target)
  <2>2. target \in Seq(Visible \cup Dots) /\ target # <<>>
    BY <2>1, TargetNames
  <2>3. out = IF InsideRoot(real) THEN real ELSE NoPath
    BY DEF Resolve
  <2>4. meant = Entry(tree, target)
    OBVIOUS
  <2> HIDE DEF target
  <2>5. /\ l \in Visible \cup Dots
        /\ Exists(tree, target) => /\ real = meant
                                   /\ meant \in Seq(Visible) /\ meant \in DOMAIN tree
        /\ ~Exists(tree, target) /\ Exists(tree, f) =>
              /\ real = Append(w, l) /\ w \in Seq(Visible) /\ w \in DOMAIN tree
              /\ l \in Dots => Into(tree, w, l) = NoPath
              /\ meant = IF l \notin Dots /\ IsDirAt(tree, w) THEN Append(w, l) ELSE NoPath
        /\ ~Exists(tree, target) /\ ~Exists(tree, f) => real = NoPath /\ meant = NoPath
    BY <2>1, <2>2, <2>4, RealPathLeads
  <2> HIDE DEF f, l, w, real
  <2>6. CASE Exists(tree, target)
    <3>1. real = meant /\ meant \in Seq(Text) /\ meant \in DOMAIN tree /\ meant # NoPath
      BY <2>1, <2>5, <2>6, TreePaths
    <3>2. InsideRoot(real) <=> Under(meant, Root)
      BY <3>1, InsideIsUnder
    <3>3. Entry(tree, meant) = meant
      BY <3>1 DEF Entry, Walk
    <3> QED BY <2>3, <3>1, <3>2, <3>3
  <2>7. CASE ~Exists(tree, target) /\ Exists(tree, f)
    <3>1. /\ real = Append(w, l) /\ w \in Seq(Visible) /\ w \in DOMAIN tree
          /\ w \in Seq(Plain) /\ w \in Seq(Text) /\ l \in Text
      BY <2>5, <2>7, PlainText DEF Text
    <3>2. real \in Seq(Text) /\ real # <<>> /\ Front(real) = w /\ Last(real) = l
      BY <3>1, FrontOfAppend
    <3>3. InsideRoot(real) <=> Under(real, Root)
      BY <3>2, InsideIsUnder
    <3>4. CASE l \in Dots
      <4>1. meant = NoPath
        BY <2>5, <2>7, <3>4
      <4>2. Walk(tree, w) = w
        BY <3>1 DEF Walk
      <4>3. Walk(tree, real) = NoPath
        BY <2>1, <2>5, <2>7, <3>2, <3>4, <4>2, WalkFront
      <4>4. Entry(tree, real) = NoPath
        BY <3>2, <3>4, <4>3 DEF Entry
      <4> QED BY <2>3, <4>1, <4>4
    <3>5. CASE l \notin Dots
      <4>1. l \in Visible /\ l \in Plain
        BY <2>5, <3>5, PlainText
      <4>2. real \in Seq(Plain)
        BY <3>1, <4>1, AppendProperties
      <4>3. Entry(tree, real) = IF IsDirAt(tree, w) THEN real ELSE NoPath
        BY <2>1, <3>2, <4>2, EntryPlain
      <4>4. meant = IF IsDirAt(tree, w) THEN real ELSE NoPath
        BY <2>5, <2>7, <3>1, <3>5
      <4>5. real # NoPath
        BY <4>2, PlainText
      <4> QED BY <2>3, <3>3, <4>3, <4>4, <4>5
    <3> QED BY <3>4, <3>5
  <2>8. CASE ~Exists(tree, target) /\ ~Exists(tree, f)
    BY <2>3, <2>5, <2>8
  <2> QED BY <2>6, <2>7, <2>8
<1> QED BY <1>1, Invariance, PTL

(* What get_ftp_path shows of the working directory (PWD) is resolved by   *)
(* CWD to that directory, from wherever the session is, if it exists.      *)
THEOREM ShownPathLeadsBack == Spec => []PwdLeadsBack
<1>1. Inv => PwdLeadsBack
  <2> SUFFICES ASSUME Inv, Exists(tree, currentDir), NEW base
               PROVE  Resolve(tree, base, FtpPath(currentDir)) = Walk(tree, currentDir)
    BY DEF PwdLeadsBack
  <2>1. Storage(tree) /\ Confined(currentDir) /\ tree \in Trees
    BY DEF Inv, PathsOK, Storage
  <2>2. /\ currentDir \in Seq(Text) /\ currentDir # <<>> /\ Under(currentDir, Root)
        /\ Root \in Seq(Text) /\ Len(Root) = 1
    BY <2>1, ConfinedText, PlainText
  <2>3. Target(base, FtpPath(currentDir)) = currentDir
    <3>1. currentDir = Root \o RestOf(currentDir, Root)
      BY <2>2, Rest
    <3>2. RestOf(currentDir, Root) = SubSeq(currentDir, 2, Len(currentDir))
      BY <2>2 DEF RestOf
    <3> QED BY <3>1, <3>2 DEF Target, FtpPath
  <2> DEFINE w == Walk(tree, currentDir)
  <2>4. currentDir \in Seq(Visible \cup Dots)
    BY <2>1 DEF Confined
  <2>5. /\ RealPath(tree, currentDir) = w /\ Entry(tree, currentDir) = w
        /\ w \in Seq(Visible) /\ w \in DOMAIN tree
    BY <2>1, <2>2, <2>4, RealPathLeads
  <2>6. w # NoPath
    BY <2>1, <2>5, TreePaths
  <2> HIDE DEF w
  <2>7. Under(w, Root) /\ w \in Seq(Text)
    BY <2>1, <2>5, <2>6, EntryConfined, PlainText
  <2>8. InsideRoot(w)
    BY <2>7, InsideIsUnder
  <2> QED BY <2>3, <2>5, <2>8 DEF Resolve, w
<1> QED BY <1>1, Invariance, PTL

(* The mkdir before the rename makes no directory: the one that the upload *)
(* was staged in is there as long as the staged file is, so an RMD of      *)
(* another session is not undone.                                          *)
THEOREM DirectoryIsHeld == Spec => ParentHeld
<1>1. ASSUME Inv, [Next]_vars
      PROVE  [upPc = "install" /\ upPc' # "install" /\ ~displaced
                => UNCHANGED tree]_vars
  <2> SUFFICES ASSUME Next, upPc = "install", upPc' # "install", ~displaced
               PROVE  UNCHANGED tree
    BY <1>1 DEF vars
  <2>1. U_MakeParentAgain
    <3>1. ~Session
      BY <1>1 DEF Inv, PlacesOK, Session, S_Command, Ready, S_ChangeDirectory,
          S_ChangeToParent, S_MayMake, S_MakesDirectory, S_MayRemoveDirectory,
          S_RemovesDirectory, S_MayDelete, S_Deletes, S_RenameFrom, S_RenameTo, S_Store
    <3>2. ~Others
      BY DEF Others, O_Makes, O_Removes, O_Renames, OwnVarsStay, uploadVars
    <3> QED
      BY <3>1, <3>2 DEF Next, Upload, U_MakeParent, U_Open, U_Receive, U_Install,
          U_Convert, U_Replace, U_Append, U_CleanUp
  <2>2. /\ Storage(tree) /\ Staged \in DOMAIN tree
        /\ Staged # <<>> /\ Front(Staged) = Directory
    BY <1>1, UploadFacts DEF Inv, StagedOK
  <2>3. Directory \in DOMAIN tree
    BY <2>2 DEF Storage, WellFormed, IsDirAt
  <2>4. MakeDirs(tree, Directory) = tree
    BY <2>2, <2>3, MakeDirsNothing
  <2> QED BY <2>1, <2>4 DEF U_MakeParentAgain
<1> QED BY <1>1, Invariance, PTL DEF ParentHeld, Spec
===============================================================================
