----------------------------- MODULE TextProofs -----------------------------
(***************************************************************************)
(* What TLAPS proves of Texts, for texts of any length: a text and what    *)
(* str.strip leaves of it have one hash, and texts of one hash have the    *)
(* same words, sentences, lead and keywords.                               *)
(*                                                                         *)
(* Each operation keeps some places of a text in their order, and each     *)
(* proof names the places of the original that are left in the end.  Rank  *)
(* counts, so that facts about cardinalities replace an induction.         *)
(***************************************************************************)
EXTENDS Texts, FiniteSetTheorems, TLAPS

-----------------------------------------------------------------------------
(* Places and their ranks                                                  *)

Places(P) == P \in SUBSET Nat /\ IsFiniteSet(P)

LEMMA RankType ==
    ASSUME NEW P, Places(P), NEW i
    PROVE  /\ Cardinality(P) \in Nat
           /\ Rank(P, i) \in Nat /\ Rank(P, i) <= Cardinality(P)
           /\ IsFiniteSet({j \in P : j <= i})
           /\ i \in P => 1 <= Rank(P, i)
<1> DEFINE S == {j \in P : j <= i}
<1>1. /\ IsFiniteSet(S) /\ Cardinality(S) <= Cardinality(P)
      /\ Cardinality(P) \in Nat /\ Cardinality(S) \in Nat
  BY FS_Subset, FS_CardinalityType DEF Places
<1>2. i \in P => Cardinality(S) # 0
  BY <1>1, FS_EmptySet DEF Places
<1> QED
  BY <1>1, <1>2 DEF Rank

LEMMA RankIn ==
    ASSUME NEW P, Places(P), NEW i \in P
    PROVE  Rank(P, i) \in 1..Cardinality(P)
<1>1. /\ Cardinality(P) \in Nat /\ Rank(P, i) \in Nat
      /\ 1 <= Rank(P, i) /\ Rank(P, i) <= Cardinality(P)
  BY RankType
<1> QED
  BY <1>1

LEMMA RankMonotone ==
    ASSUME NEW P, Places(P), NEW i \in P, NEW j \in P
    PROVE  i < j <=> Rank(P, i) < Rank(P, j)
<1>1. i \in Nat /\ j \in Nat
  BY DEF Places
<1>2. ASSUME NEW g \in P, NEW h \in P, g < h
      PROVE  Rank(P, g) < Rank(P, h)
  <2> DEFINE S == {k \in P : k <= g}
             T == {k \in P : k <= h}
  <2>1. g \in Nat /\ h \in Nat /\ \A k \in P : k \in Nat
    BY DEF Places
  <2>2. S \in SUBSET T /\ h \in T /\ h \notin S
    <3>1. \A k \in P : k <= g => k <= h
      BY <1>2, <2>1
    <3>2. h <= h /\ ~(h <= g)
      BY <1>2, <2>1
    <3> QED
      BY <3>1, <3>2
  <2>3. IsFiniteSet(T)
    BY FS_Subset DEF Places
  <2>4. Cardinality(S) <= Cardinality(T) /\ Cardinality(S) # Cardinality(T)
    BY <2>2, <2>3, FS_Subset
  <2>5. Cardinality(S) \in Nat /\ Cardinality(T) \in Nat
    BY <2>2, <2>3, FS_Subset, FS_CardinalityType
  <2> QED
    BY <2>4, <2>5 DEF Rank
<1>3. Rank(P, i) \in Nat /\ Rank(P, j) \in Nat
  BY RankType
<1> QED
  BY <1>1, <1>2, <1>3

LEMMA RankOne ==
    ASSUME NEW P, Places(P), NEW i \in P, NEW j \in P
    PROVE  /\ Rank(P, i) = Rank(P, j) => i = j
           /\ Rank(P, i) <= Rank(P, j) <=> i <= j
<1>1. i \in Nat /\ j \in Nat /\ Rank(P, i) \in Nat /\ Rank(P, j) \in Nat
  BY RankType DEF Places
<1> QED
  BY <1>1, RankMonotone

\* The ranks of places are the numbers from 1 on.
LEMMA RankOnto ==
    ASSUME NEW P, Places(P), NEW k \in 1..Cardinality(P)
    PROVE  \E i \in P : Rank(P, i) = k
<1> DEFINE n == Cardinality(P)
           r == [i \in P |-> Rank(P, i)]
<1>1. n \in Nat /\ r \in [P -> 1..n]
  BY RankType, RankIn
<1>2. r \in Injection(P, 1..n)
  BY <1>1, RankOne DEF Injection, IsInjective
<1>3. IsFiniteSet(1..n) /\ Cardinality(1..n) = n
  BY <1>1, FS_Interval
<1>4. r \in Surjection(P, 1..n)
  BY <1>2, <1>3, FS_Injection
<1> QED
  BY <1>4 DEF Surjection

LEMMA AtRank ==
    ASSUME NEW t, NEW P, Places(P), NEW i \in P
    PROVE  /\ Rank(P, i) \in DOMAIN At(t, P)
           /\ At(t, P)[Rank(P, i)] = t[i]
<1>1. Rank(P, i) \in 1..Cardinality(P)
  BY RankIn
<1>2. (CHOOSE j \in P : Rank(P, j) = Rank(P, i)) = i
  BY RankOne
<1> QED
  BY <1>1, <1>2 DEF At

LEMMA AtType ==
    ASSUME NEW t, NEW P, Places(P)
    PROVE  /\ DOMAIN At(t, P) = 1..Cardinality(P)
           /\ Cardinality(P) \in Nat
           /\ At(t, P) \in Seq({t[i] : i \in P})
           /\ Len(At(t, P)) = Cardinality(P)
<1>1. DOMAIN At(t, P) = 1..Cardinality(P) /\ Cardinality(P) \in Nat
  BY RankType DEF At
<1>2. \A k \in 1..Cardinality(P) : At(t, P)[k] \in {t[i] : i \in P}
  BY AtRank, RankOnto
<1>3. At(t, P) = [k \in 1..Cardinality(P) |-> At(t, P)[k]]
  BY DEF At
<1>4. At(t, P) \in [1..Cardinality(P) -> {t[i] : i \in P}]
  BY <1>2, <1>3
<1> QED
  BY <1>1, <1>4

\* A bijection of places that keeps their order keeps their ranks.
LEMMA RankKept ==
    ASSUME NEW P, Places(P), NEW Q, Places(Q), NEW f \in Bijection(P, Q),
           \A i, j \in P : i <= j <=> f[i] <= f[j], NEW i \in P
    PROVE  f[i] \in Q /\ Rank(Q, f[i]) = Rank(P, i)
<1> DEFINE S == {j \in P : j <= i}
           T == {j \in Q : j <= f[i]}
           g == [j \in S |-> f[j]]
<1>1. /\ \A j \in P : f[j] \in Q
      /\ \A j, k \in P : f[j] = f[k] => j = k
      /\ \A k \in Q : \E j \in P : f[j] = k
  BY DEF Bijection, Injection, IsInjective, Surjection
<1>2. g \in [S -> T] /\ \A j, k \in S : g[j] = g[k] => j = k
  BY <1>1
<1>3. \A k \in T : \E j \in S : g[j] = k
  BY <1>1
<1>4. g \in Bijection(S, T)
  BY <1>2, <1>3 DEF Bijection, Injection, IsInjective, Surjection
<1>5. IsFiniteSet(S) /\ ExistsBijection(S, T)
  <2>1. IsFiniteSet(S)
    BY RankType
  <2> QED
    BY <1>4, <2>1 DEF ExistsBijection
<1>6. Cardinality(S) = Cardinality(T)
  BY <1>5, FS_Bijection
<1> QED
  BY <1>1, <1>6 DEF Rank

\* What is at places that match is the same.
LEMMA AtMatch ==
    ASSUME NEW P, Places(P), NEW Q, Places(Q), NEW f \in Bijection(P, Q),
           \A i, j \in P : i <= j <=> f[i] <= f[j],
           NEW t, NEW u, \A i \in P : u[f[i]] = t[i]
    PROVE  At(u, Q) = At(t, P)
<1> DEFINE n == Cardinality(P)
<1>1. n \in Nat /\ Cardinality(Q) = n
  BY RankType, FS_Bijection DEF Places, ExistsBijection
<1>2. ASSUME NEW k \in 1..n
      PROVE  At(u, Q)[k] = At(t, P)[k]
  <2>1. PICK i \in P : Rank(P, i) = k
    BY RankOnto
  <2>2. f[i] \in Q /\ Rank(Q, f[i]) = k
    BY <2>1, RankKept
  <2> QED
    BY <2>1, <2>2, AtRank
<1>3. At(u, Q) = [k \in 1..n |-> At(u, Q)[k]] /\ At(t, P) = [k \in 1..n |-> At(t, P)[k]]
  BY <1>1 DEF At
<1> QED
  BY <1>2, <1>3

LEMMA AtSame ==
    ASSUME NEW P, Places(P), NEW t, NEW u, \A i \in P : u[i] = t[i]
    PROVE  At(u, P) = At(t, P)
<1> DEFINE f == [i \in P |-> i]
<1>1. f \in Bijection(P, P)
  BY DEF Bijection, Injection, IsInjective, Surjection
<1> QED
  BY <1>1, AtMatch

\* The ranks of some of the places.
Ranks(P, R) == {Rank(P, i) : i \in R}

LEMMA RanksBijection ==
    ASSUME NEW P, Places(P), NEW R \in SUBSET P
    PROVE  /\ Places(R) /\ Places(Ranks(P, R))
           /\ Ranks(P, R) \subseteq 1..Cardinality(P)
           /\ [i \in R |-> Rank(P, i)] \in Bijection(R, Ranks(P, R))
           /\ \A i, j \in R : i <= j <=> Rank(P, i) <= Rank(P, j)
           /\ \A i \in P : Rank(P, i) \in Ranks(P, R) <=> i \in R
<1> DEFINE f == [i \in R |-> Rank(P, i)]
<1>1. Places(R)
  BY FS_Subset DEF Places
<1>2. \A i \in P : /\ Rank(P, i) \in Nat /\ 1 <= Rank(P, i)
                   /\ Rank(P, i) <= Cardinality(P) /\ Cardinality(P) \in Nat
  BY RankType
<1>3. f \in Bijection(R, Ranks(P, R))
  BY RankOne DEF Bijection, Injection, IsInjective, Surjection, Ranks
<1>4. IsFiniteSet(Ranks(P, R))
  BY <1>1, <1>3, FS_Bijection DEF Places, ExistsBijection
<1>5. Ranks(P, R) \subseteq Nat /\ Ranks(P, R) \subseteq 1..Cardinality(P)
  BY <1>2 DEF Ranks
<1>6. \A i, j \in R : i <= j <=> Rank(P, i) <= Rank(P, j)
  BY RankOne
<1>7. \A i \in P : Rank(P, i) \in Ranks(P, R) <=> i \in R
  BY RankOne DEF Ranks
<1> QED
  BY <1>1, <1>3, <1>4, <1>5, <1>6, <1>7 DEF Places

\* Places of what is at places.
LEMMA AtRanks ==
    ASSUME NEW t, NEW P, Places(P), NEW R \in SUBSET P
    PROVE  At(At(t, P), Ranks(P, R)) = At(t, R)
<1> DEFINE f == [i \in R |-> Rank(P, i)]
<1>1. \A i \in R : At(t, P)[f[i]] = t[i]
  BY AtRank
<1>2. /\ f \in Bijection(R, Ranks(P, R)) /\ Places(R) /\ Places(Ranks(P, R))
      /\ \A i, j \in R : i <= j <=> f[i] <= f[j]
  BY RanksBijection
<1> HIDE DEF f
<1> QED
  BY <1>1, <1>2, AtMatch

LEMMA RankOfRanks ==
    ASSUME NEW P, Places(P), NEW R \in SUBSET P, NEW i \in P
    PROVE  Rank(Ranks(P, R), Rank(P, i)) = Rank(R, i)
<1> DEFINE S == {j \in R : j <= i}
           T == {k \in Ranks(P, R) : k <= Rank(P, i)}
           f == [j \in S |-> Rank(P, j)]
<1>1. \A j \in P : Rank(P, j) <= Rank(P, i) <=> j <= i
  BY RankOne
<1>2. T = Ranks(P, S)
  BY <1>1 DEF Ranks
<1>3. f \in Bijection(S, T) /\ Places(S)
  BY <1>2, RanksBijection
<1>4. Cardinality(S) = Cardinality(T)
  BY <1>3, FS_Bijection DEF ExistsBijection, Places
<1> QED
  BY <1>4 DEF Rank

LEMMA RanksOnly ==
    ASSUME NEW P, Places(P), NEW R \in SUBSET P,
           NEW Q, Q \subseteq 1..Cardinality(P),
           \A i \in P : Rank(P, i) \in Q <=> i \in R
    PROVE  Q = Ranks(P, R)
<1>1. ASSUME NEW k \in Q
      PROVE  k \in Ranks(P, R)
  <2>1. PICK i \in P : Rank(P, i) = k
    BY RankOnto
  <2> QED
    BY <2>1 DEF Ranks
<1>2. Ranks(P, R) \subseteq Q
  BY DEF Ranks
<1> QED
  BY <1>1, <1>2

\* Places of what is at places, told by what they are of the original.
LEMMA AtPick ==
    ASSUME NEW t, NEW P, Places(P), NEW R \in SUBSET P,
           NEW Q, Q \subseteq DOMAIN At(t, P),
           \A i \in P : Rank(P, i) \in Q <=> i \in R
    PROVE  At(At(t, P), Q) = At(t, R)
<1>1. Q \subseteq 1..Cardinality(P)
  BY AtType
<1>2. Q = Ranks(P, R)
  BY <1>1, RanksOnly
<1> QED
  BY <1>2, AtRanks

-----------------------------------------------------------------------------
(* One line ending                                                         *)

LEMMA TextPlaces ==
    ASSUME NEW t \in Seq(Symbols), NEW P, P \subseteq DOMAIN t
    PROVE  Places(P)
<1>1. DOMAIN t = 1..Len(t) /\ Len(t) \in Nat
  OBVIOUS
<1>2. IsFiniteSet(1..Len(t))
  BY <1>1, FS_Interval
<1>3. IsFiniteSet(P)
  BY <1>1, <1>2, FS_Subset
<1>4. 1..Len(t) \subseteq Nat
  BY <1>1
<1> QED
  BY <1>1, <1>3, <1>4 DEF Places

LEMMA Kinds ==
    ASSUME NEW x \in Symbols
    PROVE  /\ x \in Words => x \notin Blanks /\ x # "mark"
           /\ x \in Blanks <=> x \in {"space", "lf", "cr"}
           /\ x \notin Words => x \in Blanks \/ x = "mark"
  BY TextsAssumption DEF Symbols, Blanks

\* What is at place i of a text is at the place of its rank in Unix of it.
LEMMA UnixPlace ==
    ASSUME NEW t \in Seq(Symbols), NEW i \in Kept(t)
    PROVE  /\ Rank(Kept(t), i) \in DOMAIN Unix(t)
           /\ Unix(t)[Rank(Kept(t), i)] =
                  IF t[i] = "cr" THEN "lf" ELSE t[i]
<1>1. Places(Kept(t)) /\ i \in DOMAIN t
  BY TextPlaces DEF Kept
<1> QED
  BY <1>1, AtRank DEF Unix, Lines

LEMMA UnixPlaces ==
    ASSUME NEW t \in Seq(Symbols)
    PROVE  /\ Places(Kept(t)) /\ Kept(t) \subseteq DOMAIN t
           /\ DOMAIN Unix(t) = 1..Cardinality(Kept(t))
           /\ Unix(t) \in Seq(Symbols \ {"cr"})
           /\ \A k \in DOMAIN Unix(t) : \E i \in Kept(t) : k = Rank(Kept(t), i)
<1>1. Places(Kept(t)) /\ Kept(t) \subseteq DOMAIN t
  BY TextPlaces DEF Kept
<1>2. \A i \in Kept(t) : Lines(t)[i] \in Symbols \ {"cr"}
  BY <1>1 DEF Lines, Symbols, Blanks
<1>3. {Lines(t)[i] : i \in Kept(t)} \subseteq Symbols \ {"cr"}
  BY <1>2
<1>4. Unix(t) \in Seq(Symbols \ {"cr"})
  <2> DEFINE V == {Lines(t)[i] : i \in Kept(t)}
  <2>1. Unix(t) \in Seq(V)
    BY <1>1, AtType DEF Unix
  <2>2. V \subseteq Symbols \ {"cr"}
    BY <1>3
  <2> HIDE DEF V
  <2> QED
    BY <2>1, <2>2
<1>5. DOMAIN Unix(t) = 1..Cardinality(Kept(t))
  BY <1>1, AtType DEF Unix
<1>6. \A k \in DOMAIN Unix(t) : \E i \in Kept(t) : k = Rank(Kept(t), i)
  BY <1>1, <1>5, RankOnto
<1> QED
  BY <1>1, <1>4, <1>5, <1>6

\* A CR that goes leaves a LF behind.
LEMMA KeptOf ==
    ASSUME NEW t \in Seq(Symbols), NEW i \in DOMAIN t
    PROVE  /\ t[i] # "cr" => i \in Kept(t)
           /\ i \notin Kept(t) => /\ t[i] = "cr" /\ i + 1 \in DOMAIN t
                                  /\ t[i + 1] = "lf" /\ i + 1 \in Kept(t)
<1>1. DOMAIN t = 1..Len(t) /\ Len(t) \in Nat /\ i \in Nat
  OBVIOUS
<1>2. i < Len(t) => i + 1 \in DOMAIN t
  BY <1>1
<1> QED
  BY <1>1, <1>2 DEF Kept

LEMMA KeptKinds ==
    ASSUME NEW t \in Seq(Symbols)
    PROVE  /\ \A i \in DOMAIN t : t[i] \in Symbols
           /\ \A i \in DOMAIN t : i \in Nat
           /\ Inked(t) \subseteq Kept(t)
           /\ \A i \in Kept(t) :
                 LET x == Unix(t)[Rank(Kept(t), i)]
                 IN /\ x \in Words <=> t[i] \in Words
                    /\ x \in Blanks <=> t[i] \in Blanks
                    /\ x = "mark" <=> t[i] = "mark"
<1>1. \A i \in DOMAIN t : t[i] \in Symbols /\ i \in Nat
  OBVIOUS
<1>2. Inked(t) \subseteq Kept(t)
  BY KeptOf DEF Inked, Blanks
<1>3. Kept(t) \subseteq DOMAIN t
  BY UnixPlaces
<1>4. "lf" \notin Words /\ "cr" \notin Words
  BY TextsAssumption DEF Blanks
<1>5. \A i \in Kept(t) : Unix(t)[Rank(Kept(t), i)] =
                             IF t[i] = "cr" THEN "lf" ELSE t[i]
  BY UnixPlace
<1> QED
  BY <1>1, <1>2, <1>3, <1>4, <1>5 DEF Blanks

LEMMA UnixWords ==
    ASSUME NEW t \in Seq(Symbols)
    PROVE  WordsOf(Unix(t)) = WordsOf(t)
<1> DEFINE K == Kept(t)
           Q == {k \in DOMAIN Unix(t) : Unix(t)[k] \in Words}
           R == {i \in DOMAIN t : t[i] \in Words}
<1>1. R \subseteq Inked(t)
  BY KeptKinds, Kinds DEF Inked
<1>2. R \in SUBSET K /\ Places(K) /\ Places(R)
  BY <1>1, KeptKinds, UnixPlaces, TextPlaces
<1>3. \A i \in K : Rank(K, i) \in Q <=> i \in R
  BY KeptKinds, UnixPlace, UnixPlaces
<1>4. At(Unix(t), Q) = At(Lines(t), R)
  BY <1>2, <1>3, AtPick DEF Unix
<1>5. \A i \in R : Lines(t)[i] = t[i]
  BY <1>1 DEF Lines, Inked, Blanks
<1>6. At(Lines(t), R) = At(t, R)
  BY <1>2, <1>5, AtSame
<1> QED
  BY <1>4, <1>6 DEF WordsOf

LEMMA UnixEnds ==
    ASSUME NEW t \in Seq(Symbols), NEW i \in Kept(t)
    PROVE  EndsSentence(Unix(t), Rank(Kept(t), i)) <=> EndsSentence(t, i)
<1> DEFINE K == Kept(t)
           u == Unix(t)
           r(j) == Rank(K, j)
<1>1. /\ Places(K) /\ K \subseteq DOMAIN t /\ Inked(t) \subseteq K
      /\ \A j \in DOMAIN t : j \in Nat /\ t[j] \in Symbols
      /\ \A k \in DOMAIN u : \E j \in K : k = r(j)
      /\ \A j \in K : r(j) \in DOMAIN u /\ r(j) \in Nat
  BY KeptKinds, UnixPlaces, UnixPlace, RankType
<1>2. \A j \in K : /\ u[r(j)] \in Words <=> t[j] \in Words
                   /\ u[r(j)] \in Blanks <=> t[j] \in Blanks
                   /\ u[r(j)] = "mark" <=> t[j] = "mark"
  BY KeptKinds
<1>3. \A j, k \in K : /\ j < k <=> r(j) < r(k)
                      /\ j <= k <=> r(j) <= r(k)
  BY <1>1, RankMonotone, RankOne
<1>4. ASSUME EndsSentence(t, i), NEW k \in DOMAIN u,
             r(i) < k, u[k] \in Words
      PROVE  \E h \in r(i)..k : u[h] \in Blanks
  <2>1. PICK j \in K : k = r(j)
    BY <1>1
  <2>2. i < j /\ t[j] \in Words /\ j \in DOMAIN t
    BY <1>1, <1>2, <1>3, <1>4, <2>1
  <2>3. PICK h \in i..j : t[h] \in Blanks
    BY <1>4, <2>2 DEF EndsSentence
  <2>4. h \in DOMAIN t
    <3>1. /\ DOMAIN t = 1..Len(t) /\ Len(t) \in Nat
          /\ i \in DOMAIN t /\ j \in DOMAIN t
      BY <1>1, <2>2
    <3> QED
      BY <3>1
  <2>5. h # j
    BY <1>1, <2>2, <2>3, Kinds
  <2>6. CASE h \in K
    <3>1. r(i) <= r(h) /\ r(h) <= r(j) /\ u[r(h)] \in Blanks
      BY <1>1, <1>2, <1>3, <2>3, <2>6
    <3> QED
      BY <1>1, <2>1, <2>6, <3>1
  <2>7. CASE h \notin K
    <3>1. h + 1 \in K /\ t[h + 1] = "lf"
      BY <2>4, <2>7, KeptOf
    <3>2. i <= h + 1 /\ h + 1 <= j
      BY <1>1, <2>2, <2>3, <2>4, <2>5
    <3>3. r(i) <= r(h + 1) /\ r(h + 1) <= r(j) /\ u[r(h + 1)] \in Blanks
      BY <1>2, <1>3, <3>1, <3>2 DEF Blanks
    <3> QED
      BY <1>1, <2>1, <3>1, <3>3
  <2> QED
    BY <2>6, <2>7
<1>5. ASSUME EndsSentence(u, r(i)), NEW j \in DOMAIN t,
             i < j, t[j] \in Words
      PROVE  \E h \in i..j : t[h] \in Blanks
  <2>1. j \in K
    BY <1>1, <1>5, Kinds DEF Inked
  <2>2. r(i) < r(j) /\ u[r(j)] \in Words /\ r(j) \in DOMAIN u
    BY <1>1, <1>2, <1>3, <1>5, <2>1
  <2>3. PICK k \in r(i)..r(j) : u[k] \in Blanks
    BY <1>5, <2>2 DEF EndsSentence
  <2>4. k \in DOMAIN u
    <3>1. DOMAIN u = 1..Cardinality(K) /\ Cardinality(K) \in Nat
      BY UnixPlaces, RankType
    <3> QED
      BY <1>1, <2>1, <3>1
  <2>5. PICK h \in K : k = r(h)
    BY <1>1, <2>4
  <2>6. i <= h /\ h <= j /\ t[h] \in Blanks
    BY <1>1, <1>2, <1>3, <2>1, <2>3, <2>5
  <2> QED
    BY <1>1, <2>1, <2>5, <2>6
<1> QED
  BY <1>2, <1>4, <1>5 DEF EndsSentence

\* The sentences of Unix of a text begin where those of the text do.
LEMMA UnixStarts ==
    ASSUME NEW t \in Seq(Symbols)
    PROVE  /\ \A i \in Kept(t) :
                 Rank(Kept(t), i) \in Prose(Unix(t)) <=> i \in Prose(t)
           /\ Starts(t) \subseteq Kept(t)
           /\ Starts(Unix(t)) = Ranks(Kept(t), Starts(t))
<1> DEFINE K == Kept(t)
           u == Unix(t)
           r(j) == Rank(K, j)
<1>1. /\ Places(K) /\ Inked(t) \subseteq K
      /\ \A j \in DOMAIN t : j \in Nat
      /\ \A k \in DOMAIN u : \E j \in K : k = r(j)
      /\ \A j \in K : r(j) \in DOMAIN u /\ r(j) \in Nat /\ j \in DOMAIN t
  BY KeptKinds, UnixPlaces, UnixPlace, RankType
<1>2. \A j \in K : /\ r(j) \in Inked(u) <=> j \in Inked(t)
                   /\ EndsSentence(u, r(j)) <=> EndsSentence(t, j)
  BY <1>1, KeptKinds, UnixEnds DEF Inked
<1>3. \A j, k \in K : /\ j < k <=> r(j) < r(k)
                      /\ j <= k <=> r(j) <= r(k)
  BY <1>1, RankMonotone, RankOne
<1>4. \A j \in K : r(j) \in Prose(u) <=> j \in Prose(t)
  BY <1>2 DEF Prose
<1>5. Prose(t) \subseteq K /\ Prose(u) \subseteq DOMAIN u
  BY <1>1 DEF Prose, Inked
<1>6. ASSUME NEW i \in K, NEW h \in K
      PROVE  (\E k \in r(h)..r(i) : EndsSentence(u, k))
                <=> (\E k \in h..i : EndsSentence(t, k))
  <2>1. \A k \in r(h)..r(i) : k \in DOMAIN u
    <3>1. DOMAIN u = 1..Cardinality(K) /\ Cardinality(K) \in Nat
      BY UnixPlaces, RankType
    <3> QED
      BY <1>1, <3>1
  <2>2. \A k \in h..i : k \in DOMAIN t
    <3>1. DOMAIN t = 1..Len(t) /\ Len(t) \in Nat
      OBVIOUS
    <3> QED
      BY <1>1, <3>1
  <2>3. \A k \in DOMAIN t : EndsSentence(t, k) => k \in K
    BY KeptOf DEF EndsSentence
  <2>4. ASSUME NEW k \in h..i, EndsSentence(t, k)
        PROVE  r(k) \in r(h)..r(i) /\ EndsSentence(u, r(k))
    <3>1. k \in K
      BY <2>2, <2>3, <2>4
    <3>2. r(h) <= r(k) /\ r(k) <= r(i)
      BY <1>1, <1>3, <3>1
    <3> QED
      BY <1>1, <1>2, <2>4, <3>1, <3>2
  <2>5. ASSUME NEW k \in r(h)..r(i), EndsSentence(u, k)
        PROVE  \E j \in h..i : EndsSentence(t, j)
    <3>1. PICK j \in K : k = r(j)
      BY <1>1, <2>1
    <3>2. h <= j /\ j <= i
      BY <1>1, <1>3, <3>1
    <3> QED
      BY <1>1, <1>2, <2>5, <3>1, <3>2
  <2> QED
    BY <2>4, <2>5
<1>7. ASSUME NEW i \in K
      PROVE  r(i) \in Starts(u) <=> i \in Starts(t)
  <2>1. ASSUME r(i) \in Starts(u), NEW h \in Prose(t), h < i
        PROVE  \E k \in h..i : EndsSentence(t, k)
    <3>1. h \in K /\ r(h) \in Prose(u) /\ r(h) < r(i)
      BY <1>3, <1>4, <1>5, <2>1
    <3>2. \E k \in r(h)..r(i) : EndsSentence(u, k)
      BY <2>1, <3>1 DEF Starts
    <3> QED
      BY <1>6, <3>1, <3>2
  <2>2. ASSUME i \in Starts(t), NEW k \in Prose(u), k < r(i)
        PROVE  \E h \in k..r(i) : EndsSentence(u, h)
    <3>1. PICK h \in K : k = r(h)
      BY <1>1, <1>5
    <3>2. h \in Prose(t) /\ h < i
      BY <1>3, <1>4, <2>2, <3>1
    <3>3. \E j \in h..i : EndsSentence(t, j)
      BY <2>2, <3>2 DEF Starts
    <3> QED
      BY <1>6, <3>1, <3>3
  <2> QED
    BY <1>4, <2>1, <2>2 DEF Starts
<1>8. Starts(t) \subseteq K /\ Starts(u) \subseteq DOMAIN u
  BY <1>5 DEF Starts
<1>9. Starts(u) = Ranks(K, Starts(t))
  <2>1. Starts(u) \subseteq 1..Cardinality(K)
    BY <1>8, UnixPlaces
  <2> QED
    BY <1>1, <1>7, <1>8, <2>1, RanksOnly
<1> QED
  BY <1>4, <1>8, <1>9

LEMMA UnixSentences ==
    ASSUME NEW t \in Seq(Symbols)
    PROVE  /\ Cardinality(Starts(Unix(t))) = Cardinality(Starts(t))
           /\ Lead(Unix(t)) = Lead(t)
<1> DEFINE K == Kept(t)
           u == Unix(t)
           S == Starts(t)
<1>1. /\ \A i \in K : Rank(K, i) \in Prose(u) <=> i \in Prose(t)
      /\ S \in SUBSET K /\ Starts(u) = Ranks(K, S)
      /\ Places(K) /\ K \subseteq DOMAIN t
  BY UnixStarts, UnixPlaces
<1>2. Cardinality(Starts(u)) = Cardinality(S)
  <2>1. [i \in S |-> Rank(K, i)] \in Bijection(S, Ranks(K, S)) /\ Places(S)
    BY <1>1, RanksBijection
  <2>2. IsFiniteSet(S) /\ ExistsBijection(S, Ranks(K, S))
    BY <2>1 DEF Places, ExistsBijection
  <2> QED
    BY <1>1, <2>2, FS_Bijection
<1>3. Lead(u) = Lead(t)
  <2> DEFINE Q == {k \in Prose(u) : Rank(Starts(u), k) = 1}
             R == {i \in Prose(t) : Rank(S, i) = 1}
  <2>1. R \subseteq Inked(t) /\ Q \subseteq DOMAIN u /\ Inked(t) \subseteq K
    BY KeptKinds DEF Prose, Inked
  <2>2. \A i \in K : Rank(K, i) \in Q <=> i \in R
    BY <1>1, RankOfRanks
  <2>3. At(u, Q) = At(Lines(t), R)
    BY <1>1, <2>1, <2>2, AtPick DEF Unix
  <2>4. \A i \in R : Lines(t)[i] = t[i]
    BY <1>1, <2>1 DEF Lines, Inked, Blanks
  <2>5. Places(R)
    BY <1>1, <2>1, TextPlaces
  <2>6. At(Lines(t), R) = At(t, R)
    BY <2>4, <2>5, AtSame
  <2> QED
    BY <2>3, <2>6 DEF Lead
<1> QED
  BY <1>2, <1>3

-----------------------------------------------------------------------------
(* Surrounding blanks                                                      *)

LEMMA StripPlaces ==
    ASSUME NEW t \in Seq(Symbols)
    PROVE  /\ Places(Within(t)) /\ Within(t) \subseteq DOMAIN t
           /\ Inked(t) \subseteq Within(t)
           /\ DOMAIN Strip(t) = 1..Cardinality(Within(t))
           /\ Strip(t) \in Seq(Symbols)
           /\ \A i \in Within(t) : /\ Rank(Within(t), i) \in DOMAIN Strip(t)
                                   /\ Strip(t)[Rank(Within(t), i)] = t[i]
           /\ \A k \in DOMAIN Strip(t) :
                 \E i \in Within(t) : k = Rank(Within(t), i)
<1>1. Places(Within(t)) /\ Within(t) \subseteq DOMAIN t
  BY TextPlaces DEF Within
<1>2. Inked(t) \subseteq Within(t)
  BY DEF Within, Inked
<1>3. /\ DOMAIN Strip(t) = 1..Cardinality(Within(t))
      /\ Strip(t) \in Seq({t[i] : i \in Within(t)})
  BY <1>1, AtType DEF Strip
<1>4. Strip(t) \in Seq(Symbols)
  <2> DEFINE V == {t[i] : i \in Within(t)}
  <2>1. V \subseteq Symbols
    BY <1>1
  <2>2. Strip(t) \in Seq(V)
    BY <1>3
  <2> HIDE DEF V
  <2> QED
    BY <2>1, <2>2
<1>5. \A i \in Within(t) : /\ Rank(Within(t), i) \in DOMAIN Strip(t)
                           /\ Strip(t)[Rank(Within(t), i)] = t[i]
  BY <1>1, AtRank DEF Strip
<1>6. \A k \in DOMAIN Strip(t) : \E i \in Within(t) : k = Rank(Within(t), i)
  BY <1>1, <1>3, RankOnto
<1> QED
  BY <1>1, <1>2, <1>3, <1>4, <1>5, <1>6

\* A text that starts and ends with ink has nothing to strip.
LEMMA StripAll ==
    ASSUME NEW t \in Seq(Symbols)
    PROVE  Within(Strip(t)) = DOMAIN Strip(t)
<1> DEFINE C == Within(t)
           s == Strip(t)
<1>1. ASSUME NEW k \in DOMAIN s
      PROVE  \E a, b \in Inked(s) : a <= k /\ k <= b
  <2>1. PICK i \in C : k = Rank(C, i)
    BY StripPlaces
  <2>2. PICK a, b \in Inked(t) : a <= i /\ i <= b
    BY DEF Within
  <2>3. a \in C /\ b \in C /\ Places(C)
    BY StripPlaces
  <2>4. Rank(C, a) \in Inked(s) /\ Rank(C, b) \in Inked(s)
    BY <2>3, StripPlaces DEF Inked
  <2>5. Rank(C, a) <= Rank(C, i) /\ Rank(C, i) <= Rank(C, b)
    BY <2>2, <2>3, RankOne
  <2> QED
    BY <2>1, <2>4, <2>5
<1> QED
  BY <1>1 DEF Within

\* The place after one that is not the last one kept is kept too.
LEMMA StripNext ==
    ASSUME NEW t \in Seq(Symbols), NEW i \in Within(t), t[i] = "cr"
    PROVE  /\ i < Len(t) /\ i + 1 \in Within(t)
           /\ Rank(Within(t), i + 1) = Rank(Within(t), i) + 1
           /\ Rank(Within(t), i) < Len(Strip(t))
<1> DEFINE C == Within(t)
<1>1. /\ Places(C) /\ C \subseteq DOMAIN t
      /\ DOMAIN t = 1..Len(t) /\ Len(t) \in Nat
  BY StripPlaces
<1>2. PICK a, b \in Inked(t) : a <= i /\ i <= b
  BY DEF Within
<1>3. b # i /\ a \in DOMAIN t /\ b \in DOMAIN t
  BY DEF Inked, Blanks
<1>4. i + 1 \in DOMAIN t /\ a <= i + 1 /\ i + 1 <= b /\ i < Len(t)
  BY <1>1, <1>2, <1>3
<1>5. i + 1 \in C
  BY <1>2, <1>4 DEF Within
<1>6. Rank(C, i + 1) = Rank(C, i) + 1
  <2> DEFINE S == {j \in C : j <= i}
             T == {j \in C : j <= i + 1}
  <2>1. \A j \in C : j \in Nat
    BY <1>1
  <2>2. T = S \cup {i + 1} /\ i + 1 \notin S
    BY <1>5, <2>1
  <2>3. IsFiniteSet(S)
    BY <1>1, RankType
  <2>4. Cardinality(T) = Cardinality(S) + 1
    BY <2>2, <2>3, FS_AddElement
  <2> QED
    BY <2>4 DEF Rank
<1>7. Rank(C, i) < Len(Strip(t))
  <2>1. /\ Rank(C, i + 1) <= Cardinality(C) /\ Cardinality(C) \in Nat
        /\ Rank(C, i) \in Nat
    BY <1>1, RankType
  <2>2. Len(Strip(t)) = Cardinality(C)
    BY <1>1, AtType DEF Strip
  <2> QED
    BY <1>6, <2>1, <2>2
<1> QED
  BY <1>4, <1>5, <1>6, <1>7

LEMMA StripKept ==
    ASSUME NEW t \in Seq(Symbols), NEW i \in Within(t)
    PROVE  Rank(Within(t), i) \in Kept(Strip(t)) <=> i \in Kept(t)
<1> DEFINE C == Within(t)
           s == Strip(t)
<1>1. /\ i \in DOMAIN t /\ Rank(C, i) \in DOMAIN s
      /\ s[Rank(C, i)] = t[i]
  BY StripPlaces
<1>2. CASE t[i] # "cr"
  BY <1>1, <1>2 DEF Kept
<1>3. CASE t[i] = "cr"
  <2>1. /\ i < Len(t) /\ i + 1 \in C /\ Rank(C, i) < Len(s)
        /\ Rank(C, i + 1) = Rank(C, i) + 1
    BY <1>3, StripNext
  <2>2. s[Rank(C, i) + 1] = t[i + 1]
    BY <2>1, StripPlaces
  <2> QED
    BY <1>1, <1>3, <2>1, <2>2 DEF Kept
<1> QED
  BY <1>2, <1>3

\* The places that Normalize keeps.
LEMMA NormalizeAt ==
    ASSUME NEW t \in Seq(Symbols)
    PROVE  Normalize(t) = At(Lines(t), Kept(t) \cap Within(t))
<1> DEFINE K == Kept(t)
           u == Unix(t)
           Q == Within(u)
           R == K \cap Within(t)
<1>1. /\ Places(K) /\ Inked(t) \subseteq K
      /\ \A k \in DOMAIN u : \E j \in K : k = Rank(K, j)
      /\ \A j \in K : Rank(K, j) \in DOMAIN u /\ j \in DOMAIN t
  BY KeptKinds, UnixPlaces, UnixPlace
<1>2. \A j \in K : Rank(K, j) \in Inked(u) <=> j \in Inked(t)
  BY <1>1, KeptKinds DEF Inked
<1>3. \A i, j \in K : i <= j <=> Rank(K, i) <= Rank(K, j)
  BY <1>1, RankOne
<1>4. ASSUME NEW i \in K
      PROVE  Rank(K, i) \in Q <=> i \in R
  <2>1. ASSUME i \in R
        PROVE  Rank(K, i) \in Q
    <3>1. PICK a, b \in Inked(t) : a <= i /\ i <= b
      BY <2>1 DEF Within
    <3>2. /\ Rank(K, a) \in Inked(u) /\ Rank(K, b) \in Inked(u)
          /\ Rank(K, a) <= Rank(K, i) /\ Rank(K, i) <= Rank(K, b)
      BY <1>1, <1>2, <1>3, <3>1
    <3> QED
      BY <1>1, <3>2 DEF Within
  <2>2. ASSUME Rank(K, i) \in Q
        PROVE  i \in R
    <3>1. PICK c, d \in Inked(u) : c <= Rank(K, i) /\ Rank(K, i) <= d
      BY <2>2 DEF Within
    <3>2. c \in DOMAIN u /\ d \in DOMAIN u
      BY DEF Inked
    <3>3. PICK a \in K : c = Rank(K, a)
      BY <1>1, <3>2
    <3>4. PICK b \in K : d = Rank(K, b)
      BY <1>1, <3>2
    <3>5. a \in Inked(t) /\ b \in Inked(t) /\ a <= i /\ i <= b
      BY <1>2, <1>3, <3>1, <3>3, <3>4
    <3> QED
      BY <1>1, <3>5 DEF Within
  <2> QED
    BY <2>1, <2>2
<1>5. Q \subseteq DOMAIN At(Lines(t), K) /\ R \in SUBSET K
  BY DEF Within, Unix
<1> HIDE DEF Q, R
<1>6. At(u, Q) = At(Lines(t), R)
  BY <1>1, <1>4, <1>5, AtPick DEF Unix
<1> QED
  BY <1>6 DEF Q, R, Normalize, Strip

LEMMA UnixOfStrip ==
    ASSUME NEW t \in Seq(Symbols)
    PROVE  Unix(Strip(t)) = Normalize(t)
<1> DEFINE C == Within(t)
           s == Strip(t)
           R == Kept(t) \cap C
           Q == Kept(s)
<1>1. /\ Places(C) /\ C \subseteq DOMAIN t /\ s \in Seq(Symbols)
      /\ DOMAIN s = 1..Cardinality(C)
      /\ \A k \in DOMAIN s : \E i \in C : k = Rank(C, i)
      /\ \A i \in C : Rank(C, i) \in DOMAIN s /\ s[Rank(C, i)] = t[i]
  BY StripPlaces
<1>2. DOMAIN At(Lines(t), C) = DOMAIN s
  BY <1>1, AtType
<1>3. At(At(Lines(t), C), Q) = At(Lines(t), R)
  <2>1. /\ R \in SUBSET C /\ Q \subseteq DOMAIN At(Lines(t), C)
        /\ \A i \in C : Rank(C, i) \in Q <=> i \in R
    BY <1>2, StripKept DEF Kept
  <2> HIDE DEF Q, R
  <2> QED
    BY <1>1, <2>1, AtPick
<1>4. ASSUME NEW k \in Q
      PROVE  Lines(s)[k] = At(Lines(t), C)[k]
  <2>1. k \in DOMAIN s
    BY DEF Kept
  <2>2. PICK i \in C : k = Rank(C, i)
    BY <1>1, <2>1
  <2>3. At(Lines(t), C)[k] = Lines(t)[i] /\ s[k] = t[i] /\ i \in DOMAIN t
    BY <1>1, <2>2, AtRank
  <2> QED
    BY <2>1, <2>3 DEF Lines
<1>5. Places(Q)
  BY <1>1, TextPlaces DEF Kept
<1>6. At(Lines(s), Q) = At(At(Lines(t), C), Q)
  BY <1>4, <1>5, AtSame
<1>7. Unix(s) = At(Lines(t), R)
  BY <1>3, <1>6 DEF Unix
<1> QED
  BY <1>7, NormalizeAt

-----------------------------------------------------------------------------
(* What texts of one hash share                                            *)

\* cache.py:25: str.strip leaves the hash of a text as it is.
THEOREM StripKeepsHash ==
    ASSUME NEW t \in Seq(Symbols)
    PROVE  Normalize(Strip(t)) = Normalize(t)
<1> DEFINE s == Strip(t)
<1>1. s \in Seq(Symbols) /\ Within(s) = DOMAIN s
  BY StripPlaces, StripAll
<1>2. Kept(s) \cap Within(s) = Kept(s)
  BY <1>1 DEF Kept
<1>3. Normalize(s) = Unix(s)
  BY <1>1, <1>2, NormalizeAt DEF Unix
<1> QED
  BY <1>3, UnixOfStrip

LEMMA NormalizeType ==
    ASSUME NEW t \in Seq(Symbols)
    PROVE  Normalize(t) \in Seq(Symbols \ {"cr"})
  BY UnixOfStrip, UnixPlaces, StripPlaces

\* summarizer.py:148: texts of the same hash, stripped, have the same lead, and
\* the same numbers but for the characters, and the same keywords.
THEOREM HashTellsMeasures ==
    ASSUME NEW t \in Seq(Symbols), NEW u \in Seq(Symbols),
           Normalize(t) = Normalize(u)
    PROVE  [Measures(Strip(t)) EXCEPT !.chars = 0]
              = [Measures(Strip(u)) EXCEPT !.chars = 0]
<1> DEFINE s == Strip(t)
           v == Strip(u)
<1>1. s \in Seq(Symbols) /\ v \in Seq(Symbols) /\ Unix(s) = Unix(v)
  BY StripPlaces, UnixOfStrip
<1>2. WordsOf(s) = WordsOf(v)
  BY <1>1, UnixWords
<1>3. Lead(s) = Lead(v) /\ Cardinality(Starts(s)) = Cardinality(Starts(v))
  BY <1>1, UnixSentences
<1>4. KeywordsOf(s) = KeywordsOf(v)
  BY <1>2 DEF KeywordsOf
<1> HIDE DEF s, v
<1> QED
  BY <1>2, <1>3, <1>4 DEF Measures, s, v
=============================================================================
