-------------------------- MODULE SceneFile_proofs --------------------------
(***************************************************************************)
(* Whatever documents an author writes, types a module brings and edits    *)
(* the program makes: a scene stays a forest of distinct identities, what  *)
(* a document carried is written again, a cook gives what its document     *)
(* gives, and saving loses nothing.                                        *)
(***************************************************************************)
EXTENDS SceneFile, Reflected, SequenceTheorems, FiniteSetTheorems, WellFoundedInduction, TLAPS

-----------------------------------------------------------------------------
(* Induction over numbers and sequences, and recursive functions.           *)

LEMMA Least ==
  ASSUME NEW S \in SUBSET Nat, S # {}
  PROVE  \E n \in S : \A m \in S : ~(m < n)
<1> DEFINE R == OpToRel(<, Nat)
<1>1. IsWellFoundedOn(R, Nat)
  BY NatLessThanWellFounded
<1> HIDE DEF R
<1>2. \E n \in S : \A m \in S : <<m, n>> \notin R
  BY <1>1, WFMin
<1> QED BY <1>2 DEF R, OpToRel

LEMMA Induction ==
  ASSUME NEW N \in Nat, NEW P, 0 \in P, \A n \in 0..(N - 1) : n \in P => n + 1 \in P
  PROVE  0..N \subseteq P
<1> SUFFICES ASSUME ~(0..N \subseteq P)  PROVE  FALSE
  OBVIOUS
<1> DEFINE Q == {n \in 0..N : n \notin P}
<1>1. Q \in SUBSET Nat /\ Q # {}
  OBVIOUS
<1>2. PICK n \in Q : \A m \in Q : ~(m < n)
  BY <1>1, Least
<1>3. n # 0 /\ n - 1 \in 0..(N - 1) /\ n - 1 \notin Q
  BY <1>2
<1> QED
  BY <1>2, <1>3

\* A function defined by recursion on 0..N exists.
Iterates(g, S, x, F, N) ==
    /\ g \in [0..N -> S]
    /\ g[0] = x
    /\ \A n \in 1..N : g[n] = F[n][g[n - 1]]

LEMMA Iteration ==
  ASSUME NEW S, NEW x, x \in S, NEW N \in Nat, NEW F, F \in [1..N -> [S -> S]]
  PROVE  \E g : Iterates(g, S, x, F, N)
<1> DEFINE P == {k \in 0..N : \E g : Iterates(g, S, x, F, k)}
<1>1. 0 \in P
  <2> DEFINE g == [n \in 0..0 |-> x]
  <2>1. Iterates(g, S, x, F, 0)
    BY DEF Iterates
  <2> QED
    BY <2>1
<1>2. ASSUME NEW k \in 0..(N - 1), k \in P  PROVE  k + 1 \in P
  <2>1. PICK g : Iterates(g, S, x, F, k)
    BY <1>2
  <2>2. /\ g \in [0..k -> S] /\ g[0] = x
        /\ \A n \in 1..k : g[n] = F[n][g[n - 1]]
    BY <2>1 DEF Iterates
  <2> DEFINE h == [n \in 0..(k + 1) |-> IF n <= k THEN g[n] ELSE F[k + 1][g[k]]]
  <2>3. h \in [0..(k + 1) -> S]
    <3>1. k + 1 \in 1..N /\ k \in 0..k
      OBVIOUS
    <3>2. F[k + 1][g[k]] \in S
      BY <3>1, <2>2
    <3> QED
      BY <3>2, <2>2
  <2>4. ASSUME NEW n \in 1..(k + 1)  PROVE  h[n] = F[n][h[n - 1]]
    <3>1. n \in 0..(k + 1) /\ n - 1 \in 0..k /\ n - 1 \in 0..(k + 1)
      OBVIOUS
    <3>2. h[n - 1] = g[n - 1]
      BY <3>1
    <3>3. CASE n <= k
      BY <3>1, <3>2, <3>3, <2>2
    <3>4. CASE n = k + 1
      BY <3>1, <3>2, <3>4
    <3> QED
      BY <3>3, <3>4
  <2>5. h[0] = x
    BY <2>2
  <2> HIDE DEF h
  <2>6. Iterates(h, S, x, F, k + 1)
    BY <2>3, <2>4, <2>5 DEF Iterates
  <2>7. k + 1 \in 0..N
    OBVIOUS
  <2> QED
    BY <2>6, <2>7
<1> HIDE DEF P
<1>3. N \in P
  <2>1. 0..N \subseteq P
    BY <1>1, <1>2, Induction
  <2> QED
    BY <2>1
<1> QED
  BY <1>3 DEF P

LEMMA SeqInduction ==
  ASSUME NEW S, NEW P, <<>> \in P, \A s \in Seq(S), x \in S : s \in P => Append(s, x) \in P
  PROVE  Seq(S) \subseteq P
<1> DEFINE Q == {n \in Nat : \A s \in Seq(S) : Len(s) = n => s \in P}
<1>1. 0 \in Q
  BY EmptySeq
<1>2. ASSUME NEW n \in Nat, n \in Q  PROVE  n + 1 \in Q
  <2> SUFFICES ASSUME NEW s \in Seq(S), Len(s) = n + 1  PROVE  s \in P
    OBVIOUS
  <2>1. s # <<>>
    OBVIOUS
  <2>2. PICK t \in Seq(S), x \in S : s = Append(t, x)
    BY <2>1, SequenceEmptyOrAppend
  <2>3. Len(t) = n
    BY <2>2
  <2> QED
    BY <2>2, <2>3, <1>2
<1> HIDE DEF Q
<1>3. ASSUME NEW s \in Seq(S)  PROVE  s \in P
  <2>1. Len(s) \in Nat
    OBVIOUS
  <2>2. 0..Len(s) \subseteq Q
    BY <1>1, <1>2, <2>1, Induction
  <2>3. Len(s) \in Q
    BY <2>1, <2>2
  <2> QED
    BY <2>3 DEF Q
<1> QED
  BY <1>3

-----------------------------------------------------------------------------
(* The items of some types in a sequence.                                   *)

Upto(s, T) ==
  CHOOSE f : f = [n \in 0..Len(s) |->
                    IF n = 0 THEN <<>>
                    ELSE IF s[n].type \in T THEN Append(f[n - 1], s[n]) ELSE f[n - 1]]

LEMMA UptoIs ==
  ASSUME NEW S, NEW s \in Seq(S), NEW T
  PROVE  /\ Of(s, T) = Upto(s, T)[Len(s)]
         /\ Upto(s, T) \in [0..Len(s) -> Seq(S)]
         /\ Upto(s, T)[0] = <<>>
         /\ \A n \in 1..Len(s) : Upto(s, T)[n] =
                IF s[n].type \in T THEN Append(Upto(s, T)[n - 1], s[n]) ELSE Upto(s, T)[n - 1]
<1> DEFINE F == [n \in 1..Len(s) |-> [t \in Seq(S) |->
                    IF s[n].type \in T THEN Append(t, s[n]) ELSE t]]
           E(f) == f = [n \in 0..Len(s) |->
                    IF n = 0 THEN <<>>
                    ELSE IF s[n].type \in T THEN Append(f[n - 1], s[n]) ELSE f[n - 1]]
<1>1. F \in [1..Len(s) -> [Seq(S) -> Seq(S)]]
  <2>1. \A n \in 1..Len(s), t \in Seq(S) :
           (IF s[n].type \in T THEN Append(t, s[n]) ELSE t) \in Seq(S)
    BY AppendProperties
  <2> QED
    BY <2>1
<1>2. <<>> \in Seq(S) /\ Len(s) \in Nat
  OBVIOUS
<1>3. PICK g : Iterates(g, Seq(S), <<>>, F, Len(s))
  <2> HIDE DEF F
  <2> QED
    BY <1>1, <1>2, Iteration
<1>4. E(g)
  <2>1. ASSUME NEW n \in 0..Len(s), n # 0
        PROVE  g[n] = IF s[n].type \in T THEN Append(g[n - 1], s[n]) ELSE g[n - 1]
    <3>1. n - 1 \in 0..Len(s) /\ n \in 1..Len(s)
      BY <1>2, <2>1
    <3>2. g[n - 1] \in Seq(S)
      BY <3>1, <1>3 DEF Iterates
    <3>3. g[n] = F[n][g[n - 1]]
      BY <3>1, <1>3 DEF Iterates
    <3> QED
      BY <3>1, <3>2, <3>3
  <2> QED
    BY <1>3, <2>1 DEF Iterates
<1>5. E(Upto(s, T))
  BY <1>4 DEF Upto
<1>6. Of(s, T) = Upto(s, T)[Len(s)]
  BY DEF Of, Upto
<1> HIDE DEF F
<1> DEFINE u == Upto(s, T)
<1> HIDE DEF u
<1>7. E(u)
  BY <1>5 DEF u
<1>8. 0..Len(s) \subseteq {n \in 0..Len(s) : u[n] \in Seq(S)}
  <2>1. 0 \in {n \in 0..Len(s) : u[n] \in Seq(S)}
    BY <1>7
  <2>2. \A n \in 0..(Len(s) - 1) : n \in {k \in 0..Len(s) : u[k] \in Seq(S)}
                                => n + 1 \in {k \in 0..Len(s) : u[k] \in Seq(S)}
    <3> SUFFICES ASSUME NEW n \in 0..(Len(s) - 1), u[n] \in Seq(S)  PROVE  u[n + 1] \in Seq(S)
      BY <1>2
    <3>1. n + 1 \in 0..Len(s) /\ n + 1 \in 1..Len(s) /\ n + 1 # 0 /\ (n + 1) - 1 = n
      BY <1>2
    <3>2. u[n + 1] = IF s[n + 1].type \in T THEN Append(u[n], s[n + 1]) ELSE u[n]
      BY <3>1, <1>7
    <3>3. s[n + 1] \in S
      BY <3>1
    <3> QED
      BY <3>2, <3>3
  <2> QED
    BY <2>1, <2>2, <1>2, Induction
<1>9. u \in [0..Len(s) -> Seq(S)]
  BY <1>7, <1>8
<1>10. u[0] = <<>> /\ \A n \in 1..Len(s) : u[n] = IF s[n].type \in T THEN Append(u[n - 1], s[n]) ELSE u[n - 1]
  <2>1. 0 \in 0..Len(s) /\ \A n \in 1..Len(s) : n \in 0..Len(s) /\ n # 0
    BY <1>2
  <2> QED
    BY <1>7, <2>1
<1> QED
  BY <1>6, <1>9, <1>10 DEF u

LEMMA ElementsAppend ==
  ASSUME NEW S, NEW s \in Seq(S), NEW x \in S
  PROVE  Elements(Append(s, x)) = Elements(s) \cup {x}
<1>1. /\ DOMAIN Append(s, x) = 1..(Len(s) + 1) /\ Len(s) \in Nat /\ DOMAIN s = 1..Len(s)
      /\ \A i \in 1..Len(s) : Append(s, x)[i] = s[i]
      /\ Append(s, x)[Len(s) + 1] = x
  BY AppendProperties
<1>2. Elements(Append(s, x)) \subseteq Elements(s) \cup {x}
  BY <1>1 DEF Elements
<1>3. \A i \in 1..Len(s) : i \in 1..(Len(s) + 1)
  BY <1>1
<1>4. Elements(s) \subseteq Elements(Append(s, x))
  BY <1>1, <1>3 DEF Elements
<1>5. x \in Elements(Append(s, x))
  BY <1>1 DEF Elements
<1> QED
  BY <1>2, <1>4, <1>5

LEMMA ElementsIn ==
  ASSUME NEW S, NEW s \in Seq(S)
  PROVE  Elements(s) \subseteq S
BY DEF Elements

LEMMA ElementsConcat ==
  ASSUME NEW S, NEW s \in Seq(S), NEW t \in Seq(S)
  PROVE  Elements(s \o t) = Elements(s) \cup Elements(t)
<1>1. /\ DOMAIN (s \o t) = 1..(Len(s) + Len(t)) /\ DOMAIN s = 1..Len(s) /\ DOMAIN t = 1..Len(t)
      /\ Len(s) \in Nat /\ Len(t) \in Nat
      /\ \A i \in 1..(Len(s) + Len(t)) : (s \o t)[i] =
            IF i <= Len(s) THEN s[i] ELSE t[i - Len(s)]
  BY ConcatProperties
<1>2. Elements(s \o t) \subseteq Elements(s) \cup Elements(t)
  <2> SUFFICES ASSUME NEW i \in 1..(Len(s) + Len(t))
               PROVE  (s \o t)[i] \in Elements(s) \cup Elements(t)
    BY <1>1 DEF Elements
  <2>1. CASE i <= Len(s)
    BY <2>1, <1>1 DEF Elements
  <2>2. CASE i > Len(s)
    <3>1. i - Len(s) \in 1..Len(t)
      BY <2>2, <1>1
    <3> QED
      BY <3>1, <2>2, <1>1 DEF Elements
  <2> QED
    BY <2>1, <2>2, <1>1
<1>3. ASSUME NEW i \in 1..Len(s)  PROVE  s[i] \in Elements(s \o t)
  <2>1. i \in 1..(Len(s) + Len(t)) /\ i <= Len(s)
    BY <1>1
  <2> QED
    BY <2>1, <1>1 DEF Elements
<1>4. ASSUME NEW i \in 1..Len(t)  PROVE  t[i] \in Elements(s \o t)
  <2>1. /\ i + Len(s) \in 1..(Len(s) + Len(t)) /\ ~(i + Len(s) <= Len(s))
        /\ (i + Len(s)) - Len(s) = i
    BY <1>1
  <2> QED
    BY <2>1, <1>1 DEF Elements
<1>5. Elements(s) \subseteq Elements(s \o t) /\ Elements(t) \subseteq Elements(s \o t)
  <2>1. \A x \in Elements(s) : \E i \in 1..Len(s) : x = s[i]
    BY <1>1 DEF Elements
  <2>2. \A x \in Elements(t) : \E i \in 1..Len(t) : x = t[i]
    BY <1>1 DEF Elements
  <2> QED
    BY <2>1, <2>2, <1>3, <1>4
<1> QED
  BY <1>2, <1>5

LEMMA OfType ==
  ASSUME NEW S, NEW s \in Seq(S), NEW T
  PROVE  Of(s, T) \in Seq(S)
<1>1. Len(s) \in 0..Len(s)
  OBVIOUS
<1> QED
  BY <1>1, UptoIs

LEMMA OfEmpty ==
  ASSUME NEW T
  PROVE  Of(<<>>, T) = <<>>
<1>1. ASSUME NEW S, NEW s \in Seq(S), Len(s) = 0
      PROVE  Of(s, T) = <<>>
  <2>1. Of(s, T) = Upto(s, T)[Len(s)] /\ Upto(s, T)[0] = <<>>
    BY UptoIs
  <2> QED
    BY <2>1, <1>1
<1>2. <<>> \in Seq({0}) /\ Len(<<>>) = 0
  OBVIOUS
<1> QED
  BY <1>1, <1>2

LEMMA OfAppend ==
  ASSUME NEW S, NEW s \in Seq(S), NEW x \in S, NEW T
  PROVE  Of(Append(s, x), T) = IF x.type \in T THEN Append(Of(s, T), x) ELSE Of(s, T)
<1> DEFINE t == Append(s, x)
           u == Upto(s, T)
           v == Upto(t, T)
<1>1. /\ t \in Seq(S) /\ Len(t) = Len(s) + 1 /\ Len(s) \in Nat
      /\ \A i \in 1..Len(s) : t[i] = s[i]
      /\ t[Len(s) + 1] = x
  BY AppendProperties
<1> HIDE DEF t
<1>2. /\ Of(s, T) = u[Len(s)] /\ u[0] = <<>>
      /\ \A n \in 1..Len(s) : u[n] = IF s[n].type \in T THEN Append(u[n - 1], s[n]) ELSE u[n - 1]
  BY UptoIs
<1>3. /\ Of(t, T) = v[Len(t)] /\ v[0] = <<>>
      /\ \A n \in 1..Len(t) : v[n] = IF t[n].type \in T THEN Append(v[n - 1], t[n]) ELSE v[n - 1]
  BY <1>1, UptoIs
<1> HIDE DEF u, v
<1> DEFINE P == {n \in 0..Len(s) : u[n] = v[n]}
<1>4. 0 \in P
  BY <1>1, <1>2, <1>3
<1>5. ASSUME NEW n \in 0..(Len(s) - 1), n \in P  PROVE  n + 1 \in P
  <2>1. n + 1 \in 1..Len(s) /\ n + 1 \in 1..Len(t) /\ (n + 1) - 1 = n /\ n + 1 \in 0..Len(s)
    BY <1>1
  <2>2. u[n + 1] = IF s[n + 1].type \in T THEN Append(u[n], s[n + 1]) ELSE u[n]
    BY <2>1, <1>2
  <2>3. v[n + 1] = IF t[n + 1].type \in T THEN Append(v[n], t[n + 1]) ELSE v[n]
    BY <2>1, <1>3
  <2>4. t[n + 1] = s[n + 1] /\ u[n] = v[n]
    BY <2>1, <1>1, <1>5
  <2> QED
    BY <2>1, <2>2, <2>3, <2>4
<1>6. u[Len(s)] = v[Len(s)]
  <2> HIDE DEF P
  <2>1. 0..Len(s) \subseteq P
    BY <1>1, <1>4, <1>5, Induction
  <2> QED
    BY <2>1, <1>1 DEF P
<1>7. v[Len(s) + 1] = IF x.type \in T THEN Append(v[Len(s)], x) ELSE v[Len(s)]
  <2>1. Len(s) + 1 \in 1..Len(t) /\ (Len(s) + 1) - 1 = Len(s)
    BY <1>1
  <2> QED
    BY <2>1, <1>1, <1>3
<1> QED
  BY <1>1, <1>2, <1>3, <1>6, <1>7 DEF t

LEMMA OfElements ==
  ASSUME NEW S, NEW s \in Seq(S), NEW T
  PROVE  Elements(Of(s, T)) = {x \in Elements(s) : x.type \in T}
<1> DEFINE P == {t \in Seq(S) : Elements(Of(t, T)) = {x \in Elements(t) : x.type \in T}}
<1>1. <<>> \in P
  BY OfEmpty DEF Elements
<1>2. ASSUME NEW t \in Seq(S), NEW x \in S, t \in P  PROVE  Append(t, x) \in P
  <2>1. Append(t, x) \in Seq(S) /\ Of(t, T) \in Seq(S)
    BY OfType, AppendProperties
  <2>2. Elements(Append(t, x)) = Elements(t) \cup {x}
    BY ElementsAppend
  <2>3. x.type \in T => Elements(Append(Of(t, T), x)) = Elements(Of(t, T)) \cup {x}
    BY <2>1, ElementsAppend
  <2>4. Of(Append(t, x), T) = IF x.type \in T THEN Append(Of(t, T), x) ELSE Of(t, T)
    BY OfAppend
  <2> QED
    BY <2>1, <2>2, <2>3, <2>4, <1>2
<1>3. Seq(S) \subseteq P
  <2> HIDE DEF P
  <2> QED
    BY <1>1, <1>2, SeqInduction
<1> QED
  BY <1>3

LEMMA OfOf ==
  ASSUME NEW S, NEW s \in Seq(S), NEW T, NEW U
  PROVE  Of(Of(s, T), U) = Of(s, T \cap U)
<1> DEFINE P == {t \in Seq(S) : Of(Of(t, T), U) = Of(t, T \cap U)}
<1>1. <<>> \in P
  BY OfEmpty
<1>2. ASSUME NEW t \in Seq(S), NEW x \in S, t \in P  PROVE  Append(t, x) \in P
  <2>1. Append(t, x) \in Seq(S) /\ Of(t, T) \in Seq(S)
    BY OfType, AppendProperties
  <2>2. Of(Append(t, x), T) = IF x.type \in T THEN Append(Of(t, T), x) ELSE Of(t, T)
    BY OfAppend
  <2>3. Of(Append(Of(t, T), x), U) = IF x.type \in U THEN Append(Of(Of(t, T), U), x) ELSE Of(Of(t, T), U)
    BY <2>1, OfAppend
  <2> DEFINE V == T \cap U
  <2>4. Of(Append(t, x), V) = IF x.type \in V THEN Append(Of(t, V), x) ELSE Of(t, V)
    <3> HIDE DEF V
    <3> QED
      BY OfAppend
  <2>5. Of(Of(t, T), U) = Of(t, V)
    BY <1>2
  <2>6. x.type \in V <=> x.type \in T /\ x.type \in U
    OBVIOUS
  <2> HIDE DEF V
  <2>7. Of(Of(Append(t, x), T), U) = Of(Append(t, x), V)
    BY <2>2, <2>3, <2>4, <2>5, <2>6
  <2> QED
    BY <2>1, <2>7 DEF V
<1>3. Seq(S) \subseteq P
  <2> HIDE DEF P
  <2> QED
    BY <1>1, <1>2, SeqInduction
<1> QED
  BY <1>3

LEMMA OfConcat ==
  ASSUME NEW S, NEW s \in Seq(S), NEW t \in Seq(S), NEW T
  PROVE  Of(s \o t, T) = Of(s, T) \o Of(t, T)
<1> DEFINE P == {u \in Seq(S) : Of(s \o u, T) = Of(s, T) \o Of(u, T)}
<1>0. Of(s, T) \in Seq(S)
  BY OfType
<1>1. <<>> \in P
  BY OfEmpty, <1>0, ConcatEmptySeq
<1>2. ASSUME NEW u \in Seq(S), NEW x \in S, u \in P  PROVE  Append(u, x) \in P
  <2>1. Append(u, x) \in Seq(S) /\ Of(u, T) \in Seq(S) /\ s \o u \in Seq(S)
    BY OfType, AppendProperties, ConcatProperties
  <2>2. s \o Append(u, x) = Append(s \o u, x)
    OBVIOUS
  <2>3. Of(s, T) \o Append(Of(u, T), x) = Append(Of(s, T) \o Of(u, T), x)
    BY <1>0, <2>1
  <2>4. Of(Append(u, x), T) = IF x.type \in T THEN Append(Of(u, T), x) ELSE Of(u, T)
    BY OfAppend
  <2>5. Of(Append(s \o u, x), T) = IF x.type \in T THEN Append(Of(s \o u, T), x) ELSE Of(s \o u, T)
    BY <2>1, OfAppend
  <2> QED
    BY <2>1, <2>2, <2>3, <2>4, <2>5, <1>2
<1>3. Seq(S) \subseteq P
  <2> HIDE DEF P
  <2> QED
    BY <1>1, <1>2, SeqInduction
<1> QED
  BY <1>3

\* Only the types the sequence has matter.
LEMMA OfSame ==
  ASSUME NEW S, NEW s \in Seq(S), NEW T, NEW U,
         \A x \in Elements(s) : x.type \in T <=> x.type \in U
  PROVE  Of(s, T) = Of(s, U)
<1> DEFINE Same(t) == \A x \in Elements(t) : x.type \in T <=> x.type \in U
           P == {t \in Seq(S) : Same(t) => Of(t, T) = Of(t, U)}
<1>1. <<>> \in P
  BY OfEmpty
<1>2. ASSUME NEW t \in Seq(S), NEW x \in S, t \in P  PROVE  Append(t, x) \in P
  <2>1. Append(t, x) \in Seq(S) /\ Elements(Append(t, x)) = Elements(t) \cup {x}
    BY ElementsAppend, AppendProperties
  <2>2. Of(Append(t, x), T) = IF x.type \in T THEN Append(Of(t, T), x) ELSE Of(t, T)
    BY OfAppend
  <2>3. Of(Append(t, x), U) = IF x.type \in U THEN Append(Of(t, U), x) ELSE Of(t, U)
    BY OfAppend
  <2> QED
    BY <2>1, <2>2, <2>3, <1>2
<1>3. Seq(S) \subseteq P
  <2> HIDE DEF P
  <2> QED
    BY <1>1, <1>2, SeqInduction
<1>4. Same(s)
  OBVIOUS
<1> QED
  BY <1>3, <1>4

LEMMA OfAll ==
  ASSUME NEW S, NEW s \in Seq(S), NEW T, \A x \in Elements(s) : x.type \in T
  PROVE  Of(s, T) = s
<1> DEFINE P == {t \in Seq(S) : (\A x \in Elements(t) : x.type \in T) => Of(t, T) = t}
<1>1. <<>> \in P
  BY OfEmpty
<1>2. ASSUME NEW t \in Seq(S), NEW x \in S, t \in P  PROVE  Append(t, x) \in P
  <2>1. Append(t, x) \in Seq(S) /\ Elements(Append(t, x)) = Elements(t) \cup {x}
    BY ElementsAppend, AppendProperties
  <2>2. Of(Append(t, x), T) = IF x.type \in T THEN Append(Of(t, T), x) ELSE Of(t, T)
    BY OfAppend
  <2> QED
    BY <2>1, <2>2, <1>2
<1>3. Seq(S) \subseteq P
  <2> HIDE DEF P
  <2> QED
    BY <1>1, <1>2, SeqInduction
<1> QED
  BY <1>3

LEMMA OfNone ==
  ASSUME NEW S, NEW s \in Seq(S), NEW T, \A x \in Elements(s) : x.type \notin T
  PROVE  Of(s, T) = <<>>
<1>1. Of(s, T) \in Seq(S) /\ Elements(Of(s, T)) = {}
  BY OfType, OfElements
<1>2. ASSUME Of(s, T) # <<>>  PROVE  FALSE
  <2>1. Len(Of(s, T)) \in Nat \ {0}
    BY <1>1, <1>2, EmptySeq
  <2>2. Of(s, T)[1] \in Elements(Of(s, T))
    BY <2>1, <1>1 DEF Elements
  <2> QED
    BY <2>2, <1>1
<1> QED
  BY <1>2

LEMMA TypesInIs ==
  ASSUME NEW s
  PROVE  TypesIn(s) = {x.type : x \in Elements(s)}
BY DEF TypesIn, Elements

LEMMA TypesOf ==
  ASSUME NEW S, NEW s \in Seq(S), NEW T
  PROVE  TypesIn(Of(s, T)) = TypesIn(s) \cap T
BY OfElements, TypesInIs

LEMMA TypesConcat ==
  ASSUME NEW S, NEW s \in Seq(S), NEW t \in Seq(S)
  PROVE  TypesIn(s \o t) = TypesIn(s) \cup TypesIn(t)
BY ElementsConcat, TypesInIs

\* Without is Of the other types, among all there are.
LEMMA WithoutIs ==
  ASSUME NEW S, NEW s \in Seq(S), NEW T, NEW K, \A x \in Elements(s) : x.type \in K
  PROVE  Without(s, T) = Of(s, K \ T)
<1>1. \A x \in Elements(s) : x.type \in TypesIn(s) \ T <=> x.type \in K \ T
  BY TypesInIs
<1> QED
  BY <1>1, OfSame DEF Without

\* Where no type is there twice.
Single(s) == \A i, j \in DOMAIN s : s[i].type = s[j].type => i = j

LEMMA SingleAppend ==
  ASSUME NEW S, NEW s \in Seq(S), NEW x \in S
  PROVE  Single(Append(s, x)) <=> Single(s) /\ x.type \notin TypesIn(s)
<1>1. /\ DOMAIN Append(s, x) = 1..(Len(s) + 1) /\ Len(s) \in Nat /\ DOMAIN s = 1..Len(s)
      /\ \A i \in 1..Len(s) : Append(s, x)[i] = s[i]
      /\ Append(s, x)[Len(s) + 1] = x
  BY AppendProperties
<1>2. ASSUME Single(Append(s, x))  PROVE  Single(s) /\ x.type \notin TypesIn(s)
  <2>1. \A i \in 1..Len(s) : i \in 1..(Len(s) + 1) /\ i # Len(s) + 1
    BY <1>1
  <2> QED
    BY <1>1, <1>2, <2>1 DEF Single, TypesIn
<1>3. ASSUME Single(s), x.type \notin TypesIn(s)  PROVE  Single(Append(s, x))
  <2>1. \A i \in 1..(Len(s) + 1) : i \in 1..Len(s) \/ i = Len(s) + 1
    BY <1>1
  <2> QED
    BY <1>1, <1>3, <2>1 DEF Single, TypesIn
<1> QED
  BY <1>2, <1>3

LEMMA OfSingle ==
  ASSUME NEW S, NEW s \in Seq(S), Single(s)
  PROVE  /\ \A T : Single(Of(s, T))
         /\ \A x \in Elements(s) : Of(s, {x.type}) = <<x>>
<1> DEFINE Good(t) == /\ \A T : Single(Of(t, T))
                      /\ \A x \in Elements(t) : Of(t, {x.type}) = <<x>>
           P == {t \in Seq(S) : Single(t) => Good(t)}
<1>1. <<>> \in P
  BY OfEmpty DEF Single, Elements
<1>2. ASSUME NEW t \in Seq(S), NEW x \in S, t \in P, Single(Append(t, x))  PROVE  Good(Append(t, x))
  <2>1. Single(t) /\ x.type \notin TypesIn(t) /\ Good(t)
    BY <1>2, SingleAppend
  <2>2. \A T : Of(Append(t, x), T) = IF x.type \in T THEN Append(Of(t, T), x) ELSE Of(t, T)
    BY OfAppend
  <2>3. ASSUME NEW T  PROVE  Single(Of(Append(t, x), T))
    <3>1. Single(Of(t, T)) /\ Of(t, T) \in Seq(S)
      BY <2>1, OfType
    <3>2. x.type \notin TypesIn(Of(t, T))
      BY <2>1, TypesOf
    <3>3. Single(Append(Of(t, T), x))
      BY <3>1, <3>2, SingleAppend
    <3> QED
      BY <2>2, <3>1, <3>3
  <2>4. ASSUME NEW y \in Elements(t)  PROVE  Of(Append(t, x), {y.type}) = <<y>>
    <3>1. y.type # x.type
      BY <2>1, TypesInIs
    <3> QED
      BY <3>1, <2>1, <2>2
  <2>5. Of(Append(t, x), {x.type}) = <<x>>
    <3>1. Of(t, {x.type}) = <<>>
      BY <2>1, TypesInIs, OfNone
    <3>2. Of(Append(t, x), {x.type}) = Append(<<>>, x)
      BY <3>1, <2>2
    <3> QED
      BY <3>2
  <2>6. Elements(Append(t, x)) = Elements(t) \cup {x}
    BY ElementsAppend
  <2> QED
    BY <2>3, <2>4, <2>5, <2>6
<1>3. Seq(S) \subseteq P
  <2>1. \A t \in Seq(S), x \in S : t \in P => Append(t, x) \in P
    BY <1>2, AppendProperties
  <2> HIDE DEF P
  <2> QED
    BY <1>1, <2>1, SeqInduction
<1> QED
  BY <1>3

-----------------------------------------------------------------------------
(* The types of things.                                                     *)

Identity == 1..MaxGuids
EntityName == Names \cup {r.name : r \in Records}
Component == CoreNames \cup {Gameplay}
Kind == Component \cup {c.type : c \in Parts}
PartSet == [type : Kind, node : Nodes]
Value == UNION {Held(t) : t \in Definitions}
Comps == UNION {[T -> Value] : T \in SUBSET Component}
EntitySet == [guid : Identity, name : EntityName, parent : Identity \cup {Nobody},
              comps : Comps, kept : Seq(PartSet)]

Refs == {r.parent : r \in Records} \cup {Reference(p) : p \in Identity \cup {Nobody}}
RecordSet == [guid : {Unwritten, Mistyped} \cup Identity, name : EntityName,
              parent : Refs, components : Seq(PartSet)]
Docs == [version : Nat, entities : Seq(RecordSet)]

LEMMA DocumentsTyped ==
  ASSUME NEW d \in Documents \ {Malformed}
  PROVE  /\ d \in Docs
         /\ \A r \in Elements(d.entities) : r.guid \in {Unwritten, Mistyped} \cup 1..Authored
<1>1. d \in [version : Nat, entities : Seq(Elements(d.entities))]
  BY DocumentsAssumption
<1>2. Elements(d.entities) \subseteq Records
  BY DEF Records
<1>3. ASSUME NEW r \in Records
      PROVE  r \in RecordSet /\ r.guid \in {Unwritten, Mistyped} \cup 1..Authored
  <2>1. r \in [guid : {Unwritten, Mistyped} \cup 1..Authored, name : {r.name},
                parent : {r.parent}, components : Seq(Elements(r.components))]
    BY DocumentsAssumption
  <2>2. Elements(r.components) \subseteq PartSet
    <3> SUFFICES ASSUME NEW c \in Elements(r.components)  PROVE  c \in PartSet
      OBVIOUS
    <3>1. c \in Parts
      BY DEF Parts
    <3>2. c \in [type : {c.type}, node : {c.node}]
      BY <3>1, DocumentsAssumption
    <3>3. c.type \in Kind /\ c.node \in Nodes
      BY <3>1 DEF Kind, Nodes
    <3> QED
      BY <3>2, <3>3 DEF PartSet
  <2>3. r.components \in Seq(PartSet)
    <3>1. r.components \in Seq(Elements(r.components))
      BY <2>1
    <3> QED
      BY <3>1, <2>2, SeqMonotonic
  <2>4. r.name \in EntityName /\ r.parent \in Refs
    BY DEF EntityName, Refs
  <2>5. 1..Authored \subseteq Identity
    BY BoundsAssumption DEF Identity
  <2> QED
    BY <2>1, <2>3, <2>4, <2>5 DEF RecordSet
<1>4. Elements(d.entities) \subseteq RecordSet
  BY <1>2, <1>3
<1>5. d.entities \in Seq(RecordSet)
  <2>1. d.entities \in Seq(Elements(d.entities))
    BY <1>1
  <2> QED
    BY <2>1, <1>4, SeqMonotonic
<1> QED
  BY <1>1, <1>2, <1>3, <1>5 DEF Docs

-----------------------------------------------------------------------------
(* The table of types, when the process knows g of the module's type.       *)

GameplayType == gameplay \in {NoType, Forgotten} \cup Builds

CoreDef(t) == Core[CHOOSE i \in DOMAIN Core : Core[i].type = t].def
DefOf(g, t) == IF t = Gameplay THEN g ELSE CoreDef(t)
LiveIn(g) == CoreNames \cup IF g \in Builds THEN {Gameplay} ELSE {}

TypeEntry == [type : Component, def : Definitions \cup {Forgotten}]

LEMMA CoreTyped ==
  /\ Core \in Seq(TypeEntry) /\ Single(Core)
  /\ \A i \in DOMAIN Core : CoreDef(Core[i].type) = Core[i].def
  /\ \A t \in CoreNames : CoreDef(t) \in Definitions
<1>1. Core \in Seq(TypeEntry)
  <2>1. Elements(Core) \subseteq TypeEntry
    <3> SUFFICES ASSUME NEW i \in DOMAIN Core  PROVE  Core[i] \in TypeEntry
      BY DEF Elements
    <3>1. Core[i] = [type |-> Core[i].type, def |-> Core[i].def]
      BY TypesAssumption
    <3>2. Core[i].type \in Component /\ Core[i].def \in Definitions
      BY DEF Component, CoreNames, Definitions
    <3> QED
      BY <3>1, <3>2 DEF TypeEntry
  <2> QED
    BY <2>1, TypesAssumption, SeqMonotonic
<1>2. Single(Core)
  BY TypesAssumption DEF Single
<1>3. ASSUME NEW i \in DOMAIN Core  PROVE  CoreDef(Core[i].type) = Core[i].def
  BY TypesAssumption DEF CoreDef
<1>4. \A t \in CoreNames : CoreDef(t) \in Definitions
  BY <1>3 DEF CoreNames, Definitions
<1> QED
  BY <1>1, <1>2, <1>3, <1>4

LEMMA TypesAre ==
  ASSUME GameplayType
  PROVE  /\ Types \in Seq(TypeEntry) /\ Single(Types)
         /\ Known = CoreNames \cup IF gameplay = NoType THEN {} ELSE {Gameplay}
         /\ \A x \in Elements(Types) : x.def = DefOf(gameplay, x.type)
         /\ \A t \in Known : TypeOf(t) = DefOf(gameplay, t)
         /\ Live = LiveIn(gameplay)
         /\ \A t \in LiveIn(gameplay) : DefOf(gameplay, t) \in Definitions
<1> DEFINE last == [type |-> Gameplay, def |-> gameplay]
<1>1. gameplay # NoType => last \in TypeEntry
  BY DEF GameplayType, TypeEntry, Component, Definitions
<1>2. TypesIn(Core) = CoreNames
  BY DEF TypesIn, CoreNames
<1>3. Types \in Seq(TypeEntry)
  BY <1>1, CoreTyped, AppendProperties DEF Types
<1>4. Single(Types)
  BY <1>1, <1>2, CoreTyped, SingleAppend, TypesAssumption DEF Types
<1>5. Elements(Types) = Elements(Core) \cup IF gameplay = NoType THEN {} ELSE {last}
  BY <1>1, CoreTyped, ElementsAppend DEF Types
<1>6. Known = CoreNames \cup IF gameplay = NoType THEN {} ELSE {Gameplay}
  <2>1. Known = {x.type : x \in Elements(Types)} /\ CoreNames = {x.type : x \in Elements(Core)}
    BY <1>2, TypesInIs DEF Known
  <2>2. CASE gameplay = NoType
    BY <2>1, <2>2, <1>5
  <2>3. CASE gameplay # NoType
    <3>1. Elements(Types) = Elements(Core) \cup {last} /\ last.type = Gameplay
      BY <2>3, <1>5
    <3> HIDE DEF last
    <3> QED
      BY <2>1, <2>3, <3>1
  <2> QED
    BY <2>2, <2>3
<1>7. ASSUME NEW x \in Elements(Types)  PROVE  x.def = DefOf(gameplay, x.type)
  <2>1. CASE x \in Elements(Core)
    <3>1. PICK i \in DOMAIN Core : x = Core[i]
      BY <2>1 DEF Elements
    <3>2. x.type # Gameplay
      BY <3>1, TypesAssumption DEF CoreNames
    <3> QED
      BY <3>1, <3>2, CoreTyped DEF DefOf
  <2>2. CASE x = last
    BY <2>2 DEF DefOf
  <2> QED
    BY <2>1, <2>2, <1>5
<1>8. ASSUME NEW t \in Known  PROVE  TypeOf(t) = DefOf(gameplay, t)
  <2> DEFINE k == CHOOSE i \in DOMAIN Types : Types[i].type = t
  <2>1. k \in DOMAIN Types /\ Types[k].type = t
    BY DEF Known, TypesIn
  <2> HIDE DEF k
  <2>2. Types[k].def = DefOf(gameplay, t)
    BY <2>1, <1>7 DEF Elements
  <2> QED
    BY <2>2 DEF TypeOf, k
<1>9. \A t \in CoreNames : DefOf(gameplay, t) \in Definitions
  BY CoreTyped, TypesAssumption DEF DefOf
<1>10. Live = LiveIn(gameplay)
  <2>1. \A t \in CoreNames : t \in Live
    BY <1>6, <1>8, <1>9, TypesAssumption DEF Live
  <2>2. Gameplay \in Live <=> gameplay \in Builds
    <3>1. DefOf(gameplay, Gameplay) = gameplay
      BY DEF DefOf
    <3>2. gameplay \in Builds <=> gameplay # NoType /\ gameplay # Forgotten
      BY TypesAssumption DEF GameplayType, Definitions
    <3>3. Gameplay \in Known <=> gameplay # NoType
      BY <1>6, TypesAssumption
    <3> QED
      BY <3>1, <3>2, <3>3, <1>8 DEF Live
  <2>3. Live \subseteq CoreNames \cup {Gameplay}
    BY <1>6 DEF Live
  <2> QED
    BY <2>1, <2>2, <2>3 DEF LiveIn
<1>11. \A t \in LiveIn(gameplay) : DefOf(gameplay, t) \in Definitions
  <2>1. gameplay \in Builds => DefOf(gameplay, Gameplay) \in Definitions
    BY DEF DefOf, Definitions
  <2> QED
    BY <2>1, <1>9 DEF LiveIn
<1> QED
  BY <1>3, <1>4, <1>6, <1>7, <1>8, <1>10, <1>11

-----------------------------------------------------------------------------
(* Entities.                                                                *)

\* What an entity is while the process knows g: its components are of types
\* that can be constructed, and hold what those types hold.
Proper(e, g) ==
    /\ e \in EntitySet
    /\ Intrinsic \subseteq DOMAIN e.comps /\ DOMAIN e.comps \subseteq LiveIn(g)
    /\ \A t \in DOMAIN e.comps : e.comps[t] \in Held(DefOf(g, t))
    /\ \A k \in Elements(e.kept) : k.type \notin Excluded

\* What a type reads of the last component of its name.
ReadValue(g, cs, t) ==
    ReadProperties(DefOf(g, t), Last(Of(cs, {t})).node, Construct(DefOf(g, t)))

LEMMA CompsIs ==
  ASSUME NEW f
  PROVE  f \in Comps <=> DOMAIN f \subseteq Component /\ f \in [DOMAIN f -> Value]
BY DEF Comps

LEMMA EntityProper ==
  ASSUME GameplayType, NEW g \in Identity, NEW name \in EntityName
  PROVE  LET e == Entity(g, name)
         IN  /\ Proper(e, gameplay)
             /\ e.guid = g /\ e.name = name /\ e.parent = Nobody /\ e.kept = <<>>
             /\ DOMAIN e.comps = Intrinsic
             /\ \A t \in Intrinsic : e.comps[t] = Construct(DefOf(gameplay, t))
<1> DEFINE e == Entity(g, name)
           c == [t \in Intrinsic |-> Construct(TypeOf(t))]
<1>1. Intrinsic \subseteq CoreNames /\ CoreNames \subseteq Known /\ CoreNames \subseteq LiveIn(gameplay)
  BY TypesAssumption, TypesAre DEF LiveIn
<1>2. \A t \in Intrinsic : TypeOf(t) = DefOf(gameplay, t) /\ DefOf(gameplay, t) \in Definitions
  BY <1>1, TypesAre
<1>3. \A t \in Intrinsic : c[t] = Construct(DefOf(gameplay, t)) /\ c[t] \in Held(DefOf(gameplay, t))
  BY <1>2, ValuesAssumption
<1>4. c \in Comps
  BY <1>1, <1>2, <1>3, CompsIs DEF Value, Component
<1>5. /\ e.guid = g /\ e.name = name /\ e.parent = Nobody /\ e.kept = <<>> /\ e.comps = c
      /\ e \in EntitySet
  BY <1>4 DEF Entity, EntitySet
<1> QED
  BY <1>1, <1>3, <1>5 DEF Proper, Elements

LEMMA LastOf ==
  ASSUME NEW S, NEW cs \in Seq(S), NEW t \in TypesIn(cs)
  PROVE  Last(Of(cs, {t})) \in Elements(cs) /\ Last(Of(cs, {t})).type = t
<1> DEFINE o == Of(cs, {t})
<1>1. o \in Seq(S) /\ Elements(o) = {x \in Elements(cs) : x.type \in {t}}
  BY OfType, OfElements
<1>2. PICK x \in Elements(o) : TRUE
  BY <1>1, TypesInIs
<1> HIDE DEF o
<1>3. Len(o) \in 1..Len(o)
  BY <1>1, <1>2 DEF Elements
<1>4. Last(o) \in Elements(o)
  BY <1>1, <1>3 DEF Last, Elements
<1> QED
  BY <1>1, <1>4 DEF o

LEMMA ReadIs ==
  ASSUME GameplayType, NEW cs \in Seq(PartSet), NEW t \in TypesIn(cs) \cap LiveIn(gameplay)
  PROVE  /\ Read(t, Last(Of(cs, {t})).node) = ReadValue(gameplay, cs, t)
         /\ ReadValue(gameplay, cs, t) \in Held(DefOf(gameplay, t))
<1>1. Last(Of(cs, {t})) \in PartSet
  BY LastOf, ElementsIn
<1>2. Last(Of(cs, {t})).node \in Nodes
  BY <1>1 DEF PartSet
<1>3. TypeOf(t) = DefOf(gameplay, t) /\ DefOf(gameplay, t) \in Definitions
  BY TypesAre DEF Live
<1> QED
  BY <1>2, <1>3, ValuesAssumption DEF Read, ReadValue

LEMMA ReadComponentsIs ==
  ASSUME GameplayType, NEW e \in EntitySet, NEW cs \in Seq(PartSet)
  PROVE  LET r == ReadComponents(e, cs)
             read == TypesIn(cs) \cap LiveIn(gameplay)
         IN  /\ r \in EntitySet
             /\ r.guid = e.guid /\ r.name = e.name /\ r.parent = e.parent
             /\ DOMAIN r.comps = DOMAIN e.comps \cup read
             /\ \A t \in read : r.comps[t] = ReadValue(gameplay, cs, t)
             /\ \A t \in DOMAIN e.comps \ read : r.comps[t] = e.comps[t]
             /\ r.kept = e.kept \o Without(cs, Known \cup Excluded)
<1> DEFINE r == ReadComponents(e, cs)
           read == TypesIn(cs) \cap LiveIn(gameplay)
           c == [t \in DOMAIN e.comps \cup read |->
                   IF t \in read THEN Read(t, Last(Of(cs, {t})).node) ELSE e.comps[t]]
           k == e.kept \o Without(cs, Known \cup Excluded)
<1>1. Live \ Excluded = LiveIn(gameplay)
  BY TypesAre, TypesAssumption DEF LiveIn
<1>2. r = [e EXCEPT !.comps = c, !.kept = k]
  BY <1>1 DEF ReadComponents
<1>3. \A t \in read : /\ Read(t, Last(Of(cs, {t})).node) = ReadValue(gameplay, cs, t)
                      /\ ReadValue(gameplay, cs, t) \in Value /\ t \in Component
  BY ReadIs, TypesAre DEF Value, Component, LiveIn
<1>4. e.comps \in Comps /\ e.kept \in Seq(PartSet)
  BY DEF EntitySet
<1>5. c \in Comps
  BY <1>3, <1>4, CompsIs
<1>6. k \in Seq(PartSet)
  <2>1. Without(cs, Known \cup Excluded) \in Seq(PartSet)
    BY OfType DEF Without
  <2> QED
    BY <2>1, <1>4, ConcatProperties
<1> HIDE DEF c, k
<1>7. /\ r \in EntitySet /\ r.guid = e.guid /\ r.name = e.name /\ r.parent = e.parent
      /\ r.comps = c /\ r.kept = k
  BY <1>2, <1>5, <1>6 DEF EntitySet
<1> QED
  BY <1>3, <1>7 DEF c, k

LEMMA ReadComponentsProper ==
  ASSUME GameplayType, NEW e, Proper(e, gameplay), NEW cs \in Seq(PartSet)
  PROVE  Proper(ReadComponents(e, cs), gameplay)
<1> DEFINE r == ReadComponents(e, cs)
           read == TypesIn(cs) \cap LiveIn(gameplay)
<1>1. e \in EntitySet
  BY DEF Proper
<1>2. /\ r \in EntitySet
      /\ DOMAIN r.comps = DOMAIN e.comps \cup read
      /\ \A t \in read : r.comps[t] = ReadValue(gameplay, cs, t)
      /\ \A t \in DOMAIN e.comps \ read : r.comps[t] = e.comps[t]
      /\ r.kept = e.kept \o Without(cs, Known \cup Excluded)
  BY <1>1, ReadComponentsIs
<1> HIDE DEF r
<1>3. \A t \in DOMAIN r.comps : r.comps[t] \in Held(DefOf(gameplay, t))
  BY <1>2, ReadIs DEF Proper
<1>4. \A k \in Elements(r.kept) : k.type \notin Excluded
  <2> DEFINE w == Without(cs, Known \cup Excluded)
  <2>1. w \in Seq(PartSet) /\ \A k \in Elements(w) : k.type \notin Excluded
    BY OfType, OfElements DEF Without
  <2>2. e.kept \in Seq(PartSet)
    BY <1>1 DEF EntitySet
  <2> HIDE DEF w
  <2>3. Elements(e.kept \o w) = Elements(e.kept) \cup Elements(w)
    BY <2>1, <2>2, ElementsConcat
  <2> QED
    BY <2>1, <2>3, <1>2 DEF Proper, w
<1> QED
  BY <1>2, <1>3, <1>4 DEF Proper, r

-----------------------------------------------------------------------------
(* Forests of entities, or of anything with a guid, a name and a parent.    *)

Bone == [guid : Identity, name : EntityName, parent : Identity \cup {Nobody}]

Under(e, p) == [e EXCEPT !.parent = p]
Linkable(S) ==
    \A e \in S :
        /\ e.guid \in Identity /\ e.parent \in Identity \cup {Nobody}
        /\ Under(e, e.parent) = e
        /\ \A p \in Identity \cup {Nobody} :
              LET r == Under(e, p)
              IN  /\ r \in S /\ r.guid = e.guid /\ r.name = e.name /\ r.parent = p
                  /\ \A q \in Identity \cup {Nobody} : Under(r, q) = Under(e, q)

LEMMA BonesLinkable == Linkable(Bone)
BY DEF Bone, Linkable, Under

LEMMA EntitiesLinkable == Linkable(EntitySet)
<1> SUFFICES ASSUME NEW e \in EntitySet
             PROVE  /\ e.guid \in Identity /\ e.parent \in Identity \cup {Nobody}
                    /\ Under(e, e.parent) = e
                    /\ \A p \in Identity \cup {Nobody} :
                          LET r == Under(e, p)
                          IN  /\ r \in EntitySet /\ r.guid = e.guid /\ r.name = e.name /\ r.parent = p
                              /\ \A q \in Identity \cup {Nobody} :
                                    Under(r, q) = Under(e, q)
  BY DEF Linkable
<1> QED
  BY DEF EntitySet, Under

LEMMA NobodyIsNone == Nobody \notin Identity
BY BoundsAssumption DEF Identity

Closed(s, D) == \A e \in Elements(s) : e.parent \in D => e.guid \in D

\* What is below gs is the least closed set that holds them.
LEMMA BelowIs ==
  ASSUME NEW s, NEW gs
  PROVE  /\ gs \subseteq Below(s, gs) /\ Below(s, gs) \subseteq Ids(s) \cup gs
         /\ Closed(s, Below(s, gs))
         /\ \A D : gs \subseteq D /\ Closed(s, D) => Below(s, gs) \subseteq D
<1> DEFINE all == Ids(s) \cup gs
<1>1. Below(s, gs) = {g \in all : \A D \in SUBSET all : gs \subseteq D /\ Closed(s, D) => g \in D}
  BY DEF Below, Closed
<1>2. gs \subseteq Below(s, gs) /\ Below(s, gs) \subseteq all
  BY <1>1
<1>3. Closed(s, Below(s, gs))
  <2> SUFFICES ASSUME NEW e \in Elements(s), e.parent \in Below(s, gs),
                      NEW D \in SUBSET all, gs \subseteq D, Closed(s, D)
               PROVE  e.guid \in D /\ e.guid \in all
    <3>1. \A e \in Elements(s) : e.guid \in all
      BY DEF Ids
    <3> QED
      BY <1>1, <3>1 DEF Closed
  <2> QED
    BY <1>1 DEF Closed, Ids
<1>4. ASSUME NEW D, gs \subseteq D, Closed(s, D)  PROVE  Below(s, gs) \subseteq D
  <2>1. Closed(s, D \cap all)
    BY <1>4 DEF Closed, Ids
  <2> QED
    BY <2>1, <1>4, <1>1
<1> QED
  BY <1>2, <1>3, <1>4

\* No entity is below itself as soon as a closed set says so.
LEMMA ForestIs ==
  ASSUME NEW s
  PROVE  Forest(s) <=>
           /\ \A i, j \in DOMAIN s : s[i].guid = s[j].guid => i = j
           /\ \A e \in Elements(s) : e.parent # Nobody =>
                /\ e.parent \in Ids(s)
                /\ \E D : e.guid \in D /\ Closed(s, D) /\ e.parent \notin D
<1>1. ASSUME Forest(s), NEW e \in Elements(s), e.parent # Nobody
      PROVE  /\ e.parent \in Ids(s)
             /\ \E D : e.guid \in D /\ Closed(s, D) /\ e.parent \notin D
  <2>1. e.parent \in Ids(s) /\ e.parent \notin Below(s, {e.guid})
    BY <1>1 DEF Forest
  <2> QED
    BY <2>1, BelowIs
<1>2. ASSUME NEW e \in Elements(s), e.parent \in Ids(s),
             NEW D, e.guid \in D, Closed(s, D), e.parent \notin D
      PROVE  e.parent \in Ids(s) \ Below(s, {e.guid})
  BY <1>2, BelowIs
<1> QED
  BY <1>1, <1>2 DEF Forest

\* Where an entity is.
LEMMA AtIs ==
  ASSUME NEW s, NEW g \in Ids(s)
  PROVE  At(s, g) \in DOMAIN s /\ s[At(s, g)].guid = g
<1>1. \E i \in DOMAIN s : s[i].guid = g
  BY DEF Ids, Elements
<1> QED
  BY <1>1 DEF At

LEMMA LinkedType ==
  ASSUME NEW S, Linkable(S), NEW s \in Seq(S), NEW c, NEW p \in Identity
  PROVE  Linked(s, c, p) \in Seq(S)
<1> DEFINE k == At(s, c)
           t == [s EXCEPT ![k].parent = p]
<1>1. t = [i \in DOMAIN s |-> IF i = k THEN Under(s[k], p) ELSE s[i]]
  BY DEF Under
<1>2. DOMAIN s = 1..Len(s) /\ Len(s) \in Nat /\ \A i \in 1..Len(s) : s[i] \in S
  OBVIOUS
<1>3. \A e \in S : Under(e, p) \in S
  BY DEF Linkable
<1> HIDE DEF k
<1>4. \A i \in 1..Len(s) : (IF i = k THEN Under(s[k], p) ELSE s[i]) \in S
  BY <1>2, <1>3
<1>5. t \in [1..Len(s) -> S]
  BY <1>1, <1>2, <1>4
<1>6. t \in Seq(S)
  BY <1>2, <1>5, SeqDef
<1> QED
  BY <1>6 DEF Linked, k

\* s and t differ in parents only.
Relinked(s, t) ==
    /\ Len(t) = Len(s)
    /\ \A i \in 1..Len(s) : /\ t[i] = Under(s[i], t[i].parent)
                            /\ t[i].guid = s[i].guid /\ t[i].name = s[i].name

\* t is s with c under p, unless p is below c.
Reparented(s, t, c, p) ==
    \A i \in 1..Len(s) : t[i].parent =
        IF i = At(s, c) /\ p \notin Below(s, {c}) THEN p ELSE s[i].parent

LEMMA LinkedIs ==
  ASSUME NEW S, Linkable(S), NEW s \in Seq(S), NEW c \in Ids(s), NEW p \in Identity
  PROVE  /\ Linked(s, c, p) \in Seq(S) /\ Relinked(s, Linked(s, c, p))
         /\ At(s, c) \in 1..Len(s) /\ s[At(s, c)].guid = c
         /\ Reparented(s, Linked(s, c, p), c, p)
<1> DEFINE t == Linked(s, c, p)
           k == At(s, c)
<1>1. t \in Seq(S)
  BY LinkedType
<1>2. DOMAIN s = 1..Len(s) /\ Len(s) \in Nat /\ \A i \in 1..Len(s) : s[i] \in S
  OBVIOUS
<1>3. k \in 1..Len(s) /\ s[k].guid = c
  BY <1>2, AtIs
<1>4. \A e \in S : /\ Under(e, e.parent) = e
                   /\ Under(e, p).guid = e.guid /\ Under(e, p).name = e.name
                   /\ Under(e, p).parent = p
  BY DEF Linkable
<1>5. CASE p \in Below(s, {c})
  <2>1. t = s
    BY <1>5 DEF Linked
  <2> HIDE DEF t, k
  <2> QED
    BY <2>1, <1>1, <1>2, <1>3, <1>4, <1>5 DEF Relinked, Reparented, t, k
<1>6. CASE p \notin Below(s, {c})
  <2>1. t = [s EXCEPT ![k].parent = p]
    BY <1>6 DEF Linked
  <2> HIDE DEF t, k
  <2>2. t = [i \in 1..Len(s) |-> IF i = k THEN Under(s[k], p) ELSE s[i]]
    BY <2>1, <1>2 DEF Under
  <2>3. Len(t) = Len(s)
    BY <2>2, <1>1, <1>2
  <2>4. \A i \in 1..Len(s) : t[i] = IF i = k THEN Under(s[k], p) ELSE s[i]
    BY <2>2
  <2>5. \A i \in 1..Len(s) : t[i].parent = IF i = k THEN p ELSE s[i].parent
    BY <2>4, <1>2, <1>4
  <2>6. Relinked(s, t)
    BY <2>3, <2>4, <2>5, <1>2, <1>4 DEF Relinked
  <2> QED
    BY <1>1, <1>3, <1>6, <2>5, <2>6 DEF Reparented, t, k
<1> QED
  BY <1>5, <1>6

LEMMA RelinkedIds ==
  ASSUME NEW S, NEW s \in Seq(S), NEW t \in Seq(S), Relinked(s, t)
  PROVE  /\ Ids(t) = Ids(s)
         /\ DOMAIN s = 1..Len(s) /\ DOMAIN t = 1..Len(s)
         /\ \A g : At(t, g) = At(s, g)
<1>1. DOMAIN s = 1..Len(s) /\ DOMAIN t = 1..Len(s)
  BY DEF Relinked
<1>2. Ids(t) = Ids(s)
  BY <1>1 DEF Relinked, Ids, Elements
<1>3. ASSUME NEW g  PROVE  At(t, g) = At(s, g)
  <2>1. \A i \in 1..Len(s) : t[i].guid = g <=> s[i].guid = g
    BY DEF Relinked
  <2> QED
    BY <1>1, <2>1 DEF At
<1> QED
  BY <1>1, <1>2, <1>3

\* setParent keeps a forest (Scene::setParent).
LEMMA LinkedForest ==
  ASSUME NEW S, Linkable(S), NEW s \in Seq(S), Forest(s), NEW c \in Ids(s), NEW p \in Ids(s)
  PROVE  Forest(Linked(s, c, p))
<1> DEFINE t == Linked(s, c, p)
           k == At(s, c)
           B(g) == Below(s, {g})
<1>0. DOMAIN s = 1..Len(s) /\ Len(s) \in Nat /\ \A i \in 1..Len(s) : s[i] \in S
  OBVIOUS
<1>1. p \in Identity
  <2>1. PICK i \in 1..Len(s) : p = s[i].guid
    BY <1>0 DEF Ids, Elements
  <2> QED
    BY <1>0, <2>1 DEF Linkable
<1>2. CASE p \in B(c)
  BY <1>2 DEF Linked
<1>3. CASE p \notin B(c)
  <2>1. /\ t \in Seq(S) /\ Relinked(s, t) /\ k \in 1..Len(s) /\ s[k].guid = c
        /\ \A i \in 1..Len(s) : t[i].parent = IF i = k THEN p ELSE s[i].parent
    BY <1>1, <1>3, LinkedIs DEF Reparented
  <2>2. /\ Ids(t) = Ids(s) /\ DOMAIN t = 1..Len(s)
        /\ \A i \in 1..Len(s) : t[i].guid = s[i].guid
    BY <2>1, RelinkedIds DEF Relinked
  <2> HIDE DEF t, k
  <2>3. \A i, j \in 1..Len(s) : s[i].guid = s[j].guid => i = j
    BY <1>0 DEF Forest
  <2>4. ASSUME NEW D, Closed(s, D), p \in D => c \in D
        PROVE  Closed(t, D)
    <3> SUFFICES ASSUME NEW i \in 1..Len(s), t[i].parent \in D  PROVE  t[i].guid \in D
      BY <2>2 DEF Closed, Elements
    <3>1. CASE i = k
      BY <3>1, <2>1, <2>2, <2>4
    <3>2. CASE i # k
      <4>1. s[i] \in Elements(s) /\ s[i].parent \in D
        BY <3>2, <2>1, <1>0 DEF Elements
      <4> QED
        BY <4>1, <2>2, <2>4 DEF Closed
    <3> QED
      BY <3>1, <3>2
  <2>5. ASSUME NEW i \in 1..Len(s), t[i].parent # Nobody
        PROVE  /\ t[i].parent \in Ids(t)
               /\ \E D : t[i].guid \in D /\ Closed(t, D) /\ t[i].parent \notin D
    <3>1. CASE i = k
      <4>1. Closed(t, B(c)) /\ c \in B(c)
        BY <2>4, BelowIs
      <4> QED
        BY <4>1, <3>1, <2>1, <2>2, <1>3
    <3>2. CASE i # k
      <4> DEFINE g == s[i].guid
                 q == s[i].parent
      <4>1. s[i] \in Elements(s) /\ t[i].parent = q /\ t[i].guid = g
        BY <3>2, <2>1, <2>2, <1>0 DEF Elements
      <4>2. q \in Ids(s) /\ q \notin B(g)
        BY <4>1, <2>5 DEF Forest
      <4>3. g \in B(g) /\ Closed(s, B(g))
        BY BelowIs
      <4>4. c \in B(c) /\ Closed(s, B(c))
        BY BelowIs
      <4>5. CASE c \in B(g) \/ p \notin B(g)
        BY <4>1, <4>2, <4>3, <4>5, <2>2, <2>4
      <4>6. CASE c \notin B(g) /\ p \in B(g)
        <5> DEFINE D == B(g) \cup B(c)
        <5>1. Closed(s, D)
          BY <4>3, <4>4 DEF Closed
        <5>2. Closed(t, D)
          BY <5>1, <4>4, <2>4
        <5>3. q \notin B(c)
          <6> SUFFICES ASSUME q \in B(c)  PROVE  FALSE
            OBVIOUS
          <6>1. g \in B(c)
            BY <4>1, <4>4 DEF Closed
          <6>2. B(g) \subseteq B(c)
            BY <6>1, <4>4, BelowIs
          <6> QED
            BY <6>2, <4>6, <1>3
        <5> QED
          BY <5>2, <5>3, <4>1, <4>2, <4>3, <2>2
      <4> QED
        BY <4>5, <4>6
    <3> QED
      BY <3>1, <3>2
  <2>6. Forest(t)
    <3>1. \A i, j \in DOMAIN t : t[i].guid = t[j].guid => i = j
      BY <2>2, <2>3
    <3>2. \A e \in Elements(t) : \E i \in 1..Len(s) : e = t[i]
      BY <2>2 DEF Elements
    <3> QED
      BY <3>1, <3>2, <2>5, ForestIs
  <2> QED
    BY <2>6 DEF t
<1> QED
  BY <1>2, <1>3

\* A new entity, which has no parent, makes no circle.
LEMMA AppendForest ==
  ASSUME NEW S, NEW s \in Seq(S), Forest(s), Nobody \notin Ids(s),
         NEW e \in S, e.guid \notin Ids(s), e.guid # Nobody, e.parent = Nobody
  PROVE  Forest(Append(s, e))
<1> DEFINE t == Append(s, e)
<1>1. /\ DOMAIN s = 1..Len(s) /\ Len(s) \in Nat /\ DOMAIN t = 1..(Len(s) + 1)
      /\ \A i \in 1..Len(s) : t[i] = s[i]
      /\ t[Len(s) + 1] = e
  BY AppendProperties
<1>2. Elements(t) = Elements(s) \cup {e} /\ Ids(t) = Ids(s) \cup {e.guid}
  <2>1. Elements(t) = Elements(s) \cup {e}
    BY ElementsAppend
  <2> QED
    BY <2>1 DEF Ids
<1> HIDE DEF t
<1>3. ASSUME NEW i \in 1..(Len(s) + 1), NEW j \in 1..(Len(s) + 1), t[i].guid = t[j].guid
      PROVE  i = j
  <2>1. \A k \in 1..Len(s) : s[k].guid \in Ids(s)
    BY <1>1 DEF Ids, Elements
  <2>2. \A k \in 1..(Len(s) + 1) : k \in 1..Len(s) \/ k = Len(s) + 1
    BY <1>1
  <2> QED
    BY <1>1, <1>3, <2>1, <2>2 DEF Forest
<1>4. ASSUME NEW x \in Elements(t), x.parent # Nobody
      PROVE  /\ x.parent \in Ids(t)
             /\ \E D : x.guid \in D /\ Closed(t, D) /\ x.parent \notin D
  <2> DEFINE D == Below(s, {x.guid})
  <2>1. x \in Elements(s)
    BY <1>2, <1>4
  <2>2. x.parent \in Ids(s) /\ x.parent \notin D
    BY <2>1, <1>4 DEF Forest
  <2>3. x.guid \in D /\ Closed(s, D) /\ D \subseteq Ids(s)
    BY <2>1, BelowIs DEF Ids
  <2>4. Nobody \notin D
    BY <2>3
  <2> HIDE DEF D
  <2>5. Closed(t, D)
    BY <1>2, <2>3, <2>4 DEF Closed
  <2> QED
    BY <1>2, <2>2, <2>3, <2>5
<1>5. Forest(t)
  BY <1>1, <1>3, <1>4, ForestIs
<1> QED
  BY <1>5 DEF t

\* What has the same guids and parents is a forest with it.
Shaped(s, t) ==
    /\ DOMAIN s = 1..Len(s) /\ DOMAIN t = 1..Len(s) /\ Len(t) = Len(s)
    /\ \A i \in 1..Len(s) : t[i].guid = s[i].guid /\ t[i].name = s[i].name /\ t[i].parent = s[i].parent

LEMMA ShapedIs ==
  ASSUME NEW s, NEW t, Shaped(s, t)
  PROVE  /\ Ids(t) = Ids(s)
         /\ \A gs : Below(t, gs) = Below(s, gs)
         /\ \A g : At(t, g) = At(s, g)
         /\ Forest(s) => Forest(t)
<1>1. /\ DOMAIN s = 1..Len(s) /\ DOMAIN t = 1..Len(s)
      /\ \A i \in 1..Len(s) : t[i].guid = s[i].guid /\ t[i].parent = s[i].parent
  BY DEF Shaped
<1>2. Ids(t) = Ids(s)
  BY <1>1 DEF Ids, Elements
<1>3. \A D : Closed(t, D) <=> Closed(s, D)
  BY <1>1 DEF Closed, Elements
<1>4. ASSUME NEW gs  PROVE  Below(t, gs) = Below(s, gs)
  BY <1>3, BelowIs
<1>5. ASSUME NEW g  PROVE  At(t, g) = At(s, g)
  BY <1>1 DEF At
<1>6. ASSUME Forest(s)  PROVE  Forest(t)
  <2>1. \A i, j \in DOMAIN t : t[i].guid = t[j].guid => i = j
    BY <1>1, <1>6 DEF Forest
  <2>2. ASSUME NEW e \in Elements(t), e.parent # Nobody
        PROVE  /\ e.parent \in Ids(t)
               /\ \E D : e.guid \in D /\ Closed(t, D) /\ e.parent \notin D
    <3>1. PICK i \in 1..Len(s) : e = t[i]
      BY <1>1 DEF Elements
    <3>2. s[i] \in Elements(s) /\ s[i].parent = e.parent /\ s[i].guid = e.guid
      BY <1>1, <3>1 DEF Elements
    <3>3. e.parent \in Ids(s) /\ \E D : e.guid \in D /\ Closed(s, D) /\ e.parent \notin D
      BY <3>2, <2>2, <1>6, ForestIs
    <3> QED
      BY <3>3, <1>2, <1>3
  <2> QED
    BY <2>1, <2>2, ForestIs
<1> QED
  BY <1>2, <1>4, <1>5, <1>6

-----------------------------------------------------------------------------
(* The second pass.                                                         *)

LEMMA IdsIn ==
  ASSUME NEW S, Linkable(S), NEW s \in Seq(S)
  PROVE  Ids(s) \subseteq Identity
<1>1. \A i \in 1..Len(s) : s[i] \in S
  OBVIOUS
<1>2. \A g \in Ids(s) : \E i \in 1..Len(s) : g = s[i].guid
  BY DEF Ids, Elements
<1> QED
  BY <1>1, <1>2 DEF Linkable

LEMMA RelinkedTrans ==
  ASSUME NEW S, Linkable(S), NEW s \in Seq(S), NEW t \in Seq(S), NEW u \in Seq(S),
         Relinked(s, t), Relinked(t, u)
  PROVE  Relinked(s, u)
<1>1. /\ Len(t) = Len(s) /\ Len(u) = Len(s)
      /\ \A i \in 1..Len(s) : s[i] \in S /\ t[i] \in S /\ u[i] \in S
  BY DEF Relinked
<1>2. ASSUME NEW i \in 1..Len(s)  PROVE  u[i] = Under(s[i], u[i].parent)
  <2> DEFINE p == t[i].parent
             q == u[i].parent
  <2>1. p \in Identity \cup {Nobody} /\ q \in Identity \cup {Nobody}
    BY <1>1 DEF Linkable
  <2>2. t[i] = Under(s[i], p) /\ u[i] = Under(t[i], q)
    BY <1>1 DEF Relinked
  <2> HIDE DEF p, q
  <2>3. Under(Under(s[i], p), q) = Under(s[i], q)
    BY <1>1, <2>1 DEF Linkable
  <2>4. u[i] = Under(s[i], q)
    BY <2>2, <2>3
  <2> QED
    BY <2>4 DEF q
<1> QED
  BY <1>1, <1>2 DEF Relinked

LEMMA RelinkedSelf ==
  ASSUME NEW S, Linkable(S), NEW s \in Seq(S)
  PROVE  Relinked(s, s)
<1>1. \A i \in 1..Len(s) : s[i] \in S
  OBVIOUS
<1> QED
  BY <1>1 DEF Relinked, Linkable

\* Whoever a reference names, in a scene that has the entities of the records.
LEMMA JoinedIs ==
  ASSUME NEW S, Linkable(S), NEW s \in Seq(S), NEW d,
         NEW ids, \A i \in DOMAIN ids : ids[i] \in Identity, NEW n \in DOMAIN ids
  PROVE  LET found == Resolved(s, d, ids, d.entities[n].parent)
             p == CHOOSE q \in found : TRUE
         IN  /\ found \subseteq Identity
             /\ found # {} => p \in found
             /\ found # {} => Joined(s, d, ids, n) = Linked(s, ids[n], p)
             /\ found = {} => Joined(s, d, ids, n) = s
             /\ Joined(s, d, ids, n) \in Seq(S)
             /\ (\A i \in DOMAIN ids : ids[i] \in Ids(s)) => found \subseteq Ids(s)
<1> DEFINE ref == d.entities[n].parent
           found == Resolved(s, d, ids, ref)
           p == CHOOSE q \in found : TRUE
<1>1. Ids(s) \subseteq Identity
  BY IdsIn
<1>2. found \subseteq (Ids(s) \cup {ids[i] : i \in DOMAIN ids})
  BY DEF Resolved
<1>3. found \subseteq Identity
  BY <1>1, <1>2
<1>4. Joined(s, d, ids, n) = IF found = {} THEN s ELSE Linked(s, ids[n], p)
  BY DEF Joined
<1>5. found # {} => p \in found
  OBVIOUS
<1> HIDE DEF found, p
<1>6. Joined(s, d, ids, n) \in Seq(S)
  <2>1. CASE found = {}
    BY <2>1, <1>4
  <2>2. CASE found # {}
    <3>1. p \in Identity
      BY <2>2, <1>3, <1>5
    <3>2. Linked(s, ids[n], p) \in Seq(S)
      BY <3>1, LinkedType
    <3> QED
      BY <2>2, <3>2, <1>4
  <2> QED
    BY <2>1, <2>2
<1>7. (\A i \in DOMAIN ids : ids[i] \in Ids(s)) => found \subseteq Ids(s)
  BY <1>2
<1> QED
  BY <1>3, <1>4, <1>5, <1>6, <1>7 DEF found, p

Second(s, d, ids) ==
  CHOOSE f : f = [n \in 0..Len(d.entities) |->
                    IF n = 0 THEN s
                    ELSE IF n \notin DOMAIN ids THEN f[n - 1]
                    ELSE Joined(f[n - 1], d, ids, n)]

LEMMA SecondIs ==
  ASSUME NEW S, Linkable(S), NEW s \in Seq(S), NEW d, Len(d.entities) \in Nat,
         NEW ids, \A i \in DOMAIN ids : ids[i] \in Identity
  PROVE  LET f == Second(s, d, ids)
         IN  /\ SecondPass(s, d, ids) = f[Len(d.entities)]
             /\ \A n \in 0..Len(d.entities) : f[n] \in Seq(S)
             /\ f[0] = s
             /\ \A n \in 1..Len(d.entities) :
                   f[n] = IF n \notin DOMAIN ids THEN f[n - 1] ELSE Joined(f[n - 1], d, ids, n)
<1> DEFINE N == Len(d.entities)
           F == [n \in 1..N |-> [t \in Seq(S) |->
                    IF n \notin DOMAIN ids THEN t ELSE Joined(t, d, ids, n)]]
           E(f) == f = [n \in 0..N |->
                    IF n = 0 THEN s
                    ELSE IF n \notin DOMAIN ids THEN f[n - 1]
                    ELSE Joined(f[n - 1], d, ids, n)]
<1>1. F \in [1..N -> [Seq(S) -> Seq(S)]]
  <2>1. \A n \in 1..N, t \in Seq(S) :
           (IF n \notin DOMAIN ids THEN t ELSE Joined(t, d, ids, n)) \in Seq(S)
    BY JoinedIs
  <2> QED
    BY <2>1
<1>2. N \in Nat
  OBVIOUS
<1>3. PICK g : Iterates(g, Seq(S), s, F, N)
  <2> HIDE DEF F, N
  <2> QED
    BY <1>1, <1>2, Iteration
<1>4. E(g)
  <2>1. ASSUME NEW n \in 0..N, n # 0
        PROVE  g[n] = IF n \notin DOMAIN ids THEN g[n - 1] ELSE Joined(g[n - 1], d, ids, n)
    <3>1. n - 1 \in 0..N /\ n \in 1..N
      BY <1>2, <2>1
    <3>2. g[n - 1] \in Seq(S)
      BY <3>1, <1>3 DEF Iterates
    <3>3. g[n] = F[n][g[n - 1]]
      BY <3>1, <1>3 DEF Iterates
    <3> QED
      BY <3>1, <3>2, <3>3
  <2> QED
    BY <1>3, <2>1 DEF Iterates
<1> DEFINE u == Second(s, d, ids)
<1>5. E(u)
  BY <1>4 DEF Second
<1>6. SecondPass(s, d, ids) = u[N]
  BY DEF SecondPass, Second
<1> HIDE DEF F, u
<1>7. u[0] = s /\ \A n \in 1..N : u[n] = IF n \notin DOMAIN ids THEN u[n - 1] ELSE Joined(u[n - 1], d, ids, n)
  <2>1. 0 \in 0..N /\ \A n \in 1..N : n \in 0..N /\ n # 0
    BY <1>2
  <2> QED
    BY <1>5, <2>1
<1> DEFINE P == {n \in 0..N : u[n] \in Seq(S)}
<1>8. 0 \in P
  BY <1>2, <1>7
<1>9. ASSUME NEW n \in 0..(N - 1), n \in P  PROVE  n + 1 \in P
  <2>1. n + 1 \in 0..N /\ n + 1 \in 1..N /\ (n + 1) - 1 = n
    BY <1>2
  <2>2. n + 1 \in DOMAIN ids => Joined(u[n], d, ids, n + 1) \in Seq(S)
    BY <1>9, JoinedIs
  <2> QED
    BY <2>1, <2>2, <1>7, <1>9
<1>10. \A n \in 0..N : u[n] \in Seq(S)
  <2> HIDE DEF P, N
  <2>1. 0..N \subseteq P
    BY <1>2, <1>8, <1>9, Induction
  <2> QED
    BY <2>1 DEF P
<1> QED
  BY <1>6, <1>7, <1>10 DEF u

\* The links make a forest of a forest, and change nothing but parents.
LEMMA SecondPassForest ==
  ASSUME NEW S, Linkable(S), NEW s \in Seq(S), Forest(s), NEW d, Len(d.entities) \in Nat,
         NEW ids, \A i \in DOMAIN ids : ids[i] \in Ids(s)
  PROVE  /\ SecondPass(s, d, ids) \in Seq(S)
         /\ Forest(SecondPass(s, d, ids))
         /\ Relinked(s, SecondPass(s, d, ids))
<1> DEFINE N == Len(d.entities)
           f == Second(s, d, ids)
           P == {n \in 0..N : f[n] \in Seq(S) /\ Forest(f[n]) /\ Relinked(s, f[n])}
<1>1. \A i \in DOMAIN ids : ids[i] \in Identity
  BY IdsIn
<1>2. /\ SecondPass(s, d, ids) = f[N] /\ f[0] = s
      /\ \A n \in 0..N : f[n] \in Seq(S)
      /\ \A n \in 1..N : f[n] = IF n \notin DOMAIN ids THEN f[n - 1] ELSE Joined(f[n - 1], d, ids, n)
  BY <1>1, SecondIs
<1> HIDE DEF f
<1>3. 0 \in P
  BY <1>2, RelinkedSelf
<1>4. ASSUME NEW n \in 0..(N - 1), n \in P  PROVE  n + 1 \in P
  <2>1. n + 1 \in 0..N /\ n + 1 \in 1..N /\ (n + 1) - 1 = n
    OBVIOUS
  <2> DEFINE t == f[n]
             m == n + 1
             found == Resolved(t, d, ids, d.entities[m].parent)
             p == CHOOSE q \in found : TRUE
  <2>2. t \in Seq(S) /\ Forest(t) /\ Relinked(s, t)
    BY <1>4
  <2>3. CASE m \notin DOMAIN ids
    BY <2>1, <2>2, <2>3, <1>2
  <2>4. CASE m \in DOMAIN ids
    <3>1. f[m] = Joined(t, d, ids, m)
      BY <2>1, <2>4, <1>2
    <3> HIDE DEF t, m
    <3>2. Ids(t) = Ids(s)
      BY <2>2, RelinkedIds
    <3>3. /\ found # {} => p \in found
          /\ found # {} => Joined(t, d, ids, m) = Linked(t, ids[m], p)
          /\ found = {} => Joined(t, d, ids, m) = t
          /\ found \subseteq Ids(t) /\ found \subseteq Identity
      BY <2>2, <2>4, <3>2, <1>1, JoinedIs
    <3> HIDE DEF found, p
    <3>4. CASE found = {}
      BY <3>1, <3>3, <3>4, <2>1, <2>2 DEF m
    <3>5. CASE found # {}
      <4>1. p \in Ids(t) /\ ids[m] \in Ids(t) /\ p \in Identity
        BY <3>2, <3>3, <3>5, <2>4
      <4>2. /\ Linked(t, ids[m], p) \in Seq(S) /\ Relinked(t, Linked(t, ids[m], p))
            /\ Forest(Linked(t, ids[m], p))
        BY <4>1, <2>2, LinkedIs, LinkedForest
      <4>3. Relinked(s, Linked(t, ids[m], p))
        BY <4>2, <2>2, RelinkedTrans
      <4> QED
        BY <4>2, <4>3, <3>1, <3>3, <3>5, <2>1 DEF m
    <3> QED
      BY <3>4, <3>5
  <2> QED
    BY <2>3, <2>4
<1>5. N \in P
  <2>1. N \in Nat
    OBVIOUS
  <2> HIDE DEF P, N
  <2>2. 0..N \subseteq P
    BY <2>1, <1>3, <1>4, Induction
  <2> QED
    BY <2>1, <2>2
<1> QED
  BY <1>2, <1>5

\* What is alike stays alike: the links follow guids, names and parents alone.
LEMMA SecondPassShaped ==
  ASSUME NEW S, Linkable(S), NEW s \in Seq(S), NEW T, Linkable(T), NEW t \in Seq(T), Shaped(s, t),
         NEW d, Len(d.entities) \in Nat, NEW ids, \A i \in DOMAIN ids : ids[i] \in Ids(s)
  PROVE  Shaped(SecondPass(s, d, ids), SecondPass(t, d, ids))
<1> DEFINE N == Len(d.entities)
           f == Second(s, d, ids)
           h == Second(t, d, ids)
           P == {n \in 0..N : Shaped(f[n], h[n]) /\ Ids(f[n]) = Ids(s)}
<1>1. \A i \in DOMAIN ids : ids[i] \in Identity
  BY IdsIn
<1>2. /\ SecondPass(s, d, ids) = f[N] /\ f[0] = s
      /\ \A n \in 0..N : f[n] \in Seq(S)
      /\ \A n \in 1..N : f[n] = IF n \notin DOMAIN ids THEN f[n - 1] ELSE Joined(f[n - 1], d, ids, n)
  BY <1>1, SecondIs
<1>3. /\ SecondPass(t, d, ids) = h[N] /\ h[0] = t
      /\ \A n \in 0..N : h[n] \in Seq(T)
      /\ \A n \in 1..N : h[n] = IF n \notin DOMAIN ids THEN h[n - 1] ELSE Joined(h[n - 1], d, ids, n)
  BY <1>1, SecondIs
<1> HIDE DEF f, h
<1>4. 0 \in P
  BY <1>2, <1>3
<1>5. ASSUME NEW n \in 0..(N - 1), n \in P  PROVE  n + 1 \in P
  <2> DEFINE m == n + 1
             a == f[n]
             b == h[n]
             found == Resolved(a, d, ids, d.entities[m].parent)
             p == CHOOSE q \in found : TRUE
  <2>1. m \in 0..N /\ m \in 1..N /\ m - 1 = n
    OBVIOUS
  <2>2. a \in Seq(S) /\ b \in Seq(T) /\ Shaped(a, b) /\ Ids(a) = Ids(s)
    BY <1>2, <1>3, <1>5
  <2>3. CASE m \notin DOMAIN ids
    BY <2>1, <2>2, <2>3, <1>2, <1>3
  <2>4. CASE m \in DOMAIN ids
    <3>1. f[m] = Joined(a, d, ids, m) /\ h[m] = Joined(b, d, ids, m)
      BY <2>1, <2>4, <1>2, <1>3
    <3> HIDE DEF a, b, m
    <3>2. /\ Ids(b) = Ids(a) /\ \A gs : Below(b, gs) = Below(a, gs)
          /\ \A g : At(b, g) = At(a, g)
      BY <2>2, ShapedIs
    <3>3. Resolved(b, d, ids, d.entities[m].parent) = found
      BY <3>2 DEF Resolved
    <3>4. /\ found # {} => p \in found
          /\ found # {} => Joined(a, d, ids, m) = Linked(a, ids[m], p)
          /\ found = {} => Joined(a, d, ids, m) = a
          /\ found \subseteq Identity
      BY <2>2, <2>4, <1>1, JoinedIs
    <3>5. Joined(b, d, ids, m) = IF found = {} THEN b ELSE Linked(b, ids[m], p)
      BY <3>3 DEF Joined
    <3> HIDE DEF found, p
    <3>6. CASE found = {}
      BY <3>1, <3>4, <3>5, <3>6, <2>1, <2>2 DEF m
    <3>7. CASE found # {}
      <4> DEFINE c == ids[m]
                 x == Linked(a, c, p)
                 y == Linked(b, c, p)
      <4>1. p \in Identity /\ c \in Ids(a) /\ c \in Ids(b)
        BY <3>2, <3>4, <3>7, <2>2, <2>4
      <4> HIDE DEF c
      <4>2. /\ x \in Seq(S) /\ Relinked(a, x)
            /\ Reparented(a, x, c, p)
        <5>1. a \in Seq(S)
          BY <2>2
        <5> QED
          BY <4>1, <5>1, LinkedIs
      <4>3. /\ y \in Seq(T) /\ Relinked(b, y)
            /\ Reparented(b, y, c, p)
        <5>1. b \in Seq(T)
          BY <2>2
        <5> QED
          BY <4>1, <5>1, LinkedIs
      <4> HIDE DEF x, y
      <4>4. /\ DOMAIN a = 1..Len(a) /\ Len(b) = Len(a)
            /\ \A i \in 1..Len(a) : b[i].guid = a[i].guid /\ b[i].name = a[i].name /\ b[i].parent = a[i].parent
        BY <2>2 DEF Shaped
      <4>5. /\ Len(x) = Len(a) /\ Len(y) = Len(a) /\ DOMAIN x = 1..Len(x) /\ DOMAIN y = 1..Len(y)
            /\ Ids(x) = Ids(a)
        <5>1. a \in Seq(S) /\ Len(x) = Len(a) /\ Len(y) = Len(b)
          BY <2>2, <4>2, <4>3 DEF Relinked
        <5>2. Ids(x) = Ids(a)
          BY <5>1, <4>2, RelinkedIds
        <5> QED
          BY <5>1, <5>2, <4>2, <4>3, <4>4
      <4>6. \A i \in 1..Len(a) : y[i].parent = x[i].parent
        <5>1. At(b, c) = At(a, c) /\ Below(b, {c}) = Below(a, {c})
          BY <3>2
        <5> QED
          BY <5>1, <4>2, <4>3, <4>4 DEF Reparented
      <4>7. \A i \in 1..Len(a) : y[i].guid = x[i].guid /\ y[i].name = x[i].name
        BY <4>2, <4>3, <4>4 DEF Relinked
      <4>8. Shaped(x, y)
        BY <4>5, <4>6, <4>7 DEF Shaped
      <4> QED
        BY <4>5, <4>8, <3>1, <3>4, <3>5, <3>7, <2>1, <2>2 DEF m, x, y, c
    <3> QED
      BY <3>6, <3>7
  <2> QED
    BY <2>3, <2>4
<1>6. N \in P
  <2>1. N \in Nat
    OBVIOUS
  <2> HIDE DEF P, N
  <2>2. 0..N \subseteq P
    BY <2>1, <1>4, <1>5, Induction
  <2> QED
    BY <2>1, <2>2
<1> QED
  BY <1>2, <1>3, <1>6

-----------------------------------------------------------------------------
(* What the first pass reads: the components of the records of an entity,   *)
(* one after the other.                                                     *)

\* What an entity is of the components that were read into it.
Exact(e, cs) ==
    /\ DOMAIN e.comps = Intrinsic \cup (TypesIn(cs) \cap LiveIn(gameplay))
    /\ \A t \in DOMAIN e.comps :
          e.comps[t] = IF t \in TypesIn(cs) THEN ReadValue(gameplay, cs, t)
                       ELSE Construct(DefOf(gameplay, t))
    /\ e.kept = Without(cs, Known \cup Excluded)

LEMMA ReadValueConcat ==
  ASSUME NEW g, NEW P \in Seq(PartSet), NEW cs \in Seq(PartSet), NEW t
  PROVE  /\ t \in TypesIn(cs) => ReadValue(g, P \o cs, t) = ReadValue(g, cs, t)
         /\ t \notin TypesIn(cs) => ReadValue(g, P \o cs, t) = ReadValue(g, P, t)
<1> DEFINE a == Of(P, {t})
           b == Of(cs, {t})
<1>1. /\ a \in Seq(PartSet) /\ b \in Seq(PartSet) /\ Of(P \o cs, {t}) = a \o b
      /\ Elements(b) = {x \in Elements(cs) : x.type \in {t}}
  <2> DEFINE U == {t}
  <2> HIDE DEF U
  <2>1. /\ Of(P, U) \in Seq(PartSet) /\ Of(cs, U) \in Seq(PartSet)
        /\ Of(P \o cs, U) = Of(P, U) \o Of(cs, U)
        /\ Elements(Of(cs, U)) = {x \in Elements(cs) : x.type \in U}
    <3>1. Of(P, U) \in Seq(PartSet) /\ Of(cs, U) \in Seq(PartSet)
      BY OfType
    <3>2. Of(P \o cs, U) = Of(P, U) \o Of(cs, U)
      BY OfConcat
    <3>3. Elements(Of(cs, U)) = {x \in Elements(cs) : x.type \in U}
      BY OfElements
    <3> QED
      BY <3>1, <3>2, <3>3
  <2> QED
    BY <2>1 DEF U
<1> HIDE DEF a, b
<1>2. CASE t \in TypesIn(cs)
  <2>1. PICK x \in Elements(b) : TRUE
    BY <1>1, <1>2, TypesInIs
  <2>2. Len(b) \in 1..Len(b)
    BY <1>1, <2>1 DEF Elements
  <2>3. Last(a \o b) = Last(b)
    BY <1>1, <2>2 DEF Last
  <2> QED
    BY <1>1, <1>2, <2>3 DEF ReadValue, b
<1>3. CASE t \notin TypesIn(cs)
  <2>1. b = <<>>
    BY <1>3, OfNone, TypesInIs DEF b
  <2>2. a \o b = a
    BY <1>1, <2>1
  <2> QED
    BY <1>1, <1>3, <2>2 DEF ReadValue, a
<1> QED
  BY <1>2, <1>3

LEMMA WithoutConcat ==
  ASSUME NEW P \in Seq(PartSet), NEW cs \in Seq(PartSet), NEW T
  PROVE  Without(P \o cs, T) = Without(P, T) \o Without(cs, T)
<1>1. \A s \in Seq(PartSet) : \A x \in Elements(s) : x.type \in Kind
  <2>1. \A s \in Seq(PartSet) : Elements(s) \subseteq PartSet
    BY ElementsIn
  <2> QED
    BY <2>1 DEF PartSet
<1>2. P \o cs \in Seq(PartSet)
  BY ConcatProperties
<1>3. \A s \in Seq(PartSet) : Without(s, T) = Of(s, Kind \ T)
  BY <1>1, WithoutIs
<1> DEFINE U == Kind \ T
<1> HIDE DEF U
<1>4. Of(P \o cs, U) = Of(P, U) \o Of(cs, U)
  BY OfConcat
<1> QED
  BY <1>2, <1>3, <1>4 DEF U

LEMMA ExactNew ==
  ASSUME GameplayType, NEW g \in Identity, NEW name \in EntityName
  PROVE  Exact(Entity(g, name), <<>>)
<1>1. TypesIn(<<>>) = {} /\ Without(<<>>, Known \cup Excluded) = <<>>
  BY OfEmpty DEF TypesIn, Without
<1> QED
  BY <1>1, EntityProper DEF Exact

LEMMA ExactNext ==
  ASSUME GameplayType, NEW e \in EntitySet, NEW P \in Seq(PartSet), NEW cs \in Seq(PartSet), Exact(e, P)
  PROVE  Exact(ReadComponents(e, cs), P \o cs)
<1> DEFINE r == ReadComponents(e, cs)
           read == TypesIn(cs) \cap LiveIn(gameplay)
<1>1. /\ DOMAIN r.comps = DOMAIN e.comps \cup read
      /\ \A t \in read : r.comps[t] = ReadValue(gameplay, cs, t)
      /\ \A t \in DOMAIN e.comps \ read : r.comps[t] = e.comps[t]
      /\ r.kept = e.kept \o Without(cs, Known \cup Excluded)
  BY ReadComponentsIs
<1> HIDE DEF r
<1>2. TypesIn(P \o cs) = TypesIn(P) \cup TypesIn(cs)
  BY TypesConcat
<1>3. DOMAIN r.comps = Intrinsic \cup (TypesIn(P \o cs) \cap LiveIn(gameplay))
  BY <1>1, <1>2 DEF Exact
<1>4. ASSUME NEW t \in DOMAIN r.comps
      PROVE  r.comps[t] = IF t \in TypesIn(P \o cs) THEN ReadValue(gameplay, P \o cs, t)
                          ELSE Construct(DefOf(gameplay, t))
  <2>1. CASE t \in read
    BY <2>1, <1>1, <1>2, ReadValueConcat
  <2>2. CASE t \notin read
    <3>1. t \in DOMAIN e.comps /\ r.comps[t] = e.comps[t]
      BY <2>2, <1>1
    <3>2. t \in LiveIn(gameplay)
      <4>1. Intrinsic \subseteq LiveIn(gameplay)
        BY TypesAssumption DEF LiveIn
      <4> QED
        BY <4>1, <3>1 DEF Exact
    <3>3. t \notin TypesIn(cs)
      BY <2>2, <3>2
    <3> QED
      BY <3>1, <3>3, <1>2, ReadValueConcat DEF Exact
  <2> QED
    BY <2>1, <2>2
<1>5. r.kept = Without(P \o cs, Known \cup Excluded)
  BY <1>1, WithoutConcat DEF Exact
<1> QED
  BY <1>3, <1>4, <1>5 DEF Exact, r

\* The records of a document have been given their guids.
GivenTo(d, ids) ==
    /\ d \in Docs /\ DOMAIN ids = Accepted(d)
    /\ \A i \in DOMAIN ids : ids[i] \in Identity

LEMMA RecordIs ==
  ASSUME NEW d \in Docs, NEW n \in 1..Len(d.entities)
  PROVE  /\ Len(d.entities) \in Nat /\ DOMAIN d.entities = 1..Len(d.entities)
         /\ d.entities[n] \in RecordSet
         /\ d.entities[n].name \in EntityName /\ d.entities[n].components \in Seq(PartSet)
<1>1. d.entities \in Seq(RecordSet)
  BY DEF Docs
<1>2. d.entities[n] \in RecordSet /\ Len(d.entities) \in Nat /\ DOMAIN d.entities = 1..Len(d.entities)
  BY <1>1
<1> QED
  BY <1>2 DEF RecordSet

LEMMA DocLength ==
  ASSUME NEW d \in Docs
  PROVE  Len(d.entities) \in Nat /\ DOMAIN d.entities = 1..Len(d.entities)
<1>1. d.entities \in Seq(RecordSet)
  BY DEF Docs
<1> QED
  BY <1>1

\* The entities the first pass makes, without what is read into them.
Rooted(s, g, name) ==
    IF g \in Ids(s) THEN s ELSE Append(s, [guid |-> g, name |-> name, parent |-> Nobody])
RootStep(d, ids) ==
    [n \in 1..Len(d.entities) |-> [t \in Seq(Bone) |->
        IF n \in DOMAIN ids THEN Rooted(t, ids[n], d.entities[n].name) ELSE t]]
Roots(d, ids) ==
    CHOOSE f : Iterates(f, Seq(Bone), <<>>, RootStep(d, ids), Len(d.entities))

LEMMA RootsIs ==
  ASSUME NEW d, NEW ids, GivenTo(d, ids)
  PROVE  LET f == Roots(d, ids)
         IN  /\ f[0] = <<>>
             /\ \A n \in 0..Len(d.entities) : f[n] \in Seq(Bone)
             /\ \A n \in 1..Len(d.entities) :
                   f[n] = IF n \in DOMAIN ids THEN Rooted(f[n - 1], ids[n], d.entities[n].name)
                          ELSE f[n - 1]
<1> DEFINE N == Len(d.entities)
           F == RootStep(d, ids)
           f == Roots(d, ids)
<1>1. N \in Nat
  BY DocLength DEF GivenTo
<1>2. ASSUME NEW n \in 1..N, NEW t \in Seq(Bone), n \in DOMAIN ids
      PROVE  Rooted(t, ids[n], d.entities[n].name) \in Seq(Bone)
  <2>1. ids[n] \in Identity /\ d.entities[n].name \in EntityName
    BY <1>2, RecordIs DEF GivenTo
  <2>2. [guid |-> ids[n], name |-> d.entities[n].name, parent |-> Nobody] \in Bone
    BY <2>1 DEF Bone
  <2> QED
    BY <2>2, AppendProperties DEF Rooted
<1>3. F \in [1..N -> [Seq(Bone) -> Seq(Bone)]]
  BY <1>2 DEF RootStep
<1>4. <<>> \in Seq(Bone)
  OBVIOUS
<1>5. Iterates(f, Seq(Bone), <<>>, F, N)
  <2>1. \E g : Iterates(g, Seq(Bone), <<>>, F, N)
    <3> HIDE DEF F, N
    <3> QED
      BY <1>1, <1>3, <1>4, Iteration
  <2> QED
    BY <2>1 DEF Roots
<1> HIDE DEF f
<1>6. f \in [0..N -> Seq(Bone)] /\ f[0] = <<>> /\ \A n \in 1..N : f[n] = F[n][f[n - 1]]
  BY <1>5 DEF Iterates
<1>7. ASSUME NEW n \in 1..N
      PROVE  f[n] = IF n \in DOMAIN ids THEN Rooted(f[n - 1], ids[n], d.entities[n].name) ELSE f[n - 1]
  <2>1. n - 1 \in 0..N
    BY <1>1
  <2>2. f[n - 1] \in Seq(Bone)
    BY <2>1, <1>6
  <2> QED
    BY <2>2, <1>6 DEF RootStep
<1> QED
  BY <1>6, <1>7 DEF f

\* The components of the records of g.
GatherStep(d, ids, g) ==
    [n \in 1..Len(d.entities) |-> [t \in Seq(PartSet) |->
        IF n \in DOMAIN ids /\ ids[n] = g THEN t \o d.entities[n].components ELSE t]]
Gathered(d, ids, g) ==
    CHOOSE f : Iterates(f, Seq(PartSet), <<>>, GatherStep(d, ids, g), Len(d.entities))

LEMMA GatheredIs ==
  ASSUME NEW d, NEW ids, GivenTo(d, ids), NEW g
  PROVE  LET f == Gathered(d, ids, g)
         IN  /\ f[0] = <<>>
             /\ \A n \in 0..Len(d.entities) : f[n] \in Seq(PartSet)
             /\ \A n \in 1..Len(d.entities) :
                   f[n] = IF n \in DOMAIN ids /\ ids[n] = g THEN f[n - 1] \o d.entities[n].components
                          ELSE f[n - 1]
<1> DEFINE N == Len(d.entities)
           F == GatherStep(d, ids, g)
           f == Gathered(d, ids, g)
<1>1. N \in Nat
  BY DocLength DEF GivenTo
<1>2. ASSUME NEW n \in 1..N, NEW t \in Seq(PartSet)
      PROVE  t \o d.entities[n].components \in Seq(PartSet)
  <2>1. d.entities[n].components \in Seq(PartSet)
    BY RecordIs DEF GivenTo
  <2> QED
    BY <2>1, ConcatProperties
<1>3. F \in [1..N -> [Seq(PartSet) -> Seq(PartSet)]]
  BY <1>2 DEF GatherStep
<1>4. <<>> \in Seq(PartSet)
  OBVIOUS
<1>5. Iterates(f, Seq(PartSet), <<>>, F, N)
  <2>1. \E h : Iterates(h, Seq(PartSet), <<>>, F, N)
    <3> HIDE DEF F, N
    <3> QED
      BY <1>1, <1>3, <1>4, Iteration
  <2> QED
    BY <2>1 DEF Gathered
<1> HIDE DEF f
<1>6. f \in [0..N -> Seq(PartSet)] /\ f[0] = <<>> /\ \A n \in 1..N : f[n] = F[n][f[n - 1]]
  BY <1>5 DEF Iterates
<1>7. ASSUME NEW n \in 1..N
      PROVE  f[n] = IF n \in DOMAIN ids /\ ids[n] = g THEN f[n - 1] \o d.entities[n].components
                    ELSE f[n - 1]
  <2>1. n - 1 \in 0..N
    BY <1>1
  <2>2. f[n - 1] \in Seq(PartSet)
    BY <2>1, <1>6
  <2> QED
    BY <2>2, <1>6 DEF GatherStep
<1> QED
  BY <1>6, <1>7 DEF f

\* An entity is there under its guid, once it has been made.
LEMMA CreatedIs ==
  ASSUME GameplayType, NEW s \in Seq(EntitySet), NEW g \in Identity, NEW name \in EntityName
  PROVE  /\ Created(s, g, name) \in Seq(EntitySet)
         /\ g \in Ids(Created(s, g, name))
         /\ Ids(Created(s, g, name)) = Ids(s) \cup {g}
<1>1. Entity(g, name) \in EntitySet /\ Entity(g, name).guid = g
  BY EntityProper DEF Proper
<1>2. CASE g \in Ids(s)
  BY <1>2 DEF Created
<1>3. CASE g \notin Ids(s)
  <2>1. Created(s, g, name) = Append(s, Entity(g, name))
    BY <1>3 DEF Created
  <2>2. Append(s, Entity(g, name)) \in Seq(EntitySet)
    BY <1>1, AppendProperties
  <2>3. Elements(Append(s, Entity(g, name))) = Elements(s) \cup {Entity(g, name)}
    BY <1>1, ElementsAppend
  <2> QED
    BY <2>1, <2>2, <2>3, <1>1 DEF Ids
<1> QED
  BY <1>2, <1>3

LEMMA OpenedIs ==
  ASSUME GameplayType, NEW s \in Seq(EntitySet), NEW g \in Identity, NEW r \in RecordSet
  PROVE  LET t == Created(s, g, r.name)
             u == Opened(s, g, r)
         IN  /\ u \in Seq(EntitySet) /\ Len(u) = Len(t)
             /\ t \in Seq(EntitySet) /\ At(t, g) \in 1..Len(t) /\ t[At(t, g)].guid = g
             /\ \A i \in 1..Len(t) :
                   u[i] = IF i = At(t, g) THEN ReadComponents(t[i], r.components) ELSE t[i]
<1> DEFINE t == Created(s, g, r.name)
           u == Opened(s, g, r)
           k == At(t, g)
           e == ReadComponents(t[k], r.components)
<1>1. r.name \in EntityName /\ r.components \in Seq(PartSet)
  BY DEF RecordSet
<1>2. t \in Seq(EntitySet) /\ g \in Ids(t)
  BY <1>1, CreatedIs
<1>3. u = [t EXCEPT ![k] = e]
  BY DEF Opened
<1> HIDE DEF t
<1>4. k \in 1..Len(t) /\ t[k].guid = g
  BY <1>2, AtIs
<1> HIDE DEF k
<1>5. t[k] \in EntitySet
  BY <1>2, <1>4
<1>6. e \in EntitySet
  BY <1>1, <1>5, ReadComponentsIs
<1> HIDE DEF e
<1>7. /\ u \in Seq(EntitySet) /\ Len(u) = Len(t)
      /\ \A i \in 1..Len(t) : u[i] = IF i = k THEN e ELSE t[i]
  BY <1>2, <1>3, <1>4, <1>6, ExceptSeq
<1> QED
  BY <1>2, <1>4, <1>7 DEF t, k, e

First(d, ids) ==
  CHOOSE f : f = [n \in 0..Len(d.entities) |->
                    IF n = 0 THEN <<>>
                    ELSE IF n \notin DOMAIN ids THEN f[n - 1]
                    ELSE Opened(f[n - 1], ids[n], d.entities[n])]

LEMMA FirstIs ==
  ASSUME GameplayType, NEW d, NEW ids, GivenTo(d, ids)
  PROVE  LET f == First(d, ids)
         IN  /\ FirstPass(d, ids) = f[Len(d.entities)]
             /\ f[0] = <<>>
             /\ \A n \in 1..Len(d.entities) :
                   f[n] = IF n \notin DOMAIN ids THEN f[n - 1]
                          ELSE Opened(f[n - 1], ids[n], d.entities[n])
<1> DEFINE N == Len(d.entities)
           S == Seq(EntitySet)
           F == [n \in 1..N |-> [t \in S |->
                    IF n \notin DOMAIN ids THEN t ELSE Opened(t, ids[n], d.entities[n])]]
           E(f) == f = [n \in 0..N |->
                    IF n = 0 THEN <<>>
                    ELSE IF n \notin DOMAIN ids THEN f[n - 1]
                    ELSE Opened(f[n - 1], ids[n], d.entities[n])]
<1>1. F \in [1..N -> [S -> S]]
  <2>1. ASSUME NEW n \in 1..N, NEW t \in S, n \in DOMAIN ids
        PROVE  Opened(t, ids[n], d.entities[n]) \in S
    <3>1. ids[n] \in Identity /\ d.entities[n] \in RecordSet
      BY <2>1, RecordIs DEF GivenTo
    <3> QED
      BY <3>1, OpenedIs
  <2> HIDE DEF S
  <2> QED
    BY <2>1
<1>2. N \in Nat /\ <<>> \in S
  BY DocLength DEF GivenTo
<1>3. PICK g : Iterates(g, S, <<>>, F, N)
  <2> HIDE DEF F, N, S
  <2> QED
    BY <1>1, <1>2, Iteration
<1>4. E(g)
  <2> HIDE DEF S
  <2>1. ASSUME NEW n \in 0..N, n # 0
        PROVE  g[n] = IF n \notin DOMAIN ids THEN g[n - 1] ELSE Opened(g[n - 1], ids[n], d.entities[n])
    <3>1. n - 1 \in 0..N /\ n \in 1..N
      BY <1>2, <2>1
    <3>2. g[n - 1] \in S
      BY <3>1, <1>3 DEF Iterates
    <3>3. g[n] = F[n][g[n - 1]]
      BY <3>1, <1>3 DEF Iterates
    <3> QED
      BY <3>1, <3>2, <3>3
  <2> QED
    BY <1>3, <2>1 DEF Iterates
<1> DEFINE u == First(d, ids)
<1>5. E(u)
  BY <1>4 DEF First
<1>6. FirstPass(d, ids) = u[N]
  BY DEF FirstPass, First
<1> HIDE DEF F, u
<1>7. u[0] = <<>> /\ \A n \in 1..N : u[n] = IF n \notin DOMAIN ids THEN u[n - 1]
                                            ELSE Opened(u[n - 1], ids[n], d.entities[n])
  <2>1. 0 \in 0..N /\ \A n \in 1..N : n \in 0..N /\ n # 0
    BY <1>2
  <2> QED
    BY <1>5, <2>1
<1> QED
  BY <1>6, <1>7 DEF u

\* Whom no record is about has no components.
LEMMA GatheredNone ==
  ASSUME NEW d, NEW ids, GivenTo(d, ids), NEW g, NEW n \in 0..Len(d.entities),
         \A i \in DOMAIN ids : i \in 1..n => ids[i] # g
  PROVE  Gathered(d, ids, g)[n] = <<>>
<1> DEFINE f == Gathered(d, ids, g)
           P == {k \in 0..n : f[k] = <<>>}
<1>1. Len(d.entities) \in Nat
  BY DocLength DEF GivenTo
<1>2. /\ f[0] = <<>>
      /\ \A k \in 1..Len(d.entities) :
            f[k] = IF k \in DOMAIN ids /\ ids[k] = g THEN f[k - 1] \o d.entities[k].components
                   ELSE f[k - 1]
  BY GatheredIs
<1> HIDE DEF f
<1>3. 0 \in P
  BY <1>1, <1>2
<1>4. ASSUME NEW k \in 0..(n - 1), k \in P  PROVE  k + 1 \in P
  BY <1>1, <1>2, <1>4
<1>5. n \in P
  <2>1. n \in Nat
    BY <1>1
  <2> HIDE DEF P
  <2>2. 0..n \subseteq P
    BY <2>1, <1>3, <1>4, Induction
  <2> QED
    BY <2>1, <2>2
<1> QED
  BY <1>5 DEF f

\* What the first n records give: the entities r, and in each the components
\* that were gathered for it.
Built(s, r, d, ids, n) ==
    /\ s \in Seq(EntitySet) /\ Shaped(r, s) /\ Forest(r)
    /\ Ids(r) = {ids[i] : i \in DOMAIN ids \cap 1..n}
    /\ \A k \in 1..Len(s) : /\ Proper(s[k], gameplay)
                            /\ Exact(s[k], Gathered(d, ids, s[k].guid)[n])

LEMMA BuiltCreated ==
  ASSUME GameplayType, NEW d, NEW ids, GivenTo(d, ids), NEW n \in 0..(Len(d.entities) - 1),
         n + 1 \in DOMAIN ids, NEW s, NEW r \in Seq(Bone), Built(s, r, d, ids, n)
  PROVE  LET g == ids[n + 1]
             name == d.entities[n + 1].name
             t == Created(s, g, name)
             q == Rooted(r, g, name)
         IN  /\ t \in Seq(EntitySet) /\ Shaped(q, t) /\ Forest(q)
             /\ Ids(q) = Ids(r) \cup {g}
             /\ \A k \in 1..Len(t) : /\ Proper(t[k], gameplay)
                                     /\ Exact(t[k], Gathered(d, ids, t[k].guid)[n])
<1> DEFINE g == ids[n + 1]
           name == d.entities[n + 1].name
           t == Created(s, g, name)
           q == Rooted(r, g, name)
           e == Entity(g, name)
           b == [guid |-> g, name |-> name, parent |-> Nobody]
<1>1. Len(d.entities) \in Nat
  BY DocLength DEF GivenTo
<1>2. g \in Identity /\ name \in EntityName
  BY <1>1, RecordIs DEF GivenTo
<1>3. Ids(s) = Ids(r)
  BY ShapedIs DEF Built
<1>4. CASE g \in Ids(s)
  <2>1. t = s /\ q = r
    BY <1>3, <1>4 DEF Created, Rooted
  <2> QED
    BY <2>1, <1>3, <1>4 DEF Built
<1>5. CASE g \notin Ids(s)
  <2>1. t = Append(s, e) /\ q = Append(r, b)
    BY <1>3, <1>5 DEF Created, Rooted
  <2>2. /\ Proper(e, gameplay) /\ e \in EntitySet
        /\ e.guid = g /\ e.name = name /\ e.parent = Nobody
    BY <1>2, EntityProper DEF Proper
  <2>3. Exact(e, <<>>)
    BY <1>2, ExactNew
  <2> HIDE DEF e
  <2>4. b \in Bone /\ b.guid = g /\ b.name = name /\ b.parent = Nobody
    BY <1>2 DEF Bone
  <2> HIDE DEF b
  <2>5. Nobody \notin Ids(r) /\ g # Nobody
    BY <1>2, NobodyIsNone, IdsIn, BonesLinkable
  <2>6. Forest(q)
    BY <2>1, <2>4, <2>5, <1>3, <1>5, AppendForest DEF Built
  <2>7. Gathered(d, ids, g)[n] = <<>>
    <3>1. \A i \in DOMAIN ids : i \in 1..n => ids[i] # g
      BY <1>3, <1>5 DEF Built
    <3>2. n \in 0..Len(d.entities)
      BY <1>1
    <3> HIDE DEF g
    <3> QED
      BY <3>1, <3>2, GatheredNone
  <2>8. s \in Seq(EntitySet) /\ Len(r) = Len(s) /\ Len(s) \in Nat /\ Shaped(r, s)
    BY DEF Built, Shaped
  <2>9. /\ t \in Seq(EntitySet) /\ Len(t) = Len(s) + 1
        /\ \A k \in 1..Len(t) : t[k] = IF k = Len(t) THEN e ELSE s[k]
    BY <2>1, <2>2, <2>8, AppendProperties
  <2>10. /\ q \in Seq(Bone) /\ Len(q) = Len(s) + 1
         /\ \A k \in 1..Len(q) : q[k] = IF k = Len(q) THEN b ELSE r[k]
    BY <2>1, <2>4, <2>8, AppendProperties
  <2>11. Ids(q) = Ids(r) \cup {g}
    <3>1. Elements(q) = Elements(r) \cup {b}
      BY <2>1, <2>4, ElementsAppend
    <3> QED
      BY <3>1, <2>4 DEF Ids
  <2> HIDE DEF t, q, g, name
  <2>12. Shaped(q, t)
    <3>1. DOMAIN q = 1..Len(q) /\ DOMAIN t = 1..Len(t) /\ Len(q) = Len(t)
      BY <2>9, <2>10
    <3>2. \A k \in 1..Len(q) : t[k].guid = q[k].guid /\ t[k].name = q[k].name /\ t[k].parent = q[k].parent
      BY <2>2, <2>4, <2>8, <2>9, <2>10 DEF Shaped
    <3> QED
      BY <3>1, <3>2 DEF Shaped
  <2>13. \A k \in 1..Len(t) : /\ Proper(t[k], gameplay)
                              /\ Exact(t[k], Gathered(d, ids, t[k].guid)[n])
    <3> SUFFICES ASSUME NEW k \in 1..Len(t)
                 PROVE  Proper(t[k], gameplay) /\ Exact(t[k], Gathered(d, ids, t[k].guid)[n])
      OBVIOUS
    <3>1. CASE k = Len(t)
      BY <3>1, <2>2, <2>3, <2>7, <2>9
    <3>2. CASE k # Len(t)
      <4>1. k \in 1..Len(s) /\ t[k] = s[k]
        BY <3>2, <2>8, <2>9
      <4> QED
        BY <4>1 DEF Built
    <3> QED
      BY <3>1, <3>2
  <2> QED
    BY <2>6, <2>9, <2>11, <2>12, <2>13 DEF t, q, g, name
<1> QED
  BY <1>4, <1>5

LEMMA BuiltNext ==
  ASSUME GameplayType, NEW d, NEW ids, GivenTo(d, ids), NEW n \in 0..(Len(d.entities) - 1),
         n + 1 \in DOMAIN ids, NEW s, NEW r \in Seq(Bone), Built(s, r, d, ids, n)
  PROVE  Built(Opened(s, ids[n + 1], d.entities[n + 1]),
               Rooted(r, ids[n + 1], d.entities[n + 1].name), d, ids, n + 1)
<1> DEFINE m == n + 1
           g == ids[m]
           rec == d.entities[m]
           t == Created(s, g, rec.name)
           q == Rooted(r, g, rec.name)
           u == Opened(s, g, rec)
           at == At(t, g)
<1>1. Len(d.entities) \in Nat /\ m \in 1..Len(d.entities) /\ m - 1 = n /\ n \in Nat
  BY DocLength DEF GivenTo
<1>2. g \in Identity /\ rec \in RecordSet /\ rec.components \in Seq(PartSet)
  BY <1>1, RecordIs DEF GivenTo
<1>3. /\ t \in Seq(EntitySet) /\ Shaped(q, t) /\ Forest(q)
      /\ Ids(q) = Ids(r) \cup {g}
      /\ \A k \in 1..Len(t) : Proper(t[k], gameplay) /\ Exact(t[k], Gathered(d, ids, t[k].guid)[n])
  BY BuiltCreated
<1>4. s \in Seq(EntitySet)
  BY DEF Built
<1>5. /\ u \in Seq(EntitySet) /\ Len(u) = Len(t)
      /\ at \in 1..Len(t) /\ t[at].guid = g
      /\ \A i \in 1..Len(t) : u[i] = IF i = at THEN ReadComponents(t[i], rec.components) ELSE t[i]
  <2> HIDE DEF rec, g
  <2> QED
    BY <1>2, <1>4, OpenedIs
<1>6. \A k \in 1..Len(t) :
         /\ t[k] \in EntitySet
         /\ ReadComponents(t[k], rec.components).guid = t[k].guid
         /\ ReadComponents(t[k], rec.components).name = t[k].name
         /\ ReadComponents(t[k], rec.components).parent = t[k].parent
  <2> SUFFICES ASSUME NEW k \in 1..Len(t)
               PROVE  /\ t[k] \in EntitySet
                      /\ ReadComponents(t[k], rec.components).guid = t[k].guid
                      /\ ReadComponents(t[k], rec.components).name = t[k].name
                      /\ ReadComponents(t[k], rec.components).parent = t[k].parent
    OBVIOUS
  <2> HIDE DEF t, rec
  <2>1. t[k] \in EntitySet
    BY <1>3
  <2> DEFINE e == t[k]
             cs == rec.components
  <2>2. e \in EntitySet /\ cs \in Seq(PartSet)
    BY <2>1, <1>2
  <2> HIDE DEF e, cs
  <2>3. /\ ReadComponents(e, cs).guid = e.guid /\ ReadComponents(e, cs).name = e.name
        /\ ReadComponents(e, cs).parent = e.parent
    BY <2>2, ReadComponentsIs
  <2> QED
    BY <2>1, <2>3 DEF e, cs
<1>7. \A k \in 1..Len(t) : t[k].guid = g => k = at
  <2>1. Forest(t)
    BY <1>3, ShapedIs
  <2>2. DOMAIN t = 1..Len(t)
    BY <1>3
  <2> QED
    BY <2>1, <2>2, <1>5 DEF Forest
<1>8. Ids(q) = {ids[i] : i \in DOMAIN ids \cap 1..m}
  <2>1. 1..m = (1..n) \cup {m}
    BY <1>1
  <2> QED
    BY <2>1, <1>3 DEF Built
<1> HIDE DEF t, q, u, at
<1>9. Shaped(q, u)
  <2>1. Len(q) = Len(t) /\ DOMAIN q = 1..Len(q)
    BY <1>3 DEF Shaped
  <2>2. DOMAIN u = 1..Len(u)
    BY <1>5
  <2>3. \A k \in 1..Len(q) : u[k].guid = q[k].guid /\ u[k].name = q[k].name /\ u[k].parent = q[k].parent
    BY <2>1, <1>3, <1>5, <1>6 DEF Shaped
  <2> QED
    BY <2>1, <2>2, <2>3, <1>5 DEF Shaped
<1>10. ASSUME NEW k \in 1..Len(u)
       PROVE  Proper(u[k], gameplay) /\ Exact(u[k], Gathered(d, ids, u[k].guid)[m])
  <2> DEFINE e == t[k]
             cs == rec.components
             P == Gathered(d, ids, e.guid)[n]
  <2>1. k \in 1..Len(t)
    BY <1>5
  <2>2. Proper(e, gameplay) /\ Exact(e, P) /\ e \in EntitySet
    BY <2>1, <1>3, <1>6
  <2>3. /\ P \in Seq(PartSet)
        /\ Gathered(d, ids, e.guid)[m] = IF m \in DOMAIN ids /\ ids[m] = e.guid THEN P \o cs ELSE P
    <3> DEFINE x == e.guid
               h == Gathered(d, ids, x)
    <3> HIDE DEF e, x
    <3>1. /\ \A i \in 0..Len(d.entities) : h[i] \in Seq(PartSet)
          /\ \A i \in 1..Len(d.entities) :
                h[i] = IF i \in DOMAIN ids /\ ids[i] = x THEN h[i - 1] \o d.entities[i].components
                       ELSE h[i - 1]
      BY GatheredIs
    <3>2. n \in 0..Len(d.entities)
      BY <1>1
    <3> HIDE DEF h
    <3>3. h[n] \in Seq(PartSet)
      BY <3>1, <3>2
    <3>4. h[m] = IF m \in DOMAIN ids /\ ids[m] = x THEN h[n] \o cs ELSE h[n]
      BY <3>1, <1>1
    <3> QED
      BY <3>3, <3>4 DEF x, h
  <2>4. CASE k = at
    <3>1. u[k] = ReadComponents(e, cs) /\ e.guid = g /\ u[k].guid = g
      BY <2>1, <2>4, <1>5, <1>6
    <3>2. Gathered(d, ids, u[k].guid)[m] = P \o cs
      BY <3>1, <2>3
    <3> HIDE DEF e, P, cs
    <3>3. Proper(ReadComponents(e, cs), gameplay)
      BY <2>2, <1>2, ReadComponentsProper DEF cs
    <3>4. Exact(ReadComponents(e, cs), P \o cs)
      BY <2>2, <2>3, <1>2, ExactNext DEF cs
    <3> QED
      BY <3>1, <3>2, <3>3, <3>4
  <2>5. CASE k # at
    <3>1. u[k] = e /\ e.guid # g
      BY <2>1, <2>5, <1>5, <1>7
    <3> QED
      BY <3>1, <2>2, <2>3
  <2> QED
    BY <2>4, <2>5
<1> QED
  BY <1>3, <1>5, <1>8, <1>9, <1>10 DEF Built, u, q

\* What the first pass makes of a document.
LEMMA FirstPassIs ==
  ASSUME GameplayType, NEW d, NEW ids, GivenTo(d, ids)
  PROVE  LET N == Len(d.entities)
         IN  N \in Nat /\ Roots(d, ids)[N] \in Seq(Bone)
             /\ Built(FirstPass(d, ids), Roots(d, ids)[N], d, ids, N)
<1> DEFINE N == Len(d.entities)
           f == First(d, ids)
           r == Roots(d, ids)
           P == {n \in 0..N : Built(f[n], r[n], d, ids, n)}
<1>1. N \in Nat /\ \A n \in 0..N : r[n] \in Seq(Bone)
  BY DocLength, RootsIs DEF GivenTo
<1>2. /\ r[0] = <<>>
      /\ \A n \in 1..N : r[n] = IF n \in DOMAIN ids THEN Rooted(r[n - 1], ids[n], d.entities[n].name)
                                ELSE r[n - 1]
  BY RootsIs
<1>3. /\ FirstPass(d, ids) = f[N] /\ f[0] = <<>>
      /\ \A n \in 1..N : f[n] = IF n \notin DOMAIN ids THEN f[n - 1]
                                ELSE Opened(f[n - 1], ids[n], d.entities[n])
  BY FirstIs
<1> HIDE DEF f, r
<1>4. 0 \in P
  <2>1. Elements(<<>>) = {} /\ Ids(<<>>) = {}
    BY DEF Elements, Ids
  <2>2. Forest(<<>>)
    BY <2>1 DEF Forest
  <2>3. Shaped(<<>>, <<>>)
    BY DEF Shaped
  <2>4. Built(<<>>, <<>>, d, ids, 0)
    BY <2>1, <2>2, <2>3 DEF Built
  <2> QED
    BY <2>4, <1>1, <1>2, <1>3
<1>5. ASSUME NEW n \in 0..(N - 1), n \in P  PROVE  n + 1 \in P
  <2> DEFINE m == n + 1
  <2>1. m \in 0..N /\ m \in 1..N /\ m - 1 = n /\ n \in 0..N /\ n \in Nat
    BY <1>1
  <2>2. CASE m \in DOMAIN ids
    <3>1. Built(Opened(f[n], ids[m], d.entities[m]), Rooted(r[n], ids[m], d.entities[m].name), d, ids, m)
      <4>1. r[n] \in Seq(Bone) /\ Built(f[n], r[n], d, ids, n)
        BY <2>1, <1>1, <1>5
      <4> QED
        BY <4>1, <2>2, BuiltNext
    <3> QED
      BY <3>1, <2>1, <2>2, <1>2, <1>3
  <2>3. CASE m \notin DOMAIN ids
    <3>1. f[m] = f[n] /\ r[m] = r[n] /\ Built(f[n], r[n], d, ids, n)
      BY <2>1, <2>3, <1>2, <1>3, <1>5
    <3>2. DOMAIN ids \cap 1..m = DOMAIN ids \cap 1..n
      BY <2>1, <2>3
    <3>3. \A g : Gathered(d, ids, g)[m] = Gathered(d, ids, g)[n]
      <4> SUFFICES ASSUME NEW g  PROVE  Gathered(d, ids, g)[m] = Gathered(d, ids, g)[n]
        OBVIOUS
      <4> QED
        BY <2>1, <2>3, GatheredIs
    <3>4. Built(f[n], r[n], d, ids, m)
      BY <3>1, <3>2, <3>3 DEF Built
    <3> QED
      BY <3>1, <3>4, <2>1
  <2> QED
    BY <2>2, <2>3
<1>6. N \in P
  <2> HIDE DEF P, N
  <2>1. 0..N \subseteq P
    BY <1>1, <1>4, <1>5, Induction
  <2> QED
    BY <2>1, <1>1
<1> QED
  BY <1>1, <1>3, <1>6 DEF r

\* A document as a scene: the bones of its entities, and their components.
Skeleton(d, ids) == SecondPass(Roots(d, ids)[Len(d.entities)], d, ids)
Contents(d, ids, g) == Gathered(d, ids, g)[Len(d.entities)]

LEMMA ContentsTyped ==
  ASSUME NEW d, NEW ids, GivenTo(d, ids), NEW g
  PROVE  Contents(d, ids, g) \in Seq(PartSet)
<1>1. Len(d.entities) \in Nat
  BY DocLength DEF GivenTo
<1> DEFINE f == Gathered(d, ids, g)
<1>2. \A n \in 0..Len(d.entities) : f[n] \in Seq(PartSet)
  BY GatheredIs
<1> QED
  BY <1>1, <1>2 DEF Contents

LEMMA PassesAre ==
  ASSUME GameplayType, NEW d, NEW ids, GivenTo(d, ids)
  PROVE  LET s == SecondPass(FirstPass(d, ids), d, ids)
         IN  /\ s \in Seq(EntitySet) /\ Forest(s) /\ Shaped(Skeleton(d, ids), s)
             /\ Ids(s) = {ids[i] : i \in DOMAIN ids}
             /\ \A k \in 1..Len(s) : /\ Proper(s[k], gameplay)
                                     /\ Exact(s[k], Contents(d, ids, s[k].guid))
<1> DEFINE N == Len(d.entities)
           a == FirstPass(d, ids)
           r == Roots(d, ids)[N]
           s == SecondPass(a, d, ids)
<1>1. N \in Nat /\ r \in Seq(Bone) /\ Built(a, r, d, ids, N)
  BY FirstPassIs
<1> HIDE DEF a, r
<1>2. a \in Seq(EntitySet) /\ Shaped(r, a) /\ Forest(r)
  BY <1>1 DEF Built
<1>3. Ids(a) = Ids(r) /\ Forest(a)
  BY <1>2, ShapedIs
<1>4. Ids(r) = {ids[i] : i \in DOMAIN ids}
  <2>1. DOMAIN ids \subseteq 1..N
    BY DocLength DEF GivenTo, Accepted
  <2>2. DOMAIN ids \cap 1..N = DOMAIN ids
    BY <2>1
  <2> QED
    BY <2>2, <1>1 DEF Built
<1>5. /\ s \in Seq(EntitySet) /\ Forest(s) /\ Relinked(a, s)
  <2>1. \A i \in DOMAIN ids : ids[i] \in Ids(a)
    BY <1>3, <1>4
  <2> QED
    BY <2>1, <1>1, <1>2, <1>3, EntitiesLinkable, SecondPassForest
<1>6. Shaped(Skeleton(d, ids), s)
  <2>1. \A i \in DOMAIN ids : ids[i] \in Ids(r)
    BY <1>4
  <2>2. Shaped(SecondPass(r, d, ids), SecondPass(a, d, ids))
    BY <2>1, <1>1, <1>2, EntitiesLinkable, BonesLinkable, SecondPassShaped
  <2> QED
    BY <2>2 DEF Skeleton, r
<1>7. Ids(s) = {ids[i] : i \in DOMAIN ids}
  BY <1>2, <1>3, <1>4, <1>5, RelinkedIds
<1>8. ASSUME NEW k \in 1..Len(s)
      PROVE  Proper(s[k], gameplay) /\ Exact(s[k], Contents(d, ids, s[k].guid))
  <2> DEFINE e == a[k]
             u == s[k]
  <2>1. k \in 1..Len(a) /\ u = Under(e, u.parent) /\ u.guid = e.guid
    BY <1>5 DEF Relinked
  <2>2. e \in EntitySet /\ u \in EntitySet
    BY <2>1, <1>2, <1>5
  <2>3. Proper(e, gameplay) /\ Exact(e, Contents(d, ids, e.guid))
    BY <2>1, <1>1 DEF Built, Contents
  <2> HIDE DEF e, u
  <2>4. u.comps = e.comps /\ u.kept = e.kept
    BY <2>1, <2>2 DEF Under, EntitySet
  <2> QED
    BY <2>1, <2>2, <2>3, <2>4 DEF Proper, Exact, u
<1> QED
  BY <1>5, <1>6, <1>7, <1>8 DEF a

-----------------------------------------------------------------------------
(* Taking entities out of a scene.                                          *)

Distinct(s) == \A i, j \in DOMAIN s : s[i].guid = s[j].guid => i = j

LEMMA PackedType ==
  ASSUME NEW S, NEW s \in Seq(S), NEW i
  PROVE  /\ Packed(s, i) \in Seq(S)
         /\ i \in 1..Len(s) =>
              /\ Len(Packed(s, i)) = Len(s) - 1
              /\ \A j \in 1..(Len(s) - 1) : Packed(s, i)[j] = IF j = i THEN s[Len(s)] ELSE s[j]
<1> DEFINE n == Len(s)
           u == [s EXCEPT ![i] = s[n]]
<1>1. n \in Nat /\ DOMAIN s = 1..n /\ \A j \in 1..n : s[j] \in S
  OBVIOUS
<1>2. \A j \in 1..(n - 1) : u[j] = (IF j = i THEN s[n] ELSE s[j]) /\ u[j] \in S
  BY <1>1
<1>3. Packed(s, i) = SubSeq(u, 1, n - 1)
  BY DEF Packed
<1> HIDE DEF u, n
<1>4. /\ SubSeq(u, 1, n - 1) \in Seq(S)
      /\ Len(SubSeq(u, 1, n - 1)) = IF 1 <= n - 1 THEN n - 1 - 1 + 1 ELSE 0
      /\ \A j \in 1..(n - 1 - 1 + 1) : SubSeq(u, 1, n - 1)[j] = u[1 + j - 1]
  BY <1>1, <1>2, SubSeqProperties
<1>5. ASSUME i \in 1..n
      PROVE  /\ Len(Packed(s, i)) = n - 1
             /\ \A j \in 1..(n - 1) : Packed(s, i)[j] = IF j = i THEN s[n] ELSE s[j]
  <2>1. n >= 1
    BY <1>1, <1>5
  <2>2. \A j \in 1..(n - 1) : j \in 1..(n - 1 - 1 + 1) /\ 1 + j - 1 = j
    BY <1>1
  <2> QED
    BY <2>1, <2>2, <1>1, <1>2, <1>3, <1>4
<1> QED
  BY <1>3, <1>4, <1>5 DEF n

LEMMA PackedIs ==
  ASSUME NEW S, NEW s \in Seq(S), Distinct(s), NEW i \in 1..Len(s)
  PROVE  /\ Distinct(Packed(s, i))
         /\ Elements(Packed(s, i)) = Elements(s) \ {s[i]}
<1> DEFINE n == Len(s)
           p == Packed(s, i)
<1>1. /\ p \in Seq(S) /\ Len(p) = n - 1 /\ n \in Nat /\ DOMAIN s = 1..n
      /\ \A j \in 1..(n - 1) : p[j] = IF j = i THEN s[n] ELSE s[j]
  BY PackedType
<1> HIDE DEF p
<1>2. DOMAIN p = 1..(n - 1)
  BY <1>1
<1> HIDE DEF n
<1>3. i \in 1..n
  BY DEF n
<1>4. \A j, k \in 1..n : s[j].guid = s[k].guid => j = k
  BY <1>1 DEF Distinct
<1>5. Distinct(p)
  <2> SUFFICES ASSUME NEW j \in 1..(n - 1), NEW k \in 1..(n - 1), p[j].guid = p[k].guid
               PROVE  j = k
    BY <1>2 DEF Distinct
  <2> QED
    BY <1>1, <1>3, <1>4
<1>6. Elements(p) \subseteq Elements(s) \ {s[i]}
  <2> SUFFICES ASSUME NEW j \in 1..(n - 1)  PROVE  p[j] \in Elements(s) \ {s[i]}
    BY <1>2 DEF Elements
  <2>1. CASE j = i
    <3>1. p[j] = s[n] /\ n \in 1..n /\ n # i
      BY <2>1, <1>1
    <3>2. s[n] # s[i]
      BY <3>1, <1>3, <1>4
    <3> QED
      BY <3>1, <3>2, <1>1 DEF Elements
  <2>2. CASE j # i
    <3>1. p[j] = s[j] /\ j \in 1..n
      BY <2>2, <1>1
    <3>2. s[j] # s[i]
      BY <3>1, <2>2, <1>3, <1>4
    <3> QED
      BY <3>1, <3>2, <1>1 DEF Elements
  <2> QED
    BY <2>1, <2>2
<1>7. Elements(s) \ {s[i]} \subseteq Elements(p)
  <2> SUFFICES ASSUME NEW j \in 1..n, s[j] # s[i]  PROVE  s[j] \in Elements(p)
    BY <1>1 DEF Elements
  <2>1. CASE j = n
    <3>1. i \in 1..(n - 1) /\ p[i] = s[j]
      BY <2>1, <1>1, <1>3
    <3> QED
      BY <3>1, <1>2 DEF Elements
  <2>2. CASE j # n
    <3>1. j \in 1..(n - 1) /\ j # i
      BY <2>2, <1>1
    <3>2. p[j] = s[j]
      BY <3>1, <1>1
    <3> QED
      BY <3>1, <3>2, <1>2 DEF Elements
  <2> QED
    BY <2>1, <2>2
<1> QED
  BY <1>5, <1>6, <1>7 DEF p

LEMMA DistinctElements ==
  ASSUME NEW s, Distinct(s), NEW e \in Elements(s), NEW f \in Elements(s), e.guid = f.guid
  PROVE  e = f
BY DEF Distinct, Elements

\* The entities named in order go, one after the other.
LEMMA GoneIs ==
  ASSUME NEW S, NEW s \in Seq(S), Distinct(s), NEW M \in Nat, NEW order \in [1..M -> Ids(s)],
         \A i, j \in 1..M : i # j => order[i] # order[j]
  PROVE  /\ Gone(s, order) \in Seq(S) /\ Distinct(Gone(s, order))
         /\ Elements(Gone(s, order)) = {e \in Elements(s) : \A i \in 1..M : e.guid # order[i]}
<1> DEFINE F == [n \in 1..M |-> [t \in Seq(S) |-> Packed(t, At(t, order[n]))]]
           E(f) == f = [n \in 0..Len(order) |->
                          IF n = 0 THEN s ELSE Packed(f[n - 1], At(f[n - 1], order[n]))]
<1>1. Len(order) = M
  <2>1. order \in Seq(Ids(s))
    BY SeqDef
  <2> QED
    BY <2>1
<1>2. F \in [1..M -> [Seq(S) -> Seq(S)]]
  BY PackedType
<1>3. PICK g : Iterates(g, Seq(S), s, F, M)
  <2> HIDE DEF F
  <2> QED
    BY <1>2, Iteration
<1>4. E(g)
  <2>1. ASSUME NEW n \in 0..M, n # 0  PROVE  g[n] = Packed(g[n - 1], At(g[n - 1], order[n]))
    <3>1. n - 1 \in 0..M /\ n \in 1..M
      BY <2>1
    <3>2. g[n - 1] \in Seq(S) /\ g[n] = F[n][g[n - 1]]
      BY <3>1, <1>3 DEF Iterates
    <3> QED
      BY <3>1, <3>2
  <2> QED
    BY <1>1, <1>3, <2>1 DEF Iterates
<1> DEFINE u == CHOOSE f : E(f)
<1>5. E(u)
  BY <1>4
<1>6. Gone(s, order) = u[M]
  BY <1>1 DEF Gone
<1>7. u[0] = s /\ \A n \in 1..M : u[n] = Packed(u[n - 1], At(u[n - 1], order[n]))
  <2> HIDE DEF u
  <2>1. 0 \in 0..M /\ \A n \in 1..M : n \in 0..M /\ n # 0
    OBVIOUS
  <2> QED
    BY <1>1, <1>5, <2>1
<1> HIDE DEF u, F, E
<1> DEFINE Left(n) == {e \in Elements(s) : \A i \in 1..n : e.guid # order[i]}
           P == {n \in 0..M : u[n] \in Seq(S) /\ Distinct(u[n]) /\ Elements(u[n]) = Left(n)}
<1>8. 0 \in P
  BY <1>7
<1>9. ASSUME NEW n \in 0..(M - 1), n \in P  PROVE  n + 1 \in P
  <2> DEFINE m == n + 1
             t == u[n]
             g0 == order[m]
             at == At(t, g0)
  <2>1. m \in 0..M /\ m \in 1..M /\ m - 1 = n /\ 1..m = (1..n) \cup {m} /\ m \notin 1..n /\ 1..n \subseteq 1..M
    OBVIOUS
  <2>2. t \in Seq(S) /\ Distinct(t) /\ Elements(t) = Left(n) /\ u[m] = Packed(t, at)
    BY <2>1, <1>7, <1>9
  <2> HIDE DEF t
  <2>3. g0 \in Ids(t)
    <3>1. PICK e \in Elements(s) : e.guid = g0
      BY <2>1 DEF Ids
    <3>2. e \in Left(n)
      BY <3>1, <2>1
    <3> QED
      BY <3>1, <3>2, <2>2 DEF Ids
  <2>4. at \in 1..Len(t) /\ t[at].guid = g0
    BY <2>2, <2>3, AtIs
  <2> HIDE DEF at
  <2>5. u[m] \in Seq(S) /\ Distinct(u[m]) /\ Elements(u[m]) = Elements(t) \ {t[at]}
    BY <2>2, <2>4, PackedType, PackedIs
  <2>6. t[at] \in Elements(t)
    BY <2>2, <2>4 DEF Elements
  <2>7. \A e \in Elements(t) : e # t[at] <=> e.guid # g0
    BY <2>2, <2>4, <2>6, DistinctElements
  <2>8. Elements(u[m]) = Left(m)
    <3>1. Left(m) = {e \in Left(n) : e.guid # g0}
      BY <2>1
    <3> HIDE DEF Left
    <3> QED
      BY <3>1, <2>2, <2>5, <2>7
  <2> QED
    BY <2>1, <2>5, <2>8
<1>10. M \in P
  <2> HIDE DEF P
  <2>1. 0..M \subseteq P
    BY <1>8, <1>9, Induction
  <2> QED
    BY <2>1
<1> QED
  BY <1>6, <1>10

\* What is below an entity goes, and the rest is a forest (Scene::destroy).
LEMMA GoneForest ==
  ASSUME NEW S, Linkable(S), NEW s \in Seq(S), Forest(s), NEW g \in Ids(s),
         NEW order \in SetToSeqs(Below(s, {g}))
  PROVE  /\ Gone(s, order) \in Seq(S) /\ Forest(Gone(s, order))
         /\ Elements(Gone(s, order)) = {e \in Elements(s) : e.guid \notin Below(s, {g})}
<1> DEFINE T == {g}
           gone == Below(s, T)
           M == Cardinality(gone)
           left == Gone(s, order)
<1>1. Distinct(s)
  BY DEF Forest, Distinct
<1> HIDE DEF T
<1>2. gone \subseteq Ids(s) /\ Closed(s, gone)
  <2>1. T \subseteq Ids(s)
    BY DEF T
  <2>2. gone \subseteq Ids(s) \cup T /\ Closed(s, gone)
    BY BelowIs
  <2> QED
    BY <2>1, <2>2
<1>3. IsFiniteSet(gone) /\ M \in Nat
  <2>1. IsFiniteSet(Identity)
    <3>1. IsFiniteSet(1..MaxGuids)
      BY BoundsAssumption, FS_Interval
    <3> QED
      BY <3>1 DEF Identity
  <2>2. gone \in SUBSET Identity
    BY <1>2, IdsIn
  <2> HIDE DEF gone
  <2>3. IsFiniteSet(gone)
    BY <2>1, <2>2, FS_Subset
  <2> QED
    BY <2>3, FS_CardinalityType
<1>4. order \in [1..M -> gone] /\ \A i, j \in 1..M : i # j => order[i] # order[j]
  BY DEF SetToSeqs, T
<1> HIDE DEF gone
<1>5. \A x \in gone : \E i \in 1..M : order[i] = x
  <2>1. IsFiniteSet(1..M) /\ Cardinality(1..M) = M
    BY <1>3, FS_Interval
  <2>2. order \in Injection(1..M, gone)
    BY <1>4 DEF Injection, IsInjective
  <2>3. order \in Surjection(1..M, gone)
    BY <2>1, <2>2, <1>3, FS_Injection
  <2> QED
    BY <2>3 DEF Surjection
<1> HIDE DEF M
<1>6. /\ left \in Seq(S) /\ Distinct(left)
      /\ Elements(left) = {e \in Elements(s) : \A i \in 1..M : e.guid # order[i]}
  <2>1. order \in [1..M -> Ids(s)]
    BY <1>2, <1>4
  <2> QED
    BY <2>1, <1>1, <1>3, <1>4, GoneIs
<1> HIDE DEF left
<1>7. Elements(left) = {e \in Elements(s) : e.guid \notin gone}
  <2>1. \A x : x \in gone <=> \E i \in 1..M : order[i] = x
    BY <1>4, <1>5
  <2> QED
    BY <2>1, <1>6
<1>8. Forest(left)
  <2>1. \A e \in Elements(left) : e.parent # Nobody =>
           /\ e.parent \in Ids(left)
           /\ \E D : e.guid \in D /\ Closed(left, D) /\ e.parent \notin D
    <3> SUFFICES ASSUME NEW e \in Elements(left), e.parent # Nobody
                 PROVE  /\ e.parent \in Ids(left)
                        /\ \E D : e.guid \in D /\ Closed(left, D) /\ e.parent \notin D
      OBVIOUS
    <3>1. e \in Elements(s) /\ e.guid \notin gone
      BY <1>7
    <3>2. e.parent \in Ids(s) /\ \E D : e.guid \in D /\ Closed(s, D) /\ e.parent \notin D
      BY <3>1, ForestIs
    <3>3. PICK D : e.guid \in D /\ Closed(s, D) /\ e.parent \notin D
      BY <3>2
    <3>4. Closed(left, D)
      BY <3>3, <1>7 DEF Closed
    <3>5. e.parent \notin gone
      BY <3>1, <1>2 DEF Closed
    <3>6. PICK f \in Elements(s) : f.guid = e.parent
      BY <3>2 DEF Ids
    <3>7. f \in Elements(left)
      BY <3>5, <3>6, <1>7
    <3>8. e.parent \in Ids(left)
      BY <3>6, <3>7 DEF Ids
    <3> QED
      BY <3>3, <3>4, <3>8
  <2> QED
    BY <2>1, <1>6, ForestIs DEF Distinct
<1> QED
  BY <1>6, <1>7, <1>8 DEF left, gone, T

-----------------------------------------------------------------------------
(* What a save writes of an entity.                                         *)

LEMMA WithoutType ==
  ASSUME NEW S, NEW s \in Seq(S), NEW T
  PROVE  /\ Without(s, T) \in Seq(S)
         /\ TypesIn(Without(s, T)) = TypesIn(s) \ T
         /\ Elements(Without(s, T)) \subseteq Elements(s)
<1> DEFINE K == TypesIn(s) \ T
<1>1. Without(s, T) = Of(s, K)
  BY DEF Without
<1>2. K \subseteq TypesIn(s)
  OBVIOUS
<1> HIDE DEF K
<1>3. Of(s, K) \in Seq(S) /\ TypesIn(Of(s, K)) = TypesIn(s) \cap K /\ Elements(Of(s, K)) \subseteq Elements(s)
  BY OfType, TypesOf, OfElements
<1> QED
  BY <1>1, <1>2, <1>3 DEF K

LEMMA WithoutTwice ==
  ASSUME NEW S, NEW s \in Seq(S), NEW T, NEW U
  PROVE  Without(Without(s, T), U) = Without(s, T \cup U)
<1> DEFINE K == TypesIn(s)
           A == K \ T
           B == K \ U
           C == K \ (T \cup U)
           o == Without(s, T)
<1>1. o = Of(s, A) /\ Without(s, T \cup U) = Of(s, C) /\ A \cap B = C
  BY DEF Without
<1>2. o \in Seq(S) /\ \A x \in Elements(o) : x.type \in K
  BY WithoutType, TypesInIs
<1>3. Without(o, U) = Of(o, B)
  <2> HIDE DEF K, o
  <2> QED
    BY <1>2, WithoutIs
<1> HIDE DEF A, B, C, o
<1>4. Of(Of(s, A), B) = Of(s, A \cap B)
  BY OfOf
<1> QED
  BY <1>1, <1>3, <1>4 DEF o

LEMMA OfWithout ==
  ASSUME NEW S, NEW s \in Seq(S), NEW T, NEW t, t \notin T
  PROVE  Of(Without(s, T), {t}) = Of(s, {t})
<1> DEFINE A == TypesIn(s) \ T
           U == {t}
           V == A \cap U
<1>1. Without(s, T) = Of(s, A)
  BY DEF Without
<1>2. \A x \in Elements(s) : x.type \in V <=> x.type \in U
  BY TypesInIs
<1> HIDE DEF A, U
<1>3. Of(Of(s, A), U) = Of(s, V)
  BY OfOf
<1> HIDE DEF V
<1>4. Of(s, V) = Of(s, U)
  BY <1>2, OfSame
<1> QED
  BY <1>1, <1>3, <1>4 DEF U

\* Two sets of types that nothing in s tells apart.
LEMMA WithoutSame ==
  ASSUME NEW S, NEW s \in Seq(S), NEW T, NEW U, \A t \in TypesIn(s) : t \in T <=> t \in U
  PROVE  Without(s, T) = Without(s, U)
<1>1. TypesIn(s) \ T = TypesIn(s) \ U
  OBVIOUS
<1> QED
  BY <1>1 DEF Without

LEMMA WithoutNone ==
  ASSUME NEW S, NEW s \in Seq(S), NEW T, TypesIn(s) \cap T = {}
  PROVE  Without(s, T) = s
<1> DEFINE K == TypesIn(s) \ T
<1>1. \A x \in Elements(s) : x.type \in K
  BY TypesInIs
<1> HIDE DEF K
<1>2. Of(s, K) = s
  BY <1>1, OfAll
<1> QED
  BY <1>2 DEF Without, K

LEMMA WithoutAll ==
  ASSUME NEW S, NEW s \in Seq(S), NEW T, TypesIn(s) \subseteq T
  PROVE  Without(s, T) = <<>>
<1>1. TypesIn(s) \ T = {}
  OBVIOUS
<1>2. Of(s, {}) = <<>>
  BY OfNone
<1> QED
  BY <1>1, <1>2 DEF Without

\* The known types of an entity, as a save writes them.
Written(e) ==
    LET known == Of(Types, DOMAIN e.comps)
    IN  [i \in DOMAIN known |->
            [type |-> known[i].type,
             node |-> WriteProperties(known[i].def, e.comps[known[i].type])]]

LEMMA WrittenIs ==
  ASSUME GameplayType, NEW e, Proper(e, gameplay)
  PROVE  /\ Written(e) \in Seq(PartSet) /\ Single(Written(e))
         /\ TypesIn(Written(e)) = DOMAIN e.comps
         /\ \A x \in Elements(Written(e)) :
               x.node = WriteProperties(DefOf(gameplay, x.type), e.comps[x.type])
<1> DEFINE D == DOMAIN e.comps
           known == Of(Types, D)
           w == Written(e)
<1>1. /\ Types \in Seq(TypeEntry) /\ Single(Types) /\ D \subseteq Known
      /\ \A x \in Elements(Types) : x.def = DefOf(gameplay, x.type)
      /\ \A t \in D : DefOf(gameplay, t) \in Definitions /\ t \in Component
  <2>1. D \subseteq LiveIn(gameplay) /\ LiveIn(gameplay) \subseteq Component
    BY DEF Proper, LiveIn, Component
  <2>2. LiveIn(gameplay) \subseteq Known
    BY TypesAre DEF Live
  <2> QED
    BY <2>1, <2>2, TypesAre
<1> HIDE DEF D
<1>2. /\ known \in Seq(TypeEntry) /\ Single(known)
      /\ Elements(known) = {x \in Elements(Types) : x.type \in D}
      /\ TypesIn(known) = TypesIn(Types) \cap D
  BY <1>1, OfType, OfSingle, OfElements, TypesOf
<1> HIDE DEF known
<1>3. TypesIn(known) = D
  BY <1>1, <1>2 DEF Known
<1>4. /\ DOMAIN known = 1..Len(known) /\ Len(known) \in Nat
      /\ \A i \in 1..Len(known) : known[i] \in Elements(known)
  BY <1>2 DEF Elements
<1>5. \A i \in 1..Len(known) : /\ known[i].type \in D
                               /\ known[i].def = DefOf(gameplay, known[i].type)
  BY <1>1, <1>2, <1>4
<1>6. w = [i \in 1..Len(known) |-> [type |-> known[i].type,
                                    node |-> WriteProperties(known[i].def, e.comps[known[i].type])]]
  BY <1>4 DEF Written, known, D
<1>7. ASSUME NEW i \in 1..Len(known)
      PROVE  /\ w[i].type = known[i].type /\ w[i] \in PartSet
             /\ w[i].node = WriteProperties(DefOf(gameplay, w[i].type), e.comps[w[i].type])
  <2> DEFINE t == known[i].type
             v == e.comps[t]
             def == DefOf(gameplay, t)
  <2>1. t \in D /\ known[i].def = def /\ def \in Definitions /\ t \in Component
    BY <1>1, <1>5
  <2>2. v \in Held(def)
    BY <2>1 DEF Proper, D
  <2>3. w[i] = [type |-> t, node |-> WriteProperties(def, v)]
    BY <2>1, <1>6
  <2>4. WriteProperties(def, v) \in Nodes
    <3> HIDE DEF def, v
    <3> QED
      BY <2>1, <2>2 DEF Nodes
  <2>5. t \in Kind
    BY <2>1 DEF Kind
  <2> HIDE DEF t, w
  <2> QED
    BY <2>3, <2>4, <2>5 DEF PartSet, t
<1> HIDE DEF w
<1>8. DOMAIN w = 1..Len(known) /\ w \in Seq(PartSet)
  <2>1. w \in [1..Len(known) -> PartSet]
    BY <1>6, <1>7
  <2> QED
    BY <2>1, <1>4, SeqDef
<1>9. Single(w) /\ TypesIn(w) = D
  BY <1>2, <1>3, <1>4, <1>7, <1>8 DEF Single, TypesIn
<1>10. \A x \in Elements(w) : x.node = WriteProperties(DefOf(gameplay, x.type), e.comps[x.type])
  BY <1>7, <1>8 DEF Elements
<1> QED
  BY <1>8, <1>9, <1>10 DEF w, D

\* What is written of an entity: its components, which read as they are, and
\* then the text that none of them stands for.
LEMMA ComponentsIs ==
  ASSUME GameplayType, NEW e, Proper(e, gameplay)
  PROVE  LET cs == Components(e)
             D == DOMAIN e.comps
         IN  /\ cs \in Seq(PartSet)
             /\ TypesIn(cs) = D \cup TypesIn(e.kept)
             /\ TypesIn(cs) \cap Excluded = {}
             /\ \A t \in D : ReadValue(gameplay, cs, t) = e.comps[t]
             /\ Without(cs, D \cup Excluded) = Without(e.kept, D)
<1> DEFINE D == DOMAIN e.comps
           w == Written(e)
           rest == Without(e.kept, D)
           cs == Components(e)
<1>1. /\ w \in Seq(PartSet) /\ Single(w) /\ TypesIn(w) = D
      /\ \A x \in Elements(w) : x.node = WriteProperties(DefOf(gameplay, x.type), e.comps[x.type])
  BY WrittenIs
<1>2. cs = w \o rest
  BY DEF Components, Written
<1>3. e.kept \in Seq(PartSet) /\ e \in EntitySet
  BY DEF Proper, EntitySet
<1>4. D \subseteq LiveIn(gameplay) /\ D \cap Excluded = {}
  BY TypesAssumption DEF Proper, LiveIn
<1>5. \A t \in D : DefOf(gameplay, t) \in Definitions /\ e.comps[t] \in Held(DefOf(gameplay, t))
  BY <1>4, TypesAre DEF Proper
<1>6. TypesIn(e.kept) \cap Excluded = {}
  BY TypesInIs DEF Proper
<1> HIDE DEF D, w, cs
<1>7. rest \in Seq(PartSet) /\ TypesIn(rest) = TypesIn(e.kept) \ D
  BY <1>3, WithoutType
<1>8. Without(rest, D) = Without(e.kept, D)
  <2>1. TypesIn(rest) \cap D = {}
    BY <1>7
  <2> HIDE DEF rest
  <2>2. Without(rest, D) = rest
    BY <2>1, <1>7, WithoutNone
  <2> QED
    BY <2>2 DEF rest
<1> HIDE DEF rest
<1>9. cs \in Seq(PartSet) /\ TypesIn(cs) = TypesIn(w) \cup TypesIn(rest)
  BY <1>1, <1>2, <1>7, TypesConcat, ConcatProperties
<1>10. TypesIn(cs) = D \cup TypesIn(e.kept)
  BY <1>1, <1>7, <1>9
<1>11. ASSUME NEW t \in D  PROVE  ReadValue(gameplay, cs, t) = e.comps[t]
  <2> DEFINE def == DefOf(gameplay, t)
             v == e.comps[t]
             U == {t}
  <2>1. ReadValue(gameplay, cs, t) = ReadValue(gameplay, w, t)
    <3>1. t \notin TypesIn(rest)
      BY <1>7
    <3> QED
      BY <3>1, <1>1, <1>2, <1>7, ReadValueConcat
  <2>2. PICK x \in Elements(w) : x.type = t
    BY <1>1, TypesInIs
  <2>3. Of(w, {x.type}) = <<x>>
    BY <1>1, OfSingle
  <2>4. Last(Of(w, {t})) = x
    BY <2>2, <2>3 DEF Last
  <2>5. x.node = WriteProperties(def, v)
    BY <2>2, <1>1
  <2>6. ReadValue(gameplay, w, t) = ReadProperties(def, WriteProperties(def, v), Construct(def))
    BY <2>4, <2>5 DEF ReadValue
  <2>7. def \in Definitions /\ v \in Held(def)
    BY <1>5
  <2> HIDE DEF def, v
  <2>8. ReadProperties(def, WriteProperties(def, v), Construct(def)) = v
    BY <2>7, ValuesAssumption
  <2> QED
    BY <2>1, <2>6, <2>8 DEF v
<1>12. Without(cs, D \cup Excluded) = Without(e.kept, D)
  <2>1. \A t \in TypesIn(cs) : t \in D \cup Excluded <=> t \in D
    BY <1>4, <1>6, <1>10
  <2> DEFINE X == D \cup Excluded
  <2> HIDE DEF X
  <2>2. Without(cs, X) = Without(cs, D)
    BY <2>1, <1>9, WithoutSame DEF X
  <2>3. Without(cs, D) = Without(w, D) \o Without(rest, D)
    BY <1>1, <1>2, <1>7, WithoutConcat
  <2>4. Without(w, D) = <<>>
    BY <1>1, WithoutAll
  <2>5. Without(rest, D) \in Seq(PartSet)
    BY <1>7, WithoutType
  <2>6. <<>> \o Without(rest, D) = Without(rest, D)
    <3> DEFINE z == Without(rest, D)
    <3>1. z \in Seq(PartSet)
      BY <2>5
    <3> HIDE DEF z
    <3>2. <<>> \o z = z
      BY <3>1, ConcatEmptySeq
    <3> QED
      BY <3>2 DEF z
  <2> QED
    BY <2>2, <2>3, <2>4, <2>6, <1>8 DEF X
<1> QED
  BY <1>4, <1>6, <1>9, <1>10, <1>11, <1>12 DEF D, cs

-----------------------------------------------------------------------------
(* A saved scene, as a document.                                            *)

\* A scene of the process.
Sane(s) ==
    /\ s \in Seq(EntitySet) /\ Forest(s)
    /\ \A k \in 1..Len(s) : Proper(s[k], gameplay)

\* The guids a document has written.
GuidsOf(d) == [i \in Accepted(d) |-> d.entities[i].guid]

\* What the records of a saved scene say.
Tells(d, s) ==
    /\ Len(d.entities) = Len(s) /\ Len(s) \in Nat
    /\ \A i \in 1..Len(s) :
         /\ d.entities[i].guid = s[i].guid /\ d.entities[i].name = s[i].name
         /\ d.entities[i].parent = Reference(s[i].parent)
         /\ d.entities[i].components = Components(s[i])
         /\ s[i].guid \in Identity /\ s[i].name \in EntityName
         /\ s[i].parent \in Identity \cup {Nobody}
         /\ Components(s[i]) \in Seq(PartSet)
    /\ GivenTo(d, GuidsOf(d))
    /\ DOMAIN GuidsOf(d) = 1..Len(s)
    /\ \A i \in 1..Len(s) : GuidsOf(d)[i] = s[i].guid

LEMMA SavedIs ==
  ASSUME GameplayType, NEW s, Sane(s)
  PROVE  /\ Saved(s) \in Docs /\ Saved(s).version = 1 /\ Whole(Saved(s))
         /\ Tells(Saved(s), s)
<1> DEFINE d == Saved(s)
           n == Len(s)
           R(i) == [guid |-> s[i].guid, name |-> s[i].name,
                    parent |-> Reference(s[i].parent), components |-> Components(s[i])]
<1>1. s \in Seq(EntitySet) /\ DOMAIN s = 1..n /\ n \in Nat
  BY DEF Sane
<1>2. ASSUME NEW i \in 1..n
      PROVE  /\ s[i].guid \in Identity /\ s[i].name \in EntityName
             /\ s[i].parent \in Identity \cup {Nobody} /\ Components(s[i]) \in Seq(PartSet)
  <2>1. s[i] \in EntitySet /\ Proper(s[i], gameplay)
    BY <1>1 DEF Sane
  <2> DEFINE e == s[i]
  <2> HIDE DEF e
  <2>2. Components(e) \in Seq(PartSet)
    BY <2>1, ComponentsIs DEF e
  <2> QED
    BY <2>1, <2>2 DEF EntitySet, e
<1>3. ASSUME NEW i \in 1..n  PROVE  R(i) \in RecordSet
  <2>1. Reference(s[i].parent) \in Refs
    BY <1>2 DEF Refs
  <2> QED
    BY <2>1, <1>2 DEF RecordSet
<1>4. d = [version |-> 1, entities |-> [i \in 1..n |-> R(i)]]
  BY <1>1 DEF Saved, InCreationOrder
<1> DEFINE es == [i \in 1..n |-> R(i)]
<1>5. es \in Seq(RecordSet)
  <2>1. es \in [1..n -> RecordSet]
    BY <1>3
  <2> HIDE DEF es
  <2> QED
    BY <2>1, <1>1, SeqDef
<1>6. \A i \in 1..n : /\ es[i].guid = s[i].guid /\ es[i].name = s[i].name
                        /\ es[i].parent = Reference(s[i].parent)
                        /\ es[i].components = Components(s[i])
  OBVIOUS
<1>7. DOMAIN es = 1..n
  OBVIOUS
<1> HIDE DEF es
<1>8. Len(es) = n
  BY <1>1, <1>5, <1>7
<1>9. d \in Docs /\ d.version = 1 /\ d.entities = es
  BY <1>4, <1>5 DEF Docs, es
<1> HIDE DEF d
<1>10. \A i \in 1..n : es[i].guid # Mistyped /\ es[i].guid # Unwritten
  <2>1. \A g \in Identity : g # Mistyped /\ g # Unwritten
    BY DEF Mistyped, Unwritten, Identity
  <2> QED
    BY <2>1, <1>2, <1>6
<1>11. Accepted(d) = 1..n /\ Whole(d)
  BY <1>7, <1>9, <1>10 DEF Accepted, Whole
<1>12. /\ DOMAIN GuidsOf(d) = 1..n
       /\ \A i \in 1..n : GuidsOf(d)[i] = s[i].guid
  BY <1>6, <1>9, <1>11 DEF GuidsOf
<1>13. GivenTo(d, GuidsOf(d))
  BY <1>2, <1>9, <1>11, <1>12 DEF GivenTo
<1>14. Tells(d, s)
  <2>1. Len(d.entities) = n
    BY <1>8, <1>9
  <2>2. \A i \in 1..n :
          /\ d.entities[i].guid = s[i].guid /\ d.entities[i].name = s[i].name
          /\ d.entities[i].parent = Reference(s[i].parent)
          /\ d.entities[i].components = Components(s[i])
    BY <1>6, <1>9
  <2> QED
    BY <2>1, <2>2, <1>1, <1>2, <1>12, <1>13 DEF Tells
<1> QED
  BY <1>9, <1>11, <1>14 DEF d

\* Each record is about an entity of its own.
LEMMA SavedContents ==
  ASSUME NEW d, NEW s, Tells(d, s), Distinct(s), DOMAIN s = 1..Len(s), NEW k \in 1..Len(s)
  PROVE  Contents(d, GuidsOf(d), s[k].guid) = Components(s[k])
<1> DEFINE ids == GuidsOf(d)
           N == Len(d.entities)
           g == s[k].guid
           cs == Components(s[k])
           f == Gathered(d, ids, g)
           P == {n \in 0..N : f[n] = IF k <= n THEN cs ELSE <<>>}
<1>1. /\ N = Len(s) /\ N \in Nat /\ GivenTo(d, ids) /\ DOMAIN ids = 1..N
      /\ cs \in Seq(PartSet)
      /\ \A i \in 1..N : ids[i] = s[i].guid /\ d.entities[i].components = Components(s[i])
  BY DEF Tells
<1>2. /\ f[0] = <<>>
      /\ \A n \in 1..N : f[n] = IF n \in DOMAIN ids /\ ids[n] = g THEN f[n - 1] \o d.entities[n].components
                                ELSE f[n - 1]
  <2> HIDE DEF g
  <2> QED
    BY <1>1, GatheredIs
<1>3. \A i \in 1..N : ids[i] = g <=> i = k
  BY <1>1 DEF Distinct
<1> HIDE DEF f, ids, N, g
<1>4. k \in 1..N
  BY <1>1
<1>5. d.entities[k].components = cs
  BY <1>1, <1>4
<1> HIDE DEF cs
<1>6. 0 \in P
  BY <1>1, <1>2, <1>4
<1>7. ASSUME NEW n \in 0..(N - 1), n \in P  PROVE  n + 1 \in P
  <2>1. n + 1 \in 1..N /\ n + 1 - 1 = n /\ n + 1 \in 0..N
    BY <1>1
  <2>2. f[n + 1] = IF n + 1 = k THEN f[n] \o d.entities[n + 1].components ELSE f[n]
    BY <2>1, <1>1, <1>2, <1>3
  <2>3. CASE n + 1 = k
    <3>1. f[n] = <<>>
      BY <2>3, <1>4, <1>7
    <3>2. <<>> \o cs = cs
      BY <1>1, ConcatEmptySeq
    <3> QED
      BY <3>1, <3>2, <2>1, <2>2, <2>3, <1>5
  <2>4. CASE n + 1 # k
    <3>1. k <= n + 1 <=> k <= n
      BY <2>1, <2>4, <1>4
    <3> QED
      BY <3>1, <2>1, <2>2, <2>4, <1>7
  <2> QED
    BY <2>3, <2>4
<1>8. N \in P
  <2> HIDE DEF P
  <2>1. 0..N \subseteq P
    BY <1>1, <1>6, <1>7, Induction
  <2> QED
    BY <2>1, <1>1
<1> QED
  BY <1>1, <1>4, <1>8 DEF Contents, f, ids, N, g, cs

\* The first n entities of s, and those of them that have been linked.
Begun(s, x, n, linked) ==
    /\ x \in Seq(Bone) /\ Len(x) = n
    /\ \A i \in 1..n : /\ x[i].guid = s[i].guid /\ x[i].name = s[i].name
                       /\ x[i].parent = IF i <= linked THEN s[i].parent ELSE Nobody

LEMMA BegunRoots ==
  ASSUME NEW d, NEW s, Tells(d, s), Distinct(s), DOMAIN s = 1..Len(s)
  PROVE  Begun(s, Roots(d, GuidsOf(d))[Len(s)], Len(s), 0)
<1> DEFINE ids == GuidsOf(d)
           N == Len(d.entities)
           f == Roots(d, ids)
           P == {n \in 0..N : Begun(s, f[n], n, 0)}
<1>1. /\ N = Len(s) /\ N \in Nat /\ GivenTo(d, ids) /\ DOMAIN ids = 1..N
      /\ \A i \in 1..N : /\ ids[i] = s[i].guid /\ d.entities[i].name = s[i].name
                         /\ s[i].guid \in Identity /\ s[i].name \in EntityName
  BY DEF Tells
<1>2. /\ f[0] = <<>>
      /\ \A n \in 0..N : f[n] \in Seq(Bone)
      /\ \A n \in 1..N : f[n] = IF n \in DOMAIN ids THEN Rooted(f[n - 1], ids[n], d.entities[n].name)
                                ELSE f[n - 1]
  BY <1>1, RootsIs
<1>3. \A i, j \in 1..N : s[i].guid = s[j].guid => i = j
  BY <1>1 DEF Distinct
<1> HIDE DEF f, ids, N
<1>4. 0 \in P
  BY <1>1, <1>2 DEF Begun
<1>5. ASSUME NEW n \in 0..(N - 1), n \in P  PROVE  n + 1 \in P
  <2> DEFINE m == n + 1
             x == f[n]
             b == [guid |-> s[m].guid, name |-> s[m].name, parent |-> Nobody]
  <2>1. m \in 1..N /\ m - 1 = n /\ m \in 0..N /\ n \in 0..N /\ n \in Nat /\ 1..n \subseteq 1..N /\ m \notin 1..n
    BY <1>1
  <2>2. x \in Seq(Bone) /\ Begun(s, x, n, 0)
    BY <2>1, <1>2, <1>5
  <2> HIDE DEF x
  <2>3. s[m].guid \notin Ids(x)
    <3>1. DOMAIN x = 1..n /\ \A i \in 1..n : x[i].guid = s[i].guid
      BY <2>2 DEF Begun
    <3>2. \A i \in 1..n : s[i].guid # s[m].guid
      BY <2>1, <1>3
    <3> QED
      BY <3>1, <3>2 DEF Ids, Elements
  <2>4. f[m] = Append(x, b)
    BY <2>1, <2>3, <1>1, <1>2 DEF Rooted, x
  <2>5. b \in Bone /\ b.guid = s[m].guid /\ b.name = s[m].name /\ b.parent = Nobody
    BY <2>1, <1>1 DEF Bone
  <2> HIDE DEF b
  <2>6. /\ f[m] \in Seq(Bone) /\ Len(f[m]) = m
        /\ \A i \in 1..m : f[m][i] = IF i = m THEN b ELSE x[i]
    <3>1. Len(x) = n
      BY <2>2 DEF Begun
    <3> HIDE DEF m
    <3>2. Append(x, b) \in Seq(Bone) /\ Len(Append(x, b)) = n + 1
          /\ \A i \in 1..(n + 1) : Append(x, b)[i] = IF i = n + 1 THEN b ELSE x[i]
      BY <2>2, <2>5, <3>1, AppendProperties
    <3> QED
      BY <3>2, <2>4 DEF m
  <2>7. Begun(s, f[m], m, 0)
    <3> SUFFICES ASSUME NEW i \in 1..m
                 PROVE  /\ f[m][i].guid = s[i].guid /\ f[m][i].name = s[i].name
                        /\ f[m][i].parent = IF i <= 0 THEN s[i].parent ELSE Nobody
      BY <2>6 DEF Begun
    <3>1. ~(i <= 0)
      BY <2>1
    <3>2. CASE i = m
      BY <3>1, <3>2, <2>5, <2>6
    <3>3. CASE i # m
      <4>1. i \in 1..n
        BY <3>3, <2>1
      <4> QED
        BY <4>1, <3>1, <3>3, <2>2, <2>6 DEF Begun
    <3> QED
      BY <3>2, <3>3
  <2> QED
    BY <2>1, <2>7
<1>6. N \in P
  <2> HIDE DEF P
  <2>1. 0..N \subseteq P
    BY <1>1, <1>4, <1>5, Induction
  <2> QED
    BY <2>1, <1>1
<1> QED
  BY <1>1, <1>6 DEF f, ids

\* One more entity is linked: what is below it so far is below it in s.
LEMMA BegunNext ==
  ASSUME NEW d, NEW s, Tells(d, s), Forest(s), DOMAIN s = 1..Len(s),
         NEW n \in 0..(Len(s) - 1), NEW x, Begun(s, x, Len(s), n)
  PROVE  Begun(s, Joined(x, d, GuidsOf(d), n + 1), Len(s), n + 1)
<1> DEFINE N == Len(s)
           ids == GuidsOf(d)
           m == n + 1
           c == s[m].guid
           p == s[m].parent
           y == Joined(x, d, ids, m)
           C == {c}
<1>1. /\ N \in Nat /\ DOMAIN ids = 1..N /\ ids[m] = c
      /\ d.entities[m].parent = Reference(p)
      /\ c \in Identity /\ p \in Identity \cup {Nobody}
      /\ m \in 1..N /\ n \in Nat
      /\ \A i \in 1..N : s[i].guid \in Identity
  BY DEF Tells
<1>2. /\ x \in Seq(Bone) /\ Len(x) = N /\ DOMAIN x = 1..N
      /\ \A i \in 1..N : /\ x[i].guid = s[i].guid /\ x[i].name = s[i].name
                         /\ x[i].parent = IF i <= n THEN s[i].parent ELSE Nobody
  BY DEF Begun
<1>3. \A i, j \in 1..N : s[i].guid = s[j].guid => i = j
  BY DEF Forest
<1>4. Ids(x) = Ids(s)
  BY <1>2 DEF Ids, Elements
<1> HIDE DEF N
<1>5. \A i \in 1..N : i <= m <=> (i <= n \/ i = m)
  BY <1>1
<1>6. CASE p = Nobody
  <2>1. y = x
    BY <1>1, <1>6 DEF Joined, Resolved, Reference
  <2>2. \A i \in 1..N : x[i].parent = IF i <= m THEN s[i].parent ELSE Nobody
    BY <1>2, <1>5, <1>6
  <2>3. Begun(s, x, N, m)
    BY <2>2, <1>2 DEF Begun
  <2> HIDE DEF y
  <2> QED
    BY <2>1, <2>3 DEF N, y
<1>7. CASE p # Nobody
  <2>1. p \in Ids(s) /\ p \notin Below(s, C) /\ p \in Identity
    <3>1. s[m] \in Elements(s)
      BY <1>1 DEF Elements, N
    <3> QED
      BY <3>1, <1>1, <1>7 DEF Forest
  <2>2. y = Linked(x, c, p)
    <3> DEFINE found == Resolved(x, d, ids, d.entities[m].parent)
    <3>1. found = {p}
      BY <1>1, <1>4, <1>7, <2>1 DEF Resolved, Reference
    <3>2. (CHOOSE q \in found : TRUE) = p
      BY <3>1
    <3>3. y = IF found = {} THEN x ELSE Linked(x, ids[m], CHOOSE q \in found : TRUE)
      BY DEF Joined
    <3> HIDE DEF found, y
    <3> QED
      BY <3>1, <3>2, <3>3, <1>1
  <2> HIDE DEF y, c, p
  <2>3. c \in Ids(x) /\ C \subseteq Ids(s)
    <3>1. s[m].guid \in Ids(s)
      BY <1>1 DEF Ids, Elements, N
    <3> QED
      BY <3>1, <1>4 DEF c
  <2>4. Below(x, C) \subseteq Below(s, C)
    <3> DEFINE D == Below(s, C)
    <3> HIDE DEF C
    <3>1. C \subseteq D /\ D \subseteq Ids(s) \cup C /\ Closed(s, D)
      BY BelowIs
    <3>2. Nobody \notin D
      <4>1. Ids(s) \subseteq Identity
        BY <1>1 DEF Ids, Elements, N
      <4> QED
        BY <4>1, <3>1, <2>3, NobodyIsNone
    <3> HIDE DEF D
    <3>3. Closed(x, D)
      <4> SUFFICES ASSUME NEW i \in 1..N, x[i].parent \in D  PROVE  x[i].guid \in D
        BY <1>2 DEF Closed, Elements
      <4>1. x[i].parent = s[i].parent /\ x[i].guid = s[i].guid
        BY <3>2, <1>2
      <4>2. s[i] \in Elements(s)
        BY DEF Elements, N
      <4> QED
        BY <4>1, <4>2, <3>1 DEF Closed
    <3>4. Below(x, C) \subseteq D
      BY <3>1, <3>3, BelowIs
    <3> QED
      BY <3>4 DEF D
  <2>5. p \notin Below(x, {c})
    BY <2>1, <2>4
  <2>6. /\ y \in Seq(Bone) /\ Relinked(x, y)
        /\ At(x, c) \in 1..Len(x) /\ x[At(x, c)].guid = c
        /\ Reparented(x, y, c, p)
    BY <2>1, <2>2, <2>3, <1>2, BonesLinkable, LinkedIs
  <2>7. At(x, c) = m
    BY <2>6, <1>1, <1>2, <1>3 DEF c
  <2>8. \A i \in 1..N : y[i].parent = IF i = m THEN p ELSE x[i].parent
    BY <2>5, <2>6, <2>7, <1>2 DEF Reparented
  <2>9. Len(y) = N /\ \A i \in 1..N : y[i].guid = s[i].guid /\ y[i].name = s[i].name
    BY <2>6, <1>2 DEF Relinked
  <2>10. \A i \in 1..N : y[i].parent = IF i <= m THEN s[i].parent ELSE Nobody
    BY <2>8, <1>2, <1>5 DEF p
  <2> QED
    BY <2>6, <2>9, <2>10 DEF Begun, N, y
<1> QED
  BY <1>6, <1>7

\* A saved scene is the skeleton of its document.
LEMMA SavedSkeleton ==
  ASSUME NEW d, NEW s, Tells(d, s), Forest(s), DOMAIN s = 1..Len(s)
  PROVE  Shaped(s, Skeleton(d, GuidsOf(d)))
<1> DEFINE ids == GuidsOf(d)
           N == Len(d.entities)
           b == Roots(d, ids)[N]
           h == Second(b, d, ids)
           P == {n \in 0..N : Begun(s, h[n], Len(s), n)}
<1>1. /\ N = Len(s) /\ N \in Nat /\ GivenTo(d, ids) /\ DOMAIN ids = 1..N
      /\ \A i \in DOMAIN ids : ids[i] \in Identity
  BY DEF Tells, GivenTo
<1>2. b \in Seq(Bone) /\ Begun(s, b, Len(s), 0)
  <2>1. Distinct(s)
    BY DEF Forest, Distinct
  <2>2. Begun(s, b, Len(s), 0)
    BY <2>1, <1>1, BegunRoots
  <2> QED
    BY <2>2 DEF Begun
<1> HIDE DEF b
<1>3. /\ SecondPass(b, d, ids) = h[N] /\ h[0] = b
      /\ \A n \in 1..N : h[n] = IF n \notin DOMAIN ids THEN h[n - 1] ELSE Joined(h[n - 1], d, ids, n)
  BY <1>1, <1>2, BonesLinkable, SecondIs
<1> HIDE DEF h
<1>4. 0 \in P
  BY <1>1, <1>2, <1>3
<1>5. ASSUME NEW n \in 0..(N - 1), n \in P  PROVE  n + 1 \in P
  <2>1. n + 1 \in 1..N /\ n + 1 - 1 = n /\ n + 1 \in 0..N
    BY <1>1
  <2>2. h[n + 1] = Joined(h[n], d, ids, n + 1)
    BY <2>1, <1>1, <1>3
  <2>3. Begun(s, Joined(h[n], d, ids, n + 1), Len(s), n + 1)
    BY <1>1, <1>5, BegunNext
  <2> QED
    BY <2>1, <2>2, <2>3
<1>6. N \in P
  <2> HIDE DEF P, N
  <2>1. 0..N \subseteq P
    BY <1>1, <1>4, <1>5, Induction
  <2> QED
    BY <2>1, <1>1
<1>7. h[N] \in Seq(Bone) /\ Len(h[N]) = Len(s) /\ DOMAIN h[N] = 1..Len(s)
      /\ \A i \in 1..Len(s) : /\ h[N][i].guid = s[i].guid /\ h[N][i].name = s[i].name
                              /\ h[N][i].parent = s[i].parent
  BY <1>1, <1>6 DEF Begun
<1>8. Skeleton(d, ids) = h[N]
  BY <1>3 DEF Skeleton, b
<1> QED
  BY <1>7, <1>8 DEF Shaped

LEMMA ShapedTrans ==
  ASSUME NEW s, NEW t, NEW u, Shaped(s, t), Shaped(t, u)
  PROVE  Shaped(s, u)
BY DEF Shaped

LEMMA ShapedBack ==
  ASSUME NEW s, NEW t, Shaped(s, t)
  PROVE  Shaped(t, s)
BY DEF Shaped

\* The document of a scene, loaded: the same entities with the same links, and
\* in each what is read of what was written of it.
LEMMA ReloadedIs ==
  ASSUME GameplayType, NEW s, Sane(s)
  PROVE  LET t == Loaded(Saved(s))
         IN  /\ Sane(t) /\ Shaped(s, t)
             /\ \A k \in 1..Len(s) : Exact(t[k], Components(s[k]))
<1> DEFINE d == Saved(s)
           ids == GuidsOf(d)
           t == SecondPass(FirstPass(d, ids), d, ids)
<1>1. Tells(d, s) /\ Whole(d) /\ d \in Docs
  BY SavedIs
<1>2. Given(d) = ids
  <2>1. \A i \in Accepted(d) : d.entities[i].guid # Unwritten
    BY <1>1 DEF Whole, Accepted
  <2> QED
    BY <2>1 DEF Given, GuidsOf
<1>3. Loaded(Saved(s)) = t
  BY <1>2 DEF Loaded
<1>4. GivenTo(d, ids) /\ Forest(s) /\ Distinct(s) /\ DOMAIN s = 1..Len(s)
  <2>1. s \in Seq(EntitySet) /\ Forest(s) /\ GivenTo(d, ids)
    BY <1>1 DEF Tells, Sane
  <2>2. DOMAIN s = 1..Len(s)
    BY <2>1
  <2> QED
    BY <2>1, <2>2 DEF Forest, Distinct
<1> HIDE DEF d
<1>5. Shaped(s, Skeleton(d, ids))
  BY <1>1, <1>4, SavedSkeleton
<1>6. /\ t \in Seq(EntitySet) /\ Forest(t) /\ Shaped(Skeleton(d, ids), t)
      /\ \A k \in 1..Len(t) : Proper(t[k], gameplay) /\ Exact(t[k], Contents(d, ids, t[k].guid))
  BY <1>4, PassesAre
<1> HIDE DEF t
<1>7. Shaped(s, t)
  BY <1>5, <1>6, ShapedTrans
<1>8. ASSUME NEW k \in 1..Len(s)  PROVE  Exact(t[k], Components(s[k]))
  <2>1. k \in 1..Len(t) /\ t[k].guid = s[k].guid
    BY <1>7 DEF Shaped
  <2>2. Contents(d, ids, s[k].guid) = Components(s[k])
    BY <1>1, <1>4, SavedContents
  <2> QED
    BY <2>1, <2>2, <1>6
<1> QED
  BY <1>3, <1>6, <1>7, <1>8 DEF Sane, d

-----------------------------------------------------------------------------
(* Entities that stand for the same components.                             *)

\* The components P as an entity has them while the process knows g: attached,
\* or as text.
Represents(e, g, P) ==
    /\ DOMAIN e.comps \subseteq Intrinsic \cup TypesIn(P)
    /\ \A t \in DOMAIN e.comps :
          e.comps[t] = IF t \in TypesIn(P) THEN ReadValue(g, P, t) ELSE Construct(DefOf(g, t))
    /\ Without(e.kept, DOMAIN e.comps) = Without(P, DOMAIN e.comps \cup Excluded)

LEMMA ComponentsRepresent ==
  ASSUME GameplayType, NEW e, Proper(e, gameplay)
  PROVE  Represents(e, gameplay, Components(e))
BY ComponentsIs DEF Represents

LEMMA ExactRepresents ==
  ASSUME GameplayType, gameplay # Forgotten, NEW e, NEW P \in Seq(PartSet), Exact(e, P)
  PROVE  Represents(e, gameplay, P)
<1> DEFINE D == DOMAIN e.comps
           K == Known \cup Excluded
           X == D \cup Excluded
<1>1. /\ D = Intrinsic \cup (TypesIn(P) \cap LiveIn(gameplay))
      /\ e.kept = Without(P, K)
      /\ \A t \in D : e.comps[t] = IF t \in TypesIn(P) THEN ReadValue(gameplay, P, t)
                                   ELSE Construct(DefOf(gameplay, t))
  BY DEF Exact
<1>2. Known = LiveIn(gameplay)
  <2>1. gameplay = NoType \/ gameplay \in Builds
    BY DEF GameplayType
  <2>2. NoType \notin Builds
    BY TypesAssumption
  <2> QED
    BY <2>1, <2>2, TypesAre DEF LiveIn
<1>3. Intrinsic \subseteq LiveIn(gameplay)
  BY TypesAssumption DEF LiveIn
<1> HIDE DEF D
<1>4. Without(e.kept, D) = Without(P, X)
  <2>1. TypesIn(e.kept) = TypesIn(P) \ K /\ e.kept \in Seq(PartSet)
    BY <1>1, WithoutType
  <2>2. TypesIn(e.kept) \cap D = {}
    BY <2>1, <1>1, <1>2, <1>3
  <2>3. Without(e.kept, D) = e.kept
    BY <2>1, <2>2, WithoutNone
  <2>4. \A t \in TypesIn(P) : t \in K <=> t \in X
    BY <1>1, <1>2, <1>3
  <2> HIDE DEF K, X
  <2>5. Without(P, K) = Without(P, X)
    BY <2>4, WithoutSame
  <2> QED
    BY <2>3, <2>5, <1>1
<1> QED
  BY <1>1, <1>4 DEF Represents, D

ContentOf(e) ==
    LET settled == Materialised(e).comps
    IN  [guid |-> e.guid, name |-> e.name, parent |-> e.parent,
         values |-> [t \in DOMAIN settled |->
                        IF t \in DOMAIN e.comps THEN e.comps[t] ELSE settled[t]],
         texts |-> Without(e.kept, Live)]

\* The content of an entity is that of the components it stands for.
LEMMA ContentOfIs ==
  ASSUME GameplayType, gameplay # Forgotten, NEW e, Proper(e, gameplay),
         NEW P \in Seq(PartSet), Represents(e, gameplay, P)
  PROVE  ContentOf(e) =
           [guid |-> e.guid, name |-> e.name, parent |-> e.parent,
            values |-> [t \in Intrinsic \cup (TypesIn(P) \cap LiveIn(gameplay)) |->
                          IF t \in TypesIn(P) THEN ReadValue(gameplay, P, t)
                          ELSE Construct(DefOf(gameplay, t))],
            texts |-> Without(P, LiveIn(gameplay) \cup Excluded)]
<1> DEFINE D == DOMAIN e.comps
           L == LiveIn(gameplay)
           X == D \cup Excluded
           cs == Of(e.kept, L)
           r == ReadComponents(e, cs)
           m == Materialised(e)
           T == Intrinsic \cup (TypesIn(P) \cap L)
<1>1. e \in EntitySet /\ e.kept \in Seq(PartSet) /\ Intrinsic \subseteq D /\ D \subseteq L
  BY DEF Proper, EntitySet
<1>2. L \cap Excluded = {} /\ Live = L
  BY TypesAre, TypesAssumption DEF LiveIn
<1>3. /\ D \subseteq Intrinsic \cup TypesIn(P)
      /\ \A t \in D : e.comps[t] = IF t \in TypesIn(P) THEN ReadValue(gameplay, P, t)
                                   ELSE Construct(DefOf(gameplay, t))
      /\ Without(e.kept, D) = Without(P, X)
  BY DEF Represents
<1> HIDE DEF L, D
<1>4. cs \in Seq(PartSet) /\ TypesIn(cs) = TypesIn(e.kept) \cap L
  BY <1>1, OfType, TypesOf
<1> HIDE DEF cs
<1>5. /\ r \in EntitySet
      /\ DOMAIN r.comps = D \cup (TypesIn(cs) \cap L)
      /\ \A t \in TypesIn(cs) \cap L : r.comps[t] = ReadValue(gameplay, cs, t)
  BY <1>1, <1>4, ReadComponentsIs DEF L, D
<1> HIDE DEF r
<1>6. m.comps = r.comps
  BY <1>2, <1>5 DEF Materialised, EntitySet, r, cs
<1> HIDE DEF m
<1>7. TypesIn(e.kept) \ D = TypesIn(P) \ X
  BY <1>1, <1>3, WithoutType
<1>8. D \cup (TypesIn(cs) \cap L) = T
  BY <1>1, <1>2, <1>3, <1>4, <1>7
<1>9. ASSUME NEW t \in T, t \notin D
      PROVE  t \in TypesIn(P) /\ r.comps[t] = ReadValue(gameplay, P, t)
  <2> DEFINE U == {t}
  <2>1. t \in TypesIn(cs) \cap L /\ t \in TypesIn(P) /\ t \notin X
    BY <1>1, <1>2, <1>4, <1>7, <1>8, <1>9
  <2>2. Of(cs, U) = Of(P, U)
    <3>1. cs = Of(e.kept, L) /\ t \in L
      BY <2>1 DEF cs
    <3>2. Of(Of(e.kept, L), U) = Of(e.kept, L \cap U) /\ L \cap U = U
      <4>1. L \cap U = U
        BY <3>1
      <4> HIDE DEF U
      <4> QED
        BY <4>1, <1>1, OfOf
    <3>3. Of(Without(e.kept, D), U) = Of(e.kept, U)
      BY <1>1, <1>9, OfWithout
    <3>4. Of(Without(P, X), U) = Of(P, U)
      <4> HIDE DEF X
      <4> QED
        BY <2>1, OfWithout
    <3> QED
      BY <3>1, <3>2, <3>3, <3>4, <1>3
  <2>3. ReadValue(gameplay, cs, t) = ReadValue(gameplay, P, t)
    BY <2>2 DEF ReadValue
  <2> QED
    BY <2>1, <2>3, <1>5
<1>10. Without(e.kept, L) = Without(P, L \cup Excluded)
  <2>1. Without(Without(e.kept, D), L) = Without(e.kept, D \cup L)
    BY <1>1, WithoutTwice
  <2>2. Without(Without(P, X), L) = Without(P, X \cup L)
    <3> HIDE DEF X
    <3> QED
      BY WithoutTwice
  <2>3. D \cup L = L /\ X \cup L = L \cup Excluded
    BY <1>1
  <2> QED
    BY <2>1, <2>2, <2>3, <1>3
<1> HIDE DEF T
<1>11. DOMAIN m.comps = T
  BY <1>5, <1>6, <1>8
<1> DEFINE a == [t \in T |-> IF t \in D THEN e.comps[t] ELSE r.comps[t]]
           b == [t \in T |-> IF t \in TypesIn(P) THEN ReadValue(gameplay, P, t) ELSE Construct(DefOf(gameplay, t))]
<1>12. ContentOf(e) = [guid |-> e.guid, name |-> e.name, parent |-> e.parent,
                       values |-> a, texts |-> Without(e.kept, L)]
  BY <1>2, <1>6, <1>11 DEF ContentOf, D, m
<1>13. a = b
  BY <1>3, <1>9
<1> HIDE DEF a, b
<1> QED
  BY <1>10, <1>12, <1>13 DEF b, T, L

\* Scenes alike but for what is attached and what is text.
LEMMA ContentsAgree ==
  ASSUME GameplayType, gameplay # Forgotten, NEW s, Sane(s), NEW t, Sane(t), Shaped(s, t), NEW C,
         \A k \in 1..Len(s) : /\ C[k] \in Seq(PartSet)
                              /\ Represents(s[k], gameplay, C[k]) /\ Represents(t[k], gameplay, C[k])
  PROVE  Content(t) = Content(s)
<1>1. /\ DOMAIN s = 1..Len(s) /\ DOMAIN t = 1..Len(s) /\ Len(t) = Len(s)
      /\ \A k \in 1..Len(s) :
           t[k].guid = s[k].guid /\ t[k].name = s[k].name /\ t[k].parent = s[k].parent
  BY DEF Shaped
<1>2. ASSUME NEW k \in 1..Len(s)  PROVE  ContentOf(t[k]) = ContentOf(s[k])
  <2> DEFINE a == s[k]
             b == t[k]
             P == C[k]
  <2>1. /\ Proper(a, gameplay) /\ Proper(b, gameplay) /\ P \in Seq(PartSet)
        /\ Represents(a, gameplay, P) /\ Represents(b, gameplay, P)
        /\ b.guid = a.guid /\ b.name = a.name /\ b.parent = a.parent
    BY <1>1 DEF Sane
  <2> HIDE DEF a, b, P
  <2>2. ContentOf(a) =
           [guid |-> a.guid, name |-> a.name, parent |-> a.parent,
            values |-> [u \in Intrinsic \cup (TypesIn(P) \cap LiveIn(gameplay)) |->
                          IF u \in TypesIn(P) THEN ReadValue(gameplay, P, u)
                          ELSE Construct(DefOf(gameplay, u))],
            texts |-> Without(P, LiveIn(gameplay) \cup Excluded)]
    BY <2>1, ContentOfIs
  <2>3. ContentOf(b) =
           [guid |-> b.guid, name |-> b.name, parent |-> b.parent,
            values |-> [u \in Intrinsic \cup (TypesIn(P) \cap LiveIn(gameplay)) |->
                          IF u \in TypesIn(P) THEN ReadValue(gameplay, P, u)
                          ELSE Construct(DefOf(gameplay, u))],
            texts |-> Without(P, LiveIn(gameplay) \cup Excluded)]
    BY <2>1, ContentOfIs
  <2>4. ContentOf(b) = ContentOf(a)
    BY <2>1, <2>2, <2>3
  <2> QED
    BY <2>4 DEF a, b
<1>3. Content(s) = [k \in 1..Len(s) |-> ContentOf(s[k])]
  BY <1>1 DEF Content, ContentOf
<1>4. Content(t) = [k \in 1..Len(s) |-> ContentOf(t[k])]
  BY <1>1 DEF Content, ContentOf
<1> QED
  BY <1>2, <1>3, <1>4

LEMMA SameEntity ==
  ASSUME NEW a \in EntitySet, NEW b \in EntitySet,
         a.guid = b.guid, a.name = b.name, a.parent = b.parent, a.kept = b.kept,
         DOMAIN a.comps = DOMAIN b.comps, \A t \in DOMAIN a.comps : a.comps[t] = b.comps[t]
  PROVE  a = b
<1>1. a.comps \in Comps /\ b.comps \in Comps
  BY DEF EntitySet
<1>2. a.comps = b.comps
  <2> DEFINE f == a.comps
             g == b.comps
  <2>1. /\ f \in [DOMAIN f -> Value] /\ g \in [DOMAIN g -> Value]
        /\ DOMAIN f = DOMAIN g /\ \A t \in DOMAIN f : f[t] = g[t]
    BY <1>1, CompsIs
  <2> HIDE DEF f, g
  <2>2. f = g
    BY <2>1
  <2> QED
    BY <2>2 DEF f, g
<1> QED
  BY <1>2 DEF EntitySet

\* An entity whose text is all of types that are not there is what is read of
\* what is written of it.
LEMMA SettledEntity ==
  ASSUME GameplayType, NEW a, Proper(a, gameplay), TypesIn(a.kept) \cap Known = {},
         NEW b, Proper(b, gameplay), Exact(b, Components(a)),
         b.guid = a.guid, b.name = a.name, b.parent = a.parent
  PROVE  b = a
<1> DEFINE D == DOMAIN a.comps
           cs == Components(a)
           K == Known \cup Excluded
           X == D \cup Excluded
<1>1. /\ cs \in Seq(PartSet) /\ TypesIn(cs) = D \cup TypesIn(a.kept)
      /\ \A t \in D : ReadValue(gameplay, cs, t) = a.comps[t]
      /\ Without(cs, X) = Without(a.kept, D)
  BY ComponentsIs
<1>2. /\ Intrinsic \subseteq D /\ D \subseteq LiveIn(gameplay) /\ LiveIn(gameplay) \subseteq Known
      /\ a \in EntitySet /\ b \in EntitySet /\ a.kept \in Seq(PartSet)
      /\ TypesIn(a.kept) \cap Excluded = {}
  BY TypesAre, TypesInIs DEF Proper, EntitySet, Live
<1>3. /\ DOMAIN b.comps = Intrinsic \cup (TypesIn(cs) \cap LiveIn(gameplay))
      /\ \A t \in DOMAIN b.comps :
            b.comps[t] = IF t \in TypesIn(cs) THEN ReadValue(gameplay, cs, t)
                         ELSE Construct(DefOf(gameplay, t))
      /\ b.kept = Without(cs, K)
  BY DEF Exact
<1> HIDE DEF cs, D
<1>4. DOMAIN b.comps = D
  BY <1>1, <1>2, <1>3
<1>5. \A t \in D : b.comps[t] = a.comps[t]
  BY <1>1, <1>3, <1>4
<1>6. b.kept = a.kept
  <2>1. \A t \in TypesIn(cs) : t \in K <=> t \in X
    BY <1>1, <1>2
  <2> HIDE DEF K, X
  <2>2. Without(cs, K) = Without(cs, X)
    BY <2>1, <1>1, WithoutSame
  <2>3. TypesIn(a.kept) \cap D = {}
    BY <1>2
  <2>4. Without(a.kept, D) = a.kept
    BY <2>3, <1>2, WithoutNone
  <2> QED
    BY <2>2, <2>4, <1>1, <1>3
<1>7. DOMAIN a.comps = D
  BY DEF D
<1> QED
  BY <1>2, <1>4, <1>5, <1>6, <1>7, SameEntity

\* Saving a scene of the process loses nothing of it.
LEMMA RoundTrips ==
  ASSUME GameplayType, Sane(scene)
  PROVE  SaveRoundTrips
<1> SUFFICES ASSUME gameplay # Forgotten
             PROVE  /\ Content(Loaded(Saved(scene))) = Content(scene)
                    /\ Saved(Loaded(Saved(Loaded(Saved(scene))))) = Saved(Loaded(Saved(scene)))
  BY DEF SaveRoundTrips
<1> DEFINE s == scene
           t == Loaded(Saved(s))
           u == Loaded(Saved(t))
           C == [k \in 1..Len(s) |-> Components(s[k])]
<1>1. /\ Sane(t) /\ Shaped(s, t)
      /\ \A k \in 1..Len(s) : Exact(t[k], Components(s[k]))
  BY ReloadedIs
<1> HIDE DEF t
<1>2. /\ Sane(u) /\ Shaped(t, u)
      /\ \A k \in 1..Len(t) : Exact(u[k], Components(t[k]))
  BY <1>1, ReloadedIs
<1> HIDE DEF u
<1>3. \A k \in 1..Len(s) : Proper(s[k], gameplay) /\ Components(s[k]) \in Seq(PartSet)
  <2> SUFFICES ASSUME NEW k \in 1..Len(s)
               PROVE  Proper(s[k], gameplay) /\ Components(s[k]) \in Seq(PartSet)
    OBVIOUS
  <2>1. Proper(s[k], gameplay)
    BY DEF Sane
  <2> QED
    BY <2>1, ComponentsIs
<1>4. Content(t) = Content(s)
  <2>1. \A k \in 1..Len(s) : /\ C[k] \in Seq(PartSet)
                             /\ Represents(s[k], gameplay, C[k]) /\ Represents(t[k], gameplay, C[k])
    <3> SUFFICES ASSUME NEW k \in 1..Len(s)
                 PROVE  /\ Components(s[k]) \in Seq(PartSet)
                        /\ Represents(s[k], gameplay, Components(s[k]))
                        /\ Represents(t[k], gameplay, Components(s[k]))
      OBVIOUS
    <3>1. Represents(s[k], gameplay, Components(s[k]))
      BY <1>3, ComponentsRepresent
    <3>2. Represents(t[k], gameplay, Components(s[k]))
      BY <1>1, <1>3, ExactRepresents
    <3> QED
      BY <3>1, <3>2, <1>3
  <2> HIDE DEF C
  <2> QED
    BY <2>1, <1>1, ContentsAgree
<1>5. u = t
  <2>1. t \in Seq(EntitySet) /\ u \in Seq(EntitySet) /\ Len(u) = Len(t) /\ Len(t) = Len(s)
    BY <1>1, <1>2 DEF Sane, Shaped
  <2>2. ASSUME NEW k \in 1..Len(t)  PROVE  u[k] = t[k]
    <3> DEFINE a == t[k]
               b == u[k]
               P == Components(s[k])
               K == Known \cup Excluded
    <3>1. Proper(a, gameplay) /\ Proper(b, gameplay) /\ Exact(b, Components(a))
      BY <2>1, <1>1, <1>2 DEF Sane
    <3>2. b.guid = a.guid /\ b.name = a.name /\ b.parent = a.parent
      BY <1>2 DEF Shaped
    <3>3. a.kept = Without(P, K) /\ P \in Seq(PartSet)
      BY <2>1, <1>1, <1>3 DEF Exact
    <3> HIDE DEF a, b, P
    <3>4. TypesIn(a.kept) \cap Known = {}
      BY <3>3, WithoutType
    <3>5. b = a
      BY <3>1, <3>2, <3>4, SettledEntity
    <3> QED
      BY <3>5 DEF a, b
  <2> QED
    BY <2>1, <2>2, SeqEqual
<1> QED
  BY <1>4, <1>5 DEF t, u

-----------------------------------------------------------------------------
(* The guids a load gives.                                                  *)

LEMMA FreshIs ==
  ASSUME NEW d \in Docs, NEW n \in 0..Len(d.entities)
  PROVE  /\ Fresh(d, n) \in Nat /\ Fresh(d, n) <= Unwrittens(d)
         /\ n \in DOMAIN d.entities /\ d.entities[n].guid = Unwritten => Fresh(d, n) >= 1
<1> DEFINE N == Len(d.entities)
           F(k) == {j \in 1..k : d.entities[j].guid = Unwritten}
           A == F(n)
           B == F(N)
<1>1. N \in Nat
  BY DocLength
<1>2. A \subseteq B /\ B \subseteq 1..N
  BY <1>1
<1>3. Fresh(d, n) = Cardinality(A) /\ Unwrittens(d) = Cardinality(B)
  BY DEF Fresh, Unwrittens
<1>4. n \in DOMAIN d.entities /\ d.entities[n].guid = Unwritten => n \in A
  BY <1>1, DocLength
<1> HIDE DEF A, B
<1>5. IsFiniteSet(B)
  <2>1. IsFiniteSet(1..N) /\ B \in SUBSET (1..N)
    BY <1>1, <1>2, FS_Interval
  <2> QED
    BY <2>1, FS_Subset
<1>6. IsFiniteSet(A) /\ Cardinality(A) <= Cardinality(B)
  BY <1>2, <1>5, FS_Subset
<1>7. Cardinality(A) \in Nat /\ Cardinality(B) \in Nat
  BY <1>5, <1>6, FS_CardinalityType
<1>8. n \in A => Cardinality(A) >= 1
  <2>1. Cardinality(A) = 0 <=> A = {}
    BY <1>6, FS_EmptySet
  <2> QED
    BY <2>1, <1>7
<1> QED
  BY <1>3, <1>4, <1>6, <1>7, <1>8

\* A document whose guids are among those there have been.
DocFor(d, m) ==
    /\ d \in Docs
    /\ \A i \in DOMAIN d.entities : d.entities[i].guid \in {Unwritten, Mistyped} \cup 1..m

\* A record keeps the guid it has written; another gets one there never was.
LEMMA GivenIs ==
  ASSUME minted \in Nat, NEW d, DocFor(d, minted)
  PROVE  /\ Unwrittens(d) \in Nat /\ DOMAIN Given(d) = Accepted(d)
         /\ \A i \in Accepted(d) :
              /\ i \in 1..Len(d.entities) /\ i \in DOMAIN d.entities
              /\ Given(d)[i] \in 1..(minted + Unwrittens(d))
              /\ d.entities[i].guid # Unwritten =>
                   Given(d)[i] = d.entities[i].guid /\ d.entities[i].guid \in 1..minted
              /\ d.entities[i].guid = Unwritten => Given(d)[i] > minted
         /\ minted + Unwrittens(d) <= MaxGuids => GivenTo(d, Given(d))
<1>1. d \in Docs /\ Len(d.entities) \in Nat /\ DOMAIN d.entities = 1..Len(d.entities)
  BY DocLength DEF DocFor
<1>2. Unwrittens(d) \in Nat
  <2>1. Len(d.entities) \in 0..Len(d.entities)
    BY <1>1
  <2> QED
    BY <2>1, <1>1, FreshIs DEF Unwrittens
<1>3. DOMAIN Given(d) = Accepted(d)
  BY DEF Given
<1>4. ASSUME NEW i \in Accepted(d)
      PROVE  /\ i \in 1..Len(d.entities)
             /\ Given(d)[i] \in 1..(minted + Unwrittens(d))
             /\ d.entities[i].guid # Unwritten =>
                  Given(d)[i] = d.entities[i].guid /\ d.entities[i].guid \in 1..minted
             /\ d.entities[i].guid = Unwritten => Given(d)[i] > minted
  <2>1. i \in 1..Len(d.entities) /\ d.entities[i].guid # Mistyped
    BY <1>1 DEF Accepted
  <2>2. Given(d)[i] = IF d.entities[i].guid = Unwritten THEN minted + Fresh(d, i) ELSE d.entities[i].guid
    BY DEF Given
  <2>3. i \in 0..Len(d.entities)
    BY <2>1, <1>1
  <2>4. /\ Fresh(d, i) \in Nat /\ Fresh(d, i) <= Unwrittens(d)
        /\ d.entities[i].guid = Unwritten => Fresh(d, i) >= 1
    BY <2>1, <2>3, <1>1, FreshIs
  <2>5. d.entities[i].guid # Unwritten => d.entities[i].guid \in 1..minted
    BY <2>1, <1>1 DEF DocFor
  <2> QED
    BY <2>1, <2>2, <2>4, <2>5, <1>2
<1>5. ASSUME minted + Unwrittens(d) <= MaxGuids  PROVE  GivenTo(d, Given(d))
  <2>1. \A i \in Accepted(d) : Given(d)[i] \in Identity
    BY <1>2, <1>4, <1>5, BoundsAssumption DEF Identity
  <2> QED
    BY <2>1, <1>1, <1>3 DEF GivenTo
<1> QED
  BY <1>1, <1>2, <1>3, <1>4, <1>5

\* A document without fresh guids gives the ones it has written.
LEMMA WholeGiven ==
  ASSUME NEW d, Whole(d)
  PROVE  Given(d) = GuidsOf(d)
<1>1. \A i \in Accepted(d) : d.entities[i].guid # Unwritten
  BY DEF Whole, Accepted
<1> QED
  BY <1>1 DEF Given, GuidsOf

\* What a record carries is gathered for whom it is about.
LEMMA GatheredTypes ==
  ASSUME NEW d, NEW ids, GivenTo(d, ids), NEW i \in DOMAIN ids
  PROVE  TypesIn(d.entities[i].components) \subseteq TypesIn(Contents(d, ids, ids[i]))
<1> DEFINE N == Len(d.entities)
           g == ids[i]
           f == Gathered(d, ids, g)
           T == TypesIn(d.entities[i].components)
           P == {n \in 0..N : i <= n => T \subseteq TypesIn(f[n])}
<1>1. N \in Nat /\ i \in 1..N
  BY DocLength DEF GivenTo, Accepted
<1>2. /\ \A n \in 0..N : f[n] \in Seq(PartSet)
      /\ \A n \in 1..N : f[n] = IF n \in DOMAIN ids /\ ids[n] = g THEN f[n - 1] \o d.entities[n].components
                                ELSE f[n - 1]
  <2> HIDE DEF g
  <2> QED
    BY GatheredIs
<1>3. \A n \in 1..N : d.entities[n].components \in Seq(PartSet)
  BY RecordIs DEF GivenTo
<1> HIDE DEF f, N, T
<1>4. 0 \in P
  BY <1>1
<1>5. ASSUME NEW n \in 0..(N - 1), n \in P, i <= n + 1  PROVE  T \subseteq TypesIn(f[n + 1])
  <2> DEFINE m == n + 1
             cs == d.entities[m].components
  <2>1. m \in 1..N /\ m - 1 = n /\ n \in 0..N
    BY <1>1
  <2>2. f[n] \in Seq(PartSet) /\ cs \in Seq(PartSet)
    BY <2>1, <1>2, <1>3
  <2>3. f[m] = IF m \in DOMAIN ids /\ ids[m] = g THEN f[n] \o cs ELSE f[n]
    BY <2>1, <1>2
  <2>4. TypesIn(f[n] \o cs) = TypesIn(f[n]) \cup TypesIn(cs)
    <3> DEFINE x == f[n]
    <3> HIDE DEF x, cs
    <3> QED
      BY <2>2, TypesConcat DEF x
  <2>5. CASE i = m
    <3>1. f[m] = f[n] \o cs /\ T = TypesIn(cs)
      BY <2>3, <2>5 DEF T
    <3> QED
      BY <3>1, <2>4
  <2>6. CASE i # m
    <3>1. T \subseteq TypesIn(f[n])
      BY <2>1, <2>6, <1>1, <1>5
    <3> QED
      BY <3>1, <2>3, <2>4
  <2> QED
    BY <2>5, <2>6
<1>6. N \in P
  <2>1. \A n \in 0..(N - 1) : n \in P => n + 1 \in P
    BY <1>1, <1>5
  <2> HIDE DEF P
  <2>2. 0..N \subseteq P
    BY <2>1, <1>1, <1>4, Induction
  <2> QED
    BY <2>2, <1>1
<1> QED
  BY <1>1, <1>6 DEF Contents, f, N, T

-----------------------------------------------------------------------------
(* The inductive invariant.                                                 *)

\* A scene that a process which knows g may have.
SaneFor(s, g) ==
    /\ s \in Seq(EntitySet) /\ Forest(s)
    /\ \A k \in 1..Len(s) : Proper(s[k], g)

\* An entity of s has t, attached or as text.
Has(s, g, t) ==
    \E k \in 1..Len(s) : s[k].guid = g /\ t \in DOMAIN s[k].comps \cup TypesIn(s[k].kept)

\* s stands for all that d holds.
Stands(s, g, d) ==
    /\ GivenTo(d, GuidsOf(d)) /\ Shaped(Skeleton(d, GuidsOf(d)), s)
    /\ \A k \in 1..Len(s) : Represents(s[k], g, Contents(d, GuidsOf(d), s[k].guid))

\* s has what d carries, and is what it holds where d has every guid written.
SyncOf(s, g, d) ==
    /\ d \in Docs
    /\ g # Forgotten =>
         /\ \A r \in Elements(d.entities) : r.guid \in Identity =>
              \A t \in TypesIn(r.components) \ Excluded : Has(s, r.guid, t)
         /\ Whole(d) => Stands(s, g, d)

\* c is the cook of s, which was in step with its document.
CookOf(c, s, m) ==
    /\ c.by \in {NoType} \cup Builds
    /\ SaneFor(s, c.by) /\ Ids(s) \subseteq 1..m
    /\ DocFor(c.source, m) /\ SyncOf(s, c.by, c.source)
    /\ c.entities = [k \in 1..Len(s) |->
          [s[k] EXCEPT !.comps = [t \in DOMAIN @ |-> CookProperties(DefOf(c.by, t), @[t])]]]

TypeInv == GameplayType /\ minted \in Authored..MaxGuids
SceneInv == SaneFor(scene, gameplay) /\ Ids(scene) \subseteq 1..minted
FileInv == file # Malformed => DocFor(file, minted)
SyncInv == synced => DocFor(file, minted) /\ SyncOf(scene, gameplay, file)
CookInv == cook \notin {NoCook, Torn} => \E s : CookOf(cook, s, minted)
OwedInv ==
    /\ owed \subseteq Identity \X Kind
    /\ gameplay # Forgotten => \A p \in owed : Has(scene, p[1], p[2])

Inv == TypeInv /\ SceneInv /\ FileInv /\ SyncInv /\ CookInv /\ OwedInv

LEMMA MintedIs ==
  ASSUME TypeInv
  PROVE  minted \in Nat /\ minted >= Authored /\ minted <= MaxGuids /\ MaxGuids \in Nat
BY BoundsAssumption DEF TypeInv

LEMMA SaneIs ==
  ASSUME NEW s
  PROVE  Sane(s) <=> SaneFor(s, gameplay)
BY DEF Sane, SaneFor

LEMMA SaneDistinct ==
  ASSUME NEW s, NEW g, SaneFor(s, g)
  PROVE  /\ Distinct(s) /\ DOMAIN s = 1..Len(s) /\ Len(s) \in Nat
         /\ \A k \in 1..Len(s) : s[k] \in EntitySet /\ s[k] \in Elements(s) /\ s[k].guid \in Ids(s)
         /\ \A i, j \in 1..Len(s) : s[i].guid = s[j].guid => i = j
<1>1. s \in Seq(EntitySet) /\ Forest(s)
  BY DEF SaneFor
<1>2. DOMAIN s = 1..Len(s) /\ Len(s) \in Nat /\ \A k \in 1..Len(s) : s[k] \in EntitySet
  BY <1>1
<1> QED
  BY <1>1, <1>2 DEF Distinct, Forest, Elements, Ids

\* What was given stays given.
LEMMA DocForMore ==
  ASSUME NEW d, NEW m \in Nat, NEW n \in Nat, m <= n, DocFor(d, m)
  PROVE  DocFor(d, n)
BY DEF DocFor

LEMMA CookInvMore ==
  ASSUME TypeInv, CookInv, cook' = cook, minted' \in Nat, minted <= minted'
  PROVE  CookInv'
<1> SUFFICES ASSUME cook \notin {NoCook, Torn}  PROVE  \E s : CookOf(cook, s, minted')
  BY DEF CookInv
<1>1. PICK s : CookOf(cook, s, minted)
  BY DEF CookInv
<1>2. DocFor(cook.source, minted')
  BY <1>1, MintedIs, DocForMore DEF CookOf
<1>3. 1..minted \subseteq 1..minted'
  BY MintedIs
<1>4. CookOf(cook, s, minted')
  BY <1>1, <1>2, <1>3 DEF CookOf
<1> QED
  BY <1>4

-----------------------------------------------------------------------------
(* Saving.                                                                  *)

LEMMA SaveSync ==
  ASSUME TypeInv, SceneInv
  PROVE  DocFor(Saved(scene), minted) /\ SyncOf(scene, gameplay, Saved(scene))
<1> DEFINE d == Saved(scene)
           s == scene
           ids == GuidsOf(d)
<1>1. GameplayType /\ Sane(s) /\ SaneFor(s, gameplay) /\ Ids(s) \subseteq 1..minted
  BY SaneIs DEF TypeInv, SceneInv
<1>2. Tells(d, s) /\ Whole(d) /\ d \in Docs
  BY <1>1, SavedIs
<1>3. /\ Distinct(s) /\ Forest(s) /\ DOMAIN s = 1..Len(s)
      /\ \A k \in 1..Len(s) : s[k].guid \in Ids(s)
  BY <1>1, SaneDistinct DEF SaneFor
<1> HIDE DEF d
<1>4. /\ DOMAIN d.entities = 1..Len(s)
      /\ \A i \in 1..Len(s) : /\ d.entities[i].guid = s[i].guid
                              /\ d.entities[i].components = Components(s[i])
  BY <1>2, DocLength DEF Tells
<1>5. DocFor(d, minted)
  BY <1>1, <1>2, <1>3, <1>4 DEF DocFor
<1>6. ASSUME NEW r \in Elements(d.entities), NEW t \in TypesIn(r.components)
      PROVE  Has(s, r.guid, t)
  <2>1. PICK i \in 1..Len(s) : r = d.entities[i]
    BY <1>4 DEF Elements
  <2>2. Proper(s[i], gameplay)
    BY <1>1 DEF Sane
  <2>3. TypesIn(Components(s[i])) = DOMAIN s[i].comps \cup TypesIn(s[i].kept)
    <3> DEFINE e == s[i]
    <3> HIDE DEF e
    <3>1. TypesIn(Components(e)) = DOMAIN e.comps \cup TypesIn(e.kept)
      BY <2>2, <1>1, ComponentsIs DEF e
    <3> QED
      BY <3>1 DEF e
  <2> QED
    BY <2>1, <2>3, <1>4 DEF Has
<1>7. Stands(s, gameplay, d)
  <2>1. GivenTo(d, ids) /\ Shaped(Skeleton(d, ids), s)
    BY <1>2, <1>3, SavedSkeleton, ShapedBack DEF Tells
  <2>2. ASSUME NEW k \in 1..Len(s)  PROVE  Represents(s[k], gameplay, Contents(d, ids, s[k].guid))
    <3>1. Proper(s[k], gameplay)
      BY <1>1 DEF Sane
    <3>2. Represents(s[k], gameplay, Components(s[k]))
      BY <3>1, <1>1, ComponentsRepresent
    <3>3. Contents(d, ids, s[k].guid) = Components(s[k])
      BY <1>2, <1>3, SavedContents
    <3> QED
      BY <3>2, <3>3
  <2> QED
    BY <2>1, <2>2 DEF Stands
<1> QED
  BY <1>2, <1>5, <1>6, <1>7 DEF SyncOf, d

LEMMA SaveInv ==
  ASSUME Inv, Save
  PROVE  Inv'
<1>1. TypeInv /\ SceneInv
  BY DEF Inv
<1>2. /\ file' = Saved(scene) /\ synced' = TRUE
      /\ gameplay' = gameplay /\ scene' = scene /\ cook' = cook /\ minted' = minted /\ owed' = owed
  BY DEF Save
<1>3. TypeInv' /\ SceneInv' /\ CookInv' /\ OwedInv'
  BY <1>2 DEF Inv, TypeInv, GameplayType, SceneInv, CookInv, OwedInv
<1>4. FileInv' /\ SyncInv'
  BY <1>1, <1>2, SaveSync DEF FileInv, SyncInv
<1> QED
  BY <1>3, <1>4 DEF Inv

-----------------------------------------------------------------------------
(* Loading the document.                                                    *)

LEMMA ExactHas ==
  ASSUME GameplayType, gameplay # Forgotten, NEW e, NEW P \in Seq(PartSet), Exact(e, P),
         NEW t \in TypesIn(P) \ Excluded
  PROVE  t \in DOMAIN e.comps \cup TypesIn(e.kept)
<1>1. Known = LiveIn(gameplay)
  <2>1. gameplay = NoType \/ gameplay \in Builds
    BY DEF GameplayType
  <2>2. NoType \notin Builds
    BY TypesAssumption
  <2> QED
    BY <2>1, <2>2, TypesAre DEF LiveIn
<1> DEFINE K == Known \cup Excluded
<1>2. TypesIn(Without(P, K)) = TypesIn(P) \ K
  <2> HIDE DEF K
  <2> QED
    BY WithoutType
<1> QED
  BY <1>1, <1>2 DEF Exact

LEMMA CarriedTyped ==
  ASSUME NEW d, GivenTo(d, Given(d))
  PROVE  Carried(d) \subseteq Identity \X Kind
<1> SUFFICES ASSUME NEW i \in Accepted(d), NEW t \in TypesIn(d.entities[i].components)
             PROVE  Given(d)[i] \in Identity /\ t \in Kind
  BY DEF Carried
<1>1. i \in 1..Len(d.entities) /\ Given(d)[i] \in Identity
  BY DocLength DEF GivenTo, Accepted
<1>2. d.entities[i].components \in Seq(PartSet)
  BY <1>1, RecordIs DEF GivenTo
<1>3. Elements(d.entities[i].components) \subseteq PartSet
  BY <1>2, ElementsIn
<1> QED
  BY <1>1, <1>3, TypesInIs DEF PartSet

LEMMA LoadedIs ==
  ASSUME TypeInv, NEW d, DocFor(d, minted), minted + Unwrittens(d) <= MaxGuids
  PROVE  LET t == Loaded(d)
         IN  /\ SaneFor(t, gameplay) /\ Ids(t) \subseteq 1..(minted + Unwrittens(d))
             /\ SyncOf(t, gameplay, d)
             /\ gameplay # Forgotten => \A p \in Carried(d) : Has(t, p[1], p[2])
<1> DEFINE ids == Given(d)
           t == Loaded(d)
<1>1. GameplayType /\ minted \in Nat
  BY MintedIs DEF TypeInv
<1>2. /\ Unwrittens(d) \in Nat /\ DOMAIN ids = Accepted(d) /\ GivenTo(d, ids)
      /\ \A i \in Accepted(d) :
           /\ i \in DOMAIN d.entities
           /\ ids[i] \in 1..(minted + Unwrittens(d))
           /\ d.entities[i].guid # Unwritten => ids[i] = d.entities[i].guid
  BY <1>1, GivenIs
<1>3. t = SecondPass(FirstPass(d, ids), d, ids)
  BY DEF Loaded
<1> HIDE DEF ids, t
<1>4. /\ t \in Seq(EntitySet) /\ Forest(t) /\ Shaped(Skeleton(d, ids), t)
      /\ Ids(t) = {ids[i] : i \in DOMAIN ids}
      /\ \A k \in 1..Len(t) : Proper(t[k], gameplay) /\ Exact(t[k], Contents(d, ids, t[k].guid))
  BY <1>1, <1>2, <1>3, PassesAre
<1>5. SaneFor(t, gameplay) /\ Ids(t) \subseteq 1..(minted + Unwrittens(d))
  BY <1>2, <1>4 DEF SaneFor
<1>6. ASSUME gameplay # Forgotten, NEW i \in DOMAIN ids,
             NEW y \in TypesIn(d.entities[i].components) \ Excluded
      PROVE  Has(t, ids[i], y)
  <2>1. PICK k \in 1..Len(t) : t[k].guid = ids[i]
    <3>1. ids[i] \in Ids(t) /\ DOMAIN t = 1..Len(t)
      BY <1>4
    <3> QED
      BY <3>1 DEF Ids, Elements
  <2> DEFINE P == Contents(d, ids, ids[i])
             e == t[k]
  <2>2. P \in Seq(PartSet)
    <3> DEFINE g == ids[i]
    <3> HIDE DEF g
    <3>1. Contents(d, ids, g) \in Seq(PartSet)
      BY <1>2, ContentsTyped
    <3> QED
      BY <3>1 DEF g
  <2>3. y \in TypesIn(P) \ Excluded
    BY <1>2, <1>6, GatheredTypes
  <2>4. Exact(e, P)
    BY <2>1, <1>4
  <2> HIDE DEF P, e
  <2>5. y \in DOMAIN e.comps \cup TypesIn(e.kept)
    BY <2>2, <2>3, <2>4, <1>1, <1>6, ExactHas
  <2> QED
    BY <2>1, <2>5 DEF Has, e
<1>7. gameplay # Forgotten => \A p \in Carried(d) : Has(t, p[1], p[2])
  BY <1>2, <1>6 DEF Carried, ids
<1>8. ASSUME gameplay # Forgotten, NEW r \in Elements(d.entities), r.guid \in Identity,
             NEW y \in TypesIn(r.components) \ Excluded
      PROVE  Has(t, r.guid, y)
  <2>1. PICK i \in DOMAIN d.entities : r = d.entities[i]
    BY DEF Elements
  <2>2. r.guid # Mistyped /\ r.guid # Unwritten
    BY <1>8 DEF Identity, Mistyped, Unwritten
  <2>3. i \in DOMAIN ids /\ ids[i] = r.guid
    BY <2>1, <2>2, <1>2 DEF Accepted
  <2> QED
    BY <2>1, <2>3, <1>6, <1>8
<1>9. ASSUME gameplay # Forgotten, Whole(d)  PROVE  Stands(t, gameplay, d)
  <2>1. GuidsOf(d) = ids
    BY <1>9, WholeGiven DEF ids
  <2>2. ASSUME NEW k \in 1..Len(t)  PROVE  Represents(t[k], gameplay, Contents(d, ids, t[k].guid))
    <3> DEFINE g == t[k].guid
               P == Contents(d, ids, g)
    <3>1. Exact(t[k], P)
      BY <1>4
    <3> HIDE DEF g
    <3>2. P \in Seq(PartSet)
      BY <1>2, ContentsTyped
    <3> HIDE DEF P
    <3>3. Represents(t[k], gameplay, P)
      BY <3>1, <3>2, <1>1, <1>9, ExactRepresents
    <3> QED
      BY <3>3 DEF P, g
  <2> QED
    BY <2>1, <2>2, <1>2, <1>4 DEF Stands
<1>10. SyncOf(t, gameplay, d)
  BY <1>8, <1>9 DEF SyncOf, DocFor
<1> QED
  BY <1>5, <1>7, <1>10 DEF t

LEMMA LoadYamlInv ==
  ASSUME Inv, LoadYaml
  PROVE  Inv'
<1>1. TypeInv /\ SceneInv /\ FileInv /\ SyncInv /\ CookInv /\ OwedInv
  BY DEF Inv
<1>2. gameplay' = gameplay /\ file' = file /\ cook' = cook
  BY DEF LoadYaml
<1>3. CASE ~Text
  <2>1. scene' = scene /\ minted' = minted /\ owed' = owed /\ synced' = synced
    BY <1>3 DEF LoadYaml
  <2> QED
    BY <2>1, <1>2 DEF Inv, TypeInv, GameplayType, SceneInv, FileInv, SyncInv, CookInv, OwedInv
<1>4. CASE Text
  <2> DEFINE n == minted + Unwrittens(file)
  <2>1. /\ n <= MaxGuids /\ scene' = Loaded(file) /\ minted' = n
        /\ owed' = Carried(file) /\ synced' = TRUE
    BY <1>4 DEF LoadYaml
  <2>2. DocFor(file, minted) /\ minted \in Nat
    BY <1>1, <1>4, MintedIs DEF FileInv, Text
  <2>3. Unwrittens(file) \in Nat /\ GivenTo(file, Given(file))
    BY <2>1, <2>2, GivenIs
  <2>4. /\ SaneFor(Loaded(file), gameplay) /\ Ids(Loaded(file)) \subseteq 1..n
        /\ SyncOf(Loaded(file), gameplay, file)
        /\ gameplay # Forgotten => \A p \in Carried(file) : Has(Loaded(file), p[1], p[2])
    BY <2>1, <2>2, <1>1, LoadedIs
  <2> HIDE DEF n
  <2>5. n \in Nat /\ minted <= n
    BY <2>2, <2>3 DEF n
  <2>6. TypeInv'
    <3>1. minted \in Authored..MaxGuids
      BY <1>1 DEF TypeInv
    <3>2. n \in Authored..MaxGuids
      BY <2>1, <2>2, <2>5, <3>1, BoundsAssumption DEF n
    <3> QED
      BY <3>2, <2>1, <1>1, <1>2 DEF TypeInv, GameplayType
  <2>7. DocFor(file, n)
    BY <2>2, <2>5, DocForMore
  <2>8. SceneInv' /\ SyncInv' /\ FileInv'
    BY <2>1, <2>4, <2>7, <1>2 DEF SceneInv, SyncInv, FileInv
  <2>9. CookInv'
    BY <2>1, <2>5, <1>1, <1>2, CookInvMore
  <2>10. OwedInv'
    BY <2>1, <2>3, <2>4, <1>2, CarriedTyped DEF OwedInv
  <2> QED
    BY <2>6, <2>8, <2>9, <2>10 DEF Inv
<1> QED
  BY <1>3, <1>4

-----------------------------------------------------------------------------
(* The cook.                                                                *)

LEMMA DefTyped ==
  ASSUME NEW g, NEW t \in LiveIn(g)
  PROVE  DefOf(g, t) \in Definitions
<1>1. t \in CoreNames \/ (t = Gameplay /\ g \in Builds)
  BY DEF LiveIn
<1>2. Gameplay \notin CoreNames
  BY TypesAssumption
<1>3. t \in CoreNames => CoreDef(t) \in Definitions
  BY CoreTyped
<1> QED
  BY <1>1, <1>2, <1>3 DEF DefOf, Definitions

CookedEntity(e, g) ==
    [e EXCEPT !.comps = [t \in DOMAIN @ |-> CookProperties(DefOf(g, t), @[t])]]
UncookedEntity(e) ==
    [e EXCEPT !.comps = [t \in DOMAIN @ |->
        ReadCookedProperties(TypeOf(t), @[t], Construct(TypeOf(t)))]]

\* A cooked entity has the same types when it is read, and the same values
\* where the types have not changed.
LEMMA UncookedEntityIs ==
  ASSUME GameplayType, NEW g, NEW e, Proper(e, g), DOMAIN e.comps \subseteq LiveIn(gameplay)
  PROVE  LET u == UncookedEntity(CookedEntity(e, g))
         IN  /\ Proper(u, gameplay)
             /\ u.guid = e.guid /\ u.name = e.name /\ u.parent = e.parent
             /\ u.kept = e.kept /\ DOMAIN u.comps = DOMAIN e.comps
             /\ g \in {NoType, gameplay} => u = e
<1> DEFINE x == CookedEntity(e, g)
           u == UncookedEntity(x)
           D == DOMAIN e.comps
           a == [t \in D |-> CookProperties(DefOf(g, t), e.comps[t])]
           b == [t \in D |-> ReadCookedProperties(TypeOf(t), a[t], Construct(TypeOf(t)))]
<1>1. /\ e \in EntitySet /\ D \subseteq LiveIn(g) /\ Intrinsic \subseteq D
      /\ \A t \in D : e.comps[t] \in Held(DefOf(g, t))
      /\ \A k \in Elements(e.kept) : k.type \notin Excluded
  BY DEF Proper
<1>2. x = [e EXCEPT !.comps = a]
  BY DEF CookedEntity
<1>3. /\ x.comps = a /\ x.guid = e.guid /\ x.name = e.name /\ x.parent = e.parent /\ x.kept = e.kept
      /\ x = [guid |-> e.guid, name |-> e.name, parent |-> e.parent, comps |-> a, kept |-> e.kept]
  BY <1>1, <1>2 DEF EntitySet
<1>4. DOMAIN a = D
  OBVIOUS
<1>5. u = [x EXCEPT !.comps = b]
  BY <1>3, <1>4 DEF UncookedEntity
<1>6. u = [guid |-> e.guid, name |-> e.name, parent |-> e.parent, comps |-> b, kept |-> e.kept]
  BY <1>3, <1>5
<1> HIDE DEF x, u
<1>7. \A t \in D : /\ TypeOf(t) = DefOf(gameplay, t) /\ DefOf(gameplay, t) \in Definitions
                   /\ DefOf(g, t) \in Definitions /\ t \in Component
  <2>1. \A t \in D : TypeOf(t) = DefOf(gameplay, t) /\ DefOf(gameplay, t) \in Definitions
    BY TypesAre DEF Live
  <2>2. \A t \in D : DefOf(g, t) \in Definitions
    BY <1>1, DefTyped
  <2> QED
    BY <2>1, <2>2, <1>1 DEF LiveIn, Component
<1>8. ASSUME NEW t \in D
      PROVE  /\ b[t] \in Held(DefOf(gameplay, t))
             /\ DefOf(g, t) = DefOf(gameplay, t) => b[t] = e.comps[t]
  <2> DEFINE def == DefOf(gameplay, t)
             by == DefOf(g, t)
             v == e.comps[t]
  <2>1. b[t] = ReadCookedProperties(def, CookProperties(by, v), Construct(def))
    BY <1>7
  <2>2. def \in Definitions /\ by \in Definitions /\ v \in Held(by)
    BY <1>1, <1>7
  <2> HIDE DEF def, by, v, b, a
  <2>3. ReadCookedProperties(def, CookProperties(by, v), Construct(def)) \in Held(def)
    BY <2>2, ValuesAssumption
  <2>4. by = def => ReadCookedProperties(def, CookProperties(by, v), Construct(def)) = v
    BY <2>2, ValuesAssumption
  <2> QED
    BY <2>1, <2>3, <2>4 DEF def, by, v
<1>9. b \in Comps
  <2>1. \A t \in D : b[t] \in Value
    BY <1>7, <1>8 DEF Value
  <2>2. DOMAIN b = D /\ b \in [D -> Value] /\ D \subseteq Component
    BY <2>1, <1>7
  <2> HIDE DEF b
  <2> QED
    BY <2>2, CompsIs
<1> HIDE DEF a
<1>10. DOMAIN b = D
  OBVIOUS
<1> HIDE DEF b, D
<1>11. u \in EntitySet
  BY <1>1, <1>6, <1>9 DEF EntitySet
<1>12. /\ u.guid = e.guid /\ u.name = e.name /\ u.parent = e.parent
       /\ u.kept = e.kept /\ u.comps = b
  BY <1>6
<1>13. Proper(u, gameplay)
  <2>1. D \subseteq LiveIn(gameplay)
    BY DEF D
  <2> QED
    BY <2>1, <1>1, <1>8, <1>10, <1>11, <1>12 DEF Proper
<1>14. ASSUME g \in {NoType, gameplay}  PROVE  u = e
  <2>1. \A t \in D : DefOf(g, t) = DefOf(gameplay, t)
    <3> SUFFICES ASSUME NEW t \in D, g = NoType  PROVE  DefOf(g, t) = DefOf(gameplay, t)
      BY <1>14
    <3>1. NoType \notin Builds /\ Gameplay \notin CoreNames
      BY TypesAssumption
    <3>2. t \in CoreNames
      BY <3>1, <1>1 DEF LiveIn
    <3> QED
      BY <3>1, <3>2 DEF DefOf
  <2>2. \A t \in D : b[t] = e.comps[t]
    BY <2>1, <1>8
  <2> QED
    BY <2>2, <1>1, <1>10, <1>11, <1>12, SameEntity DEF D
<1> QED
  BY <1>10, <1>12, <1>13, <1>14 DEF x, u, D

LEMMA UncookedIs ==
  ASSUME GameplayType, NEW c, NEW s, NEW m, CookOf(c, s, m), ~Stale(c)
  PROVE  LET u == Uncooked(c)
         IN  /\ SaneFor(u, gameplay) /\ Shaped(s, u)
             /\ \A k \in 1..Len(s) : u[k].kept = s[k].kept /\ DOMAIN u[k].comps = DOMAIN s[k].comps
             /\ c.by \in {NoType, gameplay} => u = s
<1> DEFINE u == Uncooked(c)
           n == Len(s)
           g == c.by
           x == c.entities
<1>1. /\ SaneFor(s, g) /\ s \in Seq(EntitySet) /\ DOMAIN s = 1..n /\ n \in Nat /\ Forest(s)
      /\ \A k \in 1..n : Proper(s[k], g)
  BY SaneDistinct DEF CookOf, SaneFor
<1>2. x = [k \in 1..n |-> CookedEntity(s[k], g)]
  BY DEF CookOf, CookedEntity
<1>3. u = [k \in 1..n |-> UncookedEntity(x[k])]
  BY <1>2 DEF Uncooked, UncookedEntity
<1>4. ASSUME NEW k \in 1..n  PROVE  DOMAIN s[k].comps \subseteq LiveIn(gameplay)
  <2> DEFINE e == s[k]
  <2>1. x[k] \in Elements(x) /\ x[k] = CookedEntity(e, g)
    BY <1>2 DEF Elements
  <2>2. DOMAIN x[k].comps \subseteq Live
    BY <2>1 DEF Stale
  <2>3. e \in EntitySet
    BY <1>1
  <2> HIDE DEF e
  <2>4. DOMAIN CookedEntity(e, g).comps = DOMAIN e.comps
    BY <2>3 DEF CookedEntity, EntitySet
  <2> QED
    BY <2>1, <2>2, <2>4, TypesAre DEF e
<1>5. ASSUME NEW k \in 1..n
      PROVE  /\ Proper(u[k], gameplay)
             /\ u[k].guid = s[k].guid /\ u[k].name = s[k].name /\ u[k].parent = s[k].parent
             /\ u[k].kept = s[k].kept /\ DOMAIN u[k].comps = DOMAIN s[k].comps
             /\ g \in {NoType, gameplay} => u[k] = s[k]
  <2> DEFINE e == s[k]
  <2>1. u[k] = UncookedEntity(CookedEntity(e, g))
    BY <1>2, <1>3
  <2>2. Proper(e, g) /\ DOMAIN e.comps \subseteq LiveIn(gameplay)
    BY <1>1, <1>4
  <2> HIDE DEF e, g, u
  <2> DEFINE w == UncookedEntity(CookedEntity(e, g))
  <2>3. /\ Proper(w, gameplay)
        /\ w.guid = e.guid /\ w.name = e.name /\ w.parent = e.parent
        /\ w.kept = e.kept /\ DOMAIN w.comps = DOMAIN e.comps
        /\ g \in {NoType, gameplay} => w = e
    BY <2>2, UncookedEntityIs
  <2> QED
    BY <2>1, <2>3 DEF e
<1>6. DOMAIN u = 1..n
  BY <1>3
<1> HIDE DEF u, x, g
<1>7. u \in Seq(EntitySet) /\ Len(u) = n
  <2>1. u \in [1..n -> EntitySet]
    BY <1>3, <1>5 DEF Proper
  <2>2. u \in Seq(EntitySet)
    BY <2>1, <1>1, SeqDef
  <2> QED
    BY <2>2, <1>1, <1>6
<1>8. Shaped(s, u)
  BY <1>1, <1>5, <1>6, <1>7 DEF Shaped
<1>9. Forest(u)
  BY <1>1, <1>8, ShapedIs
<1>10. SaneFor(u, gameplay)
  BY <1>5, <1>7, <1>9 DEF SaneFor
<1>11. g \in {NoType, gameplay} => u = s
  BY <1>1, <1>5, <1>7, SeqEqual
<1> QED
  BY <1>5, <1>8, <1>10, <1>11 DEF u, g

LEMMA CookSceneInv ==
  ASSUME Inv, CookScene
  PROVE  Inv'
<1>1. TypeInv /\ SceneInv /\ FileInv /\ SyncInv /\ CookInv /\ OwedInv
  BY DEF Inv
<1>2. /\ synced /\ gameplay # Forgotten /\ cook' = Cooked(scene, file)
      /\ gameplay' = gameplay /\ scene' = scene /\ file' = file /\ minted' = minted
      /\ synced' = synced /\ owed' = owed
  BY DEF CookScene
<1>3. TypeInv' /\ SceneInv' /\ FileInv' /\ SyncInv' /\ OwedInv'
  BY <1>1, <1>2 DEF TypeInv, GameplayType, SceneInv, FileInv, SyncInv, OwedInv
<1>4. CookOf(Cooked(scene, file), scene, minted)
  <2> DEFINE c == Cooked(scene, file)
  <2>1. c.by = gameplay /\ c.source = file
    BY DEF Cooked
  <2>2. gameplay \in {NoType} \cup Builds
    BY <1>1, <1>2 DEF TypeInv, GameplayType
  <2>3. SaneFor(scene, gameplay) /\ Ids(scene) \subseteq 1..minted /\ SyncOf(scene, gameplay, file)
    BY <1>1, <1>2 DEF SceneInv, SyncInv
  <2>4. DocFor(file, minted)
    BY <1>1, <1>2 DEF SyncInv
  <2>5. c.entities = [k \in 1..Len(scene) |->
          [scene[k] EXCEPT !.comps = [t \in DOMAIN @ |-> CookProperties(DefOf(gameplay, t), @[t])]]]
    <3>1. DOMAIN scene = 1..Len(scene) /\ \A k \in 1..Len(scene) : Proper(scene[k], gameplay)
      BY <2>3, SaneDistinct DEF SaneFor
    <3>2. \A t \in LiveIn(gameplay) : TypeOf(t) = DefOf(gameplay, t)
      BY <1>1, TypesAre DEF TypeInv, Live
    <3>3. \A k \in 1..Len(scene) : \A t \in DOMAIN scene[k].comps : TypeOf(t) = DefOf(gameplay, t)
      BY <3>1, <3>2 DEF Proper
    <3>4. c.entities = [k \in 1..Len(scene) |->
            [scene[k] EXCEPT !.comps = [t \in DOMAIN @ |-> CookProperties(TypeOf(t), @[t])]]]
      BY <3>1 DEF Cooked
    <3> QED
      BY <3>3, <3>4
  <2> HIDE DEF c
  <2> QED
    BY <2>1, <2>2, <2>3, <2>4, <2>5 DEF CookOf, c
<1>5. CookInv'
  BY <1>2, <1>4 DEF CookInv
<1> QED
  BY <1>3, <1>5 DEF Inv

\* What of a document's carried things the cook of it answers for: those of
\* the guids that are written.
LEMMA LoadCookedInv ==
  ASSUME Inv, LoadCooked
  PROVE  Inv'
<1> DEFINE u == Uncooked(cook)
           old == {r.guid : r \in Elements(file.entities)}
<1>1. /\ TypeInv /\ SceneInv /\ FileInv /\ SyncInv /\ CookInv /\ OwedInv
      /\ GameplayType /\ minted \in Nat
  BY MintedIs DEF Inv, TypeInv
<1>2. /\ cook \notin {NoCook, Torn} /\ cook.source = file /\ ~Stale(cook)
      /\ scene' = u /\ owed' = {p \in Carried(file) : p[1] \in old} /\ synced' = FALSE
      /\ gameplay' = gameplay /\ file' = file /\ cook' = cook /\ minted' = minted
  BY DEF LoadCooked, Usable
<1>3. PICK s : CookOf(cook, s, minted)
  BY <1>1, <1>2 DEF CookInv
<1> HIDE DEF u, old
<1>4. /\ SaneFor(u, gameplay) /\ Shaped(s, u)
      /\ \A k \in 1..Len(s) : u[k].kept = s[k].kept /\ DOMAIN u[k].comps = DOMAIN s[k].comps
  BY <1>1, <1>2, <1>3, UncookedIs DEF u
<1>5. /\ cook.by # Forgotten /\ Ids(s) \subseteq 1..minted
      /\ DocFor(file, minted) /\ SyncOf(s, cook.by, file)
  <2>1. NoType # Forgotten /\ Forgotten \notin Builds
    BY TypesAssumption DEF Definitions
  <2> QED
    BY <2>1, <1>2, <1>3 DEF CookOf
<1>6. SceneInv'
  <2>1. Ids(u) = Ids(s)
    BY <1>4, ShapedIs
  <2> QED
    BY <2>1, <1>2, <1>4, <1>5 DEF SceneInv
<1>7. ASSUME NEW p \in Carried(file), p[1] \in old
      PROVE  p \in Identity \X Kind /\ Has(u, p[1], p[2])
  <2>1. PICK i \in Accepted(file) :
           p \in {Given(file)[i]} \X (TypesIn(file.entities[i].components) \ Excluded)
    BY <1>7 DEF Carried
  <2> DEFINE r == file.entities[i]
             g == p[1]
             y == p[2]
  <2>2. p = <<g, y>> /\ g = Given(file)[i] /\ y \in TypesIn(r.components) \ Excluded
    BY <2>1
  <2>3. /\ i \in DOMAIN file.entities /\ i \in 1..Len(file.entities)
        /\ r.guid # Unwritten => Given(file)[i] = r.guid /\ r.guid \in 1..minted
        /\ r.guid = Unwritten => Given(file)[i] > minted
    BY <1>1, <1>5, GivenIs
  <2>4. g \in {Unwritten, Mistyped} \cup 1..minted
    <3>1. PICK j \in DOMAIN file.entities : g = file.entities[j].guid
      BY <1>7 DEF old, Elements
    <3> QED
      BY <3>1, <1>5 DEF DocFor
  <2>5. r.guid # Unwritten
    BY <2>2, <2>3, <2>4, <1>1 DEF Unwritten, Mistyped
  <2>6. g = r.guid /\ g \in Identity
    <3>1. minted <= MaxGuids /\ MaxGuids \in Nat
      BY <1>1, MintedIs
    <3> QED
      BY <3>1, <2>2, <2>3, <2>5, <1>1 DEF Identity
  <2>7. r \in Elements(file.entities)
    BY <2>3 DEF Elements
  <2>8. Has(s, g, y)
    BY <2>2, <2>6, <2>7, <1>5 DEF SyncOf
  <2>9. Has(u, g, y)
    BY <2>8, <1>4 DEF Has, Shaped
  <2>10. y \in Kind
    <3>1. r.components \in Seq(PartSet)
      BY <2>3, <1>5, RecordIs DEF DocFor
    <3> DEFINE cs == r.components
    <3> HIDE DEF cs
    <3>2. Elements(cs) \subseteq PartSet
      BY <3>1, ElementsIn DEF cs
    <3>3. y \in TypesIn(cs)
      BY <2>2 DEF cs
    <3> QED
      BY <3>2, <3>3, TypesInIs DEF PartSet
  <2> QED
    BY <2>2, <2>6, <2>9, <2>10
<1>8. OwedInv'
  BY <1>2, <1>7 DEF OwedInv
<1>9. TypeInv' /\ FileInv' /\ SyncInv' /\ CookInv'
  BY <1>1, <1>2 DEF TypeInv, GameplayType, FileInv, SyncInv, CookInv
<1> QED
  BY <1>6, <1>8, <1>9 DEF Inv

-----------------------------------------------------------------------------
(* Kept text whose type has come.                                           *)

LEMMA MaterialisedIs ==
  ASSUME GameplayType, NEW e, Proper(e, gameplay)
  PROVE  LET m == Materialised(e)
         IN  /\ Proper(m, gameplay)
             /\ m.guid = e.guid /\ m.name = e.name /\ m.parent = e.parent
             /\ DOMAIN e.comps \cup TypesIn(e.kept) \subseteq DOMAIN m.comps \cup TypesIn(m.kept)
<1> DEFINE L == LiveIn(gameplay)
           cs == Of(e.kept, L)
           r == ReadComponents(e, cs)
           m == Materialised(e)
           w == Without(e.kept, L)
<1>1. Live = L
  BY TypesAre
<1>2. e \in EntitySet /\ e.kept \in Seq(PartSet) /\ \A k \in Elements(e.kept) : k.type \notin Excluded
  BY DEF Proper, EntitySet
<1> HIDE DEF L
<1>3. cs \in Seq(PartSet) /\ TypesIn(cs) = TypesIn(e.kept) \cap L
  BY <1>2, OfType, TypesOf
<1>4. /\ w \in Seq(PartSet) /\ TypesIn(w) = TypesIn(e.kept) \ L
      /\ Elements(w) \subseteq Elements(e.kept)
  BY <1>2, WithoutType
<1> HIDE DEF cs, w
<1>5. /\ Proper(r, gameplay) /\ r \in EntitySet
      /\ r.guid = e.guid /\ r.name = e.name /\ r.parent = e.parent
      /\ DOMAIN r.comps = DOMAIN e.comps \cup (TypesIn(cs) \cap L)
  BY <1>2, <1>3, ReadComponentsIs, ReadComponentsProper DEF Proper, L
<1> HIDE DEF r
<1>6. m = [r EXCEPT !.kept = w]
  BY <1>1 DEF Materialised, r, cs, w
<1>7. /\ m \in EntitySet /\ m.guid = r.guid /\ m.name = r.name /\ m.parent = r.parent
      /\ m.comps = r.comps /\ m.kept = w
  BY <1>4, <1>5, <1>6 DEF EntitySet
<1> HIDE DEF m
<1>8. Proper(m, gameplay)
  BY <1>2, <1>4, <1>5, <1>7 DEF Proper
<1>9. DOMAIN e.comps \cup TypesIn(e.kept) \subseteq DOMAIN m.comps \cup TypesIn(m.kept)
  BY <1>3, <1>4, <1>5, <1>7
<1> QED
  BY <1>5, <1>7, <1>8, <1>9 DEF m

\* A scene whose entities change in place: what they are is kept, and they
\* lose nothing.
LEMMA SceneInPlace ==
  ASSUME TypeInv, SceneInv, OwedInv, NEW t \in [1..Len(scene) -> EntitySet],
         \A k \in 1..Len(scene) :
            /\ Proper(t[k], gameplay)
            /\ t[k].guid = scene[k].guid /\ t[k].name = scene[k].name
            /\ t[k].parent = scene[k].parent
            /\ DOMAIN scene[k].comps \cup TypesIn(scene[k].kept)
                 \subseteq DOMAIN t[k].comps \cup TypesIn(t[k].kept)
  PROVE  /\ SaneFor(t, gameplay) /\ Ids(t) \subseteq 1..minted
         /\ gameplay # Forgotten => \A p \in owed : Has(t, p[1], p[2])
<1> DEFINE n == Len(scene)
<1>1. SaneFor(scene, gameplay) /\ Forest(scene) /\ DOMAIN scene = 1..n /\ n \in Nat
  BY SaneDistinct DEF SceneInv, SaneFor
<1>2. t \in Seq(EntitySet) /\ Len(t) = n
  <2>1. DOMAIN t = 1..n
    OBVIOUS
  <2>2. t \in Seq(EntitySet)
    BY <1>1, SeqDef
  <2> QED
    BY <2>1, <2>2, <1>1
<1>3. Shaped(scene, t)
  BY <1>1, <1>2 DEF Shaped
<1>4. Forest(t) /\ Ids(t) = Ids(scene)
  BY <1>1, <1>3, ShapedIs
<1>5. SaneFor(t, gameplay)
  BY <1>2, <1>4 DEF SaneFor
<1>6. gameplay # Forgotten => \A p \in owed : Has(t, p[1], p[2])
  BY <1>2 DEF OwedInv, Has
<1> QED
  BY <1>4, <1>5, <1>6 DEF SceneInv

LEMMA MaterialiseInv ==
  ASSUME Inv, Materialise
  PROVE  Inv'
<1> DEFINE t == [i \in DOMAIN scene |-> Materialised(scene[i])]
<1>1. /\ TypeInv /\ SceneInv /\ FileInv /\ CookInv /\ OwedInv /\ GameplayType
      /\ SaneFor(scene, gameplay)
  BY DEF Inv, TypeInv, SceneInv
<1>2. /\ scene' = t /\ synced' = FALSE /\ gameplay' = gameplay /\ file' = file
      /\ cook' = cook /\ minted' = minted /\ owed' = owed
  BY DEF Materialise
<1>3. ASSUME NEW k \in 1..Len(scene)
      PROVE  /\ Proper(t[k], gameplay) /\ t[k] \in EntitySet
             /\ t[k].guid = scene[k].guid /\ t[k].name = scene[k].name
             /\ t[k].parent = scene[k].parent
             /\ DOMAIN scene[k].comps \cup TypesIn(scene[k].kept)
                  \subseteq DOMAIN t[k].comps \cup TypesIn(t[k].kept)
  <2> DEFINE e == scene[k]
  <2>1. Proper(e, gameplay) /\ t[k] = Materialised(e)
    BY <1>1, SaneDistinct DEF SaneFor
  <2> HIDE DEF e, t
  <2> DEFINE w == Materialised(e)
  <2>2. /\ Proper(w, gameplay)
        /\ w.guid = e.guid /\ w.name = e.name /\ w.parent = e.parent
        /\ DOMAIN e.comps \cup TypesIn(e.kept) \subseteq DOMAIN w.comps \cup TypesIn(w.kept)
    BY <2>1, <1>1, MaterialisedIs
  <2> HIDE DEF w
  <2>3. w \in EntitySet
    BY <2>2 DEF Proper
  <2> QED
    BY <2>1, <2>2, <2>3 DEF e, w
<1>4. t \in [1..Len(scene) -> EntitySet]
  <2>1. DOMAIN scene = 1..Len(scene)
    BY <1>1, SaneDistinct
  <2> QED
    BY <2>1, <1>3
<1> HIDE DEF t
<1>5. /\ SaneFor(t, gameplay) /\ Ids(t) \subseteq 1..minted
      /\ gameplay # Forgotten => \A p \in owed : Has(t, p[1], p[2])
  BY <1>1, <1>3, <1>4, SceneInPlace
<1>6. SceneInv' /\ OwedInv'
  BY <1>1, <1>2, <1>5 DEF SceneInv, OwedInv
<1> QED
  BY <1>1, <1>2, <1>6 DEF Inv, TypeInv, GameplayType, FileInv, SyncInv, CookInv

-----------------------------------------------------------------------------
(* The process: its types, and a new start.                                 *)

\* Entities without a component of the module's type are proper, and stand for
\* what they stand for, whatever is known of that type.
LEMMA ProperAnyway ==
  ASSUME NEW e, NEW g, NEW h, Proper(e, g), Gameplay \notin DOMAIN e.comps
  PROVE  /\ Proper(e, h)
         /\ \A P : Represents(e, g, P) => Represents(e, h, P)
<1>1. DOMAIN e.comps \subseteq CoreNames
  BY DEF Proper, LiveIn
<1>2. \A t \in DOMAIN e.comps : DefOf(g, t) = DefOf(h, t)
  BY DEF DefOf
<1>3. Proper(e, h)
  BY <1>1, <1>2 DEF Proper, LiveIn
<1>4. ASSUME NEW P, Represents(e, g, P)  PROVE  Represents(e, h, P)
  BY <1>2, <1>4 DEF Represents, ReadValue
<1> QED
  BY <1>3, <1>4

LEMMA RegisterInv ==
  ASSUME Inv, NEW t \in Builds, RegisterModule(t)
  PROVE  Inv'
<1>1. /\ TypeInv /\ SceneInv /\ FileInv /\ SyncInv /\ CookInv /\ OwedInv
      /\ SaneFor(scene, gameplay)
  BY DEF Inv, SceneInv
<1>2. /\ gameplay = NoType /\ gameplay' = t /\ scene' = scene /\ file' = file /\ cook' = cook
      /\ minted' = minted /\ synced' = synced /\ owed' = owed
  BY DEF RegisterModule
<1>3. NoType \notin Builds /\ NoType # Forgotten /\ Forgotten \notin Builds /\ Gameplay \notin CoreNames
  BY TypesAssumption DEF Definitions
<1>4. \A k \in 1..Len(scene) : Proper(scene[k], gameplay) /\ Gameplay \notin DOMAIN scene[k].comps
  BY <1>1, <1>2, <1>3 DEF SaneFor, Proper, LiveIn
<1>5. SaneFor(scene, t)
  BY <1>1, <1>4, ProperAnyway DEF SaneFor
<1>6. ASSUME SyncOf(scene, gameplay, file)  PROVE  SyncOf(scene, t, file)
  <2>1. Stands(scene, gameplay, file) => Stands(scene, t, file)
    BY <1>4, ProperAnyway DEF Stands
  <2> QED
    BY <2>1, <1>2, <1>3, <1>6 DEF SyncOf
<1>7. SceneInv' /\ SyncInv'
  BY <1>1, <1>2, <1>5, <1>6 DEF SceneInv, SyncInv
<1> QED
  BY <1>1, <1>2, <1>3, <1>7 DEF Inv, TypeInv, GameplayType, FileInv, CookInv, OwedInv

LEMMA ForgetInv ==
  ASSUME Inv, Forget
  PROVE  Inv'
<1>1. /\ TypeInv /\ SceneInv /\ FileInv /\ SyncInv /\ CookInv /\ OwedInv
      /\ SaneFor(scene, gameplay)
  BY DEF Inv, SceneInv
<1>2. /\ \A e \in Elements(scene) : Gameplay \notin DOMAIN e.comps
      /\ gameplay' = Forgotten /\ scene' = scene /\ file' = file /\ cook' = cook
      /\ minted' = minted /\ synced' = synced /\ owed' = owed
  BY DEF Forget
<1>3. \A k \in 1..Len(scene) : Proper(scene[k], gameplay) /\ Gameplay \notin DOMAIN scene[k].comps
  BY <1>1, <1>2, SaneDistinct DEF SaneFor
<1>4. SaneFor(scene, Forgotten)
  BY <1>1, <1>3, ProperAnyway DEF SaneFor
<1>5. SyncOf(scene, gameplay, file) => SyncOf(scene, Forgotten, file)
  BY DEF SyncOf
<1>6. SceneInv' /\ SyncInv'
  BY <1>1, <1>2, <1>4, <1>5 DEF SceneInv, SyncInv
<1> QED
  BY <1>1, <1>2, <1>6 DEF Inv, TypeInv, GameplayType, FileInv, CookInv, OwedInv

LEMMA EmptyScene ==
  ASSUME NEW g
  PROVE  SaneFor(<<>>, g) /\ Ids(<<>>) = {}
<1>1. Elements(<<>>) = {} /\ Ids(<<>>) = {}
  BY DEF Elements, Ids
<1>2. Forest(<<>>)
  BY <1>1 DEF Forest
<1> QED
  BY <1>1, <1>2 DEF SaneFor

LEMMA RestartInv ==
  ASSUME Inv, Restart
  PROVE  Inv'
<1>1. TypeInv /\ FileInv /\ CookInv
  BY DEF Inv
<1>2. /\ gameplay' = NoType /\ scene' = <<>> /\ file' = file /\ cook' = cook
      /\ minted' = minted /\ synced' = FALSE /\ owed' = {}
  BY DEF Restart
<1>3. SceneInv'
  BY <1>2, EmptyScene DEF SceneInv
<1> QED
  BY <1>1, <1>2, <1>3 DEF Inv, TypeInv, GameplayType, FileInv, SyncInv, CookInv, OwedInv

LEMMA AuthorInv ==
  ASSUME Inv, NEW d \in Documents, Author(d)
  PROVE  Inv'
<1>1. TypeInv /\ SceneInv /\ CookInv /\ OwedInv
  BY DEF Inv
<1>2. /\ file' = d /\ synced' = FALSE /\ gameplay' = gameplay /\ scene' = scene
      /\ cook' = cook /\ minted' = minted /\ owed' = owed
  BY DEF Author
<1>3. ASSUME d # Malformed  PROVE  DocFor(d, minted)
  <2>1. /\ d \in Docs
        /\ \A r \in Elements(d.entities) : r.guid \in {Unwritten, Mistyped} \cup 1..Authored
    BY <1>3, DocumentsTyped
  <2>2. 1..Authored \subseteq 1..minted
    BY <1>1, MintedIs, BoundsAssumption
  <2> QED
    BY <2>1, <2>2 DEF DocFor, Elements
<1> QED
  BY <1>1, <1>2, <1>3 DEF Inv, TypeInv, GameplayType, SceneInv, FileInv, SyncInv, CookInv, OwedInv

LEMMA SpoilCookInv ==
  ASSUME Inv, NEW c \in {NoCook, Torn}, SpoilCook(c)
  PROVE  Inv'
<1>1. /\ cook' = c /\ gameplay' = gameplay /\ scene' = scene /\ file' = file
      /\ minted' = minted /\ synced' = synced /\ owed' = owed
  BY DEF SpoilCook
<1> QED
  BY <1>1 DEF Inv, TypeInv, GameplayType, SceneInv, FileInv, SyncInv, CookInv, OwedInv

LEMMA StutterInv ==
  ASSUME Inv, UNCHANGED vars
  PROVE  Inv'
BY DEF vars, Inv, TypeInv, GameplayType, SceneInv, FileInv, SyncInv, CookInv, OwedInv

-----------------------------------------------------------------------------
(* Edits of the scene.                                                      *)

LEMMA CreateInv ==
  ASSUME Inv, NEW name \in Names, Create(name)
  PROVE  Inv'
<1> DEFINE s == scene
           g == minted + 1
           e == Entity(g, name)
           t == Append(s, e)
<1>1. /\ TypeInv /\ SceneInv /\ FileInv /\ CookInv /\ OwedInv /\ GameplayType
      /\ SaneFor(s, gameplay) /\ Ids(s) \subseteq 1..minted
  BY DEF Inv, TypeInv, SceneInv
<1>2. /\ minted < MaxGuids /\ minted' = g /\ scene' = Created(s, g, name) /\ synced' = FALSE
      /\ gameplay' = gameplay /\ file' = file /\ cook' = cook /\ owed' = owed
  BY DEF Create
<1>3. /\ minted \in Nat /\ MaxGuids \in Nat /\ minted >= Authored /\ g \in Identity
      /\ g \notin Ids(s) /\ g \in Nat /\ minted <= g
  BY <1>1, <1>2, MintedIs DEF Identity
<1>4. scene' = t
  BY <1>2, <1>3 DEF Created
<1>5. Proper(e, gameplay) /\ e \in EntitySet /\ e.guid = g /\ e.parent = Nobody
  BY <1>1, <1>3, EntityProper DEF Proper, EntityName
<1> HIDE DEF e, g
<1>6. /\ s \in Seq(EntitySet) /\ Len(s) \in Nat
      /\ t \in Seq(EntitySet) /\ Len(t) = Len(s) + 1
      /\ \A k \in 1..Len(t) : t[k] = IF k = Len(t) THEN e ELSE s[k]
      /\ Elements(t) = Elements(s) \cup {e}
  BY <1>1, <1>5, AppendProperties, ElementsAppend DEF SaneFor
<1>7. Forest(t)
  <2>1. Nobody \notin Ids(s) /\ g # Nobody
    BY <1>3, <1>6, NobodyIsNone, IdsIn, EntitiesLinkable
  <2> QED
    BY <2>1, <1>1, <1>3, <1>5, <1>6, AppendForest DEF SaneFor
<1> HIDE DEF t
<1>8. SaneFor(t, gameplay)
  <2>1. \A k \in 1..Len(t) : Proper(t[k], gameplay)
    <3> SUFFICES ASSUME NEW k \in 1..Len(t)  PROVE  Proper(t[k], gameplay)
      OBVIOUS
    <3>1. k # Len(t) => k \in 1..Len(s)
      BY <1>6
    <3> QED
      BY <3>1, <1>1, <1>5, <1>6 DEF SaneFor
  <2> QED
    BY <2>1, <1>6, <1>7 DEF SaneFor
<1>9. Ids(t) \subseteq 1..g
  <2>1. Ids(t) = Ids(s) \cup {g}
    BY <1>5, <1>6 DEF Ids
  <2> QED
    BY <2>1, <1>1, <1>3 DEF g
<1>10. \A p : Has(s, p[1], p[2]) => Has(t, p[1], p[2])
  <2> SUFFICES ASSUME NEW p, NEW k \in 1..Len(s), s[k].guid = p[1],
                      p[2] \in DOMAIN s[k].comps \cup TypesIn(s[k].kept)
               PROVE  Has(t, p[1], p[2])
    BY DEF Has
  <2>1. k \in 1..Len(t) /\ t[k] = s[k]
    BY <1>6
  <2> QED
    BY <2>1 DEF Has
<1>11. SceneInv' /\ OwedInv'
  BY <1>1, <1>2, <1>4, <1>8, <1>9, <1>10 DEF SceneInv, OwedInv
<1>12. TypeInv' /\ SyncInv'
  <2>1. g \in Authored..MaxGuids
    BY <1>2, <1>3, BoundsAssumption DEF g
  <2> QED
    BY <2>1, <1>1, <1>2 DEF TypeInv, GameplayType, SyncInv
<1>13. FileInv'
  <2>1. ASSUME DocFor(file, minted)  PROVE  DocFor(file, g)
    BY <2>1, <1>3, DocForMore
  <2> QED
    BY <2>1, <1>1, <1>2 DEF FileInv
<1>14. CookInv'
  BY <1>1, <1>2, <1>3, CookInvMore
<1> QED
  BY <1>11, <1>12, <1>13, <1>14 DEF Inv

LEMMA UnderIs ==
  ASSUME NEW e \in EntitySet, NEW u \in EntitySet, u = Under(e, u.parent)
  PROVE  /\ u.comps = e.comps /\ u.kept = e.kept
         /\ \A g : Proper(e, g) => Proper(u, g)
<1>1. u.comps = e.comps /\ u.kept = e.kept
  BY DEF Under, EntitySet
<1> QED
  BY <1>1 DEF Proper

LEMMA SetParentInv ==
  ASSUME Inv, NEW c \in Ids(scene), NEW p \in Ids(scene), SetParent(c, p)
  PROVE  Inv'
<1> DEFINE s == scene
           t == Linked(s, c, p)
<1>1. /\ TypeInv /\ SceneInv /\ FileInv /\ CookInv /\ OwedInv
      /\ SaneFor(s, gameplay) /\ Ids(s) \subseteq 1..minted
      /\ s \in Seq(EntitySet) /\ Forest(s)
  BY DEF Inv, SceneInv, SaneFor
<1>2. /\ scene' = t /\ synced' = FALSE /\ gameplay' = gameplay /\ file' = file
      /\ cook' = cook /\ minted' = minted /\ owed' = owed
  BY DEF SetParent
<1>3. t \in Seq(EntitySet) /\ Relinked(s, t) /\ Forest(t)
  <2>1. p \in Identity
    BY <1>1, IdsIn, EntitiesLinkable
  <2> QED
    BY <2>1, <1>1, EntitiesLinkable, LinkedIs, LinkedForest
<1> HIDE DEF t
<1>4. Ids(t) = Ids(s) /\ Len(t) = Len(s)
  BY <1>1, <1>3, RelinkedIds DEF Relinked
<1>5. \A k \in 1..Len(s) : /\ Proper(t[k], gameplay) /\ t[k].guid = s[k].guid
                           /\ t[k].comps = s[k].comps /\ t[k].kept = s[k].kept
  <2> SUFFICES ASSUME NEW k \in 1..Len(s)
               PROVE  /\ Proper(t[k], gameplay) /\ t[k].guid = s[k].guid
                      /\ t[k].comps = s[k].comps /\ t[k].kept = s[k].kept
    OBVIOUS
  <2> DEFINE e == s[k]
             u == t[k]
  <2>1. e \in EntitySet /\ u \in EntitySet /\ u = Under(e, u.parent) /\ u.guid = e.guid
    BY <1>1, <1>3, <1>4 DEF Relinked
  <2>2. Proper(e, gameplay)
    BY <1>1 DEF SaneFor
  <2> HIDE DEF e, u
  <2>3. u.comps = e.comps /\ u.kept = e.kept /\ Proper(u, gameplay)
    BY <2>1, <2>2, UnderIs
  <2> QED
    BY <2>1, <2>3 DEF e, u
<1>6. SaneFor(t, gameplay)
  BY <1>3, <1>4, <1>5 DEF SaneFor
<1>7. \A q : Has(s, q[1], q[2]) => Has(t, q[1], q[2])
  BY <1>4, <1>5 DEF Has
<1>8. SceneInv' /\ OwedInv'
  BY <1>1, <1>2, <1>4, <1>6, <1>7 DEF SceneInv, OwedInv
<1> QED
  BY <1>1, <1>2, <1>8 DEF Inv, TypeInv, GameplayType, FileInv, SyncInv, CookInv

LEMMA DestroyInv ==
  ASSUME Inv, NEW g \in Ids(scene), Destroy(g)
  PROVE  Inv'
<1> DEFINE s == scene
           gone == Below(s, {g})
<1>1. /\ TypeInv /\ SceneInv /\ FileInv /\ CookInv /\ OwedInv
      /\ SaneFor(s, gameplay) /\ Ids(s) \subseteq 1..minted
      /\ s \in Seq(EntitySet) /\ Forest(s)
  BY DEF Inv, SceneInv, SaneFor
<1>2. /\ owed' = {p \in owed : p[1] \notin gone}
      /\ synced' = FALSE /\ gameplay' = gameplay /\ file' = file
      /\ cook' = cook /\ minted' = minted
  BY DEF Destroy
<1>3. PICK order \in SetToSeqs(gone) : scene' = Gone(s, order)
  BY DEF Destroy
<1> DEFINE t == Gone(s, order)
<1>4. /\ t \in Seq(EntitySet) /\ Forest(t)
      /\ Elements(t) = {e \in Elements(s) : e.guid \notin gone}
  BY <1>1, <1>3, EntitiesLinkable, GoneForest
<1> HIDE DEF t, gone
<1>5. /\ DOMAIN t = 1..Len(t) /\ DOMAIN s = 1..Len(s)
      /\ \A k \in 1..Len(s) : Proper(s[k], gameplay)
  BY <1>1, <1>4 DEF SaneFor
<1>6. \A e \in Elements(s) : Proper(e, gameplay)
  BY <1>5 DEF Elements
<1>7. \A k \in 1..Len(t) : t[k] \in Elements(t)
  BY <1>5 DEF Elements
<1>8. SaneFor(t, gameplay)
  BY <1>4, <1>6, <1>7 DEF SaneFor
<1>9. Ids(t) \subseteq 1..minted
  BY <1>1, <1>4 DEF Ids
<1>10. ASSUME NEW p, p[1] \notin gone, Has(s, p[1], p[2])  PROVE  Has(t, p[1], p[2])
  <2>1. PICK k \in 1..Len(s) : s[k].guid = p[1] /\ p[2] \in DOMAIN s[k].comps \cup TypesIn(s[k].kept)
    BY <1>10 DEF Has
  <2>2. s[k] \in Elements(s)
    BY <1>5 DEF Elements
  <2>3. s[k] \in Elements(t)
    BY <2>1, <2>2, <1>4, <1>10
  <2>4. PICK j \in 1..Len(t) : t[j] = s[k]
    BY <2>3, <1>5 DEF Elements
  <2> QED
    BY <2>1, <2>4 DEF Has
<1>11. SceneInv' /\ OwedInv'
  BY <1>1, <1>2, <1>3, <1>8, <1>9, <1>10 DEF SceneInv, OwedInv, t
<1> QED
  BY <1>1, <1>2, <1>11 DEF Inv, TypeInv, GameplayType, FileInv, SyncInv, CookInv

-----------------------------------------------------------------------------
(* A component is set.                                                      *)

LEMMA ValueHeld ==
  ASSUME GameplayType, NEW t \in DOMAIN Values, t \in LiveIn(gameplay), NEW v \in Values[t]
  PROVE  v \in Held(DefOf(gameplay, t))
<1>1. CASE t \in CoreNames
  <2>1. PICK i \in DOMAIN Core : Core[i].type = t
    BY <1>1 DEF CoreNames
  <2>2. CoreDef(t) = Core[i].def
    BY <2>1, CoreTyped
  <2>3. t # Gameplay
    BY <1>1, TypesAssumption
  <2>4. Values[t] \subseteq Held(Core[i].def)
    BY <2>1, ValuesAssumption
  <2> QED
    BY <2>2, <2>3, <2>4 DEF DefOf
<1>2. CASE t \notin CoreNames
  <2>1. t = Gameplay /\ gameplay \in Builds
    BY <1>2 DEF LiveIn
  <2>2. Values[t] \subseteq Held(gameplay)
    BY <2>1, ValuesAssumption
  <2> QED
    BY <2>1, <2>2 DEF DefOf
<1> QED
  BY <1>1, <1>2

LEMMA AttachedIs ==
  ASSUME GameplayType, NEW e, Proper(e, gameplay), NEW t \in LiveIn(gameplay),
         NEW v \in Held(DefOf(gameplay, t))
  PROVE  LET a == Attached(e, t, v)
         IN  /\ a \in EntitySet /\ Proper(a, gameplay)
             /\ a.guid = e.guid /\ a.name = e.name /\ a.parent = e.parent
             /\ DOMAIN e.comps \cup TypesIn(e.kept) \subseteq DOMAIN a.comps \cup TypesIn(a.kept)
<1> DEFINE a == Attached(e, t, v)
           f == With(e.comps, t, v)
<1>1. e \in EntitySet
  BY DEF Proper
<1>2. DOMAIN f = DOMAIN e.comps \cup {t}
  BY DEF With
<1>3. ASSUME NEW x \in DOMAIN f  PROVE  f[x] \in Held(DefOf(gameplay, x))
  BY <1>2 DEF With, Proper
<1>4. DOMAIN f \subseteq LiveIn(gameplay) /\ Intrinsic \subseteq DOMAIN f
  BY <1>2 DEF Proper
<1>5. f = [x \in DOMAIN f |-> f[x]]
  BY DEF With
<1>6. f \in Comps
  <2> HIDE DEF f
  <2>1. DOMAIN f \subseteq Component
    BY <1>4 DEF LiveIn, Component
  <2>2. \A x \in DOMAIN f : f[x] \in Value
    BY <1>3, <1>4, DefTyped DEF Value
  <2>3. f \in [DOMAIN f -> Value]
    BY <1>5, <2>2
  <2> QED
    BY <2>1, <2>3, CompsIs
<1> HIDE DEF f
<1>7. a = [e EXCEPT !.comps = f]
  BY DEF Attached, f
<1> HIDE DEF a
<1>8. /\ a \in EntitySet /\ a.comps = f /\ a.kept = e.kept
      /\ a.guid = e.guid /\ a.name = e.name /\ a.parent = e.parent
  BY <1>1, <1>6, <1>7 DEF EntitySet
<1>9. Proper(a, gameplay)
  BY <1>3, <1>4, <1>8 DEF Proper
<1> QED
  BY <1>2, <1>8, <1>9 DEF a

LEMMA SetComponentInv ==
  ASSUME Inv, NEW g \in Ids(scene), NEW t \in DOMAIN Values, NEW v \in Values[t],
         SetComponent(g, t, v)
  PROVE  Inv'
<1> DEFINE i == At(scene, g)
           a == Attached(scene[i], t, v)
           u == [k \in 1..Len(scene) |-> IF k = i THEN a ELSE scene[k]]
<1>1. /\ TypeInv /\ SceneInv /\ FileInv /\ CookInv /\ OwedInv /\ GameplayType
      /\ SaneFor(scene, gameplay)
  BY DEF Inv, TypeInv, SceneInv
<1>2. /\ t \in Live /\ scene' = [scene EXCEPT ![i] = Attached(@, t, v)] /\ synced' = FALSE
      /\ gameplay' = gameplay /\ file' = file
      /\ cook' = cook /\ minted' = minted /\ owed' = owed
  BY DEF SetComponent
<1>3. DOMAIN scene = 1..Len(scene) /\ \A k \in 1..Len(scene) : Proper(scene[k], gameplay)
  BY <1>1, SaneDistinct DEF SaneFor
<1>4. i \in 1..Len(scene)
  BY <1>3, AtIs
<1>5. t \in LiveIn(gameplay) /\ v \in Held(DefOf(gameplay, t))
  BY <1>1, <1>2, TypesAre, ValueHeld
<1>6. scene' = u
  BY <1>2, <1>3
<1>7. /\ a \in EntitySet /\ Proper(a, gameplay)
      /\ a.guid = scene[i].guid /\ a.name = scene[i].name /\ a.parent = scene[i].parent
      /\ DOMAIN scene[i].comps \cup TypesIn(scene[i].kept) \subseteq DOMAIN a.comps \cup TypesIn(a.kept)
  <2> DEFINE e == scene[i]
  <2>1. Proper(e, gameplay)
    BY <1>3, <1>4
  <2> HIDE DEF e
  <2>2. LET w == Attached(e, t, v)
        IN  /\ w \in EntitySet /\ Proper(w, gameplay)
            /\ w.guid = e.guid /\ w.name = e.name /\ w.parent = e.parent
            /\ DOMAIN e.comps \cup TypesIn(e.kept) \subseteq DOMAIN w.comps \cup TypesIn(w.kept)
    BY <2>1, <1>1, <1>5, AttachedIs
  <2> QED
    BY <2>2 DEF e
<1> HIDE DEF a, i
<1>8. u \in [1..Len(scene) -> EntitySet]
  BY <1>3, <1>7 DEF Proper
<1>9. ASSUME NEW k \in 1..Len(scene)
      PROVE  /\ Proper(u[k], gameplay)
             /\ u[k].guid = scene[k].guid /\ u[k].name = scene[k].name
             /\ u[k].parent = scene[k].parent
             /\ DOMAIN scene[k].comps \cup TypesIn(scene[k].kept)
                  \subseteq DOMAIN u[k].comps \cup TypesIn(u[k].kept)
  <2>1. CASE k = i
    <3>1. u[k] = a /\ scene[k] = scene[i]
      BY <2>1
    <3> HIDE DEF u
    <3> QED
      BY <3>1, <1>7
  <2>2. CASE k # i
    <3>1. u[k] = scene[k]
      BY <2>2
    <3> HIDE DEF u
    <3> QED
      BY <3>1, <1>3
  <2> QED
    BY <2>1, <2>2
<1> HIDE DEF u
<1>10. /\ SaneFor(u, gameplay) /\ Ids(u) \subseteq 1..minted
       /\ gameplay # Forgotten => \A p \in owed : Has(u, p[1], p[2])
  BY <1>1, <1>8, <1>9, SceneInPlace
<1>11. SceneInv' /\ OwedInv'
  BY <1>1, <1>2, <1>6, <1>10 DEF SceneInv, OwedInv
<1> QED
  BY <1>1, <1>2, <1>11 DEF Inv, TypeInv, GameplayType, FileInv, SyncInv, CookInv

-----------------------------------------------------------------------------
(* Every behaviour.                                                         *)

LEMMA InitInv == Init => Inv
<1> SUFFICES ASSUME Init  PROVE  Inv
  OBVIOUS
<1>1. /\ gameplay = NoType /\ scene = <<>> /\ file \in Documents /\ cook = NoCook
      /\ minted = Authored /\ synced = FALSE /\ owed = {}
  BY DEF Init
<1>2. TypeInv
  BY <1>1, BoundsAssumption DEF TypeInv, GameplayType
<1>3. SceneInv
  BY <1>1, EmptyScene DEF SceneInv
<1>4. FileInv
  <2> SUFFICES ASSUME file # Malformed  PROVE  DocFor(file, minted)
    BY DEF FileInv
  <2>1. /\ file \in Docs
        /\ \A r \in Elements(file.entities) : r.guid \in {Unwritten, Mistyped} \cup 1..Authored
    BY <1>1, DocumentsTyped
  <2> QED
    BY <2>1, <1>1 DEF DocFor, Elements
<1> QED
  BY <1>1, <1>2, <1>3, <1>4 DEF Inv, SyncInv, CookInv, OwedInv

LEMMA NextInv == Inv /\ [Next]_vars => Inv'
<1> SUFFICES ASSUME Inv, [Next]_vars  PROVE  Inv'
  OBVIOUS
<1>1. CASE Save
  BY <1>1, SaveInv
<1>2. CASE LoadYaml
  BY <1>2, LoadYamlInv
<1>3. CASE CookScene
  BY <1>3, CookSceneInv
<1>4. CASE LoadCooked
  BY <1>4, LoadCookedInv
<1>5. CASE Materialise
  BY <1>5, MaterialiseInv
<1>6. ASSUME NEW t \in Builds, RegisterModule(t)  PROVE  Inv'
  BY <1>6, RegisterInv
<1>7. ASSUME NEW name \in Names, Create(name)  PROVE  Inv'
  BY <1>7, CreateInv
<1>8. ASSUME NEW g \in Ids(scene), Destroy(g)  PROVE  Inv'
  BY <1>8, DestroyInv
<1>9. ASSUME NEW g \in Ids(scene), NEW p \in Ids(scene), SetParent(g, p)  PROVE  Inv'
  BY <1>9, SetParentInv
<1>10. ASSUME NEW g \in Ids(scene), NEW t \in DOMAIN Values, NEW v \in Values[t],
              SetComponent(g, t, v)
       PROVE  Inv'
  BY <1>10, SetComponentInv
<1>11. ASSUME NEW d \in Documents, Author(d)  PROVE  Inv'
  BY <1>11, AuthorInv
<1>12. ASSUME NEW c \in {NoCook, Torn}, SpoilCook(c)  PROVE  Inv'
  BY <1>12, SpoilCookInv
<1>13. CASE Forget
  BY <1>13, ForgetInv
<1>14. CASE Restart
  BY <1>14, RestartInv
<1>15. CASE UNCHANGED vars
  BY <1>15, StutterInv
<1> QED
  BY <1>1, <1>2, <1>3, <1>4, <1>5, <1>6, <1>7, <1>8, <1>9, <1>10, <1>11, <1>12, <1>13, <1>14,
     <1>15 DEF Next

\* The invariant holds in every state of every behaviour: identities are those
\* given out so far, the scene is a forest of proper entities, a document in
\* step with it says all it holds, a cook was made of such a scene, and what
\* is owed is attached somewhere or kept as text.
THEOREM SceneFileInv == Spec => []Inv
<1>1. Init => Inv
  BY InitInv
<1>2. Inv /\ [Next]_vars => Inv'
  BY NextInv
<1> QED
  BY <1>1, <1>2, PTL DEF Spec

-----------------------------------------------------------------------------
(* What follows of every state.                                             *)

LEMMA InvSound == Inv => Sound
BY DEF Inv, SceneInv, SaneFor, Sound

LEMMA InvRoundTrips == Inv => SaveRoundTrips
<1> SUFFICES ASSUME Inv  PROVE  SaveRoundTrips
  OBVIOUS
<1>1. GameplayType /\ Sane(scene)
  BY SaneIs DEF Inv, TypeInv, SceneInv
<1> QED
  BY <1>1, RoundTrips

LEMMA InvOwed == Inv => OwedIsWritten
<1> SUFFICES ASSUME Inv, gameplay # Forgotten, NEW p \in owed
             PROVE  p \in Carried(Saved(scene))
  BY DEF OwedIsWritten
<1> DEFINE d == Saved(scene)
<1>1. /\ GameplayType /\ Sane(scene) /\ Has(scene, p[1], p[2]) /\ p \in Identity \X Kind
      /\ SaneFor(scene, gameplay)
  BY SaneIs DEF Inv, TypeInv, SceneInv, OwedInv
<1>2. Whole(d) /\ Tells(d, scene)
  BY <1>1, SavedIs
<1>3. Given(d) = GuidsOf(d)
  <2> HIDE DEF d
  <2> QED
    BY <1>2, WholeGiven
<1>4. PICK k \in 1..Len(scene) :
        scene[k].guid = p[1] /\ p[2] \in DOMAIN scene[k].comps \cup TypesIn(scene[k].kept)
  BY <1>1 DEF Has
<1> HIDE DEF d
<1>5. /\ k \in DOMAIN GuidsOf(d) /\ GuidsOf(d)[k] = p[1]
      /\ d.entities[k].components = Components(scene[k])
  BY <1>2, <1>4 DEF Tells
<1>6. p[2] \in TypesIn(Components(scene[k])) \ Excluded
  <2> DEFINE e == scene[k]
  <2>1. Proper(e, gameplay)
    BY <1>1, <1>4 DEF SaneFor
  <2>2. p[2] \in DOMAIN e.comps \cup TypesIn(e.kept)
    BY <1>4
  <2> HIDE DEF e
  <2>3. /\ TypesIn(Components(e)) = DOMAIN e.comps \cup TypesIn(e.kept)
        /\ TypesIn(Components(e)) \cap Excluded = {}
    BY <1>1, <2>1, ComponentsIs
  <2> QED
    BY <2>2, <2>3 DEF e
<1>7. k \in Accepted(d)
  BY <1>5 DEF GuidsOf
<1>8. p = <<p[1], p[2]>>
  BY <1>1
<1>9. p \in {Given(d)[k]} \X (TypesIn(d.entities[k].components) \ Excluded)
  BY <1>3, <1>5, <1>6, <1>8
<1>10. p \in Carried(d)
  BY <1>7, <1>9 DEF Carried
<1> QED
  BY <1>10 DEF d

LEMMA InvCookAgrees == Inv => CookAgrees
<1> SUFFICES ASSUME Inv, Whole(file), Usable(cook, file), ~Stale(cook),
                    gameplay # Forgotten, cook.by \in {NoType, gameplay}
             PROVE  Content(Uncooked(cook)) = Content(Loaded(file))
  BY DEF CookAgrees
<1> DEFINE d == file
           ids == GuidsOf(d)
           t == Loaded(d)
<1>1. /\ GameplayType /\ cook \notin {NoCook, Torn} /\ cook.source = d
      /\ minted \in Nat
  BY MintedIs DEF Inv, TypeInv, Usable
<1>2. PICK s : CookOf(cook, s, minted)
  BY <1>1 DEF Inv, CookInv
<1>3. /\ SaneFor(s, cook.by) /\ DocFor(d, minted) /\ SyncOf(s, cook.by, d)
      /\ cook.by # Forgotten
  <2>1. Forgotten \notin Definitions /\ NoType # Forgotten
    BY TypesAssumption
  <2> QED
    BY <1>1, <1>2, <2>1 DEF CookOf, Definitions
<1>4. Uncooked(cook) = s /\ SaneFor(s, gameplay)
  BY <1>1, <1>2, UncookedIs
<1>5. /\ GivenTo(d, ids) /\ Shaped(Skeleton(d, ids), s)
      /\ \A k \in 1..Len(s) : Represents(s[k], cook.by, Contents(d, ids, s[k].guid))
  BY <1>3 DEF SyncOf, Stands
<1>6. \A k \in 1..Len(s) : Represents(s[k], gameplay, Contents(d, ids, s[k].guid))
  <2>1. CASE cook.by = gameplay
    BY <1>5, <2>1
  <2>2. CASE cook.by = NoType
    <3> SUFFICES ASSUME NEW k \in 1..Len(s)
                 PROVE  Represents(s[k], gameplay, Contents(d, ids, s[k].guid))
      OBVIOUS
    <3>1. Proper(s[k], NoType)
      BY <1>3, <2>2 DEF SaneFor
    <3>2. Gameplay \notin DOMAIN s[k].comps
      BY <3>1, TypesAssumption DEF Proper, LiveIn
    <3> DEFINE e == s[k]
               P == Contents(d, ids, s[k].guid)
    <3>3. Represents(e, NoType, P)
      BY <1>5, <2>2
    <3>4. Proper(e, NoType) /\ Gameplay \notin DOMAIN e.comps
      BY <3>1, <3>2
    <3> HIDE DEF e, P
    <3>5. Represents(e, gameplay, P)
      BY <3>3, <3>4, ProperAnyway
    <3> QED
      BY <3>5 DEF e, P
  <2> QED
    BY <2>1, <2>2
<1>7. t = SecondPass(FirstPass(d, ids), d, ids)
  BY WholeGiven DEF Loaded
<1> HIDE DEF ids, t
<1>8. /\ t \in Seq(EntitySet) /\ Forest(t) /\ Shaped(Skeleton(d, ids), t)
      /\ \A k \in 1..Len(t) : Proper(t[k], gameplay) /\ Exact(t[k], Contents(d, ids, t[k].guid))
  BY <1>1, <1>5, <1>7, PassesAre
<1>9. Sane(s) /\ Sane(t)
  BY <1>4, <1>8, SaneIs DEF SaneFor
<1>10. Shaped(s, t)
  BY <1>5, <1>8, ShapedBack, ShapedTrans
<1> DEFINE C == [k \in 1..Len(s) |-> Contents(d, ids, s[k].guid)]
<1>11. ASSUME NEW k \in 1..Len(s)
       PROVE  /\ C[k] \in Seq(PartSet)
              /\ Represents(s[k], gameplay, C[k]) /\ Represents(t[k], gameplay, C[k])
  <2> DEFINE g == s[k].guid
             P == Contents(d, ids, g)
             e == t[k]
  <2>1. C[k] = P /\ Represents(s[k], gameplay, P)
    BY <1>6
  <2>2. P \in Seq(PartSet)
    <3> HIDE DEF g
    <3> QED
      BY <1>5, ContentsTyped
  <2>3. k \in 1..Len(t) /\ t[k].guid = g
    BY <1>10 DEF Shaped
  <2>4. Exact(e, P)
    BY <1>8, <2>3
  <2> HIDE DEF P, e
  <2>5. Represents(e, gameplay, P)
    BY <1>1, <2>2, <2>4, ExactRepresents
  <2> QED
    BY <2>1, <2>2, <2>5 DEF e
<1> HIDE DEF C
<1>12. Content(t) = Content(s)
  BY <1>1, <1>9, <1>10, <1>11, ContentsAgree
<1> QED
  BY <1>4, <1>12 DEF t

\* Whatever documents it was loaded from and whatever was done to it since, the
\* scene has one entity for each identity, and no parent link leaves it or goes
\* round (createWithGuid, setParent and the two passes of the loader).
THEOREM SceneAlwaysSound == Spec => []Sound
<1>1. Inv => Sound
  BY InvSound
<1> QED
  BY <1>1, SceneFileInv, PTL

\* From every state of the process, the saved document loads as the scene that
\* was saved, entity for entity in its order, with the text of the types that
\* are absent; and saving what was loaded from it changes nothing any more
\* (toYaml, fromYaml).
THEOREM SaveAlwaysRoundTrips == Spec => []SaveRoundTrips
<1>1. Inv => SaveRoundTrips
  BY InvRoundTrips
<1> QED
  BY <1>1, SceneFileInv, PTL

\* A cook that readCook accepts holds what the document beside it holds, unless
\* the module's type has another definition than when the cook was made.
THEOREM CookAlwaysAgrees == Spec => []CookAgrees
<1>1. Inv => CookAgrees
  BY InvCookAgrees
<1> QED
  BY <1>1, SceneFileInv, PTL

\* What a loaded document carried is in what a save would write until somebody
\* takes it away, though its type was absent when it was loaded, came later and
\* was read out of the kept text, or is still absent.
THEOREM OwedAlwaysWritten == Spec => []OwedIsWritten
<1>1. Inv => OwedIsWritten
  BY InvOwed
<1> QED
  BY <1>1, SceneFileInv, PTL

-----------------------------------------------------------------------------
(* What SceneFile assumes of the conversions of values, and Serialize does.  *)

\* The leaves there are.
IsLeaf(t) ==
    \/ t.kind \in {"flag", "text", "guid", "number", "shader"}
    \/ t.kind = "enum" /\ \A name \in DOMAIN t.names : t.names[name] \in Int
    \/ t.kind = "vector" /\ t.size \in Nat
    \/ t.kind \in {"int", "nat"} /\ \E half \in Nat \ {0} : t.range = 2 * half

\* The values of one.  An enumeration that has enumerators has no others.
IsValue(t, v) ==
    CASE t.kind = "flag" -> v \in BOOLEAN
      [] t.kind = "text" -> v.node = "scalar"
      [] t.kind = "enum" -> v \in Int /\ EnumInteger(t, v) = {v}
      [] t.kind = "int" -> v \in Int /\ -t.range <= 2 * v /\ 2 * v < t.range
      [] t.kind = "nat" -> v \in 0..(t.range - 1)
      [] t.kind = "vector" -> v = [i \in 1..t.size |-> v[i]]
      [] t.kind = "shader" -> \E n \in 1..4 : v = [i \in 1..n |-> v[i]]
      [] OTHER -> TRUE

\* A node whose number is an integer, and whose items are in a row.
IsNode(node) ==
    /\ AsNumber(node) \subseteq Int
    /\ node.node = "list" => \E m \in Nat : DOMAIN node.items = 1..m

LEMMA RemainderIs ==
  ASSUME NEW r \in Nat \ {0}, NEW n \in Int
  PROVE  /\ n % r \in 0..(r - 1)
         /\ n \in 0..(r - 1) => n % r = n
         /\ -r <= n /\ n < 0 => n % r = n + r
OBVIOUS

LEMMA NarrowIs ==
  ASSUME NEW t, t.kind \in {"int", "nat"}, IsLeaf(t), NEW n \in Int
  PROVE  /\ IsValue(t, Narrow(t, n))
         /\ IsValue(t, n) => Narrow(t, n) = n
<1>1. PICK half \in Nat \ {0} : t.range = 2 * half
  BY DEF IsLeaf
<1> DEFINE low == n % t.range
<1>2. t.range \in Nat \ {0}
  BY <1>1
<1>3. /\ low \in 0..(t.range - 1)
      /\ n \in 0..(t.range - 1) => low = n
      /\ -t.range <= n /\ n < 0 => low = n + t.range
  BY <1>2, RemainderIs
<1>4. Narrow(t, n) = IF t.kind = "int" /\ 2 * low >= t.range THEN low - t.range ELSE low
  BY DEF Narrow
<1> HIDE DEF low
<1>5. CASE t.kind = "int"
  BY <1>1, <1>2, <1>3, <1>4, <1>5 DEF IsValue
<1>6. CASE t.kind = "nat"
  BY <1>1, <1>2, <1>3, <1>4, <1>6 DEF IsValue
<1> QED
  BY <1>5, <1>6

LEMMA NumberIs ==
  ASSUME NEW n
  PROVE  /\ AsNumber(Number(n)) = {n} /\ AsWord(Number(n)) = {} /\ AsNumbers(Number(n)) = {}
BY DEF AsNumber, AsWord, AsNumbers, Number, Scalar, Reads

LEMMA NumbersAre ==
  ASSUME NEW m \in Nat, NEW v, v = [i \in 1..m |-> v[i]]
  PROVE  /\ AsNumber(Numbers(v)) = {} /\ AsNumbers(Numbers(v)) = {v} /\ Len(v) = m
<1> DEFINE items == [i \in DOMAIN v |-> Number(v[i])]
<1>1. Numbers(v) = [node |-> "list", items |-> items]
  BY DEF Numbers, List
<1>2. DOMAIN v = 1..m /\ DOMAIN items = 1..m
  OBVIOUS
<1>3. \A i \in 1..m : AsNumber(items[i]) = {v[i]} /\ items[i].text[2] = v[i]
  BY NumberIs DEF Number, Scalar
<1>4. AsNumbers(Numbers(v)) = {[i \in 1..m |-> items[i].text[2]]}
  <2> DEFINE node == Numbers(v)
  <2>1. node.node = "list" /\ node.items = items
    BY <1>1
  <2>2. \A i \in DOMAIN node.items : AsNumber(node.items[i]) # {}
    BY <1>2, <1>3, <2>1
  <2> HIDE DEF node, items
  <2>3. AsNumbers(node) = {[i \in DOMAIN node.items |-> node.items[i].text[2]]}
    BY <2>1, <2>2 DEF AsNumbers
  <2> QED
    BY <1>2, <2>1, <2>3 DEF node
<1>5. [i \in 1..m |-> items[i].text[2]] = v
  BY <1>3
<1>6. AsNumber(Numbers(v)) = {}
  BY <1>1 DEF AsNumber, Reads
<1>7. Len(v) = m
  BY <1>2
<1> QED
  BY <1>4, <1>5, <1>6, <1>7

LEMMA LeafComesBack ==
  ASSUME NEW t, IsLeaf(t), NEW v, IsValue(t, v)
  PROVE  ReadLeaf(t, WriteLeaf(t, v)) = {v} /\ UncookLeaf(t, CookLeaf(t, v)) = {v}
<1> DEFINE node == WriteLeaf(t, v)
<1>1. UncookLeaf(t, CookLeaf(t, v)) = {v}
  BY DEF UncookLeaf, CookLeaf, IsValue
<1>2. CASE t.kind = "flag"
  <2>1. v \in BOOLEAN /\ node = Scalar("word", IF v THEN "true" ELSE "false")
    BY <1>2 DEF IsValue, WriteLeaf
  <2>2. ReadLeaf(t, node) = AsFlag(node)
    BY <1>2 DEF ReadLeaf
  <2> HIDE DEF node
  <2>3. CASE v = TRUE
    <3>1. node = [node |-> "scalar", text |-> <<"word", "true">>]
      BY <2>1, <2>3 DEF Scalar
    <3>2. AsFlag(node) = {TRUE}
      BY <3>1 DEF AsFlag, Scalar
    <3> QED
      BY <2>2, <2>3, <3>2, <1>1 DEF node
  <2>4. CASE v = FALSE
    <3>1. node = [node |-> "scalar", text |-> <<"word", "false">>]
      BY <2>1, <2>4 DEF Scalar
    <3>2. AsFlag(node) = {FALSE}
      BY <3>1 DEF AsFlag, Scalar
    <3> QED
      BY <2>2, <2>4, <3>2, <1>1 DEF node
  <2> QED
    BY <2>1, <2>3, <2>4
<1>3. CASE t.kind = "text"
  BY <1>1, <1>3 DEF IsValue, WriteLeaf, ReadLeaf
<1>4. CASE t.kind = "guid"
  <2>1. node = [node |-> "scalar", text |-> <<"guid", v>>] /\ ReadLeaf(t, node) = AsGuid(node)
    BY <1>4 DEF WriteLeaf, ReadLeaf, Scalar
  <2> QED
    BY <2>1, <1>1 DEF AsGuid, Reads
<1>5. CASE t.kind = "enum"
  <2>1. v \in Int /\ EnumInteger(t, v) = {v}
    BY <1>5 DEF IsValue
  <2>2. ReadLeaf(t, node) = (UNION {EnumInteger(t, n) : n \in AsNumber(node)}) \cup
                            (UNION {EnumNamed(t, w) : w \in AsWord(node)})
    BY <1>5 DEF ReadLeaf
  <2>3. CASE NamesOf(t, v) = {}
    <3>1. node = Number(v)
      BY <1>5, <2>3 DEF WriteLeaf
    <3> QED
      BY <1>1, <2>1, <2>2, <3>1, NumberIs
  <2>4. CASE NamesOf(t, v) # {}
    <3> DEFINE name == CHOOSE name \in NamesOf(t, v) : TRUE
    <3>1. name \in NamesOf(t, v)
      BY <2>4
    <3>2. node = Scalar("word", name)
      BY <1>5, <2>4 DEF WriteLeaf
    <3> HIDE DEF name, node
    <3>3. AsWord(node) = {name} /\ AsNumber(node) = {}
      BY <3>2 DEF AsWord, AsNumber, Reads, Scalar
    <3>4. EnumNamed(t, name) = {v}
      BY <3>1 DEF NamesOf, EnumNamed
    <3>5. /\ (UNION {EnumInteger(t, n) : n \in AsNumber(node)}) = {}
          /\ (UNION {EnumNamed(t, w) : w \in AsWord(node)}) = {v}
      BY <3>3, <3>4
    <3>6. ReadLeaf(t, node) = {v}
      BY <2>2, <3>5
    <3> QED
      BY <1>1, <3>6 DEF node
  <2> QED
    BY <2>3, <2>4
<1>6. CASE t.kind = "int"
  <2>1. v \in Int /\ node = Number(v) /\ ReadLeaf(t, node) = {Narrow(t, n) : n \in AsNumber(node)}
    BY <1>6 DEF IsValue, WriteLeaf, ReadLeaf
  <2>2. Narrow(t, v) = v
    BY <2>1, <1>6, NarrowIs
  <2> QED
    BY <1>1, <2>1, <2>2, NumberIs
<1>7. CASE t.kind = "nat"
  <2>0. t.range \in Int
    BY <1>7 DEF IsLeaf
  <2>1. v \in Nat /\ node = Number(v) /\ ReadLeaf(t, node) = {Narrow(t, n) : n \in AsNatural(node)}
    BY <1>7, <2>0 DEF IsValue, WriteLeaf, ReadLeaf
  <2>2. Narrow(t, v) = v
    BY <2>1, <1>7, NarrowIs
  <2>3. AsNatural(node) = {v}
    BY <2>1, NumberIs DEF AsNatural
  <2> QED
    BY <1>1, <2>1, <2>2, <2>3
<1>8. CASE t.kind = "number"
  <2>1. node = Number(v) /\ ReadLeaf(t, node) = AsNumber(node)
    BY <1>8 DEF WriteLeaf, ReadLeaf
  <2> QED
    BY <1>1, <2>1, NumberIs
<1>9. CASE t.kind = "vector"
  <2>1. node = Numbers(v) /\ ReadLeaf(t, node) = {s \in AsNumbers(node) : Len(s) = t.size}
    BY <1>9 DEF WriteLeaf, ReadLeaf
  <2>2. t.size \in Nat /\ v = [i \in 1..t.size |-> v[i]]
    BY <1>9 DEF IsLeaf, IsValue
  <2>3. AsNumbers(node) = {v} /\ Len(v) = t.size
    BY <2>1, <2>2, NumbersAre
  <2> QED
    BY <1>1, <2>1, <2>3
<1>10. CASE t.kind = "shader"
  <2>1. /\ node = IF Len(v) = 1 THEN Number(v[1]) ELSE Numbers(v)
        /\ ReadLeaf(t, node) = {<<n>> : n \in AsNumber(node)} \cup
                               {s \in AsNumbers(node) : Len(s) \in 1..4}
    BY <1>10 DEF WriteLeaf, ReadLeaf
  <2>2. PICK m \in 1..4 : v = [i \in 1..m |-> v[i]]
    BY <1>10 DEF IsValue
  <2>3. Len(v) = m
    BY <2>2
  <2> HIDE DEF node
  <2>4. CASE m = 1
    <3>1. node = Number(v[1])
      BY <2>1, <2>3, <2>4
    <3>2. <<v[1]>> = v
      BY <2>2, <2>4
    <3>3. AsNumber(node) = {v[1]} /\ AsNumbers(node) = {}
      BY <3>1, NumberIs
    <3> QED
      BY <1>1, <2>1, <3>2, <3>3 DEF node
  <2>5. CASE m # 1
    <3>1. node = Numbers(v)
      BY <2>1, <2>3, <2>5
    <3>2. AsNumber(node) = {} /\ AsNumbers(node) = {v}
      BY <3>1, <2>2, NumbersAre
    <3> QED
      BY <1>1, <2>1, <2>3, <3>2 DEF node
  <2> QED
    BY <2>4, <2>5
<1> QED
  BY <1>2, <1>3, <1>4, <1>5, <1>6, <1>7, <1>8, <1>9, <1>10 DEF IsLeaf

LEMMA NumbersRead ==
  ASSUME NEW node, IsNode(node), NEW v \in AsNumbers(node)
  PROVE  v = [i \in 1..Len(v) |-> v[i]]
<1>1. node.node = "list" /\ v = [i \in DOMAIN node.items |-> node.items[i].text[2]]
  BY DEF AsNumbers
<1>2. PICK m \in Nat : DOMAIN node.items = 1..m
  BY <1>1 DEF IsNode
<1>3. v = [i \in 1..m |-> node.items[i].text[2]]
  BY <1>1, <1>2
<1>4. Len(v) = m
  BY <1>3
<1> QED
  BY <1>3, <1>4

\* Whatever a scalar or a list in a document says, what a leaf reads of it is
\* one of its values: numbers wrap to the width of the field, an enumeration
\* takes what has an enumerator (readLeaf, assignEnumInteger).
THEOREM LeavesReadValues ==
  ASSUME NEW t, IsLeaf(t), NEW node, IsNode(node), NEW v \in ReadLeaf(t, node)
  PROVE  IsValue(t, v)
<1>1. CASE t.kind = "flag"
  <2>1. v \in AsFlag(node)
    BY <1>1 DEF ReadLeaf
  <2> QED
    BY <2>1, <1>1 DEF AsFlag, IsValue
<1>2. CASE t.kind = "text"
  BY <1>2 DEF ReadLeaf, IsValue
<1>3. CASE t.kind = "guid"
  BY <1>3 DEF IsValue
<1>4. CASE t.kind = "enum"
  <2>1. \/ \E n \in AsNumber(node) : v \in EnumInteger(t, n)
        \/ \E w \in AsWord(node) : v \in EnumNamed(t, w)
    <3> DEFINE A == UNION {EnumInteger(t, n) : n \in AsNumber(node)}
               B == UNION {EnumNamed(t, w) : w \in AsWord(node)}
    <3>1. ReadLeaf(t, node) = A \cup B
      BY <1>4 DEF ReadLeaf
    <3>2. v \in A => \E n \in AsNumber(node) : v \in EnumInteger(t, n)
      OBVIOUS
    <3>3. v \in B => \E w \in AsWord(node) : v \in EnumNamed(t, w)
      OBVIOUS
    <3> HIDE DEF A, B
    <3> QED
      BY <3>1, <3>2, <3>3
  <2>2. \A n \in Int : v \in EnumInteger(t, n) => v = n /\ EnumInteger(t, v) = {v}
    BY DEF EnumInteger
  <2>3. ASSUME NEW w, v \in EnumNamed(t, w)  PROVE  v \in Int /\ EnumInteger(t, v) = {v}
    BY <2>3, <1>4 DEF EnumNamed, EnumInteger, NamesOf, IsLeaf
  <2>4. v \in Int /\ EnumInteger(t, v) = {v}
    BY <2>1, <2>2, <2>3 DEF IsNode
  <2> QED
    BY <2>4, <1>4 DEF IsValue
<1>5. CASE t.kind = "int"
  <2>1. PICK n \in AsNumber(node) : v = Narrow(t, n)
    BY <1>5 DEF ReadLeaf
  <2> QED
    BY <2>1, <1>5, NarrowIs DEF IsNode
<1>6. CASE t.kind = "nat"
  <2>1. PICK n \in AsNatural(node) : v = Narrow(t, n)
    BY <1>6 DEF ReadLeaf
  <2>2. n \in Int
    BY <2>1 DEF AsNatural, IsNode
  <2> QED
    BY <2>1, <2>2, <1>6, NarrowIs
<1>7. CASE t.kind = "number"
  BY <1>7 DEF IsValue
<1>8. CASE t.kind = "vector"
  <2>1. v \in AsNumbers(node) /\ Len(v) = t.size
    BY <1>8 DEF ReadLeaf
  <2>2. v = [i \in 1..Len(v) |-> v[i]]
    BY <2>1, NumbersRead
  <2> QED
    BY <2>1, <2>2, <1>8 DEF IsValue
<1>9. CASE t.kind = "shader"
  <2> SUFFICES \E n \in 1..4 : v = [i \in 1..n |-> v[i]]
    BY <1>9 DEF IsValue
  <2>1. \/ \E n \in AsNumber(node) : v = <<n>>
        \/ v \in AsNumbers(node) /\ Len(v) \in 1..4
    BY <1>9 DEF ReadLeaf
  <2>2. ASSUME NEW n, v = <<n>>  PROVE  v = [i \in 1..1 |-> v[i]]
    BY <2>2
  <2>3. v \in AsNumbers(node) => v = [i \in 1..Len(v) |-> v[i]]
    BY NumbersRead
  <2> QED
    BY <2>1, <2>2, <2>3
<1> QED
  BY <1>1, <1>2, <1>3, <1>4, <1>5, <1>6, <1>7, <1>8, <1>9 DEF IsLeaf

LEMMA NodesAreThere ==
  /\ \A t, v : IsLeaf(t) /\ IsValue(t, v) => WriteLeaf(t, v) # Absent
  /\ \A items : List(items) # Absent
  /\ \A entries : Map(entries) # Absent
<1>1. \A items : List(items) # Absent
  BY DEF List, Absent
<1>2. \A entries : Map(entries) # Absent
  BY DEF Map, Absent
<1>3. \A as, text : Scalar(as, text) # Absent
  BY DEF Scalar, Absent
<1>4. ASSUME NEW t, NEW v, IsLeaf(t), IsValue(t, v)  PROVE  WriteLeaf(t, v) # Absent
  <2>1. CASE t.kind = "text"
    BY <2>1, <1>4 DEF WriteLeaf, IsValue, Absent
  <2>2. CASE t.kind \in {"flag", "guid"}
    BY <2>2, <1>3 DEF WriteLeaf
  <2>3. CASE t.kind = "enum"
    BY <2>3, <1>3 DEF WriteLeaf, Number
  <2>4. CASE t.kind = "vector"
    BY <2>4, <1>1 DEF WriteLeaf, Numbers
  <2>5. CASE t.kind = "shader"
    BY <2>5, <1>1, <1>3 DEF WriteLeaf, Numbers, Number
  <2>6. CASE t.kind \in {"int", "nat", "number"}
    BY <2>6, <1>3 DEF WriteLeaf, Number
  <2> QED
    BY <1>4, <2>1, <2>2, <2>3, <2>4, <2>5, <2>6 DEF IsLeaf
<1> QED
  BY <1>1, <1>2, <1>4

LEMMA CompleteIs ==
  ASSUME NEW v, v = [i \in DOMAIN v |-> v[i]], NEW read, DOMAIN read = DOMAIN v,
         \A i \in DOMAIN v : read[i] = {v[i]}
  PROVE  Complete(read) = {v}
<1>1. Complete(read) = {[i \in DOMAIN read |-> CHOOSE x \in read[i] : TRUE]}
  BY DEF Complete
<1>2. \A i \in DOMAIN v : (CHOOSE x \in read[i] : TRUE) = v[i]
  OBVIOUS
<1>3. [i \in DOMAIN read |-> CHOOSE x \in read[i] : TRUE] = v
  BY <1>2
<1> QED
  BY <1>1, <1>3

LEMMA UpdatedIs ==
  ASSUME NEW v, v = [f \in DOMAIN v |-> v[f]], NEW current, NEW read, DOMAIN read = DOMAIN v,
         \A f \in DOMAIN v : read[f] = {v[f]}
  PROVE  Updated(current, read) = v
<1>1. \A f \in DOMAIN v : (IF read[f] = {} THEN current[f] ELSE CHOOSE x \in read[f] : TRUE) = v[f]
  OBVIOUS
<1>2. Updated(current, read) =
        [f \in DOMAIN v |-> IF read[f] = {} THEN current[f] ELSE CHOOSE x \in read[f] : TRUE]
  BY DEF Updated
<1> QED
  BY <1>1, <1>2

\* Pairs of a type and a value, with the parts each is made of: objects that
\* have properties, and sequences of leaves or of such objects.
MadeOfParts(S, depth) ==
    /\ depth \in [S -> Nat]
    /\ \A p \in S :
         \/ /\ p[1].kind \notin {"sequence", "object"}
            /\ IsLeaf(p[1]) /\ IsValue(p[1], p[2])
         \/ /\ p[1].kind = "sequence" /\ p[1].of.kind # "sequence"
            /\ p[2] = [i \in DOMAIN p[2] |-> p[2][i]]
            /\ \A i \in DOMAIN p[2] : /\ <<p[1].of, p[2][i]>> \in S
                                      /\ depth[<<p[1].of, p[2][i]>>] < depth[p]
         \/ /\ p[1].kind = "object" /\ DOMAIN p[1].fields # {}
            /\ p[2] = [f \in DOMAIN p[1].fields |-> p[2][f]]
            /\ \A f \in DOMAIN p[1].fields : /\ <<p[1].fields[f], p[2][f]>> \in S
                                             /\ depth[<<p[1].fields[f], p[2][f]>>] < depth[p]

\* What is written to a document, or cooked, is what is read back, over
\* whatever was there, for objects in objects and sequences of objects to any
\* depth; a sequence in a sequence is not written.  The operators are any that
\* do with the parts of a value what writeReflected, readInto, cookValue and
\* uncookValue do, each calling itself.
THEOREM ReflectedValuesComeBack ==
  ASSUME NEW S, NEW depth, MadeOfParts(S, depth),
         NEW Default(_), NEW WriteValue(_, _), NEW ReadInto(_, _, _),
         NEW CookValue(_, _), NEW UncookValue(_, _, _),
         \A p \in S :
            LET t == p[1]
                v == p[2]
            IN  CASE t.kind = "sequence" ->
                       /\ WriteValue(t, v) = WriteSequence(t, v, WriteValue)
                       /\ CookValue(t, v) = CookSequence(t, v, CookValue)
                       /\ \A node, current : ReadInto(t, node, current) =
                            ReadSequence(t, node, Default(t.of), ReadInto)
                       /\ \A c, current : UncookValue(t, c, current) =
                            UncookSequence(t, c, Default(t.of), UncookValue)
                  [] t.kind = "object" ->
                       /\ WriteValue(t, v) = WriteObject(t, v, WriteValue)
                       /\ CookValue(t, v) = CookObject(t, v, CookValue)
                       /\ \A node, current :
                            ReadInto(t, node, current) = ReadObject(t, node, current, ReadInto)
                       /\ \A c, current :
                            UncookValue(t, c, current) = UncookObject(t, c, current, UncookValue)
                  [] OTHER ->
                       /\ WriteValue(t, v) = {WriteLeaf(t, v)}
                       /\ CookValue(t, v) = {CookLeaf(t, v)}
                       /\ \A node, current : ReadInto(t, node, current) = ReadLeafOver(t, node, current)
                       /\ \A c, current : UncookValue(t, c, current) = UncookLeaf(t, c)
  PROVE  \A p \in S : \E node, cooked :
            /\ WriteValue(p[1], p[2]) = {node} /\ CookValue(p[1], p[2]) = {cooked}
            /\ \A current : /\ ReadInto(p[1], node, current) = {p[2]}
                            /\ UncookValue(p[1], cooked, current) = {p[2]}
<1> DEFINE Comes(p, node, cooked) ==
              /\ WriteValue(p[1], p[2]) = {node} /\ CookValue(p[1], p[2]) = {cooked}
              /\ node # Absent
              /\ \A current : /\ ReadInto(p[1], node, current) = {p[2]}
                              /\ UncookValue(p[1], cooked, current) = {p[2]}
           Good(p) == \E node, cooked : Comes(p, node, cooked)
           Bad == {p \in S : ~Good(p)}
           The(values) == CHOOSE x \in values : TRUE
<1>1. ASSUME NEW p \in S, \A q \in S : depth[q] < depth[p] => Good(q)
      PROVE  Good(p)
  <2> DEFINE t == p[1]
             v == p[2]
  <2>1. CASE t.kind = "sequence"
    <3> DEFINE items == [i \in DOMAIN v |-> The(WriteValue(t.of, v[i]))]
               parts == [i \in DOMAIN v |-> The(CookValue(t.of, v[i]))]
    <3>1. /\ v = [i \in DOMAIN v |-> v[i]] /\ t.of.kind # "sequence"
          /\ \A i \in DOMAIN v : <<t.of, v[i]>> \in S /\ depth[<<t.of, v[i]>>] < depth[p]
      BY <2>1 DEF MadeOfParts
    <3>2. \A i \in DOMAIN v : Good(<<t.of, v[i]>>)
      BY <3>1, <1>1
    <3>3. \A i \in DOMAIN v : Comes(<<t.of, v[i]>>, items[i], parts[i])
      <4> SUFFICES ASSUME NEW i \in DOMAIN v PROVE Comes(<<t.of, v[i]>>, items[i], parts[i])
        OBVIOUS
      <4>1. PICK node, cooked : Comes(<<t.of, v[i]>>, node, cooked)
        BY <3>2
      <4>2. items[i] = node /\ parts[i] = cooked
        BY <4>1
      <4> HIDE DEF items, parts
      <4> QED
        BY <4>1, <4>2
    <3> HIDE DEF The
    <3>4. /\ WriteValue(t, v) = WriteSequence(t, v, WriteValue)
          /\ CookValue(t, v) = CookSequence(t, v, CookValue)
          /\ \A node, current : ReadInto(t, node, current) =
               ReadSequence(t, node, Default(t.of), ReadInto)
          /\ \A c, current : UncookValue(t, c, current) =
               UncookSequence(t, c, Default(t.of), UncookValue)
      BY <2>1
    <3>5. /\ DOMAIN items = DOMAIN v /\ DOMAIN parts = DOMAIN v
          /\ items = [i \in DOMAIN items |-> items[i]] /\ parts = [i \in DOMAIN parts |-> parts[i]]
          /\ \A i \in DOMAIN v :
                /\ WriteValue(t.of, v[i]) = {items[i]} /\ CookValue(t.of, v[i]) = {parts[i]}
                /\ ReadInto(t.of, items[i], Default(t.of)) = {v[i]}
                /\ UncookValue(t.of, parts[i], Default(t.of)) = {v[i]}
      BY <3>3
    <3> HIDE DEF items, parts
    <3>6. WriteValue(t, v) = {List(items)}
      <4> DEFINE given == [i \in DOMAIN v |-> AsElement(t.of, WriteValue(t.of, v[i]))]
      <4>1. DOMAIN given = DOMAIN items /\ \A i \in DOMAIN items : given[i] = {items[i]}
        BY <3>1, <3>5 DEF AsElement
      <4>2. WriteSequence(t, v, WriteValue) = {List(s) : s \in Complete(given)}
        BY DEF WriteSequence
      <4> HIDE DEF given
      <4>3. Complete(given) = {items}
        BY <3>5, <4>1, CompleteIs
      <4> QED
        BY <3>4, <4>2, <4>3
    <3>7. CookValue(t, v) = {parts}
      <4> DEFINE given == [i \in DOMAIN v |-> CookValue(t.of, v[i])]
      <4>1. DOMAIN given = DOMAIN parts /\ \A i \in DOMAIN parts : given[i] = {parts[i]}
        BY <3>5
      <4>2. CookSequence(t, v, CookValue) = Complete(given)
        BY DEF CookSequence
      <4> HIDE DEF given
      <4>3. Complete(given) = {parts}
        BY <3>5, <4>1, CompleteIs
      <4> QED
        BY <3>4, <4>2, <4>3
    <3>8. ASSUME NEW current
          PROVE  ReadInto(t, List(items), current) = {v} /\ UncookValue(t, parts, current) = {v}
      <4> DEFINE read == [i \in DOMAIN items |-> AsElement(t.of, ReadInto(t.of, items[i], Default(t.of)))]
                 got == [i \in DOMAIN parts |-> UncookValue(t.of, parts[i], Default(t.of))]
      <4>1. List(items).node = "list" /\ List(items).items = items
        BY DEF List
      <4>2. ReadInto(t, List(items), current) = Complete(read)
        BY <3>4, <4>1 DEF ReadSequence
      <4>3. UncookValue(t, parts, current) = Complete(got)
        BY <3>4 DEF UncookSequence
      <4>4. DOMAIN read = DOMAIN v /\ \A i \in DOMAIN v : read[i] = {v[i]}
        BY <3>1, <3>5 DEF AsElement
      <4>5. DOMAIN got = DOMAIN v /\ \A i \in DOMAIN v : got[i] = {v[i]}
        BY <3>5
      <4> HIDE DEF read, got
      <4>6. Complete(read) = {v} /\ Complete(got) = {v}
        BY <3>1, <4>4, <4>5, CompleteIs
      <4> QED
        BY <4>2, <4>3, <4>6
    <3>9. List(items) # Absent
      BY NodesAreThere
    <3> QED
      BY <3>6, <3>7, <3>8, <3>9
  <2>2. CASE t.kind = "object"
    <3> DEFINE F == DOMAIN t.fields
               entries == [f \in F |-> The(WriteValue(t.fields[f], v[f]))]
               parts == [f \in F |-> The(CookValue(t.fields[f], v[f]))]
    <3>1. /\ v = [f \in F |-> v[f]] /\ F # {}
          /\ \A f \in F : <<t.fields[f], v[f]>> \in S /\ depth[<<t.fields[f], v[f]>>] < depth[p]
      BY <2>2 DEF MadeOfParts
    <3>2. \A f \in F : Good(<<t.fields[f], v[f]>>)
      BY <3>1, <1>1
    <3>3. \A f \in F : Comes(<<t.fields[f], v[f]>>, entries[f], parts[f])
      <4> SUFFICES ASSUME NEW f \in F PROVE Comes(<<t.fields[f], v[f]>>, entries[f], parts[f])
        OBVIOUS
      <4>1. PICK node, cooked : Comes(<<t.fields[f], v[f]>>, node, cooked)
        BY <3>2
      <4>2. entries[f] = node /\ parts[f] = cooked
        BY <4>1
      <4> HIDE DEF entries, parts
      <4> QED
        BY <4>1, <4>2
    <3> HIDE DEF The
    <3>4. /\ WriteValue(t, v) = WriteObject(t, v, WriteValue)
          /\ CookValue(t, v) = CookObject(t, v, CookValue)
          /\ \A node, current : ReadInto(t, node, current) = ReadObject(t, node, current, ReadInto)
          /\ \A c, current : UncookValue(t, c, current) = UncookObject(t, c, current, UncookValue)
      BY <2>2
    <3>5. /\ DOMAIN entries = F /\ DOMAIN parts = F /\ DOMAIN v = F
          /\ entries = [f \in DOMAIN entries |-> entries[f]] /\ parts = [f \in DOMAIN parts |-> parts[f]]
          /\ v = [f \in DOMAIN v |-> v[f]]
          /\ \A f \in F :
                /\ WriteValue(t.fields[f], v[f]) = {entries[f]}
                /\ CookValue(t.fields[f], v[f]) = {parts[f]} /\ entries[f] # Absent
                /\ \A current : /\ ReadInto(t.fields[f], entries[f], current) = {v[f]}
                                /\ UncookValue(t.fields[f], parts[f], current) = {v[f]}
      BY <3>1, <3>3
    <3> HIDE DEF entries, parts
    <3>6. WriteValue(t, v) = {Map(entries)}
      <4> DEFINE given == [f \in F |-> WriteValue(t.fields[f], v[f])]
      <4>1. DOMAIN given = DOMAIN entries /\ \A f \in DOMAIN entries : given[f] = {entries[f]}
        BY <3>5
      <4>2. WriteObject(t, v, WriteValue) = {Map(s) : s \in Complete(given)}
        BY <3>1 DEF WriteObject, IfDescribed
      <4> HIDE DEF given
      <4>3. Complete(given) = {entries}
        BY <3>5, <4>1, CompleteIs
      <4> QED
        BY <3>4, <4>2, <4>3
    <3>7. CookValue(t, v) = {parts}
      <4> DEFINE given == [f \in F |-> CookValue(t.fields[f], v[f])]
      <4>1. DOMAIN given = DOMAIN parts /\ \A f \in DOMAIN parts : given[f] = {parts[f]}
        BY <3>5
      <4>2. CookObject(t, v, CookValue) = Complete(given)
        BY <3>1 DEF CookObject, IfDescribed
      <4> HIDE DEF given
      <4>3. Complete(given) = {parts}
        BY <3>5, <4>1, CompleteIs
      <4> QED
        BY <3>4, <4>2, <4>3
    <3>8. ASSUME NEW current
          PROVE  ReadInto(t, Map(entries), current) = {v} /\ UncookValue(t, parts, current) = {v}
      <4> DEFINE node == Map(entries)
                 read == [f \in F |-> LET child == Child(node, f)
                                      IN  IF child = Absent THEN {}
                                          ELSE ReadInto(t.fields[f], child, current[f])]
                 got == [f \in F |-> IF f \in DOMAIN parts
                                     THEN UncookValue(t.fields[f], parts[f], current[f]) ELSE {}]
      <4>1. \A f \in F : Child(node, f) = entries[f]
        BY <3>5 DEF Child, Map
      <4>2. DOMAIN read = DOMAIN v /\ \A f \in DOMAIN v : read[f] = {v[f]}
        BY <3>5, <4>1
      <4>3. DOMAIN got = DOMAIN v /\ \A f \in DOMAIN v : got[f] = {v[f]}
        BY <3>5
      <4>4. ReadInto(t, node, current) = {Updated(current, read)}
        <5>1. ReadObject(t, node, current, ReadInto) = IfDescribed(t, {Updated(current, read)})
          BY DEF ReadObject
        <5>2. IfDescribed(t, {Updated(current, read)}) = {Updated(current, read)}
          BY <3>1 DEF IfDescribed
        <5> QED
          BY <3>4, <5>1, <5>2
      <4>5. UncookValue(t, parts, current) = {Updated(current, got)}
        BY <3>1, <3>4 DEF UncookObject, IfDescribed
      <4> HIDE DEF read, got, node
      <4>6. Updated(current, read) = v /\ Updated(current, got) = v
        BY <3>5, <4>2, <4>3, UpdatedIs
      <4> QED
        BY <4>4, <4>5, <4>6 DEF node
    <3>9. Map(entries) # Absent
      BY NodesAreThere
    <3> QED
      BY <3>6, <3>7, <3>8, <3>9
  <2>3. CASE t.kind \notin {"sequence", "object"}
    <3>1. IsLeaf(t) /\ IsValue(t, v)
      BY <2>3 DEF MadeOfParts
    <3>2. /\ WriteValue(t, v) = {WriteLeaf(t, v)}
          /\ CookValue(t, v) = {CookLeaf(t, v)}
          /\ \A node, current : ReadInto(t, node, current) = ReadLeafOver(t, node, current)
          /\ \A c, current : UncookValue(t, c, current) = UncookLeaf(t, c)
      BY <2>3
    <3>3. /\ ReadLeaf(t, WriteLeaf(t, v)) = {v} /\ UncookLeaf(t, CookLeaf(t, v)) = {v}
          /\ WriteLeaf(t, v) # Absent
      BY <3>1, LeafComesBack, NodesAreThere
    <3>4. \A current : ReadLeafOver(t, WriteLeaf(t, v), current) = {v}
      BY <3>3 DEF ReadLeafOver
    <3> QED
      BY <3>2, <3>3, <3>4
  <2> QED
    BY <2>1, <2>2, <2>3
<1>2. SUFFICES Bad = {}
  OBVIOUS
<1> HIDE DEF Good, Comes
<1>3. SUFFICES ASSUME Bad # {}  PROVE  FALSE
  OBVIOUS
<1> DEFINE D == {depth[p] : p \in Bad}
<1>4. D \in SUBSET Nat /\ D # {}
  <2>1. depth \in [S -> Nat] /\ Bad \subseteq S
    BY DEF MadeOfParts
  <2> HIDE DEF Bad
  <2> QED
    BY <1>3, <2>1
<1>5. PICK n \in D : \A m \in D : ~(m < n)
  <2> HIDE DEF D
  <2> QED
    BY <1>4, Least
<1>6. PICK p \in Bad : depth[p] = n
  BY <1>5
<1>7. ASSUME NEW q \in S, depth[q] < depth[p]  PROVE  Good(q)
  BY <1>5, <1>6, <1>7
<1> QED
  BY <1>1, <1>6, <1>7
=============================================================================
