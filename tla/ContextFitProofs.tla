--------------------------- MODULE ContextFitProofs ---------------------------
(***************************************************************************)
(* Proofs about ContextFit, for every value of the constants: every cut of *)
(* the history, the window and the request keeps the exchanges of calls    *)
(* and results whole, and a request is refused only if what is pinned does *)
(* not fit.  In order: the recursive helpers; what keeps a sequence of     *)
(* messages whole; the fitter; the window; the history; the session; the   *)
(* request; the invariant.                                                 *)
(***************************************************************************)
EXTENDS ContextFit, FiniteSetTheorems, SequenceTheorems, TLAPS

-----------------------------------------------------------------------------
(* Induction over sets, and the recursive helpers.                         *)

\* A set that has zero and with every number the next has them all: else the
\* part of it below a number it lacks would have a proper part of its own size.
LEMMA SetInduction ==
    ASSUME NEW T, 0 \in T, \A n \in Nat : n \in T => n + 1 \in T
    PROVE  \A n \in Nat : n \in T
<1> SUFFICES ASSUME NEW m \in Nat, m \notin T PROVE FALSE
    OBVIOUS
<1> DEFINE A == T \cap (0 .. m)
           B == A \ {0}
           f == [n \in A |-> n + 1]
<1>1. IsFiniteSet(A) /\ 0 \in A
    <2>1. IsFiniteSet(0 .. m)
        BY FS_Interval
    <2> QED BY <2>1, FS_Subset
<1>2. \A n \in A : n + 1 \in B
    <2> SUFFICES ASSUME NEW n \in A PROVE n + 1 \in B
        OBVIOUS
    <2>1. n \in Nat /\ n <= m /\ n # m /\ n \in T
        OBVIOUS
    <2>2. n + 1 \in 0 .. m /\ n + 1 # 0 /\ n + 1 \in T
        BY <2>1
    <2> QED BY <2>2
<1>3. f \in Injection(A, B)
    BY <1>2 DEF Injection, IsInjective
<1>4. IsFiniteSet(B) /\ Cardinality(B) = Cardinality(A) - 1
    <2> HIDE DEF A
    <2> QED BY <1>1, FS_RemoveElement
<1> HIDE DEF f, B
<1>5. Cardinality(A) <= Cardinality(B)
    BY <1>3, <1>4, FS_Injection
<1>6. Cardinality(A) \in Nat
    BY <1>1, FS_CardinalityType
<1> QED BY <1>4, <1>5, <1>6

\* A finite set of numbers has a greatest, which Max returns.
LEMMA MaxIs ==
    ASSUME NEW S \in SUBSET Int, IsFiniteSet(S), S # {}
    PROVE  Max(S) \in S /\ \A x \in S : x <= Max(S)
<1> DEFINE Has(R) == \E m \in R : \A x \in R : x <= m
           T == {k \in Nat : \A R \in SUBSET Int :
                    IsFiniteSet(R) /\ Cardinality(R) = k + 1 => Has(R)}
<1>1. 0 \in T
    <2> SUFFICES ASSUME NEW R \in SUBSET Int, IsFiniteSet(R), Cardinality(R) = 0 + 1
                 PROVE Has(R)
        OBVIOUS
    <2>1. Cardinality(R) = 1
        OBVIOUS
    <2>2. \E r : R = {r}
        BY <2>1, FS_Singleton, Zenon
    <2>3. PICK r : R = {r}
        BY <2>2
    <2>4. r \in R /\ \A x \in R : x = r
        BY <2>3
    <2> QED BY <2>4
<1>2. ASSUME NEW k \in Nat, k \in T PROVE k + 1 \in T
    <2> SUFFICES ASSUME NEW R \in SUBSET Int, IsFiniteSet(R), Cardinality(R) = (k + 1) + 1
                 PROVE Has(R)
        OBVIOUS
    <2>1. R # {}
        BY FS_EmptySet
    <2>2. PICK r \in R : TRUE
        BY <2>1
    <2>3. IsFiniteSet(R \ {r}) /\ Cardinality(R \ {r}) = k + 1
        BY FS_RemoveElement
    <2>4. PICK m \in R \ {r} : \A x \in R \ {r} : x <= m
        BY <1>2, <2>3
    <2>5. CASE r <= m
        BY <2>4, <2>5
    <2>6. CASE ~ (r <= m)
        BY <2>4, <2>6
    <2> QED BY <2>5, <2>6
<1>3. \A k \in Nat : k \in T
    <2> HIDE DEF T
    <2> QED BY <1>1, <1>2, SetInduction
<1>4. Cardinality(S) \in Nat /\ Cardinality(S) # 0
    BY FS_CardinalityType, FS_EmptySet
<1>5. Has(S)
    <2>1. Cardinality(S) - 1 \in T /\ (Cardinality(S) - 1) + 1 = Cardinality(S)
        BY <1>3, <1>4
    <2> QED BY <2>1
<1> QED BY <1>5 DEF Max

\* A finite set of numbers has a least, which Min returns.
LEMMA MinIs ==
    ASSUME NEW S \in SUBSET Int, IsFiniteSet(S), S # {}
    PROVE  Min(S) \in S /\ \A x \in S : Min(S) <= x
<1> DEFINE f == [x \in S |-> - x]
           R == {- x : x \in S}
<1>1. IsFiniteSet(R) /\ R \in SUBSET Int /\ R # {}
    <2>1. IsFiniteSet(R)
        <3>1. f \in Surjection(S, R)
            BY DEF Surjection
        <3> HIDE DEF f, R
        <3> QED BY <3>1, FS_Surjection
    <2>2. R \in SUBSET Int /\ R # {}
        OBVIOUS
    <2> QED BY <2>1, <2>2
<1>2. Max(R) \in R /\ \A x \in R : x <= Max(R)
    <2> HIDE DEF R
    <2> QED BY <1>1, MaxIs
<1>3. PICK m \in S : Max(R) = - m
    BY <1>2
<1>4. \A x \in S : m <= x
    <2> SUFFICES ASSUME NEW x \in S PROVE m <= x
        OBVIOUS
    <2>1. - x <= - m
        BY <1>2, <1>3
    <2> QED BY <2>1
<1> QED BY <1>4 DEF Min

\* The larger and the smaller of two numbers.
LEMMA PairIs ==
    ASSUME NEW a \in Int, NEW b \in Int
    PROVE  /\ Max({a, b}) \in {a, b} /\ a <= Max({a, b}) /\ b <= Max({a, b})
           /\ Min({a, b}) \in {a, b} /\ Min({a, b}) <= a /\ Min({a, b}) <= b
<1> DEFINE S == {a, b}
<1>1. IsFiniteSet(S)
    <2>1. IsFiniteSet({}) /\ IsFiniteSet({} \cup {a})
        BY FS_EmptySet, FS_AddElement
    <2>2. IsFiniteSet(({} \cup {a}) \cup {b})
        BY <2>1, FS_AddElement
    <2>3. ({} \cup {a}) \cup {b} = S
        OBVIOUS
    <2> QED BY <2>2, <2>3
<1>2. S \in SUBSET Int /\ S # {} /\ a \in S /\ b \in S
    OBVIOUS
<1> HIDE DEF S
<1>3. Max(S) \in S /\ \A x \in S : x <= Max(S)
    BY <1>1, <1>2, MaxIs
<1>4. Min(S) \in S /\ \A x \in S : Min(S) <= x
    BY <1>1, <1>2, MinIs
<1>5. /\ Max(S) \in S /\ a <= Max(S) /\ b <= Max(S)
      /\ Min(S) \in S /\ Min(S) <= a /\ Min(S) <= b
    BY <1>2, <1>3, <1>4
<1> QED BY <1>5 DEF S

\* f is defined by recursion over the numbers up to N: from b on by G.
Recursion(f, b, G, N) == f[0] = b /\ \A n \in 1 .. N : f[n] = G[<< n, f[n - 1] >>]

\* A recursion over numbers, with values in V, defines a function.
LEMMA RecursionExists ==
    ASSUME NEW V, NEW b \in V, NEW N \in Nat, NEW G \in [(1 .. N) \X V -> V]
    PROVE  \E f \in [0 .. N -> V] : Recursion(f, b, G, N)
<1> DEFINE T == {k \in Nat : k <= N => \E f \in [0 .. k -> V] : Recursion(f, b, G, k)}
<1>1. 0 \in T
    <2> DEFINE f == [n \in 0 .. 0 |-> b]
    <2>1. f \in [0 .. 0 -> V] /\ f[0] = b
        OBVIOUS
    <2>2. \A n \in 1 .. 0 : f[n] = G[<< n, f[n - 1] >>]
        OBVIOUS
    <2> HIDE DEF f
    <2> QED BY <2>1, <2>2 DEF Recursion
<1>2. ASSUME NEW k \in Nat, k \in T PROVE k + 1 \in T
    <2> SUFFICES ASSUME k + 1 <= N
                 PROVE \E f \in [0 .. (k + 1) -> V] : Recursion(f, b, G, k + 1)
        OBVIOUS
    <2>1. PICK f \in [0 .. k -> V] : Recursion(f, b, G, k)
        BY <1>2
    <2> DEFINE g == [n \in 0 .. (k + 1) |-> IF n <= k THEN f[n] ELSE G[<< k + 1, f[k] >>]]
    <2>2. f[k] \in V /\ << k + 1, f[k] >> \in (1 .. N) \X V
        OBVIOUS
    <2>3. g \in [0 .. (k + 1) -> V]
        <3> SUFFICES ASSUME NEW n \in 0 .. (k + 1)
                     PROVE (IF n <= k THEN f[n] ELSE G[<< k + 1, f[k] >>]) \in V
            OBVIOUS
        <3> QED BY <2>2
    <2>4. g[0] = b
        BY <2>1 DEF Recursion
    <2>5. ASSUME NEW n \in 1 .. (k + 1) PROVE g[n] = G[<< n, g[n - 1] >>]
        <3>1. n - 1 \in 0 .. (k + 1) /\ n - 1 <= k /\ n \in 0 .. (k + 1)
            OBVIOUS
        <3>2. g[n - 1] = f[n - 1]
            BY <3>1
        <3>3. CASE n <= k
            <4>1. n \in 1 .. k /\ g[n] = f[n]
                BY <3>1, <3>3
            <4> QED BY <2>1, <3>2, <4>1 DEF Recursion
        <3>4. CASE n = k + 1
            <4>1. g[n] = G[<< k + 1, f[k] >>] /\ n - 1 = k
                BY <3>1, <3>4
            <4> QED BY <3>2, <3>4, <4>1
        <3> QED BY <3>3, <3>4
    <2> HIDE DEF g
    <2> QED BY <2>3, <2>4, <2>5 DEF Recursion
<1> HIDE DEF T
<1>3. N \in T
    BY <1>1, <1>2, SetInduction
<1> QED BY <1>3 DEF T
\* The function of Ascending: the indexes in S up to each number.
AscendingFcn(S, last) ==
    CHOOSE f : f = [n \in 0 .. last |->
        IF n = 0 THEN << >> ELSE IF n \in S THEN Append(f[n - 1], n) ELSE f[n - 1]]

\* Ascending is the last value of that function.
LEMMA AscendingUnfolds == \A S :
    Ascending(S) = AscendingFcn(S, Max(S \cup {0}))[Max(S \cup {0})]
BY DEF Ascending, AscendingFcn

\* The function starts with nothing, and each number of S joins it in its turn.
LEMMA AscendingSteps ==
    ASSUME NEW S, NEW N \in Nat
    PROVE  LET F == AscendingFcn(S, N)
           IN  /\ F[0] = << >>
               /\ \A n \in 1 .. N : F[n] = IF n \in S THEN Append(F[n - 1], n) ELSE F[n - 1]
<1> DEFINE Is(f) == f = [n \in 0 .. N |->
                IF n = 0 THEN << >> ELSE IF n \in S THEN Append(f[n - 1], n) ELSE f[n - 1]]
           G == [p \in (1 .. N) \X Seq(Nat) |->
                IF p[1] \in S THEN Append(p[2], p[1]) ELSE p[2]]
           F == AscendingFcn(S, N)
<1>1. \E f : Is(f)
    <2>1. G \in [(1 .. N) \X Seq(Nat) -> Seq(Nat)]
        OBVIOUS
    <2> HIDE DEF G
    <2>2. PICK f \in [0 .. N -> Seq(Nat)] : Recursion(f, << >>, G, N)
        <3>1. << >> \in Seq(Nat)
            OBVIOUS
        <3> QED BY <2>1, <3>1, RecursionExists
    <2>3. ASSUME NEW n \in 0 .. N
          PROVE  f[n] = IF n = 0 THEN << >>
                        ELSE IF n \in S THEN Append(f[n - 1], n) ELSE f[n - 1]
        <3>1. CASE n = 0
            BY <2>2, <3>1 DEF Recursion
        <3>2. CASE n # 0
            <4>1. n \in 1 .. N /\ n - 1 \in 0 .. N
                BY <3>2
            <4>2. << n, f[n - 1] >> \in (1 .. N) \X Seq(Nat)
                BY <4>1
            <4> QED BY <2>2, <3>2, <4>1, <4>2 DEF G, Recursion
        <3> QED BY <3>1, <3>2
    <2>4. Is(f)
        BY <2>2, <2>3
    <2> HIDE DEF Is
    <2> QED BY <2>4
<1>2. Is(F)
    <2>1. F = CHOOSE f : Is(f)
        BY DEF AscendingFcn
    <2> HIDE DEF Is, F
    <2> QED BY <1>1, <2>1
<1> HIDE DEF F
<1>3. F[0] = << >>
    BY <1>2
<1>4. ASSUME NEW n \in 1 .. N
      PROVE  F[n] = IF n \in S THEN Append(F[n - 1], n) ELSE F[n - 1]
    <2>1. n \in 0 .. N /\ n # 0
        OBVIOUS
    <2> QED BY <1>2, <2>1
<1> QED BY <1>3, <1>4 DEF F

\* What a sequence of the indexes in S is: in their order, and all of them.
Lists(q, S) ==
    /\ q \in Seq(S)
    /\ \A m, n \in DOMAIN q : m < n => q[m] < q[n]
    /\ \A x \in S : \E n \in DOMAIN q : q[n] = x

\* Ascending gives such a sequence.
LEMMA AscendingIs ==
    ASSUME NEW S \in SUBSET (Nat \ {0}), IsFiniteSet(S)
    PROVE  Lists(Ascending(S), S)
<1> DEFINE N == Max(S \cup {0})
           F == AscendingFcn(S, N)
           T == {k \in Nat : k <= N => Lists(F[k], S \cap (1 .. k))}
<1>1. N \in Nat /\ \A x \in S : x <= N
    <2>1. IsFiniteSet(S \cup {0}) /\ S \cup {0} \in SUBSET Int /\ S \cup {0} # {}
        BY FS_AddElement
    <2> DEFINE R == S \cup {0}
    <2>2. \A x \in R : x \in Nat
        OBVIOUS
    <2> HIDE DEF R
    <2>3. Max(R) \in R /\ \A x \in R : x <= Max(R)
        BY <2>1, MaxIs DEF R
    <2> QED BY <2>2, <2>3 DEF R
<1> HIDE DEF N
<1>2. /\ F[0] = << >>
      /\ \A n \in 1 .. N : F[n] = IF n \in S THEN Append(F[n - 1], n) ELSE F[n - 1]
    BY <1>1, AscendingSteps
<1> HIDE DEF F
<1>3. 0 \in T
    <2>1. S \cap (1 .. 0) = {}
        OBVIOUS
    <2>2. Lists(<< >>, {})
        BY DEF Lists
    <2>3. Lists(F[0], S \cap (1 .. 0))
        BY <1>2, <2>1, <2>2
    <2> QED BY <2>3
<1>4. ASSUME NEW k \in Nat, k \in T PROVE k + 1 \in T
    <2> SUFFICES ASSUME k + 1 <= N PROVE Lists(F[k + 1], S \cap (1 .. (k + 1)))
        OBVIOUS
    <2>1. Lists(F[k], S \cap (1 .. k))
        BY <1>1, <1>4
    <2>2. F[k + 1] = IF k + 1 \in S THEN Append(F[k], k + 1) ELSE F[k]
        <3>1. k + 1 \in 1 .. N /\ (k + 1) - 1 = k
            BY <1>1
        <3> QED BY <1>2, <3>1
    <2>3. CASE k + 1 \notin S
        <3>1. S \cap (1 .. (k + 1)) = S \cap (1 .. k)
            <4>1. ASSUME NEW x \in S PROVE x \in 1 .. (k + 1) <=> x \in 1 .. k
                BY <2>3
            <4> QED BY <4>1
        <3> QED BY <2>1, <2>2, <2>3, <3>1
    <2>4. CASE k + 1 \in S
        <3> DEFINE q == F[k]
                   r == Append(q, k + 1)
                   A == S \cap (1 .. k)
                   B == S \cap (1 .. (k + 1))
        <3>1. B = A \cup {k + 1}
            <4>1. ASSUME NEW x \in S PROVE x \in 1 .. (k + 1) <=> x \in 1 .. k \/ x = k + 1
                OBVIOUS
            <4> QED BY <2>4, <4>1
        <3>2. \A x \in A : x \in Nat /\ x < k + 1
            OBVIOUS
        <3>3. q \in Seq(A) /\ Lists(q, A) /\ F[k + 1] = r
            BY <2>1, <2>2, <2>4 DEF Lists
        <3> HIDE DEF q, A, B
        <3>4. q \in Seq(B) /\ k + 1 \in B
            BY <3>1, <3>3, SeqMonotonic
        <3>5. /\ r \in Seq(B) /\ Len(r) = Len(q) + 1 /\ DOMAIN r = 1 .. (Len(q) + 1)
              /\ \A n \in 1 .. Len(q) : r[n] = q[n] /\ q[n] \in A
              /\ r[Len(q) + 1] = k + 1 /\ DOMAIN q = 1 .. Len(q) /\ Len(q) \in Nat
            BY <3>3, <3>4
        <3> HIDE DEF r
        <3>6. ASSUME NEW m \in DOMAIN r, NEW n \in DOMAIN r, m < n PROVE r[m] < r[n]
            <4>1. m \in 1 .. Len(q)
                BY <3>5, <3>6
            <4>2. CASE n \in 1 .. Len(q)
                BY <3>3, <3>5, <3>6, <4>1, <4>2 DEF Lists
            <4>3. CASE n = Len(q) + 1
                BY <3>2, <3>5, <4>1, <4>3
            <4> QED BY <3>5, <4>2, <4>3
        <3>7. ASSUME NEW x \in B PROVE \E n \in DOMAIN r : r[n] = x
            <4>1. CASE x \in A
                <5>1. PICK n \in DOMAIN q : q[n] = x
                    BY <3>3, <4>1 DEF Lists
                <5>2. n \in DOMAIN r /\ r[n] = x
                    BY <3>5, <5>1
                <5> QED BY <5>2
            <4>2. CASE x = k + 1
                <5>1. Len(q) + 1 \in DOMAIN r
                    BY <3>5
                <5> QED BY <3>5, <4>2, <5>1
            <4> QED BY <3>1, <4>1, <4>2
        <3>8. Lists(r, B)
            BY <3>5, <3>6, <3>7 DEF Lists
        <3> QED BY <3>3, <3>8 DEF B
    <2> QED BY <2>3, <2>4
<1> HIDE DEF T
<1>5. N \in T
    BY <1>1, <1>3, <1>4, SetInduction
<1>6. S \cap (1 .. N) = S
    <2>1. ASSUME NEW x \in S PROVE x \in 1 .. N
        BY <1>1
    <2> QED BY <2>1
<1>7. Ascending(S) = F[N]
    BY AscendingUnfolds DEF F, N
<1> QED BY <1>1, <1>5, <1>6, <1>7 DEF T

-----------------------------------------------------------------------------
(* Messages whose exchanges are whole.                                     *)

\* A message.
Msg == [kind : Kinds, size : Nat, at : Nat, of : Nat]

\* Results name a call, and nothing else does.
Marked(s) == \A i \in DOMAIN s : /\ s[i].kind = "tool" <=> s[i].of # 0
                                 /\ s[i].kind = "call" => s[i].at # 0
\* No message has the place of a call.
Named(s) == \A i, j \in DOMAIN s : s[i].kind = "call" /\ s[j].at = s[i].at => i = j
\* Every result follows its call with only results of the same call in between.
Follows(s) ==
    \A i \in DOMAIN s : s[i].kind = "tool" =>
        \E c \in 1 .. (i - 1) : /\ s[c].kind = "call" /\ s[c].at = s[i].of
                                /\ \A j \in (c + 1) .. i : s[j].of = s[i].of
\* Every call is answered.
Answered(s) ==
    \A i \in DOMAIN s : s[i].kind = "call" => i < Len(s) /\ s[i + 1].of = s[i].at

Whole(s) == s \in Seq(Msg) /\ Marked(s) /\ Named(s) /\ Follows(s) /\ Answered(s)

\* A message may be cut, and its image left out.
Same(a, b) ==
    /\ a.at = b.at /\ a.of = b.of
    /\ \/ a.kind = b.kind
       \/ a.kind = "user" /\ b.kind = "image"

\* The messages of r are those of s at the indexes e, in their order.
Embeds(e, r, s) ==
    /\ e \in [DOMAIN r -> DOMAIN s]
    /\ \A m, n \in DOMAIN r : m < n => e[m] < e[n]
    /\ \A n \in DOMAIN r : Same(r[n], s[e[n]])

\* K has every exchange as a whole or not at all.
Closed(K, s) == \A i \in K : Unit(s, i) \subseteq K

\* What keeps exchanges whole keeps a conversation whole.
LEMMA EmbeddedIsWhole ==
    ASSUME NEW s, Whole(s), NEW r \in Seq(Msg), NEW e, Embeds(e, r, s),
           NEW K, Closed(K, s), \A n \in DOMAIN r : e[n] \in K, \A k \in K : \E n \in DOMAIN r : e[n] = k
    PROVE  Whole(r)
<1>1. /\ DOMAIN s = 1 .. Len(s) /\ Len(s) \in Nat /\ DOMAIN r = 1 .. Len(r) /\ Len(r) \in Nat
      /\ \A i \in DOMAIN s : s[i] \in Msg
      /\ \A i \in DOMAIN r : r[i] \in Msg
    BY DEF Whole
<1>2. \A n \in DOMAIN r : /\ e[n] \in DOMAIN s /\ e[n] \in Nat /\ n \in Nat
                          /\ r[n].at = s[e[n]].at /\ r[n].of = s[e[n]].of
                          /\ \/ r[n].kind = s[e[n]].kind
                             \/ r[n].kind = "user" /\ s[e[n]].kind = "image"
    BY <1>1 DEF Embeds, Same
<1>3. \A n \in DOMAIN r : /\ r[n].kind = "call" <=> s[e[n]].kind = "call"
                          /\ r[n].kind = "tool" <=> s[e[n]].kind = "tool"
    BY <1>2
<1>4. \A m, n \in DOMAIN r : /\ m < n <=> e[m] < e[n]
                             /\ m = n <=> e[m] = e[n]
    <2> SUFFICES ASSUME NEW m \in DOMAIN r, NEW n \in DOMAIN r
                 PROVE (m < n <=> e[m] < e[n]) /\ (m = n <=> e[m] = e[n])
        OBVIOUS
    <2>1. (m < n => e[m] < e[n]) /\ (n < m => e[n] < e[m])
        BY DEF Embeds
    <2>2. e[m] \in Nat /\ e[n] \in Nat /\ m \in Nat /\ n \in Nat
        BY <1>2
    <2> QED BY <2>1, <2>2
<1>5. Marked(r)
    <2> SUFFICES ASSUME NEW i \in DOMAIN r
                 PROVE (r[i].kind = "tool" <=> r[i].of # 0) /\ (r[i].kind = "call" => r[i].at # 0)
        BY DEF Marked
    <2>1. (s[e[i]].kind = "tool" <=> s[e[i]].of # 0) /\ (s[e[i]].kind = "call" => s[e[i]].at # 0)
        BY <1>2 DEF Whole, Marked
    <2> QED BY <1>2, <1>3, <2>1
<1>6. Named(r)
    <2> SUFFICES ASSUME NEW i \in DOMAIN r, NEW j \in DOMAIN r, r[i].kind = "call", r[j].at = r[i].at
                 PROVE i = j
        BY DEF Named
    <2>1. s[e[i]].kind = "call" /\ s[e[j]].at = s[e[i]].at
        BY <1>2, <1>3
    <2>2. e[i] = e[j]
        BY <1>2, <2>1 DEF Whole, Named
    <2> QED BY <1>4, <2>2
<1>7. Follows(r)
    <2> SUFFICES ASSUME NEW i \in DOMAIN r, r[i].kind = "tool"
                 PROVE \E c \in 1 .. (i - 1) : /\ r[c].kind = "call" /\ r[c].at = r[i].of
                                               /\ \A j \in (c + 1) .. i : r[j].of = r[i].of
        BY DEF Follows
    <2>1. e[i] \in DOMAIN s /\ s[e[i]].kind = "tool" /\ e[i] \in K
        BY <1>2, <1>3
    <2>2. PICK c \in 1 .. (e[i] - 1) : /\ s[c].kind = "call" /\ s[c].at = s[e[i]].of
                                       /\ \A j \in (c + 1) .. e[i] : s[j].of = s[e[i]].of
        BY <2>1 DEF Whole, Follows
    <2>3. c \in DOMAIN s /\ c \in Nat /\ c < e[i]
        BY <1>1, <2>1
    <2>4. c \in K
        <3>1. c \in Unit(s, e[i])
            BY <2>1, <2>2, <2>3 DEF Unit
        <3> QED BY <2>1, <3>1 DEF Closed
    <2>5. PICK m \in DOMAIN r : e[m] = c
        BY <2>4
    <2>6. m < i /\ m \in 1 .. (i - 1) /\ i \in Nat /\ m \in Nat
        BY <1>1, <1>4, <2>3, <2>5
    <2>7. r[m].kind = "call" /\ r[m].at = r[i].of
        BY <1>2, <1>3, <2>2, <2>5
    <2>8. ASSUME NEW j \in (m + 1) .. i PROVE r[j].of = r[i].of
        <3>1. j \in DOMAIN r /\ m < j /\ (j = i \/ j < i)
            BY <1>1, <2>6
        <3>2. e[j] \in Nat /\ e[m] < e[j] /\ (e[j] = e[i] \/ e[j] < e[i])
            BY <1>2, <1>4, <3>1
        <3>3. e[j] \in (c + 1) .. e[i]
            BY <1>2, <2>3, <2>5, <3>2
        <3>4. s[e[j]].of = s[e[i]].of
            BY <2>2, <3>3
        <3> QED BY <1>2, <3>1, <3>4
    <2> QED BY <2>6, <2>7, <2>8
<1>8. Answered(r)
    <2> SUFFICES ASSUME NEW i \in DOMAIN r, r[i].kind = "call"
                 PROVE i < Len(r) /\ r[i + 1].of = r[i].at
        BY DEF Answered
    <2>1. e[i] \in DOMAIN s /\ s[e[i]].kind = "call" /\ e[i] \in K
        BY <1>2, <1>3
    <2>2. e[i] < Len(s) /\ s[e[i] + 1].of = s[e[i]].at
        BY <2>1 DEF Whole, Answered
    <2>3. e[i] + 1 \in DOMAIN s
        BY <1>1, <2>1, <2>2
    <2>4. e[i] + 1 \in K
        <3>1. e[i] + 1 \in Unit(s, e[i])
            BY <2>1, <2>2, <2>3 DEF Unit
        <3> QED BY <2>1, <3>1 DEF Closed
    <2>5. PICK m \in DOMAIN r : e[m] = e[i] + 1
        BY <2>4
    <2>6. i < m /\ m <= Len(r) /\ i \in Nat /\ m \in Nat
        BY <1>1, <1>2, <1>4, <2>5
    <2>7. i + 1 \in DOMAIN r
        BY <1>1, <2>6
    <2>8. e[i + 1] = e[i] + 1
        <3>1. e[i] < e[i + 1]
            BY <1>4, <2>7, <2>6
        <3>2. i + 1 = m \/ i + 1 < m
            BY <2>6
        <3>3. e[i + 1] <= e[m]
            BY <1>2, <1>4, <2>7, <3>2
        <3> QED BY <1>2, <2>5, <2>7, <3>1, <3>3
    <2>9. i < Len(r)
        BY <1>1, <2>6
    <2>10. r[i + 1].of = s[e[i] + 1].of /\ r[i].at = s[e[i]].at
        BY <1>2, <2>7, <2>8
    <2> QED BY <2>2, <2>9, <2>10
<1> QED BY <1>5, <1>6, <1>7, <1>8 DEF Whole

\* Only keeps the messages at the indexes in keep.
LEMMA OnlyEmbeds ==
    ASSUME NEW s \in Seq(Msg), NEW keep \in SUBSET (DOMAIN s)
    PROVE  LET r == Only(s, keep)
               e == Ascending(keep)
           IN  /\ r \in Seq(Msg) /\ Embeds(e, r, s) /\ DOMAIN r = DOMAIN e
               /\ \A n \in DOMAIN r : e[n] \in keep /\ r[n] = s[e[n]]
               /\ \A k \in keep : \E n \in DOMAIN r : e[n] = k
               /\ Lists(e, keep)
<1> DEFINE e == Ascending(keep)
           r == Only(s, keep)
<1>1. keep \in SUBSET (Nat \ {0}) /\ IsFiniteSet(keep)
    <2>1. IsFiniteSet(1 .. Len(s)) /\ DOMAIN s = 1 .. Len(s) /\ Len(s) \in Nat
        BY FS_Interval
    <2>2. IsFiniteSet(keep)
        BY <2>1, FS_Subset
    <2> QED BY <2>1, <2>2
<1>2. Lists(e, keep)
    BY <1>1, AscendingIs
<1>3. r = [n \in DOMAIN e |-> s[e[n]]]
    BY DEF Only
<1> HIDE DEF e, r
<1>4. /\ DOMAIN e = 1 .. Len(e) /\ Len(e) \in Nat
      /\ \A n \in DOMAIN e : e[n] \in keep /\ e[n] \in DOMAIN s /\ s[e[n]] \in Msg
    BY <1>2 DEF Lists
<1>5. r \in Seq(Msg) /\ DOMAIN r = DOMAIN e
    BY <1>3, <1>4
<1>6. Embeds(e, r, s)
    <2>1. e \in [DOMAIN r -> DOMAIN s]
        BY <1>2, <1>4, <1>5 DEF Lists
    <2>2. \A m, n \in DOMAIN r : m < n => e[m] < e[n]
        BY <1>2, <1>5 DEF Lists
    <2>3. \A n \in DOMAIN r : Same(r[n], s[e[n]])
        BY <1>3, <1>5 DEF Same
    <2> QED BY <2>1, <2>2, <2>3 DEF Embeds
<1> QED BY <1>2, <1>3, <1>4, <1>5, <1>6 DEF e, r, Lists

\* So it keeps a conversation whole if it keeps its exchanges whole.
LEMMA OnlyIsWhole ==
    ASSUME NEW s, Whole(s), NEW keep \in SUBSET (DOMAIN s), Closed(keep, s)
    PROVE  Whole(Only(s, keep))
<1>1. s \in Seq(Msg)
    BY DEF Whole
<1> DEFINE r == Only(s, keep)
           e == Ascending(keep)
<1>2. /\ r \in Seq(Msg) /\ Embeds(e, r, s)
      /\ \A n \in DOMAIN r : e[n] \in keep
      /\ \A k \in keep : \E n \in DOMAIN r : e[n] = k
    BY <1>1, OnlyEmbeds
<1> HIDE DEF r, e
<1>3. Whole(r)
    BY <1>2, EmbeddedIsWhole
<1> QED BY <1>3 DEF r

\* The unit of a message: its exchange, which is that of every message in it.
LEMMA UnitIs ==
    ASSUME NEW s, Whole(s), NEW i \in DOMAIN s
    PROVE  /\ i \in Unit(s, i) /\ Unit(s, i) \subseteq DOMAIN s
           /\ \A j \in Unit(s, i) : Unit(s, j) = Unit(s, i)
           /\ s[i].kind \notin {"call", "tool"} => Unit(s, i) = {i}
           /\ s[i].kind \in {"call", "tool"} =>
                \A j \in Unit(s, i) : s[j].kind \in {"call", "tool"}
<1>1. DOMAIN s = 1 .. Len(s) /\ Len(s) \in Nat /\ \A j \in DOMAIN s : s[j] \in Msg
    BY DEF Whole
<1> DEFINE Of(j) == IF s[j].kind = "call" THEN s[j].at ELSE s[j].of
<1>2. ASSUME NEW j \in DOMAIN s, s[j].kind = "tool"
      PROVE  \E c \in DOMAIN s : s[c].kind = "call" /\ s[c].at = s[j].of
    <2>1. PICK c \in 1 .. (j - 1) : s[c].kind = "call" /\ s[c].at = s[j].of
        BY <1>2 DEF Whole, Follows
    <2>2. c \in DOMAIN s
        BY <1>1
    <2> QED BY <2>1, <2>2
<1>3. ASSUME NEW j \in DOMAIN s, s[j].kind \in {"call", "tool"}
      PROVE  Unit(s, j) = {k \in DOMAIN s : s[k].kind \in {"call", "tool"} /\ Of(k) = Of(j)}
    <2> SUFFICES ASSUME NEW k \in DOMAIN s
                 PROVE k \in Unit(s, j) <=> s[k].kind \in {"call", "tool"} /\ Of(k) = Of(j)
        BY DEF Unit
    <2>1. /\ s[k].kind = "tool" <=> s[k].of # 0
          /\ s[j].kind = "tool" <=> s[j].of # 0
          /\ s[j].kind = "call" => s[j].at # 0
          /\ s[k].kind = "call" => s[k].at # 0
        BY DEF Whole, Marked
    <2>2. CASE s[j].kind = "call"
        <3>1. s[k].kind = "call" /\ s[k].at = s[j].at => k = j
            BY <2>2 DEF Whole, Named
        <3> QED BY <1>1, <2>1, <2>2, <3>1 DEF Unit
    <2>3. CASE s[j].kind = "tool"
        <3>1. PICK c \in DOMAIN s : s[c].kind = "call" /\ s[c].at = s[j].of
            BY <1>2, <2>3
        <3>2. s[k].at = s[j].of => k = c
            BY <3>1 DEF Whole, Named
        <3> QED BY <1>1, <2>1, <2>3, <3>1, <3>2 DEF Unit
    <2> QED BY <1>3, <2>2, <2>3
<1>4. CASE s[i].kind \in {"call", "tool"}
    <2>1. Unit(s, i) = {k \in DOMAIN s : s[k].kind \in {"call", "tool"} /\ Of(k) = Of(i)}
        BY <1>3, <1>4
    <2>2. ASSUME NEW j \in Unit(s, i) PROVE Unit(s, j) = Unit(s, i)
        <3>1. j \in DOMAIN s /\ s[j].kind \in {"call", "tool"} /\ Of(j) = Of(i)
            BY <2>1
        <3>2. Unit(s, j) = {k \in DOMAIN s : s[k].kind \in {"call", "tool"} /\ Of(k) = Of(j)}
            BY <1>3, <3>1
        <3> HIDE DEF Of
        <3> QED BY <2>1, <3>1, <3>2
    <2> HIDE DEF Of
    <2> QED BY <1>4, <2>1, <2>2
<1>5. CASE s[i].kind \notin {"call", "tool"}
    <2>1. Unit(s, i) = {i}
        BY <1>5 DEF Unit
    <2> QED BY <1>5, <2>1
<1> QED BY <1>4, <1>5

\* There is one such sequence.
LEMMA ListsAgree ==
    ASSUME NEW S \in SUBSET Nat, NEW p, Lists(p, S), NEW q, Lists(q, S)
    PROVE  p = q
<1>1. /\ p \in Seq(S) /\ DOMAIN p = 1 .. Len(p) /\ Len(p) \in Nat
      /\ q \in Seq(S) /\ DOMAIN q = 1 .. Len(q) /\ Len(q) \in Nat
      /\ \A n \in DOMAIN p : p[n] \in S /\ p[n] \in Nat
      /\ \A n \in DOMAIN q : q[n] \in S /\ q[n] \in Nat
    <2>1. p \in Seq(S) /\ q \in Seq(S)
        BY DEF Lists
    <2>2. /\ DOMAIN p = 1 .. Len(p) /\ Len(p) \in Nat /\ DOMAIN q = 1 .. Len(q) /\ Len(q) \in Nat
          /\ p \in [1 .. Len(p) -> S] /\ q \in [1 .. Len(q) -> S]
        BY <2>1, LenProperties
    <2>3. \A n \in DOMAIN p : p[n] \in S
        BY <2>2
    <2>4. \A n \in DOMAIN q : q[n] \in S
        BY <2>2
    <2> QED BY <2>1, <2>2, <2>3, <2>4
<1>2. /\ \A m, n \in DOMAIN p : m < n => p[m] < p[n]
      /\ \A m, n \in DOMAIN q : m < n => q[m] < q[n]
      /\ \A x \in S : \E n \in DOMAIN p : p[n] = x
      /\ \A x \in S : \E n \in DOMAIN q : q[n] = x
    BY DEF Lists
<1> DEFINE T == {k \in Nat : \A j \in 1 .. k : j \in DOMAIN p /\ j \in DOMAIN q => p[j] = q[j]}
<1>3. 0 \in T
    OBVIOUS
<1>4. ASSUME NEW k \in Nat, k \in T PROVE k + 1 \in T
    <2> SUFFICES ASSUME k + 1 \in DOMAIN p, k + 1 \in DOMAIN q PROVE p[k + 1] = q[k + 1]
        BY <1>4
    <2>1. PICK m \in DOMAIN q : q[m] = p[k + 1]
        BY <1>1, <1>2
    <2>2. PICK n \in DOMAIN p : p[n] = q[k + 1]
        BY <1>1, <1>2
    <2>3. ~ (m < k + 1)
        <3> SUFFICES ASSUME m < k + 1 PROVE FALSE
            OBVIOUS
        <3>1. m \in DOMAIN p /\ m \in 1 .. k
            BY <1>1
        <3>2. p[m] = q[m]
            BY <1>4, <3>1
        <3>3. p[m] < p[k + 1]
            BY <1>2, <3>1
        <3> QED BY <1>1, <2>1, <3>1, <3>2, <3>3
    <2>4. ~ (n < k + 1)
        <3> SUFFICES ASSUME n < k + 1 PROVE FALSE
            OBVIOUS
        <3>1. n \in DOMAIN q /\ n \in 1 .. k
            BY <1>1
        <3>2. p[n] = q[n]
            BY <1>4, <3>1
        <3>3. q[n] < q[k + 1]
            BY <1>2, <3>1
        <3> QED BY <1>1, <2>2, <3>1, <3>2, <3>3
    <2>5. q[k + 1] <= q[m] /\ p[k + 1] <= p[n]
        <3>1. (k + 1 = m \/ k + 1 < m) /\ (k + 1 = n \/ k + 1 < n)
            BY <1>1, <2>3, <2>4
        <3>2. q[k + 1] = q[m] \/ q[k + 1] < q[m]
            BY <1>2, <3>1
        <3>3. p[k + 1] = p[n] \/ p[k + 1] < p[n]
            BY <1>2, <3>1
        <3> QED BY <1>1, <3>2, <3>3
    <2>6. p[k + 1] \in Nat /\ q[k + 1] \in Nat
        BY <1>1
    <2> QED BY <2>1, <2>2, <2>5, <2>6
<1>5. \A k \in Nat : k \in T
    <2> HIDE DEF T
    <2> QED BY <1>3, <1>4, SetInduction
<1>6. \A j \in DOMAIN p : j \in DOMAIN q => p[j] = q[j]
    <2> SUFFICES ASSUME NEW j \in DOMAIN p, j \in DOMAIN q PROVE p[j] = q[j]
        OBVIOUS
    <2>1. j \in Nat /\ j \in 1 .. j
        BY <1>1
    <2> QED BY <1>5, <2>1
<1>7. ~ (Len(p) < Len(q))
    <2> SUFFICES ASSUME Len(p) < Len(q) PROVE FALSE
        OBVIOUS
    <2>1. Len(q) \in DOMAIN q
        BY <1>1
    <2>2. PICK m \in DOMAIN p : p[m] = q[Len(q)]
        BY <1>1, <1>2, <2>1
    <2>3. m \in DOMAIN q /\ m < Len(q)
        BY <1>1
    <2>4. q[m] < q[Len(q)] /\ q[m] = p[m]
        BY <1>2, <1>6, <2>1, <2>3
    <2> QED BY <1>1, <2>1, <2>2, <2>3, <2>4
<1>8. ~ (Len(q) < Len(p))
    <2> SUFFICES ASSUME Len(q) < Len(p) PROVE FALSE
        OBVIOUS
    <2>1. Len(p) \in DOMAIN p
        BY <1>1
    <2>2. PICK m \in DOMAIN q : q[m] = p[Len(p)]
        BY <1>1, <1>2, <2>1
    <2>3. m \in DOMAIN p /\ m < Len(p)
        BY <1>1
    <2>4. p[m] < p[Len(p)] /\ q[m] = p[m]
        BY <1>2, <1>6, <2>1, <2>3
    <2> QED BY <1>1, <2>1, <2>2, <2>3, <2>4
<1>9. Len(p) = Len(q)
    <2>1. Len(p) \in Nat /\ Len(q) \in Nat
        BY <1>1
    <2> QED BY <1>7, <1>8, <2>1
<1> QED
    <2>1. \A j \in 1 .. Len(p) : p[j] = q[j]
        BY <1>1, <1>6, <1>9
    <2> QED BY <1>1, <1>9, <2>1, SeqEqual

\* A sequence is Ascending's if it lists the set.
LEMMA AscendingEquals ==
    ASSUME NEW S \in SUBSET (Nat \ {0}), IsFiniteSet(S), NEW q, Lists(q, S)
    PROVE  Ascending(S) = q
<1>1. Lists(Ascending(S), S)
    BY AscendingIs
<1> QED BY <1>1, ListsAgree

\* Nothing is left out.
LEMMA OnlyAll ==
    ASSUME NEW s \in Seq(Msg)
    PROVE  Only(s, DOMAIN s) = s
<1> DEFINE q == [i \in 1 .. Len(s) |-> i]
<1>1. /\ DOMAIN s = 1 .. Len(s) /\ Len(s) \in Nat /\ IsFiniteSet(1 .. Len(s))
      /\ s = [i \in 1 .. Len(s) |-> s[i]]
    <2>1. DOMAIN s = 1 .. Len(s) /\ Len(s) \in Nat /\ s \in [1 .. Len(s) -> Msg]
        BY LenProperties
    <2>2. IsFiniteSet(1 .. Len(s))
        BY <2>1, FS_Interval
    <2> QED BY <2>1, <2>2
<1>2. Lists(q, 1 .. Len(s))
    <2>1. q \in Seq(1 .. Len(s)) /\ DOMAIN q = 1 .. Len(s)
        BY <1>1
    <2>2. \A n \in 1 .. Len(s) : q[n] = n
        OBVIOUS
    <2> HIDE DEF q
    <2> QED BY <2>1, <2>2 DEF Lists
<1>3. Ascending(DOMAIN s) = q
    <2>1. 1 .. Len(s) \in SUBSET (Nat \ {0})
        BY <1>1
    <2> HIDE DEF q
    <2> QED BY <1>1, <1>2, <2>1, AscendingEquals
<1> QED BY <1>1, <1>3 DEF Only

\* The function of Cost: the size of the first messages.
CostFcn(s) ==
    CHOOSE f : f = [n \in 0 .. Len(s) |-> IF n = 0 THEN 0 ELSE f[n - 1] + s[n].size]

\* Cost is the last value of that function.
LEMMA CostUnfolds == \A s : Cost(s) = CostFcn(s)[Len(s)]
BY DEF Cost, CostFcn

\* It is a number.
LEMMA CostIs ==
    ASSUME NEW s \in Seq(Msg)
    PROVE  Cost(s) \in Nat /\ (s = << >> => Cost(s) = 0)
<1> DEFINE N == Len(s)
           Is(f) == f = [n \in 0 .. N |-> IF n = 0 THEN 0 ELSE f[n - 1] + s[n].size]
           G == [p \in (1 .. N) \X Nat |-> p[2] + s[p[1]].size]
           F == CostFcn(s)
           T == {k \in Nat : k <= N => F[k] \in Nat}
<1>1. N \in Nat /\ \A n \in 1 .. N : s[n].size \in Nat
    <2>1. N \in Nat /\ \A n \in 1 .. N : s[n] \in Msg
        OBVIOUS
    <2> QED BY <2>1 DEF Msg
<1>2. \E f : Is(f)
    <2>1. G \in [(1 .. N) \X Nat -> Nat]
        BY <1>1
    <2> HIDE DEF G, N
    <2>2. PICK f \in [0 .. N -> Nat] : Recursion(f, 0, G, N)
        BY <1>1, <2>1, RecursionExists
    <2>3. ASSUME NEW n \in 0 .. N
          PROVE  f[n] = IF n = 0 THEN 0 ELSE f[n - 1] + s[n].size
        <3>1. CASE n = 0
            BY <2>2, <3>1 DEF Recursion
        <3>2. CASE n # 0
            <4>1. n \in 1 .. N /\ n - 1 \in 0 .. N
                BY <1>1, <3>2
            <4>2. << n, f[n - 1] >> \in (1 .. N) \X Nat
                BY <4>1
            <4> QED BY <2>2, <3>2, <4>1, <4>2 DEF G, Recursion
        <3> QED BY <3>1, <3>2
    <2>4. Is(f)
        BY <2>2, <2>3
    <2> HIDE DEF Is
    <2> QED BY <2>4
<1>3. Is(F)
    <2>1. F = CHOOSE f : Is(f)
        BY DEF CostFcn
    <2> HIDE DEF Is, F
    <2> QED BY <1>2, <2>1
<1> HIDE DEF F, N
<1>4. F[0] = 0
    BY <1>1, <1>3
<1>5. 0 \in T
    BY <1>4
<1>6. ASSUME NEW k \in Nat, k \in T PROVE k + 1 \in T
    <2> SUFFICES ASSUME k + 1 <= N PROVE F[k + 1] \in Nat
        OBVIOUS
    <2>1. k + 1 \in 0 .. N /\ k + 1 # 0 /\ (k + 1) - 1 = k /\ k + 1 \in 1 .. N
        BY <1>1
    <2>2. F[k + 1] = F[k] + s[k + 1].size
        BY <1>3, <2>1
    <2> QED BY <1>1, <1>6, <2>1, <2>2
<1>7. \A k \in Nat : k \in T
    <2> HIDE DEF T
    <2> QED BY <1>5, <1>6, SetInduction
<1>8. F[N] \in Nat /\ (s = << >> => F[N] = 0)
    <2>1. F[N] \in Nat
        BY <1>1, <1>7
    <2>2. s = << >> => N = 0
        BY DEF N
    <2> QED BY <1>4, <2>1, <2>2
<1> QED BY <1>8, CostUnfolds DEF F, N

\* A tail of a conversation is whole if it does not begin with a result.
LEMMA TailIsWhole ==
    ASSUME NEW s, Whole(s), NEW k \in 1 .. (Len(s) + 1), k \in DOMAIN s => s[k].kind # "tool"
    PROVE  /\ Whole(SubSeq(s, k, Len(s))) /\ Len(SubSeq(s, k, Len(s))) = Len(s) - k + 1
           /\ \A n \in 1 .. (Len(s) - k + 1) : SubSeq(s, k, Len(s))[n] = s[k + n - 1]
<1> DEFINE r == SubSeq(s, k, Len(s))
           K == k .. Len(s)
           e == [n \in 1 .. (Len(s) - k + 1) |-> k + n - 1]
<1>1. /\ s \in Seq(Msg) /\ DOMAIN s = 1 .. Len(s) /\ Len(s) \in Nat
      /\ \A n \in DOMAIN s : s[n] \in Msg
    BY DEF Whole
<1>2. /\ r \in Seq(Msg) /\ Len(r) = Len(s) - k + 1 /\ DOMAIN r = 1 .. (Len(s) - k + 1)
      /\ \A n \in DOMAIN r : r[n] = s[k + n - 1]
    BY <1>1, SubSeqProperties
<1> HIDE DEF r
<1>3. /\ e \in [DOMAIN r -> DOMAIN s]
      /\ \A n \in DOMAIN r : e[n] = k + n - 1 /\ e[n] \in K
      /\ \A x \in K : x - k + 1 \in DOMAIN r /\ e[x - k + 1] = x
    <2>1. \A n \in 1 .. (Len(s) - k + 1) : k + n - 1 \in DOMAIN s /\ k + n - 1 \in K
        BY <1>1
    <2>2. \A x \in K : x - k + 1 \in 1 .. (Len(s) - k + 1) /\ k + (x - k + 1) - 1 = x
        BY <1>1
    <2> QED BY <1>2, <2>1, <2>2
<1> HIDE DEF e
<1>4. Embeds(e, r, s)
    <2>1. \A n \in DOMAIN r : r[n] = s[e[n]]
        BY <1>2, <1>3
    <2>2. \A m, n \in DOMAIN r : m < n => e[m] < e[n]
        BY <1>2, <1>3
    <2> QED BY <1>3, <2>1, <2>2 DEF Embeds, Same
<1>5. ASSUME NEW i \in K, NEW j \in Unit(s, i) PROVE j \in K
    <2>1. i \in DOMAIN s /\ j \in DOMAIN s /\ i \in Nat /\ j \in Nat
        BY <1>1, <1>5 DEF Unit
    <2> SUFFICES ASSUME j < k PROVE FALSE
        BY <1>1, <2>1
    <2>2. k \in DOMAIN s /\ s[k].kind # "tool" /\ s[k].of = 0
        BY <1>1, <2>1 DEF Whole, Marked
    \* Whoever follows a call over k would make k a result.
    <2>3. ASSUME NEW x \in DOMAIN s, s[x].kind = "tool", k <= x,
                 NEW c \in DOMAIN s, s[c].kind = "call", s[c].at = s[x].of
          PROVE  k <= c
        <3>1. PICK d \in 1 .. (x - 1) : /\ s[d].kind = "call" /\ s[d].at = s[x].of
                                        /\ \A y \in (d + 1) .. x : s[y].of = s[x].of
            BY <2>3 DEF Whole, Follows
        <3>2. d = c
            BY <1>1, <2>3, <3>1 DEF Whole, Named
        <3>3. s[x].of # 0
            BY <2>3 DEF Whole, Marked
        <3> QED BY <1>1, <2>2, <2>3, <3>1, <3>2, <3>3
    <2>4. CASE s[i].kind = "call"
        <3>1. s[j].of = s[i].at /\ j # i
            BY <1>1, <2>1, <2>4 DEF Unit
        <3>2. s[j].kind = "tool"
            BY <2>1, <2>4, <3>1 DEF Whole, Marked
        <3>3. PICK d \in 1 .. (j - 1) : s[d].kind = "call" /\ s[d].at = s[j].of
            BY <2>1, <3>2 DEF Whole, Follows
        <3>4. d = i
            BY <1>1, <2>1, <2>4, <3>1, <3>3 DEF Whole, Named
        <3> QED BY <1>1, <2>1, <3>3, <3>4
    <2>5. CASE s[i].kind = "tool"
        <3>1. PICK c \in 1 .. (i - 1) : s[c].kind = "call" /\ s[c].at = s[i].of
            BY <2>1, <2>5 DEF Whole, Follows
        <3>2. c \in DOMAIN s /\ k <= c
            BY <1>1, <2>1, <2>3, <2>5, <3>1
        <3>3. s[j].at = s[i].of => j = c
            BY <2>1, <3>1, <3>2 DEF Whole, Named
        <3>4. s[j].of = s[i].of /\ j # i
            BY <1>1, <1>5, <2>1, <2>5, <3>2, <3>3 DEF Unit
        <3>5. s[j].kind = "tool"
            BY <2>1, <2>5, <3>4 DEF Whole, Marked
        <3>6. PICK d \in 1 .. (j - 1) : s[d].kind = "call" /\ s[d].at = s[j].of
            BY <2>1, <3>5 DEF Whole, Follows
        <3>7. d = c
            BY <1>1, <2>1, <3>1, <3>2, <3>4, <3>6 DEF Whole, Named
        <3> QED BY <1>1, <2>1, <3>2, <3>6, <3>7
    <2>6. CASE s[i].kind \notin {"call", "tool"}
        BY <1>1, <1>5, <2>1, <2>6 DEF Unit
    <2> QED BY <2>4, <2>5, <2>6
<1>6. Closed(K, s)
    BY <1>5 DEF Closed
<1>7. Whole(r)
    <2> HIDE DEF K
    <2>1. \A x \in K : \E n \in DOMAIN r : e[n] = x
        BY <1>3
    <2>2. \A n \in DOMAIN r : e[n] \in K
        BY <1>3
    <2> QED BY <1>2, <1>4, <1>6, <2>1, <2>2, EmbeddedIsWhole
<1> QED BY <1>2, <1>7 DEF r

-----------------------------------------------------------------------------
(* The fitter.                                                             *)

\* A part of a range of numbers has a least and a greatest.
LEMMA RangePart ==
    ASSUME NEW a \in Int, NEW b \in Int, NEW S \in SUBSET (a .. b)
    PROVE  /\ IsFiniteSet(S) /\ S \in SUBSET Int
           /\ S # {} => /\ Max(S) \in S /\ Min(S) \in S
                        /\ \A x \in S : Min(S) <= x /\ x <= Max(S)
<1>1. IsFiniteSet(a .. b)
    BY FS_Interval
<1>2. IsFiniteSet(S)
    BY <1>1, FS_Subset
<1>3. \A x \in S : x \in Int
    OBVIOUS
<1>4. S \in SUBSET Int
    BY <1>3
<1>5. ASSUME S # {} PROVE Max(S) \in S /\ \A x \in S : x <= Max(S)
    BY <1>2, <1>4, <1>5, MaxIs
<1>6. ASSUME S # {} PROVE Min(S) \in S /\ \A x \in S : Min(S) <= x
    BY <1>2, <1>4, <1>6, MinIs
<1> QED BY <1>2, <1>4, <1>5, <1>6

\* What a unit weighs is the highest priority in it.
Weight(s, pr, i) == Max({pr[j] : j \in Unit(s, i)})

\* All messages of a unit weigh the same.
LEMMA WeightIs ==
    ASSUME NEW s, Whole(s), NEW pr \in [DOMAIN s -> 1 .. 3], NEW i \in DOMAIN s
    PROVE  /\ Weight(s, pr, i) \in 1 .. 3
           /\ \A j \in Unit(s, i) : pr[j] <= Weight(s, pr, i) /\ Weight(s, pr, j) = Weight(s, pr, i)
           /\ \E j \in Unit(s, i) : pr[j] = Weight(s, pr, i)
<1> DEFINE P == {pr[j] : j \in Unit(s, i)}
<1>1. /\ i \in Unit(s, i) /\ Unit(s, i) \subseteq DOMAIN s
      /\ \A j \in Unit(s, i) : Unit(s, j) = Unit(s, i)
    BY UnitIs
<1>2. P \in SUBSET (1 .. 3) /\ P # {}
    BY <1>1
<1>3. Max(P) \in P /\ \A x \in P : x <= Max(P)
    <2> HIDE DEF P
    <2>1. 1 \in Int /\ 3 \in Int
        OBVIOUS
    <2> QED BY <1>2, <2>1, RangePart
<1>4. Weight(s, pr, i) = Max(P)
    BY DEF Weight
<1>5. \A j \in Unit(s, i) : Weight(s, pr, j) = Weight(s, pr, i)
    BY <1>1 DEF Weight
<1>6. \A j \in Unit(s, i) : pr[j] \in P
    OBVIOUS
<1>7. \E j \in Unit(s, i) : pr[j] = Weight(s, pr, i)
    BY <1>3, <1>4
<1> QED BY <1>2, <1>3, <1>4, <1>5, <1>6, <1>7

\* The first message of a unit stands for it.
LEMMA FirstIs ==
    ASSUME NEW s, Whole(s), NEW i \in DOMAIN s
    PROVE  /\ Min(Unit(s, i)) \in Unit(s, i) /\ \A j \in Unit(s, i) : Min(Unit(s, i)) <= j
           /\ Unit(s, Min(Unit(s, i))) = Unit(s, i)
<1>1. /\ i \in Unit(s, i) /\ Unit(s, i) \subseteq DOMAIN s
      /\ \A j \in Unit(s, i) : Unit(s, j) = Unit(s, i)
    BY UnitIs
<1>2. DOMAIN s = 1 .. Len(s) /\ Len(s) \in Nat
    BY DEF Whole
<1> DEFINE U == Unit(s, i)
<1>3. IsFiniteSet(U) /\ U \in SUBSET Int /\ U # {}
    <2>1. IsFiniteSet(1 .. Len(s))
        BY <1>2, FS_Interval
    <2> HIDE DEF U
    <2>2. U \subseteq 1 .. Len(s) /\ i \in U
        BY <1>1, <1>2 DEF U
    <2> QED BY <2>1, <2>2, FS_Subset
<1>4. Min(U) \in U /\ \A j \in U : Min(U) <= j
    <2> HIDE DEF U
    <2> QED BY <1>3, MinIs
<1> QED BY <1>1, <1>4

\* Unit i goes before unit j.
Before(s, pr, i, j) ==
    \/ Weight(s, pr, i) < Weight(s, pr, j)
    \/ Weight(s, pr, i) = Weight(s, pr, j) /\ Min(Unit(s, i)) < Min(Unit(s, j))

\* What is kept when units went, the lowest and oldest first.
Kept(s, pr, K) ==
    /\ K \in SUBSET (DOMAIN s) /\ Closed(K, s)
    /\ \A i \in DOMAIN s : Weight(s, pr, i) = 3 => i \in K
    /\ \A i \in DOMAIN s \ K, j \in K : ~ Before(s, pr, j, i)

\* What is left when nothing else may go.
Critical(s, pr) == {i \in DOMAIN s : Weight(s, pr, i) = 3}

\* Fit drops units in their order and stops as soon as the rest fits.
LEMMA FitIs ==
    ASSUME NEW s, Whole(s), NEW pr \in [DOMAIN s -> 1 .. 3], NEW room \in Int
    PROVE  \E K \in SUBSET (DOMAIN s) :
              /\ Fit(s, pr, room) = Only(s, K) /\ Kept(s, pr, K)
              /\ Cost(Only(s, K)) <= room \/ K = Critical(s, pr)
<1>1. s \in Seq(Msg) /\ DOMAIN s = 1 .. Len(s) /\ Len(s) \in Nat
    BY DEF Whole
<1> DEFINE unit == [i \in DOMAIN s |-> Unit(s, i)]
           weight == [i \in DOMAIN s |-> Max({pr[j] : j \in unit[i]})]
           firsts(w) == {i \in DOMAIN s : weight[i] = w /\ Min(unit[i]) = i}
           weighing(w) == Ascending(firsts(w))
           order == weighing(1) \o weighing(2)
           dropped(n) == UNION {unit[order[k]] : k \in 1 .. n}
           without(n) == Only(s, DOMAIN s \ dropped(n))
           enough == {n \in 0 .. Len(order) : Cost(without(n)) <= room}
           stop == IF enough = {} THEN Len(order) ELSE Min(enough)
<1>2. Fit(s, pr, room) = IF Cost(s) <= room THEN s ELSE without(stop)
    BY DEF Fit
<1>3. \A i \in DOMAIN s : /\ unit[i] = Unit(s, i) /\ weight[i] = Weight(s, pr, i)
                          /\ Weight(s, pr, i) \in 1 .. 3
    <2>1. \A i \in DOMAIN s : Weight(s, pr, i) \in 1 .. 3
        BY WeightIs
    <2> QED BY <2>1 DEF Weight
<1> HIDE DEF weight
<1>4. CASE Cost(s) <= room
    <2>1. Closed(DOMAIN s, s)
        BY UnitIs DEF Closed
    <2>2. Only(s, DOMAIN s) = s
        BY <1>1, OnlyAll
    <2>3. Kept(s, pr, DOMAIN s)
        BY <2>1 DEF Kept
    <2> QED BY <1>2, <1>4, <2>2, <2>3
<1>5. CASE ~ (Cost(s) <= room)
    <2> DEFINE A1 == weighing(1)
               A2 == weighing(2)
               K == DOMAIN s \ dropped(stop)
    <2>1. \A w \in {1, 2} : Lists(weighing(w), firsts(w))
        <3> SUFFICES ASSUME NEW w \in {1, 2} PROVE Lists(weighing(w), firsts(w))
            OBVIOUS
        <3>1. firsts(w) \subseteq 1 .. Len(s) /\ firsts(w) \in SUBSET (Nat \ {0})
            BY <1>1
        <3>2. IsFiniteSet(1 .. Len(s))
            BY <1>1, FS_Interval
        <3> HIDE DEF firsts
        <3>3. IsFiniteSet(firsts(w))
            BY <3>1, <3>2, FS_Subset
        <3> QED BY <3>1, <3>3, AscendingIs
    <2>2. \A w \in {1, 2} : firsts(w) = {i \in DOMAIN s : Weight(s, pr, i) = w /\ Min(Unit(s, i)) = i}
        BY <1>3
    <2>3. /\ A1 \in Seq(DOMAIN s) /\ A2 \in Seq(DOMAIN s)
          /\ \A n \in DOMAIN A1 : Weight(s, pr, A1[n]) = 1 /\ Min(Unit(s, A1[n])) = A1[n]
          /\ \A n \in DOMAIN A2 : Weight(s, pr, A2[n]) = 2 /\ Min(Unit(s, A2[n])) = A2[n]
          /\ \A m, n \in DOMAIN A1 : m < n => A1[m] < A1[n]
          /\ \A m, n \in DOMAIN A2 : m < n => A2[m] < A2[n]
          /\ \A i \in DOMAIN s : Min(Unit(s, i)) = i =>
                /\ Weight(s, pr, i) = 1 => \E n \in DOMAIN A1 : A1[n] = i
                /\ Weight(s, pr, i) = 2 => \E n \in DOMAIN A2 : A2[n] = i
        <3> DEFINE F1 == {i \in DOMAIN s : Weight(s, pr, i) = 1 /\ Min(Unit(s, i)) = i}
                   F2 == {i \in DOMAIN s : Weight(s, pr, i) = 2 /\ Min(Unit(s, i)) = i}
        <3>1. Lists(A1, F1) /\ Lists(A2, F2)
            BY <2>1, <2>2
        <3> HIDE DEF A1, A2
        <3>2. /\ A1 \in Seq(F1) /\ A2 \in Seq(F2)
            BY <3>1 DEF Lists
        <3>3. A1 \in Seq(DOMAIN s) /\ A2 \in Seq(DOMAIN s)
            <4>1. F1 \subseteq DOMAIN s /\ F2 \subseteq DOMAIN s
                OBVIOUS
            <4> HIDE DEF F1, F2
            <4> QED BY <3>2, <4>1, SeqMonotonic
        <3>4. (\A n \in DOMAIN A1 : A1[n] \in F1) /\ (\A n \in DOMAIN A2 : A2[n] \in F2)
            <4> HIDE DEF F1, F2
            <4> QED BY <3>2
        <3>5. (\A i \in F1 : \E n \in DOMAIN A1 : A1[n] = i) /\ (\A i \in F2 : \E n \in DOMAIN A2 : A2[n] = i)
            BY <3>1 DEF Lists
        <3>6. /\ \A m, n \in DOMAIN A1 : m < n => A1[m] < A1[n]
              /\ \A m, n \in DOMAIN A2 : m < n => A2[m] < A2[n]
            BY <3>1 DEF Lists
        <3> QED BY <3>3, <3>4, <3>5, <3>6
    <2>4. /\ order \in Seq(DOMAIN s) /\ Len(order) = Len(A1) + Len(A2)
          /\ Len(A1) \in Nat /\ Len(A2) \in Nat /\ DOMAIN A1 = 1 .. Len(A1) /\ DOMAIN A2 = 1 .. Len(A2)
          /\ \A n \in 1 .. (Len(A1) + Len(A2)) :
                order[n] = IF n <= Len(A1) THEN A1[n] ELSE A2[n - Len(A1)]
        <3> HIDE DEF A1, A2
        <3>1. order = A1 \o A2
            BY DEF A1, A2
        <3> HIDE DEF order
        <3> QED BY <2>3, <3>1, ConcatProperties, LenProperties
    <2> HIDE DEF A1, A2, order, firsts, weighing
    <2>5. stop \in 0 .. Len(order)
        <3>1. 0 \in Int /\ Len(order) \in Int /\ Len(order) \in Nat
            BY <2>4
        <3>2. enough \in SUBSET (0 .. Len(order))
            OBVIOUS
        <3> HIDE DEF enough
        <3>3. enough # {} => Min(enough) \in enough
            BY <3>1, <3>2, RangePart
        <3>4. CASE enough = {}
            BY <3>1, <3>4
        <3>5. CASE enough # {}
            BY <3>2, <3>3, <3>5
        <3> QED BY <3>4, <3>5
    <2>6. enough # {} => Cost(without(stop)) <= room
        <3>1. 0 \in Int /\ Len(order) \in Int /\ Len(order) \in Nat
            BY <2>4
        <3>2. enough \in SUBSET (0 .. Len(order)) /\ \A n \in enough : Cost(without(n)) <= room
            OBVIOUS
        <3> HIDE DEF enough, without
        <3>3. enough # {} => Min(enough) \in enough
            BY <3>1, <3>2, RangePart
        <3> QED BY <3>2, <3>3
    <2>7. ASSUME NEW n \in 0 .. Len(order), NEW i \in DOMAIN s
          PROVE  i \in dropped(n) <=> \E k \in 1 .. n : i \in Unit(s, order[k])
        <3>1. \A k \in 1 .. n : order[k] \in DOMAIN s /\ unit[order[k]] = Unit(s, order[k])
            BY <2>4
        <3> QED BY <3>1
    <2>8. ASSUME NEW i \in DOMAIN s, Weight(s, pr, i) \in {1, 2}
          PROVE  \E k \in 1 .. Len(order) : order[k] = Min(Unit(s, i))
        <3> DEFINE f == Min(Unit(s, i))
        <3>1. f \in DOMAIN s /\ Min(Unit(s, f)) = f /\ Weight(s, pr, f) = Weight(s, pr, i)
            BY FirstIs, UnitIs, WeightIs
        <3> HIDE DEF f
        <3>2. CASE Weight(s, pr, i) = 1
            <4>1. PICK n \in DOMAIN A1 : A1[n] = f
                BY <2>3, <3>1, <3>2
            <4>2. n \in 1 .. Len(order) /\ order[n] = f
                BY <2>4, <4>1
            <4> QED BY <4>2 DEF f
        <3>3. CASE Weight(s, pr, i) = 2
            <4>1. PICK n \in DOMAIN A2 : A2[n] = f
                BY <2>3, <3>1, <3>3
            <4>2. n + Len(A1) \in 1 .. Len(order) /\ order[n + Len(A1)] = f
                BY <2>4, <4>1
            <4> QED BY <4>2 DEF f
        <3> QED BY <2>8, <3>2, <3>3
    <2>9. ASSUME NEW k \in 1 .. Len(order), NEW l \in 1 .. Len(order), l > k
          PROVE  /\ ~ Before(s, pr, order[l], order[k])
                 /\ order[k] \in DOMAIN s /\ Weight(s, pr, order[k]) \in {1, 2}
                 /\ Min(Unit(s, order[k])) = order[k]
        <3>1. CASE l <= Len(A1)
            <4>1. k \in DOMAIN A1 /\ l \in DOMAIN A1 /\ order[k] = A1[k] /\ order[l] = A1[l]
                BY <2>4, <2>9, <3>1
            <4>2. order[k] < order[l] /\ order[k] \in DOMAIN s /\ order[l] \in DOMAIN s
                BY <2>3, <2>9, <4>1
            <4>3. /\ Weight(s, pr, order[k]) = 1 /\ Weight(s, pr, order[l]) = 1
                  /\ Min(Unit(s, order[k])) = order[k] /\ Min(Unit(s, order[l])) = order[l]
                BY <2>3, <4>1
            <4>4. order[k] \in Nat /\ order[l] \in Nat
                BY <1>1, <4>2
            <4> QED BY <4>2, <4>3, <4>4 DEF Before
        <3>2. CASE k <= Len(A1) /\ ~ (l <= Len(A1))
            <4>1. k \in DOMAIN A1 /\ l - Len(A1) \in DOMAIN A2 /\ order[k] = A1[k] /\ order[l] = A2[l - Len(A1)]
                BY <2>4, <2>9, <3>2
            <4>2. /\ Weight(s, pr, order[k]) = 1 /\ Weight(s, pr, order[l]) = 2
                  /\ order[k] \in DOMAIN s /\ Min(Unit(s, order[k])) = order[k]
                BY <2>3, <4>1
            <4> QED BY <4>2 DEF Before
        <3>3. CASE ~ (k <= Len(A1))
            <4>1. /\ k - Len(A1) \in DOMAIN A2 /\ l - Len(A1) \in DOMAIN A2 /\ k - Len(A1) < l - Len(A1)
                  /\ order[k] = A2[k - Len(A1)] /\ order[l] = A2[l - Len(A1)]
                BY <2>4, <2>9, <3>3
            <4>2. order[k] < order[l] /\ order[k] \in DOMAIN s /\ order[l] \in DOMAIN s
                BY <2>3, <4>1
            <4>3. /\ Weight(s, pr, order[k]) = 2 /\ Weight(s, pr, order[l]) = 2
                  /\ Min(Unit(s, order[k])) = order[k] /\ Min(Unit(s, order[l])) = order[l]
                BY <2>3, <4>1
            <4>4. order[k] \in Nat /\ order[l] \in Nat
                BY <1>1, <4>2
            <4> QED BY <4>2, <4>3, <4>4 DEF Before
        <3> QED BY <2>4, <3>1, <3>2, <3>3
    <2>10. ASSUME NEW k \in 1 .. Len(order)
           PROVE  /\ order[k] \in DOMAIN s /\ Weight(s, pr, order[k]) \in {1, 2}
                  /\ Min(Unit(s, order[k])) = order[k]
        <3>1. CASE k <= Len(A1)
            <4>1. k \in DOMAIN A1 /\ order[k] = A1[k]
                BY <2>4, <3>1
            <4>2. A1[k] \in DOMAIN s
                BY <2>3, <4>1
            <4> QED BY <2>3, <4>1, <4>2
        <3>2. CASE ~ (k <= Len(A1))
            <4>1. k - Len(A1) \in DOMAIN A2 /\ order[k] = A2[k - Len(A1)]
                BY <2>4, <3>2
            <4>2. A2[k - Len(A1)] \in DOMAIN s
                BY <2>3, <4>1
            <4> QED BY <2>3, <4>1, <4>2
        <3> QED BY <2>4, <3>1, <3>2
    <2> HIDE DEF dropped
    <2>11. Closed(K, s)
        <3> SUFFICES ASSUME NEW i \in K, NEW j \in Unit(s, i) PROVE j \in K
            BY DEF Closed
        <3>1. j \in DOMAIN s /\ Unit(s, j) = Unit(s, i) /\ i \in DOMAIN s /\ i \in Unit(s, i)
            BY UnitIs
        <3>2. ASSUME NEW k \in 1 .. stop, j \in Unit(s, order[k]) PROVE FALSE
            <4>1. order[k] \in DOMAIN s
                BY <2>5, <2>10, <3>2
            <4>2. Unit(s, j) = Unit(s, order[k])
                BY <3>2, <4>1, UnitIs
            <4>3. i \in Unit(s, order[k])
                BY <3>1, <4>2
            <4> QED BY <2>5, <2>7, <3>1, <3>2, <4>3
        <3> QED BY <2>5, <2>7, <3>1, <3>2
    <2>12. ASSUME NEW i \in DOMAIN s, i \notin K
           PROVE  \E k \in 1 .. stop : /\ k \in 1 .. Len(order) /\ order[k] = Min(Unit(s, i))
                                       /\ i \in Unit(s, order[k])
                                       /\ Weight(s, pr, i) = Weight(s, pr, order[k])
        <3>1. PICK k \in 1 .. stop : i \in Unit(s, order[k])
            BY <2>5, <2>7, <2>12
        <3>2. k \in 1 .. Len(order)
            BY <2>4, <2>5
        <3>3. order[k] \in DOMAIN s /\ Min(Unit(s, order[k])) = order[k]
            BY <2>10, <3>2
        <3>4. Unit(s, i) = Unit(s, order[k]) /\ Weight(s, pr, i) = Weight(s, pr, order[k])
            BY <3>1, <3>3, UnitIs, WeightIs
        <3> QED BY <3>1, <3>2, <3>3, <3>4
    <2>13. ASSUME NEW i \in DOMAIN s, Weight(s, pr, i) = 3 PROVE i \in K
        <3> SUFFICES ASSUME i \notin K PROVE FALSE
            OBVIOUS
        <3>1. PICK k \in 1 .. Len(order) : Weight(s, pr, i) = Weight(s, pr, order[k])
            BY <2>12
        <3> QED BY <2>10, <2>13, <3>1
    <2>14. ASSUME NEW i \in DOMAIN s \ K, NEW j \in K PROVE ~ Before(s, pr, j, i)
        <3> SUFFICES ASSUME Before(s, pr, j, i) PROVE FALSE
            OBVIOUS
        <3>1. PICK k \in 1 .. stop : /\ k \in 1 .. Len(order) /\ order[k] = Min(Unit(s, i))
                                     /\ i \in Unit(s, order[k])
                                     /\ Weight(s, pr, i) = Weight(s, pr, order[k])
            BY <2>12
        <3>2. Weight(s, pr, j) \in {1, 2}
            <4>1. Weight(s, pr, i) \in {1, 2} /\ Weight(s, pr, j) \in 1 .. 3
                BY <1>3, <2>10, <3>1
            <4> QED BY <4>1 DEF Before
        <3>3. PICK l \in 1 .. Len(order) : order[l] = Min(Unit(s, j))
            BY <2>8, <3>2
        <3>4. /\ j \in DOMAIN s /\ i \in DOMAIN s
              /\ Unit(s, order[l]) = Unit(s, j) /\ order[l] \in Unit(s, j)
              /\ Unit(s, order[k]) = Unit(s, i)
            BY <3>1, <3>3, FirstIs
        <3>5. Weight(s, pr, order[l]) = Weight(s, pr, j)
            BY <3>4, WeightIs
        <3>6. Before(s, pr, order[l], order[k])
            BY <3>1, <3>3, <3>4, <3>5 DEF Before
        <3>7. ~ (l > k)
            BY <2>9, <3>1, <3>6
        <3>8. l \in 1 .. stop
            <4> HIDE DEF stop
            <4>1. stop \in Nat /\ stop <= Len(order) /\ Len(order) \in Nat
                BY <2>4, <2>5
            <4> QED BY <3>1, <3>3, <3>7, <4>1
        <3>9. j \in Unit(s, order[l])
            BY <3>4, UnitIs
        <3> QED BY <2>5, <2>7, <3>4, <3>8, <3>9
    <2>15. enough = {} => K = Critical(s, pr)
        <3> SUFFICES ASSUME enough = {} PROVE K = Critical(s, pr)
            OBVIOUS
        <3>1. stop = Len(order)
            OBVIOUS
        <3>2. ASSUME NEW i \in K PROVE Weight(s, pr, i) = 3
            <4> SUFFICES ASSUME Weight(s, pr, i) # 3 PROVE FALSE
                OBVIOUS
            <4>1. i \in DOMAIN s /\ Weight(s, pr, i) \in {1, 2}
                BY <1>3
            <4>2. PICK k \in 1 .. Len(order) : order[k] = Min(Unit(s, i))
                BY <2>8, <4>1
            <4>3. i \in Unit(s, order[k])
                BY <4>1, <4>2, FirstIs, UnitIs
            <4> QED BY <2>5, <2>7, <3>1, <4>1, <4>3
        <3> QED BY <2>13, <3>2 DEF Critical
    <2>16. Kept(s, pr, K)
        BY <2>11, <2>13, <2>14 DEF Kept
    <2>17. Fit(s, pr, room) = Only(s, K)
        BY <1>2, <1>5
    <2>18. Cost(Only(s, K)) <= room \/ K = Critical(s, pr)
        BY <2>6, <2>15
    <2>19. K \in SUBSET (DOMAIN s)
        OBVIOUS
    <2> HIDE DEF K
    <2> QED BY <2>16, <2>17, <2>18, <2>19
<1> QED BY <1>4, <1>5

-----------------------------------------------------------------------------
(* What is put back.                                                       *)

\* r is t with m behind its first k messages.
Inserted(r, t, m, k) ==
    /\ r \in Seq(Msg) /\ Len(r) = Len(t) + 1
    /\ \A i \in 1 .. (Len(t) + 1) :
          r[i] = IF i <= k THEN t[i] ELSE IF i = k + 1 THEN m ELSE t[i - 1]

\* A message that is not put before a result keeps the exchanges whole.
LEMMA InsertedIsWhole ==
    ASSUME NEW t, Whole(t), NEW m \in Msg, NEW k \in 0 .. Len(t), NEW r, Inserted(r, t, m, k),
           m.kind \notin {"call", "tool"}, m.of = 0,
           k + 1 \in DOMAIN t => t[k + 1].kind # "tool",
           \A i \in DOMAIN t : t[i].kind = "call" => t[i].at # m.at
    PROVE  Whole(r)
<1> DEFINE back(i) == IF i <= k THEN i ELSE i - 1
           up(i) == IF i <= k THEN i ELSE i + 1
<1>1. /\ DOMAIN t = 1 .. Len(t) /\ Len(t) \in Nat /\ k \in Nat /\ k <= Len(t)
      /\ DOMAIN r = 1 .. (Len(t) + 1) /\ r \in Seq(Msg) /\ Len(r) = Len(t) + 1
      /\ \A i \in DOMAIN t : t[i] \in Msg
    <2>1. t \in Seq(Msg) /\ r \in Seq(Msg) /\ Len(r) = Len(t) + 1
        BY DEF Inserted, Whole
    <2> QED BY <2>1
<1>2. /\ k + 1 \in DOMAIN r /\ r[k + 1] = m
      /\ \A i \in DOMAIN r : i # k + 1 => back(i) \in DOMAIN t /\ r[i] = t[back(i)] /\ up(back(i)) = i
      /\ \A i \in DOMAIN t : up(i) \in DOMAIN r /\ up(i) # k + 1 /\ r[up(i)] = t[i] /\ back(up(i)) = i
    BY <1>1 DEF Inserted
<1>3. \A i \in DOMAIN r : r[i].kind \in {"call", "tool"} => i # k + 1
    BY <1>2
<1>4. ASSUME NEW i \in DOMAIN t, t[i].of # 0 PROVE i # k + 1
    BY <1>1, <1>4 DEF Whole, Marked
<1>5. Marked(r)
    <2> SUFFICES ASSUME NEW i \in DOMAIN r
                 PROVE (r[i].kind = "tool" <=> r[i].of # 0) /\ (r[i].kind = "call" => r[i].at # 0)
        BY DEF Marked
    <2>1. CASE i = k + 1
        BY <1>2, <2>1
    <2>2. CASE i # k + 1
        <3>1. back(i) \in DOMAIN t /\ r[i] = t[back(i)]
            BY <1>2, <2>2
        <3> HIDE DEF back
        <3> QED BY <3>1 DEF Whole, Marked
    <2> QED BY <2>1, <2>2
<1>6. Named(r)
    <2> SUFFICES ASSUME NEW i \in DOMAIN r, NEW j \in DOMAIN r, r[i].kind = "call", r[j].at = r[i].at
                 PROVE i = j
        BY DEF Named
    <2>1. i # k + 1 /\ back(i) \in DOMAIN t /\ r[i] = t[back(i)]
        BY <1>2, <1>3
    <2>2. j # k + 1
        BY <1>2, <2>1
    <2>3. back(j) \in DOMAIN t /\ r[j] = t[back(j)]
        BY <1>2, <2>2
    <2> HIDE DEF back, up
    <2>4. back(i) = back(j)
        BY <2>1, <2>3 DEF Whole, Named
    <2> QED BY <1>2, <2>1, <2>2, <2>4
<1>7. Follows(r)
    <2> SUFFICES ASSUME NEW i \in DOMAIN r, r[i].kind = "tool"
                 PROVE \E c \in 1 .. (i - 1) : /\ r[c].kind = "call" /\ r[c].at = r[i].of
                                               /\ \A j \in (c + 1) .. i : r[j].of = r[i].of
        BY DEF Follows
    <2> DEFINE b == back(i)
    <2>1. i # k + 1 /\ b \in DOMAIN t /\ r[i] = t[b] /\ up(b) = i
        BY <1>2, <1>3
    <2> HIDE DEF b
    <2>2. PICK c \in 1 .. (b - 1) : /\ t[c].kind = "call" /\ t[c].at = t[b].of
                                    /\ \A j \in (c + 1) .. b : t[j].of = t[b].of
        BY <2>1 DEF Whole, Follows
    <2>3. t[b].of # 0
        BY <2>1 DEF Whole, Marked
    <2>4. c \in DOMAIN t /\ c < b
        BY <1>1, <2>1
    <2>5. up(c) \in 1 .. (i - 1) /\ r[up(c)] = t[c]
        BY <1>1, <1>2, <2>1, <2>4
    <2>6. ASSUME NEW j \in (up(c) + 1) .. i PROVE r[j].of = r[i].of
        <3>1. j \in DOMAIN r
            BY <1>1, <2>5
        <3>2. CASE j = k + 1
            <4>1. k + 1 \in (c + 1) .. b
                BY <1>1, <2>1, <2>4, <2>6, <3>2
            <4>2. t[k + 1].of = t[b].of /\ k + 1 \in DOMAIN t
                BY <1>1, <2>1, <2>2, <4>1
            <4> QED BY <1>4, <2>3, <4>2
        <3>3. CASE j # k + 1
            <4>1. r[j] = t[back(j)]
                BY <1>2, <3>1, <3>3
            <4>2. j \in Int /\ c \in Int /\ b \in Int /\ k \in Int /\ c < b /\ up(c) < j /\ j <= up(b)
                BY <1>1, <2>1, <2>4, <2>6
            <4>3. c < back(j) /\ back(j) <= b /\ back(j) \in Int
                BY <3>3, <4>2
            <4> HIDE DEF back, up
            <4>4. back(j) \in (c + 1) .. b
                BY <4>2, <4>3
            <4> QED BY <2>1, <2>2, <4>1, <4>4
        <3> QED BY <3>2, <3>3
    <2> HIDE DEF up
    <2> QED BY <2>1, <2>2, <2>5, <2>6
<1>8. Answered(r)
    <2> SUFFICES ASSUME NEW i \in DOMAIN r, r[i].kind = "call"
                 PROVE i < Len(r) /\ r[i + 1].of = r[i].at
        BY DEF Answered
    <2> DEFINE b == back(i)
    <2>1. i # k + 1 /\ b \in DOMAIN t /\ r[i] = t[b] /\ up(b) = i
        BY <1>2, <1>3
    <2>2. b < Len(t) /\ t[b + 1].of = t[b].at /\ t[b].at # 0
        BY <2>1 DEF Whole, Answered, Marked
    <2>3. b + 1 \in DOMAIN t /\ b + 1 # k + 1
        BY <1>1, <1>4, <2>1, <2>2
    <2>4. up(b + 1) = i + 1
        BY <1>1, <2>1, <2>3
    <2>5. r[i + 1] = t[b + 1] /\ i + 1 \in DOMAIN r
        BY <1>2, <2>3, <2>4
    <2> HIDE DEF b
    <2> QED BY <1>1, <2>1, <2>2, <2>5
<1> QED BY <1>1, <1>5, <1>6, <1>7, <1>8 DEF Whole

\* A message at the end.
LEMMA AppendedIsInserted ==
    ASSUME NEW t \in Seq(Msg), NEW m \in Msg
    PROVE  Inserted(Append(t, m), t, m, Len(t))
BY DEF Inserted

\* restoreHeldMessages puts one image back: where it was if all that is missing
\* stood before it, and before everything else if more is missing than that.
LEMMA RestoredIsInserted ==
    ASSUME NEW before \in Seq(Msg), NEW text \in Seq(Msg), Len(text) < Len(before),
           NEW h \in DOMAIN before, At(before, {"image"}) = {h}
    PROVE  LET trimmed == Len(before) - Len(text) - 1
               k == IF h <= trimmed THEN 0 ELSE h - 1 - trimmed
           IN  k \in 0 .. Len(text) /\ Inserted(RestoreHeld(text, before), text, before[h], k)
<1> DEFINE n == Len(before)
           T == Len(text)
           trimmed == n - T - 1
           k == IF h <= trimmed THEN 0 ELSE h - 1 - trimmed
           slots == {i \in DOMAIN before \ {h} : i > trimmed}
           rank(i) == Cardinality({j \in slots : j <= i})
           end == Min({i \in slots : rank(i) > T} \cup {n + 1})
           P == {i \in {h} \cup slots : i < end}
           placed == Ascending(P)
           first == [m \in DOMAIN placed |-> IF placed[m] \in {h} THEN before[placed[m]] ELSE text[rank(placed[m])]]
<1>1. RestoreHeld(text, before) = first \o SubSeq(text, rank(end - 1) + 1, T)
    <2>1. Cardinality({h}) = 1 /\ {h} # {}
        BY FS_Singleton
    <2> QED BY <2>1 DEF RestoreHeld
<1>2. /\ n \in Nat /\ T \in Nat /\ trimmed \in Nat /\ h \in 1 .. n /\ n = T + trimmed + 1
      /\ DOMAIN before = 1 .. n /\ DOMAIN text = 1 .. T
      /\ \A i \in 1 .. n : before[i] \in Msg
      /\ \A i \in 1 .. T : text[i] \in Msg
    OBVIOUS
<1> HIDE DEF n, T
\* The end and the placed indexes, for the two places of the image.
<1>3. /\ end \in Nat /\ placed \in Seq(1 .. n) /\ DOMAIN placed = 1 .. (T + 1) /\ rank(end - 1) = T
      /\ \A m \in 1 .. (T + 1) :
            /\ m = k + 1 => placed[m] = h
            /\ m # k + 1 => placed[m] # h /\ rank(placed[m]) = IF m <= k THEN m ELSE m - 1
      /\ k \in 0 .. T
    <2>1. CASE h <= trimmed
        <3>1. slots = (trimmed + 1) .. n
            BY <1>2, <2>1
        <3>2. \A i \in trimmed .. n : rank(i) = i - trimmed
            <4> SUFFICES ASSUME NEW i \in trimmed .. n PROVE rank(i) = i - trimmed
                OBVIOUS
            <4>1. {j \in slots : j <= i} = (trimmed + 1) .. i
                BY <1>2, <3>1
            <4>2. Cardinality((trimmed + 1) .. i) = i - trimmed
                <5>1. trimmed + 1 \in Int /\ i \in Int
                    BY <1>2
                <5>2. Cardinality((trimmed + 1) .. i) = IF trimmed + 1 > i THEN 0 ELSE i - (trimmed + 1) + 1
                    BY <5>1, FS_Interval
                <5> QED BY <1>2, <5>2
            <4> QED BY <4>1, <4>2
        <3> HIDE DEF slots, rank
        <3>3. {i \in slots : rank(i) > T} \cup {n + 1} = {n, n + 1}
            <4>1. \A i \in slots : rank(i) > T <=> i = n
                BY <1>2, <3>1, <3>2
            <4>2. n \in slots
                BY <1>2, <3>1
            <4> QED BY <4>1, <4>2
        <3>4. end = n
            <4>1. n \in Int /\ n + 1 \in Int
                BY <1>2
            <4>2. Min({n, n + 1}) \in {n, n + 1} /\ Min({n, n + 1}) <= n
                BY <4>1, PairIs
            <4>3. Min({n, n + 1}) = n
                <5> HIDE DEF end
                <5>1. Min({n, n + 1}) <= n
                    BY <4>2
                <5> QED BY <1>2, <4>2, <5>1
            <4> QED BY <3>3, <4>3
        <3> HIDE DEF end
        <3>5. P = {h} \cup ((trimmed + 1) .. (n - 1))
            BY <1>2, <2>1, <3>1, <3>4
        <3> DEFINE q == [m \in 1 .. (T + 1) |-> IF m = 1 THEN h ELSE trimmed + m - 1]
        <3>6. Lists(q, P)
            <4>1. q \in Seq(P) /\ DOMAIN q = 1 .. (T + 1)
                <5>1. ASSUME NEW m \in 1 .. (T + 1) PROVE (IF m = 1 THEN h ELSE trimmed + m - 1) \in P
                    <6> HIDE DEF P
                    <6>1. CASE m = 1
                        BY <3>5, <6>1
                    <6>2. CASE m # 1
                        <7>1. trimmed + m - 1 \in (trimmed + 1) .. (n - 1)
                            BY <1>2, <6>2
                        <7> QED BY <3>5, <6>2, <7>1
                    <6> QED BY <6>1, <6>2
                <5> HIDE DEF P
                <5> QED BY <1>2, <5>1
            <4>2. \A m \in 1 .. (T + 1) : q[m] = IF m = 1 THEN h ELSE trimmed + m - 1
                OBVIOUS
            <4>3. \A m, l \in 1 .. (T + 1) : m < l => q[m] < q[l]
                BY <1>2, <2>1, <4>2
            <4>4. ASSUME NEW x \in P PROVE \E m \in 1 .. (T + 1) : q[m] = x
                <5>1. CASE x = h
                    <6>1. 1 \in 1 .. (T + 1)
                        BY <1>2
                    <6> QED BY <4>2, <5>1, <6>1
                <5>2. CASE x # h
                    <6>1. x - trimmed + 1 \in 1 .. (T + 1) /\ x - trimmed + 1 # 1
                          /\ trimmed + (x - trimmed + 1) - 1 = x
                        BY <1>2, <3>5, <5>2
                    <6> QED BY <4>2, <6>1
                <5> QED BY <5>1, <5>2
            <4> HIDE DEF q, P
            <4> QED BY <4>1, <4>3, <4>4 DEF Lists
        <3>7. placed = q
            <4>1. P \in SUBSET (1 .. n)
                BY <1>2, <2>1, <3>5
            <4> HIDE DEF P, q
            <4>2. P \in SUBSET (Nat \ {0}) /\ IsFiniteSet(P)
                <5>1. 1 \in Int /\ n \in Int
                    BY <1>2
                <5>2. IsFiniteSet(P)
                    BY <4>1, <5>1, RangePart
                <5>3. \A x \in P : x \in Nat \ {0}
                    BY <1>2, <4>1
                <5> QED BY <5>2, <5>3
            <4>3. Ascending(P) = q
                BY <3>6, <4>2, AscendingEquals
            <4> QED BY <4>3
        <3> HIDE DEF placed
        <3>8. k = 0
            BY <2>1
        <3>9. ASSUME NEW m \in 1 .. (T + 1), m # 1
              PROVE placed[m] # h /\ rank(placed[m]) = m - 1
            <4>1. placed[m] = trimmed + m - 1 /\ trimmed + m - 1 \in trimmed .. n
                BY <1>2, <3>7, <3>9
            <4>2. rank(trimmed + m - 1) = (trimmed + m - 1) - trimmed
                BY <3>2, <4>1
            <4>3. (trimmed + m - 1) - trimmed = m - 1 /\ trimmed + m - 1 # h
                <5>1. m \in Int /\ trimmed \in Int /\ h \in Int /\ m > 1 /\ h <= trimmed
                    BY <1>2, <2>1, <3>9
                <5> HIDE DEF trimmed
                <5> QED BY <5>1
            <4> QED BY <4>1, <4>2, <4>3
        <3>10. placed \in Seq(1 .. n)
            <4>1. \A m \in 1 .. (T + 1) : (IF m = 1 THEN h ELSE trimmed + m - 1) \in 1 .. n
                BY <1>2
            <4> QED BY <1>2, <3>7, <4>1
        <3>11. rank(end - 1) = T
            <4>1. n - 1 \in trimmed .. n /\ n - 1 - trimmed = T
                BY <1>2
            <4> QED BY <3>2, <3>4, <4>1
        <3>12. placed[1] = h /\ DOMAIN placed = 1 .. (T + 1)
            BY <1>2, <3>7
        <3> HIDE DEF k, trimmed
        <3>13. end \in Nat /\ k \in 0 .. T
            BY <1>2, <3>4, <3>8
        <3>14. ASSUME NEW m \in 1 .. (T + 1)
               PROVE /\ m = k + 1 => placed[m] = h
                     /\ m # k + 1 => placed[m] # h /\ rank(placed[m]) = IF m <= k THEN m ELSE m - 1
            BY <1>2, <3>8, <3>9, <3>12, <3>14
        <3> QED BY <3>10, <3>11, <3>12, <3>13, <3>14
    <2>2. CASE ~ (h <= trimmed)
        <3>1. slots = ((trimmed + 1) .. n) \ {h}
            BY <1>2, <2>2
        <3>2. \A i \in trimmed .. n : rank(i) = IF i < h THEN i - trimmed ELSE i - trimmed - 1
            <4> SUFFICES ASSUME NEW i \in trimmed .. n
                         PROVE rank(i) = IF i < h THEN i - trimmed ELSE i - trimmed - 1
                OBVIOUS
            <4> DEFINE R == (trimmed + 1) .. i
            <4>1. {j \in slots : j <= i} = R \ {h}
                BY <1>2, <3>1
            <4>2. IsFiniteSet(R) /\ Cardinality(R) = i - trimmed
                <5>1. trimmed + 1 \in Int /\ i \in Int
                    BY <1>2
                <5>2. Cardinality(R) = IF trimmed + 1 > i THEN 0 ELSE i - (trimmed + 1) + 1
                    BY <5>1, FS_Interval
                <5>3. IsFiniteSet(R)
                    BY <5>1, FS_Interval
                <5> QED BY <1>2, <5>2, <5>3
            <4>3. h \in R <=> ~ (i < h)
                BY <1>2, <2>2
            <4> HIDE DEF R
            <4>4. Cardinality(R \ {h}) = IF h \in R THEN Cardinality(R) - 1 ELSE Cardinality(R)
                BY <4>2, FS_RemoveElement
            <4>5. rank(i) = Cardinality(R \ {h})
                BY <4>1
            <4> HIDE DEF rank
            <4> QED BY <4>2, <4>3, <4>4, <4>5
        <3> HIDE DEF slots, rank
        <3>3. {i \in slots : rank(i) > T} \cup {n + 1} = {n + 1}
            <4>1. \A i \in slots : ~ (rank(i) > T)
                BY <1>2, <3>1, <3>2
            <4> QED BY <4>1
        <3>4. end = n + 1
            <4>1. {n + 1} \in SUBSET ((n + 1) .. (n + 1)) /\ n + 1 \in Int
                BY <1>2
            <4>2. Min({n + 1}) \in {n + 1}
                BY <4>1, RangePart
            <4> QED BY <3>3, <4>2
        <3> HIDE DEF end
        <3>5. P = (trimmed + 1) .. n
            BY <1>2, <2>2, <3>1, <3>4
        <3> DEFINE q == [m \in 1 .. (T + 1) |-> trimmed + m]
        <3>6. Lists(q, P)
            <4>1. q \in Seq(P) /\ DOMAIN q = 1 .. (T + 1)
                <5>1. ASSUME NEW m \in 1 .. (T + 1) PROVE trimmed + m \in P
                    <6> HIDE DEF P
                    <6>1. trimmed + m \in (trimmed + 1) .. n
                        BY <1>2
                    <6> QED BY <3>5, <6>1
                <5> HIDE DEF P
                <5> QED BY <1>2, <5>1
            <4>2. \A m \in 1 .. (T + 1) : q[m] = trimmed + m
                OBVIOUS
            <4>3. \A m, l \in 1 .. (T + 1) : m < l => q[m] < q[l]
                BY <1>2, <4>2
            <4>4. ASSUME NEW x \in P PROVE \E m \in 1 .. (T + 1) : q[m] = x
                <5>1. x - trimmed \in 1 .. (T + 1) /\ trimmed + (x - trimmed) = x
                    <6>1. x \in (trimmed + 1) .. n /\ n = T + trimmed + 1 /\ T \in Nat /\ trimmed \in Nat
                        BY <1>2, <3>5
                    <6> HIDE DEF trimmed
                    <6> QED BY <6>1
                <5> QED BY <4>2, <5>1
            <4> HIDE DEF q, P
            <4> QED BY <4>1, <4>3, <4>4 DEF Lists
        <3>7. placed = q
            <4>1. P \in SUBSET (1 .. n)
                BY <1>2, <3>5
            <4> HIDE DEF P, q
            <4>2. P \in SUBSET (Nat \ {0}) /\ IsFiniteSet(P)
                <5>1. 1 \in Int /\ n \in Int
                    BY <1>2
                <5>2. IsFiniteSet(P)
                    BY <4>1, <5>1, RangePart
                <5>3. \A x \in P : x \in Nat \ {0}
                    BY <1>2, <4>1
                <5> QED BY <5>2, <5>3
            <4>3. Ascending(P) = q
                BY <3>6, <4>2, AscendingEquals
            <4> QED BY <4>3
        <3> HIDE DEF placed
        <3>8. k = h - 1 - trimmed /\ k \in 0 .. T
            BY <1>2, <2>2
        <3>9. ASSUME NEW m \in 1 .. (T + 1)
              PROVE /\ m = k + 1 => placed[m] = h
                    /\ m # k + 1 => placed[m] # h /\ rank(placed[m]) = IF m <= k THEN m ELSE m - 1
            <4>1. placed[m] = trimmed + m /\ trimmed + m \in trimmed .. n
                BY <1>2, <3>7
            <4>2. rank(trimmed + m) = IF trimmed + m < h THEN m ELSE m - 1
                BY <1>2, <3>2, <4>1
            <4>3. (m = k + 1 <=> trimmed + m = h) /\ (m <= k <=> trimmed + m < h)
                <5>1. m \in Int /\ trimmed \in Int /\ h \in Int /\ k = h - 1 - trimmed
                    BY <1>2, <3>8
                <5> HIDE DEF k, trimmed
                <5> QED BY <5>1
            <4> HIDE DEF k, trimmed
            <4> QED BY <4>1, <4>2, <4>3
        <3>10. placed \in Seq(1 .. n)
            <4>1. \A m \in 1 .. (T + 1) : trimmed + m \in 1 .. n
                BY <1>2
            <4> QED BY <1>2, <3>7, <4>1
        <3>11. rank(end - 1) = T
            <4>1. n \in trimmed .. n /\ ~ (n < h) /\ n - trimmed - 1 = T /\ (n + 1) - 1 = n
                BY <1>2
            <4> QED BY <3>2, <3>4, <4>1
        <3>12. DOMAIN placed = 1 .. (T + 1)
            BY <1>2, <3>7
        <3> HIDE DEF k, trimmed
        <3> QED BY <1>2, <3>4, <3>8, <3>9, <3>10, <3>11, <3>12
    <2> QED BY <2>1, <2>2
<1> HIDE DEF k, trimmed, rank, end, placed
<1>4. /\ DOMAIN first = 1 .. (T + 1)
      /\ \A m \in 1 .. (T + 1) :
            first[m] = IF m <= k THEN text[m] ELSE IF m = k + 1 THEN before[h] ELSE text[m - 1]
    <2>1. \A m \in 1 .. (T + 1) : first[m] = IF placed[m] = h THEN before[placed[m]] ELSE text[rank(placed[m])]
        BY <1>3
    <2>2. DOMAIN first = 1 .. (T + 1)
        BY <1>3
    <2> HIDE DEF first
    <2>3. ASSUME NEW m \in 1 .. (T + 1)
          PROVE first[m] = IF m <= k THEN text[m] ELSE IF m = k + 1 THEN before[h] ELSE text[m - 1]
        <3>1. CASE m = k + 1
            <4>1. placed[m] = h /\ ~ (m <= k)
                BY <1>3, <3>1
            <4> QED BY <2>1, <3>1, <4>1
        <3>2. CASE m # k + 1
            <4>1. placed[m] # h /\ rank(placed[m]) = IF m <= k THEN m ELSE m - 1
                BY <1>3, <3>2
            <4>2. first[m] = text[rank(placed[m])]
                BY <2>1, <4>1
            <4> QED BY <3>2, <4>1, <4>2
        <3> QED BY <3>1, <3>2
    <2> QED BY <2>2, <2>3
<1>5. first \in Seq(Msg) /\ Len(first) = T + 1
    <2>1. \A m \in 1 .. (T + 1) : first[m] \in Msg
        BY <1>2, <1>3, <1>4
    <2>2. first = [m \in 1 .. (T + 1) |-> first[m]]
        BY <1>4
    <2> HIDE DEF first
    <2> QED BY <1>2, <2>1, <2>2
<1>6. SubSeq(text, rank(end - 1) + 1, T) = << >>
    BY <1>2, <1>3, SubSeqEmpty
<1>7. RestoreHeld(text, before) = first
    <2> HIDE DEF first
    <2> QED BY <1>1, <1>5, <1>6, ConcatEmptySeq
<1> HIDE DEF first
<1> QED BY <1>3, <1>4, <1>5, <1>7 DEF Inserted, k, trimmed, n, T

-----------------------------------------------------------------------------
(* What schemas cost.                                                      *)

\* The schema whose cost is added last.
Chosen(s) == CHOOSE t \in s : TRUE

\* f adds up the costs of the sets of D.
Sums(f, D) ==
    \A s \in D : f[s] = IF s = {} THEN 0 ELSE ToolCost[Chosen(s)] + f[s \ {Chosen(s)}]

\* The function the sum of a set of schemas is computed with.
SchemaFcn(S) ==
    CHOOSE f : f = [s \in SUBSET S |-> IF s = {} THEN 0 ELSE ToolCost[Chosen(s)] + f[s \ {Chosen(s)}]]

\* The sum is its last value.
LEMMA SchemaUnfolds == \A S : SchemaCost(S) = SchemaFcn(S)[S]
BY DEF SchemaCost, SchemaFcn, MapThenSumSet, MapThenFoldSet, Chosen

\* Such a function exists.
LEMMA SumsExist ==
    ASSUME NEW S \in SUBSET Tool
    PROVE  \E f \in [SUBSET S -> Nat] : Sums(f, SUBSET S)
<1> DEFINE Small(n) == {s \in SUBSET S : Cardinality(s) <= n}
           T == {n \in Nat : \E f \in [Small(n) -> Nat] : Sums(f, Small(n))}
<1>1. /\ IsFiniteSet(S) /\ ToolCost \in [Tool -> Nat]
      /\ \A s \in SUBSET S : IsFiniteSet(s) /\ Cardinality(s) \in Nat
      /\ \A s \in SUBSET S : s # {} => /\ Chosen(s) \in s /\ Chosen(s) \in Tool
                                       /\ s \ {Chosen(s)} \in SUBSET S
                                       /\ Cardinality(s \ {Chosen(s)}) = Cardinality(s) - 1
    <2>1. IsFiniteSet(S) /\ ToolCost \in [Tool -> Nat]
        BY FitAssumption, FS_Subset
    <2>2. ASSUME NEW s \in SUBSET S PROVE IsFiniteSet(s) /\ Cardinality(s) \in Nat
        BY <2>1, FS_Subset, FS_CardinalityType
    <2>3. ASSUME NEW s \in SUBSET S, s # {}
          PROVE /\ Chosen(s) \in s /\ Chosen(s) \in Tool /\ s \ {Chosen(s)} \in SUBSET S
                /\ Cardinality(s \ {Chosen(s)}) = Cardinality(s) - 1
        <3>1. Chosen(s) \in s
            BY <2>3 DEF Chosen
        <3>2. Cardinality(s \ {Chosen(s)}) = Cardinality(s) - 1
            BY <2>2, <3>1, FS_RemoveElement
        <3> QED BY <3>1, <3>2
    <2> QED BY <2>1, <2>2, <2>3
<1>2. 0 \in T
    <2> DEFINE f == [s \in Small(0) |-> 0]
    <2>1. \A s \in Small(0) : s = {}
        <3> SUFFICES ASSUME NEW s \in Small(0) PROVE s = {}
            OBVIOUS
        <3>1. Cardinality(s) = 0 /\ IsFiniteSet(s)
            BY <1>1
        <3> QED BY <3>1, FS_EmptySet
    <2>2. f \in [Small(0) -> Nat] /\ Sums(f, Small(0))
        BY <2>1 DEF Sums
    <2> QED BY <2>2
<1>3. ASSUME NEW n \in Nat, n \in T PROVE n + 1 \in T
    <2>1. PICK f \in [Small(n) -> Nat] : Sums(f, Small(n))
        BY <1>3
    <2> DEFINE g == [s \in Small(n + 1) |-> IF s = {} THEN 0 ELSE ToolCost[Chosen(s)] + f[s \ {Chosen(s)}]]
    <2>2. \A s \in Small(n + 1) : s # {} => s \ {Chosen(s)} \in Small(n) /\ s \ {Chosen(s)} \in Small(n + 1)
        BY <1>1
    <2>3. \A s \in Small(n) : s \in Small(n + 1)
        BY <1>1
    <2>4. \A s \in Small(n) : g[s] = f[s]
        BY <2>1, <2>3 DEF Sums
    <2>5. g \in [Small(n + 1) -> Nat]
        <3>1. ASSUME NEW s \in Small(n + 1)
              PROVE (IF s = {} THEN 0 ELSE ToolCost[Chosen(s)] + f[s \ {Chosen(s)}]) \in Nat
            <4>1. CASE s = {}
                BY <4>1
            <4>2. CASE s # {}
                <5>1. f[s \ {Chosen(s)}] \in Nat
                    BY <2>1, <2>2, <4>2
                <5>2. ToolCost[Chosen(s)] \in Nat
                    BY <1>1, <4>2
                <5> QED BY <4>2, <5>1, <5>2
            <4> QED BY <4>1, <4>2
        <3> QED BY <3>1
    <2>6. Sums(g, Small(n + 1))
        <3> SUFFICES ASSUME NEW s \in Small(n + 1)
                     PROVE g[s] = IF s = {} THEN 0 ELSE ToolCost[Chosen(s)] + g[s \ {Chosen(s)}]
            BY DEF Sums
        <3>1. CASE s = {}
            BY <3>1
        <3>2. CASE s # {}
            <4>1. g[s \ {Chosen(s)}] = f[s \ {Chosen(s)}]
                BY <2>2, <2>4, <3>2
            <4>2. g[s] = ToolCost[Chosen(s)] + f[s \ {Chosen(s)}]
                BY <3>2
            <4> HIDE DEF g
            <4> QED BY <3>2, <4>1, <4>2
        <3> QED BY <3>1, <3>2
    <2> HIDE DEF g, Small
    <2> QED BY <2>5, <2>6
<1>4. Cardinality(S) \in T
    <2> HIDE DEF T
    <2>1. \A n \in Nat : n \in T
        BY <1>2, <1>3, SetInduction
    <2> QED BY <1>1, <2>1
<1>5. Small(Cardinality(S)) = SUBSET S
    <2>1. \A s \in SUBSET S : Cardinality(s) <= Cardinality(S)
        BY <1>1, FS_Subset
    <2> QED BY <2>1
<1>6. PICK f \in [Small(Cardinality(S)) -> Nat] : Sums(f, Small(Cardinality(S)))
    BY <1>4
<1> HIDE DEF Small
<1> QED BY <1>5, <1>6

\* The cost of a set of schemas is a number, and none cost nothing.
LEMMA SchemaCostIs ==
    ASSUME NEW S \in SUBSET Tool
    PROVE  SchemaCost(S) \in Nat /\ SchemaCost({}) = 0
<1> DEFINE body(f, D) == [s \in SUBSET D |-> IF s = {} THEN 0 ELSE ToolCost[Chosen(s)] + f[s \ {Chosen(s)}]]
<1>1. ASSUME NEW D \in SUBSET Tool
      PROVE /\ Sums(SchemaFcn(D), SUBSET D)
    <2>1. PICK f \in [SUBSET D -> Nat] : Sums(f, SUBSET D)
        BY SumsExist
    <2>2. f = body(f, D)
        BY <2>1 DEF Sums
    <2>3. SchemaFcn(D) = body(SchemaFcn(D), D)
        BY <2>2 DEF SchemaFcn
    <2> QED BY <2>3 DEF Sums
<1> DEFINE F == SchemaFcn(S)
           T == {n \in Nat : \A s \in SUBSET S : Cardinality(s) = n => F[s] \in Nat}
<1>2. /\ IsFiniteSet(S) /\ ToolCost \in [Tool -> Nat]
      /\ \A s \in SUBSET S : IsFiniteSet(s) /\ Cardinality(s) \in Nat
    BY FitAssumption, FS_Subset, FS_CardinalityType
<1>3. 0 \in T
    <2> SUFFICES ASSUME NEW s \in SUBSET S, Cardinality(s) = 0 PROVE F[s] \in Nat
        OBVIOUS
    <2>1. s = {}
        BY <1>2, FS_EmptySet
    <2>2. F[s] = 0
        BY <1>1, <2>1 DEF Sums
    <2> QED BY <2>2
<1>4. ASSUME NEW n \in Nat, n \in T PROVE n + 1 \in T
    <2> SUFFICES ASSUME NEW s \in SUBSET S, Cardinality(s) = n + 1 PROVE F[s] \in Nat
        OBVIOUS
    <2>1. s # {} /\ IsFiniteSet(s)
        BY <1>2, FS_EmptySet
    <2>2. Chosen(s) \in s
        BY <2>1 DEF Chosen
    <2>3. Cardinality(s \ {Chosen(s)}) = n /\ s \ {Chosen(s)} \in SUBSET S
        <3> DEFINE x == Chosen(s)
        <3> HIDE DEF x, F
        <3>1. Cardinality(s \ {x}) = IF x \in s THEN Cardinality(s) - 1 ELSE Cardinality(s)
            BY <2>1, FS_RemoveElement
        <3>2. x \in s
            BY <2>2 DEF x
        <3>3. Cardinality(s \ {x}) = n
            BY <3>1, <3>2
        <3> QED BY <3>3 DEF x
    <2>4. F[s \ {Chosen(s)}] \in Nat
        BY <1>4, <2>3
    <2>5. F[s] = ToolCost[Chosen(s)] + F[s \ {Chosen(s)}]
        BY <1>1, <2>1 DEF Sums
    <2>6. ToolCost[Chosen(s)] \in Nat
        BY <1>2, <2>2
    <2> QED BY <2>4, <2>5, <2>6
<1>5. F[S] \in Nat
    <2> HIDE DEF F
    <2>1. Cardinality(S) \in T
        <3> HIDE DEF T
        <3>1. \A n \in Nat : n \in T
            BY <1>3, <1>4, SetInduction
        <3> QED BY <1>2, <3>1
    <2> QED BY <2>1
<1>6. SchemaFcn({})[{}] = 0
    BY <1>1 DEF Sums
<1> QED BY <1>5, <1>6, SchemaUnfolds

-----------------------------------------------------------------------------
(* Where an image comes back.                                              *)

\* The call of a result: only results of that call stand between them.
LEMMA CallOf ==
    ASSUME NEW s, Whole(s), NEW i \in DOMAIN s, s[i].kind = "tool"
    PROVE  \E c \in DOMAIN s :
              /\ c < i /\ s[c].kind = "call" /\ s[c].at = s[i].of
              /\ \A j \in (c + 1) .. i : j \in DOMAIN s /\ s[j].of = s[i].of /\ s[j].kind = "tool"
<1>1. DOMAIN s = 1 .. Len(s) /\ Len(s) \in Nat /\ i \in Nat
    BY DEF Whole
<1>2. PICK c \in 1 .. (i - 1) : /\ s[c].kind = "call" /\ s[c].at = s[i].of
                                /\ \A j \in (c + 1) .. i : s[j].of = s[i].of
    BY DEF Whole, Follows
<1>3. s[i].of # 0
    BY DEF Whole, Marked
<1>4. c \in DOMAIN s /\ c < i
    BY <1>1
<1>5. ASSUME NEW j \in (c + 1) .. i
      PROVE j \in DOMAIN s /\ s[j].of = s[i].of /\ s[j].kind = "tool"
    <2>1. j \in DOMAIN s
        BY <1>1, <1>4
    <2>2. s[j].of = s[i].of
        BY <1>2
    <2>3. s[j].kind = "tool"
        BY <1>3, <2>1, <2>2 DEF Whole, Marked
    <2> QED BY <2>1, <2>2, <2>3
<1> QED BY <1>2, <1>4, <1>5

\* What is behind a message that is no result has its whole exchange there.
LEMMA UnitsAreBehind ==
    ASSUME NEW s, Whole(s), NEW h \in Nat, h \in DOMAIN s => s[h].kind # "tool",
           NEW i \in DOMAIN s, i >= h, NEW j \in Unit(s, i)
    PROVE  j >= h
<1>1. /\ DOMAIN s = 1 .. Len(s) /\ Len(s) \in Nat /\ i \in Nat /\ j \in DOMAIN s /\ j \in Nat
    BY DEF Whole, Unit
<1>2. ASSUME NEW t \in DOMAIN s, s[t].kind = "tool", NEW c \in DOMAIN s, c < t, s[c].kind = "call",
             \A l \in (c + 1) .. t : l \in DOMAIN s /\ s[l].kind = "tool", t >= h
      PROVE c >= h
    <2> SUFFICES ASSUME c < h PROVE FALSE
        BY <1>1
    <2>1. h \in (c + 1) .. t
        BY <1>1, <1>2
    <2> QED BY <1>2, <2>1
<1>3. CASE j = i
    BY <1>3
<1>4. CASE s[i].kind = "call" /\ s[j].of = s[i].at
    <2>1. s[i].at # 0 /\ s[j].kind = "tool"
        BY <1>1, <1>4 DEF Whole, Marked
    <2>2. PICK c \in DOMAIN s : c < j /\ s[c].kind = "call" /\ s[c].at = s[j].of
        BY <1>1, <2>1, CallOf
    <2>3. c = i
        BY <1>4, <2>2 DEF Whole, Named
    <2> QED BY <1>1, <2>2, <2>3
<1>5. CASE s[i].kind = "tool" /\ s[j].of = s[i].of
    <2>1. s[i].of # 0 /\ s[j].kind = "tool"
        BY <1>1, <1>5 DEF Whole, Marked
    <2>2. PICK c \in DOMAIN s : /\ c < i /\ s[c].kind = "call" /\ s[c].at = s[i].of
                                /\ \A l \in (c + 1) .. i : l \in DOMAIN s /\ s[l].kind = "tool"
        BY <1>5, CallOf
    <2>3. PICK d \in DOMAIN s : d < j /\ s[d].kind = "call" /\ s[d].at = s[j].of
        BY <1>1, <2>1, CallOf
    <2>4. d = c
        BY <1>5, <2>2, <2>3 DEF Whole, Named
    <2>5. c >= h
        BY <1>2, <1>5, <2>2
    <2> QED BY <1>1, <2>3, <2>4, <2>5
<1>6. CASE s[i].kind = "tool" /\ s[j].at = s[i].of
    <2>2. PICK c \in DOMAIN s : /\ c < i /\ s[c].kind = "call" /\ s[c].at = s[i].of
                                /\ \A l \in (c + 1) .. i : l \in DOMAIN s /\ s[l].kind = "tool"
        BY <1>6, CallOf
    <2>3. j = c
        BY <1>1, <1>6, <2>2 DEF Whole, Named
    <2> QED BY <1>2, <1>6, <2>2, <2>3
<1> QED BY <1>3, <1>4, <1>5, <1>6 DEF Unit

\* The n-th of a list of numbers has n of them up to it.
LEMMA ListsRank ==
    ASSUME NEW N \in Nat, NEW S \in SUBSET (1 .. N), NEW q, Lists(q, S)
    PROVE  /\ Len(q) = Cardinality(S) /\ DOMAIN q = 1 .. Len(q) /\ Len(q) \in Nat
           /\ \A n \in DOMAIN q : Cardinality({x \in S : x <= q[n]}) = n
<1>1. /\ q \in Seq(S) /\ DOMAIN q = 1 .. Len(q) /\ Len(q) \in Nat
      /\ \A n \in DOMAIN q : q[n] \in S
    BY DEF Lists
<1>2. \A x \in S : x \in Int
    OBVIOUS
<1>3. \A m, n \in DOMAIN q : (q[m] <= q[n] <=> m <= n) /\ (q[m] = q[n] => m = n)
    <2> SUFFICES ASSUME NEW m \in DOMAIN q, NEW n \in DOMAIN q
                 PROVE (q[m] <= q[n] <=> m <= n) /\ (q[m] = q[n] => m = n)
        OBVIOUS
    <2>1. (m < n => q[m] < q[n]) /\ (n < m => q[n] < q[m])
        BY DEF Lists
    <2>2. q[m] \in Int /\ q[n] \in Int /\ m \in Nat /\ n \in Nat
        <3>1. q[m] \in S /\ q[n] \in S
            BY <1>1
        <3>2. m \in Nat /\ n \in Nat
            BY <1>1
        <3> QED BY <1>2, <3>1, <3>2
    <2> QED BY <2>1, <2>2
<1>4. ASSUME NEW n \in Nat, n <= Len(q), NEW R, R = {x \in S : \E m \in 1 .. n : q[m] = x}
      PROVE Cardinality(R) = n
    <2> DEFINE f == [m \in 1 .. n |-> q[m]]
    <2>1. \A m \in 1 .. n : m \in DOMAIN q
        BY <1>1, <1>4
    <2>2. f \in [1 .. n -> R]
        BY <1>1, <1>4, <2>1
    <2>3. \A x \in R : \E m \in 1 .. n : f[m] = x
        BY <1>4
    <2>4. \A l, m \in 1 .. n : f[l] = f[m] => l = m
        BY <1>3, <2>1
    <2> HIDE DEF f
    <2>5. f \in Surjection(1 .. n, R) /\ f \in Injection(1 .. n, R)
        BY <2>2, <2>3, <2>4 DEF Surjection, Injection, IsInjective
    <2>6. IsFiniteSet(1 .. n) /\ Cardinality(1 .. n) = n
        <3>1. 1 \in Int /\ n \in Int
            BY <1>4
        <3>2. IsFiniteSet(1 .. n) /\ Cardinality(1 .. n) = IF 1 > n THEN 0 ELSE n - 1 + 1
            BY <3>1, FS_Interval
        <3> QED BY <1>4, <3>2
    <2> QED BY <2>5, <2>6, FS_Surjection
<1>5. Len(q) = Cardinality(S)
    <2>1. S = {x \in S : \E m \in 1 .. Len(q) : q[m] = x}
        BY <1>1 DEF Lists
    <2> QED BY <1>1, <1>4, <2>1
<1>6. ASSUME NEW n \in DOMAIN q PROVE Cardinality({x \in S : x <= q[n]}) = n
    <2>1. {x \in S : x <= q[n]} = {x \in S : \E m \in 1 .. n : q[m] = x}
        <3>1. ASSUME NEW x \in S PROVE x <= q[n] <=> \E m \in 1 .. n : q[m] = x
            <4>1. PICK m \in DOMAIN q : q[m] = x
                BY DEF Lists
            <4>2. x <= q[n] <=> m <= n
                BY <1>3, <4>1
            <4>3. m <= n <=> m \in 1 .. n
                BY <1>1
            <4>4. \A l \in 1 .. n : l \in DOMAIN q /\ (q[l] = q[m] => l = m)
                BY <1>1, <1>3
            <4> QED BY <4>1, <4>2, <4>3, <4>4
        <3> QED BY <3>1
    <2> QED BY <1>1, <1>4, <2>1
<1> QED BY <1>1, <1>5, <1>6

\* The last message of some kinds, or 0.
LEMMA LastAtIs ==
    ASSUME NEW s \in Seq(Msg), NEW kinds
    PROVE  /\ LastAt(s, kinds) \in At(s, kinds) \cup {0} /\ LastAt(s, kinds) \in 0 .. Len(s)
           /\ \A i \in At(s, kinds) : i <= LastAt(s, kinds)
           /\ At(s, kinds) \in SUBSET (DOMAIN s) /\ At(s, kinds) \in SUBSET (1 .. Len(s))
<1>1. DOMAIN s = 1 .. Len(s) /\ Len(s) \in Nat
    OBVIOUS
<1>2. At(s, kinds) \in SUBSET (1 .. Len(s)) /\ At(s, kinds) \in SUBSET (DOMAIN s)
    BY <1>1 DEF At
<1> DEFINE A == At(s, kinds) \cup {0}
<1>3. A \in SUBSET (0 .. Len(s)) /\ A # {} /\ 0 \in Int /\ Len(s) \in Int
    BY <1>1, <1>2
<1>4. Max(A) \in A /\ \A x \in A : x <= Max(A)
    <2> HIDE DEF A
    <2> QED BY <1>3, RangePart
<1> QED BY <1>2, <1>3, <1>4 DEF LastAt

\* The latest round is the latest call with its results.
LEMMA RoundIs ==
    ASSUME NEW s, Whole(s)
    PROVE  LET c == LastAt(s, {"call"}) IN
           /\ LatestRound(s) \in SUBSET (DOMAIN s)
           /\ c = 0 => LatestRound(s) = {}
           /\ c # 0 => c \in DOMAIN s /\ s[c].kind = "call" /\ LatestRound(s) = Unit(s, c)
           /\ \A i \in LatestRound(s) : i >= c /\ s[i].kind \in {"call", "tool"}
<1> DEFINE c == LastAt(s, {"call"})
           ends == {i \in (c + 1) .. (Len(s) + 1) : i = Len(s) + 1 \/ s[i].kind # "tool"}
<1>1. s \in Seq(Msg) /\ DOMAIN s = 1 .. Len(s) /\ Len(s) \in Nat
    BY DEF Whole
<1>2. /\ c \in At(s, {"call"}) \cup {0} /\ c \in 0 .. Len(s) /\ \A i \in At(s, {"call"}) : i <= c
    BY <1>1, LastAtIs
<1> HIDE DEF c
<1>3. LatestRound(s) = IF c = 0 THEN {} ELSE c .. (Min(ends) - 1)
    BY DEF LatestRound, c
<1>4. CASE c = 0
    BY <1>3, <1>4 DEF c
<1>5. CASE c # 0
    <2>1. c \in DOMAIN s /\ s[c].kind = "call"
        BY <1>2, <1>5 DEF At
    <2> DEFINE e == Min(ends)
    <2>2. e \in ends /\ \A x \in ends : e <= x
        <3>1. ends \in SUBSET ((c + 1) .. (Len(s) + 1)) /\ Len(s) + 1 \in ends /\ c + 1 \in Int /\ Len(s) + 1 \in Int
            BY <1>1, <1>2
        <3> HIDE DEF ends
        <3> QED BY <3>1, RangePart
    <2>3. e \in (c + 1) .. (Len(s) + 1) /\ (e = Len(s) + 1 \/ s[e].kind # "tool")
        BY <2>2
    <2>4. \A i \in (c + 1) .. (Len(s) + 1) : i < e => i # Len(s) + 1 /\ s[i].kind = "tool"
        BY <1>1, <1>2, <2>2, <2>3
    <2> HIDE DEF e, ends
    <2>5. LatestRound(s) = c .. (e - 1)
        BY <1>3, <1>5 DEF e
    <2>6. ASSUME NEW i \in DOMAIN s, s[i].kind = "tool", NEW d \in DOMAIN s, d < i, s[d].kind = "call", i > c,
                 \A j \in (d + 1) .. i : j \in DOMAIN s /\ s[j].kind = "tool"
          PROVE d = c
        <3>1. d <= c
            BY <1>2, <2>6 DEF At
        <3>2. ~ (d < c)
            <4> SUFFICES ASSUME d < c PROVE FALSE
                OBVIOUS
            <4>1. c \in (d + 1) .. i
                BY <1>1, <1>2, <2>6
            <4> QED BY <2>1, <2>6, <4>1
        <3> QED BY <1>1, <1>2, <3>1, <3>2
    <2>7. \A i \in c .. (e - 1) : i \in DOMAIN s /\ s[i].kind \in {"call", "tool"} /\ i >= c
        <3> SUFFICES ASSUME NEW i \in c .. (e - 1) PROVE i \in DOMAIN s /\ s[i].kind \in {"call", "tool"} /\ i >= c
            OBVIOUS
        <3>1. CASE i = c
            BY <1>1, <1>2, <2>1, <3>1
        <3>2. CASE i # c
            <4>1. i \in (c + 1) .. (Len(s) + 1) /\ i < e
                BY <1>1, <1>2, <2>3, <3>2
            <4> QED BY <1>1, <1>2, <2>4, <4>1
        <3> QED BY <3>1, <3>2
    <2>8. ASSUME NEW i \in c .. (e - 1) PROVE i \in Unit(s, c)
        <3>1. CASE i = c
            BY <2>1, <3>1 DEF Unit
        <3>2. CASE i # c
            <4>1. i \in (c + 1) .. (Len(s) + 1) /\ i < e
                BY <1>1, <1>2, <2>3, <3>2
            <4>2. i \in DOMAIN s /\ s[i].kind = "tool" /\ i > c
                BY <1>1, <1>2, <2>4, <4>1
            <4>3. PICK d \in DOMAIN s :
                     /\ d < i /\ s[d].kind = "call" /\ s[d].at = s[i].of
                     /\ \A j \in (d + 1) .. i : j \in DOMAIN s /\ s[j].kind = "tool"
                BY <4>2, CallOf
            <4>4. d = c
                BY <2>6, <4>2, <4>3
            <4> QED BY <2>1, <4>2, <4>3, <4>4 DEF Unit
        <3> QED BY <3>1, <3>2
    <2>9. ASSUME NEW i \in Unit(s, c) PROVE i \in c .. (e - 1)
        <3>1. CASE i = c
            BY <1>1, <1>2, <2>3, <3>1
        <3>2. CASE i # c
            <4>1. i \in DOMAIN s /\ s[i].of = s[c].at
                BY <2>1, <2>9, <3>2 DEF Unit
            <4>2. s[i].kind = "tool"
                <5>1. s[c].at # 0
                    BY <2>1 DEF Whole, Marked
                <5> QED BY <4>1, <5>1 DEF Whole, Marked
            <4>3. PICK d \in DOMAIN s :
                     /\ d < i /\ s[d].kind = "call" /\ s[d].at = s[i].of
                     /\ \A j \in (d + 1) .. i : j \in DOMAIN s /\ s[j].kind = "tool"
                BY <4>1, <4>2, CallOf
            <4>4. d = c
                BY <2>1, <4>1, <4>3 DEF Whole, Named
            <4>5. i < e
                <5> SUFFICES ASSUME e <= i PROVE FALSE
                    BY <1>1, <2>3, <4>1
                <5>1. e \in (c + 1) .. i
                    BY <1>1, <2>3, <4>1
                <5>2. s[e].kind = "tool" /\ e \in DOMAIN s
                    BY <4>3, <4>4, <5>1
                <5> QED BY <1>1, <2>3, <5>2
            <4> QED BY <1>1, <1>2, <2>3, <4>1, <4>3, <4>4, <4>5
        <3> QED BY <3>1, <3>2
    <2>10. LatestRound(s) = Unit(s, c)
        BY <2>5, <2>8, <2>9
    <2>11. LatestRound(s) \in SUBSET (DOMAIN s) /\ \A i \in LatestRound(s) : i >= c /\ s[i].kind \in {"call", "tool"}
        BY <2>5, <2>7
    <2> QED BY <1>5, <2>1, <2>10, <2>11 DEF c
<1> QED BY <1>4, <1>5

\* What of a conversation weighs most: its instructions and the latest message
\* of the user's.
LEMMA PriorityIs ==
    ASSUME NEW s, Whole(s)
    PROVE  LET u == LastAt(s, {"user", "image", "frame"}) IN
           /\ Priority(s) \in [DOMAIN s -> 1 .. 3]
           /\ \A i \in DOMAIN s : Priority(s)[i] = 2 <=> i \in LatestRound(s)
           /\ \A i \in DOMAIN s : Weight(s, Priority(s), i) = 3 <=> i \in At(s, {"system"}) \cup {u}
           /\ \A i \in DOMAIN s : i \in LatestRound(s) <=> Weight(s, Priority(s), i) = 2
<1> DEFINE u == LastAt(s, {"user", "image", "frame"})
           C == At(s, {"system"}) \cup {u}
<1>1. s \in Seq(Msg) /\ DOMAIN s = 1 .. Len(s) /\ Len(s) \in Nat
    BY DEF Whole
<1>2. u \in At(s, {"user", "image", "frame"}) \cup {0}
    BY <1>1, LastAtIs
<1>3. \A i \in DOMAIN s : i \in C => s[i].kind \notin {"call", "tool"}
    BY <1>1, <1>2 DEF At
<1>4. \A i \in LatestRound(s) : s[i].kind \in {"call", "tool"}
    BY RoundIs
<1>5. \A i \in DOMAIN s : Priority(s)[i] = IF i \in LatestRound(s) THEN 2 ELSE IF i \in C THEN 3 ELSE 1
    BY DEF Priority
<1>6. Priority(s) \in [DOMAIN s -> 1 .. 3]
    BY DEF Priority
<1> HIDE DEF C
<1>7. \A i \in DOMAIN s : /\ Priority(s)[i] = 3 <=> i \in C
                          /\ Priority(s)[i] = 2 <=> i \in LatestRound(s)
    BY <1>3, <1>4, <1>5
<1>8. ASSUME NEW i \in DOMAIN s
      PROVE  (Weight(s, Priority(s), i) = 3 <=> i \in C) /\ (i \in LatestRound(s) <=> Weight(s, Priority(s), i) = 2)
    <2>1. /\ i \in Unit(s, i) /\ Unit(s, i) \subseteq DOMAIN s
          /\ \A j \in Unit(s, i) : Unit(s, j) = Unit(s, i)
          /\ s[i].kind \notin {"call", "tool"} => Unit(s, i) = {i}
          /\ s[i].kind \in {"call", "tool"} => \A j \in Unit(s, i) : s[j].kind \in {"call", "tool"}
        BY UnitIs
    <2> DEFINE w == Weight(s, Priority(s), i)
    <2>2. /\ w \in 1 .. 3 /\ \A j \in Unit(s, i) : Priority(s)[j] <= w
          /\ \E j \in Unit(s, i) : Priority(s)[j] = w
        BY <1>6, WeightIs
    <2> HIDE DEF w
    <2>3. CASE s[i].kind \notin {"call", "tool"}
        <3>1. w = Priority(s)[i]
            BY <2>1, <2>2, <2>3
        <3> QED BY <1>7, <3>1 DEF w
    <2>4. CASE s[i].kind \in {"call", "tool"}
        <3>1. \A j \in Unit(s, i) : j \in DOMAIN s /\ Priority(s)[j] # 3
            BY <1>3, <1>7, <2>1, <2>4
        <3>2. w # 3 /\ i \notin C
            BY <1>3, <2>2, <2>4, <3>1
        <3>3. ASSUME NEW j \in Unit(s, i), j \in LatestRound(s) PROVE i \in LatestRound(s)
            <4> DEFINE c == LastAt(s, {"call"})
            <4>1. c # 0 => c \in DOMAIN s /\ LatestRound(s) = Unit(s, c)
                BY RoundIs
            <4>2. c = 0 => LatestRound(s) = {}
                BY RoundIs
            <4> HIDE DEF c
            <4>3. c \in DOMAIN s /\ LatestRound(s) = Unit(s, c)
                BY <3>3, <4>1, <4>2
            <4>4. Unit(s, j) = Unit(s, c)
                BY <3>3, <4>3, UnitIs
            <4> QED BY <2>1, <3>3, <4>3, <4>4
        <3>4. i \in LatestRound(s) => Priority(s)[i] = 2
            BY <1>7
        <3>5. i \in LatestRound(s) => w = 2
            BY <2>1, <2>2, <3>2, <3>4
        <3>6. w = 2 => i \in LatestRound(s)
            BY <1>7, <2>1, <2>2, <3>3
        <3> QED BY <3>2, <3>5, <3>6 DEF w
    <2> QED BY <2>3, <2>4
<1> QED BY <1>6, <1>7, <1>8 DEF C

\* An image is not put between a call and its results, although its old index is
\* moved by the number of all the messages that went: those behind it go only
\* after nearly all of those before it, and then it comes to the front.
LEMMA PlaceIsSafe ==
    ASSUME NEW t, Whole(t), NEW h \in 1 .. (Len(t) + 1),
           \A i \in DOMAIN t : i >= h => t[i].kind \in {"call", "tool"},
           h \in DOMAIN t => t[h].kind # "tool",
           \A i, j \in At(t, {"system"}) : i = j,
           NEW K, Kept(t, Priority(t), K)
    PROVE  LET r == Only(t, K)
               gone == Len(t) - Len(r)
               k == IF h <= gone THEN 0 ELSE h - 1 - gone
           IN  k # 0 => /\ \A n \in DOMAIN r : n > k => r[n].kind \in {"call", "tool"}
                        /\ k + 1 \in DOMAIN r => r[k + 1].kind # "tool"
<1> DEFINE r == Only(t, K)
           e == Ascending(K)
           L == Len(t)
           gone == L - Len(r)
           k == IF h <= gone THEN 0 ELSE h - 1 - gone
           D == DOMAIN t \ K
           pr == Priority(t)
<1>1. t \in Seq(Msg) /\ DOMAIN t = 1 .. L /\ L \in Nat /\ h \in Nat /\ 1 <= h /\ h <= L + 1
    BY DEF Whole
<1>2. K \in SUBSET (DOMAIN t) /\ K \in SUBSET (1 .. L) /\ Closed(K, t)
    BY <1>1 DEF Kept
<1>3. /\ r \in Seq(Msg) /\ DOMAIN r = DOMAIN e /\ Lists(e, K)
      /\ \A n \in DOMAIN r : e[n] \in K /\ r[n] = t[e[n]]
      /\ \A x \in K : \E n \in DOMAIN r : e[n] = x
    BY <1>1, <1>2, OnlyEmbeds
<1> HIDE DEF r, e
<1>4. /\ Len(e) = Cardinality(K) /\ DOMAIN e = 1 .. Len(e) /\ Len(e) \in Nat
      /\ \A n \in DOMAIN e : Cardinality({x \in K : x <= e[n]}) = n
    BY <1>1, <1>2, <1>3, ListsRank
<1>5. Len(r) = Len(e) /\ DOMAIN r = 1 .. Len(r)
    BY <1>3, <1>4
<1>6. /\ IsFiniteSet(1 .. L) /\ Cardinality(1 .. L) = L
      /\ IsFiniteSet(1 .. (h - 1)) /\ Cardinality(1 .. (h - 1)) = h - 1
    <2>1. 1 \in Int /\ L \in Int /\ h - 1 \in Int
        BY <1>1
    <2>2. IsFiniteSet(1 .. L) /\ Cardinality(1 .. L) = IF 1 > L THEN 0 ELSE L - 1 + 1
        BY <2>1, FS_Interval
    <2>3. IsFiniteSet(1 .. (h - 1)) /\ Cardinality(1 .. (h - 1)) = IF 1 > h - 1 THEN 0 ELSE h - 1 - 1 + 1
        BY <2>1, FS_Interval
    <2> QED BY <1>1, <2>2, <2>3
<1>7. IsFiniteSet(D) /\ IsFiniteSet(K) /\ Cardinality(D) = gone /\ gone \in Nat
    <2> DEFINE R == 1 .. L
    <2>1. D = R \ K /\ R \cap K = K /\ K \in SUBSET R /\ IsFiniteSet(R) /\ Cardinality(R) = L
        BY <1>1, <1>2, <1>6
    <2> HIDE DEF L, R, D
    <2>2. IsFiniteSet(K) /\ Cardinality(K) <= L
        BY <2>1, FS_Subset
    <2>3. IsFiniteSet(D) /\ Cardinality(D) = L - Cardinality(K)
        <3>1. IsFiniteSet(R \ K) /\ Cardinality(R \ K) = Cardinality(R) - Cardinality(R \cap K)
            BY <2>1, FS_Difference
        <3> QED BY <2>1, <3>1
    <2> QED BY <1>1, <1>4, <1>5, <2>2, <2>3
<1>8. CASE D \in SUBSET (1 .. (h - 1))
    <2> SUFFICES ASSUME k # 0
                 PROVE /\ \A n \in DOMAIN r : n > k => r[n].kind \in {"call", "tool"}
                       /\ k + 1 \in DOMAIN r => r[k + 1].kind # "tool"
        BY DEF r
    <2> HIDE DEF L
    <2>1. k = h - 1 - gone /\ k \in Nat
        BY <1>1, <1>7
    <2> DEFINE B == K \cap (1 .. (h - 1))
    <2>2. IsFiniteSet(B) /\ Cardinality(B) = k
        <3> DEFINE R == 1 .. (h - 1)
        <3>1. B = R \ D /\ R \cap D = D /\ IsFiniteSet(R) /\ Cardinality(R) = h - 1
            BY <1>1, <1>2, <1>6, <1>8
        <3> HIDE DEF B, D, R
        <3>2. IsFiniteSet(B) /\ Cardinality(B) = h - 1 - Cardinality(D)
            <4>1. IsFiniteSet(R \ D) /\ Cardinality(R \ D) = Cardinality(R) - Cardinality(R \cap D)
                BY <3>1, FS_Difference
            <4> QED BY <3>1, <4>1
        <3> QED BY <1>7, <2>1, <3>2
    <2>3. ASSUME NEW n \in DOMAIN r, n > k PROVE e[n] >= h
        <3> SUFFICES ASSUME e[n] < h PROVE FALSE
            BY <1>1, <1>2, <1>3
        <3>1. {x \in K : x <= e[n]} \in SUBSET B
            BY <1>1, <1>2, <1>3
        <3> HIDE DEF B
        <3>2. Cardinality({x \in K : x <= e[n]}) <= k
            BY <2>2, <3>1, FS_Subset
        <3>3. n <= k
            BY <1>3, <1>4, <3>2
        <3> QED BY <1>5, <2>1, <2>3, <3>3
    <2>4. ASSUME NEW n \in DOMAIN r, n > k PROVE r[n].kind \in {"call", "tool"}
        BY <1>2, <1>3, <2>3, <2>4
    <2>5. ASSUME k + 1 \in DOMAIN r PROVE r[k + 1].kind # "tool"
        <3>1. e[k + 1] >= h /\ e[k + 1] \in 1 .. L
            BY <1>2, <1>3, <2>1, <2>3, <2>5
        <3>2. h \in DOMAIN t
            BY <1>1, <3>1
        <3>3. h \in K
            BY <1>1, <1>8, <3>2
        <3>4. PICK m \in DOMAIN r : e[m] = h
            BY <1>3, <3>3
        <3>5. {x \in K : x <= e[m]} = B \cup {h} /\ h \notin B
            BY <1>1, <1>2, <3>3, <3>4
        <3> HIDE DEF B
        <3>6. Cardinality(B \cup {h}) = k + 1
            <4>1. Cardinality(B \cup {h}) = IF h \in B THEN Cardinality(B) ELSE Cardinality(B) + 1
                BY <2>2, FS_AddElement
            <4> QED BY <2>2, <3>5, <4>1
        <3>7. m = k + 1
            BY <1>3, <1>4, <3>5, <3>6
        <3> QED BY <1>3, <3>2, <3>4, <3>7
    <2> QED BY <2>4, <2>5
<1>9. CASE ~ (D \in SUBSET (1 .. (h - 1)))
    <2>1. PICK d \in D : d >= h
        BY <1>1, <1>9
    <2>2. d \in DOMAIN t /\ d \in Nat /\ t[d].kind \in {"call", "tool"}
        BY <1>1, <2>1
    <2>3. ASSUME NEW j \in Unit(t, d) PROVE j \in D /\ j >= h
        <3>1. j >= h
            BY <1>1, <2>1, <2>2, UnitsAreBehind
        <3>2. j \in DOMAIN t /\ Unit(t, j) = Unit(t, d) /\ d \in Unit(t, d)
            BY <2>2, UnitIs
        <3>3. j \notin K
            BY <1>2, <2>1, <3>2 DEF Closed
        <3> QED BY <3>1, <3>2, <3>3
    <2>4. \E j \in Unit(t, d) : j # d
        <3>1. CASE t[d].kind = "call"
            <4>1. d < L /\ t[d + 1].of = t[d].at
                BY <2>2, <3>1 DEF Whole, Answered
            <4>2. d + 1 \in DOMAIN t /\ d + 1 # d
                BY <1>1, <2>2, <4>1
            <4> QED BY <3>1, <4>1, <4>2 DEF Unit
        <3>2. CASE t[d].kind = "tool"
            <4>1. PICK c \in DOMAIN t : c < d /\ t[c].kind = "call" /\ t[c].at = t[d].of
                BY <2>2, <3>2, CallOf
            <4> QED BY <1>1, <2>2, <3>2, <4>1 DEF Unit
        <3> QED BY <2>2, <3>1, <3>2
    <2>5. PICK d2 \in Unit(t, d) : d2 # d
        BY <2>4
    <2> DEFINE u == LastAt(t, {"user", "image", "frame"})
               C == At(t, {"system"}) \cup {u}
               c == LastAt(t, {"call"})
    <2>6. /\ pr \in [DOMAIN t -> 1 .. 3]
          /\ \A i \in DOMAIN t : /\ Weight(t, pr, i) = 3 <=> i \in C
                                 /\ i \in LatestRound(t) <=> Weight(t, pr, i) = 2
        BY PriorityIs
    <2>7. \A i \in DOMAIN t : Weight(t, pr, i) \in 1 .. 3
        BY <2>6, WeightIs
    <2>8. \A i \in LatestRound(t) : i >= h
        <3>1. PICK b \in DOMAIN t : b >= h /\ t[b].kind = "call"
            <4>1. CASE t[d].kind = "call"
                BY <2>1, <2>2, <4>1
            <4>2. CASE t[d].kind = "tool"
                <5>1. PICK b \in DOMAIN t : b < d /\ t[b].kind = "call" /\ t[b].at = t[d].of
                    BY <2>2, <4>2, CallOf
                <5>2. b \in Unit(t, d)
                    BY <4>2, <5>1 DEF Unit
                <5> QED BY <2>3, <5>1, <5>2
            <4> QED BY <2>2, <4>1, <4>2
        <3>2. b \in At(t, {"call"})
            BY <3>1 DEF At
        <3>3. b <= c /\ c \in 0 .. L
            BY <1>1, <3>2, LastAtIs
        <3>4. \A i \in LatestRound(t) : i >= c /\ i \in DOMAIN t
            BY RoundIs
        <3> HIDE DEF c
        <3> QED BY <1>1, <3>1, <3>3, <3>4
    <2> HIDE DEF u, C, c, pr
    <2>9. ASSUME NEW i \in 1 .. (h - 1), i \notin C PROVE i \in D
        <3>1. i \in DOMAIN t /\ i \in Nat /\ i < h
            BY <1>1
        <3>2. Weight(t, pr, i) = 1
            <4>1. ~ (i \in LatestRound(t))
                BY <1>1, <2>8, <3>1
            <4> QED BY <2>6, <2>7, <2>9, <3>1, <4>1
        <3>3. Weight(t, pr, d) \in 1 .. 3
            BY <2>2, <2>7
        <3>4. Min(Unit(t, i)) <= i /\ Min(Unit(t, i)) \in DOMAIN t
            <4>1. i \in Unit(t, i) /\ Unit(t, i) \subseteq DOMAIN t
                BY <3>1, UnitIs
            <4>2. Min(Unit(t, i)) \in Unit(t, i) /\ \A j \in Unit(t, i) : Min(Unit(t, i)) <= j
                BY <3>1, FirstIs
            <4> QED BY <4>1, <4>2
        <3>5. Min(Unit(t, d)) \in D /\ Min(Unit(t, d)) >= h
            <4>1. Min(Unit(t, d)) \in Unit(t, d)
                BY <2>2, FirstIs
            <4> QED BY <2>3, <4>1
        <3>6. Before(t, pr, i, d)
            <4> DEFINE x == Min(Unit(t, i))
                       y == Min(Unit(t, d))
            <4> HIDE DEF x, y
            <4>1. x < y
                <5>1. x <= i /\ x \in Nat /\ y \in Nat /\ y >= h
                    BY <1>1, <3>4, <3>5 DEF x, y
                <5> QED BY <1>1, <3>1, <5>1
            <4> QED BY <3>2, <3>3, <4>1 DEF Before, x, y
        <3> QED BY <2>1, <3>1, <3>6 DEF Kept, pr
    <2>10. \E a \in Int : \E b \in Int : C \cap (1 .. (h - 1)) \subseteq {a, b}
        <3>1. u \in 0 .. L
            BY <1>1, LastAtIs DEF u
        <3>2. CASE At(t, {"system"}) = {}
            <4>1. C \cap (1 .. (h - 1)) \subseteq {u, u} /\ u \in Int
                BY <3>1, <3>2 DEF C
            <4> QED BY <4>1
        <3>3. CASE At(t, {"system"}) # {}
            <4>1. PICK b : b \in At(t, {"system"})
                BY <3>3
            <4>2. C \cap (1 .. (h - 1)) \subseteq {u, b} /\ u \in Int /\ b \in Int
                <5>1. b \in 1 .. L
                    BY <1>1, <4>1 DEF At
                <5>2. At(t, {"system"}) = {b}
                    BY <4>1
                <5> QED BY <1>1, <3>1, <5>1, <5>2 DEF C
            <4> QED BY <4>2
        <3> QED BY <3>2, <3>3
    <2>11. PICK a \in Int, b \in Int : C \cap (1 .. (h - 1)) \subseteq {a, b}
        BY <2>10
    <2> DEFINE A1 == (1 .. (h - 1)) \ {a}
               A2 == A1 \ {b}
               A3 == A2 \cup {d}
               A4 == A3 \cup {d2}
    <2>12. A4 \in SUBSET D
        <3>1. \A x \in A2 : x \in D
            BY <2>9, <2>11
        <3>2. d \in D /\ d2 \in D
            BY <2>3, <2>5, <2>1
        <3> HIDE DEF D, A2
        <3> QED BY <3>1, <3>2
    <2>13. d \notin A2 /\ d2 \notin A3
        <3>1. d2 >= h /\ d2 \in Nat
            BY <1>1, <2>3, <2>5
        <3> QED BY <1>1, <2>1, <2>2, <2>5, <3>1
    <2> HIDE DEF D, L, gone
    <2>14. IsFiniteSet(A1) /\ Cardinality(A1) >= h - 2
        <3>1. IsFiniteSet(A1) /\ Cardinality(A1) = IF a \in 1 .. (h - 1) THEN h - 1 - 1 ELSE h - 1
            BY <1>6, FS_RemoveElement
        <3> QED BY <1>1, <3>1
    <2>15. IsFiniteSet(A2) /\ Cardinality(A2) >= h - 3 /\ Cardinality(A2) \in Nat
        <3> HIDE DEF A1
        <3>1. IsFiniteSet(A2) /\ Cardinality(A2) = IF b \in A1 THEN Cardinality(A1) - 1 ELSE Cardinality(A1)
            BY <2>14, FS_RemoveElement
        <3>2. Cardinality(A2) \in Nat /\ Cardinality(A1) \in Nat
            BY <2>14, <3>1, FS_CardinalityType
        <3> QED BY <1>1, <2>14, <3>1, <3>2
    <2>16. IsFiniteSet(A3) /\ Cardinality(A3) = Cardinality(A2) + 1
        <3> HIDE DEF A2
        <3> QED BY <2>13, <2>15, FS_AddElement
    <2>17. Cardinality(A4) = Cardinality(A3) + 1
        <3> HIDE DEF A3
        <3> QED BY <2>13, <2>16, FS_AddElement
    <2>18. Cardinality(A4) <= gone
        <3> HIDE DEF A4
        <3> QED BY <1>7, <2>12, FS_Subset
    <2>19. gone >= h - 1
        <3> HIDE DEF A2, A3, A4
        <3> QED BY <1>1, <1>7, <2>15, <2>16, <2>17, <2>18
    <2>20. k = 0
        <3>1. CASE h <= gone
            BY <3>1
        <3>2. CASE ~ (h <= gone)
            BY <1>1, <1>7, <2>19, <3>2
        <3> QED BY <3>1, <3>2
    <2> QED BY <2>20 DEF gone, L, r
<1> QED BY <1>8, <1>9

-----------------------------------------------------------------------------
(* A conversation.                                                         *)

\* Instructions once, an image once; behind the image, unless it is in front,
\* only the rounds of the turn.
Conversation(s) ==
    /\ Whole(s)
    /\ \A i, j \in DOMAIN s : s[i].kind = "system" /\ s[j].kind = "system" => i = j
    /\ \A i, j \in DOMAIN s : s[i].kind = "image" /\ s[j].kind = "image" => i = j
    /\ \A i, j \in DOMAIN s : s[i].kind = "image" /\ j > i /\ i # 1 => s[j].kind \in {"call", "tool", "frame"}

\* Whole exchanges of a conversation are one.
LEMMA OnlyIsConversation ==
    ASSUME NEW s, Conversation(s), NEW keep \in SUBSET (DOMAIN s), Closed(keep, s)
    PROVE  Conversation(Only(s, keep))
<1> DEFINE r == Only(s, keep)
           e == Ascending(keep)
<1>1. s \in Seq(Msg) /\ Whole(s) /\ DOMAIN s = 1 .. Len(s) /\ Len(s) \in Nat
    BY DEF Conversation, Whole
<1>2. Whole(r)
    BY <1>1, OnlyIsWhole
<1>3. /\ r \in Seq(Msg) /\ DOMAIN r = DOMAIN e /\ Lists(e, keep) /\ DOMAIN r = 1 .. Len(r) /\ Len(r) \in Nat
      /\ \A n \in DOMAIN r : e[n] \in keep /\ r[n] = s[e[n]]
    BY <1>1, OnlyEmbeds
<1> HIDE DEF r, e
<1>4. \A m, n \in DOMAIN r : /\ e[m] \in DOMAIN s /\ e[m] \in Nat
                             /\ m < n => e[m] < e[n]
    BY <1>1, <1>3 DEF Lists
<1>5. \A m, n \in DOMAIN r : e[m] = e[n] => m = n
    <2> SUFFICES ASSUME NEW m \in DOMAIN r, NEW n \in DOMAIN r, e[m] = e[n] PROVE m = n
        OBVIOUS
    <2>1. m \in Nat /\ n \in Nat /\ ~ (e[m] < e[n]) /\ ~ (e[n] < e[m])
        BY <1>3, <1>4
    <2>2. ~ (m < n) /\ ~ (n < m)
        BY <1>4, <2>1
    <2> QED BY <2>1, <2>2
<1>6. \A i, j \in DOMAIN r : r[i].kind = "system" /\ r[j].kind = "system" => i = j
    BY <1>3, <1>4, <1>5 DEF Conversation
<1>7. \A i, j \in DOMAIN r : r[i].kind = "image" /\ r[j].kind = "image" => i = j
    BY <1>3, <1>4, <1>5 DEF Conversation
<1>8. ASSUME NEW i \in DOMAIN r, NEW j \in DOMAIN r, r[i].kind = "image", j > i, i # 1
      PROVE  r[j].kind \in {"call", "tool", "frame"}
    <2>1. 1 \in DOMAIN r /\ 1 < i
        BY <1>3, <1>8
    <2>2. e[1] \in DOMAIN s /\ e[1] < e[i] /\ e[i] < e[j]
        BY <1>3, <1>4, <1>8, <2>1
    <2>3. e[i] # 1 /\ e[j] > e[i] /\ s[e[i]].kind = "image"
        BY <1>1, <1>3, <1>4, <1>8, <2>2
    <2> QED BY <1>3, <1>4, <2>3 DEF Conversation
<1> QED BY <1>2, <1>6, <1>7, <1>8 DEF Conversation, r

\* Messages of kinds that are in no exchange can be left out.
LEMMA WithoutIsClosed ==
    ASSUME NEW s, Whole(s), NEW kinds, "call" \notin kinds, "tool" \notin kinds
    PROVE  /\ DOMAIN s \ At(s, kinds) \in SUBSET (DOMAIN s)
           /\ Closed(DOMAIN s \ At(s, kinds), s)
<1> SUFFICES ASSUME NEW i \in DOMAIN s \ At(s, kinds), NEW j \in Unit(s, i)
             PROVE j \in DOMAIN s \ At(s, kinds)
    BY DEF Closed
<1>1. j \in DOMAIN s
    BY UnitIs
<1>2. CASE s[i].kind \in {"call", "tool"}
    <2>1. s[j].kind \in {"call", "tool"}
        BY <1>2, UnitIs
    <2> QED BY <1>1, <2>1 DEF At
<1>3. CASE s[i].kind \notin {"call", "tool"}
    <2>1. j = i
        BY <1>3, UnitIs
    <2> QED BY <2>1
<1> QED BY <1>2, <1>3

\* Cutting a result leaves what it answers.
LEMMA CutIs ==
    ASSUME NEW m \in Msg
    PROVE  CutEvidence(m) \in Msg /\ CutEvidence(m).kind = m.kind /\ CutEvidence(m).at = m.at /\ CutEvidence(m).of = m.of
<1> DEFINE sz == IF m.kind = "tool" THEN Min({m.size, EvidenceCap}) ELSE m.size
<1>1. sz \in Nat
    <2>1. m.size \in Nat /\ EvidenceCap \in Nat
        BY FitAssumption DEF Msg
    <2>2. {m.size, EvidenceCap} \in SUBSET Int /\ IsFiniteSet({m.size, EvidenceCap})
          /\ {m.size, EvidenceCap} # {}
        <3>1. IsFiniteSet({m.size} \cup {EvidenceCap})
            BY FS_Singleton, FS_AddElement
        <3>2. {m.size} \cup {EvidenceCap} = {m.size, EvidenceCap}
            OBVIOUS
        <3> QED BY <2>1, <3>1, <3>2
    <2>3. Min({m.size, EvidenceCap}) \in {m.size, EvidenceCap}
        BY <2>2, MinIs
    <2> QED BY <2>1, <2>3
<1>2. CutEvidence(m) = [m EXCEPT !.size = sz]
    BY DEF CutEvidence
<1> HIDE DEF sz
<1> QED BY <1>1, <1>2 DEF Msg

\* Cutting results changes no exchange.
LEMMA ProjectedIs ==
    ASSUME NEW s, Conversation(s)
    PROVE  /\ Conversation(Projected(s)) /\ Len(Projected(s)) = Len(s)
           /\ \A i \in DOMAIN s : /\ Projected(s)[i].kind = s[i].kind /\ Projected(s)[i].at = s[i].at
                                  /\ Projected(s)[i].of = s[i].of
<1> DEFINE r == Projected(s)
<1>1. s \in Seq(Msg) /\ Whole(s) /\ DOMAIN s = 1 .. Len(s) /\ Len(s) \in Nat
    BY DEF Conversation, Whole
<1>2. \A m \in Msg : /\ CutEvidence(m) \in Msg /\ CutEvidence(m).kind = m.kind
                     /\ CutEvidence(m).at = m.at /\ CutEvidence(m).of = m.of
    BY CutIs
<1>3. r = [n \in 1 .. Len(s) |-> CutEvidence(s[n])]
    BY <1>1 DEF Projected
<1>4. r \in Seq(Msg) /\ DOMAIN r = 1 .. Len(s) /\ Len(r) = Len(s)
    <2>1. \A n \in 1 .. Len(s) : CutEvidence(s[n]) \in Msg
        BY <1>1, <1>2
    <2> QED BY <1>1, <1>3, <2>1
<1>5. \A i \in DOMAIN s : r[i].kind = s[i].kind /\ r[i].at = s[i].at /\ r[i].of = s[i].of
    <2> SUFFICES ASSUME NEW i \in DOMAIN s PROVE r[i].kind = s[i].kind /\ r[i].at = s[i].at /\ r[i].of = s[i].of
        OBVIOUS
    <2>1. s[i] \in Msg /\ r[i] = CutEvidence(s[i])
        BY <1>1, <1>3
    <2> QED BY <1>2, <2>1
<1> HIDE DEF r
<1>6. Whole(r)
    <2> DEFINE e == [n \in DOMAIN r |-> n]
    <2>1. Embeds(e, r, s)
        BY <1>1, <1>4, <1>5 DEF Embeds, Same
    <2>2. Closed(DOMAIN s, s)
        BY <1>1, UnitIs DEF Closed
    <2>3. (\A n \in DOMAIN r : e[n] \in DOMAIN s) /\ \A k \in DOMAIN s : \E n \in DOMAIN r : e[n] = k
        BY <1>1, <1>4
    <2> HIDE DEF e
    <2> QED BY <1>1, <1>4, <2>1, <2>2, <2>3, EmbeddedIsWhole
<1>7. Conversation(r)
    BY <1>1, <1>4, <1>5, <1>6 DEF Conversation
<1> QED BY <1>4, <1>5, <1>7 DEF r

\* m may stand behind the first k messages of a conversation.
Joins(m, t, k) ==
    /\ m.kind \notin {"call", "tool", "system"} /\ m.of = 0
    /\ k + 1 \in DOMAIN t => t[k + 1].kind # "tool"
    /\ \A i \in DOMAIN t : t[i].kind = "call" => t[i].at # m.at
    /\ m.kind # "frame" => \A i \in DOMAIN t : t[i].kind # "image"
    /\ m.kind # "image" => k = Len(t)
    /\ k # 0 => \A i \in DOMAIN t : i > k => t[i].kind \in {"call", "tool", "frame"}

\* A message that joins a conversation.
LEMMA InsertedIsConversation ==
    ASSUME NEW t, Conversation(t), NEW m \in Msg, NEW k \in 0 .. Len(t), NEW r, Inserted(r, t, m, k),
           Joins(m, t, k)
    PROVE  Conversation(r)
<1> DEFINE back(i) == IF i <= k THEN i ELSE i - 1
<1>1. /\ Whole(t) /\ DOMAIN t = 1 .. Len(t) /\ Len(t) \in Nat /\ k \in Nat /\ k <= Len(t)
      /\ DOMAIN r = 1 .. (Len(t) + 1)
    <2>1. t \in Seq(Msg) /\ Whole(t) /\ r \in Seq(Msg) /\ Len(r) = Len(t) + 1
        BY DEF Inserted, Conversation, Whole
    <2> QED BY <2>1
<1>2. Whole(r)
    <2>1. /\ m.kind \notin {"call", "tool"} /\ m.of = 0
          /\ k + 1 \in DOMAIN t => t[k + 1].kind # "tool"
          /\ \A i \in DOMAIN t : t[i].kind = "call" => t[i].at # m.at
        BY DEF Joins
    <2> QED BY <1>1, <2>1, InsertedIsWhole
<1>3. /\ r[k + 1] = m
      /\ \A i \in DOMAIN r : i # k + 1 => back(i) \in DOMAIN t /\ r[i] = t[back(i)]
    BY <1>1 DEF Inserted
<1>4. ASSUME NEW i \in DOMAIN r, NEW j \in DOMAIN r, i # k + 1, j # k + 1, back(i) = back(j) PROVE i = j
    <2>1. i \in Nat /\ j \in Nat
        BY <1>1
    <2> QED BY <1>1, <1>4, <2>1
<1>5. ASSUME NEW i \in DOMAIN r, NEW j \in DOMAIN r, r[i].kind = "system", r[j].kind = "system" PROVE i = j
    <2>1. i # k + 1 /\ j # k + 1
        BY <1>3, <1>5 DEF Joins
    <2>2. back(i) = back(j)
        <3> HIDE DEF back
        <3> QED BY <1>3, <1>5, <2>1 DEF Conversation
    <2> QED BY <1>4, <2>1, <2>2
<1>6. CASE m.kind = "image"
    <2>1. \A i \in DOMAIN r : r[i].kind = "image" => i = k + 1
        <3> HIDE DEF back
        <3> QED BY <1>3, <1>6 DEF Joins
    <2>2. ASSUME NEW j \in DOMAIN r, j > k + 1, k + 1 # 1 PROVE r[j].kind \in {"call", "tool", "frame"}
        <3>1. j # k + 1 /\ back(j) > k
            BY <1>1, <2>2
        <3>2. back(j) \in DOMAIN t /\ r[j] = t[back(j)]
            BY <1>3, <3>1
        <3>3. \A i \in DOMAIN t : i > k => t[i].kind \in {"call", "tool", "frame"}
            <4>1. k # 0
                BY <2>2
            <4> QED BY <4>1 DEF Joins
        <3> HIDE DEF back
        <3> QED BY <3>1, <3>2, <3>3
    <2> QED BY <1>2, <1>5, <2>1, <2>2 DEF Conversation
<1>7. CASE m.kind # "image"
    <2>1. \A i \in DOMAIN r : i # k + 1 => i \in DOMAIN t /\ r[i] = t[i]
        <3>1. k = Len(t)
            BY <1>7 DEF Joins
        <3> QED BY <1>1, <1>3, <3>1
    <2>2. r[k + 1].kind # "image" /\ \A j \in DOMAIN r : j <= k + 1
        <3>1. k = Len(t)
            BY <1>7 DEF Joins
        <3> QED BY <1>1, <1>3, <1>7, <3>1
    <2>3. \A i, j \in DOMAIN r : r[i].kind = "image" /\ r[j].kind = "image" => i = j
        BY <2>1, <2>2 DEF Conversation
    <2>4. ASSUME NEW i \in DOMAIN r, NEW j \in DOMAIN r, r[i].kind = "image", j > i, i # 1
          PROVE  r[j].kind \in {"call", "tool", "frame"}
        <3>1. i \in DOMAIN t /\ t[i].kind = "image"
            BY <2>1, <2>2, <2>4
        <3>2. CASE j = k + 1
            BY <1>3, <3>1, <3>2 DEF Joins
        <3>3. CASE j # k + 1
            BY <2>1, <2>4, <3>1, <3>3 DEF Conversation
        <3> QED BY <3>2, <3>3
    <2> QED BY <1>2, <1>5, <2>3, <2>4 DEF Conversation
<1> QED BY <1>6, <1>7

-----------------------------------------------------------------------------
(* The window.                                                             *)

\* Every call of r is a call of s.
CallsFrom(r, s) ==
    \A n \in DOMAIN r : r[n].kind = "call" => \E i \in DOMAIN s : s[i].kind = "call" /\ s[i].at = r[n].at

\* s begins with instructions or has them somewhere.
Instructed(s) == \E i \in DOMAIN s : s[i].kind = "system"

\* Leaving one message out.
LEMMA OnlyWithout ==
    ASSUME NEW s \in Seq(Msg), NEW h \in DOMAIN s
    PROVE  LET r == Only(s, DOMAIN s \ {h}) IN
           /\ r \in Seq(Msg) /\ Len(r) = Len(s) - 1 /\ DOMAIN r = 1 .. (Len(s) - 1)
           /\ \A n \in DOMAIN r : r[n] = s[IF n < h THEN n ELSE n + 1]
<1> DEFINE L == Len(s)
           D == DOMAIN s \ {h}
           q == [n \in 1 .. (L - 1) |-> IF n < h THEN n ELSE n + 1]
           r == Only(s, D)
<1>1. DOMAIN s = 1 .. L /\ L \in Nat /\ h \in 1 .. L
    OBVIOUS
<1> HIDE DEF L
<1>2. D \in SUBSET (DOMAIN s) /\ D \in SUBSET (1 .. L) /\ D = (1 .. L) \ {h}
    BY <1>1
<1>3. /\ r \in Seq(Msg) /\ DOMAIN r = DOMAIN Ascending(D)
      /\ \A n \in DOMAIN r : r[n] = s[Ascending(D)[n]]
    BY <1>2, OnlyEmbeds
<1>4. Lists(q, D)
    <2>1. \A n \in 1 .. (L - 1) : (IF n < h THEN n ELSE n + 1) \in D
        BY <1>1, <1>2
    <2>2. q \in Seq(D) /\ DOMAIN q = 1 .. (L - 1)
        <3> HIDE DEF D
        <3>1. L - 1 \in Nat
            BY <1>1
        <3> QED BY <2>1, <3>1
    <2>3. \A n \in 1 .. (L - 1) : q[n] = IF n < h THEN n ELSE n + 1
        OBVIOUS
    <2>4. \A m, n \in 1 .. (L - 1) : m < n => q[m] < q[n]
        BY <1>1, <2>3
    <2>5. ASSUME NEW x \in D PROVE \E n \in 1 .. (L - 1) : q[n] = x
        <3>1. x \in 1 .. L /\ x # h
            BY <1>2
        <3>2. CASE x < h
            <4>1. x \in 1 .. (L - 1) /\ q[x] = x
                BY <1>1, <2>3, <3>1, <3>2
            <4> QED BY <4>1
        <3>3. CASE ~ (x < h)
            <4>1. x - 1 \in 1 .. (L - 1) /\ ~ (x - 1 < h) /\ (x - 1) + 1 = x
                BY <1>1, <3>1, <3>3
            <4>2. q[x - 1] = x
                BY <2>3, <4>1
            <4> QED BY <4>1, <4>2
        <3> QED BY <3>2, <3>3
    <2> HIDE DEF q, D
    <2> QED BY <2>2, <2>4, <2>5 DEF Lists
<1>5. Ascending(D) = q
    <2>1. IsFiniteSet(D)
        <3>1. 1 \in Int /\ L \in Int
            BY <1>1
        <3> HIDE DEF D
        <3> QED BY <1>2, <3>1, RangePart
    <2>2. \A x \in D : x \in Nat \ {0}
        BY <1>1, <1>2
    <2> HIDE DEF q, D
    <2> QED BY <1>4, <2>1, <2>2, AscendingEquals
<1>6. DOMAIN r = 1 .. (L - 1) /\ \A n \in DOMAIN r : r[n] = s[IF n < h THEN n ELSE n + 1]
    <2>1. DOMAIN q = 1 .. (L - 1) /\ \A n \in DOMAIN q : q[n] = IF n < h THEN n ELSE n + 1
        OBVIOUS
    <2> HIDE DEF q, r, D
    <2> QED BY <1>3, <1>5, <2>1
<1>7. Len(r) = L - 1
    <2>1. L - 1 \in Nat
        BY <1>1
    <2> HIDE DEF r
    <2> QED BY <1>3, <1>6, <2>1
<1> QED BY <1>3, <1>6, <1>7 DEF L

\* Text without an image is fitted as it is.
LEMMA TextFits ==
    ASSUME NEW t, Conversation(t)
    PROVE  \E K \in SUBSET (DOMAIN t) :
              /\ Fit(t, Priority(t), Window) = Only(t, K) /\ Kept(t, Priority(t), K)
              /\ Conversation(Only(t, K)) /\ CallsFrom(Only(t, K), t)
              /\ Only(t, K) \in Seq(Msg) /\ Len(Only(t, K)) <= Len(t)
              /\ Instructed(t) => Instructed(Only(t, K))
<1>1. Whole(t) /\ t \in Seq(Msg) /\ DOMAIN t = 1 .. Len(t) /\ Len(t) \in Nat /\ Window \in Int
    BY FitAssumption DEF Conversation, Whole
<1>2. Priority(t) \in [DOMAIN t -> 1 .. 3]
    BY <1>1, PriorityIs
<1>3. PICK K \in SUBSET (DOMAIN t) : Fit(t, Priority(t), Window) = Only(t, K) /\ Kept(t, Priority(t), K)
    BY <1>1, <1>2, FitIs
<1>4. Closed(K, t)
    BY <1>3 DEF Kept
<1>5. Conversation(Only(t, K))
    BY <1>4, OnlyIsConversation
<1>6. /\ Only(t, K) \in Seq(Msg) /\ Lists(Ascending(K), K) /\ DOMAIN Only(t, K) = DOMAIN Ascending(K)
      /\ \A n \in DOMAIN Only(t, K) : Ascending(K)[n] \in K /\ Only(t, K)[n] = t[Ascending(K)[n]]
    BY <1>1, OnlyEmbeds
<1>7. CallsFrom(Only(t, K), t)
    BY <1>6 DEF CallsFrom
<1>8. Len(Only(t, K)) <= Len(t)
    <2>1. K \in SUBSET (1 .. Len(t))
        BY <1>1
    <2>2. Len(Ascending(K)) = Cardinality(K) /\ DOMAIN Ascending(K) = 1 .. Len(Ascending(K)) /\ Len(Ascending(K)) \in Nat
        BY <1>1, <1>6, <2>1, ListsRank
    <2>3. Len(Only(t, K)) = Len(Ascending(K))
        BY <1>6, <2>2
    <2>4. 1 \in Int /\ Len(t) \in Int
        BY <1>1
    <2>5. IsFiniteSet(1 .. Len(t)) /\ Cardinality(1 .. Len(t)) = IF 1 > Len(t) THEN 0 ELSE Len(t) - 1 + 1
        BY <2>4, FS_Interval
    <2>6. Cardinality(K) <= Cardinality(1 .. Len(t))
        BY <2>1, <2>5, FS_Subset
    <2>7. Cardinality(1 .. Len(t)) = Len(t)
        BY <1>1, <2>5
    <2> QED BY <2>2, <2>3, <2>6, <2>7
<1>9. Instructed(t) => Instructed(Only(t, K))
    <2> SUFFICES ASSUME NEW i \in DOMAIN t, t[i].kind = "system" PROVE Instructed(Only(t, K))
        BY DEF Instructed
    <2>1. Weight(t, Priority(t), i) = 3
        BY <1>1, PriorityIs DEF At
    <2>2. i \in K
        BY <1>3, <2>1 DEF Kept
    <2>3. \E n \in DOMAIN Only(t, K) : Ascending(K)[n] = i
        BY <1>6, <2>2 DEF Lists
    <2> QED BY <1>6, <2>3 DEF Instructed
<1> QED BY <1>3, <1>5, <1>6, <1>7, <1>8, <1>9

\* What fitContextWindow does to a conversation without frames: the image is held
\* back, the text cut and fitted, and the image put back.
LEMMA TextWindowIs ==
    ASSUME NEW s, Conversation(s), \A i \in DOMAIN s : s[i].kind # "frame"
    PROVE  LET text == Projected(Only(s, DOMAIN s \ At(s, {"image"})))
               r == RestoreHeld(Fit(text, Priority(text), Window), s)
           IN  Conversation(r) /\ CallsFrom(r, s) /\ (Instructed(s) => Instructed(r))
<1> DEFINE held == At(s, {"image"})
           u == Only(s, DOMAIN s \ held)
           text == Projected(u)
           fitted == Fit(text, Priority(text), Window)
           r == RestoreHeld(fitted, s)
<1>1. Whole(s) /\ s \in Seq(Msg) /\ DOMAIN s = 1 .. Len(s) /\ Len(s) \in Nat
    BY DEF Conversation, Whole
<1>2. Closed(DOMAIN s \ held, s) /\ DOMAIN s \ held \in SUBSET (DOMAIN s)
    BY <1>1, WithoutIsClosed
<1>3. Conversation(u)
    BY <1>2, OnlyIsConversation
<1> HIDE DEF u
<1>4. /\ Conversation(text) /\ Len(text) = Len(u)
      /\ \A i \in DOMAIN u : text[i].kind = u[i].kind /\ text[i].at = u[i].at /\ text[i].of = u[i].of
    BY <1>3, ProjectedIs
<1> HIDE DEF text
<1>5. text \in Seq(Msg) /\ u \in Seq(Msg) /\ DOMAIN text = DOMAIN u /\ DOMAIN text = 1 .. Len(text) /\ Len(text) \in Nat
    <2>1. text \in Seq(Msg) /\ u \in Seq(Msg)
        BY <1>3, <1>4 DEF Conversation, Whole
    <2> QED BY <1>4, <2>1
<1>6. PICK K \in SUBSET (DOMAIN text) :
         /\ fitted = Only(text, K) /\ Kept(text, Priority(text), K)
         /\ Conversation(Only(text, K)) /\ CallsFrom(Only(text, K), text)
         /\ Only(text, K) \in Seq(Msg) /\ Len(Only(text, K)) <= Len(text)
         /\ Instructed(text) => Instructed(Only(text, K))
    BY <1>4, TextFits
<1> DEFINE f == Only(text, K)
<1> HIDE DEF fitted, f
<1>7. /\ fitted = f /\ Conversation(f) /\ CallsFrom(f, text) /\ f \in Seq(Msg) /\ Len(f) <= Len(text)
      /\ Instructed(text) => Instructed(f)
    BY <1>6 DEF f
<1>8. CASE held = {}
    <2>1. r = fitted
        BY <1>8 DEF RestoreHeld
    <2>2. u = s
        <3>1. DOMAIN s \ held = DOMAIN s
            BY <1>8
        <3> HIDE DEF held
        <3> QED BY <1>1, <3>1, OnlyAll DEF u
    <2>3. CallsFrom(f, s)
        BY <1>4, <1>5, <1>7, <2>2 DEF CallsFrom
    <2>4. Instructed(s) => Instructed(f)
        BY <1>4, <1>5, <1>7, <2>2 DEF Instructed
    <2> QED BY <1>7, <2>1, <2>3, <2>4 DEF fitted, text, u
<1>9. CASE held # {}
    <2>1. PICK h \in DOMAIN s : s[h].kind = "image" /\ held = {h}
        BY <1>9 DEF At, Conversation
    <2>2. /\ Len(u) = Len(s) - 1 /\ DOMAIN u = 1 .. (Len(s) - 1)
          /\ \A n \in DOMAIN u : u[n] = s[IF n < h THEN n ELSE n + 1]
        BY <1>1, <2>1, OnlyWithout DEF u
    <2>3. h \in Nat /\ 1 <= h /\ h <= Len(s) /\ h \in 1 .. (Len(text) + 1) /\ Len(s) = Len(text) + 1
        BY <1>1, <1>4, <2>2
    <2>4. \A n \in DOMAIN text : /\ (IF n < h THEN n ELSE n + 1) \in DOMAIN s
                                 /\ text[n].kind = s[IF n < h THEN n ELSE n + 1].kind
                                 /\ text[n].at = s[IF n < h THEN n ELSE n + 1].at
        BY <1>1, <1>4, <1>5, <2>2, <2>3
    <2>5. s[h] \in Msg /\ s[h].of = 0
        <3>1. s[h].of = 0
            BY <1>1, <2>1 DEF Whole, Marked
        <3> QED BY <1>1, <3>1
    <2>6. ASSUME NEW n \in DOMAIN text PROVE text[n].kind # "image" /\ (text[n].kind = "call" => text[n].at # s[h].at)
        <3> DEFINE x == IF n < h THEN n ELSE n + 1
        <3>1. x \in DOMAIN s /\ x # h
            BY <1>5, <2>3, <2>4
        <3> HIDE DEF x
        <3>2. text[n].kind = s[x].kind /\ text[n].at = s[x].at
            BY <2>4 DEF x
        <3>3. s[x].kind # "image"
            BY <2>1, <3>1 DEF Conversation
        <3>4. s[x].kind = "call" => s[x].at # s[h].at
            BY <1>1, <3>1 DEF Whole, Named
        <3> QED BY <3>2, <3>3, <3>4
    <2> DEFINE trimmed == Len(s) - Len(f) - 1
               k == IF h <= trimmed THEN 0 ELSE h - 1 - trimmed
    <2>7. k \in 0 .. Len(f) /\ Inserted(r, f, s[h], k)
        <3>1. Len(f) < Len(s)
            BY <1>1, <1>7, <2>3
        <3> HIDE DEF r, f, held
        <3>2. LET tr == Len(s) - Len(f) - 1
                  kk == IF h <= tr THEN 0 ELSE h - 1 - tr
              IN  kk \in 0 .. Len(f) /\ Inserted(RestoreHeld(f, s), f, s[h], kk)
            BY <1>1, <1>7, <2>1, <3>1, RestoredIsInserted DEF held
        <3> QED BY <1>7, <3>2 DEF r
    <2>8. k # 0 => /\ \A n \in DOMAIN f : n > k => f[n].kind \in {"call", "tool"}
                   /\ k + 1 \in DOMAIN f => f[k + 1].kind # "tool"
        <3>1. CASE h = 1
            <4>1. k = 0
                BY <1>1, <1>7, <2>3, <3>1
            <4> QED BY <4>1
        <3>2. CASE h # 1
            <4>1. ASSUME NEW i \in DOMAIN text, i >= h PROVE text[i].kind \in {"call", "tool"}
                <5>1. i + 1 \in DOMAIN s /\ text[i].kind = s[i + 1].kind /\ i + 1 > h
                    BY <1>5, <2>3, <2>4, <4>1
                <5> QED BY <2>1, <3>2, <5>1 DEF Conversation
            <4>2. ASSUME h \in DOMAIN text, text[h].kind = "tool" PROVE FALSE
                <5>1. h + 1 \in DOMAIN s /\ s[h + 1].kind = "tool"
                    BY <2>3, <2>4, <4>2
                <5>2. PICK c \in DOMAIN s :
                         /\ c < h + 1 /\ s[c].kind = "call"
                         /\ \A j \in (c + 1) .. (h + 1) : s[j].kind = "tool"
                    BY <1>1, <5>1, CallOf
                <5>3. CASE c = h
                    BY <2>1, <5>2, <5>3
                <5>4. CASE c # h
                    <6>1. h \in (c + 1) .. (h + 1)
                        BY <1>1, <2>3, <5>2, <5>4
                    <6> QED BY <2>1, <5>2, <6>1
                <5> QED BY <5>3, <5>4
            <4>3. \A i, j \in At(text, {"system"}) : i = j
                BY <1>4 DEF Conversation, At
            <4>4. Whole(text)
                BY <1>4 DEF Conversation
            <4>5. Kept(text, Priority(text), K)
                BY <1>6
            <4>6. LET gone == Len(text) - Len(Only(text, K))
                      kk == IF h <= gone THEN 0 ELSE h - 1 - gone
                  IN  kk # 0 => /\ \A n \in DOMAIN Only(text, K) : n > kk => Only(text, K)[n].kind \in {"call", "tool"}
                                /\ kk + 1 \in DOMAIN Only(text, K) => Only(text, K)[kk + 1].kind # "tool"
                BY <2>3, <4>1, <4>2, <4>3, <4>4, <4>5, PlaceIsSafe
            <4>7. trimmed = Len(text) - Len(f)
                BY <1>5, <1>7, <2>3
            <4> QED BY <4>6, <4>7 DEF f
        <3> QED BY <3>1, <3>2
    <2>9. k = 0 => (k + 1 \in DOMAIN f => f[k + 1].kind # "tool")
        <3> SUFFICES ASSUME 1 \in DOMAIN f, f[1].kind = "tool" PROVE FALSE
            OBVIOUS
        <3>1. Whole(f)
            BY <1>7 DEF Conversation
        <3>2. \E c \in DOMAIN f : c < 1
            BY <3>1, CallOf
        <3> QED BY <1>7, <3>2
    <2>10. ASSUME NEW n \in DOMAIN f PROVE f[n].kind # "image" /\ (f[n].kind = "call" => f[n].at # s[h].at)
        <3>1. f[n].kind # "image"
            <4>1. \E x \in DOMAIN text : f[n] = text[x]
                BY <1>5, OnlyEmbeds DEF f
            <4> QED BY <2>6, <4>1
        <3>2. f[n].kind = "call" => \E i \in DOMAIN text : text[i].kind = "call" /\ text[i].at = f[n].at
            BY <1>7 DEF CallsFrom
        <3> QED BY <2>6, <3>1, <3>2
    <2> HIDE DEF k, r, trimmed
    <2>11. Joins(s[h], f, k)
        <3>1. k # 0 => \A i \in DOMAIN f : i > k => f[i].kind \in {"call", "tool", "frame"}
            BY <2>8
        <3>2. k + 1 \in DOMAIN f => f[k + 1].kind # "tool"
            BY <2>8, <2>9
        <3>3. \A i \in DOMAIN f : f[i].kind # "image"
            BY <2>10
        <3>4. \A i \in DOMAIN f : f[i].kind = "call" => f[i].at # s[h].at
            BY <2>10
        <3> QED BY <2>1, <2>5, <3>1, <3>2, <3>3, <3>4 DEF Joins
    <2>12. Conversation(r)
        BY <1>7, <2>5, <2>7, <2>11, InsertedIsConversation
    <2>13. CallsFrom(r, s)
        <3> SUFFICES ASSUME NEW n \in DOMAIN r, r[n].kind = "call"
                     PROVE \E i \in DOMAIN s : s[i].kind = "call" /\ s[i].at = r[n].at
            BY DEF CallsFrom
        <3>1. \E i \in DOMAIN f : f[i] = r[n]
            <4>1. /\ r \in Seq(Msg) /\ Len(r) = Len(f) + 1 /\ n \in 1 .. (Len(f) + 1)
                  /\ Len(f) \in Nat /\ DOMAIN f = 1 .. Len(f)
                BY <1>7, <2>7 DEF Inserted
            <4>2. r[n] = IF n <= k THEN f[n] ELSE IF n = k + 1 THEN s[h] ELSE f[n - 1]
                BY <2>7, <4>1 DEF Inserted
            <4>3. n # k + 1
                BY <2>1, <2>7, <4>2
            <4> QED BY <2>7, <4>1, <4>2, <4>3
        <3>2. \E i \in DOMAIN text : text[i].kind = "call" /\ text[i].at = r[n].at
            BY <1>7, <3>1 DEF CallsFrom
        <3> QED BY <2>4, <3>2
    <2>14. Instructed(s) => Instructed(r)
        <3> SUFFICES ASSUME NEW i \in DOMAIN s, s[i].kind = "system" PROVE Instructed(r)
            BY DEF Instructed
        <3>1. \E n \in DOMAIN text : text[n].kind = "system"
            <4>1. i \in 1 .. Len(s) /\ i # h
                BY <1>1, <2>1
            <4>2. CASE i < h
                <5>1. i \in DOMAIN text /\ text[i].kind = s[i].kind
                    BY <1>5, <2>3, <2>4, <4>1, <4>2
                <5> QED BY <5>1
            <4>3. CASE ~ (i < h)
                <5>1. i - 1 \in DOMAIN text /\ ~ (i - 1 < h) /\ (i - 1) + 1 = i
                    BY <1>5, <2>3, <4>1, <4>3
                <5>2. text[i - 1].kind = s[i].kind
                    BY <2>4, <5>1
                <5> QED BY <5>1, <5>2
            <4> QED BY <4>2, <4>3
        <3>2. PICK n \in DOMAIN f : f[n].kind = "system"
            BY <1>7, <3>1 DEF Instructed
        <3>3. /\ DOMAIN r = 1 .. (Len(f) + 1) /\ DOMAIN f = 1 .. Len(f) /\ Len(f) \in Nat /\ k \in Nat
              /\ \A x \in 1 .. (Len(f) + 1) : r[x] = IF x <= k THEN f[x] ELSE IF x = k + 1 THEN s[h] ELSE f[x - 1]
            <4>1. r \in Seq(Msg) /\ Len(r) = Len(f) + 1
                BY <2>7 DEF Inserted
            <4> QED BY <1>7, <2>7, <4>1 DEF Inserted
        <3>4. r[IF n <= k THEN n ELSE n + 1] = f[n] /\ (IF n <= k THEN n ELSE n + 1) \in DOMAIN r
            <4>1. CASE n <= k
                BY <3>3, <4>1
            <4>2. CASE ~ (n <= k)
                <5>1. n + 1 \in 1 .. (Len(f) + 1) /\ ~ (n + 1 <= k) /\ n + 1 # k + 1 /\ (n + 1) - 1 = n
                    BY <3>3, <4>2
                <5> QED BY <3>3, <4>2, <5>1
            <4> QED BY <4>1, <4>2
        <3> QED BY <3>2, <3>4 DEF Instructed
    <2> QED BY <2>12, <2>13, <2>14 DEF r, fitted, text, u
<1> QED BY <1>8, <1>9

\* Without its frames a conversation is one, with its instructions.
LEMMA WithoutFramesIs ==
    ASSUME NEW s, Conversation(s), Instructed(s)
    PROVE  LET still == WithoutFrames(s) IN
           /\ Conversation(still) /\ Instructed(still) /\ CallsFrom(still, s)
           /\ \A i \in DOMAIN still : still[i].kind # "frame"
           /\ \A i \in DOMAIN still : \E j \in DOMAIN s : still[i] = s[j]
<1> DEFINE D == DOMAIN s \ At(s, {"frame"})
           still == Only(s, D)
<1>1. Whole(s) /\ s \in Seq(Msg) /\ DOMAIN s = 1 .. Len(s) /\ Len(s) \in Nat
    BY DEF Conversation, Whole
<1>2. D \in SUBSET (DOMAIN s) /\ Closed(D, s)
    BY <1>1, WithoutIsClosed
<1>3. Conversation(still)
    BY <1>2, OnlyIsConversation
<1>4. /\ DOMAIN still = DOMAIN Ascending(D)
      /\ \A n \in DOMAIN still : Ascending(D)[n] \in D /\ still[n] = s[Ascending(D)[n]]
      /\ \A k \in D : \E n \in DOMAIN still : Ascending(D)[n] = k
    <2> HIDE DEF D
    <2>1. LET x == Only(s, D)
              e == Ascending(D)
          IN /\ DOMAIN x = DOMAIN e
             /\ \A n \in DOMAIN x : e[n] \in D /\ x[n] = s[e[n]]
             /\ \A k \in D : \E n \in DOMAIN x : e[n] = k
        BY <1>1, <1>2, OnlyEmbeds
    <2> QED BY <2>1 DEF D
<1>5. \A i \in DOMAIN still : still[i].kind # "frame" /\ \E j \in DOMAIN s : still[i] = s[j]
    BY <1>4 DEF At
<1>6. CallsFrom(still, s)
    <2> HIDE DEF still
    <2> QED BY <1>2, <1>4 DEF CallsFrom
<1>7. Instructed(still)
    <2>1. PICK i \in DOMAIN s : s[i].kind = "system"
        BY DEF Instructed
    <2>2. i \in D
        BY <2>1 DEF At
    <2>3. PICK n \in DOMAIN still : Ascending(D)[n] = i
        BY <1>4, <2>2
    <2> HIDE DEF still
    <2> QED BY <1>4, <2>1, <2>3 DEF Instructed
<1>8. WithoutFrames(s) = still
    BY DEF WithoutFrames
<1> HIDE DEF still
<1> QED BY <1>3, <1>5, <1>6, <1>7, <1>8

\* fitContextWindow keeps a conversation one, with its instructions: exchanges
\* stay whole whatever is cut, and one image comes back to a safe place.
THEOREM FitWindowIs ==
    ASSUME NEW s, Conversation(s), Instructed(s)
    PROVE  Conversation(FitWindow(s)) /\ Instructed(FitWindow(s))
<1> DEFINE still == WithoutFrames(s)
           text == Projected(Only(still, DOMAIN still \ At(still, {"image"})))
           r == RestoreHeld(Fit(text, Priority(text), Window), still)
           frame == LastAt(s, {"frame"})
<1>1. Whole(s) /\ s \in Seq(Msg) /\ DOMAIN s = 1 .. Len(s) /\ Len(s) \in Nat
    BY DEF Conversation, Whole
<1>3. /\ Conversation(still) /\ Instructed(still) /\ CallsFrom(still, s)
      /\ \A i \in DOMAIN still : still[i].kind # "frame"
    BY WithoutFramesIs
<1> HIDE DEF still
<1>8. Conversation(r) /\ CallsFrom(r, still) /\ Instructed(r)
    <2> HIDE DEF text, r
    <2>1. LET tx == Projected(Only(still, DOMAIN still \ At(still, {"image"})))
              x == RestoreHeld(Fit(tx, Priority(tx), Window), still)
          IN  Conversation(x) /\ CallsFrom(x, still) /\ (Instructed(still) => Instructed(x))
        BY <1>3, TextWindowIs
    <2> QED BY <1>3, <2>1 DEF r, text
<1> HIDE DEF text
<1>9. FitWindow(s) = IF frame = 0 THEN r ELSE Append(r, s[frame])
    BY DEF FitWindow, still, text
<1> HIDE DEF r, frame
<1>10. CASE frame = 0
    BY <1>8, <1>9, <1>10
<1>11. CASE frame # 0
    <2>1. frame \in DOMAIN s /\ s[frame].kind = "frame"
        <3>1. frame \in At(s, {"frame"}) \cup {0}
            BY <1>1, LastAtIs DEF frame
        <3> QED BY <1>11, <3>1 DEF At
    <2>2. s[frame] \in Msg /\ s[frame].of = 0
        <3>1. s[frame].of = 0
            BY <1>1, <2>1 DEF Whole, Marked
        <3> QED BY <1>1, <2>1, <3>1
    <2>3. r \in Seq(Msg) /\ DOMAIN r = 1 .. Len(r) /\ Len(r) \in Nat
        <3>1. r \in Seq(Msg)
            BY <1>8 DEF Conversation, Whole
        <3> QED BY <3>1
    <2>4. \A i \in DOMAIN r : r[i].kind = "call" => r[i].at # s[frame].at
        <3> SUFFICES ASSUME NEW i \in DOMAIN r, r[i].kind = "call", r[i].at = s[frame].at PROVE FALSE
            OBVIOUS
        <3>1. PICK j \in DOMAIN still : still[j].kind = "call" /\ still[j].at = r[i].at
            BY <1>8 DEF CallsFrom
        <3>2. PICK l \in DOMAIN s : s[l].kind = "call" /\ s[l].at = still[j].at
            BY <1>3, <3>1 DEF CallsFrom
        <3>3. l = frame
            BY <1>1, <2>1, <3>1, <3>2 DEF Whole, Named
        <3> QED BY <2>1, <3>2, <3>3
    <2>5. Joins(s[frame], r, Len(r))
        BY <2>1, <2>2, <2>3, <2>4 DEF Joins
    <2>6. Inserted(Append(r, s[frame]), r, s[frame], Len(r))
        BY <2>2, <2>3, AppendedIsInserted
    <2>7. Conversation(Append(r, s[frame]))
        <3>1. Len(r) \in 0 .. Len(r)
            BY <2>3
        <3> QED BY <1>8, <2>2, <2>5, <2>6, <3>1, InsertedIsConversation
    <2>8. Instructed(Append(r, s[frame]))
        <3>1. PICK i \in DOMAIN r : r[i].kind = "system"
            BY <1>8 DEF Instructed
        <3>2. i \in DOMAIN Append(r, s[frame]) /\ Append(r, s[frame])[i] = r[i]
            BY <2>2, <2>3
        <3> QED BY <3>1, <3>2 DEF Instructed
    <2> QED BY <1>9, <1>11, <2>7, <2>8
<1> QED BY <1>10, <1>11

-----------------------------------------------------------------------------
(* What is put behind a conversation.                                      *)

\* r is a with b behind it.
Joined(r, a, b) ==
    /\ r \in Seq(Msg) /\ Len(r) = Len(a) + Len(b)
    /\ \A i \in 1 .. (Len(a) + Len(b)) : r[i] = IF i <= Len(a) THEN a[i] ELSE b[i - Len(a)]

\* As \o does.
LEMMA ConcatIsJoined ==
    ASSUME NEW a \in Seq(Msg), NEW b \in Seq(Msg)
    PROVE  Joined(a \o b, a, b)
BY ConcatProperties DEF Joined

\* Its messages are theirs.
LEMMA JoinedParts ==
    ASSUME NEW a \in Seq(Msg), NEW b \in Seq(Msg), NEW r, Joined(r, a, b)
    PROVE  /\ DOMAIN r = 1 .. (Len(a) + Len(b))
           /\ \A i \in DOMAIN r : \/ i \in DOMAIN a /\ r[i] = a[i]
                                  \/ i > Len(a) /\ i - Len(a) \in DOMAIN b /\ r[i] = b[i - Len(a)]
           /\ \A i \in DOMAIN r : (\E j \in DOMAIN a : r[i] = a[j]) \/ (\E j \in DOMAIN b : r[i] = b[j])
           /\ \A i \in DOMAIN a : i \in DOMAIN r /\ r[i] = a[i]
<1> DEFINE n == Len(a)
           m == Len(b)
<1>1. /\ DOMAIN a = 1 .. n /\ n \in Nat /\ DOMAIN b = 1 .. m /\ m \in Nat
      /\ DOMAIN r = 1 .. (n + m)
    <2>1. r \in Seq(Msg) /\ Len(r) = n + m
        BY DEF Joined
    <2> QED BY <2>1
<1>2. \A i \in 1 .. (n + m) : r[i] = IF i <= n THEN a[i] ELSE b[i - n]
    BY DEF Joined
<1> HIDE DEF n, m
<1>3. \A i \in DOMAIN r : \/ i \in DOMAIN a /\ r[i] = a[i]
                          \/ i > n /\ i - n \in DOMAIN b /\ r[i] = b[i - n]
    BY <1>1, <1>2
<1>4. \A i \in DOMAIN a : i \in DOMAIN r /\ r[i] = a[i]
    BY <1>1, <1>2
<1>5. \A i \in DOMAIN r : (\E j \in DOMAIN a : r[i] = a[j]) \/ (\E j \in DOMAIN b : r[i] = b[j])
    BY <1>3
<1> QED BY <1>1, <1>3, <1>4, <1>5 DEF n, m

\* Two conversations whose calls have places of their own are one.
LEMMA JoinedIsWhole ==
    ASSUME NEW a, Whole(a), NEW b, Whole(b), NEW r, Joined(r, a, b),
           \A i \in DOMAIN a, j \in DOMAIN b :
              a[i].kind = "call" \/ b[j].kind = "call" => a[i].at # b[j].at
    PROVE  Whole(r)
<1> DEFINE n == Len(a)
           m == Len(b)
<1>1. /\ DOMAIN a = 1 .. n /\ n \in Nat /\ DOMAIN b = 1 .. m /\ m \in Nat
      /\ DOMAIN r = 1 .. (n + m) /\ r \in Seq(Msg) /\ Len(r) = n + m
    <2>1. a \in Seq(Msg) /\ b \in Seq(Msg) /\ r \in Seq(Msg) /\ Len(r) = n + m
        BY DEF Whole, Joined
    <2> QED BY <2>1
<1>2. \A i \in 1 .. (n + m) : r[i] = IF i <= n THEN a[i] ELSE b[i - n]
    BY DEF Joined
<1> HIDE DEF n, m
<1>3. \A i \in DOMAIN r : \/ i \in DOMAIN a /\ r[i] = a[i]
                          \/ i > n /\ i - n \in DOMAIN b /\ r[i] = b[i - n]
    BY <1>1, <1>2
<1>4. /\ \A i \in DOMAIN a : i \in DOMAIN r /\ r[i] = a[i]
      /\ \A i \in DOMAIN b : i + n \in DOMAIN r /\ r[i + n] = b[i]
    <2>1. \A i \in DOMAIN a : i \in DOMAIN r /\ r[i] = a[i]
        BY <1>1, <1>2
    <2>2. ASSUME NEW i \in DOMAIN b PROVE i + n \in DOMAIN r /\ r[i + n] = b[i]
        <3>1. i + n \in 1 .. (n + m) /\ ~ (i + n <= n) /\ (i + n) - n = i
            BY <1>1
        <3> QED BY <1>1, <1>2, <3>1
    <2> QED BY <2>1, <2>2
<1>5. Marked(r)
    BY <1>3 DEF Whole, Marked
<1>6. Named(r)
    <2> SUFFICES ASSUME NEW i \in DOMAIN r, NEW j \in DOMAIN r, r[i].kind = "call", r[j].at = r[i].at
                 PROVE i = j
        BY DEF Named
    <2>1. CASE i \in DOMAIN a /\ r[i] = a[i]
        BY <1>3, <2>1 DEF Whole, Named
    <2>2. CASE i > n /\ i - n \in DOMAIN b /\ r[i] = b[i - n]
        <3>1. j > n /\ j - n \in DOMAIN b /\ r[j] = b[j - n]
            BY <1>3, <2>2
        <3>2. i - n = j - n
            <4> DEFINE x == i - n
                       y == j - n
            <4>1. x \in DOMAIN b /\ y \in DOMAIN b /\ b[x].kind = "call" /\ b[y].at = b[x].at
                BY <2>2, <3>1
            <4> HIDE DEF x, y
            <4>2. x = y
                BY <4>1 DEF Whole, Named
            <4> QED BY <4>2 DEF x, y
        <3> QED BY <1>1, <3>2
    <2> QED BY <1>3, <2>1, <2>2
<1>7. Follows(r)
    <2> SUFFICES ASSUME NEW i \in DOMAIN r, r[i].kind = "tool"
                 PROVE \E c \in 1 .. (i - 1) : /\ r[c].kind = "call" /\ r[c].at = r[i].of
                                               /\ \A j \in (c + 1) .. i : r[j].of = r[i].of
        BY DEF Follows
    <2>1. CASE i \in DOMAIN a /\ r[i] = a[i]
        <3>1. PICK c \in DOMAIN a : /\ c < i /\ a[c].kind = "call" /\ a[c].at = a[i].of
                                    /\ \A j \in (c + 1) .. i : j \in DOMAIN a /\ a[j].of = a[i].of
            BY <2>1, CallOf
        <3>2. \A j \in (c + 1) .. i : r[j].of = r[i].of
            BY <1>4, <2>1, <3>1
        <3>3. c \in 1 .. (i - 1) /\ r[c] = a[c]
            BY <1>1, <1>4, <3>1
        <3> QED BY <2>1, <3>1, <3>2, <3>3
    <2>2. CASE i > n /\ i - n \in DOMAIN b /\ r[i] = b[i - n]
        <3> DEFINE x == i - n
        <3>1. x \in DOMAIN b /\ b[x].kind = "tool" /\ r[i] = b[x] /\ i = x + n /\ x \in Nat
            BY <1>1, <2>2
        <3> HIDE DEF x
        <3>2. PICK c \in DOMAIN b : /\ c < x /\ b[c].kind = "call" /\ b[c].at = b[x].of
                                    /\ \A j \in (c + 1) .. x : j \in DOMAIN b /\ b[j].of = b[x].of
            BY <3>1, CallOf
        <3>3. c + n \in 1 .. (i - 1) /\ r[c + n] = b[c]
            BY <1>1, <1>4, <3>1, <3>2
        <3>4. ASSUME NEW j \in ((c + n) + 1) .. i PROVE r[j].of = r[i].of
            <4>1. j - n \in (c + 1) .. x /\ (j - n) + n = j
                BY <1>1, <3>1, <3>4
            <4>2. j - n \in DOMAIN b /\ b[j - n].of = b[x].of
                BY <3>2, <4>1
            <4>3. r[j] = b[j - n]
                BY <1>4, <4>1, <4>2
            <4> QED BY <3>1, <4>2, <4>3
        <3> QED BY <3>1, <3>2, <3>3, <3>4
    <2> QED BY <1>3, <2>1, <2>2
<1>8. Answered(r)
    <2> SUFFICES ASSUME NEW i \in DOMAIN r, r[i].kind = "call"
                 PROVE i < Len(r) /\ r[i + 1].of = r[i].at
        BY DEF Answered
    <2>1. CASE i \in DOMAIN a /\ r[i] = a[i]
        <3>1. i < n /\ a[i + 1].of = a[i].at
            BY <2>1 DEF Whole, Answered, n
        <3>2. i + 1 \in DOMAIN a
            BY <1>1, <2>1, <3>1
        <3> QED BY <1>1, <1>4, <2>1, <3>1, <3>2
    <2>2. CASE i > n /\ i - n \in DOMAIN b /\ r[i] = b[i - n]
        <3> DEFINE x == i - n
        <3>1. x \in DOMAIN b /\ b[x].kind = "call" /\ r[i] = b[x] /\ i = x + n /\ x \in Nat
            BY <1>1, <2>2
        <3> HIDE DEF x
        <3>2. x < m /\ b[x + 1].of = b[x].at
            BY <3>1 DEF Whole, Answered, m
        <3>3. x + 1 \in DOMAIN b /\ (x + 1) + n = i + 1
            <4>1. x + 1 \in 1 .. m
                BY <1>1, <3>1, <3>2
            <4>2. (x + 1) + n = i + 1
                BY <1>1, <3>1
            <4> QED BY <1>1, <4>1, <4>2
        <3>4. r[i + 1] = b[x + 1]
            BY <1>4, <3>3
        <3> QED BY <1>1, <3>1, <3>2, <3>4
    <2> QED BY <1>3, <2>1, <2>2
<1> QED BY <1>1, <1>5, <1>6, <1>7, <1>8 DEF Whole

\* Messages of no exchange make a whole conversation.
LEMMA PlainIsWhole ==
    ASSUME NEW s \in Seq(Msg), \A i \in DOMAIN s : s[i].kind \notin {"call", "tool"} /\ s[i].of = 0
    PROVE  Whole(s)
BY DEF Whole, Marked, Named, Follows, Answered

\* A call with its results is a whole conversation.
LEMMA RoundIsWhole ==
    ASSUME NEW r \in Seq(Msg), Len(r) >= 2, r[1].kind = "call", r[1].at # 0, r[1].of = 0,
           \A i \in DOMAIN r : i # 1 => r[i].kind = "tool" /\ r[i].of = r[1].at /\ r[i].at # r[1].at
    PROVE  Whole(r)
<1>1. DOMAIN r = 1 .. Len(r) /\ Len(r) \in Nat
    OBVIOUS
<1>2. Marked(r) /\ Named(r)
    BY <1>1 DEF Marked, Named
<1>3. Follows(r)
    <2> SUFFICES ASSUME NEW i \in DOMAIN r, r[i].kind = "tool"
                 PROVE \E c \in 1 .. (i - 1) : /\ r[c].kind = "call" /\ r[c].at = r[i].of
                                               /\ \A j \in (c + 1) .. i : r[j].of = r[i].of
        BY DEF Follows
    <2>1. i # 1 /\ 1 \in 1 .. (i - 1) /\ r[i].of = r[1].at
        BY <1>1
    <2>2. \A j \in 2 .. i : r[j].of = r[i].of
        BY <1>1, <2>1
    <2> QED BY <2>1, <2>2
<1>4. Answered(r)
    BY <1>1 DEF Answered
<1> QED BY <1>2, <1>3, <1>4 DEF Whole

-----------------------------------------------------------------------------
(* The history.                                                            *)

\* What the session keeps.
PastKinds == {"user", "call", "tool", "reply"}

\* The messages of r are of the kinds and places of messages of s.
Drawn(r, s) ==
    \A n \in DOMAIN r : \E i \in DOMAIN s : r[n].kind = s[i].kind /\ r[n].at = s[i].at

\* The latest place in a sequence.
LEMMA HighestIs ==
    ASSUME NEW s \in Seq(Msg), NEW A, A = {s[i].at : i \in DOMAIN s}
    PROVE  /\ Max(A \cup {0}) \in Nat /\ \A i \in DOMAIN s : s[i].at <= Max(A \cup {0})
           /\ s # << >> => Max(A) \in Nat /\ \A i \in DOMAIN s : s[i].at <= Max(A)
<1>1. DOMAIN s = 1 .. Len(s) /\ Len(s) \in Nat /\ \A i \in DOMAIN s : s[i].at \in Nat
    <2>1. DOMAIN s = 1 .. Len(s) /\ Len(s) \in Nat /\ \A i \in DOMAIN s : s[i] \in Msg
        OBVIOUS
    <2>2. \A m \in Msg : m.at \in Nat
        BY DEF Msg
    <2> QED BY <2>1, <2>2
<1>2. IsFiniteSet(A) /\ A \in SUBSET Nat
    <2> DEFINE f == [i \in 1 .. Len(s) |-> s[i].at]
    <2>1. f \in Surjection(1 .. Len(s), A)
        <3>1. f \in [1 .. Len(s) -> A]
            BY <1>1
        <3>2. \A a \in A : \E i \in 1 .. Len(s) : f[i] = a
            BY <1>1
        <3> HIDE DEF f
        <3> QED BY <3>1, <3>2 DEF Surjection
    <2>2. IsFiniteSet(1 .. Len(s))
        <3>1. 1 \in Int /\ Len(s) \in Int
            BY <1>1
        <3> QED BY <3>1, FS_Interval
    <2> HIDE DEF f
    <2>3. IsFiniteSet(A)
        BY <2>1, <2>2, FS_Surjection
    <2>4. A \in SUBSET Nat
        BY <1>1
    <2> QED BY <2>3, <2>4
<1>3. \A i \in DOMAIN s : s[i].at \in A
    OBVIOUS
<1>4. Max(A \cup {0}) \in Nat /\ \A i \in DOMAIN s : s[i].at <= Max(A \cup {0})
    <2> DEFINE B == A \cup {0}
    <2>1. IsFiniteSet(B)
        BY <1>2, FS_AddElement
    <2>2. B \in SUBSET Int /\ B # {} /\ B \in SUBSET Nat /\ \A i \in DOMAIN s : s[i].at \in B
        BY <1>2, <1>3
    <2> HIDE DEF B
    <2>3. Max(B) \in B /\ \A x \in B : x <= Max(B)
        BY <2>1, <2>2, MaxIs
    <2> QED BY <2>2, <2>3 DEF B
<1>5. ASSUME s # << >> PROVE Max(A) \in Nat /\ \A i \in DOMAIN s : s[i].at <= Max(A)
    <2>1. A # {} /\ A \in SUBSET Int
        BY <1>1, <1>2, <1>3, <1>5
    <2>2. Max(A) \in A /\ \A x \in A : x <= Max(A)
        BY <1>2, <2>1, MaxIs
    <2> QED BY <1>2, <1>3, <2>2
<1> QED BY <1>4, <1>5

\* A conversation from a message on that is no result.
LEMMA TailIsDrawn ==
    ASSUME NEW s, Whole(s), NEW k \in DOMAIN s, s[k].kind # "tool"
    PROVE  Whole(SubSeq(s, k, Len(s))) /\ Drawn(SubSeq(s, k, Len(s)), s)
<1> DEFINE r == SubSeq(s, k, Len(s))
<1>1. s \in Seq(Msg) /\ DOMAIN s = 1 .. Len(s) /\ Len(s) \in Nat /\ k \in 1 .. (Len(s) + 1)
    BY DEF Whole
<1>2. /\ Whole(r) /\ Len(r) = Len(s) - k + 1
      /\ \A n \in 1 .. (Len(s) - k + 1) : r[n] = s[k + n - 1]
    BY <1>1, TailIsWhole
<1> HIDE DEF r
<1>3. DOMAIN r = 1 .. (Len(s) - k + 1)
    <2>1. r \in Seq(Msg)
        BY <1>2 DEF Whole
    <2> QED BY <1>2, <2>1
<1>4. ASSUME NEW n \in DOMAIN r PROVE k + n - 1 \in DOMAIN s /\ r[n] = s[k + n - 1]
    BY <1>1, <1>2, <1>3
<1> QED BY <1>2, <1>4 DEF Drawn, r

\* limitHistoryTurns cuts before a question.
LEMMA LimitTurnsIs ==
    ASSUME NEW s, Whole(s), NEW turns \in Nat \ {0}
    PROVE  Whole(LimitTurns(s, turns)) /\ Drawn(LimitTurns(s, turns), s)
<1> DEFINE A == At(s, {"user"})
           users == Ascending(A)
           k == users[Len(users) - turns + 1]
<1>1. s \in Seq(Msg) /\ DOMAIN s = 1 .. Len(s) /\ Len(s) \in Nat
    BY DEF Whole
<1>2. LimitTurns(s, turns) = IF Len(users) < turns THEN s ELSE SubSeq(s, k, Len(s))
    BY DEF LimitTurns
<1>3. Lists(users, A)
    <2>1. A \in SUBSET (1 .. Len(s)) /\ 1 \in Int /\ Len(s) \in Int
        BY <1>1 DEF At
    <2> HIDE DEF A
    <2>2. IsFiniteSet(A)
        BY <2>1, RangePart
    <2>3. A \in SUBSET (Nat \ {0})
        BY <1>1, <2>1
    <2> QED BY <2>2, <2>3, AscendingIs
<1> HIDE DEF users
<1>4. CASE Len(users) < turns
    BY <1>2, <1>4 DEF Drawn
<1>5. CASE ~ (Len(users) < turns)
    <2>1. users \in Seq(A) /\ Len(users) \in Nat /\ DOMAIN users = 1 .. Len(users)
        BY <1>3 DEF Lists
    <2>2. Len(users) - turns + 1 \in DOMAIN users
        BY <1>5, <2>1
    <2>3. k \in A
        BY <2>1, <2>2
    <2>4. k \in DOMAIN s /\ s[k].kind # "tool"
        BY <2>3 DEF At
    <2> HIDE DEF k
    <2> QED BY <1>2, <1>5, <2>4, TailIsDrawn
<1> QED BY <1>4, <1>5

\* A replayed history: cut results, no image.
LEMMA ReplayedIs ==
    ASSUME NEW s, Whole(s), \A i \in DOMAIN s : s[i].kind \in PastKinds
    PROVE  LET r == [n \in DOMAIN s |-> Replayed(s[n])] IN
           /\ Whole(r) /\ Len(r) = Len(s) /\ DOMAIN r = DOMAIN s
           /\ \A i \in DOMAIN s : r[i].kind = s[i].kind /\ r[i].at = s[i].at
<1> DEFINE r == [n \in DOMAIN s |-> Replayed(s[n])]
<1>1. s \in Seq(Msg) /\ DOMAIN s = 1 .. Len(s) /\ Len(s) \in Nat
    BY DEF Whole
<1>2. ASSUME NEW i \in DOMAIN s
      PROVE  /\ r[i] \in Msg /\ r[i].kind = s[i].kind /\ r[i].at = s[i].at /\ r[i].of = s[i].of
    <2> DEFINE m == s[i]
               c == CutEvidence(m)
    <2>1. m \in Msg /\ m.kind # "image"
        BY <1>1 DEF PastKinds
    <2>2. r[i] = Replayed(m)
        OBVIOUS
    <2> HIDE DEF r
    <2>3. c \in Msg /\ c.kind = m.kind /\ c.at = m.at /\ c.of = m.of
        <3> HIDE DEF m
        <3> QED BY <2>1, CutIs
    <2>4. Replayed(m) = [c EXCEPT !.kind = IF c.kind = "image" THEN "user" ELSE c.kind]
        BY DEF Replayed
    <2> HIDE DEF m, c
    <2>5. [c EXCEPT !.kind = IF c.kind = "image" THEN "user" ELSE c.kind] = c
        <3>1. c.kind # "image"
            BY <2>1, <2>3
        <3> QED BY <2>3, <3>1 DEF Msg
    <2> QED BY <2>2, <2>3, <2>4, <2>5 DEF m
<1>3. DOMAIN r = DOMAIN s /\ r = [n \in 1 .. Len(s) |-> r[n]]
    BY <1>1
<1> HIDE DEF r
<1>4. r \in Seq(Msg) /\ Len(r) = Len(s)
    <2>1. \A n \in 1 .. Len(s) : r[n] \in Msg
        BY <1>1, <1>2
    <2> QED BY <1>1, <1>3, <2>1
<1>5. Whole(r)
    <2> DEFINE e == [n \in DOMAIN r |-> n]
    <2>1. Embeds(e, r, s)
        BY <1>1, <1>2, <1>3 DEF Embeds, Same
    <2>2. Closed(DOMAIN s, s)
        BY UnitIs DEF Closed
    <2>3. (\A n \in DOMAIN r : e[n] \in DOMAIN s) /\ \A k \in DOMAIN s : \E n \in DOMAIN r : e[n] = k
        BY <1>3
    <2> HIDE DEF e
    <2> QED BY <1>4, <2>1, <2>2, <2>3, EmbeddedIsWhole
<1> QED BY <1>2, <1>3, <1>4, <1>5 DEF r

\* fitStableHistoryTail cuts before a question.
LEMMA FitTailIs ==
    ASSUME NEW s, Whole(s), \A i \in DOMAIN s : s[i].kind \in PastKinds, NEW budget
    PROVE  Whole(FitTail(s, budget)) /\ Drawn(FitTail(s, budget), s)
<1> DEFINE w == [n \in DOMAIN s |-> Replayed(s[n])]
           from(i) == SubSeq(w, i, Len(w))
           S == TailStarts(w)
           fits == {i \in S : Cost(from(i)) <= budget}
           k == IF fits = {} THEN Max(S) ELSE Min(fits)
<1>1. s \in Seq(Msg) /\ DOMAIN s = 1 .. Len(s) /\ Len(s) \in Nat
    BY DEF Whole
<1>2. FitTail(s, budget) = IF s = << >> THEN << >> ELSE from(k)
    BY DEF FitTail
<1>3. CASE s = << >>
    <2>1. Whole(<< >>) /\ Drawn(<< >>, s)
        <3>1. << >> \in Seq(Msg) /\ DOMAIN << >> = {}
            OBVIOUS
        <3>2. Whole(<< >>)
            BY <3>1, PlainIsWhole
        <3> QED BY <3>1, <3>2 DEF Drawn
    <2> QED BY <1>2, <1>3, <2>1
<1>4. CASE s # << >>
    <2>1. /\ Whole(w) /\ Len(w) = Len(s) /\ DOMAIN w = DOMAIN s
          /\ \A i \in DOMAIN s : w[i].kind = s[i].kind /\ w[i].at = s[i].at
        BY ReplayedIs
    <2> HIDE DEF w
    <2>2. Len(s) >= 1
        BY <1>1, <1>4
    <2>3. S \in SUBSET (1 .. Len(s)) /\ S # {} /\ fits \in SUBSET (1 .. Len(s)) /\ 1 \in Int /\ Len(s) \in Int
        BY <1>1, <2>1, <2>2 DEF At, TailStarts
    <2>4. k \in S
        <3>1. fits \in SUBSET S
            OBVIOUS
        <3> HIDE DEF S, fits
        <3>2. Max(S) \in S
            BY <2>3, RangePart
        <3>3. fits # {} => Min(fits) \in fits
            BY <2>3, RangePart
        <3> QED BY <3>1, <3>2, <3>3
    <2> HIDE DEF k
    <2>5. k \in DOMAIN w /\ w[k].kind # "tool"
        <3>1. CASE k \in At(w, {"user"})
            BY <3>1 DEF At
        <3>2. CASE k = 1
            <4>1. 1 \in DOMAIN w
                BY <1>1, <2>1, <2>2
            <4>2. w[1].kind # "tool"
                <5> SUFFICES ASSUME w[1].kind = "tool" PROVE FALSE
                    OBVIOUS
                <5>1. \E c \in DOMAIN w : c < 1
                    BY <2>1, <4>1, CallOf
                <5> QED BY <1>1, <2>1, <5>1
            <4> QED BY <3>2, <4>1, <4>2
        <3> QED BY <2>4, <3>1, <3>2 DEF TailStarts
    <2>6. Whole(from(k)) /\ Drawn(from(k), w)
        BY <2>1, <2>5, TailIsDrawn
    <2>7. Drawn(from(k), s)
        <3> DEFINE f == from(k)
        <3> HIDE DEF f
        <3>1. Drawn(f, w)
            BY <2>6 DEF f
        <3>2. Drawn(f, s)
            BY <2>1, <3>1 DEF Drawn
        <3> QED BY <3>2 DEF f
    <2> QED BY <1>2, <1>4, <2>6, <2>7
<1> QED BY <1>3, <1>4

\* A list of summaries.
Summaries(s) == s \in Seq(Msg) /\ \A i \in DOMAIN s : s[i].kind = "summary" /\ s[i].of = 0

\* projectCompactSummaries shows some of the summaries, and perhaps an index.
LEMMA ProjectSummariesIs ==
    ASSUME NEW s, Summaries(s)
    PROVE  /\ Summaries(ProjectSummaries(s))
           /\ \A n \in DOMAIN ProjectSummaries(s) :
                 ProjectSummaries(s)[n].at = 1 \/ \E i \in DOMAIN s : ProjectSummaries(s)[n].at = s[i].at
<1> DEFINE limit == (HistoryBudget * 2) \div 3
           room == limit - 1
           from(i) == SubSeq(s, i, Len(s))
           fits == {i \in DOMAIN s : Cost(from(i)) <= room}
           cut == [Last(s) EXCEPT !.size = room]
           shown == IF fits # {} THEN from(Min(fits)) ELSE << cut >>
           index == Sized("summary", 1, 1, 0)
           r == IF Cost(s) <= limit THEN s ELSE IF room <= 0 THEN << >> ELSE << index >> \o shown
           Good(x) == /\ Summaries(x)
                      /\ \A n \in DOMAIN x : x[n].at = 1 \/ \E i \in DOMAIN s : x[n].at = s[i].at
<1>1. ProjectSummaries(s) = r
    BY DEF ProjectSummaries
<1>2. s \in Seq(Msg) /\ DOMAIN s = 1 .. Len(s) /\ Len(s) \in Nat /\ \A i \in DOMAIN s : s[i] \in Msg
    BY DEF Summaries
<1>3. limit \in Nat
    <2>1. HistoryBudget * 2 \in Nat
        BY FitAssumption
    <2> DEFINE x == HistoryBudget * 2
    <2> HIDE DEF x
    <2>2. x \div 3 \in Nat
        BY <2>1 DEF x
    <2> QED BY <2>2 DEF x
<1>4. Cost(s) \in Nat /\ (s = << >> => Cost(s) = 0)
    BY <1>2, CostIs
<1> HIDE DEF limit
<1>5. CASE Cost(s) <= limit
    BY <1>1, <1>5
<1>6. CASE ~ (Cost(s) <= limit) /\ room <= 0
    <2>1. << >> \in Seq(Msg) /\ DOMAIN << >> = {}
        OBVIOUS
    <2>2. Good(<< >>)
        BY <2>1 DEF Summaries
    <2> HIDE DEF Good
    <2>3. r = << >>
        BY <1>6
    <2>4. Good(ProjectSummaries(s))
        BY <1>1, <2>2, <2>3
    <2> QED BY <2>4 DEF Good
<1>7. CASE ~ (Cost(s) <= limit) /\ ~ (room <= 0)
    <2>1. Len(s) >= 1 /\ Len(s) \in DOMAIN s
        <3>1. s # << >>
            BY <1>3, <1>4, <1>7
        <3> QED BY <1>2, <3>1
    <2>2. Good(shown)
        <3>1. CASE fits # {}
            <4> DEFINE k == Min(fits)
                       x == from(k)
            <4>1. k \in DOMAIN s
                <5>1. fits \in SUBSET (1 .. Len(s)) /\ 1 \in Int /\ Len(s) \in Int
                    BY <1>2
                <5> HIDE DEF fits
                <5>2. Min(fits) \in fits
                    BY <3>1, <5>1, RangePart
                <5> QED BY <1>2, <5>1, <5>2
            <4> HIDE DEF k
            <4>2. /\ x \in Seq(Msg) /\ Len(x) = Len(s) - k + 1
                  /\ \A n \in 1 .. (Len(s) - k + 1) : x[n] = s[k + n - 1]
                <5>1. k \in Int /\ Len(s) \in Int /\ k <= Len(s) /\ \A i \in k .. Len(s) : s[i] \in Msg
                    BY <1>2, <4>1
                <5> QED BY <5>1, SubSeqProperties
            <4> HIDE DEF x
            <4>3. ASSUME NEW n \in DOMAIN x PROVE \E i \in DOMAIN s : x[n] = s[i]
                <5>1. n \in 1 .. (Len(s) - k + 1)
                    BY <4>2
                <5>2. k + n - 1 \in DOMAIN s
                    BY <1>2, <4>1, <5>1
                <5> QED BY <4>2, <5>1, <5>2
            <4>4. Good(x)
                BY <4>2, <4>3 DEF Summaries
            <4>5. shown = x
                BY <3>1 DEF x, k
            <4> HIDE DEF Good, shown
            <4> QED BY <4>4, <4>5
        <3>2. CASE fits = {}
            <4>1. room \in Nat
                BY <1>3, <1>7
            <4>2. cut \in Msg /\ cut.kind = "summary" /\ cut.of = 0 /\ cut.at = s[Len(s)].at
                <5> DEFINE m == s[Len(s)]
                <5>1. m \in Msg /\ m.kind = "summary" /\ m.of = 0 /\ cut = [m EXCEPT !.size = room]
                    BY <1>2, <2>1 DEF Summaries, Last
                <5> HIDE DEF m, cut, room
                <5> QED BY <4>1, <5>1 DEF Msg, m
            <4> HIDE DEF cut
            <4>3. << cut >> \in Seq(Msg) /\ DOMAIN << cut >> = {1} /\ << cut >>[1] = cut
                BY <4>2
            <4>4. Good(<< cut >>)
                BY <2>1, <4>2, <4>3 DEF Summaries
            <4>5. shown = << cut >>
                BY <3>2
            <4> HIDE DEF Good, shown
            <4> QED BY <4>4, <4>5
        <3> QED BY <3>1, <3>2
    <2>3. index \in Msg /\ index.kind = "summary" /\ index.of = 0 /\ index.at = 1
        BY DEF Sized, Msg, Kinds
    <2> HIDE DEF index, shown
    <2>4. << index >> \in Seq(Msg) /\ Len(<< index >>) = 1 /\ << index >>[1] = index
        BY <2>3
    <2>5. shown \in Seq(Msg) /\ Len(shown) \in Nat /\ DOMAIN shown = 1 .. Len(shown)
        <3>1. shown \in Seq(Msg)
            BY <2>2 DEF Summaries
        <3> QED BY <3>1
    <2> DEFINE x == << index >> \o shown
    <2>6. /\ x \in Seq(Msg) /\ DOMAIN x = 1 .. (1 + Len(shown))
          /\ \A i \in 1 .. (1 + Len(shown)) : x[i] = IF i <= 1 THEN index ELSE shown[i - 1]
        <3>1. /\ x \in Seq(Msg) /\ Len(x) = 1 + Len(shown)
              /\ \A i \in 1 .. (1 + Len(shown)) : x[i] = IF i <= 1 THEN << index >>[i] ELSE shown[i - 1]
            BY <2>4, <2>5, ConcatProperties
        <3> HIDE DEF x
        <3> QED BY <2>4, <2>5, <3>1
    <2> HIDE DEF x
    <2>7. \A n \in DOMAIN x : x[n] = index \/ \E i \in DOMAIN shown : x[n] = shown[i]
        BY <2>5, <2>6
    <2>8. Good(x)
        <3>1. ASSUME NEW i \in DOMAIN x
              PROVE  x[i].kind = "summary" /\ x[i].of = 0 /\ (x[i].at = 1 \/ \E j \in DOMAIN s : x[i].at = s[j].at)
            <4>1. CASE x[i] = index
                BY <2>3, <4>1
            <4>2. CASE \E j \in DOMAIN shown : x[i] = shown[j]
                BY <2>2, <4>2 DEF Summaries
            <4> QED BY <2>7, <4>1, <4>2
        <3> QED BY <2>6, <3>1 DEF Summaries
    <2>9. r = x
        BY <1>7 DEF x
    <2> HIDE DEF Good, r
    <2>10. Good(ProjectSummaries(s))
        BY <1>1, <2>8, <2>9
    <2> QED BY <2>10 DEF Good
<1> QED BY <1>5, <1>6, <1>7

\* The session: summaries of turns, then whole turns, in the order they were
\* said; nothing stands before the first question.
Session(segments, tail) ==
    /\ Summaries(segments) /\ Whole(tail)
    /\ \A i \in DOMAIN tail : tail[i].kind \in PastKinds
    /\ \A i \in DOMAIN tail : tail[i].kind = "call" => tail[i].at # 1
    /\ \A i, j \in DOMAIN tail : i < j => tail[i].at < tail[j].at
    /\ \A i \in DOMAIN segments, j \in DOMAIN tail : segments[i].at < tail[j].at

\* buildHistoryMessages gives whole exchanges.
LEMMA BuildHistoryIs ==
    ASSUME NEW segments, NEW tail, Session(segments, tail), NEW recent \in 0 .. 1
    PROVE  LET r == BuildHistory(segments, tail, recent) IN
           /\ Whole(r) /\ \A i \in DOMAIN r : r[i].kind \in PastKinds \cup {"summary"}
           /\ \A i \in DOMAIN r : r[i].kind = "call" => \E j \in DOMAIN tail : tail[j].kind = "call" /\ tail[j].at = r[i].at
<1> DEFINE a == ProjectSummaries(Boundaries(segments))
           raw == IF recent > 0 THEN LimitTurns(tail, recent) ELSE tail
           b == FitTail(raw, Max({HistoryBudget - Cost(a), 1}))
           r == BuildHistory(segments, tail, recent)
<1>1. r = a \o b
    BY DEF BuildHistory
<1>2. segments \in Seq(Msg) /\ Whole(tail)
    BY DEF Session, Summaries
<1>3. /\ Summaries(Boundaries(segments))
      /\ \A n \in DOMAIN Boundaries(segments) :
            \E i \in DOMAIN segments : Boundaries(segments)[n] = segments[i]
    <2> DEFINE S == {i \in DOMAIN segments : segments[i].size > 0}
               o == Only(segments, S)
    <2>1. S \in SUBSET (DOMAIN segments)
        OBVIOUS
    <2> HIDE DEF S
    <2>2. o \in Seq(Msg) /\ \A n \in DOMAIN o : Ascending(S)[n] \in S /\ o[n] = segments[Ascending(S)[n]]
        BY <1>2, <2>1, OnlyEmbeds
    <2> HIDE DEF o
    <2>3. \A n \in DOMAIN o : \E i \in DOMAIN segments : o[n] = segments[i]
        BY <2>1, <2>2
    <2>4. Summaries(o)
        BY <2>2, <2>3 DEF Session, Summaries
    <2>5. Boundaries(segments) = o
        BY DEF Boundaries, o, S
    <2> QED BY <2>3, <2>4, <2>5
<1>4. /\ Summaries(a)
      /\ \A n \in DOMAIN a : a[n].at = 1 \/ \E i \in DOMAIN segments : a[n].at = segments[i].at
    <2> DEFINE x == Boundaries(segments)
    <2> HIDE DEF x
    <2>1. /\ Summaries(ProjectSummaries(x))
          /\ \A n \in DOMAIN ProjectSummaries(x) :
                ProjectSummaries(x)[n].at = 1 \/ \E i \in DOMAIN x : ProjectSummaries(x)[n].at = x[i].at
        BY <1>3, ProjectSummariesIs DEF x
    <2>2. \A n \in DOMAIN x : \E i \in DOMAIN segments : x[n] = segments[i]
        BY <1>3 DEF x
    <2>3. a = ProjectSummaries(x)
        BY DEF x
    <2> HIDE DEF a
    <2> QED BY <2>1, <2>2, <2>3
<1> HIDE DEF a
<1>5. Whole(raw) /\ Drawn(raw, tail)
    <2>1. CASE recent > 0
        <3>1. recent \in Nat \ {0}
            BY <2>1
        <3>2. Whole(LimitTurns(tail, recent)) /\ Drawn(LimitTurns(tail, recent), tail)
            BY <1>2, <3>1, LimitTurnsIs
        <3> QED BY <2>1, <3>2
    <2>2. CASE ~ (recent > 0)
        BY <1>2, <2>2 DEF Drawn
    <2> QED BY <2>1, <2>2
<1> HIDE DEF raw
<1>6. \A i \in DOMAIN raw : raw[i].kind \in PastKinds
    BY <1>5 DEF Drawn, Session
<1>7. Whole(b) /\ Drawn(b, raw)
    BY <1>5, <1>6, FitTailIs
<1> HIDE DEF b
<1>8. Drawn(b, tail)
    BY <1>5, <1>7 DEF Drawn
<1>9. Whole(a) /\ a \in Seq(Msg) /\ b \in Seq(Msg)
    <2>1. a \in Seq(Msg) /\ \A i \in DOMAIN a : a[i].kind \notin {"call", "tool"} /\ a[i].of = 0
        BY <1>4 DEF Summaries
    <2>2. b \in Seq(Msg)
        BY <1>7 DEF Whole
    <2> QED BY <2>1, <2>2, PlainIsWhole
<1>10. Joined(r, a, b)
    BY <1>1, <1>9, ConcatIsJoined
<1>11. ASSUME NEW i \in DOMAIN a, NEW j \in DOMAIN b, a[i].kind = "call" \/ b[j].kind = "call"
       PROVE a[i].at # b[j].at
    <2>1. b[j].kind = "call"
        BY <1>4, <1>11 DEF Summaries
    <2>2. PICK k \in DOMAIN tail : tail[k].kind = "call" /\ tail[k].at = b[j].at
        BY <1>8, <2>1 DEF Drawn
    <2>3. tail[k].at # 1 /\ \A l \in DOMAIN segments : segments[l].at < tail[k].at
        BY <2>2 DEF Session
    <2>4. \A l \in DOMAIN segments : segments[l].at # tail[k].at
        <3>1. \A l \in DOMAIN segments : segments[l].at \in Nat
            <4>1. \A m \in Msg : m.at \in Nat
                BY DEF Msg
            <4> QED BY <1>2, <4>1
        <3> QED BY <2>3, <3>1
    <2> QED BY <1>4, <2>2, <2>3, <2>4
<1> HIDE DEF r
<1>12. Whole(r)
    BY <1>7, <1>9, <1>10, <1>11, JoinedIsWhole
<1>13. \A i \in DOMAIN r : (\E j \in DOMAIN a : r[i] = a[j]) \/ (\E j \in DOMAIN b : r[i] = b[j])
    BY <1>9, <1>10, JoinedParts
<1>14. \A i \in DOMAIN r : r[i].kind \in PastKinds \cup {"summary"}
    BY <1>4, <1>8, <1>13 DEF Summaries, Drawn, Session
<1>15. \A i \in DOMAIN r : r[i].kind = "call" => \E j \in DOMAIN tail : tail[j].kind = "call" /\ tail[j].at = r[i].at
    BY <1>4, <1>8, <1>13 DEF Summaries, Drawn
<1> QED BY <1>12, <1>14, <1>15 DEF r

-----------------------------------------------------------------------------
(* The turn's conversation.                                                *)

\* Calls and results go behind a conversation.
LEMMA RoundJoins ==
    ASSUME NEW a, Conversation(a), Instructed(a), NEW b, Whole(b),
           \A j \in DOMAIN b : b[j].kind \in {"call", "tool"},
           \A i \in DOMAIN a, j \in DOMAIN b : a[i].at # b[j].at,
           NEW r, Joined(r, a, b)
    PROVE  Conversation(r) /\ Instructed(r)
<1>1. Whole(a) /\ a \in Seq(Msg) /\ b \in Seq(Msg)
    BY DEF Conversation, Whole
<1>2. Whole(r)
    BY <1>1, JoinedIsWhole
<1>3. /\ DOMAIN r = 1 .. (Len(a) + Len(b))
      /\ \A i \in DOMAIN r : \/ i \in DOMAIN a /\ r[i] = a[i]
                             \/ i > Len(a) /\ i - Len(a) \in DOMAIN b /\ r[i] = b[i - Len(a)]
      /\ \A i \in DOMAIN a : i \in DOMAIN r /\ r[i] = a[i]
    BY <1>1, JoinedParts
<1>4. \A i \in DOMAIN r : (i \in DOMAIN a /\ r[i] = a[i]) \/ r[i].kind \in {"call", "tool"}
    BY <1>3
<1>5. \A i, j \in DOMAIN r : r[i].kind = "system" /\ r[j].kind = "system" => i = j
    BY <1>4 DEF Conversation
<1>6. \A i, j \in DOMAIN r : r[i].kind = "image" /\ r[j].kind = "image" => i = j
    BY <1>4 DEF Conversation
<1>7. \A i, j \in DOMAIN r : r[i].kind = "image" /\ j > i /\ i # 1 => r[j].kind \in {"call", "tool", "frame"}
    BY <1>4 DEF Conversation
<1>8. Instructed(r)
    BY <1>3 DEF Instructed
<1> QED BY <1>2, <1>5, <1>6, <1>7, <1>8 DEF Conversation

\* What a round of tool calls leaves of a conversation.
LEMMA ToolRoundIs ==
    ASSUME NEW s, Conversation(s), Instructed(s), NEW next \in Nat, next # 0,
           \A i \in DOMAIN s : s[i].at < next,
           NEW results \in Seq(Msg), Len(results) >= 1,
           \A n \in DOMAIN results : results[n] = Sized("tool", results[n].size, next + n, next),
           NEW extra \in {"none", "frame"}, NEW seen,
           seen = IF extra = "none" THEN << >> ELSE << Sized(extra, 1, next + Len(results) + 1, 0) >>
    PROVE  LET r == FitWindow(s \o << Sized("call", 1, next, 0) >> \o results \o seen)
           IN  Conversation(r) /\ Instructed(r)
<1> DEFINE c == Sized("call", 1, next, 0)
           b == << c >> \o results
           q == (s \o << c >>) \o results
<1>1. s \in Seq(Msg) /\ DOMAIN s = 1 .. Len(s) /\ Len(s) \in Nat
    BY DEF Conversation, Whole
<1>2. next \in Nat /\ next # 0 /\ \A i \in DOMAIN s : s[i].at < next /\ s[i].at \in Nat
    <2>1. \A m \in Msg : m.at \in Nat
        BY DEF Msg
    <2> QED BY <1>1, <2>1
<1>3. c \in Msg /\ c.kind = "call" /\ c.at = next /\ c.of = 0
    <2>1. c = [kind |-> "call", size |-> 1, at |-> next, of |-> 0]
        BY DEF Sized
    <2>2. next \in Nat
        BY <1>2
    <2> HIDE DEF c
    <2> QED BY <2>1, <2>2 DEF Msg, Kinds
<1>4. /\ DOMAIN results = 1 .. Len(results) /\ Len(results) \in Nat
      /\ \A n \in DOMAIN results : /\ results[n] \in Msg /\ results[n].kind = "tool"
                                   /\ results[n].at = next + n /\ results[n].of = next
    <2>1. DOMAIN results = 1 .. Len(results) /\ Len(results) \in Nat /\ \A n \in DOMAIN results : results[n] \in Msg
        OBVIOUS
    <2>2. ASSUME NEW n \in DOMAIN results
          PROVE results[n].kind = "tool" /\ results[n].at = next + n /\ results[n].of = next
        <3> DEFINE z == results[n].size
        <3>1. results[n] = Sized("tool", z, next + n, next)
            OBVIOUS
        <3> HIDE DEF z
        <3> QED BY <3>1 DEF Sized
    <2> QED BY <2>1, <2>2
<1> HIDE DEF c
<1>5. << c >> \in Seq(Msg) /\ Len(<< c >>) = 1 /\ << c >>[1] = c
    BY <1>3
<1>6. /\ b \in Seq(Msg) /\ Len(b) = 1 + Len(results) /\ DOMAIN b = 1 .. (1 + Len(results))
      /\ \A i \in 1 .. (1 + Len(results)) : b[i] = IF i <= 1 THEN c ELSE results[i - 1]
    <2>1. /\ b \in Seq(Msg) /\ Len(b) = 1 + Len(results)
          /\ \A i \in 1 .. (1 + Len(results)) : b[i] = IF i <= 1 THEN << c >>[i] ELSE results[i - 1]
        BY <1>5, ConcatProperties
    <2> HIDE DEF b
    <2> QED BY <1>4, <1>5, <2>1
<1>7. q = s \o b
    BY <1>1, <1>5, ConcatAssociative
<1> HIDE DEF b, q
<1>8. /\ b[1] = c
      /\ \A i \in DOMAIN b : i # 1 => /\ b[i].kind = "tool" /\ b[i].of = next /\ b[i].at = next + (i - 1)
    <2>1. b[1] = c
        BY <1>4, <1>6
    <2>2. ASSUME NEW i \in DOMAIN b, i # 1
          PROVE b[i].kind = "tool" /\ b[i].of = next /\ b[i].at = next + (i - 1)
        <3>1. b[i] = results[i - 1] /\ i - 1 \in DOMAIN results
            BY <1>4, <1>6, <2>2
        <3> QED BY <1>4, <3>1
    <2> QED BY <2>1, <2>2
<1>9. \A i \in DOMAIN b : b[i].kind \in {"call", "tool"} /\ b[i].at >= next /\ b[i].at <= next + Len(results)
    <2> SUFFICES ASSUME NEW i \in DOMAIN b
                 PROVE b[i].kind \in {"call", "tool"} /\ b[i].at >= next /\ b[i].at <= next + Len(results)
        OBVIOUS
    <2>1. i \in 1 .. (1 + Len(results))
        BY <1>6
    <2>2. CASE i = 1
        BY <1>2, <1>3, <1>4, <1>8, <2>2
    <2>3. CASE i # 1
        <3>1. b[i].kind = "tool" /\ b[i].at = next + (i - 1)
            BY <1>8, <2>3
        <3>2. next + (i - 1) >= next /\ next + (i - 1) <= next + Len(results)
            BY <1>2, <1>4, <2>1
        <3> QED BY <3>1, <3>2
    <2> QED BY <2>2, <2>3
<1>10. Whole(b)
    <2>1. Len(b) >= 2
        BY <1>4, <1>6
    <2>2. \A i \in DOMAIN b : i # 1 => b[i].at # next
        <3> SUFFICES ASSUME NEW i \in DOMAIN b, i # 1 PROVE b[i].at # next
            OBVIOUS
        <3>1. b[i].at = next + (i - 1) /\ i \in Nat
            BY <1>4, <1>6, <1>8
        <3> QED BY <1>2, <3>1
    <2>3. b \in Seq(Msg) /\ b[1].kind = "call" /\ b[1].at = next /\ next # 0 /\ b[1].of = 0
        BY <1>2, <1>3, <1>6, <1>8
    <2>4. \A i \in DOMAIN b : i # 1 => b[i].kind = "tool" /\ b[i].of = b[1].at /\ b[i].at # b[1].at
        BY <1>8, <2>2, <2>3
    <2>5. b[1].at # 0
        BY <2>3
    <2> QED BY <2>1, <2>3, <2>4, <2>5, RoundIsWhole
<1>11. Joined(q, s, b)
    BY <1>1, <1>6, <1>7, ConcatIsJoined
<1>12. Conversation(q) /\ Instructed(q)
    <2>1. \A i \in DOMAIN s, j \in DOMAIN b : s[i].at # b[j].at
        <3> SUFFICES ASSUME NEW i \in DOMAIN s, NEW j \in DOMAIN b, s[i].at = b[j].at PROVE FALSE
            OBVIOUS
        <3>1. s[i].at < next /\ s[i].at \in Nat /\ s[i].at >= next
            BY <1>2, <1>9
        <3> QED BY <1>2, <3>1
    <2> QED BY <1>9, <1>10, <1>11, <2>1, RoundJoins
<1>13. CASE extra = "none"
    <2>1. q \in Seq(Msg)
        BY <1>12 DEF Conversation, Whole
    <2>2. q \o seen = q
        BY <1>13, <2>1, ConcatEmptySeq
    <2>3. Conversation(FitWindow(q)) /\ Instructed(FitWindow(q))
        BY <1>12, FitWindowIs
    <2> QED BY <2>2, <2>3 DEF q, c
<1>14. CASE extra = "frame"
    <2> DEFINE m == Sized(extra, 1, next + Len(results) + 1, 0)
               p == Append(q, m)
    <2>1. m \in Msg /\ m.kind = "frame" /\ m.of = 0 /\ m.at = next + Len(results) + 1
        BY <1>2, <1>4, <1>14 DEF Sized, Msg, Kinds
    <2> HIDE DEF m
    <2>2. q \in Seq(Msg) /\ DOMAIN q = 1 .. Len(q) /\ Len(q) \in Nat
        BY <1>12 DEF Conversation, Whole
    <2>3. q \o seen = p
        <3>1. seen = << m >>
            BY <1>14 DEF m
        <3> QED BY <2>1, <2>2, <3>1, AppendIsConcat
    <2>4. \A i \in DOMAIN q : q[i].kind = "call" => q[i].at # m.at
        <3> SUFFICES ASSUME NEW i \in DOMAIN q PROVE q[i].at # m.at
            OBVIOUS
        <3>1. (\E j \in DOMAIN s : q[i] = s[j]) \/ (\E j \in DOMAIN b : q[i] = b[j])
            <4>1. s \in Seq(Msg) /\ b \in Seq(Msg)
                BY <1>1, <1>6
            <4>2. \A x \in DOMAIN q : (\E j \in DOMAIN s : q[x] = s[j]) \/ (\E j \in DOMAIN b : q[x] = b[j])
                BY <1>11, <4>1, JoinedParts
            <4> QED BY <4>2
        <3>2. ASSUME NEW j \in DOMAIN s PROVE s[j].at # m.at
            <4>1. s[j].at < next /\ s[j].at \in Nat
                BY <1>2
            <4> QED BY <1>2, <1>4, <2>1, <4>1
        <3>3. ASSUME NEW j \in DOMAIN b PROVE b[j].at # m.at
            <4>1. b[j].at <= next + Len(results) /\ b[j].at \in Nat
                <5>1. \A x \in Msg : x.at \in Nat
                    BY DEF Msg
                <5>2. b[j] \in Msg
                    BY <1>6
                <5> QED BY <1>9, <5>1, <5>2
            <4>2. m.at = next + Len(results) + 1 /\ next \in Nat /\ Len(results) \in Nat
                BY <1>2, <1>4, <2>1
            <4> QED BY <4>1, <4>2
        <3> QED BY <3>1, <3>2, <3>3
    <2>5. Joins(m, q, Len(q))
        BY <2>1, <2>2, <2>4 DEF Joins
    <2>6. Inserted(p, q, m, Len(q))
        BY <2>1, <2>2, AppendedIsInserted
    <2>7. Conversation(p)
        <3>1. Len(q) \in 0 .. Len(q)
            BY <2>2
        <3> HIDE DEF p
        <3> QED BY <1>12, <2>1, <2>5, <2>6, <3>1, InsertedIsConversation
    <2>8. Instructed(p)
        <3>1. PICK i \in DOMAIN q : q[i].kind = "system"
            BY <1>12 DEF Instructed
        <3>2. i \in DOMAIN p /\ p[i] = q[i]
            BY <2>1, <2>2
        <3> HIDE DEF p
        <3> QED BY <3>1, <3>2 DEF Instructed
    <2> HIDE DEF p
    <2>9. Conversation(FitWindow(p)) /\ Instructed(FitWindow(p))
        BY <2>7, <2>8, FitWindowIs
    <2> QED BY <2>3, <2>9 DEF q, c
<1> QED BY <1>13, <1>14

\* The user's question, the latest of what was said, is not cut away.
LEMMA LatestIsKept ==
    ASSUME NEW s, Conversation(s), Instructed(s), \A i \in DOMAIN s : s[i].kind \notin {"image", "frame"},
           Len(s) \in DOMAIN s, s[Len(s)].kind = "user"
    PROVE  LET r == FitWindow(s) IN
           /\ Conversation(r) /\ Instructed(r) /\ Len(r) \in DOMAIN r
           /\ r[Len(r)].kind = "user" /\ r[Len(r)].at = s[Len(s)].at
           /\ \A i \in DOMAIN r : r[i].kind # "image"
<1> DEFINE r == FitWindow(s)
           text == Projected(s)
<1>1. Whole(s) /\ s \in Seq(Msg) /\ DOMAIN s = 1 .. Len(s) /\ Len(s) \in Nat /\ Len(s) >= 1
    BY DEF Conversation, Whole
<1>2. Conversation(r) /\ Instructed(r)
    BY FitWindowIs
<1>3. At(s, {"frame"}) = {} /\ At(s, {"image"}) = {}
    BY DEF At
<1>4. Only(s, DOMAIN s) = s
    BY <1>1, OnlyAll
<1>5. r = Fit(text, Priority(text), Window)
    <2>1. LastAt(s, {"frame"}) = 0
        <3>1. LastAt(s, {"frame"}) \in At(s, {"frame"}) \cup {0}
            BY <1>1, LastAtIs
        <3> QED BY <1>3, <3>1
    <2>2. DOMAIN s \ At(s, {"frame"}) = DOMAIN s /\ DOMAIN s \ At(s, {"image"}) = DOMAIN s
        BY <1>3
    <2>3. r = RestoreHeld(Fit(text, Priority(text), Window), s)
        BY <1>4, <2>1, <2>2 DEF FitWindow, WithoutFrames
    <2>4. \A x : RestoreHeld(x, s) = x
        BY <1>3 DEF RestoreHeld
    <2> QED BY <2>3, <2>4
<1>6. /\ Conversation(text) /\ Len(text) = Len(s)
      /\ \A i \in DOMAIN s : text[i].kind = s[i].kind /\ text[i].at = s[i].at
    BY ProjectedIs
<1> HIDE DEF text, r
<1>7. Whole(text) /\ text \in Seq(Msg) /\ DOMAIN text = 1 .. Len(text)
    BY <1>6 DEF Conversation, Whole
<1>8. PICK K \in SUBSET (DOMAIN text) : r = Only(text, K) /\ Kept(text, Priority(text), K)
    BY <1>5, <1>6, TextFits
<1>9. Len(s) \in K
    <2> DEFINE u == LastAt(text, {"user", "image", "frame"})
    <2>1. Len(s) \in At(text, {"user", "image", "frame"})
        BY <1>1, <1>6, <1>7 DEF At
    <2>2. u \in 0 .. Len(text) /\ Len(s) <= u
        BY <1>7, <2>1, LastAtIs
    <2>3. u = Len(s)
        BY <1>1, <1>6, <2>2
    <2>4. Weight(text, Priority(text), Len(s)) = 3
        BY <1>1, <1>6, <1>7, <2>3, PriorityIs
    <2> QED BY <1>1, <1>6, <1>7, <1>8, <2>4 DEF Kept
<1> DEFINE e == Ascending(K)
<1>10. /\ r \in Seq(Msg) /\ DOMAIN r = DOMAIN e /\ Lists(e, K)
       /\ \A n \in DOMAIN r : e[n] \in K /\ r[n] = text[e[n]]
       /\ \A x \in K : \E n \in DOMAIN r : e[n] = x
    <2>1. LET x == Only(text, K)
              d == Ascending(K)
          IN /\ x \in Seq(Msg) /\ DOMAIN x = DOMAIN d /\ Lists(d, K)
             /\ \A n \in DOMAIN x : d[n] \in K /\ x[n] = text[d[n]]
             /\ \A k \in K : \E n \in DOMAIN x : d[n] = k
        BY <1>7, OnlyEmbeds
    <2> QED BY <1>8, <2>1
<1> HIDE DEF e
<1>11. PICK n \in DOMAIN r : e[n] = Len(s)
    BY <1>9, <1>10
<1>12. n = Len(r) /\ Len(r) \in DOMAIN r
    <2>1. DOMAIN r = 1 .. Len(r) /\ Len(r) \in Nat
        BY <1>10
    <2>2. Len(r) \in DOMAIN r /\ n <= Len(r)
        BY <2>1
    <2>3. e[Len(r)] <= Len(s) /\ e[Len(r)] \in Nat
        BY <1>6, <1>7, <1>10, <2>2
    <2>4. n < Len(r) => e[n] < e[Len(r)]
        BY <1>10, <2>2 DEF Lists
    <2> QED BY <1>1, <1>11, <2>1, <2>2, <2>3, <2>4
<1>13. r[Len(r)].kind = "user" /\ r[Len(r)].at = s[Len(s)].at
    BY <1>1, <1>6, <1>10, <1>11, <1>12
<1>14. \A i \in DOMAIN r : r[i].kind # "image"
    BY <1>1, <1>6, <1>7, <1>10
<1> QED BY <1>2, <1>12, <1>13, <1>14 DEF r

\* The last message of a conversation is alone if it is no call and no result.
LEMMA FrontIsClosed ==
    ASSUME NEW s, Whole(s), Len(s) \in DOMAIN s, s[Len(s)].kind \notin {"call", "tool"}
    PROVE  Closed(1 .. (Len(s) - 1), s)
<1> DEFINE L == Len(s)
<1>1. DOMAIN s = 1 .. L /\ L \in Nat
    BY DEF Whole
<1>2. Unit(s, L) = {L}
    BY UnitIs
<1> HIDE DEF L
<1>3. ASSUME NEW i \in 1 .. (L - 1), NEW j \in Unit(s, i) PROVE j \in 1 .. (L - 1)
    <2>1. i \in 1 .. L /\ i # L
        BY <1>1, <1>3
    <2>2. i \in Unit(s, i) /\ j \in 1 .. L /\ Unit(s, j) = Unit(s, i)
        BY <1>1, <1>3, <2>1, UnitIs
    <2>3. j # L
        BY <1>2, <2>1, <2>2
    <2> QED BY <1>1, <2>2, <2>3
<1> QED BY <1>3 DEF Closed, L

\* The question of the turn takes the place it was planned for.
LEMMA QuestionIs ==
    ASSUME NEW r, Conversation(r), Instructed(r), Len(r) \in DOMAIN r, r[Len(r)].kind = "user",
           \A i \in DOMAIN r : r[i].kind # "image",
           NEW m \in Msg, m.kind \in {"user", "image"}, m.of = 0, m.at = r[Len(r)].at
    PROVE  Conversation(Append(Front(r), m)) /\ Instructed(Append(Front(r), m))
<1> DEFINE f == Front(r)
           N == Len(r) - 1
           p == Append(f, m)
<1>1. Whole(r) /\ r \in Seq(Msg) /\ DOMAIN r = 1 .. Len(r) /\ Len(r) \in Nat /\ N \in Nat
    BY DEF Conversation, Whole
<1>2. f \in Seq(Msg) /\ Len(f) = N /\ DOMAIN f = 1 .. N /\ \A i \in 1 .. N : f[i] = r[i]
    <2>1. 1 \in Int /\ N \in Int /\ \A i \in 1 .. N : r[i] \in Msg
        BY <1>1
    <2>2. /\ SubSeq(r, 1, N) \in Seq(Msg)
          /\ Len(SubSeq(r, 1, N)) = IF 1 <= N THEN N - 1 + 1 ELSE 0
          /\ \A i \in 1 .. N - 1 + 1 : SubSeq(r, 1, N)[i] = r[1 + i - 1]
        BY <2>1, SubSeqProperties
    <2>3. f = SubSeq(r, 1, N)
        BY DEF Front
    <2> HIDE DEF f
    <2>4. f \in Seq(Msg) /\ Len(f) = N
        BY <1>1, <2>2, <2>3
    <2>5. \A i \in 1 .. N : i \in 1 .. N - 1 + 1 /\ 1 + i - 1 = i
        BY <1>1
    <2>6. \A i \in 1 .. N : f[i] = r[i]
        BY <2>2, <2>3, <2>5
    <2> QED BY <2>4, <2>6
<1> HIDE DEF f
<1>3. Whole(f)
    <2> DEFINE K == 1 .. N
               e == [i \in DOMAIN f |-> i]
    <2>1. Closed(K, r)
        BY <1>1, FrontIsClosed
    <2>2. Embeds(e, f, r)
        BY <1>1, <1>2 DEF Embeds, Same
    <2>3. (\A n \in DOMAIN f : e[n] \in K) /\ \A k \in K : \E n \in DOMAIN f : e[n] = k
        BY <1>2
    <2> HIDE DEF e, K
    <2> QED BY <1>1, <1>2, <2>1, <2>2, <2>3, EmbeddedIsWhole
<1>4. \A i \in DOMAIN f : i \in DOMAIN r /\ i # Len(r) /\ f[i] = r[i]
    BY <1>1, <1>2
<1>5. Conversation(f)
    BY <1>3, <1>4 DEF Conversation
<1>6. Joins(m, f, Len(f))
    <2>1. \A i \in DOMAIN f : f[i].kind = "call" => f[i].at # m.at
        BY <1>1, <1>4 DEF Whole, Named
    <2>2. (\A i \in DOMAIN f : f[i].kind # "image") /\ ~ (Len(f) + 1 \in DOMAIN f) /\ \A i \in DOMAIN f : ~ (i > Len(f))
        BY <1>1, <1>2, <1>4
    <2> QED BY <2>1, <2>2 DEF Joins
<1>7. Inserted(p, f, m, Len(f)) /\ Len(f) \in 0 .. Len(f)
    BY <1>1, <1>2, AppendedIsInserted
<1>8. Conversation(p)
    <2> HIDE DEF p
    <2> QED BY <1>5, <1>6, <1>7, InsertedIsConversation
<1>9. Instructed(p)
    <2>1. PICK i \in DOMAIN r : r[i].kind = "system"
        BY DEF Instructed
    <2>2. i \in DOMAIN f /\ f[i] = r[i]
        BY <1>1, <1>2, <2>1
    <2>3. i \in DOMAIN p /\ p[i] = f[i]
        BY <1>2, <2>2
    <2> HIDE DEF p
    <2> QED BY <2>1, <2>2, <2>3 DEF Instructed
<1> QED BY <1>8, <1>9 DEF f

\* The place of the latest message of a session.
LEMMA SaidIs ==
    ASSUME NEW a \in Seq(Msg), NEW b \in Seq(Msg)
    PROVE  LET n == Max({m.at : m \in Range(a \o b)} \cup {0}) IN
           n \in Nat /\ (\A i \in DOMAIN a : a[i].at <= n) /\ (\A i \in DOMAIN b : b[i].at <= n)
<1> DEFINE r == a \o b
           A == {r[i].at : i \in DOMAIN r}
<1>1. r \in Seq(Msg)
    OBVIOUS
<1>2. {m.at : m \in Range(r)} = A
    BY DEF Range
<1>3. Joined(r, a, b)
    BY ConcatIsJoined
<1> DEFINE n == Max(A \cup {0})
<1>4. n \in Nat /\ \A i \in DOMAIN r : r[i].at <= n
    <2> HIDE DEF r
    <2> QED BY <1>1, HighestIs
<1> HIDE DEF r
<1>5. \A i \in DOMAIN a : i \in DOMAIN r /\ r[i] = a[i]
    BY <1>3, JoinedParts
<1>6. \A i \in DOMAIN b : \E j \in DOMAIN r : r[j] = b[i]
    <2> SUFFICES ASSUME NEW i \in DOMAIN b PROVE \E j \in DOMAIN r : r[j] = b[i]
        OBVIOUS
    <2>1. DOMAIN a = 1 .. Len(a) /\ Len(a) \in Nat /\ DOMAIN b = 1 .. Len(b) /\ Len(b) \in Nat
        OBVIOUS
    <2>2. DOMAIN r = 1 .. (Len(a) + Len(b))
        BY <1>3, JoinedParts
    <2>3. Len(a) + i \in 1 .. (Len(a) + Len(b)) /\ ~ (Len(a) + i <= Len(a)) /\ (Len(a) + i) - Len(a) = i
        BY <2>1
    <2>4. r[Len(a) + i] = b[i]
        BY <1>3, <2>3 DEF Joined
    <2> QED BY <2>2, <2>3, <2>4
<1> HIDE DEF A, n
<1>7. (\A i \in DOMAIN a : a[i].at <= n) /\ (\A i \in DOMAIN b : b[i].at <= n)
    BY <1>4, <1>5, <1>6
<1> QED BY <1>2, <1>4, <1>7 DEF r, n

-----------------------------------------------------------------------------
(* The session.                                                            *)

\* A turn joins the session.
LEMMA TurnJoins ==
    ASSUME NEW segments, NEW tail, Session(segments, tail), NEW n \in Nat,
           \A i \in DOMAIN segments : segments[i].at <= n, \A i \in DOMAIN tail : tail[i].at <= n,
           NEW b, Whole(b), \A i \in DOMAIN b : b[i].kind \in PastKinds /\ b[i].at = n + i,
           b[1].kind # "call"
    PROVE  Session(segments, tail \o b)
<1> DEFINE r == tail \o b
           L == Len(tail)
<1>1. /\ Whole(tail) /\ tail \in Seq(Msg) /\ b \in Seq(Msg) /\ DOMAIN tail = 1 .. L /\ L \in Nat
      /\ DOMAIN b = 1 .. Len(b) /\ Len(b) \in Nat
    <2>1. tail \in Seq(Msg) /\ b \in Seq(Msg) /\ Whole(tail)
        BY DEF Session, Whole
    <2> QED BY <2>1
<1>2. Joined(r, tail, b)
    BY <1>1, ConcatIsJoined
<1> HIDE DEF r, L
<1>3. /\ \A i \in DOMAIN tail : tail[i].at \in Nat /\ tail[i].at <= n
      /\ \A i \in DOMAIN b : b[i].at > n /\ b[i].at = n + i /\ b[i].at \in Nat
    <2>1. \A m \in Msg : m.at \in Nat
        BY DEF Msg
    <2>2. \A i \in DOMAIN b : n + i > n /\ n + i \in Nat
        BY <1>1
    <2> QED BY <1>1, <2>1, <2>2
<1>4. Whole(r)
    <2>1. \A i \in DOMAIN tail, j \in DOMAIN b : tail[i].at # b[j].at
        <3> SUFFICES ASSUME NEW i \in DOMAIN tail, NEW j \in DOMAIN b PROVE tail[i].at # b[j].at
            OBVIOUS
        <3>1. tail[i].at \in Nat /\ tail[i].at <= n /\ b[j].at > n
            BY <1>3
        <3> QED BY <3>1
    <2>2. \A i \in DOMAIN tail, j \in DOMAIN b :
             tail[i].kind = "call" \/ b[j].kind = "call" => tail[i].at # b[j].at
        BY <2>1
    <2>3. Whole(tail) /\ Whole(b)
        BY <1>1
    <2> QED BY <1>2, <2>2, <2>3, JoinedIsWhole
<1>5. \A i \in DOMAIN r : \/ i \in DOMAIN tail /\ r[i] = tail[i]
                          \/ i > L /\ i - L \in DOMAIN b /\ r[i] = b[i - L]
    BY <1>1, <1>2, JoinedParts DEF L
<1>6. \A i \in DOMAIN r : r[i].kind \in PastKinds
    BY <1>5 DEF Session
<1>7. ASSUME NEW i \in DOMAIN r, r[i].kind = "call" PROVE r[i].at # 1
    <2>1. CASE i \in DOMAIN tail /\ r[i] = tail[i]
        BY <1>7, <2>1 DEF Session
    <2>2. CASE i > L /\ i - L \in DOMAIN b /\ r[i] = b[i - L]
        <3> DEFINE x == i - L
        <3>1. x \in DOMAIN b /\ r[i] = b[x] /\ b[x].kind = "call" /\ x \in Nat
            BY <1>1, <1>7, <2>2
        <3> HIDE DEF x
        <3>2. x # 1 /\ x # 0
            BY <1>1, <3>1
        <3>3. r[i].at = n + x
            BY <1>3, <3>1
        <3> QED BY <3>1, <3>2, <3>3
    <2> QED BY <1>5, <2>1, <2>2
<1>8. ASSUME NEW i \in DOMAIN r, NEW j \in DOMAIN r, i < j PROVE r[i].at < r[j].at
    <2>1. CASE i \in DOMAIN tail /\ r[i] = tail[i]
        <3>1. CASE j \in DOMAIN tail /\ r[j] = tail[j]
            BY <1>8, <2>1, <3>1 DEF Session
        <3>2. CASE j > L /\ j - L \in DOMAIN b /\ r[j] = b[j - L]
            <4>1. r[i].at \in Nat /\ r[i].at <= n /\ r[j].at > n /\ r[j].at \in Nat
                BY <1>3, <2>1, <3>2
            <4> QED BY <4>1
        <3> QED BY <1>5, <3>1, <3>2
    <2>2. CASE i > L /\ i - L \in DOMAIN b /\ r[i] = b[i - L]
        <3>1. j \in Nat /\ i \in Nat /\ j > L
            <4>1. r \in Seq(Msg)
                BY <1>4 DEF Whole
            <4>2. j \in Nat /\ i \in Nat
                BY <4>1
            <4> QED BY <1>1, <1>8, <2>2, <4>2
        <3>2. j - L \in DOMAIN b /\ r[j] = b[j - L]
            BY <1>1, <1>5, <3>1
        <3>3. r[i].at = n + (i - L) /\ r[j].at = n + (j - L)
            BY <1>3, <2>2, <3>2
        <3> QED BY <1>1, <1>8, <3>1, <3>3
    <2> QED BY <1>5, <2>1, <2>2
<1>9. \A i \in DOMAIN segments, j \in DOMAIN r : segments[i].at < r[j].at
    <2> SUFFICES ASSUME NEW i \in DOMAIN segments, NEW j \in DOMAIN r PROVE segments[i].at < r[j].at
        OBVIOUS
    <2>1. segments[i].at \in Nat /\ segments[i].at <= n
        <3>1. \A m \in Msg : m.at \in Nat
            BY DEF Msg
        <3>2. segments \in Seq(Msg)
            BY DEF Session, Summaries
        <3> QED BY <3>1, <3>2
    <2>2. CASE j \in DOMAIN tail /\ r[j] = tail[j]
        BY <2>2 DEF Session
    <2>3. CASE j > L /\ j - L \in DOMAIN b /\ r[j] = b[j - L]
        <3>1. r[j].at > n /\ r[j].at \in Nat
            BY <1>3, <2>3
        <3> QED BY <2>1, <3>1
    <2> QED BY <1>5, <2>2, <2>3
<1> QED BY <1>4, <1>6, <1>7, <1>8, <1>9 DEF Session, r

\* A question and an answer, or a question, a call, its result and an answer.
LEMMA PastTurnIs ==
    ASSUME NEW n \in Nat, NEW size \in Nat, NEW called \in BOOLEAN
    PROVE  LET user == Sized("user", 1, n + 1, 0)
               b == IF called THEN << user, Sized("call", 1, n + 2, 0), Sized("tool", size, n + 3, n + 2),
                                      Sized("reply", 1, n + 4, 0) >>
                    ELSE << user, Sized("reply", size, n + 2, 0) >>
           IN  Whole(b) /\ (\A i \in DOMAIN b : b[i].kind \in PastKinds /\ b[i].at = n + i) /\ b[1].kind # "call"
<1> DEFINE u == Sized("user", 1, n + 1, 0)
           c == Sized("call", 1, n + 2, 0)
           t == Sized("tool", size, n + 3, n + 2)
           r == Sized("reply", 1, n + 4, 0)
           z == Sized("reply", size, n + 2, 0)
<1>1. /\ u \in Msg /\ u.kind = "user" /\ u.at = n + 1 /\ u.of = 0
      /\ c \in Msg /\ c.kind = "call" /\ c.at = n + 2 /\ c.of = 0
      /\ t \in Msg /\ t.kind = "tool" /\ t.at = n + 3 /\ t.of = n + 2
      /\ r \in Msg /\ r.kind = "reply" /\ r.at = n + 4 /\ r.of = 0
      /\ z \in Msg /\ z.kind = "reply" /\ z.at = n + 2 /\ z.of = 0
    BY DEF Sized, Msg, Kinds
<1> HIDE DEF u, c, t, r, z
<1>2. CASE called
    <2> DEFINE b == << u, c, t, r >>
    <2>1. /\ b \in Seq(Msg) /\ Len(b) = 4 /\ DOMAIN b = 1 .. 4
          /\ b[1] = u /\ b[2] = c /\ b[3] = t /\ b[4] = r
        BY <1>1
    <2> HIDE DEF b
    <2>2. \A i \in DOMAIN b : i = 1 \/ i = 2 \/ i = 3 \/ i = 4
        BY <2>1
    <2>3. Marked(b)
        BY <1>1, <2>1, <2>2 DEF Marked
    <2>4. Named(b)
        BY <1>1, <2>1, <2>2 DEF Named
    <2>5. Follows(b)
        <3> SUFFICES ASSUME NEW i \in DOMAIN b, b[i].kind = "tool"
                     PROVE \E d \in 1 .. (i - 1) : /\ b[d].kind = "call" /\ b[d].at = b[i].of
                                                   /\ \A j \in (d + 1) .. i : b[j].of = b[i].of
            BY DEF Follows
        <3>1. i = 3
            BY <1>1, <2>1, <2>2
        <3>2. 2 \in 1 .. (i - 1) /\ b[2].kind = "call" /\ b[2].at = b[i].of
            BY <1>1, <2>1, <3>1
        <3>3. \A j \in (2 + 1) .. i : b[j].of = b[i].of
            BY <3>1
        <3> QED BY <3>2, <3>3
    <2>6. Answered(b)
        BY <1>1, <2>1, <2>2 DEF Answered
    <2>7. \A i \in DOMAIN b : b[i].kind \in PastKinds /\ b[i].at = n + i
        BY <1>1, <2>1, <2>2 DEF PastKinds
    <2>8. Whole(b) /\ b[1].kind # "call"
        BY <1>1, <2>1, <2>3, <2>4, <2>5, <2>6 DEF Whole
    <2> QED BY <1>2, <2>7, <2>8 DEF b, u, c, t, r
<1>3. CASE ~ called
    <2> DEFINE b == << u, z >>
    <2>1. /\ b \in Seq(Msg) /\ Len(b) = 2 /\ DOMAIN b = 1 .. 2 /\ b[1] = u /\ b[2] = z
        BY <1>1
    <2> HIDE DEF b
    <2>2. \A i \in DOMAIN b : i = 1 \/ i = 2
        BY <2>1
    <2>3. \A i \in DOMAIN b : b[i].kind \notin {"call", "tool"} /\ b[i].of = 0
        BY <1>1, <2>1, <2>2
    <2>4. Whole(b)
        BY <2>1, <2>3, PlainIsWhole
    <2>5. \A i \in DOMAIN b : b[i].kind \in PastKinds /\ b[i].at = n + i
        BY <1>1, <2>1, <2>2 DEF PastKinds
    <2>6. b[1].kind # "call"
        BY <1>1, <2>1
    <2> QED BY <1>3, <2>4, <2>5, <2>6 DEF b, u, z
<1> QED BY <1>2, <1>3

\* The oldest turns give way to a summary.
LEMMA CompactPastIs ==
    ASSUME NEW segments, NEW tail, Session(segments, tail), NEW last \in DOMAIN tail,
           tail[last].kind = "reply", NEW size \in Nat
    PROVE  Session(Append(segments, Sized("summary", size, tail[last].at, 0)),
                   SubSeq(tail, last + 1, Len(tail)))
<1> DEFINE m == Sized("summary", size, tail[last].at, 0)
           a == Append(segments, m)
           r == SubSeq(tail, last + 1, Len(tail))
           L == Len(tail)
<1>1. Whole(tail) /\ tail \in Seq(Msg) /\ segments \in Seq(Msg) /\ DOMAIN tail = 1 .. L /\ L \in Nat /\ last \in Nat
    <2>1. Whole(tail) /\ tail \in Seq(Msg) /\ segments \in Seq(Msg)
        BY DEF Session, Whole, Summaries
    <2> QED BY <2>1
<1>2. m \in Msg /\ m.kind = "summary" /\ m.of = 0 /\ m.at = tail[last].at
    <2>1. tail[last].at \in Nat
        <3>1. \A x \in Msg : x.at \in Nat
            BY DEF Msg
        <3> QED BY <1>1, <3>1
    <2> DEFINE y == tail[last].at
    <2> HIDE DEF y
    <2>2. m = [kind |-> "summary", size |-> size, at |-> y, of |-> 0] /\ y \in Nat
        BY <2>1 DEF Sized, y
    <2> HIDE DEF m
    <2> QED BY <2>2 DEF Msg, Kinds, y
<1>3. ASSUME last + 1 \in DOMAIN tail, tail[last + 1].kind = "tool" PROVE FALSE
    <2>1. PICK c \in DOMAIN tail : /\ c < last + 1 /\ tail[c].kind = "call"
                                   /\ \A j \in (c + 1) .. (last + 1) : tail[j].kind = "tool"
        BY <1>1, <1>3, CallOf
    <2>2. CASE c = last
        BY <2>1, <2>2
    <2>3. CASE c # last
        <3>1. last \in (c + 1) .. (last + 1)
            BY <1>1, <2>1, <2>3
        <3> QED BY <2>1, <3>1
    <2> QED BY <2>2, <2>3
<1>4. Whole(r) /\ Len(r) = L - (last + 1) + 1 /\ \A n \in 1 .. (L - (last + 1) + 1) : r[n] = tail[last + 1 + n - 1]
    <2>1. last + 1 \in 1 .. (L + 1)
        BY <1>1
    <2> DEFINE k == last + 1
    <2>2. k \in 1 .. (Len(tail) + 1) /\ (k \in DOMAIN tail => tail[k].kind # "tool")
        BY <1>3, <2>1
    <2> HIDE DEF k
    <2>3. /\ Whole(SubSeq(tail, k, Len(tail))) /\ Len(SubSeq(tail, k, Len(tail))) = Len(tail) - k + 1
          /\ \A n \in 1 .. (Len(tail) - k + 1) : SubSeq(tail, k, Len(tail))[n] = tail[k + n - 1]
        BY <1>1, <2>2, TailIsWhole
    <2> QED BY <2>3 DEF k
<1> HIDE DEF r, m
<1>5. DOMAIN r = 1 .. (L - last) /\ \A n \in DOMAIN r : last + n \in DOMAIN tail /\ last + n > last /\ r[n] = tail[last + n]
    <2>1. r \in Seq(Msg)
        BY <1>4 DEF Whole
    <2>2. DOMAIN r = 1 .. (L - last)
        BY <1>1, <1>4, <2>1
    <2>3. ASSUME NEW n \in DOMAIN r PROVE last + n \in DOMAIN tail /\ last + n > last /\ r[n] = tail[last + n]
        <3>1. n \in 1 .. (L - (last + 1) + 1) /\ last + 1 + n - 1 = last + n /\ last + n \in 1 .. L /\ last + n > last
            BY <1>1, <2>2
        <3> QED BY <1>1, <1>4, <3>1
    <2> QED BY <2>2, <2>3
<1>6. /\ a \in Seq(Msg) /\ DOMAIN a = 1 .. (Len(segments) + 1) /\ Len(segments) \in Nat
      /\ \A i \in DOMAIN a : a[i] = m \/ (i \in DOMAIN segments /\ a[i] = segments[i])
    BY <1>1, <1>2
<1> HIDE DEF a, L
<1>7. Summaries(a)
    BY <1>2, <1>6 DEF Session, Summaries
<1>8. /\ \A i \in DOMAIN r : r[i].kind \in PastKinds
      /\ \A i \in DOMAIN r : r[i].kind = "call" => r[i].at # 1
    BY <1>5 DEF Session
<1>9. ASSUME NEW i \in DOMAIN r, NEW j \in DOMAIN r, i < j PROVE r[i].at < r[j].at
    <2>1. last + i < last + j
        BY <1>1, <1>5, <1>9
    <2> QED BY <1>5, <2>1 DEF Session
<1>10. ASSUME NEW i \in DOMAIN a, NEW j \in DOMAIN r PROVE a[i].at < r[j].at
    <2>1. CASE a[i] = m
        <3>1. tail[last].at < tail[last + j].at
            BY <1>5 DEF Session
        <3> QED BY <1>2, <1>5, <2>1, <3>1
    <2>2. CASE i \in DOMAIN segments /\ a[i] = segments[i]
        BY <1>5, <2>2 DEF Session
    <2> QED BY <1>6, <2>1, <2>2
<1>11. Session(a, r)
    BY <1>4, <1>7, <1>8, <1>9, <1>10 DEF Session
<1> QED BY <1>11 DEF a, r, m

-----------------------------------------------------------------------------
(* The request.                                                            *)

\* What is pinned are whole exchanges, and nothing else is critical.
LEMMA PinnedIs ==
    ASSUME NEW s, Whole(s)
    PROVE  /\ Pinned(s) \in SUBSET (DOMAIN s) /\ Closed(Pinned(s), s)
           /\ PinnedPriority(s) \in [DOMAIN s -> 1 .. 3]
           /\ Critical(s, PinnedPriority(s)) = Pinned(s)
<1> DEFINE P == Pinned(s)
           a == LastAt(s, {"user", "image"})
           f == LastAt(s, {"frame"})
           u == LastAt(s, {"user", "image", "frame"})
           pr == PinnedPriority(s)
<1>1. s \in Seq(Msg) /\ DOMAIN s = 1 .. Len(s) /\ Len(s) \in Nat
    BY DEF Whole
<1>2. \A i : i \in P <=> \/ i \in DOMAIN s /\ s[i].kind = "system"
                         \/ i \in LatestRound(s)
                         \/ i = a /\ a # 0
                         \/ i = f /\ f # 0
    <2>1. 0 \notin DOMAIN s /\ LatestRound(s) \in SUBSET (DOMAIN s)
        BY <1>1, RoundIs
    <2> QED BY <2>1 DEF Pinned, At
<1>3. /\ a # 0 => a \in DOMAIN s /\ s[a].kind \in {"user", "image"}
      /\ f # 0 => f \in DOMAIN s /\ s[f].kind = "frame"
      /\ u # 0 => u \in DOMAIN s /\ s[u].kind \in {"user", "image", "frame"}
    <2>1. a \in At(s, {"user", "image"}) \cup {0} /\ f \in At(s, {"frame"}) \cup {0}
        BY <1>1, LastAtIs
    <2>2. u \in At(s, {"user", "image", "frame"}) \cup {0}
        BY <1>1, LastAtIs
    <2> QED BY <2>1, <2>2 DEF At
<1>4. u # 0 => u = a \/ u = f
    <2> SUFFICES ASSUME u # 0 PROVE u = a \/ u = f
        OBVIOUS
    <2>1. a \in 0 .. Len(s) /\ f \in 0 .. Len(s) /\ u \in 0 .. Len(s)
        BY <1>1, LastAtIs
    <2>2. (a # 0 => a <= u) /\ (f # 0 => f <= u)
        <3>1. \A i \in At(s, {"user", "image", "frame"}) : i <= u
            BY <1>1, LastAtIs
        <3>2. (a # 0 => a \in At(s, {"user", "image", "frame"})) /\ (f # 0 => f \in At(s, {"user", "image", "frame"}))
            BY <1>3 DEF At
        <3> QED BY <3>1, <3>2
    <2>3. CASE s[u].kind \in {"user", "image"}
        <3>1. u \in At(s, {"user", "image"})
            BY <1>3, <2>3 DEF At
        <3>2. u <= a
            BY <1>1, <3>1, LastAtIs
        <3> QED BY <1>1, <2>1, <2>2, <3>2
    <2>4. CASE s[u].kind = "frame"
        <3>1. u \in At(s, {"frame"})
            BY <1>3, <2>4 DEF At
        <3>2. u <= f
            BY <1>1, <3>1, LastAtIs
        <3> QED BY <1>1, <2>1, <2>2, <3>2
    <2> QED BY <1>3, <2>3, <2>4
<1>5. Priority(s) \in [DOMAIN s -> 1 .. 3] /\ \A i \in DOMAIN s : Priority(s)[i] = 3 => i \in P
    <2>1. Priority(s) \in [DOMAIN s -> 1 .. 3]
        BY PriorityIs
    <2> HIDE DEF a, f, P
    <2>2. ASSUME NEW i \in DOMAIN s, Priority(s)[i] = 3 PROVE i \in P
        <3>1. i \in At(s, {"system"}) \cup {u}
            BY <2>2 DEF Priority
        <3>2. i # 0
            BY <1>1
        <3> QED BY <1>2, <1>4, <3>1, <3>2 DEF At
    <2> QED BY <2>1, <2>2
<1> HIDE DEF P, a, f, u
<1>6. P \in SUBSET (DOMAIN s)
    <2>1. LatestRound(s) \in SUBSET (DOMAIN s)
        BY RoundIs
    <2> QED BY <1>2, <1>3, <2>1
<1>7. Closed(P, s)
    <2> SUFFICES ASSUME NEW i \in P, NEW j \in Unit(s, i) PROVE j \in P
        BY DEF Closed
    <2>1. i \in DOMAIN s
        BY <1>6
    <2>2. CASE i \in LatestRound(s)
        <3> DEFINE c == LastAt(s, {"call"})
        <3>1. c # 0 /\ c \in DOMAIN s /\ LatestRound(s) = Unit(s, c)
            BY <2>2, RoundIs
        <3>2. Unit(s, i) = Unit(s, c)
            BY <2>2, <3>1, UnitIs
        <3> QED BY <1>2, <3>1, <3>2
    <2>3. CASE i \notin LatestRound(s)
        <3>1. s[i].kind \notin {"call", "tool"}
            BY <1>2, <1>3, <2>3
        <3>2. Unit(s, i) = {i}
            BY <2>1, <3>1, UnitIs
        <3> QED BY <3>2
    <2> QED BY <2>2, <2>3
<1>8. /\ pr \in [DOMAIN s -> 1 .. 3]
      /\ \A i \in DOMAIN s : pr[i] = 3 <=> i \in P
    <2>1. pr = [i \in DOMAIN s |-> IF i \in P THEN 3 ELSE Priority(s)[i]]
        BY DEF PinnedPriority, P
    <2> HIDE DEF pr
    <2>2. \A i \in DOMAIN s : Priority(s)[i] \in 1 .. 3 /\ 3 \in 1 .. 3
        BY <1>5
    <2>3. pr \in [DOMAIN s -> 1 .. 3]
        BY <2>1, <2>2
    <2>4. \A i \in DOMAIN s : pr[i] = IF i \in P THEN 3 ELSE Priority(s)[i]
        BY <2>1
    <2>5. \A i \in DOMAIN s : pr[i] = 3 <=> i \in P
        BY <1>5, <2>4
    <2> QED BY <2>3, <2>5
<1> HIDE DEF pr
<1>9. Critical(s, pr) = P
    <2>1. ASSUME NEW i \in DOMAIN s, Weight(s, pr, i) = 3 PROVE i \in P
        <3>1. PICK j \in Unit(s, i) : pr[j] = 3
            BY <1>8, <2>1, WeightIs
        <3>2. j \in DOMAIN s /\ i \in Unit(s, j)
            <4>1. i \in Unit(s, i) /\ Unit(s, i) \subseteq DOMAIN s /\ Unit(s, j) = Unit(s, i)
                BY UnitIs
            <4> QED BY <4>1
        <3> QED BY <1>7, <1>8, <3>1, <3>2 DEF Closed
    <2>2. ASSUME NEW i \in P PROVE i \in DOMAIN s /\ Weight(s, pr, i) = 3
        <3>1. i \in DOMAIN s /\ pr[i] = 3 /\ i \in Unit(s, i)
            BY <1>6, <1>8, UnitIs
        <3>2. Weight(s, pr, i) \in 1 .. 3 /\ pr[i] <= Weight(s, pr, i)
            BY <1>8, <3>1, WeightIs
        <3> QED BY <3>1, <3>2
    <2> QED BY <2>1, <2>2 DEF Critical
<1> QED BY <1>6, <1>7, <1>8, <1>9 DEF P, pr

\* A message that is kept is in what is left.
LEMMA OnlyRange ==
    ASSUME NEW s \in Seq(Msg), NEW keep \in SUBSET (DOMAIN s), NEW less \in SUBSET keep
    PROVE  Range(Only(s, less)) \subseteq Range(Only(s, keep))
<1> DEFINE a == Only(s, less)
           b == Only(s, keep)
           d == Ascending(less)
           e == Ascending(keep)
<1>1. \A n \in DOMAIN a : d[n] \in less /\ a[n] = s[d[n]]
    BY OnlyEmbeds
<1>2. (\A n \in DOMAIN b : b[n] = s[e[n]]) /\ \A k \in keep : \E n \in DOMAIN b : e[n] = k
    BY OnlyEmbeds
<1> HIDE DEF a, b, d, e
<1>3. ASSUME NEW n \in DOMAIN a PROVE \E m \in DOMAIN b : b[m] = a[n]
    <2>1. PICK m \in DOMAIN b : e[m] = d[n]
        BY <1>1, <1>2
    <2> QED BY <1>1, <1>2, <2>1
<1>4. Range(a) \subseteq Range(b)
    BY <1>3 DEF Range
<1> QED BY <1>4 DEF a, b

\* modelRequestBudget.fit keeps exchanges whole and what is pinned, and what
\* it returns fits unless nothing but what is pinned is left.
LEMMA FitRequestIs ==
    ASSUME NEW s, Whole(s), NEW tools \in SUBSET Tool
    PROVE  LET r == FitRequest(s, tools) IN
           /\ Whole(r) /\ Range(Only(s, Pinned(s))) \subseteq Range(r)
           /\ \/ Cost(r) + SchemaCost(tools) <= Window
              \/ Cost(r) = Cost(Only(s, Pinned(s)))
<1> DEFINE P == Pinned(s)
           pr == PinnedPriority(s)
           c == SchemaCost(tools)
           r == FitRequest(s, tools)
<1>1. s \in Seq(Msg)
    BY DEF Whole
<1>2. /\ P \in SUBSET (DOMAIN s) /\ Closed(P, s)
      /\ pr \in [DOMAIN s -> 1 .. 3] /\ Critical(s, pr) = P
    BY PinnedIs
<1>3. c \in Nat /\ Window \in Nat
    BY SchemaCostIs, FitAssumption
<1>4. r = IF Cost(s) + c <= Window THEN s ELSE Fit(s, pr, Window - c)
    BY DEF FitRequest
<1> HIDE DEF P, pr, c, r
<1>5. CASE Cost(s) + c <= Window
    <2>1. r = s /\ Only(s, DOMAIN s) = s
        BY <1>1, <1>4, <1>5, OnlyAll
    <2>2. Range(Only(s, P)) \subseteq Range(Only(s, DOMAIN s))
        BY <1>1, <1>2, OnlyRange
    <2> QED BY <1>5, <2>1, <2>2 DEF P, c, r
<1>6. CASE ~ (Cost(s) + c <= Window)
    <2>1. Window - c \in Int
        BY <1>3
    <2>2. PICK K \in SUBSET (DOMAIN s) :
              /\ Fit(s, pr, Window - c) = Only(s, K) /\ Kept(s, pr, K)
              /\ Cost(Only(s, K)) <= Window - c \/ K = Critical(s, pr)
        BY <1>2, <2>1, FitIs
    <2>3. r = Only(s, K) /\ Closed(K, s)
        BY <1>4, <1>6, <2>2 DEF Kept
    <2>4. P \subseteq K
        BY <1>2, <2>2 DEF Kept, Critical
    <2>5. Whole(r)
        BY <2>3, OnlyIsWhole
    <2>6. Range(Only(s, P)) \subseteq Range(r)
        BY <1>1, <2>3, <2>4, OnlyRange
    <2>7. r \in Seq(Msg)
        BY <2>5 DEF Whole
    <2>8. Cost(r) \in Nat
        BY <2>7, CostIs
    <2>9. Cost(r) + c <= Window \/ r = Only(s, P)
        BY <1>2, <1>3, <2>2, <2>3, <2>8
    <2> QED BY <2>5, <2>6, <2>9 DEF P, c, r
<1> QED BY <1>5, <1>6

\* What selectRequestTools returns: nothing if what is required does not fit,
\* else what is required, within what is available.
LEMMA SelectionsAre ==
    ASSUME NEW s, Whole(s), NEW asked \in SUBSET Tool, NEW tools \in Selections(s, asked)
    PROVE  /\ Available(s) \in Int /\ tools \in SUBSET Tool
           /\ \/ tools = {} /\ (Available(s) <= 0 \/ SchemaCost(asked) > Available(s))
              \/ /\ asked \subseteq tools /\ SchemaCost(tools) <= Available(s)
                 /\ tools = {} => \A t \in Tool : ToolCost[t] > Min({Window \div 3, Available(s)})
<1> DEFINE v == Available(s)
           d == Window \div 3
           q == SchemaCost(asked)
           limit == Max({q, Min({d, v})})
<1>1. v \in Int
    <2>1. Only(s, Pinned(s)) \in Seq(Msg)
        <3>1. s \in Seq(Msg) /\ Pinned(s) \in SUBSET (DOMAIN s)
            BY PinnedIs DEF Whole
        <3> QED BY <3>1, OnlyEmbeds
    <2>2. Cost(Only(s, Pinned(s))) \in Nat /\ Window \in Nat
        BY <2>1, CostIs, FitAssumption
    <2> QED BY <2>2 DEF Available
<1>2. q \in Nat /\ SchemaCost({}) = 0
    BY SchemaCostIs
<1>3. d \in Int
    <2>1. Window \in Nat
        BY FitAssumption
    <2> QED BY <2>1
<1>4. Selections(s, asked) = IF v <= 0 \/ q > v THEN {{}}
          ELSE {chosen \in SUBSET Tool :
                  /\ asked \subseteq chosen
                  /\ SchemaCost(chosen) <= limit
                  /\ \A t \in Tool \ chosen : SchemaCost(chosen) + ToolCost[t] > limit}
    BY DEF Selections, SchemaLimit
<1> HIDE DEF d, v, q
<1>5. CASE v <= 0 \/ q > v
    BY <1>1, <1>4, <1>5 DEF v, q
<1>6. CASE ~ (v <= 0 \/ q > v)
    <2> DEFINE least == Min({d, v})
    <2>1. least \in {d, v} /\ least <= v
        BY <1>1, <1>3, PairIs
    <2>2. least \in Int
        BY <1>1, <1>3, <2>1
    <2>3. limit \in {q, least} /\ least <= limit
        <3> HIDE DEF least
        <3>1. q \in Int
            BY <1>2
        <3>2. Max({q, least}) \in {q, least} /\ least <= Max({q, least})
            BY <2>2, <3>1, PairIs
        <3> QED BY <3>2 DEF least
    <2>4. /\ tools \in SUBSET Tool /\ asked \subseteq tools /\ SchemaCost(tools) <= limit
          /\ \A t \in Tool \ tools : SchemaCost(tools) + ToolCost[t] > limit
        <3> HIDE DEF limit
        <3> QED BY <1>4, <1>6
    <2> HIDE DEF least, limit
    <2>5. SchemaCost(tools) \in Nat
        BY <2>4, SchemaCostIs
    <2>6. limit \in Int /\ limit <= v
        BY <1>1, <1>2, <1>6, <2>1, <2>2, <2>3
    <2>7. SchemaCost(tools) <= v
        BY <1>1, <2>4, <2>5, <2>6
    <2>8. ASSUME tools = {}, NEW t \in Tool PROVE ToolCost[t] > least
        <3>1. ToolCost[t] \in Nat
            BY FitAssumption
        <3>2. 0 + ToolCost[t] > limit
            BY <1>2, <2>4, <2>8
        <3> QED BY <2>2, <2>3, <2>6, <3>1, <3>2
    <2> QED BY <1>1, <2>4, <2>7, <2>8 DEF v, q, least, d
<1> QED BY <1>5, <1>6

\* A request that can be sent is sent.
LEMMA RequestIs ==
    ASSUME NEW s, Whole(s), NEW asked \in SUBSET Tool, NEW tools \in Selections(s, asked)
    PROVE  LET sent == FitRequest(s, tools) IN
           /\ tools \in SUBSET Tool /\ Whole(sent)
           /\ (tools = {} /\ Tool # {}) \/ Cost(sent) + SchemaCost(tools) > Window =>
                \/ Available(s) <= 0
                \/ SchemaCost(asked) > Available(s)
                \/ asked = {} /\ \A t \in Tool : ToolCost[t] > Min({Window \div 3, Available(s)})
           /\ ~ ((tools = {} /\ Tool # {}) \/ Cost(sent) + SchemaCost(tools) > Window) =>
                asked \subseteq tools /\ Range(Only(s, Pinned(s))) \subseteq Range(sent)
<1> DEFINE sent == FitRequest(s, tools)
           v == Available(s)
           q == SchemaCost(asked)
           c == SchemaCost(tools)
           none == \A t \in Tool : ToolCost[t] > Min({Window \div 3, Available(s)})
<1>1. /\ v \in Int /\ tools \in SUBSET Tool
      /\ \/ tools = {} /\ (v <= 0 \/ q > v)
         \/ asked \subseteq tools /\ c <= v /\ (tools = {} => none)
    BY SelectionsAre
<1>2. /\ Whole(sent) /\ Range(Only(s, Pinned(s))) \subseteq Range(sent)
      /\ Cost(sent) + c <= Window \/ Cost(sent) = Cost(Only(s, Pinned(s)))
    BY <1>1, FitRequestIs
<1>3. v = Window - Cost(Only(s, Pinned(s))) /\ Window \in Nat
    BY FitAssumption DEF Available
<1>4. c \in Nat
    BY <1>1, SchemaCostIs
<1>5. Cost(sent) \in Nat
    BY <1>2, CostIs DEF Whole
<1> DEFINE over == Cost(sent) + c > Window
<1>6. over => ~ (c <= v)
    <2> DEFINE x == Cost(sent)
               y == Cost(Only(s, Pinned(s)))
    <2>1. x \in Nat /\ c \in Nat /\ Window \in Nat /\ v = Window - y /\ (x + c <= Window \/ x = y)
        BY <1>2, <1>3, <1>4, <1>5
    <2> SUFFICES ASSUME x + c > Window PROVE ~ (c <= v)
        OBVIOUS
    <2> HIDE DEF x, y, c, v
    <2> QED BY <2>1
<1> HIDE DEF over, none, v, q, c
<1>7. (tools = {} /\ Tool # {}) \/ over => v <= 0 \/ q > v \/ (asked = {} /\ none)
    <2>1. CASE tools = {} /\ (v <= 0 \/ q > v)
        BY <2>1
    <2>2. CASE asked \subseteq tools /\ c <= v /\ (tools = {} => none)
        BY <1>6, <2>2
    <2> QED BY <1>1, <2>1, <2>2
<1>8. ~ ((tools = {} /\ Tool # {}) \/ over) => asked \subseteq tools
    BY <1>1
<1> QED BY <1>1, <1>2, <1>7, <1>8 DEF over, none, v, q, c

-----------------------------------------------------------------------------
(* The turn.                                                               *)

\* A list of one message.
LEMMA OneIs ==
    ASSUME NEW m \in Msg
    PROVE  << m >> \in Seq(Msg) /\ Len(<< m >>) = 1 /\ DOMAIN << m >> = 1 .. 1 /\ << m >>[1] = m
OBVIOUS

\* Instructions, whole exchanges and the user's message are a conversation.
LEMMA PlannedIs ==
    ASSUME NEW h, Whole(h), NEW n \in Nat,
           \A i \in DOMAIN h : h[i].kind \in PastKinds \cup {"summary"},
           \A i \in DOMAIN h : h[i].kind = "call" => h[i].at <= n
    PROVE  LET s == << Sized("system", 1, 0, 0) >> \o h \o << Sized("user", 1, n + 1, 0) >> IN
           /\ Conversation(s) /\ Instructed(s) /\ Len(s) \in DOMAIN s
           /\ \A i \in DOMAIN s : s[i].kind \notin {"image", "frame"}
           /\ s[Len(s)].kind = "user" /\ s[Len(s)].at = n + 1
<1> DEFINE y == Sized("system", 1, 0, 0)
           u == Sized("user", 1, n + 1, 0)
           a == << y >>
           b == << u >>
           ah == a \o h
           s == ah \o b
           N == Len(h)
<1>1. /\ y \in Msg /\ y.kind = "system" /\ y.at = 0 /\ y.of = 0
      /\ u \in Msg /\ u.kind = "user" /\ u.at = n + 1 /\ u.of = 0
    BY DEF Sized, Msg, Kinds
<1> HIDE DEF y, u
<1>2. /\ a \in Seq(Msg) /\ Len(a) = 1 /\ DOMAIN a = 1 .. 1 /\ a[1] = y
      /\ b \in Seq(Msg) /\ Len(b) = 1 /\ DOMAIN b = 1 .. 1 /\ b[1] = u
    BY <1>1, OneIs
<1>3. h \in Seq(Msg) /\ N \in Nat /\ DOMAIN h = 1 .. N
    BY DEF Whole
<1> HIDE DEF a, b, N
<1>4. Whole(a) /\ Whole(b)
    <2>1. \A i \in DOMAIN a : i = 1
        BY <1>2
    <2>2. \A i \in DOMAIN b : i = 1
        BY <1>2
    <2>3. \A i \in DOMAIN a : a[i].kind \notin {"call", "tool"} /\ a[i].of = 0
        BY <1>1, <1>2, <2>1
    <2>4. \A i \in DOMAIN b : b[i].kind \notin {"call", "tool"} /\ b[i].of = 0
        BY <1>1, <1>2, <2>2
    <2> QED BY <1>2, <2>3, <2>4, PlainIsWhole
<1>5. Joined(ah, a, h)
    BY <1>2, <1>3, ConcatIsJoined
<1>6. ah \in Seq(Msg)
    BY <1>5 DEF Joined
<1>7. Joined(s, ah, b)
    BY <1>2, <1>6, ConcatIsJoined
<1> HIDE DEF ah, s
<1>8. /\ DOMAIN ah = 1 .. (1 + N) /\ Len(ah) = 1 + N
      /\ \A i \in DOMAIN ah : (i = 1 /\ ah[i] = y) \/ \E j \in DOMAIN h : ah[i] = h[j]
    <2>1. DOMAIN ah = 1 .. (1 + N)
        <3>1. DOMAIN ah = 1 .. (Len(a) + Len(h))
            BY <1>2, <1>3, <1>5, JoinedParts
        <3> QED BY <1>2, <3>1 DEF N
    <2>2. Len(ah) = 1 + N
        BY <1>2, <1>5 DEF Joined, N
    <2>3. \A i \in DOMAIN ah : \/ i \in DOMAIN a /\ ah[i] = a[i]
                               \/ i > Len(a) /\ i - Len(a) \in DOMAIN h /\ ah[i] = h[i - Len(a)]
        <3>1. a \in Seq(Msg) /\ h \in Seq(Msg)
            BY <1>2, <1>3
        <3> QED BY <1>5, <3>1, JoinedParts
    <2>4. \A i \in DOMAIN a : i = 1
        BY <1>2
    <2> QED BY <1>2, <2>1, <2>2, <2>3, <2>4
<1>9. Whole(ah)
    <2>1. \A i \in DOMAIN a : i = 1
        BY <1>2
    <2>2. \A i \in DOMAIN a, j \in DOMAIN h :
             a[i].kind = "call" \/ h[j].kind = "call" => a[i].at # h[j].at
        BY <1>1, <1>2, <2>1 DEF Whole, Marked
    <2> QED BY <1>4, <1>5, <2>2, JoinedIsWhole
<1>10. Whole(s)
    <2>1. \A i \in DOMAIN b : i = 1
        BY <1>2
    <2>2. ASSUME NEW i \in DOMAIN ah, NEW j \in DOMAIN b, ah[i].kind = "call" \/ b[j].kind = "call"
          PROVE  ah[i].at # b[j].at
        <3>1. b[j] = u /\ ah[i].kind = "call"
            BY <1>1, <1>2, <2>1, <2>2
        <3>2. PICK k \in DOMAIN h : ah[i] = h[k]
            BY <1>1, <1>8, <3>1
        <3>3. h[k].at <= n /\ h[k] \in Msg
            BY <1>3, <3>1, <3>2
        <3>4. h[k].at \in Nat
            BY <3>3 DEF Msg
        <3> DEFINE z == h[k].at
        <3>5. z # n + 1
            <4>1. z \in Nat /\ z <= n
                BY <3>3, <3>4
            <4> HIDE DEF z
            <4> QED BY <4>1
        <3> QED BY <1>1, <3>1, <3>2, <3>5
    <2> QED BY <1>4, <1>7, <1>9, <2>2, JoinedIsWhole
<1>11. /\ DOMAIN s = 1 .. (N + 2) /\ Len(s) = N + 2
       /\ s[N + 2] = u /\ s[1] = y
       /\ \A i \in DOMAIN s : (i = 1 /\ s[i] = y) \/ s[i] = u \/ \E j \in DOMAIN h : s[i] = h[j]
    <2>1. (1 + N) + 1 = N + 2
        BY <1>3
    <2>2. DOMAIN s = 1 .. (N + 2) /\ Len(s) = N + 2
        BY <1>2, <1>6, <1>7, <1>8, <2>1, JoinedParts DEF Joined
    <2>3. \A i \in DOMAIN s : \/ i \in DOMAIN ah /\ s[i] = ah[i]
                              \/ i > Len(ah) /\ i - Len(ah) \in DOMAIN b /\ s[i] = b[i - Len(ah)]
        BY <1>2, <1>6, <1>7, JoinedParts
    <2>4. \A i \in DOMAIN b : b[i] = u
        BY <1>2
    <2>5. \A i \in DOMAIN s : (i = 1 /\ s[i] = y) \/ s[i] = u \/ \E j \in DOMAIN h : s[i] = h[j]
        BY <1>8, <2>3, <2>4
    <2>6. N + 2 \in DOMAIN s /\ N + 2 \notin DOMAIN ah
        BY <1>3, <1>8, <2>2
    <2>7. s[N + 2] = u
        BY <2>3, <2>4, <2>6
    <2>8. s[1] = y
        <3>1. 1 \in DOMAIN a /\ 1 \in DOMAIN ah
            BY <1>2, <1>3, <1>8
        <3>2. ah[1] = a[1]
            BY <1>2, <1>3, <1>5, <3>1, JoinedParts
        <3>3. s[1] = ah[1]
            BY <1>2, <1>6, <1>7, <3>1, JoinedParts
        <3> QED BY <1>2, <3>2, <3>3
    <2> QED BY <2>2, <2>5, <2>7, <2>8
<1>12. \A i \in DOMAIN s : s[i].kind \notin {"image", "frame"} /\ (s[i].kind = "system" => i = 1)
    <2>1. \A j \in DOMAIN h : h[j].kind \notin {"image", "frame", "system"}
        BY DEF PastKinds
    <2> QED BY <1>1, <1>11, <2>1
<1>13. 1 \in DOMAIN s /\ Len(s) \in DOMAIN s
    BY <1>3, <1>11
<1>14. Conversation(s) /\ Instructed(s)
    BY <1>1, <1>10, <1>11, <1>12, <1>13 DEF Conversation, Instructed
<1>15. s[Len(s)].kind = "user" /\ s[Len(s)].at = n + 1
    BY <1>1, <1>11
<1> QED BY <1>12, <1>13, <1>14, <1>15 DEF s, ah, a, b, y, u

\* What a turn starts from.
LEMMA BuildInputIs ==
    ASSUME NEW segments, NEW tail, Session(segments, tail), NEW recent \in 0 .. 1,
           NEW kind \in {"user", "image"}, NEW size \in Nat, NEW n,
           n = Max({m.at : m \in Range(segments \o tail)} \cup {0})
    PROVE  LET fitted == FitWindow(<< Sized("system", 1, 0, 0) >>
                                   \o BuildHistory(segments, tail, recent)
                                   \o << Sized("user", 1, n + 1, 0) >>)
               p == Append(Front(fitted), Sized(kind, size, n + 1, 0))
           IN  Conversation(p) /\ Instructed(p)
<1> DEFINE h == BuildHistory(segments, tail, recent)
           s == << Sized("system", 1, 0, 0) >> \o h \o << Sized("user", 1, n + 1, 0) >>
           r == FitWindow(s)
           m == Sized(kind, size, n + 1, 0)
<1>1. segments \in Seq(Msg) /\ tail \in Seq(Msg)
    BY DEF Session, Summaries, Whole
<1>2. n \in Nat /\ \A i \in DOMAIN tail : tail[i].at <= n
    BY <1>1, SaidIs
<1>3. /\ Whole(h) /\ \A i \in DOMAIN h : h[i].kind \in PastKinds \cup {"summary"}
      /\ \A i \in DOMAIN h : h[i].kind = "call" => \E j \in DOMAIN tail : tail[j].kind = "call" /\ tail[j].at = h[i].at
    BY BuildHistoryIs
<1> HIDE DEF h
<1>4. \A i \in DOMAIN h : h[i].kind = "call" => h[i].at <= n
    BY <1>2, <1>3
<1>5. /\ Conversation(s) /\ Instructed(s) /\ Len(s) \in DOMAIN s
      /\ \A i \in DOMAIN s : s[i].kind \notin {"image", "frame"}
      /\ s[Len(s)].kind = "user" /\ s[Len(s)].at = n + 1
    BY <1>2, <1>3, <1>4, PlannedIs
<1> HIDE DEF s
<1>6. /\ Conversation(r) /\ Instructed(r) /\ Len(r) \in DOMAIN r
      /\ r[Len(r)].kind = "user" /\ r[Len(r)].at = n + 1
      /\ \A i \in DOMAIN r : r[i].kind # "image"
    BY <1>5, LatestIsKept
<1> HIDE DEF r
<1>7. m \in Msg /\ m.kind \in {"user", "image"} /\ m.of = 0 /\ m.at = n + 1
    <2>1. n + 1 \in Nat /\ kind \in Kinds
        BY <1>2 DEF Kinds
    <2> DEFINE k == n + 1
    <2> HIDE DEF k
    <2>2. m = [kind |-> kind, size |-> size, at |-> k, of |-> 0] /\ k \in Nat
        BY <2>1 DEF Sized, k
    <2> HIDE DEF m
    <2> QED BY <2>1, <2>2 DEF Msg, k
<1> HIDE DEF m
<1>8. Conversation(Append(Front(r), m)) /\ Instructed(Append(Front(r), m))
    BY <1>6, <1>7, QuestionIs
<1> QED BY <1>8 DEF r, m, s, h

-----------------------------------------------------------------------------
(* The invariant.                                                          *)

\* The session's history is whole and in order; what the turn has made of it is
\* a conversation with its instructions; the request is whole.
FitInv ==
    /\ stage \in {"session", "ready", "asked", "refused"}
    /\ offered \subseteq Tool /\ demanded \subseteq Tool /\ rounds \in 0 .. MaxToolRounds
    /\ Session(archived, past) /\ messages \in Seq(Msg) /\ Whole(prompt)
    /\ stage # "session" => Conversation(messages) /\ Instructed(messages)
    /\ RefusedOnlyForWhatIsPinned

\* No message at all.
LEMMA NothingIsWhole == Whole(<< >>) /\ Session(<< >>, << >>) /\ << >> \in Seq(Msg)
<1>1. << >> \in Seq(Msg) /\ DOMAIN << >> = {}
    OBVIOUS
<1>2. Whole(<< >>)
    BY <1>1, PlainIsWhole
<1> QED BY <1>1, <1>2 DEF Session, Summaries

\* It holds of a new session.
LEMMA FitInitKeeps == ASSUME FitInit PROVE FitInv
<1>1. RefusedOnlyForWhatIsPinned
    BY DEF FitInit, RefusedOnlyForWhatIsPinned
<1>2. rounds \in 0 .. MaxToolRounds
    BY FitAssumption DEF FitInit
<1> QED BY <1>1, <1>2, NothingIsWhole DEF FitInit, FitInv

\* The places of the session's messages.
LEMMA SessionSaid ==
    ASSUME FitInv
    PROVE  /\ Said \in Nat
           /\ (\A i \in DOMAIN archived : archived[i].at <= Said) /\ \A i \in DOMAIN past : past[i].at <= Said
<1>1. archived \in Seq(Msg) /\ past \in Seq(Msg)
    BY DEF FitInv, Session, Summaries, Whole
<1> QED BY <1>1, SaidIs DEF Said

\* A turn of the session.
LEMMA PastTurnKeeps ==
    ASSUME FitInv, NEW size \in Nat, NEW called \in BOOLEAN, PastTurn(size, called)
    PROVE  FitInv'
<1> DEFINE n == Said
           user == Sized("user", 1, n + 1, 0)
           b == IF called THEN << user, Sized("call", 1, n + 2, 0), Sized("tool", size, n + 3, n + 2),
                                  Sized("reply", 1, n + 4, 0) >>
                ELSE << user, Sized("reply", size, n + 2, 0) >>
<1>1. /\ n \in Nat
      /\ (\A i \in DOMAIN archived : archived[i].at <= n) /\ \A i \in DOMAIN past : past[i].at <= n
    BY SessionSaid
<1>2. past' = past \o b /\ stage = "session" /\ UNCHANGED << stage, archived, messages, prompt, offered, demanded, rounds >>
    BY DEF PastTurn
<1> HIDE DEF n
<1>3. Whole(b) /\ (\A i \in DOMAIN b : b[i].kind \in PastKinds /\ b[i].at = n + i) /\ b[1].kind # "call"
    BY <1>1, PastTurnIs
<1> HIDE DEF b
<1>4. Session(archived, past \o b)
    BY <1>1, <1>3, TurnJoins DEF FitInv
<1>5. Session(archived, past)'
    BY <1>2, <1>4
<1>6. RefusedOnlyForWhatIsPinned'
    BY <1>2 DEF RefusedOnlyForWhatIsPinned
<1> QED BY <1>2, <1>5, <1>6 DEF FitInv

\* Compaction of its oldest turns.
LEMMA CompactPastKeeps ==
    ASSUME FitInv, NEW size \in Nat, CompactPast(size)
    PROVE  FitInv'
<1>1. PICK last \in DOMAIN past :
       /\ past[last].kind = "reply"
       /\ archived' = Append(archived, Sized("summary", size, past[last].at, 0))
       /\ past' = SubSeq(past, last + 1, Len(past))
    BY DEF CompactPast
<1>2. stage = "session" /\ UNCHANGED << stage, messages, prompt, offered, demanded, rounds >>
    BY DEF CompactPast
<1>3. Session(Append(archived, Sized("summary", size, past[last].at, 0)), SubSeq(past, last + 1, Len(past)))
    BY <1>1, CompactPastIs DEF FitInv
<1>4. Session(archived, past)'
    BY <1>1, <1>3
<1>5. RefusedOnlyForWhatIsPinned'
    BY <1>2 DEF RefusedOnlyForWhatIsPinned
<1> QED BY <1>2, <1>4, <1>5 DEF FitInv

\* The start of the turn.
LEMMA BuildInputKeeps ==
    ASSUME FitInv, NEW kind \in {"user", "image"}, NEW size \in Nat, NEW recent \in 0 .. 1,
           BuildInput(kind, size, recent)
    PROVE  FitInv'
<1> DEFINE n == Said
           fitted == FitWindow(<< Sized("system", 1, 0, 0) >>
                               \o BuildHistory(archived, past, recent)
                               \o << Sized("user", 1, n + 1, 0) >>)
           p == Append(Front(fitted), Sized(kind, size, n + 1, 0))
<1>1. /\ messages' = p /\ stage' = "ready" /\ archived' = << >> /\ past' = << >>
      /\ UNCHANGED << prompt, offered, demanded, rounds >>
    BY DEF BuildInput
<1>2. n = Max({m.at : m \in Range(archived \o past)} \cup {0})
    BY DEF Said
<1> HIDE DEF n
<1>3. Conversation(p) /\ Instructed(p)
    BY <1>2, BuildInputIs DEF FitInv
<1> HIDE DEF p
<1>4. Conversation(messages)' /\ Instructed(messages)' /\ messages' \in Seq(Msg)
    BY <1>1, <1>3 DEF Conversation, Whole
<1>5. Session(archived, past)'
    BY <1>1, NothingIsWhole
<1>6. RefusedOnlyForWhatIsPinned'
    BY <1>1 DEF RefusedOnlyForWhatIsPinned
<1> QED BY <1>1, <1>4, <1>5, <1>6 DEF FitInv

\* A request.
LEMMA RequestKeeps ==
    ASSUME FitInv, NEW asked \in SUBSET Tool, PrepareModelRequest(asked)
    PROVE  FitInv'
<1>1. stage = "ready" /\ demanded' = asked /\ UNCHANGED << archived, past, messages, rounds >>
    BY DEF PrepareModelRequest
<1>2. PICK tools \in Selections(messages, asked) :
        LET sent == FitRequest(messages, tools)
        IN IF (tools = {} /\ Tool # {}) \/ Cost(sent) + SchemaCost(tools) > Window
           THEN stage' = "refused" /\ UNCHANGED << prompt, offered >>
           ELSE stage' = "asked" /\ prompt' = sent /\ offered' = tools
    BY DEF PrepareModelRequest
<1> DEFINE sent == FitRequest(messages, tools)
           over == (tools = {} /\ Tool # {}) \/ Cost(sent) + SchemaCost(tools) > Window
<1>3. Conversation(messages) /\ Instructed(messages) /\ Whole(messages)
    BY <1>1 DEF FitInv, Conversation
<1>4. /\ tools \in SUBSET Tool /\ Whole(sent)
      /\ over => \/ Available(messages) <= 0
                 \/ SchemaCost(asked) > Available(messages)
                 \/ asked = {} /\ \A t \in Tool : ToolCost[t] > Min({Window \div 3, Available(messages)})
      /\ ~ over => asked \subseteq tools /\ Range(Only(messages, Pinned(messages))) \subseteq Range(sent)
    BY <1>3, RequestIs
<1>5. \/ over /\ stage' = "refused" /\ prompt' = prompt /\ offered' = offered
      \/ ~ over /\ stage' = "asked" /\ prompt' = sent /\ offered' = tools
    BY <1>2
<1> HIDE DEF over, sent
<1>6. RefusedOnlyForWhatIsPinned'
    BY <1>1, <1>4, <1>5 DEF RefusedOnlyForWhatIsPinned
<1>7. Whole(prompt)' /\ (offered \subseteq Tool)' /\ (stage \in {"session", "ready", "asked", "refused"})'
    BY <1>4, <1>5 DEF FitInv
<1>8. (demanded \subseteq Tool)' /\ (rounds \in 0 .. MaxToolRounds)' /\ Session(archived, past)' /\ (messages \in Seq(Msg))'
    BY <1>1 DEF FitInv
<1>9. Conversation(messages)' /\ Instructed(messages)'
    BY <1>1, <1>3
<1> QED BY <1>6, <1>7, <1>8, <1>9 DEF FitInv

\* A round of tool calls, one result or two.
LEMMA ToolRoundKeeps ==
    ASSUME FitInv, NEW sizes \in Seq(Nat), Len(sizes) >= 1, NEW extra \in {"none", "frame"}, ToolRound(sizes, extra)
    PROVE  FitInv'
<1> DEFINE next == 1 + Max({messages[i].at : i \in DOMAIN messages})
           results == [k \in DOMAIN sizes |-> Sized("tool", sizes[k], next + k, next)]
           seen == IF extra = "none" THEN << >> ELSE << Sized(extra, 1, next + Len(sizes) + 1, 0) >>
           s == WithoutFrames(messages)
           r == FitWindow(s \o << Sized("call", 1, next, 0) >> \o results \o seen)
<1>1. /\ stage = "asked" /\ rounds < MaxToolRounds /\ stage' = "ready" /\ rounds' = rounds + 1
      /\ prompt' = << >> /\ offered' = {} /\ demanded' = {} /\ UNCHANGED << archived, past >>
    BY DEF ToolRound
<1>2. messages' = r
    BY DEF ToolRound
<1>3. Conversation(messages) /\ Instructed(messages) /\ messages \in Seq(Msg)
    BY <1>1 DEF FitInv
<1>4. next \in Nat /\ next # 0 /\ \A i \in DOMAIN messages : messages[i].at < next
    <2>1. messages # << >>
        BY <1>3 DEF Instructed
    <2> DEFINE M == Max({messages[i].at : i \in DOMAIN messages})
    <2>2. M \in Nat /\ \A i \in DOMAIN messages : messages[i].at <= M
        BY <1>3, <2>1, HighestIs
    <2>3. \A i \in DOMAIN messages : messages[i].at \in Nat
        <3>1. \A m \in Msg : m.at \in Nat
            BY DEF Msg
        <3> QED BY <1>3, <3>1
    <2> HIDE DEF M
    <2>4. \A i \in DOMAIN messages : messages[i].at < 1 + M
        BY <2>2, <2>3
    <2> QED BY <2>2, <2>4 DEF M
<1>14. Conversation(s) /\ Instructed(s) /\ \A i \in DOMAIN s : \E j \in DOMAIN messages : s[i] = messages[j]
    BY <1>3, WithoutFramesIs
<1> HIDE DEF s
<1> DEFINE N == Len(sizes)
<1>5. N \in Nat /\ DOMAIN sizes = 1 .. N /\ \A k \in 1 .. N : sizes[k] \in Nat
    OBVIOUS
<1>6. /\ results \in Seq(Msg) /\ Len(results) = N /\ DOMAIN results = 1 .. N
      /\ \A k \in DOMAIN results : results[k] = Sized("tool", results[k].size, next + k, next)
    <2> HIDE DEF next
    <2>1. ASSUME NEW k \in DOMAIN sizes
          PROVE  /\ Sized("tool", sizes[k], next + k, next) \in Msg
                 /\ Sized("tool", sizes[k], next + k, next).size = sizes[k]
        <3> DEFINE a == next + k
                   z == sizes[k]
        <3>1. a \in Nat /\ z \in Nat /\ next \in Nat
            BY <1>4, <1>5
        <3> HIDE DEF a, z
        <3>2. Sized("tool", z, a, next) \in Msg /\ Sized("tool", z, a, next).size = z
            BY <3>1 DEF Sized, Msg, Kinds
        <3> QED BY <3>2 DEF a, z
    <2>2. \A k \in DOMAIN results : results[k] = Sized("tool", sizes[k], next + k, next)
        OBVIOUS
    <2>3. DOMAIN results = 1 .. N /\ results = [k \in 1 .. N |-> Sized("tool", sizes[k], next + k, next)]
        BY <1>5
    <2> HIDE DEF results, N
    <2>4. \A k \in DOMAIN results : results[k] = Sized("tool", results[k].size, next + k, next)
        BY <1>5, <2>1, <2>2, <2>3
    <2>5. results \in [1 .. N -> Msg]
        BY <1>5, <2>1, <2>3
    <2>6. results \in Seq(Msg) /\ Len(results) = N
        <3>1. results \in Seq(Msg)
            BY <1>5, <2>5
        <3> QED BY <1>5, <2>3, <3>1
    <2> QED BY <2>3, <2>4, <2>6
<1> HIDE DEF next
<1>7. seen = IF extra = "none" THEN << >> ELSE << Sized(extra, 1, next + Len(results) + 1, 0) >>
    BY <1>6
<1>8. Len(results) >= 1
    BY <1>5, <1>6
<1> HIDE DEF results, seen
<1>9. Conversation(r) /\ Instructed(r)
    <2>1. \A i \in DOMAIN s : s[i].at < next
        BY <1>4, <1>14
    <2> QED BY <1>4, <1>6, <1>7, <1>8, <1>14, <2>1, ToolRoundIs
<1> HIDE DEF r
<1>10. Conversation(messages)' /\ Instructed(messages)' /\ (messages \in Seq(Msg))'
    BY <1>2, <1>9 DEF Conversation, Whole
<1>11. rounds' \in 0 .. MaxToolRounds
    <2>1. MaxToolRounds \in Nat /\ rounds \in 0 .. MaxToolRounds
        BY FitAssumption DEF FitInv
    <2> QED BY <1>1, <2>1
<1>12. RefusedOnlyForWhatIsPinned'
    BY <1>1 DEF RefusedOnlyForWhatIsPinned
<1>13. Session(archived, past)' /\ Whole(prompt)'
    BY <1>1, NothingIsWhole DEF FitInv
<1> QED BY <1>1, <1>10, <1>11, <1>12, <1>13 DEF FitInv

\* Every step keeps the invariant where no tool reads an image.
LEMMA FitStep ==
    ASSUME FitInv, "image" \notin Extras, [FitNext]_fitVars
    PROVE  FitInv'
<1>1. Sizes \subseteq Nat /\ 0 \in Nat /\ Extras \subseteq {"none", "frame"}
    BY FitAssumption
<1>2. ASSUME NEW size \in Sizes, NEW called \in BOOLEAN, PastTurn(size, called) PROVE FitInv'
    BY <1>1, <1>2, PastTurnKeeps
<1>3. ASSUME NEW size \in Sizes \cup {0}, CompactPast(size) PROVE FitInv'
    BY <1>1, <1>3, CompactPastKeeps
<1>4. ASSUME NEW kind \in {"user", "image"}, NEW size \in Sizes, NEW recent \in 0 .. 1, BuildInput(kind, size, recent)
      PROVE FitInv'
    BY <1>1, <1>4, BuildInputKeeps
<1>5. ASSUME NEW asked \in SUBSET Tool, PrepareModelRequest(asked) PROVE FitInv'
    BY <1>5, RequestKeeps
<1>6. ASSUME NEW size \in Sizes, NEW extra \in Extras, ToolRound(<< size >>, extra) \/ ToolRound(<< size, 1 >>, extra)
      PROVE FitInv'
    <2>1. /\ << size >> \in Seq(Nat) /\ Len(<< size >>) >= 1
          /\ << size, 1 >> \in Seq(Nat) /\ Len(<< size, 1 >>) >= 1 /\ extra \in {"none", "frame"}
        BY <1>1
    <2>2. CASE ToolRound(<< size >>, extra)
        BY <2>1, <2>2, ToolRoundKeeps
    <2>3. CASE ToolRound(<< size, 1 >>, extra)
        BY <2>1, <2>3, ToolRoundKeeps
    <2> QED BY <1>6, <2>2, <2>3
<1>7. ASSUME UNCHANGED fitVars PROVE FitInv'
    <2>1. UNCHANGED << stage, archived, past, messages, prompt, offered, demanded, rounds >>
        BY <1>7 DEF fitVars
    <2>2. RefusedOnlyForWhatIsPinned'
        BY <2>1 DEF FitInv, RefusedOnlyForWhatIsPinned
    <2> QED BY <2>1, <2>2 DEF FitInv
<1> QED BY <1>2, <1>3, <1>4, <1>5, <1>6, <1>7 DEF FitNext

\* So it holds of every behaviour.
LEMMA FitInvariance == ASSUME "image" \notin Extras PROVE FitSpec => []FitInv
<1>1. FitInit => FitInv
    BY FitInitKeeps
<1>2. FitInv /\ [FitNext]_fitVars => FitInv'
    BY FitStep
<1> QED BY <1>1, <1>2, PTL DEF FitSpec

\* The types of the model's variables.
THEOREM FitTypeCorrect == ASSUME "image" \notin Extras PROVE FitSpec => []FitTypeOK
<1>1. ASSUME FitInv PROVE FitTypeOK
    <2>1. archived \in Seq(Msg) /\ past \in Seq(Msg) /\ messages \in Seq(Msg) /\ prompt \in Seq(Msg)
        BY <1>1 DEF FitInv, Session, Summaries, Whole
    <2> DEFINE s == archived \o past
    <2>2. s \in Seq(Msg)
        BY <2>1
    <2> HIDE DEF s
    <2>3. \A q \in Seq(Msg) : Range(q) \subseteq Msg
        BY DEF Range
    <2>4. \A m \in Range(s) \cup Range(messages) \cup Range(prompt) : m \in Msg
        BY <2>1, <2>2, <2>3
    <2>5. \A m \in Msg : m.kind \in Kinds /\ m.size \in Nat /\ m.at \in Nat /\ m.of \in Nat
        BY DEF Msg
    <2>6. \A m \in Range(s) \cup Range(messages) \cup Range(prompt) :
             m.kind \in Kinds /\ m.size \in Nat /\ m.at \in Nat /\ m.of \in Nat
        BY <2>4, <2>5
    <2>7. /\ stage \in {"session", "ready", "asked", "refused"}
          /\ offered \subseteq Tool /\ demanded \subseteq Tool /\ rounds \in 0 .. MaxToolRounds
        BY <1>1 DEF FitInv
    <2> QED BY <2>6, <2>7 DEF FitTypeOK, s
<1> QED BY <1>1, FitInvariance, PTL

\* fitStableHistoryTail, fitContextWindow and modelRequestBudget.fit never
\* send a result without its call, or a call without its results.
THEOREM ExchangesStayWhole == ASSUME "image" \notin Extras PROVE FitSpec => []ExchangesWhole
<1>1. ASSUME FitInv PROVE ExchangesWhole
    <2>1. Follows(prompt) /\ Answered(prompt)
        BY <1>1 DEF FitInv, Whole
    <2>2. ASSUME NEW i \in DOMAIN prompt, prompt[i].kind = "tool"
          PROVE  \E c \in 1..(i - 1) :
                    /\ prompt[c].kind = "call" /\ prompt[c].at = prompt[i].of
                    /\ \A j \in (c + 1)..i : prompt[j].of = prompt[i].of
        BY <2>1, <2>2 DEF Follows
    <2>3. ASSUME NEW i \in DOMAIN prompt, prompt[i].kind = "call"
          PROVE  i < Len(prompt) /\ prompt[i + 1].of = prompt[i].at
        BY <2>1, <2>3 DEF Answered
    <2> QED BY <2>2, <2>3 DEF ExchangesWhole
<1> QED BY <1>1, FitInvariance, PTL

\* prepareModelRequest refuses a turn only if what is pinned does not fit.
THEOREM PinnedIsSentOrRefused ==
    ASSUME "image" \notin Extras PROVE FitSpec => []RefusedOnlyForWhatIsPinned
<1>1. FitInv => RefusedOnlyForWhatIsPinned
    BY DEF FitInv
<1> QED BY <1>1, FitInvariance, PTL
=============================================================================
