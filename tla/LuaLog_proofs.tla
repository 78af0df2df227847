---------------------------- MODULE LuaLog_proofs ----------------------------
(* The logger keeps its buffers and its lines for any number of buffers,     *)
(* lines and days, any sizes and any interleaving of the two threads.        *)
(*                                                                           *)
(* BufInv is about the buffers: types, who owns which buffer, the code's     *)
(* assertions, and what they need.  LinesInOrder follows from it, one action  *)
(* at a time.                                                                *)
EXTENDS LuaLog, SequenceTheorems, TLAPS

(* What LinesInOrder says of a sequence o of lines, a sequence L of line     *)
(* sequences, a set d of lines and the number k of lines, in terms of which  *)
(* line is where.                                                            *)
On(s, i, n) == i \in 1..Len(s) /\ n = s[i]
At(L, p, q, n) == p \in 1..Len(L) /\ On(L[p], q, n)

InOrder(o, L) ==
  /\ \A i, j, n, m : On(o, i, n) /\ On(o, j, m) /\ i < j => n < m
  /\ \A i, n, p, q, m : On(o, i, n) /\ At(L, p, q, m) => n < m
  /\ \A p, q, n, r, t, m :
       At(L, p, q, n) /\ At(L, r, t, m) /\ (p < r \/ (p = r /\ q < t)) => n < m

Out(n, o) == \E i : On(o, i, n)
Held(n, L) == \E p, q : At(L, p, q, n)

Whole(o, L, d, k) ==
  /\ \A n \in d : ~Out(n, o) /\ ~Held(n, L)
  /\ \A n : n \in 1..k <=> Out(n, o) \/ n \in d \/ Held(n, L)

Good(o, L, d, k) == InOrder(o, L) /\ Whole(o, L, d, k)

LineSeqs == Seq(Seq(Nat))

LEMMA Bounds ==
  ASSUME NEW o \in Seq(Nat), NEW L \in LineSeqs, NEW d, NEW k \in Nat,
         Good(o, L, d, k)
  PROVE  /\ \A i, n : On(o, i, n) => i \in 1..Len(o) /\ n \in 1..k
         /\ \A p, q, n : At(L, p, q, n) =>
              p \in 1..Len(L) /\ q \in 1..Len(L[p]) /\ n \in 1..k /\ q \in Nat
         /\ \A n \in d : n \in 1..k
         /\ Len(o) \in Nat /\ Len(L) \in Nat
         /\ \A p \in 1..Len(L) : L[p] \in Seq(Nat) /\ Len(L[p]) \in Nat
  <1>1. \A i, n : On(o, i, n) => n \in 1..k
    BY DEF Good, Whole, Out
  <1>2. \A p, q, n : At(L, p, q, n) => n \in 1..k
    BY DEF Good, Whole, Held
  <1>3. \A n \in d : n \in 1..k
    BY DEF Good, Whole
  <1>4. \A p \in 1..Len(L) : L[p] \in Seq(Nat) /\ Len(L[p]) \in Nat
    BY DEF LineSeqs
  <1>5. Len(o) \in Nat /\ Len(L) \in Nat
    BY DEF LineSeqs
  <1>6. \A i, n : On(o, i, n) => i \in 1..Len(o)
    BY DEF On
  <1>7. \A p, q, n : At(L, p, q, n) => p \in 1..Len(L) /\ q \in 1..Len(L[p])
    BY DEF At, On
  <1>8. QED
    BY <1>1, <1>2, <1>3, <1>4, <1>5, <1>6, <1>7

(* Line k + 1 is put at the end of the last buffer.                          *)
LEMMA LastGets ==
  ASSUME NEW o \in Seq(Nat), NEW L \in LineSeqs, NEW d, NEW k \in Nat,
         Good(o, L, d, k),
         NEW z \in Nat \ {0}, Len(L) = z, NEW M, Len(M) = z,
         \A p \in 1..z : p # z => M[p] = L[p],
         M[z] = Append(L[z], k + 1)
  PROVE  Good(o, M, d, k + 1)
  <1> DEFINE e == L[z]
  <1>1. e \in Seq(Nat) /\ Len(e) \in Nat
    BY DEF LineSeqs
  <1>2. \A i, n : On(M[z], i, n) <=> On(e, i, n) \/ (i = Len(e) + 1 /\ n = k + 1)
    <2> HIDE DEF e
    <2>1. M[z] = Append(e, k + 1)
      BY DEF e
    <2>2. /\ Len(M[z]) = Len(e) + 1
          /\ \A i \in 1..Len(e) : M[z][i] = e[i]
          /\ M[z][Len(e) + 1] = k + 1
      <3> DEFINE v == Append(e, k + 1)
      <3>1. k + 1 \in Nat
        OBVIOUS
      <3>2. /\ Len(v) = Len(e) + 1
            /\ \A i \in 1..Len(e) : v[i] = e[i]
            /\ v[Len(e) + 1] = k + 1
        BY <1>1, <3>1
      <3>3. M[z] = v
        BY <2>1
      <3> HIDE DEF v
      <3>4. QED
        BY <3>2, <3>3
    <2>3. \A i : i \in 1..(Len(e) + 1) <=> i \in 1..Len(e) \/ i = Len(e) + 1
      BY <1>1
    <2>4. \A i \in 1..Len(e) : i # Len(e) + 1
      BY <1>1
    <2>5. QED
      BY <2>2, <2>3, <2>4 DEF On
  <1>3. \A p, q, n : At(M, p, q, n) <=>
          At(L, p, q, n) \/ (p = z /\ q = Len(e) + 1 /\ n = k + 1)
    <2>1. TAKE p, q, n
    <2>2. CASE p = z
      <3>1. z \in 1..Len(L) /\ z \in 1..Len(M)
        OBVIOUS
      <3>2. QED
        BY <2>2, <3>1, <1>2, Zenon DEF At
    <2>3. CASE p # z
      BY <2>3, Zenon DEF At
    <2>4. QED
      BY <2>2, <2>3
  <1>4. /\ \A i, n : On(o, i, n) => n \in 1..k
        /\ \A p, q, n : At(L, p, q, n) => p \in 1..z /\ q \in Nat /\ n \in 1..k
        /\ \A q, n : At(L, z, q, n) => q <= Len(e)
        /\ \A n \in d : n \in 1..k
    BY Bounds
  <1> HIDE DEF e
  <1>5. InOrder(o, M)
    <2>1. \A i, n, p, q, m : On(o, i, n) /\ At(M, p, q, m) => n < m
      BY <1>3, <1>4 DEF Good, InOrder
    <2>2. \A p, q, n, r, t, m :
            At(M, p, q, n) /\ At(M, r, t, m) /\ (p < r \/ (p = r /\ q < t)) => n < m
      <3>1. \A p, q, n, r, t, m :
              At(L, p, q, n) /\ At(L, r, t, m) /\ (p < r \/ (p = r /\ q < t)) => n < m
        BY DEF Good, InOrder
      <3>2. QED
        BY <1>1, <1>3, <1>4, <3>1
    <2>3. QED
      BY <2>1, <2>2 DEF Good, InOrder
  <1>6. Whole(o, M, d, k + 1)
    <2>1. \A n : Held(n, M) <=> Held(n, L) \/ n = k + 1
      <3>1. At(M, z, Len(e) + 1, k + 1)
        BY <1>3
      <3>2. ASSUME NEW n, Held(n, M)
            PROVE  Held(n, L) \/ n = k + 1
        BY <1>3, <3>2 DEF Held
      <3>3. ASSUME NEW n, Held(n, L)
            PROVE  Held(n, M)
        <4>1. PICK p, q : At(L, p, q, n)
          BY <3>3 DEF Held
        <4>2. At(M, p, q, n)
          BY <4>1, <1>3
        <4>3. QED
          BY <4>2 DEF Held
      <3>4. Held(k + 1, M)
        BY <3>1 DEF Held
      <3>5. QED
        BY <3>2, <3>3, <3>4
    <2>2. \A n : n \in 1..(k + 1) <=> n \in 1..k \/ n = k + 1
      OBVIOUS
    <2>3. \A n \in 1..k : n # k + 1
      OBVIOUS
    <2>4. \A n \in d : ~Out(n, o) /\ ~Held(n, L) /\ n # k + 1
      BY <1>4, <2>3 DEF Good, Whole
    <2>5. QED
      BY <2>1, <2>2, <2>4 DEF Good, Whole
  <1>7. QED
    BY <1>5, <1>6 DEF Good

(* Sequences with the same lines at the same places, or in the same order.   *)
LEMMA SameLines ==
  ASSUME NEW o, NEW L, NEW d, NEW k, Good(o, L, d, k), NEW M,
         \A p, q, n : At(M, p, q, n) <=> At(L, p, q, n)
  PROVE  Good(o, M, d, k)
  BY DEF Good, InOrder, Whole, Held

(* An empty buffer is put behind the last one.                               *)
LEMMA EmptyLast ==
  ASSUME NEW o, NEW L, Len(L) \in Nat, NEW d, NEW k, Good(o, L, d, k),
         NEW M, Len(M) = Len(L) + 1,
         \A p \in 1..Len(L) : M[p] = L[p],
         M[Len(L) + 1] = <<>>
  PROVE  Good(o, M, d, k)
  <1>1. \A i, n : ~On(<<>>, i, n)
    BY DEF On
  <1>2. \A p : p \in 1..Len(M) <=> p \in 1..Len(L) \/ p = Len(L) + 1
    OBVIOUS
  <1>3. \A p, q, n : At(M, p, q, n) <=> At(L, p, q, n)
    BY <1>1, <1>2 DEF At
  <1>4. QED
    BY <1>3, SameLines

(* The lines of the first buffer are written.                                *)
LEMMA FirstOut ==
  ASSUME NEW o \in Seq(Nat), NEW L \in LineSeqs, NEW d, NEW k \in Nat,
         Good(o, L, d, k), Len(L) > 0,
         NEW M, Len(M) = Len(L) - 1,
         \A p \in 1..Len(M) : M[p] = L[p + 1]
  PROVE  Good(o \o L[1], M, d, k)
  <1> DEFINE e == L[1]
             x == o \o e
             l == Len(o)
  <1>1. /\ Len(L) \in Nat \ {0} /\ e \in Seq(Nat) /\ Len(e) \in Nat /\ l \in Nat
    BY DEF LineSeqs
  <1>2. \A i, n : On(x, i, n) <=> On(o, i, n) \/ (i > l /\ i \in Nat /\ On(e, i - l, n))
    <2> HIDE DEF e
    <2>1. /\ Len(x) = l + Len(e)
          /\ \A i \in 1..l : x[i] = o[i]
          /\ \A i \in (l + 1)..(l + Len(e)) : x[i] = e[i - l]
      BY <1>1
    <2> HIDE DEF x
    <2>2. \A i : i \in 1..Len(x) <=>
            i \in 1..l \/ (i > l /\ i \in Nat /\ i - l \in 1..Len(e))
      BY <1>1, <2>1
    <2>3. \A i : i > l /\ i \in Nat /\ i - l \in 1..Len(e) =>
            i \in (l + 1)..(l + Len(e)) /\ i \notin 1..l
      BY <1>1
    <2>4. QED
      BY <2>1, <2>2, <2>3 DEF On
  <1>3. /\ \A i, n : On(o, i, n) => i \in 1..l /\ n \in 1..k
        /\ \A p, q, n : At(L, p, q, n) => p \in 1..Len(L) /\ q \in Nat /\ n \in 1..k
    BY Bounds
  <1>4. \A i, n : On(e, i, n) <=> At(L, 1, i, n)
    BY <1>1 DEF At
  <1>5. \A p, q, n : At(M, p, q, n) <=> p \in Nat /\ p > 0 /\ At(L, p + 1, q, n)
    <2>1. \A p : p \in 1..Len(M) <=> p \in Nat /\ p > 0 /\ p + 1 \in 1..Len(L)
      BY <1>1
    <2>2. QED
      BY <2>1 DEF At
  <1> HIDE DEF x, e, l
  <1>6. InOrder(x, M)
    <2>1. /\ \A i, j, n, m : On(o, i, n) /\ On(o, j, m) /\ i < j => n < m
          /\ \A i, n, p, q, m : On(o, i, n) /\ At(L, p, q, m) => n < m
          /\ \A p, q, n, r, t, m :
               At(L, p, q, n) /\ At(L, r, t, m) /\ (p < r \/ (p = r /\ q < t)) => n < m
      BY DEF Good, InOrder
    <2>2. \A i, j, n, m : On(x, i, n) /\ On(x, j, m) /\ i < j => n < m
      <3>1. TAKE i, j, n, m
      <3>2. HAVE On(x, i, n) /\ On(x, j, m) /\ i < j
      <3>3. CASE On(o, j, m)
        <4>1. On(o, i, n)
          BY <3>2, <3>3, <1>1, <1>2, <1>3
        <4>2. QED
          BY <3>2, <3>3, <4>1, <2>1
      <3>4. CASE j > l /\ j \in Nat /\ At(L, 1, j - l, m)
        <4>1. CASE On(o, i, n)
          BY <3>4, <4>1, <2>1
        <4>2. CASE i > l /\ i \in Nat /\ At(L, 1, i - l, n)
          <5>1. i - l < j - l
            BY <3>2, <3>4, <4>2, <1>1
          <5>2. QED
            BY <3>4, <4>2, <5>1, <2>1
        <4>3. QED
          BY <3>2, <4>1, <4>2, <1>2, <1>4
      <3>5. QED
        BY <3>2, <3>3, <3>4, <1>2, <1>4
    <2>3. \A i, n, p, q, m : On(x, i, n) /\ At(M, p, q, m) => n < m
      <3>1. \A p, q, n, m, t : At(M, p, q, m) /\ At(L, 1, t, n) => n < m
        BY <1>5, <2>1
      <3>2. \A i, n, p, q, m : On(o, i, n) /\ At(M, p, q, m) => n < m
        BY <1>5, <2>1
      <3>3. QED
        BY <3>1, <3>2, <1>2, <1>4
    <2>4. \A p, q, n, r, t, m :
            At(M, p, q, n) /\ At(M, r, t, m) /\ (p < r \/ (p = r /\ q < t)) => n < m
      <3>1. TAKE p, q, n, r, t, m
      <3>2. HAVE At(M, p, q, n) /\ At(M, r, t, m) /\ (p < r \/ (p = r /\ q < t))
      <3>3. At(L, p + 1, q, n) /\ At(L, r + 1, t, m) /\ p \in Nat /\ r \in Nat
        BY <3>2, <1>5
      <3>4. p + 1 < r + 1 \/ (p + 1 = r + 1 /\ q < t)
        BY <3>2, <3>3
      <3>5. QED
        BY <3>3, <3>4, <2>1
    <2>5. QED
      BY <2>2, <2>3, <2>4 DEF InOrder
  <1>7. \A n : Out(n, x) \/ Held(n, M) <=> Out(n, o) \/ Held(n, L)
    <2>1. \A n : Out(n, x) \/ Held(n, M) => Out(n, o) \/ Held(n, L)
      BY <1>2, <1>4, <1>5 DEF Out, Held
    <2>2. \A n : Out(n, o) => Out(n, x)
      BY <1>2 DEF Out
    <2>3. ASSUME NEW n, NEW p, NEW q, At(L, p, q, n)
          PROVE  Out(n, x) \/ Held(n, M)
      <3>1. CASE p = 1
        <4>1. q + l > l /\ q + l \in Nat /\ (q + l) - l = q
          BY <2>3, <3>1, <1>1, <1>3, <1>4 DEF On
        <4>2. On(e, (q + l) - l, n)
          BY <2>3, <3>1, <4>1, <1>4
        <4>3. On(x, q + l, n)
          BY <4>1, <4>2, <1>2
        <4>4. QED
          BY <4>3 DEF Out
      <3>2. CASE p # 1
        <4>1. p - 1 \in Nat /\ p - 1 > 0 /\ (p - 1) + 1 = p
          BY <2>3, <3>2, <1>1, <1>3
        <4>2. At(M, p - 1, q, n)
          BY <2>3, <4>1, <1>5
        <4>3. QED
          BY <4>2 DEF Held
      <3>3. QED
        BY <3>1, <3>2
    <2>4. QED
      BY <2>1, <2>2, <2>3 DEF Held
  <1>8. QED
    BY <1>6, <1>7 DEF Good, Whole, x, e

(* Buffers 3 to c are thrown away with their lines.                          *)
LEMMA SomeDropped ==
  ASSUME NEW o \in Seq(Nat), NEW L \in LineSeqs, NEW d, NEW k \in Nat,
         Good(o, L, d, k),
         NEW c \in Nat, 2 <= c, c <= Len(L),
         NEW M, Len(M) = Len(L) - c + 2,
         \A p \in 1..2 : M[p] = L[p],
         \A p \in 3..Len(M) : M[p] = L[p + c - 2],
         NEW e,
         \A n : n \in e <=> n \in d \/ \E p \in 3..c : \E q : At(L, p, q, n)
  PROVE  Good(o, M, e, k)
  <1> DEFINE f(p) == IF p <= 2 THEN p ELSE p + c - 2
  <1>1. /\ \A i, n : On(o, i, n) => i \in 1..Len(o) /\ n \in 1..k
        /\ \A p, q, n : At(L, p, q, n) => p \in 1..Len(L) /\ q \in Nat /\ n \in 1..k
        /\ Len(L) \in Nat
    BY Bounds
  <1>2. \A p, q, n : At(M, p, q, n) <=> p \in Nat /\ p > 0 /\ At(L, f(p), q, n)
    <2>1. \A p : p \in 1..Len(M) <=> p \in Nat /\ p > 0 /\ f(p) \in 1..Len(L)
      BY <1>1
    <2>2. \A p \in 1..Len(M) : M[p] = L[f(p)]
      <3>1. \A p \in 1..Len(M) : p \in 1..2 \/ (p \in 3..Len(M) /\ ~(p <= 2))
        BY <1>1
      <3>2. QED
        BY <3>1
    <2> HIDE DEF f
    <2>3. QED
      BY <2>1, <2>2 DEF At
  <1>3. /\ \A p, r \in Nat : p < r => f(p) < f(r)
        /\ \A p \in Nat : ~(f(p) \in 3..c)
    OBVIOUS
  <1>4. \A p \in 1..Len(L) : ~(p \in 3..c) => \E r \in Nat : r > 0 /\ f(r) = p
    <2>1. TAKE p \in 1..Len(L)
    <2>2. HAVE ~(p \in 3..c)
    <2>3. CASE p <= 2
      BY <2>3, <1>1
    <2>4. CASE p > 2
      <3> DEFINE r == p - c + 2
      <3>1. r \in Nat /\ r > 2 /\ r > 0
        BY <2>2, <2>4, <1>1
      <3>2. f(r) = p
        BY <3>1
      <3> HIDE DEF r, f
      <3>3. QED
        BY <3>1, <3>2, Zenon
    <2>5. QED
      BY <2>3, <2>4, <1>1
  <1> HIDE DEF f
  <1>5. /\ \A i, j, n, m : On(o, i, n) /\ On(o, j, m) /\ i < j => n < m
        /\ \A i, n, p, q, m : On(o, i, n) /\ At(L, p, q, m) => n < m
        /\ \A p, q, n, r, t, m :
             At(L, p, q, n) /\ At(L, r, t, m) /\ (p < r \/ (p = r /\ q < t)) => n < m
    BY DEF Good, InOrder
  <1>6. InOrder(o, M)
    <2>1. \A p, q, n, r, t, m :
            At(M, p, q, n) /\ At(M, r, t, m) /\ (p < r \/ (p = r /\ q < t)) => n < m
      <3>1. TAKE p, q, n, r, t, m
      <3>2. HAVE At(M, p, q, n) /\ At(M, r, t, m) /\ (p < r \/ (p = r /\ q < t))
      <3>3. /\ At(L, f(p), q, n) /\ At(L, f(r), t, m) /\ p \in Nat /\ r \in Nat
        BY <3>2, <1>2
      <3>4. f(p) < f(r) \/ (f(p) = f(r) /\ q < t)
        BY <3>2, <3>3, <1>3
      <3>5. QED
        BY <3>3, <3>4, <1>5
    <2>2. \A i, n, p, q, m : On(o, i, n) /\ At(M, p, q, m) => n < m
      BY <1>2, <1>5
    <2>3. QED
      BY <2>1, <2>2, <1>5 DEF InOrder
  <1>7. \A n \in e : ~Out(n, o) /\ ~Held(n, M)
    <2>1. TAKE n \in e
    <2>2. CASE n \in d
      BY <2>2, <1>2 DEF Good, Whole, Held
    <2>3. ASSUME NEW p \in 3..c, NEW q, At(L, p, q, n)
          PROVE  ~Out(n, o) /\ ~Held(n, M)
      <3>1. n \in Nat /\ ~(n < n) /\ p \in Nat
        BY <2>3, <1>1
      <3>2. ASSUME NEW r, NEW t, At(M, r, t, n)
            PROVE  FALSE
        <4>1. r \in Nat /\ At(L, f(r), t, n) /\ f(r) # p /\ f(r) \in Nat
          BY <2>3, <3>2, <1>1, <1>2, <1>3
        <4>2. f(r) < p \/ p < f(r)
          BY <4>1, <3>1
        <4>3. QED
          BY <2>3, <4>1, <4>2, <3>1, <1>5
      <3>3. \A i : ~On(o, i, n)
        BY <2>3, <3>1, <1>5
      <3>4. QED
        BY <3>2, <3>3 DEF Held, Out
    <2>4. QED
      BY <2>2, <2>3
  <1>8. \A n : Out(n, o) \/ n \in e \/ Held(n, M) <=> Out(n, o) \/ n \in d \/ Held(n, L)
    <2>1. \A n : Held(n, M) => Held(n, L)
      BY <1>2 DEF Held
    <2>2. \A n \in e : n \in d \/ Held(n, L)
      BY DEF Held
    <2>3. ASSUME NEW n, NEW p, NEW q, At(L, p, q, n)
          PROVE  n \in e \/ Held(n, M)
      <3>1. CASE p \in 3..c
        BY <2>3, <3>1
      <3>2. CASE ~(p \in 3..c)
        <4>1. PICK r \in Nat : r > 0 /\ f(r) = p
          BY <2>3, <3>2, <1>1, <1>4
        <4>2. At(M, r, q, n)
          BY <2>3, <4>1, <1>2
        <4>3. QED
          BY <4>2 DEF Held
      <3>3. QED
        BY <3>1, <3>2
    <2>4. \A n : Held(n, L) => n \in e \/ Held(n, M)
      BY <2>3 DEF Held
    <2>5. \A n \in d : n \in e
      OBVIOUS
    <2>6. QED
      BY <2>1, <2>2, <2>4, <2>5
  <1>9. QED
    BY <1>6, <1>7, <1>8 DEF Good, Whole

-----------------------------------------------------------------------------
USE LogAssumption

(* BuffersOwned with its pairs of places spelt out.                          *)
Apart ==
  /\ curr \notin {nextb, new1, new2}
  /\ nextb # NULL => nextb \notin {new1, new2}
  /\ new1 # NULL => new1 # new2

Owned ==
  /\ Apart
  /\ \A i, j \in 1..Len(list.chain) : list.chain[i] = list.chain[j] => i = j
  /\ \A i, j \in 1..Len(batch.chain) : batch.chain[i] = batch.chain[j] => i = j
  /\ Elems(list.chain) \cap {nextb, new1, new2} = {}
  /\ Elems(batch.chain) \cap (Elems(list.chain) \cup Spares) = {}
  /\ live = Spares \cup Elems(list.chain) \cup Elems(batch.chain)

(* The part of the invariant that appending a line has to do with.           *)
BufferType == [lines : Seq(Nat), size : Nat]
ListType == [chain : Seq(Buffers), tail : Buffers \cup {NULL}, size : Nat]

Front ==
  /\ mem \in [Buffers -> BufferType]
  /\ live \subseteq Buffers
  /\ curr \in Buffers /\ nextb \in Buffers \cup {NULL}
  /\ new1 \in Buffers \cup {NULL} /\ new2 \in Buffers \cup {NULL}
  /\ list \in ListType /\ batch \in ListType
  /\ Owned
  /\ (list.chain = <<>>) <=> (list.size = 0)
  /\ list.chain # <<>> =>
       /\ Len(list.chain) = list.size + 1
       /\ list.chain[list.size] = list.tail
       /\ list.chain[list.size + 1] = curr
  /\ \A b \in {nextb, new1, new2} \ {NULL} : mem[b] = Empty
  /\ nextb = NULL => list.chain # <<>>

(* The part that is about the worker only.                                   *)
Back ==
  /\ running \in BOOLEAN
  /\ front \in {"open", "fatal", "joining", "closed"}
  /\ pc \in {"start", "top", "wait", "drop", "cut", "write", "refill", "done"}
  /\ made \in Nat /\ node \in Nat /\ written \in Nat
  /\ today \in 1..LastDay /\ rollday \in 0..LastDay
  /\ handle \in Files \cup {Stdout, NULL}
  /\ files \in [Files -> Nat]
  /\ out \in Seq(Nat) /\ dropped \subseteq Nat
  /\ pc \in {"top", "wait"} => new1 # NULL /\ new2 # NULL
  /\ pc = "start" => new1 = NULL /\ new2 = NULL
  /\ pc \in {"start", "top", "wait", "done"} => batch.chain = <<>>
  /\ pc \in {"drop", "cut", "write", "refill"} =>
       /\ new1 = NULL
       /\ Len(batch.chain) = batch.size
       /\ batch.size > 0 /\ batch.chain[batch.size] = batch.tail
       /\ new2 = NULL => batch.size > 1
  /\ pc = "cut" => batch.size > MaxBatch
  /\ pc = "write" => node \in 1..(Len(batch.chain) + 1)

BufInv == Front /\ Back

(* The elements of a sequence, before and after something is appended.       *)
LEMMA ElemsOf ==
  ASSUME NEW S, NEW s \in Seq(S)
  PROVE  /\ Elems(s) = {s[i] : i \in 1..Len(s)}
         /\ Elems(s) \subseteq S
         /\ DOMAIN s = 1..Len(s) /\ Len(s) \in Nat
         /\ \A i \in 1..Len(s) : s[i] \in S
  BY DEF Elems

LEMMA ElemsEmpty == Elems(<<>>) = {} /\ Len(<<>>) = 0
  BY DEF Elems

LEMMA ElemsAppend ==
  ASSUME NEW S, NEW s \in Seq(S), NEW e \in S
  PROVE  /\ Append(s, e) \in Seq(S)
         /\ Len(Append(s, e)) = Len(s) + 1
         /\ \A i \in 1..Len(s) : Append(s, e)[i] = s[i]
         /\ Append(s, e)[Len(s) + 1] = e
         /\ Elems(Append(s, e)) = Elems(s) \cup {e}
  <1>1. /\ Append(s, e) \in Seq(S)
        /\ Len(Append(s, e)) = Len(s) + 1
        /\ \A i \in 1..Len(s) : Append(s, e)[i] = s[i]
        /\ Append(s, e)[Len(s) + 1] = e
    OBVIOUS
  <1> DEFINE t == Append(s, e)
  <1>2. Elems(t) = {t[i] : i \in 1..Len(t)}
    <2>1. t \in Seq(S)
      BY <1>1
    <2> HIDE DEF t
    <2>2. QED
      BY <2>1, ElemsOf
  <1>3. Elems(s) = {s[i] : i \in 1..Len(s)} /\ Len(s) \in Nat
    BY ElemsOf
  <1>4. \A i : i \in 1..(Len(s) + 1) <=> i \in 1..Len(s) \/ i = Len(s) + 1
    BY <1>3
  <1>5. QED
    BY <1>1, <1>2, <1>3, <1>4

(* The list with the current buffer in it.                                   *)
LEMMA ListedType ==
  ASSUME Front
  PROVE  /\ Listed \in Seq(Buffers)
         /\ Len(Listed) = list.size + 1
         /\ Listed[list.size + 1] = curr
         /\ \A i, j \in 1..Len(Listed) : Listed[i] = Listed[j] => i = j
         /\ Elems(Listed) = Elems(list.chain) \cup {curr}
         /\ Push = [chain |-> Listed, tail |-> curr, size |-> list.size + 1]
         /\ list.size \in Nat /\ list.chain \in Seq(Buffers)
         /\ Listed # <<>>
  <1>1. list.size \in Nat /\ list.chain \in Seq(Buffers) /\ curr \in Buffers
    BY DEF Front, ListType
  <1>2. Push = [chain |-> Listed, tail |-> curr, size |-> list.size + 1]
    BY DEF Push, Listed
  <1>3. CASE list.chain = <<>>
    <2>1. Listed = <<curr>> /\ list.size = 0 /\ Elems(list.chain) = {}
      BY <1>3, <1>1, ElemsEmpty DEF Listed, Front
    <2>2. Elems(<<curr>>) = {curr}
      BY DEF Elems
    <2>3. QED
      BY <2>1, <2>2, <1>1, <1>2
  <1>4. CASE list.chain # <<>>
    <2>1. /\ Listed = list.chain
          /\ Len(list.chain) = list.size + 1
          /\ list.chain[list.size + 1] = curr
      BY <1>4 DEF Listed, Front
    <2>2. curr \in Elems(list.chain)
      BY <2>1, <1>1, ElemsOf
    <2>3. QED
      BY <1>4, <2>1, <2>2, <1>1, <1>2 DEF Front, Owned
  <1>5. QED
    BY <1>3, <1>4

(* What append does to the buffers: it stays in the current one, or takes    *)
(* another that nobody uses.                                                 *)
Stays(n, len) ==
  /\ mem' = Put(mem, curr, n, len)
  /\ UNCHANGED <<live, curr, nextb, list>>

Takes(b, n, len) ==
  /\ b \notin {curr, new1, new2} \cup Elems(Listed) \cup Elems(batch.chain)
  /\ nextb \in {b, NULL}
  /\ mem' = Put([mem EXCEPT ![b] = Empty], b, n, len)
  /\ curr' = b /\ nextb' = NULL /\ live' = live \cup {b}
  /\ list' = [chain |-> Append(Listed, b), tail |-> curr, size |-> list.size + 1]

LEMMA PushedBehind ==
  ASSUME Front, NEW b
  PROVE  [Push EXCEPT !.chain = Append(@, b)]
           = [chain |-> Append(Listed, b), tail |-> curr, size |-> list.size + 1]
  <1>1. ASSUME NEW c, NEW t, NEW z, NEW d
        PROVE  [[chain |-> c, tail |-> t, size |-> z] EXCEPT !.chain = d]
                 = [chain |-> d, tail |-> t, size |-> z]
    OBVIOUS
  <1>2. Push = [chain |-> Listed, tail |-> curr, size |-> list.size + 1]
    BY DEF Push, Listed
  <1>3. Push.chain = Listed
    BY <1>2
  <1>4. [Push EXCEPT !.chain = Append(Listed, b)]
          = [chain |-> Append(Listed, b), tail |-> curr, size |-> list.size + 1]
    <2> DEFINE d == Append(Listed, b)
    <2> HIDE DEF d
    <2>1. [Push EXCEPT !.chain = d]
            = [chain |-> d, tail |-> curr, size |-> list.size + 1]
      BY <1>1, <1>2
    <2>2. QED
      BY <2>1 DEF d
  <1>5. QED
    BY <1>3, <1>4

LEMMA AppendCases ==
  ASSUME Front, NEW n, NEW len, AppendLine(n, len)
  PROVE  Stays(n, len) \/ \E b \in Buffers : Takes(b, n, len)
  <1>1. CASE nextb # NULL /\ list' = [Push EXCEPT !.chain = Append(@, nextb)]
             /\ curr' = nextb /\ nextb' = NULL
             /\ mem' = Put(mem, nextb, n, len) /\ live' = live
    <2>1. nextb \in Buffers /\ nextb \in live
      BY <1>1 DEF Front, Owned, Spares
    <2>2. /\ nextb \notin {curr, new1, new2}
          /\ nextb \notin Elems(list.chain) /\ nextb \notin Elems(batch.chain)
      BY <1>1 DEF Front, Owned, Apart, Spares
    <2>3. [mem EXCEPT ![nextb] = Empty] = mem
      BY <1>1, <2>1 DEF Front
    <2>4. list' = [chain |-> Append(Listed, nextb), tail |-> curr,
                   size |-> list.size + 1]
      BY <1>1, PushedBehind, Zenon
    <2>5. Takes(nextb, n, len)
      BY <1>1, <2>1, <2>2, <2>3, <2>4, ListedType DEF Takes
    <2>6. QED
      BY <2>1, <2>5
  <1>2. CASE nextb = NULL /\ CanAlloc
             /\ list' = [Push EXCEPT !.chain = Append(@, Fresh)]
             /\ curr' = Fresh /\ live' = live \cup {Fresh} /\ nextb' = nextb
             /\ mem' = Put([mem EXCEPT ![Fresh] = Empty], Fresh, n, len)
    <2>1. Fresh \in Buffers /\ Fresh \notin live
      BY <1>2 DEF CanAlloc, Fresh
    <2> HIDE DEF Fresh
    <2>2. Fresh # NULL /\ curr # NULL
      BY <2>1 DEF Front
    <2>3. /\ Fresh \notin {curr, new1, new2}
          /\ Fresh \notin Elems(list.chain) /\ Fresh \notin Elems(batch.chain)
      BY <2>1, <2>2 DEF Front, Owned, Spares
    <2>4. list' = [chain |-> Append(Listed, Fresh), tail |-> curr,
                   size |-> list.size + 1]
      BY <1>2, PushedBehind, Zenon
    <2>5. Takes(Fresh, n, len)
      BY <1>2, <2>3, <2>4, ListedType DEF Takes
    <2>6. QED
      BY <2>1, <2>5
  <1>3. QED
    BY <1>1, <1>2 DEF AppendLine, Stays

(* A line put into a buffer.                                                 *)
LEMMA PutType ==
  ASSUME NEW m \in [Buffers -> BufferType], NEW b \in Buffers, NEW n \in Nat,
         NEW len \in Nat
  PROVE  /\ Put(m, b, n, len) \in [Buffers -> BufferType]
         /\ Put(m, b, n, len)[b].lines = Append(m[b].lines, n)
         /\ Put(m, b, n, len)[b].size = m[b].size + len
         /\ \A a \in Buffers \ {b} : Put(m, b, n, len)[a] = m[a]
  <1>1. m[b].lines \in Seq(Nat) /\ m[b].size \in Nat
    BY DEF BufferType
  <1>2. Append(m[b].lines, n) \in Seq(Nat) /\ m[b].size + len \in Nat
    BY <1>1
  <1>3. QED
    BY <1>2 DEF Put, BufferType

LEMMA EmptyType == Empty \in BufferType
  BY DEF Empty, BufferType

LEMMA EmptyBuffer ==
  ASSUME NEW m \in [Buffers -> BufferType], NEW b \in Buffers
  PROVE  /\ [m EXCEPT ![b] = Empty] \in [Buffers -> BufferType]
         /\ [m EXCEPT ![b] = Empty][b] = Empty
         /\ \A a \in Buffers \ {b} : [m EXCEPT ![b] = Empty][a] = m[a]
  BY EmptyType

LEMMA AppendFront ==
  ASSUME Front, NEW n \in Nat, NEW len \in Nat, AppendLine(n, len),
         UNCHANGED <<new1, new2, batch>>
  PROVE  Front'
  <1> USE DEF Front
  <1>1. CASE Stays(n, len)
    <2>1. UNCHANGED <<live, curr, nextb, list>> /\ mem' = Put(mem, curr, n, len)
      BY <1>1 DEF Stays
    <2>2. mem' \in [Buffers -> BufferType]
      BY <2>1, PutType
    <2>3. Owned'
      BY <2>1 DEF Owned, Apart, Spares
    <2>4. \A b \in {nextb, new1, new2} \ {NULL} : b \in Buffers \ {curr}
      BY DEF Owned, Apart
    <2>5. \A b \in {nextb', new1', new2'} \ {NULL} : mem'[b] = Empty
      BY <2>1, <2>4, PutType
    <2>6. QED
      BY <2>1, <2>2, <2>3, <2>5
  <1>2. ASSUME NEW b \in Buffers, Takes(b, n, len)
        PROVE  Front'
    <2> DEFINE m == [mem EXCEPT ![b] = Empty]
    <2>1. /\ b \notin {curr, new1, new2} \cup Elems(Listed) \cup Elems(batch.chain)
          /\ nextb \in {b, NULL}
          /\ mem' = Put(m, b, n, len)
          /\ curr' = b /\ nextb' = NULL /\ live' = live \cup {b}
          /\ list'.chain = Append(Listed, b) /\ list'.tail = curr
          /\ list'.size = list.size + 1
          /\ list' = [chain |-> Append(Listed, b), tail |-> curr,
                      size |-> list.size + 1]
      BY <1>2 DEF Takes
    <2>2. /\ Listed \in Seq(Buffers)
          /\ Len(Listed) = list.size + 1
          /\ Listed[list.size + 1] = curr
          /\ \A i, j \in 1..Len(Listed) : Listed[i] = Listed[j] => i = j
          /\ Elems(Listed) = Elems(list.chain) \cup {curr}
          /\ list.size \in Nat
      BY ListedType
    <2>3. mem' \in [Buffers -> BufferType] /\ \A a \in Buffers \ {b} : mem'[a] = mem[a]
      <3> HIDE DEF m
      <3>1. m \in [Buffers -> BufferType] /\ \A a \in Buffers \ {b} : m[a] = mem[a]
        BY EmptyBuffer DEF m
      <3>2. /\ Put(m, b, n, len) \in [Buffers -> BufferType]
            /\ \A a \in Buffers \ {b} : Put(m, b, n, len)[a] = m[a]
        BY <3>1, PutType
      <3>3. mem' = Put(m, b, n, len)
        BY <2>1
      <3>4. QED
        BY <3>1, <3>2, <3>3
    <2>4. /\ Append(Listed, b) \in Seq(Buffers)
          /\ Len(Append(Listed, b)) = Len(Listed) + 1
          /\ \A i \in 1..Len(Listed) : Append(Listed, b)[i] = Listed[i]
          /\ Append(Listed, b)[Len(Listed) + 1] = b
          /\ Elems(Append(Listed, b)) = Elems(Listed) \cup {b}
      BY <2>2, ElemsAppend
    <2>5. list' \in ListType
      BY <2>1, <2>2, <2>4 DEF ListType
    <2>6. /\ list'.chain # <<>> /\ list'.size # 0
          /\ Len(list'.chain) = list'.size + 1
          /\ list'.chain[list'.size] = list'.tail
          /\ list'.chain[list'.size + 1] = curr'
      BY <2>1, <2>2, <2>4
    <2>7. Owned'
      <3>1. Apart'
        BY <2>1 DEF Owned, Apart
      <3>2. \A i, j \in 1..Len(list'.chain) :
              list'.chain[i] = list'.chain[j] => i = j
        <4>1. \A i \in 1..Len(Listed) : Listed[i] # b
          BY <2>1, <2>2, ElemsOf
        <4>2. QED
          BY <4>1, <2>1, <2>2, <2>4
      <3>3. Elems(list'.chain) = Elems(list.chain) \cup {curr, b}
        BY <2>1, <2>2, <2>4
      <3>4. Elems(list'.chain) \cap {nextb', new1', new2'} = {}
        <4>1. Elems(list.chain) \subseteq Buffers
          BY ElemsOf DEF ListType
        <4>2. QED
          BY <4>1, <3>3, <2>1 DEF Owned, Apart
      <3>5. Elems(batch'.chain) \cap (Elems(list'.chain) \cup Spares') = {}
        BY <3>3, <2>1 DEF Owned, Spares
      <3>6. live' = Spares' \cup Elems(list'.chain) \cup Elems(batch'.chain)
        BY <3>3, <2>1 DEF Owned, Spares
      <3>7. QED
        BY <3>1, <3>2, <3>4, <3>5, <3>6 DEF Owned
    <2>8. \A a \in {nextb', new1', new2'} \ {NULL} : mem'[a] = Empty
      BY <2>1, <2>3
    <2>9. QED
      BY <2>1, <2>3, <2>5, <2>6, <2>7, <2>8
  <1>3. QED
    BY <1>1, <1>2, AppendCases

-----------------------------------------------------------------------------
(* Each action keeps the buffers in order.                                   *)

LEMMA FrontSame ==
  ASSUME Front, UNCHANGED <<mem, live, curr, nextb, list, new1, new2, batch>>
  PROVE  Front'
  BY DEF Front, Owned, Apart, Spares

LEMMA LengthsNat == Lengths \subseteq Nat /\ NoticeLength \in Nat
  OBVIOUS

LEMMA LogBuf ==
  ASSUME BufInv, Log \/ Fatal
  PROVE  BufInv'
  <1>1. PICK len \in Lengths : AppendLine(made', len)
    BY DEF Log, Fatal
  <1>2. /\ made' = made + 1 /\ made \in Nat
        /\ UNCHANGED <<running, pc, new1, new2, batch, node, today, rollday,
                       handle, written, files, out, dropped>>
        /\ front' \in {"open", "fatal"}
    BY DEF Log, Fatal, BufInv, Back
  <1>3. Front'
    BY <1>1, <1>2, LengthsNat, AppendFront DEF BufInv
  <1>4. Back'
    BY <1>2 DEF BufInv, Back
  <1>5. QED
    BY <1>3, <1>4 DEF BufInv

LEMMA NoticeBuf ==
  ASSUME BufInv, Notice
  PROVE  BufInv'
  <1>1. Front'
    BY LengthsNat, AppendFront DEF BufInv, Notice, Back
  <1>2. Back'
    BY DEF BufInv, Back, Notice, disk
  <1>3. QED
    BY <1>1, <1>2 DEF BufInv

LEMMA RollType ==
  ASSUME Back, RollFile
  PROVE  /\ handle' \in Files \cup {Stdout, NULL}
         /\ written' \in Nat /\ rollday' \in 0..LastDay
  BY DEF Back, RollFile, Files

LEMMA QuietBuf ==
  ASSUME BufInv, Exit \/ Joined \/ Loop \/ NextDay \/ NoCut \/ Flush
  PROVE  BufInv'
  <1>1. Front'
    BY FrontSame DEF Exit, Joined, Loop, NextDay, NoCut, Flush, shared, BufInv
  <1>2. CASE Exit \/ Joined \/ NextDay
    <2>1. CASE Exit
      BY <2>1, <1>1 DEF BufInv, Back, Exit, shared, disk
    <2>2. CASE Joined
      BY <2>2, <1>1 DEF BufInv, Back, Joined, shared, disk
    <2>3. CASE NextDay
      BY <2>3, <1>1 DEF BufInv, Back, NextDay, shared, disk
    <2>4. QED
      BY <1>2, <2>1, <2>2, <2>3
  <1>3. CASE Loop
    BY <1>3, <1>1 DEF BufInv, Back, Front, Loop, shared, disk
  <1>4. CASE NoCut
    BY <1>4, <1>1, ElemsOf DEF BufInv, Back, Front, ListType, NoCut, shared, disk
  <1>5. CASE Flush
    <2>1. /\ handle' \in Files \cup {Stdout, NULL}
          /\ written' \in Nat /\ rollday' \in 0..LastDay
      BY <1>5, RollType DEF Flush, BufInv, Back
    <2>2. QED
      BY <1>5, <1>1, <2>1 DEF BufInv, Back, Flush, shared
  <1>6. QED
    BY <1>2, <1>3, <1>4, <1>5

LEMMA WriteBuf ==
  ASSUME BufInv, Write
  PROVE  BufInv'
  <1>1. Front'
    BY FrontSame DEF Write, shared, BufInv
  <1> DEFINE b == batch.chain[node]
  <1>2. Len(batch.chain) \in Nat /\ node \in 1..Len(batch.chain) /\ b \in Buffers
    BY ElemsOf DEF BufInv, Front, Back, ListType, Write
  <1>3. mem[b].lines \in Seq(Nat) /\ mem[b].size \in Nat
    BY <1>2 DEF BufInv, Front, BufferType
  <1>4. /\ out' = out \o mem[b].lines /\ written' = written + mem[b].size
        /\ files' = IF handle \in Files
                    THEN [files EXCEPT ![handle] = @ + mem[b].size]
                    ELSE files
    BY DEF Write
  <1>5. out' \in Seq(Nat) /\ written' \in Nat /\ files' \in [Files -> Nat]
    <2>1. out \in Seq(Nat) /\ written \in Nat /\ files \in [Files -> Nat]
      BY DEF BufInv, Back
    <2> DEFINE m == mem[b]
    <2> HIDE DEF m, b
    <2>2. m.lines \in Seq(Nat) /\ m.size \in Nat
      BY <1>3 DEF m
    <2>3. out \o m.lines \in Seq(Nat) /\ written + m.size \in Nat
      BY <2>1, <2>2
    <2> DEFINE h == handle
    <2> HIDE DEF h
    <2>4. ASSUME h \in Files
          PROVE  [files EXCEPT ![h] = @ + m.size] \in [Files -> Nat]
      <3>1. files[h] + m.size \in Nat
        BY <2>1, <2>2, <2>4
      <3>2. QED
        BY <2>1, <3>1, Zenon
    <2>5. QED
      BY <1>4, <2>1, <2>3, <2>4 DEF m, h
  <1>6. QED
    BY <1>1, <1>2, <1>5 DEF BufInv, Back, Write, shared

(* The worker's two buffers come fresh from malloc.                          *)
LEMMA StartBuf ==
  ASSUME BufInv, Start
  PROVE  BufInv'
  <1> USE DEF BufInv
  <1>1. /\ new1' \in Buffers \ live /\ new2' \in Buffers \ (live \cup {new1'})
        /\ new1 = NULL /\ new2 = NULL
    BY DEF Start, CanAlloc, Fresh, Back
  <1>2. /\ live' = live \cup {new1', new2'}
        /\ mem' = [mem EXCEPT ![new1'] = Empty, ![new2'] = Empty]
        /\ pc' = "top"
        /\ UNCHANGED <<curr, nextb, list, running, front, made, batch, node,
                       today, files, out, dropped>>
    BY DEF Start
  <1>3. /\ mem' \in [Buffers -> BufferType]
        /\ mem'[new1'] = Empty /\ mem'[new2'] = Empty
        /\ \A a \in Buffers \ {new1', new2'} : mem'[a] = mem[a]
    BY <1>1, <1>2, EmptyType DEF Front
  <1>4. Elems(list.chain) \subseteq live /\ Elems(batch.chain) \subseteq live
        /\ curr \in live /\ nextb \in live \cup {NULL}
    BY DEF Front, Owned, Spares
  <1>5. Owned'
    <2>1. Apart'
      BY <1>1, <1>2, <1>4 DEF Apart, Front, Owned
    <2>2. Spares' = Spares \cup {new1', new2'}
      BY <1>1, <1>2 DEF Spares, Front
    <2>3. QED
      BY <1>1, <1>2, <1>4, <2>1, <2>2 DEF Front, Owned
  <1>6. Front'
    BY <1>1, <1>2, <1>3, <1>4, <1>5 DEF Front
  <1>7. Back'
    <2>1. /\ handle' \in Files \cup {Stdout, NULL}
          /\ written' \in Nat /\ rollday' \in 0..LastDay
      BY RollType DEF Start
    <2>2. batch.chain = <<>> /\ new1' # NULL /\ new2' # NULL
      BY <1>1 DEF Start, Back
    <2>3. QED
      BY <1>2, <2>1, <2>2 DEF Back
  <1>8. QED
    BY <1>6, <1>7

(* The worker takes the list and hands over its spare buffers.               *)
LEMMA SwapBuf ==
  ASSUME BufInv, Swap
  PROVE  BufInv'
  <1> USE DEF BufInv
  <1>1. /\ new1 \in Buffers /\ new2 \in Buffers /\ batch.chain = <<>>
    BY DEF Swap, Back, Front
  <1>2. /\ batch' = Push /\ list' = NoList /\ curr' = new1 /\ new1' = NULL
        /\ nextb' = (IF nextb = NULL THEN new2 ELSE nextb)
        /\ new2' = (IF nextb = NULL THEN NULL ELSE new2)
        /\ pc' = "drop"
        /\ UNCHANGED <<mem, live, running, front, made, node, today, files,
                       out, dropped>>
    BY DEF Swap
  <1>3. /\ Listed \in Seq(Buffers)
        /\ Len(Listed) = list.size + 1
        /\ Listed[list.size + 1] = curr
        /\ \A i, j \in 1..Len(Listed) : Listed[i] = Listed[j] => i = j
        /\ Elems(Listed) = Elems(list.chain) \cup {curr}
        /\ list.size \in Nat
    BY ListedType
  <1>4. /\ batch' = [chain |-> Listed, tail |-> curr, size |-> list.size + 1]
        /\ batch'.chain = Listed /\ batch'.tail = curr
        /\ batch'.size = list.size + 1
    BY <1>2, ListedType
  <1>5. /\ list'.chain = <<>> /\ list'.size = 0 /\ list' \in ListType
        /\ Elems(list'.chain) = {}
    BY <1>2, ElemsEmpty DEF NoList, ListType
  <1>6. batch' \in ListType
    BY <1>3, <1>4 DEF ListType, Front
  <1>7. Owned'
    <2>1. Apart'
      BY <1>1, <1>2 DEF Apart, Front, Owned
    <2>2. Elems(batch.chain) = {}
      BY <1>1, ElemsEmpty
    <2>3. Spares' = Spares \ {curr}
      BY <1>1, <1>2 DEF Spares, Front, Owned, Apart
    <2>4. curr # NULL /\ curr \in Spares
      BY DEF Front, Spares
    <2>5. Elems(batch'.chain) \cap Spares' = {}
      <3>1. Elems(list.chain) \cap {nextb, new1, new2} = {}
        BY DEF Front, Owned
      <3>2. QED
        BY <1>1, <1>2, <1>3, <1>4, <3>1, <2>3 DEF Spares
    <2>6. live' = Spares' \cup Elems(list'.chain) \cup Elems(batch'.chain)
      BY <1>2, <1>3, <1>4, <1>5, <2>2, <2>3, <2>4 DEF Front, Owned
    <2>7. \A i, j \in 1..Len(batch'.chain) :
            batch'.chain[i] = batch'.chain[j] => i = j
      BY <1>3, <1>4
    <2>8. QED
      BY <1>5, <2>1, <2>5, <2>6, <2>7 DEF Owned
  <1>8. Front'
    BY <1>1, <1>2, <1>5, <1>6, <1>7 DEF Front
  <1>9. Back'
    <2>1. /\ handle' \in Files \cup {Stdout, NULL}
          /\ written' \in Nat /\ rollday' \in 0..LastDay
      BY RollType DEF Swap, Back
    <2>2. nextb = NULL => list.size > 0
      BY <1>3 DEF Front
    <2>3. new2' = NULL => list.size + 1 > 1
      BY <1>1, <1>2, <1>3, <2>2
    <2>4. /\ Len(batch'.chain) = batch'.size /\ batch'.size > 0
          /\ batch'.chain[batch'.size] = batch'.tail
          /\ new2' = NULL => batch'.size > 1
      BY <1>3, <1>4, <2>3
    <2>5. /\ new1' = NULL /\ pc' = "drop"
          /\ UNCHANGED <<running, front, made, node, today, files, out, dropped>>
      BY <1>2
    <2>6. QED
      BY <2>1, <2>4, <2>5 DEF Back
  <1>10. QED
    BY <1>8, <1>9

(* A batch that is too long is cut to its first two buffers.                 *)
LEMMA CutBuf ==
  ASSUME BufInv, Cut
  PROVE  BufInv'
  <1> USE DEF BufInv
  <1> DEFINE c == batch.chain
             gone == {c[i] : i \in 3..Len(c)}
  <1>1. /\ pc = "cut" /\ new1 = NULL
        /\ c \in Seq(Buffers) /\ Len(c) \in Nat /\ Len(c) > 2
        /\ Elems(c) = {c[i] : i \in 1..Len(c)}
        /\ \A i, j \in 1..Len(c) : c[i] = c[j] => i = j
        /\ \A i \in 1..Len(c) : c[i] \in Buffers
    <2>1. pc = "cut"
      BY DEF Cut
    <2>2. /\ c \in Seq(Buffers)
          /\ \A i, j \in 1..Len(c) : c[i] = c[j] => i = j
      BY DEF Front, ListType, Owned
    <2>3. new1 = NULL /\ Len(c) = batch.size /\ batch.size > MaxBatch
      BY <2>1 DEF Back
    <2>4. batch.size \in Nat
      BY DEF Front, ListType
    <2> HIDE DEF c
    <2>5. /\ Elems(c) = {c[i] : i \in 1..Len(c)} /\ Len(c) \in Nat
          /\ \A i \in 1..Len(c) : c[i] \in Buffers
      BY <2>2, ElemsOf
    <2>6. QED
      BY <2>1, <2>2, <2>3, <2>4, <2>5
  <1>2. /\ dropped' = dropped \cup UNION {Lines(b) : b \in gone}
        /\ live' = live \ gone
        /\ batch' = [chain |-> SubSeq(c, 1, 2), tail |-> c[2], size |-> 2]
        /\ node' = 1 /\ pc' = "write"
        /\ UNCHANGED <<mem, curr, nextb, list, running, front, made, new1, new2,
                       today, disk, out>>
    BY DEF Cut
  <1>3. /\ SubSeq(c, 1, 2) \in Seq(Buffers) /\ Len(SubSeq(c, 1, 2)) = 2
        /\ SubSeq(c, 1, 2)[1] = c[1] /\ SubSeq(c, 1, 2)[2] = c[2]
    BY <1>1
  <1>4. Elems(SubSeq(c, 1, 2)) = {c[1], c[2]}
    <2> DEFINE t == SubSeq(c, 1, 2)
    <2> HIDE DEF t
    <2>1. Elems(t) = {t[i] : i \in 1..Len(t)}
      BY <1>3, ElemsOf DEF t
    <2>2. Len(t) = 2 /\ t[1] = c[1] /\ t[2] = c[2]
      BY <1>3 DEF t
    <2>3. QED
      BY <2>1, <2>2 DEF t
  <1>5. /\ gone \cap {c[1], c[2]} = {} /\ Elems(c) = gone \cup {c[1], c[2]}
    <2>1. \A i \in 3..Len(c) : i \in 1..Len(c) /\ i # 1 /\ i # 2
      BY <1>1
    <2>2. gone \cap {c[1], c[2]} = {}
      BY <1>1, <2>1
    <2>3. \A i : i \in 1..Len(c) <=> i \in 3..Len(c) \/ i = 1 \/ i = 2
      BY <1>1
    <2>4. QED
      BY <1>1, <2>2, <2>3
  <1>6. /\ batch'.chain = SubSeq(c, 1, 2) /\ batch'.tail = c[2] /\ batch'.size = 2
        /\ Elems(batch'.chain) = {c[1], c[2]} /\ Len(batch'.chain) = 2
        /\ batch'.chain[1] = c[1] /\ batch'.chain[2] = c[2]
        /\ batch' \in ListType
    BY <1>1, <1>2, <1>3, <1>4 DEF ListType
  <1> HIDE DEF c, gone
  <1>7. Owned'
    <2>1. Apart' /\ Spares' = Spares
      BY <1>2 DEF Apart, Front, Owned, Spares
    <2>2. /\ Elems(c) \cap (Elems(list.chain) \cup Spares) = {}
          /\ live = Spares \cup Elems(list.chain) \cup Elems(c)
      BY DEF Front, Owned, c
    <2>3. \A i, j \in 1..Len(batch'.chain) :
            batch'.chain[i] = batch'.chain[j] => i = j
      BY <1>1, <1>6
    <2>4. /\ \A i, j \in 1..Len(list'.chain) :
               list'.chain[i] = list'.chain[j] => i = j
          /\ Elems(list'.chain) \cap {nextb', new1', new2'} = {}
      BY <1>2 DEF Front, Owned
    <2>5. Elems(batch'.chain) \cap (Elems(list'.chain) \cup Spares') = {}
      BY <1>2, <1>5, <1>6, <2>1, <2>2
    <2>6. live' = Spares' \cup Elems(list'.chain) \cup Elems(batch'.chain)
      BY <1>2, <1>5, <1>6, <2>1, <2>2
    <2>7. QED
      BY <2>1, <2>3, <2>4, <2>5, <2>6 DEF Owned
  <1>8. Front'
    BY <1>2, <1>6, <1>7 DEF Front
  <1>9. Back'
    <2>1. dropped' \subseteq Nat
      <3>1. \A b \in gone : b \in Buffers
        BY <1>1 DEF gone
      <3>2. \A b \in Buffers : Lines(b) \subseteq Nat
        BY DEF Front, BufferType, Lines
      <3>3. dropped \subseteq Nat
        BY DEF Back
      <3>4. \A b \in gone : Lines(b) \subseteq Nat
        BY <3>1, <3>2
      <3>5. QED
        BY <1>2, <3>3, <3>4
    <2>2. QED
      BY <1>1, <1>2, <1>6, <2>1 DEF Back, disk
  <1>10. QED
    BY <1>8, <1>9

(* The worker takes its spare buffers back and frees the rest.               *)
LEMMA RefillBuf ==
  ASSUME BufInv, Refill
  PROVE  BufInv'
  <1> USE DEF BufInv
  <1> DEFINE c == batch.chain
             kept == IF new2 = NULL THEN 2 ELSE 1
             rest == {c[i] : i \in (kept + 1)..Len(c)}
             back == {c[i] : i \in 1..kept}
  <1>1. /\ pc = "refill" /\ new1 = NULL
        /\ c \in Seq(Buffers) /\ Len(c) \in Nat /\ kept \in 1..2 /\ kept <= Len(c)
        /\ Elems(c) = {c[i] : i \in 1..Len(c)}
        /\ \A i, j \in 1..Len(c) : c[i] = c[j] => i = j
        /\ \A i \in 1..Len(c) : c[i] \in Buffers
    BY ElemsOf DEF Refill, Back, Front, ListType, Owned
  <1>2. /\ new1' = c[1] /\ new2' = (IF new2 = NULL THEN c[2] ELSE new2)
        /\ mem' = [b \in Buffers |-> IF b \in back THEN Empty ELSE mem[b]]
        /\ live' = live \ rest
        /\ batch' = NoList /\ pc' = "top"
        /\ UNCHANGED <<curr, nextb, list, running, front, made, node, today,
                       disk, out, dropped>>
    BY DEF Refill
  <1>3. /\ back \cap rest = {} /\ back \cup rest = Elems(c)
        /\ c[1] \in back /\ back \subseteq Buffers
        /\ back = IF new2 = NULL THEN {c[1], c[2]} ELSE {c[1]}
        /\ new2 = NULL => c[1] # c[2]
    <2>1. \A i \in 1..Len(c) : i \in 1..kept <=> ~(i \in (kept + 1)..Len(c))
      BY <1>1
    <2>2. /\ \A i \in 1..kept : i \in 1..Len(c)
          /\ \A i \in (kept + 1)..Len(c) : i \in 1..Len(c)
      BY <1>1
    <2>3. back \cap rest = {} /\ back \cup rest = Elems(c) /\ back \subseteq Buffers
      BY <1>1, <2>1, <2>2
    <2>4. CASE new2 = NULL
      <3>1. \A i : i \in 1..kept <=> i = 1 \/ i = 2
        BY <2>4
      <3>2. QED
        BY <1>1, <2>3, <2>4, <3>1
    <2>5. CASE new2 # NULL
      <3>1. \A i : i \in 1..kept <=> i = 1
        BY <2>5
      <3>2. QED
        BY <1>1, <2>3, <2>5, <3>1
    <2>6. QED
      BY <2>4, <2>5
  <1>4. /\ batch'.chain = <<>> /\ batch' \in ListType /\ Elems(batch'.chain) = {}
        /\ Len(batch'.chain) = 0
    BY <1>2, ElemsEmpty DEF NoList, ListType
  <1>5. /\ Elems(c) \cap (Elems(list.chain) \cup Spares) = {}
        /\ live = Spares \cup Elems(list.chain) \cup Elems(c)
        /\ NULL \notin Buffers
    BY DEF Front, Owned
  <1> HIDE DEF c, rest, back, kept
  <1>6. /\ new1' \in back /\ new2' \in Buffers
        /\ new1' # new2' /\ Spares' = Spares \cup back
    <2>1. CASE new2 = NULL
      BY <2>1, <1>1, <1>2, <1>3 DEF Spares
    <2>2. CASE new2 # NULL
      <3>1. new2 \in Spares /\ new2 \in Buffers
        BY <2>2 DEF Spares, Front
      <3>2. QED
        BY <2>2, <3>1, <1>1, <1>2, <1>3, <1>5 DEF Spares
    <2>3. QED
      BY <2>1, <2>2
  <1>7. Owned'
    <2>1. Apart'
      <3>1. curr \in Spares /\ (nextb # NULL => nextb \in Spares)
        BY <1>5 DEF Spares, Front
      <3>2. \A b \in back : b \notin Spares
        BY <1>3, <1>5
      <3>3. new2' \in back \/ new2' = new2
        BY <1>2, <1>3
      <3>4. QED
        BY <1>2, <1>6, <3>1, <3>2, <3>3 DEF Apart, Front, Owned
    <2>2. /\ \A i, j \in 1..Len(list'.chain) :
               list'.chain[i] = list'.chain[j] => i = j
          /\ \A i, j \in 1..Len(batch'.chain) :
               batch'.chain[i] = batch'.chain[j] => i = j
      BY <1>2, <1>4 DEF Front, Owned
    <2>3. Elems(list'.chain) \cap {nextb', new1', new2'} = {}
      <3>1. Elems(list.chain) \cap {nextb, new2} = {}
        BY DEF Front, Owned
      <3>2. Elems(list.chain) \cap back = {}
        BY <1>3, <1>5
      <3>3. new2' \in back \/ new2' = new2
        BY <1>2, <1>3
      <3>4. QED
        BY <1>2, <1>6, <3>1, <3>2, <3>3
    <2>4. live' = Spares' \cup Elems(list'.chain) \cup Elems(batch'.chain)
      BY <1>2, <1>3, <1>4, <1>5, <1>6
    <2>5. QED
      BY <1>4, <2>1, <2>2, <2>3, <2>4 DEF Owned
  <1>8. mem' \in [Buffers -> BufferType]
    BY <1>2, EmptyType DEF Front
  <1>9. \A b \in {nextb', new1', new2'} \ {NULL} : mem'[b] = Empty
    <2>1. \A b \in {nextb, new2} \ {NULL} : b \in Buffers /\ mem[b] = Empty
      BY DEF Front
    <2>2. new2' \in back \/ new2' = new2
      BY <1>2, <1>3
    <2>3. \A b \in {nextb', new1', new2'} \ {NULL} :
            b \in back \/ b \in {nextb, new2} \ {NULL}
      BY <1>2, <1>6, <2>2
    <2>4. \A b \in Buffers : (b \in back \/ mem[b] = Empty) => mem'[b] = Empty
      BY <1>2
    <2>5. QED
      BY <1>3, <2>1, <2>3, <2>4
  <1>10. Front'
    BY <1>2, <1>3, <1>4, <1>6, <1>7, <1>8, <1>9 DEF Front
  <1>11. Back'
    <2>1. new1' # NULL /\ new2' # NULL
      BY <1>3, <1>5, <1>6
    <2>2. QED
      BY <1>2, <1>4, <2>1 DEF Back, disk
  <1>12. QED
    BY <1>10, <1>11

-----------------------------------------------------------------------------
LEMMA InitBuf ==
  ASSUME Init
  PROVE  BufInv
  <1>1. PICK b1, b2 \in Buffers :
          /\ b1 # b2 /\ curr = b1 /\ nextb = b2 /\ live = {b1, b2}
    BY DEF Init
  <1>2. /\ list.chain = <<>> /\ list.size = 0 /\ list \in ListType
        /\ batch.chain = <<>> /\ batch \in ListType /\ batch.size = 0
        /\ Elems(list.chain) = {} /\ Elems(batch.chain) = {}
        /\ Len(list.chain) = 0 /\ Len(batch.chain) = 0
    BY ElemsEmpty DEF Init, NoList, ListType
  <1>3. /\ mem = [b \in Buffers |-> Empty] /\ new1 = NULL /\ new2 = NULL
        /\ pc = "start"
    BY DEF Init
  <1>4. Owned
    BY <1>1, <1>2, <1>3 DEF Owned, Apart, Spares
  <1>5. Front
    BY <1>1, <1>2, <1>3, <1>4, EmptyType DEF Front
  <1>6. Back
    BY <1>2, <1>3 DEF Init, Back, Files
  <1>7. QED
    BY <1>5, <1>6 DEF BufInv

LEMMA NextBuf ==
  ASSUME BufInv, [Next]_vars
  PROVE  BufInv'
  <1>1. CASE UNCHANGED vars
    <2>1. Front'
      BY <1>1, FrontSame DEF vars, BufInv
    <2>2. Back'
      BY <1>1 DEF vars, BufInv, Back
    <2>3. QED
      BY <2>1, <2>2 DEF BufInv
  <1>2. QED
    BY <1>1, LogBuf, NoticeBuf, QuietBuf, WriteBuf, StartBuf, SwapBuf, CutBuf,
       RefillBuf DEF Next, Worker

(* In every state BufInv holds: the buffers of append and worker_func        *)
(* (lua-log.c:165-212, 216-358) are typed, owned by one place, and linked.    *)
THEOREM BufferInvariant == Spec => []BufInv
  <1>1. Init => BufInv
    BY InitBuf
  <1>2. BufInv /\ [Next]_vars => BufInv'
    BY NextBuf
  <1>3. QED
    BY <1>1, <1>2, PTL DEF Spec

(* Every variable of the logger keeps its type.                              *)
THEOREM Types == Spec => []TypeOK
  <1>1. BufInv => TypeOK
    BY DEF BufInv, Front, Back, BufferType, ListType, TypeOK
  <1>2. QED
    BY <1>1, BufferInvariant, PTL

(* No buffer is in two places and none is lost (lua-log.c:178-208, 247-352). *)
THEOREM Ownership == Spec => []BuffersOwned
  <1>1. ASSUME BufInv
        PROVE  BuffersOwned
    <2>1. Owned /\ curr # NULL
      BY <1>1 DEF BufInv, Front
    <2>2. /\ list.chain \in Seq(Buffers) /\ batch.chain \in Seq(Buffers)
      BY <1>1 DEF BufInv, Front, ListType
    <2>3. \A x, y \in {"curr", "next", "new1", "new2"} :
            LET at(p) == CASE p = "curr" -> curr [] p = "next" -> nextb
                           [] p = "new1" -> new1 [] p = "new2" -> new2
            IN  (at(x) = at(y) /\ at(x) # NULL) => x = y
      BY <2>1 DEF Owned, Apart
    <2>4. /\ DOMAIN list.chain = 1..Len(list.chain)
          /\ DOMAIN batch.chain = 1..Len(batch.chain)
      BY <2>2
    <2>5. /\ \A i, j \in DOMAIN list.chain :
               list.chain[i] = list.chain[j] => i = j
          /\ \A i, j \in DOMAIN batch.chain :
               batch.chain[i] = batch.chain[j] => i = j
      BY <2>1, <2>4 DEF Owned
    <2>6. /\ Elems(list.chain) \cap {nextb, new1, new2} = {}
          /\ Elems(batch.chain) \cap (Elems(list.chain) \cup Spares) = {}
          /\ live = Spares \cup Elems(list.chain) \cup Elems(batch.chain)
      BY <2>1 DEF Owned
    <2>7. QED
      BY <2>3, <2>5, <2>6, Zenon DEF BuffersOwned
  <1>2. QED
    BY <1>1, BufferInvariant, PTL

(* The assertions of append and worker_func hold                             *)
(* (lua-log.c:179, 189, 227-229, 278, 325, 334).                             *)
THEOREM Asserts == Spec => []AssertsHold
  <1>1. ASSUME BufInv
        PROVE  AssertsHold
    <2>1. pc \in {"top", "wait"} =>
            /\ new1 # NULL /\ mem[new1].size = 0
            /\ new2 # NULL /\ mem[new2].size = 0
      BY <1>1 DEF BufInv, Front, Back, Empty
    <2>2. /\ (list.chain = <<>>) <=> (list.size = 0)
          /\ list.chain # <<>> =>
               /\ Len(list.chain) = list.size + 1
               /\ list.chain[list.size] = list.tail
               /\ list.chain[list.size + 1] = curr
      BY <1>1 DEF BufInv, Front
    <2>3. /\ pc \in {"top", "wait"} => batch.chain = <<>>
          /\ pc \in {"drop", "cut", "write", "refill"} =>
               /\ Len(batch.chain) = batch.size
               /\ batch.size > 0 /\ batch.chain[batch.size] = batch.tail
               /\ new2 = NULL => batch.size > 1
      BY <1>1 DEF BufInv, Back
    <2>4. QED
      BY <2>1, <2>2, <2>3 DEF AssertsHold
  <1>2. QED
    BY <1>1, BufferInvariant, PTL

-----------------------------------------------------------------------------
(* The lines still to be written, buffer by buffer.                          *)
Content == [i \in 1..Len(Pending) |-> mem[Pending[i]].lines]

LineInv == Good(out, Content, dropped, made)

LEMMA SubSeqEnd ==
  ASSUME NEW S, NEW s \in Seq(S), NEW n \in 1..(Len(s) + 1)
  PROVE  /\ SubSeq(s, n, Len(s)) \in Seq(S)
         /\ Len(SubSeq(s, n, Len(s))) = Len(s) - n + 1
         /\ \A i \in 1..(Len(s) - n + 1) : SubSeq(s, n, Len(s))[i] = s[n + i - 1]
  OBVIOUS

LEMMA ConcatAt ==
  ASSUME NEW S, NEW s \in Seq(S), NEW t \in Seq(S)
  PROVE  /\ s \o t \in Seq(S)
         /\ Len(s \o t) = Len(s) + Len(t) /\ Len(s) \in Nat /\ Len(t) \in Nat
         /\ \A i \in 1..Len(s) : (s \o t)[i] = s[i]
         /\ \A i \in 1..Len(t) : (s \o t)[Len(s) + i] = t[i]
         /\ \A i : i \in 1..Len(s \o t) =>
              i \in 1..Len(s) \/ \E j \in 1..Len(t) : i = Len(s) + j
  <1>1. /\ s \o t \in Seq(S)
        /\ Len(s \o t) = Len(s) + Len(t) /\ Len(s) \in Nat /\ Len(t) \in Nat
        /\ \A i \in 1..Len(s) : (s \o t)[i] = s[i]
        /\ \A i \in 1..Len(t) : (s \o t)[Len(s) + i] = t[i]
    OBVIOUS
  <1>2. ASSUME NEW i \in 1..(Len(s) + Len(t)), i \notin 1..Len(s)
        PROVE  \E j \in 1..Len(t) : i = Len(s) + j
    <2>1. i - Len(s) \in 1..Len(t) /\ i = Len(s) + (i - Len(s))
      BY <1>1, <1>2
    <2>2. QED
      BY <2>1
  <1>3. QED
    BY <1>1, <1>2

(* The buffers of the batch not yet written.                                 *)
LEMMA UnwrittenType ==
  ASSUME BufInv
  PROVE  /\ Unwritten \in Seq(Buffers) /\ Len(Unwritten) \in Nat
         /\ \A i, j \in 1..Len(Unwritten) : Unwritten[i] = Unwritten[j] => i = j
         /\ \A i \in 1..Len(Unwritten) : Unwritten[i] \in Elems(batch.chain)
  <1> DEFINE c == batch.chain
  <1>1. /\ c \in Seq(Buffers)
        /\ \A i, j \in 1..Len(c) : c[i] = c[j] => i = j
    BY DEF BufInv, Front, ListType, Owned
  <1>2. /\ Elems(c) = {c[i] : i \in 1..Len(c)} /\ Len(c) \in Nat
    BY <1>1, ElemsOf
  <1>3. CASE pc = "write"
    <2>1. node \in 1..(Len(c) + 1) /\ Unwritten = SubSeq(c, node, Len(c))
      BY <1>3 DEF BufInv, Back, Unwritten
    <2> HIDE DEF c
    <2>2. /\ Unwritten \in Seq(Buffers) /\ Len(Unwritten) = Len(c) - node + 1
          /\ \A i \in 1..(Len(c) - node + 1) : Unwritten[i] = c[node + i - 1]
      BY <1>1, <2>1, SubSeqEnd
    <2>3. \A i \in 1..(Len(c) - node + 1) : node + i - 1 \in 1..Len(c)
      BY <1>2, <2>1
    <2>4. \A i, j \in 1..Len(Unwritten) : Unwritten[i] = Unwritten[j] => i = j
      <3>1. \A i, j \in 1..Len(Unwritten) :
              Unwritten[i] = Unwritten[j] => node + i - 1 = node + j - 1
        BY <1>1, <2>2, <2>3
      <3>2. Len(c) - node + 1 \in Nat /\ node \in Nat
        BY <1>2, <2>1
      <3>3. QED
        BY <3>1, <3>2, <2>2
    <2>5. \A i \in 1..Len(Unwritten) : Unwritten[i] \in Elems(c)
      BY <1>2, <2>2, <2>3
    <2>6. Len(Unwritten) \in Nat
      BY <1>2, <2>1, <2>2
    <2>7. QED
      BY <2>2, <2>4, <2>5, <2>6 DEF c
  <1>4. CASE pc \in {"drop", "cut"}
    <2>1. Unwritten = c
      BY <1>4 DEF Unwritten
    <2>2. QED
      BY <2>1, <1>1, <1>2
  <1>5. CASE pc \notin {"write", "drop", "cut"}
    <2>1. Unwritten = <<>>
      BY <1>5 DEF Unwritten
    <2>2. QED
      BY <2>1
  <1>6. QED
    BY <1>3, <1>4, <1>5

(* What is pending: different buffers, the current one last, no spare one.   *)
PendingFacts ==
  /\ Unwritten \in Seq(Buffers) /\ Len(Unwritten) \in Nat
  /\ Listed \in Seq(Buffers) /\ Len(Listed) \in Nat \ {0}
  /\ Pending \in Seq(Buffers)
  /\ Len(Pending) = Len(Unwritten) + Len(Listed)
  /\ \A i \in 1..Len(Unwritten) : Pending[i] = Unwritten[i]
  /\ \A i \in 1..Len(Listed) : Pending[Len(Unwritten) + i] = Listed[i]
  /\ Len(Pending) \in Nat \ {0} /\ Pending[Len(Pending)] = curr
  /\ \A i \in 1..Len(Pending) :
       /\ Pending[i] \in Buffers
       /\ Pending[i] \in Elems(batch.chain) \cup Elems(Listed)
       /\ Pending[i] \in live
       /\ Pending[i] \notin {nextb, new1, new2}
  /\ \A i, j \in 1..Len(Pending) : Pending[i] = Pending[j] => i = j
  /\ Content \in LineSeqs /\ Len(Content) = Len(Pending)
  /\ \A i \in 1..Len(Pending) : Content[i] = mem[Pending[i]].lines

LEMMA PendingType == BufInv => PendingFacts
  <1> SUFFICES ASSUME BufInv
               PROVE  PendingFacts
    OBVIOUS
  <1> DEFINE u == Unwritten
             l == Listed
  <1>1. /\ u \in Seq(Buffers) /\ Len(u) \in Nat
        /\ \A i, j \in 1..Len(u) : u[i] = u[j] => i = j
        /\ \A i \in 1..Len(u) : u[i] \in Elems(batch.chain)
    BY UnwrittenType
  <1>2. /\ l \in Seq(Buffers) /\ Len(l) = list.size + 1 /\ l[list.size + 1] = curr
        /\ \A i, j \in 1..Len(l) : l[i] = l[j] => i = j
        /\ Elems(l) = Elems(list.chain) \cup {curr} /\ list.size \in Nat
    BY ListedType DEF BufInv
  <1>3. \A i \in 1..Len(l) : l[i] \in Elems(l)
    BY <1>2, ElemsOf
  <1>4. Pending = u \o l
    BY DEF Pending
  <1> HIDE DEF u, l
  <1>5. /\ Pending \in Seq(Buffers)
        /\ Len(Pending) = Len(u) + Len(l)
        /\ \A i \in 1..Len(u) : Pending[i] = u[i]
        /\ \A i \in 1..Len(l) : Pending[Len(u) + i] = l[i]
        /\ \A i \in 1..Len(Pending) :
             i \in 1..Len(u) \/ \E j \in 1..Len(l) : i = Len(u) + j
    <2> DEFINE v == u \o l
    <2>1. /\ v \in Seq(Buffers)
          /\ Len(v) = Len(u) + Len(l)
          /\ \A i \in 1..Len(u) : v[i] = u[i]
          /\ \A i \in 1..Len(l) : v[Len(u) + i] = l[i]
          /\ \A i : i \in 1..Len(v) =>
               i \in 1..Len(u) \/ \E j \in 1..Len(l) : i = Len(u) + j
      <3>1. u \in Seq(Buffers) /\ l \in Seq(Buffers)
        BY <1>1, <1>2
      <3>2. QED
        BY <3>1, ConcatAt
    <2>2. Pending = v
      BY <1>4
    <2> HIDE DEF v
    <2>3. QED
      BY <2>1, <2>2
  <1>6. Len(Pending) \in Nat \ {0} /\ Len(l) \in Nat \ {0}
    BY <1>1, <1>2, <1>5
  <1>7. Pending[Len(Pending)] = curr
    <2>1. Len(l) \in 1..Len(l)
      BY <1>6
    <2>2. Pending[Len(u) + Len(l)] = l[Len(l)]
      BY <1>5, <2>1
    <2>3. QED
      BY <1>2, <1>5, <2>2
  <1>8. /\ Elems(batch.chain) \cap (Elems(list.chain) \cup Spares) = {}
        /\ Elems(list.chain) \cap {nextb, new1, new2} = {}
        /\ curr \notin {nextb, new1, new2} /\ curr \in Spares
        /\ live = Spares \cup Elems(list.chain) \cup Elems(batch.chain)
        /\ NULL \notin Buffers /\ curr \in Buffers
        /\ Elems(batch.chain) \subseteq Buffers
    BY ElemsOf DEF BufInv, Front, Owned, Apart, Spares, ListType
  <1>9. Elems(batch.chain) \cap {nextb, new1, new2} = {}
    BY <1>8 DEF Spares
  <1>10. \A i \in 1..Len(Pending) :
           Pending[i] \in Elems(batch.chain) \/ Pending[i] \in Elems(l)
    BY <1>1, <1>3, <1>5
  <1>11. \A i \in 1..Len(Pending) :
              /\ Pending[i] \in Buffers
              /\ Pending[i] \in Elems(batch.chain) \cup Elems(l)
              /\ Pending[i] \in live
              /\ Pending[i] \notin {nextb, new1, new2}
    <2>1. \A i \in 1..Len(Pending) : Pending[i] \in Buffers
      BY <1>5
    <2>2. QED
      BY <1>2, <1>8, <1>9, <1>10, <2>1
  <1>12. \A i, j \in 1..Len(Pending) : Pending[i] = Pending[j] => i = j
    <2>1. TAKE i, j \in 1..Len(Pending)
    <2>2. HAVE Pending[i] = Pending[j]
    <2>3. \A k \in 1..Len(u), m \in 1..Len(l) : u[k] # l[m]
      BY <1>1, <1>2, <1>3, <1>8
    <2>4. CASE i \in 1..Len(u) /\ j \in 1..Len(u)
      BY <2>2, <2>4, <1>1, <1>5
    <2>5. ASSUME NEW k \in 1..Len(l), i = Len(u) + k, NEW m \in 1..Len(l), j = Len(u) + m
          PROVE  i = j
      <3>1. Pending[i] = l[k] /\ Pending[j] = l[m]
        BY <2>5, <1>5
      <3>2. k = m
        BY <2>2, <2>5, <3>1, <1>2
      <3>3. QED
        BY <2>5, <3>2
    <2>6. ASSUME i \in 1..Len(u), NEW m \in 1..Len(l), j = Len(u) + m
          PROVE  i = j
      <3>1. Pending[i] = u[i] /\ Pending[j] = l[m]
        BY <2>6, <1>5
      <3>2. QED
        BY <2>2, <2>3, <2>6, <3>1
    <2>7. ASSUME j \in 1..Len(u), NEW m \in 1..Len(l), i = Len(u) + m
          PROVE  i = j
      <3>1. Pending[j] = u[j] /\ Pending[i] = l[m]
        BY <2>7, <1>5
      <3>2. QED
        BY <2>2, <2>3, <2>7, <3>1
    <2>8. QED
      BY <2>4, <2>5, <2>6, <2>7, <1>5
  <1>13. /\ Content \in LineSeqs /\ Len(Content) = Len(Pending)
         /\ \A i \in 1..Len(Pending) : Content[i] = mem[Pending[i]].lines
    <2>1. \A i \in 1..Len(Pending) : mem[Pending[i]].lines \in Seq(Nat)
      BY <1>5 DEF BufInv, Front, BufferType
    <2>2. QED
      BY <1>6, <2>1 DEF Content, LineSeqs
  <1>14. QED
    BY <1>1, <1>2, <1>5, <1>6, <1>7, <1>11, <1>12, <1>13 DEF u, l, PendingFacts

LEMMA PendingNext == BufInv' => PendingFacts'
  BY PendingType, PTL

-----------------------------------------------------------------------------
(* Each action keeps the lines in order.                                     *)

(* The same buffers with the same lines.                                     *)
LEMMA LinesSame ==
  ASSUME BufInv, BufInv', LineInv, Pending' = Pending,
         \A i \in 1..Len(Pending) : mem'[Pending[i]] = mem[Pending[i]],
         UNCHANGED <<out, dropped, made>>
  PROVE  LineInv'
  <1>1. Content' = Content
    BY DEF Content
  <1>2. QED
    BY <1>1 DEF LineInv

LEMMA LinesAppend ==
  ASSUME BufInv, BufInv', LineInv, NEW len \in Nat, AppendLine(made', len),
         made' = made + 1, UNCHANGED <<out, dropped>>, Unwritten' = Unwritten
  PROVE  LineInv'
  <1> DEFINE L == Content
             M == Content'
             z == Len(Pending)
  <1>1. PendingFacts /\ PendingFacts'
    BY PendingType, PendingNext
  <1>2. /\ L \in LineSeqs /\ Len(L) = z /\ z \in Nat \ {0}
        /\ \A i \in 1..z : L[i] = mem[Pending[i]].lines /\ Pending[i] \in Buffers
        /\ Pending[z] = curr /\ curr \in Buffers
        /\ \A i, j \in 1..z : Pending[i] = Pending[j] => i = j
    BY <1>1 DEF PendingFacts, BufInv, Front
  <1>3. /\ made \in Nat /\ out \in Seq(Nat) /\ made' = made + 1
        /\ mem \in [Buffers -> BufferType]
    BY DEF BufInv, Back, Front
  <1>4. CASE Stays(made', len)
    <2>1. mem' = Put(mem, curr, made', len) /\ Listed' = Listed
      BY <1>4 DEF Stays, Listed
    <2>2. Pending' = Pending
      BY <2>1 DEF Pending
    <2>3. /\ mem'[curr].lines = Append(mem[curr].lines, made + 1)
          /\ \A a \in Buffers \ {curr} : mem'[a] = mem[a]
      <3>1. made' \in Nat /\ curr \in Buffers
        BY <1>2, <1>3
      <3>2. /\ Put(mem, curr, made', len)[curr].lines
                 = Append(mem[curr].lines, made')
            /\ \A a \in Buffers \ {curr} :
                 Put(mem, curr, made', len)[a] = mem[a]
        BY <1>3, <3>1, PutType, SMTT(60)
      <3>3. /\ mem'[curr].lines = Append(mem[curr].lines, made')
            /\ \A a \in Buffers \ {curr} : mem'[a] = mem[a]
        BY <2>1, <3>2, Zenon
      <3>4. QED
        BY <1>3, <3>3, Zenon
    <2>4. Len(M) = z /\ \A i \in 1..z : M[i] = mem'[Pending[i]].lines
      BY <1>1, <2>2 DEF PendingFacts
    <2> HIDE DEF L, M, z
    <2>5. \A i \in 1..z : i # z => M[i] = L[i]
      BY <1>2, <2>3, <2>4
    <2>6. M[z] = Append(L[z], made + 1)
      <3>1. z \in 1..z
        BY <1>2
      <3>2. M[z] = mem'[curr].lines /\ L[z] = mem[curr].lines
        BY <3>1, <1>2, <2>4
      <3>3. QED
        BY <3>2, <2>3, Zenon
    <2>7. Good(out, M, dropped, made + 1)
      BY <1>2, <1>3, <2>4, <2>5, <2>6, LastGets DEF LineInv, L
    <2>8. QED
      BY <2>7, <1>3 DEF LineInv, M
  <1>5. ASSUME NEW b \in Buffers, Takes(b, made', len)
        PROVE  LineInv'
    <2> DEFINE m == [mem EXCEPT ![b] = Empty]
    <2>1. /\ mem' = Put(m, b, made', len) /\ curr' = b
          /\ list'.chain = Append(Listed, b)
      BY <1>5 DEF Takes
    <2>2. /\ mem'[b].lines = Append(<<>>, made + 1)
          /\ \A a \in Buffers \ {b} : mem'[a] = mem[a]
      <3> HIDE DEF m
      <3>1. /\ m \in [Buffers -> BufferType] /\ m[b] = Empty
            /\ \A a \in Buffers \ {b} : m[a] = mem[a]
        BY <1>3, EmptyBuffer DEF m
      <3>2. made' \in Nat /\ made' = made + 1
        BY <1>3
      <3>3. /\ Put(m, b, made', len)[b].lines = Append(m[b].lines, made')
            /\ \A a \in Buffers \ {b} : Put(m, b, made', len)[a] = m[a]
        BY <3>1, <3>2, PutType, SMTT(60)
      <3>4. /\ mem'[b].lines = Append(m[b].lines, made + 1)
            /\ \A a \in Buffers \ {b} : mem'[a] = m[a]
        BY <2>1, <3>2, <3>3, Zenon
      <3>5. m[b].lines = <<>>
        BY <3>1 DEF Empty
      <3>6. QED
        BY <3>1, <3>4, <3>5, Zenon
    <2>3. Listed' = Append(Listed, b)
      <3>1. Listed \in Seq(Buffers)
        BY <1>1 DEF PendingFacts
      <3>2. Append(Listed, b) # <<>>
        BY <3>1
      <3>3. QED
        BY <2>1, <3>2 DEF Listed
    <2>4. /\ Len(Pending') = z + 1 /\ Pending'[z + 1] = b
          /\ \A i \in 1..z : Pending'[i] = Pending[i] /\ Pending[i] # b
      <3>1. /\ Unwritten \in Seq(Buffers) /\ Len(Unwritten) \in Nat
            /\ Listed \in Seq(Buffers) /\ Len(Listed) \in Nat \ {0}
        BY <1>1 DEF PendingFacts
      <3>2. /\ Append(Listed, b) \in Seq(Buffers)
            /\ Len(Append(Listed, b)) = Len(Listed) + 1
            /\ \A i \in 1..Len(Listed) : Append(Listed, b)[i] = Listed[i]
            /\ Append(Listed, b)[Len(Listed) + 1] = b
        BY <3>1, ElemsAppend
      <3>3. /\ Len(Pending') = Len(Unwritten) + Len(Listed) + 1
            /\ \A i \in 1..Len(Unwritten) : Pending'[i] = Unwritten[i]
            /\ \A i \in 1..(Len(Listed) + 1) :
                 Pending'[Len(Unwritten) + i] = Listed'[i]
        BY <1>1, <2>3, <3>1, <3>2 DEF PendingFacts
      <3>4. /\ z = Len(Unwritten) + Len(Listed)
            /\ \A i \in 1..Len(Unwritten) : Pending[i] = Unwritten[i]
            /\ \A i \in 1..Len(Listed) : Pending[Len(Unwritten) + i] = Listed[i]
        BY <1>1 DEF PendingFacts
      <3>5. ASSUME NEW i \in 1..z
            PROVE  Pending'[i] = Pending[i]
        <4>1. CASE i \in 1..Len(Unwritten)
          BY <4>1, <3>3, <3>4
        <4>2. CASE i \notin 1..Len(Unwritten)
          <5> DEFINE j == i - Len(Unwritten)
          <5>1. j \in 1..Len(Listed) /\ i = Len(Unwritten) + j
                /\ j \in 1..(Len(Listed) + 1)
            BY <4>2, <3>1, <3>4
          <5> HIDE DEF j
          <5>2. Pending'[i] = Listed'[j] /\ Pending[i] = Listed[j]
            BY <5>1, <3>3, <3>4
          <5>3. QED
            BY <5>1, <5>2, <2>3, <3>2
        <4>3. QED
          BY <4>1, <4>2
      <3>6. Pending'[z + 1] = b
        <4>1. Len(Listed) + 1 \in 1..(Len(Listed) + 1)
          BY <3>1
        <4>2. Pending'[Len(Unwritten) + (Len(Listed) + 1)] = Listed'[Len(Listed) + 1]
          BY <3>3, <4>1
        <4>3. z + 1 = Len(Unwritten) + (Len(Listed) + 1)
          BY <3>1, <3>4
        <4>4. QED
          BY <4>2, <4>3, <2>3, <3>2
      <3>7. Len(Pending') = z + 1
        BY <3>1, <3>3, <3>4
      <3>8. \A i \in 1..z : Pending[i] # b
        <4>1. /\ \A i \in 1..z : Pending[i] \in Elems(batch.chain) \cup Elems(Listed)
              /\ b \notin Elems(Listed) \cup Elems(batch.chain)
          BY <1>1, <1>5 DEF PendingFacts, Takes
        <4>2. QED
          BY <4>1
      <3>9. QED
        BY <3>5, <3>6, <3>7, <3>8
    <2>5. /\ M \in LineSeqs /\ Len(M) = z + 1
          /\ \A i \in 1..(z + 1) : M[i] = mem'[Pending'[i]].lines
      BY <1>1, <2>4 DEF PendingFacts
    <2> HIDE DEF L, M, z, m
    <2> DEFINE E == Append(L, <<>>)
    <2>6. /\ E \in LineSeqs /\ Len(E) = z + 1
          /\ \A i \in 1..z : E[i] = L[i]
          /\ E[z + 1] = <<>>
      <3>1. <<>> \in Seq(Nat)
        OBVIOUS
      <3>2. QED
        BY <3>1, <1>2, ElemsAppend DEF LineSeqs
    <2> HIDE DEF E
    <2>7. Good(out, E, dropped, made)
      BY <1>2, <2>6, EmptyLast DEF LineInv, L
    <2>8. /\ \A i \in 1..(z + 1) : i # z + 1 => M[i] = E[i]
          /\ M[z + 1] = Append(E[z + 1], made + 1)
      <3>1. \A i \in 1..(z + 1) : i # z + 1 => i \in 1..z
        BY <1>2
      <3>2. \A i \in 1..z : M[i] = E[i]
        <4>1. \A i \in 1..z : i \in 1..(z + 1)
          BY <1>2
        <4>2. QED
          BY <4>1, <1>2, <2>2, <2>4, <2>5, <2>6
      <3>3. M[z + 1] = Append(E[z + 1], made + 1)
        <4>1. z + 1 \in 1..(z + 1)
          BY <1>2
        <4>2. QED
          BY <4>1, <2>2, <2>4, <2>5, <2>6
      <3>4. QED
        BY <3>1, <3>2, <3>3
    <2>9. Good(out, M, dropped, made + 1)
      <3>1. z + 1 \in Nat \ {0}
        BY <1>2
      <3>2. QED
        BY <3>1, <1>3, <2>5, <2>6, <2>7, <2>8, LastGets
    <2>10. QED
      BY <2>9, <1>3 DEF LineInv, M
  <1>6. QED
    BY <1>4, <1>5, AppendCases DEF BufInv

(* Nothing moves in what is pending: the handshake at the end, the clock,    *)
(* the worker's start, its choices and the buffers it takes back.            *)
LEMMA QuietLines ==
  ASSUME BufInv, BufInv', LineInv,
         Exit \/ Joined \/ NextDay \/ Loop \/ NoCut \/ Flush \/ Start \/ Refill
  PROVE  LineInv'
  <1>1. PendingFacts /\ Front /\ Back
    BY PendingType DEF BufInv
  <1>2. UNCHANGED <<out, dropped, made>> /\ UNCHANGED <<list, curr>>
    BY DEF Exit, Joined, NextDay, Loop, NoCut, Flush, Start, Refill, shared, disk
  <1>3. Listed' = Listed
    BY <1>2 DEF Listed
  <1>4. Unwritten' = Unwritten
    <2>1. CASE Exit \/ Joined \/ NextDay
      <3>1. UNCHANGED <<pc, batch, node>>
        BY <2>1 DEF Exit, Joined, NextDay
      <3>2. QED
        BY <3>1 DEF Unwritten
    <2>2. CASE Loop \/ Start \/ Refill
      <3>1. pc \notin {"write", "drop", "cut"} /\ pc' \notin {"write", "drop", "cut"}
        BY <2>2 DEF Loop, Start, Refill
      <3>2. QED
        BY <3>1 DEF Unwritten
    <2>3. CASE NoCut
      <3>1. pc = "drop" /\ pc' = "write" /\ node' = 1 /\ batch' = batch
        BY <2>3 DEF NoCut
      <3>2. batch.chain \in Seq(Buffers) => SubSeq(batch.chain, 1, Len(batch.chain)) = batch.chain
        OBVIOUS
      <3>3. QED
        BY <1>1, <3>1, <3>2 DEF Unwritten, Front, ListType
    <2>4. CASE Flush
      <3>1. pc = "write" /\ pc' = "refill" /\ node > Len(batch.chain)
        BY <2>4 DEF Flush
      <3>2. node \in 1..(Len(batch.chain) + 1)
        BY <1>1, <3>1 DEF Back
      <3>3. \A c \in Seq(Buffers) : SubSeq(c, Len(c) + 1, Len(c)) = <<>>
        OBVIOUS
      <3>4. batch.chain \in Seq(Buffers) /\ Len(batch.chain) \in Nat
        BY <1>1 DEF Front, ListType
      <3>5. node = Len(batch.chain) + 1
        BY <3>1, <3>2, <3>4
      <3>6. QED
        BY <3>1, <3>3, <3>4, <3>5 DEF Unwritten
    <2>5. QED
      BY <2>1, <2>2, <2>3, <2>4
  <1>5. Pending' = Pending
    BY <1>3, <1>4 DEF Pending
  <1>6. \A i \in 1..Len(Pending) : mem'[Pending[i]] = mem[Pending[i]]
    <2>1. CASE Exit \/ Joined \/ NextDay \/ Loop \/ NoCut \/ Flush
      BY <2>1 DEF Exit, Joined, NextDay, Loop, NoCut, Flush, shared
    <2>2. CASE Start
      <3>1. /\ new1' \in Buffers \ live /\ new2' \in Buffers \ live
            /\ mem' = [mem EXCEPT ![new1'] = Empty, ![new2'] = Empty]
        BY <2>2 DEF Start, CanAlloc, Fresh
      <3>2. \A b \in Buffers : b \in live => mem'[b] = mem[b]
        BY <1>1, <3>1 DEF Front
      <3>3. QED
        BY <1>1, <3>2 DEF PendingFacts
    <2>3. CASE Refill
      <3> DEFINE kept == IF new2 = NULL THEN 2 ELSE 1
                 back == {batch.chain[i] : i \in 1..kept}
      <3>1. /\ mem' = [b \in Buffers |-> IF b \in back THEN Empty ELSE mem[b]]
            /\ pc = "refill"
        BY <2>3 DEF Refill
      <3>2. back \subseteq Elems(batch.chain)
        <4>1. /\ Elems(batch.chain) = {batch.chain[i] : i \in 1..Len(batch.chain)}
              /\ Len(batch.chain) \in Nat
          BY <1>1, ElemsOf DEF Front, ListType
        <4>2. kept <= Len(batch.chain) /\ kept \in Nat
          BY <1>1, <3>1, <4>1 DEF Back
        <4>3. \A i \in 1..kept : i \in 1..Len(batch.chain)
          BY <4>1, <4>2
        <4>4. QED
          BY <4>1, <4>3
      <3>3. Elems(Listed) \cap Elems(batch.chain) = {}
        <4>1. Elems(Listed) = Elems(list.chain) \cup {curr} /\ curr # NULL
          BY <1>1, ListedType DEF Front
        <4>2. QED
          BY <1>1, <4>1 DEF Front, Owned, Spares
      <3>4. \A i \in 1..Len(Pending) : Pending[i] \in Elems(Listed)
        <4>1. Unwritten = <<>> /\ Len(<<>>) = 0
          BY <3>1 DEF Unwritten
        <4>2. /\ Listed \in Seq(Buffers)
              /\ Len(Pending) = Len(Unwritten) + Len(Listed)
              /\ \A i \in 1..Len(Listed) : Pending[Len(Unwritten) + i] = Listed[i]
          BY <1>1 DEF PendingFacts
        <4>3. /\ Len(Unwritten) = 0 /\ Len(Listed) \in Nat
              /\ \A i \in 1..Len(Listed) : Listed[i] \in Elems(Listed)
          BY <4>1, <4>2, ElemsOf
        <4>4. QED
          BY <4>2, <4>3
      <3> HIDE DEF back
      <3>5. QED
        BY <1>1, <3>1, <3>2, <3>3, <3>4 DEF PendingFacts
    <2>4. QED
      BY <2>1, <2>2, <2>3
  <1>7. QED
    BY <1>2, <1>5, <1>6, LinesSame

(* The worker takes all that is listed; its empty buffer is the next.        *)
LEMMA SwapLines ==
  ASSUME BufInv, BufInv', LineInv, Swap
  PROVE  LineInv'
  <1> DEFINE L == Content
             M == Content'
             z == Len(Pending)
  <1>1. PendingFacts /\ PendingFacts' /\ Front /\ Back
    BY PendingType, PendingNext DEF BufInv
  <1>2. /\ pc = "wait" /\ pc' = "drop" /\ batch' = Push /\ list' = NoList /\ curr' = new1
        /\ UNCHANGED <<mem, made, out, dropped>>
    BY DEF Swap
  <1>3. Unwritten = <<>> /\ Len(Unwritten) = 0
    BY <1>2 DEF Unwritten
  <1>4. Unwritten' = Listed
    <2>1. Push.chain = Listed
      BY DEF Push, Listed
    <2>2. QED
      BY <1>2, <2>1 DEF Unwritten
  <1>5. Listed' = <<new1>> /\ Len(Listed') = 1 /\ Listed'[1] = new1
    BY <1>2 DEF Listed, NoList
  <1>6. /\ z = Len(Listed) /\ Len(Pending') = z + 1
        /\ Len(Listed) \in Nat
        /\ \A i \in 1..z : Pending[i] = Listed[i] /\ Pending'[i] = Listed[i]
        /\ Pending'[z + 1] = new1
    <2>1. /\ z = Len(Unwritten) + Len(Listed) /\ Len(Listed) \in Nat
          /\ \A i \in 1..Len(Listed) : Pending[Len(Unwritten) + i] = Listed[i]
      BY <1>1 DEF PendingFacts
    <2>2. /\ Len(Pending') = Len(Listed) + 1
          /\ \A i \in 1..Len(Listed) : Pending'[i] = Listed[i]
          /\ \A i \in 1..1 : Pending'[Len(Listed) + i] = Listed'[i]
      BY <1>1, <1>4, <1>5 DEF PendingFacts
    <2>3. Pending'[Len(Listed) + 1] = new1
      BY <2>2, <1>5
    <2>4. QED
      BY <1>3, <2>1, <2>2, <2>3
  <1>7. /\ Len(L) = z /\ \A i \in 1..z : L[i] = mem[Pending[i]].lines
        /\ Len(M) = z + 1
        /\ \A i \in 1..(z + 1) : M[i] = mem[Pending'[i]].lines
    BY <1>1, <1>2, <1>6 DEF PendingFacts
  <1>8. mem[new1].lines = <<>>
    BY <1>1, <1>2 DEF Front, Back, Empty
  <1> HIDE DEF L, M, z
  <1>9. \A i \in 1..z : M[i] = L[i]
    <2>1. \A i \in 1..z : i \in 1..(z + 1)
      BY <1>6
    <2>2. QED
      BY <2>1, <1>6, <1>7
  <1>10. M[z + 1] = <<>>
    <2>1. z + 1 \in 1..(z + 1)
      BY <1>6
    <2>2. QED
      BY <2>1, <1>6, <1>7, <1>8
  <1>11. Good(out, M, dropped, made)
    <2>1. z \in Nat
      BY <1>6
    <2>2. QED
      BY <2>1, <1>7, <1>9, <1>10, EmptyLast DEF LineInv, L
  <1>12. QED
    BY <1>11, <1>2 DEF LineInv, M

(* The third and later buffers of the batch leave with their lines.          *)
LEMMA CutLines ==
  ASSUME BufInv, BufInv', LineInv, Cut
  PROVE  LineInv'
  <1> DEFINE L == Content
             M == Content'
             z == Len(Pending)
             s == batch.chain
             c == Len(s)
             gone == {s[i] : i \in 3..c}
  <1>1. PendingFacts /\ PendingFacts' /\ Front /\ Back
    BY PendingType, PendingNext DEF BufInv
  <1>2. /\ pc = "cut" /\ pc' = "write" /\ node' = 1
        /\ batch' = [chain |-> SubSeq(s, 1, 2), tail |-> s[2], size |-> 2]
        /\ dropped' = dropped \cup UNION {Lines(b) : b \in gone}
        /\ UNCHANGED <<mem, list, curr, made, out>>
    BY DEF Cut
  <1>3. s \in Seq(Buffers) /\ c \in Nat /\ c > 2
    <2>1. s \in Seq(Buffers) /\ batch.size \in Nat
      BY <1>1 DEF Front, ListType
    <2>2. c = batch.size /\ batch.size > MaxBatch
      BY <1>1, <1>2 DEF Back
    <2>3. QED
      BY <2>1, <2>2
  <1>4. Unwritten = s
    BY <1>2 DEF Unwritten
  <1>5. Len(Unwritten') = 2 /\ Unwritten'[1] = s[1] /\ Unwritten'[2] = s[2]
    <2> DEFINE t == SubSeq(s, 1, 2)
    <2>1. t \in Seq(Buffers) /\ Len(t) = 2 /\ t[1] = s[1] /\ t[2] = s[2]
      BY <1>3
    <2>2. Unwritten' = SubSeq(t, 1, Len(t))
      BY <1>2 DEF Unwritten
    <2> HIDE DEF t, s
    <2>3. Unwritten' = SubSeq(t, 1, 2)
      BY <2>1, <2>2
    <2>4. /\ Len(SubSeq(t, 1, 2)) = 2
          /\ SubSeq(t, 1, 2)[1] = t[1] /\ SubSeq(t, 1, 2)[2] = t[2]
      BY <2>1
    <2>5. QED
      BY <2>1, <2>3, <2>4
  <1>6. Listed' = Listed
    BY <1>2 DEF Listed
  <1> DEFINE w == Len(Listed)
  <1>7. /\ z = c + w /\ w \in Nat
        /\ \A i \in 1..c : Pending[i] = s[i]
        /\ \A i \in 1..w : Pending[c + i] = Listed[i]
    BY <1>1, <1>4 DEF PendingFacts
  <1>8. /\ Len(Pending') = 2 + w
        /\ Pending'[1] = s[1] /\ Pending'[2] = s[2]
        /\ \A i \in 1..w : Pending'[2 + i] = Listed[i]
    <2>1. /\ Len(Pending') = 2 + w
          /\ \A i \in 1..2 : Pending'[i] = Unwritten'[i]
          /\ \A i \in 1..w : Pending'[2 + i] = Listed[i]
      BY <1>1, <1>5, <1>6 DEF PendingFacts
    <2>2. QED
      BY <1>5, <2>1
  <1>9. /\ L \in LineSeqs /\ Len(L) = z /\ \A i \in 1..z : L[i] = mem[Pending[i]].lines
        /\ Len(M) = 2 + w
        /\ \A i \in 1..(2 + w) : M[i] = mem[Pending'[i]].lines
    BY <1>1, <1>2, <1>8 DEF PendingFacts
  <1>10. made \in Nat /\ out \in Seq(Nat) /\ mem \in [Buffers -> BufferType]
    BY <1>1 DEF Front, Back
  <1> HIDE DEF L, M, z, s, c, w, gone
  <1>11. \A i \in 1..2 : M[i] = L[i]
    <2>1. /\ 1 \in 1..c /\ 2 \in 1..c /\ 1 \in 1..z /\ 2 \in 1..z
          /\ 1 \in 1..(2 + w) /\ 2 \in 1..(2 + w)
      BY <1>3, <1>7
    <2>2. M[1] = L[1] /\ M[2] = L[2]
      BY <2>1, <1>7, <1>8, <1>9
    <2>3. QED
      BY <2>2
  <1>12. \A i \in 3..Len(M) : M[i] = L[i + c - 2]
    <2>1. TAKE i \in 3..Len(M)
    <2> DEFINE j == i - 2
    <2>2. /\ j \in 1..w /\ i = 2 + j /\ i + c - 2 = c + j
          /\ i \in 1..(2 + w) /\ c + j \in 1..z
      BY <1>3, <1>7, <1>9
    <2> HIDE DEF j
    <2>3. Pending'[2 + j] = Listed[j] /\ Pending[c + j] = Listed[j]
      BY <2>2, <1>7, <1>8
    <2>4. M[2 + j] = mem[Listed[j]].lines /\ L[c + j] = mem[Listed[j]].lines
      BY <2>2, <2>3, <1>9
    <2>5. QED
      BY <2>2, <2>4
  <1>13. \A n : n \in dropped' <=> n \in dropped \/ \E p \in 3..c : \E q : At(L, p, q, n)
    <2>1. \A p \in 3..c : p \in 1..c /\ p \in 1..z /\ s[p] \in Buffers /\ L[p] = mem[s[p]].lines
      <3>1. \A p \in 3..c : p \in 1..c /\ p \in 1..z
        BY <1>3, <1>7
      <3>2. \A p \in 1..c : s[p] \in Buffers
        BY <1>3 DEF c
      <3>3. QED
        BY <3>1, <3>2, <1>7, <1>9
    <2>2. \A b \in Buffers : \A n : n \in Lines(b) <=> \E q : On(mem[b].lines, q, n)
      <3>1. \A b \in Buffers : DOMAIN mem[b].lines = 1..Len(mem[b].lines)
        BY <1>10 DEF BufferType
      <3>2. QED
        BY <3>1 DEF Lines, On
    <2>3. \A p \in 3..c : \A n : n \in Lines(s[p]) <=> \E q : At(L, p, q, n)
      BY <2>1, <2>2, <1>9 DEF At
    <2>4. \A n : n \in dropped' <=> n \in dropped \/ \E p \in 3..c : n \in Lines(s[p])
      BY <1>2 DEF gone
    <2>5. QED
      BY <2>3, <2>4
  <1>14. Len(M) = Len(L) - c + 2 /\ 2 <= c /\ c <= Len(L)
    BY <1>3, <1>7, <1>9
  <1>15. Good(out, M, dropped', made)
    BY <1>3, <1>9, <1>10, <1>11, <1>12, <1>13, <1>14, SomeDropped DEF LineInv, L
  <1>16. QED
    BY <1>15, <1>2 DEF LineInv, M

(* fwrite puts the lines of the first unwritten buffer behind the others.    *)
LEMMA WriteLines ==
  ASSUME BufInv, BufInv', LineInv, Write
  PROVE  LineInv'
  <1> DEFINE L == Content
             M == Content'
             z == Len(Pending)
             s == batch.chain
             u == Len(Unwritten)
             w == Len(Listed)
  <1>1. PendingFacts /\ PendingFacts' /\ Front /\ Back
    BY PendingType, PendingNext DEF BufInv
  <1>2. /\ pc = "write" /\ pc' = "write" /\ node <= Len(s) /\ node' = node + 1
        /\ out' = out \o mem[s[node]].lines
        /\ UNCHANGED <<mem, list, curr, batch, made, dropped>>
    BY DEF Write, shared
  <1>3. s \in Seq(Buffers) /\ Len(s) \in Nat /\ node \in 1..Len(s)
    <2>1. s \in Seq(Buffers)
      BY <1>1 DEF Front, ListType
    <2>2. node \in 1..(Len(s) + 1)
      BY <1>1, <1>2 DEF Back
    <2> HIDE DEF s
    <2>3. Len(s) \in Nat
      BY <2>1
    <2>4. QED
      BY <2>1, <2>2, <2>3, <1>2 DEF s
  <1>4. Unwritten = SubSeq(s, node, Len(s)) /\ Unwritten' = SubSeq(s, node + 1, Len(s))
    BY <1>2 DEF Unwritten
  <1>5. Listed' = Listed
    BY <1>2 DEF Listed
  <1>6. /\ z = u + w /\ w \in Nat \ {0}
        /\ \A i \in 1..u : Pending[i] = Unwritten[i]
        /\ \A i \in 1..w : Pending[u + i] = Listed[i]
        /\ Len(Pending') = Len(Unwritten') + w
        /\ \A i \in 1..Len(Unwritten') : Pending'[i] = Unwritten'[i]
        /\ \A i \in 1..w : Pending'[Len(Unwritten') + i] = Listed[i]
    BY <1>1, <1>5 DEF PendingFacts
  <1>7. /\ L \in LineSeqs /\ Len(L) = z /\ \A i \in 1..z : L[i] = mem[Pending[i]].lines
        /\ Len(M) = Len(Pending')
        /\ \A i \in 1..Len(Pending') : M[i] = mem[Pending'[i]].lines
    BY <1>1, <1>2 DEF PendingFacts
  <1>8. made \in Nat /\ out \in Seq(Nat)
    BY <1>1 DEF Front, Back
  <1> HIDE DEF L, M, z, s, u, w
  <1>9. /\ u = Len(s) - node + 1 /\ Len(Unwritten') = u - 1 /\ u \in Nat /\ u > 0
        /\ \A i \in 1..u : Unwritten[i] = s[node + i - 1]
        /\ \A i \in 1..(u - 1) : Unwritten'[i] = s[node + i]
    <2>1. node \in 1..(Len(s) + 1) /\ node + 1 \in 1..(Len(s) + 1)
      BY <1>3
    <2>2. /\ Len(SubSeq(s, node, Len(s))) = Len(s) - node + 1
          /\ \A i \in 1..(Len(s) - node + 1) :
               SubSeq(s, node, Len(s))[i] = s[node + i - 1]
      BY <1>3, <2>1, SubSeqEnd
    <2>3. /\ Len(SubSeq(s, node + 1, Len(s))) = Len(s) - (node + 1) + 1
          /\ \A i \in 1..(Len(s) - (node + 1) + 1) :
               SubSeq(s, node + 1, Len(s))[i] = s[(node + 1) + i - 1]
      BY <1>3, <2>1, SubSeqEnd
    <2>4. u = Len(s) - node + 1 /\ u \in Nat /\ u > 0
      BY <1>3, <1>4, <2>2 DEF u
    <2>5. Len(Unwritten') = u - 1
      BY <1>3, <1>4, <2>3, <2>4
    <2>6. \A i \in 1..u : Unwritten[i] = s[node + i - 1]
      BY <1>4, <2>2, <2>4
    <2>7. \A i \in 1..(u - 1) : Unwritten'[i] = s[node + i]
      <3>1. Len(s) - (node + 1) + 1 = u - 1
        BY <1>3, <2>4
      <3>2. \A i \in 1..(u - 1) : (node + 1) + i - 1 = node + i
        BY <1>3, <2>4
      <3>3. \A i \in 1..(u - 1) : Unwritten'[i] = s[(node + 1) + i - 1]
        BY <1>4, <2>3, <3>1
      <3>4. QED
        BY <3>2, <3>3
    <2>8. QED
      BY <2>4, <2>5, <2>6, <2>7
  <1>10. Pending[1] = s[node]
    <2>1. 1 \in 1..u /\ node + 1 - 1 = node
      BY <1>3, <1>9
    <2>2. QED
      BY <2>1, <1>6, <1>9
  <1>11. \A i \in 1..Len(Pending') : Pending'[i] = Pending[i + 1] /\ i + 1 \in 1..z
    <2>1. TAKE i \in 1..Len(Pending')
    <2>2. i + 1 \in 1..z
      BY <1>6, <1>9
    <2>3. CASE i <= u - 1
      <3>1. i \in 1..(u - 1) /\ i + 1 \in 1..u /\ node + (i + 1) - 1 = node + i
        BY <2>3, <1>3, <1>9
      <3>2. Pending'[i] = s[node + i]
        BY <3>1, <1>6, <1>9
      <3>3. Pending[i + 1] = s[node + (i + 1) - 1]
        BY <3>1, <1>6, <1>9
      <3>4. QED
        BY <2>2, <3>1, <3>2, <3>3
    <2>4. CASE i > u - 1
      <3> DEFINE j == i - (u - 1)
      <3>1. j \in 1..w /\ i = (u - 1) + j /\ i + 1 = u + j
        <4>1. i \in 1..((u - 1) + w) /\ u \in Nat /\ w \in Nat
          BY <1>6, <1>9
        <4>2. QED
          BY <4>1, <2>4
      <3> HIDE DEF j
      <3>2. Pending'[(u - 1) + j] = Listed[j] /\ Pending[u + j] = Listed[j]
        BY <3>1, <1>6, <1>9
      <3>3. QED
        BY <2>2, <3>1, <3>2
    <2>5. QED
      BY <2>3, <2>4, <1>9
  <1>12. Len(M) = Len(L) - 1 /\ Len(L) > 0 /\ L[1] = mem[s[node]].lines
    <2>1. Len(M) = Len(L) - 1 /\ Len(L) > 0 /\ 1 \in 1..z
      BY <1>6, <1>7, <1>9
    <2>2. QED
      BY <2>1, <1>7, <1>10
  <1>13. \A i \in 1..Len(M) : M[i] = L[i + 1]
    BY <1>7, <1>11
  <1>14. Good(out \o L[1], M, dropped, made)
    BY <1>7, <1>8, <1>12, <1>13, FirstOut DEF LineInv, L
  <1>15. QED
    BY <1>2, <1>12, <1>14 DEF LineInv, M

LEMMA InitLines ==
  ASSUME Init
  PROVE  LineInv
  <1>1. PendingFacts
    BY InitBuf, PendingType
  <1>2. /\ out = <<>> /\ Len(out) = 0 /\ dropped = {} /\ made = 0
        /\ list.chain = <<>> /\ pc = "start" /\ mem = [b \in Buffers |-> Empty]
    BY DEF Init, NoList
  <1>3. Content \in LineSeqs /\ \A i \in 1..Len(Content) : Content[i] = <<>>
    BY <1>1, <1>2 DEF PendingFacts, Empty
  <1>4. \A i, n : ~On(<<>>, i, n)
    BY DEF On
  <1>5. \A p, q, n : ~At(Content, p, q, n)
    BY <1>3, <1>4 DEF At
  <1>6. InOrder(out, Content)
    BY <1>2, <1>4, <1>5 DEF InOrder
  <1>7. \A n : ~Out(n, out) /\ ~Held(n, Content)
    BY <1>2, <1>4, <1>5 DEF Out, Held
  <1>8. \A n : n \notin 1..made
    BY <1>2
  <1>9. QED
    BY <1>2, <1>6, <1>7, <1>8 DEF LineInv, Good, Whole

LEMMA NextLines ==
  ASSUME BufInv, BufInv', LineInv, [Next]_vars
  PROVE  LineInv'
  <1>1. CASE Log \/ Fatal
    <2>1. PICK len \in Lengths : AppendLine(made', len)
      BY <1>1 DEF Log, Fatal
    <2>2. made' = made + 1 /\ UNCHANGED <<out, dropped, pc, batch, node>>
      BY <1>1 DEF Log, Fatal
    <2>3. Unwritten' = Unwritten
      BY <2>2 DEF Unwritten
    <2>4. QED
      BY <2>1, <2>2, <2>3, LengthsNat, LinesAppend
  <1>2. CASE Notice
    <2>1. /\ AppendLine(made', NoticeLength) /\ made' = made + 1
          /\ pc = "drop" /\ pc' = "cut" /\ UNCHANGED <<out, dropped, batch>>
      BY <1>2 DEF Notice
    <2>2. Unwritten' = Unwritten
      BY <2>1 DEF Unwritten
    <2>3. QED
      BY <2>1, <2>2, LengthsNat, LinesAppend
  <1>3. CASE UNCHANGED vars
    <2>1. UNCHANGED <<mem, list, curr, batch, pc, node, out, dropped, made>>
      BY <1>3 DEF vars
    <2>2. Pending' = Pending
      BY <2>1 DEF Pending, Unwritten, Listed
    <2>3. QED
      BY <2>1, <2>2, LinesSame
  <1>4. QED
    BY <1>1, <1>2, <1>3, QuietLines, SwapLines, CutLines, WriteLines DEF Next, Worker

(* The lines reach the file in the order in which they were appended, and    *)
(* each of them is written, dropped or still in one buffer                   *)
(* (lua-log.c:165-212, 266-318).                                             *)
THEOREM LineOrder == Spec => []LinesInOrder
  <1>1. Init => BufInv /\ LineInv
    BY InitBuf, InitLines
  <1>2. BufInv /\ LineInv /\ [Next]_vars => (BufInv /\ LineInv)'
    BY NextBuf, NextLines
  <1>3. ASSUME BufInv, LineInv
        PROVE  LinesInOrder
    <2>1. PendingFacts /\ out \in Seq(Nat) /\ made \in Nat
      BY <1>3, PendingType DEF BufInv, Back
    <2>2. /\ DOMAIN out = 1..Len(out) /\ DOMAIN Pending = 1..Len(Pending)
          /\ Elems(Pending) = {Pending[i] : i \in 1..Len(Pending)}
      BY <2>1 DEF PendingFacts, Elems
    <2>3. /\ Len(Content) = Len(Pending)
          /\ \A i \in 1..Len(Pending) :
               /\ Content[i] = mem[Pending[i]].lines
               /\ DOMAIN mem[Pending[i]].lines = 1..Len(mem[Pending[i]].lines)
               /\ Len(mem[Pending[i]].lines) \in Nat
      <3>1. \A b \in Buffers : /\ DOMAIN mem[b].lines = 1..Len(mem[b].lines)
                               /\ Len(mem[b].lines) \in Nat
        BY <1>3 DEF BufInv, Front, BufferType
      <3>2. QED
        BY <2>1, <3>1 DEF PendingFacts
    <2>4. \A i \in DOMAIN Pending : \A n : n \in Lines(Pending[i]) <=> \E q : At(Content, i, q, n)
      BY <2>2, <2>3 DEF Lines, At, On
    <2>5. \A i \in DOMAIN out : On(out, i, out[i])
      BY <2>2 DEF On
    <2>6. InOrder(out, Content) /\ Whole(out, Content, dropped, made)
      BY <1>3 DEF LineInv, Good
    <2>7. \A i, j \in DOMAIN out : i < j => out[i] < out[j]
      BY <2>5, <2>6 DEF InOrder
    <2>8. \A i \in DOMAIN out, b \in Elems(Pending) : \A n \in Lines(b) : out[i] < n
      BY <2>2, <2>4, <2>5, <2>6 DEF InOrder
    <2>9. \A i, j \in DOMAIN Pending :
            i < j => \A n \in Lines(Pending[i]), m \in Lines(Pending[j]) : n < m
      BY <2>4, <2>6 DEF InOrder
    <2>10. \A b \in Elems(Pending) :
             \A i, j \in DOMAIN mem[b].lines :
               i < j => mem[b].lines[i] < mem[b].lines[j]
      <3>1. ASSUME NEW p \in 1..Len(Pending),
                   NEW i \in DOMAIN mem[Pending[p]].lines,
                   NEW j \in DOMAIN mem[Pending[p]].lines, i < j
            PROVE  mem[Pending[p]].lines[i] < mem[Pending[p]].lines[j]
        <4>1. /\ At(Content, p, i, mem[Pending[p]].lines[i])
              /\ At(Content, p, j, mem[Pending[p]].lines[j])
          BY <2>3, <3>1 DEF At, On
        <4>2. QED
          BY <3>1, <4>1, <2>6 DEF InOrder
      <3>2. QED
        BY <2>2, <3>1
    <2>11. \A n : Out(n, out) <=> n \in Elems(out)
      BY <2>2 DEF Out, On, Elems
    <2>12. \A n : Held(n, Content) <=> n \in UNION {Lines(b) : b \in Elems(Pending)}
      <3>1. \A p, q, n : At(Content, p, q, n) => p \in DOMAIN Pending
        BY <2>2, <2>3 DEF At
      <3>2. \A n : n \in UNION {Lines(b) : b \in Elems(Pending)}
              <=> \E i \in DOMAIN Pending : n \in Lines(Pending[i])
        BY <2>2
      <3>3. QED
        BY <2>4, <3>1, <3>2 DEF Held
    <2>13. dropped \cap (Elems(out) \cup UNION {Lines(b) : b \in Elems(Pending)}) = {}
      BY <2>6, <2>11, <2>12 DEF Whole
    <2>14. Elems(out) \cup dropped \cup UNION {Lines(b) : b \in Elems(Pending)}
             = 1..made
      BY <2>6, <2>11, <2>12 DEF Whole
    <2>15. QED
      BY <2>7, <2>8, <2>9, <2>10, <2>13, <2>14 DEF LinesInOrder
  <1>4. QED
    BY <1>1, <1>2, <1>3, PTL DEF Spec
=============================================================================
