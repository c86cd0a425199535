------------------------- MODULE CaptureReplayProofs -------------------------
(***************************************************************************)
(* Proofs about module CaptureReplay, for every run of the simulator, every*)
(* layout of frames and files and every point at which a process or a      *)
(* device gives up.                                                        *)
(***************************************************************************)
EXTENDS CaptureReplay, SimulatorProofs

-----------------------------------------------------------------------------
(* Sequences of blocks *)

Flattening(q) == CHOOSE f : f = [i \in 1..Len(q) |-> IF i = 1 THEN q[i] ELSE f[i - 1] \o q[i]]

LEMMA FlatteningFacts ==
  ASSUME NEW S, NEW q \in Seq(Seq(S)), q # <<>>
  PROVE  /\ FlattenSeq(q) = Flattening(q)[Len(q)]
         /\ Flattening(q)[1] = q[1]
         /\ \A i \in 2..Len(q) : Flattening(q)[i] = Flattening(q)[i - 1] \o q[i]
         /\ \A i \in 1..Len(q) : Flattening(q)[i] \in Seq(S)
  <1> DEFINE L == Len(q)
             Turn(f, i) == IF i = 1 THEN q[i] ELSE f[i - 1] \o q[i]
             Good(f, n) == \A i \in 1..n : f[i] = Turn(f, i)
             Reached == {n \in Nat : \E f : Good(f, n)}
  <1>0. L \in Nat \ {0} /\ (\A i \in 1..L : q[i] \in Seq(S))
    <2>1. L \in Nat /\ L # 0
      OBVIOUS
    <2>2. \A i \in 1..L : q[i] \in Seq(S)
      OBVIOUS
    <2> QED BY <2>1, <2>2
  <1>a. FlattenSeq(q) = Flattening(q)[L]
    BY <1>0 DEF FlattenSeq, Flattening
  <1>b. Flattening(q) = CHOOSE f : f = [i \in 1..L |-> Turn(f, i)]
    BY DEF Flattening
  <1> HIDE DEF L
  <1>1. 0 \in Reached
    <2>1. Good(<<>>, 0)
      OBVIOUS
    <2> HIDE DEF Good
    <2> QED BY <2>1
  <1>2. ASSUME NEW n \in Nat, n \in Reached PROVE n + 1 \in Reached
    <2>1. PICK g : Good(g, n)
      BY <1>2
    <2> DEFINE h == [i \in 1..(n + 1) |-> IF i = n + 1 THEN Turn(g, i) ELSE g[i]]
    <2>2. ASSUME NEW i \in 1..(n + 1) PROVE h[i] = Turn(h, i)
      <3>1. i # 1 => i - 1 \in 1..(n + 1) /\ i - 1 # n + 1
        BY <2>2
      <3>2. i # 1 => h[i - 1] = g[i - 1]
        BY <3>1
      <3>3. Turn(h, i) = Turn(g, i)
        <4> HIDE DEF h
        <4> QED BY <3>2
      <3>4. CASE i = n + 1
        <4> HIDE DEF Turn
        <4> QED BY <3>3, <3>4
      <3>5. CASE i # n + 1
        <4>1. i \in 1..n
          BY <2>2, <3>5
        <4>2. g[i] = Turn(g, i)
          BY <2>1, <4>1
        <4>3. h[i] = g[i]
          BY <3>5
        <4> HIDE DEF h, Turn
        <4> QED BY <3>3, <4>2, <4>3
      <3> QED BY <3>4, <3>5
    <2> HIDE DEF h, Turn
    <2>3. Good(h, n + 1)
      BY <2>2
    <2> HIDE DEF Good
    <2> QED BY <2>3
  <1>3. Nat \subseteq Reached
    <2> HIDE DEF Reached
    <2> QED BY <1>1, <1>2, SetInduction
  <1>4. PICK g : Good(g, L)
    BY <1>0, <1>3
  <1> DEFINE f == [i \in 1..L |-> g[i]]
  <1>5. f = [i \in 1..L |-> Turn(f, i)]
    <2>1. ASSUME NEW i \in 1..L PROVE g[i] = Turn(f, i)
      <3>1. i # 1 => i - 1 \in 1..L
        BY <1>0, <2>1
      <3>2. i # 1 => f[i - 1] = g[i - 1]
        BY <3>1
      <3>3. Turn(f, i) = Turn(g, i)
        <4> HIDE DEF f
        <4> QED BY <3>2
      <3> HIDE DEF f, Turn
      <3> QED BY <1>4, <3>3
    <2> HIDE DEF Turn
    <2> QED BY <2>1
  <1> DEFINE c == Flattening(q)
  <1>6. c = [i \in 1..L |-> Turn(c, i)]
    <2> HIDE DEF f
    <2> QED BY <1>5, <1>b
  <1> HIDE DEF c, f
  <1>7. \A i \in 1..L : c[i] = Turn(c, i)
    <2> HIDE DEF Turn
    <2> DEFINE e == [i \in 1..L |-> Turn(c, i)]
    <2>1. \A i \in 1..L : e[i] = Turn(c, i)
      OBVIOUS
    <2> HIDE DEF e
    <2>2. c = e
      BY <1>6 DEF e
    <2> QED BY <2>1, <2>2
  <1>8. c[1] = q[1]
    BY <1>0, <1>7
  <1>9. ASSUME NEW i \in 2..L PROVE c[i] = c[i - 1] \o q[i]
    <2>1. i \in 1..L /\ i # 1
      BY <1>0, <1>9
    <2> QED BY <1>7, <2>1
  <1> DEFINE Typed == {n \in Nat : n + 1 <= L => c[n + 1] \in Seq(S)}
  <1>10. 0 \in Typed
    BY <1>0, <1>8
  <1>11. ASSUME NEW n \in Nat, n \in Typed PROVE n + 1 \in Typed
    <2> SUFFICES ASSUME (n + 1) + 1 <= L PROVE c[(n + 1) + 1] \in Seq(S)
      OBVIOUS
    <2>1. (n + 1) + 1 \in 2..L /\ ((n + 1) + 1) - 1 = n + 1 /\ n + 1 <= L /\ (n + 1) + 1 \in 1..L
      BY <1>0
    <2>2. c[n + 1] \in Seq(S) /\ q[(n + 1) + 1] \in Seq(S)
      BY <1>0, <1>11, <2>1
    <2>3. c[(n + 1) + 1] = c[n + 1] \o q[(n + 1) + 1]
      BY <1>9, <2>1
    <2> QED BY <2>2, <2>3
  <1>12. Nat \subseteq Typed
    <2> HIDE DEF Typed
    <2> QED BY <1>10, <1>11, SetInduction
  <1>13. ASSUME NEW i \in 1..L PROVE c[i] \in Seq(S)
    <2>1. i - 1 \in Nat /\ (i - 1) + 1 = i /\ i <= L
      BY <1>0, <1>13
    <2>2. i - 1 \in Typed
      BY <1>12, <2>1
    <2> QED BY <2>1, <2>2
  <1> QED BY <1>a, <1>8, <1>9, <1>13 DEF c, L

LEMMA FlattenEmpty == FlattenSeq(<<>>) = <<>>
  BY DEF FlattenSeq

LEMMA FlattenTyped ==
  ASSUME NEW S, NEW q \in Seq(Seq(S))
  PROVE  FlattenSeq(q) \in Seq(S)
  <1>0. <<>> \in Seq(S)
    OBVIOUS
  <1>1. CASE q = <<>>
    <2>1. FlattenSeq(q) = <<>>
      BY <1>1, FlattenEmpty
    <2> QED BY <1>0, <2>1
  <1>2. CASE q # <<>>
    <2>1. Len(q) \in 1..Len(q)
      BY <1>2
    <2> QED BY <1>2, <2>1, FlatteningFacts
  <1> QED BY <1>1, <1>2

LEMMA FlattenAppend ==
  ASSUME NEW S, NEW q \in Seq(Seq(S)), NEW x \in Seq(S)
  PROVE  FlattenSeq(Append(q, x)) = FlattenSeq(q) \o x
  <1> DEFINE r == Append(q, x)
             n == Len(q)
             f == Flattening(q)
             g == Flattening(r)
  <1>1. r \in Seq(Seq(S)) /\ r # <<>> /\ Len(r) = n + 1 /\ n \in Nat
    <2> DEFINE T == Seq(S)
    <2>0. q \in Seq(T) /\ x \in T
      OBVIOUS
    <2> HIDE DEF T
    <2>1. r \in Seq(T) /\ Len(r) = n + 1
      BY <2>0
    <2>2. n \in Nat
      BY <2>0
    <2>3. r # <<>>
      BY <2>0
    <2> QED BY <2>1, <2>2, <2>3 DEF T
  <1>2. r[n + 1] = x /\ \A i \in 1..n : r[i] = q[i]
    OBVIOUS
  <1> HIDE DEF r
  <1>3. /\ FlattenSeq(r) = g[n + 1] /\ g[1] = r[1]
        /\ \A i \in 2..(n + 1) : g[i] = g[i - 1] \o r[i]
    BY <1>1, FlatteningFacts
  <1>4. CASE q = <<>>
    <2>1. n = 0
      BY <1>4
    <2>2. FlattenSeq(r) = x
      BY <1>2, <1>3, <2>1
    <2>3. FlattenSeq(q) = <<>>
      BY <1>4, FlattenEmpty
    <2> QED BY <2>2, <2>3 DEF r
  <1>5. CASE q # <<>>
    <2>1. /\ FlattenSeq(q) = f[n] /\ f[1] = q[1]
          /\ \A i \in 2..n : f[i] = f[i - 1] \o q[i]
      BY <1>5, FlatteningFacts
    <2>2. n >= 1
      BY <1>5
    <2> HIDE DEF f, g, n
    <2> DEFINE Same == {m \in Nat : m + 1 <= n => g[m + 1] = f[m + 1]}
    <2>3. 0 \in Same
      <3>1. 1 \in 1..n
        BY <1>1, <2>2
      <3>2. g[1] = f[1]
        BY <1>2, <1>3, <2>1, <3>1
      <3> QED BY <3>2
    <2>4. ASSUME NEW m \in Nat, m \in Same PROVE m + 1 \in Same
      <3> SUFFICES ASSUME (m + 1) + 1 <= n PROVE g[(m + 1) + 1] = f[(m + 1) + 1]
        OBVIOUS
      <3> DEFINE k == (m + 1) + 1
      <3>1. k \in 2..n /\ k \in 2..(n + 1) /\ k \in 1..n /\ k - 1 = m + 1 /\ m + 1 <= n
        BY <1>1
      <3>2. g[m + 1] = f[m + 1]
        BY <2>4, <3>1
      <3> HIDE DEF k
      <3>3. g[k] = g[m + 1] \o q[k] /\ f[k] = f[m + 1] \o q[k]
        BY <1>2, <1>3, <2>1, <3>1
      <3> QED BY <3>2, <3>3 DEF k
    <2>5. Nat \subseteq Same
      <3> HIDE DEF Same
      <3> QED BY <2>3, <2>4, SetInduction
    <2>6. g[n] = f[n]
      <3>1. n - 1 \in Nat /\ (n - 1) + 1 = n
        BY <1>1, <2>2
      <3>2. n - 1 \in Same
        BY <2>5, <3>1
      <3> QED BY <3>1, <3>2
    <2>7. g[n + 1] = g[n] \o x
      <3>1. n + 1 \in 2..(n + 1) /\ (n + 1) - 1 = n
        BY <1>1, <2>2
      <3> QED BY <1>2, <1>3, <3>1
    <2> QED BY <1>3, <2>1, <2>6, <2>7 DEF r
  <1> QED BY <1>4, <1>5

\* IsPrefix, element by element.
LEMMA PrefixFacts ==
  ASSUME NEW S, NEW s \in Seq(S), NEW t \in Seq(S)
  PROVE  IsPrefix(s, t) <=> (Len(s) <= Len(t) /\ \A i \in 1..Len(s) : s[i] = t[i])
  <1> DEFINE n == Len(s)
             a == SubSeq(s, 1, n)
             b == SubSeq(t, 1, n)
  <1>1. IsPrefix(s, t) <=> (n <= Len(t) /\ a = b)
    BY DEF IsPrefix
  <1>2. n \in Nat
    OBVIOUS
  <1> SUFFICES ASSUME n <= Len(t) PROVE a = b <=> \A i \in 1..n : s[i] = t[i]
    BY <1>1
  <1>3. a = s
    BY SubSeqFull
  <1>4. b \in Seq(S) /\ Len(b) = n /\ \A i \in 1..n : b[i] = t[i]
    BY <1>2
  <1> HIDE DEF a, b
  <1>5. ASSUME \A i \in 1..n : s[i] = t[i] PROVE s = b
    <2>1. Len(s) = Len(b) /\ \A i \in 1..Len(s) : s[i] = b[i]
      BY <1>4, <1>5
    <2> QED BY <1>4, <2>1, SeqEqual
  <1>6. ASSUME s = b PROVE \A i \in 1..n : s[i] = t[i]
    BY <1>4, <1>6
  <1> QED BY <1>3, <1>5, <1>6

LEMMA PrefixOfConcat ==
  ASSUME NEW S, NEW s \in Seq(S), NEW t \in Seq(S)
  PROVE  IsPrefix(s, s \o t)
  <1> DEFINE u == s \o t
  <1>1. u \in Seq(S) /\ Len(u) = Len(s) + Len(t) /\ \A i \in 1..Len(s) : u[i] = s[i]
    OBVIOUS
  <1> HIDE DEF u
  <1>2. Len(s) <= Len(u)
    BY <1>1
  <1> QED BY <1>1, <1>2, PrefixFacts DEF u

LEMMA PrefixTransitive ==
  ASSUME NEW S, NEW s \in Seq(S), NEW t \in Seq(S), NEW u \in Seq(S),
         IsPrefix(s, t), IsPrefix(t, u)
  PROVE  IsPrefix(s, u)
  <1>1. /\ Len(s) <= Len(t) /\ \A i \in 1..Len(s) : s[i] = t[i]
        /\ Len(t) <= Len(u) /\ \A i \in 1..Len(t) : t[i] = u[i]
    BY PrefixFacts
  <1>2. Len(s) \in Nat /\ Len(t) \in Nat /\ Len(u) \in Nat
    OBVIOUS
  <1>3. Len(s) <= Len(u) /\ \A i \in 1..Len(s) : s[i] = u[i]
    BY <1>1, <1>2
  <1> QED BY <1>3, PrefixFacts

\* Two prefixes of one sequence: the shorter is a prefix of the longer.
LEMMA PrefixWithin ==
  ASSUME NEW S, NEW s \in Seq(S), NEW t \in Seq(S), NEW u \in Seq(S),
         IsPrefix(s, u), IsPrefix(t, u), Len(s) <= Len(t)
  PROVE  IsPrefix(s, t)
  <1>1. /\ \A i \in 1..Len(s) : s[i] = u[i]
        /\ \A i \in 1..Len(t) : t[i] = u[i]
    BY PrefixFacts
  <1>2. Len(s) \in Nat /\ Len(t) \in Nat
    OBVIOUS
  <1>3. \A i \in 1..Len(s) : i \in 1..Len(t)
    BY <1>2
  <1>4. \A i \in 1..Len(s) : s[i] = t[i]
    BY <1>1, <1>3
  <1> QED BY <1>4, PrefixFacts

LEMMA PrefixEqual ==
  ASSUME NEW S, NEW s \in Seq(S), NEW t \in Seq(S), IsPrefix(s, t), Len(t) <= Len(s)
  PROVE  s = t
  <1>1. Len(s) <= Len(t) /\ \A i \in 1..Len(s) : s[i] = t[i]
    BY PrefixFacts
  <1>2. Len(s) = Len(t)
    BY <1>1
  <1> QED BY <1>1, <1>2, SeqEqual

\* The first n blocks of q, one after the other.
Joined(q, n) == FlattenSeq([k \in 1..n |-> q[k]])

LEMMA JoinedFacts ==
  ASSUME NEW S, NEW q \in Seq(Seq(S))
  PROVE  /\ Joined(q, 0) = <<>>
         /\ \A n \in 0..Len(q) : Joined(q, n) \in Seq(S)
         /\ \A n \in 0..Len(q) : n < Len(q) => Joined(q, n + 1) = Joined(q, n) \o q[n + 1]
         /\ Joined(q, Len(q)) = FlattenSeq(q)
  <1> DEFINE T == Seq(S)
             First(n) == [k \in 1..n |-> q[k]]
             l == Len(q)
  <1>0. l \in Nat /\ \A k \in 1..l : q[k] \in T
    OBVIOUS
  <1>1. ASSUME NEW n \in 0..l PROVE First(n) \in Seq(T) /\ Len(First(n)) = n
    <2>1. n \in Nat /\ \A k \in 1..n : q[k] \in T
      BY <1>0
    <2> HIDE DEF T
    <2>2. First(n) \in [1..n -> T]
      BY <2>1
    <2> QED BY <2>1, <2>2
  <1>2. First(0) = <<>>
    OBVIOUS
  <1>3. ASSUME NEW n \in 0..l PROVE Joined(q, n) \in Seq(S)
    BY <1>1, FlattenTyped DEF Joined
  <1>4. ASSUME NEW n \in 0..l, n < l PROVE Joined(q, n + 1) = Joined(q, n) \o q[n + 1]
    <2>1. n + 1 \in 1..l /\ n + 1 \in 0..l /\ n \in Nat
      BY <1>0, <1>4
    <2>2. q[n + 1] \in T
      BY <1>0, <2>1
    <2> DEFINE a == First(n)
               b == First(n + 1)
               c == Append(a, q[n + 1])
    <2>3. a \in Seq(T) /\ Len(a) = n /\ b \in Seq(T) /\ Len(b) = n + 1
      BY <1>1, <2>1
    <2>4. /\ \A k \in 1..n : a[k] = q[k]
          /\ \A k \in 1..(n + 1) : b[k] = q[k]
      BY <2>1
    <2> HIDE DEF a, b, T
    <2>5. c \in Seq(T) /\ Len(c) = Len(a) + 1 /\ (\A k \in 1..Len(a) : c[k] = a[k]) /\ c[Len(a) + 1] = q[n + 1]
      <3> DEFINE x == q[n + 1]
      <3>1. a \in Seq(T) /\ x \in T
        BY <2>2, <2>3
      <3> HIDE DEF x
      <3>2. c = Append(a, x)
        BY DEF x
      <3> HIDE DEF c
      <3>3. c \in Seq(T) /\ Len(c) = Len(a) + 1
        BY <3>1, <3>2
      <3>4. \A k \in 1..Len(a) : c[k] = a[k]
        BY <3>1, <3>2
      <3>5. c[Len(a) + 1] = x
        BY <3>1, <3>2
      <3> QED BY <3>3, <3>4, <3>5 DEF x
    <2> HIDE DEF c
    <2>6. \A k \in 1..(n + 1) : b[k] = c[k]
      BY <2>1, <2>3, <2>4, <2>5
    <2>7. b = c
      BY <2>3, <2>5, <2>6, SeqEqual
    <2>8. FlattenSeq(c) = FlattenSeq(a) \o q[n + 1]
      BY <2>2, <2>3, FlattenAppend DEF c, T
    <2> QED BY <2>7, <2>8 DEF Joined, a, b
  <1>5. First(l) = q
    OBVIOUS
  <1> QED BY <1>2, <1>3, <1>4, <1>5, FlattenEmpty DEF Joined

LEMMA JoinedPrefix ==
  ASSUME NEW S, NEW q \in Seq(Seq(S)), NEW n \in 0..Len(q), NEW m \in 0..n
  PROVE  IsPrefix(Joined(q, m), Joined(q, n))
  <1> DEFINE l == Len(q)
             Ahead == {d \in Nat : m + d <= l => IsPrefix(Joined(q, m), Joined(q, m + d))}
  <1>0. l \in Nat /\ m \in Nat /\ n \in Nat /\ m \in 0..l /\ m <= n /\ n <= l
    <2>1. l \in Nat
      OBVIOUS
    <2> HIDE DEF l
    <2>2. n \in 0..l
      BY DEF l
    <2> QED BY <2>1, <2>2
  <1>1. \A k \in 0..l : Joined(q, k) \in Seq(S)
    BY JoinedFacts
  <1>2. \A k \in 0..l : k < l => Joined(q, k + 1) = Joined(q, k) \o q[k + 1]
    BY JoinedFacts
  <1>b. \A k \in 1..l : q[k] \in Seq(S)
    OBVIOUS
  <1> HIDE DEF l
  <1>3. 0 \in Ahead
    <2>1. IsPrefix(Joined(q, m), Joined(q, m))
      <3> DEFINE j == Joined(q, m)
      <3>1. j \in Seq(S)
        BY <1>0, <1>1
      <3> HIDE DEF j
      <3>2. Len(j) <= Len(j) /\ \A i \in 1..Len(j) : j[i] = j[i]
        BY <3>1
      <3>3. IsPrefix(j, j)
        BY <3>1, <3>2, PrefixFacts
      <3> QED BY <3>3 DEF j
    <2>2. m + 0 = m
      BY <1>0
    <2> QED BY <2>1, <2>2
  <1>4. ASSUME NEW d \in Nat, d \in Ahead PROVE d + 1 \in Ahead
    <2> SUFFICES ASSUME m + (d + 1) <= l PROVE IsPrefix(Joined(q, m), Joined(q, m + (d + 1)))
      OBVIOUS
    <2> DEFINE k == m + d
    <2>1. k \in 0..l /\ k < l /\ k + 1 \in 1..l /\ k + 1 \in 0..l /\ k <= l /\ m + (d + 1) = k + 1
      BY <1>0
    <2>2. IsPrefix(Joined(q, m), Joined(q, k))
      BY <1>4, <2>1
    <2> HIDE DEF k
    <2>3. Joined(q, k + 1) = Joined(q, k) \o q[k + 1]
      BY <1>2, <2>1
    <2>4. Joined(q, k) \in Seq(S) /\ q[k + 1] \in Seq(S) /\ Joined(q, k + 1) \in Seq(S) /\ Joined(q, m) \in Seq(S)
      BY <1>0, <1>1, <1>b, <2>1
    <2>5. IsPrefix(Joined(q, k), Joined(q, k + 1))
      BY <2>3, <2>4, PrefixOfConcat
    <2>6. IsPrefix(Joined(q, m), Joined(q, k + 1))
      BY <2>2, <2>4, <2>5, PrefixTransitive
    <2> QED BY <2>1, <2>6
  <1>5. Nat \subseteq Ahead
    <2> HIDE DEF Ahead
    <2> QED BY <1>3, <1>4, SetInduction
  <1>6. n - m \in Nat /\ m + (n - m) = n
    BY <1>0
  <1>7. n - m \in Ahead
    BY <1>5, <1>6
  <1> QED BY <1>0, <1>6, <1>7

-----------------------------------------------------------------------------
(* Streams.  What was written is what the device has and what is pending. *)

Streams(S) == [disk : Seq(S), pending : Seq(S), bad : BOOLEAN]
Total(s)   == s.disk \o s.pending
Fits(s, room) == Len(s.disk) <= room

LEMMA PushFacts ==
  ASSUME NEW S, NEW s \in Streams(S), NEW room \in Nat, Fits(s, room),
         NEW n \in 0..Len(s.pending)
  PROVE  /\ PushOut(s, n, room) \in Streams(S)
         /\ Total(PushOut(s, n, room)) = Total(s)
         /\ Fits(PushOut(s, n, room), room)
         /\ ~PushOut(s, n, room).bad => ~s.bad
         /\ ~PushOut(s, n, room).bad /\ n = Len(s.pending) => PushOut(s, n, room).pending = <<>>
         /\ s.pending = <<>> => PushOut(s, n, room).disk = s.disk
  <1> DEFINE d == s.disk
             p == s.pending
             t == PushOut(s, n, room)
             fits == IF n <= room - Len(d) THEN n ELSE room - Len(d)
             a == SubSeq(p, 1, fits)
             b == SubSeq(p, fits + 1, Len(p))
             ld == Len(d)
             lp == Len(p)
  <1>1. d \in Seq(S) /\ p \in Seq(S) /\ s.bad \in BOOLEAN
    BY DEF Streams
  <1>2. ld \in Nat /\ lp \in Nat /\ ld <= room /\ n \in 0..lp
    BY <1>1 DEF Fits
  <1>3. t = [disk |-> d \o a, pending |-> b, bad |-> (s.bad \/ fits < n)]
    BY DEF PushOut
  <1> HIDE DEF d, p, ld, lp
  <1>4. fits = IF n <= room - ld THEN n ELSE room - ld
    BY DEF ld
  <1>5. fits \in 0..lp /\ fits <= n /\ ld + fits <= room /\ fits \in Nat
    <2> HIDE DEF fits
    <2> QED BY <1>2, <1>4
  <1> HIDE DEF fits
  <1>6. a \in Seq(S) /\ Len(a) = fits
    BY <1>1, <1>5 DEF lp
  <1>7. b \in Seq(S)
    BY <1>1, <1>5 DEF lp
  <1>8. a \o b = p
    <2>1. 1 \in 1..(lp + 1) /\ fits \in (1 - 1)..lp /\ lp \in fits..lp
      BY <1>2, <1>5
    <2>2. a \o b = SubSeq(p, 1, lp)
      BY <1>1, <2>1, ConcatAdjacentSubSeq DEF lp
    <2> QED BY <1>1, <2>2, SubSeqFull DEF lp
  <1>9. fits = lp => b = <<>>
    <2>1. fits + 1 \in Int /\ lp \in Int /\ (fits = lp => lp < fits + 1)
      BY <1>2, <1>5
    <2> QED BY <2>1, SubSeqEmpty DEF lp
  <1> HIDE DEF a, b
  <1>10. (d \o a) \in Seq(S) /\ Len(d \o a) = ld + fits
    BY <1>1, <1>6 DEF ld
  <1>11. (d \o a) \o b = d \o p
    <2>1. d \in Seq(S) /\ a \in Seq(S) /\ b \in Seq(S)
      BY <1>1, <1>6, <1>7
    <2>2. (d \o a) \o b = d \o (a \o b)
      BY <2>1, SMTT(30)
    <2> QED BY <1>8, <2>2, Zenon
  <1>12. t \in Streams(S)
    BY <1>1, <1>3, <1>7, <1>10 DEF Streams
  <1>13. Total(t) = Total(s)
    <2>1. t.disk = d \o a /\ t.pending = b
      BY <1>3
    <2>2. Total(t) = (d \o a) \o b
      BY <2>1, Zenon DEF Total
    <2>3. Total(s) = d \o p
      BY Zenon DEF Total, d, p
    <2> QED BY <1>11, <2>2, <2>3, Zenon
  <1>14. Fits(t, room)
    BY <1>3, <1>5, <1>10 DEF Fits
  <1>15. t.bad = (s.bad \/ fits < n) /\ t.pending = b /\ t.disk = d \o a
    BY <1>3
  <1>16. ~(fits < n) => fits = n
    BY <1>2, <1>5
  <1>17. ASSUME p = <<>> PROVE t.disk = d
    <2>1. a = <<>>
      <3>1. lp = 0
        BY <1>17 DEF lp
      <3>2. fits = 0
        BY <1>5, <3>1
      <3> QED BY <1>6, <3>2
    <2> QED BY <1>1, <1>15, <2>1, ConcatEmptySeq
  <1> QED BY <1>9, <1>12, <1>13, <1>14, <1>15, <1>16, <1>17 DEF lp, p, d

LEMMA WriteFacts ==
  ASSUME NEW S, NEW s \in Streams(S), NEW room \in Nat, Fits(s, room),
         NEW data \in Seq(S), NEW t \in AfterWrite(s, data, room)
  PROVE  /\ t \in Streams(S) /\ Fits(t, room)
         /\ s.bad => t = s
         /\ ~s.bad => Total(t) = Total(s) \o data
         /\ ~t.bad => ~s.bad
  <1>1. CASE s.bad
    <2>1. t = s
      BY <1>1 DEF AfterWrite
    <2> QED BY <1>1, <2>1
  <1>2. CASE ~s.bad
    <2> DEFINE full == [s EXCEPT !.pending = s.pending \o data]
    <2>1. PICK n \in 0..Len(full.pending) : t = PushOut(full, n, room)
      BY <1>2 DEF AfterWrite
    <2>2. s.disk \in Seq(S) /\ s.pending \in Seq(S) /\ s.bad \in BOOLEAN
      BY DEF Streams
    <2>3. s.pending \o data \in Seq(S)
      BY <2>2
    <2>4. full \in Streams(S) /\ full.disk = s.disk /\ full.pending = s.pending \o data /\ full.bad = s.bad
      BY <2>3 DEF Streams
    <2>5. Fits(full, room)
      BY <2>4 DEF Fits
    <2>6. Total(full) = Total(s) \o data
      <3> DEFINE d == s.disk
                 p == s.pending
      <3>1. d \in Seq(S) /\ p \in Seq(S) /\ data \in Seq(S)
        BY <2>2
      <3> HIDE DEF d, p
      <3>2. (d \o p) \o data = d \o (p \o data)
        BY <3>1, SMTT(30)
      <3>3. Total(full) = d \o (p \o data)
        BY <2>4, Zenon DEF Total, d, p
      <3>4. Total(s) = d \o p
        BY Zenon DEF Total, d, p
      <3> QED BY <3>2, <3>3, <3>4, Zenon
    <2> HIDE DEF full
    <2> QED BY <1>2, <2>1, <2>4, <2>5, <2>6, PushFacts
  <1> QED BY <1>1, <1>2

LEMMA CloseFacts ==
  ASSUME NEW S, NEW s \in Streams(S), NEW room \in Nat, Fits(s, room)
  PROVE  /\ AfterClose(s, room) \in Streams(S) /\ Fits(AfterClose(s, room), room)
         /\ Total(AfterClose(s, room)) = Total(s)
         /\ s.pending = <<>> => AfterClose(s, room).disk = s.disk
  <1>1. Len(s.pending) \in 0..Len(s.pending)
    BY DEF Streams
  <1> QED BY <1>1, PushFacts DEF AfterClose

LEMMA FlushFacts ==
  ASSUME NEW S, NEW s \in Streams(S), NEW room \in Nat, Fits(s, room)
  PROVE  /\ AfterFlush(s, room) \in Streams(S) /\ Fits(AfterFlush(s, room), room)
         /\ Total(AfterFlush(s, room)) = Total(s)
         /\ ~AfterFlush(s, room).bad => ~s.bad /\ AfterFlush(s, room).pending = <<>>
  <1>1. Len(s.pending) \in 0..Len(s.pending)
    BY DEF Streams
  <1> QED BY <1>1, PushFacts DEF AfterFlush

LEMMA KillFacts ==
  ASSUME NEW S, NEW s \in Streams(S), NEW room \in Nat, Fits(s, room)
  PROVE  /\ AfterKill(s) \in Streams(S) /\ Fits(AfterKill(s), room)
         /\ Total(AfterKill(s)) = s.disk
  <1>1. s.disk \in Seq(S) /\ s.bad \in BOOLEAN /\ <<>> \in Seq(S)
    BY DEF Streams
  <1> DEFINE t == AfterKill(s)
  <1>2. t \in Streams(S) /\ t.disk = s.disk /\ t.pending = <<>>
    BY <1>1 DEF AfterKill, Streams
  <1> HIDE DEF t
  <1>3. Total(t) = s.disk
    BY <1>1, <1>2, ConcatEmptySeq DEF Total
  <1> QED BY <1>2, <1>3 DEF t, Fits

LEMMA DiskFacts ==
  ASSUME NEW S, NEW s \in Streams(S)
  PROVE  /\ s.disk \in Seq(S) /\ Total(s) \in Seq(S)
         /\ IsPrefix(s.disk, Total(s))
         /\ s.pending = <<>> => Total(s) = s.disk
  <1>1. s.disk \in Seq(S) /\ s.pending \in Seq(S)
    BY DEF Streams
  <1>2. Total(s) \in Seq(S)
    BY <1>1 DEF Total
  <1> QED BY <1>1, <1>2, PrefixOfConcat, ConcatEmptySeq DEF Total

-----------------------------------------------------------------------------
(* Capture files *)

\* FileOf, of any history.
FileFor(items, n) == FileHeader \o FlattenSeq([k \in 1..n |-> Entry(items[k].bytes)])

Entries(items) == [k \in 1..Len(items) |-> Entry(items[k].bytes)]

LEMMA EntryFacts ==
  ASSUME NEW b \in Seq(Wire)
  PROVE  /\ Entry(b) \in Seq(Wire)
         /\ Len(Entry(b)) = Len(b) + 2
         /\ Entry(b)[1] * LengthBase + Entry(b)[2] = Len(b)
         /\ \A i \in 1..Len(b) : Entry(b)[2 + i] = b[i]
  <1> DEFINE n == Len(b)
             f == LengthField(n)
  <1>1. n \in Nat /\ LengthBase \in Nat \ {0}
    BY ReplayAssumption
  <1> HIDE DEF n
  <1>2. n \div LengthBase \in Int /\ n % LengthBase \in Int
    BY <1>1
  <1>3. (n \div LengthBase) * LengthBase + (n % LengthBase) = n
    BY <1>1
  <1>4. f \in Seq(Wire) /\ Len(f) = 2 /\ f[1] = n \div LengthBase /\ f[2] = n % LengthBase
    BY <1>2 DEF LengthField, Wire, Symbol
  <1> HIDE DEF f
  <1>5. Entry(b) = f \o b
    BY DEF Entry, f, n
  <1> DEFINE e == f \o b
  <1>6. /\ e \in Seq(Wire) /\ Len(e) = Len(f) + Len(b)
        /\ \A i \in 1..Len(f) : e[i] = f[i]
        /\ \A i \in 1..Len(b) : e[Len(f) + i] = b[i]
    <2>0. f \in Seq(Wire) /\ b \in Seq(Wire)
      BY <1>4
    <2>1. e \in Seq(Wire) /\ Len(e) = Len(f) + Len(b)
      BY <2>0
    <2>2. \A i \in 1..Len(f) : e[i] = f[i]
      BY <2>0
    <2>3. \A i \in 1..Len(b) : e[Len(f) + i] = b[i]
      BY <2>0
    <2> QED BY <2>1, <2>2, <2>3
  <1> HIDE DEF e
  <1>9. e[1] = f[1] /\ e[2] = f[2]
    BY <1>4, <1>6
  <1>10. Len(e) = Len(b) + 2
    BY <1>1, <1>4, <1>6 DEF n
  <1>11. e[1] * LengthBase + e[2] = n
    <2>1. e[1] = n \div LengthBase /\ e[2] = n % LengthBase
      BY <1>4, <1>9, Zenon
    <2> QED BY <1>3, <2>1, Zenon
  <1>12. \A i \in 1..Len(b) : e[2 + i] = b[i]
    BY <1>4, <1>6
  <1> QED BY <1>5, <1>6, <1>10, <1>11, <1>12 DEF e, n

LEMMA PrefixShift ==
  ASSUME NEW S, NEW h \in Seq(S), NEW s \in Seq(S), NEW t \in Seq(S), IsPrefix(s, t)
  PROVE  IsPrefix(h \o s, h \o t)
  <1> DEFINE u == h \o s
             v == h \o t
             n == Len(h)
             k == Len(s)
             l == Len(t)
  <1>1. u \in Seq(S) /\ v \in Seq(S) /\ Len(u) = n + k /\ Len(v) = n + l
    OBVIOUS
  <1>2. k <= l /\ \A i \in 1..k : s[i] = t[i]
    BY PrefixFacts
  <1>3. n \in Nat /\ k \in Nat /\ l \in Nat
    OBVIOUS
  <1>4. \A i \in 1..(n + k) : u[i] = IF i <= n THEN h[i] ELSE s[i - n]
    BY ConcatProperties
  <1>5. \A i \in 1..(n + l) : v[i] = IF i <= n THEN h[i] ELSE t[i - n]
    BY ConcatProperties
  <1> HIDE DEF u, v, n, k, l
  <1>6. ASSUME NEW i \in 1..(n + k) PROVE u[i] = v[i]
    <2>1. i \in 1..(n + l)
      BY <1>2, <1>3
    <2>2. CASE i <= n
      BY <1>4, <1>5, <2>1, <2>2
    <2>3. CASE ~(i <= n)
      <3>1. i - n \in 1..k
        BY <1>3, <2>3
      <3> QED BY <1>2, <1>4, <1>5, <2>1, <2>3, <3>1
    <2> QED BY <2>2, <2>3
  <1>7. Len(u) <= Len(v) /\ \A i \in 1..Len(u) : u[i] = v[i]
    BY <1>1, <1>2, <1>3, <1>6
  <1> QED BY <1>1, <1>7, PrefixFacts DEF u, v

LEMMA FileFacts ==
  ASSUME NEW items \in Seq(SentItems)
  PROVE  /\ FileFor(items, 0) = FileHeader
         /\ \A n \in 0..Len(items) : FileFor(items, n) \in Seq(Wire)
         /\ \A n \in 0..Len(items) : n < Len(items) =>
              FileFor(items, n + 1) = FileFor(items, n) \o Entry(items[n + 1].bytes)
         /\ \A n \in 0..Len(items) : \A m \in 0..n : IsPrefix(FileFor(items, m), FileFor(items, n))
  <1> DEFINE q == Entries(items)
             l == Len(items)
             h == FileHeader
  <1>0. l \in Nat /\ \A k \in 1..l : items[k] \in SentItems
    OBVIOUS
  <1>1. \A k \in 1..l : Entry(items[k].bytes) \in Seq(Wire)
    <2> TAKE k \in 1..l
    <2>1. items[k].bytes \in Seq(Wire)
      BY <1>0, SentFacts
    <2> QED BY <2>1, EntryFacts
  <1>2. q \in Seq(Seq(Wire)) /\ Len(q) = l
    <2> DEFINE T == Seq(Wire)
    <2>1. q \in [1..l -> T]
      BY <1>1 DEF Entries
    <2> HIDE DEF T, q, l
    <2>2. q \in Seq(T) /\ Len(q) = l
      BY <1>0, <2>1
    <2> QED BY <2>2 DEF T
  <1>3. \A k \in 1..l : q[k] = Entry(items[k].bytes)
    BY DEF Entries
  <1> HIDE DEF l
  <1>4. ASSUME NEW n \in 0..l PROVE FileFor(items, n) = h \o Joined(q, n)
    <2>1. \A k \in 1..n : k \in 1..l
      BY <1>0
    <2>2. [k \in 1..n |-> Entry(items[k].bytes)] = [k \in 1..n |-> q[k]]
      BY <1>3, <2>1
    <2> QED BY <2>2 DEF FileFor, Joined
  <1> HIDE DEF q
  <1>5. h \in Seq(Wire)
    BY ReplayAssumption DEF Wire, Symbol
  <1> HIDE DEF h
  <1>6. /\ Joined(q, 0) = <<>>
        /\ \A n \in 0..l : Joined(q, n) \in Seq(Wire)
        /\ \A n \in 0..l : n < l => Joined(q, n + 1) = Joined(q, n) \o q[n + 1]
    BY <1>2, JoinedFacts
  <1>7. FileFor(items, 0) = h
    <2>0. 0 \in 0..l
      BY <1>0
    <2>a. FileFor(items, 0) = h \o Joined(q, 0)
      BY <1>4, <2>0, Zenon
    <2>1. FileFor(items, 0) = h \o <<>>
      BY <1>6, <2>a, Zenon
    <2> QED BY <1>5, <2>1, ConcatEmptySeq
  <1>8. \A n \in 0..l : FileFor(items, n) \in Seq(Wire)
    <2> TAKE n \in 0..l
    <2>1. Joined(q, n) \in Seq(Wire)
      BY <1>6
    <2>2. h \o Joined(q, n) \in Seq(Wire)
      BY <1>5, <2>1
    <2> QED BY <1>4, <2>2
  <1>9. ASSUME NEW n \in 0..l, n < l
        PROVE  FileFor(items, n + 1) = FileFor(items, n) \o Entry(items[n + 1].bytes)
    <2>1. n + 1 \in 0..l /\ n + 1 \in 1..l
      BY <1>0, <1>9
    <2> DEFINE j == Joined(q, n)
               e == Entry(items[n + 1].bytes)
    <2>2. j \in Seq(Wire) /\ e \in Seq(Wire) /\ h \in Seq(Wire)
      BY <1>1, <1>5, <1>6, <2>1
    <2>3. Joined(q, n + 1) = j \o e
      BY <1>3, <1>6, <1>9, <2>1
    <2>4. FileFor(items, n + 1) = h \o Joined(q, n + 1) /\ FileFor(items, n) = h \o j
      BY <1>4, <2>1
    <2> HIDE DEF j, e
    <2>5. (h \o j) \o e = h \o (j \o e)
      BY <2>2
    <2>6. FileFor(items, n + 1) = FileFor(items, n) \o e
      BY <2>3, <2>4, <2>5, Zenon
    <2> QED BY <2>6 DEF e
  <1>10. ASSUME NEW n \in 0..l, NEW m \in 0..n PROVE IsPrefix(FileFor(items, m), FileFor(items, n))
    <2>1. m \in 0..l
      BY <1>0
    <2>2. IsPrefix(Joined(q, m), Joined(q, n))
      BY <1>2, JoinedPrefix
    <2>3. IsPrefix(h \o Joined(q, m), h \o Joined(q, n))
      BY <1>5, <1>6, <2>1, <2>2, PrefixShift
    <2> QED BY <1>4, <2>1, <2>3
  <1> QED BY <1>7, <1>8, <1>9, <1>10 DEF l, h

\* What is sent later does not change what was stored before.
LEMMA FileKept ==
  ASSUME NEW items \in Seq(SentItems), NEW x \in SentItems, NEW n \in 0..Len(items)
  PROVE  FileFor(Append(items, x), n) = FileFor(items, n)
  <1>1. \A k \in 1..n : Append(items, x)[k] = items[k]
    <2> DEFINE l == Len(items)
    <2>1. l \in Nat /\ \A k \in 1..l : Append(items, x)[k] = items[k]
      OBVIOUS
    <2> HIDE DEF l
    <2>2. n \in 0..l
      BY DEF l
    <2>3. \A k \in 1..n : k \in 1..l
      BY <2>1, <2>2
    <2> QED BY <2>1, <2>3
  <1>2. [k \in 1..n |-> Entry(Append(items, x)[k].bytes)] = [k \in 1..n |-> Entry(items[k].bytes)]
    BY <1>1
  <1> QED BY <1>2 DEF FileFor

LEMMA FileStep ==
  ASSUME NEW items \in Seq(SentItems), NEW n \in 0..Len(items), n < Len(items)
  PROVE  /\ items[n + 1] \in SentItems /\ n + 1 \in 0..Len(items)
         /\ FileFor(items, n + 1) = FileFor(items, n) \o Entry(items[n + 1].bytes)
         /\ Len(FileFor(items, n + 1)) = Len(FileFor(items, n)) + 2 + Len(items[n + 1].bytes)
  <1> DEFINE l == Len(items)
             f == FileFor(items, n)
             b == items[n + 1].bytes
  <1>1. l \in Nat /\ \A k \in 1..l : items[k] \in SentItems
    OBVIOUS
  <1>2. n \in 0..l /\ n < l
    OBVIOUS
  <1> HIDE DEF l
  <1>3. n + 1 \in 0..l /\ n + 1 \in 1..l
    BY <1>1, <1>2
  <1>4. items[n + 1] \in SentItems /\ b \in Seq(Wire)
    BY <1>1, <1>3, SentFacts
  <1>5. f \in Seq(Wire) /\ FileFor(items, n + 1) = f \o Entry(b)
    BY <1>2, FileFacts DEF l
  <1> HIDE DEF f, b
  <1>6. Entry(b) \in Seq(Wire) /\ Len(Entry(b)) = Len(b) + 2
    BY <1>4, EntryFacts
  <1>7. Len(f \o Entry(b)) = Len(f) + Len(Entry(b))
    <2> DEFINE e == Entry(b)
    <2>1. f \in Seq(Wire) /\ e \in Seq(Wire)
      BY <1>5, <1>6
    <2> HIDE DEF e
    <2>2. Len(f \o e) = Len(f) + Len(e)
      BY <2>1
    <2> QED BY <2>2 DEF e
  <1>8. Len(f) \in Nat /\ Len(b) \in Nat
    BY <1>4, <1>5
  <1>9. Len(f \o Entry(b)) = Len(f) + 2 + Len(b)
    BY <1>6, <1>7, <1>8
  <1> QED BY <1>3, <1>4, <1>5, <1>9 DEF f, b, l

\* readNext at the end of entry n of a capture, whole or cut anywhere: it finds
\* nothing only at the end of the file, and otherwise entry n + 1 or an error.
LEMMA ReadStep ==
  ASSUME NEW items \in Seq(SentItems), NEW n \in 0..Len(items), NEW file \in Seq(Wire),
         IsPrefix(file, FileFor(items, Len(items))), Len(FileFor(items, n)) <= Len(file),
         NEW r, r = ReadNext(file, Len(FileFor(items, n)))
  PROVE  /\ r.result = "nullopt" => file = FileFor(items, n)
         /\ r.result = "frame" =>
              /\ n < Len(items)
              /\ r.bytes = items[n + 1].bytes
              /\ r.next = Len(FileFor(items, n + 1))
              /\ r.next <= Len(file)
  <1> DEFINE l == Len(items)
             F == FileFor(items, n)
             whole == FileFor(items, l)
             pos == Len(F)
             size == Len(file)
             left == size - pos
             length == file[pos + 1] * LengthBase + file[pos + 2]
  <1>1. l \in Nat
    OBVIOUS
  <1>2. n \in 0..l /\ n \in 0..n /\ l \in 0..l
    <2>1. n \in 0..l
      OBVIOUS
    <2> HIDE DEF l
    <2> QED BY <1>1, <2>1
  <1>3. F \in Seq(Wire) /\ whole \in Seq(Wire) /\ IsPrefix(F, whole)
    BY <1>2, FileFacts
  <1>4. IsPrefix(file, whole) /\ pos <= size
    OBVIOUS
  <1>5. pos \in Nat /\ size \in Nat
    BY <1>3
  <1>6. r = ReadNext(file, pos)
    OBVIOUS
  <1> HIDE DEF F, whole, l
  <1>7. IsPrefix(F, file)
    BY <1>3, <1>4, PrefixWithin
  <1>8. r.result = "nullopt" => left = 0
    BY <1>6 DEF ReadNext, ReadEnds, ReplayLengthFieldSize
  <1>9. ASSUME r.result = "nullopt" PROVE file = F
    <2>1. size <= pos
      <3> HIDE DEF size, pos
      <3> QED BY <1>5, <1>8, <1>9
    <2> QED BY <1>3, <1>7, <2>1, PrefixEqual
  <1>10. ASSUME r.result = "frame"
         PROVE  /\ ~(left = 0) /\ ~(left < 2 + length)
                /\ r.next = (pos + 2) + length
                /\ r.bytes = SubSeq(file, (pos + 2) + 1, (pos + 2) + length)
    <2> HIDE DEF length
    <2>1. r = IF left = 0 THEN ReadEnds("nullopt")
              ELSE IF left < 2 THEN ReadEnds("throw")
              ELSE IF ~LegalEntryLength(length) THEN ReadEnds("throw")
              ELSE IF left < 2 + length THEN ReadEnds("throw")
              ELSE [result |-> "frame", next |-> (pos + 2) + length,
                    bytes  |-> SubSeq(file, (pos + 2) + 1, (pos + 2) + length)]
      BY <1>6 DEF ReadNext, ReplayLengthFieldSize, length
    <2> DEFINE c == left < 2
               d == ~LegalEntryLength(length)
               z == left < 2 + length
               frame == [result |-> "frame", next |-> (pos + 2) + length,
                         bytes  |-> SubSeq(file, (pos + 2) + 1, (pos + 2) + length)]
               null == ReadEnds("nullopt")
               throw == ReadEnds("throw")
    <2>2. r = IF left = 0 THEN null ELSE IF c THEN throw ELSE IF d THEN throw ELSE IF z THEN throw ELSE frame
      BY <2>1
    <2>3. null.result = "nullopt" /\ throw.result = "throw"
      BY DEF ReadEnds
    <2>4. frame.next = (pos + 2) + length /\ frame.bytes = SubSeq(file, (pos + 2) + 1, (pos + 2) + length)
      OBVIOUS
    <2> HIDE DEF left, c, d, z, frame, null, throw
    <2>5. left # 0 /\ ~z /\ r = frame
      BY <1>10, <2>2, <2>3
    <2> QED BY <2>4, <2>5 DEF z
  <1>11. ASSUME r.result = "frame"
         PROVE  /\ n < l /\ r.bytes = items[n + 1].bytes
                /\ r.next = Len(FileFor(items, n + 1)) /\ r.next <= size
    <2>1. n < l
      <3> SUFFICES ASSUME ~(n < l) PROVE FALSE
        OBVIOUS
      <3>1. n = l
        BY <1>1, <1>2
      <3>2. size <= pos
        BY <1>3, <1>4, <3>1, PrefixFacts DEF F, whole
      <3> QED BY <1>4, <1>5, <1>10, <1>11, <3>2
    <2> DEFINE b == items[n + 1].bytes
               e == Entry(b)
               G == FileFor(items, n + 1)
               k == Len(b)
    <2>2. /\ items[n + 1] \in SentItems /\ n + 1 \in 0..l
          /\ G = F \o e /\ Len(G) = pos + 2 + k
      BY <1>2, <2>1, FileStep DEF l, F
    <2>3. b \in Seq(Wire)
      BY <2>2, SentFacts
    <2>4. e \in Seq(Wire) /\ Len(e) = k + 2 /\ e[1] * LengthBase + e[2] = k
          /\ \A i \in 1..k : e[2 + i] = b[i]
      BY <2>3, EntryFacts
    <2>5. k \in Nat
      BY <2>3
    <2>6. G \in Seq(Wire) /\ IsPrefix(G, whole)
      <3>1. n + 1 \in 0..l
        BY <2>2
      <3> QED BY <1>1, <1>2, <3>1, FileFacts DEF whole, l
    <2> HIDE DEF b, e, G, k, pos, size
    <2>7. \A i \in 1..(k + 2) : G[pos + i] = e[i]
      <3>1. F \in Seq(Wire) /\ e \in Seq(Wire)
        BY <1>3, <2>4
      <3>2. \A i \in 1..Len(e) : (F \o e)[Len(F) + i] = e[i]
        BY <3>1
      <3> QED BY <2>2, <2>4, <3>2 DEF pos
    <2>8. \A i \in 1..(pos + 2 + k) : G[i] = whole[i]
      <3>1. \A i \in 1..Len(G) : G[i] = whole[i]
        BY <1>3, <2>6, PrefixFacts
      <3> QED BY <2>2, <3>1
    <2>9. \A i \in 1..size : file[i] = whole[i]
      BY <1>3, <1>4, PrefixFacts DEF size
    <2>10. ASSUME NEW i \in 1..(k + 2), pos + i <= size PROVE file[pos + i] = e[i]
      <3>1. pos + i \in 1..(pos + 2 + k) /\ pos + i \in 1..size
        BY <1>5, <2>5, <2>10
      <3> QED BY <2>7, <2>8, <2>9, <3>1
    <2>11. left # 0 /\ left \in Int /\ pos <= size
      BY <1>4, <1>5, <1>10, <1>11 DEF pos, size
    <2>12. left >= 2
      <3>1. ~(left < 2)
        <4>1. r = ReadNext(file, pos)
          BY <1>6
        <4>2. left < 2 => r = ReadEnds("nullopt") \/ r = ReadEnds("throw")
          BY <4>1 DEF ReadNext, ReplayLengthFieldSize, size, pos
        <4> QED BY <1>11, <4>2 DEF ReadEnds
      <3> QED BY <2>11, <3>1
    <2>13. file[pos + 1] = e[1] /\ file[pos + 2] = e[2]
      <3>1. 1 \in 1..(k + 2) /\ 2 \in 1..(k + 2) /\ pos + 1 <= size /\ pos + 2 <= size
        BY <1>5, <2>5, <2>12
      <3> QED BY <2>10, <3>1
    <2>14. length = k
      BY <2>4, <2>13, Zenon
    <2>15. /\ ~(left < 2 + k) /\ r.next = (pos + 2) + k
           /\ r.bytes = SubSeq(file, (pos + 2) + 1, (pos + 2) + k)
      <3>1. /\ ~(left < 2 + length) /\ r.next = (pos + 2) + length
            /\ r.bytes = SubSeq(file, (pos + 2) + 1, (pos + 2) + length)
        BY <1>10, <1>11 DEF size, pos
      <3> HIDE DEF length, left
      <3> QED BY <2>14, <3>1
    <2> HIDE DEF length
    <2>16. r.next = Len(G) /\ r.next <= size
      BY <1>5, <2>2, <2>5, <2>11, <2>15
    <2>17. r.bytes = b
      <3> DEFINE u == (pos + 2) + 1
                 v == (pos + 2) + k
                 t == SubSeq(file, u, v)
      <3>1. u \in 1..(size + 1) /\ v \in (u - 1)..size /\ u \in Int /\ v \in Int /\ v - u + 1 = k
        BY <1>5, <2>5, <2>15
      <3>2. \A i \in u..v : file[i] \in Wire
        <4>1. \A i \in 1..size : file[i] \in Wire
          BY DEF size
        <4>2. \A i \in u..v : i \in 1..size
          BY <1>5, <3>1
        <4> QED BY <4>1, <4>2
      <3>3. t \in Seq(Wire) /\ Len(t) = (IF u <= v THEN v - u + 1 ELSE 0)
            /\ \A i \in 1..(v - u + 1) : t[i] = file[u + i - 1]
        <4> HIDE DEF u, v
        <4> QED BY <3>1, <3>2, SubSeqProperties
      <3>4. Len(t) = k
        <4> HIDE DEF t
        <4> QED BY <1>5, <2>5, <3>1, <3>3
      <3>5. ASSUME NEW i \in 1..k PROVE t[i] = b[i]
        <4>1. u + i - 1 = pos + (2 + i) /\ 2 + i \in 1..(k + 2) /\ pos + (2 + i) <= size
          BY <1>5, <2>5, <2>15
        <4>2. t[i] = file[u + i - 1]
          <5> HIDE DEF t, u, v
          <5> QED BY <3>1, <3>3
        <4>3. file[pos + (2 + i)] = e[2 + i]
          BY <2>10, <4>1
        <4>4. e[2 + i] = b[i]
          BY <2>4
        <4> HIDE DEF t, u
        <4> QED BY <4>1, <4>2, <4>3, <4>4
      <3> HIDE DEF t
      <3>6. Len(b) = k
        BY DEF k
      <3>7. t = b
        BY <2>3, <3>3, <3>4, <3>5, <3>6, SeqEqual
      <3> QED BY <2>15, <3>7 DEF t
    <2> QED BY <2>1, <2>16, <2>17 DEF b, G
  <1> QED BY <1>9, <1>11 DEF l, F

-----------------------------------------------------------------------------
(* The simulator's part of the state *)

SimPcs == {"open", "frame", "send", "store"} \cup Ended

SimInv ==
  /\ options \in ParsedOptions
  /\ fileRoom \in Nat
  /\ simIndex \in Nat
  /\ simPc \in SimPcs
  /\ sent \in Seq(SentItems)
  /\ simPc \in {"send", "store"} => sent # <<>> /\ simBytes = sent[Len(sent)].bytes
  /\ simPc = "open" => sent = <<>>
  /\ stPc # "off" => simPc \in Ended
  /\ simFault # "refused"

LEMMA SimInit1 == Init => SimInv
  <1> SUFFICES ASSUME Init PROVE SimInv
    OBVIOUS
  <1>1. fileRoom \in Nat
    BY SimulatorAssumption DEF Init, SimInit
  <1>2. sent = <<>> /\ sent \in Seq(SentItems)
    BY DEF Init, SimInit
  <1>3. simPc \in {"open", "frame"}
    BY DEF Init, SimInit
  <1> QED BY <1>1, <1>2, <1>3 DEF Init, SimInit, SimInv, SimPcs

LEMMA SimStep == SimInv /\ [Next]_vars => SimInv'
  <1> SUFFICES ASSUME SimInv, [Next]_vars PROVE SimInv'
    OBVIOUS
  <1> USE DEF SimPcs, Ended
  <1>i. /\ options \in ParsedOptions /\ fileRoom \in Nat /\ simIndex \in Nat /\ simPc \in SimPcs
        /\ sent \in Seq(SentItems) /\ simFault # "refused"
        /\ stPc # "off" => simPc \in Ended
    BY DEF SimInv
  <1>1. CASE SimulatorStep
    <2>u. stPc' = stPc
      BY <1>1 DEF SimulatorStep, stationVars
    <2>1. CASE OpenCapture
      BY <1>i, <2>1, <2>u DEF SimInv, OpenCapture, Throw
    <2>2. CASE LoseFrame
      BY <1>i, <2>2, <2>u DEF SimInv, LoseFrame, MoreFrames
    <2>3. CASE TransmitFrame \/ TransmitDamagedFrame
      <3>1. PICK x \in SentItems :
              /\ sent' = Append(sent, x)
              /\ simBytes' = x.bytes
              /\ simPc = "frame"
              /\ simPc' \in {"send", "store"}
              /\ UNCHANGED <<options, fileRoom, simIndex, simFault, link, capture>>
        BY <1>i, <2>3, TransmitFacts
      <3>2. sent' \in Seq(SentItems) /\ sent' # <<>> /\ sent'[Len(sent')] = x
        <4> DEFINE q == Append(sent, x)
        <4>1. sent \in Seq(SentItems)
          BY <1>i
        <4>2. q \in Seq(SentItems) /\ q # <<>> /\ q[Len(q)] = x
          BY <4>1
        <4> HIDE DEF q
        <4> QED BY <3>1, <4>2 DEF q
      <3>3. simBytes' = sent'[Len(sent')].bytes
        BY <3>1, <3>2
      <3> QED BY <1>i, <2>u, <3>1, <3>2, <3>3 DEF SimInv
    <2>4. CASE RefuseFrame
      <3>1. PICK signal \in SignalsOf(simIndex) :
              /\ SignalRefused(simIndex, signal)
              /\ Throw(IF FiniteSamples(signal.samples) THEN "refused" ELSE "overflow", capture)
        BY <2>4 DEF RefuseFrame
      <3>2. options.mode = "signal" /\ simIndex < options.count
        BY <2>4 DEF RefuseFrame, MoreFrames
      <3>3. ~FiniteSamples(signal.samples)
        BY <1>i, <3>1, <3>2, BlockAccepted
      <3>4. simFault' = "overflow" /\ simPc' = "failed"
        BY <3>1, <3>3 DEF Throw
      <3> QED BY <1>i, <2>4, <2>u, <3>4 DEF SimInv, RefuseFrame
    <2>5. CASE StoreFrame
      <3>1. simIndex' \in Nat /\ simPc' \in {"frame", "failed"} /\ simFault' # "refused"
        BY <1>i, <2>5 DEF StoreFrame, Throw
      <3> QED BY <1>i, <2>5, <2>u, <3>1 DEF SimInv, StoreFrame
    <2>6. CASE FinishRun
      <3>1. simPc' \in {"done", "failed"} /\ simFault' # "refused"
        BY <1>i, <2>6 DEF FinishRun, Throw
      <3> QED BY <1>i, <2>6, <2>u, <3>1 DEF SimInv, FinishRun
    <2>7. CASE KillSimulator
      BY <1>i, <2>7, <2>u DEF SimInv, KillSimulator
    <2> QED BY <1>1, <2>1, <2>2, <2>3, <2>4, <2>5, <2>6, <2>7 DEF SimulatorStep
  <1>2. CASE StartStation
    BY <1>2 DEF SimInv, StartStation, simVars
  <1>3. CASE ~SimulatorStep /\ ~StartStation
    <2>1. /\ UNCHANGED <<options, fileRoom, simPc, simIndex, simBytes, simFault, sent>>
          /\ stPc = "off" => stPc' = "off"
      BY <1>3 DEF Next, vars, simVars, stationVars, Rot, OpenReplay, ReadFrame, StopReplay, RejectFrame,
         ExportFrame, WriterFails, FinishExport, GapFound, Finished, WriterRuns
    <2> QED BY <2>1 DEF SimInv
  <1> QED BY <1>1, <1>2, <1>3

\* A run that parseArgs accepted is not refused on the way (SimulatorOptions.cpp:261
\* against SimulatorFrameFactory.cpp:74 and ApplicationPayload.cpp:85-103): for any
\* number of frames, samples and messages, only a sample out of a float's range can
\* stop the factory.
THEOREM OnlyOverflowTheorem == Spec => []OnlyOverflowRefuses
  <1>1. SimInv => OnlyOverflowRefuses
    BY DEF SimInv, OnlyOverflowRefuses
  <1> QED BY <1>1, SimInit1, SimStep, PTL DEF Spec

-----------------------------------------------------------------------------
(* The capture *)

\* The file the simulator leaves behind is a cut of the file of everything it
\* sent, and while the simulator runs, what its stream was given is exactly the
\* header and the entries of the iterations that are over.
CaptureOK ==
  /\ capture \in Streams(Wire)
  /\ Fits(capture, fileRoom)
  /\ simPc = "open" => options.captures /\ capture = FreshStream
  /\ ~options.captures => Total(capture) = <<>>
  /\ options.captures =>
       /\ simPc = "frame" => ~capture.bad /\ Total(capture) = FileFor(sent, Len(sent))
       /\ simPc \in {"send", "store"} =>
            ~capture.bad /\ Total(capture) = FileFor(sent, Len(sent) - 1)
       /\ simPc = "done" => capture.disk = FileFor(sent, Len(sent))
  /\ simPc \in Ended => IsPrefix(capture.disk, FileFor(sent, Len(sent)))

CaptureInv == ~rot => CaptureOK

LEMMA EmptyPrefix ==
  ASSUME NEW S, NEW t \in Seq(S)
  PROVE  IsPrefix(<<>>, t) /\ IsPrefix(t, t)
  <1>1. <<>> \in Seq(S) /\ Len(<<>>) = 0 /\ Len(t) \in Nat
    OBVIOUS
  <1>2. Len(<<>>) <= Len(t) /\ \A i \in 1..Len(<<>>) : <<>>[i] = t[i]
    BY <1>1
  <1>3. IsPrefix(<<>>, t)
    BY <1>1, <1>2, PrefixFacts
  <1>4. Len(t) <= Len(t) /\ \A i \in 1..Len(t) : t[i] = t[i]
    BY <1>1
  <1>5. IsPrefix(t, t)
    BY <1>4, PrefixFacts
  <1> QED BY <1>3, <1>5

LEMMA FreshFacts ==
  ASSUME NEW S, NEW room \in Nat
  PROVE  /\ FreshStream \in Streams(S) /\ Fits(FreshStream, room)
         /\ Total(FreshStream) = <<>> /\ ~FreshStream.bad
  <1>1. <<>> \in Seq(S) /\ Len(<<>>) = 0 /\ <<>> \o <<>> = <<>>
    BY ConcatEmptySeq
  <1> QED BY <1>1 DEF FreshStream, Streams, Fits, Total

\* However a process ends, the file it leaves is a cut of what it wrote.
LEMMA LeftBehind ==
  ASSUME NEW s \in Streams(Wire), NEW room \in Nat, Fits(s, room),
         NEW w \in Seq(Wire), IsPrefix(Total(s), w)
  PROVE  /\ IsPrefix(AfterClose(s, room).disk, w)
         /\ IsPrefix(AfterKill(s).disk, w)
  <1> DEFINE c == AfterClose(s, room)
             k == AfterKill(s)
  <1>1. c \in Streams(Wire) /\ Total(c) = Total(s)
    BY CloseFacts
  <1>2. k \in Streams(Wire) /\ k.disk = s.disk
    BY KillFacts DEF AfterKill, Streams
  <1> HIDE DEF c, k
  <1>3. c.disk \in Seq(Wire) /\ Total(c) \in Seq(Wire) /\ IsPrefix(c.disk, Total(c))
    BY <1>1, DiskFacts
  <1>4. s.disk \in Seq(Wire) /\ Total(s) \in Seq(Wire) /\ IsPrefix(s.disk, Total(s))
    BY DiskFacts
  <1>5. IsPrefix(c.disk, w)
    BY <1>1, <1>3, PrefixTransitive
  <1>6. IsPrefix(s.disk, w)
    BY <1>4, PrefixTransitive
  <1> QED BY <1>2, <1>5, <1>6 DEF c, k

LEMMA LastFacts ==
  ASSUME NEW items \in Seq(SentItems)
  PROVE  /\ Len(items) \in Nat /\ Len(items) \in 0..Len(items)
         /\ FileFor(items, Len(items)) \in Seq(Wire)
         /\ items # <<>> =>
              /\ Len(items) - 1 \in 0..Len(items)
              /\ FileFor(items, Len(items) - 1) \in Seq(Wire)
              /\ FileFor(items, Len(items)) =
                   FileFor(items, Len(items) - 1) \o Entry(items[Len(items)].bytes)
              /\ IsPrefix(FileFor(items, Len(items) - 1), FileFor(items, Len(items)))
              /\ items[Len(items)] \in SentItems
  <1> DEFINE l == Len(items)
  <1>1. l \in Nat /\ (items # <<>> => l # 0)
    OBVIOUS
  <1>2. /\ \A n \in 0..l : FileFor(items, n) \in Seq(Wire)
        /\ \A n \in 0..l : n < l => FileFor(items, n + 1) = FileFor(items, n) \o Entry(items[n + 1].bytes)
        /\ \A n \in 0..l : \A m \in 0..n : IsPrefix(FileFor(items, m), FileFor(items, n))
    BY FileFacts
  <1>3. \A k \in 1..l : items[k] \in SentItems
    OBVIOUS
  <1> HIDE DEF l
  <1>4. l \in 0..l
    BY <1>1
  <1>5. ASSUME items # <<>> PROVE l - 1 \in 0..l /\ l - 1 < l /\ (l - 1) + 1 = l /\ l \in 1..l
    BY <1>1, <1>5
  <1>6. ASSUME items # <<>>
        PROVE FileFor(items, l) = FileFor(items, l - 1) \o Entry(items[l].bytes)
    <2> DEFINE m == l - 1
    <2>1. m \in 0..l /\ m < l /\ m + 1 = l
      BY <1>5, <1>6
    <2> HIDE DEF m
    <2>2. FileFor(items, m + 1) = FileFor(items, m) \o Entry(items[m + 1].bytes)
      BY <1>2, <2>1
    <2> QED BY <2>1, <2>2 DEF m
  <1>7. ASSUME items # <<>> PROVE IsPrefix(FileFor(items, l - 1), FileFor(items, l))
    BY <1>2, <1>4, <1>5, <1>7
  <1> QED BY <1>1, <1>2, <1>3, <1>4, <1>5, <1>6, <1>7 DEF l

\* What a running simulator has written is a cut of the file of what it sent.
LEMMA WrittenIsPrefix ==
  ASSUME SimInv, CaptureOK, simPc \notin Ended
  PROVE  IsPrefix(Total(capture), FileFor(sent, Len(sent)))
  <1>1. sent \in Seq(SentItems) /\ simPc \in SimPcs /\ (simPc \in {"send", "store"} => sent # <<>>)
    BY DEF SimInv
  <1>2. FileFor(sent, Len(sent)) \in Seq(Wire)
    BY <1>1, LastFacts
  <1>3. CASE Total(capture) = <<>>
    BY <1>2, <1>3, EmptyPrefix
  <1>4. CASE Total(capture) = FileFor(sent, Len(sent))
    BY <1>2, <1>4, EmptyPrefix
  <1>5. CASE simPc \in {"send", "store"} /\ options.captures
    BY <1>1, <1>5, LastFacts DEF CaptureOK
  <1>6. simPc = "open" => Total(capture) = <<>>
    BY FreshFacts DEF CaptureOK, SimInv
  <1> QED BY <1>1, <1>3, <1>4, <1>5, <1>6 DEF CaptureOK, SimPcs

LEMMA CaptureInit == Init => CaptureInv
  <1> SUFFICES ASSUME Init PROVE CaptureOK
    BY DEF CaptureInv
  <1>1. fileRoom \in Nat /\ capture = FreshStream /\ sent = <<>>
    BY SimulatorAssumption DEF Init, SimInit
  <1>2. capture \in Streams(Wire) /\ Fits(capture, fileRoom) /\ Total(capture) = <<>>
    BY <1>1, FreshFacts
  <1>3. options.captures => simPc = "open"
    BY DEF Init, SimInit
  <1>4. ~options.captures => simPc = "frame"
    BY DEF Init, SimInit
  <1> QED BY <1>1, <1>2, <1>3, <1>4 DEF CaptureOK, Ended

LEMMA CaptureStep == SimInv /\ CaptureInv /\ [Next]_vars => CaptureInv'
  <1> SUFFICES ASSUME SimInv, CaptureInv, [Next]_vars, ~rot' PROVE CaptureOK'
    BY DEF CaptureInv
  <1>1. CASE SimulatorStep
    <2>0. ~rot
      BY <1>1 DEF SimulatorStep
    <2>1. CaptureOK
      BY <2>0 DEF CaptureInv
    <2> DEFINE W == FileFor(sent, Len(sent))
    <2>2. /\ sent \in Seq(SentItems) /\ fileRoom \in Nat /\ simPc \in SimPcs
          /\ capture \in Streams(Wire) /\ Fits(capture, fileRoom)
      BY <2>1 DEF SimInv, CaptureOK
    <2>3. W \in Seq(Wire)
      BY <2>2, LastFacts
    <2>4. ASSUME NEW s \in Streams(Wire), Fits(s, fileRoom), IsPrefix(Total(s), W),
                 ~options.captures => Total(s) = <<>>,
                 capture' = AfterClose(s, fileRoom), simPc' = "failed",
                 UNCHANGED <<options, fileRoom, sent>>
          PROVE  CaptureOK'
      <3>1. IsPrefix(AfterClose(s, fileRoom).disk, W)
        BY <2>2, <2>3, <2>4, LeftBehind
      <3>2. /\ AfterClose(s, fileRoom) \in Streams(Wire) /\ Fits(AfterClose(s, fileRoom), fileRoom)
            /\ Total(AfterClose(s, fileRoom)) = Total(s)
        BY <2>2, <2>4, CloseFacts
      <3> QED BY <2>4, <3>1, <3>2 DEF CaptureOK
    <2> HIDE DEF W
    <2>5. CASE OpenCapture
      <3>1. options.captures /\ capture = FreshStream /\ sent = <<>>
        BY <2>1, <2>5 DEF OpenCapture, CaptureOK, SimInv
      <3>2. UNCHANGED <<options, fileRoom, sent>>
        BY <2>5 DEF OpenCapture
      <3>3. Len(sent) = 0 /\ W = FileHeader
        BY <2>2, <3>1, FileFacts DEF W
      <3>4. CASE Throw("open", capture)
        <4>1. Total(capture) = <<>> /\ IsPrefix(Total(capture), W)
          BY <2>2, <2>3, <3>1, FreshFacts, EmptyPrefix
        <4> QED BY <2>2, <2>4, <3>2, <3>4, <4>1 DEF Throw
      <3>5. CASE \E stream \in OpenWriter(fileRoom) :
                   IF stream.bad THEN Throw("write", stream)
                   ELSE simPc' = "frame" /\ capture' = stream /\ UNCHANGED simFault
        <4>1. PICK stream \in OpenWriter(fileRoom) :
                     IF stream.bad THEN Throw("write", stream)
                     ELSE simPc' = "frame" /\ capture' = stream /\ UNCHANGED simFault
          BY <3>5
        <4>2. FileHeader \in Seq(Wire)
          BY <2>3, <3>3
        <4>3. FreshStream \in Streams(Wire) /\ Fits(FreshStream, fileRoom)
              /\ Total(FreshStream) = <<>> /\ ~FreshStream.bad
          BY <2>2, FreshFacts
        <4>4. stream \in AfterWrite(FreshStream, FileHeader, fileRoom)
          BY <4>1 DEF OpenWriter
        <4>5. /\ stream \in Streams(Wire) /\ Fits(stream, fileRoom)
              /\ Total(stream) = Total(FreshStream) \o FileHeader
          <5> DEFINE fresh == FreshStream
                     header == FileHeader
          <5>1. fresh \in Streams(Wire) /\ Fits(fresh, fileRoom) /\ ~fresh.bad
            BY <4>3
          <5>2. header \in Seq(Wire) /\ stream \in AfterWrite(fresh, header, fileRoom)
            BY <4>2, <4>4
          <5> HIDE DEF fresh, header
          <5>3. stream \in Streams(Wire) /\ Fits(stream, fileRoom) /\ Total(stream) = Total(fresh) \o header
            BY <2>2, <5>1, <5>2, WriteFacts
          <5> QED BY <5>3 DEF fresh, header
        <4>6. Total(stream) = W
          <5>1. Total(stream) = <<>> \o FileHeader
            BY <4>3, <4>5, Zenon
          <5> QED BY <3>3, <4>2, <5>1, ConcatEmptySeq
        <4>7. CASE stream.bad
          <5>1. IsPrefix(Total(stream), W)
            BY <2>3, <4>6, EmptyPrefix
          <5>2. capture' = AfterClose(stream, fileRoom) /\ simPc' = "failed"
            BY <4>1, <4>7 DEF Throw
          <5> QED BY <2>4, <3>1, <3>2, <4>5, <5>1, <5>2
        <4>8. CASE ~stream.bad
          <5>1. simPc' = "frame" /\ capture' = stream
            BY <4>1, <4>8
          <5> QED BY <3>1, <3>2, <4>5, <4>6, <4>8, <5>1 DEF CaptureOK, Ended, W
        <4> QED BY <4>7, <4>8
      <3> QED BY <2>5, <3>4, <3>5 DEF OpenCapture
    <2>6. CASE LoseFrame
      BY <2>1, <2>6 DEF CaptureOK, LoseFrame
    <2>7. CASE TransmitFrame \/ TransmitDamagedFrame
      <3>1. PICK x \in SentItems :
              /\ sent' = Append(sent, x)
              /\ simPc = "frame"
              /\ simPc' \in {"send", "store"}
              /\ UNCHANGED <<options, fileRoom, capture>>
        BY <2>7, TransmitFacts DEF SimInv
      <3> DEFINE l == Len(sent)
      <3>2. l \in Nat /\ l \in 0..l
        BY <2>2, LastFacts
      <3>3. Len(sent') - 1 = l
        <4>1. Len(Append(sent, x)) = l + 1
          BY <2>2
        <4> HIDE DEF l
        <4> QED BY <3>1, <3>2, <4>1
      <3>4. FileFor(Append(sent, x), l) = FileFor(sent, l)
        BY <2>2, <3>2, FileKept
      <3>5. FileFor(sent', Len(sent') - 1) = FileFor(sent, l)
        BY <3>1, <3>3, <3>4
      <3>6. ~options.captures => Total(capture) = <<>>
        BY <2>1 DEF CaptureOK
      <3>7. options.captures => ~capture.bad /\ Total(capture) = FileFor(sent, l)
        BY <2>1, <3>1 DEF CaptureOK
      <3> HIDE DEF l
      <3> QED BY <2>2, <3>1, <3>5, <3>6, <3>7 DEF CaptureOK, Ended
    <2>8. CASE RefuseFrame
      <3>1. simPc = "frame" /\ simPc' = "failed" /\ capture' = AfterClose(capture, fileRoom)
            /\ UNCHANGED <<options, fileRoom, sent>>
        BY <2>8 DEF RefuseFrame, Throw, MoreFrames
      <3>2. IsPrefix(Total(capture), W)
        BY <2>1, <3>1, WrittenIsPrefix DEF W, Ended
      <3>3. ~options.captures => Total(capture) = <<>>
        BY <2>1 DEF CaptureOK
      <3> QED BY <2>2, <2>4, <3>1, <3>2, <3>3
    <2>9. CASE StoreFrame
      <3>0. simPc = "store" /\ UNCHANGED <<options, fileRoom, sent>> /\ sent # <<>>
            /\ simBytes = sent[Len(sent)].bytes
        BY <2>9 DEF StoreFrame, SimInv
      <3>1. CASE ~options.captures
        <4>1. simPc' = "frame" /\ capture' = capture
          BY <2>9, <3>1 DEF StoreFrame
        <4> QED BY <2>1, <2>2, <3>0, <3>1, <4>1 DEF CaptureOK, Ended
      <3>2. CASE options.captures
        <4>1. PICK stream \in AfterWriteFrame(capture, simBytes, fileRoom) :
                IF stream.bad THEN Throw("write", stream)
                ELSE capture' = stream /\ simPc' = "frame"
          BY <2>9, <3>2 DEF StoreFrame
        <4>2. simBytes \in Seq(Wire)
          BY <2>2, <3>0, LastFacts, SentFacts
        <4>3. Entry(simBytes) \in Seq(Wire)
          BY <4>2, EntryFacts
        <4>4. ~capture.bad /\ Total(capture) = FileFor(sent, Len(sent) - 1)
          BY <2>1, <3>0, <3>2 DEF CaptureOK
        <4>5. stream \in Streams(Wire) /\ Fits(stream, fileRoom)
              /\ Total(stream) = Total(capture) \o Entry(simBytes)
          BY <2>2, <4>1, <4>3, <4>4, WriteFacts DEF AfterWriteFrame
        <4>6. Total(stream) = W
          BY <2>2, <3>0, <4>4, <4>5, LastFacts DEF W
        <4>7. CASE stream.bad
          <5>1. IsPrefix(Total(stream), W)
            BY <2>3, <4>6, EmptyPrefix
          <5>2. capture' = AfterClose(stream, fileRoom) /\ simPc' = "failed"
            BY <4>1, <4>7 DEF Throw
          <5> QED BY <2>4, <3>0, <3>2, <4>5, <5>1, <5>2
        <4>8. CASE ~stream.bad
          <5>1. simPc' = "frame" /\ capture' = stream
            BY <4>1, <4>8
          <5> QED BY <3>0, <3>2, <4>5, <4>6, <4>8, <5>1 DEF CaptureOK, Ended, W
        <4> QED BY <4>7, <4>8
      <3> QED BY <3>1, <3>2
    <2>10. CASE FinishRun
      <3> DEFINE stream == AfterFlush(capture, fileRoom)
      <3>0. simPc = "frame" /\ UNCHANGED <<options, fileRoom, sent>>
        BY <2>10 DEF FinishRun
      <3>1. /\ stream \in Streams(Wire) /\ Fits(stream, fileRoom) /\ Total(stream) = Total(capture)
            /\ ~stream.bad => stream.pending = <<>>
        BY <2>2, FlushFacts
      <3>2. IsPrefix(Total(stream), W)
        BY <2>1, <3>0, <3>1, WrittenIsPrefix DEF W, Ended
      <3>3. ~options.captures => Total(stream) = <<>>
        BY <2>1, <3>1 DEF CaptureOK
      <3>4. CASE options.captures /\ stream.bad
        <4>1. capture' = AfterClose(stream, fileRoom) /\ simPc' = "failed"
          BY <2>10, <3>4 DEF FinishRun, Throw
        <4> HIDE DEF stream
        <4> QED BY <2>4, <3>0, <3>1, <3>2, <3>3, <4>1
      <3>5. CASE ~(options.captures /\ stream.bad)
        <4>1. capture' = AfterClose(stream, fileRoom) /\ simPc' = "done"
          BY <2>10, <3>5 DEF FinishRun
        <4> HIDE DEF stream
        <4> DEFINE c == AfterClose(stream, fileRoom)
        <4>2. c \in Streams(Wire) /\ Fits(c, fileRoom) /\ Total(c) = Total(stream)
              /\ (stream.pending = <<>> => c.disk = stream.disk)
          BY <2>2, <3>1, CloseFacts
        <4>3. IsPrefix(c.disk, W)
          BY <2>2, <2>3, <3>1, <3>2, LeftBehind
        <4>4. ASSUME options.captures PROVE c.disk = W
          <5>1. stream.pending = <<>>
            BY <3>1, <3>5, <4>4
          <5>2. Total(stream) = stream.disk
            BY <3>1, <5>1, DiskFacts
          <5>3. Total(capture) = W
            BY <2>1, <3>0, <4>4 DEF CaptureOK, W
          <5> QED BY <3>1, <4>2, <5>1, <5>2, <5>3
        <4> HIDE DEF c
        <4>5. capture' = c
          BY <4>1 DEF c
        <4> QED BY <3>0, <3>3, <4>1, <4>2, <4>3, <4>4, <4>5 DEF CaptureOK, Ended, W
      <3> QED BY <3>4, <3>5
    <2>11. CASE KillSimulator
      <3>1. /\ simPc \notin Ended /\ simPc' = "killed" /\ capture' = AfterKill(capture)
            /\ UNCHANGED <<options, fileRoom, sent>>
        BY <2>11 DEF KillSimulator
      <3>2. IsPrefix(AfterKill(capture).disk, W)
        <4>1. IsPrefix(Total(capture), W)
          BY <2>1, <3>1, WrittenIsPrefix DEF W
        <4> QED BY <2>2, <2>3, <4>1, LeftBehind
      <3>3. AfterKill(capture) \in Streams(Wire) /\ Fits(AfterKill(capture), fileRoom)
            /\ Total(AfterKill(capture)) = capture.disk
        BY <2>2, KillFacts
      <3>4. ~options.captures => capture.disk = <<>>
        <4>1. capture.disk \in Seq(Wire) /\ capture.pending \in Seq(Wire)
          BY <2>2 DEF Streams
        <4>2. ~options.captures => capture.disk \o capture.pending = <<>>
          BY <2>1 DEF CaptureOK, Total
        <4> QED BY <4>1, <4>2, ConcatEqualIffEmpty
      <3> QED BY <3>1, <3>2, <3>3, <3>4 DEF CaptureOK, W
    <2> QED BY <1>1, <2>5, <2>6, <2>7, <2>8, <2>9, <2>10, <2>11 DEF SimulatorStep
  <1>2. CASE ~SimulatorStep
    <2>1. ~Rot
      BY DEF Rot
    <2>2. UNCHANGED <<options, fileRoom, simPc, sent, capture, rot>>
      BY <1>2, <2>1 DEF Next, vars, simVars, stationVars, StartStation, OpenReplay, ReadFrame, StopReplay,
         RejectFrame, ExportFrame, WriterFails, FinishExport, GapFound, Finished
    <2> QED BY <2>2 DEF CaptureInv, CaptureOK
  <1> QED BY <1>1, <1>2

-----------------------------------------------------------------------------
(* The reader *)

\* The reader stands between two entries, and when it stops of its own accord it
\* has seen the whole file.
ReadOK ==
  /\ readCount \in 0..Len(sent)
  /\ stPc = "reading" =>
       readPos = Len(FileFor(sent, readCount)) /\ readPos <= Len(capture.disk)
  /\ stPc \in {"draining", "exit0"} /\ ~inputFailed /\ ~interrupted =>
       capture.disk = FileFor(sent, readCount)
  /\ stPc \in {"off", "opened"} => readCount = 0
  /\ stPc = "exit0" => ~inputFailed /\ backlog = <<>>

ReadInv == ~rot => ReadOK

LEMMA ReadInit == Init => ReadInv
  <1> SUFFICES ASSUME Init PROVE ReadOK
    BY DEF ReadInv
  <1>1. sent = <<>> /\ readCount = 0 /\ stPc = "off"
    BY DEF Init, SimInit
  <1>2. 0 \in 0..Len(sent)
    BY <1>1
  <1> QED BY <1>1, <1>2 DEF ReadOK

\* What one call of readNext does to the reader's part of the state.
LEMMA ReadFrameFacts ==
  ASSUME SimInv, CaptureOK, ReadOK, ReadFrame
  PROVE  /\ stPc = "reading"
         /\ \/ /\ readCount < Len(sent)
               /\ readCount' = readCount + 1
               /\ readPos' = Len(FileFor(sent, readCount + 1))
               /\ readPos' <= Len(capture.disk)
               /\ backlog' = Append(backlog, DecodeFrame(sent[readCount + 1].bytes))
               /\ UNCHANGED <<stPc, inputFailed>>
            \/ /\ capture.disk = FileFor(sent, readCount)
               /\ stPc' = "draining"
               /\ UNCHANGED <<readPos, backlog, inputFailed, readCount>>
            \/ /\ InputThrows
               /\ UNCHANGED <<readPos, readCount>>
  <1> DEFINE disk == capture.disk
             r == ReadNext(disk, readPos)
  <1>1. stPc = "reading" /\ simPc \in Ended /\ sent \in Seq(SentItems)
    BY DEF ReadFrame, SimInv
  <1>2. disk \in Seq(Wire) /\ IsPrefix(disk, FileFor(sent, Len(sent)))
    BY <1>1 DEF CaptureOK, Streams
  <1>3. readCount \in 0..Len(sent) /\ readPos = Len(FileFor(sent, readCount)) /\ readPos <= Len(disk)
    BY <1>1 DEF ReadOK
  <1>4. r = ReadNext(disk, Len(FileFor(sent, readCount)))
    BY <1>3
  <1>5. \/ /\ r.result = "frame"
           /\ readPos' = r.next
           /\ backlog' = Append(backlog, DecodeFrame(r.bytes))
           /\ readCount' = readCount + 1
           /\ UNCHANGED <<stPc, inputFailed>>
        \/ /\ r.result = "nullopt"
           /\ stPc' = "draining"
           /\ UNCHANGED <<readPos, backlog, inputFailed, readCount>>
        \/ /\ r.result = "throw"
           /\ InputThrows
           /\ UNCHANGED <<readPos, readCount>>
    BY DEF ReadFrame
  <1> HIDE DEF disk, r
  <1>6. /\ r.result = "nullopt" => disk = FileFor(sent, readCount)
        /\ r.result = "frame" =>
             /\ readCount < Len(sent)
             /\ r.bytes = sent[readCount + 1].bytes
             /\ r.next = Len(FileFor(sent, readCount + 1))
             /\ r.next <= Len(disk)
    BY <1>1, <1>2, <1>3, <1>4, ReadStep
  <1>7. CASE r.result = "frame" /\ readPos' = r.next /\ readCount' = readCount + 1
             /\ backlog' = Append(backlog, DecodeFrame(r.bytes)) /\ UNCHANGED <<stPc, inputFailed>>
    BY <1>1, <1>6, <1>7 DEF disk
  <1>8. CASE r.result = "nullopt" /\ stPc' = "draining"
             /\ UNCHANGED <<readPos, backlog, inputFailed, readCount>>
    BY <1>1, <1>6, <1>8 DEF disk
  <1>9. CASE r.result = "throw" /\ InputThrows /\ UNCHANGED <<readPos, readCount>>
    BY <1>1, <1>9
  <1> QED BY <1>5, <1>7, <1>8, <1>9

LEMMA ReadInvStep == SimInv /\ CaptureInv /\ ReadInv /\ [Next]_vars => ReadInv'
  <1> SUFFICES ASSUME SimInv, CaptureInv, ReadInv, [Next]_vars, ~rot' PROVE ReadOK'
    BY DEF ReadInv
  <1>0. ~Rot
    BY DEF Rot
  <1>a. rot' = rot
    BY <1>0 DEF Next, vars, SimulatorStep, StartStation, OpenReplay, ReadFrame, StopReplay,
       RejectFrame, ExportFrame, WriterFails, FinishExport, GapFound, Finished
  <1>b. CaptureOK /\ ReadOK
    BY <1>a DEF CaptureInv, ReadInv
  <1>c. sent \in Seq(SentItems) /\ readCount \in 0..Len(sent)
    BY <1>b DEF SimInv, ReadOK
  <1>1. CASE SimulatorStep
    <2>1. stPc = "off" /\ UNCHANGED stationVars
      <3>1. simPc \notin Ended
        BY <1>1 DEF SimulatorStep, OpenCapture, LoseFrame, TransmitFrame, TransmitDamagedFrame, RefuseFrame,
           StoreFrame, FinishRun, KillSimulator, MoreFrames, Ended
      <3> QED BY <1>1, <3>1 DEF SimInv, SimulatorStep
    <2>2. readCount' = 0 /\ stPc' = "off"
      BY <1>b, <2>1 DEF ReadOK, stationVars
    <2>3. sent' \in Seq(SentItems)
      BY SimStep DEF SimInv
    <2>4. 0 \in 0..Len(sent')
      BY <2>3, LastFacts
    <2> QED BY <2>2, <2>4 DEF ReadOK
  <1>2. CASE StartStation
    <2>1. stPc' \in {"opened", "exit1"} /\ stPc = "off"
          /\ UNCHANGED <<readCount, sent, capture, inputFailed, interrupted, backlog>>
      BY <1>2 DEF StartStation, simVars
    <2> QED BY <1>b, <2>1 DEF ReadOK
  <1>3. CASE OpenReplay
    <2>1. stPc = "opened" /\ UNCHANGED <<readCount, sent, capture, interrupted>>
      BY <1>3 DEF OpenReplay, simVars
    <2>2. readCount = 0
      BY <1>b, <2>1 DEF ReadOK
    <2>3. FileFor(sent, 0) = FileHeader
      BY <1>c, FileFacts
    <2>4. CASE OpensAsReplay(capture.disk)
      <3>1. stPc' = "reading" /\ readPos' = Len(FileHeader)
        BY <1>3, <2>4 DEF OpenReplay
      <3>2. Len(capture.disk) >= Len(FileHeader)
        BY <2>4 DEF OpensAsReplay
      <3>3. Len(FileHeader) <= Len(capture.disk)
        <4>1. capture.disk \in Seq(Wire)
          BY <1>b DEF CaptureOK, Streams
        <4>2. Len(capture.disk) \in Nat /\ Len(FileHeader) \in Nat
          BY <4>1, ReplayAssumption
        <4> QED BY <3>2, <4>2
      <3> QED BY <1>c, <2>1, <2>2, <2>3, <3>1, <3>3 DEF ReadOK
    <2>5. CASE ~OpensAsReplay(capture.disk)
      <3>1. stPc' = "draining" /\ inputFailed'
        BY <1>3, <2>5 DEF OpenReplay, InputThrows
      <3> QED BY <1>c, <2>1, <3>1 DEF ReadOK
    <2> QED BY <2>4, <2>5
  <1>4. CASE ReadFrame
    <2>1. UNCHANGED <<sent, capture, interrupted>>
      BY <1>4 DEF ReadFrame, simVars
    <2>2. stPc = "reading"
      BY <1>4 DEF ReadFrame
    <2>3. CASE /\ readCount < Len(sent)
               /\ readCount' = readCount + 1
               /\ readPos' = Len(FileFor(sent, readCount + 1))
               /\ readPos' <= Len(capture.disk)
               /\ UNCHANGED <<stPc, inputFailed>>
      <3>1. readCount + 1 \in 0..Len(sent)
        BY <1>c, <2>3, FileStep
      <3> QED BY <2>1, <2>2, <2>3, <3>1 DEF ReadOK
    <2>4. CASE /\ capture.disk = FileFor(sent, readCount)
               /\ stPc' = "draining"
               /\ UNCHANGED <<readPos, backlog, inputFailed, readCount>>
      BY <1>c, <2>1, <2>4 DEF ReadOK
    <2>5. CASE InputThrows /\ UNCHANGED <<readPos, readCount>>
      BY <1>c, <2>1, <2>5 DEF ReadOK, InputThrows
    <2> QED BY <1>4, <1>b, <2>3, <2>4, <2>5, ReadFrameFacts
  <1>5. CASE StopReplay
    BY <1>b, <1>5 DEF ReadOK, StopReplay, simVars
  <1>6. CASE RejectFrame \/ ExportFrame
    <2>1. /\ UNCHANGED <<stPc, readPos, inputFailed, interrupted, readCount, sent, capture>>
          /\ stPc \in {"reading", "draining"}
      BY <1>6 DEF RejectFrame, ExportFrame, WriterRuns, simVars
    <2> QED BY <1>b, <2>1 DEF ReadOK
  <1>7. CASE WriterFails \/ GapFound
    <2>1. stPc' = "exit1" /\ UNCHANGED <<readCount, sent>>
      BY <1>7 DEF WriterFails, GapFound, simVars
    <2> QED BY <1>b, <2>1 DEF ReadOK
  <1>8. CASE FinishExport
    <2>1. /\ stPc = "draining" /\ backlog = <<>>
          /\ stPc' \in {"exit0", "exit1"} /\ (stPc' = "exit0" => ~inputFailed)
          /\ UNCHANGED <<readPos, backlog, inputFailed, interrupted, readCount, sent, capture>>
      BY <1>8 DEF FinishExport, simVars
    <2> QED BY <1>b, <2>1 DEF ReadOK
  <1>9. CASE UNCHANGED vars \/ Finished
    <2>1. UNCHANGED vars
      BY <1>9 DEF Finished
    <2> QED BY <1>b, <2>1 DEF ReadOK, vars, simVars, stationVars
  <1> QED BY <1>0, <1>1, <1>2, <1>3, <1>4, <1>5, <1>6, <1>7, <1>8, <1>9 DEF Next

\* A capture cut inside an entry, by a kill, a full device or a failed run, is
\* never taken for a normal end of file (writeFrame and readNext,
\* Replay.cpp:75-148): for every run, every length of entry and every cut.
THEOREM CutTheorem == Spec => []CutIsNoticed
  <1>1. SimInv /\ ReadInv => CutIsNoticed
    <2> SUFFICES ASSUME SimInv, ReadInv, stPc = "exit0", ~interrupted, ~rot
                 PROVE  \E n \in 0..Len(sent) : capture.disk = FileOf(n)
      BY DEF CutIsNoticed
    <2>1. readCount \in 0..Len(sent) /\ capture.disk = FileFor(sent, readCount)
      BY DEF ReadInv, ReadOK
    <2>2. FileFor(sent, readCount) = FileOf(readCount)
      BY DEF FileFor, FileOf
    <2> QED BY <2>1, <2>2
  <1> QED BY <1>1, SimInit1, SimStep, CaptureInit, CaptureStep, ReadInit, ReadInvStep, PTL DEF Spec

-----------------------------------------------------------------------------
(* The writer *)

\* UndamagedAmong, of any history.
UndamagedOf(items, n) ==
  FlattenSeq([k \in 1..n |-> IF items[k].damage = 0 THEN <<items[k].frame>> ELSE <<>>])

LEMMA UndamagedFacts ==
  ASSUME NEW items \in Seq(SentItems)
  PROVE  /\ UndamagedOf(items, 0) = <<>>
         /\ \A n \in 0..Len(items) : UndamagedOf(items, n) \in Seq(Frames)
         /\ \A n \in 0..Len(items) : n < Len(items) =>
              UndamagedOf(items, n + 1) =
                UndamagedOf(items, n) \o
                (IF items[n + 1].damage = 0 THEN <<items[n + 1].frame>> ELSE <<>>)
         /\ \A n \in 0..Len(items) : IsPrefix(UndamagedOf(items, n), UndamagedOf(items, Len(items)))
  <1> DEFINE Kept(k) == IF items[k].damage = 0 THEN <<items[k].frame>> ELSE <<>>
             l == Len(items)
             q == [k \in 1..l |-> Kept(k)]
  <1>0. l \in Nat /\ \A k \in 1..l : items[k] \in SentItems
    OBVIOUS
  <1>1. \A k \in 1..l : Kept(k) \in Seq(Frames)
    <2> TAKE k \in 1..l
    <2>1. items[k].frame \in Frames
      BY <1>0, SentFacts
    <2>2. <<items[k].frame>> \in Seq(Frames)
      BY <2>1
    <2>3. <<>> \in Seq(Frames)
      OBVIOUS
    <2> QED BY <2>2, <2>3
  <1> HIDE DEF Kept
  <1>2. q \in Seq(Seq(Frames)) /\ Len(q) = l
    <2> DEFINE T == Seq(Frames)
    <2>1. q \in [1..l -> T]
      BY <1>1
    <2> HIDE DEF T, q, l
    <2>2. q \in Seq(T) /\ Len(q) = l
      BY <1>0, <2>1
    <2> QED BY <2>2 DEF T
  <1>3. \A k \in 1..l : q[k] = Kept(k)
    OBVIOUS
  <1> HIDE DEF l, q
  <1>4. ASSUME NEW n \in 0..l PROVE UndamagedOf(items, n) = Joined(q, n)
    <2>1. \A k \in 1..n : k \in 1..l
      BY <1>0
    <2>2. [k \in 1..n |-> Kept(k)] = [k \in 1..n |-> q[k]]
      BY <1>3, <2>1
    <2> QED BY <2>2 DEF UndamagedOf, Joined, Kept
  <1>5. /\ Joined(q, 0) = <<>>
        /\ \A n \in 0..l : Joined(q, n) \in Seq(Frames)
        /\ \A n \in 0..l : n < l => Joined(q, n + 1) = Joined(q, n) \o q[n + 1]
    BY <1>2, JoinedFacts
  <1>6. UndamagedOf(items, 0) = <<>>
    <2>1. 0 \in 0..l
      BY <1>0
    <2> QED BY <1>4, <1>5, <2>1
  <1>7. ASSUME NEW n \in 0..l, n < l PROVE UndamagedOf(items, n + 1) = UndamagedOf(items, n) \o Kept(n + 1)
    <2>1. n + 1 \in 0..l /\ n + 1 \in 1..l
      BY <1>0, <1>7
    <2> QED BY <1>3, <1>4, <1>5, <1>7, <2>1
  <1>8. ASSUME NEW n \in 0..l PROVE IsPrefix(UndamagedOf(items, n), UndamagedOf(items, l))
    <2>1. l \in 0..l
      BY <1>0
    <2>2. IsPrefix(Joined(q, n), Joined(q, l))
      BY <1>2, <2>1, JoinedPrefix
    <2> QED BY <1>4, <2>1, <2>2
  <1> QED BY <1>4, <1>5, <1>6, <1>7, <1>8 DEF Kept, l

\* The result of decoding a stored frame says whether it was damaged.
LEMMA TakeOne ==
  ASSUME CrcDetects, NEW items \in Seq(SentItems), NEW n \in 0..Len(items), n < Len(items),
         NEW d, d = DecodeFrame(items[n + 1].bytes)
  PROVE  /\ d.ok => UndamagedOf(items, n + 1) = Append(UndamagedOf(items, n), d.frame)
         /\ ~d.ok => UndamagedOf(items, n + 1) = UndamagedOf(items, n)
  <1> DEFINE x == items[n + 1]
             u == UndamagedOf(items, n)
  <1>1. x \in SentItems
    BY FileStep
  <1>2. u \in Seq(Frames)
        /\ UndamagedOf(items, n + 1) = u \o (IF x.damage = 0 THEN <<x.frame>> ELSE <<>>)
    BY UndamagedFacts
  <1>3. /\ x.frame \in Frames /\ Encodable(x.frame)
        /\ x.damage = 0 => x.bytes = EncodeFrame(x.frame)
        /\ x.damage # 0 => /\ x.damage \in DOMAIN EncodeFrame(x.frame)
                           /\ x.bytes = Corrupt(EncodeFrame(x.frame), x.damage)
    BY <1>1, SentFacts
  <1>4. d = DecodeFrame(x.bytes)
    OBVIOUS
  <1> HIDE DEF x, u
  <1>5. CASE x.damage = 0
    <2>1. d = [ok |-> TRUE, frame |-> x.frame]
      BY <1>3, <1>4, <1>5, RoundTrip
    <2>2. d.ok /\ d.frame = x.frame
      BY <2>1
    <2>3. UndamagedOf(items, n + 1) = u \o <<x.frame>>
      BY <1>2, <1>5
    <2>4. Append(u, x.frame) = u \o <<x.frame>>
      BY <1>2, <1>3, AppendIsConcat
    <2> QED BY <2>2, <2>3, <2>4 DEF u
  <1>6. CASE x.damage # 0
    <2>1. ~d.ok
      BY <1>3, <1>4, <1>6, DamagedIsRefused
    <2>2. UndamagedOf(items, n + 1) = u \o <<>>
      BY <1>2, <1>6
    <2>3. u \o <<>> = u
      BY <1>2, ConcatEmptySeq
    <2> QED BY <2>1, <2>2, <2>3 DEF u
  <1> QED BY <1>5, <1>6

Results == {DecodeFrame(x.bytes) : x \in SentItems}

\* The writer has taken the first n results, and the next ones wait in order.
Taken(n, items, out, waiting, count) ==
  /\ n \in Nat
  /\ n + Len(waiting) <= count
  /\ out = UndamagedOf(items, n)
  /\ \A k \in 1..Len(waiting) : waiting[k] = DecodeFrame(items[n + k].bytes)

TakenOK ==
  /\ backlog \in Seq(Results)
  /\ \E n \in Nat :
       /\ Taken(n, sent, rows, backlog, readCount)
       /\ ~inputFailed => n + Len(backlog) = readCount
  /\ stPc \in {"off", "opened", "reading"} => ~inputFailed

TakenInv == ~rot => TakenOK

\* A result joins the queue.
LEMMA TakenAppend ==
  ASSUME NEW items \in Seq(SentItems), NEW out, NEW waiting \in Seq(Results),
         NEW count \in 0..Len(items), count < Len(items),
         NEW n, Taken(n, items, out, waiting, count), n + Len(waiting) = count,
         NEW d, d = DecodeFrame(items[count + 1].bytes)
  PROVE  /\ Append(waiting, d) \in Seq(Results)
         /\ Taken(n, items, out, Append(waiting, d), count + 1)
         /\ n + Len(Append(waiting, d)) = count + 1
  <1> DEFINE w == Append(waiting, d)
             l == Len(waiting)
  <1>1. items[count + 1] \in SentItems
    BY FileStep
  <1>2. d \in Results
    BY <1>1 DEF Results
  <1>3. w \in Seq(Results) /\ Len(w) = l + 1
    BY <1>2
  <1>4. (\A k \in 1..l : w[k] = waiting[k]) /\ w[l + 1] = d
    BY <1>2
  <1>5. l \in Nat /\ n \in Nat /\ n + l = count
        /\ \A k \in 1..l : waiting[k] = DecodeFrame(items[n + k].bytes)
    BY DEF Taken
  <1>6. out = UndamagedOf(items, n)
    BY DEF Taken
  <1> HIDE DEF w, l
  <1>7. n + Len(w) = count + 1
    BY <1>3, <1>5
  <1>8. ASSUME NEW k \in 1..(l + 1) PROVE w[k] = DecodeFrame(items[n + k].bytes)
    <2>1. CASE k = l + 1
      <3>1. n + k = count + 1
        BY <1>5, <2>1
      <3> QED BY <1>4, <2>1, <3>1
    <2>2. CASE k # l + 1
      <3>1. k \in 1..l
        BY <1>5, <2>2
      <3> QED BY <1>4, <1>5, <3>1
    <2> QED BY <2>1, <2>2
  <1>9. n + Len(w) <= count + 1
    BY <1>3, <1>5
  <1>10. Taken(n, items, out, w, count + 1)
    BY <1>3, <1>5, <1>6, <1>8, <1>9 DEF Taken
  <1> QED BY <1>3, <1>7, <1>10 DEF w

\* The last results of the queue are given up.
LEMMA TakenCut ==
  ASSUME NEW items, NEW out, NEW waiting \in Seq(Results), NEW count \in Nat,
         NEW n, Taken(n, items, out, waiting, count), NEW m \in 0..Len(waiting)
  PROVE  /\ SubSeq(waiting, 1, m) \in Seq(Results)
         /\ Taken(n, items, out, SubSeq(waiting, 1, m), count)
  <1> DEFINE w == SubSeq(waiting, 1, m)
             l == Len(waiting)
  <1>1. l \in Nat
    OBVIOUS
  <1>2. m \in 0..l
    OBVIOUS
  <1>3. m \in Nat /\ m <= l
    <2> HIDE DEF l
    <2> QED BY <1>1, <1>2
  <1>4. w \in Seq(Results) /\ Len(w) = m /\ \A k \in 1..m : w[k] = waiting[k]
    BY <1>3
  <1>5. n \in Nat /\ n + l <= count /\ out = UndamagedOf(items, n)
        /\ \A k \in 1..l : waiting[k] = DecodeFrame(items[n + k].bytes)
    BY DEF Taken
  <1> HIDE DEF w, l
  <1>6. n + Len(w) <= count
    BY <1>1, <1>3, <1>4, <1>5
  <1>7. \A k \in 1..m : w[k] = DecodeFrame(items[n + k].bytes)
    <2> TAKE k \in 1..m
    <2>1. k \in 1..l
      BY <1>1, <1>3
    <2> QED BY <1>4, <1>5, <2>1
  <1> QED BY <1>4, <1>5, <1>6, <1>7 DEF Taken, w

\* The writer takes the first result.
LEMMA TakenHead ==
  ASSUME CrcDetects, NEW items \in Seq(SentItems), NEW out, NEW waiting \in Seq(Results),
         waiting # <<>>, NEW count \in 0..Len(items),
         NEW n, Taken(n, items, out, waiting, count)
  PROVE  /\ Tail(waiting) \in Seq(Results)
         /\ (n + 1) + Len(Tail(waiting)) = n + Len(waiting)
         /\ Head(waiting).ok =>
              Taken(n + 1, items, Append(out, Head(waiting).frame), Tail(waiting), count)
         /\ ~Head(waiting).ok => Taken(n + 1, items, out, Tail(waiting), count)
  <1> DEFINE w == Tail(waiting)
             h == Head(waiting)
             l == Len(waiting)
             z == Len(items)
  <1>1. l \in Nat /\ l # 0 /\ h = waiting[1] /\ z \in Nat /\ count \in 0..z
    <2>1. l \in Nat /\ l # 0
      OBVIOUS
    <2>2. h = waiting[1]
      OBVIOUS
    <2>3. z \in Nat /\ count \in 0..z
      OBVIOUS
    <2> QED BY <2>1, <2>2, <2>3
  <1>2. w \in Seq(Results) /\ Len(w) = l - 1 /\ \A k \in 1..Len(w) : w[k] = waiting[k + 1]
    BY HeadTailProperties
  <1>3. n \in Nat /\ n + l <= count /\ out = UndamagedOf(items, n)
        /\ \A k \in 1..l : waiting[k] = DecodeFrame(items[n + k].bytes)
    BY DEF Taken
  <1> HIDE DEF w, h, l, z
  <1>4. n \in 0..z /\ n < z /\ 1 \in 1..l
    BY <1>1, <1>3
  <1>5. h = DecodeFrame(items[n + 1].bytes)
    BY <1>1, <1>3, <1>4
  <1>6. /\ h.ok => UndamagedOf(items, n + 1) = Append(out, h.frame)
        /\ ~h.ok => UndamagedOf(items, n + 1) = out
    BY <1>3, <1>4, <1>5, TakeOne DEF z
  <1>7. n + 1 \in Nat /\ (n + 1) + Len(w) = n + l /\ (n + 1) + Len(w) <= count
    BY <1>1, <1>2, <1>3
  <1>8. ASSUME NEW k \in 1..Len(w) PROVE w[k] = DecodeFrame(items[(n + 1) + k].bytes)
    <2>1. k + 1 \in 1..l /\ n + (k + 1) = (n + 1) + k
      BY <1>1, <1>2, <1>3
    <2>2. waiting[k + 1] = DecodeFrame(items[n + (k + 1)].bytes)
      BY <1>3, <2>1
    <2> QED BY <1>2, <2>1, <2>2
  <1>9. h.ok => Taken(n + 1, items, Append(out, h.frame), w, count)
    BY <1>6, <1>7, <1>8 DEF Taken
  <1>10. ~h.ok => Taken(n + 1, items, out, w, count)
    BY <1>6, <1>7, <1>8 DEF Taken
  <1> QED BY <1>2, <1>7, <1>9, <1>10 DEF w, h, l

LEMMA TakenInit == Init => TakenInv
  <1> SUFFICES ASSUME Init PROVE TakenOK
    BY DEF TakenInv
  <1>1. sent = <<>> /\ rows = <<>> /\ backlog = <<>> /\ readCount = 0 /\ ~inputFailed
    BY DEF Init, SimInit
  <1>2. <<>> \in Seq(SentItems) /\ <<>> \in Seq(Results) /\ Len(<<>>) = 0
    OBVIOUS
  <1>3. UndamagedOf(sent, 0) = <<>>
    BY <1>1, <1>2, UndamagedFacts
  <1>4. Taken(0, sent, rows, backlog, readCount) /\ 0 + Len(backlog) = readCount
    BY <1>1, <1>2, <1>3 DEF Taken
  <1> QED BY <1>1, <1>2, <1>4 DEF TakenOK

LEMMA TakenStep ==
  ASSUME CrcDetects
  PROVE  SimInv /\ CaptureInv /\ ReadInv /\ TakenInv /\ [Next]_vars => TakenInv'
  <1> SUFFICES ASSUME SimInv, CaptureInv, ReadInv, TakenInv, [Next]_vars, ~rot' PROVE TakenOK'
    BY DEF TakenInv
  <1>0. ~Rot
    BY DEF Rot
  <1>a. rot' = rot
    BY <1>0 DEF Next, vars, SimulatorStep, StartStation, OpenReplay, ReadFrame, StopReplay,
       RejectFrame, ExportFrame, WriterFails, FinishExport, GapFound, Finished
  <1>b. CaptureOK /\ ReadOK /\ TakenOK
    BY <1>a DEF CaptureInv, ReadInv, TakenInv
  <1>c. /\ sent \in Seq(SentItems) /\ readCount \in 0..Len(sent) /\ readCount \in Nat
        /\ backlog \in Seq(Results)
        /\ stPc \in {"off", "opened", "reading"} => ~inputFailed
    BY <1>b DEF SimInv, ReadOK, TakenOK
  <1>d. PICK n \in Nat : /\ Taken(n, sent, rows, backlog, readCount)
                         /\ ~inputFailed => n + Len(backlog) = readCount
    BY <1>b DEF TakenOK
  <1>e. ASSUME InputThrows, UNCHANGED <<sent, rows, readCount>> PROVE TakenOK'
    <2>1. PICK m \in 0..Len(backlog) : backlog' = SubSeq(backlog, 1, m)
      BY <1>e DEF InputThrows
    <2>2. backlog' \in Seq(Results) /\ Taken(n, sent, rows, backlog', readCount)
      BY <1>c, <1>d, <2>1, TakenCut
    <2>3. inputFailed' /\ stPc' = "draining"
      BY <1>e DEF InputThrows
    <2> QED BY <1>e, <2>2, <2>3 DEF TakenOK
  <1>1. CASE SimulatorStep
    <2>1. simPc \notin Ended
      BY <1>1 DEF SimulatorStep, OpenCapture, LoseFrame, TransmitFrame, TransmitDamagedFrame, RefuseFrame,
         StoreFrame, FinishRun, KillSimulator, MoreFrames, Ended
    <2>2. stPc = "off" /\ UNCHANGED <<stPc, backlog, inputFailed, rows, readCount>>
      BY <1>1, <2>1 DEF SimInv, SimulatorStep, stationVars
    <2>3. readCount = 0
      BY <1>b, <2>2 DEF ReadOK
    <2>4. n = 0 /\ Len(backlog) = 0
      <3> DEFINE l == Len(backlog)
      <3>1. l \in Nat /\ n + l <= readCount
        BY <1>c, <1>d DEF Taken
      <3> HIDE DEF l
      <3>2. n = 0 /\ l = 0
        BY <2>3, <3>1
      <3> QED BY <3>2 DEF l
    <2>5. rows = <<>>
      BY <1>c, <1>d, <2>4, UndamagedFacts DEF Taken
    <2>6. sent' \in Seq(SentItems)
      BY SimStep DEF SimInv
    <2>7. UndamagedOf(sent', 0) = <<>>
      BY <2>6, UndamagedFacts
    <2>8. Taken(0, sent', rows', backlog', readCount') /\ 0 + Len(backlog') = readCount'
      BY <2>2, <2>3, <2>4, <2>5, <2>7 DEF Taken
    <2> QED BY <1>c, <2>2, <2>8 DEF TakenOK
  <1>2. CASE StartStation \/ StopReplay \/ WriterFails \/ FinishExport \/ GapFound \/ Finished \/ UNCHANGED vars
    <2>1. UNCHANGED <<sent, rows, backlog, readCount, inputFailed>>
      BY <1>2 DEF StartStation, StopReplay, WriterFails, FinishExport, GapFound, Finished, vars, simVars, stationVars
    <2>2. stPc' \in {"off", "opened", "reading"} => stPc \in {"off", "opened", "reading"}
      BY <1>2 DEF StartStation, StopReplay, WriterFails, FinishExport, GapFound, Finished, vars, stationVars
    <2> QED BY <1>b, <2>1, <2>2 DEF TakenOK
  <1>3. CASE OpenReplay
    <2>1. UNCHANGED <<sent, rows, readCount>> /\ stPc = "opened"
      BY <1>3 DEF OpenReplay, simVars
    <2>2. CASE OpensAsReplay(capture.disk)
      <3>1. stPc' = "reading" /\ UNCHANGED <<backlog, inputFailed>>
        BY <1>3, <2>2 DEF OpenReplay
      <3> QED BY <1>b, <2>1, <3>1 DEF TakenOK
    <2>3. CASE ~OpensAsReplay(capture.disk)
      <3>1. InputThrows
        BY <1>3, <2>3 DEF OpenReplay
      <3> QED BY <1>e, <2>1, <3>1
    <2> QED BY <2>2, <2>3
  <1>4. CASE ReadFrame
    <2>1. UNCHANGED <<sent, rows>> /\ stPc = "reading"
      BY <1>4 DEF ReadFrame, simVars
    <2>2. CASE /\ readCount < Len(sent)
               /\ readCount' = readCount + 1
               /\ backlog' = Append(backlog, DecodeFrame(sent[readCount + 1].bytes))
               /\ UNCHANGED <<stPc, inputFailed>>
      <3>1. ~inputFailed /\ n + Len(backlog) = readCount
        BY <1>c, <1>d, <2>1
      <3>2. /\ backlog' \in Seq(Results)
            /\ Taken(n, sent, rows, backlog', readCount + 1)
            /\ n + Len(backlog') = readCount + 1
        BY <1>c, <1>d, <2>2, <3>1, TakenAppend
      <3> QED BY <2>1, <2>2, <3>1, <3>2 DEF TakenOK
    <2>3. CASE stPc' = "draining" /\ UNCHANGED <<readPos, backlog, inputFailed, readCount>>
      BY <1>b, <2>1, <2>3 DEF TakenOK
    <2>4. CASE InputThrows /\ UNCHANGED <<readPos, readCount>>
      BY <1>e, <2>1, <2>4
    <2> QED BY <1>4, <1>b, <2>2, <2>3, <2>4, ReadFrameFacts
  <1>5. CASE RejectFrame
    <2>1. /\ backlog # <<>> /\ ~Head(backlog).ok /\ backlog' = Tail(backlog)
          /\ UNCHANGED <<sent, rows, readCount, inputFailed, stPc>>
      BY <1>5 DEF RejectFrame, WriterRuns, simVars
    <2>2. /\ Tail(backlog) \in Seq(Results)
          /\ (n + 1) + Len(Tail(backlog)) = n + Len(backlog)
          /\ Taken(n + 1, sent, rows, Tail(backlog), readCount)
      <3>1. /\ sent \in Seq(SentItems) /\ backlog \in Seq(Results) /\ backlog # <<>>
            /\ readCount \in 0..Len(sent) /\ Taken(n, sent, rows, backlog, readCount)
        BY <1>c, <1>d, <2>1
      <3>2. /\ Tail(backlog) \in Seq(Results)
            /\ (n + 1) + Len(Tail(backlog)) = n + Len(backlog)
            /\ Head(backlog).ok => Taken(n + 1, sent, Append(rows, Head(backlog).frame), Tail(backlog), readCount)
            /\ ~Head(backlog).ok => Taken(n + 1, sent, rows, Tail(backlog), readCount)
        BY <3>1, TakenHead, Zenon
      <3> QED BY <2>1, <3>2, Zenon
    <2>3. n + 1 \in Nat
      OBVIOUS
    <2>4. ~inputFailed => (n + 1) + Len(Tail(backlog)) = readCount
      BY <1>d, <2>2
    <2> QED BY <1>c, <2>1, <2>2, <2>3, <2>4 DEF TakenOK
  <1>6. CASE ExportFrame
    <2>1. /\ backlog # <<>> /\ Head(backlog).ok /\ backlog' = Tail(backlog)
          /\ rows' = Append(rows, Head(backlog).frame)
          /\ UNCHANGED <<sent, readCount, inputFailed, stPc>>
      BY <1>6 DEF ExportFrame, WriterRuns, simVars
    <2>2. /\ Tail(backlog) \in Seq(Results)
          /\ (n + 1) + Len(Tail(backlog)) = n + Len(backlog)
          /\ Taken(n + 1, sent, rows', Tail(backlog), readCount)
      <3>1. /\ sent \in Seq(SentItems) /\ backlog \in Seq(Results) /\ backlog # <<>>
            /\ readCount \in 0..Len(sent) /\ Taken(n, sent, rows, backlog, readCount)
        BY <1>c, <1>d, <2>1
      <3>2. /\ Tail(backlog) \in Seq(Results)
            /\ (n + 1) + Len(Tail(backlog)) = n + Len(backlog)
            /\ Head(backlog).ok => Taken(n + 1, sent, Append(rows, Head(backlog).frame), Tail(backlog), readCount)
            /\ ~Head(backlog).ok => Taken(n + 1, sent, rows, Tail(backlog), readCount)
        BY <3>1, TakenHead, Zenon
      <3> QED BY <2>1, <3>2, Zenon
    <2>3. n + 1 \in Nat
      OBVIOUS
    <2>4. ~inputFailed => (n + 1) + Len(Tail(backlog)) = readCount
      BY <1>d, <2>2
    <2> QED BY <1>c, <2>1, <2>2, <2>3, <2>4 DEF TakenOK
  <1> QED BY <1>0, <1>1, <1>2, <1>3, <1>4, <1>5, <1>6 DEF Next

\* The export of a replay is a prefix of what was sent, in order and without a
\* gap, and leaves out exactly the frames the radio damaged, however the simulator,
\* its device or the reader gave up (Replay.cpp:75-148, FrameCodec.cpp:91-213),
\* if the checksum detects the change of one symbol.
THEOREM ExportTheorem ==
  ASSUME CrcDetects
  PROVE  Spec => []ExportIsPrefix
  <1>1. SimInv /\ ReadInv /\ TakenInv => ExportIsPrefix
    <2> SUFFICES ASSUME SimInv, ReadInv, TakenInv, ~rot
                 PROVE  IsPrefix(rows, UndamagedAmong(Len(sent)))
      BY DEF ExportIsPrefix
    <2> DEFINE l == Len(sent)
               b == Len(backlog)
    <2>1. sent \in Seq(SentItems) /\ readCount \in 0..l /\ backlog \in Seq(Results)
      BY DEF SimInv, ReadInv, ReadOK, TakenInv, TakenOK
    <2>2. PICK n \in Nat : Taken(n, sent, rows, backlog, readCount)
      BY DEF TakenInv, TakenOK
    <2>3. n + b <= readCount /\ rows = UndamagedOf(sent, n)
      BY <2>2 DEF Taken
    <2>4. l \in Nat /\ b \in Nat
      BY <2>1
    <2> HIDE DEF l, b
    <2>5. n \in 0..l
      BY <2>1, <2>3, <2>4
    <2>6. IsPrefix(UndamagedOf(sent, n), UndamagedOf(sent, l))
      BY <2>1, <2>5, UndamagedFacts DEF l
    <2>7. UndamagedAmong(l) = UndamagedOf(sent, l)
      BY DEF UndamagedAmong, UndamagedOf
    <2> QED BY <2>3, <2>6, <2>7 DEF l
  <1> QED BY <1>1, SimInit1, SimStep, CaptureInit, CaptureStep, ReadInit, ReadInvStep,
             TakenInit, TakenStep, PTL DEF Spec

\* Every entry makes the file longer.
LEMMA FileLonger ==
  ASSUME NEW items \in Seq(SentItems), NEW n \in 0..Len(items),
         FileFor(items, n) = FileFor(items, Len(items))
  PROVE  n = Len(items)
  <1> SUFFICES ASSUME n # Len(items) PROVE FALSE
    OBVIOUS
  <1> DEFINE l == Len(items)
             F == FileFor(items, n)
             G == FileFor(items, n + 1)
             W == FileFor(items, l)
             b == items[n + 1].bytes
  <1>1. l \in Nat /\ n \in 0..l /\ n # l
    OBVIOUS
  <1>2. n < l
    <2> HIDE DEF l
    <2> QED BY <1>1
  <1>3. items[n + 1] \in SentItems /\ n + 1 \in 0..l /\ Len(G) = Len(F) + 2 + Len(b)
    BY <1>2, FileStep
  <1>4. l \in 0..l
    BY <1>1
  <1>5. F \in Seq(Wire) /\ G \in Seq(Wire) /\ W \in Seq(Wire) /\ IsPrefix(G, W)
    BY <1>1, <1>3, <1>4, FileFacts
  <1>6. Len(G) <= Len(W)
    BY <1>5, PrefixFacts
  <1>7. b \in Seq(Wire)
    BY <1>3, SentFacts
  <1>8. Len(F) \in Nat /\ Len(G) \in Nat /\ Len(b) \in Nat /\ Len(F) = Len(W)
    BY <1>5, <1>7
  <1> HIDE DEF F, G, W, b
  <1> QED BY <1>3, <1>6, <1>8

\* A station that returns 0 exported every undamaged frame it read, and if the
\* simulator returned 0 too and no signal stopped the replay, every undamaged frame
\* of the run (SimulatorApp.cpp:186, Replay.cpp:94-101, GroundStationInput.cpp:45-61),
\* if the checksum detects the change of one symbol.
THEOREM CompleteTheorem ==
  ASSUME CrcDetects
  PROVE  Spec => []CleanRunIsComplete
  <1>1. SimInv /\ CaptureInv /\ ReadInv /\ TakenInv => CleanRunIsComplete
    <2> SUFFICES ASSUME SimInv, CaptureInv, ReadInv, TakenInv, stPc = "exit0", ~rot
                 PROVE  /\ simPc = "done" /\ ~interrupted => rows = UndamagedAmong(Len(sent))
                        /\ rows = UndamagedAmong(readCount)
      BY DEF CleanRunIsComplete
    <2>0. CaptureOK /\ ReadOK /\ TakenOK /\ sent \in Seq(SentItems) /\ readCount \in 0..Len(sent)
      BY DEF CaptureInv, ReadInv, TakenInv, SimInv, ReadOK
    <2>1. ~inputFailed /\ backlog = <<>>
      BY <2>0 DEF ReadOK
    <2>2. PICK n \in Nat : /\ Taken(n, sent, rows, backlog, readCount)
                           /\ n + Len(backlog) = readCount
      BY <2>0, <2>1 DEF TakenOK
    <2>3. n = readCount
      BY <2>1, <2>2
    <2>4. rows = UndamagedOf(sent, readCount)
      BY <2>2, <2>3 DEF Taken
    <2>5. rows = UndamagedAmong(readCount)
      BY <2>4 DEF UndamagedAmong, UndamagedOf
    <2>6. ASSUME simPc = "done", ~interrupted PROVE readCount = Len(sent)
      <3>1. capture.disk = FileFor(sent, readCount)
        BY <2>0, <2>1, <2>6 DEF ReadOK
      <3>2. CASE options.captures
        <4>1. capture.disk = FileFor(sent, Len(sent))
          BY <2>0, <2>6, <3>2 DEF CaptureOK
        <4> QED BY <2>0, <3>1, <4>1, FileLonger
      <3>3. CASE ~options.captures
        <4>1. capture.disk \o capture.pending = <<>>
          BY <2>0, <3>3 DEF CaptureOK, Total
        <4>2. capture.disk \in Seq(Wire) /\ capture.pending \in Seq(Wire)
          BY <2>0 DEF CaptureOK, Streams
        <4>3. capture.disk = <<>>
          BY <4>1, <4>2, ConcatEqualIffEmpty
        <4> DEFINE F == FileFor(sent, readCount)
        <4>4. 0 \in 0..readCount
          BY <2>2, <2>3
        <4>5. F \in Seq(Wire) /\ FileHeader \in Seq(Wire) /\ IsPrefix(FileHeader, F)
          <5>1. FileFor(sent, 0) = FileHeader /\ F \in Seq(Wire) /\ IsPrefix(FileFor(sent, 0), F)
            BY <2>0, <4>4, FileFacts
          <5> QED BY <5>1, ReplayAssumption DEF Wire, Symbol
        <4>6. Len(FileHeader) <= Len(F)
          BY <4>5, PrefixFacts
        <4>7. Len(F) = 0
          BY <3>1, <4>3
        <4>8. Len(FileHeader) \in Nat /\ Len(FileHeader) # 0
          BY ReplayAssumption
        <4> HIDE DEF F
        <4> QED BY <4>6, <4>7, <4>8
      <3> QED BY <3>2, <3>3
    <2> QED BY <2>5, <2>6
  <1> QED BY <1>1, SimInit1, SimStep, CaptureInit, CaptureStep, ReadInit, ReadInvStep,
             TakenInit, TakenStep, PTL DEF Spec

-----------------------------------------------------------------------------
(* The export file *)

Tokens(S) == {Opening, Separator, Closing} \cup {Row(f) : f \in S}

\* The document without its closing.
BodyOf(format, rs) ==
  <<Opening>> \o
  (IF format = "json"
   THEN FlattenSeq([n \in 1..Len(rs) |->
                      IF n = 1 THEN <<Row(rs[n])>> ELSE <<Separator, Row(rs[n])>>])
   ELSE [n \in 1..Len(rs) |-> Row(rs[n])])

RowBlock(format, rs, f) ==
  IF format = "json" /\ rs # <<>> THEN <<Separator, Row(f)>> ELSE <<Row(f)>>

LEMMA TokenFacts ==
  ASSUME NEW S, NEW f \in S
  PROVE  /\ <<Opening>> \in Seq(Tokens(S))
         /\ <<Closing>> \in Seq(Tokens(S))
         /\ <<>> \in Seq(Tokens(S))
         /\ Row(f) \in Tokens(S)
         /\ <<Row(f)>> \in Seq(Tokens(S))
         /\ <<Separator, Row(f)>> \in Seq(Tokens(S))
  <1> DEFINE T == Tokens(S)
             o == Opening
             c == Closing
             p == Separator
             r == Row(f)
  <1>1. o \in T /\ c \in T /\ p \in T /\ r \in T
    BY DEF Tokens
  <1> HIDE DEF T, o, c, p, r
  <1>2. <<o>> \in Seq(T) /\ <<c>> \in Seq(T) /\ <<r>> \in Seq(T)
    BY <1>1
  <1>3. <<p, r>> \in Seq(T)
    BY <1>1
  <1>4. <<>> \in Seq(T)
    OBVIOUS
  <1> QED BY <1>1, <1>2, <1>3, <1>4 DEF T, o, c, p, r

\* A longer list of rows is the same document, one block longer.
LEMMA BodyAppend ==
  ASSUME NEW S, NEW rs \in Seq(S), NEW f \in S, NEW format
  PROVE  /\ BodyOf(format, rs) \in Seq(Tokens(S))
         /\ BodyOf(format, Append(rs, f)) = BodyOf(format, rs) \o RowBlock(format, rs, f)
  <1> DEFINE T == Tokens(S)
             l == Len(rs)
             q == Append(rs, f)
             o == <<Opening>>
  <1>0. l \in Nat /\ (\A n \in 1..l : rs[n] \in S) /\ (rs = <<>> <=> l = 0)
    OBVIOUS
  <1>1. q \in Seq(S) /\ Len(q) = l + 1
    OBVIOUS
  <1>2. (\A n \in 1..l : q[n] = rs[n]) /\ q[l + 1] = f
    OBVIOUS
  <1>3. o \in Seq(T) /\ \A g \in S : Row(g) \in T /\ <<Row(g)>> \in Seq(T) /\ <<Separator, Row(g)>> \in Seq(T)
    BY TokenFacts
  <1> HIDE DEF l, q, o, T
  <1>4. CASE format = "json"
    <2> DEFINE Block(n, g) == IF n = 1 THEN <<Row(g)>> ELSE <<Separator, Row(g)>>
               a == [n \in 1..l |-> Block(n, rs[n])]
               b == [n \in 1..(l + 1) |-> Block(n, q[n])]
               x == Block(l + 1, f)
               U == Seq(T)
    <2>1. \A n, g : g \in S => Block(n, g) \in U
      BY <1>3
    <2> HIDE DEF Block
    <2>2. a \in [1..l -> U] /\ b \in [1..(l + 1) -> U] /\ x \in U
      <3>1. \A n \in 1..l : Block(n, rs[n]) \in U
        BY <1>0, <2>1
      <3>2. \A n \in 1..(l + 1) : q[n] \in S
        BY <1>1
      <3>3. \A n \in 1..(l + 1) : Block(n, q[n]) \in U
        BY <2>1, <3>2
      <3> QED BY <2>1, <3>1, <3>3
    <2>3. /\ \A n \in 1..l : a[n] = Block(n, rs[n])
          /\ \A n \in 1..(l + 1) : b[n] = Block(n, q[n])
      OBVIOUS
    <2>a. BodyOf(format, rs) = o \o FlattenSeq(a) /\ BodyOf(format, q) = o \o FlattenSeq(b)
      BY <1>1, <1>4 DEF BodyOf, a, b, o, l, Block
    <2> HIDE DEF a, b, x, U
    <2>4. a \in Seq(U) /\ Len(a) = l /\ b \in Seq(U) /\ Len(b) = l + 1
      <3>1. a \in Seq(U) /\ Len(a) = l
        BY <1>0, <2>2
      <3> DEFINE m == l + 1
      <3>2. m \in Nat /\ b \in [1..m -> U]
        BY <1>0, <2>2
      <3> HIDE DEF m
      <3>3. b \in Seq(U) /\ Len(b) = m
        BY <3>2
      <3> QED BY <3>1, <3>3 DEF m
    <2>5. b = Append(a, x)
      <3> DEFINE c == Append(a, x)
      <3>1. a \in Seq(U) /\ x \in U
        BY <2>2, <2>4
      <3>2. c \in Seq(U) /\ Len(c) = Len(a) + 1
        BY <3>1
      <3>3. (\A n \in 1..Len(a) : c[n] = a[n]) /\ c[Len(a) + 1] = x
        BY <3>1
      <3> HIDE DEF c
      <3>4. ASSUME NEW n \in 1..(l + 1) PROVE b[n] = c[n]
        <4>1. CASE n = l + 1
          BY <1>2, <2>3, <2>4, <3>3, <4>1 DEF x
        <4>2. CASE n # l + 1
          <5>1. n \in 1..l
            BY <1>0, <4>2
          <5> QED BY <1>2, <2>3, <2>4, <3>3, <5>1
        <4> QED BY <4>1, <4>2
      <3>5. b = c
        BY <2>4, <3>2, <3>4, SeqEqual
      <3> QED BY <3>5 DEF c
    <2>6. FlattenSeq(b) = FlattenSeq(a) \o x /\ FlattenSeq(a) \in U
      <3>1. a \in Seq(Seq(T)) /\ x \in Seq(T)
        BY <2>2, <2>4 DEF U
      <3> QED BY <2>5, <3>1, FlattenAppend, FlattenTyped DEF U
    <2>7. x = RowBlock(format, rs, f)
      <3>1. l + 1 = 1 <=> rs = <<>>
        BY <1>0
      <3> QED BY <1>4, <3>1 DEF RowBlock, x, Block
    <2> DEFINE w == FlattenSeq(a)
    <2>8. o \in Seq(T) /\ w \in Seq(T) /\ x \in Seq(T)
      BY <1>3, <2>2, <2>6 DEF U
    <2> HIDE DEF w
    <2>9. (o \o w) \o x = o \o (w \o x) /\ o \o w \in Seq(T)
      BY <2>8
    <2>10. BodyOf(format, rs) = o \o w /\ BodyOf(format, q) = o \o (w \o x)
      BY <2>6, <2>a, Zenon DEF w
    <2>11. BodyOf(format, q) = BodyOf(format, rs) \o x
      BY <2>9, <2>10, Zenon
    <2>12. BodyOf(format, rs) \in Seq(T)
      BY <2>9, <2>10, Zenon
    <2> QED BY <2>7, <2>11, <2>12 DEF q, T
  <1>5. CASE format # "json"
    <2> DEFINE a == [n \in 1..l |-> Row(rs[n])]
               b == [n \in 1..(l + 1) |-> Row(q[n])]
               x == <<Row(f)>>
    <2>1. a \in [1..l -> T] /\ b \in [1..(l + 1) -> T] /\ x \in Seq(T) /\ Row(f) \in T
      <3>1. \A n \in 1..(l + 1) : q[n] \in S
        BY <1>1
      <3> QED BY <1>0, <1>3, <3>1
    <2>2. /\ \A n \in 1..l : a[n] = Row(rs[n])
          /\ \A n \in 1..(l + 1) : b[n] = Row(q[n])
      OBVIOUS
    <2>a. BodyOf(format, rs) = o \o a /\ BodyOf(format, q) = o \o b
      BY <1>1, <1>5 DEF BodyOf, a, b, o, l
    <2> HIDE DEF a, b
    <2>3. a \in Seq(T) /\ Len(a) = l /\ b \in Seq(T) /\ Len(b) = l + 1
      <3>1. a \in Seq(T) /\ Len(a) = l
        BY <1>0, <2>1
      <3> DEFINE m == l + 1
      <3>2. m \in Nat /\ b \in [1..m -> T]
        BY <1>0, <2>1
      <3> HIDE DEF m
      <3>3. b \in Seq(T) /\ Len(b) = m
        BY <3>2
      <3> QED BY <3>1, <3>3 DEF m
    <2>4. b = a \o x
      <3> DEFINE y == Row(f)
                 c == Append(a, y)
      <3>1. a \in Seq(T) /\ y \in T
        BY <2>1, <2>3
      <3> HIDE DEF y
      <3>2. c \in Seq(T) /\ Len(c) = Len(a) + 1
        BY <3>1
      <3>3. (\A n \in 1..Len(a) : c[n] = a[n]) /\ c[Len(a) + 1] = y
        BY <3>1
      <3>4. c = a \o <<y>>
        BY <3>1, AppendIsConcat
      <3> HIDE DEF c
      <3>5. ASSUME NEW n \in 1..(l + 1) PROVE b[n] = c[n]
        <4>1. CASE n = l + 1
          BY <1>2, <2>2, <2>3, <3>3, <4>1 DEF y
        <4>2. CASE n # l + 1
          <5>1. n \in 1..l
            BY <1>0, <4>2
          <5> QED BY <1>2, <2>2, <2>3, <3>3, <5>1
        <4> QED BY <4>1, <4>2
      <3>6. b = c
        BY <2>3, <3>2, <3>5, SeqEqual
      <3> QED BY <3>4, <3>6 DEF y
    <2>5. x = RowBlock(format, rs, f)
      BY <1>5 DEF RowBlock
    <2>6. o \in Seq(T) /\ a \in Seq(T) /\ x \in Seq(T)
      BY <1>3, <2>1, <2>3
    <2> HIDE DEF x
    <2>7. (o \o a) \o x = o \o (a \o x) /\ o \o a \in Seq(T)
      BY <2>6
    <2>8. BodyOf(format, q) = BodyOf(format, rs) \o x
      BY <2>4, <2>7, <2>a, Zenon
    <2>9. BodyOf(format, rs) \in Seq(T)
      BY <2>7, <2>a, Zenon
    <2> QED BY <2>5, <2>8, <2>9 DEF q, T
  <1> QED BY <1>4, <1>5

LEMMA BodyEmpty ==
  ASSUME NEW format
  PROVE  BodyOf(format, <<>>) = <<Opening>>
  <1> DEFINE o == Opening
  <1>1. Len(<<>>) = 0
    OBVIOUS
  <1>2. [n \in 1..Len(<<>>) |-> IF n = 1 THEN <<Row(<<>>[n])>> ELSE <<Separator, Row(<<>>[n])>>] = <<>>
    OBVIOUS
  <1>3. [n \in 1..Len(<<>>) |-> Row(<<>>[n])] = <<>>
    OBVIOUS
  <1>4. BodyOf(format, <<>>) = <<o>> \o <<>>
    <2>1. CASE format = "json"
      BY <1>2, <2>1, FlattenEmpty DEF BodyOf
    <2>2. CASE format # "json"
      BY <1>3, <2>2 DEF BodyOf
    <2> QED BY <2>1, <2>2
  <1> HIDE DEF o
  <1>5. <<o>> \in Seq({o})
    OBVIOUS
  <1> QED BY <1>4, <1>5, ConcatEmptySeq DEF o

LEMMA WiderTokens ==
  ASSUME NEW S, NEW R, S \subseteq R
  PROVE  /\ Streams(Tokens(S)) \subseteq Streams(Tokens(R))
         /\ Seq(S) \subseteq Seq(R)
  <1>1. Tokens(S) \subseteq Tokens(R)
    BY DEF Tokens
  <1>2. Seq(Tokens(S)) \subseteq Seq(Tokens(R)) /\ Seq(S) \subseteq Seq(R)
    BY <1>1, SeqMonotonic
  <1> QED BY <1>2 DEF Streams

\* While no write failed, the stream was given exactly the document of the rows.
OutInv ==
  /\ outRoom \in Nat
  /\ Fits(outStream, outRoom)
  /\ \E S : rows \in Seq(S) /\ outStream \in Streams(Tokens(S))
  /\ stPc = "off" => outStream = FreshStream /\ rows = <<>> /\ firstRow
  /\ stPc \in {"off", "opened", "reading", "draining"} => ~outFinished
  /\ stPc \in {"opened", "reading", "draining"} /\ ~outStream.bad =>
       Total(outStream) = BodyOf(outFormat, rows)
  /\ stPc \in {"opened", "reading", "draining"} /\ outFormat = "json" =>
       (firstRow <=> rows = <<>>)
  /\ outFinished => outStream.disk = Document(rows)

LEMMA OutInit == Init => OutInv
  <1> SUFFICES ASSUME Init PROVE OutInv
    OBVIOUS
  <1>1. /\ outRoom = 0 /\ outStream = FreshStream /\ outFormat = "none" /\ firstRow /\ ~outFinished
        /\ rows = <<>> /\ stPc = "off"
    BY DEF Init, OutputInit
  <1>2. FreshStream \in Streams(Tokens({})) /\ Fits(FreshStream, 0) /\ <<>> \in Seq({})
    BY FreshFacts
  <1> QED BY <1>1, <1>2 DEF OutInv

LEMMA OutStep == OutInv /\ [Next]_vars => OutInv'
  <1> SUFFICES ASSUME OutInv, [Next]_vars PROVE OutInv'
    OBVIOUS
  <1>i. outRoom \in Nat /\ Fits(outStream, outRoom)
    BY DEF OutInv
  <1>s. PICK S : rows \in Seq(S) /\ outStream \in Streams(Tokens(S))
    BY DEF OutInv
  <1>q. ASSUME UNCHANGED <<outVars, rows>>,
               stPc' = "off" => stPc = "off",
               stPc' \in {"off", "opened", "reading", "draining"} => stPc \in {"off", "opened", "reading", "draining"},
               stPc' \in {"opened", "reading", "draining"} => stPc \in {"opened", "reading", "draining"}
        PROVE  OutInv'
    BY <1>q DEF OutInv, outVars, Document
  <1>1. CASE SimulatorStep \/ Rot \/ OpenReplay \/ ReadFrame \/ StopReplay \/ RejectFrame \/ GapFound
             \/ Finished \/ UNCHANGED vars
    <2>1. UNCHANGED <<outVars, rows>>
      BY <1>1 DEF SimulatorStep, Rot, OpenReplay, ReadFrame, StopReplay, RejectFrame, GapFound, Finished, vars, stationVars
    <2>2. \/ stPc' = stPc
          \/ stPc \in {"opened", "reading"} /\ stPc' \in {"reading", "draining"}
          \/ stPc' = "exit1"
      BY <1>1 DEF SimulatorStep, Rot, OpenReplay, ReadFrame, StopReplay, RejectFrame, GapFound, Finished, vars,
         stationVars, InputThrows
    <2> QED BY <1>q, <2>1, <2>2
  <1>2. CASE StartStation
    <2>0. stPc = "off" /\ rows' = rows
      BY <1>2 DEF StartStation
    <2>1. outStream = FreshStream /\ rows = <<>> /\ firstRow /\ ~outFinished
      BY <2>0 DEF OutInv
    <2>2. CASE stPc' = "exit1" /\ UNCHANGED outVars
      BY <1>q, <2>0, <2>2
    <2>3. CASE \E format \in {"csv", "json"}, room \in OutRooms : OpenOutput(format, room) /\ stPc' = "opened"
      <3>1. PICK format \in {"csv", "json"}, room \in OutRooms : OpenOutput(format, room) /\ stPc' = "opened"
        BY <2>3
      <3>2. room \in Nat
        BY OutRoomsAssumption
      <3> DEFINE T == Tokens({})
                 o == <<Opening>>
                 fresh == FreshStream
      <3>3. o \in Seq(T)
        <4> DEFINE t == Opening
        <4>1. t \in T
          BY DEF Tokens
        <4> HIDE DEF t, T
        <4>2. <<t>> \in Seq(T)
          BY <4>1
        <4> QED BY <4>2 DEF t
      <3>4. fresh \in Streams(T) /\ Fits(fresh, room) /\ Total(fresh) = <<>> /\ ~fresh.bad
        BY <3>2, FreshFacts
      <3>5. outStream' \in AfterWrite(fresh, o, room)
        BY <2>1, <3>1 DEF OpenOutput
      <3> HIDE DEF T, o, fresh
      <3>6. outStream' \in Streams(T) /\ Fits(outStream', room) /\ Total(outStream') = Total(fresh) \o o
        BY <3>2, <3>3, <3>4, <3>5, WriteFacts
      <3>7. Total(outStream') = o
        <4>1. <<>> \o o = o
          BY <3>3, ConcatEmptySeq
        <4> QED BY <3>4, <3>6, <4>1, Zenon
      <3>8. BodyOf(outFormat', rows') = o
        BY <2>0, <2>1, BodyEmpty DEF o
      <3>9. rows' \in Seq({})
        BY <2>0, <2>1
      <3> QED BY <2>0, <2>1, <3>1, <3>2, <3>6, <3>7, <3>8, <3>9 DEF OutInv, OpenOutput, T
    <2> QED BY <1>2, <2>2, <2>3 DEF StartStation
  <1>3. CASE ExportFrame
    <2> DEFINE f == Head(backlog).frame
               R == S \cup {f}
               T == Tokens(R)
               block == RowBlock(outFormat, rows, f)
    <2>1. stPc \in {"reading", "draining"} /\ stPc' = stPc /\ WriteRow(f, FALSE) /\ rows' = Append(rows, f)
      BY <1>3 DEF ExportFrame, WriterRuns
    <2>2. /\ outStream' \in AfterWrite(outStream, RowTokens(f), outRoom)
          /\ ~outStream'.bad
          /\ firstRow' = IF outFormat = "json" THEN FALSE ELSE firstRow
          /\ UNCHANGED <<outFormat, outRoom, outFinished>>
      BY <2>1 DEF WriteRow
    <2>3. ~outFinished /\ (outFormat = "json" => (firstRow <=> rows = <<>>))
      BY <2>1 DEF OutInv
    <2>4. RowTokens(f) = block
      BY <2>3 DEF RowTokens, RowBlock
    <2>5. rows \in Seq(R) /\ outStream \in Streams(T) /\ f \in R
      <3>1. S \subseteq R /\ f \in R
        OBVIOUS
      <3> HIDE DEF R
      <3> QED BY <1>s, <3>1, WiderTokens
    <2>6. block \in Seq(T)
      BY <2>5, TokenFacts DEF RowBlock
    <2>7. BodyOf(outFormat, Append(rows, f)) = BodyOf(outFormat, rows) \o RowBlock(outFormat, rows, f)
      <3>1. rows \in Seq(R) /\ f \in R
        BY <2>5
      <3> HIDE DEF R, f
      <3> QED BY <3>1, BodyAppend, Zenon
    <2>8. Append(rows, f) \in Seq(R) /\ Append(rows, f) # <<>>
      <3>1. rows \in Seq(R) /\ f \in R
        BY <2>5
      <3> HIDE DEF R, f
      <3>2. Append(rows, f) \in Seq(R)
        BY <3>1
      <3>3. Append(rows, f) # <<>>
        BY <3>1, AppendProperties
      <3> QED BY <3>2, <3>3
    <2>a. outStream' \in AfterWrite(outStream, block, outRoom)
      BY <2>2, <2>4
    <2> HIDE DEF f, R, T, block
    <2>9. /\ outStream' \in Streams(T) /\ Fits(outStream', outRoom)
          /\ ~outStream.bad /\ Total(outStream') = Total(outStream) \o block
      BY <1>i, <2>2, <2>5, <2>6, <2>a, WriteFacts
    <2>10. Total(outStream) = BodyOf(outFormat, rows)
      BY <2>1, <2>9 DEF OutInv
    <2>11. Total(outStream') = BodyOf(outFormat', rows')
      BY <2>1, <2>2, <2>7, <2>9, <2>10, Zenon DEF block
    <2>12. rows' \in Seq(R) /\ rows' # <<>>
      BY <2>1, <2>8
    <2>13. \E Q : rows' \in Seq(Q) /\ outStream' \in Streams(Tokens(Q))
      BY <2>9, <2>12 DEF T
    <2>14. outFormat' = "json" => ~firstRow'
      BY <2>2
    <2> QED BY <1>i, <2>1, <2>2, <2>3, <2>9, <2>11, <2>12, <2>13, <2>14 DEF OutInv
  <1>4. CASE WriterFails
    <2> DEFINE f == Head(backlog).frame
               R == S \cup {f}
               T == Tokens(R)
    <2>1. /\ stPc \in {"reading", "draining"} /\ stPc' = "exit1" /\ rows' = rows
          /\ UNCHANGED outVars \/ WriteRow(f, TRUE)
      BY <1>4 DEF WriterFails, WriterRuns
    <2>2. CASE UNCHANGED outVars
      BY <1>q, <2>1, <2>2
    <2>3. CASE WriteRow(f, TRUE)
      <3>1. /\ outStream' \in AfterWrite(outStream, RowTokens(f), outRoom)
            /\ firstRow' = IF outFormat = "json" THEN FALSE ELSE firstRow
            /\ UNCHANGED <<outFormat, outRoom, outFinished>>
        BY <2>3 DEF WriteRow
      <3>2. rows \in Seq(R) /\ outStream \in Streams(T) /\ f \in R
        <4>1. S \subseteq R /\ f \in R
          OBVIOUS
        <4> HIDE DEF R
        <4> QED BY <1>s, <4>1, WiderTokens
      <3>3. RowTokens(f) \in Seq(T)
        BY <3>2, TokenFacts DEF RowTokens
      <3> HIDE DEF f, R, T
      <3>4. outStream' \in Streams(T) /\ Fits(outStream', outRoom)
        BY <1>i, <3>1, <3>2, <3>3, WriteFacts
      <3>5. ~outFinished'
        BY <2>1, <3>1 DEF OutInv
      <3>6. \E Q : rows' \in Seq(Q) /\ outStream' \in Streams(Tokens(Q))
        BY <2>1, <3>2, <3>4 DEF T
      <3> QED BY <1>i, <2>1, <3>1, <3>4, <3>5, <3>6 DEF OutInv
    <2> QED BY <2>1, <2>2, <2>3
  <1>5. CASE FinishExport
    <2>1. PICK throws \in BOOLEAN :
            /\ FinishOutput(throws)
            /\ stPc' = IF throws \/ inputFailed THEN "exit1" ELSE "exit0"
      BY <1>5 DEF FinishExport
    <2>2. stPc = "draining" /\ stPc' \in {"exit0", "exit1"} /\ rows' = rows
      BY <1>5, <2>1 DEF FinishExport
    <2>3. PICK s \in AfterWrite(outStream, ClosingTokens, outRoom) : outStream' = AfterFlush(s, outRoom)
      BY <2>1 DEF FinishOutput
    <2>4. outStream'.bad = throws /\ outFinished' = ~throws /\ UNCHANGED <<outFormat, outRoom, firstRow>>
      BY <2>1 DEF FinishOutput
    <2> DEFINE T == Tokens(S)
    <2>5. ClosingTokens \in Seq(T)
      <3> DEFINE t == Closing
      <3>1. t \in T
        BY DEF Tokens
      <3> HIDE DEF t, T
      <3>2. <<t>> \in Seq(T)
        BY <3>1
      <3>3. <<>> \in Seq(T)
        OBVIOUS
      <3> QED BY <3>2, <3>3 DEF ClosingTokens, t
    <2>6. /\ s \in Streams(T) /\ Fits(s, outRoom)
          /\ ~outStream.bad => Total(s) = Total(outStream) \o ClosingTokens
          /\ ~s.bad => ~outStream.bad
      BY <1>i, <1>s, <2>3, <2>5, WriteFacts
    <2>7. /\ outStream' \in Streams(T) /\ Fits(outStream', outRoom) /\ Total(outStream') = Total(s)
          /\ ~outStream'.bad => ~s.bad /\ outStream'.pending = <<>>
      BY <1>i, <2>3, <2>6, FlushFacts
    <2> HIDE DEF T
    <2>8. ASSUME outFinished' PROVE outStream'.disk = Document(rows)'
      <3>1. ~outStream'.bad
        BY <2>4, <2>8
      <3>2. ~outStream.bad /\ outStream'.pending = <<>>
        BY <2>6, <2>7, <3>1
      <3>3. Total(outStream) = BodyOf(outFormat, rows)
        BY <2>2, <3>2 DEF OutInv
      <3>4. outStream'.disk = Total(outStream')
        BY <2>7, <3>2, DiskFacts
      <3>5. outStream'.disk = BodyOf(outFormat, rows) \o ClosingTokens
        BY <2>6, <2>7, <3>2, <3>3, <3>4, Zenon
      <3>6. Document(rows)' = Document(rows)
        BY <2>2, <2>4 DEF Document
      <3>7. BodyOf(outFormat, rows) \o ClosingTokens = Document(rows)
        <4>1. CASE outFormat = "json"
          <5>1. ClosingTokens = <<Closing>>
            BY <4>1 DEF ClosingTokens
          <5> DEFINE w == FlattenSeq([n \in 1..Len(rows) |->
                            IF n = 1 THEN <<Row(rows[n])>> ELSE <<Separator, Row(rows[n])>>])
          <5>2. BodyOf(outFormat, rows) = <<Opening>> \o w
            BY <4>1 DEF BodyOf
          <5>3. Document(rows) = (<<Opening>> \o w) \o <<Closing>>
            BY <4>1, Zenon DEF Document
          <5> QED BY <5>1, <5>2, <5>3, Zenon
        <4>2. CASE outFormat # "json"
          <5>1. ClosingTokens = <<>>
            BY <4>2 DEF ClosingTokens
          <5>2. BodyOf(outFormat, rows) = Document(rows)
            BY <4>2 DEF BodyOf, Document
          <5>3. Total(outStream) \in Seq(T)
            BY <1>s, DiskFacts DEF T
          <5>4. Total(outStream) \o <<>> = Total(outStream)
            BY <5>3, ConcatEmptySeq
          <5> QED BY <3>3, <5>1, <5>2, <5>4, Zenon
        <4> QED BY <4>1, <4>2
      <3> QED BY <3>5, <3>6, <3>7
    <2>9. \E Q : rows' \in Seq(Q) /\ outStream' \in Streams(Tokens(Q))
      BY <1>s, <2>2, <2>7 DEF T
    <2> QED BY <1>i, <2>2, <2>4, <2>7, <2>8, <2>9 DEF OutInv
  <1> QED BY <1>1, <1>2, <1>3, <1>4, <1>5 DEF Next

\* A finished export is the complete document of its rows, opened, separated and
\* closed, however much of it the stream held back and however late the device
\* filled up (TelemetryOutput.cpp:23-72).
THEOREM DocumentTheorem == Spec => []FinishedIsWellFormed
  <1>1. OutInv => FinishedIsWellFormed
    BY DEF OutInv, FinishedIsWellFormed
  <1> QED BY <1>1, OutInit, OutStep, PTL DEF Spec

-----------------------------------------------------------------------------
(* Application payloads *)

LEMMA PartsOfConcat ==
  ASSUME NEW S, NEW m \in Seq(S), NEW h \in Seq(S), NEW t \in Seq(S)
  PROVE  /\ (m \o h) \o t \in Seq(S)
         /\ Len((m \o h) \o t) = Len(m) + Len(h) + Len(t)
         /\ \A i \in 1..Len(m) : ((m \o h) \o t)[i] = m[i]
         /\ \A i \in 1..Len(h) : ((m \o h) \o t)[Len(m) + i] = h[i]
         /\ \A i \in 1..Len(t) : ((m \o h) \o t)[(Len(m) + Len(h)) + i] = t[i]
  <1> DEFINE g == m \o h
             e == g \o t
             a == Len(m)
             b == Len(h)
             c == Len(t)
  <1>1. a \in Nat /\ b \in Nat /\ c \in Nat
    OBVIOUS
  <1>2. g \in Seq(S) /\ Len(g) = Len(m) + Len(h)
    OBVIOUS
  <1>3. \A i \in 1..a : g[i] = m[i]
    OBVIOUS
  <1>4. \A i \in 1..b : g[Len(m) + i] = h[i]
    OBVIOUS
  <1> HIDE DEF g
  <1>5. e \in Seq(S) /\ Len(e) = Len(g) + Len(t)
    BY <1>2
  <1>6. \A i \in 1..Len(g) : e[i] = g[i]
    BY <1>2
  <1>7. \A i \in 1..c : e[Len(g) + i] = t[i]
    BY <1>2
  <1>8. Len(g) = a + b
    BY <1>2
  <1> HIDE DEF e, a, b, c
  <1>9. \A i \in 1..a : e[i] = m[i]
    <2> TAKE i \in 1..a
    <2>1. i \in 1..(a + b)
      BY <1>1
    <2> QED BY <1>3, <1>6, <1>8, <2>1
  <1>10. \A i \in 1..b : e[a + i] = h[i]
    <2> TAKE i \in 1..b
    <2>1. a + i \in 1..(a + b)
      BY <1>1
    <2>2. g[a + i] = h[i]
      BY <1>4 DEF a
    <2> QED BY <1>6, <1>8, <2>1, <2>2
  <1>11. \A i \in 1..c : e[(a + b) + i] = t[i]
    BY <1>7, <1>8
  <1>12. Len(e) = a + b + c
    BY <1>1, <1>5, <1>8 DEF c
  <1> QED BY <1>5, <1>9, <1>10, <1>11, <1>12 DEF e, a, b, c, g

\* The converse: a sequence with those parts is their concatenation.
LEMMA ConcatOfParts ==
  ASSUME NEW S, NEW m \in Seq(S), NEW h \in Seq(S), NEW t \in Seq(S), NEW p \in Seq(S),
         Len(p) = Len(m) + Len(h) + Len(t),
         \A i \in 1..Len(m) : p[i] = m[i],
         \A i \in 1..Len(h) : p[Len(m) + i] = h[i],
         \A i \in 1..Len(t) : p[(Len(m) + Len(h)) + i] = t[i]
  PROVE  (m \o h) \o t = p
  <1> DEFINE e == (m \o h) \o t
             a == Len(m)
             b == Len(h)
             c == Len(t)
  <1>1. a \in Nat /\ b \in Nat /\ c \in Nat
    OBVIOUS
  <1>2. /\ e \in Seq(S) /\ Len(e) = a + b + c
        /\ \A i \in 1..a : e[i] = m[i]
        /\ \A i \in 1..b : e[a + i] = h[i]
        /\ \A i \in 1..c : e[(a + b) + i] = t[i]
    BY PartsOfConcat
  <1>3. /\ Len(p) = a + b + c
        /\ \A i \in 1..a : p[i] = m[i]
        /\ \A i \in 1..b : p[a + i] = h[i]
        /\ \A i \in 1..c : p[(a + b) + i] = t[i]
    OBVIOUS
  <1> HIDE DEF e, a, b, c
  <1>4. ASSUME NEW i \in 1..(a + b + c) PROVE e[i] = p[i]
    <2>1. CASE i <= a
      <3>1. i \in 1..a
        BY <1>1, <2>1
      <3> QED BY <1>2, <1>3, <3>1
    <2>2. CASE a < i /\ i <= a + b
      <3> DEFINE j == i - a
      <3>1. j \in 1..b /\ a + j = i
        BY <1>1, <2>2
      <3> HIDE DEF j
      <3>2. e[a + j] = p[a + j]
        BY <1>2, <1>3, <3>1
      <3> QED BY <3>1, <3>2
    <2>3. CASE a + b < i
      <3> DEFINE j == i - (a + b)
      <3>1. j \in 1..c /\ (a + b) + j = i
        BY <1>1, <2>3
      <3> HIDE DEF j
      <3>2. e[(a + b) + j] = p[(a + b) + j]
        BY <1>2, <1>3, <3>1
      <3> QED BY <3>1, <3>2
    <2> QED BY <1>1, <2>1, <2>2, <2>3
  <1>5. Len(e) = Len(p) /\ \A i \in 1..Len(e) : e[i] = p[i]
    BY <1>2, <1>3, <1>4
  <1>6. e = p
    BY <1>2, <1>5, SeqEqual
  <1> QED BY <1>6 DEF e

LEMMA HeaderFacts ==
  ASSUME NEW kind \in Int
  PROVE  /\ AppMagicSize \in Nat
         /\ CommonHeader(kind) \in Seq(Int)
         /\ Len(CommonHeader(kind)) = AppMagicSize + 2
         /\ \A i \in 1..AppMagicSize : CommonHeader(kind)[i] = ApplicationPayloadMagic[i]
         /\ CommonHeader(kind)[AppMagicSize + 1] = ApplicationPayloadVersion
         /\ CommonHeader(kind)[AppMagicSize + 2] = kind
         /\ ApplicationCommonHeaderSize = AppMagicSize + 2
         /\ TextMessageFixedWireSize = AppMagicSize + 3
         /\ SignalBlockFixedWireSize = AppMagicSize + 7
  <1> DEFINE m == ApplicationPayloadMagic
             h == <<ApplicationPayloadVersion, kind>>
             e == m \o h
             a == Len(m)
  <1>1. m \in Seq(Int) /\ h \in Seq(Int) /\ Len(h) = 2 /\ h[1] = ApplicationPayloadVersion /\ h[2] = kind
    BY ApplicationAssumption DEF ApplicationPayloadVersion
  <1>2. CommonHeader(kind) = e
    BY DEF CommonHeader
  <1> HIDE DEF m, h
  <1>0. m \in Seq(Int) /\ h \in Seq(Int)
    BY <1>1
  <1>3. a \in Nat /\ e \in Seq(Int) /\ Len(e) = a + Len(h)
    <2>1. a \in Nat
      BY <1>0
    <2>2. e \in Seq(Int) /\ Len(e) = Len(m) + Len(h)
      BY <1>0
    <2> QED BY <2>1, <2>2
  <1>4. (\A i \in 1..a : e[i] = m[i])
    BY <1>1
  <1>5. \A i \in 1..Len(h) : e[a + i] = h[i]
    <2>1. ASSUME NEW i \in 1..Len(h) PROVE (m \o h)[Len(m) + i] = h[i]
      BY <1>0
    <2> QED BY <2>1
  <1> HIDE DEF e, a
  <1>6. e[a + 1] = h[1] /\ e[a + 2] = h[2] /\ Len(e) = a + 2
    BY <1>1, <1>3, <1>5
  <1>7. AppMagicSize = a
    BY DEF AppMagicSize, a, m
  <1>8. /\ ApplicationCommonHeaderSize = a + 2 /\ TextMessageFixedWireSize = a + 3
        /\ SignalBlockFixedWireSize = a + 7
    BY <1>3, <1>7 DEF ApplicationCommonHeaderSize, TextMessageFixedWireSize, SignalBlockFixedWireSize
  <1> QED BY <1>1, <1>2, <1>3, <1>4, <1>6, <1>7, <1>8 DEF m

\* What decodeApplicationPayload found out when it returns a text or a signal.
LEMMA KindFacts ==
  ASSUME NEW p \in Seq(Int), NEW c, c = DecodeApplicationPayload(p), c.kind \in {"text", "signal"}
  PROVE  /\ SubSeq(p, 1, AppMagicSize) = ApplicationPayloadMagic
         /\ ~(Len(p) < ApplicationCommonHeaderSize)
         /\ p[AppMagicSize + 1] = ApplicationPayloadVersion
         /\ \/ p[AppMagicSize + 2] = TextMessage /\ c = DecodeTextMessage(p)
            \/ p[AppMagicSize + 2] = SignalBlock /\ c = DecodeSignalBlock(p)
  <1> DEFINE noMagic == Len(p) < AppMagicSize \/ SubSeq(p, 1, AppMagicSize) # ApplicationPayloadMagic
             short   == Len(p) < ApplicationCommonHeaderSize
             version == p[AppMagicSize + 1]
             kind    == p[AppMagicSize + 2]
             text    == DecodeTextMessage(p)
             signal  == DecodeSignalBlock(p)
             other   == CASE kind = TextMessage -> text [] kind = SignalBlock -> signal
                          [] OTHER -> Refused("UnknownKind")
  <1>1. c = IF noMagic THEN Opaque
            ELSE IF short THEN Refused("TruncatedHeader")
            ELSE IF version # ApplicationPayloadVersion THEN Refused("UnsupportedVersion")
            ELSE other
    BY DEF DecodeApplicationPayload
  <1>2. Opaque.kind = "opaque" /\ \A code : Refused(code).kind = "error"
    BY DEF Opaque, Refused
  <1>3. \/ kind = TextMessage /\ other = text
        \/ kind = SignalBlock /\ other = signal
        \/ other = Refused("UnknownKind")
    BY DEF TextMessage, SignalBlock
  <1>4. ~noMagic => SubSeq(p, 1, AppMagicSize) = ApplicationPayloadMagic
    OBVIOUS
  <1> HIDE DEF noMagic, short, version, kind, text, signal, other
  <1>5. ~noMagic /\ ~short /\ version = ApplicationPayloadVersion /\ c = other
    BY <1>1, <1>2
  <1>6. other # Refused("UnknownKind")
    BY <1>2, <1>5
  <1> QED BY <1>3, <1>4, <1>5, <1>6 DEF short, version, kind, text, signal

\* Decoding, then encoding, gives back the payload; and what was decoded could
\* have been encoded.
LEMMA PayloadFacts ==
  ASSUME NEW p \in Seq(Int), Len(p) <= MaxPayloadSize, NEW c, c = DecodeApplicationPayload(p)
  PROVE  /\ c.kind = "text" => EncodableText(c) /\ EncodeTextMessagePayload(c) = p
         /\ c.kind = "signal" => EncodableSignal(c) /\ EncodeSignalBlockPayload(c) = p
  <1> DEFINE a == AppMagicSize
             l == Len(p)
             M == ApplicationPayloadMagic
  <1> SUFFICES ASSUME c.kind \in {"text", "signal"}
               PROVE  /\ c.kind = "text" => EncodableText(c) /\ EncodeTextMessagePayload(c) = p
                      /\ c.kind = "signal" => EncodableSignal(c) /\ EncodeSignalBlockPayload(c) = p
    OBVIOUS
  <1>1. /\ SubSeq(p, 1, a) = M
        /\ ~(l < ApplicationCommonHeaderSize)
        /\ p[a + 1] = ApplicationPayloadVersion
        /\ \/ p[a + 2] = TextMessage /\ c = DecodeTextMessage(p)
           \/ p[a + 2] = SignalBlock /\ c = DecodeSignalBlock(p)
    BY KindFacts
  <1>2. /\ a \in Nat /\ l \in Nat /\ MaxPayloadSize \in Nat /\ l <= MaxPayloadSize
        /\ ApplicationCommonHeaderSize = a + 2 /\ TextMessageFixedWireSize = a + 3
        /\ SignalBlockFixedWireSize = a + 7 /\ TextMessage \in Int /\ SignalBlock \in Int
    <2>1. TextMessage \in Int /\ SignalBlock \in Int
      BY DEF TextMessage, SignalBlock
    <2> QED BY <2>1, HeaderFacts, MaxPayloadAssumption
  <1> HIDE DEF a, l, M
  <1>3. \A i \in 1..a : p[i] = M[i]
    <2>1. a <= l /\ 1 <= a + 1
      BY <1>1, <1>2
    <2>2. \A i \in 1..a : SubSeq(p, 1, a)[i] = p[i]
      BY <1>2, <2>1 DEF l
    <2> QED BY <1>1, <2>2
  <1>4. ASSUME NEW kind \in Int, p[a + 2] = kind, NEW i \in 1..(a + 2) PROVE p[i] = CommonHeader(kind)[i]
    <2>1. /\ \A j \in 1..a : CommonHeader(kind)[j] = M[j]
          /\ CommonHeader(kind)[a + 1] = ApplicationPayloadVersion
          /\ CommonHeader(kind)[a + 2] = kind
      BY HeaderFacts DEF a, M
    <2>2. i \in 1..a \/ i = a + 1 \/ i = a + 2
      BY <1>2
    <2> QED BY <1>1, <1>3, <1>4, <2>1, <2>2
  <1>5. CASE p[a + 2] = TextMessage /\ c = DecodeTextMessage(p)
    <2> DEFINE t == SubSeq(p, a + 4, l)
               n == p[a + 3]
               h == CommonHeader(TextMessage)
               x == [kind |-> "text", sequence |-> n, text |-> t]
    <2>1. c = IF l < a + 3 THEN Refused("InvalidLength") ELSE x
      <3>1. (a + 3) + 1 = a + 4 /\ (a + 2) + 1 = a + 3
        BY <1>2
      <3> QED BY <1>2, <1>5, <3>1 DEF DecodeTextMessage, l
    <2>2. ~(l < a + 3) /\ c = x
      <3>1. Refused("InvalidLength").kind = "error"
        BY DEF Refused
      <3> HIDE DEF x
      <3> QED BY <2>1, <3>1
    <2>3. c.kind = "text" /\ c.sequence = n /\ c.text = t
      <3>1. c = x
        BY <2>2
      <3> HIDE DEF t, n
      <3> QED BY <3>1
    <2>4. l >= a + 3
      BY <1>2, <2>2
    <2>5. n \in Int
      <3>1. a + 3 \in 1..l
        BY <1>2, <2>4
      <3> QED BY <3>1 DEF l
    <2>6. t \in Seq(Int) /\ Len(t) = l - (a + 3) /\ \A i \in 1..(l - (a + 3)) : t[i] = p[(a + 3) + i]
      <3> DEFINE u == a + 4
      <3>1. u \in Int /\ l \in Int /\ \A i \in u..l : p[i] \in Int
        <4>1. \A i \in u..l : i \in 1..l
          BY <1>2
        <4> QED BY <1>2, <4>1 DEF l
      <3> HIDE DEF u
      <3>2. /\ SubSeq(p, u, l) \in Seq(Int)
            /\ Len(SubSeq(p, u, l)) = (IF u <= l THEN l - u + 1 ELSE 0)
            /\ \A i \in 1..(l - u + 1) : SubSeq(p, u, l)[i] = p[u + i - 1]
        BY <3>1, SubSeqProperties
      <3>3. l - u + 1 = l - (a + 3) /\ (u <= l \/ l - (a + 3) = 0)
        BY <1>2, <2>4 DEF u
      <3>4. Len(SubSeq(p, u, l)) = l - (a + 3)
        BY <1>2, <3>1, <3>2, <3>3
      <3>5. \A i \in 1..(l - (a + 3)) : u + i - 1 = (a + 3) + i
        BY <1>2 DEF u
      <3>6. \A i \in 1..(l - (a + 3)) : SubSeq(p, u, l)[i] = p[(a + 3) + i]
        BY <3>2, <3>3, <3>5
      <3> QED BY <3>2, <3>4, <3>6 DEF u
    <2>7. h \in Seq(Int) /\ Len(h) = a + 2 /\ \A i \in 1..(a + 2) : p[i] = h[i]
      BY <1>2, <1>4, <1>5, HeaderFacts DEF a
    <2> HIDE DEF t, n, h
    <2> DEFINE s == <<n>>
    <2>8. s \in Seq(Int) /\ Len(s) = 1 /\ s[1] = n
      BY <2>5
    <2> HIDE DEF s
    <2>9. /\ Len(p) = Len(h) + Len(s) + Len(t)
          /\ \A i \in 1..Len(h) : p[i] = h[i]
          /\ \A i \in 1..Len(s) : p[Len(h) + i] = s[i]
          /\ \A i \in 1..Len(t) : p[(Len(h) + Len(s)) + i] = t[i]
      <3>1. l = Len(h) + Len(s) + Len(t) /\ Len(h) + Len(s) = a + 3 /\ Len(h) + 1 = a + 3
        BY <1>2, <2>6, <2>7, <2>8
      <3>2. \A i \in 1..1 : i = 1
        OBVIOUS
      <3>3. p[Len(h) + 1] = s[1]
        BY <2>8, <3>1 DEF n
      <3> QED BY <2>6, <2>7, <2>8, <3>1, <3>2, <3>3 DEF l
    <2>10. (h \o s) \o t = p
      <3>1. h \in Seq(Int) /\ s \in Seq(Int) /\ t \in Seq(Int) /\ p \in Seq(Int)
        BY <2>6, <2>7, <2>8
      <3> QED BY <2>9, <3>1, ConcatOfParts, ZenonT(40)
    <2>11. EncodeTextMessagePayload(c) = p
      BY <2>3, <2>10, Zenon DEF EncodeTextMessagePayload, h, s
    <2>12. EncodableText(c)
      <3>1. Len(c.text) = l - (a + 3) /\ MaxTextMessageBytes = MaxPayloadSize - (a + 3)
        BY <1>2, <2>3, <2>6 DEF MaxTextMessageBytes
      <3>2. l - (a + 3) <= MaxPayloadSize - (a + 3)
        BY <1>2
      <3> QED BY <3>1, <3>2 DEF EncodableText
    <2> QED BY <2>3, <2>11, <2>12
  <1>6. CASE p[a + 2] = SignalBlock /\ c = DecodeSignalBlock(p)
    <2> DEFINE t == SubSeq(p, a + 8, l)
               h == CommonHeader(SignalBlock)
               x == [kind |-> "signal", sampleRateHz |-> p[(a + 2) + 1], frequencyHz |-> p[(a + 2) + 2],
                     nominalAmplitude |-> p[(a + 2) + 3], startSampleIndex |-> p[(a + 2) + 4],
                     samples |-> t]
               short == l < a + 7
               wrong == l # (a + 7) + p[(a + 2) + 5]
               invalid == ~ValidSignalMetadata(x) \/ ~FiniteSamples(t)
    <2>1. c = IF short THEN Refused("InvalidLength")
              ELSE IF wrong THEN Refused("InvalidLength")
              ELSE IF invalid THEN Refused("InvalidSignalMetadata") ELSE x
      <3>1. (a + 7) + 1 = a + 8
        BY <1>2
      <3> QED BY <1>2, <1>6, <3>1 DEF DecodeSignalBlock, l
    <2>2. /\ c.kind \in {"text", "signal"} /\ Refused("InvalidLength").kind = "error"
          /\ Refused("InvalidSignalMetadata").kind = "error"
      BY DEF Refused
    <2>3. ~short /\ ~wrong /\ ~invalid /\ c = x
      <3> HIDE DEF short, wrong, invalid, x
      <3> QED BY <2>1, <2>2
    <2>4. /\ c.kind = "signal" /\ c.samples = t
          /\ c.sampleRateHz = p[(a + 2) + 1] /\ c.frequencyHz = p[(a + 2) + 2]
          /\ c.nominalAmplitude = p[(a + 2) + 3] /\ c.startSampleIndex = p[(a + 2) + 4]
      <3> DEFINE v1 == p[(a + 2) + 1]
                 v2 == p[(a + 2) + 2]
                 v3 == p[(a + 2) + 3]
                 v4 == p[(a + 2) + 4]
      <3>1. c = [kind |-> "signal", sampleRateHz |-> v1, frequencyHz |-> v2,
                 nominalAmplitude |-> v3, startSampleIndex |-> v4, samples |-> t]
        BY <2>3, Zenon
      <3> HIDE DEF t, v1, v2, v3, v4
      <3>2. /\ c.kind = "signal" /\ c.samples = t /\ c.sampleRateHz = v1 /\ c.frequencyHz = v2
            /\ c.nominalAmplitude = v3 /\ c.startSampleIndex = v4
        BY <3>1
      <3> QED BY <3>2, Zenon DEF v1, v2, v3, v4
    <2>5. ValidSignalMetadata(c) /\ FiniteSamples(c.samples)
      BY <2>3, <2>4
    <2>6. l >= a + 7 /\ l = (a + 7) + p[(a + 2) + 5]
      BY <1>2, <2>3
    <2> HIDE DEF x, short, wrong, invalid
    <2>7. t \in Seq(Int) /\ Len(t) = l - (a + 7) /\ \A i \in 1..(l - (a + 7)) : t[i] = p[(a + 7) + i]
      <3> DEFINE u == a + 8
      <3>1. u \in Int /\ l \in Int /\ \A i \in u..l : p[i] \in Int
        <4>1. \A i \in u..l : i \in 1..l
          BY <1>2
        <4> QED BY <1>2, <4>1 DEF l
      <3> HIDE DEF u
      <3>2. /\ SubSeq(p, u, l) \in Seq(Int)
            /\ Len(SubSeq(p, u, l)) = (IF u <= l THEN l - u + 1 ELSE 0)
            /\ \A i \in 1..(l - u + 1) : SubSeq(p, u, l)[i] = p[u + i - 1]
        BY <3>1, SubSeqProperties
      <3>3. l - u + 1 = l - (a + 7) /\ (u <= l \/ l - (a + 7) = 0)
        BY <1>2, <2>6 DEF u
      <3>4. Len(SubSeq(p, u, l)) = l - (a + 7)
        BY <1>2, <3>1, <3>2, <3>3
      <3>5. \A i \in 1..(l - (a + 7)) : u + i - 1 = (a + 7) + i
        BY <1>2 DEF u
      <3>6. \A i \in 1..(l - (a + 7)) : SubSeq(p, u, l)[i] = p[(a + 7) + i]
        BY <3>2, <3>3, <3>5
      <3> QED BY <3>2, <3>4, <3>6 DEF u
    <2>8. h \in Seq(Int) /\ Len(h) = a + 2 /\ \A i \in 1..(a + 2) : p[i] = h[i]
      BY <1>2, <1>4, <1>6, HeaderFacts DEF a
    <2> HIDE DEF t, h
    <2>9. \A i \in 1..5 : p[(a + 2) + i] \in Int
      <3>1. ASSUME NEW i \in 1..5 PROVE (a + 2) + i \in 1..l
        <4>1. a \in Nat /\ l \in Nat /\ l >= a + 7
          BY <1>2, <2>6
        <4> QED BY <4>1
      <3>2. ASSUME NEW j \in 1..l PROVE p[j] \in Int
        BY DEF l
      <3> QED BY <3>1, <3>2, Zenon
    <2>10. Len(t) = p[(a + 2) + 5]
      <3> DEFINE v == p[(a + 2) + 5]
      <3>1. v \in Int /\ l = (a + 7) + v
        <4>1. 5 \in 1..5
          OBVIOUS
        <4> QED BY <2>6, <2>9, <4>1, Zenon
      <3> HIDE DEF v
      <3>2. Len(t) = v
        BY <1>2, <2>7, <3>1
      <3> QED BY <3>2 DEF v
    <2> DEFINE s == <<c.sampleRateHz, c.frequencyHz, c.nominalAmplitude, c.startSampleIndex, Len(c.samples)>>
    <2>11. s \in Seq(Int) /\ Len(s) = 5 /\ \A i \in 1..5 : s[i] = p[(a + 2) + i]
      <3> DEFINE v1 == p[(a + 2) + 1]
                 v2 == p[(a + 2) + 2]
                 v3 == p[(a + 2) + 3]
                 v4 == p[(a + 2) + 4]
                 v5 == p[(a + 2) + 5]
      <3>1. s = <<v1, v2, v3, v4, v5>>
        BY <2>4, <2>10
      <3>2. v1 \in Int /\ v2 \in Int /\ v3 \in Int /\ v4 \in Int /\ v5 \in Int
        BY <2>9
      <3> HIDE DEF s, v1, v2, v3, v4, v5
      <3>3. s \in Seq(Int) /\ Len(s) = 5
        BY <3>1, <3>2
      <3>4. s[1] = v1 /\ s[2] = v2 /\ s[3] = v3 /\ s[4] = v4 /\ s[5] = v5
        BY <3>1
      <3>5. \A i \in 1..5 : i = 1 \/ i = 2 \/ i = 3 \/ i = 4 \/ i = 5
        OBVIOUS
      <3> QED BY <3>3, <3>4, <3>5 DEF v1, v2, v3, v4, v5
    <2> HIDE DEF s
    <2>12. /\ Len(p) = Len(h) + Len(s) + Len(t)
           /\ \A i \in 1..Len(h) : p[i] = h[i]
           /\ \A i \in 1..Len(s) : p[Len(h) + i] = s[i]
           /\ \A i \in 1..Len(t) : p[(Len(h) + Len(s)) + i] = t[i]
      <3>1. l = Len(h) + Len(s) + Len(t) /\ Len(h) + Len(s) = a + 7
        BY <1>2, <2>7, <2>8, <2>11
      <3> QED BY <2>7, <2>8, <2>11, <3>1 DEF l
    <2>13. (h \o s) \o t = p
      <3>1. h \in Seq(Int) /\ s \in Seq(Int) /\ t \in Seq(Int) /\ p \in Seq(Int)
        BY <2>7, <2>8, <2>11
      <3> QED BY <2>12, <3>1, ConcatOfParts, ZenonT(40)
    <2>14. EncodeSignalBlockPayload(c) = p
      BY <2>4, <2>13, Zenon DEF EncodeSignalBlockPayload, h, s
    <2>15. EncodableSignal(c)
      <3>1. Len(c.samples) = l - (a + 7) /\ MaxSignalSamplesPerPayload = MaxPayloadSize - (a + 7)
        BY <1>2, <2>4, <2>7 DEF MaxSignalSamplesPerPayload
      <3>2. l - (a + 7) <= MaxPayloadSize - (a + 7)
        BY <1>2
      <3> QED BY <2>5, <3>1, <3>2 DEF EncodableSignal
    <2> QED BY <2>4, <2>14, <2>15
  <1> QED BY <1>1, <1>5, <1>6
\* A text message that was encoded is decoded as the same message.
LEMMA TextReadBack ==
  ASSUME NEW n \in Int, NEW t \in Seq(Int)
  PROVE  LET x == [kind |-> "text", sequence |-> n, text |-> t]
         IN  DecodeApplicationPayload(EncodeTextMessagePayload(x)) = x
  <1> DEFINE x == [kind |-> "text", sequence |-> n, text |-> t]
             h == CommonHeader(TextMessage)
             s == <<n>>
             p == (h \o s) \o t
             a == AppMagicSize
             l == Len(p)
             M == ApplicationPayloadMagic
  <1>1. x.sequence = n /\ x.text = t
    OBVIOUS
  <1>2. EncodeTextMessagePayload(x) = p
    <2> HIDE DEF x
    <2> QED BY <1>1, Zenon DEF EncodeTextMessagePayload
  <1>3. s \in Seq(Int) /\ Len(s) = 1 /\ s[1] = n
    OBVIOUS
  <1>4. TextMessage \in Int
    BY DEF TextMessage
  <1>5. /\ a \in Nat /\ h \in Seq(Int) /\ Len(h) = a + 2
        /\ \A i \in 1..a : h[i] = M[i]
        /\ h[a + 1] = ApplicationPayloadVersion /\ h[a + 2] = TextMessage
        /\ ApplicationCommonHeaderSize = a + 2 /\ TextMessageFixedWireSize = a + 3
    BY <1>4, HeaderFacts
  <1>6. M \in Seq(Int) /\ Len(M) = a
    BY ApplicationAssumption DEF AppMagicSize
  <1> HIDE DEF h, s, a, M
  <1>7. h \in Seq(Int) /\ s \in Seq(Int)
    BY <1>3, <1>5
  <1>8. /\ p \in Seq(Int) /\ l = Len(h) + Len(s) + Len(t)
        /\ \A i \in 1..Len(h) : p[i] = h[i]
        /\ \A i \in 1..Len(s) : p[Len(h) + i] = s[i]
        /\ \A i \in 1..Len(t) : p[(Len(h) + Len(s)) + i] = t[i]
    BY <1>7, PartsOfConcat, SMTT(40)
  <1> HIDE DEF p
  <1>9. Len(t) \in Nat /\ l \in Nat /\ l = (a + 3) + Len(t)
    <2>1. Len(t) \in Nat
      OBVIOUS
    <2> QED BY <1>3, <1>5, <1>8, <2>1
  <1> HIDE DEF l
  <1>10. /\ \A i \in 1..(a + 2) : p[i] = h[i]
         /\ p[a + 3] = n
         /\ \A i \in 1..Len(t) : p[(a + 3) + i] = t[i]
    <2>1. Len(h) + Len(s) = a + 3 /\ Len(h) + 1 = a + 3 /\ 1 \in 1..Len(s)
      BY <1>3, <1>5
    <2>2. p[Len(h) + 1] = s[1]
      BY <1>8, <2>1
    <2> QED BY <1>3, <1>5, <1>8, <2>1, <2>2
  <1>11. p[a + 1] = ApplicationPayloadVersion /\ p[a + 2] = TextMessage /\ \A i \in 1..a : p[i] = M[i]
    <2>1. a + 1 \in 1..(a + 2) /\ a + 2 \in 1..(a + 2) /\ \A i \in 1..a : i \in 1..(a + 2)
      BY <1>5
    <2> QED BY <1>5, <1>10, <2>1
  <1>12. \A i \in 1..l : p[i] \in Int
    <2>1. p \in Seq(Int)
      BY <1>8
    <2> QED BY <2>1 DEF l
  <1>13. SubSeq(p, 1, a) = M
    <2>1. 1 \in Int /\ a \in Int /\ \A i \in 1..a : p[i] \in Int
      BY <1>5, <1>9, <1>12
    <2>2. /\ SubSeq(p, 1, a) \in Seq(Int)
          /\ Len(SubSeq(p, 1, a)) = (IF 1 <= a THEN a - 1 + 1 ELSE 0)
          /\ \A i \in 1..(a - 1 + 1) : SubSeq(p, 1, a)[i] = p[1 + i - 1]
      BY <2>1, SubSeqProperties
    <2> DEFINE b == SubSeq(p, 1, a)
    <2> HIDE DEF b
    <2>3. Len(b) = a
      BY <1>5, <2>2 DEF b
    <2>4. ASSUME NEW i \in 1..a PROVE b[i] = M[i]
      <3>1. i \in 1..(a - 1 + 1) /\ 1 + i - 1 = i
        BY <1>5
      <3> QED BY <1>11, <2>2, <3>1 DEF b
    <2>5. b \in Seq(Int)
      BY <2>2 DEF b
    <2>6. b = M
      BY <1>6, <2>3, <2>4, <2>5, SeqEqual
    <2> QED BY <2>6 DEF b
  <1>14. SubSeq(p, (a + 3) + 1, l) = t
    <2> DEFINE u == (a + 3) + 1
               b == SubSeq(p, u, l)
    <2>0. u \in Int /\ 1 <= u /\ l - u + 1 = Len(t) /\ (u <= l \/ Len(t) = 0)
      BY <1>5, <1>9
    <2> HIDE DEF u
    <2>1. u \in Int /\ l \in Int /\ \A i \in u..l : p[i] \in Int
      BY <1>9, <1>12, <2>0
    <2>2. /\ SubSeq(p, u, l) \in Seq(Int)
          /\ Len(SubSeq(p, u, l)) = (IF u <= l THEN l - u + 1 ELSE 0)
          /\ \A i \in 1..(l - u + 1) : SubSeq(p, u, l)[i] = p[u + i - 1]
      BY <2>1, SubSeqProperties
    <2> HIDE DEF b
    <2>3. Len(b) = Len(t) /\ b \in Seq(Int)
      BY <2>0, <2>1, <2>2 DEF b
    <2>4. ASSUME NEW i \in 1..Len(t) PROVE b[i] = t[i]
      <3>1. i \in 1..(l - u + 1)
        BY <2>0
      <3>2. u + i - 1 = (a + 3) + i
        BY <1>5, <1>9 DEF u
      <3> QED BY <1>10, <2>2, <3>1, <3>2 DEF b
    <2>5. b = t
      BY <2>3, <2>4, SeqEqual
    <2> QED BY <2>5 DEF b, u
  <1>15. DecodeApplicationPayload(p) = DecodeTextMessage(p)
    <2>1. ~(l < a) /\ ~(l < a + 2)
      BY <1>5, <1>9
    <2>2. ~(Len(p) < AppMagicSize) /\ ~(Len(p) < ApplicationCommonHeaderSize)
      BY <1>5, <2>1 DEF l, a
    <2>3. /\ SubSeq(p, 1, AppMagicSize) = ApplicationPayloadMagic
          /\ p[AppMagicSize + 1] = ApplicationPayloadVersion
          /\ p[AppMagicSize + 2] = TextMessage
      BY <1>11, <1>13 DEF a, M
    <2>4. TextMessage # SignalBlock
      BY DEF TextMessage, SignalBlock
    <2> QED BY <2>2, <2>3, <2>4 DEF DecodeApplicationPayload
  <1>16. DecodeTextMessage(p) = x
    <2>1. ~(l < a + 3) /\ (a + 2) + 1 = a + 3
      BY <1>5, <1>9
    <2>2. /\ ~(Len(p) < TextMessageFixedWireSize)
          /\ p[ApplicationCommonHeaderSize + 1] = n
          /\ SubSeq(p, TextMessageFixedWireSize + 1, Len(p)) = t
      BY <1>5, <1>10, <1>14, <2>1 DEF l
    <2> QED BY <2>2, Zenon DEF DecodeTextMessage
  <1> QED BY <1>2, <1>15, <1>16

\* The frames the factory may make with the options of this run, as far as the
\* station can tell them apart.
MadeFrames ==
  {f \in Frames :
     /\ Len(f.payload) <= MaxPayloadSize
     /\ options.mode = "text" =>
          \E i \in 0..options.count - 1 :
            f.payload = EncodeTextMessagePayload(TextOf(i)) /\ f.batteryPercent = BatteryOf(i)}

FactoryInv == \A j \in 1..Len(sent) : sent[j].frame \in MadeFrames

LEMMA MadeFacts ==
  ASSUME options \in ParsedOptions, NEW i \in Nat, i < options.count,
         NEW f \in FramesOf(i), Encodable(f)
  PROVE  f \in MadeFrames
  <1>1. f \in Frames
    BY FramesTyped
  <1>2. Len(f.payload) <= MaxPayloadSize
    BY DEF Encodable
  <1>3. PICK time \in Timestamps, temperature \in Temperatures, status \in 0..SafeMode, p \in PayloadsOf(i) :
          f = [version |-> ProtocolVersion, satelliteId |-> SatelliteId, timestampMs |-> time,
               temperatureC |-> temperature, batteryPercent |-> BatteryOf(i), status |-> status,
               payload |-> p]
    BY DEF FramesOf
  <1>4. f.payload = p /\ f.batteryPercent = BatteryOf(i)
    BY <1>3
  <1>5. options.mode = "text" => p = EncodeTextMessagePayload(TextOf(i))
    BY DEF PayloadsOf
  <1>6. i \in 0..options.count - 1
    BY OptionFacts
  <1> QED BY <1>1, <1>2, <1>4, <1>5, <1>6, Zenon DEF MadeFrames

LEMMA FactoryInit == Init => FactoryInv
  BY DEF Init, SimInit, FactoryInv

LEMMA FactoryStep == SimInv /\ FactoryInv /\ [Next]_vars => FactoryInv'
  <1> SUFFICES ASSUME SimInv, FactoryInv, [Next]_vars PROVE FactoryInv'
    OBVIOUS
  <1>0. options \in ParsedOptions /\ simIndex \in Nat /\ sent \in Seq(SentItems)
    BY DEF SimInv
  <1>1. options' = options /\ (sent' = sent \/ TransmitFrame \/ TransmitDamagedFrame)
    BY DEF Next, vars, simVars, SimulatorStep, OpenCapture, LoseFrame, TransmitFrame, TransmitDamagedFrame,
       Transmit, RefuseFrame, StoreFrame, FinishRun, KillSimulator, Rot, StartStation, OpenReplay,
       ReadFrame, StopReplay, RejectFrame, ExportFrame, WriterFails, FinishExport, GapFound, Finished
  <1>2. MadeFrames' = MadeFrames
    BY <1>1, Zenon DEF MadeFrames, TextOf
  <1>3. CASE sent' = sent
    BY <1>2, <1>3 DEF FactoryInv
  <1>4. CASE TransmitFrame \/ TransmitDamagedFrame
    <2>0. PICK f \in FramesOf(simIndex) : \E bytes, damage : Encodable(f) /\ Transmit(f, bytes, damage)
      BY <1>4 DEF TransmitFrame, TransmitDamagedFrame
    <2>1. PICK bytes, damage : Encodable(f) /\ Transmit(f, bytes, damage)
      BY <2>0
    <2> DEFINE x == [frame |-> f, bytes |-> bytes, damage |-> damage]
               l == Len(sent)
    <2>2. simIndex < options.count
      BY <1>4 DEF TransmitFrame, TransmitDamagedFrame, MoreFrames
    <2>3. f \in MadeFrames
      BY <1>0, <2>1, <2>2, MadeFacts
    <2>4. x.frame \in MadeFrames
      BY <2>3
    <2>5. sent' = Append(sent, x)
      BY <2>1 DEF Transmit
    <2> HIDE DEF x
    <2>6. /\ l \in Nat /\ Len(Append(sent, x)) = l + 1
          /\ \A j \in 1..l : Append(sent, x)[j] = sent[j]
          /\ Append(sent, x)[l + 1] = x
      <3>1. sent \in Seq(SentItems)
        BY <1>0
      <3> QED BY <3>1
    <2> HIDE DEF l
    <2>7. ASSUME NEW j \in 1..(l + 1) PROVE Append(sent, x)[j].frame \in MadeFrames
      <3>1. j \in 1..l \/ j = l + 1
        BY <2>6
      <3> QED BY <2>4, <2>6, <3>1 DEF FactoryInv, l
    <2> QED BY <1>2, <2>5, <2>6, <2>7 DEF FactoryInv
  <1> QED BY <1>1, <1>3, <1>4

\* What was sent undamaged was made by the factory.
LEMMA UndamagedMade ==
  ASSUME NEW F, NEW items \in Seq(SentItems),
         \A j \in 1..Len(items) : items[j].damage = 0 => items[j].frame \in F,
         NEW n \in 0..Len(items)
  PROVE  UndamagedOf(items, n) \in Seq(F)
  <1> DEFINE Kept(k) == IF items[k].damage = 0 THEN <<items[k].frame>> ELSE <<>>
             q == [k \in 1..n |-> Kept(k)]
  <1>1. Len(items) \in Nat
    OBVIOUS
  <1>2. \A k \in 1..n : k \in 1..Len(items)
    BY <1>1
  <1>3. n \in Nat
    BY <1>1
  <1>4. ASSUME NEW k \in 1..n PROVE Kept(k) \in Seq(F)
    <2>1. items[k].damage = 0 => items[k].frame \in F
      BY <1>2
    <2> DEFINE g == items[k].frame
    <2>2. <<>> \in Seq(F)
      OBVIOUS
    <2>3. g \in F => <<g>> \in Seq(F)
      <3> HIDE DEF g
      <3> QED OBVIOUS
    <2> QED BY <2>1, <2>2, <2>3
  <1> HIDE DEF Kept
  <1>5. q \in Seq(Seq(F))
    BY <1>3, <1>4
  <1>6. FlattenSeq(q) \in Seq(F)
    BY <1>5, FlattenTyped
  <1> QED BY <1>6 DEF UndamagedOf, Kept

-----------------------------------------------------------------------------
(* Damage to the stored file *)

\* Checksums and damaged symbols are symbols.
IntegerSymbols ==
  /\ \A s \in Seq(Int) : Crc(s) \in Int
  /\ \A b \in Int : SymbolXor(b, CorruptionXorMask) \in Int

LEMMA WireIsInt ==
  ASSUME IntegerSymbols
  PROVE  Wire = Int /\ Symbol = Int
  <1>1. Symbol = Int
    BY DEF IntegerSymbols, Symbol
  <1> QED BY <1>1 DEF IntegerSymbols, Wire

WholeFile(items) == FileFor(items, Len(items))

\* The number of symbols before entry j.
Begin(items, j) == Len(FileFor(items, j - 1))

LEMMA EntryPlace ==
  ASSUME NEW items \in Seq(SentItems), NEW j \in 1..Len(items)
  PROVE  /\ items[j] \in SentItems /\ items[j].bytes \in Seq(Wire)
         /\ Begin(items, j) \in Nat
         /\ Begin(items, j + 1) = Begin(items, j) + 2 + Len(items[j].bytes)
         /\ Begin(items, j + 1) <= Len(WholeFile(items))
         /\ WholeFile(items)[Begin(items, j) + 1] = Len(items[j].bytes) \div LengthBase
         /\ WholeFile(items)[Begin(items, j) + 2] = Len(items[j].bytes) % LengthBase
         /\ \A i \in 1..Len(items[j].bytes) : WholeFile(items)[Begin(items, j) + 2 + i] = items[j].bytes[i]
  <1> DEFINE l == Len(items)
             n == j - 1
             b == items[j].bytes
             e == Entry(b)
             F == FileFor(items, n)
             G == FileFor(items, j)
             W == FileFor(items, l)
             p == Len(F)
             k == Len(b)
  <1>1. l \in Nat /\ j \in 1..l
    OBVIOUS
  <1> HIDE DEF l
  <1>2. n \in 0..l /\ n < l /\ n + 1 = j /\ j \in 0..l /\ j \in 1..l /\ l \in 0..l /\ j \in 0..j /\ j \in 0..l
    BY <1>1
  <1> HIDE DEF n
  <1>3. /\ items[j] \in SentItems
        /\ G = F \o e
        /\ Len(G) = p + 2 + k
    BY <1>2, FileStep DEF l
  <1>4. b \in Seq(Wire) /\ k \in Nat
    BY <1>3, SentFacts
  <1>5. e \in Seq(Wire) /\ Len(e) = k + 2 /\ \A i \in 1..k : e[2 + i] = b[i]
    BY <1>4, EntryFacts
  <1>6. F \in Seq(Wire) /\ G \in Seq(Wire) /\ W \in Seq(Wire) /\ IsPrefix(G, W)
    BY <1>2, FileFacts DEF l
  <1>7. e[1] = k \div LengthBase /\ e[2] = k % LengthBase
    <2> DEFINE f == LengthField(k)
    <2>1. k \div LengthBase \in Int /\ k % LengthBase \in Int
      BY <1>4, ReplayAssumption
    <2>2. f \in Seq(Wire) /\ Len(f) = 2 /\ f[1] = k \div LengthBase /\ f[2] = k % LengthBase
      BY <2>1 DEF LengthField, Wire, Symbol
    <2>3. e = f \o b
      BY DEF Entry
    <2> HIDE DEF f, b, e, k
    <2>4. f \in Seq(Wire) /\ b \in Seq(Wire)
      BY <1>4, <2>2
    <2>5. \A i \in 1..Len(f) : (f \o b)[i] = f[i]
      BY <2>4
    <2>6. 1 \in 1..Len(f) /\ 2 \in 1..Len(f)
      BY <2>2
    <2>7. e[1] = f[1] /\ e[2] = f[2]
      BY <2>3, <2>5, <2>6
    <2> QED BY <2>2, <2>7, Zenon
  <1> HIDE DEF b, e, F, G, W, k
  <1>8. p \in Nat
    BY <1>6
  <1>9. \A i \in 1..(k + 2) : G[p + i] = e[i]
    <2>1. F \in Seq(Wire) /\ e \in Seq(Wire)
      BY <1>5, <1>6
    <2>2. \A i \in 1..Len(e) : (F \o e)[Len(F) + i] = e[i]
      BY <2>1
    <2> QED BY <1>3, <1>5, <2>2
  <1>10. Len(G) <= Len(W) /\ \A i \in 1..Len(G) : G[i] = W[i]
    BY <1>6, PrefixFacts
  <1> HIDE DEF p
  <1>11. ASSUME NEW i \in 1..(k + 2) PROVE W[p + i] = e[i]
    <2>1. p + i \in 1..Len(G)
      BY <1>3, <1>4, <1>8
    <2> QED BY <1>9, <1>10, <2>1
  <1>12. W[p + 1] = e[1] /\ W[p + 2] = e[2]
    BY <1>4, <1>11
  <1>13. ASSUME NEW i \in 1..k PROVE W[p + 2 + i] = b[i]
    <2>1. 2 + i \in 1..(k + 2) /\ p + (2 + i) = p + 2 + i
      BY <1>4, <1>8
    <2> QED BY <1>5, <1>11, <2>1
  <1>14. Begin(items, j) = p /\ Begin(items, j + 1) = Len(G) /\ WholeFile(items) = W
    <2>1. (j + 1) - 1 = j
      BY <1>2
    <2> QED BY <2>1 DEF Begin, WholeFile, F, G, W, p, n, l
  <1> QED BY <1>3, <1>4, <1>7, <1>8, <1>10, <1>12, <1>13, <1>14 DEF b, k

\* Entries do not overlap.
LEMMA PlaceOrder ==
  ASSUME NEW items \in Seq(SentItems), NEW i \in 1..Len(items), NEW j \in 1..Len(items), i < j
  PROVE  Begin(items, i + 1) <= Begin(items, j)
  <1> DEFINE l == Len(items)
             n == j - 1
             F == FileFor(items, i)
             G == FileFor(items, n)
  <1>1. l \in Nat /\ i \in 1..l /\ j \in 1..l /\ i < j
    OBVIOUS
  <1> HIDE DEF l
  <1>2. n \in 0..l /\ i \in 0..n /\ i \in 0..l /\ (i + 1) - 1 = i
    BY <1>1
  <1> HIDE DEF n
  <1>3. F \in Seq(Wire) /\ G \in Seq(Wire) /\ IsPrefix(F, G)
    BY <1>2, FileFacts DEF l
  <1>4. Len(F) <= Len(G)
    BY <1>3, PrefixFacts
  <1> QED BY <1>2, <1>4 DEF Begin, n

\* The file of a run, one symbol of which has changed.
OneChanged(items, file, k) ==
  /\ file \in Seq(Int) /\ Len(file) = Len(WholeFile(items)) /\ k \in 1..Len(file)
  /\ file[k] = SymbolXor(WholeFile(items)[k], CorruptionXorMask)
  /\ \A i \in 1..Len(file) \ {k} : file[i] = WholeFile(items)[i]

LEMMA ChangedFacts ==
  ASSUME IntegerSymbols, NEW items \in Seq(SentItems), NEW k \in DOMAIN WholeFile(items)
  PROVE  OneChanged(items, Corrupt(WholeFile(items), k), k)
  <1> DEFINE W == WholeFile(items)
             l == Len(items)
             d == Corrupt(W, k)
  <1>1. l \in 0..l
    <2>1. l \in Nat
      OBVIOUS
    <2> HIDE DEF l
    <2> QED BY <2>1
  <1>2. W \in Seq(Wire)
    BY <1>1, FileFacts DEF WholeFile
  <1>3. W \in Seq(Symbol) /\ Wire = Int
    BY <1>2, WireIsInt
  <1> HIDE DEF W
  <1>4. /\ d \in Seq(Wire) /\ Len(d) = Len(W)
        /\ d[k] = SymbolXor(W[k], CorruptionXorMask)
        /\ \A i \in 1..Len(W) \ {k} : d[i] = W[i]
    BY <1>3, CorruptFacts DEF W
  <1>5. k \in 1..Len(W)
    BY <1>3 DEF W
  <1> QED BY <1>3, <1>4, <1>5, Zenon DEF OneChanged, W

\* The damage left the lengths of all entries as they were written.
LengthsKept(items, file) ==
  \A j \in DOMAIN items :
    /\ file[Begin(items, j) + 1] = Len(items[j].bytes) \div LengthBase
    /\ file[Begin(items, j) + 2] = Len(items[j].bytes) % LengthBase

\* The magic stands at position q.
MagicStands(file, q) ==
  /\ q + MagicSize - 1 <= Len(file)
  /\ \A i \in 1..MagicSize : file[q + i - 1] = FrameMagic[i]

\* No magic stands anywhere but at the beginning of a stored frame.
MagicOnlyAtFrames(items, file) ==
  \A q \in 1..Len(file) :
    MagicStands(file, q) => \E j \in DOMAIN items : q = Begin(items, j) + ReplayLengthFieldSize + 1

\* A result that is accepted is a frame that was sent and left alone.
Honest(items, d) ==
  d.ok => \E j \in DOMAIN items : items[j].damage = 0 /\ d.frame = items[j].frame

Clean(items) == \A j \in DOMAIN items : items[j].damage = 0

LengthAt(file, pos) == file[pos + 1] * LengthBase + file[pos + 2]

\* r is the frame of that length behind pos.
Reads(r, file, pos, length) ==
  /\ length \in Nat /\ length >= MinFrameSize
  /\ r.next = pos + 2 + length /\ pos + 2 + length <= Len(file)
  /\ r.bytes \in Seq(Int) /\ Len(r.bytes) = length
  /\ \A i \in 1..length : r.bytes[i] = file[pos + 2 + i]

\* What readNext takes for a frame, in any file and at any place.
LEMMA ReadAnywhere ==
  ASSUME NEW file \in Seq(Int), NEW pos \in Nat, pos <= Len(file),
         NEW r, r = ReadNext(file, pos), r.result = "frame"
  PROVE  Reads(r, file, pos, LengthAt(file, pos))
  <1> DEFINE size == Len(file)
             left == size - pos
             length == LengthAt(file, pos)
  <1>0. length = file[pos + 1] * LengthBase + file[pos + 2]
    BY DEF LengthAt
  <1> HIDE DEF length
  <1>1. size \in Nat
    OBVIOUS
  <1>2. r = IF left = 0 THEN ReadEnds("nullopt")
            ELSE IF left < 2 THEN ReadEnds("throw")
            ELSE IF ~LegalEntryLength(length) THEN ReadEnds("throw")
            ELSE IF left < 2 + length THEN ReadEnds("throw")
            ELSE [result |-> "frame", next |-> (pos + 2) + length,
                  bytes  |-> SubSeq(file, (pos + 2) + 1, (pos + 2) + length)]
    BY <1>0 DEF ReadNext, ReplayLengthFieldSize
  <1> DEFINE a == left = 0
             c == left < 2
             d == ~LegalEntryLength(length)
             z == left < 2 + length
             u == (pos + 2) + 1
             v == (pos + 2) + length
             t == SubSeq(file, u, v)
             frame == [result |-> "frame", next |-> v, bytes  |-> t]
             null == ReadEnds("nullopt")
             throw == ReadEnds("throw")
  <1>3. r = IF a THEN null ELSE IF c THEN throw ELSE IF d THEN throw ELSE IF z THEN throw ELSE frame
    BY <1>2
  <1>4. null.result = "nullopt" /\ throw.result = "throw"
    BY DEF ReadEnds
  <1>5. frame.next = v /\ frame.bytes = t
    OBVIOUS
  <1> HIDE DEF a, c, d, z, frame, null, throw
  <1>6. ~c /\ ~d /\ ~z /\ r = frame
    <2>1. r.result = "frame"
      OBVIOUS
    <2> QED BY <1>3, <1>4, <2>1
  <1>7. r.next = v /\ r.bytes = t
    BY <1>5, <1>6
  <1>8. ~(left < 2) /\ LegalEntryLength(length) /\ ~(left < 2 + length)
    BY <1>6 DEF c, d, z
  <1>9. pos + 2 <= size
    <2>1. ~(left < 2)
      BY <1>8
    <2> HIDE DEF size
    <2> QED BY <1>1, <2>1
  <1>10. length \in Int
    <2>1. pos + 1 \in 1..size /\ pos + 2 \in 1..size
      <3> HIDE DEF size
      <3> QED BY <1>1, <1>9
    <2> DEFINE x == file[pos + 1]
               y == file[pos + 2]
    <2>2. x \in Int /\ y \in Int
      BY <2>1
    <2> HIDE DEF x, y
    <2>3. x * LengthBase + y \in Int
      BY <2>2, ReplayAssumption
    <2> QED BY <1>0, <2>3 DEF x, y
  <1>11. length \in Nat /\ length >= MinFrameSize
    <2>1. length >= MinFrameSize
      BY <1>8 DEF LegalEntryLength
    <2>2. MinFrameSize \in Nat
      BY LayoutFacts
    <2> QED BY <1>10, <2>1, <2>2
  <1>12. v <= size
    <2>1. ~(left < 2 + length)
      BY <1>8
    <2> HIDE DEF size
    <2> QED BY <1>1, <1>11, <2>1
  <1>13. u \in 1..(size + 1) /\ v \in (u - 1)..size /\ u \in Int /\ v \in Int /\ v - u + 1 = length
    <2> HIDE DEF size
    <2> QED BY <1>1, <1>11, <1>12
  <1>14. \A i \in u..v : file[i] \in Int
    <2>1. \A i \in 1..size : file[i] \in Int
      OBVIOUS
    <2>2. \A i \in u..v : i \in 1..size
      <3> HIDE DEF size, u, v
      <3> QED BY <1>1, <1>13
    <2> QED BY <2>1, <2>2
  <1>15. t \in Seq(Int) /\ Len(t) = (IF u <= v THEN v - u + 1 ELSE 0)
         /\ \A i \in 1..(v - u + 1) : t[i] = file[u + i - 1]
    <2> HIDE DEF u, v
    <2> QED BY <1>13, <1>14, SubSeqProperties DEF size
  <1> HIDE DEF t
  <1>16. Len(t) = length
    <2> HIDE DEF size
    <2> QED BY <1>11, <1>13, <1>15
  <1>17. ASSUME NEW i \in 1..length PROVE t[i] = file[pos + 2 + i]
    <2>1. u + i - 1 = pos + 2 + i
      OBVIOUS
    <2> HIDE DEF u, v
    <2> QED BY <1>13, <1>15, <2>1
  <1> QED BY <1>7, <1>11, <1>12, <1>15, <1>16, <1>17 DEF size, v, Reads, length

\* While the lengths are intact the reader stays between two entries, and the entry
\* that holds the damage is refused.
LEMMA ReadAligned ==
  ASSUME CrcDetects, IntegerSymbols, NEW items \in Seq(SentItems), Clean(items),
         NEW file, NEW k, OneChanged(items, file, k), LengthsKept(items, file),
         NEW j \in 1..(Len(items) + 1), NEW r, r = ReadNext(file, Begin(items, j)), r.result = "frame"
  PROVE  /\ j \in 1..Len(items)
         /\ r.next = Begin(items, j + 1)
         /\ Honest(items, DecodeFrame(r.bytes))
  <1> DEFINE l == Len(items)
             W == WholeFile(items)
             p == Begin(items, j)
             x == items[j]
             b == x.bytes
             n == Len(b)
  <1>1. l \in Nat /\ j \in 1..(l + 1)
    OBVIOUS
  <1>2. /\ file \in Seq(Int) /\ Len(file) = Len(W) /\ k \in 1..Len(file)
        /\ file[k] = SymbolXor(W[k], CorruptionXorMask)
        /\ \A i \in 1..Len(file) \ {k} : file[i] = W[i]
    BY DEF OneChanged
  <1>3. j \in 1..l
    <2> SUFFICES ASSUME j \notin 1..l PROVE FALSE
      OBVIOUS
    <2>1. j - 1 = l
      <3> HIDE DEF l
      <3> QED BY <1>1
    <2>2. p = Len(file)
      BY <1>2, <2>1 DEF Begin, WholeFile
    <2>3. Len(file) - p = 0
      <3>1. Len(file) \in Nat
        BY <1>2
      <3> QED BY <2>2, <3>1
    <2>4. r = ReadEnds("nullopt")
      BY <2>3 DEF ReadNext
    <2> QED BY <2>4 DEF ReadEnds
  <1>4. /\ x \in SentItems /\ b \in Seq(Wire) /\ p \in Nat
        /\ Begin(items, j + 1) = p + 2 + n
        /\ Begin(items, j + 1) <= Len(W)
        /\ \A i \in 1..n : W[p + 2 + i] = b[i]
    BY <1>3, EntryPlace
  <1>5. n \in Nat
    BY <1>4
  <1> DEFINE length == LengthAt(file, p)
  <1>6. length = n
    <2>1. file[p + 1] = n \div LengthBase /\ file[p + 2] = n % LengthBase
      BY <1>3 DEF LengthsKept
    <2>2. (n \div LengthBase) * LengthBase + (n % LengthBase) = n
      <3> HIDE DEF n
      <3> QED BY <1>5, ReplayAssumption
    <2> QED BY <2>1, <2>2, Zenon DEF LengthAt
  <1>7. p <= Len(file) /\ Len(file) \in Nat /\ p + 2 + n <= Len(file)
    <2> DEFINE s == Len(file)
    <2>1. s \in Nat /\ p + 2 + n <= s /\ p \in Nat
      BY <1>2, <1>4
    <2> HIDE DEF s, p, n
    <2>2. p <= s
      BY <1>5, <2>1
    <2> QED BY <2>1, <2>2 DEF s
  <1>8. r = ReadNext(file, p) /\ r.result = "frame"
    OBVIOUS
  <1> HIDE DEF W, p, x, n
  <1>9. /\ r.next = p + 2 + length
        /\ r.bytes \in Seq(Int) /\ Len(r.bytes) = length
        /\ \A i \in 1..length : r.bytes[i] = file[p + 2 + i]
    <2>1. file \in Seq(Int) /\ p \in Nat /\ p <= Len(file)
      BY <1>2, <1>4, <1>7
    <2>2. Reads(r, file, p, LengthAt(file, p))
      BY <1>8, <2>1, ReadAnywhere
    <2> QED BY <2>2 DEF Reads
  <1> HIDE DEF length, b
  <1> DEFINE t == r.bytes
  <1>10. /\ r.next = Begin(items, j + 1)
         /\ t \in Seq(Int) /\ Len(t) = n
         /\ \A i \in 1..n : t[i] = file[p + 2 + i]
    BY <1>4, <1>6, <1>9
  <1> HIDE DEF t
  <1>11. b \in Seq(Int) /\ Len(b) = n
    BY <1>4, WireIsInt DEF n
  <1>12. /\ x.frame \in Frames /\ Encodable(x.frame) /\ x.damage = 0 /\ b = EncodeFrame(x.frame)
    <2>1. x.damage = 0
      BY <1>3 DEF Clean, x
    <2> QED BY <1>4, <2>1, SentFacts DEF b
  <1>13. CASE k \notin (p + 2 + 1)..(p + 2 + n)
    <2>1. ASSUME NEW i \in 1..n PROVE t[i] = b[i]
      <3>0. p \in Nat /\ n \in Nat /\ Len(file) \in Nat /\ p + 2 + n <= Len(file)
        BY <1>4, <1>5, <1>7
      <3>a. p + 2 + i \in 1..Len(file) /\ p + 2 + i \in (p + 2 + 1)..(p + 2 + n)
        BY <3>0
      <3>1. p + 2 + i \in 1..Len(file) \ {k}
        BY <1>13, <3>a
      <3> QED BY <1>2, <1>4, <1>10, <3>1
    <2>2. t = b
      BY <1>10, <1>11, <2>1
    <2>3. DecodeFrame(t) = [ok |-> TRUE, frame |-> x.frame]
      BY <1>12, <2>2, RoundTrip
    <2>4. Honest(items, DecodeFrame(t))
      <3>1. DecodeFrame(t).frame = items[j].frame /\ items[j].damage = 0 /\ j \in DOMAIN items
        BY <1>3, <1>12, <2>3 DEF x
      <3> QED BY <3>1 DEF Honest
    <2> QED BY <1>3, <1>10, <2>4 DEF t
  <1>14. CASE k \in (p + 2 + 1)..(p + 2 + n)
    <2> DEFINE m == k - (p + 2)
               c == Corrupt(b, m)
    <2>1. m \in 1..n /\ p + 2 + m = k
      BY <1>4, <1>5, <1>14
    <2> HIDE DEF m
    <2>2. /\ c \in Seq(Wire) /\ Len(c) = n
          /\ c[m] = SymbolXor(b[m], CorruptionXorMask)
          /\ \A i \in 1..n \ {m} : c[i] = b[i]
      <3>1. b \in Seq(Symbol) /\ m \in DOMAIN b
        BY <1>11, <2>1, WireIsInt
      <3> QED BY <1>11, <3>1, CorruptFacts
    <2>3. c \in Seq(Int)
      BY <2>2, WireIsInt
    <2> HIDE DEF c
    <2>4. ASSUME NEW i \in 1..n PROVE t[i] = c[i]
      <3>1. CASE i = m
        <4>1. t[i] = file[k] /\ W[k] = b[m]
          BY <1>4, <1>10, <2>1, <3>1
        <4> QED BY <1>2, <2>2, <3>1, <4>1
      <3>2. CASE i # m
        <4>1. p + 2 + i \in 1..Len(file) \ {k}
          <5>1. p \in Nat /\ n \in Nat /\ Len(file) \in Nat /\ p + 2 + n <= Len(file)
            BY <1>4, <1>5, <1>7
          <5>2. p + 2 + i \in 1..Len(file)
            BY <5>1
          <5>3. p + 2 + i # k
            BY <2>1, <3>2, <5>1
          <5> QED BY <5>2, <5>3
        <4>2. i \in 1..n \ {m}
          BY <3>2
        <4>3. t[i] = file[p + 2 + i] /\ file[p + 2 + i] = W[p + 2 + i] /\ W[p + 2 + i] = b[i]
          BY <1>2, <1>4, <1>10, <4>1
        <4> QED BY <2>2, <4>2, <4>3
      <3> QED BY <3>1, <3>2
    <2>5. t = c
      BY <1>10, <2>2, <2>3, <2>4
    <2>6. m \in DOMAIN EncodeFrame(x.frame)
      BY <1>11, <1>12, <2>1
    <2>7. ~DecodeFrame(t).ok
      BY <1>12, <2>5, <2>6, DamagedIsRefused DEF c
    <2>8. Honest(items, DecodeFrame(t))
      BY <2>7 DEF Honest
    <2> QED BY <1>3, <1>10, <2>8 DEF t
  <1> QED BY <1>13, <1>14

\* decodeFrame accepts bytes only if they begin with the magic and are as long as
\* their header says.
LEMMA AcceptedShape ==
  ASSUME NEW b, DecodeFrame(b).ok
  PROVE  /\ SubSeq(b, 1, MagicSize) = FrameMagic
         /\ Len(b) = HeaderSize + b[PayloadLengthOffset] + CrcSize
  <1> DEFINE checks == DecodeChecks(b)
             failed == {i \in DOMAIN checks : checks[i].fails}
  <1>1. \A code : ~Rejected(code).ok
    BY DEF Rejected
  <1>2. failed = {}
    <2> SUFFICES ASSUME failed # {} PROVE FALSE
      OBVIOUS
    <2>1. CASE Len(b) < MinFrameSize
      BY <1>1, <2>1 DEF DecodeFrame
    <2>2. CASE ~(Len(b) < MinFrameSize)
      <3> HIDE DEF checks, failed
      <3>1. DecodeFrame(b) = Rejected(checks[CHOOSE j \in failed : \A i \in failed : j <= i].code)
        BY <2>2 DEF DecodeFrame, checks, failed
      <3> QED BY <1>1, <3>1
    <2> QED BY <2>1, <2>2
  <1>3. 1 \in DOMAIN checks /\ 4 \in DOMAIN checks
    BY DEF DecodeChecks
  <1>4. ~checks[1].fails /\ ~checks[4].fails
    BY <1>2, <1>3
  <1>5. /\ checks[1].fails = (SubSeq(b, 1, MagicSize) # FrameMagic)
        /\ checks[4].fails = (Len(b) # HeaderSize + b[PayloadLengthOffset] + CrcSize)
    BY DEF DecodeChecks
  <1> QED BY <1>4, <1>5

\* A length that changed, and a magic at the beginning of the frames only: wherever
\* the reader has come to stand, what is accepted is a stored frame.
LEMMA ReadAstray ==
  ASSUME IntegerSymbols, NEW items \in Seq(SentItems), Clean(items),
         NEW file, NEW k, OneChanged(items, file, k),
         ~LengthsKept(items, file), MagicOnlyAtFrames(items, file),
         NEW pos \in Nat, pos <= Len(file), NEW r, r = ReadNext(file, pos), r.result = "frame"
  PROVE  Honest(items, DecodeFrame(r.bytes))
  <1> DEFINE t == r.bytes
  <1> SUFFICES ASSUME DecodeFrame(t).ok
               PROVE  \E j \in DOMAIN items : items[j].damage = 0 /\ DecodeFrame(t).frame = items[j].frame
    BY DEF Honest
  <1> DEFINE W == WholeFile(items)
             size == Len(file)
             length == LengthAt(file, pos)
             q == pos + 3
  <1>1. /\ file \in Seq(Int) /\ size = Len(W) /\ k \in 1..size
        /\ \A i \in 1..size \ {k} : file[i] = W[i]
    BY DEF OneChanged
  <1>2. size \in Nat
    BY <1>1
  <1>3. /\ length \in Nat /\ length >= MinFrameSize
        /\ pos + 2 + length <= size
        /\ t \in Seq(Int) /\ Len(t) = length
        /\ \A i \in 1..length : t[i] = file[pos + 2 + i]
    <2>1. file \in Seq(Int) /\ pos <= Len(file) /\ r = ReadNext(file, pos) /\ r.result = "frame"
      BY <1>1
    <2>2. Reads(r, file, pos, LengthAt(file, pos))
      BY <2>1, ReadAnywhere
    <2> QED BY <2>2 DEF Reads
  <1> HIDE DEF length, t, size
  <1>4. /\ SubSeq(t, 1, MagicSize) = FrameMagic
        /\ length = HeaderSize + t[PayloadLengthOffset] + CrcSize
    BY <1>3, AcceptedShape
  <1>5. /\ MagicSize \in Nat \ {0} /\ MinFrameSize = MagicSize + 8 /\ HeaderSize = MagicSize + 7
        /\ PayloadLengthOffset = MagicSize + 7 /\ CrcSize = 1
    BY LayoutFacts DEF PayloadLengthOffset
  <1>6. MagicStands(file, q)
    <2>1. q + MagicSize - 1 <= size
      BY <1>2, <1>3, <1>5
    <2>2. ASSUME NEW i \in 1..MagicSize PROVE file[q + i - 1] = FrameMagic[i]
      <3>1. MagicSize \in Nat /\ MagicSize <= Len(t)
        BY <1>3, <1>5
      <3>2. SubSeq(t, 1, MagicSize)[i] = t[i]
        <4>1. t \in Seq(Int)
          BY <1>3
        <4> QED BY <3>1, <4>1
      <3>3. i \in 1..length /\ pos + 2 + i = q + i - 1
        BY <1>3, <1>5
      <3> QED BY <1>3, <1>4, <3>2, <3>3
    <2> QED BY <2>1, <2>2 DEF MagicStands, size
  <1>7. q \in 1..size
    BY <1>2, <1>3, <1>5
  <1>8. PICK j \in DOMAIN items : q = Begin(items, j) + ReplayLengthFieldSize + 1
    BY <1>6, <1>7 DEF MagicOnlyAtFrames, size
  <1> DEFINE p == Begin(items, j)
             x == items[j]
             b == x.bytes
             n == Len(b)
  <1>9. j \in 1..Len(items)
    BY <1>8
  <1>10. /\ x \in SentItems /\ b \in Seq(Wire) /\ p \in Nat
         /\ Begin(items, j + 1) = p + 2 + n
         /\ Begin(items, j + 1) <= Len(W)
         /\ \A i \in 1..n : W[p + 2 + i] = b[i]
    BY <1>9, EntryPlace
  <1>11. b \in Seq(Int) /\ n \in Nat
    BY <1>10, WireIsInt
  <1>12. p = pos
    <2>1. p \in Nat /\ q = p + 2 + 1
      BY <1>8, <1>10 DEF ReplayLengthFieldSize
    <2> HIDE DEF p
    <2> QED BY <2>1
  <1> HIDE DEF W, p, x, b, n
  \* The damage is in another place.
  <1>13. \A i \in 1..n : p + 2 + i # k
    <2>1. PICK g \in 1..Len(items) :
            \/ file[Begin(items, g) + 1] # Len(items[g].bytes) \div LengthBase
            \/ file[Begin(items, g) + 2] # Len(items[g].bytes) % LengthBase
      BY DEF LengthsKept
    <2> DEFINE o == Begin(items, g)
               m == Len(items[g].bytes)
    <2>2. /\ o \in Nat /\ Begin(items, g + 1) = o + 2 + m /\ Begin(items, g + 1) <= Len(W)
          /\ W[o + 1] = m \div LengthBase /\ W[o + 2] = m % LengthBase
          /\ items[g].bytes \in Seq(Wire)
      BY EntryPlace DEF W
    <2>3. m \in Nat
      BY <2>2
    <2>4. file[o + 1] # W[o + 1] \/ file[o + 2] # W[o + 2]
      BY <2>1, <2>2
    <2> HIDE DEF o, m
    <2>5. o + 1 \in 1..size /\ o + 2 \in 1..size
      BY <1>1, <1>2, <2>2, <2>3
    <2>6. k = o + 1 \/ k = o + 2
      BY <1>1, <2>4, <2>5
    <2>7. CASE g = j
      <3>1. o = p
        BY <2>7 DEF o, p
      <3> QED BY <1>10, <2>2, <2>6, <3>1
    <2>8. CASE g < j
      <3>1. o + 2 + m <= p
        BY <1>9, <2>2, <2>8, PlaceOrder DEF p
      <3> QED BY <1>10, <2>2, <2>3, <2>6, <3>1
    <2>9. CASE j < g
      <3>1. p + 2 + n <= o
        BY <1>9, <1>10, <2>9, PlaceOrder DEF o
      <3>2. p \in Nat /\ n \in Nat /\ o \in Nat
        BY <1>10, <1>11, <2>2
      <3> QED BY <2>6, <3>1, <3>2
    <2>10. g = j \/ g < j \/ j < g
      BY <1>9
    <2> QED BY <2>7, <2>8, <2>9, <2>10
  <1>14. ASSUME NEW i \in 1..n PROVE file[p + 2 + i] = b[i]
    <2>1. p + 2 + i \in 1..size
      BY <1>1, <1>2, <1>10, <1>11
    <2>2. p + 2 + i \in 1..size \ {k}
      BY <1>13, <2>1
    <2> QED BY <1>1, <1>10, <2>2
  <1>15. /\ x.frame \in Frames /\ Encodable(x.frame) /\ x.damage = 0 /\ b = EncodeFrame(x.frame)
         /\ LegalEntryLength(n)
    <2>1. x.damage = 0
      BY <1>8 DEF Clean, x
    <2> QED BY <1>10, <2>1, SentFacts DEF b, n
  <1>16. b[PayloadLengthOffset] = n - 1 - HeaderSize
    <2> DEFINE f == x.frame
               y == FrameBody(f)
               e == EncodeFrame(f)
               v == Len(f.payload)
    <2>1. Len(y) = HeaderSize + v /\ y[PayloadLengthOffset] = v
      BY <1>15, BodyFacts
    <2>2. v \in Nat
      BY <1>15 DEF Frames
    <2>3. Len(e) = Len(y) + 1 /\ \A i \in 1..Len(y) : e[i] = y[i]
      BY <1>15, EncodeFacts
    <2>4. n = Len(e)
      BY <1>15 DEF n
    <2> DEFINE h == Len(y)
    <2>5. h = HeaderSize + v /\ n = h + 1 /\ PayloadLengthOffset \in 1..h
      <3>1. h = HeaderSize + v /\ n = h + 1
        BY <2>1, <2>3, <2>4
      <3> HIDE DEF h, v
      <3> QED BY <1>5, <2>2, <3>1
    <2>6. b[PayloadLengthOffset] = v
      BY <1>15, <2>1, <2>3, <2>5
    <2> HIDE DEF h, v
    <2> QED BY <1>5, <2>2, <2>5, <2>6
  <1>17. length = n
    <2>1. PayloadLengthOffset \in 1..length
      BY <1>3, <1>5
    <2>2. PayloadLengthOffset \in 1..n
      <3>1. n >= MinFrameSize
        BY <1>15 DEF LegalEntryLength
      <3> QED BY <1>5, <1>11, <3>1
    <2>3. t[PayloadLengthOffset] = b[PayloadLengthOffset]
      BY <1>3, <1>12, <1>14, <2>1, <2>2
    <2> QED BY <1>4, <1>5, <1>11, <1>16, <2>3
  <1>18. t = b
    <2>1. \A i \in 1..n : t[i] = b[i]
      BY <1>3, <1>12, <1>14, <1>17
    <2>2. Len(t) = Len(b) /\ \A i \in 1..Len(t) : t[i] = b[i]
      BY <1>3, <1>17, <2>1 DEF n
    <2>3. t \in Seq(Int) /\ b \in Seq(Int)
      BY <1>3, <1>11
    <2> QED BY <2>2, <2>3, SeqEqual
  <1>19. DecodeFrame(t) = [ok |-> TRUE, frame |-> x.frame]
    BY <1>15, <1>18, RoundTrip
  <1>20. DecodeFrame(t).frame = x.frame
    BY <1>19
  <1> QED BY <1>8, <1>15, <1>20 DEF x

\* Before the replay begins nothing is read or exported, and a run whose radio
\* damaged nothing sent only whole frames.
CleanInv ==
  /\ simStats \in [produced : Nat, dropped : Nat, corrupted : Nat]
  /\ simStats.corrupted = 0 => Clean(sent)
  /\ stPc \in {"off", "opened"} => backlog = <<>> /\ rows = <<>>

LEMMA CleanInit == Init => CleanInv
  <1> SUFFICES ASSUME Init PROVE CleanInv
    OBVIOUS
  <1>1. simStats = [produced |-> 0, dropped |-> 0, corrupted |-> 0] /\ sent = <<>>
        /\ backlog = <<>> /\ rows = <<>>
    BY DEF Init, SimInit
  <1>2. Clean(sent)
    BY <1>1 DEF Clean
  <1> QED BY <1>1, <1>2 DEF CleanInv

LEMMA CleanAppend ==
  ASSUME NEW items \in Seq(SentItems), Clean(items), NEW x \in SentItems, x.damage = 0
  PROVE  Clean(Append(items, x))
  <1> DEFINE l == Len(items)
             q == Append(items, x)
  <1>1. /\ l \in Nat /\ q \in Seq(SentItems) /\ Len(q) = l + 1
        /\ \A j \in 1..l : q[j] = items[j]
        /\ q[l + 1] = x
    OBVIOUS
  <1>2. \A j \in 1..l : items[j].damage = 0
    BY DEF Clean
  <1>3. DOMAIN q = 1..(l + 1)
    BY <1>1
  <1> HIDE DEF q, l
  <1>4. ASSUME NEW j \in 1..(l + 1) PROVE q[j].damage = 0
    <2>1. j \in 1..l \/ j = l + 1
      BY <1>1
    <2> QED BY <1>1, <1>2, <2>1
  <1> QED BY <1>3, <1>4 DEF Clean, q

LEMMA CleanStep == SimInv /\ CleanInv /\ [Next]_vars => CleanInv'
  <1> SUFFICES ASSUME SimInv, CleanInv, [Next]_vars PROVE CleanInv'
    OBVIOUS
  <1>0. /\ sent \in Seq(SentItems) /\ simStats \in [produced : Nat, dropped : Nat, corrupted : Nat]
        /\ simStats.corrupted = 0 => Clean(sent)
        /\ stPc \in {"off", "opened"} => backlog = <<>> /\ rows = <<>>
        /\ stPc # "off" => simPc \in Ended
    BY DEF SimInv, CleanInv
  <1>1. CASE SimulatorStep
    <2>0. UNCHANGED <<stPc, backlog, rows>>
      BY <1>1 DEF SimulatorStep, stationVars
    <2>1. CASE TransmitFrame
      <3>1. PICK f \in FramesOf(simIndex) : Encodable(f) /\ Transmit(f, EncodeFrame(f), 0)
        BY <2>1 DEF TransmitFrame
      <3> DEFINE x == [frame |-> f, bytes |-> EncodeFrame(f), damage |-> 0]
      <3>2. sent' = Append(sent, x) /\ simStats' = simStats
        BY <2>1, <3>1 DEF Transmit, TransmitFrame
      <3>3. x \in SentItems
        <4>1. PICK y \in SentItems : sent' = Append(sent, y)
          BY <2>1, TransmitFacts DEF SimInv
        <4>2. Append(sent, x) = Append(sent, y)
          BY <3>2, <4>1
        <4> DEFINE l == Len(sent) + 1
        <4>3. Append(sent, x)[l] = x /\ Append(sent, y)[l] = y
          BY <1>0
        <4> QED BY <4>2, <4>3
      <3>4. x.damage = 0
        OBVIOUS
      <3> HIDE DEF x
      <3>5. simStats.corrupted = 0 => Clean(sent')
        BY <1>0, <3>2, <3>3, <3>4, CleanAppend
      <3> QED BY <1>0, <2>0, <3>2, <3>5 DEF CleanInv
    <2>2. CASE TransmitDamagedFrame
      <3>1. simStats' = [simStats EXCEPT !.corrupted = @ + 1]
        BY <2>2 DEF TransmitDamagedFrame
      <3>2. simStats' \in [produced : Nat, dropped : Nat, corrupted : Nat] /\ simStats'.corrupted # 0
        BY <1>0, <3>1
      <3> QED BY <1>0, <2>0, <3>2 DEF CleanInv
    <2>3. CASE ~TransmitFrame /\ ~TransmitDamagedFrame
      <3>1. /\ sent' = sent
            /\ simStats' \in {simStats, [simStats EXCEPT !.dropped = @ + 1], [simStats EXCEPT !.produced = @ + 1]}
        BY <1>1, <2>3 DEF SimulatorStep, OpenCapture, LoseFrame, RefuseFrame, StoreFrame, FinishRun, KillSimulator
      <3>2. simStats' \in [produced : Nat, dropped : Nat, corrupted : Nat]
            /\ simStats'.corrupted = simStats.corrupted
        BY <1>0, <3>1
      <3> QED BY <1>0, <2>0, <3>1, <3>2 DEF CleanInv
    <2> QED BY <2>1, <2>2, <2>3
  <1>2. CASE ~SimulatorStep
    <2>1. UNCHANGED <<sent, simStats>>
      BY <1>2 DEF Next, vars, simVars, Rot, StartStation, OpenReplay, ReadFrame, StopReplay,
         RejectFrame, ExportFrame, WriterFails, FinishExport, GapFound, Finished
    <2>2. stPc' \in {"off", "opened"} => stPc \in {"off", "opened"} /\ UNCHANGED <<backlog, rows>>
      BY <1>2 DEF Next, vars, simVars, stationVars, Rot, StartStation, OpenReplay, InputThrows, ReadFrame, StopReplay,
         RejectFrame, ExportFrame, WriterFails, FinishExport, GapFound, Finished, WriterRuns
    <2> QED BY <1>0, <2>1, <2>2 DEF CleanInv
  <1> QED BY <1>1, <1>2

Untouched(items) == {items[j].frame : j \in {i \in DOMAIN items : items[i].damage = 0}}

HonestResults(items) == {d \in {DecodeFrame(b) : b \in Seq(Int)} : Honest(items, d)}

\* The damage did not reach the length of an entry, or no magic stands in the file
\* but where a frame begins.
Tame == LengthsKept(sent, capture.disk) \/ MagicOnlyAtFrames(sent, capture.disk)

RotOK ==
  /\ backlog \in Seq(HonestResults(sent))
  /\ rows \in Seq(Untouched(sent))
  /\ stPc = "reading" =>
       /\ readPos \in Nat /\ readPos <= Len(capture.disk)
       /\ LengthsKept(sent, capture.disk) => \E j \in 1..(Len(sent) + 1) : readPos = Begin(sent, j)

RotInv ==
  rot => /\ simPc = "done" /\ Clean(sent)
         /\ \E k : OneChanged(sent, capture.disk, k)
         /\ Tame => RotOK

LEMMA RotInit == Init => RotInv
  BY DEF Init, RotInv

\* readNext in a damaged file.
LEMMA RottenRead ==
  ASSUME CrcDetects, IntegerSymbols, SimInv, rot, RotInv, Tame, stPc = "reading",
         NEW r, r = ReadNext(capture.disk, readPos), r.result = "frame"
  PROVE  /\ DecodeFrame(r.bytes) \in HonestResults(sent)
         /\ r.next \in Nat /\ r.next <= Len(capture.disk)
         /\ LengthsKept(sent, capture.disk) => \E j \in 1..(Len(sent) + 1) : r.next = Begin(sent, j)
  <1> DEFINE file == capture.disk
             items == sent
             pos == readPos
  <1>1. items \in Seq(SentItems) /\ Clean(items)
    BY DEF SimInv, RotInv
  <1>2. PICK k : OneChanged(items, file, k)
    BY DEF RotInv
  <1>3. /\ pos \in Nat /\ pos <= Len(file)
        /\ LengthsKept(items, file) => \E j \in 1..(Len(items) + 1) : pos = Begin(items, j)
    BY DEF RotInv, RotOK
  <1>4. r = ReadNext(file, pos) /\ r.result = "frame"
    OBVIOUS
  <1>5. LengthsKept(items, file) \/ MagicOnlyAtFrames(items, file)
    BY DEF Tame
  <1> HIDE DEF file, items, pos
  <1>6. file \in Seq(Int)
    BY <1>2 DEF OneChanged
  <1>7. Reads(r, file, pos, LengthAt(file, pos))
    BY <1>3, <1>4, <1>6, ReadAnywhere
  <1>8. r.bytes \in Seq(Int) /\ r.next \in Nat /\ r.next <= Len(file)
    <2> DEFINE n == LengthAt(file, pos)
    <2>1. n \in Nat /\ r.next = pos + 2 + n /\ pos + 2 + n <= Len(file) /\ r.bytes \in Seq(Int)
      BY <1>7 DEF Reads
    <2> HIDE DEF n
    <2> QED BY <1>3, <2>1
  <1>9. CASE LengthsKept(items, file)
    <2>1. PICK j \in 1..(Len(items) + 1) : pos = Begin(items, j)
      BY <1>3, <1>9
    <2>2. j \in 1..Len(items) /\ r.next = Begin(items, j + 1) /\ Honest(items, DecodeFrame(r.bytes))
      BY <1>1, <1>2, <1>4, <1>9, <2>1, ReadAligned
    <2>3. j + 1 \in 1..(Len(items) + 1)
      <3>1. Len(items) \in Nat
        BY <1>1
      <3> QED BY <2>2, <3>1
    <2>4. DecodeFrame(r.bytes) \in HonestResults(items)
      BY <1>8, <2>2 DEF HonestResults
    <2> QED BY <1>8, <2>2, <2>3, <2>4 DEF items, file
  <1>10. CASE ~LengthsKept(items, file)
    <2>1. Honest(items, DecodeFrame(r.bytes))
      BY <1>1, <1>2, <1>3, <1>4, <1>5, <1>10, ReadAstray
    <2>2. DecodeFrame(r.bytes) \in HonestResults(items)
      BY <1>8, <2>1 DEF HonestResults
    <2> QED BY <1>8, <1>10, <2>2 DEF items, file
  <1> QED BY <1>9, <1>10

\* The one change of the file.
LEMMA RotHappens ==
  ASSUME IntegerSymbols, SimInv, CaptureInv, CleanInv, Rot
  PROVE  RotInv'
  <1>1. /\ simPc = "done" /\ stPc = "off" /\ ~rot /\ simStats.corrupted = 0
        /\ UNCHANGED <<simPc, sent, stPc, backlog, rows, readPos>>
    BY DEF Rot, stationVars
  <1>2. PICK k \in DOMAIN capture.disk : capture' = [capture EXCEPT !.disk = Corrupt(@, k)]
    BY DEF Rot
  <1>3. CaptureOK /\ sent \in Seq(SentItems) /\ Clean(sent)
    BY <1>1 DEF CaptureInv, SimInv, CleanInv
  <1>4. capture \in Streams(Wire)
    BY <1>3 DEF CaptureOK
  <1>5. capture'.disk = Corrupt(capture.disk, k)
    BY <1>2, <1>4 DEF Streams
  <1>6. options.captures
    <2> SUFFICES ASSUME ~options.captures PROVE FALSE
      OBVIOUS
    <2>1. capture.disk \in Seq(Wire) /\ capture.pending \in Seq(Wire)
      BY <1>4 DEF Streams
    <2>2. capture.disk \o capture.pending = <<>>
      BY <1>3 DEF CaptureOK, Total
    <2>3. capture.disk = <<>>
      BY <2>1, <2>2, ConcatEqualIffEmpty
    <2> QED BY <1>2, <2>3
  <1>7. capture.disk = WholeFile(sent)
    BY <1>1, <1>3, <1>6 DEF CaptureOK, WholeFile
  <1>8. OneChanged(sent, capture'.disk, k)
    BY <1>2, <1>3, <1>5, <1>7, ChangedFacts
  <1>9. backlog' = <<>> /\ rows' = <<>>
    BY <1>1 DEF CleanInv
  <1>10. backlog' \in Seq(HonestResults(sent)) /\ rows' \in Seq(Untouched(sent))
    BY <1>9
  <1>11. RotOK'
    BY <1>1, <1>10 DEF RotOK
  <1>12. \E i : OneChanged(sent', capture'.disk, i)
    BY <1>1, <1>8
  <1> QED BY <1>1, <1>3, <1>11, <1>12 DEF RotInv

\* A part of a queue, and what its head may be.
LEMMA QueueFacts ==
  ASSUME NEW S, NEW q \in Seq(S)
  PROVE  /\ \A n \in 0..Len(q) : SubSeq(q, 1, n) \in Seq(S)
         /\ q # <<>> => Head(q) \in S /\ Tail(q) \in Seq(S)
  <1>1. ASSUME NEW n \in 0..Len(q) PROVE SubSeq(q, 1, n) \in Seq(S)
    <2>1. Len(q) \in Nat
      OBVIOUS
    <2>2. \A i \in 1..n : i \in 1..Len(q)
      BY <2>1
    <2>3. \A i \in 1..n : q[i] \in S
      BY <2>2
    <2> QED BY <2>3
  <1>2. ASSUME q # <<>> PROVE Head(q) \in S /\ Tail(q) \in Seq(S)
    BY <1>2
  <1> QED BY <1>1, <1>2

LEMMA RotStep ==
  ASSUME CrcDetects, IntegerSymbols
  PROVE  SimInv /\ CaptureInv /\ CleanInv /\ RotInv /\ [Next]_vars => RotInv'
  <1> SUFFICES ASSUME SimInv, CaptureInv, CleanInv, RotInv, [Next]_vars, rot' PROVE RotInv'
    BY DEF RotInv
  <1>1. CASE Rot
    BY <1>1, RotHappens
  <1>2. CASE ~Rot
    <2>1. rot
      BY <1>2 DEF Next, vars, SimulatorStep, StartStation, OpenReplay, ReadFrame, StopReplay,
         RejectFrame, ExportFrame, WriterFails, FinishExport, GapFound, Finished
    <2>2. simPc = "done" /\ Clean(sent) /\ (\E k : OneChanged(sent, capture.disk, k)) /\ (Tame => RotOK)
      BY <2>1 DEF RotInv
    <2>3. ~SimulatorStep
      BY <2>2 DEF SimulatorStep, OpenCapture, LoseFrame, TransmitFrame, TransmitDamagedFrame, RefuseFrame,
         StoreFrame, FinishRun, KillSimulator, MoreFrames, Ended
    <2>4. UNCHANGED <<simPc, sent, capture>>
      BY <1>2, <2>3 DEF Next, vars, simVars, StartStation, OpenReplay, ReadFrame, StopReplay,
         RejectFrame, ExportFrame, WriterFails, FinishExport, GapFound, Finished
    <2>5. Tame' = Tame
      BY <2>4 DEF Tame
    <2> SUFFICES ASSUME Tame PROVE RotOK'
      BY <2>2, <2>4, <2>5 DEF RotInv
    <2>6. /\ backlog \in Seq(HonestResults(sent)) /\ rows \in Seq(Untouched(sent))
          /\ stPc = "reading" =>
               /\ readPos \in Nat /\ readPos <= Len(capture.disk)
               /\ LengthsKept(sent, capture.disk) => \E j \in 1..(Len(sent) + 1) : readPos = Begin(sent, j)
      BY <2>2 DEF RotOK
    <2>7. ASSUME InputThrows PROVE backlog' \in Seq(HonestResults(sent)) /\ stPc' = "draining"
      <3>1. PICK n \in 0..Len(backlog) : backlog' = SubSeq(backlog, 1, n)
        BY <2>7 DEF InputThrows
      <3> QED BY <2>6, <2>7, <3>1, QueueFacts DEF InputThrows
    <2>8. CASE StartStation
      <3>1. stPc' \in {"opened", "exit1"} /\ UNCHANGED <<backlog, rows>>
        BY <2>8 DEF StartStation
      <3> QED BY <2>4, <2>6, <3>1 DEF RotOK
    <2>9. CASE OpenReplay
      <3>1. rows' = rows
        BY <2>9 DEF OpenReplay
      <3>2. CASE OpensAsReplay(capture.disk)
        <4>1. stPc' = "reading" /\ readPos' = Len(FileHeader) /\ backlog' = backlog
          BY <2>9, <3>2 DEF OpenReplay
        <4>2. sent \in Seq(SentItems)
          BY DEF SimInv
        <4>3. readPos' = Begin(sent, 1)
          <5>1. FileFor(sent, 0) = FileHeader
            BY <4>2, FileFacts
          <5> QED BY <4>1, <5>1 DEF Begin
        <4>4. 1 \in 1..(Len(sent) + 1)
          <5>1. Len(sent) \in Nat
            BY <4>2
          <5> QED BY <5>1
        <4>5. readPos' \in Nat /\ readPos' <= Len(capture.disk)
          <5>1. Len(capture.disk) >= Len(FileHeader)
            BY <3>2 DEF OpensAsReplay
          <5>2. Len(FileHeader) \in Nat
            BY ReplayAssumption
          <5>3. Len(capture.disk) \in Nat
            <6>1. capture.disk \in Seq(Int)
              BY <2>2 DEF OneChanged
            <6> QED BY <6>1
          <5> QED BY <4>1, <5>1, <5>2, <5>3
        <4> QED BY <2>4, <2>6, <3>1, <4>1, <4>3, <4>4, <4>5 DEF RotOK
      <3>3. CASE ~OpensAsReplay(capture.disk)
        <4>1. InputThrows
          BY <2>9, <3>3 DEF OpenReplay
        <4> QED BY <2>4, <2>6, <2>7, <3>1, <4>1 DEF RotOK
      <3> QED BY <3>2, <3>3
    <2>10. CASE ReadFrame
      <3> DEFINE r == ReadNext(capture.disk, readPos)
      <3>0. stPc = "reading" /\ rows' = rows
        BY <2>10 DEF ReadFrame
      <3>1. \/ /\ r.result = "frame"
               /\ readPos' = r.next
               /\ backlog' = Append(backlog, DecodeFrame(r.bytes))
               /\ UNCHANGED stPc
            \/ stPc' = "draining" /\ UNCHANGED backlog
            \/ InputThrows
        BY <2>10 DEF ReadFrame
      <3>2. CASE r.result = "frame" /\ readPos' = r.next
                 /\ backlog' = Append(backlog, DecodeFrame(r.bytes)) /\ UNCHANGED stPc
        <4>1. r = ReadNext(capture.disk, readPos) /\ r.result = "frame"
          BY <3>2
        <4> DEFINE d == DecodeFrame(r.bytes)
        <4>2. backlog' = Append(backlog, d) /\ readPos' = r.next
          BY <3>2
        <4> HIDE DEF r
        <4>3. /\ d \in HonestResults(sent)
              /\ r.next \in Nat /\ r.next <= Len(capture.disk)
              /\ LengthsKept(sent, capture.disk) => \E j \in 1..(Len(sent) + 1) : r.next = Begin(sent, j)
          BY <2>1, <3>0, <4>1, RottenRead
        <4> HIDE DEF d
        <4>4. backlog' \in Seq(HonestResults(sent))
          <5>1. Append(backlog, d) \in Seq(HonestResults(sent))
            BY <2>6, <4>3
          <5> QED BY <4>2, <5>1
        <4> QED BY <2>4, <2>6, <3>0, <4>2, <4>3, <4>4 DEF RotOK
      <3>3. CASE stPc' = "draining" /\ UNCHANGED backlog
        BY <2>4, <2>6, <3>0, <3>3 DEF RotOK
      <3>4. CASE InputThrows
        BY <2>4, <2>6, <2>7, <3>0, <3>4 DEF RotOK
      <3> QED BY <3>1, <3>2, <3>3, <3>4
    <2>11. CASE RejectFrame
      <3>1. backlog # <<>> /\ backlog' = Tail(backlog) /\ UNCHANGED <<rows, stPc, readPos>>
        BY <2>11 DEF RejectFrame, WriterRuns
      <3>2. backlog' \in Seq(HonestResults(sent))
        BY <2>6, <3>1, QueueFacts
      <3> QED BY <2>4, <2>6, <3>1, <3>2 DEF RotOK
    <2>12. CASE ExportFrame
      <3> DEFINE d == Head(backlog)
      <3>1. /\ backlog # <<>> /\ backlog' = Tail(backlog) /\ d.ok
            /\ rows' = Append(rows, d.frame) /\ UNCHANGED <<stPc, readPos>>
        BY <2>12 DEF ExportFrame, WriterRuns
      <3>2. backlog' \in Seq(HonestResults(sent)) /\ d \in HonestResults(sent)
        BY <2>6, <3>1, QueueFacts
      <3> HIDE DEF d
      <3>3. d.frame \in Untouched(sent)
        <4>1. PICK j \in DOMAIN sent : sent[j].damage = 0 /\ d.frame = sent[j].frame
          BY <3>1, <3>2 DEF HonestResults, Honest
        <4> QED BY <4>1 DEF Untouched
      <3>4. rows' \in Seq(Untouched(sent))
        <4> DEFINE f == d.frame
        <4>1. f \in Untouched(sent) /\ rows' = Append(rows, f)
          BY <3>1, <3>3
        <4> HIDE DEF f
        <4> QED BY <2>6, <4>1
      <3> QED BY <2>4, <2>6, <3>1, <3>2, <3>4 DEF RotOK
    <2>13. CASE StopReplay \/ WriterFails \/ FinishExport \/ GapFound
      <3>1. stPc' \in {"draining", "exit0", "exit1"} /\ UNCHANGED <<backlog, rows>>
        BY <2>13 DEF StopReplay, WriterFails, FinishExport, GapFound
      <3> QED BY <2>4, <2>6, <3>1 DEF RotOK
    <2>14. CASE Finished \/ UNCHANGED vars
      <3>1. UNCHANGED <<backlog, rows, stPc, readPos>>
        BY <2>14 DEF Finished, vars, stationVars
      <3> QED BY <2>4, <2>6, <3>1 DEF RotOK
    <2> QED BY <1>2, <2>3, <2>8, <2>9, <2>10, <2>11, <2>12, <2>13, <2>14 DEF Next
  <1> QED BY <1>1, <1>2

\* What is exported from a file that was left alone, or tame, was sent and left alone.
LEMMA RowsUntouched ==
  ASSUME SimInv, ReadInv, TakenInv, RotInv, rot => Tame
  PROVE  rows \in Seq(Untouched(sent))
  <1>1. CASE rot
    BY <1>1 DEF RotInv, RotOK
  <1>2. CASE ~rot
    <2> DEFINE l == Len(sent)
               b == Len(backlog)
    <2>1. sent \in Seq(SentItems) /\ readCount \in 0..l /\ backlog \in Seq(Results)
      BY <1>2 DEF SimInv, ReadInv, ReadOK, TakenInv, TakenOK
    <2>2. PICK n \in Nat : Taken(n, sent, rows, backlog, readCount)
      BY <1>2 DEF TakenInv, TakenOK
    <2>3. n + b <= readCount /\ rows = UndamagedOf(sent, n)
      BY <2>2 DEF Taken
    <2>4. l \in Nat /\ b \in Nat
      BY <2>1
    <2> HIDE DEF b
    <2>5. n \in 0..l
      <3> HIDE DEF l
      <3> QED BY <2>1, <2>3, <2>4
    <2> DEFINE F == Untouched(sent)
    <2>6. \A j \in 1..Len(sent) : sent[j].damage = 0 => sent[j].frame \in F
      BY <2>1 DEF Untouched
    <2> HIDE DEF F
    <2>7. UndamagedOf(sent, n) \in Seq(F)
      BY <2>1, <2>5, <2>6, UndamagedMade DEF l
    <2> QED BY <2>3, <2>7 DEF F
  <1> QED BY <1>1, <1>2

\* Damage to the stored file, wherever its one changed symbol is, never adds a row to
\* the export: every row is a frame that was sent and left alone.  Where the damage
\* hits the length of an entry the reader loses its place for good, and this rests on
\* the magic, which then must not stand anywhere but where a frame begins (readNext,
\* Replay.cpp:125-148; the checks of decodeFrame, FrameCodec.cpp:141-213).
THEOREM DamageTheorem ==
  ASSUME CrcDetects, IntegerSymbols
  PROVE  Spec => []((rot => Tame) => DamageIsNoticed)
  <1>1. SimInv /\ ReadInv /\ TakenInv /\ RotInv => ((rot => Tame) => DamageIsNoticed)
    <2> SUFFICES ASSUME SimInv, ReadInv, TakenInv, RotInv, rot => Tame, NEW k \in DOMAIN rows
                 PROVE  \E j \in DOMAIN sent : sent[j].damage = 0 /\ rows[k] = sent[j].frame
      BY DEF DamageIsNoticed
    <2>1. rows \in Seq(Untouched(sent))
      BY RowsUntouched
    <2>2. rows[k] \in Untouched(sent)
      BY <2>1
    <2> QED BY <2>2 DEF Untouched
  <1> QED BY <1>1, SimInit1, SimStep, CaptureInit, CaptureStep, ReadInit, ReadInvStep,
             TakenInit, TakenStep, CleanInit, CleanStep, RotInit, RotStep, PTL DEF Spec

\* What the station reads in a payload is what is in it: a text or a signal it
\* finds would be encoded as the same bytes, and the messages of a text run come
\* back as they were made, sequence number and battery level included, in any
\* layout, for any message and any number of frames, from a stored file that was left
\* alone or whose damage is tame (ApplicationPayload.cpp:70-206,
\* SimulatorFrameFactory.cpp).
THEOREM PayloadTheorem ==
  ASSUME CrcDetects, IntegerSymbols
  PROVE  Spec => []((rot => Tame) => PayloadReadExactly)
  <1>1. SimInv /\ ReadInv /\ TakenInv /\ RotInv /\ FactoryInv => ((rot => Tame) => PayloadReadExactly)
    <2> SUFFICES ASSUME SimInv, ReadInv, TakenInv, RotInv, FactoryInv, rot => Tame, NEW k \in DOMAIN rows
                 PROVE  LET content == DecodeApplicationPayload(rows[k].payload)
                        IN  /\ content.kind = "text" =>
                                 EncodableText(content) /\ EncodeTextMessagePayload(content) = rows[k].payload
                            /\ content.kind = "signal" =>
                                 EncodableSignal(content) /\ EncodeSignalBlockPayload(content) = rows[k].payload
                            /\ options.mode = "text" =>
                                 \E i \in 0..options.count - 1 :
                                   content = TextOf(i) /\ rows[k].batteryPercent = BatteryOf(i)
      BY Zenon DEF PayloadReadExactly
    <2>1. rows \in Seq(Untouched(sent))
      BY RowsUntouched
    <2>2. rows[k] \in Untouched(sent)
      BY <2>1
    <2>3. PICK j \in DOMAIN sent : rows[k] = sent[j].frame
      BY <2>2 DEF Untouched
    <2>4. sent \in Seq(SentItems)
      BY DEF SimInv
    <2>5. j \in 1..Len(sent)
      BY <2>4
    <2>6. rows[k] \in MadeFrames
      BY <2>3, <2>5 DEF FactoryInv
    <2> DEFINE f == rows[k]
               p == f.payload
               c == DecodeApplicationPayload(p)
    <2>7. f \in MadeFrames
      BY <2>6
    <2> HIDE DEF f
    <2>8. p \in Seq(Int) /\ Len(p) <= MaxPayloadSize
      BY <2>7 DEF MadeFrames, Frames
    <2> HIDE DEF p, c
    <2>9. /\ c.kind = "text" => EncodableText(c) /\ EncodeTextMessagePayload(c) = p
          /\ c.kind = "signal" => EncodableSignal(c) /\ EncodeSignalBlockPayload(c) = p
      BY <2>8, PayloadFacts DEF c
    <2>10. ASSUME options.mode = "text"
           PROVE  \E i \in 0..options.count - 1 : c = TextOf(i) /\ f.batteryPercent = BatteryOf(i)
      <3>1. PICK i \in 0..options.count - 1 :
              p = EncodeTextMessagePayload(TextOf(i)) /\ f.batteryPercent = BatteryOf(i)
        BY <2>7, <2>10 DEF MadeFrames, p
      <3>2. options.message \in Seq(Int) /\ options.count \in Nat
        BY OptionFacts DEF SimInv
      <3> DEFINE m == i % (U32Max + 1)
      <3>3. m \in Int
        BY <3>2, SimulatorAssumption
      <3> HIDE DEF m
      <3>4. TextOf(i) = [kind |-> "text", sequence |-> m, text |-> options.message]
        BY DEF TextOf, m
      <3>5. DecodeApplicationPayload(EncodeTextMessagePayload(TextOf(i))) = TextOf(i)
        BY <3>2, <3>3, <3>4, TextReadBack
      <3> QED BY <3>1, <3>5 DEF c
    <2> QED BY <2>9, <2>10, Zenon DEF c, p, f
  <1> QED BY <1>1, SimInit1, SimStep, CaptureInit, CaptureStep, ReadInit, ReadInvStep,
             TakenInit, TakenStep, CleanInit, CleanStep, RotInit, RotStep, FactoryInit, FactoryStep, PTL DEF Spec

=============================================================================
