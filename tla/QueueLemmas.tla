----------------------------- MODULE QueueLemmas -----------------------------
(***************************************************************************)
(* Facts about sequences without repetitions, as the batcher's queue and   *)
(* the batch of the scheduler loop are, and about their pieces; and about  *)
(* loops: that what holds at the start and from each step to the next holds *)
(* to the end, and that a loop which keeps the best it has seen ends with  *)
(* the first of the best.                                                  *)
(***************************************************************************)
EXTENDS Integers, Sequences, Functions, SequenceTheorems, WellFoundedInduction, TLAPS

\* What Add does to the queue: one more member, at the end.
LEMMA AppendMembers ==
    ASSUME NEW S, NEW q \in Seq(S), NEW e \in S
    PROVE  /\ Append(q, e) \in Seq(S)
           /\ Range(Append(q, e)) = Range(q) \cup {e}
           /\ IsInjective(q) /\ e \notin Range(q) => IsInjective(Append(q, e))
<1> DEFINE a == Append(q, e)
<1>1. a \in Seq(S) /\ DOMAIN a = 1 .. Len(q) + 1
  OBVIOUS
<1>2. \A k \in DOMAIN q : k \in DOMAIN a /\ a[k] = q[k]
  OBVIOUS
<1>3. a[Len(q) + 1] = e /\ \A k \in DOMAIN a : k # Len(q) + 1 => k \in DOMAIN q
  OBVIOUS
<1>4. Range(a) = Range(q) \cup {e}
  BY <1>1, <1>2, <1>3 DEF Range
<1>5. ASSUME IsInjective(q), e \notin Range(q) PROVE IsInjective(a)
  BY <1>1, <1>2, <1>3, <1>5 DEF Range, IsInjective
<1> QED
  BY <1>1, <1>4, <1>5

\* What one iteration of the rejecting loop does to the batch.
LEMMA TailMembers ==
    ASSUME NEW S, NEW q \in Seq(S), q # <<>>
    PROVE  /\ Tail(q) \in Seq(S)
           /\ Head(q) \in Range(q)
           /\ Range(Tail(q)) \subseteq Range(q)
           /\ Tail(q) = <<>> <=> Len(q) = 1
           /\ IsInjective(q) => /\ IsInjective(Tail(q))
                                /\ Head(q) \notin Range(Tail(q))
                                /\ Range(q) = Range(Tail(q)) \cup {Head(q)}
<1> DEFINE t == Tail(q)
<1>1. /\ t \in Seq(S) /\ Len(t) = Len(q) - 1 /\ Len(q) \in Nat /\ Len(q) >= 1
      /\ DOMAIN q = 1 .. Len(q) /\ DOMAIN t = 1 .. Len(q) - 1
      /\ Head(q) = q[1]
  OBVIOUS
<1>2. \A k \in DOMAIN t : k + 1 \in DOMAIN q /\ t[k] = q[k + 1]
  BY <1>1
<1>3. Range(t) \subseteq Range(q) /\ Head(q) \in Range(q)
  BY <1>1, <1>2 DEF Range
<1>4. t = <<>> <=> Len(q) = 1
  <2>1. t = <<>> => Len(t) = 0
    BY EmptySeq
  <2>2. t # <<>> => Len(t) \in Nat \ {0}
    BY <1>1, EmptySeq
  <2> QED
    BY <1>1, <2>1, <2>2
<1>5. ASSUME IsInjective(q)
      PROVE  IsInjective(t) /\ Head(q) \notin Range(t)
  BY <1>1, <1>2, <1>5 DEF Range, IsInjective
<1>6. Range(q) = Range(t) \cup {Head(q)}
  <2>1. \A k \in DOMAIN q : k = 1 \/ (k - 1 \in DOMAIN t /\ t[k - 1] = q[k])
    BY <1>1, <1>2
  <2>2. ASSUME NEW k \in DOMAIN q PROVE q[k] \in Range(t) \cup {Head(q)}
    BY <1>1, <2>1 DEF Range
  <2> QED
    BY <1>3, <2>2 DEF Range
<1> QED
  BY <1>1, <1>3, <1>4, <1>5, <1>6

\* A piece of a sequence, from its member m to its member n.
LEMMA PieceMembers ==
    ASSUME NEW S, NEW q \in Seq(S), NEW m \in Int, NEW n \in Int,
           1 <= m, m <= n + 1, n <= Len(q)
    PROVE  /\ SubSeq(q, m, n) \in Seq(S)
           /\ DOMAIN SubSeq(q, m, n) = 1 .. n + 1 - m
           /\ \A k \in 1 .. n + 1 - m : SubSeq(q, m, n)[k] = q[k + m - 1]
<1> DEFINE r == SubSeq(q, m, n)
<1>1. \A i \in m .. n : q[i] \in S
  OBVIOUS
<1>2. /\ r \in Seq(S) /\ Len(r) = IF m <= n THEN n - m + 1 ELSE 0
      /\ \A k \in 1 .. n - m + 1 : r[k] = q[m + k - 1]
  BY <1>1, SubSeqProperties
<1>3. DOMAIN r = 1 .. Len(r)
  BY <1>2, LenProperties
<1> HIDE DEF r
<1>4. Len(r) = n + 1 - m /\ n - m + 1 = n + 1 - m
  BY <1>2
<1>5. \A k \in 1 .. n + 1 - m : r[k] = q[k + m - 1]
  <2>1. \A k \in Int : m + k - 1 = k + m - 1
    OBVIOUS
  <2> QED
    BY <1>2, <1>4, <2>1
<1> QED
  BY <1>2, <1>3, <1>4, <1>5 DEF r

\* first and rest are the two parts of q, cut after its member n.
Cut(q, n, first, rest) == /\ 1 <= n /\ n <= Len(q)
                          /\ DOMAIN first = 1 .. n
                          /\ \A k \in 1 .. n : first[k] = q[k]
                          /\ DOMAIN rest = 1 .. Len(q) - n
                          /\ \A k \in 1 .. Len(q) - n : rest[k] = q[k + n]

\* As many members of a sequence as there are, n at most, and the others.
LEMMA CutMembers ==
    ASSUME NEW S, NEW q \in Seq(S), q # <<>>, NEW n \in Int, 1 <= n,
           NEW first, first = IF Len(q) <= n THEN q ELSE SubSeq(q, 1, n),
           NEW rest, rest = SubSeq(q, n + 1, Len(q))
    PROVE  rest \in Seq(S) /\ \E m \in Int : Cut(q, m, first, rest)
<1>1. Len(q) \in Nat /\ Len(q) # 0 /\ DOMAIN q = 1 .. Len(q)
  <2>1. Len(q) \in Nat \ {0}
    BY EmptySeq
  <2> QED
    BY <2>1, LenProperties
<1>2. PICK l \in Nat : l = Len(q)
  BY <1>1
<1>3. 1 <= l
  BY <1>1, <1>2
<1>4. CASE l <= n
  <2>1. first = q /\ DOMAIN first = 1 .. l
    BY <1>1, <1>2, <1>4
  <2>2. rest = <<>>
    BY <1>2, <1>4, SubSeqEmpty
  <2>3. rest \in Seq(S) /\ DOMAIN rest = {}
    BY <2>2
  <2>4. 1 .. l - l = {}
    OBVIOUS
  <2>5. DOMAIN rest = 1 .. l - l /\ \A k \in 1 .. l - l : rest[k] = q[k + l]
    BY <2>3, <2>4
  <2> QED
    BY <1>2, <1>3, <2>1, <2>3, <2>5 DEF Cut
<1>5. CASE n < l
  <2>1. first = SubSeq(q, 1, n) /\ rest = SubSeq(q, n + 1, l)
    BY <1>2, <1>5
  <2>2. DOMAIN first = 1 .. n + 1 - 1 /\ \A k \in 1 .. n + 1 - 1 : first[k] = q[k + 1 - 1]
    BY <1>2, <1>5, <2>1, PieceMembers
  <2>3. DOMAIN first = 1 .. n /\ \A k \in 1 .. n : first[k] = q[k]
    BY <2>2
  <2>4. PICK m \in Int : m = n + 1
    OBVIOUS
  <2>5. /\ rest \in Seq(S) /\ DOMAIN rest = 1 .. l + 1 - m
        /\ \A k \in 1 .. l + 1 - m : rest[k] = q[k + m - 1]
    <3>1. l \in Int /\ 1 <= m /\ m <= l + 1 /\ l <= Len(q) /\ rest = SubSeq(q, m, l)
      BY <1>2, <1>5, <2>1, <2>4
    <3>2. /\ SubSeq(q, m, l) \in Seq(S)
          /\ DOMAIN SubSeq(q, m, l) = 1 .. l + 1 - m
          /\ \A k \in 1 .. l + 1 - m : SubSeq(q, m, l)[k] = q[k + m - 1]
      BY <3>1, PieceMembers, Zenon
    <3> QED
      BY <3>1, <3>2
  <2>6. l + 1 - m = l - n /\ \A k \in Int : k + m - 1 = k + n
    BY <2>4
  <2>7. DOMAIN rest = 1 .. l - n /\ \A k \in 1 .. l - n : rest[k] = q[k + n]
    BY <2>5, <2>6
  <2>8. Cut(q, n, first, rest)
    BY <1>2, <1>5, <2>3, <2>7 DEF Cut
  <2> QED
    BY <2>5, <2>8
<1> QED
  BY <1>4, <1>5

\* What a flush leaves of the queue.
LEMMA NoMembers == Range(<<>>) = {} /\ IsInjective(<<>>)
  BY DEF Range, IsInjective

\* One more, and one less.
LEMMA QueueLengths ==
    ASSUME NEW S, NEW q \in Seq(S)
    PROVE  /\ Len(q) \in Nat /\ Len(<<>>) = 0
           /\ \A e \in S : Len(Append(q, e)) = Len(q) + 1
           /\ q # <<>> => Len(Tail(q)) = Len(q) - 1
<1>1. q # <<>> => Len(Tail(q)) = Len(q) - 1
  <2>1. Len(q) \in Nat /\ (q = <<>> <=> Len(q) = 0)
    BY EmptySeq
  <2> QED
    BY <2>1
<1>2. Len(q) \in Nat /\ Len(<<>>) = 0 /\ \A e \in S : Len(Append(q, e)) = Len(q) + 1
  OBVIOUS
<1> QED
  BY <1>1, <1>2

\* Every member of a queue or a batch is a request.
LEMMA MembersInSet ==
    ASSUME NEW S, NEW q \in Seq(S)
    PROVE  Range(q) \subseteq S
  BY DEF Range
-----------------------------------------------------------------------------
(* One step after another *)

LEMMA LeastOne == ASSUME NEW S \in SUBSET Nat, S # {}
                  PROVE  \E x \in S : \A y \in S : x <= y
<1>1. PICK x \in S : \A y \in S : ~ (<<y, x>> \in OpToRel(<, Nat))
  BY WFMin, NatLessThanWellFounded
<1>2. \A y \in S : ~(y < x)
  BY <1>1 DEF OpToRel
<1> QED
  BY <1>2

\* What is so at the beginning and stays so with each of n steps is so all the time.
LEMMA StepByStep ==
    ASSUME NEW n \in Nat, NEW T, 0 \in T, \A i \in 1 .. n : i - 1 \in T => i \in T
    PROVE  0 .. n \subseteq T
<1> SUFFICES ASSUME NEW k \in 0 .. n, k \notin T PROVE FALSE
  OBVIOUS
<1> DEFINE S == (0 .. n) \ T
<1>1. PICK x \in S : \A y \in S : x <= y
  <2>1. S \in SUBSET Nat /\ S # {}
    OBVIOUS
  <2> QED
    BY <2>1, LeastOne
<1>2. x # 0 /\ x \in 1 .. n /\ x - 1 \in 0 .. n /\ x - 1 < x
  BY <1>1
<1>3. x - 1 \notin S
  BY <1>1, <1>2
<1> QED
  BY <1>1, <1>2, <1>3

\* There is what a loop over n members has computed after each of them: step[i] is its
\* body for the i-th member.
HasPass(n, S, start, step) ==
    \E f \in [0 .. n -> S] : f[0] = start /\ \A i \in 1 .. n : f[i] = step[i][f[i - 1]]

LEMMA PassExists ==
    ASSUME NEW n \in Nat, NEW S, NEW start \in S, NEW step \in [1 .. n -> [S -> S]]
    PROVE  HasPass(n, S, start, step)
<1> DEFINE Upto(k, f) == f[0] = start /\ \A i \in 1 .. k : f[i] = step[i][f[i - 1]]
           T == {k \in 0 .. n : \E f \in [0 .. k -> S] : Upto(k, f)}
<1>1. 0 \in T
  <2> DEFINE f == [i \in 0 .. 0 |-> start]
  <2>1. f \in [0 .. 0 -> S] /\ f[0] = start /\ 1 .. 0 = {} /\ 0 \in 0 .. n
    OBVIOUS
  <2> HIDE DEF f
  <2>2. Upto(0, f)
    BY <2>1
  <2> QED
    BY <2>1, <2>2
<1>2. ASSUME NEW k \in 1 .. n, k - 1 \in T PROVE k \in T
  <2>1. PICK f \in [0 .. k - 1 -> S] : Upto(k - 1, f)
    BY <1>2
  <2> DEFINE g == [i \in 0 .. k |-> IF i = k THEN step[k][f[k - 1]] ELSE f[i]]
  <2>2. f[k - 1] \in S /\ step[k][f[k - 1]] \in S
    BY <2>1
  <2>3. g \in [0 .. k -> S]
    BY <2>1, <2>2
  <2>4. ASSUME NEW i \in 1 .. k PROVE g[i] = step[i][g[i - 1]]
    <3>1. i - 1 \in 0 .. k - 1 /\ g[i - 1] = f[i - 1]
      OBVIOUS
    <3>2. CASE i = k
      BY <3>1, <3>2
    <3>3. CASE i # k
      <4>1. i \in 1 .. k - 1 /\ g[i] = f[i]
        BY <3>3
      <4> QED
        BY <2>1, <3>1, <4>1
    <3> QED
      BY <3>2, <3>3
  <2>5. g[0] = start
    BY <2>1
  <2> HIDE DEF g
  <2>6. Upto(k, g)
    BY <2>4, <2>5
  <2> QED
    BY <2>3, <2>6
<1> HIDE DEF T
<1>3. n \in T
  <2>1. 0 .. n \subseteq T
    BY <1>1, <1>2, StepByStep
  <2> QED
    BY <2>1
<1> QED
  BY <1>3 DEF T, HasPass
\* The body of a loop that keeps what is best so far and its measure, m[i] and s[i] after
\* the i-th member: another that qualifies is taken when its key is less.
Keeps(n, ok, key, val, m, s) ==
    \A i \in 1 .. n : IF i \in ok /\ key[i] < m[i - 1] THEN m[i] = key[i] /\ s[i] = val[i]
                      ELSE m[i] = m[i - 1] /\ s[i] = s[i - 1]

\* x is the value of the first of those in fits that have the least key.
FirstLeast(x, fits, key, val, none) ==
    \/ x = none /\ fits = {}
    \/ \E j \in fits : /\ x = val[j]
                       /\ \A k \in fits : key[j] <= key[k] /\ (k < j => key[j] < key[k])

\* Such a loop ends with the first of the best.
LEMMA PassKeepsFirst ==
    ASSUME NEW n \in Nat, NEW ok \in SUBSET (1 .. n), NEW key \in [1 .. n -> Int], NEW val,
           NEW m, m[0] \in Int, NEW s, Keeps(n, ok, key, val, m, s)
    PROVE  FirstLeast(s[n], {i \in ok : key[i] < m[0]}, key, val, s[0])
<1> DEFINE fits == {i \in ok : key[i] < m[0]}
           At(i, j) == /\ j \in fits /\ j <= i /\ m[i] = key[j] /\ s[i] = val[j]
                       /\ \A k \in fits : k <= i => key[j] <= key[k]
                       /\ \A k \in fits : k < j => key[j] < key[k]
           None(i) == m[i] = m[0] /\ s[i] = s[0] /\ \A k \in fits : ~(k <= i)
           T == {i \in 0 .. n : None(i) \/ \E j \in fits : At(i, j)}
<1>1. \A k \in fits : k \in 1 .. n /\ k \in Int /\ 1 <= k /\ key[k] \in Int /\ key[k] < m[0]
  OBVIOUS
<1>2. 0 \in T
  <2>1. None(0)
    BY <1>1
  <2> QED
    BY <2>1
<1>3. ASSUME NEW i \in 1 .. n, i - 1 \in T PROVE i \in T
  <2>1. i \in Int /\ i \in 0 .. n /\ key[i] \in Int /\ i - 1 \in Int
    OBVIOUS
  <2>2. IF i \in ok /\ key[i] < m[i - 1] THEN m[i] = key[i] /\ s[i] = val[i]
        ELSE m[i] = m[i - 1] /\ s[i] = s[i - 1]
    BY DEF Keeps
  <2>3. i \in fits <=> i \in ok /\ key[i] < m[0]
    OBVIOUS
  <2> HIDE DEF fits
  <2>4. \A k \in fits : k <= i <=> k = i \/ k <= i - 1
    BY <1>1, <2>1
  <2>5. CASE None(i - 1)
    <3>1. CASE i \in fits
      <4>1. m[i] = key[i] /\ s[i] = val[i]
        BY <2>2, <2>3, <2>5, <3>1
      <4>2. \A k \in fits : (k <= i => key[i] <= key[k]) /\ ~(k < i)
        BY <1>1, <2>1, <2>4, <2>5
      <4>3. At(i, i)
        BY <2>1, <3>1, <4>1, <4>2
      <4> QED
        BY <2>1, <3>1, <4>3
    <3>2. CASE i \notin fits
      <4>1. m[i] = m[0] /\ s[i] = s[0]
        BY <2>2, <2>3, <2>5, <3>2
      <4>2. None(i)
        BY <2>4, <2>5, <3>2, <4>1
      <4> QED
        BY <4>2
    <3> QED
      BY <3>1, <3>2
  <2>6. ASSUME NEW j \in fits, At(i - 1, j) PROVE i \in T
    <3>1. key[j] \in Int /\ key[j] < m[0] /\ m[i - 1] = key[j] /\ j \in Int /\ j <= i /\ j # i
      BY <1>1, <2>1, <2>6
    <3>2. CASE i \in ok /\ key[i] < key[j]
      <4>1. i \in fits /\ m[i] = key[i] /\ s[i] = val[i]
        BY <2>1, <2>2, <2>3, <3>1, <3>2
      <4>2. \A k \in fits : k <= i - 1 => key[i] < key[k]
        BY <1>1, <2>1, <2>6, <3>1, <3>2
      <4>3. ASSUME NEW k \in fits, k <= i PROVE key[i] <= key[k]
        <5>1. key[k] \in Int /\ (k = i \/ k <= i - 1)
          BY <1>1, <2>4, <4>3
        <5> QED
          BY <2>1, <4>2, <5>1
      <4>4. \A k \in fits : k < i => key[i] < key[k]
        BY <1>1, <2>1, <2>4, <4>2
      <4>5. At(i, i)
        BY <2>1, <4>1, <4>3, <4>4
      <4> QED
        BY <4>1, <4>5
    <3>3. CASE ~(i \in ok /\ key[i] < key[j])
      <4>1. m[i] = key[j] /\ s[i] = val[j]
        BY <2>2, <2>6, <3>1, <3>3
      <4>2. i \in fits => key[j] <= key[i]
        BY <2>1, <2>3, <3>1, <3>3
      <4>3. \A k \in fits : k <= i => key[j] <= key[k]
        BY <2>4, <2>6, <4>2
      <4>4. At(i, j)
        BY <2>6, <3>1, <4>1, <4>3
      <4> QED
        BY <4>4
    <3> QED
      BY <3>2, <3>3
  <2> QED
    BY <1>3, <2>5, <2>6
<1> HIDE DEF T
<1>4. n \in T
  <2>1. 0 .. n \subseteq T
    BY <1>2, <1>3, StepByStep
  <2> QED
    BY <2>1
<1>5. \A k \in fits : k <= n
  BY <1>1
<1> HIDE DEF fits
<1>6. CASE None(n)
  <2>1. fits = {} /\ s[n] = s[0]
    BY <1>5, <1>6
  <2> QED
    BY <2>1 DEF FirstLeast, fits
<1>7. ASSUME NEW j \in fits, At(n, j) PROVE FirstLeast(s[n], fits, key, val, s[0])
  <2>1. \A k \in fits : key[j] <= key[k] /\ (k < j => key[j] < key[k])
    BY <1>5, <1>7
  <2> QED
    BY <1>7, <2>1 DEF FirstLeast
<1> QED
  BY <1>4, <1>6, <1>7 DEF T, fits
=============================================================================
