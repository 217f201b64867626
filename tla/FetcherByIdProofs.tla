-------------------------- MODULE FetcherByIdProofs --------------------------
(***************************************************************************)
(* Proofs of the invariants of FetcherById, of the list it reads, that of  *)
(* TopIds, and of the chunks it requests.  rebuildTopIds, FlattenSeq,      *)
(* ChunkEnd and MissingIds use functions defined by recursion: what they   *)
(* return is proved by induction, which the first part derives from the    *)
(* well-foundedness of <.                                                  *)
(***************************************************************************)
EXTENDS FetcherById, SequenceTheorems, WellFoundedInduction, TLAPS

-----------------------------------------------------------------------------
(* Induction over numbers, and functions defined by recursion.             *)

\* A set of naturals has a least element: the library's induction over a
\* predicate takes an operator, the well-foundedness of < does not.
LEMMA Least ==
  ASSUME NEW T \in SUBSET Nat, T # {}
  PROVE  \E m \in T : \A n \in T : m <= n
<1>1. IsWellFoundedOn({r \in Nat \X Nat : r[1] < r[2]}, Nat)
  BY NatLessThanWellFounded DEF OpToRel
<1>2. PICK m \in T : \A n \in T : <<n, m>> \notin {r \in Nat \X Nat : r[1] < r[2]}
  BY <1>1, WFMin
<1>3. \A n \in T : <<n, m>> \in Nat \X Nat /\ m \in Nat /\ n \in Nat
  OBVIOUS
<1>4. ASSUME NEW n \in T PROVE m <= n
  <2>1. <<n, m>> \in Nat \X Nat /\ m \in Nat /\ n \in Nat
    BY <1>3
  <2>2. ~(<<n, m>>[1] < <<n, m>>[2])
    BY <1>2, <2>1
  <2>3. QED
    BY <2>1, <2>2
<1>5. QED
  BY <1>4

\* Induction over lo .. hi for a set: its least missing number is none.
LEMMA Induction ==
  ASSUME NEW lo \in Nat, NEW hi \in Nat, NEW G,
         lo <= hi => lo \in G,
         \A n \in lo .. hi - 1 : n \in G => n + 1 \in G
  PROVE  \A n \in lo .. hi : n \in G
<1> DEFINE T == {n \in Nat : n \in lo .. hi /\ n \notin G}
<1>1. SUFFICES ASSUME T # {} PROVE FALSE
  OBVIOUS
<1>2. PICK m \in T : \A n \in T : m <= n
  <2> HIDE DEF T
  <2>1. T \in SUBSET Nat
    BY DEF T
  <2> QED BY <1>1, <2>1, Least
<1>3. m # lo
  BY <1>2
<1>4. m - 1 \in lo .. hi - 1 /\ m - 1 \notin T
  BY <1>2, <1>3
<1>5. QED
  BY <1>2, <1>4

\* f is defined by recursion: a at lo, then step of the value before.
Recursive(f, lo, hi, a, step) ==
  f = [n \in lo .. hi |-> IF n = lo THEN a ELSE step[<<f[n - 1], n>>]]

\* A function that the recursion defines exists, so the CHOOSE of a recursive
\* function does define it.
LEMMA Recursion ==
  ASSUME NEW lo \in Nat, NEW hi \in Nat, lo <= hi, NEW S, NEW a \in S,
         NEW step \in [S \X (lo + 1 .. hi) -> S]
  PROVE  \E f \in [lo .. hi -> S] : Recursive(f, lo, hi, a, step)
<1> DEFINE Upto(m) == \E f \in [lo .. m -> S] :
             /\ f[lo] = a
             /\ \A n \in lo + 1 .. m : f[n] = step[<<f[n - 1], n>>]
           G == {m \in lo .. hi : Upto(m)}
<1>1. lo \in G
  <2> DEFINE f == [n \in lo .. lo |-> a]
  <2>1. f \in [lo .. lo -> S] /\ f[lo] = a /\ lo + 1 .. lo = {}
    OBVIOUS
  <2>2. Upto(lo)
    <3> HIDE DEF f
    <3> QED
      BY <2>1
  <2>3. QED
    BY <2>2
<1>2. ASSUME NEW m \in lo .. hi - 1, m \in G PROVE m + 1 \in G
  <2>1. PICK f \in [lo .. m -> S] :
             /\ f[lo] = a
             /\ \A n \in lo + 1 .. m : f[n] = step[<<f[n - 1], n>>]
    BY <1>2
  <2> DEFINE g == [n \in lo .. m + 1 |-> IF n = m + 1 THEN step[<<f[m], m + 1>>] ELSE f[n]]
  <2>2. step[<<f[m], m + 1>>] \in S
    BY <2>1
  <2>3. g \in [lo .. m + 1 -> S]
    BY <2>2
  <2>4. g[lo] = a
    BY <2>1
  <2>5. \A n \in lo + 1 .. m + 1 : g[n] = step[<<g[n - 1], n>>]
    <3> TAKE n \in lo + 1 .. m + 1
    <3>1. CASE n = m + 1
      <4>1. g[n] = step[<<f[m], m + 1>>] /\ m \in lo .. m + 1 /\ m # m + 1 /\ n - 1 = m
        BY <3>1
      <4>2. g[n - 1] = f[m]
        BY <4>1
      <4>3. QED
        BY <3>1, <4>1, <4>2
    <3>2. CASE n # m + 1
      <4>1. n \in lo + 1 .. m /\ n - 1 \in lo .. m + 1 /\ n - 1 # m + 1
        BY <3>2
      <4>2. g[n] = f[n] /\ g[n - 1] = f[n - 1]
        BY <3>2, <4>1
      <4>3. QED
        BY <2>1, <4>1, <4>2
    <3>3. QED
      BY <3>1, <3>2
  <2>6. Upto(m + 1)
    <3> HIDE DEF g
    <3> QED
      BY <2>3, <2>4, <2>5
  <2>7. QED
    BY <2>6
<1>3. hi \in G
  <2> HIDE DEF G
  <2>1. \A n \in lo .. hi : n \in G
    BY <1>1, <1>2, Induction
  <2>2. QED
    BY <2>1
<1>4. PICK f \in [lo .. hi -> S] :
             /\ f[lo] = a
             /\ \A n \in lo + 1 .. hi : f[n] = step[<<f[n - 1], n>>]
  BY <1>3
<1>5. \A n \in lo .. hi : f[n] = IF n = lo THEN a ELSE step[<<f[n - 1], n>>]
  BY <1>4
<1>6. f = [n \in lo .. hi |-> f[n]]
  OBVIOUS
<1>7. QED
  BY <1>5, <1>6 DEF Recursive

-----------------------------------------------------------------------------
(* The list of top ids.                                                    *)

\* What FlattenSeq makes of lists of S is a list of S.
LEMMA FlattenType ==
  ASSUME NEW S, NEW seqs \in Seq(Seq(S))
  PROVE  FlattenSeq(seqs) \in Seq(S)
<1>1. CASE Len(seqs) = 0
  <2>1. seqs = <<>>
    BY <1>1, EmptySeq
  <2>2. QED
    BY <1>1, <2>1 DEF FlattenSeq
<1>2. CASE Len(seqs) # 0
  <2> DEFINE L == Len(seqs)
             flatten[i \in 1 .. L] == IF i = 1 THEN seqs[i] ELSE flatten[i - 1] \o seqs[i]
             step == [q \in Seq(S) \X (1 + 1 .. L) |-> q[1] \o seqs[q[2]]]
  <2>1. L \in Nat /\ 1 <= L /\ 1 + 1 = 2 /\ \A i \in 1 .. L : seqs[i] \in Seq(S)
    BY <1>2, LenProperties, ElementOfSeq
  <2>2. step \in [Seq(S) \X (1 + 1 .. L) -> Seq(S)]
    BY <2>1, ConcatProperties
  <2>3. \E f \in [1 .. L -> Seq(S)] : Recursive(f, 1, L, seqs[1], step)
    <3> HIDE DEF step, L
    <3>1. 1 \in Nat /\ L \in Nat /\ 1 <= L /\ seqs[1] \in Seq(S)
      BY <2>1
    <3>2. QED
      BY <2>2, <3>1, Recursion
  <2>4. PICK f \in [1 .. L -> Seq(S)] :
          f = [i \in 1 .. L |-> IF i = 1 THEN seqs[1] ELSE step[<<f[i - 1], i>>]]
    BY <2>3 DEF Recursive
  <2>5. f = [i \in 1 .. L |-> IF i = 1 THEN seqs[i] ELSE f[i - 1] \o seqs[i]]
    <3>1. ASSUME NEW i \in 1 .. L, i # 1
          PROVE  step[<<f[i - 1], i>>] = f[i - 1] \o seqs[i]
      <4>1. i - 1 \in 1 .. L /\ i \in 1 + 1 .. L
        BY <2>1, <3>1
      <4>2. <<f[i - 1], i>> \in Seq(S) \X (1 + 1 .. L)
        BY <4>1
      <4>3. QED
        BY <4>2
    <3>2. QED
      BY <2>4, <3>1
  <2>6. flatten = [i \in 1 .. L |-> IF i = 1 THEN seqs[i] ELSE flatten[i - 1] \o seqs[i]]
    BY <2>5
  <2>7. FlattenSeq(seqs) = flatten[L]
    BY <1>2 DEF FlattenSeq
  <2> DEFINE G == {i \in 1 .. L : flatten[i] \in Seq(S)}
  <2>8. \A i \in 1 .. L : i \in G
    <3> HIDE DEF flatten
    <3>1. 1 \in G
      BY <2>1, <2>6
    <3>2. ASSUME NEW i \in 1 .. L - 1, i \in G PROVE i + 1 \in G
      <4>1. i + 1 \in 1 .. L /\ i + 1 # 1 /\ (i + 1) - 1 = i
        BY <2>1
      <4>2. flatten[i + 1] = flatten[i] \o seqs[i + 1]
        BY <2>6, <4>1
      <4>3. flatten[i] \o seqs[i + 1] \in Seq(S)
        BY <2>1, <3>2, <4>1, ConcatProperties
      <4>4. QED
        BY <4>1, <4>2, <4>3
    <3>3. QED
      <4> HIDE DEF G, L
      <4> QED BY <2>1, <3>1, <3>2, Induction
  <2>9. L \in 1 .. L
    BY <2>1
  <2>10. QED
    <3> HIDE DEF flatten
    <3> QED
      BY <2>7, <2>8, <2>9
<1>3. QED
  BY <1>1, <1>2

\* A loop over ids that keeps some of them.
Keeps(list, ids, skip) ==
  /\ list \in [0 .. Len(ids) -> Seq(Ids)]
  /\ list[0] = <<>>
  /\ \A n \in 1 .. Len(ids) :
       list[n] = IF <<list[n - 1], ids[n]>> \in skip THEN list[n - 1]
                                                     ELSE Append(list[n - 1], ids[n])

\* Such a loop has its lists, by recursion.
LEMMA KeepExists ==
  ASSUME NEW ids \in Seq(Ids), NEW skip
  PROVE  \E list : Keeps(list, ids, skip)
<1> DEFINE L == Len(ids)
           step == [q \in Seq(Ids) \X (0 + 1 .. L) |->
                     IF <<q[1], ids[q[2]]>> \in skip THEN q[1] ELSE Append(q[1], ids[q[2]])]
<1>1. L \in Nat /\ 0 \in Nat /\ 0 <= L /\ <<>> \in Seq(Ids) /\ \A i \in 1 .. L : ids[i] \in Ids
  BY LenProperties, ElementOfSeq, EmptySeq
<1>2. step \in [Seq(Ids) \X (0 + 1 .. L) -> Seq(Ids)]
  <2>1. ASSUME NEW q \in Seq(Ids) \X (0 + 1 .. L)
        PROVE  q[1] \in Seq(Ids) /\ Append(q[1], ids[q[2]]) \in Seq(Ids)
    <3>1. q[1] \in Seq(Ids) /\ q[2] \in 1 .. L
      BY <1>1
    <3>2. ids[q[2]] \in Ids
      BY <1>1, <3>1
    <3>3. QED
      BY <3>1, <3>2, AppendProperties
  <2>2. QED
    BY <2>1
<1>3. PICK f \in [0 .. L -> Seq(Ids)] : Recursive(f, 0, L, <<>>, step)
  <2> HIDE DEF step, L
  <2>1. QED
    BY <1>1, <1>2, Recursion
<1>4. f[0] = <<>>
  BY <1>1, <1>3 DEF Recursive
<1>5. ASSUME NEW n \in 1 .. L
      PROVE  f[n] = IF <<f[n - 1], ids[n]>> \in skip THEN f[n - 1]
                                                     ELSE Append(f[n - 1], ids[n])
  <2>1. n \in 0 .. L /\ n # 0 /\ n - 1 \in 0 .. L /\ n \in 0 + 1 .. L
    BY <1>1
  <2>2. f[n] = step[<<f[n - 1], n>>]
    <3> HIDE DEF step, L
    <3>1. QED
      BY <1>3, <2>1 DEF Recursive
  <2>3. <<f[n - 1], n>> \in Seq(Ids) \X (0 + 1 .. L)
    BY <2>1
  <2>4. QED
    BY <2>2, <2>3
<1>6. QED
  BY <1>3, <1>4, <1>5 DEF Keeps

Listed == FlattenSeq(pageToIds)

Repeats == {q \in Seq(Ids) \X Ids : Contains(q[1], q[2])}

LEMMA ListedType ==
  ASSUME pageToIds \in [Pages -> Seq(Ids)]
  PROVE  Listed \in Seq(Ids)
<1>1. pageToIds \in Seq(Seq(Ids))
  BY TopIdsAssumption, SeqDef DEF Pages
<1>2. QED
  BY <1>1, FlattenType DEF Listed

\* rebuildTopIds is the loop that keeps what it has not seen.
LEMMA Rebuilt ==
  ASSUME pageToIds \in [Pages -> Seq(Ids)], NEW list, Keeps(list, Listed, Repeats)
  PROVE  rebuildTopIds = list[Len(Listed)]
<1> DEFINE ids == FlattenSeq(pageToIds)
           ranked[n \in 0 .. Len(ids)] ==
             IF n = 0 THEN <<>>
             ELSE LET r == ranked[n - 1]
                  IN IF Contains(r, ids[n]) THEN r ELSE Append(r, ids[n])
<1>1. rebuildTopIds = ranked[Len(ids)]
  BY DEF rebuildTopIds
<1>2. ids \in Seq(Ids) /\ ids = Listed
  BY ListedType DEF Listed
<1> HIDE DEF ids
<1>3. ASSUME NEW n \in 0 .. Len(ids), n # 0
      PROVE  /\ n \in 1 .. Len(ids) /\ list[n - 1] \in Seq(Ids)
             /\ Contains(list[n - 1], ids[n]) <=> <<list[n - 1], ids[n]>> \in Repeats
  <2>1. n \in 1 .. Len(ids) /\ n - 1 \in 0 .. Len(ids)
    BY <1>2, <1>3, LenProperties
  <2>2. list[n - 1] \in Seq(Ids) /\ ids[n] \in Ids
    BY <1>2, <2>1, ElementOfSeq DEF Keeps
  <2>3. QED
    BY <2>1, <2>2 DEF Repeats
<1>4. list = [n \in 0 .. Len(ids) |->
               IF n = 0 THEN <<>>
               ELSE IF Contains(list[n - 1], ids[n]) THEN list[n - 1]
                                                    ELSE Append(list[n - 1], ids[n])]
  <2>1. list \in [0 .. Len(ids) -> Seq(Ids)] /\ list[0] = <<>>
    BY <1>2 DEF Keeps
  <2>2. \A n \in 0 .. Len(ids) :
          list[n] = IF n = 0 THEN <<>>
                    ELSE IF Contains(list[n - 1], ids[n]) THEN list[n - 1]
                                                          ELSE Append(list[n - 1], ids[n])
    BY <1>2, <1>3, <2>1 DEF Keeps
  <2>3. QED
    BY <2>1, <2>2
<1>5. ranked = [n \in 0 .. Len(ids) |->
               IF n = 0 THEN <<>>
               ELSE IF Contains(ranked[n - 1], ids[n]) THEN ranked[n - 1]
                                                    ELSE Append(ranked[n - 1], ids[n])]
  BY <1>4
<1> HIDE DEF ranked
<1> DEFINE G == {n \in 0 .. Len(ids) : ranked[n] = list[n]}
<1>6. 0 \in G /\ Len(ids) \in Nat
  BY <1>2, <1>4, <1>5, LenProperties
<1>7. ASSUME NEW n \in 0 .. Len(ids) - 1, n \in G PROVE n + 1 \in G
  <2>1. n + 1 \in 0 .. Len(ids) /\ n + 1 # 0 /\ (n + 1) - 1 = n
    BY <1>6
  <2>2. ranked[n + 1] = IF Contains(ranked[n], ids[n + 1]) THEN ranked[n]
                                                           ELSE Append(ranked[n], ids[n + 1])
    BY <1>5, <2>1
  <2>3. list[n + 1] = IF Contains(list[n], ids[n + 1]) THEN list[n]
                                                       ELSE Append(list[n], ids[n + 1])
    BY <1>4, <2>1
  <2>4. ranked[n] = list[n]
    BY <1>7
  <2>5. ranked[n + 1] = list[n + 1]
    BY <2>2, <2>3, <2>4
  <2>6. QED
    BY <2>1, <2>5
<1>8. \A n \in 0 .. Len(ids) : n \in G
  <2> HIDE DEF G
  <2>1. QED
    BY <1>6, <1>7, Induction
<1>9. QED
  BY <1>1, <1>2, <1>6, <1>8

\* Rank names the first place that holds an id.
LEMMA RankIsFirst ==
  ASSUME Listed \in Seq(Ids), NEW i \in 1 .. Len(Listed)
  PROVE  /\ Rank(Listed[i]) \in 1 .. i
         /\ Listed[Rank(Listed[i])] = Listed[i]
<1> DEFINE T == {k \in DOMAIN Listed : Listed[k] = Listed[i]}
<1>1. DOMAIN Listed = 1 .. Len(Listed) /\ Len(Listed) \in Nat
  BY LenProperties
<1>2. PICK m \in T : \A k \in T : m <= k
  <2>1. i \in T /\ T \in SUBSET Nat
    BY <1>1
  <2> HIDE DEF T
  <2>2. QED
    BY <2>1, Least
<1>3. Rank(Listed[i]) = CHOOSE x \in T : \A y \in T : x =< y
  BY DEF Rank, Min, Listed
<1>4. Rank(Listed[i]) \in T /\ \A k \in T : Rank(Listed[i]) <= k
  <2> HIDE DEF T
  <2>1. QED
    BY <1>2, <1>3
<1>5. QED
  BY <1>1, <1>4

\* The ids that the first n places of the pages hold, each at its rank.
RanksTo(s, n) ==
  /\ s \in Seq(Ids)
  /\ \A j \in 1 .. Len(s) : Rank(s[j]) \in 1 .. n /\ Listed[Rank(s[j])] = s[j]
  /\ \A k \in 1 .. n : Contains(s, Listed[k])
  /\ \A j, k \in 1 .. Len(s) : j < k => Rank(s[j]) < Rank(s[k])

\* One more id of the pages: a repeat changes nothing, a new one ranks last.
LEMMA RankStep ==
  ASSUME Listed \in Seq(Ids), NEW n \in 0 .. Len(Listed) - 1, NEW s, RanksTo(s, n),
         NEW t, t = IF Contains(s, Listed[n + 1]) THEN s ELSE Append(s, Listed[n + 1])
  PROVE  RanksTo(t, n + 1)
<1> DEFINE x == Listed[n + 1]
<1>1. s \in Seq(Ids) /\ Len(s) \in Nat /\ n \in Nat /\ n + 1 \in 1 .. Len(Listed) /\ x \in Ids
  BY LenProperties, ElementOfSeq DEF RanksTo
<1>2. CASE Contains(s, x)
  <2>1. t = s
    BY <1>2
  <2>2. \A k \in 1 .. n + 1 : k \in 1 .. n \/ k = n + 1
    BY <1>1
  <2>3. \A k \in 1 .. n + 1 : Contains(s, Listed[k])
    BY <1>2, <2>2 DEF RanksTo
  <2>4. \A j \in 1 .. Len(s) : Rank(s[j]) \in 1 .. n + 1
    BY <1>1 DEF RanksTo
  <2>5. QED
    BY <2>1, <2>3, <2>4 DEF RanksTo
<1>3. CASE ~Contains(s, x)
  <2>1. /\ t \in Seq(Ids) /\ Len(t) = Len(s) + 1
        /\ \A j \in 1 .. Len(s) : t[j] = s[j]
        /\ t[Len(s) + 1] = x
    BY <1>1, <1>3, AppendProperties
  <2>2. Rank(x) = n + 1 /\ Listed[Rank(x)] = x
    <3>1. Rank(x) \in 1 .. n + 1 /\ Listed[Rank(x)] = x
      BY <1>1, RankIsFirst
    <3>2. Rank(x) \notin 1 .. n
      BY <1>3, <3>1 DEF RanksTo
    <3>3. QED
      BY <1>1, <3>1, <3>2
  <2>3. \A j \in 1 .. Len(t) : j \in 1 .. Len(s) \/ j = Len(s) + 1
    BY <1>1, <2>1
  <2>4. \A j \in 1 .. Len(t) : Rank(t[j]) \in 1 .. n + 1 /\ Listed[Rank(t[j])] = t[j]
    <3>1. \A j \in 1 .. Len(s) : Rank(t[j]) \in 1 .. n + 1 /\ Listed[Rank(t[j])] = t[j]
      BY <1>1, <2>1 DEF RanksTo
    <3>2. n + 1 \in 1 .. n + 1
      BY <1>1
    <3>3. QED
      BY <2>1, <2>2, <2>3, <3>1, <3>2
  <2>5. \A k \in 1 .. n + 1 : Contains(t, Listed[k])
    <3>1. ASSUME NEW k \in 1 .. n PROVE Contains(t, Listed[k])
      <4>1. PICK j \in 1 .. Len(s) : s[j] = Listed[k]
        BY DEF RanksTo, Contains
      <4>2. j \in 1 .. Len(t) /\ t[j] = Listed[k]
        BY <1>1, <2>1, <4>1
      <4>3. QED
        BY <4>2 DEF Contains
    <3>2. Len(s) + 1 \in 1 .. Len(t)
      BY <1>1, <2>1
    <3>3. Contains(t, x)
      BY <2>1, <3>2 DEF Contains
    <3>4. \A k \in 1 .. n + 1 : k \in 1 .. n \/ k = n + 1
      BY <1>1
    <3>5. QED
      BY <3>1, <3>3, <3>4
  <2>6. \A j, k \in 1 .. Len(t) : j < k => Rank(t[j]) < Rank(t[k])
    <3> SUFFICES ASSUME NEW j \in 1 .. Len(t), NEW k \in 1 .. Len(t), j < k
                 PROVE  Rank(t[j]) < Rank(t[k])
      OBVIOUS
    <3>1. j \in 1 .. Len(s)
      BY <1>1, <2>1
    <3>2. CASE k \in 1 .. Len(s)
      BY <2>1, <3>1, <3>2 DEF RanksTo
    <3>3. CASE k = Len(s) + 1
      <4>1. Rank(t[k]) = n + 1
        BY <2>1, <2>2, <3>3
      <4>2. Rank(t[j]) \in 1 .. n
        BY <2>1, <3>1 DEF RanksTo
      <4>3. QED
        BY <1>1, <4>1, <4>2
    <3>4. QED
      BY <2>3, <3>2, <3>3
  <2>7. QED
    BY <2>1, <2>4, <2>5, <2>6 DEF RanksTo
<1>4. QED
  BY <1>2, <1>3

\* The rebuilt list ranks all places of the pages.
LEMMA RankedList ==
  ASSUME pageToIds \in [Pages -> Seq(Ids)]
  PROVE  RanksTo(rebuildTopIds, Len(Listed))
<1>1. Listed \in Seq(Ids) /\ Len(Listed) \in Nat
  BY ListedType, LenProperties
<1>2. PICK list : Keeps(list, Listed, Repeats)
  BY <1>1, KeepExists
<1> DEFINE G == {n \in 0 .. Len(Listed) : RanksTo(list[n], n)}
<1>3. 0 \in G
  <2>1. list[0] = <<>> /\ list[0] \in Seq(Ids) /\ Len(list[0]) = 0
    BY <1>1, <1>2, EmptySeq DEF Keeps
  <2>2. RanksTo(list[0], 0)
    BY <2>1 DEF RanksTo
  <2>3. QED
    BY <1>1, <2>2
<1>4. ASSUME NEW n \in 0 .. Len(Listed) - 1, n \in G PROVE n + 1 \in G
  <2>1. n + 1 \in 1 .. Len(Listed) /\ n + 1 \in 0 .. Len(Listed) /\ (n + 1) - 1 = n
        /\ n \in 0 .. Len(Listed)
    BY <1>1
  <2>2. list[n] \in Seq(Ids) /\ Listed[n + 1] \in Ids
    BY <1>1, <1>2, <2>1, ElementOfSeq DEF Keeps
  <2>3. list[n + 1] = IF <<list[n], Listed[n + 1]>> \in Repeats THEN list[n]
                                                   ELSE Append(list[n], Listed[n + 1])
    BY <1>2, <2>1 DEF Keeps
  <2>4. <<list[n], Listed[n + 1]>> \in Repeats <=> Contains(list[n], Listed[n + 1])
    BY <2>2 DEF Repeats
  <2>5. RanksTo(list[n + 1], n + 1)
    BY <1>1, <1>4, <2>3, <2>4, RankStep
  <2>6. QED
    BY <2>1, <2>5
<1>5. \A n \in 0 .. Len(Listed) : n \in G
  <2> HIDE DEF G
  <2>1. QED
    BY <1>1, <1>3, <1>4, Induction
<1>6. QED
  BY <1>1, <1>2, <1>5, Rebuilt

\* ListRanksPages in terms of the rebuilt list.
LEMMA RankedListIsListed ==
  ASSUME pageToIds \in [Pages -> Seq(Ids)]
  PROVE  /\ rebuildTopIds \in Seq(Ids)
         /\ ToSet(rebuildTopIds) = ToSet(FlattenSeq(pageToIds))
         /\ \A i, j \in DOMAIN rebuildTopIds :
              i < j => Rank(rebuildTopIds[i]) < Rank(rebuildTopIds[j])
<1> DEFINE R == rebuildTopIds
<1>1. RanksTo(R, Len(Listed))
  BY RankedList
<1> HIDE DEF R
<1>2. /\ R \in Seq(Ids) /\ DOMAIN R = 1 .. Len(R)
      /\ Listed \in Seq(Ids) /\ DOMAIN Listed = 1 .. Len(Listed)
  BY <1>1, ListedType, LenProperties DEF RanksTo
<1>3. \A i \in DOMAIN R : R[i] \in ToSet(Listed)
  BY <1>1, <1>2 DEF RanksTo, ToSet
<1>4. \A k \in DOMAIN Listed : Listed[k] \in ToSet(R)
  BY <1>1, <1>2 DEF RanksTo, ToSet, Contains
<1>5. ToSet(R) = ToSet(Listed)
  BY <1>3, <1>4 DEF ToSet
<1>6. QED
  BY <1>1, <1>2, <1>5 DEF RanksTo, Listed, R

\* Pages without ids make an empty list: a sequence over no ids is empty.
LEMMA EmptyPages ==
  FlattenSeq([p \in Pages |-> <<>>]) = <<>>
<1>1. [p \in Pages |-> <<>>] \in Seq(Seq({}))
  <2>1. <<>> \in Seq({})
    BY EmptySeq
  <2>2. [p \in Pages |-> <<>>] \in [1 .. NPages -> Seq({})]
    BY <2>1 DEF Pages
  <2>3. QED
    BY <2>2, TopIdsAssumption, SeqDef
<1>2. FlattenSeq([p \in Pages |-> <<>>]) \in Seq({})
  BY <1>1, FlattenType
<1>3. ASSUME NEW s \in Seq({}) PROVE s = <<>>
  <2>1. Len(s) = 0
    <3>1. SUFFICES ASSUME 1 \in 1 .. Len(s) PROVE FALSE
      BY LenProperties
    <3>2. s[1] \in {}
      BY <3>1, ElementOfSeq
    <3>3. QED
      BY <3>2
  <2>2. QED
    BY <2>1, EmptySeq
<1>4. QED
  BY <1>2, <1>3

-----------------------------------------------------------------------------
(* The limit of a check and the part of a tier.                            *)

\* The limit is the last position of a tier that no other tier ends behind.
LEMMA LimitIsMax ==
  /\ GetMaxIdLimit \in Nat \ {0}
  /\ \A t \in Tiers : IdTo[t] <= GetMaxIdLimit
<1> DEFINE Ends == {IdTo[t] : t \in Tiers}
           G == {n \in Tiers : \E m \in 1 .. n : \A k \in 1 .. n : IdTo[k] <= IdTo[m]}
<1>1. NTiers \in Nat /\ NTiers \in Tiers /\ 1 \in Tiers /\ \A t \in Tiers : IdTo[t] \in Nat \ {0}
  BY FetcherAssumption DEF Tiers
<1>2. 1 \in G
  <2>1. \A k \in 1 .. 1 : IdTo[k] <= IdTo[1]
    BY <1>1
  <2>2. QED
    BY <1>1, <2>1
<1>3. ASSUME NEW n \in 1 .. NTiers - 1, n \in G PROVE n + 1 \in G
  <2>1. PICK m \in 1 .. n : \A k \in 1 .. n : IdTo[k] <= IdTo[m]
    BY <1>3
  <2>2. /\ n + 1 \in Tiers /\ m \in 1 .. n + 1 /\ n + 1 \in 1 .. n + 1 /\ m \in Tiers
        /\ \A k \in 1 .. n + 1 : k \in 1 .. n \/ k = n + 1
        /\ \A k \in 1 .. n + 1 : k \in Tiers
    BY <1>1 DEF Tiers
  <2>3. CASE IdTo[n + 1] <= IdTo[m]
    <3>1. \A k \in 1 .. n + 1 : IdTo[k] <= IdTo[m]
      BY <2>1, <2>2, <2>3
    <3>2. QED
      BY <2>2, <3>1
  <2>4. CASE ~(IdTo[n + 1] <= IdTo[m])
    <3>1. ASSUME NEW k \in 1 .. n + 1 PROVE IdTo[k] <= IdTo[n + 1]
      <4>1. IdTo[k] \in Nat /\ IdTo[n + 1] \in Nat /\ IdTo[m] \in Nat
        BY <1>1, <2>2
      <4>2. k = n + 1 \/ IdTo[k] <= IdTo[m]
        BY <2>1, <2>2
      <4>3. QED
        BY <2>4, <4>1, <4>2
    <3>2. QED
      BY <2>2, <3>1
  <2>5. QED
    BY <2>3, <2>4
<1>4. NTiers \in G
  <2>1. \A n \in 1 .. NTiers : n \in G
    <3> HIDE DEF G
    <3>1. QED
      BY <1>1, <1>2, <1>3, Induction
  <2>2. QED
    BY <1>1, <2>1 DEF Tiers
<1>5. PICK m \in Tiers : \A k \in Tiers : IdTo[k] <= IdTo[m]
  BY <1>4 DEF Tiers
<1>6. \E x \in Ends : \A y \in Ends : x >= y
  <2>1. IdTo[m] \in Ends /\ \A y \in Ends : IdTo[m] >= y
    BY <1>1, <1>5
  <2>2. QED
    BY <2>1
<1>7. GetMaxIdLimit = CHOOSE x \in Ends : \A y \in Ends : x >= y
  BY DEF GetMaxIdLimit, Max
<1>8. GetMaxIdLimit \in Ends /\ \A y \in Ends : GetMaxIdLimit >= y
  <2> HIDE DEF Ends
  <2>1. QED
    BY <1>6, <1>7
<1>9. QED
  <2>1. PICK t \in Tiers : GetMaxIdLimit = IdTo[t]
    BY <1>8
  <2>2. \A u \in Tiers : GetMaxIdLimit >= IdTo[u]
    BY <1>8
  <2>3. QED
    BY <1>1, <2>1, <2>2

ListType ==
  /\ pageToIds \in [Pages -> Seq(Ids)] /\ topIds \in Seq(Ids) /\ dirty \in BOOLEAN
  /\ arrived \in Nat

LEMMA NowType ==
  ASSUME ListType
  PROVE  TopIdsNow \in Seq(Ids) /\ TopIdsUpTo(GetMaxIdLimit) \in Seq(Ids)
<1> DEFINE M == GetMaxIdLimit
<1>1. TopIdsNow \in Seq(Ids)
  BY RankedListIsListed DEF ListType, TopIdsNow
<1>2. CASE M <= 0 \/ M > Len(TopIdsNow)
  BY <1>1, <1>2 DEF TopIdsUpTo
<1>3. CASE ~(M <= 0 \/ M > Len(TopIdsNow))
  <2>1. TopIdsUpTo(M) = SubSeq(TopIdsNow, 1, M)
    BY <1>3 DEF TopIdsUpTo
  <2>2. Len(TopIdsNow) \in Nat /\ M \in Nat /\ M <= Len(TopIdsNow)
    BY <1>1, <1>3, LimitIsMax, LenProperties
  <2>3. \A i \in 1 .. M : TopIdsNow[i] \in Ids
    BY <1>1, <2>2, ElementOfSeq
  <2> HIDE DEF M
  <2>4. SubSeq(TopIdsNow, 1, M) \in Seq(Ids)
    BY <2>2, <2>3, SubSeqProperties
  <2>5. QED
    BY <1>1, <2>1, <2>4 DEF M
<1>4. QED
  BY <1>2, <1>3

LEMMA SliceType ==
  ASSUME NEW t \in Tiers, NEW list \in Seq(Ids)
  PROVE  Slice(t, list) \in Seq(Ids)
<1> DEFINE n == IF IdTo[t] < Len(list) THEN IdTo[t] ELSE Len(list)
<1>1. IdFrom[t] \in Nat \ {0} /\ n \in Int /\ Len(list) \in Nat /\ n <= Len(list)
  BY FetcherAssumption, LenProperties
<1>2. \A i \in IdFrom[t] .. n : list[i] \in Ids
  BY <1>1, ElementOfSeq
<1>3. Slice(t, list) = SubSeq(list, IdFrom[t], n)
  BY DEF Slice
<1> HIDE DEF n
<1>4. QED
  BY <1>1, <1>2, <1>3, SubSeqProperties

\* What a part of a sequence holds.
LEMMA PartOfSeq ==
  ASSUME NEW S, NEW s \in Seq(S), NEW a \in Nat \ {0}, NEW b \in Nat, b <= Len(s)
  PROVE  /\ ToSet(SubSeq(s, a, b)) = {s[i] : i \in a .. b}
         /\ ToSet(SubSeq(s, a, b)) \subseteq S
<1> DEFINE p == SubSeq(s, a, b)
<1>1. \A i \in a .. b : s[i] \in S
  BY LenProperties, ElementOfSeq
<1>2. /\ p \in Seq(S)
      /\ Len(p) = IF a <= b THEN b - a + 1 ELSE 0
      /\ \A i \in 1 .. b - a + 1 : p[i] = s[a + i - 1]
  BY <1>1, SubSeqProperties
<1> HIDE DEF p
<1>3. DOMAIN p = 1 .. b - a + 1
  BY <1>2, LenProperties
<1>4. ASSUME NEW i \in a .. b PROVE s[i] \in ToSet(p)
  <2>1. i - a + 1 \in 1 .. b - a + 1 /\ a + (i - a + 1) - 1 = i
    OBVIOUS
  <2>2. p[i - a + 1] = s[i]
    BY <1>2, <2>1
  <2>3. QED
    BY <1>3, <2>1, <2>2 DEF ToSet
<1>5. ASSUME NEW i \in DOMAIN p PROVE p[i] \in {s[k] : k \in a .. b}
  <2>1. a + i - 1 \in a .. b
    BY <1>3
  <2>2. QED
    BY <1>2, <1>3, <2>1
<1>6. ToSet(p) = {s[i] : i \in a .. b}
  BY <1>4, <1>5 DEF ToSet
<1>7. QED
  BY <1>1, <1>6 DEF p

\* A part of a prefix is a part of the sequence.
LEMMA SubSeqOfPrefix ==
  ASSUME NEW S, NEW s \in Seq(S), NEW m \in Nat, m <= Len(s),
         NEW i \in Nat, NEW j \in Nat, 1 <= i, i <= j, j <= m
  PROVE  SubSeq(SubSeq(s, 1, m), i, j) = SubSeq(s, i, j)
<1> DEFINE p == SubSeq(s, 1, m)
<1>1. Len(s) \in Nat /\ \A k \in 1 .. m : s[k] \in S
  BY LenProperties, ElementOfSeq
<1>2. \A k \in 1 .. m : p[k] = s[k]
  <2>1. \A k \in 1 .. m - 1 + 1 : p[k] = s[1 + k - 1]
    BY <1>1, SubSeqProperties
  <2>2. QED
    BY <2>1
<1> HIDE DEF p
<1>3. \A k \in i .. j : k \in 1 .. m /\ p[k] \in S /\ s[k] \in S
  BY <1>1, <1>2
<1>4. /\ SubSeq(p, i, j) \in Seq(S) /\ SubSeq(s, i, j) \in Seq(S)
      /\ Len(SubSeq(p, i, j)) = j - i + 1 /\ Len(SubSeq(s, i, j)) = j - i + 1
  BY <1>3, SubSeqProperties
<1>5. ASSUME NEW k \in 1 .. j - i + 1
      PROVE  SubSeq(p, i, j)[k] = SubSeq(s, i, j)[k]
  <2>1. i + k - 1 \in i .. j
    OBVIOUS
  <2>2. SubSeq(p, i, j)[k] = p[i + k - 1]
    BY <1>3, SubSeqProperties
  <2>3. SubSeq(s, i, j)[k] = s[i + k - 1]
    BY <1>3, SubSeqProperties
  <2>4. QED
    BY <1>2, <1>3, <2>1, <2>2, <2>3
<1>6. SubSeq(p, i, j) = SubSeq(s, i, j)
  BY <1>4, <1>5, SeqEqual
<1>7. QED
  BY <1>6 DEF p

ListInv == ListType /\ ListRanksPages

LEMMA ListUnchanged ==
  ASSUME ListInv, UNCHANGED marketVars
  PROVE  ListInv'
BY DEF ListInv, ListType, ListRanksPages, Rank, marketVars, topVars

\* An update makes the list dirty, so that nothing is claimed of it.
LEMMA UpdateKeepsList ==
  ASSUME ListInv, UpdatePages
  PROVE  ListInv'
<1> DEFINE pagesData == Updates[arrived + 1]
<1>1. UpdatePagesFromPageData(pagesData) /\ arrived < Len(Updates)
  BY DEF UpdatePages
<1>2. arrived + 1 \in DOMAIN Updates /\ arrived' \in Nat
  BY <1>1, FetcherAssumption DEF UpdatePages, ListInv, ListType
<1>3. \A p \in DOMAIN pagesData : pagesData[p] \in Seq(Ids)
  BY <1>2, FetcherAssumption
<1>4. QED
  BY <1>1, <1>2, <1>3 DEF ListInv, ListType, ListRanksPages, UpdatePagesFromPageData

LEMMA InitialList ==
  ASSUME Init
  PROVE  ListInv
<1>1. /\ pageToIds = [p \in Pages |-> <<>>] /\ topIds = <<>> /\ dirty = FALSE
      /\ arrived \in Nat
  BY DEF Init, TopInit
<1>2. <<>> \in Seq(Ids) /\ DOMAIN <<>> = {}
  BY EmptySeq
<1>3. FlattenSeq(pageToIds) = <<>>
  BY <1>1, EmptyPages
<1>4. QED
  BY <1>1, <1>2, <1>3 DEF ListInv, ListType, ListRanksPages

LEMMA ClearKeepsList ==
  ASSUME Clear, arrived' \in Nat
  PROVE  ListInv'
<1>1. <<>> \in Seq(Ids) /\ DOMAIN <<>> = {} 
  BY EmptySeq
<1>2. FlattenSeq(pageToIds') = <<>>
  BY EmptyPages DEF Clear
<1>3. QED
  BY <1>1, <1>2 DEF ListInv, ListType, ListRanksPages, Clear

\* A reader rebuilds a dirty list, and leaves one that is clean.
LEMMA ReadKeepsList ==
  ASSUME ListInv, GetTopIds, UNCHANGED arrived
  PROVE  ListInv'
<1>1. topIds' = TopIdsNow /\ dirty' = FALSE /\ pageToIds' = pageToIds
  BY DEF GetTopIds
<1>2. ListType'
  BY <1>1, NowType DEF ListInv, ListType
<1>3. /\ ToSet(topIds') = ToSet(FlattenSeq(pageToIds))
      /\ \A i, j \in DOMAIN topIds' : i < j => Rank(topIds'[i]) < Rank(topIds'[j])
  BY <1>1, RankedListIsListed DEF ListInv, ListType, ListRanksPages, TopIdsNow
<1>4. ListRanksPages'
  BY <1>1, <1>3 DEF ListRanksPages, Rank
<1>5. QED
  BY <1>2, <1>4 DEF ListInv

LEMMA ListStep ==
  ASSUME ListInv, [Next]_vars
  PROVE  ListInv'
<1>1. CASE UpdatePages
  BY <1>1, UpdateKeepsList
<1>2. CASE ClearPages
  BY <1>2, ClearKeepsList, FetcherAssumption DEF ClearPages
<1>3. ASSUME NEW t \in Tiers, BecomeDue(t) \/ GetStuck(t) \/ Reset(t) PROVE ListInv'
  BY <1>3, ListUnchanged DEF BecomeDue, GetStuck, Reset
<1>4. ASSUME NEW w \in Checks, CheckBegin(w) PROVE ListInv'
  BY <1>4, ReadKeepsList DEF CheckBegin
<1>5. ASSUME NEW w \in Checks, CheckTier(w) PROVE ListInv'
  BY <1>5, ListUnchanged DEF CheckTier
<1>6. ASSUME NEW f \in Fetches, FetchStep(f) PROVE ListInv'
  BY <1>6, ListUnchanged DEF FetchStep, FetchBegin, FetchChunk, FetchExtraIds, Fail,
     FailChunk, FailExtraIds, FetchStore, FetchUpdate, FetchReturn
<1>7. CASE UNCHANGED vars
  BY <1>7, ListUnchanged DEF vars
<1>8. QED
  BY <1>1, <1>2, <1>3, <1>4, <1>5, <1>6, <1>7 DEF Next

\* After any updates, clears and reads a list that is not dirty holds the ids
\* of the pages, each once and in the pages' order (rebuildTopIds and the dirty
\* flag of top_ids.go).
THEOREM ListsRankPages == Spec => []ListRanksPages
<1>1. Init => ListInv
  BY InitialList
<1>2. ListInv /\ [Next]_vars => ListInv'
  BY ListStep
<1>3. ListInv => ListRanksPages
  BY DEF ListInv
<1>4. QED
  BY <1>1, <1>2, <1>3, PTL DEF Spec

\* To read no more of the list than the end of the last tier takes no id from
\* any tier.
LimitKeepsTiers ==
  \A t \in Tiers : Slice(t, TopIdsUpTo(GetMaxIdLimit)) = Slice(t, TopIdsNow)

\* GetMaxIdLimit is never too low: whatever the tiers and in whatever order
\* they are listed, each one's part of the limited list is its part of all.
THEOREM LimitsKeepTiers == Spec => []LimitKeepsTiers
<1> DEFINE M == GetMaxIdLimit
           list == TopIdsNow
<1>1. ASSUME ListInv, NEW t \in Tiers, ~(M <= 0 \/ M > Len(list))
      PROVE  Slice(t, TopIdsUpTo(M)) = Slice(t, list)
  <2>1. TopIdsUpTo(M) = SubSeq(list, 1, M)
    BY <1>1 DEF TopIdsUpTo
  <2>2. list \in Seq(Ids) /\ Len(list) \in Nat /\ M \in Nat /\ 1 <= M /\ M <= Len(list)
    BY <1>1, LimitIsMax, NowType, LenProperties DEF ListInv
  <2>3. IdFrom[t] \in Nat /\ IdTo[t] \in Nat /\ 1 <= IdFrom[t] /\ IdFrom[t] <= IdTo[t]
        /\ IdTo[t] <= M
    BY FetcherAssumption, LimitIsMax
  <2> HIDE DEF M, list
  <2>4. Len(SubSeq(list, 1, M)) = M
    <3>1. \A i \in 1 .. M : list[i] \in Ids
      BY <2>2, ElementOfSeq
    <3>2. Len(SubSeq(list, 1, M)) = IF 1 <= M THEN M - 1 + 1 ELSE 0
      BY <2>2, <3>1, SubSeqProperties
    <3>3. QED
      BY <2>2, <3>2
  <2>5. Slice(t, SubSeq(list, 1, M)) = SubSeq(SubSeq(list, 1, M), IdFrom[t], IdTo[t])
    <3>1. (IF IdTo[t] < M THEN IdTo[t] ELSE M) = IdTo[t]
      BY <2>2, <2>3
    <3>2. QED
      BY <2>4, <3>1 DEF Slice
  <2>6. Slice(t, list) = SubSeq(list, IdFrom[t], IdTo[t])
    <3>1. (IF IdTo[t] < Len(list) THEN IdTo[t] ELSE Len(list)) = IdTo[t]
      BY <2>2, <2>3
    <3>2. QED
      BY <3>1 DEF Slice
  <2>7. QED
    BY <2>1, <2>2, <2>3, <2>5, <2>6, SubSeqOfPrefix
<1>2. ListInv => LimitKeepsTiers
  BY <1>1 DEF LimitKeepsTiers, TopIdsUpTo
<1>3. Init => ListInv
  BY InitialList
<1>4. ListInv /\ [Next]_vars => ListInv'
  BY ListStep
<1>5. QED
  BY <1>2, <1>3, <1>4, PTL DEF Spec

\* No id is at two places of the list.
LEMMA NowIsInjective ==
  ASSUME ListInv, NEW i \in DOMAIN TopIdsNow, NEW j \in DOMAIN TopIdsNow, i # j
  PROVE  TopIdsNow[i] # TopIdsNow[j]
<1> DEFINE list == TopIdsNow
<1>1. /\ list \in Seq(Ids) /\ ToSet(list) = ToSet(Listed)
      /\ \A k, l \in DOMAIN list : k < l => Rank(list[k]) < Rank(list[l])
  BY NowType, RankedListIsListed DEF ListInv, ListType, ListRanksPages, TopIdsNow, Listed
<1>2. Listed \in Seq(Ids)
  BY ListedType DEF ListInv, ListType
<1> HIDE DEF list
<1>3. i \in Nat /\ j \in Nat
  BY <1>1, LenProperties DEF list
<1>4. Rank(list[i]) \in Nat
  <2>1. PICK k \in DOMAIN Listed : list[i] = Listed[k]
    BY <1>1 DEF ToSet, list
  <2>2. k \in 1 .. Len(Listed)
    BY <1>2, <2>1, LenProperties
  <2>3. Rank(Listed[k]) \in 1 .. k
    BY <1>2, <2>2, RankIsFirst
  <2>4. QED
    BY <2>1, <2>3
<1>5. ~(Rank(list[i]) < Rank(list[i]))
  BY <1>4
<1>6. list[i] # list[j]
  <2>1. CASE i < j
    BY <1>1, <1>5, <2>1 DEF list
  <2>2. CASE j < i
    BY <1>1, <1>5, <2>2 DEF list
  <2>3. QED
    BY <1>3, <2>1, <2>2
<1>7. QED
  BY <1>6 DEF list

\* Two tiers of the same list have no id in common.
TiersShareNoId ==
  \A t, u \in Tiers :
    t # u => ToSet(Slice(t, TopIdsNow)) \cap ToSet(Slice(u, TopIdsNow)) = {}

\* Ranges that Validate accepts, cut from a list of unique ids, send no id to
\* two tiers: no two of them request and store the same coin.
THEOREM TiersAreDisjoint == Spec => []TiersShareNoId
<1> DEFINE list == TopIdsNow
           end(t) == IF IdTo[t] < Len(list) THEN IdTo[t] ELSE Len(list)
<1>1. ASSUME ListInv, NEW t \in Tiers
      PROVE  /\ ToSet(Slice(t, list)) = {list[i] : i \in IdFrom[t] .. end(t)}
             /\ \A i \in IdFrom[t] .. end(t) : i \in DOMAIN list /\ i \in IdFrom[t] .. IdTo[t]
  <2>1. list \in Seq(Ids) /\ Len(list) \in Nat /\ DOMAIN list = 1 .. Len(list)
    BY <1>1, NowType, LenProperties DEF ListInv
  <2>2. IdFrom[t] \in Nat \ {0} /\ IdTo[t] \in Nat
    BY FetcherAssumption
  <2> HIDE DEF list
  <2>3. end(t) \in Nat /\ end(t) <= Len(list) /\ end(t) <= IdTo[t]
    BY <2>1, <2>2
  <2>4. Slice(t, list) = SubSeq(list, IdFrom[t], end(t))
    BY DEF Slice
  <2> HIDE DEF end
  <2>5. QED
    BY <2>1, <2>2, <2>3, <2>4, PartOfSeq
<1>2. ASSUME ListInv PROVE TiersShareNoId
  <2> SUFFICES ASSUME NEW t \in Tiers, NEW u \in Tiers, t # u,
                      NEW x \in ToSet(Slice(t, list)) \cap ToSet(Slice(u, list))
               PROVE  FALSE
    BY DEF TiersShareNoId
  <2> HIDE DEF list, end
  <2>1. PICK i \in IdFrom[t] .. end(t) : x = list[i]
    BY <1>1, <1>2
  <2>2. PICK j \in IdFrom[u] .. end(u) : x = list[j]
    BY <1>1, <1>2
  <2>3. /\ i \in DOMAIN list /\ i \in IdFrom[t] .. IdTo[t]
        /\ j \in DOMAIN list /\ j \in IdFrom[u] .. IdTo[u]
    BY <1>1, <1>2
  <2>4. i # j
    <3>1. IdTo[t] < IdFrom[u] \/ IdTo[u] < IdFrom[t]
      BY FetcherAssumption
    <3>2. /\ IdFrom[t] \in Nat /\ IdFrom[u] \in Nat /\ IdTo[t] \in Nat /\ IdTo[u] \in Nat
      BY FetcherAssumption
    <3>3. QED
      BY <2>3, <3>1, <3>2
  <2>5. QED
    BY <1>2, <2>1, <2>2, <2>3, <2>4, NowIsInjective DEF list
<1>3. Init => ListInv
  BY InitialList
<1>4. ListInv /\ [Next]_vars => ListInv'
  BY ListStep
<1>5. QED
  BY <1>2, <1>3, <1>4, PTL DEF Spec

-----------------------------------------------------------------------------
(* Chunks.                                                                 *)

\* The length of the ids after `start`, up to each position.
TotalLength(lengths, start) ==
  LET total[end \in start .. Len(lengths)] ==
        IF end = start THEN 0 ELSE total[end - 1] + lengths[end]
  IN total

LEMMA TotalLengthIsSum ==
  ASSUME NEW lengths \in Seq(Nat), NEW start \in 0 .. Len(lengths)
  PROVE  LET total == TotalLength(lengths, start) IN
         /\ total \in [start .. Len(lengths) -> Nat]
         /\ total[start] = 0
         /\ \A end \in start + 1 .. Len(lengths) : total[end] = total[end - 1] + lengths[end]
<1> DEFINE L == Len(lengths)
           total[end \in start .. L] == IF end = start THEN 0 ELSE total[end - 1] + lengths[end]
           step == [q \in Nat \X (start + 1 .. L) |-> q[1] + lengths[q[2]]]
<1>1. start \in Nat /\ L \in Nat /\ start <= L /\ \A i \in 1 .. L : lengths[i] \in Nat
  BY LenProperties, ElementOfSeq
<1>2. PICK f \in [start .. L -> Nat] : Recursive(f, start, L, 0, step)
  <2>1. step \in [Nat \X (start + 1 .. L) -> Nat]
    <3>1. ASSUME NEW q \in Nat \X (start + 1 .. L) PROVE q[1] + lengths[q[2]] \in Nat
      <4>1. q[1] \in Nat /\ q[2] \in 1 .. L
        BY <1>1
      <4>2. QED
        BY <1>1, <4>1
    <3>2. QED
      BY <3>1
  <2> HIDE DEF step, L
  <2>2. QED
    BY <1>1, <2>1, Recursion
<1>3. f = [end \in start .. L |-> IF end = start THEN 0 ELSE f[end - 1] + lengths[end]]
  <2>1. ASSUME NEW end \in start .. L, end # start
        PROVE  step[<<f[end - 1], end>>] = f[end - 1] + lengths[end]
    <3>1. end - 1 \in start .. L /\ end \in start + 1 .. L
      BY <1>1, <2>1
    <3>2. <<f[end - 1], end>> \in Nat \X (start + 1 .. L)
      BY <3>1
    <3>3. QED
      BY <3>2
  <2>2. f = [end \in start .. L |-> IF end = start THEN 0 ELSE step[<<f[end - 1], end>>]]
    BY <1>2 DEF Recursive
  <2>3. QED
    BY <2>1, <2>2
<1>4. total = [end \in start .. L |-> IF end = start THEN 0 ELSE total[end - 1] + lengths[end]]
  BY <1>3
<1>5. TotalLength(lengths, start) = total
  BY DEF TotalLength
<1> HIDE DEF total
<1> DEFINE G == {end \in start .. L : total[end] \in Nat}
<1>6. start \in G /\ total[start] = 0
  BY <1>1, <1>4
<1>7. \A end \in start + 1 .. L : total[end] = total[end - 1] + lengths[end]
  <2>1. ASSUME NEW end \in start + 1 .. L PROVE end \in start .. L /\ end # start
    BY <1>1
  <2>2. QED
    BY <1>4, <2>1
<1>8. ASSUME NEW n \in start .. L - 1, n \in G PROVE n + 1 \in G
  <2>1. n + 1 \in start + 1 .. L /\ (n + 1) - 1 = n /\ n + 1 \in 1 .. L /\ n + 1 \in start .. L
    BY <1>1
  <2>2. total[n + 1] = total[n] + lengths[n + 1]
    BY <1>7, <2>1
  <2>3. QED
    BY <1>1, <1>8, <2>1, <2>2
<1>9. \A n \in start .. L : n \in G
  <2> HIDE DEF G, L
  <2>1. QED
    BY <1>1, <1>6, <1>8, Induction
<1>10. total \in [start .. L -> Nat]
  BY <1>4, <1>9
<1>11. QED
  BY <1>5, <1>6, <1>7, <1>10

\* What the ids up to end may do in one request.
Fits(lengths, start, itemsLimit, lengthLimit, end) ==
  /\ end - start <= itemsLimit
  /\ lengthLimit > 0 => TotalLength(lengths, start)[end] <= lengthLimit

\* Each chunk takes at least one id and no more than the limits allow, unless
\* its only id is too long by itself, and it ends only where the next id would
\* not fit: the loop of processInChunks ends, no request is too long that could
\* be shorter, and none is sent that could be saved.
THEOREM ChunksFit ==
  ASSUME NEW lengths \in Seq(Nat), NEW start \in 0 .. Len(lengths) - 1,
         NEW itemsLimit \in Nat \ {0}, NEW lengthLimit \in Nat
  PROVE  LET end == ChunkEnd(lengths, start, itemsLimit, lengthLimit) IN
         /\ end \in start + 1 .. Len(lengths)
         /\ end = start + 1 \/ Fits(lengths, start, itemsLimit, lengthLimit, end)
         /\ end - start <= itemsLimit
         /\ end < Len(lengths) => ~Fits(lengths, start, itemsLimit, lengthLimit, end + 1)
<1> DEFINE L == Len(lengths)
           total == TotalLength(lengths, start)
           fits(end) == Fits(lengths, start, itemsLimit, lengthLimit, end)
           EndsAt(end) == /\ \A i \in start + 1 .. end : fits(i)
                          /\ end < L => ~fits(end + 1)
           last == CHOOSE end \in start .. L : EndsAt(end)
<1>1. start \in Nat /\ L \in Nat /\ start < L /\ start \in 0 .. L
      /\ \A i \in 1 .. L : lengths[i] \in Nat
  BY LenProperties, ElementOfSeq
<1>2. /\ total \in [start .. L -> Nat] /\ total[start] = 0
      /\ \A end \in start + 1 .. L : total[end] = total[end - 1] + lengths[end]
  BY <1>1, TotalLengthIsSum
<1>3. ChunkEnd(lengths, start, itemsLimit, lengthLimit) = IF last = start THEN start + 1 ELSE last
  BY DEF ChunkEnd, TotalLength, Fits
<1> HIDE DEF L, total
<1>4. \E end \in start .. L : EndsAt(end)
  <2> DEFINE T == {end \in start .. L : end = L \/ ~fits(end + 1)}
  <2>1. T \in SUBSET Nat /\ L \in T
    BY <1>1
  <2>2. PICK m \in T : \A n \in T : m <= n
    <3> HIDE DEF T
    <3>1. QED
      BY <2>1, Least
  <2>3. ASSUME NEW i \in start + 1 .. m PROVE fits(i)
    <3>1. i - 1 \in start .. L /\ ~(m <= i - 1) /\ (i - 1) + 1 = i
      BY <1>1, <2>2
    <3>2. i - 1 \notin T
      BY <2>2, <3>1
    <3> HIDE DEF fits
    <3>3. QED
      BY <3>1, <3>2
  <2>4. m < L => ~fits(m + 1)
    BY <1>1, <2>2
  <2>5. QED
    BY <2>2, <2>3, <2>4
<1>5. last \in start .. L /\ EndsAt(last)
  <2> HIDE DEF EndsAt
  <2>1. QED
    BY <1>4
<1> HIDE DEF last
<1>6. CASE last # start
  <2>1. last \in start + 1 .. L
    BY <1>1, <1>5, <1>6
  <2>2. fits(last) /\ last - start <= itemsLimit
    <3>1. last \in start + 1 .. last
      BY <1>1, <2>1
    <3>2. fits(last)
      BY <1>5, <3>1
    <3>3. QED
      BY <3>2 DEF Fits
  <2>3. QED
    BY <1>3, <1>5, <1>6, <2>1, <2>2 DEF L
<1>7. CASE last = start
  <2>1. ~fits(start + 1)
    BY <1>1, <1>5, <1>7
  <2>2. 1 <= itemsLimit /\ (start + 1) - start = 1 /\ itemsLimit \in Nat
    BY <1>1
  <2>3. lengthLimit > 0 /\ ~(total[start + 1] <= lengthLimit)
    BY <2>1, <2>2 DEF Fits, total
  <2>4. ASSUME start + 1 < L PROVE ~fits(start + 1 + 1)
    <3>1. start + 1 \in start .. L /\ start + 1 + 1 \in start + 1 .. L
          /\ (start + 1 + 1) - 1 = start + 1 /\ start + 1 + 1 \in 1 .. L
      BY <1>1, <2>4
    <3>2. total[start + 1 + 1] = total[start + 1] + lengths[start + 1 + 1]
          /\ total[start + 1] \in Nat /\ lengths[start + 1 + 1] \in Nat
      BY <1>1, <1>2, <3>1
    <3>3. ~(total[start + 1 + 1] <= lengthLimit)
      BY <2>3, <3>2
    <3>4. QED
      BY <2>3, <3>3 DEF Fits, total
  <2>5. start + 1 \in start + 1 .. L
    BY <1>1
  <2>6. QED
    BY <1>3, <1>7, <2>2, <2>4, <2>5 DEF L
<1>8. QED
  BY <1>6, <1>7

-----------------------------------------------------------------------------
(* Types, and refreshes of a whole tier.                                   *)

\* What is in the cache, or will never be.
Covered == cached \cup (IF Batch THEN Unknown ELSE {})

\* The ids of the chunks behind a fetch are covered, and all of them once it
\* has left the loop with success.  Until then a chunk is left.
Holds(r, covered) ==
  /\ r.state # "idle" => r.tier \in Tiers
  /\ r.state \in {"chunks", "extraIds", "extra", "store", "update"} => r.ids # <<>>
  /\ r.state = "chunks" =>
       r.done < Len(r.ids) /\ \A i \in 1 .. r.done : r.ids[i] \in covered
  /\ r.state = "extra" => r.done < Len(r.missing)
  /\ r.state \in {"extraIds", "extra", "store", "update"} => ToSet(r.ids) \subseteq covered

\* Where each fetch is, and what it may rely on.
FetchInv ==
  /\ fetch \in [Fetches -> FetchState]
  /\ cached \subseteq Ids
  /\ \A f \in Fetches : Holds(fetch[f], Covered)

\* The types of what checks, marks and resets change.
CheckInv ==
  /\ arrived \in 0 .. Len(Updates) + 1
  /\ mark \in [Tiers -> {"none", "recent", "stuck"}]
  /\ resets \in [Tiers -> 0 .. MaxResets]
  /\ next \in [Checks -> 0 .. NTiers] /\ allIds \in [Checks -> Seq(Ids)]
  /\ initialized \in BOOLEAN

RefreshInv ==
  /\ due \subseteq Tiers
  /\ refreshed \in [Tiers -> Seq(Ids)]
  /\ RefreshIsWhole

Inv == ListInv /\ FetchInv /\ CheckInv /\ RefreshInv

\* Only f's record changes, and the cache only grows.
LEMMA OneFetch ==
  ASSUME FetchInv, NEW f \in Fetches, NEW r \in FetchState, fetch' = [fetch EXCEPT ![f] = r],
         cached \subseteq cached', cached' \subseteq Ids, Holds(r, Covered')
  PROVE  FetchInv'
<1>1. Covered \subseteq Covered'
  BY DEF Covered
<1>2. \A g \in Fetches : fetch'[g] = IF g = f THEN r ELSE fetch[g]
  BY DEF FetchInv
<1>3. ASSUME NEW g \in Fetches PROVE Holds(fetch'[g], Covered')
  <2>1. CASE g = f
    BY <1>2, <2>1
  <2>2. CASE g # f
    <3>1. Holds(fetch[g], Covered) /\ fetch'[g] = fetch[g]
      BY <1>2, <2>2 DEF FetchInv
    <3>2. QED
      BY <1>1, <3>1 DEF Holds
  <2>3. QED
    BY <2>1, <2>2
<1>4. fetch' \in [Fetches -> FetchState]
  BY DEF FetchInv
<1>5. QED
  BY <1>3, <1>4 DEF FetchInv

LEMMA FetchUnchanged ==
  ASSUME FetchInv, UNCHANGED <<fetch, cached>>
  PROVE  FetchInv'
BY DEF FetchInv, Covered

LEMMA RefreshUnchanged ==
  ASSUME RefreshInv, UNCHANGED <<due, refreshed>>, cached \subseteq cached'
  PROVE  RefreshInv'
BY DEF RefreshInv, RefreshIsWhole

LEMMA NonEmpty ==
  ASSUME NEW s \in Seq(Ids), s # <<>>
  PROVE  0 < Len(s)
BY LenProperties, EmptySeq

\* A step that sets all fields of a fetch but its tier.
LEMMA SetFetchRecord ==
  ASSUME FetchInv, NEW f \in Fetches, fetch[f].state # "idle",
         NEW state \in {"chunks", "extraIds", "extra", "store", "update", "return"},
         NEW ids \in Seq(Ids), NEW missing \in Seq(Ids), NEW done \in Nat, NEW data \in SUBSET Ids,
         SetFetch(f, state, ids, missing, done, data),
         cached \subseteq cached', cached' \subseteq Ids,
         state # "return" => ids # <<>>,
         state \in {"chunks", "extra"} => done = 0,
         state = "extra" => missing # <<>>,
         state \in {"extraIds", "extra", "store", "update"} => ToSet(ids) \subseteq Covered'
  PROVE  FetchInv'
<1> DEFINE r == [state |-> state, tier |-> fetch[f].tier, ids |-> ids,
                 missing |-> missing, done |-> done, data |-> data]
<1>1. fetch[f] \in FetchState /\ fetch[f].tier \in Tiers
  BY DEF FetchInv, Holds
<1>2. r \in FetchState
  BY <1>1 DEF FetchState
<1>3. Holds(r, Covered')
  <2>1. state = "chunks" => done < Len(ids) /\ \A i \in 1 .. done : ids[i] \in Covered'
    BY NonEmpty
  <2>2. state = "extra" => done < Len(missing)
    BY NonEmpty
  <2>3. QED
    BY <1>1, <2>1, <2>2 DEF Holds
<1>4. fetch' = [fetch EXCEPT ![f] = r]
  BY DEF SetFetch
<1> HIDE DEF r
<1>5. QED
  BY <1>2, <1>3, <1>4, OneFetch

LEMMA WholeBegin ==
  ASSUME FetchInv, NEW f \in Fetches, FetchBegin(f)
  PROVE  FetchInv'
<1> DEFINE ids == Slice(fetch[f].tier, fetch[f].ids)
           state == IF ids = <<>> THEN "return" ELSE "chunks"
<1>1. fetch[f] \in FetchState /\ fetch[f].state = "spawned" /\ fetch[f].tier \in Tiers
  BY DEF FetchInv, Holds, FetchBegin
<1>2. ids \in Seq(Ids) /\ <<>> \in Seq(Ids)
  BY <1>1, SliceType, EmptySeq DEF FetchState
<1>3. SetFetch(f, state, ids, <<>>, 0, {}) /\ UNCHANGED cached
  BY DEF FetchBegin
<1>4. /\ state \in {"chunks", "extraIds", "extra", "store", "update", "return"}
      /\ state # "return" => ids # <<>>
      /\ state \notin {"extraIds", "extra", "store", "update"}
  OBVIOUS
<1>5. cached' \subseteq Ids /\ cached \subseteq cached' /\ {} \in SUBSET Ids
      /\ fetch[f].state # "idle"
  BY <1>1, <1>3 DEF FetchInv
<1> HIDE DEF ids, state
<1>6. QED
  BY <1>1, <1>2, <1>3, <1>4, <1>5, SetFetchRecord

\* A chunk of ids takes one at least, and no more than there are.
LEMMA ChunkOfIds ==
  ASSUME NEW ids \in Seq(Ids), NEW done \in Nat, done < Len(ids)
  PROVE  LET lengths == [i \in 1 .. Len(ids) |-> IdLength[ids[i]]]
             itemsLimit == IF Batch THEN ChunkSize ELSE 1
         IN ChunkEnd(lengths, done, itemsLimit, MaxChunkStringLength) \in done + 1 .. Len(ids)
<1> DEFINE lengths == [i \in 1 .. Len(ids) |-> IdLength[ids[i]]]
           itemsLimit == IF Batch THEN ChunkSize ELSE 1
<1>1. Len(ids) \in Nat /\ \A i \in 1 .. Len(ids) : IdLength[ids[i]] \in Nat
  BY LenProperties, ElementOfSeq, FetcherAssumption
<1>2. lengths \in Seq(Nat) /\ Len(lengths) = Len(ids)
  BY <1>1, IsASeq, LenProperties
<1>3. itemsLimit \in Nat \ {0} /\ MaxChunkStringLength \in Nat
  BY FetcherAssumption
<1> HIDE DEF lengths, itemsLimit
<1>4. done \in 0 .. Len(lengths) - 1
  BY <1>1, <1>2
<1>5. QED
  BY <1>2, <1>3, <1>4, ChunksFit DEF lengths, itemsLimit

\* The chunk that was received, of the tier's ids or of the extra ones.
LEMMA WholeChunk ==
  ASSUME FetchInv, NEW f \in Fetches, FetchChunk(f)
  PROVE  FetchInv' /\ cached \subseteq cached'
<1> DEFINE r == fetch[f]
           extra == r.state = "extra"
           ids == IF extra THEN r.missing ELSE r.ids
           done == r.done
           lengths == [i \in 1 .. Len(ids) |-> IdLength[ids[i]]]
           end == ChunkEnd(lengths, done, IF Batch THEN ChunkSize ELSE 1, MaxChunkStringLength)
           chunk == ToSet(SubSeq(ids, done + 1, end))
           SomeLeft == end < Len(ids) /\ fetch' = [fetch EXCEPT ![f].done = end]
           NoneLeft == /\ end = Len(ids)
                       /\ SetFetch(f, IF extra THEN "store" ELSE "extraIds", r.ids,
                                   <<>>, 0, r.data \cup (ToSet(ids) \ Unknown))
<1>1. /\ r \in FetchState /\ r.state \in {"chunks", "extra"} /\ r.tier \in Tiers
      /\ Holds(r, Covered)
  BY DEF FetchInv, Holds, FetchChunk
<1>2. ids \in Seq(Ids) /\ done \in Nat /\ Len(ids) \in Nat /\ r.ids \in Seq(Ids)
      /\ r.data \subseteq Ids
  BY <1>1, LenProperties DEF FetchState
<1>3. /\ Batch \/ chunk \cap Unknown = {}
      /\ cached' = cached \cup (chunk \ Unknown)
      /\ SomeLeft \/ NoneLeft
  BY DEF FetchChunk
<1> HIDE DEF SomeLeft, NoneLeft
<1>4. end \in done + 1 .. Len(ids) /\ end \in Nat
  <2>1. done < Len(ids)
    BY <1>1 DEF Holds
  <2> HIDE DEF ids, done
  <2>2. end \in done + 1 .. Len(ids)
    BY <1>2, <2>1, ChunkOfIds
  <2>3. QED
    BY <1>2, <2>2
<1> HIDE DEF end
<1>5. chunk = {ids[i] : i \in done + 1 .. end} /\ chunk \subseteq Ids
  <2> HIDE DEF ids, done
  <2>1. done + 1 \in Nat \ {0}
    BY <1>2
  <2>2. QED
    BY <1>2, <1>4, <2>1, PartOfSeq
<1>6. cached' = cached \cup (chunk \ Unknown) /\ (Batch \/ chunk \cap Unknown = {})
  BY <1>3
<1>7. cached \subseteq cached' /\ cached' \subseteq Ids /\ chunk \subseteq Covered'
  <2> HIDE DEF chunk
  <2>1. QED
    BY <1>5, <1>6 DEF FetchInv, Covered
<1>8. ~extra => \A i \in 1 .. end : ids[i] \in Covered'
  <2> SUFFICES ASSUME ~extra, NEW i \in 1 .. end PROVE ids[i] \in Covered'
    OBVIOUS
  <2>1. CASE i \in 1 .. done
    <3>1. ids[i] \in Covered
      BY <1>1, <2>1 DEF Holds
    <3>2. QED
      BY <1>7, <3>1 DEF Covered
  <2>2. CASE i \in done + 1 .. end
    <3> HIDE DEF ids, done, chunk
    <3>1. QED
      BY <1>5, <1>7, <2>2
  <2>3. QED
    BY <1>2, <1>4, <2>1, <2>2
<1>9. extra => ToSet(r.ids) \subseteq Covered'
  <2>1. extra => ToSet(r.ids) \subseteq Covered
    BY <1>1 DEF Holds
  <2>2. QED
    BY <1>7, <2>1 DEF Covered
<1>10. CASE SomeLeft
  <2> USE DEF SomeLeft
  <2> DEFINE q == [r EXCEPT !.done = end]
  <2>1. fetch' = [fetch EXCEPT ![f] = q]
    BY <1>10
  <2>2. /\ q \in FetchState
        /\ q.state = r.state /\ q.tier = r.tier /\ q.ids = r.ids /\ q.missing = r.missing
        /\ q.done = end
    BY <1>1, <1>4 DEF FetchState
  <2>3. Holds(q, Covered')
    <3>1. /\ q.state = "chunks" =>
                 q.done < Len(q.ids) /\ \A i \in 1 .. q.done : q.ids[i] \in Covered'
          /\ q.state = "extra" => q.done < Len(q.missing)
      BY <1>1, <1>8, <1>10, <2>2
    <3>2. q.state \in {"extraIds", "extra", "store", "update"} => ToSet(q.ids) \subseteq Covered'
      BY <1>1, <1>9, <2>2
    <3>3. q.ids # <<>>
      BY <1>1, <2>2 DEF Holds
    <3> HIDE DEF q
    <3>4. QED
      BY <1>1, <2>2, <3>1, <3>2, <3>3 DEF Holds
  <2> HIDE DEF q
  <2>4. QED
    BY <1>7, <2>1, <2>2, <2>3, OneFetch
<1>11. CASE NoneLeft
  <2> USE DEF NoneLeft
  <2> DEFINE state == IF extra THEN "store" ELSE "extraIds"
             data == r.data \cup (ToSet(ids) \ Unknown)
  <2>1. state \in {"store", "extraIds"} /\ <<>> \in Seq(Ids)
    BY EmptySeq
  <2>2. ToSet(ids) = {ids[i] : i \in 1 .. Len(ids)}
    <3> HIDE DEF ids
    <3>1. QED
      BY <1>2, LenProperties DEF ToSet
  <2>3. data \subseteq Ids
    <3>1. ToSet(ids) \subseteq Ids
      <4> HIDE DEF ids
      <4>1. QED
        BY <1>2, <2>2, ElementOfSeq
    <3>2. QED
      BY <1>2, <3>1
  <2>4. ToSet(r.ids) \subseteq Covered'
    <3>1. CASE extra
      BY <1>9, <3>1
    <3>2. CASE ~extra
      <4>1. ids = r.ids
        BY <3>2
      <4>2. \A i \in 1 .. Len(ids) : ids[i] \in Covered'
        BY <1>8, <1>11, <3>2
      <4> HIDE DEF ids
      <4>3. QED
        BY <2>2, <4>1, <4>2
    <3>3. QED
      BY <3>1, <3>2
  <2>5. r.ids # <<>>
    BY <1>1 DEF Holds
  <2>6. SetFetch(f, state, fetch[f].ids, <<>>, 0, data) /\ fetch[f].state # "idle"
    BY <1>1, <1>11
  <2>7. /\ state \in {"chunks", "extraIds", "extra", "store", "update", "return"}
        /\ state # "chunks" /\ data \in SUBSET Ids /\ fetch[f].ids \in Seq(Ids)
        /\ fetch[f].ids # <<>> /\ ToSet(fetch[f].ids) \subseteq Covered'
    BY <1>2, <2>1, <2>3, <2>4, <2>5
  <2>8. cached \subseteq cached' /\ cached' \subseteq Ids
    BY <1>7
  <2> HIDE DEF state, data
  <2>9. FetchInv'
    BY <2>1, <2>6, <2>7, <2>8, SetFetchRecord
  <2>10. QED
    BY <2>8, <2>9
<1>12. QED
  BY <1>3, <1>7, <1>10, <1>11

\* A failing chunk leaves the update, one of the extra ids goes on without.
LEMMA WholeFailChunk ==
  ASSUME FetchInv, NEW f \in Fetches, FailChunk(f)
  PROVE  FetchInv'
<1> DEFINE state == IF fetch[f].state = "extra" THEN "store" ELSE "return"
<1>1. fetch[f] \in FetchState /\ fetch[f].state \in {"chunks", "extra"}
      /\ Holds(fetch[f], Covered)
  BY DEF FetchInv, FailChunk
<1>2. /\ fetch[f].ids \in Seq(Ids) /\ <<>> \in Seq(Ids) /\ fetch[f].data \in SUBSET Ids
      /\ fetch[f].state # "idle"
  BY <1>1, EmptySeq DEF FetchState
<1>3. SetFetch(f, state, fetch[f].ids, <<>>, 0, fetch[f].data) /\ UNCHANGED cached
  BY DEF FailChunk
<1>4. cached' \subseteq Ids /\ cached \subseteq cached' /\ Covered' = Covered
  BY <1>3 DEF FetchInv, Covered
<1>5. /\ state \in {"chunks", "extraIds", "extra", "store", "update", "return"}
      /\ state \notin {"chunks", "extra"}
      /\ state # "return" => fetch[f].state = "extra"
  OBVIOUS
<1>6. fetch[f].state = "extra" => fetch[f].ids # <<>> /\ ToSet(fetch[f].ids) \subseteq Covered'
  BY <1>1, <1>4 DEF Holds
<1> HIDE DEF state
<1>7. QED
  BY <1>2, <1>3, <1>4, <1>5, <1>6, SetFetchRecord

\* fetchExtraIds makes a list of ids from the list of ids.
LEMMA MissingType ==
  ASSUME NEW f \in Fetches
  PROVE  MissingIds(f) \in Seq(Ids)
<1> DEFINE missing[n \in 0 .. Len(ExtraIds)] ==
             IF n = 0 THEN <<>>
             ELSE IF ExtraIds[n] \in fetch[f].data THEN missing[n - 1]
                                                   ELSE Append(missing[n - 1], ExtraIds[n])
           skip == {q \in Seq(Ids) \X Ids : q[2] \in fetch[f].data}
<1>1. MissingIds(f) = missing[Len(ExtraIds)]
  BY DEF MissingIds
<1>2. ExtraIds \in Seq(Ids) /\ Len(ExtraIds) \in Nat
  BY FetcherAssumption, LenProperties
<1>3. PICK list : Keeps(list, ExtraIds, skip)
  <2> HIDE DEF skip
  <2>1. QED
    BY <1>2, KeepExists
<1>4. list = [n \in 0 .. Len(ExtraIds) |->
               IF n = 0 THEN <<>>
               ELSE IF ExtraIds[n] \in fetch[f].data THEN list[n - 1]
                                                     ELSE Append(list[n - 1], ExtraIds[n])]
  <2>1. ASSUME NEW n \in 1 .. Len(ExtraIds)
        PROVE  <<list[n - 1], ExtraIds[n]>> \in skip <=> ExtraIds[n] \in fetch[f].data
    <3>1. n - 1 \in 0 .. Len(ExtraIds) /\ ExtraIds[n] \in Ids
      BY <1>2, ElementOfSeq
    <3>2. <<list[n - 1], ExtraIds[n]>> \in Seq(Ids) \X Ids
      BY <1>3, <3>1 DEF Keeps
    <3>3. QED
      BY <3>2
  <2> HIDE DEF skip
  <2>2. list \in [0 .. Len(ExtraIds) -> Seq(Ids)] /\ list[0] = <<>>
    BY <1>3 DEF Keeps
  <2>3. \A n \in 0 .. Len(ExtraIds) :
          list[n] = IF n = 0 THEN <<>>
                    ELSE IF ExtraIds[n] \in fetch[f].data THEN list[n - 1]
                                                          ELSE Append(list[n - 1], ExtraIds[n])
    <3>1. ASSUME NEW n \in 1 .. Len(ExtraIds)
          PROVE  list[n] = IF ExtraIds[n] \in fetch[f].data THEN list[n - 1]
                                                ELSE Append(list[n - 1], ExtraIds[n])
      <4>1. list[n] = IF <<list[n - 1], ExtraIds[n]>> \in skip THEN list[n - 1]
                                                ELSE Append(list[n - 1], ExtraIds[n])
        BY <1>3 DEF Keeps
      <4>2. QED
        BY <2>1, <4>1
    <3>2. \A n \in 0 .. Len(ExtraIds) : n # 0 => n \in 1 .. Len(ExtraIds)
      BY <1>2
    <3>3. QED
      BY <2>2, <3>1, <3>2
  <2>4. QED
    BY <2>2, <2>3
<1>5. missing = [n \in 0 .. Len(ExtraIds) |->
               IF n = 0 THEN <<>>
               ELSE IF ExtraIds[n] \in fetch[f].data THEN missing[n - 1]
                                                     ELSE Append(missing[n - 1], ExtraIds[n])]
  BY <1>4
<1> HIDE DEF missing
<1> DEFINE G == {n \in 0 .. Len(ExtraIds) : missing[n] \in Seq(Ids)}
<1>6. 0 \in G
  BY <1>2, <1>5
<1>7. ASSUME NEW n \in 0 .. Len(ExtraIds) - 1, n \in G PROVE n + 1 \in G
  <2>1. n + 1 \in 0 .. Len(ExtraIds) /\ n + 1 # 0 /\ (n + 1) - 1 = n /\ missing[n] \in Seq(Ids)
        /\ ExtraIds[n + 1] \in Ids
    BY <1>2, <1>7, ElementOfSeq
  <2>2. missing[n + 1] \in {missing[n], Append(missing[n], ExtraIds[n + 1])}
    BY <1>5, <2>1
  <2>3. Append(missing[n], ExtraIds[n + 1]) \in Seq(Ids)
    BY <2>1, AppendProperties
  <2>4. missing[n + 1] \in Seq(Ids)
    BY <2>1, <2>2, <2>3
  <2>5. QED
    BY <2>1, <2>4
<1>8. \A n \in 0 .. Len(ExtraIds) : n \in G
  <2> HIDE DEF G
  <2>1. QED
    BY <1>2, <1>6, <1>7, Induction
<1>9. QED
  BY <1>1, <1>2, <1>8

LEMMA WholeExtraIds ==
  ASSUME FetchInv, NEW f \in Fetches, FetchExtraIds(f)
  PROVE  FetchInv'
<1> DEFINE missing == IF fetch[f].tier \in FetchCoinslistIds /\ ExtraProvider
                      THEN MissingIds(f) ELSE <<>>
           state == IF missing = <<>> THEN "store" ELSE "extra"
<1>1. fetch[f] \in FetchState /\ fetch[f].state = "extraIds" /\ Holds(fetch[f], Covered)
  BY DEF FetchInv, FetchExtraIds
<1>2. /\ fetch[f].ids \in Seq(Ids) /\ missing \in Seq(Ids) /\ fetch[f].data \in SUBSET Ids
      /\ fetch[f].state # "idle"
  BY <1>1, EmptySeq, MissingType DEF FetchState
<1>3. SetFetch(f, state, fetch[f].ids, missing, 0, fetch[f].data) /\ UNCHANGED cached
  BY DEF FetchExtraIds
<1>4. cached' \subseteq Ids /\ cached \subseteq cached' /\ Covered' = Covered
  BY <1>3 DEF FetchInv, Covered
<1>5. /\ state \in {"chunks", "extraIds", "extra", "store", "update", "return"}
      /\ state # "chunks" /\ (state = "extra" => missing # <<>>)
  OBVIOUS
<1>6. fetch[f].ids # <<>> /\ ToSet(fetch[f].ids) \subseteq Covered'
  BY <1>1, <1>4 DEF Holds
<1> HIDE DEF state, missing
<1>7. QED
  BY <1>2, <1>3, <1>4, <1>5, <1>6, SetFetchRecord

\* The steps that change the state of a record only, and FetchReturn.
LEMMA WholeRecord ==
  ASSUME FetchInv, NEW f \in Fetches,
         NEW state \in {"store", "update", "return"},
         fetch' = [fetch EXCEPT ![f].state = state],
         state # "return" => fetch[f].state \in {"extraIds", "store"},
         fetch[f].state # "idle",
         cached \subseteq cached', cached' \subseteq Ids
  PROVE  FetchInv'
<1> DEFINE q == [fetch[f] EXCEPT !.state = state]
<1>1. fetch[f] \in FetchState /\ Holds(fetch[f], Covered) /\ Covered \subseteq Covered'
  BY DEF FetchInv, Covered
<1>2. q \in FetchState /\ q.state = state /\ q.ids = fetch[f].ids /\ q.tier = fetch[f].tier
  BY <1>1 DEF FetchState
<1>3. fetch' = [fetch EXCEPT ![f] = q]
  OBVIOUS
<1> HIDE DEF q
<1>4. Holds(q, Covered')
  BY <1>1, <1>2 DEF Holds
<1>5. QED
  BY <1>2, <1>3, <1>4, OneFetch

LEMMA WholeReturn ==
  ASSUME FetchInv, NEW f \in Fetches, FetchReturn(f)
  PROVE  FetchInv'
<1>1. NoFetch \in FetchState /\ Holds(NoFetch, Covered')
  BY EmptySeq, FetcherAssumption DEF NoFetch, FetchState, Holds
<1>2. fetch' = [fetch EXCEPT ![f] = NoFetch] /\ cached' = cached /\ cached \subseteq Ids
  BY DEF FetchReturn, FetchInv
<1>3. QED
  BY <1>1, <1>2, OneFetch

\* The tier of a spawned fetch is one of the configuration.
LEMMA WholeSpawn ==
  ASSUME FetchInv, CheckInv, NEW w \in Checks, CheckTier(w)
  PROVE  FetchInv'
<1> DEFINE t == next[w]
<1>1. t \in Tiers /\ allIds[w] \in Seq(Ids) /\ cached' = cached
  BY DEF CheckInv, CheckTier, Tiers
<1>2. ASSUME NEW f \in Fetches,
             fetch' = [fetch EXCEPT ![f] =
               [state |-> "spawned", tier |-> t, ids |-> allIds[w],
                missing |-> <<>>, done |-> 0, data |-> {}]]
      PROVE  FetchInv'
  <2> DEFINE r == [state |-> "spawned", tier |-> t, ids |-> allIds[w],
                   missing |-> <<>>, done |-> 0, data |-> {}]
  <2>1. r \in FetchState
    BY <1>1, EmptySeq DEF FetchState, Tiers
  <2>2. Holds(r, Covered')
    BY <1>1 DEF Holds
  <2>3. fetch' = [fetch EXCEPT ![f] = r] /\ cached \subseteq cached' /\ cached' \subseteq Ids
    BY <1>1, <1>2 DEF FetchInv
  <2> HIDE DEF r
  <2>4. QED
    BY <2>1, <2>2, <2>3, OneFetch
<1>3. CASE UNCHANGED fetch
  BY <1>1, <1>3, FetchUnchanged
<1>4. QED
  BY <1>2, <1>3 DEF CheckTier, Spawn

LEMMA WholeStep ==
  ASSUME FetchInv, CheckInv, [Next]_vars
  PROVE  FetchInv' /\ cached \subseteq cached'
<1>1. CASE UNCHANGED <<fetch, cached>>
  BY <1>1, FetchUnchanged
<1>2. ASSUME NEW w \in Checks, CheckTier(w) PROVE FetchInv' /\ cached \subseteq cached'
  BY <1>2, WholeSpawn DEF CheckTier
<1>3. ASSUME NEW f \in Fetches, FetchStep(f) PROVE FetchInv' /\ cached \subseteq cached'
  <2>1. cached \subseteq Ids /\ fetch[f] \in FetchState
    BY DEF FetchInv
  <2>2. CASE FetchBegin(f)
    BY <2>2, WholeBegin DEF FetchBegin
  <2>3. CASE FetchChunk(f)
    BY <2>3, WholeChunk
  <2>4. CASE FailChunk(f)
    BY <2>4, WholeFailChunk DEF FailChunk
  <2>5. CASE FetchExtraIds(f)
    BY <2>5, WholeExtraIds DEF FetchExtraIds
  <2>6. CASE FailExtraIds(f)
    BY <2>1, <2>6, WholeRecord DEF FailExtraIds
  <2>7. CASE FetchStore(f)
    <3>1. fetch[f].state = "store" /\ UNCHANGED cached
      BY <2>7 DEF FetchStore
    <3>2. PICK state \in {"return", "update"} : fetch' = [fetch EXCEPT ![f].state = state]
      BY <2>7 DEF FetchStore
    <3>3. QED
      BY <2>1, <3>1, <3>2, WholeRecord
  <2>8. CASE FetchUpdate(f)
    <3>1. fetch[f].data \subseteq Ids
      BY <2>1 DEF FetchState
    <3>2. cached' = cached \cup fetch[f].data /\ fetch' = [fetch EXCEPT ![f].state = "return"]
          /\ fetch[f].state = "update"
      BY <2>8 DEF FetchUpdate
    <3>3. QED
      BY <2>1, <3>1, <3>2, WholeRecord
  <2>9. CASE FetchReturn(f)
    BY <2>9, WholeReturn DEF FetchReturn
  <2>10. QED
    BY <1>3, <2>2, <2>3, <2>4, <2>5, <2>6, <2>7, <2>8, <2>9 DEF FetchStep, Fail
<1>4. CASE UpdatePages \/ ClearPages \/ UNCHANGED vars
  BY <1>1, <1>4 DEF UpdatePages, ClearPages, vars
<1>5. ASSUME NEW t \in Tiers, BecomeDue(t) \/ GetStuck(t) \/ Reset(t)
      PROVE  FetchInv' /\ cached \subseteq cached'
  BY <1>1, <1>5 DEF BecomeDue, GetStuck, Reset
<1>6. ASSUME NEW w \in Checks, CheckBegin(w) PROVE FetchInv' /\ cached \subseteq cached'
  BY <1>1, <1>6 DEF CheckBegin
<1>7. QED
  BY <1>2, <1>3, <1>4, <1>5, <1>6 DEF Next

\* A refresh stores the ids of a fetch all of whose chunks came.
LEMMA RefreshStep ==
  ASSUME RefreshInv, FetchInv, [Next]_vars, cached \subseteq cached'
  PROVE  RefreshInv'
<1>1. CASE UNCHANGED <<due, refreshed>>
  BY <1>1, RefreshUnchanged
<1>2. ASSUME NEW t \in Tiers, BecomeDue(t) PROVE RefreshInv'
  BY <1>2 DEF BecomeDue, RefreshInv, RefreshIsWhole
<1>3. ASSUME NEW f \in Fetches, FetchStore(f), ~UNCHANGED <<due, refreshed>> PROVE RefreshInv'
  <2> DEFINE t == fetch[f].tier
             ids == fetch[f].ids
  <2>1. fetch[f].state = "store" /\ due' = due \ {t} /\ refreshed' = [refreshed EXCEPT ![t] = ids]
    BY <1>3 DEF FetchStore
  <2>2. t \in Tiers /\ ids \in Seq(Ids) /\ ids # <<>> /\ ToSet(ids) \subseteq Covered
    <3>1. fetch[f] \in FetchState /\ Holds(fetch[f], Covered)
      BY DEF FetchInv
    <3>2. QED
      BY <2>1, <3>1 DEF FetchState, Holds
  <2> HIDE DEF t, ids
  <2>3. due' \subseteq Tiers /\ refreshed' \in [Tiers -> Seq(Ids)]
    BY <2>1, <2>2 DEF RefreshInv
  <2>4. ASSUME NEW u \in Tiers
        PROVE  /\ ToSet(refreshed'[u]) \subseteq cached' \cup (IF Batch THEN Unknown ELSE {})
               /\ u \notin due' => refreshed'[u] # <<>>
    <3>1. CASE u = t
      <4>1. refreshed'[u] = ids
        BY <2>1, <2>2, <3>1 DEF RefreshInv
      <4>2. QED
        BY <2>2, <4>1 DEF Covered
    <3>2. CASE u # t
      <4>1. refreshed'[u] = refreshed[u] /\ (u \notin due' => u \notin due)
        BY <2>1, <3>2 DEF RefreshInv
      <4>2. QED
        BY <4>1 DEF RefreshInv, RefreshIsWhole
    <3>3. QED
      BY <3>1, <3>2
  <2>5. QED
    BY <2>3, <2>4 DEF RefreshInv, RefreshIsWhole
<1>4. CASE UpdatePages \/ ClearPages \/ UNCHANGED vars
  BY <1>1, <1>4 DEF UpdatePages, ClearPages, vars, tierVars
<1>5. ASSUME NEW t \in Tiers, GetStuck(t) \/ Reset(t) PROVE RefreshInv'
  BY <1>1, <1>5 DEF GetStuck, Reset
<1>6. ASSUME NEW w \in Checks, CheckBegin(w) \/ CheckTier(w) PROVE RefreshInv'
  BY <1>1, <1>6 DEF CheckBegin, CheckTier, tierVars
<1>7. ASSUME NEW f \in Fetches, FetchStep(f) PROVE RefreshInv'
  BY <1>1, <1>3, <1>7 DEF FetchStep, Fail, FetchBegin, FetchChunk, FailChunk,
     FetchExtraIds, FailExtraIds, FetchUpdate, FetchReturn, tierVars
<1>8. QED
  BY <1>2, <1>4, <1>5, <1>6, <1>7 DEF Next

\* What the types of the checks, marks and resets rest on.
LEMMA CheckStep ==
  ASSUME CheckInv, ListInv, [Next]_vars
  PROVE  CheckInv'
<1>1. CASE UNCHANGED <<arrived, mark, resets, next, allIds, initialized>>
  BY <1>1 DEF CheckInv
<1>2. NTiers \in Nat /\ MaxResets \in Nat /\ Len(Updates) \in Nat
  BY FetcherAssumption
<1>3. CASE UpdatePages \/ ClearPages \/ UNCHANGED vars
  BY <1>1, <1>2, <1>3 DEF UpdatePages, ClearPages, vars, tierVars, checkVars, marketVars, CheckInv
<1>4. ASSUME NEW t \in Tiers, BecomeDue(t) \/ GetStuck(t) PROVE CheckInv'
  BY <1>4 DEF BecomeDue, GetStuck, CheckInv, marketVars, checkVars
<1>5. ASSUME NEW t \in Tiers, Reset(t) PROVE CheckInv'
  <2>1. resets[t] - 1 \in 0 .. MaxResets
    BY <1>2, <1>5 DEF Reset, CheckInv
  <2>2. QED
    BY <1>5, <2>1 DEF Reset, CheckInv, marketVars, checkVars
<1>6. ASSUME NEW w \in Checks, CheckBegin(w) PROVE CheckInv'
  <2>1. TopIdsUpTo(GetMaxIdLimit) \in Seq(Ids) /\ 1 \in 0 .. NTiers
    BY NowType, FetcherAssumption DEF ListInv
  <2>2. QED
    BY <1>6, <2>1 DEF CheckBegin, CheckInv, tierVars, checkVars
<1>7. ASSUME NEW w \in Checks, CheckTier(w) PROVE CheckInv'
  <2> DEFINE t == next[w]
  <2>1. t \in Tiers /\ t \in 0 .. NTiers
    BY <1>7 DEF CheckTier, CheckInv, Tiers
  <2>2. (IF t = NTiers THEN 0 ELSE t + 1) \in 0 .. NTiers
    BY <1>2, <2>1
  <2>3. next' \in [Checks -> 0 .. NTiers]
    BY <1>7, <2>2 DEF CheckTier, CheckInv
  <2>4. allIds' \in [Checks -> Seq(Ids)]
    BY <1>7, EmptySeq DEF CheckTier, CheckInv
  <2>5. (IF mark[t] = "stuck" THEN resets[t] + 1 ELSE resets[t]) \in 0 .. MaxResets
    BY <1>2, <1>7, <2>1 DEF CheckTier, CheckInv
  <2>6. resets' \in [Tiers -> 0 .. MaxResets]
    BY <1>7, <2>5 DEF CheckTier, CheckInv
  <2>7. QED
    BY <1>7, <2>3, <2>4, <2>6 DEF CheckTier, CheckInv, marketVars
<1>8. ASSUME NEW f \in Fetches, FetchStep(f) PROVE CheckInv'
  <2>1. CASE FetchBegin(f) \/ FetchReturn(f)
    BY <2>1 DEF FetchBegin, FetchReturn, CheckInv, marketVars, checkVars
  <2>2. CASE FetchUpdate(f)
    BY <2>2 DEF FetchUpdate, CheckInv, marketVars, tierVars, checkVars
  <2>3. CASE FetchChunk(f) \/ FailChunk(f) \/ FetchExtraIds(f) \/ FailExtraIds(f) \/ FetchStore(f)
    BY <1>1, <2>3 DEF FetchChunk, FailChunk, FetchExtraIds, FailExtraIds, FetchStore,
       marketVars, tierVars, checkVars
  <2>4. QED
    BY <1>8, <2>1, <2>2, <2>3 DEF FetchStep, Fail
<1>9. QED
  BY <1>3, <1>4, <1>5, <1>6, <1>7, <1>8 DEF Next

LEMMA WholeInductive ==
  /\ Init => Inv
  /\ Inv /\ [Next]_vars => Inv'
<1>1. ASSUME Init PROVE Inv
  <2>1. ListInv
    BY <1>1, InitialList
  <2>2. NoFetch \in FetchState /\ Holds(NoFetch, Covered)
    BY EmptySeq, FetcherAssumption DEF NoFetch, FetchState, Holds
  <2>3. FetchInv
    BY <1>1, <2>2 DEF Init, FetchInv
  <2>4. CheckInv
    <3>1. 0 \in 0 .. Len(Updates) + 1 /\ 0 \in 0 .. MaxResets /\ 0 \in 0 .. NTiers
      BY FetcherAssumption
    <3>2. <<>> \in Seq(Ids)
      BY EmptySeq
    <3>3. QED
      BY <1>1, <3>1, <3>2 DEF Init, CheckInv
  <2>5. RefreshInv
    <3>1. ToSet(<<>>) = {}
      BY DEF ToSet
    <3>2. QED
      BY <1>1, <3>1, EmptySeq DEF Init, RefreshInv, RefreshIsWhole
  <2>6. QED
    BY <2>1, <2>3, <2>4, <2>5 DEF Inv
<1>2. ASSUME Inv, [Next]_vars PROVE Inv'
  <2>1. ListInv' /\ CheckInv'
    BY <1>2, ListStep, CheckStep DEF Inv
  <2>2. FetchInv' /\ cached \subseteq cached'
    BY <1>2, WholeStep DEF Inv
  <2>3. RefreshInv'
    BY <1>2, <2>2, RefreshStep DEF Inv
  <2>4. QED
    BY <2>1, <2>2, <2>3 DEF Inv
<1>3. QED
  BY <1>1, <1>2

\* The variables keep their types: a fetch that is not idle has a tier of the
\* configuration, every list is one of ids, and the resets of a tier stay within
\* their bound.
THEOREM Types == Spec => []TypeOK
<1>1. Inv => TypeOK
  BY DEF Inv, ListInv, ListType, FetchInv, CheckInv, RefreshInv, TypeOK
<1>2. QED
  BY <1>1, WholeInductive, PTL DEF Spec

\* LastUpdate of a tier says that each id it had is in the cache, or was left
\* out by the API in batch mode: FetchStore comes only after the last chunk, and
\* a failed request for extra ids takes away none of the tier's own.
THEOREM RefreshesAreWhole == Spec => []RefreshIsWhole
<1>1. Inv => RefreshIsWhole
  BY DEF Inv, RefreshInv
<1>2. QED
  BY <1>1, WholeInductive, PTL DEF Spec

-----------------------------------------------------------------------------
(* Marks.  What the list of ids is plays no part here, so the invariant    *)
(* says of a fetch only that it is a record of the six fields.             *)

IsFetch(r) == r = [state |-> r.state, tier |-> r.tier, ids |-> r.ids,
                   missing |-> r.missing, done |-> r.done, data |-> r.data]

Shape ==
  /\ mark \in [Tiers -> {"none", "recent", "stuck"}]
  /\ fetch = [f \in Fetches |-> fetch[f]]
  /\ \A f \in Fetches : IsFetch(fetch[f])

IInv == Shape /\ MarkHasFetch

\* A fetch that is past its first call and goes on to any later state.
GoesOn(f) ==
  /\ fetch[f].state \notin {"idle", "spawned"}
  /\ fetch'[f].state \notin {"idle", "spawned"}
  /\ fetch'[f].tier = fetch[f].tier
  /\ UNCHANGED mark

\* Only f's record changes, and stays a record.
OnlyFetch(f) ==
  /\ fetch' = [g \in Fetches |-> fetch'[g]]
  /\ IsFetch(fetch'[f])
  /\ \A g \in Fetches \ {f} : fetch'[g] = fetch[g]

\* The steps of a fetch between its first and its deferred call leave the mark
\* and the tier of the fetch alone.
LEMMA MiddleSteps ==
  ASSUME Shape, NEW f \in Fetches,
         \/ FetchChunk(f) \/ FailChunk(f) \/ FetchExtraIds(f) \/ FailExtraIds(f)
         \/ FetchStore(f) \/ FetchUpdate(f)
  PROVE  GoesOn(f) /\ OnlyFetch(f)
<1> USE DEF Shape, IsFetch, GoesOn, OnlyFetch, tierVars
<1>1. CASE FetchChunk(f)
  <2> DEFINE extra == fetch[f].state = "extra"
             ids == IF extra THEN fetch[f].missing ELSE fetch[f].ids
  <2>1. fetch[f].state \in {"chunks", "extra"} /\ UNCHANGED mark
    BY <1>1 DEF FetchChunk
  <2>2. PICK end :
          \/ fetch' = [fetch EXCEPT ![f].done = end]
          \/ SetFetch(f, IF extra THEN "store" ELSE "extraIds", fetch[f].ids,
                      <<>>, 0, fetch[f].data \cup (ToSet(ids) \ Unknown))
    BY <1>1 DEF FetchChunk
  <2>3. CASE fetch' = [fetch EXCEPT ![f].done = end]
    BY <2>1, <2>3
  <2>4. CASE SetFetch(f, IF extra THEN "store" ELSE "extraIds", fetch[f].ids,
                      <<>>, 0, fetch[f].data \cup (ToSet(ids) \ Unknown))
    BY <2>1, <2>4 DEF SetFetch
  <2>5. QED
    BY <2>2, <2>3, <2>4
<1>2. CASE FailChunk(f)
  BY <1>2 DEF FailChunk, SetFetch
<1>3. CASE FetchExtraIds(f)
  BY <1>3 DEF FetchExtraIds, SetFetch
<1>4. CASE FailExtraIds(f)
  BY <1>4 DEF FailExtraIds
<1>5. CASE FetchStore(f)
  BY <1>5 DEF FetchStore
<1>6. CASE FetchUpdate(f)
  BY <1>6 DEF FetchUpdate
<1>7. QED
  BY <1>1, <1>2, <1>3, <1>4, <1>5, <1>6

\* What a fetch that goes on leaves of the invariant: all of it.
LEMMA GoingOn ==
  ASSUME IInv, NEW f \in Fetches, GoesOn(f), OnlyFetch(f)
  PROVE  IInv'
<1>1. \A g \in Fetches, t \in Tiers : InUpdate(g, t) => InUpdate(g, t)'
  BY DEF GoesOn, OnlyFetch, InUpdate
<1>2. Shape'
  BY DEF IInv, Shape, GoesOn, OnlyFetch
<1>3. MarkHasFetch'
  BY <1>1 DEF IInv, MarkHasFetch, GoesOn
<1>4. QED
  BY <1>2, <1>3 DEF IInv

LEMMA Begin ==
  ASSUME IInv, NEW f \in Fetches, FetchBegin(f)
  PROVE  IInv'
<1>1. OnlyFetch(f) /\ fetch'[f].state \in {"return", "chunks"}
      /\ fetch'[f].tier = fetch[f].tier
  BY DEF IInv, Shape, IsFetch, OnlyFetch, FetchBegin, SetFetch
<1>2. Shape'
  BY <1>1 DEF IInv, Shape, OnlyFetch, FetchBegin
<1>3. ASSUME NEW t \in Tiers, mark'[t] # "none"
      PROVE  \E g \in Fetches : InUpdate(g, t)'
  <2>1. CASE t = fetch[f].tier
    BY <1>1, <2>1 DEF InUpdate
  <2>2. CASE t # fetch[f].tier
    <3>1. mark[t] # "none"
      BY <1>3, <2>2 DEF IInv, Shape, FetchBegin
    <3>2. PICK g \in Fetches : InUpdate(g, t)
      BY <3>1 DEF IInv, MarkHasFetch
    <3>3. QED
      BY <1>1, <2>2, <3>2 DEF InUpdate, OnlyFetch
  <2>3. QED
    BY <2>1, <2>2
<1>4. QED
  BY <1>2, <1>3 DEF IInv, MarkHasFetch

LEMMA Return ==
  ASSUME IInv, NEW f \in Fetches, FetchReturn(f)
  PROVE  IInv'
<1>1. OnlyFetch(f)
  BY DEF IInv, Shape, IsFetch, OnlyFetch, FetchReturn, NoFetch
<1>2. Shape'
  BY <1>1 DEF IInv, Shape, OnlyFetch, FetchReturn
<1>3. ASSUME NEW t \in Tiers, mark'[t] # "none"
      PROVE  \E g \in Fetches : InUpdate(g, t)'
  <2>1. t # fetch[f].tier /\ mark[t] # "none"
    BY <1>3 DEF IInv, Shape, FetchReturn
  <2>2. PICK g \in Fetches : InUpdate(g, t)
    BY <2>1 DEF IInv, MarkHasFetch
  <2>3. QED
    BY <1>1, <2>1, <2>2 DEF InUpdate, OnlyFetch
<1>4. QED
  BY <1>2, <1>3 DEF IInv, MarkHasFetch

\* A spawn takes a name that no fetch uses.
LEMMA Check ==
  ASSUME IInv, NEW w \in Checks, CheckTier(w)
  PROVE  IInv'
<1>1. CASE UNCHANGED fetch
  BY <1>1 DEF IInv, Shape, MarkHasFetch, InUpdate, CheckTier
<1>2. ASSUME NEW f \in Fetches, fetch[f] = NoFetch,
             fetch' = [fetch EXCEPT ![f] =
               [state |-> "spawned", tier |-> next[w], ids |-> allIds[w],
                missing |-> <<>>, done |-> 0, data |-> {}]]
      PROVE  IInv'
  <2>1. OnlyFetch(f) /\ fetch[f].state = "idle"
    <3>1. fetch[f].state = "idle"
      BY <1>2 DEF NoFetch
    <3>2. fetch' = [g \in Fetches |-> fetch'[g]]
          /\ \A g \in Fetches \ {f} : fetch'[g] = fetch[g]
      BY <1>2 DEF IInv, Shape
    <3>3. fetch'[f] = [state |-> "spawned", tier |-> next[w], ids |-> allIds[w],
                       missing |-> <<>>, done |-> 0, data |-> {}]
      BY <1>2 DEF IInv, Shape
    <3>4. QED
      BY <3>1, <3>2, <3>3 DEF OnlyFetch, IsFetch
  <2>2. Shape'
    BY <2>1 DEF IInv, Shape, OnlyFetch, CheckTier
  <2>3. \A g \in Fetches, t \in Tiers : InUpdate(g, t) => InUpdate(g, t)'
    BY <2>1 DEF OnlyFetch, InUpdate
  <2>4. MarkHasFetch'
    BY <2>3 DEF IInv, MarkHasFetch, CheckTier
  <2>5. QED
    BY <2>2, <2>4 DEF IInv
<1>3. QED
  BY <1>1, <1>2 DEF CheckTier, Spawn

\* The steps of the environment, of the check's beginning and of the resets.
LEMMA OtherSteps ==
  ASSUME IInv, UNCHANGED fetch,
         \/ UNCHANGED mark
         \/ \E t \in Tiers : GetStuck(t) \/ Reset(t)
  PROVE  IInv'
<1>1. CASE UNCHANGED mark
  BY <1>1 DEF IInv, Shape, MarkHasFetch, InUpdate
<1>2. ASSUME NEW t \in Tiers, GetStuck(t) PROVE IInv'
  BY <1>2 DEF IInv, Shape, MarkHasFetch, InUpdate, GetStuck
<1>3. ASSUME NEW t \in Tiers, Reset(t) PROVE IInv'
  BY <1>3 DEF IInv, Shape, MarkHasFetch, InUpdate, Reset
<1>4. QED
  BY <1>1, <1>2, <1>3

\* A tier is marked as updating only while one of its fetches is under way: the
\* deferred setTierUpdating(name, false) of fetchAndUpdateTier is on every way
\* out, and resets only clear marks.
THEOREM MarksAreCleared == Spec => []MarkHasFetch
<1>1. Init => IInv
  BY DEF Init, IInv, Shape, IsFetch, NoFetch, MarkHasFetch
<1>2. IInv /\ [Next]_vars => IInv'
  <2> SUFFICES ASSUME IInv, [Next]_vars PROVE IInv'
    OBVIOUS
  <2>1. CASE UpdatePages \/ ClearPages
    BY <2>1, OtherSteps DEF UpdatePages, ClearPages, tierVars
  <2>2. ASSUME NEW t \in Tiers, BecomeDue(t) PROVE IInv'
    BY <2>2, OtherSteps DEF BecomeDue
  <2>3. ASSUME NEW t \in Tiers, GetStuck(t) \/ Reset(t) PROVE IInv'
    BY <2>3, OtherSteps DEF GetStuck, Reset
  <2>4. ASSUME NEW w \in Checks, CheckBegin(w) PROVE IInv'
    BY <2>4, OtherSteps DEF CheckBegin, tierVars
  <2>5. ASSUME NEW w \in Checks, CheckTier(w) PROVE IInv'
    BY <2>5, Check
  <2>6. ASSUME NEW f \in Fetches, FetchStep(f) PROVE IInv'
    BY <2>6, Begin, Return, MiddleSteps, GoingOn DEF FetchStep, Fail, IInv
  <2>7. CASE UNCHANGED vars
    BY <2>7, OtherSteps DEF vars, tierVars
  <2>8. QED
    BY <2>1, <2>2, <2>3, <2>4, <2>5, <2>6, <2>7 DEF Next
<1>3. IInv => MarkHasFetch
  BY DEF IInv
<1>4. QED
  BY <1>1, <1>2, <1>3, PTL DEF Spec
=============================================================================
