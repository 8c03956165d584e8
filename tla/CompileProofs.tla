--------------------------- MODULE CompileProofs ---------------------------
(***************************************************************************)
(* What an answer of compile_context keeps, for any transcript, options    *)
(* and sizes.                                                              *)
(***************************************************************************)
EXTENDS Compile, Lemmas, SequenceTheorems

-----------------------------------------------------------------------------
(* Sequences, and the blocks of a sequence at the places of a set.         *)

IsSeq(s) == s \in Seq(Range(s))

\* A sequence is a function on 1 .. Len(s).
LEMMA Shape ==
    ASSUME NEW s, IsSeq(s)
    PROVE  Len(s) \in Nat /\ DOMAIN s = 1 .. Len(s) /\ \A i \in 1 .. Len(s) : s[i] \in Range(s)
  BY DEF IsSeq, Range

\* A function on an initial segment of the numbers is a sequence.
LEMMA Listed ==
    ASSUME NEW n \in Nat, NEW s, DOMAIN s = 1 .. n, s = [i \in 1 .. n |-> s[i]]
    PROVE  IsSeq(s) /\ Len(s) = n
<1>1. s \in [1 .. n -> Range(s)]
  BY DEF Range
<1> QED
  BY <1>1 DEF IsSeq

\* A sequence over some set is a sequence.
LEMMA AnySeq == ASSUME NEW S, NEW s \in Seq(S) PROVE IsSeq(s)
<1>1. Len(s) \in Nat /\ DOMAIN s = 1 .. Len(s) /\ s = [i \in 1 .. Len(s) |-> s[i]]
  OBVIOUS
<1> QED
  BY <1>1, Listed

\* What AtUpTo computes, step by step.
LEMMA AtEquation ==
    ASSUME NEW bs, IsSeq(bs), NEW places
    PROVE  LET kept == AtUpTo(bs, places) IN
           /\ kept \in [0 .. Len(bs) -> Seq(Range(bs))]
           /\ kept[0] = <<>>
           /\ \A n \in 1 .. Len(bs) :
                 kept[n] = IF n \in places THEN Append(kept[n - 1], bs[n]) ELSE kept[n - 1]
<1> DEFINE N == Len(bs)
           V == Seq(Range(bs))
           D == [p \in V \X (1 .. N) |->
                    IF p[2] \in places THEN Append(p[1], bs[p[2]]) ELSE p[1]]
           Is(f) == f = [n \in 0 .. N |->
                           IF n = 0 THEN <<>>
                           ELSE IF n \in places THEN Append(f[n - 1], bs[n]) ELSE f[n - 1]]
<1>1. /\ N \in Nat /\ \A n \in 1 .. N : bs[n] \in Range(bs) /\ n - 1 \in 0 .. N /\ n # 0
      /\ <<>> \in V /\ \A v \in V, n \in 1 .. N : Append(v, bs[n]) \in V
  BY Shape
<1> HIDE DEF N, V
<1>2. \A v \in V, n \in 1 .. N :
         D[<<v, n>>] = IF n \in places THEN Append(v, bs[n]) ELSE v
  OBVIOUS
<1>3. \A v \in V, n \in 1 .. N : D[<<v, n>>] \in V
  BY <1>1, <1>2
<1> HIDE DEF D
<1>4. PICK f \in [0 .. N -> V] : Unrolls(f, <<>>, D, N)
  BY <1>1, <1>3, Recursion
<1>5. \A n \in 1 .. N : f[n] = IF n \in places THEN Append(f[n - 1], bs[n]) ELSE f[n - 1]
  BY <1>1, <1>2, <1>4 DEF Unrolls
<1>6. Is(f)
  <2> DEFINE g == [n \in 0 .. N |->
                     IF n = 0 THEN <<>>
                     ELSE IF n \in places THEN Append(f[n - 1], bs[n]) ELSE f[n - 1]]
  <2>1. ASSUME NEW n \in 0 .. N PROVE f[n] = g[n]
    <3>1. CASE n = 0
      BY <1>4, <3>1 DEF Unrolls
    <3>2. CASE n # 0
      <4>1. n \in 1 .. N
        BY <1>1, <3>2
      <4> QED
        BY <1>5, <3>2, <4>1
    <3> QED
      BY <3>1, <3>2
  <2>2. DOMAIN g = 0 .. N /\ DOMAIN f = 0 .. N /\ g = [n \in 0 .. N |-> g[n]] /\ f = [n \in 0 .. N |-> f[n]]
    OBVIOUS
  <2>3. f = g
    <3> HIDE DEF g
    <3> QED
      BY <2>1, <2>2
  <2> QED
    BY <2>3
<1>7. \E g : Is(g)
  BY <1>6
<1> DEFINE k == CHOOSE g : Is(g)
<1>8. Is(k)
  <2> HIDE DEF Is
  <2> QED
    BY <1>7
<1>9. AtUpTo(bs, places) = k
  BY DEF AtUpTo, N
<1> HIDE DEF k
<1>10. /\ k[0] = <<>>
       /\ \A n \in 1 .. N : k[n] = IF n \in places THEN Append(k[n - 1], bs[n]) ELSE k[n - 1]
  <2>1. \A n \in 0 .. N : k[n] = IF n = 0 THEN <<>>
                     ELSE IF n \in places THEN Append(k[n - 1], bs[n]) ELSE k[n - 1]
    BY <1>8
  <2>2. 0 \in 0 .. N /\ \A n \in 1 .. N : n \in 0 .. N /\ n # 0
    BY <1>1
  <2> HIDE DEF Is
  <2> QED
    BY <2>1, <2>2
<1>11. \A n \in 0 .. N : k[n] \in V
  <2> DEFINE S == {m \in 0 .. N : k[m] \in V}
  <2>1. 0 \in S
    BY <1>1, <1>10
  <2>2. ASSUME NEW m \in 0 .. N - 1, m \in S PROVE m + 1 \in S
    <3>1. m + 1 \in 1 .. N /\ m + 1 \in 0 .. N /\ (m + 1) - 1 = m /\ k[m] \in V
      BY <1>1, <2>2
    <3>2. k[m + 1] = IF m + 1 \in places THEN Append(k[m], bs[m + 1]) ELSE k[m]
      BY <1>10, <3>1
    <3>3. k[m + 1] \in V
      BY <1>1, <3>1, <3>2
    <3> QED
      BY <3>1, <3>3
  <2> HIDE DEF S
  <2>3. \A n \in 0 .. N : n \in S
    BY <1>1, <2>1, <2>2, UpTo
  <2> QED
    BY <2>3 DEF S
<1>12. k \in [0 .. N -> V]
  <2>1. k = [n \in 0 .. N |-> k[n]]
    BY <1>8
  <2> HIDE DEF Is
  <2> QED
    BY <2>1, <1>11
<1> QED
  BY <1>9, <1>10, <1>12 DEF N, V

\* cs is what bs holds at the places up to n, in order; h[k] is where its k-th was.
Picks(cs, bs, h, places, n) ==
    /\ IsSeq(cs) /\ h \in [1 .. Len(cs) -> 1 .. n]
    /\ \A i, j \in 1 .. Len(cs) : i < j => h[i] < h[j]
    /\ \A k \in 1 .. Len(cs) : h[k] \in places /\ cs[k] = bs[h[k]]
    /\ \A p \in 1 .. n : p \in places => \E k \in 1 .. Len(cs) : h[k] = p

\* What one place more adds.
LEMMA PicksOneMore ==
    ASSUME NEW bs, NEW cs, NEW h, NEW places, NEW n \in Nat, Picks(cs, bs, h, places, n)
    PROVE  IF n + 1 \in places
           THEN \E g : Picks(Append(cs, bs[n + 1]), bs, g, places, n + 1)
           ELSE Picks(cs, bs, h, places, n + 1)
<1> DEFINE m == Len(cs)
           ds == Append(cs, bs[n + 1])
           g == [k \in 1 .. m + 1 |-> IF k = m + 1 THEN n + 1 ELSE h[k]]
<1>1. /\ m \in Nat /\ IsSeq(cs) /\ h \in [1 .. m -> 1 .. n]
      /\ \A i, j \in 1 .. m : i < j => h[i] < h[j]
      /\ \A k \in 1 .. m : h[k] \in places /\ cs[k] = bs[h[k]]
      /\ \A p \in 1 .. n : p \in places => \E k \in 1 .. m : h[k] = p
  BY Shape DEF Picks
<1>2. CASE n + 1 \in places
  <2>1. IsSeq(ds) /\ Len(ds) = m + 1 /\ ds[m + 1] = bs[n + 1] /\ \A k \in 1 .. m : ds[k] = cs[k]
    <3>1. cs \in Seq(Range(cs) \cup {bs[n + 1]})
      BY <1>1 DEF IsSeq
    <3>2. ds \in Seq(Range(cs) \cup {bs[n + 1]}) /\ Len(ds) = m + 1 /\ ds[m + 1] = bs[n + 1]
          /\ \A k \in 1 .. m : ds[k] = cs[k]
      BY <3>1
    <3>3. IsSeq(ds)
      BY <3>2, AnySeq
    <3> QED
      BY <3>2, <3>3
  <2>2. /\ g \in [1 .. m + 1 -> 1 .. n + 1] /\ g[m + 1] = n + 1
        /\ \A k \in 1 .. m : g[k] = h[k] /\ g[k] \in 1 .. n
    BY <1>1
  <2> HIDE DEF g, ds, m
  <2>3. \A k \in 1 .. m + 1 : k \in 1 .. m \/ k = m + 1
    BY <1>1
  <2>4. ASSUME NEW i \in 1 .. m + 1, NEW j \in 1 .. m + 1, i < j PROVE g[i] < g[j]
    <3>1. i \in 1 .. m
      BY <2>4, <1>1
    <3>2. CASE j \in 1 .. m
      BY <1>1, <2>2, <2>4, <3>1, <3>2
    <3>3. CASE j = m + 1
      BY <2>2, <3>1, <3>3
    <3> QED
      BY <2>3, <3>2, <3>3
  <2>5. \A k \in 1 .. m + 1 : g[k] \in places /\ ds[k] = bs[g[k]]
    BY <1>1, <1>2, <2>1, <2>2, <2>3
  <2>6. ASSUME NEW p \in 1 .. n + 1, p \in places PROVE \E k \in 1 .. m + 1 : g[k] = p
    <3>1. CASE p = n + 1
      BY <1>1, <2>2, <3>1
    <3>2. CASE p # n + 1
      <4>1. PICK k \in 1 .. m : h[k] = p
        <5>1. p \in 1 .. n
          BY <3>2
        <5> QED
          BY <5>1, <1>1, <2>6
      <4> QED
        BY <1>1, <2>2, <4>1
    <3> QED
      BY <3>1, <3>2
  <2>7. Picks(ds, bs, g, places, n + 1)
    BY <2>1, <2>2, <2>4, <2>5, <2>6 DEF Picks
  <2> QED
    BY <1>2, <2>7 DEF ds
<1>3. CASE n + 1 \notin places
  <2>1. h \in [1 .. m -> 1 .. n + 1]
    BY <1>1
  <2>2. \A p \in 1 .. n + 1 : p \in places => p \in 1 .. n
    BY <1>3
  <2>3. \A p \in 1 .. n + 1 : p \in places => \E k \in 1 .. m : h[k] = p
    BY <1>1, <2>2
  <2>4. Picks(cs, bs, h, places, n + 1)
    BY <1>1, <2>1, <2>3 DEF Picks
  <2> QED
    BY <1>3, <2>4
<1> QED
  BY <1>2, <1>3

\* Every prefix of the places is picked in order.
LEMMA AtUpToPicks ==
    ASSUME NEW bs, IsSeq(bs), NEW places, NEW n \in 0 .. Len(bs)
    PROVE  \E h : Picks(AtUpTo(bs, places)[n], bs, h, places, n)
<1> DEFINE kept == AtUpTo(bs, places)
           N == Len(bs)
           S == {m \in 0 .. N : \E h : Picks(kept[m], bs, h, places, m)}
<1>1. N \in Nat /\ kept[0] = <<>>
  BY Shape, AtEquation
<1>2. \A m \in 1 .. N :
         kept[m] = IF m \in places THEN Append(kept[m - 1], bs[m]) ELSE kept[m - 1]
  BY AtEquation
<1> HIDE DEF kept, N
<1>3. 0 \in S
  <2> DEFINE h == [k \in 1 .. 0 |-> 1]
  <2>1. IsSeq(<<>>) /\ Len(<<>>) = 0 /\ h \in [1 .. 0 -> 1 .. 0] /\ 1 .. 0 = {}
    BY DEF IsSeq
  <2> HIDE DEF h
  <2>2. Picks(<<>>, bs, h, places, 0)
    BY <2>1 DEF Picks
  <2> QED
    BY <1>1, <2>2
<1>4. ASSUME NEW m \in 0 .. N - 1, m \in S PROVE m + 1 \in S
  <2>1. PICK h : Picks(kept[m], bs, h, places, m)
    BY <1>4
  <2>2. m \in Nat /\ m + 1 \in 1 .. N /\ m + 1 \in 0 .. N /\ (m + 1) - 1 = m
    BY <1>1
  <2>3. kept[m + 1] = IF m + 1 \in places THEN Append(kept[m], bs[m + 1]) ELSE kept[m]
    BY <1>2, <2>2
  <2>4. \E g : Picks(kept[m + 1], bs, g, places, m + 1)
    BY <2>1, <2>2, <2>3, PicksOneMore
  <2> QED
    BY <2>2, <2>4
<1>5. \A m \in 0 .. N : m \in S
  <2> HIDE DEF S
  <2> QED
    BY <1>1, <1>3, <1>4, UpTo
<1> QED
  BY <1>5 DEF kept, N

\* At picks the blocks at its places in order.
LEMMA AtPicks ==
    ASSUME NEW bs, IsSeq(bs), NEW places
    PROVE  \E h : Picks(At(bs, places), bs, h, places, Len(bs))
<1>1. Len(bs) \in 0 .. Len(bs)
  BY Shape
<1> QED
  BY <1>1, AtUpToPicks DEF At

-----------------------------------------------------------------------------
(* Where the blocks after a transform come from.                           *)

\* A block has its fields, its text shows its own facts, only a tool result fails.
IsBlock(b) ==
    /\ b = [id |-> b.id, kind |-> b.kind, turn |-> b.turn, text |-> b.text,
            branch |-> b.branch, call |-> b.call, failed |-> b.failed,
            pinned |-> b.pinned, ref |-> b.ref]
    /\ b.text.size \in Nat /\ b.text.head \subseteq b.text.facts
    /\ b.failed => b.kind = "ToolResult"

IsBlocks(bs) == IsSeq(bs) /\ \A i \in 1 .. Len(bs) : IsBlock(bs[i])

MadeTags == {"sum", "rolled", "fold_record"}

\* A summary, marker or record that a transform has made.
Made(b) == /\ b.kind = "Summary" /\ b.branch = NoName /\ b.ref = NoRef
           /\ b.id[1] \in MadeTags

\* c is what a transform made of b: the same block, rewritten only if it is a
\* tool result, and not taken back from cold storage.
Comes(c, b) == /\ c.id = b.id /\ c.kind = b.kind /\ c.branch = b.branch
               /\ c.kind # "ToolResult" => c.text = b.text /\ c.ref = b.ref
               /\ c.ref = NoRef => b.ref = NoRef

Talks(b) == b.kind \notin Protected

\* cs was made of bs; g[k] is where its k-th block was, 0 when a transform made it.
Trace(cs, bs, g) ==
    /\ IsBlocks(cs) /\ g \in [1 .. Len(cs) -> 0 .. Len(bs)]
    /\ \A k \in 1 .. Len(cs) : IF g[k] = 0 THEN Made(cs[k]) ELSE Comes(cs[k], bs[g[k]])
    /\ \A i, j \in 1 .. Len(cs) : i # j /\ g[i] # 0 => g[i] # g[j]
    /\ \A i, j \in 1 .. Len(cs) : i < j /\ Talks(cs[i]) /\ Talks(cs[j]) => g[i] < g[j]

\* No two blocks have changed places, whatever their kinds.
Sorted(cs, g) ==
    \A i, j \in 1 .. Len(cs) : i < j /\ g[i] # 0 /\ g[j] # 0 => g[i] < g[j]

\* The blocks of bs that are still there are those at the places of a set.
Spares(cs, bs, g, places) ==
    \A p \in 1 .. Len(bs) : p \in places <=> \E k \in 1 .. Len(cs) : g[k] = p

\* The blocks that are still there are as they were.
Verbatim(cs, bs, g) == \A k \in 1 .. Len(cs) : g[k] # 0 => cs[k] = bs[g[k]]

\* A block comes from itself.
LEMMA ComesSelf == ASSUME NEW b PROVE Comes(b, b)
  BY DEF Comes

\* What comes from a made block is made.
LEMMA ComesMade == ASSUME NEW b, NEW c, Made(b), Comes(c, b) PROVE Made(c)
  BY DEF Comes, Made

\* Transforms that follow one another.
LEMMA ComesTwice == ASSUME NEW b, NEW c, NEW d, Comes(d, c), Comes(c, b) PROVE Comes(d, b)
  BY DEF Comes

LEMMA TraceTwice ==
    ASSUME NEW bs, NEW cs, NEW ds, NEW g, NEW h, Len(bs) \in Nat, Len(cs) \in Nat, Len(ds) \in Nat,
           Trace(cs, bs, g), Trace(ds, cs, h)
    PROVE  Trace(ds, bs, [k \in 1 .. Len(ds) |-> IF h[k] = 0 THEN 0 ELSE g[h[k]]])
<1> DEFINE n == Len(ds)
           gh == [k \in 1 .. n |-> IF h[k] = 0 THEN 0 ELSE g[h[k]]]
<1>1. /\ IsBlocks(ds)
      /\ \A k \in 1 .. n : h[k] \in 0 .. Len(cs) /\ (h[k] # 0 => h[k] \in 1 .. Len(cs))
      /\ \A k \in 1 .. Len(cs) : g[k] \in 0 .. Len(bs)
  <2>1. IsBlocks(ds) /\ h \in [1 .. n -> 0 .. Len(cs)] /\ g \in [1 .. Len(cs) -> 0 .. Len(bs)]
    BY Zenon DEF Trace
  <2>2. \A m \in 0 .. Len(cs) : m # 0 => m \in 1 .. Len(cs)
    OBVIOUS
  <2> HIDE DEF n
  <2>3. \A k \in 1 .. n : h[k] \in 0 .. Len(cs)
    BY <2>1
  <2> QED
    BY <2>1, <2>2, <2>3, Zenon
<1>2. /\ gh \in [1 .. n -> 0 .. Len(bs)]
      /\ \A k \in 1 .. n : gh[k] = IF h[k] = 0 THEN 0 ELSE g[h[k]]
  BY <1>1
<1> HIDE DEF gh, n
<1>3. ASSUME NEW k \in 1 .. n
      PROVE IF gh[k] = 0 THEN Made(ds[k]) ELSE Comes(ds[k], bs[gh[k]])
  <2>1. CASE h[k] = 0
    BY <1>2, <2>1 DEF Trace, n
  <2>2. CASE h[k] # 0
    <3>1. h[k] \in 1 .. Len(cs) /\ gh[k] = g[h[k]] /\ Comes(ds[k], cs[h[k]])
      BY <1>1, <1>2, <2>2 DEF Trace, n
    <3>2. IF g[h[k]] = 0 THEN Made(cs[h[k]]) ELSE Comes(cs[h[k]], bs[g[h[k]]])
      BY <3>1 DEF Trace
    <3> QED
      BY <3>1, <3>2, ComesMade, ComesTwice
  <2> QED
    BY <2>1, <2>2
<1>4. ASSUME NEW i \in 1 .. n, NEW j \in 1 .. n, i # j, gh[i] # 0 PROVE gh[i] # gh[j]
  <2>1. h[i] # 0 /\ h[i] \in 1 .. Len(cs) /\ gh[i] = g[h[i]] /\ h[i] # h[j]
    BY <1>1, <1>2, <1>4 DEF Trace, n
  <2>2. CASE h[j] = 0
    BY <1>2, <1>4, <2>2
  <2>3. CASE h[j] # 0
    <3>1. h[j] \in 1 .. Len(cs) /\ gh[j] = g[h[j]]
      BY <1>1, <1>2, <2>3
    <3> QED
      BY <1>4, <2>1, <3>1 DEF Trace
  <2> QED
    BY <2>2, <2>3
<1>5. ASSUME NEW i \in 1 .. n, NEW j \in 1 .. n, i < j, Talks(ds[i]), Talks(ds[j])
      PROVE gh[i] < gh[j]
  <2>1. ASSUME NEW k \in 1 .. n, Talks(ds[k])
        PROVE h[k] \in 1 .. Len(cs) /\ gh[k] = g[h[k]] /\ Talks(cs[h[k]])
    <3>1. ~Made(ds[k])
      BY <2>1 DEF Made, Talks, Protected
    <3>2. h[k] # 0 /\ Comes(ds[k], cs[h[k]])
      BY <3>1 DEF Trace, n
    <3> QED
      BY <1>1, <1>2, <2>1, <3>2 DEF Comes, Talks
  <2>2. h[i] < h[j]
    BY <1>5 DEF Trace, n
  <2> QED
    BY <1>5, <2>1, <2>2 DEF Trace
<1>6. Trace(ds, bs, gh)
  BY <1>1, <1>2, <1>3, <1>4, <1>5 DEF Trace, n
<1> QED
  BY <1>6 DEF gh, n

\* A block and its fields.
LEMMA BlocksShape ==
    ASSUME NEW bs, IsBlocks(bs)
    PROVE  /\ IsSeq(bs) /\ Len(bs) \in Nat /\ DOMAIN bs = 1 .. Len(bs)
           /\ \A i \in 1 .. Len(bs) : IsBlock(bs[i])
  BY Shape DEF IsBlocks

\* Picking blocks keeps them as they are and in order.
LEMMA PickTrace ==
    ASSUME NEW bs, IsBlocks(bs), NEW places
    PROVE  \E g : /\ Trace(At(bs, places), bs, g) /\ Sorted(At(bs, places), g)
                  /\ Spares(At(bs, places), bs, g, places) /\ Verbatim(At(bs, places), bs, g)
                  /\ \A k \in 1 .. Len(At(bs, places)) : g[k] # 0
<1> DEFINE cs == At(bs, places)
<1>1. PICK g : Picks(cs, bs, g, places, Len(bs))
  BY AtPicks, BlocksShape
<1> HIDE DEF cs
<1>2. /\ IsSeq(cs) /\ Len(cs) \in Nat /\ Len(bs) \in Nat /\ g \in [1 .. Len(cs) -> 1 .. Len(bs)]
      /\ \A i, j \in 1 .. Len(cs) : i < j => g[i] < g[j]
      /\ \A k \in 1 .. Len(cs) : g[k] \in places /\ cs[k] = bs[g[k]]
      /\ \A p \in 1 .. Len(bs) : p \in places => \E k \in 1 .. Len(cs) : g[k] = p
  BY <1>1, BlocksShape, Shape DEF Picks
<1>3. \A k \in 1 .. Len(cs) : g[k] \in 1 .. Len(bs) /\ g[k] # 0 /\ g[k] \in Nat
  BY <1>2
<1>4. IsBlocks(cs)
  BY <1>2, <1>3, BlocksShape DEF IsBlocks
<1>5. \A i, j \in 1 .. Len(cs) : i # j => g[i] # g[j]
  <2> SUFFICES ASSUME NEW i \in 1 .. Len(cs), NEW j \in 1 .. Len(cs), i # j PROVE g[i] # g[j]
    OBVIOUS
  <2>1. i < j \/ j < i
    BY <1>2
  <2>2. g[i] < g[j] \/ g[j] < g[i]
    BY <1>2, <2>1
  <2> QED
    BY <1>3, <2>2
<1>6. g \in [1 .. Len(cs) -> 0 .. Len(bs)]
  BY <1>2
<1>7. Trace(cs, bs, g)
  BY <1>2, <1>3, <1>4, <1>5, <1>6, ComesSelf DEF Trace
<1>8. Sorted(cs, g) /\ Spares(cs, bs, g, places) /\ Verbatim(cs, bs, g)
  BY <1>2 DEF Sorted, Spares, Verbatim
<1> QED
  BY <1>3, <1>7, <1>8 DEF cs

\* Rewriting blocks where they stand.
LEMMA MapTrace ==
    ASSUME NEW bs, IsBlocks(bs), NEW cs, DOMAIN cs = DOMAIN bs,
           cs = [i \in DOMAIN bs |-> cs[i]],
           \A i \in 1 .. Len(bs) : IsBlock(cs[i]) /\ Comes(cs[i], bs[i])
    PROVE  \E g : /\ Trace(cs, bs, g) /\ Sorted(cs, g) /\ Spares(cs, bs, g, 1 .. Len(bs))
                  /\ \A i \in 1 .. Len(cs) : g[i] = i
<1> DEFINE N == Len(bs)
           g == [i \in 1 .. N |-> i]
<1>1. N \in Nat /\ DOMAIN bs = 1 .. N
  BY BlocksShape
<1>2. IsSeq(cs) /\ Len(cs) = N
  BY <1>1, Listed
<1>3. IsBlocks(cs)
  BY <1>2 DEF IsBlocks
<1>4. g \in [1 .. N -> 0 .. N] /\ \A i \in 1 .. N : g[i] = i /\ g[i] # 0 /\ i \in Int
  BY <1>1
<1> HIDE DEF g
<1>5. Trace(cs, bs, g)
  <2>1. \A k \in 1 .. N : g[k] # 0 /\ Comes(cs[k], bs[g[k]])
    BY <1>4
  <2>2. \A i, j \in 1 .. N : g[i] = i /\ g[j] = j
    BY <1>4
  <2>3. \A i, j \in 1 .. N : (i # j => g[i] # g[j]) /\ (i < j => g[i] < g[j])
    BY <2>2
  <2> QED
    BY <1>2, <1>3, <1>4, <2>1, <2>3 DEF Trace
<1>6. Sorted(cs, g) /\ Spares(cs, bs, g, 1 .. N) /\ \A i \in 1 .. Len(cs) : g[i] = i
  BY <1>2, <1>4 DEF Sorted, Spares
<1> QED
  BY <1>5, <1>6

\* The blocks with new in place of those from a to z.
Spliced(bs, new, a, z) == SubSeq(bs, 1, a - 1) \o new \o SubSeq(bs, z + 1, Len(bs))

\* Where the places of the result come from.
Placed(cs, bs, new, a, z, g) ==
    /\ Len(cs) = Len(bs) - (z - a + 1) + Len(new)
    /\ \A k \in 1 .. Len(cs) : g[k] = IF k < a THEN k
                                      ELSE IF k < a + Len(new) THEN 0
                                      ELSE k - Len(new) + (z - a + 1)
    /\ \A k \in 1 .. Len(new) : cs[a - 1 + k] = new[k]

\* Blocks that were made, put into blocks that stay, in place of those from a to z.
LEMMA SpliceTrace ==
    ASSUME NEW bs, IsBlocks(bs), NEW new, IsBlocks(new),
           \A k \in 1 .. Len(new) : Made(new[k]),
           NEW a \in 1 .. Len(bs) + 1, NEW z \in a - 1 .. Len(bs)
    PROVE  LET cs == Spliced(bs, new, a, z)
           IN \E g : /\ Trace(cs, bs, g) /\ Sorted(cs, g)
                     /\ Spares(cs, bs, g, 1 .. Len(bs) \ (a .. z)) /\ Verbatim(cs, bs, g)
                     /\ Placed(cs, bs, new, a, z, g)
<1> DEFINE N == Len(bs)
           m == Len(new)
           front == SubSeq(bs, 1, a - 1)
           back == SubSeq(bs, z + 1, N)
           cs == front \o new \o back
           n == (a - 1) + m + (N - z)
           g == [k \in 1 .. n |-> IF k < a THEN k ELSE IF k < a + m THEN 0
                                  ELSE k - m + (z - a + 1)]
<1>1. N \in Nat /\ m \in Nat /\ IsSeq(bs) /\ IsSeq(new) /\ a \in Nat /\ z \in Nat /\ a - 1 \in Nat
  BY BlocksShape
<1>2. /\ front \in Seq(Range(bs)) /\ Len(front) = a - 1
      /\ \A k \in 1 .. a - 1 : front[k] = bs[k]
  <2>1. bs \in Seq(Range(bs)) /\ 1 .. a - 1 \subseteq 1 .. N
    BY <1>1 DEF IsSeq
  <2> QED
    BY <1>1, <2>1, SubSeqProperties
<1>3. /\ back \in Seq(Range(bs)) /\ Len(back) = N - z
      /\ \A k \in 1 .. N - z : back[k] = bs[z + k]
  <2>1. bs \in Seq(Range(bs)) /\ z + 1 \in 1 .. N + 1
    BY <1>1 DEF IsSeq
  <2> QED
    BY <1>1, <2>1, SubSeqProperties
<1> HIDE DEF front, back
<1>4. /\ cs \in Seq(Range(bs) \cup Range(new)) /\ Len(cs) = n
      /\ \A k \in 1 .. n : cs[k] = IF k < a THEN front[k]
                                   ELSE IF k < a + m THEN new[k - (a - 1)]
                                   ELSE back[k - (a - 1) - m]
  <2>1. front \in Seq(Range(bs) \cup Range(new)) /\ back \in Seq(Range(bs) \cup Range(new))
        /\ new \in Seq(Range(bs) \cup Range(new))
    BY <1>1, <1>2, <1>3 DEF IsSeq
  <2> DEFINE W == Range(bs) \cup Range(new)
             head == front \o new
  <2> HIDE DEF W
  <2>2. /\ front \in Seq(W) /\ new \in Seq(W) /\ back \in Seq(W)
    BY <2>1 DEF W
  <2>3. /\ head \in Seq(W) /\ Len(head) = (a - 1) + m
        /\ \A k \in 1 .. (a - 1) + m : head[k] = IF k < a THEN front[k] ELSE new[k - (a - 1)]
    <3>1. /\ head \in Seq(W) /\ Len(head) = Len(front) + Len(new)
          /\ \A k \in 1 .. Len(front) + Len(new) :
               head[k] = IF k <= Len(front) THEN front[k] ELSE new[k - Len(front)]
      BY <2>2, ConcatProperties
    <3>2. Len(front) = a - 1 /\ Len(new) = m /\ m \in Nat
      BY <1>1, <1>2
    <3> HIDE DEF head, m
    <3>3. a \in Nat /\ \A k \in 1 .. (a - 1) + m : k <= a - 1 <=> k < a
      BY <1>1, <3>2
    <3> QED
      BY <3>1, <3>2, <3>3
  <2>4. cs = head \o back
    OBVIOUS
  <2> HIDE DEF head, cs
  <2>5. /\ cs \in Seq(W) /\ Len(cs) = n
        /\ \A k \in 1 .. n : cs[k] = IF k <= (a - 1) + m THEN head[k]
                                     ELSE back[k - ((a - 1) + m)]
    <3>1. /\ cs \in Seq(W) /\ Len(cs) = Len(head) + Len(back)
          /\ \A k \in 1 .. Len(head) + Len(back) :
               cs[k] = IF k <= Len(head) THEN head[k] ELSE back[k - Len(head)]
      BY <2>2, <2>3, <2>4, ConcatProperties
    <3>2. Len(head) + Len(back) = n
      BY <1>1, <1>3, <2>3
    <3> QED
      BY <3>1, <3>2, <2>3
  <2>6. ASSUME NEW k \in 1 .. n
        PROVE cs[k] = IF k < a THEN front[k]
                      ELSE IF k < a + m THEN new[k - (a - 1)]
                      ELSE back[k - (a - 1) - m]
    <3>1. CASE k <= (a - 1) + m
      <4>1. k \in 1 .. (a - 1) + m /\ k < a + m
        BY <1>1, <3>1
      <4> QED
        BY <2>3, <2>5, <3>1, <4>1
    <3>2. CASE ~(k <= (a - 1) + m)
      <4>1. ~(k < a) /\ ~(k < a + m) /\ k - ((a - 1) + m) = k - (a - 1) - m
        BY <1>1, <3>2
      <4> QED
        BY <2>5, <3>2, <4>1
    <3> QED
      BY <3>1, <3>2
  <2> QED
    BY <2>5, <2>6 DEF W
<1>5. IsSeq(cs)
  BY <1>4, AnySeq
<1> HIDE DEF cs
<1>6. /\ g \in [1 .. n -> 0 .. N]
      /\ \A k \in 1 .. n : g[k] = IF k < a THEN k ELSE IF k < a + m THEN 0
                                  ELSE k - m + (z - a + 1)
  BY <1>1
<1> HIDE DEF g
<1>7. \A k \in 1 .. n : IF g[k] = 0 THEN k - (a - 1) \in 1 .. m /\ cs[k] = new[k - (a - 1)]
                                ELSE g[k] \in 1 .. N /\ cs[k] = bs[g[k]]
  <2> SUFFICES ASSUME NEW k \in 1 .. n
               PROVE IF g[k] = 0 THEN k - (a - 1) \in 1 .. m /\ cs[k] = new[k - (a - 1)]
                                 ELSE g[k] \in 1 .. N /\ cs[k] = bs[g[k]]
    OBVIOUS
  <2>1. CASE k < a
    <3>1. k \in 1 .. a - 1 /\ k # 0 /\ k \in 1 .. N
      BY <1>1, <2>1
    <3>2. g[k] = k /\ cs[k] = front[k]
      BY <1>4, <1>6, <2>1
    <3>3. cs[k] = bs[k]
      BY <1>2, <3>1, <3>2
    <3> QED
      BY <3>1, <3>2, <3>3
  <2>2. CASE ~(k < a) /\ k < a + m
    <3>1. k - (a - 1) \in 1 .. m
      BY <1>1, <2>2
    <3>2. g[k] = 0 /\ cs[k] = new[k - (a - 1)]
      BY <1>4, <1>6, <2>2
    <3> QED
      BY <3>1, <3>2
  <2>3. CASE ~(k < a) /\ ~(k < a + m)
    <3>1. k - (a - 1) - m \in 1 .. N - z /\ cs[k] = back[k - (a - 1) - m]
      BY <1>1, <1>4, <2>3
    <3> DEFINE j == k - (a - 1) - m
    <3>2. g[k] = z + j /\ g[k] \in 1 .. N /\ g[k] # 0
      <4>1. g[k] = k - m + (z - a + 1) /\ k \in Nat /\ k <= (a - 1) + m + (N - z) /\ k >= a + m
        BY <1>1, <1>6, <2>3
      <4> QED
        BY <1>1, <4>1
    <3> HIDE DEF j
    <3>3. cs[k] = back[j] /\ j \in 1 .. N - z
      BY <3>1 DEF j
    <3>4. cs[k] = bs[g[k]]
      BY <1>3, <3>2, <3>3
    <3> QED
      BY <3>2, <3>4
  <2> QED
    BY <2>1, <2>2, <2>3
<1>8. IsBlocks(cs)
  BY <1>4, <1>5, <1>7, BlocksShape DEF IsBlocks
<1>9. \A i, j \in 1 .. n : i < j /\ g[i] # 0 /\ g[j] # 0 => g[i] < g[j]
  BY <1>1, <1>6
<1>10. \A i, j \in 1 .. n : i # j /\ g[i] # 0 => g[i] # g[j]
  BY <1>1, <1>6
<1>11. \A k \in 1 .. n : IF g[k] = 0 THEN Made(cs[k]) ELSE Comes(cs[k], bs[g[k]])
  BY <1>7, ComesSelf
<1>12. \A k \in 1 .. n : Talks(cs[k]) => g[k] # 0
  BY <1>11 DEF Made, Talks, Protected
<1>13. Trace(cs, bs, g)
  BY <1>4, <1>6, <1>8, <1>9, <1>10, <1>11, <1>12 DEF Trace
<1>14. Sorted(cs, g) /\ Verbatim(cs, bs, g)
  BY <1>4, <1>7, <1>9 DEF Sorted, Verbatim
<1>15. Spares(cs, bs, g, 1 .. N \ (a .. z))
  <2> SUFFICES ASSUME NEW p \in 1 .. N
               PROVE p \in 1 .. N \ (a .. z) <=> \E k \in 1 .. n : g[k] = p
    BY <1>4 DEF Spares
  <2>1. CASE p < a
    <3>1. p \in 1 .. n /\ g[p] = p
      BY <1>1, <1>6, <2>1
    <3> QED
      BY <3>1, <2>1, <1>1
  <2>2. CASE p \in a .. z
    BY <1>1, <1>6, <2>2
  <2>3. CASE p > z
    <3>1. p + m - (z - a + 1) \in 1 .. n /\ g[p + m - (z - a + 1)] = p
      BY <1>1, <1>6, <2>3
    <3> QED
      BY <3>1, <2>3, <1>1
  <2> QED
    BY <1>1, <2>1, <2>2, <2>3
<1>16. ASSUME NEW k \in 1 .. m PROVE cs[a - 1 + k] = new[k]
  <2>1. /\ a - 1 + k \in 1 .. n /\ ~(a - 1 + k < a) /\ a - 1 + k < a + m
        /\ (a - 1 + k) - (a - 1) = k
    BY <1>1
  <2> QED
    BY <1>4, <2>1
<1>17. Len(cs) = N - (z - a + 1) + m
  BY <1>1, <1>4
<1> QED
  BY <1>4, <1>6, <1>13, <1>14, <1>15, <1>16, <1>17 DEF Spliced, Placed, cs, front, back

-----------------------------------------------------------------------------
(* What the helpers of the transforms return.                              *)

LEMMA MaxOfTwo ==
    ASSUME NEW a \in Nat, NEW b \in Nat
    PROVE  Max({a, b}) \in Nat /\ Max({a, b}) >= a /\ Max({a, b}) >= b
<1>1. \E x \in {a, b} : \A y \in {a, b} : x >= y
  OBVIOUS
<1> QED
  BY <1>1 DEF Max

LEMMA MinOfTwo ==
    ASSUME NEW a \in Nat, NEW b \in Nat
    PROVE  Min({a, b}) \in Nat /\ Min({a, b}) <= a /\ Min({a, b}) <= b
<1>1. \E x \in {a, b} : \A y \in {a, b} : x <= y
  OBVIOUS
<1> QED
  BY <1>1 DEF Min

\* The blocks up to PrefixEnd have one of the kinds, the next has not.
LEMMA PrefixPlace ==
    ASSUME NEW bs, IsBlocks(bs), NEW kinds
    PROVE  /\ PrefixEnd(bs, kinds) \in 0 .. Len(bs)
           /\ \A i \in 1 .. PrefixEnd(bs, kinds) : bs[i].kind \in kinds
           /\ \/ PrefixEnd(bs, kinds) = Len(bs)
              \/ bs[PrefixEnd(bs, kinds) + 1].kind \notin kinds
<1> DEFINE Ends(n) == n = Len(bs) \/ bs[n + 1].kind \notin kinds
           S == {n \in 0 .. Len(bs) : Ends(n)}
<1>1. Len(bs) \in Nat
  BY BlocksShape
<1>2. S \in SUBSET Nat /\ Len(bs) \in S
  BY <1>1
<1>3. PICK n \in S : \A m \in S : n <= m
  <2> HIDE DEF S
  <2> QED
    BY <1>2, Least
<1>4. ASSUME NEW i \in 1 .. n PROVE bs[i].kind \in kinds
  <2>1. i - 1 \in 0 .. Len(bs) /\ ~(n <= i - 1) /\ (i - 1) + 1 = i
    BY <1>1, <1>3
  <2>2. ~Ends(i - 1)
    BY <1>3, <2>1
  <2> QED
    BY <2>1, <2>2
<1> QED
  BY <1>3, <1>4 DEF PrefixEnd

\* The middle lies behind a prefix of the kinds and has at least two blocks.
LEMMA MiddlePlace ==
    ASSUME NEW bs, IsBlocks(bs), NEW o \in Options, NEW kinds, Middle(bs, o, kinds) # NoMiddle
    PROVE  LET mid == Middle(bs, o, kinds) IN
           /\ mid = <<mid[1], mid[2]>>
           /\ mid[1] \in 1 .. Len(bs) /\ mid[2] \in mid[1] .. Len(bs)
           /\ \A i \in 1 .. mid[1] - 1 : bs[i].kind \in kinds
<1> DEFINE n == PrefixEnd(bs, kinds)
           t == SummaryTail(o)
<1>1. Len(bs) \in Nat /\ n \in 0 .. Len(bs) /\ \A i \in 1 .. n : bs[i].kind \in kinds
  BY BlocksShape, PrefixPlace
<1>2. t \in Nat
  <2>1. o.summarizeKeep \in Nat /\ o.keepRecent + 4 \in Nat
    BY OptionsAssumption
  <2> QED
    BY <2>1, MaxOfTwo DEF SummaryTail
<1>3. Middle(bs, o, kinds) = <<n + 1, Len(bs) - t>> /\ n + 1 < Len(bs) - t
  BY <1>1, <1>2 DEF Middle
<1> HIDE DEF n, t
<1> QED
  BY <1>1, <1>2, <1>3

\* A summary a transform makes is a block, and made.
LEMMA SummaryMade ==
    ASSUME NEW id, id[1] \in MadeTags, NEW text, text.size \in Nat, text.head \subseteq text.facts
    PROVE  IsBlock(NewSummary(id, text)) /\ Made(NewSummary(id, text))
  BY DEF NewSummary, Block, IsBlock, Made

\* Some blocks give way to one summary.
LEMMA ReplaceTrace ==
    ASSUME NEW bs, IsBlocks(bs), NEW b, IsBlock(b), Made(b),
           NEW mid, mid[1] \in 1 .. Len(bs), mid[2] \in mid[1] .. Len(bs)
    PROVE  LET cs == ReplaceMiddle(bs, mid, b)
           IN \E g : /\ Trace(cs, bs, g)
                     /\ Spares(cs, bs, g, 1 .. Len(bs) \ (mid[1] .. mid[2]))
                     /\ Verbatim(cs, bs, g)
<1> DEFINE new == <<b>>
<1>1. Len(bs) \in Nat
  BY BlocksShape
<1>2. IsBlocks(new) /\ \A k \in 1 .. Len(new) : Made(new[k])
  <2>1. new \in Seq({b}) /\ Len(new) = 1 /\ new[1] = b
    OBVIOUS
  <2>2. IsSeq(new)
    BY <2>1, AnySeq
  <2> HIDE DEF new
  <2> QED
    BY <2>1, <2>2 DEF IsBlocks
<1>3. mid[1] \in 1 .. Len(bs) + 1 /\ mid[2] \in mid[1] - 1 .. Len(bs)
  BY <1>1
<1> HIDE DEF new
<1> DEFINE cs == Spliced(bs, new, mid[1], mid[2])
<1>4. \E g : /\ Trace(cs, bs, g) /\ Spares(cs, bs, g, 1 .. Len(bs) \ (mid[1] .. mid[2]))
             /\ Verbatim(cs, bs, g)
  BY <1>2, <1>3, SpliceTrace
<1>5. ReplaceMiddle(bs, mid, b) = cs
  BY DEF ReplaceMiddle, Spliced, new
<1> QED
  BY <1>4, <1>5

-----------------------------------------------------------------------------
(* What each transform does with the blocks it gets.                       *)

\* Blocks of the kinds are all still there.
Keeps(cs, bs, g, kinds) ==
    \A p \in 1 .. Len(bs) : bs[p].kind \in kinds => \E k \in 1 .. Len(cs) : g[k] = p

\* A talk block still there as it was has every later one behind it, but for
\* fillers and, when results may go stale, results.
Aged(cs, bs, g, stale) ==
    \A p, q \in 1 .. Len(bs) :
        /\ p < q
        /\ \E k \in 1 .. Len(cs) : g[k] = p /\ Trimmable(cs[k])
        /\ Talks(bs[q])
        /\ bs[q].kind # "ToolResult" => Filler \notin bs[q].text.facts
        /\ stale => bs[q].kind # "ToolResult"
        => \E k \in 1 .. Len(cs) : g[k] = q

LEMMA GuidelineTrace ==
    ASSUME NEW bs, IsBlocks(bs), NEW o
    PROVE  \E g : /\ Trace(GuidelinePin(bs, o), bs, g) /\ Sorted(GuidelinePin(bs, o), g)
                  /\ Spares(GuidelinePin(bs, o), bs, g, 1 .. Len(bs))
<1> DEFINE cs == GuidelinePin(bs, o)
<1>1. DOMAIN cs = DOMAIN bs /\ cs = [i \in DOMAIN bs |-> cs[i]]
  BY DEF GuidelinePin
<1>2. ASSUME NEW i \in 1 .. Len(bs) PROVE IsBlock(cs[i]) /\ Comes(cs[i], bs[i])
  <2>1. i \in DOMAIN bs /\ IsBlock(bs[i])
    BY BlocksShape
  <2> DEFINE action == MatchingAction(o.bank, bs[i].text)
             short == [size |-> StubSize, facts |-> bs[i].text.head, head |-> bs[i].text.head]
  <2>2. \/ cs[i] = [bs[i] EXCEPT !.pinned = TRUE]
        \/ bs[i].kind = "ToolResult" /\ cs[i] = [bs[i] EXCEPT !.text = short]
        \/ cs[i] = bs[i]
    <3> HIDE DEF action
    <3> QED
      BY <2>1 DEF GuidelinePin, action
  <2> HIDE DEF cs
  <2>3. CASE cs[i] = [bs[i] EXCEPT !.pinned = TRUE]
    BY <2>1, <2>3 DEF IsBlock, Comes
  <2>4. CASE bs[i].kind = "ToolResult" /\ cs[i] = [bs[i] EXCEPT !.text = short]
    BY <2>1, <2>4, SummaryAssumption DEF IsBlock, Comes
  <2>5. CASE cs[i] = bs[i]
    BY <2>1, <2>5, ComesSelf
  <2> QED
    BY <2>2, <2>3, <2>4, <2>5
<1> HIDE DEF cs
<1>3. \E g : /\ Trace(cs, bs, g) /\ Sorted(cs, g) /\ Spares(cs, bs, g, 1 .. Len(bs))
  BY <1>1, <1>2, MapTrace
<1> QED
  BY <1>3 DEF cs

\* A tool result that is moved out.
LEMMA StubBlock ==
    ASSUME NEW b, IsBlock(b), b.kind = "ToolResult", b.ref = NoRef, NEW r,
           NEW s, s.size \in Nat, s.head \subseteq s.facts,
           NEW c, c = [b EXCEPT !.text = s, !.ref = r]
    PROVE  IsBlock(c) /\ Comes(c, b)
<1>1. c = [id |-> b.id, kind |-> b.kind, turn |-> b.turn, text |-> s, branch |-> b.branch,
           call |-> b.call, failed |-> b.failed, pinned |-> b.pinned, ref |-> r]
  BY DEF IsBlock
<1>2. /\ c.id = b.id /\ c.kind = b.kind /\ c.turn = b.turn /\ c.text = s /\ c.branch = b.branch
      /\ c.call = b.call /\ c.failed = b.failed /\ c.pinned = b.pinned /\ c.ref = r
  BY <1>1
<1>3. c = [id |-> c.id, kind |-> c.kind, turn |-> c.turn, text |-> c.text,
            branch |-> c.branch, call |-> c.call, failed |-> c.failed,
            pinned |-> c.pinned, ref |-> c.ref]
  BY <1>1, <1>2
<1> QED
  BY <1>2, <1>3 DEF IsBlock, Comes

LEMMA ErrorTrace ==
    ASSUME NEW bs, IsBlocks(bs), NEW o
    PROVE  \E g : /\ Trace(ErrorCompaction(bs, o), bs, g)
                  /\ Spares(ErrorCompaction(bs, o), bs, g, 1 .. Len(bs))
<1> DEFINE cs == ErrorCompaction(bs, o)
<1>1. DOMAIN cs = DOMAIN bs /\ cs = [i \in DOMAIN bs |-> cs[i]]
  BY DEF ErrorCompaction
<1>2. ASSUME NEW i \in 1 .. Len(bs) PROVE IsBlock(cs[i]) /\ Comes(cs[i], bs[i])
  <2>1. i \in DOMAIN bs /\ IsBlock(bs[i])
    BY BlocksShape
  <2>2. CASE CompactsAt(bs, i, o)
    <3>1. /\ cs[i] = [bs[i] EXCEPT !.text = Stub(bs[i].text, <<"err", bs[i].id>>, {Error}),
                                   !.ref = <<"err", bs[i].id>>]
          /\ bs[i].failed /\ bs[i].ref = NoRef
      BY <2>1, <2>2 DEF ErrorCompaction, CompactsAt
    <3>2. bs[i].kind = "ToolResult"
      BY <2>1, <3>1 DEF IsBlock
    <3> DEFINE s == Stub(bs[i].text, <<"err", bs[i].id>>, {Error})
               r == <<"err", bs[i].id>>
    <3>3. s.size \in Nat /\ s.head \subseteq s.facts
      BY SummaryAssumption DEF Stub
    <3> HIDE DEF s, r, cs
    <3>4. cs[i] = [bs[i] EXCEPT !.text = s, !.ref = r]
      BY <3>1 DEF s, r
    <3> QED
      BY <2>1, <3>1, <3>2, <3>3, <3>4, StubBlock
  <2>3. CASE ~CompactsAt(bs, i, o)
    BY <2>1, <2>3, ComesSelf DEF ErrorCompaction
  <2> QED
    BY <2>2, <2>3
<1> HIDE DEF cs
<1>3. \E g : Trace(cs, bs, g) /\ Spares(cs, bs, g, 1 .. Len(bs))
  BY <1>1, <1>2, MapTrace
<1> QED
  BY <1>3 DEF cs

LEMMA MaskTrace ==
    ASSUME NEW bs, IsBlocks(bs), NEW o
    PROVE  \E g : /\ Trace(ConsumedResultMask(bs, o), bs, g)
                  /\ Spares(ConsumedResultMask(bs, o), bs, g, 1 .. Len(bs))
<1> DEFINE cs == ConsumedResultMask(bs, o)
<1>1. DOMAIN cs = DOMAIN bs /\ cs = [i \in DOMAIN bs |-> cs[i]]
  BY DEF ConsumedResultMask
<1>2. ASSUME NEW i \in 1 .. Len(bs) PROVE IsBlock(cs[i]) /\ Comes(cs[i], bs[i])
  <2>1. i \in DOMAIN bs /\ IsBlock(bs[i])
    BY BlocksShape
  <2>2. CASE MasksAt(bs, i, o)
    <3>1. /\ cs[i] = [bs[i] EXCEPT !.text = Stub(bs[i].text, <<"tool", bs[i].id>>, {}),
                                   !.ref = <<"tool", bs[i].id>>]
          /\ bs[i].kind = "ToolResult" /\ bs[i].ref = NoRef
      BY <2>1, <2>2 DEF ConsumedResultMask, MasksAt
    <3>2. bs[i].kind = "ToolResult"
      BY <2>1, <3>1 DEF IsBlock
    <3> DEFINE s == Stub(bs[i].text, <<"tool", bs[i].id>>, {})
               r == <<"tool", bs[i].id>>
    <3>3. s.size \in Nat /\ s.head \subseteq s.facts
      BY SummaryAssumption DEF Stub
    <3> HIDE DEF s, r, cs
    <3>4. cs[i] = [bs[i] EXCEPT !.text = s, !.ref = r]
      BY <3>1 DEF s, r
    <3> QED
      BY <2>1, <3>1, <3>2, <3>3, <3>4, StubBlock
  <2>3. CASE ~MasksAt(bs, i, o)
    BY <2>1, <2>3, ComesSelf DEF ConsumedResultMask
  <2> QED
    BY <2>2, <2>3
<1> HIDE DEF cs
<1>3. \E g : Trace(cs, bs, g) /\ Spares(cs, bs, g, 1 .. Len(bs))
  BY <1>1, <1>2, MapTrace
<1> QED
  BY <1>3 DEF cs

\* When every talk block but fillers and stale results stays, Aged holds.
LEMMA SparesAged ==
    ASSUME NEW bs, NEW cs, NEW g, NEW places, NEW stale, Spares(cs, bs, g, places),
           \A q \in 1 .. Len(bs) :
              /\ Talks(bs[q])
              /\ bs[q].kind # "ToolResult" => Filler \notin bs[q].text.facts
              /\ stale => bs[q].kind # "ToolResult"
              => q \in places
    PROVE  Aged(cs, bs, g, stale)
  BY DEF Aged, Spares

LEMMA SparesKeeps ==
    ASSUME NEW bs, NEW cs, NEW g, NEW places, NEW kinds, Spares(cs, bs, g, places),
           \A q \in 1 .. Len(bs) : bs[q].kind \in kinds => q \in places
    PROVE  Keeps(cs, bs, g, kinds)
  BY DEF Keeps, Spares

\* A summary in place of blocks behind a prefix without talk leaves the old end empty.
LEMMA SpliceAged ==
    ASSUME NEW bs, IsBlocks(bs), NEW cs, NEW g, Trace(cs, bs, g), NEW stale,
           NEW a \in 1 .. Len(bs), NEW z \in a .. Len(bs),
           \A i \in 1 .. a - 1 : bs[i].kind \in Protected,
           Spares(cs, bs, g, 1 .. Len(bs) \ (a .. z))
    PROVE  Aged(cs, bs, g, stale)
<1> SUFFICES ASSUME NEW p \in 1 .. Len(bs), NEW q \in 1 .. Len(bs), p < q,
                    NEW k \in 1 .. Len(cs), g[k] = p, Trimmable(cs[k])
             PROVE  \E j \in 1 .. Len(cs) : g[j] = q
  BY DEF Aged
<1>1. Len(bs) \in Nat
  BY BlocksShape
<1>2. Comes(cs[k], bs[p])
  <2>1. g[k] # 0
    BY <1>1
  <2> QED
    BY <2>1 DEF Trace
<1>3. bs[p].kind \notin Protected
  BY <1>2 DEF Comes, Trimmable
<1>4. p \in 1 .. Len(bs) \ (a .. z)
  BY DEF Spares
<1>5. q \in 1 .. Len(bs) \ (a .. z)
  BY <1>1, <1>3, <1>4
<1> QED
  BY <1>5 DEF Spares

\* Nothing done.
LEMMA SameTrace ==
    ASSUME NEW bs, IsBlocks(bs)
    PROVE  \E g : /\ Trace(bs, bs, g) /\ Sorted(bs, g) /\ Spares(bs, bs, g, 1 .. Len(bs))
                  /\ \A kinds : Keeps(bs, bs, g, kinds)
                  /\ \A stale : Aged(bs, bs, g, stale)
                  /\ \A i \in 1 .. Len(bs) : g[i] = i
<1>1. /\ DOMAIN bs = 1 .. Len(bs) /\ bs = [i \in DOMAIN bs |-> bs[i]]
      /\ \A i \in 1 .. Len(bs) : IsBlock(bs[i]) /\ Comes(bs[i], bs[i])
  BY BlocksShape, ComesSelf DEF IsSeq
<1>2. PICK g : /\ Trace(bs, bs, g) /\ Sorted(bs, g) /\ Spares(bs, bs, g, 1 .. Len(bs))
               /\ \A i \in 1 .. Len(bs) : g[i] = i
  BY <1>1, MapTrace
<1> QED
  BY <1>2 DEF Keeps, Aged

\* Of the folds of a branch the latest is the one nothing follows.
Latest(bs, i) == \A j \in DOMAIN bs : bs[j].branch = bs[i].branch => j <= i

LEMMA CollapseTrace ==
    ASSUME NEW bs, IsBlocks(bs), \A i \in DOMAIN bs : bs[i].branch # NoName => bs[i].kind = "Summary",
           NEW stale
    PROVE  LET cs == FoldCollapse(bs)
           IN \E g : /\ Trace(cs, bs, g) /\ Aged(cs, bs, g, stale) /\ Keeps(cs, bs, g, {"System"})
                     /\ Spares(cs, bs, g, {i \in 1 .. Len(bs) : bs[i].branch = NoName \/ Latest(bs, i)})
<1> DEFINE cs == FoldCollapse(bs)
           places == {i \in 1 .. Len(bs) : bs[i].branch = NoName \/ Latest(bs, i)}
<1>1. Len(bs) \in Nat /\ DOMAIN bs = 1 .. Len(bs)
  BY BlocksShape
<1>2. cs = At(bs, places)
  BY <1>1 DEF FoldCollapse, Latest
<1> HIDE DEF cs
<1>3. PICK g : Trace(cs, bs, g) /\ Spares(cs, bs, g, places)
  <2> HIDE DEF places
  <2> QED
    BY <1>2, PickTrace
<1>4. \A q \in 1 .. Len(bs) : bs[q].kind # "Summary" => q \in places
  BY <1>1
<1>5. Aged(cs, bs, g, stale)
  <2>1. \A q \in 1 .. Len(bs) : Talks(bs[q]) => q \in places
    BY <1>4 DEF Talks, Protected
  <2> HIDE DEF places
  <2> QED
    BY <1>3, <2>1, SparesAged
<1>6. Keeps(cs, bs, g, {"System"})
  <2>1. \A q \in 1 .. Len(bs) : bs[q].kind \in {"System"} => q \in places
    BY <1>4
  <2> HIDE DEF places
  <2> QED
    BY <1>3, <2>1, SparesKeeps
<1> QED
  BY <1>3, <1>5, <1>6 DEF cs

\* Blocks picked for something that only talk can lack.
LEMMA KeepTrace ==
    ASSUME NEW bs, IsBlocks(bs), NEW places,
           \A q \in 1 .. Len(bs) : bs[q].kind \in Protected => q \in places
    PROVE  \E g : /\ Trace(At(bs, places), bs, g) /\ Keeps(At(bs, places), bs, g, Protected)
                  /\ Spares(At(bs, places), bs, g, places)
<1>1. PICK g : Trace(At(bs, places), bs, g) /\ Spares(At(bs, places), bs, g, places)
  BY PickTrace
<1>2. Keeps(At(bs, places), bs, g, Protected)
  BY <1>1, SparesKeeps
<1> QED
  BY <1>1, <1>2

LEMMA OmitTrace ==
    ASSUME NEW bs, IsBlocks(bs), NEW stale
    PROVE  LET cs == AgentOmit(bs)
           IN \E g : Trace(cs, bs, g) /\ Aged(cs, bs, g, stale) /\ Keeps(cs, bs, g, Protected)
<1> DEFINE places == {i \in 1 .. Len(bs) : ~ /\ bs[i].kind = "Assistant"
                                             /\ ~bs[i].pinned
                                             /\ i < Len(bs)
                                             /\ bs[i + 1].kind = "ToolResult"
                                             /\ Filler \in bs[i].text.facts}
<1>1. Len(bs) \in Nat /\ DOMAIN bs = 1 .. Len(bs)
  BY BlocksShape
<1>2. AgentOmit(bs) = At(bs, places)
  BY <1>1 DEF AgentOmit, Keep
<1>3. \A q \in 1 .. Len(bs) : bs[q].kind \in Protected => q \in places
  BY DEF Protected
<1>4. \A q \in 1 .. Len(bs) :
         (bs[q].kind # "ToolResult" => Filler \notin bs[q].text.facts) => q \in places
  OBVIOUS
<1> HIDE DEF places
<1>5. PICK g : /\ Trace(At(bs, places), bs, g) /\ Keeps(At(bs, places), bs, g, Protected)
               /\ Spares(At(bs, places), bs, g, places)
  BY <1>3, KeepTrace
<1>6. Aged(At(bs, places), bs, g, stale)
  BY <1>4, <1>5, SparesAged
<1> QED
  BY <1>2, <1>5, <1>6

LEMMA PruneTrace ==
    ASSUME NEW bs, IsBlocks(bs), NEW o
    PROVE  LET cs == MemoryPrune(bs, o)
           IN \E g : Trace(cs, bs, g) /\ Aged(cs, bs, g, TRUE) /\ Keeps(cs, bs, g, Protected)
<1> DEFINE places == {i \in 1 .. Len(bs) :
                        \/ bs[i].kind # "ToolResult"
                        \/ bs[i].pinned
                        \/ bs[i].ref # NoRef
                        \/ MaxTurn(bs) - bs[i].turn <= o.keepRecent + 4}
<1>1. Len(bs) \in Nat /\ DOMAIN bs = 1 .. Len(bs)
  BY BlocksShape
<1>2. MemoryPrune(bs, o) = At(bs, places)
  BY <1>1 DEF MemoryPrune, Keep
<1>3. \A q \in 1 .. Len(bs) : bs[q].kind # "ToolResult" => q \in places
  OBVIOUS
<1> HIDE DEF places
<1>4. \A q \in 1 .. Len(bs) : bs[q].kind \in Protected => q \in places
  BY <1>3 DEF Protected
<1>5. PICK g : /\ Trace(At(bs, places), bs, g) /\ Keeps(At(bs, places), bs, g, Protected)
               /\ Spares(At(bs, places), bs, g, places)
  BY <1>4, KeepTrace
<1>6. Aged(At(bs, places), bs, g, TRUE)
  BY <1>3, <1>5, SparesAged
<1> QED
  BY <1>2, <1>5, <1>6

LEMMA BacmTrace ==
    ASSUME NEW bs, IsBlocks(bs), NEW o
    PROVE  LET cs == Bacm(bs, o)
           IN \E g : Trace(cs, bs, g) /\ Keeps(cs, bs, g, Protected)
<1> DEFINE cutoff == IF MaxTurn(bs) >= 6 THEN MaxTurn(bs) - 6 ELSE 0
           places == {i \in 1 .. Len(bs) : \/ bs[i].pinned
                                           \/ bs[i].kind \in Protected \cup {"User"}
                                           \/ bs[i].failed
                                           \/ bs[i].turn >= cutoff}
<1>1. Len(bs) \in Nat /\ DOMAIN bs = 1 .. Len(bs)
  BY BlocksShape
<1>2. Bacm(bs, o) = bs \/ Bacm(bs, o) = At(bs, places)
  BY <1>1 DEF Bacm, Keep
<1>3. \A q \in 1 .. Len(bs) : bs[q].kind \in Protected => q \in places
  OBVIOUS
<1> HIDE DEF places
<1>4. CASE Bacm(bs, o) = bs
  BY <1>4, SameTrace
<1>5. CASE Bacm(bs, o) = At(bs, places)
  BY <1>3, <1>5, KeepTrace
<1> QED
  BY <1>2, <1>4, <1>5

\* A summary of the middle leaves of the old end only what is no talk.
LEMMA SummarizedTrace ==
    ASSUME NEW bs, IsBlocks(bs), NEW o \in Options, NEW kinds \in SUBSET Protected,
           NEW shown, Len(shown) \in Nat, NEW stale
    PROVE  LET cs == Summarized(bs, Middle(bs, o, kinds), shown)
           IN \E g : Trace(cs, bs, g) /\ Aged(cs, bs, g, stale)
<1> DEFINE mid == Middle(bs, o, kinds)
           cs == Summarized(bs, mid, shown)
<1>1. CASE mid = NoMiddle
  <2>1. cs = bs
    BY <1>1 DEF Summarized
  <2> QED
    BY <2>1, SameTrace
<1>2. CASE mid # NoMiddle
  <2>1. /\ mid[1] \in 1 .. Len(bs) /\ mid[2] \in mid[1] .. Len(bs)
        /\ \A i \in 1 .. mid[1] - 1 : bs[i].kind \in Protected
    BY <1>2, MiddlePlace
  <2> DEFINE text == [size |-> StubSize + Len(shown), facts |-> Heads(shown) \cup {SummaryRef},
                      head |-> {}]
             b == NewSummary(<<"sum", 0>>, text)
  <2>2. text.size \in Nat /\ text.head \subseteq text.facts /\ <<"sum", 0>>[1] \in MadeTags
    BY SummaryAssumption DEF MadeTags
  <2>3. cs = ReplaceMiddle(bs, mid, b)
    BY <1>2 DEF Summarized
  <2> HIDE DEF text, mid
  <2>4. IsBlock(b) /\ Made(b)
    BY <2>2, SummaryMade
  <2> HIDE DEF b, cs
  <2>5. PICK g : Trace(cs, bs, g) /\ Spares(cs, bs, g, 1 .. Len(bs) \ (mid[1] .. mid[2]))
    BY <2>1, <2>3, <2>4, ReplaceTrace
  <2>6. Aged(cs, bs, g, stale)
    BY <2>1, <2>5, SpliceAged
  <2> QED
    BY <2>5, <2>6 DEF cs, mid
<1> QED
  BY <1>1, <1>2

\* The lines of a summary, and the part of them it shows.
LEMMA ShownLines ==
    ASSUME NEW bs, IsBlocks(bs), NEW mid
    PROVE  /\ IsBlocks(Lines(bs, mid))
           /\ Len(Shown(Lines(bs, mid))) \in Nat /\ IsSeq(Shown(Lines(bs, mid)))
<1> DEFINE lines == Lines(bs, mid)
           m == Min({SummaryLines, Len(lines)})
<1>1. IsBlocks(lines)
  <2>1. \E g : Trace(lines, bs, g)
    BY PickTrace DEF Lines
  <2> QED
    BY <2>1 DEF Trace
<1>2. IsSeq(lines) /\ Len(lines) \in Nat
  BY <1>1, BlocksShape
<1> HIDE DEF lines
<1>3. m \in Nat /\ m <= Len(lines)
  BY <1>2, MinOfTwo, SummaryAssumption
<1>4. Shown(lines) = SubSeq(lines, 1, m)
  BY DEF Shown
<1> HIDE DEF m
<1>5. SubSeq(lines, 1, m) \in Seq(Range(lines)) /\ Len(SubSeq(lines, 1, m)) = m
  <2>1. lines \in Seq(Range(lines)) /\ \A i \in 1 .. m : i \in 1 .. Len(lines)
    BY <1>2, <1>3 DEF IsSeq
  <2> QED
    BY <1>2, <1>3, <2>1, SubSeqProperties
<1> QED
  BY <1>1, <1>3, <1>4, <1>5, AnySeq DEF lines

LEMMA RuleTrace ==
    ASSUME NEW bs, IsBlocks(bs), NEW o \in Options, NEW stale
    PROVE  LET cs == RuleSummarize(bs, o)
           IN \E g : Trace(cs, bs, g) /\ Aged(cs, bs, g, stale)
<1> DEFINE lines == Lines(bs, Middle(bs, o, Protected))
<1>1. \/ RuleSummarize(bs, o) = bs
      \/ RuleSummarize(bs, o) = Summarized(bs, Middle(bs, o, Protected), Shown(lines))
  BY DEF RuleSummarize
<1>2. Len(Shown(lines)) \in Nat
  BY ShownLines
<1>3. Protected \in SUBSET Protected
  OBVIOUS
<1> HIDE DEF lines
<1>4. CASE RuleSummarize(bs, o) = bs
  BY <1>4, SameTrace
<1>5. CASE RuleSummarize(bs, o) = Summarized(bs, Middle(bs, o, Protected), Shown(lines))
  BY <1>2, <1>3, <1>5, SummarizedTrace
<1> QED
  BY <1>1, <1>4, <1>5

LEMMA LlmTrace ==
    ASSUME NEW bs, IsBlocks(bs), NEW o \in Options, NEW stale
    PROVE  LET cs == LlmSummarize(bs, o)
           IN \E g : Trace(cs, bs, g) /\ Aged(cs, bs, g, stale)
<1> DEFINE kinds == IF PrefixEnd(bs, LlmPrefix) = Len(bs) THEN {} ELSE LlmPrefix
           shown == Shown(Lines(bs, LlmRange(bs, o)))
<1>1. LlmSummarize(bs, o) = Summarized(bs, Middle(bs, o, kinds), shown)
  BY DEF LlmSummarize, LlmRange
<1>2. Len(shown) \in Nat /\ kinds \in SUBSET Protected
  BY ShownLines DEF LlmPrefix, Protected
<1> HIDE DEF kinds, shown
<1> QED
  BY <1>1, <1>2, SummarizedTrace

\* The prefix kinds come first.
Packed(bs) == \A i, j \in 1 .. Len(bs) :
                 i < j /\ bs[j].kind \in Protected => bs[i].kind \in Protected

LEMMA RollingTrace ==
    ASSUME NEW bs, IsBlocks(bs), NEW o \in Options, NEW stale
    PROVE  LET cs == RollingWindow(bs, o)
           IN \E g : /\ Trace(cs, bs, g) /\ Aged(cs, bs, g, stale)
                     /\ Packed(bs) => Keeps(cs, bs, g, Protected)
<1> DEFINE tail == Max({o.rollingTail, 4})
           a == PrefixEnd(bs, Protected) + 1
           z == Len(bs) - tail
           b == NewSummary(<<"rolled", 0>>, [size |-> StubSize, facts |-> {}, head |-> {}])
           cs == RollingWindow(bs, o)
<1>1. cs = bs \/ (a <= z /\ cs = ReplaceMiddle(bs, <<a, z>>, b))
  <2>1. tail \in Nat /\ Len(bs) \in Nat /\ PrefixEnd(bs, Protected) \in Nat
    <3>1. o.rollingTail \in Nat /\ 4 \in Nat
      BY OptionsAssumption
    <3> QED
      BY <3>1, MaxOfTwo, BlocksShape, PrefixPlace
  <2> QED
    BY <2>1 DEF RollingWindow
<1>2. CASE cs = bs
  BY <1>2, SameTrace
<1>3. CASE a <= z /\ cs = ReplaceMiddle(bs, <<a, z>>, b)
  <2>1. /\ Len(bs) \in Nat /\ a - 1 \in 0 .. Len(bs) /\ a \in Nat
        /\ \A i \in 1 .. a - 1 : bs[i].kind \in Protected
        /\ a - 1 = Len(bs) \/ bs[a].kind \notin Protected
    <3> DEFINE n == PrefixEnd(bs, Protected)
    <3>1. /\ n \in 0 .. Len(bs) /\ \A i \in 1 .. n : bs[i].kind \in Protected
          /\ n = Len(bs) \/ bs[n + 1].kind \notin Protected
      BY PrefixPlace
    <3> HIDE DEF n
    <3>2. a = n + 1 /\ a - 1 = n
      BY <3>1 DEF n
    <3> QED
      BY <3>1, <3>2, BlocksShape
  <2>2. tail \in Nat
    <3>1. o.rollingTail \in Nat /\ 4 \in Nat
      BY OptionsAssumption
    <3> QED
      BY <3>1, MaxOfTwo
  <2> HIDE DEF tail
  <2>3. a \in 1 .. Len(bs) /\ z \in a .. Len(bs)
    <3>1. a >= 1 /\ z = Len(bs) - tail
      <4> HIDE DEF a
      <4> QED
        BY <2>1
    <3> HIDE DEF a, z
    <3> QED
      BY <1>3, <2>1, <2>2, <3>1
  <2>4. IsBlock(b) /\ Made(b)
    BY SummaryAssumption, SummaryMade DEF MadeTags
  <2> HIDE DEF a, z, b, cs
  <2>5. PICK g : Trace(cs, bs, g) /\ Spares(cs, bs, g, 1 .. Len(bs) \ (a .. z))
    <3> DEFINE mid == <<a, z>>
    <3>1. mid[1] = a /\ mid[2] = z /\ cs = ReplaceMiddle(bs, mid, b)
      BY <1>3
    <3> HIDE DEF mid
    <3> QED
      BY <2>3, <2>4, <3>1, ReplaceTrace
  <2>6. Aged(cs, bs, g, stale)
    BY <2>1, <2>3, <2>5, SpliceAged
  <2>7. ASSUME Packed(bs) PROVE Keeps(cs, bs, g, Protected)
    <3>1. \A q \in 1 .. Len(bs) : bs[q].kind \in Protected => q < a
      BY <2>1, <2>3, <2>7 DEF Packed
    <3>2. \A q \in 1 .. Len(bs) : bs[q].kind \in Protected => q \in 1 .. Len(bs) \ (a .. z)
      BY <2>3, <3>1
    <3> QED
      BY <2>5, <3>2, SparesKeeps
  <2> QED
    BY <2>5, <2>6, <2>7 DEF cs
<1> QED
  BY <1>1, <1>2, <1>3

\* Fold records go behind the prefix and nothing is lost.
LEMMA InjectTrace ==
    ASSUME NEW bs, IsBlocks(bs), NEW records, IsSeq(records), Texts(Range(records)), NEW stale
    PROVE  LET cs == FoldInject(bs, records)
           IN \E g : /\ Trace(cs, bs, g) /\ Sorted(cs, g) /\ Spares(cs, bs, g, 1 .. Len(bs))
                     /\ Verbatim(cs, bs, g)
<1> DEFINE n == PrefixEnd(bs, {"System", "ToolSchema"})
           new == [k \in DOMAIN records |-> NewSummary(<<"fold_record", k>>, records[k])]
<1>1. n \in 0 .. Len(bs) /\ Len(bs) \in Nat
  BY PrefixPlace, BlocksShape
<1>2. FoldInject(bs, records) = SubSeq(bs, 1, n) \o new \o SubSeq(bs, n + 1, Len(bs))
  BY DEF FoldInject
<1>3. DOMAIN records = 1 .. Len(records) /\ Len(records) \in Nat
      /\ \A k \in 1 .. Len(records) : records[k].size \in Nat /\ records[k].head \subseteq records[k].facts
  BY Shape DEF Texts
<1>4. \A k \in 1 .. Len(records) : IsBlock(new[k]) /\ Made(new[k])
  BY <1>3, SummaryMade DEF MadeTags
<1>5. IsSeq(new) /\ Len(new) = Len(records)
  <2>1. DOMAIN new = 1 .. Len(records) /\ new = [i \in 1 .. Len(records) |-> new[i]]
    BY <1>3
  <2> HIDE DEF new
  <2> QED
    BY <1>3, <2>1, Listed
<1> HIDE DEF new, n
<1>6. IsBlocks(new) /\ \A k \in 1 .. Len(new) : Made(new[k])
  BY <1>4, <1>5 DEF IsBlocks
<1> DEFINE a == n + 1
           cs == Spliced(bs, new, a, n)
<1>7. a \in 1 .. Len(bs) + 1 /\ n \in a - 1 .. Len(bs) /\ a - 1 = n /\ a .. n = {}
  BY <1>1
<1> HIDE DEF a
<1>8. \E g : /\ Trace(cs, bs, g) /\ Sorted(cs, g) /\ Spares(cs, bs, g, 1 .. Len(bs) \ (a .. n))
             /\ Verbatim(cs, bs, g)
  BY <1>6, <1>7, SpliceTrace
<1>9. FoldInject(bs, records) = cs /\ 1 .. Len(bs) \ (a .. n) = 1 .. Len(bs)
  BY <1>2, <1>7 DEF Spliced
<1> QED
  BY <1>8, <1>9

-----------------------------------------------------------------------------
(* Sizes.                                                                  *)

\* What SizeUpTo computes, step by step.
LEMMA SizeEquation ==
    ASSUME NEW bs, IsBlocks(bs)
    PROVE  LET sum == SizeUpTo(bs) IN
           /\ sum \in [0 .. Len(bs) -> Nat]
           /\ sum[0] = 0
           /\ \A n \in 1 .. Len(bs) : sum[n] = sum[n - 1] + bs[n].text.size
<1> DEFINE N == Len(bs)
           D == [p \in Nat \X (1 .. N) |-> p[1] + bs[p[2]].text.size]
           Is(f) == f = [n \in 0 .. N |-> IF n = 0 THEN 0 ELSE f[n - 1] + bs[n].text.size]
<1>1. N \in Nat /\ \A n \in 1 .. N : bs[n].text.size \in Nat /\ n - 1 \in 0 .. N /\ n # 0
  <2>1. N \in Nat /\ \A n \in 1 .. N : IsBlock(bs[n])
    BY BlocksShape
  <2>2. \A n \in 1 .. N : bs[n].text.size \in Nat
    BY <2>1 DEF IsBlock
  <2> HIDE DEF N
  <2> QED
    BY <2>1, <2>2
<1> HIDE DEF N
<1>2. \A v \in Nat, n \in 1 .. N : D[<<v, n>>] = v + bs[n].text.size
  OBVIOUS
<1> HIDE DEF D
<1>3. \A v \in Nat, n \in 1 .. N : D[<<v, n>>] \in Nat
  <2> SUFFICES ASSUME NEW v \in Nat, NEW n \in 1 .. N PROVE D[<<v, n>>] \in Nat
    OBVIOUS
  <2>1. D[<<v, n>>] = v + bs[n].text.size /\ bs[n].text.size \in Nat
    BY <1>1, <1>2
  <2> QED
    BY <2>1
<1>4. PICK f \in [0 .. N -> Nat] : Unrolls(f, 0, D, N)
  <2>1. 0 \in Nat
    OBVIOUS
  <2> QED
    BY <1>1, <1>3, <2>1, Recursion
<1>5. f[0] = 0 /\ \A n \in 1 .. N : f[n] = f[n - 1] + bs[n].text.size
  BY <1>1, <1>2, <1>4 DEF Unrolls
<1>6. Is(f)
  <2> DEFINE g == [n \in 0 .. N |-> IF n = 0 THEN 0 ELSE f[n - 1] + bs[n].text.size]
  <2>1. ASSUME NEW n \in 0 .. N PROVE f[n] = g[n]
    <3>1. CASE n = 0
      BY <1>5, <3>1
    <3>2. CASE n # 0
      <4>1. n \in 1 .. N
        BY <1>1, <3>2
      <4> QED
        BY <1>5, <3>2, <4>1
    <3> QED
      BY <3>1, <3>2
  <2>2. DOMAIN g = 0 .. N /\ DOMAIN f = 0 .. N /\ g = [n \in 0 .. N |-> g[n]] /\ f = [n \in 0 .. N |-> f[n]]
    OBVIOUS
  <2>3. f = g
    <3> HIDE DEF g
    <3> QED
      BY <2>1, <2>2
  <2> QED
    BY <2>3
<1> DEFINE k == CHOOSE g : Is(g)
<1>7. Is(k)
  <2>1. \E g : Is(g)
    BY <1>6
  <2> HIDE DEF Is
  <2> QED
    BY <2>1
<1>8. SizeUpTo(bs) = k
  BY DEF SizeUpTo, N
<1> HIDE DEF k
<1>9. k[0] = 0 /\ \A n \in 1 .. N : k[n] = k[n - 1] + bs[n].text.size
  <2>1. \A n \in 0 .. N : k[n] = IF n = 0 THEN 0 ELSE k[n - 1] + bs[n].text.size
    BY <1>7
  <2>2. 0 \in 0 .. N /\ \A n \in 1 .. N : n \in 0 .. N /\ n # 0
    BY <1>1
  <2> HIDE DEF Is
  <2> QED
    BY <2>1, <2>2
<1>10. \A n \in 0 .. N : k[n] \in Nat
  <2> DEFINE S == {m \in 0 .. N : k[m] \in Nat}
  <2>1. 0 \in S
    BY <1>1, <1>9
  <2>2. ASSUME NEW m \in 0 .. N - 1, m \in S PROVE m + 1 \in S
    <3>1. m + 1 \in 1 .. N /\ m + 1 \in 0 .. N /\ (m + 1) - 1 = m /\ k[m] \in Nat
      BY <1>1, <2>2
    <3>2. k[m + 1] = k[m] + bs[m + 1].text.size
      BY <1>9, <3>1
    <3> QED
      BY <1>1, <3>1, <3>2
  <2> HIDE DEF S
  <2>3. \A n \in 0 .. N : n \in S
    BY <1>1, <2>1, <2>2, UpTo
  <2> QED
    BY <2>3 DEF S
<1>11. k \in [0 .. N -> Nat]
  <2>1. k = [n \in 0 .. N |-> k[n]]
    BY <1>7
  <2> HIDE DEF Is
  <2> QED
    BY <2>1, <1>10
<1> QED
  BY <1>8, <1>9, <1>11 DEF N

LEMMA SizeNat == ASSUME NEW bs, IsBlocks(bs) PROVE Size(bs) \in Nat
<1>1. Len(bs) \in Nat /\ SizeUpTo(bs) \in [0 .. Len(bs) -> Nat]
  BY BlocksShape, SizeEquation
<1> QED
  BY <1>1 DEF Size

\* A block more adds its size.
LEMMA SizeAppend ==
    ASSUME NEW bs, IsBlocks(bs), NEW b, IsBlock(b)
    PROVE  IsBlocks(Append(bs, b)) /\ Size(Append(bs, b)) = Size(bs) + b.text.size
<1> DEFINE N == Len(bs)
           cs == Append(bs, b)
           f == SizeUpTo(bs)
           g == SizeUpTo(cs)
<1>1. IsSeq(bs) /\ N \in Nat /\ \A i \in 1 .. N : IsBlock(bs[i])
  BY BlocksShape
<1>2. IsSeq(cs) /\ Len(cs) = N + 1 /\ cs[N + 1] = b /\ \A i \in 1 .. N : cs[i] = bs[i]
  <2>1. bs \in Seq(Range(bs) \cup {b})
    BY <1>1 DEF IsSeq
  <2>2. cs \in Seq(Range(bs) \cup {b}) /\ Len(cs) = N + 1 /\ cs[N + 1] = b
        /\ \A i \in 1 .. N : cs[i] = bs[i]
    BY <2>1
  <2>3. IsSeq(cs)
    BY <2>2, AnySeq
  <2> QED
    BY <2>2, <2>3
<1> HIDE DEF cs
<1>3. IsBlocks(cs)
  <2>1. \A i \in 1 .. N + 1 : i \in 1 .. N \/ i = N + 1
    BY <1>1
  <2> QED
    BY <1>1, <1>2, <2>1 DEF IsBlocks
<1>4. /\ f \in [0 .. N -> Nat] /\ f[0] = 0
      /\ \A n \in 1 .. N : f[n] = f[n - 1] + bs[n].text.size
  BY SizeEquation
<1>5. /\ g[0] = 0 /\ \A n \in 1 .. N + 1 : g[n] = g[n - 1] + cs[n].text.size
  BY <1>2, <1>3, SizeEquation
<1> HIDE DEF f, g, N
<1>6. \A n \in 0 .. N : g[n] = f[n]
  <2> DEFINE S == {n \in 0 .. N : g[n] = f[n]}
  <2>1. 0 \in S
    BY <1>1, <1>4, <1>5
  <2>2. ASSUME NEW n \in 0 .. N - 1, n \in S PROVE n + 1 \in S
    <3>1. n + 1 \in 1 .. N /\ n + 1 \in 1 .. N + 1 /\ n + 1 \in 0 .. N /\ (n + 1) - 1 = n /\ g[n] = f[n]
      BY <1>1, <2>2
    <3>2. g[n + 1] = g[n] + cs[n + 1].text.size /\ f[n + 1] = f[n] + bs[n + 1].text.size
      BY <1>4, <1>5, <3>1
    <3> QED
      BY <1>2, <3>1, <3>2
  <2> HIDE DEF S
  <2>3. \A n \in 0 .. N : n \in S
    BY <1>1, <2>1, <2>2, UpTo
  <2> QED
    BY <2>3 DEF S
<1>7. g[N + 1] = f[N] + b.text.size
  <2>1. N + 1 \in 1 .. N + 1 /\ (N + 1) - 1 = N /\ N \in 0 .. N
    BY <1>1
  <2> QED
    BY <1>2, <1>5, <1>6, <2>1
<1> QED
  BY <1>2, <1>3, <1>7 DEF Size, cs, f, g, N

\* The size of the blocks at the places of a set among the first n.
SizeAt(bs, places, n) == Size(AtUpTo(bs, places)[n])

AtSums(bs, places) ==
    /\ SizeAt(bs, places, 0) = 0
    /\ \A n \in 0 .. Len(bs) : SizeAt(bs, places, n) \in Nat
    /\ \A n \in 1 .. Len(bs) :
          SizeAt(bs, places, n) = IF n \in places
                                  THEN SizeAt(bs, places, n - 1) + bs[n].text.size
                                  ELSE SizeAt(bs, places, n - 1)

LEMMA SizeAtEquation ==
    ASSUME NEW bs, IsBlocks(bs), NEW places
    PROVE  AtSums(bs, places)
<1> DEFINE kept == AtUpTo(bs, places)
<1>1. IsSeq(bs) /\ Len(bs) \in Nat /\ \A i \in 1 .. Len(bs) : IsBlock(bs[i])
  BY BlocksShape
<1>2. /\ kept[0] = <<>>
      /\ \A n \in 1 .. Len(bs) :
            kept[n] = IF n \in places THEN Append(kept[n - 1], bs[n]) ELSE kept[n - 1]
  BY <1>1, AtEquation
<1>3. \A n \in 0 .. Len(bs) : IsBlocks(kept[n])
  <2> SUFFICES ASSUME NEW n \in 0 .. Len(bs) PROVE IsBlocks(kept[n])
    OBVIOUS
  <2>1. PICK h : Picks(kept[n], bs, h, places, n)
    BY <1>1, AtUpToPicks
  <2>2. IsSeq(kept[n]) /\ \A k \in 1 .. Len(kept[n]) : h[k] \in 1 .. n /\ kept[n][k] = bs[h[k]]
    BY <2>1 DEF Picks
  <2> HIDE DEF kept
  <2>3. \A k \in 1 .. n : k \in 1 .. Len(bs)
    BY <1>1
  <2> QED
    BY <1>1, <2>2, <2>3 DEF IsBlocks
<1>4. Size(<<>>) = 0
  <2>1. IsBlocks(<<>>) /\ Len(<<>>) = 0
    BY DEF IsBlocks, IsSeq
  <2> QED
    BY <2>1, SizeEquation DEF Size
<1> HIDE DEF kept
<1>5. \A n \in 0 .. Len(bs) : Size(kept[n]) \in Nat
  BY <1>3, SizeNat
<1>6. \A n \in 1 .. Len(bs) : Size(kept[n]) = IF n \in places THEN Size(kept[n - 1]) + bs[n].text.size
                                             ELSE Size(kept[n - 1])
  <2> SUFFICES ASSUME NEW n \in 1 .. Len(bs)
               PROVE Size(kept[n]) = IF n \in places THEN Size(kept[n - 1]) + bs[n].text.size
                                     ELSE Size(kept[n - 1])
    OBVIOUS
  <2>1. n - 1 \in 0 .. Len(bs)
    BY <1>1
  <2>2. IsBlocks(kept[n - 1]) /\ IsBlock(bs[n])
    BY <1>1, <1>3, <2>1
  <2>3. Size(Append(kept[n - 1], bs[n])) = Size(kept[n - 1]) + bs[n].text.size
    BY <2>2, SizeAppend
  <2> QED
    BY <1>2, <2>3
<1> QED
  BY <1>2, <1>4, <1>5, <1>6 DEF SizeAt, AtSums, kept

\* More places, more tokens.
LEMMA SizeAtMonotone ==
    ASSUME NEW bs, IsBlocks(bs), NEW S, NEW T, \A i \in 1 .. Len(bs) : i \in S => i \in T
    PROVE  Size(At(bs, S)) <= Size(At(bs, T))
<1> DEFINE A(n) == SizeAt(bs, S, n)
           B(n) == SizeAt(bs, T, n)
           N == Len(bs)
           U == {n \in 0 .. N : A(n) <= B(n)}
<1>1. N \in Nat /\ \A n \in 1 .. N : bs[n].text.size \in Nat
  BY BlocksShape DEF IsBlock
<1>2. /\ A(0) = 0 /\ \A n \in 0 .. N : A(n) \in Nat
      /\ \A n \in 1 .. N : A(n) = IF n \in S THEN A(n - 1) + bs[n].text.size ELSE A(n - 1)
  <2>1. AtSums(bs, S)
    BY SizeAtEquation
  <2> QED
    BY <2>1 DEF AtSums
<1>3. /\ B(0) = 0 /\ \A n \in 0 .. N : B(n) \in Nat
      /\ \A n \in 1 .. N : B(n) = IF n \in T THEN B(n - 1) + bs[n].text.size ELSE B(n - 1)
  <2>1. AtSums(bs, T)
    BY SizeAtEquation
  <2> QED
    BY <2>1 DEF AtSums
<1> HIDE DEF A, B
<1>4. 0 \in U
  BY <1>1, <1>2, <1>3
<1>5. ASSUME NEW n \in 0 .. N - 1, n \in U PROVE n + 1 \in U
  <2>1. n + 1 \in 1 .. N /\ n + 1 \in 0 .. N /\ (n + 1) - 1 = n /\ A(n) <= B(n) /\ n \in 0 .. N
    BY <1>1, <1>5
  <2>2. /\ A(n + 1) = IF n + 1 \in S THEN A(n) + bs[n + 1].text.size ELSE A(n)
        /\ B(n + 1) = IF n + 1 \in T THEN B(n) + bs[n + 1].text.size ELSE B(n)
    BY <1>2, <1>3, <2>1
  <2>3. A(n) \in Nat /\ B(n) \in Nat /\ bs[n + 1].text.size \in Nat
    BY <1>1, <1>2, <1>3, <2>1
  <2>4. A(n + 1) <= B(n + 1)
    BY <2>1, <2>2, <2>3
  <2> QED
    BY <2>1, <2>4
<1>6. \A n \in 0 .. N : n \in U
  <2> HIDE DEF U
  <2> QED
    BY <1>1, <1>4, <1>5, UpTo
<1>7. N \in 0 .. N
  BY <1>1
<1>8. A(N) <= B(N)
  BY <1>6, <1>7
<1> QED
  BY <1>8 DEF A, B, N, SizeAt, At

\* Places that two sets do not share hold no more than all.
LEMMA SizeAtDisjoint ==
    ASSUME NEW bs, IsBlocks(bs), NEW S, NEW T, \A i \in 1 .. Len(bs) : ~(i \in S /\ i \in T)
    PROVE  Size(At(bs, S)) + Size(At(bs, T)) <= Size(bs)
<1> DEFINE A(n) == SizeAt(bs, S, n)
           B(n) == SizeAt(bs, T, n)
           N == Len(bs)
<1>1. N \in Nat /\ \A n \in 1 .. N : bs[n].text.size \in Nat
  BY BlocksShape DEF IsBlock
<1>2. /\ A(0) = 0 /\ \A n \in 0 .. N : A(n) \in Nat
      /\ \A n \in 1 .. N : A(n) = IF n \in S THEN A(n - 1) + bs[n].text.size ELSE A(n - 1)
  <2>1. AtSums(bs, S)
    BY SizeAtEquation
  <2> QED
    BY <2>1 DEF AtSums
<1>3. /\ B(0) = 0 /\ \A n \in 0 .. N : B(n) \in Nat
      /\ \A n \in 1 .. N : B(n) = IF n \in T THEN B(n - 1) + bs[n].text.size ELSE B(n - 1)
  <2>1. AtSums(bs, T)
    BY SizeAtEquation
  <2> QED
    BY <2>1 DEF AtSums
<1> HIDE DEF A, B
<1> DEFINE C(n) == SizeUpTo(bs)[n]
<1>4. /\ C(0) = 0 /\ \A n \in 0 .. N : C(n) \in Nat
      /\ \A n \in 1 .. N : C(n) = C(n - 1) + bs[n].text.size
  BY <1>1, SizeEquation
<1> HIDE DEF C
<1> DEFINE U == {n \in 0 .. N : A(n) + B(n) <= C(n)}
<1>5. 0 \in U
  BY <1>1, <1>2, <1>3, <1>4
<1>6. ASSUME NEW n \in 0 .. N - 1, n \in U PROVE n + 1 \in U
  <2>1. n + 1 \in 1 .. N /\ n + 1 \in 0 .. N /\ (n + 1) - 1 = n /\ A(n) + B(n) <= C(n) /\ n \in 0 .. N
    BY <1>1, <1>6
  <2>2. /\ A(n + 1) = IF n + 1 \in S THEN A(n) + bs[n + 1].text.size ELSE A(n)
        /\ B(n + 1) = IF n + 1 \in T THEN B(n) + bs[n + 1].text.size ELSE B(n)
        /\ C(n + 1) = C(n) + bs[n + 1].text.size
    BY <1>2, <1>3, <1>4, <2>1
  <2>3. /\ A(n) \in Nat /\ B(n) \in Nat /\ C(n) \in Nat /\ bs[n + 1].text.size \in Nat
        /\ ~(n + 1 \in S /\ n + 1 \in T)
    BY <1>1, <1>2, <1>3, <1>4, <2>1
  <2>4. \A a, b, c, z \in Nat :
          a + b <= c => a + b <= c + z /\ (a + z) + b <= c + z /\ a + (b + z) <= c + z
    OBVIOUS
  <2>5. A(n) + B(n) <= C(n)
    BY <2>1
  <2> HIDE DEF U
  <2>6. A(n + 1) + B(n + 1) <= C(n + 1)
    <3>1. CASE n + 1 \in S
      BY <2>2, <2>3, <2>4, <2>5, <3>1
    <3>2. CASE n + 1 \in T
      BY <2>2, <2>3, <2>4, <2>5, <3>2
    <3>3. CASE n + 1 \notin S /\ n + 1 \notin T
      BY <2>2, <2>3, <2>4, <2>5, <3>3
    <3> QED
      BY <3>1, <3>2, <3>3
  <2> QED
    BY <2>1, <2>6 DEF U
<1>7. \A n \in 0 .. N : n \in U
  <2> HIDE DEF U
  <2> QED
    BY <1>1, <1>5, <1>6, UpTo
<1>8. N \in 0 .. N
  BY <1>1
<1>9. A(N) + B(N) <= C(N)
  BY <1>7, <1>8
<1> QED
  BY <1>9 DEF A, B, C, N, SizeAt, At, Size

LEMMA SizeOfPart ==
    ASSUME NEW bs, IsBlocks(bs), NEW places
    PROVE  Size(At(bs, places)) \in Nat
<1>1. \E g : Trace(At(bs, places), bs, g)
  BY PickTrace
<1> QED
  BY <1>1, SizeNat DEF Trace

-----------------------------------------------------------------------------
(* Trimming and packing.                                                   *)

\* What budget_trim could do it did.
Fits(bs, o) == Size(bs) <= o.budget \/ \A i \in DOMAIN bs : ~Trimmable(bs[i])

\* The later a place, the less is left before it.
LEMMA LeftFalls ==
    ASSUME NEW bs, IsBlocks(bs), NEW p \in 1 .. Len(bs), NEW q \in 1 .. Len(bs), p <= q
    PROVE  LeftAt(bs, q) <= LeftAt(bs, p) /\ LeftAt(bs, p) \in Int /\ LeftAt(bs, q) \in Int
<1> DEFINE S == {j \in 1 .. p - 1 : Trimmable(bs[j])}
           T == {j \in 1 .. q - 1 : Trimmable(bs[j])}
<1>1. Len(bs) \in Nat /\ Size(bs) \in Nat
  BY BlocksShape, SizeNat
<1>2. Size(At(bs, S)) \in Nat /\ Size(At(bs, T)) \in Nat
  BY SizeOfPart
<1>3. Size(At(bs, S)) <= Size(At(bs, T))
  <2>1. \A i \in 1 .. Len(bs) : i \in S => i \in T
    BY <1>1
  <2> HIDE DEF S, T
  <2> QED
    BY <2>1, SizeAtMonotone
<1>4. LeftAt(bs, p) = Size(bs) - Size(At(bs, S)) /\ LeftAt(bs, q) = Size(bs) - Size(At(bs, T))
  BY DEF LeftAt
<1> HIDE DEF S, T
<1> QED
  BY <1>1, <1>2, <1>3, <1>4

LEMMA TrimTrace ==
    ASSUME NEW bs, IsBlocks(bs), NEW o \in Options, NEW stale
    PROVE  LET cs == BudgetTrim(bs, o)
           IN /\ \E g : Trace(cs, bs, g) /\ Aged(cs, bs, g, stale) /\ Keeps(cs, bs, g, Protected)
              /\ Fits(cs, o)
<1> DEFINE places == {i \in 1 .. Len(bs) : ~Trimmable(bs[i]) \/ LeftAt(bs, i) <= o.budget}
           cs == At(bs, places)
<1>1. Len(bs) \in Nat /\ DOMAIN bs = 1 .. Len(bs) /\ o.budget \in Nat /\ Size(bs) \in Nat
  BY BlocksShape, OptionsAssumption, SizeNat
<1>2. BudgetTrim(bs, o) = cs
  BY <1>1 DEF BudgetTrim, Keep
<1>3. \A q \in 1 .. Len(bs) : q \in places <=> ~Trimmable(bs[q]) \/ LeftAt(bs, q) <= o.budget
  OBVIOUS
<1> HIDE DEF places
<1>4. PICK g : /\ Trace(cs, bs, g) /\ Spares(cs, bs, g, places) /\ Verbatim(cs, bs, g)
  BY PickTrace
<1>5. Keeps(cs, bs, g, Protected)
  <2>1. \A q \in 1 .. Len(bs) : bs[q].kind \in Protected => q \in places
    BY <1>3 DEF Trimmable
  <2> QED
    BY <1>4, <2>1, SparesKeeps
<1> HIDE DEF cs
<1>6. ASSUME NEW k \in 1 .. Len(cs), Trimmable(cs[k])
      PROVE g[k] \in 1 .. Len(bs) /\ g[k] \in places /\ Trimmable(bs[g[k]])
            /\ LeftAt(bs, g[k]) <= o.budget
  <2>1. g[k] # 0
    BY <1>4, <1>6 DEF Trace, Made, Trimmable, Protected
  <2>2. g[k] \in 1 .. Len(bs) /\ cs[k] = bs[g[k]]
    BY <1>1, <1>4, <2>1 DEF Trace, Verbatim
  <2>3. g[k] \in places
    BY <1>4, <2>2 DEF Spares
  <2> QED
    BY <1>3, <1>6, <2>2, <2>3
<1>7. Aged(cs, bs, g, stale)
  <2> SUFFICES ASSUME NEW p \in 1 .. Len(bs), NEW q \in 1 .. Len(bs), p < q,
                      NEW k \in 1 .. Len(cs), g[k] = p, Trimmable(cs[k])
               PROVE  \E j \in 1 .. Len(cs) : g[j] = q
    BY DEF Aged
  <2>1. LeftAt(bs, p) <= o.budget
    BY <1>6
  <2>2. LeftAt(bs, q) <= LeftAt(bs, p) /\ LeftAt(bs, p) \in Int /\ LeftAt(bs, q) \in Int
    BY <1>1, LeftFalls
  <2>3. q \in places
    BY <1>1, <1>3, <2>1, <2>2
  <2> QED
    BY <1>4, <2>3 DEF Spares
<1>8. Fits(cs, o)
  <2>1. IsBlocks(cs) /\ DOMAIN cs = 1 .. Len(cs)
    BY <1>4, BlocksShape DEF Trace
  <2> SUFFICES ASSUME NEW k \in 1 .. Len(cs), Trimmable(cs[k])
               PROVE  Size(cs) <= o.budget
    BY <2>1 DEF Fits
  <2> DEFINE W == {p \in 1 .. Len(bs) : p \in places /\ Trimmable(bs[p])}
  <2>2. W \in SUBSET Nat /\ g[k] \in W
    BY <1>1, <1>6
  <2>3. PICK p \in W : \A q \in W : p <= q
    <3> HIDE DEF W
    <3> QED
      BY <2>2, Least
  <2>4. p \in 1 .. Len(bs) /\ LeftAt(bs, p) <= o.budget
    BY <1>3
  <2> DEFINE T == {j \in 1 .. p - 1 : Trimmable(bs[j])}
  <2>5. \A i \in 1 .. Len(bs) : ~(i \in places /\ i \in T)
    <3> SUFFICES ASSUME NEW i \in 1 .. Len(bs), i \in places, i \in T PROVE FALSE
      OBVIOUS
    <3>1. i \in W
      OBVIOUS
    <3>2. p <= i
      BY <2>3, <3>1
    <3> QED
      BY <1>1, <2>4, <3>2
  <2>6. LeftAt(bs, p) = Size(bs) - Size(At(bs, T))
    BY DEF LeftAt
  <2> HIDE DEF T, W
  <2>7. Size(At(bs, places)) + Size(At(bs, T)) <= Size(bs)
    BY <2>5, SizeAtDisjoint
  <2>8. Size(At(bs, places)) \in Nat /\ Size(At(bs, T)) \in Nat
    BY SizeOfPart
  <2> QED
    BY <1>1, <2>4, <2>6, <2>7, <2>8 DEF cs
<1> QED
  BY <1>2, <1>4, <1>5, <1>7, <1>8

\* Blocks of some places behind blocks of others, the first without talk.
LEMMA ConcatTrace ==
    ASSUME NEW bs, IsBlocks(bs), NEW S, NEW T, \A p \in 1 .. Len(bs) : ~(p \in S /\ p \in T),
           NEW cs, NEW g, Trace(cs, bs, g), Spares(cs, bs, g, S),
           NEW ds, NEW h, Trace(ds, bs, h), Spares(ds, bs, h, T),
           \A k \in 1 .. Len(cs) : ~Talks(cs[k])
    PROVE  /\ IsBlocks(cs \o ds) /\ Len(cs \o ds) = Len(cs) + Len(ds)
           /\ \A k \in 1 .. Len(cs \o ds) : (cs \o ds)[k] = IF k <= Len(cs) THEN cs[k] ELSE ds[k - Len(cs)]
           /\ \E f : Trace(cs \o ds, bs, f) /\ Spares(cs \o ds, bs, f, S \cup T)
<1> DEFINE es == cs \o ds
           m == Len(cs)
           n == Len(ds)
           N == Len(bs)
           f == [k \in 1 .. m + n |-> IF k <= m THEN g[k] ELSE h[k - m]]
<1>1. IsBlocks(cs) /\ IsBlocks(ds) /\ m \in Nat /\ n \in Nat /\ N \in Nat
  BY BlocksShape DEF Trace
<1>2. /\ IsSeq(es) /\ Len(es) = m + n
      /\ \A k \in 1 .. m + n : es[k] = IF k <= m THEN cs[k] ELSE ds[k - m]
  <2>1. cs \in Seq(Range(cs) \cup Range(ds)) /\ ds \in Seq(Range(cs) \cup Range(ds))
    BY <1>1, BlocksShape DEF IsSeq
  <2>2. /\ es \in Seq(Range(cs) \cup Range(ds)) /\ Len(es) = m + n
        /\ \A k \in 1 .. m + n : es[k] = IF k <= m THEN cs[k] ELSE ds[k - m]
    BY <2>1, ConcatProperties
  <2> QED
    BY <2>2, AnySeq
<1> HIDE DEF es
<1>3. \A k \in 1 .. m + n : ~(k <= m) => k - m \in 1 .. n
  BY <1>1
<1>4. \A k \in 1 .. m + n : k <= m => k \in 1 .. m
  BY <1>1
<1>5. IsBlocks(es)
  BY <1>1, <1>2, <1>3, <1>4, BlocksShape DEF IsBlocks
<1>6. /\ f \in [1 .. m + n -> 0 .. N]
      /\ \A k \in 1 .. m + n : f[k] = IF k <= m THEN g[k] ELSE h[k - m]
  BY <1>1, <1>3, <1>4 DEF Trace
<1> HIDE DEF f, m, n, N
<1>7. \A k \in 1 .. m + n : IF f[k] = 0 THEN Made(es[k]) ELSE Comes(es[k], bs[f[k]])
  <2> SUFFICES ASSUME NEW k \in 1 .. m + n
               PROVE IF f[k] = 0 THEN Made(es[k]) ELSE Comes(es[k], bs[f[k]])
    OBVIOUS
  <2>1. CASE k <= m
    BY <1>2, <1>4, <1>6, <2>1 DEF Trace, m
  <2>2. CASE ~(k <= m)
    BY <1>2, <1>3, <1>6, <2>2 DEF Trace, n
  <2> QED
    BY <2>1, <2>2
<1>8. \A k \in 1 .. m : g[k] # 0 => g[k] \in 1 .. N /\ g[k] \in S
  BY <1>1 DEF Trace, Spares, m, N
<1>9. \A k \in 1 .. n : h[k] # 0 => h[k] \in 1 .. N /\ h[k] \in T
  BY <1>1 DEF Trace, Spares, n, N
<1>10. \A i \in 1 .. m, j \in 1 .. n : g[i] # 0 \/ h[j] # 0 => g[i] # h[j]
  BY <1>8, <1>9, <1>1 DEF N
<1>11. ASSUME NEW i \in 1 .. m + n, NEW j \in 1 .. m + n, i # j, f[i] # 0 PROVE f[i] # f[j]
  <2>1. CASE i <= m /\ j <= m
    BY <1>4, <1>6, <1>11, <2>1 DEF Trace, m
  <2>2. CASE ~(i <= m) /\ ~(j <= m)
    <3>1. i - m \in 1 .. n /\ j - m \in 1 .. n /\ i - m # j - m
      BY <1>1, <1>3, <1>11, <2>2
    <3> QED
      BY <1>6, <1>11, <2>2, <3>1 DEF Trace, n
  <2>3. CASE i <= m /\ ~(j <= m)
    BY <1>3, <1>4, <1>6, <1>10, <1>11, <2>3
  <2>4. CASE ~(i <= m) /\ j <= m
    BY <1>3, <1>4, <1>6, <1>10, <1>11, <2>4
  <2> QED
    BY <2>1, <2>2, <2>3, <2>4
<1>12. ASSUME NEW i \in 1 .. m + n, NEW j \in 1 .. m + n, i < j, Talks(es[i]), Talks(es[j])
       PROVE f[i] < f[j]
  <2>1. ~(i <= m) /\ ~(j <= m)
    <3>1. \A k \in 1 .. m + n : k <= m => ~Talks(es[k])
      BY <1>2, <1>4 DEF m
    <3> QED
      BY <1>12, <3>1
  <2>2. i - m \in 1 .. n /\ j - m \in 1 .. n /\ i - m < j - m /\ es[i] = ds[i - m] /\ es[j] = ds[j - m]
    BY <1>1, <1>2, <1>3, <1>12, <2>1
  <2>3. h[i - m] < h[j - m]
    BY <1>12, <2>2 DEF Trace, n
  <2> QED
    BY <1>6, <2>1, <2>3
<1>13. Trace(es, bs, f)
  BY <1>2, <1>5, <1>6, <1>7, <1>11, <1>12 DEF Trace, N
<1>14. Spares(es, bs, f, S \cup T)
  <2> SUFFICES ASSUME NEW p \in 1 .. N
               PROVE p \in S \cup T <=> \E k \in 1 .. m + n : f[k] = p
    BY <1>2 DEF Spares, N
  <2>1. ASSUME p \in S PROVE \E k \in 1 .. m + n : f[k] = p
    <3>1. PICK k \in 1 .. m : g[k] = p
      BY <2>1 DEF Spares, m, N
    <3>2. k \in 1 .. m + n /\ k <= m
      BY <1>1
    <3> QED
      BY <1>6, <3>1, <3>2
  <2>2. ASSUME p \in T PROVE \E k \in 1 .. m + n : f[k] = p
    <3>1. PICK k \in 1 .. n : h[k] = p
      BY <2>2 DEF Spares, n, N
    <3>2. k + m \in 1 .. m + n /\ ~(k + m <= m) /\ (k + m) - m = k
      BY <1>1
    <3> QED
      BY <1>6, <3>1, <3>2
  <2>3. ASSUME NEW k \in 1 .. m + n, f[k] = p PROVE p \in S \cup T
    <3>1. p # 0
      BY <1>1
    <3> QED
      BY <1>3, <1>4, <1>6, <1>8, <1>9, <2>3, <3>1
  <2> QED
    BY <2>1, <2>2, <2>3
<1> QED
  BY <1>2, <1>5, <1>13, <1>14 DEF es, m, n

\* Packing puts the kinds of the prefix first and loses nothing.
LEMMA PackTrace ==
    ASSUME NEW bs, IsBlocks(bs), NEW stale
    PROVE  LET cs == CachePack(bs)
           IN /\ Packed(cs)
              /\ \E g : Trace(cs, bs, g) /\ Aged(cs, bs, g, stale) /\ Keeps(cs, bs, g, Protected)
<1> DEFINE N == Len(bs)
           K(kind) == {i \in 1 .. N : bs[i].kind = kind}
           R == {i \in 1 .. N : bs[i].kind \notin Protected}
           sy == At(bs, K("System"))
           ts == At(bs, K("ToolSchema"))
           su == At(bs, K("Summary"))
           re == At(bs, R)
           a == sy \o ts
           b == a \o su
           c == b \o re
<1>1. N \in Nat /\ DOMAIN bs = 1 .. N
  BY BlocksShape
<1>2. CachePack(bs) = c
  <2>1. \A kind : {i \in DOMAIN bs : bs[i].kind \in {kind}} = K(kind)
    BY <1>1
  <2>2. {i \in DOMAIN bs : bs[i].kind \notin Protected} = R
    BY <1>1
  <2> HIDE DEF K, R
  <2> QED
    BY <2>1, <2>2 DEF CachePack, Keep
<1>3. \A q \in 1 .. N : /\ \A kind : q \in K(kind) <=> bs[q].kind = kind
                        /\ q \in R <=> bs[q].kind \notin Protected
  OBVIOUS
<1> HIDE DEF K, R, N
<1>4. ASSUME NEW kind \in Protected
      PROVE  /\ \A k \in 1 .. Len(At(bs, K(kind))) : ~Talks(At(bs, K(kind))[k])
             /\ \E g : Trace(At(bs, K(kind)), bs, g) /\ Spares(At(bs, K(kind)), bs, g, K(kind))
  <2> DEFINE cs == At(bs, K(kind))
  <2>1. PICK g : Trace(cs, bs, g) /\ Spares(cs, bs, g, K(kind)) /\ Verbatim(cs, bs, g)
    BY PickTrace
  <2> HIDE DEF cs
  <2>2. ASSUME NEW k \in 1 .. Len(cs) PROVE ~Talks(cs[k])
    <3>1. CASE g[k] = 0
      BY <2>1, <3>1 DEF Trace, Made, Talks, Protected
    <3>2. CASE g[k] # 0
      <4>1. g[k] \in 1 .. N /\ cs[k] = bs[g[k]]
        BY <1>1, <2>1, <3>2 DEF Trace, Verbatim, N
      <4>2. g[k] \in K(kind)
        BY <2>1, <4>1 DEF Spares, N
      <4> QED
        BY <1>3, <4>1, <4>2 DEF Talks
    <3> QED
      BY <3>1, <3>2
  <2> QED
    BY <2>1, <2>2 DEF cs
<1>5. "System" \in Protected /\ "ToolSchema" \in Protected /\ "Summary" \in Protected
  BY DEF Protected
<1>6. PICK gs : Trace(sy, bs, gs) /\ Spares(sy, bs, gs, K("System"))
  BY <1>4, <1>5
<1>7. PICK gt : Trace(ts, bs, gt) /\ Spares(ts, bs, gt, K("ToolSchema"))
  BY <1>4, <1>5
<1>8. PICK gu : Trace(su, bs, gu) /\ Spares(su, bs, gu, K("Summary"))
  BY <1>4, <1>5
<1>9. PICK gr : Trace(re, bs, gr) /\ Spares(re, bs, gr, R) /\ Verbatim(re, bs, gr)
                /\ \A k \in 1 .. Len(re) : gr[k] # 0
  BY PickTrace
<1>10. /\ \A k \in 1 .. Len(sy) : ~Talks(sy[k])
       /\ \A k \in 1 .. Len(ts) : ~Talks(ts[k])
       /\ \A k \in 1 .. Len(su) : ~Talks(su[k])
  BY <1>4, <1>5
<1>11. ASSUME NEW k \in 1 .. Len(re) PROVE Talks(re[k])
  <2>1. gr[k] \in 1 .. N /\ re[k] = bs[gr[k]]
    <3> HIDE DEF re
    <3> QED
      BY <1>1, <1>9, <1>11 DEF Trace, Verbatim, N
  <2>2. gr[k] \in R
    <3> HIDE DEF re
    <3> QED
      BY <1>9, <2>1 DEF Spares, N
  <2> QED
    BY <1>3, <2>1, <2>2 DEF Talks
<1> HIDE DEF sy, ts, su, re
<1>12. /\ IsBlocks(a) /\ Len(a) = Len(sy) + Len(ts)
       /\ \A k \in 1 .. Len(a) : a[k] = IF k <= Len(sy) THEN sy[k] ELSE ts[k - Len(sy)]
       /\ \E f : Trace(a, bs, f) /\ Spares(a, bs, f, K("System") \cup K("ToolSchema"))
  <2>1. \A p \in 1 .. Len(bs) : ~(p \in K("System") /\ p \in K("ToolSchema"))
    BY <1>3 DEF N
  <2> QED
    BY <1>6, <1>7, <1>10, <2>1, ConcatTrace
<1> DEFINE SA == K("System") \cup K("ToolSchema")
<1>13. PICK ga : Trace(a, bs, ga) /\ Spares(a, bs, ga, SA)
  BY <1>12
<1>14. \A k \in 1 .. Len(a) : ~Talks(a[k])
  <2>1. Len(sy) \in Nat /\ Len(ts) \in Nat
    BY <1>6, <1>7, BlocksShape DEF Trace
  <2>2. \A k \in 1 .. Len(a) : IF k <= Len(sy) THEN k \in 1 .. Len(sy) ELSE k - Len(sy) \in 1 .. Len(ts)
    BY <1>12, <2>1
  <2> HIDE DEF a
  <2> QED
    BY <1>10, <1>12, <2>2
<1> HIDE DEF a
<1>15. /\ IsBlocks(b) /\ Len(b) = Len(a) + Len(su)
       /\ \A k \in 1 .. Len(b) : b[k] = IF k <= Len(a) THEN a[k] ELSE su[k - Len(a)]
       /\ \E f : Trace(b, bs, f) /\ Spares(b, bs, f, SA \cup K("Summary"))
  <2>1. \A p \in 1 .. Len(bs) : ~(p \in SA /\ p \in K("Summary"))
    BY <1>3 DEF N
  <2> HIDE DEF SA
  <2> QED
    BY <1>8, <1>13, <1>14, <2>1, ConcatTrace
<1> DEFINE SB == SA \cup K("Summary")
<1>16. PICK gb : Trace(b, bs, gb) /\ Spares(b, bs, gb, SB)
  BY <1>15
<1>17. \A k \in 1 .. Len(b) : ~Talks(b[k])
  <2>1. Len(a) \in Nat /\ Len(su) \in Nat
    BY <1>8, <1>13, BlocksShape DEF Trace
  <2>2. \A k \in 1 .. Len(b) : IF k <= Len(a) THEN k \in 1 .. Len(a) ELSE k - Len(a) \in 1 .. Len(su)
    BY <1>15, <2>1
  <2> HIDE DEF b
  <2> QED
    BY <1>10, <1>14, <1>15, <2>2
<1> HIDE DEF b
<1>18. /\ IsBlocks(c) /\ Len(c) = Len(b) + Len(re)
       /\ \A k \in 1 .. Len(c) : c[k] = IF k <= Len(b) THEN b[k] ELSE re[k - Len(b)]
       /\ \E f : Trace(c, bs, f) /\ Spares(c, bs, f, SB \cup R)
  <2>1. \A p \in 1 .. Len(bs) : ~(p \in SB /\ p \in R)
    BY <1>3, <1>5 DEF N
  <2> HIDE DEF SB
  <2> QED
    BY <1>9, <1>16, <1>17, <2>1, ConcatTrace
<1>19. PICK g : Trace(c, bs, g) /\ Spares(c, bs, g, SB \cup R)
  BY <1>18
<1>20. \A q \in 1 .. Len(bs) : q \in SB \cup R
  BY <1>3 DEF N, Protected
<1>21. Aged(c, bs, g, stale) /\ Keeps(c, bs, g, Protected)
  <2> HIDE DEF c, SB
  <2> QED
    BY <1>19, <1>20, SparesAged, SparesKeeps
<1>22. Packed(c)
  <2>1. \A k \in 1 .. Len(re) : Talks(re[k])
    BY <1>11
  <2>2. Len(b) \in Nat /\ Len(re) \in Nat
    BY <1>9, <1>16, BlocksShape DEF Trace
  <2>3. \A k \in 1 .. Len(c) : IF k <= Len(b) THEN k \in 1 .. Len(b) ELSE k - Len(b) \in 1 .. Len(re)
    BY <1>18, <2>2
  <2> HIDE DEF c
  <2>4. \A k \in 1 .. Len(c) : Talks(c[k]) <=> ~(k <= Len(b))
    BY <1>17, <1>18, <2>1, <2>3
  <2>5. Len(c) \in Nat
    BY <1>18, <2>2
  <2> QED
    BY <2>2, <2>4, <2>5 DEF Packed, Talks
<1> QED
  BY <1>2, <1>19, <1>21, <1>22

-----------------------------------------------------------------------------
(* The pipeline.                                                           *)

Early == {"referential_keep", "guideline_bank", "fold_policy", "fold_inject"}
Summarizers == {"summarization", "llm_summarization"}

\* What is known of the blocks cs that t makes of bs.
Moves(t, cs, bs, g, o) ==
    /\ Trace(cs, bs, g)
    /\ t # "bacm" => Aged(cs, bs, g, "memory_prune" \in o.on)
    /\ (t \notin Summarizers /\ (t = "rolling_window" => Packed(bs))) =>
          /\ Keeps(cs, bs, g, {"System"})
          /\ t # "fold_collapse" => Keeps(cs, bs, g, {"Summary"})
    /\ t \in Early => Sorted(cs, g) /\ Spares(cs, bs, g, 1 .. Len(bs))
    /\ t = "fold_collapse" =>
          Spares(cs, bs, g, {i \in 1 .. Len(bs) : bs[i].branch = NoName \/ Latest(bs, i)})

\* A branch names a fold.
FoldsOnly(bs) == \A i \in DOMAIN bs : bs[i].branch # NoName => bs[i].kind = "Summary"

LEMMA AllMoves ==
    ASSUME NEW t, NEW cs, NEW bs, NEW g, NEW o, Trace(cs, bs, g),
           Spares(cs, bs, g, 1 .. Len(bs)), t # "fold_collapse", t \in Early => Sorted(cs, g)
    PROVE  Moves(t, cs, bs, g, o)
<1>1. \A q \in 1 .. Len(bs) : q \in 1 .. Len(bs)
  OBVIOUS
<1>2. Aged(cs, bs, g, "memory_prune" \in o.on) /\ Keeps(cs, bs, g, {"System"})
      /\ Keeps(cs, bs, g, {"Summary"})
  BY <1>1, SparesAged, SparesKeeps
<1> QED
  BY <1>2 DEF Moves

LEMMA SomeMoves ==
    ASSUME NEW t, NEW cs, NEW bs, NEW g, NEW o, Trace(cs, bs, g),
           t # "bacm" => Aged(cs, bs, g, "memory_prune" \in o.on),
           t \notin Summarizers /\ (t = "rolling_window" => Packed(bs)) => Keeps(cs, bs, g, Protected),
           t # "fold_collapse", t \notin Early
    PROVE  Moves(t, cs, bs, g, o)
  BY DEF Moves, Keeps, Protected

LEMMA ApplyMoves ==
    ASSUME NEW t, NEW bs, IsBlocks(bs), FoldsOnly(bs), NEW o \in Options,
           NEW records, IsSeq(records), Texts(Range(records)),
           t = "memory_prune" => "memory_prune" \in o.on
    PROVE  \E g : Moves(t, Apply(t, bs, o, records), bs, g, o)
<1> DEFINE cs == Apply(t, bs, o, records)
           stale == "memory_prune" \in o.on
<1> SUFFICES \E g : Moves(t, cs, bs, g, o)
  OBVIOUS
<1>1. CASE t = "guideline_bank"
  <2>1. cs = GuidelinePin(bs, o)
    BY <1>1 DEF Apply
  <2>2. PICK g : Trace(cs, bs, g) /\ Sorted(cs, g) /\ Spares(cs, bs, g, 1 .. Len(bs))
    BY <2>1, GuidelineTrace
  <2> HIDE DEF cs
  <2> QED
    BY <1>1, <2>2, AllMoves
<1>2. CASE t = "fold_inject"
  <2>1. cs = FoldInject(bs, records)
    BY <1>2 DEF Apply
  <2>2. PICK g : Trace(cs, bs, g) /\ Sorted(cs, g) /\ Spares(cs, bs, g, 1 .. Len(bs))
    BY <2>1, InjectTrace
  <2> HIDE DEF cs
  <2> QED
    BY <1>2, <2>2, AllMoves
<1>3. CASE t = "fold_collapse"
  <2>1. cs = FoldCollapse(bs)
    BY <1>3 DEF Apply
  <2>2. PICK g : /\ Trace(cs, bs, g) /\ Aged(cs, bs, g, stale) /\ Keeps(cs, bs, g, {"System"})
                 /\ Spares(cs, bs, g, {i \in 1 .. Len(bs) : bs[i].branch = NoName \/ Latest(bs, i)})
    BY <2>1, CollapseTrace DEF FoldsOnly
  <2> HIDE DEF cs
  <2> QED
    BY <1>3, <2>2 DEF Moves, Early
<1>4. CASE t = "error_compaction"
  <2>1. cs = ErrorCompaction(bs, o)
    BY <1>4 DEF Apply
  <2>2. PICK g : Trace(cs, bs, g) /\ Spares(cs, bs, g, 1 .. Len(bs))
    BY <2>1, ErrorTrace
  <2> HIDE DEF cs
  <2> QED
    BY <1>4, <2>2, AllMoves DEF Early
<1>5. CASE t = "consumed_result_mask"
  <2>1. cs = ConsumedResultMask(bs, o)
    BY <1>5 DEF Apply
  <2>2. PICK g : Trace(cs, bs, g) /\ Spares(cs, bs, g, 1 .. Len(bs))
    BY <2>1, MaskTrace
  <2> HIDE DEF cs
  <2> QED
    BY <1>5, <2>2, AllMoves DEF Early
<1>6. CASE t = "agent_omit"
  <2>1. cs = AgentOmit(bs)
    BY <1>6 DEF Apply
  <2>2. PICK g : Trace(cs, bs, g) /\ Aged(cs, bs, g, stale) /\ Keeps(cs, bs, g, Protected)
    BY <2>1, OmitTrace
  <2> HIDE DEF cs
  <2> QED
    BY <1>6, <2>2, SomeMoves DEF Early
<1>7. CASE t = "memory_prune"
  <2>1. cs = MemoryPrune(bs, o)
    BY <1>7 DEF Apply
  <2>2. PICK g : Trace(cs, bs, g) /\ Aged(cs, bs, g, TRUE) /\ Keeps(cs, bs, g, Protected)
    BY <2>1, PruneTrace
  <2>3. stale = TRUE
    BY <1>7
  <2> HIDE DEF cs
  <2> QED
    BY <1>7, <2>2, <2>3, SomeMoves DEF Early
<1>8. CASE t = "llm_summarization"
  <2>1. cs = LlmSummarize(bs, o)
    BY <1>8 DEF Apply
  <2>2. PICK g : Trace(cs, bs, g) /\ Aged(cs, bs, g, stale)
    BY <2>1, LlmTrace
  <2> HIDE DEF cs
  <2> QED
    BY <1>8, <2>2, SomeMoves DEF Early, Summarizers
<1>9. CASE t = "summarization"
  <2>1. cs = RuleSummarize(bs, o)
    BY <1>9 DEF Apply
  <2>2. PICK g : Trace(cs, bs, g) /\ Aged(cs, bs, g, stale)
    BY <2>1, RuleTrace
  <2> HIDE DEF cs
  <2> QED
    BY <1>9, <2>2, SomeMoves DEF Early, Summarizers
<1>10. CASE t = "bacm"
  <2>1. cs = Bacm(bs, o)
    BY <1>10 DEF Apply
  <2>2. PICK g : Trace(cs, bs, g) /\ Keeps(cs, bs, g, Protected)
    BY <2>1, BacmTrace
  <2> HIDE DEF cs
  <2> QED
    BY <1>10, <2>2, SomeMoves DEF Early
<1>11. CASE t = "cache_packer"
  <2>1. cs = CachePack(bs)
    BY <1>11 DEF Apply
  <2>2. PICK g : Trace(cs, bs, g) /\ Aged(cs, bs, g, stale) /\ Keeps(cs, bs, g, Protected)
    BY <2>1, PackTrace
  <2> HIDE DEF cs
  <2> QED
    BY <1>11, <2>2, SomeMoves DEF Early
<1>12. CASE t = "rolling_window"
  <2>1. cs = RollingWindow(bs, o)
    BY <1>12 DEF Apply
  <2>2. PICK g : /\ Trace(cs, bs, g) /\ Aged(cs, bs, g, stale)
                 /\ Packed(bs) => Keeps(cs, bs, g, Protected)
    BY <2>1, RollingTrace
  <2> HIDE DEF cs
  <2> QED
    BY <1>12, <2>2, SomeMoves DEF Early
<1>13. CASE t = "budget_trim"
  <2>1. cs = BudgetTrim(bs, o)
    BY <1>13 DEF Apply
  <2>2. PICK g : Trace(cs, bs, g) /\ Aged(cs, bs, g, stale) /\ Keeps(cs, bs, g, Protected)
    BY <2>1, TrimTrace
  <2> HIDE DEF cs
  <2> QED
    BY <1>13, <2>2, SomeMoves DEF Early
<1>14. CASE /\ t \notin {"guideline_bank", "fold_inject", "fold_collapse", "error_compaction",
                         "consumed_result_mask", "agent_omit", "memory_prune"}
            /\ t \notin {"llm_summarization", "summarization", "bacm", "cache_packer",
                         "rolling_window", "budget_trim"}
  <2>1. cs = bs
    BY <1>14 DEF Apply
  <2>2. PICK g : Trace(cs, bs, g) /\ Sorted(cs, g) /\ Spares(cs, bs, g, 1 .. Len(bs))
    BY <2>1, SameTrace
  <2> HIDE DEF cs
  <2> QED
    BY <1>14, <2>2, AllMoves
<1> QED
  BY <1>1, <1>2, <1>3, <1>4, <1>5, <1>6, <1>7, <1>8, <1>9, <1>10, <1>11, <1>12, <1>13, <1>14

\* The fold records are texts, those of the options and those of the fold policy.
LEMMA RecordsTexts ==
    ASSUME opts \in Options, NEW bs
    PROVE  IsSeq(Records(bs)) /\ Texts(Range(Records(bs)))
<1>1. IsSeq(opts.folds) /\ Texts(Range(opts.folds)) /\ IsSeq(opts.policy)
  BY OptionsAssumption DEF IsSeq
<1> DEFINE matching == {i \in DOMAIN opts.policy :
                          opts.policy[i].action = "inject_fold"
                          /\ opts.policy[i].pattern \in Corpus(bs) \cup {NoName}}
           derived == DeriveFoldRecords(opts.policy, bs)
<1>2. Cardinality(matching) \in Nat
  <2>1. Len(opts.policy) \in Nat /\ DOMAIN opts.policy = 1 .. Len(opts.policy)
    BY <1>1, Shape
  <2>2. IsFiniteSet(1 .. Len(opts.policy)) /\ matching \subseteq 1 .. Len(opts.policy)
    BY <2>1, FS_Interval
  <2> HIDE DEF matching
  <2> QED
    BY <2>2, FS_Subset, FS_CardinalityType
<1>3. /\ DOMAIN derived = 1 .. Cardinality(matching)
      /\ derived = [k \in 1 .. Cardinality(matching) |-> derived[k]]
      /\ \A k \in 1 .. Cardinality(matching) : derived[k].size = StubSize /\ derived[k].head = {}
  BY DEF DeriveFoldRecords
<1> HIDE DEF derived, matching
<1>4. IsSeq(derived)
  BY <1>2, <1>3, Listed
<1>5. Texts(Range(derived))
  BY <1>3, SummaryAssumption DEF Texts, Range
<1> DEFINE more == IF "fold_policy" \in opts.on THEN derived ELSE <<>>
<1>6. IsSeq(more) /\ Texts(Range(more))
  BY <1>4, <1>5 DEF IsSeq, Texts, Range
<1>7. Records(bs) = opts.folds \o more
  BY DEF Records, derived
<1> HIDE DEF more
<1> DEFINE U == Range(opts.folds) \cup Range(more)
<1>8. opts.folds \in Seq(U) /\ more \in Seq(U)
  BY <1>1, <1>6 DEF IsSeq
<1>9. Texts(U)
  BY <1>1, <1>6 DEF Texts
<1> HIDE DEF U
<1>10. Records(bs) \in Seq(U)
  BY <1>7, <1>8
<1> HIDE DEF Records
<1>11. IsSeq(Records(bs)) /\ Range(Records(bs)) \subseteq U
  BY <1>10, AnySeq DEF Range
<1> QED
  BY <1>9, <1>11 DEF Texts

-----------------------------------------------------------------------------
(* The blocks of a transcript.                                             *)

\* Sequences over a set, one behind the other, are a sequence over the set.
LEMMA Flattened ==
    ASSUME NEW V, NEW ss, NEW n \in Nat, n # 0, Len(ss) = n, \A i \in 1 .. n : ss[i] \in Seq(V)
    PROVE  FlattenSeq(ss) \in Seq(V)
<1> DEFINE D == [p \in Seq(V) \X (1 .. n - 1) |-> p[1] \o ss[p[2] + 1]]
           Is(f) == f = [i \in 1 .. n |-> IF i = 1 THEN ss[i] ELSE f[i - 1] \o ss[i]]
<1>1. \A v \in Seq(V), k \in 1 .. n - 1 : D[<<v, k>>] = v \o ss[k + 1]
  OBVIOUS
<1>2. ASSUME NEW v \in Seq(V), NEW k \in 1 .. n - 1 PROVE D[<<v, k>>] \in Seq(V)
  <2>1. k + 1 \in 1 .. n
    OBVIOUS
  <2>2. ss[k + 1] \in Seq(V) /\ D[<<v, k>>] = v \o ss[k + 1]
    BY <1>1, <2>1
  <2> HIDE DEF D
  <2> QED
    BY <2>2
<1> HIDE DEF D
<1>3. PICK f \in [0 .. n - 1 -> Seq(V)] : Unrolls(f, ss[1], D, n - 1)
  <2>1. ss[1] \in Seq(V) /\ n - 1 \in Nat
    OBVIOUS
  <2> QED
    BY <1>2, <2>1, Recursion
<1> DEFINE e == [i \in 1 .. n |-> f[i - 1]]
<1>4. /\ \A i \in 1 .. n : e[i] = f[i - 1]
      /\ DOMAIN e = 1 .. n /\ e = [i \in 1 .. n |-> e[i]]
  OBVIOUS
<1> HIDE DEF e
<1>5. \A i \in 1 .. n : e[i] = IF i = 1 THEN ss[i] ELSE e[i - 1] \o ss[i]
  <2> SUFFICES ASSUME NEW i \in 1 .. n
               PROVE e[i] = IF i = 1 THEN ss[i] ELSE e[i - 1] \o ss[i]
    OBVIOUS
  <2>1. CASE i = 1
    BY <1>3, <1>4, <2>1 DEF Unrolls
  <2>2. CASE i # 1
    <3>1. i - 1 \in 1 .. n - 1 /\ i - 1 \in 1 .. n /\ (i - 1) + 1 = i
      BY <2>2
    <3>2. f[i - 1] = D[<<f[(i - 1) - 1], i - 1>>] /\ f[(i - 1) - 1] \in Seq(V)
      <4>1. (i - 1) - 1 \in 0 .. n - 1
        BY <3>1
      <4> QED
        BY <1>3, <3>1, <4>1 DEF Unrolls
    <3>3. f[i - 1] = f[(i - 1) - 1] \o ss[i]
      BY <1>1, <3>1, <3>2
    <3>4. e[i - 1] = f[(i - 1) - 1] /\ e[i] = f[i - 1]
      BY <1>4, <3>1
    <3> QED
      BY <2>2, <3>3, <3>4
  <2> QED
    BY <2>1, <2>2
<1>6. Is(e)
  <2> DEFINE g == [i \in 1 .. n |-> IF i = 1 THEN ss[i] ELSE e[i - 1] \o ss[i]]
  <2>1. \A i \in 1 .. n : g[i] = e[i]
    BY <1>5
  <2>2. DOMAIN g = 1 .. n /\ g = [i \in 1 .. n |-> g[i]]
    OBVIOUS
  <2>3. e = g
    <3> HIDE DEF g
    <3> QED
      BY <1>4, <2>1, <2>2
  <2> QED
    BY <2>3
<1> DEFINE k == CHOOSE g : Is(g)
<1>7. Is(k)
  <2>1. \E g : Is(g)
    BY <1>6
  <2> HIDE DEF Is
  <2> QED
    BY <2>1
<1>8. FlattenSeq(ss) = k[n]
  BY DEF FlattenSeq
<1> HIDE DEF k
<1>9. \A i \in 1 .. n : k[i] = IF i = 1 THEN ss[i] ELSE k[i - 1] \o ss[i]
  BY <1>7
<1> DEFINE S == {j \in 0 .. n - 1 : k[j + 1] \in Seq(V)}
<1>10. 0 \in S
  <2>1. 0 + 1 = 1 /\ 1 \in 1 .. n
    OBVIOUS
  <2>2. k[1] = ss[1]
    BY <1>9, <2>1
  <2> QED
    BY <2>1, <2>2
<1>11. ASSUME NEW j \in 0 .. (n - 1) - 1, j \in S PROVE j + 1 \in S
  <2>1. /\ j + 1 \in 0 .. n - 1 /\ (j + 1) + 1 \in 1 .. n /\ (j + 1) + 1 # 1
        /\ ((j + 1) + 1) - 1 = j + 1 /\ k[j + 1] \in Seq(V)
    BY <1>11
  <2>2. k[(j + 1) + 1] = k[j + 1] \o ss[(j + 1) + 1]
    BY <1>9, <2>1
  <2>3. ss[(j + 1) + 1] \in Seq(V)
    BY <2>1
  <2>4. k[(j + 1) + 1] \in Seq(V)
    <3> DEFINE v == k[j + 1]
               w == ss[(j + 1) + 1]
    <3>1. v \in Seq(V) /\ w \in Seq(V) /\ k[(j + 1) + 1] = v \o w
      BY <2>1, <2>2, <2>3
    <3> HIDE DEF v, w
    <3> QED
      BY <3>1
  <2> QED
    BY <2>1, <2>4
<1>12. \A j \in 0 .. n - 1 : j \in S
  <2> HIDE DEF S
  <2>1. n - 1 \in Nat
    OBVIOUS
  <2> QED
    BY <1>10, <1>11, <2>1, UpTo
<1>13. k[n] \in Seq(V)
  <2>1. n - 1 \in 0 .. n - 1 /\ (n - 1) + 1 = n
    OBVIOUS
  <2> QED
    BY <1>12, <2>1
<1> QED
  BY <1>8, <1>13

\* A block of the transcript: nothing made it, nothing moved it out.
Parsed(b) == /\ IsBlock(b) /\ b.ref = NoRef /\ b.id[1] \notin MadeTags
             /\ b.branch # NoName => b.kind = "Summary"

LEMMA BlockParsed ==
    ASSUME NEW id, id[1] \notin MadeTags, NEW kind, NEW turn, NEW text, NEW branch,
           text.size \in Nat, text.head \subseteq text.facts,
           branch # NoName => kind = "Summary", NEW call
    PROVE  /\ Parsed(Block(id, kind, turn, text, branch))
           /\ Parsed([Block(id, kind, turn, text, branch) EXCEPT !.call = call])
<1> DEFINE failed == kind = "ToolResult" /\ Error \in text.facts
           R(c) == [id |-> id, kind |-> kind, turn |-> turn, text |-> text, branch |-> branch,
                    call |-> c, failed |-> failed, pinned |-> FALSE, ref |-> NoRef]
           b == Block(id, kind, turn, text, branch)
           d == [b EXCEPT !.call = call]
<1>1. b = R(NoName) /\ (failed => kind = "ToolResult")
  BY DEF Block
<1>2. d = R(call)
  <2>1. d = [R(NoName) EXCEPT !.call = call]
    BY <1>1
  <2> HIDE DEF failed, d
  <2> QED
    BY <2>1
<1> HIDE DEF failed, b, d
<1>3. ASSUME NEW c PROVE Parsed(R(c))
  <2>1. IsBlock(R(c))
    BY <1>1 DEF IsBlock
  <2> QED
    BY <2>1 DEF Parsed
<1>4. Parsed(b) /\ Parsed(d)
  BY <1>1, <1>2, <1>3
<1> QED
  BY <1>4 DEF b, d

LEMMA MessageParsed ==
    ASSUME NEW m, NEW turn, m.text.size \in Nat, m.text.head \subseteq m.text.facts, IsSeq(m.calls)
    PROVE  \E V : MessageBlocks(turn, m) \in Seq(V) /\ \A b \in V : Parsed(b)
<1>0. \A tag, x : <<tag, x>>[1] = tag
  OBVIOUS
<1>1. ASSUME NEW b, Parsed(b), MessageBlocks(turn, m) = <<b>>
      PROVE  \E V : MessageBlocks(turn, m) \in Seq(V) /\ \A v \in V : Parsed(v)
  <2>1. MessageBlocks(turn, m) \in Seq({b}) /\ \A v \in {b} : Parsed(v)
    BY <1>1
  <2> HIDE DEF Parsed
  <2> QED
    BY <2>1
<1>2. CASE m.role = "system"
  <2>1. Parsed(Block(<<"sys", turn>>, "System", turn, m.text, NoName))
    BY <1>0, BlockParsed DEF MadeTags
  <2>2. MessageBlocks(turn, m) = <<Block(<<"sys", turn>>, "System", turn, m.text, NoName)>>
    BY <1>2 DEF MessageBlocks
  <2> QED
    BY <1>1, <2>1, <2>2
<1>3. CASE m.role = "user"
  <2>1. Parsed(Block(<<"user", turn>>, "User", turn, m.text, NoName))
    BY <1>0, BlockParsed DEF MadeTags
  <2> QED
    BY <1>1, <1>3, <2>1 DEF MessageBlocks
<1>4. CASE m.role = "fold"
  <2>1. Parsed(Block(<<"fold", turn>>, "Summary", turn, m.text, m.name))
    BY <1>0, BlockParsed DEF MadeTags
  <2> QED
    BY <1>1, <1>4, <2>1 DEF MessageBlocks
<1>5. CASE m.role = "tool"
  <2> DEFINE id == <<"tr", IF m.name = NoName THEN turn ELSE m.name>>
  <2>1. id[1] \notin MadeTags
    BY <1>0 DEF MadeTags
  <2>2. MessageBlocks(turn, m) = <<[Block(id, "ToolResult", turn, m.text, NoName) EXCEPT !.call = m.name]>>
    BY <1>5 DEF MessageBlocks
  <2> HIDE DEF id
  <2>3. Parsed([Block(id, "ToolResult", turn, m.text, NoName) EXCEPT !.call = m.name])
    BY <2>1, BlockParsed
  <2> QED
    BY <1>1, <2>2, <2>3
<1>6. CASE m.role = "assistant"
  <2> DEFINE said == Block(<<"asst", turn>>, "Assistant", turn, m.text, NoName)
             one == [size |-> 1, facts |-> {}, head |-> {}]
             front == IF m.text.size = 0 THEN <<>> ELSE <<said>>
             calls == [k \in DOMAIN m.calls |-> Block(<<"tc", m.calls[k]>>, "ToolCall", turn, one, NoName)]
             V == {said} \cup {calls[k] : k \in DOMAIN m.calls}
  <2>1. Parsed(said)
    BY <1>0, BlockParsed DEF MadeTags
  <2>2. ASSUME NEW k \in DOMAIN m.calls PROVE Parsed(calls[k])
    <3>1. one.size \in Nat /\ one.head \subseteq one.facts
      OBVIOUS
    <3>2. calls[k] = Block(<<"tc", m.calls[k]>>, "ToolCall", turn, one, NoName)
      OBVIOUS
    <3> DEFINE id == <<"tc", m.calls[k]>>
    <3>3. id[1] \notin MadeTags /\ calls[k] = Block(id, "ToolCall", turn, one, NoName)
      BY <1>0, <3>2 DEF MadeTags
    <3> HIDE DEF one, calls, id
    <3>4. Parsed(Block(id, "ToolCall", turn, one, NoName))
      BY <3>1, <3>3, BlockParsed
    <3> QED
      BY <3>3, <3>4
  <2>3. DOMAIN m.calls = 1 .. Len(m.calls) /\ Len(m.calls) \in Nat
    BY Shape
  <2>4. calls \in Seq(V) /\ front \in Seq(V)
    <3>1. DOMAIN calls = 1 .. Len(m.calls) /\ calls = [k \in 1 .. Len(m.calls) |-> calls[k]]
      BY <2>3
    <3>2. \A k \in 1 .. Len(m.calls) : calls[k] \in V
      BY <2>3
    <3>3. said \in V
      OBVIOUS
    <3> HIDE DEF calls, V, said
    <3>4. calls \in [1 .. Len(m.calls) -> V]
      BY <3>1, <3>2
    <3>5. calls \in Seq(V)
      BY <2>3, <3>4
    <3> QED
      BY <3>3, <3>5
  <2>5. MessageBlocks(turn, m) = front \o calls
    BY <1>6 DEF MessageBlocks
  <2>6. \A v \in V : Parsed(v)
    BY <2>1, <2>2
  <2> HIDE DEF front, calls, V
  <2>7. front \o calls \in Seq(V)
    BY <2>4
  <2> QED
    BY <2>5, <2>6, <2>7
<1>7. CASE m.role \notin {"system", "user", "fold", "tool", "assistant"}
  <2>1. Parsed(Block(<<"other", turn>>, "Other", turn, m.text, NoName))
    BY <1>0, BlockParsed DEF MadeTags
  <2> QED
    BY <1>1, <1>7, <2>1 DEF MessageBlocks
<1> QED
  BY <1>2, <1>3, <1>4, <1>5, <1>6, <1>7

\* What parse_transcript makes of an input.
LEMMA TranscriptParsed ==
    ASSUME NEW ms \in Inputs
    PROVE  LET bs == ParseTranscript(ms)
           IN IsBlocks(bs) /\ \A i \in DOMAIN bs : Parsed(bs[i])
<1> DEFINE n == Len(ms)
           ss == [i \in DOMAIN ms |-> MessageBlocks(i - 1, ms[i])]
           bs == ParseTranscript(ms)
<1>1. IsSeq(ms) /\ Texts({ms[i].text : i \in DOMAIN ms}) /\ \A i \in DOMAIN ms : IsSeq(ms[i].calls)
  BY InputsAssumption DEF IsSeq
<1>2. n \in Nat /\ DOMAIN ms = 1 .. n
  BY <1>1, Shape
<1>3. IsSeq(ss) /\ Len(ss) = n
  <2>1. DOMAIN ss = 1 .. n /\ ss = [i \in 1 .. n |-> ss[i]]
    BY <1>2
  <2> HIDE DEF ss
  <2> QED
    BY <1>2, <2>1, Listed
<1>4. \A i \in 1 .. n : \E V : ss[i] \in Seq(V) /\ \A b \in V : Parsed(b)
  <2> SUFFICES ASSUME NEW i \in 1 .. n PROVE \E V : ss[i] \in Seq(V) /\ \A b \in V : Parsed(b)
    OBVIOUS
  <2>1. ms[i].text.size \in Nat /\ ms[i].text.head \subseteq ms[i].text.facts /\ IsSeq(ms[i].calls)
    BY <1>1, <1>2 DEF Texts
  <2>2. ss[i] = MessageBlocks(i - 1, ms[i])
    BY <1>2
  <2> HIDE DEF ss
  <2> QED
    BY <2>1, <2>2, MessageParsed
<1>5. bs = FlattenSeq(ss)
  BY DEF ParseTranscript
<1> HIDE DEF ss, bs
<1> DEFINE U == UNION {Range(ss[i]) : i \in 1 .. n}
<1>6. \A i \in 1 .. n : ss[i] \in Seq(U) /\ \A b \in Range(ss[i]) : Parsed(b)
  <2> SUFFICES ASSUME NEW i \in 1 .. n PROVE ss[i] \in Seq(U) /\ \A b \in Range(ss[i]) : Parsed(b)
    OBVIOUS
  <2>1. PICK V : ss[i] \in Seq(V) /\ \A b \in V : Parsed(b)
    BY <1>4
  <2>2. ss[i] \in Seq(Range(ss[i])) /\ Range(ss[i]) \subseteq V
    BY <2>1, AnySeq DEF IsSeq, Range
  <2>3. Range(ss[i]) \subseteq U
    OBVIOUS
  <2> HIDE DEF U
  <2>4. ss[i] \in Seq(U)
    BY <2>2, <2>3
  <2> QED
    BY <2>1, <2>2, <2>4
<1>7. \A b \in U : Parsed(b)
  BY <1>6
<1> HIDE DEF U
<1>8. bs \in Seq(U)
  <2>1. CASE n = 0
    <3>1. ss = <<>>
      BY <1>3, <2>1 DEF IsSeq
    <3>2. FlattenSeq(ss) = ss
      BY <1>3, <2>1 DEF FlattenSeq
    <3>3. bs = <<>> /\ <<>> \in Seq(U)
      BY <1>5, <3>1, <3>2
    <3> QED
      BY <3>3
  <2>2. CASE n # 0
    BY <1>2, <1>3, <1>5, <1>6, <2>2, Flattened
  <2> QED
    BY <2>1, <2>2
<1> HIDE DEF bs
<1>9. IsSeq(bs) /\ DOMAIN bs = 1 .. Len(bs) /\ \A i \in DOMAIN bs : bs[i] \in U
  BY <1>8, AnySeq
<1> QED
  BY <1>7, <1>9 DEF IsBlocks, Parsed, bs

-----------------------------------------------------------------------------
(* One transform after another.                                            *)

\* Transform by transform, the places in the input.
Through(h, g, n) == [k \in 1 .. n |-> IF h[k] = 0 THEN 0 ELSE g[h[k]]]

LEMMA ThroughPlaces ==
    ASSUME NEW bs, IsBlocks(bs), NEW cs, NEW ds, NEW g, NEW h, Trace(cs, bs, g), Trace(ds, cs, h)
    PROVE  LET f == Through(h, g, Len(ds)) IN
           /\ Trace(ds, bs, f)
           /\ Len(bs) \in Nat /\ Len(cs) \in Nat /\ Len(ds) \in Nat
           /\ \A k \in 1 .. Len(ds) : f[k] = IF h[k] = 0 THEN 0 ELSE g[h[k]]
           /\ \A k \in 1 .. Len(ds) : f[k] # 0 => h[k] \in 1 .. Len(cs) /\ f[k] = g[h[k]]
           /\ \A k \in 1 .. Len(ds) : h[k] # 0 => f[k] = g[h[k]]
<1> DEFINE f == Through(h, g, Len(ds))
<1>1. Len(bs) \in Nat /\ Len(cs) \in Nat /\ Len(ds) \in Nat
  BY BlocksShape DEF Trace
<1>2. Trace(ds, bs, f)
  BY <1>1, TraceTwice DEF Through
<1>3. \A k \in 1 .. Len(ds) : f[k] = IF h[k] = 0 THEN 0 ELSE g[h[k]]
  BY DEF Through
<1>4. \A k \in 1 .. Len(ds) : h[k] # 0 => h[k] \in 1 .. Len(cs)
  BY <1>1 DEF Trace
<1> HIDE DEF f
<1> QED
  BY <1>1, <1>2, <1>3, <1>4 DEF f

LEMMA KeepsTwice ==
    ASSUME NEW bs, IsBlocks(bs), NEW cs, NEW ds, NEW g, NEW h, Trace(cs, bs, g), Trace(ds, cs, h),
           NEW kinds, Keeps(cs, bs, g, kinds), Keeps(ds, cs, h, kinds)
    PROVE  Keeps(ds, bs, Through(h, g, Len(ds)), kinds)
<1> DEFINE f == Through(h, g, Len(ds))
<1>1. /\ Len(bs) \in Nat /\ Len(cs) \in Nat
      /\ \A k \in 1 .. Len(ds) : h[k] # 0 => f[k] = g[h[k]]
  BY ThroughPlaces
<1> HIDE DEF f
<1> SUFFICES ASSUME NEW p \in 1 .. Len(bs), bs[p].kind \in kinds
             PROVE  \E k \in 1 .. Len(ds) : f[k] = p
  BY DEF Keeps, f
<1>2. PICK j \in 1 .. Len(cs) : g[j] = p
  BY DEF Keeps
<1>3. Comes(cs[j], bs[p]) /\ j # 0
  <2>1. g[j] # 0
    BY <1>1, <1>2
  <2> QED
    BY <1>1, <1>2, <2>1 DEF Trace
<1>4. PICK k \in 1 .. Len(ds) : h[k] = j
  BY <1>3 DEF Keeps, Comes
<1> QED
  BY <1>1, <1>2, <1>3, <1>4

LEMMA AgedTwice ==
    ASSUME NEW bs, IsBlocks(bs), NEW cs, NEW ds, NEW g, NEW h, Trace(cs, bs, g), Trace(ds, cs, h),
           NEW stale, Aged(cs, bs, g, stale), Aged(ds, cs, h, stale)
    PROVE  Aged(ds, bs, Through(h, g, Len(ds)), stale)
<1> DEFINE f == Through(h, g, Len(ds))
<1>1. /\ Len(bs) \in Nat /\ Len(cs) \in Nat
      /\ \A k \in 1 .. Len(ds) : f[k] # 0 => h[k] \in 1 .. Len(cs) /\ f[k] = g[h[k]]
      /\ \A k \in 1 .. Len(ds) : h[k] # 0 => f[k] = g[h[k]]
  BY ThroughPlaces
<1> HIDE DEF f
<1> SUFFICES ASSUME NEW p \in 1 .. Len(bs), NEW q \in 1 .. Len(bs), p < q,
                    NEW k \in 1 .. Len(ds), f[k] = p, Trimmable(ds[k]), Talks(bs[q]),
                    bs[q].kind # "ToolResult" => Filler \notin bs[q].text.facts,
                    stale => bs[q].kind # "ToolResult"
             PROVE  \E j \in 1 .. Len(ds) : f[j] = q
  BY DEF Aged, f
<1>2. h[k] \in 1 .. Len(cs) /\ h[k] # 0 /\ g[h[k]] = p /\ p # 0 /\ q # 0
  BY <1>1
<1>3. Trimmable(cs[h[k]]) /\ Talks(cs[h[k]])
  <2>1. Comes(ds[k], cs[h[k]])
    BY <1>2 DEF Trace
  <2> QED
    BY <2>1 DEF Comes, Trimmable, Talks
<1>4. PICK j \in 1 .. Len(cs) : g[j] = q
  BY <1>2, <1>3 DEF Aged
<1>5. Comes(cs[j], bs[q])
  BY <1>2, <1>4 DEF Trace
<1>6. /\ Talks(cs[j])
      /\ cs[j].kind # "ToolResult" => Filler \notin cs[j].text.facts
      /\ stale => cs[j].kind # "ToolResult"
  BY <1>5 DEF Comes, Talks
<1>7. h[k] < j
  <2>1. ~(j < h[k])
    <3> SUFFICES ASSUME j < h[k] PROVE FALSE
      OBVIOUS
    <3>1. g[j] < g[h[k]]
      BY <1>2, <1>3, <1>6 DEF Trace
    <3> QED
      BY <1>1, <1>2, <1>4, <3>1
  <2>2. j # h[k]
    BY <1>2, <1>4
  <2> QED
    BY <1>1, <1>2, <2>1, <2>2
<1>8. PICK i \in 1 .. Len(ds) : h[i] = j
  BY <1>2, <1>3, <1>6, <1>7 DEF Aged
<1> QED
  BY <1>1, <1>4, <1>8

\* Nothing lost and nothing moved, twice.
LEMMA AllTwice ==
    ASSUME NEW bs, IsBlocks(bs), NEW cs, NEW ds, NEW g, NEW h, Trace(cs, bs, g), Trace(ds, cs, h),
           Sorted(cs, g), Spares(cs, bs, g, 1 .. Len(bs)),
           Sorted(ds, h), Spares(ds, cs, h, 1 .. Len(cs))
    PROVE  LET f == Through(h, g, Len(ds))
           IN Sorted(ds, f) /\ Spares(ds, bs, f, 1 .. Len(bs))
<1> DEFINE f == Through(h, g, Len(ds))
<1>1. /\ Len(bs) \in Nat /\ Len(cs) \in Nat
      /\ \A k \in 1 .. Len(ds) : f[k] # 0 => h[k] \in 1 .. Len(cs) /\ f[k] = g[h[k]]
      /\ \A k \in 1 .. Len(ds) : h[k] # 0 => f[k] = g[h[k]]
  BY ThroughPlaces
<1> HIDE DEF f
<1>2. Sorted(ds, f)
  <2> SUFFICES ASSUME NEW i \in 1 .. Len(ds), NEW j \in 1 .. Len(ds), i < j, f[i] # 0, f[j] # 0
               PROVE  f[i] < f[j]
    BY DEF Sorted
  <2>1. h[i] \in 1 .. Len(cs) /\ f[i] = g[h[i]] /\ h[j] \in 1 .. Len(cs) /\ f[j] = g[h[j]]
    BY <1>1
  <2>2. h[i] < h[j]
    BY <1>1, <2>1 DEF Sorted
  <2> QED
    BY <2>1, <2>2 DEF Sorted
<1>3. Spares(ds, bs, f, 1 .. Len(bs))
  <2> SUFFICES ASSUME NEW p \in 1 .. Len(bs) PROVE \E k \in 1 .. Len(ds) : f[k] = p
    BY DEF Spares
  <2>1. PICK j \in 1 .. Len(cs) : g[j] = p
    BY DEF Spares
  <2>2. PICK k \in 1 .. Len(ds) : h[k] = j
    BY DEF Spares
  <2> QED
    BY <1>1, <2>1, <2>2
<1> QED
  BY <1>2, <1>3 DEF f

\* Of the folds of the input the latest of each branch are left.
OnlyLatest(bs, in, g) ==
    \A p \in 1 .. Len(in) : in[p].branch # NoName =>
        (Latest(in, p) <=> \E k \in 1 .. Len(bs) : g[k] = p)

\* fold_collapse behind transforms that lose and move nothing.
LEMMA CollapseLatest ==
    ASSUME NEW in, IsBlocks(in), NEW bs, NEW cs, NEW g, NEW h, Trace(bs, in, g), Trace(cs, bs, h),
           Sorted(bs, g), Spares(bs, in, g, 1 .. Len(in)),
           Spares(cs, bs, h, {i \in 1 .. Len(bs) : bs[i].branch = NoName \/ Latest(bs, i)})
    PROVE  OnlyLatest(cs, in, Through(h, g, Len(cs)))
<1> DEFINE f == Through(h, g, Len(cs))
           places == {i \in 1 .. Len(bs) : bs[i].branch = NoName \/ Latest(bs, i)}
<1>1. /\ Len(in) \in Nat /\ Len(bs) \in Nat /\ DOMAIN in = 1 .. Len(in) /\ DOMAIN bs = 1 .. Len(bs)
      /\ \A k \in 1 .. Len(cs) : f[k] # 0 => h[k] \in 1 .. Len(bs) /\ f[k] = g[h[k]]
      /\ \A k \in 1 .. Len(cs) : h[k] # 0 => f[k] = g[h[k]]
  <2>1. IsBlocks(bs)
    BY DEF Trace
  <2> QED
    BY <2>1, ThroughPlaces, BlocksShape
<1> HIDE DEF f
<1>2. \A i \in 1 .. Len(bs) : i \in places <=> bs[i].branch = NoName \/ Latest(bs, i)
  OBVIOUS
<1>3. Spares(cs, bs, h, places)
  OBVIOUS
<1> HIDE DEF places
<1> SUFFICES ASSUME NEW p \in 1 .. Len(in), in[p].branch # NoName
             PROVE  Latest(in, p) <=> \E k \in 1 .. Len(cs) : f[k] = p
  BY DEF OnlyLatest, f
<1>4. PICK i \in 1 .. Len(bs) : g[i] = p
  BY DEF Spares
<1>5. \A j \in 1 .. Len(bs) : g[j] # 0 => g[j] \in 1 .. Len(in) /\ bs[j].branch = in[g[j]].branch
  BY <1>1 DEF Trace, Comes
<1>6. p # 0 /\ bs[i].branch = in[p].branch
  <2>1. p # 0
    BY <1>1
  <2> QED
    BY <1>4, <1>5, <2>1
<1>7. ASSUME Latest(in, p) PROVE Latest(bs, i)
  <2> SUFFICES ASSUME NEW j \in 1 .. Len(bs), bs[j].branch = bs[i].branch, i < j PROVE FALSE
    BY <1>1 DEF Latest
  <2>1. g[j] # 0
    <3>1. ~Made(bs[j])
      BY <1>6 DEF Made
    <3> QED
      BY <3>1 DEF Trace
  <2>2. g[j] \in 1 .. Len(in) /\ in[g[j]].branch = in[p].branch
    BY <1>5, <1>6, <2>1
  <2>3. g[j] <= p
    BY <1>1, <1>7, <2>2 DEF Latest
  <2>4. g[i] < g[j]
    BY <1>4, <1>6, <2>1 DEF Sorted
  <2> QED
    BY <1>1, <1>4, <2>2, <2>3, <2>4
<1>8. ASSUME Latest(bs, i) PROVE Latest(in, p)
  <2> SUFFICES ASSUME NEW q \in 1 .. Len(in), in[q].branch = in[p].branch PROVE q <= p
    BY <1>1 DEF Latest
  <2>1. PICK j \in 1 .. Len(bs) : g[j] = q
    BY DEF Spares
  <2>2. q # 0 /\ bs[j].branch = bs[i].branch
    <3>1. q # 0
      BY <1>1
    <3> QED
      BY <1>5, <1>6, <2>1, <3>1
  <2>3. j <= i
    BY <1>1, <1>8, <2>2 DEF Latest
  <2>4. CASE j = i
    BY <1>1, <1>4, <2>1, <2>4
  <2>5. CASE j # i
    <3>1. j < i
      BY <1>1, <2>3, <2>5
    <3>2. g[j] < g[i]
      BY <1>4, <1>6, <2>1, <2>2, <3>1 DEF Sorted
    <3> QED
      BY <1>1, <1>4, <2>1, <3>2
  <2> QED
    BY <2>4, <2>5
<1>9. ASSUME Latest(bs, i) PROVE \E k \in 1 .. Len(cs) : f[k] = p
  <2>1. i \in places
    BY <1>2, <1>9
  <2>2. PICK k \in 1 .. Len(cs) : h[k] = i
    BY <1>3, <2>1 DEF Spares
  <2>3. h[k] # 0
    BY <1>1, <2>2
  <2> QED
    BY <1>1, <1>4, <2>2, <2>3
<1>10. ASSUME NEW k \in 1 .. Len(cs), f[k] = p PROVE Latest(bs, i)
  <2>1. h[k] \in 1 .. Len(bs) /\ g[h[k]] = p
    BY <1>1, <1>6, <1>10
  <2>2. h[k] = i
    BY <1>4, <1>6, <2>1 DEF Trace
  <2>3. i \in places
    BY <1>3, <2>2 DEF Spares
  <2> QED
    BY <1>2, <1>6, <2>3
<1> QED
  BY <1>7, <1>8, <1>9, <1>10

\* Transforms that lose no summary keep it so.
LEMMA LatestTwice ==
    ASSUME NEW in, IsBlocks(in), FoldsOnly(in), NEW bs, NEW cs, NEW g, NEW h,
           Trace(bs, in, g), Trace(cs, bs, h), OnlyLatest(bs, in, g), Keeps(cs, bs, h, {"Summary"})
    PROVE  OnlyLatest(cs, in, Through(h, g, Len(cs)))
<1> DEFINE f == Through(h, g, Len(cs))
<1>1. /\ Len(in) \in Nat /\ Len(bs) \in Nat /\ DOMAIN in = 1 .. Len(in)
      /\ \A k \in 1 .. Len(cs) : f[k] # 0 => h[k] \in 1 .. Len(bs) /\ f[k] = g[h[k]]
      /\ \A k \in 1 .. Len(cs) : h[k] # 0 => f[k] = g[h[k]]
  BY ThroughPlaces, BlocksShape
<1> HIDE DEF f
<1> SUFFICES ASSUME NEW p \in 1 .. Len(in), in[p].branch # NoName
             PROVE  Latest(in, p) <=> \E k \in 1 .. Len(cs) : f[k] = p
  BY DEF OnlyLatest, f
<1>2. p # 0 /\ in[p].kind = "Summary"
  BY <1>1 DEF FoldsOnly
<1>3. ASSUME Latest(in, p) PROVE \E k \in 1 .. Len(cs) : f[k] = p
  <2>1. PICK j \in 1 .. Len(bs) : g[j] = p
    BY <1>3 DEF OnlyLatest
  <2>2. bs[j].kind = "Summary" /\ j # 0
    BY <1>1, <1>2, <2>1 DEF Trace, Comes
  <2>3. PICK k \in 1 .. Len(cs) : h[k] = j
    BY <2>2 DEF Keeps
  <2> QED
    BY <1>1, <2>1, <2>2, <2>3
<1>4. ASSUME NEW k \in 1 .. Len(cs), f[k] = p PROVE Latest(in, p)
  BY <1>1, <1>2, <1>4 DEF OnlyLatest
<1> QED
  BY <1>3, <1>4

\* Branches stay with the folds.
LEMMA FoldsStay ==
    ASSUME NEW in, IsBlocks(in), FoldsOnly(in), NEW bs, NEW g, Trace(bs, in, g)
    PROVE  FoldsOnly(bs)
<1>1. /\ IsBlocks(bs) /\ Len(bs) \in Nat /\ DOMAIN bs = 1 .. Len(bs)
      /\ Len(in) \in Nat /\ DOMAIN in = 1 .. Len(in)
  BY BlocksShape DEF Trace
<1> SUFFICES ASSUME NEW k \in 1 .. Len(bs), bs[k].branch # NoName PROVE bs[k].kind = "Summary"
  BY <1>1 DEF FoldsOnly
<1>2. g[k] # 0
  BY DEF Trace, Made
<1>3. g[k] \in 1 .. Len(in) /\ Comes(bs[k], in[g[k]])
  BY <1>1, <1>2 DEF Trace
<1> QED
  BY <1>1, <1>3 DEF Comes, FoldsOnly

-----------------------------------------------------------------------------
(* The transforms still to run.                                            *)

\* The names in s stand in s as they do in the pipeline.
Queue(s) == \E h : /\ IsSeq(s) /\ h \in [1 .. Len(s) -> 1 .. 16]
                   /\ \A i, j \in 1 .. Len(s) : i < j => h[i] < h[j]
                   /\ \A k \in 1 .. Len(s) : s[k] = PipelineOrder[h[k]]

\* t comes before u.
Before(t, u) == \E i, j \in 1 .. 16 : i < j /\ t = PipelineOrder[i] /\ u = PipelineOrder[j]

LEMMA Order ==
    /\ Len(PipelineOrder) = 16 /\ DOMAIN PipelineOrder = 1 .. 16 /\ IsSeq(PipelineOrder)
    /\ \A i \in 1 .. 16, j \in 1 .. 16 : PipelineOrder[i] = PipelineOrder[j] => i = j
    /\ \A i \in 1 .. 16 : /\ PipelineOrder[i] \in Early <=> i < 5
                          /\ PipelineOrder[i] = "guideline_bank" <=> i = 2
                          /\ PipelineOrder[i] = "fold_inject" <=> i = 4
                          /\ PipelineOrder[i] = "fold_collapse" <=> i = 5
                          /\ PipelineOrder[i] = "cache_packer" <=> i = 14
                          /\ PipelineOrder[i] = "rolling_window" <=> i = 15
                          /\ PipelineOrder[i] = "budget_trim" <=> i = 16
<1> DEFINE P == PipelineOrder
<1>1. /\ P[1] = "referential_keep" /\ P[2] = "guideline_bank" /\ P[3] = "fold_policy"
      /\ P[4] = "fold_inject" /\ P[5] = "fold_collapse" /\ P[6] = "error_compaction"
      /\ P[7] = "consumed_result_mask" /\ P[8] = "agent_omit" /\ P[9] = "memory_prune"
      /\ P[10] = "llm_summarization" /\ P[11] = "summarization" /\ P[12] = "bacm"
      /\ P[13] = "external_compress" /\ P[14] = "cache_packer" /\ P[15] = "rolling_window"
      /\ P[16] = "budget_trim" /\ Len(P) = 16
  BY DEF PipelineOrder
<1>2. DOMAIN P = 1 .. 16 /\ P = [i \in 1 .. 16 |-> P[i]]
  BY DEF PipelineOrder
<1>3. IsSeq(P) /\ DOMAIN P = 1 .. 16
  <2> HIDE DEF P
  <2> QED
    BY <1>2, Listed
<1> HIDE DEF P
<1>4. ASSUME NEW i \in 1 .. 16
      PROVE  i \in {1, 2, 3, 4, 5, 6, 7, 8} \cup {9, 10, 11, 12, 13, 14, 15, 16}
  OBVIOUS
<1>5. \A i \in 1 .. 16 : /\ P[i] \in Early <=> i < 5
                         /\ P[i] = "guideline_bank" <=> i = 2
                         /\ P[i] = "fold_inject" <=> i = 4
                         /\ P[i] = "fold_collapse" <=> i = 5
                         /\ P[i] = "cache_packer" <=> i = 14
                         /\ P[i] = "rolling_window" <=> i = 15
                         /\ P[i] = "budget_trim" <=> i = 16
  BY <1>1, <1>4 DEF Early
<1>6. \A i \in 1 .. 16, j \in 1 .. 16 : P[i] = P[j] => i = j
  BY <1>1, <1>4
<1> QED
  BY <1>1, <1>3, <1>5, <1>6 DEF P

\* No transform comes before itself.
LEMMA BeforeOrder ==
    ASSUME NEW t, NEW u, Before(t, u)
    PROVE  /\ t # u
           /\ u = "fold_collapse" => t \in Early
           /\ t = "cache_packer" => u \in {"rolling_window", "budget_trim"}
           /\ t = "rolling_window" => u = "budget_trim"
           /\ t # "budget_trim"
           /\ t = "fold_inject" => u # "guideline_bank"
<1>1. PICK i \in 1 .. 16, j \in 1 .. 16 : i < j /\ t = PipelineOrder[i] /\ u = PipelineOrder[j]
  BY DEF Before
<1> QED
  BY <1>1, Order

\* Taking the first from the queue.
LEMMA QueueTail ==
    ASSUME NEW s, Queue(s), s # <<>>
    PROVE  /\ Queue(Tail(s)) /\ Range(s) = {Head(s)} \cup Range(Tail(s))
           /\ \A u \in Range(Tail(s)) : Before(Head(s), u)
           /\ Head(s) \in Range(PipelineOrder)
           /\ Len(s) \in Nat \ {0} /\ Len(Tail(s)) = Len(s) - 1
           /\ Tail(s) # <<>> => Tail(s)[Len(Tail(s))] = s[Len(s)]
           /\ Tail(s) = <<>> => Head(s) = s[Len(s)]
<1> DEFINE n == Len(s)
           r == Tail(s)
<1>1. PICK h : /\ IsSeq(s) /\ h \in [1 .. n -> 1 .. 16]
               /\ \A i, j \in 1 .. n : i < j => h[i] < h[j]
               /\ \A k \in 1 .. n : s[k] = PipelineOrder[h[k]]
  BY DEF Queue
<1>2. n \in Nat \ {0} /\ Head(s) = s[1] /\ DOMAIN s = 1 .. n
  BY <1>1 DEF IsSeq
<1>3. /\ r \in Seq(Range(s)) /\ Len(r) = n - 1 /\ DOMAIN r = 1 .. n - 1
      /\ \A k \in 1 .. n - 1 : r[k] = s[k + 1]
  BY <1>1 DEF IsSeq
<1>4. IsSeq(r)
  BY <1>3, AnySeq
<1> HIDE DEF r, n
<1> DEFINE g == [k \in 1 .. n - 1 |-> h[k + 1]]
<1>5. \A k \in 1 .. n - 1 : k + 1 \in 1 .. n /\ 1 < k + 1
  BY <1>2
<1>6. g \in [1 .. n - 1 -> 1 .. 16] /\ \A k \in 1 .. n - 1 : g[k] = h[k + 1]
  BY <1>1, <1>5
<1> HIDE DEF g
<1>7. \A i, j \in 1 .. n - 1 : i < j => g[i] < g[j]
  <2> SUFFICES ASSUME NEW i \in 1 .. n - 1, NEW j \in 1 .. n - 1, i < j PROVE g[i] < g[j]
    OBVIOUS
  <2>1. i + 1 < j + 1
    BY <1>2
  <2> QED
    BY <1>1, <1>5, <1>6, <2>1
<1>8. Queue(r)
  <2>1. \A k \in 1 .. n - 1 : r[k] = PipelineOrder[g[k]]
    BY <1>1, <1>3, <1>5, <1>6
  <2>2. Len(r) = n - 1 /\ g \in [1 .. n - 1 -> 1 .. 16]
    BY <1>3, <1>6
  <2>3. Len(r) \in Nat
    BY <1>2, <2>2
  <2> QED
    BY <1>4, <1>7, <2>1, <2>2, <2>3 DEF Queue
<1>9. Range(s) = {s[1]} \cup Range(r)
  <2>1. \A k \in 1 .. n : k = 1 \/ (k - 1 \in 1 .. n - 1 /\ (k - 1) + 1 = k)
    BY <1>2
  <2>2. 1 \in 1 .. n
    BY <1>2
  <2>3. ASSUME NEW x \in Range(s) PROVE x \in {s[1]} \cup Range(r)
    <3>1. PICK k \in 1 .. n : x = s[k]
      BY <1>2, <2>3 DEF Range
    <3>2. CASE k = 1
      BY <3>1, <3>2
    <3>3. CASE k # 1
      <4>1. k - 1 \in 1 .. n - 1 /\ r[k - 1] = x
        BY <1>3, <2>1, <3>1, <3>3
      <4> QED
        BY <1>3, <4>1 DEF Range
    <3> QED
      BY <3>2, <3>3
  <2>4. ASSUME NEW x \in Range(r) PROVE x \in Range(s)
    <3>1. PICK k \in 1 .. n - 1 : x = r[k]
      BY <1>3, <2>4 DEF Range
    <3>2. k + 1 \in 1 .. n /\ x = s[k + 1]
      BY <1>3, <1>5, <3>1
    <3> QED
      BY <1>2, <3>2 DEF Range
  <2>5. s[1] \in Range(s)
    BY <1>2, <2>2 DEF Range
  <2> QED
    BY <2>3, <2>4, <2>5
<1>10. ASSUME NEW u \in Range(r) PROVE Before(s[1], u)
  <2>1. PICK k \in 1 .. n - 1 : u = r[k]
    BY <1>3 DEF Range
  <2>2. h[1] < h[k + 1] /\ h[1] \in 1 .. 16 /\ h[k + 1] \in 1 .. 16
    BY <1>1, <1>2, <1>5
  <2>3. u = PipelineOrder[h[k + 1]] /\ s[1] = PipelineOrder[h[1]]
    BY <1>1, <1>2, <1>3, <1>5, <2>1
  <2> QED
    BY <2>2, <2>3 DEF Before
<1>11. s[1] \in Range(PipelineOrder)
  BY <1>1, <1>2, Order DEF Range
<1>12. r # <<>> => r[Len(r)] = s[n]
  <2> SUFFICES ASSUME r # <<>> PROVE r[n - 1] = s[n]
    BY <1>3
  <2>1. n - 1 # 0
    BY <1>3 DEF IsSeq
  <2>2. n - 1 \in 1 .. n - 1 /\ (n - 1) + 1 = n
    BY <1>2, <2>1
  <2> QED
    BY <1>3, <2>2
<1>13. r = <<>> => s[1] = s[n]
  BY <1>2, <1>3
<1> QED
  BY <1>2, <1>3, <1>8, <1>9, <1>10, <1>11, <1>12, <1>13 DEF r, n

-----------------------------------------------------------------------------
(* What holds of the blocks between transforms.                            *)

\* Nothing that is in the prefix gets lost.
Whole(o) == "cache_packer" \in o.on /\ o.on \cap Summarizers = {}

\* Only what the options ask for may drop blocks at will.
Asked(o, s) == \A t \in Summarizers \cup {"memory_prune", "bacm"} : t \in Range(s) => t \in o.on

\* Before fold_collapse all blocks stand where they stood, behind it the latest
\* fold of each branch is left.
Folded(bs, in, g, s) ==
    IF "fold_collapse" \in Range(s) THEN Sorted(bs, g) /\ Spares(bs, in, g, 1 .. Len(in))
    ELSE OnlyLatest(bs, in, g)

\* Where the blocks come from.
Origin(o, in, bs, s, g) ==
    /\ Trace(bs, in, g)
    /\ "bacm" \notin o.on => Aged(bs, in, g, "memory_prune" \in o.on)
    /\ Whole(o) => Keeps(bs, in, g, {"System"})
    /\ Whole(o) /\ "fold_collapse" \in o.on => Folded(bs, in, g, s)

\* The packer is still to come, or the prefix is in front when the window rolls.
PackedBefore(bs, s) ==
    \/ "cache_packer" \in Range(s)
    \/ /\ Range(s) \subseteq {"rolling_window", "budget_trim"}
       /\ "rolling_window" \in Range(s) => Packed(bs)

\* budget_trim has the last word.
TrimLast(o, bs, s) == \/ s = <<>> /\ Fits(bs, o)
                      \/ s # <<>> /\ s[Len(s)] = "budget_trim"

\* The blocks bs that were made of in, with the transforms of s still to run.
Midway(o, in, bs, s) ==
    /\ Queue(s) /\ Asked(o, s)
    /\ \E g : Origin(o, in, bs, s, g)
    /\ "cache_packer" \in o.on => PackedBefore(bs, s)
    /\ "budget_trim" \in o.on => TrimLast(o, bs, s)

\* The transforms that run are those of the pipeline, in its order.
LEMMA PipelineStart ==
    ASSUME NEW o, NEW records
    PROVE  LET s == BuildPipeline(o, records) IN
           /\ Queue(s) /\ Asked(o, s)
           /\ \A t \in {"fold_collapse", "cache_packer"} : t \in o.on => t \in Range(s)
           /\ records # <<>> => "fold_inject" \in Range(s)
           /\ "budget_trim" \in o.on => s # <<>> /\ s[Len(s)] = "budget_trim"
<1> DEFINE Runs(t) == CASE t = "fold_inject" -> records # <<>>
                        [] t = "consumed_result_mask" -> t \in o.on /\ o.mask
                        [] t = "summarization" -> t \in o.on /\ "llm_summarization" \notin o.on
                        [] OTHER -> t \in o.on
           P == PipelineOrder
           places == {k \in DOMAIN P : Runs(P[k])}
           s == At(P, places)
<1>1. BuildPipeline(o, records) = s
  BY DEF BuildPipeline
<1>2. /\ Len(P) = 16 /\ IsSeq(P) /\ DOMAIN P = 1 .. 16
      /\ P[4] = "fold_inject" /\ P[5] = "fold_collapse" /\ P[14] = "cache_packer" /\ P[16] = "budget_trim"
  BY Order
<1> HIDE DEF P
<1>3. \A t \in Summarizers \cup {"memory_prune", "bacm"} : Runs(t) => t \in o.on
  BY DEF Summarizers
<1>4. /\ \A t \in {"fold_collapse", "cache_packer", "budget_trim"} : t \in o.on => Runs(t)
      /\ records # <<>> => Runs("fold_inject")
  OBVIOUS
<1> HIDE DEF Runs
<1>5. PICK h : Picks(s, P, h, places, 16)
  BY <1>2, AtPicks
<1> HIDE DEF s
<1>6. /\ IsSeq(s) /\ Len(s) \in Nat /\ DOMAIN s = 1 .. Len(s) /\ h \in [1 .. Len(s) -> 1 .. 16]
      /\ \A i, j \in 1 .. Len(s) : i < j => h[i] < h[j]
      /\ \A k \in 1 .. Len(s) : h[k] \in places /\ s[k] = P[h[k]]
      /\ \A p \in 1 .. 16 : p \in places => \E k \in 1 .. Len(s) : h[k] = p
  BY <1>5, Shape DEF Picks
<1>7. Queue(s)
  BY <1>6 DEF Queue, P
<1>8. Asked(o, s)
  <2> SUFFICES ASSUME NEW t \in Summarizers \cup {"memory_prune", "bacm"}, t \in Range(s)
               PROVE  t \in o.on
    BY DEF Asked
  <2>1. PICK k \in 1 .. Len(s) : t = s[k]
    BY <1>6 DEF Range
  <2>2. Runs(t)
    BY <1>6, <2>1
  <2> QED
    BY <1>3, <2>2
<1>9. ASSUME NEW p \in 1 .. 16, Runs(P[p]) PROVE \E k \in 1 .. Len(s) : h[k] = p /\ s[k] = P[p]
  <2>1. p \in places
    BY <1>2, <1>9
  <2> HIDE DEF places
  <2>2. PICK k \in 1 .. Len(s) : h[k] = p
    BY <1>6, <2>1
  <2>3. s[k] = P[h[k]]
    BY <1>6
  <2> QED
    BY <2>2, <2>3
<1>10. ASSUME NEW t \in {"fold_inject", "fold_collapse", "cache_packer"}, Runs(t)
       PROVE  t \in Range(s)
  <2>1. \E p \in 1 .. 16 : P[p] = t
    BY <1>2
  <2>2. \E k \in 1 .. Len(s) : s[k] = t
    BY <1>9, <1>10, <2>1
  <2> QED
    BY <1>6, <2>2 DEF Range
<1>11. ASSUME "budget_trim" \in o.on PROVE s # <<>> /\ s[Len(s)] = "budget_trim"
  <2>1. PICK k \in 1 .. Len(s) : h[k] = 16 /\ s[k] = "budget_trim"
    BY <1>2, <1>4, <1>9, <1>11
  <2>2. k = Len(s)
    <3>1. k <= Len(s) /\ k \in Nat /\ Len(s) \in Nat /\ Len(s) \in 1 .. Len(s)
      BY <1>6
    <3>2. ASSUME k < Len(s) PROVE FALSE
      <4>1. h[k] < h[Len(s)] /\ h[Len(s)] \in 1 .. 16
        BY <1>6, <3>1, <3>2
      <4> QED
        BY <2>1, <4>1
    <3> QED
      BY <3>1, <3>2
  <2>3. Len(<<>>) = 0
    OBVIOUS
  <2> QED
    BY <1>6, <2>1, <2>2, <2>3
<1> QED
  BY <1>1, <1>4, <1>7, <1>8, <1>10, <1>11

\* Before the first transform.
LEMMA MidwayStart ==
    ASSUME NEW o, NEW records, NEW in, IsBlocks(in)
    PROVE  Midway(o, in, in, BuildPipeline(o, records))
<1> DEFINE s == BuildPipeline(o, records)
<1>1. /\ Queue(s) /\ Asked(o, s)
      /\ "fold_collapse" \in o.on => "fold_collapse" \in Range(s)
      /\ "cache_packer" \in o.on => "cache_packer" \in Range(s)
      /\ "budget_trim" \in o.on => s # <<>> /\ s[Len(s)] = "budget_trim"
  BY PipelineStart
<1> HIDE DEF s
<1>2. PICK g : /\ Trace(in, in, g) /\ Sorted(in, g) /\ Spares(in, in, g, 1 .. Len(in))
               /\ \A kinds : Keeps(in, in, g, kinds)
               /\ \A stale : Aged(in, in, g, stale)
  BY SameTrace
<1>3. Origin(o, in, in, s, g)
  BY <1>1, <1>2 DEF Origin, Folded
<1> QED
  BY <1>1, <1>3 DEF Midway, PackedBefore, TrimLast, s

\* Behind the next transform.
LEMMA MidwayStep ==
    ASSUME NEW o \in Options, NEW in, IsBlocks(in), FoldsOnly(in), NEW bs,
           NEW s, s # <<>>, Midway(o, in, bs, s),
           NEW records, IsSeq(records), Texts(Range(records))
    PROVE  Midway(o, in, Apply(Head(s), bs, o, records), Tail(s))
<1> DEFINE t == Head(s)
           r == Tail(s)
           cs == Apply(t, bs, o, records)
<1>1. Queue(s) /\ Asked(o, s)
  BY DEF Midway
<1>2. PICK g : Origin(o, in, bs, s, g)
  BY DEF Midway
<1>3. /\ Queue(r) /\ Range(s) = {t} \cup Range(r)
      /\ \A u \in Range(r) : Before(t, u)
      /\ r # <<>> => r[Len(r)] = s[Len(s)]
      /\ r = <<>> => t = s[Len(s)]
  BY <1>1, QueueTail
<1> HIDE DEF t, r
<1>4. /\ \A u \in Range(r) : /\ t # u
                             /\ u = "fold_collapse" => t \in Early
                             /\ t = "cache_packer" => u \in {"rolling_window", "budget_trim"}
                             /\ t = "rolling_window" => u = "budget_trim"
                             /\ t # "budget_trim"
  BY <1>3, BeforeOrder
<1>5. Trace(bs, in, g) /\ IsBlocks(bs)
  BY <1>2 DEF Origin, Trace
<1>6. FoldsOnly(bs)
  BY <1>5, FoldsStay
<1>7. PICK h : Moves(t, cs, bs, h, o)
  <2>1. t = "memory_prune" => "memory_prune" \in o.on
    BY <1>1, <1>3 DEF Asked
  <2> QED
    BY <1>5, <1>6, <2>1, ApplyMoves
<1>8. t = "cache_packer" => Packed(cs)
  <2> SUFFICES ASSUME t = "cache_packer" PROVE Packed(cs)
    OBVIOUS
  <2>1. cs = CachePack(bs)
    BY DEF Apply
  <2> QED
    BY <1>5, <2>1, PackTrace
<1>9. t = "budget_trim" => Fits(cs, o)
  <2> SUFFICES ASSUME t = "budget_trim" PROVE Fits(cs, o)
    OBVIOUS
  <2>1. cs = BudgetTrim(bs, o)
    BY DEF Apply
  <2> QED
    BY <1>5, <2>1, TrimTrace
<1> SUFFICES Midway(o, in, cs, r)
  BY DEF t, r
<1> HIDE DEF cs
<1> DEFINE f == Through(h, g, Len(cs))
<1>10. Trace(cs, bs, h) /\ Trace(cs, in, f)
  BY <1>5, <1>7, ThroughPlaces DEF Moves
<1> HIDE DEF f
<1>11. "cache_packer" \in o.on => PackedBefore(bs, s)
  BY DEF Midway
<1>12. ASSUME Whole(o)
       PROVE  Keeps(cs, bs, h, {"System"}) /\ (t # "fold_collapse" => Keeps(cs, bs, h, {"Summary"}))
  <2>1. t \notin Summarizers
    BY <1>1, <1>3, <1>12 DEF Asked, Whole
  <2>2. ASSUME t = "rolling_window" PROVE Packed(bs)
    <3>1. PackedBefore(bs, s)
      BY <1>11, <1>12 DEF Whole
    <3>2. "cache_packer" \notin Range(s)
      BY <1>3, <1>4, <2>2
    <3> QED
      BY <1>3, <2>2, <3>1, <3>2 DEF PackedBefore
  <2> QED
    BY <1>7, <2>1, <2>2 DEF Moves
<1>13. "bacm" \notin o.on => Aged(cs, in, f, "memory_prune" \in o.on)
  <2> SUFFICES ASSUME "bacm" \notin o.on PROVE Aged(cs, in, f, "memory_prune" \in o.on)
    OBVIOUS
  <2> DEFINE stale == "memory_prune" \in o.on
  <2>1. t # "bacm"
    BY <1>1, <1>3 DEF Asked
  <2>2. Aged(bs, in, g, stale) /\ Aged(cs, bs, h, stale)
    BY <1>2, <1>7, <2>1 DEF Origin, Moves
  <2> HIDE DEF stale
  <2>3. Aged(cs, in, f, stale)
    BY <1>5, <1>10, <2>2, AgedTwice DEF f
  <2> QED
    BY <2>3 DEF stale
<1>14. Whole(o) => Keeps(cs, in, f, {"System"})
  <2> SUFFICES ASSUME Whole(o) PROVE Keeps(cs, in, f, {"System"})
    OBVIOUS
  <2>1. Keeps(bs, in, g, {"System"}) /\ Keeps(cs, bs, h, {"System"})
    BY <1>2, <1>12 DEF Origin
  <2> QED
    BY <1>5, <1>10, <2>1, KeepsTwice DEF f
<1>15. Whole(o) /\ "fold_collapse" \in o.on => Folded(cs, in, f, r)
  <2> SUFFICES ASSUME Whole(o), "fold_collapse" \in o.on PROVE Folded(cs, in, f, r)
    OBVIOUS
  <2>1. Folded(bs, in, g, s)
    BY <1>2 DEF Origin
  <2>2. CASE "fold_collapse" \in Range(r)
    <3>1. t \in Early
      BY <1>4, <2>2
    <3>2. Sorted(cs, h) /\ Spares(cs, bs, h, 1 .. Len(bs))
      BY <1>7, <3>1 DEF Moves
    <3>3. Sorted(bs, g) /\ Spares(bs, in, g, 1 .. Len(in))
      BY <1>3, <2>1, <2>2 DEF Folded
    <3>4. Sorted(cs, f) /\ Spares(cs, in, f, 1 .. Len(in))
      BY <1>5, <1>10, <3>2, <3>3, AllTwice DEF f
    <3> QED
      BY <2>2, <3>4 DEF Folded
  <2>3. CASE t = "fold_collapse"
    <3>1. "fold_collapse" \notin Range(r)
      BY <1>4, <2>3
    <3>2. Spares(cs, bs, h, {i \in 1 .. Len(bs) : bs[i].branch = NoName \/ Latest(bs, i)})
      BY <1>7, <2>3 DEF Moves
    <3>3. Sorted(bs, g) /\ Spares(bs, in, g, 1 .. Len(in))
      BY <1>3, <2>1, <2>3 DEF Folded
    <3>4. OnlyLatest(cs, in, f)
      BY <1>5, <1>10, <3>2, <3>3, CollapseLatest DEF f
    <3> QED
      BY <3>1, <3>4 DEF Folded
  <2>4. CASE "fold_collapse" \notin Range(r) /\ t # "fold_collapse"
    <3>1. OnlyLatest(bs, in, g)
      BY <1>3, <2>1, <2>4 DEF Folded
    <3>2. Keeps(cs, bs, h, {"Summary"})
      BY <1>12, <2>4
    <3>3. OnlyLatest(cs, in, f)
      BY <1>5, <1>10, <3>1, <3>2, LatestTwice DEF f
    <3> QED
      BY <2>4, <3>3 DEF Folded
  <2> QED
    BY <2>2, <2>3, <2>4
<1>16. Origin(o, in, cs, r, f)
  BY <1>10, <1>13, <1>14, <1>15 DEF Origin
<1>17. ASSUME "cache_packer" \in o.on PROVE PackedBefore(cs, r)
  <2>1. PackedBefore(bs, s)
    BY <1>11, <1>17
  <2>2. CASE "cache_packer" \in Range(r)
    BY <2>2 DEF PackedBefore
  <2>3. CASE t = "cache_packer"
    BY <1>4, <1>8, <2>3 DEF PackedBefore
  <2>4. CASE "cache_packer" \notin Range(s)
    <3>1. t \in {"rolling_window", "budget_trim"} /\ Range(r) \subseteq {"rolling_window", "budget_trim"}
      BY <1>3, <2>1, <2>4 DEF PackedBefore
    <3>2. "rolling_window" \notin Range(r)
      BY <1>4, <3>1
    <3> QED
      BY <3>1, <3>2 DEF PackedBefore
  <2> QED
    BY <1>3, <2>2, <2>3, <2>4
<1>18. ASSUME "budget_trim" \in o.on PROVE TrimLast(o, cs, r)
  <2>1. s[Len(s)] = "budget_trim"
    BY <1>18 DEF Midway, TrimLast
  <2>2. CASE r = <<>>
    BY <1>3, <1>9, <2>1, <2>2 DEF TrimLast
  <2>3. CASE r # <<>>
    BY <1>3, <2>1, <2>3 DEF TrimLast
  <2> QED
    BY <2>2, <2>3
<1>19. Asked(o, r)
  BY <1>1, <1>3 DEF Asked
<1> QED
  BY <1>3, <1>16, <1>17, <1>18, <1>19 DEF Midway

\* What is in the queue is in the pipeline.
LEMMA QueueNames == ASSUME NEW s, Queue(s) PROVE Range(s) \subseteq Range(PipelineOrder)
<1>1. PICK h : /\ IsSeq(s) /\ h \in [1 .. Len(s) -> 1 .. 16]
               /\ \A k \in 1 .. Len(s) : s[k] = PipelineOrder[h[k]]
  BY DEF Queue
<1>2. DOMAIN s = 1 .. Len(s)
  BY <1>1, Shape
<1> QED
  BY <1>1, <1>2, Order DEF Range

-----------------------------------------------------------------------------
(* The inductive invariant: the blocks are midway from the transcript.     *)

CompileInv ==
    /\ messages \in Inputs /\ opts \in Options
    /\ pc \in {"parse", "run", "done"}
    /\ IsBlocks(blocks) /\ Range(todo) \subseteq Range(PipelineOrder)
    /\ answer.status \in {"none", "error", "sufficient", "insufficient"}
    /\ (pc = "done") <=> (answer.status # "none")
    /\ pc = "run" \/ Answered => /\ blocksIn = ParseTranscript(messages)
                                 /\ Midway(opts, blocksIn, blocks, todo)
    /\ Compiled => /\ todo = <<>> /\ answer.blocks = blocks
                   /\ opts.check => Slots \subseteq Corpus(blocks)
    /\ answer.status = "insufficient" => answer.blocks = blocksIn

\* The input as the transforms need it.
LEMMA InputBlocks ==
    ASSUME NEW ms \in Inputs
    PROVE  IsBlocks(ParseTranscript(ms)) /\ FoldsOnly(ParseTranscript(ms))
  BY TranscriptParsed DEF FoldsOnly, Parsed

LEMMA CompileStart == Init => CompileInv
<1> SUFFICES ASSUME Init PROVE CompileInv
  OBVIOUS
<1>1. IsBlocks(<<>>) /\ Range(<<>>) = {}
  BY DEF IsBlocks, IsSeq, Range
<1> QED
  BY <1>1 DEF Init, CompileInv, NoAnswer, Answered, Compiled

LEMMA CompileStep == CompileInv /\ [Next]_vars => CompileInv'
<1> SUFFICES ASSUME CompileInv, [Next]_vars PROVE CompileInv'
  OBVIOUS
<1>1. CASE Start
  <2> DEFINE in == ParseTranscript(messages)
             s == BuildPipeline(opts, Records(in))
  <2>1. /\ messages' = messages /\ opts' = opts /\ pc' = "run" /\ answer' = answer
        /\ blocksIn' = in /\ blocks' = in /\ todo' = s /\ pc = "parse"
    BY <1>1 DEF Start
  <2>2. IsBlocks(in)
    BY InputBlocks DEF CompileInv
  <2> HIDE DEF in
  <2>3. Midway(opts, in, in, s)
    BY <2>2, MidwayStart
  <2> HIDE DEF s
  <2>4. Range(s) \subseteq Range(PipelineOrder)
    BY <2>3, QueueNames DEF Midway
  <2>5. answer.status = "none"
    BY <2>1 DEF CompileInv
  <2> QED
    BY <2>1, <2>2, <2>3, <2>4, <2>5 DEF CompileInv, Answered, Compiled, in
<1>2. CASE Invalid
  <2>1. /\ pc' = "done" /\ answer'.status = "error"
        /\ UNCHANGED <<messages, opts, blocksIn, blocks, todo>>
    BY <1>2 DEF Invalid, Answer
  <2> QED
    BY <2>1 DEF CompileInv, Answered, Compiled
<1>3. CASE Transform
  <2> DEFINE s == todo
             cs == Apply(Head(todo), blocks, opts, Records(blocksIn))
  <2>1. /\ pc = "run" /\ todo # <<>> /\ blocks' = cs /\ todo' = Tail(todo)
        /\ UNCHANGED <<messages, opts, blocksIn, pc, answer>>
    BY <1>3 DEF Transform
  <2>2. /\ opts \in Options /\ messages \in Inputs /\ blocksIn = ParseTranscript(messages)
        /\ Midway(opts, blocksIn, blocks, todo)
    BY <2>1 DEF CompileInv
  <2>3. IsBlocks(blocksIn) /\ FoldsOnly(blocksIn)
    BY <2>2, InputBlocks
  <2>4. IsSeq(Records(blocksIn)) /\ Texts(Range(Records(blocksIn)))
    BY <2>2, RecordsTexts
  <2>5. Midway(opts, blocksIn, cs, Tail(todo))
    <3> DEFINE records == Records(blocksIn)
    <3> HIDE DEF records
    <3>1. Midway(opts, blocksIn, Apply(Head(todo), blocks, opts, records), Tail(todo))
      BY <2>1, <2>2, <2>3, <2>4, MidwayStep DEF records
    <3> QED
      BY <3>1 DEF records
  <2> HIDE DEF cs
  <2>6. Range(Tail(todo)) \subseteq Range(PipelineOrder) /\ IsBlocks(cs)
    BY <2>5, QueueNames DEF Midway, Origin, Trace
  <2>7. answer.status = "none"
    BY <2>1 DEF CompileInv
  <2> QED
    BY <2>1, <2>2, <2>5, <2>6, <2>7 DEF CompileInv, Answered, Compiled
<1>4. CASE PutFails
  <2>1. /\ pc' = "done" /\ answer'.status = "error"
        /\ UNCHANGED <<messages, opts, blocksIn, blocks, todo>>
    BY <1>4 DEF PutFails, Answer
  <2> QED
    BY <2>1 DEF CompileInv, Answered, Compiled
<1>5. CASE Sufficient
  <2>1. /\ pc = "run" /\ todo = <<>> /\ Missing = {} /\ pc' = "done"
        /\ answer' = [status |-> "sufficient", blocks |-> blocks]
        /\ UNCHANGED <<messages, opts, blocksIn, blocks, todo, stored>>
    BY <1>5 DEF Sufficient, Answer
  <2>2. answer'.status = "sufficient" /\ answer'.blocks = blocks
    BY <2>1
  <2>3. opts.check => Slots \subseteq Corpus(blocks)
    BY <2>1 DEF Missing
  <2>4. (opts.check => Slots \subseteq Corpus(blocks))'
    BY <2>1, <2>3 DEF Slots
  <2> QED
    BY <2>1, <2>2, <2>4 DEF CompileInv, Answered, Compiled
<1>6. CASE PassThrough
  <2>1. /\ pc = "run" /\ pc' = "done"
        /\ answer' = [status |-> "insufficient", blocks |-> blocksIn]
        /\ UNCHANGED <<messages, opts, blocksIn, blocks, todo, stored>>
    BY <1>6 DEF PassThrough, Answer
  <2>2. answer'.status = "insufficient" /\ answer'.blocks = blocksIn
    BY <2>1
  <2> QED
    BY <2>1, <2>2 DEF CompileInv, Answered, Compiled
<1>7. CASE Reject
  <2>1. /\ pc' = "done" /\ answer'.status = "error"
        /\ UNCHANGED <<messages, opts, blocksIn, blocks, todo>>
    BY <1>7 DEF Reject, Answer
  <2> QED
    BY <2>1 DEF CompileInv, Answered, Compiled
<1>8. CASE UNCHANGED vars
  BY <1>8 DEF vars, CompileInv, Answered, Compiled, Slots
<1> QED
  BY <1>1, <1>2, <1>3, <1>4, <1>5, <1>6, <1>7, <1>8 DEF Next

\* From the start the blocks are midway from the transcript to the answer.
THEOREM CompileInvariant == Spec => []CompileInv
  BY CompileStart, CompileStep, PTL DEF Spec

\* Every variable has its type in every state, the texts of all blocks show
\* their own facts, and there is an answer exactly when the call is done.
THEOREM CompileTypeCorrect == Spec => []TypeOK
<1>1. CompileInv => TypeOK
  <2> SUFFICES ASSUME CompileInv PROVE TypeOK
    OBVIOUS
  <2>1. \A i \in DOMAIN blocks : blocks[i].text.head \subseteq blocks[i].text.facts
    BY BlocksShape DEF CompileInv, IsBlock
  <2> QED
    BY <2>1 DEF CompileInv, TypeOK
<1> QED
  BY <1>1, CompileInvariant, PTL

\* Whatever the pipeline did, the paths the recent turns of the input name can
\* be read in the messages of the answer, compiled or passed through.
THEOREM ReferentsReadable == Spec => []ReferentsDelivered
<1>1. CompileInv => ReferentsDelivered
  <2> SUFFICES ASSUME CompileInv, Answered, opts.check, opts.slots = {}, opts.infer
               PROVE  InferSlots(blocksIn) \cap Paths \subseteq Readable(Delivered)
    BY DEF ReferentsDelivered
  <2>1. Readable(Delivered) = Corpus(answer.blocks)
    BY DEF Readable, Delivered, BlocksToMessages, Corpus
  <2>2. CASE Compiled
    <3>1. answer.blocks = blocks /\ Slots \subseteq Corpus(blocks) /\ Slots = InferSlots(blocksIn)
      BY <2>2 DEF CompileInv, Slots
    <3> QED
      BY <2>1, <3>1
  <2>3. CASE answer.status = "insufficient"
    <3>1. answer.blocks = blocksIn
      BY <2>3 DEF CompileInv
    <3>2. \A b : Referents(b) \cap Paths \subseteq b.text.facts
      BY FactsAssumption DEF Referents
    <3>3. InferSlots(blocksIn) \cap Paths \subseteq Corpus(blocksIn)
      BY <3>2 DEF InferSlots, Corpus
    <3> QED
      BY <2>1, <3>1, <3>3
  <2> QED
    BY <2>2, <2>3 DEF Answered, Compiled
<1> QED
  BY <1>1, CompileInvariant, PTL

\* A compiled context is over its budget only when budget_trim has nothing left
\* it may take: every block is protected or already a reference.
THEOREM BudgetKept == Spec => []BudgetHonoured
<1>1. CompileInv => BudgetHonoured
  BY DEF CompileInv, BudgetHonoured, Compiled, Answered, Midway, TrimLast, Fits
<1> QED
  BY <1>1, CompileInvariant, PTL

\* With the packer in front of the window and no summariser, no system message
\* of the input is missing from a compiled context.
THEOREM SystemsKept == Spec => []SystemKept
<1>1. CompileInv => SystemKept
  <2> SUFFICES ASSUME CompileInv, Compiled, "cache_packer" \in opts.on,
                      opts.on \cap {"summarization", "llm_summarization"} = {},
                      NEW p \in DOMAIN blocksIn, blocksIn[p].kind = "System"
               PROVE  Survives(blocksIn[p])
    BY DEF SystemKept
  <2>1. /\ blocksIn = ParseTranscript(messages) /\ messages \in Inputs
        /\ Midway(opts, blocksIn, blocks, todo) /\ answer.blocks = blocks
    BY DEF CompileInv, Compiled, Answered
  <2>2. IsBlocks(blocksIn)
    BY <2>1, InputBlocks
  <2>3. Whole(opts)
    BY DEF Whole, Summarizers
  <2>4. PICK g : Trace(blocks, blocksIn, g) /\ Keeps(blocks, blocksIn, g, {"System"})
    BY <2>1, <2>3 DEF Midway, Origin
  <2>5. DOMAIN blocksIn = 1 .. Len(blocksIn) /\ DOMAIN blocks = 1 .. Len(blocks)
    BY <2>2, <2>4, BlocksShape DEF Trace
  <2>6. PICK k \in 1 .. Len(blocks) : g[k] = p
    BY <2>4, <2>5 DEF Keeps
  <2>7. blocks[k].id = blocksIn[p].id
    <3>1. p # 0
      BY <2>5
    <3> QED
      BY <2>4, <2>6, <3>1 DEF Trace, Comes
  <2> QED
    BY <2>1, <2>5, <2>7 DEF Survives
<1> QED
  BY <1>1, CompileInvariant, PTL

-----------------------------------------------------------------------------
(* What needs the ids of a transcript to be distinct.                      *)

\* A block of the answer with the id of an input block comes from it.
LEMMA SameId ==
    ASSUME DistinctIds, NEW ms \in Inputs, NEW in, in = ParseTranscript(ms),
           NEW bs, NEW g, Trace(bs, in, g),
           NEW k \in DOMAIN bs, NEW p \in DOMAIN in, bs[k].id = in[p].id
    PROVE  k \in 1 .. Len(bs) /\ p \in 1 .. Len(in) /\ g[k] = p /\ Comes(bs[k], in[p])
<1>1. IsBlocks(in) /\ \A i \in DOMAIN in : Parsed(in[i])
  BY TranscriptParsed
<1>2. DOMAIN in = 1 .. Len(in) /\ DOMAIN bs = 1 .. Len(bs) /\ Len(in) \in Nat /\ Len(bs) \in Nat
  BY <1>1, BlocksShape DEF Trace
<1>3. g[k] # 0
  <2>1. bs[k].id[1] \notin MadeTags
    BY <1>1 DEF Parsed
  <2> QED
    BY <1>2, <2>1 DEF Trace, Made
<1>4. g[k] \in DOMAIN in /\ Comes(bs[k], in[g[k]])
  BY <1>2, <1>3 DEF Trace
<1>5. in[g[k]].id = in[p].id
  BY <1>4 DEF Comes
<1>6. g[k] = p
  BY <1>4, <1>5 DEF DistinctIds
<1> QED
  BY <1>2, <1>4, <1>6

\* Of the handoffs of a branch a compiled context holds the latest and no other.
THEOREM LatestFoldsKept == ASSUME DistinctIds PROVE Spec => []LatestFoldKept
<1>1. CompileInv => LatestFoldKept
  <2> SUFFICES ASSUME CompileInv, Compiled, {"fold_collapse", "cache_packer"} \subseteq opts.on,
                      opts.on \cap {"summarization", "llm_summarization"} = {},
                      NEW p \in DOMAIN blocksIn, blocksIn[p].branch # NoName
               PROVE  Survives(blocksIn[p]) <=> Latest(blocksIn, p)
    BY DEF LatestFoldKept, Latest
  <2>1. /\ blocksIn = ParseTranscript(messages) /\ messages \in Inputs
        /\ Midway(opts, blocksIn, blocks, todo) /\ answer.blocks = blocks /\ todo = <<>>
    BY DEF CompileInv, Compiled, Answered
  <2>2. Whole(opts) /\ "fold_collapse" \in opts.on
    BY DEF Whole, Summarizers
  <2>3. PICK g : Trace(blocks, blocksIn, g) /\ Folded(blocks, blocksIn, g, todo)
    BY <2>1, <2>2 DEF Midway, Origin
  <2>4. OnlyLatest(blocks, blocksIn, g)
    BY <2>1, <2>3 DEF Folded, Range
  <2>5. IsBlocks(blocksIn) /\ IsBlocks(blocks)
    BY <2>1, <2>3, InputBlocks DEF Trace
  <2>6. DOMAIN blocksIn = 1 .. Len(blocksIn) /\ DOMAIN blocks = 1 .. Len(blocks) /\ p # 0
    BY <2>5, BlocksShape
  <2>7. ASSUME Survives(blocksIn[p]) PROVE \E k \in 1 .. Len(blocks) : g[k] = p
    <3>1. PICK k \in DOMAIN blocks : blocks[k].id = blocksIn[p].id
      BY <2>1, <2>7 DEF Survives
    <3> QED
      BY <2>1, <2>3, <3>1, SameId
  <2>8. ASSUME NEW k \in 1 .. Len(blocks), g[k] = p PROVE Survives(blocksIn[p])
    <3>1. blocks[k].id = blocksIn[p].id
      BY <2>3, <2>6, <2>8 DEF Trace, Comes
    <3> QED
      BY <2>1, <2>6, <3>1 DEF Survives
  <2> QED
    BY <2>4, <2>6, <2>7, <2>8 DEF OnlyLatest
<1> QED
  BY <1>1, CompileInvariant, PTL

\* Room is made from the old end: behind a block of the conversation that is
\* still there as it was, every later one is there too, but for fillers and for
\* results that memory_prune finds stale.
THEOREM OldestGoFirst == ASSUME DistinctIds PROVE Spec => []OldestFirst
<1>1. CompileInv => OldestFirst
  <2> SUFFICES ASSUME CompileInv, Compiled, "bacm" \notin opts.on,
                      NEW p \in DOMAIN blocksIn, NEW q \in DOMAIN blocksIn, p < q,
                      NEW k \in DOMAIN answer.blocks, answer.blocks[k].id = blocksIn[p].id,
                      Trimmable(answer.blocks[k]), blocksIn[q].kind \notin Protected,
                      Filler \notin blocksIn[q].text.facts,
                      "memory_prune" \in opts.on => blocksIn[q].kind # "ToolResult"
               PROVE  Survives(blocksIn[q])
    BY DEF OldestFirst
  <2>1. /\ blocksIn = ParseTranscript(messages) /\ messages \in Inputs
        /\ Midway(opts, blocksIn, blocks, todo) /\ answer.blocks = blocks
    BY DEF CompileInv, Compiled, Answered
  <2> DEFINE stale == "memory_prune" \in opts.on
  <2>2. PICK g : Trace(blocks, blocksIn, g) /\ Aged(blocks, blocksIn, g, stale)
    BY <2>1 DEF Midway, Origin
  <2>3. k \in 1 .. Len(blocks) /\ g[k] = p
    BY <2>1, <2>2, SameId
  <2>4. IsBlocks(blocksIn) /\ IsBlocks(blocks)
    BY <2>1, <2>2, InputBlocks DEF Trace
  <2>5. DOMAIN blocksIn = 1 .. Len(blocksIn) /\ DOMAIN blocks = 1 .. Len(blocks) /\ q # 0
    BY <2>4, BlocksShape
  <2>6. \E j \in 1 .. Len(blocks) : g[j] = q
    BY <2>1, <2>2, <2>3, <2>5 DEF Aged, Talks
  <2>7. PICK j \in 1 .. Len(blocks) : g[j] = q
    BY <2>6
  <2>8. blocks[j].id = blocksIn[q].id
    BY <2>2, <2>5, <2>7 DEF Trace, Comes
  <2> QED
    BY <2>1, <2>5, <2>8 DEF Survives
<1> QED
  BY <1>1, CompileInvariant, PTL

\* f lists n numbers from the smallest up; all that it lists, g lists too.
Enumerates(n, f) == /\ n \in Nat /\ f \in [1 .. n -> Nat]
                    /\ \A i, j \in 1 .. n : i < j => f[i] < f[j]
Covers(m, f, n, g) == \A i \in 1 .. m : \E j \in 1 .. n : g[j] = f[i]

\* A number before another is not it, nor after it.
LEMMA NotBefore == ASSUME NEW x \in Nat, NEW y \in Nat, x < y PROVE x # y /\ ~(y < x)
  OBVIOUS

\* Two increasing enumerations of the same numbers are equal.
LEMMA SameEnumeration ==
    ASSUME NEW m, NEW n, NEW f, NEW g, Enumerates(m, f), Enumerates(n, g),
           Covers(m, f, n, g), Covers(n, g, m, f)
    PROVE  m = n /\ \A i \in 1 .. m : f[i] = g[i]
<1>0. /\ m \in Nat /\ n \in Nat /\ f \in [1 .. m -> Nat] /\ g \in [1 .. n -> Nat]
      /\ \A i, j \in 1 .. m : i < j => f[i] < f[j]
      /\ \A i, j \in 1 .. n : i < j => g[i] < g[j]
      /\ \A i \in 1 .. m : \E j \in 1 .. n : g[j] = f[i]
      /\ \A j \in 1 .. n : \E i \in 1 .. m : f[i] = g[j]
  BY DEF Enumerates, Covers
<1> DEFINE l == IF m <= n THEN m ELSE n
           S == {k \in 0 .. l : \A i \in 1 .. k : f[i] = g[i]}
<1>1. l \in Nat /\ l <= m /\ l <= n /\ (l = m \/ l = n)
  BY <1>0
<1> HIDE DEF l
<1>2. 0 \in S
  BY <1>0, <1>1
<1>3. ASSUME NEW k \in 0 .. l - 1, k \in S PROVE k + 1 \in S
  <2>1. k + 1 \in 1 .. m /\ k + 1 \in 1 .. n /\ k + 1 \in 0 .. l /\ \A i \in 1 .. k : f[i] = g[i]
    BY <1>0, <1>1, <1>3
  <2>2. PICK j \in 1 .. n : g[j] = f[k + 1]
    BY <1>0, <2>1
  <2>3. PICK i \in 1 .. m : f[i] = g[k + 1]
    BY <1>0, <2>1
  <2>4. ~(j < k + 1)
    <3> SUFFICES ASSUME j < k + 1 PROVE FALSE
      OBVIOUS
    <3>1. j \in 1 .. k /\ j \in 1 .. m
      BY <1>0, <1>1, <2>1
    <3>2. f[j] < f[k + 1] /\ f[j] = g[j] /\ f[j] \in Nat
      BY <1>0, <2>1, <3>1
    <3> QED
      BY <1>0, <2>1, <2>2, <3>2
  <2>5. ~(i < k + 1)
    <3> SUFFICES ASSUME i < k + 1 PROVE FALSE
      OBVIOUS
    <3>1. i \in 1 .. k /\ i \in 1 .. n
      BY <1>0, <1>1, <2>1
    <3>2. g[i] < g[k + 1] /\ f[i] = g[i] /\ g[i] \in Nat
      BY <1>0, <2>1, <3>1
    <3> QED
      BY <1>0, <2>1, <2>3, <3>2
  <2>6. f[k + 1] = g[k + 1]
    <3>1. j = k + 1 \/ k + 1 < j
      BY <1>0, <2>1, <2>4
    <3>2. i = k + 1 \/ k + 1 < i
      BY <1>0, <2>1, <2>5
    <3>3. ASSUME k + 1 < j PROVE FALSE
      <4>1. g[k + 1] < g[j]
        BY <1>0, <2>1, <3>3
      <4>2. f[i] < f[k + 1]
        BY <1>0, <2>2, <2>3, <4>1
      <4>3. f[i] \in Nat /\ f[k + 1] \in Nat
        BY <1>0, <2>1
      <4>4. f[i] # f[k + 1] /\ ~(f[k + 1] < f[i])
        BY <1>0, <4>2, <4>3, NotBefore
      <4>5. k + 1 < i
        BY <1>0, <3>2, <4>4
      <4>6. f[k + 1] < f[i]
        BY <1>0, <2>1, <4>5
      <4> QED
        BY <1>0, <4>4, <4>6
    <3> QED
      BY <1>0, <2>2, <3>1, <3>3
  <2>7. \A x \in 1 .. k + 1 : x \in 1 .. k \/ x = k + 1
    BY <1>0, <2>1
  <2> QED
    BY <1>0, <2>1, <2>6, <2>7
<1>4. \A i \in 1 .. l : f[i] = g[i]
  <2>1. \A k \in 0 .. l : k \in S
    <3> HIDE DEF S
    <3> QED
      BY <1>0, <1>1, <1>2, <1>3, UpTo
  <2>2. l \in S
    <3> HIDE DEF S
    <3>1. l \in 0 .. l
      BY <1>0, <1>1
    <3> QED
      BY <1>0, <2>1, <3>1
  <2> QED
    BY <1>0, <2>2
<1>5. m = n
  <2>1. ASSUME m < n PROVE FALSE
    <3>1. l = m /\ m + 1 \in 1 .. n
      BY <1>0, <1>1, <2>1
    <3>2. PICK i \in 1 .. m : f[i] = g[m + 1]
      BY <1>0, <3>1
    <3>3. g[i] = g[m + 1] /\ i \in 1 .. n /\ i < m + 1
      BY <1>0, <1>4, <3>1, <3>2
    <3> QED
      BY <1>0, <3>1, <3>3
  <2>2. ASSUME n < m PROVE FALSE
    <3>1. l = n /\ n + 1 \in 1 .. m
      BY <1>0, <1>1, <2>2
    <3>2. PICK j \in 1 .. n : g[j] = f[n + 1]
      BY <1>0, <3>1
    <3>3. f[j] = f[n + 1] /\ j \in 1 .. m /\ j < n + 1
      BY <1>0, <1>4, <3>1, <3>2
    <3> QED
      BY <1>0, <3>1, <3>3
  <2> QED
    BY <1>0, <2>1, <2>2
<1> QED
  BY <1>0, <1>1, <1>4, <1>5

\* The blocks of the conversation in bs are those of in that are still there, in order.
LEMMA TalkInOrder ==
    ASSUME DistinctIds, NEW ms \in Inputs, NEW in, in = ParseTranscript(ms),
           NEW bs, NEW g, Trace(bs, in, g)
    PROVE  LET Talk(xs) == {i \in DOMAIN xs : xs[i].kind \notin Protected}
               Kept == {i \in Talk(in) : \E k \in DOMAIN bs : bs[k].id = in[i].id}
           IN Ids(At(bs, Talk(bs))) = Ids(At(in, Kept))
<1> DEFINE Talk(xs) == {i \in DOMAIN xs : xs[i].kind \notin Protected}
           Kept == {i \in Talk(in) : \E k \in DOMAIN bs : bs[k].id = in[i].id}
           T == Talk(bs)
           a == At(bs, T)
           b == At(in, Kept)
<1>1. IsBlocks(in) /\ IsBlocks(bs)
  BY InputBlocks DEF Trace
<1>2. /\ DOMAIN in = 1 .. Len(in) /\ DOMAIN bs = 1 .. Len(bs) /\ Len(in) \in Nat /\ Len(bs) \in Nat
      /\ IsSeq(in) /\ IsSeq(bs)
  BY <1>1, BlocksShape
<1>3. \A k \in 1 .. Len(bs) : k \in T <=> Talks(bs[k])
  BY <1>2 DEF Talks
<1>4. \A p \in 1 .. Len(in) :
         p \in Kept <=> Talks(in[p]) /\ \E k \in 1 .. Len(bs) : bs[k].id = in[p].id
  BY <1>2 DEF Talks
<1> HIDE DEF T, Kept
<1>5. PICK u : Picks(a, bs, u, T, Len(bs))
  BY <1>2, AtPicks
<1>6. PICK v : Picks(b, in, v, Kept, Len(in))
  BY <1>2, AtPicks
<1> HIDE DEF a, b
<1>7. /\ Len(a) \in Nat /\ DOMAIN a = 1 .. Len(a) /\ u \in [1 .. Len(a) -> 1 .. Len(bs)]
      /\ \A i, j \in 1 .. Len(a) : i < j => u[i] < u[j]
      /\ \A k \in 1 .. Len(a) : u[k] \in T /\ a[k] = bs[u[k]]
      /\ \A p \in 1 .. Len(bs) : p \in T => \E k \in 1 .. Len(a) : u[k] = p
  BY <1>5, Shape DEF Picks
<1>8. /\ Len(b) \in Nat /\ DOMAIN b = 1 .. Len(b) /\ v \in [1 .. Len(b) -> 1 .. Len(in)]
      /\ \A i, j \in 1 .. Len(b) : i < j => v[i] < v[j]
      /\ \A k \in 1 .. Len(b) : v[k] \in Kept /\ b[k] = in[v[k]]
      /\ \A p \in 1 .. Len(in) : p \in Kept => \E k \in 1 .. Len(b) : v[k] = p
  BY <1>6, Shape DEF Picks
<1>9. ASSUME NEW k \in 1 .. Len(bs), Talks(bs[k])
      PROVE  g[k] \in 1 .. Len(in) /\ g[k] \in Kept /\ bs[k].id = in[g[k]].id
  <2>1. g[k] # 0
    BY <1>9 DEF Trace, Made, Talks, Protected
  <2>2. g[k] \in 1 .. Len(in) /\ Comes(bs[k], in[g[k]])
    BY <1>2, <2>1 DEF Trace
  <2> QED
    BY <1>4, <1>9, <2>2 DEF Comes, Talks
<1> DEFINE w == [k \in 1 .. Len(a) |-> g[u[k]]]
<1>10. \A k \in 1 .. Len(a) : /\ u[k] \in 1 .. Len(bs) /\ Talks(bs[u[k]])
                              /\ w[k] = g[u[k]] /\ w[k] \in 1 .. Len(in) /\ w[k] \in Kept
                              /\ a[k].id = in[w[k]].id
  BY <1>3, <1>7, <1>9
<1>11. w \in [1 .. Len(a) -> Nat]
  BY <1>10
<1> HIDE DEF w
<1>12. \A i, j \in 1 .. Len(a) : i < j => w[i] < w[j]
  <2> SUFFICES ASSUME NEW i \in 1 .. Len(a), NEW j \in 1 .. Len(a), i < j PROVE g[u[i]] < g[u[j]]
    BY <1>10
  <2>1. u[i] < u[j] /\ u[i] \in 1 .. Len(bs) /\ u[j] \in 1 .. Len(bs)
    BY <1>7
  <2>2. Talks(bs[u[i]]) /\ Talks(bs[u[j]])
    BY <1>10
  <2>3. \A x, y \in 1 .. Len(bs) : x < y /\ Talks(bs[x]) /\ Talks(bs[y]) => g[x] < g[y]
    BY <1>9 DEF Trace
  <2> QED
    BY <2>1, <2>2, <2>3
<1>13. \A i \in 1 .. Len(a) : \E j \in 1 .. Len(b) : v[j] = w[i]
  BY <1>8, <1>10
<1>14. ASSUME NEW j \in 1 .. Len(b) PROVE \E i \in 1 .. Len(a) : w[i] = v[j]
  <2>1. v[j] \in 1 .. Len(in) /\ v[j] \in Kept
    BY <1>8
  <2>2. PICK k \in 1 .. Len(bs) : bs[k].id = in[v[j]].id
    BY <1>4, <2>1
  <2>3. g[k] = v[j] /\ Comes(bs[k], in[v[j]])
    BY <1>2, <2>1, <2>2, SameId
  <2>4. k \in T
    BY <1>3, <1>4, <2>1, <2>3 DEF Comes, Talks
  <2>5. PICK i \in 1 .. Len(a) : u[i] = k
    BY <1>7, <2>4
  <2> QED
    BY <1>10, <2>3, <2>5
<1>15. v \in [1 .. Len(b) -> Nat]
  BY <1>8
<1>16. Len(a) = Len(b) /\ \A i \in 1 .. Len(a) : w[i] = v[i]
  <2> DEFINE m == Len(a)
             n == Len(b)
  <2>1. m \in Nat /\ n \in Nat /\ w \in [1 .. m -> Nat] /\ v \in [1 .. n -> Nat]
    BY <1>7, <1>8, <1>11, <1>15
  <2>2. \A i, j \in 1 .. n : i < j => v[i] < v[j]
    BY <1>8
  <2>3. \A i, j \in 1 .. m : i < j => w[i] < w[j]
    BY <1>12
  <2>4. \A i \in 1 .. m : \E j \in 1 .. n : v[j] = w[i]
    BY <1>13
  <2>5. \A j \in 1 .. n : \E i \in 1 .. m : w[i] = v[j]
    BY <1>14
  <2>6. Enumerates(m, w) /\ Enumerates(n, v)
    BY <2>1, <2>2, <2>3 DEF Enumerates
  <2>7. Covers(m, w, n, v) /\ Covers(n, v, m, w)
    BY <2>4, <2>5 DEF Covers
  <2> HIDE DEF m, n
  <2>8. m = n /\ \A i \in 1 .. m : w[i] = v[i]
    BY <2>6, <2>7, SameEnumeration
  <2> QED
    BY <2>8 DEF m, n
<1>17. \A i \in 1 .. Len(a) : a[i].id = b[i].id
  BY <1>8, <1>10, <1>16
<1>18. Ids(a) = Ids(b)
  BY <1>7, <1>8, <1>16, <1>17 DEF Ids
<1> QED
  BY <1>18 DEF a, b, T, Kept

\* No transform duplicates a block of the conversation or moves one past another:
\* the talk of every answer is what is left of the talk of the input, in order.
THEOREM SurvivorsOrdered == ASSUME DistinctIds PROVE Spec => []SurvivorsInOrder
<1>1. CompileInv => SurvivorsInOrder
  <2> SUFFICES ASSUME CompileInv, Answered PROVE SurvivorsInOrder
    BY DEF SurvivorsInOrder
  <2>1. /\ blocksIn = ParseTranscript(messages) /\ messages \in Inputs
        /\ Midway(opts, blocksIn, blocks, todo)
        /\ answer.blocks = blocks \/ answer.blocks = blocksIn
    BY DEF CompileInv, Compiled, Answered
  <2>2. \E g : Trace(answer.blocks, blocksIn, g)
    BY <2>1, InputBlocks, SameTrace DEF Midway, Origin
  <2> QED
    BY <2>1, <2>2, TalkInOrder DEF SurvivorsInOrder, Survives
<1> QED
  BY <1>1, CompileInvariant, PTL
-----------------------------------------------------------------------------
(* What was moved to cold storage can be read there.                        *)

\* Every block of cs is one of bs as it was, or was made.
Drawn(cs, bs) ==
    /\ IsBlocks(cs)
    /\ \A k \in 1 .. Len(cs) : Made(cs[k]) \/ \E i \in 1 .. Len(bs) : cs[k] = bs[i]

LEMMA DrawnTrace ==
    ASSUME NEW bs, NEW cs, NEW g, Trace(cs, bs, g), Verbatim(cs, bs, g), Len(bs) \in Nat
    PROVE  Drawn(cs, bs)
<1>1. ASSUME NEW k \in 1 .. Len(cs), g[k] # 0 PROVE \E i \in 1 .. Len(bs) : cs[k] = bs[i]
  <2>1. g[k] \in 1 .. Len(bs) /\ cs[k] = bs[g[k]]
    BY <1>1 DEF Trace, Verbatim
  <2> QED
    BY <2>1
<1>2. \A k \in 1 .. Len(cs) : g[k] = 0 => Made(cs[k])
  BY DEF Trace
<1> QED
  BY <1>1, <1>2 DEF Drawn, Trace

LEMMA DrawnSelf == ASSUME NEW bs, IsBlocks(bs) PROVE Drawn(bs, bs)
  BY DEF Drawn

LEMMA DrawnPick == ASSUME NEW bs, IsBlocks(bs), NEW places PROVE Drawn(At(bs, places), bs)
<1> DEFINE cs == At(bs, places)
<1>1. PICK g : Trace(cs, bs, g) /\ Verbatim(cs, bs, g)
  BY PickTrace
<1>2. Len(bs) \in Nat
  BY BlocksShape
<1> HIDE DEF cs
<1>3. Drawn(cs, bs)
  BY <1>1, <1>2, DrawnTrace
<1> QED
  BY <1>3 DEF cs

LEMMA DrawnConcat ==
    ASSUME NEW bs, NEW cs, NEW ds, Drawn(cs, bs), Drawn(ds, bs)
    PROVE  Drawn(cs \o ds, bs)
<1>1. /\ IsSeq(cs) /\ Len(cs) \in Nat /\ IsSeq(ds) /\ Len(ds) \in Nat
  BY BlocksShape DEF Drawn
<1> DEFINE V == Range(cs) \cup Range(ds)
<1>2. cs \in Seq(V) /\ ds \in Seq(V)
  <2>1. cs \in Seq(Range(cs)) /\ ds \in Seq(Range(ds)) /\ Range(cs) \subseteq V /\ Range(ds) \subseteq V
    BY <1>1 DEF IsSeq
  <2> HIDE DEF V
  <2> QED
    BY <2>1
<1> HIDE DEF V
<1>3. /\ cs \o ds \in Seq(V) /\ Len(cs \o ds) = Len(cs) + Len(ds)
      /\ \A k \in 1 .. Len(cs) + Len(ds) : (cs \o ds)[k] = IF k <= Len(cs) THEN cs[k] ELSE ds[k - Len(cs)]
  BY <1>2, ConcatProperties
<1>4. \A k \in 1 .. Len(cs) + Len(ds) :
         IF k <= Len(cs) THEN k \in 1 .. Len(cs) ELSE k - Len(cs) \in 1 .. Len(ds)
  BY <1>1
<1>5. \A k \in 1 .. Len(cs \o ds) : IsBlock((cs \o ds)[k])
  <2>1. (\A k \in 1 .. Len(cs) : IsBlock(cs[k])) /\ \A k \in 1 .. Len(ds) : IsBlock(ds[k])
    BY BlocksShape DEF Drawn
  <2> QED
    BY <1>3, <1>4, <2>1
<1>6. \A k \in 1 .. Len(cs \o ds) :
         Made((cs \o ds)[k]) \/ \E i \in 1 .. Len(bs) : (cs \o ds)[k] = bs[i]
  <2>1. /\ \A k \in 1 .. Len(cs) : Made(cs[k]) \/ \E i \in 1 .. Len(bs) : cs[k] = bs[i]
        /\ \A k \in 1 .. Len(ds) : Made(ds[k]) \/ \E i \in 1 .. Len(bs) : ds[k] = bs[i]
    BY DEF Drawn
  <2> QED
    BY <1>3, <1>4, <2>1
<1>7. IsSeq(cs \o ds)
  BY <1>3, AnySeq
<1> QED
  BY <1>5, <1>6, <1>7 DEF Drawn, IsBlocks

LEMMA DrawnReplace ==
    ASSUME NEW bs, IsBlocks(bs), NEW b, IsBlock(b), Made(b),
           NEW mid, mid[1] \in 1 .. Len(bs), mid[2] \in mid[1] .. Len(bs)
    PROVE  Drawn(ReplaceMiddle(bs, mid, b), bs)
<1> DEFINE cs == ReplaceMiddle(bs, mid, b)
<1>1. PICK g : Trace(cs, bs, g) /\ Verbatim(cs, bs, g)
  BY ReplaceTrace
<1>2. Len(bs) \in Nat
  BY BlocksShape
<1> HIDE DEF cs
<1>3. Drawn(cs, bs)
  BY <1>1, <1>2, DrawnTrace
<1> QED
  BY <1>3 DEF cs

LEMMA DrawnSummarized ==
    ASSUME NEW bs, IsBlocks(bs), NEW o \in Options, NEW kinds, NEW shown, Len(shown) \in Nat
    PROVE  Drawn(Summarized(bs, Middle(bs, o, kinds), shown), bs)
<1> DEFINE mid == Middle(bs, o, kinds)
           text == [size |-> StubSize + Len(shown), facts |-> Heads(shown) \cup {SummaryRef},
                    head |-> {}]
           b == NewSummary(<<"sum", 0>>, text)
<1>1. CASE mid = NoMiddle
  <2>1. Summarized(bs, mid, shown) = bs
    BY <1>1 DEF Summarized
  <2> QED
    BY <2>1, DrawnSelf
<1>2. CASE mid # NoMiddle
  <2>1. mid[1] \in 1 .. Len(bs) /\ mid[2] \in mid[1] .. Len(bs)
    BY <1>2, MiddlePlace
  <2>2. text.size \in Nat /\ text.head \subseteq text.facts /\ <<"sum", 0>>[1] \in MadeTags
    BY SummaryAssumption DEF MadeTags
  <2>3. Summarized(bs, mid, shown) = ReplaceMiddle(bs, mid, b)
    BY <1>2 DEF Summarized
  <2> HIDE DEF text, mid
  <2>4. IsBlock(b) /\ Made(b)
    BY <2>2, SummaryMade
  <2> HIDE DEF b
  <2>5. Drawn(ReplaceMiddle(bs, mid, b), bs)
    BY <2>1, <2>4, DrawnReplace
  <2> QED
    BY <2>3, <2>5 DEF mid
<1> QED
  BY <1>1, <1>2

LEMMA DrawnRolled ==
    ASSUME NEW bs, IsBlocks(bs), NEW o \in Options
    PROVE  Drawn(RollingWindow(bs, o), bs)
<1> DEFINE tail == Max({o.rollingTail, 4})
           a == PrefixEnd(bs, Protected) + 1
           z == Len(bs) - tail
           b == NewSummary(<<"rolled", 0>>, [size |-> StubSize, facts |-> {}, head |-> {}])
           mid == <<a, z>>
           cs == RollingWindow(bs, o)
<1>1. tail \in Nat /\ Len(bs) \in Nat /\ PrefixEnd(bs, Protected) \in Nat
  <2>1. o.rollingTail \in Nat /\ 4 \in Nat
    BY OptionsAssumption
  <2> QED
    BY <2>1, MaxOfTwo, BlocksShape, PrefixPlace
<1>2. cs = bs \/ (a <= z /\ cs = ReplaceMiddle(bs, mid, b))
  BY <1>1 DEF RollingWindow
<1>3. IsBlock(b) /\ Made(b)
  BY SummaryAssumption, SummaryMade DEF MadeTags
<1>4. a \in Nat /\ a >= 1 /\ z \in Int /\ z <= Len(bs) /\ mid[1] = a /\ mid[2] = z
  <2> HIDE DEF tail
  <2> QED
    BY <1>1
<1> HIDE DEF tail, a, z, b, mid, cs
<1>5. CASE cs = bs
  BY <1>5, DrawnSelf DEF cs
<1>6. CASE a <= z /\ cs = ReplaceMiddle(bs, mid, b)
  <2>1. mid[1] \in 1 .. Len(bs) /\ mid[2] \in mid[1] .. Len(bs)
    BY <1>1, <1>4, <1>6
  <2> QED
    BY <1>3, <1>6, <2>1, DrawnReplace DEF cs
<1> QED
  BY <1>2, <1>5, <1>6

LEMMA DrawnPacked == ASSUME NEW bs, IsBlocks(bs) PROVE Drawn(CachePack(bs), bs)
<1> DEFINE P(kinds) == {i \in DOMAIN bs : bs[i].kind \in kinds}
           R == {i \in DOMAIN bs : bs[i].kind \notin Protected}
           a == At(bs, P({"System"}))
           b == At(bs, P({"ToolSchema"}))
           c == At(bs, P({"Summary"}))
           d == At(bs, R)
<1>1. CachePack(bs) = ((a \o b) \o c) \o d
  BY DEF CachePack, Keep
<1>2. Drawn(a, bs) /\ Drawn(b, bs) /\ Drawn(c, bs) /\ Drawn(d, bs)
  <2> HIDE DEF P, R
  <2> QED
    BY DrawnPick
<1> HIDE DEF a, b, c, d
<1>3. Drawn(a \o b, bs)
  BY <1>2, DrawnConcat
<1>4. Drawn((a \o b) \o c, bs)
  BY <1>2, <1>3, DrawnConcat
<1>5. Drawn(((a \o b) \o c) \o d, bs)
  BY <1>2, <1>4, DrawnConcat
<1> QED
  BY <1>1, <1>5

\* The transforms that neither move texts out nor summarise by a guideline take
\* what they give from what they get, or make it.
LEMMA ApplyDrawn ==
    ASSUME NEW t, NEW bs, IsBlocks(bs), NEW o \in Options, o.bank = <<>>,
           NEW records, IsSeq(records), Texts(Range(records)),
           t \notin {"error_compaction", "consumed_result_mask"}
    PROVE  Drawn(Apply(t, bs, o, records), bs)
<1> DEFINE cs == Apply(t, bs, o, records)
<1>0. DOMAIN bs = 1 .. Len(bs) /\ Len(bs) \in Nat /\ IsSeq(bs)
  BY BlocksShape
<1>1. CASE t \in {"fold_collapse", "agent_omit", "memory_prune", "budget_trim"}
  <2>1. \E places : cs = At(bs, places)
    <3>1. CASE t = "fold_collapse"
      BY <3>1 DEF Apply, FoldCollapse
    <3>2. CASE t = "agent_omit"
      BY <3>2 DEF Apply, AgentOmit, Keep
    <3>3. CASE t = "memory_prune"
      BY <3>3 DEF Apply, MemoryPrune, Keep
    <3>4. CASE t = "budget_trim"
      BY <3>4 DEF Apply, BudgetTrim, Keep
    <3> QED
      BY <1>1, <3>1, <3>2, <3>3, <3>4
  <2> QED
    BY <2>1, DrawnPick
<1>2. CASE t = "bacm"
  <2>1. cs = bs \/ \E places : cs = At(bs, places)
    <3>1. cs = Bacm(bs, o)
      BY <1>2 DEF Apply
    <3>2. Bacm(bs, o) = bs \/ \E places : Bacm(bs, o) = At(bs, places)
      BY DEF Bacm, Keep
    <3> QED
      BY <3>1, <3>2
  <2> QED
    BY <2>1, DrawnPick, DrawnSelf
<1>3. CASE t = "guideline_bank"
  <2>1. \A i \in DOMAIN bs : MatchingAction(o.bank, bs[i].text) = "none"
    BY DEF MatchingAction
  <2>2. GuidelinePin(bs, o) = [i \in DOMAIN bs |-> bs[i]]
    BY <2>1 DEF GuidelinePin
  <2>3. bs = [i \in DOMAIN bs |-> bs[i]]
    BY <1>0 DEF IsSeq
  <2>4. cs = bs
    BY <1>3, <2>2, <2>3 DEF Apply
  <2> QED
    BY <2>4, DrawnSelf
<1>4. CASE t = "fold_inject"
  <2>1. cs = FoldInject(bs, records)
    BY <1>4 DEF Apply
  <2>2. PICK g : Trace(cs, bs, g) /\ Verbatim(cs, bs, g)
    BY <2>1, InjectTrace
  <2> HIDE DEF cs
  <2>3. Drawn(cs, bs)
    BY <1>0, <2>2, DrawnTrace
  <2> QED
    BY <2>3 DEF cs
<1>5. CASE t = "summarization"
  <2> DEFINE shown == Shown(Lines(bs, Middle(bs, o, Protected)))
  <2>1. cs = bs \/ cs = Summarized(bs, Middle(bs, o, Protected), shown)
    BY <1>5 DEF Apply, RuleSummarize
  <2>2. Len(shown) \in Nat
    BY ShownLines
  <2> HIDE DEF shown
  <2> QED
    BY <2>1, <2>2, DrawnSelf, DrawnSummarized
<1>6. CASE t = "llm_summarization"
  <2> DEFINE kinds == IF PrefixEnd(bs, LlmPrefix) = Len(bs) THEN {} ELSE LlmPrefix
             shown == Shown(Lines(bs, LlmRange(bs, o)))
  <2>1. cs = Summarized(bs, Middle(bs, o, kinds), shown)
    BY <1>6 DEF Apply, LlmSummarize, LlmRange
  <2>2. Len(shown) \in Nat
    BY ShownLines
  <2> HIDE DEF shown, kinds
  <2> QED
    BY <2>1, <2>2, DrawnSummarized
<1>7. CASE t = "cache_packer"
  BY <1>7, DrawnPacked DEF Apply
<1>8. CASE t = "rolling_window"
  BY <1>8, DrawnRolled DEF Apply
<1>9. CASE /\ t \notin {"guideline_bank", "fold_inject", "fold_collapse", "agent_omit", "memory_prune"}
           /\ t \notin {"llm_summarization", "summarization", "bacm", "cache_packer",
                        "rolling_window", "budget_trim"}
  <2>1. cs = bs
    BY <1>9 DEF Apply
  <2> QED
    BY <2>1, DrawnSelf
<1> QED
  BY <1>1, <1>2, <1>3, <1>4, <1>5, <1>6, <1>7, <1>8, <1>9

\* Numbers up to a bound have a largest one.
LEMMA Largest == ASSUME NEW n \in Nat, NEW S \in SUBSET (1 .. n), S # {} PROVE Max(S) \in S
<1> DEFINE D == {n - y : y \in S}
<1>1. D \in SUBSET Nat /\ D # {}
  <2>1. PICK y \in S : TRUE
    OBVIOUS
  <2>2. n - y \in D
    BY <2>1
  <2>3. \A z \in S : n - z \in Nat
    OBVIOUS
  <2> QED
    BY <2>2, <2>3
<1>2. PICK x \in D : \A y \in D : x <= y
  BY <1>1, Least
<1>3. PICK m \in S : x = n - m
  BY <1>2
<1>4. \A y \in S : n - m <= n - y
  BY <1>2, <1>3
<1>5. \E z \in S : \A y \in S : z >= y
  BY <1>4
<1> QED
  BY <1>5 DEF Max

\* What the store has at a reference after n puts.
LEMMA StoreHas ==
    ASSUME NEW puts, NEW n \in Nat, NEW r
    PROVE  /\ (\A k \in 1 .. n : puts[k][1] # r) /\ r \in DOMAIN stored =>
                 r \in DOMAIN StoreAfter(puts, n) /\ StoreAfter(puts, n)[r] = stored[r]
           /\ \A k \in 1 .. n :
                 /\ puts[k][1] = r
                 /\ \A i \in 1 .. n : puts[i][1] = r => puts[i][2] = puts[k][2]
                 => r \in DOMAIN StoreAfter(puts, n) /\ StoreAfter(puts, n)[r] = puts[k][2]
<1> DEFINE to == {k \in 1 .. n : puts[k][1] = r}
           D == DOMAIN stored \cup {puts[k][1] : k \in 1 .. n}
<1>1. /\ DOMAIN StoreAfter(puts, n) = D
      /\ r \in D => StoreAfter(puts, n)[r] = IF to = {} THEN stored[r] ELSE puts[Max(to)][2]
  BY DEF StoreAfter
<1>2. ASSUME \A k \in 1 .. n : puts[k][1] # r, r \in DOMAIN stored
      PROVE  r \in DOMAIN StoreAfter(puts, n) /\ StoreAfter(puts, n)[r] = stored[r]
  <2>1. r \in D /\ to = {}
    BY <1>2
  <2> HIDE DEF D, to
  <2> QED
    BY <1>1, <2>1
<1>3. ASSUME NEW k \in 1 .. n, puts[k][1] = r,
             \A i \in 1 .. n : puts[i][1] = r => puts[i][2] = puts[k][2]
      PROVE  r \in DOMAIN StoreAfter(puts, n) /\ StoreAfter(puts, n)[r] = puts[k][2]
  <2>1. r \in D /\ to # {} /\ to \in SUBSET (1 .. n)
    BY <1>3
  <2>2. \A i \in to : i \in 1 .. n /\ puts[i][1] = r
    OBVIOUS
  <2> HIDE DEF D, to
  <2>3. Max(to) \in to
    BY <2>1, Largest
  <2> QED
    BY <1>1, <1>3, <2>1, <2>2, <2>3
<1> QED
  BY <1>2, <1>3

\* A summariser stores its summary, the other transforms but two store nothing.
LEMMA OtherPuts ==
    ASSUME NEW t, t \notin {"error_compaction", "consumed_result_mask"}, NEW bs, NEW o
    PROVE  /\ Len(Puts(t, bs, o)) \in Nat
           /\ \A k \in 1 .. Len(Puts(t, bs, o)) : Puts(t, bs, o)[k][1] = SummaryRef
<1>1. Puts(t, bs, o) = <<>> \/ \E text : Puts(t, bs, o) = <<<<SummaryRef, text>>>>
  BY DEF Puts
<1>2. ASSUME NEW text, NEW s, s = <<<<SummaryRef, text>>>>
      PROVE  Len(s) \in Nat /\ \A k \in 1 .. Len(s) : s[k][1] = SummaryRef
  BY <1>2
<1>3. Len(<<>>) = 0 /\ 1 .. 0 = {}
  OBVIOUS
<1> QED
  BY <1>1, <1>2, <1>3

\* The puts move out the texts of the blocks at the places, to references of theirs.
MovesOut(puts, bs, places, dir) ==
    /\ Len(puts) \in Nat
    /\ \A k \in 1 .. Len(puts) : \E i \in places :
          puts[k][1] = <<dir, bs[i].id>> /\ puts[k][2] = bs[i].text
    /\ \A i \in places : \E k \in 1 .. Len(puts) :
          puts[k][1] = <<dir, bs[i].id>> /\ puts[k][2] = bs[i].text

LEMMA PutsMoveOut ==
    ASSUME NEW bs, IsBlocks(bs), NEW places, places \subseteq 1 .. Len(bs), NEW dir,
           NEW puts, puts = [k \in DOMAIN At(bs, places) |->
                               <<<<dir, At(bs, places)[k].id>>, At(bs, places)[k].text>>]
    PROVE  MovesOut(puts, bs, places, dir)
<1> DEFINE moved == At(bs, places)
<1>1. PICK h : Picks(moved, bs, h, places, Len(bs))
  BY AtPicks, BlocksShape
<1> HIDE DEF moved
<1>2. Len(moved) \in Nat /\ DOMAIN moved = 1 .. Len(moved)
  BY <1>1, Shape DEF Picks
<1>3. puts = [k \in 1 .. Len(moved) |-> <<<<dir, moved[k].id>>, moved[k].text>>]
  BY <1>2 DEF moved
<1>4. Len(puts) = Len(moved)
  <2>1. DOMAIN puts = 1 .. Len(moved) /\ puts = [k \in 1 .. Len(moved) |-> puts[k]]
    BY <1>3
  <2> QED
    BY <1>2, <2>1, Listed
<1>5. \A k \in 1 .. Len(moved) : h[k] \in places /\ moved[k] = bs[h[k]]
  BY <1>1 DEF Picks
<1>6. \A i \in places : \E k \in 1 .. Len(moved) : h[k] = i
  BY <1>1 DEF Picks
<1>7. \A k \in 1 .. Len(moved) : puts[k][1] = <<dir, bs[h[k]].id>> /\ puts[k][2] = bs[h[k]].text
  BY <1>3, <1>5
<1>8. \A k \in 1 .. Len(puts) : \E i \in places :
         puts[k][1] = <<dir, bs[i].id>> /\ puts[k][2] = bs[i].text
  BY <1>4, <1>5, <1>7
<1>9. \A i \in places : \E k \in 1 .. Len(puts) :
         puts[k][1] = <<dir, bs[i].id>> /\ puts[k][2] = bs[i].text
  <2> SUFFICES ASSUME NEW i \in places
               PROVE  \E k \in 1 .. Len(puts) :
                         puts[k][1] = <<dir, bs[i].id>> /\ puts[k][2] = bs[i].text
    OBVIOUS
  <2>1. PICK k \in 1 .. Len(moved) : h[k] = i
    BY <1>6
  <2>2. puts[k][1] = <<dir, bs[i].id>> /\ puts[k][2] = bs[i].text
    BY <1>7, <2>1
  <2> QED
    BY <1>4, <2>2
<1> QED
  BY <1>2, <1>4, <1>8, <1>9 DEF MovesOut

\* A block that is still whole holds its text of the transcript, one moved out
\* says where, and there the store has it.
Behind(in, b, st) ==
    IF b.ref = NoRef
    THEN Made(b) \/ \E j \in DOMAIN in : in[j].id = b.id /\ in[j].text = b.text
    ELSE /\ b.ref \in {<<"err", b.id>>, <<"tool", b.id>>}
         /\ b.ref \in b.text.facts /\ b.ref \in DOMAIN st
         /\ \E j \in DOMAIN in : in[j].id = b.id /\ st[b.ref] = in[j].text
Held(in, bs, st) == \A i \in 1 .. Len(bs) : Behind(in, bs[i], st)

\* Moving texts out keeps everything that is held, as no two references are the same.
LEMMA MovedHeld ==
    ASSUME DistinctIds, NEW ms \in Inputs, NEW in, in = ParseTranscript(ms),
           NEW bs, NEW g, Trace(bs, in, g), Held(in, bs, stored),
           NEW dir \in {"err", "tool"}, NEW places, places \subseteq 1 .. Len(bs),
           \A i \in places : bs[i].ref = NoRef /\ bs[i].kind = "ToolResult",
           NEW cs, Len(cs) = Len(bs),
           \A i \in 1 .. Len(bs) :
              IF i \in places
              THEN cs[i].id = bs[i].id /\ cs[i].ref = <<dir, bs[i].id>> /\ cs[i].ref \in cs[i].text.facts
              ELSE cs[i] = bs[i],
           NEW puts, MovesOut(puts, bs, places, dir)
    PROVE  Held(in, cs, StoreAfter(puts, Len(puts)))
<1> DEFINE n == Len(puts)
           st == StoreAfter(puts, n)
<1>1. /\ IsBlocks(in) /\ DOMAIN in = 1 .. Len(in) /\ Len(in) \in Nat
      /\ IsBlocks(bs) /\ DOMAIN bs = 1 .. Len(bs) /\ Len(bs) \in Nat
  BY InputBlocks, BlocksShape DEF Trace
<1>2. ASSUME NEW i \in 1 .. Len(bs), bs[i].ref # NoRef \/ bs[i].kind = "ToolResult"
      PROVE  g[i] \in 1 .. Len(in) /\ bs[i].id = in[g[i]].id /\ ~Made(bs[i])
  <2>1. ~Made(bs[i])
    BY <1>2 DEF Made
  <2>2. g[i] # 0 /\ g[i] \in 0 .. Len(in) /\ (g[i] # 0 => Comes(bs[i], in[g[i]]))
    BY <2>1 DEF Trace
  <2> QED
    BY <1>1, <2>1, <2>2 DEF Comes
<1>3. ASSUME NEW i \in 1 .. Len(bs), bs[i].ref # NoRef \/ bs[i].kind = "ToolResult",
             NEW j \in 1 .. Len(bs), bs[j].id = bs[i].id
      PROVE  i = j
  <2>1. g[i] \in DOMAIN in /\ bs[j].id = in[g[i]].id
    BY <1>1, <1>2, <1>3
  <2>2. j \in DOMAIN bs
    BY <1>1
  <2>3. g[j] = g[i]
    BY <2>1, <2>2, SameId
  <2>4. g[i] # 0
    BY <1>1, <1>3, <1>2
  <2> QED
    BY <2>3, <2>4 DEF Trace
<1>4. ASSUME NEW i \in 1 .. Len(bs), bs[i].kind = "ToolResult" PROVE <<dir, bs[i].id>> # NoRef
  <2>1. g[i] \in DOMAIN in /\ bs[i].id = in[g[i]].id
    BY <1>1, <1>2, <1>4
  <2>2. in[g[i]] \in Range(in)
    BY <2>1 DEF Range
  <2> QED
    BY <2>1, <2>2, ReferenceAssumption
<1>5. n \in Nat
  BY DEF MovesOut
<1> HIDE DEF n
<1>6. ASSUME NEW i \in places PROVE Behind(in, cs[i], st)
  <2> DEFINE r == <<dir, bs[i].id>>
  <2>1. i \in 1 .. Len(bs) /\ cs[i].id = bs[i].id /\ cs[i].ref = r /\ cs[i].ref \in cs[i].text.facts
        /\ bs[i].ref = NoRef /\ bs[i].kind = "ToolResult"
    BY <1>6
  <2>2. r # NoRef /\ r \in {<<"err", cs[i].id>>, <<"tool", cs[i].id>>}
    BY <1>4, <2>1
  <2>3. PICK k \in 1 .. n : puts[k][1] = r /\ puts[k][2] = bs[i].text
    BY <1>6 DEF MovesOut, n
  <2>4. ASSUME NEW l \in 1 .. n, puts[l][1] = r PROVE puts[l][2] = bs[i].text
    <3>1. PICK j \in places : puts[l][1] = <<dir, bs[j].id>> /\ puts[l][2] = bs[j].text
      BY DEF MovesOut, n
    <3>2. bs[j].id = bs[i].id /\ j \in 1 .. Len(bs)
      BY <2>4, <3>1
    <3>3. i = j
      BY <1>3, <2>1, <3>2
    <3> QED
      BY <3>1, <3>3
  <2> HIDE DEF r
  <2>5. r \in DOMAIN st /\ st[r] = bs[i].text
    BY <1>5, <2>3, <2>4, StoreHas
  <2>6. \E j \in DOMAIN in : in[j].id = bs[i].id /\ in[j].text = bs[i].text
    <3>1. Behind(in, bs[i], stored) /\ ~Made(bs[i])
      BY <1>2, <2>1 DEF Held
    <3> QED
      BY <2>1, <3>1 DEF Behind
  <2> HIDE DEF st
  <2> QED
    BY <2>1, <2>2, <2>5, <2>6 DEF Behind
<1>7. ASSUME NEW i \in 1 .. Len(bs), i \notin places PROVE Behind(in, cs[i], st)
  <2>1. cs[i] = bs[i] /\ Behind(in, bs[i], stored)
    BY <1>7 DEF Held
  <2>2. CASE bs[i].ref = NoRef
    BY <2>1, <2>2 DEF Behind
  <2>3. CASE bs[i].ref # NoRef
    <3>1. /\ bs[i].ref \in {<<"err", bs[i].id>>, <<"tool", bs[i].id>>} /\ bs[i].ref \in DOMAIN stored
          /\ bs[i].ref \in bs[i].text.facts
          /\ \E j \in DOMAIN in : in[j].id = bs[i].id /\ stored[bs[i].ref] = in[j].text
      BY <2>1, <2>3 DEF Behind
    <3>2. ASSUME NEW k \in 1 .. n, puts[k][1] = bs[i].ref PROVE FALSE
      <4>1. PICK j \in places : puts[k][1] = <<dir, bs[j].id>>
        BY DEF MovesOut, n
      <4>2. bs[j].id = bs[i].id /\ j \in 1 .. Len(bs)
        BY <3>1, <3>2, <4>1
      <4>3. i = j
        BY <1>3, <2>3, <4>2
      <4> QED
        BY <1>7, <4>1, <4>3
    <3>3. bs[i].ref \in DOMAIN st /\ st[bs[i].ref] = stored[bs[i].ref]
      BY <1>5, <3>1, <3>2, StoreHas
    <3> HIDE DEF st
    <3> QED
      BY <2>1, <2>3, <3>1, <3>3 DEF Behind
  <2> QED
    BY <2>2, <2>3
<1>8. \A i \in 1 .. Len(cs) : Behind(in, cs[i], st)
  BY <1>6, <1>7
<1> QED
  BY <1>8 DEF Held, n

\* What is taken over stays held, as summaries have a reference of their own.
LEMMA DrawnHeld ==
    ASSUME NEW in, NEW bs, NEW cs, Held(in, bs, stored), Drawn(cs, bs),
           NEW puts, Len(puts) \in Nat, \A k \in 1 .. Len(puts) : puts[k][1] = SummaryRef
    PROVE  Held(in, cs, StoreAfter(puts, Len(puts)))
<1> DEFINE n == Len(puts)
           st == StoreAfter(puts, n)
<1>1. n \in Nat /\ \A k \in 1 .. n : puts[k][1] = SummaryRef
  OBVIOUS
<1> HIDE DEF n
<1> SUFFICES ASSUME NEW k \in 1 .. Len(cs) PROVE Behind(in, cs[k], st)
  BY DEF Held, n
<1>2. CASE Made(cs[k])
  BY <1>2 DEF Made, Behind
<1>3. CASE \E i \in 1 .. Len(bs) : cs[k] = bs[i]
  <2>1. Behind(in, cs[k], stored)
    BY <1>3 DEF Held
  <2>2. CASE cs[k].ref = NoRef
    BY <2>1, <2>2 DEF Behind
  <2>3. CASE cs[k].ref # NoRef
    <3> DEFINE r == cs[k].ref
    <3>1. /\ r \in {<<"err", cs[k].id>>, <<"tool", cs[k].id>>} /\ r \in DOMAIN stored
          /\ r \in cs[k].text.facts
          /\ \E j \in DOMAIN in : in[j].id = cs[k].id /\ stored[r] = in[j].text
      BY <2>1, <2>3 DEF Behind
    <3>2. r # SummaryRef
      BY <3>1 DEF SummaryRef
    <3>3. r # NoRef /\ r = cs[k].ref
      BY <2>3
    <3> HIDE DEF r
    <3>4. r \in DOMAIN st /\ st[r] = stored[r]
      BY <1>1, <3>1, <3>2, StoreHas
    <3> HIDE DEF st
    <3> QED
      BY <3>1, <3>3, <3>4 DEF Behind
  <2> QED
    BY <2>2, <2>3
<1> QED
  BY <1>2, <1>3 DEF Drawn

\* As long as no guideline rewrites texts, everything in the blocks is held.
ColdInv ==
    opts.bank = <<>> /\ (pc = "run" \/ Answered) =>
        /\ Held(blocksIn, blocks, stored)
        /\ \A i \in DOMAIN blocksIn : blocksIn[i].ref = NoRef

LEMMA ColdTransform ==
    ASSUME DistinctIds, NEW ms \in Inputs, NEW in, in = ParseTranscript(ms),
           NEW bs, NEW g, Trace(bs, in, g), Held(in, bs, stored),
           NEW t, NEW o \in Options, o.bank = <<>>,
           NEW records, IsSeq(records), Texts(Range(records))
    PROVE  Held(in, Apply(t, bs, o, records), StoreAfter(Puts(t, bs, o), Len(Puts(t, bs, o))))
<1> DEFINE puts == Puts(t, bs, o)
           cs == Apply(t, bs, o, records)
<1>1. IsBlocks(bs) /\ DOMAIN bs = 1 .. Len(bs) /\ Len(bs) \in Nat
  BY BlocksShape DEF Trace
<1>2. CASE t = "error_compaction"
  <2> DEFINE places == {i \in DOMAIN bs : CompactsAt(bs, i, o)}
  <2>1. puts = [k \in DOMAIN At(bs, places) |->
                  <<<<"err", At(bs, places)[k].id>>, At(bs, places)[k].text>>]
    BY <1>2 DEF Puts
  <2>2. cs = ErrorCompaction(bs, o)
    BY <1>2 DEF Apply
  <2>3. places \subseteq 1 .. Len(bs) /\ \A i \in places : bs[i].ref = NoRef /\ bs[i].kind = "ToolResult"
    <3>1. \A i \in 1 .. Len(bs) : bs[i].failed => bs[i].kind = "ToolResult"
      BY <1>1, BlocksShape DEF IsBlock
    <3> QED
      BY <1>1, <3>1 DEF CompactsAt
  <2>4. ASSUME NEW i \in 1 .. Len(bs)
        PROVE  IF i \in places
               THEN /\ cs[i].id = bs[i].id /\ cs[i].ref = <<"err", bs[i].id>>
                    /\ cs[i].ref \in cs[i].text.facts
               ELSE cs[i] = bs[i]
    <3>1. IsBlock(bs[i]) /\ i \in DOMAIN bs
      BY <1>1, BlocksShape
    <3>2. CASE i \in places
      <4> DEFINE r == <<"err", bs[i].id>>
                 s == Stub(bs[i].text, r, {Error})
      <4>1. cs[i] = [bs[i] EXCEPT !.text = s, !.ref = r]
        BY <2>2, <3>1, <3>2 DEF ErrorCompaction
      <4>2. r \in s.facts
        BY DEF Stub
      <4> HIDE DEF r, s, cs
      <4>3. cs[i].id = bs[i].id /\ cs[i].ref = r /\ cs[i].text = s
        BY <3>1, <4>1 DEF IsBlock
      <4> QED
        BY <3>2, <4>2, <4>3 DEF r
    <3>3. CASE i \notin places
      BY <2>2, <3>1, <3>3 DEF ErrorCompaction
    <3> QED
      BY <3>2, <3>3
  <2>5. Len(cs) = Len(bs)
    <3>1. DOMAIN cs = 1 .. Len(bs) /\ cs = [i \in 1 .. Len(bs) |-> cs[i]]
      BY <1>1, <2>2 DEF ErrorCompaction
    <3> HIDE DEF cs
    <3> QED
      BY <1>1, <3>1, Listed
  <2> HIDE DEF places, puts, cs
  <2>6. MovesOut(puts, bs, places, "err")
    BY <1>1, <2>1, <2>3, PutsMoveOut
  <2>7. Held(in, cs, StoreAfter(puts, Len(puts)))
    BY <2>3, <2>4, <2>5, <2>6, MovedHeld
  <2> QED
    BY <2>7 DEF cs, puts
<1>3. CASE t = "consumed_result_mask"
  <2> DEFINE places == {i \in DOMAIN bs : MasksAt(bs, i, o)}
  <2>1. puts = [k \in DOMAIN At(bs, places) |->
                  <<<<"tool", At(bs, places)[k].id>>, At(bs, places)[k].text>>]
    BY <1>3 DEF Puts
  <2>2. cs = ConsumedResultMask(bs, o)
    BY <1>3 DEF Apply
  <2>3. places \subseteq 1 .. Len(bs) /\ \A i \in places : bs[i].ref = NoRef /\ bs[i].kind = "ToolResult"
    BY <1>1 DEF MasksAt
  <2>4. ASSUME NEW i \in 1 .. Len(bs)
        PROVE  IF i \in places
               THEN /\ cs[i].id = bs[i].id /\ cs[i].ref = <<"tool", bs[i].id>>
                    /\ cs[i].ref \in cs[i].text.facts
               ELSE cs[i] = bs[i]
    <3>1. IsBlock(bs[i]) /\ i \in DOMAIN bs
      BY <1>1, BlocksShape
    <3>2. CASE i \in places
      <4> DEFINE r == <<"tool", bs[i].id>>
                 s == Stub(bs[i].text, r, {})
      <4>1. cs[i] = [bs[i] EXCEPT !.text = s, !.ref = r]
        BY <2>2, <3>1, <3>2 DEF ConsumedResultMask
      <4>2. r \in s.facts
        BY DEF Stub
      <4> HIDE DEF r, s, cs
      <4>3. cs[i].id = bs[i].id /\ cs[i].ref = r /\ cs[i].text = s
        BY <3>1, <4>1 DEF IsBlock
      <4> QED
        BY <3>2, <4>2, <4>3 DEF r
    <3>3. CASE i \notin places
      BY <2>2, <3>1, <3>3 DEF ConsumedResultMask
    <3> QED
      BY <3>2, <3>3
  <2>5. Len(cs) = Len(bs)
    <3>1. DOMAIN cs = 1 .. Len(bs) /\ cs = [i \in 1 .. Len(bs) |-> cs[i]]
      BY <1>1, <2>2 DEF ConsumedResultMask
    <3> HIDE DEF cs
    <3> QED
      BY <1>1, <3>1, Listed
  <2> HIDE DEF places, puts, cs
  <2>6. MovesOut(puts, bs, places, "tool")
    BY <1>1, <2>1, <2>3, PutsMoveOut
  <2>7. Held(in, cs, StoreAfter(puts, Len(puts)))
    BY <2>3, <2>4, <2>5, <2>6, MovedHeld
  <2> QED
    BY <2>7 DEF cs, puts
<1>4. CASE t \notin {"error_compaction", "consumed_result_mask"}
  <2>1. Len(puts) \in Nat /\ \A k \in 1 .. Len(puts) : puts[k][1] = SummaryRef
    BY <1>4, OtherPuts
  <2>2. Drawn(cs, bs)
    BY <1>1, <1>4, ApplyDrawn
  <2> HIDE DEF cs, puts
  <2>3. Held(in, cs, StoreAfter(puts, Len(puts)))
    BY <2>1, <2>2, DrawnHeld
  <2> QED
    BY <2>3 DEF cs, puts
<1> QED
  BY <1>2, <1>3, <1>4

LEMMA ColdStep == ASSUME DistinctIds PROVE CompileInv /\ ColdInv /\ [Next]_vars => ColdInv'
<1> SUFFICES ASSUME CompileInv, ColdInv, [Next]_vars PROVE ColdInv'
  OBVIOUS
<1>1. CASE Start
  <2> DEFINE in == ParseTranscript(messages)
  <2>1. blocksIn' = in /\ blocks' = in /\ messages \in Inputs
    BY <1>1 DEF Start, CompileInv
  <2>2. \A i \in DOMAIN in : in[i].ref = NoRef
    BY <2>1, TranscriptParsed DEF Parsed
  <2>3. DOMAIN in = 1 .. Len(in)
    BY <2>1, InputBlocks, BlocksShape
  <2> HIDE DEF in
  <2>4. Held(in, in, stored')
    BY <2>2, <2>3 DEF Held, Behind
  <2> QED
    BY <2>1, <2>2, <2>4 DEF ColdInv
<1>2. CASE Transform
  <2> SUFFICES ASSUME opts'.bank = <<>> PROVE ColdInv'
    BY DEF ColdInv
  <2> DEFINE records == Records(blocksIn)
             puts == Puts(Head(todo), blocks, opts)
  <2>1. /\ pc = "run" /\ blocks' = Apply(Head(todo), blocks, opts, records)
        /\ stored' = StoreAfter(puts, Len(puts))
        /\ UNCHANGED <<messages, opts, blocksIn, pc, answer>>
    BY <1>2 DEF Transform
  <2>2. /\ opts \in Options /\ messages \in Inputs /\ blocksIn = ParseTranscript(messages)
        /\ opts.bank = <<>> /\ Held(blocksIn, blocks, stored)
        /\ \A i \in DOMAIN blocksIn : blocksIn[i].ref = NoRef
    BY <2>1 DEF CompileInv, ColdInv
  <2>3. PICK g : Trace(blocks, blocksIn, g)
    BY <2>1 DEF CompileInv, Midway, Origin
  <2>4. IsSeq(records) /\ Texts(Range(records))
    BY <2>2, RecordsTexts
  <2> HIDE DEF records
  <2>5. Held(blocksIn, Apply(Head(todo), blocks, opts, records), StoreAfter(puts, Len(puts)))
    BY <2>2, <2>3, <2>4, ColdTransform
  <2> HIDE DEF puts
  <2> QED
    BY <2>1, <2>2, <2>5 DEF ColdInv
<1>3. CASE Invalid \/ PutFails \/ Reject
  <2>1. answer'.status = "error" /\ pc' = "done"
    BY <1>3 DEF Invalid, PutFails, Reject, Answer
  <2> QED
    BY <2>1 DEF ColdInv, Answered
<1>4. CASE Sufficient \/ PassThrough
  <2>1. pc = "run" /\ UNCHANGED <<opts, blocksIn, blocks, stored>>
    BY <1>4 DEF Sufficient, PassThrough
  <2> QED
    BY <2>1 DEF ColdInv
<1>5. CASE UNCHANGED vars
  BY <1>5 DEF vars, ColdInv, Answered
<1> QED
  BY <1>1, <1>2, <1>3, <1>4, <1>5 DEF Next

\* Without guidelines, a block that was moved out still names its place, and there
\* the store has the whole text of the transcript: no two blocks share a reference,
\* and no transform rewrites a text before it is stored.
THEOREM ColdStaysBacked == ASSUME DistinctIds PROVE Spec => []ColdBacked
<1>1. Init => ColdInv
  BY DEF Init, ColdInv, NoAnswer, Answered
<1>2. CompileInv /\ ColdInv => ColdBacked
  <2> SUFFICES ASSUME CompileInv, ColdInv, Answered, opts.bank = <<>>,
                      NEW i \in DOMAIN answer.blocks, answer.blocks[i].ref # NoRef
               PROVE  Backed(answer.blocks[i])
    BY DEF ColdBacked
  <2>1. Held(blocksIn, blocks, stored) /\ \A j \in DOMAIN blocksIn : blocksIn[j].ref = NoRef
    BY DEF ColdInv
  <2>2. answer.blocks = blocks
    BY <2>1 DEF CompileInv, Answered, Compiled
  <2>3. i \in 1 .. Len(blocks)
    BY <2>2, BlocksShape DEF CompileInv
  <2>4. Behind(blocksIn, blocks[i], stored)
    BY <2>1, <2>3 DEF Held
  <2> QED
    BY <2>2, <2>4 DEF Behind, Backed
<1> QED
  BY <1>1, <1>2, CompileInvariant, ColdStep, PTL DEF Spec

-----------------------------------------------------------------------------
(* Handoff records.                                                        *)

\* b stands among the protected blocks in front.
InFront(bs, b) == \E i \in 1 .. Len(bs) : bs[i] = b /\ \A j \in 1 .. i : bs[j].kind \in Protected

\* What a record looks like to the transforms.
Carries(b) == b.kind = "Summary" /\ b.branch = NoName /\ ~b.failed

RecordBlock(records, k) == NewSummary(<<"fold_record", k>>, records[k])

\* Picking blocks, b among them, leaves it in front.
LEMMA PickFront ==
    ASSUME NEW bs, IsBlocks(bs), NEW b, InFront(bs, b), NEW places,
           \A i \in 1 .. Len(bs) : bs[i] = b => i \in places
    PROVE  InFront(At(bs, places), b)
<1> DEFINE cs == At(bs, places)
<1>1. PICK h : Picks(cs, bs, h, places, Len(bs))
  BY AtPicks, BlocksShape
<1> HIDE DEF cs
<1>2. /\ IsSeq(cs) /\ Len(cs) \in Nat /\ Len(bs) \in Nat /\ h \in [1 .. Len(cs) -> 1 .. Len(bs)]
      /\ \A i, j \in 1 .. Len(cs) : i < j => h[i] < h[j]
      /\ \A k \in 1 .. Len(cs) : cs[k] = bs[h[k]]
      /\ \A p \in 1 .. Len(bs) : p \in places => \E k \in 1 .. Len(cs) : h[k] = p
  BY <1>1, BlocksShape, Shape DEF Picks
<1>3. PICK i \in 1 .. Len(bs) : bs[i] = b /\ \A j \in 1 .. i : bs[j].kind \in Protected
  BY DEF InFront
<1>4. PICK k \in 1 .. Len(cs) : h[k] = i
  BY <1>2, <1>3
<1>5. ASSUME NEW j \in 1 .. k PROVE cs[j].kind \in Protected
  <2>1. j \in 1 .. Len(cs) /\ (j < k \/ j = k)
    BY <1>2
  <2>2. h[j] \in 1 .. Len(bs) /\ (h[j] < h[k] \/ h[j] = h[k])
    BY <1>2, <2>1
  <2>3. h[j] \in 1 .. i
    BY <1>4, <2>2
  <2> QED
    BY <1>2, <1>3, <2>1, <2>3
<1>6. cs[k] = b
  BY <1>2, <1>3, <1>4
<1> QED
  BY <1>5, <1>6 DEF InFront, cs

\* Rewriting other blocks where they stand leaves b in front.
LEMMA MapFront ==
    ASSUME NEW bs, IsBlocks(bs), NEW b, InFront(bs, b),
           NEW cs, DOMAIN cs = DOMAIN bs, cs = [i \in DOMAIN bs |-> cs[i]],
           \A i \in 1 .. Len(bs) : cs[i].kind = bs[i].kind /\ (bs[i] = b => cs[i] = b)
    PROVE  InFront(cs, b)
<1>1. Len(bs) \in Nat /\ DOMAIN bs = 1 .. Len(bs)
  BY BlocksShape
<1>2. Len(cs) = Len(bs)
  BY <1>1, Listed
<1>3. PICK i \in 1 .. Len(bs) : bs[i] = b /\ \A j \in 1 .. i : bs[j].kind \in Protected
  BY DEF InFront
<1>4. \A j \in 1 .. i : j \in 1 .. Len(bs)
  BY <1>1
<1>5. cs[i] = b /\ \A j \in 1 .. i : cs[j].kind \in Protected
  BY <1>3, <1>4
<1> QED
  BY <1>2, <1>5 DEF InFront

\* Where the blocks stand when others, new, were put in behind the n in front.
Stand(cs, bs, new, n) ==
    /\ n \in Nat /\ Len(new) \in Nat /\ Len(cs) \in Nat /\ Len(cs) >= n + Len(new)
    /\ \A k \in 1 .. n : cs[k] = bs[k]
    /\ \A k \in 1 .. Len(new) : cs[n + k] = new[k]

LEMMA SpliceStand ==
    ASSUME NEW bs, IsBlocks(bs), NEW new, IsBlocks(new),
           \A k \in 1 .. Len(new) : Made(new[k]),
           NEW a \in 1 .. Len(bs) + 1, NEW z \in a - 1 .. Len(bs)
    PROVE  Stand(Spliced(bs, new, a, z), bs, new, a - 1)
<1> DEFINE cs == Spliced(bs, new, a, z)
<1>1. \E g : Verbatim(cs, bs, g) /\ Placed(cs, bs, new, a, z, g)
  BY SpliceTrace
<1> HIDE DEF cs
<1>2. PICK g : Verbatim(cs, bs, g) /\ Placed(cs, bs, new, a, z, g)
  BY <1>1
<1>3. Len(bs) \in Nat /\ Len(new) \in Nat /\ a \in Nat /\ z \in Nat /\ a - 1 \in Nat
  BY BlocksShape
<1>4. Len(cs) = Len(bs) - (z - a + 1) + Len(new) /\ Len(cs) \in Nat
      /\ Len(cs) >= (a - 1) + Len(new)
  BY <1>2, <1>3 DEF Placed
<1>5. ASSUME NEW k \in 1 .. a - 1 PROVE cs[k] = bs[k]
  <2>1. k \in 1 .. Len(cs) /\ k < a /\ k # 0
    BY <1>3, <1>4
  <2>2. g[k] = k
    BY <1>2, <2>1 DEF Placed
  <2> QED
    BY <1>2, <2>1, <2>2 DEF Verbatim
<1>6. \A k \in 1 .. Len(new) : cs[a - 1 + k] = new[k]
  BY <1>2 DEF Placed
<1> QED
  BY <1>3, <1>4, <1>5, <1>6 DEF Stand, cs

\* What is replaced starts behind the protected blocks in front, and b is one.
LEMMA ReplaceFront ==
    ASSUME NEW bs, IsBlocks(bs), NEW b, InFront(bs, b), NEW new, IsBlock(new), Made(new),
           NEW mid, mid[1] \in 1 .. Len(bs), mid[2] \in mid[1] .. Len(bs),
           bs[mid[1]].kind \notin Protected
    PROVE  InFront(ReplaceMiddle(bs, mid, new), b)
<1> DEFINE cs == ReplaceMiddle(bs, mid, new)
           one == <<new>>
           a == mid[1]
<1>1. Len(bs) \in Nat
  BY BlocksShape
<1>2. IsBlocks(one) /\ Len(one) = 1 /\ \A k \in 1 .. Len(one) : Made(one[k])
  <2>1. one \in Seq({new}) /\ Len(one) = 1 /\ one[1] = new
    OBVIOUS
  <2>2. IsSeq(one)
    BY <2>1, AnySeq
  <2> HIDE DEF one
  <2> QED
    BY <2>1, <2>2 DEF IsBlocks
<1>3. a \in 1 .. Len(bs) + 1 /\ mid[2] \in a - 1 .. Len(bs)
  BY <1>1
<1>4. cs = Spliced(bs, one, a, mid[2])
  BY DEF ReplaceMiddle, Spliced
<1> HIDE DEF cs, one, a
<1>5. Stand(cs, bs, one, a - 1)
  BY <1>2, <1>3, <1>4, SpliceStand
<1>6. PICK i \in 1 .. Len(bs) : bs[i] = b /\ \A j \in 1 .. i : bs[j].kind \in Protected
  BY DEF InFront
<1>7. i < a
  <2>1. ~(a <= i)
    BY <1>1, <1>6 DEF a
  <2> QED
    BY <1>1, <1>3, <2>1
<1>8. a - 1 <= Len(cs) /\ Len(cs) \in Nat /\ a - 1 \in Nat
  BY <1>5 DEF Stand
<1>9. ASSUME NEW j \in 1 .. i PROVE j \in 1 .. Len(cs) /\ cs[j] = bs[j]
  <2>1. j \in 1 .. Len(cs) /\ j \in 1 .. a - 1
    BY <1>1, <1>3, <1>7, <1>8
  <2> QED
    BY <1>5, <2>1 DEF Stand
<1>10. i \in 1 .. i
  BY <1>1
<1>11. i \in 1 .. Len(cs) /\ cs[i] = b /\ \A j \in 1 .. i : cs[j].kind \in Protected
  BY <1>6, <1>9, <1>10
<1> QED
  BY <1>11 DEF InFront, cs

\* The middle starts with a block of none of the kinds of the prefix.
LEMMA MiddleBehind ==
    ASSUME NEW bs, IsBlocks(bs), NEW o \in Options, NEW kinds, Middle(bs, o, kinds) # NoMiddle
    PROVE  bs[Middle(bs, o, kinds)[1]].kind \notin kinds
<1> DEFINE mid == Middle(bs, o, kinds)
           n == PrefixEnd(bs, kinds)
<1>1. mid[1] \in 1 .. Len(bs) /\ Len(bs) \in Nat
  BY BlocksShape, MiddlePlace
<1>2. mid[1] = n + 1
  BY DEF Middle
<1>3. n \in 0 .. Len(bs) /\ (n = Len(bs) \/ bs[n + 1].kind \notin kinds)
  BY PrefixPlace
<1> HIDE DEF mid, n
<1>4. n # Len(bs)
  BY <1>1, <1>2, <1>3
<1> QED
  BY <1>2, <1>3, <1>4 DEF mid

\* The rules summarise behind the protected blocks.
LEMMA RuleFront ==
    ASSUME NEW bs, IsBlocks(bs), NEW o \in Options, NEW b, InFront(bs, b)
    PROVE  InFront(RuleSummarize(bs, o), b)
<1> DEFINE mid == Middle(bs, o, Protected)
           shown == Shown(Lines(bs, mid))
<1>1. RuleSummarize(bs, o) = bs \/ RuleSummarize(bs, o) = Summarized(bs, mid, shown)
  BY DEF RuleSummarize
<1>2. Len(shown) \in Nat
  BY ShownLines
<1> HIDE DEF shown
<1>3. ASSUME mid # NoMiddle PROVE InFront(Summarized(bs, mid, shown), b)
  <2>1. /\ mid[1] \in 1 .. Len(bs) /\ mid[2] \in mid[1] .. Len(bs)
        /\ bs[mid[1]].kind \notin Protected
    BY <1>3, MiddlePlace, MiddleBehind
  <2> DEFINE text == [size |-> StubSize + Len(shown), facts |-> Heads(shown) \cup {SummaryRef},
                      head |-> {}]
             new == NewSummary(<<"sum", 0>>, text)
  <2>2. text.size \in Nat /\ text.head \subseteq text.facts /\ <<"sum", 0>>[1] \in MadeTags
    BY <1>2, SummaryAssumption DEF MadeTags
  <2>3. Summarized(bs, mid, shown) = ReplaceMiddle(bs, mid, new)
    BY <1>3 DEF Summarized
  <2> HIDE DEF text, mid
  <2>4. IsBlock(new) /\ Made(new)
    BY <2>2, SummaryMade
  <2> HIDE DEF new
  <2> QED
    BY <2>1, <2>3, <2>4, ReplaceFront
<1>4. mid = NoMiddle => Summarized(bs, mid, shown) = bs
  BY DEF Summarized
<1> QED
  BY <1>1, <1>3, <1>4

\* So does the rolling window.
LEMMA RollingFront ==
    ASSUME NEW bs, IsBlocks(bs), NEW o \in Options, NEW b, InFront(bs, b)
    PROVE  InFront(RollingWindow(bs, o), b)
<1> DEFINE tail == Max({o.rollingTail, 4})
           n == PrefixEnd(bs, Protected)
           z == Len(bs) - tail
           new == NewSummary(<<"rolled", 0>>, [size |-> StubSize, facts |-> {}, head |-> {}])
<1>1. o.rollingTail \in Nat /\ 4 \in Nat /\ Len(bs) \in Nat
  BY OptionsAssumption, BlocksShape
<1>2. tail \in Nat
  BY <1>1, MaxOfTwo
<1>3. n \in 0 .. Len(bs) /\ (n = Len(bs) \/ bs[n + 1].kind \notin Protected)
  BY PrefixPlace
<1>4. \/ RollingWindow(bs, o) = bs
      \/ ~(z < n + 1) /\ RollingWindow(bs, o) = ReplaceMiddle(bs, <<n + 1, z>>, new)
  BY DEF RollingWindow
<1>5. IsBlock(new) /\ Made(new)
  BY SummaryAssumption, SummaryMade DEF MadeTags
<1> HIDE DEF new, n, tail
<1>6. ASSUME ~(z < n + 1), RollingWindow(bs, o) = ReplaceMiddle(bs, <<n + 1, z>>, new)
      PROVE  InFront(RollingWindow(bs, o), b)
  <2>1. n + 1 \in 1 .. Len(bs) /\ z \in n + 1 .. Len(bs) /\ n # Len(bs)
    BY <1>1, <1>2, <1>3, <1>6
  <2> HIDE DEF z
  <2> DEFINE mid == <<n + 1, z>>
  <2>2. mid[1] = n + 1 /\ mid[2] = z /\ RollingWindow(bs, o) = ReplaceMiddle(bs, mid, new)
    BY <1>6
  <2> HIDE DEF mid
  <2> QED
    BY <1>3, <1>5, <2>1, <2>2, ReplaceFront
<1> QED
  BY <1>4, <1>6

\* What the cache packer finds it packs, and what is protected comes in front.
Has(s, x) == \E i \in 1 .. Len(s) : s[i] = x

LEMMA ConcatHas ==
    ASSUME NEW s, IsSeq(s), NEW t, IsSeq(t)
    PROVE  /\ IsSeq(s \o t)
           /\ \A x : Has(s, x) \/ Has(t, x) => Has(s \o t, x)
<1> DEFINE V == Range(s) \cup Range(t)
<1>1. s \in Seq(V) /\ t \in Seq(V) /\ Len(s) \in Nat /\ Len(t) \in Nat
  BY Shape DEF IsSeq
<1> HIDE DEF V
<1>2. /\ s \o t \in Seq(V) /\ Len(s \o t) = Len(s) + Len(t)
      /\ \A i \in 1 .. Len(s) + Len(t) : (s \o t)[i] = IF i <= Len(s) THEN s[i] ELSE t[i - Len(s)]
  BY <1>1, ConcatProperties
<1>3. ASSUME NEW i \in 1 .. Len(s)
      PROVE  i \in 1 .. Len(s \o t) /\ (s \o t)[i] = s[i]
  <2>1. i \in 1 .. Len(s) + Len(t) /\ i <= Len(s)
    BY <1>1
  <2> QED
    BY <1>2, <2>1
<1>4. ASSUME NEW i \in 1 .. Len(t)
      PROVE  Len(s) + i \in 1 .. Len(s \o t) /\ (s \o t)[Len(s) + i] = t[i]
  <2>1. Len(s) + i \in 1 .. Len(s) + Len(t) /\ ~(Len(s) + i <= Len(s)) /\ (Len(s) + i) - Len(s) = i
    BY <1>1
  <2> QED
    BY <1>2, <2>1
<1>5. IsSeq(s \o t)
  BY <1>2, AnySeq
<1> QED
  BY <1>3, <1>4, <1>5 DEF Has

LEMMA PackFront ==
    ASSUME NEW bs, IsBlocks(bs), NEW b, Carries(b), InFront(bs, b)
    PROVE  InFront(CachePack(bs), b)
<1> DEFINE Of(kind) == At(bs, {i \in DOMAIN bs : bs[i].kind \in {kind}})
           rest == At(bs, {i \in DOMAIN bs : bs[i].kind \notin Protected})
           cs == Of("System") \o Of("ToolSchema") \o Of("Summary") \o rest
<1>1. CachePack(bs) = cs
  BY DEF CachePack, Keep
<1>2. \A places : IsSeq(At(bs, places))
  BY AtPicks, BlocksShape DEF Picks
<1>3. Has(Of("Summary"), b)
  <2> DEFINE places == {i \in DOMAIN bs : bs[i].kind \in {"Summary"}}
  <2>1. \A i \in 1 .. Len(bs) : bs[i] = b => i \in places
    BY BlocksShape DEF Carries
  <2> HIDE DEF places
  <2>2. InFront(At(bs, places), b)
    BY <2>1, PickFront
  <2> QED
    BY <2>2 DEF InFront, Has, places
<1> HIDE DEF Of, rest
<1>4. IsSeq(Of("System")) /\ IsSeq(Of("ToolSchema")) /\ IsSeq(Of("Summary")) /\ IsSeq(rest)
  BY <1>2 DEF Of, rest
<1> DEFINE front == Of("System") \o Of("ToolSchema")
           prefix == front \o Of("Summary")
<1>5. IsSeq(front)
  BY <1>4, ConcatHas
<1> HIDE DEF front
<1>6. IsSeq(prefix) /\ Has(prefix, b)
  BY <1>3, <1>4, <1>5, ConcatHas
<1>7. Has(cs, b)
  <2>1. cs = prefix \o rest
    BY DEF front
  <2> HIDE DEF prefix
  <2> QED
    BY <1>4, <1>6, <2>1, ConcatHas
<1> HIDE DEF cs
<1>8. PICK i \in 1 .. Len(cs) : cs[i] = b
  BY <1>7 DEF Has
<1>9. Packed(cs) /\ Len(cs) \in Nat
  BY <1>1, PackTrace, BlocksShape DEF Trace
<1>10. ASSUME NEW j \in 1 .. i PROVE cs[j].kind \in Protected
  <2>1. j \in 1 .. Len(cs) /\ (j < i \/ j = i) /\ cs[i].kind \in Protected
    BY <1>8, <1>9 DEF Carries, Protected
  <2> QED
    BY <1>9, <2>1 DEF Packed
<1> QED
  BY <1>1, <1>8, <1>10 DEF InFront

\* The records go behind the system blocks, and stand in front.
LEMMA InjectFront ==
    ASSUME NEW bs, IsBlocks(bs), NEW records, IsSeq(records), Texts(Range(records)),
           NEW k \in DOMAIN records
    PROVE  InFront(FoldInject(bs, records), RecordBlock(records, k))
<1> DEFINE n == PrefixEnd(bs, {"System", "ToolSchema"})
           new == [l \in DOMAIN records |-> RecordBlock(records, l)]
           a == n + 1
           cs == Spliced(bs, new, a, n)
<1>1. /\ n \in 0 .. Len(bs) /\ Len(bs) \in Nat
      /\ \A i \in 1 .. n : bs[i].kind \in {"System", "ToolSchema"}
  BY PrefixPlace, BlocksShape
<1>2. FoldInject(bs, records) = SubSeq(bs, 1, n) \o new \o SubSeq(bs, n + 1, Len(bs))
  BY DEF FoldInject, RecordBlock
<1>3. DOMAIN records = 1 .. Len(records) /\ Len(records) \in Nat
      /\ \A l \in 1 .. Len(records) : records[l].size \in Nat /\ records[l].head \subseteq records[l].facts
  BY Shape DEF Texts
<1>4. \A l \in 1 .. Len(records) : IsBlock(new[l]) /\ Made(new[l]) /\ new[l] = RecordBlock(records, l)
  BY <1>3, SummaryMade DEF MadeTags, RecordBlock
<1>5. IsSeq(new) /\ Len(new) = Len(records)
  <2>1. DOMAIN new = 1 .. Len(records) /\ new = [i \in 1 .. Len(records) |-> new[i]]
    BY <1>3
  <2> HIDE DEF new
  <2> QED
    BY <1>3, <2>1, Listed
<1> HIDE DEF new, n
<1>6. IsBlocks(new) /\ \A l \in 1 .. Len(new) : Made(new[l])
  BY <1>4, <1>5 DEF IsBlocks
<1>7. a \in 1 .. Len(bs) + 1 /\ n \in a - 1 .. Len(bs) /\ a - 1 = n
  BY <1>1
<1>8. FoldInject(bs, records) = cs
  BY <1>2, <1>7 DEF Spliced
<1> HIDE DEF a
<1>9. Stand(cs, bs, new, n)
  BY <1>6, <1>7, SpliceStand
<1> HIDE DEF cs
<1>10. /\ n \in Nat /\ Len(cs) \in Nat /\ Len(cs) >= n + Len(records)
       /\ \A l \in 1 .. n : cs[l] = bs[l]
       /\ \A l \in 1 .. Len(records) : cs[n + l] = new[l]
  BY <1>5, <1>9 DEF Stand
<1>11. k \in 1 .. Len(records) /\ n + k \in 1 .. Len(cs) /\ cs[n + k] = RecordBlock(records, k)
  <2>1. k \in 1 .. Len(records)
    BY <1>3
  <2>2. n + k \in 1 .. Len(cs)
    BY <1>3, <1>10, <2>1
  <2> QED
    BY <1>4, <1>10, <2>1, <2>2
<1>12. ASSUME NEW j \in 1 .. n + k PROVE cs[j].kind \in Protected
  <2>1. CASE j <= n
    <3>1. j \in 1 .. n
      BY <1>10, <2>1
    <3> QED
      BY <1>1, <1>10, <3>1 DEF Protected
  <2>2. CASE ~(j <= n)
    <3>1. j - n \in 1 .. Len(records) /\ n + (j - n) = j
      BY <1>3, <1>10, <1>11, <2>2
    <3>2. cs[j] = new[j - n]
      BY <1>10, <3>1
    <3>3. Made(cs[j])
      BY <1>4, <3>1, <3>2
    <3> QED
      BY <3>3 DEF Made, Protected
  <2> QED
    BY <2>1, <2>2
<1> QED
  BY <1>8, <1>11, <1>12 DEF InFront

\* What stands in front stays there, whatever runs next, but for a model's summary.
LEMMA ApplyFront ==
    ASSUME NEW t, t \notin {"guideline_bank", "fold_inject", "llm_summarization"},
           NEW bs, IsBlocks(bs), NEW o \in Options, NEW records,
           NEW b, Carries(b), InFront(bs, b)
    PROVE  InFront(Apply(t, bs, o, records), b)
<1> DEFINE cs == Apply(t, bs, o, records)
<1>0. /\ DOMAIN bs = 1 .. Len(bs) /\ Len(bs) \in Nat
      /\ b.kind \in Protected /\ b.kind \notin {"ToolResult", "Assistant"}
      /\ b.branch = NoName /\ ~b.failed
  BY BlocksShape DEF Carries, Protected
<1>1. CASE t \in {"fold_collapse", "agent_omit", "memory_prune", "bacm", "budget_trim"}
  <2>1. \/ cs = bs
        \/ \E places : cs = At(bs, places) /\ \A i \in 1 .. Len(bs) : bs[i] = b => i \in places
    <3>1. CASE t = "fold_collapse"
      <4>1. cs = FoldCollapse(bs)
        BY <3>1 DEF Apply
      <4>2. \E places : /\ FoldCollapse(bs) = At(bs, places)
                        /\ \A i \in 1 .. Len(bs) : bs[i].branch = NoName => i \in places
        BY <1>0 DEF FoldCollapse
      <4> HIDE DEF cs
      <4> QED
        BY <1>0, <4>1, <4>2
    <3>2. CASE t = "agent_omit"
      <4>1. cs = AgentOmit(bs)
        BY <3>2 DEF Apply
      <4>2. \E places : /\ AgentOmit(bs) = At(bs, places)
                        /\ \A i \in 1 .. Len(bs) : bs[i].kind # "Assistant" => i \in places
        BY <1>0 DEF AgentOmit, Keep
      <4> HIDE DEF cs
      <4> QED
        BY <1>0, <4>1, <4>2
    <3>3. CASE t = "memory_prune"
      <4>1. cs = MemoryPrune(bs, o)
        BY <3>3 DEF Apply
      <4>2. \E places : /\ MemoryPrune(bs, o) = At(bs, places)
                        /\ \A i \in 1 .. Len(bs) : bs[i].kind # "ToolResult" => i \in places
        BY <1>0 DEF MemoryPrune, Keep
      <4> HIDE DEF cs
      <4> QED
        BY <1>0, <4>1, <4>2
    <3>4. CASE t = "bacm"
      <4>1. cs = Bacm(bs, o)
        BY <3>4 DEF Apply
      <4>2. \/ Bacm(bs, o) = bs
            \/ \E places : /\ Bacm(bs, o) = At(bs, places)
                           /\ \A i \in 1 .. Len(bs) : bs[i].kind \in Protected => i \in places
        BY <1>0 DEF Bacm, Keep
      <4> HIDE DEF cs
      <4> QED
        BY <1>0, <4>1, <4>2
    <3>5. CASE t = "budget_trim"
      <4>1. cs = BudgetTrim(bs, o)
        BY <3>5 DEF Apply
      <4>2. \E places : /\ BudgetTrim(bs, o) = At(bs, places)
                        /\ \A i \in 1 .. Len(bs) : bs[i].kind \in Protected => i \in places
        BY <1>0 DEF BudgetTrim, Keep, Trimmable
      <4> HIDE DEF cs
      <4> QED
        BY <1>0, <4>1, <4>2
    <3> QED
      BY <1>1, <3>1, <3>2, <3>3, <3>4, <3>5
  <2> HIDE DEF cs
  <2>2. ASSUME NEW places, cs = At(bs, places), \A i \in 1 .. Len(bs) : bs[i] = b => i \in places
        PROVE  InFront(cs, b)
    BY <2>2, PickFront
  <2> QED
    BY <2>1, <2>2 DEF cs
<1>2. CASE t = "error_compaction"
  <2>1. cs = ErrorCompaction(bs, o)
    BY <1>2 DEF Apply
  <2>2. DOMAIN cs = DOMAIN bs /\ cs = [i \in DOMAIN bs |-> cs[i]]
    BY <2>1 DEF ErrorCompaction
  <2>3. ASSUME NEW i \in 1 .. Len(bs) PROVE cs[i].kind = bs[i].kind /\ (bs[i] = b => cs[i] = b)
    <3>1. IsBlock(bs[i]) /\ i \in DOMAIN bs
      BY <1>0, BlocksShape
    <3>2. bs[i] = b => ~CompactsAt(bs, i, o)
      BY <1>0 DEF CompactsAt
    <3> QED
      BY <2>1, <3>1, <3>2 DEF ErrorCompaction, IsBlock
  <2> HIDE DEF cs
  <2> QED
    BY <2>2, <2>3, MapFront DEF cs
<1>3. CASE t = "consumed_result_mask"
  <2>1. cs = ConsumedResultMask(bs, o)
    BY <1>3 DEF Apply
  <2>2. DOMAIN cs = DOMAIN bs /\ cs = [i \in DOMAIN bs |-> cs[i]]
    BY <2>1 DEF ConsumedResultMask
  <2>3. ASSUME NEW i \in 1 .. Len(bs) PROVE cs[i].kind = bs[i].kind /\ (bs[i] = b => cs[i] = b)
    <3>1. IsBlock(bs[i]) /\ i \in DOMAIN bs
      BY <1>0, BlocksShape
    <3>2. bs[i] = b => ~MasksAt(bs, i, o)
      BY <1>0 DEF MasksAt
    <3> QED
      BY <2>1, <3>1, <3>2 DEF ConsumedResultMask, IsBlock
  <2> HIDE DEF cs
  <2> QED
    BY <2>2, <2>3, MapFront DEF cs
<1>4. CASE t = "summarization"
  BY <1>4, RuleFront DEF Apply
<1>5. CASE t = "cache_packer"
  BY <1>5, PackFront DEF Apply
<1>6. CASE t = "rolling_window"
  BY <1>6, RollingFront DEF Apply
<1>7. CASE /\ t \notin {"fold_collapse", "agent_omit", "memory_prune", "bacm", "budget_trim"}
           /\ t \notin {"error_compaction", "consumed_result_mask", "summarization",
                        "cache_packer", "rolling_window"}
  BY <1>7 DEF Apply
<1> QED
  BY <1>1, <1>2, <1>3, <1>4, <1>5, <1>6, <1>7

\* The record is still to come, or stands in front and nothing rewrites it.
RecordAhead(bs, s, records, k) ==
    \/ "fold_inject" \in Range(s)
    \/ "guideline_bank" \notin Range(s) /\ InFront(bs, RecordBlock(records, k))

RecordInv ==
    (pc = "run" \/ Compiled) /\ "llm_summarization" \notin opts.on =>
        \A k \in DOMAIN Records(blocksIn) : RecordAhead(blocks, todo, Records(blocksIn), k)

LEMMA RecordStep == CompileInv /\ RecordInv /\ [Next]_vars => RecordInv'
<1> SUFFICES ASSUME CompileInv, RecordInv, [Next]_vars PROVE RecordInv'
  OBVIOUS
<1>1. CASE Start
  <2> DEFINE records == Records(ParseTranscript(messages))
  <2>1. /\ blocksIn' = ParseTranscript(messages) /\ opts' = opts
        /\ todo' = BuildPipeline(opts, records) /\ messages \in Inputs /\ opts \in Options
    BY <1>1 DEF Start, CompileInv
  <2>2. Records(blocksIn)' = records
    BY <2>1 DEF Records
  <2>3. IsSeq(records)
    BY <2>1, RecordsTexts
  <2> HIDE DEF records
  <2>4. ASSUME NEW k \in DOMAIN records PROVE "fold_inject" \in Range(todo')
    <3>1. records # <<>>
      BY <2>3, <2>4
    <3> QED
      BY <2>1, <3>1, PipelineStart
  <2> QED
    BY <2>2, <2>4 DEF RecordInv, RecordAhead
<1>2. CASE Transform
  <2> DEFINE records == Records(blocksIn)
             t == Head(todo)
             cs == Apply(t, blocks, opts, records)
  <2> SUFFICES ASSUME "llm_summarization" \notin opts.on, NEW k \in DOMAIN records
               PROVE  RecordAhead(cs, Tail(todo), records, k)
    BY <1>2 DEF Transform, RecordInv, Records
  <2>1. /\ pc = "run" /\ todo # <<>> /\ opts \in Options /\ IsBlocks(blocks)
        /\ Queue(todo) /\ Asked(opts, todo) /\ RecordAhead(blocks, todo, records, k)
    BY <1>2 DEF Transform, CompileInv, Midway, RecordInv
  <2>2. IsSeq(records) /\ Texts(Range(records))
    BY <2>1, RecordsTexts
  <2>3. Range(todo) = {t} \cup Range(Tail(todo)) /\ \A u \in Range(Tail(todo)) : Before(t, u)
    BY <2>1, QueueTail
  <2> HIDE DEF t, records
  <2>4. t # "llm_summarization"
    BY <2>1, <2>3 DEF Asked, Summarizers
  <2>5. Carries(RecordBlock(records, k))
    BY DEF Carries, RecordBlock, NewSummary, Block
  <2>6. CASE t = "fold_inject"
    <3>1. cs = FoldInject(blocks, records)
      BY <2>6 DEF Apply
    <3>2. InFront(cs, RecordBlock(records, k))
      BY <2>1, <2>2, <3>1, InjectFront
    <3>3. "guideline_bank" \notin Range(Tail(todo))
      BY <2>3, <2>6, BeforeOrder
    <3> QED
      BY <3>2, <3>3 DEF RecordAhead
  <2>7. CASE t # "fold_inject" /\ "fold_inject" \in Range(todo)
    BY <2>3, <2>7 DEF RecordAhead
  <2>8. CASE "fold_inject" \notin Range(todo)
    <3>1. /\ t \notin {"guideline_bank", "fold_inject", "llm_summarization"}
          /\ "guideline_bank" \notin Range(Tail(todo)) /\ InFront(blocks, RecordBlock(records, k))
      BY <2>1, <2>3, <2>4, <2>8 DEF RecordAhead
    <3> HIDE DEF cs
    <3>2. InFront(cs, RecordBlock(records, k))
      BY <2>1, <2>5, <3>1, ApplyFront DEF cs
    <3> QED
      BY <3>1, <3>2 DEF RecordAhead
  <2> QED
    BY <2>6, <2>7, <2>8
<1>3. CASE Invalid \/ PutFails \/ Reject \/ PassThrough
  <2>1. pc' = "done" /\ answer'.status \in {"error", "insufficient"}
    BY <1>3 DEF Invalid, PutFails, Reject, PassThrough, Answer
  <2> QED
    BY <2>1 DEF RecordInv, Compiled
<1>4. CASE Sufficient
  <2>1. pc = "run" /\ UNCHANGED <<opts, blocksIn, blocks, todo>>
    BY <1>4 DEF Sufficient
  <2> QED
    BY <2>1 DEF RecordInv, Records
<1>5. CASE UNCHANGED vars
  BY <1>5 DEF vars, RecordInv, Compiled, Records
<1> QED
  BY <1>1, <1>2, <1>3, <1>4, <1>5 DEF Next

\* A handoff record given with the options or derived from them reaches the client
\* as it was injected when no model summarises: it stands in front, among blocks
\* every transform that slices the context spares.
THEOREM RecordsStay == Spec => []RecordsDelivered
<1>1. Init => RecordInv
  BY DEF Init, RecordInv, NoAnswer, Compiled
<1>2. CompileInv /\ RecordInv => RecordsDelivered
  <2> SUFFICES ASSUME CompileInv, RecordInv, Compiled, "llm_summarization" \notin opts.on,
                      NEW k \in DOMAIN Records(blocksIn)
               PROVE  RecordBlock(Records(blocksIn), k) \in Range(answer.blocks)
    BY DEF RecordsDelivered, RecordBlock
  <2>1. todo = <<>> /\ answer.blocks = blocks /\ IsBlocks(blocks)
    BY DEF CompileInv
  <2>2. RecordAhead(blocks, todo, Records(blocksIn), k)
    BY DEF RecordInv
  <2>3. InFront(blocks, RecordBlock(Records(blocksIn), k))
    BY <2>1, <2>2 DEF RecordAhead, Range
  <2>4. DOMAIN blocks = 1 .. Len(blocks)
    BY <2>1, BlocksShape
  <2> QED
    BY <2>1, <2>3, <2>4 DEF InFront, Range
<1> QED
  BY <1>1, <1>2, CompileInvariant, RecordStep, PTL DEF Spec

\* Handoffs reach the client: the records, and of each branch the latest fold.
THEOREM FoldsReach == ASSUME DistinctIds PROVE Spec => []FoldsDelivered
<1>1. RecordsDelivered /\ LatestFoldKept => FoldsDelivered
  BY DEF FoldsDelivered
<1> QED
  BY <1>1, RecordsStay, LatestFoldsKept, PTL
=============================================================================
