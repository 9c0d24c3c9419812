----------------------------- MODULE SNIProofs -----------------------------
(***************************************************************************)
(* ExtractSNI of sni.go finds the host that a hello names, whatever the    *)
(* lengths it declares and however many extensions and names it has.       *)
(*                                                                         *)
(* The loops of the parser are recursive functions.  What they compute is  *)
(* shown by induction, as membership of every number in a set; a least     *)
(* number that is not in it is what NatLessThanWellFounded excludes.       *)
(***************************************************************************)
EXTENDS SNI, WellFoundedInduction, SequenceTheorems, TLAPS

-----------------------------------------------------------------------------
(* Induction and recursion.                                                *)

LEMMA LessThan ==
    \E R : IsWellFoundedOn(R, Nat) /\ \A x, y \in Nat : <<y, x>> \in R <=> y < x
<1>1. \A x, y \in Nat : <<y, x>> \in OpToRel(<, Nat) <=> y < x
  BY DEF OpToRel
<1> QED
  BY <1>1, NatLessThanWellFounded, Zenon

LEMMA LeastElement ==
    ASSUME NEW T \in SUBSET Nat, T # {}
    PROVE  \E n \in T : \A m \in T : n <= m
<1>1. PICK R : IsWellFoundedOn(R, Nat) /\ \A x, y \in Nat : <<y, x>> \in R <=> y < x
  BY LessThan
<1>2. PICK n \in T : \A m \in T : ~(<<m, n>> \in R)
  BY <1>1, WFMin
<1>3. n \in Nat /\ \A m \in T : m \in Nat /\ ~(m < n)
  BY <1>1, <1>2
<1> QED
  BY <1>3

LEMMA InductionUpTo ==
    ASSUME NEW N \in Nat, NEW T, 0 \in T, \A n \in 0 .. N - 1 : n \in T => n + 1 \in T
    PROVE  0 .. N \subseteq T
<1> DEFINE U == {n \in 0 .. N : n \notin T}
<1>1. U \in SUBSET Nat
  OBVIOUS
<1>2. ASSUME U # {} PROVE FALSE
  <2> HIDE DEF U
  <2>1. PICK n \in U : \A m \in U : n <= m
    BY <1>1, <1>2, LeastElement
  <2>2. n # 0 /\ n - 1 \in 0 .. N - 1 /\ n - 1 \in T
    BY <1>1, <2>1 DEF U
  <2> QED
    BY <2>1, <2>2 DEF U
<1> QED
  BY <1>2

\* A function on 0 .. N is given by its first value and by how each value
\* comes of the one before.
Follows(g, base, G, N) == g[0] = base /\ \A n \in 1 .. N : g[n] = G[n][g[n - 1]]

LEMMA Recursion ==
    ASSUME NEW N \in Nat, NEW S, NEW base \in S, NEW G \in [1 .. N -> [S -> S]]
    PROVE  \E g \in [0 .. N -> S] : Follows(g, base, G, N)
<1> DEFINE Upto(n, g) == g[0] = base /\ \A i \in 1 .. n : g[i] = G[i][g[i - 1]]
           T == {n \in 0 .. N : \E g \in [0 .. n -> S] : Upto(n, g)}
<1>1. 0 \in T
  <2>1. [i \in 0 .. 0 |-> base] \in [0 .. 0 -> S] /\ Upto(0, [i \in 0 .. 0 |-> base])
    OBVIOUS
  <2> HIDE DEF Upto
  <2> QED
    BY <2>1
<1>2. ASSUME NEW n \in 0 .. N - 1, n \in T PROVE n + 1 \in T
  <2>1. PICK g \in [0 .. n -> S] : Upto(n, g)
    BY <1>2
  <2> DEFINE k == [i \in 0 .. n + 1 |-> IF i = n + 1 THEN G[n + 1][g[n]] ELSE g[i]]
  <2>2. n + 1 \in 1 .. N /\ n \in 0 .. n /\ g[n] \in S
    BY <2>1
  <2>3. G[n + 1][g[n]] \in S
    BY <2>2
  <2>4. k \in [0 .. n + 1 -> S]
    BY <2>3
  <2>5. k[0] = base
    BY <2>1
  <2>6. ASSUME NEW i \in 1 .. n + 1 PROVE k[i] = G[i][k[i - 1]]
    <3>1. CASE i = n + 1
      BY <2>1, <3>1
    <3>2. CASE i # n + 1
      BY <2>1, <3>2
    <3> QED
      BY <3>1, <3>2
  <2>7. Upto(n + 1, k)
    BY <2>5, <2>6
  <2>8. n + 1 \in 0 .. N
    BY <2>2
  <2> QED
    BY <2>4, <2>7, <2>8
<1>3. N \in T
  <2> HIDE DEF T
  <2>1. 0 .. N \subseteq T
    BY <1>1, <1>2, InductionUpTo
  <2> QED
    BY <2>1
<1>4. \E g \in [0 .. N -> S] : Upto(N, g)
  <2> HIDE DEF Upto
  <2> QED
    BY <1>3
<1> QED
  BY <1>4 DEF Follows

-----------------------------------------------------------------------------
(* The two recursive functions.                                            *)

LEMMA CursorMoves ==
    ASSUME NEW start \in Int, NEW sizes \in Seq(Nat)
    PROVE  /\ Cursor(start, sizes) \in [0 .. Len(sizes) -> Int]
           /\ Cursor(start, sizes)[0] = start
           /\ \A n \in 1 .. Len(sizes) :
                 Cursor(start, sizes)[n] = Cursor(start, sizes)[n - 1] + sizes[n]
<1>1. PICK N \in Nat : N = Len(sizes) /\ \A n \in 1 .. N : sizes[n] \in Nat
  OBVIOUS
<1> DEFINE G == [n \in 1 .. N |-> [x \in Int |-> x + sizes[n]]]
           Is(at) == at = [n \in 0 .. N |-> IF n = 0 THEN start ELSE at[n - 1] + sizes[n]]
           f == Cursor(start, sizes)
           T == {n \in 0 .. N : f[n] \in Int}
<1>2. G \in [1 .. N -> [Int -> Int]]
  BY <1>1
<1>3. PICK g \in [0 .. N -> Int] : Follows(g, start, G, N)
  <2> HIDE DEF G
  <2> QED
    BY <1>2, Recursion, Zenon
<1>4. ASSUME NEW n \in 1 .. N PROVE g[n] = g[n - 1] + sizes[n]
  <2>1. n - 1 \in 0 .. N
    OBVIOUS
  <2>2. ASSUME NEW x \in Int PROVE G[n][x] = x + sizes[n]
    OBVIOUS
  <2> HIDE DEF G
  <2>3. g[n - 1] \in Int
    BY <2>1
  <2> QED
    BY <1>3, <2>2, <2>3 DEF Follows
<1>5. Is(g)
  BY <1>3, <1>4 DEF Follows
<1>6. Is(CHOOSE at : Is(at))
  BY <1>5, Zenon
<1>7. f = CHOOSE at : Is(at)
  BY <1>1 DEF Cursor
<1>8. f = [n \in 0 .. N |-> IF n = 0 THEN start ELSE f[n - 1] + sizes[n]]
  BY <1>6, <1>7, Zenon
<1> HIDE DEF f
<1>9. f[0] = start /\ \A n \in 1 .. N : f[n] = f[n - 1] + sizes[n]
  BY <1>8
<1>10. 0 \in T
  BY <1>9
<1>11. ASSUME NEW n \in 0 .. N - 1, n \in T PROVE n + 1 \in T
  BY <1>1, <1>9, <1>11
<1>12. 0 .. N \subseteq T
  <2> HIDE DEF T
  <2> QED
    BY <1>10, <1>11, InductionUpTo
<1>13. f \in [0 .. N -> Int]
  BY <1>8, <1>12
<1> QED
  BY <1>1, <1>9, <1>13 DEF f

\* What an item may yield.
Yields(hosts) == [host : hosts \cup {NoHost}, bad : BOOLEAN]
Torned == [Nothing EXCEPT !.bad = TRUE]
Item(hosts) == [len : Nat, is : Yields(hosts)]
Items(hosts) == Seq(Item(hosts))
States(hosts) == [left : Int, is : Yields(hosts)]

LEMMA YieldsAre ==
    ASSUME NEW hosts
    PROVE  /\ Nothing \in Yields(hosts) /\ Torned \in Yields(hosts)
           /\ Nothing.host = NoHost /\ ~Nothing.bad /\ Torned.host = NoHost /\ Torned.bad
           /\ Torned # Nothing
BY DEF Nothing, Torned, Yields

LEMMA Advances ==
    ASSUME NEW hosts, NEW width \in Nat, NEW s \in States(hosts),
           NEW item \in Item(hosts)
    PROVE  /\ Advance(s, width, item) \in States(hosts)
           /\ s.is # Nothing \/ s.left < width => Advance(s, width, item) = s
           /\ s.is = Nothing /\ s.left >= width /\ item.len > s.left - width =>
                 Advance(s, width, item) = [left |-> s.left, is |-> Torned]
           /\ s.is = Nothing /\ s.left >= width /\ item.len <= s.left - width =>
                 Advance(s, width, item) = [left |-> s.left - width - item.len, is |-> item.is]
<1>1. s = [left |-> s.left, is |-> s.is] /\ s.left \in Int /\ s.is \in Yields(hosts)
  BY DEF States
<1>2. item.len \in Nat /\ item.is \in Yields(hosts)
  BY DEF Item
<1>3. Torned \in Yields(hosts)
  BY YieldsAre
<1>4. [s EXCEPT !.is = Torned] = [left |-> s.left, is |-> Torned]
  BY <1>1
<1>5. CASE s.is # Nothing \/ s.left < width
  BY <1>1, <1>2, <1>5 DEF Advance
<1>6. CASE s.is = Nothing /\ s.left >= width /\ item.len > s.left - width
  <2>1. ~(s.left < width)
    BY <1>1, <1>6
  <2>2. Advance(s, width, item) = [left |-> s.left, is |-> Torned]
    BY <1>4, <1>6, <2>1 DEF Advance, Torned
  <2>3. [left |-> s.left, is |-> Torned] \in States(hosts)
    BY <1>1, <1>3 DEF States
  <2> QED
    BY <1>1, <1>2, <1>6, <2>1, <2>2, <2>3
<1>7. CASE s.is = Nothing /\ s.left >= width /\ item.len <= s.left - width
  <2>1. ~(s.left < width) /\ ~(item.len > s.left - width)
    BY <1>1, <1>2, <1>7
  <2>2. Advance(s, width, item) = [left |-> s.left - width - item.len, is |-> item.is]
    BY <1>7, <2>1 DEF Advance
  <2>3. [left |-> s.left - width - item.len, is |-> item.is] \in States(hosts)
    BY <1>1, <1>2 DEF States
  <2> QED
    BY <1>1, <1>2, <1>7, <2>1, <2>2, <2>3
<1> QED
  BY <1>1, <1>2, <1>5, <1>6, <1>7

\* The states of the loop over the items.
Run(st, width, room, items) ==
    /\ st[0] = [left |-> room, is |-> Nothing]
    /\ \A n \in 1 .. Len(items) : st[n] = Advance(st[n - 1], width, items[n])

LEMMA ItemsAre ==
    ASSUME NEW hosts, NEW items \in Items(hosts)
    PROVE  /\ Len(items) \in Nat
           /\ \A n \in 1 .. Len(items) : items[n] \in Item(hosts)
BY ElementOfSeq, LenProperties DEF Items

LEMMA ScanRuns ==
    ASSUME NEW hosts, NEW width \in Nat, NEW room \in Int, NEW items \in Items(hosts)
    PROVE  \E st \in [0 .. Len(items) -> States(hosts)] :
              Run(st, width, room, items) /\ Scan(width, room, items) = st[Len(items)].is
<1>1. PICK N \in Nat :
          N = Len(items) /\ \A n \in 1 .. N : items[n] \in Item(hosts)
  BY ItemsAre
<1> DEFINE start == [left |-> room, is |-> Nothing]
           G == [n \in 1 .. N |-> [x \in States(hosts) |-> Advance(x, width, items[n])]]
           Is(st) == st = [n \in 0 .. N |-> IF n = 0 THEN start ELSE Advance(st[n - 1], width, items[n])]
           f == CHOOSE st : Is(st)
           T == {n \in 0 .. N : f[n] \in States(hosts)}
<1>2. \A n \in 1 .. N : \A x \in States(hosts) : Advance(x, width, items[n]) \in States(hosts)
  BY <1>1, Advances
<1>3. G \in [1 .. N -> [States(hosts) -> States(hosts)]]
  BY <1>2
<1>4. start \in States(hosts)
  BY YieldsAre DEF States
<1>5. PICK g \in [0 .. N -> States(hosts)] : Follows(g, start, G, N)
  <2> HIDE DEF G, start
  <2> QED
    BY <1>3, <1>4, Recursion, Zenon
<1>6. ASSUME NEW n \in 1 .. N PROVE g[n] = Advance(g[n - 1], width, items[n])
  <2>1. n - 1 \in 0 .. N
    OBVIOUS
  <2>2. ASSUME NEW x \in States(hosts) PROVE G[n][x] = Advance(x, width, items[n])
    OBVIOUS
  <2> HIDE DEF G
  <2>3. g[n - 1] \in States(hosts)
    BY <2>1
  <2> QED
    BY <1>5, <2>2, <2>3 DEF Follows
<1>7. Is(g)
  <2> HIDE DEF start
  <2> QED
    BY <1>5, <1>6 DEF Follows
<1>8. Is(f)
  BY <1>7, Zenon
<1>9. Scan(width, room, items) = f[N].is
  BY <1>1 DEF Scan
<1>10. f = [n \in 0 .. N |-> IF n = 0 THEN start ELSE Advance(f[n - 1], width, items[n])]
  BY <1>8, Zenon
<1> HIDE DEF f, start
<1>11. f[0] = start /\ \A n \in 1 .. N : f[n] = Advance(f[n - 1], width, items[n])
  BY <1>10
<1>12. 0 \in T
  BY <1>4, <1>11
<1>13. ASSUME NEW n \in 0 .. N - 1, n \in T PROVE n + 1 \in T
  BY <1>2, <1>11, <1>13
<1>14. 0 .. N \subseteq T
  <2> HIDE DEF T
  <2> QED
    BY <1>12, <1>13, InductionUpTo
<1>15. f \in [0 .. N -> States(hosts)]
  BY <1>10, <1>14
<1>16. Run(f, width, room, items)
  BY <1>1, <1>11 DEF Run, start
<1> QED
  BY <1>1, <1>9, <1>15, <1>16

\* Where the items end, and what it takes to fit.
Ends(items, width) == Cursor(0, [j \in 1 .. Len(items) |-> width + items[j].len])

LEMMA EndsGrow ==
    ASSUME NEW items, NEW N \in Nat, N = Len(items),
           \A n \in 1 .. N : items[n].len \in Nat, NEW width \in Nat
    PROVE  /\ Ends(items, width) \in [0 .. N -> Int]
           /\ Ends(items, width)[0] = 0
           /\ \A n \in 1 .. N :
                 Ends(items, width)[n] = Ends(items, width)[n - 1] + width + items[n].len
<1> DEFINE sizes == [j \in 1 .. N |-> width + items[j].len]
<1>1. \A j \in 1 .. N : width + items[j].len \in Nat
  OBVIOUS
<1>2. sizes \in Seq(Nat) /\ Len(sizes) = N
  BY <1>1
<1>3. \A n \in 1 .. N : sizes[n] = width + items[n].len
  OBVIOUS
<1>4. Ends(items, width) = Cursor(0, sizes)
  BY DEF Ends
<1> HIDE DEF sizes
<1> DEFINE E == Cursor(0, sizes)
<1>5. E \in [0 .. N -> Int] /\ E[0] = 0 /\ \A n \in 1 .. N : E[n] = E[n - 1] + sizes[n]
  BY <1>2, CursorMoves
<1> HIDE DEF E
<1>6. ASSUME NEW n \in 1 .. N PROVE E[n] = E[n - 1] + width + items[n].len
  <2>1. n - 1 \in 0 .. N
    OBVIOUS
  <2>2. E[n - 1] \in Int /\ items[n].len \in Nat
    BY <1>5, <2>1
  <2>3. E[n] = E[n - 1] + (width + items[n].len)
    BY <1>3, <1>5
  <2> QED
    BY <2>2, <2>3
<1> QED
  BY <1>4, <1>5, <1>6 DEF E

\* What fits, fits with all that comes before it.
LEMMA FitsDown ==
    ASSUME NEW items, NEW N \in Nat, N = Len(items),
           \A n \in 1 .. N : items[n].len \in Nat, NEW width \in Nat, NEW room \in Nat
    PROVE  /\ Fits(items, width, room, 0)
           /\ \A i \in 0 .. N : \A j \in 0 .. i :
                 Fits(items, width, room, i) => Fits(items, width, room, j)
<1> DEFINE E == Ends(items, width)
           T == {n \in 0 .. N : \A j \in 0 .. n : E[j] <= E[n]}
<1>1. E \in [0 .. N -> Int] /\ E[0] = 0 /\ \A n \in 1 .. N : E[n] = E[n - 1] + width + items[n].len
  BY EndsGrow
<1>2. \A i \in 0 .. N : Fits(items, width, room, i) <=> E[i] <= room
  BY DEF Fits, Ends
<1> HIDE DEF E
<1>3. 0 \in T
  BY <1>1
<1>4. ASSUME NEW n \in 0 .. N - 1, n \in T PROVE n + 1 \in T
  <2>1. n + 1 \in 1 .. N /\ E[n] \in Int /\ E[n + 1] \in Int /\ items[n + 1].len \in Nat
    BY <1>1
  <2>2. E[n] <= E[n + 1]
    <3>1. E[n + 1] = E[n] + width + items[n + 1].len
      BY <1>1, <2>1
    <3> QED
      BY <2>1, <3>1
  <2>3. ASSUME NEW j \in 0 .. n + 1 PROVE E[j] <= E[n + 1]
    <3>1. j \in 0 .. N /\ E[j] \in Int
      <4>1. j \in 0 .. N
        OBVIOUS
      <4> QED
        BY <1>1, <4>1
    <3>2. CASE j = n + 1
      BY <2>1, <3>2
    <3>3. CASE j # n + 1
      <4>1. j \in 0 .. n
        BY <3>3
      <4>2. E[j] <= E[n]
        BY <1>4, <4>1
      <4> QED
        BY <2>1, <2>2, <3>1, <4>2
    <3> QED
      BY <3>2, <3>3
  <2> QED
    BY <2>1, <2>3
<1>5. 0 .. N \subseteq T
  <2> HIDE DEF T
  <2> QED
    BY <1>3, <1>4, InductionUpTo
<1>6. ASSUME NEW i \in 0 .. N, NEW j \in 0 .. i, E[i] <= room PROVE E[j] <= room
  <2>1. E[j] \in Int /\ E[i] \in Int
    <3>1. j \in 0 .. N
      OBVIOUS
    <3> QED
      BY <1>1, <3>1
  <2>2. E[j] <= E[i]
    <3>1. i \in T
      BY <1>5
    <3> QED
      BY <3>1
  <2> QED
    BY <1>6, <2>1, <2>2
<1>7. ASSUME NEW i \in 0 .. N, NEW j \in 0 .. i PROVE j \in 0 .. N
  OBVIOUS
<1> QED
  BY <1>1, <1>2, <1>6, <1>7

(***************************************************************************)
(* One loop of the parser.  Found(i): item i is the first to yield         *)
(* something and lies within the room.                                     *)
(***************************************************************************)
Quiet(items, width, room, n) ==
    \A i \in 1 .. n : Fits(items, width, room, i) => items[i].is = Nothing

Found(items, width, room, i) ==
    /\ Fits(items, width, room, i) /\ items[i].is # Nothing
    /\ Quiet(items, width, room, i - 1)

\* The state after n items.
Reached(s, items, width, room, n) ==
    /\ Quiet(items, width, room, n) /\ Fits(items, width, room, n) =>
          s.left = room - Ends(items, width)[n] /\ s.is = Nothing
    /\ \A i \in 1 .. n : Found(items, width, room, i) => s.is = items[i].is
    /\ Quiet(items, width, room, n) /\ ~Fits(items, width, room, n) =>
          IF \E k \in 0 .. n - 1 : Torn(items, width, room, k) THEN s.is = Torned
          ELSE s.is = Nothing /\ s.left < width

\* Which of the three branches of the loop is taken, as a matter of where
\* the items end: e bytes are behind, the next item has l after its header.
LEMMA Branches ==
    ASSUME NEW e \in Int, NEW l \in Nat, NEW width \in Nat, NEW room \in Nat
    PROVE  /\ room - e < width => ~(e + width + l <= room) /\ ~(e <= room - width)
           /\ room - e >= width /\ l > room - e - width =>
                 ~(e + width + l <= room) /\ e <= room - width
           /\ room - e >= width /\ l <= room - e - width =>
                 e + width + l <= room /\ room - e - width - l = room - (e + width + l)
OBVIOUS

LEMMA ReachedNext ==
    ASSUME NEW hosts, NEW items, NEW N \in Nat, N = Len(items), NEW width \in Nat, NEW room \in Nat,
           \A n \in 1 .. N : items[n] \in Item(hosts),
           NEW n \in 0 .. N - 1, NEW s \in States(hosts), Reached(s, items, width, room, n)
    PROVE  Reached(Advance(s, width, items[n + 1]), items, width, room, n + 1)
<1> DEFINE E == Ends(items, width)
           F(i) == Fits(items, width, room, i)
           Q(i) == Quiet(items, width, room, i)
           item == items[n + 1]
           t == Advance(s, width, item)
<1>1. n \in 0 .. N /\ n + 1 \in 1 .. N /\ item \in Item(hosts)
  OBVIOUS
<1>2. /\ E[n] \in Int /\ E[n + 1] \in Int /\ E[n + 1] = E[n] + width + item.len
      /\ item.len \in Nat
  <2>0. \A m \in 1 .. N : items[m].len \in Nat
    BY DEF Item
  <2>1. E \in [0 .. N -> Int] /\ \A m \in 1 .. N : E[m] = E[m - 1] + width + items[m].len
    BY <2>0, EndsGrow
  <2> HIDE DEF E, item
  <2>2. E[n] \in Int /\ E[n + 1] \in Int
    <3>1. n + 1 \in 0 .. N
      OBVIOUS
    <3> QED
      BY <1>1, <2>1, <3>1
  <2>3. item.len \in Nat
    BY <1>1, <2>0 DEF item
  <2>4. E[n + 1] = E[(n + 1) - 1] + width + items[n + 1].len
    BY <1>1, <2>1, Zenon
  <2>5. (n + 1) - 1 = n
    OBVIOUS
  <2>6. E[n + 1] = E[n] + width + item.len
    BY <2>4, <2>5, Zenon DEF item
  <2> QED
    BY <2>2, <2>3, <2>6
<1>3. (F(n) <=> E[n] <= room) /\ (F(n + 1) <=> E[n + 1] <= room)
  BY DEF Fits, Ends
<1>4. \A k \in 0 .. n : Torn(items, width, room, k) <=> F(k) /\ ~F(k + 1) /\ E[k] <= room - width
  BY DEF Torn, Fits, Ends
<1>5. \A i \in 0 .. n + 1 : \A j \in 0 .. i : F(i) => F(j)
  <2>1. \A m \in 1 .. N : items[m].len \in Nat
    BY DEF Item
  <2>2. \A i \in 0 .. N : \A j \in 0 .. i : F(i) => F(j)
    BY <2>1, FitsDown
  <2> HIDE DEF F
  <2> QED
    BY <2>2
<1>6. Q(n + 1) <=> Q(n) /\ (F(n + 1) => item.is = Nothing)
  BY DEF Quiet
<1>7. /\ s.left \in Int
      /\ s.is # Nothing \/ s.left < width => t = s
      /\ s.is = Nothing /\ s.left >= width /\ item.len > s.left - width => t.is = Torned
      /\ s.is = Nothing /\ s.left >= width /\ item.len <= s.left - width =>
            t.left = s.left - width - item.len /\ t.is = item.is
  <2>1. s.left \in Int
    BY DEF States
  <2> HIDE DEF item
  <2>2. /\ s.is # Nothing \/ s.left < width => t = s
        /\ s.is = Nothing /\ s.left >= width /\ item.len > s.left - width =>
              t = [left |-> s.left, is |-> Torned]
        /\ s.is = Nothing /\ s.left >= width /\ item.len <= s.left - width =>
              t = [left |-> s.left - width - item.len, is |-> item.is]
    BY <1>1, Advances
  <2> HIDE DEF t
  <2> QED
    BY <2>1, <2>2
<1>13. /\ room - E[n] < width => ~F(n + 1) /\ ~Torn(items, width, room, n)
       /\ room - E[n] >= width /\ item.len > room - E[n] - width =>
             ~F(n + 1) /\ (F(n) => Torn(items, width, room, n))
       /\ room - E[n] >= width /\ item.len <= room - E[n] - width =>
             F(n + 1) /\ room - E[n] - width - item.len = room - E[n + 1]
  <2>1. n \in 0 .. n
    OBVIOUS
  <2>2. Torn(items, width, room, n) <=> F(n) /\ ~F(n + 1) /\ E[n] <= room - width
    BY <1>4, <2>1
  <2> HIDE DEF E, item, F
  <2>3. /\ room - E[n] < width => ~(E[n + 1] <= room) /\ ~(E[n] <= room - width)
        /\ room - E[n] >= width /\ item.len > room - E[n] - width =>
              ~(E[n + 1] <= room) /\ E[n] <= room - width
        /\ room - E[n] >= width /\ item.len <= room - E[n] - width =>
              E[n + 1] <= room /\ room - E[n] - width - item.len = room - E[n + 1]
    BY <1>2, Branches
  <2> QED
    BY <1>3, <2>2, <2>3
<1>8. ASSUME NEW i \in 1 .. n + 1, Found(items, width, room, i), i # n + 1
      PROVE  i \in 1 .. n /\ ~Q(n) /\ ~Q(n + 1) /\ s.is = items[i].is /\ s.is # Nothing
  BY <1>8 DEF Found, Quiet, Reached
<1>9. Found(items, width, room, n + 1) <=> F(n + 1) /\ item.is # Nothing /\ Q(n)
  BY DEF Found
<1> HIDE DEF E, F, Q, item, t
<1>10. CASE ~Q(n)
  <2>1. ~Q(n + 1) /\ ~Found(items, width, room, n + 1)
    BY <1>6, <1>9, <1>10
  <2>2. ASSUME NEW i \in 1 .. n + 1, Found(items, width, room, i) PROVE t.is = items[i].is
    BY <1>7, <1>8, <2>1, <2>2
  <2> QED
    BY <2>1, <2>2 DEF Reached, Q, t, item
<1>11. CASE Q(n) /\ F(n)
  <2>1. s.left = room - E[n] /\ s.is = Nothing
    BY <1>11 DEF Reached, Q, F, E
  <2>2. \A i \in 1 .. n : ~Found(items, width, room, i)
    BY <1>8, <1>11
  <2>3. \A k \in 0 .. n - 1 : ~Torn(items, width, room, k)
    BY <1>4, <1>5, <1>11
  <2>4. CASE s.left < width
    <3>1. ~F(n + 1) /\ t = s /\ ~Torn(items, width, room, n)
      <4>1. t = s
        BY <1>7, <2>4
      <4> QED
        BY <1>13, <2>1, <2>4, <4>1
    <3>2. \A k \in 0 .. n : ~Torn(items, width, room, k)
      BY <2>3, <3>1
    <3>3. \A i \in 1 .. n + 1 : ~Found(items, width, room, i)
      BY <1>9, <2>2, <3>1
    <3> QED
      BY <2>1, <2>4, <3>1, <3>2, <3>3 DEF Reached, F, t, item
  <2>5. CASE s.left >= width /\ item.len > s.left - width
    <3>1. ~F(n + 1) /\ t.is = Torned /\ Torn(items, width, room, n)
      <4>1. t.is = Torned
        BY <1>7, <2>1, <2>5
      <4>2. room - E[n] >= width /\ item.len > room - E[n] - width
        BY <2>1, <2>5
      <4> QED
        BY <1>11, <1>13, <4>1, <4>2
    <3>2. \E k \in 0 .. (n + 1) - 1 : Torn(items, width, room, k)
      BY <3>1
    <3>3. \A i \in 1 .. n + 1 : ~Found(items, width, room, i)
      BY <1>9, <2>2, <3>1
    <3> QED
      BY <3>1, <3>2, <3>3 DEF Reached, F, t, item
  <2>6. CASE s.left >= width /\ item.len <= s.left - width
    <3>1. F(n + 1) /\ t.left = room - E[n + 1] /\ t.is = item.is
      <4>1. t.left = s.left - width - item.len /\ t.is = item.is
        BY <1>7, <2>1, <2>6
      <4>2. room - E[n] >= width /\ item.len <= room - E[n] - width
        BY <2>1, <2>6
      <4> QED
        BY <1>13, <2>1, <4>1, <4>2
    <3>2. Q(n + 1) => t.is = Nothing
      BY <1>6, <3>1
    <3>3. \A i \in 1 .. n + 1 : Found(items, width, room, i) => t.is = items[i].is
      BY <2>2, <3>1 DEF item
    <3> QED
      BY <3>1, <3>2, <3>3 DEF Reached, F, Q, E, t, item
  <2> QED
    BY <1>2, <1>7, <2>4, <2>5, <2>6
<1>12. CASE Q(n) /\ ~F(n)
  <2>1. ~F(n + 1) /\ ~Found(items, width, room, n + 1)
    BY <1>5, <1>9, <1>12
  <2>2. \A i \in 1 .. n + 1 : ~Found(items, width, room, i)
    BY <1>8, <1>12, <2>1
  <2>3. ~Torn(items, width, room, n)
    BY <1>4, <1>12
  <2>4. (\E k \in 0 .. (n + 1) - 1 : Torn(items, width, room, k))
          <=> \E k \in 0 .. n - 1 : Torn(items, width, room, k)
    BY <2>3
  <2>5. IF \E k \in 0 .. n - 1 : Torn(items, width, room, k) THEN s.is = Torned
        ELSE s.is = Nothing /\ s.left < width
    BY <1>12 DEF Reached, Q, F
  <2>6. t = s
    BY <1>7, <2>5, YieldsAre
  <2> QED
    BY <2>1, <2>2, <2>4, <2>5, <2>6 DEF Reached, F, t, item
<1> QED
  BY <1>10, <1>11, <1>12

\* What the loop yields: what the first item does that lies within the room
\* and yields something, or else whether an item is torn.
LEMMA Scanned ==
    ASSUME NEW hosts, NEW width \in Nat, NEW room \in Nat, NEW items \in Items(hosts)
    PROVE  /\ Scan(width, room, items) \in Yields(hosts)
           /\ \A i \in 1 .. Len(items) : Found(items, width, room, i) =>
                 Scan(width, room, items) = items[i].is
           /\ Quiet(items, width, room, Len(items)) =>
                 Scan(width, room, items) =
                    IF \E k \in 0 .. Len(items) - 1 : Torn(items, width, room, k) THEN Torned ELSE Nothing
<1>1. PICK N \in Nat : N = Len(items) /\ \A n \in 1 .. N : items[n] \in Item(hosts)
  BY ItemsAre
<1>2. PICK st \in [0 .. N -> States(hosts)] :
          Run(st, width, room, items) /\ Scan(width, room, items) = st[N].is
  BY <1>1, ScanRuns
<1> DEFINE T == {n \in 0 .. N : Reached(st[n], items, width, room, n)}
<1>3. \A n \in 1 .. N : items[n].len \in Nat
  BY <1>1 DEF Item
<1>4. 0 \in T
  <2>1. st[0].left = room /\ st[0].is = Nothing
    BY <1>2 DEF Run
  <2>2. Ends(items, width)[0] = 0
    BY <1>1, <1>3, EndsGrow
  <2>3. Fits(items, width, room, 0)
    BY <1>1, <1>3, FitsDown
  <2>4. room = room - 0
    OBVIOUS
  <2> QED
    BY <1>1, <2>1, <2>2, <2>3, <2>4 DEF Reached
<1>5. ASSUME NEW n \in 0 .. N - 1, n \in T PROVE n + 1 \in T
  <2>1. n \in 0 .. N /\ n + 1 \in 1 .. N /\ n + 1 \in 0 .. N /\ (n + 1) - 1 = n
    OBVIOUS
  <2>2. st[n] \in States(hosts) /\ Reached(st[n], items, width, room, n)
    BY <1>5, <2>1
  <2>3. Reached(Advance(st[n], width, items[n + 1]), items, width, room, n + 1)
    BY <1>1, <2>2, ReachedNext
  <2>4. st[n + 1] = Advance(st[n], width, items[n + 1])
    BY <1>1, <1>2, <2>1 DEF Run
  <2> QED
    BY <2>1, <2>3, <2>4
<1>6. 0 .. N \subseteq T
  <2> HIDE DEF T
  <2> QED
    BY <1>4, <1>5, InductionUpTo
<1>7. Reached(st[N], items, width, room, N) /\ st[N] \in States(hosts)
  BY <1>6
<1>8. ASSUME Quiet(items, width, room, N), Fits(items, width, room, N)
      PROVE  st[N].is = Nothing /\ \A k \in 0 .. N - 1 : ~Torn(items, width, room, k)
  <2>0. N = Len(items) /\ N \in 0 .. N
    BY <1>1
  <2>1. \A j \in 0 .. N : Fits(items, width, room, j)
    BY <1>3, <1>8, <2>0, FitsDown
  <2>2. \A k \in 0 .. N - 1 : Fits(items, width, room, k + 1)
    BY <2>1
  <2> QED
    BY <1>7, <1>8, <2>2 DEF Reached, Torn
<1> QED
  BY <1>1, <1>2, <1>7, <1>8 DEF Reached, States

\* Where items end depends on their lengths only.
LEMMA SameEnds ==
    ASSUME NEW a, NEW b, NEW N \in Nat, N = Len(a), N = Len(b),
           \A j \in 1 .. N : a[j].len = b[j].len, NEW width, NEW room
    PROVE  \A i : /\ Fits(a, width, room, i) <=> Fits(b, width, room, i)
                  /\ Torn(a, width, room, i) <=> Torn(b, width, room, i)
<1>1. [j \in 1 .. Len(a) |-> width + a[j].len] = [j \in 1 .. Len(b) |-> width + b[j].len]
  OBVIOUS
<1>2. \A r, i : Fits(a, width, r, i) <=> Fits(b, width, r, i)
  BY <1>1, Zenon DEF Fits
<1> QED
  BY <1>2 DEF Torn

LEMMA Least ==
    ASSUME NEW T \in SUBSET Nat, T # {}
    PROVE  Indices!Min(T) \in T /\ \A m \in T : Indices!Min(T) <= m
BY LeastElement DEF Indices!Min

\* The first item that yields something within the room, if any does.
LEMMA FoundOrQuiet ==
    ASSUME NEW items, NEW width, NEW room, NEW N \in Nat
    PROVE  Quiet(items, width, room, N) \/ \E i \in 1 .. N : Found(items, width, room, i)
<1> DEFINE T == {i \in 1 .. N : Fits(items, width, room, i) /\ items[i].is # Nothing}
<1>1. CASE T = {}
  BY <1>1 DEF Quiet
<1>2. CASE T # {}
  <2>1. T \in SUBSET Nat
    OBVIOUS
  <2> HIDE DEF T
  <2>2. PICK i \in T : \A m \in T : i <= m
    BY <1>2, <2>1, LeastElement
  <2>3. i \in 1 .. N /\ Fits(items, width, room, i) /\ items[i].is # Nothing
    BY DEF T
  <2>4. ASSUME NEW j \in 1 .. i - 1, Fits(items, width, room, j) PROVE items[j].is = Nothing
    BY <2>2, <2>3, <2>4 DEF T
  <2> QED
    BY <2>3, <2>4 DEF Found, Quiet
<1> QED
  BY <1>1, <1>2

-----------------------------------------------------------------------------
(* The names of one extension.                                             *)

NameType(hosts) == [type : Nat, len : Nat, host : hosts]
ExtensionType(hosts) == [type : Nat, len : Nat, list : Nat, names : Seq(NameType(hosts))]

LEMMA NameYields ==
    ASSUME NEW hosts, NoHost \notin hosts, NEW n \in NameType(hosts)
    PROVE  /\ Name(n) \in Yields(hosts)
           /\ Name(n) # Nothing <=> n.type = 0 /\ n.len > 0
           /\ Name(n) # Nothing => Name(n).host = n.host
<1>1. n.host \in hosts /\ n.host # NoHost
  BY DEF NameType
<1>2. CASE n.type = 0 /\ n.len > 0
  <2>1. Name(n) = [host |-> n.host, bad |-> FALSE]
    BY <1>2 DEF Name, Nothing
  <2> QED
    BY <1>1, <1>2, <2>1 DEF Yields, Nothing
<1>3. CASE ~(n.type = 0 /\ n.len > 0)
  BY <1>3, YieldsAre DEF Name
<1> QED
  BY <1>2, <1>3

LEMMA ExtensionYields ==
    ASSUME NEW hosts, NoHost \notin hosts, NEW e \in ExtensionType(hosts)
    PROVE  /\ Extension(e) \in Yields(hosts)
           /\ HostNames(e) # {} =>
                 /\ Extension(e) # Nothing
                 /\ Extension(e).host = e.names[Indices!Min(HostNames(e))].host
           /\ HostNames(e) = {} =>
                 Extension(e) = IF Carries(e) /\ \E k \in 0 .. Len(e.names) - 1 : Torn(e.names, 3, e.list, k)
                                THEN Torned ELSE Nothing
<1> DEFINE items == [k \in DOMAIN e.names |-> [len |-> e.names[k].len, is |-> Name(e.names[k])]]
           F(k) == Fits(e.names, 3, e.list, k)
<1>1. PICK N \in Nat : N = Len(e.names) /\ DOMAIN e.names = 1 .. N
                       /\ \A k \in 1 .. N : e.names[k] \in NameType(hosts)
  <2>1. e.names \in Seq(NameType(hosts))
    BY DEF ExtensionType
  <2> QED
    BY <2>1, ElementOfSeq, LenProperties
<1>2. /\ items \in Items(hosts) /\ Len(items) = N
      /\ \A k \in 1 .. N : items[k].len = e.names[k].len /\ items[k].is = Name(e.names[k])
  <2>1. \A k \in 1 .. N : items[k] = [len |-> e.names[k].len, is |-> Name(e.names[k])]
    BY <1>1
  <2>2. ASSUME NEW k \in 1 .. N PROVE items[k] \in Item(hosts)
    <3>1. e.names[k].len \in Nat /\ Name(e.names[k]) \in Yields(hosts)
      BY <1>1, NameYields DEF NameType
    <3>2. items[k] = [len |-> e.names[k].len, is |-> Name(e.names[k])]
      BY <2>1
    <3> HIDE DEF items
    <3> QED
      BY <3>1, <3>2 DEF Item
  <2>3. DOMAIN items = 1 .. N
    BY <1>1
  <2>4. items = [k \in 1 .. N |-> items[k]]
    BY <1>1
  <2> HIDE DEF items
  <2>5. items \in [1 .. N -> Item(hosts)]
    BY <2>2, <2>4
  <2>6. items \in Seq(Item(hosts)) /\ Len(items) = N
    BY <2>5
  <2> QED
    BY <2>1, <2>6 DEF Items
<1>3. Carries(e) => Extension(e) = Scan(3, e.list, items)
  BY DEF Extension
<1>4. e.list \in Nat
  BY DEF ExtensionType
<1> HIDE DEF items
<1>5. \A k : /\ Fits(items, 3, e.list, k) <=> F(k)
             /\ Torn(items, 3, e.list, k) <=> Torn(e.names, 3, e.list, k)
  BY <1>1, <1>2, SameEnds
<1>6. \A k \in 1 .. N : k \in HostNames(e) <=> Carries(e) /\ F(k) /\ items[k].is # Nothing
  <2>1. \A k \in 1 .. N : items[k].is # Nothing <=> e.names[k].type = 0 /\ e.names[k].len > 0
    BY <1>1, <1>2, NameYields
  <2> QED
    BY <1>1, <2>1 DEF HostNames
<1>7. HostNames(e) \subseteq 1 .. N
  BY <1>1 DEF HostNames
<1>8. CASE ~Carries(e)
  <2>1. HostNames(e) = {} /\ Extension(e) = Nothing
    BY <1>8 DEF HostNames, Extension
  <2> QED
    BY <1>8, <2>1, YieldsAre
<1>9. CASE Carries(e) /\ HostNames(e) = {}
  <2>1. Quiet(items, 3, e.list, N)
    BY <1>5, <1>6, <1>9 DEF Quiet
  <2>2. /\ Extension(e) \in Yields(hosts)
        /\ Extension(e) = IF \E k \in 0 .. N - 1 : Torn(items, 3, e.list, k) THEN Torned ELSE Nothing
    BY <1>2, <1>3, <1>4, <1>9, <2>1, Scanned
  <2> QED
    BY <1>1, <1>5, <1>9, <2>2
<1>10. CASE Carries(e) /\ HostNames(e) # {}
  <2>1. PICK k \in HostNames(e) : k = Indices!Min(HostNames(e)) /\ \A m \in HostNames(e) : k <= m
    BY <1>7, <1>10, Least
  <2>2. k \in 1 .. N /\ F(k) /\ items[k].is # Nothing
    BY <1>6, <1>7
  <2>3. Quiet(items, 3, e.list, k - 1)
    <3>1. ASSUME NEW j \in 1 .. k - 1, F(j) PROVE items[j].is = Nothing
      BY <1>6, <1>10, <2>1, <2>2, <3>1
    <3> QED
      BY <1>5, <3>1 DEF Quiet
  <2>4. Found(items, 3, e.list, k)
    BY <1>5, <2>2, <2>3 DEF Found
  <2>5. Extension(e) = items[k].is /\ Extension(e) \in Yields(hosts)
    BY <1>2, <1>3, <1>4, <1>10, <2>2, <2>4, Scanned
  <2>6. items[k].is.host = e.names[k].host
    BY <1>1, <1>2, <2>2, NameYields
  <2> QED
    BY <1>10, <2>1, <2>2, <2>5, <2>6
<1> QED
  BY <1>8, <1>9, <1>10

-----------------------------------------------------------------------------
(* The fields before the extensions.                                       *)

LEMMA FieldsFitMeans ==
    ASSUME NEW hosts, NEW hello \in HelloType(hosts)
    PROVE  FieldsFit(hello) <=>
              HandshakeHeader + 1 + hello.session + 2 + hello.suites + 1 + hello.methods
                + 2 + hello.block <= hello.record
<1>1. /\ hello.session \in Nat /\ hello.suites \in Nat /\ hello.methods \in Nat
      /\ hello.block \in Nat /\ hello.record \in Nat
  BY DEF HelloType
<1> DEFINE sizes == Prefixed(hello)
           at == Cursor(HandshakeHeader, sizes)
<1>2. /\ sizes \in Seq(Nat) /\ Len(sizes) = 4
      /\ sizes[1] = 1 + hello.session /\ sizes[2] = 2 + hello.suites
      /\ sizes[3] = 1 + hello.methods /\ sizes[4] = 2 + hello.block
  BY <1>1 DEF Prefixed
<1>3. HandshakeHeader \in Int /\ HandshakeHeader = 38
  BY DEF HandshakeHeader
<1> HIDE DEF sizes
<1>4. /\ at[0] = HandshakeHeader
      /\ \A n \in 1 .. 4 : at[n] = at[n - 1] + sizes[n]
  <2>1. /\ at[0] = HandshakeHeader
        /\ \A n \in 1 .. Len(sizes) : at[n] = at[n - 1] + sizes[n]
    BY <1>2, <1>3, CursorMoves
  <2> HIDE DEF at
  <2> QED
    BY <1>2, <2>1
<1> HIDE DEF at
<1>5. at[1] = at[0] + sizes[1] /\ at[2] = at[1] + sizes[2]
      /\ at[3] = at[2] + sizes[3] /\ at[4] = at[3] + sizes[4]
  <2>1. at[1] = at[1 - 1] + sizes[1] /\ at[2] = at[2 - 1] + sizes[2]
        /\ at[3] = at[3 - 1] + sizes[3] /\ at[4] = at[4 - 1] + sizes[4]
    BY <1>4
  <2> QED
    BY <2>1
<1>6. at[4] = HandshakeHeader + 1 + hello.session + 2 + hello.suites + 1 + hello.methods
                + 2 + hello.block
  <2> DEFINE session == hello.session  suites == hello.suites
             methods == hello.methods  block == hello.block
  <2>1. session \in Nat /\ suites \in Nat /\ methods \in Nat /\ block \in Nat
    BY <1>1
  <2>2. /\ at[1] = 38 + (1 + session) /\ at[2] = at[1] + (2 + suites)
        /\ at[3] = at[2] + (1 + methods) /\ at[4] = at[3] + (2 + block)
    BY <1>2, <1>3, <1>4, <1>5
  <2> HIDE DEF session, suites, methods, block
  <2>3. at[4] = 38 + 1 + session + 2 + suites + 1 + methods + 2 + block
    BY <2>1, <2>2
  <2> QED
    BY <1>3, <2>3 DEF session, suites, methods, block
<1> QED
  BY <1>6 DEF FieldsFit, at, sizes

-----------------------------------------------------------------------------
(* The extensions of a hello.                                              *)

LEMMA ExtensionsYield ==
    ASSUME NEW hosts, NoHost \notin hosts, NEW hello \in HelloType(hosts), WellFormed(hello)
    PROVE  ExtractSNI(hello) = NamedHost(hello) /\ ExtractSNI(hello) \in hosts \cup {NoHost}
<1> DEFINE exts == hello.extensions
           block == hello.block
           items == [i \in DOMAIN exts |-> [len |-> exts[i].len, is |-> Extension(exts[i])]]
           F(i) == Fits(exts, 4, block, i)
           L == Listed(hello)
           Rent(e) == Carries(e) /\ \E k \in 0 .. Len(e.names) - 1 : Torn(e.names, 3, e.list, k)
<1>0. block \in Nat /\ hello.record \in Nat /\ hello.message \in Nat
  BY DEF HelloType
<1>1. PICK N \in Nat : N = Len(exts) /\ DOMAIN exts = 1 .. N
                       /\ \A i \in 1 .. N : exts[i] \in ExtensionType(hosts)
  <2>1. exts \in Seq(ExtensionType(hosts))
    BY DEF HelloType, ExtensionType, NameType
  <2> QED
    BY <2>1, ElementOfSeq, LenProperties
<1>2. /\ items \in Items(hosts) /\ Len(items) = N
      /\ \A i \in 1 .. N : items[i].len = exts[i].len /\ items[i].is = Extension(exts[i])
  <2>1. \A i \in 1 .. N : items[i] = [len |-> exts[i].len, is |-> Extension(exts[i])]
    BY <1>1
  <2>2. ASSUME NEW i \in 1 .. N PROVE items[i] \in Item(hosts)
    <3>1. exts[i].len \in Nat /\ Extension(exts[i]) \in Yields(hosts)
      <4>1. exts[i] \in ExtensionType(hosts)
        BY <1>1
      <4> HIDE DEF exts
      <4>2. Extension(exts[i]) \in Yields(hosts)
        BY <4>1, ExtensionYields
      <4> QED
        BY <4>1, <4>2 DEF ExtensionType
    <3>2. items[i] = [len |-> exts[i].len, is |-> Extension(exts[i])]
      BY <2>1
    <3> HIDE DEF items
    <3> QED
      BY <3>1, <3>2 DEF Item
  <2>3. items = [i \in 1 .. N |-> items[i]]
    BY <1>1
  <2> HIDE DEF items
  <2>4. items \in [1 .. N -> Item(hosts)]
    BY <2>2, <2>3
  <2>5. items \in Seq(Item(hosts)) /\ Len(items) = N
    BY <2>4
  <2> QED
    BY <2>1, <2>5 DEF Items
<1>3. ExtractSNI(hello) = Scan(4, block, items).host
  <2>1. FieldsFit(hello)
    BY FieldsFitMeans DEF WellFormed
  <2>2. /\ hello.handshake /\ hello.record >= 4 /\ hello.kind = 1
        /\ hello.message >= Fixed /\ 4 + hello.message <= hello.record
    BY <1>0 DEF WellFormed, Fixed
  <2> QED
    BY <2>1, <2>2 DEF ExtractSNI
<1> HIDE DEF items
<1>4. \A i : /\ Fits(items, 4, block, i) <=> F(i)
             /\ Torn(items, 4, block, i) <=> Torn(exts, 4, block, i)
  BY <1>1, <1>2, SameEnds
<1>5. \A i \in 1 .. N :
         /\ HostNames(exts[i]) # {} =>
               /\ items[i].is # Nothing
               /\ items[i].is.host = exts[i].names[Indices!Min(HostNames(exts[i]))].host
         /\ HostNames(exts[i]) = {} => items[i].is = IF Rent(exts[i]) THEN Torned ELSE Nothing
  <2> HIDE DEF exts
  <2> QED
    BY <1>1, <1>2, ExtensionYields
<1>6. /\ Scan(4, block, items) \in Yields(hosts)
      /\ \A i \in 1 .. N : Found(items, 4, block, i) => Scan(4, block, items) = items[i].is
      /\ Quiet(items, 4, block, N) =>
            Scan(4, block, items) = Torned \/ Scan(4, block, items) = Nothing
  <2> DEFINE S == Scan(4, block, items)
             Result == IF \E k \in 0 .. Len(items) - 1 : Torn(items, 4, block, k) THEN Torned ELSE Nothing
  <2>1. 4 \in Nat /\ block \in Nat /\ items \in Items(hosts)
    BY <1>0, <1>2
  <2> HIDE DEF block
  <2>2. /\ S \in Yields(hosts)
        /\ \A i \in 1 .. Len(items) : Found(items, 4, block, i) => S = items[i].is
        /\ Quiet(items, 4, block, Len(items)) => S = Result
    BY <2>1, Scanned
  <2>3. Result = Torned \/ Result = Nothing
    OBVIOUS
  <2> HIDE DEF S, Result
  <2>4. S \in Yields(hosts) /\ (\A i \in 1 .. N : Found(items, 4, block, i) => S = items[i].is)
        /\ (Quiet(items, 4, block, N) => S = Torned \/ S = Nothing)
    BY <1>2, <2>2, <2>3
  <2> QED
    BY <2>4 DEF S
<1>7. ExtractSNI(hello) \in hosts \cup {NoHost}
  BY <1>3, <1>6 DEF Yields
<1>8. L \subseteq 1 .. N /\ \A i \in 1 .. N : i \in L <=> F(i) /\ HostNames(exts[i]) # {}
  BY <1>1 DEF Listed
<1>9. NamedHost(hello) =
         IF L # {} /\ \A i \in 1 .. Indices!Min(L) - 1 : ~Rent(exts[i])
         THEN exts[Indices!Min(L)].names[Indices!Min(HostNames(exts[Indices!Min(L)]))].host
         ELSE NoHost
  BY DEF NamedHost
<1> HIDE DEF exts, block, F, L, Rent
<1>10. CASE Quiet(items, 4, block, N)
  <2>1. Scan(4, block, items) = Torned \/ Scan(4, block, items) = Nothing
    BY <1>6, <1>10
  <2>2. L = {}
    BY <1>4, <1>5, <1>8, <1>10 DEF Quiet
  <2> QED
    BY <1>3, <1>7, <1>9, <2>1, <2>2, YieldsAre
<1>11. ASSUME NEW m \in 1 .. N, Found(items, 4, block, m)
       PROVE  ExtractSNI(hello) = NamedHost(hello)
  <2>1. Scan(4, block, items) = items[m].is /\ F(m) /\ items[m].is # Nothing
    BY <1>4, <1>6, <1>11 DEF Found
  <2>2. \A i \in 1 .. N : \A j \in 0 .. i : F(i) => F(j)
    <3>1. \A i \in 1 .. N : exts[i].len \in Nat
      BY <1>1 DEF ExtensionType
    <3>2. \A i \in 0 .. N : \A j \in 0 .. i : Fits(exts, 4, block, i) => Fits(exts, 4, block, j)
      BY <1>0, <1>1, <3>1, FitsDown
    <3>3. \A i \in 0 .. N : \A j \in 0 .. i : F(i) => F(j)
      BY <3>2 DEF F
    <3>4. 1 .. N \subseteq 0 .. N
      OBVIOUS
    <3> QED
      BY <3>3, <3>4
  <2>3. ASSUME NEW i \in 1 .. m - 1 PROVE i \in 1 .. N /\ F(i) /\ items[i].is = Nothing
    <3>1. i \in 1 .. N /\ i \in 0 .. m
      OBVIOUS
    <3>2. F(i)
      BY <2>1, <2>2, <3>1
    <3> QED
      BY <1>4, <1>11, <3>1, <3>2 DEF Found, Quiet
  <2>4. ASSUME NEW i \in 1 .. m - 1 PROVE i \notin L /\ ~Rent(exts[i])
    BY <1>5, <1>8, <2>3, YieldsAre
  <2>5. L \in SUBSET Nat
    BY <1>8
  <2>6. CASE HostNames(exts[m]) # {}
    <3>1. m \in L
      BY <1>8, <2>1, <2>6
    <3>2. Indices!Min(L) \in L /\ \A i \in L : Indices!Min(L) <= i
      BY <2>5, <3>1, Least
    <3>3. Indices!Min(L) = m
      <4>1. Indices!Min(L) \in 1 .. N /\ Indices!Min(L) <= m
        BY <1>8, <3>1, <3>2
      <4> QED
        BY <2>4, <3>2, <4>1
    <3> QED
      BY <1>3, <1>5, <1>9, <2>1, <2>4, <2>6, <3>1, <3>3
  <2>7. CASE HostNames(exts[m]) = {}
    <3>1. Rent(exts[m]) /\ items[m].is = Torned /\ m \notin L
      BY <1>5, <1>8, <2>1, <2>7
    <3>2. ExtractSNI(hello) = NoHost
      BY <1>3, <2>1, <3>1, YieldsAre
    <3>3. ASSUME L # {} PROVE m \in 1 .. Indices!Min(L) - 1
      <4>1. Indices!Min(L) \in L
        BY <2>5, <3>3, Least
      <4>2. Indices!Min(L) \in 1 .. N /\ Indices!Min(L) # m
        BY <1>8, <3>1, <4>1
      <4> QED
        BY <2>4, <4>1, <4>2
    <3> QED
      BY <1>9, <3>1, <3>2, <3>3
  <2> QED
    BY <2>6, <2>7
<1> QED
  BY <1>7, <1>10, <1>11, FoundOrQuiet

\* Whatever a hello declares, extractSNI returns the first host name of its
\* server name lists if every declared length before that name lies within
\* what holds it, and none otherwise.
THEOREM FindsNamedHost ==
    ASSUME NEW hosts, NoHost \notin hosts, NEW hello \in HelloType(hosts)
    PROVE  ExtractSNI(hello) = NamedHost(hello)
<1>1. hello.message \in Nat /\ hello.record \in Nat
  BY DEF HelloType
<1>2. CASE WellFormed(hello)
  BY <1>2, ExtensionsYield
<1>3. CASE ~WellFormed(hello)
  <2>1. NamedHost(hello) = NoHost
    BY <1>3 DEF NamedHost
  <2>2. ExtractSNI(hello) = NoHost
    BY <1>1, <1>3, FieldsFitMeans DEF ExtractSNI, WellFormed, Fixed
  <2> QED
    BY <2>1, <2>2
<1> QED
  BY <1>2, <1>3

\* The host it returns is one that the hello carries.
THEOREM FindsHost ==
    ASSUME NEW hosts, NoHost \notin hosts, NEW hello \in HelloType(hosts)
    PROVE  ExtractSNI(hello) \in hosts \cup {NoHost}
<1>1. CASE WellFormed(hello)
  BY <1>1, ExtensionsYield
<1>2. CASE ~WellFormed(hello)
  BY <1>2, FindsNamedHost DEF NamedHost
<1> QED
  BY <1>1, <1>2

=============================================================================
