------------------------- MODULE SegmentationProofs -------------------------
(***************************************************************************)
(* An edition that an adapter accepts was numbered through, for any works  *)
(* and any damage.  The invariant says what the reader's chapter and next  *)
(* number have to do with the addresses it has given; every step leaves    *)
(* the addresses alone, turns to a chapter, or opens the next section.     *)
(***************************************************************************)
EXTENDS Segmentation, ProofLemmas

\* f joins the first n parts, as FlattenSeq's own function does.
Joins(f, parts, n) ==
    f = [i \in 1..n |-> IF i = 1 THEN parts[i] ELSE f[i - 1] \o parts[i]]

LEMMA JoinsGrow ==
    ASSUME NEW parts, NEW n \in Nat, n # 0, NEW f, Joins(f, parts, n)
    PROVE  \E g : Joins(g, parts, n + 1)
  <1> DEFINE g == [i \in 1..(n + 1) |-> IF i <= n THEN f[i] ELSE f[n] \o parts[n + 1]]
             Next1(h, i) == IF i = 1 THEN parts[i] ELSE h[i - 1] \o parts[i]
  <1>1. \A i \in 1..n : f[i] = IF i = 1 THEN parts[i] ELSE f[i - 1] \o parts[i]
    BY DEF Joins
  <1>2. \A i \in 1..n : g[i] = f[i]
    OBVIOUS
  <1>3. g[n + 1] = f[n] \o parts[n + 1]
    <2>1. n + 1 \in 1..(n + 1) /\ ~(n + 1 <= n)
      OBVIOUS
    <2> QED
      BY <2>1, Zenon
  <1>4. \A i \in 1..(n + 1) : g[i] = IF i = 1 THEN parts[i] ELSE g[i - 1] \o parts[i]
    <2> TAKE i \in 1..(n + 1)
    <2>1. g[n] = f[n]
      BY <1>2
    <2>2. CASE i = n + 1
      <3>1. i - 1 = n /\ i # 1
        BY <2>2
      <3> HIDE DEF g
      <3> QED
        BY <2>1, <1>3, <3>1, <2>2
    <2>3. CASE i # n + 1
      <3>1. i \in 1..n /\ (i # 1 => i - 1 \in 1..n)
        BY <2>3
      <3> HIDE DEF g
      <3> QED
        BY <1>1, <1>2, <3>1
    <2> QED
      BY <2>2, <2>3
  <1>5. g = [i \in 1..(n + 1) |-> g[i]]
    OBVIOUS
  <1> HIDE DEF g
  <1>6. Joins(g, parts, n + 1)
    BY <1>4, <1>5, Zenon DEF Joins
  <1> QED
    BY <1>6

LEMMA JoinsExist ==
    ASSUME NEW parts, NEW N \in Nat, N # 0
    PROVE  \E f : Joins(f, parts, N)
  <1> DEFINE T == {n \in Nat : n # 0 /\ ~\E f : Joins(f, parts, n)}
  <1>1. SUFFICES ASSUME T # {} PROVE FALSE
    OBVIOUS
  <1>2. PICK k \in T : \A j \in T : k <= j
    BY <1>1, LeastNat
  <1>3. CASE k = 1
    <2> DEFINE f == [i \in 1..1 |-> parts[i]]
    <2>1. f = [i \in 1..1 |-> IF i = 1 THEN parts[i] ELSE f[i - 1] \o parts[i]]
      OBVIOUS
    <2>2. Joins(f, parts, 1)
      BY <2>1 DEF Joins
    <2> QED
      BY <1>2, <1>3, <2>2
  <1>4. CASE k # 1
    <2>1. k \in Nat /\ k # 0 /\ k - 1 \in Nat /\ k - 1 # 0 /\ ~(k <= k - 1) /\ (k - 1) + 1 = k
      BY <1>2, <1>4
    <2>2. k - 1 \notin T
      BY <2>1, <1>2
    <2>3. \E f : Joins(f, parts, k - 1)
      BY <2>1, <2>2
    <2>4. \E f : Joins(f, parts, (k - 1) + 1)
      BY <2>1, <2>3, JoinsGrow
    <2> QED
      BY <2>1, <2>4, <1>2
  <1> QED
    BY <1>3, <1>4

\* The lines of all the blocks of a source, one after another.
LEMMA Flattened ==
    ASSUME NEW S, NEW parts \in Seq(Seq(S))
    PROVE  FlattenSeq(parts) \in Seq(S)
  <1> DEFINE N == Len(parts)
  <1>1. CASE N = 0
    BY <1>1 DEF FlattenSeq
  <1>2. CASE N # 0
    <2>1. N \in Nat /\ N # 0 /\ \A i \in 1..N : parts[i] \in Seq(S)
      BY <1>2
    <2> DEFINE F == CHOOSE f : Joins(f, parts, N)
    <2>2. Joins(F, parts, N)
      <3> HIDE DEF N
      <3>1. \E f : Joins(f, parts, N)
        BY <2>1, JoinsExist
      <3> QED
        BY <3>1, Zenon
    <2>3. FlattenSeq(parts) = F[N]
      BY <1>2, Zenon DEF FlattenSeq, Joins
    <2> HIDE DEF F, N
    <2>4. \A n \in 1..N : F[n] = IF n = 1 THEN parts[n] ELSE F[n - 1] \o parts[n]
      BY <2>2, <2>1 DEF Joins
    <2>5. \A n \in 1..N : F[n] \in Seq(S)
      <3> DEFINE U == {n \in 1..N : F[n] \notin Seq(S)}
      <3>1. SUFFICES ASSUME U # {} PROVE FALSE
        OBVIOUS
      <3>2. PICK k \in U : \A j \in U : k <= j
        <4>1. U \subseteq Nat
          BY <2>1
        <4> HIDE DEF U
        <4> QED
          BY <3>1, <4>1, LeastNat
      <3>3. k \in 1..N /\ F[k] \notin Seq(S)
        BY <3>2
      <3>4. k # 1 => F[k - 1] \in Seq(S)
        <4>1. k # 1 => k - 1 \in 1..N /\ ~(k <= k - 1)
          BY <3>3, <2>1
        <4> QED
          BY <4>1, <3>2
      <3>5. parts[k] \in Seq(S) /\ F[k] = IF k = 1 THEN parts[k] ELSE F[k - 1] \o parts[k]
        BY <3>3, <2>1, <2>4
      <3>6. \A s, t \in Seq(S) : s \o t \in Seq(S)
        OBVIOUS
      <3> QED
        BY <3>3, <3>4, <3>5, <3>6, Zenon
    <2> QED
      BY <2>1, <2>3, <2>5
  <1> QED
    BY <1>1, <1>2

---------------------------------------------------------------------------
(* The invariant.                                                          *)

IsSeq(s) == \E X : s \in Seq(X)

Address(locator) == <<InChapter(locator), NumberIn(locator)>>

\* The segments there would be if the text ended here, and their addresses.
Taken == IF stage = "done" THEN segments ELSE Closed
Given == [i \in DOMAIN Taken |-> Address(Taken[i].locator)]

Before(a, b) == a[1] < b[1] \/ (a[1] = b[1] /\ a[2] < b[2])

\* The reader expects number n of chapter c, and what it was given leads there.
Through(A, c, n) ==
    /\ A \in Seq(Nat \X Nat) /\ c \in Nat /\ n \in Nat \ {0}
    /\ n # 1 => A # <<>> /\ A[Len(A)] = <<c, n - 1>>
    /\ \A j \in DOMAIN A : A[j][2] # 1 =>
          j > 1 /\ A[j - 1][1] = A[j][1] /\ A[j - 1][2] = A[j][2] - 1

InOrder(A, c, n) ==
    /\ \A i \in DOMAIN A : Before(A[i], <<c, n>>)
    /\ \A i, j \in DOMAIN A : i < j => Before(A[i], A[j])

\* The chapters of the book, which are compared only when it has ended.
Rising ==
    adapter \in Bco =>
        \A i, j \in DOMAIN reader.seen : i < j => reader.seen[i] < reader.seen[j]

InBook ==
    /\ reader.seen \in Seq(Nat)
    /\ reader.seen = <<>> => Given = <<>> /\ reader.chapter = 0
    /\ reader.seen # <<>> => reader.chapter = reader.seen[Len(reader.seen)]

Numbering ==
    /\ DOMAIN reader = DOMAIN Reader /\ IsSeq(segments)
    /\ adapter \in Catechisms => reader.chapter = 0
    /\ Through(Given, reader.chapter, reader.next)
    /\ Rising => InOrder(Given, reader.chapter, reader.next)
    /\ adapter \in Bco => InBook
    /\ stage = "done" => Rising

\* What the book's lines are made of.
BookLines ==
    /\ "lines" \in DOMAIN parser /\ parser.lines \in Seq(Seq(BookText))
    /\ document \in Seq(Seq(BookText)) /\ source \in Seq(BookLine)

SegmentationIInv == /\ adapter \in Numbered => Numbering
                    /\ adapter \in Bco => BookLines

---------------------------------------------------------------------------
(* Addresses.                                                              *)

LEMMA Opened ==
    ASSUME NEW A, NEW c, NEW n, Through(A, c, n)
    PROVE  /\ Through(Append(A, <<c, n>>), c, n + 1)
           /\ InOrder(A, c, n) => InOrder(Append(A, <<c, n>>), c, n + 1)
  <1> DEFINE e == <<c, n>>
             B == Append(A, e)
             L == Len(A)
  <1>1. A \in Seq(Nat \X Nat) /\ c \in Nat /\ n \in Nat \ {0} /\ e \in Nat \X Nat
    BY DEF Through
  <1>2. /\ B \in Seq(Nat \X Nat) /\ L \in Nat /\ Len(B) = L + 1
        /\ DOMAIN B = 1..(L + 1) /\ DOMAIN A = 1..L
        /\ \A i \in 1..L : B[i] = A[i]
        /\ B[L + 1] = e
    BY <1>1
  <1>3. e[1] = c /\ e[2] = n
    OBVIOUS
  <1> HIDE DEF B, L, e
  <1>4. ASSUME NEW j \in DOMAIN B, B[j][2] # 1
        PROVE  j > 1 /\ B[j - 1][1] = B[j][1] /\ B[j - 1][2] = B[j][2] - 1
    <2>1. CASE j \in 1..L
      <3>1. j > 1 /\ A[j - 1][1] = A[j][1] /\ A[j - 1][2] = A[j][2] - 1
        BY <1>2, <1>4, <2>1 DEF Through
      <3>2. j - 1 \in 1..L
        BY <1>2, <2>1, <3>1
      <3> QED
        BY <1>2, <2>1, <3>1, <3>2
    <2>2. CASE j = L + 1
      <3>1. n # 1
        BY <1>2, <1>3, <1>4, <2>2
      <3>2. A # <<>> /\ A[L] = <<c, n - 1>>
        BY <3>1 DEF Through, L
      <3>3. L # 0
        BY <3>2, <1>1 DEF L
      <3>4. L \in 1..L /\ j - 1 = L /\ j > 1
        BY <3>3, <1>2, <2>2
      <3>5. B[j - 1] = <<c, n - 1>> /\ B[j] = e
        BY <3>2, <3>4, <1>2, <2>2
      <3> QED
        BY <3>4, <3>5, <1>3
    <2> QED
      BY <1>2, <2>1, <2>2
  <1>5. B # <<>> /\ B[Len(B)] = <<c, (n + 1) - 1>>
    <2>1. (n + 1) - 1 = n
      BY <1>1
    <2>2. B # <<>>
      BY <1>2
    <2> QED
      BY <1>2, <2>1, <2>2 DEF e
  <1>6. Through(B, c, n + 1)
    <2>1. n + 1 \in Nat \ {0}
      BY <1>1
    <2> QED
      BY <1>1, <1>2, <1>4, <1>5, <2>1 DEF Through
  <1>7. ASSUME InOrder(A, c, n)
        PROVE  InOrder(B, c, n + 1)
    <2>1. \A i \in 1..L : B[i] \in Nat \X Nat /\ Before(B[i], e) /\ Before(B[i], <<c, n + 1>>)
      <3> TAKE i \in 1..L
      <3>1. Before(A[i], <<c, n>>)
        BY <1>2, <1>7, Zenon DEF InOrder
      <3>2. A[i] \in Nat \X Nat
        BY <1>1, <1>2
      <3> QED
        BY <3>1, <3>2, <1>1, <1>2 DEF Before, e
    <2>2. Before(B[L + 1], <<c, n + 1>>)
      BY <1>1, <1>2, <1>3 DEF Before
    <2>3. \A i, j \in 1..L : i < j => Before(B[i], B[j])
      BY <1>2, <1>7 DEF InOrder
    <2>4. \A i, j \in 1..(L + 1) : i < j => i \in 1..L /\ (j = L + 1 \/ j \in 1..L)
      BY <1>2
    <2>5. \A i \in 1..(L + 1) : i = L + 1 \/ i \in 1..L
      BY <1>2
    <2>6. \A i \in DOMAIN B : Before(B[i], <<c, n + 1>>)
      BY <1>2, <2>1, <2>2, <2>5, Zenon
    <2>7. \A i, j \in DOMAIN B : i < j => Before(B[i], B[j])
      BY <1>2, <2>1, <2>3, <2>4, Zenon
    <2> QED
      BY <2>6, <2>7, Zenon DEF InOrder
  <1> QED
    BY <1>6, <1>7 DEF B, e

LEMMA Turned ==
    ASSUME NEW A, NEW c, NEW n, Through(A, c, n), NEW d \in Nat
    PROVE  /\ Through(A, d, 1)
           /\ InOrder(A, c, n) /\ d > c => InOrder(A, d, 1)
  <1>1. Through(A, d, 1)
    BY DEF Through
  <1>2. ASSUME InOrder(A, c, n), d > c
        PROVE  InOrder(A, d, 1)
    <2>1. ASSUME NEW i \in DOMAIN A
          PROVE  Before(A[i], <<d, 1>>)
      <3>1. Before(A[i], <<c, n>>)
        BY <1>2, <2>1, Zenon DEF InOrder
      <3>2. A[i] \in Nat \X Nat /\ c \in Nat /\ n \in Nat
        BY <2>1 DEF Through
      <3>3. A[i][1] <= c
        BY <3>1, <3>2 DEF Before
      <3> QED
        BY <3>2, <3>3, <1>2 DEF Before
    <2> QED
      BY <1>2, <2>1 DEF InOrder
  <1> QED
    BY <1>1, <1>2

---------------------------------------------------------------------------
(* What a step may do to them.                                             *)

Settled == /\ adapter' = adapter /\ DOMAIN reader' = DOMAIN reader /\ IsSeq(segments)'

\* Nothing new is addressed.
Stays ==
    /\ Settled /\ Given' = Given
    /\ reader'.chapter = reader.chapter /\ reader'.next = reader.next /\ reader'.seen = reader.seen
    /\ stage' = "done" => Rising

\* A chapter begins.  A book's chapters are compared later.
Turns ==
    /\ Settled /\ Given' = Given
    /\ reader'.chapter \in Nat /\ reader'.next = 1 /\ stage' # "done"
    /\ adapter \notin Catechisms
    /\ IF adapter \in Bco THEN reader'.seen = Append(reader.seen, reader'.chapter)
       ELSE reader'.chapter > reader.chapter /\ reader'.seen = reader.seen

\* A section, paragraph or question begins.
Opens ==
    /\ Settled /\ Given' = Append(Given, <<reader.chapter, reader.next>>)
    /\ reader'.chapter = reader.chapter /\ reader'.next = reader.next + 1
    /\ reader'.seen = reader.seen /\ stage' # "done"
    /\ adapter \in Bco => reader.chapter # 0

LEMMA StaysNumbered ==
    ASSUME Numbering, Stays
    PROVE  Numbering'
  <1>1. Rising' <=> Rising
    BY DEF Stays, Settled, Rising
  <1>2. InBook => InBook'
    BY DEF Stays, InBook
  <1>3. /\ Through(Given', reader'.chapter, reader'.next)
        /\ Rising' => InOrder(Given', reader'.chapter, reader'.next)
    BY <1>1, Zenon DEF Numbering, Stays
  <1> QED
    BY <1>1, <1>2, <1>3, Zenon DEF Numbering, Stays, Settled

LEMMA TurnsNumbered ==
    ASSUME Numbering, Turns
    PROVE  Numbering'
  <1>1. /\ Through(Given, reader.chapter, reader.next) /\ reader'.chapter \in Nat
        /\ Given' = Given /\ reader'.next = 1
        /\ Through(Given, reader'.chapter, 1)
    <2>1. /\ Through(Given, reader.chapter, reader.next) /\ reader'.chapter \in Nat
          /\ Given' = Given /\ reader'.next = 1
      BY Zenon DEF Numbering, Turns
    <2> QED
      BY <2>1, Turned, Zenon
  <1>2. InOrder(Given, reader.chapter, reader.next) /\ reader'.chapter > reader.chapter
           => InOrder(Given, reader'.chapter, 1)
    BY <1>1, Turned, Zenon
  <1>3. Rising' => InOrder(Given, reader'.chapter, 1)
    <2>1. CASE adapter \in Bco
      <3> DEFINE seen == reader.seen
                 L == Len(seen)
      <3>1. seen \in Seq(Nat) /\ reader'.seen = Append(seen, reader'.chapter)
        BY <2>1 DEF Numbering, InBook, Turns
      <3>2. /\ L \in Nat /\ DOMAIN seen = 1..L /\ DOMAIN reader'.seen = 1..(L + 1)
            /\ \A i \in 1..L : reader'.seen[i] = seen[i]
            /\ reader'.seen[L + 1] = reader'.chapter
        BY <3>1, <1>1
      <3>3. ASSUME Rising' PROVE Rising /\ \A i \in 1..L : seen[i] < reader'.chapter
        <4>1. \A i, j \in 1..(L + 1) : i < j => reader'.seen[i] < reader'.seen[j]
          BY <2>1, <3>2, <3>3 DEF Rising, Turns, Settled
        <4>2. \A i, j \in 1..L : i < j => seen[i] < seen[j]
          BY <4>1, <3>2
        <4>3. \A i \in 1..L : seen[i] < reader'.chapter
          BY <4>1, <3>2
        <4> QED
          BY <4>2, <4>3, <3>2 DEF Rising
      <3>4. CASE seen = <<>>
        <4>1. Given = <<>>
          BY <2>1, <3>4 DEF Numbering, InBook
        <4>2. DOMAIN Given = {}
          BY <4>1
        <4> QED
          BY <4>2, Zenon DEF InOrder
      <3>5. CASE seen # <<>>
        <4>1. reader.chapter = seen[L] /\ L \in 1..L
          BY <2>1, <3>1, <3>2, <3>5 DEF Numbering, InBook
        <4>2. reader.chapter \in Nat
          BY <1>1 DEF Through
        <4>3. Rising' => reader'.chapter > reader.chapter
          BY <3>3, <4>1, <4>2, <1>1
        <4> QED
          BY <3>3, <4>3, <1>2, Zenon DEF Numbering
      <3> QED
        BY <3>4, <3>5, Zenon
    <2>2. CASE adapter \notin Bco
      <3>1. reader'.chapter > reader.chapter /\ (Rising' => Rising)
        BY <2>2 DEF Turns, Rising
      <3> QED
        BY <3>1, <1>2, Zenon DEF Numbering
    <2> QED
      BY <2>1, <2>2, Zenon
  <1>4. adapter' \in Bco => InBook'
    <2>1. SUFFICES ASSUME adapter \in Bco PROVE InBook'
      BY Zenon DEF Turns, Settled
    <2>2. reader.seen \in Seq(Nat) /\ reader'.seen = Append(reader.seen, reader'.chapter)
      BY <2>1 DEF Numbering, InBook, Turns
    <2>3. /\ reader'.seen \in Seq(Nat) /\ reader'.seen # <<>>
          /\ reader'.chapter = reader'.seen[Len(reader'.seen)]
      <3>1. \A s \in Seq(Nat), c \in Nat :
                /\ Append(s, c) \in Seq(Nat)
                /\ Len(Append(s, c)) = Len(s) + 1 /\ Append(s, c)[Len(s) + 1] = c
        OBVIOUS
      <3>2. \A s \in Seq(Nat), c \in Nat : Append(s, c) # <<>>
        OBVIOUS
      <3>3. reader'.chapter \in Nat
        BY <1>1, Zenon
      <3> QED
        BY <2>2, <3>1, <3>2, <3>3
    <2> QED
      BY <2>3, Zenon DEF InBook
  <1>5. adapter' \notin Catechisms /\ stage' # "done" /\ IsSeq(segments)' /\ DOMAIN reader' = DOMAIN Reader
    BY Zenon DEF Turns, Settled, Numbering
  <1> QED
    BY <1>1, <1>3, <1>4, <1>5, Zenon DEF Numbering

LEMMA OpensNumbered ==
    ASSUME Numbering, Opens
    PROVE  Numbering'
  <1>1. Rising' <=> Rising
    BY DEF Opens, Settled, Rising
  <1>2. /\ Through(Given', reader'.chapter, reader'.next)
        /\ Rising' => InOrder(Given', reader'.chapter, reader'.next)
    <2>1. Through(Given, reader.chapter, reader.next)
      BY DEF Numbering
    <2>2. /\ Given' = Append(Given, <<reader.chapter, reader.next>>)
          /\ reader'.chapter = reader.chapter /\ reader'.next = reader.next + 1
      BY DEF Opens
    <2>3. /\ Through(Given', reader.chapter, reader.next + 1)
          /\ InOrder(Given, reader.chapter, reader.next)
                => InOrder(Given', reader.chapter, reader.next + 1)
      BY <2>1, <2>2, Opened, Zenon
    <2> QED
      BY <1>1, <2>2, <2>3, Zenon DEF Numbering
  <1>3. adapter' \in Bco => InBook'
    <2>1. SUFFICES ASSUME adapter \in Bco PROVE InBook'
      BY Zenon DEF Opens, Settled
    <2>2. /\ InBook /\ reader.chapter # 0
          /\ reader'.chapter = reader.chapter /\ reader'.seen = reader.seen
      BY <2>1, Zenon DEF Numbering, Opens
    <2> QED
      BY <2>2, Zenon DEF InBook
  <1>4. /\ adapter' \in Catechisms => reader'.chapter = 0
        /\ stage' # "done" /\ IsSeq(segments)' /\ DOMAIN reader' = DOMAIN Reader
    BY Zenon DEF Opens, Settled, Numbering
  <1> QED
    BY <1>2, <1>3, <1>4, Zenon DEF Numbering

---------------------------------------------------------------------------
(* The section being read, and the segments before it.                     *)

LEMMA Extended ==
    ASSUME NEW s, IsSeq(s), NEW e
    PROVE  /\ IsSeq(Append(s, e)) /\ Len(s) \in Nat
           /\ DOMAIN s = 1..Len(s) /\ DOMAIN Append(s, e) = 1..(Len(s) + 1)
           /\ \A i \in 1..Len(s) : Append(s, e)[i] = s[i]
           /\ Append(s, e)[Len(s) + 1] = e
           /\ Append(s, e) = [i \in 1..(Len(s) + 1) |-> Append(s, e)[i]]
  <1>1. PICK X : s \in Seq(X)
    BY DEF IsSeq
  <1>2. s \in Seq(X \cup {e})
    BY <1>1
  <1>3. Append(s, e) \in Seq(X \cup {e})
    BY <1>2
  <1>4. /\ Len(s) \in Nat /\ DOMAIN s = 1..Len(s) /\ DOMAIN Append(s, e) = 1..(Len(s) + 1)
        /\ \A i \in 1..Len(s) : Append(s, e)[i] = s[i]
        /\ Append(s, e)[Len(s) + 1] = e
    BY <1>2
  <1>5. Append(s, e) = [i \in 1..(Len(s) + 1) |-> Append(s, e)[i]]
    <2>1. \A t \in Seq(X \cup {e}) : t = [i \in 1..Len(t) |-> t[i]]
      OBVIOUS
    <2>2. Len(Append(s, e)) = Len(s) + 1
      BY <1>2
    <2> QED
      BY <1>3, <2>1, <2>2, Zenon
  <1>6. IsSeq(Append(s, e))
    BY <1>3, Zenon DEF IsSeq
  <1> QED
    BY <1>4, <1>5, <1>6, Zenon

LEMMA AddressOf ==
    ASSUME NEW c, NEW k
    PROVE  Address(<<k>>) = <<0, k>> /\ Address(<<c, k>>) = <<c, k>>
    BY DEF Address, InChapter, NumberIn, Last

LEMMA ClosedIsSeq ==
    ASSUME IsSeq(segments)
    PROVE  IsSeq(Closed)
    BY Extended, Zenon DEF Closed

\* The section being read ends, and no other begins.
LEMMA GivenWhenClosed ==
    ASSUME IsSeq(segments), stage # "done", segments' = Closed,
           stage' = "done" \/ reader'.open = None
    PROVE  Given' = Given /\ IsSeq(segments)'
  <1>1. Taken' = segments' /\ Taken = Closed
    BY DEF Taken, Closed
  <1>2. Taken' = Taken
    BY <1>1
  <1>3. IsSeq(segments')
    BY ClosedIsSeq, Zenon
  <1> QED
    BY <1>2, <1>3, Zenon DEF Given, IsSeq

\* What is being read goes on, or is not read at all.
LEMMA GivenWhenRead ==
    ASSUME IsSeq(segments), stage # "done", stage' # "done",
           segments' = segments, reader'.open = reader.open
    PROVE  Given' = Given /\ IsSeq(segments)'
  <1>1. DOMAIN Taken' = DOMAIN Taken /\ \A i \in DOMAIN Taken : Taken'[i].locator = Taken[i].locator
    <2>1. CASE reader.open = None
      BY <2>1 DEF Taken, Closed
    <2>2. CASE reader.open # None
      <3> DEFINE e == Segment(reader.open, reader.body)
                 f == Segment(reader.open, reader'.body)
      <3>1. Taken = Append(segments, e) /\ Taken' = Append(segments, f)
        BY <2>2, Zenon DEF Taken, Closed
      <3>2. e.locator = f.locator
        BY DEF Segment
      <3> HIDE DEF e, f
      <3>3. /\ DOMAIN Taken = 1..(Len(segments) + 1) /\ DOMAIN Taken' = DOMAIN Taken
            /\ \A i \in 1..Len(segments) : Taken[i] = Taken'[i]
            /\ Taken[Len(segments) + 1] = e /\ Taken'[Len(segments) + 1] = f
        <4>1. /\ Len(segments) \in Nat
              /\ DOMAIN Append(segments, e) = 1..(Len(segments) + 1)
              /\ DOMAIN Append(segments, f) = 1..(Len(segments) + 1)
              /\ \A i \in 1..Len(segments) : Append(segments, e)[i] = segments[i]
              /\ \A i \in 1..Len(segments) : Append(segments, f)[i] = segments[i]
              /\ Append(segments, e)[Len(segments) + 1] = e
              /\ Append(segments, f)[Len(segments) + 1] = f
          BY Extended
        <4> QED
          BY <3>1, <4>1
      <3>4. \A i \in 1..(Len(segments) + 1) : i = Len(segments) + 1 \/ i \in 1..Len(segments)
        BY Extended
      <3> QED
        BY <3>2, <3>3, <3>4, Zenon
    <2> QED
      BY <2>1, <2>2
  <1> QED
    BY <1>1, Zenon DEF Given, IsSeq

\* A section begins, the one before it ended.
LEMMA GivenWhenOpened ==
    ASSUME IsSeq(segments), stage # "done", stage' # "done", segments' = Closed,
           NEW locator, reader'.open = locator, locator # None
    PROVE  Given' = Append(Given, Address(locator)) /\ IsSeq(segments)'
  <1> DEFINE e == Segment(locator, reader'.body)
  <1>1. Taken = Closed /\ Taken' = Append(Closed, e)
    BY Zenon DEF Taken, Closed
  <1>2. e.locator = locator
    BY DEF Segment
  <1>3. IsSeq(Closed)
    BY ClosedIsSeq
  <1> HIDE DEF e
  <1>4. /\ DOMAIN Closed = 1..Len(Closed) /\ Len(Closed) \in Nat
        /\ DOMAIN Taken' = 1..(Len(Closed) + 1)
        /\ \A i \in 1..Len(Closed) : Taken'[i] = Taken[i]
        /\ Taken'[Len(Closed) + 1] = e
    <2>1. /\ DOMAIN Closed = 1..Len(Closed) /\ Len(Closed) \in Nat
          /\ DOMAIN Append(Closed, e) = 1..(Len(Closed) + 1)
          /\ \A i \in 1..Len(Closed) : Append(Closed, e)[i] = Closed[i]
          /\ Append(Closed, e)[Len(Closed) + 1] = e
      BY <1>3, Extended
    <2> QED
      BY <1>1, <2>1
  <1>5. DOMAIN Given = 1..Len(Closed) /\ DOMAIN Given' = 1..(Len(Closed) + 1)
    BY <1>1, <1>4 DEF Given
  <1>6. Given \in Seq({Given[i] : i \in 1..Len(Closed)}) /\ Len(Given) = Len(Closed)
    <2>1. Given = [i \in 1..Len(Closed) |-> Given[i]]
      BY <1>5 DEF Given
    <2> QED
      BY <2>1, <1>4
  <1>7. /\ Append(Given, Address(locator)) =
              [i \in 1..(Len(Closed) + 1) |-> Append(Given, Address(locator))[i]]
        /\ \A i \in 1..Len(Closed) : Append(Given, Address(locator))[i] = Given[i]
        /\ Append(Given, Address(locator))[Len(Closed) + 1] = Address(locator)
    <2>1. IsSeq(Given)
      BY <1>6, Zenon DEF IsSeq
    <2> QED
      BY <2>1, <1>6, Extended
  <1>8. \A i \in 1..(Len(Closed) + 1) : Given'[i] = Append(Given, Address(locator))[i]
    <2> TAKE i \in 1..(Len(Closed) + 1)
    <2>1. CASE i \in 1..Len(Closed)
      <3>1. Given'[i] = Address(Taken'[i].locator) /\ Given[i] = Address(Taken[i].locator)
        BY <2>1, <1>1, <1>4 DEF Given
      <3> QED
        BY <3>1, <1>4, <1>7, <2>1
    <2>2. CASE i = Len(Closed) + 1
      <3>1. Given'[i] = Address(Taken'[i].locator)
        BY <1>4, <2>2 DEF Given
      <3> QED
        BY <3>1, <2>2, <1>2, <1>4, <1>7
    <2>3. i \in 1..Len(Closed) \/ i = Len(Closed) + 1
      BY <1>4
    <2> QED
      BY <2>1, <2>2, <2>3, Zenon
  <1>9. Given' = [i \in 1..(Len(Closed) + 1) |-> Given'[i]]
    BY <1>5 DEF Given
  <1>10. IsSeq(segments')
    BY <1>3, Zenon
  <1>11. Given' = Append(Given, Address(locator))
    BY <1>7, <1>8, <1>9, Zenon
  <1> QED
    BY <1>10, <1>11, Zenon DEF IsSeq

---------------------------------------------------------------------------
(* The extractor: nothing is addressed, and nothing is done.               *)

LEMMA ExtractStage ==
    ASSUME Extract
    PROVE  adapter' = adapter /\ stage # "done" /\ stage' # "done"
  <1> DEFINE Goes == adapter' = adapter /\ stage # "done" /\ stage' # "done"
  <1>1. \A p : stage = "extract" /\ Read(p) => Goes
    BY DEF Read
  <1>2. Refuse /\ stage # "done" => Goes
    BY DEF Refuse
  <1>3. \A p, refused : Extracted(p, refused) => Goes
    BY DEF Extracted, Refuse
  <1> SUFFICES Goes
    OBVIOUS
  <1>4. CASE Decode
    BY <1>2, <1>4 DEF Decode
  <1> HIDE DEF Goes
  <1>5. CASE OpcOpen
    BY <1>1, <1>5, Zenon DEF OpcOpen, On
  <1>6. CASE OpcClose
    BY <1>1, <1>6, Zenon DEF OpcClose, On
  <1>7. CASE OpcText
    BY <1>1, <1>7, Zenon DEF OpcText, On
  <1>8. CASE OpcExtracted
    BY <1>3, <1>8, Zenon DEF OpcExtracted
  <1>9. CASE EpcewOpen
    BY <1>1, <1>9, Zenon DEF EpcewOpen, On
  <1>10. CASE EpcewClose
    BY <1>1, <1>10, Zenon DEF EpcewClose, On
  <1>11. CASE EpcewText
    BY <1>1, <1>11, Zenon DEF EpcewText, On
  <1>12. CASE EpcewExtracted
    BY <1>3, <1>12, Zenon DEF EpcewExtracted
  <1>13. CASE ReportOpen
    BY <1>1, <1>13, Zenon DEF ReportOpen, On
  <1>14. CASE ReportClose
    BY <1>1, <1>14, Zenon DEF ReportClose, On
  <1>15. CASE ReportText
    BY <1>1, <1>15, Zenon DEF ReportText, On
  <1>16. CASE ReportExtracted
    BY <1>3, <1>16, Zenon DEF ReportExtracted
  <1>17. CASE PageLine
    BY <1>1, <1>17, Zenon DEF PageLine, On, Divider
  <1>18. CASE BookExtracted
    BY <1>3, <1>18, Zenon DEF BookExtracted
  <1>19. CASE TextLine
    BY <1>1, <1>19, Zenon DEF TextLine, On
  <1>20. CASE WebExtracted
    BY <1>3, <1>20, Zenon DEF WebExtracted
  <1>21. CASE InstitutesExtracted
    BY <1>3, <1>21, Zenon DEF InstitutesExtracted
  <1> QED
    BY <1>4, <1>5, <1>6, <1>7, <1>8, <1>9, <1>10, <1>11, <1>12, <1>13, <1>14, <1>15, <1>16,
       <1>17, <1>18, <1>19, <1>20, <1>21, Zenon DEF Extract

LEMMA ExtractStays ==
    ASSUME Numbering, Extract, UNCHANGED <<reader, segments>>
    PROVE  Stays
  <1>1. adapter' = adapter /\ stage # "done" /\ stage' # "done"
    BY ExtractStage
  <1>2. reader' = reader /\ segments' = segments /\ IsSeq(segments)
    BY DEF Numbering
  <1>3. Given' = Given /\ IsSeq(segments)'
    BY <1>1, <1>2, GivenWhenRead
  <1> QED
    BY <1>1, <1>2, <1>3 DEF Stays, Settled

---------------------------------------------------------------------------
(* The adapters' steps.                                                    *)

LEMMA Fields ==
    ASSUME Numbering
    PROVE  {"open", "body", "answered", "next", "chapter", "seen", "used", "sections",
            "divisions", "navigation", "unnumbered"} \subseteq DOMAIN reader
  <1>1. DOMAIN reader = DOMAIN Reader
    BY DEF Numbering
  <1> QED
    BY <1>1 DEF Reader

LEMMA RefusedStays ==
    ASSUME Numbering, stage = "segment", RefuseLine
    PROVE  Stays
  <1>1. stage' = "refused" /\ adapter' = adapter /\ reader' = reader /\ segments' = segments
        /\ IsSeq(segments)
    BY DEF RefuseLine, Numbering
  <1>2. Given' = Given /\ IsSeq(segments)'
    BY <1>1, GivenWhenRead
  <1> QED
    BY <1>1, <1>2 DEF Stays, Settled

LEMMA DoneStays ==
    ASSUME Numbering, stage = "segment", stage' = "done", segments' = Closed,
           adapter' = adapter, reader' = reader, Rising
    PROVE  Stays
  <1>1. IsSeq(segments)
    BY DEF Numbering
  <1>2. Given' = Given /\ IsSeq(segments)'
    BY <1>1, GivenWhenClosed
  <1> QED
    BY <1>2 DEF Stays, Settled

\* The step took a line and said nothing of where it is.
LEMMA LineStays ==
    ASSUME Numbering, stage = "segment", stage' = stage, adapter' = adapter,
           DOMAIN reader' = DOMAIN reader, reader'.chapter = reader.chapter,
           reader'.next = reader.next, reader'.seen = reader.seen,
           \/ segments' = segments /\ reader'.open = reader.open
           \/ segments' = Closed /\ reader'.open = None
    PROVE  Stays
  <1>1. IsSeq(segments)
    BY DEF Numbering
  <1>2. Given' = Given /\ IsSeq(segments)'
    BY <1>1, GivenWhenClosed, GivenWhenRead
  <1> QED
    BY <1>2 DEF Stays, Settled

\* The step took a line with the next number.
LEMMA LineOpens ==
    ASSUME Numbering, stage = "segment", stage' = stage, adapter' = adapter,
           DOMAIN reader' = DOMAIN reader, reader'.chapter = reader.chapter,
           reader'.next = reader.next + 1, reader'.seen = reader.seen,
           adapter \in Bco => reader.chapter # 0,
           segments' = Closed,
           IF adapter \in Catechisms THEN reader'.open = <<reader.next>>
           ELSE reader'.open = <<reader.chapter, reader.next>>
    PROVE  Opens
  <1>1. /\ IsSeq(segments) /\ reader.chapter \in Nat /\ reader.next \in Nat
        /\ adapter \in Catechisms => reader.chapter = 0
    BY DEF Numbering, Through
  <1>2. <<reader.next>> \in Seq(Nat) /\ <<reader.chapter, reader.next>> \in Seq(Nat)
    BY <1>1
  <1>3. reader'.open # None
    BY <1>2, NoneAssumption
  <1>4. Given' = Append(Given, Address(reader'.open)) /\ IsSeq(segments)'
    BY <1>1, <1>3, GivenWhenOpened
  <1>5. Address(reader'.open) = <<reader.chapter, reader.next>>
    BY <1>1, AddressOf
  <1> QED
    BY <1>4, <1>5 DEF Opens, Settled

LEMMA LineTurns ==
    ASSUME Numbering, stage = "segment", stage' = stage, adapter' = adapter,
           DOMAIN reader' = DOMAIN reader, reader'.chapter \in Nat, reader'.next = 1,
           adapter \notin Catechisms,
           IF adapter \in Bco THEN reader'.seen = Append(reader.seen, reader'.chapter)
           ELSE reader'.chapter > reader.chapter /\ reader'.seen = reader.seen,
           segments' = Closed, reader'.open = None
    PROVE  Turns
  <1>1. IsSeq(segments)
    BY DEF Numbering
  <1>2. Given' = Given /\ IsSeq(segments)'
    BY <1>1, GivenWhenClosed
  <1> QED
    BY <1>2 DEF Turns, Settled

LEMMA CatechismMoves ==
    ASSUME Numbering, Question \/ Answer \/ Division \/ Continuation \/ EndOfCatechism
    PROVE  Stays \/ Opens
  <1>1. /\ {"open", "body", "answered", "next", "chapter", "seen", "divisions"} \subseteq DOMAIN reader
        /\ stage = "segment" /\ adapter \in Catechisms /\ adapter \notin Bco
    BY Fields DEF Question, Answer, Division, Continuation, EndOfCatechism, Reading, AtEnd,
                  Catechisms, Bco
  <1>2. CASE Question
    <2>1. \/ RefuseLine
          \/ /\ Number(Line) = reader.next /\ stage' = stage /\ adapter' = adapter
             /\ reader' = [reader EXCEPT !.open = <<Number(Line)>>, !.body = Line,
                                         !.answered = FALSE, !.next = Number(Line) + 1]
             /\ segments' = Closed
      BY <1>2 DEF Question, Take
    <2> QED
      BY <1>1, <2>1, RefusedStays, LineOpens
  <1>3. CASE Answer
    <2>1. \/ RefuseLine
          \/ /\ stage' = stage /\ adapter' = adapter /\ segments' = segments
             /\ reader' = [More EXCEPT !.answered = TRUE]
      BY <1>3 DEF Answer, Take
    <2> QED
      BY <1>1, <2>1, RefusedStays, LineStays DEF More
  <1>4. CASE Division
    <2>1. \/ RefuseLine
          \/ /\ stage' = stage /\ adapter' = adapter /\ segments' = Closed
             /\ reader' = [reader EXCEPT !.open = None, !.body = <<>>, !.answered = FALSE,
                                         !.divisions = @ + 1]
      BY <1>4 DEF Division, Take
    <2> QED
      BY <1>1, <2>1, RefusedStays, LineStays
  <1>5. CASE Continuation
    <2>1. \/ RefuseLine
          \/ /\ stage' = stage /\ adapter' = adapter /\ segments' = segments
             /\ reader' = More
      BY <1>5 DEF Continuation, Take
    <2> QED
      BY <1>1, <2>1, RefusedStays, LineStays DEF More
  <1>6. CASE EndOfCatechism
    <2>1. \/ RefuseLine
          \/ /\ stage' = "done" /\ segments' = Closed /\ adapter' = adapter /\ reader' = reader
      BY <1>6 DEF EndOfCatechism, AtEnd
    <2> QED
      BY <1>1, <2>1, RefusedStays, DoneStays DEF Rising
  <1> QED
    BY <1>2, <1>3, <1>4, <1>5, <1>6

LEMMA ConfessionMoves ==
    ASSUME Numbering, Chapter \/ Section \/ SectionText \/ EndOfConfession
    PROVE  Stays \/ Turns \/ Opens
  <1>1. /\ {"open", "body", "next", "chapter", "seen"} \subseteq DOMAIN reader
        /\ stage = "segment" /\ adapter \notin Catechisms /\ adapter \notin Bco
        /\ reader.chapter \in Nat
    BY Fields DEF Chapter, Section, SectionText, EndOfConfession, Reading, AtEnd,
                  Catechisms, Bco, Numbering, Through
  <1>2. CASE Chapter
    <2>1. \/ RefuseLine
          \/ /\ Number(Line) = reader.chapter + 1 /\ stage' = stage /\ adapter' = adapter
             /\ reader' = [reader EXCEPT !.open = None, !.body = <<>>,
                                         !.chapter = Number(Line), !.next = 1]
             /\ segments' = Closed
      BY <1>2 DEF Chapter, Take
    <2>2. CASE RefuseLine
      BY <1>1, <2>2, RefusedStays
    <2>3. CASE ~RefuseLine
      <3>1. /\ DOMAIN reader' = DOMAIN reader /\ reader'.chapter = reader.chapter + 1
            /\ reader'.next = 1 /\ reader'.seen = reader.seen /\ reader'.open = None
        BY <1>1, <2>1, <2>3
      <3>2. reader'.chapter \in Nat /\ reader'.chapter > reader.chapter
        BY <1>1, <3>1
      <3> QED
        BY <1>1, <2>1, <2>3, <3>1, <3>2, LineTurns, Zenon
    <2> QED
      BY <2>2, <2>3
  <1>3. CASE Section
    <2>1. \/ RefuseLine
          \/ /\ Number(Line) = reader.next /\ stage' = stage /\ adapter' = adapter
             /\ reader' = [reader EXCEPT !.open = <<reader.chapter, Number(Line)>>,
                                         !.body = Line, !.next = Number(Line) + 1]
             /\ segments' = Closed
      BY <1>3 DEF Section, Take
    <2> QED
      BY <1>1, <2>1, RefusedStays, LineOpens
  <1>4. CASE SectionText
    <2>1. \/ RefuseLine
          \/ /\ stage' = stage /\ adapter' = adapter /\ segments' = segments
             /\ reader' = More
      BY <1>4 DEF SectionText, Take
    <2> QED
      BY <1>1, <2>1, RefusedStays, LineStays DEF More
  <1>5. CASE EndOfConfession
    <2>1. \/ RefuseLine
          \/ /\ stage' = "done" /\ segments' = Closed /\ adapter' = adapter /\ reader' = reader
      BY <1>5 DEF EndOfConfession, AtEnd
    <2> QED
      BY <1>1, <2>1, RefusedStays, DoneStays DEF Rising
  <1> QED
    BY <1>2, <1>3, <1>4, <1>5

LEMMA PagesMoves ==
    ASSUME Numbering, Navigation \/ PageChapter \/ PageSection \/ PageText \/ EndOfPages
    PROVE  Stays \/ Turns \/ Opens
  <1>1. /\ {"open", "body", "next", "chapter", "seen", "sections", "unnumbered", "navigation"}
              \subseteq DOMAIN reader
        /\ stage = "segment" /\ adapter \notin Catechisms /\ adapter \notin Bco
        /\ reader.chapter \in Nat
    BY Fields DEF Navigation, PageChapter, PageSection, PageText, EndOfPages, Reading, AtEnd,
                  Catechisms, Bco, Epcew, Numbering, Through
  <1>2. CASE Navigation
    <2>1. /\ stage' = stage /\ adapter' = adapter /\ segments' = segments
          /\ reader' = [reader EXCEPT !.navigation = @ + 1]
      BY <1>2 DEF Navigation, Take
    <2> QED
      BY <1>1, <2>1, LineStays
  <1>3. CASE PageChapter
    <2>1. \/ RefuseLine
          \/ /\ Numeral(Line) = reader.chapter + 1 /\ stage' = stage /\ adapter' = adapter
             /\ reader' = [reader EXCEPT !.open = None, !.body = <<>>,
                                         !.chapter = Numeral(Line), !.next = 1, !.sections = 0]
             /\ segments' = Closed
      BY <1>3 DEF PageChapter, Take
    <2>2. CASE RefuseLine
      BY <1>1, <2>2, RefusedStays
    <2>3. CASE ~RefuseLine
      <3>1. /\ DOMAIN reader' = DOMAIN reader /\ reader'.chapter = reader.chapter + 1
            /\ reader'.next = 1 /\ reader'.seen = reader.seen /\ reader'.open = None
        BY <1>1, <2>1, <2>3
      <3>2. reader'.chapter \in Nat /\ reader'.chapter > reader.chapter
        BY <1>1, <3>1
      <3> QED
        BY <1>1, <2>1, <2>3, <3>1, <3>2, LineTurns, Zenon
    <2> QED
      BY <2>2, <2>3
  <1>4. CASE PageSection
    <2>1. \/ RefuseLine
          \/ /\ Numeral(Line) = reader.next /\ stage' = stage /\ adapter' = adapter
             /\ reader' = [reader EXCEPT !.open = <<reader.chapter, Numeral(Line)>>,
                                         !.body = Line, !.next = Numeral(Line) + 1,
                                         !.sections = Numeral(Line)]
             /\ segments' = Closed
      BY <1>4 DEF PageSection, Take
    <2> QED
      BY <1>1, <2>1, RefusedStays, LineOpens
  <1>5. CASE PageText
    <2>1. \/ RefuseLine
          \/ /\ stage' = stage /\ adapter' = adapter /\ segments' = segments
             /\ reader' = More
          \/ /\ reader.open = None /\ reader.next = 1
             /\ stage' = stage /\ adapter' = adapter /\ segments' = segments
             /\ reader' = [reader EXCEPT !.open = <<reader.chapter, 1>>, !.body = Line,
                                         !.next = 2, !.sections = 1, !.unnumbered = @ + 1]
      BY <1>5 DEF PageText, Take
    <2>2. reader.open = None => segments = Closed
      BY DEF Closed
    <2>3. CASE RefuseLine
      BY <1>1, <2>3, RefusedStays
    <2>4. CASE segments' = segments /\ reader' = More /\ stage' = stage /\ adapter' = adapter
      BY <1>1, <2>4, LineStays DEF More
    <2>5. CASE /\ reader.open = None /\ reader.next = 1
               /\ stage' = stage /\ adapter' = adapter /\ segments' = segments
               /\ reader' = [reader EXCEPT !.open = <<reader.chapter, 1>>, !.body = Line,
                                           !.next = 2, !.sections = 1, !.unnumbered = @ + 1]
      <3>1. /\ DOMAIN reader' = DOMAIN reader /\ reader'.chapter = reader.chapter
            /\ reader'.next = reader.next + 1 /\ reader'.seen = reader.seen
            /\ reader'.open = <<reader.chapter, reader.next>>
        BY <1>1, <2>5
      <3> QED
        BY <1>1, <2>2, <2>5, <3>1, LineOpens
    <2> QED
      BY <2>1, <2>3, <2>4, <2>5
  <1>6. CASE EndOfPages
    <2>1. \/ RefuseLine
          \/ /\ stage' = "done" /\ segments' = Closed /\ adapter' = adapter /\ reader' = reader
      BY <1>6 DEF EndOfPages, AtEnd
    <2> QED
      BY <1>1, <2>1, RefusedStays, DoneStays DEF Rising
  <1> QED
    BY <1>2, <1>3, <1>4, <1>5, <1>6

\* A line of the book begins with a fragment that has a kind and numbers.
LEMMA BookMoves ==
    ASSUME Numbering, BookLines, BookChapter \/ Paragraph \/ ParagraphText \/ EndOfBook
    PROVE  Stays \/ Turns \/ Opens
  <1>1. /\ {"open", "body", "next", "chapter", "seen", "used"} \subseteq DOMAIN reader
        /\ stage = "segment" /\ adapter \in Bco /\ adapter \notin Catechisms
        /\ reader.chapter \in Nat
    BY Fields DEF BookChapter, Paragraph, ParagraphText, EndOfBook, Reading, AtEnd,
                  Catechisms, Bco, Numbering, Through
  <1>2. CASE BookChapter
    <2>1. /\ document # <<>> /\ Kind(Line) = "chapter"
          /\ stage' = stage /\ adapter' = adapter /\ segments' = Closed
          /\ reader' = [reader EXCEPT !.open = None, !.body = <<>>, !.chapter = Number(Line),
                                      !.seen = Append(@, Number(Line)), !.next = 1]
      BY <1>2 DEF BookChapter, Reading, Take, Line
    <2>2. Line \in Seq(BookText)
      BY <2>1 DEF BookLines, Line
    <2>3. Line # <<>> /\ Line[1].kind = "chapter"
      BY <2>1 DEF Kind
    <2>4. Line[1] \in BookText
      BY <2>2, <2>3
    <2>5. Line[1].n \in Seq(Nat) /\ Line[1].n # <<>>
      BY <2>3, <2>4 DEF BookText, Fragment
    <2>6. Number(Line) \in Nat
      BY <2>5 DEF Number
    <2>7. /\ DOMAIN reader' = DOMAIN reader /\ reader'.chapter = Number(Line)
          /\ reader'.next = 1 /\ reader'.seen = Append(reader.seen, reader'.chapter)
          /\ reader'.open = None
      BY <1>1, <2>1
    <2> QED
      BY <1>1, <2>1, <2>6, <2>7, LineTurns
  <1>3. CASE Paragraph
    <2>1. \/ RefuseLine
          \/ /\ reader.chapter # 0 /\ stage' = stage /\ adapter' = adapter
             /\ reader' = [reader EXCEPT !.open = <<reader.chapter, reader.next>>, !.body = Line,
                                         !.next = reader.next + 1,
                                         !.used = @ \cup {reader.chapter}]
             /\ segments' = Closed
      BY <1>3 DEF Paragraph, Take
    <2> QED
      BY <1>1, <2>1, RefusedStays, LineOpens
  <1>4. CASE ParagraphText
    <2>1. /\ stage' = stage /\ adapter' = adapter /\ segments' = segments
          /\ reader' = reader \/ reader' = More
      BY <1>4 DEF ParagraphText, Take
    <2> QED
      BY <1>1, <2>1, LineStays DEF More
  <1>5. CASE EndOfBook
    <2>1. \/ RefuseLine
          \/ /\ stage' = "done" /\ segments' = Closed /\ adapter' = adapter /\ reader' = reader
             /\ ~\E i, j \in DOMAIN reader.seen : i < j /\ reader.seen[i] >= reader.seen[j]
      BY <1>5 DEF EndOfBook, AtEnd
    <2>2. reader.seen \in Seq(Nat)
      BY <1>1 DEF Numbering, InBook
    <2>3. CASE RefuseLine
      BY <1>1, <2>3, RefusedStays
    <2>4. CASE ~RefuseLine
      <3>1. ASSUME NEW i \in DOMAIN reader.seen, NEW j \in DOMAIN reader.seen, i < j
            PROVE  reader.seen[i] < reader.seen[j]
        <4>1. reader.seen[i] \in Nat /\ reader.seen[j] \in Nat
          BY <2>2
        <4>2. ~(reader.seen[i] >= reader.seen[j])
          BY <2>1, <2>4, <3>1, Zenon
        <4> QED
          BY <4>1, <4>2
      <3>2. Rising
        BY <3>1 DEF Rising
      <3> QED
        BY <1>1, <2>1, <2>4, <3>2, DoneStays, Zenon
    <2> QED
      BY <2>3, <2>4
  <1> QED
    BY <1>2, <1>3, <1>4, <1>5

LEMMA BlankStays ==
    ASSUME Numbering, BlankLine
    PROVE  Stays
  <1>1. /\ stage = "segment" /\ stage' = stage /\ adapter' = adapter
        /\ reader' = reader /\ segments' = segments
    BY DEF BlankLine, Reading, Take
  <1> QED
    BY <1>1, LineStays

---------------------------------------------------------------------------
(* The book's lines.                                                       *)

LEMMA PublishedBook ==
    ASSUME NEW blocks \in Seq(Seq(BookLine)), NEW how, NEW at \in DOMAIN blocks,
           MayBe(blocks, how, at)
    PROVE  Published(blocks, how, at) \in Seq(Seq(BookLine))
  <1>1. /\ at \in Nat /\ at >= 1 /\ at <= Len(blocks) /\ Len(blocks) \in Nat
        /\ blocks[at] \in Seq(BookLine)
    OBVIOUS
  <1>2. \A i, j \in Nat : i >= 1 /\ j <= Len(blocks) => SubSeq(blocks, i, j) \in Seq(Seq(BookLine))
    <2> TAKE i, j \in Nat
    <2>1. ASSUME i >= 1, j <= Len(blocks)
          PROVE  \A k \in i..j : k \in DOMAIN blocks
      BY <2>1
    <2> QED
      BY <2>1
  <1>3. RemoveAt(blocks, at) \in Seq(Seq(BookLine))
    <2>1. SubSeq(blocks, 1, at - 1) \in Seq(Seq(BookLine))
      BY <1>1, <1>2
    <2>2. SubSeq(blocks, at + 1, Len(blocks)) \in Seq(Seq(BookLine))
      BY <1>1, <1>2
    <2> QED
      BY <2>1, <2>2 DEF RemoveAt
  <1>4. InsertAt(blocks, at, blocks[at]) \in Seq(Seq(BookLine))
    <2>1. SubSeq(blocks, 1, at - 1) \in Seq(Seq(BookLine))
      BY <1>1, <1>2
    <2>2. SubSeq(blocks, at, Len(blocks)) \in Seq(Seq(BookLine))
      BY <1>1, <1>2
    <2>3. <<blocks[at]>> \in Seq(Seq(BookLine))
      BY <1>1
    <2> QED
      BY <2>1, <2>2, <2>3 DEF InsertAt
  <1>5. how = "swapped" => Swapped(blocks, at) \in Seq(Seq(BookLine))
    BY <1>1 DEF MayBe, Swapped
  <1>6. how # "renamed"
    <2>1. ASSUME NEW i \in DOMAIN blocks[at], Marked(blocks[at][i])
          PROVE  FALSE
      <3>1. blocks[at][i] \in BookLine
        BY <1>1
      <3> QED
        BY <2>1, <3>1 DEF Marked, BookLine
    <2> QED
      BY <2>1 DEF MayBe
  <1>7. [blocks EXCEPT ![at] = Front(@)] \in Seq(Seq(BookLine))
    <2>1. \A s \in Seq(BookLine) : Front(s) \in Seq(BookLine)
      BY DEF Front
    <2>2. Front(blocks[at]) \in Seq(BookLine)
      BY <1>1, <2>1
    <2> QED
      BY <1>1, <2>2
  <1> QED
    BY <1>3, <1>4, <1>5, <1>6, <1>7 DEF Published

LEMMA BookLinesRead ==
    ASSUME BookLines, adapter \in Bco, Extract
    PROVE  BookLines'
  <1>1. Decode \/ PageLine \/ BookExtracted
    BY DEF Extract, OpcOpen, OpcClose, OpcText, OpcExtracted, EpcewOpen, EpcewClose, EpcewText,
           EpcewExtracted, ReportOpen, ReportClose, ReportText, ReportExtracted, TextLine,
           WebExtracted, InstitutesExtracted, On, Bco, Opc, Epcew, Ga28, Calvin, Web
  <1>2. CASE Decode
    BY <1>2 DEF Decode, Refuse, BookLines
  <1>3. CASE BookExtracted
    BY <1>3 DEF BookExtracted, Extracted, Refuse, BookLines
  <1>4. CASE PageLine
    <2> DEFINE lines == parser.lines
               line == Head(source).line
               last == lines[Len(lines)]
    <2>1. source # <<>> /\ source \in Seq(BookLine) /\ lines \in Seq(Seq(BookText))
      BY <1>4 DEF PageLine, On, BookLines
    <2>2. line \in Seq(BookText)
      <3>1. Head(source) \in BookLine
        BY <2>1
      <3> QED
        BY <3>1 DEF BookLine
    <2>3. Append(lines, line) \in Seq(Seq(BookText))
      BY <2>1, <2>2
    <2>4. lines # <<>> => Append(Front(lines), last \o line) \in Seq(Seq(BookText))
      <3>1. ASSUME lines # <<>>
            PROVE  last \in Seq(BookText)
        BY <3>1, <2>1
      <3>2. Front(lines) \in Seq(Seq(BookText))
        BY <2>1 DEF Front
      <3>3. lines # <<>> => last \o line \in Seq(BookText)
        BY <2>2, <3>1
      <3> QED
        BY <3>2, <3>3
    <2>5. /\ document' = document /\ source' = Tail(source) /\ "lines" \in DOMAIN parser'
          /\ \/ parser'.lines = lines
             \/ parser'.lines = Append(lines, line)
             \/ lines # <<>> /\ parser'.lines = Append(Front(lines), last \o line)
      BY <1>4 DEF PageLine, Read, Divider, BookLines
    <2>6. source' \in Seq(BookLine)
      BY <2>1, <2>5
    <2>7. parser'.lines \in Seq(Seq(BookText))
      BY <2>1, <2>3, <2>4, <2>5
    <2> QED
      BY <2>5, <2>6, <2>7 DEF BookLines
  <1> QED
    BY <1>1, <1>2, <1>3, <1>4

LEMMA BookLinesSegmented ==
    ASSUME BookLines, parser' = parser, source' = source,
           document' = document \/ (document # <<>> /\ document' = Tail(document))
    PROVE  BookLines'
  <1>1. \A s \in Seq(Seq(BookText)) : s # <<>> => Tail(s) \in Seq(Seq(BookText))
    OBVIOUS
  <1>2. document' \in Seq(Seq(BookText))
    BY <1>1, Zenon DEF BookLines
  <1> QED
    BY <1>2 DEF BookLines

LEMMA SegmentLinesRead ==
    ASSUME adapter \in Bco, SegmentLines
    PROVE  /\ parser' = parser /\ source' = source
           /\ document' = document \/ (document # <<>> /\ document' = Tail(document))
  <1>1. BlankLine \/ BookChapter \/ Paragraph \/ ParagraphText \/ EndOfBook
    BY DEF SegmentLines, Question, Answer, Division, Continuation, EndOfCatechism, Chapter,
           Section, SectionText, EndOfConfession, Navigation, PageChapter, PageSection, PageText,
           EndOfPages, ReportHeading, ReportParagraph, EndOfReport, Verse, EndOfBible, Institutes,
           Reading, AtEnd, Catechisms, Bco, Epcew, Ga28, Web, Calvin
  <1>3. CASE BlankLine
    BY <1>3 DEF BlankLine, Reading, Take
  <1>4. CASE BookChapter
    BY <1>4 DEF BookChapter, Reading, Take
  <1>5. CASE Paragraph
    BY <1>5 DEF Paragraph, Reading, Take, RefuseLine
  <1>6. CASE ParagraphText
    BY <1>6 DEF ParagraphText, Take
  <1>7. CASE EndOfBook
    BY <1>7 DEF EndOfBook, AtEnd, RefuseLine
  <1> QED
    BY <1>1, <1>3, <1>4, <1>5, <1>6, <1>7

---------------------------------------------------------------------------
(* The theorem.                                                            *)

LEMMA SegmentationInit ==
    ASSUME Init
    PROVE  SegmentationIInv
  <1>1. reader = Reader /\ segments = <<>> /\ stage = "decode" /\ parser = Parser /\ document = <<>>
    BY DEF Init
  <1>2. Given = <<>>
    <2>1. Taken = <<>>
      BY <1>1 DEF Taken, Closed, Reader
    <2> QED
      BY <2>1 DEF Given
  <1>3. Numbering
    <2>1. IsSeq(segments)
      <3>1. segments \in Seq({})
        BY <1>1
      <3> QED
        BY <3>1, Zenon DEF IsSeq
    <2>2. reader.chapter = 0 /\ reader.next = 1 /\ reader.seen = <<>>
      BY <1>1 DEF Reader
    <2>3. Through(Given, 0, 1) /\ InOrder(Given, 0, 1)
      BY <1>2 DEF Through, InOrder
    <2>4. InBook
      BY <1>2, <2>2 DEF InBook
    <2> QED
      BY <1>1, <2>1, <2>2, <2>3, <2>4 DEF Numbering
  <1>4. ASSUME adapter \in Bco
        PROVE  BookLines
    <2>1. PICK work \in Works : \E how \in DamagedBy, at \in DOMAIN work.blocks :
              /\ MayBe(work.blocks, how, at) /\ adapter = work.adapter
              /\ source = FlattenSeq(Published(work.blocks, how, at))
      BY DEF Init
    <2>2. PICK how \in DamagedBy, at \in DOMAIN work.blocks :
              /\ MayBe(work.blocks, how, at) /\ adapter = work.adapter
              /\ source = FlattenSeq(Published(work.blocks, how, at))
      BY <2>1
    <2>3. work.blocks \in Seq(Seq(BookLine))
      BY <1>4, <2>2, WorksAssumption
    <2>4. source \in Seq(BookLine)
      BY <2>2, <2>3, PublishedBook, Flattened
    <2> QED
      BY <1>1, <2>4 DEF BookLines, Parser
  <1> QED
    BY <1>3, <1>4 DEF SegmentationIInv

LEMMA SegmentationNext ==
    ASSUME SegmentationIInv, [Next]_vars
    PROVE  SegmentationIInv'
  <1>1. CASE Extract /\ UNCHANGED <<reader, segments>>
    <2>1. adapter' = adapter
      BY <1>1, ExtractStage
    <2>2. adapter \in Numbered => Numbering'
      BY <1>1, ExtractStays, StaysNumbered DEF SegmentationIInv
    <2>3. adapter \in Bco => BookLines'
      BY <1>1, BookLinesRead DEF SegmentationIInv
    <2> QED
      BY <2>1, <2>2, <2>3 DEF SegmentationIInv
  <1>2. CASE SegmentLines
    <2>1. adapter' = adapter
      BY <1>2 DEF SegmentLines, BlankLine, Question, Answer, Division, Continuation,
             EndOfCatechism, Chapter, Section, SectionText, EndOfConfession, Navigation,
             PageChapter, PageSection, PageText, EndOfPages, ReportHeading, ReportParagraph,
             EndOfReport, BookChapter, Paragraph, ParagraphText, EndOfBook, Verse, EndOfBible,
             Institutes, AtEnd, Take, RefuseLine
    <2>2. adapter \in Bco => BookLines'
      BY <1>2, SegmentLinesRead, BookLinesSegmented DEF SegmentationIInv
    <2>3. ASSUME adapter \in Numbered
          PROVE  Numbering'
      <3>1. Numbering /\ (adapter \in Bco => BookLines)
        BY <2>3 DEF SegmentationIInv
      <3>2. ~(ReportHeading \/ ReportParagraph \/ EndOfReport \/ Verse \/ EndOfBible \/ Institutes)
        BY <2>3 DEF ReportHeading, ReportParagraph, EndOfReport, Verse, EndOfBible, Institutes,
                    Reading, AtEnd, Numbered, Catechisms, Epcew, Bco, Ga28, Web, Calvin
      <3>3. CASE BlankLine
        BY <3>1, <3>3, BlankStays, StaysNumbered
      <3>4. CASE Question \/ Answer \/ Division \/ Continuation \/ EndOfCatechism
        BY <3>1, <3>4, CatechismMoves, StaysNumbered, OpensNumbered
      <3>5. CASE Chapter \/ Section \/ SectionText \/ EndOfConfession
        BY <3>1, <3>5, ConfessionMoves, StaysNumbered, TurnsNumbered, OpensNumbered
      <3>6. CASE Navigation \/ PageChapter \/ PageSection \/ PageText \/ EndOfPages
        BY <3>1, <3>6, PagesMoves, StaysNumbered, TurnsNumbered, OpensNumbered
      <3>7. CASE BookChapter \/ Paragraph \/ ParagraphText \/ EndOfBook
        <4>1. adapter \in Bco
          BY <3>7 DEF BookChapter, Paragraph, ParagraphText, EndOfBook, Reading, AtEnd
        <4> QED
          BY <3>1, <3>7, <4>1, BookMoves, StaysNumbered, TurnsNumbered, OpensNumbered
      <3> QED
        BY <1>2, <3>2, <3>3, <3>4, <3>5, <3>6, <3>7, Zenon DEF SegmentLines
    <2> QED
      BY <2>1, <2>2, <2>3 DEF SegmentationIInv
  <1>3. CASE UNCHANGED vars
    <2>1. adapter' = adapter
      BY <1>3 DEF vars, extractVars
    <2>2. Numbering => Numbering'
      BY <1>3 DEF vars, extractVars, Numbering, Rising, InBook, Given, Taken, Closed, IsSeq
    <2>3. BookLines => BookLines'
      BY <1>3 DEF vars, extractVars, BookLines
    <2> QED
      BY <2>1, <2>2, <2>3 DEF SegmentationIInv
  <1> QED
    BY <1>1, <1>2, <1>3 DEF Next

\* What the chapters and numbers read so far have to do with the addresses given.
THEOREM SegmentationIInvHolds == Spec => []SegmentationIInv
  <1>1. Init => SegmentationIInv
    BY SegmentationInit
  <1>2. SegmentationIInv /\ [Next]_vars => SegmentationIInv'
    BY SegmentationNext
  <1> QED
    BY <1>1, <1>2, PTL DEF Spec

LEMMA NumberedThroughFollows ==
    ASSUME SegmentationIInv
    PROVE  NumberedThrough
  <1>1. SUFFICES ASSUME stage = "done", adapter \in Numbered, NEW j \in DOMAIN segments
        PROVE  LET at == segments[j].locator IN
               /\ \A i \in 1..(j - 1) : Precedes(segments[i].locator, at)
               /\ NumberIn(at) # 1 =>
                     /\ j > 1
                     /\ InChapter(segments[j - 1].locator) = InChapter(at)
                     /\ NumberIn(segments[j - 1].locator) = NumberIn(at) - 1
    BY DEF NumberedThrough
  <1>2. /\ IsSeq(segments) /\ Through(Given, reader.chapter, reader.next)
        /\ InOrder(Given, reader.chapter, reader.next)
    BY <1>1 DEF SegmentationIInv, Numbering
  <1>3. Len(segments) \in Nat /\ DOMAIN segments = 1..Len(segments)
    BY <1>2, Extended
  <1>4. /\ DOMAIN Given = 1..Len(segments)
        /\ \A i \in 1..Len(segments) : Given[i] = Address(segments[i].locator)
    BY <1>1, <1>3 DEF Given, Taken
  <1>5. \A i \in 1..Len(segments) : /\ Given[i][1] = InChapter(segments[i].locator)
                                    /\ Given[i][2] = NumberIn(segments[i].locator)
    BY <1>4 DEF Address
  <1>6. ASSUME NEW i \in 1..(j - 1)
        PROVE  Precedes(segments[i].locator, segments[j].locator)
    <2>1. i \in 1..Len(segments) /\ j \in 1..Len(segments) /\ i < j
      BY <1>3
    <2>2. Before(Given[i], Given[j])
      BY <1>2, <1>4, <2>1 DEF InOrder
    <2> QED
      BY <1>5, <2>1, <2>2 DEF Before, Precedes
  <1>7. ASSUME NumberIn(segments[j].locator) # 1
        PROVE  /\ j > 1
               /\ InChapter(segments[j - 1].locator) = InChapter(segments[j].locator)
               /\ NumberIn(segments[j - 1].locator) = NumberIn(segments[j].locator) - 1
    <2>1. Given[j][2] # 1
      BY <1>3, <1>5, <1>7
    <2>2. j > 1 /\ Given[j - 1][1] = Given[j][1] /\ Given[j - 1][2] = Given[j][2] - 1
      BY <1>2, <1>3, <1>4, <2>1 DEF Through
    <2>3. j \in 1..Len(segments) /\ j - 1 \in 1..Len(segments)
      BY <1>3, <2>2
    <2> QED
      BY <1>5, <2>2, <2>3
  <1> QED
    BY <1>6, <1>7

\* _catechism.py, wcf_1788.py, wcf_1646_epcew_modernised.py and pca_bco_2026.py:
\* whatever was published, and whatever became of one block of it, an edition an
\* adapter accepts gives every address once, in order, and passes none over.
THEOREM NumberedThroughHolds == Spec => []NumberedThrough
  BY SegmentationIInvHolds, NumberedThroughFollows, PTL
=============================================================================
