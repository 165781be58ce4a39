-------------------------- MODULE EventStreamProofs --------------------------
(***************************************************************************)
(* Proofs about EventStream, for every set of clients and threads, every   *)
(* page size and every number of events and lost connections.              *)
(***************************************************************************)
EXTENDS EventStream, SequenceTheorems, TLAPS

(***************************************************************************)
(* Sequences of numbers that rise.                                         *)
(***************************************************************************)
LEMMA Indices ==
    ASSUME NEW a \in Seq(Nat), NEW b \in Seq(Nat)
    PROVE  /\ a \o b \in Seq(Nat) /\ Len(a \o b) = Len(a) + Len(b)
           /\ Len(a) \in Nat /\ Len(b) \in Nat
           /\ DOMAIN a = 1 .. Len(a) /\ DOMAIN b = 1 .. Len(b)
           /\ DOMAIN (a \o b) = 1 .. Len(a) + Len(b)
           /\ \A i \in 1 .. Len(a) : (a \o b)[i] = a[i]
           /\ \A i \in 1 .. Len(b) : (a \o b)[Len(a) + i] = b[i]
OBVIOUS

LEMMA RangeOfConcat ==
    ASSUME NEW a \in Seq(Nat), NEW b \in Seq(Nat)
    PROVE  ToSet(a \o b) = ToSet(a) \cup ToSet(b)
<1> DEFINE s == a \o b
<1>1. /\ Len(s) = Len(a) + Len(b) /\ Len(a) \in Nat /\ Len(b) \in Nat
      /\ DOMAIN a = 1 .. Len(a) /\ DOMAIN b = 1 .. Len(b)
      /\ DOMAIN s = 1 .. Len(a) + Len(b)
      /\ \A i \in 1 .. Len(a) : s[i] = a[i]
      /\ \A i \in 1 .. Len(b) : s[Len(a) + i] = b[i]
  BY Indices
<1> HIDE DEF s
<1>2. ASSUME NEW x \in ToSet(s) PROVE x \in ToSet(a) \cup ToSet(b)
  <2>1. PICK i \in 1 .. Len(a) + Len(b) : x = s[i]
    BY <1>1, <1>2 DEF ToSet
  <2>2. CASE i <= Len(a)
    BY <1>1, <2>1, <2>2 DEF ToSet
  <2>3. CASE i > Len(a)
    <3>1. i - Len(a) \in 1 .. Len(b) /\ Len(a) + (i - Len(a)) = i
      BY <1>1, <2>1, <2>3
    <3>2. x = b[i - Len(a)]
      BY <1>1, <2>1, <3>1
    <3> QED BY <1>1, <3>1, <3>2 DEF ToSet
  <2> QED BY <1>1, <2>1, <2>2, <2>3
<1>3. ASSUME NEW x \in ToSet(a) PROVE x \in ToSet(s)
  <2>1. PICK i \in 1 .. Len(a) : x = a[i]
    BY <1>1, <1>3 DEF ToSet
  <2>2. i \in 1 .. Len(a) + Len(b) /\ x = s[i]
    BY <1>1, <2>1
  <2> QED BY <1>1, <2>2 DEF ToSet
<1>4. ASSUME NEW x \in ToSet(b) PROVE x \in ToSet(s)
  <2>1. PICK i \in 1 .. Len(b) : x = b[i]
    BY <1>1, <1>4 DEF ToSet
  <2>2. Len(a) + i \in 1 .. Len(a) + Len(b) /\ x = s[Len(a) + i]
    BY <1>1, <2>1
  <2> QED BY <1>1, <2>2 DEF ToSet
<1> QED BY <1>2, <1>3, <1>4 DEF s

\* One list after another.
LEMMA ListsConcat ==
    ASSUME NEW a \in Seq(Nat), NEW b \in Seq(Nat), NEW A, NEW B,
           Lists(a, A), Lists(b, B),
           \A x \in A, y \in B : x < y
    PROVE  Lists(a \o b, A \cup B)
<1> DEFINE s == a \o b
<1>1. /\ Len(s) = Len(a) + Len(b) /\ Len(a) \in Nat /\ Len(b) \in Nat
      /\ DOMAIN a = 1 .. Len(a) /\ DOMAIN b = 1 .. Len(b)
      /\ \A i \in 1 .. Len(a) : s[i] = a[i]
      /\ \A i \in 1 .. Len(b) : s[Len(a) + i] = b[i]
  BY Indices
<1>2. ToSet(s) = A \cup B
  BY RangeOfConcat DEF Lists
<1> HIDE DEF s
<1>3. \A i \in 1 .. Len(a) : a[i] \in A
  BY <1>1 DEF Lists, ToSet
<1>4. \A i \in 1 .. Len(b) : b[i] \in B
  BY <1>1 DEF Lists, ToSet
<1>5. ASSUME NEW i \in 1 .. Len(s), NEW k \in 1 .. Len(s), i < k
      PROVE  s[i] < s[k]
  <2>1. CASE k <= Len(a)
    <3>1. i \in 1 .. Len(a) /\ k \in 1 .. Len(a)
      BY <1>1, <1>5, <2>1
    <3> QED BY <1>1, <1>5, <3>1 DEF Lists, Rising
  <2>2. CASE k > Len(a)
    <3>1. k - Len(a) \in 1 .. Len(b) /\ s[k] = b[k - Len(a)]
      <4>1. k - Len(a) \in 1 .. Len(b) /\ Len(a) + (k - Len(a)) = k
        BY <1>1, <2>2
      <4> QED BY <1>1, <4>1
    <3>2. CASE i <= Len(a)
      BY <1>1, <1>3, <1>4, <3>1, <3>2
    <3>3. CASE i > Len(a)
      <4>1. /\ i - Len(a) \in 1 .. Len(b) /\ Len(a) + (i - Len(a)) = i
            /\ i - Len(a) < k - Len(a)
        BY <1>1, <1>5, <3>3
      <4>2. s[i] = b[i - Len(a)]
        BY <1>1, <4>1
      <4> QED BY <3>1, <4>1, <4>2 DEF Lists, Rising
    <3> QED BY <1>1, <3>2, <3>3
  <2> QED BY <1>1, <2>1, <2>2
<1> QED BY <1>2, <1>5 DEF s, Lists, Rising

LEMMA Regroup ==
    ASSUME NEW a \in Seq(Nat), NEW b \in Seq(Nat), NEW c \in Seq(Nat)
    PROVE  (a \o b) \o c = a \o (b \o c)
BY ConcatAssociative

\* One number more.
LEMMA One ==
    ASSUME NEW e \in Nat
    PROVE  <<e>> \in Seq(Nat) /\ Lists(<<e>>, {e}) /\ ToSet(<<e>>) = {e}
<1>1. <<e>> \in Seq(Nat) /\ Len(<<e>>) = 1 /\ DOMAIN <<e>> = 1 .. 1 /\ <<e>>[1] = e
  OBVIOUS
<1>2. ToSet(<<e>>) = {e}
  BY <1>1 DEF ToSet
<1> QED BY <1>1, <1>2 DEF Lists, Rising

LEMMA Appends ==
    ASSUME NEW s \in Seq(Nat), NEW e \in Nat
    PROVE  /\ Append(s, e) \in Seq(Nat) /\ Append(s, e) = s \o <<e>>
           /\ ToSet(Append(s, e)) = ToSet(s) \cup {e}
<1>1. Append(s, e) = s \o <<e>> /\ Append(s, e) \in Seq(Nat)
  OBVIOUS
<1> QED BY <1>1, One, RangeOfConcat

\* Moving the first element of one sequence to the end of the one before it.
LEMMA Moved ==
    ASSUME NEW a \in Seq(Nat), NEW b \in Seq(Nat), b # << >>
    PROVE  /\ Append(a, Head(b)) \o Tail(b) = a \o b
           /\ Head(b) \in Nat /\ Tail(b) \in Seq(Nat)
<1>1. /\ Head(b) \in Nat /\ Tail(b) \in Seq(Nat) /\ Len(b) \in Nat \ {0}
      /\ Head(b) = b[1] /\ Len(Tail(b)) = Len(b) - 1
      /\ \A i \in 1 .. Len(b) - 1 : Tail(b)[i] = b[i + 1]
  OBVIOUS
<1> DEFINE x == Append(a, Head(b)) y == Tail(b)
<1>2. /\ x \in Seq(Nat) /\ Len(x) = Len(a) + 1 /\ Len(a) \in Nat
      /\ \A i \in 1 .. Len(a) : x[i] = a[i]
      /\ x[Len(a) + 1] = b[1]
  BY <1>1
<1> HIDE DEF x, y
<1>3. y \in Seq(Nat) /\ Len(y) = Len(b) - 1 /\ \A i \in 1 .. Len(b) - 1 : y[i] = b[i + 1]
  BY <1>1 DEF y
<1>4. /\ Len(x \o y) = Len(a) + Len(b) /\ Len(a \o b) = Len(a) + Len(b)
      /\ DOMAIN (x \o y) = 1 .. Len(a) + Len(b)
      /\ DOMAIN (a \o b) = 1 .. Len(a) + Len(b)
      /\ x \o y \in Seq(Nat) /\ a \o b \in Seq(Nat)
  <2>1. Len(x) + Len(y) = Len(a) + Len(b)
    BY <1>1, <1>2, <1>3
  <2>2. /\ x \o y \in Seq(Nat) /\ Len(x \o y) = Len(x) + Len(y)
        /\ DOMAIN (x \o y) = 1 .. Len(x) + Len(y)
    BY <1>2, <1>3, Indices
  <2>3. /\ a \o b \in Seq(Nat) /\ Len(a \o b) = Len(a) + Len(b)
        /\ DOMAIN (a \o b) = 1 .. Len(a) + Len(b)
    BY Indices
  <2> QED BY <2>1, <2>2, <2>3
<1>5. ASSUME NEW i \in 1 .. Len(a) + Len(b) PROVE (x \o y)[i] = (a \o b)[i]
  <2>1. CASE i <= Len(a)
    <3>1. i \in 1 .. Len(a) /\ i \in 1 .. Len(x)
      BY <1>2, <2>1
    <3> QED BY <1>2, <1>3, <3>1, Indices
  <2>2. CASE i = Len(a) + 1
    <3>1. i \in 1 .. Len(x) /\ 1 \in 1 .. Len(b)
      BY <1>1, <1>2, <2>2
    <3> QED BY <1>2, <1>3, <2>2, <3>1, Indices
  <2>3. CASE i > Len(a) + 1
    <3> DEFINE k == i - Len(x)
    <3>1. /\ k \in 1 .. Len(y) /\ i = Len(x) + k
          /\ k + 1 \in 1 .. Len(b) /\ i = Len(a) + (k + 1)
          /\ k \in 1 .. Len(b) - 1
      BY <1>1, <1>2, <1>3, <2>3
    <3> HIDE DEF k
    <3>2. \A j \in 1 .. Len(y) : (x \o y)[Len(x) + j] = y[j]
      BY <1>2, <1>3, Indices
    <3>3. \A j \in 1 .. Len(b) : (a \o b)[Len(a) + j] = b[j]
      BY Indices
    <3>4. (x \o y)[i] = y[k]
      BY <3>1, <3>2
    <3>5. (a \o b)[i] = b[k + 1]
      BY <3>1, <3>3
    <3> QED BY <1>3, <3>1, <3>4, <3>5
  <2>4. i <= Len(a) \/ i = Len(a) + 1 \/ i > Len(a) + 1
    BY <1>2
  <2> QED BY <2>1, <2>2, <2>3, <2>4
<1>6. x \o y = a \o b
  <2> DEFINE u == x \o y v == a \o b
  <2>1. /\ u \in Seq(Nat) /\ v \in Seq(Nat) /\ Len(u) = Len(v)
        /\ Len(u) = Len(a) + Len(b)
    BY <1>4
  <2>2. \A i \in 1 .. Len(u) : u[i] = v[i]
    BY <1>5, <2>1
  <2> HIDE DEF u, v
  <2>3. u = v
    BY <2>1, <2>2, SeqEqual
  <2> QED BY <2>3 DEF u, v
<1> QED BY <1>1, <1>6 DEF x, y

\* A prefix of a rising sequence has what is not above its end.
LEMMA PrefixLists ==
    ASSUME NEW a \in Seq(Nat), NEW e \in Nat, NEW b \in Seq(Nat), NEW S,
           Lists(Append(a, e) \o b, S)
    PROVE  Lists(Append(a, e), {x \in S : x <= e})
<1> DEFINE p == Append(a, e) s == p \o b
<1>1. p \in Seq(Nat) /\ Len(p) = Len(a) + 1 /\ Len(a) \in Nat /\ p[Len(p)] = e
  OBVIOUS
<1>2. Rising(s) /\ ToSet(s) = S
  BY DEF Lists
<1> HIDE DEF p
<1>3. /\ Len(s) = Len(p) + Len(b) /\ Len(p) \in Nat /\ Len(b) \in Nat
      /\ DOMAIN p = 1 .. Len(p) /\ DOMAIN s = 1 .. Len(p) + Len(b)
      /\ \A i \in 1 .. Len(p) : s[i] = p[i]
      /\ s \in Seq(Nat)
  BY <1>1, Indices
<1> HIDE DEF s
<1>4. Rising(p)
  BY <1>2, <1>3 DEF Rising
<1>n. \A i \in 1 .. Len(s) : s[i] \in Nat
  BY <1>3
<1>5. ASSUME NEW x \in ToSet(p) PROVE x \in S /\ x <= e
  <2>1. PICK i \in 1 .. Len(p) : x = p[i]
    BY <1>3, <1>5 DEF ToSet
  <2>2. i \in DOMAIN s /\ x = s[i] /\ x \in Nat
    BY <1>3, <1>n, <2>1
  <2>3. x \in S
    BY <1>2, <2>2 DEF ToSet
  <2>4. CASE i = Len(p)
    <3>1. x = e
      BY <1>1, <2>1, <2>4
    <3> QED BY <2>3, <3>1
  <2>5. CASE i # Len(p)
    <3>1. i < Len(p) /\ Len(p) \in 1 .. Len(p)
      BY <1>1, <2>1, <2>5
    <3>2. x < e
      BY <1>1, <1>4, <2>1, <3>1 DEF Rising
    <3> QED BY <2>2, <2>3, <3>2
  <2> QED BY <2>3, <2>4, <2>5
<1>6. ASSUME NEW x \in S, x <= e PROVE x \in ToSet(p)
  <2>1. PICK i \in 1 .. Len(s) : x = s[i]
    BY <1>2, <1>3, <1>6 DEF ToSet
  <2>2. Len(p) \in 1 .. Len(s) /\ s[Len(p)] = e
    <3>1. Len(p) \in 1 .. Len(p) /\ Len(s) = Len(p) + Len(b)
      BY <1>1, <1>3
    <3>2. s[Len(p)] = e
      BY <1>1, <1>3, <3>1
    <3> QED BY <1>3, <3>1, <3>2
  <2>3. ~(Len(p) < i)
    <3> SUFFICES ASSUME Len(p) < i PROVE FALSE
      OBVIOUS
    <3>1. e < x /\ x \in Nat
      BY <1>2, <1>n, <2>1, <2>2 DEF Rising
    <3> QED BY <1>6, <3>1
  <2>4. i \in 1 .. Len(p) /\ x = p[i]
    BY <1>3, <2>1, <2>3
  <2> QED BY <1>3, <2>4 DEF ToSet
<1>7. ToSet(p) = {x \in S : x <= e}
  BY <1>5, <1>6
<1> QED BY <1>4, <1>7 DEF Lists, p

LEMMA Empty == << >> \in Seq(Nat) /\ Lists(<< >>, {}) /\ ToSet(<< >>) = {}
BY DEF Lists, Rising, ToSet

\* A page of the table.
LEMMA PageLists ==
    ASSUME NEW n \in Nat, last \in Nat, n <= last
    PROVE  /\ EventsAfter(n) \in Seq(Nat)
           /\ Lists(EventsAfter(n), {x \in n + 1 .. last : x <= n + Limit})
           /\ EventsAfter(n) \in Seq(1 .. last)
<1> DEFINE upto == IF last < n + Limit THEN last ELSE n + Limit
           m == IF upto > n THEN upto - n ELSE 0
           page == [i \in 1 .. m |-> n + i]
<1>1. upto \in Nat /\ upto <= last /\ upto <= n + Limit /\ n <= upto
      /\ (upto = last \/ upto = n + Limit)
  BY LimitAssumption
<1>2. m = upto - n /\ m \in Nat
  BY <1>1
<1> HIDE DEF upto, m
<1>3. page \in Seq(Nat) /\ Len(page) = m /\ DOMAIN page = 1 .. m
  BY <1>2
<1>4. page \in Seq(1 .. last)
  BY <1>1, <1>2
<1>5. Rising(page)
  BY <1>2, <1>3 DEF Rising
<1>6. ToSet(page) = {x \in n + 1 .. last : x <= n + Limit}
  <2>1. ASSUME NEW x \in ToSet(page) PROVE x \in n + 1 .. last /\ x <= n + Limit
    <3>1. PICK i \in 1 .. m : x = n + i
      BY <1>3, <2>1 DEF ToSet
    <3>2. x \in Nat /\ x >= n + 1 /\ x <= upto
      BY <1>1, <1>2, <3>1
    <3> QED BY <1>1, <3>2, LimitAssumption
  <2>2. ASSUME NEW x \in n + 1 .. last, x <= n + Limit PROVE x \in ToSet(page)
    <3>1. x - n \in 1 .. m /\ n + (x - n) = x
      BY <1>1, <1>2, <2>2, LimitAssumption
    <3>2. page[x - n] = x
      BY <3>1
    <3> QED BY <1>3, <3>1, <3>2 DEF ToSet
  <2> QED BY <2>1, <2>2
<1>7. EventsAfter(n) = page
  BY DEF EventsAfter, upto, m
<1> QED BY <1>3, <1>4, <1>5, <1>6, <1>7 DEF Lists

-----------------------------------------------------------------------------
\* What the types say of the numbers.
LEMMA Typed ==
    ASSUME TypeOK
    PROVE  /\ last \in Nat /\ last <= MaxEvents /\ MaxEvents \in Nat
           /\ \A c \in Clients : /\ received[c] \in Seq(Nat) /\ backlog[c] \in Seq(Nat)
                                 /\ queue[c] \in Seq(Nat)
                                 /\ cursor[c] \in Nat /\ cursor[c] <= last
                                 /\ skipped[c] \in SUBSET (1 .. last)
                                 /\ Sent(c) \in Seq(Nat)
                                 /\ ToSet(Sent(c)) = ToSet(received[c])
                                       \cup ToSet(backlog[c]) \cup ToSet(queue[c])
<1>1. last \in Nat /\ last <= MaxEvents /\ MaxEvents \in Nat
  BY BoundAssumption DEF TypeOK
<1>2. ASSUME NEW seq \in Seq(1 .. last) PROVE seq \in Seq(Nat)
  BY <1>1
<1>3. ASSUME NEW c \in Clients
      PROVE  /\ received[c] \in Seq(Nat) /\ backlog[c] \in Seq(Nat)
             /\ queue[c] \in Seq(Nat)
             /\ cursor[c] \in Nat /\ cursor[c] <= last
             /\ skipped[c] \in SUBSET (1 .. last)
             /\ Sent(c) \in Seq(Nat)
             /\ ToSet(Sent(c)) = ToSet(received[c])
                   \cup ToSet(backlog[c]) \cup ToSet(queue[c])
  <2>1. /\ received[c] \in Seq(1 .. last) /\ backlog[c] \in Seq(1 .. last)
        /\ queue[c] \in Seq(1 .. last) /\ cursor[c] \in 0 .. last
        /\ skipped[c] \in SUBSET (1 .. last)
    BY DEF TypeOK
  <2>2. /\ received[c] \in Seq(Nat) /\ backlog[c] \in Seq(Nat) /\ queue[c] \in Seq(Nat)
    BY <1>2, <2>1
  <2>3. /\ received[c] \o backlog[c] \in Seq(Nat)
        /\ ToSet(received[c] \o backlog[c]) = ToSet(received[c]) \cup ToSet(backlog[c])
    BY <2>2, RangeOfConcat, Indices
  <2>4. /\ Sent(c) \in Seq(Nat)
        /\ ToSet(Sent(c)) = ToSet(received[c] \o backlog[c]) \cup ToSet(queue[c])
    BY <2>2, <2>3, RangeOfConcat, Indices DEF Sent
  <2> QED BY <1>1, <2>1, <2>2, <2>3, <2>4
<1> QED BY <1>1, <1>3

\* What a fan-out puts into the queues.
LEMMA FannedOut ==
    ASSUME TypeOK, NEW e \in Nat, FanOut(e), NEW n \in Nat, e \in 1 .. n, last <= n
    PROVE  /\ queue' \in [Clients -> Seq(1 .. n)]
           /\ \A c \in Clients : /\ c \in subscribers => queue'[c] = Append(queue[c], e)
                                 /\ c \notin subscribers => queue'[c] = queue[c]
<1>1. \A c \in Clients : queue[c] \in Seq(1 .. n)
  BY Typed DEF TypeOK
<1>2. \A c \in Clients : Append(queue[c], e) \in Seq(1 .. n)
  BY <1>1
<1> QED BY <1>1, <1>2 DEF FanOut

LEMMA InitInv == Init => StreamInv /\ NothingMissed
<1> SUFFICES ASSUME Init PROVE StreamInv /\ NothingMissed
  OBVIOUS
<1> USE BoundAssumption DEF Init
<1>1. TypeOK
  BY DEF TypeOK
<1>2. HandInv /\ QueueInv /\ FreshInv
  BY DEF HandInv, QueueInv, FreshInv
<1>3. CursorInv
  BY Empty DEF CursorInv
<1>4. NothingMissed
  BY DEF NothingMissed, Connected
<1> QED BY <1>1, <1>2, <1>3, <1>4 DEF StreamInv

LEMMA TypeStep == TypeOK /\ [Next]_vars => TypeOK'
<1> SUFFICES ASSUME TypeOK, [Next]_vars PROVE TypeOK'
  OBVIOUS
<1>n. last \in Nat /\ last <= MaxEvents /\ MaxEvents \in Nat
  BY Typed
<1>w. ASSUME NEW n \in Nat, last <= n
      PROVE  /\ 0 .. last \subseteq 0 .. n /\ 1 .. last \subseteq 1 .. n
             /\ \A seq \in Seq(1 .. last) : seq \in Seq(1 .. n)
  BY <1>n, <1>w
\* A step that grows the table at most.
<1>g. ASSUME last' \in 0 .. MaxEvents, last <= last',
             UNCHANGED << subscribers, pc, backlog, received, cursor, disconnects,
                          skipped >>,
             committed' \in [Threads -> 0 .. last'],
             queue' \in [Clients -> Seq(1 .. last')],
             byThread' \subseteq 1 .. last'
      PROVE  TypeOK'
  <2>1. /\ 0 .. last \subseteq 0 .. last' /\ 1 .. last \subseteq 1 .. last'
        /\ \A seq \in Seq(1 .. last) : seq \in Seq(1 .. last')
    BY <1>g, <1>w
  <2>2. /\ backlog \in [Clients -> Seq(1 .. last')]
        /\ received \in [Clients -> Seq(1 .. last')]
        /\ cursor \in [Clients -> 0 .. last']
        /\ skipped \in [Clients -> SUBSET (1 .. last')]
    BY <2>1 DEF TypeOK
  <2> QED BY <1>g, <2>2 DEF TypeOK
<1>1. CASE Record
  <2>1. last' = last + 1 /\ last' \in 0 .. MaxEvents /\ last <= last' /\ FanOut(last')
    BY <1>1, <1>n DEF Record
  <2>2. committed \in [Threads -> 0 .. last'] /\ byThread \subseteq 1 .. last'
    BY <1>w, <2>1 DEF TypeOK
  <2>3. last' \in Nat /\ last' \in 1 .. last'
    BY <1>n, <2>1
  <2>4. queue' \in [Clients -> Seq(1 .. last')]
    BY <2>1, <2>3, FannedOut
  <2> QED BY <1>1, <1>g, <2>1, <2>2, <2>4 DEF Record
<1>2. ASSUME NEW t \in Threads, Commit(t) PROVE TypeOK'
  <2>1. last' = last + 1 /\ last' \in 0 .. MaxEvents /\ last <= last'
    BY <1>2, <1>n DEF Commit
  <2>2. /\ committed \in [Threads -> 0 .. last'] /\ byThread \subseteq 1 .. last'
        /\ queue \in [Clients -> Seq(1 .. last')]
    BY <1>w, <2>1 DEF TypeOK
  <2>3. last' \in 0 .. last' /\ last' \in 1 .. last'
    BY <1>n, <2>1
  <2> QED BY <1>2, <1>g, <2>1, <2>2, <2>3 DEF Commit
<1>3. ASSUME NEW t \in Threads, HandOut(t) PROVE TypeOK'
  <2>1. /\ committed[t] \in 1 .. last /\ FanOut(committed[t])
        /\ UNCHANGED << last, byThread, subscribers, pc, backlog, received, cursor,
                        disconnects, skipped >>
        /\ committed' = [committed EXCEPT ![t] = 0]
    BY <1>3, <1>n DEF HandOut, TypeOK
  <2>2. queue' \in [Clients -> Seq(1 .. last)]
    BY <1>n, <2>1, FannedOut
  <2>3. committed' \in [Threads -> 0 .. last]
    BY <1>n, <2>1 DEF TypeOK
  <2> QED BY <1>g, <1>n, <2>1, <2>2, <2>3 DEF TypeOK
<1>4. ASSUME NEW c \in Clients, Subscribe(c) PROVE TypeOK'
  BY <1>4 DEF Subscribe, server, TypeOK
<1>5. ASSUME NEW c \in Clients, ReadBacklog(c) PROVE TypeOK'
  <2>1. EventsAfter(cursor[c]) \in Seq(1 .. last)
    BY Typed, PageLists
  <2>2. (skipped[c] \cap 1 .. cursor[c]) \cup (cursor[c] + Limit + 1 .. last)
            \in SUBSET (1 .. last)
    BY Typed, LimitAssumption
  <2>3. /\ backlog' \in [Clients -> Seq(1 .. last)]
        /\ skipped' \in [Clients -> SUBSET (1 .. last)]
    BY <1>5, <2>1, <2>2 DEF ReadBacklog, TypeOK
  <2> QED BY <1>5, <2>3 DEF ReadBacklog, server, TypeOK
<1>6. ASSUME NEW c \in Clients, NEW e \in 1 .. last, Receive(c, e)
      PROVE  /\ received' \in [Clients -> Seq(1 .. last)]
             /\ cursor' \in [Clients -> 0 .. last]
  <2>1. Append(received[c], e) \in Seq(1 .. last) /\ e \in 0 .. last
    BY <1>n DEF TypeOK
  <2> QED BY <1>6, <2>1 DEF Receive, TypeOK
<1>7. ASSUME NEW c \in Clients, SendBacklog(c) PROVE TypeOK'
  <2>1. Head(backlog[c]) \in 1 .. last /\ Tail(backlog[c]) \in Seq(1 .. last)
    BY <1>7 DEF SendBacklog, TypeOK
  <2>2. backlog' \in [Clients -> Seq(1 .. last)]
    BY <1>7, <2>1 DEF SendBacklog, TypeOK
  <2> QED BY <1>6, <1>7, <2>1, <2>2 DEF SendBacklog, server, TypeOK
<1>8. ASSUME NEW c \in Clients, SendLive(c) PROVE TypeOK'
  <2>1. Head(queue[c]) \in 1 .. last /\ Tail(queue[c]) \in Seq(1 .. last)
    BY <1>8 DEF SendLive, TypeOK
  <2>2. queue' \in [Clients -> Seq(1 .. last)]
    BY <1>8, <2>1 DEF SendLive, TypeOK
  <2> QED BY <1>6, <1>8, <2>1, <2>2 DEF SendLive, server, TypeOK
<1>9. ASSUME NEW c \in Clients, Disconnect(c) PROVE TypeOK'
  BY <1>9, BoundAssumption DEF Disconnect, server, TypeOK
<1>10. CASE UNCHANGED vars
  BY <1>10 DEF vars, server, TypeOK
<1> QED BY <1>1, <1>2, <1>3, <1>4, <1>5, <1>7, <1>8, <1>9, <1>10 DEF Next, Send

LEMMA HandStep == StreamInv /\ [Next]_vars => HandInv'
<1> SUFFICES ASSUME StreamInv, [Next]_vars PROVE HandInv'
  OBVIOUS
<1>t. TypeOK /\ HandInv
  BY DEF StreamInv
<1>1. ASSUME NEW t \in Threads, Commit(t) \/ HandOut(t) PROVE HandInv'
  BY <1>1, <1>t DEF Commit, HandOut, HandInv, TypeOK
<1>2. ASSUME UNCHANGED << committed, byThread >> PROVE HandInv'
  BY <1>2, <1>t DEF HandInv
<1>3. CASE Record \/ UNCHANGED vars
  BY <1>2, <1>3 DEF Record, vars, server
<1>4. ASSUME NEW c \in Clients,
             Subscribe(c) \/ ReadBacklog(c) \/ Send(c) \/ Disconnect(c)
      PROVE  HandInv'
  BY <1>2, <1>4 DEF Subscribe, ReadBacklog, Send, SendBacklog, SendLive, Disconnect,
                    server
<1> QED BY <1>1, <1>3, <1>4 DEF Next

LEMMA QueueStep == StreamInv /\ [Next]_vars => QueueInv'
<1> SUFFICES ASSUME StreamInv, [Next]_vars PROVE QueueInv'
  OBVIOUS
<1>t. TypeOK /\ HandInv /\ QueueInv
  BY DEF StreamInv
<1>n. last \in Nat
  BY <1>t, Typed
<1>1. CASE Record
  <2>1. /\ last' \in Nat /\ last' \in 1 .. last' /\ last <= last' /\ FanOut(last')
        /\ UNCHANGED << pc, backlog, byThread >>
        /\ \A c \in Clients : pc[c] # "reading"
    BY <1>1, <1>n DEF Record, LoopFree
  <2>2. \A c \in Clients : pc[c] = "closed" => queue'[c] = queue[c]
    BY <1>t, <2>1, FannedOut DEF TypeOK
  <2> QED BY <1>t, <2>1, <2>2 DEF QueueInv
<1>2. ASSUME NEW t \in Threads, Commit(t) PROVE QueueInv'
  BY <1>2, <1>t DEF Commit, QueueInv
<1>3. ASSUME NEW t \in Threads, HandOut(t) PROVE QueueInv'
  <2>1. /\ committed[t] \in 1 .. last /\ committed[t] \in byThread
        /\ FanOut(committed[t]) /\ UNCHANGED << pc, backlog, byThread >>
    BY <1>3, <1>t, <1>n DEF HandOut, TypeOK, HandInv
  <2>2. \A c \in Clients : pc[c] = "closed" => queue'[c] = queue[c]
    BY <1>t, <1>n, <2>1, FannedOut DEF TypeOK
  <2> QED BY <1>t, <2>1, <2>2 DEF QueueInv
<1>4. ASSUME NEW c \in Clients, Subscribe(c) PROVE QueueInv'
  BY <1>4, <1>t DEF Subscribe, server, TypeOK, QueueInv
<1>5. ASSUME NEW c \in Clients, ReadBacklog(c) PROVE QueueInv'
  BY <1>5, <1>t DEF ReadBacklog, server, TypeOK, QueueInv
<1>6. ASSUME NEW c \in Clients, Send(c) PROVE QueueInv'
  BY <1>6, <1>t DEF Send, SendBacklog, SendLive, server, TypeOK, QueueInv
<1>7. ASSUME NEW c \in Clients, Disconnect(c) PROVE QueueInv'
  BY <1>7, <1>t DEF Disconnect, server, TypeOK, QueueInv
<1>8. CASE UNCHANGED vars
  BY <1>8, <1>t DEF vars, server, QueueInv
<1> QED BY <1>1, <1>2, <1>3, <1>4, <1>5, <1>6, <1>7, <1>8 DEF Next

LEMMA FreshStep == StreamInv /\ [Next]_vars => FreshInv'
<1> SUFFICES ASSUME StreamInv, [Next]_vars PROVE FreshInv'
  OBVIOUS
<1>t. TypeOK /\ FreshInv
  BY DEF StreamInv
<1>1. CASE Record \/ (\E t \in Threads : Commit(t) \/ HandOut(t)) \/ UNCHANGED vars
  <2>1. UNCHANGED << pc, received, cursor, skipped, disconnects >>
    BY <1>1 DEF Record, Commit, HandOut, vars
  <2> QED BY <1>t, <2>1 DEF FreshInv
<1>2. ASSUME NEW c \in Clients, Subscribe(c) PROVE FreshInv'
  BY <1>2, <1>t DEF Subscribe, TypeOK, FreshInv
<1>3. ASSUME NEW c \in Clients, ReadBacklog(c) PROVE FreshInv'
  BY <1>3, <1>t DEF ReadBacklog, TypeOK, FreshInv
<1>4. ASSUME NEW c \in Clients, Send(c) PROVE FreshInv'
  BY <1>4, <1>t DEF Send, SendBacklog, SendLive, Receive, TypeOK, FreshInv
<1>5. ASSUME NEW c \in Clients, Disconnect(c) PROVE FreshInv'
  BY <1>5, <1>t DEF Disconnect, TypeOK, FreshInv
<1> QED BY <1>1, <1>2, <1>3, <1>4, <1>5 DEF Next

-----------------------------------------------------------------------------
\* The first event of a backlog, or of a queue after it, moves to the client.
LEMMA SentStays ==
    ASSUME TypeOK, NEW c \in Clients, Send(c)
    PROVE  \E e \in Nat :
              /\ Receive(c, e)
              /\ Sent(c)' = Sent(c)
              /\ \E rest \in Seq(Nat) : Sent(c) = Append(received[c], e) \o rest
<1>1. /\ received[c] \in Seq(Nat) /\ backlog[c] \in Seq(Nat) /\ queue[c] \in Seq(Nat)
  BY Typed
<1>2. CASE SendBacklog(c)
  <2> DEFINE e == Head(backlog[c]) x == Append(received[c], e) y == Tail(backlog[c])
  <2>1. /\ backlog[c] # << >> /\ Receive(c, e)
        /\ received'[c] = x /\ backlog'[c] = y /\ queue'[c] = queue[c]
    BY <1>2 DEF SendBacklog, Receive, TypeOK
  <2>2. /\ x \o y = received[c] \o backlog[c] /\ e \in Nat /\ y \in Seq(Nat)
    BY <1>1, <2>1, Moved
  <2>3. x \in Seq(Nat)
    BY <1>1, <2>2
  <2> HIDE DEF e, x, y
  <2>4. Sent(c)' = Sent(c)
    BY <2>1, <2>2 DEF Sent
  <2>5. Sent(c) = x \o (y \o queue[c]) /\ y \o queue[c] \in Seq(Nat)
    <3>1. (x \o y) \o queue[c] = x \o (y \o queue[c])
      BY <1>1, <2>2, <2>3, Regroup
    <3>2. Sent(c) = (x \o y) \o queue[c]
      BY <2>2 DEF Sent
    <3>3. Sent(c) = x \o (y \o queue[c])
      BY <1>1, <2>2, <2>3, <3>1, <3>2
    <3> QED BY <1>1, <2>2, <3>3, Indices
  <2> QED BY <2>1, <2>2, <2>4, <2>5 DEF x
<1>3. CASE SendLive(c)
  <2> DEFINE e == Head(queue[c]) x == Append(received[c], e) y == Tail(queue[c])
  <2>1. /\ queue[c] # << >> /\ backlog[c] = << >> /\ Receive(c, e)
        /\ received'[c] = x /\ queue'[c] = y /\ backlog'[c] = << >>
    BY <1>3 DEF SendLive, Receive, TypeOK
  <2>2. x \o y = received[c] \o queue[c] /\ e \in Nat /\ y \in Seq(Nat)
    BY <1>1, <2>1, Moved
  <2>3. x \in Seq(Nat)
    BY <1>1, <2>2
  <2> HIDE DEF e, x, y
  <2>4. received[c] \o << >> = received[c] /\ x \o << >> = x
    BY <1>1, <2>3, ConcatEmptySeq
  <2>5. Sent(c)' = x \o y /\ Sent(c) = received[c] \o queue[c]
    BY <2>1, <2>4 DEF Sent
  <2> QED BY <2>1, <2>2, <2>5 DEF x
<1> QED BY <1>2, <1>3 DEF Send

LEMMA CursorStep == StreamInv /\ NothingMissed /\ [Next]_vars => CursorInv'
<1> SUFFICES ASSUME StreamInv, NothingMissed, [Next]_vars PROVE CursorInv'
  OBVIOUS
<1>t. TypeOK /\ CursorInv
  BY DEF StreamInv
<1>n. last \in Nat /\ \A c \in Clients : cursor[c] \in Nat /\ cursor[c] <= last
  BY <1>t, Typed
<1>1. CASE Record \/ UNCHANGED vars
  <2>1. UNCHANGED << byThread, received, cursor, skipped >>
    BY <1>1 DEF Record, vars, server
  <2> QED BY <1>t, <2>1 DEF CursorInv
<1>2. ASSUME NEW t \in Threads, Commit(t) \/ HandOut(t) PROVE CursorInv'
  <2>1. UNCHANGED << received, cursor, skipped >> /\ (byThread' = {} => byThread = {})
    BY <1>2 DEF Commit, HandOut
  <2> QED BY <1>t, <2>1 DEF CursorInv
<1>3. ASSUME NEW c \in Clients, Subscribe(c) \/ Disconnect(c) PROVE CursorInv'
  <2>1. UNCHANGED << byThread, received, cursor, skipped >>
    BY <1>3 DEF Subscribe, Disconnect, server
  <2> QED BY <1>t, <2>1 DEF CursorInv
<1>4. ASSUME NEW c \in Clients, ReadBacklog(c) PROVE CursorInv'
  <2>1. /\ UNCHANGED << byThread, received, cursor >>
        /\ \A d \in Clients \ {c} : skipped'[d] = skipped[d]
        /\ skipped'[c] = (skipped[c] \cap 1 .. cursor[c])
                            \cup (cursor[c] + Limit + 1 .. last)
    BY <1>4, <1>t DEF ReadBacklog, server, TypeOK
  <2>2. (1 .. cursor[c]) \ skipped'[c] = (1 .. cursor[c]) \ skipped[c]
    BY <1>n, <2>1, LimitAssumption
  <2> QED BY <1>t, <2>1, <2>2 DEF CursorInv
<1>5. ASSUME NEW c \in Clients, Send(c) PROVE CursorInv'
  <2>1. PICK e \in Nat : /\ Receive(c, e)
                         /\ \E rest \in Seq(Nat) : Sent(c) = Append(received[c], e) \o rest
    BY <1>5, <1>t, SentStays
  <2>2. /\ received'[c] = Append(received[c], e) /\ cursor'[c] = e
        /\ \A d \in Clients \ {c} : received'[d] = received[d] /\ cursor'[d] = cursor[d]
    BY <1>t, <2>1 DEF Receive, TypeOK
  <2>3. UNCHANGED << byThread, skipped, last >> /\ Connected(c)
    BY <1>5 DEF Send, SendBacklog, SendLive, server, Connected
  <2>4. cursor'[c] <= last
    <3>1. TypeOK'
      BY <1>t, TypeStep
    <3>2. cursor'[c] \in 0 .. last'
      BY <3>1 DEF TypeOK
    <3> QED BY <1>n, <2>3, <3>2
  <2>5. ASSUME byThread = {} PROVE Lists(received'[c], (1 .. e) \ skipped[c])
    <3>1. Lists(Sent(c), (1 .. last) \ skipped[c])
      BY <2>3, <2>5 DEF NothingMissed
    <3>2. PICK rest \in Seq(Nat) : Sent(c) = Append(received[c], e) \o rest
      BY <2>1
    <3>3. received[c] \in Seq(Nat)
      BY <1>t, Typed
    <3>4. Lists(Append(received[c], e), {x \in (1 .. last) \ skipped[c] : x <= e})
      BY <3>1, <3>2, <3>3, PrefixLists
    <3>5. {x \in (1 .. last) \ skipped[c] : x <= e} = (1 .. e) \ skipped[c]
      BY <1>n, <2>2, <2>4
    <3> QED BY <2>2, <3>4, <3>5
  <2> QED BY <1>t, <2>2, <2>3, <2>5 DEF CursorInv
<1> QED BY <1>1, <1>2, <1>3, <1>4, <1>5 DEF Next

-----------------------------------------------------------------------------
\* One event more, for the client and in the table.
LEMMA OneMore ==
    ASSUME TypeOK, NEW c \in Clients,
           last' = last + 1, UNCHANGED << received, backlog, skipped >>,
           queue'[c] = Append(queue[c], last')
    PROVE  /\ Lists(Sent(c), (1 .. last) \ skipped[c]) =>
                 Lists(Sent(c)', (1 .. last') \ skipped'[c])
           /\ ToSet(Sent(c)') = ToSet(Sent(c)) \cup {last'}
           /\ (1 .. last') \ skipped'[c] = ((1 .. last) \ skipped[c]) \cup {last'}
<1> DEFINE s == received[c] \o backlog[c]
<1>1. /\ last \in Nat /\ skipped[c] \in SUBSET (1 .. last) /\ queue[c] \in Seq(Nat)
      /\ received[c] \in Seq(Nat) /\ backlog[c] \in Seq(Nat) /\ Sent(c) \in Seq(Nat)
  BY Typed
<1>2. s \in Seq(Nat) /\ Sent(c) = s \o queue[c]
  BY <1>1, Indices DEF Sent
<1>3. Sent(c)' = s \o Append(queue[c], last')
  BY DEF Sent
<1> HIDE DEF s
<1>4. last' \in Nat /\ <<last'>> \in Seq(Nat)
  BY <1>1
<1>5. Append(queue[c], last') = queue[c] \o <<last'>>
  BY <1>1, <1>4, Appends
<1> DEFINE one == <<last'>>
<1> HIDE DEF one
<1>6. (s \o queue[c]) \o one = s \o (queue[c] \o one)
  BY <1>1, <1>2, <1>4, Regroup DEF one
<1>7. Sent(c)' = Sent(c) \o <<last'>>
  BY <1>2, <1>3, <1>5, <1>6 DEF one
<1>8. (1 .. last') \ skipped'[c] = ((1 .. last) \ skipped[c]) \cup {last'}
  BY <1>1
<1>9. ToSet(Sent(c)') = ToSet(Sent(c)) \cup {last'}
  BY <1>1, <1>4, <1>7, One, RangeOfConcat
<1>10. ASSUME Lists(Sent(c), (1 .. last) \ skipped[c])
       PROVE  Lists(Sent(c)', (1 .. last') \ skipped'[c])
  <2>1. Lists(<<last'>>, {last'})
    BY <1>4, One
  <2>2. \A x \in (1 .. last) \ skipped[c], y \in {last'} : x < y
    BY <1>1
  <2> DEFINE due == (1 .. last) \ skipped[c]
  <2> HIDE DEF due
  <2>3. Lists(Sent(c), due) /\ \A x \in due, y \in {last'} : x < y
    BY <1>10, <2>2 DEF due
  <2>4. Lists(Sent(c) \o <<last'>>, due \cup {last'})
    BY <1>1, <1>4, <2>1, <2>3, ListsConcat
  <2> QED BY <1>7, <1>8, <2>4 DEF due
<1> QED BY <1>8, <1>9, <1>10

LEMMA MissStep == StreamInv /\ NothingMissed /\ [Next]_vars => NothingMissed'
<1> SUFFICES ASSUME StreamInv, NothingMissed, [Next]_vars PROVE NothingMissed'
  OBVIOUS
<1>t. TypeOK /\ HandInv /\ QueueInv /\ FreshInv /\ CursorInv
  BY DEF StreamInv
<1>n. last \in Nat /\ \A c \in Clients : cursor[c] \in Nat /\ cursor[c] <= last
  BY <1>t, Typed
<1>m. ASSUME NEW c \in Clients, pc[c] = "streaming"
      PROVE  /\ byThread = {} => Lists(Sent(c), (1 .. last) \ skipped[c])
             /\ disconnects = 0 => (1 .. last) \ skipped[c] \subseteq
                                      ToSet(Sent(c)) \cup InHand
  BY <1>m DEF NothingMissed, Connected
<1>s. ASSUME \A c \in Clients : pc'[c] = "streaming" =>
                /\ byThread' = {} => Lists(Sent(c)', (1 .. last') \ skipped'[c])
                /\ disconnects' = 0 => (1 .. last') \ skipped'[c] \subseteq
                                         ToSet(Sent(c)') \cup InHand'
      PROVE  NothingMissed'
  BY <1>s DEF NothingMissed, Connected
\* A step of one client leaves the others alone.
<1>o. ASSUME NEW c \in Clients, UNCHANGED << last, committed, byThread >>,
             disconnects' = 0 => disconnects = 0,
             \A d \in Clients \ {c} : /\ pc'[d] = pc[d] /\ received'[d] = received[d]
                                      /\ backlog'[d] = backlog[d]
                                      /\ queue'[d] = queue[d]
                                      /\ skipped'[d] = skipped[d],
             pc'[c] = "streaming" =>
                /\ byThread = {} => Lists(Sent(c)', (1 .. last) \ skipped'[c])
                /\ disconnects = 0 => (1 .. last) \ skipped'[c] \subseteq
                                         ToSet(Sent(c)') \cup InHand
      PROVE  NothingMissed'
  <2>1. \A d \in Clients \ {c} : Sent(d)' = Sent(d)
    BY <1>o DEF Sent
  <2>2. InHand' = InHand
    BY <1>o DEF InHand
  <2> QED BY <1>m, <1>o, <1>s, <2>1, <2>2
<1>1. CASE Record
  <2>1. /\ last' = last + 1 /\ FanOut(last')
        /\ UNCHANGED << byThread, subscribers, pc, backlog, received, disconnects,
                        skipped >>
        /\ InHand' = InHand
    BY <1>1 DEF Record, InHand
  <2>2. last' \in Nat /\ last' \in 1 .. last' /\ last <= last'
    BY <1>n, <2>1
  <2>3. ASSUME NEW c \in Clients, pc'[c] = "streaming"
        PROVE  /\ byThread' = {} => Lists(Sent(c)', (1 .. last') \ skipped'[c])
               /\ disconnects' = 0 => (1 .. last') \ skipped'[c] \subseteq
                                         ToSet(Sent(c)') \cup InHand'
    <3>1. queue'[c] = Append(queue[c], last')
      BY <1>t, <2>1, <2>2, <2>3, FannedOut DEF TypeOK
    <3>2. /\ Lists(Sent(c), (1 .. last) \ skipped[c]) =>
                Lists(Sent(c)', (1 .. last') \ skipped'[c])
          /\ ToSet(Sent(c)') = ToSet(Sent(c)) \cup {last'}
          /\ (1 .. last') \ skipped'[c] = ((1 .. last) \ skipped[c]) \cup {last'}
      BY <1>t, <2>1, <3>1, OneMore
    <3>3. pc[c] = "streaming"
      BY <2>1, <2>3
    <3> QED BY <1>m, <2>1, <3>2, <3>3
  <2> QED BY <1>s, <2>3
<1>2. ASSUME NEW t \in Threads, Commit(t) PROVE NothingMissed'
  <2>1. /\ last' = last + 1 /\ byThread' # {} /\ committed[t] = 0
        /\ committed' = [committed EXCEPT ![t] = last']
        /\ UNCHANGED << pc, received, backlog, queue, disconnects, skipped >>
    BY <1>2 DEF Commit
  <2>2. InHand \ {0} \subseteq InHand' /\ last' \in InHand'
    BY <1>t, <2>1 DEF InHand, TypeOK
  <2>3. \A c \in Clients : /\ Sent(c)' = Sent(c)
                           /\ (1 .. last') \ skipped'[c] \subseteq
                                 ((1 .. last) \ skipped[c]) \cup {last'}
    BY <1>n, <2>1 DEF Sent
  <2>4. ASSUME NEW c \in Clients, pc'[c] = "streaming", disconnects' = 0,
               NEW e \in (1 .. last') \ skipped'[c]
        PROVE  e \in ToSet(Sent(c)') \cup InHand'
    <3>1. e \in (1 .. last) \ skipped[c] \/ e = last'
      BY <2>3
    <3>2. CASE e \in (1 .. last) \ skipped[c]
      <4>1. e # 0 /\ e \in ToSet(Sent(c)) \cup InHand
        <5>1. e # 0 /\ pc[c] = "streaming" /\ disconnects = 0
          BY <1>n, <2>1, <2>4, <3>2
        <5>2. (1 .. last) \ skipped[c] \subseteq ToSet(Sent(c)) \cup InHand
          BY <1>m, <5>1
        <5> QED BY <3>2, <5>1, <5>2
      <4> QED BY <2>2, <2>3, <4>1
    <3> QED BY <2>2, <3>1, <3>2
  <2> QED BY <1>s, <2>1, <2>4
<1>3. ASSUME NEW t \in Threads, HandOut(t) PROVE NothingMissed'
  <2>1. /\ committed[t] \in 1 .. last /\ byThread' # {} /\ FanOut(committed[t])
        /\ committed' = [committed EXCEPT ![t] = 0]
        /\ UNCHANGED << last, pc, received, backlog, disconnects, skipped, subscribers >>
    BY <1>3, <1>t, <1>n DEF HandOut, HandInv, TypeOK
  <2>2. InHand \ {committed[t]} \subseteq InHand'
    BY <1>t, <2>1 DEF InHand, TypeOK
  <2>3. ASSUME NEW c \in Clients, pc'[c] = "streaming"
        PROVE  ToSet(Sent(c)') = ToSet(Sent(c)) \cup {committed[t]}
    <3>1. queue'[c] = Append(queue[c], committed[t])
      BY <1>t, <1>n, <2>1, <2>3, FannedOut DEF TypeOK
    <3>2. committed[t] \in Nat
      BY <1>n, <2>1
    <3>3. /\ received[c] \in Seq(Nat) /\ backlog[c] \in Seq(Nat) /\ queue[c] \in Seq(Nat)
          /\ ToSet(Sent(c)) = ToSet(received[c])
                \cup ToSet(backlog[c]) \cup ToSet(queue[c])
      BY <1>t, Typed
    <3>4. Sent(c)' = (received[c] \o backlog[c]) \o Append(queue[c], committed[t])
      BY <2>1, <3>1 DEF Sent
    <3>5. /\ Append(queue[c], committed[t]) \in Seq(Nat)
          /\ ToSet(Append(queue[c], committed[t])) = ToSet(queue[c]) \cup {committed[t]}
      BY <3>2, <3>3, Appends
    <3>6. /\ received[c] \o backlog[c] \in Seq(Nat)
          /\ ToSet(received[c] \o backlog[c]) = ToSet(received[c]) \cup ToSet(backlog[c])
      BY <3>3, Indices, RangeOfConcat
    <3>7. ToSet(Sent(c)') = ToSet(received[c] \o backlog[c])
                               \cup ToSet(Append(queue[c], committed[t]))
      BY <3>4, <3>5, <3>6, RangeOfConcat
    <3> QED BY <3>3, <3>5, <3>6, <3>7
  <2> QED BY <1>s, <1>m, <2>1, <2>2, <2>3
<1>4. ASSUME NEW c \in Clients, Subscribe(c) PROVE NothingMissed'
  <2>1. /\ UNCHANGED << last, committed, byThread, disconnects, received, backlog,
                        skipped >>
        /\ pc'[c] = "reading"
        /\ \A d \in Clients \ {c} : pc'[d] = pc[d] /\ queue'[d] = queue[d]
    BY <1>4, <1>t DEF Subscribe, server, TypeOK
  <2> QED BY <1>o, <2>1
<1>5. ASSUME NEW c \in Clients, ReadBacklog(c) PROVE NothingMissed'
  <2> DEFINE page == EventsAfter(cursor[c])
             read == {x \in cursor[c] + 1 .. last : x <= cursor[c] + Limit}
  <2>1. /\ UNCHANGED << last, committed, byThread, disconnects, received, queue >>
        /\ backlog'[c] = page /\ pc[c] = "reading"
        /\ skipped'[c] = (skipped[c] \cap 1 .. cursor[c])
                            \cup (cursor[c] + Limit + 1 .. last)
        /\ \A d \in Clients \ {c} : /\ pc'[d] = pc[d] /\ backlog'[d] = backlog[d]
                                    /\ skipped'[d] = skipped[d]
    BY <1>5, <1>t DEF ReadBacklog, server, TypeOK
  <2>2. page \in Seq(Nat) /\ Lists(page, read)
    BY <1>n, PageLists
  <2> HIDE DEF page
  <2>3. received[c] \in Seq(Nat) /\ queue[c] \in Seq(Nat)
    BY <1>t, Typed
  <2>4. Sent(c)' = received[c] \o page \o queue[c]
    BY <2>1 DEF Sent
  <2>5. received[c] \o page \in Seq(Nat)
    BY <2>2, <2>3, Indices
  <2>6. ASSUME byThread = {} PROVE Lists(Sent(c)', (1 .. last) \ skipped'[c])
    <3>1. Lists(received[c], (1 .. cursor[c]) \ skipped[c]) /\ queue[c] = << >>
      BY <1>t, <2>1, <2>6 DEF CursorInv, QueueInv
    <3>2. \A x \in (1 .. cursor[c]) \ skipped[c], y \in read : x < y
      BY <1>n
    <3>3. Lists(received[c] \o page, ((1 .. cursor[c]) \ skipped[c]) \cup read)
      BY <2>2, <2>3, <3>1, <3>2, ListsConcat
    <3>4. ((1 .. cursor[c]) \ skipped[c]) \cup read = (1 .. last) \ skipped'[c]
      BY <1>n, <2>1, LimitAssumption
    <3>5. Sent(c)' = received[c] \o page
      BY <2>4, <2>5, <3>1, ConcatEmptySeq
    <3> QED BY <3>3, <3>4, <3>5
  <2>7. ASSUME disconnects = 0
        PROVE  (1 .. last) \ skipped'[c] \subseteq ToSet(Sent(c)')
    <3>1. cursor[c] = 0
      BY <1>t, <2>1, <2>7 DEF FreshInv
    <3>2. (1 .. last) \ skipped'[c] \subseteq read
      BY <1>n, <2>1, <3>1, LimitAssumption
    <3>3. ToSet(page) = read
      BY <2>2 DEF Lists
    <3>4. ToSet(Sent(c)') = ToSet(received[c] \o page) \cup ToSet(queue[c])
      BY <2>3, <2>4, <2>5, RangeOfConcat
    <3>5. ToSet(received[c] \o page) = ToSet(received[c]) \cup ToSet(page)
      BY <2>2, <2>3, RangeOfConcat
    <3> QED BY <3>2, <3>3, <3>4, <3>5
  <2> HIDE DEF read
  <2> QED BY <1>o, <2>1, <2>6, <2>7
<1>6. ASSUME NEW c \in Clients, Send(c) PROVE NothingMissed'
  <2>1. /\ UNCHANGED << last, committed, byThread, disconnects, pc, skipped >>
        /\ pc[c] = "streaming"
    BY <1>6 DEF Send, SendBacklog, SendLive, server
  <2>2. \A d \in Clients \ {c} : /\ received'[d] = received[d]
                                 /\ backlog'[d] = backlog[d] /\ queue'[d] = queue[d]
    BY <1>6, <1>t DEF Send, SendBacklog, SendLive, Receive, TypeOK
  <2>3. Sent(c)' = Sent(c)
    BY <1>6, <1>t, SentStays
  <2> QED BY <1>m, <1>o, <2>1, <2>2, <2>3
<1>7. ASSUME NEW c \in Clients, Disconnect(c) PROVE NothingMissed'
  <2>1. /\ UNCHANGED << last, committed, byThread, received, skipped >>
        /\ pc'[c] = "closed" /\ disconnects' # 0
        /\ \A d \in Clients \ {c} : /\ pc'[d] = pc[d] /\ backlog'[d] = backlog[d]
                                    /\ queue'[d] = queue[d]
    BY <1>7, <1>t DEF Disconnect, server, TypeOK
  <2> QED BY <1>o, <2>1
<1>8. CASE UNCHANGED vars
  <2>1. /\ UNCHANGED << last, committed, byThread, disconnects, pc, skipped, received,
                        backlog, queue >>
    BY <1>8 DEF vars, server
  <2>2. InHand' = InHand /\ \A c \in Clients : Sent(c)' = Sent(c)
    BY <2>1 DEF InHand, Sent
  <2> QED BY <1>m, <1>s, <2>1, <2>2
<1> QED BY <1>1, <1>2, <1>3, <1>4, <1>5, <1>6, <1>7, <1>8 DEF Next

-----------------------------------------------------------------------------
LEMMA StreamStep ==
    StreamInv /\ NothingMissed /\ [Next]_vars => (StreamInv /\ NothingMissed)'
<1> SUFFICES ASSUME StreamInv, NothingMissed, [Next]_vars
             PROVE  StreamInv' /\ NothingMissed'
  OBVIOUS
<1>1. TypeOK'
  BY TypeStep DEF StreamInv
<1> QED BY <1>1, HandStep, QueueStep, FreshStep, CursorStep, MissStep DEF StreamInv

\* The inductive invariant: the queues, the pages and the cursors are as record
\* and subscribe keep them.
THEOREM StreamConsistent == Spec => []StreamInv
<1>1. Init => StreamInv /\ NothingMissed
  BY InitInv
<1>2. StreamInv /\ NothingMissed /\ [Next]_vars => (StreamInv /\ NothingMissed)'
  BY StreamStep
<1> QED BY <1>1, <1>2, PTL DEF Spec

\* No event falls between the page that subscribe reads and the queue that record
\* fills, for whatever page size and however many clients and threads.
THEOREM NothingIsMissed == Spec => []NothingMissed
<1>1. Init => StreamInv /\ NothingMissed
  BY InitInv
<1>2. StreamInv /\ NothingMissed /\ [Next]_vars => (StreamInv /\ NothingMissed)'
  BY StreamStep
<1> QED BY <1>1, <1>2, PTL DEF Spec
=============================================================================
