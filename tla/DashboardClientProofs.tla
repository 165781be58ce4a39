------------------------ MODULE DashboardClientProofs ------------------------
(***************************************************************************)
(* Proofs about DashboardClient, for every set of requests, clients and    *)
(* conversations, whatever the page size, and however often the user       *)
(* selects, asks, loses the connection or opens the page again.            *)
(***************************************************************************)
EXTENDS DashboardClient, FiniteSetTheorems, TLAPS

Stored == Server!Messages

Inv == ConsoleInv /\ TranscriptOfSelected

-----------------------------------------------------------------------------
\* Sequences of messages, and what one more makes of them.
LEMMA Appended ==
    ASSUME NEW s \in Seq(Stored), NEW m \in Stored
    PROVE  /\ Append(s, m) \in Seq(Stored)
           /\ Len(Append(s, m)) = Len(s) + 1 /\ Len(s) \in Nat
           /\ \A i \in 1 .. Len(s) : Append(s, m)[i] = s[i]
           /\ Append(s, m)[Len(s) + 1] = m
           /\ \A i \in 1 .. Len(s) + 1 : i \in 1 .. Len(s) \/ i = Len(s) + 1
OBVIOUS

LEMMA Elements ==
    ASSUME NEW s \in Seq(Stored)
    PROVE  /\ \A m : m \in ToSet(s) <=> \E i \in 1 .. Len(s) : s[i] = m
           /\ Server!ToSet(s) = ToSet(s)
BY DEF ToSet, Server!ToSet

LEMMA HasIs ==
    ASSUME TypeOK, NEW k \in Conversations, NEW m
    PROVE  Server!Has(k, m) <=> \E i \in 1 .. Len(log[k]) : log[k][i] = m
<1>1. log[k] \in Seq(Stored)
  BY DEF TypeOK, Stored
<1> QED BY <1>1, Elements DEF Server!Has

LEMMA OrderGrows ==
    ASSUME NEW s \in Seq(Stored), NEW w \in Seq(Stored), NEW m \in Stored,
           \A i \in 1 .. Len(w) : w[i] # m, InOrder(s, w)
    PROVE  InOrder(s, Append(w, m))
<1> DEFINE v == Append(w, m)
<1>1. /\ v \in Seq(Stored) /\ Len(v) = Len(w) + 1 /\ Len(w) \in Nat
      /\ \A i \in 1 .. Len(w) : v[i] = w[i]
      /\ v[Len(w) + 1] = m
      /\ \A i \in 1 .. Len(w) + 1 : i \in 1 .. Len(w) \/ i = Len(w) + 1
  BY Appended
<1> HIDE DEF v
<1>2. \A i \in 1 .. Len(s) : \E x \in 1 .. Len(w) : w[x] = s[i]
  BY Elements DEF InOrder
<1>3. \A i \in 1 .. Len(s) : s[i] # m
  BY <1>2
<1>4. ToSet(s) \subseteq ToSet(v)
  <2>1. ASSUME NEW e \in ToSet(s) PROVE e \in ToSet(v)
    <3>1. PICK x \in 1 .. Len(w) : w[x] = e
      BY <1>2, <2>1, Elements
    <3>2. x \in 1 .. Len(v) /\ v[x] = e
      BY <1>1, <3>1
    <3> QED BY <1>1, <3>2, Elements
  <2> QED BY <2>1
<1>5. ASSUME NEW i \in 1 .. Len(s), NEW j \in 1 .. Len(s),
             NEW x \in 1 .. Len(v), NEW y \in 1 .. Len(v),
             i < j, s[i] = v[x], s[j] = v[y]
      PROVE  x < y
  <2>1. x \in 1 .. Len(w) /\ y \in 1 .. Len(w)
    BY <1>1, <1>3, <1>5
  <2>2. s[i] = w[x] /\ s[j] = w[y]
    BY <1>1, <1>5, <2>1
  <2> QED BY <1>5, <2>1, <2>2 DEF InOrder
<1>6. InOrder(s, v)
  BY <1>4, <1>5 DEF InOrder
<1> QED BY <1>6 DEF v

LEMMA AgreeGrows ==
    ASSUME NEW s \in Seq(Stored), NEW w \in Seq(Stored), NEW m \in Stored,
           NEW n \in Nat, Agree(s, w, n)
    PROVE  Agree(s, Append(w, m), n) /\ Agree(Append(s, m), w, n)
<1>1. /\ n <= Len(s) /\ n <= Len(w) /\ Len(s) \in Nat /\ Len(w) \in Nat
      /\ \A i \in 1 .. n : s[i] = w[i]
  BY DEF Agree
<1>2. \A i \in 1 .. n : i \in 1 .. Len(s) /\ i \in 1 .. Len(w)
  BY <1>1
<1>3. \A i \in 1 .. n : Append(w, m)[i] = w[i] /\ Append(s, m)[i] = s[i]
  BY <1>2, Appended
<1>4. n <= Len(Append(s, m)) /\ n <= Len(Append(w, m))
  BY <1>1, Appended
<1> QED BY <1>1, <1>3, <1>4 DEF Agree

LEMMA OrderAppends ==
    ASSUME NEW s \in Seq(Stored), NEW w \in Seq(Stored), NEW m \in Stored,
           InOrder(s, w), NEW z \in 1 .. Len(w), w[z] = m, Below(s, w, m)
    PROVE  InOrder(Append(s, m), w)
<1> DEFINE t == Append(s, m)
<1>1. /\ t \in Seq(Stored) /\ Len(t) = Len(s) + 1 /\ Len(s) \in Nat
      /\ \A i \in 1 .. Len(s) : t[i] = s[i]
      /\ t[Len(s) + 1] = m
      /\ \A i \in 1 .. Len(s) + 1 : i \in 1 .. Len(s) \/ i = Len(s) + 1
  BY Appended
<1> HIDE DEF t
<1>2. ToSet(t) \subseteq ToSet(w)
  <2>1. ASSUME NEW e \in ToSet(t) PROVE e \in ToSet(w)
    <3>1. PICK i \in 1 .. Len(t) : t[i] = e
      BY <1>1, <2>1, Elements
    <3>2. CASE i \in 1 .. Len(s)
      <4>1. e \in ToSet(s)
        BY <1>1, <3>1, <3>2, Elements
      <4> QED BY <4>1 DEF InOrder
    <3>3. CASE i = Len(s) + 1
      BY <1>1, <3>1, <3>3, Elements
    <3> QED BY <1>1, <3>1, <3>2, <3>3
  <2> QED BY <2>1
<1>3. ASSUME NEW i \in 1 .. Len(t), NEW j \in 1 .. Len(t),
             NEW x \in 1 .. Len(w), NEW y \in 1 .. Len(w),
             i < j, t[i] = w[x], t[j] = w[y]
      PROVE  x < y
  <2>1. i \in 1 .. Len(s)
    BY <1>1, <1>3
  <2>2. t[i] = s[i]
    BY <1>1, <2>1
  <2>3. CASE j \in 1 .. Len(s)
    <3>1. s[i] = w[x] /\ s[j] = w[y]
      BY <1>1, <1>3, <2>2, <2>3
    <3> QED BY <1>3, <2>1, <2>3, <3>1 DEF InOrder
  <2>4. CASE j = Len(s) + 1
    BY <1>1, <1>3, <2>1, <2>2, <2>4 DEF Below
  <2> QED BY <1>1, <1>3, <2>3, <2>4
<1>4. InOrder(t, w)
  BY <1>2, <1>3 DEF InOrder
<1> QED BY <1>4 DEF t

LEMMA PrefixInOrder ==
    ASSUME NEW s \in Seq(Stored), NEW w \in Seq(Stored), Agree(s, w, Len(s)),
           \A x, y \in 1 .. Len(w) : w[x] = w[y] => x = y
    PROVE  InOrder(s, w)
<1>1. /\ Len(s) <= Len(w) /\ Len(s) \in Nat /\ Len(w) \in Nat
      /\ \A i \in 1 .. Len(s) : s[i] = w[i] /\ i \in 1 .. Len(w)
  BY DEF Agree
<1>2. ToSet(s) \subseteq ToSet(w)
  BY <1>1, Elements
<1>3. ASSUME NEW i \in 1 .. Len(s), NEW j \in 1 .. Len(s),
             NEW x \in 1 .. Len(w), NEW y \in 1 .. Len(w),
             i < j, s[i] = w[x], s[j] = w[y]
      PROVE  x < y
  <2>1. x = i /\ y = j
    BY <1>1, <1>3
  <2> QED BY <1>3, <2>1
<1> QED BY <1>2, <1>3 DEF InOrder

\* A page is the beginning of its conversation.
LEMMA Paged ==
    ASSUME TypeOK, NEW k \in Conversations
    PROVE  /\ Page(k) \in Seq(Stored) /\ Len(Page(k)) \in 0 .. Limit
           /\ Len(Page(k)) <= Len(log[k])
           /\ Agree(Page(k), log[k], Len(Page(k)))
           /\ \A n \in 0 .. Limit : n <= Len(log[k]) => n <= Len(Page(k))
<1> DEFINE w == log[k]
<1>1. w \in Seq(Stored) /\ Len(w) \in Nat /\ Limit \in Nat
  BY LimitAssumption DEF TypeOK, Stored
<1> HIDE DEF w
<1>2. CASE Len(w) <= Limit
  <2>1. Page(k) = w
    BY <1>2 DEF Page, FirstOf, w
  <2> QED BY <1>1, <1>2, <2>1 DEF Agree, w
<1>3. CASE ~(Len(w) <= Limit)
  <2>1. Page(k) = SubSeq(w, 1, Limit)
    BY <1>3 DEF Page, FirstOf, w
  <2>2. /\ SubSeq(w, 1, Limit) \in Seq(Stored)
        /\ Len(SubSeq(w, 1, Limit)) = Limit
        /\ \A i \in 1 .. Limit : SubSeq(w, 1, Limit)[i] = w[i]
    BY <1>1, <1>3
  <2> QED BY <1>1, <1>3, <2>1, <2>2 DEF Agree, w
<1> QED BY <1>2, <1>3

-----------------------------------------------------------------------------
(***************************************************************************)
(* The conversation log, and what a question or a reply makes of it.       *)
(***************************************************************************)
LEMMA Messages ==
    ASSUME NEW c \in Chats \cup Others
    PROVE  /\ Server!Question(c) \in Stored /\ Server!Reply(c) \in Stored
           /\ \A d : /\ Server!Question(c) # Server!Reply(d)
                     /\ Server!Question(c) = Server!Question(d) => c = d
                     /\ Server!Reply(c) = Server!Reply(d) => c = d
BY DEF Stored, Server!Messages, Server!Question, Server!Reply

\* The message m is put below those of conversation k, which lacks it.
Adds(k, m) == /\ k \in Conversations /\ m \in Stored
              /\ Server!Store(k, m)
              /\ \A i \in 1 .. Len(log[k]) : log[k][i] # m

LEMMA Stores ==
    ASSUME TypeOK, NEW k, NEW m, Adds(k, m)
    PROVE  /\ log' \in [Conversations -> Seq(Stored)]
           /\ log'[k] = Append(log[k], m)
           /\ \A j \in Conversations \ {k} : log'[j] = log[j]
           /\ \A j \in Conversations : log[j] \in Seq(Stored) /\ log'[j] \in Seq(Stored)
           /\ \A j \in Conversations, x \in Stored :
                 Server!Has(j, x)' <=> Server!Has(j, x) \/ (j = k /\ x = m)
<1>1. log \in [Conversations -> Seq(Stored)] /\ k \in Conversations /\ m \in Stored
  BY DEF TypeOK, Stored, Adds
<1>2. log' = [log EXCEPT ![k] = Append(log[k], m)]
  BY DEF Adds, Server!Store
<1>3. Append(log[k], m) \in Seq(Stored)
  BY <1>1, Appended
<1>4. /\ log'[k] = Append(log[k], m)
      /\ \A j \in Conversations \ {k} : log'[j] = log[j]
      /\ log' \in [Conversations -> Seq(Stored)]
  BY <1>1, <1>2, <1>3
<1>5. ASSUME NEW j \in Conversations, NEW x \in Stored
      PROVE  Server!Has(j, x)' <=> Server!Has(j, x) \/ (j = k /\ x = m)
  <2>1. Server!Has(j, x)' <=> \E i \in 1 .. Len(log'[j]) : log'[j][i] = x
    <3>1. log'[j] \in Seq(Stored)
      BY <1>4
    <3>2. x \in ToSet(log'[j]) <=> \E i \in 1 .. Len(log'[j]) : log'[j][i] = x
      BY <3>1, Elements
    <3>3. ToSet(log'[j]) = Server!ToSet(log'[j])
      BY <3>1, Elements
    <3> QED BY <3>2, <3>3 DEF Server!Has
  <2>2. Server!Has(j, x) <=> \E i \in 1 .. Len(log[j]) : log[j][i] = x
    BY HasIs
  <2>3. CASE j = k
    <3> DEFINE w == log[k]
               v == log'[k]
    <3>1. /\ Len(v) = Len(w) + 1 /\ Len(w) \in Nat
          /\ \A i \in 1 .. Len(w) : v[i] = w[i]
          /\ v[Len(w) + 1] = m
          /\ \A i \in 1 .. Len(w) + 1 : i \in 1 .. Len(w) \/ i = Len(w) + 1
      BY <1>1, <1>4, Appended
    <3>2. /\ Server!Has(j, x)' <=> \E i \in 1 .. Len(v) : v[i] = x
          /\ Server!Has(j, x) <=> \E i \in 1 .. Len(w) : w[i] = x
      BY <2>1, <2>2, <2>3
    <3> HIDE DEF v, w
    <3>3. \A i \in 1 .. Len(w) : i \in 1 .. Len(v)
      BY <3>1
    <3>4. Len(w) + 1 \in 1 .. Len(v)
      BY <3>1
    <3>5. (\E i \in 1 .. Len(v) : v[i] = x) <=> (\E i \in 1 .. Len(w) : w[i] = x) \/ x = m
      BY <3>1, <3>3, <3>4
    <3> QED BY <2>3, <3>2, <3>5
  <2>4. CASE j # k
    BY <1>4, <2>1, <2>2, <2>4
  <2> QED BY <2>3, <2>4
<1> QED BY <1>1, <1>4, <1>5

LEMMA Asks ==
    ASSUME TypeOK, NEW c \in Chats \cup Others, NEW k \in Conversations,
           Server!Ask(c, k)
    PROVE  /\ Adds(k, Server!Question(c)) /\ shown' = shown
           /\ \A j \in Conversations : ~Server!Has(j, Server!Question(c))
BY HasIs, Messages DEF Server!Ask, Server!Asked, Adds

LEMMA Answers ==
    ASSUME TypeOK, NEW c \in Chats \cup Others, NEW k \in Conversations,
           Server!Answer(c, k)
    PROVE  /\ Adds(k, Server!Reply(c)) /\ shown' = shown
           /\ Server!Has(k, Server!Question(c))
           /\ \A j \in Conversations : ~Server!Has(j, Server!Reply(c))
BY HasIs, Messages DEF Server!Answer, Server!Answered, Adds

\* Whoever it is of, the log stays in order.
LEMMA LogKept ==
    ASSUME TypeOK, LogInv, NEW c \in Chats \cup Others, NEW k \in Conversations,
           Server!Ask(c, k) \/ Server!Answer(c, k),
           known' = known \cup {k}
    PROVE  LogInv'
<1> PICK m \in {Server!Question(c), Server!Reply(c)} :
       /\ Adds(k, m)
       /\ m = Server!Question(c) =>
             \A j \in Conversations : ~Server!Has(j, Server!Question(c))
       /\ m = Server!Reply(c) => Server!Has(k, Server!Question(c))
  BY Asks, Answers, Messages
<1>1. m \in Stored
  BY Messages
<1>2. /\ \A j \in Conversations \ {k} : log'[j] = log[j]
      /\ log'[k] = Append(log[k], m)
      /\ \A j \in Conversations : log[j] \in Seq(Stored)
      /\ \A j \in Conversations, x \in Stored :
            Server!Has(j, x)' <=> Server!Has(j, x) \/ (j = k /\ x = m)
  BY Stores
<1>3. ASSUME NEW j \in Conversations, NEW x \in 1 .. Len(log'[j]),
             NEW y \in 1 .. Len(log'[j]), log'[j][x] = log'[j][y]
      PROVE  x = y
  <2>1. CASE j # k
    BY <1>2, <1>3, <2>1 DEF LogInv
  <2>2. CASE j = k
    <3> DEFINE w == log[k]
               v == log'[k]
    <3>1. /\ Len(v) = Len(w) + 1 /\ Len(w) \in Nat
          /\ \A i \in 1 .. Len(w) : v[i] = w[i]
          /\ v[Len(w) + 1] = m
          /\ \A i \in 1 .. Len(w) + 1 : i \in 1 .. Len(w) \/ i = Len(w) + 1
      BY <1>1, <1>2, Appended
    <3>2. /\ \A i, l \in 1 .. Len(w) : w[i] = w[l] => i = l
          /\ \A i \in 1 .. Len(w) : w[i] # m
      BY DEF LogInv, Adds
    <3>3. x \in 1 .. Len(v) /\ y \in 1 .. Len(v) /\ v[x] = v[y]
      BY <1>3, <2>2
    <3> HIDE DEF v, w
    <3> QED BY <3>1, <3>2, <3>3
  <2> QED BY <2>1, <2>2
<1>4. ASSUME NEW j \in Conversations, NEW l \in Conversations, NEW d \in Chats,
             Server!Has(j, Server!Question(d))', Server!Has(l, Server!Question(d))'
      PROVE  j = l
  <2>1. Server!Question(d) \in Stored
    BY Messages
  <2>2. /\ Server!Has(j, Server!Question(d)) \/ (j = k /\ Server!Question(d) = m)
        /\ Server!Has(l, Server!Question(d)) \/ (l = k /\ Server!Question(d) = m)
    <3>1. \A i \in Conversations : Server!Has(i, Server!Question(d))' <=>
             Server!Has(i, Server!Question(d)) \/ (i = k /\ Server!Question(d) = m)
      BY <1>2, <2>1
    <3> QED BY <1>4, <3>1
  <2>3. Server!Question(d) = m =>
           \A i \in Conversations : ~Server!Has(i, Server!Question(d))
    <3>1. Server!Question(d) # Server!Reply(c)
      BY Messages
    <3> QED BY <3>1
  <2>4. Server!Has(j, Server!Question(d)) /\ Server!Has(l, Server!Question(d)) => j = l
    BY DEF LogInv
  <2> QED BY <2>2, <2>3, <2>4
<1>5. ASSUME NEW j \in Conversations, NEW d \in Chats, Server!Has(j, Server!Reply(d))'
      PROVE  Server!Has(j, Server!Question(d))'
  <2>1. Server!Question(d) \in Stored /\ Server!Reply(d) \in Stored
    BY Messages
  <2>2. CASE Server!Has(j, Server!Reply(d))
    <3>1. Server!Has(j, Server!Question(d))
      BY <2>2 DEF LogInv
    <3> QED BY <1>2, <2>1, <3>1
  <2>3. CASE j = k /\ Server!Reply(d) = m
    <3>1. d = c /\ m = Server!Reply(c)
      BY <2>3, Messages
    <3>2. Server!Has(j, Server!Question(d))
      BY <2>3, <3>1
    <3> QED BY <1>2, <2>1, <3>2
  <2> QED BY <1>2, <1>5, <2>1, <2>2, <2>3
<1>6. ASSUME NEW j \in Conversations, NEW x \in Stored, Server!Has(j, x)'
      PROVE  j \in known'
  <2>1. Server!Has(j, x) => j \in known
    BY DEF LogInv, Stored
  <2> QED BY <1>2, <1>6, <2>1
<1>7. (\A j \in Conversations, x \in Server!Messages : Server!Has(j, x) => j \in known)'
  BY <1>6 DEF Stored, Server!Messages
<1> QED BY <1>3, <1>4, <1>5, <1>7 DEF LogInv, Stored

-----------------------------------------------------------------------------
(***************************************************************************)
(* Types, and the count of clicks.                                         *)
(***************************************************************************)
LEMMA HomeIs ==
    ASSUME LogInv, NEW c \in Chats, NEW k \in Conversations,
           Server!Has(k, Server!Question(c))
    PROVE  Home(c) = k
BY DEF LogInv, Home

LEMMA Completed ==
    ASSUME LogInv, ClickInv, NEW c \in Chats, pc[c] = "complete"
    PROVE  /\ Home(c) \in Conversations /\ Home(c) \in known
           /\ Server!Has(Home(c), Server!Question(c))
           /\ Server!Has(Home(c), Server!Reply(c))
<1>1. PICK k \in Conversations : Server!Has(k, Server!Reply(c))
  BY DEF ClickInv, Server!Answered
<1>2. Server!Has(k, Server!Question(c))
  BY <1>1 DEF LogInv
<1>3. Home(c) = k
  BY <1>2, HomeIs
<1>4. k \in known
  BY <1>1, Messages DEF LogInv, Stored
<1> QED BY <1>1, <1>2, <1>3, <1>4

\* Only a click sends a request.
LEMMA CountStep ==
    ASSUME Inv, Next
    PROVE  clicks' = Cardinality({c \in Chats : pc'[c] # "idle"})
<1> USE DEF Inv, ConsoleInv
<1>t. pc \in [Chats -> {"idle", "sent", "asked", "complete", "error", "over"}]
  BY DEF TypeOK
<1>c. clicks = Cardinality({c \in Chats : pc[c] # "idle"})
  BY DEF ClickInv
<1>1. ASSUME clicks' = clicks, \A c \in Chats : pc'[c] = "idle" <=> pc[c] = "idle"
      PROVE  clicks' = Cardinality({c \in Chats : pc'[c] # "idle"})
  <2>1. {c \in Chats : pc'[c] # "idle"} = {c \in Chats : pc[c] # "idle"}
    BY <1>1
  <2> QED BY <1>1, <1>c, <2>1
<1>2. ASSUME NEW k \in Conversations, Select(k)
      PROVE  clicks' = Cardinality({c \in Chats : pc'[c] # "idle"})
  BY <1>1, <1>2 DEF Select, chats
<1>3. ASSUME NEW n \in 1 .. Len(fetches), AnswerFetch(n) \/ ArriveFetch(n) \/ FailFetch(n)
      PROVE  clicks' = Cardinality({c \in Chats : pc'[c] # "idle"})
  BY <1>1, <1>3 DEF AnswerFetch, ArriveFetch, FailFetch, chats, page
<1>4. ASSUME NEW c \in Chats, SendChat(c)
      PROVE  clicks' = Cardinality({d \in Chats : pc'[d] # "idle"})
  <2> DEFINE S == {d \in Chats : pc[d] # "idle"}
             T == {d \in Chats : pc'[d] # "idle"}
  <2>1. pc[c] = "idle" /\ pc' = [pc EXCEPT ![c] = "sent"] /\ clicks' = clicks + 1
    BY <1>4 DEF SendChat, Request, Goto
  <2>2. c \notin S /\ T = S \cup {c}
    BY <1>t, <2>1
  <2>3. IsFiniteSet(S)
    BY ChatAssumption, FS_Subset
  <2>4. Cardinality(S \cup {c}) = Cardinality(S) + 1
    BY <2>2, <2>3, FS_AddElement
  <2> QED BY <1>c, <2>1, <2>2, <2>4
<1>5. ASSUME NEW c \in Chats, Serve(c) \/ Show(c) \/ LoseStream(c)
      PROVE  clicks' = Cardinality({d \in Chats : pc'[d] # "idle"})
  <2>1. \A d \in Chats : pc'[d] = "idle" <=> pc[d] = "idle"
    BY <1>t, <1>5 DEF Serve, Show, LoseStream, Begin, Reply, Fail, Complete, ErrorArrives,
                      Goto, Emit, Dropped
  <2>2. clicks' = clicks
    BY <1>5 DEF Serve, Show, LoseStream, Begin, Reply, Fail, Complete, ErrorArrives, page
  <2> QED BY <1>1, <2>1, <2>2
<1>6. ASSUME NEW c \in Others, OtherChats(c)
      PROVE  clicks' = Cardinality({d \in Chats : pc'[d] # "idle"})
  BY <1>1, <1>6 DEF OtherChats, chats, page
<1>7. ASSUME Reload
      PROVE  clicks' = Cardinality({d \in Chats : pc'[d] # "idle"})
  <2>1. \A d \in Chats : pc'[d] = "idle" <=> pc[d] = "idle"
    BY <1>t, <1>7 DEF Reload, Dropped
  <2>2. clicks' = clicks
    BY <1>7 DEF Reload
  <2> QED BY <1>1, <2>1, <2>2
<1> QED BY <1>2, <1>3, <1>4, <1>5, <1>6, <1>7 DEF Next

LEMMA Counted ==
    ASSUME NEW S, S \subseteq Chats
    PROVE  IsFiniteSet(S) /\ Cardinality(S) \in 0 .. Cardinality(Chats)
BY ChatAssumption, FS_Subset, FS_CardinalityType

Fetches == [of : Conversations \cup {None}, page : Seq(Stored),
            step : {"sent", "answered", "over"}]

\* What the step of one request makes of the selections' requests.
LEMMA Fetched ==
    ASSUME TypeOK, FetchInv, NEW n \in 1 .. Len(fetches),
           AnswerFetch(n) \/ ArriveFetch(n) \/ FailFetch(n)
    PROVE  /\ fetches' \in Seq(Fetches) /\ Len(fetches') = Len(fetches)
           /\ \A i \in 1 .. Len(fetches) : i # n => fetches'[i] = fetches[i]
           /\ fetches[n] # Finished
           /\ ArriveFetch(n) \/ FailFetch(n) => fetches'[n] = Finished
           /\ AnswerFetch(n) => /\ fetches[n].of \in Conversations
                                /\ fetches'[n].of = fetches[n].of
                                /\ fetches'[n].step = "answered"
                                /\ fetches'[n].page = Page(fetches[n].of)
<1>1. fetches \in Seq(Fetches)
  BY DEF TypeOK, Fetches, Stored
<1>2. fetches[n] \in Fetches
  BY <1>1
<1>3. fetches[n] # Finished
  BY DEF AnswerFetch, ArriveFetch, FailFetch, Finished
<1>4. CASE ArriveFetch(n) \/ FailFetch(n)
  <2>1. Finished \in Fetches
    BY DEF Finished, Fetches
  <2>2. fetches' = [fetches EXCEPT ![n] = Finished]
    BY <1>4 DEF ArriveFetch, FailFetch
  <2>3. AnswerFetch(n) => /\ fetches[n].of \in Conversations
                          /\ fetches'[n].of = fetches[n].of
                          /\ fetches'[n].step = "answered"
                          /\ fetches'[n].page = Page(fetches[n].of)
    <3>1. ~AnswerFetch(n)
      <4>1. fetches'[n].step = "over"
        BY <1>1, <2>2 DEF Finished
      <4>2. AnswerFetch(n) => fetches'[n].step = "answered"
        BY <1>1, <1>2 DEF AnswerFetch, Fetches
      <4> QED BY <4>1, <4>2
    <3> QED BY <3>1
  <2> QED BY <1>1, <1>3, <2>1, <2>2, <2>3
<1>5. CASE AnswerFetch(n)
  <2> DEFINE w == [fetches[n] EXCEPT !.step = "answered", !.page = Page(fetches[n].of)]
  <2>1. fetches[n].of \in Conversations
    <3>1. fetches[n].of \in known
      BY <1>3 DEF FetchInv
    <3> QED BY <3>1 DEF TypeOK
  <2>2. Page(fetches[n].of) \in Seq(Stored)
    BY <2>1, Paged
  <2>3. /\ w \in Fetches
        /\ w.of = fetches[n].of /\ w.step = "answered" /\ w.page = Page(fetches[n].of)
    BY <1>2, <2>2 DEF Fetches
  <2>4. fetches' = [fetches EXCEPT ![n] = w]
    BY <1>5 DEF AnswerFetch
  <2> HIDE DEF w
  <2>5. /\ fetches' \in Seq(Fetches) /\ Len(fetches') = Len(fetches)
        /\ \A i \in 1 .. Len(fetches) : i # n => fetches'[i] = fetches[i]
        /\ fetches'[n] = w
    BY <1>1, <2>3, <2>4
  <2>6. ~(ArriveFetch(n) \/ FailFetch(n))
    <3>1. ArriveFetch(n) \/ FailFetch(n) => fetches'[n] = Finished
      BY <1>1 DEF ArriveFetch, FailFetch
    <3>2. w # Finished
      BY <2>3 DEF Finished
    <3> QED BY <2>5, <3>1, <3>2
  <2> QED BY <1>3, <2>1, <2>3, <2>5, <2>6
<1> QED BY <1>4, <1>5

LEMMA Selected ==
    ASSUME TypeOK, NEW k \in Conversations, Select(k)
    PROVE  /\ fetches' \in Seq(Fetches) /\ Len(fetches') = Len(fetches) + 1
           /\ Len(fetches) \in Nat
           /\ \A i \in 1 .. Len(fetches) : fetches'[i] = fetches[i]
           /\ fetches'[Len(fetches) + 1] = [of |-> k, step |-> "sent", page |-> << >>]
           /\ \A i \in 1 .. Len(fetches') : i \in 1 .. Len(fetches) \/ i = Len(fetches) + 1
<1>1. fetches \in Seq(Fetches)
  BY DEF TypeOK, Fetches, Stored
<1> DEFINE w == [of |-> k, step |-> "sent", page |-> << >>]
<1>2. w \in Fetches
  BY DEF Fetches
<1>3. fetches' = Append(fetches, w)
  BY DEF Select
<1> HIDE DEF w
<1>4. /\ fetches' \in Seq(Fetches) /\ Len(fetches') = Len(fetches) + 1
      /\ Len(fetches) \in Nat
      /\ \A i \in 1 .. Len(fetches) : fetches'[i] = fetches[i]
      /\ fetches'[Len(fetches) + 1] = w
  BY <1>1, <1>2, <1>3
<1>5. \A i \in 1 .. Len(fetches') : i \in 1 .. Len(fetches) \/ i = Len(fetches) + 1
  BY <1>4
<1> QED BY <1>4, <1>5 DEF w

LEMMA TypeStep ==
    ASSUME Inv, Next
    PROVE  TypeOK'
<1> USE DEF Inv, ConsoleInv
<1>m. Stored = Server!Messages /\ Stored' = Stored
  BY DEF Stored, Server!Messages
<1>t. /\ log \in [Conversations -> Seq(Stored)]
      /\ shown \subseteq Chats \cup Others
      /\ known \subseteq Conversations
      /\ pc \in [Chats -> {"idle", "sent", "asked", "complete", "error", "over"}]
      /\ target \in [Chats -> Conversations \cup {None}]
      /\ selected \in known \cup {None}
      /\ messages \in Seq(Stored)
      /\ source \in Chats \cup {None}
      /\ fetches \in Seq(Fetches)
      /\ \A n \in 1 .. Len(fetches) : Len(fetches[n].page) <= Limit
      /\ had \in 0 .. Limit \cup {None}
  BY DEF TypeOK, Fetches, Stored
<1>c. clicks' \in 0 .. Cardinality(Chats)
  BY CountStep, Counted
<1>s. ASSUME log' \in [Conversations -> Seq(Stored)], shown' \subseteq Chats \cup Others,
             known' \subseteq Conversations,
             pc' \in [Chats -> {"idle", "sent", "asked", "complete", "error", "over"}],
             target' \in [Chats -> Conversations \cup {None}],
             selected' \in known' \cup {None}, messages' \in Seq(Stored),
             source' \in Chats \cup {None}, fetches' \in Seq(Fetches),
             \A n \in 1 .. Len(fetches') : Len(fetches'[n].page) <= Limit,
             had' \in 0 .. Limit \cup {None}
      PROVE  TypeOK'
  BY <1>s, <1>c, <1>m DEF TypeOK, Fetches, Server!Messages, Stored
<1>1. ASSUME NEW k \in Conversations, Select(k) PROVE TypeOK'
  <2>1. \A n \in 1 .. Len(fetches') : Len(fetches'[n].page) <= Limit
    <3>1. ASSUME NEW n \in 1 .. Len(fetches') PROVE Len(fetches'[n].page) <= Limit
      <4>1. CASE n \in 1 .. Len(fetches)
        BY <1>1, <1>t, <4>1, Selected
      <4>2. CASE n = Len(fetches) + 1
        <5>1. fetches'[n] = [of |-> k, step |-> "sent", page |-> << >>]
          BY <1>1, <4>2, Selected
        <5>2. fetches'[n].page = << >>
          BY <5>1
        <5> QED BY <5>2, LimitAssumption
      <4> QED BY <1>1, <4>1, <4>2, Selected
    <3> QED BY <3>1
  <2>2. fetches' \in Seq(Fetches)
    BY <1>1, Selected
  <2>3. had' \in 0 .. Limit \cup {None}
    BY <1>1, Paged DEF Select
  <2>4. k \in known /\ selected' = k
    BY <1>1 DEF Select
  <2>5. UNCHANGED << server, chats, messages, source >>
    BY <1>1 DEF Select
  <2> QED BY <1>s, <1>t, <2>1, <2>2, <2>3, <2>4, <2>5 DEF server, chats
<1>2. ASSUME NEW n \in 1 .. Len(fetches), AnswerFetch(n) \/ ArriveFetch(n) \/ FailFetch(n)
      PROVE  TypeOK'
  <2>1. /\ fetches' \in Seq(Fetches) /\ Len(fetches') = Len(fetches)
        /\ \A i \in 1 .. Len(fetches) : i # n => fetches'[i] = fetches[i]
    BY <1>2, Fetched
  <2>2. Len(fetches'[n].page) <= Limit
    <3>1. CASE AnswerFetch(n)
      <4>1. fetches[n].of \in Conversations /\ fetches'[n].page = Page(fetches[n].of)
        BY <3>1, Fetched
      <4> QED BY <4>1, Paged, LimitAssumption
    <3>2. CASE ArriveFetch(n) \/ FailFetch(n)
      <4>1. fetches'[n].page = << >>
        BY <3>2, Fetched DEF Finished
      <4> QED BY <4>1, LimitAssumption
    <3> QED BY <1>2, <3>1, <3>2
  <2>3. \A i \in 1 .. Len(fetches') : Len(fetches'[i].page) <= Limit
    BY <1>t, <2>1, <2>2
  <2>4. messages' \in Seq(Stored)
    <3>1. fetches[n] \in Fetches
      BY <1>t
    <3>2. fetches[n].page \in Seq(Stored)
      BY <3>1 DEF Fetches
    <3> QED BY <1>2, <1>t, <3>2 DEF AnswerFetch, ArriveFetch, FailFetch, page
  <2>5. had' \in 0 .. Limit \cup {None}
    BY <1>2, <1>t DEF AnswerFetch, ArriveFetch, FailFetch
  <2>6. UNCHANGED << server, chats, selected, source >>
    BY <1>2 DEF AnswerFetch, ArriveFetch, FailFetch, page
  <2> QED BY <1>s, <1>t, <2>1, <2>3, <2>4, <2>5, <2>6 DEF server, chats
<1>3. ASSUME NEW c \in Chats, SendChat(c) PROVE TypeOK'
  <2>1. /\ pc' = [pc EXCEPT ![c] = "sent"] /\ target' = [target EXCEPT ![c] = selected]
        /\ source' = c /\ had' = IF InFlight = {} THEN had ELSE None
        /\ UNCHANGED << server, selected, messages, fetches >>
    BY <1>3 DEF SendChat, Request, Goto
  <2> QED BY <1>s, <1>t, <2>1 DEF server
<1>4. ASSUME NEW c \in Chats, Begin(c) PROVE TypeOK'
  <2>1. PICK k \in Conversations : Server!Ask(c, k) /\ known' = known \cup {k}
    BY <1>4 DEF Begin
  <2>2. log' \in [Conversations -> Seq(Stored)] /\ shown' = shown
    BY <2>1, Asks, Stores
  <2>3. /\ pc' = [pc EXCEPT ![c] = "asked"] /\ target' = [target EXCEPT ![c] = None]
        /\ UNCHANGED << page, fetches, had >>
    BY <1>4 DEF Begin, Goto
  <2> QED BY <1>s, <1>t, <2>1, <2>2, <2>3 DEF page
<1>5. ASSUME NEW c \in Chats, Reply(c) PROVE TypeOK'
  <2>1. PICK k \in Conversations : Server!Answer(c, k)
    BY <1>5 DEF Reply
  <2>2. log' \in [Conversations -> Seq(Stored)] /\ shown' = shown
    BY <2>1, Answers, Stores
  <2>3. /\ pc' = [pc EXCEPT ![c] = IF source = c THEN "complete" ELSE "over"]
        /\ UNCHANGED << known, target, page, fetches, had >>
    BY <1>5 DEF Reply, Emit, Goto
  <2> QED BY <1>s, <1>t, <2>2, <2>3 DEF page
<1>6. ASSUME NEW c \in Chats, Fail(c) PROVE TypeOK'
  <2>1. /\ pc' = [pc EXCEPT ![c] = IF source = c THEN "error" ELSE "over"]
        /\ target' = [target EXCEPT ![c] = None]
        /\ UNCHANGED << server, page, fetches, had >>
    BY <1>6 DEF Fail, Emit, Goto
  <2> QED BY <1>s, <1>t, <2>1 DEF page, server
<1>7. ASSUME NEW c \in Chats, Complete(c) PROVE TypeOK'
  <2>1. /\ pc[c] = "complete" /\ pc' = [pc EXCEPT ![c] = "over"]
        /\ selected' = Home(c) /\ source' = None
        /\ messages' = Append(messages, Server!Reply(c))
        /\ shown' = shown \cup {c} /\ log' = log
        /\ UNCHANGED << known, target, fetches, had >>
    BY <1>7 DEF Complete, Goto, Server!Show
  <2>2. Home(c) \in known
    BY <2>1, Completed
  <2>3. messages' \in Seq(Stored)
    <3>1. Server!Reply(c) \in Stored
      BY Messages
    <3> QED BY <1>t, <2>1, <3>1, Appended
  <2> QED BY <1>s, <1>t, <2>1, <2>2, <2>3
<1>8. ASSUME NEW c \in Chats, ErrorArrives(c) \/ LoseStream(c) PROVE TypeOK'
  <2>1. /\ pc' \in [Chats -> {"idle", "sent", "asked", "complete", "error", "over"}]
        /\ source' = None
        /\ UNCHANGED << server, target, selected, messages, fetches, had >>
    BY <1>8, <1>t DEF ErrorArrives, LoseStream, Goto, Dropped
  <2> QED BY <1>s, <1>t, <2>1 DEF server
<1>9. ASSUME NEW c \in Others, OtherChats(c) PROVE TypeOK'
  <2>1. PICK k \in known : Server!Ask(c, k) \/ Server!Answer(c, k)
    BY <1>9 DEF OtherChats
  <2>2. k \in Conversations
    BY <1>t
  <2>3. log' \in [Conversations -> Seq(Stored)] /\ shown' = shown
    BY <2>1, <2>2, Asks, Answers, Stores
  <2>4. UNCHANGED << known, chats, page, fetches, had >>
    BY <1>9 DEF OtherChats
  <2> QED BY <1>s, <1>t, <2>3, <2>4 DEF chats, page
<1>10. ASSUME Reload PROVE TypeOK'
  <2>1. fetches' \in Seq(Fetches)
    <3>1. Len(fetches) \in Nat /\ Finished \in Fetches
      BY <1>t DEF Finished, Fetches
    <3>2. fetches' = [n \in 1 .. Len(fetches) |-> Finished]
      BY <1>10 DEF Reload
    <3> QED BY <3>1, <3>2
  <2>2. \A n \in 1 .. Len(fetches') : Len(fetches'[n].page) <= Limit
    <3>1. Len(fetches) \in Nat
      BY <1>t
    <3>2. fetches' = [n \in 1 .. Len(fetches) |-> Finished]
      BY <1>10 DEF Reload
    <3>3. \A n \in 1 .. Len(fetches') : fetches'[n] = Finished
      BY <3>1, <3>2
    <3>4. Len(Finished.page) = 0
      BY DEF Finished
    <3> QED BY <3>3, <3>4, LimitAssumption
  <2>3. /\ pc' \in [Chats -> {"idle", "sent", "asked", "complete", "error", "over"}]
        /\ selected' = None /\ messages' = << >> /\ source' = None /\ had' = 0
        /\ UNCHANGED << server, target >>
    BY <1>10, <1>t DEF Reload, Dropped
  <2> QED BY <1>s, <1>t, <2>1, <2>2, <2>3, LimitAssumption DEF server
<1> QED BY <1>1, <1>2, <1>3, <1>4, <1>5, <1>6, <1>7, <1>8, <1>9, <1>10
        DEF Next, Serve, Show

-----------------------------------------------------------------------------
(***************************************************************************)
(* The log and the requests.                                               *)
(***************************************************************************)
LEMMA SameLog ==
    ASSUME log' = log
    PROVE  \A k, m : Server!Has(k, m)' <=> Server!Has(k, m)
BY DEF Server!Has, Server!ToSet

\* A step leaves the log alone or adds one message that nobody stored before.
LEMMA LogStep ==
    ASSUME Inv, Next
    PROVE  /\ LogInv' /\ known \subseteq known'
           /\ log' = log \/ \E k, m : Adds(k, m)
<1> USE DEF Inv, ConsoleInv
<1>1. ASSUME log' = log, known' = known
      PROVE  LogInv' /\ known \subseteq known'
  BY <1>1, SameLog DEF LogInv, Server!Question, Server!Reply, Server!Messages
<1>2. CASE \E k \in Conversations : Select(k)
  BY <1>1, <1>2 DEF Select, server
<1>3. CASE \E n \in 1 .. Len(fetches) : AnswerFetch(n) \/ ArriveFetch(n) \/ FailFetch(n)
  BY <1>1, <1>3 DEF AnswerFetch, ArriveFetch, FailFetch, server
<1>4. CASE \E c \in Chats : SendChat(c) \/ Fail(c) \/ Show(c) \/ LoseStream(c)
  BY <1>1, <1>4 DEF SendChat, Fail, Show, Complete, ErrorArrives, LoseStream, server, Server!Show
<1>5. ASSUME NEW c \in Chats, Begin(c)
      PROVE  LogInv' /\ known \subseteq known' /\ \E k, m : Adds(k, m)
  <2>1. PICK k \in Conversations : Server!Ask(c, k) /\ known' = known \cup {k}
    BY <1>5 DEF Begin
  <2> QED BY <2>1, LogKept, Asks
<1>6. ASSUME NEW c \in Chats, Reply(c)
      PROVE  LogInv' /\ known \subseteq known' /\ \E k, m : Adds(k, m)
  <2>1. PICK k \in Conversations : Server!Answer(c, k)
    BY <1>6 DEF Reply
  <2>2. Server!Has(k, Server!Question(c)) /\ Server!Question(c) \in Stored
    BY <2>1, Answers, Messages
  <2>3. k \in known
    BY <2>2 DEF LogInv, Stored
  <2>4. known' = known
    BY <1>6 DEF Reply
  <2>5. known' = known \cup {k}
    BY <2>3, <2>4
  <2> QED BY <2>1, <2>4, <2>5, LogKept, Answers
<1>7. ASSUME NEW c \in Others, OtherChats(c)
      PROVE  LogInv' /\ known \subseteq known' /\ \E k, m : Adds(k, m)
  <2>1. PICK k \in known : Server!Ask(c, k) \/ Server!Answer(c, k)
    BY <1>7 DEF OtherChats
  <2>2. k \in Conversations
    BY DEF TypeOK
  <2>3. known' = known /\ known' = known \cup {k}
    BY <1>7 DEF OtherChats
  <2> QED BY <2>1, <2>2, <2>3, LogKept, Asks, Answers
<1>8. CASE Reload
  BY <1>1, <1>8 DEF Reload, server
<1> QED BY <1>2, <1>3, <1>4, <1>5, <1>6, <1>7, <1>8 DEF Next, Serve

\* A question is of the chat that asks it, a reply of the one that answers.
LEMMA AskedStep ==
    ASSUME Inv, NEW c \in Chats \cup Others, NEW k \in Conversations,
           Server!Ask(c, k) \/ Server!Answer(c, k), NEW d \in Chats
    PROVE  /\ Server!Asked(d)' => Server!Asked(d) \/ (d = c /\ Server!Ask(c, k))
           /\ Server!Answered(d) => Server!Answered(d)'
           /\ d = c /\ Server!Answer(c, k) => Server!Answered(d)'
<1> USE DEF Inv, ConsoleInv
<1>1. /\ Server!Question(d) \in Stored /\ Server!Reply(d) \in Stored
      /\ \A e \in Chats \cup Others :
            /\ Server!Question(d) # Server!Reply(e)
            /\ Server!Question(d) = Server!Question(e) => d = e
  BY Messages
<1>2. CASE Server!Ask(c, k)
  <2>1. \A j \in Conversations, x \in Stored :
           Server!Has(j, x)' <=> Server!Has(j, x) \/ (j = k /\ x = Server!Question(c))
    BY <1>2, Asks, Stores
  <2>2. ~Server!Answer(c, k)
    <3>1. ~Server!Has(k, Server!Question(c))
      BY <1>2, Asks
    <3> QED BY <3>1 DEF Server!Answer
  <2>3. Server!Asked(d)' => Server!Asked(d) \/ d = c
    BY <1>1, <2>1 DEF Server!Asked, Server!Question
  <2>4. Server!Answered(d) => Server!Answered(d)'
    BY <1>1, <2>1 DEF Server!Answered, Server!Reply
  <2> QED BY <1>2, <2>2, <2>3, <2>4
<1>3. CASE Server!Answer(c, k)
  <2>1. \A j \in Conversations, x \in Stored :
           Server!Has(j, x)' <=> Server!Has(j, x) \/ (j = k /\ x = Server!Reply(c))
    BY <1>3, Answers, Stores
  <2>2. Server!Question(d) # Server!Reply(c)
    BY <1>1
  <2>3. \A j \in Conversations :
           Server!Has(j, Server!Question(d))' => Server!Has(j, Server!Question(d))
    BY <1>1, <2>1, <2>2
  <2>4. Server!Asked(d)' => Server!Asked(d)
    BY <2>3 DEF Server!Asked, Server!Question
  <2>5. \A j \in Conversations :
           Server!Has(j, Server!Reply(d)) \/ (j = k /\ d = c) => Server!Has(j, Server!Reply(d))'
    BY <1>1, <2>1
  <2>6. Server!Answered(d) => Server!Answered(d)'
    <3>1. ASSUME NEW j \in Conversations, Server!Has(j, Server!Reply(d))
          PROVE  Server!Answered(d)'
      <4>1. Server!Has(j, Server!Reply(d))'
        BY <2>5, <3>1
      <4> QED BY <4>1 DEF Server!Answered, Server!Reply
    <3> QED BY <3>1 DEF Server!Answered
  <2>7. d = c => Server!Answered(d)'
    BY <2>5 DEF Server!Answered, Server!Reply
  <2> QED BY <2>4, <2>6, <2>7
<1> QED BY <1>2, <1>3

LEMMA ClickStep ==
    ASSUME Inv, Next
    PROVE  ClickInv'
<1> USE DEF Inv, ConsoleInv
<1>t. pc \in [Chats -> {"idle", "sent", "asked", "complete", "error", "over"}]
  BY DEF TypeOK
<1>i. \A d \in Chats : /\ Server!Asked(d) => pc[d] \notin {"idle", "sent"}
                       /\ pc[d] = "complete" => Server!Answered(d)
  BY DEF ClickInv
<1>s. ASSUME NEW d \in Chats,
             \/ Server!Asked(d)' => Server!Asked(d)
             \/ pc'[d] \in {"asked", "complete", "over"},
             Server!Answered(d) => Server!Answered(d)',
             \/ pc'[d] = pc[d] \/ pc'[d] \in {"asked", "error", "over"}
             \/ pc[d] = "idle" /\ pc'[d] = "sent"
             \/ Server!Answered(d)' /\ pc'[d] = "complete"
      PROVE  /\ Server!Asked(d)' => pc'[d] \notin {"idle", "sent"}
             /\ pc'[d] = "complete" => Server!Answered(d)'
  BY <1>s, <1>i
<1> DEFINE Sound(d) == /\ Server!Asked(d)' => pc'[d] \notin {"idle", "sent"}
                       /\ pc'[d] = "complete" => Server!Answered(d)'
<1>l. ASSUME log' = log
      PROVE  \A d \in Chats : /\ Server!Asked(d)' <=> Server!Asked(d)
                              /\ Server!Answered(d)' <=> Server!Answered(d)
  BY <1>l, SameLog DEF Server!Asked, Server!Answered, Server!Question, Server!Reply
<1>1. ASSUME NEW k \in Conversations, Select(k), NEW d \in Chats PROVE Sound(d)
  BY <1>1, <1>s, <1>l DEF Select, server, chats
<1>2. ASSUME NEW n \in 1 .. Len(fetches), AnswerFetch(n) \/ ArriveFetch(n) \/ FailFetch(n),
             NEW d \in Chats
      PROVE  Sound(d)
  BY <1>2, <1>s, <1>l DEF AnswerFetch, ArriveFetch, FailFetch, server, chats
<1>3. ASSUME NEW c \in Chats, SendChat(c), NEW d \in Chats PROVE Sound(d)
  <2>1. pc[c] = "idle" /\ pc' = [pc EXCEPT ![c] = "sent"] /\ log' = log
    BY <1>3 DEF SendChat, Request, Goto, server
  <2>2. IF d = c THEN pc[d] = "idle" /\ pc'[d] = "sent" ELSE pc'[d] = pc[d]
    BY <1>t, <2>1
  <2> QED BY <1>s, <1>l, <2>1, <2>2
<1>4. ASSUME NEW c \in Chats, Begin(c), NEW d \in Chats PROVE Sound(d)
  <2>1. PICK k \in Conversations : Server!Ask(c, k)
    BY <1>4 DEF Begin
  <2>2. pc' = [pc EXCEPT ![c] = "asked"]
    BY <1>4 DEF Begin, Goto
  <2>3. IF d = c THEN pc'[d] = "asked" ELSE pc'[d] = pc[d]
    BY <1>t, <2>2
  <2> QED BY <1>s, <2>1, <2>3, AskedStep
<1>5. ASSUME NEW c \in Chats, Reply(c), NEW d \in Chats PROVE Sound(d)
  <2>1. PICK k \in Conversations : Server!Answer(c, k)
    BY <1>5 DEF Reply
  <2>2. pc' = [pc EXCEPT ![c] = IF source = c THEN "complete" ELSE "over"]
    BY <1>5 DEF Reply, Emit, Goto
  <2>3. IF d = c THEN pc'[d] \in {"complete", "over"} ELSE pc'[d] = pc[d]
    BY <1>t, <2>2
  <2> QED BY <1>s, <2>1, <2>3, AskedStep
<1>6. ASSUME NEW c \in Chats, Fail(c) \/ Show(c) \/ LoseStream(c), NEW d \in Chats
      PROVE  Sound(d)
  <2>1. log' = log
    BY <1>6 DEF Fail, Show, LoseStream, Complete, ErrorArrives, server, Server!Show
  <2>2. pc'[d] = pc[d] \/ pc'[d] \in {"error", "over"}
    BY <1>6, <1>t DEF Fail, Show, LoseStream, Complete, ErrorArrives, Emit, Goto, Dropped
  <2> QED BY <1>s, <1>l, <2>1, <2>2
<1>7. ASSUME NEW c \in Others, OtherChats(c), NEW d \in Chats PROVE Sound(d)
  <2>1. PICK k \in known : Server!Ask(c, k) \/ Server!Answer(c, k)
    BY <1>7 DEF OtherChats
  <2>2. k \in Conversations /\ d # c
    BY ChatAssumption DEF TypeOK
  <2>3. pc'[d] = pc[d]
    BY <1>7 DEF OtherChats, chats
  <2>4. /\ Server!Asked(d)' => Server!Asked(d)
        /\ Server!Answered(d) => Server!Answered(d)'
    BY <2>1, <2>2, AskedStep
  <2> QED BY <1>s, <2>3, <2>4
<1>8. ASSUME Reload, NEW d \in Chats PROVE Sound(d)
  <2>1. log' = log
    BY <1>8 DEF Reload, server
  <2>2. pc'[d] = pc[d] \/ pc'[d] = "over"
    BY <1>8, <1>t DEF Reload, Dropped
  <2> QED BY <1>s, <1>l, <2>1, <2>2
<1>9. ASSUME NEW d \in Chats PROVE Sound(d)
  BY <1>1, <1>2, <1>3, <1>4, <1>5, <1>6, <1>7, <1>8 DEF Next, Serve
<1>10. clicks' = Cardinality({c \in Chats : pc'[c] # "idle"})
  BY CountStep
<1> QED BY <1>9, <1>10 DEF ClickInv

-----------------------------------------------------------------------------
(***************************************************************************)
(* Selections.                                                             *)
(***************************************************************************)
LEMMA FetchStep ==
    ASSUME Inv, Next
    PROVE  FetchInv'
<1> USE DEF Inv, ConsoleInv
<1>k. known \subseteq known'
  BY LogStep
<1>f. Finished' = Finished
  BY DEF Finished
<1>1. ASSUME fetches' = fetches PROVE FetchInv'
  BY <1>1, <1>k, <1>f DEF FetchInv
<1>2. ASSUME NEW k \in Conversations, Select(k) PROVE FetchInv'
  <2>1. ASSUME NEW n \in 1 .. Len(fetches')
        PROVE  fetches'[n] = Finished \/ fetches'[n].of \in known'
    <3>1. CASE n \in 1 .. Len(fetches)
      <4>1. fetches'[n] = fetches[n]
        BY <1>2, <3>1, Selected
      <4> QED BY <1>k, <3>1, <4>1 DEF FetchInv
    <3>2. CASE n = Len(fetches) + 1
      <4>1. fetches'[n] = [of |-> k, step |-> "sent", page |-> << >>]
        BY <1>2, <3>2, Selected
      <4>2. fetches'[n].of = k /\ k \in known
        BY <1>2, <4>1 DEF Select
      <4> QED BY <1>k, <4>2
    <3> QED BY <1>2, <3>1, <3>2, Selected
  <2> QED BY <1>f, <2>1 DEF FetchInv
<1>3. ASSUME NEW n \in 1 .. Len(fetches), AnswerFetch(n) \/ ArriveFetch(n) \/ FailFetch(n)
      PROVE  FetchInv'
  <2>1. /\ Len(fetches') = Len(fetches)
        /\ \A i \in 1 .. Len(fetches) : i # n => fetches'[i] = fetches[i]
        /\ fetches'[n] = Finished \/ fetches'[n].of = fetches[n].of
        /\ fetches[n] # Finished
    BY <1>3, Fetched
  <2> QED BY <1>k, <1>f, <2>1 DEF FetchInv
<1>4. ASSUME Reload PROVE FetchInv'
  <2>1. Len(fetches) \in Nat
    BY DEF TypeOK
  <2>2. fetches' = [n \in 1 .. Len(fetches) |-> Finished]
    BY <1>4 DEF Reload
  <2>3. \A n \in 1 .. Len(fetches') : fetches'[n] = Finished
    BY <2>1, <2>2
  <2> QED BY <1>f, <2>3 DEF FetchInv
<1>5. CASE \E c \in Chats : SendChat(c) \/ Serve(c) \/ Show(c) \/ LoseStream(c)
  BY <1>1, <1>5 DEF SendChat, Serve, Begin, Reply, Fail, Show, Complete, ErrorArrives,
                    LoseStream
<1>6. CASE \E c \in Others : OtherChats(c)
  BY <1>1, <1>6 DEF OtherChats
<1> QED BY <1>2, <1>3, <1>4, <1>5, <1>6 DEF Next

\* What is under way after a step.
LEMMA UnderWay ==
    /\ InFlight' = {n \in 1 .. Len(fetches') : fetches'[n] # Finished}
    /\ fetches' = fetches => InFlight' = InFlight
BY DEF InFlight, Finished

\* A step leaves what a conversation begins with.
LEMMA BeginningKept ==
    ASSUME Inv, Next, NEW k \in Conversations, NEW s \in Seq(Stored), NEW n \in Nat
    PROVE  /\ Agree(s, log[k], n) => Agree(s, log'[k], n)
           /\ n <= Len(log[k]) => n <= Len(log'[k])
<1> USE DEF Inv, ConsoleInv
<1>1. CASE log' = log
  BY <1>1
<1>2. CASE \E j, m : Adds(j, m)
  <2>1. PICK j, m : Adds(j, m)
    BY <1>2
  <2>2. /\ log[k] \in Seq(Stored) /\ m \in Stored
        /\ log'[k] = IF k = j THEN Append(log[k], m) ELSE log[k]
    BY <2>1, Stores DEF Adds
  <2>3. Agree(s, log[k], n) => Agree(s, Append(log[k], m), n)
    BY <2>2, AgreeGrows
  <2>4. Len(Append(log[k], m)) = Len(log[k]) + 1 /\ Len(log[k]) \in Nat
    BY <2>2, Appended
  <2> QED BY <2>2, <2>3, <2>4
<1> QED BY <1>1, <1>2, LogStep

LEMMA SelectStep ==
    ASSUME Inv, Next
    PROVE  SelectInv'
<1> USE DEF Inv, ConsoleInv
<1>t. /\ selected \in Conversations \cup {None}
      /\ had \in 0 .. Limit \cup {None} /\ Limit \in Nat
      /\ None \notin Chats /\ None \notin Conversations
  BY ChatAssumption, LimitAssumption DEF TypeOK
<1> DEFINE Waits(n) ==
              /\ source' = None /\ InFlight' = {n}
              /\ selected' # None /\ fetches'[n].of = selected'
              /\ had' <= Len(log'[selected'])
              /\ fetches'[n].step = "answered" =>
                    /\ had' <= Len(fetches'[n].page)
                    /\ Agree(fetches'[n].page, log'[selected'], Len(fetches'[n].page))
<1>s. ASSUME had' # None => \A n \in InFlight' : Waits(n) PROVE SelectInv'
  BY <1>s DEF SelectInv, Agree
<1> HIDE DEF Waits
<1>n. ASSUME had' = None \/ InFlight' = {} PROVE SelectInv'
  BY <1>n, <1>s
<1>k. ASSUME fetches' = fetches, selected' = selected, source' = source, had' = had
      PROVE  SelectInv'
  <2>1. ASSUME had' # None, NEW n \in InFlight' PROVE Waits(n)
    <3>1. /\ n \in InFlight /\ had # None /\ source = None /\ InFlight = {n}
          /\ selected # None /\ fetches[n].of = selected /\ had <= Len(log[selected])
          /\ fetches[n].step = "answered" =>
                /\ had <= Len(fetches[n].page)
                /\ Agree(fetches[n].page, log[selected], Len(fetches[n].page))
      BY <1>k, <2>1, UnderWay DEF SelectInv
    <3>2. selected \in Conversations /\ had \in Nat
      BY <1>t, <3>1
    <3>3. fetches[n].page \in Seq(Stored) /\ Len(fetches[n].page) \in Nat
      <4>1. fetches \in Seq(Fetches) /\ n \in 1 .. Len(fetches)
        BY <3>1 DEF TypeOK, InFlight, Fetches, Stored
      <4>2. fetches[n] \in Fetches
        BY <4>1
      <4> QED BY <4>2 DEF Fetches
    <3>4. had <= Len(log'[selected])
      BY <3>1, <3>2, <3>3, BeginningKept
    <3>5. Agree(fetches[n].page, log[selected], Len(fetches[n].page)) =>
             Agree(fetches[n].page, log'[selected], Len(fetches[n].page))
      BY <3>2, <3>3, BeginningKept
    <3>6. InFlight' = {n}
      BY <1>k, <3>1, UnderWay
    <3> QED BY <1>k, <3>1, <3>4, <3>5, <3>6 DEF Waits
  <2> QED BY <1>s, <2>1
<1>1. ASSUME NEW k \in Conversations, Select(k) PROVE SelectInv'
  <2>1. CASE InFlight = {} /\ source = None
    <3> DEFINE n == Len(fetches) + 1
    <3>1. /\ fetches'[n] = [of |-> k, step |-> "sent", page |-> << >>]
          /\ Len(fetches') = n /\ n \in 1 .. n
          /\ \A i \in 1 .. Len(fetches) : fetches'[i] = fetches[i]
          /\ \A i \in 1 .. Len(fetches') : i \in 1 .. Len(fetches) \/ i = n
      BY <1>1, Selected
    <3> HIDE DEF n
    <3>2. \A i \in 1 .. Len(fetches) : fetches[i] = Finished
      BY <2>1 DEF InFlight
    <3>3. fetches'[n].of = k /\ fetches'[n].step = "sent" /\ fetches'[n] # Finished
      BY <3>1 DEF Finished
    <3>4. InFlight' = {n}
      BY <3>1, <3>2, <3>3, UnderWay
    <3>5. /\ selected' = k /\ source' = None /\ had' = Len(Page(k)) /\ log' = log
      BY <1>1, <2>1 DEF Select, server
    <3>6. had' <= Len(log'[k])
      BY <3>5, Paged
    <3>7. Waits(n)
      BY <1>t, <3>3, <3>4, <3>5, <3>6 DEF Waits
    <3> QED BY <1>s, <3>4, <3>7
  <2>2. CASE ~(InFlight = {} /\ source = None)
    <3>1. had' = None
      BY <1>1, <2>2 DEF Select
    <3> QED BY <1>n, <3>1
  <2> QED BY <2>1, <2>2
<1>2. ASSUME NEW n \in 1 .. Len(fetches), AnswerFetch(n) PROVE SelectInv'
  <2>1. /\ Len(fetches') = Len(fetches)
        /\ \A i \in 1 .. Len(fetches) : i # n => fetches'[i] = fetches[i]
        /\ fetches[n] # Finished /\ fetches[n].of \in Conversations
        /\ fetches'[n].of = fetches[n].of /\ fetches'[n].step = "answered"
        /\ fetches'[n].page = Page(fetches[n].of)
    BY <1>2, Fetched
  <2>2. log' = log /\ source' = source /\ selected' = selected /\ had' = had
    BY <1>2 DEF AnswerFetch, server, page
  <2>3. fetches'[n] # Finished
    BY <2>1 DEF Finished
  <2>4. InFlight' = InFlight /\ n \in InFlight
    BY <2>1, <2>3, UnderWay DEF InFlight
  <2>5. ASSUME had' # None PROVE InFlight' = {n} /\ Waits(n)
    <3>1. /\ source = None /\ InFlight = {n} /\ selected # None
          /\ fetches[n].of = selected /\ had <= Len(log[selected])
      BY <2>2, <2>4, <2>5 DEF SelectInv
    <3>2. selected \in Conversations /\ had \in 0 .. Limit
      BY <1>t, <2>2, <2>5, <3>1
    <3>3. had <= Len(Page(selected)) /\ Agree(Page(selected), log[selected], Len(Page(selected)))
      BY <3>1, <3>2, Paged
    <3> QED BY <2>1, <2>2, <2>4, <3>1, <3>3 DEF Waits
  <2> QED BY <1>s, <2>5
<1>3. ASSUME NEW n \in 1 .. Len(fetches), ArriveFetch(n) PROVE SelectInv'
  <2>1. /\ Len(fetches') = Len(fetches)
        /\ \A i \in 1 .. Len(fetches) : i # n => fetches'[i] = fetches[i]
        /\ fetches[n] # Finished /\ fetches'[n] = Finished
    BY <1>3, Fetched
  <2>2. had' = had /\ n \in InFlight
    BY <1>3, <2>1 DEF ArriveFetch, InFlight
  <2>3. ASSUME had' # None PROVE InFlight' = {}
    <3>1. InFlight = {n}
      BY <2>2, <2>3 DEF SelectInv
    <3>2. \A i \in 1 .. Len(fetches) : i # n => fetches[i] = Finished
      BY <3>1 DEF InFlight
    <3> QED BY <2>1, <3>2, UnderWay
  <2> QED BY <1>n, <2>3
<1>4. ASSUME NEW n \in 1 .. Len(fetches), FailFetch(n) PROVE SelectInv'
  BY <1>4, <1>n DEF FailFetch
<1>5. ASSUME NEW c \in Chats, SendChat(c) PROVE SelectInv'
  <2>1. InFlight' = InFlight /\ (InFlight = {} \/ had' = None)
    BY <1>5, UnderWay DEF SendChat
  <2> QED BY <1>n, <2>1
<1>6. ASSUME NEW c \in Chats, Serve(c) PROVE SelectInv'
  BY <1>6, <1>k DEF Serve, Begin, Reply, Fail, page
<1>7. ASSUME NEW c \in Chats, Show(c) \/ LoseStream(c) PROVE SelectInv'
  <2>1. source = c /\ had' = had /\ fetches' = fetches
    BY <1>7 DEF Show, Complete, ErrorArrives, LoseStream
  <2>2. had = None \/ InFlight = {}
    BY <1>t, <2>1 DEF SelectInv
  <2> QED BY <1>n, <2>1, <2>2, UnderWay
<1>8. ASSUME NEW c \in Others, OtherChats(c) PROVE SelectInv'
  BY <1>8, <1>k DEF OtherChats, page
<1>9. ASSUME Reload PROVE SelectInv'
  <2>1. Len(fetches) \in Nat
    BY DEF TypeOK
  <2>2. fetches' = [n \in 1 .. Len(fetches) |-> Finished]
    BY <1>9 DEF Reload
  <2>3. \A n \in 1 .. Len(fetches') : fetches'[n] = Finished
    BY <2>1, <2>2
  <2>4. InFlight' = {}
    BY <2>3, UnderWay
  <2> QED BY <1>n, <2>4
<1> QED BY <1>1, <1>2, <1>3, <1>4, <1>5, <1>6, <1>7, <1>8, <1>9 DEF Next

-----------------------------------------------------------------------------
(***************************************************************************)
(* What the page shows.                                                    *)
(***************************************************************************)
\* The message that is added is below the others, and moves none of them.
LEMMA BelowGrows ==
    ASSUME NEW s \in Seq(Stored), NEW w \in Seq(Stored), NEW m \in Stored, NEW r,
           \A i \in 1 .. Len(w) : w[i] # m, InOrder(s, w), Below(s, w, r) \/ r = m
    PROVE  Below(s, Append(w, m), r)
<1> DEFINE v == Append(w, m)
<1>1. /\ v \in Seq(Stored) /\ Len(v) = Len(w) + 1 /\ Len(w) \in Nat
      /\ \A i \in 1 .. Len(w) : v[i] = w[i]
      /\ v[Len(w) + 1] = m
      /\ \A i \in 1 .. Len(w) + 1 : i \in 1 .. Len(w) \/ i = Len(w) + 1
  BY Appended
<1> HIDE DEF v
<1>2. \A i \in 1 .. Len(s) : s[i] # m
  BY Elements DEF InOrder
<1>3. ASSUME NEW i \in 1 .. Len(s), NEW x \in 1 .. Len(v), NEW y \in 1 .. Len(v),
             s[i] = v[x], v[y] = r
      PROVE  x < y
  <2>1. x \in 1 .. Len(w) /\ s[i] = w[x]
    BY <1>1, <1>2, <1>3
  <2>2. CASE y \in 1 .. Len(w)
    <3>1. w[y] = r /\ r # m
      BY <1>1, <1>3, <2>2
    <3> QED BY <2>1, <2>2, <3>1 DEF Below
  <2>3. CASE y = Len(w) + 1
    BY <1>1, <2>1, <2>3
  <2> QED BY <1>1, <1>3, <2>2, <2>3
<1>4. Below(s, v, r)
  BY <1>3 DEF Below
<1> QED BY <1>4 DEF v

LEMMA Adding ==
    ASSUME Inv, NEW j, NEW m, Adds(j, m), selected \in Conversations,
           InOrder(messages, log[selected])
    PROVE  /\ InOrder(messages, log'[selected])
           /\ \A r : Below(messages, log[selected], r) \/ (r = m /\ selected = j) =>
                       Below(messages, log'[selected], r)
<1> USE DEF Inv, ConsoleInv
<1>1. messages \in Seq(Stored) /\ log[selected] \in Seq(Stored) /\ m \in Stored
  BY DEF TypeOK, Stored, Adds
<1>2. log'[selected] = IF selected = j THEN Append(log[selected], m) ELSE log[selected]
  BY Stores DEF Adds
<1>3. selected = j => \A i \in 1 .. Len(log[selected]) : log[selected][i] # m
  BY DEF Adds
<1> QED BY <1>1, <1>2, <1>3, OrderGrows, BelowGrows

\* A step that leaves the page alone leaves it right.
LEMMA OrderKept ==
    ASSUME Inv, Next, selected \in Conversations, InOrder(messages, log[selected])
    PROVE  InOrder(messages, log'[selected])
BY LogStep, Adding

LEMMA TranscriptStep ==
    ASSUME Inv, Next
    PROVE  TranscriptOfSelected'
<1> USE DEF Inv, ConsoleInv
<1>t. /\ selected \in Conversations \cup {None}
      /\ had \in 0 .. Limit \cup {None} /\ Limit \in Nat
      /\ None \notin Chats /\ None \notin Conversations
      /\ messages \in Seq(Stored)
  BY ChatAssumption, LimitAssumption DEF TypeOK, Stored
<1> DEFINE Right == IF selected' = None THEN messages' = << >>
                    ELSE /\ InOrder(messages', log'[selected'])
                         /\ Agree(messages', log'[selected'], had')
<1>s. ASSUME had' # None /\ InFlight' = {} => Right PROVE TranscriptOfSelected'
  BY <1>s DEF TranscriptOfSelected, InOrder, Agree
<1>h. TranscriptOfSelected =
         (had # None /\ InFlight = {} =>
            IF selected = None THEN messages = << >>
            ELSE InOrder(messages, log[selected]) /\ Agree(messages, log[selected], had))
  BY DEF TranscriptOfSelected
<1>k. ASSUME selected' = selected, messages' = messages, fetches' = fetches,
             had' = had \/ had' = None
      PROVE  TranscriptOfSelected'
  <2>1. ASSUME had' # None, InFlight' = {} PROVE Right
    <3>1. had # None /\ InFlight = {} /\ had' = had
      BY <1>k, <2>1, UnderWay
    <3>2. CASE selected = None
      BY <1>h, <1>k, <3>1, <3>2
    <3>3. CASE selected # None
      <4>1. selected \in Conversations /\ had \in Nat
        BY <1>t, <3>1, <3>3
      <4>2. InOrder(messages, log[selected]) /\ Agree(messages, log[selected], had)
        BY <1>h, <3>1, <3>3
      <4>3. InOrder(messages, log'[selected])
        BY <4>1, <4>2, OrderKept
      <4>4. Agree(messages, log'[selected], had)
        BY <1>t, <4>1, <4>2, BeginningKept
      <4> QED BY <1>k, <3>1, <3>3, <4>3, <4>4
    <3> QED BY <3>2, <3>3
  <2> QED BY <1>s, <2>1
<1> HIDE DEF Right
<1>1. ASSUME NEW k \in Conversations, Select(k) PROVE TranscriptOfSelected'
  <2>1. /\ fetches'[Len(fetches) + 1] = [of |-> k, step |-> "sent", page |-> << >>]
        /\ Len(fetches') = Len(fetches) + 1 /\ Len(fetches) \in Nat
    BY <1>1, Selected
  <2>2. fetches'[Len(fetches) + 1].step = "sent"
    BY <2>1
  <2>3. Len(fetches) + 1 \in InFlight'
    BY <2>1, <2>2, UnderWay DEF Finished
  <2> QED BY <1>s, <2>3
<1>2. ASSUME NEW n \in 1 .. Len(fetches), AnswerFetch(n) PROVE TranscriptOfSelected'
  <2>1. Len(fetches') = Len(fetches) /\ fetches'[n].step = "answered"
    BY <1>2, Fetched
  <2>2. n \in InFlight'
    BY <2>1, UnderWay DEF Finished
  <2> QED BY <1>s, <2>2
<1>3. ASSUME NEW n \in 1 .. Len(fetches), ArriveFetch(n) PROVE TranscriptOfSelected'
  <2>1. ASSUME had' # None PROVE Right
    <3>1. /\ had' = had /\ selected' = selected /\ log' = log
          /\ messages' = fetches[n].page /\ fetches[n].step = "answered"
      BY <1>3 DEF ArriveFetch, server
    <3>2. n \in InFlight
      BY <3>1 DEF InFlight, Finished
    <3>3. /\ selected # None /\ had <= Len(fetches[n].page)
          /\ Agree(fetches[n].page, log[selected], Len(fetches[n].page))
      BY <2>1, <3>1, <3>2 DEF SelectInv
    <3>4. fetches[n].page \in Seq(Stored) /\ Len(fetches[n].page) \in Nat
      <4>1. fetches \in Seq(Fetches)
        BY DEF TypeOK, Fetches, Stored
      <4>2. fetches[n] \in Fetches
        BY <4>1
      <4> QED BY <4>2 DEF Fetches
    <3>5. selected \in Conversations /\ had \in Nat
      BY <1>t, <2>1, <3>1, <3>3
    <3>6. /\ log[selected] \in Seq(Stored)
          /\ \A x, y \in 1 .. Len(log[selected]) :
                log[selected][x] = log[selected][y] => x = y
      BY <3>5 DEF TypeOK, Stored, LogInv
    <3>7. InOrder(fetches[n].page, log[selected])
      BY <3>3, <3>4, <3>6, PrefixInOrder
    <3>8. Agree(fetches[n].page, log[selected], had)
      <4> DEFINE s == fetches[n].page
      <4>1. /\ had <= Len(s) /\ Len(s) \in Nat /\ Len(s) <= Len(log[selected])
            /\ \A i \in 1 .. Len(s) : s[i] = log[selected][i]
        BY <3>3, <3>4 DEF Agree
      <4>2. Len(log[selected]) \in Nat
        BY <3>6
      <4> HIDE DEF s
      <4>3. had <= Len(log[selected]) /\ \A i \in 1 .. had : s[i] = log[selected][i]
        BY <3>5, <4>1, <4>2
      <4>4. Agree(s, log[selected], had)
        BY <4>1, <4>3 DEF Agree
      <4> QED BY <4>4 DEF s
    <3> QED BY <3>1, <3>3, <3>7, <3>8 DEF Right
  <2> QED BY <1>s, <2>1
<1>4. ASSUME NEW n \in 1 .. Len(fetches), FailFetch(n) PROVE TranscriptOfSelected'
  BY <1>4, <1>s DEF FailFetch
<1>5. ASSUME NEW c \in Chats, SendChat(c) PROVE TranscriptOfSelected'
  BY <1>5, <1>k DEF SendChat
<1>6. ASSUME NEW c \in Chats, Serve(c) PROVE TranscriptOfSelected'
  BY <1>6, <1>k DEF Serve, Begin, Reply, Fail, page
<1>7. ASSUME NEW c \in Chats, Complete(c) PROVE TranscriptOfSelected'
  <2> DEFINE k == Home(c)
             r == Server!Reply(c)
  <2>1. /\ source = c /\ pc[c] = "complete" /\ selected' = k
        /\ messages' = Append(messages, r) /\ log' = log /\ had' = had
        /\ fetches' = fetches
    BY <1>7 DEF Complete, Server!Show
  <2>2. /\ k \in Conversations /\ k # None
        /\ Server!Has(k, Server!Question(c)) /\ Server!Has(k, r)
    BY <1>t, <2>1, Completed
  <2>3. r \in Stored /\ log[k] \in Seq(Stored)
    BY <2>2, Messages DEF TypeOK, Stored
  <2>4. PICK z \in 1 .. Len(log[k]) : log[k][z] = r
    BY <2>2, HasIs
  <2>5. ASSUME had' # None, InFlight' = {} PROVE Right
    <3>1. had # None /\ InFlight = {} /\ had \in Nat
      BY <1>t, <2>1, <2>5, UnderWay
    <3>2. InOrder(messages, log[k]) /\ Below(messages, log[k], r) /\ Agree(messages, log[k], had)
      <4>1. CASE selected = None
        <5>1. had = 0 /\ messages = << >>
          BY <1>h, <3>1, <4>1 DEF AskInv
        <5>2. Len(messages) = 0 /\ ToSet(messages) = {}
          BY <5>1 DEF ToSet
        <5>3. Len(log[k]) \in Nat
          BY <2>3
        <5> QED BY <5>1, <5>2, <5>3 DEF InOrder, Below, Agree
      <4>2. CASE selected # None
        <5>1. /\ Server!Has(selected, Server!Question(c))
              /\ Below(messages, log[selected], r)
          BY <2>1, <3>1, <4>2 DEF AskInv
        <5>2. selected = k
          BY <1>t, <2>2, <4>2, <5>1, HomeIs
        <5> QED BY <1>h, <3>1, <4>2, <5>1, <5>2
      <4> QED BY <4>1, <4>2
    <3>3. InOrder(Append(messages, r), log[k])
      BY <1>t, <2>3, <2>4, <3>2, OrderAppends
    <3>4. Agree(Append(messages, r), log[k], had)
      BY <1>t, <2>3, <3>1, <3>2, AgreeGrows
    <3> QED BY <2>1, <2>2, <3>3, <3>4 DEF Right
  <2> QED BY <1>s, <2>5
<1>8. ASSUME NEW c \in Chats, ErrorArrives(c) \/ LoseStream(c) PROVE TranscriptOfSelected'
  BY <1>8, <1>k DEF ErrorArrives, LoseStream
<1>9. ASSUME NEW c \in Others, OtherChats(c) PROVE TranscriptOfSelected'
  BY <1>9, <1>k DEF OtherChats, page
<1>10. ASSUME Reload PROVE TranscriptOfSelected'
  BY <1>10, <1>s DEF Reload, Right
<1> QED BY <1>1, <1>2, <1>3, <1>4, <1>5, <1>6, <1>7, <1>8, <1>9, <1>10 DEF Next, Show

LEMMA HasThen ==
    /\ \A k, m : Server!Has(k, m) <=> m \in ToSet(log[k])
    /\ \A k, m : Server!Has(k, m)' <=> m \in ToSet(log'[k])
BY DEF Server!Has, Server!ToSet, ToSet

LEMMA Contents ==
    ASSUME TypeOK, NEW k, NEW m, Adds(k, m)
    PROVE  \A j \in Conversations, x \in Stored :
              x \in ToSet(log'[j]) <=> x \in ToSet(log[j]) \/ (j = k /\ x = m)
BY Stores, HasThen

LEMMA AskStep ==
    ASSUME Inv, Next
    PROVE  AskInv'
<1> USE DEF Inv, ConsoleInv
<1>t. /\ selected \in Conversations \cup {None}
      /\ had \in 0 .. Limit \cup {None}
      /\ None \notin Chats /\ None \notin Conversations
      /\ pc \in [Chats -> {"idle", "sent", "asked", "complete", "error", "over"}]
      /\ target \in [Chats -> Conversations \cup {None}]
  BY ChatAssumption DEF TypeOK
<1>i. had # None /\ InFlight = {} =>
         /\ selected = None => had = 0
         /\ selected # None => InOrder(messages, log[selected])
         /\ \A d \in Chats : source = d =>
               /\ pc[d] = "sent" => target[d] = selected
               /\ selected # None /\ pc[d] \in {"asked", "complete"} =>
                     Server!Question(d) \in ToSet(log[selected])
               /\ selected # None /\ pc[d] = "complete" =>
                     Below(messages, log[selected], Server!Reply(d))
  BY HasThen DEF AskInv, TranscriptOfSelected
<1> DEFINE Right(d) ==
              /\ pc'[d] = "sent" => target'[d] = selected'
              /\ selected' # None /\ pc'[d] \in {"asked", "complete"} =>
                    Server!Question(d) \in ToSet(log'[selected'])
              /\ selected' # None /\ pc'[d] = "complete" =>
                    Below(messages', log'[selected'], Server!Reply(d))
<1>s. ASSUME had' # None /\ InFlight' = {} =>
                /\ selected' = None => had' = 0
                /\ \A d \in Chats : source' = d => Right(d)
      PROVE  AskInv'
  BY <1>s DEF AskInv, Below, Server!Question, Server!Reply, Server!Has, Server!ToSet, ToSet
<1> HIDE DEF Right
\* The page stays, and so do the requests.
<1>k. ASSUME selected' = selected, messages' = messages, source' = source,
             fetches' = fetches, had' = had,
             ASSUME had # None, InFlight = {}, NEW d \in Chats, source = d PROVE Right(d)
      PROVE  AskInv'
  BY <1>k, <1>i, <1>s, UnderWay
\* The EventSource is closed.
<1>n. ASSUME source' = None, had' # None /\ InFlight' = {} /\ selected' = None => had' = 0
      PROVE  AskInv'
  BY <1>n, <1>t, <1>s
<1>1. ASSUME NEW k \in Conversations, Select(k) PROVE AskInv'
  <2>1. /\ fetches'[Len(fetches) + 1] = [of |-> k, step |-> "sent", page |-> << >>]
        /\ Len(fetches') = Len(fetches) + 1 /\ Len(fetches) \in Nat
    BY <1>1, Selected
  <2>2. fetches'[Len(fetches) + 1].step = "sent"
    BY <2>1
  <2>3. Len(fetches) + 1 \in InFlight'
    BY <2>1, <2>2, UnderWay DEF Finished
  <2> QED BY <1>s, <2>3
<1>2. ASSUME NEW n \in 1 .. Len(fetches), AnswerFetch(n) PROVE AskInv'
  <2>1. Len(fetches') = Len(fetches) /\ fetches'[n].step = "answered"
    BY <1>2, Fetched
  <2>2. n \in InFlight'
    BY <2>1, UnderWay DEF Finished
  <2> QED BY <1>s, <2>2
<1>3. ASSUME NEW n \in 1 .. Len(fetches), ArriveFetch(n) PROVE AskInv'
  <2>1. n \in InFlight /\ had' = had /\ source' = source /\ selected' = selected
    BY <1>3 DEF ArriveFetch, InFlight, Finished
  <2>2. had' # None => source' = None /\ selected' # None
    BY <2>1 DEF SelectInv
  <2> QED BY <1>n, <1>s, <2>2
<1>4. ASSUME NEW n \in 1 .. Len(fetches), FailFetch(n) PROVE AskInv'
  BY <1>4, <1>s DEF FailFetch
<1>5. ASSUME NEW c \in Chats, SendChat(c) PROVE AskInv'
  <2>1. /\ source' = c /\ pc' = [pc EXCEPT ![c] = "sent"]
        /\ target' = [target EXCEPT ![c] = selected]
        /\ selected' = selected /\ fetches' = fetches
        /\ had' = IF InFlight = {} THEN had ELSE None
    BY <1>5 DEF SendChat, Request, Goto
  <2>2. Right(c)
    BY <1>t, <2>1 DEF Right
  <2>3. had' # None /\ InFlight' = {} /\ selected' = None => had' = 0
    BY <1>i, <2>1, UnderWay
  <2> QED BY <1>s, <2>1, <2>2, <2>3
<1>6. ASSUME NEW c \in Chats, Begin(c) PROVE AskInv'
  <2>1. PICK k \in Conversations :
           /\ IF target[c] = None THEN k \notin known ELSE k = target[c]
           /\ Server!Ask(c, k)
    BY <1>6 DEF Begin
  <2>2. Adds(k, Server!Question(c))
    BY <2>1, Asks
  <2>3. \A j \in Conversations, x \in Stored :
           x \in ToSet(log'[j]) <=> x \in ToSet(log[j]) \/ (j = k /\ x = Server!Question(c))
    BY <2>2, Contents
  <2>4. /\ pc[c] = "sent" /\ pc' = [pc EXCEPT ![c] = "asked"]
        /\ target' = [target EXCEPT ![c] = None]
        /\ UNCHANGED << page, fetches, had >>
    BY <1>6 DEF Begin, Goto
  <2>5. ASSUME had # None, InFlight = {}, NEW d \in Chats, source = d PROVE Right(d)
    <3>1. Server!Question(d) \in Stored /\ Server!Reply(d) # Server!Question(c)
      BY Messages
    <3>2. CASE d = c
      <4>1. target[c] = selected
        BY <1>i, <2>4, <2>5, <3>2
      <4>2. selected # None => selected = k
        BY <2>1, <4>1
      <4>3. selected # None => Server!Question(d) \in ToSet(log'[selected])
        BY <2>3, <3>1, <3>2, <4>2
      <4> QED BY <1>t, <2>4, <3>2, <4>3 DEF Right, page
    <3>3. CASE d # c
      <4>1. pc'[d] = pc[d] /\ target'[d] = target[d]
        BY <1>t, <2>4, <3>3
      <4>2. ASSUME selected # None, pc[d] \in {"asked", "complete"}
            PROVE  Server!Question(d) \in ToSet(log'[selected])
        BY <1>i, <1>t, <2>3, <2>5, <3>1, <4>2
      <4>3. ASSUME selected # None, pc[d] = "complete"
            PROVE  Below(messages, log'[selected], Server!Reply(d))
        BY <1>i, <1>t, <2>2, <2>5, <4>3, Adding
      <4> QED BY <1>i, <2>4, <2>5, <4>1, <4>2, <4>3 DEF Right, page
    <3> QED BY <3>2, <3>3
  <2> QED BY <1>k, <2>4, <2>5 DEF page
<1>7. ASSUME NEW c \in Chats, Reply(c) PROVE AskInv'
  <2>1. PICK k \in Conversations : Server!Answer(c, k)
    BY <1>7 DEF Reply
  <2>2. Adds(k, Server!Reply(c)) /\ Server!Has(k, Server!Question(c))
    BY <2>1, Answers
  <2>3. \A j \in Conversations, x \in Stored :
           x \in ToSet(log'[j]) <=> x \in ToSet(log[j]) \/ (j = k /\ x = Server!Reply(c))
    BY <2>2, Contents
  <2>4. /\ pc[c] = "asked" /\ UNCHANGED << known, target, page, fetches, had >>
        /\ pc' = [pc EXCEPT ![c] = IF source = c THEN "complete" ELSE "over"]
    BY <1>7 DEF Reply, Emit, Goto
  <2>5. ASSUME had # None, InFlight = {}, NEW d \in Chats, source = d PROVE Right(d)
    <3>1. Server!Question(d) \in Stored
      BY Messages
    <3>2. d = c => pc[d] = "asked" /\ pc'[d] = "complete"
      BY <1>t, <2>4, <2>5
    <3>3. d # c => pc'[d] = pc[d]
      BY <1>t, <2>4
    <3>4. ASSUME selected # None, pc'[d] \in {"asked", "complete"}
          PROVE  Server!Question(d) \in ToSet(log[selected]) /\ Server!Question(d) \in ToSet(log'[selected])
      <4>1. Server!Question(d) \in ToSet(log[selected])
        BY <1>i, <2>5, <3>2, <3>3, <3>4
      <4> QED BY <1>t, <2>3, <3>1, <3>4, <4>1
    <3>5. ASSUME selected # None, pc'[d] = "complete"
          PROVE  Below(messages, log'[selected], Server!Reply(d))
      <4>1. selected \in Conversations /\ InOrder(messages, log[selected])
        BY <1>i, <1>t, <2>5, <3>5
      <4>2. CASE d = c
        <5>1. Server!Has(selected, Server!Question(c))
          BY <3>4, <3>5, <4>2, HasThen
        <5>2. selected = k
          BY <2>2, <4>1, <5>1 DEF LogInv
        <5> QED BY <2>2, <4>1, <4>2, <5>2, Adding
      <4>3. CASE d # c
        <5>1. Below(messages, log[selected], Server!Reply(d))
          BY <1>i, <2>5, <3>3, <3>5, <4>3
        <5> QED BY <2>2, <4>1, <5>1, Adding
      <4> QED BY <4>2, <4>3
    <3>6. pc'[d] # "sent" \/ target'[d] = selected'
      BY <1>i, <2>4, <2>5, <3>2, <3>3 DEF page
    <3> QED BY <2>4, <3>4, <3>5, <3>6 DEF Right, page
  <2> QED BY <1>k, <2>4, <2>5 DEF page
<1>8. ASSUME NEW c \in Chats, Fail(c) PROVE AskInv'
  <2>1. /\ pc' = [pc EXCEPT ![c] = IF source = c THEN "error" ELSE "over"]
        /\ target' = [target EXCEPT ![c] = None]
        /\ UNCHANGED << page, fetches, had >> /\ log' = log
    BY <1>8 DEF Fail, Emit, Goto, server
  <2>2. ASSUME had # None, InFlight = {}, NEW d \in Chats, source = d PROVE Right(d)
    <3>1. IF d = c THEN pc'[d] \in {"error", "over"}
                   ELSE pc'[d] = pc[d] /\ target'[d] = target[d]
      BY <1>t, <2>1
    <3>2. log'[selected] = log[selected]
      BY <2>1 DEF page
    <3> QED BY <1>i, <2>1, <2>2, <3>1, <3>2 DEF Right, page
  <2> QED BY <1>k, <2>1, <2>2 DEF page
<1>9. ASSUME NEW c \in Chats, Complete(c) PROVE AskInv'
  <2>1. source' = None /\ selected' = Home(c) /\ pc[c] = "complete"
    BY <1>9 DEF Complete
  <2>2. selected' # None
    BY <1>t, <2>1, Completed
  <2> QED BY <1>n, <2>1, <2>2
<1>10. ASSUME NEW c \in Chats, ErrorArrives(c) \/ LoseStream(c) PROVE AskInv'
  <2>1. source' = None /\ UNCHANGED << selected, fetches, had >>
    BY <1>10 DEF ErrorArrives, LoseStream
  <2> QED BY <1>i, <1>n, <2>1, UnderWay
<1>11. ASSUME NEW c \in Others, OtherChats(c) PROVE AskInv'
  <2>1. PICK k \in known : Server!Ask(c, k) \/ Server!Answer(c, k)
    BY <1>11 DEF OtherChats
  <2>2. k \in Conversations
    BY DEF TypeOK
  <2>3. PICK m \in {Server!Question(c), Server!Reply(c)} : Adds(k, m)
    BY <2>1, <2>2, Asks, Answers
  <2>4. \A j \in Conversations, x \in Stored :
           x \in ToSet(log'[j]) <=> x \in ToSet(log[j]) \/ (j = k /\ x = m)
    BY <2>3, Contents
  <2>5. UNCHANGED << known, chats, page, fetches, had >>
    BY <1>11 DEF OtherChats
  <2>6. ASSUME had # None, InFlight = {}, NEW d \in Chats, source = d PROVE Right(d)
    <3>1. Server!Question(d) \in Stored
      BY Messages
    <3>2. ASSUME selected # None, pc[d] \in {"asked", "complete"}
          PROVE  Server!Question(d) \in ToSet(log'[selected])
      BY <1>i, <1>t, <2>4, <2>6, <3>1, <3>2
    <3>3. ASSUME selected # None, pc[d] = "complete"
          PROVE  Below(messages, log'[selected], Server!Reply(d))
      BY <1>i, <1>t, <2>3, <2>6, <3>3, Adding
    <3> QED BY <1>i, <2>5, <2>6, <3>2, <3>3 DEF Right, page, chats
  <2> QED BY <1>k, <2>5, <2>6 DEF page
<1>12. ASSUME Reload PROVE AskInv'
  BY <1>12, <1>n DEF Reload
<1> QED BY <1>1, <1>2, <1>3, <1>4, <1>5, <1>6, <1>7, <1>8, <1>9, <1>10, <1>11, <1>12
        DEF Next, Serve, Show

-----------------------------------------------------------------------------
(***************************************************************************)
(* The theorems.                                                           *)
(***************************************************************************)
LEMMA Initially == Init => Inv
<1> SUFFICES ASSUME Init PROVE Inv
  OBVIOUS
<1>1. /\ log = [k \in Conversations |-> << >>] /\ shown = {} /\ known = Own
      /\ pc = [c \in Chats |-> "idle"] /\ target = [c \in Chats |-> None]
      /\ selected = None /\ messages = << >> /\ source = None /\ fetches = << >>
      /\ clicks = 0 /\ had = 0
  BY DEF Init, Server!Init
<1>2. \A k \in Conversations : log[k] = << >> /\ Len(log[k]) = 0
  BY <1>1
<1>3. \A k \in Conversations : \A m : ~Server!Has(k, m)
  BY <1>2 DEF Server!Has, Server!ToSet
<1>4. Len(fetches) = 0 /\ InFlight = {}
  BY <1>1 DEF InFlight
<1>5. TypeOK
  <2>1. Cardinality(Chats) \in Nat
    BY ChatAssumption, FS_CardinalityType
  <2>2. << >> \in Seq(Stored) /\ << >> \in Seq(Fetches)
    OBVIOUS
  <2> QED BY <1>1, <1>4, <2>1, <2>2, OwnAssumption, LimitAssumption
          DEF TypeOK, Stored, Fetches
<1>6. LogInv
  BY <1>2, <1>3 DEF LogInv
<1>7. ClickInv
  <2>1. {c \in Chats : pc[c] # "idle"} = {}
    BY <1>1
  <2>2. Cardinality({c \in Chats : pc[c] # "idle"}) = 0
    BY <2>1, FS_EmptySet
  <2>3. \A c \in Chats : ~Server!Asked(c)
    BY <1>3 DEF Server!Asked
  <2> QED BY <1>1, <2>2, <2>3 DEF ClickInv
<1>8. FetchInv /\ SelectInv
  BY <1>4 DEF FetchInv, SelectInv
<1>9. AskInv /\ TranscriptOfSelected
  BY <1>1, ChatAssumption DEF AskInv, TranscriptOfSelected
<1> QED BY <1>5, <1>6, <1>7, <1>8, <1>9 DEF Inv, ConsoleInv

LEMMA Stuttering == ASSUME Inv, UNCHANGED vars PROVE Inv'
<1>1. UNCHANGED << log, shown, known, pc, target, selected, messages, source, clicks,
                   fetches, had >>
  BY DEF vars, server, chats, page
<1>2. TypeOK'
  BY <1>1 DEF Inv, ConsoleInv, TypeOK, Server!Messages
<1>3. LogInv'
  BY <1>1, SameLog DEF Inv, ConsoleInv, LogInv, Server!Question, Server!Reply, Server!Messages
<1>4. ClickInv'
  <2>1. ClickInv
    BY DEF Inv, ConsoleInv
  <2>2. \A c \in Chats : /\ Server!Asked(c)' <=> Server!Asked(c)
                         /\ Server!Answered(c)' <=> Server!Answered(c)
    BY <1>1, SameLog DEF Server!Asked, Server!Answered, Server!Question, Server!Reply
  <2> QED BY <1>1, <2>1, <2>2 DEF ClickInv
<1>5. FetchInv' /\ SelectInv' /\ TranscriptOfSelected'
  BY <1>1 DEF Inv, ConsoleInv, FetchInv, SelectInv, TranscriptOfSelected, InFlight, Finished,
              InOrder, Agree, ToSet
<1>6. AskInv'
  <2>1. AskInv
    BY DEF Inv, ConsoleInv
  <2>2. InFlight' = InFlight
    BY <1>1, UnderWay
  <2> QED BY <1>1, <2>1, <2>2 DEF AskInv, Below, Server!Question, Server!Reply, Server!Has,
                                  Server!ToSet
<1> QED BY <1>2, <1>3, <1>4, <1>5, <1>6 DEF Inv, ConsoleInv

LEMMA Invariant == Spec => []Inv
<1>1. Inv /\ [Next]_vars => Inv'
  BY TypeStep, LogStep, ClickStep, FetchStep, SelectStep, AskStep, TranscriptStep, Stuttering
  DEF Inv, ConsoleInv
<1> QED BY Initially, <1>1, PTL DEF Spec

\* The inductive invariant: the log stores a message once, a click makes one
\* request, and an undisturbed selection and the next question have the page to
\* themselves.
THEOREM ConsoleConsistent == Spec => []ConsoleInv
<1>1. Inv => ConsoleInv
  BY DEF Inv
<1> QED BY Invariant, <1>1, PTL

\* An undisturbed selection shows the selected conversation's own messages, in
\* their order, each once, and from the first one on (page.tsx, 119 to 135).
THEOREM TranscriptIsOwn == Spec => []TranscriptOfSelected
<1>1. Inv => TranscriptOfSelected
  BY DEF Inv
<1> QED BY Invariant, <1>1, PTL

\* A click stores at most one question, however often connections are lost
\* (sendChat, 125 to 137).
THEOREM ClickAsksOnce == Spec => []OneQuestionPerClick
<1>1. ConsoleInv => OneQuestionPerClick
  <2> SUFFICES ASSUME ConsoleInv PROVE OneQuestionPerClick
    OBVIOUS
  <2> DEFINE A == {c \in Chats : Server!Asked(c)}
             S == {c \in Chats : pc[c] # "idle"}
  <2>1. A \subseteq S /\ IsFiniteSet(S)
    BY Counted DEF ConsoleInv, ClickInv
  <2>2. Cardinality(A) <= Cardinality(S)
    BY <2>1, FS_Subset
  <2>3. clicks = Cardinality(S)
    BY DEF ConsoleInv, ClickInv
  <2> QED BY <2>2, <2>3 DEF OneQuestionPerClick
<1> QED BY ConsoleConsistent, <1>1, PTL
=============================================================================
