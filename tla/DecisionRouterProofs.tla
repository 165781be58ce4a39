------------------------ MODULE DecisionRouterProofs ------------------------
(***************************************************************************)
(* Proofs about DecisionRouter, for every list of backends, every set of   *)
(* calls, every threshold and timeout and whatever backends answer.        *)
(***************************************************************************)
EXTENDS DecisionRouter, TLAPS, WellFoundedInduction

\* The order is a sequence of names.
LEMMA Orders == /\ Order \in Seq(Names) /\ Len(Order) \in Nat
                /\ \A i \in 1 .. Len(Order) : Order[i] \in Names
                /\ None \notin Names /\ None \notin Calls
BY OrderAssumption

\* A backend states a confidence, or there is none: the least of several
\* probabilities exists.
LEMMA ConfidenceType == \A payload \in Payloads : Confidence(payload) \in Levels \cup {None}
<1> TAKE payload \in Payloads
<1> DEFINE P == payload.probabilities
<1>1. payload.confidence \in Levels \cup {None} /\ P \subseteq Levels
  BY DEF Payloads
<1>2. ASSUME P # {} PROVE \E x \in P : \A y \in P : x <= y
  <2>1. P \subseteq Nat
    BY <1>1, LevelAssumption
  <2>2. PICK x \in P : \A y \in P : ~ (<<y, x>> \in OpToRel(<, Nat))
    BY <1>2, <2>1, NatLessThanWellFounded, WFMin
  <2>3. \A y \in P : ~ (y < x)
    BY <2>1, <2>2 DEF OpToRel
  <2> QED BY <2>1, <2>3
<1>3. P # {} => (CHOOSE x \in P : \A y \in P : x <= y) \in P
  BY <1>2
<1> QED BY <1>1, <1>3 DEF Confidence

-----------------------------------------------------------------------------
\* What the loop of decide adds to the outcomes.
LEMMA PassedOverSeq ==
    ASSUME NEW n \in 1 .. Len(Order) + 1, NEW k \in n .. Len(Order) + 1
    PROVE  /\ PassedOver(n, k) \in Seq(Outcomes)
           /\ Len(PassedOver(n, k)) = k - n
           /\ \A i \in 1 .. k - n : PassedOver(n, k)[i].name = Order[n + i - 1]
<1>1. k - n \in Nat
  BY Orders
<1>2. \A i \in 1 .. k - n : n + i - 1 \in 1 .. Len(Order)
  BY Orders
<1>3. \A i \in 1 .. k - n : /\ Outcome(Order[n + i - 1], "circuit open", "open") \in Outcomes
                            /\ PassedOver(n, k)[i].name = Order[n + i - 1]
  BY <1>2, Orders DEF Outcome, Outcomes, Reports, Kinds, PassedOver
<1>4. PassedOver(n, k) \in [1 .. k - n -> Outcomes]
  BY <1>3 DEF PassedOver
<1>5. \A m \in Nat : \A s \in [1 .. m -> Outcomes] : s \in Seq(Outcomes) /\ Len(s) = m
  OBVIOUS
<1> QED BY <1>1, <1>3, <1>4, <1>5

LEMMA CoversMore ==
    ASSUME NEW n \in 1 .. Len(Order) + 1, NEW k \in n .. Len(Order) + 1,
           NEW s \in Seq(Outcomes), Covers(s, n - 1)
    PROVE  /\ s \o PassedOver(n, k) \in Seq(Outcomes)
           /\ Covers(s \o PassedOver(n, k), k - 1)
<1> DEFINE p == PassedOver(n, k)
<1>1. /\ p \in Seq(Outcomes) /\ Len(p) = k - n
      /\ \A i \in 1 .. k - n : p[i].name = Order[n + i - 1]
  BY PassedOverSeq
<1> HIDE DEF p
<1>2. Len(s) = n - 1 /\ \A i \in 1 .. n - 1 : s[i].name = Order[i]
  BY DEF Covers
<1>3. s \o p \in Seq(Outcomes) /\ Len(s \o p) = k - 1
  <2>1. s \o p \in Seq(Outcomes) /\ Len(s \o p) = Len(s) + Len(p)
    BY <1>1
  <2> QED BY <1>1, <1>2, <2>1, Orders
<1>4. ASSUME NEW i \in 1 .. k - 1 PROVE (s \o p)[i].name = Order[i]
  <2>1. CASE i <= n - 1
    <3>1. (s \o p)[i] = s[i]
      BY <1>1, <1>2, <2>1, Orders
    <3> QED BY <1>2, <2>1, <3>1
  <2>2. CASE i > n - 1
    <3>1. (s \o p)[i] = p[i - (n - 1)]
      BY <1>1, <1>2, <2>2, Orders
    <3>2. i - (n - 1) \in 1 .. k - n /\ n + (i - (n - 1)) - 1 = i
      BY <2>2, Orders
    <3> QED BY <1>1, <3>1, <3>2
  <2>3. i <= n - 1 \/ i > n - 1
    BY Orders
  <2> QED BY <2>1, <2>2, <2>3
<1> QED BY <1>3, <1>4 DEF Covers, p

LEMMA CoversOneMore ==
    ASSUME NEW n \in 1 .. Len(Order), NEW s \in Seq(Outcomes), Covers(s, n - 1),
           NEW report \in Reports, NEW kind \in Kinds
    PROVE  LET t == Append(s, Outcome(Order[n], report, kind))
           IN  t \in Seq(Outcomes) /\ Covers(t, n)
<1> DEFINE o == Outcome(Order[n], report, kind)
<1>1. o \in Outcomes /\ o.name = Order[n]
  BY Orders DEF Outcome, Outcomes
<1> HIDE DEF o
<1>2. Len(s) = n - 1 /\ \A i \in 1 .. n - 1 : s[i].name = Order[i]
  BY DEF Covers
<1>3. Append(s, o) \in Seq(Outcomes) /\ Len(Append(s, o)) = n
  BY <1>1, <1>2, Orders
<1>4. ASSUME NEW i \in 1 .. n PROVE Append(s, o)[i].name = Order[i]
  BY <1>1, <1>2, Orders
<1> QED BY <1>3, <1>4 DEF Covers, o

-----------------------------------------------------------------------------
\* The two ways in which the loop of decide ends for now.
Asked(c, until) ==
    \E k \in 1 .. Len(Order), t \in Seq(Outcomes) :
       /\ Covers(t, k - 1) /\ tried' = [tried EXCEPT ![c] = t]
       /\ ~IsOpen(until, Order[k])
       /\ pc' = [pc EXCEPT ![c] = "asking"]
       /\ at' = [at EXCEPT ![c] = k]
       /\ since' = [since EXCEPT ![c] = clock]
       /\ loading' = Request(c, Order[k])
       /\ UNCHANGED result

GaveUp(c) ==
    \E t \in Seq(Outcomes) :
       /\ Covers(t, Len(Order)) /\ tried' = [tried EXCEPT ![c] = t]
       /\ pc' = [pc EXCEPT ![c] = "done"]
       /\ result' = [result EXCEPT ![c] = AllFailed]
       /\ loading' = None
       /\ Leave(c)

LEMMA GoesOn ==
    ASSUME NEW c \in Calls, NEW n \in 1 .. Len(Order) + 1,
           NEW before \in Seq(Outcomes), Covers(before, n - 1),
           NEW until, GoOn(c, n, before, until)
    PROVE  Asked(c, until) \/ GaveUp(c)
<1> DEFINE t(k) == before \o PassedOver(n, k)
<1> PICK k \in n .. Len(Order) + 1 :
       /\ tried' = [tried EXCEPT ![c] = t(k)]
       /\ \/ /\ k <= Len(Order) /\ ~IsOpen(until, Order[k])
             /\ pc' = [pc EXCEPT ![c] = "asking"]
             /\ at' = [at EXCEPT ![c] = k]
             /\ since' = [since EXCEPT ![c] = clock]
             /\ loading' = Request(c, Order[k])
             /\ UNCHANGED result
          \/ /\ k = Len(Order) + 1
             /\ pc' = [pc EXCEPT ![c] = "done"]
             /\ result' = [result EXCEPT ![c] = AllFailed]
             /\ loading' = None
             /\ Leave(c)
  BY DEF GoOn
<1>1. t(k) \in Seq(Outcomes) /\ Covers(t(k), k - 1)
  BY CoversMore
<1> HIDE DEF t
<1>2. CASE k <= Len(Order)
  <2>1. k \in 1 .. Len(Order)
    BY <1>2, Orders
  <2>2. k # Len(Order) + 1
    BY <1>2, Orders
  <2>3. Asked(c, until)
    <3> USE <1>1, <2>1 DEF Asked
    <3> WITNESS k \in 1 .. Len(Order), t(k) \in Seq(Outcomes)
    <3> QED BY <1>1, <2>2
  <2> QED BY <2>3
<1>3. CASE k = Len(Order) + 1
  <2>1. k - 1 = Len(Order)
    BY <1>3, Orders
  <2>2. ~(k <= Len(Order))
    BY <1>3, Orders
  <2>3. GaveUp(c)
    <3> USE <1>1 DEF GaveUp
    <3> WITNESS t(k) \in Seq(Outcomes)
    <3> QED BY <1>1, <2>1, <2>2
  <2> QED BY <2>3
<1> QED BY <1>2, <1>3, Orders

-----------------------------------------------------------------------------
\* What the steps do.
Begins(c) == /\ pc[c] = "idle" /\ loading = None
             /\ Asked(c, openUntil) \/ GaveUp(c)
             /\ UNCHANGED << clock, breaker, loadedAt >>

Continues(c) == /\ pc[c] = "asking" /\ loading \in {None, c}
                /\ RecordFailure(Order[at[c]])
                /\ Asked(c, openUntil') \/ GaveUp(c)
                /\ UNCHANGED << clock, loadedAt >>

LEMMA MovesOn ==
    ASSUME RouterInv, NEW c \in Calls, loading \in {None, c},
           NEW report \in Reports, NEW kind \in Kinds, MoveOn(c, report, kind)
    PROVE  Continues(c)
<1>1. /\ at[c] \in 1 .. Len(Order) /\ tried[c] \in Seq(Outcomes)
      /\ Covers(tried[c], at[c] - 1) /\ pc[c] = "asking"
  BY Orders DEF RouterInv, TypeOK, CallInv, MoveOn
<1> DEFINE t == Append(tried[c], Outcome(Order[at[c]], report, kind))
<1>2. t \in Seq(Outcomes) /\ Covers(t, at[c])
  BY <1>1, CoversOneMore
<1>3. at[c] + 1 \in 1 .. Len(Order) + 1 /\ (at[c] + 1) - 1 = at[c]
  BY <1>1, Orders
<1>4. GoOn(c, at[c] + 1, t, openUntil')
  BY DEF MoveOn
<1> HIDE DEF t
<1>5. Asked(c, openUntil') \/ GaveUp(c)
  BY <1>2, <1>3, <1>4, GoesOn
<1> QED BY <1>1, <1>5 DEF MoveOn, Continues

LEMMA Steps ==
    RouterInv /\ [Next]_vars =>
       \/ \E c \in Calls : Begins(c)
       \/ \E c \in Calls : Continues(c)
       \/ \E c \in Calls, payload \in Payloads : Answer(c, payload)
       \/ \E c \in Calls : Loaded(c)
       \/ Tick \/ UNCHANGED vars
<1> SUFFICES ASSUME RouterInv, [Next]_vars
             PROVE  \/ \E c \in Calls : Begins(c)
                    \/ \E c \in Calls : Continues(c)
                    \/ \E c \in Calls, payload \in Payloads : Answer(c, payload)
                    \/ \E c \in Calls : Loaded(c)
                    \/ Tick \/ UNCHANGED vars
  OBVIOUS
<1>1. ASSUME NEW c \in Calls, Start(c) PROVE Begins(c)
  <2>1. /\ << >> \in Seq(Outcomes) /\ Covers(<< >>, 1 - 1)
        /\ 1 \in 1 .. Len(Order) + 1
    BY Orders DEF Covers
  <2>2. Asked(c, openUntil) \/ GaveUp(c)
    BY <1>1, <2>1, GoesOn DEF Start
  <2> QED BY <1>1, <2>2 DEF Start, Begins
<1>2. ASSUME NEW c \in Calls, NEW mishap, Fail(c, mishap) PROVE Continues(c)
  BY <1>2, MovesOn DEF Fail, Waits, Classify, Reported, Reports, Kinds
<1>3. ASSUME NEW c \in Calls, TimeOut(c) PROVE Continues(c)
  BY <1>3, MovesOn DEF TimeOut, Overdue, Waits, Reports, Kinds
<1>4. ASSUME NEW c \in Calls, LoadFails(c) PROVE Continues(c)
  BY <1>4, MovesOn DEF LoadFails, Reported, Reports, Kinds
<1> QED BY <1>1, <1>2, <1>3, <1>4 DEF Next, Load

-----------------------------------------------------------------------------
LEMMA InitInv == Init => /\ RouterInv /\ ResultExplained /\ ReviewUnlessConfident
                         /\ LateOnlyByLoad
<1> SUFFICES ASSUME Init PROVE /\ RouterInv /\ ResultExplained
                               /\ ReviewUnlessConfident /\ LateOnlyByLoad
  OBVIOUS
<1> USE Orders, BreakerAssumption, LevelAssumption DEF Init
<1>1. TypeOK
  <2>1. NoResult \in [backend : Names \cup {None}, confidence : Levels \cup {None},
                      review : BOOLEAN,
                      reason : {"none", "ok", "low_confidence", "all_backends_failed"}]
    BY DEF NoResult
  <2> QED BY <2>1 DEF TypeOK
<1>2. CallInv /\ LoadInv
  BY DEF CallInv, LoadInv
<1>3. BreakerInv
  BY DEF BreakerInv, Asks
<1>4. ReviewRequired(NoResult) = NoResult.review /\ NoResult.review
  BY DEF ReviewRequired, NoResult
<1>5. ReviewUnlessConfident
  BY <1>4 DEF ReviewUnlessConfident
<1>6. ResultExplained /\ LateOnlyByLoad
  BY DEF ResultExplained, LateOnlyByLoad
<1> QED BY <1>1, <1>2, <1>3, <1>5, <1>6 DEF RouterInv

\* The results that decide returns.
LEMMA Results ==
    LET Result == [backend : Names \cup {None}, confidence : Levels \cup {None},
                   review : BOOLEAN,
                   reason : {"none", "ok", "low_confidence", "all_backends_failed"}]
    IN  /\ AllFailed \in Result /\ AllFailed.backend = None /\ AllFailed.review
        /\ ReviewRequired(AllFailed)
        /\ \A b \in Names, payload \in Payloads :
              LET r == Judge(b, Confidence(payload))
              IN  /\ r \in Result /\ r.backend = b
                  /\ ReviewRequired(r) = r.review
                  /\ ~r.review => r.confidence # None /\ r.confidence >= Threshold
<1>1. /\ AllFailed \in [backend : Names \cup {None}, confidence : Levels \cup {None},
                         review : BOOLEAN,
                         reason : {"none", "ok", "low_confidence",
                                   "all_backends_failed"}]
      /\ AllFailed.backend = None /\ AllFailed.confidence = None /\ AllFailed.review
  BY DEF AllFailed, NoResult
<1>2. ASSUME NEW b \in Names, NEW payload \in Payloads
      PROVE  LET r == Judge(b, Confidence(payload))
             IN  /\ r \in [backend : Names \cup {None}, confidence : Levels \cup {None},
                           review : BOOLEAN,
                           reason : {"none", "ok", "low_confidence",
                                     "all_backends_failed"}]
                 /\ r.backend = b
                 /\ ReviewRequired(r) = r.review
                 /\ ~r.review => r.confidence # None /\ r.confidence >= Threshold
  <2> DEFINE f == Confidence(payload)
  <2>1. f \in Levels \cup {None} /\ Levels \subseteq Nat /\ Threshold \in Nat
    BY ConfidenceType, LevelAssumption
  <2> HIDE DEF f
  <2> DEFINE low == f = None \/ f < Threshold
             r == Judge(b, f)
  <2>2. r = [backend |-> b, confidence |-> f, review |-> low,
             reason |-> IF low THEN "low_confidence" ELSE "ok"]
    BY DEF Judge
  <2>3. low \in BOOLEAN /\ (~low => f # None /\ f >= Threshold)
    BY <2>1
  <2>4. r.backend = b /\ r.confidence = f /\ r.review = low
        /\ r.reason = IF low THEN "low_confidence" ELSE "ok"
    BY <2>2
  <2> HIDE DEF low, r
  <2>5. ReviewRequired(r) = r.review
    <3>1. CASE low
      BY <2>4, <3>1, <2>3 DEF ReviewRequired
    <3>2. CASE ~low
      BY <2>4, <3>2, <2>3 DEF ReviewRequired
    <3> QED BY <3>1, <3>2
  <2>6. r \in [backend : Names \cup {None}, confidence : Levels \cup {None},
               review : BOOLEAN,
               reason : {"none", "ok", "low_confidence", "all_backends_failed"}]
    BY <2>1, <2>2, <2>3
  <2> QED BY <2>3, <2>4, <2>5, <2>6 DEF f, r
<1> QED BY <1>1, <1>2 DEF ReviewRequired

-----------------------------------------------------------------------------
\* Where a call is after a step of the loop.
LEMMA AskedFacts ==
    ASSUME TypeOK, NEW c \in Calls, NEW until, Asked(c, until)
    PROVE  \E k \in 1 .. Len(Order) :
              /\ pc'[c] = "asking" /\ at'[c] = k /\ since'[c] = clock
              /\ ~IsOpen(until, Order[k])
              /\ tried'[c] \in Seq(Outcomes) /\ Covers(tried'[c], k - 1)
              /\ loading' = Request(c, Order[k])
              /\ UNCHANGED result
              /\ \A q \in Calls \ {c} : /\ pc'[q] = pc[q] /\ at'[q] = at[q]
                                        /\ since'[q] = since[q] /\ tried'[q] = tried[q]
BY Orders DEF TypeOK, Asked

LEMMA GaveUpFacts ==
    ASSUME TypeOK, NEW c \in Calls, GaveUp(c)
    PROVE  /\ pc'[c] = "done" /\ at'[c] = 1 /\ since'[c] = 0 /\ result'[c] = AllFailed
           /\ tried'[c] \in Seq(Outcomes) /\ Covers(tried'[c], Len(Order))
           /\ loading' = None
           /\ \A q \in Calls \ {c} : /\ pc'[q] = pc[q] /\ at'[q] = at[q]
                                     /\ since'[q] = since[q] /\ tried'[q] = tried[q]
                                     /\ result'[q] = result[q]
BY DEF TypeOK, GaveUp, Leave

LEMMA AnswerFacts ==
    ASSUME TypeOK, NEW c \in Calls, NEW payload \in Payloads, Answer(c, payload)
    PROVE  /\ pc'[c] = "done" /\ at'[c] = 1 /\ since'[c] = 0
           /\ result'[c] = Judge(Order[at[c]], Confidence(payload))
           /\ UNCHANGED << clock, tried, loading, loadedAt >>
           /\ \A q \in Calls \ {c} : /\ pc'[q] = pc[q] /\ at'[q] = at[q]
                                     /\ since'[q] = since[q] /\ result'[q] = result[q]
BY DEF TypeOK, Answer, Leave

\* What a failure does to the circuit of a backend.
LEMMA FailureFacts ==
    ASSUME TypeOK, NEW b \in Names, RecordFailure(b)
    PROVE  /\ failures' \in [Names -> Nat] /\ openUntil' \in [Names -> Nat]
           /\ lastFailure' \in [Names -> Nat]
           /\ lastFailure'[b] = clock /\ failures'[b] = failures[b] + 1
           /\ openUntil'[b] = IF failures'[b] >= FailureThreshold THEN clock + OpenFor
                                                                 ELSE openUntil[b]
           /\ \A q \in Names \ {b} : /\ failures'[q] = failures[q]
                                     /\ openUntil'[q] = openUntil[q]
                                     /\ lastFailure'[q] = lastFailure[q]
BY BreakerAssumption DEF TypeOK, RecordFailure

LEMMA TypeStep == RouterInv /\ [Next]_vars => TypeOK'
<1> SUFFICES ASSUME RouterInv, [Next]_vars PROVE TypeOK'
  OBVIOUS
<1>t. TypeOK
  BY DEF RouterInv
<1> DEFINE Result == [backend : Names \cup {None}, confidence : Levels \cup {None},
                      review : BOOLEAN,
                      reason : {"none", "ok", "low_confidence", "all_backends_failed"}]
<1>1. ASSUME NEW c \in Calls, NEW until, Asked(c, until) \/ GaveUp(c)
      PROVE  /\ pc' \in [Calls -> {"idle", "asking", "done"}]
             /\ at' \in [Calls -> 1 .. Len(Order) + 1]
             /\ since' \in [Calls -> Nat]
             /\ tried' \in [Calls -> Seq(Outcomes)]
             /\ result' \in [Calls -> Result]
             /\ loading' \in Calls \cup {None}
  <2>1. CASE Asked(c, until)
    <3> PICK k \in 1 .. Len(Order), t \in Seq(Outcomes) :
           /\ tried' = [tried EXCEPT ![c] = t]
           /\ pc' = [pc EXCEPT ![c] = "asking"]
           /\ at' = [at EXCEPT ![c] = k]
           /\ since' = [since EXCEPT ![c] = clock]
           /\ loading' = Request(c, Order[k])
           /\ UNCHANGED result
      BY <2>1 DEF Asked
    <3>1. /\ pc' \in [Calls -> {"idle", "asking", "done"}]
          /\ at' \in [Calls -> 1 .. Len(Order) + 1]
          /\ since' \in [Calls -> Nat]
      <4>1. k \in 1 .. Len(Order) + 1
        BY Orders
      <4> QED BY <1>t, <4>1 DEF TypeOK
    <3>2. tried' \in [Calls -> Seq(Outcomes)] /\ result' \in [Calls -> Result]
      BY <1>t DEF TypeOK
    <3>3. loading' \in Calls \cup {None}
      BY DEF Request
    <3> QED BY <3>1, <3>2, <3>3
  <2>2. CASE GaveUp(c)
    BY <1>t, <2>2, Orders, Results DEF GaveUp, TypeOK, Leave
  <2> QED BY <1>1, <2>1, <2>2
<1>2. ASSUME NEW c \in Calls, Begins(c) PROVE TypeOK'
  BY <1>t, <1>1, <1>2 DEF TypeOK, Begins, breaker
<1>3. ASSUME NEW c \in Calls, Continues(c) PROVE TypeOK'
  <2>1. Order[at[c]] \in Names
    BY <1>3, Orders DEF Continues, RouterInv, TypeOK, CallInv
  <2>2. /\ failures' \in [Names -> Nat] /\ openUntil' \in [Names -> Nat]
        /\ lastFailure' \in [Names -> Nat]
    BY <1>t, <1>3, <2>1, FailureFacts DEF Continues
  <2> QED BY <1>t, <1>1, <1>3, <2>2 DEF TypeOK, Continues
<1>4. ASSUME NEW c \in Calls, NEW payload \in Payloads, Answer(c, payload)
      PROVE  TypeOK'
  <2>1. Order[at[c]] \in Names
    BY <1>4, Orders DEF Answer, Waits, RouterInv, TypeOK, CallInv
  <2>2. Judge(Order[at[c]], Confidence(payload)) \in Result
    BY <2>1, Results
  <2>3. result' \in [Calls -> Result]
    BY <1>t, <1>4, <2>2 DEF TypeOK, Answer
  <2>4. /\ pc' \in [Calls -> {"idle", "asking", "done"}]
        /\ at' \in [Calls -> 1 .. Len(Order) + 1]
        /\ since' \in [Calls -> Nat]
    BY <1>t, <1>4, Orders DEF TypeOK, Answer, Leave
  <2>5. /\ failures' \in [Names -> Nat] /\ openUntil' \in [Names -> Nat]
        /\ UNCHANGED << clock, lastFailure, tried, loading, loadedAt >>
    BY <1>t, <1>4 DEF TypeOK, Answer, RecordSuccess
  <2> QED BY <1>t, <2>3, <2>4, <2>5 DEF TypeOK
<1>5. ASSUME NEW c \in Calls, Loaded(c) PROVE TypeOK'
  BY <1>t, <1>5 DEF TypeOK, Loaded, breaker
<1>6. CASE Tick
  BY <1>t, <1>6 DEF TypeOK, Tick, breaker
<1>7. CASE UNCHANGED vars
  BY <1>t, <1>7 DEF TypeOK, vars, breaker
<1> QED BY <1>2, <1>3, <1>4, <1>5, <1>6, <1>7, Steps

-----------------------------------------------------------------------------
LEMMA CallStep == RouterInv /\ [Next]_vars => CallInv'
<1> SUFFICES ASSUME RouterInv, [Next]_vars PROVE CallInv'
  OBVIOUS
<1>t. TypeOK /\ CallInv
  BY DEF RouterInv
<1>n. clock \in Nat /\ since \in [Calls -> Nat]
  BY <1>t DEF TypeOK
<1>1. ASSUME NEW c \in Calls, NEW until, Asked(c, until) \/ GaveUp(c),
             pc[c] # "done", clock' = clock
      PROVE  CallInv'
  <2>1. CASE Asked(c, until)
    <3> PICK k \in 1 .. Len(Order) :
           /\ pc'[c] = "asking" /\ at'[c] = k /\ since'[c] = clock
           /\ Covers(tried'[c], k - 1)
           /\ UNCHANGED result
           /\ \A q \in Calls \ {c} : /\ pc'[q] = pc[q] /\ at'[q] = at[q]
                                     /\ since'[q] = since[q] /\ tried'[q] = tried[q]
      BY <1>t, <2>1, AskedFacts
    <3>1. k <= Len(Order) /\ clock <= clock
      BY <1>n, Orders
    <3> QED BY <1>1, <1>t, <3>1 DEF CallInv
  <2>2. CASE GaveUp(c)
    BY <1>1, <1>t, <1>n, <2>2, GaveUpFacts DEF CallInv
  <2> QED BY <1>1, <2>1, <2>2
<1>2. ASSUME NEW c \in Calls, Begins(c) \/ Continues(c) PROVE CallInv'
  BY <1>1, <1>2 DEF Begins, Continues
<1>3. ASSUME NEW c \in Calls, NEW payload \in Payloads, Answer(c, payload)
      PROVE  CallInv'
  BY <1>3, <1>t, <1>n, AnswerFacts DEF CallInv
<1>4. ASSUME NEW c \in Calls, Loaded(c) PROVE CallInv'
  BY <1>4, <1>t DEF Loaded, CallInv
<1>5. CASE Tick
  <2>1. \A c \in Calls : since[c] <= clock => since[c] <= clock + 1
    BY <1>n
  <2> QED BY <1>5, <1>t, <2>1 DEF Tick, CallInv
<1>6. CASE UNCHANGED vars
  BY <1>6, <1>t DEF vars, CallInv
<1> QED BY <1>2, <1>3, <1>4, <1>5, <1>6, Steps

\* Only a call that asks Laya while no model is loaded takes the event loop, and
\* nothing of another call happens until it gives it back.
LEMMA LoadStep == RouterInv /\ [Next]_vars => LoadInv'
<1> SUFFICES ASSUME RouterInv, [Next]_vars PROVE LoadInv'
  OBVIOUS
<1>t. TypeOK /\ LoadInv /\ clock \in Nat /\ loadedAt \in Nat
  BY DEF RouterInv, TypeOK
<1>1. ASSUME NEW c \in Calls, NEW until, Asked(c, until) \/ GaveUp(c),
             UNCHANGED << clock, loadedAt >>
      PROVE  LoadInv'
  <2>1. CASE Asked(c, until)
    <3> PICK k \in 1 .. Len(Order) :
           /\ pc'[c] = "asking" /\ at'[c] = k /\ loading' = Request(c, Order[k])
      BY <1>t, <2>1, AskedFacts
    <3> QED BY <1>1, <1>t DEF Request, LoadInv, Asks
  <2>2. CASE GaveUp(c)
    BY <1>1, <1>t, <2>2, GaveUpFacts DEF LoadInv
  <2> QED BY <1>1, <2>1, <2>2
<1>2. ASSUME NEW c \in Calls, Begins(c) \/ Continues(c) PROVE LoadInv'
  BY <1>1, <1>2 DEF Begins, Continues
<1>3. ASSUME NEW c \in Calls, NEW payload \in Payloads, Answer(c, payload)
      PROVE  LoadInv'
  BY <1>3, <1>t, AnswerFacts DEF LoadInv, Answer, Waits
<1>4. ASSUME NEW c \in Calls, Loaded(c) PROVE LoadInv'
  BY <1>4, <1>t DEF Loaded, LoadInv
<1>5. CASE Tick
  BY <1>5, <1>t DEF Tick, LoadInv, Asks
<1>6. CASE UNCHANGED vars
  BY <1>6, <1>t DEF vars, LoadInv, Asks
<1> QED BY <1>2, <1>3, <1>4, <1>5, <1>6, Steps

\* A request leaves only while the circuit is closed; what opens it later is a
\* failure at that moment.
LEMMA BreakerStep == RouterInv /\ [Next]_vars => BreakerInv'
<1> SUFFICES ASSUME RouterInv, [Next]_vars PROVE BreakerInv'
  OBVIOUS
<1>t. TypeOK /\ BreakerInv /\ CallInv
  BY DEF RouterInv
<1>n. /\ clock \in Nat /\ since \in [Calls -> Nat] /\ failures \in [Names -> Nat]
      /\ openUntil \in [Names -> Nat] /\ lastFailure \in [Names -> Nat]
  BY <1>t DEF TypeOK
<1>a. ASSUME NEW c \in Calls, NEW until, Asked(c, until) \/ GaveUp(c),
             NEW q \in Calls, NEW b \in Names, Asks(q, b)'
      PROVE  \/ since'[q] = since[q] /\ Asks(q, b)
             \/ since'[q] = clock /\ ~IsOpen(until, b)
  <2>1. CASE Asked(c, until)
    <3> PICK k \in 1 .. Len(Order) :
           /\ pc'[c] = "asking" /\ at'[c] = k /\ since'[c] = clock
           /\ ~IsOpen(until, Order[k])
           /\ \A p \in Calls \ {c} : /\ pc'[p] = pc[p] /\ at'[p] = at[p]
                                     /\ since'[p] = since[p]
      BY <1>t, <2>1, AskedFacts
    <3> QED BY <1>a DEF Asks
  <2>2. CASE GaveUp(c)
    BY <1>a, <1>t, <2>2, GaveUpFacts DEF Asks
  <2> QED BY <1>a, <2>1, <2>2
<1>1. ASSUME NEW c \in Calls, Begins(c) PROVE BreakerInv'
  <2>1. UNCHANGED << clock, failures, openUntil, lastFailure >>
    BY <1>1 DEF Begins, breaker
  <2>2. ASSUME NEW q \in Calls, NEW b \in Names, Asks(q, b)', openUntil[b] > clock
        PROVE  since'[q] <= lastFailure[b]
    BY <1>1, <1>a, <1>t, <2>2 DEF Begins, BreakerInv, IsOpen
  <2> QED BY <1>t, <2>1, <2>2 DEF BreakerInv
<1>2. ASSUME NEW c \in Calls, Continues(c) PROVE BreakerInv'
  <2> DEFINE f == Order[at[c]]
  <2>1. f \in Names
    BY <1>2, Orders DEF Continues, RouterInv, TypeOK, CallInv
  <2>2. /\ lastFailure'[f] = clock /\ failures'[f] = failures[f] + 1
        /\ openUntil'[f] = IF failures'[f] >= FailureThreshold THEN clock + OpenFor
                                                              ELSE openUntil[f]
        /\ \A b \in Names \ {f} : /\ failures'[b] = failures[b]
                                  /\ openUntil'[b] = openUntil[b]
                                  /\ lastFailure'[b] = lastFailure[b]
    BY <1>2, <1>t, <2>1, FailureFacts DEF Continues
  <2>3. clock' = clock
    BY <1>2 DEF Continues
  <2> HIDE DEF f
  <2>4. ASSUME NEW q \in Calls, NEW b \in Names, Asks(q, b)', openUntil'[b] > clock
        PROVE  since'[q] <= lastFailure'[b]
    <3>1. Asks(q, b) /\ since'[q] = since[q]
      BY <1>2, <1>a, <2>4 DEF Continues, IsOpen
    <3>2. CASE b = f
      BY <1>t, <1>n, <2>2, <3>1, <3>2 DEF CallInv
    <3>3. CASE b # f
      BY <1>t, <2>1, <2>2, <2>4, <3>1, <3>3 DEF BreakerInv
    <3> QED BY <3>2, <3>3
  <2>5. ASSUME NEW b \in Names
        PROVE  /\ failures'[b] >= FailureThreshold =>
                     openUntil'[b] = lastFailure'[b] + OpenFor
               /\ lastFailure'[b] <= clock
    BY <1>t, <1>n, <2>1, <2>2 DEF BreakerInv
  <2>6. clock > 0
    BY <1>t DEF BreakerInv
  <2> QED BY <2>3, <2>4, <2>5, <2>6 DEF BreakerInv
<1>3. ASSUME NEW c \in Calls, NEW payload \in Payloads, Answer(c, payload)
      PROVE  BreakerInv'
  <2> DEFINE f == Order[at[c]]
  <2>1. f \in Names
    BY <1>3, Orders DEF Answer, Waits, RouterInv, TypeOK, CallInv
  <2>2. /\ failures'[f] = 0 /\ openUntil'[f] = 0
        /\ \A b \in Names \ {f} : failures'[b] = failures[b] /\ openUntil'[b] = openUntil[b]
        /\ lastFailure' = lastFailure /\ clock' = clock
    BY <1>3, <1>n, <2>1 DEF Answer, RecordSuccess
  <2> HIDE DEF f
  <2>3. \A q \in Calls, b \in Names : Asks(q, b)' => Asks(q, b) /\ since'[q] = since[q]
    BY <1>3, <1>t, AnswerFacts DEF Asks
  <2> QED BY <1>t, <1>n, <2>2, <2>3, BreakerAssumption DEF BreakerInv
<1>4. ASSUME NEW c \in Calls, Loaded(c) PROVE BreakerInv'
  BY <1>4, <1>t DEF Loaded, BreakerInv, breaker, Asks
<1>5. CASE Tick
  <2>1. /\ UNCHANGED << failures, openUntil, lastFailure, pc, at, since >>
        /\ clock' = clock + 1
    BY <1>5 DEF Tick, breaker
  <2>2. \A b \in Names : /\ openUntil[b] > clock' => openUntil[b] > clock
                         /\ lastFailure[b] <= clock => lastFailure[b] <= clock'
    BY <1>n, <2>1
  <2>3. clock' > 0
    BY <1>n, <2>1
  <2>4. \A c \in Calls, b \in Names : Asks(c, b)' => Asks(c, b)
    BY <2>1 DEF Asks
  <2>5. ASSUME NEW b \in Names
        PROVE  /\ failures'[b] >= FailureThreshold =>
                     openUntil'[b] = lastFailure'[b] + OpenFor
               /\ lastFailure'[b] <= clock'
               /\ \A c \in Calls : Asks(c, b)' /\ openUntil'[b] > clock' =>
                                   since'[c] <= lastFailure'[b]
    <3>1. failures'[b] >= FailureThreshold => openUntil'[b] = lastFailure'[b] + OpenFor
      BY <1>t, <2>1 DEF BreakerInv
    <3>2. lastFailure'[b] <= clock'
      BY <1>t, <1>n, <2>1 DEF BreakerInv
    <3>3. \A c \in Calls : Asks(c, b)' /\ openUntil'[b] > clock' =>
                            since'[c] <= lastFailure'[b]
      <4> SUFFICES ASSUME NEW c \in Calls, Asks(c, b)', openUntil'[b] > clock'
                   PROVE  since'[c] <= lastFailure'[b]
        OBVIOUS
      <4>1. Asks(c, b) /\ openUntil[b] > clock
        BY <1>n, <2>1, <2>4
      <4> QED BY <1>t, <2>1, <4>1 DEF BreakerInv
    <3> QED BY <3>1, <3>2, <3>3
  <2> QED BY <2>3, <2>5 DEF BreakerInv
<1>6. CASE UNCHANGED vars
  BY <1>6, <1>t DEF vars, BreakerInv, breaker, Asks
<1> QED BY <1>1, <1>2, <1>3, <1>4, <1>5, <1>6, Steps

-----------------------------------------------------------------------------
\* The outcomes of a call grow in the order of the backends up to the one that
\* answers.
LEMMA ExplainedStep == RouterInv /\ ResultExplained /\ [Next]_vars => ResultExplained'
<1> SUFFICES ASSUME RouterInv, ResultExplained, [Next]_vars PROVE ResultExplained'
  OBVIOUS
<1>t. TypeOK /\ CallInv
  BY DEF RouterInv
<1> USE Orders DEF ResultExplained
<1>1. ASSUME NEW c \in Calls, NEW until, Asked(c, until) \/ GaveUp(c)
      PROVE  ResultExplained'
  <2>1. CASE Asked(c, until)
    <3>1. /\ pc'[c] = "asking" /\ result' = result
          /\ \A q \in Calls \ {c} : pc'[q] = pc[q] /\ tried'[q] = tried[q]
      BY <1>t, <2>1, AskedFacts
    <3> QED BY <3>1
  <2>2. CASE GaveUp(c)
    <3>1. /\ result'[c] = AllFailed /\ Covers(tried'[c], Len(Order))
          /\ \A q \in Calls \ {c} : /\ pc'[q] = pc[q] /\ tried'[q] = tried[q]
                                    /\ result'[q] = result[q]
      BY <1>t, <2>2, GaveUpFacts
    <3>2. AllFailed.backend = None
      BY Results
    <3> QED BY <3>1, <3>2 DEF Covers
  <2> QED BY <1>1, <2>1, <2>2
<1>2. ASSUME NEW c \in Calls, Begins(c) \/ Continues(c) PROVE ResultExplained'
  BY <1>1, <1>2 DEF Begins, Continues
<1>3. ASSUME NEW c \in Calls, NEW payload \in Payloads, Answer(c, payload)
      PROVE  ResultExplained'
  <2>1. at[c] \in 1 .. Len(Order) /\ Covers(tried[c], at[c] - 1)
    BY <1>3, <1>t DEF Answer, Waits, CallInv, TypeOK
  <2>2. Order[at[c]] \in Names /\ result'[c].backend = Order[at[c]]
    BY <1>3, <1>t, <2>1, AnswerFacts, Results
  <2>3. /\ tried' = tried
        /\ \A q \in Calls \ {c} : pc'[q] = pc[q] /\ result'[q] = result[q]
    BY <1>3, <1>t, AnswerFacts
  <2> QED BY <2>1, <2>2, <2>3 DEF Covers
<1>4. CASE (\E c \in Calls : Loaded(c)) \/ Tick \/ UNCHANGED vars
  BY <1>4 DEF Loaded, Tick, vars
<1> QED BY <1>2, <1>3, <1>4, Steps

\* A decision without review states a confidence that reaches the threshold.
LEMMA ReviewStep ==
    RouterInv /\ ReviewUnlessConfident /\ [Next]_vars => ReviewUnlessConfident'
<1> SUFFICES ASSUME RouterInv, ReviewUnlessConfident, [Next]_vars
             PROVE  ReviewUnlessConfident'
  OBVIOUS
<1>t. TypeOK /\ CallInv
  BY DEF RouterInv
<1> USE Orders DEF ReviewUnlessConfident
<1>1. ASSUME NEW c \in Calls, NEW until, Asked(c, until) \/ GaveUp(c)
      PROVE  ReviewUnlessConfident'
  <2>1. CASE Asked(c, until)
    <3>1. result' = result
      BY <1>t, <2>1, AskedFacts
    <3> QED BY <3>1
  <2>2. CASE GaveUp(c)
    <3>1. /\ result'[c] = AllFailed
          /\ \A q \in Calls \ {c} : result'[q] = result[q]
      BY <1>t, <2>2, GaveUpFacts
    <3>2. AllFailed.review /\ ReviewRequired(AllFailed) = AllFailed.review
      BY Results DEF ReviewRequired
    <3> QED BY <3>1, <3>2
  <2> QED BY <1>1, <2>1, <2>2
<1>2. ASSUME NEW c \in Calls, Begins(c) \/ Continues(c)
      PROVE  ReviewUnlessConfident'
  BY <1>1, <1>2 DEF Begins, Continues
<1>3. ASSUME NEW c \in Calls, NEW payload \in Payloads, Answer(c, payload)
      PROVE  ReviewUnlessConfident'
  <2>1. Order[at[c]] \in Names
    BY <1>3, <1>t DEF Answer, Waits, CallInv, TypeOK
  <2>2. /\ result'[c] = Judge(Order[at[c]], Confidence(payload))
        /\ \A q \in Calls \ {c} : result'[q] = result[q]
    BY <1>3, <1>t, AnswerFacts
  <2> DEFINE r == Judge(Order[at[c]], Confidence(payload))
  <2>3. /\ ReviewRequired(r) = r.review
        /\ r.backend = Order[at[c]]
        /\ ~r.review => r.confidence # None /\ r.confidence >= Threshold
    BY <2>1, Results
  <2> HIDE DEF r
  <2>4. result'[c] = r /\ r.backend # None
    BY <2>1, <2>2, <2>3 DEF r
  <2> QED BY <2>2, <2>3, <2>4
<1>4. CASE (\E c \in Calls : Loaded(c)) \/ Tick \/ UNCHANGED vars
  BY <1>4 DEF Loaded, Tick, vars
<1> QED BY <1>2, <1>3, <1>4, Steps

\* Time stands still at a timeout that is due, unless the load of the model has
\* the event loop; and after the load nobody has it again.
LEMMA LateStep == RouterInv /\ LateOnlyByLoad /\ [Next]_vars => LateOnlyByLoad'
<1> SUFFICES ASSUME RouterInv, LateOnlyByLoad, [Next]_vars PROVE LateOnlyByLoad'
  OBVIOUS
<1>t. TypeOK /\ LoadInv /\ CallInv
  BY DEF RouterInv
<1>n. clock \in Nat /\ since \in [Calls -> Nat] /\ loadedAt \in Nat /\ Timeout \in Nat
  BY <1>t, TimeAssumption DEF TypeOK
<1> USE DEF LateOnlyByLoad
<1>1. ASSUME NEW c \in Calls, NEW until, Asked(c, until) \/ GaveUp(c),
             UNCHANGED << clock, loadedAt >>
      PROVE  LateOnlyByLoad'
  <2>1. CASE Asked(c, until)
    <3>1. /\ since'[c] = clock
          /\ \A q \in Calls \ {c} : pc'[q] = pc[q] /\ since'[q] = since[q]
      BY <1>t, <2>1, AskedFacts
    <3>2. ~(clock > clock + Timeout)
      BY <1>n
    <3> QED BY <1>1, <3>1, <3>2
  <2>2. CASE GaveUp(c)
    BY <1>1, <1>t, <2>2, GaveUpFacts
  <2> QED BY <1>1, <2>1, <2>2
<1>2. ASSUME NEW c \in Calls, Begins(c) \/ Continues(c) PROVE LateOnlyByLoad'
  BY <1>1, <1>2 DEF Begins, Continues
<1>3. ASSUME NEW c \in Calls, NEW payload \in Payloads, Answer(c, payload)
      PROVE  LateOnlyByLoad'
  BY <1>3, <1>t, AnswerFacts
<1>4. ASSUME NEW c \in Calls, Loaded(c) PROVE LateOnlyByLoad'
  BY <1>4, <1>t DEF Loaded, CallInv
<1>5. CASE Tick
  <2>1. UNCHANGED << pc, since, loadedAt >> /\ clock' = clock + 1
    BY <1>5 DEF Tick
  <2>2. CASE loading = None
    <3>1. \A c \in Calls : pc[c] = "asking" => ~(clock >= since[c] + Timeout)
      BY <1>5, <2>2 DEF Tick, Overdue, Waits
    <3>2. \A c \in Calls : pc[c] = "asking" => ~(clock + 1 > since[c] + Timeout)
      BY <1>n, <3>1
    <3> QED BY <2>1, <3>2
  <2>3. CASE loading # None
    BY <1>t, <2>1, <2>3 DEF LoadInv
  <2> QED BY <2>2, <2>3
<1>6. CASE UNCHANGED vars
  BY <1>6 DEF vars
<1> QED BY <1>2, <1>3, <1>4, <1>5, <1>6, Steps

-----------------------------------------------------------------------------
\* The inductive invariant: requests leave only through closed circuits, each call
\* has one outcome of every backend before the one it asks, and the load of the
\* model has the event loop to itself, once.
THEOREM RouterConsistent == Spec => []RouterInv
<1>1. RouterInv /\ [Next]_vars => RouterInv'
  BY TypeStep, CallStep, LoadStep, BreakerStep DEF RouterInv
<1> QED BY InitInv, <1>1, PTL DEF Spec

\* Every result comes with the outcome of each backend before it (decide, 71 to
\* 104).
THEOREM ResultsExplained == Spec => []ResultExplained
<1>1. RouterInv /\ ResultExplained /\ [Next]_vars => ResultExplained'
  BY ExplainedStep
<1> QED BY InitInv, RouterConsistent, <1>1, PTL DEF Spec

\* The router fails closed: whatever backends state, a decision that needs no
\* review has a confidence that reaches the threshold (_apply_confidence).
THEOREM FailsClosed == Spec => []ReviewUnlessConfident
<1>1. RouterInv /\ ReviewUnlessConfident /\ [Next]_vars => ReviewUnlessConfident'
  BY ReviewStep
<1> QED BY InitInv, RouterConsistent, <1>1, PTL DEF Spec

\* No request outlives its timeout but for the one load of the model (_load).
THEOREM NoLateRequest == Spec => []LateOnlyByLoad
<1>1. RouterInv /\ LateOnlyByLoad /\ [Next]_vars => LateOnlyByLoad'
  BY LateStep
<1> QED BY InitInv, RouterConsistent, <1>1, PTL DEF Spec

\* No request goes to a backend that keeps failing, until open_seconds after its
\* latest failure (_circuit_open and _record_failure).
THEOREM FailingIsLeftAlone == Spec => LeftAlone
<1> DEFINE A == \A c \in Calls, b \in Names :
                  /\ Asks(c, b)'
                  /\ ~Asks(c, b) \/ at'[c] # at[c]
                  => failures'[b] < FailureThreshold
                     \/ lastFailure'[b] + OpenFor <= clock
<1>1. RouterInv /\ [Next]_vars => [A]_vars
  <2> SUFFICES ASSUME RouterInv, [Next]_vars, vars' # vars,
                      NEW q \in Calls, NEW b \in Names, Asks(q, b)',
                      ~Asks(q, b) \/ at'[q] # at[q], failures'[b] >= FailureThreshold
               PROVE  lastFailure'[b] + OpenFor <= clock
    <3>1. RouterInv' => failures' \in [Names -> Nat] /\ FailureThreshold \in Nat
      BY BreakerAssumption DEF RouterInv, TypeOK
    <3>2. RouterInv /\ [Next]_vars => RouterInv'
      BY TypeStep, CallStep, LoadStep, BreakerStep DEF RouterInv
    <3> QED BY <3>1, <3>2
  <2>t. TypeOK /\ clock \in Nat /\ openUntil \in [Names -> Nat]
    BY DEF RouterInv, TypeOK
  <2>i. BreakerInv' /\ TypeOK'
    BY BreakerStep, TypeStep
  <2>1. openUntil'[b] = lastFailure'[b] + OpenFor /\ openUntil'[b] \in Nat
    BY <2>i DEF BreakerInv, TypeOK
  <2>2. ASSUME NEW c \in Calls, NEW until, Asked(c, until) \/ GaveUp(c)
        PROVE  ~IsOpen(until, b)
    <3>1. CASE Asked(c, until)
      <4> PICK k \in 1 .. Len(Order) :
             /\ at'[c] = k /\ ~IsOpen(until, Order[k])
             /\ \A p \in Calls \ {c} : pc'[p] = pc[p] /\ at'[p] = at[p]
        BY <2>t, <3>1, AskedFacts
      <4> QED BY DEF Asks
    <3>2. CASE GaveUp(c)
      BY <2>t, <3>2, GaveUpFacts DEF Asks
    <3> QED BY <2>2, <3>1, <3>2
  <2>3. ASSUME ~(openUntil'[b] > clock) PROVE lastFailure'[b] + OpenFor <= clock
    BY <2>t, <2>1, <2>3
  <2>4. ASSUME NEW c \in Calls, Begins(c) PROVE lastFailure'[b] + OpenFor <= clock
    BY <2>2, <2>3, <2>4 DEF Begins, breaker, IsOpen
  <2>5. ASSUME NEW c \in Calls, Continues(c)
        PROVE  lastFailure'[b] + OpenFor <= clock
    BY <2>2, <2>3, <2>5 DEF Continues, IsOpen
  <2>6. ASSUME NEW c \in Calls, NEW payload \in Payloads, Answer(c, payload)
        PROVE  FALSE
    BY <2>t, <2>6, AnswerFacts DEF Asks
  <2>7. CASE (\E c \in Calls : Loaded(c)) \/ Tick
    BY <2>7 DEF Loaded, Tick, Asks
  <2> QED BY <2>4, <2>5, <2>6, <2>7, Steps
<1> QED BY <1>1, RouterConsistent, PTL DEF Spec, LeftAlone

\* An open circuit is closed early only by an answer to a request that left before
\* the failure that opened it (_record_success).
THEOREM NobodyProbes == Spec => EarlyCloseIsStale
<1> DEFINE A == \A b \in Names : openUntil[b] > clock /\ openUntil'[b] = 0 =>
                   \E c \in Calls : Asks(c, b) /\ since[c] <= lastFailure[b]
<1>1. RouterInv /\ [Next]_vars => [A]_vars
  <2> SUFFICES ASSUME RouterInv, [Next]_vars, NEW b \in Names,
                      openUntil[b] > clock, openUntil'[b] = 0, vars' # vars
               PROVE  \E c \in Calls : Asks(c, b) /\ since[c] <= lastFailure[b]
    OBVIOUS
  <2>t. /\ TypeOK /\ BreakerInv /\ clock \in Nat /\ clock > 0 /\ OpenFor \in Nat
        /\ openUntil \in [Names -> Nat] /\ openUntil'[b] # openUntil[b]
    BY BreakerAssumption DEF RouterInv, TypeOK, BreakerInv
  <2>1. ASSUME NEW c \in Calls, Continues(c) PROVE FALSE
    <3>1. Order[at[c]] \in Names
      BY <2>1, Orders DEF Continues, RouterInv, TypeOK, CallInv
    <3>2. openUntil'[b] \in {openUntil[b], clock + OpenFor}
      BY <2>t, <2>1, <3>1, FailureFacts DEF Continues
    <3> QED BY <2>t, <3>2
  <2>2. ASSUME NEW c \in Calls, NEW payload \in Payloads, Answer(c, payload)
        PROVE  Asks(c, b) /\ since[c] <= lastFailure[b]
    <3>1. Order[at[c]] = b /\ pc[c] = "asking"
      BY <2>t, <2>2 DEF Answer, Waits, RecordSuccess
    <3> QED BY <2>t, <3>1 DEF BreakerInv, Asks
  <2>3. CASE (\E c \in Calls : Begins(c) \/ Loaded(c)) \/ Tick
    BY <2>t, <2>3 DEF Begins, Loaded, Tick, breaker
  <2> QED BY <2>1, <2>2, <2>3, Steps
<1> QED BY <1>1, RouterConsistent, PTL DEF Spec, EarlyCloseIsStale
=============================================================================
