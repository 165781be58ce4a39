--------------------------- MODULE DecisionRouter ---------------------------
(***************************************************************************)
(* Concurrent calls of DecisionRouter.decide.  Each call walks the         *)
(* configured backends in order until one answers; all calls share one     *)
(* circuit breaker per backend name.  The calls are coroutines of one      *)
(* event loop, and decide awaits only while a backend works: what a call   *)
(* does from one backend's outcome to its next request is one step.        *)
(*                                                                         *)
(* The first request to Laya loads its model in the event loop, before the *)
(* thread starts: nothing else runs until then, timers included.           *)
(***************************************************************************)
EXTENDS Naturals, Sequences

CONSTANTS
    Names,             \* names of decision backends
    Order,             \* the configured backends, in order
    Calls,             \* the calls of decide
    FailureThreshold,  \* failures in a row that open a circuit
    OpenFor,           \* circuit_open_seconds
    Timeout,           \* timeout_seconds, of wait_for and of the HTTP client
    Mishaps,           \* what may go wrong with a request to a backend
    Levels,            \* the confidences and probabilities a backend may state
    Threshold,         \* confidence_threshold
    Laya,              \* the backend that loads a model, or None
    LoadTime,          \* bound on the time that a load takes
    None,              \* no confidence, no backend, no call
    MaxTime            \* bound on the time at which calls start

ASSUME OrderAssumption == Order \in Seq(Names) /\ None \notin Names \cup Calls
\* The service leaves failure_threshold at its default, 3.
ASSUME BreakerAssumption == FailureThreshold \in Nat \ {0} /\ OpenFor \in Nat
ASSUME TimeAssumption == Timeout \in Nat \ {0} /\ LoadTime \in Nat
                         /\ MaxTime \in Nat
ASSUME LevelAssumption == Levels \subseteq Nat /\ Threshold \in Nat
                          /\ None \notin Levels

VARIABLES
    clock,        \* time.monotonic()
    failures,     \* _failures; 0 stands for an absent entry
    openUntil,    \* _circuit_open_until; 0 stands for an absent entry
    lastFailure,  \* history: when a backend failed last
    pc,           \* "idle", "asking" or "done"
    at,           \* the position in Order of the backend a call asks, or 1
    since,        \* when the request to that backend left, or 0
    tried,        \* `failures' of decide: what became of the backends before
    result,       \* what the call returned
    loading,      \* the call that loads the model in the event loop, or None
    loadedAt      \* when the model was loaded; 0 if it has not been

breaker == << failures, openUntil, lastFailure >>
vars == << clock, breaker, pc, at, since, tried, result, loading, loadedAt >>
-----------------------------------------------------------------------------
(***************************************************************************)
(* What a backend makes of one request (decision_backends).                *)
(***************************************************************************)
AllMishaps == {"network", "http_timeout", "401", "403", "4xx", "408", "504",
               "5xx", "bad_payload"}

ASSUME MishapAssumption == Mishaps \subseteq AllMishaps

\* The exception that stands for a mishap.
Classify(mishap) == CASE mishap \in {"network", "5xx"} -> "unavailable"
                      [] mishap \in {"http_timeout", "408", "504"} -> "timeout"
                      [] mishap \in {"401", "403"} -> "auth"
                      [] OTHER -> "protocol"

\* What decide reports of that exception.
Reported(kind) == IF kind = "auth" THEN "authentication failed" ELSE "unavailable"

Payloads == [confidence : Levels \cup {None}, probabilities : SUBSET Levels]

\* The stated confidence, or else the least probability of an answer.
Confidence(payload) ==
    IF payload.confidence # None THEN payload.confidence
    ELSE IF payload.probabilities = {} THEN None
    ELSE CHOOSE x \in payload.probabilities :
            \A y \in payload.probabilities : x <= y

NoResult == [backend |-> None, confidence |-> None, review |-> TRUE,
             reason |-> "none"]

AllFailed == [NoResult EXCEPT !.reason = "all_backends_failed"]

\* Seeded fault: the sense of the comparison is lost for the absent confidence.
TrustUnlessLow(name, confidence) ==
    LET low == confidence # None /\ confidence < Threshold
    IN  [backend |-> name, confidence |-> confidence, review |-> low,
         reason |-> IF low THEN "low_confidence" ELSE "ok"]

\* _apply_confidence
Judge(name, confidence) ==
    LET low == confidence = None \/ confidence < Threshold
    IN  [backend |-> name, confidence |-> confidence, review |-> low,
         reason |-> IF low THEN "low_confidence" ELSE "ok"]

\* review_required of the MCP server.
ReviewRequired(decision) ==
    \/ decision.review
    \/ decision.reason \in {"low_confidence", "all_backends_failed"}
    \/ decision.confidence = None
-----------------------------------------------------------------------------
Init == /\ clock = 1
        /\ failures = [b \in Names |-> 0]
        /\ openUntil = [b \in Names |-> 0]
        /\ lastFailure = [b \in Names |-> 0]
        /\ pc = [c \in Calls |-> "idle"]
        /\ at = [c \in Calls |-> 1]
        /\ since = [c \in Calls |-> 0]
        /\ tried = [c \in Calls |-> << >>]
        /\ result = [c \in Calls |-> NoResult]
        /\ loading = None
        /\ loadedAt = 0

\* A call waits for its backend, and the event loop is free to notice.
Waits(c) == pc[c] = "asking" /\ loading = None

Asks(c, b) == pc[c] = "asking" /\ Order[at[c]] = b

\* Seeded fault: the circuit lets requests through a unit early.
IsOpenNearly(until, b) == until[b] > clock + 1

IsOpen(until, b) == until[b] > clock

\* Seeded fault: only the failure that reaches the threshold opens the circuit.
RecordFailureOnce(b) ==
    /\ failures' = [failures EXCEPT ![b] = @ + 1]
    /\ openUntil' = IF failures'[b] = FailureThreshold
                    THEN [openUntil EXCEPT ![b] = clock + OpenFor]
                    ELSE openUntil
    /\ lastFailure' = [lastFailure EXCEPT ![b] = clock]

RecordFailure(b) ==
    /\ failures' = [failures EXCEPT ![b] = @ + 1]
    /\ openUntil' = IF failures'[b] >= FailureThreshold
                    THEN [openUntil EXCEPT ![b] = clock + OpenFor]
                    ELSE openUntil
    /\ lastFailure' = [lastFailure EXCEPT ![b] = clock]

\* Seeded fault: a success takes back one failure.
RecordSuccessOnce(b) ==
    /\ failures' = [failures EXCEPT ![b] = @ - 1]
    /\ openUntil' = [openUntil EXCEPT ![b] = 0]
    /\ UNCHANGED lastFailure

RecordSuccess(b) ==
    /\ failures' = [failures EXCEPT ![b] = 0]
    /\ openUntil' = [openUntil EXCEPT ![b] = 0]
    /\ UNCHANGED lastFailure

Outcome(b, report, kind) == [name |-> b, report |-> report, kind |-> kind]

\* Seeded fault: a backend that is passed over leaves no trace.
NothingPassedOver(n, k) == << >>

\* The backends at the positions n to k - 1, passed over.
PassedOver(n, k) ==
    [i \in 1 .. k - n |-> Outcome(Order[n + i - 1], "circuit open", "open")]

\* The locals of decide go.
Leave(c) == at' = [at EXCEPT ![c] = 1] /\ since' = [since EXCEPT ![c] = 0]

\* Seeded fault: the loaded model is not kept.
RequestReloads(c, b) == IF b = Laya THEN c ELSE None

\* The call that has the event loop after its request to a backend: _load.
Request(c, b) == IF b = Laya /\ loadedAt = 0 THEN c ELSE None

\* The loop of decide from position n on, after the outcomes `before', while
\* the circuits are open until `until': it passes over the open ones and asks
\* the first other backend, or reports that all failed.
GoOn(c, n, before, until) ==
    \E k \in n .. Len(Order) + 1 :
       /\ \A i \in n .. k - 1 : IsOpen(until, Order[i])
       /\ tried' = [tried EXCEPT ![c] = before \o PassedOver(n, k)]
       /\ \/ /\ k <= Len(Order) /\ ~IsOpen(until, Order[k])
             /\ pc' = [pc EXCEPT ![c] = "asking"]
             /\ at' = [at EXCEPT ![c] = k]
             /\ since' = [since EXCEPT ![c] = clock]
             /\ loading' = Request(c, Order[k])
             /\ UNCHANGED result
          \/ /\ k = Len(Order) + 1
             /\ pc' = [pc EXCEPT ![c] = "done"]
             /\ result' = [result EXCEPT ![c] = AllFailed]
             /\ loading' = None
             /\ Leave(c)

Start(c) == /\ pc[c] = "idle" /\ loading = None
            /\ clock <= MaxTime
            /\ GoOn(c, 1, << >>, openUntil)
            /\ UNCHANGED << clock, breaker, loadedAt >>

\* The backend answers within the timeout.
Answer(c, payload) ==
    LET b == Order[at[c]]
    IN  /\ Waits(c)
        /\ RecordSuccess(b)
        /\ pc' = [pc EXCEPT ![c] = "done"]
        /\ result' = [result EXCEPT ![c] = Judge(b, Confidence(payload))]
        /\ Leave(c)
        /\ UNCHANGED << clock, tried, loading, loadedAt >>

\* The failure is recorded before the loop looks at the next backend.
MoveOn(c, report, kind) ==
    LET b == Order[at[c]]
    IN  /\ pc[c] = "asking"
        /\ RecordFailure(b)
        /\ GoOn(c, at[c] + 1, Append(tried[c], Outcome(b, report, kind)),
                openUntil')
        /\ UNCHANGED << clock, loadedAt >>

Fail(c, mishap) ==
    /\ Waits(c)
    /\ MoveOn(c, Reported(Classify(mishap)), Classify(mishap))

\* The model is loaded, and the thread starts.
Loaded(c) == /\ loading = c
             /\ loading' = None
             /\ loadedAt' = clock
             /\ UNCHANGED << clock, breaker, pc, at, since, tried, result >>

\* Laya is not installed, or the load fails: the next request loads again.
LoadFails(c) == /\ loading = c
                /\ \E kind \in {"unavailable", "protocol"} :
                      MoveOn(c, Reported(kind), kind)

Load(c) == Loaded(c) \/ LoadFails(c)

Overdue(c) == Waits(c) /\ clock >= since[c] + Timeout

\* Seeded fault: only the first backend is under wait_for.
TimeOutFirst(c) == /\ Overdue(c)
                   /\ at[c] = 1
                   /\ MoveOn(c, "timeout", "timeout")

\* wait_for gives up on the backend.
TimeOut(c) == /\ Overdue(c)
              /\ MoveOn(c, "timeout", "timeout")

\* Time passes, but a timer of a free event loop does not fire a unit late.
Tick == /\ clock < MaxTime \/ \E c \in Calls : pc[c] = "asking"
        /\ \A c \in Calls : ~Overdue(c)
        /\ loading # None => clock < since[loading] + LoadTime
        /\ clock' = clock + 1
        /\ UNCHANGED << breaker, pc, at, since, tried, result, loading, loadedAt >>

Next == \/ \E c \in Calls :
              \/ Start(c)
              \/ \E payload \in Payloads : Answer(c, payload)
              \/ \E mishap \in Mishaps : Fail(c, mishap)
              \/ TimeOut(c)
              \/ Load(c)
        \/ Tick

\* The clock moves, a load ends, and the loop runs the timers that are due.  No
\* backend has to answer.
Fairness == /\ WF_vars(Tick)
            /\ \A c \in Calls : WF_vars(TimeOut(c)) /\ WF_vars(Load(c))

Spec == Init /\ [][Next]_vars

FairSpec == Spec /\ Fairness
-----------------------------------------------------------------------------
Reports == {"circuit open", "timeout", "authentication failed", "unavailable"}
Kinds == {"open", "timeout", "auth", "unavailable", "protocol"}
Outcomes == [name : Names, report : Reports, kind : Kinds]

\* The values the variables take.
TypeOK ==
    /\ clock \in Nat
    /\ failures \in [Names -> Nat]
    /\ openUntil \in [Names -> Nat]
    /\ lastFailure \in [Names -> Nat]
    /\ pc \in [Calls -> {"idle", "asking", "done"}]
    /\ at \in [Calls -> 1 .. Len(Order) + 1]
    /\ since \in [Calls -> Nat]
    /\ tried \in [Calls -> Seq(Outcomes)]
    /\ result \in [Calls -> [backend : Names \cup {None},
                             confidence : Levels \cup {None},
                             review : BOOLEAN,
                             reason : {"none", "ok", "low_confidence",
                                       "all_backends_failed"}]]
    /\ loading \in Calls \cup {None}
    /\ loadedAt \in Nat

\* An outcome is explained backend by backend: everything configured before the
\* one that answered failed in this very call or had its circuit open, and "all
\* failed" means all of them, in the configured order (decide, 71 to 104).
ResultExplained ==
    \A c \in Calls : pc[c] = "done" =>
       LET n == Len(tried[c])
       IN  /\ \A i \in 1 .. n : i <= Len(Order) /\ tried[c][i].name = Order[i]
           /\ IF result[c].backend = None THEN n = Len(Order)
              ELSE n < Len(Order) /\ result[c].backend = Order[n + 1]

\* Fail closed: a decision that needs no review comes from a backend, with a
\* confidence that reaches the threshold (_apply_confidence, 52 to 66), and the
\* MCP tool judges each result as the router does.
ReviewUnlessConfident ==
    \A c \in Calls :
       /\ ReviewRequired(result[c]) = result[c].review
       /\ ~result[c].review => /\ result[c].backend # None
                               /\ result[c].confidence # None
                               /\ result[c].confidence >= Threshold

\* A backend that failed the threshold's number of times in a row is left alone
\* until open_seconds after its latest failure, also when that was a probe
\* after an earlier quiet period, or a request that was under way all along.
LeftAlone ==
    [][\A c \in Calls, b \in Names :
          /\ Asks(c, b)'
          /\ ~Asks(c, b) \/ at'[c] # at[c]
          => failures'[b] < FailureThreshold
             \/ lastFailure'[b] + OpenFor <= clock]_vars

\* A circuit closes before its time only through a request that left before
\* the failure which opened it last: nobody probes an open circuit.
EarlyCloseIsStale ==
    [][\A b \in Names : openUntil[b] > clock /\ openUntil'[b] = 0 =>
          \E c \in Calls : Asks(c, b) /\ since[c] <= lastFailure[b]]_vars

\* A backend gets no more than its timeout, but for the load of the model: once
\* that is over, no later request waits for another one (_load, decision_backends
\* 177 to 184).
LateOnlyByLoad ==
    \A c \in Calls :
       pc[c] = "asking" /\ clock > since[c] + Timeout =>
          loadedAt = 0 \/ since[c] <= loadedAt

\* No call hangs, whatever the backends do: it asks each of them once, for
\* timeout_seconds at most.
EveryCallEnds == \A c \in Calls : pc[c] = "asking" ~> pc[c] = "done"
-----------------------------------------------------------------------------
(***************************************************************************)
(* The inductive invariant behind these properties.                        *)
(***************************************************************************)
\* The outcomes of the first n backends.
Covers(outcomes, n) == /\ Len(outcomes) = n
                       /\ \A i \in 1 .. n : outcomes[i].name = Order[i]

\* A call that asks a backend has an outcome of each backend before it.
CallInv == \A c \in Calls :
              /\ pc[c] = "asking" => /\ at[c] <= Len(Order)
                                     /\ Covers(tried[c], at[c] - 1)
              /\ pc[c] # "done" => result[c] = NoResult
              /\ since[c] <= clock

\* The event loop is held only by a call that asks Laya for the first time.
LoadInv == /\ loadedAt <= clock
           /\ loading # None => loadedAt = 0 /\ Asks(loading, Laya)

\* A backend that keeps failing has a circuit that follows its latest failure; a
\* request to a backend whose circuit is open left before that.
BreakerInv ==
    /\ clock > 0
    /\ \A b \in Names :
          /\ failures[b] >= FailureThreshold => openUntil[b] = lastFailure[b] + OpenFor
          /\ lastFailure[b] <= clock
          /\ \A c \in Calls :
                Asks(c, b) /\ openUntil[b] > clock => since[c] <= lastFailure[b]

RouterInv == TypeOK /\ CallInv /\ LoadInv /\ BreakerInv
=============================================================================
