-------------------------- MODULE ChatServiceProofs --------------------------
(***************************************************************************)
(* Proofs about ChatService, for every set of providers, agents, chats and *)
(* conversations, whatever the providers raise and however often the       *)
(* configuration is edited.                                                *)
(***************************************************************************)
EXTENDS ChatService, FiniteSetTheorems, TLAPS

Stored == [chat : Chats, role : {"user", "assistant"}]

\* What one more message makes of a conversation.
LEMMA Appended ==
    ASSUME NEW s \in Seq(Stored), NEW m \in Stored
    PROVE  Append(s, m) \in Seq(Stored) /\ ToSet(Append(s, m)) = ToSet(s) \cup {m}
<1> DEFINE t == Append(s, m)
<1>1. /\ t \in Seq(Stored) /\ Len(t) = Len(s) + 1 /\ Len(s) \in Nat
      /\ \A i \in 1 .. Len(s) : t[i] = s[i]
      /\ t[Len(s) + 1] = m
      /\ DOMAIN s = 1 .. Len(s) /\ DOMAIN t = 1 .. Len(s) + 1
  OBVIOUS
<1> HIDE DEF t
<1>2. ASSUME NEW x \in ToSet(t) PROVE x \in ToSet(s) \cup {m}
  <2>1. PICK i \in 1 .. Len(s) + 1 : x = t[i]
    BY <1>1, <1>2 DEF ToSet
  <2>2. i \in 1 .. Len(s) \/ i = Len(s) + 1
    BY <1>1
  <2> QED BY <1>1, <2>1, <2>2 DEF ToSet
<1>3. ASSUME NEW x \in ToSet(s) PROVE x \in ToSet(t)
  <2>1. PICK i \in 1 .. Len(s) : x = s[i]
    BY <1>1, <1>3 DEF ToSet
  <2>2. i \in DOMAIN t /\ x = t[i]
    BY <1>1, <2>1
  <2> QED BY <2>2 DEF ToSet
<1>4. m \in ToSet(t)
  <2>1. Len(s) + 1 \in DOMAIN t
    BY <1>1
  <2> QED BY <1>1, <2>1 DEF ToSet
<1> QED BY <1>1, <1>2, <1>3, <1>4 DEF t

LEMMA EmptyRange == ToSet(<< >>) = {}
BY DEF ToSet

LEMMA HasIs == \A k, m : Log!Has(k, m) <=> m \in ToSet(messages[k])
BY DEF Log!Has, Log!ToSet, ToSet

\* Its effect on the table.
LEMMA Logged ==
    ASSUME TypeOK, NEW k \in Conversations, NEW m \in Stored, AppendMessage(k, m)
    PROVE  /\ messages' \in [Conversations -> Seq(Stored)]
           /\ \A j \in Conversations : \A x : Log!Has(j, x)' <=> Log!Has(j, x) \/ (j = k /\ x = m)
<1>1. messages \in [Conversations -> Seq(Stored)]
  BY DEF TypeOK, Stored
<1>2. messages' = [messages EXCEPT ![k] = Append(messages[k], m)]
  BY DEF AppendMessage
<1>3. /\ Append(messages[k], m) \in Seq(Stored)
      /\ ToSet(Append(messages[k], m)) = ToSet(messages[k]) \cup {m}
  BY <1>1, Appended
<1>4. /\ messages'[k] = Append(messages[k], m)
      /\ \A j \in Conversations \ {k} : messages'[j] = messages[j]
      /\ messages' \in [Conversations -> Seq(Stored)]
  BY <1>1, <1>2, <1>3
<1>5. \A j \in Conversations : ToSet(messages'[j]) =
            IF j = k THEN ToSet(messages[j]) \cup {m} ELSE ToSet(messages[j])
  BY <1>3, <1>4
<1>6. \A j \in Conversations : \A x : Log!Has(j, x)' <=> x \in ToSet(messages'[j])
  BY DEF Log!Has, Log!ToSet, ToSet
<1>7. \A j \in Conversations : \A x : Log!Has(j, x) <=> x \in ToSet(messages[j])
  BY HasIs
<1> QED BY <1>4, <1>5, <1>6, <1>7

LEMMA Messages ==
    ASSUME NEW c \in Chats
    PROVE  /\ Question(c) \in Stored /\ Reply(c) \in Stored
           /\ Log!Question(c) = Question(c) /\ Log!Reply(c) = Reply(c)
           /\ \A d \in Chats : /\ Question(c) # Reply(d)
                               /\ Question(c) = Question(d) => c = d
                               /\ Reply(c) = Reply(d) => c = d
BY DEF Question, Reply, Stored, Log!Question, Log!Reply

-----------------------------------------------------------------------------
\* The order a chat reads is a plan.
LEMMA Planned ==
    ASSUME TypeOK, NEW a, NEW order \in Orders(a)
    PROVE  /\ Snapshot(order) \in Plans
           /\ Len(Snapshot(order)) \in Nat
           /\ \A i \in 1 .. Len(Snapshot(order)) :
                 config[Snapshot(order)[i].id].secret = Snapshot(order)[i].secret
<1>1. Enabled \subseteq Providers
  BY DEF Enabled
<1>2. Cardinality(Enabled) \in Nat
  BY <1>1, RankAssumption, FS_Subset, FS_CardinalityType
<1>3. order \in [1 .. Cardinality(Enabled) -> Enabled]
  BY DEF Orders
<1>4. order \in Seq(Providers) /\ Len(order) \in Nat
  BY <1>1, <1>2, <1>3
<1>5. \A i \in 1 .. Len(order) :
         /\ order[i] \in Providers /\ config[order[i]].secret \in 0 .. MaxEdits + 1
         /\ [id |-> order[i], secret |-> config[order[i]].secret]
               \in [id : Providers, secret : 0 .. MaxEdits + 1]
  BY <1>4 DEF TypeOK, Row
<1>6. /\ Len(Snapshot(order)) = Len(order)
      /\ \A i \in 1 .. Len(order) :
            Snapshot(order)[i] = [id |-> order[i], secret |-> config[order[i]].secret]
  BY <1>4 DEF Snapshot
<1>7. Snapshot(order) \in Plans
  BY <1>4, <1>5 DEF Snapshot, Plans
<1> DEFINE s == Snapshot(order)
<1>8. Len(s) = Len(order) /\ s \in Plans
  BY <1>6, <1>7
<1>9. ASSUME NEW i \in 1 .. Len(s) PROVE config[s[i].id].secret = s[i].secret
  <2>1. s[i] = [id |-> order[i], secret |-> config[order[i]].secret]
    BY <1>6, <1>8
  <2> HIDE DEF s
  <2> QED BY <2>1
<1> QED BY <1>4, <1>8, <1>9

\* Where the loop over the providers leaves a chat.
LEMMA WentOn ==
    ASSUME TypeOK, NEW c \in Chats, NEW n \in Nat \ {0}, GoOn(c, n),
           plan' \in [Chats -> Plans], n <= Len(plan'[c]) + 1
    PROVE  /\ at' \in [Chats -> Nat \ {0}] /\ at'[c] = n
           /\ pc' \in [Chats -> InFlight \cup Ended \cup {"idle"}]
           /\ \A d \in Chats \ {c} : at'[d] = at[d] /\ pc'[d] = pc[d]
           /\ \/ n <= Len(plan'[c]) /\ pc'[c] = "listed" /\ running' = c
              \/ pc'[c] = "failed" /\ running' = None
BY DEF TypeOK, GoOn, Goto, InFlight, Ended

\* How a chat begins.
LEMMA Begun ==
    ASSUME TypeOK, NEW c \in Chats, NEW k \in Conversations, NEW a, Begin(c, k, a)
    PROVE  /\ pc[c] = "idle" /\ running = None
           /\ conv' = [conv EXCEPT ![c] = k]
           /\ AppendMessage(k, Question(c))
           /\ UNCHANGED << setup, key, shown, crashes >>
           /\ plan' \in [Chats -> Plans]
           /\ \A d \in Chats \ {c} : /\ plan'[d] = plan[d] /\ at'[d] = at[d]
                                     /\ pc'[d] = pc[d] /\ conv'[d] = conv[d]
           /\ conv'[c] = k
           /\ at' \in [Chats -> Nat \ {0}] /\ at'[c] = 1
           /\ pc' \in [Chats -> InFlight \cup Ended \cup {"idle"}]
           /\ Len(plan'[c]) \in Nat
           /\ \/ /\ 1 <= Len(plan'[c]) /\ pc'[c] = "listed" /\ running' = c
                 /\ config[plan'[c][1].id].secret = plan'[c][1].secret
              \/ pc'[c] = "failed" /\ running' = None
<1>1. /\ pc[c] = "idle" /\ running = None
      /\ conv' = [conv EXCEPT ![c] = k]
      /\ AppendMessage(k, Question(c)) /\ GoOn(c, 1)
      /\ UNCHANGED << setup, key, shown, crashes >>
  BY DEF Begin, Resumes
<1>2. PICK order \in Orders(a) : plan' = [plan EXCEPT ![c] = Snapshot(order)]
  BY DEF Begin
<1> DEFINE s == Snapshot(order)
<1>3. /\ s \in Plans /\ Len(s) \in Nat
      /\ \A i \in 1 .. Len(s) : config[s[i].id].secret = s[i].secret
  BY Planned
<1>4. plan' = [plan EXCEPT ![c] = s]
  BY <1>2
<1> HIDE DEF s
<1>5. /\ plan' \in [Chats -> Plans] /\ plan'[c] = s
      /\ \A d \in Chats \ {c} : plan'[d] = plan[d]
  BY <1>3, <1>4 DEF TypeOK
<1>6. /\ at' \in [Chats -> Nat \ {0}] /\ at'[c] = 1
      /\ pc' \in [Chats -> InFlight \cup Ended \cup {"idle"}]
      /\ \A d \in Chats \ {c} : at'[d] = at[d] /\ pc'[d] = pc[d]
      /\ \/ 1 <= Len(plan'[c]) /\ pc'[c] = "listed" /\ running' = c
         \/ pc'[c] = "failed" /\ running' = None
  BY <1>1, <1>3, <1>5, WentOn
<1>7. /\ conv'[c] = k /\ \A d \in Chats \ {c} : conv'[d] = conv[d]
  BY <1>1 DEF TypeOK
<1>8. 1 <= Len(s) => config[s[1].id].secret = s[1].secret
  BY <1>3
<1> QED BY <1>1, <1>3, <1>5, <1>6, <1>7, <1>8

-----------------------------------------------------------------------------
LEMMA InitInv == Init => ChatInv /\ KeyOfRevision
<1> SUFFICES ASSUME Init PROVE ChatInv /\ KeyOfRevision
  OBVIOUS
<1> USE BoundAssumption, ConversationAssumption DEF Init
<1>1. TypeOK
  BY DEF TypeOK, Row, Plans, InFlight
<1>2. LoopInv
  BY DEF LoopInv
<1>3. StoredInv
  <2>1. \A k \in Conversations : \A m : ~Log!Has(k, m)
    BY EmptyRange, HasIs
  <2> QED BY <2>1 DEF StoredInv, Log!Asked, Log!Answered, InFlight
<1>4. SecretInv /\ KeyOfRevision
  BY DEF SecretInv, KeyOfRevision
<1> QED BY <1>1, <1>2, <1>3, <1>4 DEF ChatInv

\* What one chat does.
ChatStep(c) == Start(c) \/ Run(c)

LEMMA Edits ==
    ASSUME TypeOK, Reconfigure
    PROVE  /\ config' \in [Providers -> Row]
           /\ agents' \in [Agents -> {"enabled", "disabled", "deleted"}]
           /\ edits' \in 0 .. MaxEdits
           /\ UNCHANGED << messages, owned, pc, choice, at, key, running, shown, crashes >>
           /\ \A p \in Providers : \/ running = None
                                   \/ config'[p] = config[p]
                                   \/ config'[p].secret = 0
<1> USE BoundAssumption DEF Reconfigure, Edited
<1>1. ASSUME NEW p \in Providers, NEW enabled \in BOOLEAN, NEW typed \in BOOLEAN,
             SaveProvider(p, enabled, typed)
      PROVE  /\ config' \in [Providers -> Row] /\ UNCHANGED agents /\ running = None
             /\ Edited
  <2>1. [enabled |-> enabled, secret |-> IF typed THEN edits + 2 ELSE 0] \in Row
    BY <1>1 DEF SaveProvider, EditProvider, TypeOK, Row
  <2> QED BY <1>1, <2>1 DEF SaveProvider, EditProvider, TypeOK
<1>2. ASSUME NEW p \in Providers, DeleteProvider(p)
      PROVE  /\ config' \in [Providers -> Row] /\ UNCHANGED agents /\ Edited
             /\ \A q \in Providers : config'[q] = config[q] \/ config'[q].secret = 0
  <2>1. Deleted \in Row /\ Deleted.secret = 0
    BY DEF Deleted, Row
  <2>2. config' = [config EXCEPT ![p] = Deleted] /\ UNCHANGED agents /\ Edited
    BY <1>2 DEF DeleteProvider, EditProvider
  <2> QED BY <2>1, <2>2 DEF TypeOK
<1>3. ASSUME NEW a \in Agents,
             \/ \E status \in {"enabled", "disabled"} : SaveAgent(a, status)
             \/ DeleteAgent(a)
      PROVE  /\ agents' \in [Agents -> {"enabled", "disabled", "deleted"}]
             /\ UNCHANGED config /\ Edited
  BY <1>3 DEF SaveAgent, DeleteAgent, EditAgent, TypeOK
<1>4. Edited => /\ edits' \in 0 .. MaxEdits
                /\ UNCHANGED << messages, owned, pc, choice, at, key, running, shown,
                                crashes >>
  BY DEF TypeOK
<1> QED BY <1>1, <1>2, <1>3, <1>4 DEF TypeOK

LEMMA TypeStep == TypeOK /\ LoopInv /\ StoredInv /\ [Next]_vars => TypeOK'
<1> SUFFICES ASSUME TypeOK, LoopInv, StoredInv, [Next]_vars PROVE TypeOK'
  OBVIOUS
<1> USE DEF tables, setup, choice
<1>p. \A c \in Chats : Len(plan[c]) \in Nat
  BY DEF TypeOK, Plans
<1>1. ASSUME NEW c \in Chats, NEW k \in Conversations, NEW a, Begin(c, k, a),
             owned' \subseteq Conversations
      PROVE  TypeOK'
  <2>1. /\ pc[c] = "idle" /\ AppendMessage(k, Question(c))
        /\ conv' = [conv EXCEPT ![c] = k]
        /\ UNCHANGED << setup, key, shown, crashes >>
        /\ plan' \in [Chats -> Plans]
        /\ \A d \in Chats \ {c} : /\ plan'[d] = plan[d] /\ at'[d] = at[d]
                                  /\ pc'[d] = pc[d]
        /\ at' \in [Chats -> Nat \ {0}] /\ at'[c] = 1
        /\ pc' \in [Chats -> InFlight \cup Ended \cup {"idle"}]
        /\ Len(plan'[c]) \in Nat
        /\ \/ 1 <= Len(plan'[c]) /\ pc'[c] = "listed" /\ running' = c
           \/ pc'[c] = "failed" /\ running' = None
    BY <1>1, Begun
  <2>2. messages' \in [Conversations -> Seq(Stored)]
    BY <2>1, Logged, Messages
  <2>3. \A d \in Chats : /\ at'[d] <= Len(plan'[d]) + 1
                         /\ pc'[d] \in InFlight => at'[d] <= Len(plan'[d])
    <3>1. 1 <= Len(plan'[c]) + 1
      BY <2>1
    <3> QED BY <2>1, <3>1 DEF TypeOK, InFlight
  <2> QED BY <1>1, <2>1, <2>2, <2>3 DEF TypeOK, Stored
<1>2. ASSUME NEW c \in Chats, Start(c) PROVE TypeOK'
  <2>1. ASSUME NEW k \in Conversations, NEW a, Create(c, k, a) \/ Continue(c, k, a)
        PROVE  TypeOK'
    <3>1. Begin(c, k, a) /\ owned' \subseteq Conversations
      BY <2>1 DEF Create, Continue, TypeOK
    <3> QED BY <1>1, <3>1
  <2>2. ASSUME NEW k \in Conversations, NEW wish, Refuse(c, k, wish) PROVE TypeOK'
    BY <2>2 DEF Refuse, Goto, TypeOK, InFlight, Ended
  <2> QED BY <1>2, <2>1, <2>2 DEF Start
\* A step that takes a chat on without the loop over the providers.
<1>3. ASSUME NEW c \in Chats, NEW step \in InFlight \cup Ended, Goto(c, step),
             pc[c] \in InFlight,
             UNCHANGED << setup, owned, choice, at, crashes >>,
             messages' \in [Conversations -> Seq(Stored)],
             key' \in [Chats -> 0 .. MaxEdits + 1],
             running' \in Chats \cup {None}, shown' \subseteq Chats
      PROVE  TypeOK'
  <2>1. /\ pc' \in [Chats -> InFlight \cup Ended \cup {"idle"}]
        /\ \A d \in Chats : pc'[d] \in InFlight => pc[d] \in InFlight
    BY <1>3 DEF Goto, TypeOK
  <2> QED BY <1>3, <2>1 DEF TypeOK, Stored
<1>4. ASSUME NEW c \in Chats, Ask(c) PROVE TypeOK'
  <2>1. at[c] \in 1 .. Len(plan[c])
    BY <1>4, <1>p DEF Ask, TypeOK, InFlight
  <2>2. plan[c][at[c]].id \in Providers
    <3> DEFINE S == [id : Providers, secret : 0 .. MaxEdits + 1]
    <3>1. plan[c] \in Seq(S)
      BY DEF TypeOK, Plans
    <3> HIDE DEF S
    <3>2. plan[c][at[c]] \in S
      BY <2>1, <3>1
    <3> QED BY <3>2 DEF S
  <2>3. key' \in [Chats -> 0 .. MaxEdits + 1]
    BY <1>4, <2>2 DEF Ask, TypeOK, Row
  <2> QED BY <1>3, <1>4, <2>3 DEF Ask, InFlight, TypeOK, Stored
<1>5. ASSUME NEW c \in Chats, Returns(c) PROVE TypeOK'
  <2>1. conv[c] \in Conversations /\ pc[c] = "asking"
    BY <1>5 DEF Returns, Resumes, StoredInv, InFlight
  <2>2. messages' \in [Conversations -> Seq(Stored)]
    BY <1>5, <2>1, Logged, Messages DEF Returns
  <2> QED BY <1>3, <1>5, <2>1, <2>2 DEF Returns, InFlight, TypeOK
<1>6. ASSUME NEW c \in Chats, FallsBack(c) PROVE TypeOK'
  <2>1. /\ pc[c] = "asking" /\ UNCHANGED << tables, choice, key, shown, crashes >>
        /\ GoOn(c, at[c] + 1)
    BY <1>6 DEF FallsBack, Resumes
  <2>2. at[c] + 1 \in Nat \ {0} /\ at[c] + 1 <= Len(plan'[c]) + 1
    BY <1>p, <2>1 DEF TypeOK, InFlight
  <2>3. plan' \in [Chats -> Plans]
    BY <2>1 DEF TypeOK
  <2>4. /\ at' \in [Chats -> Nat \ {0}] /\ at'[c] = at[c] + 1
        /\ pc' \in [Chats -> InFlight \cup Ended \cup {"idle"}]
        /\ \A d \in Chats \ {c} : at'[d] = at[d] /\ pc'[d] = pc[d]
        /\ \/ at[c] + 1 <= Len(plan'[c]) /\ pc'[c] = "listed" /\ running' = c
           \/ pc'[c] = "failed" /\ running' = None
    BY <2>1, <2>2, <2>3, WentOn
  <2>5. \A d \in Chats : /\ at'[d] <= Len(plan'[d]) + 1
                         /\ pc'[d] \in InFlight => at'[d] <= Len(plan'[d])
    BY <2>1, <2>2, <2>4 DEF TypeOK, InFlight
  <2> QED BY <2>1, <2>4, <2>5 DEF TypeOK
<1>7. ASSUME NEW c \in Chats, Escapes(c) \/ Cancel(c) PROVE TypeOK'
  BY <1>3, <1>7 DEF Escapes, Cancel, Resumes, InFlight, Ended, TypeOK, Stored
<1>8. ASSUME NEW c \in Chats, Deliver(c) PROVE TypeOK'
  BY <1>3, <1>8 DEF Deliver, InFlight, Ended, TypeOK, Stored
<1>9. CASE Reconfigure
  BY <1>9, Edits DEF TypeOK
<1>10. ASSUME NEW k \in Conversations, NewConversation(k) PROVE TypeOK'
  BY <1>10 DEF NewConversation, TypeOK
<1>11. CASE Crash
  <2>1. /\ pc' \in [Chats -> InFlight \cup Ended \cup {"idle"}]
        /\ \A c \in Chats : pc'[c] \notin InFlight
    BY <1>11 DEF Crash, TypeOK, InFlight, Ended
  <2>2. crashes' \in 0 .. MaxCrashes
    BY <1>11, BoundAssumption DEF Crash, TypeOK
  <2> QED BY <1>11, <2>1, <2>2 DEF Crash, TypeOK
<1>12. CASE UNCHANGED vars
  BY <1>12 DEF vars, TypeOK
<1> QED BY <1>2, <1>4, <1>5, <1>6, <1>7, <1>8, <1>9, <1>10, <1>11, <1>12
        DEF Next, Run, Raise

-----------------------------------------------------------------------------
\* What a chat's step means for the other chats and for its own place.
LEMMA OthersWait ==
    ASSUME TypeOK, LoopInv, StoredInv, NEW c \in Chats, ChatStep(c)
    PROVE  /\ \A d \in Chats \ {c} : /\ pc'[d] = pc[d] /\ conv'[d] = conv[d]
                                     /\ plan'[d] = plan[d] /\ at'[d] = at[d]
                                     /\ key'[d] = key[d]
           /\ UNCHANGED config
           /\ \/ pc'[c] = "listed" /\ running' = c /\ running = None
              \/ pc'[c] # "listed" /\ running' = None /\ running = c
              \/ pc'[c] # "listed" /\ pc[c] # "listed" /\ running' = running
              \/ pc'[c] # "listed" /\ running = None /\ running' = None
<1> USE DEF tables, setup, choice
<1>1. CASE Start(c)
  <2>1. PICK k \in Conversations, wish \in Agents \cup {None} :
           \/ \E a \in Resolve(wish) : Create(c, k, a) \/ Continue(c, k, a)
           \/ Refuse(c, k, wish)
    BY <1>1 DEF Start
  <2>2. ASSUME NEW a, Create(c, k, a) \/ Continue(c, k, a)
        PROVE  /\ \A d \in Chats \ {c} : /\ pc'[d] = pc[d] /\ conv'[d] = conv[d]
                                         /\ plan'[d] = plan[d] /\ at'[d] = at[d]
               /\ UNCHANGED << config, key >> /\ running = None
               /\ \/ pc'[c] = "listed" /\ running' = c
                  \/ pc'[c] # "listed" /\ running' = None
    <3>1. Begin(c, k, a)
      BY <2>2 DEF Create, Continue
    <3> QED BY <3>1, Begun
  <2>3. CASE Refuse(c, k, wish)
    BY <2>3 DEF Refuse, Resumes, Goto, TypeOK
  <2> QED BY <2>1, <2>2, <2>3
<1>2. CASE Ask(c)
  BY <1>2 DEF Ask, Goto, TypeOK
<1>3. CASE Returns(c) \/ Escapes(c) \/ Cancel(c) \/ Deliver(c)
  BY <1>3 DEF Returns, Escapes, Cancel, Deliver, Resumes, Goto, TypeOK
<1>4. CASE FallsBack(c)
  <2>1. /\ UNCHANGED << tables, choice, key >> /\ running = None
        /\ \A d \in Chats \ {c} : at'[d] = at[d] /\ pc'[d] = pc[d]
        /\ \/ pc'[c] = "listed" /\ running' = c
           \/ pc'[c] # "listed" /\ running' = None
    BY <1>4 DEF FallsBack, Resumes, GoOn, Goto, TypeOK
  <2> QED BY <2>1
<1> QED BY <1>1, <1>2, <1>3, <1>4 DEF ChatStep, Run, Raise

LEMMA LoopStep == ChatInv /\ [Next]_vars => LoopInv'
<1> SUFFICES ASSUME ChatInv, [Next]_vars PROVE LoopInv'
  OBVIOUS
<1>t. TypeOK /\ LoopInv /\ StoredInv /\ None \notin Chats
  BY ConversationAssumption DEF ChatInv
<1>1. ASSUME NEW c \in Chats, ChatStep(c) PROVE LoopInv'
  <2>1. /\ \A d \in Chats \ {c} : pc'[d] = pc[d]
        /\ \/ pc'[c] = "listed" /\ running' = c /\ running = None
           \/ pc'[c] # "listed" /\ running' = None /\ running = c
           \/ pc'[c] # "listed" /\ pc[c] # "listed" /\ running' = running
           \/ pc'[c] # "listed" /\ running = None /\ running' = None
    BY <1>1, <1>t, OthersWait
  <2> QED BY <1>t, <2>1 DEF LoopInv
<1>2. CASE Reconfigure
  BY <1>2, <1>t, Edits DEF LoopInv
<1>3. ASSUME NEW k \in Conversations, NewConversation(k) PROVE LoopInv'
  BY <1>3, <1>t DEF NewConversation, LoopInv
<1>4. CASE Crash
  <2>1. running' = None /\ \A c \in Chats : pc'[c] # "listed"
    BY <1>4 DEF Crash, InFlight
  <2> QED BY <1>t, <2>1 DEF LoopInv
<1>5. CASE UNCHANGED vars
  BY <1>5, <1>t DEF vars, LoopInv
<1> QED BY <1>1, <1>2, <1>3, <1>4, <1>5 DEF Next, ChatStep

LEMMA SecretStep == ChatInv /\ [Next]_vars => SecretInv'
<1> SUFFICES ASSUME ChatInv, [Next]_vars PROVE SecretInv'
  OBVIOUS
<1>t. TypeOK /\ LoopInv /\ StoredInv /\ SecretInv /\ None \notin Chats
  BY ConversationAssumption DEF ChatInv
<1> USE DEF tables, setup, choice
\* The steps of a chat: only the one that begins is at its first provider.
<1>1. ASSUME NEW c \in Chats, ChatStep(c),
             pc'[c] = "listed" /\ at'[c] = 1 =>
                config[plan'[c][1].id].secret \in {plan'[c][1].secret, 0}
      PROVE  SecretInv'
  <2>1. /\ UNCHANGED config
        /\ \A d \in Chats \ {c} : /\ pc'[d] = pc[d] /\ plan'[d] = plan[d]
                                  /\ at'[d] = at[d]
    BY <1>1, <1>t, OthersWait
  <2> QED BY <1>1, <1>t, <2>1 DEF SecretInv
<1>2. ASSUME NEW c \in Chats, Start(c) PROVE SecretInv'
  <2>1. PICK k \in Conversations, wish \in Agents \cup {None} :
           \/ \E a \in Resolve(wish) : Create(c, k, a) \/ Continue(c, k, a)
           \/ Refuse(c, k, wish)
    BY <1>2 DEF Start
  <2>2. ASSUME NEW a, Create(c, k, a) \/ Continue(c, k, a)
        PROVE  pc'[c] = "listed" =>
                  config[plan'[c][1].id].secret = plan'[c][1].secret
    <3>1. Begin(c, k, a)
      BY <2>2 DEF Create, Continue
    <3> QED BY <1>t, <3>1, Begun
  <2>3. CASE Refuse(c, k, wish)
    <3>1. pc'[c] = "failed"
      BY <1>t, <2>3 DEF Refuse, Goto, TypeOK
    <3> QED BY <1>1, <1>2, <3>1 DEF ChatStep
  <2> QED BY <1>1, <1>2, <2>1, <2>2, <2>3 DEF ChatStep
<1>3. ASSUME NEW c \in Chats,
             Ask(c) \/ Returns(c) \/ Escapes(c) \/ Cancel(c) \/ Deliver(c)
      PROVE  SecretInv'
  <2>1. pc'[c] # "listed"
    BY <1>3, <1>t DEF Ask, Returns, Escapes, Cancel, Deliver, Goto, TypeOK
  <2>2. /\ UNCHANGED << config, plan, at >>
        /\ \A d \in Chats \ {c} : pc'[d] = pc[d]
    BY <1>3, <1>t DEF Ask, Returns, Escapes, Cancel, Deliver, Goto, TypeOK
  <2> QED BY <1>t, <2>1, <2>2 DEF SecretInv
<1>4. ASSUME NEW c \in Chats, FallsBack(c) PROVE SecretInv'
  <2>1. /\ UNCHANGED << config, plan >> /\ at'[c] = at[c] + 1 /\ at[c] \in Nat \ {0}
        /\ \A d \in Chats \ {c} : at'[d] = at[d] /\ pc'[d] = pc[d]
    BY <1>4, <1>t DEF FallsBack, GoOn, Goto, TypeOK
  <2>2. at'[c] # 1
    BY <2>1
  <2> QED BY <1>t, <2>1, <2>2 DEF SecretInv
<1>5. CASE Reconfigure
  <2>1. /\ UNCHANGED << pc, plan, at, running >>
        /\ \A p \in Providers : running = None \/ config'[p] = config[p]
                                   \/ config'[p].secret = 0
    BY <1>5, <1>t, Edits
  <2>2. ASSUME NEW c \in Chats, pc[c] = "listed", at[c] = 1
        PROVE  config'[plan[c][1].id].secret \in {plan[c][1].secret, 0}
    <3>1. running = c
      BY <1>t, <2>2 DEF LoopInv
    <3>2. plan[c][1].id \in Providers
      <4> DEFINE S == [id : Providers, secret : 0 .. MaxEdits + 1]
      <4>0. at[c] <= Len(plan[c])
        BY <1>t, <2>2 DEF TypeOK, InFlight
      <4>1. plan[c] \in Seq(S)
        BY <1>t DEF TypeOK, Plans
      <4> HIDE DEF S
      <4>2. plan[c][1] \in S
        BY <2>2, <4>0, <4>1
      <4> QED BY <4>2 DEF S
    <3>3. config[plan[c][1].id].secret \in {plan[c][1].secret, 0}
      BY <1>t, <2>2 DEF SecretInv
    <3> QED BY <1>t, <2>1, <3>1, <3>2, <3>3
  <2> QED BY <2>1, <2>2 DEF SecretInv
<1>6. ASSUME NEW k \in Conversations, NewConversation(k) PROVE SecretInv'
  BY <1>6, <1>t DEF NewConversation, SecretInv
<1>7. CASE Crash
  <2>1. \A c \in Chats : pc'[c] # "listed"
    BY <1>7 DEF Crash, InFlight
  <2> QED BY <2>1 DEF SecretInv
<1>8. CASE UNCHANGED vars
  BY <1>8, <1>t DEF vars, SecretInv
<1> QED BY <1>2, <1>3, <1>4, <1>5, <1>6, <1>7, <1>8 DEF Next, Run, Raise

LEMMA KeyStep == ChatInv /\ KeyOfRevision /\ [Next]_vars => KeyOfRevision'
<1> SUFFICES ASSUME ChatInv, KeyOfRevision, [Next]_vars PROVE KeyOfRevision'
  OBVIOUS
<1>t. TypeOK /\ LoopInv /\ StoredInv /\ SecretInv
  BY DEF ChatInv
<1> USE DEF tables, setup, choice
<1>1. ASSUME NEW c \in Chats, ChatStep(c), pc'[c] # "asking" PROVE KeyOfRevision'
  <2>1. \A d \in Chats \ {c} : /\ pc'[d] = pc[d] /\ plan'[d] = plan[d]
                               /\ at'[d] = at[d] /\ key'[d] = key[d]
    BY <1>1, <1>t, OthersWait
  <2> QED BY <1>1, <2>1 DEF KeyOfRevision
<1>2. ASSUME NEW c \in Chats, Start(c) PROVE KeyOfRevision'
  <2>1. PICK k \in Conversations, wish \in Agents \cup {None} :
           \/ \E a \in Resolve(wish) : Create(c, k, a) \/ Continue(c, k, a)
           \/ Refuse(c, k, wish)
    BY <1>2 DEF Start
  <2>2. ASSUME NEW a, Create(c, k, a) \/ Continue(c, k, a) PROVE pc'[c] # "asking"
    <3>1. Begin(c, k, a)
      BY <2>2 DEF Create, Continue
    <3> QED BY <1>t, <3>1, Begun
  <2>3. CASE Refuse(c, k, wish)
    <3>1. pc'[c] = "failed"
      BY <1>t, <2>3 DEF Refuse, Goto, TypeOK
    <3> QED BY <1>1, <1>2, <3>1 DEF ChatStep
  <2> QED BY <1>1, <1>2, <2>1, <2>2, <2>3 DEF ChatStep
<1>3. ASSUME NEW c \in Chats, Ask(c) PROVE KeyOfRevision'
  <2>1. /\ pc[c] = "listed" /\ UNCHANGED << plan, at >>
        /\ key'[c] = config[plan[c][at[c]].id].secret
        /\ \A d \in Chats \ {c} : pc'[d] = pc[d] /\ key'[d] = key[d]
    BY <1>3, <1>t DEF Ask, Goto, TypeOK
  <2>2. at[c] = 1 => key'[c] \in {plan[c][1].secret, 0}
    BY <1>t, <2>1 DEF SecretInv
  <2> QED BY <2>1, <2>2 DEF KeyOfRevision
<1>4. ASSUME NEW c \in Chats,
             Returns(c) \/ Escapes(c) \/ Cancel(c) \/ Deliver(c) \/ FallsBack(c)
      PROVE  KeyOfRevision'
  <2>1. pc'[c] # "asking"
    BY <1>4, <1>t DEF Returns, Escapes, Cancel, Deliver, FallsBack, GoOn, Goto, TypeOK
  <2>2. UNCHANGED << plan, key >>
    BY <1>4 DEF Returns, Escapes, Cancel, Deliver, FallsBack
  <2>3. \A d \in Chats \ {c} : pc'[d] = pc[d] /\ at'[d] = at[d]
    BY <1>4, <1>t DEF Returns, Escapes, Cancel, Deliver, FallsBack, GoOn, Goto, TypeOK
  <2> QED BY <2>1, <2>2, <2>3 DEF KeyOfRevision
<1>5. CASE Reconfigure
  BY <1>5, <1>t, Edits DEF KeyOfRevision
<1>6. ASSUME NEW k \in Conversations, NewConversation(k) PROVE KeyOfRevision'
  BY <1>6 DEF NewConversation, KeyOfRevision
<1>7. CASE Crash
  <2>1. \A c \in Chats : pc'[c] # "asking"
    BY <1>7 DEF Crash, InFlight
  <2> QED BY <2>1 DEF KeyOfRevision
<1>8. CASE UNCHANGED vars
  BY <1>8 DEF vars, KeyOfRevision
<1> QED BY <1>2, <1>3, <1>4, <1>5, <1>6, <1>7, <1>8 DEF Next, Run, Raise

-----------------------------------------------------------------------------
\* What a question and a reply change in the table.
LEMMA QuestionStored ==
    ASSUME TypeOK, NEW c \in Chats, NEW k \in Conversations, AppendMessage(k, Question(c))
    PROVE  /\ \A d \in Chats : /\ Log!Asked(d)' <=> Log!Asked(d) \/ d = c
                               /\ Log!Answered(d)' <=> Log!Answered(d)
           /\ \A j \in Conversations, d \in Chats :
                 Log!Has(j, Question(d)) => Log!Has(j, Question(d))'
           /\ Log!Has(k, Question(c))'
<1>1. \A j \in Conversations : \A x :
         Log!Has(j, x)' <=> Log!Has(j, x) \/ (j = k /\ x = Question(c))
  BY Logged, Messages
<1>2. ASSUME NEW d \in Chats
      PROVE  /\ Log!Asked(d)' <=> Log!Asked(d) \/ d = c
             /\ Log!Answered(d)' <=> Log!Answered(d)
  <2>1. /\ Log!Question(d) = Question(d) /\ Log!Reply(d) = Reply(d)
        /\ Question(c) # Reply(d) /\ (Question(d) = Question(c) => d = c)
    BY Messages
  <2>2. \A j \in Conversations : Log!Has(j, Reply(d))' <=> Log!Has(j, Reply(d))
    BY <1>1, <2>1
  <2>3. \A j \in Conversations : Log!Has(j, Question(d))' <=>
            Log!Has(j, Question(d)) \/ (j = k /\ d = c)
    BY <1>1, <2>1
  <2> QED BY <2>1, <2>2, <2>3 DEF Log!Asked, Log!Answered
<1> QED BY <1>1, <1>2

LEMMA ReplyStored ==
    ASSUME TypeOK, NEW c \in Chats, NEW k \in Conversations, AppendMessage(k, Reply(c))
    PROVE  /\ \A d \in Chats : /\ Log!Answered(d)' <=> Log!Answered(d) \/ d = c
                               /\ Log!Asked(d)' <=> Log!Asked(d)
           /\ \A j \in Conversations, d \in Chats :
                 Log!Has(j, Question(d)) => Log!Has(j, Question(d))'
<1>1. \A j \in Conversations : \A x :
         Log!Has(j, x)' <=> Log!Has(j, x) \/ (j = k /\ x = Reply(c))
  BY Logged, Messages
<1>2. ASSUME NEW d \in Chats
      PROVE  /\ Log!Answered(d)' <=> Log!Answered(d) \/ d = c
             /\ Log!Asked(d)' <=> Log!Asked(d)
  <2>1. /\ Log!Question(d) = Question(d) /\ Log!Reply(d) = Reply(d)
        /\ Question(d) # Reply(c) /\ (Reply(d) = Reply(c) => d = c)
    BY Messages
  <2>2. \A j \in Conversations : Log!Has(j, Question(d))' <=> Log!Has(j, Question(d))
    BY <1>1, <2>1
  <2>3. \A j \in Conversations : Log!Has(j, Reply(d))' <=>
            Log!Has(j, Reply(d)) \/ (j = k /\ d = c)
    BY <1>1, <2>1
  <2> QED BY <2>1, <2>2, <2>3 DEF Log!Asked, Log!Answered
<1> QED BY <1>1, <1>2

LEMMA NothingStored ==
    ASSUME UNCHANGED messages
    PROVE  /\ \A d \in Chats : /\ Log!Asked(d)' <=> Log!Asked(d)
                               /\ Log!Answered(d)' <=> Log!Answered(d)
           /\ \A j \in Conversations, d \in Chats :
                 Log!Has(j, Question(d))' <=> Log!Has(j, Question(d))
BY DEF Log!Asked, Log!Answered, Log!Has, Log!Question, Log!Reply, Question

LEMMA StoredStep == ChatInv /\ [Next]_vars => StoredInv'
<1> SUFFICES ASSUME ChatInv, [Next]_vars PROVE StoredInv'
  OBVIOUS
<1>t. TypeOK /\ LoopInv /\ StoredInv
  BY DEF ChatInv
<1> USE DEF tables, setup, choice
<1>s. \A c \in Chats :
         /\ pc[c] = "idle" => ~Log!Asked(c)
         /\ pc[c] \in InFlight => conv[c] \in Conversations /\ Log!Has(conv[c], Question(c))
         /\ pc[c] \in {"idle", "listed", "asking"} => ~Log!Answered(c)
         /\ pc[c] = "replied" => Log!Answered(c)
  BY <1>t DEF StoredInv
<1>1. ASSUME NEW c \in Chats, NEW k \in Conversations, NEW a, Begin(c, k, a)
      PROVE  StoredInv'
  <2>1. /\ pc[c] = "idle" /\ AppendMessage(k, Question(c)) /\ conv'[c] = k
        /\ pc'[c] \in {"listed", "failed"}
        /\ \A d \in Chats \ {c} : pc'[d] = pc[d] /\ conv'[d] = conv[d]
    BY <1>1, <1>t, Begun
  <2>2. /\ \A d \in Chats : /\ Log!Asked(d)' <=> Log!Asked(d) \/ d = c
                            /\ Log!Answered(d)' <=> Log!Answered(d)
        /\ \A j \in Conversations, d \in Chats :
              Log!Has(j, Question(d)) => Log!Has(j, Question(d))'
        /\ Log!Has(k, Question(c))'
    BY <1>t, <2>1, QuestionStored
  <2>3. \A j \in Conversations, d \in Chats :
           Log!Has(j, Question(d))' <=> Question(d) \in ToSet(messages'[j])
    BY DEF Log!Has, Log!ToSet, ToSet
  <2>4. \A d \in Chats : pc'[d] \in InFlight =>
           conv'[d] \in Conversations /\ Question(d) \in ToSet(messages'[conv'[d]])
    BY <1>s, <2>1, <2>2, <2>3
  <2>5. \A d \in Chats : pc'[d] \in InFlight =>
           conv'[d] \in Conversations /\ Log!Has(conv[d], Question(d))'
    BY <2>4 DEF Log!Has, Log!ToSet, ToSet, Question
  <2>6. \A d \in Chats : /\ pc'[d] = "idle" => ~Log!Asked(d)'
                         /\ pc'[d] \in {"idle", "listed", "asking"} => ~Log!Answered(d)'
                         /\ pc'[d] = "replied" => Log!Answered(d)'
    BY <1>s, <2>1, <2>2
  <2> QED BY <2>5, <2>6 DEF StoredInv, Question
<1>2. ASSUME NEW c \in Chats, Start(c) PROVE StoredInv'
  <2>1. PICK k \in Conversations, wish \in Agents \cup {None} :
           \/ \E a \in Resolve(wish) : Create(c, k, a) \/ Continue(c, k, a)
           \/ Refuse(c, k, wish)
    BY <1>2 DEF Start
  <2>2. ASSUME NEW a, Create(c, k, a) \/ Continue(c, k, a) PROVE StoredInv'
    BY <1>1, <2>2 DEF Create, Continue
  <2>3. CASE Refuse(c, k, wish)
    <3>1. /\ UNCHANGED << messages, conv >> /\ pc'[c] = "failed"
          /\ \A d \in Chats \ {c} : pc'[d] = pc[d]
      BY <1>t, <2>3 DEF Refuse, Goto, TypeOK
    <3> QED BY <1>s, <3>1, NothingStored DEF StoredInv, InFlight, Question, Log!Has
  <2> QED BY <2>1, <2>2, <2>3
<1>3. ASSUME NEW c \in Chats, Returns(c) PROVE StoredInv'
  <2>1. /\ pc[c] = "asking" /\ AppendMessage(conv[c], Reply(c)) /\ UNCHANGED conv
        /\ pc'[c] = "replied"
        /\ \A d \in Chats \ {c} : pc'[d] = pc[d]
    BY <1>3, <1>t DEF Returns, Resumes, Goto, TypeOK
  <2>2. conv[c] \in Conversations
    BY <1>s, <2>1 DEF InFlight
  <2>3. /\ \A d \in Chats : /\ Log!Answered(d)' <=> Log!Answered(d) \/ d = c
                            /\ Log!Asked(d)' <=> Log!Asked(d)
        /\ \A j \in Conversations, d \in Chats :
              Log!Has(j, Question(d)) => Log!Has(j, Question(d))'
    BY <1>t, <2>1, <2>2, ReplyStored
  <2>4. \A d \in Chats : pc'[d] \in InFlight => pc[d] \in InFlight
    BY <2>1 DEF InFlight
  <2>5. \A d \in Chats : pc'[d] \in InFlight =>
           conv'[d] \in Conversations /\ Question(d) \in ToSet(messages'[conv'[d]])
    <3>1. \A j \in Conversations, d \in Chats :
             Log!Has(j, Question(d))' <=> Question(d) \in ToSet(messages'[j])
      BY DEF Log!Has, Log!ToSet, ToSet
    <3> QED BY <1>s, <2>1, <2>3, <2>4, <3>1
  <2>6. \A d \in Chats : pc'[d] \in InFlight =>
           conv'[d] \in Conversations /\ Log!Has(conv[d], Question(d))'
    BY <2>5 DEF Log!Has, Log!ToSet, ToSet, Question
  <2>7. \A d \in Chats : /\ pc'[d] = "idle" => ~Log!Asked(d)'
                         /\ pc'[d] \in {"idle", "listed", "asking"} => ~Log!Answered(d)'
                         /\ pc'[d] = "replied" => Log!Answered(d)'
    BY <1>s, <2>1, <2>3
  <2> QED BY <2>6, <2>7 DEF StoredInv, Question
\* The table stays, and a chat that is in flight has only changed its place.
<1>4. ASSUME UNCHANGED << messages, conv >>,
             \A c \in Chats : \/ pc'[c] = pc[c]
                              \/ pc'[c] \in {"listed", "asking"} /\ pc[c] \in {"listed", "asking"}
                              \/ pc'[c] \notin InFlight /\ pc'[c] # "idle"
      PROVE  StoredInv'
  <2>1. \A c \in Chats :
           /\ pc'[c] = "idle" => ~Log!Asked(c)'
           /\ pc'[c] \in {"idle", "listed", "asking"} => ~Log!Answered(c)'
           /\ pc'[c] = "replied" => Log!Answered(c)'
    BY <1>4, <1>s, NothingStored DEF InFlight
  <2>2. \A c \in Chats : pc'[c] \in InFlight =>
           conv'[c] \in Conversations /\ Log!Has(conv[c], Question(c))'
    BY <1>4, <1>s DEF InFlight, Log!Has, Question
  <2> QED BY <2>1, <2>2 DEF StoredInv, Question
<1>5. ASSUME NEW c \in Chats,
             Ask(c) \/ Escapes(c) \/ Cancel(c) \/ Deliver(c) \/ FallsBack(c)
      PROVE  StoredInv'
  <2>1. /\ UNCHANGED << messages, conv >>
        /\ \A d \in Chats \ {c} : pc'[d] = pc[d]
        /\ \/ pc'[c] \in {"listed", "asking"} /\ pc[c] \in {"listed", "asking"}
           \/ pc'[c] \notin InFlight /\ pc'[c] # "idle"
    BY <1>5, <1>t DEF Ask, Escapes, Cancel, Deliver, FallsBack, GoOn, Goto, Resumes,
                      TypeOK, InFlight
  <2> QED BY <1>4, <2>1
<1>6. CASE Reconfigure
  <2>1. UNCHANGED << messages, conv, pc >>
    BY <1>6, <1>t, Edits
  <2> QED BY <1>4, <2>1
<1>7. ASSUME NEW k \in Conversations, NewConversation(k) PROVE StoredInv'
  <2>1. UNCHANGED << messages, conv, pc >>
    BY <1>7 DEF NewConversation
  <2> QED BY <1>4, <2>1
<1>8. CASE Crash
  <2>1. /\ UNCHANGED << messages, conv >>
        /\ \A c \in Chats : pc'[c] = pc[c] \/ pc'[c] = "gone"
    BY <1>8 DEF Crash
  <2> QED BY <1>4, <2>1 DEF InFlight
<1>9. CASE UNCHANGED vars
  BY <1>4, <1>9 DEF vars
<1> QED BY <1>2, <1>3, <1>5, <1>6, <1>7, <1>8, <1>9 DEF Next, Run, Raise

LEMMA ChatInvStep == ChatInv /\ [Next]_vars => ChatInv'
<1> SUFFICES ASSUME ChatInv, [Next]_vars PROVE ChatInv'
  OBVIOUS
<1>1. TypeOK'
  BY TypeStep DEF ChatInv
<1> QED BY <1>1, LoopStep, StoredStep, SecretStep DEF ChatInv

-----------------------------------------------------------------------------
\* Every step is a step of the log, or none.
LEMMA LogStep == ChatInv /\ [Next]_vars => [Log!Next]_(Log!vars)
<1> SUFFICES ASSUME ChatInv, [Next]_vars PROVE [Log!Next]_(Log!vars)
  OBVIOUS
<1>t. TypeOK /\ StoredInv
  BY DEF ChatInv
<1> USE DEF tables, setup, choice, Log!vars
<1>1. ASSUME NEW c \in Chats, NEW k \in Conversations, NEW a, Begin(c, k, a)
      PROVE  Log!Next
  <2>1. /\ pc[c] = "idle" /\ AppendMessage(k, Question(c)) /\ UNCHANGED shown
    BY <1>1 DEF Begin, Resumes
  <2>2. ~Log!Asked(c)
    BY <1>t, <2>1 DEF StoredInv
  <2>3. Log!Ask(c, k)
    BY <2>1, <2>2, Messages DEF Log!Ask, Log!Store, AppendMessage
  <2> QED BY <2>3 DEF Log!Next
<1>2. ASSUME NEW c \in Chats, Returns(c) PROVE Log!Next
  <2>1. /\ pc[c] = "asking" /\ AppendMessage(conv[c], Reply(c)) /\ UNCHANGED shown
    BY <1>2 DEF Returns, Resumes
  <2>2. conv[c] \in Conversations /\ Log!Has(conv[c], Question(c)) /\ ~Log!Answered(c)
    BY <1>t, <2>1 DEF StoredInv, InFlight
  <2>3. Log!Answer(c, conv[c])
    BY <2>1, <2>2, Messages DEF Log!Answer, Log!Store, AppendMessage
  <2> QED BY <2>2, <2>3 DEF Log!Next
<1>3. ASSUME NEW c \in Chats, Deliver(c) PROVE [Log!Next]_(Log!vars)
  <2>1. /\ pc[c] = "replied" /\ UNCHANGED messages
        /\ shown' \in {shown, shown \cup {c}}
    BY <1>3 DEF Deliver
  <2>2. Log!Answered(c)
    BY <1>t, <2>1 DEF StoredInv
  <2>3. CASE shown' = shown
    BY <2>1, <2>3
  <2>4. CASE shown' = shown \cup {c}
    BY <2>1, <2>2, <2>4 DEF Log!Show, Log!Next
  <2> QED BY <2>1, <2>3, <2>4
<1>4. ASSUME NEW c \in Chats, Start(c) PROVE [Log!Next]_(Log!vars)
  BY <1>1, <1>4 DEF Start, Create, Continue, Refuse
<1>5. ASSUME NEW c \in Chats, Ask(c) \/ Escapes(c) \/ Cancel(c) \/ FallsBack(c)
      PROVE  UNCHANGED << messages, shown >>
  BY <1>5 DEF Ask, Escapes, Cancel, FallsBack
<1>6. CASE Reconfigure
  BY <1>6, <1>t, Edits
<1>7. ASSUME NEW k \in Conversations, NewConversation(k)
      PROVE  UNCHANGED << messages, shown >>
  BY <1>7 DEF NewConversation
<1>8. CASE Crash \/ UNCHANGED vars
  BY <1>8 DEF Crash, vars
<1> QED BY <1>2, <1>3, <1>4, <1>5, <1>6, <1>7, <1>8 DEF Next, Run, Raise

\* The inductive invariant: where a chat is, what the table has of it, and whose
\* secret its first request will carry.
THEOREM ChatsConsistent == Spec => []ChatInv
<1>1. Init => ChatInv
  BY InitInv
<1>2. ChatInv /\ [Next]_vars => ChatInv'
  BY ChatInvStep
<1> QED BY <1>1, <1>2, PTL DEF Spec

\* The first provider gets the key that was beside its endpoint, or none: nothing
\* but a deletion comes between the two SELECTs (generate, 86 to 88).
THEOREM KeyIsOfRevision == Spec => []KeyOfRevision
<1>1. Init => KeyOfRevision
  BY InitInv
<1>2. ChatInv /\ KeyOfRevision /\ [Next]_vars => KeyOfRevision'
  BY KeyStep
<1> QED BY <1>1, <1>2, ChatsConsistent, PTL DEF Spec

\* The chats implement the conversation log, however many run at once and wherever
\* they are cut off (generate, 71 to 99).
THEOREM Implementation == Spec => KeepsTheLog
<1>1. Init => Log!Init
  BY DEF Init, Log!Init
<1>2. ChatInv /\ [Next]_vars => [Log!Next]_(Log!vars)
  BY LogStep
<1> QED BY <1>1, <1>2, ChatsConsistent, PTL DEF Spec, KeepsTheLog, Log!Spec
=============================================================================
