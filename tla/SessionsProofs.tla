--------------------------- MODULE SessionsProofs ---------------------------
(***************************************************************************)
(* Proofs about Sessions, for every set of logins, logouts and other       *)
(* requests, every time to live and every bound on the clock.              *)
(***************************************************************************)
EXTENDS Sessions, TLAPS

\* What a stored session and a cookie are, and that neither is None.
LEMMA Kinds == /\ None \notin Logins /\ None \notin Record /\ None \notin CookieSet
               /\ \A s \in Record : /\ s.expires \in 0 .. MaxTime + Ttl
                                    /\ s.revoked \in BOOLEAN
               /\ \A c \in CookieSet : /\ c.token \in Logins
                                       /\ c.until \in 0 .. MaxTime + Ttl
BY NoneAssumption DEF Requests, Record, CookieSet

\* What a logout writes is a session, revoked and otherwise as it was read.
LEMMA Revoked == \A s \in Record : LET w == [s EXCEPT !.revoked = TRUE]
                                   IN  /\ w \in Record /\ w # None /\ w.revoked
                                       /\ w.expires = s.expires
BY NoneAssumption DEF Record

\* The browser sends a token of a login that has come back, or none.
LEMMA CookieKnown ==
    TypeOK /\ CarryInv => /\ Cookie \in Logins \cup {None}
                          /\ Cookie # None => pc[Cookie] = "over"
BY Kinds DEF TypeOK, CarryInv, Cookie

LEMMA InitInv == Init => SessionInv
<1> SUFFICES ASSUME Init PROVE SessionInv
  OBVIOUS
<1> USE DEF Init
<1>1. TypeOK
  <2>1. /\ clock \in 0 .. MaxTime
        /\ sentAt \in [Logins \cup Uses -> 0 .. MaxTime]
    BY TimeAssumption
  <2>2. \A r \in Logouts : record[r] # None <=> pc[r] = "read"
    BY DEF Requests
  <2>3. stale \in [Uses -> BOOLEAN]
    OBVIOUS
  <2>4. /\ crossSite \in BOOLEAN
        /\ pc \in [Requests -> AtServer \cup Over \cup {"idle", "answered"}]
    OBVIOUS
  <2> QED BY <2>1, <2>2, <2>3, <2>4 DEF TypeOK
<1>2. TokenInv
  BY DEF TokenInv, Requests
<1>3. CarryInv
  BY DEF CarryInv, Requests
<1>4. RevokeInv
  BY DEF RevokeInv, Requests
<1>5. CheckedRightly /\ CookieFollows
  BY DEF CheckedRightly, CookieFollows, Requests
<1> QED BY <1>1, <1>2, <1>3, <1>4, <1>5 DEF SessionInv

-----------------------------------------------------------------------------
LEMMA TypeStep == TypeOK /\ CarryInv /\ RevokeInv /\ [Next]_vars => TypeOK'
<1> SUFFICES ASSUME TypeOK, CarryInv, RevokeInv, [Next]_vars PROVE TypeOK'
  OBVIOUS
<1> USE Kinds, TimeAssumption DEF TypeOK, Requests, AtServer, Over
<1>1. ASSUME NEW r \in Requests, Send(r) PROVE TypeOK'
  <2>1. carries' \in [Logouts \cup Uses -> Logins \cup {None}]
    BY <1>1, CookieKnown DEF Send, Put
  <2>2. sentAt' \in [Logins \cup Uses -> 0 .. MaxTime]
    BY <1>1 DEF Send, Put
  <2>3. (Cookie \in SignedOut) \in BOOLEAN
    OBVIOUS
  <2>4. stale' \in [Uses -> BOOLEAN]
    BY <1>1, <2>3 DEF Send, Put
  <2>5. /\ pc' \in [Requests -> AtServer \cup Over \cup {"idle", "answered"}]
        /\ \A q \in Logouts : record'[q] # None <=> pc'[q] = "read"
    BY <1>1 DEF Send, Goto
  <2> QED BY <1>1, <2>1, <2>2, <2>4, <2>5 DEF Send
<1>2. ASSUME NEW r \in Requests, Arrives(r) PROVE TypeOK'
  BY <1>2 DEF Arrives, Goto, Fixed, CookieSet
<1>3. ASSUME NEW r \in Requests, Lose(r) PROVE TypeOK'
  BY <1>3 DEF Lose, Goto, Fixed, Put
<1>4. ASSUME NEW r \in Logins, CreateSession(r) PROVE TypeOK'
  BY <1>4 DEF CreateSession, Goto, Fixed, Record
<1>5. ASSUME NEW r \in Logins, RefuseLogin(r) PROVE TypeOK'
  BY <1>5 DEF RefuseLogin, Goto, Fixed
<1>6. ASSUME NEW r \in Logouts, RevokeReads(r) PROVE TypeOK'
  BY <1>6 DEF RevokeReads, Goto, Fixed, Lookup
<1>7. ASSUME NEW r \in Logouts, RevokeWrites(r) PROVE TypeOK'
  <2>1. /\ [record[r] EXCEPT !.revoked = TRUE] \in Record
        /\ carries[r] \in Logins
    BY <1>7, Revoked DEF RevokeWrites, RevokeInv
  <2>2. table' \in [Logins -> Record \cup {None}]
    BY <1>7, <2>1 DEF RevokeWrites
  <2> QED BY <1>7, <2>2 DEF RevokeWrites, Goto, Fixed
<1>8. ASSUME NEW r \in Uses, Check(r) \/ Act(r) PROVE TypeOK'
  BY <1>8 DEF Check, Act, Goto, Fixed
<1>9. CASE Tick
  BY <1>9 DEF Tick, request
<1>10. CASE UNCHANGED vars
  BY <1>10 DEF vars, request
<1> QED BY <1>1, <1>2, <1>3, <1>4, <1>5, <1>6, <1>7, <1>8, <1>9, <1>10 DEF Next

-----------------------------------------------------------------------------
\* Only a fresh login has no session; a session ends as its login says, and a
\* revoked one was somebody's logout.
LEMMA TokenStep ==
    TypeOK /\ TokenInv /\ CarryInv /\ RevokeInv /\ [Next]_vars => TokenInv'
<1> SUFFICES ASSUME TypeOK, TokenInv, CarryInv, RevokeInv, [Next]_vars
             PROVE  TokenInv'
  OBVIOUS
<1> USE Kinds, TimeAssumption, KindsAssumption DEF TokenInv, Requests
<1>t. /\ clock \in Nat /\ table \in [Logins -> Record \cup {None}]
      /\ pc \in [Requests -> AtServer \cup Over \cup {"idle", "answered"}]
      /\ carries \in [Logouts \cup Uses -> Logins \cup {None}]
      /\ sentAt \in [Logins \cup Uses -> 0 .. MaxTime]
  BY DEF TypeOK
<1>1. ASSUME NEW r \in Requests, Send(r) PROVE TokenInv'
  <2>1. \A q \in Logouts : carries[q] # None => carries'[q] = carries[q]
    BY <1>1, <1>t DEF Send, Put, CarryInv
  <2> QED BY <1>1, <1>t, <2>1 DEF Send, Put, Goto
<1>2. ASSUME NEW r \in Requests, Arrives(r) PROVE TokenInv'
  BY <1>2, <1>t DEF Arrives, Goto, Fixed
<1>3. ASSUME NEW r \in Requests, Lose(r) PROVE TokenInv'
  BY <1>3, <1>t DEF Lose, Goto, Fixed, AtServer
<1>4. ASSUME NEW r \in Logins, CreateSession(r) PROVE TokenInv'
  <2> DEFINE w == [expires |-> clock + Ttl, revoked |-> FALSE]
  <2>1. w \in Record /\ w.expires = clock + Ttl /\ ~w.revoked
    BY <1>4 DEF Record, TypeOK
  <2>2. table' = [table EXCEPT ![r] = w] /\ Goto(r, "answered") /\ pc[r] = "sent"
    BY <1>4 DEF CreateSession
  <2> HIDE DEF w
  <2>3. /\ \A t \in Logins \ {r} : pc'[t] = pc[t] /\ table'[t] = table[t]
        /\ pc'[r] = "answered" /\ table'[r] = w
    BY <2>2, <1>t DEF Goto
  <2>4. UNCHANGED << clock, sentAt, carries >>
    BY <1>4 DEF CreateSession, Fixed
  <2>5. w # None /\ sentAt[r] + Ttl <= w.expires
    BY <2>1, <1>t
  <2> QED BY <2>1, <2>3, <2>4, <2>5
<1>5. ASSUME NEW r \in Logins, RefuseLogin(r) PROVE TokenInv'
  BY <1>5, <1>t DEF RefuseLogin, Goto, Fixed
<1>6. ASSUME NEW r \in Logouts, RevokeReads(r) PROVE TokenInv'
  BY <1>6, <1>t DEF RevokeReads, Goto, Fixed
<1>7. ASSUME NEW r \in Logouts, RevokeWrites(r) PROVE TokenInv'
  <2> DEFINE w == [record[r] EXCEPT !.revoked = TRUE]
  <2>1. /\ carries[r] \in Logins /\ pc[carries[r]] = "over"
        /\ w # None /\ w.expires = table[carries[r]].expires
    BY <1>7, <1>t, Revoked DEF RevokeWrites, RevokeInv, CarryInv, TypeOK
  <2> HIDE DEF w
  <2>2. table' = [table EXCEPT ![carries[r]] = w]
    BY <1>7 DEF RevokeWrites, w
  <2>3. UNCHANGED << clock, sentAt, carries >>
    BY <1>7 DEF RevokeWrites, Fixed
  <2>4. \A t \in Logins : pc'[t] = pc[t]
    BY <1>7, <1>t DEF RevokeWrites, Goto
  <2>5. \A t \in Logins : table'[t] = IF t = carries[r] THEN w ELSE table[t]
    BY <2>2, <1>t
  <2>6. table[carries[r]] # None
    BY <2>1
  <2> QED BY <1>7, <2>1, <2>3, <2>4, <2>5, <2>6
<1>8. ASSUME NEW r \in Uses, Check(r) \/ Act(r) PROVE TokenInv'
  BY <1>8, <1>t DEF Check, Act, Goto, Fixed
<1>9. CASE Tick
  BY <1>9, <1>t DEF Tick, request
<1>10. CASE UNCHANGED vars
  BY <1>10 DEF vars, request
<1> QED BY <1>1, <1>2, <1>3, <1>4, <1>5, <1>6, <1>7, <1>8, <1>9, <1>10 DEF Next

\* A token that the browser has is the token of a login that came back.
LEMMA CarryStep == TypeOK /\ CarryInv /\ [Next]_vars => CarryInv'
<1> SUFFICES ASSUME TypeOK, CarryInv, [Next]_vars PROVE CarryInv'
  OBVIOUS
<1> USE Kinds, KindsAssumption DEF CarryInv, Requests
<1>t. /\ jar \in CookieSet \cup {None}
      /\ pc \in [Requests -> AtServer \cup Over \cup {"idle", "answered"}]
      /\ carries \in [Logouts \cup Uses -> Logins \cup {None}]
  BY DEF TypeOK
<1>s. ASSUME NEW r \in Requests, pc[r] # "over", NEW s, s # "idle", Goto(r, s),
             s \notin {"admitted", "used"} \/ carries[r] # None,
             UNCHANGED << carries, jar >>
      PROVE  CarryInv'
  BY <1>s, <1>t DEF Goto
<1>1. ASSUME NEW r \in Requests, Send(r) PROVE CarryInv'
  BY <1>1, <1>t, CookieKnown DEF Send, Put, Goto
<1>2. ASSUME NEW r \in Requests, Arrives(r) PROVE CarryInv'
  BY <1>2, <1>t DEF Arrives, Goto, Fixed, CookieSet
<1>3. ASSUME NEW r \in Requests, Lose(r) PROVE CarryInv'
  BY <1>3, <1>s DEF Lose, Fixed, AtServer
<1>4. ASSUME NEW r \in Logins, CreateSession(r) \/ RefuseLogin(r) PROVE CarryInv'
  BY <1>4, <1>s DEF CreateSession, RefuseLogin, Fixed
<1>5. ASSUME NEW r \in Logouts, RevokeReads(r) \/ RevokeWrites(r) PROVE CarryInv'
  BY <1>5, <1>s DEF RevokeReads, RevokeWrites, Fixed
<1>6. ASSUME NEW r \in Uses, Check(r) \/ Act(r) PROVE CarryInv'
  BY <1>6, <1>s DEF Check, Act, Fixed, Active, Lookup
<1>7. CASE Tick \/ UNCHANGED vars
  BY <1>7 DEF Tick, vars, request
<1> QED BY <1>1, <1>2, <1>3, <1>4, <1>5, <1>6, <1>7 DEF Next

-----------------------------------------------------------------------------
\* While a logout is between its read and its write, another logout may write
\* the same session, but nothing changes when the session ends.
LEMMA RevokeStep == SessionInv /\ [Next]_vars => RevokeInv'
<1> SUFFICES ASSUME TypeOK, TokenInv, CarryInv, RevokeInv, [Next]_vars
             PROVE  RevokeInv'
  BY DEF SessionInv
<1> USE Kinds, KindsAssumption DEF RevokeInv, Requests
<1>t. /\ table \in [Logins -> Record \cup {None}]
      /\ pc \in [Requests -> AtServer \cup Over \cup {"idle", "answered"}]
      /\ carries \in [Logouts \cup Uses -> Logins \cup {None}]
      /\ record \in [Logouts -> Record \cup {None}]
      /\ stale \in [Uses -> BOOLEAN]
  BY DEF TypeOK
<1>c. \A q \in Logouts \cup Uses : carries[q] # None =>
          carries[q] \in Logins /\ pc[carries[q]] = "over" /\ table[carries[q]] # None
  BY <1>t DEF CarryInv, TokenInv
<1>s. ASSUME NEW r \in Requests, NEW s, s \notin {"read", "answered"},
             s = "over" => pc[r] = "answered",
             Goto(r, s), UNCHANGED << table, carries, stale >>,
             \A q \in Logouts \ {r} : record'[q] = record[q]
      PROVE  RevokeInv'
  BY <1>s, <1>t DEF Goto
<1>1. ASSUME NEW r \in Requests, Send(r) PROVE RevokeInv'
  <2>1. \A q \in Logouts \cup Uses : q # r => carries'[q] = carries[q]
    BY <1>1, <1>t DEF Send, Put
  <2>2. \A q \in Requests : pc'[q] = IF q = r THEN "sent" ELSE pc[q]
    BY <1>1, <1>t DEF Send, Goto
  <2>3. UNCHANGED << table, record >>
    BY <1>1 DEF Send
  <2>4. ASSUME NEW q \in Uses, stale'[q], carries'[q] # None
        PROVE  table'[carries'[q]].revoked
    <3>1. CASE q # r
      BY <2>1, <2>3, <2>4, <3>1, <1>1, <1>t DEF Send, Put
    <3>2. CASE q = r
      <4>1. carries'[q] = Cookie /\ Cookie \in SignedOut
        BY <1>1, <3>2, <2>4, <1>t DEF Send, Put
      <4>2. PICK o \in Logouts : /\ pc[o] \in {"answered", "over"}
                                 /\ carries[o] = Cookie
        BY <4>1 DEF SignedOut
      <4> QED BY <4>1, <4>2, <2>3, <2>4
    <3> QED BY <3>1, <3>2
  <2> QED BY <1>1, <2>1, <2>2, <2>3, <2>4
<1>2. ASSUME NEW r \in Requests, Arrives(r) PROVE RevokeInv'
  BY <1>2, <1>s DEF Arrives, Fixed
<1>3. ASSUME NEW r \in Requests, Lose(r) PROVE RevokeInv'
  BY <1>3, <1>t, <1>s DEF Lose, Fixed, Put
<1>4. ASSUME NEW r \in Logins, CreateSession(r) PROVE RevokeInv'
  <2>1. \A q \in Logouts \cup Uses : carries[q] # r
    BY <1>4, <1>c DEF CreateSession
  <2>2. /\ \A t \in Logins \ {r} : table'[t] = table[t]
        /\ \A q \in Logouts \cup Uses : pc'[q] = pc[q]
    BY <1>4, <1>t DEF CreateSession, Goto
  <2> QED BY <1>4, <1>c, <2>1, <2>2 DEF CreateSession, Fixed
<1>5. ASSUME NEW r \in Logins, RefuseLogin(r) PROVE RevokeInv'
  BY <1>5, <1>s DEF RefuseLogin, Fixed
<1>6. ASSUME NEW r \in Logouts, RevokeReads(r) PROVE RevokeInv'
  BY <1>6, <1>t, <1>c DEF RevokeReads, Goto, Fixed, Lookup
<1>7. ASSUME NEW r \in Logouts, RevokeWrites(r) PROVE RevokeInv'
  <2> DEFINE w == [record[r] EXCEPT !.revoked = TRUE]
  <2>1. /\ carries[r] \in Logins /\ w.revoked
        /\ w.expires = table[carries[r]].expires
    BY <1>7, <1>c, Revoked DEF RevokeWrites, TypeOK
  <2> HIDE DEF w
  <2>2. \A t \in Logins : table'[t] = IF t = carries[r] THEN w ELSE table[t]
    BY <1>7, <1>t DEF RevokeWrites, w
  <2>3. \A q \in Requests : pc'[q] = IF q = r THEN "answered" ELSE pc[q]
    BY <1>7, <1>t DEF RevokeWrites, Goto
  <2>4. /\ UNCHANGED << carries, stale >>
        /\ \A q \in Logouts \ {r} : record'[q] = record[q]
    BY <1>7, <1>t DEF RevokeWrites, Fixed
  <2> QED BY <1>c, <2>1, <2>2, <2>3, <2>4
<1>8. ASSUME NEW r \in Uses, Check(r) \/ Act(r) PROVE RevokeInv'
  BY <1>8, <1>s DEF Check, Act, Fixed
<1>9. CASE Tick \/ UNCHANGED vars
  BY <1>9 DEF Tick, vars, request
<1> QED BY <1>1, <1>2, <1>3, <1>4, <1>5, <1>6, <1>7, <1>8, <1>9 DEF Next

\* What the check found of a session stays true of it: it never ends earlier, and
\* a request that was refused had a reason that lasts.
LEMMA CheckedStep == SessionInv /\ [Next]_vars => CheckedRightly'
<1> SUFFICES ASSUME TypeOK, TokenInv, CarryInv, RevokeInv, CheckedRightly,
                    [Next]_vars
             PROVE  CheckedRightly'
  BY DEF SessionInv
<1> USE Kinds, KindsAssumption, TimeAssumption DEF CheckedRightly, Requests
<1>t. /\ clock \in Nat /\ table \in [Logins -> Record \cup {None}]
      /\ pc \in [Requests -> AtServer \cup Over \cup {"idle", "answered"}]
      /\ carries \in [Logouts \cup Uses -> Logins \cup {None}]
      /\ record \in [Logouts -> Record \cup {None}]
      /\ sentAt \in [Logins \cup Uses -> 0 .. MaxTime]
  BY DEF TypeOK
<1>c. \A q \in Logouts \cup Uses : carries[q] # None =>
          carries[q] \in Logins /\ pc[carries[q]] = "over" /\ table[carries[q]] # None
  BY <1>t DEF CarryInv, TokenInv
<1>a. \A r \in Uses : pc[r] \in {"admitted", "used"} => carries[r] # None
  BY DEF CarryInv
<1>s. ASSUME NEW r \in Requests \ Uses, NEW s, Goto(r, s),
             UNCHANGED << clock, carries, sentAt, stale >>,
             \A q \in Uses : carries[q] # None =>
                 table'[carries[q]].expires = table[carries[q]].expires
      PROVE  CheckedRightly'
  <2>1. \A q \in Uses : pc'[q] = pc[q]
    BY <1>s, <1>t DEF Goto
  <2> QED BY <1>s, <1>a, <1>t, <2>1
<1>1. ASSUME NEW r \in Requests, Send(r) PROVE CheckedRightly'
  <2>1. \A q \in Logouts \cup Uses : q # r => carries'[q] = carries[q]
    BY <1>1, <1>t DEF Send, Put
  <2>2. \A q \in Uses : q # r => pc'[q] = pc[q] /\ stale'[q] = stale[q]
                                /\ sentAt'[q] = sentAt[q]
    BY <1>1, <1>t DEF Send, Goto, Put, TypeOK
  <2>3. UNCHANGED << clock, table >> /\ pc[r] = "idle" /\ pc'[r] = "sent"
    BY <1>1, <1>t DEF Send, Goto
  <2>4. \A t \in Logins : pc[t] = "over" => sentAt'[t] = sentAt[t]
    BY <1>1, <1>t DEF Send, Put
  <2>5. \A q \in Logouts : carries[q] # None => carries'[q] = carries[q]
    BY <2>1, <2>3 DEF CarryInv
  <2> TAKE q \in Uses
  <2>6. CASE q = r
    BY <2>3, <2>6
  <2>7. CASE q # r
    BY <1>c, <2>1, <2>2, <2>3, <2>4, <2>5, <2>7
  <2> QED BY <2>6, <2>7
<1>2. ASSUME NEW r \in Requests, Arrives(r) \/ Lose(r) PROVE CheckedRightly'
  <2>1. UNCHANGED << clock, table, carries, sentAt, stale >>
    BY <1>2 DEF Arrives, Lose, Fixed
  <2>2. \A q \in Uses : pc'[q] # pc[q] => pc'[q] \in {"over", "lost"}
    BY <1>2, <1>t DEF Arrives, Lose, Goto
  <2> QED BY <2>1, <2>2
<1>3. ASSUME NEW r \in Logins, CreateSession(r) PROVE CheckedRightly'
  <2>1. \A q \in Uses : carries[q] # None =>
            table'[carries[q]].expires = table[carries[q]].expires
    BY <1>3, <1>c, <1>t DEF CreateSession
  <2> QED BY <1>3, <1>s, <2>1 DEF CreateSession, Fixed
<1>4. ASSUME NEW r \in Logins, RefuseLogin(r) PROVE CheckedRightly'
  BY <1>4, <1>s DEF RefuseLogin, Fixed
<1>5. ASSUME NEW r \in Logouts, RevokeReads(r) PROVE CheckedRightly'
  BY <1>5, <1>s DEF RevokeReads, Fixed
<1>6. ASSUME NEW r \in Logouts, RevokeWrites(r) PROVE CheckedRightly'
  <2> DEFINE w == [record[r] EXCEPT !.revoked = TRUE]
  <2>1. carries[r] \in Logins /\ w.expires = table[carries[r]].expires
    BY <1>6, <1>c, Revoked DEF RevokeWrites, RevokeInv, TypeOK
  <2> HIDE DEF w
  <2>2. \A t \in Logins : table'[t] = IF t = carries[r] THEN w ELSE table[t]
    BY <1>6, <1>t DEF RevokeWrites, w
  <2>3. \A q \in Uses : carries[q] # None =>
            table'[carries[q]].expires = table[carries[q]].expires
    BY <1>c, <2>1, <2>2
  <2> QED BY <1>6, <1>s, <2>3 DEF RevokeWrites, Fixed
<1>7. ASSUME NEW r \in Uses, Check(r) PROVE CheckedRightly'
  <2>1. UNCHANGED << clock, table, carries, sentAt, stale >>
    BY <1>7 DEF Check, Fixed
  <2>2. \A q \in Uses : q # r => pc'[q] = pc[q]
    BY <1>7, <1>t DEF Check, Goto
  <2>3. CASE Active(carries[r])
    <3>1. pc'[r] = "admitted" /\ carries[r] # None
      BY <1>7, <2>3, <1>t DEF Check, Goto, Active, Lookup
    <3>2. ~stale[r]
      BY <2>3, <3>1 DEF Active, RevokeInv
    <3>3. table[carries[r]].expires \in Nat /\ sentAt[r] \in Nat /\ sentAt[r] <= clock
      BY <3>1, <1>c, <1>t DEF TokenInv
    <3>4. table[carries[r]].expires > sentAt[r]
      BY <2>3, <3>3, <1>t DEF Active
    <3> QED BY <2>1, <2>2, <3>1, <3>2, <3>4
  <2>4. CASE ~Active(carries[r])
    <3>1. pc'[r] = "refused"
      BY <1>7, <2>4, <1>t DEF Check, Goto
    <3>2. ASSUME carries[r] # None, ~table[carries[r]].revoked
          PROVE  clock >= sentAt[carries[r]] + Ttl
      <4>1. table[carries[r]].expires <= clock
        BY <1>c, <1>t, <2>4, <3>2 DEF Active, Lookup
      <4>2. /\ sentAt[carries[r]] + Ttl <= table[carries[r]].expires
            /\ sentAt[carries[r]] \in Nat /\ table[carries[r]].expires \in Nat
        BY <1>c, <1>t, <3>2 DEF TokenInv
      <4> QED BY <1>t, <4>1, <4>2
    <3>3. ASSUME carries[r] # None, table[carries[r]].revoked
          PROVE  \E q \in Logouts : carries[q] = carries[r]
      BY <1>c, <3>3 DEF TokenInv
    <3> QED BY <2>1, <2>2, <3>1, <3>2, <3>3
  <2> QED BY <2>3, <2>4
<1>8. ASSUME NEW r \in Uses, Act(r) PROVE CheckedRightly'
  <2>1. UNCHANGED << clock, table, carries, sentAt, stale >>
    BY <1>8 DEF Act, Fixed
  <2>2. \A q \in Uses : pc'[q] # pc[q] => pc[q] = "admitted" /\ pc'[q] = "used"
    BY <1>8, <1>t DEF Act, Goto
  <2> QED BY <2>1, <2>2
<1>9. CASE Tick
  <2>1. /\ UNCHANGED << table, pc, carries, sentAt, stale >>
        /\ clock' = clock + 1
    BY <1>9 DEF Tick, request
  <2>2. \A q \in Uses : carries[q] # None /\ clock >= sentAt[carries[q]] + Ttl =>
            clock' >= sentAt[carries[q]] + Ttl
    BY <1>c, <1>t, <2>1
  <2> QED BY <1>t, <2>1, <2>2
<1>10. CASE UNCHANGED vars
  BY <1>10 DEF vars, request
<1> QED BY <1>1, <1>2, <1>3, <1>4, <1>5, <1>6, <1>7, <1>8, <1>9, <1>10 DEF Next

\* Every write of a record keeps the end that the cookie was given, and the token
\* of a logout that came back is revoked and is given to no browser again.
LEMMA CookieStep == SessionInv /\ [Next]_vars => CookieFollows'
<1> SUFFICES ASSUME SessionInv, [Next]_vars PROVE CookieFollows'
  OBVIOUS
<1>i. TypeOK /\ TokenInv /\ CarryInv /\ RevokeInv /\ CookieFollows
  BY DEF SessionInv
<1> USE Kinds, KindsAssumption, TimeAssumption DEF CookieFollows, Requests
<1>t. /\ clock \in Nat /\ table \in [Logins -> Record \cup {None}]
      /\ jar \in CookieSet \cup {None}
      /\ pc \in [Requests -> AtServer \cup Over \cup {"idle", "answered"}]
      /\ carries \in [Logouts \cup Uses -> Logins \cup {None}]
      /\ record \in [Logouts -> Record \cup {None}]
  BY <1>i DEF TypeOK
<1>r. \A q \in Logouts : pc'[q] = "over" /\ carries'[q] # None =>
          table'[carries'[q]].revoked
  BY RevokeStep DEF SessionInv, RevokeInv
<1>j. jar # None => /\ pc[jar.token] = "over" /\ jar.token \in Logins
                    /\ table[jar.token] # None
  BY <1>i, <1>t DEF CarryInv
<1>s. ASSUME NEW r \in Requests, NEW s, s # "over", Goto(r, s),
             UNCHANGED << crossSite, jar, carries >>,
             jar # None => /\ table'[jar.token] # None
                           /\ table'[jar.token].expires = table[jar.token].expires
      PROVE  CookieFollows'
  BY <1>s, <1>i, <1>r, <1>t DEF Goto
<1>1. ASSUME NEW r \in Requests, Send(r) PROVE CookieFollows'
  BY <1>1, <1>i, <1>r, <1>t DEF Send, Goto, Put
<1>2. ASSUME NEW r \in Requests, Arrives(r) PROVE CookieFollows'
  <2>1. UNCHANGED << crossSite, table, carries >>
    BY <1>2 DEF Arrives, Fixed
  <2>2. \A q \in Requests : pc'[q] = IF q = r THEN "over" ELSE pc[q]
    BY <1>2, <1>t DEF Arrives, Goto
  <2>3. CASE r \in Logins
    <3>1. jar' = [token |-> r, until |-> clock + Ttl] /\ pc[r] = "answered"
      BY <1>2, <2>3 DEF Arrives
    <3>2. table[r] # None /\ table[r].expires <= clock + Ttl
      BY <1>i, <2>3, <3>1 DEF TokenInv
    <3>3. \A q \in Logouts : carries[q] # r
      BY <1>i, <2>3, <3>1 DEF CarryInv
    <3> QED BY <1>r, <2>1, <3>1, <3>2, <3>3
  <2>4. CASE r \notin Logins
    BY <1>2, <1>i, <1>r, <2>1, <2>2, <2>4 DEF Arrives
  <2> QED BY <2>3, <2>4
<1>3. ASSUME NEW r \in Requests, Lose(r) PROVE CookieFollows'
  BY <1>3, <1>s, <1>j DEF Lose, Fixed
<1>4. ASSUME NEW r \in Logins, CreateSession(r) PROVE CookieFollows'
  <2>1. jar # None => table'[jar.token] = table[jar.token]
    BY <1>4, <1>j, <1>t DEF CreateSession
  <2> QED BY <1>4, <1>s, <1>j, <2>1 DEF CreateSession, Fixed
<1>5. ASSUME NEW r \in Logins, RefuseLogin(r) PROVE CookieFollows'
  BY <1>5, <1>s, <1>j DEF RefuseLogin, Fixed
<1>6. ASSUME NEW r \in Logouts, RevokeReads(r) PROVE CookieFollows'
  BY <1>6, <1>s, <1>j DEF RevokeReads, Fixed
<1>7. ASSUME NEW r \in Logouts, RevokeWrites(r) PROVE CookieFollows'
  <2> DEFINE w == [record[r] EXCEPT !.revoked = TRUE]
  <2>1. w # None /\ w.expires = table[carries[r]].expires
    BY <1>7, <1>i, Revoked DEF RevokeWrites, RevokeInv, TypeOK
  <2> HIDE DEF w
  <2>2. \A t \in Logins : table'[t] = IF t = carries[r] THEN w ELSE table[t]
    BY <1>7, <1>t DEF RevokeWrites, w
  <2>3. jar # None => /\ table'[jar.token] # None
                      /\ table'[jar.token].expires = table[jar.token].expires
    BY <1>j, <2>1, <2>2
  <2>4. Goto(r, "answered") /\ UNCHANGED << crossSite, jar, carries >>
    BY <1>7 DEF RevokeWrites, Fixed
  <2> QED BY <1>s, <2>3, <2>4
<1>8. ASSUME NEW r \in Uses, Check(r) \/ Act(r) PROVE CookieFollows'
  BY <1>8, <1>s, <1>j DEF Check, Act, Fixed
<1>9. CASE Tick \/ UNCHANGED vars
  BY <1>9, <1>i, <1>r DEF Tick, vars, request
<1> QED BY <1>1, <1>2, <1>3, <1>4, <1>5, <1>6, <1>7, <1>8, <1>9 DEF Next

-----------------------------------------------------------------------------
\* The inductive invariant holds in every reachable state: a session lasts as its
\* login says and is revoked by a logout only, whatever reads and writes overlap
\* (dashboard_store.py 128 to 160).
THEOREM SessionsConsistent == Spec => []SessionInv
<1>1. SessionInv /\ [Next]_vars => SessionInv'
  <2> SUFFICES ASSUME SessionInv, [Next]_vars PROVE SessionInv'
    OBVIOUS
  <2>1. TypeOK' /\ TokenInv' /\ CarryInv'
    BY TypeStep, TokenStep, CarryStep DEF SessionInv
  <2>2. RevokeInv' /\ CheckedRightly' /\ CookieFollows'
    BY RevokeStep, CheckedStep, CookieStep
  <2> QED BY <2>1, <2>2 DEF SessionInv
<1> QED BY InitInv, <1>1, PTL DEF Spec

\* A request is admitted only with a session that was alive and not signed out
\* when it was sent, and refused only for want of one (auth.py 29 to 47).
THEOREM SessionsChecked == Spec => []CheckedRightly
<1>1. SessionInv => CheckedRightly
  BY DEF SessionInv
<1> QED BY <1>1, SessionsConsistent, PTL

\* The browser's cookie always has a stored session that ends no later; the token
\* of a logout that came back is revoked, and a browser whose dashboard is of this
\* service's own site has lost it (api.py 180 to 210).
THEOREM CookieFollowsSession == Spec => []CookieFollows
<1>1. SessionInv => CookieFollows
  BY DEF SessionInv
<1> QED BY <1>1, SessionsConsistent, PTL
=============================================================================
