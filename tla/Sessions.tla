------------------------------ MODULE Sessions ------------------------------
(***************************************************************************)
(* The owner's sessions: POST /auth/login, POST /auth/logout and the check *)
(* that every other endpoint makes first, for the requests of one browser, *)
(* whose tabs share the cookie.                                            *)
(*                                                                         *)
(* logout is a plain function, so it runs in a thread: it reads the record *)
(* and writes it back in another transaction.  The check is one read; what *)
(* the handler does with it comes later.  A token is known by the login    *)
(* that drew it.  The table survives a restart, and nothing but the        *)
(* requests under way is in the process.                                   *)
(*                                                                         *)
(* An answer acts on the cookie when it arrives, in whatever order answers *)
(* arrive.  A login sets it SameSite=None, for a dashboard of another      *)
(* site; a logout deletes it with delete_cookie's default, SameSite=Lax,   *)
(* which a browser ignores in the answer to a fetch from another site.  So *)
(* a logout takes the cookie from the browser only when the dashboard and  *)
(* this service belong to one site.  Both are taken to be served by https: *)
(* without Secure no browser of today keeps a SameSite=None cookie.        *)
(*                                                                         *)
(* The header that require_decision_auth admits in place of a session is   *)
(* not modelled: Uses are the requests that need a session.                *)
(***************************************************************************)
EXTENDS Naturals

CONSTANTS
    Logins, Logouts, Uses,  \* the requests of the browser, each sent once
    Ttl,                    \* session_ttl_seconds
    MaxTime,                \* bound on the clock
    None                    \* no token, no record

Requests == Logins \cup Logouts \cup Uses

\* A session as it is stored, and the cookie that carries its token.
Record == [expires : 0 .. MaxTime + Ttl, revoked : BOOLEAN]
CookieSet == [token : Logins, until : 0 .. MaxTime + Ttl]

ASSUME KindsAssumption == /\ Logins \cap Logouts = {}
                          /\ Uses \cap (Logins \cup Logouts) = {}
ASSUME NoneAssumption == None \notin Requests \cup Record \cup CookieSet
ASSUME TimeAssumption == Ttl \in Nat \ {0} /\ MaxTime \in Nat

VARIABLES
    crossSite,  \* whether the dashboard is of another site than this service
    clock,    \* datetime.now
    table,    \* dashboard_sessions, by token
    jar,      \* the browser's cookie, until it expires, or None
    pc,       \* where each request is
    carries,  \* the cookie it was sent with
    record,   \* the record that a logout has read
    sentAt,   \* when it was sent
    stale     \* whether somebody had signed out with that cookie by then

request == << pc, carries, record, sentAt, stale >>
vars == << crossSite, clock, table, jar, request >>
-----------------------------------------------------------------------------
AtServer == {"sent", "read", "admitted"}
Over == {"over", "used", "refused", "lost"}

Init == /\ crossSite \in BOOLEAN
        /\ clock = 0
        /\ table = [t \in Logins |-> None]
        /\ jar = None
        /\ pc = [r \in Requests |-> "idle"]
        /\ carries = [r \in Logouts \cup Uses |-> None]
        /\ record = [r \in Logouts |-> None]
        /\ sentAt = [r \in Logins \cup Uses |-> 0]
        /\ stale = [r \in Uses |-> FALSE]

Goto(r, step) == pc' = [pc EXCEPT ![r] = step]

Fixed == UNCHANGED << crossSite, carries, sentAt, stale >>

\* The browser drops a cookie at the end of its max_age.
Cookie == IF jar = None \/ jar.until <= clock THEN None ELSE jar.token

\* The tokens of the logouts whose work is done.
SignedOut == {carries[r] : r \in {q \in Logouts : pc[q] \in {"answered", "over"}}}

Put(f, r, value) == [q \in DOMAIN f |-> IF q = r THEN value ELSE f[q]]

Send(r) == /\ pc[r] = "idle"
           /\ Goto(r, "sent")
           /\ carries' = Put(carries, r, Cookie)
           /\ sentAt' = Put(sentAt, r, clock)
           /\ stale' = Put(stale, r, Cookie \in SignedOut)
           /\ UNCHANGED << crossSite, clock, table, jar, record >>

\* The password is right: a session is stored under a fresh token.  Another
\* session that the request carries is left as it is.
CreateSession(r) ==
    /\ pc[r] = "sent"
    /\ table' = [table EXCEPT ![r] = [expires |-> clock + Ttl, revoked |-> FALSE]]
    /\ Goto(r, "answered")
    /\ Fixed
    /\ UNCHANGED << clock, jar, record >>

\* 401: the credentials are wrong.
RefuseLogin(r) == /\ pc[r] = "sent"
                  /\ Goto(r, "refused")
                  /\ Fixed
                  /\ UNCHANGED << clock, table, jar, record >>

Lookup(t) == IF t = None THEN None ELSE table[t]

\* Seeded fault: a missing record is not noticed.
RevokeReadsBlindly(r) ==
    /\ pc[r] = "sent"
    /\ record' = [record EXCEPT ![r] = Lookup(carries[r])]
    /\ Goto(r, "read")
    /\ Fixed
    /\ UNCHANGED << clock, table, jar >>

\* revoke_session reads the record; without one there is nothing to write.
RevokeReads(r) ==
    /\ pc[r] = "sent"
    /\ record' = [record EXCEPT ![r] = Lookup(carries[r])]
    /\ Goto(r, IF Lookup(carries[r]) = None THEN "answered" ELSE "read")
    /\ Fixed
    /\ UNCHANGED << clock, table, jar >>

\* Seeded fault: the record is written back as it was read.
RevokeWritesBack(r) ==
    /\ pc[r] = "read"
    /\ table' = [table EXCEPT ![carries[r]] = record[r]]
    /\ Goto(r, "answered")
    /\ record' = [record EXCEPT ![r] = None]
    /\ Fixed
    /\ UNCHANGED << clock, jar >>

RevokeWrites(r) ==
    /\ pc[r] = "read"
    /\ table' = [table EXCEPT ![carries[r]] = [record[r] EXCEPT !.revoked = TRUE]]
    /\ Goto(r, "answered")
    /\ record' = [record EXCEPT ![r] = None]
    /\ Fixed
    /\ UNCHANGED << clock, jar >>

\* active_session.
Active(t) == /\ Lookup(t) # None
             /\ ~table[t].revoked
             /\ table[t].expires > clock

\* require_session: the handler goes on, or answers 401.
Check(r) == /\ pc[r] = "sent"
            /\ Goto(r, IF Active(carries[r]) THEN "admitted" ELSE "refused")
            /\ Fixed
            /\ UNCHANGED << clock, table, jar, record >>

\* What the handler is for, an await or a stream later; the session is not
\* looked at again.
Act(r) == /\ pc[r] = "admitted"
          /\ Goto(r, "used")
          /\ Fixed
          /\ UNCHANGED << clock, table, jar, record >>

\* Seeded fault: the answer of a logout leaves the cookie.
ArrivesKeeping(r) ==
    /\ pc[r] = "answered"
    /\ jar' = IF r \in Logins THEN [token |-> r, until |-> clock + Ttl] ELSE jar
    /\ Goto(r, "over")
    /\ Fixed
    /\ UNCHANGED << clock, table, record >>

\* The answer of a login sets the cookie; that of a logout deletes it, unless the
\* browser ignores that for the dashboard's being of another site.
Arrives(r) ==
    /\ pc[r] = "answered"
    /\ jar' = IF r \in Logins THEN [token |-> r, until |-> clock + Ttl]
              ELSE IF crossSite THEN jar ELSE None
    /\ Goto(r, "over")
    /\ Fixed
    /\ UNCHANGED << clock, table, record >>

\* The connection is lost, or the process ends.
Lose(r) == /\ pc[r] \in AtServer \cup {"answered"}
           /\ Goto(r, "lost")
           /\ record' = Put(record, r, None)
           /\ Fixed
           /\ UNCHANGED << clock, table, jar >>

Tick == /\ clock < MaxTime
        /\ clock' = clock + 1
        /\ UNCHANGED << crossSite, table, jar, request >>

Next == \/ \E r \in Requests : Send(r) \/ Arrives(r) \/ Lose(r)
        \/ \E r \in Logins : CreateSession(r) \/ RefuseLogin(r)
        \/ \E r \in Logouts : RevokeReads(r) \/ RevokeWrites(r)
        \/ \E r \in Uses : Check(r) \/ Act(r)
        \/ Tick

Spec == Init /\ [][Next]_vars
-----------------------------------------------------------------------------
\* The values the variables take.
TypeOK == /\ crossSite \in BOOLEAN
          /\ clock \in 0 .. MaxTime
          /\ table \in [Logins -> Record \cup {None}]
          /\ jar \in CookieSet \cup {None}
          /\ pc \in [Requests -> AtServer \cup Over \cup {"idle", "answered"}]
          /\ carries \in [Logouts \cup Uses -> Logins \cup {None}]
          /\ record \in [Logouts -> Record \cup {None}]
          /\ \A r \in Logouts : record[r] # None <=> pc[r] = "read"
          /\ sentAt \in [Logins \cup Uses -> 0 .. MaxTime]
          /\ stale \in [Uses -> BOOLEAN]

\* A request is worked on only with a session that was neither over nor signed
\* out when the request was sent, whatever reads and writes of a logout, another
\* login or a restart come between; and it is refused only if it has no session,
\* if somebody signs out with that session, or if the login is Ttl ago: neither a
\* second login nor a restart ends a session (auth.py 29 to 47; revoke_session,
\* dashboard_store.py 142 to 150).  One that was admitted before a logout may be
\* worked on after it.
CheckedRightly ==
    \A r \in Uses :
       /\ pc[r] \in {"admitted", "used"} =>
             /\ ~stale[r]
             /\ table[carries[r]].expires > sentAt[r]
       /\ pc[r] = "refused" =>
             \/ carries[r] = None
             \/ clock >= sentAt[carries[r]] + Ttl
             \/ \E q \in Logouts : carries[q] = carries[r]

\* A cookie of the browser has a session that is stored and that ends no later
\* than the cookie, at whatever point a login was cut off.  When a logout has come
\* back, the token it was sent with opens nothing any more.  A dashboard of this
\* service's own site has lost that token for good, although the answers of other
\* logins and logouts are under way; one of another site goes on sending it
\* (api.py 180 to 210).
CookieFollows ==
    /\ jar # None => /\ table[jar.token] # None
                     /\ table[jar.token].expires <= jar.until
    /\ \A r \in Logouts : pc[r] = "over" /\ carries[r] # None =>
          /\ table[carries[r]].revoked
          /\ crossSite \/ jar = None \/ jar.token # carries[r]
-----------------------------------------------------------------------------
(***************************************************************************)
(* The inductive invariant behind the two properties.                      *)
(***************************************************************************)
\* A token has a session from the login's answer on, for Ttl; only a logout that
\* was sent with the token revokes it.
TokenInv ==
    /\ \A r \in Logins \cup Uses : sentAt[r] <= clock
    /\ \A t \in Logins :
          /\ pc[t] \in {"answered", "over"} => table[t] # None
          /\ pc[t] \in {"idle", "sent"} => table[t] = None
          /\ table[t] # None =>
                /\ sentAt[t] + Ttl <= table[t].expires
                /\ table[t].expires <= clock + Ttl
                /\ table[t].revoked => \E r \in Logouts : carries[r] = t

\* The browser knows a token once the login's answer has arrived, and a request
\* without one is not admitted.
CarryInv ==
    /\ \A r \in Logouts \cup Uses : /\ pc[r] = "idle" => carries[r] = None
                                    /\ carries[r] # None => pc[carries[r]] = "over"
    /\ \A r \in Uses : pc[r] \in {"admitted", "used"} => carries[r] # None
    /\ jar # None => pc[jar.token] = "over"

\* A logout's write keeps what its read found but for the revocation, which is
\* there when the logout is done and when a request is stale.
RevokeInv ==
    /\ \A r \in Logouts :
          /\ pc[r] = "read" => /\ carries[r] # None
                               /\ record[r].expires = table[carries[r]].expires
          /\ pc[r] \in {"answered", "over"} /\ carries[r] # None =>
                table[carries[r]].revoked
    /\ \A r \in Uses : stale[r] /\ carries[r] # None => table[carries[r]].revoked

SessionInv == /\ TypeOK /\ TokenInv /\ CarryInv /\ RevokeInv
              /\ CheckedRightly /\ CookieFollows
=============================================================================
