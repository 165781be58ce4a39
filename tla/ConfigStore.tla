---------------------------- MODULE ConfigStore ----------------------------
(***************************************************************************)
(* The configuration of agents and providers, edited from several browser  *)
(* tabs.  A tab opens a record, edits the form and saves it with the       *)
(* revision it opened, or creates one under an id that it types, which may *)
(* be in use; or it deletes a record.                                      *)
(*                                                                         *)
(* The handlers that save are coroutines of one event loop and never await *)
(* between the SELECT and the answer; the handlers that delete are plain   *)
(* functions and run in threads of the pool.  The SELECT of either runs    *)
(* outside the write transaction, and so do the audit record and the       *)
(* event: each is a step.  `running' is the tab whose save holds the loop. *)
(*                                                                         *)
(* What a save writes is known by its stamp, the number of the change.     *)
(***************************************************************************)
EXTENDS Naturals, Sequences, SequencesExt

CONSTANTS Ids,         \* ids of agents and providers
          Providers,   \* those of them that are providers, and have a secret
          Tabs,        \* browser tabs, each with one request at a time
          None,        \* no tab
          MaxChanges,  \* bound on the number of changes
          MaxCrashes   \* bound on restarts of the process

ASSUME IdAssumption == Providers \subseteq Ids /\ None \notin Tabs
ASSUME BoundAssumption == MaxChanges \in Nat /\ MaxCrashes \in Nat

VARIABLES
    rows,      \* dashboard_agents and dashboard_providers
    setting,   \* default_agent_id in dashboard_settings: a stamp, 0 if absent
    changes,   \* the number of changes so far
    audit,     \* dashboard_audit
    events,    \* the config_changed events of dashboard_events
    form,      \* what a tab edits: the record as it opened it
    pc,        \* where the tab's request is
    request,   \* what the request read and wrote
    running,   \* the tab whose save holds the event loop, or None
    answered,  \* the changes a tab was told to have succeeded
    crashes    \* how often the process was restarted

store == << rows, setting, changes, audit, events >>
vars == << store, form, pc, request, running, answered, crashes >>
-----------------------------------------------------------------------------
Stamps == 0 .. MaxChanges

\* The revision column, the stamps of config and secret (0 for no secret), and
\* the stamp of the change that created the row.  No row reads as revision 0.
Row == [revision : Stamps, config : Stamps, secret : Stamps, born : Stamps]

Absent == [revision |-> 0, config |-> 0, secret |-> 0, born |-> 0]

Exists(id) == rows[id].revision > 0

Verbs == {"POST", "PUT", "DELETE", "SET"}

Request == [verb : Verbs, id : Ids, seen : Stamps, typed : BOOLEAN,
            stamp : Stamps]

Entry == [verb : Verbs, id : Ids, stamp : Stamps]

Done(t) == [verb |-> request[t].verb, id |-> request[t].id,
            stamp |-> request[t].stamp]

Steps == {"idle", "selected", "written", "audited",
          "to_delete", "deleted", "delete_audited", "set"}

Init == /\ rows = [id \in Ids |-> Absent]
        /\ setting = 0
        /\ changes = 0
        /\ audit = << >>
        /\ events = {}
        /\ form \in [Tabs -> {[id |-> id, row |-> Absent] : id \in Ids}]
        /\ pc = [t \in Tabs |-> "idle"]
        /\ request = [t \in Tabs |->
                        [verb |-> "POST", id |-> form[t].id, seen |-> 0,
                         typed |-> FALSE, stamp |-> 0]]
        /\ running = None
        /\ answered = {}
        /\ crashes = 0

Goto(t, step) == pc' = [pc EXCEPT ![t] = step]

\* The tab opens a record, or types an id, which may be in use, into the blank
\* form of a new one.
Open(t, id) == /\ pc[t] = "idle"
               /\ \E row \in {rows[id], Absent} :
                     form' = [form EXCEPT ![t] = [id |-> id, row |-> row]]
               /\ UNCHANGED << store, pc, request, running, answered, crashes >>

(***************************************************************************)
(* POST and PUT: create_agent, update_agent, create_provider and           *)
(* update_provider with save_agent and save_provider.                      *)
(***************************************************************************)
Verb(t) == IF form[t].row.revision = 0 THEN "POST" ELSE "PUT"

Select(t, typed) ==
    /\ typed => form[t].id \in Providers
    /\ request' = [request EXCEPT ![t] =
                     [verb |-> Verb(t), id |-> form[t].id,
                      seen |-> rows[form[t].id].revision,
                      typed |-> typed, stamp |-> 0]]
    /\ Goto(t, "selected")
    /\ running' = t
    /\ UNCHANGED << store, form, answered, crashes >>

\* Seeded fault: the update does not compare revisions.
SaveSelectsUnchecked(t, typed) ==
    /\ pc[t] = "idle" /\ running = None
    /\ Select(t, typed)

\* Only an update passes an expected revision; on a conflict it answers 409
\* and changes nothing.
SaveSelects(t, typed) ==
    /\ pc[t] = "idle" /\ running = None
    /\ Verb(t) = "PUT" => rows[form[t].id].revision = form[t].row.revision
    /\ Select(t, typed)

Change(t) == /\ changes < MaxChanges
             /\ changes' = changes + 1
             /\ request' = [request EXCEPT ![t].stamp = changes']

\* Seeded fault: the service and the store both count the save.
RevisionCountedTwice(seen) == seen + 2

NextRevision(seen) == seen + 1

\* INSERT OR REPLACE: a blank secret becomes NULL.
SaveWrites(t) ==
    LET id == request[t].id
    IN  /\ pc[t] = "selected"
        /\ Change(t)
        /\ rows' = [rows EXCEPT ![id] =
                      [revision |-> NextRevision(request[t].seen),
                       config |-> changes',
                       secret |-> IF request[t].typed THEN changes' ELSE 0,
                       born |-> IF Exists(id) THEN @.born ELSE changes']]
        /\ Goto(t, "written")
        /\ UNCHANGED << setting, audit, events, form, running, answered, crashes >>

\* Seeded fault: an update is audited as little as a creation is.
SaveNotAudited(t) ==
    /\ pc[t] = "written"
    /\ Goto(t, "audited")
    /\ UNCHANGED << store, form, request, running, answered, crashes >>

SaveAudits(t) ==
    /\ pc[t] = "written"
    /\ audit' = IF request[t].verb = "PUT" THEN Append(audit, Done(t)) ELSE audit
    /\ Goto(t, "audited")
    /\ UNCHANGED << rows, setting, changes, events, form, request, running, answered,
                    crashes >>

\* The event is recorded and the answer replaces the form.
Answer(t) == /\ events' = events \cup {Done(t)}
             /\ answered' = answered \cup {Done(t)}
             /\ Goto(t, "idle")

SaveAnswers(t) ==
    /\ pc[t] = "audited"
    /\ Answer(t)
    /\ form' = [form EXCEPT ![t].row =
                  [revision |-> NextRevision(request[t].seen),
                   config |-> request[t].stamp,
                   secret |-> IF request[t].typed THEN request[t].stamp ELSE 0,
                   born |-> rows[request[t].id].born]]
    /\ running' = None
    /\ UNCHANGED << rows, setting, changes, audit, request, crashes >>

(***************************************************************************)
(* DELETE: delete_agent and delete_provider, in a thread.  They pass no    *)
(* revision; the form of the tab stays as it is.                           *)
(***************************************************************************)
DeleteSelects(t, id) ==
    /\ pc[t] = "idle"
    /\ Exists(id)
    /\ request' = [request EXCEPT ![t] =
                     [verb |-> "DELETE", id |-> id, seen |-> rows[id].revision,
                      typed |-> FALSE, stamp |-> 0]]
    /\ Goto(t, "to_delete")
    /\ UNCHANGED << store, form, running, answered, crashes >>

DeleteWrites(t) ==
    /\ pc[t] = "to_delete"
    /\ Change(t)
    /\ rows' = [rows EXCEPT ![request[t].id] = Absent]
    /\ Goto(t, "deleted")
    /\ UNCHANGED << setting, audit, events, form, running, answered, crashes >>

DeleteAudits(t) ==
    /\ pc[t] = "deleted"
    /\ audit' = Append(audit, Done(t))
    /\ Goto(t, "delete_audited")
    /\ UNCHANGED << rows, setting, changes, events, form, request, running, answered,
                    crashes >>

DeleteAnswers(t) ==
    /\ pc[t] = "delete_audited"
    /\ Answer(t)
    /\ UNCHANGED << rows, setting, changes, audit, form, request, running, crashes >>

(***************************************************************************)
(* PUT /dashboard/settings, a coroutine: no revision, no audit record.     *)
(***************************************************************************)
SetWrites(t) ==
    /\ pc[t] = "idle" /\ running = None
    /\ changes < MaxChanges
    /\ changes' = changes + 1
    /\ setting' = changes'
    /\ request' = [request EXCEPT ![t] =
                     [verb |-> "SET", id |-> form[t].id, seen |-> 0,
                      typed |-> FALSE, stamp |-> changes']]
    /\ Goto(t, "set")
    /\ running' = t
    /\ UNCHANGED << rows, audit, events, form, answered, crashes >>

SetAnswers(t) ==
    /\ pc[t] = "set"
    /\ Answer(t)
    /\ running' = None
    /\ UNCHANGED << rows, setting, changes, audit, form, request, crashes >>

\* The process stops between any two steps and starts again.
Crash == /\ crashes < MaxCrashes
         /\ crashes' = crashes + 1
         /\ \E t \in Tabs : pc[t] # "idle"
         /\ pc' = [t \in Tabs |-> "idle"]
         /\ running' = None
         /\ UNCHANGED << store, form, request, answered >>

Next == \/ \E t \in Tabs :
              \/ \E id \in Ids : Open(t, id) \/ DeleteSelects(t, id)
              \/ \E typed \in BOOLEAN : SaveSelects(t, typed)
              \/ SaveWrites(t) \/ SaveAudits(t) \/ SaveAnswers(t)
              \/ DeleteWrites(t) \/ DeleteAudits(t) \/ DeleteAnswers(t)
              \/ SetWrites(t) \/ SetAnswers(t)
        \/ Crash

Spec == Init /\ [][Next]_vars
-----------------------------------------------------------------------------
\* The values the variables take.
TypeOK == /\ rows \in [Ids -> Row]
          /\ setting \in Stamps /\ changes \in Stamps
          /\ audit \in Seq(Entry)
          /\ events \subseteq Entry
          /\ form \in [Tabs -> [id : Ids, row : Row]]
          /\ pc \in [Tabs -> Steps]
          /\ request \in [Tabs -> Request]
          /\ running \in Tabs \cup {None}
          /\ answered \subseteq Entry
          /\ crashes \in 0 .. MaxCrashes

Updates(t) == SaveWrites(t) /\ request[t].verb = "PUT"

\* In the life of a record, from its creation to its deletion, an update replaces
\* the very contents that its tab opened.  A creation passes no revision and does
\* replace a record in use, with whatever others have saved in it (api.py 277 to
\* 283, 362 to 369); but nobody is left believing that the old contents are there:
\* after either, no tab's form of that record, one opened before included, has its
\* revision, so that saving it gets a 409 (save_agent and save_provider, 62 to 93).
NoBlindUpdate ==
    [][\A t \in Tabs : SaveWrites(t) /\ Exists(request[t].id) =>
          LET id == request[t].id
              SameLife(q) == form[q].id = id /\ form[q].row.born = rows[id].born
          IN  /\ Updates(t) /\ SameLife(t) => rows[id].config = form[t].row.config
              /\ \A q \in Tabs : SameLife(q) =>
                    form[q].row.revision # rows'[id].revision]_vars

\* A tab is told that a change succeeded only when the event feed has it, and an
\* update or a deletion only when the audit has it too, whatever crashes; and the
\* audit has the updates in the order in which they were committed (api.py 263 to
\* 304, 371 to 429, 472 to 480).
AnswerMeansRecorded ==
    /\ \A e \in answered :
          /\ e \in events
          /\ e.verb \in {"PUT", "DELETE"} => e \in ToSet(audit)
    /\ \A i, k \in 1 .. Len(audit) :
          i < k /\ audit[i].verb = "PUT" /\ audit[k].verb = "PUT" =>
             audit[i].stamp < audit[k].stamp

\* A provider keeps its secret when it is saved with the field left blank, as the
\* editor's placeholder says (page.tsx 147): saveProvider sends none, and
\* save_provider (70) stores what it is sent.
BlankKeepsSecret ==
    [][\A t \in Tabs : Updates(t) /\ ~request[t].typed =>
          LET id == request[t].id
          IN  Exists(id) => rows'[id].secret = rows[id].secret]_vars
-----------------------------------------------------------------------------
(***************************************************************************)
(* The inductive invariant behind the properties that hold.                *)
(***************************************************************************)
\* Every number was given out, and no record is at a later revision than there
\* were changes.
NumberInv ==
    /\ \A id \in Ids : /\ rows[id].revision <= changes
                       /\ rows[id].born <= changes
                       /\ Exists(id) => rows[id].born > 0
    /\ \A t \in Tabs : /\ form[t].row.born <= changes
                       /\ request[t].seen <= changes
                       /\ request[t].stamp <= changes
    /\ \A i \in 1 .. Len(audit) : audit[i].stamp <= changes

Saving == {"selected", "written", "audited"}
Deleting == {"to_delete", "deleted", "delete_audited"}

\* The tab that holds the event loop is the one that saves; a save is of the
\* record in the form.
LoopInv ==
    \A t \in Tabs :
       /\ running = t <=> pc[t] \in Saving \cup {"set"}
       /\ pc[t] \in Deleting => request[t].verb = "DELETE"
       /\ pc[t] = "set" => request[t].verb = "SET"
       /\ pc[t] \in Saving => /\ request[t].verb \in {"POST", "PUT"}
                              /\ request[t].id = form[t].id

\* Nothing but a deletion comes between the SELECT and the answer of a save.
SaveInv ==
    \A t \in Tabs :
       LET r == request[t] row == rows[r.id]
       IN  /\ pc[t] = "selected" => /\ row.revision \in {0, r.seen}
                                    /\ r.verb = "PUT" => r.seen = form[t].row.revision
           /\ pc[t] \in {"written", "audited"} =>
                 /\ r.seen < changes
                 /\ row.revision > 0 => /\ row.revision = r.seen + 1
                                        /\ row.config = r.stamp

\* In the life of a record, its revision says what it contains.
VersionInv ==
    \A t \in Tabs :
       LET opened == form[t].row row == rows[form[t].id]
       IN  row.revision > 0 /\ row.born = opened.born =>
              /\ opened.revision <= row.revision
              /\ opened.revision = row.revision => opened.config = row.config

\* What a request has recorded before it answers; a save that has not is later
\* than all that were.
RecordInv ==
    \A t \in Tabs :
       /\ pc[t] = "written" /\ request[t].verb = "PUT" =>
             \A i \in 1 .. Len(audit) :
                audit[i].verb = "PUT" => audit[i].stamp < request[t].stamp
       /\ pc[t] = "audited" /\ request[t].verb = "PUT" => Done(t) \in ToSet(audit)
       /\ pc[t] = "delete_audited" => Done(t) \in ToSet(audit)

ConfigInv ==
    TypeOK /\ NumberInv /\ LoopInv /\ SaveInv /\ VersionInv /\ RecordInv
=============================================================================
