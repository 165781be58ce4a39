-------------------------- MODULE ConfigStoreProofs --------------------------
(***************************************************************************)
(* Proofs about ConfigStore, for every set of records and tabs and every   *)
(* number of changes and restarts.                                         *)
(***************************************************************************)
EXTENDS ConfigStore, TLAPS

\* One more record in the audit.
LEMMA Appended ==
    ASSUME NEW S, NEW s \in Seq(S), NEW e \in S
    PROVE  /\ Append(s, e) \in Seq(S)
           /\ Len(Append(s, e)) = Len(s) + 1
           /\ \A i \in 1 .. Len(s) : Append(s, e)[i] = s[i]
           /\ Append(s, e)[Len(s) + 1] = e
           /\ e \in ToSet(Append(s, e)) /\ ToSet(s) \subseteq ToSet(Append(s, e))
<1> DEFINE a == Append(s, e)
<1>1. /\ a \in Seq(S) /\ Len(a) = Len(s) + 1 /\ Len(s) \in Nat
      /\ \A i \in 1 .. Len(s) : a[i] = s[i]
      /\ a[Len(s) + 1] = e
      /\ DOMAIN s = 1 .. Len(s) /\ DOMAIN a = 1 .. Len(s) + 1
  OBVIOUS
<1> HIDE DEF a
<1>2. Len(s) + 1 \in DOMAIN a /\ DOMAIN s \subseteq DOMAIN a
  BY <1>1
<1>3. e \in ToSet(a)
  BY <1>1, <1>2 DEF ToSet
<1>4. ASSUME NEW x \in ToSet(s) PROVE x \in ToSet(a)
  <2>1. PICK i \in DOMAIN s : x = s[i]
    BY <1>4 DEF ToSet
  <2> QED BY <1>1, <1>2, <2>1 DEF ToSet
<1> QED BY <1>1, <1>3, <1>4 DEF a

LEMMA InitInv == Init => ConfigInv /\ AnswerMeansRecorded
<1> SUFFICES ASSUME Init PROVE ConfigInv /\ AnswerMeansRecorded
  OBVIOUS
<1> USE BoundAssumption, IdAssumption DEF Init
<1>1. \A t \in Tabs : form[t].id \in Ids /\ form[t].row = Absent
  OBVIOUS
<1>2. Absent \in Row
  BY DEF Absent, Row, Stamps
<1>3. form \in [Tabs -> [id : Ids, row : Row]]
  BY <1>2
<1>4. request \in [Tabs -> Request]
  BY <1>1 DEF Request, Verbs, Stamps
<1>5. TypeOK
  BY <1>2, <1>3, <1>4 DEF TypeOK, Stamps, Steps
<1>6. NumberInv
  BY <1>1 DEF NumberInv, Absent, Exists
<1>7. LoopInv /\ SaveInv
  BY DEF LoopInv, SaveInv, Saving, Deleting
<1>8. VersionInv
  BY <1>1 DEF VersionInv, Absent
<1>9. RecordInv /\ AnswerMeansRecorded
  BY DEF RecordInv, AnswerMeansRecorded
<1> QED BY <1>5, <1>6, <1>7, <1>8, <1>9 DEF ConfigInv

-----------------------------------------------------------------------------
\* The numbers of the store as numbers.
LEMMA Numbers ==
    TypeOK => /\ changes \in Nat /\ MaxChanges \in Nat /\ Stamps \subseteq Nat
              /\ \A id \in Ids : /\ rows[id].revision \in Stamps
                                 /\ rows[id].config \in Stamps
                                 /\ rows[id].secret \in Stamps
                                 /\ rows[id].born \in Stamps
              /\ \A t \in Tabs : /\ form[t].id \in Ids
                                 /\ form[t].row \in Row
                                 /\ form[t].row.revision \in Stamps
                                 /\ form[t].row.born \in Stamps
                                 /\ request[t].verb \in Verbs
                                 /\ request[t].id \in Ids
                                 /\ request[t].seen \in Stamps
                                 /\ request[t].stamp \in Stamps
                                 /\ Done(t) \in Entry
                                 /\ Done(t).verb = request[t].verb
                                 /\ Done(t).stamp = request[t].stamp
<1> SUFFICES ASSUME TypeOK
             PROVE  /\ changes \in Nat /\ MaxChanges \in Nat /\ Stamps \subseteq Nat
                    /\ \A id \in Ids : /\ rows[id].revision \in Stamps
                                       /\ rows[id].config \in Stamps
                                       /\ rows[id].secret \in Stamps
                                       /\ rows[id].born \in Stamps
                    /\ \A t \in Tabs : /\ form[t].id \in Ids
                                       /\ form[t].row \in Row
                                       /\ form[t].row.revision \in Stamps
                                       /\ form[t].row.born \in Stamps
                                       /\ request[t].verb \in Verbs
                                       /\ request[t].id \in Ids
                                       /\ request[t].seen \in Stamps
                                       /\ request[t].stamp \in Stamps
                                       /\ Done(t) \in Entry
                                       /\ Done(t).verb = request[t].verb
                                       /\ Done(t).stamp = request[t].stamp
  OBVIOUS
<1>1. changes \in Nat /\ MaxChanges \in Nat /\ Stamps \subseteq Nat
  BY BoundAssumption DEF TypeOK, Stamps
<1>2. ASSUME NEW id \in Ids
      PROVE  /\ rows[id].revision \in Stamps /\ rows[id].config \in Stamps
             /\ rows[id].secret \in Stamps /\ rows[id].born \in Stamps
  BY DEF TypeOK, Row
<1>3. ASSUME NEW t \in Tabs
      PROVE  /\ form[t].id \in Ids /\ form[t].row \in Row
             /\ form[t].row.revision \in Stamps /\ form[t].row.born \in Stamps
  BY DEF TypeOK, Row
<1>4. ASSUME NEW t \in Tabs
      PROVE  /\ request[t].verb \in Verbs /\ request[t].id \in Ids
             /\ request[t].seen \in Stamps /\ request[t].stamp \in Stamps
  BY DEF TypeOK, Request
<1>5. ASSUME NEW t \in Tabs
      PROVE  /\ Done(t) \in Entry /\ Done(t).verb = request[t].verb
             /\ Done(t).stamp = request[t].stamp
  BY <1>4 DEF Entry, Done
<1> QED BY <1>1, <1>2, <1>3, <1>4, <1>5

\* What a request becomes.
LEMMA Requested ==
    ASSUME TypeOK, NEW t \in Tabs, Change(t)
    PROVE  /\ changes' = changes + 1 /\ changes' \in Stamps
           /\ request' \in [Tabs -> Request]
           /\ request'[t].verb = request[t].verb /\ request'[t].id = request[t].id
           /\ request'[t].seen = request[t].seen /\ request'[t].stamp = changes'
           /\ \A q \in Tabs \ {t} : request'[q] = request[q]
<1>1. changes' = changes + 1 /\ changes' \in Stamps
  BY BoundAssumption DEF TypeOK, Stamps, Change
<1>2. request' = [request EXCEPT ![t] = [request[t] EXCEPT !.stamp = changes']]
  BY DEF Change
<1>3. [request[t] EXCEPT !.stamp = changes'] \in Request
  BY <1>1 DEF TypeOK, Request
<1> QED BY <1>1, <1>2, <1>3 DEF TypeOK, Request

\* What a write of a save makes of the record.
LEMMA Saved ==
    ASSUME ConfigInv, NEW t \in Tabs, SaveWrites(t)
    PROVE  LET id == request[t].id
           IN  /\ rows' \in [Ids -> Row]
               /\ rows'[id].revision = request[t].seen + 1
               /\ rows'[id].config = changes'
               /\ rows'[id].born = IF Exists(id) THEN rows[id].born ELSE changes'
               /\ \A k \in Ids \ {id} : rows'[k] = rows[k]
<1> DEFINE id == request[t].id
           row == [revision |-> request[t].seen + 1, config |-> changes',
                   secret |-> IF request[t].typed THEN changes' ELSE 0,
                   born |-> IF Exists(id) THEN rows[id].born ELSE changes']
<1>1. TypeOK /\ NumberInv
  BY DEF ConfigInv
<1>2. /\ changes' \in Stamps /\ changes' = changes + 1 /\ 0 \in Stamps
      /\ request[t].seen + 1 \in Stamps /\ id \in Ids
      /\ rows[id].born \in Stamps
  BY <1>1, Numbers, Requested, BoundAssumption DEF SaveWrites, NumberInv, Stamps
<1>3. row \in Row
  BY <1>2 DEF Row
<1>4. /\ row.revision = request[t].seen + 1 /\ row.config = changes'
      /\ row.born = IF Exists(id) THEN rows[id].born ELSE changes'
  OBVIOUS
<1>5. rows' = [rows EXCEPT ![id] = row]
  BY DEF SaveWrites, NextRevision
<1> HIDE DEF row
<1> QED BY <1>1, <1>2, <1>3, <1>4, <1>5 DEF TypeOK

LEMMA TypeStep == ConfigInv /\ [Next]_vars => TypeOK'
<1> SUFFICES ASSUME ConfigInv, [Next]_vars PROVE TypeOK'
  OBVIOUS
<1>t. TypeOK
  BY DEF ConfigInv
<1> USE <1>t, Numbers DEF TypeOK, Goto, store, Steps
<1>1. ASSUME NEW t \in Tabs, NEW id \in Ids, Open(t, id) PROVE TypeOK'
  <2>1. PICK row \in {rows[id], Absent} :
           form' = [form EXCEPT ![t] = [id |-> id, row |-> row]]
    BY <1>1 DEF Open
  <2>2. row \in Row
    BY BoundAssumption DEF Absent, Row, Stamps
  <2>3. form' \in [Tabs -> [id : Ids, row : Row]]
    BY <2>1, <2>2
  <2> QED BY <1>1, <2>3 DEF Open
<1>2. ASSUME NEW t \in Tabs, NEW id \in Ids, DeleteSelects(t, id) PROVE TypeOK'
  <2>1. [verb |-> "DELETE", id |-> id, seen |-> rows[id].revision,
         typed |-> FALSE, stamp |-> 0] \in Request
    BY BoundAssumption DEF Request, Verbs, Stamps
  <2> QED BY <1>2, <2>1 DEF DeleteSelects
<1>3. ASSUME NEW t \in Tabs, NEW typed \in BOOLEAN, SaveSelects(t, typed) PROVE TypeOK'
  <2>1. [verb |-> Verb(t), id |-> form[t].id, seen |-> rows[form[t].id].revision,
         typed |-> typed, stamp |-> 0] \in Request
    BY BoundAssumption DEF Request, Verbs, Stamps, Verb
  <2> QED BY <1>3, <2>1 DEF SaveSelects, Select
<1>4. ASSUME NEW t \in Tabs, SaveWrites(t) PROVE TypeOK'
  BY <1>4, Requested, Saved DEF SaveWrites
<1>5. ASSUME NEW t \in Tabs, SaveAudits(t) PROVE TypeOK'
  BY <1>5, Appended DEF SaveAudits
<1>6. ASSUME NEW t \in Tabs, SaveAnswers(t) PROVE TypeOK'
  <2> DEFINE row == [revision |-> NextRevision(request[t].seen),
                     config |-> request[t].stamp,
                     secret |-> IF request[t].typed THEN request[t].stamp ELSE 0,
                     born |-> rows[request[t].id].born]
  <2>1. request[t].seen + 1 \in Stamps /\ 0 \in Stamps
    BY <1>6, BoundAssumption DEF SaveAnswers, ConfigInv, SaveInv, Stamps
  <2>2. row \in Row
    BY <2>1 DEF Row, NextRevision
  <2>3. form' = [form EXCEPT ![t] = [form[t] EXCEPT !.row = row]]
    BY <1>6 DEF SaveAnswers
  <2> HIDE DEF row
  <2>4. form' \in [Tabs -> [id : Ids, row : Row]]
    BY <2>2, <2>3
  <2> QED BY <1>6, <2>4 DEF SaveAnswers, Answer
<1>7. ASSUME NEW t \in Tabs, DeleteWrites(t) PROVE TypeOK'
  <2>1. Absent \in Row
    BY BoundAssumption DEF Absent, Row, Stamps
  <2> QED BY <1>7, <2>1, Requested DEF DeleteWrites
<1>8. ASSUME NEW t \in Tabs, DeleteAudits(t) PROVE TypeOK'
  BY <1>8, Appended DEF DeleteAudits
<1>9. ASSUME NEW t \in Tabs, DeleteAnswers(t) PROVE TypeOK'
  BY <1>9 DEF DeleteAnswers, Answer
<1>10. ASSUME NEW t \in Tabs, SetWrites(t) PROVE TypeOK'
  <2>1. changes' \in Stamps /\ 0 \in Stamps
    BY <1>10, BoundAssumption DEF SetWrites, Stamps
  <2>2. [verb |-> "SET", id |-> form[t].id, seen |-> 0, typed |-> FALSE,
         stamp |-> changes'] \in Request
    BY <2>1 DEF Request, Verbs
  <2> QED BY <1>10, <2>1, <2>2 DEF SetWrites
<1>11. ASSUME NEW t \in Tabs, SetAnswers(t) PROVE TypeOK'
  BY <1>11 DEF SetAnswers, Answer
<1>12. CASE Crash
  BY <1>12, BoundAssumption DEF Crash
<1>13. CASE UNCHANGED vars
  BY <1>13 DEF vars
<1> QED BY <1>1, <1>2, <1>3, <1>4, <1>5, <1>6, <1>7, <1>8, <1>9, <1>10, <1>11,
           <1>12, <1>13 DEF Next

-----------------------------------------------------------------------------
LEMMA NumberStep == ConfigInv /\ [Next]_vars => NumberInv'
<1> SUFFICES ASSUME ConfigInv, [Next]_vars PROVE NumberInv'
  OBVIOUS
<1>t. TypeOK /\ NumberInv
  BY DEF ConfigInv
<1>n. /\ changes \in Nat /\ MaxChanges \in Nat /\ audit \in Seq(Entry)
      /\ \A id \in Ids : rows[id].revision \in Nat /\ rows[id].born \in Nat
      /\ \A t \in Tabs : /\ form[t].id \in Ids /\ form[t].row.born \in Nat
                         /\ request[t].id \in Ids
                         /\ request[t].seen \in Nat /\ request[t].stamp \in Nat
  BY <1>t, Numbers DEF TypeOK
<1>r. \A id \in Ids : /\ rows[id].revision <= changes /\ rows[id].born <= changes
                      /\ rows[id].revision > 0 => rows[id].born > 0
  BY <1>t DEF NumberInv, Exists
<1>q. \A t \in Tabs : /\ form[t].row.born <= changes
                      /\ request[t].seen <= changes /\ request[t].stamp <= changes
  BY <1>t DEF NumberInv
<1>a. \A i \in 1 .. Len(audit) : audit[i].stamp \in Nat /\ audit[i].stamp <= changes
  <2>1. \A i \in 1 .. Len(audit) : audit[i] \in Entry
    BY <1>n
  <2> QED BY <1>t, <2>1 DEF NumberInv, Entry, Stamps
<1>o. ASSUME changes' = changes + 1
      PROVE  \A x \in Nat : x <= changes => x <= changes'
  BY <1>o, <1>n
<1>s. ASSUME \A id \in Ids : /\ rows'[id].revision <= changes' /\ rows'[id].born <= changes'
                             /\ rows'[id].revision > 0 => rows'[id].born > 0,
             \A t \in Tabs : /\ form'[t].row.born <= changes'
                             /\ request'[t].seen <= changes'
                             /\ request'[t].stamp <= changes',
             \A i \in 1 .. Len(audit') : audit'[i].stamp <= changes'
      PROVE  NumberInv'
  BY <1>s DEF NumberInv, Exists
<1>1. ASSUME NEW t \in Tabs, NEW id \in Ids, Open(t, id) PROVE NumberInv'
  <2>1. /\ UNCHANGED << rows, changes, audit, request >>
        /\ \A q \in Tabs \ {t} : form'[q] = form[q]
        /\ form'[t].row \in {rows[id], Absent}
    BY <1>1, <1>t DEF Open, store, TypeOK
  <2>2. rows[id].born <= changes /\ Absent.born <= changes
    BY <1>r, <1>n DEF Absent
  <2>3. \A q \in Tabs : form'[q].row.born <= changes
    BY <1>q, <2>1, <2>2
  <2> QED BY <1>t, <2>1, <2>3 DEF NumberInv, Exists
<1>2. ASSUME UNCHANGED << rows, changes, form, audit >>,
             NEW t \in Tabs, request'[t].seen <= changes, request'[t].stamp <= changes,
             \A q \in Tabs \ {t} : request'[q] = request[q]
      PROVE  NumberInv'
  <2>1. \A q \in Tabs : request'[q].seen <= changes /\ request'[q].stamp <= changes
    BY <1>q, <1>2
  <2> QED BY <1>t, <1>2, <2>1 DEF NumberInv, Exists
<1>3. ASSUME NEW t \in Tabs, NEW id \in Ids, DeleteSelects(t, id) PROVE NumberInv'
  <2>1. /\ request'[t].seen = rows[id].revision /\ request'[t].stamp = 0
        /\ \A q \in Tabs \ {t} : request'[q] = request[q]
        /\ UNCHANGED << rows, changes, form, audit >>
    BY <1>3, <1>t DEF DeleteSelects, store, TypeOK
  <2> QED BY <1>2, <1>r, <1>n, <2>1
<1>4. ASSUME NEW t \in Tabs, NEW typed, SaveSelects(t, typed) PROVE NumberInv'
  <2>1. /\ request'[t].seen = rows[form[t].id].revision /\ request'[t].stamp = 0
        /\ \A q \in Tabs \ {t} : request'[q] = request[q]
        /\ UNCHANGED << rows, changes, form, audit >>
    BY <1>4, <1>t DEF SaveSelects, Select, store, TypeOK
  <2> QED BY <1>2, <1>r, <1>n, <2>1
<1>5. ASSUME NEW t \in Tabs, SaveWrites(t) PROVE NumberInv'
  <2> DEFINE id == request[t].id
  <2>1. /\ changes' = changes + 1 /\ UNCHANGED << form, audit >>
        /\ request'[t].seen = request[t].seen /\ request'[t].stamp = changes'
        /\ \A q \in Tabs \ {t} : request'[q] = request[q]
    BY <1>5, <1>t, Requested DEF SaveWrites
  <2>2. /\ rows'[id].revision = request[t].seen + 1
        /\ rows'[id].born = IF Exists(id) THEN rows[id].born ELSE changes'
        /\ \A k \in Ids \ {id} : rows'[k] = rows[k]
    BY <1>5, Saved
  <2>3. id \in Ids /\ changes' \in Nat /\ changes' > 0
    BY <1>n, <2>1
  <2>4. request[t].seen + 1 <= changes'
    BY <1>n, <1>q, <2>1
  <2>5. rows'[id].born <= changes' /\ rows'[id].born > 0
    <3>1. CASE Exists(id)
      BY <1>n, <1>r, <1>o, <2>1, <2>2, <2>3, <3>1 DEF Exists
    <3>2. CASE ~Exists(id)
      BY <2>2, <2>3, <3>2
    <3> QED BY <3>1, <3>2
  <2> HIDE DEF id
  <2>6. \A k \in Ids \ {id} : /\ rows'[k].revision <= changes' /\ rows'[k].born <= changes'
                              /\ rows'[k].revision > 0 => rows'[k].born > 0
    BY <1>n, <1>r, <1>o, <2>1, <2>2
  <2>7. \A q \in Tabs : /\ form'[q].row.born <= changes'
                        /\ request'[q].seen <= changes' /\ request'[q].stamp <= changes'
    BY <1>n, <1>q, <1>o, <2>1, <2>3
  <2>8. \A i \in 1 .. Len(audit') : audit'[i].stamp <= changes'
    BY <1>a, <1>o, <2>1
  <2> QED BY <1>s, <2>2, <2>4, <2>5, <2>6, <2>7, <2>8
<1>6. ASSUME NEW t \in Tabs, audit' = Append(audit, Done(t)),
             UNCHANGED << rows, changes, form, request >>
      PROVE  NumberInv'
  <2>1. Done(t) \in Entry /\ Done(t).stamp <= changes
    BY <1>t, <1>q, Numbers
  <2>2. \A i \in 1 .. Len(audit') : audit'[i].stamp <= changes
    BY <1>a, <1>n, <1>6, <2>1, Appended
  <2> QED BY <1>r, <1>q, <1>s, <1>6, <2>2
<1>7. ASSUME NEW t \in Tabs, SaveAudits(t) PROVE NumberInv'
  <2>1. CASE request[t].verb = "PUT"
    BY <1>6, <1>7, <2>1 DEF SaveAudits
  <2>2. CASE request[t].verb # "PUT"
    BY <1>t, <1>7, <2>2 DEF SaveAudits, NumberInv, Exists
  <2> QED BY <2>1, <2>2
<1>8. ASSUME NEW t \in Tabs, SaveAnswers(t) PROVE NumberInv'
  <2>1. /\ UNCHANGED << rows, changes, audit, request >>
        /\ \A q \in Tabs \ {t} : form'[q] = form[q]
        /\ form'[t].row.born = rows[request[t].id].born
    BY <1>8, <1>t DEF SaveAnswers, TypeOK
  <2> QED BY <1>n, <1>r, <1>q, <1>a, <1>s, <2>1
<1>9. ASSUME NEW t \in Tabs, DeleteWrites(t) PROVE NumberInv'
  <2>1. /\ changes' = changes + 1 /\ UNCHANGED << form, audit >>
        /\ request'[t].seen = request[t].seen /\ request'[t].stamp = changes'
        /\ \A q \in Tabs \ {t} : request'[q] = request[q]
    BY <1>9, <1>t, Requested DEF DeleteWrites
  <2>2. \A k \in Ids : rows'[k] = rows[k] \/ rows'[k] = Absent
    BY <1>9, <1>t DEF DeleteWrites, TypeOK
  <2>n. Absent.revision = 0 /\ Absent.born = 0
    BY DEF Absent
  <2>3. changes' \in Nat /\ 0 <= changes' /\ changes' <= changes'
    BY <1>n, <2>1
  <2>4. \A k \in Ids : /\ rows'[k].revision <= changes' /\ rows'[k].born <= changes'
                       /\ rows'[k].revision > 0 => rows'[k].born > 0
    BY <1>n, <1>r, <1>o, <2>1, <2>2, <2>n, <2>3
  <2>5. \A q \in Tabs : /\ form'[q].row.born <= changes'
                        /\ request'[q].seen <= changes'
                        /\ request'[q].stamp <= changes'
    BY <1>n, <1>q, <1>o, <2>1, <2>3
  <2>6. \A i \in 1 .. Len(audit') : audit'[i].stamp <= changes'
    BY <1>a, <1>o, <2>1
  <2> QED BY <1>s, <2>4, <2>5, <2>6
<1>10. ASSUME NEW t \in Tabs, DeleteAudits(t) PROVE NumberInv'
  BY <1>6, <1>10 DEF DeleteAudits
<1>11. ASSUME NEW t \in Tabs, DeleteAnswers(t) \/ SetAnswers(t) PROVE NumberInv'
  BY <1>11, <1>t DEF DeleteAnswers, SetAnswers, NumberInv, Exists
<1>12. ASSUME NEW t \in Tabs, SetWrites(t) PROVE NumberInv'
  <2>1. /\ changes' = changes + 1 /\ UNCHANGED << form, audit, rows >>
        /\ request'[t].seen = 0 /\ request'[t].stamp = changes'
        /\ \A q \in Tabs \ {t} : request'[q] = request[q]
    BY <1>12, <1>t DEF SetWrites, TypeOK
  <2>2. 0 <= changes' /\ changes' <= changes'
    BY <1>n, <2>1
  <2>3. \A q \in Tabs : /\ form'[q].row.born <= changes'
                        /\ request'[q].seen <= changes'
                        /\ request'[q].stamp <= changes'
    BY <1>n, <1>q, <1>o, <2>1, <2>2
  <2>4. \A k \in Ids : /\ rows'[k].revision <= changes' /\ rows'[k].born <= changes'
                       /\ rows'[k].revision > 0 => rows'[k].born > 0
    BY <1>n, <1>r, <1>o, <2>1
  <2>5. \A i \in 1 .. Len(audit') : audit'[i].stamp <= changes'
    BY <1>a, <1>o, <2>1
  <2> QED BY <1>s, <2>3, <2>4, <2>5
<1>13. CASE Crash \/ UNCHANGED vars
  BY <1>13, <1>t DEF Crash, vars, store, NumberInv, Exists
<1> QED BY <1>1, <1>3, <1>4, <1>5, <1>7, <1>8, <1>9, <1>10, <1>11, <1>12, <1>13
        DEF Next

-----------------------------------------------------------------------------
\* What a tab does, one disjunct of Next.
TabStep(t) ==
    \/ \E id \in Ids : Open(t, id) \/ DeleteSelects(t, id)
    \/ \E typed \in BOOLEAN : SaveSelects(t, typed)
    \/ SaveWrites(t) \/ SaveAudits(t) \/ SaveAnswers(t)
    \/ DeleteWrites(t) \/ DeleteAudits(t) \/ DeleteAnswers(t)
    \/ SetWrites(t) \/ SetAnswers(t)

\* It leaves the other tabs where they are.
LEMMA OthersWait ==
    ASSUME TypeOK, NEW t \in Tabs, TabStep(t)
    PROVE  \A q \in Tabs \ {t} : /\ pc'[q] = pc[q]
                                 /\ request'[q] = request[q]
                                 /\ form'[q] = form[q]
<1> USE DEF Goto, TypeOK
<1>1. CASE \E id \in Ids : Open(t, id) \/ DeleteSelects(t, id)
  BY <1>1 DEF Open, DeleteSelects
<1>2. CASE \E typed \in BOOLEAN : SaveSelects(t, typed)
  BY <1>2 DEF SaveSelects, Select
<1>3. CASE SaveWrites(t) \/ DeleteWrites(t)
  BY <1>3, Requested DEF SaveWrites, DeleteWrites
<1>4. CASE SaveAudits(t) \/ DeleteAudits(t) \/ DeleteAnswers(t) \/ SetAnswers(t)
  BY <1>4 DEF SaveAudits, DeleteAudits, DeleteAnswers, SetAnswers, Answer
<1>5. CASE SaveAnswers(t)
  BY <1>5 DEF SaveAnswers, Answer
<1>6. CASE SetWrites(t)
  BY <1>6 DEF SetWrites
<1> QED BY <1>1, <1>2, <1>3, <1>4, <1>5, <1>6 DEF TabStep

LEMMA LoopStep == ConfigInv /\ [Next]_vars => LoopInv'
<1> SUFFICES ASSUME ConfigInv, [Next]_vars PROVE LoopInv'
  OBVIOUS
<1>t. TypeOK /\ LoopInv
  BY DEF ConfigInv
<1>p. pc \in [Tabs -> Steps] /\ None \notin Tabs
  BY <1>t, IdAssumption DEF TypeOK
<1>1. ASSUME NEW t \in Tabs, TabStep(t),
             \/ running' = running /\ (pc'[t] \in Saving \cup {"set"} <=>
                                          pc[t] \in Saving \cup {"set"})
             \/ running = None /\ running' = t /\ pc'[t] \in Saving \cup {"set"}
             \/ running = t /\ running' = None /\ pc'[t] \notin Saving \cup {"set"},
             pc'[t] \in Deleting => request'[t].verb = "DELETE",
             pc'[t] = "set" => request'[t].verb = "SET",
             pc'[t] \in Saving => /\ request'[t].verb \in {"POST", "PUT"}
                                  /\ request'[t].id = form'[t].id
      PROVE  LoopInv'
  <2>1. \A q \in Tabs \ {t} : /\ pc'[q] = pc[q]
                              /\ request'[q] = request[q]
                              /\ form'[q] = form[q]
    BY <1>1, <1>t, OthersWait
  <2>2. \A q \in Tabs : running' = q <=> pc'[q] \in Saving \cup {"set"}
    BY <1>1, <1>t, <1>p, <2>1 DEF LoopInv
  <2>3. \A q \in Tabs : /\ pc'[q] \in Deleting => request'[q].verb = "DELETE"
                        /\ pc'[q] = "set" => request'[q].verb = "SET"
                        /\ pc'[q] \in Saving => /\ request'[q].verb \in {"POST", "PUT"}
                                                /\ request'[q].id = form'[q].id
    BY <1>1, <1>t, <2>1 DEF LoopInv
  <2> QED BY <2>2, <2>3 DEF LoopInv
<1> USE DEF Saving, Deleting, Goto
<1>2. ASSUME NEW t \in Tabs, NEW id \in Ids, Open(t, id) PROVE LoopInv'
  <2>1. TabStep(t) /\ UNCHANGED << running, pc, request >> /\ pc[t] = "idle"
    BY <1>2 DEF Open, TabStep
  <2> QED BY <1>1, <2>1
<1>3. ASSUME NEW t \in Tabs, NEW id \in Ids, DeleteSelects(t, id) PROVE LoopInv'
  <2>1. /\ TabStep(t) /\ UNCHANGED running /\ pc[t] = "idle" /\ pc'[t] = "to_delete"
        /\ request'[t].verb = "DELETE"
    BY <1>3, <1>t DEF DeleteSelects, TabStep, TypeOK
  <2> QED BY <1>1, <2>1
<1>4. ASSUME NEW t \in Tabs, NEW typed \in BOOLEAN, SaveSelects(t, typed) PROVE LoopInv'
  <2>1. /\ TabStep(t) /\ running = None /\ running' = t /\ pc'[t] = "selected"
        /\ request'[t].verb \in {"POST", "PUT"} /\ request'[t].id = form'[t].id
    BY <1>4, <1>t DEF SaveSelects, Select, Verb, TabStep, TypeOK
  <2> QED BY <1>1, <2>1
<1>5. ASSUME NEW t \in Tabs, SaveWrites(t) PROVE LoopInv'
  <2>1. /\ TabStep(t) /\ UNCHANGED << running, form >>
        /\ pc[t] = "selected" /\ pc'[t] = "written"
        /\ request'[t].verb = request[t].verb /\ request'[t].id = request[t].id
    BY <1>5, <1>t, Requested DEF SaveWrites, TabStep, TypeOK
  <2> QED BY <1>1, <1>t, <2>1 DEF LoopInv
<1>6. ASSUME NEW t \in Tabs, SaveAudits(t) PROVE LoopInv'
  <2>1. /\ TabStep(t) /\ UNCHANGED << running, form, request >>
        /\ pc[t] = "written" /\ pc'[t] = "audited"
    BY <1>6, <1>t DEF SaveAudits, TabStep, TypeOK
  <2> QED BY <1>1, <1>t, <2>1 DEF LoopInv
<1>7. ASSUME NEW t \in Tabs, SaveAnswers(t) \/ SetAnswers(t) PROVE LoopInv'
  <2>1. /\ TabStep(t) /\ running' = None /\ pc[t] \in {"audited", "set"}
        /\ pc'[t] = "idle"
    BY <1>7, <1>t DEF SaveAnswers, SetAnswers, Answer, TabStep, TypeOK
  <2>2. running = t
    BY <1>t, <2>1 DEF LoopInv
  <2> QED BY <1>1, <2>1, <2>2
<1>8. ASSUME NEW t \in Tabs, DeleteWrites(t) PROVE LoopInv'
  <2>1. /\ TabStep(t) /\ UNCHANGED << running, form >>
        /\ pc[t] = "to_delete" /\ pc'[t] = "deleted"
        /\ request'[t].verb = request[t].verb
    BY <1>8, <1>t, Requested DEF DeleteWrites, TabStep, TypeOK
  <2> QED BY <1>1, <1>t, <2>1 DEF LoopInv
<1>9. ASSUME NEW t \in Tabs, DeleteAudits(t) \/ DeleteAnswers(t) PROVE LoopInv'
  <2>1. /\ TabStep(t) /\ UNCHANGED << running, form, request >>
        /\ pc[t] \in Deleting /\ pc'[t] \in {"delete_audited", "idle"}
    BY <1>9, <1>t DEF DeleteAudits, DeleteAnswers, Answer, TabStep, TypeOK
  <2> QED BY <1>1, <1>t, <2>1 DEF LoopInv
<1>10. ASSUME NEW t \in Tabs, SetWrites(t) PROVE LoopInv'
  <2>1. /\ TabStep(t) /\ running = None /\ running' = t /\ pc'[t] = "set"
        /\ request'[t].verb = "SET"
    BY <1>10, <1>t DEF SetWrites, TabStep, TypeOK
  <2> QED BY <1>1, <2>1
<1>11. CASE Crash
  BY <1>11, <1>p DEF Crash, LoopInv
<1>12. CASE UNCHANGED vars
  BY <1>12, <1>t DEF vars, LoopInv
<1> QED BY <1>2, <1>3, <1>4, <1>5, <1>6, <1>7, <1>8, <1>9, <1>10, <1>11, <1>12
        DEF Next

-----------------------------------------------------------------------------
\* No other tab saves while one does, nor while none may start to.
LEMMA OneSaves ==
    ASSUME TypeOK, LoopInv, NEW t \in Tabs, NEW q \in Tabs \ {t}, running \in {None, t}
    PROVE  pc[q] \notin Saving \cup {"set"}
BY IdAssumption DEF LoopInv

LEMMA SaveStep == ConfigInv /\ [Next]_vars => SaveInv'
<1> SUFFICES ASSUME ConfigInv, [Next]_vars PROVE SaveInv'
  OBVIOUS
<1>t. TypeOK /\ NumberInv /\ LoopInv /\ SaveInv
  BY DEF ConfigInv
<1>n. /\ changes \in Nat /\ \A id \in Ids : rows[id].revision \in Nat
      /\ \A t \in Tabs : /\ request[t].id \in Ids /\ request[t].seen \in Nat
                         /\ request[t].stamp \in Nat /\ form[t].id \in Ids
  BY <1>t, Numbers
<1>q. \A t \in Tabs : request[t].seen <= changes
  BY <1>t DEF NumberInv
<1>s. \A t \in Tabs :
         /\ pc[t] = "selected" =>
               /\ rows[request[t].id].revision \in {0, request[t].seen}
               /\ request[t].verb = "PUT" => request[t].seen = form[t].row.revision
         /\ pc[t] \in {"written", "audited"} =>
               /\ request[t].seen < changes
               /\ rows[request[t].id].revision > 0 =>
                     /\ rows[request[t].id].revision = request[t].seen + 1
                     /\ rows[request[t].id].config = request[t].stamp
  BY <1>t DEF SaveInv
<1>1. ASSUME NEW t \in Tabs, TabStep(t),
             pc'[t] \notin {"selected", "written", "audited"},
             \/ UNCHANGED << rows, changes >>
             \/ running \in {None, t}
      PROVE  SaveInv'
  <2>1. \A q \in Tabs \ {t} : /\ pc'[q] = pc[q]
                              /\ request'[q] = request[q]
                              /\ form'[q] = form[q]
    BY <1>1, <1>t, OthersWait
  <2>2. CASE UNCHANGED << rows, changes >>
    BY <1>1, <1>s, <2>1, <2>2 DEF SaveInv
  <2>3. CASE running \in {None, t}
    <3>1. \A q \in Tabs \ {t} : pc[q] \notin Saving
      BY <1>t, <2>3, OneSaves
    <3> QED BY <1>1, <2>1, <3>1 DEF SaveInv, Saving
  <2> QED BY <1>1, <2>2, <2>3
<1>2. ASSUME NEW t \in Tabs, TabStep(t), running \in {None, t},
             pc'[t] = "selected" =>
                /\ rows'[request'[t].id].revision \in {0, request'[t].seen}
                /\ request'[t].verb = "PUT" => request'[t].seen = form'[t].row.revision,
             pc'[t] \in {"written", "audited"} =>
                /\ request'[t].seen < changes'
                /\ rows'[request'[t].id].revision > 0 =>
                      /\ rows'[request'[t].id].revision = request'[t].seen + 1
                      /\ rows'[request'[t].id].config = request'[t].stamp
      PROVE  SaveInv'
  <2>1. \A q \in Tabs \ {t} : pc'[q] \notin Saving
    BY <1>2, <1>t, OthersWait, OneSaves
  <2> QED BY <1>2, <2>1 DEF SaveInv, Saving
<1>3. ASSUME NEW t \in Tabs, NEW id \in Ids, Open(t, id) \/ DeleteSelects(t, id)
      PROVE  SaveInv'
  <2>1. /\ TabStep(t) /\ UNCHANGED << rows, changes >>
        /\ pc'[t] \in {"idle", "to_delete"}
    BY <1>3, <1>t DEF Open, DeleteSelects, TabStep, TypeOK, store, Goto
  <2> QED BY <1>1, <2>1
<1>4. ASSUME NEW t \in Tabs, NEW typed \in BOOLEAN, SaveSelects(t, typed) PROVE SaveInv'
  <2>1. /\ TabStep(t) /\ running = None /\ pc'[t] = "selected"
        /\ UNCHANGED << rows, form >>
        /\ request'[t].id = form[t].id /\ request'[t].verb = Verb(t)
        /\ request'[t].seen = rows[form[t].id].revision
    BY <1>4, <1>t DEF SaveSelects, Select, TabStep, TypeOK, store, Goto
  <2>2. Verb(t) = "PUT" => rows[form[t].id].revision = form[t].row.revision
    BY <1>4 DEF SaveSelects
  <2> QED BY <1>2, <2>1, <2>2
<1>5. ASSUME NEW t \in Tabs, SaveWrites(t) PROVE SaveInv'
  <2>1. /\ TabStep(t) /\ pc[t] = "selected" /\ pc'[t] = "written"
        /\ changes' = changes + 1
        /\ request'[t].id = request[t].id /\ request'[t].seen = request[t].seen
        /\ request'[t].stamp = changes'
    BY <1>5, <1>t, Requested DEF SaveWrites, TabStep, TypeOK, Goto
  <2>2. /\ rows'[request[t].id].revision = request[t].seen + 1
        /\ rows'[request[t].id].config = changes'
    BY <1>5, Saved
  <2>3. running = t
    BY <1>t, <2>1 DEF LoopInv, Saving
  <2>4. request[t].seen < changes + 1
    BY <1>n, <1>q
  <2> QED BY <1>2, <2>1, <2>2, <2>3, <2>4
<1>6. ASSUME NEW t \in Tabs, SaveAudits(t) PROVE SaveInv'
  <2>1. /\ TabStep(t) /\ pc[t] = "written" /\ pc'[t] = "audited"
        /\ UNCHANGED << rows, changes, request >>
    BY <1>6, <1>t DEF SaveAudits, TabStep, TypeOK, Goto
  <2>2. running = t
    BY <1>t, <2>1 DEF LoopInv, Saving
  <2> QED BY <1>2, <1>s, <2>1, <2>2
<1>7. ASSUME NEW t \in Tabs,
             SaveAnswers(t) \/ SetAnswers(t) \/ DeleteAudits(t) \/ DeleteAnswers(t)
      PROVE  SaveInv'
  <2>1. /\ TabStep(t) /\ UNCHANGED << rows, changes >>
        /\ pc'[t] \in {"idle", "delete_audited"}
    BY <1>7, <1>t DEF SaveAnswers, SetAnswers, DeleteAudits, DeleteAnswers, Answer,
                      TabStep, TypeOK, Goto
  <2> QED BY <1>1, <2>1
<1>8. ASSUME NEW t \in Tabs, SetWrites(t) PROVE SaveInv'
  <2>1. TabStep(t) /\ running = None /\ pc'[t] = "set"
    BY <1>8, <1>t DEF SetWrites, TabStep, TypeOK, Goto
  <2> QED BY <1>1, <2>1
<1>9. ASSUME NEW t \in Tabs, DeleteWrites(t) PROVE SaveInv'
  <2>1. /\ TabStep(t) /\ pc'[t] = "deleted" /\ changes' = changes + 1
    BY <1>9, <1>t, Requested DEF DeleteWrites, TabStep, TypeOK, Goto
  <2>2. \A q \in Tabs \ {t} : /\ pc'[q] = pc[q]
                              /\ request'[q] = request[q]
                              /\ form'[q] = form[q]
    BY <1>t, <2>1, OthersWait
  <2>3. \A k \in Ids : rows'[k] = rows[k] \/ rows'[k] = Absent
    BY <1>9, <1>t DEF DeleteWrites, TypeOK
  <2>4. Absent.revision = 0
    BY DEF Absent
  <2>5. ASSUME NEW q \in Tabs \ {t}
        PROVE  /\ pc'[q] = "selected" =>
                    /\ rows'[request'[q].id].revision \in {0, request'[q].seen}
                    /\ request'[q].verb = "PUT" =>
                          request'[q].seen = form'[q].row.revision
               /\ pc'[q] \in {"written", "audited"} =>
                    /\ request'[q].seen < changes'
                    /\ rows'[request'[q].id].revision > 0 =>
                          /\ rows'[request'[q].id].revision = request'[q].seen + 1
                          /\ rows'[request'[q].id].config = request'[q].stamp
    <3>1. rows'[request[q].id] = rows[request[q].id] \/ rows'[request[q].id] = Absent
      BY <1>n, <2>3
    <3>2. request[q].seen < changes => request[q].seen < changes'
      BY <1>n, <2>1
    <3> QED BY <1>s, <2>2, <2>4, <3>1, <3>2
  <2> QED BY <2>1, <2>5 DEF SaveInv
<1>10. CASE Crash
  BY <1>10 DEF Crash, SaveInv
<1>11. CASE UNCHANGED vars
  BY <1>11, <1>t DEF vars, store, SaveInv
<1> QED BY <1>3, <1>4, <1>5, <1>6, <1>7, <1>8, <1>9, <1>10, <1>11 DEF Next

-----------------------------------------------------------------------------
LEMMA VersionStep == ConfigInv /\ [Next]_vars => VersionInv'
<1> SUFFICES ASSUME ConfigInv, [Next]_vars PROVE VersionInv'
  OBVIOUS
<1>t. TypeOK /\ NumberInv /\ LoopInv /\ SaveInv /\ VersionInv
  BY DEF ConfigInv
<1>n. /\ changes \in Nat /\ \A id \in Ids : rows[id].revision \in Nat
      /\ \A t \in Tabs : /\ request[t].id \in Ids /\ request[t].seen \in Nat
                         /\ form[t].row.revision \in Nat /\ form[t].row.born \in Nat
                         /\ form[t].id \in Ids
  BY <1>t, Numbers
<1>v. \A t \in Tabs :
         rows[form[t].id].revision > 0 /\ rows[form[t].id].born = form[t].row.born =>
            /\ form[t].row.revision <= rows[form[t].id].revision
            /\ form[t].row.revision = rows[form[t].id].revision =>
                  form[t].row.config = rows[form[t].id].config
  BY <1>t DEF VersionInv
\* A tab gets the record as it is or the blank form; the records stay.
<1>1. ASSUME NEW t \in Tabs, TabStep(t), UNCHANGED rows,
             \/ form'[t] = form[t]
             \/ form'[t].row = Absent /\ form'[t].id \in Ids
             \/ LET row == rows[form'[t].id]
                IN  row.revision > 0 =>
                       /\ row.revision = form'[t].row.revision
                       /\ row.config = form'[t].row.config
                       /\ form'[t].row.revision \in Nat
      PROVE  VersionInv'
  <2>1. \A q \in Tabs \ {t} : form'[q] = form[q]
    BY <1>1, <1>t, OthersWait
  <2>2. \A id \in Ids : rows'[id].revision > 0 => rows'[id].born # Absent.born
    BY <1>1, <1>t, Numbers DEF NumberInv, Exists, Absent
  <2>3. CASE form'[t].row = Absent
    BY <1>1, <1>n, <1>v, <2>1, <2>2, <2>3 DEF VersionInv
  <2>4. CASE form'[t].row # Absent
    BY <1>1, <1>v, <2>1, <2>4 DEF VersionInv
  <2> QED BY <2>3, <2>4
<1>2. ASSUME NEW t \in Tabs, NEW id \in Ids, Open(t, id) PROVE VersionInv'
  <2>1. /\ TabStep(t) /\ UNCHANGED rows
        /\ form'[t].id = id /\ form'[t].row \in {rows[id], Absent}
    <3>1. PICK row \in {rows[id], Absent} :
             form' = [form EXCEPT ![t] = [id |-> id, row |-> row]]
      BY <1>2 DEF Open
    <3>2. form'[t].id = id /\ form'[t].row = row
      BY <1>t, <3>1 DEF TypeOK
    <3>3. TabStep(t) /\ UNCHANGED rows
      BY <1>2 DEF Open, TabStep, store
    <3> QED BY <3>1, <3>2, <3>3
  <2> QED BY <1>1, <1>n, <2>1
<1>3. ASSUME NEW t \in Tabs, SaveAnswers(t) PROVE VersionInv'
  <2> DEFINE row == [revision |-> NextRevision(request[t].seen),
                     config |-> request[t].stamp,
                     secret |-> IF request[t].typed THEN request[t].stamp ELSE 0,
                     born |-> rows[request[t].id].born]
  <2>1. row.revision = request[t].seen + 1 /\ row.config = request[t].stamp
    BY DEF NextRevision
  <2>2. form' = [form EXCEPT ![t] = [form[t] EXCEPT !.row = row]]
    BY <1>3 DEF SaveAnswers
  <2>3. TabStep(t) /\ UNCHANGED rows /\ pc[t] = "audited"
    BY <1>3 DEF SaveAnswers, TabStep
  <2> HIDE DEF row
  <2>4. form'[t].id = form[t].id /\ form'[t].row = row
    BY <1>t, <2>2 DEF TypeOK
  <2>5. /\ request[t].id = form[t].id
        /\ rows[form[t].id].revision > 0 =>
              /\ rows[form[t].id].revision = request[t].seen + 1
              /\ rows[form[t].id].config = request[t].stamp
    BY <1>t, <2>3 DEF LoopInv, SaveInv, Saving
  <2>6. request[t].seen + 1 \in Nat
    BY <1>n
  <2> QED BY <1>1, <2>1, <2>3, <2>4, <2>5, <2>6
<1>4. ASSUME NEW t \in Tabs, SaveWrites(t) PROVE VersionInv'
  <2>1. /\ pc[t] = "selected" /\ changes' = changes + 1 /\ UNCHANGED form
    BY <1>4, <1>t, Requested DEF SaveWrites
  <2>2. /\ request[t].id \in Ids
        /\ rows[request[t].id].revision \in {0, request[t].seen}
    BY <1>t, <1>n, <2>1 DEF SaveInv
  <2>3. /\ rows'[request[t].id].revision = request[t].seen + 1
        /\ rows'[request[t].id].born = IF Exists(request[t].id)
                                       THEN rows[request[t].id].born ELSE changes'
        /\ \A k \in Ids \ {request[t].id} : rows'[k] = rows[k]
    BY <1>4, Saved
  <2>4. ASSUME NEW q \in Tabs, form[q].id = request[t].id,
               rows'[request[t].id].born = form[q].row.born
        PROVE  form[q].row.revision < rows'[request[t].id].revision
    <3>1. CASE Exists(request[t].id)
      <4>1. /\ rows[request[t].id].revision > 0
            /\ rows[request[t].id].revision = request[t].seen
        BY <1>n, <2>2, <3>1 DEF Exists
      <4>2. form[q].row.revision <= rows[request[t].id].revision
        BY <1>v, <2>3, <2>4, <3>1, <4>1
      <4> QED BY <1>n, <2>2, <2>3, <4>1, <4>2
    <3>2. CASE ~Exists(request[t].id)
      <4>1. form[q].row.born <= changes /\ form[q].row.born = changes + 1
        BY <1>t, <2>1, <2>3, <2>4, <3>2 DEF NumberInv
      <4> QED BY <1>n, <4>1
    <3> QED BY <3>1, <3>2
  <2>5. ASSUME NEW q \in Tabs, rows'[form[q].id].born = form[q].row.born,
               rows'[form[q].id].revision > 0
        PROVE  /\ form[q].row.revision <= rows'[form[q].id].revision
               /\ form[q].row.revision = rows'[form[q].id].revision =>
                     form[q].row.config = rows'[form[q].id].config
    <3>1. CASE form[q].id = request[t].id
      <4>1. form[q].row.revision < rows'[form[q].id].revision
        BY <2>4, <2>5, <3>1
      <4>2. form[q].row.revision \in Nat /\ rows'[form[q].id].revision \in Nat
        BY <1>n, <2>3, <3>1
      <4> QED BY <4>1, <4>2
    <3>2. CASE form[q].id # request[t].id
      <4>1. rows'[form[q].id] = rows[form[q].id]
        BY <1>n, <2>3, <3>2
      <4> QED BY <1>v, <2>5, <4>1
    <3> QED BY <3>1, <3>2
  <2> QED BY <2>1, <2>5 DEF VersionInv
<1>5. ASSUME NEW t \in Tabs, DeleteWrites(t) PROVE VersionInv'
  <2>1. UNCHANGED form /\ \A k \in Ids : rows'[k] = rows[k] \/ rows'[k] = Absent
    BY <1>5, <1>t DEF DeleteWrites, TypeOK
  <2>2. Absent.revision = 0
    BY DEF Absent
  <2>3. ASSUME NEW q \in Tabs, rows'[form[q].id].revision > 0
        PROVE  rows'[form[q].id] = rows[form[q].id]
    BY <1>n, <2>1, <2>2, <2>3
  <2> QED BY <1>v, <2>1, <2>3 DEF VersionInv
<1>6. ASSUME NEW t \in Tabs,
             \/ \E id \in Ids : DeleteSelects(t, id)
             \/ \E typed \in BOOLEAN : SaveSelects(t, typed)
             \/ SaveAudits(t) \/ DeleteAudits(t) \/ DeleteAnswers(t)
             \/ SetWrites(t) \/ SetAnswers(t)
      PROVE  VersionInv'
  <2>1. UNCHANGED << rows, form >>
    BY <1>6 DEF DeleteSelects, SaveSelects, Select, SaveAudits, DeleteAudits,
                DeleteAnswers, SetWrites, SetAnswers, store
  <2> QED BY <1>t, <2>1 DEF VersionInv
<1>7. CASE Crash \/ UNCHANGED vars
  BY <1>7, <1>t DEF Crash, vars, store, VersionInv
<1> QED BY <1>2, <1>3, <1>4, <1>5, <1>6, <1>7 DEF Next

-----------------------------------------------------------------------------
LEMMA RecordStep == ConfigInv /\ [Next]_vars => RecordInv'
<1> SUFFICES ASSUME ConfigInv, [Next]_vars PROVE RecordInv'
  OBVIOUS
<1>t. TypeOK /\ NumberInv /\ LoopInv /\ RecordInv
  BY DEF ConfigInv
<1>n. /\ changes \in Nat /\ audit \in Seq(Entry)
      /\ \A t \in Tabs : /\ Done(t) \in Entry /\ Done(t).verb = request[t].verb
                         /\ request[t].stamp \in Nat
  BY <1>t, Numbers DEF TypeOK
<1>r. \A t \in Tabs :
         /\ pc[t] = "written" /\ request[t].verb = "PUT" =>
               \A i \in 1 .. Len(audit) :
                  audit[i].verb = "PUT" => audit[i].stamp < request[t].stamp
         /\ pc[t] = "audited" /\ request[t].verb = "PUT" => Done(t) \in ToSet(audit)
         /\ pc[t] = "delete_audited" => Done(t) \in ToSet(audit)
  BY <1>t DEF RecordInv
\* The other tabs, when no more than a deletion was added to the audit, or when
\* the tab has the loop.
<1>1. ASSUME NEW t \in Tabs, TabStep(t),
             ToSet(audit) \subseteq ToSet(audit'),
             \/ UNCHANGED audit
             \/ running = t
             \/ \A i \in 1 .. Len(audit') : \/ i \in 1 .. Len(audit) /\ audit'[i] = audit[i]
                                            \/ audit'[i].verb # "PUT",
             pc'[t] = "written" /\ request'[t].verb = "PUT" =>
                \A i \in 1 .. Len(audit') :
                   audit'[i].verb = "PUT" => audit'[i].stamp < request'[t].stamp,
             pc'[t] = "audited" /\ request'[t].verb = "PUT" => Done(t)' \in ToSet(audit'),
             pc'[t] = "delete_audited" => Done(t)' \in ToSet(audit')
      PROVE  RecordInv'
  <2>1. \A q \in Tabs \ {t} : pc'[q] = pc[q] /\ request'[q] = request[q]
    BY <1>1, <1>t, OthersWait
  <2>2. ASSUME NEW q \in Tabs \ {t} PROVE Done(q)' = Done(q)
    BY <2>1 DEF Done
  <2>3. ASSUME NEW q \in Tabs \ {t}, pc'[q] = "written", request'[q].verb = "PUT",
               NEW i \in 1 .. Len(audit'), audit'[i].verb = "PUT"
        PROVE  audit'[i].stamp < request'[q].stamp
    <3>1. running # t
      BY <1>t, <2>1, <2>3, OneSaves DEF Saving
    <3> QED BY <1>1, <1>r, <2>1, <2>3, <3>1
  <2>4. ASSUME NEW q \in Tabs \ {t}
        PROVE  /\ pc'[q] = "audited" /\ request'[q].verb = "PUT" =>
                     Done(q)' \in ToSet(audit')
               /\ pc'[q] = "delete_audited" => Done(q)' \in ToSet(audit')
    BY <1>1, <1>r, <2>1, <2>2
  <2> QED BY <1>1, <2>3, <2>4 DEF RecordInv
<1>2. ASSUME NEW t \in Tabs, TabStep(t), UNCHANGED audit,
             pc'[t] \notin {"written", "audited", "delete_audited"}
      PROVE  RecordInv'
  BY <1>1, <1>2
<1>3. ASSUME NEW t \in Tabs,
             \/ \E id \in Ids : Open(t, id) \/ DeleteSelects(t, id)
             \/ \E typed \in BOOLEAN : SaveSelects(t, typed)
             \/ SaveAnswers(t) \/ DeleteAnswers(t) \/ DeleteWrites(t)
             \/ SetWrites(t) \/ SetAnswers(t)
      PROVE  RecordInv'
  <2>1. TabStep(t)
    BY <1>3 DEF TabStep
  <2>2. UNCHANGED audit /\ pc'[t] \in {"idle", "selected", "to_delete", "deleted", "set"}
    BY <1>3, <1>t DEF Open, DeleteSelects, SaveSelects, Select, SaveAnswers,
                      DeleteAnswers, DeleteWrites, SetWrites, SetAnswers, Answer,
                      store, Goto, TypeOK
  <2> QED BY <1>2, <2>1, <2>2
<1>4. ASSUME NEW t \in Tabs, SaveWrites(t) PROVE RecordInv'
  <2>1. /\ TabStep(t) /\ pc'[t] = "written" /\ UNCHANGED audit
        /\ changes' = changes + 1 /\ request'[t].stamp = changes'
    BY <1>4, <1>t, Requested DEF SaveWrites, TabStep, TypeOK, Goto
  <2>2. ASSUME NEW i \in 1 .. Len(audit) PROVE audit[i].stamp < changes + 1
    <3>1. audit[i] \in Entry
      BY <1>n
    <3>2. audit[i].stamp \in Nat
      BY <1>t, <3>1, Numbers DEF Entry
    <3>3. audit[i].stamp <= changes
      BY <1>t DEF NumberInv
    <3> QED BY <1>n, <3>2, <3>3
  <2> QED BY <1>1, <2>1, <2>2
<1>5. ASSUME NEW t \in Tabs, SaveAudits(t) PROVE RecordInv'
  <2>1. /\ TabStep(t) /\ pc[t] = "written" /\ pc'[t] = "audited" /\ UNCHANGED request
        /\ audit' = IF request[t].verb = "PUT" THEN Append(audit, Done(t)) ELSE audit
    BY <1>5, <1>t DEF SaveAudits, TabStep, TypeOK, Goto
  <2>2. running = t /\ Done(t)' = Done(t)
    BY <1>t, <2>1 DEF LoopInv, Saving, Done
  <2>3. /\ ToSet(audit) \subseteq ToSet(audit')
        /\ request[t].verb = "PUT" => Done(t) \in ToSet(audit')
    BY <1>n, <2>1, Appended
  <2> QED BY <1>1, <2>1, <2>2, <2>3
<1>6. ASSUME NEW t \in Tabs, DeleteAudits(t) PROVE RecordInv'
  <2>1. /\ TabStep(t) /\ pc[t] = "deleted" /\ pc'[t] = "delete_audited"
        /\ UNCHANGED request /\ audit' = Append(audit, Done(t))
    BY <1>6, <1>t DEF DeleteAudits, TabStep, TypeOK, Goto
  <2>2. Done(t)' = Done(t) /\ Done(t).verb = "DELETE"
    BY <1>t, <1>n, <2>1 DEF LoopInv, Deleting, Done
  <2>3. /\ ToSet(audit) \subseteq ToSet(audit') /\ Done(t) \in ToSet(audit')
        /\ Len(audit') = Len(audit) + 1 /\ Len(audit) \in Nat
        /\ \A i \in 1 .. Len(audit) : audit'[i] = audit[i]
        /\ audit'[Len(audit) + 1] = Done(t)
    BY <1>n, <2>1, Appended
  <2>4. \A i \in 1 .. Len(audit') : \/ i \in 1 .. Len(audit) /\ audit'[i] = audit[i]
                                    \/ audit'[i].verb # "PUT"
    BY <2>2, <2>3
  <2> QED BY <1>1, <2>1, <2>2, <2>3, <2>4
<1>7. CASE Crash
  BY <1>7 DEF Crash, RecordInv
<1>8. CASE UNCHANGED vars
  <2>1. \A t \in Tabs : Done(t)' = Done(t)
    BY <1>8 DEF vars, Done
  <2> QED BY <1>8, <1>t, <2>1 DEF vars, store, RecordInv
<1> QED BY <1>3, <1>4, <1>5, <1>6, <1>7, <1>8 DEF Next

-----------------------------------------------------------------------------
LEMMA AnswerStep ==
    ConfigInv /\ AnswerMeansRecorded /\ [Next]_vars => AnswerMeansRecorded'
<1> SUFFICES ASSUME ConfigInv, AnswerMeansRecorded, [Next]_vars
             PROVE  AnswerMeansRecorded'
  OBVIOUS
<1>t. TypeOK /\ LoopInv /\ RecordInv
  BY DEF ConfigInv
<1>n. audit \in Seq(Entry)
      /\ \A t \in Tabs : /\ Done(t) \in Entry /\ Done(t).verb = request[t].verb
                         /\ Done(t).stamp = request[t].stamp
  BY <1>t, Numbers DEF TypeOK
<1>o. \A i, k \in 1 .. Len(audit) :
         i < k /\ audit[i].verb = "PUT" /\ audit[k].verb = "PUT" =>
            audit[i].stamp < audit[k].stamp
  BY DEF AnswerMeansRecorded
<1>a. \A e \in answered : /\ e \in events
                          /\ e.verb \in {"PUT", "DELETE"} => e \in ToSet(audit)
  BY DEF AnswerMeansRecorded
<1>1. ASSUME NEW t \in Tabs, Answer(t), UNCHANGED audit,
             request[t].verb \in {"PUT", "DELETE"} => Done(t) \in ToSet(audit)
      PROVE  AnswerMeansRecorded'
  <2>1. \A e \in answered' : /\ e \in events'
                             /\ e.verb \in {"PUT", "DELETE"} => e \in ToSet(audit)
    BY <1>1, <1>a, <1>n DEF Answer
  <2> QED BY <1>1, <1>o, <2>1 DEF AnswerMeansRecorded
<1>2. ASSUME NEW t \in Tabs, audit' = Append(audit, Done(t)),
             UNCHANGED << events, answered >>,
             request[t].verb = "PUT" =>
                \A i \in 1 .. Len(audit) :
                   audit[i].verb = "PUT" => audit[i].stamp < request[t].stamp
      PROVE  AnswerMeansRecorded'
  <2>1. /\ ToSet(audit) \subseteq ToSet(audit')
        /\ Len(audit') = Len(audit) + 1 /\ Len(audit) \in Nat
        /\ \A i \in 1 .. Len(audit) : audit'[i] = audit[i]
        /\ audit'[Len(audit) + 1] = Done(t)
    BY <1>n, <1>2, Appended
  <2>2. ASSUME NEW i \in 1 .. Len(audit'), NEW k \in 1 .. Len(audit'), i < k,
               audit'[i].verb = "PUT", audit'[k].verb = "PUT"
        PROVE  audit'[i].stamp < audit'[k].stamp
    <3>1. i \in 1 .. Len(audit) /\ (k \in 1 .. Len(audit) \/ k = Len(audit) + 1)
      BY <2>1, <2>2
    <3>2. CASE k \in 1 .. Len(audit)
      BY <1>o, <2>1, <2>2, <3>1, <3>2
    <3>3. CASE k = Len(audit) + 1
      BY <1>2, <1>n, <2>1, <2>2, <3>1, <3>3
    <3> QED BY <3>1, <3>2, <3>3
  <2>3. \A e \in answered' : /\ e \in events'
                             /\ e.verb \in {"PUT", "DELETE"} => e \in ToSet(audit')
    BY <1>2, <1>a, <2>1
  <2> QED BY <2>2, <2>3 DEF AnswerMeansRecorded
<1>3. ASSUME NEW t \in Tabs, SaveAudits(t) PROVE AnswerMeansRecorded'
  <2>1. CASE request[t].verb = "PUT"
    <3>1. \A i \in 1 .. Len(audit) :
             audit[i].verb = "PUT" => audit[i].stamp < request[t].stamp
      BY <1>3, <1>t, <2>1 DEF SaveAudits, RecordInv
    <3> QED BY <1>2, <1>3, <2>1, <3>1 DEF SaveAudits
  <2>2. CASE request[t].verb # "PUT"
    BY <1>3, <2>2 DEF SaveAudits, AnswerMeansRecorded
  <2> QED BY <2>1, <2>2
<1>4. ASSUME NEW t \in Tabs, DeleteAudits(t) PROVE AnswerMeansRecorded'
  <2>1. request[t].verb # "PUT"
    BY <1>4, <1>t DEF DeleteAudits, LoopInv, Deleting
  <2> QED BY <1>2, <1>4, <2>1 DEF DeleteAudits
<1>5. ASSUME NEW t \in Tabs, SaveAnswers(t) PROVE AnswerMeansRecorded'
  <2>1. request[t].verb \in {"PUT", "DELETE"} => Done(t) \in ToSet(audit)
    BY <1>5, <1>t DEF SaveAnswers, LoopInv, Saving, RecordInv
  <2> QED BY <1>1, <1>5, <2>1 DEF SaveAnswers
<1>6. ASSUME NEW t \in Tabs, DeleteAnswers(t) PROVE AnswerMeansRecorded'
  <2>1. Done(t) \in ToSet(audit)
    BY <1>6, <1>t DEF DeleteAnswers, RecordInv
  <2> QED BY <1>1, <1>6, <2>1 DEF DeleteAnswers
<1>7. ASSUME NEW t \in Tabs, SetAnswers(t) PROVE AnswerMeansRecorded'
  <2>1. request[t].verb = "SET"
    BY <1>7, <1>t DEF SetAnswers, LoopInv
  <2> QED BY <1>1, <1>7, <2>1 DEF SetAnswers
<1>8. ASSUME UNCHANGED << audit, events, answered >> PROVE AnswerMeansRecorded'
  BY <1>8 DEF AnswerMeansRecorded
<1>9. ASSUME NEW t \in Tabs,
             \/ \E id \in Ids : Open(t, id) \/ DeleteSelects(t, id)
             \/ \E typed \in BOOLEAN : SaveSelects(t, typed)
             \/ SaveWrites(t) \/ DeleteWrites(t) \/ SetWrites(t)
      PROVE  AnswerMeansRecorded'
  BY <1>8, <1>9 DEF Open, DeleteSelects, SaveSelects, Select, SaveWrites, DeleteWrites,
                    SetWrites, store
<1>10. CASE Crash \/ UNCHANGED vars
  BY <1>8, <1>10 DEF Crash, vars, store
<1> QED BY <1>3, <1>4, <1>5, <1>6, <1>7, <1>9, <1>10 DEF Next

-----------------------------------------------------------------------------
\* What a save replaces, if anything: the revision that it has read, and an update
\* what its tab opened.
LEMMA SaveSees ==
    ASSUME ConfigInv, NEW t \in Tabs, SaveWrites(t), Exists(request[t].id)
    PROVE  LET id == request[t].id
               SameLife(q) == form[q].id = id /\ form[q].row.born = rows[id].born
           IN  /\ Updates(t) /\ SameLife(t) => rows[id].config = form[t].row.config
               /\ \A q \in Tabs : SameLife(q) =>
                     form[q].row.revision # rows'[id].revision
<1> DEFINE id == request[t].id
<1>1. TypeOK /\ LoopInv /\ SaveInv /\ VersionInv
  BY DEF ConfigInv
<1>2. pc[t] = "selected" /\ id \in Ids
  BY <1>1 DEF SaveWrites, TypeOK, Request
<1>3. rows[id].revision > 0 /\ rows[id].revision = request[t].seen
  BY <1>1, <1>2, Numbers DEF SaveInv, Exists
<1>4. ASSUME Updates(t), form[t].row.born = rows[id].born
      PROVE  rows[id].config = form[t].row.config
  <2>1. id = form[t].id
    BY <1>1, <1>2 DEF LoopInv, Saving
  <2>2. request[t].seen = form[t].row.revision
    BY <1>1, <1>2, <1>4 DEF SaveInv, Updates
  <2> QED BY <1>1, <1>3, <1>4, <2>1, <2>2 DEF VersionInv
<1>5. ASSUME NEW q \in Tabs, form[q].id = id, form[q].row.born = rows[id].born
      PROVE  form[q].row.revision # rows'[id].revision
  <2>1. form[q].row.revision <= rows[id].revision
    BY <1>1, <1>3, <1>5 DEF VersionInv
  <2>2. rows'[id].revision = rows[id].revision + 1
    BY <1>1, <1>3, Saved
  <2> QED BY <1>1, <1>2, <2>1, <2>2, Numbers
<1> QED BY <1>4, <1>5

LEMMA ConfigStep == ConfigInv /\ [Next]_vars => ConfigInv'
BY TypeStep, NumberStep, LoopStep, SaveStep, VersionStep, RecordStep DEF ConfigInv

\* The inductive invariant: numbers, the loop, what a save has read, revisions and
\* the records of a request are as create_agent to update_settings keep them.
THEOREM ConfigConsistent == Spec => []ConfigInv
<1>1. Init => ConfigInv
  BY InitInv
<1>2. ConfigInv /\ [Next]_vars => ConfigInv'
  BY ConfigStep
<1> QED BY <1>1, <1>2, PTL DEF Spec

\* What a tab is told to have succeeded is in the event feed and in the audit, and
\* the audit has the updates in the order of their commits (api.py 263 to 480).
THEOREM AnswersAreRecorded == Spec => []AnswerMeansRecorded
<1>1. Init => AnswerMeansRecorded
  BY InitInv
<1>2. ConfigInv /\ AnswerMeansRecorded /\ [Next]_vars => AnswerMeansRecorded'
  BY AnswerStep
<1> QED BY <1>1, <1>2, ConfigConsistent, PTL DEF Spec

\* In the life of a record an update overwrites only what its tab has seen, and
\* what a creation overwrites no tab can save again, although the comparison of
\* revisions and the write are not one transaction (save_agent, save_provider).
THEOREM OverwritingIsNoticed == Spec => NoBlindUpdate
<1>1. ConfigInv /\ [Next]_vars =>
         [\A t \in Tabs : SaveWrites(t) /\ Exists(request[t].id) =>
             LET id == request[t].id
                 SameLife(q) == form[q].id = id /\ form[q].row.born = rows[id].born
             IN  /\ Updates(t) /\ SameLife(t) => rows[id].config = form[t].row.config
                 /\ \A q \in Tabs : SameLife(q) =>
                       form[q].row.revision # rows'[id].revision]_vars
  BY SaveSees
<1> QED BY <1>1, ConfigConsistent, PTL DEF Spec, NoBlindUpdate
=============================================================================
