------------------------ MODULE RelationshipsProofs ------------------------
(***************************************************************************)
(* What holds of Relationships for every set of calls, rows, brokers and   *)
(* organisations.                                                          *)
(***************************************************************************)
EXTENDS Relationships, WellFoundedInduction, TLAPS

(***************************************************************************)
(* The inductive invariant.                                                *)
(***************************************************************************)

\* Where a call is agrees with what it was asked to do.
JobAtPc ==
  \A r \in Request :
    /\ pc[r] = "idle" <=> job[r] = NoJob
    /\ pc[r] \in {"lookup", "insert"} => job[r].op \in Inserts
    /\ pc[r] \in {"check", "update"} => job[r].op \notin Inserts

\* Only inviteBroker runs a lookup first.
LookupIsInvite == \A r \in Request : pc[r] = "lookup" => job[r].op = "invite"

\* An id is generated once.
IdsAreFresh ==
  \A r, q \in Request :
    (job[r] # NoJob /\ job[q] # NoJob /\ job[r].id = job[q].id
       /\ job[r].op \in Inserts /\ job[q].op \in Inserts) => r = q

\* Only a committed INSERT makes a row exist, and rows are never deleted.
RowsWereInserted ==
  /\ \A i \in Id : Exists(i) =>
       \E q \in Request : /\ pc[q] = "committed"
                          /\ job[q].op \in Inserts
                          /\ job[q].id = i
  /\ \A r \in Request :
       (pc[r] \in {"update", "written"} /\ job[r].op \notin Inserts) => Exists(job[r].id)

\* One uncommitted version of a row at a time, built from the version committed now.
DraftIsCurrent ==
  /\ \A r, q \in Request :
       (pc[r] = "written" /\ pc[q] = "written" /\ job[r].id = job[q].id) => r = q
  /\ \A r \in Request : pc[r] = "written" =>
       draft[r] = IF job[r].op \in Inserts THEN Inserted(job[r].op)
                  ELSE Updated(job[r].op, relationships[job[r].id])

\* A row that is active, or was closed, has its consent; so has the row a revoke or end
\* call is about to close, and the call that gives a consent is the broker's own.
ConsentHeld ==
  /\ \A i \in Id : (HasStatus(i, "active") \/ HasStamp(i, "effective_to")) => HasStamp(i, "consented_at")
  /\ \A r \in Request : (pc[r] \in {"update", "written"} /\ job[r].op \in {"revoke", "end"}) =>
       HasStamp(job[r].id, "consented_at")
  /\ \A r \in Request : (pc[r] \in {"insert", "update", "written"} /\ job[r].op \in Billable) =>
       job[r].by = BrokerOf[job[r].id]

ConsentAudited ==
  \A i \in Id : HasStamp(i, "consented_at") =>
    \E n \in DOMAIN audit[i] :
      /\ audit[i][n].action = "relationship.consented"
      /\ job[audit[i][n].request] # NoJob
      /\ job[audit[i][n].request].by = BrokerOf[i]

IInv == /\ TypeOK /\ JobAtPc /\ LookupIsInvite /\ IdsAreFresh
        /\ RowsWereInserted /\ DraftIsCurrent /\ ConsentHeld /\ ConsentAudited

(***************************************************************************)
(* Row versions.                                                           *)
(***************************************************************************)

LEMMA InsertedIsRow == ASSUME NEW op \in Inserts PROVE Inserted(op) \in Row
  BY DEF Inserts, Inserted, StatusOf, Stamps, Row, Status, Column

\* An UPDATE keeps a row a row and no column goes back to NULL.
LEMMA UpdatedIsRow ==
  ASSUME NEW op \in Op, op \notin Inserts, NEW row \in Row
  PROVE  Updated(op, row) \in Row /\ row.stamped \subseteq Updated(op, row).stamped
  <1>1. op \in {"accept", "decline", "revoke", "end"}
    BY DEF Op, BrokerOps, OrgOps, Inserts
  <1> QED
    BY <1>1 DEF Updated, Row, StatusOf, Stamps, Status, Column

(***************************************************************************)
(* Induction.                                                              *)
(***************************************************************************)

LEMMA AuditEntryType ==
  ASSUME TypeOK, NEW i \in Id, NEW n \in DOMAIN audit[i]
  PROVE  audit[i][n] \in AuditEntry
  <1>1. audit[i] \in Seq(AuditEntry)
    BY DEF TypeOK
  <1> QED
    BY <1>1

LEMMA InitIInv == Init => IInv
  BY ScopeAssumption DEF Init, IInv, TypeOK, JobAtPc, LookupIsInvite, IdsAreFresh, RowsWereInserted, DraftIsCurrent,
     ConsentHeld, ConsentAudited, Exists, HasStamp, HasStatus

LEMMA BeginIInv ==
  ASSUME IInv, NEW r \in Request, NEW op \in Op, NEW i \in Id, NEW by \in Broker \union Org,
         Begin(r, op, i, by)
  PROVE  IInv'
  <1> USE DEF IInv
  <1> DEFINE j == [op |-> op, id |-> i, by |-> by]
             where == FirstStep[op]
  <1>1. /\ j \in Job /\ j # NoJob
        /\ pc[r] = "idle" /\ job[r] = NoJob
        /\ job' = [job EXCEPT ![r] = j]
        /\ UNCHANGED <<relationships, audit, metering, draft>>
        /\ op \in Inserts => Fresh(i)
    BY SentinelAssumption DEF Begin, Job, JobAtPc
  <1>2. /\ pc' = [pc EXCEPT ![r] = where]
        /\ where \in {"lookup", "insert", "check"}
        /\ where \in {"lookup", "insert"} <=> op \in Inserts
        /\ op = "request" => by = BrokerOf[i]
    BY DEF Begin, Goto, Inserts, FirstStep, Op, BrokerOps, OrgOps
  <1>3. TypeOK'
    BY <1>1, <1>2 DEF TypeOK, InFlight
  <1>4. JobAtPc' /\ LookupIsInvite'
    BY <1>1, <1>2 DEF JobAtPc, LookupIsInvite, TypeOK, FirstStep, Op, BrokerOps, OrgOps
  <1>5. IdsAreFresh'
    BY <1>1 DEF IdsAreFresh, TypeOK, Fresh
  <1>6. RowsWereInserted'
    <2>1. ASSUME NEW k \in Id, Exists(k)
          PROVE  \E q \in Request : pc'[q] = "committed" /\ job'[q].op \in Inserts /\ job'[q].id = k
      <3>1. PICK q \in Request : pc[q] = "committed" /\ job[q].op \in Inserts /\ job[q].id = k
        BY <2>1 DEF RowsWereInserted
      <3> QED
        BY <1>1, <1>2, <3>1 DEF TypeOK
    <2> QED
      BY <1>1, <1>2, <2>1 DEF RowsWereInserted, TypeOK, Exists
  <1>7. DraftIsCurrent'
    BY <1>1, <1>2 DEF DraftIsCurrent, TypeOK
  <1>8. ConsentHeld'
    BY <1>1, <1>2 DEF ConsentHeld, TypeOK, Inserts, Billable, HasStamp, HasStatus, Exists
  <1>9. ConsentAudited'
    <2> SUFFICES ASSUME NEW k \in Id, HasStamp(k, "consented_at")
                 PROVE  \E n \in DOMAIN audit[k] :
                          /\ audit[k][n].action = "relationship.consented"
                          /\ job'[audit[k][n].request] # NoJob
                          /\ job'[audit[k][n].request].by = BrokerOf[k]
      BY <1>1 DEF ConsentAudited, HasStamp, Exists
    <2>1. PICK n \in DOMAIN audit[k] :
            /\ audit[k][n].action = "relationship.consented"
            /\ job[audit[k][n].request] # NoJob
            /\ job[audit[k][n].request].by = BrokerOf[k]
      BY DEF ConsentAudited
    <2>2. audit[k][n].request \in Request
      BY <2>1, AuditEntryType DEF AuditEntry
    <2> QED
      BY <1>1, <2>1, <2>2 DEF TypeOK
  <1> QED
    BY <1>3, <1>4, <1>5, <1>6, <1>7, <1>8, <1>9

\* A step that only moves a call on, to a place where it asks for less than before.
LEMMA MoveIInv ==
  ASSUME IInv, NEW r \in Request, NEW where \in {"insert", "update", "refused", "aborted"},
         pc[r] \in InFlight,
         Goto(r, where),
         UNCHANGED <<relationships, audit, metering, job>>,
         draft' = draft \/ draft' = [draft EXCEPT ![r] = NoRow],
         where = "insert" => job[r].op = "invite",
         where = "update" => /\ job[r].op \notin Inserts
                             /\ Exists(job[r].id)
                             /\ job[r].op \in {"revoke", "end"} => HasStamp(job[r].id, "consented_at")
                             /\ job[r].op \in Billable => job[r].by = BrokerOf[job[r].id]
  PROVE  IInv'
  <1> USE DEF IInv
  <1>1. /\ pc' = [pc EXCEPT ![r] = where]
        /\ pc[r] \notin {"idle", "committed"}
        /\ where \notin {"idle", "committed", "written"}
    BY DEF Goto, InFlight
  <1>2. TypeOK'
    BY <1>1 DEF TypeOK, InFlight, Finished
  <1>3. JobAtPc' /\ LookupIsInvite'
    BY <1>1 DEF JobAtPc, LookupIsInvite, TypeOK, Inserts
  <1>4. IdsAreFresh'
    BY DEF IdsAreFresh
  <1>5. RowsWereInserted'
    <2>1. ASSUME NEW k \in Id, Exists(k)
          PROVE  \E q \in Request : pc'[q] = "committed" /\ job'[q].op \in Inserts /\ job'[q].id = k
      BY <1>1, <2>1 DEF RowsWereInserted, TypeOK, Exists
    <2> QED
      BY <1>1, <2>1 DEF RowsWereInserted, TypeOK, Exists
  <1>6. DraftIsCurrent'
    BY <1>1 DEF DraftIsCurrent, TypeOK
  <1>7. ConsentHeld'
    BY <1>1 DEF ConsentHeld, TypeOK, Billable, HasStamp, HasStatus, Exists
  <1>8. ConsentAudited'
    BY DEF ConsentAudited, HasStamp, Exists
  <1> QED
    BY <1>2, <1>3, <1>4, <1>5, <1>6, <1>7, <1>8

LEMMA InsertIInv ==
  ASSUME IInv, NEW r \in Request, Insert(r)
  PROVE  IInv'
  <1> USE DEF IInv
  <1>1. /\ pc[r] = "insert" /\ job[r].op \in Inserts /\ job[r] \in Job
        /\ draft' = [draft EXCEPT ![r] = Inserted(job[r].op)]
        /\ pc' = [pc EXCEPT ![r] = "written"]
        /\ UNCHANGED <<relationships, audit, metering, job>>
    BY DEF Insert, Goto, JobAtPc, TypeOK
  <1>2. TypeOK'
    BY <1>1, InsertedIsRow DEF TypeOK, InFlight
  <1>3. JobAtPc' /\ LookupIsInvite' /\ IdsAreFresh'
    BY <1>1 DEF JobAtPc, LookupIsInvite, IdsAreFresh, TypeOK
  <1>4. RowsWereInserted'
    <2>1. ASSUME NEW k \in Id, Exists(k)
          PROVE  \E q \in Request : pc'[q] = "committed" /\ job'[q].op \in Inserts /\ job'[q].id = k
      BY <1>1, <2>1 DEF RowsWereInserted, TypeOK
    <2> QED
      BY <1>1, <2>1 DEF RowsWereInserted, TypeOK, Exists
  <1>5. DraftIsCurrent'
    <2>1. ASSUME NEW q \in Request, pc[q] = "written", job[q].id = job[r].id
          PROVE  q = r
      <3>1. job[q] # NoJob /\ job[r] # NoJob
        BY <1>1, <2>1 DEF JobAtPc, TypeOK
      <3>2. CASE job[q].op \in Inserts
        BY <1>1, <2>1, <3>1, <3>2 DEF IdsAreFresh
      <3>3. CASE job[q].op \notin Inserts
        <4>1. PICK p \in Request : pc[p] = "committed" /\ job[p].op \in Inserts /\ job[p].id = job[r].id
          BY <1>1, <2>1, <3>3 DEF RowsWereInserted, Job
        <4> QED
          BY <1>1, <3>1, <4>1 DEF IdsAreFresh, JobAtPc
      <3> QED
        BY <3>2, <3>3
    <2> QED
      BY <1>1, <2>1 DEF DraftIsCurrent, TypeOK
  <1>6. ConsentHeld' /\ ConsentAudited'
    BY <1>1 DEF ConsentHeld, ConsentAudited, TypeOK, Billable, HasStamp, HasStatus, Exists, Inserts
  <1> QED
    BY <1>2, <1>3, <1>4, <1>5, <1>6

LEMMA UpdateIInv ==
  ASSUME IInv, NEW r \in Request, Update(r)
  PROVE  IInv'
  <1> USE DEF IInv
  <1>1. /\ pc[r] = "update" /\ job[r] \in Job /\ job[r].op \notin Inserts
        /\ ~Locked(job[r].id)
        /\ draft' = [draft EXCEPT ![r] = Updated(job[r].op, relationships[job[r].id])]
        /\ pc' = [pc EXCEPT ![r] = "written"]
        /\ UNCHANGED <<relationships, audit, metering, job>>
    BY DEF Update, Goto, JobAtPc, TypeOK
  <1>2. TypeOK'
    <2>1. relationships[job[r].id] \in Row /\ job[r].op \in Op
      BY <1>1 DEF RowsWereInserted, TypeOK, Exists, Job
    <2> QED
      BY <1>1, <2>1, UpdatedIsRow DEF TypeOK, InFlight
  <1>3. JobAtPc' /\ LookupIsInvite' /\ IdsAreFresh'
    BY <1>1 DEF JobAtPc, LookupIsInvite, IdsAreFresh, TypeOK
  <1>4. RowsWereInserted'
    <2>1. ASSUME NEW k \in Id, Exists(k)
          PROVE  \E q \in Request : pc'[q] = "committed" /\ job'[q].op \in Inserts /\ job'[q].id = k
      BY <1>1, <2>1 DEF RowsWereInserted, TypeOK
    <2> QED
      BY <1>1, <2>1 DEF RowsWereInserted, TypeOK, Exists
  <1>5. DraftIsCurrent'
    BY <1>1 DEF DraftIsCurrent, TypeOK, Locked
  <1>6. ConsentHeld' /\ ConsentAudited'
    BY <1>1 DEF ConsentHeld, ConsentAudited, TypeOK, Billable, HasStamp, HasStatus, Exists
  <1> QED
    BY <1>2, <1>3, <1>4, <1>5, <1>6

\* What a commit installs: a row, with the consent and the end date the old one had, and a
\* consent whenever it is active or closed.
LEMMA CommittedVersion ==
  ASSUME IInv, NEW r \in Request, pc[r] = "written"
  PROVE  /\ job[r] \in Job /\ draft[r] \in Row
         /\ \A c \in Column : HasStamp(job[r].id, c) => c \in draft[r].stamped
         /\ (draft[r].status = "active" \/ "effective_to" \in draft[r].stamped)
              => "consented_at" \in draft[r].stamped
         /\ job[r].op \in Inserts => ~Exists(job[r].id)
         /\ "effective_to" \in draft[r].stamped => HasStamp(job[r].id, "consented_at")
         /\ draft[r].status = "active" <=> job[r].op \in Billable
         /\ "consented_at" \in draft[r].stamped =>
              (HasStamp(job[r].id, "consented_at") \/ job[r].op \in Billable)
  <1> USE DEF IInv
  <1>1. job[r] \in Job /\ job[r] # NoJob
    BY SentinelAssumption DEF JobAtPc, TypeOK
  <1>2. CASE job[r].op \in Inserts
    <2>1. ~Exists(job[r].id)
      <3> SUFFICES ASSUME Exists(job[r].id) PROVE FALSE
        OBVIOUS
      <3>1. PICK p \in Request : pc[p] = "committed" /\ job[p].op \in Inserts /\ job[p].id = job[r].id
        BY <1>1 DEF RowsWereInserted, Job
      <3>2. job[p] # NoJob
        BY <3>1 DEF JobAtPc
      <3> QED
        BY <1>1, <1>2, <3>1, <3>2 DEF IdsAreFresh
    <2>2. draft[r] = Inserted(job[r].op)
      BY <1>2 DEF DraftIsCurrent
    <2>3. draft[r] \in Row
      BY <1>2, <2>2, InsertedIsRow
    <2>4. \/ draft[r] = [status |-> "active", stamped |-> {"consented_at", "effective_from"}]
             /\ job[r].op \in Billable
          \/ draft[r] = [status |-> "pending_acceptance", stamped |-> {}]
             /\ job[r].op \notin Billable
      BY <1>2, <2>2 DEF Inserted, Inserts, Billable, StatusOf, Stamps
    <2> QED
      BY <1>1, <1>2, <2>1, <2>3, <2>4 DEF HasStamp
  <1>3. CASE job[r].op \notin Inserts
    <2>1. Exists(job[r].id) /\ relationships[job[r].id] \in Row /\ job[r].op \in Op
      BY <1>1, <1>3 DEF RowsWereInserted, TypeOK, Exists, Job
    <2>2. draft[r] = Updated(job[r].op, relationships[job[r].id])
      BY <1>3 DEF DraftIsCurrent
    <2>3. job[r].op \in {"accept", "decline", "revoke", "end"}
      BY <1>3, <2>1 DEF Op, BrokerOps, OrgOps, Inserts
    <2>4. job[r].op \in {"revoke", "end"} => HasStamp(job[r].id, "consented_at")
      BY DEF ConsentHeld
    <2>5. HasStamp(job[r].id, "effective_to") => HasStamp(job[r].id, "consented_at")
      BY <1>1 DEF ConsentHeld, Job
    <2> QED
      BY <1>1, <1>3, <2>1, <2>2, <2>3, <2>4, <2>5, UpdatedIsRow
      DEF HasStamp, Updated, Billable, StatusOf, Stamps
  <1> QED
    BY <1>2, <1>3

LEMMA CommitIInv ==
  ASSUME IInv, NEW r \in Request, Commit(r)
  PROVE  IInv'
  <1> USE DEF IInv
  <1> DEFINE i == job[r].id
             entry == [action |-> ActionOf[job[r].op], request |-> r]
  <1>1. /\ pc[r] = "written"
        /\ relationships' = [relationships EXCEPT ![i] = draft[r]]
        /\ audit' = [audit EXCEPT ![i] = Append(audit[i], entry)]
        /\ metering' = IF job[r].op \in Billable THEN metering \union {<<i, r>>} ELSE metering
        /\ draft' = [draft EXCEPT ![r] = NoRow]
        /\ pc' = [pc EXCEPT ![r] = "committed"]
        /\ job' = job
    BY DEF Commit, Goto
  <1>2. /\ job[r] \in Job /\ job[r] # NoJob /\ i \in Id /\ job[r].op \in Op
        /\ draft[r] \in Row /\ draft[r] # NoRow
        /\ relationships'[i] = draft[r]
        /\ \A k \in Id : k # i => relationships'[k] = relationships[k]
    BY <1>1, CommittedVersion, SentinelAssumption DEF Job, TypeOK
  <1>3. /\ entry \in AuditEntry
        /\ entry.action = "relationship.consented" <=> job[r].op \in Billable
        /\ entry.request = r
    BY <1>2 DEF AuditEntry, AuditAction, ActionOf, Op, BrokerOps, OrgOps, Billable
  <1>4. TypeOK'
    <2>1. audit' \in [Id -> Seq(AuditEntry)]
      BY <1>1, <1>2, <1>3 DEF TypeOK
    <2>2. metering' \subseteq Id \X Request
      BY <1>1, <1>2 DEF TypeOK
    <2> QED
      BY <1>1, <1>2, <2>1, <2>2 DEF TypeOK, Finished
  <1>5. JobAtPc' /\ LookupIsInvite' /\ IdsAreFresh'
    BY <1>1 DEF JobAtPc, LookupIsInvite, IdsAreFresh, TypeOK
  <1>6. \A k \in Id : Exists(k) => Exists(k)'
    BY <1>2 DEF Exists
  <1>7. RowsWereInserted'
    <2>1. ASSUME NEW k \in Id, Exists(k)'
          PROVE  \E q \in Request : pc'[q] = "committed" /\ job'[q].op \in Inserts /\ job'[q].id = k
      <3>1. CASE Exists(k)
        <4>1. PICK q \in Request : pc[q] = "committed" /\ job[q].op \in Inserts /\ job[q].id = k
          BY <3>1 DEF RowsWereInserted
        <4> QED
          BY <1>1, <4>1 DEF TypeOK
      <3>2. CASE ~Exists(k)
        <4>1. k = i
          BY <1>2, <2>1, <3>2 DEF Exists
        <4>2. job[r].op \in Inserts
          BY <1>1, <3>2, <4>1 DEF RowsWereInserted
        <4> QED
          BY <1>1, <4>1, <4>2 DEF TypeOK
      <3> QED
        BY <3>1, <3>2
    <2>2. ASSUME NEW q \in Request, pc'[q] \in {"update", "written"}, job[q].op \notin Inserts
          PROVE  Exists(job[q].id)'
      <3>1. pc[q] = pc'[q] /\ job[q] # NoJob /\ job[q] \in Job
        BY <1>1, <2>2 DEF TypeOK, JobAtPc
      <3>2. Exists(job[q].id)
        BY <2>2, <3>1 DEF RowsWereInserted
      <3> QED
        BY <1>1, <1>6, <3>1, <3>2 DEF Job, Exists
    <2> QED
      BY <1>1, <2>1, <2>2 DEF RowsWereInserted
  <1>8. DraftIsCurrent'
    <2>1. \A q \in Request : pc'[q] = "written" =>
            /\ q # r /\ pc[q] = "written" /\ draft'[q] = draft[q]
            /\ job[q].id \in Id /\ job[q].id # i
      BY <1>1, CommittedVersion DEF TypeOK, DraftIsCurrent, Job
    <2>2. \A q \in Request : pc'[q] = "written" => relationships'[job[q].id] = relationships[job[q].id]
      BY <1>2, <2>1
    <2> QED
      BY <1>1, <2>1, <2>2 DEF DraftIsCurrent
  <1>9. ConsentHeld'
    <2>1. \A k \in Id : HasStamp(k, "consented_at") => HasStamp(k, "consented_at")'
      BY <1>1, <1>2, CommittedVersion DEF HasStamp, Exists, Column
    <2>2. ASSUME NEW k \in Id, HasStatus(k, "active")' \/ HasStamp(k, "effective_to")'
          PROVE  HasStamp(k, "consented_at")'
      <3>1. CASE k = i
        BY <1>1, <1>2, <2>2, <3>1, CommittedVersion DEF HasStatus, HasStamp, Exists
      <3>2. CASE k # i
        BY <1>2, <2>1, <2>2, <3>2 DEF ConsentHeld, HasStatus, HasStamp, Exists
      <3> QED
        BY <3>1, <3>2
    <2>3. ASSUME NEW q \in Request, pc'[q] \in {"update", "written"}, job[q].op \in {"revoke", "end"}
          PROVE  HasStamp(job[q].id, "consented_at")'
      <3>1. pc[q] = pc'[q] /\ job[q] # NoJob /\ job[q] \in Job
        BY <1>1, <2>3 DEF TypeOK, JobAtPc
      <3>2. HasStamp(job[q].id, "consented_at")
        BY <2>3, <3>1 DEF ConsentHeld
      <3>3. job[q].id \in Id
        BY <3>1 DEF Job
      <3> QED
        BY <1>1, <2>1, <3>2, <3>3 DEF HasStamp, Exists
    <2>4. ASSUME NEW q \in Request, pc'[q] \in {"insert", "update", "written"}, job[q].op \in Billable
          PROVE  job[q].by = BrokerOf[job[q].id]
      BY <1>1, <2>4 DEF TypeOK, ConsentHeld
    <2> QED
      BY <1>1, <2>2, <2>3, <2>4 DEF ConsentHeld
  <1>10. ConsentAudited'
    <2> SUFFICES ASSUME NEW k \in Id, HasStamp(k, "consented_at")'
                 PROVE  \E n \in DOMAIN audit'[k] :
                          /\ audit'[k][n].action = "relationship.consented"
                          /\ job[audit'[k][n].request] # NoJob
                          /\ job[audit'[k][n].request].by = BrokerOf[k]
      BY <1>1 DEF ConsentAudited
    <2>0. audit[k] \in Seq(AuditEntry)
      BY DEF TypeOK
    <2>1. CASE HasStamp(k, "consented_at")
      <3>1. PICK n \in DOMAIN audit[k] :
              /\ audit[k][n].action = "relationship.consented"
              /\ job[audit[k][n].request] # NoJob
              /\ job[audit[k][n].request].by = BrokerOf[k]
        BY <2>1 DEF ConsentAudited
      <3>2. n \in DOMAIN audit'[k] /\ audit'[k][n] = audit[k][n]
        BY <1>1, <2>0, <1>3 DEF TypeOK
      <3> QED
        BY <3>1, <3>2
    <2>2. CASE ~HasStamp(k, "consented_at")
      <3>1. k = i /\ job[r].op \in Billable
        BY <1>1, <1>2, <2>2, CommittedVersion DEF HasStamp, Exists
      <3>2. /\ Len(audit[k]) + 1 \in DOMAIN audit'[k]
            /\ audit'[k][Len(audit[k]) + 1] = entry
        BY <1>1, <1>2, <1>3, <2>0, <3>1 DEF TypeOK
      <3>3. job[r].by = BrokerOf[k]
        BY <1>1, <3>1 DEF ConsentHeld
      <3> QED
        BY <1>2, <1>3, <3>1, <3>2, <3>3
    <2> QED
      BY <2>1, <2>2
  <1> QED
    BY <1>4, <1>5, <1>7, <1>8, <1>9, <1>10

LEMMA StatementIInv ==
  ASSUME IInv, NEW r \in Request, Statement(r) \/ Abort(r)
  PROVE  IInv'
  <1>1. CASE LookupBroker(r)
    <2>1. job[r].op = "invite"
      BY <1>1 DEF LookupBroker, IInv, LookupIsInvite
    <2>2. \E where \in {"insert", "refused"} : Goto(r, where)
      BY <1>1 DEF LookupBroker
    <2> QED
      BY <1>1, <2>1, <2>2, MoveIInv DEF LookupBroker, InFlight
  <1>2. CASE Insert(r)
    BY <1>2, InsertIInv
  <1>3. CASE Check(r)
    <2>1. pc[r] = "check" /\ job[r] \in Job /\ job[r].op \notin Inserts
      BY <1>3 DEF Check, IInv, TypeOK, JobAtPc
    <2>2. CASE Found(job[r]) /\ HasStatus(job[r].id, RequiredStatus[job[r].op])
      <3>1. Goto(r, "update") /\ Exists(job[r].id)
        BY <1>3, <2>2 DEF Check, Found
      <3>2. job[r].op \in {"revoke", "end"} => HasStamp(job[r].id, "consented_at")
        BY <2>1, <2>2 DEF RequiredStatus, IInv, ConsentHeld, Job
      <3>3. job[r].op \in Billable => job[r].by = BrokerOf[job[r].id]
        BY <2>2 DEF Found, Billable, BrokerOps
      <3> QED
        BY <1>3, <2>1, <3>1, <3>2, <3>3, MoveIInv DEF Check, InFlight
    <2>3. CASE ~(Found(job[r]) /\ HasStatus(job[r].id, RequiredStatus[job[r].op]))
      <3>1. Goto(r, "refused")
        BY <1>3, <2>3 DEF Check
      <3> QED
        BY <1>3, <2>1, <3>1, MoveIInv DEF Check, InFlight
    <2> QED
      BY <2>2, <2>3
  <1>4. CASE Update(r)
    BY <1>4, UpdateIInv
  <1>5. CASE Commit(r)
    BY <1>5, CommitIInv
  <1>6. CASE Abort(r)
    BY <1>6, MoveIInv DEF Abort
  <1> QED
    BY <1>1, <1>2, <1>3, <1>4, <1>5, <1>6 DEF Statement

LEMMA NextIInv == IInv /\ [Next]_vars => IInv'
  <1> SUFFICES ASSUME IInv, [Next]_vars PROVE IInv'
    OBVIOUS
  <1>1. CASE UNCHANGED vars
    BY <1>1 DEF vars, IInv, TypeOK, JobAtPc, LookupIsInvite, IdsAreFresh, RowsWereInserted, DraftIsCurrent,
                ConsentHeld, ConsentAudited, Exists, HasStamp, HasStatus
  <1>2. CASE Next
    BY <1>1, <1>2, BeginIInv, StatementIInv DEF Next, Served
  <1> QED
    BY <1>1, <1>2

LEMMA Induction == Spec => []IInv
  BY InitIInv, NextIInv, PTL DEF Spec

(***************************************************************************)
(* The ledgers, and the row as the replay of its log.                      *)
(***************************************************************************)

\* What a call that committed left behind.
CommitsAreRecorded ==
  \A r \in Request : pc[r] = "committed" =>
    /\ \E n \in DOMAIN audit[job[r].id] : audit[job[r].id][n].request = r
    /\ job[r].op \in Billable => <<job[r].id, r>> \in metering

\* An audit entry is of a call that committed, about the row it was for, and that call's only one.
EntriesAreOfCommits ==
  \A i \in Id : \A n \in DOMAIN audit[i] :
    LET r == audit[i][n].request IN
    /\ pc[r] = "committed" /\ job[r].id = i
    /\ \A m \in DOMAIN audit[i] : audit[i][m].request = r => m = n

\* A billable event is of a billable call that committed, about the row it was for.
BillsAreOfCommits ==
  \A i \in Id, r \in Request : <<i, r>> \in metering =>
    pc[r] = "committed" /\ job[r].id = i /\ job[r].op \in Billable

LedgersInv == CommitsAreRecorded /\ EntriesAreOfCommits /\ BillsAreOfCommits

\* The version one audit entry adds on top of another.
Version(r, row) == IF job[r].op \in Inserts THEN Inserted(job[r].op) ELSE Updated(job[r].op, row)

\* versions is what the entries about i make of it, one after the other.
IsHistory(i, versions) ==
  \A n \in 0..Len(audit[i]) :
    versions[n] = IF n = 0 THEN NoRow ELSE Version(audit[i][n].request, versions[n - 1])

HistoryEndsInRow ==
  \A i \in Id : \E versions : IsHistory(i, versions) /\ versions[Len(audit[i])] = relationships[i]

LInv == LedgersInv /\ HistoryEndsInRow

\* A call that began keeps its job, and only Commit touches a ledger or completes a call.
LEMMA OnlyCommitRecords ==
  ASSUME IInv, [Next]_vars
  PROVE  /\ \A r \in Request : job[r] # NoJob => job'[r] = job[r]
         /\ \/ /\ UNCHANGED <<relationships, audit, metering>>
               /\ \A r \in Request : pc'[r] = "committed" <=> pc[r] = "committed"
            \/ \E r \in Request : Commit(r)
  <1>1. CASE UNCHANGED vars
    BY <1>1 DEF vars
  <1>2. ASSUME NEW r \in Request, NEW op \in Op, NEW i \in Id, NEW by \in Broker \union Org,
               Begin(r, op, i, by)
        PROVE  /\ \A q \in Request : job[q] # NoJob => job'[q] = job[q]
               /\ UNCHANGED <<relationships, audit, metering>>
               /\ \A q \in Request : pc'[q] = "committed" <=> pc[q] = "committed"
    <2>1. FirstStep[op] # "committed" /\ job[r] = NoJob
      BY <1>2 DEF Begin, FirstStep, Op, BrokerOps, OrgOps, IInv, JobAtPc
    <2> QED
      BY <1>2, <2>1 DEF Begin, Goto, IInv, TypeOK
  <1>3. ASSUME NEW r \in Request, Statement(r) \/ Abort(r)
        PROVE  /\ job' = job
               /\ \/ /\ UNCHANGED <<relationships, audit, metering>>
                     /\ \A q \in Request : pc'[q] = "committed" <=> pc[q] = "committed"
                  \/ Commit(r)
    BY <1>3 DEF Statement, LookupBroker, Insert, Check, Update, Abort, Goto, InFlight, IInv, TypeOK,
                Commit
  <1> QED
    BY <1>1, <1>2, <1>3 DEF Next, Served

\* What Commit adds: one entry, of its own call, and the version it makes of the row.
LEMMA CommitEffect ==
  ASSUME IInv, NEW r \in Request, Commit(r)
  PROVE  LET i == job[r].id IN
         /\ i \in Id /\ pc[r] = "written" /\ job' = job
         /\ pc' = [pc EXCEPT ![r] = "committed"]
         /\ audit[i] \in Seq(AuditEntry)
         /\ audit'[i] \in Seq(AuditEntry)
         /\ Len(audit'[i]) = Len(audit[i]) + 1
         /\ audit'[i][Len(audit[i]) + 1].request = r
         /\ \A n \in DOMAIN audit[i] : n \in DOMAIN audit'[i] /\ audit'[i][n] = audit[i][n]
         /\ \A k \in Id : k # i => audit'[k] = audit[k] /\ relationships'[k] = relationships[k]
         /\ relationships'[i] = Version(r, relationships[i])
         /\ metering' = IF job[r].op \in Billable THEN metering \union {<<i, r>>} ELSE metering
  <1> DEFINE i == job[r].id
             entry == [action |-> ActionOf[job[r].op], request |-> r]
  <1>1. /\ i \in Id /\ job[r].op \in Op /\ pc[r] = "written"
        /\ draft[r] = Version(r, relationships[i])
    BY CommittedVersion DEF Commit, Job, IInv, DraftIsCurrent, Version
  <1>2. entry \in AuditEntry
    BY <1>1 DEF AuditEntry, AuditAction, ActionOf, Op, BrokerOps, OrgOps
  <1>3. audit[i] \in Seq(AuditEntry) /\ audit' = [audit EXCEPT ![i] = Append(audit[i], entry)]
    BY <1>1 DEF Commit, IInv, TypeOK
  <1>4. audit'[i] = Append(audit[i], entry) /\ \A k \in Id : k # i => audit'[k] = audit[k]
    BY <1>1, <1>3 DEF IInv, TypeOK
  <1>5. /\ Append(audit[i], entry) \in Seq(AuditEntry)
        /\ Len(Append(audit[i], entry)) = Len(audit[i]) + 1
        /\ Append(audit[i], entry)[Len(audit[i]) + 1] = entry
        /\ \A n \in DOMAIN audit[i] : /\ n \in DOMAIN Append(audit[i], entry)
                                      /\ Append(audit[i], entry)[n] = audit[i][n]
    BY <1>2, <1>3
  <1>6. relationships'[i] = draft[r] /\ \A k \in Id : k # i => relationships'[k] = relationships[k]
    BY <1>1 DEF Commit, IInv, TypeOK
  <1>7. /\ metering' = IF job[r].op \in Billable THEN metering \union {<<i, r>>} ELSE metering
        /\ pc' = [pc EXCEPT ![r] = "committed"] /\ job' = job
    BY DEF Commit, Goto
  <1> HIDE DEF entry
  <1>8. entry.request = r
    BY DEF entry
  <1> QED
    BY <1>1, <1>3, <1>4, <1>5, <1>6, <1>7, <1>8

LEMMA InitLInv == Init => LInv
  <1> SUFFICES ASSUME Init PROVE LInv
    OBVIOUS
  <1>1. LedgersInv
    BY DEF Init, LedgersInv, CommitsAreRecorded, EntriesAreOfCommits, BillsAreOfCommits
  <1>2. ASSUME NEW i \in Id
        PROVE  \E versions : IsHistory(i, versions) /\ versions[Len(audit[i])] = relationships[i]
    <2>1. Len(audit[i]) = 0 /\ relationships[i] = NoRow
      BY DEF Init
    <2> DEFINE first == [n \in {0} |-> NoRow]
    <2>2. first[0] = NoRow
      OBVIOUS
    <2>3. IsHistory(i, first) /\ first[Len(audit[i])] = relationships[i]
      BY <2>1, <2>2 DEF IsHistory
    <2> QED
      BY <2>3
  <1> QED
    BY <1>1, <1>2 DEF LInv, HistoryEndsInRow

LEMMA LedgersNext ==
  ASSUME IInv, LedgersInv, [Next]_vars
  PROVE  LedgersInv'
  <1> USE DEF LedgersInv
  <1>1. \A q \in Request : pc[q] = "committed" => job'[q] = job[q] /\ job[q].id \in Id
    BY OnlyCommitRecords DEF IInv, JobAtPc, TypeOK, Job
  <1>2. \A i \in Id : \A n \in DOMAIN audit[i] : audit[i][n].request \in Request
    BY AuditEntryType DEF IInv, AuditEntry
  <1>3. CASE /\ UNCHANGED <<relationships, audit, metering>>
             /\ \A q \in Request : pc'[q] = "committed" <=> pc[q] = "committed"
    <2>1. CommitsAreRecorded'
      BY <1>1, <1>3 DEF CommitsAreRecorded
    <2>2. EntriesAreOfCommits'
      BY <1>1, <1>2, <1>3 DEF EntriesAreOfCommits
    <2>3. BillsAreOfCommits'
      BY <1>1, <1>3 DEF BillsAreOfCommits
    <2> QED
      BY <2>1, <2>2, <2>3
  <1>4. ASSUME NEW r \in Request, Commit(r)
        PROVE  LedgersInv'
    <2> DEFINE i == job[r].id
               last == Len(audit[i]) + 1
    <2>1. /\ i \in Id /\ pc[r] = "written" /\ job' = job
          /\ pc' = [pc EXCEPT ![r] = "committed"]
          /\ Len(audit'[i]) = last
          /\ audit[i] \in Seq(AuditEntry) /\ audit'[i] \in Seq(AuditEntry)
          /\ audit'[i][last].request = r
          /\ \A n \in DOMAIN audit[i] : n \in DOMAIN audit'[i] /\ audit'[i][n] = audit[i][n]
          /\ \A k \in Id : k # i => audit'[k] = audit[k]
          /\ metering' = IF job[r].op \in Billable THEN metering \union {<<i, r>>} ELSE metering
      BY <1>4, CommitEffect
    <2>2. last \in DOMAIN audit'[i] /\ \A n \in DOMAIN audit'[i] : n # last => n \in DOMAIN audit[i]
      BY <2>1
    <2>3. \A q \in Request : pc'[q] = "committed" <=> pc[q] = "committed" \/ q = r
      BY <2>1 DEF IInv, TypeOK
    <2>4. \A k \in Id : \A n \in DOMAIN audit[k] : n \in DOMAIN audit'[k] /\ audit'[k][n] = audit[k][n]
      BY <2>1
    <2>5. \A k \in Id : \A n \in DOMAIN audit'[k] :
            \/ n \in DOMAIN audit[k] /\ audit'[k][n] = audit[k][n]
            \/ k = i /\ n = last
      BY <2>1, <2>2
    <2>6. \A k \in Id : \A n \in DOMAIN audit[k] : audit[k][n].request # r
      BY <2>1 DEF EntriesAreOfCommits
    <2> HIDE DEF last
    <2>7. CommitsAreRecorded'
      <3> SUFFICES ASSUME NEW q \in Request, pc'[q] = "committed"
                   PROVE  /\ \E n \in DOMAIN audit'[job[q].id] : audit'[job[q].id][n].request = q
                          /\ job[q].op \in Billable => <<job[q].id, q>> \in metering'
        BY <2>1 DEF CommitsAreRecorded
      <3>1. CASE q = r
        BY <2>1, <2>2, <3>1
      <3>2. CASE q # r
        BY <1>1, <2>1, <2>3, <2>4, <3>2 DEF CommitsAreRecorded
      <3> QED
        BY <3>1, <3>2
    <2>8. EntriesAreOfCommits'
      <3> SUFFICES ASSUME NEW k \in Id, NEW n \in DOMAIN audit'[k]
                   PROVE  /\ pc'[audit'[k][n].request] = "committed"
                          /\ job[audit'[k][n].request].id = k
                          /\ \A m \in DOMAIN audit'[k] : audit'[k][m].request = audit'[k][n].request => m = n
        BY <2>1 DEF EntriesAreOfCommits
      <3>1. CASE k = i /\ n = last
        BY <2>1, <2>3, <2>5, <2>6, <3>1
      <3>2. CASE n \in DOMAIN audit[k] /\ audit'[k][n] = audit[k][n]
        <4> DEFINE q == audit[k][n].request
        <4>1. q \in Request /\ q # r /\ pc[q] = "committed" /\ job[q].id = k
          BY <1>2, <2>6, <3>2 DEF EntriesAreOfCommits
        <4>2. \A m \in DOMAIN audit'[k] : audit'[k][m].request = q => m = n
          BY <2>1, <2>5, <3>2, <4>1 DEF EntriesAreOfCommits
        <4> QED
          BY <2>3, <3>2, <4>1, <4>2
      <3> QED
        BY <2>5, <3>1, <3>2
    <2>9. BillsAreOfCommits'
      <3> SUFFICES ASSUME NEW k \in Id, NEW q \in Request, <<k, q>> \in metering'
                   PROVE  pc'[q] = "committed" /\ job[q].id = k /\ job[q].op \in Billable
        BY <2>1 DEF BillsAreOfCommits
      <3>1. <<k, q>> \in metering \/ (k = i /\ q = r /\ job[r].op \in Billable)
        BY <2>1
      <3> QED
        BY <2>3, <3>1 DEF BillsAreOfCommits
    <2> QED
      BY <2>7, <2>8, <2>9
  <1> QED
    BY <1>3, <1>4, OnlyCommitRecords

LEMMA HistoryNext ==
  ASSUME IInv, LInv, [Next]_vars
  PROVE  HistoryEndsInRow'
  <1>1. \A i \in Id : audit[i] \in Seq(AuditEntry)
    BY DEF IInv, TypeOK
  <1>2. \A i \in Id : \A n \in DOMAIN audit[i] :
          audit[i][n].request \in Request /\ job'[audit[i][n].request] = job[audit[i][n].request]
    <2> SUFFICES ASSUME NEW i \in Id, NEW n \in DOMAIN audit[i]
                 PROVE  /\ audit[i][n].request \in Request
                        /\ job'[audit[i][n].request] = job[audit[i][n].request]
      OBVIOUS
    <2>1. audit[i][n].request \in Request
      BY AuditEntryType DEF IInv, AuditEntry
    <2>2. job[audit[i][n].request] # NoJob
      BY <2>1 DEF LInv, LedgersInv, EntriesAreOfCommits, IInv, JobAtPc
    <2> QED
      BY <2>1, <2>2, OnlyCommitRecords
  <1>3. ASSUME NEW i \in Id, audit'[i] = audit[i], relationships'[i] = relationships[i]
        PROVE  \E versions : IsHistory(i, versions)' /\ versions[Len(audit'[i])] = relationships'[i]
    <2>1. PICK versions : IsHistory(i, versions) /\ versions[Len(audit[i])] = relationships[i]
      BY DEF LInv, HistoryEndsInRow
    <2>2. \A n \in 0..Len(audit[i]) : n # 0 => n \in DOMAIN audit[i]
      BY <1>1
    <2>3. IsHistory(i, versions)'
      BY <1>2, <1>3, <2>1, <2>2 DEF IsHistory, Version
    <2> QED
      BY <1>3, <2>1, <2>3
  <1>4. ASSUME NEW r \in Request, Commit(r), NEW i \in Id, i = job[r].id
        PROVE  \E versions : IsHistory(i, versions)' /\ versions[Len(audit'[i])] = relationships'[i]
    <2>1. PICK versions : IsHistory(i, versions) /\ versions[Len(audit[i])] = relationships[i]
      BY DEF LInv, HistoryEndsInRow
    <2> DEFINE len == Len(audit[i])
    <2>0. PICK extended :
            extended = [n \in 0..(len + 1) |-> IF n = len + 1 THEN relationships'[i] ELSE versions[n]]
      OBVIOUS
    <2>2. /\ len \in Nat /\ Len(audit'[i]) = len + 1 /\ job' = job
          /\ audit'[i][len + 1].request = r
          /\ \A n \in 1..len : audit'[i][n] = audit[i][n]
          /\ relationships'[i] = Version(r, versions[len])
      <3>1. /\ Len(audit'[i]) = len + 1 /\ job' = job
            /\ audit'[i][len + 1].request = r
            /\ \A n \in DOMAIN audit[i] : audit'[i][n] = audit[i][n]
            /\ relationships'[i] = Version(r, relationships[i])
        BY <1>4, CommitEffect
      <3> QED
        BY <1>1, <2>1, <3>1
    <2>3. /\ \A n \in 0..len : extended[n] = versions[n]
          /\ extended[len + 1] = relationships'[i]
      BY <2>0, <2>2
    <2>4. ASSUME NEW n \in 0..(len + 1)
          PROVE  extended[n] = IF n = 0 THEN NoRow ELSE Version(audit'[i][n].request, extended[n - 1])
      <3>1. CASE n = 0
        BY <2>1, <2>2, <2>3, <3>1 DEF IsHistory
      <3>2. CASE n \in 1..len
        <4>1. n \in 0..len /\ n - 1 \in 0..len /\ n # 0
          BY <2>2, <3>2
        <4>2. versions[n] = Version(audit[i][n].request, versions[n - 1])
          BY <2>1, <4>1 DEF IsHistory
        <4> QED
          BY <2>2, <2>3, <3>2, <4>1, <4>2
      <3>3. CASE n = len + 1
        <4>1. len \in 0..len /\ n - 1 = len /\ n # 0
          BY <2>2, <3>3
        <4> QED
          BY <2>2, <2>3, <3>3, <4>1
      <3> QED
        BY <2>2, <3>1, <3>2, <3>3
    <2>5. IsHistory(i, extended)'
      <3>1. \A q, row : Version(q, row)' = Version(q, row)
        BY <2>2 DEF Version
      <3> HIDE DEF len
      <3> QED
        BY <2>2, <2>4, <3>1 DEF IsHistory
    <2> QED
      BY <2>2, <2>3, <2>5
  <1>5. CASE UNCHANGED <<relationships, audit, metering>>
    BY <1>3, <1>5 DEF HistoryEndsInRow
  <1>6. ASSUME NEW r \in Request, Commit(r)
        PROVE  HistoryEndsInRow'
    BY <1>3, <1>4, <1>6, CommitEffect DEF HistoryEndsInRow
  <1> QED
    BY <1>5, <1>6, OnlyCommitRecords

LEMMA LedgerInduction == Spec => [](IInv /\ LInv)
  <1>1. IInv /\ LInv /\ [Next]_vars => LInv'
    BY LedgersNext, HistoryNext DEF LInv
  <1> QED
    BY <1>1, InitIInv, InitLInv, NextIInv, PTL DEF Spec

\* Every non-empty set of naturals has a least element.
LEMMA LeastElement ==
  ASSUME NEW S, S \subseteq Nat, S # {}
  PROVE  \E n \in S : \A m \in S : n <= m
  <1>1. PICK n \in S : \A m \in S : <<m, n>> \notin OpToRel(<, Nat)
    BY NatLessThanWellFounded, WFMin
  <1>2. \A m \in S : ~(m < n)
    BY <1>1 DEF OpToRel
  <1> QED
    BY <1>2

(***************************************************************************)
(* The results.                                                            *)
(***************************************************************************)

\* Every variable keeps its type (the relationships table and the calls on it).
THEOREM TypeCorrect == Spec => []TypeOK
  <1>1. IInv => TypeOK
    BY DEF IInv
  <1> QED
    BY <1>1, Induction, PTL

\* However calls interleave, a row has_active_relationship() counts carries a consent, and
\* the consent in the audit log is its own broker's.
THEOREM VisibleOnlyWithConsent == Spec => []ConsentBehindVisibility
  <1>1. IInv => ConsentBehindVisibility
    BY DEF IInv, ConsentHeld, ConsentAudited, ConsentBehindVisibility, Counts
  <1> QED
    BY <1>1, Induction, PTL

\* A step changes at most one row, by committing its draft.
LEMMA OnlyCommitWrites ==
  ASSUME IInv, [Next]_vars
  PROVE  \/ UNCHANGED relationships
         \/ \E r \in Request, i \in Id : /\ pc[r] = "written" /\ i = job[r].id
                                       /\ relationships' = [relationships EXCEPT ![i] = draft[r]]
  <1>1. \A r \in Request : pc[r] = "written" => job[r].id \in Id
    BY CommittedVersion DEF Job
  <1> QED
    BY <1>1 DEF Next, Served, vars, Begin, Statement, LookupBroker, Insert, Check, Update, Commit, Abort

\* An UPDATE that has waited for the lock writes over the newest version, so no commit can
\* take effective_to back: revoked or ended once, a row is never counted again.
THEOREM ClosedStaysClosed == Spec => ClosedForGood
  <1>1. ASSUME IInv, [Next]_vars, NEW i \in Id, HasStamp(i, "effective_to")
        PROVE  HasStamp(i, "effective_to")'
    <2>1. CASE UNCHANGED relationships
      BY <1>1, <2>1 DEF HasStamp, Exists
    <2>2. ASSUME NEW r \in Request, NEW j \in Id, pc[r] = "written", j = job[r].id,
                 relationships' = [relationships EXCEPT ![j] = draft[r]]
          PROVE  HasStamp(i, "effective_to")'
      <3>1. /\ draft[r] \in Row /\ draft[r] # NoRow
            /\ HasStamp(j, "effective_to") => "effective_to" \in draft[r].stamped
        BY <1>1, <2>2, CommittedVersion, SentinelAssumption DEF Column
      <3> QED
        BY <1>1, <2>2, <3>1 DEF HasStamp, Exists, IInv, TypeOK
    <2> QED
      BY <1>1, <2>1, <2>2, OnlyCommitWrites
  <1>2. IInv /\ [Next]_vars =>
          [\A i \in Id : HasStamp(i, "effective_to") =>
             HasStamp(i, "effective_to")' /\ ~Counts(i)']_vars
    BY <1>1 DEF Counts
  <1> QED
    BY <1>2, Induction, PTL DEF Spec, ClosedForGood

\* The transactional table implements VisibilityGrant.
THEOREM Refinement == Spec => RefinesGrant
  <1> DEFINE grantOf == [i \in Id |-> IF Counts(i) THEN "granted"
                                      ELSE IF HasStamp(i, "effective_to") THEN "closed" ELSE "withheld"]
             consentsOf == {i \in Id : HasStamp(i, "consented_at")}
  <1>1. Init => Grant!Init
    BY DEF Init, Grant!Init, Counts, HasStatus, HasStamp, Exists
  <1>2. IInv /\ [Next]_vars => [Grant!Next]_Grant!vars
    <2> SUFFICES ASSUME IInv, [Next]_vars PROVE [Grant!Next]_Grant!vars
      OBVIOUS
    <2>1. CASE UNCHANGED relationships
      BY <2>1 DEF Grant!vars, Counts, HasStatus, HasStamp, Exists
    <2>2. ASSUME NEW r \in Request, NEW i \in Id, pc[r] = "written", i = job[r].id,
                 relationships' = [relationships EXCEPT ![i] = draft[r]]
          PROVE  [Grant!Next]_Grant!vars
      <3>1. /\ i \in Id /\ draft[r] \in Row /\ draft[r] # NoRow
            /\ HasStamp(i, "consented_at") => "consented_at" \in draft[r].stamped
            /\ HasStamp(i, "effective_to") => "effective_to" \in draft[r].stamped
            /\ "effective_to" \in draft[r].stamped => HasStamp(i, "consented_at")
            /\ draft[r].status = "active" => "consented_at" \in draft[r].stamped
            /\ "consented_at" \in draft[r].stamped =>
                 (HasStamp(i, "consented_at") \/ draft[r].status = "active")
        BY <2>2, CommittedVersion, SentinelAssumption DEF Column, Job
      <3> DEFINE closes == "effective_to" \in draft[r].stamped
                 grants == draft[r].status = "active" /\ ~closes
      <3>2. /\ \A k \in Id : k # i => relationships'[k] = relationships[k]
            /\ relationships'[i] = draft[r]
        BY <2>1, <2>2, <3>1 DEF IInv, TypeOK
      <3>3. /\ Counts(i)' <=> grants
            /\ HasStamp(i, "effective_to")' <=> closes
            /\ HasStamp(i, "consented_at")' <=> "consented_at" \in draft[r].stamped
        BY <3>1, <3>2 DEF Counts, HasStatus, HasStamp, Exists
      <3>4. ASSUME NEW k \in Id, k # i
            PROVE  /\ Counts(k)' <=> Counts(k)
                   /\ HasStamp(k, "effective_to")' <=> HasStamp(k, "effective_to")
                   /\ HasStamp(k, "consented_at")' <=> HasStamp(k, "consented_at")
        BY <3>2, <3>4 DEF Counts, HasStatus, HasStamp, Exists
      <3>5. /\ Counts(i) => HasStamp(i, "consented_at") /\ ~HasStamp(i, "effective_to")
            /\ HasStamp(i, "effective_to") => HasStamp(i, "consented_at")
        BY <2>2, <3>1 DEF IInv, ConsentHeld, Counts
      <3>6. grantOf' = [grantOf EXCEPT ![i] = IF grants THEN "granted"
                                              ELSE IF closes THEN "closed" ELSE "withheld"]
        BY <3>1, <3>3, <3>4
      <3>7. consentsOf' = IF "consented_at" \in draft[r].stamped THEN consentsOf \union {i} ELSE consentsOf
        <4>1. "consented_at" \notin draft[r].stamped => i \notin consentsOf
          BY <3>1
        <4> QED
          BY <3>1, <3>3, <3>4, <4>1
      <3>8. grantOf[i] = IF Counts(i) THEN "granted"
                         ELSE IF HasStamp(i, "effective_to") THEN "closed" ELSE "withheld"
        BY <3>1
      <3>9. i \in consentsOf <=> HasStamp(i, "consented_at")
        BY <3>1
      <3>10. \/ /\ grantOf[i] = "withheld"
                /\ grantOf' = [grantOf EXCEPT ![i] = "granted"]
                /\ consentsOf' = consentsOf \union {i}
             \/ /\ grantOf[i] = "granted"
                /\ grantOf' = [grantOf EXCEPT ![i] = "withheld"]
                /\ consentsOf' = consentsOf
             \/ /\ grantOf[i] # "closed"
                /\ i \in consentsOf
                /\ grantOf' = [grantOf EXCEPT ![i] = "closed"]
                /\ consentsOf' = consentsOf
             \/ grantOf' = grantOf /\ consentsOf' = consentsOf
        <4>1. \A v : v = grantOf[i] => [grantOf EXCEPT ![i] = v] = grantOf
          OBVIOUS
        <4>2. i \in consentsOf => consentsOf \union {i} = consentsOf
          OBVIOUS
        <4> HIDE DEF grantOf, consentsOf
        <4> QED
          BY <3>1, <3>5, <3>6, <3>7, <3>8, <3>9, <4>1, <4>2
      <3> QED
        BY <3>10 DEF Grant!Next, Grant!Grant, Grant!Withhold, Grant!Close, Grant!vars
    <2> QED
      BY <2>1, <2>2, OnlyCommitWrites
  <1> QED
    BY <1>1, <1>2, Induction, PTL DEF Spec, Grant!Spec, RefinesGrant

\* The two directions of LedgersInv give the very sets that the ledgers are compared with.
LEMMA LedgersAreExact == ASSUME IInv, LedgersInv PROVE LedgersMatchCommits
  <1> SUFFICES ASSUME NEW r \in Request
               PROVE  LET entries == {e \in UNION {{i} \X DOMAIN audit[i] : i \in Id} :
                                        audit[e[1]][e[2]].request = r}
                          bills == {m \in metering : m[2] = r}
                      IN  IF pc[r] = "committed"
                          THEN /\ \E n \in DOMAIN audit[job[r].id] : entries = {<<job[r].id, n>>}
                               /\ bills = IF job[r].op \in Billable THEN {<<job[r].id, r>>} ELSE {}
                          ELSE entries = {} /\ bills = {}
    BY DEF LedgersMatchCommits
  <1> DEFINE places == UNION {{i} \X DOMAIN audit[i] : i \in Id}
             entries == {e \in places : audit[e[1]][e[2]].request = r}
             bills == {m \in metering : m[2] = r}
  <1>1. \A e : e \in places <=> \E i \in Id : \E n \in DOMAIN audit[i] : e = <<i, n>>
    OBVIOUS
  <1>2. \A m \in metering : \E i \in Id, q \in Request : m = <<i, q>>
    BY DEF IInv, TypeOK
  <1>3. \A e : e \in entries <=> \E i \in Id : \E n \in DOMAIN audit[i] : e = <<i, n>> /\ audit[i][n].request = r
    BY <1>1
  <1>4. \A m : m \in bills <=> \E i \in Id : m = <<i, r>> /\ <<i, r>> \in metering
    <2> SUFFICES ASSUME NEW m PROVE m \in bills <=> \E i \in Id : m = <<i, r>> /\ <<i, r>> \in metering
      OBVIOUS
    <2>1. CASE m \in metering
      <3>1. PICK i \in Id, q \in Request : m = <<i, q>>
        BY <1>2, <2>1
      <3> QED
        BY <2>1, <3>1
    <2> QED
      BY <2>1
  <1> HIDE DEF entries, bills
  <1>5. CASE pc[r] = "committed"
    <2>1. job[r].id \in Id
      BY <1>5 DEF IInv, JobAtPc, TypeOK, Job
    <2>2. PICK n \in DOMAIN audit[job[r].id] : audit[job[r].id][n].request = r
      BY <1>5 DEF LedgersInv, CommitsAreRecorded
    <2>3. \A i \in Id : \A m \in DOMAIN audit[i] : audit[i][m].request = r => i = job[r].id /\ m = n
      BY <2>1, <2>2 DEF LedgersInv, EntriesAreOfCommits
    <2>4. entries = {<<job[r].id, n>>}
      BY <1>3, <2>1, <2>2, <2>3
    <2>5. bills = IF job[r].op \in Billable THEN {<<job[r].id, r>>} ELSE {}
      <3>1. \A i \in Id : <<i, r>> \in metering <=> i = job[r].id /\ job[r].op \in Billable
        BY <1>5, <2>1 DEF LedgersInv, CommitsAreRecorded, BillsAreOfCommits
      <3> QED
        BY <1>4, <2>1, <3>1
    <2> QED
      BY <1>5, <2>2, <2>4, <2>5 DEF entries, bills
  <1>6. CASE pc[r] # "committed"
    <2>1. entries = {}
      BY <1>3, <1>6 DEF LedgersInv, EntriesAreOfCommits
    <2>2. bills = {}
      BY <1>4, <1>6 DEF LedgersInv, BillsAreOfCommits
    <2> QED
      BY <1>6, <2>1, <2>2 DEF entries, bills
  <1> QED
    BY <1>5, <1>6

\* A call that reported success left exactly one audit entry and, if it made a link active,
\* exactly one billable event, both about its own row; one that failed or runs left none.
THEOREM LedgersAgree == Spec => []LedgersMatchCommits
  <1>1. IInv /\ LInv => LedgersMatchCommits
    BY LedgersAreExact DEF LInv
  <1> QED
    BY <1>1, LedgerInduction, PTL

\* Two histories of one row are the same, entry for entry: the first entry after which they
\* differed would have been applied to equal versions.
LEMMA HistoryIsUnique ==
  ASSUME TypeOK, NEW i \in Id, NEW f, NEW g, IsHistory(i, f), IsHistory(i, g)
  PROVE  f[Len(audit[i])] = g[Len(audit[i])]
  <1> DEFINE len == Len(audit[i])
             differ == {n \in 0..len : f[n] # g[n]}
  <1>1. len \in Nat
    BY DEF TypeOK
  <1>2. differ = {}
    <2> SUFFICES ASSUME differ # {} PROVE FALSE
      OBVIOUS
    <2>1. differ \subseteq Nat
      BY <1>1
    <2> HIDE DEF differ
    <2>2. PICK n \in differ : \A m \in differ : n <= m
      BY <2>1, LeastElement
    <2> USE DEF differ
    <2>3. n # 0
      BY DEF IsHistory
    <2>4. n - 1 \in 0..len /\ n - 1 \notin differ
      BY <1>1, <2>2, <2>3
    <2> QED
      BY <2>3, <2>4 DEF IsHistory, Version
  <1> QED
    BY <1>1, <1>2

\* However updates, commits and failures interleave, a row is what its audit entries, applied
\* in the order of their commits, make of it.
THEOREM RowsAreReplayed == Spec => []RowIsReplayOfAudit
  <1> SUFFICES ASSUME IInv, HistoryEndsInRow PROVE RowIsReplayOfAudit
    BY LedgerInduction, PTL DEF LInv
  <1> SUFFICES ASSUME NEW i \in Id
               PROVE  LET opAt(n) == job[audit[i][n].request].op
                          row[n \in 0..Len(audit[i])] ==
                            IF n = 0 THEN NoRow
                            ELSE IF opAt(n) \in Inserts THEN Inserted(opAt(n))
                                 ELSE Updated(opAt(n), row[n - 1])
                      IN  relationships[i] = row[Len(audit[i])]
    BY DEF RowIsReplayOfAudit
  <1> DEFINE opAt(n) == job[audit[i][n].request].op
             row[n \in 0..Len(audit[i])] ==
               IF n = 0 THEN NoRow
               ELSE IF opAt(n) \in Inserts THEN Inserted(opAt(n)) ELSE Updated(opAt(n), row[n - 1])
             Replays(f) == f = [n \in 0..Len(audit[i]) |->
                                  IF n = 0 THEN NoRow
                                  ELSE IF opAt(n) \in Inserts THEN Inserted(opAt(n))
                                       ELSE Updated(opAt(n), f[n - 1])]
  <1>1. PICK versions : IsHistory(i, versions) /\ versions[Len(audit[i])] = relationships[i]
    BY DEF HistoryEndsInRow
  <1> DEFINE history == [n \in 0..Len(audit[i]) |-> versions[n]]
  <1>2. Len(audit[i]) \in Nat
    BY DEF IInv, TypeOK
  <1>3. Replays(history)
    <2>1. \A n \in 0..Len(audit[i]) : n # 0 => n - 1 \in 0..Len(audit[i])
      BY <1>2
    <2> QED
      BY <1>1, <2>1 DEF IsHistory, Version
  <1>4. row = CHOOSE f : Replays(f)
    OBVIOUS
  <1> HIDE DEF row, history
  <1>5. Replays(row)
    <2> HIDE DEF Replays
    <2> QED
      BY <1>3, <1>4
  <1>6. IsHistory(i, row)
    BY <1>5 DEF IsHistory, Version
  <1>7. row[Len(audit[i])] = versions[Len(audit[i])]
    BY <1>1, <1>6, HistoryIsUnique DEF IInv
  <1> QED
    BY <1>1, <1>7 DEF row
=============================================================================
