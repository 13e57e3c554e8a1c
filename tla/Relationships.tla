--------------------------- MODULE Relationships ---------------------------
(***************************************************************************)
(* The relationships table and the six calls that write it                 *)
(* (src/src/modules/relationships/relationships.repository.ts), each one a *)
(* READ COMMITTED transaction opened by withAuthorizationContext: a SELECT *)
(* that checks the status, an UPDATE by primary key alone that locks the   *)
(* row until the transaction ends, an audit row, sometimes a metering row, *)
(* then COMMIT.  Any number of them run at once.                           *)
(*                                                                         *)
(* A row's broker, organisation and type are written at INSERT and never   *)
(* changed, so they are functions of its id.  Of consented_at,             *)
(* effective_from and effective_to a row keeps which ones are not NULL.    *)
(***************************************************************************)
EXTENDS Naturals, Sequences, FiniteSets

CONSTANTS Broker, Org, Type,    \* broker profiles, client organisations, kinds of link
          Registered,           \* the brokers whose email has an account
          Id,                   \* ids the database may generate
          Request,              \* API calls, each served once
          BrokerOf, OrgOf, TypeOf,
          NoRow, NoJob

ASSUME ScopeAssumption == /\ BrokerOf \in [Id -> Broker]
                          /\ OrgOf \in [Id -> Org]
                          /\ TypeOf \in [Id -> Type]
                          /\ Registered \subseteq Broker
                          /\ Broker \intersect Org = {}

VARIABLES relationships,    \* the committed table
          audit,            \* audit[i]: committed audit rows about i, in commit order
          metering,         \* committed 'broker_linked' events, as <<row, request>>
          pc, job,          \* where each call is, and what it was asked to do
          draft             \* the row version a call has written and not committed

vars == <<relationships, audit, metering, pc, job, draft>>

(***************************************************************************)
(* The table.                                                              *)
(***************************************************************************)
Status == {"requested", "pending_acceptance", "active", "declined", "revoked", "ended"}

Column == {"consented_at", "effective_from", "effective_to"}

\* stamped: the columns that are not NULL.
Row == [status : Status, stamped : SUBSET Column]

BrokerOps == {"request", "accept", "decline", "revoke"}
OrgOps == {"invite", "end"}
Inserts == {"request", "invite"}
Op == BrokerOps \union OrgOps

Job == [op : Op, id : Id, by : Broker \union Org]

ASSUME SentinelAssumption == NoRow \notin Row /\ NoJob \notin Job

\* The audit action each call records, and the status it leaves behind.
ActionOf == [request |-> "relationship.consented", invite  |-> "relationship.invited",
             accept  |-> "relationship.consented", decline |-> "relationship.declined",
             revoke  |-> "relationship.revoked",   end     |-> "relationship.ended"]

\* Mutation: accepting writes a status the enum does not have.
StatusOfUnknown == [request |-> "active",   invite  |-> "pending_acceptance",
                    accept  |-> "accepted", decline |-> "declined",
                    revoke  |-> "revoked",  end     |-> "ended"]

StatusOf == [request |-> "active",   invite  |-> "pending_acceptance",
             accept  |-> "active",   decline |-> "declined",
             revoke  |-> "revoked",  end     |-> "ended"]

AuditAction == {"relationship.invited", "relationship.consented", "relationship.declined",
                "relationship.revoked", "relationship.ended"}

AuditEntry == [action : AuditAction, request : Request]

Billable == {"request", "accept"}

\* The status the SELECT of a call must find.
RequiredStatus == [accept |-> "pending_acceptance", decline |-> "pending_acceptance",
                   revoke |-> "active",             end     |-> "active"]

\* The columns a call sets to now(); an UPDATE leaves the others as they are.
Stamps == [request |-> {"consented_at", "effective_from"}, invite  |-> {},
           accept  |-> {"consented_at", "effective_from"}, decline |-> {},
           revoke  |-> {"effective_to"},                   end     |-> {"effective_to"}]

\* Mutation: an invitation lands active, as a broker's own request does.
InsertedActive(op) == [status |-> "active", stamped |-> Stamps[op]]

Inserted(op) == [status |-> StatusOf[op], stamped |-> Stamps[op]]

\* Mutation: accepting forgets consented_at.
UpdatedNoConsent(op, row) ==
  [status |-> StatusOf[op], stamped |-> row.stamped \union (Stamps[op] \ {"consented_at"})]

Updated(op, row) == [status |-> StatusOf[op], stamped |-> row.stamped \union Stamps[op]]

Exists(i) == relationships[i] # NoRow

HasStamp(i, column) == Exists(i) /\ column \in relationships[i].stamped

HasStatus(i, status) == Exists(i) /\ relationships[i].status = status

\* relationships_visibility and relationships_update: a party of the row.
RowVisible(by, i) == by = BrokerOf[i] \/ by = OrgOf[i]

\* The SELECT's WHERE: the row exists and the caller is its broker (or its organisation).
Found(j) == /\ Exists(j.id)
            /\ RowVisible(j.by, j.id)
            /\ j.by = IF j.op \in BrokerOps THEN BrokerOf[j.id] ELSE OrgOf[j.id]

\* Mutation: only the status decides, as in listOrganisationRelationships' aggregator lookup.
CountsByStatus(i) == HasStatus(i, "active")

\* has_active_relationship(): what every other table's policy asks of this one.
Counts(i) == HasStatus(i, "active") /\ ~HasStamp(i, "effective_to")

HasActiveRelationship(b, o, types) ==
  \E i \in Id : BrokerOf[i] = b /\ OrgOf[i] = o /\ TypeOf[i] \in types /\ Counts(i)

(***************************************************************************)
(* The calls.                                                              *)
(***************************************************************************)
InFlight == {"lookup", "insert", "check", "update", "written"}
Finished == {"committed", "refused", "aborted"}

\* A transaction that wrote a row holds its lock until it ends.
Locked(i) == \E q \in Request : pc[q] = "written" /\ job[q].id = i

Fresh(i) == \A q \in Request : job[q] # NoJob => ~(job[q].op \in Inserts /\ job[q].id = i)

Init == /\ relationships = [i \in Id |-> NoRow]
        /\ audit = [i \in Id |-> <<>>]
        /\ metering = {}
        /\ pc = [r \in Request |-> "idle"]
        /\ job = [r \in Request |-> NoJob]
        /\ draft = [r \in Request |-> NoRow]

Goto(r, where) == pc' = [pc EXCEPT ![r] = where]

FirstStep == [request |-> "insert", invite |-> "lookup",
              accept |-> "check", decline |-> "check", revoke |-> "check", end |-> "check"]

\* The controller has authenticated the caller; BEGIN.  An insert is for the caller's own
\* side of the link, any other call names whatever row id the caller has.
Begin(r, op, i, by) ==
  /\ pc[r] = "idle"
  /\ IF op \in BrokerOps THEN by \in Registered ELSE by \in Org
  /\ op = "request" => by = BrokerOf[i]
  /\ op = "invite" => by = OrgOf[i]
  /\ op \in Inserts => Fresh(i)
  /\ job' = [job EXCEPT ![r] = [op |-> op, id |-> i, by |-> by]]
  /\ Goto(r, FirstStep[op])
  /\ UNCHANGED <<relationships, audit, metering, draft>>

\* inviteBroker's first transaction, as system: the invited email must have an account.
LookupBroker(r) ==
  /\ pc[r] = "lookup"
  /\ Goto(r, IF BrokerOf[job[r].id] \in Registered THEN "insert" ELSE "refused")
  /\ UNCHANGED <<relationships, audit, metering, job, draft>>

Insert(r) ==
  /\ pc[r] = "insert"
  /\ draft' = [draft EXCEPT ![r] = Inserted(job[r].op)]
  /\ Goto(r, "written")
  /\ UNCHANGED <<relationships, audit, metering, job>>

\* SELECT ... and the two throws: not found, or not the status this call needs.
Check(r) ==
  /\ pc[r] = "check"
  /\ Goto(r, IF Found(job[r]) /\ HasStatus(job[r].id, RequiredStatus[job[r].op])
             THEN "update" ELSE "refused")
  /\ UNCHANGED <<relationships, audit, metering, job, draft>>

\* Mutation: the row lock is not taken, so a call may write over a version it has not seen.
UpdateUnlocked(r) ==
  /\ pc[r] = "update"
  /\ draft' = [draft EXCEPT ![r] = Updated(job[r].op, relationships[job[r].id])]
  /\ Goto(r, "written")
  /\ UNCHANGED <<relationships, audit, metering, job>>

\* Mutation: the billable event is written on another connection, outside the transaction.
UpdateMeteredOutside(r) ==
  /\ pc[r] = "update"
  /\ ~Locked(job[r].id)
  /\ draft' = [draft EXCEPT ![r] = Updated(job[r].op, relationships[job[r].id])]
  /\ metering' = IF job[r].op \in Billable THEN metering \union {<<job[r].id, r>>} ELSE metering
  /\ Goto(r, "written")
  /\ UNCHANGED <<relationships, audit, job>>

\* UPDATE ... WHERE id = $1: waits for the row's lock, then applies to the version that is
\* committed by then, whatever its status has become since Check.
Update(r) ==
  /\ pc[r] = "update"
  /\ ~Locked(job[r].id)
  /\ draft' = [draft EXCEPT ![r] = Updated(job[r].op, relationships[job[r].id])]
  /\ Goto(r, "written")
  /\ UNCHANGED <<relationships, audit, metering, job>>

\* The audit and metering rows and COMMIT: all of it becomes visible at once.
Commit(r) ==
  LET i == job[r].id IN
  /\ pc[r] = "written"
  /\ relationships' = [relationships EXCEPT ![i] = draft[r]]
  /\ audit' = [audit EXCEPT ![i] = Append(@, [action |-> ActionOf[job[r].op], request |-> r])]
  /\ metering' = IF job[r].op \in Billable THEN metering \union {<<i, r>>} ELSE metering
  /\ draft' = [draft EXCEPT ![r] = NoRow]
  /\ Goto(r, "committed")
  /\ UNCHANGED job

\* A statement fails or the connection is lost: ROLLBACK, nothing of the call remains.
Abort(r) ==
  /\ pc[r] \in InFlight
  /\ draft' = [draft EXCEPT ![r] = NoRow]
  /\ Goto(r, "aborted")
  /\ UNCHANGED <<relationships, audit, metering, job>>

Statement(r) == LookupBroker(r) \/ Insert(r) \/ Check(r) \/ Update(r) \/ Commit(r)

\* Every call has been answered: the one way the system may stop.
Served == (\A r \in Request : pc[r] \in Finished) /\ UNCHANGED vars

Next == \/ \E r \in Request : \/ \E op \in Op, i \in Id, by \in Broker \union Org : Begin(r, op, i, by)
                             \/ Statement(r)
                             \/ Abort(r)
        \/ Served

Spec == Init /\ [][Next]_vars

(***************************************************************************)
(* Properties that hold.                                                   *)
(***************************************************************************)

TypeOK ==
  /\ relationships \in [Id -> Row \union {NoRow}]
  /\ audit \in [Id -> Seq(AuditEntry)]
  /\ metering \subseteq Id \X Request
  /\ pc \in [Request -> {"idle"} \union InFlight \union Finished]
  /\ job \in [Request -> Job \union {NoJob}]
  /\ draft \in [Request -> Row \union {NoRow}]

\* No organisation reads a broker's data before that broker, and nobody else, has agreed to
\* it: a row has_active_relationship() counts carries a consent, and the audit log holds
\* the consent of the row's own broker (REL-002, REL-010).
ConsentBehindVisibility ==
  \A i \in Id : Counts(i) =>
    /\ HasStamp(i, "consented_at")
    /\ \E n \in DOMAIN audit[i] :
         LET e == audit[i][n] IN /\ e.action = "relationship.consented"
                                 /\ job[e.request].by = BrokerOf[i]

\* Revoked or ended once is closed for good: whatever calls are still in flight, no later
\* commit makes has_active_relationship() count the row again.
ClosedForGood ==
  [][\A i \in Id : HasStamp(i, "effective_to") =>
       HasStamp(i, "effective_to")' /\ ~Counts(i)']_vars

\* Replaying a row's audit entries, in the order they were committed, rebuilds the row: no
\* commit overwrites columns another call set in between, and none goes unrecorded.
RowIsReplayOfAudit ==
  \A i \in Id :
    LET opAt(n) == job[audit[i][n].request].op
        row[n \in 0..Len(audit[i])] ==
          IF n = 0 THEN NoRow
          ELSE IF opAt(n) \in Inserts THEN Inserted(opAt(n)) ELSE Updated(opAt(n), row[n - 1])
    IN  relationships[i] = row[Len(audit[i])]

\* A call that returned success has exactly one audit entry and, if it made the link active,
\* exactly one billable event; a call that failed or is still running has neither.
LedgersMatchCommits ==
  \A r \in Request :
    LET entries == {e \in UNION {{i} \X DOMAIN audit[i] : i \in Id} : audit[e[1]][e[2]].request = r}
        bills == {m \in metering : m[2] = r}
    IN  IF pc[r] = "committed"
        THEN /\ \E n \in DOMAIN audit[job[r].id] : entries = {<<job[r].id, n>>}
             /\ bills = IF job[r].op \in Billable THEN {<<job[r].id, r>>} ELSE {}
        ELSE entries = {} /\ bills = {}

\* The table keeps the promise of VisibilityGrant.
Grant == INSTANCE VisibilityGrant
  WITH grant    <- [i \in Id |-> IF Counts(i) THEN "granted"
                                ELSE IF HasStamp(i, "effective_to") THEN "closed" ELSE "withheld"],
       consents <- {i \in Id : HasStamp(i, "consented_at")}

RefinesGrant == Grant!Spec

(***************************************************************************)
(* What the documents and tests say, and the code does not keep.           *)
(***************************************************************************)

\* Master document v2.1:100: "Revoking a relationship revokes forward visibility."
RevocationEndsVisibility ==
  [][\A i \in Id :
       (~HasStatus(i, "revoked") /\ HasStatus(i, "revoked")') =>
          ~HasActiveRelationship(BrokerOf[i], OrgOf[i], {TypeOf[i]})']_vars
=============================================================================
