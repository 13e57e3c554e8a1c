--------------------------- MODULE Accreditation ---------------------------
(***************************************************************************)
(* The accreditations one broker holds with one lender, and the calls that *)
(* write them: the request, the lender's decisions                         *)
(* (accreditation.repository.ts), activation and the training-deadline     *)
(* sweep (training.repository.ts), and endAffiliation                      *)
(* (businesses.repository.ts), which flags every accreditation held        *)
(* through a business in the transaction that leaves it.                   *)
(*                                                                         *)
(* Each call is a READ COMMITTED transaction.  A decision reads the row,   *)
(* checks its status, and updates it by id alone.  A sweep is one          *)
(* conditional UPDATE: its snapshot picks the rows, and each is locked and *)
(* tested again before it is written.  The partial unique index on the     *)
(* scope of live rows is checked, with its waits, by every write.          *)
(***************************************************************************)
EXTENDS Naturals, Sequences, FiniteSets

CONSTANTS Id,                       \* accreditation ids the database may generate
          Scope, Business,          \* brand/role/product scopes; the broker's businesses
          ScopeOf, BusinessOf,
          History,                  \* the calls already committed on each row
          User, Senior,             \* the lender's users; those whose role is senior_approver
          Broker, Lender,
          Request,                  \* API calls, each served once
          NoRow, NoJob, NoPlatformId

HistoryOnFile == {<<>>, <<"request">>, <<"request", "escalate">>, <<"request", "approve">>}

ASSUME ScopeAssumption == /\ ScopeOf \in [Id -> Scope]
                          /\ BusinessOf \in [Id -> Business]
                          /\ Senior \subseteq User
                          /\ Broker \notin User
                          /\ NoPlatformId \notin Request
ASSUME HistoryAssumption ==
  /\ History \in [Id -> HistoryOnFile]
  /\ \A i, k \in Id : History[i] # <<>> /\ History[k] # <<>> /\ ScopeOf[i] = ScopeOf[k] => i = k

VARIABLES accreditations,   \* the committed table
          affiliation,      \* the broker's latest affiliation with each business
          linked,           \* the broker has an active relationship with the lender
          overdue,          \* rows whose training_deadline_at has passed
          platformId,       \* broker_profiles.platform_broker_id, named by the call that made it
          log,              \* log[i]: committed decisions about i, in commit order
          pc, job,          \* where each call is, and what it was asked to do
          draft,            \* the row versions a call has written and not committed
          minted,           \* the platform id a call has written and not committed
          seen, todo        \* the rows a sweep's snapshot picked; those it has still to lock

vars == <<accreditations, affiliation, linked, overdue, platformId, log,
          pc, job, draft, minted, seen, todo>>

(***************************************************************************)
(* The table.                                                              *)
(***************************************************************************)
Status == {"requested", "information_required", "exception_escalated", "declined",
           "pending", "party_changed_pending", "active", "lapsed"}

Step == {"reviewer", "senior_approver"}

Column == {"decided_at", "training_deadline_at", "activated_at", "party_changed_at",
           "interview_recommendation"}

\* stamped: the columns that are not NULL.
Row == [status : Status, step : Step, stamped : SUBSET Column]

Decisions == {"requestInformation", "escalate", "approve", "decline", "interview", "activate"}
Sweeps == {"end", "lapse"}
Op == {"request"} \union Decisions \union Sweeps

\* escalated: an escalation of the row was committed when the call began (a note of the model).
Job == [op : Op, on : Id \union Business \union {Lender}, by : User \union {Broker},
        escalated : BOOLEAN]

ASSUME SentinelAssumption == NoRow \notin Row /\ NoJob \notin Job

\* Mutation: activation also takes an accreditation nobody has decided yet.
AllowedFromRequested ==
  [requestInformation |-> Status \ {"declined"}, escalate  |-> Status \ {"declined"},
   interview          |-> Status \ {"declined"}, activate  |-> {"pending", "requested",
                                                               "exception_escalated"},
   approve |-> {"requested", "exception_escalated"},
   decline |-> {"requested", "exception_escalated"}]

\* The statuses each decision's SELECT may find.
AllowedFrom ==
  [requestInformation |-> Status \ {"declined"}, escalate  |-> Status \ {"declined"},
   interview          |-> Status \ {"declined"}, activate  |-> {"pending"},
   approve |-> {"requested", "exception_escalated"},
   decline |-> {"requested", "exception_escalated"}]

\* Mutation: approval writes a status the enum does not have.
StatusAfterUnknown ==
  [requestInformation |-> "information_required", escalate |-> "exception_escalated",
   approve  |-> "approved", decline |-> "declined", activate |-> "active",
   end |-> "party_changed_pending", lapse |-> "lapsed"]

StatusAfter ==
  [requestInformation |-> "information_required", escalate |-> "exception_escalated",
   approve  |-> "pending", decline |-> "declined", activate |-> "active",
   end |-> "party_changed_pending", lapse |-> "lapsed"]

Stamps ==
  [requestInformation |-> {}, escalate |-> {}, interview |-> {"interview_recommendation"},
   approve |-> {"decided_at", "training_deadline_at"}, decline |-> {"decided_at"},
   activate |-> {"activated_at"}, end |-> {"party_changed_at"}, lapse |-> {}]

Requested == [status |-> "requested", step |-> "reviewer", stamped |-> {}]

\* The SET clause of each UPDATE: the columns it does not name stay as they are.
Written(op, row) ==
  [status  |-> IF op = "interview" THEN row.status ELSE StatusAfter[op],
   step    |-> IF op = "escalate" THEN "senior_approver" ELSE row.step,
   stamped |-> row.stamped \union Stamps[op]]

\* The row a history on file has left.
OnFile(ops) == IF ops = <<>> THEN NoRow
               ELSE IF Len(ops) = 1 THEN Requested ELSE Written(ops[2], Requested)

Exists(i) == accreditations[i] # NoRow

Live(row) == row # NoRow /\ row.status # "declined"

\* Mutation: only approval asks for the senior approver.
CanDecideDecline(j, row) ==
  j.op = "approve" /\ row.step = "senior_approver" => j.by \in Senior

\* assertCanDecide, on the row the SELECT returned.
CanDecide(j, row) ==
  j.op \in {"approve", "decline"} /\ row.step = "senior_approver" => j.by \in Senior

\* The WHERE clause of each sweep.
Matches(j, i) ==
  /\ Exists(i)
  /\ IF j.op = "end"
     THEN BusinessOf[i] = j.on /\ accreditations[i].status \notin {"declined", "party_changed_pending"}
     ELSE accreditations[i].status = "pending" /\ i \in overdue

(***************************************************************************)
(* Locks.  A written row is locked until the transaction that wrote it     *)
(* ends; so is the index entry of its scope, for whoever would add one.    *)
(***************************************************************************)
InFlight == {"affiliation", "relationship", "insert", "check", "update", "mint",
             "leave", "sweep", "locking", "written"}
Finished == {"committed", "refused", "aborted"}

Wrote(q, i) == draft[q][i] # NoRow

Locked(r, i) == \E q \in Request \ {r} : Wrote(q, i)

Rivals(i) == {k \in Id \ {i} : ScopeOf[k] = ScopeOf[i]}

HoldsKey(q, i) == \E k \in Rivals(i) : Wrote(q, k) /\ (Live(draft[q][k]) \/ Live(accreditations[k]))

KeyBusy(r, i) == \E q \in Request \ {r} : HoldsKey(q, i)

\* Mutation: there is no unique index.
KeyTakenNever(i) == FALSE

\* accreditations_one_live_per_scope would be violated by a live row i.
KeyTaken(i) == \E k \in Rivals(i) : Live(accreditations[k])

\* q has updated the affiliation row and not ended its transaction.
Leaving(q, b) == pc[q] \in {"sweep", "locking", "written"} /\ job[q].op = "end" /\ job[q].on = b

WaitsFor(r, q) ==
  /\ q # r
  /\ \/ pc[r] = "update" /\ (Wrote(q, job[r].on) \/ HoldsKey(q, job[r].on))
     \/ pc[r] = "insert" /\ HoldsKey(q, job[r].on)
     \/ pc[r] = "mint" /\ minted[q] # NoPlatformId
     \/ pc[r] = "leave" /\ Leaving(q, job[r].on)
     \/ pc[r] = "locking" /\ (\A i \in todo[r] : Locked(r, i)) /\ \E i \in todo[r] : Wrote(q, i)

Deadlocked(r) == \E S \in SUBSET Request : r \in S /\ \A x \in S : \E y \in S : WaitsFor(x, y)

(***************************************************************************)
(* The calls.                                                              *)
(***************************************************************************)
Nothing == [i \in Id |-> NoRow]

Fresh(i) == ~Exists(i) /\ \A q \in Request : job[q] # NoJob => job[q].on # i

Init == /\ accreditations = [i \in Id |-> OnFile(History[i])]
        /\ affiliation = [b \in Business |-> "active"]
        /\ linked = TRUE
        /\ overdue = {}
        /\ platformId = NoPlatformId
        /\ log = History
        /\ pc = [r \in Request |-> "idle"]
        /\ job = [r \in Request |-> NoJob]
        /\ draft = [r \in Request |-> Nothing]
        /\ minted = [r \in Request |-> NoPlatformId]
        /\ seen = [r \in Request |-> {}]
        /\ todo = [r \in Request |-> {}]

database == <<accreditations, affiliation, linked, overdue, platformId, log>>

Goto(r, where) == pc' = [pc EXCEPT ![r] = where]

Escalated(i) == \E n \in DOMAIN log[i] : log[i][n] = "escalate"

FirstStep(op) == IF op \in Decisions THEN "check"
                 ELSE [request |-> "affiliation", end |-> "leave", lapse |-> "sweep"][op]

\* The controller has authenticated the caller (requireBroker, requireClientUser); BEGIN.
Begin(r, op, on, by) ==
  /\ pc[r] = "idle"
  /\ op = "request"   => on \in Id /\ Fresh(on) /\ by = Broker
  /\ op \in Decisions => on \in Id /\ by \in User
  /\ op = "end"       => on \in Business /\ by = Broker
  /\ op = "lapse"     => on = Lender /\ by \in User
  /\ job' = [job EXCEPT ![r] = [op |-> op, on |-> on, by |-> by,
                                escalated |-> op \in Decisions /\ Escalated(on)]]
  /\ Goto(r, FirstStep(op))
  /\ UNCHANGED <<database, draft, minted, seen, todo>>

\* requestAccreditation's two preconditions, one SELECT each.
CheckAffiliation(r) ==
  /\ pc[r] = "affiliation"
  /\ Goto(r, IF affiliation[BusinessOf[job[r].on]] = "active" THEN "relationship" ELSE "refused")
  /\ UNCHANGED <<database, job, draft, minted, seen, todo>>

CheckRelationship(r) ==
  /\ pc[r] = "relationship"
  /\ Goto(r, IF linked THEN "insert" ELSE "refused")
  /\ UNCHANGED <<database, job, draft, minted, seen, todo>>

\* INSERT: waits for whoever may give up or take the scope, then is unique or fails.
Insert(r) ==
  LET i == job[r].on IN
  /\ pc[r] = "insert"
  /\ ~KeyBusy(r, i)
  /\ IF KeyTaken(i)
     THEN Goto(r, "aborted") /\ UNCHANGED draft
     ELSE Goto(r, "written") /\ draft' = [draft EXCEPT ![r][i] = Requested]
  /\ UNCHANGED <<database, job, minted, seen, todo>>

\* getAccreditationOrThrow and the checks on what it returned.
Check(r) ==
  LET row == accreditations[job[r].on] IN
  /\ pc[r] = "check"
  /\ Goto(r, IF Exists(job[r].on) /\ row.status \in AllowedFrom[job[r].op] /\ CanDecide(job[r], row)
             THEN "update" ELSE "refused")
  /\ UNCHANGED <<database, job, draft, minted, seen, todo>>

\* Mutation: no row lock, so the row is built from a version another call is replacing.
UpdateUnlocked(r) ==
  LET i   == job[r].on
      new == Written(job[r].op, accreditations[i])
  IN
  /\ pc[r] = "update"
  /\ ~KeyBusy(r, i)
  /\ IF Live(new) /\ KeyTaken(i)
     THEN Goto(r, "aborted") /\ UNCHANGED draft
     ELSE /\ Goto(r, IF job[r].op = "activate" THEN "mint" ELSE "written")
          /\ draft' = [draft EXCEPT ![r][i] = new]
  /\ UNCHANGED <<database, job, minted, seen, todo>>

\* UPDATE ... WHERE id = $1: writes over whatever version is committed once it has the lock.
Update(r) ==
  LET i   == job[r].on
      new == Written(job[r].op, accreditations[i])
  IN
  /\ pc[r] = "update"
  /\ ~Locked(r, i) /\ ~KeyBusy(r, i)
  /\ IF Live(new) /\ KeyTaken(i)
     THEN Goto(r, "aborted") /\ UNCHANGED draft
     ELSE /\ Goto(r, IF job[r].op = "activate" THEN "mint" ELSE "written")
          /\ draft' = [draft EXCEPT ![r][i] = new]
  /\ UNCHANGED <<database, job, minted, seen, todo>>

\* activateAccreditation: SET platform_broker_id = COALESCE(platform_broker_id, ...), which
\* waits for the broker_profiles row.
Mint(r) ==
  /\ pc[r] = "mint"
  /\ \A q \in Request \ {r} : minted[q] = NoPlatformId
  /\ minted' = [minted EXCEPT ![r] = IF platformId = NoPlatformId THEN r ELSE platformId]
  /\ Goto(r, "written")
  /\ UNCHANGED <<database, job, draft, seen, todo>>

\* endAffiliation's own UPDATE: nothing left to end is an error.
Leave(r) ==
  /\ pc[r] = "leave"
  /\ \A q \in Request \ {r} : ~Leaving(q, job[r].on)
  /\ Goto(r, IF affiliation[job[r].on] = "ended" THEN "refused" ELSE "sweep")
  /\ UNCHANGED <<database, job, draft, minted, seen, todo>>

\* flagPartyChanged and checkTrainingDeadlines: the statement's snapshot.
Sweep(r) ==
  LET found == {i \in Id : Matches(job[r], i)} IN
  /\ pc[r] = "sweep"
  /\ seen' = [seen EXCEPT ![r] = found]
  /\ todo' = [todo EXCEPT ![r] = found]
  /\ Goto(r, IF found = {} THEN "written" ELSE "locking")
  /\ UNCHANGED <<database, job, draft, minted>>

\* Mutation: the condition is not tested again once the row is locked.
LockRowBlindly(r) ==
  /\ pc[r] = "locking"
  /\ \E i \in todo[r] :
       /\ ~Locked(r, i)
       /\ draft' = [draft EXCEPT ![r][i] = Written(job[r].op, accreditations[i])]
       /\ todo' = [todo EXCEPT ![r] = @ \ {i}]
       /\ Goto(r, IF todo[r] = {i} THEN "written" ELSE "locking")
  /\ UNCHANGED <<database, job, minted, seen>>

\* Mutation: a locked row is skipped instead of waited for.
LockRowOrSkip(r) ==
  /\ pc[r] = "locking"
  /\ \E i \in todo[r] :
       /\ draft' = IF ~Locked(r, i) /\ Matches(job[r], i)
                   THEN [draft EXCEPT ![r][i] = Written(job[r].op, accreditations[i])] ELSE draft
       /\ todo' = [todo EXCEPT ![r] = @ \ {i}]
       /\ Goto(r, IF todo[r] = {i} THEN "written" ELSE "locking")
  /\ UNCHANGED <<database, job, minted, seen>>

\* It takes the rows in the order its scan meets them, waits for each one's lock, and
\* writes it if it still matches.
LockRow(r) ==
  /\ pc[r] = "locking"
  /\ \E i \in todo[r] :
       /\ ~Locked(r, i)
       /\ draft' = IF Matches(job[r], i)
                   THEN [draft EXCEPT ![r][i] = Written(job[r].op, accreditations[i])] ELSE draft
       /\ todo' = [todo EXCEPT ![r] = @ \ {i}]
       /\ Goto(r, IF todo[r] = {i} THEN "written" ELSE "locking")
  /\ UNCHANGED <<database, job, minted, seen>>

Discard(r) == /\ draft' = [draft EXCEPT ![r] = Nothing]
              /\ minted' = [minted EXCEPT ![r] = NoPlatformId]
              /\ seen' = [seen EXCEPT ![r] = {}]
              /\ todo' = [todo EXCEPT ![r] = {}]

\* The decision, audit and notification rows (one entry of log here) and COMMIT.
Commit(r) ==
  LET op == job[r].op IN
  /\ pc[r] = "written"
  /\ accreditations' = [i \in Id |-> IF Wrote(r, i) THEN draft[r][i] ELSE accreditations[i]]
  /\ log' = [i \in Id |-> IF Wrote(r, i) THEN Append(log[i], op) ELSE log[i]]
  /\ affiliation' = IF op = "end" THEN [affiliation EXCEPT ![job[r].on] = "ended"] ELSE affiliation
  /\ overdue' = IF op = "approve" THEN overdue \ {job[r].on} ELSE overdue
  /\ platformId' = IF op = "activate" THEN minted[r] ELSE platformId
  /\ Discard(r)
  /\ Goto(r, "committed")
  /\ UNCHANGED <<linked, job>>

\* Mutation: no ROLLBACK, so the connection returns to the pool with its locks.
AbortLeaked(r) ==
  /\ pc[r] \in InFlight
  /\ Goto(r, "aborted")
  /\ UNCHANGED <<database, job, draft, minted, seen, todo>>

\* A statement fails or the connection is lost: ROLLBACK.
Abort(r) ==
  /\ pc[r] \in InFlight
  /\ Discard(r)
  /\ Goto(r, "aborted")
  /\ UNCHANGED <<database, job>>

\* The database breaks a cycle of lock waits by failing one of the transactions in it.
DetectDeadlock(r) == Deadlocked(r) /\ Abort(r)

Statement(r) == \/ CheckAffiliation(r) \/ CheckRelationship(r) \/ Insert(r)
                \/ Check(r) \/ Update(r) \/ Mint(r)
                \/ Leave(r) \/ Sweep(r) \/ LockRow(r)
                \/ Commit(r)

(***************************************************************************)
(* What happens around the calls.                                          *)
(***************************************************************************)
calls == <<pc, job, draft, minted, seen, todo>>

DeadlinePasses(i) ==
  /\ Exists(i) /\ "training_deadline_at" \in accreditations[i].stamped /\ i \notin overdue
  /\ overdue' = overdue \union {i}
  /\ UNCHANGED <<accreditations, affiliation, linked, platformId, log, calls>>

\* The relationship is revoked or ended, or a new one becomes active (Relationships).
LinkChanges ==
  /\ linked' = ~linked
  /\ UNCHANGED <<accreditations, affiliation, overdue, platformId, log, calls>>

\* requestAffiliation and confirmAffiliation, for a business the broker has left.
Rejoin(b) ==
  /\ \A q \in Request : ~Leaving(q, b)
  /\ \/ affiliation[b] = "ended" /\ affiliation' = [affiliation EXCEPT ![b] = "pending_confirmation"]
     \/ affiliation[b] = "pending_confirmation" /\ affiliation' = [affiliation EXCEPT ![b] = "active"]
  /\ UNCHANGED <<accreditations, linked, overdue, platformId, log, calls>>

Served == (\A r \in Request : pc[r] \in Finished) /\ UNCHANGED vars

Next == \/ \E r \in Request :
             \/ \E op \in Op, on \in Id \union Business \union {Lender}, by \in User \union {Broker} :
                  Begin(r, op, on, by)
             \/ Statement(r)
             \/ Abort(r)
             \/ DetectDeadlock(r)
        \/ \E i \in Id : DeadlinePasses(i)
        \/ LinkChanges
        \/ \E b \in Business : Rejoin(b)
        \/ Served

Spec == Init /\ [][Next]_vars

\* A call that has begun goes on to its end, and a deadlock is detected.
Fairness == \A r \in Request : WF_vars(Statement(r)) /\ WF_vars(DetectDeadlock(r))

FairSpec == Spec /\ Fairness

(***************************************************************************)
(* Properties that hold.                                                   *)
(***************************************************************************)
TypeOK ==
  /\ accreditations \in [Id -> Row \union {NoRow}]
  /\ affiliation \in [Business -> {"active", "pending_confirmation", "ended"}]
  /\ linked \in BOOLEAN
  /\ overdue \subseteq Id
  /\ platformId \in Request \union {NoPlatformId}
  /\ log \in [Id -> Seq(Op)]
  /\ pc \in [Request -> {"idle"} \union InFlight \union Finished]
  /\ job \in [Request -> Job \union {NoJob}]
  /\ draft \in [Request -> [Id -> Row \union {NoRow}]]
  /\ minted \in [Request -> Request \union {NoPlatformId}]
  /\ seen \in [Request -> SUBSET Id]
  /\ todo \in [Request -> SUBSET Id]

\* However requests, re-requests after a decline and late decisions on the declined row
\* interleave, a scope never has two live accreditations (migration 0024's unique index).
OneLivePerScope ==
  \A i, k \in Id :
    Live(accreditations[i]) /\ Live(accreditations[k]) /\ ScopeOf[i] = ScopeOf[k] => i = k

\* The row a sequence of committed calls leaves behind.
Replay(ops) ==
  LET row[n \in 0..Len(ops)] ==
        IF n = 0 THEN NoRow
        ELSE IF ops[n] = "request" THEN Requested ELSE Written(ops[n], row[n - 1])
  IN  row[Len(ops)]

\* Replaying what is on record about a row rebuilds the row: no decision, flag or lapse
\* erases a column that another one set, and none changes the row unrecorded.
RowIsReplayOfLog == \A i \in Id : accreditations[i] = Replay(log[i])

\* No accreditation is waiting for training, active or lapsed unless a lender's user
\* approved it, and none was ever activated without: the activation checks 'pending'
\* earlier than it writes, and other calls commit in between.
NothingInForceUnapproved ==
  \A i \in Id :
    Exists(i) /\ (accreditations[i].status \in {"pending", "lapsed", "active"}
                  \/ "activated_at" \in accreditations[i].stamped) =>
      /\ \E n \in DOMAIN log[i] : log[i][n] = "approve"
      /\ {"decided_at", "training_deadline_at"} \subseteq accreditations[i].stamped

Commits(r) == pc[r] = "written" /\ pc'[r] = "committed"

\* checkTrainingDeadlines lapses a row only if at the moment it does so the row is still
\* pending and overdue, whatever was activated or approved afresh since its snapshot.
LapsesOnlyOverdue ==
  [][\A r \in Request, i \in Id :
       Commits(r) /\ job[r].op = "lapse" /\ Wrote(r, i) =>
         accreditations[i].status = "pending" /\ i \in overdue]_vars

\* When the end of an affiliation commits, every accreditation that flagPartyChanged's
\* snapshot saw is flagged, even if a decision on it was in flight; one that was declined
\* meanwhile is the only exception.
FlagMissesOnlyDeclined ==
  [][\A r \in Request :
       Commits(r) /\ job[r].op = "end" =>
         \A i \in seen[r] : \/ accreditations'[i].status = "party_changed_pending"
                           \/ \E n \in DOMAIN log[i] : log[i][n] = "decline"]_vars

\* A broker's platform id, once anybody has seen it, is the same for ever.
PlatformIdIsPermanent ==
  [][platformId # NoPlatformId => platformId' = platformId]_vars

\* An escalation that another call has committed before a decision begins binds it, whatever
\* further decisions, activations, flags and lapses were committed in between and whatever runs
\* at the same time: approving and declining stay with the senior approvers.
EarlierEscalationBinds ==
  [][\A r \in Request :
       Commits(r) /\ job[r].op \in {"approve", "decline"} /\ job[r].escalated =>
         job[r].by \in Senior]_vars

\* Every call that begins is answered, also when sweeps lock rows in opposite orders.
EveryCallFinishes == \A r \in Request : pc[r] \in InFlight ~> pc[r] \in Finished

(***************************************************************************)
(* What the documents and tests say, and the code does not keep.           *)
(***************************************************************************)

\* accreditation.repository.ts:535: "at the 'senior_approver' step (reached via escalate())
\* only that role may" decide.
OnlySeniorsDecideEscalated ==
  [][\A r \in Request :
       Commits(r) /\ job[r].op \in {"approve", "decline"}
         /\ accreditations[job[r].on].step = "senior_approver" => job[r].by \in Senior]_vars
=============================================================================
