------------------------------- MODULE Records -------------------------------
(***************************************************************************)
(* The temporal tables and the object store behind them: evidence          *)
(* (src/src/modules/evidence) and check_result (src/src/modules/           *)
(* verification/check-result.repository.ts).  A row is never overwritten:  *)
(* a new one is inserted and the current one (valid_to IS NULL) closed and *)
(* linked to it, in one transaction that has read the current rows in an   *)
(* earlier statement, without a lock and without a unique index.           *)
(*                                                                         *)
(* A row and its object are named by the call that wrote them.  All of it  *)
(* is about one subject; who the row level security lets see it changes    *)
(* under the calls.                                                        *)
(***************************************************************************)
EXTENDS Naturals, FiniteSets

CONSTANTS Subject,          \* what the subject is, a broker's profile or a business
          Years, NoYears,   \* experience_years of the broker, and its NULL
          DocumentType,     \* of broker uploads
          CheckType,
          NoType,           \* document_type of a provider payload, NULL
          Broker,           \* of a profile, the one whose it is
          ClientUser,
          Request,          \* API calls and pipeline runs, each served once
          NoRow, NoJob

Actor == Broker \union ClientUser

ASSUME SubjectAssumption == /\ Subject \in {"broker_profile", "broker_business"}
                            /\ Years \subseteq Nat /\ NoYears \notin Nat

\* closed: valid_to is set.  expired: expiry_date, given or derived from the catalogue, has
\* passed.
Evidence == [type : DocumentType \union {NoType}, expired : BOOLEAN, closed : BOOLEAN,
             superseded_by : Request \union {NoRow}]

CheckResult == [type : CheckType, completed : BOOLEAN, evidence : Request \union {NoRow},
                closed : BOOLEAN, superseded_by : Request \union {NoRow}]

\* NULL is no key, no row and no type of a broker's document.
ASSUME SentinelAssumption == /\ NoRow \notin Request \union Evidence \union CheckResult
                             /\ NoType \notin DocumentType

VARIABLES objects,          \* the keys in object storage
          evidence, checks,
          views,            \* the 'evidence.viewed' rows of audit_log
          delivered,        \* <<actor, row>>: whose bytes were sent to whom
          shown,            \* the answers of getFullResult
          sees,             \* the actors the policies show the subject's rows to
          withdrawn,        \* the calls between whose two SELECTs the caller has lost sight
          overlapped,       \* the document types of which two uploads have ever overlapped
          pc, job

tables == <<objects, evidence, checks, views>>

vars == <<tables, delivered, shown, sees, withdrawn, overlapped, pc, job>>

Op == {"upload", "result", "pending", "download", "view"}

\* type: the document or check type the call is about.  on: the row a download or a view
\* names.  current: what the SELECT of the current rows returned first; in a view, the
\* evidence_id of the check.
Job == [op : Op, by : Actor,
        type : DocumentType \union CheckType \union {NoType}, on : Request \union {NoRow},
        current : Request \union {NoRow}]

Init == /\ objects = {}
        /\ evidence = [r \in Request |-> NoRow]
        /\ checks = [r \in Request |-> NoRow]
        /\ views = {}
        /\ delivered = {}
        /\ shown = {}
        /\ sees = Actor
        /\ withdrawn = {}
        /\ overlapped = {}
        /\ pc = [r \in Request |-> "idle"]
        /\ job = [r \in Request |-> NoJob]

Goto(r, where) == pc' = [pc EXCEPT ![r] = where] /\ UNCHANGED job

Answer(r) == pc' = [pc EXCEPT ![r] = "answered"] /\ job' = [job EXCEPT ![r] = NoJob]

\* Mutation: a result is recorded without its payload.
FirstStepRecord == [upload |-> "entitled", result |-> "select", pending |-> "select",
                    download |-> "look", view |-> "check"]

FirstStep == [upload |-> "entitled", result |-> "put", pending |-> "select",
              download |-> "look", view |-> "check"]

\* upload: uploadForProfile and uploadForBusiness.  result: applyResult's storeEvidence and
\* recordCheckResult.  pending: initiateVerification's recordCheckResult.  view:
\* getFullResult, which anybody may call.
Begin(r, op, by, type, on) ==
  /\ pc[r] = "idle"
  /\ op \in {"upload", "result", "pending"} => by \in Broker /\ on = NoRow
  /\ op = "download" => on # NoRow /\ evidence[on] # NoRow /\ type = evidence[on].type
  /\ op = "view" => on # NoRow /\ checks[on] # NoRow /\ type = checks[on].type
  /\ op = "upload" => type \in DocumentType
  /\ op \in {"result", "pending"} => type \in CheckType
  /\ pc' = [pc EXCEPT ![r] = FirstStep[op]]
  /\ job' = [job EXCEPT ![r] =
       [op |-> op, by |-> by, type |-> type, on |-> on, current |-> NoRow]]
  /\ UNCHANGED <<tables, delivered, shown, sees, withdrawn, overlapped>>

\* getBusiness finds the row under the caller's policies; a broker's own profile needs none.
Entitled(by) == Subject = "broker_profile" \/ by \in sees

CheckEntitled(r) ==
  /\ pc[r] = "entitled"
  /\ IF Entitled(job[r].by) THEN Goto(r, "put") ELSE Answer(r)
  /\ UNCHANGED <<tables, delivered, shown, sees, withdrawn, overlapped>>

\* storage.put, before any transaction.
Put(r) ==
  /\ pc[r] = "put"
  /\ objects' = objects \union {r}
  /\ Goto(r, IF job[r].op = "upload" THEN "select" ELSE "payload")
  /\ UNCHANGED <<evidence, checks, views, delivered, shown, sees, withdrawn, overlapped>>

NewEvidence(type) == [type |-> type, expired |-> FALSE, closed |-> FALSE, superseded_by |-> NoRow]

\* storeEvidence's transaction.
InsertPayload(r) ==
  /\ pc[r] = "payload"
  /\ evidence' = [evidence EXCEPT ![r] = NewEvidence(NoType)]
  /\ Goto(r, "select")
  /\ UNCHANGED <<objects, checks, views, delivered, shown, sees, withdrawn, overlapped>>

Current(rows, type) == {i \in Request : rows[i] # NoRow /\ rows[i].type = type /\ ~rows[i].closed}

\* Another upload of r's document type is between its SELECT and its COMMIT.
Overlaps(r) == \E q \in Request \ {r} :
  pc[q] = "insert" /\ job[q].op = "upload" /\ job[q].type = job[r].type

\* uploadDocument's and recordCheckResult's SELECT, in no particular order.
SelectCurrent(r) ==
  LET found == Current(IF job[r].op = "upload" THEN evidence ELSE checks, job[r].type) IN
  /\ pc[r] = "select"
  /\ pc' = [pc EXCEPT ![r] = "insert"]
  /\ \E i \in IF found = {} THEN {NoRow} ELSE found : job' = [job EXCEPT ![r].current = i]
  /\ overlapped' = IF job[r].op = "upload" /\ Overlaps(r)
                   THEN overlapped \union {job[r].type} ELSE overlapped
  /\ UNCHANGED <<objects, evidence, checks, views, delivered, shown, sees, withdrawn>>

\* Mutation: the UPDATE sets superseded_by and not valid_to.
CloseUnclosed(rows, old, new) ==
  IF old = NoRow THEN rows ELSE [rows EXCEPT ![old].superseded_by = new]

\* Mutation: the UPDATE names the rows by type and valid_to, not by id.
CloseOpen(rows, old, new) ==
  [i \in Request |-> IF i \in Current(rows, rows[new].type)
                     THEN [rows[i] EXCEPT !.closed = TRUE, !.superseded_by = new] ELSE rows[i]]

\* UPDATE ... SET valid_to = now(), superseded_by = new WHERE id = old, whether or not the
\* row has been closed since it was read.
Close(rows, old, new) ==
  IF old = NoRow THEN rows
  ELSE [rows EXCEPT ![old].closed = TRUE, ![old].superseded_by = new]

\* The INSERT, the UPDATE and the COMMIT.
InsertDocument(r) ==
  /\ pc[r] = "insert" /\ job[r].op = "upload"
  /\ evidence' = Close([evidence EXCEPT ![r] =
                      NewEvidence(job[r].type)], job[r].current, r)
  /\ Answer(r)
  /\ UNCHANGED <<objects, checks, views, delivered, shown, sees, withdrawn, overlapped>>

NewCheck(r) ==
  [type |-> job[r].type, completed |-> job[r].op = "result",
   evidence |-> IF job[r].op = "result" THEN r ELSE NoRow,
   closed |-> FALSE, superseded_by |-> NoRow]

InsertCheck(r) ==
  /\ pc[r] = "insert" /\ job[r].op # "upload"
  /\ checks' = Close([checks EXCEPT ![r] = NewCheck(r)], job[r].current, r)
  /\ Answer(r)
  /\ UNCHANGED <<objects, evidence, views, delivered, shown, sees, withdrawn, overlapped>>

\* getDocumentForDownload's SELECT, under the caller's policies.
Look(r) ==
  /\ pc[r] = "look"
  /\ IF job[r].by \in sees THEN Goto(r, "get") ELSE Answer(r)
  /\ UNCHANGED <<tables, delivered, shown, sees, withdrawn, overlapped>>

\* Mutation: every download is logged as a client view.
GetLogged(r) ==
  /\ pc[r] = "get"
  /\ job[r].on \in objects
  /\ Goto(r, "send")
  /\ views' = views \union {<<job[r].by, job[r].on>>}
  /\ UNCHANGED <<objects, evidence, checks, delivered, shown, sees, withdrawn, overlapped>>

\* The audit row of a client user's view, storage.get and the COMMIT.
Get(r) ==
  /\ pc[r] = "get"
  /\ job[r].on \in objects
  /\ Goto(r, "send")
  /\ views' = IF job[r].by \in ClientUser
              THEN views \union {<<job[r].by, job[r].on>>} ELSE views
  /\ UNCHANGED <<objects, evidence, checks, delivered, shown, sees, withdrawn, overlapped>>

\* EvidenceController.download's res.send.
Send(r) ==
  /\ pc[r] = "send"
  /\ delivered' = delivered \union {<<job[r].by, job[r].on>>}
  /\ Answer(r)
  /\ UNCHANGED <<objects, evidence, checks, views, shown, sees, withdrawn, overlapped>>

\* check_result_visibility grants what evidence_visibility does.
SeesResult(by) == by \in sees

\* getFullResult's SELECT of the check, under the caller's policies.
ReadCheck(r) ==
  LET i == job[r].on
      payload == checks[i].evidence
  IN
  /\ pc[r] = "check"
  /\ IF SeesResult(job[r].by) /\ payload # NoRow
     THEN /\ pc' = [pc EXCEPT ![r] = "full"]
          /\ job' = [job EXCEPT ![r].current = payload]
     ELSE Answer(r)
  /\ shown' = IF SeesResult(job[r].by) /\ payload = NoRow
              THEN shown \union {[call |-> r, check |-> i, evidence |-> NoRow]} ELSE shown
  /\ UNCHANGED <<tables, delivered, sees, withdrawn, overlapped>>

\* Its SELECT of the evidence, with a snapshot and policies of its own; finding no row is null.
ReadEvidence(r) ==
  LET payload == job[r].current IN
  /\ pc[r] = "full"
  /\ shown' = shown \union
       {[call |-> r, check |-> job[r].on,
         evidence |-> IF job[r].by \in sees /\ evidence[payload] # NoRow THEN payload ELSE NoRow]}
  /\ Answer(r)
  /\ UNCHANGED <<tables, delivered, sees, withdrawn, overlapped>>

\* The process or a connection is gone: an object without a row, a payload without a
\* result, a view without a delivery may stay behind.
Abort(r) ==
  /\ pc[r] \notin {"idle", "answered"}
  /\ Answer(r)
  /\ UNCHANGED <<tables, delivered, shown, sees, withdrawn, overlapped>>

\* A document's expiry_date passes.
Expire(i) ==
  /\ evidence[i] # NoRow /\ evidence[i].type # NoType /\ ~evidence[i].expired
  /\ evidence' = [evidence EXCEPT ![i].expired = TRUE]
  /\ UNCHANGED <<objects, checks, views, delivered, shown, sees, withdrawn, overlapped, pc, job>>

\* evidence_visibility, after relationships and affiliations have changed; a broker's own
\* profile is always his to see.
Regrant(a) ==
  /\ Subject = "broker_profile" => a \notin Broker
  /\ sees' = IF a \in sees THEN sees \ {a} ELSE sees \union {a}
  /\ withdrawn' = withdrawn \union
       {r \in Request : pc[r] = "full" /\ job[r].by = a /\ a \in sees}
  /\ UNCHANGED <<tables, delivered, shown, overlapped, pc, job>>

Statement(r) ==
  \/ CheckEntitled(r) \/ Put(r) \/ InsertPayload(r) \/ SelectCurrent(r) \/ InsertDocument(r)
  \/ InsertCheck(r) \/ Look(r) \/ Get(r) \/ Send(r) \/ ReadCheck(r) \/ ReadEvidence(r)

Served == (\A r \in Request : pc[r] = "answered") /\ UNCHANGED vars

Next == \/ \E r \in Request :
             \/ \E op \in Op, by \in Actor,
                   type \in DocumentType \union CheckType \union {NoType},
                   on \in Request \union {NoRow} : Begin(r, op, by, type, on)
             \/ Statement(r)
             \/ Abort(r)
             \/ Expire(r)
        \/ \E a \in Actor : Regrant(a)
        \/ Served

Spec == Init /\ [][Next]_vars

(***************************************************************************)
(* What is read from the records.                                          *)
(***************************************************************************)

\* The catalogue's types that isRequired does not exempt.
RequiredDocuments(years) ==
  IF Subject = "broker_business" THEN {"pi_certificate", "credit_licence_certificate"}
  ELSE {"certificate_iv", "police_check", "credit_licence_certificate", "resume",
        "signed_declaration"}
       \union {t \in {"mentoring_letter"} : years # NoYears /\ years < 2}

\* The current rows of a type that getOutstandingDocumentItems finds under by's policies.
CurrentFor(by, type) == IF by \in sees THEN Current(evidence, type) ELSE {}

\* It may list a type for by: the current row that its map keeps, the last of those the SELECT
\* returns in no particular order, is missing or has expired.  Of a business nobody checks
\* that the caller sees its rows, and who does not is listed every required document.
MayBeOutstanding(by, type, years) ==
  LET found == CurrentFor(by, type) IN
  /\ type \in RequiredDocuments(years)
  /\ found = {} \/ \E i \in found : evidence[i].expired

\* audit_log_visibility, for the broker whose profile it is: views of his own profile's
\* evidence, and not of a business's.
BrokerSeesView(v) == Subject = "broker_profile" /\ evidence[v[2]] # NoRow

\* listAccessHistory, which joins the log with the rows it is about.
AccessHistory == {v \in views : BrokerSeesView(v)}

(***************************************************************************)
(* Properties that hold.                                                   *)
(***************************************************************************)

TypeOK ==
  /\ objects \subseteq Request
  /\ evidence \in [Request -> Evidence \union {NoRow}]
  /\ checks \in [Request -> CheckResult \union {NoRow}]
  /\ views \subseteq ClientUser \X Request
  /\ delivered \subseteq Actor \X Request
  /\ shown \subseteq [call : Request, check : Request, evidence : Request \union {NoRow}]
  /\ sees \subseteq Actor
  /\ withdrawn \subseteq Request
  /\ overlapped \subseteq DocumentType
  /\ pc \in [Request -> {"idle", "answered", "entitled", "put", "payload", "select", "insert",
                         "look", "get", "send", "check", "full"}]
  /\ job \in [Request -> Job \union {NoJob}]

Closed(rows) == {i \in Request : rows[i] # NoRow /\ rows[i].closed}

LeadsToCurrent(rows) ==
  /\ \A i \in Closed(rows) :
       LET j == rows[i].superseded_by IN
       j # NoRow /\ rows[j] # NoRow /\ rows[j].type = rows[i].type
  /\ \A S \in (SUBSET Closed(rows)) \ {{}} : \E i \in S : rows[i].superseded_by \notin S

\* However uploads and results overlap, the history never loses its end: the successor of a
\* closed row is a row of its own type, following successors never runs in a circle, and so
\* every document and every check that was ever recorded has a current row.
HistoryLeadsToCurrent == LeadsToCurrent(evidence) /\ LeadsToCurrent(checks)

\* Whoever is shown a completed result is shown its payload with it, unless the policies have
\* stopped showing him the subject between getFullResult's two SELECTs; and the payload of
\* every row, closed ones included, is in object storage, wherever a call stopped (IDV-003,
\* IDV-006).
EvidenceBehindResults ==
  /\ \A s \in shown :
       (checks[s.check].completed /\ s.evidence = NoRow) => s.call \in withdrawn
  /\ \A i \in Request : evidence[i] # NoRow => i \in objects

\* A document that has been uploaded and has neither expired nor been renewed is not asked
\* for again of anybody who sees the subject's rows, whatever is on file beside it; only
\* uploads that overlapped leave a second current row, which may expire later and be the one
\* that is read (DOC-001).
RenewalSettles ==
  \A by \in sees, i \in Request, years \in Years \union {NoYears} :
    (/\ evidence[i] # NoRow /\ evidence[i].type \notin overlapped \union {NoType}
     /\ ~evidence[i].expired /\ evidence[i].superseded_by = NoRow)
      => ~MayBeOutstanding(by, evidence[i].type, years)

\* A client user who has received a document is on the log, and for a document of the broker's
\* profile in his access history, also when the process stopped right after sending it
\* (AUD-003, AUD-007).
ViewsAreLogged ==
  \A d \in delivered : d[1] \in ClientUser =>
    d \in IF Subject = "broker_profile" THEN AccessHistory ELSE views
=============================================================================
