--------------------------- MODULE RecordsProofs ---------------------------
(***************************************************************************)
(* What holds of Records for every set of calls, actors and types.         *)
(***************************************************************************)
EXTENDS Records, TLAPS

Running(r) == pc[r] \notin {"idle", "answered"}

\* Where a call is agrees with what it was asked, and its type with its kind.
JobAtPc ==
  \A r \in Request : Running(r) =>
    /\ job[r] \in Job
    /\ pc[r] = "entitled" => job[r].op = "upload"
    /\ pc[r] = "put" => job[r].op \in {"upload", "result"}
    /\ pc[r] = "payload" => job[r].op = "result"
    /\ pc[r] \in {"select", "insert"} => job[r].op \in {"upload", "result", "pending"}
    /\ pc[r] \in {"look", "get", "send"} =>
         job[r].op = "download" /\ job[r].on \in Request /\ evidence[job[r].on] # NoRow
    /\ pc[r] \in {"check", "full"} =>
         job[r].op = "view" /\ job[r].on \in Request /\ checks[job[r].on] # NoRow
    /\ job[r].op = "upload" => job[r].type \in DocumentType
    /\ job[r].op \in {"result", "pending"} => job[r].type \in CheckType

\* A call inserts each of its rows once.
RowsAreFresh ==
  \A r \in Request :
    /\ evidence[r] # NoRow =>
         \/ pc[r] = "answered"
         \/ pc[r] \in {"select", "insert"} /\ job[r].op = "result"
    /\ checks[r] # NoRow => pc[r] = "answered"

\* The object is stored before the row, and the payload before the result.
StoredFirst ==
  \A r \in Request :
    /\ evidence[r] # NoRow => r \in objects
    /\ (pc[r] \in {"payload", "select", "insert"} /\ job[r].op \in {"upload", "result"}) =>
         r \in objects
    /\ (pc[r] \in {"select", "insert"} /\ job[r].op = "result") => evidence[r] # NoRow
    /\ (checks[r] # NoRow /\ checks[r].completed) =>
         checks[r].evidence = r /\ evidence[r] # NoRow
    /\ (checks[r] # NoRow /\ checks[r].evidence # NoRow) => evidence[checks[r].evidence] # NoRow

\* What a call is about to close is a row of the type it inserts.
CurrentIsOfType ==
  \A r \in Request : (pc[r] = "insert" /\ job[r].current # NoRow) =>
    IF job[r].op = "upload"
    THEN evidence[job[r].current] # NoRow /\ evidence[job[r].current].type = job[r].type
    ELSE checks[job[r].current] # NoRow /\ checks[job[r].current].type = job[r].type

\* Uploads of a type that have not overlapped see all that went before them.
OneCurrent ==
  \A t \in DocumentType \ overlapped :
    /\ \A i, j \in Current(evidence, t) : i = j
    /\ \A r, q \in Request :
         (/\ pc[r] = "insert" /\ job[r].op = "upload" /\ job[r].type = t
          /\ pc[q] = "insert" /\ job[q].op = "upload" /\ job[q].type = t) => r = q
    /\ \A r \in Request :
         (pc[r] = "insert" /\ job[r].op = "upload" /\ job[r].type = t) =>
            \A i \in Current(evidence, t) : i = job[r].current

\* valid_to and superseded_by are set together, and an unexpired row stays current until a
\* newer one closes it.
ClosedIsSuperseded ==
  \A i \in Request : evidence[i] # NoRow =>
    (evidence[i].closed <=> evidence[i].superseded_by # NoRow)

\* Bytes are sent after the view's row has been committed.
LoggedFirst ==
  /\ \A r \in Request : (pc[r] = "send" /\ job[r].by \in ClientUser) =>
       <<job[r].by, job[r].on>> \in views
  /\ \A v \in views : evidence[v[2]] # NoRow
  /\ \A d \in delivered : d[1] \in ClientUser => d \in views

\* A view has seen its check under the policies, and sees the payload unless they have changed.
ShownUnderGrant ==
  /\ \A r \in Request : pc[r] = "full" =>
       /\ job[r].current \in Request /\ evidence[job[r].current] # NoRow
       /\ job[r].by \in sees \/ r \in withdrawn
  /\ \A s \in shown :
       /\ checks[s.check] # NoRow
       /\ (checks[s.check].completed /\ s.evidence = NoRow) => s.call \in withdrawn

IInv == /\ TypeOK /\ JobAtPc /\ RowsAreFresh /\ StoredFirst /\ CurrentIsOfType
        /\ HistoryLeadsToCurrent /\ OneCurrent /\ ClosedIsSuperseded /\ LoggedFirst
        /\ ShownUnderGrant

(***************************************************************************)
(* Induction.                                                              *)
(***************************************************************************)

LEMMA InitIInv == ASSUME Init PROVE IInv
  <1> USE DEF Init
  <1>1. TypeOK
    BY DEF TypeOK, Actor
  <1>2. JobAtPc /\ RowsAreFresh /\ StoredFirst /\ CurrentIsOfType
    BY DEF JobAtPc, RowsAreFresh, StoredFirst, CurrentIsOfType, Running
  <1>3. HistoryLeadsToCurrent
    <2>1. Closed(evidence) = {} /\ Closed(checks) = {}
      BY DEF Closed
    <2> QED
      BY <2>1 DEF HistoryLeadsToCurrent, LeadsToCurrent
  <1>4. OneCurrent /\ ClosedIsSuperseded /\ LoggedFirst /\ ShownUnderGrant
    BY DEF OneCurrent, Current, ClosedIsSuperseded, LoggedFirst, ShownUnderGrant
  <1> QED
    BY <1>1, <1>2, <1>3, <1>4 DEF IInv

LEMMA NewEvidenceIsRow ==
  ASSUME NEW type \in DocumentType \union {NoType}
  PROVE  /\ NewEvidence(type) \in Evidence
         /\ NewEvidence(type) # NoRow
         /\ NewEvidence(type).type = type
         /\ ~NewEvidence(type).closed
         /\ NewEvidence(type).superseded_by = NoRow
  <1>1. NewEvidence(type) \in Evidence
    BY DEF NewEvidence, Evidence
  <1> QED
    BY <1>1, SentinelAssumption DEF NewEvidence

LEMMA NewCheckIsRow ==
  ASSUME NEW r \in Request, job[r] \in Job, job[r].type \in CheckType
  PROVE  /\ NewCheck(r) \in CheckResult
         /\ NewCheck(r) # NoRow
         /\ NewCheck(r).type = job[r].type
         /\ ~NewCheck(r).closed
         /\ NewCheck(r).superseded_by = NoRow
         /\ NewCheck(r).completed => NewCheck(r).evidence = r /\ job[r].op = "result"
         /\ NewCheck(r).evidence # NoRow => NewCheck(r).completed
  <1>1. NewCheck(r) \in CheckResult
    BY DEF NewCheck, CheckResult
  <1> QED
    BY <1>1, SentinelAssumption DEF NewCheck

\* Close writes one row, and nothing but its end.
LEMMA CloseKeepsEvidence ==
  ASSUME NEW rows \in [Request -> Evidence \union {NoRow}], NEW new \in Request,
         NEW old \in Request \union {NoRow}, old # NoRow => rows[old] # NoRow
  PROVE  /\ Close(rows, old, new) \in [Request -> Evidence \union {NoRow}]
         /\ \A i \in Request \ {old} : Close(rows, old, new)[i] = rows[i]
         /\ old # NoRow => /\ Close(rows, old, new)[old] # NoRow
                           /\ Close(rows, old, new)[old].type = rows[old].type
                           /\ Close(rows, old, new)[old].closed
                           /\ Close(rows, old, new)[old].superseded_by = new
  <1>1. CASE old = NoRow
    BY <1>1 DEF Close
  <1>2. CASE old # NoRow
    <2>1. PICK row \in Evidence : row = [rows[old] EXCEPT !.closed = TRUE, !.superseded_by = new]
      BY <1>2 DEF Evidence
    <2>2. row.type = rows[old].type /\ row.closed /\ row.superseded_by = new
      BY <1>2, <2>1 DEF Evidence
    <2>3. Close(rows, old, new) = [rows EXCEPT ![old] = row]
      BY <1>2, <2>1 DEF Close
    <2>4. row # NoRow
      BY SentinelAssumption
    <2> QED
      BY <1>2, <2>2, <2>3, <2>4
  <1> QED
    BY <1>1, <1>2

LEMMA CloseKeepsChecks ==
  ASSUME NEW rows \in [Request -> CheckResult \union {NoRow}], NEW new \in Request,
         NEW old \in Request \union {NoRow}, old # NoRow => rows[old] # NoRow
  PROVE  /\ Close(rows, old, new) \in [Request -> CheckResult \union {NoRow}]
         /\ \A i \in Request \ {old} : Close(rows, old, new)[i] = rows[i]
         /\ old # NoRow => /\ Close(rows, old, new)[old] # NoRow
                           /\ Close(rows, old, new)[old].type = rows[old].type
                           /\ Close(rows, old, new)[old].completed = rows[old].completed
                           /\ Close(rows, old, new)[old].evidence = rows[old].evidence
                           /\ Close(rows, old, new)[old].closed
                           /\ Close(rows, old, new)[old].superseded_by = new
  <1>1. CASE old = NoRow
    BY <1>1 DEF Close
  <1>2. CASE old # NoRow
    <2>1. PICK row \in CheckResult : row = [rows[old] EXCEPT !.closed = TRUE, !.superseded_by = new]
      BY <1>2 DEF CheckResult
    <2>2. /\ row.type = rows[old].type /\ row.closed /\ row.superseded_by = new
          /\ row.completed = rows[old].completed /\ row.evidence = rows[old].evidence
      BY <1>2, <2>1 DEF CheckResult
    <2>3. Close(rows, old, new) = [rows EXCEPT ![old] = row]
      BY <1>2, <2>1 DEF Close
    <2>4. row # NoRow
      BY SentinelAssumption
    <2> QED
      BY <1>2, <2>2, <2>3, <2>4
  <1> QED
    BY <1>1, <1>2

LEMMA CheckEntitledIInv == ASSUME IInv, NEW r \in Request, CheckEntitled(r) PROVE IInv'
  <1> USE SentinelAssumption DEF IInv, tables, CheckEntitled, Goto, Answer, Running
  <1>1. TypeOK'
    BY DEF TypeOK, JobAtPc, Job, Actor
  <1>2. JobAtPc'
    BY DEF TypeOK, JobAtPc, Job
  <1>3. RowsAreFresh'
    BY DEF TypeOK, JobAtPc, RowsAreFresh
  <1>4. StoredFirst'
    BY DEF TypeOK, JobAtPc, RowsAreFresh, StoredFirst
  <1>5. CurrentIsOfType'
    BY DEF TypeOK, JobAtPc, RowsAreFresh, CurrentIsOfType
  <1>6. HistoryLeadsToCurrent'
    BY DEF TypeOK, RowsAreFresh, CurrentIsOfType, HistoryLeadsToCurrent, LeadsToCurrent, Closed
  <1>7. OneCurrent'
    BY DEF TypeOK, JobAtPc, RowsAreFresh, CurrentIsOfType, OneCurrent, Current
  <1>8. ClosedIsSuperseded'
    BY DEF TypeOK, JobAtPc, RowsAreFresh, CurrentIsOfType, ClosedIsSuperseded
  <1>9. LoggedFirst'
    BY DEF TypeOK, JobAtPc, LoggedFirst
  <1>10. ShownUnderGrant'
    BY DEF TypeOK, JobAtPc, RowsAreFresh, StoredFirst, ShownUnderGrant
  <1> QED
    BY <1>1, <1>2, <1>3, <1>4, <1>5, <1>6, <1>7, <1>8, <1>9, <1>10

LEMMA PutIInv == ASSUME IInv, NEW r \in Request, Put(r) PROVE IInv'
  <1> USE SentinelAssumption DEF IInv, tables, Put, Goto, Running
  <1>1. TypeOK'
    BY DEF TypeOK, JobAtPc, Job, Actor
  <1>2. JobAtPc'
    BY DEF TypeOK, JobAtPc, Job
  <1>3. RowsAreFresh'
    BY DEF TypeOK, JobAtPc, RowsAreFresh
  <1>4. StoredFirst'
    BY DEF TypeOK, JobAtPc, RowsAreFresh, StoredFirst
  <1>5. CurrentIsOfType'
    BY DEF TypeOK, JobAtPc, RowsAreFresh, CurrentIsOfType
  <1>6. HistoryLeadsToCurrent'
    BY DEF TypeOK, RowsAreFresh, CurrentIsOfType, HistoryLeadsToCurrent, LeadsToCurrent, Closed
  <1>7. OneCurrent'
    BY DEF TypeOK, JobAtPc, RowsAreFresh, CurrentIsOfType, OneCurrent, Current
  <1>8. ClosedIsSuperseded'
    BY DEF TypeOK, JobAtPc, RowsAreFresh, CurrentIsOfType, ClosedIsSuperseded
  <1>9. LoggedFirst'
    BY DEF TypeOK, JobAtPc, LoggedFirst
  <1>10. ShownUnderGrant'
    BY DEF TypeOK, JobAtPc, RowsAreFresh, StoredFirst, ShownUnderGrant
  <1> QED
    BY <1>1, <1>2, <1>3, <1>4, <1>5, <1>6, <1>7, <1>8, <1>9, <1>10

LEMMA InsertPayloadIInv == ASSUME IInv, NEW r \in Request, InsertPayload(r) PROVE IInv'
  <1> USE SentinelAssumption DEF IInv, InsertPayload, Goto, Running
  <1>0. PICK e \in Evidence : e = NewEvidence(NoType) /\ e # NoRow /\ e.type = NoType /\ ~e.closed /\ e.superseded_by = NoRow
    BY NewEvidenceIsRow
  <1>1. TypeOK'
    BY <1>0 DEF TypeOK, JobAtPc, Job, Actor
  <1>2. JobAtPc'
    BY <1>0 DEF TypeOK, JobAtPc, Job
  <1>3. RowsAreFresh'
    BY <1>0 DEF TypeOK, JobAtPc, RowsAreFresh
  <1>4. StoredFirst'
    BY <1>0 DEF TypeOK, JobAtPc, RowsAreFresh, StoredFirst
  <1>5. CurrentIsOfType'
    BY <1>0 DEF TypeOK, JobAtPc, RowsAreFresh, CurrentIsOfType
  <1>6. HistoryLeadsToCurrent'
    BY <1>0 DEF TypeOK, RowsAreFresh, CurrentIsOfType, HistoryLeadsToCurrent, LeadsToCurrent, Closed
  <1>7. OneCurrent'
    BY <1>0 DEF TypeOK, JobAtPc, RowsAreFresh, CurrentIsOfType, OneCurrent, Current
  <1>8. ClosedIsSuperseded'
    BY <1>0 DEF TypeOK, JobAtPc, RowsAreFresh, CurrentIsOfType, ClosedIsSuperseded
  <1>9. LoggedFirst'
    BY <1>0 DEF TypeOK, JobAtPc, LoggedFirst
  <1>10. ShownUnderGrant'
    BY <1>0 DEF TypeOK, JobAtPc, RowsAreFresh, StoredFirst, ShownUnderGrant
  <1> QED
    BY <1>1, <1>2, <1>3, <1>4, <1>5, <1>6, <1>7, <1>8, <1>9, <1>10

LEMMA SelectCurrentIInv == ASSUME IInv, NEW r \in Request, SelectCurrent(r) PROVE IInv'
  <1> USE SentinelAssumption DEF IInv, SelectCurrent, Goto, Running
  <1>1. TypeOK'
    BY DEF TypeOK, JobAtPc, Job, Actor, Current, Overlaps
  <1>2. JobAtPc'
    BY DEF TypeOK, JobAtPc, Job, Current, Overlaps
  <1>3. RowsAreFresh'
    BY DEF TypeOK, JobAtPc, RowsAreFresh, Current, Overlaps
  <1>4. StoredFirst'
    BY DEF TypeOK, JobAtPc, RowsAreFresh, StoredFirst, Current, Overlaps
  <1>5. CurrentIsOfType'
    BY DEF TypeOK, JobAtPc, RowsAreFresh, CurrentIsOfType, Current, Overlaps
  <1>6. HistoryLeadsToCurrent'
    BY DEF TypeOK, RowsAreFresh, CurrentIsOfType, HistoryLeadsToCurrent, LeadsToCurrent, Closed, Current, Overlaps
  <1>7. OneCurrent'
    BY DEF TypeOK, JobAtPc, RowsAreFresh, CurrentIsOfType, OneCurrent, Current, Overlaps
  <1>8. ClosedIsSuperseded'
    BY DEF TypeOK, JobAtPc, RowsAreFresh, CurrentIsOfType, ClosedIsSuperseded, Current, Overlaps
  <1>9. LoggedFirst'
    BY DEF TypeOK, JobAtPc, LoggedFirst, Current, Overlaps
  <1>10. ShownUnderGrant'
    BY DEF TypeOK, JobAtPc, RowsAreFresh, StoredFirst, ShownUnderGrant
  <1> QED
    BY <1>1, <1>2, <1>3, <1>4, <1>5, <1>6, <1>7, <1>8, <1>9, <1>10

LEMMA InsertDocumentIInv == ASSUME IInv, NEW r \in Request, InsertDocument(r) PROVE IInv'
  <1> USE SentinelAssumption DEF IInv, Running
  <1> DEFINE old == job[r].current
             type == job[r].type
             rows == [evidence EXCEPT ![r] = NewEvidence(type)]
  <1>a. /\ pc[r] = "insert" /\ job[r].op = "upload" /\ type \in DocumentType
        /\ old \in Request \union {NoRow}
        /\ old # NoRow => old # r /\ evidence[old] # NoRow /\ evidence[old].type = type
        /\ evidence[r] = NoRow
    BY DEF InsertDocument, TypeOK, JobAtPc, Job, RowsAreFresh, CurrentIsOfType
  <1>b. /\ rows \in [Request -> Evidence \union {NoRow}]
        /\ old # NoRow => rows[old] # NoRow
    BY <1>a, NewEvidenceIsRow DEF TypeOK
  <1>c. evidence' = Close(rows, old, r)
    BY DEF InsertDocument
  <1>0. /\ evidence' \in [Request -> Evidence \union {NoRow}]
        /\ \A i \in Request \ {old, r} : evidence'[i] = evidence[i]
        /\ evidence'[r] # NoRow /\ evidence'[r].type = type /\ ~evidence'[r].closed
        /\ evidence'[r].superseded_by = NoRow
        /\ old # NoRow => /\ evidence'[old] # NoRow /\ evidence'[old].type = type
                          /\ evidence'[old].closed /\ evidence'[old].superseded_by = r
    <2>1. /\ Close(rows, old, r) \in [Request -> Evidence \union {NoRow}]
          /\ \A i \in Request \ {old} : Close(rows, old, r)[i] = rows[i]
          /\ old # NoRow => /\ Close(rows, old, r)[old] # NoRow
                            /\ Close(rows, old, r)[old].type = rows[old].type
                            /\ Close(rows, old, r)[old].closed
                            /\ Close(rows, old, r)[old].superseded_by = r
      <3> HIDE DEF rows, old
      <3> QED
        BY <1>a, <1>b, CloseKeepsEvidence
    <2>2. /\ rows[r] = NewEvidence(type)
          /\ \A i \in Request \ {r} : rows[i] = evidence[i]
      BY DEF TypeOK
    <2>3. r # old
      BY <1>a
    <2> HIDE DEF rows, old, type
    <2> QED
      BY <1>a, <1>c, <2>1, <2>2, <2>3, NewEvidenceIsRow
  <1>d. /\ pc' = [pc EXCEPT ![r] = "answered"] /\ job' = [job EXCEPT ![r] = NoJob]
        /\ UNCHANGED <<objects, checks, views, delivered, shown, sees, withdrawn, overlapped>>
    BY DEF InsertDocument, Answer
  <1> HIDE DEF old, type, rows
  <1>1. TypeOK'
    BY <1>0, <1>a, <1>d DEF TypeOK, JobAtPc, Job, Actor
  <1>2. JobAtPc'
    BY <1>0, <1>a, <1>d DEF TypeOK, JobAtPc, Job
  <1>3. RowsAreFresh'
    BY <1>0, <1>a, <1>d DEF TypeOK, JobAtPc, RowsAreFresh
  <1>4. StoredFirst'
    BY <1>0, <1>a, <1>d DEF TypeOK, JobAtPc, RowsAreFresh, StoredFirst, CheckResult
  <1>5. CurrentIsOfType'
    BY <1>0, <1>a, <1>d DEF TypeOK, JobAtPc, RowsAreFresh, CurrentIsOfType, Job
  <1>6. HistoryLeadsToCurrent'
    <2>1. /\ r \notin Closed(evidence')
          /\ Closed(evidence') = Closed(evidence) \union ({old} \ {NoRow})
      BY <1>0, <1>a DEF Closed
    <2>2. \A i \in Closed(evidence) \ {old} : evidence'[i] = evidence[i]
      BY <1>0, <1>a DEF Closed
    <2>3. \A i \in Closed(evidence') :
            LET k == evidence'[i].superseded_by IN
            k # NoRow /\ evidence'[k] # NoRow /\ evidence'[k].type = evidence'[i].type
      <3> SUFFICES ASSUME NEW i \in Closed(evidence')
                   PROVE  LET k == evidence'[i].superseded_by IN
                          k # NoRow /\ evidence'[k] # NoRow /\ evidence'[k].type = evidence'[i].type
        OBVIOUS
      <3>1. CASE i = old
        BY <3>1, <1>0, <1>a, <2>1 DEF Closed
      <3>2. CASE i # old
        <4>1. i \in Closed(evidence) /\ evidence'[i] = evidence[i]
          BY <2>1, <2>2, <3>2
        <4>2. /\ evidence[i].superseded_by \in Request
              /\ evidence[evidence[i].superseded_by] # NoRow
              /\ evidence[evidence[i].superseded_by].type = evidence[i].type
          BY <4>1 DEF HistoryLeadsToCurrent, LeadsToCurrent, Closed, TypeOK, Evidence
        <4> QED
          BY <1>0, <1>a, <4>1, <4>2
      <3> QED
        BY <3>1, <3>2
    <2>4. ASSUME NEW S \in (SUBSET Closed(evidence')) \ {{}}
          PROVE  \E i \in S : evidence'[i].superseded_by \notin S
      <3>1. CASE old \in S
        BY <3>1, <1>0, <1>a, <2>1 DEF Closed
      <3>2. CASE old \notin S
        <4>1. S \in (SUBSET Closed(evidence)) \ {{}}
          BY <2>1, <3>2
        <4>2. PICK i \in S : evidence[i].superseded_by \notin S
          BY <4>1 DEF HistoryLeadsToCurrent, LeadsToCurrent
        <4>3. evidence'[i] = evidence[i]
          BY <2>2, <3>2, <4>1
        <4> QED
          BY <4>2, <4>3
      <3> QED
        BY <3>1, <3>2
    <2> QED
      BY <1>d, <2>3, <2>4 DEF HistoryLeadsToCurrent, LeadsToCurrent, Closed
  <1>7. OneCurrent'
    <2> SUFFICES ASSUME NEW t \in DocumentType, t \notin overlapped
                 PROVE  /\ \A i, j \in Current(evidence', t) : i = j
                        /\ \A p, q \in Request :
                             (/\ pc'[p] = "insert" /\ job'[p].op = "upload" /\ job'[p].type = t
                              /\ pc'[q] = "insert" /\ job'[q].op = "upload" /\ job'[q].type = t) => p = q
                        /\ \A q \in Request :
                             (pc'[q] = "insert" /\ job'[q].op = "upload" /\ job'[q].type = t) =>
                                \A i \in Current(evidence', t) : i = job'[q].current
      BY <1>d DEF OneCurrent
    <2>1. \A q \in Request \ {r} : pc'[q] = pc[q] /\ job'[q] = job[q]
      BY <1>d DEF TypeOK
    <2>2. pc'[r] = "answered"
      BY <1>d DEF TypeOK
    <2>3. CASE t = type
      <3>1. Current(evidence, t) \subseteq {old}
        BY <1>a, <2>3 DEF OneCurrent, type, old
      <3>2. Current(evidence', t) \subseteq {r}
        BY <1>0, <1>a, <2>3, <3>1 DEF Current
      <3>3. \A q \in Request \ {r} : ~ (pc[q] = "insert" /\ job[q].op = "upload" /\ job[q].type = t)
        BY <1>a, <2>3 DEF OneCurrent, type
      <3> QED
        BY <2>1, <2>2, <3>2, <3>3
    <2>4. CASE t # type
      <3>1. Current(evidence', t) = Current(evidence, t)
        BY <1>0, <1>a, <2>4 DEF Current
      <3> QED
        BY <2>1, <2>2, <3>1 DEF OneCurrent
    <2> QED
      BY <2>3, <2>4
  <1>8. ClosedIsSuperseded'
    BY <1>0, <1>a, <1>d DEF TypeOK, JobAtPc, RowsAreFresh, CurrentIsOfType, ClosedIsSuperseded
  <1>9. LoggedFirst'
    BY <1>0, <1>a, <1>d DEF TypeOK, JobAtPc, LoggedFirst
  <1>10. ShownUnderGrant'
    BY <1>0, <1>a, <1>d DEF TypeOK, JobAtPc, RowsAreFresh, StoredFirst, ShownUnderGrant
  <1> QED
    BY <1>1, <1>2, <1>3, <1>4, <1>5, <1>6, <1>7, <1>8, <1>9, <1>10

LEMMA InsertCheckIInv == ASSUME IInv, NEW r \in Request, InsertCheck(r) PROVE IInv'
  <1> USE SentinelAssumption DEF IInv, Running
  <1> DEFINE old == job[r].current
             type == job[r].type
             rows == [checks EXCEPT ![r] = NewCheck(r)]
  <1>a. /\ pc[r] = "insert" /\ job[r].op # "upload" /\ type \in CheckType /\ job[r] \in Job
        /\ old \in Request \union {NoRow}
        /\ old # NoRow => old # r /\ checks[old] # NoRow /\ checks[old].type = type
        /\ checks[r] = NoRow
    BY DEF InsertCheck, TypeOK, JobAtPc, Job, RowsAreFresh, CurrentIsOfType
  <1>b. /\ rows \in [Request -> CheckResult \union {NoRow}]
        /\ old # NoRow => rows[old] # NoRow
    BY <1>a, NewCheckIsRow DEF TypeOK
  <1>c. checks' = Close(rows, old, r)
    BY DEF InsertCheck
  <1>0. /\ checks' \in [Request -> CheckResult \union {NoRow}]
        /\ \A i \in Request \ {old, r} : checks'[i] = checks[i]
        /\ checks'[r] # NoRow /\ checks'[r].type = type /\ ~checks'[r].closed
        /\ checks'[r].completed => checks'[r].evidence = r /\ job[r].op = "result"
        /\ checks'[r].evidence # NoRow => checks'[r].completed
        /\ old # NoRow => /\ checks'[old] # NoRow /\ checks'[old].type = type
                          /\ checks'[old].completed = checks[old].completed
                          /\ checks'[old].evidence = checks[old].evidence
                          /\ checks'[old].closed /\ checks'[old].superseded_by = r
    <2>1. /\ Close(rows, old, r) \in [Request -> CheckResult \union {NoRow}]
          /\ \A i \in Request \ {old} : Close(rows, old, r)[i] = rows[i]
          /\ old # NoRow => /\ Close(rows, old, r)[old] # NoRow
                            /\ Close(rows, old, r)[old].type = rows[old].type
                            /\ Close(rows, old, r)[old].completed = rows[old].completed
                            /\ Close(rows, old, r)[old].evidence = rows[old].evidence
                            /\ Close(rows, old, r)[old].closed
                            /\ Close(rows, old, r)[old].superseded_by = r
      <3> HIDE DEF rows, old
      <3> QED
        BY <1>a, <1>b, CloseKeepsChecks
    <2>2. /\ rows[r] = NewCheck(r)
          /\ \A i \in Request \ {r} : rows[i] = checks[i]
      BY DEF TypeOK
    <2>3. r # old
      BY <1>a
    <2>4. /\ NewCheck(r) # NoRow /\ NewCheck(r).type = type /\ ~NewCheck(r).closed
          /\ NewCheck(r).completed => NewCheck(r).evidence = r /\ job[r].op = "result"
          /\ NewCheck(r).evidence # NoRow => NewCheck(r).completed
      BY <1>a, NewCheckIsRow
    <2> HIDE DEF rows, old, type
    <2> QED
      BY <1>a, <1>c, <2>1, <2>2, <2>3, <2>4
  <1>d. /\ pc' = [pc EXCEPT ![r] = "answered"] /\ job' = [job EXCEPT ![r] = NoJob]
        /\ UNCHANGED <<objects, evidence, views, delivered, shown, sees, withdrawn, overlapped>>
    BY DEF InsertCheck, Answer
  <1> HIDE DEF old, type, rows
  <1>1. TypeOK'
    BY <1>0, <1>a, <1>d DEF TypeOK, JobAtPc, Job, Actor
  <1>2. JobAtPc'
    BY <1>0, <1>a, <1>d DEF TypeOK, JobAtPc, Job
  <1>3. RowsAreFresh'
    BY <1>0, <1>a, <1>d DEF TypeOK, JobAtPc, RowsAreFresh
  <1>4. StoredFirst'
    BY <1>0, <1>a, <1>d DEF TypeOK, JobAtPc, RowsAreFresh, StoredFirst
  <1>5. CurrentIsOfType'
    BY <1>0, <1>a, <1>d DEF TypeOK, JobAtPc, RowsAreFresh, CurrentIsOfType, Job
  <1>6. HistoryLeadsToCurrent'
    <2>1. /\ r \notin Closed(checks')
          /\ Closed(checks') = Closed(checks) \union ({old} \ {NoRow})
      BY <1>0, <1>a DEF Closed
    <2>2. \A i \in Closed(checks) \ {old} : checks'[i] = checks[i]
      BY <1>0, <1>a DEF Closed
    <2>3. \A i \in Closed(checks') :
            LET k == checks'[i].superseded_by IN
            k # NoRow /\ checks'[k] # NoRow /\ checks'[k].type = checks'[i].type
      <3> SUFFICES ASSUME NEW i \in Closed(checks')
                   PROVE  LET k == checks'[i].superseded_by IN
                          k # NoRow /\ checks'[k] # NoRow /\ checks'[k].type = checks'[i].type
        OBVIOUS
      <3>1. CASE i = old
        BY <3>1, <1>0, <1>a, <2>1 DEF Closed
      <3>2. CASE i # old
        <4>1. i \in Closed(checks) /\ checks'[i] = checks[i]
          BY <2>1, <2>2, <3>2
        <4>2. /\ checks[i].superseded_by \in Request
              /\ checks[checks[i].superseded_by] # NoRow
              /\ checks[checks[i].superseded_by].type = checks[i].type
          BY <4>1 DEF HistoryLeadsToCurrent, LeadsToCurrent, Closed, TypeOK, CheckResult
        <4> QED
          BY <1>0, <1>a, <4>1, <4>2
      <3> QED
        BY <3>1, <3>2
    <2>4. ASSUME NEW S \in (SUBSET Closed(checks')) \ {{}}
          PROVE  \E i \in S : checks'[i].superseded_by \notin S
      <3>1. CASE old \in S
        BY <3>1, <1>0, <1>a, <2>1 DEF Closed
      <3>2. CASE old \notin S
        <4>1. S \in (SUBSET Closed(checks)) \ {{}}
          BY <2>1, <3>2
        <4>2. PICK i \in S : checks[i].superseded_by \notin S
          BY <4>1 DEF HistoryLeadsToCurrent, LeadsToCurrent
        <4>3. checks'[i] = checks[i]
          BY <2>2, <3>2, <4>1
        <4> QED
          BY <4>2, <4>3
      <3> QED
        BY <3>1, <3>2
    <2> QED
      BY <1>d, <2>3, <2>4 DEF HistoryLeadsToCurrent, LeadsToCurrent, Closed
  <1>7. OneCurrent'
    BY <1>d, <1>a DEF TypeOK, JobAtPc, OneCurrent, Current
  <1>8. ClosedIsSuperseded'
    BY <1>0, <1>a, <1>d DEF TypeOK, JobAtPc, RowsAreFresh, CurrentIsOfType, ClosedIsSuperseded
  <1>9. LoggedFirst'
    BY <1>0, <1>a, <1>d DEF TypeOK, JobAtPc, LoggedFirst
  <1>10. ShownUnderGrant'
    BY <1>0, <1>a, <1>d DEF TypeOK, JobAtPc, RowsAreFresh, StoredFirst, ShownUnderGrant
  <1> QED
    BY <1>1, <1>2, <1>3, <1>4, <1>5, <1>6, <1>7, <1>8, <1>9, <1>10

LEMMA LookIInv == ASSUME IInv, NEW r \in Request, Look(r) PROVE IInv'
  <1> USE SentinelAssumption DEF IInv, tables, Look, Goto, Answer, Running
  <1>1. TypeOK'
    BY DEF TypeOK, JobAtPc, Job, Actor
  <1>2. JobAtPc'
    BY DEF TypeOK, JobAtPc, Job
  <1>3. RowsAreFresh'
    BY DEF TypeOK, JobAtPc, RowsAreFresh
  <1>4. StoredFirst'
    BY DEF TypeOK, JobAtPc, RowsAreFresh, StoredFirst
  <1>5. CurrentIsOfType'
    BY DEF TypeOK, JobAtPc, RowsAreFresh, CurrentIsOfType
  <1>6. HistoryLeadsToCurrent'
    BY DEF TypeOK, RowsAreFresh, CurrentIsOfType, HistoryLeadsToCurrent, LeadsToCurrent, Closed
  <1>7. OneCurrent'
    BY DEF TypeOK, JobAtPc, RowsAreFresh, CurrentIsOfType, OneCurrent, Current
  <1>8. ClosedIsSuperseded'
    BY DEF TypeOK, JobAtPc, RowsAreFresh, CurrentIsOfType, ClosedIsSuperseded
  <1>9. LoggedFirst'
    BY DEF TypeOK, JobAtPc, LoggedFirst
  <1>10. ShownUnderGrant'
    BY DEF TypeOK, JobAtPc, RowsAreFresh, StoredFirst, ShownUnderGrant
  <1> QED
    BY <1>1, <1>2, <1>3, <1>4, <1>5, <1>6, <1>7, <1>8, <1>9, <1>10

LEMMA GetIInv == ASSUME IInv, NEW r \in Request, Get(r) PROVE IInv'
  <1> USE SentinelAssumption DEF IInv, tables, Get, Goto, Running
  <1>1. TypeOK'
    BY DEF TypeOK, JobAtPc, Job, Actor
  <1>2. JobAtPc'
    BY DEF TypeOK, JobAtPc, Job
  <1>3. RowsAreFresh'
    BY DEF TypeOK, JobAtPc, RowsAreFresh
  <1>4. StoredFirst'
    BY DEF TypeOK, JobAtPc, RowsAreFresh, StoredFirst
  <1>5. CurrentIsOfType'
    BY DEF TypeOK, JobAtPc, RowsAreFresh, CurrentIsOfType
  <1>6. HistoryLeadsToCurrent'
    BY DEF TypeOK, RowsAreFresh, CurrentIsOfType, HistoryLeadsToCurrent, LeadsToCurrent, Closed
  <1>7. OneCurrent'
    BY DEF TypeOK, JobAtPc, RowsAreFresh, CurrentIsOfType, OneCurrent, Current
  <1>8. ClosedIsSuperseded'
    BY DEF TypeOK, JobAtPc, RowsAreFresh, CurrentIsOfType, ClosedIsSuperseded
  <1>9. LoggedFirst'
    BY DEF TypeOK, JobAtPc, LoggedFirst
  <1>10. ShownUnderGrant'
    BY DEF TypeOK, JobAtPc, RowsAreFresh, StoredFirst, ShownUnderGrant
  <1> QED
    BY <1>1, <1>2, <1>3, <1>4, <1>5, <1>6, <1>7, <1>8, <1>9, <1>10

LEMMA SendIInv == ASSUME IInv, NEW r \in Request, Send(r) PROVE IInv'
  <1> USE SentinelAssumption DEF IInv, tables, Send, Answer, Running
  <1>1. TypeOK'
    BY DEF TypeOK, JobAtPc, Job, Actor
  <1>2. JobAtPc'
    BY DEF TypeOK, JobAtPc, Job
  <1>3. RowsAreFresh'
    BY DEF TypeOK, JobAtPc, RowsAreFresh
  <1>4. StoredFirst'
    BY DEF TypeOK, JobAtPc, RowsAreFresh, StoredFirst
  <1>5. CurrentIsOfType'
    BY DEF TypeOK, JobAtPc, RowsAreFresh, CurrentIsOfType
  <1>6. HistoryLeadsToCurrent'
    BY DEF TypeOK, RowsAreFresh, CurrentIsOfType, HistoryLeadsToCurrent, LeadsToCurrent, Closed
  <1>7. OneCurrent'
    BY DEF TypeOK, JobAtPc, RowsAreFresh, CurrentIsOfType, OneCurrent, Current
  <1>8. ClosedIsSuperseded'
    BY DEF TypeOK, JobAtPc, RowsAreFresh, CurrentIsOfType, ClosedIsSuperseded
  <1>9. LoggedFirst'
    BY DEF TypeOK, JobAtPc, LoggedFirst
  <1>10. ShownUnderGrant'
    BY DEF TypeOK, JobAtPc, RowsAreFresh, StoredFirst, ShownUnderGrant
  <1> QED
    BY <1>1, <1>2, <1>3, <1>4, <1>5, <1>6, <1>7, <1>8, <1>9, <1>10

LEMMA ReadCheckIInv == ASSUME IInv, NEW r \in Request, ReadCheck(r) PROVE IInv'
  <1> USE SentinelAssumption DEF IInv, tables, ReadCheck, Answer, Running
  <1>1. TypeOK'
    BY DEF TypeOK, JobAtPc, Job, Actor, CheckResult
  <1>2. JobAtPc'
    BY DEF TypeOK, JobAtPc, Job, CheckResult
  <1>3. RowsAreFresh'
    BY DEF TypeOK, JobAtPc, RowsAreFresh
  <1>4. StoredFirst'
    BY DEF TypeOK, JobAtPc, RowsAreFresh, StoredFirst
  <1>5. CurrentIsOfType'
    BY DEF TypeOK, JobAtPc, RowsAreFresh, CurrentIsOfType
  <1>6. HistoryLeadsToCurrent'
    BY DEF TypeOK, RowsAreFresh, CurrentIsOfType, HistoryLeadsToCurrent, LeadsToCurrent, Closed
  <1>7. OneCurrent'
    BY DEF TypeOK, JobAtPc, RowsAreFresh, CurrentIsOfType, OneCurrent, Current
  <1>8. ClosedIsSuperseded'
    BY DEF TypeOK, JobAtPc, RowsAreFresh, CurrentIsOfType, ClosedIsSuperseded
  <1>9. LoggedFirst'
    BY DEF TypeOK, JobAtPc, LoggedFirst
  <1>10. ShownUnderGrant'
    BY DEF TypeOK, JobAtPc, Job, CheckResult, RowsAreFresh, StoredFirst, SeesResult, ShownUnderGrant
  <1> QED
    BY <1>1, <1>2, <1>3, <1>4, <1>5, <1>6, <1>7, <1>8, <1>9, <1>10

LEMMA ReadEvidenceIInv == ASSUME IInv, NEW r \in Request, ReadEvidence(r) PROVE IInv'
  <1> USE SentinelAssumption DEF IInv, tables, ReadEvidence, Answer, Running
  <1>1. TypeOK'
    BY DEF TypeOK, JobAtPc, Job, Actor
  <1>2. JobAtPc'
    BY DEF TypeOK, JobAtPc, Job
  <1>3. RowsAreFresh'
    BY DEF TypeOK, JobAtPc, RowsAreFresh
  <1>4. StoredFirst'
    BY DEF TypeOK, JobAtPc, RowsAreFresh, StoredFirst
  <1>5. CurrentIsOfType'
    BY DEF TypeOK, JobAtPc, RowsAreFresh, CurrentIsOfType
  <1>6. HistoryLeadsToCurrent'
    BY DEF TypeOK, RowsAreFresh, CurrentIsOfType, HistoryLeadsToCurrent, LeadsToCurrent, Closed
  <1>7. OneCurrent'
    BY DEF TypeOK, JobAtPc, RowsAreFresh, CurrentIsOfType, OneCurrent, Current
  <1>8. ClosedIsSuperseded'
    BY DEF TypeOK, JobAtPc, RowsAreFresh, CurrentIsOfType, ClosedIsSuperseded
  <1>9. LoggedFirst'
    BY DEF TypeOK, JobAtPc, LoggedFirst
  <1>10. ShownUnderGrant'
    BY DEF TypeOK, JobAtPc, Job, RowsAreFresh, StoredFirst, ShownUnderGrant
  <1> QED
    BY <1>1, <1>2, <1>3, <1>4, <1>5, <1>6, <1>7, <1>8, <1>9, <1>10

LEMMA AbortIInv == ASSUME IInv, NEW r \in Request, Abort(r) PROVE IInv'
  <1> USE SentinelAssumption DEF IInv, tables, Abort, Answer, Running
  <1>1. TypeOK'
    BY DEF TypeOK, JobAtPc, Job, Actor
  <1>2. JobAtPc'
    BY DEF TypeOK, JobAtPc, Job
  <1>3. RowsAreFresh'
    BY DEF TypeOK, JobAtPc, RowsAreFresh
  <1>4. StoredFirst'
    BY DEF TypeOK, JobAtPc, RowsAreFresh, StoredFirst
  <1>5. CurrentIsOfType'
    BY DEF TypeOK, JobAtPc, RowsAreFresh, CurrentIsOfType
  <1>6. HistoryLeadsToCurrent'
    BY DEF TypeOK, RowsAreFresh, CurrentIsOfType, HistoryLeadsToCurrent, LeadsToCurrent, Closed
  <1>7. OneCurrent'
    BY DEF TypeOK, JobAtPc, RowsAreFresh, CurrentIsOfType, OneCurrent, Current
  <1>8. ClosedIsSuperseded'
    BY DEF TypeOK, JobAtPc, RowsAreFresh, CurrentIsOfType, ClosedIsSuperseded
  <1>9. LoggedFirst'
    BY DEF TypeOK, JobAtPc, LoggedFirst
  <1>10. ShownUnderGrant'
    BY DEF TypeOK, JobAtPc, RowsAreFresh, StoredFirst, ShownUnderGrant
  <1> QED
    BY <1>1, <1>2, <1>3, <1>4, <1>5, <1>6, <1>7, <1>8, <1>9, <1>10

LEMMA ExpireIInv == ASSUME IInv, NEW r \in Request, Expire(r) PROVE IInv'
  <1> USE SentinelAssumption DEF IInv, Running
  <1>b. evidence[r] \in Evidence
    BY DEF Expire, TypeOK
  <1>c. [evidence[r] EXCEPT !.expired = TRUE] \in Evidence
    BY <1>b DEF Evidence
  <1>d. PICK e \in Evidence : e = [evidence[r] EXCEPT !.expired = TRUE]
    BY <1>c
  <1>0. /\ e # NoRow /\ e.type = evidence[r].type /\ e.closed = evidence[r].closed
        /\ e.superseded_by = evidence[r].superseded_by
    BY <1>b, <1>d DEF Evidence
  <1>a. evidence' = [evidence EXCEPT ![r] = e]
    BY <1>d DEF Expire
  <1>e. UNCHANGED <<objects, checks, views, delivered, shown, sees, withdrawn, overlapped, pc, job>>
    BY DEF Expire
  <1>1. TypeOK'
    BY <1>0, <1>a, <1>b, <1>e DEF TypeOK, JobAtPc, Job, Actor
  <1>2. JobAtPc'
    BY <1>0, <1>a, <1>b, <1>e DEF TypeOK, JobAtPc, Job
  <1>3. RowsAreFresh'
    BY <1>0, <1>a, <1>b, <1>e DEF TypeOK, JobAtPc, RowsAreFresh
  <1>4. StoredFirst'
    BY <1>0, <1>a, <1>b, <1>e DEF TypeOK, JobAtPc, RowsAreFresh, StoredFirst
  <1>5. CurrentIsOfType'
    BY <1>0, <1>a, <1>b, <1>e DEF TypeOK, JobAtPc, RowsAreFresh, CurrentIsOfType
  <1>6. HistoryLeadsToCurrent'
    BY <1>0, <1>a, <1>b, <1>e DEF TypeOK, RowsAreFresh, CurrentIsOfType, HistoryLeadsToCurrent, LeadsToCurrent, Closed
  <1>7. OneCurrent'
    BY <1>0, <1>a, <1>b, <1>e DEF TypeOK, JobAtPc, RowsAreFresh, CurrentIsOfType, OneCurrent, Current
  <1>8. ClosedIsSuperseded'
    BY <1>0, <1>a, <1>b, <1>e DEF TypeOK, JobAtPc, RowsAreFresh, CurrentIsOfType, ClosedIsSuperseded
  <1>9. LoggedFirst'
    BY <1>0, <1>a, <1>b, <1>e DEF TypeOK, JobAtPc, LoggedFirst
  <1>10. ShownUnderGrant'
    BY <1>0, <1>a, <1>b, <1>e DEF TypeOK, JobAtPc, RowsAreFresh, StoredFirst, ShownUnderGrant
  <1> QED
    BY <1>1, <1>2, <1>3, <1>4, <1>5, <1>6, <1>7, <1>8, <1>9, <1>10

LEMMA BeginIInv ==
  ASSUME IInv, NEW r \in Request, NEW op \in Op,
         NEW by \in Actor, NEW type \in DocumentType \union CheckType \union {NoType},
         NEW on \in Request \union {NoRow}, Begin(r, op, by, type, on)
  PROVE  IInv'
  <1> USE SentinelAssumption DEF IInv, Running, tables
  <1> DEFINE j == [op |-> op, by |-> by, type |-> type, on |-> on, current |-> NoRow]
  <1>1. /\ j \in Job
        /\ pc[r] = "idle"
        /\ job' = [job EXCEPT ![r] = j]
        /\ UNCHANGED <<tables, delivered, shown, sees, withdrawn, overlapped>>
        /\ op = "upload" => type \in DocumentType
        /\ op \in {"result", "pending"} => type \in CheckType
        /\ op = "download" => on \in Request /\ evidence[on] # NoRow
        /\ op = "view" => on \in Request /\ checks[on] # NoRow
    BY DEF Begin, Job
  <1>2. /\ pc' = [pc EXCEPT ![r] = FirstStep[op]]
        /\ op = "upload" => FirstStep[op] = "entitled"
        /\ op = "result" => FirstStep[op] = "put"
        /\ op = "pending" => FirstStep[op] = "select"
        /\ op = "download" => FirstStep[op] = "look"
        /\ op = "view" => FirstStep[op] = "check"
        /\ op \in {"upload", "result", "pending", "download", "view"}
    BY DEF Begin, FirstStep, Op
  <1>3. TypeOK'
    BY <1>1, <1>2 DEF TypeOK
  <1>4. JobAtPc' /\ RowsAreFresh' /\ StoredFirst' /\ CurrentIsOfType'
    BY <1>1, <1>2 DEF TypeOK, JobAtPc, RowsAreFresh, StoredFirst, CurrentIsOfType
  <1>5. HistoryLeadsToCurrent'
    BY <1>1 DEF HistoryLeadsToCurrent, LeadsToCurrent, Closed
  <1>6. OneCurrent' /\ ClosedIsSuperseded' /\ LoggedFirst' /\ ShownUnderGrant'
    BY <1>1, <1>2 DEF TypeOK, OneCurrent, Current, ClosedIsSuperseded, LoggedFirst, ShownUnderGrant
  <1> QED
    BY <1>3, <1>4, <1>5, <1>6

\* Who loses sight while his view is under way is remembered.
LEMMA RegrantIInv == ASSUME IInv, NEW a \in Actor, Regrant(a) PROVE IInv'
  <1>1. /\ UNCHANGED <<objects, evidence, checks, views, delivered, shown, overlapped, pc, job>>
        /\ sees' \subseteq Actor /\ withdrawn' \subseteq Request /\ withdrawn \subseteq withdrawn'
    BY DEF Regrant, tables, IInv, TypeOK
  <1>2. ASSUME NEW r \in Request, pc[r] = "full", job[r].by \in sees
        PROVE  job[r].by \in sees' \/ r \in withdrawn'
    BY <1>2 DEF Regrant
  <1>3. ShownUnderGrant'
    BY <1>1, <1>2 DEF IInv, ShownUnderGrant
  <1> QED
    BY <1>1, <1>3
    DEF IInv, Running, TypeOK, JobAtPc, RowsAreFresh, StoredFirst, CurrentIsOfType,
        HistoryLeadsToCurrent, LeadsToCurrent, Closed, OneCurrent, Current, ClosedIsSuperseded,
        LoggedFirst

LEMMA StutterIInv == ASSUME IInv, UNCHANGED vars PROVE IInv'
  BY DEF IInv, vars, tables, Running, TypeOK, JobAtPc, RowsAreFresh, StoredFirst, CurrentIsOfType,
         HistoryLeadsToCurrent, LeadsToCurrent, Closed, OneCurrent, Current, ClosedIsSuperseded,
         LoggedFirst, ShownUnderGrant

LEMMA NextIInv == ASSUME IInv, [Next]_vars PROVE IInv'
  <1>1. ASSUME NEW r \in Request, NEW op \in Op,
               NEW by \in Actor, NEW type \in DocumentType \union CheckType \union {NoType},
               NEW on \in Request \union {NoRow}, Begin(r, op, by, type, on)
        PROVE  IInv'
    BY <1>1, BeginIInv
  <1>2. ASSUME NEW r \in Request, Statement(r) PROVE IInv'
    BY <1>2, CheckEntitledIInv, PutIInv, InsertPayloadIInv, SelectCurrentIInv, InsertDocumentIInv,
       InsertCheckIInv, LookIInv, GetIInv, SendIInv, ReadCheckIInv, ReadEvidenceIInv
    DEF Statement
  <1>3. ASSUME NEW r \in Request, Abort(r) \/ Expire(r) PROVE IInv'
    BY <1>3, AbortIInv, ExpireIInv
  <1>4. ASSUME NEW a \in Actor, Regrant(a) PROVE IInv'
    BY <1>4, RegrantIInv
  <1>5. CASE UNCHANGED vars
    BY <1>5, StutterIInv
  <1> QED
    BY <1>1, <1>2, <1>3, <1>4, <1>5 DEF Next, Served

\* The strengthening holds in every reachable state.
THEOREM Invariance == Spec => []IInv
  <1>1. Init => IInv
    BY InitIInv
  <1>2. IInv /\ [Next]_vars => IInv'
    BY NextIInv
  <1> QED
    BY <1>1, <1>2, PTL DEF Spec

(***************************************************************************)
(* The properties.                                                         *)
(***************************************************************************)

\* Every variable keeps its type, so no call is ever at a step its kind does not have.
THEOREM TypeCorrect == Spec => []TypeOK
  <1>1. IInv => TypeOK
    BY DEF IInv
  <1> QED
    BY <1>1, Invariance, PTL

\* However many uploads and results overlap, closed rows lead to a current row of their type.
THEOREM HistoryKeepsItsEnd == Spec => []HistoryLeadsToCurrent
  <1>1. IInv => HistoryLeadsToCurrent
    BY DEF IInv
  <1> QED
    BY <1>1, Invariance, PTL

\* A completed result is shown without its payload only to somebody who has lost sight of the
\* subject between the two SELECTs, and no row is kept without its object.
THEOREM EvidenceIsBehind == Spec => []EvidenceBehindResults
  <1>1. IInv => EvidenceBehindResults
    BY DEF IInv, ShownUnderGrant, StoredFirst, EvidenceBehindResults
  <1> QED
    BY <1>1, Invariance, PTL

\* Unless uploads of its type have overlapped, a document that is on file and in date is
\* never asked for again of anybody who sees the subject's rows.
THEOREM RenewalIsSettled == Spec => []RenewalSettles
  <1>1. IInv => RenewalSettles
    <2> SUFFICES ASSUME IInv, NEW by \in sees, NEW i \in Request, NEW years \in Years \union {NoYears},
                        evidence[i] # NoRow, evidence[i].type \notin overlapped \union {NoType},
                        ~evidence[i].expired, evidence[i].superseded_by = NoRow
                 PROVE  ~MayBeOutstanding(by, evidence[i].type, years)
      BY DEF RenewalSettles
    <2>1. evidence[i].type \in DocumentType \ overlapped
      BY DEF IInv, TypeOK, Evidence
    <2>2. i \in Current(evidence, evidence[i].type)
      BY DEF IInv, ClosedIsSuperseded, Current
    <2>3. \A k \in Current(evidence, evidence[i].type) : k = i
      BY <2>1, <2>2 DEF IInv, OneCurrent
    <2> QED
      BY <2>2, <2>3 DEF MayBeOutstanding, CurrentFor
  <1> QED
    BY <1>1, Invariance, PTL

\* No client user has bytes whose view is not on the log, for any number of downloads.
THEOREM ViewsOnRecord == Spec => []ViewsAreLogged
  <1>1. IInv => ViewsAreLogged
    BY DEF IInv, LoggedFirst, ViewsAreLogged, AccessHistory, BrokerSeesView
  <1> QED
    BY <1>1, Invariance, PTL
=============================================================================
