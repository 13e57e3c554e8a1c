-------------------------- MODULE BusinessesProofs --------------------------
(***************************************************************************)
(* What holds of Businesses for every set of brokers, businesses and calls *)
(* and whatever is on file.                                                *)
(***************************************************************************)
EXTENDS Businesses, TLAPS

Running(r) == pc[r] \notin {"idle", "answered"}

(***************************************************************************)
(* The inductive invariant.                                                *)
(***************************************************************************)

\* The affiliation call r has read is somebody else's, in the business it was asked about.
Named(r) == /\ affiliations[job[r].on] # NoRow
            /\ affiliations[job[r].on].broker # job[r].by
            /\ affiliations[job[r].on].business = job[r].business

\* The policy that let call r write still holds of its broker, unless he has left since.
Stood(r) == /\ job[r].leaves <= leaves[job[r].by]
            /\ \/ HasActiveAffiliation(job[r].by, job[r].business)
               \/ leaves[job[r].by] # job[r].leaves

\* What holds of call r when it is at step where: its checks, as far as no other call can
\* undo them, and what it has read, unless the business has been edited since it arrived.
JobAt(r, where) ==
  LET b == job[r].business
      i == job[r].on
      op == job[r].op
  IN
  /\ job[r] \in Job
  /\ job[r].edits <= edits[b]
  /\ where # "create" => Exists(b)
  /\ where = "check" => op \in Gated
  /\ where \in {"fields", "principals"} => op = "submit"
  /\ where \in {"look", "running", "record"} => op = "verify"
  /\ where \in {"write", "commit"} => op \in Gated \union {"confirm", "verify"}
  /\ op \in {"confirm", "end", "update_principal", "remove_principal"} => i \in Id
  /\ where \in {"mine", "target"} => op = "confirm"
  /\ where = "end" => op = "end"
  /\ (where \in {"write", "commit"} /\ op = "confirm") => Named(r)
  /\ (where = "commit" /\ op = "confirm") => Stood(r)
  /\ where = "principals" => FieldsOutstanding(b) = {} \/ edits[b] # job[r].edits
  /\ (where \in {"write", "commit"} /\ op = "submit") => Complete(b) \/ edits[b] # job[r].edits

JobAtPc == \A r \in Request : Running(r) => JobAt(r, pc[r])

\* A call inserts its rows when it is done.
RowsAreFresh ==
  \A r \in Request : (affiliations[r] # NoRow \/ principals[r] # NoRow) => pc[r] = "answered"

\* A business is never deleted.
AffiliationsHaveBusiness ==
  \A i \in Id : affiliations[i] # NoRow => Exists(affiliations[i].business)

IInv == TypeOK /\ JobAtPc /\ RowsAreFresh /\ AffiliationsHaveBusiness

(***************************************************************************)
(* What a step may do to the rows.  Rows stay; an affiliation's broker and *)
(* business are for good; and while edits stays, so do the fields, and no  *)
(* principal goes.                                                         *)
(***************************************************************************)
Kept ==
  /\ \A b \in Business : Exists(b) => businesses'[b] # NoRow
  /\ \A i \in Id : affiliations[i] # NoRow =>
       /\ affiliations'[i] # NoRow
       /\ affiliations'[i].broker = affiliations[i].broker
       /\ affiliations'[i].business = affiliations[i].business
  /\ \A i \in Id : affiliations'[i] # NoRow => businesses'[affiliations'[i].business] # NoRow
  /\ \A r \in Request : pc'[r] # "answered" =>
       /\ affiliations'[r] # NoRow => affiliations[r] # NoRow
       /\ principals'[r] # NoRow => principals[r] # NoRow
  /\ \A b \in Business : edits[b] <= edits'[b]
  /\ \A by \in Broker : leaves[by] <= leaves'[by]
  /\ \A i \in Id : (affiliations[i] # NoRow /\ affiliations[i].status = "active") =>
       affiliations'[i].status = "active" \/ leaves'[affiliations[i].broker] # leaves[affiliations[i].broker]
  /\ \A b \in Business : (Exists(b) /\ edits'[b] = edits[b]) =>
       /\ businesses'[b].filled = businesses[b].filled
       /\ \A p \in Id : Current(p, b) =>
            principals'[p] # NoRow /\ principals'[p].business = b /\ ~principals'[p].removed

\* Only his own endAffiliation takes a broker's standing away.
LEMMA StoodKept ==
  ASSUME IInv, TypeOK', Kept, NEW r \in Request, job'[r] = job[r], job[r] \in Job, Stood(r)
  PROVE  Stood(r)'
  <1> DEFINE by == job[r].by
  <1>1. /\ by \in Broker /\ job[r].leaves \in Nat /\ leaves[by] \in Nat /\ leaves'[by] \in Nat
        /\ leaves[by] <= leaves'[by]
    BY DEF Job, IInv, TypeOK, Kept
  <1>2. CASE leaves'[by] = leaves[by] /\ HasActiveAffiliation(by, job[r].business)
    <2>1. PICK i \in Id : /\ affiliations[i] # NoRow /\ affiliations[i].broker = by
                          /\ affiliations[i].business = job[r].business
                          /\ affiliations[i].status = "active"
      BY <1>2 DEF HasActiveAffiliation
    <2>2. /\ affiliations'[i] # NoRow /\ affiliations'[i].broker = by
          /\ affiliations'[i].business = job[r].business /\ affiliations'[i].status = "active"
      BY <1>2, <2>1 DEF Kept
    <2> QED
      BY <1>1, <2>2 DEF Stood, HasActiveAffiliation
  <1>3. CASE leaves'[by] # leaves[by] \/ leaves[by] # job[r].leaves
    BY <1>1, <1>3 DEF Stood
  <1> QED
    BY <1>2, <1>3 DEF Stood

LEMMA StepIInv ==
  ASSUME IInv, TypeOK', Kept,
         \A r \in Request : pc[r] = "answered" => pc'[r] = "answered",
         \A r \in Request : pc'[r] \notin {"idle", "answered"} =>
           job'[r] = job[r] /\ JobAt(r, pc'[r])
  PROVE  IInv'
  <1>1. ASSUME NEW r \in Request, Running(r)' PROVE JobAt(r, pc[r])'
    <2>1. job'[r] = job[r] /\ JobAt(r, pc'[r])
      BY <1>1 DEF Running
    <2> DEFINE b == job[r].business
    <2>2. b \in Business /\ job[r].edits \in Nat /\ edits[b] \in Nat /\ edits'[b] \in Nat
      BY <2>1 DEF JobAt, Job, IInv, TypeOK
    <2>3. edits[b] <= edits'[b] /\ job[r].edits <= edits[b]
      BY <2>1, <2>2 DEF Kept, JobAt
    <2>4. pc'[r] # "create" => Exists(b) /\ businesses'[b] # NoRow
      BY <2>1, <2>2 DEF JobAt, Kept
    <2>5. (pc'[r] # "create" /\ edits'[b] = job[r].edits) =>
            /\ edits[b] = job[r].edits
            /\ businesses'[b].filled = businesses[b].filled
            /\ \A p \in Id : Current(p, b) =>
                 principals'[p] # NoRow /\ principals'[p].business = b /\ ~principals'[p].removed
      BY <2>2, <2>3, <2>4 DEF Kept
    <2>6. pc'[r] = "principals" => FieldsOutstanding(b)' = {} \/ edits'[b] # job[r].edits
      BY <2>1, <2>5 DEF JobAt, FieldsOutstanding, Required
    <2>7. (pc'[r] \in {"write", "commit"} /\ job[r].op = "submit") =>
            Complete(b)' \/ edits'[b] # job[r].edits
      BY <2>1, <2>5 DEF JobAt, FieldsOutstanding, Required, Complete, PrincipalOutstanding, Current
    <2>8. (pc'[r] \in {"write", "commit"} /\ job[r].op = "confirm") => Named(r)'
      BY <2>1 DEF JobAt, Kept, Named
    <2>9. (pc'[r] = "commit" /\ job[r].op = "confirm") => Stood(r)'
      BY <2>1, StoodKept DEF JobAt, Job
    <2> QED
      BY <2>1, <2>2, <2>3, <2>4, <2>6, <2>7, <2>8, <2>9 DEF JobAt, Exists
  <1>2. RowsAreFresh'
    BY DEF IInv, RowsAreFresh, Kept
  <1>3. AffiliationsHaveBusiness'
    BY DEF AffiliationsHaveBusiness, Kept, Exists
  <1> QED
    BY <1>1, <1>2, <1>3 DEF IInv, JobAtPc

LEMMA InitIInv == ASSUME Init PROVE IInv
  <1>1. TypeOK
    BY FileAssumption DEF Init, TypeOK, BusinessRow, Id, Status, Required
  <1>2. AffiliationsHaveBusiness
    <2> SUFFICES ASSUME NEW i \in Id, affiliations[i] # NoRow PROVE Exists(affiliations[i].business)
      BY DEF AffiliationsHaveBusiness
    <2>1. i \in Earlier /\ affiliations[i] = OnFile[i] /\ OnFile[i].business \in Business
      BY FileAssumption DEF Init, Id, Affiliation
    <2>2. businesses[OnFile[i].business] = [status |-> "draft", filled |-> Required(OnFile[i].business)]
      BY <2>1 DEF Init
    <2>3. businesses[OnFile[i].business] \in BusinessRow
      BY <2>2 DEF BusinessRow, Status, Required
    <2> QED
      BY <2>1, <2>3, SentinelAssumption DEF Exists
  <1> QED
    BY FileAssumption, <1>1, <1>2 DEF Init, IInv, JobAtPc, RowsAreFresh, Running, Id

\* A statement that reads, throws, or records a check.
LEMMA ReadIInv ==
  ASSUME IInv, NEW r \in Request, NEW where \in Step \union {"answered"}, Running(r),
         UNCHANGED <<businesses, affiliations, principals, edits, leaves>>, checked' \subseteq Business,
         \/ Answer(r)
         \/ Goto(r, where) /\ JobAt(r, where)
  PROVE  IInv'
  <1>1. TypeOK'
    BY DEF IInv, TypeOK, Answer, Goto
  <1>2. Kept
    BY DEF IInv, Kept, TypeOK, Exists, Current, AffiliationsHaveBusiness
  <1>3. \A q \in Request : pc[q] = "answered" => pc'[q] = "answered"
    BY DEF IInv, TypeOK, Answer, Goto, Running
  <1>4. \A q \in Request : pc'[q] \notin {"idle", "answered"} => job'[q] = job[q] /\ JobAt(q, pc'[q])
    BY DEF IInv, TypeOK, JobAtPc, Answer, Goto, Running
  <1> QED
    BY <1>1, <1>2, <1>3, <1>4, StepIInv

\* A statement that writes and commits.
LEMMA WriteIInv ==
  ASSUME IInv, NEW r \in Request, Answer(r), Kept,
         businesses' \in [Business -> BusinessRow \union {NoRow}],
         affiliations' \in [Id -> Affiliation \union {NoRow}],
         principals' \in [Id -> Principal \union {NoRow}],
         edits' \in [Business -> Nat], leaves' \in [Broker -> Nat], UNCHANGED checked
  PROVE  IInv'
  <1>1. TypeOK'
    BY DEF IInv, TypeOK, Answer
  <1>2. \A q \in Request : pc[q] = "answered" => pc'[q] = "answered"
    BY DEF IInv, TypeOK, Answer
  <1>3. \A q \in Request : pc'[q] \notin {"idle", "answered"} => job'[q] = job[q] /\ JobAt(q, pc'[q])
    BY DEF IInv, TypeOK, JobAtPc, Answer, Running
  <1> QED
    BY <1>1, <1>2, <1>3, StepIInv

LEMMA CheckEditableIInv == ASSUME IInv, NEW r \in Request, CheckEditable(r) PROVE IInv'
  <1> DEFINE where == IF job[r].op = "submit" THEN "fields" ELSE "write"
  <1>1. /\ Running(r) /\ where \in Step
        /\ UNCHANGED tables
    BY DEF CheckEditable, Running, Step, tables
  <1>2. JobAt(r, "check")
    BY <1>1 DEF IInv, JobAtPc, CheckEditable
  <1>3. Answer(r) \/ (Goto(r, where) /\ JobAt(r, where))
    BY <1>2 DEF CheckEditable, GotoIf, JobAt, SeesBusiness, Gated
  <1> QED
    BY <1>1, <1>3, ReadIInv DEF IInv, TypeOK, tables

LEMMA ReadFieldsIInv == ASSUME IInv, NEW r \in Request, ReadFields(r) PROVE IInv'
  <1> DEFINE where == "principals"
  <1>1. /\ Running(r) /\ where \in Step
        /\ UNCHANGED tables
    BY DEF ReadFields, Running, Step, tables
  <1>2. JobAt(r, "fields")
    BY <1>1 DEF IInv, JobAtPc, ReadFields
  <1>3. Answer(r) \/ (Goto(r, where) /\ JobAt(r, where))
    BY <1>2 DEF ReadFields, GotoIf, JobAt, FieldsOutstanding
  <1> QED
    BY <1>1, <1>3, ReadIInv DEF IInv, TypeOK, tables

LEMMA ReadPrincipalsIInv == ASSUME IInv, NEW r \in Request, ReadPrincipals(r) PROVE IInv'
  <1> DEFINE where == "write"
  <1>1. /\ Running(r) /\ where \in Step
        /\ UNCHANGED tables
    BY DEF ReadPrincipals, Running, Step, tables
  <1>2. JobAt(r, "principals")
    BY <1>1 DEF IInv, JobAtPc, ReadPrincipals
  <1>3. Answer(r) \/ (Goto(r, where) /\ JobAt(r, where))
    BY <1>2 DEF ReadPrincipals, GotoIf, JobAt, Complete, Gated
  <1> QED
    BY <1>1, <1>3, ReadIInv DEF IInv, TypeOK, tables

LEMMA CheckAffiliatableIInv == ASSUME IInv, NEW r \in Request, CheckAffiliatable(r) PROVE IInv'
  <1> DEFINE where == "open"
  <1>1. /\ Running(r) /\ where \in Step
        /\ UNCHANGED tables
    BY DEF CheckAffiliatable, Running, Step, tables
  <1>2. JobAt(r, "status")
    BY <1>1 DEF IInv, JobAtPc, CheckAffiliatable
  <1>3. Answer(r) \/ (Goto(r, where) /\ JobAt(r, where))
    BY <1>2 DEF CheckAffiliatable, GotoIf, JobAt
  <1> QED
    BY <1>1, <1>3, ReadIInv DEF IInv, TypeOK, tables

LEMMA CheckNotAffiliatedIInv == ASSUME IInv, NEW r \in Request, CheckNotAffiliated(r) PROVE IInv'
  <1> DEFINE where == "insert"
  <1>1. /\ Running(r) /\ where \in Step
        /\ UNCHANGED tables
    BY DEF CheckNotAffiliated, Running, Step, tables
  <1>2. JobAt(r, "open")
    BY <1>1 DEF IInv, JobAtPc, CheckNotAffiliated
  <1>3. Answer(r) \/ (Goto(r, where) /\ JobAt(r, where))
    BY <1>2 DEF CheckNotAffiliated, GotoIf, JobAt
  <1> QED
    BY <1>1, <1>3, ReadIInv DEF IInv, TypeOK, tables

LEMMA CheckMineIInv == ASSUME IInv, NEW r \in Request, CheckMine(r) PROVE IInv'
  <1> DEFINE where == "target"
  <1>1. /\ Running(r) /\ where \in Step
        /\ UNCHANGED tables
    BY DEF CheckMine, Running, Step, tables
  <1>2. JobAt(r, "mine")
    BY <1>1 DEF IInv, JobAtPc, CheckMine
  <1>3. Answer(r) \/ (Goto(r, where) /\ JobAt(r, where))
    BY <1>2 DEF CheckMine, GotoIf, JobAt
  <1> QED
    BY <1>1, <1>3, ReadIInv DEF IInv, TypeOK, tables

LEMMA CheckTargetIInv == ASSUME IInv, NEW r \in Request, CheckTarget(r) PROVE IInv'
  <1> DEFINE where == "write"
  <1>1. /\ Running(r) /\ where \in Step
        /\ UNCHANGED tables
    BY DEF CheckTarget, Running, Step, tables
  <1>2. JobAt(r, "target")
    BY <1>1 DEF IInv, JobAtPc, CheckTarget
  <1>3. Answer(r) \/ (Goto(r, where) /\ JobAt(r, where))
    BY <1>2 DEF CheckTarget, GotoIf, JobAt, Confirmable, SeesAffiliation, Named
  <1> QED
    BY <1>1, <1>3, ReadIInv DEF IInv, TypeOK, tables

LEMMA LookUpIInv == ASSUME IInv, NEW r \in Request, LookUp(r) PROVE IInv'
  <1> DEFINE where == "running"
  <1>1. /\ Running(r) /\ where \in Step
        /\ UNCHANGED tables
    BY DEF LookUp, Running, Step, tables
  <1>2. JobAt(r, "look")
    BY <1>1 DEF IInv, JobAtPc, LookUp
  <1>3. Answer(r) \/ (Goto(r, where) /\ JobAt(r, where))
    BY <1>2 DEF LookUp, GotoIf, JobAt
  <1> QED
    BY <1>1, <1>3, ReadIInv DEF IInv, TypeOK, tables

LEMMA CheckNotRunningIInv == ASSUME IInv, NEW r \in Request, CheckNotRunning(r) PROVE IInv'
  <1> DEFINE where == "record"
  <1>1. /\ Running(r) /\ where \in Step
        /\ UNCHANGED tables
    BY DEF CheckNotRunning, Running, Step, tables
  <1>2. JobAt(r, "running")
    BY <1>1 DEF IInv, JobAtPc, CheckNotRunning
  <1>3. Answer(r) \/ (Goto(r, where) /\ JobAt(r, where))
    BY <1>2 DEF CheckNotRunning, GotoIf, JobAt
  <1> QED
    BY <1>1, <1>3, ReadIInv DEF IInv, TypeOK, tables

LEMMA RecordCheckIInv == ASSUME IInv, NEW r \in Request, RecordCheck(r) PROVE IInv'
  <1>1. /\ Running(r) /\ "write" \in Step
        /\ UNCHANGED <<businesses, affiliations, principals, edits, leaves>>
    BY DEF RecordCheck, Running, Step
  <1>2. JobAt(r, "record") /\ checked' \subseteq Business
    BY <1>1 DEF IInv, TypeOK, JobAtPc, JobAt, Job, RecordCheck
  <1>3. Goto(r, "write") /\ JobAt(r, "write")
    BY <1>2 DEF RecordCheck, JobAt
  <1> QED
    BY <1>1, <1>2, <1>3, ReadIInv

LEMMA AbortIInv == ASSUME IInv, NEW r \in Request, Abort(r) PROVE IInv'
  BY ReadIInv DEF Abort, Running, IInv, TypeOK, tables

LEMMA CreateIInv == ASSUME IInv, NEW r \in Request, Create(r) PROVE IInv'
  <1> DEFINE b == job[r].business
             business == [status |-> "draft", filled |-> Field \ {job[r].field}]
             founding == [broker |-> job[r].by, business |-> b, status |-> "active", ended_at |-> FALSE]
             founder == [business |-> b, removed |-> FALSE]
  <1>1. /\ job[r] \in Job /\ b \in Business /\ businesses[b] = NoRow
        /\ affiliations[r] = NoRow /\ principals[r] = NoRow /\ r \in Id
    BY DEF IInv, JobAtPc, JobAt, Job, RowsAreFresh, Running, Create, Exists, Id
  <1>2. business \in BusinessRow /\ founding \in Affiliation /\ founder \in Principal
    BY <1>1 DEF Job, BusinessRow, Status, Affiliation, Principal
  <1>3. business # NoRow /\ founding # NoRow /\ founder # NoRow
    BY <1>2, SentinelAssumption
  <1>4. founding.business = b /\ founder.business = b
    OBVIOUS
  <1>5. /\ Answer(r) /\ UNCHANGED <<checked, edits, leaves>>
        /\ businesses' = [businesses EXCEPT ![b] = business]
        /\ affiliations' = [affiliations EXCEPT ![r] = founding]
        /\ principals' = [principals EXCEPT ![r] = founder] \/ principals' = principals
    BY DEF Create
  <1> HIDE DEF b, business, founding, founder
  <1>6. /\ businesses' \in [Business -> BusinessRow \union {NoRow}]
        /\ affiliations' \in [Id -> Affiliation \union {NoRow}]
        /\ principals' \in [Id -> Principal \union {NoRow}]
        /\ edits' \in [Business -> Nat] /\ leaves' \in [Broker -> Nat]
    BY <1>2, <1>5 DEF IInv, TypeOK
  <1>7. pc'[r] = "answered"
    BY <1>5 DEF Answer, IInv, TypeOK
  <1>8. Kept
    BY <1>1, <1>3, <1>4, <1>5, <1>7
    DEF IInv, TypeOK, Kept, Exists, Current, AffiliationsHaveBusiness, Id
  <1> QED
    BY <1>5, <1>6, <1>8, WriteIInv

\* What an UPDATE of one business, or of one affiliation's standing, keeps.
LEMMA BusinessUpdate ==
  ASSUME IInv, NEW r \in Request, Answer(r), NEW b \in Business, Exists(b),
         NEW row \in BusinessRow, businesses' = [businesses EXCEPT ![b] = row],
         UNCHANGED <<affiliations, principals, checked, leaves>>,
         \/ edits' = edits /\ row.filled = businesses[b].filled
         \/ edits' = [edits EXCEPT ![b] = @ + 1]
  PROVE  IInv'
  <1>1. row # NoRow
    BY SentinelAssumption
  <1>2. /\ businesses' \in [Business -> BusinessRow \union {NoRow}]
        /\ edits' \in [Business -> Nat]
        /\ \A c \in Business : edits[c] \in Nat /\ edits[c] <= edits'[c]
        /\ edits'[b] = edits[b] => row.filled = businesses[b].filled
    BY DEF IInv, TypeOK
  <1>3. Kept
    BY <1>1, <1>2 DEF IInv, TypeOK, Kept, Exists, Current, AffiliationsHaveBusiness
  <1> QED
    BY <1>2, <1>3, WriteIInv DEF IInv, TypeOK

LEMMA AffiliationUpdate ==
  ASSUME IInv, NEW r \in Request, Answer(r), NEW i \in Id, affiliations[i] # NoRow,
         NEW row \in Affiliation, row.broker = affiliations[i].broker,
         row.business = affiliations[i].business,
         affiliations' = [affiliations EXCEPT ![i] = row],
         UNCHANGED <<businesses, principals, checked, edits>>,
         \/ UNCHANGED leaves /\ row.status = "active"
         \/ leaves' = [leaves EXCEPT ![row.broker] = @ + 1]
  PROVE  IInv'
  <1>1. row # NoRow
    BY SentinelAssumption
  <1>2. row.broker \in Broker
    BY DEF Affiliation
  <1>3. /\ leaves' \in [Broker -> Nat]
        /\ \A by \in Broker : leaves[by] <= leaves'[by]
        /\ row.status = "active" \/ leaves'[row.broker] # leaves[row.broker]
    BY <1>2 DEF IInv, TypeOK
  <1>4. affiliations' \in [Id -> Affiliation \union {NoRow}]
    BY DEF IInv, TypeOK
  <1>5. Kept
    BY <1>1, <1>3, <1>4 DEF IInv, TypeOK, Kept, Exists, Current, AffiliationsHaveBusiness, Id
  <1> QED
    BY <1>3, <1>4, <1>5, WriteIInv DEF IInv, TypeOK

LEMMA UnwrittenIInv ==
  ASSUME IInv, NEW r \in Request, Answer(r), Running(r),
         UNCHANGED tables
  PROVE  IInv'
  BY ReadIInv DEF IInv, TypeOK, tables

LEMMA WriteFieldsIInv == ASSUME IInv, NEW r \in Request, WriteFields(r) PROVE IInv'
  <1> DEFINE b == job[r].business
             filled == IF job[r].fill THEN businesses[b].filled \union {job[r].field}
                       ELSE businesses[b].filled \ {job[r].field}
  <1>1. Answer(r) /\ job[r] \in Job /\ b \in Business /\ Exists(b)
    BY DEF IInv, JobAtPc, JobAt, Job, Running, WriteFields
  <1>2. businesses[b] \in BusinessRow
    BY <1>1 DEF Exists, IInv, TypeOK
  <1>3. filled \subseteq Field
    BY <1>1, <1>2, FileAssumption DEF Job, BusinessRow
  <1>4. PICK row \in BusinessRow : row = [businesses[b] EXCEPT !.filled = filled]
    BY <1>2, <1>3 DEF BusinessRow
  <1>5. /\ businesses' = [businesses EXCEPT ![b] = row]
        /\ edits' = [edits EXCEPT ![b] = @ + 1]
        /\ UNCHANGED <<affiliations, principals, checked, leaves>>
    BY <1>4 DEF WriteFields
  <1> QED
    BY <1>1, <1>5, BusinessUpdate

LEMMA WritePrincipalIInv == ASSUME IInv, NEW r \in Request, WritePrincipal(r) PROVE IInv'
  <1> DEFINE b == job[r].business
             p == IF job[r].op = "add_principal" THEN r ELSE job[r].on
             row == [business |-> b, removed |-> job[r].op = "remove_principal"]
  <1>1. /\ Running(r) /\ Answer(r) /\ b \in Business /\ p \in Id
        /\ principals[r] = NoRow
    BY DEF IInv, JobAtPc, JobAt, Job, Running, WritePrincipal, RowsAreFresh, Gated, Id
  <1>2. row \in Principal /\ row # NoRow /\ row.business = b
    <2>1. row \in Principal
      BY <1>1 DEF Principal
    <2> QED
      BY <2>1, SentinelAssumption
  <1>3. CASE p = r \/ Current(p, b)
    <2>1. /\ principals' = [principals EXCEPT ![p] = row]
          /\ edits' = [edits EXCEPT ![b] = @ + 1]
          /\ UNCHANGED <<businesses, affiliations, checked, leaves>>
      BY <1>3 DEF WritePrincipal
    <2>2. p = r \/ (principals[p] # NoRow /\ principals[p].business = b)
      BY <1>3 DEF Current
    <2> HIDE DEF b, p, row
    <2>3. /\ principals' \in [Id -> Principal \union {NoRow}]
          /\ edits' \in [Business -> Nat]
          /\ \A c \in Business : edits[c] \in Nat /\ edits[c] <= edits'[c]
          /\ edits'[b] # edits[b]
      BY <1>1, <1>2, <2>1 DEF IInv, TypeOK
    <2>4. pc'[r] = "answered"
      BY <1>1 DEF Answer, IInv, TypeOK
    <2>5. \A c \in Business \ {b}, k \in Id : Current(k, c) => k # p \/ k = r
      BY <1>1, <2>2 DEF Current
    <2>6. ASSUME NEW c \in Business, NEW k \in Id, edits'[c] = edits[c], Current(k, c)
          PROVE  principals'[k] # NoRow /\ principals'[k].business = c /\ ~principals'[k].removed
      <3>1. c # b /\ (k # p \/ k = r)
        BY <2>3, <2>5, <2>6
      <3>2. k # p
        BY <1>1, <2>6, <3>1 DEF Current
      <3> QED
        BY <2>1, <2>6, <3>2 DEF Current, IInv, TypeOK
    <2>7. Kept
      <3>1. \A q \in Request : (pc'[q] # "answered" /\ principals'[q] # NoRow) => principals[q] # NoRow
        BY <1>1, <2>1, <2>2, <2>4 DEF IInv, TypeOK
      <3> QED
        BY <2>1, <2>3, <2>6, <3>1 DEF Kept, Exists, IInv, TypeOK, AffiliationsHaveBusiness
    <2> QED
      BY <1>1, <2>1, <2>3, <2>7, WriteIInv DEF IInv, TypeOK
  <1>4. CASE ~(p = r \/ Current(p, b))
    BY <1>1, <1>4, UnwrittenIInv DEF WritePrincipal, tables
  <1> QED
    BY <1>3, <1>4

LEMMA SubmitIInv == ASSUME IInv, NEW r \in Request, Submit(r) PROVE IInv'
  <1> DEFINE b == job[r].business
  <1>1. /\ Answer(r) /\ b \in Business /\ Exists(b)
        /\ UNCHANGED <<affiliations, principals, checked, edits, leaves>>
    BY DEF IInv, JobAtPc, JobAt, Job, Running, Submit
  <1>2. businesses[b] \in BusinessRow
    BY <1>1 DEF Exists, IInv, TypeOK
  <1>3. PICK row \in BusinessRow : row = [businesses[b] EXCEPT !.status = "submitted"]
    BY <1>2 DEF BusinessRow, Status
  <1>4. businesses' = [businesses EXCEPT ![b] = row] /\ row.filled = businesses[b].filled
    BY <1>2, <1>3 DEF Submit, BusinessRow
  <1> QED
    BY <1>1, <1>4, BusinessUpdate

LEMMA StartVerificationIInv == ASSUME IInv, NEW r \in Request, StartVerification(r) PROVE IInv'
  <1> DEFINE b == job[r].business
  <1>1. /\ Answer(r) /\ b \in Business /\ Exists(b)
        /\ UNCHANGED <<affiliations, principals, checked, edits, leaves>>
    BY DEF IInv, JobAtPc, JobAt, Job, Running, StartVerification
  <1>2. businesses[b] \in BusinessRow
    BY <1>1 DEF Exists, IInv, TypeOK
  <1>3. PICK row \in BusinessRow : row = [businesses[b] EXCEPT !.status = "in_verification"]
    BY <1>2 DEF BusinessRow, Status
  <1>4. businesses' = [businesses EXCEPT ![b] = row] /\ row.filled = businesses[b].filled
    BY <1>2, <1>3 DEF StartVerification, BusinessRow
  <1> QED
    BY <1>1, <1>4, BusinessUpdate

LEMMA DecideIInv == ASSUME IInv, NEW b \in Business, Decide(b) PROVE IInv'
  <1>1. Exists(b) /\ businesses[b] \in BusinessRow
    BY DEF Decide, HasActiveAffiliation, IInv, AffiliationsHaveBusiness, Exists, TypeOK
  <1>2. PICK s \in {"verified", "attention_required"} : businesses' = [businesses EXCEPT ![b].status = s]
    BY DEF Decide
  <1>3. PICK row \in BusinessRow : row = [businesses[b] EXCEPT !.status = s]
    BY <1>1 DEF BusinessRow, Status
  <1>4. /\ row # NoRow /\ row.filled = businesses[b].filled
        /\ businesses' = [businesses EXCEPT ![b] = row]
    BY <1>1, <1>2, <1>3, SentinelAssumption DEF BusinessRow
  <1>5. UNCHANGED <<affiliations, principals, checked, edits, leaves, pc, job>>
    BY DEF Decide
  <1>6. TypeOK'
    BY <1>4, <1>5 DEF IInv, TypeOK
  <1>7. Kept
    BY <1>4, <1>5 DEF IInv, TypeOK, Kept, Exists, Current, AffiliationsHaveBusiness
  <1>8. \A q \in Request : pc'[q] \notin {"idle", "answered"} => job'[q] = job[q] /\ JobAt(q, pc'[q])
    BY <1>5 DEF IInv, JobAtPc, Running
  <1> QED
    BY <1>5, <1>6, <1>7, <1>8, StepIInv

LEMMA InsertPendingIInv == ASSUME IInv, NEW r \in Request, InsertPending(r) PROVE IInv'
  <1> DEFINE row == [broker |-> job[r].by, business |-> job[r].business,
                     status |-> "pending_confirmation", ended_at |-> FALSE]
  <1>1. /\ Answer(r) /\ affiliations' = [affiliations EXCEPT ![r] = row]
        /\ UNCHANGED <<businesses, principals, checked, edits, leaves>>
    BY DEF InsertPending
  <1>2. /\ job[r] \in Job /\ Exists(job[r].business) /\ affiliations[r] = NoRow /\ r \in Id
    BY DEF IInv, JobAtPc, JobAt, Running, RowsAreFresh, InsertPending, Id
  <1>3. row \in Affiliation /\ row # NoRow /\ row.business = job[r].business
    <2>1. row \in Affiliation
      BY <1>2 DEF Job, Affiliation
    <2> QED
      BY <2>1, SentinelAssumption
  <1> HIDE DEF row
  <1>4. affiliations' \in [Id -> Affiliation \union {NoRow}]
    BY <1>1, <1>3 DEF IInv, TypeOK
  <1>5. pc'[r] = "answered"
    BY <1>1 DEF Answer, IInv, TypeOK
  <1>6. Kept
    BY <1>1, <1>2, <1>3, <1>5
    DEF IInv, TypeOK, Kept, Exists, Current, AffiliationsHaveBusiness, Id
  <1> QED
    BY <1>1, <1>4, <1>6, WriteIInv DEF IInv, TypeOK

LEMMA ConfirmIInv == ASSUME IInv, NEW r \in Request, Confirm(r) PROVE IInv'
  <1> DEFINE i == job[r].on
  <1>1. /\ Answer(r) /\ i \in Id /\ affiliations[i] # NoRow
        /\ UNCHANGED <<businesses, principals, checked, edits, leaves>>
    BY DEF IInv, JobAtPc, JobAt, Running, Confirm, Named
  <1>2. affiliations[i] \in Affiliation
    BY <1>1 DEF IInv, TypeOK
  <1>3. PICK row \in Affiliation : row = [affiliations[i] EXCEPT !.status = "active"]
    BY <1>2 DEF Affiliation
  <1>4. /\ affiliations' = [affiliations EXCEPT ![i] = row] /\ row.status = "active"
        /\ row.broker = affiliations[i].broker /\ row.business = affiliations[i].business
    BY <1>2, <1>3 DEF Confirm, Affiliation
  <1> QED
    BY <1>1, <1>4, AffiliationUpdate

LEMMA EndIInv == ASSUME IInv, NEW r \in Request, End(r) PROVE IInv'
  <1> DEFINE i == job[r].on
  <1>1. /\ Running(r) /\ Answer(r) /\ i \in Id
        /\ UNCHANGED <<businesses, principals, checked, edits>>
    BY DEF IInv, JobAtPc, JobAt, Running, End
  <1>2. CASE affiliations[i].broker = job[r].by /\ Open(i)
    <2>1. affiliations[i] \in Affiliation /\ affiliations[i] # NoRow
      BY <1>1, <1>2 DEF IInv, TypeOK, Open
    <2>2. PICK row \in Affiliation : row = [affiliations[i] EXCEPT !.status = "ended", !.ended_at = TRUE]
      BY <2>1 DEF Affiliation
    <2>3. row.broker = affiliations[i].broker /\ row.business = affiliations[i].business
      BY <2>1, <2>2 DEF Affiliation
    <2>4. /\ affiliations' = [affiliations EXCEPT ![i] = row]
          /\ leaves' = [leaves EXCEPT ![row.broker] = @ + 1]
      BY <1>1, <1>2, <2>2, <2>3 DEF End, IInv, TypeOK
    <2> QED
      BY <1>1, <2>1, <2>3, <2>4, AffiliationUpdate
  <1>3. CASE ~(affiliations[i].broker = job[r].by /\ Open(i))
    BY <1>1, <1>3, UnwrittenIInv DEF End, tables
  <1> QED
    BY <1>2, <1>3

\* The row read while it is judged is the one named, as it may be written.
LEMMA MayWriteStood ==
  ASSUME IInv, NEW r \in Request, pc[r] = "write", job[r].op = "confirm", MayWrite(r)
  PROVE  HasActiveAffiliation(job[r].by, job[r].business)
  <1>1. Named(r)
    BY DEF IInv, JobAtPc, JobAt, Running
  <1> QED
    BY <1>1 DEF MayWrite, MayWriteAffiliation, SeesAffiliation, Named

LEMMA StartWriteIInv == ASSUME IInv, NEW r \in Request, StartWrite(r) PROVE IInv'
  <1> DEFINE j == [job[r] EXCEPT !.leaves = leaves[job[r].by]]
  <1>1. JobAt(r, "write") /\ Running(r) /\ UNCHANGED tables
    BY DEF IInv, JobAtPc, Running, StartWrite
  <1>2. CASE ~MayWrite(r)
    BY <1>1, <1>2, UnwrittenIInv DEF StartWrite
  <1>3. CASE MayWrite(r)
    <2>1. /\ job[r] \in Job /\ j \in Job /\ j.leaves = leaves[job[r].by] /\ j.leaves \in Nat
          /\ j.op = job[r].op /\ j.by = job[r].by /\ j.business = job[r].business
          /\ j.on = job[r].on /\ j.edits = job[r].edits
      BY <1>1 DEF JobAt, Job, IInv, TypeOK
    <2>2. /\ pc' = [pc EXCEPT ![r] = "commit"] /\ job' = [job EXCEPT ![r] = j]
          /\ businesses' = businesses /\ affiliations' = affiliations
          /\ principals' = principals /\ checked' = checked /\ edits' = edits /\ leaves' = leaves
      BY <1>1, <1>3 DEF StartWrite, tables
    <2> HIDE DEF j
    <2>3. TypeOK'
      BY <2>1, <2>2 DEF IInv, TypeOK, Step
    <2>4. pc'[r] = "commit" /\ job'[r] = j
      BY <2>2 DEF IInv, TypeOK
    <2>5. job[r].op = "confirm" => Named(r)' /\ Stood(r)'
      BY <1>1, <1>3, <2>1, <2>2, <2>4, MayWriteStood
      DEF StartWrite, JobAt, Named, Stood, HasActiveAffiliation
    <2>6. JobAt(r, "commit")'
      BY <1>1, <2>1, <2>2, <2>4, <2>5
      DEF JobAt, Exists, Complete, FieldsOutstanding, PrincipalOutstanding, Current, Required
    <2>7. ASSUME NEW q \in Request \ {r}, Running(q)' PROVE JobAt(q, pc[q])'
      <3>1. pc'[q] = pc[q] /\ job'[q] = job[q] /\ JobAt(q, pc[q])
        BY <2>2, <2>7 DEF IInv, TypeOK, JobAtPc, Running
      <3> QED
        BY <2>2, <3>1 DEF JobAt, Exists, Complete, FieldsOutstanding, PrincipalOutstanding, Current,
                          Required, Named, Stood, HasActiveAffiliation
    <2>8. JobAtPc'
      BY <2>4, <2>6, <2>7 DEF JobAtPc
    <2>9. RowsAreFresh' /\ AffiliationsHaveBusiness'
      BY <2>2 DEF IInv, RowsAreFresh, AffiliationsHaveBusiness, Exists, TypeOK, StartWrite
    <2> QED
      BY <2>3, <2>8, <2>9 DEF IInv
  <1> QED
    BY <1>2, <1>3

LEMMA BeginIInv ==
  ASSUME IInv, NEW r \in Request, NEW op \in Op, NEW by \in Broker, NEW b \in Business,
         NEW on \in Id \union {NoRow}, NEW field \in Edited, NEW fill \in BOOLEAN,
         Begin(r, op, by, b, on, field, fill)
  PROVE  IInv'
  <1> DEFINE j == [op |-> op, by |-> by, business |-> b, on |-> on, field |-> field,
                   fill |-> fill, edits |-> edits[b], leaves |-> 0]
             where == FirstStep[op]
  <1>1. /\ j \in Job
        /\ j.op = op /\ j.by = by /\ j.business = b /\ j.on = on /\ j.edits = edits[b]
        /\ pc[r] = "idle" /\ pc' = [pc EXCEPT ![r] = where] /\ job' = [job EXCEPT ![r] = j]
        /\ UNCHANGED tables
        /\ Exists(b) <=> op # "create"
        /\ op \in {"confirm", "end", "update_principal", "remove_principal"} => on \in Id
    BY DEF Begin, Job, IInv, TypeOK, tables
  <1>2. /\ where \in Step
        /\ where \notin {"idle", "answered", "fields", "principals", "target", "running", "record",
                        "write", "commit"}
        /\ where = "look" => op = "verify"
        /\ where = "create" <=> op = "create"
        /\ where = "check" => op \in Gated
        /\ where = "mine" => op = "confirm"
        /\ where = "end" => op = "end"
    BY DEF FirstStep, Op, Gated, Step
  <1> HIDE DEF j, where
  <1>3. TypeOK'
    BY <1>1, <1>2 DEF IInv, TypeOK, tables
  <1>4. JobAt(r, where)'
    BY <1>1, <1>2, <1>3 DEF tables, JobAt, Exists, Job, TypeOK, IInv
  <1>5. ASSUME NEW q \in Request \ {r}, Running(q)' PROVE JobAt(q, pc[q])'
    <2>1. pc'[q] = pc[q] /\ job'[q] = job[q] /\ JobAt(q, pc[q])
      BY <1>1, <1>5 DEF IInv, TypeOK, JobAtPc, Running
    <2> QED
      BY <1>1, <2>1 DEF tables, JobAt, Exists, Complete, FieldsOutstanding, PrincipalOutstanding, Current,
                        Required, Named, Stood, HasActiveAffiliation
  <1>6. JobAtPc'
    BY <1>1, <1>4, <1>5 DEF JobAtPc, IInv, TypeOK
  <1>7. RowsAreFresh' /\ AffiliationsHaveBusiness'
    BY <1>1 DEF IInv, TypeOK, RowsAreFresh, AffiliationsHaveBusiness, Exists, tables
  <1> QED
    BY <1>3, <1>6, <1>7 DEF IInv

LEMMA StutterIInv == ASSUME IInv, UNCHANGED vars PROVE IInv'
  BY DEF IInv, vars, TypeOK, JobAtPc, JobAt, Running, RowsAreFresh, AffiliationsHaveBusiness,
         Exists, Complete, FieldsOutstanding, PrincipalOutstanding, Current, Required, Named, Stood,
         HasActiveAffiliation

LEMMA NextIInv == ASSUME IInv, [Next]_vars PROVE IInv'
  <1>1. ASSUME NEW r \in Request, NEW op \in Op, NEW by \in Broker, NEW b \in Business,
               NEW on \in Id \union {NoRow}, NEW field \in Edited, NEW fill \in BOOLEAN,
               Begin(r, op, by, b, on, field, fill)
        PROVE  IInv'
    BY <1>1, BeginIInv
  <1>2. ASSUME NEW r \in Request, Statement(r) PROVE IInv'
    BY <1>2, CreateIInv, CheckEditableIInv, StartWriteIInv, WriteFieldsIInv, WritePrincipalIInv, ReadFieldsIInv,
       ReadPrincipalsIInv, SubmitIInv, CheckAffiliatableIInv, CheckNotAffiliatedIInv,
       InsertPendingIInv, CheckMineIInv, CheckTargetIInv, ConfirmIInv, EndIInv, LookUpIInv,
       CheckNotRunningIInv, RecordCheckIInv, StartVerificationIInv
    DEF Statement
  <1>3. ASSUME NEW r \in Request, Abort(r) PROVE IInv'
    BY <1>3, AbortIInv
  <1>4. ASSUME NEW b \in Business, Decide(b) PROVE IInv'
    BY <1>4, DecideIInv
  <1>5. CASE UNCHANGED vars
    BY <1>5, StutterIInv
  <1> QED
    BY <1>1, <1>2, <1>3, <1>4, <1>5 DEF Next, Served

\* The strengthening holds in every reachable state.
THEOREM Invariance == Spec => []IInv
  <1>1. Init => IInv
    BY InitIInv
  <1>2. IInv /\ [Next]_vars => IInv'
    BY NextIInv
  <1> QED
    BY <1>1, <1>2, PTL DEF Spec

(***************************************************************************)
(* The properties.                                                         *)
(***************************************************************************)

\* Every variable keeps its type; in particular no UPDATE reaches a business that is not there.
THEOREM TypeCorrect == Spec => []TypeOK
  <1>1. IInv => TypeOK
    BY DEF IInv
  <1> QED
    BY <1>1, Invariance, PTL

Vouches(r, i) == /\ pc[r] = "commit" /\ pc'[r] = "answered"
                 /\ job[r].by # affiliations[i].broker
                 /\ \/ HasActiveAffiliation(job[r].by, affiliations[i].business)
                    \/ leaves[job[r].by] # job[r].leaves

Vouched(i) == \E r \in Request : Vouches(r, i)

Joins(i) == /\ affiliations[i] # NoRow /\ affiliations[i].status # "active"
            /\ affiliations'[i].status = "active"

LEMMA ConfirmVouched ==
  ASSUME IInv, NEW r \in Request, Confirm(r), NEW i \in Id, Joins(i) PROVE Vouched(i)
  <1>1. Named(r) /\ Stood(r) /\ job[r].on \in Id /\ pc[r] = "commit"
    BY DEF IInv, JobAtPc, JobAt, Running, Confirm
  <1>2. i = job[r].on
    BY <1>1 DEF Confirm, Joins, IInv, TypeOK
  <1>3. pc'[r] = "answered"
    BY DEF Confirm, Answer, IInv, TypeOK
  <1>4. Vouches(r, i)
    BY <1>1, <1>2, <1>3 DEF Vouches, Named, Stood
  <1> QED
    BY <1>4 DEF Vouched

LEMMA NobodyElseJoins ==
  ASSUME IInv, NEW r \in Request, Create(r) \/ InsertPending(r) \/ End(r), NEW i \in Id
  PROVE  ~Joins(i)
  <1>1. CASE Create(r) \/ InsertPending(r)
    <2>1. affiliations[r] = NoRow
      BY <1>1 DEF IInv, RowsAreFresh, Create, InsertPending
    <2>2. i # r => affiliations'[i] = affiliations[i]
      BY <1>1 DEF Create, InsertPending, IInv, TypeOK
    <2> QED
      BY <2>1, <2>2 DEF Joins
  <1>2. CASE End(r)
    <2>1. i # job[r].on => affiliations'[i] = affiliations[i]
      BY <1>2 DEF End, IInv, TypeOK
    <2>2. \/ affiliations' = affiliations
          \/ affiliations[job[r].on] \in Affiliation
             /\ affiliations' = [affiliations EXCEPT ![job[r].on].status = "ended",
                                                     ![job[r].on].ended_at = TRUE]
      BY <1>2 DEF End, IInv, TypeOK, JobAtPc, JobAt, Running, Open
    <2>3. i = job[r].on => affiliations' = affiliations \/ affiliations'[i].status = "ended"
      BY <2>2 DEF Affiliation, IInv, TypeOK
    <2> QED
      BY <2>1, <2>3 DEF Joins
  <1> QED
    BY <1>1, <1>2

\* Whoever becomes affiliated with a business he did not found is confirmed by another broker
\* who was affiliated when the confirming UPDATE began, and at its COMMIT still is or has left
\* in between, however the calls overlap.
THEOREM JoinsVouched == Spec => JoinsAreVouchedFor
  <1>1. ASSUME IInv, [Next]_vars, NEW i \in Id, Joins(i) PROVE Vouched(i)
    <2>1. ASSUME NEW r \in Request, Statement(r) PROVE Vouched(i)
      <3>1. CASE Confirm(r)
        BY <1>1, <3>1, ConfirmVouched
      <3>2. CASE Create(r) \/ InsertPending(r) \/ End(r)
        BY <1>1, <3>2, NobodyElseJoins
      <3>3. CASE UNCHANGED affiliations
        BY <1>1, <3>3 DEF Joins
      <3> QED
        BY <2>1, <3>1, <3>2, <3>3
        DEF Statement, tables, CheckEditable, StartWrite, WriteFields, WritePrincipal, ReadFields, ReadPrincipals,
            Submit, CheckAffiliatable, CheckNotAffiliated, CheckMine, CheckTarget, LookUp,
            CheckNotRunning, RecordCheck, StartVerification
    <2>2. UNCHANGED affiliations => Vouched(i)
      BY <1>1 DEF Joins
    <2> QED
      BY <1>1, <2>1, <2>2 DEF Next, Begin, Abort, Decide, Served, vars, tables
  <1>2. IInv /\ [Next]_vars =>
          [\A i \in Id :
             (affiliations[i] # NoRow /\ affiliations[i].status # "active"
                /\ affiliations'[i].status = "active") =>
                  \E r \in Request :
                    /\ pc[r] = "commit" /\ pc'[r] = "answered"
                    /\ job[r].by # affiliations[i].broker
                    /\ \/ HasActiveAffiliation(job[r].by, affiliations[i].business)
                       \/ leaves[job[r].by] # job[r].leaves]_vars
    BY <1>1 DEF Joins, Vouched, Vouches
  <1> QED
    BY <1>2, Invariance, PTL DEF Spec, JoinsAreVouchedFor

\* A submission that nobody edited under is of a complete business.
THEOREM SubmittedComplete == Spec => IncompleteOnlyByOverlap
  <1>1. ASSUME IInv, NEW r \in Request, pc[r] = "commit", job[r].op = "submit"
        PROVE  Complete(job[r].business) \/ edits[job[r].business] # job[r].edits
    BY <1>1 DEF IInv, JobAtPc, JobAt, Running
  <1>2. IInv /\ [Next]_vars =>
          [\A r \in Request : (pc[r] = "commit" /\ job[r].op = "submit" /\ pc'[r] # pc[r]) =>
             LET b == job[r].business IN
             (businesses'[b].status = "submitted" /\ businesses[b].status # "submitted") =>
                Complete(b) \/ edits[b] # job[r].edits]_vars
    BY <1>1
  <1> QED
    BY <1>2, Invariance, PTL DEF Spec, IncompleteOnlyByOverlap
=============================================================================
