------------------------ MODULE AccreditationProofs ------------------------
(***************************************************************************)
(* What holds of Accreditation for every set of calls, rows, scopes,       *)
(* businesses and users, and every legal history on file.                  *)
(***************************************************************************)
EXTENDS Accreditation, WellFoundedInduction, TLAPS

(***************************************************************************)
(* The inductive invariant.                                                *)
(***************************************************************************)
Asking == {"affiliation", "relationship", "insert"}

\* Where a call is agrees with what it was asked to do.
JobAtPc ==
  \A r \in Request :
    /\ pc[r] = "idle" <=> job[r] = NoJob
    /\ pc[r] # "idle" => /\ job[r].op \in Decisions \union {"request"} => job[r].on \in Id
                         /\ job[r].op = "end" => job[r].on \in Business
    /\ pc[r] \in Asking => job[r].op = "request"
    /\ pc[r] \in {"check", "update"} => job[r].op \in Decisions
    /\ pc[r] = "mint" => job[r].op = "activate"
    /\ pc[r] = "leave" => job[r].op = "end"
    /\ pc[r] \in {"sweep", "locking"} => job[r].op \in Sweeps

\* An id is generated once, and never that of a row on file, which exists.
RequestsAreFresh ==
  /\ \A i \in Id : History[i] # <<>> => Exists(i)
  /\ \A r, q \in Request :
       /\ pc[r] # "idle" /\ pc[q] # "idle"
       /\ job[r].op = "request" /\ job[q].op = "request"
       /\ job[r].on = job[q].on
       => r = q
  /\ \A r \in Request : pc[r] # "idle" /\ job[r].op = "request" => History[job[r].on] = <<>>
  /\ \A r \in Request : pc[r] \in Asking => ~Exists(job[r].on)

\* A decision that is about to write, or has written, is about a row that exists.
FoundOrWritten ==
  \A r \in Request :
    /\ pc[r] = "update" => Exists(job[r].on)
    /\ pc[r] \in {"mint", "written"} /\ job[r].op \in Decisions => Wrote(r, job[r].on)

\* One uncommitted version of a row at a time, made of the version committed now; a sweep's
\* condition still holds of each row it has written.
DraftIsCurrent ==
  /\ \A r, q \in Request, i \in Id : Wrote(r, i) /\ Wrote(q, i) => r = q
  /\ \A r \in Request, i \in Id : Wrote(r, i) =>
       /\ pc[r] \in {"mint", "locking", "written"}
       /\ job[r].op \notin Sweeps => i = job[r].on
       /\ IF job[r].op = "request" THEN ~Exists(i) /\ draft[r][i] = Requested
          ELSE Exists(i) /\ draft[r][i] = Written(job[r].op, accreditations[i])
       /\ job[r].op \in Sweeps => Matches(job[r], i)

\* Whoever has written a live row owns its scope.
KeysApart ==
  \A r \in Request, i \in Id : Live(draft[r][i]) =>
    \A k \in Rivals(i) : ~Live(accreditations[k]) /\ \A q \in Request : ~Live(draft[q][k])

\* One uncommitted platform id at a time, and it is the committed one if there is one.
MintIsCurrent ==
  /\ \A r, q \in Request : minted[r] # NoPlatformId /\ minted[q] # NoPlatformId => r = q
  /\ \A r \in Request : minted[r] # NoPlatformId =>
       pc[r] = "written" /\ (platformId # NoPlatformId => minted[r] = platformId)
  /\ \A r \in Request : pc[r] = "written" /\ job[r].op = "activate" => minted[r] # NoPlatformId

Recorded(i, op) == \E n \in DOMAIN log[i] : log[i][n] = op

Approved(i) == /\ Exists(i) /\ Recorded(i, "approve")
               /\ {"decided_at", "training_deadline_at"} \subseteq accreditations[i].stamped

InForce(row) == row.status \in {"pending", "lapsed", "active"} \/ "activated_at" \in row.stamped

ApprovalHeld ==
  /\ \A i \in Id : Exists(i) /\ InForce(accreditations[i]) => Approved(i)
  /\ \A r \in Request :
       pc[r] \in {"update", "mint", "written"} /\ job[r].op = "activate" => Approved(job[r].on)

EscalatedOnFile(i) == \E n \in DOMAIN History[i] : History[i][n] = "escalate"

EscalationHeld ==
  /\ \A i \in Id : Escalated(i) => Exists(i) /\ accreditations[i].step = "senior_approver"
  /\ \A r \in Request :
       pc[r] # "idle" /\ job[r].escalated => job[r].on \in Id /\ Escalated(job[r].on)
  /\ \A r \in Request :
       pc[r] \in {"update", "written"} /\ job[r].op \in {"approve", "decline"}
         /\ job[r].escalated => job[r].by \in Senior

\* While an affiliation is being left nobody else leaves it; the rows the flag's snapshot saw
\* are not flagged by anybody else, and each is still to be locked, written or declined.
FlagHeld ==
  /\ \A r, q \in Request, b \in Business : Leaving(r, b) /\ Leaving(q, b) => r = q
  /\ \A i \in Id : Exists(i) /\ accreditations[i].status = "declined" => Recorded(i, "decline")
  /\ \A r \in Request :
       /\ todo[r] \subseteq seen[r]
       /\ seen[r] # {} => pc[r] \in {"locking", "written"}
       /\ pc[r] = "written" => todo[r] = {}
       /\ job[r] # NoJob /\ job[r].op = "end" =>
            \A i \in seen[r] :
              /\ Exists(i) /\ BusinessOf[i] = job[r].on
              /\ accreditations[i].status # "party_changed_pending"
              /\ i \in todo[r] \/ Wrote(r, i) \/ Recorded(i, "decline")

IInv == /\ TypeOK /\ JobAtPc /\ RequestsAreFresh /\ FoundOrWritten /\ DraftIsCurrent
        /\ KeysApart /\ OneLivePerScope /\ MintIsCurrent
        /\ ApprovalHeld /\ EscalationHeld /\ FlagHeld

(***************************************************************************)
(* Row versions.                                                           *)
(***************************************************************************)

LEMMA RequestedIsRow == Requested \in Row
  BY DEF Requested, Row, Status, Step

\* What the SET clauses keep, and what they write.
LEMMA WrittenFacts ==
  ASSUME NEW op \in Decisions \union Sweeps, NEW row \in Row
  PROVE  /\ Written(op, row) \in Row
         /\ row.stamped \subseteq Written(op, row).stamped
         /\ row.step = "senior_approver" \/ op = "escalate" =>
              Written(op, row).step = "senior_approver"
         /\ Written(op, row).status = "declined" => op = "decline" \/ row.status = "declined"
         /\ Written(op, row).status = "party_changed_pending" =>
              op = "end" \/ row.status = "party_changed_pending"
         /\ op = "end" => Written(op, row).status = "party_changed_pending"
         /\ op = "lapse" => Written(op, row).status = "lapsed"
         /\ op = "approve" =>
              {"decided_at", "training_deadline_at"} \subseteq Written(op, row).stamped
         /\ InForce(Written(op, row)) =>
              op \in {"approve", "activate", "lapse"} \/ InForce(row)
  <1>1. op \in {"requestInformation", "escalate", "approve", "decline", "interview", "activate",
                "end", "lapse"}
    BY DEF Decisions, Sweeps
  <1>2. CASE op = "interview"
    BY <1>2 DEF Written, Stamps, Row, Column, InForce
  <1>3. CASE op = "requestInformation"
    BY <1>3 DEF Written, StatusAfter, Stamps, Row, Status, Step, Column, InForce
  <1>4. CASE op = "escalate"
    BY <1>4 DEF Written, StatusAfter, Stamps, Row, Status, Step, Column, InForce
  <1>5. CASE op = "approve"
    BY <1>5 DEF Written, StatusAfter, Stamps, Row, Status, Step, Column, InForce
  <1>6. CASE op = "decline"
    BY <1>6 DEF Written, StatusAfter, Stamps, Row, Status, Step, Column, InForce
  <1>7. CASE op = "activate"
    BY <1>7 DEF Written, StatusAfter, Stamps, Row, Status, Step, Column, InForce
  <1>8. CASE op = "end"
    BY <1>8 DEF Written, StatusAfter, Stamps, Row, Status, Step, Column, InForce
  <1>9. CASE op = "lapse"
    BY <1>9 DEF Written, StatusAfter, Stamps, Row, Status, Step, Column, InForce
  <1> QED
    BY <1>1, <1>2, <1>3, <1>4, <1>5, <1>6, <1>7, <1>8, <1>9

\* The row a history on file has left agrees with that history.
LEMMA OnFileFacts ==
  ASSUME NEW i \in Id
  PROVE  /\ OnFile(History[i]) \in Row \union {NoRow}
         /\ OnFile(History[i]) = NoRow <=> History[i] = <<>>
         /\ History[i] \in Seq(Op)
         /\ OnFile(History[i]) # NoRow =>
              /\ OnFile(History[i]).status # "declined"
              /\ InForce(OnFile(History[i])) =>
                   /\ \E n \in DOMAIN History[i] : History[i][n] = "approve"
                   /\ {"decided_at", "training_deadline_at"} \subseteq OnFile(History[i]).stamped
         /\ EscalatedOnFile(i) =>
              OnFile(History[i]) # NoRow /\ OnFile(History[i]).step = "senior_approver"
  <1>1. History[i] \in HistoryOnFile
    BY HistoryAssumption
  <1>2. CASE History[i] = <<>>
    BY <1>2 DEF OnFile, EscalatedOnFile
  <1>3. CASE History[i] = <<"request">>
    BY <1>3, RequestedIsRow, SentinelAssumption DEF OnFile, EscalatedOnFile, Requested, InForce, Op
  <1>4. CASE History[i] = <<"request", "escalate">>
    <2>1. OnFile(History[i]) = Written("escalate", Requested)
      BY <1>4 DEF OnFile
    <2>2. Written("escalate", Requested) \in Row
      BY RequestedIsRow, WrittenFacts DEF Decisions
    <2> QED
      BY <1>4, <2>1, <2>2, SentinelAssumption
         DEF Written, StatusAfter, Stamps, Requested, InForce, Op, Decisions
  <1>5. CASE History[i] = <<"request", "approve">>
    <2>1. OnFile(History[i]) = Written("approve", Requested)
      BY <1>5 DEF OnFile
    <2>2. Written("approve", Requested) \in Row
      BY RequestedIsRow, WrittenFacts DEF Decisions
    <2>3. History[i][2] = "approve" /\ 2 \in DOMAIN History[i]
      BY <1>5
    <2>4. ~EscalatedOnFile(i)
      BY <1>5 DEF EscalatedOnFile
    <2> QED
      BY <1>5, <2>1, <2>2, <2>3, <2>4, SentinelAssumption
         DEF Written, StatusAfter, Stamps, Requested, Op, Decisions
  <1> QED
    BY <1>1, <1>2, <1>3, <1>4, <1>5 DEF HistoryOnFile

(***************************************************************************)
(* Induction.                                                              *)
(***************************************************************************)

LEMMA InitIInv == Init => IInv
  <1> SUFFICES ASSUME Init PROVE IInv
    OBVIOUS
  <1>1. \A r \in Request : /\ pc[r] = "idle" /\ job[r] = NoJob /\ minted[r] = NoPlatformId
                          /\ draft[r] = Nothing /\ seen[r] = {} /\ todo[r] = {}
    BY DEF Init
  <1>2. \A i \in Id : accreditations[i] = OnFile(History[i]) /\ log[i] = History[i]
    BY DEF Init
  <1>3. \A r \in Request, i \in Id : draft[r][i] = NoRow
    BY <1>1 DEF Nothing
  <1>4. TypeOK
    <2>1. /\ accreditations \in [Id -> Row \union {NoRow}]
          /\ log \in [Id -> Seq(Op)]
      <3>1. accreditations = [i \in Id |-> OnFile(History[i])] /\ log = History
        BY DEF Init
      <3>2. \A i \in Id : OnFile(History[i]) \in Row \union {NoRow} /\ History[i] \in Seq(Op)
        BY OnFileFacts
      <3> QED
        BY <3>1, <3>2, HistoryAssumption
    <2>2. draft \in [Request -> [Id -> Row \union {NoRow}]]
      BY DEF Init, Nothing
    <2> QED
      BY <2>1, <2>2 DEF Init, TypeOK
  <1>5. JobAtPc /\ RequestsAreFresh /\ FoundOrWritten /\ DraftIsCurrent /\ MintIsCurrent
    BY <1>1, <1>2, <1>3, OnFileFacts
       DEF JobAtPc, RequestsAreFresh, FoundOrWritten, DraftIsCurrent, MintIsCurrent, Asking, Wrote, Exists
  <1>6. KeysApart
    BY <1>3 DEF KeysApart, Live
  <1>7. OneLivePerScope
    BY <1>2, OnFileFacts, HistoryAssumption DEF OneLivePerScope, Live
  <1>8. ApprovalHeld
    BY <1>1, <1>2, OnFileFacts DEF ApprovalHeld, Approved, Recorded, Exists
  <1>9. EscalationHeld
    BY <1>1, <1>2, OnFileFacts DEF EscalationHeld, Escalated, EscalatedOnFile, Exists
  <1>10. FlagHeld
    BY <1>1, <1>2, OnFileFacts DEF FlagHeld, Leaving, Exists
  <1> QED
    BY <1>4, <1>5, <1>6, <1>7, <1>8, <1>9, <1>10 DEF IInv

\* A step that only moves r from one statement to the next, or ends a call that wrote nothing.
LEMMA MoveIInv ==
  ASSUME IInv, NEW r \in Request, NEW where \in {"relationship", "insert", "update", "sweep", "refused", "aborted"},
         Goto(r, where), UNCHANGED <<database, job, draft, minted, seen, todo>>,
         pc[r] \in {"affiliation", "relationship", "insert", "check", "update", "leave"},
         where \in {"relationship", "insert"} => pc[r] \in {"affiliation", "relationship"},
         where = "sweep" => /\ pc[r] = "leave"
                            /\ \A q \in Request \ {r} : ~Leaving(q, job[r].on),
         where = "update" => /\ pc[r] = "check"
                             /\ Exists(job[r].on)
                             /\ accreditations[job[r].on].status \in AllowedFrom[job[r].op]
                             /\ CanDecide(job[r], accreditations[job[r].on])
  PROVE  IInv'
  <1> USE DEF IInv
  <1>1. /\ pc' = [pc EXCEPT ![r] = where] /\ pc \in [Request -> {"idle"} \union InFlight \union Finished]
        /\ UNCHANGED <<accreditations, affiliation, linked, overdue, platformId, log>>
        /\ UNCHANGED <<job, draft, minted, seen, todo>>
    BY DEF Goto, TypeOK, database
  <1>2. pc'[r] = where /\ \A q \in Request \ {r} : pc'[q] = pc[q]
    BY <1>1
  <1>3. TypeOK'
    BY <1>1 DEF TypeOK, InFlight, Finished
  <1>4. JobAtPc'
    BY <1>1, <1>2 DEF JobAtPc, Asking, Sweeps
  <1>5. RequestsAreFresh'
    BY <1>1, <1>2 DEF RequestsAreFresh, Asking, Exists
  <1>6. FoundOrWritten'
    BY <1>1, <1>2 DEF FoundOrWritten, Wrote, Exists
  <1>7. DraftIsCurrent'
    BY <1>1, <1>2 DEF DraftIsCurrent, Wrote, Exists, Matches
  <1>8. KeysApart' /\ OneLivePerScope'
    BY <1>1 DEF KeysApart, OneLivePerScope
  <1>9. MintIsCurrent'
    BY <1>1, <1>2 DEF MintIsCurrent
  <1>10. ApprovalHeld'
    <2>1. \A i \in Id : Approved(i) <=> Approved(i)'
      BY <1>1 DEF Approved, Exists, Recorded
    <2>2. where = "update" /\ job[r].op = "activate" => Approved(job[r].on)
      <3> SUFFICES ASSUME where = "update", job[r].op = "activate" PROVE Approved(job[r].on)
        OBVIOUS
      <3>1. job[r].on \in Id
        BY DEF JobAtPc, Decisions
      <3>2. accreditations[job[r].on].status = "pending"
        BY DEF AllowedFrom
      <3> QED
        BY <3>1, <3>2 DEF ApprovalHeld, InForce
    <2>3. \A q \in Request : pc[q] # "idle" /\ job[q].op = "activate" => job[q].on \in Id
      BY DEF JobAtPc, Decisions
    <2>4. \A q \in Request : pc'[q] \in {"update", "mint", "written"} /\ job'[q].op = "activate"
             => Approved(job[q].on)'
      BY <1>1, <1>2, <2>1, <2>2, <2>3 DEF ApprovalHeld
    <2> QED
      BY <1>1, <2>1, <2>4 DEF ApprovalHeld, Exists
  <1>11. EscalationHeld'
    <2>1. where = "update" /\ job[r].op \in {"approve", "decline"} /\ job[r].escalated
            => job[r].by \in Senior
      BY DEF CanDecide, EscalationHeld, JobAtPc
    <2> QED
      BY <1>1, <1>2, <2>1 DEF EscalationHeld, Escalated, Exists
  <1>12. FlagHeld'
    <2>1. \A q \in Request, b \in Business :
            Leaving(q, b)' => Leaving(q, b) \/ (q = r /\ where = "sweep" /\ b = job[r].on)
      BY <1>1, <1>2 DEF Leaving
    <2>2. \A q, x \in Request, b \in Business : Leaving(q, b)' /\ Leaving(x, b)' => q = x
      BY <2>1 DEF FlagHeld
    <2>3. \A i \in Id : Exists(i)' /\ accreditations'[i].status = "declined" => Recorded(i, "decline")'
      BY <1>1 DEF FlagHeld, Exists, Recorded
    <2>4. ASSUME NEW q \in Request
          PROVE  /\ todo'[q] \subseteq seen'[q]
                 /\ seen'[q] # {} => pc'[q] \in {"locking", "written"}
                 /\ pc'[q] = "written" => todo'[q] = {}
      BY <1>1, <1>2 DEF FlagHeld
    <2>5. ASSUME NEW q \in Request, job'[q] # NoJob, job'[q].op = "end", NEW i \in seen'[q]
          PROVE  /\ Exists(i)' /\ BusinessOf[i] = job'[q].on
                 /\ accreditations'[i].status # "party_changed_pending"
                 /\ i \in todo'[q] \/ Wrote(q, i)' \/ Recorded(i, "decline")'
      BY <1>1, <2>5 DEF FlagHeld, Exists, Wrote, Recorded
    <2> QED
      BY <2>2, <2>3, <2>4, <2>5 DEF FlagHeld
  <1> QED
    BY <1>3, <1>4, <1>5, <1>6, <1>7, <1>8, <1>9, <1>10, <1>11, <1>12

LEMMA ReadingIInv ==
  ASSUME IInv, NEW r \in Request,
         CheckAffiliation(r) \/ CheckRelationship(r) \/ Check(r) \/ Leave(r)
  PROVE  IInv'
  <1>1. CASE CheckAffiliation(r)
    BY <1>1, MoveIInv DEF CheckAffiliation
  <1>2. CASE CheckRelationship(r)
    BY <1>2, MoveIInv DEF CheckRelationship
  <1>3. CASE Check(r)
    BY <1>3, MoveIInv DEF Check
  <1>4. CASE Leave(r)
    BY <1>4, MoveIInv DEF Leave
  <1> QED
    BY <1>1, <1>2, <1>3, <1>4

LEMMA BeginIInv ==
  ASSUME IInv, NEW r \in Request, NEW op \in Op, NEW on \in Id \union Business \union {Lender},
         NEW by \in User \union {Broker}, Begin(r, op, on, by)
  PROVE  IInv'
  <1> USE DEF IInv
  <1> DEFINE esc == op \in Decisions /\ Escalated(on)
             j == [op |-> op, on |-> on, by |-> by, escalated |-> esc]
             where == FirstStep(op)
  <1>0. esc \in BOOLEAN /\ (esc => op \in Decisions /\ Escalated(on))
    OBVIOUS
  <1>1. /\ j \in Job /\ j # NoJob /\ j.op = op /\ j.on = on
        /\ j.escalated => op \in Decisions /\ Escalated(on)
        /\ pc[r] = "idle" /\ job[r] = NoJob
        /\ job' = [job EXCEPT ![r] = j]
        /\ UNCHANGED <<accreditations, affiliation, linked, overdue, platformId, log>>
        /\ UNCHANGED <<draft, minted, seen, todo>>
        /\ op = "request" => on \in Id /\ Fresh(on)
        /\ op \in Decisions => on \in Id
        /\ op = "end" => on \in Business
    <2>1. job' = [job EXCEPT ![r] = j]
      BY DEF Begin
    <2>2. /\ pc[r] = "idle"
          /\ UNCHANGED <<database, draft, minted, seen, todo>>
          /\ op = "request" => on \in Id /\ Fresh(on)
          /\ op \in Decisions => on \in Id
          /\ op = "end" => on \in Business
      BY DEF Begin
    <2> HIDE DEF esc
    <2>3. j \in Job
      BY <1>0 DEF Job
    <2> QED
      BY <1>0, <2>1, <2>2, <2>3, SentinelAssumption DEF JobAtPc, database
  <1>2. /\ pc' = [pc EXCEPT ![r] = where]
        /\ where = "check" <=> op \in Decisions
        /\ where = "affiliation" <=> op = "request"
        /\ where = "leave" <=> op = "end"
        /\ where = "sweep" <=> op = "lapse"
        /\ where \in {"check", "affiliation", "leave", "sweep"}
    BY DEF Begin, Goto, FirstStep, Op, Decisions, Sweeps
  <1> HIDE DEF esc, j, where
  <1>3. /\ pc'[r] = where /\ job'[r] = j
        /\ \A q \in Request \ {r} : pc'[q] = pc[q] /\ job'[q] = job[q]
    BY <1>1, <1>2 DEF TypeOK
  <1>4. TypeOK'
    BY <1>1, <1>2 DEF TypeOK, InFlight, Finished
  <1>5. JobAtPc'
    BY <1>1, <1>2, <1>3 DEF JobAtPc, Asking, Sweeps, Decisions
  <1>6. RequestsAreFresh'
    <2>1. op = "request" => ~Exists(on) /\ History[on] = <<>>
      BY <1>1 DEF RequestsAreFresh, Fresh
    <2>2. ASSUME op = "request", NEW q \in Request, q # r, pc[q] # "idle"
          PROVE  job[q].on # on
      BY <1>1, <2>2 DEF Fresh, JobAtPc
    <2>3. \A q, x \in Request :
             /\ pc'[q] # "idle" /\ pc'[x] # "idle"
             /\ job'[q].op = "request" /\ job'[x].op = "request"
             /\ job'[q].on = job'[x].on
             => q = x
      BY <1>1, <1>3, <2>2 DEF RequestsAreFresh
    <2> QED
      BY <1>1, <1>2, <1>3, <2>1, <2>3 DEF RequestsAreFresh, Exists, Asking
  <1>7. FoundOrWritten'
    BY <1>1, <1>2, <1>3 DEF FoundOrWritten, Wrote, Exists
  <1>8. DraftIsCurrent'
    <2>1. \A i \in Id : ~Wrote(r, i)
      BY <1>1 DEF DraftIsCurrent
    <2> QED
      BY <1>1, <1>3, <2>1 DEF DraftIsCurrent, Wrote, Exists, Matches
  <1>9. KeysApart' /\ OneLivePerScope'
    BY <1>1 DEF KeysApart, OneLivePerScope
  <1>10. MintIsCurrent'
    BY <1>1, <1>2, <1>3 DEF MintIsCurrent
  <1>11. ApprovalHeld'
    <2>1. \A i \in Id : Approved(i) <=> Approved(i)'
      BY <1>1 DEF Approved, Exists, Recorded
    <2>2. \A q \in Request : pc[q] # "idle" /\ job[q].op = "activate" => job[q].on \in Id
      BY DEF JobAtPc, Decisions
    <2>3. ASSUME NEW q \in Request, pc'[q] \in {"update", "mint", "written"}, job'[q].op = "activate"
          PROVE  Approved(job[q].on)' /\ job'[q] = job[q]
      <3>1. q # r
        BY <1>2, <1>3, <2>3
      <3> QED
        BY <1>3, <2>1, <2>2, <2>3, <3>1 DEF ApprovalHeld
    <2> QED
      BY <1>1, <2>1, <2>3 DEF ApprovalHeld, Exists
  <1>12. EscalationHeld'
    <2>1. \A i \in Id : Escalated(i) <=> Escalated(i)'
      BY <1>1 DEF Escalated
    <2>2. job'[r].escalated => job'[r].on \in Id /\ Escalated(job'[r].on)
      BY <1>1, <1>3
    <2>3. \A q \in Request :
             pc'[q] # "idle" /\ job'[q].escalated => job'[q].on \in Id /\ Escalated(job'[q].on)
      BY <1>3, <2>2 DEF EscalationHeld
    <2> QED
      BY <1>1, <1>2, <1>3, <2>1, <2>3 DEF EscalationHeld, Exists
  <1>13. FlagHeld'
    <2>1. \A q \in Request, b \in Business :
            Leaving(q, b)' => Leaving(q, b) \/ (q = r /\ where = "sweep" /\ op = "end")
      BY <1>1, <1>2, <1>3 DEF Leaving
    <2>2. \A q, x \in Request, b \in Business : Leaving(q, b)' /\ Leaving(x, b)' => q = x
      BY <1>2, <2>1 DEF FlagHeld
    <2>3. seen[r] = {}
      BY <1>1 DEF FlagHeld
    <2>4. ASSUME NEW q \in Request
          PROVE  /\ todo'[q] \subseteq seen'[q]
                 /\ seen'[q] # {} => pc'[q] \in {"locking", "written"}
                 /\ pc'[q] = "written" => todo'[q] = {}
      BY <1>1, <1>2, <1>3, <2>3 DEF FlagHeld
    <2>5. ASSUME NEW q \in Request, job'[q] # NoJob, job'[q].op = "end", NEW i \in seen'[q]
          PROVE  /\ Exists(i)' /\ BusinessOf[i] = job'[q].on
                 /\ accreditations'[i].status # "party_changed_pending"
                 /\ i \in todo'[q] \/ Wrote(q, i)' \/ Recorded(i, "decline")'
      BY <1>1, <1>3, <2>3, <2>5 DEF FlagHeld, Exists, Wrote, Recorded
    <2> QED
      BY <1>1, <2>2, <2>4, <2>5 DEF FlagHeld, Exists, Recorded
  <1> QED
    BY <1>4, <1>5, <1>6, <1>7, <1>8, <1>9, <1>10, <1>11, <1>12, <1>13

\* The database's own rows change under no call's feet: deadlines, the link, affiliations.
LEMMA AroundIInv ==
  ASSUME IInv,
         (\E i \in Id : DeadlinePasses(i)) \/ LinkChanges \/ (\E b \in Business : Rejoin(b))
           \/ UNCHANGED vars
  PROVE  IInv'
  <1> USE DEF IInv
  <1>1. /\ UNCHANGED <<accreditations, platformId, log>>
        /\ UNCHANGED <<pc, job, draft, minted, seen, todo>>
        /\ overdue \subseteq overdue'
        /\ overdue' \subseteq Id
        /\ affiliation' \in [Business -> {"active", "pending_confirmation", "ended"}]
        /\ linked' \in BOOLEAN
    BY DEF DeadlinePasses, LinkChanges, Rejoin, vars, calls, TypeOK
  <1>2. TypeOK'
    BY <1>1 DEF TypeOK
  <1>3. JobAtPc' /\ RequestsAreFresh' /\ FoundOrWritten'
    BY <1>1 DEF JobAtPc, RequestsAreFresh, FoundOrWritten, Wrote, Exists
  <1>4. DraftIsCurrent'
    BY <1>1 DEF DraftIsCurrent, Wrote, Exists, Matches
  <1>5. KeysApart' /\ OneLivePerScope' /\ MintIsCurrent'
    BY <1>1 DEF KeysApart, OneLivePerScope, MintIsCurrent
  <1>6. ApprovalHeld' /\ EscalationHeld'
    BY <1>1 DEF ApprovalHeld, EscalationHeld, Escalated, Approved, Recorded, Exists
  <1>7. FlagHeld'
    BY <1>1 DEF FlagHeld, Leaving, Recorded, Exists, Wrote
  <1> QED
    BY <1>2, <1>3, <1>4, <1>5, <1>6, <1>7

\* An INSERT, or an UPDATE by id, that has its lock and its scope.
LEMMA WriteIInv ==
  ASSUME IInv, NEW r \in Request, NEW i \in Id, NEW new \in Row, NEW where \in {"mint", "written"},
         pc[r] \in {"insert", "update"}, i = job[r].on,
         Goto(r, where), draft' = [draft EXCEPT ![r][i] = new],
         UNCHANGED <<database, job, minted, seen, todo>>,
         ~Locked(r, i), ~KeyBusy(r, i), Live(new) => ~KeyTaken(i),
         where = "mint" <=> job[r].op = "activate",
         pc[r] = "insert" => new = Requested,
         pc[r] = "update" => new = Written(job[r].op, accreditations[i])
  PROVE  IInv'
  <1> USE DEF IInv
  <1>1. /\ pc' = [pc EXCEPT ![r] = where] /\ pc \in [Request -> {"idle"} \union InFlight \union Finished]
        /\ UNCHANGED <<accreditations, affiliation, linked, overdue, platformId, log>>
        /\ UNCHANGED <<job, minted, seen, todo>>
    BY DEF Goto, TypeOK, database
  <1>2. pc'[r] = where /\ \A q \in Request \ {r} : pc'[q] = pc[q]
    BY <1>1
  <1>3. /\ draft' \in [Request -> [Id -> Row \union {NoRow}]]
        /\ draft'[r][i] = new /\ Wrote(r, i)'
        /\ \A q \in Request, k \in Id : q # r \/ k # i => draft'[q][k] = draft[q][k]
        /\ \A q \in Request, k \in Id : Wrote(q, k)' => Wrote(q, k) \/ (q = r /\ k = i)
        /\ \A q \in Request, k \in Id : Wrote(q, k) => Wrote(q, k)'
    BY SentinelAssumption DEF TypeOK, Wrote
  <1>4. /\ pc[r] = "insert" => job[r].op = "request" /\ ~Exists(i)
        /\ pc[r] = "update" => job[r].op \in Decisions /\ Exists(i)
        /\ "request" \notin Decisions /\ "request" \notin Sweeps
        /\ job[r].op \notin Sweeps /\ job[r].op # "end"
    BY DEF JobAtPc, RequestsAreFresh, FoundOrWritten, Asking, Decisions, Sweeps
  <1>5. /\ \A q \in Request : q # r => ~Wrote(q, i)
        /\ \A k \in Id : ~Wrote(r, k)
    BY DEF Locked, DraftIsCurrent
  <1>6. TypeOK'
    BY <1>1, <1>3 DEF TypeOK, InFlight
  <1>7. JobAtPc'
    BY <1>1, <1>2 DEF JobAtPc, Asking
  <1>8. RequestsAreFresh'
    BY <1>1, <1>2 DEF RequestsAreFresh, Asking, Exists
  <1>9. FoundOrWritten'
    <2>1. \A q \in Request : pc[q] # "idle" /\ job[q].op \in Decisions => job[q].on \in Id
      BY DEF JobAtPc
    <2> QED
      BY <1>1, <1>2, <1>3, <2>1 DEF FoundOrWritten, Exists
  <1>10. DraftIsCurrent'
    <2>1. ASSUME NEW q \in Request, NEW x \in Request, NEW k \in Id, Wrote(q, k)', Wrote(x, k)'
          PROVE  q = x
      BY <1>3, <1>5, <2>1 DEF DraftIsCurrent
    <2>2. ASSUME NEW q \in Request, NEW k \in Id, Wrote(q, k)'
          PROVE  /\ pc'[q] \in {"mint", "locking", "written"}
                 /\ job'[q].op \notin Sweeps => k = job'[q].on
                 /\ IF job'[q].op = "request" THEN ~Exists(k)' /\ draft'[q][k] = Requested
                    ELSE Exists(k)' /\ draft'[q][k] = Written(job'[q].op, accreditations'[k])
                 /\ job'[q].op \in Sweeps => Matches(job[q], k)'
      <3>1. CASE q = r /\ k = i
        BY <1>1, <1>2, <1>3, <1>4, <3>1 DEF Exists
      <3>2. CASE ~(q = r /\ k = i)
        <4>1. Wrote(q, k) /\ draft'[q][k] = draft[q][k] /\ q # r
          BY <1>3, <1>5, <2>2, <3>2
        <4> QED
          BY <1>1, <1>2, <4>1 DEF DraftIsCurrent, Exists, Matches
      <3> QED
        BY <3>1, <3>2
    <2> QED
      BY <1>1, <2>1, <2>2 DEF DraftIsCurrent
  <1>11. KeysApart' /\ OneLivePerScope'
    <2>1. ASSUME Live(new), NEW k \in Rivals(i)
          PROVE  ~Live(accreditations[k]) /\ \A q \in Request : ~Live(draft[q][k])
      <3>1. k \in Id
        BY DEF Rivals
      <3>2. ~Live(accreditations[k])
        BY <2>1 DEF KeyTaken
      <3>3. ASSUME NEW q \in Request, Live(draft[q][k]) PROVE FALSE
        BY <1>5, <2>1, <3>1, <3>3 DEF KeyBusy, HoldsKey, Wrote, Live
      <3> QED
        BY <3>2, <3>3
    <2>2. ASSUME Live(new), NEW q \in Request, NEW k \in Id, Live(draft[q][k]) PROVE i \notin Rivals(k)
      <3>1. i \in Rivals(k) => k \in Rivals(i)
        BY DEF Rivals
      <3> QED
        BY <2>1, <2>2, <3>1
    <2>3. ASSUME NEW q \in Request, NEW k \in Id, Live(draft'[q][k]), NEW m \in Rivals(k)
          PROVE  ~Live(accreditations[m]) /\ \A x \in Request : ~Live(draft'[x][m])
      <3>1. m \in Id /\ m # k
        BY DEF Rivals
      <3>2. CASE q = r /\ k = i
        BY <1>3, <2>1, <2>3, <3>1, <3>2
      <3>3. CASE ~(q = r /\ k = i)
        <4>1. Live(draft[q][k])
          BY <1>3, <2>3, <3>3
        <4>2. ~Live(accreditations[m]) /\ \A x \in Request : ~Live(draft[x][m])
          BY <4>1 DEF KeysApart
        <4>3. ~(m = i /\ Live(new))
          BY <2>2, <2>3, <4>1
        <4> QED
          BY <1>3, <3>1, <4>2, <4>3
      <3> QED
        BY <3>2, <3>3
    <2> QED
      BY <1>1, <2>3 DEF KeysApart, OneLivePerScope
  <1>12. MintIsCurrent'
    BY <1>1, <1>2 DEF MintIsCurrent
  <1>13. ApprovalHeld'
    <2>1. \A k \in Id : Approved(k) <=> Approved(k)'
      BY <1>1 DEF Approved, Exists, Recorded
    <2>2. ASSUME NEW q \in Request, pc'[q] \in {"update", "mint", "written"}, job'[q].op = "activate"
          PROVE  Approved(job[q].on)'
      <3>1. pc[q] \in {"update", "mint", "written"} /\ job[q].op = "activate"
        BY <1>1, <1>2, <1>4, <2>2
      <3>2. job[q].on \in Id
        BY <3>1 DEF JobAtPc, Decisions
      <3> QED
        BY <2>1, <3>1, <3>2 DEF ApprovalHeld
    <2> QED
      BY <1>1, <2>1, <2>2 DEF ApprovalHeld, Exists
  <1>14. EscalationHeld'
    BY <1>1, <1>2, <1>4 DEF EscalationHeld, Escalated, Exists
  <1>15. FlagHeld'
    <2>1. \A q \in Request, b \in Business : Leaving(q, b)' => Leaving(q, b)
      BY <1>1, <1>2, <1>4 DEF Leaving
    <2>2. seen[r] = {} /\ todo[r] = {}
      BY DEF FlagHeld
    <2>3. ASSUME NEW q \in Request
          PROVE  /\ todo'[q] \subseteq seen'[q]
                 /\ seen'[q] # {} => pc'[q] \in {"locking", "written"}
                 /\ pc'[q] = "written" => todo'[q] = {}
      BY <1>1, <1>2, <2>2 DEF FlagHeld
    <2>4. ASSUME NEW q \in Request, job'[q] # NoJob, job'[q].op = "end", NEW k \in seen'[q]
          PROVE  /\ Exists(k)' /\ BusinessOf[k] = job'[q].on
                 /\ accreditations'[k].status # "party_changed_pending"
                 /\ k \in todo'[q] \/ Wrote(q, k)' \/ Recorded(k, "decline")'
      <3>1. k \in Id
        BY <1>1 DEF TypeOK
      <3> QED
        BY <1>1, <1>3, <2>4, <3>1 DEF FlagHeld, Exists, Recorded
    <2> QED
      BY <1>1, <2>1, <2>3, <2>4 DEF FlagHeld, Exists, Recorded
  <1> QED
    BY <1>6, <1>7, <1>8, <1>9, <1>10, <1>11, <1>12, <1>13, <1>14, <1>15

LEMMA InsertIInv ==
  ASSUME IInv, NEW r \in Request, Insert(r)
  PROVE  IInv'
  <1> USE DEF IInv
  <1>1. PICK i : i = job[r].on
    OBVIOUS
  <1>2. pc[r] = "insert" /\ job[r].op = "request" /\ i \in Id /\ ~Exists(i)
    BY <1>1 DEF Insert, JobAtPc, RequestsAreFresh, Asking
  <1>3. ASSUME NEW q \in Request, Wrote(q, i) PROVE q = r
    <2>1. pc[q] # "idle" /\ job[q].op = "request"
      BY <1>2, <1>3 DEF DraftIsCurrent
    <2>2. job[q].on = i
      BY <1>2, <1>3, <2>1 DEF DraftIsCurrent, Sweeps
    <2> QED
      BY <1>1, <1>2, <2>1, <2>2 DEF RequestsAreFresh
  <1>4. CASE KeyTaken(i)
    BY <1>1, <1>2, <1>4, MoveIInv DEF Insert
  <1>5. CASE ~KeyTaken(i)
    <2>1. ~Locked(r, i)
      BY <1>3 DEF Locked
    <2> QED
      BY <1>1, <1>2, <1>5, <2>1, RequestedIsRow, WriteIInv DEF Insert
  <1> QED
    BY <1>4, <1>5

LEMMA UpdateIInv ==
  ASSUME IInv, NEW r \in Request, Update(r)
  PROVE  IInv'
  <1> USE DEF IInv
  <1>1. PICK i : i = job[r].on
    OBVIOUS
  <1>2. PICK new : new = Written(job[r].op, accreditations[i])
    OBVIOUS
  <1>3. pc[r] = "update" /\ job[r].op \in Decisions /\ i \in Id /\ Exists(i)
    BY <1>1 DEF Update, JobAtPc, FoundOrWritten
  <1>4. new \in Row
    BY <1>2, <1>3, WrittenFacts DEF TypeOK, Exists
  <1>5. CASE Live(new) /\ KeyTaken(i)
    BY <1>1, <1>2, <1>3, <1>5, MoveIInv DEF Update
  <1>6. CASE ~(Live(new) /\ KeyTaken(i))
    <2> DEFINE where == IF job[r].op = "activate" THEN "mint" ELSE "written"
    <2>1. /\ Goto(r, where) /\ where \in {"mint", "written"}
          /\ where = "mint" <=> job[r].op = "activate"
      BY <1>1, <1>2, <1>6 DEF Update
    <2> HIDE DEF where
    <2>2. /\ draft' = [draft EXCEPT ![r][i] = new]
          /\ UNCHANGED <<database, job, minted, seen, todo>>
          /\ ~Locked(r, i) /\ ~KeyBusy(r, i)
      BY <1>1, <1>2, <1>6 DEF Update
    <2> QED
      BY <1>1, <1>2, <1>3, <1>4, <1>6, <2>1, <2>2, WriteIInv
  <1> QED
    BY <1>5, <1>6

LEMMA MintIInv ==
  ASSUME IInv, NEW r \in Request, Mint(r)
  PROVE  IInv'
  <1> USE DEF IInv
  <1> DEFINE id == IF platformId = NoPlatformId THEN r ELSE platformId
  <1>1. /\ pc[r] = "mint" /\ job[r].op = "activate"
        /\ \A q \in Request \ {r} : minted[q] = NoPlatformId
        /\ id \in Request /\ id # NoPlatformId /\ (platformId # NoPlatformId => id = platformId)
        /\ pc' = [pc EXCEPT ![r] = "written"]
        /\ UNCHANGED <<accreditations, affiliation, linked, overdue, platformId, log>>
        /\ UNCHANGED <<job, draft, seen, todo>>
    BY ScopeAssumption DEF Mint, Goto, TypeOK, database, JobAtPc
  <1>2. minted' = [minted EXCEPT ![r] = id]
    BY DEF Mint
  <1> HIDE DEF id
  <1>3. /\ pc'[r] = "written" /\ minted'[r] = id
        /\ \A q \in Request \ {r} : pc'[q] = pc[q] /\ minted'[q] = NoPlatformId
    BY <1>1, <1>2 DEF TypeOK
  <1>4. TypeOK'
    BY <1>1, <1>2 DEF TypeOK, InFlight
  <1>5. JobAtPc' /\ RequestsAreFresh'
    BY <1>1, <1>3 DEF JobAtPc, RequestsAreFresh, Asking, Exists
  <1>6. FoundOrWritten'
    <2>1. job[r].op \in Decisions
      BY <1>1 DEF Decisions
    <2> QED
      BY <1>1, <1>3, <2>1 DEF FoundOrWritten, Wrote, Exists
  <1>7. DraftIsCurrent'
    BY <1>1, <1>3 DEF DraftIsCurrent, Wrote, Exists, Matches
  <1>8. KeysApart' /\ OneLivePerScope'
    BY <1>1 DEF KeysApart, OneLivePerScope
  <1>9. MintIsCurrent'
    BY <1>1, <1>3 DEF MintIsCurrent
  <1>10. ApprovalHeld'
    <2>1. \A k \in Id : Approved(k) <=> Approved(k)'
      BY <1>1 DEF Approved, Exists, Recorded
    <2>2. ASSUME NEW q \in Request, pc'[q] \in {"update", "mint", "written"}, job'[q].op = "activate"
          PROVE  Approved(job[q].on)'
      <3>1. pc[q] \in {"update", "mint", "written"} /\ job[q].op = "activate"
        BY <1>1, <1>3, <2>2
      <3>2. job[q].on \in Id
        BY <3>1 DEF JobAtPc, Decisions
      <3> QED
        BY <1>1, <2>1, <3>1, <3>2 DEF ApprovalHeld
    <2> QED
      BY <1>1, <2>1, <2>2 DEF ApprovalHeld, Exists
  <1>11. EscalationHeld'
    BY <1>1, <1>3 DEF EscalationHeld, Escalated, Exists
  <1>12. FlagHeld'
    <2>1. \A q \in Request, b \in Business : Leaving(q, b)' => Leaving(q, b)
      BY <1>1, <1>3 DEF Leaving
    <2>2. seen[r] = {} /\ todo[r] = {}
      BY <1>1 DEF FlagHeld
    <2> QED
      BY <1>1, <1>3, <2>1, <2>2 DEF FlagHeld, Exists, Wrote, Recorded
  <1> QED
    BY <1>4, <1>5, <1>6, <1>7, <1>8, <1>9, <1>10, <1>11, <1>12

LEMMA SweepIInv ==
  ASSUME IInv, NEW r \in Request, Sweep(r)
  PROVE  IInv'
  <1> USE DEF IInv
  <1>1. PICK found \in SUBSET Id : found = {i \in Id : Matches(job[r], i)}
    OBVIOUS
  <1>2. PICK where : where = IF found = {} THEN "written" ELSE "locking"
    OBVIOUS
  <1>3. /\ pc[r] = "sweep" /\ job[r].op \in Sweeps
        /\ pc' = [pc EXCEPT ![r] = where] /\ where \in {"written", "locking"}
        /\ seen' = [seen EXCEPT ![r] = found] /\ todo' = [todo EXCEPT ![r] = found]
        /\ UNCHANGED <<accreditations, affiliation, linked, overdue, platformId, log>>
        /\ UNCHANGED <<job, draft, minted>>
    BY <1>1, <1>2 DEF Sweep, Goto, database, JobAtPc
  <1>4. /\ pc'[r] = where /\ seen'[r] = found /\ todo'[r] = found
        /\ \A q \in Request \ {r} : pc'[q] = pc[q] /\ seen'[q] = seen[q] /\ todo'[q] = todo[q]
    BY <1>3 DEF TypeOK
  <1>5. job[r].op \notin Decisions /\ job[r].op \notin {"request", "activate", "approve", "decline"}
    BY <1>3 DEF Decisions, Sweeps
  <1>6. TypeOK'
    BY <1>3 DEF TypeOK, InFlight
  <1>7. JobAtPc' /\ RequestsAreFresh'
    BY <1>3, <1>4 DEF JobAtPc, RequestsAreFresh, Asking, Exists
  <1>8. FoundOrWritten'
    BY <1>3, <1>4, <1>5 DEF FoundOrWritten, Wrote, Exists
  <1>9. DraftIsCurrent'
    BY <1>3, <1>4 DEF DraftIsCurrent, Wrote, Exists, Matches
  <1>10. KeysApart' /\ OneLivePerScope'
    BY <1>3 DEF KeysApart, OneLivePerScope
  <1>11. MintIsCurrent'
    BY <1>3, <1>4, <1>5 DEF MintIsCurrent
  <1>12. ApprovalHeld'
    <2>1. \A k \in Id : Approved(k) <=> Approved(k)'
      BY <1>3 DEF Approved, Exists, Recorded
    <2>2. ASSUME NEW q \in Request, pc'[q] \in {"update", "mint", "written"}, job'[q].op = "activate"
          PROVE  Approved(job[q].on)'
      <3>1. pc[q] \in {"update", "mint", "written"} /\ job[q].op = "activate"
        BY <1>3, <1>4, <1>5, <2>2
      <3>2. job[q].on \in Id
        BY <3>1 DEF JobAtPc, Decisions
      <3> QED
        BY <1>3, <2>1, <3>1, <3>2 DEF ApprovalHeld
    <2> QED
      BY <1>3, <2>1, <2>2 DEF ApprovalHeld, Exists
  <1>13. EscalationHeld'
    BY <1>3, <1>4, <1>5 DEF EscalationHeld, Escalated, Exists
  <1>14. FlagHeld'
    <2>1. \A q \in Request, b \in Business : Leaving(q, b)' => Leaving(q, b)
      BY <1>3, <1>4 DEF Leaving
    <2>2. ASSUME NEW q \in Request
          PROVE  /\ todo'[q] \subseteq seen'[q]
                 /\ seen'[q] # {} => pc'[q] \in {"locking", "written"}
                 /\ pc'[q] = "written" => todo'[q] = {}
      BY <1>2, <1>3, <1>4 DEF FlagHeld
    <2>3. ASSUME NEW q \in Request, job'[q] # NoJob, job'[q].op = "end", NEW i \in seen'[q]
          PROVE  /\ Exists(i)' /\ BusinessOf[i] = job'[q].on
                 /\ accreditations'[i].status # "party_changed_pending"
                 /\ i \in todo'[q] \/ Wrote(q, i)' \/ Recorded(i, "decline")'
      <3>1. CASE q = r
        BY <1>1, <1>3, <1>4, <2>3, <3>1 DEF Matches, Exists
      <3>2. CASE q # r
        BY <1>3, <1>4, <2>3, <3>2 DEF FlagHeld, Exists, Wrote, Recorded
      <3> QED
        BY <3>1, <3>2
    <2> QED
      BY <1>3, <2>1, <2>2, <2>3 DEF FlagHeld, Exists, Recorded
  <1> QED
    BY <1>6, <1>7, <1>8, <1>9, <1>10, <1>11, <1>12, <1>13, <1>14

LEMMA LockRowIInv ==
  ASSUME IInv, NEW r \in Request, LockRow(r)
  PROVE  IInv'
  <1> USE DEF IInv
  <1>1. PICK i \in todo[r] :
          /\ ~Locked(r, i)
          /\ draft' = IF Matches(job[r], i)
                      THEN [draft EXCEPT ![r][i] = Written(job[r].op, accreditations[i])] ELSE draft
          /\ todo' = [todo EXCEPT ![r] = @ \ {i}]
          /\ Goto(r, IF todo[r] = {i} THEN "written" ELSE "locking")
    BY DEF LockRow
  <1>2. PICK where : where = IF todo[r] = {i} THEN "written" ELSE "locking"
    OBVIOUS
  <1>3. PICK new : new = Written(job[r].op, accreditations[i])
    OBVIOUS
  <1>4. /\ pc[r] = "locking" /\ job[r].op \in Sweeps /\ job[r] # NoJob
        /\ pc' = [pc EXCEPT ![r] = where] /\ where \in {"written", "locking"}
        /\ UNCHANGED <<accreditations, affiliation, linked, overdue, platformId, log>>
        /\ UNCHANGED <<job, minted, seen>>
    BY <1>1, <1>2 DEF LockRow, Goto, database, JobAtPc
  <1>5. /\ pc'[r] = where /\ todo'[r] = todo[r] \ {i}
        /\ \A q \in Request \ {r} : pc'[q] = pc[q] /\ todo'[q] = todo[q]
    BY <1>1, <1>4 DEF TypeOK
  <1>6. job[r].op \notin Decisions /\ job[r].op \notin {"request", "activate", "approve", "decline"}
    BY <1>4 DEF Decisions, Sweeps
  <1>7. i \in Id /\ i \in seen[r]
    BY DEF TypeOK, FlagHeld
  <1>8. Matches(job[r], i) =>
          /\ Exists(i) /\ new \in Row /\ new # NoRow
          /\ Live(accreditations[i]) /\ Live(new)
    <2>1. SUFFICES ASSUME Matches(job[r], i)
                   PROVE  /\ Exists(i) /\ new \in Row /\ new # NoRow
                          /\ Live(accreditations[i]) /\ Live(new)
      OBVIOUS
    <2>2. Exists(i) /\ accreditations[i] \in Row /\ accreditations[i].status # "declined"
      BY <1>7, <2>1 DEF Matches, Exists, TypeOK
    <2>3. new \in Row /\ new.status # "declined"
      BY <1>3, <1>4, <2>2, WrittenFacts DEF Sweeps
    <2> QED
      BY <2>2, <2>3, SentinelAssumption DEF Exists, Live
  <1>9. /\ draft' \in [Request -> [Id -> Row \union {NoRow}]]
        /\ Matches(job[r], i) => draft'[r][i] = new /\ Wrote(r, i)'
        /\ \A q \in Request, k \in Id : q # r \/ k # i \/ ~Matches(job[r], i) =>
             draft'[q][k] = draft[q][k]
        /\ \A q \in Request, k \in Id : Wrote(q, k)' =>
             Wrote(q, k) \/ (q = r /\ k = i /\ Matches(job[r], i))
        /\ \A q \in Request, k \in Id : Wrote(q, k) => Wrote(q, k)'
    <2>1. CASE Matches(job[r], i)
      BY <1>1, <1>3, <1>7, <1>8, <2>1 DEF TypeOK, Wrote
    <2>2. CASE ~Matches(job[r], i)
      BY <1>1, <2>2 DEF TypeOK, Wrote
    <2> QED
      BY <2>1, <2>2
  <1>10. \A q \in Request : q # r => ~Wrote(q, i)
    BY <1>1 DEF Locked
  <1>11. TypeOK'
    BY <1>1, <1>4, <1>9 DEF TypeOK, InFlight
  <1>12. JobAtPc' /\ RequestsAreFresh'
    BY <1>4, <1>5 DEF JobAtPc, RequestsAreFresh, Asking, Exists
  <1>13. FoundOrWritten'
    <2>1. \A q \in Request : pc[q] # "idle" /\ job[q].op \in Decisions => job[q].on \in Id
      BY DEF JobAtPc
    <2> QED
      BY <1>4, <1>5, <1>6, <1>9, <2>1 DEF FoundOrWritten, Exists
  <1>14. DraftIsCurrent'
    <2>1. ASSUME NEW q \in Request, NEW x \in Request, NEW k \in Id, Wrote(q, k)', Wrote(x, k)'
          PROVE  q = x
      BY <1>9, <1>10, <2>1 DEF DraftIsCurrent
    <2>2. ASSUME NEW q \in Request, NEW k \in Id, Wrote(q, k)'
          PROVE  /\ pc'[q] \in {"mint", "locking", "written"}
                 /\ job'[q].op \notin Sweeps => k = job'[q].on
                 /\ IF job'[q].op = "request" THEN ~Exists(k)' /\ draft'[q][k] = Requested
                    ELSE Exists(k)' /\ draft'[q][k] = Written(job'[q].op, accreditations'[k])
                 /\ job'[q].op \in Sweeps => Matches(job[q], k)'
      <3>1. CASE q = r /\ k = i /\ Matches(job[r], i)
        BY <1>3, <1>4, <1>5, <1>6, <1>8, <1>9, <3>1 DEF Exists, Matches
      <3>2. CASE ~(q = r /\ k = i /\ Matches(job[r], i))
        <4>1. Wrote(q, k) /\ draft'[q][k] = draft[q][k]
          BY <1>9, <2>2, <3>2
        <4> QED
          BY <1>4, <1>5, <4>1 DEF DraftIsCurrent, Exists, Matches
      <3> QED
        BY <3>1, <3>2
    <2> QED
      BY <1>4, <2>1, <2>2 DEF DraftIsCurrent
  <1>15. KeysApart' /\ OneLivePerScope'
    <2>1. ASSUME Matches(job[r], i), NEW k \in Rivals(i)
          PROVE  ~Live(accreditations[k]) /\ \A q \in Request : ~Live(draft[q][k])
      <3>1. k \in Id /\ k # i /\ ScopeOf[k] = ScopeOf[i] /\ i \in Rivals(k)
        BY <1>7 DEF Rivals
      <3>2. ~Live(accreditations[k])
        BY <1>7, <1>8, <2>1, <3>1 DEF OneLivePerScope
      <3>3. ASSUME NEW q \in Request, Live(draft[q][k]) PROVE FALSE
        BY <1>8, <2>1, <3>1, <3>3 DEF KeysApart
      <3> QED
        BY <3>2, <3>3
    <2>2. ASSUME Matches(job[r], i), NEW q \in Request, NEW k \in Id, Live(draft[q][k])
          PROVE  i \notin Rivals(k)
      BY <1>8, <2>2 DEF KeysApart
    <2>3. ASSUME NEW q \in Request, NEW k \in Id, Live(draft'[q][k]), NEW m \in Rivals(k)
          PROVE  ~Live(accreditations[m]) /\ \A x \in Request : ~Live(draft'[x][m])
      <3>1. m \in Id /\ m # k
        BY DEF Rivals
      <3>2. CASE q = r /\ k = i /\ Matches(job[r], i)
        BY <1>9, <2>1, <2>3, <3>1, <3>2
      <3>3. CASE ~(q = r /\ k = i /\ Matches(job[r], i))
        <4>1. Live(draft[q][k])
          BY <1>9, <2>3, <3>3
        <4>2. ~Live(accreditations[m]) /\ \A x \in Request : ~Live(draft[x][m])
          BY <4>1 DEF KeysApart
        <4>3. ~(m = i /\ Matches(job[r], i))
          BY <2>2, <2>3, <4>1
        <4> QED
          BY <1>9, <3>1, <4>2, <4>3
      <3> QED
        BY <3>2, <3>3
    <2> QED
      BY <1>4, <2>3 DEF KeysApart, OneLivePerScope
  <1>16. MintIsCurrent'
    BY <1>4, <1>5, <1>6 DEF MintIsCurrent
  <1>17. ApprovalHeld'
    <2>1. \A k \in Id : Approved(k) <=> Approved(k)'
      BY <1>4 DEF Approved, Exists, Recorded
    <2>2. ASSUME NEW q \in Request, pc'[q] \in {"update", "mint", "written"}, job'[q].op = "activate"
          PROVE  Approved(job[q].on)'
      <3>1. pc[q] \in {"update", "mint", "written"} /\ job[q].op = "activate"
        BY <1>4, <1>5, <1>6, <2>2
      <3>2. job[q].on \in Id
        BY <3>1 DEF JobAtPc, Decisions
      <3> QED
        BY <1>4, <2>1, <3>1, <3>2 DEF ApprovalHeld
    <2> QED
      BY <1>4, <2>1, <2>2 DEF ApprovalHeld, Exists
  <1>18. EscalationHeld'
    BY <1>4, <1>5, <1>6 DEF EscalationHeld, Escalated, Exists
  <1>19. FlagHeld'
    <2>1. \A q \in Request, b \in Business : Leaving(q, b)' => Leaving(q, b)
      BY <1>4, <1>5 DEF Leaving
    <2>2. ASSUME NEW q \in Request
          PROVE  /\ todo'[q] \subseteq seen'[q]
                 /\ seen'[q] # {} => pc'[q] \in {"locking", "written"}
                 /\ pc'[q] = "written" => todo'[q] = {}
      BY <1>2, <1>4, <1>5 DEF FlagHeld
    <2>3. job[r].op = "end" /\ ~Matches(job[r], i) => Recorded(i, "decline")
      BY <1>4, <1>7 DEF FlagHeld, Matches
    <2>4. ASSUME NEW q \in Request, job'[q] # NoJob, job'[q].op = "end", NEW k \in seen'[q]
          PROVE  /\ Exists(k)' /\ BusinessOf[k] = job'[q].on
                 /\ accreditations'[k].status # "party_changed_pending"
                 /\ k \in todo'[q] \/ Wrote(q, k)' \/ Recorded(k, "decline")'
      <3>1. k \in Id
        BY <1>4 DEF TypeOK
      <3>2. k \in todo[q] \/ Wrote(q, k) \/ Recorded(k, "decline")
        BY <1>4, <2>4 DEF FlagHeld
      <3>3. k \in todo'[q] \/ Wrote(q, k)' \/ Recorded(k, "decline")
        BY <1>4, <1>5, <1>9, <2>3, <2>4, <3>1, <3>2
      <3> QED
        BY <1>4, <2>4, <3>1, <3>3 DEF FlagHeld, Exists, Recorded
    <2> QED
      BY <1>4, <2>1, <2>2, <2>4 DEF FlagHeld, Exists, Recorded
  <1> QED
    BY <1>11, <1>12, <1>13, <1>14, <1>15, <1>16, <1>17, <1>18, <1>19

LEMMA AbortIInv ==
  ASSUME IInv, NEW r \in Request, Abort(r)
  PROVE  IInv'
  <1> USE DEF IInv
  <1>1. /\ pc[r] \in InFlight /\ pc' = [pc EXCEPT ![r] = "aborted"]
        /\ draft' = [draft EXCEPT ![r] = Nothing]
        /\ minted' = [minted EXCEPT ![r] = NoPlatformId]
        /\ seen' = [seen EXCEPT ![r] = {}] /\ todo' = [todo EXCEPT ![r] = {}]
        /\ UNCHANGED <<accreditations, affiliation, linked, overdue, platformId, log, job>>
    BY DEF Abort, Discard, Goto, database
  <1>2. /\ pc'[r] = "aborted" /\ minted'[r] = NoPlatformId /\ seen'[r] = {} /\ todo'[r] = {}
        /\ \A i \in Id : draft'[r][i] = NoRow
        /\ \A q \in Request \ {r} : /\ pc'[q] = pc[q] /\ draft'[q] = draft[q] /\ minted'[q] = minted[q]
                                    /\ seen'[q] = seen[q] /\ todo'[q] = todo[q]
    BY <1>1 DEF TypeOK, Nothing
  <1>3. TypeOK'
    BY <1>1 DEF TypeOK, Finished, Nothing
  <1>4. JobAtPc' /\ RequestsAreFresh'
    BY <1>1, <1>2 DEF JobAtPc, RequestsAreFresh, Asking, Exists, InFlight
  <1>5. FoundOrWritten'
    BY <1>1, <1>2 DEF FoundOrWritten, Wrote, Exists
  <1>6. DraftIsCurrent'
    <2>1. \A q \in Request, i \in Id : Wrote(q, i)' => q # r /\ Wrote(q, i)
      BY <1>2 DEF Wrote
    <2> QED
      BY <1>1, <1>2, <2>1 DEF DraftIsCurrent, Exists, Matches
  <1>7. KeysApart' /\ OneLivePerScope'
    <2>1. \A q \in Request, i \in Id : Live(draft'[q][i]) => Live(draft[q][i])
      BY <1>2 DEF Live
    <2>2. \A i \in Id : Rivals(i) \subseteq Id
      BY DEF Rivals
    <2> QED
      BY <1>1, <2>1, <2>2 DEF KeysApart, OneLivePerScope
  <1>8. MintIsCurrent'
    BY <1>1, <1>2 DEF MintIsCurrent
  <1>9. ApprovalHeld'
    <2>1. \A k \in Id : Approved(k) <=> Approved(k)'
      BY <1>1 DEF Approved, Exists, Recorded
    <2>2. ASSUME NEW q \in Request, pc'[q] \in {"update", "mint", "written"}, job'[q].op = "activate"
          PROVE  Approved(job[q].on)'
      <3>1. pc[q] \in {"update", "mint", "written"} /\ job[q].op = "activate"
        BY <1>1, <1>2, <2>2
      <3>2. job[q].on \in Id
        BY <3>1 DEF JobAtPc, Decisions
      <3> QED
        BY <1>1, <2>1, <3>1, <3>2 DEF ApprovalHeld
    <2> QED
      BY <1>1, <2>1, <2>2 DEF ApprovalHeld, Exists
  <1>10. EscalationHeld'
    <2>1. \A i \in Id : Escalated(i) <=> Escalated(i)'
      BY <1>1 DEF Escalated
    <2>2. \A q \in Request : pc[q] = "idle" => pc'[q] # "written" /\ pc'[q] # "update"
      BY <1>1, <1>2
    <2>3. \A q \in Request :
             pc'[q] # "idle" /\ job'[q].escalated => job'[q].on \in Id /\ Escalated(job'[q].on)
      BY <1>1, <1>2 DEF EscalationHeld, InFlight
    <2> QED
      BY <1>1, <1>2, <2>1, <2>3 DEF EscalationHeld, Exists
  <1>11. FlagHeld'
    <2>1. \A q \in Request, b \in Business : Leaving(q, b)' => Leaving(q, b)
      BY <1>1, <1>2 DEF Leaving
    <2> QED
      BY <1>1, <1>2, <2>1 DEF FlagHeld, Exists, Wrote, Recorded
  <1> QED
    BY <1>3, <1>4, <1>5, <1>6, <1>7, <1>8, <1>9, <1>10, <1>11

\* What a COMMIT does to each row and its record.
LEMMA CommitFacts ==
  ASSUME IInv, NEW r \in Request, Commit(r)
  PROVE  /\ pc[r] = "written" /\ job[r] \in Job
         /\ \A i \in Id : ~Wrote(r, i) => accreditations'[i] = accreditations[i] /\ log'[i] = log[i]
         /\ \A i \in Id : Wrote(r, i) =>
              /\ log'[i] = Append(log[i], job[r].op)
              /\ job[r].op \notin Sweeps => i = job[r].on
              /\ accreditations'[i] \in Row
              /\ \/ job[r].op = "request" /\ ~Exists(i) /\ accreditations'[i] = Requested
                 \/ /\ job[r].op \in Decisions \union Sweeps
                    /\ Exists(i) /\ accreditations[i] \in Row
                    /\ accreditations'[i] = Written(job[r].op, accreditations[i])
         /\ \A i \in Id, op \in Op : Recorded(i, op) => Recorded(i, op)'
         /\ \A i \in Id : Wrote(r, i) => Recorded(i, job[r].op)'
         /\ \A i \in Id : Exists(i) => Exists(i)'
         /\ \A i \in Id : Approved(i) => Approved(i)'
  <1> USE DEF IInv
  <1>1. /\ pc[r] = "written" /\ job[r] \in Job /\ job[r].op \in Op
        /\ accreditations' = [i \in Id |-> IF Wrote(r, i) THEN draft[r][i] ELSE accreditations[i]]
        /\ log' = [i \in Id |-> IF Wrote(r, i) THEN Append(log[i], job[r].op) ELSE log[i]]
    BY DEF Commit, JobAtPc, TypeOK, Job
  <1>2. ASSUME NEW i \in Id, Wrote(r, i)
        PROVE  /\ log'[i] = Append(log[i], job[r].op)
               /\ job[r].op \notin Sweeps => i = job[r].on
               /\ accreditations'[i] \in Row
               /\ \/ job[r].op = "request" /\ ~Exists(i) /\ accreditations'[i] = Requested
                  \/ /\ job[r].op \in Decisions \union Sweeps
                     /\ Exists(i) /\ accreditations[i] \in Row
                     /\ accreditations'[i] = Written(job[r].op, accreditations[i])
    <2>1. /\ log'[i] = Append(log[i], job[r].op) /\ accreditations'[i] = draft[r][i]
          /\ draft[r][i] \in Row
      BY <1>1, <1>2 DEF Wrote, TypeOK
    <2>2. job[r].op \notin Sweeps => i = job[r].on
      BY <1>2 DEF DraftIsCurrent
    <2>3. \/ job[r].op = "request" /\ ~Exists(i) /\ draft[r][i] = Requested
          \/ job[r].op # "request" /\ Exists(i) /\ draft[r][i] = Written(job[r].op, accreditations[i])
      BY <1>2 DEF DraftIsCurrent
    <2> QED
      BY <1>1, <2>1, <2>2, <2>3 DEF Op, Exists, TypeOK
  <1>3. ASSUME NEW i \in Id, ~Wrote(r, i)
        PROVE  accreditations'[i] = accreditations[i] /\ log'[i] = log[i]
    BY <1>1, <1>3
  <1>4. ASSUME NEW i \in Id, NEW op \in Op, Recorded(i, op) PROVE Recorded(i, op)'
    <2>1. log[i] \in Seq(Op)
      BY DEF TypeOK
    <2>2. PICK n \in DOMAIN log[i] : log[i][n] = op
      BY <1>4 DEF Recorded
    <2>3. n \in DOMAIN log'[i] /\ log'[i][n] = op
      BY <1>1, <1>2, <1>3, <2>1, <2>2
    <2> QED
      BY <2>3 DEF Recorded
  <1>5. ASSUME NEW i \in Id, Wrote(r, i) PROVE Recorded(i, job[r].op)'
    <2>1. log[i] \in Seq(Op) /\ log'[i] = Append(log[i], job[r].op)
      BY <1>2, <1>5 DEF TypeOK
    <2>2. Len(log[i]) + 1 \in DOMAIN log'[i] /\ log'[i][Len(log[i]) + 1] = job[r].op
      BY <1>1, <2>1
    <2>3. job' = job
      BY DEF Commit
    <2> QED
      BY <2>2, <2>3 DEF Recorded
  <1>6. ASSUME NEW i \in Id, Exists(i) PROVE Exists(i)'
    BY <1>2, <1>3, <1>6, SentinelAssumption DEF Exists
  <1>7. ASSUME NEW i \in Id, Approved(i) PROVE Approved(i)'
    <2>1. accreditations[i].stamped \subseteq accreditations'[i].stamped
      BY <1>2, <1>3, <1>7, WrittenFacts DEF Approved
    <2>2. Recorded(i, "approve")'
      BY <1>4, <1>7 DEF Approved, Op, Decisions
    <2> QED
      BY <1>6, <1>7, <2>1, <2>2 DEF Approved
  <1> QED
    BY <1>1, <1>2, <1>3, <1>4, <1>5, <1>6, <1>7

LEMMA CommitIInv ==
  ASSUME IInv, NEW r \in Request, Commit(r)
  PROVE  IInv'
  <1> USE DEF IInv
  <1> DEFINE op == job[r].op
  <1>1. /\ pc[r] = "written" /\ job[r] \in Job /\ op \in Op
        /\ pc' = [pc EXCEPT ![r] = "committed"]
        /\ draft' = [draft EXCEPT ![r] = Nothing]
        /\ minted' = [minted EXCEPT ![r] = NoPlatformId]
        /\ seen' = [seen EXCEPT ![r] = {}] /\ todo' = [todo EXCEPT ![r] = {}]
        /\ UNCHANGED <<linked, job>>
    BY CommitFacts DEF Commit, Discard, Goto, Job
  <1>2. /\ accreditations' = [i \in Id |-> IF Wrote(r, i) THEN draft[r][i] ELSE accreditations[i]]
        /\ log' = [i \in Id |-> IF Wrote(r, i) THEN Append(log[i], op) ELSE log[i]]
        /\ affiliation' = IF op = "end" THEN [affiliation EXCEPT ![job[r].on] = "ended"] ELSE affiliation
        /\ overdue' = IF op = "approve" THEN overdue \ {job[r].on} ELSE overdue
        /\ platformId' = IF op = "activate" THEN minted[r] ELSE platformId
    BY DEF Commit
  <1>3. /\ pc'[r] = "committed" /\ minted'[r] = NoPlatformId /\ seen'[r] = {} /\ todo'[r] = {}
        /\ \A i \in Id : draft'[r][i] = NoRow
        /\ \A q \in Request \ {r} : /\ pc'[q] = pc[q] /\ draft'[q] = draft[q] /\ minted'[q] = minted[q]
                                    /\ seen'[q] = seen[q] /\ todo'[q] = todo[q]
    BY <1>1 DEF TypeOK, Nothing
  <1>4. /\ \A i \in Id : ~Wrote(r, i) => accreditations'[i] = accreditations[i] /\ log'[i] = log[i]
        /\ \A i \in Id : Wrote(r, i) =>
             /\ log'[i] = Append(log[i], op)
             /\ op \notin Sweeps => i = job[r].on
             /\ accreditations'[i] \in Row
             /\ \/ op = "request" /\ ~Exists(i) /\ accreditations'[i] = Requested
                \/ /\ op \in Decisions \union Sweeps
                   /\ Exists(i) /\ accreditations[i] \in Row
                   /\ accreditations'[i] = Written(op, accreditations[i])
    BY CommitFacts
  <1>5. /\ \A i \in Id, x \in Op : Recorded(i, x) => Recorded(i, x)'
        /\ \A i \in Id : Exists(i) => Exists(i)'
        /\ \A i \in Id : Approved(i) => Approved(i)'
    BY CommitFacts
  <1>6. \A q \in Request, i \in Id : Wrote(q, i)' => q # r /\ Wrote(q, i) /\ ~Wrote(r, i)
    BY <1>3 DEF Wrote, DraftIsCurrent
  <1>7. \A q \in Request : q # r /\ pc[q] \in Asking => ~Wrote(r, job[q].on) /\ job[q].on \in Id
    <2>1. ASSUME NEW q \in Request, q # r, pc[q] \in Asking
          PROVE  job[q].on \in Id /\ job[q].op = "request" /\ ~Exists(job[q].on) /\ pc[q] # "idle"
      BY <2>1 DEF JobAtPc, RequestsAreFresh, Asking
    <2>2. ASSUME NEW q \in Request, q # r, pc[q] \in Asking, Wrote(r, job[q].on)
          PROVE  FALSE
      <3>1. op = "request" /\ job[r].on = job[q].on
        BY <1>4, <2>1, <2>2 DEF Sweeps
      <3> QED
        BY <1>1, <2>1, <2>2, <3>1 DEF RequestsAreFresh
    <2> QED
      BY <2>1, <2>2
  <1> HIDE DEF op
  <1>8. TypeOK'
    <2>1. accreditations' \in [Id -> Row \union {NoRow}] /\ log' \in [Id -> Seq(Op)]
      BY <1>1, <1>2 DEF TypeOK
    <2>2. affiliation' \in [Business -> {"active", "pending_confirmation", "ended"}]
      BY <1>2 DEF TypeOK
    <2>3. overdue' \subseteq Id /\ platformId' \in Request \union {NoPlatformId}
      BY <1>2 DEF TypeOK
    <2>4. draft' \in [Request -> [Id -> Row \union {NoRow}]]
      BY <1>1 DEF TypeOK, Nothing
    <2> QED
      BY <1>1, <2>1, <2>2, <2>3, <2>4 DEF TypeOK, Finished
  <1>9. JobAtPc'
    BY <1>1, <1>3 DEF JobAtPc, Asking
  <1>10. RequestsAreFresh'
    <2>1. ASSUME NEW q \in Request, pc'[q] \in Asking PROVE ~Exists(job[q].on)'
      <3>1. q # r /\ pc[q] \in Asking
        BY <1>3, <2>1 DEF Asking
      <3> QED
        BY <1>1, <1>4, <1>7, <3>1 DEF RequestsAreFresh, Exists
    <2> QED
      BY <1>1, <1>3, <1>5, <2>1 DEF RequestsAreFresh
  <1>11. FoundOrWritten'
    <2>1. ASSUME NEW q \in Request, pc'[q] = "update" PROVE Exists(job[q].on)'
      <3>1. q # r /\ pc[q] = "update" /\ job[q].on \in Id
        BY <1>3, <2>1 DEF JobAtPc
      <3> QED
        BY <1>1, <1>5, <3>1 DEF FoundOrWritten
    <2>2. ASSUME NEW q \in Request, pc'[q] \in {"mint", "written"}, job'[q].op \in Decisions
          PROVE  Wrote(q, job[q].on)'
      BY <1>1, <1>3, <2>2 DEF FoundOrWritten, Wrote
    <2> QED
      BY <1>1, <2>1, <2>2 DEF FoundOrWritten
  <1>12. DraftIsCurrent'
    <2>1. ASSUME NEW q \in Request, NEW i \in Id, Wrote(q, i)'
          PROVE  /\ pc'[q] \in {"mint", "locking", "written"}
                 /\ job'[q].op \notin Sweeps => i = job'[q].on
                 /\ IF job'[q].op = "request" THEN ~Exists(i)' /\ draft'[q][i] = Requested
                    ELSE Exists(i)' /\ draft'[q][i] = Written(job'[q].op, accreditations'[i])
      BY <1>1, <1>3, <1>4, <1>6, <2>1 DEF DraftIsCurrent, Exists
    <2>2. ASSUME NEW q \in Request, NEW i \in Id, Wrote(q, i)', job'[q].op \in Sweeps
          PROVE  Matches(job[q], i)'
      <3>1. Matches(job[q], i) /\ ~Wrote(r, i)
        BY <1>1, <1>6, <2>2 DEF DraftIsCurrent
      <3>2. i \in overdue => i \in overdue'
        BY <1>1, <1>2, <3>1 DEF FoundOrWritten, Decisions, op
      <3> QED
        BY <1>1, <1>4, <3>1, <3>2 DEF Matches, Exists
    <2> QED
      BY <1>1, <1>6, <2>1, <2>2 DEF DraftIsCurrent
  <1>13. KeysApart' /\ OneLivePerScope'
    <2>1. \A i \in Id : Live(accreditations'[i]) => Live(accreditations[i]) \/ Live(draft[r][i])
      BY <1>2
    <2>2. \A q \in Request, i \in Id : Live(draft'[q][i]) => q # r /\ Live(draft[q][i])
      BY <1>3 DEF Live
    <2>3. \A i, k \in Id : k \in Rivals(i) <=> k # i /\ ScopeOf[k] = ScopeOf[i]
      BY DEF Rivals
    <2>4. \A i \in Id : Rivals(i) \subseteq Id
      BY DEF Rivals
    <2>5. KeysApart'
      BY <2>1, <2>2, <2>4 DEF KeysApart
    <2>6. OneLivePerScope'
      BY <2>1, <2>3 DEF KeysApart, OneLivePerScope
    <2> QED
      BY <2>5, <2>6
  <1>14. MintIsCurrent'
    BY <1>1, <1>2, <1>3 DEF MintIsCurrent
  <1>15. ApprovalHeld'
    <2>1. ASSUME NEW i \in Id, Exists(i)', InForce(accreditations'[i]) PROVE Approved(i)'
      <3>1. CASE ~Wrote(r, i)
        BY <1>4, <1>5, <2>1, <3>1 DEF ApprovalHeld, Exists
      <3>2. CASE Wrote(r, i) /\ op = "request"
        BY <1>4, <2>1, <3>2 DEF Requested, InForce, Decisions, Sweeps
      <3>3. CASE Wrote(r, i) /\ op # "request"
        <4>1. /\ op \in Decisions \union Sweeps /\ Exists(i) /\ accreditations[i] \in Row
              /\ accreditations'[i] = Written(op, accreditations[i])
          BY <1>4, <3>3
        <4>2. op \in {"approve", "activate", "lapse"} \/ InForce(accreditations[i])
          BY <2>1, <4>1, WrittenFacts
        <4>3. CASE op = "approve"
          <5>1. Recorded(i, "approve")'
            BY <1>1, <3>3, <4>3, CommitFacts DEF op
          <5>2. {"decided_at", "training_deadline_at"} \subseteq accreditations'[i].stamped
            BY <4>1, <4>3, WrittenFacts
          <5> QED
            BY <2>1, <5>1, <5>2 DEF Approved
        <4>4. CASE op = "activate"
          BY <1>1, <1>4, <1>5, <3>3, <4>4 DEF ApprovalHeld, op, Sweeps
        <4>5. CASE op = "lapse"
          <5>1. accreditations[i].status = "pending"
            BY <3>3, <4>5 DEF DraftIsCurrent, Matches, op, Sweeps
          <5> QED
            BY <1>5, <4>1, <5>1 DEF ApprovalHeld, InForce
        <4>6. CASE InForce(accreditations[i])
          BY <1>5, <4>1, <4>6 DEF ApprovalHeld
        <4> QED
          BY <4>2, <4>3, <4>4, <4>5, <4>6
      <3> QED
        BY <3>1, <3>2, <3>3
    <2>2. ASSUME NEW q \in Request, pc'[q] \in {"update", "mint", "written"}, job'[q].op = "activate"
          PROVE  Approved(job[q].on)'
      <3>1. pc[q] \in {"update", "mint", "written"} /\ job[q].op = "activate"
        BY <1>1, <1>3, <2>2
      <3>2. job[q].on \in Id
        BY <3>1 DEF JobAtPc, Decisions
      <3> QED
        BY <1>1, <1>5, <3>1, <3>2 DEF ApprovalHeld
    <2> QED
      BY <1>1, <2>1, <2>2 DEF ApprovalHeld
  <1>16. EscalationHeld'
    <2>1. ASSUME NEW i \in Id, Exists(i), accreditations[i].step = "senior_approver"
          PROVE  Exists(i)' /\ accreditations'[i].step = "senior_approver"
      <3>1. CASE Wrote(r, i)
        BY <1>4, <1>5, <2>1, <3>1, WrittenFacts
      <3>2. CASE ~Wrote(r, i)
        BY <1>4, <1>5, <2>1, <3>2
      <3> QED
        BY <3>1, <3>2
    <2>2. ASSUME NEW i \in Id, Escalated(i)'
          PROVE  Exists(i)' /\ accreditations'[i].step = "senior_approver"
      <3>1. Escalated(i) \/ (Wrote(r, i) /\ op = "escalate")
        <4>1. CASE ~Wrote(r, i)
          BY <1>4, <2>2, <4>1 DEF Escalated
        <4>2. CASE Wrote(r, i)
          <5>1. log[i] \in Seq(Op) /\ op \in Op /\ log'[i] = Append(log[i], op)
            BY <1>1, <1>4, <4>2 DEF TypeOK, Job, op
          <5>2. PICK n \in DOMAIN log'[i] : log'[i][n] = "escalate"
            BY <2>2 DEF Escalated
          <5>3. (n \in DOMAIN log[i] /\ log'[i][n] = log[i][n]) \/ log'[i][n] = op
            BY <5>1, <5>2
          <5> QED
            BY <4>2, <5>2, <5>3 DEF Escalated
        <4> QED
          BY <4>1, <4>2
      <3>2. CASE Escalated(i)
        BY <2>1, <3>2 DEF EscalationHeld
      <3>3. CASE Wrote(r, i) /\ op = "escalate"
        <4>1. /\ Exists(i) /\ accreditations[i] \in Row /\ op \in Decisions \union Sweeps
              /\ accreditations'[i] = Written(op, accreditations[i])
          BY <1>4, <3>3
        <4>2. accreditations'[i].step = "senior_approver"
          BY <3>3, <4>1, WrittenFacts
        <4> QED
          BY <1>5, <4>1, <4>2
      <3> QED
        BY <3>1, <3>2, <3>3
    <2>3. \A i \in Id : Escalated(i) => Escalated(i)'
      BY <1>5 DEF Escalated, Recorded, Op, Decisions
    <2> QED
      BY <1>1, <1>3, <2>2, <2>3 DEF EscalationHeld
  <1>17. FlagHeld'
    <2>1. \A q \in Request, b \in Business : Leaving(q, b)' => Leaving(q, b) /\ q # r
      BY <1>1, <1>3 DEF Leaving
    <2>2. ASSUME NEW i \in Id, Exists(i)', accreditations'[i].status = "declined"
          PROVE  Recorded(i, "decline")'
      <3>1. CASE ~Wrote(r, i)
        <4>1. Recorded(i, "decline")
          BY <1>4, <2>2, <3>1 DEF FlagHeld, Exists
        <4> QED
          BY <1>5, <4>1 DEF Op, Decisions
      <3>2. CASE Wrote(r, i) /\ op = "decline"
        BY <1>1, <3>2, CommitFacts DEF op
      <3>3. CASE Wrote(r, i) /\ op # "decline"
        <4>1. Exists(i) /\ accreditations[i].status = "declined"
          BY <1>4, <2>2, <3>3, WrittenFacts DEF Requested
        <4>2. Recorded(i, "decline")
          BY <4>1 DEF FlagHeld
        <4> QED
          BY <1>5, <4>2 DEF Op, Decisions
      <3> QED
        BY <3>1, <3>2, <3>3
    <2>3. ASSUME NEW q \in Request
          PROVE  /\ todo'[q] \subseteq seen'[q]
                 /\ seen'[q] # {} => pc'[q] \in {"locking", "written"}
                 /\ pc'[q] = "written" => todo'[q] = {}
      BY <1>3 DEF FlagHeld
    <2>4. ASSUME NEW q \in Request, job'[q] # NoJob, job'[q].op = "end", NEW i \in seen'[q]
          PROVE  /\ Exists(i)' /\ BusinessOf[i] = job'[q].on
                 /\ accreditations'[i].status # "party_changed_pending"
                 /\ i \in todo'[q] \/ Wrote(q, i)' \/ Recorded(i, "decline")'
      <3>1. /\ q # r /\ i \in seen[q] /\ seen'[q] = seen[q] /\ todo'[q] = todo[q]
            /\ job' = job
        BY <1>1, <1>3, <2>4
      <3>2. i \in Id /\ pc[q] \in {"locking", "written"}
        BY <3>1 DEF TypeOK, FlagHeld
      <3>3. /\ Exists(i) /\ BusinessOf[i] = job[q].on
            /\ accreditations[i].status # "party_changed_pending"
            /\ i \in todo[q] \/ Wrote(q, i) \/ Recorded(i, "decline")
        BY <2>4, <3>1 DEF FlagHeld
      <3>4. i \in todo'[q] \/ Wrote(q, i)' \/ Recorded(i, "decline")'
        <4>1. Wrote(q, i) => Wrote(q, i)'
          BY <1>3, <3>1 DEF Wrote
        <4>2. Recorded(i, "decline") => Recorded(i, "decline")'
          BY <1>5, <3>2 DEF Op, Decisions
        <4> QED
          BY <3>1, <3>3, <4>1, <4>2
      <3>5. ASSUME Wrote(r, i) PROVE op # "end"
        <4>1. SUFFICES ASSUME op = "end" PROVE FALSE
          OBVIOUS
        <4>2. BusinessOf[i] = job[r].on
          BY <3>2, <3>5, <4>1 DEF DraftIsCurrent, Matches, Sweeps, op
        <4>3. job[r].on \in Business
          BY <1>1, <4>1 DEF JobAtPc, op
        <4>4. Leaving(q, job[r].on) /\ Leaving(r, job[r].on)
          BY <1>1, <2>4, <3>1, <3>2, <3>3, <4>1, <4>2 DEF Leaving, op
        <4> QED
          BY <3>1, <4>3, <4>4 DEF FlagHeld
      <3>6. accreditations'[i].status # "party_changed_pending"
        <4>1. CASE ~Wrote(r, i)
          BY <1>4, <3>2, <3>3, <4>1
        <4>2. CASE Wrote(r, i)
          BY <1>4, <3>2, <3>3, <3>5, <4>2, WrittenFacts
        <4> QED
          BY <4>1, <4>2
      <3> QED
        BY <1>5, <3>1, <3>2, <3>3, <3>4, <3>6
    <2> QED
      BY <2>1, <2>2, <2>3, <2>4 DEF FlagHeld
  <1> QED
    BY <1>8, <1>9, <1>10, <1>11, <1>12, <1>13, <1>14, <1>15, <1>16, <1>17

LEMMA NextIInv == IInv /\ [Next]_vars => IInv'
  <1> SUFFICES ASSUME IInv, [Next]_vars PROVE IInv'
    OBVIOUS
  <1>1. ASSUME NEW r \in Request, NEW op \in Op, NEW on \in Id \union Business \union {Lender},
               NEW by \in User \union {Broker}, Begin(r, op, on, by)
        PROVE  IInv'
    BY <1>1, BeginIInv
  <1>2. ASSUME NEW r \in Request, Statement(r) PROVE IInv'
    BY <1>2, ReadingIInv, InsertIInv, UpdateIInv, MintIInv, SweepIInv, LockRowIInv, CommitIInv
       DEF Statement
  <1>3. ASSUME NEW r \in Request, Abort(r) \/ DetectDeadlock(r) PROVE IInv'
    BY <1>3, AbortIInv DEF DetectDeadlock
  <1>4. CASE (\E i \in Id : DeadlinePasses(i)) \/ LinkChanges
            \/ (\E b \in Business : Rejoin(b)) \/ UNCHANGED vars
    BY <1>4, AroundIInv
  <1>5. CASE Next
    <2>1. CASE \E r \in Request, op \in Op, on \in Id \union Business \union {Lender},
                  by \in User \union {Broker} : Begin(r, op, on, by)
      BY <1>1, <2>1
    <2>2. CASE \E r \in Request : Statement(r)
      BY <1>2, <2>2
    <2>3. CASE \E r \in Request : Abort(r) \/ DetectDeadlock(r)
      BY <1>3, <2>3
    <2> QED
      BY <1>4, <1>5, <2>1, <2>2, <2>3 DEF Next, Served
  <1> QED
    BY <1>4, <1>5

LEMMA Invariance == Spec => []IInv
  <1> QED
    BY InitIInv, NextIInv, PTL DEF Spec

(***************************************************************************)
(* What replaying a log computes.                                          *)
(***************************************************************************)

\* Every non-empty set of naturals has a least element.
LEMMA LeastElement ==
  ASSUME NEW S, S \subseteq Nat, S # {}
  PROVE  \E n \in S : \A m \in S : n <= m
  <1>1. PICK n \in S : \A m \in S : <<m, n>> \notin OpToRel(<, Nat)
    BY NatLessThanWellFounded, WFMin
  <1>2. \A m \in S : ~(m < n)
    BY <1>1 DEF OpToRel
  <1> QED
    BY <1>2

\* The version one recorded call makes of another.
Version(op, row) == IF op = "request" THEN Requested ELSE Written(op, row)

\* versions[n] is what the first n of the calls leave.
IsReplay(ops, len, versions) ==
  \A n \in 0..len : versions[n] = IF n = 0 THEN NoRow ELSE Version(ops[n], versions[n - 1])

LEMMA ReplayExists ==
  ASSUME NEW ops, NEW len \in Nat
  PROVE  \E versions : IsReplay(ops, len, versions)
  <1> DEFINE without == {n \in Nat : ~\E versions : IsReplay(ops, n, versions)}
  <1> SUFFICES ASSUME without # {} PROVE FALSE
    OBVIOUS
  <1>1. without \subseteq Nat
    OBVIOUS
  <1> HIDE DEF without
  <1>2. PICK n \in without : \A m \in without : n <= m
    BY <1>1, LeastElement
  <1> USE DEF without
  <1>3. n # 0
    <2> DEFINE first == [m \in {0} |-> NoRow]
    <2>1. first[0] = NoRow
      OBVIOUS
    <2> HIDE DEF first
    <2>2. IsReplay(ops, 0, first)
      BY <2>1 DEF IsReplay
    <2> QED
      BY <2>2
  <1>4. n - 1 \in Nat /\ n - 1 \notin without
    BY <1>2, <1>3
  <1>5. PICK shorter : IsReplay(ops, n - 1, shorter)
    BY <1>4
  <1> DEFINE longer == [m \in 0..n |-> IF m = n THEN Version(ops[n], shorter[n - 1]) ELSE shorter[m]]
  <1>6. /\ longer[n] = Version(ops[n], shorter[n - 1])
        /\ \A m \in 0..(n - 1) : longer[m] = shorter[m]
    BY <1>4
  <1> HIDE DEF longer
  <1>7. ASSUME NEW m \in 0..n
        PROVE  longer[m] = IF m = 0 THEN NoRow ELSE Version(ops[m], longer[m - 1])
    <2>1. CASE m = n
      BY <1>3, <1>4, <1>6, <2>1
    <2>2. CASE m # n
      <3>1. m \in 0..(n - 1) /\ (m # 0 => m - 1 \in 0..(n - 1))
        BY <1>4, <2>2
      <3> QED
        BY <1>5, <1>6, <3>1 DEF IsReplay
    <2> QED
      BY <2>1, <2>2
  <1>8. IsReplay(ops, n, longer)
    BY <1>7 DEF IsReplay
  <1> QED
    BY <1>8

\* The first place where two replays of the same calls differ would apply one call to equal
\* versions, so there is none.
LEMMA ReplayUnique ==
  ASSUME NEW ops, NEW len \in Nat, NEW f, NEW g, IsReplay(ops, len, f), IsReplay(ops, len, g)
  PROVE  f[len] = g[len]
  <1> DEFINE differ == {n \in 0..len : f[n] # g[n]}
  <1>1. differ = {}
    <2> SUFFICES ASSUME differ # {} PROVE FALSE
      OBVIOUS
    <2>1. differ \subseteq Nat
      OBVIOUS
    <2> HIDE DEF differ
    <2>2. PICK n \in differ : \A m \in differ : n <= m
      BY <2>1, LeastElement
    <2> USE DEF differ
    <2>3. n # 0
      BY DEF IsReplay
    <2>4. n - 1 \in 0..len /\ n - 1 \notin differ
      BY <2>2, <2>3
    <2> QED
      BY <2>3, <2>4 DEF IsReplay
  <1> QED
    BY <1>1

\* The recursive function of Replay is the replay.
LEMMA ReplayIs ==
  ASSUME NEW ops \in Seq(Op), NEW f, IsReplay(ops, Len(ops), f)
  PROVE  Replay(ops) = f[Len(ops)]
  <1> DEFINE row[n \in 0..Len(ops)] ==
               IF n = 0 THEN NoRow
               ELSE IF ops[n] = "request" THEN Requested ELSE Written(ops[n], row[n - 1])
             Solves(g) == g = [n \in 0..Len(ops) |->
                                 IF n = 0 THEN NoRow
                                 ELSE IF ops[n] = "request" THEN Requested
                                      ELSE Written(ops[n], g[n - 1])]
             cut == [n \in 0..Len(ops) |-> f[n]]
  <1>1. Solves(cut)
    <2>1. \A n \in 0..Len(ops) : n # 0 => n - 1 \in 0..Len(ops)
      OBVIOUS
    <2> QED
      BY <2>1 DEF IsReplay, Version
  <1>2. row = CHOOSE g : Solves(g)
    OBVIOUS
  <1>3. Replay(ops) = row[Len(ops)]
    BY DEF Replay
  <1> HIDE DEF row, cut
  <1>4. Solves(row)
    <2> HIDE DEF Solves
    <2> QED
      BY <1>1, <1>2
  <1>5. IsReplay(ops, Len(ops), row)
    BY <1>4 DEF IsReplay, Version
  <1> QED
    BY <1>3, <1>5, ReplayUnique

\* Replaying nothing leaves no row, and one call more applies it to what the others left.
LEMMA ReplayStep ==
  /\ Replay(<<>>) = NoRow
  /\ \A ops \in Seq(Op), op \in Op : Replay(Append(ops, op)) = Version(op, Replay(ops))
  <1>1. Replay(<<>>) = NoRow
    <2>1. PICK f : IsReplay(<<>>, 0, f)
      BY ReplayExists
    <2>2. Len(<<>>) = 0 /\ <<>> \in Seq(Op)
      OBVIOUS
    <2>3. Replay(<<>>) = f[0]
      BY <2>1, <2>2, ReplayIs
    <2> QED
      BY <2>1, <2>3 DEF IsReplay
  <1>2. ASSUME NEW ops \in Seq(Op), NEW op \in Op
        PROVE  Replay(Append(ops, op)) = Version(op, Replay(ops))
    <2> DEFINE len == Len(ops)
               longer == Append(ops, op)
    <2>1. /\ len \in Nat /\ longer \in Seq(Op) /\ Len(longer) = len + 1
          /\ longer[len + 1] = op
          /\ \A n \in 1..len : longer[n] = ops[n]
      OBVIOUS
    <2> HIDE DEF longer
    <2>2. PICK f : IsReplay(longer, len + 1, f)
      <3>1. len + 1 \in Nat
        BY <2>1
      <3> HIDE DEF len
      <3> QED
        BY <3>1, ReplayExists
    <2>3. IsReplay(ops, len, f)
      <3> SUFFICES ASSUME NEW n \in 0..len
                   PROVE  f[n] = IF n = 0 THEN NoRow ELSE Version(ops[n], f[n - 1])
        BY DEF IsReplay
      <3>1. n \in 0..(len + 1) /\ (n # 0 => n \in 1..len)
        BY <2>1
      <3> QED
        BY <2>1, <2>2, <3>1 DEF IsReplay
    <2>4. Replay(ops) = f[len] /\ Replay(longer) = f[len + 1]
      BY <2>1, <2>2, <2>3, ReplayIs
    <2>5. f[len + 1] = Version(op, f[len])
      BY <2>1, <2>2 DEF IsReplay
    <2> QED
      BY <2>4, <2>5 DEF longer
  <1> QED
    BY <1>1, <1>2

LEMMA ReplayOnFile == ASSUME NEW i \in Id PROVE OnFile(History[i]) = Replay(History[i])
  <1>1. History[i] \in HistoryOnFile
    BY HistoryAssumption
  <1>2. {"request", "escalate", "approve"} \subseteq Op
    BY DEF Op, Decisions
  <1>3. Replay(<<"request">>) = Requested
    <2>1. <<"request">> = Append(<<>>, "request") /\ <<>> \in Seq(Op)
      OBVIOUS
    <2> QED
      BY <1>2, <2>1, ReplayStep DEF Version
  <1>4. ASSUME NEW op \in {"escalate", "approve"}
        PROVE  Replay(<<"request", op>>) = Written(op, Requested)
    <2>1. <<"request", op>> = Append(<<"request">>, op) /\ <<"request">> \in Seq(Op)
      BY <1>2
    <2> QED
      BY <1>2, <1>3, <2>1, ReplayStep DEF Version
  <1> QED
    BY <1>1, <1>3, <1>4, ReplayStep DEF HistoryOnFile, OnFile

\* Only COMMIT writes the table, and it appends to the log of each row it writes.
LEMMA OnlyCommitWrites ==
  ASSUME [Next]_vars, ~(\E r \in Request : Commit(r))
  PROVE  accreditations' = accreditations /\ log' = log
  <1>1. CASE Next
    <2>1. CASE \E r \in Request, op \in Op, on \in Id \union Business \union {Lender},
                  by \in User \union {Broker} : Begin(r, op, on, by)
      BY <2>1 DEF Begin, database
    <2>2. CASE ~(\E r \in Request, op \in Op, on \in Id \union Business \union {Lender},
                    by \in User \union {Broker} : Begin(r, op, on, by))
      BY <1>1, <2>2
         DEF Next, Statement, CheckAffiliation, CheckRelationship, Insert, Check, Update,
             Mint, Leave, Sweep, LockRow, Abort, DetectDeadlock, DeadlinePasses, LinkChanges,
             Rejoin, Served, vars, database
    <2> QED
      BY <2>1, <2>2
  <1> QED
    BY <1>1 DEF vars

(***************************************************************************)
(* Theorems.                                                               *)
(***************************************************************************)

\* Every table, call and draft has its type, whatever calls overlap.
THEOREM TypeCorrect == Spec => []TypeOK
  <1>1. IInv => TypeOK
    BY DEF IInv
  <1> QED
    BY <1>1, Invariance, PTL

\* However many requests, re-requests and late decisions interleave, the unique index and its
\* waits leave a scope with at most one live accreditation.
THEOREM UniqueScope == Spec => []OneLivePerScope
  <1>1. IInv => OneLivePerScope
    BY DEF IInv
  <1> QED
    BY <1>1, Invariance, PTL

\* An accreditation that is pending, active or lapsed was approved by a call that committed,
\* although activation writes on the strength of a status it read earlier.
THEOREM ApprovedBeforeInForce == Spec => []NothingInForceUnapproved
  <1>1. IInv => NothingInForceUnapproved
    BY DEF IInv, ApprovalHeld, NothingInForceUnapproved, InForce, Approved, Recorded
  <1> QED
    BY <1>1, Invariance, PTL

\* checkTrainingDeadlines lapses only rows that are pending and overdue when it commits.
THEOREM LapseIsCurrent == Spec => LapsesOnlyOverdue
  <1>1. ASSUME IInv, [Next]_vars, NEW r \in Request, NEW i \in Id,
               Commits(r), job[r].op = "lapse", Wrote(r, i)
        PROVE  accreditations[i].status = "pending" /\ i \in overdue
    <2>1. job[r].op \in Sweeps /\ job[r].op # "end"
      BY <1>1 DEF Sweeps
    <2> QED
      BY <1>1, <2>1 DEF IInv, DraftIsCurrent, Matches
  <1>2. IInv /\ [Next]_vars =>
          \A r \in Request, i \in Id :
            Commits(r) /\ job[r].op = "lapse" /\ Wrote(r, i) =>
              accreditations[i].status = "pending" /\ i \in overdue
    BY <1>1
  <1> QED
    BY <1>2, Invariance, PTL DEF Spec, LapsesOnlyOverdue

\* Approving and declining a row that was escalated before the call began, on file or by a
\* call since, is left to the senior approvers, whatever else runs.
THEOREM EscalationBinds == Spec => EarlierEscalationBinds
  <1>1. IInv /\ [Next]_vars =>
          \A r \in Request :
            Commits(r) /\ job[r].op \in {"approve", "decline"}
              /\ job[r].escalated => job[r].by \in Senior
    BY DEF IInv, EscalationHeld, Commits
  <1> QED
    BY <1>1, Invariance, PTL DEF Spec, EarlierEscalationBinds

\* Only a COMMIT brings a call to its committed state.
LEMMA CommitsIsCommit ==
  ASSUME IInv, [Next]_vars, NEW r \in Request, Commits(r)
  PROVE  Commit(r)
  <1>1. pc[r] = "written" /\ pc'[r] = "committed"
    BY DEF Commits
  <1>2. ASSUME NEW q \in Request, NEW where, Goto(q, where), q # r \/ where # "committed"
        PROVE  FALSE
    BY <1>1, <1>2 DEF Goto, IInv, TypeOK
  <1>3. pc' # pc
    BY <1>1
  <1>4. ASSUME NEW q \in Request, NEW op \in Op, NEW on \in Id \union Business \union {Lender},
               NEW by \in User \union {Broker}, Begin(q, op, on, by)
        PROVE  FALSE
    <2>1. pc[q] = "idle"
      BY <1>4 DEF Begin
    <2> QED
      BY <1>1, <1>2, <1>4, <2>1 DEF Begin
  <1>5. ASSUME NEW q \in Request, Statement(q), ~Commit(q) PROVE FALSE
    BY <1>2, <1>5
       DEF Statement, CheckAffiliation, CheckRelationship, Insert, Check, Update, Mint, Leave, Sweep, LockRow
  <1>6. ASSUME NEW q \in Request, Abort(q) \/ DetectDeadlock(q) PROVE FALSE
    BY <1>2, <1>6 DEF DetectDeadlock, Abort
  <1>7. ASSUME NEW q \in Request, Commit(q) PROVE q = r
    BY <1>2, <1>7 DEF Commit
  <1>8. CASE (\E i \in Id : DeadlinePasses(i)) \/ LinkChanges
            \/ (\E b \in Business : Rejoin(b)) \/ UNCHANGED vars
    BY <1>3, <1>8 DEF DeadlinePasses, LinkChanges, Rejoin, calls, vars
  <1>9. CASE Next
    <2>1. CASE \E q \in Request, op \in Op, on \in Id \union Business \union {Lender},
                  by \in User \union {Broker} : Begin(q, op, on, by)
      BY <1>4, <2>1
    <2>2. CASE \E q \in Request : Statement(q)
      BY <1>5, <1>7, <2>2
    <2>3. CASE \E q \in Request : Abort(q) \/ DetectDeadlock(q)
      BY <1>6, <2>3
    <2> QED
      BY <1>8, <1>9, <2>1, <2>2, <2>3 DEF Next, Served
  <1> QED
    BY <1>8, <1>9

\* When endAffiliation commits, each row flagPartyChanged saw is flagged, unless it was
\* declined before the flag reached it.
THEOREM FlagLands == Spec => FlagMissesOnlyDeclined
  <1>1. ASSUME IInv, [Next]_vars, NEW r \in Request, Commits(r), job[r].op = "end", NEW i \in seen[r]
        PROVE  \/ accreditations'[i].status = "party_changed_pending"
               \/ \E n \in DOMAIN log[i] : log[i][n] = "decline"
    <2>1. Commit(r) /\ pc[r] = "written"
      BY <1>1, CommitsIsCommit DEF Commits
    <2>2. i \in Id /\ job[r] # NoJob /\ todo[r] = {}
      BY <1>1, <2>1 DEF IInv, TypeOK, JobAtPc, FlagHeld
    <2>3. Wrote(r, i) \/ Recorded(i, "decline")
      BY <1>1, <2>2 DEF IInv, FlagHeld
    <2>4. CASE Wrote(r, i)
      <3>1. /\ accreditations'[i] = Written("end", accreditations[i])
            /\ accreditations[i] \in Row
        BY <1>1, <2>1, <2>2, <2>4, CommitFacts
      <3>2. "end" \in Decisions \union Sweeps
        BY DEF Sweeps
      <3>3. Written("end", accreditations[i]).status = "party_changed_pending"
        BY <3>1, <3>2, WrittenFacts
      <3> QED
        BY <3>1, <3>3
    <2>5. CASE Recorded(i, "decline")
      BY <2>5 DEF Recorded
    <2> QED
      BY <2>3, <2>4, <2>5
  <1>2. IInv /\ [Next]_vars =>
          \A r \in Request :
            Commits(r) /\ job[r].op = "end" =>
              \A i \in seen[r] : \/ accreditations'[i].status = "party_changed_pending"
                                \/ \E n \in DOMAIN log[i] : log[i][n] = "decline"
    BY <1>1
  <1> QED
    BY <1>2, Invariance, PTL DEF Spec, FlagMissesOnlyDeclined

\* Once a broker's platform id has committed no activation, first or later, replaces it.
THEOREM PlatformIdIsKept == Spec => PlatformIdIsPermanent
  <1>1. ASSUME IInv, [Next]_vars, platformId # NoPlatformId, platformId' # platformId PROVE FALSE
    <2>1. PICK r \in Request : Commit(r)
      BY <1>1
         DEF Next, Statement, Begin, CheckAffiliation, CheckRelationship, Insert, Check, Update, Mint,
             Leave, Sweep, LockRow, Abort, DetectDeadlock, DeadlinePasses, LinkChanges, Rejoin, Served,
             vars, database
    <2>2. pc[r] = "written" /\ job[r].op = "activate" /\ platformId' = minted[r]
      BY <1>1, <2>1 DEF Commit
    <2> QED
      BY <1>1, <2>2 DEF IInv, MintIsCurrent
  <1>2. IInv /\ [Next]_vars => (platformId # NoPlatformId => platformId' = platformId)
    BY <1>1
  <1> QED
    BY <1>2, Invariance, PTL DEF Spec, PlatformIdIsPermanent

\* However decisions, sweeps and failures interleave, a row is what the calls recorded about
\* it, applied in the order of their commits, make of it.
THEOREM RowsAreReplayed == Spec => []RowIsReplayOfLog
  <1>1. Init => RowIsReplayOfLog
    BY ReplayOnFile DEF Init, RowIsReplayOfLog
  <1>2. ASSUME IInv, RowIsReplayOfLog, NEW r \in Request, Commit(r)
        PROVE  RowIsReplayOfLog'
    <2> SUFFICES ASSUME NEW i \in Id PROVE accreditations'[i] = Replay(log'[i])
      BY DEF RowIsReplayOfLog, Replay
    <2>1. CASE Wrote(r, i)
      <3>1. log[i] \in Seq(Op) /\ job[r].op \in Op
        BY <1>2, CommitFacts DEF IInv, TypeOK, Job
      <3>2. accreditations'[i] = Version(job[r].op, accreditations[i])
        <4>1. "request" \notin Decisions \union Sweeps
          BY DEF Decisions, Sweeps
        <4> QED
          BY <1>2, <2>1, <4>1, CommitFacts DEF Version
      <3>3. log'[i] = Append(log[i], job[r].op)
        BY <1>2, <2>1, CommitFacts
      <3> QED
        BY <1>2, <3>1, <3>2, <3>3, ReplayStep DEF RowIsReplayOfLog
    <2>2. CASE ~Wrote(r, i)
      BY <1>2, <2>2, CommitFacts DEF RowIsReplayOfLog
    <2> QED
      BY <2>1, <2>2
  <1>3. IInv /\ RowIsReplayOfLog /\ [Next]_vars => RowIsReplayOfLog'
    BY <1>2, OnlyCommitWrites DEF RowIsReplayOfLog
  <1> QED
    BY <1>1, <1>3, Invariance, PTL DEF Spec
=============================================================================
