--------------------------- MODULE RulesetsProofs ---------------------------
(***************************************************************************)
(* What holds of Rulesets for every set of keys, definitions, versions on  *)
(* file and calls.                                                         *)
(***************************************************************************)
EXTENDS Rulesets, TLAPS

(***************************************************************************)
(* The inductive invariant: a version is never withdrawn, and what a call  *)
(* has read of one stays true of it.                                       *)
(***************************************************************************)
Exists(v) == v \in Id /\ versions[v] # NoRow

WasInForce(v) == Exists(v) /\ versions[v].status # "draft"

CanBeMet(definition) ==
  definition # Malformed /\ \A g \in definition : g.satisfiedBy # {}

\* A call drafts its version, or pins one, as the last thing it does.
RowsAreFresh ==
  \A r \in Request : versions[r] # NoRow \/ pinned[r] # NoRow => pc[r] = "answered"

ForceCanBeMet == \A v \in Id : WasInForce(v) => CanBeMet(versions[v].definition)

PinnedWasInForce == \A r \in Request : pinned[r] \in Id => WasInForce(pinned[r])

JobAt(r) ==
  LET k == job[r].key
      id == job[r].version
      where == pc[r]
  IN
  where \in Step =>
    /\ job[r] \in Job
    /\ job[r].inForce => Published(k) # {}
    /\ where = "insert" =>
         job[r].number = 1 \/ \E v \in Of(k) : job[r].number = versions[v].number + 1
    /\ where \in {"check", "find", "supersede", "publish"} => Exists(id) /\ versions[id].key = k
    /\ where \in {"find", "supersede", "publish"} => CanBeMet(versions[id].definition)
    /\ where \in {"supersede", "publish"} => job[r].found \subseteq Of(k)
    /\ where = "publish" =>
         job[r].held \subseteq job[r].found /\ \A v \in job[r].held : WasInForce(v)
    /\ where = "pin" =>
         /\ job[r].current \in Id => WasInForce(job[r].current)
         /\ job[r].inForce => job[r].current \in Id

IInv == /\ TypeOK /\ RowsAreFresh /\ ForceCanBeMet /\ PinnedWasInForce /\ SuccessorsLeadToCurrent
        /\ \A r \in Request : JobAt(r)

(***************************************************************************)
(* What no step takes away, and what a call knows that survives it.        *)
(***************************************************************************)
Kept ==
  /\ \A v \in Id : versions[v] # NoRow =>
       /\ versions'[v] # NoRow
       /\ versions'[v].key = versions[v].key
       /\ versions'[v].number = versions[v].number
       /\ versions'[v].definition = versions[v].definition
       /\ versions[v].status # "draft" => versions'[v].status # "draft"
  /\ \A k \in Key : Published(k) # {} => Published(k)' # {}

LEMMA RowsAreVersions ==
  ASSUME IInv, NEW v \in Id, versions[v] # NoRow
  PROVE  /\ versions[v] \in Version /\ versions[v].key \in Key /\ versions[v].number \in Nat \ {0}
         /\ versions[v].definition \in Definition
         /\ versions[v].status \in {"draft", "published", "superseded"}
  BY DEF IInv, TypeOK, Version

LEMMA JobIsKept ==
  ASSUME IInv, Kept, NEW r \in Request, pc'[r] = pc[r], job'[r] = job[r] PROVE JobAt(r)'
  <1> SUFFICES ASSUME pc[r] \in Step PROVE JobAt(r)'
    BY DEF JobAt
  <1>1. JobAt(r) /\ job[r] \in Job
    BY DEF IInv, JobAt
  <1>2. PICK k \in Key : k = job[r].key
    BY <1>1 DEF Job
  <1>3. Of(k) \subseteq Of(k)'
    BY DEF Of, Kept
  <1>4. \A v \in Of(k) : versions'[v].number = versions[v].number
    BY DEF Of, Kept
  <1>5. \A v \in Id : WasInForce(v) => WasInForce(v)'
    BY DEF WasInForce, Exists, Kept
  <1>6. Published(k) # {} => Published(k)' # {}
    BY DEF Kept
  <1>7. job[r].held \subseteq Id /\ job[r].found \subseteq Id
    BY <1>1 DEF Job
  <1>8. Exists(job[r].version) =>
          /\ Exists(job[r].version)' /\ versions'[job[r].version].key = versions[job[r].version].key
          /\ versions'[job[r].version].definition = versions[job[r].version].definition
    BY DEF Exists, Kept
  <1>9. /\ job[r].inForce => Published(k)' # {}
        /\ pc[r] = "insert" =>
             job[r].number = 1 \/ \E v \in Of(k)' : job[r].number = versions'[v].number + 1
        /\ pc[r] \in {"supersede", "publish"} => job[r].found \subseteq Of(k)'
    BY <1>1, <1>2, <1>3, <1>4, <1>6 DEF JobAt
  <1>10. /\ pc[r] = "publish" =>
              job[r].held \subseteq job[r].found /\ \A v \in job[r].held : WasInForce(v)'
         /\ pc[r] = "pin" =>
              /\ job[r].current \in Id => WasInForce(job[r].current)'
              /\ job[r].inForce => job[r].current \in Id
    BY <1>1, <1>5, <1>7 DEF JobAt
  <1>11. Published(job[r].key)' = Published(k)' /\ Of(job[r].key)' = Of(k)'
    BY <1>2 DEF Published, Of
  <1> QED
    BY <1>1, <1>2, <1>8, <1>9, <1>10, <1>11 DEF JobAt, CanBeMet, WasInForce, Exists

LEMMA StepIInv ==
  ASSUME IInv, Kept, TypeOK', RowsAreFresh', ForceCanBeMet', PinnedWasInForce', SuccessorsLeadToCurrent',
         NEW r \in Request, JobAt(r)',
         \A q \in Request \ {r} : pc'[q] = pc[q] /\ job'[q] = job[q]
  PROVE  IInv'
  BY JobIsKept DEF IInv

\* A statement that leaves the tables alone.
LEMMA ReadIInv ==
  ASSUME IInv, UNCHANGED <<versions, pinned>>, NEW r \in Request, pc[r] # "answered",
         NEW where \in {"answered"} \union Step, NEW asked \in Job \union {NoJob},
         pc' = [pc EXCEPT ![r] = where], job' = [job EXCEPT ![r] = asked], JobAt(r)'
  PROVE  IInv'
  <1>1. TypeOK' /\ SuccessorsLeadToCurrent'
    BY DEF IInv, TypeOK, SuccessorsLeadToCurrent, Superseded
  <1>2. RowsAreFresh' /\ ForceCanBeMet' /\ PinnedWasInForce'
    BY DEF IInv, TypeOK, RowsAreFresh, ForceCanBeMet, PinnedWasInForce, WasInForce, Exists
  <1>3. Kept
    BY DEF Kept, Published, Of
  <1>4. \A q \in Request \ {r} : pc'[q] = pc[q] /\ job'[q] = job[q]
    BY DEF IInv, TypeOK
  <1> QED
    BY <1>1, <1>2, <1>3, <1>4, StepIInv

LEMMA AnswerIInv ==
  ASSUME IInv, UNCHANGED <<versions, pinned>>, NEW r \in Request, pc[r] # "answered", Answer(r)
  PROVE  IInv'
  <1>1. pc'[r] = "answered"
    BY DEF Answer, IInv, TypeOK
  <1>2. JobAt(r)'
    BY <1>1 DEF JobAt, Step
  <1> QED
    BY <1>2, ReadIInv DEF Answer

LEMMA InitIInv == ASSUME Init PROVE IInv
  <1> USE DEF Init
  <1>1. TypeOK
    BY FileAssumption DEF TypeOK, Id
  <1>2. \A v \in Id : versions[v] # NoRow => v \in Earlier /\ versions[v] = OnFile[v]
    OBVIOUS
  <1>3. RowsAreFresh /\ PinnedWasInForce
    <2>1. NoRow \notin Id
      BY FileAssumption
    <2>2. \A r \in Request : r \notin Earlier
      BY FileAssumption
    <2> QED
      BY <1>2, <2>1, <2>2 DEF RowsAreFresh, PinnedWasInForce, Id
  <1>4. ForceCanBeMet
    BY <1>2, EarlierAssumption DEF ForceCanBeMet, WasInForce, Exists, CanBeMet
  <1>5. SuccessorsLeadToCurrent
    <2>1. /\ \A v \in Earlier : v \in Id /\ versions[v] = OnFile[v] /\ versions[v] # NoRow
          /\ NoRow \notin Earlier
      BY FileAssumption DEF Id
    <2>2. Superseded = {v \in Earlier : OnFile[v].status = "superseded"}
      BY <1>2, <2>1 DEF Superseded
    <2>3. \A v \in Superseded : versions[v] = OnFile[v]
      BY <1>2 DEF Superseded
    <2>4. \A v \in Superseded :
            LET w == OnFile[v].superseded_by IN
            w \in Earlier /\ OnFile[w].status # "draft" /\ OnFile[w].key = OnFile[v].key
      BY <2>2, EarlierAssumption
    <2>5. \A S \in (SUBSET Superseded) \ {{}} : \E v \in S : OnFile[v].superseded_by \notin S
      BY <2>2, EarlierAssumption
    <2> QED
      BY <2>1, <2>3, <2>4, <2>5 DEF SuccessorsLeadToCurrent
  <1> QED
    BY <1>1, <1>3, <1>4, <1>5 DEF IInv, JobAt, Step

(***************************************************************************)
(* The statements that read.                                               *)
(***************************************************************************)
LEMMA BeginIInv ==
  ASSUME IInv, NEW r \in Request, NEW op \in {"create", "publish", "request"}, NEW k \in Key,
         NEW v \in Id \union {NoRow}, NEW d \in Draftable \union {{}}, Begin(r, op, k, v, d)
  PROVE  IInv'
  <1> DEFINE asked == [op |-> op, key |-> k, version |-> v, definition |-> d, number |-> 0,
                       found |-> {}, held |-> {}, current |-> NoVersion,
                       inForce |-> Published(k) # {}]
  <1>1. asked \in Job
    BY FileAssumption DEF Job, Definition
  <1>2. /\ pc[r] = "idle" /\ UNCHANGED <<versions, pinned>>
        /\ pc' = [pc EXCEPT ![r] = FirstStep[op]] /\ job' = [job EXCEPT ![r] = asked]
    BY DEF Begin
  <1>3. FirstStep[op] \in {"number", "check", "resolve"} /\ (FirstStep[op] = "check" => op = "publish")
    BY DEF FirstStep
  <1>4. op = "publish" => Exists(v) /\ versions[v].key = k
    BY FileAssumption DEF Begin, Exists
  <1>5. asked.key = k /\ asked.version = v /\ (asked.inForce => Published(k) # {})
    OBVIOUS
  <1> HIDE DEF asked
  <1>6. pc'[r] = FirstStep[op] /\ job'[r] = asked
    BY <1>2 DEF IInv, TypeOK
  <1>7. JobAt(r)'
    BY <1>1, <1>2, <1>3, <1>4, <1>5, <1>6 DEF JobAt, Exists, Published, Of
  <1> QED
    BY <1>1, <1>2, <1>3, <1>7, ReadIInv DEF Step

LEMMA JobSoFar == ASSUME IInv, NEW r \in Request, pc[r] \in Step
                  PROVE  JobAt(r) /\ job[r] \in Job /\ job[r].key \in Key
  BY DEF IInv, JobAt, Job

LEMMA ReadNumberIInv == ASSUME IInv, NEW r \in Request, ReadNumber(r) PROVE IInv'
  <1>0. PICK k \in Key : k = job[r].key
    BY JobSoFar DEF ReadNumber, Step
  <1>1. pc[r] = "number" /\ JobAt(r) /\ job[r] \in Job
    BY JobSoFar DEF ReadNumber, Step
  <1>2. PICK n \in {versions[v].number : v \in Of(k)} \union {0} :
          job' = [job EXCEPT ![r].number = n + 1]
    BY <1>0 DEF ReadNumber
  <1>3. \A v \in Of(k) : versions[v].number \in Nat
    BY RowsAreVersions DEF Of
  <1>4. n + 1 \in Nat
    <2>1. n \in Nat
      BY <1>2, <1>3
    <2> QED
      BY <2>1
  <1>5. PICK asked \in Job : asked = [job[r] EXCEPT !.number = n + 1]
    BY <1>0, <1>1, <1>4 DEF Job
  <1>6. /\ asked.key = k /\ asked.inForce = job[r].inForce /\ asked.number = n + 1
    BY <1>0, <1>1, <1>5 DEF Job
  <1>7. /\ pc' = [pc EXCEPT ![r] = "insert"] /\ job' = [job EXCEPT ![r] = asked]
        /\ UNCHANGED <<versions, pinned>>
    BY <1>0, <1>2, <1>5 DEF ReadNumber
  <1>8. asked.number = 1 \/ \E v \in Of(k) : asked.number = versions[v].number + 1
    BY <1>0, <1>2, <1>6
  <1>9. pc'[r] = "insert" /\ job'[r] = asked /\ Of(k)' = Of(k) /\ Published(k)' = Published(k)
    BY <1>0, <1>7 DEF IInv, TypeOK, Of, Published
  <1>10. JobAt(r)'
    BY <1>0, <1>1, <1>6, <1>7, <1>8, <1>9 DEF JobAt, Step
  <1> QED
    BY <1>0, <1>1, <1>7, <1>10, ReadIInv DEF Step

LEMMA CheckDraftIInv == ASSUME IInv, NEW r \in Request, CheckDraft(r) PROVE IInv'
  <1>1. pc[r] = "check" /\ JobAt(r) /\ job[r] \in Job
    BY JobSoFar DEF CheckDraft, Step
  <1>2. CASE Answer(r)
    BY <1>1, <1>2, AnswerIInv DEF CheckDraft
  <1>3. CASE Valid(versions[job[r].version].definition) /\ Goto(r, "find")
    <2>1. CanBeMet(versions[job[r].version].definition)
      BY <1>3 DEF Valid, CanBeMet
    <2>2. /\ pc' = [pc EXCEPT ![r] = "find"] /\ job' = [job EXCEPT ![r] = job[r]]
          /\ UNCHANGED <<versions, pinned>>
      BY <1>3 DEF CheckDraft, Goto, IInv, TypeOK
    <2>3. pc'[r] = "find" /\ job'[r] = job[r] /\ UNCHANGED versions
      BY <2>2 DEF IInv, TypeOK
    <2>4. JobAt(r)'
      BY <1>1, <2>1, <2>3 DEF JobAt, Step, Exists, Published, Of
    <2> QED
      BY <1>1, <2>2, <2>4, ReadIInv DEF Step
  <1> QED
    BY <1>2, <1>3 DEF CheckDraft

LEMMA FindPublishedIInv == ASSUME IInv, NEW r \in Request, FindPublished(r) PROVE IInv'
  <1>0. PICK k \in Key : k = job[r].key
    BY JobSoFar DEF FindPublished, Step
  <1>1. pc[r] = "find" /\ JobAt(r) /\ job[r] \in Job
    BY JobSoFar DEF FindPublished, Step
  <1>2. PICK asked \in Job : asked = [job[r] EXCEPT !.found = InForce(k)]
    BY <1>0, <1>1 DEF Job, InForce, Published, Of
  <1>3. /\ asked.key = k /\ asked.version = job[r].version /\ asked.inForce = job[r].inForce
        /\ asked.found \subseteq Of(k)
    BY <1>0, <1>1, <1>2 DEF Job, InForce, Published
  <1>4. /\ pc' = [pc EXCEPT ![r] = "supersede"] /\ job' = [job EXCEPT ![r] = asked]
        /\ UNCHANGED <<versions, pinned>>
    BY <1>0, <1>2 DEF FindPublished
  <1>5. pc'[r] = "supersede" /\ job'[r] = asked /\ Of(k)' = Of(k) /\ Published(k)' = Published(k)
    BY <1>0, <1>4 DEF IInv, TypeOK, Of, Published
  <1>6. JobAt(r)'
    BY <1>0, <1>1, <1>3, <1>4, <1>5 DEF JobAt, Step, Exists
  <1> QED
    BY <1>0, <1>1, <1>4, <1>6, ReadIInv DEF Step

LEMMA LockPublishedIInv == ASSUME IInv, NEW r \in Request, LockPublished(r) PROVE IInv'
  <1>0. PICK k \in Key : k = job[r].key
    BY JobSoFar DEF LockPublished, Step
  <1> DEFINE rows == {v \in job[r].found : versions[v].status = "published"}
  <1>1. pc[r] = "supersede" /\ JobAt(r) /\ job[r] \in Job
    BY JobSoFar DEF LockPublished, Step
  <1>2. rows \subseteq Id /\ rows \subseteq job[r].found /\ job[r].found \subseteq Of(k)
    BY <1>0, <1>1 DEF JobAt, Job, Step
  <1>3. PICK asked \in Job : asked = [job[r] EXCEPT !.held = rows]
    BY <1>0, <1>1, <1>2 DEF Job
  <1>4. /\ asked.key = k /\ asked.version = job[r].version /\ asked.inForce = job[r].inForce
        /\ asked.found = job[r].found /\ asked.held = rows
    BY <1>0, <1>1, <1>3 DEF Job
  <1>5. \A v \in rows : WasInForce(v)
    BY <1>0, <1>2 DEF WasInForce, Exists, Of
  <1>6. /\ pc' = [pc EXCEPT ![r] = "publish"] /\ job' = [job EXCEPT ![r] = asked]
        /\ UNCHANGED <<versions, pinned>>
    BY <1>0, <1>3 DEF LockPublished
  <1> HIDE DEF rows
  <1>7. pc'[r] = "publish" /\ job'[r] = asked /\ Of(k)' = Of(k) /\ Published(k)' = Published(k)
    BY <1>0, <1>6 DEF IInv, TypeOK, Of, Published
  <1>8. \A v \in rows : WasInForce(v)'
    BY <1>0, <1>5, <1>6 DEF WasInForce, Exists
  <1>9. JobAt(r)'
    BY <1>0, <1>1, <1>2, <1>4, <1>6, <1>7, <1>8 DEF JobAt, Step, Exists
  <1> QED
    BY <1>0, <1>1, <1>6, <1>9, ReadIInv DEF Step

LEMMA ResolveIInv == ASSUME IInv, NEW r \in Request, Resolve(r) PROVE IInv'
  <1>0. PICK k \in Key : k = job[r].key
    BY JobSoFar DEF Resolve, Step
  <1>1. pc[r] = "resolve" /\ JobAt(r) /\ job[r] \in Job
    BY JobSoFar DEF Resolve, Step
  <1>2. PICK v \in IF Published(k) = {} THEN {NoVersion} ELSE Published(k) :
          job' = [job EXCEPT ![r].current = v]
    BY <1>0 DEF Resolve
  <1>3. /\ v \in Id \union {NoVersion} /\ (v \in Id => WasInForce(v))
        /\ Published(k) # {} => v \in Id
    <2>1. Published(k) \subseteq Id /\ \A w \in Published(k) : WasInForce(w)
      BY DEF Published, Of, WasInForce, Exists
    <2>2. NoVersion \notin Id
      BY FileAssumption
    <2> QED
      BY <1>0, <1>2, <2>1, <2>2
  <1>4. PICK asked \in Job : asked = [job[r] EXCEPT !.current = v]
    BY <1>0, <1>1, <1>3 DEF Job
  <1>5. asked.key = k /\ asked.inForce = job[r].inForce /\ asked.current = v
    BY <1>0, <1>1, <1>4 DEF Job
  <1>6. /\ pc' = [pc EXCEPT ![r] = "pin"] /\ job' = [job EXCEPT ![r] = asked]
        /\ UNCHANGED <<versions, pinned>>
    BY <1>0, <1>2, <1>4 DEF Resolve
  <1>7. pc'[r] = "pin" /\ job'[r] = asked /\ Published(k)' = Published(k)
    BY <1>0, <1>6 DEF IInv, TypeOK, Of, Published
  <1>8. JobAt(r)'
    BY <1>0, <1>1, <1>3, <1>5, <1>6, <1>7 DEF JobAt, Step, Exists, WasInForce
  <1> QED
    BY <1>0, <1>1, <1>6, <1>8, ReadIInv DEF Step

(***************************************************************************)
(* The statements that write.                                              *)
(***************************************************************************)
\* A row is added under a number its key does not have.
LEMMA DraftedRow ==
  ASSUME IInv, NEW r \in Request, InsertDraft(r)
  PROVE  /\ pc[r] = "insert" /\ r \in Id /\ versions[r] = NoRow
         /\ versions' \in [Id -> Version \union {NoRow}]
         /\ \A v \in Id \ {r} : versions'[v] = versions[v]
         /\ versions'[r] \in Version /\ versions'[r] # NoRow
         /\ versions'[r].key = job[r].key /\ versions'[r].number = job[r].number
         /\ versions'[r].status = "draft"
  <1> DEFINE row == [key |-> job[r].key, number |-> job[r].number, status |-> "draft",
                     definition |-> job[r].definition, superseded_by |-> NoRow]
  <1>1. pc[r] = "insert" /\ JobAt(r) /\ job[r] \in Job /\ r \in Id
    BY JobSoFar DEF InsertDraft, Step, Id
  <1>2. versions[r] = NoRow
    BY <1>1 DEF IInv, RowsAreFresh
  <1>3. job[r].number \in Nat \ {0}
    <2>1. CASE job[r].number = 1
      BY <2>1
    <2>2. CASE job[r].number # 1
      <3>1. PICK v \in Of(job[r].key) : job[r].number = versions[v].number + 1
        BY <1>1, <2>2 DEF JobAt, Step
      <3>2. versions[v].number \in Nat
        BY RowsAreVersions DEF Of
      <3> QED
        BY <3>1, <3>2
    <2> QED
      BY <2>1, <2>2
  <1>4. row \in Version /\ row.key = job[r].key /\ row.number = job[r].number /\ row.status = "draft"
    BY <1>1, <1>3 DEF Job, Version
  <1>5. row # NoRow
    BY <1>4, FileAssumption
  <1>6. versions' = [versions EXCEPT ![r] = row]
    BY DEF InsertDraft
  <1> HIDE DEF row
  <1> QED
    BY <1>1, <1>2, <1>4, <1>5, <1>6 DEF IInv, TypeOK

LEMMA InsertDraftIInv == ASSUME IInv, NEW r \in Request, InsertDraft(r) PROVE IInv'
  <1>1. /\ pc' = [pc EXCEPT ![r] = "answered"] /\ job' = [job EXCEPT ![r] = NoJob] /\ UNCHANGED pinned
    BY DEF InsertDraft, Answer
  <1>2. pc'[r] = "answered" /\ \A q \in Request \ {r} : pc'[q] = pc[q] /\ job'[q] = job[q]
    BY <1>1 DEF IInv, TypeOK
  <1>3. TypeOK'
    BY <1>1, DraftedRow DEF IInv, TypeOK
  <1>4. Kept
    <2>1. \A k \in Key : Published(k) \subseteq Published(k)'
      BY DraftedRow DEF Published, Of
    <2> QED
      BY <2>1, DraftedRow DEF Kept
  <1>5. RowsAreFresh'
    BY <1>1, <1>2, DraftedRow DEF IInv, RowsAreFresh, Id
  <1>6. ForceCanBeMet'
    BY DraftedRow DEF IInv, ForceCanBeMet, WasInForce, Exists
  <1>7. PinnedWasInForce'
    BY <1>1, <1>4 DEF IInv, PinnedWasInForce, WasInForce, Exists, Kept
  <1>8. SuccessorsLeadToCurrent'
    <2>1. Superseded' = Superseded /\ \A v \in Superseded : versions'[v] = versions[v]
      BY DraftedRow DEF Superseded
    <2>2. \A v \in Superseded :
            LET w == versions[v].superseded_by IN
            w # NoRow /\ versions[w] # NoRow
              /\ versions[w].status # "draft" /\ versions[w].key = versions[v].key
      BY DEF IInv, SuccessorsLeadToCurrent
    <2>3. \A v \in Superseded : versions[v].superseded_by \in Id
      BY <2>2, RowsAreVersions DEF Superseded, Version
    <2>4. \A v \in Superseded :
            LET w == versions'[v].superseded_by IN
            w # NoRow /\ versions'[w] # NoRow
              /\ versions'[w].status # "draft" /\ versions'[w].key = versions'[v].key
      BY <1>4, <2>1, <2>2, <2>3 DEF Kept
    <2> QED
      BY <2>1, <2>4 DEF IInv, SuccessorsLeadToCurrent
  <1>9. JobAt(r)'
    BY <1>2 DEF JobAt, Step
  <1> QED
    BY <1>2, <1>3, <1>4, <1>5, <1>6, <1>7, <1>8, <1>9, StepIInv

\* What Publish leaves of each row.
LEMMA PublishedRows ==
  ASSUME IInv, NEW r \in Request, Publish(r), NEW v \in Id
  PROVE  LET id == job[r].version
             held == job[r].held
         IN  /\ versions[v] = NoRow <=> versions'[v] = NoRow
             /\ versions'[v] \in Version \union {NoRow}
             /\ v \notin held \union {id} => versions'[v] = versions[v]
             /\ versions[v] # NoRow =>
                  /\ versions'[v].key = versions[v].key
                  /\ versions'[v].number = versions[v].number
                  /\ versions'[v].definition = versions[v].definition
                  /\ v = id => versions'[v].status = "published"
                  /\ v \in held \ {id} => versions'[v].status = "superseded"
                                          /\ versions'[v].superseded_by = id
  <1> DEFINE id == job[r].version
             held == job[r].held
             mid(w) == IF w \in held
                       THEN [versions[w] EXCEPT !.status = "superseded", !.superseded_by = id]
                       ELSE versions[w]
  <1>1. /\ id \in Id /\ versions[id] # NoRow
        /\ \A w \in held : w \in Id /\ versions[w] # NoRow
    BY JobSoFar DEF Publish, Step, JobAt, Exists, WasInForce
  <1>2. versions' = [Supersede(held, id) EXCEPT ![id].status = "published"]
    BY DEF Publish
  <1>3. \A w \in Id \ {id} : versions'[w] = mid(w)
    BY <1>2 DEF Supersede
  <1>4. versions'[id] = [mid(id) EXCEPT !.status = "published"]
    BY <1>1, <1>2 DEF Supersede
  <1>5. CASE versions[v] = NoRow
    BY <1>1, <1>3, <1>5
  <1>6. CASE versions[v] # NoRow
    <2>1. versions[v] \in Version
      BY <1>6, RowsAreVersions
    <2>2. PICK row \in Version : row = mid(v)
      BY <1>1, <2>1 DEF Version
    <2>3. /\ row.key = versions[v].key /\ row.number = versions[v].number
          /\ row.definition = versions[v].definition
          /\ v \in held => row.status = "superseded" /\ row.superseded_by = id
          /\ v \notin held => row = versions[v]
      BY <2>1, <2>2 DEF Version
    <2>4. CASE v # id
      <3>1. versions'[v] = row
        BY <1>3, <2>2, <2>4
      <3>2. row # NoRow
        BY FileAssumption
      <3> QED
        BY <1>6, <2>3, <2>4, <3>1, <3>2
    <2>5. CASE v = id
      <3>1. PICK last \in Version : last = [row EXCEPT !.status = "published"]
        BY DEF Version
      <3>2. versions'[v] = last
        BY <1>4, <2>2, <2>5, <3>1
      <3>3. /\ last.key = row.key /\ last.number = row.number /\ last.definition = row.definition
            /\ last.status = "published"
        BY <3>1 DEF Version
      <3>4. last # NoRow
        BY FileAssumption
      <3> QED
        BY <1>6, <2>3, <2>5, <3>2, <3>3, <3>4
    <2> QED
      BY <2>4, <2>5
  <1> QED
    BY <1>5, <1>6

LEMMA PublishIInv == ASSUME IInv, NEW r \in Request, Publish(r) PROVE IInv'
  <1>0. PICK id, held, k : id = job[r].version /\ held = job[r].held /\ k = job[r].key
    OBVIOUS
  <1>1. /\ pc' = [pc EXCEPT ![r] = "answered"] /\ job' = [job EXCEPT ![r] = NoJob] /\ UNCHANGED pinned
        /\ pc[r] = "publish" /\ SlotFree(r)
    BY DEF Publish, Answer
  <1>2. pc'[r] = "answered" /\ \A q \in Request \ {r} : pc'[q] = pc[q] /\ job'[q] = job[q]
    BY <1>1 DEF IInv, TypeOK
  <1>3. /\ id \in Id /\ versions[id] # NoRow /\ versions[id].key = k /\ k \in Key
        /\ CanBeMet(versions[id].definition)
        /\ held \subseteq Of(k) /\ held \subseteq Id
        /\ \A w \in held : WasInForce(w)
    BY <1>0, <1>1, JobSoFar DEF Step, JobAt, Exists, WasInForce, Of
  <1>4. \A v \in Id :
          /\ versions[v] = NoRow <=> versions'[v] = NoRow
          /\ versions'[v] \in Version \union {NoRow}
          /\ v \notin held \union {id} => versions'[v] = versions[v]
          /\ versions[v] # NoRow =>
               /\ versions'[v].key = versions[v].key
               /\ versions'[v].number = versions[v].number
               /\ versions'[v].definition = versions[v].definition
               /\ v = id => versions'[v].status = "published"
               /\ v \in held \ {id} => versions'[v].status = "superseded"
                                       /\ versions'[v].superseded_by = id
    BY <1>0, PublishedRows
  <1>5. TypeOK'
    <2>1. versions' = [v \in Id |-> versions'[v]]
      BY DEF Publish, Supersede
    <2>2. versions' \in [Id -> Version \union {NoRow}]
      BY <1>4, <2>1
    <2> QED
      BY <1>1, <2>2 DEF IInv, TypeOK
  <1>6. Kept
    <2>1. id \in Published(k)'
      BY <1>3, <1>4 DEF Published, Of
    <2>2. \A l \in Key \ {k} : Published(l) \subseteq Published(l)'
      BY <1>3, <1>4 DEF Published, Of
    <2>3. \A v \in Id : (versions[v] # NoRow /\ versions[v].status # "draft") => versions'[v].status # "draft"
      BY <1>4
    <2> QED
      BY <1>4, <2>1, <2>2, <2>3 DEF Kept
  <1>7. RowsAreFresh'
    BY <1>1, <1>2, <1>4 DEF IInv, RowsAreFresh, Id
  <1>8. ForceCanBeMet'
    <2> SUFFICES ASSUME NEW v \in Id, WasInForce(v)' PROVE CanBeMet(versions'[v].definition)
      BY DEF ForceCanBeMet, CanBeMet
    <2>1. versions[v] # NoRow /\ versions'[v].definition = versions[v].definition
      BY <1>4 DEF WasInForce, Exists
    <2>2. v = id \/ WasInForce(v)
      BY <1>3, <1>4, <2>1 DEF WasInForce, Exists
    <2> QED
      BY <1>3, <2>1, <2>2 DEF IInv, ForceCanBeMet
  <1>9. PinnedWasInForce'
    BY <1>1, <1>6 DEF IInv, PinnedWasInForce, WasInForce, Exists, Kept
  <1>10. SuccessorsLeadToCurrent'
    <2>1. /\ Superseded' \subseteq (Superseded \union held) \ {id}
          /\ \A v \in Superseded' : v \in held => versions'[v].superseded_by = id
          /\ \A v \in Superseded' : v \notin held => v \in Superseded /\ versions'[v] = versions[v]
      BY <1>3, <1>4 DEF Superseded, WasInForce, Exists
    <2>2. \A v \in Superseded' :
            LET w == versions'[v].superseded_by IN
            w # NoRow /\ versions'[w] # NoRow
              /\ versions'[w].status # "draft" /\ versions'[w].key = versions'[v].key
      <3> SUFFICES ASSUME NEW v \in Superseded', NEW w, w = versions'[v].superseded_by
                   PROVE  w # NoRow /\ versions'[w] # NoRow
                            /\ versions'[w].status # "draft" /\ versions'[w].key = versions'[v].key
        OBVIOUS
      <3>1. CASE v \in held
        <4>1. w = id /\ v \in Of(k)
          BY <1>3, <2>1, <3>1
        <4>2. id # NoRow
          BY <1>3, FileAssumption
        <4> QED
          BY <1>3, <1>4, <4>1, <4>2 DEF Of
      <3>2. CASE v \notin held
        <4>1. v \in Superseded /\ v \in Id /\ versions'[v] = versions[v]
          BY <2>1, <3>2 DEF Superseded
        <4>2. w # NoRow /\ versions[w] # NoRow
                /\ versions[w].status # "draft" /\ versions[w].key = versions[v].key
          BY <4>1 DEF IInv, SuccessorsLeadToCurrent
        <4>3. w \in Id
          BY <4>1, <4>2, RowsAreVersions DEF Superseded, Version
        <4> QED
          BY <1>6, <4>1, <4>2, <4>3 DEF Kept
      <3> QED
        BY <3>1, <3>2
    <2>3. \A S \in (SUBSET Superseded') \ {{}} : \E v \in S : versions'[v].superseded_by \notin S
      <3> SUFFICES ASSUME NEW S \in SUBSET Superseded', S # {}
                   PROVE  \E v \in S : versions'[v].superseded_by \notin S
        OBVIOUS
      <3>1. CASE S \intersect held # {}
        BY <2>1, <3>1
      <3>2. CASE S \intersect held = {}
        <4>1. S \in (SUBSET Superseded) \ {{}}
          BY <2>1, <3>2
        <4>2. PICK v \in S : versions[v].superseded_by \notin S
          BY <4>1 DEF IInv, SuccessorsLeadToCurrent
        <4> QED
          BY <2>1, <3>2, <4>2
      <3> QED
        BY <3>1, <3>2
    <2> QED
      BY <2>2, <2>3 DEF SuccessorsLeadToCurrent
  <1>11. JobAt(r)'
    BY <1>2 DEF JobAt, Step
  <1> QED
    BY <1>2, <1>5, <1>6, <1>7, <1>8, <1>9, <1>10, <1>11, StepIInv

LEMMA PinIInv == ASSUME IInv, NEW r \in Request, Pin(r) PROVE IInv'
  <1>1. /\ pc[r] = "pin" /\ JobAt(r) /\ job[r] \in Job
        /\ pc' = [pc EXCEPT ![r] = "answered"] /\ job' = [job EXCEPT ![r] = NoJob]
        /\ pinned' = [pinned EXCEPT ![r] = job[r].current] /\ UNCHANGED versions
    BY JobSoFar DEF Pin, Answer, Step
  <1>2. pc'[r] = "answered" /\ \A q \in Request \ {r} : pc'[q] = pc[q] /\ job'[q] = job[q]
    BY <1>1 DEF IInv, TypeOK
  <1>3. TypeOK'
    BY <1>1 DEF IInv, TypeOK, Job
  <1>4. PinnedWasInForce'
    BY <1>1 DEF IInv, TypeOK, PinnedWasInForce, JobAt, WasInForce, Exists, Step
  <1>5. SuccessorsLeadToCurrent' /\ RowsAreFresh' /\ ForceCanBeMet' /\ Kept
    BY <1>1, <1>2
    DEF IInv, SuccessorsLeadToCurrent, Superseded, RowsAreFresh, ForceCanBeMet, WasInForce, Exists,
        Kept, Published, Of
  <1>6. JobAt(r)'
    BY <1>2 DEF JobAt, Step
  <1> QED
    BY <1>2, <1>3, <1>4, <1>5, <1>6, StepIInv

LEMMA StutterIInv == ASSUME IInv, UNCHANGED vars PROVE IInv'
  <1>1. TypeOK' /\ RowsAreFresh' /\ ForceCanBeMet' /\ PinnedWasInForce' /\ SuccessorsLeadToCurrent' /\ Kept
    BY DEF IInv, vars, TypeOK, RowsAreFresh, ForceCanBeMet, PinnedWasInForce, SuccessorsLeadToCurrent,
           Superseded, WasInForce, Exists, Kept, Published, Of
  <1>2. \A r \in Request : JobAt(r)'
    BY <1>1, JobIsKept DEF vars
  <1> QED
    BY <1>1, <1>2 DEF IInv

LEMMA NextIInv == ASSUME IInv, [Next]_vars PROVE IInv'
  <1>1. ASSUME NEW r \in Request, Statement(r) PROVE IInv'
    <2>1. RefuseNumber(r) \/ RefusePublish(r) => IInv'
      BY AnswerIInv DEF RefuseNumber, RefusePublish
    <2> QED
      BY <1>1, <2>1, ReadNumberIInv, InsertDraftIInv, CheckDraftIInv, FindPublishedIInv,
         LockPublishedIInv, PublishIInv, ResolveIInv, PinIInv DEF Statement
  <1>2. ASSUME NEW r \in Request, Abort(r) PROVE IInv'
    BY <1>2, AnswerIInv DEF Abort
  <1> QED
    BY <1>1, <1>2, BeginIInv, StutterIInv DEF Next, Served

\* The strengthening holds in every state that can be reached.
THEOREM Invariance == Spec => []IInv
  BY InitIInv, NextIInv, PTL DEF Spec

\* Every table keeps the shape its columns and constraints give it.
THEOREM TypeCorrect == Spec => []TypeOK
  <1>1. IInv => TypeOK
    BY DEF IInv
  <1> QED
    BY <1>1, Invariance, PTL

\* However publications of one key overlap, also of a version that was in force before, the
\* chain of successors stays in its key, has no circle and ends in the version in force.
THEOREM Successors == Spec => []SuccessorsLeadToCurrent
  <1>1. IInv => SuccessorsLeadToCurrent
    BY DEF IInv
  <1> QED
    BY <1>1, Invariance, PTL

\* What validation lets through at the draft's check is still what is published later, and
\* can be met by a broker who has everything.
THEOREM CanAlwaysBeMet == Spec => []PublishedCanBeMet
  <1>1. ASSUME IInv, NEW v \in Id, versions[v] # NoRow, versions[v].status # "draft",
               NEW s \in {"broker_profile", "broker_business"}, NEW y \in Years \union {NoYears}
        PROVE  computeOutstandingRequirements(versions[v].definition, s, Everything(y)) = {}
    <2>1. CanBeMet(versions[v].definition) /\ versions[v].definition \in SUBSET Group
      <3>1. versions[v].definition \in (SUBSET Group) \union {Malformed}
        BY <1>1, RowsAreVersions DEF Definition
      <3>2. CanBeMet(versions[v].definition)
        BY <1>1 DEF IInv, ForceCanBeMet, WasInForce, Exists
      <3> QED
        BY <3>1, <3>2 DEF CanBeMet
    <2>2. ASSUME NEW option \in Option PROVE isSatisfied(option, Everything(y))
      BY <2>2 DEF Option, isSatisfied, Everything
    <2>3. \A g \in versions[v].definition : \E option \in g.satisfiedBy : option \in Option
      BY <2>1, GroupAssumption DEF CanBeMet
    <2> QED
      BY <2>2, <2>3 DEF computeOutstandingRequirements
  <1>2. IInv => PublishedCanBeMet
    BY <1>1 DEF PublishedCanBeMet
  <1> QED
    BY <1>2, Invariance, PTL

(***************************************************************************)
(* Rulesets implements RulesetRegister.                                    *)
(***************************************************************************)
LEMMA DraftIsRegistered ==
  ASSUME IInv, NEW r \in Request, InsertDraft(r) PROVE Register!Next
  <1> DEFINE keyOf == [v \in Id |-> IF versions[v] = NoRow THEN NoKey ELSE versions[v].key]
             numberOf == [v \in Id |-> IF versions[v] = NoRow THEN 0 ELSE versions[v].number]
  <1>k. PICK k \in Key : k = job[r].key
    BY JobSoFar DEF InsertDraft, Step
  <1>n. PICK n : n = job[r].number
    OBVIOUS
  <1>1. k = job[r].key /\ n = job[r].number
    BY <1>k, <1>n
  <1>2. /\ n = 1 \/ \E v \in Of(k) : n = versions[v].number + 1
        /\ \A v \in Of(k) : versions[v].number # n
    BY <1>1, JobSoFar DEF InsertDraft, NumberFree, Step, JobAt
  <1>3. {numberOf[v] : v \in {w \in Id : keyOf[w] = k}} = {versions[v].number : v \in Of(k)}
    <2>1. {w \in Id : keyOf[w] = k} = Of(k)
      BY FileAssumption DEF Of
    <2> QED
      BY <2>1 DEF Of
  <1>4. n \in ({1} \union {m + 1 : m \in {numberOf[v] : v \in {w \in Id : keyOf[w] = k}}})
              \ {numberOf[v] : v \in {w \in Id : keyOf[w] = k}}
    <2> HIDE DEF keyOf, numberOf
    <2> QED
      BY <1>2, <1>3
  <1>5. keyOf[r] = NoKey
    BY DraftedRow
  <1>6. /\ keyOf' = [keyOf EXCEPT ![r] = k] /\ numberOf' = [numberOf EXCEPT ![r] = n]
    BY <1>1, DraftedRow
  <1>7. [l \in Key |-> Published(l)]' = [l \in Key |-> Published(l)]
    <2>1. \A l \in Key : Published(l)' = Published(l)
      BY DraftedRow DEF Published, Of
    <2> QED
      BY <2>1
  <1> QED
    <2>1. r \in Id
      BY DEF Id
    <2> QED
      BY <2>1, <1>4, <1>5, <1>6, <1>7 DEF Register!Next, Register!Draft, Register!Used

LEMMA PublishIsRegistered ==
  ASSUME IInv, NEW r \in Request, Publish(r) PROVE Register!Next
  <1>1. PICK id \in Id, k \in Key : /\ id = job[r].version /\ k = job[r].key
                                    /\ versions[id] # NoRow /\ versions[id].key = k
    BY JobSoFar DEF Publish, Step, JobAt, Exists
  <1>2. \A v \in Id :
          /\ versions[v] = NoRow <=> versions'[v] = NoRow
          /\ v \notin job[r].held \union {id} => versions'[v] = versions[v]
          /\ versions[v] # NoRow =>
               /\ versions'[v].key = versions[v].key
               /\ versions'[v].number = versions[v].number
               /\ v = id => versions'[v].status = "published"
               /\ v \in job[r].held \ {id} => versions'[v].status = "superseded"
    BY <1>1, PublishedRows
  <1>3. job[r].held \subseteq Of(k) /\ Published(k) \subseteq job[r].held \union {id}
    BY <1>1, JobSoFar DEF Publish, SlotFree, Step, JobAt
  <1>4. Published(k)' = {id}
    <2>1. id \in Published(k)'
      BY <1>1, <1>2 DEF Published, Of
    <2>2. ASSUME NEW v \in Published(k)', v # id PROVE FALSE
      <3>1. v \in Id /\ versions[v] # NoRow /\ versions[v].key = k /\ versions'[v].status = "published"
        BY <1>2, <2>2 DEF Published, Of
      <3>2. v \notin job[r].held
        BY <1>2, <2>2, <3>1
      <3> QED
        BY <1>2, <1>3, <2>2, <3>1, <3>2 DEF Published, Of
    <2> QED
      BY <2>1, <2>2
  <1>5. \A l \in Key \ {k} : Published(l)' = Published(l)
    BY <1>1, <1>2, <1>3 DEF Published, Of
  <1>6. [l \in Key |-> Published(l)]' = [[l \in Key |-> Published(l)] EXCEPT ![k] = {id}]
    BY <1>4, <1>5
  <1>7. /\ [v \in Id |-> IF versions[v] = NoRow THEN NoKey ELSE versions[v].key]'
             = [v \in Id |-> IF versions[v] = NoRow THEN NoKey ELSE versions[v].key]
        /\ [v \in Id |-> IF versions[v] = NoRow THEN 0 ELSE versions[v].number]'
             = [v \in Id |-> IF versions[v] = NoRow THEN 0 ELSE versions[v].number]
    BY <1>2
  <1>8. k # NoKey
    BY FileAssumption
  <1> QED
    BY <1>1, <1>6, <1>7, <1>8 DEF Register!Next, Register!Publish

\* Numbers come without gap or repeat, and every publication is one step from the version in
\* force to the new one, whatever other drafts and publications are under way.
THEOREM Refinement == Spec => RegisterSpec
  <1>1. Init => Register!Init
    <2> SUFFICES ASSUME Init PROVE Register!Init
      OBVIOUS
    <2>1. \A v \in Id : versions[v] # NoRow => versions[v].key \in Key /\ versions[v].number \in Nat
      BY InitIInv, RowsAreVersions
    <2>2. \A k \in Key : Published(k) \subseteq Id
      BY DEF Published, Of
    <2> QED
      BY <2>1, <2>2 DEF Register!Init
  <1>2. IInv /\ [Next]_vars => [Register!Next]_(Register!vars)
    <2> SUFFICES ASSUME IInv, [Next]_vars PROVE [Register!Next]_(Register!vars)
      OBVIOUS
    <2>1. CASE UNCHANGED versions
      BY <2>1 DEF Register!vars, Published, Of
    <2>2. ASSUME NEW r \in Request, InsertDraft(r) PROVE Register!Next
      BY <2>2, DraftIsRegistered
    <2>3. ASSUME NEW r \in Request, Publish(r) PROVE Register!Next
      BY <2>3, PublishIsRegistered
    <2>4. CASE versions' # versions
      <3>1. \E r \in Request : InsertDraft(r) \/ Publish(r)
        BY <2>4 DEF Next, vars, Statement, Begin, ReadNumber, RefuseNumber, CheckDraft,
           FindPublished, LockPublished, RefusePublish, Resolve, Pin, Abort, Served
      <3> QED
        BY <2>2, <2>3, <3>1
    <2> QED
      BY <2>1, <2>4
  <1> QED
    BY <1>1, <1>2, Invariance, PTL DEF Spec, RegisterSpec, Register!Spec

(***************************************************************************)
(* What evaluateCondition computes.                                        *)
(***************************************************************************)
Experience == Years \union {NoYears}

Point == Condition \X Experience

\* A condition holds if T holds the conditions it is made of that matter.
Holds(T, c, y) ==
  \/ c.op = "always"
  \/ c.op = "lt"     /\ y # NoYears /\ y < c.value
  \/ c.op = "gte"    /\ y # NoYears /\ y >= c.value
  \/ c.op = "all_of" /\ \A d \in c.conditions : <<d, y>> \in T
  \/ c.op = "any_of" /\ \E d \in c.conditions : <<d, y>> \in T

Closed(T) == \A c \in Condition, y \in Experience : Holds(T, c, y) => <<c, y>> \in T

Least == {p \in Point : \A T \in SUBSET Point : Closed(T) => p \in T}

LEMMA HoldsIsMonotone ==
  ASSUME NEW T, NEW U, T \subseteq U, NEW c, NEW y, Holds(T, c, y)
  PROVE  Holds(U, c, y)
  BY DEF Holds

\* The conditions that hold are a solution of the evaluator's recursive equation.
LEMMA LeastIsFixed ==
  ASSUME NEW c \in Condition, NEW y \in Experience
  PROVE  <<c, y>> \in Least <=> Holds(Least, c, y)
  <1>1. Least \subseteq Point
    BY DEF Least
  <1>2. \A T \in SUBSET Point : Closed(T) => Least \subseteq T
    BY DEF Least
  <1>3. ASSUME NEW d \in Condition, NEW z \in Experience, Holds(Least, d, z)
        PROVE  <<d, z>> \in Least
    <2>1. <<d, z>> \in Point
      BY DEF Point
    <2>2. ASSUME NEW T \in SUBSET Point, Closed(T) PROVE <<d, z>> \in T
      <3>1. Holds(T, d, z)
        BY <1>2, <1>3, <2>2, HoldsIsMonotone
      <3> QED
        BY <2>2, <3>1 DEF Closed
    <2> QED
      BY <2>1, <2>2 DEF Least
  <1> DEFINE held == {p \in Least : Holds(Least, p[1], p[2])}
  <1>4. Closed(held)
    <2> SUFFICES ASSUME NEW d \in Condition, NEW z \in Experience, Holds(held, d, z)
                 PROVE  <<d, z>> \in held
      BY DEF Closed
    <2>1. Holds(Least, d, z)
      <3>1. held \subseteq Least
        OBVIOUS
      <3> HIDE DEF held
      <3> QED
        BY <3>1, HoldsIsMonotone
    <2>2. <<d, z>> \in Least
      BY <1>3, <2>1
    <2> QED
      BY <2>1, <2>2
  <1>5. Least \subseteq held
    BY <1>1, <1>2, <1>4
  <1>6. ASSUME <<c, y>> \in Least PROVE Holds(Least, c, y)
    BY <1>5, <1>6
  <1> QED
    BY <1>3, <1>6

\* evaluateCondition satisfies the equation it is defined by.
LEMMA EvaluateCondition ==
  ASSUME NEW c \in Condition, NEW y \in Experience
  PROVE  evaluateCondition[c][y] <=>
           \/ c.op = "always"
           \/ c.op = "lt"     /\ y # NoYears /\ y < c.value
           \/ c.op = "gte"    /\ y # NoYears /\ y >= c.value
           \/ c.op = "all_of" /\ \A d \in c.conditions : evaluateCondition[d][y]
           \/ c.op = "any_of" /\ \E d \in c.conditions : evaluateCondition[d][y]
  <1> DEFINE Clause(f, d, z) ==
               \/ d.op = "always"
               \/ d.op = "lt"     /\ z # NoYears /\ z < d.value
               \/ d.op = "gte"    /\ z # NoYears /\ z >= d.value
               \/ d.op = "all_of" /\ \A e \in d.conditions : f[e][z]
               \/ d.op = "any_of" /\ \E e \in d.conditions : f[e][z]
             Solves(f) == f = [d \in Condition |-> [z \in Experience |-> Clause(f, d, z)]]
             least == [d \in Condition |-> [z \in Experience |-> <<d, z>> \in Least]]
  <1>1. \A d \in Condition, z \in Experience : least[d][z] = (<<d, z>> \in Least)
    OBVIOUS
  <1>2. ASSUME NEW d \in Condition, NEW z \in Experience
        PROVE  Clause(least, d, z) = (<<d, z>> \in Least)
    <2>1. d.conditions \subseteq Condition
      BY ConditionAssumption
    <2>2. \A e \in d.conditions : least[e][z] = (<<e, z>> \in Least)
      BY <1>1, <2>1
    <2> HIDE DEF least
    <2>3. Clause(least, d, z) <=> Holds(Least, d, z)
      BY <2>2 DEF Holds
    <2>4. <<d, z>> \in Least <=> Holds(Least, d, z)
      BY LeastIsFixed
    <2>5. Clause(least, d, z) <=> <<d, z>> \in Least
      BY <2>3, <2>4
    <2>6. \A u \in BOOLEAN, w \in BOOLEAN : (u <=> w) => u = w
      OBVIOUS
    <2>7. Clause(least, d, z) \in BOOLEAN /\ (<<d, z>> \in Least) \in BOOLEAN
      OBVIOUS
    <2> HIDE DEF Clause
    <2> QED
      BY <2>5, <2>6, <2>7, Zenon
  <1>3. Solves(least)
    <2> HIDE DEF Clause
    <2> QED
      BY <1>2
  <1>4. evaluateCondition = CHOOSE f : Solves(f)
    BY DEF evaluateCondition, Experience
  <1> HIDE DEF least
  <1>5. Solves(evaluateCondition)
    <2> HIDE DEF Solves
    <2> QED
      BY <1>3, <1>4
  <1>6. evaluateCondition[c][y] = Clause(evaluateCondition, c, y)
    <2> HIDE DEF Clause
    <2> QED
      BY <1>5
  <1> QED
    BY <1>6

\* No condition but those that a broker with recorded experience also meets holds for one
\* whose experience is not recorded: a comparison with NULL is false and nothing negates.
LEMMA UnrecordedHoldsLeast ==
  ASSUME NEW c \in Condition, NEW y \in Years, evaluateCondition[c][NoYears]
  PROVE  evaluateCondition[c][y]
  <1> DEFINE against == {d \in Condition : evaluateCondition[d][NoYears] /\ ~evaluateCondition[d][y]}
  <1> SUFFICES ASSUME against # {} PROVE FALSE
    OBVIOUS
  <1>1. PICK d \in against : d.conditions \intersect against = {}
    <2>1. against \in (SUBSET Condition) \ {{}}
      OBVIOUS
    <2> HIDE DEF against
    <2> QED
      BY <2>1, ConditionTreeAssumption
  <1>2. d \in Condition /\ d.conditions \subseteq Condition /\ NoYears \in Experience /\ y \in Experience
    BY ConditionAssumption DEF Experience
  <1>3. \A e \in d.conditions : evaluateCondition[e][NoYears] => evaluateCondition[e][y]
    BY <1>1, <1>2
  <1>4. /\ evaluateCondition[d][NoYears] <=>
             \/ d.op = "always"
             \/ d.op = "all_of" /\ \A e \in d.conditions : evaluateCondition[e][NoYears]
             \/ d.op = "any_of" /\ \E e \in d.conditions : evaluateCondition[e][NoYears]
        /\ (\/ d.op = "always"
            \/ d.op = "all_of" /\ \A e \in d.conditions : evaluateCondition[e][y]
            \/ d.op = "any_of" /\ \E e \in d.conditions : evaluateCondition[e][y])
             => evaluateCondition[d][y]
    BY <1>2, EvaluateCondition
  <1>5. evaluateCondition[d][NoYears] /\ ~evaluateCondition[d][y]
    OBVIOUS
  <1> HIDE DEF against
  <1> QED
    BY <1>3, <1>4, <1>5

\* Between the transaction that resolves a version and the one that pins it a request loses
\* nothing to a publication, and what it is asked for afterwards is fixed.
THEOREM GetsAVersion == Spec => RequestsGetAVersion
  <1>1. ASSUME IInv, [Next]_vars, NEW r \in Request, pinned'[r] # pinned[r]
        PROVE  /\ job[r].inForce => pinned'[r] # NoVersion
               /\ pinned'[r] # NoVersion => versions[pinned'[r]].status # "draft"
    <2>1. Pin(r)
      <3>1. \E q \in Request : Pin(q)
        BY <1>1 DEF Next, vars, Statement, Begin, ReadNumber, InsertDraft, RefuseNumber, CheckDraft,
           FindPublished, LockPublished, Publish, RefusePublish, Resolve, Abort, Served
      <3> QED
        BY <1>1, <3>1 DEF Pin, IInv, TypeOK
    <2>2. /\ pc[r] = "pin" /\ JobAt(r) /\ job[r] \in Job /\ pinned'[r] = job[r].current
      <3>1. pc[r] = "pin" /\ pinned' = [pinned EXCEPT ![r] = job[r].current]
        BY <2>1 DEF Pin
      <3> QED
        BY <1>1, <3>1, JobSoFar DEF Step, IInv, TypeOK
    <2>3. NoVersion \notin Id /\ job[r].current \in Id \union {NoVersion}
      BY <2>2, FileAssumption DEF Job
    <2> QED
      BY <2>2, <2>3 DEF JobAt, WasInForce, Step
  <1>2. ASSUME IInv, [Next]_vars, NEW r \in Request, HasVersion(r), NEW fact \in Fact
        PROVE  getOutstandingItems(r, fact)' = getOutstandingItems(r, fact)
    <2>1. pinned'[r] = pinned[r]
      <3> SUFFICES ASSUME NEW q \in Request, Pin(q) PROVE pinned'[r] = pinned[r]
        BY <1>2 DEF Next, vars, Statement, Begin, ReadNumber, InsertDraft, RefuseNumber, CheckDraft,
           FindPublished, LockPublished, Publish, RefusePublish, Resolve, Abort, Served
      <3>1. pinned' = [pinned EXCEPT ![q] = job[q].current] /\ pc[q] = "pin"
        BY DEF Pin
      <3>2. pinned[r] # NoRow
        BY <1>2, FileAssumption DEF HasVersion
      <3>3. r # q
        BY <1>2, <3>1, <3>2 DEF IInv, RowsAreFresh
      <3> QED
        BY <1>2, <3>1, <3>3 DEF IInv, TypeOK
    <2>2. PICK d : d = versions[pinned[r]].definition /\ d = versions'[pinned[r]].definition
      <3>1. Exists(pinned[r])
        BY <1>2 DEF IInv, PinnedWasInForce, WasInForce, HasVersion
      <3>2. CASE UNCHANGED versions
        BY <3>2
      <3>3. ASSUME NEW q \in Request, InsertDraft(q)
            PROVE versions'[pinned[r]].definition = versions[pinned[r]].definition
        BY <1>2, <3>1, <3>3, DraftedRow DEF Exists
      <3>4. ASSUME NEW q \in Request, Publish(q)
            PROVE versions'[pinned[r]].definition = versions[pinned[r]].definition
        BY <1>2, <3>1, <3>4, PublishedRows DEF Exists
      <3>5. CASE versions' # versions
        BY <1>2, <3>3, <3>4, <3>5 DEF Next, vars, Statement, Begin, ReadNumber, RefuseNumber, CheckDraft,
           FindPublished, LockPublished, RefusePublish, Resolve, Pin, Abort, Served
      <3> QED
        BY <3>2, <3>5
    <2>3. \A s \in {"broker_profile", "broker_business"} :
            computeOutstandingRequirements(versions[pinned[r]].definition, s, fact)'
              = computeOutstandingRequirements(versions[pinned[r]].definition, s, fact)
      BY <2>1, <2>2
    <2> QED
      BY <2>3 DEF getOutstandingItems
  <1>3. IInv /\ [Next]_vars =>
          \A r \in Request :
            /\ pinned'[r] # pinned[r] =>
                 /\ job[r].inForce => pinned'[r] # NoVersion
                 /\ pinned'[r] # NoVersion => versions[pinned'[r]].status # "draft"
            /\ HasVersion(r) => \A fact \in Fact :
                 getOutstandingItems(r, fact)' = getOutstandingItems(r, fact)
    BY <1>1, <1>2
  <1> QED
    BY <1>3, Invariance, PTL DEF Spec, RequestsGetAVersion

\* Whatever versions are in force, an applicant whose experience is not recorded is asked for
\* nothing that one with recorded experience and the same papers is not asked for.
THEOREM UnrecordedAskedLeast == Spec => []MissingExperienceAsksLeast
  <1> SUFFICES ASSUME IInv PROVE MissingExperienceAsksLeast
    BY Invariance, PTL
  <1> SUFFICES ASSUME NEW r \in Request, HasVersion(r), NEW fact \in Fact, NEW y \in Years
               PROVE  getOutstandingItems(r, [fact EXCEPT !.years = NoYears])
                        \subseteq getOutstandingItems(r, [fact EXCEPT !.years = y])
    BY DEF MissingExperienceAsksLeast
  <1> DEFINE unrecorded == [fact EXCEPT !.years = NoYears]
             recorded == [fact EXCEPT !.years = y]
             definition == versions[pinned[r]].definition
  <1>1. /\ unrecorded.years = NoYears /\ recorded.years = y
        /\ unrecorded.documents = recorded.documents /\ unrecorded.member = recorded.member
    BY DEF Fact
  <1>2. definition \subseteq Group
    <2>1. WasInForce(pinned[r])
      BY DEF IInv, PinnedWasInForce, HasVersion
    <2>2. definition # Malformed /\ definition \in Definition
      BY <2>1, RowsAreVersions DEF IInv, ForceCanBeMet, CanBeMet, WasInForce, Exists
    <2> QED
      BY <2>2 DEF Definition
  <1>3. ASSUME NEW g \in definition, Applies(g, NoYears) PROVE Applies(g, y)
    BY <1>2, <1>3, GroupAssumption, UnrecordedHoldsLeast DEF Applies
  <1>4. \A option : isSatisfied(option, unrecorded) <=> isSatisfied(option, recorded)
    BY <1>1 DEF isSatisfied
  <1> HIDE DEF unrecorded, recorded, definition
  <1>5. \A s : computeOutstandingRequirements(definition, s, unrecorded)
                 \subseteq computeOutstandingRequirements(definition, s, recorded)
    BY <1>1, <1>3, <1>4 DEF computeOutstandingRequirements
  <1> QED
    BY <1>5 DEF getOutstandingItems, unrecorded, recorded, definition
=============================================================================
