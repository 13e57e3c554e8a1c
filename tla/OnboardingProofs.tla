-------------------------- MODULE OnboardingProofs --------------------------
(***************************************************************************)
(* What holds of Onboarding for every set of patches, memberships, client  *)
(* users and calls.                                                        *)
(***************************************************************************)
EXTENDS Onboarding, TLAPS

(***************************************************************************)
(* The inductive invariant: what each call has found out and still holds,  *)
(* and what has been mailed.                                               *)
(***************************************************************************)
Changing == {"update", "add_member", "remove_member"}

Announcing == {"submit", "initiate", "decide"}

\* The broker's own list has a notification of call r that is not suppressed.
Announced(r) == \E n \in notifications : n.recipient = broker /\ n.by = r /\ ~n.suppressed

\* The steps a call of each kind takes.
StepFits(op, where) ==
  /\ where = "status" => op \in Changing \union {"submit", "initiate"}
  /\ where = "write" => op \in Changing
  /\ where = "attest" => op = "attest"
  /\ where \in {"fields", "memberships"} => op = "submit"
  /\ where = "provider" => op = "initiate"
  /\ where = "record" => op \in {"initiate", "webhook"}
  /\ where = "queue" => op = "webhook"
  /\ where \in {"notify", "commit", "send", "mark"} => op \in Announcing
  /\ where = "prefer" => op = "prefer"

Edited(r) == edits # job[r].edits

\* What call r has found out by the time it is at where.
Established(r, where) ==
  LET op == job[r].op IN
  /\ op = "decide" => checks # {}
  /\ (where \in {"notify", "commit"} /\ op = "initiate") => checks # {}
  /\ where = "memberships" => FieldsComplete \/ Edited(r)
  /\ (where \in {"notify", "commit"} /\ op = "submit") => Complete \/ Edited(r)
  /\ (where = "commit" /\ op = "decide") => job[r].shouldSend
  /\ where \in {"send", "mark"} => Announced(r)

JobAt(r) ==
  pc[r] \in Step =>
    /\ job[r] \in Job
    /\ job[r].edits <= edits
    /\ job[r].op = "update" => job[r].patch \in Patch
    /\ job[r].op = "prefer" => job[r].preference \in Preference
    /\ StepFits(job[r].op, pc[r])
    /\ Established(r, pc[r])

MailsCounted ==
  \A r \in Request :
    /\ mails[r] # 0 => mails[r] = 1 /\ pc[r] \in {"mark", "answered"} /\ Announced(r)
    /\ pc[r] = "mark" \/ r \in sent => mails[r] = 1

MandatoryReaches ==
  /\ \A n \in notifications : n.suppressed => n.category \notin Mandatory
  /\ \A p \in optedOut : p[2] \notin Mandatory

IInv == /\ TypeOK /\ MailsCounted /\ MandatoryReaches /\ VerificationIsOnRecord
        /\ \A r \in Request : JobAt(r)

(***************************************************************************)
(* What no step takes away, and what a call knows that survives it.        *)
(***************************************************************************)
Kept ==
  /\ edits' \in Nat /\ edits <= edits'
  /\ checks # {} => checks' # {}
  /\ notifications \subseteq notifications'
  /\ edits' = edits => members' = members /\ (FieldsComplete => FieldsComplete')

LEMMA JobIsKept ==
  ASSUME IInv, Kept, NEW r \in Request, pc'[r] = pc[r], job'[r] = job[r] PROVE JobAt(r)'
  <1> SUFFICES ASSUME pc[r] \in Step PROVE JobAt(r)'
    BY DEF JobAt
  <1>1. JobAt(r) /\ job[r].edits \in Nat /\ edits \in Nat
    BY DEF IInv, JobAt, Job, TypeOK
  <1>2. job[r].edits <= edits /\ job[r].edits <= edits'
    BY <1>1 DEF Kept, JobAt
  <1>3. Edited(r) => Edited(r)'
    BY <1>1, <1>2 DEF Kept, Edited
  <1>4. /\ FieldsComplete => FieldsComplete' \/ Edited(r)'
        /\ Complete => Complete' \/ Edited(r)'
    BY <1>1, <1>2 DEF Kept, Edited, Complete
  <1>5. Announced(r) => Announced(r)'
    BY DEF Kept, Announced
  <1>6. Established(r, pc[r])'
    BY <1>1, <1>3, <1>4, <1>5 DEF JobAt, Established, Kept
  <1> QED
    BY <1>1, <1>2, <1>6 DEF JobAt, StepFits

LEMMA StepIInv ==
  ASSUME IInv, Kept, TypeOK', MailsCounted', MandatoryReaches', VerificationIsOnRecord',
         NEW r \in Request, JobAt(r)',
         \A q \in Request \ {r} : pc'[q] = pc[q] /\ job'[q] = job[q]
  PROVE  IInv'
  BY JobIsKept DEF IInv

LEMMA JobSoFar ==
  ASSUME IInv, NEW r \in Request, pc[r] \in Step
  PROVE  /\ JobAt(r) /\ job[r] \in Job /\ StepFits(job[r].op, pc[r]) /\ Established(r, pc[r])
         /\ job[r].edits \in Nat /\ edits \in Nat /\ job[r].edits <= edits
  BY DEF IInv, JobAt, Job, TypeOK

\* A statement that leaves the tables alone.
LEMMA ReadIInv ==
  ASSUME IInv, UNCHANGED data, NEW r \in Request,
         NEW where \in {"answered"} \union Step, NEW asked \in Job \union {NoJob},
         where # "mark", where = "answered" \/ pc[r] \notin {"mark", "answered"},
         pc' = [pc EXCEPT ![r] = where], job' = [job EXCEPT ![r] = asked], JobAt(r)'
  PROVE  IInv'
  <1>1. TypeOK' /\ VerificationIsOnRecord' /\ MandatoryReaches'
    BY DEF IInv, TypeOK, VerificationIsOnRecord, MandatoryReaches, data
  <1>2. MailsCounted'
    BY DEF IInv, TypeOK, MailsCounted, Announced, data
  <1>3. Kept
    BY DEF Kept, FieldsComplete, IInv, TypeOK, data
  <1>4. \A q \in Request \ {r} : pc'[q] = pc[q] /\ job'[q] = job[q]
    BY DEF IInv, TypeOK
  <1> QED
    BY <1>1, <1>2, <1>3, <1>4, StepIInv

\* ROLLBACK, or the answer to a call that has changed nothing.
LEMMA AnswerIInv ==
  ASSUME IInv, UNCHANGED data, NEW r \in Request, Answer(r) PROVE IInv'
  <1>1. pc'[r] = "answered"
    BY DEF Answer, IInv, TypeOK
  <1>2. JobAt(r)'
    BY <1>1 DEF JobAt, Step
  <1> QED
    BY <1>2, ReadIInv DEF Answer, Step

\* On to the next statement, with what the last one has shown.
LEMMA GotoIInv ==
  ASSUME IInv, UNCHANGED data, NEW r \in Request, NEW where \in Step \ {"mark"},
         pc[r] \in Step \ {"mark"}, Goto(r, where),
         StepFits(job[r].op, where), Established(r, where)
  PROVE  IInv'
  <1>1. /\ pc' = [pc EXCEPT ![r] = where] /\ job' = [job EXCEPT ![r] = job[r]]
        /\ pc'[r] = where /\ UNCHANGED job
    BY DEF Goto, IInv, TypeOK
  <1>2. Established(r, pc[r])'
    BY <1>1 DEF Established, Edited, Complete, FieldsComplete, Announced, data
  <1>3. JobAt(r)'
    BY <1>1, <1>2, JobSoFar DEF JobAt, StepFits, data
  <1> QED
    BY <1>1, <1>3, ReadIInv DEF IInv, TypeOK, Step

LEMMA InitIInv == ASSUME Init PROVE IInv
  <1>1. Required("own_credit_licence") \subseteq Field
    BY DEF Required, Always, Field
  <1>2. profile \in Profile /\ profile.status = "draft"
    BY <1>1 DEF Init, Profile, Licence
  <1>3. TypeOK
    BY <1>2 DEF Init, TypeOK, Id
  <1> QED
    BY <1>2, <1>3
    DEF Init, IInv, MailsCounted, MandatoryReaches, VerificationIsOnRecord, JobAt, Step

(***************************************************************************)
(* Arrival, and the statements that read.                                  *)
(***************************************************************************)
LEMMA BeginIInv ==
  ASSUME IInv, NEW r \in Request, NEW call \in Job, Begin(r, call), call.edits = edits,
         call.op = "update" => call.patch \in Patch,
         call.op = "prefer" => call.preference \in Preference,
         call.op = "decide" => checks # {}
  PROVE  IInv'
  <1>1. /\ pc[r] = "idle" /\ pc' = [pc EXCEPT ![r] = FirstStep[call.op]]
        /\ job' = [job EXCEPT ![r] = call] /\ UNCHANGED data
    BY DEF Begin
  <1>2. call.op \in Op
    BY DEF Job
  <1>3. /\ FirstStep[call.op] \in {"status", "attest", "record", "notify", "prefer"}
        /\ FirstStep[call.op] = "notify" => call.op = "decide"
        /\ StepFits(call.op, FirstStep[call.op])
    <2> DEFINE first == FirstStep[call.op]
    <2>1. /\ call.op \in Changing \union {"submit", "initiate"} => first = "status"
          /\ call.op = "attest" => first = "attest"
          /\ call.op = "webhook" => first = "record"
          /\ call.op = "decide" => first = "notify"
          /\ call.op = "prefer" => first = "prefer"
      BY DEF FirstStep, Changing
    <2> HIDE DEF first
    <2>2. /\ first \in {"status", "attest", "record", "notify", "prefer"}
          /\ first = "notify" => call.op = "decide"
          /\ StepFits(call.op, first)
      BY <1>2, <2>1 DEF Op, StepFits, Changing, Announcing
    <2> QED
      BY <2>2 DEF first
  <1>4. pc'[r] = FirstStep[call.op] /\ job'[r] = call
    BY <1>1 DEF IInv, TypeOK
  <1>5. edits' = edits /\ edits \in Nat /\ checks' = checks
    BY <1>1 DEF data, IInv, TypeOK
  <1>6. Established(r, pc[r])'
    BY <1>3, <1>4, <1>5 DEF Established
  <1>7. JobAt(r)'
    BY <1>3, <1>4, <1>5, <1>6 DEF JobAt, StepFits
  <1> QED
    BY <1>1, <1>3, <1>7, ReadIInv DEF Step

LEMMA ArriveIInv == ASSUME IInv, NEW r \in Request, Arrive(r) PROVE IInv'
  <1>1. ASSUME NEW op \in Op
        PROVE  /\ Call(op) \in Job /\ Call(op).edits = edits /\ Call(op).op = op
    BY DEF Call, Job, IInv, TypeOK
  <1>2. ASSUME NEW op \in {"attest", "add_member", "submit", "initiate"}, Begin(r, Call(op)) PROVE IInv'
    BY <1>1, <1>2, BeginIInv DEF Op
  <1>3. ASSUME NEW patch \in Patch, Begin(r, [Call("update") EXCEPT !.patch = patch]) PROVE IInv'
    <2>1. PICK c \in Job : c = Call("update") /\ c.op = "update" /\ c.edits = edits
      BY <1>1 DEF Op
    <2>2. PICK call \in Job : call = [c EXCEPT !.patch = patch]
      BY <2>1 DEF Job
    <2>3. call.op = "update" /\ call.patch = patch /\ call.edits = edits
      BY <2>1, <2>2 DEF Job
    <2> QED
      BY <1>3, <2>1, <2>2, <2>3, BeginIInv
  <1>4. ASSUME NEW m \in members, Begin(r, [Call("remove_member") EXCEPT !.on = m]) PROVE IInv'
    <2>1. PICK c \in Job : c = Call("remove_member") /\ c.op = "remove_member" /\ c.edits = edits
      BY <1>1 DEF Op
    <2>2. PICK call \in Job : call = [c EXCEPT !.on = m]
      BY <2>1 DEF Job, IInv, TypeOK
    <2>3. call.op = "remove_member" /\ call.edits = edits
      BY <2>1, <2>2 DEF Job
    <2> QED
      BY <1>4, <2>1, <2>2, <2>3, BeginIInv
  <1>5. ASSUME ProviderAnswers(r) PROVE IInv'
    BY <1>1, <1>5, BeginIInv DEF ProviderAnswers, Op
  <1>6. ASSUME NEW yes \in BOOLEAN, checks # {}, Begin(r, [Call("decide") EXCEPT !.yes = yes])
        PROVE  IInv'
    <2>1. PICK c \in Job : c = Call("decide") /\ c.op = "decide" /\ c.edits = edits
      BY <1>1 DEF Op
    <2>2. PICK call \in Job : call = [c EXCEPT !.yes = yes]
      BY <2>1 DEF Job
    <2>3. call.op = "decide" /\ call.edits = edits
      BY <2>1, <2>2 DEF Job
    <2> QED
      BY <1>6, <2>1, <2>2, <2>3, BeginIInv
  <1>7. ASSUME NEW preference \in Preference, NEW yes \in BOOLEAN,
               Begin(r, [Call("prefer") EXCEPT !.preference = preference, !.yes = yes])
        PROVE  IInv'
    <2>1. PICK c \in Job : c = Call("prefer") /\ c.op = "prefer" /\ c.edits = edits
      BY <1>1 DEF Op
    <2>2. PICK call \in Job : call = [c EXCEPT !.preference = preference, !.yes = yes]
      BY <2>1 DEF Job
    <2>3. call.op = "prefer" /\ call.preference = preference /\ call.edits = edits
      BY <2>1, <2>2 DEF Job
    <2> QED
      BY <1>7, <2>1, <2>2, <2>3, BeginIInv
  <1> QED
    BY <1>2, <1>3, <1>4, <1>5, <1>6, <1>7 DEF Arrive

LEMMA CheckStatusIInv == ASSUME IInv, NEW r \in Request, CheckStatus(r) PROVE IInv'
  <1>1. /\ pc[r] = "status" /\ StepFits(job[r].op, "status") /\ Established(r, "status")
        /\ UNCHANGED data
    BY JobSoFar DEF CheckStatus, Step
  <1>2. CASE Answer(r)
    BY <1>1, <1>2, AnswerIInv
  <1>3. ASSUME NEW where \in {"provider", "fields", "write"}, Goto(r, where),
               where = "provider" => job[r].op = "initiate",
               where = "fields" => job[r].op = "submit",
               where = "write" => job[r].op \notin {"initiate", "submit"}
        PROVE  IInv'
    <2>1. StepFits(job[r].op, where) /\ Established(r, where)
      BY <1>1, <1>3 DEF StepFits, Established
    <2> QED
      BY <1>1, <1>3, <2>1, GotoIInv DEF Step
  <1> QED
    BY <1>2, <1>3 DEF CheckStatus, GotoIf

LEMMA ReadFieldsIInv == ASSUME IInv, NEW r \in Request, ReadFields(r) PROVE IInv'
  <1>1. /\ pc[r] = "fields" /\ job[r].op = "submit" /\ UNCHANGED data
    BY JobSoFar DEF ReadFields, Step, StepFits
  <1>2. CASE Answer(r)
    BY <1>1, <1>2, AnswerIInv
  <1>3. CASE FieldsComplete /\ Goto(r, "memberships")
    <2>1. StepFits(job[r].op, "memberships") /\ Established(r, "memberships")
      BY <1>1, <1>3 DEF StepFits, Established
    <2> QED
      BY <1>1, <1>3, <2>1, GotoIInv DEF Step
  <1> QED
    BY <1>2, <1>3 DEF ReadFields, GotoIf

LEMMA ReadMembershipsIInv == ASSUME IInv, NEW r \in Request, ReadMemberships(r) PROVE IInv'
  <1>1. /\ pc[r] = "memberships" /\ job[r].op = "submit" /\ UNCHANGED data
        /\ FieldsComplete \/ Edited(r)
    BY JobSoFar DEF ReadMemberships, Step, StepFits, Established
  <1>2. CASE Answer(r)
    BY <1>1, <1>2, AnswerIInv
  <1>3. CASE members # {} /\ Goto(r, "notify")
    <2>1. StepFits(job[r].op, "notify") /\ Established(r, "notify")
      BY <1>1, <1>3 DEF StepFits, Established, Complete, Announcing
    <2> QED
      BY <1>1, <1>3, <2>1, GotoIInv DEF Step
  <1> QED
    BY <1>2, <1>3 DEF ReadMemberships, GotoIf

LEMMA ReadPreferenceIInv == ASSUME IInv, NEW r \in Request, ReadPreference(r) PROVE IInv'
  <1> DEFINE enabled == Enabled(broker, CategoryOf[job[r].op])
  <1>1. /\ pc[r] = "notify" /\ JobAt(r) /\ job[r] \in Job /\ job[r].op \in Announcing
        /\ Established(r, "notify") /\ UNCHANGED data
    BY JobSoFar DEF ReadPreference, Step, StepFits
  <1>2. job[r].op = "decide" => enabled
    BY DEF Enabled, CategoryOf, IInv, MandatoryReaches, Mandatory
  <1>3. enabled \in BOOLEAN
    BY DEF Enabled
  <1>4. PICK asked \in Job : asked = [job[r] EXCEPT !.shouldSend = enabled]
    BY <1>1, <1>3 DEF Job
  <1>5. /\ asked.op = job[r].op /\ asked.edits = job[r].edits /\ (asked.shouldSend <=> enabled)
        /\ asked.patch = job[r].patch /\ asked.preference = job[r].preference
    BY <1>1, <1>4 DEF Job
  <1>6. pc' = [pc EXCEPT ![r] = "commit"] /\ job' = [job EXCEPT ![r] = asked]
    BY <1>4 DEF ReadPreference
  <1>7. pc'[r] = "commit" /\ job'[r] = asked
    BY <1>6 DEF IInv, TypeOK
  <1> HIDE DEF enabled
  <1>8. Established(r, pc[r])'
    BY <1>1, <1>2, <1>5, <1>7
    DEF Established, Edited, Complete, FieldsComplete, data
  <1>9. JobAt(r)'
    BY <1>1, <1>5, <1>7, <1>8 DEF JobAt, StepFits, Announcing, Step, data
  <1> QED
    BY <1>1, <1>6, <1>9, ReadIInv DEF Step

LEMMA AbortIInv == ASSUME IInv, NEW r \in Request, Abort(r) PROVE IInv'
  BY AnswerIInv DEF Abort

(***************************************************************************)
(* The statements that write.                                              *)
(***************************************************************************)
\* A commit of an edit ends its call, and counts.
LEMMA EditIInv ==
  ASSUME IInv, NEW r \in Request, Answer(r), edits' = edits + 1,
         UNCHANGED <<checks, applicant, optedOut, notifications, sent, mails>>,
         profile' \in Profile, profile'.status = profile.status, members' \subseteq Id
  PROVE  IInv'
  <1>1. /\ pc' = [pc EXCEPT ![r] = "answered"] /\ job' = [job EXCEPT ![r] = NoJob]
        /\ edits \in Nat
    BY DEF Answer, IInv, TypeOK
  <1>2. pc'[r] = "answered" /\ \A q \in Request \ {r} : pc'[q] = pc[q] /\ job'[q] = job[q]
    BY <1>1 DEF IInv, TypeOK
  <1>3. TypeOK'
    BY <1>1 DEF IInv, TypeOK
  <1>4. Kept
    BY <1>1 DEF Kept
  <1>5. MailsCounted'
    BY <1>2 DEF IInv, MailsCounted, Announced
  <1>6. MandatoryReaches' /\ VerificationIsOnRecord'
    BY DEF IInv, MandatoryReaches, VerificationIsOnRecord
  <1>7. JobAt(r)'
    BY <1>2 DEF JobAt, Step
  <1> QED
    BY <1>2, <1>3, <1>4, <1>5, <1>6, <1>7, StepIInv

LEMMA WriteProfileIInv == ASSUME IInv, NEW r \in Request, WriteProfile(r) PROVE IInv'
  <1>1. JobAt(r) /\ job[r].op = "update" /\ pc[r] = "write"
    BY JobSoFar DEF WriteProfile, Step
  <1>2. PICK patch \in [fills : SUBSET Field, clears : SUBSET Field, licence : Licence] :
          patch = job[r].patch
    BY <1>1, PatchAssumption DEF JobAt, Step
  <1>3. profile' = [profile EXCEPT !.filled = (profile.filled \ patch.clears) \union patch.fills,
                                   !.licence = patch.licence]
    BY <1>2 DEF WriteProfile
  <1>4. profile' \in Profile /\ profile'.status = profile.status
    BY <1>2, <1>3 DEF Profile, IInv, TypeOK
  <1> QED
    BY <1>4, EditIInv DEF WriteProfile, IInv, TypeOK

LEMMA AttestIInv == ASSUME IInv, NEW r \in Request, Attest(r) PROVE IInv'
  <1>1. profile' \in Profile /\ profile'.status = profile.status
    BY DEF Attest, Profile, IInv, TypeOK
  <1> QED
    BY <1>1, EditIInv DEF Attest, IInv, TypeOK

LEMMA WriteMemberIInv == ASSUME IInv, NEW r \in Request, WriteMember(r) PROVE IInv'
  <1>1. members' \subseteq Id
    BY DEF WriteMember, Id, IInv, TypeOK
  <1> QED
    BY <1>1, EditIInv DEF WriteMember, IInv, TypeOK

LEMMA SubmitToProviderIInv == ASSUME IInv, NEW r \in Request, SubmitToProvider(r) PROVE IInv'
  <1>1. /\ pc[r] = "provider" /\ JobAt(r) /\ job[r] \in Job /\ job[r].op = "initiate"
        /\ pc' = [pc EXCEPT ![r] = "record"] /\ UNCHANGED job /\ applicant' = TRUE
        /\ UNCHANGED <<profile, members, checks, optedOut, notifications, sent, mails, edits>>
    BY JobSoFar DEF SubmitToProvider, Goto, Step, StepFits
  <1>2. pc'[r] = "record" /\ \A q \in Request \ {r} : pc'[q] = pc[q] /\ job'[q] = job[q]
    BY <1>1 DEF IInv, TypeOK
  <1>3. TypeOK'
    BY <1>1 DEF IInv, TypeOK, Step
  <1>4. Kept
    BY <1>1 DEF Kept, FieldsComplete, IInv, TypeOK
  <1>5. MailsCounted' /\ MandatoryReaches' /\ VerificationIsOnRecord'
    BY <1>1, <1>2 DEF IInv, MailsCounted, Announced, MandatoryReaches, VerificationIsOnRecord
  <1>6. JobAt(r)'
    BY <1>1, <1>2 DEF JobAt, StepFits, Established, Step
  <1> QED
    BY <1>2, <1>3, <1>4, <1>5, <1>6, StepIInv

LEMMA RecordCheckIInv == ASSUME IInv, NEW r \in Request, RecordCheck(r) PROVE IInv'
  <1>1. /\ pc[r] = "record" /\ JobAt(r) /\ job[r] \in Job /\ job[r].op \in {"initiate", "webhook"}
        /\ UNCHANGED job /\ checks' = checks \union {r}
        /\ UNCHANGED <<profile, members, applicant, optedOut, notifications, sent, mails, edits>>
    BY JobSoFar DEF RecordCheck, Goto, Step, StepFits
  <1>2. PICK where \in {"queue", "notify"} :
          pc' = [pc EXCEPT ![r] = where] /\ (where = "queue" <=> job[r].op = "webhook")
    BY DEF RecordCheck, Goto
  <1>3. pc'[r] = where /\ \A q \in Request \ {r} : pc'[q] = pc[q] /\ job'[q] = job[q]
    BY <1>1, <1>2 DEF IInv, TypeOK
  <1>4. TypeOK'
    BY <1>1, <1>2 DEF IInv, TypeOK, Step
  <1>5. Kept
    BY <1>1 DEF Kept, FieldsComplete, IInv, TypeOK
  <1>6. MailsCounted' /\ MandatoryReaches' /\ VerificationIsOnRecord'
    BY <1>1, <1>3 DEF IInv, MailsCounted, Announced, MandatoryReaches, VerificationIsOnRecord
  <1>7. StepFits(job[r].op, where) /\ Established(r, where)'
    BY <1>1, <1>2 DEF StepFits, Established, Announcing
  <1>8. JobAt(r)'
    BY <1>1, <1>3, <1>7 DEF JobAt, StepFits, Established, Step
  <1> QED
    BY <1>3, <1>4, <1>5, <1>6, <1>8, StepIInv

LEMMA QueueEntriesIInv == ASSUME IInv, NEW r \in Request, QueueEntries(r) PROVE IInv'
  <1> DEFINE entry(u) == [by |-> r, recipient |-> u, category |-> CategoryOf.webhook,
                          suppressed |-> <<u, CategoryOf.webhook>> \in optedOut]
  <1>1. PICK linked \in SUBSET ClientUser :
          notifications' = notifications \union {entry(u) : u \in linked}
    BY DEF QueueEntries
  <1>2. /\ pc' = [pc EXCEPT ![r] = "answered"] /\ job' = [job EXCEPT ![r] = NoJob]
        /\ UNCHANGED <<profile, members, checks, applicant, optedOut, sent, mails, edits>>
    BY DEF QueueEntries, Answer
  <1>3. \A u \in linked : entry(u) \in Notification /\ entry(u).category \notin Mandatory
    BY DEF Notification, Recipient, CategoryOf, Category, Mandatory
  <1> HIDE DEF entry
  <1>4. pc'[r] = "answered" /\ \A q \in Request \ {r} : pc'[q] = pc[q] /\ job'[q] = job[q]
    BY <1>2 DEF IInv, TypeOK
  <1>5. TypeOK'
    BY <1>1, <1>2, <1>3 DEF IInv, TypeOK
  <1>6. Kept
    BY <1>1, <1>2 DEF Kept, FieldsComplete, IInv, TypeOK
  <1>7. MailsCounted'
    BY <1>1, <1>2, <1>4 DEF IInv, MailsCounted, Announced
  <1>8. MandatoryReaches' /\ VerificationIsOnRecord'
    BY <1>1, <1>2, <1>3 DEF IInv, MandatoryReaches, VerificationIsOnRecord
  <1>9. JobAt(r)'
    BY <1>4 DEF JobAt, Step
  <1> QED
    BY <1>4, <1>5, <1>6, <1>7, <1>8, <1>9, StepIInv

LEMMA CommitIInv == ASSUME IInv, NEW r \in Request, pc[r] = "commit", Commit(r) PROVE IInv'
  <1> DEFINE row == [by |-> r, recipient |-> broker, category |-> CategoryOf[job[r].op],
                     suppressed |-> ~job[r].shouldSend]
  <1>1. /\ JobAt(r) /\ job[r] \in Job /\ job[r].op \in Announcing /\ Established(r, "commit")
        /\ job[r].shouldSend \in BOOLEAN
    BY JobSoFar DEF Step, StepFits, Job
  <1>2. /\ notifications' = notifications \union {row}
        /\ profile' = [profile EXCEPT !.status = StatusAfter(job[r].op, job[r].yes)]
        /\ UNCHANGED <<members, checks, applicant, optedOut, sent, mails, edits>>
    BY DEF Commit
  <1>3. /\ row \in Notification /\ row.recipient = broker /\ row.by = r
        /\ row.suppressed <=> ~job[r].shouldSend
        /\ row.suppressed => row.category \notin Mandatory
    <2> DEFINE category == CategoryOf[job[r].op]
    <2>1. category \in Category /\ (category \in Mandatory => job[r].op = "decide")
      BY <1>1 DEF CategoryOf, Category, Announcing, Mandatory
    <2> HIDE DEF category
    <2>2. row = [by |-> r, recipient |-> broker, category |-> category, suppressed |-> ~job[r].shouldSend]
      BY DEF category
    <2>3. job[r].op = "decide" => job[r].shouldSend
      BY <1>1 DEF Established
    <2> HIDE DEF row
    <2> QED
      BY <1>1, <2>1, <2>2, <2>3 DEF Notification, Recipient
  <1>4. StatusAfter(job[r].op, job[r].yes) \in {"submitted", "in_verification", "verified", "attention_required"}
    BY DEF StatusAfter
  <1>5. /\ profile' \in Profile /\ profile'.filled = profile.filled
        /\ profile'.licence = profile.licence /\ profile'.attested = profile.attested
        /\ profile'.status = StatusAfter(job[r].op, job[r].yes)
    BY <1>2, <1>4 DEF Profile, IInv, TypeOK
  <1>6. profile'.status # "submitted" => checks # {}
    BY <1>1, <1>5 DEF StatusAfter, Established, Announcing
  <1>7. \/ Answer(r)
        \/ job[r].shouldSend /\ Goto(r, "send")
    BY DEF Commit, GotoIf
  <1> HIDE DEF row
  <1>8. /\ pc'[r] \in {"answered", "send"} /\ (pc'[r] = "send" => job[r].shouldSend /\ job'[r] = job[r])
        /\ \A q \in Request \ {r} : pc'[q] = pc[q] /\ job'[q] = job[q]
        /\ pc' \in [Request -> {"idle", "answered"} \union Step] /\ job' \in [Request -> Job \union {NoJob}]
    BY <1>7 DEF Answer, Goto, IInv, TypeOK, Step
  <1>9. TypeOK'
    BY <1>2, <1>3, <1>5, <1>8 DEF IInv, TypeOK
  <1>10. Kept
    BY <1>2, <1>5 DEF Kept, FieldsComplete, IInv, TypeOK
  <1>11. MailsCounted'
    BY <1>2, <1>8 DEF IInv, MailsCounted, Announced
  <1>12. MandatoryReaches'
    BY <1>2, <1>3 DEF IInv, MandatoryReaches
  <1>13. VerificationIsOnRecord'
    BY <1>2, <1>6 DEF VerificationIsOnRecord
  <1>14. JobAt(r)'
    <2> SUFFICES ASSUME pc'[r] = "send" PROVE JobAt(r)'
      BY <1>8 DEF JobAt, Step
    <2>1. job'[r] = job[r] /\ Announced(r)'
      BY <1>2, <1>3, <1>8 DEF Announced
    <2>2. Established(r, pc[r])'
      BY <1>1, <1>2, <2>1 DEF Established
    <2> QED
      BY <1>1, <1>2, <2>1, <2>2 DEF JobAt, StepFits, Step
  <1> QED
    BY <1>8, <1>9, <1>10, <1>11, <1>12, <1>13, <1>14, StepIInv

LEMMA SendIInv == ASSUME IInv, NEW r \in Request, Send(r) PROVE IInv'
  <1>1. /\ pc[r] = "send" /\ JobAt(r) /\ job[r] \in Job /\ Announced(r) /\ mails[r] = 0
    BY JobSoFar DEF Send, Step, Established, IInv, TypeOK, MailsCounted
  <1>2. /\ pc' = [pc EXCEPT ![r] = "mark"] /\ UNCHANGED job /\ mails' = [mails EXCEPT ![r] = 1]
        /\ UNCHANGED <<profile, members, checks, applicant, optedOut, notifications, sent, edits>>
    BY <1>1 DEF Send, Goto
  <1>3. /\ pc'[r] = "mark" /\ mails'[r] = 1
        /\ \A q \in Request \ {r} : pc'[q] = pc[q] /\ job'[q] = job[q] /\ mails'[q] = mails[q]
    BY <1>2 DEF IInv, TypeOK
  <1>4. TypeOK'
    BY <1>2 DEF IInv, TypeOK, Step
  <1>5. Kept
    BY <1>2 DEF Kept, FieldsComplete, IInv, TypeOK
  <1>6. MailsCounted'
    BY <1>1, <1>2, <1>3 DEF IInv, MailsCounted, Announced
  <1>7. MandatoryReaches' /\ VerificationIsOnRecord'
    BY <1>2 DEF IInv, MandatoryReaches, VerificationIsOnRecord
  <1>8. JobAt(r)'
    BY <1>1, <1>2, <1>3 DEF JobAt, StepFits, Established, Announced, Step
  <1> QED
    BY <1>3, <1>4, <1>5, <1>6, <1>7, <1>8, StepIInv

LEMMA MarkSentIInv == ASSUME IInv, NEW r \in Request, MarkSent(r) PROVE IInv'
  <1>1. /\ pc[r] = "mark" /\ sent' = sent \union {r}
        /\ pc' = [pc EXCEPT ![r] = "answered"] /\ job' = [job EXCEPT ![r] = NoJob]
        /\ UNCHANGED <<profile, members, checks, applicant, optedOut, notifications, mails, edits>>
    BY DEF MarkSent, Answer
  <1>2. pc'[r] = "answered" /\ \A q \in Request \ {r} : pc'[q] = pc[q] /\ job'[q] = job[q]
    BY <1>1 DEF IInv, TypeOK
  <1>3. TypeOK' /\ Kept
    BY <1>1 DEF IInv, TypeOK, Kept, FieldsComplete
  <1>4. MailsCounted' /\ MandatoryReaches' /\ VerificationIsOnRecord'
    BY <1>1, <1>2 DEF IInv, MailsCounted, Announced, MandatoryReaches, VerificationIsOnRecord
  <1>5. JobAt(r)'
    BY <1>2 DEF JobAt, Step
  <1> QED
    BY <1>2, <1>3, <1>4, <1>5, StepIInv

LEMMA SetPreferenceIInv == ASSUME IInv, NEW r \in Request, SetPreference(r) PROVE IInv'
  <1>1. pc[r] = "prefer" /\ job[r].preference \in Preference
    BY JobSoFar DEF SetPreference, Step, StepFits, JobAt
  <1>2. /\ pc' = [pc EXCEPT ![r] = "answered"] /\ job' = [job EXCEPT ![r] = NoJob]
        /\ UNCHANGED <<profile, members, checks, applicant, notifications, sent, mails, edits>>
        /\ optedOut' \subseteq optedOut \union {p \in {job[r].preference} : p[2] \notin Mandatory}
    BY DEF SetPreference, Answer
  <1>3. pc'[r] = "answered" /\ \A q \in Request \ {r} : pc'[q] = pc[q] /\ job'[q] = job[q]
    BY <1>2 DEF IInv, TypeOK
  <1>4. TypeOK' /\ Kept
    BY <1>1, <1>2 DEF IInv, TypeOK, Kept, FieldsComplete
  <1>5. MailsCounted' /\ MandatoryReaches' /\ VerificationIsOnRecord'
    BY <1>2, <1>3 DEF IInv, MailsCounted, Announced, MandatoryReaches, VerificationIsOnRecord
  <1>6. JobAt(r)'
    BY <1>3 DEF JobAt, Step
  <1> QED
    BY <1>3, <1>4, <1>5, <1>6, StepIInv

LEMMA StutterIInv == ASSUME IInv, UNCHANGED vars PROVE IInv'
  <1>1. TypeOK' /\ MailsCounted' /\ MandatoryReaches' /\ VerificationIsOnRecord' /\ Kept
    BY DEF IInv, vars, data, TypeOK, MailsCounted, Announced, MandatoryReaches,
           VerificationIsOnRecord, Kept, FieldsComplete
  <1>2. \A r \in Request : JobAt(r)'
    BY <1>1, JobIsKept DEF vars
  <1> QED
    BY <1>1, <1>2 DEF IInv

LEMMA NextIInv == ASSUME IInv, [Next]_vars PROVE IInv'
  <1>1. ASSUME NEW r \in Request, Statement(r) PROVE IInv'
    BY <1>1, CheckStatusIInv, WriteProfileIInv, AttestIInv, WriteMemberIInv, ReadFieldsIInv,
       ReadMembershipsIInv, SubmitToProviderIInv, RecordCheckIInv, QueueEntriesIInv,
       ReadPreferenceIInv, CommitIInv, SendIInv, MarkSentIInv, SetPreferenceIInv
    DEF Statement, Submit, Initiate, Decide
  <1> QED
    BY <1>1, ArriveIInv, AbortIInv, StutterIInv DEF Next, Served

\* The strengthening holds in every state that can be reached.
THEOREM Invariance == Spec => []IInv
  BY InitIInv, NextIInv, PTL DEF Spec

\* Every table keeps the shape its columns and constraints give it.
THEOREM TypeCorrect == Spec => []TypeOK
  <1>1. IInv => TypeOK
    BY DEF IInv
  <1> QED
    BY <1>1, Invariance, PTL

\* Wherever the process stops and whatever preferences change meanwhile, an e-mail goes out
\* at most once and never without its row (NOT-005, NOT-007).
THEOREM MailFollows == Spec => []MailFollowsNotification
  <1>1. ASSUME IInv PROVE MailFollowsNotification
    <2>1. ASSUME NEW r \in Request, mails[r] > 0
          PROVE  mails[r] = 1 /\ \E n \in Inbox(broker) : n.by = r /\ ~n.suppressed
      <3>1. mails[r] = 1 /\ Announced(r)
        BY <1>1, <2>1 DEF IInv, TypeOK, MailsCounted
      <3> QED
        BY <3>1 DEF Announced, Inbox, SeesNotification
    <2>2. \A r \in sent : mails[r] = 1
      BY <1>1 DEF IInv, TypeOK, MailsCounted
    <2> QED
      BY <1>1, <2>1, <2>2 DEF MailFollowsNotification, IInv, MandatoryReaches
  <1> QED
    BY <1>1, Invariance, PTL

\* Wherever an attempt stops, and however often the provider answers, a profile in
\* verification has a check to decide on.
THEOREM OnRecord == Spec => []VerificationIsOnRecord
  <1>1. IInv => VerificationIsOnRecord
    BY DEF IInv
  <1> QED
    BY <1>1, Invariance, PTL

\* The check for completeness, two statements of a READ COMMITTED transaction, lets nothing
\* through but what a concurrent edit has taken away since the call arrived.
THEOREM SubmittedComplete == Spec => IncompleteOnlyByOverlap
  <1>1. ASSUME IInv, [Next]_vars, NEW r \in Request, pc[r] = "commit", pc'[r] # pc[r],
               profile' # profile, job[r].op = "submit"
        PROVE  Complete \/ edits # job[r].edits
    BY <1>1, JobSoFar DEF Step, Established, Edited
  <1>2. IInv /\ [Next]_vars =>
          \A r \in Request : (pc[r] = "commit" /\ pc'[r] # pc[r] /\ profile' # profile) =>
            (job[r].op = "submit" => Complete \/ edits # job[r].edits)
    BY <1>1
  <1> QED
    BY <1>2, Invariance, PTL DEF Spec, IncompleteOnlyByOverlap
=============================================================================
