--------------------------- MODULE SessionsProofs ---------------------------
(***************************************************************************)
(* What holds of Sessions for every set of accounts, codes and calls, and  *)
(* whoever is registered and enrolled at the start.                        *)
(***************************************************************************)
EXTENDS Sessions, TLAPS

(***************************************************************************)
(* The inductive invariant: what the tables hold, what a call was asked    *)
(* and what it has established.                                            *)
(***************************************************************************)
Factor == {"confirm", "verify_totp", "verify_backup"}

\* A secret is of one account, and was on file before anybody could present it.
OwnsSecret(a, s) ==
  \/ s = First[a]
  \/ s \in Request /\ pc[s] = "done" /\ job[s].op = "enroll" /\ job[s].account = a

IsEnrolled(a) == accounts[a] # NoRow /\ accounts[a].mfa_enrolled

\* A session is the last thing a call leaves behind.
TokensIssued ==
  /\ \A r \in Request : tokens[r] # NoRow =>
       /\ pc[r] = "done"
       /\ job[r].op \in {"login", "refresh"} \union Factor
       /\ job[r].op = "login" => tokens[r].owner \notin ClientUser
  /\ \A t \in Id : (tokens[t] # NoRow /\ tokens[t].owner \in ClientUser) => IsEnrolled(tokens[t].owner)
  /\ \A t \in Id : (tokens[t] # NoRow /\ tokens[t].replaced_by \in Request) =>
       /\ tokens[tokens[t].replaced_by] # NoRow
       /\ job[tokens[t].replaced_by].on = t

PasswordsSet ==
  \A a \in Account, r \in Request : (accounts[a] # NoRow /\ accounts[a].password = r) =>
    pc[r] = "done" /\ job[r].op \in {"register", "provision", "redeem", "change"}

SecretsKept ==
  \A a \in ClientUser : mfa[a] # NoRow =>
    /\ OwnsSecret(a, mfa[a].secret)
    /\ mfa[a].enrolled => IsEnrolled(a)

ResetsStored == \A r \in Request : resets[r] # NoRow => pc[r] = "done"

\* What the caller was entitled to present, which no later commit takes away.
Asked(r) ==
  LET a == job[r].account
      on == job[r].on
      op == job[r].op
  IN
  /\ job[r] \in Job
  /\ op \notin {"register", "provision"} => Exists(a)
  /\ job[r].held \subseteq SessionsOf(a)
  /\ op \in {"refresh", "logout"} => on \in SessionsOf(a)
  /\ op = "redeem" => on \in Id /\ resets[on] # NoRow
  /\ op = "enroll" => a \in ClientUser
  /\ op \in Factor => a \in ClientUser /\ mfa[a] # NoRow /\ OwnsSecret(a, on)

\* The steps a call of each kind takes.
StepFits(op, where) ==
  /\ where = "insert" => op \in {"register", "provision"}
  /\ where = "authenticate" => op = "login"
  /\ where = "save" => op = "enroll"
  /\ where = "credential" => op \in Factor
  /\ where = "confirm" => op = "confirm"
  /\ where = "consume" => op = "verify_backup"
  /\ where = "issue" => op \in {"login"} \union Factor
  /\ where \in {"present", "rotate", "reused"} => op = "refresh"
  /\ where = "revoke" => op = "logout"
  /\ where = "check" => op = "change"
  /\ where = "store" => op = "ask"
  /\ where = "claim" => op = "redeem"
  /\ where = "sweep" => op \in RevokeAll
  /\ where = "commit" => op \in RevokeAll \union {"refresh"}
  /\ where = "activate" => op = "reactivate"

\* The backup code r presents is gone, as long as the secret it came with is there.
CodeGone(r) ==
  mfa[job[r].account].secret = job[r].on => job[r].code \notin mfa[job[r].account].codes

\* What its checks have established, in a form that outlives them.
Established(r) ==
  LET a == job[r].account
      on == job[r].on
      op == job[r].op
      where == pc[r]
  IN
  /\ (where = "issue" /\ op = "login") => a \notin ClientUser
  /\ (where \in {"consume", "issue"} /\ op \in Factor) => IsEnrolled(a)
  /\ (where \in {"issue", "done"} /\ op = "verify_backup") => CodeGone(r)
  /\ where = "commit" => /\ \A t \in seen[r] : tokens[t] # NoRow
                         /\ \A t \in job[r].held : ~Live(t) \/ t \in seen[r]
  /\ ((where = "done" /\ op \in RevokeAll) \/ (where = "refused" /\ op = "refresh")) =>
       \A t \in job[r].held : ~Live(t)
  /\ (where = "done" /\ op = "refresh") => tokens[on].revoked /\ tokens[on].replaced_by \in Request

\* What r presents is spent, for good.
SpentNow(r) ==
  \/ job[r].op = "refresh" /\ ~Live(job[r].on)
  \/ job[r].op = "redeem" /\ resets[job[r].on].used
  \/ job[r].op = "verify_backup" /\ CodeGone(r)

\* A call that presents what was spent has nowhere to go.
Spent(r) ==
  ~job[r].good =>
    /\ SpentNow(r)
    /\ job[r].op = "refresh" => pc[r] \notin {"rotate", "done"}
    /\ job[r].op = "redeem" => pc[r] \notin {"sweep", "commit", "done"}
    /\ job[r].op = "verify_backup" => pc[r] \notin {"issue", "done"}

\* Of two calls with one backup code, one gets past its UPDATE.
CodesApart ==
  \A r, q \in Request :
    (r # q /\ \A x \in {r, q} : pc[x] \in {"issue", "done"} /\ job[x].op = "verify_backup") =>
      <<job[r].on, job[r].code>> # <<job[q].on, job[q].code>>

Call(r) == IF pc[r] = "idle" THEN job[r] = NoJob
           ELSE Asked(r) /\ StepFits(job[r].op, pc[r]) /\ Established(r) /\ Spent(r)

IInv == /\ TypeOK /\ TokensIssued /\ PasswordsSet /\ SecretsKept /\ ResetsStored /\ CodesApart
        /\ \A r \in Request : Call(r)

(***************************************************************************)
(* What a step may do to the tables, and what survives it.                 *)
(***************************************************************************)
Kept ==
  /\ \A q \in Request : job[q] # NoJob => job'[q] = job[q]
  /\ \A q \in Request : pc[q] = "done" => pc'[q] = "done"
  /\ \A a \in Account : Exists(a) =>
       accounts'[a] # NoRow /\ (accounts[a].mfa_enrolled => accounts'[a].mfa_enrolled)
  /\ \A t \in Id : tokens[t] # NoRow =>
       /\ tokens'[t] # NoRow
       /\ tokens'[t].owner = tokens[t].owner
       /\ tokens[t].revoked => tokens'[t].revoked
       /\ tokens[t].replaced_by \in Request => tokens'[t].replaced_by \in Request
  /\ \A k \in Id : resets[k] # NoRow =>
       resets'[k] # NoRow /\ (resets[k].used => resets'[k].used)
  /\ \A q \in Request : resets[q] = NoRow /\ resets'[q] # NoRow => pc'[q] = "done"
  /\ \A a \in ClientUser : mfa[a] # NoRow =>
       /\ mfa'[a] # NoRow
       /\ \/ mfa'[a].secret = mfa[a].secret /\ mfa'[a].codes \subseteq mfa[a].codes
          \/ mfa'[a].secret \in Request /\ pc[mfa'[a].secret] # "done"

LEMMA JobsAreNoNull == ASSUME NEW r \in Request, job[r] \in Job PROVE job[r] # NoJob
  BY SentinelAssumption

LEMMA SecretIsKept ==
  ASSUME IInv, Kept, NEW a \in Account, NEW s \in Id, OwnsSecret(a, s) PROVE OwnsSecret(a, s)'
  <1>1. CASE s = First[a]
    BY <1>1 DEF OwnsSecret
  <1>2. CASE s # First[a]
    <2>1. s \in Request /\ pc[s] = "done" /\ job[s].op = "enroll" /\ job[s].account = a
      BY <1>2 DEF OwnsSecret
    <2>2. job[s] # NoJob
      BY <2>1, JobsAreNoNull DEF IInv, Call, Asked
    <2> QED
      BY <2>1, <2>2 DEF OwnsSecret, Kept
  <1> QED
    BY <1>1, <1>2

LEMMA AskedIsKept ==
  ASSUME IInv, Kept, NEW r \in Request, Asked(r) PROVE Asked(r)' /\ job'[r] = job[r]
  <1>1. job[r] \in Job /\ job'[r] = job[r]
    BY JobsAreNoNull DEF Asked, Kept
  <1>2. \A a \in Account : SessionsOf(a) \subseteq SessionsOf(a)'
    BY DEF SessionsOf, Kept
  <1>3. job[r].account \in Account /\ job[r].held \subseteq Id /\ job[r].on \in Id \union {NoRow}
    BY <1>1 DEF Job
  <1>4. job[r].op \in Factor => job[r].on \in Id
    BY DEF Asked, OwnsSecret, Id, Earlier, Factor, IInv, TypeOK, Job
  <1>5. job[r].op \in Factor =>
          /\ job[r].account \in ClientUser /\ mfa'[job[r].account] # NoRow
          /\ OwnsSecret(job[r].account, job[r].on)'
    <2> SUFFICES ASSUME job[r].op \in Factor
                 PROVE  /\ job[r].account \in ClientUser /\ mfa'[job[r].account] # NoRow
                        /\ OwnsSecret(job[r].account, job[r].on)'
      OBVIOUS
    <2>1. PICK a \in ClientUser, s \in Id : a = job[r].account /\ s = job[r].on
      BY <1>4 DEF Asked
    <2>2. mfa[a] # NoRow /\ OwnsSecret(a, s)
      BY <2>1 DEF Asked
    <2>3. OwnsSecret(a, s)'
      BY <1>3, <2>1, <2>2, SecretIsKept
    <2> QED
      BY <1>1, <2>1, <2>2, <2>3 DEF Kept
  <1>6. job[r].op \notin {"register", "provision"} => Exists(job[r].account)'
    BY <1>1, <1>3 DEF Asked, Kept, Exists
  <1>7. job[r].op = "redeem" => job[r].on \in Id /\ resets'[job[r].on] # NoRow
    BY DEF Asked, Kept
  <1> QED
    BY <1>1, <1>2, <1>3, <1>5, <1>6, <1>7 DEF Asked

\* A code that is gone stays gone: a new secret is one nobody has presented yet.
LEMMA CodeStaysGone ==
  ASSUME IInv, Kept, NEW r \in Request, Asked(r), job[r].op = "verify_backup", CodeGone(r)
  PROVE  CodeGone(r)'
  <1>1. /\ job'[r] = job[r] /\ job[r].account \in ClientUser /\ mfa[job[r].account] # NoRow
        /\ OwnsSecret(job[r].account, job[r].on) /\ job[r].account \in Account
    BY AskedIsKept DEF Asked, Factor, Job
  <1>2. job[r].on \in Request => pc[job[r].on] = "done"
    BY <1>1, FirstAssumption DEF OwnsSecret, Earlier
  <1> QED
    BY <1>1, <1>2 DEF CodeGone, Kept

LEMMA DeadStaysDead ==
  ASSUME IInv, Kept, NEW t \in Id, tokens[t] # NoRow, ~Live(t) PROVE ~Live(t)'
  BY DEF Kept, Live

LEMMA SpentStaysSpent ==
  ASSUME IInv, Kept, NEW r \in Request, Asked(r), SpentNow(r) PROVE SpentNow(r)'
  <1>1. job'[r] = job[r]
    BY AskedIsKept
  <1>2. CASE job[r].op = "refresh" /\ ~Live(job[r].on)
    BY <1>1, <1>2, DeadStaysDead DEF SpentNow, Asked, SessionsOf
  <1>3. CASE job[r].op = "redeem" /\ resets[job[r].on].used
    BY <1>1, <1>3 DEF SpentNow, Asked, Kept
  <1>4. CASE job[r].op = "verify_backup" /\ CodeGone(r)
    BY <1>1, <1>4, CodeStaysGone DEF SpentNow
  <1> QED
    BY <1>2, <1>3, <1>4 DEF SpentNow

LEMMA CallIsKept ==
  ASSUME IInv, Kept, NEW r \in Request, pc'[r] = pc[r], job'[r] = job[r], seen'[r] = seen[r]
  PROVE  Call(r)'
  <1>1. CASE pc[r] = "idle"
    BY <1>1 DEF IInv, Call
  <1>2. CASE pc[r] # "idle"
    <2>1. Asked(r) /\ StepFits(job[r].op, pc[r]) /\ Established(r) /\ Spent(r)
      BY <1>2 DEF IInv, Call
    <2>2. Asked(r)' /\ StepFits(job[r].op, pc[r])'
      BY <2>1, AskedIsKept DEF StepFits
    <2>3. Spent(r)'
      BY <2>1, SpentStaysSpent DEF Spent
    <2>4. /\ job[r].account \in Account /\ job[r].held \subseteq Id
          /\ \A t \in job[r].held : tokens[t] # NoRow
          /\ job[r].op = "refresh" => job[r].on \in Id /\ tokens[job[r].on] # NoRow
          /\ seen[r] \subseteq Id
      BY <2>1 DEF Asked, Job, SessionsOf, IInv, TypeOK
    <2>5. \A t \in job[r].held : ~Live(t) => ~Live(t)'
      BY <2>4, DeadStaysDead
    <2>6. IsEnrolled(job[r].account) => IsEnrolled(job[r].account)'
      BY <2>4 DEF IsEnrolled, Kept, Exists
    <2>7. (job[r].op = "verify_backup" /\ CodeGone(r)) => CodeGone(r)'
      BY <2>1, CodeStaysGone
    <2>8. \A t \in seen[r] : tokens[t] # NoRow => tokens'[t] # NoRow
      BY <2>4 DEF Kept
    <2>9. Established(r)'
      BY <2>1, <2>4, <2>5, <2>6, <2>7, <2>8 DEF Established, Kept
    <2> QED
      BY <1>2, <2>2, <2>3, <2>9 DEF Call
  <1> QED
    BY <1>1, <1>2

LEMMA StepIInv ==
  ASSUME IInv, Kept, TypeOK', TokensIssued', PasswordsSet', SecretsKept', CodesApart',
         NEW r \in Request, Call(r)',
         \A q \in Request \ {r} : pc'[q] = pc[q] /\ job'[q] = job[q] /\ seen'[q] = seen[q]
  PROVE  IInv'
  <1>1. ResetsStored'
    BY DEF IInv, ResetsStored, Kept
  <1> QED
    BY <1>1, CallIsKept DEF IInv

LEMMA EnrolledAtFirst == ASSUME Init, NEW a \in Enrolled PROVE IsEnrolled(a)
  <1>1. a \in Account /\ a \in Existing
    BY AccountAssumption
  <1>2. accounts[a] = [password |-> First[a], active |-> TRUE, mfa_enrolled |-> TRUE]
    BY <1>1 DEF Init
  <1>3. accounts[a] \in AccountRow
    BY <1>1, <1>2 DEF AccountRow, Id, Earlier
  <1>4. accounts[a].mfa_enrolled
    BY <1>2
  <1> QED
    BY <1>3, <1>4, SentinelAssumption DEF IsEnrolled

LEMMA InitIInv == ASSUME Init PROVE IInv
  <1> USE DEF Init
  <1>1. accounts \in [Account -> AccountRow \union {NoRow}]
    BY DEF AccountRow, Id, Earlier
  <1>2. tokens \in [Id -> TokenRow \union {NoRow}]
    <2> SUFFICES ASSUME NEW t \in Id PROVE tokens[t] \in TokenRow \union {NoRow}
      OBVIOUS
    <2>1. ASSUME NEW a \in Existing, t = First[a] PROVE (CHOOSE b \in Existing : t = First[b]) \in Account
      BY <2>1, AccountAssumption
    <2> QED
      BY <2>1 DEF Fresh, TokenRow
  <1>3. resets \in [Id -> ResetRow \union {NoRow}]
    <2> SUFFICES ASSUME NEW k \in Id PROVE resets[k] \in ResetRow \union {NoRow}
      OBVIOUS
    <2>1. ASSUME NEW a \in Existing, k = First[a] PROVE (CHOOSE b \in Existing : k = First[b]) \in Account
      BY <2>1, AccountAssumption
    <2> QED
      BY <2>1 DEF ResetRow
  <1>4. mfa \in [ClientUser -> SecretRow \union {NoRow}]
    BY AccountAssumption DEF SecretRow, Id, Earlier
  <1>5. TypeOK
    BY <1>1, <1>2, <1>3, <1>4 DEF TypeOK
  <1>6. TokensIssued
    <2>1. \A r \in Request : tokens[r] = NoRow
      BY FirstAssumption, AccountAssumption DEF Earlier, Id
    <2>2. ASSUME NEW t \in Id, tokens[t] # NoRow
          PROVE  /\ tokens[t].replaced_by = NoRow
                 /\ tokens[t].owner \in ClientUser => IsEnrolled(tokens[t].owner)
      <3>1. PICK a \in Existing \ (ClientUser \ Enrolled) : t = First[a]
        BY <2>2
      <3>2. (CHOOSE b \in Existing : t = First[b]) = a
        BY <3>1, FirstAssumption, AccountAssumption
      <3>3. tokens[t] = Fresh(a)
        BY <3>1, <3>2
      <3>4. a \in ClientUser => IsEnrolled(a)
        BY <3>1, EnrolledAtFirst
      <3>5. tokens[t].owner = a /\ tokens[t].replaced_by = NoRow
        BY <3>3 DEF Fresh
      <3> QED
        BY <3>4, <3>5
    <2> QED
      BY <2>1, <2>2, FirstAssumption DEF TokensIssued, Id
  <1>7. PasswordsSet
    BY FirstAssumption DEF PasswordsSet, Earlier
  <1>8. SecretsKept
    <2> SUFFICES ASSUME NEW a \in ClientUser, mfa[a] # NoRow
                 PROVE  OwnsSecret(a, mfa[a].secret) /\ (mfa[a].enrolled => IsEnrolled(a))
      BY DEF SecretsKept
    <2>1. a \in Enrolled /\ mfa[a].secret = First[a]
      OBVIOUS
    <2> QED
      BY <2>1, EnrolledAtFirst DEF OwnsSecret
  <1>9. ResetsStored
    BY FirstAssumption, AccountAssumption DEF ResetsStored, Earlier, Id
  <1> QED
    BY <1>5, <1>6, <1>7, <1>8, <1>9 DEF IInv, CodesApart, Call

\* A statement that writes nothing others can see.
LEMMA ReadIInv ==
  ASSUME IInv, NEW r \in Request, NEW where \in Step \union Finished,
         pc' = [pc EXCEPT ![r] = where],
         UNCHANGED <<accounts, tokens, resets, mfa, job>>,
         pending' \subseteq {"mfa_pending", "mfa_enrolment_pending"} \X ClientUser,
         seen' \in [Request -> SUBSET Id], \A q \in Request \ {r} : seen'[q] = seen[q],
         pc[r] \notin Finished \union {"idle"}, where \notin {"issue", "done"} \/ job[r].op # "verify_backup",
         StepFits(job[r].op, where), Established(r)', Spent(r)'
  PROVE  IInv'
  <1>1. TypeOK'
    BY DEF IInv, TypeOK
  <1>2. \A q \in Request : /\ pc[q] = "done" => pc'[q] = "done"
                           /\ q # r => pc'[q] = pc[q]
    BY DEF IInv, TypeOK, Finished
  <1>3. Kept
    BY <1>2 DEF Kept, Exists, IInv, TypeOK
  <1>4. TokensIssued' /\ PasswordsSet'
    BY <1>2 DEF IInv, TokensIssued, PasswordsSet, IsEnrolled
  <1>5. SecretsKept'
    BY <1>2 DEF IInv, SecretsKept, OwnsSecret, IsEnrolled
  <1>6. pc'[r] = where /\ where # "idle"
    BY DEF IInv, TypeOK, Step, Finished
  <1>7. CodesApart'
    BY <1>2, <1>6 DEF IInv, CodesApart
  <1>8. Asked(r)'
    BY <1>3, AskedIsKept DEF IInv, Call, Finished
  <1>9. Call(r)'
    BY <1>6, <1>8 DEF Call, StepFits
  <1> QED
    BY <1>1, <1>2, <1>3, <1>4, <1>5, <1>7, <1>9, StepIInv

LEMMA CallSoFar ==
  ASSUME IInv, NEW r \in Request, pc[r] # "idle"
  PROVE  /\ Asked(r) /\ StepFits(job[r].op, pc[r]) /\ Established(r) /\ Spent(r)
         /\ job[r] \in Job
  BY DEF IInv, Call, Asked

LEMMA AuthenticateIInv == ASSUME IInv, NEW r \in Request, Authenticate(r) PROVE IInv'
  <1> DEFINE a == job[r].account
  <1>1. pc[r] = "authenticate" /\ Asked(r) /\ Spent(r) /\ job[r].op = "login" /\ job[r] \in Job
    BY CallSoFar DEF Authenticate, StepFits
  <1>2. PICK where \in {"issue", "done", "refused"} :
          /\ pc' = [pc EXCEPT ![r] = where]
          /\ where = "issue" => a \notin ClientUser
    BY DEF Authenticate, Goto, AfterPassword
  <1>3. /\ UNCHANGED <<accounts, tokens, resets, mfa, job, seen>>
        /\ pending' = pending \/ (a \in ClientUser /\ pending' = pending \union {<<PendingType(a), a>>})
    BY DEF Authenticate, AfterPassword
  <1>4. pending' \subseteq {"mfa_pending", "mfa_enrolment_pending"} \X ClientUser
    BY <1>3 DEF IInv, TypeOK, PendingType
  <1>5. Established(r)' /\ Spent(r)' /\ StepFits(job[r].op, where)
    BY <1>1, <1>2, <1>3 DEF Established, Spent, SpentNow, StepFits, IInv, TypeOK, Factor, RevokeAll
  <1> QED
    BY <1>1, <1>2, <1>3, <1>4, <1>5, ReadIInv DEF Step, Finished, IInv, TypeOK

LEMMA ReadCredentialIInv == ASSUME IInv, NEW r \in Request, ReadCredential(r) PROVE IInv'
  <1> DEFINE a == job[r].account
  <1>1. /\ pc[r] = "credential" /\ Asked(r) /\ Spent(r) /\ job[r].op \in Factor /\ job[r] \in Job
        /\ a \in ClientUser /\ mfa[a] # NoRow
    BY CallSoFar DEF ReadCredential, StepFits, Asked
  <1>2. PICK where \in {"refused", "consume", "confirm", "issue"} :
          /\ pc' = [pc EXCEPT ![r] = where]
          /\ where = "consume" => job[r].op = "verify_backup" /\ mfa[a].enrolled
          /\ where = "confirm" => job[r].op = "confirm"
          /\ where = "issue" => job[r].op = "verify_totp" /\ mfa[a].enrolled
    BY <1>1 DEF ReadCredential, Goto, Factor
  <1>3. UNCHANGED <<accounts, tokens, resets, mfa, pending, job, seen>>
    BY DEF ReadCredential
  <1>4. mfa[a].enrolled => IsEnrolled(a)
    BY <1>1 DEF IInv, SecretsKept
  <1>5. Established(r)' /\ Spent(r)' /\ StepFits(job[r].op, where)
    BY <1>1, <1>2, <1>3, <1>4
    DEF Established, Spent, SpentNow, CodeGone, StepFits, IsEnrolled, IInv, TypeOK, Factor, RevokeAll
  <1> QED
    BY <1>1, <1>2, <1>3, <1>5, ReadIInv DEF Step, Finished, IInv, TypeOK, Factor

LEMMA PresentIInv == ASSUME IInv, NEW r \in Request, Present(r) PROVE IInv'
  <1>1. pc[r] = "present" /\ Spent(r) /\ job[r].op = "refresh" /\ job[r] \in Job
    BY CallSoFar DEF Present, StepFits
  <1>2. PICK where \in {"rotate", "reused"} :
          pc' = [pc EXCEPT ![r] = where] /\ (where = "rotate" => Live(job[r].on))
    BY DEF Present, Goto
  <1>3. UNCHANGED <<accounts, tokens, resets, mfa, pending, job, seen>>
    BY DEF Present
  <1>4. Established(r)' /\ Spent(r)' /\ StepFits(job[r].op, where)
    BY <1>1, <1>2, <1>3 DEF Established, Spent, SpentNow, Live, StepFits, IInv, TypeOK
  <1> QED
    BY <1>1, <1>2, <1>3, <1>4, ReadIInv DEF Step, Finished, IInv, TypeOK

LEMMA CheckPasswordIInv == ASSUME IInv, NEW r \in Request, CheckPassword(r) PROVE IInv'
  <1>1. pc[r] = "check" /\ Spent(r) /\ job[r].op = "change" /\ job[r] \in Job
    BY CallSoFar DEF CheckPassword, StepFits
  <1>2. PICK where \in {"sweep", "refused"} : pc' = [pc EXCEPT ![r] = where]
    BY DEF CheckPassword, Goto
  <1>3. UNCHANGED <<accounts, tokens, resets, mfa, pending, job, seen>>
    BY DEF CheckPassword
  <1>4. Established(r)' /\ Spent(r)' /\ StepFits(job[r].op, where)
    BY <1>1, <1>2, <1>3 DEF Established, Spent, SpentNow, StepFits, IInv, TypeOK, RevokeAll
  <1> QED
    BY <1>1, <1>2, <1>3, <1>4, ReadIInv DEF Step, Finished, IInv, TypeOK

LEMMA ClaimResetIInv == ASSUME IInv, NEW r \in Request, ClaimReset(r) PROVE IInv'
  <1>1. pc[r] = "claim" /\ Spent(r) /\ job[r].op = "redeem" /\ job[r] \in Job
    BY CallSoFar DEF ClaimReset, StepFits
  <1>2. PICK where \in {"sweep", "refused"} :
          pc' = [pc EXCEPT ![r] = where] /\ (where = "sweep" => ~resets[job[r].on].used)
    BY DEF ClaimReset, Goto, Claimable
  <1>3. UNCHANGED <<accounts, tokens, resets, mfa, pending, job, seen>>
    BY DEF ClaimReset
  <1>4. Established(r)' /\ Spent(r)' /\ StepFits(job[r].op, where)
    BY <1>1, <1>2, <1>3 DEF Established, Spent, SpentNow, StepFits, IInv, TypeOK, RevokeAll
  <1> QED
    BY <1>1, <1>2, <1>3, <1>4, ReadIInv DEF Step, Finished, IInv, TypeOK

LEMMA SweepIInv == ASSUME IInv, NEW r \in Request, Sweep(r) PROVE IInv'
  <1> DEFINE a == job[r].account
  <1>1. /\ pc[r] \in {"sweep", "reused"} /\ Asked(r) /\ Spent(r) /\ job[r] \in Job
        /\ job[r].op \in RevokeAll \union {"refresh"}
        /\ pc[r] = "sweep" => job[r].op \in RevokeAll
        /\ pc[r] = "reused" => job[r].op = "refresh"
    BY CallSoFar DEF Sweep, StepFits
  <1>2. /\ pc' = [pc EXCEPT ![r] = "commit"]
        /\ seen' = [seen EXCEPT ![r] = LiveSessions(a)]
        /\ UNCHANGED <<accounts, tokens, resets, mfa, pending, job>>
    BY DEF Sweep, Goto
  <1>3. seen'[r] = LiveSessions(a) /\ pc'[r] = "commit"
    BY <1>2 DEF IInv, TypeOK
  <1>4. /\ \A t \in LiveSessions(a) : tokens[t] # NoRow
        /\ \A t \in job[r].held : ~Live(t) \/ t \in LiveSessions(a)
    BY <1>1 DEF Asked, SessionsOf, LiveSessions
  <1>5. Established(r)'
    BY <1>2, <1>3, <1>4 DEF Established, Live
  <1>6. Spent(r)' /\ StepFits(job[r].op, "commit")
    BY <1>1, <1>2, <1>3 DEF Spent, SpentNow, Live, StepFits, RevokeAll
  <1> QED
    BY <1>1, <1>2, <1>5, <1>6, ReadIInv DEF Step, Finished, IInv, TypeOK, LiveSessions, SessionsOf, RevokeAll

LEMMA AbortIInv == ASSUME IInv, NEW r \in Request, Abort(r) PROVE IInv'
  <1>1. /\ pc[r] \notin Finished \union {"idle"} /\ Spent(r) /\ job[r] \in Job
    BY CallSoFar DEF Abort
  <1>2. /\ pc' = [pc EXCEPT ![r] = "aborted"] /\ seen' = [seen EXCEPT ![r] = {}]
        /\ UNCHANGED <<accounts, tokens, resets, mfa, pending, job>>
    BY DEF Abort, Goto
  <1>3. Established(r)' /\ Spent(r)' /\ StepFits(job[r].op, "aborted")
    BY <1>1, <1>2 DEF Established, Spent, SpentNow, CodeGone, Live, StepFits, IInv, TypeOK
  <1> QED
    BY <1>1, <1>2, <1>3, ReadIInv DEF Step, Finished, IInv, TypeOK

(***************************************************************************)
(* Statements that write.                                                  *)
(***************************************************************************)
LEMMA DoneHasJob == ASSUME IInv, Kept, NEW q \in Request, pc[q] = "done"
                    PROVE  pc'[q] = "done" /\ job'[q] = job[q] /\ job[q] \in Job
  BY CallSoFar, JobsAreNoNull DEF Kept

LEMMA EnrolledStays == ASSUME IInv, Kept, NEW a \in Account, IsEnrolled(a) PROVE IsEnrolled(a)'
  BY DEF Kept, IsEnrolled, Exists

LEMMA TokensSame == ASSUME IInv, Kept, UNCHANGED tokens PROVE TokensIssued'
  <1>1. \A t \in Id : tokens[t] # NoRow => tokens[t].owner \in Account
    BY DEF IInv, TypeOK, TokenRow
  <1> QED
    BY <1>1, DoneHasJob, EnrolledStays DEF TokensIssued, IInv

\* A token that is revoked keeps its owner and its successor.
LEMMA TokensKept ==
  ASSUME IInv, Kept,
         \A t \in Id : /\ tokens[t] # NoRow <=> tokens'[t] # NoRow
                       /\ tokens[t] # NoRow => /\ tokens'[t].owner = tokens[t].owner
                                               /\ tokens'[t].replaced_by = tokens[t].replaced_by
  PROVE  TokensIssued'
  <1>1. \A t \in Id : tokens[t] # NoRow =>
          tokens[t].owner \in Account /\ tokens[t].replaced_by \in Id \union {NoRow}
    BY DEF IInv, TypeOK, TokenRow
  <1>2. \A r \in Request : tokens'[r] # NoRow =>
          /\ pc'[r] = "done"
          /\ job'[r].op \in {"login", "refresh"} \union Factor
          /\ job'[r].op = "login" => tokens'[r].owner \notin ClientUser
    BY DoneHasJob DEF IInv, TokensIssued, Id
  <1>3. ASSUME NEW t \in Id, tokens'[t] # NoRow, tokens'[t].owner \in ClientUser
        PROVE  accounts'[tokens'[t].owner] # NoRow /\ accounts'[tokens'[t].owner].mfa_enrolled
    <2>1. PICK a \in Account : a = tokens[t].owner /\ a = tokens'[t].owner
      BY <1>1, <1>3
    <2>2. IsEnrolled(a)
      BY <1>3, <2>1 DEF IInv, TokensIssued
    <2>3. IsEnrolled(a)'
      BY <2>2, EnrolledStays
    <2> QED
      BY <2>1, <2>3 DEF IsEnrolled
  <1>4. \A t \in Id : (tokens'[t] # NoRow /\ tokens'[t].replaced_by \in Request) =>
          tokens'[tokens'[t].replaced_by] # NoRow /\ job'[tokens'[t].replaced_by].on = t
    BY DoneHasJob DEF IInv, TokensIssued, Id
  <1> QED
    BY <1>2, <1>3, <1>4 DEF TokensIssued, IsEnrolled

LEMMA PasswordsSame == ASSUME IInv, Kept, UNCHANGED accounts PROVE PasswordsSet'
  BY DoneHasJob DEF PasswordsSet, IInv

LEMMA SecretsSame == ASSUME IInv, Kept, UNCHANGED mfa PROVE SecretsKept'
  <1> SUFFICES ASSUME NEW a \in ClientUser, mfa[a] # NoRow
               PROVE  OwnsSecret(a, mfa[a].secret)' /\ (mfa[a].enrolled => IsEnrolled(a)')
    BY DEF SecretsKept
  <1>1. PICK s \in Id : s = mfa[a].secret /\ OwnsSecret(a, s)
    BY DEF IInv, TypeOK, SecretRow, SecretsKept
  <1>2. a \in Account
    BY AccountAssumption
  <1>3. OwnsSecret(a, s)'
    BY <1>1, <1>2, SecretIsKept
  <1>4. mfa[a].enrolled => IsEnrolled(a)'
    BY <1>2, EnrolledStays DEF IInv, SecretsKept
  <1> QED
    BY <1>1, <1>3, <1>4

LEMMA WriteIInv ==
  ASSUME IInv, Kept, TypeOK', TokensIssued', PasswordsSet', SecretsKept',
         NEW r \in Request, NEW where \in Step \union Finished,
         pc' = [pc EXCEPT ![r] = where], UNCHANGED job,
         \A q \in Request \ {r} : seen'[q] = seen[q],
         pc[r] \notin Finished \union {"idle"},
         (where \in {"issue", "done"} /\ job[r].op = "verify_backup") => pc[r] = "issue" \/ CodesApart',
         StepFits(job[r].op, where), Established(r)', Spent(r)'
  PROVE  IInv'
  <1>1. /\ pc'[r] = where /\ where # "idle"
        /\ \A q \in Request \ {r} : pc'[q] = pc[q]
    BY DEF IInv, TypeOK, Step, Finished
  <1>2. CodesApart'
    BY <1>1 DEF IInv, CodesApart
  <1>3. Asked(r)'
    BY AskedIsKept DEF IInv, Call, Finished
  <1>4. Call(r)'
    BY <1>1, <1>3 DEF Call, StepFits
  <1> QED
    BY <1>1, <1>2, <1>4, StepIInv

LEMMA InsertAccountIInv ==
  ASSUME IInv, NEW r \in Request, pc[r] = "insert", InsertAccount(r) PROVE IInv'
  <1> DEFINE a == job[r].account
             row == [password |-> r, active |-> TRUE, mfa_enrolled |-> FALSE]
  <1>1. Spent(r) /\ job[r].op \in {"register", "provision"} /\ job[r] \in Job /\ a \in Account
    BY CallSoFar DEF StepFits, Job
  <1>2. CASE Exists(a)
    <2>1. pc' = [pc EXCEPT ![r] = "refused"] /\ UNCHANGED <<accounts, tokens, resets, mfa, pending, job, seen>>
      BY <1>2 DEF InsertAccount, Goto
    <2>2. Established(r)' /\ Spent(r)' /\ StepFits(job[r].op, "refused")
      BY <1>1, <2>1 DEF Established, Spent, SpentNow, StepFits, IInv, TypeOK
    <2> QED
      BY <1>1, <2>1, <2>2, ReadIInv DEF Step, Finished, IInv, TypeOK
  <1>3. CASE ~Exists(a)
    <2>1. row \in AccountRow /\ row.password = r
      BY DEF AccountRow, Id
    <2>2. row # NoRow
      BY <2>1, SentinelAssumption
    <2>3. /\ pc' = [pc EXCEPT ![r] = "done"] /\ UNCHANGED <<tokens, resets, mfa, pending, job, seen>>
          /\ accounts' = [accounts EXCEPT ![a] = row]
      BY <1>3 DEF InsertAccount, Goto
    <2> HIDE DEF a, row
    <2>4. TypeOK'
      BY <2>1, <2>3 DEF IInv, TypeOK, Finished
    <2>5. Kept
      BY <1>1, <1>3, <2>2, <2>3 DEF Kept, Exists, IInv, TypeOK
    <2>6. TokensIssued' /\ SecretsKept'
      BY <2>3, <2>5, TokensSame, SecretsSame
    <2>7. PasswordsSet'
      BY <1>1, <2>1, <2>3 DEF PasswordsSet, IInv, TypeOK
    <2>8. Established(r)' /\ Spent(r)' /\ StepFits(job[r].op, "done")
      BY <1>1, <2>3 DEF Established, Spent, SpentNow, StepFits, IInv, TypeOK, RevokeAll
    <2> QED
      BY <1>1, <2>3, <2>4, <2>5, <2>6, <2>7, <2>8, WriteIInv DEF Finished
  <1> QED
    BY <1>2, <1>3

LEMMA ReactivateIInv == ASSUME IInv, NEW r \in Request, Reactivate(r) PROVE IInv'
  <1> DEFINE a == job[r].account
  <1>1. /\ pc[r] = "activate" /\ Spent(r) /\ job[r].op = "reactivate" /\ job[r] \in Job
        /\ a \in Account /\ accounts[a] \in AccountRow /\ accounts[a] # NoRow
    BY CallSoFar DEF Reactivate, StepFits, Job, Asked, Exists, IInv, TypeOK
  <1>2. PICK row \in AccountRow : row = [accounts[a] EXCEPT !.active = TRUE]
    BY <1>1 DEF AccountRow
  <1>3. /\ pc' = [pc EXCEPT ![r] = "done"] /\ UNCHANGED <<tokens, resets, mfa, pending, job, seen>>
        /\ accounts' = [accounts EXCEPT ![a] = row]
    BY <1>2 DEF Reactivate, Goto
  <1>4. row.password = accounts[a].password /\ row.mfa_enrolled = accounts[a].mfa_enrolled /\ row # NoRow
    BY <1>1, <1>2, SentinelAssumption DEF AccountRow
  <1> HIDE DEF a
  <1>5. TypeOK'
    BY <1>3 DEF IInv, TypeOK, Finished
  <1>6. Kept
    BY <1>1, <1>3, <1>4 DEF Kept, Exists, IInv, TypeOK
  <1>7. TokensIssued' /\ SecretsKept'
    BY <1>3, <1>6, TokensSame, SecretsSame
  <1>8. PasswordsSet'
    BY <1>1, <1>3, <1>4 DEF PasswordsSet, IInv, TypeOK
  <1>9. Established(r)' /\ Spent(r)' /\ StepFits(job[r].op, "done")
    BY <1>1, <1>3 DEF Established, Spent, SpentNow, StepFits, IInv, TypeOK, RevokeAll
  <1> QED
    BY <1>1, <1>3, <1>5, <1>6, <1>7, <1>8, <1>9, WriteIInv DEF Finished

LEMMA SaveEnrolmentIInv == ASSUME IInv, NEW r \in Request, SaveEnrolment(r) PROVE IInv'
  <1> DEFINE a == job[r].account
             row == [secret |-> r, enrolled |-> FALSE, codes |-> Code]
  <1>1. /\ pc[r] = "save" /\ Spent(r) /\ job[r].op = "enroll" /\ job[r] \in Job
        /\ a \in ClientUser
    BY CallSoFar DEF SaveEnrolment, StepFits, Asked
  <1>2. row \in SecretRow /\ row.secret = r /\ ~row.enrolled
    BY DEF SecretRow, Id
  <1>3. row # NoRow
    BY <1>2, SentinelAssumption
  <1>4. /\ pc' = [pc EXCEPT ![r] = "done"] /\ UNCHANGED <<accounts, tokens, resets, pending, job, seen>>
        /\ mfa' = [mfa EXCEPT ![a] = row]
    BY DEF SaveEnrolment, Goto
  <1>5. TypeOK'
    <2> HIDE DEF a, row
    <2> QED
      BY <1>2, <1>4 DEF IInv, TypeOK, Finished
  <1>6. Kept
    <2> HIDE DEF a, row
    <2> QED
      BY <1>1, <1>2, <1>3, <1>4 DEF Kept, Exists, IInv, TypeOK
  <1>7. TokensIssued' /\ PasswordsSet'
    BY <1>4, <1>6, TokensSame, PasswordsSame
  <1>8. SecretsKept'
    <2> SUFFICES ASSUME NEW b \in ClientUser, mfa'[b] # NoRow
                 PROVE  OwnsSecret(b, mfa[b].secret)' /\ (mfa'[b].enrolled => IsEnrolled(b)')
      BY DEF SecretsKept
    <2>1. CASE b = a
      <3>1. mfa'[b] = row /\ pc'[r] = "done" /\ job'[r] = job[r]
        BY <1>1, <1>4, <2>1 DEF IInv, TypeOK
      <3> QED
        BY <1>1, <1>2, <2>1, <3>1 DEF OwnsSecret
    <2>2. CASE b # a
      <3>1. mfa'[b] = mfa[b]
        BY <1>4, <2>2 DEF IInv, TypeOK
      <3>2. PICK s \in Id : s = mfa[b].secret /\ OwnsSecret(b, s)
        BY <3>1 DEF IInv, TypeOK, SecretRow, SecretsKept
      <3>3. b \in Account
        BY AccountAssumption
      <3>4. OwnsSecret(b, s)'
        BY <1>6, <3>2, <3>3, SecretIsKept
      <3>5. mfa[b].enrolled => IsEnrolled(b)'
        BY <1>6, <3>1, <3>3, EnrolledStays DEF IInv, SecretsKept
      <3> QED
        BY <3>1, <3>2, <3>4, <3>5
    <2> QED
      BY <2>1, <2>2
  <1>9. Established(r)' /\ Spent(r)' /\ StepFits(job[r].op, "done")
    BY <1>1, <1>4 DEF Established, Spent, SpentNow, StepFits, IInv, TypeOK, RevokeAll
  <1> QED
    BY <1>1, <1>4, <1>5, <1>6, <1>7, <1>8, <1>9, WriteIInv DEF Finished

LEMMA ConfirmEnrolmentIInv == ASSUME IInv, NEW r \in Request, ConfirmEnrolment(r) PROVE IInv'
  <1> DEFINE a == job[r].account
  <1>1. /\ pc[r] = "confirm" /\ Spent(r) /\ job[r].op = "confirm" /\ job[r] \in Job
        /\ a \in ClientUser /\ a \in Account
        /\ accounts[a] \in AccountRow /\ accounts[a] # NoRow
        /\ mfa[a] \in SecretRow /\ mfa[a] # NoRow
    BY CallSoFar, AccountAssumption DEF ConfirmEnrolment, StepFits, Job, Asked, Exists, Factor, IInv, TypeOK
  <1>2. PICK row \in AccountRow : row = [accounts[a] EXCEPT !.mfa_enrolled = TRUE]
    BY <1>1 DEF AccountRow
  <1>3. PICK secret \in SecretRow : secret = [mfa[a] EXCEPT !.enrolled = TRUE]
    BY <1>1 DEF SecretRow
  <1>4. /\ pc' = [pc EXCEPT ![r] = "issue"] /\ UNCHANGED <<tokens, resets, pending, job, seen>>
        /\ accounts' = [accounts EXCEPT ![a] = row] /\ mfa' = [mfa EXCEPT ![a] = secret]
    BY <1>2, <1>3 DEF ConfirmEnrolment, Goto
  <1>5. /\ row.password = accounts[a].password /\ row.mfa_enrolled /\ row # NoRow
        /\ secret.secret = mfa[a].secret /\ secret.codes = mfa[a].codes /\ secret # NoRow
    BY <1>1, <1>2, <1>3, SentinelAssumption DEF AccountRow, SecretRow
  <1>6. IsEnrolled(a)'
    BY <1>1, <1>4, <1>5 DEF IsEnrolled, IInv, TypeOK
  <1> HIDE DEF a
  <1>7. TypeOK'
    BY <1>4 DEF IInv, TypeOK, Step
  <1>8. Kept
    BY <1>1, <1>4, <1>5 DEF Kept, Exists, IInv, TypeOK
  <1>9. TokensIssued'
    BY <1>4, <1>8, TokensSame
  <1>10. PasswordsSet'
    BY <1>1, <1>4, <1>5 DEF PasswordsSet, IInv, TypeOK
  <1>11. SecretsKept'
    <2> SUFFICES ASSUME NEW b \in ClientUser, mfa'[b] # NoRow
                 PROVE  OwnsSecret(b, mfa[b].secret)' /\ (mfa'[b].enrolled => IsEnrolled(b)')
      BY DEF SecretsKept
    <2>1. mfa[b] # NoRow /\ mfa'[b].secret = mfa[b].secret
      BY <1>1, <1>4, <1>5 DEF IInv, TypeOK
    <2>2. PICK s \in Id : s = mfa[b].secret /\ OwnsSecret(b, s)
      BY <2>1 DEF IInv, TypeOK, SecretRow, SecretsKept
    <2>3. b \in Account
      BY AccountAssumption
    <2>4. OwnsSecret(b, s)'
      BY <1>8, <2>2, <2>3, SecretIsKept
    <2>5. b # a => (mfa'[b].enrolled => IsEnrolled(b)')
      BY <1>4, <1>8, <2>1, <2>3, EnrolledStays DEF IInv, TypeOK, SecretsKept
    <2>6. b = a => IsEnrolled(b)'
      BY <1>4, <1>6 DEF IsEnrolled, a
    <2> QED
      BY <2>1, <2>2, <2>4, <2>5, <2>6
  <1>12. Established(r)' /\ Spent(r)' /\ StepFits(job[r].op, "issue")
    BY <1>1, <1>4, <1>6 DEF Established, Spent, SpentNow, StepFits, IInv, TypeOK, Factor, a
  <1> QED
    BY <1>1, <1>4, <1>7, <1>8, <1>9, <1>10, <1>11, <1>12, WriteIInv DEF Step, Finished

LEMMA ConsumeCodeIInv == ASSUME IInv, NEW r \in Request, ConsumeCode(r) PROVE IInv'
  <1> DEFINE a == job[r].account
  <1>1. /\ pc[r] = "consume" /\ Spent(r) /\ job[r].op = "verify_backup" /\ job[r] \in Job
        /\ a \in ClientUser /\ a \in Account /\ mfa[a] \in SecretRow /\ mfa[a] # NoRow
        /\ OwnsSecret(a, job[r].on) /\ IsEnrolled(a)
    BY CallSoFar, AccountAssumption
    DEF ConsumeCode, StepFits, Asked, Established, Factor, IInv, TypeOK
  <1>2. CASE ~HasCode(r)
    <2>1. pc' = [pc EXCEPT ![r] = "refused"] /\ UNCHANGED <<accounts, tokens, resets, mfa, pending, job, seen>>
      BY <1>2 DEF ConsumeCode, Goto
    <2>2. Established(r)' /\ Spent(r)' /\ StepFits(job[r].op, "refused")
      BY <1>1, <2>1 DEF Established, Spent, SpentNow, CodeGone, StepFits, IInv, TypeOK
    <2> QED
      BY <1>1, <2>1, <2>2, ReadIInv DEF Step, Finished, IInv, TypeOK
  <1>3. CASE HasCode(r)
    <2>1. PICK secret \in SecretRow : secret = [mfa[a] EXCEPT !.codes = @ \ {job[r].code}]
      BY <1>1 DEF SecretRow
    <2>2. /\ pc' = [pc EXCEPT ![r] = "issue"] /\ UNCHANGED <<accounts, tokens, resets, pending, job, seen>>
          /\ mfa' = [mfa EXCEPT ![a] = secret]
      BY <1>3, <2>1 DEF ConsumeCode, Goto
    <2>3. /\ secret.secret = mfa[a].secret /\ secret.codes = mfa[a].codes \ {job[r].code}
          /\ secret.enrolled = mfa[a].enrolled /\ secret # NoRow
      BY <1>1, <2>1, SentinelAssumption DEF SecretRow
    <2>4. CodeGone(r)'
      BY <1>1, <2>2, <2>3 DEF CodeGone, IInv, TypeOK
    <2>5. ~CodeGone(r)
      BY <1>3 DEF CodeGone, HasCode
    <2>6. job[r].good
      BY <1>1, <2>5 DEF Spent, SpentNow
    <2>7. CodesApart'
      <3> SUFFICES ASSUME NEW q \in Request \ {r}, pc[q] \in {"issue", "done"},
                          job[q].op = "verify_backup"
                   PROVE  <<job[r].on, job[r].code>> # <<job[q].on, job[q].code>>
        BY <2>2 DEF CodesApart, IInv, TypeOK
      <3>1. CodeGone(q) /\ OwnsSecret(job[q].account, job[q].on) /\ job[q].account \in Account
        BY CallSoFar DEF Established, Asked, Factor, Job
      <3>2. job[q].on = job[r].on => job[q].account = a
        BY <1>1, <3>1, FirstAssumption DEF OwnsSecret, Earlier
      <3> QED
        BY <2>5, <3>1, <3>2 DEF CodeGone
    <2> HIDE DEF a
    <2>8. TypeOK'
      BY <2>2 DEF IInv, TypeOK, Step
    <2>9. Kept
      BY <1>1, <2>2, <2>3 DEF Kept, Exists, IInv, TypeOK
    <2>10. TokensIssued' /\ PasswordsSet'
      BY <2>2, <2>9, TokensSame, PasswordsSame
    <2>11. SecretsKept'
      <3> SUFFICES ASSUME NEW b \in ClientUser, mfa'[b] # NoRow
                   PROVE  OwnsSecret(b, mfa[b].secret)' /\ (mfa'[b].enrolled => IsEnrolled(b)')
        BY DEF SecretsKept
      <3>1. mfa[b] # NoRow /\ mfa'[b].secret = mfa[b].secret /\ mfa'[b].enrolled = mfa[b].enrolled
        BY <1>1, <2>2, <2>3 DEF IInv, TypeOK
      <3>2. PICK s \in Id : s = mfa[b].secret /\ OwnsSecret(b, s)
        BY <3>1 DEF IInv, TypeOK, SecretRow, SecretsKept
      <3>3. b \in Account
        BY AccountAssumption
      <3>4. OwnsSecret(b, s)'
        BY <2>9, <3>2, <3>3, SecretIsKept
      <3>5. mfa[b].enrolled => IsEnrolled(b)'
        BY <2>9, <3>1, <3>3, EnrolledStays DEF IInv, SecretsKept
      <3> QED
        BY <3>1, <3>2, <3>4, <3>5
    <2>12. Established(r)' /\ Spent(r)' /\ StepFits(job[r].op, "issue")
      BY <1>1, <2>2, <2>4, <2>6 DEF Established, Spent, StepFits, IsEnrolled, IInv, TypeOK, Factor, a
    <2> QED
      BY <1>1, <2>2, <2>7, <2>8, <2>9, <2>10, <2>11, <2>12, WriteIInv DEF Step, Finished
  <1> QED
    BY <1>2, <1>3

LEMMA StoreResetIInv == ASSUME IInv, NEW r \in Request, StoreReset(r) PROVE IInv'
  <1> DEFINE row == [actor |-> job[r].account, used |-> FALSE]
  <1>1. pc[r] = "store" /\ Spent(r) /\ job[r].op = "ask" /\ job[r] \in Job
    BY CallSoFar DEF StoreReset, StepFits
  <1>2. pc' = [pc EXCEPT ![r] = "done"] /\ UNCHANGED <<accounts, tokens, mfa, pending, job, seen>>
    BY DEF StoreReset, Goto
  <1>3. row \in ResetRow
    BY <1>1 DEF Job, ResetRow
  <1>4. row # NoRow
    BY <1>3, SentinelAssumption
  <1>5. resets' = [resets EXCEPT ![r] = row]
    BY DEF StoreReset
  <1>6. resets[r] = NoRow /\ pc'[r] = "done"
    BY <1>1, <1>2 DEF IInv, TypeOK, ResetsStored
  <1> HIDE DEF row
  <1>7. TypeOK'
    BY <1>2, <1>3, <1>5 DEF IInv, TypeOK, Finished
  <1>8. Kept
    BY <1>1, <1>2, <1>4, <1>5, <1>6 DEF Kept, Exists, IInv, TypeOK
  <1>9. TokensIssued' /\ PasswordsSet' /\ SecretsKept'
    BY <1>2, <1>8, TokensSame, PasswordsSame, SecretsSame
  <1>10. Established(r)' /\ Spent(r)' /\ StepFits(job[r].op, "done")
    BY <1>1, <1>2 DEF Established, Spent, SpentNow, StepFits, IInv, TypeOK, RevokeAll
  <1> QED
    BY <1>1, <1>2, <1>7, <1>8, <1>9, <1>10, WriteIInv DEF Finished

LEMMA FreshIsRow ==
  ASSUME NEW a \in Account
  PROVE  /\ Fresh(a) \in TokenRow /\ Fresh(a) # NoRow /\ Fresh(a).owner = a
         /\ Fresh(a).replaced_by = NoRow
  <1>1. Fresh(a) \in TokenRow
    BY DEF Fresh, TokenRow
  <1> QED
    BY <1>1, SentinelAssumption DEF Fresh

LEMMA IssueIInv == ASSUME IInv, NEW r \in Request, Issue(r) PROVE IInv'
  <1> DEFINE a == job[r].account
             row == Fresh(a)
  <1>1. /\ pc[r] = "issue" /\ Spent(r) /\ Asked(r) /\ Established(r) /\ job[r] \in Job /\ a \in Account
        /\ job[r].op \in {"login"} \union Factor /\ r \in Id /\ tokens[r] = NoRow
    BY CallSoFar DEF Issue, StepFits, Job, Id, IInv, TokensIssued
  <1>2. /\ row \in TokenRow /\ row # NoRow /\ row.owner = a /\ row.replaced_by = NoRow
    BY <1>1, FreshIsRow
  <1>3. /\ pc' = [pc EXCEPT ![r] = "done"] /\ UNCHANGED <<accounts, resets, mfa, pending, job, seen>>
        /\ tokens' = [tokens EXCEPT ![r] = row]
    BY DEF Issue, Goto
  <1>4. /\ a \in ClientUser => IsEnrolled(a)
        /\ job[r].op = "login" => a \notin ClientUser
    BY <1>1 DEF Established
  <1>5. (job[r].op = "verify_backup" => CodeGone(r)) /\ job[r].op \notin RevokeAll \union {"refresh"}
    BY <1>1 DEF Established, RevokeAll, Factor
  <1> HIDE DEF a, row
  <1>6. TypeOK'
    BY <1>2, <1>3 DEF IInv, TypeOK, Finished
  <1>7. Kept
    BY <1>1, <1>2, <1>3 DEF Kept, Exists, IInv, TypeOK
  <1>8. PasswordsSet' /\ SecretsKept'
    BY <1>3, <1>7, PasswordsSame, SecretsSame
  <1>9. TokensIssued'
    <2>1. \A t \in Id \ {r} : tokens'[t] = tokens[t]
      BY <1>3 DEF IInv, TypeOK
    <2>2. tokens'[r] = row /\ pc'[r] = "done"
      BY <1>1, <1>3 DEF IInv, TypeOK
    <2>3. \A q \in Request : tokens[q] # NoRow => pc'[q] = "done" /\ job'[q] = job[q]
      BY <1>7, DoneHasJob DEF IInv, TokensIssued
    <2>4. \A t \in Id : (tokens'[t] # NoRow /\ tokens'[t].owner \in ClientUser) => IsEnrolled(tokens'[t].owner)
      BY <1>2, <1>4, <2>1, <2>2 DEF IInv, TokensIssued
    <2>5. \A t \in Id : (tokens'[t] # NoRow /\ tokens'[t].replaced_by \in Request) =>
            tokens'[tokens'[t].replaced_by] # NoRow /\ job'[tokens'[t].replaced_by].on = t
      BY <1>2, <1>3, <2>1, <2>2, FirstAssumption DEF IInv, TokensIssued, Id
    <2>6. \A q \in Request : tokens'[q] # NoRow =>
            /\ pc'[q] = "done"
            /\ job'[q].op \in {"login", "refresh"} \union Factor
            /\ job'[q].op = "login" => tokens'[q].owner \notin ClientUser
      BY <1>1, <1>2, <1>3, <1>4, <2>1, <2>2, <2>3 DEF IInv, TokensIssued, Id
    <2> QED
      BY <1>3, <2>4, <2>5, <2>6 DEF TokensIssued, IsEnrolled
  <1>10. Established(r)' /\ Spent(r)' /\ StepFits(job[r].op, "done")
    BY <1>1, <1>3, <1>5 DEF Established, Spent, SpentNow, CodeGone, StepFits, IInv, TypeOK, Factor
  <1> QED
    BY <1>1, <1>3, <1>6, <1>7, <1>8, <1>9, <1>10, WriteIInv DEF Finished

LEMMA RotateIInv == ASSUME IInv, NEW r \in Request, Rotate(r) PROVE IInv'
  <1> DEFINE a == job[r].account
             old == job[r].on
             row == Fresh(a)
  <1>1. /\ pc[r] = "rotate" /\ Spent(r) /\ job[r] \in Job /\ a \in Account
        /\ job[r].op = "refresh" /\ r \in Id /\ tokens[r] = NoRow
        /\ old \in Id /\ tokens[old] # NoRow /\ tokens[old].owner = a /\ tokens[old] \in TokenRow
    BY CallSoFar DEF Rotate, StepFits, Job, Id, IInv, TypeOK, TokensIssued, Asked, SessionsOf
  <1>2. /\ row \in TokenRow /\ row # NoRow /\ row.owner = a /\ row.replaced_by = NoRow
    BY <1>1, FreshIsRow
  <1>3. PICK dead \in TokenRow : dead = [tokens[old] EXCEPT !.revoked = TRUE, !.replaced_by = r]
    BY <1>1 DEF TokenRow
  <1>4. dead.owner = a /\ dead.revoked /\ dead.replaced_by = r /\ dead # NoRow
    BY <1>1, <1>3, SentinelAssumption DEF TokenRow
  <1>5. /\ pc' = [pc EXCEPT ![r] = "done"] /\ UNCHANGED <<accounts, resets, mfa, pending, job, seen>>
    BY DEF Rotate, Goto
  <1>6. tokens' = [[tokens EXCEPT ![r] = row] EXCEPT ![old] = dead]
    BY <1>1, <1>3 DEF Rotate, IInv, TypeOK
  <1>7. old # r
    BY <1>1
  <1>8. a \in ClientUser => IsEnrolled(a)
    BY <1>1 DEF IInv, TokensIssued
  <1> HIDE DEF a, row
  <1>9. /\ tokens' \in [Id -> TokenRow \union {NoRow}]
        /\ tokens'[r] = row /\ tokens'[old] = dead
        /\ \A t \in Id \ {r, old} : tokens'[t] = tokens[t]
    BY <1>1, <1>2, <1>6, <1>7 DEF IInv, TypeOK
  <1>10. TypeOK' /\ pc'[r] = "done"
    BY <1>5, <1>9 DEF IInv, TypeOK, Finished
  <1>11. Kept
    <2>1. /\ \A q \in Request : pc[q] = "done" => pc'[q] = "done"
          /\ \A t \in Id : tokens[t] # NoRow =>
               /\ tokens'[t] # NoRow
               /\ tokens'[t].owner = tokens[t].owner
               /\ tokens[t].revoked => tokens'[t].revoked
               /\ tokens[t].replaced_by \in Request => tokens'[t].replaced_by \in Request
      BY <1>1, <1>4, <1>5, <1>7, <1>9 DEF IInv, TypeOK
    <2> QED
      BY <1>5, <2>1 DEF Kept, Exists
  <1>12. PasswordsSet' /\ SecretsKept'
    BY <1>5, <1>11, PasswordsSame, SecretsSame
  <1>13. TokensIssued'
    <2>1. \A q \in Request : tokens[q] # NoRow => pc'[q] = "done" /\ job'[q] = job[q]
      BY <1>11, DoneHasJob DEF IInv, TokensIssued
    <2>2. \A t \in Id : (tokens'[t] # NoRow /\ tokens'[t].owner \in ClientUser) => IsEnrolled(tokens'[t].owner)
      BY <1>2, <1>4, <1>8, <1>9 DEF IInv, TokensIssued
    <2>3. \A t \in Id : (tokens'[t] # NoRow /\ tokens'[t].replaced_by \in Request) =>
            tokens'[tokens'[t].replaced_by] # NoRow /\ job'[tokens'[t].replaced_by].on = t
      <3> SUFFICES ASSUME NEW t \in Id, tokens'[t] # NoRow, tokens'[t].replaced_by \in Request
                   PROVE  tokens'[tokens'[t].replaced_by] # NoRow /\ job'[tokens'[t].replaced_by].on = t
        OBVIOUS
      <3>1. t # r
        BY <1>2, <1>9, FirstAssumption DEF Id
      <3>2. CASE t = old
        BY <1>2, <1>4, <1>5, <1>9, <3>2
      <3>3. CASE t # old
        <4>1. /\ tokens'[t] = tokens[t] /\ tokens[t].replaced_by \in Id
              /\ tokens[tokens[t].replaced_by] # NoRow /\ job[tokens[t].replaced_by].on = t
          BY <1>9, <3>1, <3>3 DEF IInv, TokensIssued, Id
        <4> QED
          BY <1>4, <1>5, <1>9, <1>1, <4>1
      <3> QED
        BY <3>2, <3>3
    <2>4. \A q \in Request : tokens'[q] # NoRow =>
            /\ pc'[q] = "done"
            /\ job'[q].op \in {"login", "refresh"} \union Factor
            /\ job'[q].op = "login" => tokens'[q].owner \notin ClientUser
      BY <1>1, <1>4, <1>5, <1>9, <1>10, <2>1 DEF IInv, TokensIssued, Id
    <2> QED
      BY <1>5, <2>2, <2>3, <2>4 DEF TokensIssued, IsEnrolled
  <1>14. Established(r)'
    BY <1>1, <1>4, <1>5, <1>9, <1>10 DEF Established, Factor, RevokeAll
  <1>15. Spent(r)' /\ StepFits(job[r].op, "done")
    BY <1>1, <1>5 DEF Spent, StepFits
  <1> QED
    BY <1>1, <1>5, <1>10, <1>11, <1>12, <1>13, <1>14, <1>15, WriteIInv DEF Finished

LEMMA LogoutIInv == ASSUME IInv, NEW r \in Request, Logout(r) PROVE IInv'
  <1> DEFINE a == job[r].account
             on == job[r].on
  <1>1. /\ pc[r] = "revoke" /\ Spent(r) /\ job[r] \in Job /\ job[r].op = "logout"
        /\ on \in Id /\ tokens[on] # NoRow /\ tokens[on] \in TokenRow
    BY CallSoFar DEF Logout, StepFits, IInv, TypeOK, Asked, SessionsOf
  <1>2. PICK dead \in TokenRow : dead = [tokens[on] EXCEPT !.revoked = TRUE]
    BY <1>1 DEF TokenRow
  <1>3. /\ dead.owner = tokens[on].owner /\ dead.replaced_by = tokens[on].replaced_by
        /\ dead.revoked /\ dead # NoRow
    BY <1>1, <1>2, SentinelAssumption DEF TokenRow
  <1>4. /\ pc' = [pc EXCEPT ![r] = "done"] /\ UNCHANGED <<accounts, resets, mfa, pending, job, seen>>
        /\ tokens' = [tokens EXCEPT ![on] = dead]
    BY <1>2 DEF Logout, Goto
  <1> HIDE DEF a, on
  <1>5. TypeOK'
    BY <1>4 DEF IInv, TypeOK, Finished
  <1>6. \A t \in Id : /\ tokens[t] # NoRow <=> tokens'[t] # NoRow
                      /\ tokens[t] # NoRow => /\ tokens'[t].owner = tokens[t].owner
                                              /\ tokens'[t].replaced_by = tokens[t].replaced_by
                                              /\ tokens[t].revoked => tokens'[t].revoked
    BY <1>1, <1>3, <1>4 DEF IInv, TypeOK
  <1>7. Kept
    BY <1>1, <1>4, <1>6 DEF Kept, Exists, IInv, TypeOK
  <1>8. TokensIssued' /\ PasswordsSet' /\ SecretsKept'
    BY <1>4, <1>6, <1>7, TokensKept, PasswordsSame, SecretsSame
  <1>9. Established(r)' /\ Spent(r)' /\ StepFits(job[r].op, "done")
    BY <1>1, <1>4 DEF Established, Spent, SpentNow, StepFits, IInv, TypeOK, RevokeAll
  <1> QED
    BY <1>1, <1>4, <1>5, <1>7, <1>8, <1>9, WriteIInv DEF Finished

LEMMA CommitSweepIInv == ASSUME IInv, NEW r \in Request, CommitSweep(r) PROVE IInv'
  <1> DEFINE a == job[r].account
             on == job[r].on
             op == job[r].op
             where == IF op = "refresh" THEN "refused" ELSE "done"
  <1>1. /\ pc[r] = "commit" /\ Spent(r) /\ Asked(r) /\ job[r] \in Job
        /\ op \in RevokeAll \union {"refresh"}
    BY CallSoFar DEF CommitSweep, StepFits
  <1>2. /\ a \in Account /\ accounts[a] \in AccountRow /\ accounts[a] # NoRow
        /\ seen[r] \subseteq Id /\ job[r].held \subseteq Id
        /\ \A t \in job[r].held : tokens[t] # NoRow
        /\ op = "redeem" => on \in Id /\ resets[on] \in ResetRow /\ resets[on] # NoRow
    BY <1>1 DEF Asked, Job, Exists, SessionsOf, RevokeAll, IInv, TypeOK
  <1>3. /\ \A t \in seen[r] : tokens[t] # NoRow
        /\ \A t \in job[r].held : ~Live(t) \/ t \in seen[r]
    BY <1>1, CallSoFar DEF Established
  <1>4. PICK row \in AccountRow : row = Rewritten(r, accounts[a])
    BY <1>2 DEF Rewritten, AccountRow, Id
  <1>5. /\ row.mfa_enrolled = accounts[a].mfa_enrolled /\ row # NoRow
        /\ row.password = accounts[a].password \/ (row.password = r /\ op \in {"redeem", "change"})
    BY <1>2, <1>4, SentinelAssumption DEF Rewritten, AccountRow
  <1>6. /\ pc' = [pc EXCEPT ![r] = where] /\ UNCHANGED <<mfa, pending, job>>
        /\ accounts' = [accounts EXCEPT ![a] = row]
        /\ seen' = [seen EXCEPT ![r] = {}]
        /\ tokens' = [t \in Id |-> IF t \in seen[r] THEN [tokens[t] EXCEPT !.revoked = TRUE]
                                   ELSE tokens[t]]
        /\ resets' = IF op = "redeem" THEN [resets EXCEPT ![on].used = TRUE] ELSE resets
    BY <1>4 DEF CommitSweep, Swept, Goto
  <1>7. ASSUME NEW t \in Id
        PROVE  /\ tokens'[t] \in TokenRow \union {NoRow}
               /\ tokens[t] # NoRow <=> tokens'[t] # NoRow
               /\ tokens[t] # NoRow => /\ tokens'[t].owner = tokens[t].owner
                                       /\ tokens'[t].replaced_by = tokens[t].replaced_by
                                       /\ tokens[t].revoked => tokens'[t].revoked
               /\ t \in seen[r] => tokens'[t].revoked
    <2>1. CASE t \notin seen[r]
      BY <1>6, <2>1 DEF IInv, TypeOK
    <2>2. CASE t \in seen[r]
      <3>1. tokens[t] \in TokenRow /\ tokens[t] # NoRow
        BY <1>3, <2>2 DEF IInv, TypeOK
      <3>2. PICK dead \in TokenRow : dead = [tokens[t] EXCEPT !.revoked = TRUE]
        BY <3>1 DEF TokenRow
      <3>3. tokens'[t] = dead
        BY <1>6, <2>2, <3>2
      <3>4. /\ dead.owner = tokens[t].owner /\ dead.replaced_by = tokens[t].replaced_by
            /\ dead.revoked /\ dead # NoRow
        BY <3>1, <3>2, SentinelAssumption DEF TokenRow
      <3> QED
        BY <3>1, <3>3, <3>4
    <2> QED
      BY <2>1, <2>2
  <1>8. /\ resets' \in [Id -> ResetRow \union {NoRow}]
        /\ \A k \in Id : /\ resets[k] # NoRow <=> resets'[k] # NoRow
                         /\ resets[k] # NoRow => (resets[k].used => resets'[k].used)
    <2>1. CASE op # "redeem"
      BY <1>6, <2>1 DEF IInv, TypeOK
    <2>2. CASE op = "redeem"
      <3>1. PICK used \in ResetRow : used = [resets[on] EXCEPT !.used = TRUE]
        BY <1>2, <2>2 DEF ResetRow
      <3>2. used.used /\ used # NoRow
        BY <1>2, <2>2, <3>1, SentinelAssumption DEF ResetRow
      <3>3. resets' = [resets EXCEPT ![on] = used]
        BY <1>6, <2>2, <3>1
      <3> QED
        BY <1>2, <2>2, <3>2, <3>3 DEF IInv, TypeOK
    <2> QED
      BY <2>1, <2>2
  <1>9. where \in {"done", "refused"} /\ (where = "refused" <=> op = "refresh")
    OBVIOUS
  <1> HIDE DEF a, on, where
  <1>10. pc'[r] = where /\ \A q \in Request : pc[q] = "done" => pc'[q] = "done"
    BY <1>1, <1>6 DEF IInv, TypeOK
  <1>11. TypeOK'
    <2>1. tokens' \in [Id -> TokenRow \union {NoRow}]
      BY <1>6, <1>7
    <2>2. pc' \in [Request -> {"idle"} \union Step \union Finished]
      BY <1>6, <1>9 DEF IInv, TypeOK, Finished
    <2> QED
      BY <1>6, <1>8, <2>1, <2>2 DEF IInv, TypeOK
  <1>12. Kept
    <2>1. \A b \in Account : Exists(b) =>
            accounts'[b] # NoRow /\ (accounts[b].mfa_enrolled => accounts'[b].mfa_enrolled)
      BY <1>2, <1>5, <1>6 DEF Exists, IInv, TypeOK
    <2> QED
      BY <1>6, <1>7, <1>8, <1>10, <2>1 DEF Kept, IInv, TypeOK
  <1>13. TokensIssued' /\ SecretsKept'
    BY <1>6, <1>7, <1>12, TokensKept, SecretsSame
  <1>14. PasswordsSet'
    <2> SUFFICES ASSUME NEW b \in Account, NEW q \in Request, accounts'[b] # NoRow, accounts'[b].password = q
                 PROVE  pc'[q] = "done" /\ job'[q].op \in {"register", "provision", "redeem", "change"}
      BY DEF PasswordsSet
    <2>1. CASE accounts[b] # NoRow /\ accounts[b].password = q
      BY <2>1, <1>12, DoneHasJob DEF IInv, PasswordsSet
    <2>2. CASE ~(accounts[b] # NoRow /\ accounts[b].password = q)
      <3>1. b = a /\ q = r /\ op \in {"redeem", "change"}
        BY <1>2, <1>5, <1>6, <2>2 DEF IInv, TypeOK
      <3> QED
        BY <1>6, <1>9, <1>10, <3>1
    <2> QED
      BY <2>1, <2>2
  <1>15. Established(r)'
    <2>1. \A t \in job[r].held : ~Live(t)'
      BY <1>2, <1>3, <1>7 DEF Live
    <2> QED
      BY <1>1, <1>6, <1>9, <1>10, <2>1 DEF Established, Factor, RevokeAll
  <1>16. Spent(r)' /\ StepFits(op, where)
    <2>1. ~job[r].good => op = "refresh"
      BY <1>1 DEF Spent, SpentNow, RevokeAll
    <2>2. SpentNow(r) => SpentNow(r)'
      BY <1>1, <1>12, SpentStaysSpent
    <2> QED
      BY <1>1, <1>6, <1>9, <1>10, <2>1, <2>2 DEF Spent, StepFits
  <1> QED
    <2>1. \A q \in Request \ {r} : seen'[q] = seen[q]
      BY <1>6 DEF IInv, TypeOK
    <2>2. op # "verify_backup"
      BY <1>1 DEF RevokeAll
    <2> QED
      BY <1>1, <1>6, <1>9, <1>11, <1>12, <1>13, <1>14, <1>15, <1>16, <2>1, <2>2, WriteIInv
      DEF Finished

\* A new call: what it presents, it could present.
LEMMA BeginIInv ==
  ASSUME IInv, NEW r \in Request, NEW op \in Op, NEW a \in Account, NEW on \in Id \union {NoRow},
         NEW c \in Code, Begin(r, op, a, on, c)
  PROVE  IInv'
  <1> DEFINE asked == [op |-> op, account |-> a, on |-> on, code |-> c,
                       held |-> SessionsOf(a), good |-> GoodNow(op, a, on, c)]
  <1>1. /\ pc[r] = "idle" /\ job[r] = NoJob
        /\ pc' = [pc EXCEPT ![r] = FirstStep[op]]
        /\ job' = [job EXCEPT ![r] = asked]
        /\ UNCHANGED <<accounts, tokens, resets, mfa, pending, seen>>
    BY DEF Begin, Goto, IInv, Call
  <1>2. GoodNow(op, a, on, c) \in BOOLEAN
    BY DEF GoodNow
  <1>3. asked \in Job
    BY <1>2 DEF Job, SessionsOf
  <1>4. /\ asked.op = op /\ asked.account = a /\ asked.on = on /\ asked.code = c
        /\ asked.held = SessionsOf(a) /\ asked.good = GoodNow(op, a, on, c)
    OBVIOUS
  <1>5. /\ op \notin {"register", "provision"} => Exists(a)
        /\ op = "enroll" => a \in ClientUser
        /\ op \in Factor => a \in ClientUser
        /\ Presents(op, a, on)
    <2>1. op \in DOMAIN PendingFor => a \in ClientUser
      BY DEF Begin, IInv, TypeOK
    <2> QED
      BY <2>1 DEF Begin, PendingFor, Factor
  <1>6. GoodNow(op, a, on, c) <=> /\ op = "refresh" => Live(on)
                                  /\ op = "redeem" => ~resets[on].used
                                  /\ op = "verify_backup" => c \in mfa[a].codes
    BY DEF GoodNow
  <1>7. /\ FirstStep[op] \in Step \ {"issue", "commit", "rotate", "consume"}
        /\ StepFits(op, FirstStep[op])
        /\ op = "redeem" => FirstStep[op] = "claim"
    <2> DEFINE first == FirstStep[op]
    <2>1. /\ op \in {"register", "provision"} => first = "insert"
          /\ op = "login" => first = "authenticate"
          /\ op = "enroll" => first = "save"
          /\ op \in Factor => first = "credential"
          /\ op = "refresh" => first = "present"
          /\ op = "logout" => first = "revoke"
          /\ op = "change" => first = "check"
          /\ op = "ask" => first = "store"
          /\ op = "redeem" => first = "claim"
          /\ op = "deactivate" => first = "sweep"
          /\ op = "reactivate" => first = "activate"
      BY DEF FirstStep, Factor
    <2> HIDE DEF first
    <2>2. first \in Step \ {"issue", "commit", "rotate", "consume"} /\ StepFits(op, first)
      BY <2>1 DEF Op, Step, StepFits, Factor, RevokeAll
    <2> QED
      BY <2>1, <2>2 DEF first
  <1> HIDE DEF asked
  <1>8. /\ pc'[r] = FirstStep[op] /\ pc'[r] \notin {"idle"} \union Finished /\ job'[r] = asked
        /\ \A q \in Request \ {r} : pc'[q] = pc[q] /\ job'[q] = job[q]
    BY <1>1, <1>7 DEF IInv, TypeOK, Step, Finished
  <1>9. TypeOK'
    BY <1>1, <1>3, <1>7 DEF IInv, TypeOK
  <1>10. Kept
    BY <1>1, <1>8 DEF Kept, Exists, IInv, TypeOK
  <1>11. TokensIssued' /\ PasswordsSet' /\ SecretsKept'
    BY <1>1, <1>10, TokensSame, PasswordsSame, SecretsSame
  <1>12. CodesApart'
    BY <1>7, <1>8 DEF IInv, CodesApart, Finished
  <1>13. Asked(r)'
    <2>1. /\ op \in {"refresh", "logout"} => on \in SessionsOf(a)
          /\ op = "redeem" => on \in Id /\ resets[on] # NoRow
          /\ op \in Factor => mfa[a] # NoRow /\ on = mfa[a].secret
      BY <1>5 DEF Presents, Factor
    <2>2. op \in Factor => OwnsSecret(a, on)'
      <3> SUFFICES ASSUME op \in Factor PROVE OwnsSecret(a, on)'
        OBVIOUS
      <3>1. on \in Id /\ OwnsSecret(a, on)
        BY <1>5, <2>1 DEF IInv, SecretsKept, TypeOK, SecretRow
      <3> QED
        BY <1>10, <3>1, SecretIsKept
    <2>3. SessionsOf(a)' = SessionsOf(a)
      BY <1>1 DEF SessionsOf
    <2> QED
      BY <1>1, <1>3, <1>4, <1>5, <1>8, <2>1, <2>2, <2>3 DEF Asked, Exists, OwnsSecret
  <1>14. Established(r)'
    BY <1>7, <1>8 DEF Established, Finished
  <1>15. Spent(r)'
    <2>1. ~GoodNow(op, a, on, c) =>
            \/ op = "refresh" /\ ~Live(on)
            \/ op = "redeem" /\ resets[on].used
            \/ op = "verify_backup" /\ c \notin mfa[a].codes
      BY <1>6
    <2> QED
      BY <1>1, <1>4, <1>7, <1>8, <2>1 DEF Spent, SpentNow, CodeGone, Live, Finished
  <1>16. Call(r)'
    BY <1>4, <1>7, <1>8, <1>13, <1>14, <1>15 DEF Call
  <1> QED
    BY <1>1, <1>8, <1>9, <1>10, <1>11, <1>12, <1>16, StepIInv

LEMMA ServedIInv == ASSUME IInv, NEW r \in Request, Served(r) PROVE IInv'
  BY AuthenticateIInv, ReadCredentialIInv, PresentIInv, CheckPasswordIInv, ClaimResetIInv,
     SweepIInv, InsertAccountIInv, ReactivateIInv, SaveEnrolmentIInv, ConfirmEnrolmentIInv,
     ConsumeCodeIInv, StoreResetIInv, IssueIInv, RotateIInv, LogoutIInv, CommitSweepIInv
  DEF Served, Register, Provision

LEMMA StutterIInv == ASSUME IInv, UNCHANGED vars PROVE IInv'
  <1>1. Kept
    BY DEF Kept, vars, Exists
  <1>2. TypeOK' /\ ResetsStored' /\ CodesApart'
    BY DEF IInv, vars, TypeOK, ResetsStored, CodesApart
  <1>3. TokensIssued' /\ PasswordsSet' /\ SecretsKept'
    BY <1>1, TokensSame, PasswordsSame, SecretsSame DEF vars
  <1>4. \A r \in Request : Call(r)'
    BY <1>1, CallIsKept DEF vars
  <1> QED
    BY <1>2, <1>3, <1>4 DEF IInv

\* The strengthening holds in every state that can be reached.
THEOREM Invariance == Spec => []IInv
  <1>1. Init => IInv
    BY InitIInv
  <1>2. IInv /\ [Next]_vars => IInv'
    BY BeginIInv, ServedIInv, AbortIInv, StutterIInv DEF Next, AllServed
  <1> QED
    BY <1>1, <1>2, PTL DEF Spec

\* Every table keeps the shape its columns and constraints give it.
THEOREM TypeCorrect == Spec => []TypeOK
  <1>1. IInv => TypeOK
    BY DEF IInv
  <1> QED
    BY <1>1, Invariance, PTL

\* However logins, enrolments and confirmations interleave, no client user has a session from
\* a password alone (AUTH-006).
THEOREM SecondFactor == Spec => []SecondFactorBehindSession
  <1>1. IInv => SecondFactorBehindSession
    BY DEF IInv, TokensIssued, IsEnrolled, Factor, SecondFactorBehindSession, Id
  <1> QED
    BY <1>1, Invariance, PTL

\* However many calls present one backup code at once, one of them leaves a session.
THEOREM CodeAdmitsOnce == Spec => []BackupCodeAdmitsOnce
  <1>1. IInv => BackupCodeAdmitsOnce
    BY DEF IInv, TokensIssued, CodesApart, BackupCodeAdmitsOnce
  <1> QED
    BY <1>1, Invariance, PTL

\* What was spent when a call arrived buys that call nothing: no session, no password.
THEOREM SpentStays == Spec => []SpentMeansSpent
  <1>1. ASSUME IInv, NEW r \in Request, job[r] # NoJob, ~job[r].good
        PROVE  tokens[r] = NoRow /\ accounts[job[r].account].password # r
    <2>1. Spent(r) /\ Asked(r) /\ job[r].account \in Account
      BY <1>1, CallSoFar DEF IInv, Call, Job
    <2>2. tokens[r] = NoRow
      BY <1>1, <2>1 DEF IInv, TokensIssued, Spent, SpentNow, Factor
    <2>3. accounts[job[r].account].password # r
      BY <1>1, <2>1 DEF IInv, PasswordsSet, Spent, SpentNow, Asked, Exists
    <2> QED
      BY <2>2, <2>3
  <1>2. IInv => SpentMeansSpent
    BY <1>1 DEF SpentMeansSpent
  <1> QED
    BY <1>2, Invariance, PTL

\* A change of password, a redemption, a deactivation or the answer to a reused token ends
\* every session there was when the call arrived, for good (AUTH-004, AUTH-008).
THEOREM SignOut == Spec => []SignOutReaches
  <1>1. IInv => SignOutReaches
    BY CallSoFar DEF SignOutReaches, Established
  <1> QED
    BY <1>1, Invariance, PTL

\* Every rotation leaves a dead token behind that points to a successor of its own.
THEOREM Trail == Spec => []RotationLeavesTrail
  <1>1. ASSUME IInv, NEW r \in Request, tokens[r] # NoRow, job[r].op = "refresh"
        PROVE  LET old == tokens[job[r].on] IN
               /\ old.revoked
               /\ old.replaced_by \in Request
               /\ tokens[old.replaced_by] # NoRow
               /\ job[old.replaced_by].on = job[r].on
    <2>1. pc[r] = "done" /\ Asked(r) /\ Established(r)
      BY <1>1, CallSoFar DEF IInv, TokensIssued
    <2>2. job[r].on \in Id /\ tokens[job[r].on] # NoRow
      BY <1>1, <2>1 DEF Asked, SessionsOf
    <2> QED
      BY <1>1, <2>1, <2>2 DEF Established, IInv, TokensIssued
  <1>2. IInv => RotationLeavesTrail
    BY <1>1 DEF RotationLeavesTrail
  <1> QED
    BY <1>2, Invariance, PTL
=============================================================================
