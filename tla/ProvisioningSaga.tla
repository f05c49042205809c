-------------------------- MODULE ProvisioningSaga --------------------------
(***************************************************************************)
(* The tenant provisioning saga of apps/platform-control for ONE accepted  *)
(* provisioning request: its row, its steps, their receipts, the identity  *)
(* reservations of its first-admin address, the worker processes that run  *)
(* the steps under a lease, the operator's edits of the request and the    *)
(* operator's recovery commands, which the same workers execute, against   *)
(* Keycloak and the provisioner's users row, which answer late or not at   *)
(* all.                                                                    *)
(*                                                                         *)
(* Every worker action is one database transaction or one external call of *)
(* the code, so that whatever other workers, operators and late external   *)
(* writes do in between is a behaviour of the model.  Time is abstracted:  *)
(* a lease lapses once its holder has gone (always possible) or stalls     *)
(* (counted as a fault), and the back-off before a retry is left out, it   *)
(* only delays a claim.  The request deadline and a revoked bootstrap      *)
(* template refuse a step before it starts: they are the permanent answers *)
(* of Find.                                                                *)
(***************************************************************************)
EXTENDS Naturals, FiniteSets

CONSTANTS
  Workers,      \* platform worker processes (their workerId)
  Commands,     \* ids of the operator's EXECUTE commands
  Emails,       \* first-admin addresses
  Last,         \* external steps are 1..Last, in order; Last is READINESS
  Org,          \* KEYCLOAK_ORGANIZATION, the only step with a compensation
  Admin,        \* FIRST_ADMIN
  MaxAttempts,  \* maxAttempts of the saga
  MaxRuns,      \* maxAttempts of the command worker
  MaxBeats,     \* bound: heartbeats in all
  MaxFaults,    \* bound: crashes, stalls and lost heartbeat answers
  MaxEdits,     \* bound: edits of the request
  None          \* SQL NULL

Steps == 1..Last

ASSUME SagaConstants ==
  /\ Last \in Nat /\ Org \in Steps /\ Admin \in Steps
  /\ Org < Admin /\ Admin < Last
  /\ MaxAttempts \in Nat \ {0} /\ MaxRuns \in Nat \ {0}
  /\ MaxBeats \in Nat /\ MaxFaults \in Nat /\ MaxEdits \in Nat
  /\ None \notin Workers \cup Commands \cup Emails \cup Nat
  /\ IsFiniteSet(Commands)

VARIABLES
  req,       \* pf_provisioning_requests: [status, rev, email]
  tenant,    \* tenants.lifecycle_status
  ids,       \* pf_identity_reservations of kind FIRST_ADMIN_EMAIL
  step,      \* pf_provisioning_steps
  receipts,  \* pf_provisioning_step_receipts: [step, attempt, outcome]
  cmd,       \* pf_operator_commands of kind EXECUTE
  world,     \* external resources that carry this request's correlation
  foreign,   \* external resources of the same name that belong to others
  mapped,    \* users.keycloak_id: the address whose identity it points at
  posts,     \* creations sent whose answer nobody waits for any more
  work,      \* what each worker has in hand
  faults, edits, beats   \* what MaxFaults, MaxEdits and MaxBeats bound

db == <<req, tenant, ids, step, receipts>>
ext == <<world, foreign, mapped, posts>>
bounds == <<faults, edits, beats>>
vars == <<db, cmd, ext, work, bounds>>

-----------------------------------------------------------------------------
\* The external systems

\* What a step creates: an organization named after the tenant's slug, an
\* identity named after the first admin's address.
Res(s, e) == IF s = Admin THEN <<s, e>> ELSE <<s, None>>
Resources == {Res(s, e) : s \in Steps, e \in Emails}

Findings == {"FOUND", "NOT_FOUND", "MISMATCH"}

\* An identity adopted as soon as it exists.
Find_Unconverged(s, e) ==
  IF s = Last THEN "NOT_FOUND"
  ELSE IF Res(s, e) \in foreign THEN "MISMATCH"
  ELSE IF Res(s, e) \in world THEN "FOUND" ELSE "NOT_FOUND"

\* port.find: READINESS has nothing to adopt; a resource of the same name
\* without our correlation is a mismatch; an identity of ours that is not yet
\* mapped, or whose organization is missing, has not converged.
Find(s, e) ==
  IF s = Last THEN "NOT_FOUND"
  ELSE IF Res(s, e) \in foreign THEN "MISMATCH"
  ELSE IF /\ Res(s, e) \in world
          /\ s = Admin => mapped = e /\ Res(Org, e) \in world
       THEN "FOUND" ELSE "NOT_FOUND"

\* One execute: the resource it leaves behind, whether it maps the users row,
\* and what the caller learns.  "CONFLICT" is the error code
\* FIRST_ADMIN_EMAIL_CONFLICT.
Outcomes == {"DONE", "RETRY", "ESCALATE", "CONFLICT"}

Answer(made, map, out) == [made |-> made, map |-> map, out |-> out]

\* The organization (and any other step that creates a resource).
CreateAnswers(s, e) ==
  IF Res(s, e) \in foreign THEN {Answer({}, mapped, "ESCALATE")}
  ELSE {Answer({Res(s, e)}, mapped, "DONE"), Answer({Res(s, e)}, mapped, "RETRY")}

\* FIRST_ADMIN: needs the organization, creates the identity unless somebody
\* else's has that address, makes it a member and maps it to the users row
\* unless that row points at another identity.  The provisioner role sees the
\* tenant's rows only while the tenant is PROVISIONING.
AdminAnswers(e) ==
  IF Res(Org, e) \notin world THEN {Answer({}, mapped, "ESCALATE")}
  ELSE IF tenant # "PROVISIONING" THEN {Answer({}, mapped, "RETRY")}
  ELSE IF Res(Admin, e) \in foreign THEN {Answer({}, mapped, "CONFLICT")}
  ELSE IF mapped \notin {None, e} THEN {Answer({Res(Admin, e)}, mapped, "ESCALATE")}
  ELSE {Answer({Res(Admin, e)}, e, "DONE"), Answer({Res(Admin, e)}, e, "RETRY"),
        Answer({Res(Admin, e)}, mapped, "RETRY")}

\* READINESS: the organization and the converged first admin are there, and
\* every earlier step has its receipt (checks RECEIPTS and IDENTITY).  The
\* checks of plan, settings, baseline, invitation and isolation read rows that
\* are not modelled; each may fail, which is the ESCALATE of ExecuteAnswers.
ReadyAnswers(e) ==
  {Answer({}, mapped,
     IF /\ Find(Admin, e) = "FOUND"
        /\ \A s \in 1..(Last - 1) :
             /\ step[s].state = "SUCCEEDED"
             /\ \E r \in receipts : r.step = s /\ r.outcome = "SUCCEEDED"
     THEN "DONE" ELSE "ESCALATE")}

ExecuteAnswers(s, e) ==
  {Answer({}, mapped, "RETRY"), Answer({}, mapped, "ESCALATE")} \cup
  (CASE s = Last  -> ReadyAnswers(e)
     [] s = Admin -> AdminAnswers(e)
     [] OTHER     -> CreateAnswers(s, e))
-----------------------------------------------------------------------------
\* The worker's state

Idle == [pc |-> "idle", st |-> None, rr |-> 0, em |-> None, s |-> 0, at |-> 0,
         fl |-> 0, sr |-> 0, out |-> None, c |-> None]

Goto(w, r) == work' = [work EXCEPT ![w] = r]

\* The outcome written on the strength of the step's state alone.
Holds_StateOnly(w) == step[work[w].s].state = "RUNNING"

\* The step's row still carries the lease this worker last wrote.
Holds(w) == step[work[w].s].owner = w /\ step[work[w].s].rev = work[w].sr

\* A lease that nobody takes over.
Leased_Forever(row) == row.owner # None

Leased(row) == row.owner # None /\ ~row.lapsed

Unfinished == {s \in Steps : step[s].state # "SUCCEEDED"}

\* The steps sorted the other way round.
Current_Descending == CHOOSE s \in Unfinished : \A t \in Unfinished : s >= t

\* currentStep: the first step that has not succeeded.
Current == CHOOSE s \in Unfinished : \A t \in Unfinished : s <= t

Receipt(s, a, o) == [step |-> s, attempt |-> a, outcome |-> o]

ReservationStates == {"FREE", "HELD", "CONSUMED", "TOMBSTONED"}
ReservationsTo(state) ==
  ids' = [e \in Emails |-> IF ids[e] = "HELD" THEN state ELSE ids[e]]

\* What the transaction of accept leaves behind: the request PENDING, the
\* tenant and its reservations, all steps PENDING but TENANT_RECORD, which is
\* done and not among Steps.  How accept gets there (replay, validation, lost
\* races for an identity) is not modelled.
Init ==
  /\ \E e \in Emails :
       /\ req = [status |-> "PENDING", rev |-> 1, email |-> e]
       /\ ids = [x \in Emails |-> IF x = e THEN "HELD" ELSE "FREE"]
  /\ tenant = "PROVISIONING"
  /\ step = [s \in Steps |-> [state |-> "PENDING", attempt |-> 0, floor |-> 0, rev |-> 1,
                              owner |-> None, lapsed |-> FALSE, conflict |-> FALSE]]
  /\ receipts = {}
  /\ cmd = [c \in Commands |-> [state |-> "NONE", action |-> None, erev |-> 0,
                                view |-> None, attempt |-> 0, owner |-> None,
                                lapsed |-> FALSE]]
  /\ world = {} /\ mapped = None /\ posts = {}
  /\ foreign \in {{}} \cup {{r} : r \in Resources \ {Res(Last, None)}}
  /\ work = [w \in Workers |-> Idle]
  /\ faults = 0 /\ edits = 0 /\ beats = 0

-----------------------------------------------------------------------------
\* The saga worker: runOnce

\* The candidate query; Prisma loads the included steps with a second query.
ReadRequest(w) ==
  /\ work[w].pc = "idle" /\ req.status \in {"PENDING", "RUNNING"}
  /\ Goto(w, [Idle EXCEPT !.pc = "request", !.st = req.status, !.rr = req.rev,
                          !.em = req.email])
  /\ UNCHANGED <<db, cmd, ext, bounds>>

\* No step left: finalize (only a request read as RUNNING); a step that waits
\* for the operator or is leased is skipped.  The worker keeps only what it
\* still uses of the snapshot: the address matters from FIRST_ADMIN on.
ReadSteps(w) ==
  /\ work[w].pc = "request"
  /\ LET mine == work[w]
         s    == Current
     IN  Goto(w,
           IF Unfinished = {}
           THEN IF mine.st = "RUNNING" THEN [mine EXCEPT !.pc = "finalize"] ELSE Idle
           ELSE IF \/ step[s].state = "ACTION_REQUIRED"
                   \/ Leased(step[s])
           THEN Idle
           ELSE [mine EXCEPT !.pc = "claim", !.s = s, !.at = step[s].attempt + 1,
                             !.fl = step[s].floor, !.sr = step[s].rev,
                             !.em = IF s < Admin THEN None ELSE @])
  /\ UNCHANGED <<db, cmd, ext, bounds>>

\* claim: compare-and-swap on the step, then start the request if it was read
\* as PENDING; that second compare-and-swap may miss and is then ignored.
Claim(w) ==
  LET mine == work[w]
      row  == step[mine.s]
      won  == /\ row.rev = mine.sr /\ row.state \in {"PENDING", "RUNNING"}
              /\ ~Leased(row)
  IN
  /\ mine.pc = "claim"
  /\ IF won
     THEN /\ step' = [step EXCEPT ![mine.s] =
                        [row EXCEPT !.state = "RUNNING", !.attempt = mine.at, !.owner = w,
                                    !.lapsed = FALSE, !.rev = @ + 1]]
          /\ req' = IF mine.st = "PENDING" /\ req.status = "PENDING" /\ req.rev = mine.rr
                    THEN [req EXCEPT !.status = "RUNNING", !.rev = @ + 1] ELSE req
          /\ Goto(w, [mine EXCEPT !.pc = "find", !.sr = @ + 1, !.st = None, !.rr = 0])
     ELSE Goto(w, Idle) /\ UNCHANGED <<req, step>>
  /\ UNCHANGED <<tenant, ids, receipts, cmd, ext, bounds>>

\* process and attempt, up to the answer of port.find: past the deadline, over
\* the budget or under a revoked template the step is refused; an error of
\* find is classified.
FindStep(w) ==
  LET mine  == work[w]
      found == Find(mine.s, mine.em)
  IN
  /\ mine.pc = "find"
  /\ \/ Goto(w, [mine EXCEPT !.pc = "write", !.out = "ESCALATE"])
     \/ /\ mine.at - mine.fl <= MaxAttempts
        /\ \/ Goto(w, [mine EXCEPT !.pc = "write", !.out = "RETRY"])
           \/ /\ found = "FOUND"
              /\ Goto(w, [mine EXCEPT !.pc = "write", !.out = "DONE"])
           \/ /\ found = "MISMATCH"
              /\ Goto(w, [mine EXCEPT !.pc = "write",
                            !.out = IF mine.s = Admin THEN "CONFLICT" ELSE "ESCALATE"])
           \/ /\ found = "NOT_FOUND"
              /\ Goto(w, [mine EXCEPT !.pc = "execute"])
  /\ UNCHANGED <<db, cmd, ext, bounds>>

\* port.execute under its timeout: a creation the worker gave up on, or the
\* mapping of the users row after it, may still arrive later.
Execute(w) ==
  LET mine == work[w]
      all  == ExecuteAnswers(mine.s, mine.em)
  IN
  /\ mine.pc = "execute"
  /\ \E a \in all :
       /\ world' = world \cup a.made
       /\ mapped' = a.map
       /\ posts' \in {posts} \cup
            (IF a.out = "RETRY"
             THEN {posts \cup b.made : b \in all} ELSE {})
       /\ Goto(w, [mine EXCEPT !.pc = "write", !.out = a.out])
  /\ UNCHANGED <<db, cmd, foreign, bounds>>

\* startHeartbeat: extends the lease of the row this worker last wrote.  The
\* answer may be lost after the row was written: the worker then no longer
\* knows the revision.  A beat that finds another revision only stops the
\* beating: the write of the outcome finds the same.
Heartbeat(w) ==
  LET mine == work[w] IN
  /\ mine.pc \in {"find", "execute"} /\ beats < MaxBeats /\ Holds(w)
  /\ step' = [step EXCEPT ![mine.s] = [step[mine.s] EXCEPT !.lapsed = FALSE, !.rev = @ + 1]]
  /\ beats' = beats + 1
  /\ \/ Goto(w, [mine EXCEPT !.sr = @ + 1]) /\ UNCHANGED faults
     \/ faults < MaxFaults /\ faults' = faults + 1 /\ UNCHANGED work
  /\ UNCHANGED <<req, tenant, ids, receipts, cmd, ext, edits>>

\* The lease left on the row.
Release_KeepsLease(s, st, clash) ==
  step' = [step EXCEPT ![s] = [step[s] EXCEPT !.state = st, !.conflict = clash, !.rev = @ + 1]]

\* A row leaves its lease behind in state st.
Release(s, st, clash) ==
  step' = [step EXCEPT ![s] = [step[s] EXCEPT !.state = st, !.owner = None, !.lapsed = FALSE,
                                              !.conflict = clash, !.rev = @ + 1]]

Succeed(w) ==
  /\ work[w].out = "DONE"
  /\ Release(work[w].s, "SUCCEEDED", FALSE)
  /\ receipts' = receipts \cup {Receipt(work[w].s, work[w].at, "SUCCEEDED")}
  /\ UNCHANGED req

ScheduleRetry(w) ==
  /\ work[w].out = "RETRY" /\ work[w].at - work[w].fl < MaxAttempts
  /\ Release(work[w].s, "PENDING", FALSE)
  /\ UNCHANGED <<req, receipts>>

\* escalate: only a RUNNING request moves with its step.
Escalate(w) ==
  /\ \/ work[w].out \in {"ESCALATE", "CONFLICT"}
     \/ work[w].out = "RETRY" /\ work[w].at - work[w].fl >= MaxAttempts
  /\ Release(work[w].s, "ACTION_REQUIRED", work[w].out = "CONFLICT")
  /\ receipts' = receipts \cup {Receipt(work[w].s, work[w].at, "ACTION_REQUIRED")}
  /\ req' = IF req.status = "RUNNING"
            THEN [req EXCEPT !.status = "ACTION_REQUIRED", !.rev = @ + 1] ELSE req

\* The outcome is written by whoever still holds the lease; anybody else has
\* lost it and writes nothing.
WriteOutcome(w) ==
  /\ work[w].pc = "write"
  /\ IF Holds(w) THEN Succeed(w) \/ ScheduleRetry(w) \/ Escalate(w)
     ELSE UNCHANGED <<req, step, receipts>>
  /\ Goto(w, Idle)
  /\ UNCHANGED <<tenant, ids, cmd, ext, bounds>>

\* finalize -> repository.complete: request, tenant and reservations at once.
\* Its other errors (an identity taken, a tenant or step that does not fit) are
\* thrown again in every round; they need a tenant made outside accept, for the
\* steps have all succeeded and the reservations are held.
Finalize(w) ==
  /\ work[w].pc = "finalize"
  /\ IF req.rev = work[w].rr /\ req.status = "RUNNING"
     THEN /\ req' = [req EXCEPT !.status = "SUCCEEDED", !.rev = @ + 1]
          /\ tenant' = "ACTIVE"
          /\ ReservationsTo("CONSUMED")
     ELSE UNCHANGED <<req, tenant, ids>>
  /\ Goto(w, Idle)
  /\ UNCHANGED <<step, receipts, cmd, ext, bounds>>
-----------------------------------------------------------------------------
\* The operator: edits of an open request, and recovery commands

Open == req.status \in {"PENDING", "RUNNING", "ACTION_REQUIRED"}

\* edit: a field whose step has not succeeded (firstAdminDisplayName is the
\* one editable longest); only the revision matters here.
EditField ==
  /\ Open /\ edits < MaxEdits
  /\ step[Admin].state # "SUCCEEDED"
  /\ req' = [req EXCEPT !.rev = @ + 1]
  /\ edits' = edits + 1
  /\ UNCHANGED <<tenant, ids, step, receipts, cmd, ext, work, faults, beats>>

\* The reservations after a change of address: the old one is kept.
Swapped_KeepsOld(old, new) == [ids EXCEPT ![new] = "HELD"]

\* The reservations after a change of address: the new one taken, the old one
\* tombstoned.
Swapped(old, new) == [ids EXCEPT ![new] = "HELD", ![old] = "TOMBSTONED"]

\* changeFirstAdminEmail: before FIRST_ADMIN was ever claimed, or when it
\* stopped at a conflict of addresses; the new address is reserved and the old
\* one tombstoned in the same transaction.
ChangeEmail(e) ==
  /\ Open /\ edits < MaxEdits
  /\ \/ step[Admin].state = "PENDING" /\ step[Admin].attempt = 0
     \/ step[Admin].state = "ACTION_REQUIRED" /\ step[Admin].conflict
  /\ ids[e] = "FREE"
  /\ ids' = Swapped(req.email, e)
  /\ req' = [req EXCEPT !.email = e, !.rev = @ + 1]
  /\ edits' = edits + 1
  /\ UNCHANGED <<tenant, step, receipts, cmd, ext, work, faults, beats>>

RecoveryActions == {"MARK_FAILED_FINAL", "RETRY_STEP", "RECONCILE", "SAFE_COMPENSATE"}

InProgress == {c \in Commands : cmd[c].state \in {"QUEUED", "RUNNING"}}

\* evaluate: what a preview shows, and its digest covers, beside the revision
\* of the request.  A preview of MARK_FAILED_FINAL asks nothing.
View(a) ==
  IF Unfinished = {} THEN None
  ELSE [s |-> Current, attempt |-> step[Current].attempt, rev |-> step[Current].rev,
        finding |-> IF a # "MARK_FAILED_FINAL" /\ req.status = "ACTION_REQUIRED"
                    THEN Find(Current, req.email) ELSE None]

\* submit, with the digest of the preview the operator looked at; one
\* unfinished EXECUTE command per request.
Submit(c, a) ==
  /\ cmd[c].state = "NONE" /\ InProgress = {}
  /\ req.status = "ACTION_REQUIRED"
  /\ cmd' = [cmd EXCEPT ![c] = [cmd[c] EXCEPT !.state = "QUEUED", !.action = a,
                                              !.erev = req.rev, !.view = View(a)]]
  /\ UNCHANGED <<db, ext, work, bounds>>

\* blockedBy, for a request and a step as evaluate read them.
Blocked(a, view) ==
  \/ req.status # "ACTION_REQUIRED"
  \/ /\ a # "MARK_FAILED_FINAL"
     /\ \/ view = None
        \/ step[view.s].state # "ACTION_REQUIRED"
        \/ a = "RECONCILE" /\ view.finding = "MISMATCH"
        \/ a = "RETRY_STEP" /\ view.finding # "NOT_FOUND"
        \/ a = "SAFE_COMPENSATE" /\ ~(view.s = Org /\ view.finding = "FOUND")

-----------------------------------------------------------------------------
\* The command worker: runOnce and recovery.execute.  The revision that fences
\* a command's row moves with its attempt, which stands for it.

Command(w) == cmd[work[w].c]

\* A command lost with the worker that ran it.
Due_QueuedOnly(row) == row.state = "QUEUED"

Due(row) == row.state = "QUEUED" \/ (row.state = "RUNNING" /\ row.lapsed)

ClaimCommand(w, c) ==
  /\ work[w].pc = "idle" /\ Due(cmd[c])
  /\ cmd' = [cmd EXCEPT ![c] = [cmd[c] EXCEPT !.state = "RUNNING", !.attempt = @ + 1,
                                              !.owner = w, !.lapsed = FALSE]]
  /\ Goto(w, [Idle EXCEPT !.pc = "evaluate", !.c = c, !.at = cmd[c].attempt + 1])
  /\ UNCHANGED <<db, ext, bounds>>

Finishing(w, o) == Goto(w, [work[w] EXCEPT !.pc = "finish", !.out = o])

\* The error of an external call: transient ones are tried again later, the
\* others end the command.
CallFails(w) == Finishing(w, "LATER") \/ Finishing(w, "REJECTED")

Branch(a) == CASE a = "MARK_FAILED_FINAL" -> "mark"
              [] a = "RETRY_STEP"        -> "retry"
              [] a = "RECONCILE"         -> "adopt"
              [] a = "SAFE_COMPENSATE"   -> "intent"

\* execute, up to the switch on the action: the revision, the digest of a
\* fresh evaluation, and what it blocks.
Evaluate(w) ==
  LET row == Command(w) IN
  /\ work[w].pc = "evaluate"
  /\ \/ IF \/ req.rev # row.erev
           \/ View(row.action) # row.view
           \/ Blocked(row.action, row.view)
        THEN Finishing(w, "REJECTED")
        ELSE IF row.action = "RECONCILE" /\ row.view.finding = "NOT_FOUND"
        THEN Finishing(w, "SUCCEEDED")
        ELSE Goto(w, [work[w] EXCEPT !.pc = Branch(row.action), !.em = req.email])
     \/ /\ row.action # "MARK_FAILED_FINAL" /\ req.rev = row.erev
        /\ CallFails(w)
  /\ UNCHANGED <<db, cmd, ext, bounds>>

\* repository.transition to FAILED_FINAL.
MarkFailedFinal(w) ==
  /\ work[w].pc = "mark"
  /\ IF req.rev = Command(w).erev /\ req.status = "ACTION_REQUIRED"
     THEN /\ req' = [req EXCEPT !.status = "FAILED_FINAL", !.rev = @ + 1]
          /\ ReservationsTo("TOMBSTONED")
          /\ Finishing(w, "SUCCEEDED")
     ELSE Finishing(w, "REJECTED") /\ UNCHANGED <<req, ids>>
  /\ UNCHANGED <<tenant, step, receipts, cmd, ext, bounds>>

\* updateStep and resume both find what the preview saw.
Unmoved(w) ==
  LET row == Command(w) IN
  /\ step[row.view.s].rev = row.view.rev /\ step[row.view.s].state = "ACTION_REQUIRED"
  /\ req.rev = row.erev /\ req.status = "ACTION_REQUIRED"

Resume == req' = [req EXCEPT !.status = "RUNNING", !.rev = @ + 1]

\* A step that starts counting afresh.
Reopened_FromZero(row) ==
  [row EXCEPT !.state = "PENDING", !.attempt = 0, !.floor = 0, !.conflict = FALSE, !.rev = @ + 1]

\* A new budget of attempts; the attempt itself only ever grows.
Reopened(row) ==
  [row EXCEPT !.state = "PENDING", !.floor = row.attempt, !.conflict = FALSE, !.rev = @ + 1]

RetryStep(w) ==
  LET row == Command(w) IN
  /\ work[w].pc = "retry"
  /\ IF Unmoved(w)
     THEN /\ step' = [step EXCEPT ![row.view.s] = Reopened(step[row.view.s])]
          /\ Resume
          /\ Finishing(w, "SUCCEEDED")
     ELSE Finishing(w, "REJECTED") /\ UNCHANGED <<req, step>>
  /\ UNCHANGED <<tenant, ids, receipts, cmd, ext, bounds>>

\* RECONCILE asks find a second time before it adopts.
AdoptFind(w) ==
  /\ work[w].pc = "adopt"
  /\ \/ IF Find(Command(w).view.s, work[w].em) = "FOUND"
        THEN Goto(w, [work[w] EXCEPT !.pc = "commit"]) ELSE Finishing(w, "REJECTED")
     \/ CallFails(w)
  /\ UNCHANGED <<db, cmd, ext, bounds>>

Adopt(w) ==
  LET row == Command(w) IN
  /\ work[w].pc = "commit"
  /\ IF Unmoved(w)
     THEN /\ step' = [step EXCEPT ![row.view.s] =
                        [step[row.view.s] EXCEPT
                           !.state = "SUCCEEDED", !.attempt = row.view.attempt + 1,
                           !.conflict = FALSE, !.rev = @ + 1]]
          /\ receipts' = receipts \cup
                           {Receipt(row.view.s, row.view.attempt + 1, "SUCCEEDED")}
          /\ Resume
          /\ Finishing(w, "SUCCEEDED")
     ELSE Finishing(w, "REJECTED") /\ UNCHANGED <<req, step, receipts>>
  /\ UNCHANGED <<tenant, ids, cmd, ext, bounds>>

\* updateStep alone: does its compare-and-swap match, and what it writes.
StepAt(w, rev) ==
  LET row == step[Command(w).view.s] IN row.rev = rev /\ row.state = "ACTION_REQUIRED"

TouchStep(w) ==
  LET s == Command(w).view.s IN
  step' = [step EXCEPT ![s] = [step[s] EXCEPT !.conflict = FALSE, !.rev = @ + 1]]

\* SAFE_COMPENSATE: find, then the durable intent COMPENSATING ...
Intent(w) ==
  LET row == Command(w) IN
  /\ work[w].pc = "intent"
  /\ \/ IF Find(row.view.s, work[w].em) = "FOUND" /\ StepAt(w, row.view.rev)
        THEN TouchStep(w) /\ Goto(w, [work[w] EXCEPT !.pc = "own"])
        ELSE Finishing(w, "REJECTED") /\ UNCHANGED step
     \/ CallFails(w) /\ UNCHANGED step
  /\ UNCHANGED <<req, tenant, ids, receipts, cmd, ext, bounds>>

\* ... compensate looks once more that the organization is ours and empty (a
\* member that is not mapped yet is the REJECTED of CallFails) ...
CheckOwned(w) ==
  /\ work[w].pc = "own"
  /\ \/ IF Find(Command(w).view.s, work[w].em) = "FOUND" /\ mapped = None
        THEN Goto(w, [work[w] EXCEPT !.pc = "delete"]) ELSE Finishing(w, "REJECTED")
     \/ CallFails(w)
  /\ UNCHANGED <<db, cmd, ext, bounds>>

\* ... deletes it ...
Delete(w) ==
  /\ work[w].pc = "delete"
  /\ \/ /\ world' = world \ {Res(Command(w).view.s, None)}
        /\ \/ Goto(w, [work[w] EXCEPT !.pc = "settle"])
           \/ Finishing(w, "REJECTED")
     \/ CallFails(w) /\ UNCHANGED world
  /\ UNCHANGED <<db, cmd, foreign, mapped, posts, bounds>>

\* ... and records COMPENSATED.
Compensated(w) ==
  /\ work[w].pc = "settle"
  /\ IF StepAt(w, Command(w).view.rev + 1)
     THEN TouchStep(w) /\ Finishing(w, "SUCCEEDED")
     ELSE Finishing(w, "REJECTED") /\ UNCHANGED step
  /\ UNCHANGED <<req, tenant, ids, receipts, cmd, ext, bounds>>

\* A transient failure of the last try is final.
Verdict(mine) == IF mine.out = "LATER" /\ mine.at >= MaxRuns THEN "REJECTED" ELSE mine.out

\* finish, or the release of the lease for a later try.
FinishCommand(w) ==
  LET mine == work[w]
      row  == Command(w)
      out  == Verdict(mine)
  IN
  /\ mine.pc = "finish"
  /\ cmd' = IF row.owner # w \/ row.attempt # mine.at \/ out = "LATER" THEN cmd
            ELSE [cmd EXCEPT ![mine.c] = [row EXCEPT !.state = out, !.owner = None,
                                                      !.lapsed = FALSE]]
  /\ Goto(w, Idle)
  /\ UNCHANGED <<db, ext, bounds>>
-----------------------------------------------------------------------------
\* Faults

\* A worker dies, or a database error ends its round; a creation it had sent
\* may still arrive.
Crash(w) ==
  LET mine == work[w] IN
  /\ mine.pc # "idle" /\ faults < MaxFaults
  /\ faults' = faults + 1
  /\ posts' = IF mine.pc = "execute"
              THEN posts \cup UNION {a.made : a \in ExecuteAnswers(mine.s, mine.em)}
              ELSE posts
  /\ Goto(w, Idle)
  /\ UNCHANGED <<db, cmd, world, foreign, mapped, edits, beats>>

\* A creation that nobody waits for arrives.  With the identity the mapping of
\* the users row may come as late: the timeout does not abort that update.
Land(r) ==
  /\ r \in posts
  /\ posts' = posts \ {r}
  /\ world' = world \cup {r}
  /\ mapped' \in {mapped} \cup
       {e \in Emails : r = Res(Admin, e) /\ mapped = None /\ tenant = "PROVISIONING"}
  /\ UNCHANGED <<db, cmd, foreign, work, bounds>>

\* A live holder keeps its lease alive, unless it stalls.
StepHeld(s) ==
  \E w \in Workers : work[w].pc \in {"find", "execute", "write"} /\ work[w].s = s /\ Holds(w)
CommandHeld(c) ==
  \E w \in Workers : work[w].c = c /\ work[w].at = cmd[c].attempt

Stalled(held) == IF held THEN faults < MaxFaults /\ faults' = faults + 1
                         ELSE UNCHANGED faults

StepLeaseLapses(s) ==
  /\ step[s].owner # None /\ ~step[s].lapsed
  /\ Stalled(StepHeld(s))
  /\ step' = [step EXCEPT ![s].lapsed = TRUE]
  /\ UNCHANGED <<req, tenant, ids, receipts, cmd, ext, work, edits, beats>>

CommandLeaseLapses(c) ==
  /\ cmd[c].state = "RUNNING" /\ ~cmd[c].lapsed
  /\ Stalled(CommandHeld(c))
  /\ cmd' = [cmd EXCEPT ![c].lapsed = TRUE]
  /\ UNCHANGED <<db, ext, work, edits, beats>>

-----------------------------------------------------------------------------
SagaStep(w) ==
  \/ ReadSteps(w) \/ Claim(w) \/ FindStep(w) \/ Execute(w) \/ WriteOutcome(w) \/ Finalize(w)
CommandStep(w) ==
  \/ Evaluate(w) \/ MarkFailedFinal(w) \/ RetryStep(w) \/ AdoptFind(w) \/ Adopt(w)
  \/ Intent(w) \/ CheckOwned(w) \/ Delete(w) \/ Compensated(w) \/ FinishCommand(w)

Next ==
  \/ \E w \in Workers :
       \/ ReadRequest(w) \/ SagaStep(w) \/ Heartbeat(w) \/ Crash(w)
       \/ \E c \in Commands : ClaimCommand(w, c)
       \/ CommandStep(w)
  \/ EditField \/ \E e \in Emails : ChangeEmail(e)
  \/ \E c \in Commands, a \in RecoveryActions : Submit(c, a)
  \/ \E r \in Resources : Land(r)
  \/ \E s \in Steps : StepLeaseLapses(s)
  \/ \E c \in Commands : CommandLeaseLapses(c)

\* tick runs the saga and then the command worker in every round, so neither
\* is passed over forever; a lease always lapses unless it is renewed.
Fairness ==
  /\ \A w \in Workers :
       /\ WF_vars(SagaStep(w) \/ CommandStep(w))
       /\ SF_vars(ReadRequest(w))
       /\ SF_vars(\E c \in Commands : ClaimCommand(w, c))
  /\ \A s \in Steps : WF_vars(StepLeaseLapses(s))
  /\ \A c \in Commands : WF_vars(CommandLeaseLapses(c))

Spec == Init /\ [][Next]_vars /\ Fairness

-----------------------------------------------------------------------------
\* Properties

RequestStatuses ==
  {"PENDING", "RUNNING", "SUCCEEDED", "ACTION_REQUIRED", "FAILED_FINAL"}
StepStates == {"PENDING", "RUNNING", "SUCCEEDED", "ACTION_REQUIRED"}
Views == {None} \cup [s : Steps, attempt : Nat, rev : Nat, finding : Findings \cup {None}]
PCs == {"idle", "request", "claim", "find", "execute", "write", "finalize", "evaluate",
        "mark", "retry", "adopt", "commit", "intent", "own", "delete", "settle", "finish"}

\* Every row and every worker is in one of the states the code knows, and a
\* step is leased exactly while it is RUNNING.
STypeOK ==
  /\ req \in [status : RequestStatuses, rev : Nat, email : Emails]
  /\ tenant \in {"PROVISIONING", "ACTIVE"}
  /\ ids \in [Emails -> ReservationStates]
  /\ step \in [Steps -> [state : StepStates, attempt : Nat, floor : Nat, rev : Nat,
                         owner : Workers \cup {None}, lapsed : BOOLEAN, conflict : BOOLEAN]]
  /\ \A s \in Steps : step[s].state = "RUNNING" <=> step[s].owner # None
  /\ receipts \subseteq [step : Steps, attempt : Nat, outcome : {"SUCCEEDED", "ACTION_REQUIRED"}]
  /\ cmd \in [Commands -> [state : {"NONE", "QUEUED", "RUNNING", "SUCCEEDED", "REJECTED"},
                           action : RecoveryActions \cup {None}, erev : Nat, view : Views,
                           attempt : Nat, owner : Workers \cup {None}, lapsed : BOOLEAN]]
  /\ world \subseteq Resources /\ foreign \subseteq Resources /\ posts \subseteq Resources
  /\ mapped \in Emails \cup {None}
  /\ work \in [Workers ->
                 [pc : PCs, st : RequestStatuses \cup {None}, rr : Nat, em : Emails \cup {None},
                  s : Nat, at : Nat, fl : Nat, sr : Nat,
                  out : Outcomes \cup {"LATER", "SUCCEEDED", "REJECTED", None},
                  c : Commands \cup {None}]]
  /\ faults \in Nat /\ edits \in Nat /\ beats \in Nat

Finished(s, a) == \E r \in receipts : r.step = s /\ r.attempt = a

\* The append-only receipts tell the same story as the steps' rows: a step has
\* succeeded exactly when its current attempt has the receipt, an escalated one
\* has the receipt of its escalation, an attempt under way has none, no receipt
\* is from an attempt that was never made, and no attempt has two (the unique
\* index would otherwise refuse the second writer's whole transaction).
ReceiptsMatch ==
  /\ \A s \in Steps :
       /\ step[s].state = "SUCCEEDED" <=> \E r \in receipts : r.step = s /\ r.outcome = "SUCCEEDED"
       /\ step[s].state = "SUCCEEDED" =>
            Receipt(s, step[s].attempt, "SUCCEEDED") \in receipts
       /\ step[s].state = "ACTION_REQUIRED" =>
            Receipt(s, step[s].attempt, "ACTION_REQUIRED") \in receipts
       /\ step[s].state = "RUNNING" => ~Finished(s, step[s].attempt)
  /\ \A r \in receipts : r.attempt \in 1..step[r.step].attempt
  /\ \A q, r \in receipts : q.step = r.step /\ q.attempt = r.attempt => q = r

\* The saga skips no step: whatever a worker last read and however long ago, a
\* step is attempted only after all earlier ones succeeded for good.
InOrder ==
  \A s \in Steps : step[s].attempt > 0 => \A t \in 1..(s - 1) : step[t].state = "SUCCEEDED"

\* The address of the request is reserved for it as long as it is open and for
\* ever once the tenant is active, and a request holds one address at most;
\* a request that failed for good holds none.
IdentityHeld ==
  LET held == {e \in Emails : ids[e] \in {"HELD", "CONSUMED"}} IN
  /\ held = IF req.status = "FAILED_FINAL" THEN {} ELSE {req.email}
  /\ \A e \in held : ids[e] = "CONSUMED" <=> tenant = "ACTIVE"

\* A tenant that was activated has its organization and a first admin whose
\* identity exists and is the one the users row points at, unless a recovery
\* command was taken over from a worker that may still be running it.
ActiveUsable ==
  tenant = "ACTIVE" /\ (\A c \in Commands : cmd[c].attempt <= 1) =>
    /\ Res(Org, None) \in world
    /\ mapped # None /\ Res(Admin, mapped) \in world

\* escalate: a step that waits for the operator shows on its request, or the
\* operator has no command for it.
EscalationVisible ==
  (\E s \in Steps : step[s].state = "ACTION_REQUIRED") =>
    req.status \in {"ACTION_REQUIRED", "FAILED_FINAL"}

\* The address can be changed only while there is no external identity, so the
\* first admin is the person the request names.
AdminAsRequested == step[Admin].state = "SUCCEEDED" => mapped = req.email

\* Only the attempt the row names may end that attempt: a worker whose lease
\* was taken over, or whose step an operator moved, never overwrites it.
OutcomeByClaimant ==
  [][\A s \in Steps :
       step[s].state = "RUNNING" /\ step'[s].state # "RUNNING" =>
         \E w \in Workers : /\ work[w].pc = "write" /\ work[w].s = s
                            /\ work[w].at = step[s].attempt]_vars

\* A running request is always decided: activated, or handed to the operator,
\* whatever worker dies or stalls on the way.
RunningDecided == req.status = "RUNNING" ~> req.status \in {"SUCCEEDED", "ACTION_REQUIRED"}

\* Every submitted command ends, so the next one can be submitted.
CommandsEnd == \A c \in Commands : cmd[c].state = "QUEUED" ~> cmd[c].state \in {"SUCCEEDED", "REJECTED"}

=============================================================================
