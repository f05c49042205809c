----------------------- MODULE ProvisioningSagaProofs -----------------------
(***************************************************************************)
(* Theorems about ProvisioningSaga, for every value of its constants.      *)
(***************************************************************************)
EXTENDS ProvisioningSaga, WellFoundedInduction, TLAPS

-----------------------------------------------------------------------------
(* The inductive invariant *)

StepRow == [state : StepStates, attempt : Nat, floor : Nat, rev : Nat,
            owner : Workers \cup {None}, lapsed : BOOLEAN, conflict : BOOLEAN]
ReceiptRow == [step : Steps, attempt : Nat, outcome : {"SUCCEEDED", "ACTION_REQUIRED"}]
ViewRow == [s : Steps, attempt : Nat, rev : Nat, finding : Findings \cup {None}]
CommandRow == [state : {"NONE", "QUEUED", "RUNNING", "SUCCEEDED", "REJECTED"},
               action : RecoveryActions \cup {None}, erev : Nat, view : Views,
               attempt : Nat, owner : Workers \cup {None}, lapsed : BOOLEAN]
WorkerRow == [pc : PCs, st : RequestStatuses \cup {None}, rr : Nat, em : Emails \cup {None},
              s : Nat, at : Nat, fl : Nat, sr : Nat,
              out : Outcomes \cup {"LATER", "SUCCEEDED", "REJECTED", None},
              c : Commands \cup {None}]

ClaimedPCs == {"find", "execute", "write"}
CompensatingPCs == {"own", "delete", "settle"}
ViewPCs == {"retry", "adopt", "commit", "intent"} \cup CompensatingPCs
CommandPCs == {"evaluate", "mark", "finish"} \cup ViewPCs

\* The type invariant, one part for each group of variables.
RequestTyped ==
  /\ req \in [status : RequestStatuses, rev : Nat, email : Emails]
  /\ tenant \in {"PROVISIONING", "ACTIVE"}
  /\ ids \in [Emails -> ReservationStates]
StepTyped ==
  /\ step \in [Steps -> StepRow]
  /\ \A s \in Steps : step[s].state = "RUNNING" <=> step[s].owner # None
ReceiptTyped == receipts \subseteq ReceiptRow
CommandTyped ==
  /\ cmd \in [Commands -> CommandRow]
  /\ \A c \in Commands : cmd[c].state # "NONE" => cmd[c].action \in RecoveryActions
ExternalTyped ==
  /\ world \subseteq Resources /\ foreign \subseteq Resources /\ posts \subseteq Resources
  /\ mapped \in Emails \cup {None}
BoundsTyped == faults \in Nat /\ edits \in Nat /\ beats \in Nat

\* What a worker with record m has in hand at each point of its round ...
Knows(m) ==
  /\ m \in WorkerRow
  /\ m.pc = "request" => m.em \in Emails
  /\ m.pc \in {"claim"} \cup ClaimedPCs =>
       m.s \in Steps /\ m.at >= 1 /\ (m.s = Admin => m.em \in Emails)
  /\ m.pc = "write" => m.out \in Outcomes
  /\ m.pc \in CommandPCs => m.c \in Commands
  /\ m.pc \in ViewPCs => m.em \in Emails
  /\ m.pc = "finish" => m.out \in {"LATER", "SUCCEEDED", "REJECTED"}

\* ... and of the command it runs, among the command rows cm.
Runs(m, cm) ==
  /\ m.pc \in CommandPCs => cm[m.c].state # "NONE"
  /\ m.pc \in ViewPCs => cm[m.c].view # None
  /\ m.pc \in {"intent"} \cup CompensatingPCs => cm[m.c].view.s = Org

WorkTyped ==
  /\ work \in [Workers -> WorkerRow]
  /\ \A w \in Workers : Knows(work[w]) /\ Runs(work[w], cmd)

TypeInv ==
  /\ RequestTyped /\ StepTyped /\ ReceiptTyped /\ CommandTyped
  /\ ExternalTyped /\ BoundsTyped /\ WorkTyped

\* What a worker remembers of the step rows st is true of them as long as the
\* revision it remembers is the row's.
Remembers(m, st) ==
  /\ m.pc \in {"claim"} \cup ClaimedPCs => m.sr <= st[m.s].rev
  /\ m.pc = "claim" =>
       /\ st[m.s].rev = m.sr => m.at = st[m.s].attempt + 1
       /\ \A t \in 1..(m.s - 1) : st[t].state = "SUCCEEDED"
  /\ m.pc \in ClaimedPCs => (st[m.s].rev = m.sr => m.at = st[m.s].attempt)
  /\ m.pc = "finalize" => \A t \in Steps : st[t].state = "SUCCEEDED"

\* So is what the preview of a command showed.
Previewed(row, st) ==
  row.view # None =>
    /\ row.view.rev <= st[row.view.s].rev
    /\ row.view.rev = st[row.view.s].rev => row.view.attempt = st[row.view.s].attempt

\* Steps, receipts, and what workers and commands remember of them.
StepInv ==
  /\ ReceiptsMatch /\ InOrder
  /\ \A w \in Workers : Remembers(work[w], step)
  /\ \A c \in Commands : Previewed(cmd[c], step)

\* The request's status, the tenant and the reservations move together.
RequestInv ==
  /\ tenant = "ACTIVE" <=> req.status = "SUCCEEDED"
  /\ tenant = "ACTIVE" => \A s \in Steps : step[s].state = "SUCCEEDED"
  /\ IdentityHeld

\* The first admin is there for good once somebody is about to say so.
HasAdmin(wo, mp) == mp # None /\ Res(Admin, mp) \in wo
SawAdmin(m, cm) ==
  \/ m.pc = "write" /\ m.out = "DONE" /\ m.s = Admin
  \/ m.pc = "commit" /\ cm[m.c].view.s = Admin
AdminInv ==
  /\ step[Admin].state = "SUCCEEDED" => HasAdmin(world, mapped)
  /\ \A w \in Workers : SawAdmin(work[w], cmd) => HasAdmin(world, mapped)

\* One command is unfinished at most, and one that runs was claimed.
CommandInv ==
  /\ \A c, d \in Commands :
       cmd[c].state \in {"QUEUED", "RUNNING"} /\ cmd[d].state \in {"QUEUED", "RUNNING"} => c = d
  /\ \A c \in Commands : cmd[c].state = "RUNNING" => cmd[c].attempt >= 1

\* No command was taken over: whoever runs one is its owner, the compensation
\* finds its step waiting for the operator all along, and the organization is
\* there for whoever is about to say so.
Once(cm) == \A c \in Commands : cm[c].attempt <= 1
SawOrg(w, m, st, cm) ==
  \/ m.pc = "write" /\ m.out = "DONE" /\ m.s = Org /\ st[Org].owner = w /\ st[Org].rev = m.sr
  \/ m.pc = "commit" /\ cm[m.c].view.s = Org
Alone(w, m, st, cm) ==
  /\ m.pc \in CommandPCs => cm[m.c].state = "RUNNING" /\ cm[m.c].owner = w
  /\ m.pc \in CompensatingPCs => st[Org].state = "ACTION_REQUIRED"
OrgInv ==
  Once(cmd) =>
    /\ \A w \in Workers : Alone(w, work[w], step, cmd)
    /\ \A w \in Workers : SawOrg(w, work[w], step, cmd) => Res(Org, None) \in world
    /\ step[Org].state = "SUCCEEDED" => Res(Org, None) \in world

SagaInv == TypeInv /\ StepInv /\ RequestInv /\ AdminInv /\ CommandInv /\ OrgInv

-----------------------------------------------------------------------------
(* The operators of the model *)

\* The parts are the type invariant.
LEMMA TypeParts ==
  ASSUME TypeInv PROVE STypeOK
BY DEF TypeInv, STypeOK, RequestTyped, StepTyped, ReceiptTyped, CommandTyped, ExternalTyped,
  BoundsTyped, WorkTyped, StepRow, ReceiptRow, CommandRow, WorkerRow

\* A nonempty set of naturals has a least member.
LEMMA LeastNatural ==
  ASSUME NEW T \in SUBSET Nat, T # {}
  PROVE  \E x \in T : \A y \in T : x <= y
<1> DEFINE Less == {ss \in Nat \X Nat : ss[1] < ss[2]}
<1>0. IsWellFoundedOn(Less, Nat) BY NatLessThanWellFounded, Zenon DEF OpToRel
<1> HIDE DEF Less
<1>1. PICK x \in T : \A y \in T : ~ (<<y, x>> \in Less) BY <1>0, WFMin, Zenon
<1>2. ASSUME NEW y \in T PROVE x <= y
  <2>1. ~(y < x) BY <1>1, <1>2 DEF Less
  <2>2. QED BY <2>1
<1>3. QED BY <1>2

\* currentStep: the step it names has not succeeded, all earlier ones have.
LEMMA CurrentFirst ==
  ASSUME Last \in Nat, Unfinished # {}
  PROVE  /\ Current \in Steps /\ step[Current].state # "SUCCEEDED"
         /\ \A t \in 1..(Current - 1) : step[t].state = "SUCCEEDED"
<1>1. Unfinished \subseteq Nat BY DEF Unfinished, Steps
<1>2. PICK x \in Unfinished : \A y \in Unfinished : x <= y BY <1>1, LeastNatural
<1>3. Current \in Unfinished /\ \A y \in Unfinished : Current <= y BY <1>2 DEF Current
<1>4. Current \in Steps /\ step[Current].state # "SUCCEEDED" BY <1>3 DEF Unfinished
<1>5. ASSUME NEW t \in 1..(Current - 1) PROVE step[t].state = "SUCCEEDED"
  <2>1. t \in Steps /\ ~(Current <= t) BY <1>4, <1>5 DEF Steps
  <2>2. QED BY <1>3, <2>1 DEF Unfinished
<1>6. QED BY <1>4, <1>5

\* What a step creates is a resource.
LEMMA ResourceOf ==
  ASSUME NEW s \in Steps, NEW e, Emails # {}, s = Admin => e \in Emails
  PROVE  Res(s, e) \in Resources
<1>1. PICK x \in Emails : TRUE OBVIOUS
<1>2. CASE s = Admin BY <1>2 DEF Resources
<1>3. CASE s # Admin
  <2>1. Res(s, e) = Res(s, x) BY <1>3 DEF Res
  <2>2. QED BY <2>1 DEF Resources
<1>4. QED BY <1>2, <1>3

LEMMA FindIsFinding ==
  ASSUME NEW s, NEW e PROVE Find(s, e) \in Findings
BY DEF Find, Findings

\* find says FOUND of what is there, of an identity only if it is mapped.
LEMMA FoundIsThere ==
  ASSUME NEW s, NEW e, Find(s, e) = "FOUND"
  PROVE  Res(s, e) \in world /\ (s = Admin => mapped = e)
BY DEF Find

\* The identities of the first admin are not the organization.
LEMMA AdminIsNotOrg ==
  ASSUME NEW e, NEW f PROVE Res(Admin, e) # Res(Org, f)
BY SagaConstants DEF Res, Steps

\* execute creates the resource of its step and nothing else, never points the
\* users row at another identity, and says DONE of what it has created.
LEMMA ExecuteCreates ==
  ASSUME NEW s \in Steps, NEW e, NEW a \in ExecuteAnswers(s, e)
  PROVE  /\ a.made \subseteq {Res(s, e)}
         /\ a.out \in Outcomes
         /\ a.map = mapped \/ (s = Admin /\ a.map = e /\ mapped \in {None, e})
         /\ a.out = "DONE" /\ s = Admin => a.map = e /\ a.made = {Res(s, e)}
         /\ a.out = "DONE" /\ s = Org => a.made = {Res(s, e)}
<1>1. CASE a \in {Answer({}, mapped, "RETRY"), Answer({}, mapped, "ESCALATE")}
  BY <1>1 DEF Answer, Outcomes
<1>2. CASE s = Last /\ a \in ReadyAnswers(e)
  BY <1>2, SagaConstants DEF ReadyAnswers, Answer, Outcomes, Steps
<1>3. CASE s = Admin /\ s # Last /\ a \in AdminAnswers(e)
  BY <1>3, SagaConstants DEF AdminAnswers, Answer, Outcomes, Steps
<1>4. CASE s # Admin /\ s # Last /\ a \in CreateAnswers(s, e)
  BY <1>4 DEF CreateAnswers, Answer, Outcomes
<1>5. CASE s = Last
  <2>1. a \in {Answer({}, mapped, "RETRY"), Answer({}, mapped, "ESCALATE")} \cup ReadyAnswers(e)
    <3>1. s # Admin BY <1>5, SagaConstants DEF Steps
    <3>2. QED BY <1>5, <3>1, Zenon DEF ExecuteAnswers
  <2>2. QED BY <2>1, <1>1, <1>2, <1>5
<1>6. CASE s # Last /\ s = Admin
  <2>1. a \in {Answer({}, mapped, "RETRY"), Answer({}, mapped, "ESCALATE")} \cup AdminAnswers(e)
    BY <1>6, Zenon DEF ExecuteAnswers
  <2>2. QED BY <2>1, <1>1, <1>3, <1>6
<1>7. CASE s # Last /\ s # Admin
  <2>1. a \in {Answer({}, mapped, "RETRY"), Answer({}, mapped, "ESCALATE")}
                \cup CreateAnswers(s, e)
    BY <1>7, Zenon DEF ExecuteAnswers
  <2>2. QED BY <2>1, <1>1, <1>4, <1>7
<1>8. QED BY <1>5, <1>6, <1>7

-----------------------------------------------------------------------------
(* What a step leaves alone *)

\* Only worker w's record changes.
Only(w) == work' = [work EXCEPT ![w] = work'[w]]

\* Only the row of step t changes.
OnlyStep(t) == step' = [step EXCEPT ![t] = step'[t]]

\* Only the row of command d changes.
OnlyCommand(d) == cmd' = [cmd EXCEPT ![d] = cmd'[d]]

\* A submitted command keeps its preview.
KeepsCommands ==
  \A c \in Commands :
    cmd[c].state # "NONE" =>
      /\ cmd'[c].state # "NONE" /\ cmd'[c].view = cmd[c].view
      /\ cmd'[c].attempt >= cmd[c].attempt

LEMMA FrameTyped ==
  /\ RequestTyped /\ UNCHANGED <<req, tenant, ids>> => RequestTyped'
  /\ StepTyped /\ UNCHANGED step => StepTyped'
  /\ ReceiptTyped /\ UNCHANGED receipts => ReceiptTyped'
  /\ CommandTyped /\ UNCHANGED cmd => CommandTyped' /\ KeepsCommands
  /\ ExternalTyped /\ UNCHANGED <<world, foreign, mapped, posts>> => ExternalTyped'
  /\ BoundsTyped /\ UNCHANGED <<faults, edits, beats>> => BoundsTyped'
<1>1. CommandTyped /\ UNCHANGED cmd => CommandTyped' /\ KeepsCommands
  BY DEF CommandTyped, CommandRow, KeepsCommands
<1>2. QED BY <1>1 DEF RequestTyped, StepTyped, ReceiptTyped, ExternalTyped, BoundsTyped

\* The other workers keep what they know, and so does the one that moved if
\* its new record is sound.
LEMMA OnlyTyped ==
  ASSUME WorkTyped, NEW w \in Workers, Only(w), KeepsCommands,
         Knows(work'[w]), Runs(work'[w], cmd')
  PROVE  WorkTyped'
<1>1. work' \in [Workers -> WorkerRow] BY DEF WorkTyped, Only, Knows
<1>2. ASSUME NEW u \in Workers, u # w PROVE Knows(work'[u]) /\ Runs(work'[u], cmd')
  <2>1. work'[u] = work[u] BY <1>2 DEF Only, WorkTyped
  <2>2. Knows(work[u]) /\ Runs(work[u], cmd) BY DEF WorkTyped
  <2>3. Runs(work[u], cmd') BY <2>2 DEF Runs, Knows, KeepsCommands, ViewPCs, CommandPCs, CompensatingPCs
  <2>4. QED BY <2>1, <2>2, <2>3
<1>3. \A u \in Workers : Knows(work'[u]) /\ Runs(work'[u], cmd') BY <1>2
<1>4. QED BY <1>1, <1>3 DEF WorkTyped

LEMMA OnlyStepTyped ==
  ASSUME StepTyped, NEW t \in Steps, OnlyStep(t), step'[t] \in StepRow,
         step'[t].state = "RUNNING" <=> step'[t].owner # None
  PROVE  StepTyped'
<1>1. step' \in [Steps -> StepRow] BY DEF StepTyped, OnlyStep
<1>2. \A s \in Steps \ {t} : step'[s] = step[s] BY DEF StepTyped, OnlyStep
<1>3. QED BY <1>1, <1>2 DEF StepTyped

LEMMA OnlyCommandTyped ==
  ASSUME CommandTyped, NEW d \in Commands, OnlyCommand(d), cmd'[d] \in CommandRow,
         cmd'[d].state # "NONE" => cmd'[d].action \in RecoveryActions
  PROVE  CommandTyped' /\ \A c \in Commands \ {d} : cmd'[c] = cmd[c]
<1>1. cmd' \in [Commands -> CommandRow] BY DEF CommandTyped, OnlyCommand
<1>2. \A c \in Commands \ {d} : cmd'[c] = cmd[c] BY DEF CommandTyped, OnlyCommand
<1>3. QED BY <1>1, <1>2 DEF CommandTyped

LEMMA StillTyped ==
  ASSUME WorkTyped, UNCHANGED work, KeepsCommands
  PROVE  WorkTyped'
<1>1. ASSUME NEW u \in Workers PROVE Knows(work[u]) /\ Runs(work[u], cmd')
  <2>1. Knows(work[u]) /\ Runs(work[u], cmd) BY DEF WorkTyped
  <2>2. QED BY <2>1 DEF Runs, Knows, KeepsCommands, ViewPCs, CommandPCs, CompensatingPCs
<1>2. QED BY <1>1 DEF WorkTyped

\* The names the type invariant knows.
LEMMA Names ==
  /\ "request" \in PCs /\ "claim" \in PCs /\ "find" \in PCs /\ "execute" \in PCs
  /\ "write" \in PCs /\ "finalize" \in PCs /\ "evaluate" \in PCs /\ "mark" \in PCs
  /\ "retry" \in PCs /\ "adopt" \in PCs /\ "commit" \in PCs /\ "intent" \in PCs
  /\ "own" \in PCs /\ "delete" \in PCs /\ "settle" \in PCs /\ "finish" \in PCs
  /\ "RUNNING" \in StepStates /\ "PENDING" \in StepStates
  /\ "SUCCEEDED" \in StepStates /\ "ACTION_REQUIRED" \in StepStates
  /\ "RUNNING" \in RequestStatuses /\ "SUCCEEDED" \in RequestStatuses
  /\ "ACTION_REQUIRED" \in RequestStatuses /\ "FAILED_FINAL" \in RequestStatuses
BY DEF PCs, StepStates, RequestStatuses

\* A worker that has nothing in hand.
LEMMA IdleTyped ==
  Knows(Idle) /\ \A cm : Runs(Idle, cm)
BY DEF Knows, Runs, Idle, WorkerRow, PCs, CommandPCs, ViewPCs, CompensatingPCs, ClaimedPCs

-----------------------------------------------------------------------------
(* Types: the saga worker *)

LEMMA ReadRequestTyped ==
  ASSUME TypeInv, NEW w \in Workers, ReadRequest(w)
  PROVE  TypeInv' /\ Only(w)
<1>1. /\ work'[w] = [Idle EXCEPT !.pc = "request", !.st = req.status, !.rr = req.rev,
                                !.em = req.email]
      /\ Only(w)
  BY DEF ReadRequest, Goto, Only, TypeInv, WorkTyped
<1>2. Knows(work'[w]) /\ Runs(work'[w], cmd')
  <2>1. req.status \in RequestStatuses /\ req.rev \in Nat /\ req.email \in Emails
    BY DEF TypeInv, RequestTyped
  <2>2. [Idle EXCEPT !.pc = "request", !.st = req.status, !.rr = req.rev, !.em = req.email]
          \in WorkerRow
    BY <2>1 DEF Idle, WorkerRow, PCs
  <2>3. work'[w].pc = "request" /\ work'[w].em \in Emails BY <1>1, <2>1 DEF Idle
  <2>4. QED
    BY <1>1, <2>2, <2>3 DEF Knows, Runs, CommandPCs, ViewPCs, CompensatingPCs, ClaimedPCs
<1>3. KeepsCommands BY FrameTyped DEF ReadRequest, TypeInv
<1>4. WorkTyped' BY <1>1, <1>2, <1>3, OnlyTyped DEF TypeInv
<1>5. QED BY <1>1, <1>4, FrameTyped DEF ReadRequest, db, ext, bounds, TypeInv

LEMMA ReadStepsTyped ==
  ASSUME TypeInv, NEW w \in Workers, ReadSteps(w)
  PROVE  TypeInv' /\ Only(w)
<1>1. Only(w) BY DEF ReadSteps, Goto, Only, TypeInv, WorkTyped
<1>2. work[w] \in WorkerRow /\ work[w].pc = "request" /\ work[w].em \in Emails
  BY DEF ReadSteps, TypeInv, WorkTyped, Knows
<1>3. Knows(work'[w]) /\ Runs(work'[w], cmd')
  <2>1. CASE work'[w] = Idle BY <2>1, IdleTyped
  <2>2. CASE work'[w] = [work[w] EXCEPT !.pc = "finalize"]
    <3>1. work'[w] \in WorkerRow BY <1>2, <2>2 DEF WorkerRow, PCs
    <3>2. work'[w].pc = "finalize" BY <1>2, <2>2 DEF WorkerRow
    <3>3. QED BY <3>1, <3>2 DEF Knows, Runs, CommandPCs, ViewPCs, CompensatingPCs, ClaimedPCs
  <2>3. CASE /\ Unfinished # {}
             /\ work'[w] = [work[w] EXCEPT
                  !.pc = "claim", !.s = Current, !.at = step[Current].attempt + 1,
                  !.fl = step[Current].floor, !.sr = step[Current].rev,
                  !.em = IF Current < Admin THEN None ELSE @]
    <3>1. Current \in Steps BY <2>3, SagaConstants, CurrentFirst
    <3>2. /\ Current \in Nat
          /\ step[Current].attempt \in Nat
          /\ step[Current].floor \in Nat
          /\ step[Current].rev \in Nat
      BY <3>1 DEF Steps, TypeInv, StepTyped, StepRow
    <3>3. (IF Current < Admin THEN None ELSE work[w].em) \in Emails \cup {None} BY <1>2
    <3>4. [work[w] EXCEPT
             !.pc = "claim", !.s = Current, !.at = step[Current].attempt + 1,
             !.fl = step[Current].floor, !.sr = step[Current].rev,
             !.em = IF Current < Admin THEN None ELSE @] \in WorkerRow
      <4>1. step[Current].attempt + 1 \in Nat BY <3>2
      <4>2. QED BY <1>2, <3>2, <3>3, <4>1, Names DEF WorkerRow
    <3>5. /\ work'[w].pc = "claim" /\ work'[w].s = Current
          /\ work'[w].at = step[Current].attempt + 1
          /\ work'[w].em = IF Current < Admin THEN None ELSE work[w].em
      BY <1>2, <2>3 DEF WorkerRow
    <3>6. Current = Admin => work'[w].em \in Emails BY <1>2, <3>1, <3>5, SagaConstants DEF Steps
    <3>7. QED
      BY <2>3, <3>1, <3>2, <3>4, <3>5, <3>6
      DEF Knows, Runs, CommandPCs, ViewPCs, CompensatingPCs, ClaimedPCs
  <2>4. QED BY <2>1, <2>2, <2>3 DEF ReadSteps, Goto, TypeInv, WorkTyped
<1>4. KeepsCommands BY FrameTyped DEF ReadSteps, TypeInv
<1>5. WorkTyped' BY <1>1, <1>3, <1>4, OnlyTyped DEF TypeInv
<1>6. QED BY <1>1, <1>5, FrameTyped DEF ReadSteps, db, ext, bounds, TypeInv

LEMMA ClaimTyped ==
  ASSUME TypeInv, NEW w \in Workers, Claim(w)
  PROVE  TypeInv' /\ Only(w)
<1>1. Only(w) BY DEF Claim, Goto, Only, TypeInv, WorkTyped
<1>2. /\ work[w] \in WorkerRow /\ work[w].pc = "claim"
      /\ work[w].s \in Steps /\ work[w].at >= 1 /\ (work[w].s = Admin => work[w].em \in Emails)
      /\ work[w].at \in Nat /\ work[w].sr \in Nat
  BY DEF Claim, TypeInv, WorkTyped, Knows, WorkerRow
<1>3. Knows(work'[w]) /\ Runs(work'[w], cmd')
  <2>1. CASE work'[w] = Idle BY <2>1, IdleTyped
  <2>2. CASE work'[w] = [work[w] EXCEPT !.pc = "find", !.sr = @ + 1, !.st = None, !.rr = 0]
    <3>1. [work[w] EXCEPT !.pc = "find", !.sr = @ + 1, !.st = None, !.rr = 0] \in WorkerRow
      <4>1. work[w].sr + 1 \in Nat BY <1>2
      <4>2. QED BY <1>2, <4>1, Names DEF WorkerRow
    <3>2. /\ work'[w].pc = "find" /\ work'[w].s = work[w].s /\ work'[w].at = work[w].at
          /\ work'[w].em = work[w].em
      BY <1>2, <2>2 DEF WorkerRow
    <3>3. QED
      BY <1>2, <2>2, <3>1, <3>2 DEF Knows, Runs, CommandPCs, ViewPCs, CompensatingPCs, ClaimedPCs
  <2>3. QED BY <2>1, <2>2 DEF Claim, Goto, TypeInv, WorkTyped
<1>4. StepTyped'
  <2>1. CASE UNCHANGED step BY <2>1, FrameTyped DEF TypeInv
  <2>2. CASE step' = [step EXCEPT ![work[w].s] =
                        [step[work[w].s] EXCEPT
                           !.state = "RUNNING", !.attempt = work[w].at, !.owner = w,
                           !.lapsed = FALSE, !.rev = @ + 1]]
    <3>1. step[work[w].s] \in StepRow BY <1>2 DEF TypeInv, StepTyped
    <3>2. /\ OnlyStep(work[w].s)
          /\ step'[work[w].s] = [step[work[w].s] EXCEPT
               !.state = "RUNNING", !.attempt = work[w].at, !.owner = w,
               !.lapsed = FALSE, !.rev = @ + 1]
      BY <1>2, <2>2 DEF TypeInv, StepTyped, OnlyStep
    <3>3. step'[work[w].s] \in StepRow
      <4>1. step[work[w].s].rev + 1 \in Nat BY <3>1 DEF StepRow
      <4>2. QED BY <1>2, <3>1, <3>2, <4>1, Names DEF StepRow
    <3>4. step'[work[w].s].state = "RUNNING" /\ step'[work[w].s].owner = w
      BY <3>1, <3>2 DEF StepRow
    <3>5. QED BY <1>2, <3>2, <3>3, <3>4, OnlyStepTyped, SagaConstants DEF TypeInv
  <2>3. QED BY <2>1, <2>2 DEF Claim
<1>5. RequestTyped'
  <2>1. CASE UNCHANGED req BY <2>1, FrameTyped DEF TypeInv, Claim
  <2>2. CASE req' = [req EXCEPT !.status = "RUNNING", !.rev = @ + 1]
    <3>1. req.rev + 1 \in Nat BY DEF TypeInv, RequestTyped
    <3>2. QED BY <2>2, <3>1, Names DEF Claim, TypeInv, RequestTyped
  <2>3. QED BY <2>1, <2>2 DEF Claim
<1>6. KeepsCommands BY FrameTyped DEF Claim, TypeInv
<1>7. WorkTyped' BY <1>1, <1>3, <1>6, OnlyTyped DEF TypeInv
<1>8. QED BY <1>1, <1>4, <1>5, <1>7, FrameTyped DEF Claim, ext, bounds, TypeInv

LEMMA ToWriteTyped ==
  ASSUME NEW m, Knows(m), m.pc \in {"find", "execute"}, NEW o \in Outcomes
  PROVE  /\ Knows([m EXCEPT !.pc = "write", !.out = o])
         /\ \A cm : Runs([m EXCEPT !.pc = "write", !.out = o], cm)
<1> DEFINE n == [m EXCEPT !.pc = "write", !.out = o]
<1>1. m \in WorkerRow BY DEF Knows
<1>2. n \in WorkerRow BY <1>1, Names DEF WorkerRow
<1>3. n.pc = "write" /\ n.out = o /\ n.s = m.s /\ n.at = m.at /\ n.em = m.em
  BY <1>1 DEF WorkerRow
<1> HIDE DEF n
<1>4. Knows(n) BY <1>2, <1>3 DEF Knows, CommandPCs, ViewPCs, CompensatingPCs, ClaimedPCs
<1>5. \A cm : Runs(n, cm) BY <1>3 DEF Runs, CommandPCs, ViewPCs, CompensatingPCs
<1>6. QED BY <1>4, <1>5 DEF n

LEMMA FindStepTyped ==
  ASSUME TypeInv, NEW w \in Workers, FindStep(w)
  PROVE  TypeInv' /\ Only(w)
<1>1. Only(w) BY DEF FindStep, Goto, Only, TypeInv, WorkTyped
<1>2. Knows(work[w]) /\ work[w] \in WorkerRow /\ work[w].pc = "find"
  BY DEF FindStep, TypeInv, WorkTyped
<1>3. Knows(work'[w]) /\ Runs(work'[w], cmd')
  <2>1. CASE work'[w] = [work[w] EXCEPT !.pc = "execute"]
    <3>1. work'[w] \in WorkerRow BY <1>2, <2>1, Names DEF WorkerRow
    <3>2. /\ work'[w].pc = "execute" /\ work'[w].s = work[w].s /\ work'[w].at = work[w].at
          /\ work'[w].em = work[w].em
      BY <1>2, <2>1 DEF WorkerRow
    <3>3. QED
      BY <1>2, <3>1, <3>2 DEF Knows, Runs, CommandPCs, ViewPCs, CompensatingPCs, ClaimedPCs
  <2>2. CASE \E o \in Outcomes : work'[w] = [work[w] EXCEPT !.pc = "write", !.out = o]
    <3>1. PICK o \in Outcomes : work'[w] = [work[w] EXCEPT !.pc = "write", !.out = o] BY <2>2
    <3>2. /\ Knows([work[w] EXCEPT !.pc = "write", !.out = o])
          /\ Runs([work[w] EXCEPT !.pc = "write", !.out = o], cmd')
      BY <1>2, ToWriteTyped
    <3>3. QED BY <3>1, <3>2
  <2>3. \/ work'[w] = [work[w] EXCEPT !.pc = "execute"]
        \/ work'[w] = [work[w] EXCEPT !.pc = "write", !.out = "ESCALATE"]
        \/ work'[w] = [work[w] EXCEPT !.pc = "write", !.out = "RETRY"]
        \/ work'[w] = [work[w] EXCEPT !.pc = "write", !.out = "DONE"]
        \/ work'[w] = [work[w] EXCEPT !.pc = "write", !.out = "CONFLICT"]
    BY DEF FindStep, Goto, TypeInv, WorkTyped
  <2>4. QED BY <2>1, <2>2, <2>3 DEF Outcomes
<1>4. KeepsCommands BY FrameTyped DEF FindStep, TypeInv
<1>5. WorkTyped' BY <1>1, <1>3, <1>4, OnlyTyped DEF TypeInv
<1>6. QED BY <1>1, <1>5, FrameTyped DEF FindStep, db, ext, bounds, TypeInv

LEMMA ExecuteTyped ==
  ASSUME TypeInv, NEW w \in Workers, Execute(w)
  PROVE  TypeInv' /\ Only(w)
<1>1. Only(w) BY DEF Execute, Goto, Only, TypeInv, WorkTyped
<1>2. /\ Knows(work[w]) /\ work[w].pc = "execute" /\ work[w].s \in Steps
      /\ work[w].s = Admin => work[w].em \in Emails
  BY DEF Execute, TypeInv, WorkTyped, Knows, ClaimedPCs
<1>3. PICK a \in ExecuteAnswers(work[w].s, work[w].em) :
        /\ world' = world \cup a.made
        /\ mapped' = a.map
        /\ posts' \in {posts} \cup {posts \cup b.made : b \in ExecuteAnswers(work[w].s, work[w].em)}
        /\ work' = [work EXCEPT ![w] = [work[w] EXCEPT !.pc = "write", !.out = a.out]]
  BY DEF Execute, Goto
<1>4. Res(work[w].s, work[w].em) \in Resources
  <2>1. Emails # {} BY DEF TypeInv, RequestTyped
  <2>2. QED BY <1>2, <2>1, ResourceOf
<1>5. \A b \in ExecuteAnswers(work[w].s, work[w].em) :
        b.made \subseteq Resources /\ b.out \in Outcomes
  BY <1>2, <1>4, ExecuteCreates
<1>6. a.map \in Emails \cup {None} BY <1>2, ExecuteCreates DEF TypeInv, ExternalTyped
<1>7. ExternalTyped'
  <2>1. world' \subseteq Resources BY <1>3, <1>5 DEF TypeInv, ExternalTyped
  <2>2. posts' \subseteq Resources BY <1>3, <1>5 DEF TypeInv, ExternalTyped
  <2>3. QED BY <1>3, <1>6, <2>1, <2>2 DEF TypeInv, ExternalTyped, Execute
<1>8. Knows(work'[w]) /\ Runs(work'[w], cmd')
  <2>1. work'[w] = [work[w] EXCEPT !.pc = "write", !.out = a.out]
    BY <1>3 DEF TypeInv, WorkTyped
  <2>2. /\ Knows([work[w] EXCEPT !.pc = "write", !.out = a.out])
        /\ Runs([work[w] EXCEPT !.pc = "write", !.out = a.out], cmd')
    BY <1>2, <1>5, ToWriteTyped
  <2>3. QED BY <2>1, <2>2
<1>9. KeepsCommands BY FrameTyped DEF Execute, TypeInv
<1>10. WorkTyped' BY <1>1, <1>8, <1>9, OnlyTyped DEF TypeInv
<1>11. QED BY <1>1, <1>7, <1>10, FrameTyped DEF Execute, db, bounds, TypeInv

\* The row b has these columns.
Reads(b, state, attempt, owner, rev) ==
  b \in StepRow /\ b.state = state /\ b.attempt = attempt /\ b.owner = owner /\ b.rev = rev

LEMMA ReleasedRow ==
  ASSUME NEW a \in StepRow, NEW st \in StepStates, NEW k \in BOOLEAN
  PROVE  Reads([a EXCEPT !.state = st, !.owner = None, !.lapsed = FALSE, !.conflict = k,
                         !.rev = @ + 1],
               st, a.attempt, None, a.rev + 1)
<1>1. a.rev + 1 \in Nat BY DEF StepRow
<1>2. QED BY <1>1 DEF StepRow, Reads

LEMMA BeatenRow ==
  ASSUME NEW a \in StepRow
  PROVE  Reads([a EXCEPT !.lapsed = FALSE, !.rev = @ + 1], a.state, a.attempt, a.owner, a.rev + 1)
<1>1. a.rev + 1 \in Nat BY DEF StepRow
<1>2. QED BY <1>1 DEF StepRow, Reads

LEMMA TouchedRow ==
  ASSUME NEW a \in StepRow
  PROVE  Reads([a EXCEPT !.conflict = FALSE, !.rev = @ + 1], a.state, a.attempt, a.owner, a.rev + 1)
<1>1. a.rev + 1 \in Nat BY DEF StepRow
<1>2. QED BY <1>1 DEF StepRow, Reads

LEMMA ReopenedRow ==
  ASSUME NEW a \in StepRow
  PROVE  Reads(Reopened(a), "PENDING", a.attempt, a.owner, a.rev + 1)
<1>1. a.rev + 1 \in Nat /\ a.attempt \in Nat BY DEF StepRow
<1>2. QED BY <1>1, Names DEF StepRow, Reads, Reopened

LEMMA AdoptedRow ==
  ASSUME NEW a \in StepRow, NEW n \in Nat
  PROVE  Reads([a EXCEPT !.state = "SUCCEEDED", !.attempt = n + 1, !.conflict = FALSE,
                         !.rev = @ + 1],
               "SUCCEEDED", n + 1, a.owner, a.rev + 1)
<1>1. a.rev + 1 \in Nat /\ n + 1 \in Nat BY DEF StepRow
<1>2. QED BY <1>1, Names DEF StepRow, Reads

LEMMA LapsedRow ==
  ASSUME NEW a \in StepRow
  PROVE  Reads([a EXCEPT !.lapsed = TRUE], a.state, a.attempt, a.owner, a.rev)
BY DEF StepRow, Reads

LEMMA HeartbeatTyped ==
  ASSUME TypeInv, NEW w \in Workers, Heartbeat(w)
  PROVE  /\ TypeInv' /\ Only(w)
         /\ OnlyStep(work[w].s)
         /\ Reads(step'[work[w].s], step[work[w].s].state, step[work[w].s].attempt,
                  step[work[w].s].owner, step[work[w].s].rev + 1)
         /\ \/ work'[w] = work[w]
            \/ work'[w] = [work[w] EXCEPT !.sr = @ + 1]
<1>1. /\ Knows(work[w]) /\ Runs(work[w], cmd) /\ work[w].pc \in {"find", "execute"}
      /\ work[w] \in WorkerRow /\ work[w].s \in Steps /\ work[w].sr \in Nat
  BY DEF Heartbeat, TypeInv, WorkTyped, Knows, ClaimedPCs, WorkerRow
<1>2. /\ Only(w)
      /\ work'[w] = work[w] \/ work'[w] = [work[w] EXCEPT !.sr = @ + 1]
  BY DEF Heartbeat, Goto, Only, TypeInv, WorkTyped
<1>3. step[work[w].s] \in StepRow BY <1>1 DEF TypeInv, StepTyped
<1>4. /\ OnlyStep(work[w].s)
      /\ step'[work[w].s] = [step[work[w].s] EXCEPT !.lapsed = FALSE, !.rev = @ + 1]
  BY <1>1 DEF Heartbeat, TypeInv, StepTyped, OnlyStep
<1>5. Reads(step'[work[w].s], step[work[w].s].state, step[work[w].s].attempt,
                  step[work[w].s].owner, step[work[w].s].rev + 1)
  BY <1>3, <1>4, BeatenRow
<1>6. StepTyped' BY <1>1, <1>4, <1>5, OnlyStepTyped DEF TypeInv, StepTyped, Reads
<1>7. Knows(work'[w]) /\ Runs(work'[w], cmd')
  <2>1. CASE work'[w] = work[w] BY <1>1, <2>1 DEF Heartbeat
  <2>2. CASE work'[w] = [work[w] EXCEPT !.sr = @ + 1]
    <3>1. work[w].sr + 1 \in Nat BY <1>1
    <3>2. work'[w] \in WorkerRow BY <1>1, <2>2, <3>1 DEF WorkerRow
    <3>3. /\ work'[w].pc = work[w].pc /\ work'[w].s = work[w].s /\ work'[w].at = work[w].at
          /\ work'[w].em = work[w].em
      BY <1>1, <2>2 DEF WorkerRow
    <3>4. QED
      BY <1>1, <3>2, <3>3 DEF Knows, Runs, CommandPCs, ViewPCs, CompensatingPCs, ClaimedPCs
  <2>3. QED BY <1>2, <2>1, <2>2
<1>8. KeepsCommands BY FrameTyped DEF Heartbeat, TypeInv
<1>9. WorkTyped' BY <1>2, <1>7, <1>8, OnlyTyped DEF TypeInv
<1>10. BoundsTyped' BY DEF Heartbeat, TypeInv, BoundsTyped
<1>11. QED BY <1>2, <1>4, <1>5, <1>6, <1>9, <1>10, FrameTyped DEF Heartbeat, ext, TypeInv

\* What WriteOutcome does when the worker still holds the lease.
Outcome(w, st) ==
  /\ Holds(w) /\ work[w].s \in Steps
  /\ OnlyStep(work[w].s)
  /\ Reads(step'[work[w].s], st, step[work[w].s].attempt, None, step[work[w].s].rev + 1)
Written(w) ==
  \/ /\ Outcome(w, "SUCCEEDED") /\ work[w].out = "DONE"
     /\ receipts' = receipts \cup {Receipt(work[w].s, work[w].at, "SUCCEEDED")}
     /\ UNCHANGED req
  \/ Outcome(w, "PENDING") /\ UNCHANGED <<req, receipts>>
  \/ /\ Outcome(w, "ACTION_REQUIRED")
     /\ receipts' = receipts \cup {Receipt(work[w].s, work[w].at, "ACTION_REQUIRED")}
     /\ \/ UNCHANGED req
        \/ /\ req.status = "RUNNING"
           /\ req' = [req EXCEPT !.status = "ACTION_REQUIRED", !.rev = @ + 1]

LEMMA WriteOutcomeTyped ==
  ASSUME TypeInv, NEW w \in Workers, WriteOutcome(w)
  PROVE  /\ TypeInv' /\ Only(w) /\ work'[w] = Idle
         /\ Written(w) \/ UNCHANGED <<req, step, receipts>>
<1>1. /\ work[w] \in WorkerRow /\ work[w].s \in Steps /\ work[w].at \in Nat
      /\ step[work[w].s] \in StepRow
  BY DEF WriteOutcome, TypeInv, WorkTyped, Knows, ClaimedPCs, WorkerRow, StepTyped
<1>2. Only(w) /\ work'[w] = Idle
  BY DEF WriteOutcome, Goto, Only, TypeInv, WorkTyped
<1>3. ASSUME NEW st \in StepStates, NEW k \in BOOLEAN, Release(work[w].s, st, k)
      PROVE  /\ OnlyStep(work[w].s)
             /\ Reads(step'[work[w].s], st, step[work[w].s].attempt, None,
                      step[work[w].s].rev + 1)
  <2>1. /\ OnlyStep(work[w].s)
        /\ step'[work[w].s] = [step[work[w].s] EXCEPT !.state = st, !.owner = None,
             !.lapsed = FALSE, !.conflict = k, !.rev = @ + 1]
    BY <1>1, <1>3 DEF Release, OnlyStep, TypeInv, StepTyped
  <2>2. Reads([step[work[w].s] EXCEPT !.state = st, !.owner = None,
                 !.lapsed = FALSE, !.conflict = k, !.rev = @ + 1],
              st, step[work[w].s].attempt, None, step[work[w].s].rev + 1)
    BY <1>1, ReleasedRow, Zenon
  <2>3. QED BY <2>1, <2>2, Zenon
<1>4. Written(w) \/ UNCHANGED <<req, step, receipts>>
  <2>1. CASE Holds(w) /\ Succeed(w)
    BY <1>1, <1>3, <2>1, Names DEF Succeed, Written, Outcome
  <2>2. CASE Holds(w) /\ ScheduleRetry(w)
    BY <1>1, <1>3, <2>2, Names DEF ScheduleRetry, Written, Outcome
  <2>3. CASE Holds(w) /\ Escalate(w)
    <3>1. PICK k \in BOOLEAN : Release(work[w].s, "ACTION_REQUIRED", k)
      <4>1. (work[w].out = "CONFLICT") \in BOOLEAN OBVIOUS
      <4>2. QED BY <2>3, <4>1 DEF Escalate, Release
    <3>2. QED BY <1>1, <1>3, <2>3, <3>1, Names DEF Escalate, Written, Outcome
  <2>4. QED BY <2>1, <2>2, <2>3 DEF WriteOutcome
<1>5. StepTyped'
  <2>1. CASE UNCHANGED step BY <2>1, FrameTyped DEF TypeInv
  <2>2. ASSUME NEW st \in {"SUCCEEDED", "PENDING", "ACTION_REQUIRED"}, Outcome(w, st)
        PROVE  StepTyped'
    BY <2>2, OnlyStepTyped DEF TypeInv, Outcome, Reads
  <2>3. QED BY <1>4, <2>1, <2>2 DEF Written
<1>6. ReceiptTyped'
  <2>1. ASSUME NEW o \in {"SUCCEEDED", "ACTION_REQUIRED"}
        PROVE  Receipt(work[w].s, work[w].at, o) \in ReceiptRow
    BY <1>1 DEF Receipt, ReceiptRow
  <2>2. QED BY <1>4, <2>1 DEF Written, TypeInv, ReceiptTyped
<1>7. RequestTyped'
  <2>1. CASE UNCHANGED req BY <2>1, FrameTyped DEF TypeInv, WriteOutcome
  <2>2. CASE req' = [req EXCEPT !.status = "ACTION_REQUIRED", !.rev = @ + 1]
    <3>1. req.rev + 1 \in Nat BY DEF TypeInv, RequestTyped
    <3>2. QED BY <2>2, <3>1, Names DEF WriteOutcome, TypeInv, RequestTyped
  <2>3. QED BY <1>4, <2>1, <2>2 DEF Written
<1>8. KeepsCommands BY FrameTyped DEF WriteOutcome, TypeInv
<1>9. WorkTyped' BY <1>2, <1>8, IdleTyped, OnlyTyped DEF TypeInv
<1>10. QED BY <1>2, <1>4, <1>5, <1>6, <1>7, <1>9, FrameTyped DEF WriteOutcome, ext, bounds, TypeInv

LEMMA FinalizeTyped ==
  ASSUME TypeInv, NEW w \in Workers, Finalize(w)
  PROVE  TypeInv' /\ Only(w) /\ work'[w] = Idle
<1>1. Only(w) /\ work'[w] = Idle BY DEF Finalize, Goto, Only, TypeInv, WorkTyped
<1>2. RequestTyped'
  <2>1. CASE UNCHANGED <<req, tenant, ids>> BY <2>1, FrameTyped DEF TypeInv
  <2>2. CASE /\ req' = [req EXCEPT !.status = "SUCCEEDED", !.rev = @ + 1]
             /\ tenant' = "ACTIVE" /\ ReservationsTo("CONSUMED")
    <3>1. req.rev + 1 \in Nat BY DEF TypeInv, RequestTyped
    <3>2. req' \in [status : RequestStatuses, rev : Nat, email : Emails]
      BY <2>2, <3>1, Names DEF TypeInv, RequestTyped
    <3>3. ids' \in [Emails -> ReservationStates]
      BY <2>2 DEF ReservationsTo, ReservationStates, TypeInv, RequestTyped
    <3>4. QED BY <2>2, <3>2, <3>3 DEF RequestTyped
  <2>3. QED BY <2>1, <2>2 DEF Finalize
<1>3. KeepsCommands BY FrameTyped DEF Finalize, TypeInv
<1>4. WorkTyped' BY <1>1, <1>3, IdleTyped, OnlyTyped DEF TypeInv
<1>5. QED BY <1>1, <1>2, <1>4, FrameTyped DEF Finalize, ext, bounds, TypeInv

LEMMA CrashTyped ==
  ASSUME TypeInv, NEW w \in Workers, Crash(w)
  PROVE  TypeInv' /\ Only(w) /\ work'[w] = Idle
<1>1. Only(w) /\ work'[w] = Idle BY DEF Crash, Goto, Only, TypeInv, WorkTyped
<1>2. KeepsCommands BY FrameTyped DEF Crash, TypeInv
<1>3. WorkTyped' BY <1>1, <1>2, IdleTyped, OnlyTyped DEF TypeInv
<1>4. posts' \subseteq Resources
  <2>1. CASE work[w].pc # "execute" BY <2>1 DEF Crash, TypeInv, ExternalTyped
  <2>2. CASE work[w].pc = "execute"
    <3>1. work[w].s \in Steps /\ (work[w].s = Admin => work[w].em \in Emails)
      BY <2>2 DEF TypeInv, WorkTyped, Knows, ClaimedPCs
    <3>2. Emails # {} BY DEF TypeInv, RequestTyped
    <3>3. \A a \in ExecuteAnswers(work[w].s, work[w].em) : a.made \subseteq Resources
      BY <3>1, <3>2, ResourceOf, ExecuteCreates
    <3>4. QED BY <2>2, <3>3 DEF Crash, TypeInv, ExternalTyped
  <2>3. QED BY <2>1, <2>2
<1>5. ExternalTyped' BY <1>4 DEF Crash, TypeInv, ExternalTyped
<1>6. BoundsTyped' BY DEF Crash, TypeInv, BoundsTyped
<1>7. QED BY <1>1, <1>3, <1>5, <1>6, FrameTyped DEF Crash, db, TypeInv

-----------------------------------------------------------------------------
(* Types: the command worker *)

LEMMA FinishingTyped ==
  ASSUME NEW m, Knows(m), m.pc \in CommandPCs, NEW o \in {"LATER", "SUCCEEDED", "REJECTED"},
         NEW cm, Runs(m, cm)
  PROVE  /\ Knows([m EXCEPT !.pc = "finish", !.out = o])
         /\ Runs([m EXCEPT !.pc = "finish", !.out = o], cm)
<1> DEFINE n == [m EXCEPT !.pc = "finish", !.out = o]
<1>1. m \in WorkerRow BY DEF Knows
<1>2. n \in WorkerRow BY <1>1, Names DEF WorkerRow
<1>3. n.pc = "finish" /\ n.out = o /\ n.c = m.c BY <1>1 DEF WorkerRow
<1> HIDE DEF n
<1>4. Knows(n) BY <1>2, <1>3 DEF Knows, CommandPCs, ViewPCs, CompensatingPCs, ClaimedPCs
<1>5. Runs(n, cm) BY <1>3 DEF Runs, CommandPCs, ViewPCs, CompensatingPCs
<1>6. QED BY <1>4, <1>5 DEF n

LEMMA GoesOnTyped ==
  ASSUME NEW m, Knows(m), m.pc \in ViewPCs, NEW cm, Runs(m, cm), NEW p \in ViewPCs,
         p \in {"intent"} \cup CompensatingPCs => cm[m.c].view.s = Org
  PROVE  Knows([m EXCEPT !.pc = p]) /\ Runs([m EXCEPT !.pc = p], cm)
<1> DEFINE n == [m EXCEPT !.pc = p]
<1>1. m \in WorkerRow BY DEF Knows
<1>2. p \in PCs BY DEF ViewPCs, CompensatingPCs, PCs
<1>3. n \in WorkerRow BY <1>1, <1>2 DEF WorkerRow
<1>4. n.pc = p /\ n.c = m.c /\ n.em = m.em BY <1>1 DEF WorkerRow
<1> HIDE DEF n
<1>5. Knows(n) BY <1>3, <1>4 DEF Knows, CommandPCs, ViewPCs, CompensatingPCs, ClaimedPCs
<1>6. Runs(n, cm) BY <1>4 DEF Runs, CommandPCs, ViewPCs, CompensatingPCs
<1>7. QED BY <1>5, <1>6 DEF n

LEMMA ClaimCommandTyped ==
  ASSUME TypeInv, NEW w \in Workers, NEW c \in Commands, ClaimCommand(w, c)
  PROVE  /\ TypeInv' /\ Only(w) /\ OnlyCommand(c) /\ KeepsCommands
         /\ work'[w].pc = "evaluate" /\ work'[w].c = c
         /\ cmd'[c].state = "RUNNING" /\ cmd'[c].attempt = cmd[c].attempt + 1
         /\ cmd'[c].owner = w /\ cmd'[c].view = cmd[c].view
         /\ \A d \in Commands \ {c} : cmd'[d] = cmd[d]
<1>1. /\ Only(w)
      /\ work'[w] = [Idle EXCEPT !.pc = "evaluate", !.c = c, !.at = cmd[c].attempt + 1]
  BY DEF ClaimCommand, Goto, Only, TypeInv, WorkTyped
<1>2. cmd[c] \in CommandRow /\ cmd[c].attempt + 1 \in Nat /\ cmd[c].attempt \in Nat
  BY DEF TypeInv, CommandTyped, CommandRow
<1>3. /\ OnlyCommand(c)
      /\ cmd'[c] = [cmd[c] EXCEPT !.state = "RUNNING", !.attempt = @ + 1,
                                  !.owner = w, !.lapsed = FALSE]
  BY DEF ClaimCommand, OnlyCommand, TypeInv, CommandTyped
<1>4. cmd'[c] \in CommandRow BY <1>2, <1>3 DEF CommandRow
<1>5. /\ cmd'[c].state = "RUNNING" /\ cmd'[c].attempt = cmd[c].attempt + 1
      /\ cmd'[c].owner = w /\ cmd'[c].view = cmd[c].view /\ cmd'[c].action = cmd[c].action
  BY <1>2, <1>3 DEF CommandRow
<1>6. CommandTyped' /\ \A d \in Commands \ {c} : cmd'[d] = cmd[d]
  <2>1. cmd[c].action \in RecoveryActions BY DEF TypeInv, CommandTyped, ClaimCommand, Due
  <2>2. QED BY <1>3, <1>4, <1>5, <2>1, OnlyCommandTyped DEF TypeInv
<1>7. KeepsCommands
  <2>1. ASSUME NEW d \in Commands, d # c PROVE cmd'[d] = cmd[d] /\ cmd[d].attempt \in Nat
    BY <1>3, <2>1 DEF OnlyCommand, TypeInv, CommandTyped, CommandRow
  <2>2. QED BY <1>2, <1>5, <2>1 DEF KeepsCommands
<1>8. work'[w].pc = "evaluate" /\ work'[w].c = c BY <1>1 DEF Idle
<1>9. Knows(work'[w]) /\ Runs(work'[w], cmd')
  <2>1. [Idle EXCEPT !.pc = "evaluate", !.c = c, !.at = cmd[c].attempt + 1] \in WorkerRow
    BY <1>2, IdleTyped, Names DEF Knows, WorkerRow
  <2>2. QED
    BY <1>1, <1>5, <1>8, <2>1 DEF Knows, Runs, CommandPCs, ViewPCs, CompensatingPCs, ClaimedPCs
<1>10. WorkTyped' BY <1>1, <1>7, <1>9, OnlyTyped DEF TypeInv
<1>11. QED
  BY <1>1, <1>3, <1>5, <1>6, <1>7, <1>8, <1>10, FrameTyped DEF ClaimCommand, db, ext, bounds, TypeInv

Concludes(w) ==
  \E o \in {"LATER", "SUCCEEDED", "REJECTED"} :
    work'[w] = [work[w] EXCEPT !.pc = "finish", !.out = o]

LEMMA ConcludesTyped ==
  ASSUME TypeInv, NEW w \in Workers, work[w].pc \in CommandPCs, Only(w), Concludes(w),
         UNCHANGED cmd
  PROVE  WorkTyped' /\ work'[w].pc = "finish" /\ work'[w].c = work[w].c
<1>1. Knows(work[w]) /\ work[w] \in WorkerRow /\ Runs(work[w], cmd) BY DEF TypeInv, WorkTyped
<1>2. PICK o \in {"LATER", "SUCCEEDED", "REJECTED"} :
        work'[w] = [work[w] EXCEPT !.pc = "finish", !.out = o]
  BY DEF Concludes
<1>3. /\ Knows([work[w] EXCEPT !.pc = "finish", !.out = o])
      /\ Runs([work[w] EXCEPT !.pc = "finish", !.out = o], cmd)
  BY <1>1, FinishingTyped
<1>4. work'[w].pc = "finish" /\ work'[w].c = work[w].c BY <1>1, <1>2 DEF WorkerRow
<1>5. KeepsCommands BY FrameTyped DEF TypeInv
<1>6. Knows(work'[w]) /\ Runs(work'[w], cmd') BY <1>2, <1>3
<1>7. QED BY <1>4, <1>5, <1>6, OnlyTyped DEF TypeInv

LEMMA GoesOnWork ==
  ASSUME TypeInv, NEW w \in Workers, work[w].pc \in ViewPCs, Only(w), UNCHANGED cmd,
         NEW p \in ViewPCs, work'[w] = [work[w] EXCEPT !.pc = p],
         p \in {"intent"} \cup CompensatingPCs => work[w].pc \in {"intent"} \cup CompensatingPCs
  PROVE  WorkTyped' /\ work'[w].pc = p /\ work'[w].c = work[w].c
<1>1. Knows(work[w]) /\ work[w] \in WorkerRow /\ Runs(work[w], cmd) BY DEF TypeInv, WorkTyped
<1>2. p \in {"intent"} \cup CompensatingPCs => cmd[work[w].c].view.s = Org BY <1>1 DEF Runs
<1>3. Knows([work[w] EXCEPT !.pc = p]) /\ Runs([work[w] EXCEPT !.pc = p], cmd)
  BY <1>1, <1>2, GoesOnTyped
<1>4. work'[w].pc = p /\ work'[w].c = work[w].c BY <1>1 DEF WorkerRow
<1>5. KeepsCommands BY FrameTyped DEF TypeInv
<1>6. Knows(work'[w]) /\ Runs(work'[w], cmd') BY <1>3
<1>7. QED BY <1>4, <1>5, <1>6, OnlyTyped DEF TypeInv

LEMMA BranchIs ==
  /\ Branch("MARK_FAILED_FINAL") = "mark" /\ Branch("RETRY_STEP") = "retry"
  /\ Branch("RECONCILE") = "adopt" /\ Branch("SAFE_COMPENSATE") = "intent"
BY DEF Branch

LEMMA EvaluateTyped ==
  ASSUME TypeInv, NEW w \in Workers, Evaluate(w)
  PROVE  /\ TypeInv' /\ Only(w) /\ work'[w].c = work[w].c
         /\ work'[w].pc \in {"finish", "mark", "retry", "adopt", "intent"}
<1>1. Only(w) BY DEF Evaluate, Finishing, CallFails, Goto, Only, TypeInv, WorkTyped
<1>2. /\ Knows(work[w]) /\ work[w] \in WorkerRow /\ Runs(work[w], cmd)
      /\ work[w].pc = "evaluate" /\ work[w].pc \in CommandPCs /\ work[w].c \in Commands
  BY DEF Evaluate, TypeInv, WorkTyped, Knows, CommandPCs
<1>3. Command(w).action \in RecoveryActions
  BY <1>2 DEF TypeInv, CommandTyped, Runs, Command
<1>4. \/ Concludes(w)
      \/ /\ ~Blocked(Command(w).action, Command(w).view)
         /\ work'[w] = [work[w] EXCEPT !.pc = Branch(Command(w).action), !.em = req.email]
  BY DEF Evaluate, Finishing, CallFails, Goto, Concludes, TypeInv, WorkTyped
<1>5. KeepsCommands BY FrameTyped DEF Evaluate, TypeInv
<1>6. ASSUME ~Blocked(Command(w).action, Command(w).view),
             work'[w] = [work[w] EXCEPT !.pc = Branch(Command(w).action), !.em = req.email]
      PROVE  /\ WorkTyped' /\ work'[w].c = work[w].c
             /\ work'[w].pc \in {"finish", "mark", "retry", "adopt", "intent"}
  <2>1. Branch(Command(w).action) \in {"mark", "retry", "adopt", "intent"}
    BY <1>3, BranchIs DEF RecoveryActions
  <2>2. /\ Branch(Command(w).action) # "mark" => Command(w).view # None
        /\ Branch(Command(w).action) = "intent" => Command(w).view.s = Org
    BY <1>3, <1>6, BranchIs DEF Blocked, RecoveryActions
  <2>3. Branch(Command(w).action) \in PCs /\ req.email \in Emails
    BY <2>1, Names DEF TypeInv, RequestTyped
  <2>4. work'[w] \in WorkerRow BY <1>2, <1>6, <2>3 DEF WorkerRow
  <2>5. /\ work'[w].pc = Branch(Command(w).action) /\ work'[w].em = req.email
        /\ work'[w].c = work[w].c
    BY <1>2, <1>6 DEF WorkerRow
  <2>6. Knows(work'[w])
    BY <1>2, <2>1, <2>3, <2>4, <2>5 DEF Knows, CommandPCs, ViewPCs, CompensatingPCs, ClaimedPCs
  <2>7. Runs(work'[w], cmd)
    BY <1>2, <2>1, <2>2, <2>5 DEF Runs, CommandPCs, ViewPCs, CompensatingPCs, Command
  <2>8. WorkTyped' BY <1>1, <1>5, <2>6, <2>7, OnlyTyped DEF TypeInv, Evaluate
  <2>9. QED BY <2>1, <2>5, <2>8
<1>7. /\ WorkTyped' /\ work'[w].c = work[w].c
      /\ work'[w].pc \in {"finish", "mark", "retry", "adopt", "intent"}
  BY <1>1, <1>2, <1>4, <1>6, ConcludesTyped DEF Evaluate
<1>8. QED BY <1>1, <1>7, FrameTyped DEF Evaluate, db, ext, bounds, TypeInv

LEMMA MarkFailedFinalTyped ==
  ASSUME TypeInv, NEW w \in Workers, MarkFailedFinal(w)
  PROVE  TypeInv' /\ Only(w) /\ work'[w].c = work[w].c /\ work'[w].pc = "finish"
<1>1. Only(w) /\ Concludes(w) /\ work[w].pc \in CommandPCs
  BY DEF MarkFailedFinal, Finishing, Goto, Only, Concludes, TypeInv, WorkTyped, CommandPCs
<1>2. WorkTyped' /\ work'[w].c = work[w].c /\ work'[w].pc = "finish"
  BY <1>1, ConcludesTyped DEF MarkFailedFinal
<1>3. RequestTyped'
  <2>1. CASE UNCHANGED <<req, tenant, ids>> BY <2>1, FrameTyped DEF TypeInv
  <2>2. CASE /\ req' = [req EXCEPT !.status = "FAILED_FINAL", !.rev = @ + 1]
             /\ UNCHANGED tenant /\ ReservationsTo("TOMBSTONED")
    <3>1. req.rev + 1 \in Nat BY DEF TypeInv, RequestTyped
    <3>2. req' \in [status : RequestStatuses, rev : Nat, email : Emails]
      BY <2>2, <3>1, Names DEF TypeInv, RequestTyped
    <3>3. ids' \in [Emails -> ReservationStates]
      BY <2>2 DEF ReservationsTo, ReservationStates, TypeInv, RequestTyped
    <3>4. QED BY <2>2, <3>2, <3>3 DEF RequestTyped, TypeInv
  <2>3. QED BY <2>1, <2>2 DEF MarkFailedFinal
<1>4. QED BY <1>1, <1>2, <1>3, FrameTyped DEF MarkFailedFinal, ext, bounds, TypeInv

\* The step the command is about.
LEMMA ViewTyped ==
  ASSUME TypeInv, NEW w \in Workers, work[w].pc \in ViewPCs
  PROVE  /\ work[w].c \in Commands /\ Command(w).view # None
         /\ Command(w).view.s \in Steps /\ Command(w).view.attempt \in Nat
         /\ Command(w).view.rev \in Nat /\ work[w].em \in Emails
         /\ step[Command(w).view.s] \in StepRow
<1>1. Knows(work[w]) /\ Runs(work[w], cmd) BY DEF TypeInv, WorkTyped
<1>2. work[w].c \in Commands /\ Command(w).view # None /\ work[w].em \in Emails
  BY <1>1 DEF Knows, Runs, Command, ViewPCs, CommandPCs
<1>3. Command(w).view \in Views BY <1>2 DEF TypeInv, CommandTyped, CommandRow, Command
<1>4. Command(w).view.s \in Steps /\ Command(w).view.attempt \in Nat
      /\ Command(w).view.rev \in Nat
  BY <1>2, <1>3 DEF Views
<1>5. QED BY <1>2, <1>4 DEF TypeInv, StepTyped

\* What a recovery command does to its step's row: state st, attempt n.
Recovered(w, st, n) ==
  /\ Command(w).view.s \in Steps
  /\ step[Command(w).view.s].state = "ACTION_REQUIRED"
  /\ OnlyStep(Command(w).view.s)
  /\ Reads(step'[Command(w).view.s], st, n, None, step[Command(w).view.s].rev + 1)

LEMMA RecoveredTyped ==
  ASSUME TypeInv, NEW w \in Workers, NEW st, st # "RUNNING", NEW n, Recovered(w, st, n)
  PROVE  StepTyped'
BY OnlyStepTyped DEF Recovered, Reads, TypeInv

LEMMA ResumeTyped ==
  ASSUME TypeInv, Resume, UNCHANGED <<tenant, ids>>
  PROVE  RequestTyped'
<1>1. req.rev + 1 \in Nat BY DEF TypeInv, RequestTyped
<1>2. QED BY <1>1, Names DEF Resume, TypeInv, RequestTyped

LEMMA RetryStepTyped ==
  ASSUME TypeInv, NEW w \in Workers, RetryStep(w)
  PROVE  /\ TypeInv' /\ Only(w) /\ work'[w].c = work[w].c /\ work'[w].pc = "finish"
         /\ \/ UNCHANGED <<req, step>>
            \/ /\ Unmoved(w) /\ Resume
               /\ Recovered(w, "PENDING", step[Command(w).view.s].attempt)
<1>1. Only(w) /\ Concludes(w) /\ work[w].pc \in ViewPCs
  BY DEF RetryStep, Finishing, Goto, Only, Concludes, TypeInv, WorkTyped, ViewPCs
<1>2. WorkTyped' /\ work'[w].c = work[w].c /\ work'[w].pc = "finish"
  BY <1>1, ConcludesTyped DEF RetryStep, CommandPCs
<1>3. ASSUME Unmoved(w), Resume,
             step' = [step EXCEPT ![Command(w).view.s] = Reopened(step[Command(w).view.s])]
      PROVE  Recovered(w, "PENDING", step[Command(w).view.s].attempt)
  <2>1. Command(w).view.s \in Steps /\ step[Command(w).view.s] \in StepRow BY <1>1, ViewTyped
  <2>2. /\ step[Command(w).view.s].state = "ACTION_REQUIRED"
        /\ step[Command(w).view.s].owner = None
    BY <1>3, <2>1 DEF Unmoved, TypeInv, StepTyped
  <2>3. /\ OnlyStep(Command(w).view.s)
        /\ step'[Command(w).view.s] = Reopened(step[Command(w).view.s])
    BY <1>3, <2>1 DEF OnlyStep, TypeInv, StepTyped
  <2>4. QED BY <2>1, <2>2, <2>3, ReopenedRow DEF Recovered
<1>4. \/ UNCHANGED <<req, step>>
      \/ /\ Unmoved(w) /\ Resume
         /\ Recovered(w, "PENDING", step[Command(w).view.s].attempt)
  BY <1>3 DEF RetryStep
<1>5. StepTyped' BY <1>4, RecoveredTyped, FrameTyped DEF TypeInv
<1>6. RequestTyped' BY <1>4, ResumeTyped, FrameTyped DEF TypeInv, RetryStep
<1>7. QED BY <1>1, <1>2, <1>4, <1>5, <1>6, FrameTyped DEF RetryStep, ext, bounds, TypeInv

LEMMA AdoptFindTyped ==
  ASSUME TypeInv, NEW w \in Workers, AdoptFind(w)
  PROVE  /\ TypeInv' /\ Only(w) /\ work'[w].c = work[w].c
         /\ \/ work'[w].pc = "finish"
            \/ work'[w].pc = "commit" /\ Find(Command(w).view.s, work[w].em) = "FOUND"
<1>1. /\ Only(w) /\ work[w].pc \in ViewPCs
      /\ \/ Concludes(w)
         \/ /\ Find(Command(w).view.s, work[w].em) = "FOUND"
            /\ work'[w] = [work[w] EXCEPT !.pc = "commit"]
  BY DEF AdoptFind, Finishing, CallFails, Goto, Only, Concludes, TypeInv, WorkTyped, ViewPCs
<1>2. WorkTyped' /\ work'[w].c = work[w].c
      /\ \/ work'[w].pc = "finish"
         \/ work'[w].pc = "commit" /\ Find(Command(w).view.s, work[w].em) = "FOUND"
  <2>1. CASE Concludes(w) BY <1>1, <2>1, ConcludesTyped DEF AdoptFind, CommandPCs
  <2>2. CASE work'[w] = [work[w] EXCEPT !.pc = "commit"]
             /\ Find(Command(w).view.s, work[w].em) = "FOUND"
    <3>1. "commit" \in ViewPCs /\ "commit" \notin {"intent"} \cup CompensatingPCs
      BY DEF ViewPCs, CompensatingPCs
    <3>2. QED BY <1>1, <2>2, <3>1, GoesOnWork DEF AdoptFind
  <2>3. QED BY <1>1, <2>1, <2>2
<1>3. QED BY <1>1, <1>2, FrameTyped DEF AdoptFind, db, ext, bounds, TypeInv

LEMMA AdoptTyped ==
  ASSUME TypeInv, NEW w \in Workers, Adopt(w)
  PROVE  /\ TypeInv' /\ Only(w) /\ work'[w].c = work[w].c /\ work'[w].pc = "finish"
         /\ \/ UNCHANGED <<req, step, receipts>>
            \/ /\ Unmoved(w) /\ Resume
               /\ Recovered(w, "SUCCEEDED", Command(w).view.attempt + 1)
               /\ receipts' = receipts \cup
                    {Receipt(Command(w).view.s, Command(w).view.attempt + 1, "SUCCEEDED")}
<1>1. Only(w) /\ Concludes(w) /\ work[w].pc \in ViewPCs
  BY DEF Adopt, Finishing, Goto, Only, Concludes, TypeInv, WorkTyped, ViewPCs
<1>2. WorkTyped' /\ work'[w].c = work[w].c /\ work'[w].pc = "finish"
  BY <1>1, ConcludesTyped DEF Adopt, CommandPCs
<1>3. /\ Command(w).view.s \in Steps /\ step[Command(w).view.s] \in StepRow
      /\ Command(w).view.attempt \in Nat
  BY <1>1, ViewTyped
<1>4. ASSUME Unmoved(w),
             step' = [step EXCEPT ![Command(w).view.s] =
                        [step[Command(w).view.s] EXCEPT
                           !.state = "SUCCEEDED", !.attempt = Command(w).view.attempt + 1,
                           !.conflict = FALSE, !.rev = @ + 1]]
      PROVE  Recovered(w, "SUCCEEDED", Command(w).view.attempt + 1)
  <2>1. /\ step[Command(w).view.s].state = "ACTION_REQUIRED"
        /\ step[Command(w).view.s].owner = None
    BY <1>3, <1>4 DEF Unmoved, TypeInv, StepTyped
  <2>2. /\ OnlyStep(Command(w).view.s)
        /\ step'[Command(w).view.s] =
             [step[Command(w).view.s] EXCEPT
                !.state = "SUCCEEDED", !.attempt = Command(w).view.attempt + 1,
                !.conflict = FALSE, !.rev = @ + 1]
    BY <1>3, <1>4 DEF OnlyStep, TypeInv, StepTyped
  <2>3. Reads([step[Command(w).view.s] EXCEPT
                 !.state = "SUCCEEDED", !.attempt = Command(w).view.attempt + 1,
                 !.conflict = FALSE, !.rev = @ + 1],
              "SUCCEEDED", Command(w).view.attempt + 1, step[Command(w).view.s].owner,
              step[Command(w).view.s].rev + 1)
    BY <1>3, AdoptedRow
  <2>4. QED BY <1>3, <2>1, <2>2, <2>3 DEF Recovered
<1>5. \/ UNCHANGED <<req, step, receipts>>
      \/ /\ Unmoved(w) /\ Resume
         /\ Recovered(w, "SUCCEEDED", Command(w).view.attempt + 1)
         /\ receipts' = receipts \cup
              {Receipt(Command(w).view.s, Command(w).view.attempt + 1, "SUCCEEDED")}
  BY <1>4 DEF Adopt
<1>6. StepTyped' BY <1>5, RecoveredTyped, FrameTyped DEF TypeInv
<1>7. RequestTyped' BY <1>5, ResumeTyped, FrameTyped DEF TypeInv, Adopt
<1>8. ReceiptTyped'
  <2>1. Receipt(Command(w).view.s, Command(w).view.attempt + 1, "SUCCEEDED") \in ReceiptRow
    BY <1>3 DEF Receipt, ReceiptRow
  <2>2. QED BY <1>5, <2>1 DEF ReceiptTyped, TypeInv
<1>9. QED BY <1>1, <1>2, <1>5, <1>6, <1>7, <1>8, FrameTyped DEF Adopt, ext, bounds, TypeInv

LEMMA TouchTyped ==
  ASSUME TypeInv, NEW w \in Workers, work[w].pc \in ViewPCs, NEW n, StepAt(w, n), TouchStep(w)
  PROVE  Recovered(w, "ACTION_REQUIRED", step[Command(w).view.s].attempt)
<1>1. Command(w).view.s \in Steps /\ step[Command(w).view.s] \in StepRow BY ViewTyped
<1>2. /\ step[Command(w).view.s].state = "ACTION_REQUIRED"
      /\ step[Command(w).view.s].owner = None
  BY <1>1 DEF StepAt, TypeInv, StepTyped
<1>3. /\ OnlyStep(Command(w).view.s)
      /\ step'[Command(w).view.s] =
           [step[Command(w).view.s] EXCEPT !.conflict = FALSE, !.rev = @ + 1]
  BY <1>1 DEF TouchStep, OnlyStep, TypeInv, StepTyped
<1>4. QED BY <1>1, <1>2, <1>3, TouchedRow DEF Recovered

LEMMA IntentTyped ==
  ASSUME TypeInv, NEW w \in Workers, Intent(w)
  PROVE  /\ TypeInv' /\ Only(w) /\ work'[w].c = work[w].c /\ work'[w].pc \in {"finish", "own"}
         /\ \/ UNCHANGED step /\ work'[w].pc = "finish"
            \/ Recovered(w, "ACTION_REQUIRED", step[Command(w).view.s].attempt)
<1>1. /\ Only(w) /\ work[w].pc \in ViewPCs
      /\ \/ Concludes(w) /\ UNCHANGED step
         \/ /\ work'[w] = [work[w] EXCEPT !.pc = "own"]
            /\ StepAt(w, Command(w).view.rev) /\ TouchStep(w)
  BY DEF Intent, Finishing, CallFails, Goto, Only, Concludes, TypeInv, WorkTyped, ViewPCs
<1>2. CASE Concludes(w) /\ UNCHANGED step
  <2>1. WorkTyped' /\ work'[w].c = work[w].c /\ work'[w].pc = "finish"
    BY <1>1, <1>2, ConcludesTyped DEF Intent, CommandPCs
  <2>2. QED BY <1>1, <1>2, <2>1, FrameTyped DEF Intent, ext, bounds, TypeInv
<1>3. CASE /\ work'[w] = [work[w] EXCEPT !.pc = "own"]
           /\ StepAt(w, Command(w).view.rev) /\ TouchStep(w)
  <2>1. "own" \in ViewPCs /\ work[w].pc \in {"intent"} \cup CompensatingPCs
    BY DEF ViewPCs, CompensatingPCs, Intent
  <2>2. WorkTyped' /\ work'[w].c = work[w].c /\ work'[w].pc = "own"
    BY <1>1, <1>3, <2>1, GoesOnWork DEF Intent
  <2>3. Recovered(w, "ACTION_REQUIRED", step[Command(w).view.s].attempt)
    BY <1>1, <1>3, TouchTyped
  <2>4. StepTyped' BY <2>3, RecoveredTyped
  <2>5. QED BY <1>1, <2>2, <2>3, <2>4, FrameTyped DEF Intent, ext, bounds, TypeInv
<1>4. QED BY <1>1, <1>2, <1>3

LEMMA CheckOwnedTyped ==
  ASSUME TypeInv, NEW w \in Workers, CheckOwned(w)
  PROVE  /\ TypeInv' /\ Only(w) /\ work'[w].c = work[w].c /\ work'[w].pc \in {"finish", "delete"}
<1>1. /\ Only(w) /\ work[w].pc \in ViewPCs
      /\ Concludes(w) \/ work'[w] = [work[w] EXCEPT !.pc = "delete"]
  BY DEF CheckOwned, Finishing, CallFails, Goto, Only, Concludes, TypeInv, WorkTyped, ViewPCs,
    CompensatingPCs
<1>2. WorkTyped' /\ work'[w].c = work[w].c /\ work'[w].pc \in {"finish", "delete"}
  <2>1. CASE Concludes(w) BY <1>1, <2>1, ConcludesTyped DEF CheckOwned, CommandPCs
  <2>2. CASE work'[w] = [work[w] EXCEPT !.pc = "delete"]
    <3>1. "delete" \in ViewPCs /\ work[w].pc \in {"intent"} \cup CompensatingPCs
      BY DEF ViewPCs, CompensatingPCs, CheckOwned
    <3>2. QED BY <1>1, <2>2, <3>1, GoesOnWork DEF CheckOwned
  <2>3. QED BY <1>1, <2>1, <2>2
<1>3. QED BY <1>1, <1>2, FrameTyped DEF CheckOwned, db, ext, bounds, TypeInv

LEMMA DeleteTyped ==
  ASSUME TypeInv, NEW w \in Workers, Delete(w)
  PROVE  /\ TypeInv' /\ Only(w) /\ work'[w].c = work[w].c /\ work'[w].pc \in {"finish", "settle"}
         /\ world' \in {world, world \ {Res(Org, None)}}
<1>1. /\ Only(w) /\ work[w].pc \in ViewPCs
      /\ Concludes(w) \/ work'[w] = [work[w] EXCEPT !.pc = "settle"]
  BY DEF Delete, Finishing, CallFails, Goto, Only, Concludes, TypeInv, WorkTyped, ViewPCs,
    CompensatingPCs
<1>2. WorkTyped' /\ work'[w].c = work[w].c /\ work'[w].pc \in {"finish", "settle"}
  <2>1. CASE Concludes(w) BY <1>1, <2>1, ConcludesTyped DEF Delete, CommandPCs
  <2>2. CASE work'[w] = [work[w] EXCEPT !.pc = "settle"]
    <3>1. "settle" \in ViewPCs /\ work[w].pc \in {"intent"} \cup CompensatingPCs
      BY DEF ViewPCs, CompensatingPCs, Delete
    <3>2. QED BY <1>1, <2>2, <3>1, GoesOnWork DEF Delete
  <2>3. QED BY <1>1, <2>1, <2>2
<1>3. Command(w).view.s = Org
  BY DEF Delete, TypeInv, WorkTyped, Runs, Command, CompensatingPCs
<1>4. world' \in {world, world \ {Res(Org, None)}} BY <1>3 DEF Delete
<1>5. ExternalTyped' BY <1>4 DEF Delete, TypeInv, ExternalTyped
<1>6. QED BY <1>1, <1>2, <1>4, <1>5, FrameTyped DEF Delete, db, bounds, TypeInv

LEMMA CompensatedTyped ==
  ASSUME TypeInv, NEW w \in Workers, Compensated(w)
  PROVE  /\ TypeInv' /\ Only(w) /\ work'[w].c = work[w].c /\ work'[w].pc = "finish"
         /\ \/ UNCHANGED step
            \/ Recovered(w, "ACTION_REQUIRED", step[Command(w).view.s].attempt)
<1>1. Only(w) /\ Concludes(w) /\ work[w].pc \in ViewPCs
  BY DEF Compensated, Finishing, Goto, Only, Concludes, TypeInv, WorkTyped, ViewPCs, CompensatingPCs
<1>2. WorkTyped' /\ work'[w].c = work[w].c /\ work'[w].pc = "finish"
  BY <1>1, ConcludesTyped DEF Compensated, CommandPCs
<1>3. \/ UNCHANGED step
      \/ Recovered(w, "ACTION_REQUIRED", step[Command(w).view.s].attempt)
  BY <1>1, TouchTyped DEF Compensated
<1>4. StepTyped' BY <1>3, RecoveredTyped, FrameTyped DEF TypeInv
<1>5. QED BY <1>1, <1>2, <1>3, <1>4, FrameTyped DEF Compensated, ext, bounds, TypeInv

LEMMA FinishCommandTyped ==
  ASSUME TypeInv, NEW w \in Workers, FinishCommand(w)
  PROVE  /\ TypeInv' /\ Only(w) /\ work'[w] = Idle /\ KeepsCommands
         /\ \/ UNCHANGED cmd
            \/ /\ cmd[work[w].c].owner = w /\ cmd[work[w].c].attempt = work[w].at
               /\ cmd'[work[w].c].state \in {"SUCCEEDED", "REJECTED"}
               /\ cmd'[work[w].c].attempt = cmd[work[w].c].attempt
               /\ cmd'[work[w].c].view = cmd[work[w].c].view
               /\ \A d \in Commands \ {work[w].c} : cmd'[d] = cmd[d]
<1>1. Only(w) /\ work'[w] = Idle BY DEF FinishCommand, Goto, Only, TypeInv, WorkTyped
<1>2. /\ work[w].c \in Commands /\ cmd[work[w].c] \in CommandRow
      /\ work[w].out \in {"LATER", "SUCCEEDED", "REJECTED"}
      /\ cmd[work[w].c].state # "NONE"
  BY DEF FinishCommand, TypeInv, WorkTyped, Knows, Runs, CommandPCs, CommandTyped
<1>3. CASE UNCHANGED cmd
  <2>1. KeepsCommands BY <1>3, FrameTyped DEF TypeInv
  <2>2. WorkTyped' BY <1>1, <2>1, IdleTyped, OnlyTyped DEF TypeInv
  <2>3. QED BY <1>1, <1>3, <2>1, <2>2, FrameTyped DEF FinishCommand, db, ext, bounds, TypeInv
<1>4. CASE cmd' # cmd
  <2>1. /\ cmd[work[w].c].owner = w /\ cmd[work[w].c].attempt = work[w].at
        /\ Verdict(work[w]) # "LATER"
        /\ cmd' = [cmd EXCEPT ![work[w].c] = [cmd[work[w].c] EXCEPT
                     !.state = Verdict(work[w]), !.owner = None, !.lapsed = FALSE]]
    BY <1>4 DEF FinishCommand, Command
  <2>2. Verdict(work[w]) \in {"SUCCEEDED", "REJECTED"} BY <1>2, <2>1 DEF Verdict
  <2>3. /\ OnlyCommand(work[w].c)
        /\ cmd'[work[w].c] = [cmd[work[w].c] EXCEPT
                     !.state = Verdict(work[w]), !.owner = None, !.lapsed = FALSE]
    BY <1>2, <2>1 DEF OnlyCommand, TypeInv, CommandTyped
  <2>4. cmd'[work[w].c] \in CommandRow BY <1>2, <2>2, <2>3 DEF CommandRow
  <2>5. /\ cmd'[work[w].c].state = Verdict(work[w])
        /\ cmd'[work[w].c].attempt = cmd[work[w].c].attempt
        /\ cmd'[work[w].c].view = cmd[work[w].c].view
        /\ cmd'[work[w].c].action = cmd[work[w].c].action
    BY <1>2, <2>3 DEF CommandRow
  <2>6. CommandTyped' /\ \A d \in Commands \ {work[w].c} : cmd'[d] = cmd[d]
    BY <1>2, <2>3, <2>4, <2>5, OnlyCommandTyped DEF TypeInv, CommandTyped
  <2>7. KeepsCommands
    BY <1>2, <2>2, <2>5, <2>6 DEF KeepsCommands, TypeInv, CommandTyped, CommandRow
  <2>8. WorkTyped' BY <1>1, <2>7, IdleTyped, OnlyTyped DEF TypeInv
  <2>9. QED
    BY <1>1, <2>1, <2>2, <2>5, <2>6, <2>7, <2>8, FrameTyped
    DEF FinishCommand, db, ext, bounds, TypeInv
<1>5. QED BY <1>3, <1>4

-----------------------------------------------------------------------------
(* Types: the operator, the outside world and time *)

LEMMA EditFieldTyped ==
  ASSUME TypeInv, EditField PROVE TypeInv'
<1>1. req.rev + 1 \in Nat BY DEF TypeInv, RequestTyped
<1>2. RequestTyped' BY <1>1 DEF EditField, TypeInv, RequestTyped
<1>3. BoundsTyped' BY DEF EditField, TypeInv, BoundsTyped
<1>4. KeepsCommands BY FrameTyped DEF EditField, TypeInv
<1>5. WorkTyped' BY <1>4, StillTyped DEF EditField, TypeInv
<1>6. QED BY <1>2, <1>3, <1>5, FrameTyped DEF EditField, ext, TypeInv

LEMMA ChangeEmailTyped ==
  ASSUME TypeInv, NEW e \in Emails, ChangeEmail(e) PROVE TypeInv'
<1>1. req.rev + 1 \in Nat BY DEF TypeInv, RequestTyped
<1>2. req' \in [status : RequestStatuses, rev : Nat, email : Emails]
  BY <1>1 DEF ChangeEmail, TypeInv, RequestTyped
<1>3. ids' \in [Emails -> ReservationStates]
  BY DEF ChangeEmail, Swapped, TypeInv, RequestTyped, ReservationStates
<1>4. RequestTyped' BY <1>2, <1>3 DEF ChangeEmail, TypeInv, RequestTyped
<1>5. BoundsTyped' BY DEF ChangeEmail, TypeInv, BoundsTyped
<1>6. KeepsCommands BY FrameTyped DEF ChangeEmail, TypeInv
<1>7. WorkTyped' BY <1>6, StillTyped DEF ChangeEmail, TypeInv
<1>8. QED BY <1>4, <1>5, <1>7, FrameTyped DEF ChangeEmail, ext, TypeInv

\* What a preview shows is true when it is shown.
LEMMA ViewShows ==
  ASSUME TypeInv, NEW a
  PROVE  View(a) \in Views /\
         (View(a) # None =>
            /\ View(a).s \in Steps
            /\ View(a).rev = step[View(a).s].rev /\ View(a).attempt = step[View(a).s].attempt)
<1>1. CASE Unfinished = {} BY <1>1 DEF View, Views
<1>2. CASE Unfinished # {}
  <2>1. Current \in Steps BY <1>2, SagaConstants, CurrentFirst
  <2>2. step[Current].attempt \in Nat /\ step[Current].rev \in Nat
    BY <2>1 DEF TypeInv, StepTyped, StepRow
  <2>3. PICK f \in Findings \cup {None} :
          View(a) = [s |-> Current, attempt |-> step[Current].attempt, rev |-> step[Current].rev,
                     finding |-> f]
    BY <1>2, FindIsFinding DEF View
  <2>4. QED BY <2>1, <2>2, <2>3 DEF Views
<1>3. QED BY <1>1, <1>2

LEMMA SubmitTyped ==
  ASSUME TypeInv, NEW c \in Commands, NEW a \in RecoveryActions, Submit(c, a)
  PROVE  /\ TypeInv' /\ KeepsCommands
         /\ cmd'[c].state = "QUEUED" /\ cmd'[c].view = View(a)
         /\ cmd'[c].attempt = cmd[c].attempt
         /\ \A d \in Commands \ {c} : cmd'[d] = cmd[d]
<1>1. cmd[c] \in CommandRow BY DEF TypeInv, CommandTyped
<1>2. /\ OnlyCommand(c)
      /\ cmd'[c] = [cmd[c] EXCEPT !.state = "QUEUED", !.action = a, !.erev = req.rev,
                                  !.view = View(a)]
  BY DEF Submit, OnlyCommand, TypeInv, CommandTyped
<1>3. View(a) \in Views /\ req.rev \in Nat BY ViewShows DEF TypeInv, RequestTyped
<1>4. cmd'[c] \in CommandRow BY <1>1, <1>2, <1>3 DEF CommandRow
<1>5. /\ cmd'[c].state = "QUEUED" /\ cmd'[c].view = View(a) /\ cmd'[c].action = a
      /\ cmd'[c].attempt = cmd[c].attempt
  BY <1>1, <1>2 DEF CommandRow
<1>6. CommandTyped' /\ \A d \in Commands \ {c} : cmd'[d] = cmd[d]
  BY <1>2, <1>4, <1>5, OnlyCommandTyped DEF TypeInv
<1>7. KeepsCommands
  BY <1>6 DEF KeepsCommands, TypeInv, CommandTyped, CommandRow, Submit
<1>8. WorkTyped' BY <1>7, StillTyped DEF Submit, TypeInv
<1>9. QED BY <1>5, <1>6, <1>7, <1>8, FrameTyped DEF Submit, db, ext, bounds, TypeInv

LEMMA LandTyped ==
  ASSUME TypeInv, NEW r, Land(r) PROVE TypeInv'
<1>1. ExternalTyped' BY DEF Land, TypeInv, ExternalTyped
<1>2. KeepsCommands BY FrameTyped DEF Land, TypeInv
<1>3. WorkTyped' BY <1>2, StillTyped DEF Land, TypeInv
<1>4. QED BY <1>1, <1>3, FrameTyped DEF Land, db, bounds, TypeInv

LEMMA StepLeaseLapsesTyped ==
  ASSUME TypeInv, NEW s \in Steps, StepLeaseLapses(s)
  PROVE  /\ TypeInv' /\ OnlyStep(s)
         /\ Reads(step'[s], step[s].state, step[s].attempt, step[s].owner, step[s].rev)
<1>1. step[s] \in StepRow BY DEF TypeInv, StepTyped
<1>2. OnlyStep(s) /\ step'[s] = [step[s] EXCEPT !.lapsed = TRUE]
  BY DEF StepLeaseLapses, OnlyStep, TypeInv, StepTyped
<1>3. Reads(step'[s], step[s].state, step[s].attempt, step[s].owner, step[s].rev)
  BY <1>1, <1>2, LapsedRow
<1>4. StepTyped' BY <1>2, <1>3, OnlyStepTyped DEF TypeInv, StepTyped, Reads
<1>5. BoundsTyped' BY DEF StepLeaseLapses, Stalled, TypeInv, BoundsTyped
<1>6. KeepsCommands BY FrameTyped DEF StepLeaseLapses, TypeInv
<1>7. WorkTyped' BY <1>6, StillTyped DEF StepLeaseLapses, TypeInv
<1>8. QED BY <1>2, <1>3, <1>4, <1>5, <1>7, FrameTyped DEF StepLeaseLapses, ext, TypeInv

LEMMA CommandLeaseLapsesTyped ==
  ASSUME TypeInv, NEW c \in Commands, CommandLeaseLapses(c)
  PROVE  /\ TypeInv' /\ KeepsCommands
         /\ \A d \in Commands : /\ cmd'[d].state = cmd[d].state /\ cmd'[d].view = cmd[d].view
                                /\ cmd'[d].attempt = cmd[d].attempt /\ cmd'[d].owner = cmd[d].owner
<1>1. cmd[c] \in CommandRow BY DEF TypeInv, CommandTyped
<1>2. OnlyCommand(c) /\ cmd'[c] = [cmd[c] EXCEPT !.lapsed = TRUE]
  BY DEF CommandLeaseLapses, OnlyCommand, TypeInv, CommandTyped
<1>3. cmd'[c] \in CommandRow BY <1>1, <1>2 DEF CommandRow
<1>4. /\ cmd'[c].state = cmd[c].state /\ cmd'[c].view = cmd[c].view
      /\ cmd'[c].attempt = cmd[c].attempt /\ cmd'[c].owner = cmd[c].owner
      /\ cmd'[c].action = cmd[c].action
  BY <1>1, <1>2 DEF CommandRow
<1>5. CommandTyped' /\ \A d \in Commands \ {c} : cmd'[d] = cmd[d]
  BY <1>2, <1>3, <1>4, OnlyCommandTyped DEF TypeInv, CommandTyped
<1>6. KeepsCommands
  BY <1>4, <1>5 DEF KeepsCommands, TypeInv, CommandTyped, CommandRow
<1>7. BoundsTyped' BY DEF CommandLeaseLapses, Stalled, TypeInv, BoundsTyped
<1>8. WorkTyped' BY <1>6, StillTyped DEF CommandLeaseLapses, TypeInv
<1>9. QED BY <1>4, <1>5, <1>6, <1>7, <1>8, FrameTyped DEF CommandLeaseLapses, db, ext, TypeInv

LEMMA InitTyped == Init => TypeInv
<1> SUFFICES ASSUME Init PROVE TypeInv OBVIOUS
<1>1. RequestTyped BY DEF Init, RequestTyped, RequestStatuses, ReservationStates
<1>2. StepTyped
  <2>1. [state |-> "PENDING", attempt |-> 0, floor |-> 0, rev |-> 1, owner |-> None,
         lapsed |-> FALSE, conflict |-> FALSE] \in StepRow
    BY Names DEF StepRow
  <2>2. QED BY <2>1 DEF Init, StepTyped
<1>3. ReceiptTyped BY DEF Init, ReceiptTyped
<1>4. CommandTyped
  <2>1. [state |-> "NONE", action |-> None, erev |-> 0, view |-> None, attempt |-> 0,
         owner |-> None, lapsed |-> FALSE] \in CommandRow
    BY DEF CommandRow, Views
  <2>2. QED BY <2>1 DEF Init, CommandTyped
<1>5. ExternalTyped BY DEF Init, ExternalTyped
<1>6. BoundsTyped BY DEF Init, BoundsTyped
<1>7. WorkTyped BY IdleTyped DEF Init, WorkTyped, Knows
<1>8. QED BY <1>1, <1>2, <1>3, <1>4, <1>5, <1>6, <1>7 DEF TypeInv

-----------------------------------------------------------------------------
(* Steps and receipts: how a row may move *)

\* A row's revision never goes back, fences everything a worker reads, and a
\* step that has succeeded stays so.
Grows(a, b) ==
  /\ a.rev <= b.rev
  /\ a.rev = b.rev => b.state = a.state /\ b.attempt = a.attempt /\ b.owner = a.owner
  /\ a.state = "SUCCEEDED" => b.state = "SUCCEEDED"
StepsGrow == \A s \in Steps : Grows(step[s], step'[s])

LEMMA GrowsSame ==
  ASSUME StepTyped, UNCHANGED step PROVE StepsGrow
<1>1. \A s \in Steps : step[s].rev \in Nat BY DEF StepTyped, StepRow
<1>2. QED BY <1>1 DEF StepsGrow, Grows

LEMMA GrowsOnly ==
  ASSUME StepTyped, NEW t \in Steps, OnlyStep(t), Grows(step[t], step'[t])
  PROVE  StepsGrow
<1>1. \A s \in Steps : step[s].rev \in Nat BY DEF StepTyped, StepRow
<1>2. \A s \in Steps \ {t} : step'[s] = step[s] BY DEF OnlyStep, StepTyped
<1>3. QED BY <1>1, <1>2 DEF StepsGrow, Grows

\* What a worker remembers stays true, whatever happens to the rows.
LEMMA RemembersStable ==
  ASSUME NEW st \in [Steps -> StepRow], NEW tt \in [Steps -> StepRow],
         \A s \in Steps : Grows(st[s], tt[s]),
         NEW m, Knows(m), Remembers(m, st)
  PROVE  Remembers(m, tt)
<1>1. \A s \in Steps : st[s].rev \in Nat /\ tt[s].rev \in Nat BY DEF StepRow
<1>2. m.sr \in Nat BY DEF Knows, WorkerRow
<1>3. CASE m.pc = "claim"
  <2>1. m.s \in Steps /\ Grows(st[m.s], tt[m.s]) BY <1>3 DEF Knows
  <2>2. m.sr <= tt[m.s].rev BY <1>1, <1>2, <1>3, <2>1 DEF Remembers, Grows
  <2>3. tt[m.s].rev = m.sr => m.at = tt[m.s].attempt + 1
    BY <1>1, <1>2, <1>3, <2>1 DEF Remembers, Grows
  <2>4. \A t \in 1..(m.s - 1) : t \in Steps BY <2>1, SagaConstants DEF Steps
  <2>5. \A t \in 1..(m.s - 1) : tt[t].state = "SUCCEEDED" BY <1>3, <2>4 DEF Remembers, Grows
  <2>6. QED BY <1>3, <2>2, <2>3, <2>5 DEF Remembers, ClaimedPCs
<1>4. CASE m.pc \in ClaimedPCs
  <2>1. m.s \in Steps /\ Grows(st[m.s], tt[m.s]) BY <1>4 DEF Knows
  <2>2. m.sr <= tt[m.s].rev BY <1>1, <1>2, <1>4, <2>1 DEF Remembers, Grows
  <2>3. tt[m.s].rev = m.sr => m.at = tt[m.s].attempt
    BY <1>1, <1>2, <1>4, <2>1 DEF Remembers, Grows
  <2>4. QED BY <1>4, <2>2, <2>3 DEF Remembers, ClaimedPCs
<1>5. CASE m.pc = "finalize" BY <1>5 DEF Remembers, Grows, ClaimedPCs
<1>6. QED BY <1>3, <1>4, <1>5 DEF Remembers

LEMMA PreviewedStable ==
  ASSUME NEW st \in [Steps -> StepRow], NEW tt \in [Steps -> StepRow],
         \A s \in Steps : Grows(st[s], tt[s]),
         NEW row \in CommandRow, Previewed(row, st)
  PROVE  Previewed(row, tt)
<1>1. \A s \in Steps : st[s].rev \in Nat /\ tt[s].rev \in Nat BY DEF StepRow
<1>2. CASE row.view # None
  <2>1. row.view \in Views BY DEF CommandRow
  <2>2. row.view.s \in Steps /\ row.view.rev \in Nat BY <1>2, <2>1 DEF Views
  <2>3. Grows(st[row.view.s], tt[row.view.s]) BY <2>2
  <2>4. /\ row.view.rev <= st[row.view.s].rev
        /\ row.view.rev = st[row.view.s].rev => row.view.attempt = st[row.view.s].attempt
    BY <1>2 DEF Previewed
  <2>5. row.view.rev <= tt[row.view.s].rev BY <1>1, <2>2, <2>3, <2>4 DEF Grows
  <2>6. ASSUME row.view.rev = tt[row.view.s].rev PROVE row.view.attempt = tt[row.view.s].attempt
    <3>1. st[row.view.s].rev = tt[row.view.s].rev
      <4>1. st[row.view.s].rev \in Nat /\ tt[row.view.s].rev \in Nat BY <1>1, <2>2
      <4>2. st[row.view.s].rev <= tt[row.view.s].rev BY <2>3 DEF Grows
      <4>3. tt[row.view.s].rev <= st[row.view.s].rev BY <2>4, <2>6
      <4>4. QED BY <4>1, <4>2, <4>3
    <3>2. tt[row.view.s].attempt = st[row.view.s].attempt BY <2>3, <3>1 DEF Grows
    <3>3. QED BY <2>4, <2>6, <3>1, <3>2
  <2>7. QED BY <2>5, <2>6 DEF Previewed
<1>3. QED BY <1>2 DEF Previewed

\* So only what is new has to be looked at.
LEMMA MemoryKept ==
  ASSUME TypeInv, TypeInv', StepInv, StepsGrow, ReceiptsMatch', InOrder',
         \A u \in Workers : work'[u] = work[u] \/ Remembers(work'[u], step'),
         \A c \in Commands : cmd'[c].view = cmd[c].view \/ Previewed(cmd'[c], step')
  PROVE  StepInv'
<1>1. step \in [Steps -> StepRow] /\ step' \in [Steps -> StepRow] BY DEF TypeInv, StepTyped
<1>2. \A s \in Steps : Grows(step[s], step'[s]) BY DEF StepsGrow
<1>3. ASSUME NEW u \in Workers PROVE Remembers(work'[u], step')
  <2>1. Knows(work[u]) /\ Remembers(work[u], step) BY DEF TypeInv, WorkTyped, StepInv
  <2>2. Remembers(work[u], step') BY <1>1, <1>2, <2>1, RemembersStable
  <2>3. QED BY <2>2
<1>4. ASSUME NEW c \in Commands PROVE Previewed(cmd'[c], step')
  <2>1. cmd[c] \in CommandRow /\ Previewed(cmd[c], step) BY DEF TypeInv, CommandTyped, StepInv
  <2>2. Previewed(cmd[c], step') BY <1>1, <1>2, <2>1, PreviewedStable
  <2>3. QED BY <2>2 DEF Previewed
<1>5. QED BY <1>3, <1>4 DEF StepInv

\* A step that leaves the rows and the receipts alone.
LEMMA RowsQuiet ==
  ASSUME TypeInv, StepInv, UNCHANGED <<step, receipts>>
  PROVE  StepsGrow /\ ReceiptsMatch' /\ InOrder'
<1>1. StepsGrow BY GrowsSame DEF TypeInv
<1>2. ReceiptsMatch' BY DEF StepInv, ReceiptsMatch, Finished
<1>3. InOrder' BY DEF StepInv, InOrder
<1>4. QED BY <1>1, <1>2, <1>3

\* No receipt is written: the row keeps its state and attempt, waits for its
\* next attempt, or begins it.
LEMMA ReceiptsKept ==
  ASSUME TypeInv, TypeInv', ReceiptsMatch, NEW t \in Steps, OnlyStep(t), UNCHANGED receipts,
         \/ step'[t].state = step[t].state /\ step'[t].attempt = step[t].attempt
         \/ /\ step[t].state # "SUCCEEDED"
            /\ \/ step'[t].state = "PENDING" /\ step'[t].attempt = step[t].attempt
               \/ step'[t].state = "RUNNING" /\ step'[t].attempt = step[t].attempt + 1
  PROVE  ReceiptsMatch'
<1>1. \A s \in Steps \ {t} : step'[s] = step[s] BY DEF OnlyStep, TypeInv, StepTyped
<1>2. step[t].attempt \in Nat BY DEF TypeInv, StepTyped, StepRow
<1>3. \A r \in receipts : r.step \in Steps /\ r.attempt \in Nat
  BY DEF TypeInv, ReceiptTyped, ReceiptRow
<1>4. \A r \in receipts : r.attempt \in 1..step'[r.step].attempt
  BY <1>1, <1>2, <1>3 DEF ReceiptsMatch
<1>5. /\ step'[t].state = "SUCCEEDED" <=> \E r \in receipts : r.step = t /\ r.outcome = "SUCCEEDED"
      /\ step'[t].state = "SUCCEEDED" => Receipt(t, step'[t].attempt, "SUCCEEDED") \in receipts
      /\ step'[t].state = "ACTION_REQUIRED" =>
           Receipt(t, step'[t].attempt, "ACTION_REQUIRED") \in receipts
  BY DEF ReceiptsMatch
<1>6. step'[t].state = "RUNNING" => ~\E r \in receipts : r.step = t /\ r.attempt = step'[t].attempt
  BY <1>2, <1>3 DEF ReceiptsMatch, Finished
<1>7. QED BY <1>1, <1>4, <1>5, <1>6 DEF ReceiptsMatch, Finished

\* An attempt that has no receipt yet gets one with the row's new state.
LEMMA ReceiptAdded ==
  ASSUME TypeInv, TypeInv', ReceiptsMatch, NEW t \in Steps, OnlyStep(t),
         NEW n \in Nat, n >= 1, step[t].attempt <= n, ~Finished(t, n),
         NEW o \in {"SUCCEEDED", "ACTION_REQUIRED"},
         step[t].state # "SUCCEEDED", step'[t].state = o, step'[t].attempt = n,
         receipts' = receipts \cup {Receipt(t, n, o)}
  PROVE  ReceiptsMatch'
<1>1. \A s \in Steps \ {t} : step'[s] = step[s] BY DEF OnlyStep, TypeInv, StepTyped
<1>2. step[t].attempt \in Nat BY DEF TypeInv, StepTyped, StepRow
<1>3. \A r \in receipts : r.step \in Steps /\ r.attempt \in Nat
  BY DEF TypeInv, ReceiptTyped, ReceiptRow
<1> DEFINE new == Receipt(t, n, o)
<1>4. new.step = t /\ new.attempt = n /\ new.outcome = o BY DEF Receipt
<1>5. \A r \in receipts : r.step = t => r.attempt # n /\ r.outcome # "SUCCEEDED"
  BY DEF ReceiptsMatch, Finished
<1> HIDE DEF new
<1>6. receipts' = receipts \cup {new} BY DEF new
<1>7. \A r \in receipts' : r.attempt \in 1..step'[r.step].attempt
  <2>1. \A r \in receipts : r.attempt \in 1..step'[r.step].attempt
    BY <1>1, <1>2, <1>3 DEF ReceiptsMatch
  <2>2. QED BY <1>4, <1>6, <2>1
<1>8. \A q, r \in receipts' : q.step = r.step /\ q.attempt = r.attempt => q = r
  BY <1>4, <1>5, <1>6 DEF ReceiptsMatch
<1>9. ASSUME NEW s \in Steps
      PROVE  /\ step'[s].state = "SUCCEEDED" <=>
                  \E r \in receipts' : r.step = s /\ r.outcome = "SUCCEEDED"
             /\ step'[s].state = "SUCCEEDED" =>
                  Receipt(s, step'[s].attempt, "SUCCEEDED") \in receipts'
             /\ step'[s].state = "ACTION_REQUIRED" =>
                  Receipt(s, step'[s].attempt, "ACTION_REQUIRED") \in receipts'
             /\ step'[s].state = "RUNNING" =>
                  ~\E r \in receipts' : r.step = s /\ r.attempt = step'[s].attempt
  <2>1. CASE s = t
    <3>1. Receipt(t, n, o) \in receipts' BY <1>6 DEF new
    <3>2. step'[t].state = "SUCCEEDED" <=>
            \E r \in receipts' : r.step = t /\ r.outcome = "SUCCEEDED"
      BY <1>4, <1>5, <1>6
    <3>3. QED BY <2>1, <3>1, <3>2
  <2>2. CASE s # t
    <3>1. step'[s] = step[s] BY <1>1, <2>2
    <3>2. \A r \in receipts' : r.step = s <=> r \in receipts /\ r.step = s BY <1>4, <1>6, <2>2
    <3>3. /\ step[s].state = "SUCCEEDED" <=>
                \E r \in receipts : r.step = s /\ r.outcome = "SUCCEEDED"
          /\ step[s].state = "SUCCEEDED" => Receipt(s, step[s].attempt, "SUCCEEDED") \in receipts
          /\ step[s].state = "ACTION_REQUIRED" =>
               Receipt(s, step[s].attempt, "ACTION_REQUIRED") \in receipts
          /\ step[s].state = "RUNNING" =>
               ~\E r \in receipts : r.step = s /\ r.attempt = step[s].attempt
      BY DEF ReceiptsMatch, Finished
    <3>4. QED BY <1>6, <3>1, <3>2, <3>3
  <2>3. QED BY <2>1, <2>2
<1>10. QED BY <1>7, <1>8, <1>9 DEF ReceiptsMatch, Finished

\* A step is attempted after all earlier ones succeeded: it was already
\* attempted, or its attempt does not change, or they have.
LEMMA OrderKept ==
  ASSUME TypeInv, InOrder, StepsGrow, NEW t \in Steps, OnlyStep(t),
         \/ step[t].attempt > 0
         \/ step'[t].attempt = step[t].attempt
         \/ \A u \in 1..(t - 1) : step[u].state = "SUCCEEDED"
  PROVE  InOrder'
<1> SUFFICES ASSUME NEW s \in Steps, step'[s].attempt > 0, NEW u \in 1..(s - 1)
             PROVE  step'[u].state = "SUCCEEDED"
  BY DEF InOrder
<1>1. u \in Steps BY SagaConstants DEF Steps
<1>2. step[u].state = "SUCCEEDED"
  <2>1. CASE s # t
    <3>1. step'[s] = step[s] BY <2>1 DEF OnlyStep, TypeInv, StepTyped
    <3>2. QED BY <3>1 DEF InOrder
  <2>2. CASE s = t BY <2>2 DEF InOrder
  <2>3. QED BY <2>1, <2>2
<1>3. QED BY <1>1, <1>2 DEF StepsGrow, Grows

-----------------------------------------------------------------------------
(* Steps and receipts: the actions *)

ForgetfulPCs == {"idle", "request"} \cup CommandPCs

LEMMA Forgets ==
  ASSUME NEW m, m.pc \in ForgetfulPCs, NEW st PROVE Remembers(m, st)
BY DEF Remembers, ForgetfulPCs, CommandPCs, ViewPCs, CompensatingPCs, ClaimedPCs

LEMMA OthersSame ==
  ASSUME WorkTyped, NEW w \in Workers, Only(w)
  PROVE  \A u \in Workers \ {w} : work'[u] = work[u]
BY DEF WorkTyped, Only

\* A worker reads, asks or gives up: the rows stay.
LEMMA QuietSteps ==
  ASSUME TypeInv, TypeInv', StepInv, NEW w \in Workers, Only(w),
         Remembers(work'[w], step'), UNCHANGED <<step, receipts>>,
         \A c \in Commands : cmd'[c].view = cmd[c].view
  PROVE  StepInv' /\ StepsGrow
<1>1. \A u \in Workers : work'[u] = work[u] \/ Remembers(work'[u], step')
  BY OthersSame DEF TypeInv
<1>2. StepsGrow /\ ReceiptsMatch' /\ InOrder' BY RowsQuiet
<1>3. QED BY <1>1, <1>2, MemoryKept

LEMMA ReadRequestSteps ==
  ASSUME TypeInv, StepInv, NEW w \in Workers, ReadRequest(w) PROVE StepInv' /\ StepsGrow
<1>1. TypeInv' /\ Only(w) BY ReadRequestTyped
<1>2. work'[w].pc = "request" BY DEF ReadRequest, Goto, TypeInv, WorkTyped, Idle
<1>3. Remembers(work'[w], step') BY <1>2, Forgets DEF ForgetfulPCs
<1>4. QED BY <1>1, <1>3, QuietSteps DEF ReadRequest, db

LEMMA ReadStepsSteps ==
  ASSUME TypeInv, StepInv, NEW w \in Workers, ReadSteps(w) PROVE StepInv' /\ StepsGrow
<1>1. TypeInv' /\ Only(w) BY ReadStepsTyped
<1>2. Remembers(work'[w], step)
  <2>0. work[w] \in WorkerRow BY DEF TypeInv, WorkTyped
  <2>1. CASE work'[w] = Idle BY <2>1, Forgets DEF ForgetfulPCs, Idle
  <2>2. CASE Unfinished = {} /\ work'[w] = [work[w] EXCEPT !.pc = "finalize"]
    <3>1. work'[w].pc = "finalize" BY <2>0, <2>2 DEF WorkerRow
    <3>2. \A t \in Steps : step[t].state = "SUCCEEDED" BY <2>2 DEF Unfinished
    <3>3. QED BY <3>1, <3>2 DEF Remembers, ClaimedPCs
  <2>3. CASE /\ Unfinished # {}
             /\ work'[w] = [work[w] EXCEPT
                  !.pc = "claim", !.s = Current, !.at = step[Current].attempt + 1,
                  !.fl = step[Current].floor, !.sr = step[Current].rev,
                  !.em = IF Current < Admin THEN None ELSE @]
    <3>1. /\ Current \in Steps
          /\ \A t \in 1..(Current - 1) : step[t].state = "SUCCEEDED"
      BY <2>3, SagaConstants, CurrentFirst
    <3>2. /\ work'[w].pc = "claim" /\ work'[w].s = Current
          /\ work'[w].at = step[Current].attempt + 1 /\ work'[w].sr = step[Current].rev
      BY <2>0, <2>3 DEF WorkerRow
    <3>3. step[Current].rev \in Nat BY <3>1 DEF TypeInv, StepTyped, StepRow
    <3>4. QED BY <3>1, <3>2, <3>3 DEF Remembers, ClaimedPCs
  <2>4. QED BY <2>1, <2>2, <2>3 DEF ReadSteps, Goto, TypeInv, WorkTyped
<1>3. QED BY <1>1, <1>2, QuietSteps DEF ReadSteps, db

\* The rows after a worker's transaction, when nobody else moved.
LEMMA WorkerSteps ==
  ASSUME TypeInv, TypeInv', StepInv, NEW w \in Workers, Only(w), StepsGrow,
         Remembers(work'[w], step'), ReceiptsMatch', InOrder', UNCHANGED cmd
  PROVE  StepInv'
<1>1. \A u \in Workers : work'[u] = work[u] \/ Remembers(work'[u], step')
  BY OthersSame DEF TypeInv
<1>2. QED BY <1>1, MemoryKept

LEMMA ClaimSteps ==
  ASSUME TypeInv, StepInv, NEW w \in Workers, Claim(w) PROVE StepInv' /\ StepsGrow
<1>1. TypeInv' /\ Only(w) BY ClaimTyped
<1>2. /\ work[w] \in WorkerRow /\ work[w].s \in Steps /\ step[work[w].s] \in StepRow
      /\ work[w].at \in Nat /\ work[w].sr \in Nat /\ step[work[w].s].rev \in Nat
      /\ step[work[w].s].attempt \in Nat
  BY DEF Claim, TypeInv, WorkTyped, Knows, WorkerRow, StepTyped, StepRow
<1>3. CASE work'[w] = Idle /\ UNCHANGED step
  <2>1. Remembers(work'[w], step') BY <1>3, Forgets DEF ForgetfulPCs, Idle
  <2>2. QED BY <1>1, <1>3, <2>1, QuietSteps DEF Claim
<1>4. CASE /\ step[work[w].s].rev = work[w].sr /\ step[work[w].s].state \in {"PENDING", "RUNNING"}
           /\ step' = [step EXCEPT ![work[w].s] =
                         [step[work[w].s] EXCEPT
                            !.state = "RUNNING", !.attempt = work[w].at, !.owner = w,
                            !.lapsed = FALSE, !.rev = @ + 1]]
           /\ work'[w] = [work[w] EXCEPT !.pc = "find", !.sr = @ + 1, !.st = None, !.rr = 0]
  <2>1. OnlyStep(work[w].s) BY <1>2, <1>4 DEF OnlyStep, TypeInv, StepTyped
  <2>2. /\ step'[work[w].s].state = "RUNNING" /\ step'[work[w].s].attempt = work[w].at
        /\ step'[work[w].s].rev = step[work[w].s].rev + 1
    BY <1>2, <1>4 DEF TypeInv, StepTyped, StepRow
  <2>3. Remembers(work[w], step) /\ work[w].pc = "claim" BY DEF StepInv, Claim
  <2>4. /\ work[w].at = step[work[w].s].attempt + 1
        /\ \A t \in 1..(work[w].s - 1) : step[t].state = "SUCCEEDED"
    BY <1>4, <2>3 DEF Remembers
  <2>5. Grows(step[work[w].s], step'[work[w].s]) BY <1>2, <1>4, <2>2 DEF Grows
  <2>6. StepsGrow BY <1>2, <2>1, <2>5, GrowsOnly DEF TypeInv
  <2>7. ReceiptsMatch'
    BY <1>1, <1>2, <1>4, <2>1, <2>2, <2>4, ReceiptsKept DEF StepInv, Claim
  <2>8. InOrder' BY <1>2, <2>1, <2>4, <2>6, OrderKept DEF StepInv
  <2>9. Remembers(work'[w], step')
    <3>1. /\ work'[w].pc = "find" /\ work'[w].s = work[w].s /\ work'[w].at = work[w].at
          /\ work'[w].sr = work[w].sr + 1
      BY <1>2, <1>4 DEF WorkerRow
    <3>2. QED BY <1>2, <1>4, <2>2, <3>1 DEF Remembers, ClaimedPCs
  <2>10. QED BY <1>1, <2>6, <2>7, <2>8, <2>9, WorkerSteps DEF Claim
<1>5. QED BY <1>3, <1>4 DEF Claim, Goto, TypeInv, WorkTyped

LEMMA FindStepSteps ==
  ASSUME TypeInv, StepInv, NEW w \in Workers, FindStep(w)
  PROVE  StepInv' /\ StepsGrow /\ work'[w].s = work[w].s /\ work'[w].sr = work[w].sr
<1>1. TypeInv' /\ Only(w) BY FindStepTyped
<1>2. work[w] \in WorkerRow /\ work[w].pc = "find" BY DEF FindStep, TypeInv, WorkTyped
<1>3. \/ work'[w] = [work[w] EXCEPT !.pc = "execute"]
      \/ work'[w] = [work[w] EXCEPT !.pc = "write", !.out = "ESCALATE"]
      \/ work'[w] = [work[w] EXCEPT !.pc = "write", !.out = "RETRY"]
      \/ work'[w] = [work[w] EXCEPT !.pc = "write", !.out = "DONE"]
      \/ work'[w] = [work[w] EXCEPT !.pc = "write", !.out = "CONFLICT"]
  BY DEF FindStep, Goto, TypeInv, WorkTyped
<1>4. /\ work'[w].pc \in {"execute", "write"} /\ work'[w].s = work[w].s
      /\ work'[w].at = work[w].at /\ work'[w].sr = work[w].sr
  BY <1>2, <1>3 DEF WorkerRow
<1>5. Remembers(work[w], step) BY DEF StepInv
<1>6. Remembers(work'[w], step) BY <1>2, <1>4, <1>5 DEF Remembers, ClaimedPCs
<1>7. QED BY <1>1, <1>4, <1>6, QuietSteps DEF FindStep, db

LEMMA ExecuteSteps ==
  ASSUME TypeInv, StepInv, NEW w \in Workers, Execute(w)
  PROVE  StepInv' /\ StepsGrow /\ work'[w].s = work[w].s /\ work'[w].sr = work[w].sr
<1>1. TypeInv' /\ Only(w) BY ExecuteTyped
<1>2. work[w] \in WorkerRow /\ work[w].pc = "execute" BY DEF Execute, TypeInv, WorkTyped
<1>3. PICK o : work' = [work EXCEPT ![w] = [work[w] EXCEPT !.pc = "write", !.out = o]]
  BY DEF Execute, Goto
<1>4. /\ work'[w].pc = "write" /\ work'[w].s = work[w].s
      /\ work'[w].at = work[w].at /\ work'[w].sr = work[w].sr
  BY <1>2, <1>3 DEF WorkerRow, TypeInv, WorkTyped
<1>5. Remembers(work[w], step) BY DEF StepInv
<1>6. Remembers(work'[w], step) BY <1>2, <1>4, <1>5 DEF Remembers, ClaimedPCs
<1>7. QED BY <1>1, <1>4, <1>6, QuietSteps DEF Execute, db

LEMMA HeartbeatSteps ==
  ASSUME TypeInv, StepInv, NEW w \in Workers, Heartbeat(w) PROVE StepInv' /\ StepsGrow
<1>1. /\ TypeInv' /\ Only(w) /\ OnlyStep(work[w].s)
      /\ Reads(step'[work[w].s], step[work[w].s].state, step[work[w].s].attempt,
               step[work[w].s].owner, step[work[w].s].rev + 1)
      /\ work'[w] = work[w] \/ work'[w] = [work[w] EXCEPT !.sr = @ + 1]
  BY HeartbeatTyped
<1>2. /\ work[w] \in WorkerRow /\ work[w].pc \in {"find", "execute"} /\ work[w].s \in Steps
      /\ step[work[w].s].rev \in Nat /\ work[w].sr \in Nat
      /\ step[work[w].s].rev = work[w].sr
  BY DEF Heartbeat, TypeInv, WorkTyped, Knows, ClaimedPCs, WorkerRow, StepTyped, StepRow, Holds
<1>3. Grows(step[work[w].s], step'[work[w].s]) BY <1>1, <1>2 DEF Grows, Reads
<1>4. StepsGrow BY <1>1, <1>2, <1>3, GrowsOnly DEF TypeInv
<1>5. ReceiptsMatch' BY <1>1, <1>2, ReceiptsKept DEF StepInv, Heartbeat, Reads
<1>6. InOrder' BY <1>1, <1>2, <1>4, OrderKept DEF StepInv, Reads
<1>7. Remembers(work[w], step) BY DEF StepInv
<1>8. Remembers(work'[w], step')
  <2>1. step'[work[w].s].rev = step[work[w].s].rev + 1
        /\ step'[work[w].s].attempt = step[work[w].s].attempt
    BY <1>1 DEF Reads
  <2>2. /\ work'[w].pc = work[w].pc /\ work'[w].s = work[w].s /\ work'[w].at = work[w].at
        /\ work'[w].sr \in {work[w].sr, work[w].sr + 1}
    BY <1>1, <1>2 DEF WorkerRow
  <2>3. work[w].at = step[work[w].s].attempt BY <1>2, <1>7 DEF Remembers, ClaimedPCs
  <2>4. QED BY <1>2, <2>1, <2>2, <2>3 DEF Remembers, ClaimedPCs
<1>9. QED BY <1>1, <1>4, <1>5, <1>6, <1>8, WorkerSteps DEF Heartbeat

\* The worker that holds the lease is the one whose attempt the row names.
LEMMA HolderIsClaimant ==
  ASSUME TypeInv, StepInv, NEW w \in Workers, work[w].pc = "write", Holds(w)
  PROVE  /\ work[w].s \in Steps /\ work[w].at \in Nat /\ work[w].at >= 1
         /\ step[work[w].s].state = "RUNNING" /\ work[w].at = step[work[w].s].attempt
<1>1. /\ work[w].s \in Steps /\ work[w].at \in Nat /\ work[w].at >= 1
      /\ Remembers(work[w], step)
  BY DEF TypeInv, WorkTyped, Knows, WorkerRow, ClaimedPCs, StepInv
<1>2. work[w].at = step[work[w].s].attempt BY <1>1 DEF Remembers, ClaimedPCs, Holds
<1>3. step[work[w].s].state = "RUNNING"
  BY <1>1, SagaConstants DEF Holds, TypeInv, StepTyped
<1>4. QED BY <1>1, <1>2, <1>3

LEMMA WriteOutcomeSteps ==
  ASSUME TypeInv, StepInv, NEW w \in Workers, WriteOutcome(w) PROVE StepInv' /\ StepsGrow
<1>1. /\ TypeInv' /\ Only(w) /\ work'[w] = Idle
      /\ Written(w) \/ UNCHANGED <<req, step, receipts>>
  BY WriteOutcomeTyped
<1>2. Remembers(work'[w], step') BY <1>1, Forgets DEF ForgetfulPCs, Idle
<1>3. CASE UNCHANGED <<req, step, receipts>>
  BY <1>1, <1>2, <1>3, QuietSteps DEF WriteOutcome
<1>4. CASE Written(w)
  <2>1. PICK st \in {"SUCCEEDED", "PENDING", "ACTION_REQUIRED"} :
          /\ Outcome(w, st)
          /\ \/ st = "PENDING" /\ UNCHANGED receipts
             \/ /\ st # "PENDING"
                /\ receipts' = receipts \cup {Receipt(work[w].s, work[w].at, st)}
    BY <1>4 DEF Written
  <2>2. /\ work[w].s \in Steps /\ work[w].at \in Nat /\ work[w].at >= 1
        /\ step[work[w].s].state = "RUNNING" /\ work[w].at = step[work[w].s].attempt
    BY <2>1, HolderIsClaimant DEF Outcome, WriteOutcome
  <2>3. /\ OnlyStep(work[w].s) /\ step'[work[w].s].state = st
        /\ step'[work[w].s].attempt = step[work[w].s].attempt
        /\ step'[work[w].s].rev = step[work[w].s].rev + 1
        /\ step[work[w].s].rev \in Nat
    BY <2>1, <2>2 DEF Outcome, Reads, TypeInv, StepTyped, StepRow
  <2>4. StepsGrow
    <3>1. Grows(step[work[w].s], step'[work[w].s]) BY <2>2, <2>3 DEF Grows
    <3>2. QED BY <2>2, <2>3, <3>1, GrowsOnly DEF TypeInv
  <2>5. ReceiptsMatch'
    <3>1. CASE st = "PENDING"
      BY <1>1, <2>1, <2>2, <2>3, <3>1, ReceiptsKept DEF StepInv
    <3>2. CASE st # "PENDING"
      <4>1. ~Finished(work[w].s, work[w].at) BY <2>2 DEF StepInv, ReceiptsMatch
      <4>2. QED BY <1>1, <2>1, <2>2, <2>3, <3>2, <4>1, ReceiptAdded DEF StepInv
    <3>3. QED BY <3>1, <3>2
  <2>6. InOrder' BY <2>2, <2>3, <2>4, OrderKept DEF StepInv
  <2>7. QED BY <1>1, <1>2, <2>4, <2>5, <2>6, WorkerSteps DEF WriteOutcome
<1>5. QED BY <1>1, <1>3, <1>4

LEMMA RecoveredSteps ==
  ASSUME TypeInv, TypeInv', StepInv, NEW w \in Workers, Only(w), Remembers(work'[w], step'),
         NEW st \in {"PENDING", "ACTION_REQUIRED"}, UNCHANGED <<receipts, cmd>>,
         Recovered(w, st, step[Command(w).view.s].attempt)
  PROVE  StepInv' /\ StepsGrow
<1>1. /\ Command(w).view.s \in Steps /\ OnlyStep(Command(w).view.s)
      /\ step[Command(w).view.s].state = "ACTION_REQUIRED"
      /\ step'[Command(w).view.s].state = st
      /\ step'[Command(w).view.s].attempt = step[Command(w).view.s].attempt
      /\ step'[Command(w).view.s].rev = step[Command(w).view.s].rev + 1
  BY DEF Recovered, Reads
<1>2. step[Command(w).view.s].rev \in Nat BY <1>1 DEF TypeInv, StepTyped, StepRow
<1>3. Grows(step[Command(w).view.s], step'[Command(w).view.s]) BY <1>1, <1>2 DEF Grows
<1>4. StepsGrow BY <1>1, <1>3, GrowsOnly DEF TypeInv
<1>5. ReceiptsMatch' BY <1>1, ReceiptsKept DEF StepInv
<1>6. InOrder' BY <1>1, <1>4, OrderKept DEF StepInv
<1>7. QED BY <1>4, <1>5, <1>6, WorkerSteps

LEMMA RetryStepSteps ==
  ASSUME TypeInv, StepInv, NEW w \in Workers, RetryStep(w) PROVE StepInv' /\ StepsGrow
<1>1. /\ TypeInv' /\ Only(w) /\ work'[w].pc = "finish"
      /\ UNCHANGED step \/ Recovered(w, "PENDING", step[Command(w).view.s].attempt)
  BY RetryStepTyped
<1>2. Remembers(work'[w], step') BY <1>1, Forgets DEF ForgetfulPCs, CommandPCs
<1>3. QED BY <1>1, <1>2, QuietSteps, RecoveredSteps DEF RetryStep

LEMMA IntentSteps ==
  ASSUME TypeInv, StepInv, NEW w \in Workers, Intent(w) PROVE StepInv' /\ StepsGrow
<1>1. /\ TypeInv' /\ Only(w) /\ work'[w].pc \in {"finish", "own"}
      /\ UNCHANGED step \/ Recovered(w, "ACTION_REQUIRED", step[Command(w).view.s].attempt)
  BY IntentTyped
<1>2. Remembers(work'[w], step')
  BY <1>1, Forgets DEF ForgetfulPCs, CommandPCs, ViewPCs, CompensatingPCs
<1>3. QED BY <1>1, <1>2, QuietSteps, RecoveredSteps DEF Intent

LEMMA CompensatedSteps ==
  ASSUME TypeInv, StepInv, NEW w \in Workers, Compensated(w) PROVE StepInv' /\ StepsGrow
<1>1. /\ TypeInv' /\ Only(w) /\ work'[w].pc = "finish"
      /\ UNCHANGED step \/ Recovered(w, "ACTION_REQUIRED", step[Command(w).view.s].attempt)
  BY CompensatedTyped
<1>2. Remembers(work'[w], step') BY <1>1, Forgets DEF ForgetfulPCs, CommandPCs
<1>3. QED BY <1>1, <1>2, QuietSteps, RecoveredSteps DEF Compensated

LEMMA AdoptSteps ==
  ASSUME TypeInv, StepInv, NEW w \in Workers, Adopt(w) PROVE StepInv' /\ StepsGrow
<1> DEFINE t == Command(w).view.s
           n == Command(w).view.attempt + 1
<1>1. /\ TypeInv' /\ Only(w) /\ work'[w].pc = "finish"
      /\ \/ UNCHANGED <<step, receipts>>
         \/ /\ Unmoved(w) /\ Recovered(w, "SUCCEEDED", n)
            /\ receipts' = receipts \cup {Receipt(t, n, "SUCCEEDED")}
  BY AdoptTyped
<1>2. Remembers(work'[w], step') BY <1>1, Forgets DEF ForgetfulPCs, CommandPCs
<1>3. CASE UNCHANGED <<step, receipts>> BY <1>1, <1>2, <1>3, QuietSteps DEF Adopt
<1>4. CASE /\ Unmoved(w) /\ Recovered(w, "SUCCEEDED", n)
           /\ receipts' = receipts \cup {Receipt(t, n, "SUCCEEDED")}
  <2>1. /\ t \in Steps /\ OnlyStep(t) /\ step[t].state = "ACTION_REQUIRED"
        /\ step'[t].state = "SUCCEEDED" /\ step'[t].attempt = n
        /\ step'[t].rev = step[t].rev + 1
    BY <1>4 DEF Recovered, Reads
  <2>2. step[t].rev \in Nat /\ step[t].attempt \in Nat BY <2>1 DEF TypeInv, StepTyped, StepRow
  <2>3. work[w].c \in Commands /\ Command(w).view # None
    BY ViewTyped DEF Adopt, ViewPCs
  <2>4. Command(w).view.attempt = step[t].attempt
    <3>1. Previewed(Command(w), step) BY <2>3 DEF StepInv, Command
    <3>2. QED BY <1>4, <2>3, <3>1 DEF Previewed, Unmoved
  <2>5. n = step[t].attempt + 1 BY <2>4
  <2> HIDE DEF t, n
  <2>6. StepsGrow
    <3>1. Grows(step[t], step'[t]) BY <2>1, <2>2 DEF Grows
    <3>2. QED BY <2>1, <3>1, GrowsOnly DEF TypeInv
  <2>7. step[t].attempt >= 1
    <3>1. Receipt(t, step[t].attempt, "ACTION_REQUIRED") \in receipts
      BY <2>1 DEF StepInv, ReceiptsMatch
    <3>2. /\ Receipt(t, step[t].attempt, "ACTION_REQUIRED").step = t
          /\ Receipt(t, step[t].attempt, "ACTION_REQUIRED").attempt = step[t].attempt
      BY DEF Receipt
    <3>3. step[t].attempt \in 1..step[t].attempt BY <3>1, <3>2 DEF StepInv, ReceiptsMatch
    <3>4. QED BY <2>2, <3>3
  <2>8. ~Finished(t, n)
    <3>1. \A r \in receipts : r.step = t => r.attempt \in 1..step[t].attempt
      BY DEF StepInv, ReceiptsMatch
    <3>2. QED BY <2>2, <2>5, <3>1 DEF Finished
  <2>9. ReceiptsMatch'
    <3>1. n \in Nat /\ n >= 1 /\ step[t].attempt <= n BY <2>2, <2>5
    <3>2. step[t].state # "SUCCEEDED" BY <2>1
    <3>3. QED BY <1>1, <1>4, <2>1, <2>8, <3>1, <3>2, ReceiptAdded DEF StepInv
  <2>10. InOrder' BY <2>1, <2>2, <2>6, <2>7, OrderKept DEF StepInv
  <2>11. QED BY <1>1, <1>2, <2>6, <2>9, <2>10, WorkerSteps DEF Adopt
<1>5. QED BY <1>1, <1>3, <1>4

LEMMA ClaimCommandSteps ==
  ASSUME TypeInv, StepInv, NEW w \in Workers, NEW c \in Commands, ClaimCommand(w, c)
  PROVE  StepInv' /\ StepsGrow
<1>1. /\ TypeInv' /\ Only(w) /\ work'[w].pc = "evaluate" /\ cmd'[c].view = cmd[c].view
      /\ \A d \in Commands \ {c} : cmd'[d] = cmd[d]
  BY ClaimCommandTyped
<1>2. Remembers(work'[w], step') BY <1>1, Forgets DEF ForgetfulPCs, CommandPCs
<1>3. \A d \in Commands : cmd'[d].view = cmd[d].view BY <1>1
<1>4. QED BY <1>1, <1>2, <1>3, QuietSteps DEF ClaimCommand, db

LEMMA FinishCommandSteps ==
  ASSUME TypeInv, StepInv, NEW w \in Workers, FinishCommand(w) PROVE StepInv' /\ StepsGrow
<1>1. TypeInv' /\ Only(w) /\ work'[w] = Idle BY FinishCommandTyped
<1>2. \A d \in Commands : cmd'[d].view = cmd[d].view
  <2>1. CASE UNCHANGED cmd BY <2>1
  <2>2. CASE cmd' # cmd BY <2>2, FinishCommandTyped
  <2>3. QED BY <2>1, <2>2
<1>3. Remembers(work'[w], step') BY <1>1, Forgets DEF ForgetfulPCs, Idle
<1>4. QED BY <1>1, <1>2, <1>3, QuietSteps DEF FinishCommand, db

\* The other steps of a worker only read, ask or give up.
LEMMA OtherWorkerSteps ==
  ASSUME TypeInv, StepInv, NEW w \in Workers,
         \/ Finalize(w) \/ Crash(w) \/ Evaluate(w) \/ MarkFailedFinal(w) \/ AdoptFind(w)
         \/ CheckOwned(w) \/ Delete(w)
  PROVE  StepInv' /\ StepsGrow
<1>1. /\ TypeInv' /\ Only(w)
      /\ work'[w].pc \in {"idle", "finish", "mark", "retry", "adopt", "intent", "commit",
                          "delete", "settle"}
  <2>1. CASE Finalize(w) BY <2>1, FinalizeTyped DEF Idle
  <2>2. CASE Crash(w) BY <2>2, CrashTyped DEF Idle
  <2>3. CASE Evaluate(w) BY <2>3, EvaluateTyped
  <2>4. CASE MarkFailedFinal(w) BY <2>4, MarkFailedFinalTyped
  <2>5. CASE AdoptFind(w) BY <2>5, AdoptFindTyped
  <2>6. CASE CheckOwned(w) BY <2>6, CheckOwnedTyped
  <2>7. CASE Delete(w) BY <2>7, DeleteTyped
  <2>8. QED BY <2>1, <2>2, <2>3, <2>4, <2>5, <2>6, <2>7
<1>2. Remembers(work'[w], step')
  BY <1>1, Forgets DEF ForgetfulPCs, CommandPCs, ViewPCs, CompensatingPCs
<1>3. UNCHANGED <<step, receipts, cmd>>
  BY DEF Finalize, Crash, Evaluate, MarkFailedFinal, AdoptFind, CheckOwned, Delete, db
<1>4. QED BY <1>1, <1>2, <1>3, QuietSteps

\* Nor do the operator's edits, late answers and the lapse of a command.
LEMMA OutsideSteps ==
  ASSUME TypeInv, TypeInv', StepInv, UNCHANGED <<step, receipts, work>>,
         \A c \in Commands : cmd'[c].view = cmd[c].view \/ Previewed(cmd'[c], step')
  PROVE  StepInv' /\ StepsGrow
<1>1. StepsGrow /\ ReceiptsMatch' /\ InOrder' BY RowsQuiet
<1>2. QED BY <1>1, MemoryKept

LEMMA SubmitSteps ==
  ASSUME TypeInv, StepInv, NEW c \in Commands, NEW a \in RecoveryActions, Submit(c, a)
  PROVE  StepInv' /\ StepsGrow
<1>1. /\ TypeInv' /\ cmd'[c].view = View(a) /\ \A d \in Commands \ {c} : cmd'[d] = cmd[d]
  BY SubmitTyped
<1>2. Previewed(cmd'[c], step)
  <2>1. View(a) # None =>
          /\ View(a).s \in Steps
          /\ View(a).rev = step[View(a).s].rev /\ View(a).attempt = step[View(a).s].attempt
    BY ViewShows
  <2>2. \A s \in Steps : step[s].rev \in Nat BY DEF TypeInv, StepTyped, StepRow
  <2>3. QED BY <1>1, <2>1, <2>2 DEF Previewed
<1>3. QED BY <1>1, <1>2, OutsideSteps DEF Submit, db

LEMMA StepLeaseLapsesSteps ==
  ASSUME TypeInv, StepInv, NEW s \in Steps, StepLeaseLapses(s) PROVE StepInv' /\ StepsGrow
<1>1. /\ TypeInv' /\ OnlyStep(s)
      /\ Reads(step'[s], step[s].state, step[s].attempt, step[s].owner, step[s].rev)
  BY StepLeaseLapsesTyped
<1>2. step[s].rev \in Nat BY DEF TypeInv, StepTyped, StepRow
<1>3. Grows(step[s], step'[s]) BY <1>1, <1>2 DEF Grows, Reads
<1>4. StepsGrow BY <1>1, <1>3, GrowsOnly DEF TypeInv
<1>5. ReceiptsMatch' BY <1>1, ReceiptsKept DEF StepInv, StepLeaseLapses, Reads
<1>6. InOrder' BY <1>1, <1>4, OrderKept DEF StepInv, Reads
<1>7. QED BY <1>1, <1>4, <1>5, <1>6, MemoryKept DEF StepLeaseLapses

\* Every step of the specification keeps the types and what is remembered, and
\* moves every row forward.
LEMMA NextSteps ==
  ASSUME TypeInv, StepInv, Next
  PROVE  TypeInv' /\ StepInv' /\ StepsGrow
<1>1. ASSUME NEW w \in Workers, SagaStep(w) PROVE TypeInv' /\ StepInv' /\ StepsGrow
  BY <1>1, ReadStepsTyped, ReadStepsSteps, ClaimTyped, ClaimSteps, FindStepTyped, FindStepSteps,
    ExecuteTyped, ExecuteSteps, WriteOutcomeTyped, WriteOutcomeSteps, FinalizeTyped,
    OtherWorkerSteps DEF SagaStep
<1>2. ASSUME NEW w \in Workers, CommandStep(w) PROVE TypeInv' /\ StepInv' /\ StepsGrow
  <2>1. CASE Evaluate(w) BY <2>1, EvaluateTyped, OtherWorkerSteps
  <2>2. CASE MarkFailedFinal(w) BY <2>2, MarkFailedFinalTyped, OtherWorkerSteps
  <2>3. CASE RetryStep(w) BY <2>3, RetryStepTyped, RetryStepSteps
  <2>4. CASE AdoptFind(w) BY <2>4, AdoptFindTyped, OtherWorkerSteps
  <2>5. CASE Adopt(w) BY <2>5, AdoptTyped, AdoptSteps
  <2>6. CASE Intent(w) BY <2>6, IntentTyped, IntentSteps
  <2>7. CASE CheckOwned(w) BY <2>7, CheckOwnedTyped, OtherWorkerSteps
  <2>8. CASE Delete(w) BY <2>8, DeleteTyped, OtherWorkerSteps
  <2>9. CASE Compensated(w) BY <2>9, CompensatedTyped, CompensatedSteps
  <2>10. CASE FinishCommand(w) BY <2>10, FinishCommandTyped, FinishCommandSteps
  <2>11. QED
    BY <1>2, <2>1, <2>2, <2>3, <2>4, <2>5, <2>6, <2>7, <2>8, <2>9, <2>10 DEF CommandStep
<1>3. ASSUME NEW w \in Workers, ReadRequest(w) \/ Heartbeat(w) \/ Crash(w)
      PROVE  TypeInv' /\ StepInv' /\ StepsGrow
  BY <1>3, ReadRequestTyped, ReadRequestSteps, HeartbeatTyped, HeartbeatSteps, CrashTyped,
    OtherWorkerSteps
<1>4. ASSUME NEW w \in Workers, NEW c \in Commands, ClaimCommand(w, c)
      PROVE  TypeInv' /\ StepInv' /\ StepsGrow
  BY <1>4, ClaimCommandTyped, ClaimCommandSteps
<1>5. CASE EditField
  <2>1. TypeInv' BY <1>5, EditFieldTyped
  <2>2. QED BY <1>5, <2>1, OutsideSteps DEF EditField
<1>6. ASSUME NEW e \in Emails, ChangeEmail(e) PROVE TypeInv' /\ StepInv' /\ StepsGrow
  <2>1. TypeInv' BY <1>6, ChangeEmailTyped
  <2>2. QED BY <1>6, <2>1, OutsideSteps DEF ChangeEmail
<1>7. ASSUME NEW c \in Commands, NEW a \in RecoveryActions, Submit(c, a)
      PROVE  TypeInv' /\ StepInv' /\ StepsGrow
  BY <1>7, SubmitTyped, SubmitSteps
<1>8. ASSUME NEW r \in Resources, Land(r) PROVE TypeInv' /\ StepInv' /\ StepsGrow
  <2>1. TypeInv' BY <1>8, LandTyped
  <2>2. QED BY <1>8, <2>1, OutsideSteps DEF Land, db
<1>9. ASSUME NEW s \in Steps, StepLeaseLapses(s) PROVE TypeInv' /\ StepInv' /\ StepsGrow
  BY <1>9, StepLeaseLapsesTyped, StepLeaseLapsesSteps
<1>10. ASSUME NEW c \in Commands, CommandLeaseLapses(c) PROVE TypeInv' /\ StepInv' /\ StepsGrow
  <2>1. TypeInv' /\ \A d \in Commands : cmd'[d].view = cmd[d].view
    BY <1>10, CommandLeaseLapsesTyped
  <2>2. QED BY <1>10, <2>1, OutsideSteps DEF CommandLeaseLapses, db
<1>11. QED
  BY <1>1, <1>2, <1>3, <1>4, <1>5, <1>6, <1>7, <1>8, <1>9, <1>10 DEF Next

-----------------------------------------------------------------------------
(* The request, its tenant and its reservations *)

OpenStatuses == {"PENDING", "RUNNING", "ACTION_REQUIRED"}

\* Most steps move the request between its open states at most.
StaysOpen ==
  /\ UNCHANGED <<tenant, ids>> /\ req'.email = req.email
  /\ req'.status = req.status \/ {req.status, req'.status} \subseteq OpenStatuses

LEMMA StaysOpenRequest ==
  ASSUME TypeInv, RequestInv, StepsGrow, StaysOpen
  PROVE  RequestInv'
<1>1. req'.status = "FAILED_FINAL" <=> req.status = "FAILED_FINAL" BY DEF StaysOpen, OpenStatuses
<1>2. req'.status = "SUCCEEDED" <=> req.status = "SUCCEEDED" BY DEF StaysOpen, OpenStatuses
<1>3. IdentityHeld' BY <1>1 DEF StaysOpen, RequestInv, IdentityHeld
<1>4. tenant' = "ACTIVE" => \A s \in Steps : step'[s].state = "SUCCEEDED"
  BY DEF StaysOpen, RequestInv, StepsGrow, Grows
<1>5. QED BY <1>2, <1>3, <1>4 DEF RequestInv, StaysOpen

\* Finalize, or nothing at all.
LEMMA FinalizeRequest ==
  ASSUME TypeInv, StepInv, RequestInv, StepsGrow, NEW w \in Workers, Finalize(w)
  PROVE  RequestInv'
<1>1. CASE UNCHANGED <<req, tenant, ids>>
  BY <1>1, StaysOpenRequest DEF StaysOpen
<1>2. CASE /\ req.status = "RUNNING"
           /\ req' = [req EXCEPT !.status = "SUCCEEDED", !.rev = @ + 1]
           /\ tenant' = "ACTIVE" /\ ReservationsTo("CONSUMED")
  <2>1. req'.status = "SUCCEEDED" /\ req'.email = req.email
    BY <1>2 DEF TypeInv, RequestTyped
  <2>2. tenant # "ACTIVE" BY <1>2 DEF RequestInv
  <2>3. \A s \in Steps : step'[s].state = "SUCCEEDED"
    <3>1. Remembers(work[w], step) /\ work[w].pc = "finalize" BY DEF StepInv, Finalize
    <3>2. QED BY <3>1 DEF Remembers, Finalize
  <2>4. \A e \in Emails : ids[e] \in {"HELD", "CONSUMED"} <=> e = req.email
    BY <1>2 DEF RequestInv, IdentityHeld, TypeInv, RequestTyped
  <2>5. \A e \in Emails : ids[e] # "CONSUMED" BY <2>2, <2>4 DEF RequestInv, IdentityHeld
  <2>6. \A e \in Emails : ids'[e] = IF e = req.email THEN "CONSUMED" ELSE ids[e]
    BY <1>2, <2>4, <2>5 DEF ReservationsTo
  <2>7. \A e \in Emails : ids'[e] \in {"HELD", "CONSUMED"} <=> e = req.email
    BY <2>4, <2>6
  <2>8. req.email \in Emails BY DEF TypeInv, RequestTyped
  <2>9. IdentityHeld' BY <1>2, <2>1, <2>6, <2>7, <2>8 DEF IdentityHeld
  <2>10. QED BY <1>2, <2>1, <2>3, <2>9 DEF RequestInv
<1>3. QED BY <1>1, <1>2 DEF Finalize

LEMMA MarkFailedFinalRequest ==
  ASSUME TypeInv, RequestInv, StepsGrow, NEW w \in Workers, MarkFailedFinal(w)
  PROVE  RequestInv'
<1>1. CASE UNCHANGED <<req, tenant, ids>>
  BY <1>1, StaysOpenRequest DEF StaysOpen
<1>2. CASE /\ req.status = "ACTION_REQUIRED"
           /\ req' = [req EXCEPT !.status = "FAILED_FINAL", !.rev = @ + 1]
           /\ UNCHANGED tenant /\ ReservationsTo("TOMBSTONED")
  <2>1. req'.status = "FAILED_FINAL" BY <1>2 DEF TypeInv, RequestTyped
  <2>2. tenant # "ACTIVE" BY <1>2 DEF RequestInv
  <2>3. \A e \in Emails : ids[e] # "CONSUMED"
    BY <1>2, <2>2 DEF RequestInv, IdentityHeld
  <2>4. \A e \in Emails : ids'[e] \notin {"HELD", "CONSUMED"}
    BY <1>2, <2>3 DEF ReservationsTo
  <2>5. IdentityHeld' BY <2>1, <2>4 DEF IdentityHeld
  <2>6. QED BY <1>2, <2>1, <2>2, <2>5 DEF RequestInv
<1>3. QED BY <1>1, <1>2 DEF MarkFailedFinal

LEMMA ChangeEmailRequest ==
  ASSUME TypeInv, RequestInv, NEW e \in Emails, ChangeEmail(e)
  PROVE  RequestInv'
<1>1. req.status \in OpenStatuses BY DEF ChangeEmail, Open, OpenStatuses
<1>2. req'.status = req.status /\ req'.email = e
  BY DEF ChangeEmail, TypeInv, RequestTyped
<1>3. tenant # "ACTIVE" /\ tenant' = tenant
  BY <1>1 DEF RequestInv, OpenStatuses, ChangeEmail
<1>4. req.email \in Emails /\ ids \in [Emails -> ReservationStates]
  BY DEF TypeInv, RequestTyped
<1>5. \A x \in Emails : ids[x] \in {"HELD", "CONSUMED"} <=> x = req.email
  BY <1>1, <1>4 DEF RequestInv, IdentityHeld, OpenStatuses
<1>6. \A x \in Emails : ids[x] # "CONSUMED" BY <1>3, <1>5 DEF RequestInv, IdentityHeld
<1>7. e # req.email BY <1>5 DEF ChangeEmail
<1>8. \A x \in Emails : ids'[x] = IF x = req.email THEN "TOMBSTONED"
                                  ELSE IF x = e THEN "HELD" ELSE ids[x]
  BY <1>4, <1>7 DEF ChangeEmail, Swapped
<1>9. \A x \in Emails : ids'[x] \in {"HELD", "CONSUMED"} <=> x = e
  BY <1>5, <1>7, <1>8
<1>10. \A x \in Emails : ids'[x] # "CONSUMED" BY <1>6, <1>8
<1>11. IdentityHeld' BY <1>1, <1>2, <1>3, <1>9, <1>10 DEF IdentityHeld, OpenStatuses
<1>12. QED BY <1>1, <1>2, <1>3, <1>11 DEF RequestInv, OpenStatuses

LEMMA ResumeStaysOpen ==
  ASSUME TypeInv, NEW w \in Workers, Unmoved(w), Resume, UNCHANGED <<tenant, ids>>
  PROVE  StaysOpen
BY DEF StaysOpen, Unmoved, Resume, OpenStatuses, TypeInv, RequestTyped

LEMMA NextRequest ==
  ASSUME TypeInv, StepInv, RequestInv, StepsGrow, Next
  PROVE  RequestInv'
<1>1. ASSUME NEW w \in Workers, SagaStep(w) PROVE RequestInv'
  <2>1. CASE ReadSteps(w) \/ FindStep(w) \/ Execute(w)
    BY <2>1, StaysOpenRequest DEF StaysOpen, ReadSteps, FindStep, Execute, db
  <2>2. CASE Claim(w)
    <3>1. StaysOpen BY <2>2 DEF Claim, StaysOpen, OpenStatuses, TypeInv, RequestTyped
    <3>2. QED BY <3>1, StaysOpenRequest
  <2>3. CASE WriteOutcome(w)
    <3>1. Written(w) \/ UNCHANGED req BY <2>3, WriteOutcomeTyped
    <3>2. StaysOpen
      BY <2>3, <3>1 DEF Written, WriteOutcome, StaysOpen, OpenStatuses, TypeInv, RequestTyped
    <3>3. QED BY <3>2, StaysOpenRequest
  <2>4. CASE Finalize(w) BY <2>4, FinalizeRequest
  <2>5. QED BY <1>1, <2>1, <2>2, <2>3, <2>4 DEF SagaStep
<1>2. ASSUME NEW w \in Workers, CommandStep(w) PROVE RequestInv'
  <2>1. CASE \/ Evaluate(w) \/ AdoptFind(w) \/ Intent(w) \/ CheckOwned(w) \/ Delete(w)
             \/ Compensated(w) \/ FinishCommand(w)
    BY <2>1, StaysOpenRequest
    DEF StaysOpen, Evaluate, AdoptFind, Intent, CheckOwned, Delete, Compensated, FinishCommand, db
  <2>2. CASE MarkFailedFinal(w) BY <2>2, MarkFailedFinalRequest
  <2>3. CASE RetryStep(w)
    <3>1. UNCHANGED req \/ (Unmoved(w) /\ Resume) BY <2>3 DEF RetryStep
    <3>2. StaysOpen BY <2>3, <3>1, ResumeStaysOpen DEF RetryStep, StaysOpen
    <3>3. QED BY <3>2, StaysOpenRequest
  <2>4. CASE Adopt(w)
    <3>1. UNCHANGED req \/ (Unmoved(w) /\ Resume) BY <2>4 DEF Adopt
    <3>2. StaysOpen BY <2>4, <3>1, ResumeStaysOpen DEF Adopt, StaysOpen
    <3>3. QED BY <3>2, StaysOpenRequest
  <2>5. QED BY <1>2, <2>1, <2>2, <2>3, <2>4 DEF CommandStep
<1>3. ASSUME NEW w \in Workers,
             \/ ReadRequest(w) \/ Heartbeat(w) \/ Crash(w)
             \/ \E c \in Commands : ClaimCommand(w, c)
      PROVE  RequestInv'
  BY <1>3, StaysOpenRequest DEF StaysOpen, ReadRequest, Heartbeat, Crash, ClaimCommand, db
<1>4. CASE EditField
  <2>1. StaysOpen BY <1>4 DEF EditField, StaysOpen, TypeInv, RequestTyped
  <2>2. QED BY <2>1, StaysOpenRequest
<1>5. ASSUME NEW e \in Emails, ChangeEmail(e) PROVE RequestInv'
  BY <1>5, ChangeEmailRequest
<1>6. CASE \/ \E c \in Commands, a \in RecoveryActions : Submit(c, a)
           \/ \E r \in Resources : Land(r)
           \/ \E s \in Steps : StepLeaseLapses(s)
           \/ \E c \in Commands : CommandLeaseLapses(c)
  BY <1>6, StaysOpenRequest
  DEF StaysOpen, Submit, Land, StepLeaseLapses, CommandLeaseLapses, db
<1>7. QED BY <1>1, <1>2, <1>3, <1>4, <1>5, <1>6 DEF Next

-----------------------------------------------------------------------------
(* Commands, and what a worker is about to say *)

LEMMA NextCommands ==
  ASSUME TypeInv, CommandInv, Next
  PROVE  CommandInv' /\ KeepsCommands
<1>1. CASE UNCHANGED cmd
  <2>1. KeepsCommands BY <1>1, FrameTyped DEF TypeInv
  <2>2. CommandInv' BY <1>1 DEF CommandInv
  <2>3. QED BY <2>1, <2>2
<1>2. ASSUME NEW w \in Workers, NEW c \in Commands, ClaimCommand(w, c)
      PROVE  CommandInv' /\ KeepsCommands
  <2>1. /\ KeepsCommands /\ cmd'[c].state = "RUNNING" /\ cmd'[c].attempt = cmd[c].attempt + 1
        /\ \A d \in Commands \ {c} : cmd'[d] = cmd[d]
    BY <1>2, ClaimCommandTyped
  <2>2. cmd[c].state \in {"QUEUED", "RUNNING"} /\ cmd[c].attempt \in Nat
    BY <1>2 DEF ClaimCommand, Due, TypeInv, CommandTyped, CommandRow
  <2>3. CommandInv' BY <2>1, <2>2 DEF CommandInv
  <2>4. QED BY <2>1, <2>3
<1>3. ASSUME NEW w \in Workers, FinishCommand(w), cmd' # cmd
      PROVE  CommandInv' /\ KeepsCommands
  <2>1. /\ KeepsCommands
        /\ cmd'[work[w].c].state \in {"SUCCEEDED", "REJECTED"}
        /\ \A d \in Commands \ {work[w].c} : cmd'[d] = cmd[d]
    BY <1>3, FinishCommandTyped
  <2>2. CommandInv' BY <2>1 DEF CommandInv
  <2>3. QED BY <2>1, <2>2
<1>4. ASSUME NEW c \in Commands, NEW a \in RecoveryActions, Submit(c, a)
      PROVE  CommandInv' /\ KeepsCommands
  <2>1. /\ KeepsCommands /\ cmd'[c].state = "QUEUED"
        /\ \A d \in Commands \ {c} : cmd'[d] = cmd[d]
    BY <1>4, SubmitTyped
  <2>2. \A d \in Commands : cmd[d].state \notin {"QUEUED", "RUNNING"}
    BY <1>4 DEF Submit, InProgress
  <2>3. CommandInv' BY <2>1, <2>2 DEF CommandInv
  <2>4. QED BY <2>1, <2>3
<1>5. ASSUME NEW c \in Commands, CommandLeaseLapses(c) PROVE CommandInv' /\ KeepsCommands
  <2>1. /\ KeepsCommands
        /\ \A d \in Commands : cmd'[d].state = cmd[d].state /\ cmd'[d].attempt = cmd[d].attempt
    BY <1>5, CommandLeaseLapsesTyped
  <2>2. CommandInv' BY <2>1 DEF CommandInv
  <2>3. QED BY <2>1, <2>2
<1>6. QED
  <2>1. ASSUME NEW w \in Workers, SagaStep(w) PROVE UNCHANGED cmd
    BY <2>1 DEF SagaStep, ReadSteps, Claim, FindStep, Execute, WriteOutcome, Finalize
  <2>2. ASSUME NEW w \in Workers, CommandStep(w) PROVE UNCHANGED cmd \/ FinishCommand(w)
    BY <2>2 DEF CommandStep, Evaluate, MarkFailedFinal, RetryStep, AdoptFind, Adopt, Intent,
      CheckOwned, Delete, Compensated
  <2>3. ASSUME NEW w \in Workers, ReadRequest(w) \/ Heartbeat(w) \/ Crash(w) PROVE UNCHANGED cmd
    BY <2>3 DEF ReadRequest, Heartbeat, Crash
  <2>4. CASE EditField \/ (\E e \in Emails : ChangeEmail(e)) \/ (\E r \in Resources : Land(r))
             \/ (\E s \in Steps : StepLeaseLapses(s))
    BY <1>1, <2>4 DEF EditField, ChangeEmail, Land, StepLeaseLapses
  <2>5. QED BY <1>1, <1>2, <1>3, <1>4, <1>5, <2>1, <2>2, <2>3, <2>4 DEF Next

\* Where a worker can be after a step, and how it got there.
Progress(u) ==
  /\ work'[u].pc = "write" => work'[u] = work[u] \/ FindStep(u) \/ Execute(u)
  /\ work'[u].pc = "commit" => work'[u] = work[u] \/ AdoptFind(u)
  /\ work'[u].pc \in CommandPCs =>
       \/ work[u].pc \in CommandPCs /\ work'[u].c = work[u].c
       \/ ClaimCommand(u, work'[u].c) /\ work'[u].pc = "evaluate"
  /\ work'[u].pc \in CompensatingPCs => work[u].pc \in CompensatingPCs \/ Intent(u)

LEMMA SagaProgress ==
  ASSUME TypeInv, NEW w \in Workers, SagaStep(w)
  PROVE  Only(w) /\ Progress(w)
<1>1. CASE ReadSteps(w)
  <2>1. Only(w) BY <1>1, ReadStepsTyped
  <2>2. work[w] \in WorkerRow BY DEF TypeInv, WorkTyped
  <2>3. work'[w].pc \in {"idle", "finalize", "claim"}
    BY <1>1, <2>2 DEF ReadSteps, Goto, Idle, TypeInv, WorkTyped, WorkerRow
  <2>4. QED BY <2>1, <2>3 DEF Progress, CommandPCs, ViewPCs, CompensatingPCs
<1>2. CASE Claim(w)
  <2>1. Only(w) BY <1>2, ClaimTyped
  <2>2. work[w] \in WorkerRow BY DEF TypeInv, WorkTyped
  <2>3. work'[w].pc \in {"idle", "find"}
    <3>1. \/ work'[w] = Idle
          \/ work'[w] = [work[w] EXCEPT !.pc = "find", !.sr = @ + 1, !.st = None, !.rr = 0]
      BY <1>2 DEF Claim, Goto, TypeInv, WorkTyped
    <3>2. CASE work'[w] = Idle BY <3>2 DEF Idle
    <3>3. CASE work'[w] = [work[w] EXCEPT !.pc = "find", !.sr = @ + 1, !.st = None, !.rr = 0]
      BY <2>2, <3>3 DEF WorkerRow
    <3>4. QED BY <3>1, <3>2, <3>3
  <2>4. QED BY <2>1, <2>3 DEF Progress, CommandPCs, ViewPCs, CompensatingPCs
<1>3. CASE FindStep(w)
  <2>1. Only(w) BY <1>3, FindStepTyped
  <2>2. work[w] \in WorkerRow BY DEF TypeInv, WorkTyped
  <2>3. work'[w].pc \in {"write", "execute"}
    <3>1. \/ work'[w] = [work[w] EXCEPT !.pc = "execute"]
          \/ \E o \in Outcomes : work'[w] = [work[w] EXCEPT !.pc = "write", !.out = o]
      BY <1>3 DEF FindStep, Goto, TypeInv, WorkTyped, Outcomes
    <3>2. QED BY <2>2, <3>1 DEF WorkerRow
  <2>4. QED BY <1>3, <2>1, <2>3 DEF Progress, CommandPCs, ViewPCs, CompensatingPCs
<1>4. CASE Execute(w)
  <2>1. Only(w) BY <1>4, ExecuteTyped
  <2>2. work[w] \in WorkerRow BY DEF TypeInv, WorkTyped
  <2>3. work'[w].pc = "write"
    BY <1>4, <2>2 DEF Execute, Goto, Idle, TypeInv, WorkTyped, WorkerRow
  <2>4. QED BY <1>4, <2>1, <2>3 DEF Progress, CommandPCs, ViewPCs, CompensatingPCs
<1>5. CASE WriteOutcome(w) \/ Finalize(w)
  <2>1. Only(w) /\ work'[w].pc = "idle" BY <1>5, WriteOutcomeTyped, FinalizeTyped DEF Idle
  <2>2. QED BY <2>1 DEF Progress, CommandPCs, ViewPCs, CompensatingPCs
<1>6. QED BY <1>1, <1>2, <1>3, <1>4, <1>5 DEF SagaStep

LEMMA CommandProgress ==
  ASSUME TypeInv, NEW w \in Workers, CommandStep(w)
  PROVE  Only(w) /\ Progress(w)
<1>1. CASE FinishCommand(w)
  <2>1. Only(w) /\ work'[w].pc = "idle" BY <1>1, FinishCommandTyped DEF Idle
  <2>2. QED BY <2>1 DEF Progress, CommandPCs, ViewPCs, CompensatingPCs
<1>2. CASE Evaluate(w)
  <2>1. /\ Only(w) /\ work'[w].c = work[w].c
        /\ work'[w].pc \in {"finish", "mark", "retry", "adopt", "intent"}
    BY <1>2, EvaluateTyped
  <2>2. work[w].pc = "evaluate" BY <1>2 DEF Evaluate
  <2>3. QED BY <2>1, <2>2 DEF Progress, CommandPCs, ViewPCs, CompensatingPCs
<1>3. CASE MarkFailedFinal(w) \/ RetryStep(w) \/ Adopt(w) \/ Compensated(w)
  <2>1. Only(w) /\ work'[w].c = work[w].c /\ work'[w].pc = "finish"
    BY <1>3, MarkFailedFinalTyped, RetryStepTyped, AdoptTyped, CompensatedTyped
  <2>2. work[w].pc \in {"mark", "retry", "commit", "settle"}
    BY <1>3 DEF MarkFailedFinal, RetryStep, Adopt, Compensated
  <2>3. QED BY <2>1, <2>2 DEF Progress, CommandPCs, ViewPCs, CompensatingPCs
<1>4. CASE AdoptFind(w)
  <2>1. Only(w) /\ work'[w].c = work[w].c /\ work'[w].pc \in {"finish", "commit"}
    BY <1>4, AdoptFindTyped
  <2>2. work[w].pc = "adopt" BY <1>4 DEF AdoptFind
  <2>3. QED BY <1>4, <2>1, <2>2 DEF Progress, CommandPCs, ViewPCs, CompensatingPCs
<1>5. CASE Intent(w)
  <2>1. Only(w) /\ work'[w].c = work[w].c /\ work'[w].pc \in {"finish", "own"}
    BY <1>5, IntentTyped
  <2>2. work[w].pc = "intent" BY <1>5 DEF Intent
  <2>3. QED BY <1>5, <2>1, <2>2 DEF Progress, CommandPCs, ViewPCs, CompensatingPCs
<1>6. CASE CheckOwned(w)
  <2>1. Only(w) /\ work'[w].c = work[w].c /\ work'[w].pc \in {"finish", "delete"}
    BY <1>6, CheckOwnedTyped
  <2>2. work[w].pc = "own" BY <1>6 DEF CheckOwned
  <2>3. QED BY <2>1, <2>2 DEF Progress, CommandPCs, ViewPCs, CompensatingPCs
<1>7. CASE Delete(w)
  <2>1. Only(w) /\ work'[w].c = work[w].c /\ work'[w].pc \in {"finish", "settle"}
    BY <1>7, DeleteTyped
  <2>2. work[w].pc = "delete" BY <1>7 DEF Delete
  <2>3. QED BY <2>1, <2>2 DEF Progress, CommandPCs, ViewPCs, CompensatingPCs
<1>8. QED BY <1>1, <1>2, <1>3, <1>4, <1>5, <1>6, <1>7 DEF CommandStep

LEMMA NextProgress ==
  ASSUME TypeInv, Next, NEW u \in Workers
  PROVE  Progress(u)
<1>1. CASE work'[u] = work[u] BY <1>1 DEF Progress
<1>2. ASSUME NEW w \in Workers, Only(w), Progress(w) PROVE Progress(u)
  <2>1. u = w \/ work'[u] = work[u] BY <1>2, OthersSame DEF TypeInv
  <2>2. QED BY <1>1, <1>2, <2>1
<1>3. ASSUME NEW w \in Workers, ReadRequest(w) \/ Crash(w) \/ Heartbeat(w) PROVE Progress(u)
  <2>1. CASE Crash(w)
    <3>1. Only(w) /\ work'[w].pc = "idle" BY <2>1, CrashTyped DEF Idle
    <3>2. QED BY <1>2, <3>1 DEF Progress, CommandPCs, ViewPCs, CompensatingPCs
  <2>2. CASE ReadRequest(w)
    <3>1. Only(w) BY <2>2, ReadRequestTyped
    <3>2. work'[w].pc = "request" BY <2>2 DEF ReadRequest, Goto, TypeInv, WorkTyped, Idle
    <3>3. QED BY <1>2, <3>1, <3>2 DEF Progress, CommandPCs, ViewPCs, CompensatingPCs
  <2>3. CASE Heartbeat(w)
    <3>1. /\ Only(w)
          /\ work'[w] = work[w] \/ work'[w] = [work[w] EXCEPT !.sr = @ + 1]
      BY <2>3, HeartbeatTyped
    <3>2. work[w] \in WorkerRow /\ work[w].pc \in {"find", "execute"}
      BY <2>3 DEF Heartbeat, TypeInv, WorkTyped
    <3>3. work'[w].pc \in {"find", "execute"} BY <3>1, <3>2 DEF WorkerRow
    <3>4. QED BY <1>2, <3>1, <3>3 DEF Progress, CommandPCs, ViewPCs, CompensatingPCs
  <2>4. QED BY <1>3, <2>1, <2>2, <2>3
<1>4. ASSUME NEW w \in Workers, NEW c \in Commands, ClaimCommand(w, c) PROVE Progress(u)
  <2>1. Only(w) /\ work'[w].pc = "evaluate" /\ work'[w].c = c BY <1>4, ClaimCommandTyped
  <2>2. QED BY <1>2, <1>4, <2>1 DEF Progress, CommandPCs, ViewPCs, CompensatingPCs
<1>5. CASE \/ EditField \/ (\E e \in Emails : ChangeEmail(e)) \/ (\E r \in Resources : Land(r))
           \/ (\E s \in Steps : StepLeaseLapses(s)) \/ (\E c \in Commands : CommandLeaseLapses(c))
           \/ (\E c \in Commands, a \in RecoveryActions : Submit(c, a))
  BY <1>1, <1>5 DEF EditField, ChangeEmail, Land, StepLeaseLapses, CommandLeaseLapses, Submit
<1>6. QED BY <1>2, <1>3, <1>4, <1>5, SagaProgress, CommandProgress DEF Next

-----------------------------------------------------------------------------
(* How a step's row and the outside world move *)

LEMMA OtherRows ==
  ASSUME StepTyped, NEW t, OnlyStep(t), NEW s \in Steps, s # t
  PROVE  step'[s] = step[s]
BY DEF StepTyped, OnlyStep

\* Everything that may happen to the state and the lease of step s.
RowMove(s) ==
  \/ step'[s].state = step[s].state /\ step'[s].owner = step[s].owner
  \/ step[s].state \in {"PENDING", "RUNNING"} /\ step'[s].state = "RUNNING"
  \/ \E w \in Workers :
       /\ WriteOutcome(w) /\ Holds(w) /\ work[w].s = s /\ step'[s].owner = None
       /\ step'[s].state = "SUCCEEDED" => work[w].out = "DONE"
  \/ \E w \in Workers :
       /\ RetryStep(w) /\ Command(w).view.s = s
       /\ step[s].state = "ACTION_REQUIRED" /\ step'[s].state = "PENDING"
  \/ \E w \in Workers :
       /\ Adopt(w) /\ Command(w).view.s = s
       /\ step[s].state = "ACTION_REQUIRED" /\ step'[s].state = "SUCCEEDED"

LEMMA SagaRows ==
  ASSUME TypeInv, NEW w \in Workers, SagaStep(w), NEW s \in Steps
  PROVE  RowMove(s)
<1>1. CASE UNCHANGED step BY <1>1 DEF RowMove
<1>2. CASE Claim(w)
  <2>1. CASE s # work[w].s
    <3>1. step'[s] = step[s] BY <1>2, <2>1 DEF Claim, TypeInv, StepTyped
    <3>2. QED BY <3>1 DEF RowMove
  <2>2. CASE s = work[w].s /\ step' # step
    <3>1. step[s] \in StepRow BY DEF TypeInv, StepTyped
    <3>2. /\ step[s].state \in {"PENDING", "RUNNING"}
          /\ step'[s] = [step[s] EXCEPT !.state = "RUNNING", !.attempt = work[w].at, !.owner = w,
                                        !.lapsed = FALSE, !.rev = @ + 1]
      BY <1>2, <2>2 DEF Claim, TypeInv, StepTyped
    <3>3. step'[s].state = "RUNNING" BY <3>1, <3>2 DEF StepRow
    <3>4. QED BY <3>2, <3>3 DEF RowMove
  <2>3. QED BY <1>1, <2>1, <2>2
<1>3. CASE WriteOutcome(w)
  <2>1. Written(w) \/ UNCHANGED step BY <1>3, WriteOutcomeTyped
  <2>2. CASE Written(w)
    <3>1. PICK st \in {"SUCCEEDED", "PENDING", "ACTION_REQUIRED"} :
            Outcome(w, st) /\ (st = "SUCCEEDED" => work[w].out = "DONE")
      BY <2>2 DEF Written
    <3>2. CASE s = work[w].s
      BY <1>3, <3>1, <3>2 DEF RowMove, Outcome, Reads
    <3>3. CASE s # work[w].s
      <4>1. step'[s] = step[s] BY <3>1, <3>3, OtherRows DEF Outcome, TypeInv
      <4>2. QED BY <4>1 DEF RowMove
    <3>4. QED BY <3>2, <3>3
  <2>3. QED BY <1>1, <2>1, <2>2
<1>4. QED BY <1>1, <1>2, <1>3 DEF SagaStep, ReadSteps, FindStep, Execute, Finalize, db

LEMMA CommandRows ==
  ASSUME TypeInv, NEW w \in Workers, CommandStep(w), NEW s \in Steps
  PROVE  RowMove(s)
<1>1. CASE UNCHANGED step BY <1>1 DEF RowMove
<1>2. ASSUME NEW st, NEW n, Recovered(w, st, n)
      PROVE  \/ s # Command(w).view.s /\ step'[s] = step[s]
             \/ /\ s = Command(w).view.s /\ step[s].state = "ACTION_REQUIRED"
                /\ step'[s].state = st /\ step'[s].owner = step[s].owner
  <2>1. CASE s # Command(w).view.s
    BY <1>2, <2>1, OtherRows DEF Recovered, TypeInv
  <2>2. CASE s = Command(w).view.s
    <3>1. step[s].owner = None BY <1>2, <2>2 DEF Recovered, TypeInv, StepTyped
    <3>2. QED BY <1>2, <2>2, <3>1 DEF Recovered, Reads
  <2>3. QED BY <2>1, <2>2
<1>3. CASE RetryStep(w)
  <2>1. UNCHANGED step \/ Recovered(w, "PENDING", step[Command(w).view.s].attempt)
    BY <1>3, RetryStepTyped
  <2>2. QED BY <1>1, <1>2, <1>3, <2>1 DEF RowMove
<1>4. CASE Adopt(w)
  <2>1. UNCHANGED step \/ Recovered(w, "SUCCEEDED", Command(w).view.attempt + 1)
    BY <1>4, AdoptTyped
  <2>2. QED BY <1>1, <1>2, <1>4, <2>1 DEF RowMove
<1>5. CASE Intent(w) \/ Compensated(w)
  <2>1. UNCHANGED step \/ Recovered(w, "ACTION_REQUIRED", step[Command(w).view.s].attempt)
    BY <1>5, IntentTyped, CompensatedTyped
  <2>2. QED BY <1>1, <1>2, <2>1 DEF RowMove
<1>6. QED
  BY <1>1, <1>3, <1>4, <1>5
  DEF CommandStep, Evaluate, MarkFailedFinal, AdoptFind, CheckOwned, Delete, FinishCommand, db

LEMMA NextRows ==
  ASSUME TypeInv, Next, NEW s \in Steps
  PROVE  RowMove(s)
<1>1. CASE UNCHANGED step BY <1>1 DEF RowMove
<1>2. ASSUME NEW t, OnlyStep(t), step'[t].state = step[t].state, step'[t].owner = step[t].owner
      PROVE  RowMove(s)
  <2>1. CASE s = t BY <1>2, <2>1 DEF RowMove
  <2>2. CASE s # t
    <3>1. step'[s] = step[s] BY <1>2, <2>2, OtherRows DEF TypeInv
    <3>2. QED BY <3>1 DEF RowMove
  <2>3. QED BY <2>1, <2>2
<1>3. ASSUME NEW w \in Workers, Heartbeat(w) PROVE RowMove(s)
  BY <1>2, <1>3, HeartbeatTyped DEF Reads
<1>4. ASSUME NEW t \in Steps, StepLeaseLapses(t) PROVE RowMove(s)
  BY <1>2, <1>4, StepLeaseLapsesTyped DEF Reads
<1>5. ASSUME NEW w \in Workers,
             ReadRequest(w) \/ Crash(w) \/ \E c \in Commands : ClaimCommand(w, c)
      PROVE  RowMove(s)
  BY <1>1, <1>5 DEF ReadRequest, Crash, ClaimCommand, db
<1>6. CASE \/ EditField \/ (\E e \in Emails : ChangeEmail(e)) \/ (\E r \in Resources : Land(r))
           \/ (\E c \in Commands : CommandLeaseLapses(c))
           \/ (\E c \in Commands, a \in RecoveryActions : Submit(c, a))
  BY <1>1, <1>6 DEF EditField, ChangeEmail, Land, CommandLeaseLapses, Submit, db
<1>7. QED BY <1>3, <1>4, <1>5, <1>6, SagaRows, CommandRows DEF Next

\* The users row is mapped once, and only a compensation takes something away:
\* the organization.
ExternalMove ==
  /\ mapped # None => mapped' = mapped
  /\ \A r \in world : r # Res(Org, None) => r \in world'
  /\ \/ \A r \in world : r \in world'
     \/ \E w \in Workers : Delete(w)

LEMMA ExternalMoves ==
  ASSUME TypeInv, Next PROVE ExternalMove
<1>1. CASE UNCHANGED <<world, mapped>> BY <1>1 DEF ExternalMove
<1>2. ASSUME NEW w \in Workers, Execute(w) PROVE ExternalMove
  <2>1. work[w].s \in Steps BY <1>2 DEF Execute, TypeInv, WorkTyped, Knows, ClaimedPCs
  <2>2. PICK a \in ExecuteAnswers(work[w].s, work[w].em) :
          world' = world \cup a.made /\ mapped' = a.map
    BY <1>2 DEF Execute
  <2>3. a.map = mapped \/ (a.map = work[w].em /\ mapped \in {None, work[w].em})
    BY <2>1, ExecuteCreates
  <2>4. QED BY <2>2, <2>3 DEF ExternalMove
<1>3. ASSUME NEW w \in Workers, Delete(w) PROVE ExternalMove
  <2>1. world' \in {world, world \ {Res(Org, None)}} BY <1>3, DeleteTyped
  <2>2. QED BY <1>3, <2>1 DEF ExternalMove, Delete
<1>4. ASSUME NEW r, Land(r) PROVE ExternalMove
  BY <1>4 DEF Land, ExternalMove
<1>5. ASSUME NEW w \in Workers, SagaStep(w) PROVE ExternalMove
  BY <1>1, <1>2, <1>5 DEF SagaStep, ReadSteps, Claim, FindStep, WriteOutcome, Finalize, ext
<1>6. ASSUME NEW w \in Workers, CommandStep(w) PROVE ExternalMove
  BY <1>1, <1>3, <1>6 DEF CommandStep, Evaluate, MarkFailedFinal, RetryStep, AdoptFind, Adopt,
    Intent, CheckOwned, Compensated, FinishCommand, ext
<1>7. ASSUME NEW w \in Workers,
             \/ ReadRequest(w) \/ Heartbeat(w) \/ Crash(w)
             \/ \E c \in Commands : ClaimCommand(w, c)
      PROVE  ExternalMove
  BY <1>1, <1>7 DEF ReadRequest, Heartbeat, Crash, ClaimCommand, ext
<1>8. CASE \/ EditField \/ (\E e \in Emails : ChangeEmail(e))
           \/ (\E s \in Steps : StepLeaseLapses(s)) \/ (\E c \in Commands : CommandLeaseLapses(c))
           \/ (\E c \in Commands, a \in RecoveryActions : Submit(c, a))
  BY <1>1, <1>8
  DEF EditField, ChangeEmail, StepLeaseLapses, CommandLeaseLapses, Submit, ext
<1>9. QED BY <1>4, <1>5, <1>6, <1>7, <1>8 DEF Next

-----------------------------------------------------------------------------
(* The first admin *)

\* A worker about to record success has seen the resource, or just made it.
LEMMA Witnessed ==
  ASSUME TypeInv, NEW w \in Workers, FindStep(w) \/ Execute(w),
         work'[w].pc = "write", work'[w].out = "DONE", work'[w].s \in {Org, Admin}
  PROVE  /\ Res(work'[w].s, work'[w].em) \in world'
         /\ work'[w].s = Admin => mapped' = work'[w].em /\ work'[w].em \in Emails
<1>1. /\ work[w] \in WorkerRow /\ work[w].s \in Steps
      /\ work[w].s = Admin => work[w].em \in Emails
  BY DEF FindStep, Execute, TypeInv, WorkTyped, Knows, ClaimedPCs
<1>2. CASE FindStep(w)
  <2>1. PICK o \in Outcomes :
          /\ work'[w] = [work[w] EXCEPT !.pc = "write", !.out = o]
          /\ o = "DONE" => Find(work[w].s, work[w].em) = "FOUND"
    <3>1. \/ work'[w] = [work[w] EXCEPT !.pc = "execute"]
          \/ \E o \in Outcomes :
               /\ work'[w] = [work[w] EXCEPT !.pc = "write", !.out = o]
               /\ o = "DONE" => Find(work[w].s, work[w].em) = "FOUND"
      BY <1>2 DEF FindStep, Goto, TypeInv, WorkTyped, Outcomes
    <3>2. QED BY <1>1, <3>1 DEF WorkerRow
  <2>2. work'[w].s = work[w].s /\ work'[w].em = work[w].em /\ o = "DONE"
    BY <1>1, <2>1 DEF WorkerRow
  <2>3. Res(work[w].s, work[w].em) \in world /\ (work[w].s = Admin => mapped = work[w].em)
    BY <2>1, <2>2, FoundIsThere
  <2>4. QED BY <1>1, <1>2, <2>2, <2>3 DEF FindStep, ext
<1>3. CASE Execute(w)
  <2>1. PICK a \in ExecuteAnswers(work[w].s, work[w].em) :
          /\ world' = world \cup a.made /\ mapped' = a.map
          /\ work'[w] = [work[w] EXCEPT !.pc = "write", !.out = a.out]
    BY <1>3 DEF Execute, Goto, TypeInv, WorkTyped
  <2>2. work'[w].s = work[w].s /\ work'[w].em = work[w].em /\ a.out = "DONE"
    BY <1>1, <2>1 DEF WorkerRow
  <2>3. /\ work[w].s = Admin => a.map = work[w].em /\ a.made = {Res(work[w].s, work[w].em)}
        /\ work[w].s = Org => a.made = {Res(work[w].s, work[w].em)}
    BY <1>1, <2>2, ExecuteCreates
  <2>4. QED BY <1>1, <2>1, <2>2, <2>3
<1>4. QED BY <1>2, <1>3

\* So has a command about to adopt the resource.
LEMMA AdoptWitnessed ==
  ASSUME TypeInv, NEW w \in Workers, AdoptFind(w), work'[w].pc = "commit"
  PROVE  /\ work[w].em \in Emails /\ work'[w].c = work[w].c
         /\ Res(cmd[work[w].c].view.s, work[w].em) \in world'
         /\ cmd[work[w].c].view.s = Admin => mapped' = work[w].em
<1>1. work[w].em \in Emails BY DEF AdoptFind, TypeInv, WorkTyped, Knows, ViewPCs
<1>2. work'[w].c = work[w].c /\ Find(Command(w).view.s, work[w].em) = "FOUND"
  BY AdoptFindTyped
<1>3. /\ Res(Command(w).view.s, work[w].em) \in world
      /\ Command(w).view.s = Admin => mapped = work[w].em
  BY <1>2, FoundIsThere
<1>4. QED BY <1>1, <1>2, <1>3 DEF AdoptFind, ext, Command

\* The command of a worker that is to commit shows the same preview.
LEMMA SamePreview ==
  ASSUME TypeInv, KeepsCommands, NEW m, Knows(m), Runs(m, cmd), m.pc \in CommandPCs
  PROVE  m.c \in Commands /\ cmd'[m.c].view = cmd[m.c].view
BY DEF KeepsCommands, Knows, Runs

LEMMA NextAdmin ==
  ASSUME TypeInv, AdminInv, KeepsCommands, Next
  PROVE  AdminInv'
<1>0. None \notin Emails /\ Admin \in Steps BY SagaConstants
<1>1. HasAdmin(world, mapped) => HasAdmin(world', mapped')
  <2>1. ExternalMove BY ExternalMoves
  <2>2. QED BY <2>1, AdminIsNotOrg DEF ExternalMove, HasAdmin
<1>2. ASSUME NEW w \in Workers, SawAdmin(work'[w], cmd') PROVE HasAdmin(world', mapped')
  <2>1. Progress(w) BY NextProgress
  <2>2. Knows(work[w]) /\ Runs(work[w], cmd) BY DEF TypeInv, WorkTyped
  <2>3. CASE work'[w].pc = "write" /\ work'[w].out = "DONE" /\ work'[w].s = Admin
    <3>1. CASE work'[w] = work[w]
      <4>1. SawAdmin(work[w], cmd) BY <2>3, <3>1 DEF SawAdmin
      <4>2. QED BY <1>1, <4>1 DEF AdminInv
    <3>2. CASE FindStep(w) \/ Execute(w)
      <4>1. Res(Admin, work'[w].em) \in world' /\ mapped' = work'[w].em /\ work'[w].em \in Emails
        BY <2>3, <3>2, Witnessed
      <4>2. QED BY <1>0, <4>1 DEF HasAdmin
    <3>3. QED BY <2>1, <2>3, <3>1, <3>2 DEF Progress
  <2>4. CASE work'[w].pc = "commit" /\ cmd'[work'[w].c].view.s = Admin
    <3>1. CASE work'[w] = work[w]
      <4>1. cmd'[work[w].c].view = cmd[work[w].c].view
        BY <2>2, <2>4, <3>1, SamePreview DEF CommandPCs, ViewPCs
      <4>2. SawAdmin(work[w], cmd) BY <2>4, <3>1, <4>1 DEF SawAdmin
      <4>3. QED BY <1>1, <4>2 DEF AdminInv
    <3>2. CASE AdoptFind(w)
      <4>1. UNCHANGED cmd BY <3>2 DEF AdoptFind
      <4>2. /\ Res(Admin, work[w].em) \in world' /\ mapped' = work[w].em /\ work[w].em \in Emails
        BY <2>4, <3>2, <4>1, AdoptWitnessed
      <4>3. QED BY <1>0, <4>2 DEF HasAdmin
    <3>3. QED BY <2>1, <2>4, <3>1, <3>2 DEF Progress
  <2>5. QED BY <1>2, <2>3, <2>4 DEF SawAdmin
<1>3. ASSUME step'[Admin].state = "SUCCEEDED" PROVE HasAdmin(world', mapped')
  <2>1. RowMove(Admin) BY <1>0, NextRows
  <2>2. CASE step[Admin].state = "SUCCEEDED" BY <1>1, <2>2 DEF AdminInv
  <2>3. ASSUME NEW w \in Workers, WriteOutcome(w), work[w].s = Admin, work[w].out = "DONE"
        PROVE  HasAdmin(world', mapped')
    <3>1. SawAdmin(work[w], cmd) BY <2>3 DEF SawAdmin, WriteOutcome
    <3>2. QED BY <1>1, <3>1 DEF AdminInv
  <2>4. ASSUME NEW w \in Workers, Adopt(w), Command(w).view.s = Admin
        PROVE  HasAdmin(world', mapped')
    <3>1. SawAdmin(work[w], cmd) BY <2>4 DEF SawAdmin, Adopt, Command
    <3>2. QED BY <1>1, <3>1 DEF AdminInv
  <2>5. QED BY <1>3, <2>1, <2>2, <2>3, <2>4 DEF RowMove
<1>4. QED BY <1>2, <1>3 DEF AdminInv

-----------------------------------------------------------------------------
(* Who ends an attempt *)

\* A step that is RUNNING leaves that state only with the outcome its claimant
\* writes.
LEMMA NextOutcome ==
  ASSUME TypeInv, StepInv, Next, NEW s \in Steps,
         step[s].state = "RUNNING", step'[s].state # "RUNNING"
  PROVE  \E w \in Workers : work[w].pc = "write" /\ work[w].s = s /\ work[w].at = step[s].attempt
<1>1. RowMove(s) BY NextRows
<1>2. PICK w \in Workers : WriteOutcome(w) /\ Holds(w) /\ work[w].s = s BY <1>1 DEF RowMove
<1>3. work[w].pc = "write" BY <1>2 DEF WriteOutcome
<1>4. QED BY <1>2, <1>3, HolderIsClaimant

-----------------------------------------------------------------------------
(* The organization *)

\* Everything that may happen to the state, the owner and the attempt of the
\* row of command c.
CommandMove(c) ==
  \/ /\ cmd'[c].state = cmd[c].state /\ cmd'[c].owner = cmd[c].owner
     /\ cmd'[c].attempt = cmd[c].attempt
  \/ cmd[c].state = "NONE" /\ cmd'[c].attempt = cmd[c].attempt
  \/ \E w \in Workers : ClaimCommand(w, c)
  \/ \E w \in Workers :
       /\ FinishCommand(w) /\ work[w].c = c /\ cmd[c].owner = w
       /\ cmd'[c].attempt = cmd[c].attempt

LEMMA NextCommandRows ==
  ASSUME TypeInv, Next, NEW c \in Commands
  PROVE  CommandMove(c)
<1>1. CASE cmd'[c] = cmd[c] BY <1>1 DEF CommandMove
<1>2. ASSUME NEW w \in Workers, NEW d \in Commands, ClaimCommand(w, d) PROVE CommandMove(c)
  <2>1. \A x \in Commands \ {d} : cmd'[x] = cmd[x] BY <1>2, ClaimCommandTyped
  <2>2. CASE c = d BY <1>2, <2>2 DEF CommandMove
  <2>3. QED BY <1>1, <2>1, <2>2
<1>3. ASSUME NEW w \in Workers, FinishCommand(w) PROVE CommandMove(c)
  <2>1. \/ UNCHANGED cmd
        \/ /\ cmd[work[w].c].owner = w
           /\ cmd'[work[w].c].attempt = cmd[work[w].c].attempt
           /\ \A d \in Commands \ {work[w].c} : cmd'[d] = cmd[d]
    BY <1>3, FinishCommandTyped
  <2>2. CASE c = work[w].c /\ cmd' # cmd BY <1>3, <2>1, <2>2 DEF CommandMove
  <2>3. QED BY <1>1, <2>1, <2>2
<1>4. ASSUME NEW d \in Commands, NEW a \in RecoveryActions, Submit(d, a) PROVE CommandMove(c)
  <2>1. /\ cmd'[d].attempt = cmd[d].attempt
        /\ \A x \in Commands \ {d} : cmd'[x] = cmd[x]
    BY <1>4, SubmitTyped
  <2>2. CASE c = d BY <1>4, <2>1, <2>2 DEF CommandMove, Submit
  <2>3. QED BY <1>1, <2>1, <2>2
<1>5. ASSUME NEW d \in Commands, CommandLeaseLapses(d) PROVE CommandMove(c)
  BY <1>5, CommandLeaseLapsesTyped DEF CommandMove
<1>6. ASSUME NEW w \in Workers, SagaStep(w) PROVE UNCHANGED cmd
  BY <1>6 DEF SagaStep, ReadSteps, Claim, FindStep, Execute, WriteOutcome, Finalize
<1>7. ASSUME NEW w \in Workers, CommandStep(w) PROVE UNCHANGED cmd \/ FinishCommand(w)
  BY <1>7 DEF CommandStep, Evaluate, MarkFailedFinal, RetryStep, AdoptFind, Adopt, Intent,
    CheckOwned, Delete, Compensated
<1>8. ASSUME NEW w \in Workers, ReadRequest(w) \/ Heartbeat(w) \/ Crash(w) PROVE UNCHANGED cmd
  BY <1>8 DEF ReadRequest, Heartbeat, Crash
<1>9. CASE EditField \/ (\E e \in Emails : ChangeEmail(e)) \/ (\E r \in Resources : Land(r))
           \/ (\E s \in Steps : StepLeaseLapses(s))
  BY <1>1, <1>9 DEF EditField, ChangeEmail, Land, StepLeaseLapses
<1>10. QED BY <1>1, <1>2, <1>3, <1>4, <1>5, <1>6, <1>7, <1>8, <1>9 DEF Next

\* Attempts are only ever added.
LEMMA OnceBefore ==
  ASSUME TypeInv, Next, Once(cmd') PROVE Once(cmd)
<1>1. ASSUME NEW c \in Commands PROVE cmd[c].attempt <= 1
  <2>1. cmd[c].attempt \in Nat BY DEF TypeInv, CommandTyped, CommandRow
  <2>2. cmd'[c].attempt \in {cmd[c].attempt, cmd[c].attempt + 1}
    BY NextCommandRows, ClaimCommandTyped DEF CommandMove
  <2>3. cmd'[c].attempt <= 1 BY DEF Once
  <2>4. QED BY <2>1, <2>2, <2>3
<1>2. QED BY <1>1 DEF Once

\* While no command was taken over, one worker at most runs one ...
LEMMA OneRunner ==
  ASSUME TypeInv, CommandInv, OrgInv, Once(cmd), NEW u \in Workers, NEW v \in Workers,
         work[u].pc \in CommandPCs, work[v].pc \in CommandPCs
  PROVE  u = v
<1>1. Alone(u, work[u], step, cmd) /\ Alone(v, work[v], step, cmd) BY DEF OrgInv
<1>2. work[u].c \in Commands /\ work[v].c \in Commands BY DEF TypeInv, WorkTyped, Knows
<1>3. work[u].c = work[v].c BY <1>1, <1>2 DEF Alone, CommandInv
<1>4. QED BY <1>1, <1>3 DEF Alone

\* ... and it is the command's owner.
LEMMA RunnerOwns ==
  ASSUME TypeInv, TypeInv', CommandInv, OrgInv, Once(cmd), Once(cmd'), Next,
         NEW u \in Workers, work'[u].pc \in CommandPCs
  PROVE  cmd'[work'[u].c].state = "RUNNING" /\ cmd'[work'[u].c].owner = u
<1>1. Progress(u) BY NextProgress
<1>2. CASE work[u].pc \in CommandPCs /\ work'[u].c = work[u].c
  <2>1. /\ work[u].c \in Commands /\ cmd[work[u].c].state = "RUNNING"
        /\ cmd[work[u].c].owner = u
    BY <1>2 DEF OrgInv, Alone, TypeInv, WorkTyped, Knows
  <2>2. cmd[work[u].c].attempt >= 1 /\ cmd[work[u].c].attempt \in Nat
    BY <2>1 DEF CommandInv, TypeInv, CommandTyped, CommandRow
  <2>3. CommandMove(work[u].c) BY <2>1, NextCommandRows
  <2>4. ASSUME NEW w \in Workers, ClaimCommand(w, work[u].c) PROVE FALSE
    <3>1. cmd'[work[u].c].attempt = cmd[work[u].c].attempt + 1
      BY <2>1, <2>4, ClaimCommandTyped
    <3>2. cmd'[work[u].c].attempt <= 1 BY <2>1 DEF Once
    <3>3. QED BY <2>2, <3>1, <3>2
  <2>5. ASSUME NEW w \in Workers, FinishCommand(w), cmd[work[u].c].owner = w PROVE FALSE
    <3>1. w = u BY <2>1, <2>5
    <3>2. work'[u].pc = "idle" BY <2>5, <3>1, FinishCommandTyped DEF Idle
    <3>3. QED BY <3>2 DEF CommandPCs, ViewPCs, CompensatingPCs
  <2>6. QED BY <1>2, <2>1, <2>3, <2>4, <2>5 DEF CommandMove
<1>3. CASE ClaimCommand(u, work'[u].c)
  <2>1. work'[u].c \in Commands BY DEF TypeInv, WorkTyped, Knows
  <2>2. QED BY <1>3, <2>1, ClaimCommandTyped
<1>4. QED BY <1>1, <1>2, <1>3 DEF Progress

\* Whoever compensates finds the organization's step waiting for the operator.
LEMMA CompensationWaits ==
  ASSUME TypeInv, CommandInv, OrgInv, Once(cmd), Next,
         NEW u \in Workers, work'[u].pc \in CompensatingPCs
  PROVE  step'[Org].state = "ACTION_REQUIRED"
<1>0. Org \in Steps BY SagaConstants
<1>1. Progress(u) BY NextProgress
<1>2. CASE work[u].pc \in CompensatingPCs
  <2>1. step[Org].state = "ACTION_REQUIRED" BY <1>2 DEF OrgInv, Alone
  <2>2. step[Org].owner = None BY <1>0, <2>1 DEF TypeInv, StepTyped
  <2>3. RowMove(Org) BY <1>0, NextRows
  <2>4. ASSUME NEW w \in Workers, WriteOutcome(w), Holds(w), work[w].s = Org PROVE FALSE
    BY <2>2, <2>4, SagaConstants DEF Holds
  <2>5. ASSUME NEW w \in Workers, RetryStep(w) \/ Adopt(w) PROVE FALSE
    <3>1. work[w].pc \in {"retry", "commit"} BY <2>5 DEF RetryStep, Adopt
    <3>2. work[w].pc \in CommandPCs /\ work[u].pc \in CommandPCs
      BY <1>2, <3>1 DEF CommandPCs, ViewPCs
    <3>3. w = u BY <3>2, OneRunner
    <3>4. QED BY <1>2, <3>1, <3>3 DEF CompensatingPCs
  <2>6. QED BY <2>1, <2>3, <2>4, <2>5 DEF RowMove
<1>3. CASE Intent(u)
  <2>1. Command(u).view.s = Org BY <1>3 DEF Intent, TypeInv, WorkTyped, Runs, Command
  <2>2. work'[u].pc # "finish" BY DEF CompensatingPCs
  <2>3. Recovered(u, "ACTION_REQUIRED", step[Command(u).view.s].attempt)
    BY <1>3, <2>2, IntentTyped
  <2>4. QED BY <2>1, <2>3 DEF Recovered, Reads
<1>4. QED BY <1>1, <1>2, <1>3 DEF Progress

\* Nobody is about to say that the organization is there when it is deleted.
LEMMA DeleteUnseen ==
  ASSUME TypeInv, CommandInv, OrgInv, Once(cmd), NEW w \in Workers, Delete(w)
  PROVE  /\ step'[Org].state # "SUCCEEDED"
         /\ \A u \in Workers : ~SawOrg(u, work'[u], step', cmd')
<1>0. Org \in Steps BY SagaConstants
<1>1. work[w].pc = "delete" /\ UNCHANGED <<step, cmd>> BY DEF Delete, db
<1>2. step[Org].state = "ACTION_REQUIRED" BY <1>1 DEF OrgInv, Alone, CompensatingPCs
<1>3. step[Org].owner = None BY <1>0, <1>2 DEF TypeInv, StepTyped
<1>4. Only(w) /\ work'[w].pc \in {"finish", "settle"} BY DeleteTyped
<1>5. ASSUME NEW u \in Workers, SawOrg(u, work'[u], step', cmd') PROVE FALSE
  <2>1. work'[u].pc = "commit"
    <3>1. step'[Org].owner # u BY <1>1, <1>3, SagaConstants
    <3>2. QED BY <1>5, <3>1 DEF SawOrg
  <2>2. u # w BY <1>4, <2>1
  <2>3. work[u].pc = "commit" BY <1>4, <2>1, <2>2, OthersSame DEF TypeInv
  <2>4. work[u].pc \in CommandPCs /\ work[w].pc \in CommandPCs
    BY <1>1, <2>3 DEF CommandPCs, ViewPCs, CompensatingPCs
  <2>5. QED BY <2>2, <2>4, OneRunner
<1>6. QED BY <1>1, <1>2, <1>5

\* A lease that is still the worker's was the worker's before.
LEMMA StillHolds ==
  ASSUME TypeInv, TypeInv', StepInv, StepsGrow, NEW u \in Workers, work[u].pc = "write",
         work[u].s = Org, step'[Org].owner = u, step'[Org].rev = work[u].sr
  PROVE  step[Org].owner = u /\ step[Org].rev = work[u].sr
<1>0. Org \in Steps BY SagaConstants
<1>1. step[Org].rev \in Nat /\ step'[Org].rev \in Nat BY <1>0 DEF TypeInv, StepTyped, StepRow
<1>2. work[u].sr <= step[Org].rev BY DEF StepInv, Remembers, ClaimedPCs
<1>3. Grows(step[Org], step'[Org]) BY <1>0 DEF StepsGrow
<1>4. step[Org].rev = step'[Org].rev BY <1>1, <1>2, <1>3 DEF Grows
<1>5. QED BY <1>3, <1>4 DEF Grows

\* An organization does not depend on the address.
LEMMA OrgResource ==
  ASSUME NEW e PROVE Res(Org, e) = Res(Org, None)
BY SagaConstants DEF Res, Steps

LEMMA NextOrg ==
  ASSUME TypeInv, TypeInv', StepInv, CommandInv, OrgInv, StepsGrow, KeepsCommands, Next
  PROVE  OrgInv'
<1> SUFFICES ASSUME Once(cmd')
             PROVE  /\ \A w \in Workers : Alone(w, work'[w], step', cmd')
                    /\ \A w \in Workers :
                         SawOrg(w, work'[w], step', cmd') => Res(Org, None) \in world'
                    /\ step'[Org].state = "SUCCEEDED" => Res(Org, None) \in world'
  BY DEF OrgInv
<1>0. Org \in Steps BY SagaConstants
<1>1. Once(cmd) BY OnceBefore
<1>2. \A w \in Workers : Alone(w, work'[w], step', cmd')
  BY <1>1, RunnerOwns, CompensationWaits DEF Alone
<1>3. CASE \E w \in Workers : Delete(w)
  BY <1>1, <1>2, <1>3, DeleteUnseen
<1>4. CASE \A r \in world : r \in world'
  <2>1. ASSUME NEW w \in Workers, SawOrg(w, work[w], step, cmd) PROVE Res(Org, None) \in world'
    BY <1>1, <1>4, <2>1 DEF OrgInv
  <2>2. ASSUME NEW w \in Workers, SawOrg(w, work'[w], step', cmd')
        PROVE  Res(Org, None) \in world'
    <3>1. Progress(w) /\ Knows(work[w]) /\ Runs(work[w], cmd)
      BY NextProgress DEF TypeInv, WorkTyped
    <3>2. CASE /\ work'[w].pc = "write" /\ work'[w].out = "DONE" /\ work'[w].s = Org
               /\ step'[Org].owner = w /\ step'[Org].rev = work'[w].sr
      <4>1. CASE work'[w] = work[w]
        <5>1. step[Org].owner = w /\ step[Org].rev = work[w].sr BY <3>2, <4>1, StillHolds
        <5>2. SawOrg(w, work[w], step, cmd) BY <3>2, <4>1, <5>1 DEF SawOrg
        <5>3. QED BY <2>1, <5>2
      <4>2. CASE FindStep(w) \/ Execute(w)
        <5>1. Res(Org, work'[w].em) \in world' BY <3>2, <4>2, Witnessed
        <5>2. QED BY <5>1, OrgResource
      <4>3. QED BY <3>1, <3>2, <4>1, <4>2 DEF Progress
    <3>3. CASE work'[w].pc = "commit" /\ cmd'[work'[w].c].view.s = Org
      <4>1. CASE work'[w] = work[w]
        <5>1. cmd'[work[w].c].view = cmd[work[w].c].view
          BY <3>1, <3>3, <4>1, SamePreview DEF CommandPCs, ViewPCs
        <5>2. SawOrg(w, work[w], step, cmd) BY <3>3, <4>1, <5>1 DEF SawOrg
        <5>3. QED BY <2>1, <5>2
      <4>2. CASE AdoptFind(w)
        <5>1. UNCHANGED cmd BY <4>2 DEF AdoptFind
        <5>2. Res(Org, work[w].em) \in world' BY <3>3, <4>2, <5>1, AdoptWitnessed
        <5>3. QED BY <5>2, OrgResource
      <4>3. QED BY <3>1, <3>3, <4>1, <4>2 DEF Progress
    <3>4. QED BY <2>2, <3>2, <3>3 DEF SawOrg
  <2>3. ASSUME step'[Org].state = "SUCCEEDED" PROVE Res(Org, None) \in world'
    <3>1. RowMove(Org) BY <1>0, NextRows
    <3>2. CASE step[Org].state = "SUCCEEDED" BY <1>1, <1>4, <3>2 DEF OrgInv
    <3>3. ASSUME NEW w \in Workers, WriteOutcome(w), Holds(w), work[w].s = Org,
                 work[w].out = "DONE"
          PROVE  Res(Org, None) \in world'
      <4>1. SawOrg(w, work[w], step, cmd) BY <3>3 DEF SawOrg, WriteOutcome, Holds
      <4>2. QED BY <2>1, <4>1
    <3>4. ASSUME NEW w \in Workers, Adopt(w), Command(w).view.s = Org
          PROVE  Res(Org, None) \in world'
      <4>1. SawOrg(w, work[w], step, cmd) BY <3>4 DEF SawOrg, Adopt, Command
      <4>2. QED BY <2>1, <4>1
    <3>5. QED BY <2>3, <3>1, <3>2, <3>3, <3>4 DEF RowMove
  <2>4. QED BY <1>2, <2>2, <2>3
<1>5. QED BY <1>3, <1>4, ExternalMoves DEF ExternalMove

-----------------------------------------------------------------------------
(* The theorems *)

LEMMA SagaInit == Init => SagaInv
<1> SUFFICES ASSUME Init PROVE SagaInv OBVIOUS
<1>1. TypeInv BY InitTyped
<1>2. /\ \A s \in Steps : step[s].state = "PENDING" /\ step[s].attempt = 0
      /\ \A c \in Commands : /\ cmd[c].state = "NONE" /\ cmd[c].view = None
                             /\ cmd[c].attempt = 0
      /\ \A w \in Workers : work[w].pc = "idle"
  BY DEF Init, Idle
<1>3. StepInv
  <2>1. ReceiptsMatch BY <1>2 DEF Init, ReceiptsMatch
  <2>2. InOrder BY <1>2 DEF InOrder
  <2>3. \A w \in Workers : Remembers(work[w], step) BY <1>2, Forgets DEF ForgetfulPCs
  <2>4. QED BY <1>2, <2>1, <2>2, <2>3 DEF StepInv, Previewed
<1>4. RequestInv
  <2>1. IdentityHeld BY DEF Init, IdentityHeld
  <2>2. QED BY <2>1 DEF Init, RequestInv
<1>5. AdminInv
  <2>1. Admin \in Steps BY SagaConstants
  <2>2. QED BY <1>2, <2>1 DEF AdminInv, SawAdmin
<1>6. CommandInv BY <1>2 DEF CommandInv
<1>7. OrgInv
  <2>1. Org \in Steps BY SagaConstants
  <2>2. \A w \in Workers : Alone(w, work[w], step, cmd)
    BY <1>2 DEF Alone, CommandPCs, ViewPCs, CompensatingPCs
  <2>3. QED BY <1>2, <2>1, <2>2 DEF OrgInv, SawOrg
<1>8. QED BY <1>1, <1>3, <1>4, <1>5, <1>6, <1>7 DEF SagaInv

LEMMA SagaStutters ==
  ASSUME SagaInv, UNCHANGED vars PROVE SagaInv'
<1>1. /\ UNCHANGED <<req, tenant, ids, step, receipts, cmd, work>>
      /\ UNCHANGED <<world, foreign, mapped, posts, faults, edits, beats>>
  BY DEF vars, db, ext, bounds
<1>2. TypeInv'
  BY <1>1, FrameTyped, StillTyped DEF SagaInv, TypeInv
<1>3. StepInv' BY <1>1 DEF SagaInv, StepInv, ReceiptsMatch, InOrder, Finished
<1>4. RequestInv' BY <1>1 DEF SagaInv, RequestInv, IdentityHeld
<1>5. AdminInv' BY <1>1 DEF SagaInv, AdminInv
<1>6. CommandInv' BY <1>1 DEF SagaInv, CommandInv
<1>7. OrgInv' BY <1>1 DEF SagaInv, OrgInv
<1>8. QED BY <1>2, <1>3, <1>4, <1>5, <1>6, <1>7 DEF SagaInv

\* The inductive invariant of the saga: whatever the workers, the operator, the
\* outside world and time do, the rows, the receipts, what every worker and
\* every command remembers of them, the reservations and the outside world fit
\* together (provisioning-saga.ts, provisioning-recovery.ts and the ports of
\* keycloak-provisioning-ports.ts).
THEOREM SagaInvariance == Spec => []SagaInv
<1>1. Init => SagaInv BY SagaInit
<1>2. SagaInv /\ [Next]_vars => SagaInv'
  <2> SUFFICES ASSUME SagaInv, [Next]_vars PROVE SagaInv' OBVIOUS
  <2>1. CASE UNCHANGED vars BY <2>1, SagaStutters
  <2>2. CASE Next
    <3>1. TypeInv' /\ StepInv' /\ StepsGrow BY <2>2, NextSteps DEF SagaInv
    <3>2. RequestInv' BY <2>2, <3>1, NextRequest DEF SagaInv
    <3>3. CommandInv' /\ KeepsCommands BY <2>2, NextCommands DEF SagaInv
    <3>4. AdminInv' BY <2>2, <3>3, NextAdmin DEF SagaInv
    <3>5. OrgInv' BY <2>2, <3>1, <3>3, NextOrg DEF SagaInv
    <3>6. QED BY <3>1, <3>2, <3>3, <3>4, <3>5 DEF SagaInv
  <2>3. QED BY <2>1, <2>2
<1>3. QED BY <1>1, <1>2, PTL DEF Spec

\* Every row and every worker is always in one of the states the code knows,
\* and a step is leased exactly while it is RUNNING.
THEOREM SagaTypes == Spec => []STypeOK
<1>1. SagaInv => STypeOK BY TypeParts DEF SagaInv
<1>2. QED BY <1>1, SagaInvariance, PTL

\* The append-only receipts and the steps' rows tell the same story, however
\* many workers succeed, escalate, retry or adopt: succeed, escalate and
\* reconcile insert exactly one receipt for every attempt that ended.
THEOREM ReceiptsAlwaysMatch == Spec => []ReceiptsMatch
<1>1. SagaInv => ReceiptsMatch BY DEF SagaInv, StepInv
<1>2. QED BY <1>1, SagaInvariance, PTL

\* No step is attempted before all earlier ones have succeeded for good,
\* however old the rows are that currentStep was computed from.
THEOREM StepsInOrder == Spec => []InOrder
<1>1. SagaInv => InOrder BY DEF SagaInv, StepInv
<1>2. QED BY <1>1, SagaInvariance, PTL

\* The address of the request is reserved as long as the request is open and
\* for ever once its tenant is active, and no other address is: acceptance,
\* changeFirstAdminEmail, complete and transition keep the two together.
THEOREM AddressHeld == Spec => []IdentityHeld
<1>1. SagaInv => IdentityHeld BY DEF SagaInv, RequestInv
<1>2. QED BY <1>1, SagaInvariance, PTL

\* A tenant that finalize activated has its organization and its mapped first
\* admin, unless a recovery command was taken over from a worker that may still
\* be running it.
THEOREM ActivatedUsable == Spec => []ActiveUsable
<1>1. SagaInv => ActiveUsable
  <2> SUFFICES ASSUME SagaInv, tenant = "ACTIVE", Once(cmd)
               PROVE  /\ Res(Org, None) \in world
                      /\ mapped # None /\ Res(Admin, mapped) \in world
    BY DEF ActiveUsable, Once
  <2>1. Org \in Steps /\ Admin \in Steps BY SagaConstants
  <2>2. step[Org].state = "SUCCEEDED" /\ step[Admin].state = "SUCCEEDED"
    BY <2>1 DEF SagaInv, RequestInv
  <2>3. QED BY <2>2 DEF SagaInv, OrgInv, AdminInv, HasAdmin
<1>2. QED BY <1>1, SagaInvariance, PTL

\* Only the worker whose attempt the row names ends that attempt: the guarded
\* updates of succeed, scheduleRetry and escalate refuse a worker whose lease
\* was taken over, and no recovery command touches a step that is RUNNING.
THEOREM OnlyClaimantEnds == Spec => OutcomeByClaimant
<1>1. SagaInv /\ [Next]_vars =>
        [\A s \in Steps :
           step[s].state = "RUNNING" /\ step'[s].state # "RUNNING" =>
             \E w \in Workers : /\ work[w].pc = "write" /\ work[w].s = s
                                /\ work[w].at = step[s].attempt]_vars
  BY NextOutcome DEF SagaInv
<1>2. QED BY <1>1, SagaInvariance, PTL DEF Spec, OutcomeByClaimant

=============================================================================
