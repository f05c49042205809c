------------------------- MODULE InboundVoiceRouter -------------------------
(***************************************************************************)
(* The inbound voice router of apps/router (queues without a managed voice *)
(* configuration): the interaction rows, the log of agent states, the      *)
(* handlers of telephony events and agent requests, the timer that works   *)
(* off whatever is due, and the two operations of the agent's work session *)
(* that touch offers.                                                      *)
(*                                                                         *)
(* The database runs at READ COMMITTED.  A handler reads the row in one    *)
(* step and, in a later one, updates it under whatever condition its WHERE *)
(* clause re-evaluates on the row as it is then; in between everything     *)
(* else may happen.  The timer is ONE transaction over all calls of the    *)
(* tenant: it sees its own writes, keeps the rows it wrote and the agents  *)
(* it chose locked, and nobody else sees anything before it commits.  The  *)
(* query for an agent takes its snapshot first and locks the users row     *)
(* afterwards, without looking at the log again.                           *)
(*                                                                         *)
(* Time is abstracted to what has come due.                                *)
(***************************************************************************)
EXTENDS Naturals, FiniteSets

CONSTANTS
  Calls,
  Ivr,         \* calls to a destination that starts with the IVR
  Agents,
  Handlers,    \* transactions of events and requests that may overlap
  Timeouts,    \* offerTimeoutAction of the queue: one of these
  Waits,       \* maxWaitAction: one of these, "NONE" without a maxWaitSec
  MaxFaults,   \* bound: transactions lost, and messages lost after a commit
  None

ASSUME RouterConstants ==
  /\ Ivr \subseteq Calls
  /\ Timeouts \subseteq {"REQUEUE", "COOLDOWN_REQUEUE", "ABANDON"}
  /\ Waits \subseteq {"NONE", "WAIT", "LEAVE"}
  /\ MaxFaults \in Nat
  /\ None \notin Calls \cup Agents

VARIABLES
  policy,   \* what resolveQueuePolicy returns for the queue: [timeout, wait]
  call,     \* interactions
  latest,   \* the newest entry of each agent's agent_state_logs: [state, call]
  phone,    \* the caller's channel, and whether its hangup event was consumed
  asked,    \* calls the telephony gateway was told to bridge to an agent
  round,    \* what the transaction of processDue has in hand
  req,      \* what each handler has in hand
  stale,    \* agents about whom some transaction acted on outdated knowledge
  faults

vars == <<policy, call, latest, phone, asked, round, req, stale, faults>>

-----------------------------------------------------------------------------
\* Rows

NoRow == [state |-> "NONE", agent |-> None, offer |-> "NONE", requeue |-> "NONE",
          ivr |-> "NONE", missed |-> FALSE, over |-> FALSE]

Queued == [NoRow EXCEPT !.state = "QUEUED"]

\* The fields an assignment writes.
Offered(row, a) == [row EXCEPT !.state = "ASSIGNED", !.agent = a, !.offer = "RINGING"]

\* A row back in the queue, to be routed again when requeueAt says so.
Unassigned(row, again) ==
  [row EXCEPT !.state = "QUEUED", !.agent = None, !.offer = "NONE", !.requeue = again]

\* An entry of the log; its reason matters only while it reserves.
Entry(s, i) == [state |-> s, call |-> IF s = "RESERVED" THEN i ELSE None]

\* The agent log entry with which a missed or declined offer ends.
Relieved(i) ==
  IF policy.timeout = "COOLDOWN_REQUEUE" THEN Entry("COOLING", None) ELSE Entry("AVAILABLE", i)

NoRequest == [op |-> "idle", i |-> None, event |-> FALSE, state |-> "NONE", agent |-> None,
              ringing |-> FALSE, missed |-> FALSE, cand |-> {}]

NoRound == [pc |-> "idle", todo |-> {}, i |-> None, cand |-> {}, locks |-> {},
            rows |-> [i \in Calls |-> None], logs |-> [a \in Agents |-> None]]

Init ==
  /\ policy \in [timeout : Timeouts, wait : Waits]
  /\ call = [i \in Calls |-> NoRow]
  /\ latest \in [Agents -> {Entry("OFFLINE", None), Entry("AVAILABLE", None)}]
  /\ phone = [i \in Calls |-> "NONE"]
  /\ asked = {} /\ stale = {} /\ faults = 0
  /\ round = NoRound
  /\ req = [h \in Handlers |-> NoRequest]

\* A row that the round has written and not yet committed, a users row that
\* it has locked.
RowLocked(i) == round.rows[i] # None
AgentLocked(a) == a \in round.locks

\* The second half of findAvailableAgent: any one of the agents the snapshot
\* showed as AVAILABLE whose users row nobody else has locked.
Pickable(cand) == {a \in cand : ~AgentLocked(a)}
Picks(cand) == IF Pickable(cand) = {} THEN {None} ELSE Pickable(cand)

-----------------------------------------------------------------------------
\* Handlers of telephony events.  The ordering key is the call: its events are
\* handled one at a time and in order.

InOrder(i) == ~\E h \in Handlers : req[h].i = i /\ req[h].event

Reads(h, op, i, event) ==
  req' = [req EXCEPT ![h] = [op |-> op, i |-> i, event |-> event, state |-> call[i].state,
                             agent |-> call[i].agent, ringing |-> call[i].offer = "RINGING",
                             missed |-> call[i].missed, cand |-> {}]]
Done(h) == req' = [req EXCEPT ![h] = NoRequest]

AvailableNow == {a \in Agents : latest[a].state = "AVAILABLE"}

Write(i, row) == call' = [call EXCEPT ![i] = row]

\* An entry of agent a (None: of nobody).  The newest entry counts by the time
\* it was written: what the round wrote earlier and has not committed is older.
Enter(a, entry) ==
  IF a = None THEN UNCHANGED <<latest, round>>
  ELSE /\ latest' = [latest EXCEPT ![a] = entry]
       /\ round' = [round EXCEPT !.logs[a] = None]
Log(a, s, i) == Enter(a, Entry(s, i))

\* The messages published after the commit reach the gateway, or are lost with
\* the process.
Tell(calls) ==
  \/ asked' = asked \cup calls /\ UNCHANGED faults
  \/ /\ calls # {} /\ faults < MaxFaults
     /\ faults' = faults + 1 /\ UNCHANGED asked

\* An agent chosen although the log has moved on since the snapshot.
Outdated(a) == IF a # None /\ latest[a].state # "AVAILABLE" THEN {a} ELSE {}

\* call.created: the interaction is QUEUED; a call to the IVR waits for input,
\* any other is offered to an agent at once if there is one.
BeginCreated(h, i) ==
  /\ req[h].op = "idle" /\ InOrder(i) /\ phone[i] # "NONE" /\ call[i].state = "NONE"
  /\ IF i \in Ivr
     THEN Write(i, [Queued EXCEPT !.ivr = "OPEN"]) /\ UNCHANGED req
     ELSE /\ req' = [req EXCEPT ![h] = [NoRequest EXCEPT !.op = "created", !.i = i,
                                                         !.event = TRUE,
                                                         !.cand = AvailableNow]]
          /\ UNCHANGED call
  /\ UNCHANGED <<policy, latest, phone, asked, round, stale, faults>>

FinishCreated(h) ==
  /\ req[h].op = "created"
  /\ \E a \in Picks(req[h].cand) :
       /\ Write(req[h].i, IF a = None THEN Queued ELSE Offered(Queued, a))
       /\ Log(a, "RESERVED", req[h].i)
       /\ stale' = stale \cup Outdated(a)
       /\ Tell(IF a = None THEN {} ELSE {req[h].i})
  /\ Done(h)
  /\ UNCHANGED <<policy, phone>>

\* call.answered carries no agent: it is taken for the agent the row names.
BeginAnswered(h, i) ==
  /\ req[h].op = "idle" /\ InOrder(i) /\ i \in asked /\ phone[i] = "UP"
  /\ call[i].state = "ASSIGNED"
  /\ Reads(h, "answered", i, TRUE)
  /\ UNCHANGED <<policy, call, latest, phone, asked, round, stale, faults>>

\* Both agents are victims when the row no longer names the one that was read.
Mistaken(read, row) == IF read # row.agent THEN {read, row.agent} \ {None} ELSE {}

\* The deadline of the offer left on the row.
FinishAnswered_KeepsOffer(h) ==
  LET i == req[h].i IN
  /\ req[h].op = "answered" /\ ~RowLocked(i)
  /\ IF call[i].state = "ASSIGNED"
     THEN /\ Write(i, [call[i] EXCEPT !.state = "ACTIVE"])
          /\ Log(req[h].agent, "BUSY", i)
          /\ stale' = stale \cup Mistaken(req[h].agent, call[i])
     ELSE UNCHANGED <<call, latest, round, stale>>
  /\ Done(h)
  /\ UNCHANGED <<policy, phone, asked, faults>>

\* The update asks for ASSIGNED and an offer that had not expired when the
\* event was stamped, which is some time after the read.
FinishAnswered(h) ==
  LET i == req[h].i IN
  /\ req[h].op = "answered" /\ ~RowLocked(i)
  /\ \/ /\ call[i].state = "ASSIGNED"
        /\ call[i].offer = "RINGING" \/ req[h].ringing
        /\ Write(i, [call[i] EXCEPT !.state = "ACTIVE", !.offer = "NONE"])
        /\ Log(req[h].agent, "BUSY", i)
        /\ stale' = stale \cup Mistaken(req[h].agent, call[i])
     \/ /\ call[i].state # "ASSIGNED" \/ call[i].offer = "DUE"
        /\ UNCHANGED <<call, latest, round, stale>>
  /\ Done(h)
  /\ UNCHANGED <<policy, phone, asked, faults>>

BeginHangup(h, i) ==
  /\ req[h].op = "idle" /\ InOrder(i) /\ phone[i] = "GONE" /\ call[i].state # "NONE"
  /\ IF call[i].state \in {"QUEUED", "ASSIGNED", "ACTIVE"}
     THEN Reads(h, "hangup", i, TRUE) /\ UNCHANGED phone
     ELSE phone' = [phone EXCEPT ![i] = "HEARD"] /\ UNCHANGED req
  /\ UNCHANGED <<policy, call, latest, asked, round, stale, faults>>

\* The row released with nothing said of the agent.
FinishHangup_KeepsAgent(h) ==
  LET i == req[h].i IN
  /\ req[h].op = "hangup" /\ ~RowLocked(i)
  /\ IF call[i].state = req[h].state
     THEN Write(i, [call[i] EXCEPT !.state = IF @ = "ACTIVE" THEN "WRAPUP" ELSE "ABANDONED",
                                   !.offer = "NONE", !.requeue = "NONE"])
     ELSE UNCHANGED call
  /\ phone' = [phone EXCEPT ![i] = "HEARD"]
  /\ Done(h)
  /\ UNCHANGED <<policy, latest, asked, round, stale, faults>>

\* The update asks for the state that was read; if that has changed, the event
\* is consumed without any effect.
FinishHangup(h) ==
  LET i == req[h].i IN
  /\ req[h].op = "hangup" /\ ~RowLocked(i)
  /\ IF call[i].state = req[h].state
     THEN /\ IF call[i].state = "ACTIVE"
             THEN /\ Write(i, [call[i] EXCEPT !.state = "WRAPUP"])
                  /\ Log(req[h].agent, "ACW", i)
             ELSE /\ Write(i, [call[i] EXCEPT !.state = "ABANDONED", !.offer = "NONE",
                                              !.requeue = "NONE"])
                  /\ Log(req[h].agent, "AVAILABLE", i)
          /\ stale' = stale \cup Mistaken(req[h].agent, call[i])
     ELSE UNCHANGED <<call, latest, round, stale>>
  /\ phone' = [phone EXCEPT ![i] = "HEARD"]
  /\ Done(h)
  /\ UNCHANGED <<policy, asked, faults>>

\* call.input from the gateway, or made up by the timer when the input is
\* overdue (that one is not ordered with the call's events).
BeginInput(h, i, timeout) ==
  /\ req[h].op = "idle" /\ call[i].state = "QUEUED" /\ call[i].ivr # "NONE"
  /\ IF timeout THEN call[i].ivr = "DUE" ELSE InOrder(i) /\ phone[i] = "UP"
  /\ Reads(h, "input", i, ~timeout)
  /\ UNCHANGED <<policy, call, latest, phone, asked, round, stale, faults>>

\* The first input that leads nowhere falls back to digits; a route, or the
\* second miss, names a queue and asks for an agent.
RouteInput(h) ==
  LET i == req[h].i IN
  /\ req[h].op = "input"
  /\ \/ /\ ~req[h].missed
        /\ IF call[i].state = "QUEUED"
           THEN Write(i, [call[i] EXCEPT !.ivr = "OPEN", !.missed = TRUE])
           ELSE UNCHANGED call
        /\ Done(h)
     \/ /\ req' = [req EXCEPT ![h].op = "resolve", ![h].cand = AvailableNow]
        /\ UNCHANGED call
  /\ UNCHANGED <<policy, latest, phone, asked, round, stale, faults>>

\* The only update without a condition: whatever the row has become meanwhile.
ResolveInput(h) ==
  LET i   == req[h].i
      row == [call[i] EXCEPT !.ivr = "NONE"]
  IN
  /\ req[h].op = "resolve" /\ ~RowLocked(i)
  /\ \E a \in Picks(req[h].cand) :
       /\ Write(i, IF a = None THEN row ELSE Offered(row, a))
       /\ Log(a, "RESERVED", i)
       /\ stale' = stale \cup Outdated(a) \cup
                   (IF a = None THEN {} ELSE {call[i].agent} \ {None})
       /\ Tell(IF a = None THEN {} ELSE {i})
  /\ Done(h)
  /\ UNCHANGED <<policy, phone>>

-----------------------------------------------------------------------------
\* Requests of the agent

\* declineOffer: by the agent the row names, then and now.
BeginDecline(h, i) ==
  /\ req[h].op = "idle" /\ call[i].state = "ASSIGNED"
  /\ Reads(h, "decline", i, FALSE)
  /\ UNCHANGED <<policy, call, latest, phone, asked, round, stale, faults>>

\* The update without its WHERE on state and agent.
FinishDecline_Unchecked(h) ==
  LET i == req[h].i IN
  /\ req[h].op = "decline" /\ ~RowLocked(i)
  /\ Write(i, IF policy.timeout = "ABANDON"
              THEN [call[i] EXCEPT !.state = "ABANDONED", !.offer = "NONE"]
              ELSE Unassigned(call[i], "DUE"))
  /\ Enter(req[h].agent, Relieved(i))
  /\ Done(h)
  /\ UNCHANGED <<policy, phone, asked, stale, faults>>

FinishDecline(h) ==
  LET i == req[h].i IN
  /\ req[h].op = "decline" /\ ~RowLocked(i)
  /\ IF call[i].state = "ASSIGNED" /\ call[i].agent = req[h].agent
     THEN /\ Write(i, CASE policy.timeout = "ABANDON" ->
                             [call[i] EXCEPT !.state = "ABANDONED", !.offer = "NONE"]
                        [] policy.timeout = "COOLDOWN_REQUEUE" -> Unassigned(call[i], "LATER")
                        [] OTHER -> Unassigned(call[i], "DUE"))
          /\ Enter(req[h].agent, Relieved(i))
     ELSE UNCHANGED <<call, latest, round>>
  /\ Done(h)
  /\ UNCHANGED <<policy, phone, asked, stale, faults>>

\* completeWrapUp, its read and its conditional update together, and the same
\* of the API's submitWrapup: nothing else takes a row out of WRAPUP.  A
\* submitWrapup whose update finds the row gone still logs AVAILABLE; that
\* late write is in ManagedVoiceRuntime (Land) and left out here.
CompleteWrapUp(i) ==
  /\ call[i].state = "WRAPUP" /\ ~RowLocked(i)
  /\ Write(i, [call[i] EXCEPT !.state = "COMPLETED"])
  /\ Log(call[i].agent, "AVAILABLE", i)
  /\ UNCHANGED <<policy, phone, asked, req, stale, faults>>

Live == {"ASSIGNED", "ACTIVE", "WRAPUP"}
Serves(a, i) == call[i].agent = a /\ call[i].state \in Live
AtWork(a) == \E i \in Calls : call[i].agent = a /\ call[i].state \in {"ACTIVE", "WRAPUP"}

\* The busy check left out.
SelfAvailable_Unchecked(a) ==
  /\ ~AgentLocked(a) /\ latest[a].state # "AVAILABLE"
  /\ Log(a, "AVAILABLE", None)
  /\ UNCHANGED <<policy, call, phone, asked, req, stale, faults>>

\* The agent asks for work; the users row is locked throughout.
SelfAvailable(a) ==
  /\ ~AgentLocked(a) /\ ~\E i \in Calls : Serves(a, i)
  /\ latest[a].state # "AVAILABLE"
  /\ Log(a, "AVAILABLE", None)
  /\ UNCHANGED <<policy, call, phone, asked, req, stale, faults>>

\* The work session ends (released, expired, revoked) unless the agent is at
\* work, which is looked up before the presence becomes OFFLINE.  A pending
\* offer does not count and stays.
BeginClose(h, a) ==
  /\ req[h].op = "idle" /\ ~AtWork(a) /\ latest[a].state # "OFFLINE"
  /\ req' = [req EXCEPT ![h] = [NoRequest EXCEPT !.op = "close", !.agent = a]]
  /\ UNCHANGED <<policy, call, latest, phone, asked, round, stale, faults>>

FinishClose(h) ==
  /\ req[h].op = "close"
  /\ Log(req[h].agent, "OFFLINE", None)
  /\ Done(h)
  /\ UNCHANGED <<policy, call, phone, asked, stale, faults>>

\* Another surface takes the session over: a pending offer goes back to the
\* queue, due at once.
TakeOver(a, i) ==
  /\ ~AtWork(a) /\ call[i].state = "ASSIGNED" /\ call[i].agent = a /\ ~RowLocked(i)
  /\ Write(i, Unassigned(call[i], "DUE"))
  /\ Log(a, "AVAILABLE", None)
  /\ UNCHANGED <<policy, phone, asked, req, stale, faults>>

-----------------------------------------------------------------------------
\* processDue, one transaction

Row(i) == IF round.rows[i] # None THEN round.rows[i] ELSE call[i]
LogOf(a) == IF round.logs[a] # None THEN round.logs[a] ELSE latest[a]

AvailableTo == {a \in Agents : LogOf(a).state = "AVAILABLE"}

Go(r) == round' = r

\* Offers looked for among the queued calls.
StartRound_Queued ==
  /\ round.pc = "idle"
  /\ Go([NoRound EXCEPT !.pc = "offers",
       !.todo = {<<i, call[i].agent>> : i \in
                   {j \in Calls : call[j].state = "QUEUED" /\ call[j].offer = "DUE"}}])
  /\ UNCHANGED <<policy, call, latest, phone, asked, req, stale, faults>>

StartRound ==
  /\ round.pc = "idle"
  /\ Go([NoRound EXCEPT !.pc = "offers",
       !.todo = {<<i, call[i].agent>> : i \in
                   {j \in Calls : call[j].state = "ASSIGNED" /\ call[j].offer = "DUE"}}])
  /\ UNCHANGED <<policy, call, latest, phone, asked, req, stale, faults>>

\* An offer that is over: the call leaves, or goes back to the queue, and the
\* agent that was read is free, or rests a while.  REQUEUE asks at once for the
\* next agent.
TimeOutOffer ==
  /\ round.pc = "offers"
  /\ \E o \in round.todo :
       LET i    == o[1]
           mine == [round EXCEPT !.todo = @ \ {o}]
           won  == [mine EXCEPT !.logs[o[2]] = Relieved(i)]
       IN
       IF Row(i).state = "ASSIGNED" /\ Row(i).offer = "DUE"
          THEN /\ CASE policy.timeout = "ABANDON" ->
                        Go([won EXCEPT !.rows[i] =
                                    [Row(i) EXCEPT !.state = "ABANDONED", !.offer = "NONE"]])
                    [] policy.timeout = "COOLDOWN_REQUEUE" ->
                        Go([won EXCEPT !.rows[i] = Unassigned(Row(i), "LATER")])
                    [] OTHER ->
                        Go([won EXCEPT !.rows[i] = Unassigned(Row(i), "NONE"),
                                             !.pc = "query", !.i = i])
               /\ stale' = stale \cup Mistaken(o[2], Row(i))
          ELSE Go(mine) /\ UNCHANGED stale
  /\ UNCHANGED <<policy, call, latest, phone, asked, req, faults>>

\* findAvailableAgent, its snapshot: the agent just freed is in it, unless his
\* session was closed in the meantime.
QueryAgents ==
  /\ round.pc = "query"
  /\ Go([round EXCEPT !.pc = "reoffer", !.cand = AvailableTo])
  /\ UNCHANGED <<policy, call, latest, phone, asked, req, stale, faults>>

\* The agent a round chooses among those its snapshot showed.
RoundPicks == IF round.cand = {} THEN {None} ELSE round.cand

Outpaced(a) == IF LogOf(a).state # "AVAILABLE" THEN {a} ELSE {}

Chosen(i, a) ==
  [round EXCEPT !.rows[i] = [Offered(Row(i), a) EXCEPT !.requeue = "NONE"],
                !.logs[a] = Entry("RESERVED", i), !.locks = @ \cup {a}]

\* Nobody: the call stays QUEUED without a requeueAt.
Reoffer ==
  /\ round.pc = "reoffer"
  /\ \E a \in RoundPicks :
       LET mine == IF a = None THEN round ELSE Chosen(round.i, a) IN
       /\ Go([mine EXCEPT !.pc = "offers", !.i = None, !.cand = {}])
       /\ stale' = stale \cup (IF a = None THEN {} ELSE Outpaced(a))
  /\ UNCHANGED <<policy, call, latest, phone, asked, req, faults>>

\* requeueAt compared the wrong way round.
ReleaseCooldowns_Later ==
  LET over == {a \in Agents : LogOf(a).state = "COOLED"} IN
  /\ round.pc = "offers" /\ round.todo = {}
  /\ Go([round EXCEPT !.pc = "requeues",
       !.logs = [a \in Agents |-> IF a \in over THEN Entry("AVAILABLE", None) ELSE @[a]],
       !.todo = {i \in Calls : Row(i).state = "QUEUED" /\ Row(i).requeue = "LATER"}])
  /\ UNCHANGED <<policy, call, latest, phone, asked, req, stale, faults>>

\* releaseExpiredCooldowns; then the calls whose requeueAt has come.
ReleaseCooldowns ==
  LET over == {a \in Agents : LogOf(a).state = "COOLED"} IN
  /\ round.pc = "offers" /\ round.todo = {}
  /\ Go([round EXCEPT !.pc = "requeues",
       !.logs = [a \in Agents |-> IF a \in over THEN Entry("AVAILABLE", None) ELSE @[a]],
       !.todo = {i \in Calls : Row(i).state = "QUEUED" /\ Row(i).requeue = "DUE"}])
  /\ UNCHANGED <<policy, call, latest, phone, asked, req, stale, faults>>

BeginRequeue ==
  /\ round.pc = "requeues"
  /\ \E i \in round.todo :
       Go([round EXCEPT !.pc = "assign", !.i = i, !.todo = @ \ {i},
                              !.cand = AvailableTo])
  /\ UNCHANGED <<policy, call, latest, phone, asked, req, stale, faults>>

\* No agent: the call stays due for the next round.  A call that is no longer
\* due keeps the agent locked until the round ends, and no more.
AssignRequeue ==
  LET i == round.i IN
  /\ round.pc = "assign"
  /\ \E a \in RoundPicks :
       LET due  == Row(i).state = "QUEUED" /\ Row(i).requeue = "DUE"
           mine == IF a = None THEN round
                   ELSE IF due THEN Chosen(i, a) ELSE [round EXCEPT !.locks = @ \cup {a}]
       IN
       /\ Go([mine EXCEPT !.pc = "requeues", !.i = None, !.cand = {}])
       /\ stale' = stale \cup (IF a # None /\ due THEN Outpaced(a) ELSE {})
  /\ UNCHANGED <<policy, call, latest, phone, asked, req, faults>>

\* The calls that have waited too long (a call in the IVR has no queue yet).
ReadWaits ==
  /\ round.pc = "requeues" /\ round.todo = {}
  /\ Go([round EXCEPT !.pc = "waits",
       !.todo = {i \in Calls : /\ Row(i).state = "QUEUED" /\ Row(i).over
                               /\ Row(i).ivr = "NONE"}])
  /\ UNCHANGED <<policy, call, latest, phone, asked, req, stale, faults>>

EndWait ==
  /\ round.pc = "waits"
  /\ \E i \in round.todo :
       LET mine == [round EXCEPT !.todo = @ \ {i}] IN
       Go(IF Row(i).state = "QUEUED" /\ Row(i).over
                   THEN [mine EXCEPT !.rows[i] =
                           IF policy.wait = "WAIT"
                           THEN [Row(i) EXCEPT !.over = FALSE, !.requeue = "DUE"]
                           ELSE [Row(i) EXCEPT !.state = "ABANDONED", !.requeue = "NONE"]]
                   ELSE mine)
  /\ UNCHANGED <<policy, call, latest, phone, asked, req, stale, faults>>

\* The commit, and then the messages for the calls that got an agent.
CommitRound ==
  /\ round.pc = "waits" /\ round.todo = {}
  /\ call' = [i \in Calls |-> Row(i)]
  /\ latest' = [a \in Agents |-> LogOf(a)]
  /\ Tell({i \in Calls : round.rows[i] # None /\ Row(i).state = "ASSIGNED"})
  /\ Go(NoRound)
  /\ UNCHANGED <<policy, phone, req, stale>>

\* A round that fails: all of it is undone and the next one starts over.
AbortRound ==
  /\ round.pc # "idle" /\ faults < MaxFaults
  /\ faults' = faults + 1
  /\ Go(NoRound)
  /\ UNCHANGED <<policy, call, latest, phone, asked, req, stale>>

\* A handler that fails before its commit; Kafka delivers the event again.
AbortRequest(h) ==
  /\ req[h].op # "idle" /\ faults < MaxFaults
  /\ faults' = faults + 1
  /\ Done(h)
  /\ UNCHANGED <<policy, call, latest, phone, asked, round, stale>>

-----------------------------------------------------------------------------
\* Callers and time

Dial(i) ==
  /\ phone[i] = "NONE"
  /\ phone' = [phone EXCEPT ![i] = "UP"]
  /\ UNCHANGED <<policy, call, latest, asked, round, req, stale, faults>>

HangUp(i) ==
  /\ phone[i] = "UP"
  /\ phone' = [phone EXCEPT ![i] = "GONE"]
  /\ UNCHANGED <<policy, call, latest, asked, round, req, stale, faults>>

\* A deadline of the row passes.
CallDue(i) ==
  /\ \/ call[i].offer = "RINGING" /\ Write(i, [call[i] EXCEPT !.offer = "DUE"])
     \/ call[i].requeue = "LATER" /\ Write(i, [call[i] EXCEPT !.requeue = "DUE"])
     \/ call[i].ivr = "OPEN" /\ Write(i, [call[i] EXCEPT !.ivr = "DUE"])
     \/ /\ call[i].state = "QUEUED" /\ ~call[i].over /\ policy.wait # "NONE"
        /\ Write(i, [call[i] EXCEPT !.over = TRUE])
  /\ UNCHANGED <<policy, latest, phone, asked, round, req, stale, faults>>

CooldownDue(a) ==
  /\ latest[a].state = "COOLING"
  /\ latest' = [latest EXCEPT ![a].state = "COOLED"]
  /\ UNCHANGED <<policy, call, phone, asked, round, req, stale, faults>>

-----------------------------------------------------------------------------
EventStep(h) ==
  \/ FinishCreated(h) \/ FinishAnswered(h) \/ FinishHangup(h)
  \/ RouteInput(h) \/ ResolveInput(h) \/ FinishDecline(h) \/ FinishClose(h)
RoundStep ==
  \/ StartRound \/ TimeOutOffer \/ QueryAgents \/ Reoffer
  \/ ReleaseCooldowns \/ BeginRequeue \/ AssignRequeue \/ ReadWaits
  \/ EndWait \/ CommitRound

Next ==
  \/ \E h \in Handlers :
       \/ \E i \in Calls :
            \/ BeginCreated(h, i) \/ BeginAnswered(h, i) \/ BeginHangup(h, i)
            \/ \E timeout \in BOOLEAN : BeginInput(h, i, timeout)
            \/ BeginDecline(h, i)
       \/ \E a \in Agents : BeginClose(h, a)
       \/ EventStep(h) \/ AbortRequest(h)
  \/ RoundStep \/ AbortRound
  \/ \E i \in Calls : CompleteWrapUp(i) \/ Dial(i) \/ HangUp(i) \/ CallDue(i)
  \/ \E a \in Agents : SelfAvailable(a) \/ CooldownDue(a)
  \/ \E a \in Agents, i \in Calls : TakeOver(a, i)

\* The timer runs every second, a transaction that was begun ends, and time
\* passes; what callers and agents do is up to them.
Fairness ==
  /\ WF_vars(RoundStep)
  /\ \A h \in Handlers : WF_vars(EventStep(h))
  /\ \A i \in Calls : WF_vars(CallDue(i))
  /\ \A a \in Agents : WF_vars(CooldownDue(a))

Spec == Init /\ [][Next]_vars /\ Fairness

-----------------------------------------------------------------------------
\* Properties

States == {"NONE", "QUEUED", "ASSIGNED", "ACTIVE", "WRAPUP", "COMPLETED", "ABANDONED"}
Rows == [state : States, agent : Agents \cup {None}, offer : {"NONE", "RINGING", "DUE"},
         requeue : {"NONE", "LATER", "DUE"}, ivr : {"NONE", "OPEN", "DUE"},
         missed : BOOLEAN, over : BOOLEAN]
Entries == [state : {"AVAILABLE", "RESERVED", "BUSY", "ACW", "COOLING", "COOLED", "OFFLINE"},
            call : Calls \cup {None}]

\* NULL is neither a row nor a log entry.
ASSUME NullAssumption == None \notin Rows \cup Entries

\* Rows, log entries and what transactions hold have the shapes of the schema.
RTypeOK ==
  /\ policy \in [timeout : Timeouts, wait : Waits]
  /\ call \in [Calls -> Rows]
  /\ latest \in [Agents -> Entries]
  /\ phone \in [Calls -> {"NONE", "UP", "GONE", "HEARD"}]
  /\ asked \subseteq Calls /\ stale \subseteq Agents /\ faults \in 0..MaxFaults
  /\ round.rows \in [Calls -> Rows \cup {None}]
  /\ round.logs \in [Agents -> Entries \cup {None}]
  /\ round.locks \subseteq Agents /\ round.cand \subseteq Agents
  /\ \A h \in Handlers : /\ req[h].op \notin {"idle", "close"} => req[h].i \in Calls
                          /\ req[h].cand \subseteq Agents
                          /\ req[h].agent \in Agents \cup {None}

\* Every row has its shape and its columns agree: a deadline for the offer exactly while it is out, a
\* requeueAt only in the queue, an agent from the assignment on.
RowCoherent ==
  /\ RTypeOK
  /\ \A i \in Calls \ Ivr :
       /\ call[i].offer # "NONE" <=> call[i].state = "ASSIGNED"
       /\ call[i].requeue # "NONE" => call[i].state = "QUEUED"
       /\ call[i].state \in {"ASSIGNED", "ACTIVE", "WRAPUP", "COMPLETED"} => call[i].agent # None
       /\ call[i].state \in {"NONE", "QUEUED"} => call[i].agent = None

\* An agent who is RESERVED for a call has that call on offer, so that its
\* answer, its end or its timeout will free the agent, unless a transaction
\* acted on an agent it had read earlier.
ReservedIsOffered ==
  \A a \in Agents \ stale :
    latest[a].state = "RESERVED" =>
      call[latest[a].call].state = "ASSIGNED" /\ call[latest[a].call].agent = a

\* Nobody serves two calls at once, unless a transaction acted on an outdated
\* reading of the agent's log or of the row.
OneCallEach ==
  \A a \in Agents \ stale : Cardinality({i \in Calls : Serves(a, i)}) <= 1

\* The doc's promise without the exception.
ReservationReleased ==
  \A a \in Agents :
    latest[a].state = "RESERVED" => \E i \in Calls : call[i].state = "ASSIGNED" /\ call[i].agent = a

\* A caller who hung up is neither queued nor on offer once the router has
\* consumed the event.
HangupSettles ==
  \A i \in Calls : phone[i] = "HEARD" => call[i].state \notin {"QUEUED", "ASSIGNED", "ACTIVE"}

\* A conversation is never taken from its agent and an end is final: no handler
\* that read the row earlier puts it back (calls that never were in the IVR).
ConversationFinal ==
  [][\A i \in Calls \ Ivr :
       /\ call[i].state = "ACTIVE" => call'[i].state \in {"ACTIVE", "WRAPUP"}
       /\ call[i].state = "WRAPUP" => call'[i].state \in {"WRAPUP", "COMPLETED"}
       /\ call[i].state \in {"ACTIVE", "WRAPUP"} => call'[i].agent = call[i].agent
       /\ call[i].state \in {"COMPLETED", "ABANDONED"} => call'[i].state = call[i].state]_vars

\* An offer nobody answers does not stay out.
OfferEnds == \A i \in Calls : call[i].offer = "DUE" ~> call[i].offer # "DUE"

\* A call whose requeueAt has come does not stay in the queue while there is
\* an agent for it.
RequeuedServed ==
  \A i \in Calls : []<>~(call[i].requeue = "DUE" /\ AvailableNow # {})

\* The doc: a call that found no agent is matched again when an agent is free
\* or at the next tick of the timer.
QueuedServed ==
  \A i \in Calls \ Ivr : []<>~(call[i].state = "QUEUED" /\ AvailableNow # {})

=============================================================================
