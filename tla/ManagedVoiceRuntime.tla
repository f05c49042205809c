------------------------ MODULE ManagedVoiceRuntime ------------------------
(***************************************************************************)
(* The managed voice runtime (apps/router/src/managed-voice-runtime.ts):   *)
(* the database rows it keeps for every inbound call, the transactions     *)
(* that change them, and the durable command queue it hands to telephony.  *)
(*                                                                         *)
(* handle, tick and the second half of reconcileActive run under one       *)
(* exclusive advisory lock per tenant, so each is one action.  The command *)
(* dispatcher does not take that lock: it holds a lock per call while it   *)
(* talks to FreeSWITCH, and is modelled by a begin and an end action with  *)
(* everything else interleaved.  The wall clock may move inside any        *)
(* transaction: the first clock_timestamp() reads clock, the last clock'.  *)
(*                                                                         *)
(* The eligibility query never offers a call twice to one agent, so an     *)
(* offer is named by its agent; NoAgent is the NULL offer id.  The         *)
(* environment is open: FreeSWITCH events arrive in any order, any number  *)
(* of times.  ManagedVoiceSystem closes it.                                *)
(***************************************************************************)
EXTENDS Naturals, FiniteSets

CONSTANTS
    Calls,          \* call UUIDs that FreeSWITCH may announce
    Agents,         \* users with role AGENT in the queue's team and skills
    NoAgent,        \* NULL
    NoCall,         \* the reason of a log entry that names no interaction
    OfferSec,       \* offer_timeout_sec (20 in the code)
    PreanswerSec,   \* max_total_preanswer_sec (60 in the code)
    MaxClock,       \* bound: the clock stops here
    MaxLag,         \* bound: how long one transaction may take
    MaxStaged       \* bound: unlocked agent-state writes in flight

ASSUME ConstantsAssumption ==
    /\ NoAgent \notin Agents
    /\ NoCall \notin Calls
    /\ OfferSec \in Nat \ {0}
    /\ PreanswerSec \in Nat \ {0}
    /\ MaxClock \in Nat
    /\ MaxLag \in Nat
    /\ MaxStaged \in Nat

Offers     == Agents \cup {NoAgent}

\* An answered call taken for a waiting one.
Preanswer_Active == {"QUEUED", "ASSIGNED", "ACTIVE"}

\* The states advance() and terminal() act on.
Preanswer  == {"QUEUED", "ASSIGNED"}
Live       == {"ASSIGNED", "ACTIVE", "WRAPUP"}
States     == Preanswer \cup Live \cup {"NONE", "COMPLETED", "ABANDONED"}
Outcomes   == {"NONE", "PENDING", "ANSWERED", "TIMED_OUT", "CANCELLED", "ENDED"}
CmdTypes   == {"offer.create", "call.bridge", "offer.cancel", "call.hangup"}
Cleanup    == {"offer.cancel", "call.hangup"}
Statuses   == {"NONE", "PENDING", "CONFIRMED", "OBSOLETE"}
Reasons    == {"NONE", "PREANSWER_DEADLINE_EXCEEDED", "CALLER_CANCELLED",
               "AGENT_HANGUP"}
AgentStates == {"OFFLINE", "AVAILABLE", "RESERVED", "BUSY", "ACW"}

\* interactions, voice_managed_calls, voice_managed_offers and
\* voice_managed_commands of one call; "NONE" stands for a row not yet written.
CallRow == [state : States, agentId : Offers, currentOffer : Offers,
            deadline : Nat, answeredAt : Nat, terminalReason : Reasons,
            outcome : [Offers -> Outcomes], expiresAt : [Offers -> Nat],
            cmd : [Offers -> [CmdTypes -> Statuses]]]

LogEntry == [state : AgentStates, reason : Calls \cup {NoCall}]

VARIABLES
    clock,      \* clock_timestamp()
    call,       \* the rows of each call
    latest,     \* the newest agent_state_logs entry of each agent
    staged,     \* agent-state writes whose check has run without a lock
    executing   \* per call: the command whose dispatcher holds the call's lock

vars == <<clock, call, latest, staged, executing>>

TypeOK ==
    /\ clock \in Nat
    /\ call \in [Calls -> CallRow]
    /\ latest \in [Agents -> LogEntry]
    /\ staged \in SUBSET (Agents \X {"OFFLINE", "AVAILABLE"})
    /\ executing \in [Calls -> SUBSET (Offers \X CmdTypes)]

NewCall == [state |-> "NONE", agentId |-> NoAgent, currentOffer |-> NoAgent,
            deadline |-> 0, answeredAt |-> 0, terminalReason |-> "NONE",
            outcome |-> [o \in Offers |-> "NONE"],
            expiresAt |-> [o \in Offers |-> 0],
            cmd |-> [o \in Offers |-> [t \in CmdTypes |-> "NONE"]]]

Init ==
    /\ clock = 0
    /\ call = [c \in Calls |-> NewCall]
    /\ latest \in [Agents -> [state : {"OFFLINE", "AVAILABLE"}, reason : {NoCall}]]
    /\ staged = {}
    /\ executing = [c \in Calls |-> {}]

----------------------------------------------------------------------------
(* What the helpers do to one call's rows *)

\* intent(): one command per (interaction, offer, type).
Intent(row, o, t) ==
    [row EXCEPT !.cmd[o][t] = IF @ = "NONE" THEN "PENDING" ELSE @]

\* intent() for LATE_ANSWER: only a late answer may reopen a command, and only
\* a confirmed cancel.
LateAnswer(row, o) ==
    [row EXCEPT !.cmd[o]["offer.cancel"] = IF @ \in {"NONE", "CONFIRMED"} THEN "PENDING" ELSE @]

\* TimeOut that forgets to cancel the leg.
TimeOut_NoCancel(row) ==
    [row EXCEPT !.outcome[row.currentOffer] = "TIMED_OUT",
                !.state = "QUEUED",
                !.agentId = NoAgent]

\* TimeOut that forgets to take the call from the agent.
TimeOut_KeepsAgent(row) ==
    [Intent(row, row.currentOffer, "offer.cancel") EXCEPT
        !.outcome[row.currentOffer] = "TIMED_OUT",
        !.state = "QUEUED"]

\* TimeOut that records the missed offer as a cancelled one.
TimeOut_AsCancelled(row) ==
    [Intent(row, row.currentOffer, "offer.cancel") EXCEPT
        !.outcome[row.currentOffer] = "CANCELLED",
        !.state = "QUEUED",
        !.agentId = NoAgent]

\* The current offer of advance() ran out.
TimeOut(row) ==
    [Intent(row, row.currentOffer, "offer.cancel") EXCEPT
        !.outcome[row.currentOffer] = "TIMED_OUT",
        !.state = "QUEUED",
        !.agentId = NoAgent]

\* Terminal that cancels the offers and forgets the caller.
Terminal_NoHangup(row, reason) ==
    [row EXCEPT
        !.state = "ABANDONED",
        !.terminalReason = reason,
        !.outcome[row.currentOffer] = IF @ = "PENDING" THEN "CANCELLED" ELSE @,
        !.cmd = [o \in Offers |-> [t \in CmdTypes |->
                    IF row.cmd[o][t] = "NONE" /\ t = "offer.cancel" /\ row.outcome[o] # "NONE"
                    THEN "PENDING" ELSE row.cmd[o][t]]]]

\* terminal(): cancel every offer the call ever made, hang up the current one.
Terminal(row, reason) ==
    [row EXCEPT
        !.state = "ABANDONED",
        !.terminalReason = reason,
        !.outcome[row.currentOffer] = IF @ = "PENDING" THEN "CANCELLED" ELSE @,
        !.cmd = [o \in Offers |-> [t \in CmdTypes |->
                    IF /\ row.cmd[o][t] = "NONE"
                       /\ \/ t = "offer.cancel" /\ row.outcome[o] # "NONE"
                          \/ t = "call.hangup" /\ o = row.currentOffer
                    THEN "PENDING" ELSE row.cmd[o][t]]]]

\* The tail of advance(): a new offer to agent a, made at time now.
Assign(row, a, now) ==
    Intent([row EXCEPT
               !.state = "ASSIGNED",
               !.agentId = a,
               !.currentOffer = a,
               !.outcome[a] = "PENDING",
               !.expiresAt[a] = IF now + OfferSec < row.deadline
                                THEN now + OfferSec ELSE row.deadline],
           a, "offer.create")

Answered(row, o, now) ==
    Intent([row EXCEPT !.state = "ACTIVE",
                       !.answeredAt = now,
                       !.outcome[o] = "ANSWERED"], o, "call.bridge")

Ended(row) ==
    Intent([row EXCEPT !.state = "WRAPUP",
                       !.terminalReason = "AGENT_HANGUP",
                       !.outcome[row.currentOffer] = "ENDED"],
           row.currentOffer, "call.hangup")

----------------------------------------------------------------------------
(* Routing *)

SetCall(c, row) == call' = [call EXCEPT ![c] = row]

WriteLog(a, s, c) == latest' = [latest EXCEPT ![a] = [state |-> s, reason |-> c]]

Serving(rows, a, c) == rows[c].agentId = a /\ rows[c].state \in Live

\* Some command that frees agent a's phone is still waiting.
CleanupPending(rows, a, c) == \E t \in Cleanup : rows[c].cmd[a][t] = "PENDING"

\* Eligible without the check on unfinished cleanup.
Eligible_IgnoresCleanup(c, row, a) ==
    LET rows == [call EXCEPT ![c] = row]
    IN  /\ latest[a].state = "AVAILABLE"
        /\ \A d \in Calls : ~Serving(rows, a, d)
        /\ row.outcome[a] \notin {"TIMED_OUT", "CANCELLED"}

\* Eligible without skip_timed_out_agent.
Eligible_IgnoresTimeouts(c, row, a) ==
    LET rows == [call EXCEPT ![c] = row]
    IN  /\ latest[a].state = "AVAILABLE"
        /\ \A d \in Calls : ~Serving(rows, a, d) /\ ~CleanupPending(rows, a, d)

\* Eligible that believes the agent's own log.
Eligible_TrustsLog(c, row, a) ==
    LET rows == [call EXCEPT ![c] = row]
    IN  /\ latest[a].state = "AVAILABLE"
        /\ \A d \in Calls : ~CleanupPending(rows, a, d)
        /\ row.outcome[a] \notin {"TIMED_OUT", "CANCELLED"}

\* The WHERE clause of the agent query in advance(), which sees the
\* transaction's own writes: row stands for call c.
Eligible(c, row, a) ==
    LET rows == [call EXCEPT ![c] = row]
    IN  /\ latest[a].state = "AVAILABLE"
        /\ \A d \in Calls : ~Serving(rows, a, d) /\ ~CleanupPending(rows, a, d)
        /\ row.outcome[a] \notin {"TIMED_OUT", "CANCELLED"}

OfferPending(row) == row.outcome[row.currentOffer] = "PENDING"

Ringing(row, now) == OfferPending(row) /\ now < row.expiresAt[row.currentOffer]

Requeued(row) == IF OfferPending(row) THEN TimeOut(row) ELSE row

\* advance(): the query may find nobody although someone is eligible, for it
\* skips user rows that another transaction has locked.
Advance(c, row, now, later) ==
    \/ /\ \/ row.state \notin Preanswer
          \/ now < row.deadline /\ Ringing(row, now)
       /\ SetCall(c, row)
       /\ UNCHANGED latest
    \/ /\ row.state \in Preanswer
       /\ now >= row.deadline
       /\ SetCall(c, Terminal(row, "PREANSWER_DEADLINE_EXCEEDED"))
       /\ UNCHANGED latest
    \/ /\ row.state \in Preanswer
       /\ now < row.deadline
       /\ ~Ringing(row, now)
       /\ \/ SetCall(c, Requeued(row)) /\ UNCHANGED latest
          \/ /\ later >= row.deadline
             /\ \E a \in Agents : Eligible(c, Requeued(row), a)
             /\ SetCall(c, Terminal(Requeued(row), "PREANSWER_DEADLINE_EXCEEDED"))
             /\ UNCHANGED latest
          \/ /\ later < row.deadline
             /\ \E a \in Agents :
                   /\ Eligible(c, Requeued(row), a)
                   /\ SetCall(c, Assign(Requeued(row), a, later))
                   /\ WriteLog(a, "RESERVED", c)

----------------------------------------------------------------------------
(* Events, handle() *)

\* Time passes inside a transaction, up to the bound.
Elapse(later) ==
    /\ later <= MaxClock
    /\ clock' = later

\* call.created.  The bound keeps every deadline within reach of the clock.
Created(c) == \E later \in clock .. clock + MaxLag :
    /\ Elapse(later)
    /\ IF call[c].state = "NONE"
       THEN /\ clock + PreanswerSec <= MaxClock
            /\ Advance(c, [NewCall EXCEPT !.state = "QUEUED",
                                          !.deadline = clock + PreanswerSec], clock, later)
       ELSE Advance(c, call[c], clock, later)
    /\ UNCHANGED <<staged, executing>>

InTime_OffByOne(row, o, now) == now <= row.expiresAt[o] /\ now <= row.deadline

\* The two clock tests of the UPDATE in answer().
InTime(row, o, now) == now < row.expiresAt[o] /\ now < row.deadline

\* answer(), for call.answered and call.bridge events of offer o's leg.
Answer(c, o, bridge) == \E later \in clock .. clock + MaxLag :
    LET row == call[c]
        late == o # row.currentOffer \/ (bridge /\ row.state # "ACTIVE")
        joined == row.state = "ACTIVE" /\ row.outcome[o] = "ANSWERED"
        timely == /\ row.state = "ASSIGNED" /\ row.outcome[o] = "PENDING"
                  /\ clock < row.expiresAt[o] /\ clock < row.deadline
    IN  /\ row.outcome[o] # "NONE"
        /\ Elapse(later)
        /\ \/ late /\ SetCall(c, LateAnswer(row, o)) /\ UNCHANGED latest
           \/ ~late /\ joined /\ UNCHANGED <<call, latest>>
           \/ ~late /\ ~joined /\ ~timely /\ Advance(c, LateAnswer(row, o), clock, later)
           \/ /\ ~late /\ timely /\ InTime(row, o, later)
              /\ SetCall(c, Answered(row, o, later))
              /\ WriteLog(o, "BUSY", c)
           \/ ~late /\ timely /\ ~InTime(row, o, later) /\ Advance(c, row, later, later)
        /\ UNCHANGED <<staged, executing>>

\* The second half of hangup(): the caller, or the leg of the current offer, is gone.
EndCall(c) ==
    LET row == call[c]
    IN  \/ /\ row.state \in Preanswer
           /\ SetCall(c, Terminal(row, "CALLER_CANCELLED"))
           /\ UNCHANGED latest
        \/ /\ row.state = "ACTIVE" /\ row.currentOffer # NoAgent
           /\ SetCall(c, Ended(row))
           /\ WriteLog(row.currentOffer, "ACW", c)
        \/ /\ row.state \notin Preanswer \cup {"ACTIVE"}
           /\ UNCHANGED <<call, latest>>

\* hangup(), for the leg of offer o, or for the caller when o is NoAgent.
Hangup(c, o) == \E later \in clock .. clock + MaxLag :
    LET row == call[c]
        stale == \/ o # row.currentOffer
                 \/ row.outcome[o] \in {"NONE", "TIMED_OUT", "CANCELLED"}
    IN  /\ row.state # "NONE"
        /\ Elapse(later)
        /\ \/ o # NoAgent /\ stale /\ UNCHANGED <<call, latest>>
           \/ o # NoAgent /\ ~stale /\ row.state = "ASSIGNED" /\ Advance(c, row, clock, later)
           \/ (o = NoAgent \/ (~stale /\ row.state # "ASSIGNED")) /\ EndCall(c)
        /\ UNCHANGED <<staged, executing>>

\* tick() that leaves ringing calls to their events.
Tick_OnlyQueued(c) == \E later \in clock .. clock + MaxLag :
    /\ call[c].state = "QUEUED"
    /\ Elapse(later)
    /\ Advance(c, call[c], clock, later)
    /\ UNCHANGED <<staged, executing>>

\* tick(), for one of the calls it advances.
Tick(c) == \E later \in clock .. clock + MaxLag :
    /\ call[c].state \in Preanswer
    /\ Elapse(later)
    /\ Advance(c, call[c], clock, later)
    /\ UNCHANGED <<staged, executing>>

\* reconcileActive(): readback found a leg of the active call missing.
ReconcileActive(c) ==
    /\ call[c].state = "ACTIVE"
    /\ EndCall(c)
    /\ UNCHANGED <<clock, staged, executing>>

----------------------------------------------------------------------------
(* The command dispatcher, dispatch() *)

\* Every command waits for cleanup, cleanup included.
Blocked_Everything(row, t) == \E o \in Offers, u \in Cleanup : row.cmd[o][u] = "PENDING"

\* offer.create waits for every cleanup command of its call.
Blocked(row, t) ==
    t = "offer.create" /\ \E o \in Offers, u \in Cleanup : row.cmd[o][u] = "PENDING"

Obsolete(row, o, t) ==
    \/ /\ t = "offer.create"
       /\ \/ row.outcome[o] # "PENDING" \/ row.state # "ASSIGNED"
          \/ clock >= row.expiresAt[o] \/ clock >= row.deadline
    \/ /\ t = "call.bridge"
       /\ \/ row.outcome[o] # "ANSWERED" \/ row.state # "ACTIVE"
          \/ o # row.currentOffer

\* The lock of the call was free, the command is still pending.
Claim(c, o, t) ==
    /\ executing[c] = {}
    /\ call[c].cmd[o][t] = "PENDING"
    /\ ~Blocked(call[c], t)

DropObsolete(c, o, t) ==
    /\ Claim(c, o, t)
    /\ Obsolete(call[c], o, t)
    /\ call' = [call EXCEPT ![c].cmd[o][t] = "OBSOLETE"]
    /\ UNCHANGED <<clock, latest, staged, executing>>

BeginExecute(c, o, t) ==
    /\ Claim(c, o, t)
    /\ ~Obsolete(call[c], o, t)
    /\ executing' = [executing EXCEPT ![c] = @ \cup {<<o, t>>}]
    /\ UNCHANGED <<clock, call, latest, staged>>

\* release(): the agent goes back to AVAILABLE only from the reservation of
\* this call, and only when no other interaction needs them.
Release(c, a) ==
    IF /\ latest[a] = [state |-> "RESERVED", reason |-> c]
       /\ \A d \in Calls : ~Serving(call, a, d)
    THEN WriteLog(a, "AVAILABLE", c)
    ELSE UNCHANGED latest

\* The port answered (confirmed or not) or threw (not confirmed).
EndExecute(c, o, t, confirmed) ==
    /\ <<o, t>> \in executing[c]
    /\ executing' = [executing EXCEPT ![c] = @ \ {<<o, t>>}]
    /\ call' = [call EXCEPT ![c].cmd[o][t] =
                   IF confirmed /\ @ = "PENDING" THEN "CONFIRMED" ELSE @]
    /\ IF confirmed /\ o # NoAgent /\ t \in Cleanup
       THEN Release(c, o) ELSE UNCHANGED latest
    /\ UNCHANGED <<clock, staged>>

\* The process dies: its dispatch transactions roll back and their locks go.
Crash ==
    /\ executing' = [c \in Calls |-> {}]
    /\ UNCHANGED <<clock, call, latest, staged>>

----------------------------------------------------------------------------
(* Everyone else who writes agent_state_logs *)

Idle(a, states) == \A c \in Calls : ~(call[c].agentId = a /\ call[c].state \in states)

\* The agent asks for work (the user row is locked throughout).
SelfAvailable(a) ==
    /\ Idle(a, Live)
    /\ latest[a].state # "AVAILABLE"
    /\ WriteLog(a, "AVAILABLE", NoCall)
    /\ UNCHANGED <<clock, call, staged, executing>>

\* Wrap-up submitted: WRAPUP -> COMPLETED, the agent is free.
SubmitWrapup(c) ==
    /\ call[c].state = "WRAPUP"
    /\ call' = [call EXCEPT ![c].state = "COMPLETED"]
    /\ WriteLog(call[c].agentId, "AVAILABLE", NoCall)
    /\ UNCHANGED <<clock, staged, executing>>

\* The checks of three writers that hold no lock on the user: a supervisor
\* forcing a state, a work session being closed, a second wrap-up request.
Stage(a, s) ==
    /\ \/ Idle(a, Live)
       \/ s = "OFFLINE" /\ Idle(a, {"ACTIVE", "WRAPUP"})
       \/ s = "AVAILABLE" /\ ~Idle(a, {"WRAPUP"})
    /\ Cardinality(staged) < MaxStaged
    /\ staged' = staged \cup {<<a, s>>}
    /\ UNCHANGED <<clock, call, latest, executing>>

\* Their write, however much later.
Land(a, s) ==
    /\ <<a, s>> \in staged
    /\ staged' = staged \ {<<a, s>>}
    /\ WriteLog(a, s, NoCall)
    /\ UNCHANGED <<clock, call, executing>>

PassTime ==
    /\ clock < MaxClock
    /\ clock' = clock + 1
    /\ UNCHANGED <<call, latest, staged, executing>>

----------------------------------------------------------------------------

\* FreeSWITCH reports a bridge only for a leg it was asked to bridge.
Bridge(c, o) == call[c].cmd[o]["call.bridge"] # "NONE" /\ Answer(c, o, TRUE)

Next ==
    \/ PassTime \/ Crash
    \/ \E c \in Calls : Created(c) \/ Tick(c) \/ ReconcileActive(c) \/ SubmitWrapup(c)
    \/ \E c \in Calls, a \in Agents : Answer(c, a, FALSE) \/ Bridge(c, a)
    \/ \E c \in Calls, o \in Offers : Hangup(c, o)
    \/ \E c \in Calls, o \in Offers, t \in CmdTypes :
          \/ DropObsolete(c, o, t) \/ BeginExecute(c, o, t)
          \/ \E confirmed \in BOOLEAN : EndExecute(c, o, t, confirmed)
    \/ \E a \in Agents : SelfAvailable(a)
    \/ \E a \in Agents, s \in {"OFFLINE", "AVAILABLE"} : Stage(a, s) \/ Land(a, s)

Spec == Init /\ [][Next]_vars

----------------------------------------------------------------------------
(* Properties *)

\* An agent never has two calls in ASSIGNED, ACTIVE or WRAPUP, whatever the
\* agent's log says and however the log was written.
AgentExclusive ==
    \A a \in Agents : \A c, d \in Calls :
        Serving(call, a, c) /\ Serving(call, a, d) => c = d

\* The interaction row, the current offer and its outcome tell one story:
\* ASSIGNED has exactly one PENDING offer, the current one, to the assigned
\* agent; ACTIVE has an ANSWERED one; a call in wrap-up has an ENDED one.
RowCoherent(row) ==
    /\ row.outcome[NoAgent] = "NONE"
    /\ row.state = "ASSIGNED" <=> OfferPending(row)
    /\ row.state = "ACTIVE" <=> row.outcome[row.currentOffer] = "ANSWERED"
    /\ row.state \in {"WRAPUP", "COMPLETED"} <=> row.outcome[row.currentOffer] = "ENDED"
    /\ \A o \in Offers : row.outcome[o] \in {"PENDING", "ANSWERED", "ENDED"} => o = row.currentOffer
    /\ row.state \in Live => row.agentId = row.currentOffer
    /\ row.state \in {"NONE", "QUEUED"} => row.agentId = NoAgent

OfferCoherent == \A c \in Calls : RowCoherent(call[c])

\* A call is answered strictly before its offer expires, and no offer outlives
\* the call's pre-answer deadline, although the clock moves between the test
\* in answer() and its UPDATE.
AnsweredInTime ==
    \A c \in Calls : LET row == call[c] IN
        row.state \in {"ACTIVE", "WRAPUP", "COMPLETED"} =>
            /\ row.answeredAt < row.expiresAt[row.currentOffer]
            /\ row.expiresAt[row.currentOffer] <= row.deadline

\* No agent is left RESERVED for a call with nothing to undo it: either the
\* call is still theirs or a cleanup command of their offer is pending, whose
\* confirmation releases them.
NoStrandedReservation ==
    \A a \in Agents, c \in Calls :
        latest[a] = [state |-> "RESERVED", reason |-> c] =>
            Serving(call, a, c) \/ CleanupPending(call, a, c)

\* History is written once: a finished offer keeps its outcome (so nobody is
\* offered the same call again) and a terminal reason never changes, which
\* the trigger on voice_managed_calls would turn into an error.
HistoryFinal ==
    [][\A c \in Calls :
        /\ \A a \in Agents : call[c].outcome[a] \in {"TIMED_OUT", "CANCELLED", "ENDED"} =>
                               call'[c].outcome[a] = call[c].outcome[a]
        /\ call[c].terminalReason # "NONE" =>
               call'[c].terminalReason = call[c].terminalReason]_vars

----------------------------------------------------------------------------
(* The runtime keeps custody of calls *)

Custody == INSTANCE CallCustody WITH
    phase  <- [c \in Calls |-> call[c].state],
    owner  <- [c \in Calls |-> IF call[c].state \in Live THEN call[c].agentId ELSE NoAgent],
    missed <- [c \in Calls |-> {a \in Agents : call[c].outcome[a] = "TIMED_OUT"}]

\* Every transaction of the runtime is a step, or no step, of CallCustody:
\* offers go to free agents only, nobody is offered a call they missed, and
\* calls move through their states in order.
CustodySpec == Custody!CSpec

=============================================================================
