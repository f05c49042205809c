------------------------- MODULE ManagedVoiceSystem -------------------------
(***************************************************************************)
(* The managed voice runtime closed with its port and its switch: the      *)
(* FreeSWITCH adapter (apps/telephony/src/managed-voice-adapter.ts), the   *)
(* process that wires them (e1-sandbox-main.ts) and FreeSWITCH itself,     *)
(* which is external and modelled from how the adapter uses it.            *)
(*                                                                         *)
(* An adapter call is a sequence of ESL requests; each request that reads  *)
(* or changes the switch is a step of its own, and between two of them the *)
(* runtime, the switch and a crash may interleave.  A request whose answer *)
(* is lost is the request's step followed by PortFails or Restart.         *)
(***************************************************************************)
EXTENDS ManagedVoiceRuntime

CONSTANTS
    MaxFaults,      \* bound: lost answers and process restarts
    MaxEvents       \* bound: events under way before the switch waits

ASSUME BoundsAssumption == MaxFaults \in Nat /\ MaxEvents \in Nat \ {0}

VARIABLES
    caller,     \* FreeSWITCH: the caller's channel
    leg,        \* FreeSWITCH: the channel of each offer
    bridged,    \* FreeSWITCH: whose leg the caller was bridged to
    marker,     \* FreeSWITCH globals dcontact_offer_<leg> and dcontact_job_<job>
    events,     \* events on the way from FreeSWITCH to the process
    pc,         \* where the adapter is in the command it executes for a call
    faults

switch == <<caller, leg, bridged, marker>>
port   == <<switch, events, pc, faults>>
sysVars == <<vars, port>>

Steps == {"idle", "exec", "marked", "originated", "linked", "bridged",
          "seen", "unseen", "killed", "absent"}

EventTypes == {"answered", "bridge", "hangup"}

\* Types, and at most one command of a call at the port.
SysTypeOK ==
    /\ caller \in [Calls -> {"none", "up", "dead"}]
    /\ leg \in [Calls -> [Offers -> {"none", "queued", "ringing", "answered", "hanging", "dead"}]]
    /\ bridged \in [Calls -> Offers]
    /\ marker \in [Calls -> [Offers -> {"none", "set", "linked", "settled"}]]
    /\ events \in SUBSET ((EventTypes \cup {"job"}) \X Calls \X Offers)
    /\ pc \in [Calls -> Steps]
    /\ faults \in 0 .. MaxFaults
    /\ \A c \in Calls : /\ Cardinality(executing[c]) <= 1
                        /\ pc[c] = "idle" <=> executing[c] = {}

SysInit ==
    /\ Init
    /\ caller = [c \in Calls |-> "none"]
    /\ leg = [c \in Calls |-> [o \in Offers |-> "none"]]
    /\ bridged = [c \in Calls |-> NoAgent]
    /\ marker = [c \in Calls |-> [o \in Offers |-> "none"]]
    /\ events = {}
    /\ pc = [c \in Calls |-> "idle"]
    /\ faults = 0

\* uuid_exists: a leg told to hang up exists until it is torn down.
LegUp(c, o) == leg[c][o] \in {"ringing", "answered", "hanging"}
CallerUp(c) == caller[c] = "up"

----------------------------------------------------------------------------
(* FreeSWITCH (external) *)

Room == Cardinality(events) < MaxEvents

\* A call comes in, is parked, and its call.created event is handled.
CallerArrives(c) ==
    /\ caller[c] = "none"
    /\ caller' = [caller EXCEPT ![c] = "up"]
    /\ Created(c)
    /\ UNCHANGED <<leg, bridged, marker, events, pc, faults>>

CallerEnds(c) ==
    /\ CallerUp(c) /\ Room
    /\ caller' = [caller EXCEPT ![c] = "dead"]
    /\ events' = events \cup {<<"hangup", c, NoAgent>>}
    /\ UNCHANGED <<vars, leg, bridged, marker, pc, faults>>

\* The background job of an originate starts the leg.
LegRings(c, a) ==
    /\ leg[c][a] = "queued"
    /\ leg' = [leg EXCEPT ![c][a] = "ringing"]
    /\ UNCHANGED <<vars, caller, bridged, marker, events, pc, faults>>

\* originate to &park() completes, and so does its job, when the leg answers.
LegAnswers(c, a) ==
    /\ leg[c][a] = "ringing" /\ Room
    /\ leg' = [leg EXCEPT ![c][a] = "answered"]
    /\ events' = events \cup {<<"answered", c, a>>, <<"job", c, a>>}
    /\ UNCHANGED <<vars, caller, bridged, marker, pc, faults>>

\* The job of an originate that has not completed yet completes now.
JobDone(c, a) == IF leg[c][a] \in {"queued", "ringing"} THEN {<<"job", c, a>>} ELSE {}

\* The leg is refused, times out, is hung up by the agent or torn down.
LegEnds(c, a) ==
    /\ (leg[c][a] = "queued" \/ LegUp(c, a)) /\ Room
    /\ leg' = [leg EXCEPT ![c][a] = "dead"]
    /\ events' = events \cup JobDone(c, a)
                        \cup (IF LegUp(c, a) THEN {<<"hangup", c, a>>} ELSE {})
    /\ UNCHANGED <<vars, caller, bridged, marker, pc, faults>>

----------------------------------------------------------------------------
(* FreeSwitchManagedVoiceAdapter *)

Start(c, o, t) ==
    /\ BeginExecute(c, o, t)
    /\ pc' = [pc EXCEPT ![c] = "exec"]
    /\ UNCHANGED <<switch, events, faults>>

Running(c, o, t, step) == <<o, t>> \in executing[c] /\ pc[c] = step

GoTo(c, step) == pc' = [pc EXCEPT ![c] = step] /\ UNCHANGED vars

Finish(c, o, t, confirmed) ==
    EndExecute(c, o, t, confirmed) /\ pc' = [pc EXCEPT ![c] = "idle"]

\* offer.create that looks for the leg only, and not for what it sent before.
CreateCheck_IgnoresMarker(c, a) ==
    /\ Running(c, a, "offer.create", "exec")
    /\ IF ~CallerUp(c) \/ LegUp(c, a) \/ clock >= call[c].expiresAt[a]
       THEN /\ Finish(c, a, "offer.create", CallerUp(c) /\ LegUp(c, a))
            /\ UNCHANGED marker
       ELSE /\ GoTo(c, "marked")
            /\ marker' = [marker EXCEPT ![c][a] = "set"]
    /\ UNCHANGED <<caller, leg, bridged, events, faults>>

\* offer.create: refuse, recognise the leg it already made, or write the marker.
CreateCheck(c, a) ==
    /\ Running(c, a, "offer.create", "exec")
    /\ IF \/ ~CallerUp(c) \/ LegUp(c, a) \/ marker[c][a] # "none"
          \/ clock >= call[c].expiresAt[a]
       THEN /\ Finish(c, a, "offer.create", CallerUp(c) /\ LegUp(c, a))
            /\ UNCHANGED marker
       ELSE /\ GoTo(c, "marked")
            /\ marker' = [marker EXCEPT ![c][a] = "set"]
    /\ UNCHANGED <<caller, leg, bridged, events, faults>>

\* bgapi originate
CreateOriginate(c, a) ==
    /\ Running(c, a, "offer.create", "marked")
    /\ leg' = [leg EXCEPT ![c][a] = "queued"]
    /\ GoTo(c, "originated")
    /\ UNCHANGED <<caller, bridged, marker, events, faults>>

\* global_setvar dcontact_job_<job>
CreateLink(c, a) ==
    /\ Running(c, a, "offer.create", "originated")
    /\ marker' = [marker EXCEPT ![c][a] = "linked"]
    /\ GoTo(c, "linked")
    /\ UNCHANGED <<caller, leg, bridged, events, faults>>

CreateConfirm(c, a) ==
    /\ Running(c, a, "offer.create", "linked")
    /\ Finish(c, a, "offer.create", LegUp(c, a))
    /\ UNCHANGED <<switch, events, faults>>

\* call.bridge: refuse, recognise the bridge it already made, or bridge, which
\* answers the caller's channel; by then that carries the offer's variables.
BridgeLegs(c, a) ==
    /\ Running(c, a, "call.bridge", "exec")
    /\ IF CallerUp(c) /\ LegUp(c, a) /\ bridged[c] # a
       THEN /\ bridged' = [bridged EXCEPT ![c] = a]
            /\ events' = events \cup {<<"bridge", c, a>>, <<"answered", c, a>>}
            /\ GoTo(c, "bridged")
       ELSE /\ Finish(c, a, "call.bridge", CallerUp(c) /\ LegUp(c, a))
            /\ UNCHANGED <<bridged, events>>
    /\ UNCHANGED <<caller, leg, marker, faults>>

BridgeConfirm(c, a) ==
    /\ Running(c, a, "call.bridge", "bridged")
    /\ Finish(c, a, "call.bridge", CallerUp(c))
    /\ UNCHANGED <<switch, events, faults>>

\* offer.cancel and call.hangup: the first readback.
CleanupProbe(c, o, t) ==
    /\ t \in Cleanup
    /\ Running(c, o, t, "exec")
    /\ GoTo(c, IF LegUp(c, o) THEN "seen" ELSE "unseen")
    /\ UNCHANGED <<switch, events, faults>>

\* A cleanup that takes a leg it cannot see for a leg that does not exist.
OutcomeUnknown_Never(c, o) == FALSE

\* An originate was sent for this leg and nothing says that it is over.
OutcomeUnknown(c, o) == marker[c][o] \in {"set", "linked"}

\* uuid_kill of a leg that was seen, which goes away later, and, for
\* call.hangup, of the caller.  An unseen leg whose originate is open is an error.
CleanupKill(c, o, t) ==
    /\ t \in Cleanup
    /\ Running(c, o, t, "seen") \/ Running(c, o, t, "unseen")
    /\ IF pc[c] = "seen" /\ LegUp(c, o)
       THEN /\ leg' = [leg EXCEPT ![c][o] = "hanging"]
            /\ events' = events \cup JobDone(c, o)
       ELSE UNCHANGED <<leg, events>>
    /\ caller' = IF t = "call.hangup" /\ CallerUp(c)
                 THEN [caller EXCEPT ![c] = "dead"] ELSE caller
    /\ IF pc[c] = "unseen" /\ OutcomeUnknown(c, o)
       THEN Finish(c, o, t, FALSE)
       ELSE GoTo(c, IF pc[c] = "seen" THEN "killed" ELSE "absent")
    /\ UNCHANGED <<bridged, marker, faults>>

\* The second readback, which settles the marker of a leg it saw die.
CleanupConfirm(c, o, t) ==
    /\ t \in Cleanup
    /\ Running(c, o, t, "killed") \/ Running(c, o, t, "absent")
    /\ marker' = IF pc[c] = "killed" /\ ~LegUp(c, o)
                 THEN [marker EXCEPT ![c][o] = "settled"] ELSE marker
    /\ Finish(c, o, t, ~LegUp(c, o) /\ (t = "offer.cancel" \/ ~CallerUp(c)))
    /\ UNCHANGED <<caller, leg, bridged, events, faults>>

\* An ESL request times out or the port is not ready: execute() throws.
PortFails(c, o, t) ==
    /\ faults < MaxFaults
    /\ pc[c] # "idle"
    /\ Finish(c, o, t, FALSE)
    /\ faults' = faults + 1
    /\ UNCHANGED <<switch, events>>

\* backgroundJob(), which the dispatch timer runs before and never during a
\* round of commands.  A job without its variable is remembered in vain.
BackgroundJob(c, a) ==
    /\ <<"job", c, a>> \in events
    /\ \A d \in Calls : executing[d] = {}
    /\ events' = events \ {<<"job", c, a>>}
    /\ marker' = IF marker[c][a] = "linked"
                 THEN [marker EXCEPT ![c][a] = "settled"] ELSE marker
    /\ UNCHANGED <<vars, caller, leg, bridged, pc, faults>>

----------------------------------------------------------------------------
(* The process *)

\* One event of the event chain; events are handled one at a time, in any order.
Deliver(type, c, o) ==
    /\ <<type, c, o>> \in events
    /\ events' = events \ {<<type, c, o>>}
    /\ \/ type = "answered" /\ Answer(c, o, FALSE)
       \/ type = "bridge" /\ Bridge(c, o)
       \/ type = "hangup" /\ Hangup(c, o)
    /\ UNCHANGED <<switch, pc, faults>>

\* Reconcile that ends a call only when both legs are gone.
Reconcile_BothGone(c) ==
    /\ ~CallerUp(c) /\ ~LegUp(c, call[c].currentOffer)
    /\ ReconcileActive(c)
    /\ UNCHANGED port

\* reconcileActive() with its readback.
Reconcile(c) ==
    /\ ~(CallerUp(c) /\ LegUp(c, call[c].currentOffer))
    /\ ReconcileActive(c)
    /\ UNCHANGED port

\* The ESL connection closes: the process exits and comes back without the
\* events and jobs that were on their way.
Restart ==
    /\ faults < MaxFaults
    /\ Crash
    /\ events' = {}
    /\ pc' = [c \in Calls |-> "idle"]
    /\ faults' = faults + 1
    /\ UNCHANGED switch

CreateStep(c, a) ==
    \/ CreateCheck(c, a) \/ CreateOriginate(c, a) \/ CreateLink(c, a) \/ CreateConfirm(c, a)
BridgeStep(c, a) == BridgeLegs(c, a) \/ BridgeConfirm(c, a)
CleanupStep(c, o, t) ==
    CleanupProbe(c, o, t) \/ CleanupKill(c, o, t) \/ CleanupConfirm(c, o, t)

\* The next request of the command that is being executed for call c.
PortStep(c) ==
    \/ \E a \in Agents : CreateStep(c, a) \/ BridgeStep(c, a)
    \/ \E o \in Offers, t \in Cleanup : CleanupStep(c, o, t)

Drop(c, o, t) == DropObsolete(c, o, t) /\ UNCHANGED port
DueTick(c) == Tick(c) /\ UNCHANGED port
Pass == PassTime /\ UNCHANGED port

SysNext ==
    \/ Pass \/ Restart
    \/ \E c \in Calls :
         \/ CallerArrives(c) \/ CallerEnds(c) \/ DueTick(c) \/ Reconcile(c) \/ PortStep(c)
         \/ SubmitWrapup(c) /\ UNCHANGED port
    \/ \E c \in Calls, a \in Agents :
         \/ LegRings(c, a) \/ LegAnswers(c, a) \/ LegEnds(c, a)
         \/ BackgroundJob(c, a)
    \/ \E c \in Calls, o \in Offers, t \in CmdTypes :
         Start(c, o, t) \/ Drop(c, o, t) \/ PortFails(c, o, t)
    \/ \E type \in EventTypes, c \in Calls, o \in Offers :
         Deliver(type, c, o)
    \/ \E a \in Agents : SelfAvailable(a) /\ UNCHANGED port
    \/ \E a \in Agents, s \in {"OFFLINE", "AVAILABLE"} :
         (Stage(a, s) \/ Land(a, s)) /\ UNCHANGED port

SysSpec == SysInit /\ [][SysNext]_sysVars

----------------------------------------------------------------------------
(* Properties *)

InPlay(c, a) == leg[c][a] \in {"queued", "ringing", "answered", "hanging"}

\* An agent's phone is in play for one call at most: no second leg rings, is
\* about to ring or is still up while another call's leg is, across timeouts,
\* late answers, lost answers and restarts.
OnePhone ==
    \A a \in Agents : \A c, d \in Calls : InPlay(c, a) /\ InPlay(d, a) => c = d

\* A confirmed cleanup is the truth: once offer.cancel or call.hangup of an
\* offer is CONFIRMED its leg is gone and no originate can still bring it up.
CleanupTruthful ==
    \A c \in Calls, a \in Agents, t \in Cleanup :
        call[c].cmd[a][t] = "CONFIRMED" => ~InPlay(c, a)

\* The caller only ever talks to the agent who answered the current offer.
BridgedToAnswerer ==
    \A c \in Calls : bridged[c] # NoAgent =>
        bridged[c] = call[c].currentOffer /\ call[c].outcome[bridged[c]] \in {"ANSWERED", "ENDED"}

\* When a finished call has no command left to carry out, nothing of it is
\* left on the switch: neither the caller nor any leg of any of its offers.
NothingLeftBehind ==
    \A c \in Calls :
        /\ call[c].state \in {"WRAPUP", "COMPLETED", "ABANDONED"}
        /\ \A o \in Offers, t \in CmdTypes : call[c].cmd[o][t] # "PENDING"
        => ~CallerUp(c) /\ \A a \in Agents : ~InPlay(c, a)

\* An offer's phone is rung once: the adapter never originates a second leg for
\* an offer, although offer.create is retried after lost answers and restarts
\* and cannot see a leg whose background job has not started it, or that ended.
RungOnce ==
    [][\A c \in Calls, a \in Agents : CreateOriginate(c, a) => leg[c][a] = "none"]_sysVars

\* A cleanup that can only be finished by an operator
\* (MANAGED_VOICE_ORIGINATE_OUTCOME_UNKNOWN): the leg is not there, its marker
\* is open, and no job result is on its way.
Unknown(c, a) ==
    /\ OutcomeUnknown(c, a) /\ executing[c] = {}
    /\ ~InPlay(c, a) /\ <<"job", c, a>> \notin events

----------------------------------------------------------------------------
(* Fairness and liveness *)

\* Timers and handlers of the process run again and again (dueTimer and
\* dispatchTimer every second); the switch starts or fails a queued originate,
\* ends a ringing leg within originate_timeout and tears down killed legs.
\* Callers and agents owe nothing.
Fairness ==
    /\ WF_sysVars(Pass)
    /\ \A c \in Calls :
         /\ WF_sysVars(DueTick(c))
         /\ WF_sysVars(Reconcile(c))
         /\ WF_sysVars(PortStep(c))
         /\ WF_sysVars(\E type \in EventTypes, o \in Offers : Deliver(type, c, o))
         /\ \A a \in Agents :
              /\ WF_sysVars(leg[c][a] # "answered" /\ LegEnds(c, a))
              /\ SF_sysVars(BackgroundJob(c, a))
              /\ \A t \in Cleanup : SF_sysVars(Start(c, a, t))

LiveSpec == SysSpec /\ Fairness

\* Every waiting call is answered or abandoned, whatever FreeSWITCH loses.
CallsDecided ==
    \A c \in Calls : call[c].state \in Preanswer ~> call[c].state \notin Preanswer

\* A dead conversation does not stay ACTIVE: even when the hangup event was
\* lost, reconcileActive() ends it.
DeadCallsEnd ==
    \A c \in Calls :
        call[c].state = "ACTIVE" /\ caller[c] = "dead" ~> call[c].state # "ACTIVE"

\* Every cleanup command is confirmed in the end, so that its agent comes back,
\* or waits for an operator.
CleanupsResolve ==
    \A c \in Calls, a \in Agents, t \in Cleanup :
        call[c].cmd[a][t] = "PENDING" ~> call[c].cmd[a][t] # "PENDING" \/ Unknown(c, a)

=============================================================================
