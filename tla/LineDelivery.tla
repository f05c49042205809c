---------------------------- MODULE LineDelivery ----------------------------
(***************************************************************************)
(* apps/delivery: a message pushed to LINE.  Enqueue claims a reservation  *)
(* and writes the outbox row; submit and reconcile (line-outbound-adapter) *)
(* take the units of the control plane, cross the submission barrier, push *)
(* with a retry key that LINE remembers for 24 hours, and settle the       *)
(* answer with contact governance and in the outbox.                       *)
(*                                                                         *)
(* A worker is one call of enqueue, submit or reconcile.  Every            *)
(* transaction and every request it awaits is a step of its own; between   *)
(* two of them other workers run, or the call dies.  The reservation is    *)
(* the one of ReservationRuntime, and a command is one of its actions.     *)
(***************************************************************************)
EXTENDS ReservationRuntime, Sequences

CONSTANTS
  Workers,
  ReservationOf,   \* the reservation whose action key names the delivery
  MaxAttempts,     \* provider attempts per logical delivery
  MaxFaults        \* bound on crashes

ASSUME LineAssumption ==
  /\ ReservationOf \in [Deliveries -> Reservations]
  /\ \A d, e \in Deliveries : ReservationOf[d] = ReservationOf[e] => d = e
  /\ MaxAttempts \in Nat /\ MaxFaults \in Nat

VARIABLES
  outbox,     \* dl_outbox_entries
  caps,       \* dl_line_cap_ledger
  killed,     \* the kill latch of the gate
  tries,      \* dl_provider_submission_attempts: the outcome codes, in order
  events,     \* dl_line_event_outbox
  window,     \* the 24 hours since the first recorded attempt
  remembers,  \* LINE still knows the retry key of a message it accepted
  sent,       \* messages the recipient got
  work,       \* the calls under way
  faults

lvars == <<outbox, caps, killed, tries, events, window, remembers, sent>>

vars == <<rvars, lvars, work, faults>>

OutboxStates == {"NONE", "QUEUED", "SUBMITTING", "SUBMITTED", "RECONCILING", "SETTLED"}

\* classifyLineResponse: 2xx, 409 with the accepted id, 401/403 or exhausted
\* quota, 429, other 4xx; no usable answer and 5xx leave the outcome open.
Codes == {"ok", "replay", "denied", "limited", "recipient", "unknown", "unavailable"}

\* An open outcome taken for an acceptance.
Accepted_Unknown(code) == code \in {"ok", "replay", "unknown", "unavailable"}

Accepted(code) == code \in {"ok", "replay"}

Rejected(code) == code \in {"denied", "limited", "recipient"}

NormalizedOutcome(code) ==
  IF Accepted(code) THEN "PROVIDER_ACCEPTED" ELSE "PROVIDER_REJECTED"

RejectionScope(code) ==
  IF Accepted(code) THEN None
  ELSE IF code = "recipient" THEN "RECIPIENT" ELSE "OPERATIONAL"

\* outcomeRef is cut at 64 characters, where LINE_ACCEPTED and
\* LINE_ACCEPTED_REPLAY do not differ yet.
OutcomeRef(d, code) == <<d, IF Accepted(code) THEN "accepted" ELSE code>>

ASSUME RefsAssumption == \A d \in Deliveries, code \in Codes : OutcomeRef(d, code) \in Refs

NoWork == [pc |-> "idle", d |-> None, entry |-> "NONE", no |-> 0, code |-> None,
           fresh |-> FALSE, granted |-> FALSE]

NoCaps == [logical |-> "NONE", slot |-> "NONE", unknown |-> "NONE", attempts |-> {}]

LInit ==
  /\ Init
  /\ outbox = [d \in Deliveries |->
                 [state |-> "NONE", key |-> None, version |-> 0, outcome |-> None]]
  /\ caps = [d \in Deliveries |-> NoCaps]
  /\ killed = FALSE
  /\ tries = [d \in Deliveries |-> <<>>]
  /\ events = {}
  /\ window = [d \in Deliveries |-> "none"]
  /\ remembers = [d \in Deliveries |-> FALSE]
  /\ sent = [d \in Deliveries |-> 0]
  /\ work = [w \in Workers |-> NoWork]
  /\ faults = 0

-----------------------------------------------------------------------------
(* Calls and their steps *)

At(w, pc) == work[w].pc = pc

Go(w, pc) == work' = [work EXCEPT ![w].pc = pc]

\* The call returns or throws.
Done(w) == work' = [work EXCEPT ![w] = NoWork]

\* A submission that has not looked at the history; its attempt is the first.
First(w) == work[w].no = 0

AttemptNo(w) == IF First(w) THEN 1 ELSE work[w].no

\* A command that was executed before, with the same input.
Replayed(op, key, r, input) ==
  /\ \E m \in receipts :
       m.op = op /\ m.key = key /\ m.reservation = r /\ m.input = input
  /\ UNCHANGED rvars

\* outbox.advance: conditional on the state; the callers ignore a miss.
Advance(d, from, to) ==
  outbox' = IF outbox[d].state \in from
            THEN [outbox EXCEPT ![d] = to] ELSE outbox

\* settleCap: RESERVED becomes s once.
SettleCap(d, kind, s) ==
  caps' = IF caps[d][kind] = "RESERVED"
          THEN [caps EXCEPT ![d][kind] = s] ELSE caps

\* How many deliveries hold a unit of this kind.
Active(kind) == {d \in Deliveries : caps[d][kind] = "RESERVED"}

-----------------------------------------------------------------------------
(* enqueue *)

StartEnqueue(w, d) ==
  /\ At(w, "idle")
  /\ outbox[d].state = "NONE"
  /\ work' = [work EXCEPT ![w] = [NoWork EXCEPT !.pc = "claim", !.d = d]]
  /\ UNCHANGED <<rvars, lvars, faults>>

\* The lease lasts as long as the reservation.
ClaimCall(w) ==
  LET d == work[w].d
      r == ReservationOf[d]
      until == rows[r].expiresAt
  IN  /\ At(w, "claim")
      /\ \/ Claim(r, d, until)
         \/ Replayed("CLAIM", r, r, <<d, until>>)
      /\ Go(w, "create")
      /\ UNCHANGED <<lvars, faults>>

\* The unique action key picks one row; the loser returns the winner's.
CreateEntry(w) ==
  LET d == work[w].d IN
  /\ At(w, "create")
  /\ \/ /\ outbox[d].state = "NONE"
        /\ \E k \in Keys :
             /\ \A e \in Deliveries : outbox[e].key # k
             /\ outbox' = [outbox EXCEPT ![d] = [state |-> "QUEUED", key |-> k,
                                                 version |-> 1, outcome |-> None]]
     \/ outbox[d].state # "NONE" /\ UNCHANGED outbox
  /\ Done(w)
  /\ UNCHANGED <<rvars, caps, killed, tries, events, window, remembers, sent, faults>>

-----------------------------------------------------------------------------
(* submit and reconcile, up to the barrier *)

\* SUBMITTED and SETTLED rows are a NOOP.
Submit(w, d) ==
  /\ At(w, "idle")
  /\ outbox[d].state \in {"QUEUED", "SUBMITTING", "RECONCILING"}
  /\ work' = [work EXCEPT ![w] =
       [NoWork EXCEPT !.d = d, !.entry = outbox[d].state,
          !.pc = IF outbox[d].state = "QUEUED" THEN "gate" ELSE "history"]]
  /\ UNCHANGED <<rvars, lvars, faults>>

\* A history whose window is not looked at.
History_NoWindow(w) ==
  LET d == work[w].d IN
  /\ At(w, "history")
  /\ work' = [work EXCEPT ![w].entry = outbox[d].state, ![w].no = Len(tries[d]) + 1,
                          ![w].pc = IF work[w].granted THEN "cap" ELSE "gate"]
  /\ UNCHANGED <<rvars, lvars, faults>>

\* reconcile: the row is read again, the receipts count the attempts, and past
\* the retry window the delivery is quarantined.
History(w) ==
  LET d == work[w].d IN
  /\ At(w, "history")
  /\ work' = [work EXCEPT ![w] =
       IF outbox[d].state \in {"SUBMITTED", "SETTLED"} THEN NoWork
       ELSE [@ EXCEPT !.entry = outbox[d].state, !.no = Len(tries[d]) + 1,
                      !.pc = IF window[d] = "closed" THEN "quarantine"
                             ELSE IF work[w].granted THEN "cap" ELSE "gate"]]
  /\ UNCHANGED <<rvars, lvars, faults>>

Quarantine(w) ==
  LET d == work[w].d IN
  /\ At(w, "quarantine")
  /\ Advance(d, {"SUBMITTING", "RECONCILING"}, [outbox[d] EXCEPT !.state = "RECONCILING"])
  /\ Go(w, "expire")
  /\ UNCHANGED <<rvars, caps, killed, tries, events, window, remembers, sent, faults>>

\* evaluate: the kill latch refuses for good.  The technical switch, the
\* business state, configuration, credential, quota, run and allowlist belong
\* to operators and the clock: they may refuse any call, as often as they
\* like, and a signal (quota used up, binding mismatch) sets the latch.
Evaluate == IF killed THEN {"denied"} ELSE {"allowed", "denied", "signal"}

\* beginRun: evaluate, and the pause while another outcome is unknown.
Gate(w) ==
  /\ At(w, "gate")
  /\ \E decision \in Evaluate :
       /\ IF decision = "allowed" /\ Active("unknown") \subseteq {work[w].d}
          THEN Go(w, "logical") ELSE Done(w)
       /\ killed' = (killed \/ decision = "signal")
  /\ UNCHANGED <<rvars, outbox, caps, tries, events, window, remembers, sent, faults>>

\* beginRun: the unit of the logical delivery.  The limits per day, recipient
\* and run may refuse a new one at any time.
ReserveLogical(w) ==
  LET d == work[w].d IN
  /\ At(w, "logical")
  /\ \/ /\ caps[d].logical = "NONE"
        /\ \/ /\ ~killed
              /\ caps' = [caps EXCEPT ![d].logical = "RESERVED"]
              /\ work' = [work EXCEPT ![w].pc = "slot", ![w].fresh = TRUE]
           \/ Done(w) /\ UNCHANGED caps
        /\ UNCHANGED killed
     \/ /\ caps[d].logical = "RESERVED"
        /\ Go(w, "slot")
        /\ UNCHANGED <<caps, killed>>
     \/ /\ caps[d].logical = "RELEASED"
        /\ killed' = TRUE
        /\ Done(w)
        /\ UNCHANGED caps
     \/ /\ caps[d].logical = "COMMITTED"
        /\ work' = [work EXCEPT ![w].granted = TRUE,
                                ![w].pc = IF First(w) THEN "history" ELSE "cap"]
        /\ UNCHANGED <<caps, killed>>
  /\ UNCHANGED <<rvars, outbox, tries, events, window, remembers, sent, faults>>

\* beginRun: the one concurrent submission.  A denial gives the unit back that
\* this call took; a slot already given back is an accounting inconsistency.
ReserveSlot(w) ==
  LET d == work[w].d
      next == IF First(w) THEN "pre" ELSE "cap"
  IN
  /\ At(w, "slot")
  /\ \/ /\ caps[d].slot = "NONE" /\ ~killed /\ Active("slot") = {}
        /\ caps' = [caps EXCEPT ![d].slot = "RESERVED"]
        /\ Go(w, next)
        /\ UNCHANGED killed
     \/ /\ caps[d].slot = "NONE" /\ (killed \/ Active("slot") # {})
        /\ IF work[w].fresh THEN SettleCap(d, "logical", "RELEASED") ELSE UNCHANGED caps
        /\ Done(w)
        /\ UNCHANGED killed
     \/ /\ caps[d].slot = "RESERVED"
        /\ Go(w, next)
        /\ UNCHANGED <<caps, killed>>
     \/ /\ caps[d].slot = "RELEASED"
        /\ killed' = TRUE
        /\ Done(w)
        /\ UNCHANGED caps
  /\ UNCHANGED <<rvars, outbox, tries, events, window, remembers, sent, faults>>

\* No limit on the attempts of a delivery.
ReserveAttempt_Unlimited(w) ==
  LET d == work[w].d IN
  /\ At(w, "cap")
  /\ caps' = [caps EXCEPT ![d].attempts = @ \cup {AttemptNo(w)}]
  /\ Go(w, IF work[w].entry = "QUEUED" THEN "begin" ELSE "push")
  /\ UNCHANGED <<rvars, outbox, killed, tries, events, window, remembers, sent, faults>>

\* reserveProviderAttempt
ReserveAttempt(w) ==
  LET d == work[w].d
      used == caps[d].attempts
      next == IF work[w].entry = "QUEUED" THEN "begin" ELSE "push"
  IN
  /\ At(w, "cap")
  /\ \/ /\ AttemptNo(w) \in used
        /\ Go(w, next)
        /\ UNCHANGED <<caps, killed>>
     \/ /\ AttemptNo(w) \notin used /\ ~killed /\ Cardinality(used) < MaxAttempts
        /\ caps' = [caps EXCEPT ![d].attempts = @ \cup {AttemptNo(w)}]
        /\ Go(w, next)
        /\ UNCHANGED killed
     \/ /\ AttemptNo(w) \notin used /\ (killed \/ Cardinality(used) >= MaxAttempts)
        /\ killed' = TRUE
        /\ Done(w)
        /\ UNCHANGED caps
  /\ UNCHANGED <<rvars, outbox, tries, events, window, remembers, sent, faults>>

-----------------------------------------------------------------------------
(* The barrier and the push *)

\* The outbox is advanced without telling contact governance.
BeginCall_Skipped(w) ==
  /\ At(w, "begin")
  /\ Go(w, "submitting")
  /\ UNCHANGED <<rvars, lvars, faults>>

BeginCall(w) ==
  LET d == work[w].d
      r == ReservationOf[d]
      k == outbox[d].key
      v == outbox[d].version
  IN
  /\ At(w, "begin")
  /\ \/ BeginSubmission(r, d, v, k)
     \/ Replayed("BEGIN_SUBMISSION", r, r, <<d, v, k>>)
  /\ Go(w, "submitting")
  /\ UNCHANGED <<lvars, faults>>

AdvanceSubmitting(w) ==
  LET d == work[w].d IN
  /\ At(w, "submitting")
  /\ Advance(d, {"QUEUED"}, [outbox[d] EXCEPT !.state = "SUBMITTING"])
  /\ Go(w, "commit")
  /\ UNCHANGED <<rvars, caps, killed, tries, events, window, remembers, sent, faults>>

\* commitDelivery, in two transactions.
CommitDelivery(w) ==
  LET d == work[w].d IN
  /\ \/ At(w, "commit") /\ SettleCap(d, "logical", "COMMITTED") /\ Go(w, "free")
     \/ At(w, "free") /\ SettleCap(d, "slot", "RELEASED") /\ Go(w, "post")
  /\ UNCHANGED <<rvars, outbox, killed, tries, events, window, remembers, sent, faults>>

\* LINE: accepts a retry key once while it remembers it; may refuse before it
\* looks at the key; the answer may get lost on the way.
Push(w, code) ==
  LET d == work[w].d
      delivers == ~remembers[d] /\ code \in {"ok", "unknown", "unavailable"}
  IN
  /\ At(w, "push")
  /\ code = "ok" => ~remembers[d]
  /\ code = "replay" => remembers[d]
  /\ code = "recipient" => ~remembers[d]
  /\ \/ /\ delivers
        /\ sent' = [sent EXCEPT ![d] = @ + 1]
        /\ remembers' = [remembers EXCEPT ![d] = TRUE]
     \/ /\ code # "ok"
        /\ UNCHANGED <<sent, remembers>>
  /\ work' = [work EXCEPT ![w].pc = "record", ![w].code = code]
  /\ UNCHANGED <<rvars, outbox, caps, killed, tries, events, window, faults>>

\* Where each outcome continues.
AfterRecord(code) ==
  IF Accepted(code) THEN "confirm" ELSE IF Rejected(code) THEN "settle" ELSE "park"

\* The receipt; a second one for the same attempt number is a conflict.
RecordAttempt(w) ==
  LET d == work[w].d IN
  /\ At(w, "record")
  /\ IF AttemptNo(w) = Len(tries[d]) + 1
     THEN /\ tries' = [tries EXCEPT ![d] = Append(@, work[w].code)]
          /\ window' = [window EXCEPT ![d] = IF @ = "none" THEN "open" ELSE @]
          /\ Go(w, AfterRecord(work[w].code))
     ELSE UNCHANGED <<tries, window>> /\ Done(w)
  /\ UNCHANGED <<rvars, outbox, caps, killed, events, remembers, sent, faults>>

-----------------------------------------------------------------------------
(* After the answer *)

ConfirmCall(w) ==
  LET d == work[w].d
      r == ReservationOf[d]
      k == outbox[d].key
  IN
  /\ At(w, "confirm")
  /\ Confirm(r, d, k) \/ Replayed("CONFIRM", r, r, <<d, k>>)
  /\ Go(w, "submitted")
  /\ UNCHANGED <<lvars, faults>>

AdvanceSubmitted(w) ==
  LET d == work[w].d IN
  /\ At(w, "submitted")
  /\ Advance(d, {"SUBMITTING", "RECONCILING"}, [outbox[d] EXCEPT !.state = "SUBMITTED"])
  /\ Go(w, "accepted")
  /\ UNCHANGED <<rvars, caps, killed, tries, events, window, remembers, sent, faults>>

\* A refusal of governance is swallowed.
SettleCall_Swallows(w) ==
  LET d == work[w].d
      r == ReservationOf[d]
      c == work[w].code
      o == NormalizedOutcome(c)
      s == RejectionScope(c)
  IN
  /\ At(w, "settle")
  /\ \/ \E at \in Stamps : SettleTerminal(r, d, outbox[d].key, OutcomeRef(d, c), o, s, at)
     \/ UNCHANGED rvars
  /\ Go(w, IF c = "denied" THEN "kill" ELSE "outbox")
  /\ UNCHANGED <<lvars, faults>>

\* settleDelivery of confirm and reject.
SettleCall(w) ==
  LET d == work[w].d
      r == ReservationOf[d]
      k == outbox[d].key
      c == work[w].code
      ref == OutcomeRef(d, c)
      o == NormalizedOutcome(c)
      s == RejectionScope(c)
  IN
  /\ At(w, "settle")
  /\ \E at \in Stamps :
       \/ SettleTerminal(r, d, k, ref, o, s, at)
       \/ SettleLate(r, d, k, ref, o, s, at)
       \/ Replayed("SETTLE", ref, r, SettleInput(d, k, o, s, at))
  /\ Go(w, IF c = "denied" THEN "kill" ELSE "outbox")
  /\ UNCHANGED <<lvars, faults>>

\* killOnSignal: of an account that is refused, and of an expired window.
KillGate(w) ==
  /\ \/ At(w, "kill") /\ Go(w, "outbox")
     \/ At(w, "expire") /\ Go(w, "expired")
  /\ killed' = TRUE
  /\ UNCHANGED <<rvars, outbox, caps, tries, events, window, remembers, sent, faults>>

SettleOutbox(w) ==
  LET d == work[w].d IN
  /\ At(w, "outbox")
  /\ Advance(d, {"SUBMITTING", "SUBMITTED", "RECONCILING"},
             [outbox[d] EXCEPT !.state = "SETTLED",
                               !.outcome = NormalizedOutcome(work[w].code)])
  /\ Go(w, "exit")
  /\ UNCHANGED <<rvars, caps, killed, tries, events, window, remembers, sent, faults>>

ExitUnknown(w) ==
  /\ At(w, "exit")
  /\ SettleCap(work[w].d, "unknown", "RELEASED")
  /\ Go(w, "settled")
  /\ UNCHANGED <<rvars, outbox, killed, tries, events, window, remembers, sent, faults>>

\* markReconciling
Park(w) ==
  LET d == work[w].d IN
  /\ At(w, "park")
  /\ Advance(d, {"SUBMITTING", "RECONCILING"}, [outbox[d] EXCEPT !.state = "RECONCILING"])
  /\ Go(w, "enter")
  /\ UNCHANGED <<rvars, caps, killed, tries, events, window, remembers, sent, faults>>

\* enterUnknownReconciling; a denial is ignored.
EnterUnknown(w) ==
  LET d == work[w].d IN
  /\ At(w, "enter")
  /\ caps' = IF caps[d].unknown = "NONE" /\ ~killed /\ Active("unknown") = {}
             THEN [caps EXCEPT ![d].unknown = "RESERVED"] ELSE caps
  /\ Go(w, "unknown")
  /\ UNCHANGED <<rvars, outbox, killed, tries, events, window, remembers, sent, faults>>

\* settleDelivery of markReconciling.
UnknownCall(w) ==
  LET d == work[w].d
      r == ReservationOf[d]
      k == outbox[d].key
      ref == OutcomeRef(d, work[w].code)
  IN
  /\ At(w, "unknown")
  /\ \E at \in Stamps :
       \/ SettleUnknown(r, d, k, ref, at)
       \/ SettleLate(r, d, k, ref, "UNKNOWN_RECONCILING", None, at)
       \/ Replayed("SETTLE", ref, r, SettleInput(d, k, "UNKNOWN_RECONCILING", None, at))
  /\ Go(w, "reconciling")
  /\ UNCHANGED <<lvars, faults>>

\* The lifecycle events, and where the call goes after each.
EmitNext == [pre |-> "cap", post |-> "push", accepted |-> "settle",
             settled |-> "idle", reconciling |-> "idle", expired |-> "idle"]

EventId(w) == [d |-> work[w].d, kind |-> work[w].pc, code |-> work[w].code]

\* An id that was used before is fine only with the same occurredAt; the other
\* case is in Throw.
Emit(w) ==
  /\ work[w].pc \in DOMAIN EmitNext
  /\ events' = events \cup {EventId(w)}
  /\ IF EmitNext[work[w].pc] = "idle" THEN Done(w) ELSE Go(w, EmitNext[work[w].pc])
  /\ UNCHANGED <<rvars, outbox, caps, killed, tries, window, remembers, sent, faults>>

-----------------------------------------------------------------------------
(* Calls that throw, and the environment *)

\* The receipt exists with another input, or there is none and the command's
\* checks fail.
ClaimRefused(r, d) ==
  LET row == Seen(r)
      until == row.expiresAt
  IN  IF HasReceipt("CLAIM", r)
      THEN \A m \in receipts : m.op = "CLAIM" /\ m.key = r => m.input # <<d, until>>
      ELSE ~(row.state = "RESERVED" /\ row.status = "UNCLAIMED" /\ Clock(r) < until)

BeginRefused(r, d, v, k) ==
  LET row == Seen(r) IN
  IF HasReceipt("BEGIN_SUBMISSION", r)
  THEN \A m \in receipts :
         m.op = "BEGIN_SUBMISSION" /\ m.key = r => m.input # <<d, v, k>>
  ELSE ~(/\ HoldsLease(r, d, v)
         /\ row.auth # None => head[row.contact] = row.auth)

ConfirmRefused(r, d, k) ==
  /\ ~HasReceipt("CONFIRM", r)
  /\ ~(ProviderBound(rows[r], d, k) /\ ~Settled(rows[r]) /\ rows[r].state = "RESERVED")

\* A settlement under a reference that was used at another time, or a
\* rejection of what was accepted.
SettleRefused(r, d, code, outcome) ==
  LET ref == OutcomeRef(d, code) IN
  IF HasReceipt("SETTLE", ref)
  THEN \E at \in Stamps : \A m \in receipts :
         m.op = "SETTLE" /\ m.key = ref =>
           m.input # SettleInput(d, outbox[d].key, outcome,
                       IF outcome = "UNKNOWN_RECONCILING" THEN None ELSE RejectionScope(code), at)
  ELSE ~Settled(rows[r]) /\ outcome = "PROVIDER_REJECTED" /\ rows[r].state = "CONFIRMED"

\* A call that ends with an exception: governance refuses its command, or the
\* id of its event exists with another occurredAt (emit).
Throw(w) ==
  LET d == work[w].d
      r == ReservationOf[d]
      k == outbox[d].key
  IN
  /\ ~At(w, "idle")
  /\ \/ At(w, "claim") /\ ClaimRefused(r, d)
     \/ At(w, "begin") /\ BeginRefused(r, d, outbox[d].version, k)
     \/ At(w, "confirm") /\ ConfirmRefused(r, d, k)
     \/ At(w, "settle") /\ SettleRefused(r, d, work[w].code, NormalizedOutcome(work[w].code))
     \/ At(w, "unknown") /\ SettleRefused(r, d, work[w].code, "UNKNOWN_RECONCILING")
     \/ work[w].pc \in DOMAIN EmitNext /\ EventId(w) \in events
  /\ Done(w)
  /\ UNCHANGED <<rvars, lvars, faults>>

\* The process dies, or a service it calls is out of reach.
Fault(w) ==
  /\ ~At(w, "idle") /\ faults < MaxFaults
  /\ Done(w)
  /\ faults' = faults + 1
  /\ UNCHANGED <<rvars, lvars>>

\* 24 hours pass, which is long compared with a call.
WindowLapses(d) ==
  /\ remembers[d] \/ window[d] = "open"
  /\ \A w \in Workers : work[w].d # d
  /\ remembers' = [remembers EXCEPT ![d] = FALSE]
  /\ window' = [window EXCEPT ![d] = IF @ = "open" THEN "closed" ELSE @]
  /\ UNCHANGED <<rvars, outbox, caps, killed, tries, events, sent, work, faults>>

\* Governance acts on its own: grants, withdrawals, cancellations, the sweeper
\* and the clock.  A command has read the row before it updates it (ReadRow);
\* whose command that is shows only when it does.
Governance ==
  /\ \/ \E r \in Reservations, c \in Contacts : Reserve(r, c, TRUE)
     \/ \E r \in Reservations, reason \in {"CANCELLED_BEFORE_SUBMIT", "LEASE_EXPIRED"} :
          Release(r, rows[r].delivery, reason)
     \/ \E r \in Reservations : ReadRow(r) \/ Rollback(r) \/ Sweep(r)
     \/ \E c \in Contacts : AdvanceHead(c)
     \/ Tick
  /\ UNCHANGED <<lvars, work, faults>>

Step(w) ==
  \/ ClaimCall(w) \/ CreateEntry(w) \/ History(w) \/ Quarantine(w) \/ Gate(w)
  \/ ReserveLogical(w) \/ ReserveSlot(w) \/ ReserveAttempt(w) \/ BeginCall(w)
  \/ AdvanceSubmitting(w) \/ CommitDelivery(w) \/ (\E code \in Codes : Push(w, code))
  \/ RecordAttempt(w) \/ ConfirmCall(w) \/ AdvanceSubmitted(w) \/ SettleCall(w)
  \/ KillGate(w) \/ SettleOutbox(w) \/ ExitUnknown(w) \/ Park(w) \/ EnterUnknown(w)
  \/ UnknownCall(w) \/ Emit(w) \/ Throw(w)

LNext ==
  \/ \E w \in Workers :
       \/ \E d \in Deliveries : StartEnqueue(w, d) \/ Submit(w, d)
       \/ Step(w)
       \/ Fault(w)
  \/ \E d \in Deliveries : WindowLapses(d)
  \/ Governance

LSpec == LInit /\ [][LNext]_vars

-----------------------------------------------------------------------------
(* Properties *)

\* The tables of the delivery side.
LTypeOK ==
  /\ \A d \in Deliveries :
       /\ outbox[d].state \in OutboxStates
       /\ outbox[d].outcome \in {None, "PROVIDER_ACCEPTED", "PROVIDER_REJECTED"}
       /\ \A kind \in {"logical", "slot", "unknown"} :
            caps[d][kind] \in {"NONE", "RESERVED", "COMMITTED", "RELEASED"}
       /\ caps[d].attempts \subseteq 1..MaxAttempts
       /\ tries[d] \in Seq(Codes)
       /\ window[d] \in {"none", "open", "closed"}
  /\ killed \in BOOLEAN

\* The adapter's first rule: while a request is at LINE, and ever after a
\* message got out, governance knows the submission under this very key and
\* the outbox row is past QUEUED, whoever else works on the delivery.
BarrierBeforePush ==
  \A d \in Deliveries :
    (sent[d] > 0 \/ \E w \in Workers : work[w].d = d /\ work[w].pc \in {"push", "record"}) =>
      /\ Started(rows[ReservationOf[d]])
      /\ rows[ReservationOf[d]].key = outbox[d].key
      /\ outbox[d].state \notin {"NONE", "QUEUED"}

\* The third rule: an acceptance is never guessed.  What governance or the
\* outbox calls accepted did reach the recipient, and quota that is given
\* back past the barrier has a refusal of LINE on record, unless the sweeper
\* gave it back under a beginSubmission that had read the row before.
NeverGuessed ==
  \A d \in Deliveries :
    LET row == rows[ReservationOf[d]] IN
    /\ row.state = "CONFIRMED" \/ outbox[d].outcome = "PROVIDER_ACCEPTED" => sent[d] > 0
    /\ Started(row) /\ row.state = "RELEASED" /\ ReservationOf[d] \notin overtaken =>
         \E i \in DOMAIN tries[d] : tries[d][i] \in {"denied", "limited", "recipient"}

\* However often the process dies in between, the three ledgers of a settled
\* delivery tell one story: outbox row, reservation and last receipt, which is
\* what line-team-trial's settled() reports.
LedgersAgree ==
  \A d \in Deliveries :
    outbox[d].state = "SETTLED" =>
      /\ rows[ReservationOf[d]].outcome = outbox[d].outcome
      /\ tries[d] # <<>>
      /\ NormalizedOutcome(tries[d][Len(tries[d])]) = outbox[d].outcome

\* The recipient gets the message at most once, however often it is pushed.
AtMostOneMessage == \A d \in Deliveries : sent[d] <= 1

\* Attempts are numbered without gaps, each under a unit of the control plane
\* that was taken first, and never more than the delivery may have.
AttemptsWithinCap ==
  \A d \in Deliveries :
    /\ DOMAIN tries[d] \subseteq caps[d].attempts
    /\ Cardinality(caps[d].attempts) <= MaxAttempts
    /\ \A w \in Workers :
         work[w].d = d /\ work[w].pc \in {"push", "record"} => AttemptNo(w) \in caps[d].attempts

-----------------------------------------------------------------------------
(* What comments in the code promise and the code does not keep *)

\* line-team-trial.ts: the same key and text give the same result, "sent on
\* if it has not finished yet": a submission that did not get to the barrier
\* can be made again.
QueuedCanBeSent ==
  [][\A w \in Workers : At(w, "pre") /\ work'[w].pc = "idle" => faults' # faults]_vars

\* line-control-plane.ts: past the barrier the unit is COMMITTED "and the
\* concurrency slot is given back".
UnitsReturned ==
  \A d \in Deliveries :
    outbox[d].state = "SETTLED" /\ (\A w \in Workers : work[w].d # d) =>
      caps[d].slot # "RESERVED" /\ caps[d].unknown # "RESERVED"
=============================================================================
