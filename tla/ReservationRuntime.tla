------------------------- MODULE ReservationRuntime -------------------------
(***************************************************************************)
(* apps/contact-governance: the reservation a delivery spends              *)
(* (reservation-runtime.ts), the Attempt and Touch facts it is settled     *)
(* into (attempt-touch-repository.ts), the direct path that voice uses     *)
(* (changeReservationState with reservation.ts) and the sweeper of expired *)
(* reservations (releaseExpiredReservations).                              *)
(*                                                                         *)
(* Every command is one transaction that first takes the advisory locks of *)
(* the reservation and of the unique value it is about to write (delivery, *)
(* provider request key, outcome reference), so no other command comes     *)
(* between its read of the row and its update, and it is one action here.  *)
(* The sweeper takes only row locks: it may release the row between the    *)
(* two, and the update by id then lands on the released row.  For the rows *)
(* the sweeper may take, a command is therefore a read (ReadRow) and an    *)
(* update that uses what was read.  A command whose receipt exists returns *)
(* the stored response or fails with IDEMPOTENCY_CONFLICT, a command whose *)
(* checks fail rolls back: both leave the tables alone.                    *)
(***************************************************************************)
EXTENDS Naturals, FiniteSets

CONSTANTS
  Reservations,  \* reservation ids, one per action key
  Contacts,
  Deliveries,    \* delivery ids
  Keys,          \* provider request keys
  Refs,          \* outcome references
  Evidence,      \* response evidence references
  Stamps,        \* occurredAt values a caller may report
  None,          \* SQL null
  TTL,           \* RESERVATION_TTL_MS
  MaxTime,       \* bound of the clock
  MaxHead        \* bound of the governance version of a contact

ASSUME ConstantsAssumption ==
  /\ TTL \in Nat /\ MaxTime \in Nat \ {0} /\ MaxHead \in Nat
  /\ None \notin Deliveries \cup Keys \cup Refs \cup Evidence \cup Contacts \cup Nat
  /\ None \notin {"PROVIDER_REJECTED", "PROVIDER_ACCEPTED", "DELIVERED",
                  "DELIVERY_FAILED"}
  /\ "SETTLEMENT" \notin Evidence /\ None # "SETTLEMENT"

VARIABLES
  rows,      \* cg_reservations
  receipts,  \* cg_reservation_command_receipts
  attempts,  \* cg_attempts by outcome_ref (unique per tenant)
  touches,   \* cg_touches by the outcome_ref of their attempt (unique)
  head,      \* cg_contact_state_head.aggregateVersion of each contact
  now,
  reading,   \* what the command that holds the lock of a reservation has read
  overtaken  \* history: reservations a command updated after they were swept

rvars == <<rows, receipts, attempts, touches, head, now, reading, overtaken>>

tables == <<rows, receipts, attempts, touches, head>>

States == {"NONE", "RESERVED", "CONFIRMED", "RELEASED", "REFUNDED"}

Statuses == {"UNCLAIMED", "CLAIMED", "UNKNOWN_RECONCILING", "ACCEPTED", "SETTLED"}

TerminalOutcomes ==
  {"PROVIDER_REJECTED", "PROVIDER_ACCEPTED", "DELIVERED", "DELIVERY_FAILED"}

\* An Attempt of cg_attempts.
Fact == [reservation : Reservations, delivery : Deliveries,
         outcome : TerminalOutcomes, at : Stamps]

ASSUME FactAssumption == None \notin Fact

Scopes == {"RECIPIENT", "OPERATIONAL", None}

Operations == {"CLAIM", "RENEW", "BEGIN_SUBMISSION", "CONFIRM", "RELEASE", "SETTLE"}

\* A row before authorizeAndReserve inserts it.  The clock starts at 1, so 0
\* is the null of lease, startedAt and version.
NoRow ==
  [state |-> "NONE", status |-> "UNCLAIMED", contact |-> None, auth |-> None,
   expiresAt |-> 0, delivery |-> None, version |-> 0, lease |-> 0,
   key |-> None, startedAt |-> 0, outcome |-> None, ref |-> None]

\* No command is between its read and its update.
NoReading == [row |-> NoRow, at |-> 0]

Init ==
  /\ rows = [r \in Reservations |-> NoRow]
  /\ receipts = {}
  /\ attempts = [f \in Refs |-> None]
  /\ touches = [f \in Refs |-> None]
  /\ head = [c \in Contacts |-> 0]
  /\ now = 1
  /\ reading = [r \in Reservations |-> NoReading]
  /\ overtaken = {}

-----------------------------------------------------------------------------
(* The command envelope. *)

View(row) == [state |-> row.state, status |-> row.status,
              delivery |-> row.delivery, version |-> row.version,
              lease |-> row.lease]

HasReceipt(op, key) == \E m \in receipts : m.op = op /\ m.key = key

Started(row) == row.startedAt # 0

\* A row the sweeper looks for, but for its clock.
Sweepable(row) ==
  /\ row.state = "RESERVED" /\ row.status \in {"UNCLAIMED", "CLAIMED"}
  /\ ~Started(row) /\ row.key = None

\* COALESCE(lease_expires_at, expires_at)
Expiry(row) == IF row.lease # 0 THEN row.lease ELSE row.expiresAt

\* A command has the lock and no receipt: it reads the row, and the clock for
\* the checks it is going to make.
ReadRow(r) ==
  /\ reading[r] = NoReading
  /\ Sweepable(rows[r])
  /\ reading' = [reading EXCEPT ![r] = [row |-> rows[r], at |-> now]]
  /\ UNCHANGED <<tables, now, overtaken>>

\* Its checks fail, or its connection does.
Rollback(r) ==
  /\ reading[r] # NoReading
  /\ reading' = [reading EXCEPT ![r] = NoReading]
  /\ UNCHANGED <<tables, now, overtaken>>

\* The row a command on r checks, and the time it checks it at.
Seen(r) == IF reading[r] = NoReading THEN rows[r] ELSE reading[r].row

Clock(r) == IF reading[r] = NoReading THEN now ELSE reading[r].at

\* An update by id of the row that was read.
Update(r, row) ==
  /\ rows' = [rows EXCEPT ![r] = row]
  /\ reading' = [reading EXCEPT ![r] = NoReading]
  /\ overtaken' = IF rows[r] = Seen(r) THEN overtaken ELSE overtaken \cup {r}

\* A receipt written without looking for an earlier one.
Commit_NoReplayCheck(op, key, r, input, row) ==
  /\ Update(r, row)
  /\ receipts' = receipts \cup
       {[op |-> op, key |-> key, reservation |-> r, input |-> input,
         response |-> View(row)]}

\* The handler's update and the receipt are written in one transaction.
Commit(op, key, r, input, row) ==
  /\ ~HasReceipt(op, key)
  /\ Update(r, row)
  /\ receipts' = receipts \cup
       {[op |-> op, key |-> key, reservation |-> r, input |-> input,
         response |-> View(row)]}

Settled(row) == row.outcome # None \/ row.status = "SETTLED"

\* assertProviderBinding
ProviderBound(row, d, k) == row.delivery = d /\ Started(row) /\ row.key = k

-----------------------------------------------------------------------------
(* Operations. *)

\* The ALLOW branch of authorizeAndReserve; the governance version is pinned
\* only when the CG3 policy was evaluated.
Reserve(r, c, pinned) ==
  /\ rows[r].state = "NONE"
  /\ rows' = [rows EXCEPT ![r] =
                [NoRow EXCEPT !.state = "RESERVED", !.contact = c,
                              !.expiresAt = now + TTL,
                              !.auth = IF pinned THEN head[c] ELSE None]]
  /\ UNCHANGED <<receipts, attempts, touches, head, now, reading, overtaken>>

\* A claim that does not look for the delivery on another reservation.
Claim_NoCompeting(r, d, until) ==
  LET row == Seen(r) IN
  /\ row.state = "RESERVED" /\ row.status = "UNCLAIMED"
  /\ Clock(r) < until /\ until <= row.expiresAt
  /\ Commit("CLAIM", r, r, <<d, until>>,
            [rows[r] EXCEPT !.delivery = d, !.version = 1, !.lease = until,
                            !.status = "CLAIMED"])
  /\ UNCHANGED <<attempts, touches, head, now>>

Claim(r, d, until) ==
  LET row == Seen(r) IN
  /\ row.state = "RESERVED" /\ row.status = "UNCLAIMED"
  /\ Clock(r) < row.expiresAt
  /\ row.delivery = None
  /\ Clock(r) < until /\ until <= row.expiresAt
  /\ \A o \in Reservations \ {r} : rows[o].delivery # d
  /\ Commit("CLAIM", r, r, <<d, until>>,
            [rows[r] EXCEPT !.delivery = d, !.version = 1, !.lease = until,
                            !.status = "CLAIMED"])
  /\ UNCHANGED <<attempts, touches, head, now>>

\* The caller's view of the lease is still the current one and has not lapsed.
HoldsLease(r, d, version) ==
  LET row == Seen(r) IN
  /\ row.delivery = d
  /\ row.state = "RESERVED" /\ row.status = "CLAIMED"
  /\ ~Started(row) /\ row.key = None
  /\ row.version = version
  /\ Clock(r) < row.lease /\ Clock(r) < row.expiresAt

Renew(r, d, version, until) ==
  /\ HoldsLease(r, d, version)
  /\ Seen(r).lease < until /\ until <= Seen(r).expiresAt
  /\ Commit("RENEW", <<r, version>>, r, <<d, version, until>>,
            [rows[r] EXCEPT !.version = version + 1, !.lease = until])
  /\ UNCHANGED <<attempts, touches, head, now>>

\* The submission barrier: from here the provider may have the message.
BeginSubmission(r, d, version, k) ==
  LET row == Seen(r) IN
  /\ HoldsLease(r, d, version)
  /\ row.auth # None => head[row.contact] = row.auth
  /\ \A o \in Reservations \ {r} : rows[o].key # k
  /\ Commit("BEGIN_SUBMISSION", r, r, <<d, version, k>>,
            [rows[r] EXCEPT !.key = k, !.startedAt = Clock(r),
                            !.status = "UNKNOWN_RECONCILING"])
  /\ UNCHANGED <<attempts, touches, head, now>>

Confirm(r, d, k) ==
  LET row == rows[r] IN
  /\ ProviderBound(row, d, k)
  /\ ~Settled(row)
  /\ row.state = "RESERVED"
  /\ Commit("CONFIRM", r, r, <<d, k>>,
            [row EXCEPT !.state = "CONFIRMED", !.status = "ACCEPTED"])
  /\ UNCHANGED <<attempts, touches, head, now>>

\* releaseBeforeSubmit; d is None for a reservation that was never claimed.
Release(r, d, reason) ==
  LET row == Seen(r) IN
  /\ row.delivery = d
  /\ row.state = "RESERVED" /\ row.status # "SETTLED"
  /\ ~Started(row) /\ row.key = None
  /\ reason = "LEASE_EXPIRED" => Expiry(row) <= Clock(r)
  /\ Commit("RELEASE", r, r, <<d, reason>>,
            [rows[r] EXCEPT !.state = "RELEASED", !.status = "SETTLED"])
  /\ UNCHANGED <<attempts, touches, head, now>>

-----------------------------------------------------------------------------
(* settle: an outcome reported for a submission that was begun. *)

\* Every part of the input but the correlation id enters the receipt's hash.
SettleInput(d, k, outcome, scope, at) == <<d, k, outcome, scope, at>>

\* defaultSettlementPolicy
CountsAsAttempt(outcome, scope) ==
  ~(outcome = "PROVIDER_REJECTED" /\ scope = "OPERATIONAL")

\* An acceptance taken for a delivery.
CountsAsTouch_Accepted(outcome) == outcome \in {"DELIVERED", "PROVIDER_ACCEPTED"}

CountsAsTouch(outcome) == outcome = "DELIVERED"

\* The outcome of a reservation that is already settled, or an unknown one
\* after the acceptance: acknowledged and forgotten.
SettleLate(r, d, k, ref, outcome, scope, at) ==
  LET row == rows[r] IN
  /\ ProviderBound(row, d, k)
  /\ \/ Settled(row)
     \/ outcome = "UNKNOWN_RECONCILING" /\ row.status = "ACCEPTED"
  /\ Commit("SETTLE", ref, r, SettleInput(d, k, outcome, scope, at), row)
  /\ UNCHANGED <<attempts, touches, head, now>>

\* The unknown outcome stored as if it were terminal.
SettleUnknown_Stored(r, d, k, ref, at) ==
  LET row == rows[r] IN
  /\ ProviderBound(row, d, k)
  /\ ~Settled(row) /\ row.status # "ACCEPTED"
  /\ Commit("SETTLE", ref, r,
            SettleInput(d, k, "UNKNOWN_RECONCILING", None, at),
            [row EXCEPT !.status = "UNKNOWN_RECONCILING",
                        !.outcome = "UNKNOWN_RECONCILING"])
  /\ UNCHANGED <<attempts, touches, head, now>>

SettleUnknown(r, d, k, ref, at) ==
  LET row == rows[r] IN
  /\ ProviderBound(row, d, k)
  /\ ~Settled(row) /\ row.status # "ACCEPTED"
  /\ Commit("SETTLE", ref, r,
            SettleInput(d, k, "UNKNOWN_RECONCILING", None, at),
            [row EXCEPT !.status = "UNKNOWN_RECONCILING"])
  /\ UNCHANGED <<attempts, touches, head, now>>

\* Where a terminal outcome takes the reservation.
NextState(outcome) ==
  CASE outcome = "PROVIDER_REJECTED" -> "RELEASED"
    [] outcome = "DELIVERY_FAILED" -> "REFUNDED"
    [] OTHER -> "CONFIRMED"

SettleTerminal(r, d, k, ref, outcome, scope, at) ==
  LET row == rows[r] IN
  /\ ProviderBound(row, d, k)
  /\ ~Settled(row)
  /\ outcome = "PROVIDER_REJECTED" => row.state # "CONFIRMED"
  /\ outcome = "DELIVERY_FAILED" => row.state = "CONFIRMED"
  /\ Commit("SETTLE", ref, r, SettleInput(d, k, outcome, scope, at),
            [row EXCEPT !.state = NextState(outcome), !.status = "SETTLED",
                        !.outcome = outcome, !.ref = ref])
  /\ IF CountsAsAttempt(outcome, scope)
     THEN /\ attempts[ref] = None
          /\ attempts' = [attempts EXCEPT ![ref] =
                            [reservation |-> r, delivery |-> d,
                             outcome |-> outcome, at |-> at]]
          /\ touches' = IF CountsAsTouch(outcome)
                        THEN [touches EXCEPT ![ref] = "SETTLEMENT"]
                        ELSE touches
     ELSE UNCHANGED <<attempts, touches>>
  /\ UNCHANGED <<head, now>>

\* A customer's response joins the accepted Attempt it answers; an evidence
\* reference serves one Attempt (partial unique index).
RecordCorrelatedTouch(ref, evidence) ==
  /\ attempts[ref] # None
  /\ attempts[ref].outcome = "PROVIDER_ACCEPTED"
  /\ touches[ref] = None
  /\ \A f \in Refs : touches[f] # evidence
  /\ touches' = [touches EXCEPT ![ref] = evidence]
  /\ UNCHANGED <<rows, receipts, attempts, head, now, reading, overtaken>>

-----------------------------------------------------------------------------
(* The other writers. *)

\* A release accepted after the confirmation.
Transition_AnyRelease(state) ==
  CASE state = "RESERVED" -> {"CONFIRMED", "RELEASED"}
    [] state = "CONFIRMED" -> {"REFUNDED", "RELEASED"}
    [] OTHER -> {}

\* transitionReservation; commands that name the current state change nothing.
Transition(state) ==
  CASE state = "RESERVED" -> {"CONFIRMED", "RELEASED"}
    [] state = "CONFIRMED" -> {"REFUNDED"}
    [] OTHER -> {}

\* changeReservationState, the path of reservations no delivery has claimed.
ChangeReservationState(r, next) ==
  /\ Seen(r).delivery = None
  /\ next \in Transition(Seen(r).state)
  /\ Update(r, [rows[r] EXCEPT !.state = next])
  /\ UNCHANGED <<receipts, attempts, touches, head, now>>

\* A sweep that does not look for the submission barrier.
Sweep_PastBarrier(r) ==
  /\ rows[r].state = "RESERVED" /\ Expiry(rows[r]) <= now
  /\ rows' = [rows EXCEPT ![r] = [@ EXCEPT !.state = "RELEASED", !.status = "SETTLED"]]
  /\ UNCHANGED <<receipts, attempts, touches, head, now, reading, overtaken>>

\* releaseExpiredReservations, row by row: under the row's lock, whatever
\* command holds the reservation's, without a receipt.
Sweep(r) ==
  /\ Sweepable(rows[r])
  /\ Expiry(rows[r]) <= now
  /\ rows' = [rows EXCEPT ![r] = [@ EXCEPT !.state = "RELEASED", !.status = "SETTLED"]]
  /\ UNCHANGED <<receipts, attempts, touches, head, now, reading, overtaken>>

\* A consent, preference or suppression of the contact changes (cg3-persistence).
AdvanceHead(c) ==
  /\ head[c] < MaxHead
  /\ head' = [head EXCEPT ![c] = @ + 1]
  /\ UNCHANGED <<rows, receipts, attempts, touches, now, reading, overtaken>>

Tick ==
  /\ now < MaxTime
  /\ now' = now + 1
  /\ UNCHANGED <<tables, reading, overtaken>>

Time == 0 .. (MaxTime + TTL)

Next ==
  \/ \E r \in Reservations :
       \/ \E c \in Contacts, pinned \in BOOLEAN : Reserve(r, c, pinned)
       \/ \E d \in Deliveries, until \in Time : Claim(r, d, until)
       \/ \E d \in Deliveries, until \in Time :
            Renew(r, d, rows[r].version, until)
       \/ \E d \in Deliveries, k \in Keys :
            BeginSubmission(r, d, rows[r].version, k)
       \/ \E d \in Deliveries, k \in Keys : Confirm(r, d, k)
       \/ \E d \in Deliveries \cup {None},
             reason \in {"CANCELLED_BEFORE_SUBMIT", "LEASE_EXPIRED"} :
            Release(r, d, reason)
       \/ \E d \in Deliveries, k \in Keys, ref \in Refs, at \in Stamps :
            \/ SettleUnknown(r, d, k, ref, at)
            \/ SettleLate(r, d, k, ref, "UNKNOWN_RECONCILING", None, at)
            \/ \E outcome \in TerminalOutcomes, scope \in Scopes :
                 /\ outcome # "PROVIDER_REJECTED" => scope = None
                 /\ \/ SettleTerminal(r, d, k, ref, outcome, scope, at)
                    \/ SettleLate(r, d, k, ref, outcome, scope, at)
       \/ \E next \in States : ChangeReservationState(r, next)
       \/ ReadRow(r) \/ Rollback(r) \/ Sweep(r)
  \/ \E ref \in Refs, evidence \in Evidence : RecordCorrelatedTouch(ref, evidence)
  \/ \E c \in Contacts : AdvanceHead(c)
  \/ Tick

Spec == Init /\ [][Next]_rvars

-----------------------------------------------------------------------------
(* Properties. *)

Row ==
  [state : States, status : Statuses, contact : Contacts \cup {None},
   auth : Nat \cup {None}, expiresAt : Nat, delivery : Deliveries \cup {None},
   version : Nat, lease : Nat, key : Keys \cup {None}, startedAt : Nat,
   outcome : TerminalOutcomes \cup {None}, ref : Refs \cup {None}]

Response == [state : States, status : Statuses,
             delivery : Deliveries \cup {None}, version : Nat, lease : Nat]

\* The columns of the four tables.
TypeOK ==
  /\ rows \in [Reservations -> Row]
  /\ \A m \in receipts : /\ m.op \in Operations
                         /\ m.reservation \in Reservations
                         /\ m.response \in Response
  /\ attempts \in [Refs -> Fact \cup {None}]
  /\ touches \in [Refs -> Evidence \cup {"SETTLEMENT", None}]
  /\ head \in [Contacts -> Nat]
  /\ now \in Nat \ {0}
  /\ reading \in [Reservations -> [row : Row, at : Nat]]
  /\ overtaken \subseteq Reservations

\* Once the submission barrier is crossed the provider may have the message:
\* until an outcome settles it, the quota stays taken (RESERVED, or CONFIRMED
\* after an acceptance), no matter which leases lapse, which cancellations
\* arrive, what the sweeper finds or what the other path of
\* changeReservationState does; quota that was given back was never submitted
\* or refused by the provider.  There is one exception: a lease that runs out
\* while beginSubmission is between its read and its update, with the sweeper
\* in between.  It leaves a submission on a RELEASED row, and nothing else.
HeldWhileUnknown ==
  \A r \in Reservations :
    LET row == rows[r] IN
    /\ Started(row) /\ row.outcome = None =>
         \/ row.state = "RESERVED" /\ row.status = "UNKNOWN_RECONCILING"
         \/ row.state = "CONFIRMED" /\ row.status = "ACCEPTED"
         \/ /\ r \in overtaken /\ row.lease <= now
            /\ row.state = "RELEASED" /\ row.status = "UNKNOWN_RECONCILING"
    /\ row.state = "RELEASED" /\ Started(row) =>
         \/ row.outcome = "PROVIDER_REJECTED"
         \/ row.outcome = None /\ r \in overtaken
    /\ row.state = "REFUNDED" /\ row.delivery # None =>
         row.outcome = "DELIVERY_FAILED"

\* A delivery id and a provider request key each belong to one reservation
\* for ever, and an Attempt names the reservation that owns its delivery:
\* settling by (delivery, key) can never charge another contact.
BindingUnique ==
  /\ \A r, o \in Reservations :
       r # o => /\ rows[r].delivery # None => rows[o].delivery # rows[r].delivery
                /\ rows[r].key # None => rows[o].key # rows[r].key
  /\ \A f \in Refs :
       attempts[f] # None =>
         /\ rows[attempts[f].reservation].delivery = attempts[f].delivery
         /\ Started(rows[attempts[f].reservation])

\* A submission was begun while both the worker's lease and the reservation
\* were alive, and renewals never pushed the lease past the reservation.
BegunInLease ==
  \A r \in Reservations :
    LET row == rows[r] IN
    /\ row.lease <= row.expiresAt
    /\ Started(row) => row.startedAt < row.lease /\ row.startedAt <= now

\* The charge of a reservation: exactly one Attempt, under the reference and
\* with the outcome the reservation was settled with; none before that and
\* none for an operational rejection.  A Touch has an Attempt that was
\* delivered, or accepted and then answered.
ChargedOnce ==
  /\ \A f \in Refs :
       attempts[f] # None =>
         /\ rows[attempts[f].reservation].ref = f
         /\ rows[attempts[f].reservation].outcome = attempts[f].outcome
  /\ \A r \in Reservations :
       rows[r].outcome \notin {None, "PROVIDER_REJECTED"} =>
         attempts[rows[r].ref] # None
  /\ \A f \in Refs :
       touches[f] # None =>
         /\ attempts[f] # None
         /\ attempts[f].outcome =
              IF touches[f] = "SETTLEMENT" THEN "DELIVERED" ELSE "PROVIDER_ACCEPTED"

\* `s` can still become `t`.
CanBecome(s, t) ==
  \/ s = t
  \/ s = "RESERVED" /\ t \in {"CONFIRMED", "RELEASED", "REFUNDED"}
  \/ s = "CONFIRMED" /\ t = "REFUNDED"

\* What receipt m says of its reservation is still true of the row.
TruthfulOf(m, row) ==
  /\ m.response.delivery = row.delivery
  /\ m.response.version <= row.version
  /\ m.response.lease <= row.lease
  /\ m.response.status = "SETTLED" => m.response = View(row)
  /\ m.op \in {"BEGIN_SUBMISSION", "CONFIRM", "SETTLE"} => Started(row)

\* A caller that repeats a command after a crash gets the stored response.
\* It may be old but is never wrong: its delivery is the reservation's
\* delivery, its lease version was reached and its lease lasts no longer than
\* the current one, and a stored "settled" is the settled reservation.  Its
\* state can still become the current one unless the sweeper overtook a
\* command: then a stored RELEASED may be followed by CONFIRMED.  There is one
\* receipt per operation and idempotency key.
ReplayTruthful ==
  /\ \A m, n \in receipts : m.op = n.op /\ m.key = n.key => m = n
  /\ \A m \in receipts :
       /\ TruthfulOf(m, rows[m.reservation])
       /\ m.reservation \notin overtaken =>
            CanBecome(m.response.state, rows[m.reservation].state)

\* What the contact was charged for reservation r.
ChargeOf(r) ==
  IF \E f \in Refs : attempts[f] # None /\ attempts[f].reservation = r /\ touches[f] # None
  THEN "touch"
  ELSE IF \E f \in Refs : attempts[f] # None /\ attempts[f].reservation = r
       THEN "attempt" ELSE "none"

Lifecycle ==
  INSTANCE ReservationLifecycle
    WITH quota <- [r \in Reservations |-> rows[r].state],
         fact <- [r \in Reservations |-> ChargeOf(r)],
         loose <- overtaken

\* All writers together, the delivery commands with their receipts, the
\* direct state changes and the sweeper, implement the reservation lifecycle:
\* quota that was given back is taken again only if the sweeper overtook a
\* command, and even then the contact is charged once.
ImplementsLifecycle == Lifecycle!Spec

-----------------------------------------------------------------------------
(* What the tests of the repository say and the code does not keep *)

\* contact-governance.test.ts: "a crash after the barrier must not give the
\* quota back even if no callback comes", and "begin is forbidden after a
\* release": past the barrier and before an outcome the row is not RELEASED.
BarrierKeepsQuota ==
  \A r \in Reservations :
    Started(rows[r]) /\ rows[r].outcome = None => rows[r].state # "RELEASED"
=============================================================================
