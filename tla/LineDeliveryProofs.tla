------------------------- MODULE LineDeliveryProofs -------------------------
(***************************************************************************)
(* Theorems about LineDelivery, for every set of workers, deliveries and   *)
(* reservations.                                                           *)
(***************************************************************************)
EXTENDS LineDelivery, ReservationRuntimeProofs, FiniteSetTheorems

-----------------------------------------------------------------------------
(* The inductive invariant *)

Pcs == {"idle", "claim", "create", "history", "quarantine", "expire", "expired", "gate",
        "logical", "slot", "pre", "cap", "begin", "submitting", "commit", "free", "post",
        "push", "record", "confirm", "submitted", "accepted", "settle", "kill", "outbox",
        "exit", "settled", "park", "enter", "unknown", "reconciling"}

Work == [pc : Pcs, d : Deliveries \cup {None}, entry : OutboxStates, no : Nat,
         code : Codes \cup {None}, fresh : BOOLEAN, granted : BOOLEAN]

Entry == [state : OutboxStates, key : Keys \cup {None}, version : Nat,
          outcome : {None, "PROVIDER_ACCEPTED", "PROVIDER_REJECTED"}]

Unit == {"NONE", "RESERVED", "COMMITTED", "RELEASED"}

Units == [logical : Unit, slot : Unit, unknown : Unit, attempts : SUBSET Nat]

LTypes ==
  /\ outbox \in [Deliveries -> Entry]
  /\ caps \in [Deliveries -> Units]
  /\ killed \in BOOLEAN
  /\ tries \in [Deliveries -> Seq(Codes)]
  /\ window \in [Deliveries -> {"none", "open", "closed"}]
  /\ remembers \in [Deliveries -> BOOLEAN]
  /\ sent \in [Deliveries -> Nat]
  /\ work \in [Workers -> Work]
  /\ \A w \in Workers : work[w].pc # "idle" => work[w].d \in Deliveries
  /\ faults \in Nat

\* The calls that have not seen an outbox row yet.
Early == {"idle", "claim", "create"}

\* The way to LINE, from the gate to the request.
PushPath == {"gate", "logical", "slot", "pre", "cap", "begin", "submitting", "commit",
             "free", "post", "push"}

\* Where the unit of the attempt has been taken and its receipt is not written.
Attempting == {"begin", "submitting", "commit", "free", "post", "push", "record"}

\* Past the barrier.
Behind == {"commit", "free", "post", "push", "record", "confirm", "submitted", "accepted",
           "settle", "kill", "outbox", "exit", "settled", "park", "enter", "unknown",
           "reconciling"}

\* LINE has answered.
Answered == {"record", "confirm", "submitted", "accepted", "settle", "kill", "outbox",
             "exit", "settled", "park", "enter", "unknown", "reconciling"}

\* A terminal answer is being settled.
Settling == {"confirm", "submitted", "accepted", "settle", "kill", "outbox"}

Past(d) == outbox[d].state \notin {"NONE", "QUEUED"}

\* Governance knows the submission under the key of the outbox row.
Begun(d) == Started(rows[ReservationOf[d]]) /\ rows[ReservationOf[d]].key = outbox[d].key

Refused(d) == \E i \in DOMAIN tries[d] : Rejected(tries[d][i])

\* Why the quota of a begun delivery may be back: LINE refused, or the sweeper
\* overtook the beginSubmission.
Excused(d) == Refused(d) \/ ReservationOf[d] \in overtaken

\* One delivery: outbox row, units, receipts and reservation hang together.
DeliveryInv(d) ==
  /\ outbox[d].state = "NONE" <=> outbox[d].key = None
  /\ Past(d) => Begun(d)
  /\ sent[d] > 0 => Past(d)
  /\ tries[d] # <<>> => Past(d)
  /\ window[d] # "none" <=> tries[d] # <<>>
  /\ remembers[d] => sent[d] > 0
  /\ rows[ReservationOf[d]].state = "CONFIRMED" => sent[d] > 0
  /\ outbox[d].outcome = "PROVIDER_ACCEPTED" => sent[d] > 0
  /\ Started(rows[ReservationOf[d]]) /\ rows[ReservationOf[d]].state = "RELEASED" => Excused(d)
  /\ DOMAIN tries[d] \subseteq caps[d].attempts
  /\ IsFiniteSet(caps[d].attempts) /\ Cardinality(caps[d].attempts) <= MaxAttempts

\* One call: what it has read of its delivery is still true of it.
WorkerInv(w) ==
  LET d == work[w].d
      pc == work[w].pc
  IN
  /\ pc \notin Early => outbox[d].state # "NONE" /\ AttemptNo(w) <= Len(tries[d]) + 1
  /\ pc \in PushPath \cup {"history"} /\ work[w].entry # "QUEUED" => Past(d)
  /\ pc = "submitting" => Begun(d)
  /\ pc \in Behind => Past(d)
  /\ pc \in Attempting => AttemptNo(w) \in caps[d].attempts
  /\ pc \in Answered => work[w].code \in Codes /\ (Accepted(work[w].code) => sent[d] > 0)
  /\ pc \in {"confirm", "submitted", "accepted"} => Accepted(work[w].code)
  /\ pc \in Settling => Accepted(work[w].code) \/ Rejected(work[w].code)
  /\ pc \in Settling /\ Rejected(work[w].code) => Refused(d)
  /\ pc \in PushPath => window[d] # "closed"

\* The receipts of a begun submission name the key it was begun under, and
\* what was confirmed was not overtaken.
BeginReceipts ==
  \A m \in receipts :
    /\ m.op = "BEGIN_SUBMISSION" => m.input[3] = rows[m.reservation].key
    /\ m.op = "CONFIRM" => m.reservation \notin overtaken

\* The clock of governance and its reservations stay within the bound.
ClockInv ==
  /\ now <= MaxTime
  /\ \A r \in Reservations : rows[r].expiresAt <= MaxTime + TTL

LineInv ==
  /\ LTypes
  /\ IInv
  /\ ClockInv
  /\ BeginReceipts
  /\ \A d \in Deliveries : DeliveryInv(d)
  /\ \A w \in Workers : work[w].pc # "idle" => WorkerInv(w)

-----------------------------------------------------------------------------
\* As long as no call has died between the answer and its receipt, a message
\* that got out is on record or is about to be, and LINE forgets its retry key
\* only when the window is closed.
OnceInv ==
  \A d \in Deliveries :
    /\ sent[d] <= 1
    /\ sent[d] > 0 /\ ~remembers[d] => window[d] = "closed"
    /\ sent[d] > 0 /\ window[d] = "none" =>
         \E w \in Workers : work[w].d = d /\ work[w].pc = "record"

\* A delivery on which one call works at a time: what governance calls
\* accepted is SUBMITTED, and what is settled is settled the same everywhere.
SoloOf(d) ==
  LET row == rows[ReservationOf[d]] IN
  /\ row.outcome \in {None, "PROVIDER_ACCEPTED", "PROVIDER_REJECTED"}
  /\ row.outcome = "PROVIDER_ACCEPTED" => outbox[d].state \in {"SUBMITTED", "SETTLED"}
  /\ outbox[d].state = "SETTLED" =>
       /\ outbox[d].outcome # None
       /\ row.outcome = outbox[d].outcome
       /\ tries[d] # <<>>
       /\ NormalizedOutcome(tries[d][Len(tries[d])]) = outbox[d].outcome

Undecided(d) == outbox[d].state \notin {"SUBMITTED", "SETTLED"}

Confirmed(d) == rows[ReservationOf[d]].state \in {"CONFIRMED", "REFUNDED"}

\* Where the delivery must still be undecided.
Open == PushPath \cup {"history", "record", "confirm", "submitted"}

\* The call that works on it: its answer is the last receipt, and nobody else
\* has decided the delivery meanwhile.
SoloWorker(w) ==
  LET d == work[w].d
      pc == work[w].pc
      code == work[w].code
  IN
  /\ pc \in Open => Undecided(d)
  /\ pc = "settle" /\ Rejected(code) => Undecided(d)
  /\ pc \in {"accepted", "settle"} /\ Accepted(code) => outbox[d].state = "SUBMITTED"
  /\ pc \in {"submitted", "accepted", "settle"} /\ Accepted(code) => Confirmed(d)
  /\ pc \in {"kill", "outbox"} =>
       rows[ReservationOf[d]].outcome = NormalizedOutcome(code)
  /\ pc \in Settling => tries[d] # <<>> /\ tries[d][Len(tries[d])] = code

\* A stored answer of governance says what happened to the reservation.
SoloReceipts ==
  \A m \in receipts :
    /\ m.op = "CONFIRM" => m.response.state = "CONFIRMED"
    /\ m.op = "SETTLE" /\ m.input[3] # "UNKNOWN_RECONCILING" =>
         m.input[3] # None /\ rows[m.reservation].outcome = m.input[3]

SoloInv ==
  /\ \A d \in Deliveries : SoloOf(d)
  /\ \A w \in Workers : SoloWorker(w)
  /\ SoloReceipts

\* No two calls work on one delivery.
Alone ==
  \A v, w \in Workers :
    work[v].d = work[w].d /\ work[v].pc # "idle" /\ work[w].pc # "idle" => v = w

-----------------------------------------------------------------------------
(* What governance's own commands keep *)

\* A command that commits replaces one row and adds one receipt.
LEMMA CommitEffect ==
  ASSUME rows \in [Reservations -> Row], NEW r \in Reservations,
         NEW op, NEW key, NEW input, NEW row, Commit(op, key, r, input, row)
  PROVE  /\ rows'[r] = row
         /\ \A o \in Reservations \ {r} : rows'[o] = rows[o]
         /\ \A m \in receipts' \ receipts :
              m.op = op /\ m.key = key /\ m.reservation = r /\ m.input = input
                /\ m.response = View(row)
         /\ receipts \subseteq receipts'
         /\ overtaken' \subseteq overtaken \cup {r}
BY DEF Commit, Update

\* No step forgets that a reservation was overtaken.
LEMMA OvertakenGrows ==
  ASSUME [Next]_rvars
  PROVE  overtaken \subseteq overtaken'
<1>1. ASSUME NEW op, NEW key, NEW r, NEW input, NEW b, Commit(op, key, r, input, b)
      PROVE  overtaken \subseteq overtaken'
  BY <1>1 DEF Commit, Update
<1>2. ASSUME NEW r, NEW c, NEW pinned, Reserve(r, c, pinned)
      PROVE  overtaken \subseteq overtaken'
  BY <1>2 DEF Reserve
<1>3. ASSUME NEW r, NEW d, NEW until, Claim(r, d, until)
      PROVE  overtaken \subseteq overtaken'
  BY <1>1, <1>3 DEF Claim
<1>4. ASSUME NEW r, NEW d, NEW version, NEW until, Renew(r, d, version, until)
      PROVE  overtaken \subseteq overtaken'
  BY <1>1, <1>4 DEF Renew
<1>5. ASSUME NEW r, NEW d, NEW version, NEW k, BeginSubmission(r, d, version, k)
      PROVE  overtaken \subseteq overtaken'
  BY <1>1, <1>5 DEF BeginSubmission
<1>6. ASSUME NEW r, NEW d, NEW k, Confirm(r, d, k)
      PROVE  overtaken \subseteq overtaken'
  BY <1>1, <1>6 DEF Confirm
<1>7. ASSUME NEW r, NEW d, NEW reason, Release(r, d, reason)
      PROVE  overtaken \subseteq overtaken'
  BY <1>1, <1>7 DEF Release
<1>8. ASSUME NEW r, NEW d, NEW k, NEW ref, NEW at, SettleUnknown(r, d, k, ref, at)
      PROVE  overtaken \subseteq overtaken'
  BY <1>1, <1>8 DEF SettleUnknown
<1>9. ASSUME NEW r, NEW d, NEW k, NEW ref, NEW outcome, NEW scope, NEW at,
             SettleLate(r, d, k, ref, outcome, scope, at)
      PROVE  overtaken \subseteq overtaken'
  BY <1>1, <1>9 DEF SettleLate
<1>10. ASSUME NEW r, NEW d, NEW k, NEW ref, NEW outcome, NEW scope, NEW at,
              SettleTerminal(r, d, k, ref, outcome, scope, at)
       PROVE  overtaken \subseteq overtaken'
  BY <1>1, <1>10 DEF SettleTerminal
<1>11. ASSUME NEW r, NEW next, ChangeReservationState(r, next)
       PROVE  overtaken \subseteq overtaken'
  BY <1>11 DEF ChangeReservationState, Update
<1>12. ASSUME NEW r, ReadRow(r) \/ Rollback(r) \/ Sweep(r)
       PROVE  overtaken \subseteq overtaken'
  BY <1>12 DEF ReadRow, Rollback, Sweep
<1>13. ASSUME NEW ref, NEW evidence, RecordCorrelatedTouch(ref, evidence)
       PROVE  overtaken \subseteq overtaken'
  BY <1>13 DEF RecordCorrelatedTouch
<1>14. ASSUME NEW c, AdvanceHead(c) PROVE overtaken \subseteq overtaken'
  BY <1>14 DEF AdvanceHead
<1>15. CASE Tick \/ UNCHANGED rvars
  BY <1>15 DEF Tick, rvars
<1> QED
  BY <1>2, <1>3, <1>4, <1>5, <1>6, <1>7, <1>8, <1>9, <1>10, <1>11, <1>12, <1>13, <1>14, <1>15
     DEF Next

\* So the reason why quota is back stays.
LEMMA StillExcused ==
  ASSUME [Next]_rvars, tries' = tries, NEW d, Excused(d)
  PROVE  Excused(d)'
BY OvertakenGrows DEF Excused, Refused

\* A row that still has its key, or was not begun, keeps its receipts right.
LEMMA KeyKept ==
  ASSUME IInv, BeginReceipts, NEW r \in Reservations,
         \A o \in Reservations \ {r} : rows'[o] = rows[o],
         Started(rows[r]) => rows'[r].key = rows[r].key /\ r \notin overtaken' \ overtaken,
         overtaken' \subseteq overtaken \cup {r},
         \A m \in receipts' \ receipts :
           /\ m.op = "BEGIN_SUBMISSION" => m.reservation = r /\ m.input[3] = rows'[r].key
           /\ m.op = "CONFIRM" => m.reservation \notin overtaken'
  PROVE  BeginReceipts'
<1> SUFFICES ASSUME NEW m \in receipts'
             PROVE  /\ m.op = "BEGIN_SUBMISSION" => m.input[3] = rows'[m.reservation].key
                    /\ m.op = "CONFIRM" => m.reservation \notin overtaken'
  BY DEF BeginReceipts
<1>1. CASE m \in receipts
  <2>1. /\ m.reservation \in Reservations
        /\ m.op \in {"BEGIN_SUBMISSION", "CONFIRM"} => Started(rows[m.reservation])
    BY <1>1 DEF IInv, TypeOK, ReplayTruthful, TruthfulOf
  <2> QED
    BY <1>1, <2>1 DEF BeginReceipts
<1> QED
  BY <1>1

\* Begun rows: no command forgets the barrier or the key, and rows that are
\* not begun have neither.
LEMMA RowBegun ==
  ASSUME IInv, NEW r \in Reservations
  PROVE  /\ rows[r] \in Row /\ Shape(rows[r])
         /\ rows[r].state = "NONE" => ~Started(rows[r])
         /\ rows[r].status \in {"UNCLAIMED", "CLAIMED"} => ~Started(rows[r])
<1>1. rows[r] \in Row /\ Shape(rows[r])
  BY RowFacts
<1> QED
  BY <1>1 DEF Shape

\* Every operation of governance keeps the receipts of begun submissions and
\* the clock's bound.
LEMMA GovernanceKeeps ==
  ASSUME IInv, BeginReceipts, ClockInv, [Next]_rvars
  PROVE  BeginReceipts' /\ ClockInv'
<1>r. rows \in [Reservations -> Row] /\ now \in Nat
  BY DEF IInv, TypeOK
<1>c. MaxTime \in Nat /\ TTL \in Nat
  BY ConstantsAssumption
<1>2. ASSUME NEW r \in Reservations, NEW c, NEW pinned, Reserve(r, c, pinned)
      PROVE  BeginReceipts' /\ ClockInv'
  <2>1. rows'[r].key = None /\ rows'[r].expiresAt = now + TTL
          /\ (\A o \in Reservations \ {r} : rows'[o] = rows[o])
          /\ receipts' = receipts /\ now' = now /\ overtaken' = overtaken
    BY <1>2, <1>r DEF Reserve, NoRow
  <2>2. BeginReceipts'
    BY <1>2, <2>1, KeyKept, RowBegun DEF Reserve
  <2>3. ClockInv'
    BY <2>1, <1>r, <1>c DEF ClockInv
  <2> QED
    BY <2>2, <2>3
<1>3. ASSUME NEW r \in Reservations, NEW op, NEW key, NEW input, NEW row,
             Commit(op, key, r, input, row), now' = now,
             row.expiresAt = rows[r].expiresAt,
             Started(rows[r]) => row.key = rows[r].key,
             op = "BEGIN_SUBMISSION" => input[3] = row.key,
             op = "CONFIRM" => Started(rows[r]) /\ rows[r].state = "RESERVED"
      PROVE  BeginReceipts' /\ ClockInv'
  <2>1. /\ rows'[r] = row
        /\ \A o \in Reservations \ {r} : rows'[o] = rows[o]
        /\ \A m \in receipts' \ receipts :
             m.op = op /\ m.reservation = r /\ m.input = input
        /\ overtaken' \subseteq overtaken \cup {r}
    BY <1>3, <1>r, CommitEffect
  <2>5. Started(rows[r]) => overtaken' = overtaken
    BY <1>3, StartedSeen DEF Commit, Update
  <2>6. rows[r].state = "RESERVED" => r \notin overtaken
    BY DEF IInv, RowInv, Overrun
  <2>7. \A m \in receipts' \ receipts :
          /\ m.op = "BEGIN_SUBMISSION" => m.reservation = r /\ m.input[3] = rows'[r].key
          /\ m.op = "CONFIRM" => m.reservation \notin overtaken'
    BY <1>3, <2>1, <2>5, <2>6
  <2>2. BeginReceipts'
    BY <1>3, <2>1, <2>5, <2>7, KeyKept
  <2>3. \A o \in Reservations : rows'[o].expiresAt = rows[o].expiresAt
    BY <2>1, <1>3
  <2>4. ClockInv'
    BY <2>3, <1>3 DEF ClockInv
  <2> QED
    BY <2>2, <2>4
<1>4. ASSUME NEW r \in Reservations, NEW d, NEW until, Claim(r, d, until)
      PROVE  BeginReceipts' /\ ClockInv'
  <2> DEFINE row == [rows[r] EXCEPT !.delivery = d, !.version = 1, !.lease = until,
                                    !.status = "CLAIMED"]
  <2>1. Commit("CLAIM", r, r, <<d, until>>, row) /\ now' = now
    BY <1>4 DEF Claim
  <2>2. row.expiresAt = rows[r].expiresAt /\ row.key = rows[r].key
    BY RowBegun DEF Row
  <2> HIDE DEF row
  <2> QED
    BY <2>1, <2>2, <1>3
<1>5. ASSUME NEW r \in Reservations, NEW d, NEW version, NEW until, Renew(r, d, version, until)
      PROVE  BeginReceipts' /\ ClockInv'
  <2> DEFINE row == [rows[r] EXCEPT !.version = version + 1, !.lease = until]
  <2>1. Commit("RENEW", <<r, version>>, r, <<d, version, until>>, row) /\ now' = now
    BY <1>5 DEF Renew
  <2>2. row.expiresAt = rows[r].expiresAt /\ row.key = rows[r].key
    BY RowBegun DEF Row
  <2> HIDE DEF row
  <2> QED
    BY <2>1, <2>2, <1>3
<1>6. ASSUME NEW r \in Reservations, NEW d, NEW version, NEW k, BeginSubmission(r, d, version, k)
      PROVE  BeginReceipts' /\ ClockInv'
  <2> DEFINE row == [rows[r] EXCEPT !.key = k, !.startedAt = Clock(r),
                                    !.status = "UNKNOWN_RECONCILING"]
             input == <<d, version, k>>
  <2>1. Commit("BEGIN_SUBMISSION", r, r, input, row) /\ now' = now /\ ~Started(rows[r])
    BY <1>6, StartedSeen DEF BeginSubmission, HoldsLease
  <2>2. row.expiresAt = rows[r].expiresAt /\ row.key = k /\ input[3] = k
    BY RowBegun DEF Row
  <2> HIDE DEF row, input
  <2> QED
    BY <2>1, <2>2, <1>3
<1>7. ASSUME NEW r \in Reservations, NEW d, NEW k, Confirm(r, d, k)
      PROVE  BeginReceipts' /\ ClockInv'
  <2> DEFINE row == [rows[r] EXCEPT !.state = "CONFIRMED", !.status = "ACCEPTED"]
  <2>1. /\ Commit("CONFIRM", r, r, <<d, k>>, row) /\ now' = now
        /\ Started(rows[r]) /\ rows[r].state = "RESERVED"
    BY <1>7 DEF Confirm, ProviderBound
  <2>2. row.expiresAt = rows[r].expiresAt /\ row.key = rows[r].key
    BY RowBegun DEF Row
  <2> HIDE DEF row
  <2> QED
    BY <2>1, <2>2, <1>3
<1>8. ASSUME NEW r \in Reservations, NEW d, NEW reason, Release(r, d, reason)
      PROVE  BeginReceipts' /\ ClockInv'
  <2> DEFINE row == [rows[r] EXCEPT !.state = "RELEASED", !.status = "SETTLED"]
  <2>1. Commit("RELEASE", r, r, <<d, reason>>, row) /\ now' = now
    BY <1>8 DEF Release
  <2>2. row.expiresAt = rows[r].expiresAt /\ row.key = rows[r].key
    BY RowBegun DEF Row
  <2> HIDE DEF row
  <2> QED
    BY <2>1, <2>2, <1>3
<1>9. ASSUME NEW r \in Reservations, NEW d, NEW k, NEW ref, NEW at, SettleUnknown(r, d, k, ref, at)
      PROVE  BeginReceipts' /\ ClockInv'
  <2> DEFINE row == [rows[r] EXCEPT !.status = "UNKNOWN_RECONCILING"]
             input == SettleInput(d, k, "UNKNOWN_RECONCILING", None, at)
  <2>1. Commit("SETTLE", ref, r, input, row) /\ now' = now
    BY <1>9 DEF SettleUnknown
  <2>2. row.expiresAt = rows[r].expiresAt /\ row.key = rows[r].key
    BY RowBegun DEF Row
  <2> HIDE DEF row
  <2> QED
    BY <2>1, <2>2, <1>3
<1>10. ASSUME NEW r \in Reservations, NEW d, NEW k, NEW ref, NEW outcome, NEW scope, NEW at,
              SettleLate(r, d, k, ref, outcome, scope, at)
       PROVE  BeginReceipts' /\ ClockInv'
  <2> DEFINE input == SettleInput(d, k, outcome, scope, at)
  <2>1. Commit("SETTLE", ref, r, input, rows[r]) /\ now' = now
    BY <1>10 DEF SettleLate
  <2> QED
    BY <2>1, <1>3
<1>11. ASSUME NEW r \in Reservations, NEW d, NEW k, NEW ref, NEW outcome, NEW scope, NEW at,
              SettleTerminal(r, d, k, ref, outcome, scope, at)
       PROVE  BeginReceipts' /\ ClockInv'
  <2> DEFINE row == [rows[r] EXCEPT !.state = NextState(outcome), !.status = "SETTLED",
                                    !.outcome = outcome, !.ref = ref]
             input == SettleInput(d, k, outcome, scope, at)
  <2>1. Commit("SETTLE", ref, r, input, row) /\ now' = now
    BY <1>11 DEF SettleTerminal
  <2>2. row.expiresAt = rows[r].expiresAt /\ row.key = rows[r].key
    BY RowBegun DEF Row
  <2> HIDE DEF row
  <2> QED
    BY <2>1, <2>2, <1>3
<1>12. ASSUME NEW r \in Reservations, NEW next, ChangeReservationState(r, next)
       PROVE  BeginReceipts' /\ ClockInv'
  <2>1. rows' = [rows EXCEPT ![r] = [rows[r] EXCEPT !.state = next]]
          /\ receipts' = receipts /\ now' = now
    BY <1>12 DEF ChangeReservationState, Update
  <2>2. \A o \in Reservations : rows'[o].key = rows[o].key /\ rows'[o].expiresAt = rows[o].expiresAt
    BY <2>1, <1>r DEF Row
  <2>3. \A m \in receipts : /\ m.reservation \in Reservations
                            /\ m.op = "CONFIRM" => Started(rows[m.reservation])
    BY DEF IInv, TypeOK, ReplayTruthful, TruthfulOf
  <2>4. \A m \in receipts : m.op = "CONFIRM" => m.reservation \notin overtaken'
    BY <1>12, <2>3, StartedSeen DEF ChangeReservationState, Update, BeginReceipts
  <2> QED
    BY <2>1, <2>2, <2>3, <2>4 DEF BeginReceipts, ClockInv
<1>18. ASSUME NEW r \in Reservations, Sweep(r)
       PROVE  BeginReceipts' /\ ClockInv'
  <2>1. rows' = [rows EXCEPT ![r] = [rows[r] EXCEPT !.state = "RELEASED", !.status = "SETTLED"]]
          /\ receipts' = receipts /\ now' = now /\ overtaken' = overtaken
    BY <1>18 DEF Sweep
  <2>2. \A o \in Reservations : rows'[o].key = rows[o].key /\ rows'[o].expiresAt = rows[o].expiresAt
    BY <2>1, <1>r DEF Row
  <2>3. \A m \in receipts : m.reservation \in Reservations
    BY DEF IInv, TypeOK
  <2> QED
    BY <2>1, <2>2, <2>3 DEF BeginReceipts, ClockInv
<1>19. ASSUME NEW r, ReadRow(r) \/ Rollback(r) PROVE UNCHANGED <<rows, receipts, now, overtaken>>
  BY <1>19 DEF ReadRow, Rollback, tables
<1>13. CASE UNCHANGED <<rows, receipts, now, overtaken>>
  BY <1>13 DEF BeginReceipts, ClockInv
<1>14. CASE Tick
  BY <1>14, <1>r, <1>c DEF Tick, tables, BeginReceipts, ClockInv
<1>15. ASSUME NEW ref, NEW evidence, RecordCorrelatedTouch(ref, evidence)
       PROVE  UNCHANGED <<rows, receipts, now, overtaken>>
  BY <1>15 DEF RecordCorrelatedTouch
<1>16. ASSUME NEW c, AdvanceHead(c) PROVE UNCHANGED <<rows, receipts, now, overtaken>>
  BY <1>16 DEF AdvanceHead
<1>17. UNCHANGED rvars => UNCHANGED <<rows, receipts, now, overtaken>>
  BY DEF rvars
<1> QED
  BY <1>2, <1>4, <1>5, <1>6, <1>7, <1>8, <1>9, <1>10, <1>11, <1>12, <1>13, <1>14, <1>15,
     <1>16, <1>17, <1>18, <1>19 DEF Next

-----------------------------------------------------------------------------
(* What a step of one call leaves alone *)

Tables ==
  /\ outbox \in [Deliveries -> Entry]
  /\ caps \in [Deliveries -> Units]
  /\ killed \in BOOLEAN
  /\ tries \in [Deliveries -> Seq(Codes)]
  /\ window \in [Deliveries -> {"none", "open", "closed"}]
  /\ remembers \in [Deliveries -> BOOLEAN]
  /\ sent \in [Deliveries -> Nat]
  /\ faults \in Nat

\* Nothing of delivery d changes.
Same(d) ==
  /\ outbox'[d] = outbox[d] /\ caps'[d] = caps[d] /\ tries'[d] = tries[d]
  /\ window'[d] = window[d] /\ remembers'[d] = remembers[d] /\ sent'[d] = sent[d]
  /\ rows'[ReservationOf[d]] = rows[ReservationOf[d]] /\ overtaken \subseteq overtaken'

\* Delivery d only moves on: what a call has read of it stays true.
Forward(d) ==
  /\ outbox[d].state # "NONE" =>
       outbox'[d].state # "NONE" /\ outbox'[d].key = outbox[d].key
  /\ Past(d) => Past(d)'
  /\ Started(rows[ReservationOf[d]]) =>
       /\ Started(rows'[ReservationOf[d]])
       /\ rows'[ReservationOf[d]].key = rows[ReservationOf[d]].key
  /\ caps[d].attempts \subseteq caps'[d].attempts
  /\ sent[d] <= sent'[d]
  /\ Len(tries[d]) <= Len(tries'[d])
  /\ \A i \in DOMAIN tries[d] : i \in DOMAIN tries'[d] /\ tries'[d][i] = tries[d][i]
  /\ window[d] # "closed" => window'[d] # "closed"

Others(w) == \A v \in Workers \ {w} : work'[v] = work[v]

Elsewhere(d) == \A e \in Deliveries \ {d} : Same(e)

\* A delivery that stays as it is moves on.
LEMMA SameForward ==
  ASSUME LTypes, NEW d \in Deliveries, Same(d)
  PROVE  Forward(d)
<1>1. sent[d] \in Nat /\ tries[d] \in Seq(Codes)
  BY DEF LTypes
<1>2. Len(tries[d]) \in Nat
  BY <1>1
<1> QED
  BY <1>1, <1>2 DEF Same, Forward, Past

\* A delivery that stays as it is keeps its invariant.
LEMMA SameDelivery ==
  ASSUME NEW d, DeliveryInv(d), Same(d)
  PROVE  DeliveryInv(d)'
BY DEF Same, DeliveryInv, Past, Begun, Refused, Excused

\* A call that does not move keeps what it knows while its delivery moves on.
LEMMA ForwardWorker ==
  ASSUME LTypes, Tables', NEW v \in Workers, work'[v] = work[v], work[v].pc # "idle",
         WorkerInv(v), Forward(work[v].d)
  PROVE  WorkerInv(v)'
<1> DEFINE d == work[v].d
<1>1. d \in Deliveries /\ sent[d] \in Nat /\ sent'[d] \in Nat
  BY DEF LTypes, Tables
<1>2. tries[d] \in Seq(Codes) /\ tries'[d] \in Seq(Codes)
  BY <1>1 DEF LTypes, Tables
<1>3. Len(tries[d]) \in Nat /\ Len(tries'[d]) \in Nat /\ AttemptNo(v) \in Nat
  BY <1>2 DEF LTypes, Work, AttemptNo, First
<1>4. AttemptNo(v)' = AttemptNo(v)
  BY DEF AttemptNo, First
<1>5. Refused(d) => Refused(d)'
  BY DEF Refused, Forward
<1>6. Past(d) => Past(d)'
  BY DEF Forward
<1>7. outbox[d].state # "NONE" /\ Begun(d) => Begun(d)'
  BY DEF Begun, Forward
<1>8. sent[d] > 0 => sent'[d] > 0
  BY <1>1 DEF Forward
<1>9. AttemptNo(v) <= Len(tries[d]) + 1 => AttemptNo(v)' <= Len(tries'[d]) + 1
  BY <1>3, <1>4 DEF Forward
<1>10. AttemptNo(v) \in caps[d].attempts => AttemptNo(v)' \in caps'[d].attempts
  BY <1>4 DEF Forward
<1>11. window[d] # "closed" => window'[d] # "closed"
  BY DEF Forward
<1>12. outbox[d].state # "NONE" => outbox'[d].state # "NONE"
  BY DEF Forward
<1>13. work[v].pc = "submitting" => outbox[d].state # "NONE"
  BY DEF WorkerInv, Early
<1> QED
  BY <1>5, <1>6, <1>7, <1>8, <1>9, <1>10, <1>11, <1>12, <1>13 DEF WorkerInv

\* One call moves, its delivery moves on: what remains to be shown is what the
\* step does to that call and that delivery.
LEMMA Lift ==
  ASSUME LineInv, NEW w \in Workers, NEW d \in Deliveries, NEW b \in Work,
         work' = [work EXCEPT ![w] = b], b.pc # "idle" => b.d = d,
         Tables', IInv', ClockInv', BeginReceipts', Elsewhere(d), Forward(d),
         DeliveryInv(d)', b.pc # "idle" => WorkerInv(w)'
  PROVE  LineInv'
<1>1. work' \in [Workers -> Work] /\ work'[w] = b /\ Others(w)
  BY DEF LineInv, LTypes, Others
<1>2. LTypes'
  BY <1>1 DEF LineInv, LTypes, Tables, Others
<1>3. ASSUME NEW e \in Deliveries PROVE DeliveryInv(e)'
  <2>1. CASE e = d
    BY <2>1
  <2>2. CASE e # d
    BY <2>2, SameDelivery DEF LineInv, Elsewhere
  <2> QED
    BY <2>1, <2>2
<1>4. ASSUME NEW v \in Workers, work'[v].pc # "idle" PROVE WorkerInv(v)'
  <2>1. CASE v = w
    BY <2>1, <1>1, <1>4
  <2>2. CASE v # w
    <3>1. work'[v] = work[v] /\ work[v].pc # "idle" /\ WorkerInv(v)
      BY <2>2, <1>1, <1>4 DEF Others, LineInv
    <3>2. work[v].d \in Deliveries
      BY <3>1 DEF LineInv, LTypes
    <3>3. Forward(work[v].d)
      BY <3>2, SameForward DEF Elsewhere, LineInv
    <3> QED
      BY <3>1, <3>3, ForwardWorker DEF LineInv
  <2> QED
    BY <2>1, <2>2
<1> QED
  BY <1>2, <1>3, <1>4 DEF LineInv

-----------------------------------------------------------------------------
(* A call's record *)

\* Going on to the next step changes nothing else of the call.
LEMMA GoEffect ==
  ASSUME LTypes, NEW w \in Workers, NEW pc \in Pcs, Go(w, pc)
  PROVE  \E b \in Work :
           /\ work' = [work EXCEPT ![w] = b]
           /\ b.pc = pc /\ b.d = work[w].d /\ b.entry = work[w].entry /\ b.no = work[w].no
           /\ b.code = work[w].code /\ b.fresh = work[w].fresh /\ b.granted = work[w].granted
<1> DEFINE b == [work[w] EXCEPT !.pc = pc]
<1>1. work[w] \in Work
  BY DEF LTypes
<1>2. b \in Work
  BY <1>1 DEF Work
<1>3. work' = [work EXCEPT ![w] = b]
  BY DEF Go
<1>4. /\ b.pc = pc /\ b.d = work[w].d /\ b.entry = work[w].entry /\ b.no = work[w].no
      /\ b.code = work[w].code /\ b.fresh = work[w].fresh /\ b.granted = work[w].granted
  BY <1>1 DEF Work
<1> QED
  BY <1>2, <1>3, <1>4

\* A call that is over.
LEMMA NoWorkType == NoWork \in Work /\ NoWork.pc = "idle"
BY DEF NoWork, Work, Pcs, OutboxStates

\* The tables stay as they are, but for the kill latch.
LEMMA SameTables ==
  ASSUME LTypes, UNCHANGED <<outbox, caps, tries, window, remembers, sent>>,
         killed' \in BOOLEAN, faults' \in Nat
  PROVE  Tables'
BY DEF LTypes, Tables

\* A step that writes no table but the kill latch and no reservation, and at
\* whose end the call knows nothing false.
LEMMA Latches ==
  ASSUME LineInv, NEW w \in Workers, NEW d \in Deliveries, NEW b \in Work,
         work' = [work EXCEPT ![w] = b], b.pc # "idle" => b.d = d,
         UNCHANGED <<rvars, outbox, caps, tries, window, remembers, sent>>,
         killed' \in BOOLEAN, faults' \in Nat,
         b.pc # "idle" => WorkerInv(w)'
  PROVE  LineInv'
<1>1. Tables'
  BY SameTables DEF LineInv
<1>2. \A e \in Deliveries : Same(e)
  BY DEF Same, rvars
<1>3. IInv' /\ ClockInv' /\ BeginReceipts'
  BY NextInv, GovernanceKeeps DEF LineInv
<1>4. Elsewhere(d) /\ Forward(d) /\ DeliveryInv(d)'
  BY <1>2, SameForward, SameDelivery DEF Elsewhere, LineInv
<1> QED
  BY <1>1, <1>3, <1>4, Lift

\* A step that writes nothing at all.
LEMMA Reads ==
  ASSUME LineInv, NEW w \in Workers, NEW d \in Deliveries, NEW b \in Work,
         work' = [work EXCEPT ![w] = b], b.pc # "idle" => b.d = d,
         UNCHANGED <<rvars, outbox, caps, killed, tries, window, remembers, sent>>,
         faults' \in Nat,
         b.pc # "idle" => WorkerInv(w)'
  PROVE  LineInv'
<1>1. killed' \in BOOLEAN
  BY DEF LineInv, LTypes
<1> QED
  BY <1>1, Latches

-----------------------------------------------------------------------------
(* Steps that only read *)

\* A call that ends leaves nothing to be shown.
LEMMA Ends ==
  ASSUME LineInv, NEW w \in Workers, work[w].pc # "idle", Done(w),
         UNCHANGED <<rvars, outbox, caps, killed, tries, window, remembers, sent>>,
         faults' \in Nat
  PROVE  LineInv'
<1>1. work[w].d \in Deliveries
  BY DEF LineInv, LTypes
<1> QED
  BY <1>1, NoWorkType, Reads DEF Done

LEMMA StartEnqueueInv ==
  ASSUME LineInv, NEW w \in Workers, NEW d \in Deliveries, StartEnqueue(w, d)
  PROVE  LineInv'
<1> DEFINE b == [NoWork EXCEPT !.pc = "claim", !.d = d]
<1>1. b \in Work /\ b.pc = "claim" /\ b.d = d
  BY NoWorkType DEF Work, Pcs
<1>2. work' = [work EXCEPT ![w] = b] /\ work'[w] = b
  BY DEF StartEnqueue, LineInv, LTypes
<1>3. WorkerInv(w)'
  BY <1>1, <1>2 DEF WorkerInv, Early, PushPath, Behind, Attempting, Answered, Settling
<1>4. /\ UNCHANGED <<rvars, outbox, caps, killed, tries, window, remembers, sent>>
      /\ faults' \in Nat
  BY DEF StartEnqueue, lvars, LineInv, LTypes
<1> HIDE DEF b
<1> QED
  BY <1>1, <1>2, <1>3, <1>4, Reads

LEMMA SubmitInv ==
  ASSUME LineInv, NEW w \in Workers, NEW d \in Deliveries, Submit(w, d)
  PROVE  LineInv'
<1> DEFINE b == [NoWork EXCEPT !.d = d, !.entry = outbox[d].state,
                   !.pc = IF outbox[d].state = "QUEUED" THEN "gate" ELSE "history"]
<1>0. outbox[d].state \in {"QUEUED", "SUBMITTING", "RECONCILING"} /\ tries[d] \in Seq(Codes)
  BY DEF Submit, LineInv, LTypes
<1>1. b \in Work
  BY <1>0, NoWorkType DEF Work, Pcs, OutboxStates
<1>2. b.d = d /\ b.entry = outbox[d].state /\ b.no = 0
        /\ b.pc = IF outbox[d].state = "QUEUED" THEN "gate" ELSE "history"
  BY DEF NoWork
<1>3. work' = [work EXCEPT ![w] = b] /\ work'[w] = b
  BY DEF Submit, LineInv, LTypes
<1> HIDE DEF b
<1>4. UNCHANGED <<rvars, outbox, caps, killed, tries, window, remembers, sent, faults>>
  BY DEF Submit, lvars
<1>5. AttemptNo(w)' = 1 /\ Len(tries[d]) \in Nat
  BY <1>0, <1>2, <1>3 DEF AttemptNo, First
<1>6. outbox[d].state = "QUEUED" => window[d] # "closed"
  BY DEF LineInv, DeliveryInv, Past
<1>7. WorkerInv(w)'
  BY <1>0, <1>2, <1>3, <1>4, <1>5, <1>6
     DEF WorkerInv, Early, PushPath, Behind, Attempting, Answered, Settling, Past
<1> QED
  BY <1>1, <1>2, <1>3, <1>4, <1>7, Reads DEF LineInv, LTypes

LEMMA HistoryInv ==
  ASSUME LineInv, NEW w \in Workers, History(w)
  PROVE  LineInv'
<1> DEFINE d == work[w].d
<1>0. /\ work[w].pc = "history" /\ d \in Deliveries /\ work[w] \in Work
      /\ UNCHANGED <<rvars, outbox, caps, killed, tries, window, remembers, sent, faults>>
  BY DEF History, At, LineInv, LTypes, lvars
<1>f. faults' \in Nat
  BY <1>0 DEF LineInv, LTypes
<1>1. CASE outbox[d].state \in {"SUBMITTED", "SETTLED"}
  <2>1. Done(w)
    BY <1>1 DEF History, Done
  <2> QED
    BY <1>0, <1>f, <2>1, Ends
<1>2. CASE outbox[d].state \notin {"SUBMITTED", "SETTLED"}
  <2> DEFINE pc == IF window[d] = "closed" THEN "quarantine"
                   ELSE IF work[w].granted THEN "cap" ELSE "gate"
             b == [work[w] EXCEPT !.entry = outbox[d].state, !.no = Len(tries[d]) + 1,
                                  !.pc = pc]
  <2>1. tries[d] \in Seq(Codes) /\ outbox[d].state \in OutboxStates
    BY <1>0 DEF LineInv, LTypes, Entry
  <2>2. Len(tries[d]) \in Nat /\ Len(tries[d]) + 1 \in Nat /\ pc \in Pcs
    BY <2>1 DEF Pcs
  <2>3. b \in Work
    <3> HIDE DEF pc
    <3> QED
      BY <1>0, <2>1, <2>2 DEF Work
  <2>4. work' = [work EXCEPT ![w] = b] /\ work'[w] = b
    BY <1>2, <1>0 DEF History, LineInv, LTypes
  <2>5. b.d = d /\ b.entry = outbox[d].state /\ b.no = Len(tries[d]) + 1 /\ b.pc = pc
    BY <1>0 DEF Work
  <2>6. outbox[d].state # "NONE"
    BY <1>0 DEF LineInv, WorkerInv, Early
  <2> HIDE DEF b
  <2>7. AttemptNo(w)' = Len(tries[d]) + 1
    BY <2>2, <2>4, <2>5 DEF AttemptNo, First
  <2>8. WorkerInv(w)'
    BY <1>0, <2>2, <2>4, <2>5, <2>6, <2>7
       DEF WorkerInv, Early, PushPath, Behind, Attempting, Answered, Settling, Past
  <2> QED
    BY <1>0, <1>f, <2>3, <2>4, <2>5, <2>8, Reads
<1> QED
  BY <1>1, <1>2

LEMMA GateInv ==
  ASSUME LineInv, NEW w \in Workers, Gate(w)
  PROVE  LineInv'
<1>0. /\ work[w].pc = "gate" /\ work[w].d \in Deliveries /\ WorkerInv(w)
      /\ UNCHANGED <<rvars, outbox, caps, tries, window, remembers, sent, faults>>
      /\ Done(w) \/ Go(w, "logical")
  BY DEF Gate, At, LineInv, LTypes
<1>f. faults' \in Nat /\ killed' \in BOOLEAN
  BY <1>0 DEF Gate, LineInv, LTypes
<1>1. CASE Done(w)
  BY <1>0, <1>f, <1>1, NoWorkType, Latches DEF Done
<1>2. CASE Go(w, "logical")
  <2>1. PICK b \in Work :
           /\ work' = [work EXCEPT ![w] = b]
           /\ b.pc = "logical" /\ b.d = work[w].d /\ b.entry = work[w].entry /\ b.no = work[w].no
           /\ b.code = work[w].code /\ b.fresh = work[w].fresh /\ b.granted = work[w].granted
    BY <1>2, GoEffect DEF Pcs, LineInv
  <2>2. work'[w] = b
    BY <2>1 DEF LineInv, LTypes
  <2>3. AttemptNo(w)' = AttemptNo(w)
    BY <2>1, <2>2 DEF AttemptNo, First
  <2>4. WorkerInv(w)'
    BY <1>0, <2>1, <2>2, <2>3
       DEF WorkerInv, Early, PushPath, Behind, Attempting, Answered, Settling, Past
  <2> QED
    BY <1>0, <1>f, <2>1, <2>4, Latches
<1> QED
  BY <1>0, <1>1, <1>2

\* A call that ends by throwing, or that dies.
LEMMA ThrowInv ==
  ASSUME LineInv, NEW w \in Workers, Throw(w) \/ Fault(w)
  PROVE  LineInv'
<1>1. /\ work[w].pc # "idle" /\ Done(w)
      /\ UNCHANGED <<rvars, outbox, caps, killed, tries, window, remembers, sent>>
  BY DEF Throw, Fault, At, lvars
<1>2. faults' \in Nat
  BY DEF Throw, Fault, LineInv, LTypes
<1> QED
  BY <1>1, <1>2, Ends

\* Where a call goes on after a lifecycle event.
LEMMA EmitNextIs ==
  ASSUME NEW pc \in DOMAIN EmitNext
  PROVE  \/ pc = "pre" /\ EmitNext[pc] = "cap"
         \/ pc = "post" /\ EmitNext[pc] = "push"
         \/ pc = "accepted" /\ EmitNext[pc] = "settle"
         \/ pc \in {"settled", "reconciling", "expired"} /\ EmitNext[pc] = "idle"
BY DEF EmitNext

LEMMA EmitInv ==
  ASSUME LineInv, NEW w \in Workers, Emit(w)
  PROVE  LineInv'
<1>0. /\ work[w].pc \in DOMAIN EmitNext
      /\ UNCHANGED <<rvars, outbox, caps, killed, tries, window, remembers, sent, faults>>
  BY DEF Emit
<1>f. faults' \in Nat
  BY <1>0 DEF LineInv, LTypes
<1>1. /\ work[w].pc # "idle" /\ work[w].d \in Deliveries /\ WorkerInv(w)
  BY <1>0, EmitNextIs DEF LineInv, LTypes
<1>2. CASE Done(w)
  BY <1>0, <1>1, <1>f, <1>2, Ends
<1>3. CASE ~Done(w)
  <2>0. PICK pc \in {"cap", "push", "settle"} :
          /\ Go(w, pc)
          /\ \/ work[w].pc = "pre" /\ pc = "cap"
             \/ work[w].pc = "post" /\ pc = "push"
             \/ work[w].pc = "accepted" /\ pc = "settle"
    BY <1>0, <1>3, EmitNextIs DEF Emit
  <2>1. PICK b \in Work :
           /\ work' = [work EXCEPT ![w] = b]
           /\ b.pc = pc /\ b.d = work[w].d /\ b.entry = work[w].entry /\ b.no = work[w].no
           /\ b.code = work[w].code /\ b.fresh = work[w].fresh /\ b.granted = work[w].granted
    BY <2>0, GoEffect DEF Pcs, LineInv
  <2>2. work'[w] = b
    BY <2>1 DEF LineInv, LTypes
  <2>3. AttemptNo(w)' = AttemptNo(w)
    BY <2>1, <2>2 DEF AttemptNo, First
  <2>4. WorkerInv(w)'
    BY <1>0, <1>1, <2>0, <2>1, <2>2, <2>3
       DEF WorkerInv, Early, PushPath, Behind, Attempting, Answered, Settling, Past, Refused,
           Accepted, Rejected
  <2> QED
    BY <1>0, <1>1, <1>f, <2>1, <2>4, Reads
<1> QED
  BY <1>2, <1>3

-----------------------------------------------------------------------------
(* Steps that write the outbox row *)

\* A step that writes the outbox row of its delivery.
LEMMA OutboxStep ==
  ASSUME LineInv, NEW w \in Workers, NEW d \in Deliveries, NEW b \in Work, NEW e \in Entry,
         work' = [work EXCEPT ![w] = b], b.pc # "idle" => b.d = d,
         outbox' = [outbox EXCEPT ![d] = e],
         UNCHANGED <<rvars, caps, killed, tries, window, remembers, sent, faults>>,
         outbox[d].state # "NONE" => e.state # "NONE" /\ e.key = outbox[d].key,
         e.state = "NONE" <=> e.key = None,
         Past(d) => e.state \notin {"NONE", "QUEUED"},
         e.state \notin {"NONE", "QUEUED"} =>
           Started(rows[ReservationOf[d]]) /\ rows[ReservationOf[d]].key = e.key,
         e.outcome = "PROVIDER_ACCEPTED" => sent[d] > 0,
         b.pc # "idle" => WorkerInv(w)'
  PROVE  LineInv'
<1>1. outbox' \in [Deliveries -> Entry] /\ outbox'[d] = e
        /\ \A o \in Deliveries \ {d} : outbox'[o] = outbox[o]
  BY DEF LineInv, LTypes
<1>2. Tables'
  BY <1>1 DEF LineInv, LTypes, Tables
<1>3. rows' = rows /\ overtaken' = overtaken
  BY DEF rvars
<1>4. Elsewhere(d)
  BY <1>1, <1>3 DEF Elsewhere, Same
<1>5. IInv' /\ ClockInv' /\ BeginReceipts'
  BY NextInv, GovernanceKeeps DEF LineInv
<1>6. sent[d] \in Nat /\ Len(tries[d]) \in Nat
  BY DEF LineInv, LTypes
<1>7. Forward(d)
  BY <1>1, <1>3, <1>6 DEF Forward, Past
<1>8. DeliveryInv(d)
  BY DEF LineInv
<1>9. DeliveryInv(d)'
  BY <1>1, <1>3, <1>8 DEF DeliveryInv, Past, Begun, Refused, Excused
<1> QED
  BY <1>2, <1>4, <1>5, <1>7, <1>9, Lift

\* advance writes the new state when the row is in one of the expected ones.
LEMMA AdvanceEffect ==
  ASSUME LTypes, NEW d \in Deliveries, NEW from, NEW to \in Entry, Advance(d, from, to)
  PROVE  \E e \in Entry :
           /\ outbox' = [outbox EXCEPT ![d] = e]
           /\ outbox[d].state \in from => e = to
           /\ outbox[d].state \notin from => e = outbox[d]
<1>1. outbox[d] \in Entry /\ outbox \in [Deliveries -> Entry]
  BY DEF LTypes
<1>2. CASE outbox[d].state \in from
  BY <1>2 DEF Advance
<1>3. CASE outbox[d].state \notin from
  <2>1. outbox' = [outbox EXCEPT ![d] = outbox[d]]
    BY <1>1, <1>3 DEF Advance
  <2> QED
    BY <2>1, <1>1, <1>3
<1> QED
  BY <1>2, <1>3

\* The row with another state, of those past QUEUED.
LEMMA MovedRow ==
  ASSUME NEW x \in Entry, NEW s \in OutboxStates
  PROVE  /\ [x EXCEPT !.state = s] \in Entry
         /\ [x EXCEPT !.state = s].state = s
         /\ [x EXCEPT !.state = s].key = x.key
         /\ [x EXCEPT !.state = s].outcome = x.outcome
BY DEF Entry

\* A row past the barrier is advanced by a call that goes on.
LEMMA AdvancePast ==
  ASSUME LineInv, NEW w \in Workers, work[w].pc \notin Early, NEW to \in Entry, NEW from,
         NEW pc \in Pcs \ PushPath, pc \notin Early,
         from \subseteq {"SUBMITTING", "SUBMITTED", "RECONCILING"},
         to.state \notin {"NONE", "QUEUED"}, to.key = outbox[work[w].d].key,
         to.outcome = "PROVIDER_ACCEPTED" => sent[work[w].d] > 0,
         pc # "history", pc \notin Attempting,
         pc \in Behind => work[w].pc \in Behind,
         pc \in Answered => work[w].pc \in Answered,
         pc \in {"confirm", "submitted", "accepted"} => Accepted(work[w].code),
         pc \in Settling => work[w].pc \in Settling,
         Advance(work[w].d, from, to), Go(w, pc),
         UNCHANGED <<rvars, caps, killed, tries, window, remembers, sent, faults>>
  PROVE  LineInv'
<1> DEFINE d == work[w].d
<1>1. d \in Deliveries /\ WorkerInv(w) /\ DeliveryInv(d) /\ LTypes
  BY DEF LineInv, LTypes, Early
<1>2. PICK e \in Entry :
           /\ outbox' = [outbox EXCEPT ![d] = e]
           /\ outbox[d].state \in from => e = to
           /\ outbox[d].state \notin from => e = outbox[d]
  BY <1>1, AdvanceEffect
<1>3. PICK b \in Work :
           /\ work' = [work EXCEPT ![w] = b]
           /\ b.pc = pc /\ b.d = work[w].d /\ b.entry = work[w].entry /\ b.no = work[w].no
           /\ b.code = work[w].code /\ b.fresh = work[w].fresh /\ b.granted = work[w].granted
  BY <1>1, GoEffect
<1>4. work'[w] = b /\ outbox'[d] = e
  BY <1>1, <1>2, <1>3 DEF LTypes
<1>5. outbox[d].state # "NONE" => e.state # "NONE" /\ e.key = outbox[d].key
  BY <1>2
<1>6. e.state = "NONE" <=> e.key = None
  BY <1>1, <1>2 DEF DeliveryInv
<1>7. Past(d) => e.state \notin {"NONE", "QUEUED"}
  BY <1>2 DEF Past
<1>8. outbox[d].state \in from => Past(d)
  BY DEF Past
<1>9. e.state \notin {"NONE", "QUEUED"} =>
           Started(rows[ReservationOf[d]]) /\ rows[ReservationOf[d]].key = e.key
  BY <1>1, <1>2, <1>8 DEF DeliveryInv, Past, Begun
<1>10. e.outcome = "PROVIDER_ACCEPTED" => sent[d] > 0
  BY <1>1, <1>2 DEF DeliveryInv
<1>11. AttemptNo(w)' = AttemptNo(w)
  BY <1>3, <1>4 DEF AttemptNo, First
<1>12. Refused(d) => Refused(d)'
  BY <1>3, <1>4 DEF Refused
<1>13. work[w].pc \in Behind => Past(d)'
  BY <1>1, <1>3, <1>4, <1>7 DEF WorkerInv, Past
<1>14. WorkerInv(w)'
  BY <1>1, <1>3, <1>4, <1>5, <1>11, <1>12, <1>13
     DEF WorkerInv, Early, PushPath, Behind
<1> QED
  BY <1>1, <1>2, <1>3, <1>5, <1>6, <1>7, <1>9, <1>10, <1>14, OutboxStep

LEMMA QuarantineInv ==
  ASSUME LineInv, NEW w \in Workers, Quarantine(w) \/ Park(w)
  PROVE  LineInv'
<1> DEFINE to == [outbox[work[w].d] EXCEPT !.state = "RECONCILING"]
           from == {"SUBMITTING", "RECONCILING"}
<1>1. work[w].d \in Deliveries /\ outbox[work[w].d] \in Entry
  BY DEF LineInv, LTypes, Quarantine, Park, At
<1>2. /\ to \in Entry /\ to.state = "RECONCILING" /\ to.key = outbox[work[w].d].key
      /\ to.outcome = outbox[work[w].d].outcome
  BY <1>1, MovedRow DEF OutboxStates
<1>3. to.outcome = "PROVIDER_ACCEPTED" => sent[work[w].d] > 0
  BY <1>1, <1>2 DEF LineInv, DeliveryInv
<1>4. /\ Advance(work[w].d, from, to)
      /\ UNCHANGED <<rvars, caps, killed, tries, window, remembers, sent, faults>>
  BY DEF Quarantine, Park
<1> HIDE DEF to, from
<1>5. from \subseteq {"SUBMITTING", "SUBMITTED", "RECONCILING"}
  BY DEF from
<1>6. CASE work[w].pc = "quarantine" /\ Go(w, "expire")
  BY <1>2, <1>3, <1>4, <1>5, <1>6, AdvancePast
     DEF Pcs, PushPath, Early, Attempting, Behind, Answered, Settling
<1>7. CASE work[w].pc = "park" /\ Go(w, "enter")
  BY <1>2, <1>3, <1>4, <1>5, <1>7, AdvancePast
     DEF Pcs, PushPath, Early, Attempting, Behind, Answered, Settling
<1> QED
  BY <1>6, <1>7 DEF Quarantine, Park, At

LEMMA AdvanceSubmittedInv ==
  ASSUME LineInv, NEW w \in Workers, AdvanceSubmitted(w)
  PROVE  LineInv'
<1> DEFINE to == [outbox[work[w].d] EXCEPT !.state = "SUBMITTED"]
           from == {"SUBMITTING", "RECONCILING"}
<1>1. work[w].d \in Deliveries /\ outbox[work[w].d] \in Entry
  BY DEF LineInv, LTypes, AdvanceSubmitted, At
<1>2. /\ to \in Entry /\ to.state = "SUBMITTED" /\ to.key = outbox[work[w].d].key
      /\ to.outcome = outbox[work[w].d].outcome
  BY <1>1, MovedRow DEF OutboxStates
<1>3. to.outcome = "PROVIDER_ACCEPTED" => sent[work[w].d] > 0
  BY <1>1, <1>2 DEF LineInv, DeliveryInv
<1>4. /\ Advance(work[w].d, from, to) /\ work[w].pc = "submitted" /\ Go(w, "accepted")
      /\ UNCHANGED <<rvars, caps, killed, tries, window, remembers, sent, faults>>
  BY DEF AdvanceSubmitted, At
<1>5. Accepted(work[w].code)
  BY <1>4 DEF LineInv, WorkerInv
<1> HIDE DEF to, from
<1>6. from \subseteq {"SUBMITTING", "SUBMITTED", "RECONCILING"}
  BY DEF from
<1> QED
  BY <1>2, <1>3, <1>4, <1>5, <1>6, AdvancePast
     DEF Pcs, PushPath, Early, Attempting, Behind, Answered, Settling

LEMMA SettleOutboxInv ==
  ASSUME LineInv, NEW w \in Workers, SettleOutbox(w)
  PROVE  LineInv'
<1> DEFINE x == outbox[work[w].d]
           o == NormalizedOutcome(work[w].code)
           to == [x EXCEPT !.state = "SETTLED", !.outcome = o]
           from == {"SUBMITTING", "SUBMITTED", "RECONCILING"}
<1>1. work[w].d \in Deliveries /\ x \in Entry
  BY DEF LineInv, LTypes, SettleOutbox, At
<1>2. o \in {"PROVIDER_ACCEPTED", "PROVIDER_REJECTED"}
  BY DEF NormalizedOutcome
<1>3. /\ Advance(work[w].d, from, to) /\ work[w].pc = "outbox" /\ Go(w, "exit")
      /\ UNCHANGED <<rvars, caps, killed, tries, window, remembers, sent, faults>>
  BY DEF SettleOutbox, At
<1>4. o = "PROVIDER_ACCEPTED" => sent[work[w].d] > 0
  BY <1>3 DEF LineInv, WorkerInv, Answered, NormalizedOutcome
<1> HIDE DEF o, x
<1>5. to \in Entry /\ to.state = "SETTLED" /\ to.key = x.key /\ to.outcome = o
  BY <1>1, <1>2 DEF Entry, OutboxStates
<1> HIDE DEF to, from
<1>6. from \subseteq {"SUBMITTING", "SUBMITTED", "RECONCILING"}
  BY DEF from
<1>7. to.key = outbox[work[w].d].key
  BY <1>5 DEF x
<1> QED
  BY <1>3, <1>4, <1>5, <1>6, <1>7, AdvancePast
     DEF Pcs, PushPath, Early, Attempting, Behind, Answered, Settling

LEMMA AdvanceSubmittingInv ==
  ASSUME LineInv, NEW w \in Workers, AdvanceSubmitting(w)
  PROVE  LineInv'
<1> DEFINE d == work[w].d
           to == [outbox[d] EXCEPT !.state = "SUBMITTING"]
<1>1. /\ work[w].pc = "submitting" /\ d \in Deliveries /\ outbox[d] \in Entry
      /\ WorkerInv(w) /\ DeliveryInv(d) /\ LTypes
  BY DEF LineInv, LTypes, AdvanceSubmitting, At
<1>2. to \in Entry /\ to.state = "SUBMITTING" /\ to.key = outbox[d].key
        /\ to.outcome = outbox[d].outcome
  BY <1>1, MovedRow DEF OutboxStates
<1>3. /\ Advance(d, {"QUEUED"}, to) /\ Go(w, "commit")
      /\ UNCHANGED <<rvars, caps, killed, tries, window, remembers, sent, faults>>
  BY DEF AdvanceSubmitting
<1> HIDE DEF to
<1>4. PICK e \in Entry :
           /\ outbox' = [outbox EXCEPT ![d] = e]
           /\ outbox[d].state \in {"QUEUED"} => e = to
           /\ outbox[d].state \notin {"QUEUED"} => e = outbox[d]
  BY <1>1, <1>2, <1>3, AdvanceEffect
<1>5. PICK b \in Work :
           /\ work' = [work EXCEPT ![w] = b]
           /\ b.pc = "commit" /\ b.d = work[w].d /\ b.entry = work[w].entry /\ b.no = work[w].no
           /\ b.code = work[w].code /\ b.fresh = work[w].fresh /\ b.granted = work[w].granted
  BY <1>1, <1>3, GoEffect DEF Pcs
<1>6. work'[w] = b /\ outbox'[d] = e
  BY <1>1, <1>4, <1>5 DEF LTypes
<1>7. outbox[d].state # "NONE" /\ Begun(d)
  BY <1>1 DEF WorkerInv, Early
<1>8. e.state \notin {"NONE", "QUEUED"} /\ e.key = outbox[d].key
        /\ e.outcome = outbox[d].outcome
  BY <1>2, <1>4, <1>7
<1>9. AttemptNo(w)' = AttemptNo(w)
  BY <1>5, <1>6 DEF AttemptNo, First
<1>10. WorkerInv(w)'
  BY <1>1, <1>3, <1>5, <1>6, <1>8, <1>9
     DEF WorkerInv, Early, PushPath, Behind, Answered, Attempting, Settling, Past
<1>11. e.state = "NONE" <=> e.key = None
  BY <1>1, <1>7, <1>8 DEF DeliveryInv
<1> QED
  BY <1>1, <1>3, <1>4, <1>5, <1>7, <1>8, <1>10, <1>11, OutboxStep DEF DeliveryInv, Begun

LEMMA CreateEntryInv ==
  ASSUME LineInv, NEW w \in Workers, CreateEntry(w)
  PROVE  LineInv'
<1> DEFINE d == work[w].d
<1>1. d \in Deliveries /\ work[w].pc # "idle" /\ Done(w)
        /\ UNCHANGED <<rvars, caps, killed, tries, window, remembers, sent, faults>>
  BY DEF LineInv, LTypes, CreateEntry, At
<1>2. CASE outbox' = outbox
  BY <1>1, <1>2, Ends DEF LineInv, LTypes
<1>3. ASSUME NEW k \in Keys, outbox[d].state = "NONE",
             outbox' = [outbox EXCEPT ![d] = [state |-> "QUEUED", key |-> k,
                                              version |-> 1, outcome |-> None]]
      PROVE  LineInv'
  <2> DEFINE e == [state |-> "QUEUED", key |-> k, version |-> 1, outcome |-> None]
  <2>1. e \in Entry /\ e.state = "QUEUED" /\ e.key = k /\ k # None /\ e.outcome = None
          /\ None # "PROVIDER_ACCEPTED"
    BY ConstantsAssumption DEF Entry, OutboxStates
  <2>2. outbox' = [outbox EXCEPT ![d] = e] /\ work' = [work EXCEPT ![w] = NoWork]
    BY <1>1, <1>3 DEF Done
  <2> HIDE DEF e
  <2> QED
    BY <1>1, <1>3, <2>1, <2>2, NoWorkType, OutboxStep DEF Past
<1> QED
  BY <1>2, <1>3 DEF CreateEntry

-----------------------------------------------------------------------------
(* Steps that write the units of the control plane *)

\* A step that writes the units of its delivery and the kill latch.
LEMMA CapStep ==
  ASSUME LineInv, NEW w \in Workers, NEW d \in Deliveries, NEW b \in Work, NEW u \in Units,
         work' = [work EXCEPT ![w] = b], b.pc # "idle" => b.d = d,
         caps' = [caps EXCEPT ![d] = u], killed' \in BOOLEAN,
         UNCHANGED <<rvars, outbox, tries, window, remembers, sent, faults>>,
         caps[d].attempts \subseteq u.attempts,
         IsFiniteSet(u.attempts), Cardinality(u.attempts) <= MaxAttempts,
         b.pc # "idle" => WorkerInv(w)'
  PROVE  LineInv'
<1>1. caps' \in [Deliveries -> Units] /\ caps'[d] = u
        /\ \A o \in Deliveries \ {d} : caps'[o] = caps[o]
  BY DEF LineInv, LTypes
<1>2. Tables'
  BY <1>1 DEF LineInv, LTypes, Tables
<1>3. rows' = rows /\ overtaken' = overtaken
  BY DEF rvars
<1>4. Elsewhere(d)
  BY <1>1, <1>3 DEF Elsewhere, Same
<1>5. IInv' /\ ClockInv' /\ BeginReceipts'
  BY NextInv, GovernanceKeeps DEF LineInv
<1>6. sent[d] \in Nat /\ Len(tries[d]) \in Nat
  BY DEF LineInv, LTypes
<1>7. Forward(d)
  BY <1>1, <1>3, <1>6 DEF Forward, Past
<1>8. DeliveryInv(d)
  BY DEF LineInv
<1>9. DeliveryInv(d)'
  BY <1>1, <1>3, <1>8 DEF DeliveryInv, Past, Begun, Refused, Excused
<1> QED
  BY <1>2, <1>4, <1>5, <1>7, <1>9, Lift

\* The units of one delivery: which of its fields a step may write.
LEMMA UnitsEffect ==
  ASSUME NEW u \in Units, NEW s \in Unit
  PROVE  /\ [u EXCEPT !.logical = s] \in Units
         /\ [u EXCEPT !.slot = s] \in Units
         /\ [u EXCEPT !.unknown = s] \in Units
         /\ [u EXCEPT !.logical = s].attempts = u.attempts
         /\ [u EXCEPT !.slot = s].attempts = u.attempts
         /\ [u EXCEPT !.unknown = s].attempts = u.attempts
         /\ [u EXCEPT !["logical"] = s] = [u EXCEPT !.logical = s]
         /\ [u EXCEPT !["slot"] = s] = [u EXCEPT !.slot = s]
         /\ [u EXCEPT !["unknown"] = s] = [u EXCEPT !.unknown = s]
BY DEF Units

\* The units of a delivery that only change hands.
SameAttempts(d) ==
  \E u \in Units : caps' = [caps EXCEPT ![d] = u] /\ u.attempts = caps[d].attempts

LEMMA SettleCapEffect ==
  ASSUME LTypes, NEW d \in Deliveries, NEW kind \in {"logical", "slot", "unknown"},
         NEW s \in Unit, SettleCap(d, kind, s)
  PROVE  SameAttempts(d)
<1>1. caps[d] \in Units /\ caps \in [Deliveries -> Units]
  BY DEF LTypes
<1>2. CASE caps' = caps
  <2>1. caps' = [caps EXCEPT ![d] = caps[d]]
    BY <1>1, <1>2
  <2> QED
    BY <1>1, <2>1 DEF SameAttempts
<1>3. CASE caps' = [caps EXCEPT ![d] = [caps[d] EXCEPT ![kind] = s]]
  BY <1>1, <1>3, UnitsEffect DEF SameAttempts
<1> QED
  BY <1>2, <1>3 DEF SettleCap

\* Units that stay as they are.
LEMMA SameCaps ==
  ASSUME LTypes, NEW d \in Deliveries, caps' = caps
  PROVE  SameAttempts(d)
<1>1. caps[d] \in Units /\ caps' = [caps EXCEPT ![d] = caps[d]]
  BY DEF LTypes
<1> QED
  BY <1>1 DEF SameAttempts

\* A step that writes units but no attempt, and after which the call knows
\* what it knew before.
LEMMA UnitStep ==
  ASSUME LineInv, NEW w \in Workers, work[w].pc \notin Early, NEW b \in Work,
         work' = [work EXCEPT ![w] = b],
         b.pc # "idle" =>
           /\ b.d = work[w].d /\ b.entry = work[w].entry /\ b.no = work[w].no
           /\ b.code = work[w].code
           /\ b.pc \notin Early
           /\ b.pc \in PushPath \cup {"history"} => work[w].pc \in PushPath
           /\ b.pc \in Behind => work[w].pc \in Behind
           /\ b.pc \in Attempting => work[w].pc \in Attempting
           /\ b.pc \in Answered => work[w].pc \in Answered
           /\ b.pc \in Settling => work[w].pc \in Settling
           /\ b.pc \notin {"submitting", "confirm", "submitted", "accepted"},
         SameAttempts(work[w].d), killed' \in BOOLEAN,
         UNCHANGED <<rvars, outbox, tries, window, remembers, sent, faults>>
  PROVE  LineInv'
<1> DEFINE d == work[w].d
<1>1. d \in Deliveries /\ WorkerInv(w) /\ DeliveryInv(d) /\ LTypes
  BY DEF LineInv, LTypes, Early
<1>2. PICK u \in Units : caps' = [caps EXCEPT ![d] = u] /\ u.attempts = caps[d].attempts
  BY DEF SameAttempts
<1>3. IsFiniteSet(u.attempts) /\ Cardinality(u.attempts) <= MaxAttempts
  BY <1>1, <1>2 DEF DeliveryInv
<1>4. ASSUME b.pc # "idle" PROVE WorkerInv(w)'
  <2>1. work'[w] = b /\ caps'[d] = u
    BY <1>1, <1>2 DEF LTypes
  <2>2. AttemptNo(w)' = AttemptNo(w)
    BY <1>4, <2>1 DEF AttemptNo, First
  <2>3. Past(d) => Past(b.d)'
    BY <1>4, <2>1 DEF Past
  <2>4. Refused(d) => Refused(b.d)'
    BY <1>4, <2>1 DEF Refused
  <2> QED
    BY <1>1, <1>2, <1>4, <2>1, <2>2, <2>3, <2>4 DEF WorkerInv
<1> QED
  BY <1>1, <1>2, <1>3, <1>4, CapStep

LEMMA ReserveLogicalInv ==
  ASSUME LineInv, NEW w \in Workers, ReserveLogical(w)
  PROVE  LineInv'
<1> DEFINE d == work[w].d
<1>1. /\ work[w].pc = "logical" /\ d \in Deliveries /\ work[w] \in Work /\ LTypes
      /\ UNCHANGED <<rvars, outbox, tries, window, remembers, sent, faults>>
      /\ caps[d] \in Units
  BY DEF LineInv, LTypes, ReserveLogical, At
<1>2. killed' \in BOOLEAN
  BY <1>1 DEF ReserveLogical, LTypes
<1>3. CASE Done(w)
  <2>1. caps' = caps
    BY <1>3, NoWorkType, <1>1 DEF ReserveLogical, Done, Go, LTypes, Work
  <2> QED
    BY <1>1, <1>2, <1>3, <2>1, SameCaps, NoWorkType, UnitStep DEF Done, Early
<1>4. CASE /\ caps' = [caps EXCEPT ![d].logical = "RESERVED"]
           /\ work' = [work EXCEPT ![w].pc = "slot", ![w].fresh = TRUE]
  <2> DEFINE b == [work[w] EXCEPT !.pc = "slot", !.fresh = TRUE]
             u == [caps[d] EXCEPT !.logical = "RESERVED"]
  <2>1. b \in Work /\ b.pc = "slot" /\ b.d = d /\ b.entry = work[w].entry
          /\ b.no = work[w].no /\ b.code = work[w].code
    BY <1>1 DEF Work, Pcs
  <2>2. work' = [work EXCEPT ![w] = b]
    BY <1>4
  <2>3. u \in Units /\ u.attempts = caps[d].attempts /\ caps' = [caps EXCEPT ![d] = u]
    BY <1>1, <1>4, UnitsEffect DEF Unit
  <2>4. SameAttempts(d)
    BY <2>3 DEF SameAttempts
  <2> HIDE DEF b, u
  <2> QED
    BY <1>1, <1>2, <2>1, <2>2, <2>4, UnitStep
       DEF Early, PushPath, Behind, Attempting, Answered, Settling
<1>5. CASE Go(w, "slot") /\ caps' = caps
  <2>1. PICK b \in Work :
           /\ work' = [work EXCEPT ![w] = b]
           /\ b.pc = "slot" /\ b.d = work[w].d /\ b.entry = work[w].entry /\ b.no = work[w].no
           /\ b.code = work[w].code /\ b.fresh = work[w].fresh /\ b.granted = work[w].granted
    BY <1>1, <1>5, GoEffect DEF Pcs
  <2> QED
    BY <1>1, <1>2, <1>5, <2>1, SameCaps, UnitStep
       DEF Early, PushPath, Behind, Attempting, Answered, Settling
<1>6. CASE /\ work' = [work EXCEPT ![w].granted = TRUE,
                                   ![w].pc = IF First(w) THEN "history" ELSE "cap"]
           /\ caps' = caps
  <2> DEFINE pc == IF First(w) THEN "history" ELSE "cap"
             b == [work[w] EXCEPT !.granted = TRUE, !.pc = pc]
  <2>1. pc \in {"history", "cap"}
    OBVIOUS
  <2>2. work' = [work EXCEPT ![w] = b]
    BY <1>6
  <2> HIDE DEF pc
  <2>3. b \in Work /\ b.pc = pc /\ b.d = d /\ b.entry = work[w].entry
          /\ b.no = work[w].no /\ b.code = work[w].code
    BY <1>1, <2>1 DEF Work, Pcs
  <2> HIDE DEF b
  <2> QED
    BY <1>1, <1>2, <1>6, <2>1, <2>2, <2>3, SameCaps, UnitStep
       DEF Early, PushPath, Behind, Attempting, Answered, Settling
<1> QED
  BY <1>3, <1>4, <1>5, <1>6 DEF ReserveLogical

\* A call goes on after a step that writes units but no attempt.
LEMMA UnitGo ==
  ASSUME LineInv, NEW w \in Workers, work[w].pc \notin Early, NEW pc \in Pcs, pc \notin Early,
         Go(w, pc),
         pc \in PushPath => work[w].pc \in PushPath, pc # "history",
         pc \in Behind => work[w].pc \in Behind,
         pc \in Attempting => work[w].pc \in Attempting,
         pc \in Answered => work[w].pc \in Answered,
         pc \in Settling => work[w].pc \in Settling,
         pc \notin {"submitting", "confirm", "submitted", "accepted"},
         SameAttempts(work[w].d), killed' \in BOOLEAN,
         UNCHANGED <<rvars, outbox, tries, window, remembers, sent, faults>>
  PROVE  LineInv'
<1>1. PICK b \in Work :
           /\ work' = [work EXCEPT ![w] = b]
           /\ b.pc = pc /\ b.d = work[w].d /\ b.entry = work[w].entry /\ b.no = work[w].no
           /\ b.code = work[w].code /\ b.fresh = work[w].fresh /\ b.granted = work[w].granted
  BY GoEffect DEF LineInv
<1> QED
  BY <1>1, UnitStep

\* A call ends with such a step.
LEMMA UnitDone ==
  ASSUME LineInv, NEW w \in Workers, work[w].pc \notin Early, Done(w),
         SameAttempts(work[w].d), killed' \in BOOLEAN,
         UNCHANGED <<rvars, outbox, tries, window, remembers, sent, faults>>
  PROVE  LineInv'
BY NoWorkType, UnitStep DEF Done

LEMMA ReserveSlotInv ==
  ASSUME LineInv, NEW w \in Workers, ReserveSlot(w)
  PROVE  LineInv'
<1> DEFINE d == work[w].d
           next == IF First(w) THEN "pre" ELSE "cap"
<1>1. /\ work[w].pc = "slot" /\ d \in Deliveries /\ LTypes /\ caps[d] \in Units
      /\ UNCHANGED <<rvars, outbox, tries, window, remembers, sent, faults>>
  BY DEF LineInv, LTypes, ReserveSlot, At
<1>2. killed' \in BOOLEAN /\ work[w].pc \notin Early
  BY <1>1 DEF ReserveSlot, LTypes, Early
<1>3. next \in {"pre", "cap"}
  OBVIOUS
<1> HIDE DEF next
<1>4. CASE Go(w, next) /\ SameAttempts(d)
  BY <1>1, <1>2, <1>3, <1>4, UnitGo
     DEF Pcs, Early, PushPath, Behind, Attempting, Answered, Settling
<1>5. CASE Done(w) /\ SameAttempts(d)
  BY <1>1, <1>2, <1>5, UnitDone
<1>6. caps' = caps => SameAttempts(d)
  BY <1>1, SameCaps
<1>7. SettleCap(d, "logical", "RELEASED") => SameAttempts(d)
  BY <1>1, SettleCapEffect DEF Unit
<1>8. caps' = [caps EXCEPT ![d].slot = "RESERVED"] => SameAttempts(d)
  BY <1>1, UnitsEffect DEF Unit, SameAttempts
<1>9. \/ Go(w, next) /\ caps' = [caps EXCEPT ![d].slot = "RESERVED"]
      \/ Done(w) /\ SettleCap(d, "logical", "RELEASED")
      \/ Done(w) /\ caps' = caps
      \/ Go(w, next) /\ caps' = caps
  BY DEF ReserveSlot, next
<1> QED
  BY <1>4, <1>5, <1>6, <1>7, <1>8, <1>9

LEMMA CommitDeliveryInv ==
  ASSUME LineInv, NEW w \in Workers, CommitDelivery(w)
  PROVE  LineInv'
<1>1. /\ work[w].pc \in {"commit", "free"} /\ LTypes
      /\ UNCHANGED <<rvars, outbox, killed, tries, window, remembers, sent, faults>>
  BY DEF LineInv, CommitDelivery, At
<1>2. work[w].d \in Deliveries /\ killed' \in BOOLEAN
  BY <1>1 DEF LTypes
<1>3. SameAttempts(work[w].d)
  BY <1>1, <1>2, SettleCapEffect DEF CommitDelivery, Unit
<1>4. CASE work[w].pc = "commit" /\ Go(w, "free")
  BY <1>1, <1>2, <1>3, <1>4, UnitGo
     DEF Pcs, Early, PushPath, Behind, Attempting, Answered, Settling
<1>5. CASE work[w].pc = "free" /\ Go(w, "post")
  BY <1>1, <1>2, <1>3, <1>5, UnitGo
     DEF Pcs, Early, PushPath, Behind, Attempting, Answered, Settling
<1> QED
  BY <1>4, <1>5 DEF CommitDelivery, At

LEMMA UnknownUnitInv ==
  ASSUME LineInv, NEW w \in Workers, ExitUnknown(w) \/ EnterUnknown(w)
  PROVE  LineInv'
<1>1. /\ work[w].pc \in {"exit", "enter"} /\ LTypes
      /\ UNCHANGED <<rvars, outbox, killed, tries, window, remembers, sent, faults>>
  BY DEF LineInv, ExitUnknown, EnterUnknown, At
<1>2. work[w].d \in Deliveries /\ killed' \in BOOLEAN /\ caps[work[w].d] \in Units
  BY <1>1 DEF LTypes
<1>3. SameAttempts(work[w].d)
  <2>1. caps' = caps => SameAttempts(work[w].d)
    BY <1>1, <1>2, SameCaps
  <2>2. caps' = [caps EXCEPT ![work[w].d].unknown = "RESERVED"] => SameAttempts(work[w].d)
    BY <1>2, UnitsEffect DEF Unit, SameAttempts
  <2>3. SettleCap(work[w].d, "unknown", "RELEASED") => SameAttempts(work[w].d)
    BY <1>1, <1>2, SettleCapEffect DEF Unit
  <2> QED
    BY <2>1, <2>2, <2>3 DEF ExitUnknown, EnterUnknown
<1>4. CASE work[w].pc = "exit" /\ Go(w, "settled")
  BY <1>1, <1>2, <1>3, <1>4, UnitGo
     DEF Pcs, Early, PushPath, Behind, Attempting, Answered, Settling
<1>5. CASE work[w].pc = "enter" /\ Go(w, "unknown")
  BY <1>1, <1>2, <1>3, <1>5, UnitGo
     DEF Pcs, Early, PushPath, Behind, Attempting, Answered, Settling
<1> QED
  BY <1>4, <1>5 DEF ExitUnknown, EnterUnknown, At

LEMMA KillGateInv ==
  ASSUME LineInv, NEW w \in Workers, KillGate(w)
  PROVE  LineInv'
<1>1. /\ work[w].pc \in {"kill", "expire"} /\ LTypes /\ killed' \in BOOLEAN
      /\ UNCHANGED <<rvars, outbox, caps, tries, window, remembers, sent, faults>>
  BY DEF LineInv, KillGate, At
<1>2. work[w].d \in Deliveries
  BY <1>1 DEF LTypes
<1>3. SameAttempts(work[w].d)
  BY <1>1, <1>2, SameCaps
<1>4. CASE work[w].pc = "kill" /\ Go(w, "outbox")
  BY <1>1, <1>2, <1>3, <1>4, UnitGo
     DEF Pcs, Early, PushPath, Behind, Attempting, Answered, Settling
<1>5. CASE work[w].pc = "expire" /\ Go(w, "expired")
  BY <1>1, <1>2, <1>3, <1>5, UnitGo
     DEF Pcs, Early, PushPath, Behind, Attempting, Answered, Settling
<1> QED
  BY <1>4, <1>5 DEF KillGate, At

LEMMA ReserveAttemptInv ==
  ASSUME LineInv, NEW w \in Workers, ReserveAttempt(w)
  PROVE  LineInv'
<1> DEFINE d == work[w].d
           used == caps[d].attempts
           next == IF work[w].entry = "QUEUED" THEN "begin" ELSE "push"
<1>1. /\ work[w].pc = "cap" /\ d \in Deliveries /\ LTypes /\ caps[d] \in Units
      /\ work[w] \in Work /\ WorkerInv(w) /\ DeliveryInv(d)
      /\ UNCHANGED <<rvars, outbox, tries, window, remembers, sent, faults>>
  BY DEF LineInv, LTypes, ReserveAttempt, At
<1>2. killed' \in BOOLEAN /\ work[w].pc \notin Early
  BY <1>1 DEF ReserveAttempt, LTypes, Early
<1>3. CASE Done(w) /\ caps' = caps
  BY <1>1, <1>2, <1>3, SameCaps, UnitDone
<1>4. ASSUME NEW u \in Units, caps' = [caps EXCEPT ![d] = u], used \subseteq u.attempts,
             AttemptNo(w) \in u.attempts, IsFiniteSet(u.attempts),
             Cardinality(u.attempts) <= MaxAttempts, Go(w, next)
      PROVE  LineInv'
  <2>1. next \in {"begin", "push"}
    OBVIOUS
  <2>2. next = "push" => Past(d)
    BY <1>1 DEF WorkerInv, PushPath
  <2> HIDE DEF next
  <2>3. PICK b \in Work :
           /\ work' = [work EXCEPT ![w] = b]
           /\ b.pc = next /\ b.d = work[w].d /\ b.entry = work[w].entry /\ b.no = work[w].no
           /\ b.code = work[w].code /\ b.fresh = work[w].fresh /\ b.granted = work[w].granted
    BY <1>1, <1>4, <2>1, GoEffect DEF Pcs
  <2>4. work'[w] = b /\ caps'[d] = u
    BY <1>1, <1>4, <2>3 DEF LTypes
  <2>5. AttemptNo(w)' = AttemptNo(w)
    BY <2>3, <2>4 DEF AttemptNo, First
  <2>6. WorkerInv(w)'
    BY <1>1, <1>4, <2>1, <2>2, <2>3, <2>4, <2>5
       DEF WorkerInv, Early, PushPath, Behind, Attempting, Answered, Settling, Past
  <2> QED
    BY <1>1, <1>2, <1>4, <2>3, <2>6, CapStep
<1>5. CASE AttemptNo(w) \in used /\ Go(w, next) /\ caps' = caps
  <2>1. caps' = [caps EXCEPT ![d] = caps[d]]
    BY <1>1, <1>5 DEF LTypes
  <2> QED
    BY <1>1, <1>4, <1>5, <2>1 DEF DeliveryInv
<1>6. CASE /\ Cardinality(used) < MaxAttempts /\ AttemptNo(w) \notin used
           /\ caps' = [caps EXCEPT ![d].attempts = @ \cup {AttemptNo(w)}]
           /\ Go(w, next)
  <2> DEFINE more == used \cup {AttemptNo(w)}
             u == [caps[d] EXCEPT !.attempts = more]
  <2>1. AttemptNo(w) \in Nat /\ used \in SUBSET Nat
    BY <1>1 DEF AttemptNo, First, Work, Units
  <2>2. more \in SUBSET Nat /\ used \subseteq more /\ AttemptNo(w) \in more
    BY <2>1
  <2>3. caps' = [caps EXCEPT ![d] = u]
    BY <1>6
  <2>4. IsFiniteSet(more) /\ Cardinality(more) = Cardinality(used) + 1
    BY <1>1, <1>6, FS_AddElement DEF DeliveryInv
  <2>5. Cardinality(used) \in Nat /\ MaxAttempts \in Nat
    BY <1>1, FS_CardinalityType, LineAssumption DEF DeliveryInv
  <2>6. Cardinality(more) <= MaxAttempts
    BY <1>6, <2>4, <2>5
  <2> HIDE DEF more
  <2>7. u \in Units /\ u.attempts = more
    BY <1>1, <2>2 DEF Units
  <2> HIDE DEF u
  <2> QED
    BY <1>4, <1>6, <2>2, <2>3, <2>4, <2>6, <2>7
<1> QED
  BY <1>3, <1>5, <1>6 DEF ReserveAttempt

-----------------------------------------------------------------------------
(* The request, its receipt, and the retry window *)

LEMMA PushInv ==
  ASSUME LineInv, NEW w \in Workers, NEW code \in Codes, Push(w, code)
  PROVE  LineInv'
<1>d. work[w].d \in Deliveries
  BY DEF LineInv, LTypes, Push, At
<1>0. PICK d \in Deliveries : d = work[w].d
  BY <1>d
<1> DEFINE b == [work[w] EXCEPT !.pc = "record", !.code = code]
<1>1. /\ work[w].pc = "push" /\ LTypes
      /\ work[w] \in Work /\ WorkerInv(w) /\ DeliveryInv(d) /\ sent[d] \in Nat
      /\ UNCHANGED <<rvars, outbox, caps, killed, tries, window, faults>>
  BY <1>0 DEF LineInv, LTypes, Push, At
<1>2. work' = [work EXCEPT ![w] = b]
  BY DEF Push
<1>3. b \in Work /\ b.pc = "record" /\ b.code = code /\ b.d = d /\ b.no = work[w].no
  BY <1>0, <1>1 DEF Work, Pcs
<1> HIDE DEF b
<1>4. work'[w] = b
  BY <1>1, <1>2 DEF LTypes
<1>5. /\ sent' \in [Deliveries -> Nat] /\ remembers' \in [Deliveries -> BOOLEAN]
      /\ \A e \in Deliveries \ {d} : sent'[e] = sent[e] /\ remembers'[e] = remembers[e]
      /\ sent[d] <= sent'[d]
      /\ remembers'[d] => sent'[d] > 0
      /\ Accepted(code) => sent'[d] > 0
  <2>1. CASE /\ sent' = [sent EXCEPT ![d] = @ + 1]
             /\ remembers' = [remembers EXCEPT ![d] = TRUE]
    <3>1. sent'[d] = sent[d] + 1
      BY <1>1, <2>1 DEF LTypes
    <3>0. sent[d] + 1 \in Nat
      BY <1>1
    <3>2. /\ sent' \in [Deliveries -> Nat] /\ remembers' \in [Deliveries -> BOOLEAN]
          /\ \A e \in Deliveries \ {d} : sent'[e] = sent[e] /\ remembers'[e] = remembers[e]
      BY <1>1, <2>1, <3>0 DEF LTypes
    <3> QED
      BY <1>1, <3>1, <3>2
  <2>2. CASE code # "ok" /\ UNCHANGED <<sent, remembers>>
    <3>1. code = "replay" => remembers[d]
      BY <1>0 DEF Push
    <3> QED
      BY <1>1, <2>2, <3>1 DEF LTypes, Accepted, DeliveryInv
  <2> QED
    BY <1>0, <2>1, <2>2 DEF Push
<1>6. sent'[d] \in Nat /\ sent'[d] > 0 => Past(d)
  BY <1>0, <1>1, <1>5 DEF WorkerInv, Behind
<1>7. Past(d)
  BY <1>0, <1>1 DEF WorkerInv, Behind
<1>8. Tables'
  BY <1>1, <1>5 DEF LTypes, Tables
<1>9. rows' = rows /\ overtaken' = overtaken
  BY <1>1 DEF rvars
<1>10. Elsewhere(d)
  BY <1>1, <1>5, <1>9 DEF Elsewhere, Same
<1>11. IInv' /\ ClockInv' /\ BeginReceipts'
  BY <1>1, NextInv, GovernanceKeeps DEF LineInv
<1>12. Len(tries[d]) \in Nat
  BY <1>1 DEF LTypes
<1>13. Forward(d)
  BY <1>1, <1>5, <1>9, <1>12 DEF Forward, Past
<1>14. sent[d] > 0 => sent'[d] > 0
  BY <1>1, <1>5
<1>15. DeliveryInv(d)'
  <2> SUFFICES /\ outbox[d].state = "NONE" <=> outbox[d].key = None
               /\ Past(d) => Begun(d)
               /\ tries[d] # <<>> => Past(d)
               /\ window[d] # "none" <=> tries[d] # <<>>
               /\ remembers'[d] => sent'[d] > 0
               /\ rows[ReservationOf[d]].state = "CONFIRMED" => sent'[d] > 0
               /\ outbox[d].outcome = "PROVIDER_ACCEPTED" => sent'[d] > 0
               /\ Started(rows[ReservationOf[d]]) /\ rows[ReservationOf[d]].state = "RELEASED"
                    => Excused(d)
               /\ DOMAIN tries[d] \subseteq caps[d].attempts
               /\ IsFiniteSet(caps[d].attempts) /\ Cardinality(caps[d].attempts) <= MaxAttempts
    BY <1>1, <1>3, <1>4, <1>7, <1>9 DEF DeliveryInv, Past, Begun, Refused, Excused
  <2> QED
    BY <1>1, <1>5, <1>14 DEF DeliveryInv
<1>16. AttemptNo(w)' = AttemptNo(w)
  BY <1>3, <1>4 DEF AttemptNo, First
<1>17. WorkerInv(w)'
  BY <1>0, <1>1, <1>3, <1>4, <1>5, <1>7, <1>16
     DEF WorkerInv, Early, PushPath, Behind, Attempting, Answered, Settling, Past
<1> QED
  BY <1>1, <1>2, <1>3, <1>8, <1>10, <1>11, <1>13, <1>15, <1>17, Lift

LEMMA RecordAttemptInv ==
  ASSUME LineInv, NEW w \in Workers, RecordAttempt(w)
  PROVE  LineInv'
<1>d. work[w].d \in Deliveries
  BY DEF LineInv, LTypes, RecordAttempt, At
<1>0. PICK d \in Deliveries, code \in Codes \cup {None} :
        d = work[w].d /\ code = work[w].code
  BY <1>d DEF LineInv, LTypes, Work
<1>1. /\ work[w].pc = "record" /\ LTypes
      /\ work[w] \in Work /\ WorkerInv(w) /\ DeliveryInv(d) /\ tries[d] \in Seq(Codes)
      /\ UNCHANGED <<rvars, outbox, caps, killed, remembers, sent, faults>>
  BY <1>0 DEF LineInv, LTypes, RecordAttempt, At
<1>2. code \in Codes /\ Past(d) /\ AttemptNo(w) \in caps[d].attempts
        /\ (Accepted(code) => sent[d] > 0) /\ AttemptNo(w) <= Len(tries[d]) + 1
        /\ outbox[d].state # "NONE"
  BY <1>0, <1>1 DEF WorkerInv, Answered, Behind, Attempting, Early
<1>3. CASE UNCHANGED <<tries, window>> /\ Done(w)
  BY <1>1, <1>3, Ends DEF LTypes
<1>4. CASE /\ AttemptNo(w) = Len(tries[d]) + 1
           /\ tries' = [tries EXCEPT ![d] = Append(@, code)]
           /\ window' = [window EXCEPT ![d] = IF @ = "none" THEN "open" ELSE @]
           /\ Go(w, AfterRecord(code))
  <2>1. AfterRecord(code) \in {"confirm", "settle", "park"}
    BY DEF AfterRecord
  <2>2. PICK b \in Work :
           /\ work' = [work EXCEPT ![w] = b]
           /\ b.pc = AfterRecord(code)
           /\ b.d = work[w].d /\ b.entry = work[w].entry /\ b.no = work[w].no
           /\ b.code = work[w].code /\ b.fresh = work[w].fresh /\ b.granted = work[w].granted
    BY <1>1, <1>4, <2>1, GoEffect DEF Pcs
  <2>3. work'[w] = b /\ b.d = d /\ b.code = code
    BY <1>0, <1>1, <2>2 DEF LTypes
  <2>4. tries'[d] = Append(tries[d], code) /\ tries' \in [Deliveries -> Seq(Codes)]
          /\ \A e \in Deliveries \ {d} : tries'[e] = tries[e]
    BY <1>1, <1>2, <1>4 DEF LTypes
  <2>5. /\ window'[d] # "none" /\ window' \in [Deliveries -> {"none", "open", "closed"}]
        /\ window[d] # "closed" => window'[d] # "closed"
        /\ \A e \in Deliveries \ {d} : window'[e] = window[e]
    BY <1>1, <1>4 DEF LTypes
  <2>6. /\ Len(tries[d]) \in Nat /\ Len(tries'[d]) = Len(tries[d]) + 1
        /\ tries'[d] # <<>> /\ tries'[d][Len(tries[d]) + 1] = code
        /\ DOMAIN tries'[d] = DOMAIN tries[d] \cup {Len(tries[d]) + 1}
        /\ \A i \in DOMAIN tries[d] : tries'[d][i] = tries[d][i]
    BY <1>1, <1>2, <2>4
  <2>7. Tables'
    BY <1>1, <2>4, <2>5 DEF LTypes, Tables
  <2>8. rows' = rows /\ overtaken' = overtaken /\ sent[d] \in Nat
    BY <1>1 DEF rvars, LTypes
  <2>9. Elsewhere(d)
    BY <1>1, <2>4, <2>5, <2>8 DEF Elsewhere, Same
  <2>10. IInv' /\ ClockInv' /\ BeginReceipts'
    BY <1>1, NextInv, GovernanceKeeps DEF LineInv
  <2>11. Forward(d)
    BY <1>1, <2>5, <2>6, <2>8 DEF Forward, Past
  <2>12. Refused(d) => Refused(b.d)'
    BY <2>3, <2>6 DEF Refused
  <2>13. Rejected(code) => Refused(b.d)'
    BY <2>3, <2>6 DEF Refused
  <2>14. DOMAIN tries'[d] \subseteq caps[d].attempts
    BY <1>1, <1>2, <1>4, <2>6 DEF DeliveryInv
  <2>15. DeliveryInv(d)'
    <3> SUFFICES /\ outbox[d].state = "NONE" <=> outbox[d].key = None
                 /\ Past(d) /\ Begun(d)
                 /\ window'[d] # "none" /\ tries'[d] # <<>>
                 /\ remembers[d] => sent[d] > 0
                 /\ rows[ReservationOf[d]].state = "CONFIRMED" => sent[d] > 0
                 /\ outbox[d].outcome = "PROVIDER_ACCEPTED" => sent[d] > 0
                 /\ Started(rows[ReservationOf[d]])
                      /\ rows[ReservationOf[d]].state = "RELEASED" => Excused(b.d)'
                 /\ DOMAIN tries'[d] \subseteq caps[d].attempts
                 /\ IsFiniteSet(caps[d].attempts)
                 /\ Cardinality(caps[d].attempts) <= MaxAttempts
      BY <1>1, <2>3, <2>8 DEF DeliveryInv, Past, Begun, Refused, Excused
    <3>1. Excused(d) => Excused(b.d)'
      BY <2>3, <2>8, <2>12 DEF Excused
    <3> QED
      BY <1>1, <1>2, <2>5, <2>6, <2>14, <3>1 DEF DeliveryInv
  <2>16. AttemptNo(w)' = AttemptNo(w)
    BY <2>2, <2>3 DEF AttemptNo, First
  <2>17. AttemptNo(w)' <= Len(tries'[d]) + 1
    BY <1>4, <2>6, <2>16
  <2>18. /\ b.pc = "confirm" => Accepted(code)
         /\ b.pc \in {"confirm", "settle"} => Accepted(code) \/ Rejected(code)
    BY <2>2 DEF AfterRecord
  <2>19. Past(b.d)'
    BY <1>1, <1>2, <2>3 DEF Past
  <2>20. WorkerInv(w)'
    BY <1>0, <1>1, <1>2, <2>1, <2>2, <2>3, <2>13, <2>17, <2>18, <2>19
       DEF WorkerInv, Early, PushPath, Behind, Attempting, Answered, Settling
  <2> QED
    BY <2>2, <2>3, <2>7, <2>9, <2>10, <2>11, <2>15, <2>20, Lift
<1> QED
  BY <1>0, <1>3, <1>4 DEF RecordAttempt

LEMMA WindowLapsesInv ==
  ASSUME LineInv, NEW d \in Deliveries, WindowLapses(d)
  PROVE  LineInv'
<1>1. /\ UNCHANGED <<rvars, outbox, caps, killed, tries, sent, work, faults>>
      /\ \A w \in Workers : work[w].d # d
      /\ remembers' = [remembers EXCEPT ![d] = FALSE]
      /\ window' = [window EXCEPT ![d] = IF @ = "open" THEN "closed" ELSE @]
  BY DEF WindowLapses
<1>2. /\ remembers' \in [Deliveries -> BOOLEAN] /\ remembers'[d] = FALSE
      /\ window' \in [Deliveries -> {"none", "open", "closed"}]
      /\ window[d] = "none" <=> window'[d] = "none"
      /\ \A e \in Deliveries \ {d} : remembers'[e] = remembers[e] /\ window'[e] = window[e]
  BY <1>1 DEF LineInv, LTypes
<1>3. rows' = rows /\ overtaken' = overtaken
  BY <1>1 DEF rvars
<1>4. Tables' /\ LTypes'
  BY <1>1, <1>2 DEF LineInv, LTypes, Tables
<1>5. Elsewhere(d)
  BY <1>1, <1>2, <1>3 DEF Elsewhere, Same
<1>6. IInv' /\ ClockInv' /\ BeginReceipts'
  BY <1>1, NextInv, GovernanceKeeps DEF LineInv
<1>7. DeliveryInv(d)'
  BY <1>1, <1>2, <1>3 DEF LineInv, DeliveryInv, Past, Begun, Refused, Excused
<1>8. ASSUME NEW e \in Deliveries PROVE DeliveryInv(e)'
  BY <1>5, <1>7, SameDelivery DEF Elsewhere, LineInv
<1>9. ASSUME NEW v \in Workers, work'[v].pc # "idle" PROVE WorkerInv(v)'
  <2>1. work'[v] = work[v] /\ work[v].pc # "idle" /\ WorkerInv(v) /\ work[v].d \in Deliveries
    BY <1>1, <1>9 DEF LineInv, LTypes
  <2>2. Forward(work[v].d)
    BY <1>1, <1>5, <2>1, SameForward DEF Elsewhere, LineInv
  <2> QED
    BY <1>4, <2>1, <2>2, ForwardWorker DEF LineInv
<1> QED
  BY <1>4, <1>6, <1>8, <1>9 DEF LineInv

-----------------------------------------------------------------------------
(* Calls to contact governance *)

\* A step that is a command on the reservation of its delivery.
LEMMA RowsStep ==
  ASSUME LineInv, NEW w \in Workers, NEW d \in Deliveries, NEW b \in Work,
         work' = [work EXCEPT ![w] = b], b.pc # "idle" => b.d = d,
         [Next]_rvars,
         UNCHANGED <<outbox, caps, killed, tries, window, remembers, sent, faults>>,
         \A o \in Reservations \ {ReservationOf[d]} : rows'[o] = rows[o],
         Started(rows[ReservationOf[d]]) =>
           /\ Started(rows'[ReservationOf[d]])
           /\ rows'[ReservationOf[d]].key = rows[ReservationOf[d]].key,
         rows'[ReservationOf[d]].state = "CONFIRMED" => sent[d] > 0,
         Started(rows'[ReservationOf[d]]) /\ rows'[ReservationOf[d]].state = "RELEASED"
           => Excused(d)',
         b.pc # "idle" => WorkerInv(w)'
  PROVE  LineInv'
<1>1. Tables'
  BY DEF LineInv, LTypes, Tables
<1>2. IInv' /\ ClockInv' /\ BeginReceipts'
  BY NextInv, GovernanceKeeps DEF LineInv
<1>3. Elsewhere(d)
  <2> SUFFICES ASSUME NEW e \in Deliveries \ {d} PROVE Same(e)
    BY DEF Elsewhere
  <2>1. ReservationOf[e] \in Reservations \ {ReservationOf[d]}
    BY LineAssumption
  <2> QED
    BY <2>1, OvertakenGrows DEF Same
<1>4. sent[d] \in Nat /\ Len(tries[d]) \in Nat
  BY DEF LineInv, LTypes
<1>5. Forward(d)
  BY <1>4 DEF Forward, Past
<1>6. DeliveryInv(d)
  BY DEF LineInv
<1>7. DeliveryInv(d)'
  BY <1>6 DEF DeliveryInv, Past, Begun
<1> QED
  BY <1>1, <1>2, <1>3, <1>5, <1>7, Lift

\* What a call knows when it goes on after a command on its reservation.
LEMMA RowsGo ==
  ASSUME LineInv, NEW w \in Workers, NEW d \in Deliveries, d = work[w].d,
         work[w].pc # "idle", NEW pc \in Pcs, Go(w, pc),
         [Next]_rvars,
         UNCHANGED <<outbox, caps, killed, tries, window, remembers, sent, faults>>,
         \A o \in Reservations \ {ReservationOf[d]} : rows'[o] = rows[o],
         Started(rows[ReservationOf[d]]) =>
           /\ Started(rows'[ReservationOf[d]])
           /\ rows'[ReservationOf[d]].key = rows[ReservationOf[d]].key,
         rows'[ReservationOf[d]].state = "CONFIRMED" => sent[d] > 0,
         Started(rows'[ReservationOf[d]]) /\ rows'[ReservationOf[d]].state = "RELEASED"
           => Excused(d)',
         pc \notin Early => work[w].pc \notin Early,
         pc \in PushPath \cup {"history"} => work[w].pc \in PushPath,
         pc = "submitting" =>
           /\ Started(rows'[ReservationOf[d]])
           /\ rows'[ReservationOf[d]].key = outbox[d].key,
         pc \in Behind => work[w].pc \in Behind,
         pc \in Attempting => work[w].pc \in Attempting,
         pc \in Answered => work[w].pc \in Answered,
         pc \in {"confirm", "submitted", "accepted"} => work[w].pc = "confirm",
         pc \in Settling => work[w].pc \in Settling
  PROVE  LineInv'
<1>1. WorkerInv(w) /\ LTypes
  BY DEF LineInv
<1>2. PICK b \in Work :
           /\ work' = [work EXCEPT ![w] = b]
           /\ b.pc = pc /\ b.d = work[w].d /\ b.entry = work[w].entry /\ b.no = work[w].no
           /\ b.code = work[w].code /\ b.fresh = work[w].fresh /\ b.granted = work[w].granted
  BY <1>1, GoEffect
<1>3. work'[w] = b
  BY <1>1, <1>2 DEF LTypes
<1>4. AttemptNo(w)' = AttemptNo(w)
  BY <1>2, <1>3 DEF AttemptNo, First
<1>5. Past(d) => Past(b.d)'
  BY <1>2 DEF Past
<1>6. Refused(d) => Refused(b.d)'
  BY <1>2 DEF Refused
<1>7. pc = "submitting" => Begun(b.d)'
  BY <1>2 DEF Begun
<1>8. WorkerInv(w)'
  BY <1>1, <1>2, <1>3, <1>4, <1>5, <1>6, <1>7 DEF WorkerInv
<1> QED
  BY <1>2, <1>8, RowsStep

\* A command that was executed before changes nothing.
LEMMA ReplayedRows ==
  ASSUME NEW op, NEW key, NEW r, NEW input, Replayed(op, key, r, input)
  PROVE  UNCHANGED rvars /\ rows' = rows /\ receipts' = receipts
BY DEF Replayed, rvars

\* The reservation of a delivery.
LEMMA ItsRow ==
  ASSUME LineInv, NEW d \in Deliveries
  PROVE  /\ ReservationOf[d] \in Reservations
         /\ rows[ReservationOf[d]] \in Row /\ Shape(rows[ReservationOf[d]])
         /\ rows[ReservationOf[d]].expiresAt \in Time
<1>1. ReservationOf[d] \in Reservations
  BY LineAssumption
<1>2. rows[ReservationOf[d]] \in Row /\ Shape(rows[ReservationOf[d]])
  BY <1>1, RowBegun DEF LineInv
<1>3. rows[ReservationOf[d]].expiresAt \in Nat /\ MaxTime + TTL \in Nat
  BY <1>2, ConstantsAssumption DEF Row
<1> QED
  BY <1>1, <1>2, <1>3 DEF LineInv, ClockInv, Time

LEMMA ClaimCallInv ==
  ASSUME LineInv, NEW w \in Workers, ClaimCall(w)
  PROVE  LineInv' /\ [Next]_rvars
<1>0. /\ work[w].pc = "claim" /\ work[w].d \in Deliveries /\ Go(w, "create")
      /\ UNCHANGED <<outbox, caps, killed, tries, window, remembers, sent, faults>>
  BY DEF ClaimCall, LineInv, LTypes, At, lvars
<1>1. PICK d \in Deliveries : d = work[w].d
  BY <1>0
<1>2. PICK r \in Reservations : r = ReservationOf[d]
  BY <1>1, ItsRow
<1>3. DeliveryInv(d) /\ rows[r] \in Row /\ Shape(rows[r]) /\ rows[r].expiresAt \in Time
  BY <1>2, ItsRow DEF LineInv
<1>4. /\ [Next]_rvars
      /\ \A o \in Reservations \ {r} : rows'[o] = rows[o]
      /\ Started(rows'[r]) <=> Started(rows[r])
      /\ rows'[r].key = rows[r].key /\ rows'[r].state = rows[r].state
  <2>1. CASE Claim(r, d, rows[r].expiresAt)
    <3> DEFINE until == rows[r].expiresAt
               row == [rows[r] EXCEPT !.delivery = d, !.version = 1, !.lease = until,
                                      !.status = "CLAIMED"]
    <3>1. Commit("CLAIM", r, r, <<d, until>>, row)
      BY <2>1 DEF Claim
    <3>2. row.key = rows[r].key /\ row.state = rows[r].state /\ row.startedAt = rows[r].startedAt
      BY <1>3 DEF Row
    <3>3. rows'[r] = row /\ \A o \in Reservations \ {r} : rows'[o] = rows[o]
      BY <3>1, CommitEffect DEF LineInv, IInv, TypeOK
    <3>4. Next
      BY <2>1, <1>3 DEF Next
    <3> QED
      BY <3>2, <3>3, <3>4 DEF Started
  <2>2. CASE Replayed("CLAIM", r, r, <<d, rows[r].expiresAt>>)
    BY <2>2, ReplayedRows
  <2> QED
    BY <1>1, <1>2, <2>1, <2>2 DEF ClaimCall
<1>5. /\ rows[r].state = "CONFIRMED" => sent[d] > 0
      /\ Started(rows[r]) /\ rows[r].state = "RELEASED" => Excused(d)'
  BY <1>0, <1>2, <1>3, <1>4, StillExcused DEF DeliveryInv
<1>6. LineInv'
  BY <1>0, <1>1, <1>2, <1>4, <1>5, RowsGo
     DEF Pcs, Early, PushPath, Behind, Attempting, Answered, Settling
<1> QED
  BY <1>4, <1>6

LEMMA BeginCallInv ==
  ASSUME LineInv, NEW w \in Workers, BeginCall(w)
  PROVE  LineInv' /\ [Next]_rvars
<1>0. /\ work[w].pc = "begin" /\ work[w].d \in Deliveries /\ Go(w, "submitting")
      /\ UNCHANGED <<outbox, caps, killed, tries, window, remembers, sent, faults>>
  BY DEF BeginCall, LineInv, LTypes, At, lvars
<1>1. PICK d \in Deliveries : d = work[w].d
  BY <1>0
<1>2. PICK r \in Reservations : r = ReservationOf[d]
  BY <1>1, ItsRow
<1>3. DeliveryInv(d) /\ rows[r] \in Row /\ Shape(rows[r]) /\ WorkerInv(w)
  BY <1>0, <1>2, ItsRow DEF LineInv
<1> DEFINE k == outbox[d].key
           v == outbox[d].version
<1>4. k \in Keys
  BY <1>0, <1>1, <1>3 DEF DeliveryInv, WorkerInv, Early, LineInv, LTypes, Entry
<1>5. /\ [Next]_rvars
      /\ \A o \in Reservations \ {r} : rows'[o] = rows[o]
      /\ Started(rows'[r]) /\ rows'[r].key = k
      /\ Started(rows[r]) => rows'[r].key = rows[r].key
      /\ rows'[r].state = rows[r].state
      /\ Started(rows[r]) \/ rows'[r].state = "RESERVED" \/ r \in overtaken'
  <2>1. CASE BeginSubmission(r, d, v, k)
    <3> DEFINE row == [rows[r] EXCEPT !.key = k, !.startedAt = Clock(r),
                                      !.status = "UNKNOWN_RECONCILING"]
    <3>1. Commit("BEGIN_SUBMISSION", r, r, <<d, v, k>>, row) /\ HoldsLease(r, d, v)
      BY <2>1 DEF BeginSubmission
    <3>2. row.key = k /\ row.state = rows[r].state /\ row.startedAt = Clock(r)
      BY <1>3 DEF Row
    <3>3. rows'[r] = row /\ \A o \in Reservations \ {r} : rows'[o] = rows[o]
      BY <3>1, CommitEffect DEF LineInv, IInv, TypeOK
    <3>4. rows[r].version = v /\ ~Started(rows[r]) /\ Clock(r) # 0
      BY <3>1, SeenFacts, StartedSeen DEF HoldsLease, Under, LineInv
    <3>5. rows[r].state = "RESERVED" \/ r \in overtaken'
      BY <3>1, Overtaking DEF HoldsLease, Commit, LineInv
    <3>6. BeginSubmission(r, d, rows[r].version, k)
      BY <2>1, <3>4
    <3>7. Next
      BY <3>6, <1>4 DEF Next
    <3> QED
      BY <3>2, <3>3, <3>4, <3>5, <3>7 DEF Started
  <2>2. CASE Replayed("BEGIN_SUBMISSION", r, r, <<d, v, k>>)
    <3>1. PICK m \in receipts :
            m.op = "BEGIN_SUBMISSION" /\ m.reservation = r /\ m.input = <<d, v, k>>
      BY <2>2 DEF Replayed
    <3>2. m.input[3] = k
      BY <3>1
    <3>3. rows[r].key = k
      BY <3>1, <3>2 DEF LineInv, BeginReceipts
    <3>4. Started(rows[r])
      BY <3>1 DEF LineInv, IInv, ReplayTruthful, TruthfulOf
    <3> QED
      BY <2>2, <3>3, <3>4, ReplayedRows
  <2> QED
    BY <1>1, <1>2, <2>1, <2>2 DEF BeginCall
<1>6. /\ rows'[r].state = "CONFIRMED" => sent[d] > 0
      /\ Started(rows'[r]) /\ rows'[r].state = "RELEASED" => Excused(d)'
  BY <1>0, <1>2, <1>3, <1>5, StillExcused DEF DeliveryInv, Excused
<1>7. LineInv'
  BY <1>0, <1>1, <1>2, <1>5, <1>6, RowsGo
     DEF Pcs, Early, PushPath, Behind, Attempting, Answered, Settling
<1> QED
  BY <1>5, <1>7

LEMMA ConfirmCallInv ==
  ASSUME LineInv, NEW w \in Workers, ConfirmCall(w)
  PROVE  LineInv' /\ [Next]_rvars
<1>0. /\ work[w].pc = "confirm" /\ work[w].d \in Deliveries /\ Go(w, "submitted")
      /\ UNCHANGED <<outbox, caps, killed, tries, window, remembers, sent, faults>>
  BY DEF ConfirmCall, LineInv, LTypes, At, lvars
<1>1. PICK d \in Deliveries : d = work[w].d
  BY <1>0
<1>2. PICK r \in Reservations : r = ReservationOf[d]
  BY <1>1, ItsRow
<1>3. DeliveryInv(d) /\ rows[r] \in Row /\ Shape(rows[r]) /\ WorkerInv(w)
  BY <1>0, <1>2, ItsRow DEF LineInv
<1> DEFINE k == outbox[d].key
<1>4. k \in Keys /\ sent[d] > 0
  BY <1>0, <1>1, <1>3 DEF DeliveryInv, WorkerInv, Early, Answered, LineInv, LTypes, Entry
<1>5. /\ [Next]_rvars
      /\ \A o \in Reservations \ {r} : rows'[o] = rows[o]
      /\ Started(rows[r]) => Started(rows'[r]) /\ rows'[r].key = rows[r].key
      /\ rows'[r] = rows[r] \/ rows'[r].state = "CONFIRMED"
  <2>1. CASE Confirm(r, d, k)
    <3> DEFINE row == [rows[r] EXCEPT !.state = "CONFIRMED", !.status = "ACCEPTED"]
    <3>1. Commit("CONFIRM", r, r, <<d, k>>, row)
      BY <2>1 DEF Confirm
    <3>2. row.key = rows[r].key /\ row.state = "CONFIRMED" /\ row.startedAt = rows[r].startedAt
      BY <1>3 DEF Row
    <3>3. rows'[r] = row /\ \A o \in Reservations \ {r} : rows'[o] = rows[o]
      BY <3>1, CommitEffect DEF LineInv, IInv, TypeOK
    <3>4. Next
      BY <2>1, <1>4 DEF Next
    <3> QED
      BY <3>2, <3>3, <3>4 DEF Started
  <2>2. CASE Replayed("CONFIRM", r, r, <<d, k>>)
    BY <2>2, ReplayedRows
  <2> QED
    BY <1>1, <1>2, <2>1, <2>2 DEF ConfirmCall
<1>6. Started(rows'[r]) /\ rows'[r].state = "RELEASED" => Excused(d)'
  BY <1>0, <1>2, <1>3, <1>5, StillExcused DEF DeliveryInv
<1>7. LineInv'
  BY <1>0, <1>1, <1>2, <1>4, <1>5, <1>6, RowsGo
     DEF Pcs, Early, PushPath, Behind, Attempting, Answered, Settling
<1> QED
  BY <1>5, <1>7

\* What a settlement, terminal, late or unknown, does to the row.
LEMMA SettleEffect ==
  ASSUME LineInv, NEW r \in Reservations, NEW d \in Deliveries, NEW k \in Keys,
         NEW ref \in Refs, NEW at \in Stamps
  PROVE  /\ \A outcome \in TerminalOutcomes, scope \in Scopes :
              /\ outcome # "PROVIDER_REJECTED" => scope = None
              /\ SettleTerminal(r, d, k, ref, outcome, scope, at)
              => /\ Next
                 /\ rows'[r].key = rows[r].key /\ rows'[r].startedAt = rows[r].startedAt
                 /\ rows'[r].state = NextState(outcome) /\ rows'[r].outcome = outcome
                 /\ rows[r].outcome = None
                 /\ \A o \in Reservations \ {r} : rows'[o] = rows[o]
                 /\ \A m \in receipts' \ receipts :
                      /\ m.op = "SETTLE" /\ m.reservation = r
                      /\ m.input = SettleInput(d, k, outcome, scope, at)
         /\ \A outcome \in TerminalOutcomes, scope \in Scopes :
              /\ outcome # "PROVIDER_REJECTED" => scope = None
              /\ SettleLate(r, d, k, ref, outcome, scope, at)
              => /\ Next /\ rows' = rows
                 /\ Started(rows[r]) /\ Settled(rows[r])
                 /\ \A m \in receipts' \ receipts :
                      /\ m.op = "SETTLE" /\ m.reservation = r
                      /\ m.input = SettleInput(d, k, outcome, scope, at)
         /\ SettleLate(r, d, k, ref, "UNKNOWN_RECONCILING", None, at)
              => /\ Next /\ rows' = rows
                 /\ \A m \in receipts' \ receipts :
                      /\ m.op = "SETTLE" /\ m.reservation = r
                      /\ m.input = SettleInput(d, k, "UNKNOWN_RECONCILING", None, at)
         /\ SettleUnknown(r, d, k, ref, at)
              => /\ Next
                 /\ rows'[r].key = rows[r].key /\ rows'[r].startedAt = rows[r].startedAt
                 /\ rows'[r].state = rows[r].state /\ rows'[r].outcome = rows[r].outcome
                 /\ \A o \in Reservations \ {r} : rows'[o] = rows[o]
                 /\ \A m \in receipts' \ receipts :
                      /\ m.op = "SETTLE" /\ m.reservation = r
                      /\ m.input = SettleInput(d, k, "UNKNOWN_RECONCILING", None, at)
<1>r. rows \in [Reservations -> Row] /\ rows[r] \in Row
  BY DEF LineInv, IInv, TypeOK
<1>1. ASSUME NEW outcome \in TerminalOutcomes, NEW scope \in Scopes,
             outcome # "PROVIDER_REJECTED" => scope = None,
             SettleTerminal(r, d, k, ref, outcome, scope, at)
      PROVE  /\ Next
             /\ rows'[r].key = rows[r].key /\ rows'[r].startedAt = rows[r].startedAt
             /\ rows'[r].state = NextState(outcome) /\ rows'[r].outcome = outcome
             /\ rows[r].outcome = None
             /\ \A o \in Reservations \ {r} : rows'[o] = rows[o]
             /\ \A m \in receipts' \ receipts :
                  /\ m.op = "SETTLE" /\ m.reservation = r
                  /\ m.input = SettleInput(d, k, outcome, scope, at)
  <2> DEFINE s == NextState(outcome)
             row == [rows[r] EXCEPT !.state = s, !.status = "SETTLED",
                                    !.outcome = outcome, !.ref = ref]
             input == SettleInput(d, k, outcome, scope, at)
  <2>1. Commit("SETTLE", ref, r, input, row) /\ ~Settled(rows[r])
    BY <1>1 DEF SettleTerminal
  <2> HIDE DEF s, input
  <2>2. row.key = rows[r].key /\ row.startedAt = rows[r].startedAt
          /\ row.state = s /\ row.outcome = outcome
    BY <1>r DEF Row
  <2> HIDE DEF row
  <2>3. /\ rows'[r] = row /\ \A o \in Reservations \ {r} : rows'[o] = rows[o]
        /\ \A m \in receipts' \ receipts :
             m.op = "SETTLE" /\ m.reservation = r /\ m.input = input
    BY <2>1, <1>r, CommitEffect
  <2>4. Next
    BY <1>1 DEF Next
  <2> QED
    BY <2>1, <2>2, <2>3, <2>4 DEF s, input, Settled
<1>2. ASSUME NEW outcome, NEW scope, SettleLate(r, d, k, ref, outcome, scope, at)
      PROVE  /\ rows' = rows
             /\ Started(rows[r])
             /\ outcome # "UNKNOWN_RECONCILING" => Settled(rows[r])
             /\ \A m \in receipts' \ receipts :
                  /\ m.op = "SETTLE" /\ m.reservation = r
                  /\ m.input = SettleInput(d, k, outcome, scope, at)
  <2> DEFINE input == SettleInput(d, k, outcome, scope, at)
  <2>1. Commit("SETTLE", ref, r, input, rows[r]) /\ Started(rows[r])
    BY <1>2 DEF SettleLate, ProviderBound
  <2> HIDE DEF input
  <2>2. \A m \in receipts' \ receipts :
          m.op = "SETTLE" /\ m.reservation = r /\ m.input = input
    BY <2>1, <1>r, CommitEffect
  <2>3. rows' = rows
    BY <2>1, <1>r DEF Commit, Update
  <2>4. outcome # "UNKNOWN_RECONCILING" => Settled(rows[r])
    BY <1>2 DEF SettleLate
  <2> QED
    BY <2>1, <2>2, <2>3, <2>4 DEF input
<1>3. ASSUME NEW outcome \in TerminalOutcomes, NEW scope \in Scopes,
             outcome # "PROVIDER_REJECTED" => scope = None,
             SettleLate(r, d, k, ref, outcome, scope, at)
      PROVE  Next /\ outcome # "UNKNOWN_RECONCILING"
  BY <1>3 DEF Next, TerminalOutcomes
<1>4. ASSUME SettleLate(r, d, k, ref, "UNKNOWN_RECONCILING", None, at) PROVE Next
  BY <1>4 DEF Next
<1>5. ASSUME SettleUnknown(r, d, k, ref, at)
      PROVE  /\ Next
             /\ rows'[r].key = rows[r].key /\ rows'[r].startedAt = rows[r].startedAt
             /\ rows'[r].state = rows[r].state /\ rows'[r].outcome = rows[r].outcome
             /\ \A o \in Reservations \ {r} : rows'[o] = rows[o]
             /\ \A m \in receipts' \ receipts :
                  /\ m.op = "SETTLE" /\ m.reservation = r
                  /\ m.input = SettleInput(d, k, "UNKNOWN_RECONCILING", None, at)
  <2> DEFINE row == [rows[r] EXCEPT !.status = "UNKNOWN_RECONCILING"]
             input == SettleInput(d, k, "UNKNOWN_RECONCILING", None, at)
  <2>1. Commit("SETTLE", ref, r, input, row)
    BY <1>5 DEF SettleUnknown
  <2> HIDE DEF input
  <2>2. row.key = rows[r].key /\ row.startedAt = rows[r].startedAt
          /\ row.state = rows[r].state /\ row.outcome = rows[r].outcome
    BY <1>r DEF Row
  <2> HIDE DEF row
  <2>3. /\ rows'[r] = row /\ \A o \in Reservations \ {r} : rows'[o] = rows[o]
        /\ \A m \in receipts' \ receipts :
             m.op = "SETTLE" /\ m.reservation = r /\ m.input = input
    BY <2>1, <1>r, CommitEffect
  <2>4. Next
    BY <1>5 DEF Next
  <2> QED
    BY <2>2, <2>3, <2>4 DEF input
<1> QED
  BY <1>1, <1>2, <1>3, <1>4, <1>5

\* What a call asks governance to settle.
LEMMA SettleArguments ==
  ASSUME NEW c \in Codes
  PROVE  /\ NormalizedOutcome(c) \in {"PROVIDER_ACCEPTED", "PROVIDER_REJECTED"}
         /\ NormalizedOutcome(c) \in TerminalOutcomes /\ RejectionScope(c) \in Scopes
         /\ NormalizedOutcome(c) # "PROVIDER_REJECTED" => RejectionScope(c) = None
         /\ Accepted(c) => NormalizedOutcome(c) = "PROVIDER_ACCEPTED"
         /\ Rejected(c) => NormalizedOutcome(c) = "PROVIDER_REJECTED"
BY DEF NormalizedOutcome, RejectionScope, TerminalOutcomes, Scopes, Codes, Accepted, Rejected

LEMMA NextStates ==
  /\ NextState("PROVIDER_ACCEPTED") = "CONFIRMED"
  /\ NextState("PROVIDER_REJECTED") = "RELEASED"
BY DEF NextState

LEMMA SettleCallInv ==
  ASSUME LineInv, NEW w \in Workers, SettleCall(w)
  PROVE  LineInv' /\ [Next]_rvars
<1>0. /\ work[w].pc = "settle" /\ work[w].d \in Deliveries
      /\ UNCHANGED <<outbox, caps, killed, tries, window, remembers, sent, faults>>
  BY DEF SettleCall, LineInv, LTypes, At, lvars
<1>1. PICK d \in Deliveries, c \in Codes \cup {None} : d = work[w].d /\ c = work[w].code
  BY <1>0 DEF LineInv, LTypes, Work
<1>2. PICK r \in Reservations : r = ReservationOf[d]
  BY <1>1, ItsRow
<1>3. DeliveryInv(d) /\ rows[r] \in Row /\ Shape(rows[r]) /\ WorkerInv(w)
  BY <1>0, <1>2, ItsRow DEF LineInv
<1> DEFINE k == outbox[d].key
           ref == OutcomeRef(d, c)
           o == NormalizedOutcome(c)
           s == RejectionScope(c)
           next == IF c = "denied" THEN "kill" ELSE "outbox"
<1>4. k \in Keys /\ c \in Codes
  BY <1>0, <1>1, <1>3 DEF DeliveryInv, WorkerInv, Early, Answered, LineInv, LTypes, Entry
<1>5. /\ Accepted(c) \/ Rejected(c)
      /\ Accepted(c) => sent[d] > 0
      /\ Rejected(c) => Refused(d)
  BY <1>0, <1>1, <1>3 DEF WorkerInv, Answered, Settling
<1>6. ref \in Refs
  BY <1>4, RefsAssumption
<1>7. Go(w, next) /\ next \in {"kill", "outbox"}
  BY <1>1 DEF SettleCall
<1>8. /\ [Next]_rvars
      /\ \A x \in Reservations \ {r} : rows'[x] = rows[x]
      /\ Started(rows[r]) => Started(rows'[r]) /\ rows'[r].key = rows[r].key
      /\ rows'[r] = rows[r] \/ rows'[r].state = NextState(o)
  <2>0. PICK at \in Stamps :
          \/ SettleTerminal(r, d, k, ref, o, s, at)
          \/ SettleLate(r, d, k, ref, o, s, at)
          \/ Replayed("SETTLE", ref, r, SettleInput(d, k, o, s, at))
    BY <1>1, <1>2 DEF SettleCall
  <2> HIDE DEF k, ref, o, s
  <2>1. o \in TerminalOutcomes /\ s \in Scopes /\ (o # "PROVIDER_REJECTED" => s = None)
    BY <1>4, SettleArguments DEF o, s
  <2>2. CASE SettleTerminal(r, d, k, ref, o, s, at)
    BY <1>4, <1>6, <2>1, <2>2, SettleEffect DEF Started
  <2>3. CASE SettleLate(r, d, k, ref, o, s, at)
    BY <1>4, <1>6, <2>1, <2>3, SettleEffect DEF Started
  <2>4. CASE Replayed("SETTLE", ref, r, SettleInput(d, k, o, s, at))
    BY <2>4, ReplayedRows
  <2> QED
    BY <2>0, <2>2, <2>3, <2>4
<1>9. NextState(o) = IF Accepted(c) THEN "CONFIRMED" ELSE "RELEASED"
  BY NextStates DEF NormalizedOutcome
<1>10. /\ rows'[r].state = "CONFIRMED" => sent[d] > 0
       /\ Started(rows'[r]) /\ rows'[r].state = "RELEASED" => Excused(d)'
  BY <1>0, <1>2, <1>3, <1>5, <1>8, <1>9, StillExcused DEF DeliveryInv, Excused
<1> HIDE DEF next
<1>11. LineInv'
  BY <1>0, <1>1, <1>2, <1>7, <1>8, <1>10, RowsGo
     DEF Pcs, Early, PushPath, Behind, Attempting, Answered, Settling
<1> QED
  BY <1>8, <1>11

LEMMA UnknownCallInv ==
  ASSUME LineInv, NEW w \in Workers, UnknownCall(w)
  PROVE  LineInv' /\ [Next]_rvars
<1>0. /\ work[w].pc = "unknown" /\ work[w].d \in Deliveries /\ Go(w, "reconciling")
      /\ UNCHANGED <<outbox, caps, killed, tries, window, remembers, sent, faults>>
  BY DEF UnknownCall, LineInv, LTypes, At, lvars
<1>1. PICK d \in Deliveries, c \in Codes \cup {None} : d = work[w].d /\ c = work[w].code
  BY <1>0 DEF LineInv, LTypes, Work
<1>2. PICK r \in Reservations : r = ReservationOf[d]
  BY <1>1, ItsRow
<1>3. DeliveryInv(d) /\ rows[r] \in Row /\ Shape(rows[r]) /\ WorkerInv(w)
  BY <1>0, <1>2, ItsRow DEF LineInv
<1> DEFINE k == outbox[d].key
           ref == OutcomeRef(d, c)
<1>4. k \in Keys /\ c \in Codes
  BY <1>0, <1>1, <1>3 DEF DeliveryInv, WorkerInv, Early, Answered, LineInv, LTypes, Entry
<1>5. ref \in Refs
  BY <1>4, RefsAssumption
<1>6. /\ [Next]_rvars
      /\ \A x \in Reservations \ {r} : rows'[x] = rows[x]
      /\ Started(rows'[r]) <=> Started(rows[r])
      /\ rows'[r].key = rows[r].key /\ rows'[r].state = rows[r].state
  <2>0. PICK at \in Stamps :
          \/ SettleUnknown(r, d, k, ref, at)
          \/ SettleLate(r, d, k, ref, "UNKNOWN_RECONCILING", None, at)
          \/ Replayed("SETTLE", ref, r, SettleInput(d, k, "UNKNOWN_RECONCILING", None, at))
    BY <1>1, <1>2 DEF UnknownCall
  <2> HIDE DEF k, ref
  <2>2. CASE SettleUnknown(r, d, k, ref, at)
    BY <1>4, <1>5, <2>2, SettleEffect DEF Started
  <2>3. CASE SettleLate(r, d, k, ref, "UNKNOWN_RECONCILING", None, at)
    BY <1>4, <1>5, <2>3, SettleEffect DEF Started
  <2>4. CASE Replayed("SETTLE", ref, r, SettleInput(d, k, "UNKNOWN_RECONCILING", None, at))
    BY <2>4, ReplayedRows
  <2> QED
    BY <2>0, <2>2, <2>3, <2>4
<1>7. /\ rows[r].state = "CONFIRMED" => sent[d] > 0
      /\ Started(rows[r]) /\ rows[r].state = "RELEASED" => Excused(d)'
  BY <1>0, <1>2, <1>3, <1>6, StillExcused DEF DeliveryInv
<1>8. LineInv'
  BY <1>0, <1>1, <1>2, <1>6, <1>7, RowsGo
     DEF Pcs, Early, PushPath, Behind, Attempting, Answered, Settling
<1> QED
  BY <1>6, <1>8

\* What governance does on its own it does to rows whose submission was not
\* begun.
LEMMA GovernanceRows ==
  ASSUME LineInv, Governance
  PROVE  /\ Next
         /\ \A r \in Reservations :
              \/ rows'[r] = rows[r]
              \/ /\ ~Started(rows[r]) /\ ~Started(rows'[r])
                 /\ rows[r].state \in {"NONE", "RESERVED"} \/ rows'[r].state = rows[r].state
                 /\ rows'[r].state \in {"RESERVED", "RELEASED"}
                 /\ rows'[r].outcome = None
         /\ receipts \subseteq receipts'
         /\ \A m \in receipts' \ receipts : m.op = "RELEASE"
<1>r. rows \in [Reservations -> Row]
  BY DEF LineInv, IInv, TypeOK
<1>1. ASSUME NEW r \in Reservations, NEW c \in Contacts, Reserve(r, c, TRUE)
      PROVE  /\ Next
             /\ \A x \in Reservations :
                  \/ rows'[x] = rows[x]
                  \/ /\ ~Started(rows[x]) /\ ~Started(rows'[x])
                     /\ rows[x].state \in {"NONE", "RESERVED"} \/ rows'[x].state = rows[x].state
                     /\ rows'[x].state \in {"RESERVED", "RELEASED"}
                     /\ rows'[x].outcome = None
             /\ receipts' = receipts
  <2>1. Next
    BY <1>1 DEF Next
  <2>2. ~Started(rows[r]) /\ rows[r].state = "NONE"
    BY <1>1, RowBegun DEF LineInv, Reserve
  <2>3. rows'[r].state = "RESERVED" /\ rows'[r].startedAt = 0 /\ rows'[r].outcome = None
          /\ (\A x \in Reservations \ {r} : rows'[x] = rows[x]) /\ receipts' = receipts
    BY <1>1, <1>r DEF Reserve, NoRow
  <2> QED
    BY <2>1, <2>2, <2>3 DEF Started
<1>2. ASSUME NEW r \in Reservations, NEW reason \in {"CANCELLED_BEFORE_SUBMIT", "LEASE_EXPIRED"},
             Release(r, rows[r].delivery, reason)
      PROVE  /\ Next
             /\ \A x \in Reservations :
                  \/ rows'[x] = rows[x]
                  \/ /\ ~Started(rows[x]) /\ ~Started(rows'[x])
                     /\ rows[x].state \in {"NONE", "RESERVED"} \/ rows'[x].state = rows[x].state
                     /\ rows'[x].state \in {"RESERVED", "RELEASED"}
                     /\ rows'[x].outcome = None
             /\ receipts \subseteq receipts'
             /\ \A m \in receipts' \ receipts : m.op = "RELEASE"
  <2> DEFINE row == [rows[r] EXCEPT !.state = "RELEASED", !.status = "SETTLED"]
             d == rows[r].delivery
  <2>1. rows[r] \in Row /\ Shape(rows[r]) /\ d \in Deliveries \cup {None}
    BY <1>r, RowBegun DEF Row, LineInv
  <2>2. Next
    BY <1>2, <2>1 DEF Next
  <2>3. /\ Commit("RELEASE", r, r, <<d, reason>>, row) /\ ~Started(rows[r])
        /\ rows[r].state \in {"RESERVED", "RELEASED"}
    <3>1. /\ Commit("RELEASE", r, r, <<d, reason>>, row) /\ ~Started(Seen(r))
          /\ Seen(r).state = "RESERVED"
      BY <1>2 DEF Release
    <3>2. Under(Seen(r), rows[r])
      BY SeenFacts DEF LineInv
    <3> QED
      BY <3>1, <3>2 DEF Under, Started
  <2>4. row.state = "RELEASED" /\ row.startedAt = rows[r].startedAt
          /\ row.outcome = rows[r].outcome
    BY <2>1 DEF Row
  <2>5. rows[r].outcome = None
    BY <2>1, <2>3 DEF Shape
  <2> HIDE DEF row
  <2>6. /\ rows'[r] = row /\ \A o \in Reservations \ {r} : rows'[o] = rows[o]
        /\ receipts \subseteq receipts'
        /\ \A m \in receipts' \ receipts : m.op = "RELEASE"
    BY <2>3, <1>r, CommitEffect
  <2> QED
    BY <2>2, <2>3, <2>4, <2>5, <2>6 DEF Started
<1>3. ASSUME NEW c \in Contacts, AdvanceHead(c)
      PROVE  Next /\ rows' = rows /\ receipts' = receipts
  BY <1>3 DEF Next, AdvanceHead
<1>4. ASSUME Tick PROVE Next /\ rows' = rows /\ receipts' = receipts
  BY <1>4 DEF Next, Tick, tables
<1>5. ASSUME NEW r \in Reservations, Sweep(r)
      PROVE  /\ Next
             /\ \A x \in Reservations :
                  \/ rows'[x] = rows[x]
                  \/ /\ ~Started(rows[x]) /\ ~Started(rows'[x])
                     /\ rows[x].state \in {"NONE", "RESERVED"} \/ rows'[x].state = rows[x].state
                     /\ rows'[x].state \in {"RESERVED", "RELEASED"}
                     /\ rows'[x].outcome = None
             /\ receipts' = receipts
  <2> DEFINE row == [rows[r] EXCEPT !.state = "RELEASED", !.status = "SETTLED"]
  <2>1. /\ Next /\ rows' = [rows EXCEPT ![r] = row] /\ Sweepable(rows[r])
        /\ receipts' = receipts
    BY <1>5 DEF Next, Sweep
  <2>2. rows[r] \in Row /\ Shape(rows[r])
    BY RowBegun DEF LineInv
  <2>3. row.state = "RELEASED" /\ row.startedAt = rows[r].startedAt
          /\ row.outcome = rows[r].outcome
    BY <2>2 DEF Row
  <2>4. rows[r].outcome = None /\ ~Started(rows[r]) /\ rows[r].state = "RESERVED"
    BY <2>1, <2>2 DEF Sweepable, Shape
  <2> HIDE DEF row
  <2>5. rows'[r] = row /\ \A o \in Reservations \ {r} : rows'[o] = rows[o]
    BY <2>1, <1>r
  <2> QED
    BY <2>1, <2>3, <2>4, <2>5 DEF Started
<1>6. ASSUME NEW r \in Reservations, ReadRow(r) \/ Rollback(r)
      PROVE  Next /\ rows' = rows /\ receipts' = receipts
  BY <1>6 DEF Next, ReadRow, Rollback, tables
<1> QED
  BY <1>1, <1>2, <1>3, <1>4, <1>5, <1>6 DEF Governance

LEMMA GovernanceInv ==
  ASSUME LineInv, Governance
  PROVE  LineInv' /\ Next
<1>0. UNCHANGED <<outbox, caps, killed, tries, window, remembers, sent, work, faults>>
  BY DEF Governance, lvars
<1>1. Tables' /\ LTypes'
  BY <1>0 DEF LineInv, LTypes, Tables
<1>2. Next /\ IInv' /\ ClockInv' /\ BeginReceipts'
  BY GovernanceRows, NextInv, GovernanceKeeps DEF LineInv
<1>3. ASSUME NEW d \in Deliveries PROVE DeliveryInv(d)' /\ Forward(d)
  <2>1. PICK r \in Reservations : r = ReservationOf[d]
    BY LineAssumption
  <2>2. \/ rows'[r] = rows[r]
        \/ /\ ~Started(rows[r]) /\ ~Started(rows'[r])
           /\ rows'[r].state \in {"RESERVED", "RELEASED"}
    BY GovernanceRows
  <2>3. sent[d] \in Nat /\ Len(tries[d]) \in Nat /\ DeliveryInv(d)
    BY DEF LineInv, LTypes
  <2>4. Forward(d)
    BY <1>0, <2>1, <2>2, <2>3 DEF Forward, Past
  <2>5. DeliveryInv(d)'
    <3>1. Excused(d) => Excused(d)'
      BY <1>0, <1>2, StillExcused
    <3> QED
      BY <1>0, <2>1, <2>2, <2>3, <3>1 DEF DeliveryInv, Past, Begun
  <2> QED
    BY <2>4, <2>5
<1>4. ASSUME NEW v \in Workers, work'[v].pc # "idle" PROVE WorkerInv(v)'
  <2>1. work'[v] = work[v] /\ work[v].pc # "idle" /\ WorkerInv(v) /\ work[v].d \in Deliveries
    BY <1>0, <1>4 DEF LineInv, LTypes
  <2>2. Forward(work[v].d)
    BY <1>3, <2>1
  <2> QED
    BY <1>1, <2>1, <2>2, ForwardWorker DEF LineInv
<1> QED
  BY <1>1, <1>2, <1>3, <1>4 DEF LineInv

-----------------------------------------------------------------------------
(* The invariant is inductive, and a step of a call is a step of governance *)

LEMMA LineInit == LInit => LineInv
<1> SUFFICES ASSUME LInit PROVE LineInv
  OBVIOUS
<1>1. IInv
  BY InitInv DEF LInit
<1>2. rows = [r \in Reservations |-> NoRow] /\ receipts = {} /\ now = 1
  BY DEF LInit, Init
<1>3. \A w \in Workers : work[w].pc = "idle"
  BY NoWorkType DEF LInit
<1>4. LTypes
  <2>1. NoCaps \in Units
    BY DEF NoCaps, Units, Unit
  <2>2. [state |-> "NONE", key |-> None, version |-> 0, outcome |-> None] \in Entry
    BY DEF Entry, OutboxStates
  <2>3. <<>> \in Seq(Codes)
    OBVIOUS
  <2> QED
    BY <1>3, <2>1, <2>2, <2>3, NoWorkType DEF LInit, LTypes
<1>5. ClockInv
  BY <1>2, ConstantsAssumption DEF ClockInv, NoRow
<1>6. BeginReceipts
  BY <1>2 DEF BeginReceipts
<1>7. ASSUME NEW d \in Deliveries PROVE DeliveryInv(d)
  <2>1. rows[ReservationOf[d]] = NoRow
    BY <1>2, LineAssumption
  <2>2. NoRow.state = "NONE" /\ NoRow.startedAt = 0
    BY DEF NoRow
  <2>3. /\ outbox[d].state = "NONE" /\ outbox[d].key = None /\ outbox[d].outcome = None
        /\ tries[d] = <<>> /\ window[d] = "none" /\ ~remembers[d] /\ sent[d] = 0
        /\ caps[d].attempts = {}
    BY DEF LInit, NoCaps
  <2>4. IsFiniteSet({}) /\ Cardinality({}) = 0
    BY FS_EmptySet
  <2>5. DOMAIN <<>> = {}
    OBVIOUS
  <2> QED
    BY <2>1, <2>2, <2>3, <2>4, <2>5, ConstantsAssumption, LineAssumption
       DEF DeliveryInv, Past, Started
<1> QED
  BY <1>1, <1>3, <1>4, <1>5, <1>6, <1>7 DEF LineInv

\* Steps of calls that are not commands leave governance alone.
LEMMA StepInv ==
  ASSUME LineInv, NEW w \in Workers, Step(w)
  PROVE  LineInv' /\ [Next]_rvars
<1>1. CASE ClaimCall(w) \/ BeginCall(w) \/ ConfirmCall(w) \/ SettleCall(w) \/ UnknownCall(w)
  BY <1>1, ClaimCallInv, BeginCallInv, ConfirmCallInv, SettleCallInv, UnknownCallInv
<1>2. CASE CreateEntry(w)
  BY <1>2, CreateEntryInv DEF CreateEntry
<1>3. CASE History(w) \/ Gate(w)
  BY <1>3, HistoryInv, GateInv DEF History, Gate
<1>4. CASE Quarantine(w) \/ Park(w)
  BY <1>4, QuarantineInv DEF Quarantine, Park
<1>5. CASE ReserveLogical(w)
  BY <1>5, ReserveLogicalInv DEF ReserveLogical
<1>6. CASE ReserveSlot(w)
  BY <1>6, ReserveSlotInv DEF ReserveSlot
<1>7. CASE ReserveAttempt(w)
  BY <1>7, ReserveAttemptInv DEF ReserveAttempt
<1>8. CASE AdvanceSubmitting(w) \/ AdvanceSubmitted(w) \/ SettleOutbox(w)
  BY <1>8, AdvanceSubmittingInv, AdvanceSubmittedInv, SettleOutboxInv
     DEF AdvanceSubmitting, AdvanceSubmitted, SettleOutbox
<1>9. CASE CommitDelivery(w) \/ KillGate(w)
  BY <1>9, CommitDeliveryInv, KillGateInv DEF CommitDelivery, KillGate
<1>10. CASE ExitUnknown(w) \/ EnterUnknown(w)
  BY <1>10, UnknownUnitInv DEF ExitUnknown, EnterUnknown
<1>11. CASE \E code \in Codes : Push(w, code)
  BY <1>11, PushInv DEF Push
<1>12. CASE RecordAttempt(w)
  BY <1>12, RecordAttemptInv DEF RecordAttempt
<1>13. CASE Emit(w)
  BY <1>13, EmitInv DEF Emit
<1>14. CASE Throw(w)
  BY <1>14, ThrowInv DEF Throw
<1> QED
  BY <1>1, <1>2, <1>3, <1>4, <1>5, <1>6, <1>7, <1>8, <1>9, <1>10, <1>11, <1>12, <1>13, <1>14
     DEF Step

LEMMA LineStep == LineInv /\ [LNext]_vars => LineInv' /\ [Next]_rvars
<1> SUFFICES ASSUME LineInv, [LNext]_vars PROVE LineInv' /\ [Next]_rvars
  OBVIOUS
<1>1. ASSUME NEW w \in Workers, NEW d \in Deliveries, StartEnqueue(w, d) \/ Submit(w, d)
      PROVE  LineInv' /\ [Next]_rvars
  BY <1>1, StartEnqueueInv, SubmitInv DEF StartEnqueue, Submit
<1>2. ASSUME NEW w \in Workers, Step(w) PROVE LineInv' /\ [Next]_rvars
  BY <1>2, StepInv
<1>3. ASSUME NEW w \in Workers, Fault(w) PROVE LineInv' /\ [Next]_rvars
  BY <1>3, ThrowInv DEF Fault
<1>4. ASSUME NEW d \in Deliveries, WindowLapses(d) PROVE LineInv' /\ [Next]_rvars
  BY <1>4, WindowLapsesInv DEF WindowLapses
<1>5. CASE Governance
  BY <1>5, GovernanceInv
<1>6. CASE UNCHANGED vars
  <2>1. UNCHANGED <<rvars, outbox, caps, killed, tries, window, remembers, sent, work, faults>>
    BY <1>6 DEF vars, lvars
  <2>2. UNCHANGED <<rows, overtaken>>
    BY <2>1 DEF rvars
  <2>3. IInv' /\ ClockInv' /\ BeginReceipts'
    BY <2>1, NextInv, GovernanceKeeps DEF LineInv
  <2>4. \A d \in Deliveries : Same(d)
    BY <2>1, <2>2 DEF Same
  <2>5. LTypes' /\ Tables'
    BY <2>1 DEF LineInv, LTypes, Tables
  <2>6. \A d \in Deliveries : DeliveryInv(d)' /\ Forward(d)
    BY <2>4, SameDelivery, SameForward DEF LineInv
  <2>7. ASSUME NEW v \in Workers, work'[v].pc # "idle" PROVE WorkerInv(v)'
    <3>1. work'[v] = work[v] /\ work[v].pc # "idle" /\ WorkerInv(v) /\ work[v].d \in Deliveries
      BY <2>1, <2>7 DEF LineInv, LTypes
    <3>2. Forward(work[v].d)
      BY <2>6, <3>1
    <3> QED
      BY <2>5, <3>1, <3>2, ForwardWorker DEF LineInv
  <2> QED
    BY <2>1, <2>3, <2>5, <2>6, <2>7 DEF LineInv
<1> QED
  BY <1>1, <1>2, <1>3, <1>4, <1>5, <1>6 DEF LNext

\* The inductive invariant holds for any number of deliveries, calls at once
\* and crashes, with the sweeper of expired reservations running beside them:
\* outbox, units, receipts and reservation of a delivery fit together, but for
\* what is Excused because the sweeper overtook its beginSubmission.
THEOREM LineInvariance == LSpec => []LineInv
<1> QED
  BY LineInit, LineStep, PTL DEF LSpec

\* The delivery worker drives contact governance only through its commands:
\* every behaviour of the composition is one of ReservationRuntime.
THEOREM DeliveryUsesGovernance == LSpec => Spec
<1>1. LInit => Init
  BY DEF LInit
<1>2. LineInv /\ [LNext]_vars => [Next]_rvars
  BY LineStep
<1> QED
  BY <1>1, <1>2, LineInvariance, PTL DEF LSpec, Spec

\* So what is proved of the reservations holds while deliveries run beside the
\* sweeper: quota is held while the outcome is unknown, except where the
\* sweeper released a lapsed lease between a beginSubmission's read and its
\* update, and a contact is charged once in any case.
THEOREM DeliveryKeepsQuota == LSpec => [](HeldWhileUnknown /\ ChargedOnce)
<1> QED
  BY DeliveryUsesGovernance, QuotaHeld, ChargedAtMostOnce, PTL

\* No request reaches LINE, and no message gets out, before governance and the
\* outbox know the submission under the key it is pushed with.
THEOREM BarrierHeld == LSpec => []BarrierBeforePush
<1>1. LineInv => BarrierBeforePush
  <2> SUFFICES ASSUME LineInv, NEW d \in Deliveries,
                      \/ sent[d] > 0
                      \/ \E w \in Workers : work[w].d = d /\ work[w].pc \in {"push", "record"}
               PROVE  Past(d) /\ Begun(d)
    BY DEF BarrierBeforePush, Past, Begun
  <2>1. Past(d)
    BY DEF LineInv, DeliveryInv, WorkerInv, Behind
  <2> QED
    BY <2>1 DEF LineInv, DeliveryInv
<1> QED
  BY <1>1, LineInvariance, PTL

\* What is called accepted reached the recipient, and quota given back past
\* the barrier has a refusal of LINE on record, but for a reservation the
\* sweeper released between the read and the update of beginSubmission.
THEOREM OutcomeNeverGuessed == LSpec => []NeverGuessed
<1>1. LineInv => NeverGuessed
  <2>1. ASSUME LineInv, NEW d \in Deliveries
        PROVE  /\ rows[ReservationOf[d]].state = "CONFIRMED" => sent[d] > 0
               /\ outbox[d].outcome = "PROVIDER_ACCEPTED" => sent[d] > 0
               /\ Started(rows[ReservationOf[d]]) /\ rows[ReservationOf[d]].state = "RELEASED"
                    /\ ReservationOf[d] \notin overtaken
                    => \E i \in DOMAIN tries[d] :
                         tries[d][i] \in {"denied", "limited", "recipient"}
    BY <2>1 DEF LineInv, DeliveryInv, Excused, Refused, Rejected
  <2> QED
    BY <2>1 DEF NeverGuessed
<1> QED
  BY <1>1, LineInvariance, PTL

\* Attempts have no gaps, each has its unit, and there are never too many.
THEOREM AttemptsCapped == LSpec => []AttemptsWithinCap
<1>1. LineInv => AttemptsWithinCap
  BY DEF LineInv, DeliveryInv, WorkerInv, Attempting, AttemptsWithinCap
<1> QED
  BY <1>1, LineInvariance, PTL

-----------------------------------------------------------------------------
(* One message *)

\* A call moves alone.
LEMMA GoOthers ==
  ASSUME LTypes, NEW w \in Workers, (\E pc : Go(w, pc)) \/ Done(w)
  PROVE  Others(w)
BY DEF LTypes, Others, Go, Done

\* Calls that have an answer and no receipt stay where they are, and LINE and
\* the window do not change, but for the request, its receipt, the clock and
\* a crash.
LEMMA AnswerWaits ==
  ASSUME LineInv, NEW w \in Workers, Step(w),
         \A code \in Codes : ~Push(w, code), ~RecordAttempt(w)
  PROVE  /\ UNCHANGED <<sent, remembers, window>>
         /\ work[w].pc # "record" /\ Others(w)
<1> DEFINE G == (\E pc : Go(w, pc)) \/ Done(w)
           Q == UNCHANGED <<sent, remembers, window>> /\ work[w].pc # "record"
<1>t. LTypes
  BY DEF LineInv
<1>1. CASE ClaimCall(w) \/ BeginCall(w) \/ ConfirmCall(w) \/ UnknownCall(w)
  <2>1. Q /\ G
    BY <1>1 DEF ClaimCall, BeginCall, ConfirmCall, UnknownCall, At, lvars
  <2> QED
    BY <1>t, <2>1, GoOthers
<1>2. CASE SettleCall(w)
  <2>1. Q /\ G
    BY <1>2 DEF SettleCall, At, lvars
  <2> QED
    BY <1>t, <2>1, GoOthers
<1>3. CASE CreateEntry(w) \/ Quarantine(w) \/ Park(w) \/ Gate(w) \/ AdvanceSubmitting(w)
             \/ AdvanceSubmitted(w) \/ SettleOutbox(w)
  <2>1. Q /\ G
    BY <1>3 DEF CreateEntry, Quarantine, Park, Gate, AdvanceSubmitting, AdvanceSubmitted,
                SettleOutbox, At, lvars
  <2> QED
    BY <1>t, <2>1, GoOthers
<1>4. CASE CommitDelivery(w) \/ KillGate(w) \/ ExitUnknown(w) \/ EnterUnknown(w)
  <2>1. Q /\ G
    BY <1>4 DEF CommitDelivery, KillGate, ExitUnknown, EnterUnknown, At, lvars
  <2> QED
    BY <1>t, <2>1, GoOthers
<1>5. CASE ReserveSlot(w) \/ ReserveAttempt(w)
  <2>1. Q /\ G
    BY <1>5 DEF ReserveSlot, ReserveAttempt, At, lvars
  <2> QED
    BY <1>t, <2>1, GoOthers
<1>6. CASE ReserveLogical(w)
  <2>1. Q
    BY <1>6 DEF ReserveLogical, At
  <2>2. Others(w)
    BY <1>6, <1>t DEF ReserveLogical, Go, Done, Others, LTypes
  <2> QED
    BY <2>1, <2>2
<1>7. CASE History(w)
  <2>1. Q
    BY <1>7 DEF History, At, lvars
  <2>2. Others(w)
    BY <1>7, <1>t DEF History, Others, LTypes
  <2> QED
    BY <2>1, <2>2
<1>8. CASE Emit(w)
  <2>1. Q /\ G
    BY <1>8, EmitNextIs DEF Emit
  <2> QED
    BY <1>t, <2>1, GoOthers
<1>9. CASE Throw(w)
  <2>1. UNCHANGED <<sent, remembers, window>> /\ G
    BY <1>9 DEF Throw, lvars
  <2>2. work[w].pc # "record"
    BY <1>9, EmitNextIs DEF Throw, At
  <2> QED
    BY <1>t, <2>1, <2>2, GoOthers
<1> QED
  BY <1>1, <1>2, <1>3, <1>4, <1>5, <1>6, <1>7, <1>8, <1>9 DEF Step

\* A delivery whose messages, retry key and window stay as they are, and whose
\* answers wait, keeps OnceInv.
OnceOf(d) ==
  /\ sent[d] <= 1
  /\ sent[d] > 0 /\ ~remembers[d] => window[d] = "closed"
  /\ sent[d] > 0 /\ window[d] = "none" =>
       \E w \in Workers : work[w].d = d /\ work[w].pc = "record"

LEMMA OnceWaits ==
  ASSUME NEW d, OnceOf(d), sent'[d] = sent[d], remembers'[d] = remembers[d],
         window'[d] = window[d],
         \A v \in Workers : work[v].d = d /\ work[v].pc = "record" => work'[v] = work[v]
  PROVE  OnceOf(d)'
BY DEF OnceOf

LEMMA OnceStep ==
  ASSUME LineInv, OnceInv, [LNext]_vars, faults' = faults
  PROVE  OnceInv'
<1> SUFFICES ASSUME NEW d \in Deliveries PROVE OnceOf(d)'
  BY DEF OnceInv, OnceOf
<1>o. OnceOf(d)
  BY DEF OnceInv, OnceOf
<1>t. sent[d] \in Nat /\ LTypes /\ DeliveryInv(d)
  BY DEF LineInv, LTypes
<1>1. ASSUME UNCHANGED <<sent, remembers, window>>,
             \A v \in Workers : work[v].pc = "record" => work'[v] = work[v]
      PROVE  OnceOf(d)'
  BY <1>o, <1>1, OnceWaits
<1>2. ASSUME NEW w \in Workers, NEW e \in Deliveries, StartEnqueue(w, e) \/ Submit(w, e)
      PROVE  OnceOf(d)'
  <2>1. work[w].pc = "idle" /\ Others(w) /\ UNCHANGED <<sent, remembers, window>>
    BY <1>2, <1>t DEF StartEnqueue, Submit, At, lvars, Others, LTypes
  <2> QED
    BY <1>1, <2>1 DEF Others
<1>3. ASSUME NEW w \in Workers, Fault(w) PROVE OnceOf(d)'
  BY <1>3, <1>t DEF Fault, LTypes
<1>4. CASE Governance
  BY <1>1, <1>4 DEF Governance, lvars
<1>5. CASE UNCHANGED vars
  BY <1>1, <1>5 DEF vars, lvars
<1>6. ASSUME NEW w \in Workers, NEW code \in Codes, Push(w, code) PROVE OnceOf(d)'
  <2>1. work[w].pc = "push" /\ work'[w].pc = "record" /\ work'[w].d = work[w].d /\ Others(w)
          /\ work[w].d \in Deliveries /\ WorkerInv(w) /\ window' = window
    BY <1>6, <1>t DEF Push, At, LTypes, Others, Work, LineInv
  <2>2. CASE d # work[w].d
    <3>1. sent'[d] = sent[d] /\ remembers'[d] = remembers[d]
      BY <1>6, <1>t, <2>1, <2>2 DEF Push, LTypes
    <3> QED
      BY <1>o, <2>1, <3>1, OnceWaits DEF Others
  <2>3. CASE d = work[w].d
    <3>1. window[d] # "closed"
      BY <2>1, <2>3 DEF WorkerInv, PushPath
    <3>2. CASE ~remembers[d] /\ sent' = [sent EXCEPT ![d] = @ + 1]
                 /\ remembers' = [remembers EXCEPT ![d] = TRUE]
      <4>1. sent[d] = 0
        BY <1>o, <1>t, <3>1, <3>2 DEF OnceOf
      <4>2. sent'[d] = 1 /\ remembers'[d]
        BY <1>t, <3>2, <4>1 DEF LTypes
      <4> QED
        BY <2>1, <2>3, <4>2 DEF OnceOf
    <3>3. CASE UNCHANGED <<sent, remembers>>
      BY <1>o, <2>1, <3>3, OnceWaits DEF Others
    <3> QED
      BY <1>6, <2>3, <3>2, <3>3 DEF Push
  <2> QED
    BY <2>2, <2>3
<1>7. ASSUME NEW w \in Workers, RecordAttempt(w) PROVE OnceOf(d)'
  <2>1. work[w].pc = "record" /\ work[w].d \in Deliveries /\ WorkerInv(w)
          /\ UNCHANGED <<sent, remembers>>
    BY <1>7, <1>t DEF RecordAttempt, At, LTypes, LineInv
  <2>2. Others(w)
    BY <1>7, <1>t, GoOthers DEF RecordAttempt
  <2>3. CASE d # work[w].d
    <3>1. window'[d] = window[d]
      BY <1>7, <1>t, <2>1, <2>3 DEF RecordAttempt, LTypes
    <3> QED
      BY <1>o, <2>1, <2>2, <2>3, <3>1, OnceWaits DEF Others
  <2>4. CASE d = work[w].d
    <3>1. window'[d] # "none" /\ (window[d] = "closed" => window'[d] = "closed")
      <4>1. CASE AttemptNo(w) = Len(tries[d]) + 1
        BY <1>7, <1>t, <2>1, <2>4, <4>1 DEF RecordAttempt, LTypes
      <4>2. CASE AttemptNo(w) # Len(tries[d]) + 1
        <5>1. window' = window
          BY <1>7, <2>4, <4>2 DEF RecordAttempt
        <5>2. AttemptNo(w) <= Len(tries[d]) + 1
          BY <2>1, <2>4 DEF WorkerInv, Early
        <5>3. AttemptNo(w) \in Nat \ {0} /\ tries[d] \in Seq(Codes)
          BY <1>t DEF LTypes, Work, AttemptNo, First
        <5>4. Len(tries[d]) # 0
          BY <4>2, <5>2, <5>3
        <5>5. tries[d] # <<>>
          BY <5>4
        <5> QED
          BY <1>t, <5>1, <5>5 DEF DeliveryInv
      <4> QED
        BY <4>1, <4>2
    <3> QED
      BY <1>o, <2>1, <3>1 DEF OnceOf
  <2> QED
    BY <2>3, <2>4
<1>8. ASSUME NEW w \in Workers, Step(w) PROVE OnceOf(d)'
  <2>1. CASE \E code \in Codes : Push(w, code)
    BY <1>6, <2>1
  <2>2. CASE RecordAttempt(w)
    BY <1>7, <2>2
  <2>3. CASE ~RecordAttempt(w) /\ \A code \in Codes : ~Push(w, code)
    BY <1>1, <1>8, <2>3, AnswerWaits DEF Others
  <2> QED
    BY <2>1, <2>2, <2>3
<1>9. ASSUME NEW e \in Deliveries, WindowLapses(e) PROVE OnceOf(d)'
  <2>1. /\ UNCHANGED <<sent, work>>
        /\ \A w \in Workers : work[w].d # e
        /\ remembers' = [remembers EXCEPT ![e] = FALSE]
        /\ window' = [window EXCEPT ![e] = IF @ = "open" THEN "closed" ELSE @]
    BY <1>9 DEF WindowLapses
  <2>2. CASE d # e
    <3>1. remembers'[d] = remembers[d] /\ window'[d] = window[d]
      BY <1>t, <2>1, <2>2 DEF LTypes
    <3> QED
      BY <1>o, <2>1, <3>1, OnceWaits
  <2>3. CASE d = e
    <3>1. sent[d] > 0 => window[d] \in {"open", "closed"}
      BY <1>o, <1>t, <2>1, <2>3 DEF OnceOf, LTypes
    <3>2. window[d] \in {"open", "closed"} => window'[d] = "closed"
      BY <1>t, <2>1, <2>3 DEF LTypes
    <3> QED
      BY <1>o, <2>1, <3>1, <3>2 DEF OnceOf
  <2> QED
    BY <2>2, <2>3
<1> QED
  BY <1>2, <1>3, <1>4, <1>5, <1>8, <1>9 DEF LNext

\* A call that dies is counted, and nothing else is.
LEMMA CrashesCounted ==
  ASSUME [LNext]_vars
  PROVE  faults' = faults \/ faults' = faults + 1
<1>1. ASSUME NEW w \in Workers,
             \/ ClaimCall(w) \/ CreateEntry(w) \/ History(w) \/ Quarantine(w) \/ Gate(w)
             \/ ReserveLogical(w) \/ ReserveSlot(w) \/ ReserveAttempt(w)
      PROVE  faults' = faults
  BY <1>1 DEF ClaimCall, CreateEntry, History, Quarantine, Gate, ReserveLogical, ReserveSlot,
              ReserveAttempt
<1>2. ASSUME NEW w \in Workers,
             \/ BeginCall(w) \/ AdvanceSubmitting(w) \/ CommitDelivery(w)
             \/ (\E code \in Codes : Push(w, code)) \/ RecordAttempt(w) \/ ConfirmCall(w)
             \/ AdvanceSubmitted(w) \/ SettleCall(w)
      PROVE  faults' = faults
  BY <1>2 DEF BeginCall, AdvanceSubmitting, CommitDelivery, Push, RecordAttempt, ConfirmCall,
              AdvanceSubmitted, SettleCall
<1>3. ASSUME NEW w \in Workers,
             \/ KillGate(w) \/ SettleOutbox(w) \/ ExitUnknown(w) \/ Park(w) \/ EnterUnknown(w)
             \/ UnknownCall(w) \/ Emit(w) \/ Throw(w)
      PROVE  faults' = faults
  BY <1>3 DEF KillGate, SettleOutbox, ExitUnknown, Park, EnterUnknown, UnknownCall, Emit, Throw
<1>4. ASSUME NEW w \in Workers, Step(w) PROVE faults' = faults
  BY <1>1, <1>2, <1>3, <1>4 DEF Step
<1>5. ASSUME NEW w \in Workers, NEW d \in Deliveries, StartEnqueue(w, d) \/ Submit(w, d)
      PROVE  faults' = faults
  BY <1>5 DEF StartEnqueue, Submit
<1>6. ASSUME NEW w \in Workers, Fault(w) PROVE faults' = faults + 1
  BY <1>6 DEF Fault
<1>7. ASSUME NEW d \in Deliveries, WindowLapses(d) PROVE faults' = faults
  BY <1>7 DEF WindowLapses
<1>8. Governance \/ UNCHANGED vars => faults' = faults
  BY DEF Governance, vars
<1> QED
  BY <1>4, <1>5, <1>6, <1>7, <1>8 DEF LNext

\* As long as no call has died, the recipient gets the message at most once,
\* however many calls push it at once and however many answers get lost.  (A
\* call that dies between the answer and its receipt loses the start of the
\* retry window.)
THEOREM OneMessage == LSpec => [](faults = 0 => AtMostOneMessage)
<1> DEFINE Once == faults = 0 => OnceInv
<1>1. LInit => Once
  <2> SUFFICES ASSUME LInit PROVE OnceInv
    OBVIOUS
  <2>1. \A d \in Deliveries : sent[d] = 0
    BY DEF LInit
  <2> QED
    BY <2>1 DEF OnceInv
<1>2. LineInv /\ LineInv' /\ Once /\ [LNext]_vars => Once'
  <2> SUFFICES ASSUME LineInv, LineInv', Once, [LNext]_vars, faults' = 0 PROVE OnceInv'
    OBVIOUS
  <2>1. faults' = faults \/ faults' = faults + 1
    BY CrashesCounted
  <2>2. faults \in Nat
    BY DEF LineInv, LTypes
  <2>3. faults' = faults
    BY <2>1, <2>2
  <2> QED
    BY <2>3, OnceStep
<1>3. Once => (faults = 0 => AtMostOneMessage)
  BY DEF OnceInv, AtMostOneMessage
<1> HIDE DEF Once
<1> QED
  BY <1>1, <1>2, <1>3, LineInvariance, PTL DEF LSpec

-----------------------------------------------------------------------------
(* The ledgers of a delivery on which one call works at a time *)

\* The delivery and its reservation look the same to SoloOf and SoloWorker.
Still(d) ==
  /\ outbox'[d] = outbox[d] /\ tries'[d] = tries[d]
  /\ rows'[ReservationOf[d]].outcome = rows[ReservationOf[d]].outcome
  /\ Confirmed(d) => rows'[ReservationOf[d]].state \in {"CONFIRMED", "REFUNDED"}

LEMMA StillOf ==
  ASSUME NEW d, SoloOf(d), Still(d)
  PROVE  SoloOf(d)'
BY DEF SoloOf, Still

LEMMA StillWorker ==
  ASSUME NEW v \in Workers, work'[v] = work[v], SoloWorker(v), Still(work[v].d)
  PROVE  SoloWorker(v)'
<1>1. Undecided(work[v].d) => Undecided(work[v].d)'
  BY DEF Undecided, Still
<1>2. Confirmed(work[v].d) => Confirmed(work[v].d)'
  BY DEF Confirmed, Still
<1>3. /\ outbox'[work[v].d] = outbox[work[v].d] /\ tries'[work[v].d] = tries[work[v].d]
      /\ rows'[ReservationOf[work[v].d]].outcome = rows[ReservationOf[work[v].d]].outcome
  BY DEF Still
<1> QED
  BY <1>1, <1>2, <1>3 DEF SoloWorker

\* One call moves; what remains to be shown is about it, its delivery and the
\* receipts.
LEMMA SoloLift ==
  ASSUME LineInv, SoloInv, Alone, NEW w \in Workers, NEW d \in Deliveries, Others(w),
         work[w].pc # "idle" => work[w].d = d,
         work[w].pc = "idle" => Still(d),
         \A e \in Deliveries \ {d} : Still(e),
         SoloOf(d)', SoloWorker(w)', SoloReceipts'
  PROVE  SoloInv'
<1>1. ASSUME NEW e \in Deliveries PROVE SoloOf(e)'
  BY StillOf DEF SoloInv
<1>2. ASSUME NEW v \in Workers PROVE SoloWorker(v)'
  <2>1. CASE v = w
    BY <2>1
  <2>2. CASE v # w /\ work[v].pc = "idle"
    <3>1. work'[v].pc = "idle"
      BY <2>2 DEF Others
    <3> QED
      BY <3>1 DEF SoloWorker, Open, PushPath, Settling
  <2>3. CASE v # w /\ work[v].pc # "idle"
    <3>1. work[v].d \in Deliveries /\ work'[v] = work[v] /\ SoloWorker(v)
      BY <2>3 DEF LineInv, LTypes, Others, SoloInv
    <3>2. Still(work[v].d)
      BY <2>3, <3>1 DEF Alone
    <3> QED
      BY <3>1, <3>2, StillWorker
  <2> QED
    BY <2>1, <2>2, <2>3
<1> QED
  BY <1>1, <1>2 DEF SoloInv

\* Receipts that say nothing of an acceptance or a terminal outcome.
LEMMA ReceiptsStill ==
  ASSUME IInv, SoloReceipts,
         \A r \in Reservations : rows'[r].outcome = rows[r].outcome,
         \A m \in receipts' \ receipts :
           m.op # "CONFIRM" /\ (m.op = "SETTLE" => m.input[3] = "UNKNOWN_RECONCILING")
  PROVE  SoloReceipts'
<1> SUFFICES ASSUME NEW m \in receipts'
             PROVE  /\ m.op = "CONFIRM" => m.response.state = "CONFIRMED"
                    /\ m.op = "SETTLE" /\ m.input[3] # "UNKNOWN_RECONCILING" =>
                         m.input[3] # None /\ rows'[m.reservation].outcome = m.input[3]
  BY DEF SoloReceipts
<1>1. CASE m \in receipts
  <2>1. m.reservation \in Reservations
    BY <1>1 DEF IInv, TypeOK
  <2> QED
    BY <1>1, <2>1 DEF SoloReceipts
<1> QED
  BY <1>1

\* A step that moves a call and leaves outbox, receipts and outcomes alone.
LEMMA SoloQuiet ==
  ASSUME LineInv, SoloInv, Alone, NEW w \in Workers, NEW d \in Deliveries, Others(w),
         work[w].pc # "idle" => work[w].d = d,
         UNCHANGED <<outbox, tries>>,
         \A e \in Deliveries : Still(e), SoloReceipts',
         work'[w].pc \in Open => Undecided(work'[w].d),
         work'[w].pc \in Settling =>
           /\ work'[w].d = work[w].d /\ work'[w].code = work[w].code
           /\ \/ work[w].pc = "accepted" /\ work'[w].pc = "settle"
              \/ work[w].pc = "kill" /\ work'[w].pc = "outbox"
              \/ work[w].pc = work'[w].pc
  PROVE  SoloInv'
<1>1. SoloOf(d)' /\ Still(d)
  BY StillOf DEF SoloInv
<1>2. SoloWorker(w)'
  <2>1. work'[w].pc \in Open => Undecided(work[w].d)'
    BY DEF Undecided
  <2>2. CASE work'[w].pc \notin Settling
    <3>1. /\ work'[w].pc \notin {"settle", "accepted", "submitted", "kill", "outbox"}
      BY <2>2 DEF Settling
    <3> QED
      BY <2>1, <2>2, <3>1 DEF SoloWorker
  <2>3. CASE work'[w].pc \in Settling
    <3>1. work[w].pc \in Settling
      BY <2>3 DEF Settling
    <3>2. work[w].pc # "idle"
      BY <3>1 DEF Settling
    <3>3. Still(work[w].d) /\ SoloWorker(w) /\ WorkerInv(w) /\ work'[w].d = work[w].d
      BY <2>3, <3>2 DEF SoloInv, LineInv, LTypes
    <3>4. /\ Confirmed(work[w].d) => Confirmed(work[w].d)'
          /\ rows'[ReservationOf[work[w].d]].outcome = rows[ReservationOf[work[w].d]].outcome
      BY <3>3 DEF Confirmed, Still
    <3>5. CASE work[w].pc = "accepted" /\ work'[w].pc = "settle"
      <4>1. Accepted(work[w].code) /\ ~Rejected(work[w].code)
        BY <3>3, <3>5 DEF WorkerInv, Accepted, Rejected
      <4> QED
        BY <2>1, <2>3, <3>1, <3>3, <3>4, <3>5, <4>1 DEF SoloWorker
    <3>6. CASE work[w].pc = "kill" /\ work'[w].pc = "outbox"
      BY <2>1, <2>3, <3>1, <3>3, <3>4, <3>6 DEF SoloWorker
    <3>7. CASE work[w].pc = work'[w].pc
      <4>1. Undecided(work[w].d) => Undecided(work[w].d)'
        BY <3>3 DEF Undecided
      <4> QED
        BY <2>1, <2>3, <3>1, <3>3, <3>4, <3>7, <4>1 DEF SoloWorker
    <3> QED
      BY <2>3, <3>5, <3>6, <3>7
  <2> QED
    BY <2>2, <2>3
<1> QED
  BY <1>1, <1>2, SoloLift

\* A quiet step that is no command either.
LEMMA SoloReads ==
  ASSUME LineInv, SoloInv, Alone, NEW w \in Workers, NEW d \in Deliveries, Others(w),
         work[w].pc # "idle" => work[w].d = d,
         UNCHANGED <<rvars, outbox, tries>>,
         work'[w].pc \in Open => Undecided(work'[w].d),
         work'[w].pc \in Settling =>
           /\ work'[w].d = work[w].d /\ work'[w].code = work[w].code
           /\ \/ work[w].pc = "accepted" /\ work'[w].pc = "settle"
              \/ work[w].pc = "kill" /\ work'[w].pc = "outbox"
              \/ work[w].pc = work'[w].pc
  PROVE  SoloInv'
<1>1. rows' = rows /\ receipts' = receipts
  BY DEF rvars
<1>2. \A e \in Deliveries : Still(e)
  BY <1>1 DEF Still, Confirmed
<1>3. SoloReceipts'
  BY <1>1 DEF SoloInv, SoloReceipts
<1> QED
  BY <1>2, <1>3, SoloQuiet

\* What a call's record is after it goes on, or ends.
LEMMA GoFacts ==
  ASSUME LTypes, NEW w \in Workers
  PROVE  /\ \A pc : Go(w, pc) =>
              /\ work'[w].pc = pc /\ work'[w].d = work[w].d /\ work'[w].code = work[w].code
         /\ Done(w) => work'[w].pc = "idle"
<1>1. work[w] \in Work /\ work \in [Workers -> Work]
  BY DEF LTypes
<1>2. ASSUME NEW pc, Go(w, pc)
      PROVE  work'[w].pc = pc /\ work'[w].d = work[w].d /\ work'[w].code = work[w].code
  <2>1. work'[w] = [work[w] EXCEPT !.pc = pc]
    BY <1>1, <1>2 DEF Go
  <2> QED
    BY <1>1, <2>1 DEF Work
<1>3. ASSUME Done(w) PROVE work'[w].pc = "idle"
  BY <1>1, <1>3, NoWorkType DEF Done
<1> QED
  BY <1>2, <1>3

\* A call that ends, or that goes on and is not settling an answer.
LEMMA SoloGo ==
  ASSUME LineInv, SoloInv, Alone, NEW w \in Workers, work[w].pc # "idle",
         UNCHANGED <<rvars, outbox, tries>>,
         \/ Done(w)
         \/ \E pc : /\ Go(w, pc)
                    /\ pc \in Open => work[w].pc \in Open
                    /\ pc \in Settling =>
                         \/ work[w].pc = "accepted" /\ pc = "settle"
                         \/ work[w].pc = "kill" /\ pc = "outbox"
  PROVE  SoloInv'
<1>1. work[w].d \in Deliveries /\ LTypes /\ SoloWorker(w)
  BY DEF LineInv, LTypes, SoloInv
<1>2. Others(w)
  BY <1>1, GoOthers
<1>3. CASE Done(w)
  <2>1. work'[w].pc = "idle"
    BY <1>1, <1>3, GoFacts
  <2> QED
    BY <1>1, <1>2, <2>1, SoloReads DEF Open, PushPath, Settling
<1>4. ASSUME NEW pc, Go(w, pc), pc \in Open => work[w].pc \in Open,
             pc \in Settling =>
                         \/ work[w].pc = "accepted" /\ pc = "settle"
                         \/ work[w].pc = "kill" /\ pc = "outbox"
      PROVE  SoloInv'
  <2>1. work'[w].pc = pc /\ work'[w].d = work[w].d /\ work'[w].code = work[w].code
    BY <1>1, <1>4, GoFacts
  <2>2. pc \in Open => Undecided(work'[w].d)
    BY <1>1, <1>4, <2>1 DEF SoloWorker
  <2> QED
    BY <1>1, <1>2, <1>4, <2>1, <2>2, SoloReads
<1> QED
  BY <1>3, <1>4

LEMMA SoloQuietSteps ==
  ASSUME LineInv, SoloInv, Alone, NEW w \in Workers,
         \/ Gate(w) \/ ReserveSlot(w) \/ ReserveAttempt(w) \/ CommitDelivery(w)
         \/ KillGate(w) \/ ExitUnknown(w) \/ EnterUnknown(w) \/ Emit(w) \/ Throw(w) \/ Fault(w)
  PROVE  SoloInv'
<1>1. CASE Gate(w) \/ Throw(w) \/ Fault(w)
  BY <1>1, SoloGo DEF Gate, Throw, Fault, At, lvars, Open, PushPath, Settling
<1>2. CASE ReserveSlot(w)
  BY <1>2, SoloGo DEF ReserveSlot, At, Open, PushPath, Settling
<1>3. CASE ReserveAttempt(w)
  BY <1>3, SoloGo DEF ReserveAttempt, At, Open, PushPath, Settling
<1>4. CASE CommitDelivery(w) \/ KillGate(w)
  BY <1>4, SoloGo DEF CommitDelivery, KillGate, At, Open, PushPath, Settling
<1>5. CASE ExitUnknown(w) \/ EnterUnknown(w)
  BY <1>5, SoloGo DEF ExitUnknown, EnterUnknown, At, Open, PushPath, Settling
<1>6. CASE Emit(w)
  <2>1. work[w].pc \in DOMAIN EmitNext /\ UNCHANGED <<rvars, outbox, tries>>
    BY <1>6 DEF Emit
  <2>2. work[w].pc # "idle"
    BY <2>1, EmitNextIs
  <2>3. \/ Done(w)
        \/ work[w].pc = "pre" /\ Go(w, "cap")
        \/ work[w].pc = "post" /\ Go(w, "push")
        \/ work[w].pc = "accepted" /\ Go(w, "settle")
    BY <1>6, <2>1, EmitNextIs DEF Emit
  <2> QED
    BY <2>1, <2>2, <2>3, SoloGo DEF Open, PushPath, Settling
<1> QED
  BY <1>1, <1>2, <1>3, <1>4, <1>5, <1>6

LEMMA SoloReadSteps ==
  ASSUME LineInv, SoloInv, Alone, NEW w \in Workers,
         \/ \E d \in Deliveries : StartEnqueue(w, d) \/ Submit(w, d)
         \/ History(w) \/ ReserveLogical(w) \/ \E code \in Codes : Push(w, code)
  PROVE  SoloInv'
<1>t. LTypes /\ SoloWorker(w) /\ work[w] \in Work /\ work \in [Workers -> Work]
  BY DEF LineInv, LTypes, SoloInv
<1>1. ASSUME NEW d \in Deliveries, StartEnqueue(w, d) PROVE SoloInv'
  <2>1. work'[w] = [NoWork EXCEPT !.pc = "claim", !.d = d] /\ Others(w) /\ work[w].pc = "idle"
          /\ UNCHANGED <<rvars, outbox, tries>>
    BY <1>1, <1>t DEF StartEnqueue, Others, At, lvars
  <2>2. work'[w].pc = "claim"
    BY <2>1 DEF NoWork
  <2> QED
    BY <2>1, <2>2, SoloReads DEF Open, PushPath, Settling
<1>2. ASSUME NEW d \in Deliveries, Submit(w, d) PROVE SoloInv'
  <2>1. work'[w] = [NoWork EXCEPT !.d = d, !.entry = outbox[d].state,
                      !.pc = IF outbox[d].state = "QUEUED" THEN "gate" ELSE "history"]
          /\ Others(w) /\ work[w].pc = "idle" /\ UNCHANGED <<rvars, outbox, tries>>
          /\ outbox[d].state \in {"QUEUED", "SUBMITTING", "RECONCILING"}
    BY <1>2, <1>t DEF Submit, Others, At, lvars
  <2>2. work'[w].pc \in {"gate", "history"} /\ work'[w].d = d
    BY <2>1 DEF NoWork
  <2>3. Undecided(work'[w].d)
    BY <2>1, <2>2 DEF Undecided
  <2> QED
    BY <2>1, <2>2, <2>3, SoloReads DEF Settling
<1>3. CASE History(w)
  <2>1. work[w].pc = "history" /\ work[w].d \in Deliveries /\ Others(w)
          /\ UNCHANGED <<rvars, outbox, tries>>
    BY <1>3, <1>t DEF History, At, LTypes, Others, lvars
  <2>2. Undecided(work[w].d)
    BY <1>t, <2>1 DEF SoloWorker, Open
  <2>3. work'[w] = [work[w] EXCEPT !.entry = outbox[work[w].d].state,
                      !.no = Len(tries[work[w].d]) + 1,
                      !.pc = IF window[work[w].d] = "closed" THEN "quarantine"
                             ELSE IF work[w].granted THEN "cap" ELSE "gate"]
    BY <1>3, <1>t, <2>2 DEF History, Undecided
  <2>4. work'[w].pc \in {"quarantine", "cap", "gate"} /\ work'[w].d = work[w].d
    BY <1>t, <2>3 DEF Work
  <2> QED
    BY <2>1, <2>2, <2>4, SoloReads DEF Settling
<1>4. CASE ReserveLogical(w)
  <2>1. work[w].pc = "logical" /\ work[w].d \in Deliveries /\ UNCHANGED <<rvars, outbox, tries>>
    BY <1>4, <1>t DEF ReserveLogical, At, LTypes
  <2>2. Others(w)
    BY <1>4, <1>t DEF ReserveLogical, Go, Done, Others
  <2>3. CASE Done(w) \/ Go(w, "slot")
    BY <2>1, <2>3, SoloGo DEF Open, PushPath, Settling
  <2>4. CASE \/ work' = [work EXCEPT ![w].pc = "slot", ![w].fresh = TRUE]
             \/ work' = [work EXCEPT ![w].granted = TRUE,
                                     ![w].pc = IF First(w) THEN "history" ELSE "cap"]
    <3>1. work'[w].pc \in {"slot", "history", "cap"} /\ work'[w].d = work[w].d
      <4>1. CASE work' = [work EXCEPT ![w].pc = "slot", ![w].fresh = TRUE]
        BY <1>t, <4>1 DEF Work
      <4>2. CASE work' = [work EXCEPT ![w].granted = TRUE,
                                      ![w].pc = IF First(w) THEN "history" ELSE "cap"]
        <5> DEFINE pc == IF First(w) THEN "history" ELSE "cap"
        <5>1. pc \in {"history", "cap"}
          OBVIOUS
        <5> HIDE DEF pc
        <5>2. work'[w] = [work[w] EXCEPT !.granted = TRUE, !.pc = pc]
          BY <1>t, <4>2 DEF pc
        <5> QED
          BY <1>t, <5>1, <5>2 DEF Work
      <4> QED
        BY <2>4, <4>1, <4>2
    <3>2. Undecided(work'[w].d)
      BY <1>t, <2>1, <3>1 DEF SoloWorker, Open, PushPath
    <3> QED
      BY <2>1, <2>2, <3>1, <3>2, SoloReads DEF Settling
  <2> QED
    BY <1>4, <2>3, <2>4 DEF ReserveLogical
<1>5. ASSUME NEW code \in Codes, Push(w, code) PROVE SoloInv'
  <2>1. work[w].pc = "push" /\ work[w].d \in Deliveries /\ UNCHANGED <<rvars, outbox, tries>>
    BY <1>5, <1>t DEF Push, At, LTypes
  <2>2. Others(w) /\ work'[w] = [work[w] EXCEPT !.pc = "record", !.code = code]
    BY <1>5, <1>t DEF Push, Others
  <2>3. work'[w].pc = "record" /\ work'[w].d = work[w].d
    BY <1>t, <2>2 DEF Work
  <2>4. Undecided(work'[w].d)
    BY <1>t, <2>1, <2>3 DEF SoloWorker, Open, PushPath
  <2> QED
    BY <2>1, <2>2, <2>3, <2>4, SoloReads DEF Settling
<1> QED
  BY <1>1, <1>2, <1>3, <1>4, <1>5

\* A command that settles and confirms nothing.
LEMMA SoloCommand ==
  ASSUME LineInv, SoloInv, Alone, NEW w \in Workers, work[w].pc # "idle",
         NEW pc, Go(w, pc), pc \in Open => work[w].pc \in Open, pc \notin Settling,
         UNCHANGED <<outbox, tries>>,
         \A r \in Reservations :
           rows'[r].outcome = rows[r].outcome /\ rows'[r].state = rows[r].state,
         \A m \in receipts' \ receipts :
           m.op # "CONFIRM" /\ (m.op = "SETTLE" => m.input[3] = "UNKNOWN_RECONCILING")
  PROVE  SoloInv'
<1>1. work[w].d \in Deliveries /\ LTypes /\ SoloWorker(w)
  BY DEF LineInv, LTypes, SoloInv
<1>2. Others(w)
  BY <1>1, GoOthers
<1>3. work'[w].pc = pc /\ work'[w].d = work[w].d /\ work'[w].code = work[w].code
  BY <1>1, GoFacts
<1>4. pc \in Open => Undecided(work'[w].d)
  BY <1>1, <1>3 DEF SoloWorker
<1>5. SoloReceipts'
  BY ReceiptsStill DEF SoloInv, LineInv
<1>6. \A e \in Deliveries : Still(e)
  BY LineAssumption DEF Still, Confirmed
<1> QED
  BY <1>1, <1>2, <1>3, <1>4, <1>5, <1>6, SoloQuiet

LEMMA SoloCommands ==
  ASSUME LineInv, SoloInv, Alone, NEW w \in Workers,
         ClaimCall(w) \/ BeginCall(w) \/ UnknownCall(w)
  PROVE  SoloInv'
<1>0. /\ work[w].pc \in {"claim", "begin", "unknown"} /\ work[w].d \in Deliveries
      /\ UNCHANGED <<outbox, tries>>
  BY DEF ClaimCall, BeginCall, UnknownCall, LineInv, LTypes, At, lvars
<1>1. PICK d \in Deliveries, c \in Codes \cup {None} : d = work[w].d /\ c = work[w].code
  BY <1>0 DEF LineInv, LTypes, Work
<1>2. PICK r \in Reservations : r = ReservationOf[d]
  BY <1>1, ItsRow
<1>3. rows \in [Reservations -> Row] /\ rows[r] \in Row
  BY DEF LineInv, IInv, TypeOK
<1>4. ASSUME NEW op \in {"CLAIM", "BEGIN_SUBMISSION"}, NEW input, NEW row,
             Commit(op, r, r, input, row), row.state = rows[r].state,
             row.outcome = rows[r].outcome
      PROVE  /\ \A o \in Reservations :
                  rows'[o].outcome = rows[o].outcome /\ rows'[o].state = rows[o].state
             /\ \A m \in receipts' \ receipts :
                  m.op # "CONFIRM" /\ (m.op = "SETTLE" => m.input[3] = "UNKNOWN_RECONCILING")
  <2>1. /\ rows'[r] = row /\ \A o \in Reservations \ {r} : rows'[o] = rows[o]
        /\ \A m \in receipts' \ receipts : m.op = op
    BY <1>3, <1>4, CommitEffect
  <2> QED
    BY <1>4, <2>1
<1>5. CASE ClaimCall(w)
  <2>1. work[w].pc = "claim" /\ Go(w, "create")
    BY <1>5 DEF ClaimCall, At
  <2>2. CASE Claim(r, d, rows[r].expiresAt)
    <3> DEFINE row == [rows[r] EXCEPT !.delivery = d, !.version = 1,
                                      !.lease = rows[r].expiresAt, !.status = "CLAIMED"]
    <3>1. Commit("CLAIM", r, r, <<d, rows[r].expiresAt>>, row)
      BY <2>2 DEF Claim
    <3>2. row.state = rows[r].state /\ row.outcome = rows[r].outcome
      BY <1>3 DEF Row
    <3> HIDE DEF row
    <3> QED
      BY <1>0, <1>4, <2>1, <3>1, <3>2, SoloCommand DEF Open, PushPath, Settling
  <2>3. CASE Replayed("CLAIM", r, r, <<d, rows[r].expiresAt>>)
    <3>1. rows' = rows /\ receipts' = receipts
      BY <2>3, ReplayedRows
    <3> QED
      BY <1>0, <2>1, <3>1, SoloCommand DEF Open, PushPath, Settling
  <2> QED
    BY <1>1, <1>2, <1>5, <2>2, <2>3 DEF ClaimCall
<1>6. CASE BeginCall(w)
  <2> DEFINE k == outbox[d].key
             v == outbox[d].version
  <2>1. work[w].pc = "begin" /\ Go(w, "submitting")
    BY <1>6 DEF BeginCall, At
  <2>2. CASE BeginSubmission(r, d, v, k)
    <3> DEFINE row == [rows[r] EXCEPT !.key = k, !.startedAt = Clock(r),
                                      !.status = "UNKNOWN_RECONCILING"]
    <3>1. Commit("BEGIN_SUBMISSION", r, r, <<d, v, k>>, row)
      BY <2>2 DEF BeginSubmission
    <3>2. row.state = rows[r].state /\ row.outcome = rows[r].outcome
      BY <1>3 DEF Row
    <3> HIDE DEF row
    <3> QED
      BY <1>0, <1>4, <2>1, <3>1, <3>2, SoloCommand DEF Open, PushPath, Settling
  <2>3. CASE Replayed("BEGIN_SUBMISSION", r, r, <<d, v, k>>)
    <3>1. rows' = rows /\ receipts' = receipts
      BY <2>3, ReplayedRows
    <3> QED
      BY <1>0, <2>1, <3>1, SoloCommand DEF Open, PushPath, Settling
  <2> QED
    BY <1>1, <1>2, <1>6, <2>2, <2>3 DEF BeginCall
<1>7. CASE UnknownCall(w)
  <2> DEFINE k == outbox[d].key
             ref == OutcomeRef(d, c)
  <2>1. work[w].pc = "unknown" /\ Go(w, "reconciling") /\ WorkerInv(w) /\ DeliveryInv(d)
    BY <1>7 DEF UnknownCall, At, LineInv
  <2>2. k \in Keys /\ c \in Codes
    BY <1>1, <2>1 DEF DeliveryInv, WorkerInv, Early, Answered, LineInv, LTypes, Entry
  <2>3. ref \in Refs
    BY <2>2, RefsAssumption
  <2>4. PICK at \in Stamps :
          \/ SettleUnknown(r, d, k, ref, at)
          \/ SettleLate(r, d, k, ref, "UNKNOWN_RECONCILING", None, at)
          \/ Replayed("SETTLE", ref, r, SettleInput(d, k, "UNKNOWN_RECONCILING", None, at))
    BY <1>1, <1>2, <1>7 DEF UnknownCall
  <2> HIDE DEF k, ref
  <2>5. SettleInput(d, k, "UNKNOWN_RECONCILING", None, at)[3] = "UNKNOWN_RECONCILING"
    BY DEF SettleInput
  <2>6. CASE \/ SettleUnknown(r, d, k, ref, at)
             \/ SettleLate(r, d, k, ref, "UNKNOWN_RECONCILING", None, at)
    <3>1. /\ \A o \in Reservations :
               rows'[o].outcome = rows[o].outcome /\ rows'[o].state = rows[o].state
          /\ \A m \in receipts' \ receipts :
               m.op = "SETTLE" /\ m.input = SettleInput(d, k, "UNKNOWN_RECONCILING", None, at)
      BY <2>2, <2>3, <2>6, SettleEffect
    <3> QED
      BY <1>0, <2>1, <2>5, <3>1, SoloCommand DEF Open, PushPath, Settling
  <2>7. CASE Replayed("SETTLE", ref, r, SettleInput(d, k, "UNKNOWN_RECONCILING", None, at))
    <3>1. rows' = rows /\ receipts' = receipts
      BY <2>7, ReplayedRows
    <3> QED
      BY <1>0, <2>1, <3>1, SoloCommand DEF Open, PushPath, Settling
  <2> QED
    BY <2>4, <2>6, <2>7
<1> QED
  BY <1>5, <1>6, <1>7

\* After confirm, executed or replayed, the reservation is accepted.
LEMMA SoloConfirm ==
  ASSUME LineInv, SoloInv, Alone, NEW w \in Workers, ConfirmCall(w)
  PROVE  SoloInv'
<1>0. /\ work[w].pc = "confirm" /\ work[w].d \in Deliveries /\ Go(w, "submitted")
      /\ outbox' = outbox /\ tries' = tries /\ LTypes
  BY DEF ConfirmCall, LineInv, LTypes, At, lvars
<1>1. PICK d \in Deliveries : d = work[w].d
  BY <1>0
<1>2. PICK r \in Reservations : r = ReservationOf[d]
  BY <1>1, ItsRow
<1>3. rows \in [Reservations -> Row] /\ rows[r] \in Row /\ IInv
        /\ \A m \in receipts : m.reservation \in Reservations
  BY DEF LineInv, IInv, TypeOK
<1>4. SoloWorker(w) /\ SoloOf(d) /\ SoloReceipts
  BY <1>1 DEF SoloInv
<1> DEFINE k == outbox[d].key
<1>5. /\ \A o \in Reservations : rows'[o].outcome = rows[o].outcome
      /\ \A o \in Reservations \ {r} : rows'[o] = rows[o]
      /\ rows'[r].state \in {"CONFIRMED", "REFUNDED"}
      /\ \A m \in receipts' \ receipts : m.op = "CONFIRM" /\ m.response.state = "CONFIRMED"
  <2>1. CASE Confirm(r, d, k)
    <3> DEFINE row == [rows[r] EXCEPT !.state = "CONFIRMED", !.status = "ACCEPTED"]
    <3>1. Commit("CONFIRM", r, r, <<d, k>>, row)
      BY <2>1 DEF Confirm
    <3>2. row.state = "CONFIRMED" /\ row.outcome = rows[r].outcome
      BY <1>3 DEF Row
    <3> HIDE DEF row
    <3>3. /\ rows'[r] = row /\ \A o \in Reservations \ {r} : rows'[o] = rows[o]
          /\ \A m \in receipts' \ receipts : m.op = "CONFIRM" /\ m.response = View(row)
      BY <3>1, <1>3, CommitEffect
    <3>4. View(row).state = "CONFIRMED"
      BY <3>2 DEF View
    <3> QED
      BY <3>2, <3>3, <3>4
  <2>2. CASE Replayed("CONFIRM", r, r, <<d, k>>)
    <3>1. rows' = rows /\ receipts' = receipts
      BY <2>2, ReplayedRows
    <3>2. PICK m \in receipts : m.op = "CONFIRM" /\ m.reservation = r
      BY <2>2 DEF Replayed
    <3>3. m.response.state = "CONFIRMED"
      BY <1>4, <3>2 DEF SoloReceipts
    <3>4. CanBecome("CONFIRMED", rows[r].state)
      BY <1>3, <3>2, <3>3 DEF IInv, ReplayTruthful, LineInv, BeginReceipts
    <3>5. rows[r].state \in {"CONFIRMED", "REFUNDED"}
      BY <3>4 DEF CanBecome
    <3> QED
      BY <3>1, <3>5
  <2> QED
    BY <1>1, <1>2, <2>1, <2>2 DEF ConfirmCall
<1>6. Others(w)
  BY <1>0, GoOthers
<1>7. work'[w].pc = "submitted" /\ work'[w].d = d /\ work'[w].code = work[w].code
  BY <1>0, <1>1, GoFacts
<1>8. \A e \in Deliveries : Still(e)
  <2> SUFFICES ASSUME NEW e \in Deliveries PROVE Still(e)
    OBVIOUS
  <2>1. ReservationOf[e] \in Reservations
    BY LineAssumption
  <2> QED
    BY <1>0, <1>5, <2>1 DEF Still, Confirmed
<1>9. SoloReceipts'
  BY <1>3, <1>4, <1>5 DEF SoloReceipts
<1>10. SoloOf(d)'
  BY <1>4, <1>8, StillOf
<1>11. SoloWorker(w)'
  <2>1. Undecided(work[w].d)'
    BY <1>0, <1>1, <1>4, <1>7 DEF SoloWorker, Open, Undecided
  <2>2. Confirmed(work[w].d)'
    BY <1>2, <1>5, <1>7 DEF Confirmed
  <2>3. tries[d] # <<>> /\ tries[d][Len(tries[d])] = work[w].code
    BY <1>0, <1>1, <1>4 DEF SoloWorker, Settling
  <2> QED
    BY <1>0, <1>7, <2>1, <2>2, <2>3 DEF SoloWorker
<1> QED
  BY <1>0, <1>1, <1>6, <1>8, <1>9, <1>10, <1>11, SoloLift

\* After settle the reservation has the outcome of the last receipt, whether
\* this call settled it or an earlier one did.
LEMMA SoloSettle ==
  ASSUME LineInv, SoloInv, Alone, NEW w \in Workers, SettleCall(w)
  PROVE  SoloInv'
<1>0. /\ work[w].pc = "settle" /\ work[w].d \in Deliveries
      /\ outbox' = outbox /\ tries' = tries /\ LTypes
  BY DEF SettleCall, LineInv, LTypes, At, lvars
<1>1. PICK d \in Deliveries, c \in Codes \cup {None} : d = work[w].d /\ c = work[w].code
  BY <1>0 DEF LineInv, LTypes, Work
<1>2. PICK r \in Reservations : r = ReservationOf[d]
  BY <1>1, ItsRow
<1>3. /\ rows[r] \in Row /\ Shape(rows[r]) /\ WorkerInv(w) /\ DeliveryInv(d)
      /\ \A m \in receipts : m.reservation \in Reservations
  BY <1>0, <1>2, ItsRow DEF LineInv, IInv, TypeOK
<1>4. SoloWorker(w) /\ SoloOf(d) /\ SoloReceipts
  BY <1>1 DEF SoloInv
<1> DEFINE k == outbox[d].key
           ref == OutcomeRef(d, c)
           o == NormalizedOutcome(c)
           s == RejectionScope(c)
           next == IF c = "denied" THEN "kill" ELSE "outbox"
<1>5. k \in Keys /\ c \in Codes
  BY <1>0, <1>1, <1>3 DEF DeliveryInv, WorkerInv, Early, Answered, LineInv, LTypes, Entry
<1>6. Accepted(c) \/ Rejected(c)
  BY <1>0, <1>1, <1>3 DEF WorkerInv, Settling
<1>7. /\ ref \in Refs /\ o \in TerminalOutcomes /\ s \in Scopes
      /\ o # "PROVIDER_REJECTED" => s = None
      /\ o \in {"PROVIDER_ACCEPTED", "PROVIDER_REJECTED"}
      /\ Accepted(c) => o = "PROVIDER_ACCEPTED"
      /\ Rejected(c) => o = "PROVIDER_REJECTED"
  BY <1>5, RefsAssumption, SettleArguments
<1>8. Go(w, next) /\ next \in {"kill", "outbox"}
  BY <1>1 DEF SettleCall
<1>9. PICK at \in Stamps :
        \/ SettleTerminal(r, d, k, ref, o, s, at)
        \/ SettleLate(r, d, k, ref, o, s, at)
        \/ Replayed("SETTLE", ref, r, SettleInput(d, k, o, s, at))
  BY <1>1, <1>2 DEF SettleCall
<1> HIDE DEF k, ref, o, s, next
<1>10. SettleInput(d, k, o, s, at)[3] = o /\ o # None /\ o # "UNKNOWN_RECONCILING"
  BY <1>7, ConstantsAssumption DEF SettleInput
<1>11. /\ \A x \in Reservations \ {r} : rows'[x] = rows[x]
       /\ rows'[r].outcome = o
       /\ rows[r].outcome \in {None, o}
       /\ \A m \in receipts' \ receipts :
            m.op = "SETTLE" /\ m.reservation = r /\ m.input[3] = o
  <2>1. CASE SettleTerminal(r, d, k, ref, o, s, at)
    BY <1>5, <1>7, <1>10, <2>1, SettleEffect
  <2>2. CASE SettleLate(r, d, k, ref, o, s, at)
    <3>1. /\ rows' = rows /\ Started(rows[r]) /\ Settled(rows[r])
          /\ \A m \in receipts' \ receipts :
               m.op = "SETTLE" /\ m.reservation = r /\ m.input = SettleInput(d, k, o, s, at)
      BY <1>5, <1>7, <2>2, SettleEffect
    <3>2. rows[r].outcome # None
      BY <1>3, <3>1 DEF Shape, Settled
    <3>3. rows[r].outcome = o
      <4>1. CASE Accepted(c)
        <5>1. rows[r].state \in {"CONFIRMED", "REFUNDED"}
          BY <1>0, <1>1, <1>2, <1>4, <4>1 DEF SoloWorker, Confirmed
        <5>2. rows[r].outcome # "PROVIDER_REJECTED"
          BY <1>3, <3>2, <5>1, NextStates DEF Shape
        <5> QED
          BY <1>2, <1>4, <1>7, <3>2, <4>1, <5>2 DEF SoloOf
      <4>2. CASE Rejected(c)
        <5>1. outbox[d].state \notin {"SUBMITTED", "SETTLED"}
          BY <1>0, <1>1, <1>4, <4>2 DEF SoloWorker, Undecided
        <5> QED
          BY <1>2, <1>4, <1>7, <3>2, <4>2, <5>1 DEF SoloOf
      <4> QED
        BY <1>6, <4>1, <4>2
    <3> QED
      BY <1>10, <3>1, <3>3
  <2>3. CASE Replayed("SETTLE", ref, r, SettleInput(d, k, o, s, at))
    <3>1. rows' = rows /\ receipts' = receipts
      BY <2>3, ReplayedRows
    <3>2. PICK m \in receipts : m.op = "SETTLE" /\ m.reservation = r
                                  /\ m.input = SettleInput(d, k, o, s, at)
      BY <2>3 DEF Replayed
    <3>3. rows[r].outcome = o
      BY <1>4, <1>10, <3>2 DEF SoloReceipts
    <3> QED
      BY <3>1, <3>3
  <2> QED
    BY <1>9, <2>1, <2>2, <2>3
<1>12. Others(w)
  BY <1>0, <1>8, GoOthers
<1>13. work'[w].pc = next /\ work'[w].d = d /\ work'[w].code = c
  BY <1>0, <1>1, <1>8, GoFacts
<1>14. \A e \in Deliveries \ {d} : Still(e)
  <2> SUFFICES ASSUME NEW e \in Deliveries \ {d} PROVE Still(e)
    OBVIOUS
  <2>1. ReservationOf[e] \in Reservations \ {r}
    BY <1>2, LineAssumption
  <2> QED
    BY <1>0, <1>11, <2>1 DEF Still, Confirmed
<1>15. SoloReceipts'
  <2> SUFFICES ASSUME NEW m \in receipts'
               PROVE  /\ m.op = "CONFIRM" => m.response.state = "CONFIRMED"
                      /\ m.op = "SETTLE" /\ m.input[3] # "UNKNOWN_RECONCILING" =>
                           m.input[3] # None /\ rows'[m.reservation].outcome = m.input[3]
    BY DEF SoloReceipts
  <2>1. CASE m \in receipts
    BY <1>3, <1>4, <1>11, <2>1 DEF SoloReceipts
  <2>2. CASE m \notin receipts
    BY <1>10, <1>11, <2>2
  <2> QED
    BY <2>1, <2>2
<1>16. SoloOf(d)'
  <2>1. o = "PROVIDER_ACCEPTED" => outbox[d].state \in {"SUBMITTED", "SETTLED"}
    <3> SUFFICES ASSUME Accepted(c) PROVE outbox[d].state \in {"SUBMITTED", "SETTLED"}
      BY <1>6, <1>7
    <3> QED
      BY <1>0, <1>1, <1>4 DEF SoloWorker
  <2>2. outbox[d].state = "SETTLED" => rows[r].outcome = o
    BY <1>2, <1>4, <1>11 DEF SoloOf
  <2> QED
    BY <1>0, <1>2, <1>4, <1>7, <1>11, <2>1, <2>2 DEF SoloOf
<1>17. SoloWorker(w)'
  <2>1. tries[d] # <<>> /\ tries[d][Len(tries[d])] = c
    BY <1>0, <1>1, <1>4 DEF SoloWorker, Settling
  <2>2. next \notin Open
    BY <1>8 DEF Open, PushPath
  <2> QED
    BY <1>0, <1>2, <1>8, <1>11, <1>13, <2>1, <2>2 DEF SoloWorker, o
<1> QED
  BY <1>0, <1>1, <1>12, <1>14, <1>15, <1>16, <1>17, SoloLift

\* A call writes the outbox row of its delivery.
LEMMA SoloOutbox ==
  ASSUME LineInv, SoloInv, Alone, NEW w \in Workers, NEW d \in Deliveries, NEW e \in Entry,
         work[w].pc # "idle", d = work[w].d, Others(w),
         outbox' = [outbox EXCEPT ![d] = e], UNCHANGED <<rvars, tries>>,
         rows[ReservationOf[d]].outcome = "PROVIDER_ACCEPTED" =>
           e.state \in {"SUBMITTED", "SETTLED"},
         e.state = "SETTLED" =>
           /\ e.outcome # None /\ rows[ReservationOf[d]].outcome = e.outcome
           /\ tries[d] # <<>> /\ NormalizedOutcome(tries[d][Len(tries[d])]) = e.outcome,
         SoloWorker(w)'
  PROVE  SoloInv'
<1>1. outbox'[d] = e /\ \A x \in Deliveries \ {d} : outbox'[x] = outbox[x]
  BY DEF LineInv, LTypes
<1>2. rows' = rows /\ receipts' = receipts
  BY DEF rvars
<1>3. \A x \in Deliveries \ {d} : Still(x)
  BY <1>1, <1>2 DEF Still, Confirmed
<1>4. SoloReceipts'
  BY <1>2 DEF SoloInv, SoloReceipts
<1>5. SoloOf(d)'
  BY <1>1, <1>2 DEF SoloInv, SoloOf
<1> QED
  BY <1>3, <1>4, <1>5, SoloLift

\* A row that is created, queued for the push or parked is not settled.
LEMMA SoloUndecided ==
  ASSUME LineInv, SoloInv, Alone, NEW w \in Workers,
         CreateEntry(w) \/ Quarantine(w) \/ Park(w) \/ AdvanceSubmitting(w)
  PROVE  SoloInv'
<1>0. /\ work[w].pc \in {"create", "quarantine", "park", "submitting"}
      /\ work[w].d \in Deliveries /\ LTypes
      /\ UNCHANGED <<rvars, tries>>
  BY DEF CreateEntry, Quarantine, Park, AdvanceSubmitting, At, LineInv, LTypes
<1>1. PICK d \in Deliveries : d = work[w].d
  BY <1>0
<1>2. SoloOf(d) /\ outbox[d] \in Entry /\ SoloWorker(w)
  BY <1>0, <1>1 DEF SoloInv, LTypes
<1>3. CASE CreateEntry(w)
  <2>1. Done(w) /\ Others(w) /\ work'[w].pc = "idle"
    BY <1>0, <1>3, GoOthers, GoFacts DEF CreateEntry
  <2>2. SoloWorker(w)'
    BY <2>1 DEF SoloWorker, Open, PushPath, Settling
  <2>3. CASE outbox' = outbox
    BY <1>0, <2>1, <2>3, SoloGo
  <2>4. ASSUME NEW k \in Keys, outbox[d].state = "NONE",
               outbox' = [outbox EXCEPT ![d] = [state |-> "QUEUED", key |-> k,
                                                version |-> 1, outcome |-> None]]
        PROVE  SoloInv'
    <3> DEFINE e == [state |-> "QUEUED", key |-> k, version |-> 1, outcome |-> None]
    <3>1. e \in Entry /\ e.state = "QUEUED"
      BY DEF Entry, OutboxStates
    <3>2. outbox' = [outbox EXCEPT ![d] = e]
      BY <2>4
    <3>3. rows[ReservationOf[d]].outcome # "PROVIDER_ACCEPTED"
      BY <1>2, <2>4 DEF SoloOf
    <3> HIDE DEF e
    <3> QED
      BY <1>0, <1>1, <2>1, <2>2, <3>1, <3>2, <3>3, SoloOutbox
  <2> QED
    BY <1>1, <1>3, <2>3, <2>4 DEF CreateEntry
<1>4. ASSUME NEW from, NEW s \in {"SUBMITTING", "RECONCILING"},
             from \subseteq {"QUEUED", "SUBMITTING", "RECONCILING"},
             NEW pc, Go(w, pc), pc \in {"expire", "enter", "commit"},
             pc = "commit" => work[w].pc = "submitting",
             Advance(d, from, [outbox[d] EXCEPT !.state = s])
      PROVE  SoloInv'
  <2> DEFINE to == [outbox[d] EXCEPT !.state = s]
  <2>0. s \in OutboxStates /\ s # "SETTLED"
    BY DEF OutboxStates
  <2>1. to \in Entry /\ to.state = s
    BY <1>2, <2>0, MovedRow
  <2>2. Advance(d, from, to)
    BY <1>4
  <2> HIDE DEF to
  <2>3. PICK e \in Entry :
           /\ outbox' = [outbox EXCEPT ![d] = e]
           /\ outbox[d].state \in from => e = to
           /\ outbox[d].state \notin from => e = outbox[d]
    BY <1>0, <2>1, <2>2, AdvanceEffect
  <2>4. Others(w)
    BY <1>0, <1>4, GoOthers
  <2>5. work'[w].pc = pc /\ work'[w].d = d
    BY <1>0, <1>1, <1>4, GoFacts
  <2>6. outbox'[d] = e
    BY <1>0, <2>3 DEF LTypes
  <2>7. pc = "commit" => Undecided(work[w].d)'
    <3> SUFFICES ASSUME pc = "commit" PROVE e.state \notin {"SUBMITTED", "SETTLED"}
      BY <2>5, <2>6 DEF Undecided
    <3>1. outbox[d].state \notin {"SUBMITTED", "SETTLED"}
      BY <1>1, <1>2, <1>4 DEF SoloWorker, Open, PushPath, Undecided
    <3> QED
      BY <2>1, <2>3, <3>1
  <2>8. SoloWorker(w)'
    BY <1>4, <2>5, <2>7 DEF SoloWorker, Open, PushPath, Settling
  <2>9. rows[ReservationOf[d]].outcome = "PROVIDER_ACCEPTED" => e = outbox[d]
    BY <1>2, <1>4, <2>3 DEF SoloOf
  <2>10. e.state = "SETTLED" => e = outbox[d]
    BY <2>0, <2>1, <2>3
  <2> QED
    BY <1>0, <1>1, <1>2, <2>3, <2>4, <2>8, <2>9, <2>10, SoloOutbox DEF SoloOf
<1>5. CASE Quarantine(w)
  BY <1>1, <1>4, <1>5 DEF Quarantine
<1>6. CASE Park(w)
  BY <1>1, <1>4, <1>6 DEF Park
<1>7. CASE AdvanceSubmitting(w)
  BY <1>1, <1>4, <1>7 DEF AdvanceSubmitting, At
<1> QED
  BY <1>3, <1>5, <1>6, <1>7

\* An accepted delivery that nobody has decided meanwhile becomes SUBMITTED,
\* and the outbox is settled with the outcome the reservation has.
LEMMA SoloDecided ==
  ASSUME LineInv, SoloInv, Alone, NEW w \in Workers,
         AdvanceSubmitted(w) \/ SettleOutbox(w)
  PROVE  SoloInv'
<1>0. /\ work[w].pc \in {"submitted", "outbox"} /\ work[w].d \in Deliveries /\ LTypes
      /\ UNCHANGED <<rvars, tries>>
  BY DEF AdvanceSubmitted, SettleOutbox, At, LineInv, LTypes
<1>1. PICK d \in Deliveries, c \in Codes \cup {None} : d = work[w].d /\ c = work[w].code
  BY <1>0 DEF LineInv, LTypes, Work
<1>2. SoloOf(d) /\ outbox[d] \in Entry /\ SoloWorker(w) /\ WorkerInv(w)
        /\ rows' = rows
  BY <1>0, <1>1 DEF SoloInv, LineInv, LTypes, rvars
<1>3. Past(d) /\ tries[d] # <<>> /\ tries[d][Len(tries[d])] = c /\ c \in Codes
  BY <1>0, <1>1, <1>2 DEF WorkerInv, Behind, Answered, SoloWorker, Settling
<1>4. outbox[d].state \in {"SUBMITTING", "SUBMITTED", "RECONCILING", "SETTLED"}
  BY <1>2, <1>3 DEF Past, Entry, OutboxStates
<1>5. CASE AdvanceSubmitted(w)
  <2> DEFINE to == [outbox[d] EXCEPT !.state = "SUBMITTED"]
  <2>1. to \in Entry /\ to.state = "SUBMITTED"
    BY <1>2, MovedRow DEF OutboxStates
  <2>2. Advance(d, {"SUBMITTING", "RECONCILING"}, to) /\ Go(w, "accepted")
          /\ work[w].pc = "submitted"
    BY <1>1, <1>5 DEF AdvanceSubmitted, At
  <2> HIDE DEF to
  <2>3. outbox[d].state \in {"SUBMITTING", "RECONCILING"}
    BY <1>1, <1>2, <1>4, <2>2 DEF SoloWorker, Open, Undecided
  <2>4. PICK e \in Entry : outbox' = [outbox EXCEPT ![d] = e] /\ e.state = "SUBMITTED"
    BY <1>0, <2>1, <2>2, <2>3, AdvanceEffect
  <2>5. Others(w)
    BY <1>0, <2>2, GoOthers
  <2>6. work'[w].pc = "accepted" /\ work'[w].d = d /\ work'[w].code = c
    BY <1>0, <1>1, <2>2, GoFacts
  <2>7. outbox'[d].state = "SUBMITTED"
    BY <1>0, <2>4 DEF LTypes
  <2>8. Accepted(c)
    BY <1>1, <1>2, <2>2 DEF WorkerInv
  <2>9. Confirmed(work[w].d)'
    BY <1>1, <1>2, <2>2, <2>6, <2>8 DEF SoloWorker, Confirmed
  <2>10. SoloWorker(w)'
    BY <1>0, <1>3, <2>6, <2>7, <2>9 DEF SoloWorker, Open, PushPath
  <2> QED
    BY <1>0, <1>1, <2>4, <2>5, <2>10, SoloOutbox
<1>6. CASE SettleOutbox(w)
  <2> DEFINE o == NormalizedOutcome(c)
             to == [outbox[d] EXCEPT !.state = "SETTLED", !.outcome = o]
             from == {"SUBMITTING", "SUBMITTED", "RECONCILING"}
  <2>1. o \in {"PROVIDER_ACCEPTED", "PROVIDER_REJECTED"}
    BY DEF NormalizedOutcome
  <2>2. Advance(d, from, to) /\ Go(w, "exit") /\ work[w].pc = "outbox"
    BY <1>1, <1>6 DEF SettleOutbox, At
  <2>3. rows[ReservationOf[d]].outcome = o /\ NormalizedOutcome(tries[d][Len(tries[d])]) = o
    BY <1>1, <1>2, <1>3, <2>2 DEF SoloWorker
  <2> HIDE DEF o
  <2>4. to \in Entry /\ to.state = "SETTLED" /\ to.outcome = o
    BY <1>2, <2>1 DEF Entry, OutboxStates
  <2> HIDE DEF to
  <2>5. PICK e \in Entry :
           /\ outbox' = [outbox EXCEPT ![d] = e]
           /\ outbox[d].state \in from => e = to
           /\ outbox[d].state \notin from => e = outbox[d]
    BY <1>0, <2>2, <2>4, AdvanceEffect
  <2>6. e.state = "SETTLED" /\ e.outcome = o
    BY <1>2, <1>4, <2>3, <2>4, <2>5 DEF SoloOf
  <2>7. Others(w)
    BY <1>0, <2>2, GoOthers
  <2>8. work'[w].pc = "exit"
    BY <1>0, <2>2, GoFacts
  <2>9. SoloWorker(w)'
    BY <2>8 DEF SoloWorker, Open, PushPath, Settling
  <2>10. o # None
    BY <2>1, ConstantsAssumption
  <2> QED
    BY <1>0, <1>1, <1>3, <2>3, <2>5, <2>6, <2>7, <2>9, <2>10, SoloOutbox
<1> QED
  BY <1>5, <1>6

\* The receipt of the attempt is the last one, and the delivery undecided.
LEMMA SoloRecord ==
  ASSUME LineInv, SoloInv, Alone, NEW w \in Workers, RecordAttempt(w)
  PROVE  SoloInv'
<1>0. /\ work[w].pc = "record" /\ work[w].d \in Deliveries /\ LTypes
      /\ UNCHANGED <<rvars, outbox>>
  BY DEF RecordAttempt, At, LineInv, LTypes
<1>1. PICK d \in Deliveries, c \in Codes \cup {None} : d = work[w].d /\ c = work[w].code
  BY <1>0 DEF LineInv, LTypes, Work
<1>2. /\ SoloOf(d) /\ SoloWorker(w) /\ WorkerInv(w) /\ tries[d] \in Seq(Codes)
      /\ rows' = rows /\ receipts' = receipts
  BY <1>0, <1>1 DEF SoloInv, LineInv, LTypes, rvars
<1>3. Undecided(d) /\ c \in Codes
  BY <1>0, <1>1, <1>2 DEF SoloWorker, Open, WorkerInv, Answered
<1>4. CASE tries' = tries /\ Done(w)
  BY <1>0, <1>4, SoloGo
<1>5. CASE tries' = [tries EXCEPT ![d] = Append(@, c)] /\ Go(w, AfterRecord(c))
  <2>1. Others(w)
    BY <1>0, <1>5, GoOthers
  <2>2. work'[w].pc = AfterRecord(c) /\ work'[w].d = d /\ work'[w].code = c
    BY <1>0, <1>1, <1>5, GoFacts
  <2>3. tries'[d] = Append(tries[d], c) /\ \A e \in Deliveries \ {d} : tries'[e] = tries[e]
    BY <1>0, <1>5 DEF LTypes
  <2>4. tries'[d] # <<>> /\ tries'[d][Len(tries'[d])] = c
    BY <1>2, <1>3, <2>3
  <2>5. AfterRecord(c) \in {"confirm", "settle", "park"}
          /\ (AfterRecord(c) = "settle" => ~Accepted(c))
    BY DEF AfterRecord
  <2>6. Undecided(work[w].d)'
    BY <1>0, <1>3, <2>2 DEF Undecided
  <2>7. SoloWorker(w)'
    BY <2>2, <2>4, <2>5, <2>6 DEF SoloWorker
  <2>8. SoloOf(d)'
    BY <1>0, <1>2, <1>3 DEF SoloOf, Undecided
  <2>9. \A e \in Deliveries \ {d} : Still(e)
    BY <1>0, <1>2, <2>3 DEF Still, Confirmed
  <2>10. SoloReceipts'
    BY <1>2 DEF SoloInv, SoloReceipts
  <2> QED
    BY <1>0, <1>1, <2>1, <2>7, <2>8, <2>9, <2>10, SoloLift
<1> QED
  BY <1>1, <1>4, <1>5 DEF RecordAttempt

\* No call moves and no delivery looks different.
LEMMA SoloEnvironment ==
  ASSUME LineInv, SoloInv, work' = work, \A e \in Deliveries : Still(e), SoloReceipts'
  PROVE  SoloInv'
<1>1. \A e \in Deliveries : SoloOf(e)'
  BY StillOf DEF SoloInv
<1>2. ASSUME NEW v \in Workers PROVE SoloWorker(v)'
  <2>1. CASE work[v].pc = "idle"
    BY <2>1 DEF SoloWorker, Open, PushPath, Settling
  <2>2. CASE work[v].pc # "idle"
    <3>1. work[v].d \in Deliveries /\ SoloWorker(v) /\ work'[v] = work[v]
      BY <2>2 DEF LineInv, LTypes, SoloInv
    <3> QED
      BY <3>1, StillWorker
  <2> QED
    BY <2>1, <2>2
<1> QED
  BY <1>1, <1>2 DEF SoloInv

\* What governance does on its own decides no delivery.
LEMMA SoloGovernance ==
  ASSUME LineInv, SoloInv, Governance
  PROVE  SoloInv'
<1>0. outbox' = outbox /\ tries' = tries /\ work' = work
  BY DEF Governance, lvars
<1>1. ASSUME NEW r \in Reservations
      PROVE  /\ rows'[r].outcome = rows[r].outcome
             /\ rows'[r].state = rows[r].state \/ rows[r].state \in {"NONE", "RESERVED"}
  <2>1. Shape(rows[r])
    BY RowBegun DEF LineInv
  <2>2. \/ rows'[r] = rows[r]
        \/ /\ ~Started(rows[r]) /\ rows'[r].outcome = None
           /\ rows[r].state \in {"NONE", "RESERVED"} \/ rows'[r].state = rows[r].state
    BY GovernanceRows
  <2> QED
    BY <2>1, <2>2 DEF Shape
<1>2. \A e \in Deliveries : Still(e)
  <2> SUFFICES ASSUME NEW e \in Deliveries PROVE Still(e)
    OBVIOUS
  <2>1. ReservationOf[e] \in Reservations
    BY LineAssumption
  <2> QED
    BY <1>0, <1>1, <2>1 DEF Still, Confirmed
<1>3. \A m \in receipts' \ receipts : m.op = "RELEASE"
  BY GovernanceRows
<1>4. SoloReceipts'
  BY <1>1, <1>3, ReceiptsStill DEF SoloInv, LineInv
<1> QED
  BY <1>0, <1>2, <1>4, SoloEnvironment

LEMMA SoloInit == LInit => SoloInv
<1> SUFFICES ASSUME LInit PROVE SoloInv
  OBVIOUS
<1>1. rows = [r \in Reservations |-> NoRow] /\ receipts = {}
  BY DEF LInit, Init
<1>2. \A w \in Workers : work[w].pc = "idle"
  BY NoWorkType DEF LInit
<1>3. ASSUME NEW d \in Deliveries PROVE SoloOf(d)
  <2>1. rows[ReservationOf[d]] = NoRow
    BY <1>1, LineAssumption
  <2>2. NoRow.outcome = None /\ outbox[d].state = "NONE"
    BY DEF NoRow, LInit
  <2>3. None # "PROVIDER_ACCEPTED"
    BY ConstantsAssumption
  <2> QED
    BY <2>1, <2>2, <2>3 DEF SoloOf
<1>4. ASSUME NEW w \in Workers PROVE SoloWorker(w)
  BY <1>2 DEF SoloWorker, Open, PushPath, Settling
<1>5. SoloReceipts
  BY <1>1 DEF SoloReceipts
<1> QED
  BY <1>3, <1>4, <1>5 DEF SoloInv

LEMMA SoloStep == LineInv /\ SoloInv /\ Alone /\ [LNext]_vars => SoloInv'
<1> SUFFICES ASSUME LineInv, SoloInv, Alone, [LNext]_vars PROVE SoloInv'
  OBVIOUS
<1>1. ASSUME NEW w \in Workers, Step(w) PROVE SoloInv'
  <2>1. CASE ClaimCall(w) \/ BeginCall(w) \/ UnknownCall(w)
    BY <2>1, SoloCommands
  <2>2. CASE ConfirmCall(w) \/ SettleCall(w) \/ RecordAttempt(w)
    BY <2>2, SoloConfirm, SoloSettle, SoloRecord
  <2>3. CASE CreateEntry(w) \/ Quarantine(w) \/ Park(w) \/ AdvanceSubmitting(w)
    BY <2>3, SoloUndecided
  <2>4. CASE AdvanceSubmitted(w) \/ SettleOutbox(w)
    BY <2>4, SoloDecided
  <2>5. CASE \/ Gate(w) \/ ReserveSlot(w) \/ ReserveAttempt(w) \/ CommitDelivery(w)
             \/ KillGate(w) \/ ExitUnknown(w) \/ EnterUnknown(w) \/ Emit(w) \/ Throw(w)
    BY <2>5, SoloQuietSteps
  <2>6. CASE History(w) \/ ReserveLogical(w) \/ \E code \in Codes : Push(w, code)
    BY <2>6, SoloReadSteps
  <2> QED
    BY <1>1, <2>1, <2>2, <2>3, <2>4, <2>5, <2>6 DEF Step
<1>2. ASSUME NEW w \in Workers,
             (\E d \in Deliveries : StartEnqueue(w, d) \/ Submit(w, d)) \/ Fault(w)
      PROVE  SoloInv'
  BY <1>2, SoloReadSteps, SoloQuietSteps
<1>3. ASSUME UNCHANGED <<rvars, outbox, tries, work>> PROVE SoloInv'
  <2>1. rows' = rows /\ receipts' = receipts /\ outbox' = outbox /\ tries' = tries
          /\ work' = work
    BY <1>3 DEF rvars
  <2>2. \A e \in Deliveries : Still(e)
    BY <2>1 DEF Still, Confirmed
  <2>3. SoloReceipts'
    BY <2>1 DEF SoloInv, SoloReceipts
  <2> QED
    BY <2>1, <2>2, <2>3, SoloEnvironment
<1>4. ASSUME NEW d \in Deliveries, WindowLapses(d) PROVE SoloInv'
  BY <1>3, <1>4 DEF WindowLapses
<1>5. CASE UNCHANGED vars
  BY <1>3, <1>5 DEF vars, lvars
<1> QED
  BY <1>1, <1>2, <1>4, <1>5, SoloGovernance DEF LNext

\* However often a call dies in between: as long as no two calls work on one
\* delivery at the same time, outbox row, reservation and last receipt of a
\* settled delivery tell one story.  The adapter does not keep the calls apart:
\* with two at once the call that lost a conditional update goes on as if it
\* had won, and the ledgers may disagree.
THEOREM LedgersTellOneStory == LSpec /\ []Alone => []LedgersAgree
<1>1. SoloInv => LedgersAgree
  BY DEF SoloInv, SoloOf, LedgersAgree
<1> QED
  BY <1>1, SoloInit, SoloStep, LineInvariance, PTL DEF LSpec

=============================================================================
