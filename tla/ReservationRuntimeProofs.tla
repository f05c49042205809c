---------------------- MODULE ReservationRuntimeProofs ----------------------
(* Theorems about ReservationRuntime, for every value of its constants. *)
EXTENDS ReservationRuntime, TLAPS

-----------------------------------------------------------------------------
(* The inductive invariant *)

\* How the columns of one row hang together; this is what the commands read
\* before they write, and no single property says all of it.
Shape(row) ==
  /\ row.status = "UNCLAIMED" => row.delivery = None
  /\ row.delivery = None =>
       /\ row.status \in {"UNCLAIMED", "SETTLED"}
       /\ row.version = 0
       /\ row.lease = 0
  /\ row.status = "CLAIMED" => row.state \in {"RESERVED", "RELEASED"} /\ ~Started(row)
  /\ row.status = "UNKNOWN_RECONCILING" =>
       row.state \in {"RESERVED", "RELEASED"} /\ Started(row)
  /\ row.status = "ACCEPTED" => row.state = "CONFIRMED" /\ Started(row)
  /\ row.state = "NONE" => row.status = "UNCLAIMED"
  /\ (Started(row) <=> row.key # None)
  /\ Started(row) => row.delivery # None /\ row.startedAt < row.lease
  /\ row.lease <= row.expiresAt
  /\ (row.outcome # None <=> row.ref # None)
  /\ row.outcome # None =>
       /\ Started(row) /\ row.status = "SETTLED"
       /\ row.state = NextState(row.outcome)
  /\ row.status = "SETTLED" /\ row.outcome = None =>
       /\ ~Started(row)
       /\ row.state = "RELEASED" \/ (row.delivery = None /\ row.state # "RESERVED")

\* What only the sweeper's race can break: state and status agree.
Tight(row) ==
  /\ row.status \in {"CLAIMED", "UNKNOWN_RECONCILING"} => row.state = "RESERVED"
  /\ row.status = "SETTLED" /\ row.outcome = None => row.state = "RELEASED"

\* A row that was swept under a command: it left RESERVED, and a submission
\* begun on it was begun by a worker whose lease has run out since.
Overrun(row) ==
  /\ row.state \notin {"NONE", "RESERVED"}
  /\ Started(row) => row.lease <= now

RowInv(r) ==
  /\ Shape(rows[r]) /\ rows[r].startedAt <= now
  /\ r \notin overtaken => Tight(rows[r])
  /\ r \in overtaken => Overrun(rows[r])

\* What a claim, a renewal and the barrier make of a row.
Claimed(row, d, until) ==
  [row EXCEPT !.delivery = d, !.version = 1, !.lease = until, !.status = "CLAIMED"]

Renewed(row, version, until) == [row EXCEPT !.version = version + 1, !.lease = until]

PastBarrier(row, k, t) ==
  [row EXCEPT !.key = k, !.startedAt = t, !.status = "UNKNOWN_RECONCILING"]

\* What the sweeper, or a release, makes of a row.
Swept(row) == [row EXCEPT !.state = "RELEASED", !.status = "SETTLED"]

\* Between its read and its update the row a command has read is the row
\* still, or that row swept after its expiry; no receipt came in between.
ReadingInv(r) ==
  LET a == reading[r].row IN
  reading[r] # NoReading =>
    /\ Sweepable(a) /\ Shape(a)
    /\ reading[r].at # 0 /\ reading[r].at <= now
    /\ rows[r] = a \/ (rows[r] = Swept(a) /\ Expiry(a) <= now)
    /\ r \notin overtaken
    /\ \A m \in receipts : m.reservation = r =>
         a.status # "UNCLAIMED" /\ m.response.status # "SETTLED"

\* A reservation some command has committed on is claimed, or was given back
\* without: changeReservationState no longer finds it.
ReceiptsClaimed ==
  \A m \in receipts :
    /\ rows[m.reservation].status # "UNCLAIMED"
    /\ rows[m.reservation].delivery = None => rows[m.reservation].state = "RELEASED"

IInv ==
  /\ TypeOK
  /\ \A r \in Reservations : RowInv(r) /\ ReadingInv(r)
  /\ BindingUnique
  /\ ChargedOnce
  /\ ReplayTruthful
  /\ ReceiptsClaimed

-----------------------------------------------------------------------------
(* One row *)

\* What a command may do to the row it has read: nothing once it is settled,
\* and before that it keeps the bindings and only moves forward.
RowStep(a, b) ==
  /\ b \in Row /\ Shape(b)
  /\ a.status = "SETTLED" => b = a
  /\ a.status # "UNCLAIMED" =>
       /\ b.status # "UNCLAIMED"
       /\ b.delivery = a.delivery
       /\ a.version <= b.version /\ a.lease <= b.lease
       /\ Started(a) => Started(b)

\* Row c is row a, or row a after the sweeper.
Under(a, c) ==
  /\ c \in Row
  /\ c.contact = a.contact /\ c.auth = a.auth /\ c.expiresAt = a.expiresAt
  /\ c.delivery = a.delivery /\ c.version = a.version /\ c.lease = a.lease
  /\ c.key = a.key /\ c.startedAt = a.startedAt
  /\ c.outcome = a.outcome /\ c.ref = a.ref
  /\ \/ c.state = a.state /\ c.status = a.status
     \/ c.state = "RELEASED" /\ c.status = "SETTLED"

\* Nothing becomes the delivery or the key of two rows.
Fresh(r, b) ==
  \A o \in Reservations \ {r} :
    /\ b.delivery # None => rows[o].delivery # b.delivery
    /\ b.key # None => rows[o].key # b.key

\* The row keeps what an Attempt refers to.
SameCharge(a, b) == b.ref = a.ref /\ b.outcome = a.outcome

\* A row that keeps its delivery and key shares them with nobody new.
LEMMA SameBindingFresh ==
  ASSUME BindingUnique, NEW r \in Reservations, NEW b,
         b.delivery = rows[r].delivery, b.key = rows[r].key
  PROVE  Fresh(r, b)
BY DEF BindingUnique, Fresh

\* The row itself, and what the sweeper makes of it.
LEMMA UnderRow ==
  ASSUME NEW a \in Row, NEW c, c = a \/ c = Swept(a)
  PROVE  Under(a, c)
BY DEF Under, Swept, Row, States, Statuses

\* A claim is a legal step of an unclaimed row, swept meanwhile or not.
LEMMA ClaimRow ==
  ASSUME NEW a \in Row, Shape(a), NEW c \in Row, Under(a, c),
         NEW d \in Deliveries, NEW until \in Nat, NEW b,
         a.state = "RESERVED", a.status = "UNCLAIMED", until <= a.expiresAt,
         b = Claimed(c, d, until)
  PROVE  RowStep(a, b) /\ SameCharge(a, b) /\ b.delivery = d /\ b.key = a.key
           /\ b.startedAt = a.startedAt /\ b.status = "CLAIMED" /\ b.state = c.state
           /\ ~Started(b)
<1>1. b \in Row
  BY DEF Claimed, Under, Row, Statuses, States
<1>2. /\ b.state = c.state /\ b.status = "CLAIMED" /\ b.contact = a.contact
      /\ b.auth = a.auth /\ b.expiresAt = a.expiresAt /\ b.delivery = d
      /\ b.version = 1 /\ b.lease = until /\ b.key = a.key
      /\ b.startedAt = a.startedAt /\ b.outcome = a.outcome /\ b.ref = a.ref
      /\ b.state \in {"RESERVED", "RELEASED"}
  BY DEF Claimed, Under, Row
<1>3. Shape(b) /\ ~Started(b)
  BY <1>1, <1>2, ConstantsAssumption DEF Shape, Started, Settled, Row, Statuses
<1> QED
  BY <1>1, <1>2, <1>3 DEF RowStep, Shape, SameCharge, Started, Settled, Row

\* A renewal is a legal step of a claimed row, swept meanwhile or not.
LEMMA RenewRow ==
  ASSUME NEW a \in Row, Shape(a), NEW c \in Row, Under(a, c), NEW until \in Nat, NEW b,
         a.state = "RESERVED", a.status = "CLAIMED", ~Started(a),
         a.lease < until, until <= a.expiresAt,
         b = Renewed(c, a.version, until)
  PROVE  RowStep(a, b) /\ SameCharge(a, b) /\ b.delivery = a.delivery /\ b.key = a.key
           /\ b.startedAt = a.startedAt /\ b.status = c.status /\ b.state = c.state
           /\ ~Started(b)
<1>0. a.version + 1 \in Nat
  BY DEF Row
<1>1. b \in Row
  BY <1>0 DEF Renewed, Under, Row
<1>2. /\ b.state = c.state /\ b.status = c.status /\ b.contact = a.contact
      /\ b.auth = a.auth /\ b.expiresAt = a.expiresAt /\ b.delivery = a.delivery
      /\ b.version = a.version + 1 /\ b.lease = until /\ b.key = a.key
      /\ b.startedAt = a.startedAt /\ b.outcome = a.outcome /\ b.ref = a.ref
      /\ \/ b.state = "RESERVED" /\ b.status = "CLAIMED"
         \/ b.state = "RELEASED" /\ b.status = "SETTLED"
  BY DEF Renewed, Under, Row
<1>3. Shape(b) /\ ~Started(b)
  BY <1>1, <1>2, ConstantsAssumption DEF Shape, Started, Settled, Row, Statuses
<1> QED
  BY <1>1, <1>2, <1>3 DEF RowStep, Shape, SameCharge, Started, Settled, Row

\* The barrier is a legal step of a claimed row, swept meanwhile or not.
LEMMA BeginRow ==
  ASSUME NEW a \in Row, Shape(a), NEW c \in Row, Under(a, c), NEW k \in Keys, NEW b,
         NEW t \in Nat, t # 0, t < a.lease,
         a.state = "RESERVED", a.status = "CLAIMED", ~Started(a),
         b = PastBarrier(c, k, t)
  PROVE  RowStep(a, b) /\ SameCharge(a, b) /\ b.delivery = a.delivery /\ b.key = k
           /\ b.startedAt = t /\ b.status = "UNKNOWN_RECONCILING" /\ b.state = c.state
           /\ b.lease = a.lease /\ Started(b)
<1>1. b \in Row
  BY DEF PastBarrier, Under, Row, Statuses
<1>2. /\ b.state = c.state /\ b.status = "UNKNOWN_RECONCILING" /\ b.contact = a.contact
      /\ b.auth = a.auth /\ b.expiresAt = a.expiresAt /\ b.delivery = a.delivery
      /\ b.version = a.version /\ b.lease = a.lease /\ b.key = k
      /\ b.startedAt = t /\ b.outcome = a.outcome /\ b.ref = a.ref
      /\ b.state \in {"RESERVED", "RELEASED"}
  BY DEF PastBarrier, Under, Row
<1>3. Shape(b) /\ Started(b)
  BY <1>1, <1>2, ConstantsAssumption DEF Shape, Started, Settled, Row, Statuses
<1> QED
  BY <1>1, <1>2, <1>3 DEF RowStep, Shape, SameCharge, Started, Settled, Row

\* The acceptance is a legal step of a row past the barrier.
LEMMA ConfirmRow ==
  ASSUME NEW a \in Row, Shape(a), NEW b, Started(a), ~Settled(a), a.state = "RESERVED",
         b = [a EXCEPT !.state = "CONFIRMED", !.status = "ACCEPTED"]
  PROVE  RowStep(a, b) /\ SameCharge(a, b) /\ b.delivery = a.delivery /\ b.key = a.key
           /\ b.startedAt = a.startedAt
<1>1. b \in Row
  BY DEF Row, Statuses, States
<1>2. /\ b.state = "CONFIRMED" /\ b.status = "ACCEPTED" /\ b.contact = a.contact
      /\ b.auth = a.auth /\ b.expiresAt = a.expiresAt /\ b.delivery = a.delivery
      /\ b.version = a.version /\ b.lease = a.lease /\ b.key = a.key
      /\ b.startedAt = a.startedAt /\ b.outcome = a.outcome /\ b.ref = a.ref
  BY DEF Row
<1>3. Shape(b)
  BY <1>1, <1>2, ConstantsAssumption DEF Shape, Started, Settled, Row, Statuses
<1> QED
  BY <1>1, <1>2, <1>3 DEF RowStep, Shape, SameCharge, Started, Settled, CanBecome, Row

\* A release is a legal step of a row before the barrier, swept meanwhile or not.
LEMMA ReleaseRow ==
  ASSUME NEW a \in Row, Shape(a), NEW c \in Row, Under(a, c), NEW b, ~Started(a),
         a.state = "RESERVED", a.status # "SETTLED",
         b = Swept(c)
  PROVE  RowStep(a, b) /\ SameCharge(a, b) /\ b.delivery = a.delivery /\ b.key = a.key
           /\ b.startedAt = a.startedAt /\ b.status = "SETTLED" /\ b.state = "RELEASED"
           /\ ~Started(b)
<1>1. b \in Row
  BY DEF Swept, Under, Row, Statuses, States
<1>2. /\ b.state = "RELEASED" /\ b.status = "SETTLED" /\ b.contact = a.contact
      /\ b.auth = a.auth /\ b.expiresAt = a.expiresAt /\ b.delivery = a.delivery
      /\ b.version = a.version /\ b.lease = a.lease /\ b.key = a.key
      /\ b.startedAt = a.startedAt /\ b.outcome = a.outcome /\ b.ref = a.ref
  BY DEF Swept, Under, Row
<1>3. Shape(b) /\ ~Started(b)
  BY <1>1, <1>2, ConstantsAssumption DEF Shape, Started, Settled, Row, Statuses
<1> QED
  BY <1>1, <1>2, <1>3 DEF RowStep, Shape, SameCharge, Started, Settled, Row

\* An unknown outcome leaves a row past the barrier as it is.
LEMMA SettleUnknownRow ==
  ASSUME NEW a \in Row, Shape(a), NEW b, Started(a), ~Settled(a), a.status # "ACCEPTED",
         b = [a EXCEPT !.status = "UNKNOWN_RECONCILING"]
  PROVE  RowStep(a, b) /\ b = a
<1>1. a.status = "UNKNOWN_RECONCILING"
  BY DEF Row, Shape, Settled, Statuses
<1>2. b = a
  BY <1>1 DEF Row
<1> QED
  BY <1>1, <1>2 DEF RowStep, CanBecome, Row

-----------------------------------------------------------------------------
(* The tables *)

\* CanBecome is an order.
LEMMA CanBecomeTransitive ==
  ASSUME NEW s, NEW t, NEW u, CanBecome(s, t), CanBecome(t, u)
  PROVE  CanBecome(s, u)
BY DEF CanBecome

\* What every command may assume about the row it locks.
LEMMA RowFacts ==
  ASSUME IInv, NEW r \in Reservations
  PROVE  /\ rows[r] \in Row /\ Shape(rows[r]) /\ rows[r].startedAt <= now
         /\ now \in Nat \ {0}
BY DEF IInv, TypeOK, RowInv

\* What it may assume about the row it has read: the row it is about to
\* update is that row, or that row swept after its expiry.
LEMMA SeenFacts ==
  ASSUME IInv, NEW r \in Reservations
  PROVE  /\ Seen(r) \in Row /\ Shape(Seen(r)) /\ Under(Seen(r), rows[r])
         /\ Clock(r) \in Nat \ {0} /\ Clock(r) <= now
         /\ \/ rows[r] = Seen(r)
            \/ /\ reading[r] # NoReading
               /\ rows[r] = Swept(Seen(r)) /\ Sweepable(Seen(r)) /\ r \notin overtaken
               /\ Expiry(Seen(r)) <= now
               /\ rows[r].state = "RELEASED" /\ rows[r].status = "SETTLED"
<1>1. /\ rows[r] \in Row /\ reading[r].row \in Row /\ reading[r].at \in Nat
      /\ now \in Nat \ {0} /\ Shape(rows[r]) /\ ReadingInv(r)
  BY DEF IInv, TypeOK, RowInv
<1>2. CASE reading[r] = NoReading
  <2>1. Seen(r) = rows[r] /\ Clock(r) = now
    BY <1>2 DEF Seen, Clock
  <2> QED
    BY <1>1, <2>1, UnderRow
<1>3. CASE reading[r] # NoReading
  <2>1. Seen(r) = reading[r].row /\ Clock(r) = reading[r].at
    BY <1>3 DEF Seen, Clock
  <2>2. /\ Sweepable(Seen(r)) /\ Shape(Seen(r)) /\ r \notin overtaken
        /\ Clock(r) # 0 /\ Clock(r) <= now
        /\ rows[r] = Seen(r) \/ (rows[r] = Swept(Seen(r)) /\ Expiry(Seen(r)) <= now)
    BY <1>1, <1>3, <2>1 DEF ReadingInv
  <2>3. Under(Seen(r), rows[r])
    BY <1>1, <2>1, <2>2, UnderRow
  <2>4. Swept(Seen(r)).state = "RELEASED" /\ Swept(Seen(r)).status = "SETTLED"
    BY <1>1, <2>1 DEF Swept, Row
  <2> QED
    BY <1>1, <1>3, <2>1, <2>2, <2>3, <2>4
<1> QED
  BY <1>2, <1>3

\* The receipts of a reservation are true of the row a command has read.
LEMMA SeenTruthful ==
  ASSUME IInv, NEW r \in Reservations, NEW m \in receipts, m.reservation = r
  PROVE  /\ TruthfulOf(m, Seen(r)) /\ Seen(r).status # "UNCLAIMED"
         /\ r \notin overtaken => CanBecome(m.response.state, rows[r].state)
<1>1. /\ TruthfulOf(m, rows[r]) /\ rows[r].status # "UNCLAIMED"
      /\ r \notin overtaken => CanBecome(m.response.state, rows[r].state)
  BY DEF IInv, ReplayTruthful, ReceiptsClaimed
<1>2. CASE rows[r] = Seen(r)
  BY <1>1, <1>2
<1>3. CASE reading[r] # NoReading
  <2>1. Seen(r).status # "UNCLAIMED" /\ m.response.status # "SETTLED"
    BY <1>3 DEF IInv, ReadingInv, Seen
  <2>2. TruthfulOf(m, Seen(r))
    BY <1>1, <2>1, SeenFacts DEF TruthfulOf, Under, Started
  <2> QED
    BY <1>1, <2>1, <2>2
<1> QED
  BY <1>2, <1>3, SeenFacts

\* A submission that was begun is past the sweeper: nobody reads it ahead.
LEMMA StartedSeen ==
  ASSUME IInv, NEW r \in Reservations, Started(rows[r])
  PROVE  reading[r] = NoReading /\ Seen(r) = rows[r]
<1>1. reading[r] # NoReading => Sweepable(reading[r].row) /\ Seen(r) = reading[r].row
  BY DEF IInv, ReadingInv, Seen
<1>2. Seen(r).startedAt = rows[r].startedAt
  BY SeenFacts DEF Under
<1> QED
  BY <1>1, <1>2 DEF Sweepable, Started, Seen

\* The row before authorizeAndReserve is a row.
LEMMA NoRowTyped == NoRow \in Row /\ Shape(NoRow) /\ Tight(NoRow)
BY ConstantsAssumption DEF NoRow, Row, Shape, Tight, Started, States, Statuses

\* What a command may write over the row it has read.
Legal(r, b) ==
  /\ RowStep(Seen(r), b)
  /\ r \notin overtaken' => Tight(b) /\ CanBecome(Seen(r).state, b.state)
  /\ r \in overtaken' => Overrun(b)

\* The receipts after a command stay truthful.
LEMMA CommitReceipts ==
  ASSUME IInv, NEW op \in Operations, NEW key, NEW r \in Reservations, NEW input, NEW b,
         Commit(op, key, r, input, b), Legal(r, b), b.status # "UNCLAIMED",
         b.delivery = None => b.state = "RELEASED",
         op \in {"BEGIN_SUBMISSION", "CONFIRM", "SETTLE"} => Started(b)
  PROVE  /\ rows' \in [Reservations -> Row]
         /\ \A m \in receipts' : /\ m.op \in Operations
                                 /\ m.reservation \in Reservations
                                 /\ m.response \in Response
         /\ ReplayTruthful' /\ ReceiptsClaimed'
<1> DEFINE new == [op |-> op, key |-> key, reservation |-> r, input |-> input,
                   response |-> View(b)]
<1>1. /\ rows \in [Reservations -> Row] /\ b \in Row
      /\ rows' = [rows EXCEPT ![r] = b] /\ receipts' = receipts \cup {new}
      /\ ~HasReceipt(op, key)
      /\ overtaken' = IF rows[r] = Seen(r) THEN overtaken ELSE overtaken \cup {r}
  BY DEF IInv, TypeOK, Commit, Update, Legal, RowStep
<1>2. /\ new.op = op /\ new.key = key /\ new.reservation = r
      /\ new.response = View(b)
  OBVIOUS
<1>3. View(b) \in Response /\ View(b).delivery = b.delivery /\ View(b).version = b.version
        /\ View(b).state = b.state /\ View(b).status = b.status
        /\ View(b).lease = b.lease
  BY <1>1 DEF View, Response, Row
<1> HIDE DEF new
<1>4. rows' \in [Reservations -> Row] /\ rows'[r] = b
        /\ \A o \in Reservations : o # r => rows'[o] = rows[o]
  BY <1>1
<1>5. \A m \in receipts' : m.op \in Operations /\ m.reservation \in Reservations
                             /\ m.response \in Response
  BY <1>1, <1>2, <1>3 DEF IInv, TypeOK
<1>6. \A m, n \in receipts' : m.op = n.op /\ m.key = n.key => m = n
  BY <1>1, <1>2 DEF IInv, ReplayTruthful, HasReceipt
<1>7. ASSUME NEW m \in receipts
      PROVE  /\ TruthfulOf(m, rows'[m.reservation]) /\ rows'[m.reservation].status # "UNCLAIMED"
             /\ rows'[m.reservation].delivery = None => rows'[m.reservation].state = "RELEASED"
             /\ m.reservation \notin overtaken' =>
                  CanBecome(m.response.state, rows'[m.reservation].state)
  <2>1. m.reservation \in Reservations /\ m.response \in Response
    BY DEF IInv, TypeOK
  <2>3. CASE m.reservation # r
    <3>1. /\ TruthfulOf(m, rows[m.reservation]) /\ rows[m.reservation].status # "UNCLAIMED"
          /\ rows[m.reservation].delivery = None => rows[m.reservation].state = "RELEASED"
          /\ m.reservation \notin overtaken =>
               CanBecome(m.response.state, rows[m.reservation].state)
      BY DEF IInv, ReplayTruthful, ReceiptsClaimed
    <3> QED
      BY <1>1, <1>4, <2>1, <2>3, <3>1
  <2>4. CASE m.reservation = r
    <3> DEFINE a == Seen(r)
    <3>0. /\ TruthfulOf(m, a) /\ a.status # "UNCLAIMED" /\ a \in Row
          /\ r \notin overtaken => CanBecome(m.response.state, rows[r].state)
      BY <2>4, SeenTruthful, SeenFacts
    <3>1. /\ b.status # "UNCLAIMED" /\ b.delivery = a.delivery
          /\ a.version <= b.version /\ a.lease <= b.lease
          /\ Started(a) => Started(b)
          /\ a.status = "SETTLED" => b = a
          /\ r \notin overtaken' => CanBecome(a.state, b.state)
      BY <3>0 DEF Legal, RowStep
    <3> HIDE DEF a
    <3>2. m.response.version <= b.version /\ m.response.lease <= b.lease
      BY <1>1, <2>1, <3>0, <3>1 DEF Row, Response, TruthfulOf
    <3>4. m.response.status = "SETTLED" => m.response = View(b)
      BY <1>1, <3>0, <3>1 DEF View, TruthfulOf
    <3>5. TruthfulOf(m, b)
      BY <3>0, <3>1, <3>2, <3>4 DEF TruthfulOf
    <3>6. ASSUME r \notin overtaken' PROVE CanBecome(m.response.state, b.state)
      <4>1. rows[r] = a /\ r \notin overtaken
        BY <1>1, <3>6 DEF a
      <4> QED
        BY <3>0, <3>1, <3>6, <4>1, CanBecomeTransitive
    <3> QED
      BY <1>4, <2>4, <3>1, <3>5, <3>6
  <2> QED
    BY <2>3, <2>4
<1>8. /\ TruthfulOf(new, rows'[new.reservation]) /\ rows'[new.reservation].status # "UNCLAIMED"
      /\ rows'[new.reservation].delivery = None => rows'[new.reservation].state = "RELEASED"
      /\ CanBecome(new.response.state, rows'[new.reservation].state)
  BY <1>1, <1>2, <1>3, <1>4 DEF TruthfulOf, CanBecome, Row
<1>9. \A m \in receipts' : /\ TruthfulOf(m, rows'[m.reservation])
                           /\ rows'[m.reservation].status # "UNCLAIMED"
                           /\ rows'[m.reservation].delivery = None =>
                                rows'[m.reservation].state = "RELEASED"
                           /\ m.reservation \notin overtaken' =>
                                CanBecome(m.response.state, rows'[m.reservation].state)
  BY <1>1, <1>7, <1>8
<1>10. ReplayTruthful'
  BY <1>6, <1>9 DEF ReplayTruthful
<1>11. ReceiptsClaimed'
  BY <1>9 DEF ReceiptsClaimed
<1> QED
  BY <1>4, <1>5, <1>10, <1>11

\* After a command its reading is over and those of the others are as before.
LEMMA UpdateReadings ==
  ASSUME IInv, NEW r \in Reservations, NEW b, Update(r, b),
         \A m \in receipts' : m \in receipts \/ m.reservation = r,
         now' = now
  PROVE  \A o \in Reservations : ReadingInv(o)'
<1>1. /\ rows \in [Reservations -> Row] /\ overtaken' \subseteq overtaken \cup {r}
      /\ rows' = [rows EXCEPT ![r] = b] /\ reading' = [reading EXCEPT ![r] = NoReading]
      /\ reading \in [Reservations -> [row : Row, at : Nat]]
  BY DEF IInv, TypeOK, Update
<1> SUFFICES ASSUME NEW o \in Reservations PROVE ReadingInv(o)'
  OBVIOUS
<1>2. CASE o = r
  BY <1>1, <1>2 DEF ReadingInv
<1>3. CASE o # r
  <2>1. reading'[o] = reading[o] /\ rows'[o] = rows[o] /\ (o \in overtaken' => o \in overtaken)
    BY <1>1, <1>3
  <2>2. ReadingInv(o)
    BY DEF IInv
  <2> QED
    BY <1>3, <2>1, <2>2 DEF ReadingInv
<1> QED
  BY <1>2, <1>3

\* The types of what no table holds.
LEMMA UpdateTypes ==
  ASSUME IInv, NEW r \in Reservations, NEW b, Update(r, b)
  PROVE  /\ reading' \in [Reservations -> [row : Row, at : Nat]]
         /\ overtaken' \subseteq Reservations
<1>1. NoReading \in [row : Row, at : Nat]
  BY NoRowTyped DEF NoReading
<1> QED
  BY <1>1 DEF Update, IInv, TypeOK

\* A legal update keeps the facts about every row.
LEMMA UpdateRows ==
  ASSUME IInv, NEW r \in Reservations, NEW b, Update(r, b), Shape(b), b.startedAt <= now,
         r \notin overtaken' => Tight(b), r \in overtaken' => Overrun(b), now' = now
  PROVE  \A o \in Reservations : RowInv(o)'
<1>1. /\ rows \in [Reservations -> Row] /\ overtaken' \subseteq overtaken \cup {r}
      /\ overtaken \subseteq overtaken' /\ rows' = [rows EXCEPT ![r] = b]
  BY DEF IInv, TypeOK, Update
<1> SUFFICES ASSUME NEW o \in Reservations PROVE RowInv(o)'
  OBVIOUS
<1>2. CASE o = r
  BY <1>1, <1>2 DEF RowInv, Overrun
<1>3. CASE o # r
  <2>1. rows'[o] = rows[o] /\ (o \in overtaken' <=> o \in overtaken) /\ RowInv(o)
    BY <1>1, <1>3 DEF IInv
  <2> QED
    BY <2>1 DEF RowInv, Overrun
<1> QED
  BY <1>2, <1>3

\* A row that keeps its bindings to itself keeps BindingUnique.
LEMMA KeepBindings ==
  ASSUME IInv, NEW r \in Reservations, NEW b \in Row, rows' = [rows EXCEPT ![r] = b],
         Fresh(r, b), rows[r].delivery # None => b.delivery = rows[r].delivery,
         Started(rows[r]) => Started(b)
  PROVE  /\ \A p, o \in Reservations :
              p # o => /\ rows'[p].delivery # None => rows'[o].delivery # rows'[p].delivery
                       /\ rows'[p].key # None => rows'[o].key # rows'[p].key
         /\ \A f \in Refs :
              attempts[f] # None =>
                /\ rows'[attempts[f].reservation].delivery = attempts[f].delivery
                /\ Started(rows'[attempts[f].reservation])
<1>1. rows \in [Reservations -> Row] /\ attempts \in [Refs -> Fact \cup {None}]
  BY DEF IInv, TypeOK
<1>2. \A p, o \in Reservations :
       p # o => /\ rows'[p].delivery # None => rows'[o].delivery # rows'[p].delivery
                /\ rows'[p].key # None => rows'[o].key # rows'[p].key
  BY <1>1 DEF IInv, BindingUnique, Fresh
<1>3. ASSUME NEW f \in Refs, attempts[f] # None
      PROVE  /\ rows'[attempts[f].reservation].delivery = attempts[f].delivery
             /\ Started(rows'[attempts[f].reservation])
  <2>1. attempts[f].reservation \in Reservations
    BY <1>1, <1>3 DEF Fact
  <2>2. /\ rows[attempts[f].reservation].delivery = attempts[f].delivery
        /\ Started(rows[attempts[f].reservation])
    BY <1>3 DEF IInv, BindingUnique
  <2>3. Shape(rows[attempts[f].reservation])
    BY <2>1 DEF IInv, RowInv
  <2>4. rows[attempts[f].reservation].delivery # None
    BY <2>2, <2>3 DEF Shape
  <2> QED
    BY <1>1, <2>1, <2>2, <2>4
<1> QED
  BY <1>2, <1>3

\* BindingUnique after a command that keeps the facts.
LEMMA UpdateBindings ==
  ASSUME IInv, NEW r \in Reservations, NEW b \in Row, rows' = [rows EXCEPT ![r] = b],
         Fresh(r, b), rows[r].delivery # None => b.delivery = rows[r].delivery,
         Started(rows[r]) => Started(b), UNCHANGED attempts
  PROVE  BindingUnique'
BY KeepBindings DEF BindingUnique

\* A row that keeps its outcome and reference keeps the charges.
LEMMA UpdateCharges ==
  ASSUME IInv, NEW r \in Reservations, NEW b \in Row, rows' = [rows EXCEPT ![r] = b],
         SameCharge(rows[r], b), UNCHANGED <<attempts, touches>>
  PROVE  ChargedOnce'
<1>1. rows \in [Reservations -> Row] /\ attempts \in [Refs -> Fact \cup {None}]
  BY DEF IInv, TypeOK
<1>2. \A o \in Reservations : rows'[o].ref = rows[o].ref /\ rows'[o].outcome = rows[o].outcome
  BY <1>1 DEF SameCharge
<1>3. \A f \in Refs : attempts[f] # None => attempts[f].reservation \in Reservations
  BY <1>1 DEF Fact
<1> QED
  BY <1>2, <1>3 DEF IInv, ChargedOnce

\* The invariant after a command that neither settles nor charges.
LEMMA CommitInv ==
  ASSUME IInv, NEW op \in Operations, NEW key, NEW r \in Reservations, NEW input, NEW b,
         Commit(op, key, r, input, b), Legal(r, b), b.status # "UNCLAIMED",
         b.delivery = None => b.state = "RELEASED",
         op \in {"BEGIN_SUBMISSION", "CONFIRM", "SETTLE"} => Started(b),
         SameCharge(rows[r], b), Fresh(r, b), b.startedAt <= now,
         rows[r].delivery # None => b.delivery = rows[r].delivery,
         Started(rows[r]) => Started(b),
         UNCHANGED <<attempts, touches, head, now>>
  PROVE  IInv'
<1>1. /\ Update(r, b) /\ rows' = [rows EXCEPT ![r] = b] /\ b \in Row
      /\ \A m \in receipts' : m \in receipts \/ m.reservation = r
  BY DEF Commit, Update, Legal, RowStep
<1>2. ReplayTruthful' /\ ReceiptsClaimed'
  BY CommitReceipts
<1>3. \A o \in Reservations : RowInv(o)' /\ ReadingInv(o)'
  BY <1>1, UpdateRows, UpdateReadings DEF Legal, RowStep
<1>4. TypeOK'
  BY <1>1, UpdateTypes, CommitReceipts DEF IInv, TypeOK
<1>6. BindingUnique'
  BY <1>1, UpdateBindings
<1>7. ChargedOnce'
  BY <1>1, UpdateCharges
<1> QED
  BY <1>2, <1>3, <1>4, <1>6, <1>7 DEF IInv

-----------------------------------------------------------------------------
(* One lemma per operation *)

\* A command on a reserved row finds it as it has read it, or overtaken.
LEMMA Overtaking ==
  ASSUME IInv, NEW r \in Reservations, NEW b, Update(r, b), Seen(r).state = "RESERVED"
  PROVE  \/ rows[r] = Seen(r) /\ r \notin overtaken' /\ overtaken' = overtaken
         \/ /\ rows[r] # Seen(r) /\ r \in overtaken' /\ overtaken' = overtaken \cup {r}
            /\ rows[r].state = "RELEASED" /\ rows[r].status = "SETTLED"
            /\ Expiry(Seen(r)) <= now /\ Sweepable(Seen(r))
<1>1. CASE rows[r] = Seen(r)
  BY <1>1 DEF Update, IInv, RowInv, Overrun
<1>2. CASE rows[r] # Seen(r)
  BY <1>2, SeenFacts DEF Update
<1> QED
  BY <1>1, <1>2

\* Reserve keeps the invariant: no receipt or Attempt names a row not yet inserted.
LEMMA ReserveInv ==
  ASSUME IInv, NEW r \in Reservations, NEW c \in Contacts, NEW pinned \in BOOLEAN,
         Reserve(r, c, pinned)
  PROVE  IInv'
<1> DEFINE b == [NoRow EXCEPT !.state = "RESERVED", !.contact = c,
                              !.expiresAt = now + TTL,
                              !.auth = IF pinned THEN head[c] ELSE None]
<1>1. /\ rows' = [rows EXCEPT ![r] = b] /\ rows[r].state = "NONE"
      /\ UNCHANGED <<receipts, attempts, touches, head, now, reading, overtaken>>
  BY DEF Reserve
<1>2. now + TTL \in Nat /\ head[c] \in Nat
  BY ConstantsAssumption DEF IInv, TypeOK
<1>3. /\ b \in Row /\ b.delivery = None /\ b.key = None /\ b.startedAt = 0
      /\ b.status = "UNCLAIMED" /\ b.outcome = None /\ b.ref = None
      /\ b.lease = 0 /\ b.expiresAt = now + TTL /\ b.version = 0
      /\ b.state = "RESERVED"
  BY <1>2, ConstantsAssumption DEF NoRow, Row, States, Statuses
<1> HIDE DEF b
<1>4. Shape(b) /\ Tight(b) /\ b.startedAt <= now
  BY <1>2, <1>3, RowFacts DEF Shape, Tight, Started
<1>5. /\ rows[r] \in Row /\ Shape(rows[r]) /\ rows[r].status = "UNCLAIMED"
      /\ ~Started(rows[r]) /\ rows[r].delivery = None
  BY <1>1, RowFacts DEF Shape
<1>6. rows[r].outcome = None /\ rows[r].ref = None
  BY <1>5 DEF Shape
<1>7. BindingUnique'
  BY <1>1, <1>3, <1>5, UpdateBindings DEF Fresh
<1>8. ChargedOnce'
  BY <1>1, <1>3, <1>6, UpdateCharges DEF SameCharge
<1>9. \A m \in receipts : m.reservation # r
  BY <1>5 DEF IInv, ReceiptsClaimed
<1>10. ReplayTruthful' /\ ReceiptsClaimed'
  <2>1. \A m \in receipts : m.reservation \in Reservations /\ rows'[m.reservation] = rows[m.reservation]
    BY <1>1, <1>9 DEF IInv, TypeOK
  <2> QED
    BY <1>1, <2>1 DEF IInv, ReplayTruthful, ReceiptsClaimed
<1>11. TypeOK'
  BY <1>1, <1>3 DEF IInv, TypeOK
<1>12. r \notin overtaken /\ reading[r] = NoReading
  <2>1. rows[r] = Seen(r)
    BY <1>1, SeenFacts
  <2> QED
    BY <1>1, <2>1 DEF IInv, RowInv, Overrun, ReadingInv, Seen, Sweepable
<1>13. \A o \in Reservations : RowInv(o)'
  <2> SUFFICES ASSUME NEW o \in Reservations PROVE RowInv(o)'
    OBVIOUS
  <2>1. CASE o = r
    BY <1>1, <1>4, <1>12, <2>1 DEF RowInv, IInv, TypeOK
  <2>2. CASE o # r
    BY <1>1, <2>2 DEF RowInv, IInv, TypeOK, Overrun
  <2> QED
    BY <2>1, <2>2
<1>14. \A o \in Reservations : ReadingInv(o)'
  <2> SUFFICES ASSUME NEW o \in Reservations PROVE ReadingInv(o)'
    OBVIOUS
  <2>1. CASE o = r
    BY <1>1, <1>12, <2>1 DEF ReadingInv
  <2>2. CASE o # r
    BY <1>1, <2>2 DEF ReadingInv, IInv, TypeOK
  <2> QED
    BY <2>1, <2>2
<1> QED
  BY <1>7, <1>8, <1>10, <1>11, <1>13, <1>14 DEF IInv

\* Claim keeps the invariant.
LEMMA ClaimInv ==
  ASSUME IInv, NEW r \in Reservations, NEW d \in Deliveries, NEW until \in Nat,
         Claim(r, d, until)
  PROVE  IInv'
<1> DEFINE a == Seen(r)
           c == rows[r]
           b == Claimed(c, d, until)
<1>1. /\ a.state = "RESERVED" /\ a.status = "UNCLAIMED" /\ until <= a.expiresAt
      /\ \A o \in Reservations \ {r} : rows[o].delivery # d
      /\ Commit("CLAIM", r, r, <<d, until>>, b)
      /\ UNCHANGED <<attempts, touches, head, now>>
  BY DEF Claim, Claimed
<1>0. /\ a \in Row /\ Shape(a) /\ c \in Row /\ Under(a, c)
      /\ b = Claimed(c, d, until)
  BY SeenFacts, RowFacts
<1> HIDE DEF b
<1>2. /\ RowStep(a, b) /\ SameCharge(a, b) /\ b.delivery = d /\ b.key = a.key
      /\ b.startedAt = a.startedAt /\ b.status = "CLAIMED" /\ b.state = c.state
      /\ ~Started(b)
  <2> HIDE DEF a, c
  <2> QED
    BY <1>0, <1>1, ClaimRow
<1>3. Legal(r, b)
  BY <1>1, <1>2, Overtaking DEF Legal, Commit, Tight, Overrun, CanBecome
<1>4. /\ rows[r].delivery = None /\ rows[r].key = a.key /\ SameCharge(rows[r], b)
      /\ rows[r].startedAt = a.startedAt
  BY <1>0, <1>1, <1>2 DEF Under, Shape, SameCharge
<1>5. Fresh(r, b)
  BY <1>1, <1>2, <1>4 DEF Fresh, IInv, BindingUnique
<1> QED
  BY <1>1, <1>2, <1>3, <1>4, <1>5, RowFacts, CommitInv, ConstantsAssumption
  DEF Operations, Started

\* Renew keeps the invariant.
LEMMA RenewInv ==
  ASSUME IInv, NEW r \in Reservations, NEW d \in Deliveries, NEW until \in Nat,
         Renew(r, d, rows[r].version, until)
  PROVE  IInv'
<1> DEFINE a == Seen(r)
           c == rows[r]
           b == Renewed(c, a.version, until)
<1>0. /\ a \in Row /\ Shape(a) /\ c \in Row /\ Under(a, c) /\ rows[r].version = a.version
      /\ b = Renewed(c, a.version, until)
  BY SeenFacts, RowFacts DEF Under
<1>1. /\ a.state = "RESERVED" /\ a.status = "CLAIMED" /\ until <= a.expiresAt
      /\ ~Started(a) /\ a.lease < until
      /\ Commit("RENEW", <<r, a.version>>, r, <<d, a.version, until>>, b)
      /\ UNCHANGED <<attempts, touches, head, now>>
  BY <1>0 DEF Renew, HoldsLease, Renewed
<1> HIDE DEF b
<1>2. /\ RowStep(a, b) /\ SameCharge(a, b) /\ b.delivery = a.delivery /\ b.key = a.key
      /\ b.startedAt = a.startedAt /\ b.status = c.status /\ b.state = c.state
      /\ ~Started(b)
  <2> HIDE DEF a, c
  <2> QED
    BY <1>0, <1>1, RenewRow
<1>3. Legal(r, b) /\ b.status # "UNCLAIMED"
  BY <1>1, <1>2, Overtaking DEF Legal, Commit, Tight, Overrun, CanBecome
<1>4. /\ rows[r].delivery = a.delivery /\ rows[r].key = a.key /\ SameCharge(rows[r], b)
      /\ rows[r].startedAt = a.startedAt
  BY <1>0, <1>2 DEF Under, SameCharge
<1>5. Fresh(r, b)
  BY <1>2, <1>4, SameBindingFresh DEF IInv
<1>6. b.delivery # None
  BY <1>0, <1>1, <1>2 DEF Shape
<1> QED
  BY <1>1, <1>2, <1>3, <1>4, <1>5, <1>6, RowFacts, CommitInv DEF Operations, Started

\* BeginSubmission keeps the invariant.
LEMMA BeginInv ==
  ASSUME IInv, NEW r \in Reservations, NEW d \in Deliveries, NEW v, NEW k \in Keys,
         BeginSubmission(r, d, v, k)
  PROVE  IInv'
<1> DEFINE a == Seen(r)
           c == rows[r]
           t == Clock(r)
           b == PastBarrier(c, k, t)
<1>0. /\ a \in Row /\ Shape(a) /\ c \in Row /\ Under(a, c) /\ t \in Nat /\ t # 0 /\ t <= now
      /\ b = PastBarrier(c, k, t)
  BY SeenFacts, RowFacts
<1>1. /\ a.state = "RESERVED" /\ a.status = "CLAIMED" /\ t < a.lease /\ ~Started(a)
      /\ \A o \in Reservations \ {r} : rows[o].key # k
      /\ Commit("BEGIN_SUBMISSION", r, r, <<d, v, k>>, b)
      /\ UNCHANGED <<attempts, touches, head, now>>
  BY DEF BeginSubmission, HoldsLease, PastBarrier
<1> HIDE DEF b
<1>2. /\ RowStep(a, b) /\ SameCharge(a, b) /\ b.delivery = a.delivery /\ b.key = k
      /\ b.startedAt = t /\ b.status = "UNKNOWN_RECONCILING" /\ b.state = c.state
      /\ b.lease = a.lease /\ Started(b)
  <2> HIDE DEF a, c, t
  <2> QED
    BY <1>0, <1>1, BeginRow
<1>3. Expiry(a) = a.lease
  BY <1>0, <1>1 DEF Expiry, Row
<1>4. Legal(r, b)
  BY <1>1, <1>2, <1>3, Overtaking DEF Legal, Commit, Tight, Overrun, CanBecome
<1>5. /\ rows[r].delivery = a.delivery /\ rows[r].key = a.key /\ SameCharge(rows[r], b)
      /\ rows[r].startedAt = a.startedAt
  BY <1>0, <1>2 DEF Under, SameCharge
<1>6. Fresh(r, b)
  BY <1>1, <1>2, <1>5 DEF Fresh, IInv, BindingUnique
<1>7. b.delivery # None
  BY <1>0, <1>1, <1>2 DEF Shape
<1> QED
  BY <1>0, <1>1, <1>2, <1>4, <1>5, <1>6, <1>7, CommitInv DEF Operations

\* Confirm keeps the invariant.
LEMMA ConfirmInv ==
  ASSUME IInv, NEW r \in Reservations, NEW d \in Deliveries, NEW k \in Keys,
         Confirm(r, d, k)
  PROVE  IInv'
<1> DEFINE a == rows[r]
           b == [a EXCEPT !.state = "CONFIRMED", !.status = "ACCEPTED"]
<1>1. /\ Started(a) /\ ~Settled(a) /\ a.state = "RESERVED"
      /\ Commit("CONFIRM", r, r, <<d, k>>, b)
      /\ UNCHANGED <<attempts, touches, head, now>>
  BY DEF Confirm, ProviderBound
<1>2. /\ RowStep(a, b) /\ SameCharge(a, b) /\ b.delivery = a.delivery /\ b.key = a.key
      /\ b.startedAt = a.startedAt /\ a.delivery # None
  BY <1>1, RowFacts, ConfirmRow DEF Shape
<1>3. b.status = "ACCEPTED" /\ b.state = "CONFIRMED"
  BY RowFacts DEF Row
<1> HIDE DEF b
<1>4. Fresh(r, b)
  BY <1>2, SameBindingFresh DEF IInv
<1>5. Legal(r, b)
  BY <1>1, <1>2, <1>3, StartedSeen, Overtaking DEF Legal, Commit, Tight, CanBecome
<1> QED
  BY <1>1, <1>2, <1>3, <1>4, <1>5, RowFacts, CommitInv DEF Operations, Started

\* Release keeps the invariant.
LEMMA ReleaseInv ==
  ASSUME IInv, NEW r \in Reservations, NEW d, NEW reason, Release(r, d, reason)
  PROVE  IInv'
<1> DEFINE a == Seen(r)
           c == rows[r]
           b == Swept(c)
<1>0. /\ a \in Row /\ Shape(a) /\ c \in Row /\ Under(a, c)
      /\ b = Swept(c)
  BY SeenFacts, RowFacts
<1>1. /\ ~Started(a) /\ a.state = "RESERVED" /\ a.status # "SETTLED"
      /\ Commit("RELEASE", r, r, <<d, reason>>, b)
      /\ UNCHANGED <<attempts, touches, head, now>>
  BY DEF Release, Swept
<1> HIDE DEF b
<1>2. /\ RowStep(a, b) /\ SameCharge(a, b) /\ b.delivery = a.delivery /\ b.key = a.key
      /\ b.startedAt = a.startedAt /\ b.status = "SETTLED" /\ b.state = "RELEASED"
      /\ ~Started(b)
  <2> HIDE DEF a, c
  <2> QED
    BY <1>0, <1>1, ReleaseRow
<1>3. Legal(r, b)
  BY <1>1, <1>2, Overtaking DEF Legal, Commit, Tight, Overrun, CanBecome
<1>4. /\ rows[r].delivery = a.delivery /\ rows[r].key = a.key /\ SameCharge(rows[r], b)
      /\ rows[r].startedAt = a.startedAt
  BY <1>0, <1>2 DEF Under, SameCharge
<1>5. Fresh(r, b)
  BY <1>2, <1>4, SameBindingFresh DEF IInv
<1> QED
  BY <1>1, <1>2, <1>3, <1>4, <1>5, RowFacts, CommitInv DEF Operations, Started

\* A command that writes back a row past the barrier is legal.
LEMMA SameRowLegal ==
  ASSUME IInv, NEW r \in Reservations, Started(rows[r]), Update(r, rows[r])
  PROVE  Legal(r, rows[r])
<1>1. Seen(r) = rows[r] /\ overtaken' = overtaken
  BY StartedSeen DEF Update
<1>2. rows[r] \in Row /\ RowInv(r)
  BY DEF IInv, TypeOK
<1> QED
  BY <1>1, <1>2 DEF Legal, RowStep, RowInv, CanBecome, Row, Shape

\* SettleLate keeps the invariant: it only adds a receipt.
LEMMA SettleLateInv ==
  ASSUME IInv, NEW r \in Reservations, NEW d, NEW k, NEW ref, NEW outcome, NEW scope, NEW at,
         SettleLate(r, d, k, ref, outcome, scope, at)
  PROVE  IInv'
<1> DEFINE a == rows[r]
<1>1. /\ Started(a)
      /\ Commit("SETTLE", ref, r, SettleInput(d, k, outcome, scope, at), a)
      /\ UNCHANGED <<attempts, touches, head, now>>
  BY DEF SettleLate, ProviderBound
<1>2. a \in Row /\ Shape(a) /\ a.startedAt <= now
  BY RowFacts
<1>3. Legal(r, a) /\ SameCharge(a, a) /\ a.status # "UNCLAIMED" /\ a.delivery # None
  BY <1>1, <1>2, SameRowLegal DEF SameCharge, Shape, Commit
<1>4. Fresh(r, a)
  BY SameBindingFresh DEF IInv
<1> QED
  BY <1>1, <1>2, <1>3, <1>4, CommitInv DEF Operations

\* SettleUnknown keeps the invariant.
LEMMA SettleUnknownInv ==
  ASSUME IInv, NEW r \in Reservations, NEW d, NEW k, NEW ref, NEW at,
         SettleUnknown(r, d, k, ref, at)
  PROVE  IInv'
<1> DEFINE a == rows[r]
           b == [a EXCEPT !.status = "UNKNOWN_RECONCILING"]
<1>1. /\ Started(a) /\ ~Settled(a) /\ a.status # "ACCEPTED"
      /\ Commit("SETTLE", ref, r, SettleInput(d, k, "UNKNOWN_RECONCILING", None, at), b)
      /\ UNCHANGED <<attempts, touches, head, now>>
  BY DEF SettleUnknown, ProviderBound
<1>2. b = a
  BY <1>1, RowFacts, SettleUnknownRow
<1>3. b.status # "UNCLAIMED" /\ Legal(r, b) /\ b.delivery # None
  BY <1>1, <1>2, RowFacts, SameRowLegal DEF Shape, Commit
<1> HIDE DEF b
<1>4. Fresh(r, b) /\ SameCharge(a, b)
  BY <1>2, SameBindingFresh DEF IInv, SameCharge
<1> QED
  BY <1>1, <1>2, <1>3, <1>4, RowFacts, CommitInv DEF Operations

\* The only operation that writes an Attempt.
LEMMA SettleTerminalInv ==
  ASSUME IInv, NEW r \in Reservations, NEW d \in Deliveries, NEW k \in Keys, NEW ref \in Refs,
         NEW outcome \in TerminalOutcomes, NEW scope, NEW at \in Stamps,
         SettleTerminal(r, d, k, ref, outcome, scope, at)
  PROVE  IInv'
<1> DEFINE a == rows[r]
           b == [a EXCEPT !.state = NextState(outcome), !.status = "SETTLED",
                          !.outcome = outcome, !.ref = ref]
           fact == [reservation |-> r, delivery |-> d, outcome |-> outcome, at |-> at]
<1>1. /\ a.delivery = d /\ Started(a) /\ ~Settled(a)
      /\ outcome = "PROVIDER_REJECTED" => a.state # "CONFIRMED"
      /\ outcome = "DELIVERY_FAILED" => a.state = "CONFIRMED"
      /\ Commit("SETTLE", ref, r, SettleInput(d, k, outcome, scope, at), b)
      /\ UNCHANGED <<head, now>>
  BY DEF SettleTerminal, ProviderBound
<1>2. \/ /\ CountsAsAttempt(outcome, scope) /\ attempts[ref] = None
         /\ attempts' = [attempts EXCEPT ![ref] = fact]
         /\ \/ outcome = "DELIVERED" /\ touches' = [touches EXCEPT ![ref] = "SETTLEMENT"]
            \/ touches' = touches
      \/ /\ outcome = "PROVIDER_REJECTED"
         /\ UNCHANGED <<attempts, touches>>
  BY DEF SettleTerminal, CountsAsTouch, CountsAsAttempt
<1>3. /\ a \in Row /\ Shape(a) /\ a.startedAt <= now
      /\ b = [a EXCEPT !.state = NextState(outcome), !.status = "SETTLED",
                       !.outcome = outcome, !.ref = ref]
  BY RowFacts
<1> HIDE DEF b
<1>0. /\ Seen(r) = a /\ overtaken' = overtaken
      /\ r \in overtaken => Overrun(a)
      /\ r \notin overtaken => Tight(a)
  BY <1>1, StartedSeen DEF Commit, Update, IInv, RowInv
<1>4. /\ RowStep(a, b) /\ b.delivery = a.delivery /\ b.key = a.key
      /\ b.startedAt = a.startedAt /\ b.outcome = outcome /\ b.ref = ref
      /\ Started(b) /\ a.ref = None /\ a.outcome = None
      /\ b.status = "SETTLED" /\ b.state \notin {"NONE", "RESERVED"}
      /\ b.lease = a.lease /\ b.delivery # None
      /\ Tight(a) => CanBecome(a.state, b.state)
  <2>6. /\ Started(a) /\ ~Settled(a)
        /\ outcome = "PROVIDER_REJECTED" => a.state # "CONFIRMED"
        /\ outcome = "DELIVERY_FAILED" => a.state = "CONFIRMED"
    BY <1>1
  <2> HIDE DEF a
  <2>0. NextState(outcome) \in States
    BY DEF NextState, States, TerminalOutcomes
  <2>1. b \in Row
    BY <1>3, <2>0 DEF Row, Statuses
  <2>2. /\ b.state = NextState(outcome) /\ b.status = "SETTLED" /\ b.contact = a.contact
        /\ b.auth = a.auth /\ b.expiresAt = a.expiresAt /\ b.delivery = a.delivery
        /\ b.version = a.version /\ b.lease = a.lease /\ b.key = a.key
        /\ b.startedAt = a.startedAt /\ b.outcome = outcome /\ b.ref = ref
    BY <1>3 DEF Row
  <2>3. Shape(b)
    BY <1>3, <2>6, <2>1, <2>2, ConstantsAssumption DEF Shape, Started, Settled, Row, Statuses, NextState, TerminalOutcomes
  <2>4. a.state \in {"RESERVED", "CONFIRMED", "RELEASED"} /\ a.status # "UNCLAIMED" /\ a.ref = None
          /\ a.outcome = None /\ a.status # "SETTLED"
    BY <1>3, <2>6 DEF Shape, Settled, Row, Statuses
  <2>5. Tight(a) => a.state \in {"RESERVED", "CONFIRMED"}
    BY <1>3, <2>6 DEF Shape, Tight, Settled, Row, Statuses
  <2>7. Tight(a) => CanBecome(a.state, b.state)
    BY <2>2, <2>5, <2>6 DEF CanBecome, NextState, TerminalOutcomes
  <2>8. b.state \notin {"NONE", "RESERVED"}
    BY <2>2 DEF NextState, TerminalOutcomes
  <2>9. a.delivery # None
    BY <1>3, <2>6 DEF Shape
  <2> QED
    BY <1>3, <2>1, <2>2, <2>3, <2>4, <2>6, <2>7, <2>8, <2>9 DEF RowStep, Started, Row
<1>5. b \in Row /\ Shape(b) /\ Tight(b) /\ Legal(r, b) /\ (r \in overtaken => Overrun(b))
  <2>1. b \in Row /\ Shape(b)
    BY <1>4 DEF RowStep
  <2>2. Tight(b)
    BY <1>4, ConstantsAssumption DEF Tight, TerminalOutcomes
  <2>3. r \in overtaken => Overrun(b)
    BY <1>0, <1>1, <1>4 DEF Overrun
  <2> QED
    BY <1>0, <1>4, <2>1, <2>2, <2>3 DEF Legal
<1>6. /\ rows' \in [Reservations -> Row]
      /\ \A m \in receipts' : /\ m.op \in Operations
                              /\ m.reservation \in Reservations
                              /\ m.response \in Response
      /\ ReplayTruthful' /\ ReceiptsClaimed'
  BY <1>1, <1>4, <1>5, CommitReceipts DEF Operations
<1>7. /\ rows' = [rows EXCEPT ![r] = b] /\ rows \in [Reservations -> Row]
      /\ attempts \in [Refs -> Fact \cup {None}]
      /\ touches \in [Refs -> Evidence \cup {"SETTLEMENT", None}]
      /\ Update(r, b) /\ \A m \in receipts' : m \in receipts \/ m.reservation = r
  BY <1>1 DEF Commit, Update, IInv, TypeOK
<1>8. /\ rows'[r] = b /\ \A o \in Reservations : o # r => rows'[o] = rows[o]
  BY <1>7
<1>9. /\ fact \in Fact /\ fact.reservation = r /\ fact.delivery = d /\ fact.outcome = outcome
      /\ fact # None
  BY FactAssumption DEF Fact
<1> HIDE DEF fact
<1>10. \A f \in Refs : attempts[f] # None =>
         /\ attempts[f].reservation \in Reservations /\ attempts[f].reservation # r
         /\ rows[attempts[f].reservation].ref = f
         /\ rows[attempts[f].reservation].outcome = attempts[f].outcome
  BY <1>4, <1>7, ConstantsAssumption DEF IInv, ChargedOnce, Fact
<1>11. TypeOK'
  BY <1>1, <1>2, <1>6, <1>7, <1>9, UpdateTypes DEF IInv, TypeOK
<1>12. \A o \in Reservations : RowInv(o)' /\ ReadingInv(o)'
  BY <1>0, <1>1, <1>3, <1>4, <1>5, <1>7, UpdateRows, UpdateReadings
<1>13. BindingUnique'
  <2>1. Fresh(r, b)
    BY <1>4, SameBindingFresh DEF IInv
  <2>2. /\ \A p, o \in Reservations :
              p # o => /\ rows'[p].delivery # None => rows'[o].delivery # rows'[p].delivery
                       /\ rows'[p].key # None => rows'[o].key # rows'[p].key
        /\ \A f \in Refs :
              attempts[f] # None =>
                /\ rows'[attempts[f].reservation].delivery = attempts[f].delivery
                /\ Started(rows'[attempts[f].reservation])
    BY <1>4, <1>5, <1>7, <2>1, KeepBindings
  <2>3. \A f \in Refs : attempts'[f] # None => attempts'[f] = attempts[f] \/ attempts'[f] = fact
    BY <1>2, <1>7
  <2>4. rows'[fact.reservation].delivery = fact.delivery /\ Started(rows'[fact.reservation])
    BY <1>1, <1>4, <1>8, <1>9
  <2>5. ASSUME NEW f \in Refs, attempts'[f] # None
        PROVE  /\ rows'[attempts'[f].reservation].delivery = attempts'[f].delivery
               /\ Started(rows'[attempts'[f].reservation])
    <3>1. CASE attempts'[f] = attempts[f]
      <4>1. attempts[f] # None
        BY <2>5, <3>1
      <4>2. /\ rows'[attempts[f].reservation].delivery = attempts[f].delivery
            /\ Started(rows'[attempts[f].reservation])
        BY <2>2, <4>1
      <4> QED
        BY <3>1, <4>2
    <3>2. CASE attempts'[f] = fact
      BY <2>4, <3>2
    <3> QED
      BY <2>3, <2>5, <3>1, <3>2
  <2> QED
    BY <2>2, <2>5 DEF BindingUnique
<1>14. ChargedOnce'
  <2>1. ASSUME NEW f \in Refs, attempts'[f] # None
        PROVE  /\ rows'[attempts'[f].reservation].ref = f
               /\ rows'[attempts'[f].reservation].outcome = attempts'[f].outcome
    <3>1. CASE attempts'[f] = attempts[f]
      BY <1>8, <1>10, <2>1, <3>1
    <3>2. CASE f = ref /\ attempts'[f] = fact
      BY <1>4, <1>8, <1>9, <3>2
    <3> QED
      BY <1>2, <1>7, <3>1, <3>2
  <2>2. ASSUME NEW o \in Reservations, rows'[o].outcome \notin {None, "PROVIDER_REJECTED"}
        PROVE  attempts'[rows'[o].ref] # None
    <3>1. CASE o = r
      BY <1>2, <1>4, <1>7, <1>8, <1>9, <2>2, <3>1
    <3>2. CASE o # r
      <4>1. /\ rows'[o] = rows[o] /\ attempts[rows[o].ref] # None
            /\ rows[o].ref \in Refs
        BY <1>7, <1>8, <2>2, <3>2 DEF IInv, RowInv, ChargedOnce, Shape, Row
      <4> QED
        BY <1>2, <1>7, <1>9, <4>1
    <3> QED
      BY <3>1, <3>2
  <2>3. ASSUME NEW f \in Refs, touches'[f] # None
        PROVE  /\ attempts'[f] # None
               /\ attempts'[f].outcome =
                    IF touches'[f] = "SETTLEMENT" THEN "DELIVERED" ELSE "PROVIDER_ACCEPTED"
    <3>1. touches[f] # None =>
               /\ attempts[f] # None
               /\ attempts[f].outcome =
                    IF touches[f] = "SETTLEMENT" THEN "DELIVERED" ELSE "PROVIDER_ACCEPTED"
      BY DEF IInv, ChargedOnce
    <3>2. CASE UNCHANGED <<attempts, touches>>
      BY <2>3, <3>1, <3>2
    <3>3. CASE f # ref
      BY <1>2, <1>7, <2>3, <3>1, <3>3
    <3>4. CASE f = ref /\ attempts[ref] = None /\ attempts' = [attempts EXCEPT ![ref] = fact]
      BY <1>2, <1>7, <1>9, <2>3, <3>1, <3>4
    <3> QED
      BY <1>2, <3>2, <3>3, <3>4
  <2> QED
    BY <2>1, <2>2, <2>3 DEF ChargedOnce
<1> QED
  BY <1>6, <1>11, <1>12, <1>13, <1>14 DEF IInv

\* RecordCorrelatedTouch keeps the invariant.
LEMMA TouchInv ==
  ASSUME IInv, NEW ref \in Refs, NEW evidence \in Evidence, RecordCorrelatedTouch(ref, evidence)
  PROVE  IInv'
<1>1. /\ attempts[ref] # None /\ attempts[ref].outcome = "PROVIDER_ACCEPTED"
      /\ touches' = [touches EXCEPT ![ref] = evidence]
      /\ UNCHANGED <<rows, receipts, attempts, head, now, reading, overtaken>>
      /\ touches \in [Refs -> Evidence \cup {"SETTLEMENT", None}]
  BY DEF RecordCorrelatedTouch, IInv, TypeOK
<1>2. TypeOK' /\ BindingUnique' /\ ReplayTruthful' /\ ReceiptsClaimed'
  BY <1>1 DEF IInv, TypeOK, BindingUnique, ReplayTruthful, ReceiptsClaimed
<1>3. evidence # "SETTLEMENT"
  BY ConstantsAssumption
<1>4. ChargedOnce'
  BY <1>1, <1>3 DEF IInv, ChargedOnce
<1>5. \A r \in Reservations : RowInv(r)' /\ ReadingInv(r)'
  BY <1>1 DEF IInv, RowInv, Overrun, ReadingInv
<1> QED
  BY <1>2, <1>4, <1>5 DEF IInv

\* ChangeReservationState keeps the invariant: it only touches rows without a
\* delivery, which have no receipt.
LEMMA ChangeStateInv ==
  ASSUME IInv, NEW r \in Reservations, NEW next \in States, ChangeReservationState(r, next)
  PROVE  IInv'
<1> DEFINE a == Seen(r)
           b == [rows[r] EXCEPT !.state = next]
<1>1. /\ Update(r, b) /\ rows' = [rows EXCEPT ![r] = b]
      /\ a.delivery = None /\ next \in Transition(a.state)
      /\ UNCHANGED <<receipts, attempts, touches, head, now>>
  BY DEF ChangeReservationState, Update
<1>2. /\ a \in Row /\ Shape(a) /\ Under(a, rows[r]) /\ rows[r] \in Row /\ Shape(rows[r])
      /\ rows[r].startedAt <= now
  BY SeenFacts, RowFacts
<1>3. /\ a.status \in {"UNCLAIMED", "SETTLED"} /\ ~Started(a) /\ a.outcome = None
      /\ a.state \in {"RESERVED", "CONFIRMED"} /\ next \notin {"NONE", "RESERVED"}
  BY <1>1, <1>2 DEF Shape, Transition
<1>4. /\ b \in Row /\ b.status = rows[r].status /\ b.delivery = rows[r].delivery
      /\ b.key = rows[r].key
      /\ b.startedAt = rows[r].startedAt /\ b.outcome = rows[r].outcome /\ b.ref = rows[r].ref
      /\ b.lease = rows[r].lease /\ b.expiresAt = rows[r].expiresAt
      /\ b.version = rows[r].version /\ b.state = next
  BY <1>2 DEF Row
<1> HIDE DEF b
<1>5. /\ rows[r].delivery = None /\ ~Started(rows[r]) /\ rows[r].outcome = None
      /\ rows[r].status \in {"UNCLAIMED", "SETTLED"}
  BY <1>1, <1>2, <1>3 DEF Under, Started
<1>6. Shape(b) /\ ~Started(b) /\ b.startedAt <= now
  BY <1>2, <1>3, <1>4, <1>5 DEF Shape, Started
<1>7. r \notin overtaken' => Tight(b)
  <2> SUFFICES ASSUME r \notin overtaken' PROVE Tight(b)
    OBVIOUS
  <2>1. rows[r] = a /\ r \notin overtaken
    BY <1>1 DEF Update
  <2>2. Tight(a)
    BY <2>1 DEF IInv, RowInv
  <2>3. a.status = "UNCLAIMED"
    BY <1>3, <2>2 DEF Tight
  <2> QED
    BY <1>4, <2>1, <2>3 DEF Tight
<1>8. Overrun(b)
  BY <1>3, <1>4, <1>6 DEF Overrun
<1>9. \A o \in Reservations : RowInv(o)' /\ ReadingInv(o)'
  BY <1>1, <1>6, <1>7, <1>8, UpdateRows, UpdateReadings
<1>10. BindingUnique'
  BY <1>1, <1>4, <1>5, SameBindingFresh, UpdateBindings DEF IInv
<1>11. ChargedOnce'
  BY <1>1, <1>4, UpdateCharges DEF SameCharge
<1>12. \A m \in receipts : m.reservation # r
  <2> SUFFICES ASSUME NEW m \in receipts, m.reservation = r PROVE FALSE
    OBVIOUS
  <2>1. a.status # "UNCLAIMED"
    BY SeenTruthful
  <2>2. rows[r] = a
    BY <1>3, <2>1, SeenFacts DEF Sweepable
  <2>3. rows[r].state = "RELEASED"
    BY <1>5 DEF IInv, ReceiptsClaimed
  <2> QED
    BY <1>3, <2>2, <2>3
<1>13. \A m \in receipts : /\ m.reservation \in Reservations
                           /\ rows'[m.reservation] = rows[m.reservation]
                           /\ m.reservation \in overtaken => m.reservation \in overtaken'
  BY <1>1, <1>12 DEF IInv, TypeOK, Update
<1>14. ReplayTruthful' /\ ReceiptsClaimed'
  BY <1>1, <1>13 DEF IInv, ReplayTruthful, ReceiptsClaimed
<1>15. TypeOK'
  BY <1>1, <1>4, UpdateTypes DEF IInv, TypeOK
<1> QED
  BY <1>9, <1>10, <1>11, <1>14, <1>15 DEF IInv

\* ReadRow keeps the invariant: what was read is the row, and all receipts
\* are true of it.
LEMMA ReadRowInv ==
  ASSUME IInv, NEW r \in Reservations, ReadRow(r)
  PROVE  IInv'
<1> DEFINE a == rows[r]
<1>1. /\ Sweepable(a) /\ reading' = [reading EXCEPT ![r] = [row |-> a, at |-> now]]
      /\ UNCHANGED <<rows, receipts, attempts, touches, head, now, overtaken>>
  BY DEF ReadRow, tables
<1>2. a \in Row /\ now \in Nat \ {0} /\ RowInv(r) /\ Shape(a)
  BY DEF IInv, TypeOK, RowInv
<1>3. TypeOK'
  BY <1>1, <1>2 DEF IInv, TypeOK
<1>4. r \notin overtaken
  BY <1>1, <1>2 DEF RowInv, Overrun, Sweepable
<1>5. ASSUME NEW m \in receipts, m.reservation = r
      PROVE  a.status # "UNCLAIMED" /\ m.response.status # "SETTLED"
  <2>1. TruthfulOf(m, a) /\ a.status # "UNCLAIMED" /\ m.response \in Response
    BY <1>5 DEF IInv, TypeOK, ReplayTruthful, ReceiptsClaimed
  <2>2. View(a).status = a.status /\ a.status # "SETTLED"
    BY <1>1 DEF View, Sweepable
  <2> QED
    BY <2>1, <2>2 DEF TruthfulOf
<1>6. ASSUME NEW o \in Reservations PROVE ReadingInv(o)'
  <2>1. CASE o = r
    <3>1. reading'[r].row = a /\ reading'[r].at = now
      BY <1>1 DEF IInv, TypeOK
    <3>2. rows'[r] = a /\ receipts' = receipts /\ now' = now /\ overtaken' = overtaken
      BY <1>1
    <3>3. \A m \in receipts : m.reservation = r =>
            a.status # "UNCLAIMED" /\ m.response.status # "SETTLED"
      BY <1>5
    <3> HIDE DEF a
    <3> QED
      BY <1>1, <1>2, <1>4, <2>1, <3>1, <3>2, <3>3 DEF ReadingInv
  <2>2. CASE o # r
    <3>1. reading'[o] = reading[o] /\ ReadingInv(o)
      BY <1>1, <2>2 DEF IInv, TypeOK
    <3> QED
      BY <1>1, <3>1 DEF ReadingInv
  <2> QED
    BY <2>1, <2>2
<1>7. \A o \in Reservations : RowInv(o)'
  BY <1>1 DEF IInv, RowInv, Overrun
<1> QED
  BY <1>1, <1>3, <1>6, <1>7 DEF IInv, BindingUnique, ChargedOnce, ReplayTruthful, ReceiptsClaimed

\* Rollback keeps the invariant.
LEMMA RollbackInv ==
  ASSUME IInv, NEW r \in Reservations, Rollback(r)
  PROVE  IInv'
<1>1. /\ reading' = [reading EXCEPT ![r] = NoReading]
      /\ UNCHANGED <<rows, receipts, attempts, touches, head, now, overtaken>>
  BY DEF Rollback, tables
<1>2. NoReading \in [row : Row, at : Nat]
  BY NoRowTyped DEF NoReading
<1>3. TypeOK'
  BY <1>1, <1>2 DEF IInv, TypeOK
<1>4. ASSUME NEW o \in Reservations PROVE ReadingInv(o)'
  <2>1. ReadingInv(o) /\ (reading'[o] = reading[o] \/ reading'[o] = NoReading)
    BY <1>1 DEF IInv, TypeOK
  <2> QED
    BY <1>1, <2>1 DEF ReadingInv
<1>5. \A o \in Reservations : RowInv(o)'
  BY <1>1 DEF IInv, RowInv, Overrun
<1> QED
  BY <1>1, <1>3, <1>4, <1>5 DEF IInv, BindingUnique, ChargedOnce, ReplayTruthful, ReceiptsClaimed

\* Sweep keeps the invariant: the row it takes was not submitted, and a
\* command that has read it before knows the row from which it was swept.
LEMMA SweepInv ==
  ASSUME IInv, NEW r \in Reservations, Sweep(r)
  PROVE  IInv'
<1> DEFINE a == rows[r]
           b == Swept(a)
<1>1. /\ Sweepable(a) /\ Expiry(a) <= now /\ rows' = [rows EXCEPT ![r] = b]
      /\ UNCHANGED <<receipts, attempts, touches, head, now, reading, overtaken>>
  BY DEF Sweep, Swept
<1>2. a \in Row /\ Shape(a) /\ Under(a, a) /\ RowInv(r) /\ rows \in [Reservations -> Row]
  BY UnderRow DEF IInv, TypeOK, RowInv
<1>3. /\ ~Started(a) /\ a.state = "RESERVED" /\ a.status \in {"UNCLAIMED", "CLAIMED"}
  BY <1>1 DEF Sweepable
<1>4. b = Swept(a)
  OBVIOUS
<1> HIDE DEF b
<1>5. /\ RowStep(a, b) /\ SameCharge(a, b) /\ b.delivery = a.delivery /\ b.key = a.key
      /\ b.startedAt = a.startedAt /\ b.status = "SETTLED" /\ b.state = "RELEASED"
      /\ ~Started(b)
  <2> HIDE DEF a
  <2> QED
    BY <1>2, <1>3, <1>4, ReleaseRow
<1>6. b \in Row /\ Shape(b) /\ Tight(b) /\ b.startedAt <= now
  BY <1>2, <1>5 DEF RowStep, Tight, RowInv
<1>7. r \notin overtaken
  BY <1>2, <1>3 DEF RowInv, Overrun
<1>8. \A o \in Reservations : RowInv(o)'
  <2> SUFFICES ASSUME NEW o \in Reservations PROVE RowInv(o)'
    OBVIOUS
  <2>1. CASE o = r
    BY <1>1, <1>2, <1>6, <1>7, <2>1 DEF RowInv
  <2>2. CASE o # r
    BY <1>1, <1>2, <2>2 DEF RowInv, IInv, Overrun
  <2> QED
    BY <2>1, <2>2
<1>9. \A o \in Reservations : ReadingInv(o)'
  <2> SUFFICES ASSUME NEW o \in Reservations PROVE ReadingInv(o)'
    OBVIOUS
  <2>1. CASE o = r
    <3>1. reading[r] # NoReading => Seen(r) = reading[r].row /\ rows[r] = Seen(r)
      BY <1>3, SeenFacts DEF Seen
    <3>2. reading[r] # NoReading =>
            rows'[r] = Swept(reading[r].row) /\ Expiry(reading[r].row) <= now
      BY <1>1, <1>2, <1>4, <3>1
    <3>3. ReadingInv(r)
      BY DEF IInv
    <3> QED
      BY <1>1, <2>1, <3>2, <3>3 DEF ReadingInv
  <2>2. CASE o # r
    <3>1. rows'[o] = rows[o] /\ ReadingInv(o)
      BY <1>1, <1>2, <2>2 DEF IInv
    <3> QED
      BY <1>1, <3>1 DEF ReadingInv
  <2> QED
    BY <2>1, <2>2
<1>10. ASSUME NEW m \in receipts
       PROVE  /\ TruthfulOf(m, rows'[m.reservation]) /\ rows'[m.reservation].status # "UNCLAIMED"
              /\ rows'[m.reservation].delivery = None => rows'[m.reservation].state = "RELEASED"
              /\ m.reservation \notin overtaken =>
                   CanBecome(m.response.state, rows'[m.reservation].state)
  <2>1. m.reservation \in Reservations /\ m.response \in Response
    BY DEF IInv, TypeOK
  <2>2. /\ TruthfulOf(m, rows[m.reservation]) /\ rows[m.reservation].status # "UNCLAIMED"
        /\ rows[m.reservation].delivery = None => rows[m.reservation].state = "RELEASED"
        /\ m.reservation \notin overtaken =>
             CanBecome(m.response.state, rows[m.reservation].state)
    BY DEF IInv, ReplayTruthful, ReceiptsClaimed
  <2>3. CASE m.reservation # r
    BY <1>1, <1>2, <2>1, <2>2, <2>3
  <2>4. CASE m.reservation = r
    <3>1. View(a).status = a.status
      BY DEF View
    <3>2. m.response.status # "SETTLED"
      BY <1>3, <2>2, <2>4, <3>1 DEF TruthfulOf
    <3>3. b.version = a.version /\ b.lease = a.lease
      BY <1>2, <1>4 DEF Swept, Row
    <3>4. TruthfulOf(m, b)
      BY <1>3, <1>5, <2>2, <2>4, <3>2, <3>3 DEF TruthfulOf
    <3>5. CanBecome(m.response.state, b.state)
      BY <1>3, <1>5, <1>7, <2>2, <2>4 DEF CanBecome
    <3> QED
      BY <1>1, <1>2, <1>5, <2>4, <3>4, <3>5
  <2> QED
    BY <2>3, <2>4
<1>11. ReplayTruthful' /\ ReceiptsClaimed'
  BY <1>1, <1>10 DEF IInv, ReplayTruthful, ReceiptsClaimed
<1>12. BindingUnique'
  BY <1>1, <1>3, <1>5, <1>6, SameBindingFresh, UpdateBindings DEF IInv
<1>13. ChargedOnce'
  BY <1>1, <1>5, <1>6, UpdateCharges
<1>14. TypeOK'
  BY <1>1, <1>6 DEF IInv, TypeOK
<1> QED
  BY <1>8, <1>9, <1>11, <1>12, <1>13, <1>14 DEF IInv

\* AdvanceHead keeps the invariant.
LEMMA AdvanceHeadInv ==
  ASSUME IInv, NEW c \in Contacts, AdvanceHead(c)
  PROVE  IInv'
<1>1. TypeOK'
  BY DEF AdvanceHead, IInv, TypeOK
<1>2. \A r \in Reservations : RowInv(r)' /\ ReadingInv(r)'
  BY DEF AdvanceHead, IInv, RowInv, Overrun, ReadingInv
<1> QED
  BY <1>1, <1>2 DEF AdvanceHead, IInv, BindingUnique, ChargedOnce, ReplayTruthful, ReceiptsClaimed

\* Tick keeps the invariant: what has run out stays so.
LEMMA TickInv ==
  ASSUME IInv, Tick
  PROVE  IInv'
<1>0. /\ now' = now + 1 /\ now \in Nat /\ rows \in [Reservations -> Row]
      /\ reading \in [Reservations -> [row : Row, at : Nat]]
      /\ UNCHANGED <<rows, receipts, attempts, touches, head, reading, overtaken>>
  BY DEF Tick, tables, IInv, TypeOK
<1>1. TypeOK'
  BY <1>0 DEF IInv, TypeOK
<1>2. ASSUME NEW r \in Reservations PROVE RowInv(r)'
  <2>1. RowInv(r) /\ rows[r].startedAt \in Nat /\ rows[r].lease \in Nat
    BY <1>0 DEF IInv, Row
  <2> QED
    BY <1>0, <2>1 DEF RowInv, Overrun
<1>3. ASSUME NEW r \in Reservations PROVE ReadingInv(r)'
  <2>1. /\ ReadingInv(r) /\ reading[r].at \in Nat
        /\ reading[r].row.lease \in Nat /\ reading[r].row.expiresAt \in Nat
    BY <1>0 DEF IInv, Row
  <2>2. Expiry(reading[r].row) \in Nat
    BY <2>1 DEF Expiry
  <2> QED
    BY <1>0, <2>1, <2>2 DEF ReadingInv
<1> QED
  BY <1>0, <1>1, <1>2, <1>3 DEF IInv, BindingUnique, ChargedOnce, ReplayTruthful, ReceiptsClaimed

-----------------------------------------------------------------------------
(* The invariants *)

\* The invariant holds initially.
LEMMA InitInv == Init => IInv
<1> SUFFICES ASSUME Init PROVE IInv
  OBVIOUS
<1>1. NoRow \in Row /\ Shape(NoRow) /\ NoRow.startedAt = 0 /\ NoRow.delivery = None
        /\ NoRow.key = None /\ NoRow.outcome = None
  BY ConstantsAssumption DEF NoRow, Row, Shape, Started, States, Statuses
<1>2. TypeOK
  BY <1>1 DEF Init, TypeOK, NoReading
<1>3. \A r \in Reservations : RowInv(r) /\ ReadingInv(r)
  BY <1>1, NoRowTyped DEF Init, RowInv, ReadingInv
<1> QED
  BY <1>1, <1>2, <1>3 DEF Init, IInv, BindingUnique, ChargedOnce, ReplayTruthful, ReceiptsClaimed

\* The invariant is inductive.
LEMMA NextInv == IInv /\ [Next]_rvars => IInv'
<1> SUFFICES ASSUME IInv, [Next]_rvars PROVE IInv'
  OBVIOUS
<1>1. Time \subseteq Nat
  BY ConstantsAssumption DEF Time
<1>2. ASSUME NEW r \in Reservations, NEW c \in Contacts, NEW pinned \in BOOLEAN,
             Reserve(r, c, pinned)
      PROVE  IInv'
  BY <1>2, ReserveInv
<1>3. ASSUME NEW r \in Reservations, NEW d \in Deliveries, NEW until \in Time,
             \/ Claim(r, d, until)
             \/ Renew(r, d, rows[r].version, until)
      PROVE  IInv'
  BY <1>1, <1>3, ClaimInv, RenewInv
<1>4. ASSUME NEW r \in Reservations, NEW d \in Deliveries, NEW k \in Keys,
             \/ BeginSubmission(r, d, rows[r].version, k)
             \/ Confirm(r, d, k)
      PROVE  IInv'
  BY <1>4, BeginInv, ConfirmInv
<1>5. ASSUME NEW r \in Reservations, NEW d, NEW reason, Release(r, d, reason)
      PROVE  IInv'
  BY <1>5, ReleaseInv
<1>6. ASSUME NEW r \in Reservations, NEW d \in Deliveries, NEW k \in Keys, NEW ref \in Refs,
             NEW at \in Stamps, SettleUnknown(r, d, k, ref, at)
      PROVE  IInv'
  BY <1>6, SettleUnknownInv
<1>7. ASSUME NEW r \in Reservations, NEW d \in Deliveries, NEW k \in Keys, NEW ref \in Refs,
             NEW at \in Stamps, NEW outcome, NEW scope,
             SettleLate(r, d, k, ref, outcome, scope, at)
      PROVE  IInv'
  BY <1>7, SettleLateInv
<1>8. ASSUME NEW r \in Reservations, NEW d \in Deliveries, NEW k \in Keys, NEW ref \in Refs,
             NEW at \in Stamps, NEW outcome \in TerminalOutcomes, NEW scope \in Scopes,
             SettleTerminal(r, d, k, ref, outcome, scope, at)
      PROVE  IInv'
  BY <1>8, SettleTerminalInv
<1>9. ASSUME NEW r \in Reservations, NEW next \in States, ChangeReservationState(r, next)
      PROVE  IInv'
  BY <1>9, ChangeStateInv
<1>14. ASSUME NEW r \in Reservations, ReadRow(r) \/ Rollback(r) \/ Sweep(r)
       PROVE  IInv'
  BY <1>14, ReadRowInv, RollbackInv, SweepInv
<1>10. ASSUME NEW ref \in Refs, NEW evidence \in Evidence, RecordCorrelatedTouch(ref, evidence)
       PROVE  IInv'
  BY <1>10, TouchInv
<1>11. ASSUME NEW c \in Contacts, AdvanceHead(c)
       PROVE  IInv'
  BY <1>11, AdvanceHeadInv
<1>12. CASE Tick
  BY <1>12, TickInv
<1>13. CASE UNCHANGED rvars
  <2>1. \A r \in Reservations : RowInv(r)' /\ ReadingInv(r)'
    BY <1>13 DEF rvars, IInv, RowInv, Overrun, ReadingInv
  <2> QED
    BY <1>13, <2>1 DEF rvars, IInv, TypeOK, BindingUnique, ChargedOnce, ReplayTruthful,
                       ReceiptsClaimed
<1> QED
  BY <1>2, <1>3, <1>4, <1>5, <1>6, <1>7, <1>8, <1>9, <1>10, <1>11, <1>12, <1>13, <1>14 DEF Next

\* The inductive invariant holds in every behaviour of the reservation
\* commands, the touches, the direct state changes, the sweeper that comes
\* between the read and the update of a command, and the clock.
THEOREM ReservationInvariance == Spec => []IInv
<1> QED
  BY InitInv, NextInv, PTL DEF Spec

\* The tables keep their types.
THEOREM ReservationTypes == Spec => []TypeOK
<1>1. IInv => TypeOK
  BY DEF IInv
<1> QED
  BY <1>1, ReservationInvariance, PTL

\* The quota of a submission whose outcome is unknown is given back by nothing
\* but a sweep under the beginSubmission of a worker whose lease ran out.
THEOREM QuotaHeld == Spec => []HeldWhileUnknown
<1>1. IInv => HeldWhileUnknown
  <2> SUFFICES ASSUME IInv, NEW r \in Reservations
               PROVE  LET row == rows[r] IN
                      /\ Started(row) /\ row.outcome = None =>
                           \/ row.state = "RESERVED" /\ row.status = "UNKNOWN_RECONCILING"
                           \/ row.state = "CONFIRMED" /\ row.status = "ACCEPTED"
                           \/ /\ r \in overtaken /\ row.lease <= now
                              /\ row.state = "RELEASED" /\ row.status = "UNKNOWN_RECONCILING"
                      /\ row.state = "RELEASED" /\ Started(row) =>
                           \/ row.outcome = "PROVIDER_REJECTED"
                           \/ row.outcome = None /\ r \in overtaken
                      /\ row.state = "REFUNDED" /\ row.delivery # None =>
                           row.outcome = "DELIVERY_FAILED"
    BY DEF HeldWhileUnknown
  <2>1. rows[r] \in Row /\ RowInv(r) /\ Shape(rows[r])
    BY DEF IInv, TypeOK, RowInv
  <2>2. Started(rows[r]) /\ rows[r].outcome = None =>
          rows[r].status \in {"UNKNOWN_RECONCILING", "ACCEPTED"}
    BY <2>1 DEF Shape, Row, Statuses
  <2>3. rows[r].outcome # None /\ rows[r].state = "RELEASED" =>
          rows[r].outcome = "PROVIDER_REJECTED"
    BY <2>1 DEF Shape, Row, NextState, TerminalOutcomes
  <2>4. rows[r].state = "REFUNDED" /\ rows[r].delivery # None =>
          rows[r].outcome = "DELIVERY_FAILED"
    BY <2>1 DEF Shape, Row, Statuses, NextState, TerminalOutcomes
  <2>5. r \in overtaken => rows[r].state # "RESERVED" /\ (Started(rows[r]) => rows[r].lease <= now)
    BY <2>1 DEF RowInv, Overrun
  <2>6. r \notin overtaken /\ rows[r].status = "UNKNOWN_RECONCILING" => rows[r].state = "RESERVED"
    BY <2>1 DEF RowInv, Tight
  <2> QED
    BY <2>1, <2>2, <2>3, <2>4, <2>5, <2>6 DEF Shape
<1> QED
  BY <1>1, ReservationInvariance, PTL

\* Deliveries, provider request keys and Attempts are never shared.
THEOREM BindingsNeverShared == Spec => []BindingUnique
<1>1. IInv => BindingUnique
  BY DEF IInv
<1> QED
  BY <1>1, ReservationInvariance, PTL

\* Every submission was begun inside its lease and its reservation.
THEOREM SubmittedInLease == Spec => []BegunInLease
<1>1. IInv => BegunInLease
  BY DEF IInv, RowInv, BegunInLease, Shape
<1> QED
  BY <1>1, ReservationInvariance, PTL

\* A contact is charged once per reservation, for the outcome it ended with.
THEOREM ChargedAtMostOnce == Spec => []ChargedOnce
<1>1. IInv => ChargedOnce
  BY DEF IInv
<1> QED
  BY <1>1, ReservationInvariance, PTL

\* A stored response replayed after a restart is never false, also of a
\* reservation that was swept under a command.
THEOREM ReplayNeverLies == Spec => []ReplayTruthful
<1>1. IInv => ReplayTruthful
  BY DEF IInv
<1> QED
  BY <1>1, ReservationInvariance, PTL

-----------------------------------------------------------------------------
(* The lifecycle *)

\* An unsettled reservation has not been charged.
LEMMA UnsettledUncharged ==
  ASSUME IInv, NEW r \in Reservations, rows[r].outcome = None
  PROVE  ChargeOf(r) = "none"
<1>1. rows[r].ref = None
  BY RowFacts DEF Shape
<1>2. \A f \in Refs : attempts[f] # None => attempts[f].reservation # r
  BY <1>1, ConstantsAssumption DEF IInv, ChargedOnce
<1> QED
  BY <1>2 DEF ChargeOf

\* Without new facts the charges stay the same.
LEMMA SameFacts ==
  ASSUME UNCHANGED <<attempts, touches>>, NEW r
  PROVE  ChargeOf(r)' = ChargeOf(r)
BY DEF ChargeOf

\* A step that changes one reservation is a move of the lifecycle.
LEMMA LifecycleMove ==
  ASSUME NEW r \in Reservations, NEW from, NEW to, NEW before, NEW after,
         rows[r].state \in from, ChargeOf(r) = before,
         rows'[r].state = to, ChargeOf(r)' = after, overtaken' = overtaken,
         \A o \in Reservations : o # r => /\ rows'[o].state = rows[o].state
                                         /\ ChargeOf(o)' = ChargeOf(o)
  PROVE  Lifecycle!Move(r, from, to, before, after)
BY DEF Lifecycle!Move

\* A step that changes no state and no fact is a stuttering step.
LEMMA LifecycleStutter ==
  ASSUME \A o \in Reservations : rows'[o].state = rows[o].state,
         UNCHANGED <<attempts, touches, overtaken>>
  PROVE  UNCHANGED Lifecycle!vars
<1>1. \A o \in Reservations : ChargeOf(o)' = ChargeOf(o)
  BY SameFacts
<1> QED
  BY <1>1 DEF Lifecycle!vars

\* A command that keeps the state of its row is a stuttering step.
LEMMA KeepsState ==
  ASSUME IInv, NEW r \in Reservations, NEW b, b.state = rows[r].state,
         rows' = [rows EXCEPT ![r] = b], UNCHANGED <<attempts, touches, overtaken>>
  PROVE  UNCHANGED Lifecycle!vars
<1>1. \A o \in Reservations : rows'[o].state = rows[o].state
  BY DEF IInv, TypeOK
<1> QED
  BY <1>1, LifecycleStutter

\* A step that moves an unsettled reservation and records no fact.
LEMMA UnchargedMove ==
  ASSUME IInv, NEW r \in Reservations, NEW b, NEW from, NEW to, rows[r].outcome = None,
         rows' = [rows EXCEPT ![r] = b], rows[r].state \in from, b.state = to,
         UNCHANGED <<attempts, touches, overtaken>>
  PROVE  Lifecycle!Move(r, from, to, "none", "none")
<1>1. ChargeOf(r) = "none" /\ \A o \in Reservations : ChargeOf(o)' = ChargeOf(o)
  BY UnsettledUncharged, SameFacts
<1>2. rows'[r].state = to /\ \A o \in Reservations : o # r => rows'[o].state = rows[o].state
  BY DEF IInv, TypeOK
<1> QED
  BY <1>1, <1>2, LifecycleMove

\* A command that finds its row swept is Overtake of the lifecycle, whatever
\* it makes of the row.
LEMMA OvertakeMove ==
  ASSUME IInv, NEW r \in Reservations, NEW b, Seen(r).state = "RESERVED",
         rows[r].state = "RELEASED", rows' = [rows EXCEPT ![r] = b],
         b.state \in {"RELEASED", "CONFIRMED"}, overtaken' = overtaken \cup {r},
         UNCHANGED <<attempts, touches>>
  PROVE  Lifecycle!Next
<1>1. rows[r].outcome = None
  <2>1. /\ Sweepable(Seen(r)) /\ Shape(Seen(r)) /\ Seen(r) \in Row
        /\ rows[r].outcome = Seen(r).outcome
    BY SeenFacts DEF Under
  <2> QED
    BY <2>1 DEF Shape, Sweepable
<1>2. ChargeOf(r) = "none" /\ \A o \in Reservations : ChargeOf(o)' = ChargeOf(o)
  BY <1>1, UnsettledUncharged, SameFacts
<1>3. rows'[r].state = b.state /\ \A o \in Reservations : o # r => rows'[o].state = rows[o].state
  BY DEF IInv, TypeOK
<1>4. Lifecycle!Overtake(r)
  BY <1>2, <1>3 DEF Lifecycle!Overtake
<1> QED
  BY <1>4 DEF Lifecycle!Next

\* A command on a reserved row that keeps the row's state stutters, or
\* overtakes.
LEMMA KeepingStep ==
  ASSUME IInv, NEW r \in Reservations, NEW b, Update(r, b), Seen(r).state = "RESERVED",
         b.state = rows[r].state, UNCHANGED <<attempts, touches>>
  PROVE  Lifecycle!Next \/ UNCHANGED Lifecycle!vars
<1>1. rows' = [rows EXCEPT ![r] = b]
  BY DEF Update
<1>2. CASE overtaken' = overtaken
  BY <1>1, <1>2, KeepsState
<1>3. CASE rows[r].state = "RELEASED" /\ overtaken' = overtaken \cup {r}
  BY <1>1, <1>3, OvertakeMove
<1> QED
  BY <1>2, <1>3, Overtaking

\* Reserve is Reserve of the lifecycle.
LEMMA ReserveStep ==
  ASSUME IInv, NEW r \in Reservations, NEW c, NEW pinned, Reserve(r, c, pinned)
  PROVE  Lifecycle!Next
<1> DEFINE b == [NoRow EXCEPT !.state = "RESERVED", !.contact = c,
                              !.expiresAt = now + TTL,
                              !.auth = IF pinned THEN head[c] ELSE None]
<1>1. /\ rows' = [rows EXCEPT ![r] = b] /\ rows[r].state \in {"NONE"}
      /\ b.state = "RESERVED" /\ UNCHANGED <<attempts, touches, overtaken>>
  BY DEF Reserve, NoRow
<1> HIDE DEF b
<1>2. rows[r].outcome = None
  BY <1>1, RowFacts DEF Shape
<1>3. Lifecycle!Move(r, {"NONE"}, "RESERVED", "none", "none")
  BY <1>1, <1>2, UnchargedMove
<1> QED
  BY <1>3 DEF Lifecycle!Next, Lifecycle!Reserve

\* Confirm is Confirm of the lifecycle.
LEMMA ConfirmStep ==
  ASSUME IInv, NEW r \in Reservations, NEW d, NEW k, Confirm(r, d, k)
  PROVE  Lifecycle!Next
<1> DEFINE b == [rows[r] EXCEPT !.state = "CONFIRMED", !.status = "ACCEPTED"]
<1>1. /\ rows' = [rows EXCEPT ![r] = b] /\ rows[r].state \in {"RESERVED"}
      /\ rows[r].outcome = None /\ UNCHANGED <<attempts, touches, overtaken>>
  BY StartedSeen DEF Confirm, Commit, Update, Settled, ProviderBound
<1>2. b.state = "CONFIRMED"
  BY RowFacts DEF Row
<1> HIDE DEF b
<1>3. Lifecycle!Move(r, {"RESERVED"}, "CONFIRMED", "none", "none")
  BY <1>1, <1>2, UnchargedMove
<1> QED
  BY <1>3 DEF Lifecycle!Next, Lifecycle!Confirm

\* Release is Release of the lifecycle, or finds its row swept.
LEMMA ReleaseStep ==
  ASSUME IInv, NEW r \in Reservations, NEW d, NEW reason, Release(r, d, reason)
  PROVE  Lifecycle!Next
<1> DEFINE b == [rows[r] EXCEPT !.state = "RELEASED", !.status = "SETTLED"]
<1>1. /\ rows' = [rows EXCEPT ![r] = b] /\ Seen(r).state = "RESERVED" /\ Update(r, b)
      /\ ~Started(Seen(r)) /\ UNCHANGED <<attempts, touches>>
  BY DEF Release, Commit, Update
<1>2. b.state = "RELEASED"
  BY RowFacts DEF Row
<1> HIDE DEF b
<1>3. CASE rows[r] = Seen(r) /\ overtaken' = overtaken
  <2>1. rows[r].outcome = None
    BY <1>1, <1>3, RowFacts DEF Shape
  <2>2. Lifecycle!Move(r, {"RESERVED"}, "RELEASED", "none", "none")
    BY <1>1, <1>2, <1>3, <2>1, UnchargedMove
  <2> QED
    BY <2>2 DEF Lifecycle!Next, Lifecycle!Release
<1>4. CASE rows[r].state = "RELEASED" /\ overtaken' = overtaken \cup {r}
  BY <1>1, <1>2, <1>4, OvertakeMove
<1> QED
  BY <1>1, <1>3, <1>4, Overtaking

\* The sweeper is Release of the lifecycle.
LEMMA SweepStep ==
  ASSUME IInv, NEW r \in Reservations, Sweep(r)
  PROVE  Lifecycle!Next
<1> DEFINE b == [rows[r] EXCEPT !.state = "RELEASED", !.status = "SETTLED"]
<1>1. /\ rows' = [rows EXCEPT ![r] = b] /\ Sweepable(rows[r])
      /\ UNCHANGED <<attempts, touches, overtaken>>
  BY DEF Sweep
<1>2. /\ b.state = "RELEASED" /\ rows[r].outcome = None
      /\ rows[r].state \in {"RESERVED"}
  BY <1>1, RowFacts DEF Row, Shape, Sweepable
<1> HIDE DEF b
<1>3. Lifecycle!Move(r, {"RESERVED"}, "RELEASED", "none", "none")
  BY <1>1, <1>2, UnchargedMove
<1> QED
  BY <1>3 DEF Lifecycle!Next, Lifecycle!Release

\* The direct path takes steps of the lifecycle.
LEMMA ChangeStateStep ==
  ASSUME IInv, NEW r \in Reservations, NEW next, ChangeReservationState(r, next)
  PROVE  Lifecycle!Next
<1> DEFINE b == [rows[r] EXCEPT !.state = next]
<1>1. /\ rows' = [rows EXCEPT ![r] = b] /\ Seen(r).delivery = None /\ Update(r, b)
      /\ next \in Transition(Seen(r).state) /\ UNCHANGED <<attempts, touches>>
  BY DEF ChangeReservationState, Update
<1>2. b.state = next
  BY RowFacts DEF Row
<1> HIDE DEF b
<1>3. \/ Seen(r).state = "RESERVED" /\ next = "CONFIRMED"
      \/ Seen(r).state = "RESERVED" /\ next = "RELEASED"
      \/ Seen(r).state = "CONFIRMED" /\ next = "REFUNDED"
  BY <1>1 DEF Transition
<1>4. CASE rows[r] = Seen(r) /\ overtaken' = overtaken
  <2>1. rows[r].outcome = None
    BY <1>1, <1>4, RowFacts DEF Shape
  <2>2. \/ Lifecycle!Move(r, {"RESERVED"}, "CONFIRMED", "none", "none")
        \/ Lifecycle!Move(r, {"RESERVED"}, "RELEASED", "none", "none")
        \/ Lifecycle!Move(r, {"CONFIRMED"}, "REFUNDED", "none", "none")
    BY <1>1, <1>2, <1>3, <1>4, <2>1, UnchargedMove
  <2> QED
    BY <2>2 DEF Lifecycle!Next, Lifecycle!Confirm, Lifecycle!Release, Lifecycle!Refund
<1>5. CASE rows[r] # Seen(r)
  <2>1. /\ Seen(r).state = "RESERVED" /\ rows[r].state = "RELEASED"
        /\ overtaken' = overtaken \cup {r}
    BY <1>1, <1>5, SeenFacts DEF Sweepable, Update
  <2> QED
    BY <1>1, <1>2, <1>3, <2>1, OvertakeMove
<1> QED
  BY <1>1, <1>4, <1>5 DEF Update

\* A terminal outcome moves quota and charge as the lifecycle allows.
LEMMA SettleTerminalStep ==
  ASSUME IInv, NEW r \in Reservations, NEW d \in Deliveries, NEW k \in Keys, NEW ref \in Refs,
         NEW outcome \in TerminalOutcomes, NEW scope, NEW at \in Stamps,
         SettleTerminal(r, d, k, ref, outcome, scope, at)
  PROVE  Lifecycle!Next
<1> DEFINE b == [rows[r] EXCEPT !.state = NextState(outcome), !.status = "SETTLED",
                                !.outcome = outcome, !.ref = ref]
           fact == [reservation |-> r, delivery |-> d, outcome |-> outcome, at |-> at]
<1>1. /\ rows' = [rows EXCEPT ![r] = b] /\ rows[r].outcome = None
      /\ rows[r].status # "SETTLED" /\ Started(rows[r]) /\ overtaken' = overtaken
      /\ outcome = "PROVIDER_REJECTED" => rows[r].state # "CONFIRMED"
      /\ outcome = "DELIVERY_FAILED" => rows[r].state = "CONFIRMED"
  BY StartedSeen DEF SettleTerminal, Commit, Update, Settled, ProviderBound
<1>2. \/ /\ attempts[ref] = None /\ attempts' = [attempts EXCEPT ![ref] = fact]
         /\ outcome = "DELIVERED" /\ touches' = [touches EXCEPT ![ref] = "SETTLEMENT"]
      \/ /\ attempts[ref] = None /\ attempts' = [attempts EXCEPT ![ref] = fact]
         /\ outcome # "DELIVERED" /\ touches' = touches
      \/ outcome = "PROVIDER_REJECTED" /\ UNCHANGED <<attempts, touches>>
  BY DEF SettleTerminal, CountsAsTouch, CountsAsAttempt
<1>3. b.state = NextState(outcome)
  BY RowFacts DEF Row
<1>4. /\ rows[r].state \in {"RESERVED", "CONFIRMED", "RELEASED"}
      /\ rows[r].state = "RELEASED" => r \in overtaken
  BY <1>1, RowFacts DEF Shape, Row, Statuses, IInv, RowInv, Tight
<1> HIDE DEF b
<1>5. /\ fact # None /\ fact.reservation = r
  <2>1. fact \in Fact /\ fact.reservation = r
    BY DEF Fact
  <2> QED
    BY <2>1, FactAssumption
<1> HIDE DEF fact
<1>6. /\ attempts \in [Refs -> Fact \cup {None}]
      /\ touches \in [Refs -> Evidence \cup {"SETTLEMENT", None}]
      /\ rows'[r] = b
      /\ \A o \in Reservations : o # r => rows'[o].state = rows[o].state
  BY <1>1 DEF IInv, TypeOK
<1>7. ChargeOf(r) = "none" /\ \A f \in Refs : attempts[f] # None => attempts[f].reservation # r
  BY <1>1, UnsettledUncharged DEF ChargeOf
<1>8. attempts[ref] = None => touches[ref] = None
  BY DEF IInv, ChargedOnce
<1>9. \A o \in Reservations : o # r => ChargeOf(o)' = ChargeOf(o)
  <2> SUFFICES ASSUME NEW o \in Reservations, o # r
               PROVE  ChargeOf(o)' = ChargeOf(o)
    OBVIOUS
  <2>1. CASE UNCHANGED <<attempts, touches>>
    BY <2>1, SameFacts
  <2>2. CASE attempts[ref] = None /\ attempts' = [attempts EXCEPT ![ref] = fact]
    <3>1. \A f \in Refs : attempts'[f] # None /\ attempts'[f].reservation = o
                           <=> attempts[f] # None /\ attempts[f].reservation = o
      BY <1>5, <1>6, <2>2
    <3>2. \A f \in Refs : f # ref => touches'[f] = touches[f]
      BY <1>2, <1>6
    <3> QED
      BY <2>2, <3>1, <3>2 DEF ChargeOf
  <2> QED
    BY <1>2, <2>1, <2>2
<1>10. \/ ChargeOf(r)' = "touch" /\ outcome = "DELIVERED"
       \/ ChargeOf(r)' = "attempt" /\ outcome # "DELIVERED"
       \/ ChargeOf(r)' = "none" /\ outcome = "PROVIDER_REJECTED"
  <2>1. CASE UNCHANGED <<attempts, touches>> /\ outcome = "PROVIDER_REJECTED"
    BY <1>7, <2>1, SameFacts
  <2>2. CASE /\ attempts' = [attempts EXCEPT ![ref] = fact]
             /\ outcome = "DELIVERED" /\ touches' = [touches EXCEPT ![ref] = "SETTLEMENT"]
    <3>1. attempts'[ref] = fact /\ touches'[ref] # None
      BY <1>6, <2>2, ConstantsAssumption
    <3> QED
      BY <1>5, <2>2, <3>1 DEF ChargeOf
  <2>3. CASE /\ attempts[ref] = None /\ attempts' = [attempts EXCEPT ![ref] = fact]
             /\ outcome # "DELIVERED" /\ touches' = touches
    <3>1. attempts'[ref] = fact /\ touches'[ref] = None
      BY <1>6, <1>8, <2>3
    <3>2. \A f \in Refs : attempts'[f] # None /\ attempts'[f].reservation = r => f = ref
      BY <1>6, <1>7, <2>3
    <3> QED
      BY <1>5, <2>3, <3>1, <3>2 DEF ChargeOf
  <2> QED
    BY <1>2, <2>1, <2>2, <2>3
<1>11. CASE outcome = "PROVIDER_REJECTED"
  <2>1. rows[r].state # "CONFIRMED" /\ rows'[r].state = "RELEASED"
    BY <1>1, <1>3, <1>6, <1>11 DEF NextState
  <2>2. CASE rows[r].state \in {"RESERVED"}
    <3>1. \/ Lifecycle!Move(r, {"RESERVED"}, "RELEASED", "none", "attempt")
          \/ Lifecycle!Move(r, {"RESERVED"}, "RELEASED", "none", "none")
      BY <1>1, <1>6, <1>7, <1>9, <1>10, <1>11, <2>1, <2>2, LifecycleMove
    <3> QED
      BY <3>1 DEF Lifecycle!Next, Lifecycle!Release
  <2>3. CASE rows[r].state \in {"RELEASED"}
    <3>1. \/ Lifecycle!Move(r, {"RELEASED"}, "RELEASED", "none", "attempt")
          \/ Lifecycle!Move(r, {"RELEASED"}, "RELEASED", "none", "none")
      BY <1>1, <1>6, <1>7, <1>9, <1>10, <1>11, <2>1, <2>3, LifecycleMove
    <3> QED
      BY <1>4, <2>3, <3>1 DEF Lifecycle!Next, Lifecycle!SettleLoose
  <2> QED
    BY <1>4, <2>1, <2>2, <2>3
<1>12. CASE outcome = "DELIVERY_FAILED"
  <2>1. rows[r].state \in {"CONFIRMED"} /\ rows'[r].state = "REFUNDED"
    BY <1>1, <1>3, <1>6, <1>12 DEF NextState
  <2>2. Lifecycle!Move(r, {"CONFIRMED"}, "REFUNDED", "none", "attempt")
    BY <1>1, <1>6, <1>7, <1>9, <1>10, <1>12, <2>1, LifecycleMove
  <2> QED
    BY <2>2 DEF Lifecycle!Next, Lifecycle!Refund
<1>13. CASE outcome \in {"PROVIDER_ACCEPTED", "DELIVERED"}
  <2>1. rows'[r].state = "CONFIRMED"
    BY <1>3, <1>6, <1>13 DEF NextState
  <2>2. CASE rows[r].state \in {"RESERVED", "CONFIRMED"}
    <3>1. \/ Lifecycle!Move(r, {"RESERVED", "CONFIRMED"}, "CONFIRMED", "none", "attempt")
          \/ Lifecycle!Move(r, {"RESERVED", "CONFIRMED"}, "CONFIRMED", "none", "touch")
      BY <1>1, <1>6, <1>7, <1>9, <1>10, <1>13, <2>1, <2>2, LifecycleMove
    <3> QED
      BY <3>1 DEF Lifecycle!Next, Lifecycle!Charge
  <2>3. CASE rows[r].state \in {"RELEASED"}
    <3>1. \/ Lifecycle!Move(r, {"RELEASED"}, "CONFIRMED", "none", "attempt")
          \/ Lifecycle!Move(r, {"RELEASED"}, "CONFIRMED", "none", "touch")
      BY <1>1, <1>6, <1>7, <1>9, <1>10, <1>13, <2>1, <2>3, LifecycleMove
    <3> QED
      BY <1>4, <2>3, <3>1 DEF Lifecycle!Next, Lifecycle!SettleLoose
  <2> QED
    BY <1>4, <2>2, <2>3
<1> QED
  BY <1>11, <1>12, <1>13 DEF TerminalOutcomes

\* A correlated touch is Respond of the lifecycle.
LEMMA TouchStep ==
  ASSUME IInv, NEW ref \in Refs, NEW evidence \in Evidence, RecordCorrelatedTouch(ref, evidence)
  PROVE  Lifecycle!Next
<1>1. /\ attempts[ref] # None /\ attempts[ref].outcome = "PROVIDER_ACCEPTED"
      /\ touches[ref] = None /\ touches' = [touches EXCEPT ![ref] = evidence]
      /\ UNCHANGED <<rows, attempts, overtaken>>
      /\ touches \in [Refs -> Evidence \cup {"SETTLEMENT", None}]
      /\ attempts \in [Refs -> Fact \cup {None}]
  BY DEF RecordCorrelatedTouch, IInv, TypeOK
<1>2. PICK r \in Reservations : attempts[ref].reservation = r
  BY <1>1 DEF Fact
<1>3. /\ rows[r].ref = ref /\ rows[r].outcome = "PROVIDER_ACCEPTED"
      /\ \A f \in Refs : attempts[f] # None /\ attempts[f].reservation = r => f = ref
  BY <1>1, <1>2 DEF IInv, ChargedOnce
<1>4. rows[r].state = "CONFIRMED"
  BY <1>2, <1>3, RowFacts, ConstantsAssumption DEF Shape, NextState
<1>5. touches'[ref] # None /\ \A f \in Refs : f # ref => touches'[f] = touches[f]
  BY <1>1, ConstantsAssumption
<1>6. ChargeOf(r) = "attempt"
  BY <1>1, <1>2, <1>3 DEF ChargeOf
<1>7. ChargeOf(r)' = "touch"
  BY <1>1, <1>2, <1>5 DEF ChargeOf
<1>8. \A o \in Reservations : o # r => ChargeOf(o)' = ChargeOf(o)
  <2> SUFFICES ASSUME NEW o \in Reservations, o # r
               PROVE  ChargeOf(o)' = ChargeOf(o)
    OBVIOUS
  <2>1. \A f \in Refs : attempts[f] # None /\ attempts[f].reservation = o => f # ref
    BY <1>2
  <2> QED
    BY <1>1, <1>5, <2>1 DEF ChargeOf
<1>9. Lifecycle!Move(r, {"CONFIRMED"}, "CONFIRMED", "attempt", "touch")
  BY <1>1, <1>2, <1>4, <1>6, <1>7, <1>8, LifecycleMove
<1> QED
  BY <1>2, <1>9 DEF Lifecycle!Next, Lifecycle!Respond

\* A command past the barrier that keeps the row's state is a stuttering step.
LEMMA StutterSteps ==
  ASSUME IInv, NEW r \in Reservations, NEW op, NEW key, NEW input, NEW b,
         Commit(op, key, r, input, b), Started(rows[r]), b.state = rows[r].state,
         UNCHANGED <<attempts, touches>>
  PROVE  UNCHANGED Lifecycle!vars
BY KeepsState, StartedSeen DEF Commit, Update

\* Every step of the runtime is a step of the lifecycle or changes nothing
\* the lifecycle sees.
LEMMA LifecycleStep == IInv /\ [Next]_rvars => [Lifecycle!Next]_(Lifecycle!vars)
<1> SUFFICES ASSUME IInv, [Next]_rvars PROVE [Lifecycle!Next]_(Lifecycle!vars)
  OBVIOUS
<1>1. \A r \in Reservations : rows[r] \in Row
  BY DEF IInv, TypeOK
<1>2. ASSUME NEW r \in Reservations, NEW d, NEW until, Claim(r, d, until)
      PROVE  Lifecycle!Next \/ UNCHANGED Lifecycle!vars
  <2> DEFINE b == [rows[r] EXCEPT !.delivery = d, !.version = 1, !.lease = until,
                                  !.status = "CLAIMED"]
  <2>1. Update(r, b) /\ Seen(r).state = "RESERVED" /\ UNCHANGED <<attempts, touches>>
    BY <1>2 DEF Claim, Commit
  <2>2. b.state = rows[r].state
    BY <1>1 DEF Row
  <2> HIDE DEF b
  <2> QED
    BY <2>1, <2>2, KeepingStep
<1>3. ASSUME NEW r \in Reservations, NEW d, NEW version, NEW until, Renew(r, d, version, until)
      PROVE  Lifecycle!Next \/ UNCHANGED Lifecycle!vars
  <2> DEFINE b == [rows[r] EXCEPT !.version = version + 1, !.lease = until]
  <2>1. Update(r, b) /\ Seen(r).state = "RESERVED" /\ UNCHANGED <<attempts, touches>>
    BY <1>3 DEF Renew, HoldsLease, Commit
  <2>2. b.state = rows[r].state
    BY <1>1 DEF Row
  <2> HIDE DEF b
  <2> QED
    BY <2>1, <2>2, KeepingStep
<1>4. ASSUME NEW r \in Reservations, NEW d, NEW version, NEW k,
             BeginSubmission(r, d, version, k)
      PROVE  Lifecycle!Next \/ UNCHANGED Lifecycle!vars
  <2> DEFINE b == [rows[r] EXCEPT !.key = k, !.startedAt = Clock(r),
                                  !.status = "UNKNOWN_RECONCILING"]
  <2>1. Update(r, b) /\ Seen(r).state = "RESERVED" /\ UNCHANGED <<attempts, touches>>
    BY <1>4 DEF BeginSubmission, HoldsLease, Commit
  <2>2. b.state = rows[r].state
    BY <1>1 DEF Row
  <2> HIDE DEF b
  <2> QED
    BY <2>1, <2>2, KeepingStep
<1>5. ASSUME NEW r \in Reservations, NEW d, NEW k, NEW ref, NEW at, SettleUnknown(r, d, k, ref, at)
      PROVE  UNCHANGED Lifecycle!vars
  <2> DEFINE b == [rows[r] EXCEPT !.status = "UNKNOWN_RECONCILING"]
  <2>1. /\ Commit("SETTLE", ref, r, SettleInput(d, k, "UNKNOWN_RECONCILING", None, at), b)
        /\ Started(rows[r]) /\ UNCHANGED <<attempts, touches>>
    BY <1>5 DEF SettleUnknown, ProviderBound
  <2>2. b.state = rows[r].state
    BY <1>1 DEF Row
  <2> HIDE DEF b
  <2> QED
    BY <2>1, <2>2, StutterSteps
<1>6. ASSUME NEW r \in Reservations, NEW d, NEW k, NEW ref, NEW outcome, NEW scope, NEW at,
             SettleLate(r, d, k, ref, outcome, scope, at)
      PROVE  UNCHANGED Lifecycle!vars
  <2>1. /\ Commit("SETTLE", ref, r, SettleInput(d, k, outcome, scope, at), rows[r])
        /\ Started(rows[r]) /\ UNCHANGED <<attempts, touches>>
    BY <1>6 DEF SettleLate, ProviderBound
  <2> QED
    BY <2>1, StutterSteps
<1>7. ASSUME NEW r \in Reservations, NEW d \in Deliveries, NEW k \in Keys, NEW ref \in Refs,
             NEW at \in Stamps, NEW outcome \in TerminalOutcomes, NEW scope \in Scopes,
             SettleTerminal(r, d, k, ref, outcome, scope, at)
      PROVE  Lifecycle!Next
  BY <1>7, SettleTerminalStep
<1>8. ASSUME NEW r \in Reservations, NEW c, NEW pinned, NEW d, NEW k, NEW reason, NEW next,
             \/ Reserve(r, c, pinned) \/ Confirm(r, d, k) \/ Release(r, d, reason)
             \/ ChangeReservationState(r, next) \/ Sweep(r)
      PROVE  Lifecycle!Next
  BY <1>8, ReserveStep, ConfirmStep, ReleaseStep, ChangeStateStep, SweepStep
<1>9. ASSUME NEW ref \in Refs, NEW evidence \in Evidence, RecordCorrelatedTouch(ref, evidence)
      PROVE  Lifecycle!Next
  BY <1>9, TouchStep
<1>10. ASSUME NEW c, NEW r,
              \/ ReadRow(r) \/ Rollback(r) \/ AdvanceHead(c) \/ Tick \/ UNCHANGED rvars
       PROVE  UNCHANGED Lifecycle!vars
  <2>1. UNCHANGED <<rows, attempts, touches, overtaken>>
    BY <1>10 DEF ReadRow, Rollback, AdvanceHead, Tick, rvars, tables
  <2> QED
    BY <2>1, LifecycleStutter
<1> QED
  BY <1>2, <1>3, <1>4, <1>5, <1>6, <1>7, <1>8, <1>9, <1>10 DEF Next

\* The delivery commands with their receipts, the correlated touches, the
\* direct state changes and the sweeper of expired reservations together
\* implement the lifecycle of a reservation: no interleaving and no replay
\* moves quota or charges a contact otherwise, and quota that was given back
\* is taken again only where the sweeper came between the read and the update
\* of a command.
THEOREM RuntimeImplementsLifecycle == Spec => ImplementsLifecycle
<1>1. Init => Lifecycle!Init
  <2> SUFFICES ASSUME Init PROVE Lifecycle!Init
    OBVIOUS
  <2>1. \A r \in Reservations : rows[r].state = "NONE" /\ ChargeOf(r) = "none"
    BY DEF Init, NoRow, ChargeOf
  <2> QED
    BY <2>1 DEF Init, Lifecycle!Init
<1> QED
  BY <1>1, LifecycleStep, ReservationInvariance, PTL DEF Spec, ImplementsLifecycle, Lifecycle!Spec
=============================================================================
