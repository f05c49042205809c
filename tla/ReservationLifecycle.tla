------------------------ MODULE ReservationLifecycle ------------------------
(***************************************************************************)
(* What Contact Governance promises about one reservation of contact       *)
(* quota, whatever delivery machinery sits on top of it: the quota is      *)
(* taken once, leaves RESERVED once, is given back only from where         *)
(* transitionReservation (reservation.ts) allows, and the contact is       *)
(* charged at most one Attempt and at most one Touch for it.  What was     *)
(* given back stays so, but for a reservation whose release overtook a     *)
(* command already under way: that command may still confirm or settle it, *)
(* with the same charges.                                                  *)
(***************************************************************************)

CONSTANT Reservations

VARIABLES
  quota,  \* quota[r]: the reservation state, "NONE" before authorizeAndReserve
  fact,   \* fact[r]: what the contact was charged: "none", "attempt" or "touch"
  loose   \* the reservations whose release overtook a command

vars == <<quota, fact, loose>>

Init ==
  /\ quota = [r \in Reservations |-> "NONE"]
  /\ fact = [r \in Reservations |-> "none"]
  /\ loose = {}

\* One step of reservation r: from one of the states `from` to state `to`,
\* with the charge going from `before` to `after`.
Move(r, from, to, before, after) ==
  /\ quota[r] \in from
  /\ fact[r] = before
  /\ quota' = [quota EXCEPT ![r] = to]
  /\ fact' = [fact EXCEPT ![r] = after]
  /\ loose' = loose

Reserve(r) == Move(r, {"NONE"}, "RESERVED", "none", "none")

Confirm(r) == Move(r, {"RESERVED"}, "CONFIRMED", "none", "none")

\* Given back before a confirmation: cancelled, or refused by the provider.
\* A refusal that reached the recipient is still an Attempt.
Release(r) ==
  \E charge \in {"none", "attempt"} :
    Move(r, {"RESERVED"}, "RELEASED", "none", charge)

\* Only a confirmed contact is refunded.
Refund(r) ==
  \E charge \in {"none", "attempt"} :
    Move(r, {"CONFIRMED"}, "REFUNDED", "none", charge)

\* The final outcome of a contact that took place: an Attempt when the
\* provider only accepted it, a Touch as well when it was delivered.
Charge(r) ==
  \E charge \in {"attempt", "touch"} :
    Move(r, {"RESERVED", "CONFIRMED"}, "CONFIRMED", "none", charge)

\* A command that was under way when the reservation was released writes it
\* after all: the quota stays given back or is confirmed.
Overtake(r) ==
  /\ quota[r] = "RELEASED" /\ fact[r] = "none"
  /\ \E to \in {"RELEASED", "CONFIRMED"} : quota' = [quota EXCEPT ![r] = to]
  /\ fact' = fact
  /\ loose' = loose \cup {r}

\* The outcome of a submission that was begun that way.
SettleLoose(r) ==
  /\ r \in loose
  /\ \/ \E charge \in {"none", "attempt"} :
          Move(r, {"RELEASED"}, "RELEASED", "none", charge)
     \/ \E charge \in {"attempt", "touch"} :
          Move(r, {"RELEASED"}, "CONFIRMED", "none", charge)

\* The customer answered an accepted contact.
Respond(r) == Move(r, {"CONFIRMED"}, "CONFIRMED", "attempt", "touch")

Next ==
  \E r \in Reservations :
    Reserve(r) \/ Confirm(r) \/ Release(r) \/ Refund(r) \/ Charge(r)
      \/ Respond(r) \/ Overtake(r) \/ SettleLoose(r)

Spec == Init /\ [][Next]_vars
=============================================================================
