--------------------------- MODULE MCLineDelivery ---------------------------
(* One delivery of LineDelivery for TLC. *)
EXTENDS LineDelivery, Functions, TLC

MCRefs == {<<d, c>> : d \in Deliveries, c \in {"accepted"} \cup Codes}

MCReservationOf == CHOOSE f \in [Deliveries -> Reservations] : IsInjective(f)

MCSymmetry == Permutations(Workers)
=============================================================================
