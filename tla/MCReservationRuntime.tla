------------------------ MODULE MCReservationRuntime ------------------------
(* The reservation runtime on a small instance. *)
EXTENDS ReservationRuntime, TLC

Symmetry == Permutations(Reservations) \cup Permutations(Deliveries)
              \cup Permutations(Keys) \cup Permutations(Refs)
=============================================================================
