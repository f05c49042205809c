-------------------------- MODULE MCProvisioningSaga --------------------------
(***************************************************************************)
(* Instances of ProvisioningSaga for TLC.                                  *)
(***************************************************************************)
EXTENDS ProvisioningSaga, TLC

Symmetry == Permutations(Workers) \cup Permutations(Emails) \cup Permutations(Commands)

=============================================================================
