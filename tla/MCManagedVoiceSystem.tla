----------------------- MODULE MCManagedVoiceSystem ------------------------
(* Instances of ManagedVoiceSystem for TLC. *)
EXTENDS ManagedVoiceSystem, TLC

\* Calls and agents are interchangeable.
Symmetric == Permutations(Calls) \cup Permutations(Agents)

=============================================================================
