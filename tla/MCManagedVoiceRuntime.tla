----------------------- MODULE MCManagedVoiceRuntime -----------------------
(* Instances of ManagedVoiceRuntime for TLC. *)
EXTENDS ManagedVoiceRuntime, TLC

\* Calls and agents are interchangeable.
Symmetric == Permutations(Calls) \cup Permutations(Agents)

=============================================================================
