----------------------- MODULE MCInboundVoiceRouter ------------------------
(* Instances of InboundVoiceRouter for TLC: the cfg files choose the calls, *)
(* agents, overlapping handlers and queue policies.                         *)
EXTENDS InboundVoiceRouter, TLC

=============================================================================
