---------------------------- MODULE CallCustody ----------------------------
(***************************************************************************)
(* What call routing promises, without offers, commands, clocks or logs:   *)
(* who holds which call.  A call waits, is offered to one agent at a time, *)
(* is taken or given up; an agent holds one call at most, from the offer   *)
(* to the end of wrap-up, and is never offered again a call that they let  *)
(* ring out.                                                               *)
(***************************************************************************)
CONSTANTS Calls, Agents, NoAgent

VARIABLES
    phase,      \* the state of each call's interaction
    owner,      \* the agent who holds the call
    missed      \* the agents who let the call ring out

cvars == <<phase, owner, missed>>

CInit ==
    /\ phase = [c \in Calls |-> "NONE"]
    /\ owner = [c \in Calls |-> NoAgent]
    /\ missed = [c \in Calls |-> {}]

Open(c) == phase[c] \in {"NONE", "QUEUED", "ASSIGNED"}

Become(c, p, a) ==
    /\ phase' = [phase EXCEPT ![c] = p]
    /\ owner' = [owner EXCEPT ![c] = a]

\* The holder of an open offer, if any, missed the call.
Withdraw(c) == missed' = [missed EXCEPT ![c] = @ \cup ({owner[c]} \ {NoAgent})]

\* A call arrives, or its offer runs out and nobody else is free.
Wait(c) == Open(c) /\ Become(c, "QUEUED", NoAgent) /\ Withdraw(c)

\* The call goes to an agent who holds no call and has not missed this one.
Offer(c, a) ==
    /\ Open(c)
    /\ \A d \in Calls : owner[d] # a
    /\ a \notin missed[c]
    /\ Become(c, "ASSIGNED", a)
    /\ Withdraw(c)

Take(c) == phase[c] = "ASSIGNED" /\ Become(c, "ACTIVE", owner[c]) /\ UNCHANGED missed

Abandon(c) ==
    /\ Open(c)
    /\ Become(c, "ABANDONED", NoAgent)
    /\ Withdraw(c) \/ UNCHANGED missed

End(c) == phase[c] = "ACTIVE" /\ Become(c, "WRAPUP", owner[c]) /\ UNCHANGED missed

Complete(c) == phase[c] = "WRAPUP" /\ Become(c, "COMPLETED", NoAgent) /\ UNCHANGED missed

CNext ==
    \E c \in Calls :
        \/ Wait(c) \/ Take(c) \/ Abandon(c) \/ End(c) \/ Complete(c)
        \/ \E a \in Agents : Offer(c, a)

CSpec == CInit /\ [][CNext]_cvars

=============================================================================
