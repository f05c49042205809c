---------------------- MODULE ManagedVoiceSystemProofs ----------------------
(* Theorems about ManagedVoiceSystem: the runtime with its port, its switch  *)
(* and crashes implements ManagedVoiceRuntime, and the switch agrees with    *)
(* the database about phones, bridges and cleanup.                           *)
EXTENDS ManagedVoiceSystem, ManagedVoiceCustodyProofs, FiniteSetTheorems

----------------------------------------------------------------------------
(* The inductive invariant *)

Finished == {"WRAPUP", "COMPLETED", "ABANDONED"}
Talked   == {"ANSWERED", "ENDED"}

\* Whatever an offer put on the switch, a command undoes: an offer that was
\* withdrawn has its cancel and a finished call its hangup, neither is ever
\* dropped as obsolete, and no call is hung up before it is finished.
Undone(row) ==
    /\ \A o \in Offers :
         /\ \A t \in Cleanup : row.cmd[o][t] # "OBSOLETE"
         /\ row.outcome[o] \in {"TIMED_OUT", "CANCELLED"} => row.cmd[o]["offer.cancel"] # "NONE"
         /\ row.cmd[o]["call.hangup"] # "NONE" => row.state \in Finished
    /\ row.state \in Finished => row.cmd[row.currentOffer]["call.hangup"] # "NONE"

\* At most one command of a call is at the port.
OneCommand(c) ==
    /\ pc[c] = "idle" <=> executing[c] = {}
    /\ \A p, q \in executing[c] : p = q

\* A leg and its marker: no leg without a marker, none waiting to be started
\* once its job is done or its marker settled, no marker without an offer;
\* and what the confirmed cleanup commands of the leg's offer say of the switch.
LegInv(c, o) ==
    /\ marker[c][o] = "none" => leg[c][o] = "none"
    /\ marker[c][o] = "settled" \/ <<"job", c, o>> \in events =>
         leg[c][o] \in {"answered", "hanging", "dead"}
    /\ marker[c][o] # "none" => call[c].outcome[o] # "NONE"
    /\ \A t \in Cleanup : call[c].cmd[o][t] = "CONFIRMED" => leg[c][o] \in {"none", "dead"}
    /\ call[c].cmd[o]["call.hangup"] = "CONFIRMED" => caller[c] # "up"

\* What is true of an offer while a command of it is at the port, although the
\* dispatcher read the rows before and the call may have moved on since.
PortInv(c, o) ==
    /\ <<o, "offer.create">> \in executing[c] =>
         /\ call[c].outcome[o] # "NONE"
         /\ \A t \in Cleanup : call[c].cmd[o][t] # "CONFIRMED"
         /\ pc[c] = "marked" => marker[c][o] = "set" /\ leg[c][o] = "none"
    /\ <<o, "call.bridge">> \in executing[c] => call[c].outcome[o] \in Talked
    /\ \A t \in Cleanup : <<o, t>> \in executing[c] =>
         /\ pc[c] \in {"seen", "killed"} => leg[c][o] \notin {"none", "queued"}
         /\ pc[c] = "absent" => marker[c][o] \in {"none", "settled"}

\* The caller's channel.
CallerInv(c) ==
    /\ caller[c] = "none" => call[c].state = "NONE"
    /\ bridged[c] # NoAgent => call[c].outcome[bridged[c]] \in Talked

\* Agent a's phone is taken by call c, or may be as soon as the port goes on.
Phone(c, a) ==
    Serving(call, a, c) \/ InPlay(c, a) \/ <<a, "offer.create">> \in executing[c]

PhonesApart == \A a \in Agents : \A c, d \in Calls : Phone(c, a) /\ Phone(d, a) => c = d

SwitchTypes ==
    /\ caller \in [Calls -> {"none", "up", "dead"}]
    /\ leg \in [Calls -> [Offers -> {"none", "queued", "ringing", "answered", "hanging", "dead"}]]
    /\ bridged \in [Calls -> Offers]
    /\ marker \in [Calls -> [Offers -> {"none", "set", "linked", "settled"}]]
    /\ events \in SUBSET ((EventTypes \cup {"job"}) \X Calls \X Offers)
    /\ pc \in [Calls -> Steps]
    /\ faults \in 0 .. MaxFaults

CallInv(c) ==
    /\ Undone(call[c]) /\ OneCommand(c) /\ CallerInv(c)
    /\ \A o \in Offers : LegInv(c, o) /\ PortInv(c, o)

SysInv ==
    /\ CustodyInv /\ SwitchTypes
    /\ \A c \in Calls : CallInv(c)
    /\ PhonesApart

----------------------------------------------------------------------------
(* What the transactions of the runtime do to one call's rows *)

\* An offer once made stays made, a conversation once begun stays one, and
\* nothing becomes CONFIRMED.
Onward(row, r) ==
    \A o \in Offers :
        /\ row.outcome[o] # "NONE" => r.outcome[o] # "NONE"
        /\ row.outcome[o] \in Talked => r.outcome[o] \in Talked
        /\ \A t \in Cleanup : r.cmd[o][t] = "CONFIRMED" => row.cmd[o][t] = "CONFIRMED"

LEMMA OnwardTransitive ==
    ASSUME NEW x, NEW y, NEW z, Onward(x, y), Onward(y, z)
    PROVE  Onward(x, z)
BY DEF Onward

LEMMA CleanupTypes ==
    /\ Cleanup \subseteq CmdTypes /\ "offer.cancel" \in Cleanup /\ "call.hangup" \in Cleanup
    /\ "offer.create" \in CmdTypes \ Cleanup /\ "call.bridge" \in CmdTypes \ Cleanup
    /\ "offer.cancel" # "call.hangup" /\ "offer.create" # "call.bridge"
    /\ \A t \in Cleanup : t = "offer.cancel" \/ t = "call.hangup"
    /\ \A t \in CmdTypes : t \in Cleanup \/ t = "offer.create" \/ t = "call.bridge"
BY DEF Cleanup, CmdTypes

LEMMA FreshUndone ==
    ASSUME NEW row \in CallRow, RowInv(row), row.state = "NONE", NEW n \in Nat,
           NEW r, r = [NewCall EXCEPT !.state = "QUEUED", !.deadline = n]
    PROVE  Undone(r) /\ Onward(row, r)
<1>1. /\ r.state = "QUEUED" /\ r.outcome = [o \in Offers |-> "NONE"]
      /\ r.cmd = [o \in Offers |-> [t \in CmdTypes |-> "NONE"]]
  BY DEF NewCall
<1>2. \A o \in Offers : /\ r.outcome[o] = "NONE" /\ row.outcome[o] = "NONE"
                        /\ \A t \in CmdTypes : r.cmd[o][t] = "NONE"
  BY <1>1 DEF RowInv, RowHistory
<1> QED
  BY <1>1, <1>2, CleanupTypes DEF Undone, Onward, Finished, Talked

LEMMA LateAnswerUndone ==
    ASSUME NEW row \in CallRow, Undone(row), NEW o \in Offers, NEW r, r = LateAnswer(row, o)
    PROVE  Undone(r) /\ Onward(row, r)
<1>1. /\ r.state = row.state /\ r.outcome = row.outcome /\ r.currentOffer = row.currentOffer
      /\ \A p \in Offers, u \in CmdTypes :
                r.cmd[p][u] = IF /\ p = o /\ u = "offer.cancel"
                                 /\ row.cmd[p][u] \in {"NONE", "CONFIRMED"}
                              THEN "PENDING" ELSE row.cmd[p][u]
  BY LateAnswerFields DEF Same
<1>2. row.currentOffer \in Offers
  BY DEF CallRow
<1> QED
  BY <1>1, <1>2, CleanupTypes DEF Undone, Onward

LEMMA TimeOutUndone ==
    ASSUME NEW row \in CallRow, RowInv(row), Undone(row), OfferPending(row), NEW r, r = TimeOut(row)
    PROVE  Undone(r) /\ Onward(row, r)
<1>1. /\ r.state = "QUEUED"
      /\ r.outcome = [row.outcome EXCEPT ![row.currentOffer] = "TIMED_OUT"]
      /\ \A p \in Offers, u \in CmdTypes :
                r.cmd[p][u] = IF /\ p = row.currentOffer /\ u = "offer.cancel"
                                 /\ row.cmd[p][u] = "NONE"
                              THEN "PENDING" ELSE row.cmd[p][u]
  BY TimeOutFields
<1>2. row.currentOffer \in Offers /\ row.state = "ASSIGNED" /\ row.outcome[row.currentOffer] = "PENDING"
  BY DEF CallRow, RowInv, RowCoherent, OfferPending
<1>3. \A p \in Offers : r.outcome[p] = IF p = row.currentOffer THEN "TIMED_OUT" ELSE row.outcome[p]
  BY <1>1, <1>2 DEF CallRow
<1>4. Undone(r)
  BY <1>1, <1>2, <1>3, CleanupTypes DEF Undone, Finished
<1>5. Onward(row, r)
  BY <1>1, <1>2, <1>3, CleanupTypes DEF Onward, Talked
<1> QED
  BY <1>4, <1>5

LEMMA TerminalUndone ==
    ASSUME NEW row \in CallRow, Undone(row), row.state \in Preanswer, NEW reason \in Reasons,
           NEW r, r = Terminal(row, reason)
    PROVE  Undone(r) /\ Onward(row, r)
<1>1. /\ r.state = "ABANDONED" /\ r.currentOffer = row.currentOffer
      /\ r.outcome = [row.outcome EXCEPT ![row.currentOffer] =
                              IF @ = "PENDING" THEN "CANCELLED" ELSE @]
      /\ \A p \in Offers, u \in CmdTypes :
                r.cmd[p][u] = IF /\ row.cmd[p][u] = "NONE"
                                 /\ \/ u = "offer.cancel" /\ row.outcome[p] # "NONE"
                                    \/ u = "call.hangup" /\ p = row.currentOffer
                              THEN "PENDING" ELSE row.cmd[p][u]
  BY TerminalFields DEF Same
<1>2. row.currentOffer \in Offers
  BY DEF CallRow
<1>3. \A p \in Offers : r.outcome[p] = IF p = row.currentOffer /\ row.outcome[p] = "PENDING"
                                      THEN "CANCELLED" ELSE row.outcome[p]
  BY <1>1, <1>2 DEF CallRow
<1>4. Undone(r)
  BY <1>1, <1>2, <1>3, CleanupTypes DEF Undone, Finished
<1>5. Onward(row, r)
  BY <1>1, <1>2, <1>3, CleanupTypes DEF Onward, Talked
<1> QED
  BY <1>4, <1>5

LEMMA AssignUndone ==
    ASSUME NEW row \in CallRow, RowInv(row), Undone(row), row.state = "QUEUED",
           NEW a \in Agents, NEW now \in Nat, NEW r, r = Assign(row, a, now)
    PROVE  Undone(r) /\ Onward(row, r)
<1>1. /\ r.state = "ASSIGNED" /\ r.outcome = [row.outcome EXCEPT ![a] = "PENDING"]
      /\ \A p \in Offers, u \in CmdTypes :
                u # "offer.create" => r.cmd[p][u] = row.cmd[p][u]
  BY AssignFields
<1>2. \A p \in Offers : r.outcome[p] = IF p = a THEN "PENDING" ELSE row.outcome[p]
  BY <1>1 DEF CallRow
<1>3. \A p \in Offers : row.outcome[p] \notin Talked
  BY DEF RowInv, RowCoherent, Talked
<1>4. \A p \in Offers, u \in Cleanup : r.cmd[p][u] = row.cmd[p][u]
  BY <1>1, CleanupTypes
<1> QED
  BY <1>1, <1>2, <1>3, <1>4, CleanupTypes DEF Undone, Onward, Finished

LEMMA AnsweredUndone ==
    ASSUME NEW row \in CallRow, Undone(row), row.state = "ASSIGNED",
           NEW now \in Nat, NEW r, r = Answered(row, row.currentOffer, now)
    PROVE  Undone(r) /\ Onward(row, r)
<1>1. PICK o \in Offers : o = row.currentOffer /\ r = Answered(row, o, now)
  BY DEF CallRow
<1>2. /\ r.state = "ACTIVE" /\ r.outcome = [row.outcome EXCEPT ![o] = "ANSWERED"]
      /\ \A p \in Offers, u \in CmdTypes :
                u # "call.bridge" \/ p # o => r.cmd[p][u] = row.cmd[p][u]
  BY <1>1, AnsweredFields
<1>3. \A p \in Offers : r.outcome[p] = IF p = o THEN "ANSWERED" ELSE row.outcome[p]
  BY <1>1, <1>2 DEF CallRow
<1>4. \A p \in Offers, u \in Cleanup : r.cmd[p][u] = row.cmd[p][u]
  BY <1>2, CleanupTypes
<1> QED
  BY <1>2, <1>3, <1>4, CleanupTypes DEF Undone, Onward, Finished, Talked

LEMMA EndedUndone ==
    ASSUME NEW row \in CallRow, RowInv(row), Undone(row), row.state = "ACTIVE", NEW r, r = Ended(row)
    PROVE  Undone(r) /\ Onward(row, r)
<1>1. /\ r.state = "WRAPUP" /\ r.currentOffer = row.currentOffer
      /\ r.outcome = [row.outcome EXCEPT ![row.currentOffer] = "ENDED"]
      /\ \A p \in Offers, u \in CmdTypes :
                r.cmd[p][u] = IF /\ p = row.currentOffer /\ u = "call.hangup"
                                 /\ row.cmd[p][u] = "NONE"
                              THEN "PENDING" ELSE row.cmd[p][u]
  BY EndedFields DEF Same
<1>2. row.currentOffer \in Offers
  BY DEF CallRow
<1>3. \A p \in Offers : r.outcome[p] = IF p = row.currentOffer THEN "ENDED" ELSE row.outcome[p]
  BY <1>1, <1>2 DEF CallRow
<1>4. Undone(r)
  BY <1>1, <1>2, <1>3, CleanupTypes DEF Undone, Finished
<1>5. Onward(row, r)
  BY <1>1, <1>2, <1>3, CleanupTypes DEF Onward, Talked
<1> QED
  BY <1>4, <1>5

\* A routing transaction gives the call to nobody new, or to an agent whom no
\* other call occupies or has still to let go.
Gives(c, r) ==
    \/ Held(call[c], r)
    \/ \A d \in Calls \ {c} : /\ ~Serving(call, r.agentId, d)
                              /\ ~CleanupPending(call, r.agentId, d)

Onto(c) ==
    \E r \in CallRow :
        /\ call' = [call EXCEPT ![c] = r]
        /\ Undone(r) /\ Onward(call[c], r) /\ Gives(c, r)

LEMMA AdvanceOnto ==
    ASSUME NEW c \in Calls, NEW row \in CallRow, NEW now \in Nat, NEW later \in Nat,
           call \in [Calls -> CallRow], RowInv(row), Undone(row),
           Onward(call[c], row), Held(call[c], row), Advance(c, row, now, later)
    PROVE  Onto(c)
<1> DEFINE q == Requeued(row)
<1>1. "PREANSWER_DEADLINE_EXCEEDED" \in Reasons
  BY DEF Reasons
<1>2. ASSUME row.state \in Preanswer
      PROVE  /\ q \in CallRow /\ RowInv(q) /\ Undone(q) /\ Onward(call[c], q)
             /\ Held(call[c], q) /\ q.state = "QUEUED" /\ q.state \in Preanswer
  <2>1. CASE OfferPending(row)
    <3>1. q = TimeOut(row)
      BY <2>1 DEF Requeued
    <3> HIDE DEF q
    <3>2. q \in CallRow /\ RowInv(q) /\ q.state = "QUEUED"
      BY <2>1, <3>1, TimeOutStep
    <3>3. Undone(q) /\ Onward(row, q)
      BY <2>1, <3>1, TimeOutUndone
    <3>4. Onward(call[c], q)
      BY <3>3, OnwardTransitive
    <3> QED
      BY <3>2, <3>3, <3>4 DEF Held, Live, Preanswer
  <2>2. CASE ~OfferPending(row)
    <3>1. q = row
      BY <2>2 DEF Requeued
    <3>2. row.state = "QUEUED"
      BY <1>2, <2>2 DEF RowInv, RowCoherent, Preanswer
    <3> QED
      BY <1>2, <3>1, <3>2
  <2> QED
    BY <2>1, <2>2
<1>3. CASE SetCall(c, row)
  BY <1>3 DEF SetCall, Onto, Gives
<1>4. ASSUME NEW w \in CallRow, RowInv(w), Undone(w), Onward(call[c], w), Held(call[c], w),
             w.state \in Preanswer, SetCall(c, Terminal(w, "PREANSWER_DEADLINE_EXCEEDED"))
      PROVE  Onto(c)
  <2> DEFINE r == Terminal(w, "PREANSWER_DEADLINE_EXCEEDED")
  <2>1. r \in CallRow /\ Held(w, r)
    BY <1>1, <1>4, TerminalStep
  <2>2. Undone(r) /\ Onward(w, r)
    BY <1>1, <1>4, TerminalUndone
  <2>3. call' = [call EXCEPT ![c] = r]
    BY <1>4 DEF SetCall
  <2> HIDE DEF r
  <2>4. Onward(call[c], r)
    BY <1>4, <2>2, OnwardTransitive
  <2>5. Held(call[c], r)
    BY <1>4, <2>1 DEF Held
  <2> QED
    BY <2>1, <2>2, <2>3, <2>4, <2>5 DEF Onto, Gives
<1>5. CASE row.state \in Preanswer /\ SetCall(c, q)
  BY <1>2, <1>5 DEF SetCall, Onto, Gives
<1>6. CASE row.state \in Preanswer /\ SetCall(c, Terminal(q, "PREANSWER_DEADLINE_EXCEEDED"))
  <2> HIDE DEF q
  <2> QED
    BY <1>2, <1>4, <1>6
<1>7. ASSUME row.state \in Preanswer, NEW a \in Agents, Eligible(c, q, a),
             SetCall(c, Assign(q, a, later))
      PROVE  Onto(c)
  <2> DEFINE r == Assign(q, a, later)
  <2> HIDE DEF q
  <2>0. q.outcome[a] \notin {"TIMED_OUT", "CANCELLED"}
    BY <1>7 DEF Eligible
  <2>1. r \in CallRow /\ r.agentId = a
    BY <1>2, <1>7, <2>0, AssignStep
  <2>2. Undone(r) /\ Onward(q, r)
    BY <1>2, <1>7, AssignUndone
  <2>3. call' = [call EXCEPT ![c] = r]
    BY <1>7 DEF SetCall
  <2> HIDE DEF r
  <2>4. Onward(call[c], r)
    BY <1>2, <1>7, <2>2, OnwardTransitive
  <2>5. \A d \in Calls \ {c} : ~Serving(call, a, d) /\ ~CleanupPending(call, a, d)
    BY <1>7 DEF Eligible, Serving, CleanupPending
  <2> QED
    BY <2>1, <2>2, <2>3, <2>4, <2>5 DEF Onto, Gives
<1> QED
  BY <1>3, <1>4, <1>5, <1>6, <1>7 DEF Advance

\* The calls' part of the invariant that the runtime's own steps rely on.
LEMMA RowFacts ==
    ASSUME CustodyInv, NEW c \in Calls
    PROVE  /\ clock \in Nat /\ call \in [Calls -> CallRow] /\ latest \in [Agents -> LogEntry]
           /\ executing \in [Calls -> SUBSET (Offers \X CmdTypes)]
           /\ call[c] \in CallRow /\ RowInv(call[c]) /\ Tight(call[c])
           /\ Onward(call[c], call[c]) /\ Held(call[c], call[c])
           /\ \A later \in clock .. clock + MaxLag : later \in Nat
           /\ call[c].currentOffer \in Offers
<1>1. \A later \in clock .. clock + MaxLag : later \in Nat
  BY InvFacts, ConstantsAssumption
<1>2. Onward(call[c], call[c]) /\ Held(call[c], call[c])
  BY DEF Onward, Held
<1>3. call[c].currentOffer \in Offers
  BY InvFacts DEF CallRow
<1> QED
  BY <1>1, <1>2, <1>3, InvFacts DEF CustodyInv, Inv, TypeOK

LEMMA UnchangedOnto ==
    ASSUME CustodyInv, NEW c \in Calls, Undone(call[c]), UNCHANGED call
    PROVE  Onto(c)
<1>1. call' = [call EXCEPT ![c] = call[c]]
  BY RowFacts
<1> QED
  BY <1>1, RowFacts DEF Onto, Gives

LEMMA CreatedOnto ==
    ASSUME CustodyInv, NEW c \in Calls, Undone(call[c]), Created(c)
    PROVE  Onto(c)
<1>1. PICK later \in clock .. clock + MaxLag :
        IF call[c].state = "NONE"
        THEN Advance(c, [NewCall EXCEPT !.state = "QUEUED",
                                        !.deadline = clock + PreanswerSec], clock, later)
        ELSE Advance(c, call[c], clock, later)
  BY DEF Created
<1>2. clock + PreanswerSec \in Nat /\ later \in Nat /\ clock \in Nat
  BY RowFacts, ConstantsAssumption
<1>3. CASE call[c].state = "NONE"
  <2> DEFINE r == [NewCall EXCEPT !.state = "QUEUED", !.deadline = clock + PreanswerSec]
  <2>1. Advance(c, r, clock, later)
    BY <1>1, <1>3
  <2>2. r \in CallRow /\ RowInv(r) /\ Held(call[c], r)
    BY <1>2, <1>3, RowFacts, FreshStep
  <2>3. Undone(r) /\ Onward(call[c], r)
    BY <1>2, <1>3, RowFacts, FreshUndone
  <2> HIDE DEF r
  <2> QED
    BY <1>2, <2>1, <2>2, <2>3, RowFacts, AdvanceOnto
<1>4. CASE call[c].state # "NONE"
  BY <1>1, <1>2, <1>4, RowFacts, AdvanceOnto
<1> QED
  BY <1>3, <1>4

LEMMA TickOnto ==
    ASSUME CustodyInv, NEW c \in Calls, Undone(call[c]), Tick(c)
    PROVE  Onto(c)
<1>1. PICK later \in clock .. clock + MaxLag : Advance(c, call[c], clock, later)
  BY DEF Tick
<1> QED
  BY <1>1, RowFacts, AdvanceOnto

LEMMA AnswerOnto ==
    ASSUME CustodyInv, NEW c \in Calls, Undone(call[c]), NEW o \in Offers, NEW bridge, Answer(c, o, bridge)
    PROVE  Onto(c) /\ call[c].state # "NONE" /\ o \in Agents
<1>1. PICK later \in clock .. clock + MaxLag :
        /\ call[c].outcome[o] # "NONE"
        /\ \/ SetCall(c, LateAnswer(call[c], o))
           \/ UNCHANGED call
           \/ Advance(c, LateAnswer(call[c], o), clock, later)
           \/ /\ o = call[c].currentOffer /\ call[c].state = "ASSIGNED" /\ InTime(call[c], o, later)
              /\ SetCall(c, Answered(call[c], o, later))
           \/ Advance(c, call[c], later, later)
  BY DEF Answer
<1>2. /\ later \in Nat /\ clock \in Nat /\ call[c] \in CallRow /\ RowInv(call[c])
      /\ Onward(call[c], call[c]) /\ Held(call[c], call[c]) /\ call \in [Calls -> CallRow]
  BY RowFacts
<1>3. call[c].state # "NONE" /\ o \in Agents
  BY <1>1, <1>2 DEF RowInv, RowHistory, RowCoherent, Offers
<1> SUFFICES Onto(c)
  BY <1>3
<1> DEFINE l == LateAnswer(call[c], o)
<1>4. l \in CallRow /\ RowInv(l) /\ Held(call[c], l) /\ Undone(l) /\ Onward(call[c], l)
  BY <1>2, LateAnswerStep, LateAnswerUndone
<1> HIDE DEF l
<1>5. CASE call' = [call EXCEPT ![c] = l]
  BY <1>4, <1>5 DEF Onto, Gives
<1>6. CASE UNCHANGED call
  BY <1>6, UnchangedOnto
<1>7. CASE Advance(c, l, clock, later)
  BY <1>2, <1>4, <1>7, AdvanceOnto
<1>8. CASE /\ o = call[c].currentOffer /\ call[c].state = "ASSIGNED" /\ InTime(call[c], o, later)
           /\ SetCall(c, Answered(call[c], o, later))
  <2> DEFINE r == Answered(call[c], call[c].currentOffer, later)
  <2>1. r \in CallRow /\ Held(call[c], r)
    <3>1. later < call[c].expiresAt[call[c].currentOffer]
      BY <1>8 DEF InTime
    <3> QED
      BY <1>2, <1>8, <3>1, AnsweredStep
  <2>2. Undone(r) /\ Onward(call[c], r)
    BY <1>2, <1>8, AnsweredUndone
  <2>3. call' = [call EXCEPT ![c] = r]
    BY <1>8 DEF SetCall
  <2> HIDE DEF r
  <2> QED
    BY <2>1, <2>2, <2>3 DEF Onto, Gives
<1>9. CASE Advance(c, call[c], later, later)
  BY <1>2, <1>9, AdvanceOnto
<1> QED
  BY <1>1, <1>3, <1>5, <1>6, <1>7, <1>8, <1>9 DEF SetCall, l

LEMMA EndCallOnto ==
    ASSUME CustodyInv, NEW c \in Calls, Undone(call[c]), EndCall(c)
    PROVE  Onto(c)
<1>1. call \in [Calls -> CallRow] /\ call[c] \in CallRow /\ RowInv(call[c])
  BY RowFacts
<1>2. CASE call[c].state \in Preanswer /\ SetCall(c, Terminal(call[c], "CALLER_CANCELLED"))
  <2> DEFINE r == Terminal(call[c], "CALLER_CANCELLED")
  <2>1. r \in CallRow /\ Held(call[c], r)
    BY <1>1, <1>2, TerminalStep DEF Reasons
  <2>2. Undone(r) /\ Onward(call[c], r)
    BY <1>1, <1>2, TerminalUndone DEF Reasons
  <2>3. call' = [call EXCEPT ![c] = r]
    BY <1>2 DEF SetCall
  <2> HIDE DEF r
  <2> QED
    BY <2>1, <2>2, <2>3 DEF Onto, Gives
<1>3. CASE call[c].state = "ACTIVE" /\ SetCall(c, Ended(call[c]))
  <2> DEFINE r == Ended(call[c])
  <2>1. r \in CallRow /\ Held(call[c], r)
    BY <1>1, <1>3, EndedStep
  <2>2. Undone(r) /\ Onward(call[c], r)
    BY <1>1, <1>3, EndedUndone
  <2>3. call' = [call EXCEPT ![c] = r]
    BY <1>3 DEF SetCall
  <2> HIDE DEF r
  <2> QED
    BY <2>1, <2>2, <2>3 DEF Onto, Gives
<1>4. CASE UNCHANGED call
  BY <1>4, UnchangedOnto
<1> QED
  BY <1>2, <1>3, <1>4 DEF EndCall

LEMMA HangupOnto ==
    ASSUME CustodyInv, NEW c \in Calls, Undone(call[c]), NEW o \in Offers, Hangup(c, o)
    PROVE  Onto(c) /\ call[c].state # "NONE"
<1>1. PICK later \in clock .. clock + MaxLag :
        /\ call[c].state # "NONE"
        /\ UNCHANGED call \/ Advance(c, call[c], clock, later) \/ EndCall(c)
  BY DEF Hangup
<1>2. CASE UNCHANGED call
  BY <1>1, <1>2, UnchangedOnto
<1>3. CASE Advance(c, call[c], clock, later)
  BY <1>1, <1>3, RowFacts, AdvanceOnto
<1> QED
  BY <1>1, <1>2, <1>3, EndCallOnto

LEMMA SubmitWrapupOnto ==
    ASSUME CustodyInv, NEW c \in Calls, Undone(call[c]), SubmitWrapup(c)
    PROVE  Onto(c) /\ call[c].state # "NONE"
<1> DEFINE r == [call[c] EXCEPT !.state = "COMPLETED"]
<1>1. /\ r \in CallRow /\ r.state = "COMPLETED" /\ r.agentId = call[c].agentId
      /\ r.outcome = call[c].outcome /\ r.cmd = call[c].cmd /\ r.currentOffer = call[c].currentOffer
  BY RowFacts DEF CallRow, States
<1>2. call' = [call EXCEPT ![c] = r] /\ call[c].state = "WRAPUP"
  BY RowFacts DEF SubmitWrapup
<1> HIDE DEF r
<1>3. Undone(r) /\ Onward(call[c], r) /\ Gives(c, r)
  BY <1>1, <1>2 DEF Undone, Finished, Onward, Gives, Held, Live
<1> QED
  BY <1>1, <1>2, <1>3 DEF Onto

LEMMA DropObsoleteOnto ==
    ASSUME CustodyInv, NEW c \in Calls, Undone(call[c]), NEW o \in Offers, NEW t \in CmdTypes,
           DropObsolete(c, o, t)
    PROVE  Onto(c) /\ call'[c].state = call[c].state
<1> DEFINE r == [call[c] EXCEPT !.cmd[o][t] = "OBSOLETE"]
<1>1. /\ r \in CallRow /\ r.state = call[c].state /\ r.agentId = call[c].agentId
      /\ r.outcome = call[c].outcome /\ r.currentOffer = call[c].currentOffer
      /\ \A p \in Offers, u \in CmdTypes :
           r.cmd[p][u] = IF p = o /\ u = t THEN "OBSOLETE" ELSE call[c].cmd[p][u]
  BY RowFacts DEF CallRow, Statuses
<1>2. call' = [call EXCEPT ![c] = r] /\ t \notin Cleanup
  BY RowFacts DEF DropObsolete, Obsolete, Cleanup
<1>3. call[c].currentOffer \in Offers
  BY RowFacts
<1> HIDE DEF r
<1>4. \A p \in Offers, u \in Cleanup : r.cmd[p][u] = call[c].cmd[p][u]
  BY <1>1, <1>2, CleanupTypes
<1>5. Undone(r) /\ Onward(call[c], r) /\ Gives(c, r)
  BY <1>1, <1>3, <1>4, CleanupTypes DEF Undone, Onward, Gives, Held
<1> QED
  BY <1>1, <1>2, <1>5, RowFacts DEF Onto

----------------------------------------------------------------------------
(* The system implements the runtime *)

\* The port's answer to a command, confirmed or not.
Ends(c, o, t) == \E confirmed \in BOOLEAN : EndExecute(c, o, t, confirmed)

LEMMA EndsIsNext ==
    ASSUME NEW c \in Calls, NEW o \in Offers, NEW t \in CmdTypes, Ends(c, o, t)
    PROVE  Next
BY DEF Ends, Next

LEMMA CreateIsNext ==
    ASSUME NEW c \in Calls, NEW a \in Agents, CreateStep(c, a)
    PROVE  UNCHANGED vars \/ Ends(c, a, "offer.create")
<1>1. (CallerUp(c) /\ LegUp(c, a)) \in BOOLEAN /\ LegUp(c, a) \in BOOLEAN
  BY DEF LegUp, CallerUp
<1> QED
  BY <1>1 DEF CreateStep, CreateCheck, CreateOriginate, CreateLink, CreateConfirm, Finish, GoTo, Ends

LEMMA BridgeIsNext ==
    ASSUME NEW c \in Calls, NEW a \in Agents, BridgeStep(c, a)
    PROVE  UNCHANGED vars \/ Ends(c, a, "call.bridge")
<1>1. (CallerUp(c) /\ LegUp(c, a)) \in BOOLEAN /\ CallerUp(c) \in BOOLEAN
  BY DEF LegUp, CallerUp
<1> QED
  BY <1>1 DEF BridgeStep, BridgeLegs, BridgeConfirm, Finish, GoTo, Ends

LEMMA CleanupIsNext ==
    ASSUME NEW c \in Calls, NEW o \in Offers, NEW t \in Cleanup, CleanupStep(c, o, t)
    PROVE  UNCHANGED vars \/ Ends(c, o, t)
<1>1. /\ (~LegUp(c, o) /\ (t = "offer.cancel" \/ ~CallerUp(c))) \in BOOLEAN
      /\ FALSE \in BOOLEAN
  BY DEF LegUp, CallerUp
<1>2. CASE CleanupKill(c, o, t)
  BY <1>1, <1>2 DEF CleanupKill, Finish, GoTo, Ends
<1> QED
  BY <1>1, <1>2 DEF CleanupStep, CleanupProbe, CleanupConfirm, Finish, GoTo, Ends

\* Every step of the port, the switch or the process is a step of the runtime,
\* or none; events of the switch that name no offer change nothing.
LEMMA SystemStep ==
    ASSUME CustodyInv, [SysNext]_sysVars
    PROVE  [Next]_vars
<1> USE CleanupTypes
<1>1. CASE UNCHANGED sysVars
  BY <1>1 DEF sysVars, vars
<1>2. CASE Pass \/ Restart
  BY <1>2 DEF Pass, Restart, Next
<1>3. ASSUME NEW c \in Calls,
             \/ CallerArrives(c) \/ DueTick(c) \/ Reconcile(c)
             \/ SubmitWrapup(c) /\ UNCHANGED port
      PROVE  Next
  BY <1>3 DEF CallerArrives, DueTick, Reconcile, Next
<1>4. ASSUME NEW c \in Calls, CallerEnds(c)
      PROVE  UNCHANGED vars
  BY <1>4 DEF CallerEnds
<1>5. ASSUME NEW c \in Calls, PortStep(c)
      PROVE  [Next]_vars
  <2>1. ASSUME NEW a \in Agents, CreateStep(c, a) \/ BridgeStep(c, a)
        PROVE  [Next]_vars
    <3>1. a \in Offers
      BY DEF Offers
    <3> QED
      BY <2>1, <3>1, CreateIsNext, BridgeIsNext, EndsIsNext
  <2>2. ASSUME NEW o \in Offers, NEW t \in Cleanup, CleanupStep(c, o, t)
        PROVE  [Next]_vars
    BY <2>2, CleanupIsNext, EndsIsNext
  <2> QED
    BY <1>5, <2>1, <2>2 DEF PortStep
<1>6. ASSUME NEW c \in Calls, NEW a \in Agents,
             \/ LegRings(c, a) \/ LegAnswers(c, a) \/ LegEnds(c, a)
             \/ BackgroundJob(c, a)
      PROVE  UNCHANGED vars
  BY <1>6 DEF LegRings, LegAnswers, LegEnds, BackgroundJob
<1>7. ASSUME NEW c \in Calls, NEW o \in Offers, NEW t \in CmdTypes,
             Start(c, o, t) \/ Drop(c, o, t) \/ PortFails(c, o, t)
      PROVE  Next
  <2>1. CASE PortFails(c, o, t)
    BY <2>1, EndsIsNext DEF PortFails, Finish, Ends
  <2> QED
    BY <1>7, <2>1 DEF Start, Drop, Next
<1>8. ASSUME NEW type \in EventTypes, NEW c \in Calls, NEW o \in Offers, Deliver(type, c, o)
      PROVE  Next
  <2>1. CASE Answer(c, o, FALSE) \/ Bridge(c, o)
    <3>1. call[c].outcome[o] # "NONE"
      BY <2>1 DEF Bridge, Answer
    <3>2. o \in Agents
      BY <3>1, RowFacts DEF RowInv, RowCoherent, Offers
    <3> QED
      BY <2>1, <3>2 DEF Next
  <2>2. CASE Hangup(c, o)
    BY <2>2 DEF Next
  <2> QED
    BY <1>8, <2>1, <2>2 DEF Deliver
<1>9. ASSUME NEW a \in Agents, SelfAvailable(a)
      PROVE  Next
  BY <1>9 DEF Next
<1>10. ASSUME NEW a \in Agents, NEW s \in {"OFFLINE", "AVAILABLE"}, Stage(a, s) \/ Land(a, s)
       PROVE  Next
  BY <1>10 DEF Next
<1> QED
  BY <1>1, <1>2, <1>3, <1>4, <1>5, <1>6, <1>7, <1>8, <1>9, <1>10 DEF SysNext

LEMMA SystemCustody == SysSpec => []CustodyInv
<1>1. SysInit => CustodyInv
  BY CustodyAtStart DEF SysInit
<1>2. CustodyInv /\ [SysNext]_sysVars => CustodyInv'
  BY SystemStep, CustodyPreserved
<1> QED
  BY <1>1, <1>2, PTL DEF SysSpec

\* The runtime driven by the FreeSWITCH adapter is the runtime: whatever the
\* switch reports, the port answers or loses, and whenever the process is
\* restarted, the database sees a behaviour of ManagedVoiceRuntime.  Hence
\* every theorem about that specification holds of the system.
THEOREM SystemImplementsRuntime == SysSpec => Spec
<1>1. SysInit => Init
  BY DEF SysInit
<1>2. CustodyInv /\ [SysNext]_sysVars => [Next]_vars
  BY SystemStep
<1> QED
  BY <1>1, <1>2, SystemCustody, PTL DEF SysSpec, Spec

----------------------------------------------------------------------------
(* Preservation of the invariant *)

\* Nothing of call d changes but events that are consumed.
Untouched(d) ==
    /\ call'[d] = call[d] /\ executing'[d] = executing[d] /\ pc'[d] = pc[d]
    /\ leg'[d] = leg[d] /\ marker'[d] = marker[d]
    /\ caller'[d] = caller[d] /\ bridged'[d] = bridged[d]
    /\ \A o \in Offers : <<"job", d, o>> \in events' => <<"job", d, o>> \in events

LEMMA UntouchedKeeps ==
    ASSUME NEW d \in Calls, CallInv(d), Untouched(d)
    PROVE  CallInv(d)'
<1>1. Undone(call[d])' /\ OneCommand(d)' /\ CallerInv(d)'
  BY DEF CallInv, Untouched, Undone, OneCommand, CallerInv
<1>2. ASSUME NEW o \in Offers
      PROVE  LegInv(d, o)' /\ PortInv(d, o)'
  <2>1. LegInv(d, o) /\ PortInv(d, o)
    BY DEF CallInv
  <2>2. LegInv(d, o)'
    BY <2>1 DEF Untouched, LegInv
  <2>3. PortInv(d, o)'
    BY <2>1 DEF Untouched, PortInv
  <2> QED
    BY <2>2, <2>3
<1> QED
  BY <1>1, <1>2 DEF CallInv

\* A step takes nobody's phone.
LEMMA PhonesShrink ==
    ASSUME PhonesApart, \A a \in Agents, c \in Calls : Phone(c, a)' => Phone(c, a)
    PROVE  PhonesApart'
BY DEF PhonesApart

\* What a routing transaction on call c does while the port waits.
RoutedOnly(c) ==
    /\ Onto(c)
    /\ call[c].state = "NONE" /\ call'[c].state # "NONE" => caller'[c] # "none"
    /\ UNCHANGED <<executing, leg, bridged, marker, pc, faults>>
    /\ caller' \in [Calls -> {"none", "up", "dead"}]
    /\ caller'[c] = caller[c] \/ caller[c] = "none"
    /\ \A d \in Calls \ {c} : caller'[d] = caller[d]
    /\ events' \subseteq events

\* An agent whose phone is taken serves that call, or waits for its cleanup.
LEMMA PhoneOwed ==
    ASSUME SysInv, NEW c \in Calls, NEW a \in Agents, Phone(c, a)
    PROVE  Serving(call, a, c) \/ CleanupPending(call, a, c)
<1> SUFFICES ASSUME ~Serving(call, a, c), \A t \in Cleanup : call[c].cmd[a][t] # "PENDING"
             PROVE  FALSE
  BY DEF CleanupPending
<1>1. CustodyInv /\ CallInv(c) /\ a \in Offers
  BY DEF SysInv, Offers
<1>2. /\ Undone(call[c]) /\ LegInv(c, a) /\ PortInv(c, a) /\ call[c] \in CallRow
      /\ RowCoherent(call[c])
  BY <1>1, RowFacts DEF CallInv, RowInv
<1>3. InPlay(c, a) \/ <<a, "offer.create">> \in executing[c]
  BY DEF Phone
<1>4. call[c].outcome[a] # "NONE" /\ \A t \in Cleanup : call[c].cmd[a][t] # "CONFIRMED"
  BY <1>2, <1>3 DEF LegInv, PortInv, InPlay
<1>5. /\ \A t \in Cleanup : call[c].cmd[a][t] = "NONE"
      /\ call[c].outcome[a] \in Outcomes
  BY <1>1, <1>2, <1>4, CleanupTypes DEF CallRow, Undone, Statuses
<1>6. call[c].outcome[a] \notin {"TIMED_OUT", "CANCELLED"}
  BY <1>1, <1>2, <1>5, CleanupTypes DEF Undone
<1>7. a = call[c].currentOffer
  BY <1>1, <1>2, <1>4, <1>5, <1>6 DEF RowCoherent, Outcomes
<1>8. call[c].state \notin Finished
  BY <1>2, <1>5, <1>7, CleanupTypes DEF Undone
<1>9. call[c].state \in {"ASSIGNED", "ACTIVE"}
  BY <1>2, <1>4, <1>5, <1>6, <1>7, <1>8 DEF RowCoherent, Outcomes, OfferPending, Finished
<1> QED
  BY <1>2, <1>7, <1>9 DEF RowCoherent, Serving, Live

LEMMA RoutedOnlyKeeps ==
    ASSUME SysInv, NEW c \in Calls, RoutedOnly(c)
    PROVE  SwitchTypes' /\ (\A d \in Calls : CallInv(d)') /\ PhonesApart'
<1>1. PICK r \in CallRow :
        /\ call' = [call EXCEPT ![c] = r]
        /\ Undone(r) /\ Onward(call[c], r) /\ Gives(c, r)
  BY DEF RoutedOnly, Onto
<1>2. CustodyInv /\ SwitchTypes /\ PhonesApart /\ \A d \in Calls : CallInv(d)
  BY DEF SysInv
<1>3. call'[c] = r /\ \A d \in Calls \ {c} : call'[d] = call[d]
  BY <1>1, <1>2, RowFacts
<1>4. SwitchTypes'
  BY <1>2 DEF RoutedOnly, SwitchTypes
<1>5. \A d \in Calls \ {c} : CallInv(d)'
  BY <1>2, <1>3, UntouchedKeeps DEF RoutedOnly, Untouched
<1>6. CallInv(c)'
  <2>1. /\ Undone(call[c]) /\ OneCommand(c) /\ CallerInv(c)
        /\ \A o \in Offers : LegInv(c, o) /\ PortInv(c, o)
    BY <1>2 DEF CallInv
  <2>2. Undone(call[c])' /\ OneCommand(c)'
    BY <1>1, <1>3, <2>1 DEF RoutedOnly, OneCommand
  <2>3. CallerInv(c)'
    <3>1. bridged[c] \in Offers
      BY <1>2 DEF SwitchTypes
    <3> QED
      BY <1>1, <1>3, <2>1, <3>1 DEF RoutedOnly, CallerInv, Onward
  <2>4. ASSUME NEW o \in Offers
        PROVE  LegInv(c, o)'
    <3>1. caller[c] = "none" => call[c].cmd[o]["call.hangup"] = "NONE"
      BY <2>1 DEF CallerInv, Undone, Finished
    <3>2. r.cmd[o]["call.hangup"] = "CONFIRMED" => caller'[c] # "up"
      BY <1>1, <2>1, <3>1, CleanupTypes DEF RoutedOnly, Onward, LegInv
    <3> QED
      BY <1>1, <1>3, <2>1, <3>2 DEF RoutedOnly, LegInv, Onward
  <2>5. ASSUME NEW o \in Offers
        PROVE  PortInv(c, o)'
    BY <1>1, <1>3, <2>1 DEF RoutedOnly, PortInv, Onward
  <2> QED
    BY <2>2, <2>3, <2>4, <2>5 DEF CallInv
<1>7. PhonesApart'
  <2>1. \A d \in Calls, a \in Agents : d # c => (Phone(d, a)' <=> Phone(d, a))
    BY <1>3 DEF Phone, Serving, InPlay, RoutedOnly
  <2>2. CASE Held(call[c], r)
    <3>1. \A a \in Agents : Phone(c, a)' => Phone(c, a)
      BY <1>3, <2>2 DEF Phone, Serving, Held, InPlay, RoutedOnly
    <3> QED
      BY <1>2, <2>1, <3>1, PhonesShrink
  <2>3. CASE \A d \in Calls \ {c} : /\ ~Serving(call, r.agentId, d)
                                    /\ ~CleanupPending(call, r.agentId, d)
    <3>1. \A a \in Agents : Phone(c, a)' => Phone(c, a) \/ a = r.agentId
      BY <1>3, <2>3 DEF Phone, Serving, InPlay, RoutedOnly
    <3>2. \A d \in Calls \ {c}, a \in Agents : a = r.agentId => ~Phone(d, a)
      BY <2>3, PhoneOwed
    <3> QED
      BY <1>2, <2>1, <3>1, <3>2 DEF PhonesApart
  <2> QED
    BY <1>1, <2>2, <2>3 DEF Gives
<1> QED
  BY <1>4, <1>5, <1>6, <1>7

\* What is left to show of a step: SystemStep and CustodyPreserved give CustodyInv'.
Kept == SwitchTypes' /\ (\A d \in Calls : CallInv(d)') /\ PhonesApart'

LEMMA RoutingKeeps ==
    ASSUME SysInv, NEW c \in Calls,
           \/ CallerArrives(c) \/ DueTick(c) \/ Reconcile(c)
           \/ SubmitWrapup(c) /\ UNCHANGED port
    PROVE  Kept
<1>1. CustodyInv /\ SwitchTypes /\ Undone(call[c])
  BY DEF SysInv, CallInv
<1> SUFFICES RoutedOnly(c)
  BY RoutedOnlyKeeps DEF Kept
<1>2. CASE CallerArrives(c)
  <2>1. Onto(c)
    BY <1>1, <1>2, CreatedOnto DEF CallerArrives
  <2>2. UNCHANGED executing
    BY <1>2 DEF CallerArrives, Created
  <2> QED
    BY <1>1, <1>2, <2>1, <2>2 DEF CallerArrives, RoutedOnly, SwitchTypes
<1>3. CASE DueTick(c)
  BY <1>1, <1>3, TickOnto DEF DueTick, Tick, Preanswer, RoutedOnly, SwitchTypes, port, switch
<1>4. CASE Reconcile(c)
  BY <1>1, <1>4, EndCallOnto DEF Reconcile, ReconcileActive, RoutedOnly, SwitchTypes, port, switch
<1>5. CASE SubmitWrapup(c) /\ UNCHANGED port
  BY <1>1, <1>5, SubmitWrapupOnto DEF SubmitWrapup, RoutedOnly, SwitchTypes, port, switch
<1> QED
  BY <1>2, <1>3, <1>4, <1>5

LEMMA DropKeeps ==
    ASSUME SysInv, NEW c \in Calls, NEW o \in Offers, NEW t \in CmdTypes, Drop(c, o, t)
    PROVE  Kept
<1>1. CustodyInv /\ SwitchTypes /\ Undone(call[c])
  BY DEF SysInv, CallInv
<1>2. DropObsolete(c, o, t) /\ UNCHANGED port /\ UNCHANGED executing
  BY DEF Drop, DropObsolete
<1>3. RoutedOnly(c)
  BY <1>1, <1>2, DropObsoleteOnto DEF RoutedOnly, SwitchTypes, port, switch
<1> QED
  BY <1>3, RoutedOnlyKeeps DEF Kept

LEMMA DeliverKeeps ==
    ASSUME SysInv, NEW type \in EventTypes, NEW c \in Calls, NEW o \in Offers, Deliver(type, c, o)
    PROVE  Kept
<1>1. CustodyInv /\ SwitchTypes /\ Undone(call[c])
  BY DEF SysInv, CallInv
<1>2. Answer(c, o, FALSE) \/ Answer(c, o, TRUE) \/ Hangup(c, o)
  BY DEF Deliver, Bridge
<1>3. Onto(c) /\ call[c].state # "NONE"
  BY <1>1, <1>2, AnswerOnto, HangupOnto
<1>4. UNCHANGED executing
  BY <1>2 DEF Answer, Hangup
<1>5. RoutedOnly(c)
  BY <1>1, <1>3, <1>4 DEF Deliver, RoutedOnly, SwitchTypes, switch
<1> QED
  BY <1>5, RoutedOnlyKeeps DEF Kept

\* A step on call c alone: it is enough to look at that call.
LEMMA LocalKeeps ==
    ASSUME SysInv, NEW c \in Calls, SwitchTypes', \A d \in Calls \ {c} : Untouched(d), CallInv(c)',
           \A a \in Agents : Phone(c, a)' => Phone(c, a)
    PROVE  Kept
<1>1. PhonesApart /\ \A d \in Calls : CallInv(d)
  BY DEF SysInv
<1>2. \A d \in Calls : CallInv(d)'
  BY <1>1, UntouchedKeeps
<1>3. \A a \in Agents, d \in Calls : Phone(d, a)' => Phone(d, a)
  BY DEF Untouched, Phone, Serving, InPlay
<1> QED
  BY <1>1, <1>2, <1>3, PhonesShrink DEF Kept

LEMMA NothingKeeps ==
    ASSUME SysInv, UNCHANGED <<call, executing>>, UNCHANGED port
    PROVE  Kept
<1>1. SwitchTypes /\ PhonesApart /\ \A d \in Calls : CallInv(d)
  BY DEF SysInv
<1>2. SwitchTypes'
  BY <1>1 DEF SwitchTypes, port, switch
<1>3. \A d \in Calls : CallInv(d)'
  BY <1>1, UntouchedKeeps DEF Untouched, port, switch
<1>4. PhonesApart'
  BY <1>1 DEF PhonesApart, Phone, Serving, InPlay, port, switch
<1> QED
  BY <1>2, <1>3, <1>4 DEF Kept

LEMMA RestartKeeps ==
    ASSUME SysInv, Restart
    PROVE  Kept
<1>1. SwitchTypes /\ PhonesApart /\ \A d \in Calls : CallInv(d)
  BY DEF SysInv
<1>2. /\ UNCHANGED <<call, caller, leg, bridged, marker>> /\ events' = {}
      /\ \A d \in Calls : executing'[d] = {} /\ pc'[d] = "idle"
  BY DEF Restart, Crash, switch
<1>3. SwitchTypes'
  BY <1>1, <1>2, BoundsAssumption DEF SwitchTypes, Restart, Steps
<1>4. ASSUME NEW d \in Calls
      PROVE  CallInv(d)'
  <2>1. /\ Undone(call[d]) /\ CallerInv(d)
        /\ \A o \in Offers : LegInv(d, o)
    BY <1>1 DEF CallInv
  <2>2. Undone(call[d])' /\ OneCommand(d)' /\ CallerInv(d)'
    BY <1>2, <2>1 DEF Undone, OneCommand, CallerInv
  <2>3. ASSUME NEW o \in Offers
        PROVE  LegInv(d, o)' /\ PortInv(d, o)'
    BY <1>2, <2>1 DEF LegInv, PortInv
  <2> QED
    BY <2>2, <2>3 DEF CallInv
<1>5. PhonesApart'
  <2>1. \A a \in Agents, d \in Calls : Phone(d, a)' => Phone(d, a)
    BY <1>2 DEF Phone, Serving, InPlay
  <2> QED
    BY <1>1, <2>1, PhonesShrink
<1> QED
  BY <1>3, <1>4, <1>5 DEF Kept

----------------------------------------------------------------------------
(* Steps of the switch and of the port, by what they do to one call *)

Started   == {"answered", "hanging", "dead"}

Elsewhere(c) == SwitchTypes' /\ \A d \in Calls \ {c} : Untouched(d)

NoNewJob(c) == \A o \in Offers : <<"job", c, o>> \in events' => <<"job", c, o>> \in events

\* The caller stays, or is gone.
CallerMay(c) == caller'[c] = caller[c] \/ (caller[c] = "up" /\ caller'[c] = "dead")

\* A step that moves no leg: a request of the port on its way, the caller
\* going, a job reported.
Goes(c) ==
    /\ call'[c] = call[c] /\ executing'[c] = executing[c] /\ leg'[c] = leg[c]
    /\ pc'[c] = "idle" <=> pc[c] = "idle"
    /\ CallerMay(c) /\ NoNewJob(c)
    /\ bridged'[c] = bridged[c] \/ call[c].outcome[bridged'[c]] \in Talked
    /\ \A o \in Offers :
         \/ marker'[c][o] = marker[c][o]
         \/ /\ call[c].outcome[o] # "NONE" /\ marker'[c][o] # "none"
            /\ marker'[c][o] = "settled" => leg[c][o] \in Started

LEMMA GoesKeeps ==
    ASSUME SysInv, NEW c \in Calls, Elsewhere(c), Goes(c), \A o \in Offers : PortInv(c, o)'
    PROVE  Kept
<1>1. CallInv(c) /\ SwitchTypes
  BY DEF SysInv
<1>2. Undone(call[c])' /\ OneCommand(c)' /\ CallerInv(c)'
  BY <1>1 DEF CallInv, Goes, CallerMay, Undone, OneCommand, CallerInv
<1>3. ASSUME NEW o \in Offers
      PROVE  LegInv(c, o)'
  <2>1. LegInv(c, o)
    BY <1>1 DEF CallInv
  <2>2. /\ marker'[c][o] = "none" => marker[c][o] = "none"
        /\ marker'[c][o] # "none" => call[c].outcome[o] # "NONE"
        /\ marker'[c][o] = "settled" => leg[c][o] \in Started
    BY <2>1 DEF Goes, LegInv, Started
  <2> QED
    BY <2>1, <2>2 DEF LegInv, Goes, CallerMay, NoNewJob, Started
<1>4. CallInv(c)'
  BY <1>2, <1>3 DEF CallInv
<1>5. \A a \in Agents : Phone(c, a)' => Phone(c, a)
  BY DEF Goes, Phone, Serving, InPlay
<1> QED
  BY <1>4, <1>5, LocalKeeps DEF Elsewhere

\* The leg of offer a moves on: it is not brought up from nothing, and its job
\* is reported only once it no longer waits.
LegMoves(c, a, s) ==
    /\ call'[c] = call[c] /\ executing'[c] = executing[c]
    /\ bridged'[c] = bridged[c] /\ marker'[c] = marker[c]
    /\ leg'[c] = [leg[c] EXCEPT ![a] = s]
    /\ (InPlay(c, a) /\ s \in Started) \/ (leg[c][a] = "queued" /\ s = "ringing")
    /\ CallerMay(c)
    /\ pc'[c] = pc[c] \/ (pc[c] = "seen" /\ pc'[c] = "killed")
    /\ \A o \in Offers : <<"job", c, o>> \in events' =>
         <<"job", c, o>> \in events \/ (o = a /\ s \in Started)

LEMMA LegMovesKeeps ==
    ASSUME SysInv, NEW c \in Calls, NEW a \in Offers, NEW s, Elsewhere(c), LegMoves(c, a, s)
    PROVE  Kept
<1>1. /\ CallInv(c) /\ SwitchTypes /\ InPlay(c, a)
      /\ s \in Started \/ (leg[c][a] = "queued" /\ s = "ringing")
  BY DEF SysInv, LegMoves, InPlay
<1>2. leg'[c][a] = s /\ \A o \in Offers \ {a} : leg'[c][o] = leg[c][o]
  BY <1>1 DEF LegMoves, SwitchTypes
<1>3. Undone(call[c])' /\ OneCommand(c)' /\ CallerInv(c)'
  BY <1>1 DEF CallInv, LegMoves, CallerMay, Undone, OneCommand, CallerInv
<1>4. ASSUME NEW o \in Offers
      PROVE  LegInv(c, o)' /\ PortInv(c, o)'
  <2>1. LegInv(c, o) /\ PortInv(c, o)
    BY <1>1 DEF CallInv
  <2>2. CASE o # a
    <3>1. LegInv(c, o)'
      BY <1>2, <2>1, <2>2 DEF LegInv, LegMoves, CallerMay
    <3>2. PortInv(c, o)'
      BY <1>2, <2>1, <2>2 DEF PortInv, LegMoves
    <3> QED
      BY <3>1, <3>2
  <2>3. CASE o = a
    <3>1. LegInv(c, o)'
      BY <1>1, <1>2, <2>1, <2>3 DEF LegInv, LegMoves, CallerMay, InPlay, Started
    <3>2. PortInv(c, o)'
      BY <1>1, <1>2, <2>1, <2>3 DEF PortInv, LegMoves, InPlay, Started
    <3> QED
      BY <3>1, <3>2
  <2> QED
    BY <2>2, <2>3
<1>5. CallInv(c)'
  BY <1>3, <1>4 DEF CallInv
<1>6. \A b \in Agents : Phone(c, b)' => Phone(c, b)
  <2>1. \A b \in Agents : b \in Offers
    BY DEF Offers
  <2> QED
    BY <1>1, <1>2, <2>1 DEF LegMoves, Phone, Serving, InPlay
<1> QED
  BY <1>5, <1>6, LocalKeeps DEF Elsewhere

\* The port has answered: the command's row, its lock and its place are
\* written in one transaction, and a confirmed cleanup tells the truth.
Settles(c, o, t, ok) ==
    /\ call'[c].state = call[c].state /\ call'[c].agentId = call[c].agentId
    /\ call'[c].currentOffer = call[c].currentOffer /\ call'[c].outcome = call[c].outcome
    /\ \A p \in Offers, u \in CmdTypes : call'[c].cmd[p][u] =
         IF p = o /\ u = t /\ ok /\ call[c].cmd[p][u] = "PENDING" THEN "CONFIRMED"
         ELSE call[c].cmd[p][u]
    /\ executing'[c] = {} /\ pc'[c] = "idle"
    /\ leg'[c] = leg[c] /\ bridged'[c] = bridged[c]
    /\ CallerMay(c) /\ NoNewJob(c)
    /\ \A p \in Offers :
         \/ marker'[c][p] = marker[c][p]
         \/ call[c].outcome[p] # "NONE" /\ marker'[c][p] = "settled" /\ leg[c][p] = "dead"

LEMMA SettlesKeeps ==
    ASSUME SysInv, NEW c \in Calls, NEW o \in Offers, NEW t \in CmdTypes, NEW ok,
           Elsewhere(c), Settles(c, o, t, ok),
           ok /\ t \in Cleanup => leg[c][o] \in {"none", "dead"},
           ok /\ t = "call.hangup" => caller'[c] # "up"
    PROVE  Kept
<1>1. CallInv(c) /\ SwitchTypes /\ call[c].currentOffer \in Offers
  BY RowFacts DEF SysInv
<1>2. OneCommand(c)' /\ \A p \in Offers : PortInv(c, p)'
  BY DEF Settles, OneCommand, PortInv
<1>3. CallerInv(c)'
  BY <1>1 DEF CallInv, Settles, CallerMay, CallerInv
<1>4. Undone(call[c])'
  <2>1. \A p \in Offers, u \in CmdTypes :
          (call'[c].cmd[p][u] = "NONE" <=> call[c].cmd[p][u] = "NONE") /\
          (call'[c].cmd[p][u] = "OBSOLETE" => call[c].cmd[p][u] = "OBSOLETE")
    BY DEF Settles
  <2> QED
    BY <1>1, <2>1, CleanupTypes DEF CallInv, Undone, Settles
<1>5. ASSUME NEW p \in Offers
      PROVE  LegInv(c, p)'
  <2>1. LegInv(c, p)
    BY <1>1 DEF CallInv
  <2>2. \A u \in Cleanup : call'[c].cmd[p][u] = "CONFIRMED" => leg[c][p] \in {"none", "dead"}
    BY <2>1, CleanupTypes DEF Settles, LegInv
  <2>3. call'[c].cmd[p]["call.hangup"] = "CONFIRMED" => caller'[c] # "up"
    BY <2>1, CleanupTypes DEF Settles, LegInv, CallerMay
  <2>4. /\ marker'[c][p] = "none" => leg[c][p] = "none"
        /\ marker'[c][p] = "settled" => leg[c][p] \in Started
        /\ marker'[c][p] # "none" => call[c].outcome[p] # "NONE"
    BY <2>1 DEF Settles, LegInv, Started
  <2> QED
    BY <2>1, <2>2, <2>3, <2>4 DEF LegInv, Settles, NoNewJob, Started
<1>6. CallInv(c)'
  BY <1>2, <1>3, <1>4, <1>5 DEF CallInv
<1>7. \A a \in Agents : Phone(c, a)' => Phone(c, a)
  BY DEF Settles, Phone, Serving, InPlay
<1> QED
  BY <1>6, <1>7, LocalKeeps DEF Elsewhere

\* The parts of SwitchTypes, for steps that write one entry.
LEMMA CallerWrite ==
    ASSUME SwitchTypes, NEW c \in Calls, NEW s \in {"none", "up", "dead"},
           caller' = [caller EXCEPT ![c] = s]
    PROVE  /\ caller' \in [Calls -> {"none", "up", "dead"}]
           /\ caller'[c] = s /\ \A d \in Calls \ {c} : caller'[d] = caller[d]
BY DEF SwitchTypes

LEMMA LegWrite ==
    ASSUME SwitchTypes, NEW c \in Calls, NEW o \in Offers,
           NEW s \in {"none", "queued", "ringing", "answered", "hanging", "dead"},
           leg' = [leg EXCEPT ![c][o] = s]
    PROVE  /\ leg' \in [Calls -> [Offers -> {"none", "queued", "ringing", "answered", "hanging", "dead"}]]
           /\ leg'[c] = [leg[c] EXCEPT ![o] = s] /\ \A d \in Calls \ {c} : leg'[d] = leg[d]
           /\ leg'[c][o] = s /\ \A p \in Offers \ {o} : leg'[c][p] = leg[c][p]
BY DEF SwitchTypes

LEMMA MarkerWrite ==
    ASSUME SwitchTypes, NEW c \in Calls, NEW o \in Offers,
           NEW s \in {"none", "set", "linked", "settled"},
           marker' = [marker EXCEPT ![c][o] = s]
    PROVE  /\ marker' \in [Calls -> [Offers -> {"none", "set", "linked", "settled"}]]
           /\ \A d \in Calls \ {c} : marker'[d] = marker[d]
           /\ marker'[c][o] = s /\ \A p \in Offers \ {o} : marker'[c][p] = marker[c][p]
BY DEF SwitchTypes

LEMMA PcWrite ==
    ASSUME SwitchTypes, NEW c \in Calls, NEW s \in Steps, pc' = [pc EXCEPT ![c] = s]
    PROVE  /\ pc' \in [Calls -> Steps] /\ pc'[c] = s
           /\ \A d \in Calls \ {c} : pc'[d] = pc[d]
BY DEF SwitchTypes

LEMMA EventsWrite ==
    ASSUME SwitchTypes, NEW c \in Calls, NEW new,
           \A e \in new : \E type \in EventTypes \cup {"job"}, o \in Offers : e = <<type, c, o>>,
           events' = events \cup new
    PROVE  /\ events' \in SUBSET ((EventTypes \cup {"job"}) \X Calls \X Offers)
           /\ \A d \in Calls \ {c}, o \in Offers : <<"job", d, o>> \in events' => <<"job", d, o>> \in events
<1>1. \A e \in new : e \in (EventTypes \cup {"job"}) \X Calls \X Offers
  OBVIOUS
<1>2. \A d \in Calls \ {c}, o \in Offers : <<"job", d, o>> \notin new
  OBVIOUS
<1> QED
  BY <1>1, <1>2 DEF SwitchTypes

LEMMA FinishKeeps ==
    ASSUME SysInv, NEW c \in Calls, NEW o \in Offers, NEW t \in CmdTypes, NEW ok \in BOOLEAN,
           Finish(c, o, t, ok), UNCHANGED <<leg, bridged, events>>, faults' \in 0 .. MaxFaults,
           UNCHANGED caller \/ (CallerUp(c) /\ caller' = [caller EXCEPT ![c] = "dead"]),
           \/ UNCHANGED marker
           \/ /\ call[c].outcome[o] # "NONE" /\ leg[c][o] = "dead"
              /\ marker' = [marker EXCEPT ![c][o] = "settled"],
           ok /\ t \in Cleanup => leg[c][o] \in {"none", "dead"},
           ok /\ t = "call.hangup" => caller'[c] # "up"
    PROVE  Kept
<1>1. SwitchTypes /\ OneCommand(c) /\ CustodyInv
  BY DEF SysInv, CallInv
<1>2. /\ call \in [Calls -> CallRow] /\ call[c] \in CallRow
      /\ executing \in [Calls -> SUBSET (Offers \X CmdTypes)]
  BY <1>1, RowFacts
<1>3. /\ <<o, t>> \in executing[c]
      /\ executing' = [executing EXCEPT ![c] = @ \ {<<o, t>>}]
      /\ call' = [call EXCEPT ![c].cmd[o][t] = IF ok /\ @ = "PENDING" THEN "CONFIRMED" ELSE @]
      /\ pc' = [pc EXCEPT ![c] = "idle"]
  BY DEF Finish, EndExecute
<1>4. pc' \in [Calls -> Steps] /\ pc'[c] = "idle" /\ \A d \in Calls \ {c} : pc'[d] = pc[d]
  <2>1. "idle" \in Steps
    BY DEF Steps
  <2> QED
    BY <1>1, <1>3, <2>1, PcWrite
<1>5. executing'[c] = {} /\ \A d \in Calls \ {c} : executing'[d] = executing[d]
  BY <1>1, <1>2, <1>3 DEF OneCommand
<1>6. /\ call'[c].state = call[c].state /\ call'[c].agentId = call[c].agentId
      /\ call'[c].currentOffer = call[c].currentOffer /\ call'[c].outcome = call[c].outcome
      /\ \A p \in Offers, u \in CmdTypes : call'[c].cmd[p][u] =
            IF p = o /\ u = t /\ ok /\ call[c].cmd[p][u] = "PENDING" THEN "CONFIRMED"
            ELSE call[c].cmd[p][u]
      /\ \A d \in Calls \ {c} : call'[d] = call[d]
  BY <1>2, <1>3 DEF CallRow
<1>7. /\ caller' \in [Calls -> {"none", "up", "dead"}] /\ CallerMay(c)
      /\ \A d \in Calls \ {c} : caller'[d] = caller[d]
  BY <1>1, CallerWrite DEF SwitchTypes, CallerMay, CallerUp
<1>8. /\ marker' \in [Calls -> [Offers -> {"none", "set", "linked", "settled"}]]
      /\ \A d \in Calls \ {c} : marker'[d] = marker[d]
      /\ \A p \in Offers :
           \/ marker'[c][p] = marker[c][p]
           \/ call[c].outcome[p] # "NONE" /\ marker'[c][p] = "settled" /\ leg[c][p] = "dead"
  BY <1>1, MarkerWrite DEF SwitchTypes
<1>9. Elsewhere(c)
  BY <1>1, <1>4, <1>5, <1>6, <1>7, <1>8 DEF Elsewhere, SwitchTypes, Untouched
<1>10. Settles(c, o, t, ok)
  BY <1>4, <1>5, <1>6, <1>7, <1>8 DEF Settles, NoNewJob
<1> QED
  BY <1>9, <1>10, SettlesKeeps

----------------------------------------------------------------------------
(* The steps one by one *)

LEMMA CallerEndsKeeps ==
    ASSUME SysInv, NEW c \in Calls, CallerEnds(c)
    PROVE  Kept
<1>1. SwitchTypes /\ \A o \in Offers : PortInv(c, o)
  BY DEF SysInv, CallInv
<1>2. /\ UNCHANGED <<call, executing, leg, bridged, marker, pc, faults>>
      /\ caller' = [caller EXCEPT ![c] = "dead"] /\ caller[c] = "up"
      /\ events' = events \cup {<<"hangup", c, NoAgent>>}
  BY DEF CallerEnds, vars, CallerUp
<1>3. /\ events' \in SUBSET ((EventTypes \cup {"job"}) \X Calls \X Offers)
      /\ \A d \in Calls, o \in Offers : <<"job", d, o>> \in events' => <<"job", d, o>> \in events
  <2>1. "hangup" \in EventTypes \cup {"job"} /\ NoAgent \in Offers
    BY DEF EventTypes, Offers
  <2>2. events' \in SUBSET ((EventTypes \cup {"job"}) \X Calls \X Offers)
    BY <1>1, <1>2, <2>1 DEF SwitchTypes
  <2> QED
    BY <1>2, <2>2
<1>4. /\ caller' \in [Calls -> {"none", "up", "dead"}]
      /\ caller'[c] = "dead" /\ \A d \in Calls \ {c} : caller'[d] = caller[d]
  BY <1>1, <1>2, CallerWrite
<1>5. Elsewhere(c)
  BY <1>1, <1>2, <1>3, <1>4 DEF Elsewhere, SwitchTypes, Untouched
<1>6. Goes(c)
  BY <1>2, <1>3, <1>4 DEF Goes, CallerMay, NoNewJob
<1>7. \A o \in Offers : PortInv(c, o)'
  BY <1>1, <1>2 DEF PortInv
<1> QED
  BY <1>5, <1>6, <1>7, GoesKeeps

LEMMA LegKeeps ==
    ASSUME SysInv, NEW c \in Calls, NEW a \in Agents,
           LegRings(c, a) \/ LegAnswers(c, a) \/ LegEnds(c, a)
    PROVE  Kept
<1>1. SwitchTypes /\ a \in Offers
  BY DEF SysInv, Offers
<1>2. UNCHANGED <<call, executing, caller, bridged, marker, pc, faults>>
  BY DEF LegRings, LegAnswers, LegEnds, vars
<1>3. PICK s \in {"ringing", "answered", "dead"},
           new \in SUBSET {<<"answered", c, a>>, <<"job", c, a>>, <<"hangup", c, a>>} :
        /\ leg' = [leg EXCEPT ![c][a] = s] /\ events' = events \cup new
        /\ (InPlay(c, a) /\ s \in Started) \/ (leg[c][a] = "queued" /\ s = "ringing" /\ new = {})
  <2>1. CASE LegRings(c, a)
    <3>1. /\ leg' = [leg EXCEPT ![c][a] = "ringing"] /\ events' = events \cup {}
          /\ leg[c][a] = "queued"
      BY <2>1 DEF LegRings
    <3> QED
      BY <3>1
  <2>2. CASE LegAnswers(c, a)
    <3> DEFINE new == {<<"answered", c, a>>, <<"job", c, a>>}
    <3>1. /\ leg' = [leg EXCEPT ![c][a] = "answered"] /\ events' = events \cup new
          /\ InPlay(c, a) /\ "answered" \in Started
      BY <2>2 DEF LegAnswers, InPlay, Started
    <3> QED
      BY <3>1
  <2>3. CASE LegEnds(c, a)
    <3> DEFINE new == JobDone(c, a) \cup (IF LegUp(c, a) THEN {<<"hangup", c, a>>} ELSE {})
    <3>1. /\ leg' = [leg EXCEPT ![c][a] = "dead"] /\ events' = events \cup new
          /\ InPlay(c, a) /\ "dead" \in Started
      BY <2>3 DEF LegEnds, LegUp, InPlay, Started
    <3>2. new \subseteq {<<"job", c, a>>, <<"hangup", c, a>>}
      BY DEF JobDone
    <3> QED
      BY <3>1, <3>2
  <2> QED
    BY <2>1, <2>2, <2>3
<1>4. /\ leg' \in [Calls -> [Offers -> {"none", "queued", "ringing", "answered", "hanging", "dead"}]]
      /\ leg'[c] = [leg[c] EXCEPT ![a] = s] /\ \A d \in Calls \ {c} : leg'[d] = leg[d]
  BY <1>1, <1>3, LegWrite
<1>5. /\ events' \in SUBSET ((EventTypes \cup {"job"}) \X Calls \X Offers)
      /\ \A d \in Calls \ {c}, o \in Offers : <<"job", d, o>> \in events' => <<"job", d, o>> \in events
  <2>1. {"answered", "hangup"} \subseteq EventTypes
    BY DEF EventTypes
  <2>2. \A e \in new : \E type \in EventTypes \cup {"job"}, o \in Offers : e = <<type, c, o>>
    BY <1>1, <1>3, <2>1
  <2> QED
    BY <1>1, <1>3, <2>2, EventsWrite
<1>6. \A o \in Offers : <<"job", c, o>> \in events' =>
        <<"job", c, o>> \in events \/ (o = a /\ s \in Started)
  BY <1>3 DEF Started
<1>7. Elsewhere(c)
  BY <1>1, <1>2, <1>4, <1>5 DEF Elsewhere, SwitchTypes, Untouched
<1>8. LegMoves(c, a, s)
  BY <1>2, <1>3, <1>4, <1>6 DEF LegMoves, CallerMay
<1> QED
  BY <1>1, <1>7, <1>8, LegMovesKeeps

LEMMA BackgroundJobKeeps ==
    ASSUME SysInv, NEW c \in Calls, NEW a \in Agents, BackgroundJob(c, a)
    PROVE  Kept
<1>1. SwitchTypes /\ a \in Offers /\ LegInv(c, a)
  BY DEF SysInv, Offers, CallInv
<1>2. /\ UNCHANGED <<call, executing, caller, leg, bridged, pc, faults>>
      /\ <<"job", c, a>> \in events /\ executing[c] = {}
      /\ events' \subseteq events
      /\ \/ UNCHANGED marker
         \/ marker[c][a] = "linked" /\ marker' = [marker EXCEPT ![c][a] = "settled"]
  BY DEF BackgroundJob, vars
<1>3. leg[c][a] \in Started /\ (marker[c][a] = "linked" => call[c].outcome[a] # "NONE")
  BY <1>1, <1>2 DEF LegInv, Started
<1>4. /\ marker' \in [Calls -> [Offers -> {"none", "set", "linked", "settled"}]]
      /\ \A d \in Calls \ {c} : marker'[d] = marker[d]
      /\ \A o \in Offers :
           \/ marker'[c][o] = marker[c][o]
           \/ call[c].outcome[o] # "NONE" /\ marker'[c][o] = "settled" /\ leg[c][o] \in Started
  <2>1. CASE UNCHANGED marker
    BY <1>1, <2>1 DEF SwitchTypes
  <2>2. CASE marker[c][a] = "linked" /\ marker' = [marker EXCEPT ![c][a] = "settled"]
    <3>1. /\ marker' \in [Calls -> [Offers -> {"none", "set", "linked", "settled"}]]
          /\ \A d \in Calls \ {c} : marker'[d] = marker[d]
          /\ marker'[c][a] = "settled" /\ \A p \in Offers \ {a} : marker'[c][p] = marker[c][p]
      BY <1>1, <2>2, MarkerWrite
    <3> QED
      BY <1>3, <2>2, <3>1
  <2> QED
    BY <1>2, <2>1, <2>2
<1>5. Elsewhere(c)
  BY <1>1, <1>2, <1>4 DEF Elsewhere, SwitchTypes, Untouched
<1>6. Goes(c)
  BY <1>2, <1>4 DEF Goes, CallerMay, NoNewJob
<1>7. \A o \in Offers : PortInv(c, o)'
  BY <1>2 DEF PortInv
<1> QED
  BY <1>5, <1>6, <1>7, GoesKeeps

\* A command at the port, alone of its call.
LEMMA RunningFacts ==
    ASSUME SysInv, NEW c \in Calls, NEW o \in Offers, NEW t \in CmdTypes, <<o, t>> \in executing[c]
    PROVE  /\ SwitchTypes /\ CallInv(c) /\ LegInv(c, o) /\ PortInv(c, o)
           /\ executing[c] = {<<o, t>>} /\ pc[c] # "idle"
           /\ \A p \in Offers, u \in CmdTypes : <<p, u>> \in executing[c] => p = o /\ u = t
<1>1. SwitchTypes /\ CallInv(c) /\ LegInv(c, o) /\ PortInv(c, o) /\ OneCommand(c)
  BY DEF SysInv, CallInv
<1> QED
  BY <1>1 DEF OneCommand

LEMMA GoToFacts ==
    ASSUME SwitchTypes, NEW c \in Calls, NEW s \in Steps, GoTo(c, s)
    PROVE  /\ UNCHANGED <<call, executing>> /\ pc' \in [Calls -> Steps] /\ pc'[c] = s
           /\ \A d \in Calls \ {c} : pc'[d] = pc[d]
BY PcWrite DEF GoTo, vars

LEMMA CreateCheckKeeps ==
    ASSUME SysInv, NEW c \in Calls, NEW a \in Agents, CreateCheck(c, a)
    PROVE  Kept
<1>1. a \in Offers /\ "offer.create" \in CmdTypes \ Cleanup /\ "offer.create" # "call.hangup"
  BY CleanupTypes DEF Offers, Cleanup
<1>2. /\ <<a, "offer.create">> \in executing[c] /\ pc[c] = "exec"
      /\ UNCHANGED <<caller, leg, bridged, events, faults>>
  BY DEF CreateCheck, Running
<1>3. SwitchTypes /\ LegInv(c, a) /\ PortInv(c, a)
  BY <1>1, <1>2, RunningFacts
<1>4. CASE Finish(c, a, "offer.create", CallerUp(c) /\ LegUp(c, a)) /\ UNCHANGED marker
  <2>1. (CallerUp(c) /\ LegUp(c, a)) \in BOOLEAN /\ faults' \in 0 .. MaxFaults
    BY <1>2, <1>3 DEF CallerUp, LegUp, SwitchTypes
  <2> QED
    BY <1>1, <1>2, <1>4, <2>1, FinishKeeps
<1>5. CASE /\ marker[c][a] = "none" /\ GoTo(c, "marked")
           /\ marker' = [marker EXCEPT ![c][a] = "set"]
  <2>1. /\ UNCHANGED <<call, executing>> /\ pc' \in [Calls -> Steps] /\ pc'[c] = "marked"
        /\ \A d \in Calls \ {c} : pc'[d] = pc[d]
    BY <1>3, <1>5, GoToFacts DEF Steps
  <2>2. /\ marker' \in [Calls -> [Offers -> {"none", "set", "linked", "settled"}]]
        /\ \A d \in Calls \ {c} : marker'[d] = marker[d]
        /\ marker'[c][a] = "set" /\ \A p \in Offers \ {a} : marker'[c][p] = marker[c][p]
    BY <1>1, <1>3, <1>5, MarkerWrite
  <2>3. Elsewhere(c)
    BY <1>2, <1>3, <2>1, <2>2 DEF Elsewhere, SwitchTypes, Untouched
  <2>4. call[c].outcome[a] # "NONE" /\ leg[c][a] = "none"
    BY <1>2, <1>3, <1>5 DEF PortInv, LegInv
  <2>5. Goes(c)
    BY <1>2, <2>1, <2>2, <2>4 DEF Goes, CallerMay, NoNewJob
  <2>6. ASSUME NEW o \in Offers
        PROVE  PortInv(c, o)'
    <3>1. \A t \in CmdTypes : <<o, t>> \in executing'[c] => o = a /\ t = "offer.create"
      BY <1>1, <1>2, <2>1, RunningFacts
    <3>2. \A t \in Cleanup : <<o, t>> \notin executing'[c] /\ <<o, "call.bridge">> \notin executing'[c]
      BY <1>1, <3>1, CleanupTypes
    <3> QED
      BY <1>2, <1>3, <2>1, <2>2, <2>4, <3>1, <3>2, CleanupTypes DEF PortInv
  <2> QED
    BY <2>3, <2>5, <2>6, GoesKeeps
<1> QED
  BY <1>4, <1>5 DEF CreateCheck

LEMMA CreateOriginateKeeps ==
    ASSUME SysInv, NEW c \in Calls, NEW a \in Agents, CreateOriginate(c, a)
    PROVE  Kept
<1>1. a \in Offers /\ "offer.create" \in CmdTypes \ Cleanup
  BY CleanupTypes DEF Offers
<1>2. /\ <<a, "offer.create">> \in executing[c] /\ pc[c] = "marked"
      /\ UNCHANGED <<caller, marker, bridged, events, faults>>
      /\ GoTo(c, "originated") /\ leg' = [leg EXCEPT ![c][a] = "queued"]
  BY DEF CreateOriginate, Running
<1>3. SwitchTypes /\ CallInv(c) /\ LegInv(c, a) /\ PortInv(c, a)
  BY <1>1, <1>2, RunningFacts
<1>4. /\ UNCHANGED <<call, executing>> /\ pc' \in [Calls -> Steps] /\ pc'[c] = "originated"
      /\ \A d \in Calls \ {c} : pc'[d] = pc[d]
  BY <1>2, <1>3, GoToFacts DEF Steps
<1>5. /\ leg' \in [Calls -> [Offers -> {"none", "queued", "ringing", "answered", "hanging", "dead"}]]
      /\ leg'[c][a] = "queued" /\ \A p \in Offers \ {a} : leg'[c][p] = leg[c][p]
      /\ \A d \in Calls \ {c} : leg'[d] = leg[d]
  BY <1>1, <1>2, <1>3, LegWrite
<1>6. SwitchTypes' /\ \A d \in Calls \ {c} : Untouched(d)
  BY <1>2, <1>3, <1>4, <1>5 DEF SwitchTypes, Untouched
<1>7. /\ marker[c][a] = "set" /\ leg[c][a] = "none" /\ call[c].outcome[a] # "NONE"
      /\ \A t \in Cleanup : call[c].cmd[a][t] # "CONFIRMED"
  BY <1>2, <1>3 DEF PortInv
<1>8. Undone(call[c])' /\ OneCommand(c)' /\ CallerInv(c)'
  BY <1>2, <1>3, <1>4 DEF CallInv, Undone, OneCommand, CallerInv
<1>9. ASSUME NEW o \in Offers
      PROVE  LegInv(c, o)'
  <2>1. LegInv(c, o)
    BY <1>3 DEF CallInv
  <2>2. CASE o = a
    BY <1>2, <1>4, <1>7, <2>1, <2>2, CleanupTypes DEF LegInv
  <2>3. CASE o # a
    BY <1>2, <1>4, <1>5, <2>1, <2>3 DEF LegInv
  <2> QED
    BY <2>2, <2>3
<1>10. ASSUME NEW o \in Offers
       PROVE  PortInv(c, o)'
  <2>1. \A t \in CmdTypes : <<o, t>> \in executing'[c] => o = a /\ t = "offer.create"
    BY <1>1, <1>2, <1>4, RunningFacts
  <2>2. \A t \in Cleanup : <<o, t>> \notin executing'[c] /\ <<o, "call.bridge">> \notin executing'[c]
    BY <1>1, <2>1, CleanupTypes
  <2> QED
    BY <1>4, <1>7, <2>1, <2>2, CleanupTypes DEF PortInv
<1>11. CallInv(c)'
  BY <1>8, <1>9, <1>10 DEF CallInv
<1>12. \A b \in Agents : Phone(c, b)' => Phone(c, b)
  <2>1. \A b \in Agents : b \in Offers
    BY DEF Offers
  <2> QED
    BY <1>2, <1>4, <1>5, <2>1 DEF Phone, Serving, InPlay
<1> QED
  BY <1>6, <1>11, <1>12, LocalKeeps

LEMMA CreateLinkKeeps ==
    ASSUME SysInv, NEW c \in Calls, NEW a \in Agents, CreateLink(c, a)
    PROVE  Kept
<1>1. a \in Offers /\ "offer.create" \in CmdTypes \ Cleanup
  BY CleanupTypes DEF Offers
<1>2. /\ <<a, "offer.create">> \in executing[c] /\ pc[c] = "originated"
      /\ UNCHANGED <<caller, leg, bridged, events, faults>>
      /\ GoTo(c, "linked") /\ marker' = [marker EXCEPT ![c][a] = "linked"]
  BY DEF CreateLink, Running
<1>3. SwitchTypes /\ PortInv(c, a)
  BY <1>1, <1>2, RunningFacts
<1>4. /\ UNCHANGED <<call, executing>> /\ pc' \in [Calls -> Steps] /\ pc'[c] = "linked"
      /\ \A d \in Calls \ {c} : pc'[d] = pc[d]
  BY <1>2, <1>3, GoToFacts DEF Steps
<1>5. /\ marker' \in [Calls -> [Offers -> {"none", "set", "linked", "settled"}]]
      /\ \A d \in Calls \ {c} : marker'[d] = marker[d]
      /\ marker'[c][a] = "linked" /\ \A p \in Offers \ {a} : marker'[c][p] = marker[c][p]
  BY <1>1, <1>2, <1>3, MarkerWrite
<1>6. Elsewhere(c)
  BY <1>2, <1>3, <1>4, <1>5 DEF Elsewhere, SwitchTypes, Untouched
<1>7. /\ call[c].outcome[a] # "NONE"
      /\ \A t \in Cleanup : call[c].cmd[a][t] # "CONFIRMED"
  BY <1>2, <1>3 DEF PortInv
<1>8. Goes(c)
  BY <1>2, <1>4, <1>5, <1>7 DEF Goes, CallerMay, NoNewJob
<1>9. ASSUME NEW o \in Offers
      PROVE  PortInv(c, o)'
  <2>1. \A t \in CmdTypes : <<o, t>> \in executing'[c] => o = a /\ t = "offer.create"
    BY <1>1, <1>2, <1>4, RunningFacts
  <2>2. \A t \in Cleanup : <<o, t>> \notin executing'[c] /\ <<o, "call.bridge">> \notin executing'[c]
    BY <1>1, <2>1, CleanupTypes
  <2> QED
    BY <1>4, <1>7, <2>1, <2>2, CleanupTypes DEF PortInv
<1> QED
  BY <1>6, <1>8, <1>9, GoesKeeps

LEMMA ConfirmKeeps ==
    ASSUME SysInv, NEW c \in Calls, NEW a \in Agents, CreateConfirm(c, a) \/ BridgeConfirm(c, a)
    PROVE  Kept
<1>1. /\ a \in Offers /\ "offer.create" \in CmdTypes \ Cleanup /\ "call.bridge" \in CmdTypes \ Cleanup
      /\ "call.hangup" \in Cleanup
  BY CleanupTypes DEF Offers
<1>2. UNCHANGED <<switch, events, faults>> /\ UNCHANGED <<caller, leg, bridged, marker>>
  BY DEF CreateConfirm, BridgeConfirm, switch
<1>3. PICK t \in CmdTypes \ Cleanup, ok \in BOOLEAN : Finish(c, a, t, ok)
  <2>1. LegUp(c, a) \in BOOLEAN /\ CallerUp(c) \in BOOLEAN
    BY DEF LegUp, CallerUp
  <2> QED
    BY <1>1, <2>1 DEF CreateConfirm, BridgeConfirm
<1>4. t \in CmdTypes /\ t # "call.hangup" /\ t \notin Cleanup
  BY <1>1
<1>5. faults' \in 0 .. MaxFaults
  BY <1>2 DEF SysInv, SwitchTypes
<1> QED
  BY <1>1, <1>2, <1>3, <1>4, <1>5, FinishKeeps

LEMMA BridgeLegsKeeps ==
    ASSUME SysInv, NEW c \in Calls, NEW a \in Agents, BridgeLegs(c, a)
    PROVE  Kept
<1>1. a \in Offers /\ "call.bridge" \in CmdTypes \ Cleanup /\ "call.bridge" # "call.hangup"
  BY CleanupTypes DEF Offers, Cleanup
<1>2. /\ <<a, "call.bridge">> \in executing[c] /\ pc[c] = "exec"
      /\ UNCHANGED <<caller, leg, marker, faults>>
  BY DEF BridgeLegs, Running
<1>3. SwitchTypes /\ PortInv(c, a)
  BY <1>1, <1>2, RunningFacts
<1>4. CASE /\ Finish(c, a, "call.bridge", CallerUp(c) /\ LegUp(c, a))
           /\ UNCHANGED <<bridged, events>>
  <2>1. (CallerUp(c) /\ LegUp(c, a)) \in BOOLEAN /\ faults' \in 0 .. MaxFaults
    BY <1>2, <1>3 DEF CallerUp, LegUp, SwitchTypes
  <2> QED
    BY <1>1, <1>2, <1>4, <2>1, FinishKeeps
<1>5. CASE /\ bridged' = [bridged EXCEPT ![c] = a]
           /\ events' = events \cup {<<"bridge", c, a>>, <<"answered", c, a>>}
           /\ GoTo(c, "bridged")
  <2>1. /\ UNCHANGED <<call, executing>> /\ pc' \in [Calls -> Steps] /\ pc'[c] = "bridged"
        /\ \A d \in Calls \ {c} : pc'[d] = pc[d]
    BY <1>3, <1>5, GoToFacts DEF Steps
  <2>2. /\ bridged' \in [Calls -> Offers] /\ bridged'[c] = a
        /\ \A d \in Calls \ {c} : bridged'[d] = bridged[d]
    BY <1>1, <1>3, <1>5 DEF SwitchTypes
  <2>3. /\ events' \in SUBSET ((EventTypes \cup {"job"}) \X Calls \X Offers)
        /\ \A d \in Calls, o \in Offers : <<"job", d, o>> \in events' => <<"job", d, o>> \in events
    <3>1. "bridge" \in EventTypes \cup {"job"} /\ "answered" \in EventTypes \cup {"job"}
      BY DEF EventTypes
    <3>2. events' \in SUBSET ((EventTypes \cup {"job"}) \X Calls \X Offers)
      BY <1>1, <1>3, <1>5, <3>1 DEF SwitchTypes
    <3> QED
      BY <1>5, <3>2
  <2>4. Elsewhere(c)
    BY <1>2, <1>3, <2>1, <2>2, <2>3 DEF Elsewhere, SwitchTypes, Untouched
  <2>5. call[c].outcome[a] \in Talked
    BY <1>2, <1>3 DEF PortInv
  <2>6. Goes(c)
    BY <1>2, <2>1, <2>2, <2>3, <2>5 DEF Goes, CallerMay, NoNewJob
  <2>7. ASSUME NEW o \in Offers
        PROVE  PortInv(c, o)'
    <3>1. \A t \in CmdTypes : <<o, t>> \in executing'[c] => o = a /\ t = "call.bridge"
      BY <1>1, <1>2, <2>1, RunningFacts
    <3>2. \A t \in Cleanup : <<o, t>> \notin executing'[c] /\ <<o, "offer.create">> \notin executing'[c]
      BY <1>1, <3>1, CleanupTypes
    <3> QED
      BY <2>1, <2>5, <3>1, <3>2, CleanupTypes DEF PortInv
  <2> QED
    BY <2>4, <2>6, <2>7, GoesKeeps
<1> QED
  BY <1>4, <1>5 DEF BridgeLegs

LEMMA CleanupProbeKeeps ==
    ASSUME SysInv, NEW c \in Calls, NEW o \in Offers, NEW t \in Cleanup, CleanupProbe(c, o, t)
    PROVE  Kept
<1>1. t \in CmdTypes /\ t # "offer.create" /\ t # "call.bridge"
  BY CleanupTypes
<1>2. /\ <<o, t>> \in executing[c] /\ pc[c] = "exec"
      /\ UNCHANGED <<caller, leg, bridged, marker, events, faults>>
  BY DEF CleanupProbe, Running, switch
<1>3. SwitchTypes /\ \A p \in Offers, u \in CmdTypes : <<p, u>> \in executing[c] => p = o /\ u = t
  BY <1>1, <1>2, RunningFacts
<1>4. PICK s \in {"seen", "unseen"} : GoTo(c, s) /\ (s = "seen" => LegUp(c, o))
  BY DEF CleanupProbe
<1>5. /\ UNCHANGED <<call, executing>> /\ pc' \in [Calls -> Steps] /\ pc'[c] = s
      /\ \A d \in Calls \ {c} : pc'[d] = pc[d]
  BY <1>3, <1>4, GoToFacts DEF Steps
<1>6. Elsewhere(c)
  BY <1>2, <1>3, <1>5 DEF Elsewhere, SwitchTypes, Untouched
<1>7. Goes(c)
  BY <1>2, <1>5 DEF Goes, CallerMay, NoNewJob
<1>8. ASSUME NEW p \in Offers
      PROVE  PortInv(c, p)'
  <2>1. \A u \in CmdTypes : <<p, u>> \in executing'[c] => p = o /\ u = t
    BY <1>3, <1>5
  <2>2. <<p, "offer.create">> \notin executing'[c] /\ <<p, "call.bridge">> \notin executing'[c]
    BY <1>1, <2>1, CleanupTypes
  <2>3. pc'[c] = "seen" => leg'[c][o] \notin {"none", "queued"}
    BY <1>2, <1>4, <1>5 DEF LegUp
  <2>4. pc'[c] \notin {"killed", "absent"}
    BY <1>5
  <2> QED
    BY <2>1, <2>2, <2>3, <2>4, CleanupTypes DEF PortInv
<1> QED
  BY <1>6, <1>7, <1>8, GoesKeeps

\* uuid_kill of the caller, which only call.hangup sends.
LEMMA KillCaller ==
    ASSUME SwitchTypes, NEW c \in Calls, NEW t,
           caller' = IF t = "call.hangup" /\ CallerUp(c)
                     THEN [caller EXCEPT ![c] = "dead"] ELSE caller
    PROVE  /\ UNCHANGED caller \/ (CallerUp(c) /\ caller' = [caller EXCEPT ![c] = "dead"])
           /\ caller' \in [Calls -> {"none", "up", "dead"}] /\ CallerMay(c)
           /\ \A d \in Calls \ {c} : caller'[d] = caller[d]
<1>1. UNCHANGED caller \/ (CallerUp(c) /\ caller' = [caller EXCEPT ![c] = "dead"])
  OBVIOUS
<1> QED
  BY <1>1, CallerWrite DEF SwitchTypes, CallerMay, CallerUp

LEMMA CleanupKillKeeps ==
    ASSUME SysInv, NEW c \in Calls, NEW o \in Offers, NEW t \in Cleanup, CleanupKill(c, o, t)
    PROVE  Kept
<1>1. t \in CmdTypes /\ t # "offer.create" /\ t # "call.bridge"
  BY CleanupTypes
<1>2. /\ <<o, t>> \in executing[c] /\ pc[c] \in {"seen", "unseen"}
      /\ UNCHANGED <<bridged, marker, faults>>
  BY DEF CleanupKill, Running
<1>3. /\ SwitchTypes /\ PortInv(c, o)
      /\ \A p \in Offers, u \in CmdTypes : <<p, u>> \in executing[c] => p = o /\ u = t
  BY <1>1, <1>2, RunningFacts
<1>4. /\ UNCHANGED caller \/ (CallerUp(c) /\ caller' = [caller EXCEPT ![c] = "dead"])
      /\ caller' \in [Calls -> {"none", "up", "dead"}] /\ CallerMay(c)
      /\ \A d \in Calls \ {c} : caller'[d] = caller[d]
  BY <1>3, KillCaller DEF CleanupKill
<1>5. CASE pc[c] = "unseen" /\ OutcomeUnknown(c, o)
  <2>1. Finish(c, o, t, FALSE) /\ UNCHANGED <<leg, events>> /\ faults' \in 0 .. MaxFaults
    BY <1>2, <1>3, <1>5 DEF CleanupKill, SwitchTypes
  <2> QED
    BY <1>1, <1>2, <1>4, <2>1, FinishKeeps
<1>6. ASSUME NEW s \in {"killed", "absent"}, GoTo(c, s),
             s = "killed" => pc[c] = "seen", s = "absent" => marker[c][o] \in {"none", "settled"}
      PROVE  Kept
  <2>1. /\ UNCHANGED <<call, executing>> /\ pc' \in [Calls -> Steps] /\ pc'[c] = s
        /\ \A d \in Calls \ {c} : pc'[d] = pc[d]
    BY <1>3, <1>6, GoToFacts DEF Steps
  <2>2. CASE pc[c] = "seen" /\ LegUp(c, o)
    <3>1. leg' = [leg EXCEPT ![c][o] = "hanging"] /\ events' = events \cup JobDone(c, o)
      BY <2>2 DEF CleanupKill
    <3>2. GoTo(c, "killed")
      BY <2>2 DEF CleanupKill
    <3>3. pc'[c] = "killed"
      BY <1>3, <3>2, GoToFacts DEF Steps
    <3>4. JobDone(c, o) \subseteq {<<"job", c, o>>}
      BY DEF JobDone
    <3>5. /\ leg' \in [Calls -> [Offers -> {"none", "queued", "ringing", "answered", "hanging", "dead"}]]
          /\ leg'[c] = [leg[c] EXCEPT ![o] = "hanging"] /\ \A d \in Calls \ {c} : leg'[d] = leg[d]
      BY <1>3, <3>1, LegWrite
    <3>6. /\ events' \in SUBSET ((EventTypes \cup {"job"}) \X Calls \X Offers)
          /\ \A d \in Calls \ {c}, p \in Offers : <<"job", d, p>> \in events' => <<"job", d, p>> \in events
      <4>1. \A e \in JobDone(c, o) : \E type \in EventTypes \cup {"job"}, p \in Offers : e = <<type, c, p>>
        BY <3>4
      <4> QED
        BY <1>3, <3>1, <4>1, EventsWrite
    <3>7. \A p \in Offers : <<"job", c, p>> \in events' => <<"job", c, p>> \in events \/ p = o
      BY <3>1, <3>4
    <3>8. Elsewhere(c)
      BY <1>2, <1>3, <1>4, <2>1, <3>5, <3>6 DEF Elsewhere, SwitchTypes, Untouched
    <3>9. InPlay(c, o) /\ "hanging" \in Started
      BY <2>2 DEF LegUp, InPlay, Started
    <3>10. LegMoves(c, o, "hanging")
      BY <1>2, <1>4, <2>1, <2>2, <3>3, <3>5, <3>7, <3>9 DEF LegMoves
    <3> QED
      BY <3>8, <3>10, LegMovesKeeps
  <2>3. CASE ~(pc[c] = "seen" /\ LegUp(c, o))
    <3>1. UNCHANGED <<leg, events>>
      BY <2>3 DEF CleanupKill
    <3>2. Elsewhere(c)
      BY <1>2, <1>3, <1>4, <2>1, <3>1 DEF Elsewhere, SwitchTypes, Untouched
    <3>3. Goes(c)
      BY <1>2, <1>4, <2>1, <3>1 DEF Goes, NoNewJob
    <3>4. ASSUME NEW p \in Offers
          PROVE  PortInv(c, p)'
      <4>1. \A u \in CmdTypes : <<p, u>> \in executing'[c] => p = o /\ u = t
        BY <1>3, <2>1
      <4>2. <<p, "offer.create">> \notin executing'[c] /\ <<p, "call.bridge">> \notin executing'[c]
        BY <1>1, <4>1, CleanupTypes
      <4>3. s = "killed" => leg'[c][o] \notin {"none", "queued"}
        BY <1>2, <1>3, <1>6, <3>1 DEF PortInv
      <4> QED
        BY <1>2, <1>6, <2>1, <4>1, <4>2, <4>3, CleanupTypes DEF PortInv
    <3> QED
      BY <3>2, <3>3, <3>4, GoesKeeps
  <2> QED
    BY <2>2, <2>3
<1>7. CASE pc[c] = "seen"
  <2>1. GoTo(c, "killed")
    BY <1>7 DEF CleanupKill
  <2> QED
    BY <1>6, <1>7, <2>1
<1>8. CASE pc[c] = "unseen" /\ ~OutcomeUnknown(c, o)
  <2>1. GoTo(c, "absent")
    BY <1>8 DEF CleanupKill
  <2>2. marker[c][o] \in {"none", "settled"}
    BY <1>3, <1>8 DEF SwitchTypes, OutcomeUnknown
  <2> QED
    BY <1>6, <2>1, <2>2
<1> QED
  BY <1>2, <1>5, <1>7, <1>8

LEMMA CleanupConfirmKeeps ==
    ASSUME SysInv, NEW c \in Calls, NEW o \in Offers, NEW t \in Cleanup, CleanupConfirm(c, o, t)
    PROVE  Kept
<1>1. t \in CmdTypes /\ (t = "call.hangup" => t # "offer.cancel")
  BY CleanupTypes
<1>2. /\ <<o, t>> \in executing[c] /\ pc[c] \in {"killed", "absent"}
      /\ UNCHANGED <<caller, leg, bridged, events, faults>>
      /\ marker' = IF pc[c] = "killed" /\ ~LegUp(c, o)
                   THEN [marker EXCEPT ![c][o] = "settled"] ELSE marker
  BY DEF CleanupConfirm, Running
<1>3. SwitchTypes /\ LegInv(c, o) /\ PortInv(c, o)
  BY <1>1, <1>2, RunningFacts
<1> DEFINE ok == ~LegUp(c, o) /\ (t = "offer.cancel" \/ ~CallerUp(c))
<1>4. Finish(c, o, t, ok) /\ ok \in BOOLEAN
  BY DEF CleanupConfirm, LegUp, CallerUp
<1>5. leg[c][o] \in {"none", "queued", "ringing", "answered", "hanging", "dead"}
  BY <1>3 DEF SwitchTypes
<1>6. ~LegUp(c, o) /\ pc[c] = "killed" => leg[c][o] = "dead" /\ call[c].outcome[o] # "NONE"
  BY <1>2, <1>3, <1>5 DEF LegUp, PortInv, LegInv
<1>7. ~LegUp(c, o) /\ pc[c] = "absent" => leg[c][o] \in {"none", "dead"}
  BY <1>2, <1>3, <1>5 DEF LegUp, PortInv, LegInv
<1>8. ok => leg[c][o] \in {"none", "dead"}
  BY <1>2, <1>6, <1>7
<1>9. ok /\ t = "call.hangup" => caller'[c] # "up"
  BY <1>1, <1>2 DEF CallerUp
<1>10. faults' \in 0 .. MaxFaults
  BY <1>2, <1>3 DEF SwitchTypes
<1>11. \/ UNCHANGED marker
       \/ /\ call[c].outcome[o] # "NONE" /\ leg[c][o] = "dead"
          /\ marker' = [marker EXCEPT ![c][o] = "settled"]
  BY <1>2, <1>6
<1> HIDE DEF ok
<1> QED
  BY <1>1, <1>2, <1>4, <1>8, <1>9, <1>10, <1>11, FinishKeeps

LEMMA PortFailsKeeps ==
    ASSUME SysInv, NEW c \in Calls, NEW o \in Offers, NEW t \in CmdTypes, PortFails(c, o, t)
    PROVE  Kept
<1>1. Finish(c, o, t, FALSE) /\ UNCHANGED <<caller, leg, bridged, marker, events>>
  BY DEF PortFails, switch
<1>2. faults' \in 0 .. MaxFaults
  BY BoundsAssumption DEF PortFails, SysInv, SwitchTypes
<1> QED
  BY <1>1, <1>2, FinishKeeps

\* A command goes to the port only while its row says so: offer.create for the
\* agent whom the call is assigned to, call.bridge for the one who answered.
LEMMA StartKeeps ==
    ASSUME SysInv, NEW c \in Calls, NEW o \in Offers, NEW t \in CmdTypes, Start(c, o, t)
    PROVE  Kept
<1>1. SwitchTypes /\ CustodyInv /\ CallInv(c)
  BY DEF SysInv
<1>2. /\ executing \in [Calls -> SUBSET (Offers \X CmdTypes)] /\ Tight(call[c])
      /\ RowCoherent(call[c]) /\ call[c] \in CallRow
  BY <1>1, RowFacts DEF RowInv
<1>3. /\ UNCHANGED <<call, caller, leg, bridged, marker, events, faults>>
      /\ executing[c] = {} /\ executing' = [executing EXCEPT ![c] = @ \cup {<<o, t>>}]
      /\ ~Obsolete(call[c], o, t) /\ pc' = [pc EXCEPT ![c] = "exec"]
  BY DEF Start, BeginExecute, Claim, switch
<1>4. /\ executing'[c] = {<<o, t>>} /\ \A d \in Calls \ {c} : executing'[d] = executing[d]
      /\ \A p \in Offers, u \in CmdTypes : <<p, u>> \in executing'[c] => p = o /\ u = t
  BY <1>2, <1>3
<1>5. pc' \in [Calls -> Steps] /\ pc'[c] = "exec" /\ \A d \in Calls \ {c} : pc'[d] = pc[d]
  <2>1. "exec" \in Steps
    BY DEF Steps
  <2> QED
    BY <1>1, <1>3, <2>1, PcWrite
<1>6. SwitchTypes' /\ \A d \in Calls \ {c} : Untouched(d)
  BY <1>1, <1>3, <1>4, <1>5 DEF SwitchTypes, Untouched
<1>7. t = "offer.create" => call[c].outcome[o] = "PENDING" /\ call[c].state = "ASSIGNED"
  BY <1>3 DEF Obsolete
<1>8. t = "call.bridge" => call[c].outcome[o] \in Talked
  BY <1>3 DEF Obsolete, Talked
<1>9. t = "offer.create" => Serving(call, o, c) /\ o \in Agents
  BY <1>2, <1>7 DEF RowCoherent, Serving, Live, Offers
<1>10. t = "offer.create" => \A u \in Cleanup : call[c].cmd[o][u] # "CONFIRMED"
  <2> SUFFICES ASSUME t = "offer.create"
               PROVE  /\ call[c].cmd[o]["offer.cancel"] # "CONFIRMED"
                      /\ call[c].cmd[o]["call.hangup"] # "CONFIRMED"
    BY CleanupTypes
  <2>1. call[c].cmd[o]["offer.cancel"] = "NONE"
    BY <1>2, <1>7, <1>9 DEF Tight
  <2>2. call[c].cmd[o]["call.hangup"] = "NONE"
    BY <1>1, <1>7 DEF CallInv, Undone, Finished
  <2> QED
    BY <2>1, <2>2
<1>11. ASSUME NEW p \in Offers
       PROVE  PortInv(c, p)'
  BY <1>3, <1>4, <1>5, <1>7, <1>8, <1>10, CleanupTypes DEF PortInv
<1>12. OneCommand(c)'
  BY <1>4, <1>5 DEF OneCommand
<1>13. /\ Undone(call[c])' /\ CallerInv(c)'
       /\ \A p \in Offers : LegInv(c, p)'
  BY <1>1, <1>3 DEF CallInv, Undone, CallerInv, LegInv
<1>14. CallInv(c)'
  BY <1>11, <1>12, <1>13 DEF CallInv
<1>15. \A a \in Agents : Phone(c, a)' => Phone(c, a)
  <2>1. \A a \in Agents : <<a, "offer.create">> \in executing'[c] => Serving(call, a, c)
    BY <1>4, <1>9, CleanupTypes DEF Offers
  <2> QED
    BY <1>3, <2>1 DEF Phone, Serving, InPlay
<1> QED
  BY <1>6, <1>14, <1>15, LocalKeeps

LEMMA PortStepKeeps ==
    ASSUME SysInv, NEW c \in Calls, PortStep(c)
    PROVE  Kept
<1>1. ASSUME NEW a \in Agents, CreateStep(c, a) \/ BridgeStep(c, a)
      PROVE  Kept
  BY <1>1, CreateCheckKeeps, CreateOriginateKeeps, CreateLinkKeeps, ConfirmKeeps, BridgeLegsKeeps
     DEF CreateStep, BridgeStep
<1>2. ASSUME NEW o \in Offers, NEW t \in Cleanup, CleanupStep(c, o, t)
      PROVE  Kept
  BY <1>2, CleanupProbeKeeps, CleanupKillKeeps, CleanupConfirmKeeps DEF CleanupStep
<1> QED
  BY <1>1, <1>2 DEF PortStep

LEMMA SystemKeeps ==
    ASSUME SysInv, [SysNext]_sysVars
    PROVE  SysInv'
<1>1. CustodyInv'
  BY SystemStep, CustodyPreserved DEF SysInv
<1> SUFFICES Kept
  BY <1>1 DEF Kept, SysInv
<1>2. CASE UNCHANGED sysVars
  BY <1>2, NothingKeeps DEF sysVars, vars
<1>3. CASE Pass
  BY <1>3, NothingKeeps DEF Pass, PassTime
<1>4. CASE Restart
  BY <1>4, RestartKeeps
<1>5. ASSUME NEW c \in Calls,
             \/ CallerArrives(c) \/ CallerEnds(c) \/ DueTick(c) \/ Reconcile(c) \/ PortStep(c)
             \/ SubmitWrapup(c) /\ UNCHANGED port
      PROVE  Kept
  BY <1>5, RoutingKeeps, CallerEndsKeeps, PortStepKeeps
<1>6. ASSUME NEW c \in Calls, NEW a \in Agents,
             \/ LegRings(c, a) \/ LegAnswers(c, a) \/ LegEnds(c, a)
             \/ BackgroundJob(c, a)
      PROVE  Kept
  BY <1>6, LegKeeps, BackgroundJobKeeps
<1>7. ASSUME NEW c \in Calls, NEW o \in Offers, NEW t \in CmdTypes,
             Start(c, o, t) \/ Drop(c, o, t) \/ PortFails(c, o, t)
      PROVE  Kept
  BY <1>7, StartKeeps, DropKeeps, PortFailsKeeps
<1>8. ASSUME NEW type \in EventTypes, NEW c \in Calls, NEW o \in Offers, Deliver(type, c, o)
      PROVE  Kept
  BY <1>8, DeliverKeeps
<1>9. ASSUME NEW a \in Agents, SelfAvailable(a), UNCHANGED port
      PROVE  Kept
  BY <1>9, NothingKeeps DEF SelfAvailable
<1>10. ASSUME NEW a \in Agents, NEW s \in {"OFFLINE", "AVAILABLE"},
              (Stage(a, s) \/ Land(a, s)) /\ UNCHANGED port
       PROVE  Kept
  BY <1>10, NothingKeeps DEF Stage, Land
<1> QED
  BY <1>2, <1>3, <1>4, <1>5, <1>6, <1>7, <1>8, <1>9, <1>10 DEF SysNext

LEMMA SystemStarts ==
    ASSUME SysInit
    PROVE  SysInv
<1>1. CustodyInv
  BY CustodyAtStart DEF SysInit
<1>2. SwitchTypes
  BY BoundsAssumption DEF SysInit, SwitchTypes, Steps, Offers
<1>3. \A c \in Calls : /\ call[c] = NewCall /\ executing[c] = {} /\ pc[c] = "idle"
                       /\ caller[c] = "none" /\ bridged[c] = NoAgent
                       /\ \A o \in Offers : leg[c][o] = "none" /\ marker[c][o] = "none"
  BY DEF SysInit, Init
<1>4. /\ NewCall.state = "NONE" /\ NewCall.currentOffer = NoAgent
      /\ \A o \in Offers : /\ NewCall.outcome[o] = "NONE"
                           /\ \A t \in CmdTypes : NewCall.cmd[o][t] = "NONE"
  BY DEF NewCall
<1>5. ASSUME NEW c \in Calls
      PROVE  CallInv(c)
  <2>1. Undone(call[c]) /\ OneCommand(c) /\ CallerInv(c)
    BY <1>3, <1>4, CleanupTypes DEF Undone, OneCommand, CallerInv, Finished
  <2>2. ASSUME NEW o \in Offers
        PROVE  LegInv(c, o) /\ PortInv(c, o)
    <3>1. events = {}
      BY DEF SysInit
    <3> QED
      BY <1>3, <1>4, <3>1, CleanupTypes DEF LegInv, PortInv
  <2> QED
    BY <2>1, <2>2 DEF CallInv
<1>6. PhonesApart
  <2>1. \A a \in Agents : a \in Offers
    BY DEF Offers
  <2>2. \A c \in Calls, a \in Agents : ~Phone(c, a)
    BY <1>3, <1>4, <2>1 DEF Phone, Serving, Live, InPlay
  <2> QED
    BY <2>2 DEF PhonesApart
<1> QED
  BY <1>1, <1>2, <1>5, <1>6 DEF SysInv

----------------------------------------------------------------------------
(* Theorems *)

\* In every reachable state of the system, whatever was lost, late or
\* restarted: the rows, the port and the switch agree as SysInv says.  In
\* particular an agent's phone is spoken for (assigned, in play, or about to be
\* rung by an offer.create that advance() has overtaken) by one call at most,
\* and what a withdrawn offer or a finished call left behind has a command.
THEOREM SystemInvariance == SysSpec => []SysInv
<1>1. SysInit => SysInv
  BY SystemStarts
<1>2. SysInv /\ [SysNext]_sysVars => SysInv'
  BY SystemKeeps
<1> QED
  BY <1>1, <1>2, PTL DEF SysSpec

\* Every step keeps the types, and the dispatcher's lock per call lets one
\* command of a call be at the port: the adapter is at work exactly while a
\* command is.
THEOREM SystemTypes == SysSpec => []SysTypeOK
<1>1. ASSUME SysInv
      PROVE  SysTypeOK
  <2>1. SwitchTypes /\ \A c \in Calls : OneCommand(c)
    BY <1>1 DEF SysInv, CallInv
  <2>2. ASSUME NEW c \in Calls
        PROVE  Cardinality(executing[c]) <= 1 /\ (pc[c] = "idle" <=> executing[c] = {})
    <3>1. (pc[c] = "idle" <=> executing[c] = {}) /\ \A p, q \in executing[c] : p = q
      BY <2>1 DEF OneCommand
    <3>2. CASE executing[c] = {}
      BY <3>1, <3>2, FS_EmptySet
    <3>3. ASSUME NEW p \in executing[c]
          PROVE  Cardinality(executing[c]) <= 1
      <4>1. executing[c] = {p}
        BY <3>1
      <4>2. Cardinality({p}) = 1
        BY FS_Singleton
      <4> QED
        BY <4>1, <4>2
    <3> QED
      BY <3>1, <3>2, <3>3
  <2> QED
    BY <2>1, <2>2 DEF SwitchTypes, SysTypeOK
<1> QED
  BY <1>1, SystemInvariance, PTL

\* No agent's phone is ever rung for, queued for or held by two calls at once:
\* the eligibility query of advance(), which sees only rows, and the order of
\* marker, originate and cleanup in the adapter are together enough, although
\* an offer.create may still be at the port after its offer has timed out.
THEOREM PhoneExclusive == SysSpec => []OnePhone
<1>1. ASSUME SysInv
      PROVE  OnePhone
  <2>1. PhonesApart
    BY <1>1 DEF SysInv
  <2> QED
    BY <2>1 DEF PhonesApart, Phone, OnePhone
<1> QED
  BY <1>1, SystemInvariance, PTL

\* What dispatch() writes as CONFIRMED is so and stays so: after a confirmed
\* offer.cancel or call.hangup the leg is gone, and neither the originate the
\* adapter sent before nor one it sends later brings it back.
THEOREM CleanupTruth == SysSpec => []CleanupTruthful
<1>1. ASSUME SysInv
      PROVE  CleanupTruthful
  <2>1. \A c \in Calls, a \in Agents : LegInv(c, a)
    BY <1>1 DEF SysInv, CallInv, Offers
  <2> SUFFICES ASSUME NEW c \in Calls, NEW a \in Agents, NEW t \in Cleanup,
                      call[c].cmd[a][t] = "CONFIRMED"
               PROVE  ~InPlay(c, a)
    BY DEF CleanupTruthful
  <2> QED
    BY <2>1 DEF LegInv, InPlay
<1> QED
  BY <1>1, SystemInvariance, PTL

\* The adapter bridges the caller only to the agent who answered the call's
\* current offer, however many events and commands of earlier offers, and
\* however stale a call.bridge, are still on their way.
THEOREM BridgeTruth == SysSpec => []BridgedToAnswerer
<1>1. ASSUME SysInv
      PROVE  BridgedToAnswerer
  <2> SUFFICES ASSUME NEW c \in Calls, bridged[c] # NoAgent
               PROVE  /\ bridged[c] = call[c].currentOffer
                      /\ call[c].outcome[bridged[c]] \in {"ANSWERED", "ENDED"}
    BY DEF BridgedToAnswerer
  <2>1. bridged[c] \in Offers /\ call[c].outcome[bridged[c]] \in Talked
    BY <1>1 DEF SysInv, SwitchTypes, CallInv, CallerInv
  <2>2. RowCoherent(call[c])
    BY <1>1, RowFacts DEF SysInv, RowInv
  <2> QED
    BY <2>1, <2>2 DEF RowCoherent, Talked
<1> QED
  BY <1>1, SystemInvariance, PTL

\* Once a call is finished and none of its commands waits, the switch holds
\* nothing of it: terminal() and hangup() wrote a cleanup for every leg an
\* offer ever started and for the caller, and none was dropped as obsolete.
THEOREM NothingLeft == SysSpec => []NothingLeftBehind
<1>1. ASSUME SysInv
      PROVE  NothingLeftBehind
  <2> SUFFICES ASSUME NEW c \in Calls, call[c].state \in Finished,
                      \A o \in Offers, t \in CmdTypes : call[c].cmd[o][t] # "PENDING"
               PROVE  ~CallerUp(c) /\ \A a \in Agents : ~InPlay(c, a)
    BY DEF NothingLeftBehind, Finished
  <2>1. CustodyInv /\ CallInv(c)
    BY <1>1 DEF SysInv
  <2>2. call[c] \in CallRow /\ RowCoherent(call[c]) /\ call[c].currentOffer \in Offers
    BY <2>1, RowFacts DEF RowInv
  <2>3. Undone(call[c]) /\ \A o \in Offers : LegInv(c, o)
    BY <2>1 DEF CallInv
  <2>4. \A o \in Offers, t \in Cleanup : call[c].cmd[o][t] \in {"NONE", "CONFIRMED"}
    BY <2>2, <2>3, CleanupTypes DEF CallRow, Statuses, Undone
  <2>5. call[c].cmd[call[c].currentOffer]["call.hangup"] = "CONFIRMED"
    BY <2>2, <2>3, <2>4, CleanupTypes DEF Undone
  <2>6. caller[c] # "up" /\ leg[c][call[c].currentOffer] \in {"none", "dead"}
    BY <2>2, <2>3, <2>5, CleanupTypes DEF LegInv
  <2>7. ASSUME NEW a \in Agents, a # call[c].currentOffer
        PROVE  leg[c][a] \in {"none", "dead"}
    <3>1. a \in Offers /\ call[c].outcome[a] \in Outcomes
      BY <2>2 DEF Offers, CallRow
    <3>2. call[c].outcome[a] \in {"NONE", "TIMED_OUT", "CANCELLED"}
      BY <2>2, <2>7, <3>1 DEF RowCoherent, Outcomes
    <3>3. CASE call[c].outcome[a] = "NONE"
      BY <2>3, <3>1, <3>3 DEF LegInv
    <3>4. CASE call[c].outcome[a] \in {"TIMED_OUT", "CANCELLED"}
      <4>1. call[c].cmd[a]["offer.cancel"] = "CONFIRMED"
        BY <2>3, <2>4, <3>1, <3>4, CleanupTypes DEF Undone
      <4> QED
        BY <2>3, <3>1, <4>1, CleanupTypes DEF LegInv
    <3> QED
      BY <3>2, <3>3, <3>4
  <2> QED
    BY <2>6, <2>7 DEF CallerUp, InPlay
<1> QED
  BY <1>1, SystemInvariance, PTL

\* What the runtime promises holds with the real port and switch in place of
\* an arbitrary one: coherent rows, agents held by one call at most and never
\* stranded, answers in time, history written once, and custody of calls.
THEOREM SystemInherits ==
    SysSpec => /\ [](OfferCoherent /\ AgentExclusive /\ AnsweredInTime /\ NoStrandedReservation)
               /\ HistoryFinal /\ CustodySpec
BY SystemImplementsRuntime, Coherent, Exclusive, InTimeAlways, NoneStranded, Final,
   ImplementsCustody, PTL

\* dispatch() retries offer.create until it is confirmed or obsolete, yet the
\* adapter sends one originate per offer in all: the marker it writes before the
\* originate outlives lost answers and restarts and stops every later attempt.
THEOREM OriginatedOnce == SysSpec => RungOnce
<1>1. ASSUME SysInv, NEW c \in Calls, NEW a \in Agents, CreateOriginate(c, a)
      PROVE  leg[c][a] = "none"
  <2>1. PortInv(c, a)
    BY <1>1 DEF SysInv, CallInv, Offers
  <2> QED
    BY <1>1, <2>1 DEF CreateOriginate, Running, PortInv
<1>2. SysInv /\ [SysNext]_sysVars
      => [\A c \in Calls, a \in Agents : CreateOriginate(c, a) => leg[c][a] = "none"]_sysVars
  BY <1>1
<1> QED
  BY <1>2, SystemInvariance, PTL DEF SysSpec, RungOnce

=============================================================================
