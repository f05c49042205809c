--------------------- MODULE ManagedVoiceCustodyProofs ---------------------
(* Two more theorems about ManagedVoiceRuntime: no agent stays reserved with *)
(* nothing to release them, and the runtime implements CallCustody.          *)
EXTENDS ManagedVoiceRuntimeProofs

----------------------------------------------------------------------------
(* One call's rows, seen by an agent and by CallCustody *)

Holder(row, a)  == row.agentId = a /\ row.state \in Live
Unclean(row, a) == \E t \in Cleanup : row.cmd[a][t] = "PENDING"

Own(row)    == IF row.state \in Live THEN row.agentId ELSE NoAgent
Missed(row) == {a \in Agents : row.outcome[a] = "TIMED_OUT"}

\* No offer is cancelled or bridged before its time: as long as an offer rings
\* its cancel is still to be written, so that taking the call away writes it.
\* A call that has not arrived has no commands at all.
Tight(row) ==
    \A a \in Agents :
        /\ row.state = "NONE" => \A t \in CmdTypes : row.cmd[a][t] = "NONE"
        /\ row.outcome[a] \in {"NONE", "PENDING"} =>
             row.cmd[a]["offer.cancel"] = "NONE" /\ row.cmd[a]["call.bridge"] = "NONE"

\* The same inside a transaction that has just written a late answer's cancel.
Loose(row) ==
    \A a \in Agents :
        /\ row.state = "NONE" => \A t \in CmdTypes : row.cmd[a][t] = "NONE"
        /\ row.outcome[a] = "NONE" => row.cmd[a]["offer.cancel"] = "NONE"
        /\ row.outcome[a] = "PENDING" => row.cmd[a]["offer.cancel"] \in {"NONE", "PENDING"}
        /\ row.outcome[a] \in {"NONE", "PENDING"} => row.cmd[a]["call.bridge"] = "NONE"

\* Whoever held the call or waits for its cleanup still does one of the two.
Covers(row, r) ==
    \A a \in Agents : Holder(row, a) \/ Unclean(row, a) => Holder(r, a) \/ Unclean(r, a)

\* A change that custody does not see.
SameCustody(row, r) ==
    r.state = row.state /\ r.agentId = row.agentId /\ r.outcome = row.outcome

LEMMA TightLoose ==
    ASSUME NEW row, Tight(row)
    PROVE  Loose(row)
BY DEF Tight, Loose

\* Outside of ASSIGNED no offer rings.
LEMMA LooseTight ==
    ASSUME NEW row \in CallRow, RowInv(row), Loose(row), row.state # "ASSIGNED"
    PROVE  Tight(row)
<1>1. \A a \in Agents : row.outcome[a] # "PENDING"
  BY DEF RowInv, RowCoherent, OfferPending, Offers
<1> QED
  BY <1>1 DEF Loose, Tight

LEMMA CoversTransitive ==
    ASSUME NEW x, NEW y, NEW z, Covers(x, y), Covers(y, z)
    PROVE  Covers(x, z)
BY DEF Covers

LEMMA LateAnswerCustody ==
    ASSUME NEW row \in CallRow, NEW o \in Agents, Tight(row), row.outcome[o] # "NONE",
           row.state # "NONE", NEW r, r = LateAnswer(row, o)
    PROVE  /\ SameCustody(row, r) /\ Covers(row, r) /\ Loose(r)
           /\ row.outcome[o] # "PENDING" => Tight(r)
<1>1. o \in Offers /\ Agents \subseteq Offers
      /\ Cleanup \subseteq CmdTypes /\ "offer.cancel" \in Cleanup /\ "call.bridge" \in CmdTypes
      /\ "call.bridge" \notin Cleanup
  BY DEF Offers, Cleanup, CmdTypes
<1>2. /\ r.state = row.state /\ r.agentId = row.agentId /\ r.outcome = row.outcome
      /\ \A p \in Offers, u \in CmdTypes :
           r.cmd[p][u] = IF /\ p = o /\ u = "offer.cancel"
                            /\ row.cmd[p][u] \in {"NONE", "CONFIRMED"}
                         THEN "PENDING" ELSE row.cmd[p][u]
  BY <1>1, LateAnswerFields
<1>3. \A a \in Agents : Unclean(row, a) => Unclean(r, a)
  BY <1>1, <1>2 DEF Unclean
<1> QED
  BY <1>1, <1>2, <1>3 DEF SameCustody, Covers, Holder, Tight, Loose

LEMMA TimeOutCustody ==
    ASSUME NEW row \in CallRow, RowInv(row), Loose(row), OfferPending(row), NEW r, r = TimeOut(row)
    PROVE  /\ Tight(r) /\ Covers(row, r)
           /\ Own(row) = row.currentOffer /\ row.currentOffer \in Agents
           /\ r.outcome[row.currentOffer] = "TIMED_OUT"
           /\ Own(r) = NoAgent /\ Missed(r) = Missed(row) \cup {Own(row)}
<1>1. /\ r.state = "QUEUED" /\ r.agentId = NoAgent
      /\ r.outcome = [row.outcome EXCEPT ![row.currentOffer] = "TIMED_OUT"]
      /\ \A p \in Offers, u \in CmdTypes :
           r.cmd[p][u] = IF /\ p = row.currentOffer /\ u = "offer.cancel"
                            /\ row.cmd[p][u] = "NONE"
                         THEN "PENDING" ELSE row.cmd[p][u]
  BY TimeOutFields
<1>2. /\ row.state = "ASSIGNED" /\ row.currentOffer \in Agents
      /\ row.agentId = row.currentOffer
  BY DEF RowInv, RowCoherent, OfferPending, CallRow, Offers, Live
<1>3. /\ Agents \subseteq Offers /\ Cleanup \subseteq CmdTypes /\ "offer.cancel" \in Cleanup
      /\ "call.bridge" \in CmdTypes /\ "call.bridge" # "offer.cancel"
  BY DEF Offers, Cleanup, CmdTypes
<1>4. \A a \in Agents : r.outcome[a] = IF a = row.currentOffer THEN "TIMED_OUT" ELSE row.outcome[a]
  BY <1>1, <1>3 DEF CallRow
<1>5. Tight(r)
  <2>1. \A a \in Agents : a # row.currentOffer => row.outcome[a] # "PENDING"
    BY <1>3 DEF RowInv, RowCoherent
  <2> QED
    BY <1>1, <1>3, <1>4, <2>1 DEF Tight, Loose
<1>6. \A a \in Agents : Unclean(row, a) => Unclean(r, a)
  BY <1>1, <1>3 DEF Unclean
<1>7. Unclean(r, row.currentOffer)
  BY <1>1, <1>2, <1>3 DEF Unclean, Loose, OfferPending
<1>8. Covers(row, r)
  BY <1>2, <1>6, <1>7 DEF Covers, Holder
<1>9. Own(row) = row.currentOffer /\ Own(r) = NoAgent
  BY <1>1, <1>2 DEF Own, Live
<1> QED
  BY <1>2, <1>4, <1>5, <1>8, <1>9 DEF Missed

LEMMA TerminalCustody ==
    ASSUME NEW row \in CallRow, RowInv(row), Loose(row), row.state \in Preanswer,
           NEW reason \in Reasons, NEW r, r = Terminal(row, reason)
    PROVE  /\ Tight(r) /\ Covers(row, r)
           /\ r.state = "ABANDONED" /\ Own(r) = NoAgent /\ Missed(r) = Missed(row)
<1>1. /\ r \in CallRow /\ r.state = "ABANDONED"
      /\ r.outcome = [row.outcome EXCEPT ![row.currentOffer] = IF @ = "PENDING" THEN "CANCELLED" ELSE @]
      /\ \A p \in Offers, u \in CmdTypes :
           r.cmd[p][u] = IF /\ row.cmd[p][u] = "NONE"
                            /\ \/ u = "offer.cancel" /\ row.outcome[p] # "NONE"
                               \/ u = "call.hangup" /\ p = row.currentOffer
                         THEN "PENDING" ELSE row.cmd[p][u]
  BY TerminalFields
<1>2. RowInv(r)
  BY TerminalStep
<1>3. /\ Agents \subseteq Offers /\ Cleanup \subseteq CmdTypes /\ "offer.cancel" \in Cleanup
      /\ "call.bridge" \in CmdTypes /\ "call.bridge" \notin Cleanup
      /\ "call.hangup" # "offer.cancel" /\ "call.hangup" # "call.bridge"
  BY DEF Offers, Cleanup, CmdTypes
<1>4. \A a \in Agents : r.outcome[a] = IF a = row.currentOffer /\ row.outcome[a] = "PENDING"
                                      THEN "CANCELLED" ELSE row.outcome[a]
  BY <1>1, <1>3 DEF CallRow
<1>5. Loose(r)
  <2> SUFFICES ASSUME NEW a \in Agents, r.outcome[a] \in {"NONE", "PENDING"}
               PROVE  r.cmd[a]["offer.cancel"] = "NONE" /\ r.cmd[a]["call.bridge"] = "NONE"
    BY <1>1 DEF Loose
  <2>1. r.outcome[a] # "PENDING"
    BY <1>1, <1>2, <1>3 DEF RowInv, RowCoherent, OfferPending
  <2>2. row.outcome[a] = "NONE"
    BY <1>4, <2>1
  <2> QED
    BY <1>1, <1>3, <2>2 DEF Loose, Cleanup
<1>6. Tight(r)
  BY <1>1, <1>2, <1>5, LooseTight
<1>7. \A a \in Agents : Unclean(row, a) => Unclean(r, a)
  BY <1>1, <1>3 DEF Unclean
<1>8. \A a \in Agents : Holder(row, a) => Unclean(r, a)
  <2> SUFFICES ASSUME NEW a \in Agents, Holder(row, a)
               PROVE  r.cmd[a]["offer.cancel"] = "PENDING"
    BY <1>3 DEF Unclean
  <2>1. row.outcome[a] = "PENDING"
    BY DEF RowInv, RowCoherent, OfferPending, Holder, Preanswer, Live
  <2> QED
    BY <1>1, <1>3, <2>1 DEF Loose
<1>9. Covers(row, r)
  BY <1>7, <1>8 DEF Covers
<1> QED
  BY <1>1, <1>4, <1>6, <1>9 DEF Own, Missed, Live

LEMMA AssignCustody ==
    ASSUME NEW row \in CallRow, RowInv(row), Tight(row), row.state = "QUEUED",
           NEW a \in Agents, row.outcome[a] \notin {"TIMED_OUT", "CANCELLED"},
           NEW now \in Nat, NEW r, r = Assign(row, a, now)
    PROVE  /\ Tight(r) /\ Covers(row, r)
           /\ r.state = "ASSIGNED" /\ Own(r) = a /\ Missed(r) = Missed(row)
<1>1. /\ r.state = "ASSIGNED" /\ r.agentId = a
      /\ r.outcome = [row.outcome EXCEPT ![a] = "PENDING"]
      /\ \A p \in Offers, u \in CmdTypes :
                u # "offer.create" => r.cmd[p][u] = row.cmd[p][u]
  BY AssignFields
<1>2. /\ Agents \subseteq Offers /\ Cleanup \subseteq CmdTypes \ {"offer.create"}
      /\ "offer.cancel" \in Cleanup /\ "call.bridge" \in CmdTypes \ {"offer.create"}
  BY DEF Offers, Cleanup, CmdTypes
<1>3. \A p \in Agents : r.outcome[p] = IF p = a THEN "PENDING" ELSE row.outcome[p]
  BY <1>1, <1>2 DEF CallRow
<1>4. row.outcome[a] = "NONE"
  <2>1. row.outcome[a] \notin {"PENDING", "ANSWERED", "ENDED"}
    BY <1>2 DEF RowInv, RowCoherent, OfferPending
  <2> QED
    BY <1>2, <2>1 DEF CallRow, Outcomes
<1>5. Tight(r)
  BY <1>1, <1>2, <1>3, <1>4 DEF Tight
<1>6. Covers(row, r)
  BY <1>1, <1>2 DEF Covers, Holder, Unclean, Live
<1> QED
  BY <1>1, <1>3, <1>4, <1>5, <1>6 DEF Own, Missed, Live

LEMMA AnsweredCustody ==
    ASSUME NEW row \in CallRow, RowInv(row), Tight(row), row.state = "ASSIGNED",
           NEW now \in Nat, NEW r, r = Answered(row, row.currentOffer, now)
    PROVE  /\ Tight(r) /\ Covers(row, r)
           /\ r.state = "ACTIVE" /\ Own(r) = Own(row) /\ Missed(r) = Missed(row)
           /\ row.currentOffer \in Agents
<1> DEFINE o == row.currentOffer
<1>1. o \in Offers /\ row.outcome[o] = "PENDING" /\ o \in Agents
  BY DEF CallRow, RowInv, RowCoherent, OfferPending, Offers
<1>2. /\ r.state = "ACTIVE" /\ r.agentId = row.agentId
      /\ r.outcome = [row.outcome EXCEPT ![o] = "ANSWERED"]
      /\ \A p \in Offers, u \in CmdTypes :
                u # "call.bridge" \/ p # o => r.cmd[p][u] = row.cmd[p][u]
  BY <1>1, AnsweredFields
<1> HIDE DEF o
<1>3. /\ Agents \subseteq Offers /\ Cleanup \subseteq CmdTypes \ {"call.bridge"}
      /\ "offer.cancel" \in Cleanup /\ "call.bridge" \in CmdTypes
  BY DEF Offers, Cleanup, CmdTypes
<1>4. \A p \in Agents : r.outcome[p] = IF p = o THEN "ANSWERED" ELSE row.outcome[p]
  BY <1>2, <1>3 DEF CallRow
<1>5. Tight(r)
  BY <1>2, <1>3, <1>4 DEF Tight
<1>6. Covers(row, r)
  BY <1>2, <1>3 DEF Covers, Holder, Unclean, Live
<1>7. Own(r) = Own(row) /\ Missed(r) = Missed(row)
  BY <1>1, <1>2, <1>4 DEF Own, Missed, Live
<1> QED
  BY <1>1, <1>2, <1>5, <1>6, <1>7 DEF o

LEMMA EndedCustody ==
    ASSUME NEW row \in CallRow, RowInv(row), Tight(row), row.state = "ACTIVE",
           NEW r, r = Ended(row)
    PROVE  /\ Tight(r) /\ Covers(row, r)
           /\ r.state = "WRAPUP" /\ Own(r) = Own(row) /\ Missed(r) = Missed(row)
<1>1. /\ r.state = "WRAPUP" /\ r.agentId = row.agentId
      /\ r.outcome = [row.outcome EXCEPT ![row.currentOffer] = "ENDED"]
      /\ \A p \in Offers, u \in CmdTypes :
           r.cmd[p][u] = IF /\ p = row.currentOffer /\ u = "call.hangup"
                            /\ row.cmd[p][u] = "NONE"
                         THEN "PENDING" ELSE row.cmd[p][u]
  BY EndedFields
<1>2. row.outcome[row.currentOffer] = "ANSWERED"
  BY DEF RowInv, RowCoherent
<1>3. /\ Agents \subseteq Offers /\ Cleanup \subseteq CmdTypes /\ "offer.cancel" \in Cleanup
      /\ "call.bridge" \in CmdTypes /\ "call.bridge" \notin Cleanup /\ "call.hangup" \in Cleanup
      /\ "call.hangup" # "offer.cancel"
  BY DEF Offers, Cleanup, CmdTypes
<1>4. \A p \in Agents : r.outcome[p] = IF p = row.currentOffer THEN "ENDED" ELSE row.outcome[p]
  BY <1>1, <1>3 DEF CallRow
<1>5. Tight(r)
  BY <1>1, <1>3, <1>4 DEF Tight
<1>6. Covers(row, r)
  BY <1>1, <1>3 DEF Covers, Holder, Unclean, Live
<1> QED
  BY <1>1, <1>2, <1>4, <1>5, <1>6 DEF Own, Missed, Live

----------------------------------------------------------------------------
(* What a step does to custody and to the agents' logs *)

\* The steps of CallCustody, in terms of the rows of call c before and after.
Waits(row, r) ==
    /\ row.state \in {"NONE", "QUEUED", "ASSIGNED"}
    /\ r.state = "QUEUED" /\ Own(r) = NoAgent
    /\ Missed(r) = Missed(row) \cup ({Own(row)} \ {NoAgent})

Offered(c, row, r) ==
    /\ row.state \in {"NONE", "QUEUED", "ASSIGNED"}
    /\ r.state = "ASSIGNED" /\ Own(r) \in Agents
    /\ \A d \in Calls : Own(call[d]) # Own(r)
    /\ Own(r) \notin Missed(row)
    /\ Missed(r) = Missed(row) \cup ({Own(row)} \ {NoAgent})

Abandons(row, r) ==
    /\ row.state \in {"NONE", "QUEUED", "ASSIGNED"}
    /\ r.state = "ABANDONED" /\ Own(r) = NoAgent
    /\ Missed(r) \in {Missed(row), Missed(row) \cup ({Own(row)} \ {NoAgent})}

GoesOn(row, r, from, to) ==
    /\ row.state = from /\ r.state = to
    /\ Own(r) = Own(row) /\ Missed(r) = Missed(row)

CustodyStep(c, r) ==
    \/ r.state = call[c].state /\ Own(r) = Own(call[c]) /\ Missed(r) = Missed(call[c])
    \/ Waits(call[c], r) \/ Offered(c, call[c], r) \/ Abandons(call[c], r)
    \/ GoesOn(call[c], r, "ASSIGNED", "ACTIVE")
    \/ GoesOn(call[c], r, "ACTIVE", "WRAPUP")
    \/ call[c].state = "WRAPUP" /\ r.state = "COMPLETED"
       /\ Own(r) = NoAgent /\ Missed(r) = Missed(call[c])

\* Nobody becomes RESERVED but the agent whom this step gives the call.
LogStep(c, r) ==
    \/ /\ Held(call[c], r)
       /\ \A a \in Agents : latest'[a].state = "RESERVED" => latest'[a] = latest[a]
    \/ \E a \in Agents :
         /\ Holder(r, a)
         /\ latest' = [latest EXCEPT ![a] = [state |-> "RESERVED", reason |-> c]]
         /\ \A d \in Calls \ {c} : ~Serving(call, a, d)

\* The new rows of call c, but for whom they leave reserved.
Moves(c, r) ==
    /\ r \in CallRow
    /\ call' = [call EXCEPT ![c] = r]
    /\ Tight(r) /\ CustodyStep(c, r)

\* A routing transaction on call c.
Routed(c) == \E r \in CallRow : Moves(c, r) /\ Covers(call[c], r) /\ LogStep(c, r)

\* Rows as a transaction on call c may have them before advance(): those of
\* the table, with a late answer's cancel, or those of a new call.
Base(c, row) ==
    /\ Covers(call[c], row) /\ Held(call[c], row)
    /\ Own(row) = Own(call[c]) /\ Missed(row) = Missed(call[c])
    /\ row.state = call[c].state \/ (call[c].state = "NONE" /\ row.state = "QUEUED")

LEMMA SameBase ==
    ASSUME NEW c \in Calls, NEW row, SameCustody(call[c], row), Covers(call[c], row)
    PROVE  Base(c, row)
BY DEF SameCustody, Base, Own, Missed, Held

\* advance() leaves a ringing offer alone, or withdraws it with a cancel.
LEMMA AdvanceCustody ==
    ASSUME NEW c \in Calls, NEW row \in CallRow, NEW now \in Nat, NEW later \in Nat,
           call \in [Calls -> CallRow], latest \in [Agents -> LogEntry],
           \A d \in Calls : RowInv(call[d]), RowInv(row), Loose(row), Base(c, row),
           row.state = "ASSIGNED" /\ now < row.deadline /\ Ringing(row, now) => Tight(row),
           Advance(c, row, now, later)
    PROVE  Routed(c)
<1> DEFINE q == Requeued(row)
           unlogged == \A a \in Agents : latest'[a].state = "RESERVED" => latest'[a] = latest[a]
<1>1. "PREANSWER_DEADLINE_EXCEEDED" \in Reasons
  BY DEF Reasons
<1>2. /\ Own(call[c]) = Own(row) /\ Missed(call[c]) = Missed(row) /\ Held(call[c], row)
      /\ Covers(call[c], row)
      /\ row.state \in Preanswer => call[c].state \in {"NONE", "QUEUED", "ASSIGNED"}
  BY DEF Base, Preanswer
<1>3. UNCHANGED latest => unlogged
  OBVIOUS
<1> HIDE DEF unlogged
<1>4. ASSUME row.state \in Preanswer
      PROVE  /\ q \in CallRow /\ RowInv(q) /\ Tight(q) /\ Covers(call[c], q)
             /\ q.state = "QUEUED" /\ Own(q) = NoAgent
             /\ Missed(q) = Missed(row) \cup ({Own(row)} \ {NoAgent})
             /\ Own(row) # NoAgent => q.outcome[Own(row)] = "TIMED_OUT"
  <2>1. CASE OfferPending(row)
    <3>1. q = TimeOut(row)
      BY <2>1 DEF Requeued
    <3> HIDE DEF q
    <3>2. q \in CallRow /\ RowInv(q) /\ q.state = "QUEUED"
      BY <2>1, <3>1, TimeOutStep
    <3>3. /\ Tight(q) /\ Covers(row, q) /\ Own(q) = NoAgent
          /\ Missed(q) = Missed(row) \cup {Own(row)} /\ Own(row) \in Agents
          /\ q.outcome[Own(row)] = "TIMED_OUT"
      BY <2>1, <3>1, TimeOutCustody
    <3>4. Covers(call[c], q)
      BY <1>2, <3>3, CoversTransitive
    <3> QED
      BY <3>2, <3>3, <3>4, ConstantsAssumption
  <2>2. CASE ~OfferPending(row)
    <3>1. q = row
      BY <2>2 DEF Requeued
    <3>2. row.state = "QUEUED"
      BY <1>4, <2>2 DEF RowInv, RowCoherent, Preanswer
    <3>3. Own(row) = NoAgent
      BY <3>2 DEF Own, Live
    <3> QED
      BY <1>2, <3>1, <3>2, <3>3, LooseTight
  <2> QED
    BY <2>1, <2>2
<1>5. CASE /\ \/ row.state \notin Preanswer
              \/ now < row.deadline /\ Ringing(row, now)
           /\ SetCall(c, row) /\ UNCHANGED latest
  <2>1. Tight(row)
    BY <1>5, LooseTight DEF Preanswer
  <2>2. CustodyStep(c, row)
    <3>1. CASE row.state = call[c].state
      BY <1>2, <3>1 DEF CustodyStep
    <3>2. CASE call[c].state = "NONE" /\ row.state = "QUEUED"
      <4>1. Own(row) = NoAgent
        BY <3>2 DEF Own, Live
      <4> QED
        BY <1>2, <3>2, <4>1 DEF CustodyStep, Waits
    <3> QED
      BY <3>1, <3>2 DEF Base
  <2> QED
    BY <1>2, <1>3, <1>5, <2>1, <2>2 DEF SetCall, Routed, Moves, LogStep, unlogged
<1>6. CASE /\ row.state \in Preanswer
           /\ SetCall(c, Terminal(row, "PREANSWER_DEADLINE_EXCEEDED")) /\ UNCHANGED latest
  <2> DEFINE r == Terminal(row, "PREANSWER_DEADLINE_EXCEEDED")
  <2>1. r \in CallRow /\ Held(row, r)
    BY <1>1, <1>6, TerminalStep
  <2>2. /\ Tight(r) /\ Covers(row, r)
        /\ r.state = "ABANDONED" /\ Own(r) = NoAgent /\ Missed(r) = Missed(row)
    BY <1>1, <1>6, TerminalCustody
  <2>3. call' = [call EXCEPT ![c] = r]
    BY <1>6 DEF SetCall
  <2> HIDE DEF r
  <2>4. Covers(call[c], r)
    BY <1>2, <2>2, CoversTransitive
  <2>5. Held(call[c], r) /\ CustodyStep(c, r)
    BY <1>2, <1>6, <2>2 DEF Held, Live, CustodyStep, Abandons
  <2> QED
    BY <1>3, <1>6, <2>1, <2>2, <2>3, <2>4, <2>5 DEF Routed, Moves, LogStep, unlogged
<1>7. CASE row.state \in Preanswer /\ SetCall(c, q) /\ UNCHANGED latest
  <2> HIDE DEF q
  <2>1. Held(call[c], q) /\ CustodyStep(c, q)
    BY <1>2, <1>4, <1>7 DEF Held, Live, CustodyStep, Waits
  <2> QED
    BY <1>3, <1>4, <1>7, <2>1 DEF SetCall, Routed, Moves, LogStep, unlogged
<1>8. CASE /\ row.state \in Preanswer
           /\ SetCall(c, Terminal(q, "PREANSWER_DEADLINE_EXCEEDED")) /\ UNCHANGED latest
  <2> DEFINE r == Terminal(q, "PREANSWER_DEADLINE_EXCEEDED")
  <2> HIDE DEF q
  <2>0. q.state \in Preanswer /\ Loose(q)
    BY <1>4, <1>8, TightLoose DEF Preanswer
  <2>1. r \in CallRow
    BY <1>1, <1>4, <1>8, <2>0, TerminalStep
  <2>2. /\ Tight(r) /\ Covers(q, r)
        /\ r.state = "ABANDONED" /\ Own(r) = NoAgent /\ Missed(r) = Missed(q)
    BY <1>1, <1>4, <1>8, <2>0, TerminalCustody
  <2>3. call' = [call EXCEPT ![c] = r]
    BY <1>8 DEF SetCall
  <2> HIDE DEF r
  <2>4. Covers(call[c], r)
    BY <1>4, <1>8, <2>2, CoversTransitive
  <2>5. Held(call[c], r) /\ CustodyStep(c, r)
    BY <1>2, <1>4, <1>8, <2>2 DEF Held, Live, CustodyStep, Abandons
  <2> QED
    BY <1>3, <1>8, <2>1, <2>2, <2>3, <2>4, <2>5 DEF Routed, Moves, LogStep, unlogged
<1>9. CASE /\ row.state \in Preanswer
           /\ \E a \in Agents : /\ Eligible(c, q, a)
                                /\ SetCall(c, Assign(q, a, later))
                                /\ WriteLog(a, "RESERVED", c)
  <2> HIDE DEF q
  <2>1. PICK a \in Agents : /\ Eligible(c, q, a)
                            /\ SetCall(c, Assign(q, a, later))
                            /\ WriteLog(a, "RESERVED", c)
    BY <1>9
  <2> DEFINE r == Assign(q, a, later)
  <2>2. q.outcome[a] \notin {"TIMED_OUT", "CANCELLED"}
    BY <2>1 DEF Eligible
  <2>3. r \in CallRow /\ r.agentId = a
    BY <1>4, <1>9, <2>2, AssignStep
  <2>4. /\ Tight(r) /\ Covers(q, r)
        /\ r.state = "ASSIGNED" /\ Own(r) = a /\ Missed(r) = Missed(q)
    BY <1>4, <1>9, <2>2, AssignCustody
  <2>5. call' = [call EXCEPT ![c] = r]
    BY <2>1 DEF SetCall
  <2> HIDE DEF r
  <2>6. \A d \in Calls \ {c} : ~Serving(call, a, d)
    BY <2>1 DEF Eligible, Serving
  <2>7. a # NoAgent /\ a # Own(row) /\ a \notin Missed(row)
    <3>1. a # NoAgent
      BY ConstantsAssumption
    <3>2. a # Own(row)
      BY <1>4, <1>9, <2>2, <3>1
    <3>3. a \notin Missed(q)
      BY <2>2 DEF Missed
    <3> QED
      BY <1>4, <1>9, <3>1, <3>2, <3>3
  <2>8. \A d \in Calls : Own(call[d]) # a
    BY <1>2, <2>6, <2>7 DEF Own, Serving
  <2>9. CustodyStep(c, r)
    BY <1>2, <1>4, <1>9, <2>4, <2>7, <2>8 DEF CustodyStep, Offered
  <2>10. LogStep(c, r)
    BY <2>1, <2>3, <2>4, <2>6 DEF LogStep, WriteLog, Holder, Live
  <2>11. Covers(call[c], r)
    BY <1>4, <1>9, <2>4, CoversTransitive
  <2> QED
    BY <2>3, <2>4, <2>5, <2>9, <2>10, <2>11 DEF Routed, Moves
<1> QED
  BY <1>5, <1>6, <1>7, <1>8, <1>9 DEF Advance

\* Whoever is RESERVED for one call serves no other.
ReservedServing ==
    \A a \in Agents, c, d \in Calls :
        latest[a] = [state |-> "RESERVED", reason |-> c] /\ Serving(call, a, d) => c = d

TightRows == \A c \in Calls : Tight(call[c])

\* The inductive invariant of NoStrandedReservation.
CustodyInv == Inv /\ TightRows /\ ReservedServing /\ NoStrandedReservation

\* A step that gives nobody a call and reserves nobody.
Quiet ==
    /\ UNCHANGED call
    /\ \A a \in Agents : latest'[a].state = "RESERVED" => latest'[a] = latest[a]

\* The dispatcher writes the status of one command, and frees an agent when a
\* cleanup command is confirmed.
Dispatched(c) ==
    \E o \in Offers, t \in CmdTypes, s \in Statuses :
        /\ call[c].cmd[o][t] = "PENDING" \/ s = call[c].cmd[o][t]
        /\ s # "NONE" \/ s = call[c].cmd[o][t]
        /\ Moves(c, [call[c] EXCEPT !.cmd[o][t] = s])
        /\ \A a \in Agents : latest'[a].state = "RESERVED" => latest'[a] = latest[a]
        /\ \A a \in Agents :
             o = a /\ t \in Cleanup /\ s # call[c].cmd[o][t] /\ (\A d \in Calls : ~Serving(call, a, d)) =>
                latest'[a] # [state |-> "RESERVED", reason |-> c]

\* Wrap-up done: the agent is free, whatever the log said.
Wrapped(c) ==
    /\ call[c].state = "WRAPUP"
    /\ Moves(c, [call[c] EXCEPT !.state = "COMPLETED"])
    /\ \A a \in Agents : latest'[a].state = "RESERVED" => latest'[a] = latest[a] /\ a # call[c].agentId

CustodyMove == Quiet \/ \E c \in Calls : Routed(c) \/ Dispatched(c) \/ Wrapped(c)

LEMMA InvFacts ==
    ASSUME CustodyInv
    PROVE  /\ clock \in Nat /\ call \in [Calls -> CallRow] /\ latest \in [Agents -> LogEntry]
           /\ \A c \in Calls : /\ call[c] \in CallRow /\ RowInv(call[c]) /\ Tight(call[c])
                               /\ Loose(call[c]) /\ Base(c, call[c])
BY TightLoose DEF CustodyInv, Inv, TypeOK, RowsInv, TightRows, Base, Covers, Held

LEMMA CreatedCustody ==
    ASSUME CustodyInv, NEW c \in Calls, Created(c)
    PROVE  Routed(c)
<1>1. PICK later \in clock .. clock + MaxLag :
        IF call[c].state = "NONE"
        THEN Advance(c, [NewCall EXCEPT !.state = "QUEUED",
                                        !.deadline = clock + PreanswerSec], clock, later)
        ELSE Advance(c, call[c], clock, later)
  BY DEF Created
<1>2. /\ later \in Nat /\ clock \in Nat /\ clock + PreanswerSec \in Nat
      /\ call \in [Calls -> CallRow] /\ latest \in [Agents -> LogEntry]
      /\ \A d \in Calls : RowInv(call[d])
      /\ call[c] \in CallRow /\ Tight(call[c]) /\ Loose(call[c]) /\ Base(c, call[c])
  BY InvFacts, ConstantsAssumption
<1>3. CASE call[c].state = "NONE"
  <2> DEFINE r == [NewCall EXCEPT !.state = "QUEUED", !.deadline = clock + PreanswerSec]
  <2>1. Advance(c, r, clock, later)
    BY <1>1, <1>3
  <2>2. r \in CallRow /\ RowInv(r) /\ Held(call[c], r)
    BY <1>2, <1>3, FreshStep
  <2>3. /\ r.state = "QUEUED" /\ r.outcome = [o \in Offers |-> "NONE"]
        /\ r.cmd = [o \in Offers |-> [t \in CmdTypes |-> "NONE"]]
    BY DEF NewCall
  <2> HIDE DEF r
  <2>4. Loose(r)
    BY <2>3 DEF Loose, Offers, CmdTypes
  <2>5. \A a \in Agents : call[c].outcome[a] = "NONE" /\ r.outcome[a] = "NONE"
    BY <1>2, <1>3, <2>3 DEF RowInv, RowHistory, Offers
  <2>6. Own(r) = Own(call[c]) /\ Missed(r) = Missed(call[c])
    BY <1>3, <2>3, <2>5 DEF Own, Missed, Live
  <2>7. call[c].state # "NONE" \/ \A a \in Agents : ~Unclean(call[c], a)
    BY <1>2 DEF Tight, Unclean, Cleanup, CmdTypes
  <2>8. Covers(call[c], r)
    BY <1>3, <2>7 DEF Covers, Holder, Live
  <2>9. Base(c, r)
    BY <1>3, <2>2, <2>3, <2>6, <2>8 DEF Base
  <2> QED
    BY <1>2, <2>1, <2>2, <2>3, <2>4, <2>9, AdvanceCustody
<1>4. CASE call[c].state # "NONE"
  BY <1>1, <1>2, <1>4, AdvanceCustody
<1> QED
  BY <1>3, <1>4

LEMMA TickCustody ==
    ASSUME CustodyInv, NEW c \in Calls, Tick(c)
    PROVE  Routed(c)
<1>1. PICK later \in clock .. clock + MaxLag : Advance(c, call[c], clock, later)
  BY DEF Tick
<1>2. later \in Nat
  BY InvFacts, ConstantsAssumption
<1> QED
  BY <1>1, <1>2, InvFacts, AdvanceCustody

LEMMA AnswerCustody ==
    ASSUME CustodyInv, NEW c \in Calls, NEW o \in Agents, NEW bridge \in BOOLEAN,
           bridge => call[c].cmd[o]["call.bridge"] # "NONE", Answer(c, o, bridge)
    PROVE  CustodyMove
<1> DEFINE row == call[c]
           l == LateAnswer(row, o)
           timely == /\ row.state = "ASSIGNED" /\ row.outcome[o] = "PENDING"
                     /\ clock < row.expiresAt[o] /\ clock < row.deadline
<1>1. PICK later \in clock .. clock + MaxLag :
        /\ row.outcome[o] # "NONE"
        /\ \/ /\ o # row.currentOffer \/ (bridge /\ row.state # "ACTIVE")
              /\ SetCall(c, l) /\ UNCHANGED latest
           \/ UNCHANGED <<call, latest>>
           \/ o = row.currentOffer /\ ~timely /\ Advance(c, l, clock, later)
           \/ /\ o = row.currentOffer /\ row.state = "ASSIGNED" /\ InTime(row, o, later)
              /\ SetCall(c, Answered(row, o, later)) /\ WriteLog(o, "BUSY", c)
           \/ Advance(c, row, later, later)
  BY DEF Answer
<1>2. /\ later \in Nat /\ clock \in Nat /\ o \in Offers
      /\ call \in [Calls -> CallRow] /\ latest \in [Agents -> LogEntry]
      /\ \A d \in Calls : RowInv(call[d])
  BY InvFacts, ConstantsAssumption DEF Offers
<1>3. /\ row \in CallRow /\ RowInv(row) /\ Tight(row) /\ Loose(row) /\ Base(c, row)
      /\ row.state # "NONE"
  BY <1>1, <1>2, InvFacts DEF RowInv, RowHistory
<1>4. /\ l \in CallRow /\ RowInv(l) /\ Held(row, l) /\ Same(l, row)
      /\ SameCustody(row, l) /\ Covers(row, l) /\ Loose(l)
      /\ row.outcome[o] # "PENDING" => Tight(l)
  <2> HIDE DEF row
  <2> QED
    BY <1>1, <1>2, <1>3, LateAnswerStep, LateAnswerFields, LateAnswerCustody
<1>5. Base(c, l)
  BY <1>4, SameBase
<1> HIDE DEF l
<1>6. CASE /\ o # row.currentOffer \/ (bridge /\ row.state # "ACTIVE")
           /\ SetCall(c, l) /\ UNCHANGED latest
  <2>1. row.outcome[o] # "PENDING"
    BY <1>2, <1>3, <1>6 DEF RowInv, RowCoherent, Tight
  <2>2. CustodyStep(c, l)
    BY <1>4 DEF SameCustody, CustodyStep, Own, Missed
  <2>3. LogStep(c, l)
    BY <1>4, <1>6 DEF LogStep
  <2> QED
    BY <1>4, <1>6, <2>1, <2>2, <2>3 DEF SetCall, Moves, Routed, CustodyMove
<1>7. CASE UNCHANGED <<call, latest>>
  BY <1>7 DEF Quiet, CustodyMove
<1>8. CASE o = row.currentOffer /\ ~timely /\ Advance(c, l, clock, later)
  <2>1. ~(l.state = "ASSIGNED" /\ clock < l.deadline /\ Ringing(l, clock))
    BY <1>4, <1>8 DEF Ringing, OfferPending, Same, SameCustody
  <2> QED
    BY <1>2, <1>4, <1>5, <1>8, <2>1, AdvanceCustody DEF CustodyMove
<1>9. CASE /\ o = row.currentOffer /\ row.state = "ASSIGNED" /\ InTime(row, o, later)
           /\ SetCall(c, Answered(row, o, later)) /\ WriteLog(o, "BUSY", c)
  <2> DEFINE r == Answered(row, row.currentOffer, later)
  <2>1. r \in CallRow /\ Held(row, r)
    <3>1. later < row.expiresAt[row.currentOffer]
      BY <1>9 DEF InTime
    <3> HIDE DEF row
    <3> QED
      BY <1>2, <1>3, <1>9, <3>1, AnsweredStep
  <2>2. /\ Tight(r) /\ Covers(row, r)
        /\ r.state = "ACTIVE" /\ Own(r) = Own(row) /\ Missed(r) = Missed(row)
    <3> HIDE DEF row
    <3> QED
      BY <1>2, <1>3, <1>9, AnsweredCustody
  <2>3. call' = [call EXCEPT ![c] = r]
    BY <1>9 DEF SetCall
  <2> HIDE DEF r
  <2>4. CustodyStep(c, r)
    BY <1>9, <2>2 DEF CustodyStep, GoesOn
  <2>5. LogStep(c, r)
    BY <1>2, <1>9, <2>1 DEF LogStep, WriteLog, LogEntry
  <2> QED
    BY <2>1, <2>2, <2>3, <2>4, <2>5 DEF Moves, Routed, CustodyMove
<1>10. CASE Advance(c, row, later, later)
  BY <1>2, <1>3, <1>10, AdvanceCustody DEF CustodyMove
<1> QED
  BY <1>1, <1>6, <1>7, <1>8, <1>9, <1>10

LEMMA EndCallCustody ==
    ASSUME CustodyInv, NEW c \in Calls, EndCall(c)
    PROVE  CustodyMove
<1>1. /\ call \in [Calls -> CallRow] /\ latest \in [Agents -> LogEntry]
      /\ call[c] \in CallRow /\ RowInv(call[c]) /\ Tight(call[c]) /\ Loose(call[c])
  BY InvFacts
<1>2. CASE /\ call[c].state \in Preanswer
           /\ SetCall(c, Terminal(call[c], "CALLER_CANCELLED")) /\ UNCHANGED latest
  <2> DEFINE r == Terminal(call[c], "CALLER_CANCELLED")
  <2>1. r \in CallRow /\ Held(call[c], r)
    BY <1>1, <1>2, TerminalStep DEF Reasons
  <2>2. /\ Tight(r) /\ Covers(call[c], r)
        /\ r.state = "ABANDONED" /\ Own(r) = NoAgent /\ Missed(r) = Missed(call[c])
    BY <1>1, <1>2, TerminalCustody DEF Reasons
  <2>3. call' = [call EXCEPT ![c] = r]
    BY <1>2 DEF SetCall
  <2> HIDE DEF r
  <2>4. CustodyStep(c, r)
    BY <1>2, <2>2 DEF CustodyStep, Abandons, Preanswer
  <2> QED
    BY <1>2, <2>1, <2>2, <2>3, <2>4 DEF Moves, Routed, LogStep, CustodyMove
<1>3. CASE /\ call[c].state = "ACTIVE" /\ call[c].currentOffer # NoAgent
           /\ SetCall(c, Ended(call[c])) /\ WriteLog(call[c].currentOffer, "ACW", c)
  <2> DEFINE r == Ended(call[c])
  <2>1. r \in CallRow /\ Held(call[c], r)
    BY <1>1, <1>3, EndedStep
  <2>2. /\ Tight(r) /\ Covers(call[c], r)
        /\ r.state = "WRAPUP" /\ Own(r) = Own(call[c]) /\ Missed(r) = Missed(call[c])
    BY <1>1, <1>3, EndedCustody
  <2>3. call' = [call EXCEPT ![c] = r]
    BY <1>3 DEF SetCall
  <2> HIDE DEF r
  <2>4. CustodyStep(c, r)
    BY <1>3, <2>2 DEF CustodyStep, GoesOn
  <2>5. LogStep(c, r)
    BY <1>1, <1>3, <2>1 DEF LogStep, WriteLog, LogEntry
  <2> QED
    BY <2>1, <2>2, <2>3, <2>4, <2>5 DEF Moves, Routed, CustodyMove
<1>4. CASE UNCHANGED <<call, latest>>
  BY <1>4 DEF Quiet, CustodyMove
<1> QED
  BY <1>2, <1>3, <1>4 DEF EndCall

LEMMA HangupCustody ==
    ASSUME CustodyInv, NEW c \in Calls, NEW o \in Offers, Hangup(c, o)
    PROVE  CustodyMove
<1>1. PICK later \in clock .. clock + MaxLag :
        UNCHANGED <<call, latest>> \/ Advance(c, call[c], clock, later) \/ EndCall(c)
  BY DEF Hangup
<1>2. CASE UNCHANGED <<call, latest>>
  BY <1>2 DEF Quiet, CustodyMove
<1>3. CASE Advance(c, call[c], clock, later)
  <2>1. later \in Nat
    BY InvFacts, ConstantsAssumption
  <2> QED
    BY <1>3, <2>1, InvFacts, AdvanceCustody DEF CustodyMove
<1> QED
  BY <1>1, <1>2, <1>3, EndCallCustody

\* Writing the status of a command that is not NONE keeps the rows tight and
\* custody as it is.
LEMMA CommandCustody ==
    ASSUME CustodyInv, NEW c \in Calls, NEW o \in Offers, NEW t \in CmdTypes, NEW s \in Statuses,
           call[c].cmd[o][t] = "PENDING" \/ s = call[c].cmd[o][t],
           call' = [call EXCEPT ![c].cmd[o][t] = s]
    PROVE  Moves(c, [call[c] EXCEPT !.cmd[o][t] = s])
<1> DEFINE r == [call[c] EXCEPT !.cmd[o][t] = s]
<1>1. call \in [Calls -> CallRow] /\ call[c] \in CallRow /\ Tight(call[c])
  BY InvFacts
<1>2. /\ r \in CallRow /\ r.state = call[c].state /\ r.agentId = call[c].agentId
      /\ r.outcome = call[c].outcome
      /\ \A p \in Offers, u \in CmdTypes :
           r.cmd[p][u] = IF p = o /\ u = t THEN s ELSE call[c].cmd[p][u]
  BY <1>1 DEF CallRow
<1>3. call' = [call EXCEPT ![c] = r]
  BY <1>1
<1> HIDE DEF r
<1>4. Tight(r)
  BY <1>1, <1>2 DEF Tight, Offers, CmdTypes
<1>5. CustodyStep(c, r)
  BY <1>2 DEF CustodyStep, Own, Missed
<1> QED
  BY <1>2, <1>3, <1>4, <1>5 DEF Moves, r

LEMMA DropObsoleteCustody ==
    ASSUME CustodyInv, NEW c \in Calls, NEW o \in Offers, NEW t \in CmdTypes,
           DropObsolete(c, o, t)
    PROVE  CustodyMove
<1>1. /\ call[c].cmd[o][t] = "PENDING" /\ "OBSOLETE" \in Statuses
      /\ call' = [call EXCEPT ![c].cmd[o][t] = "OBSOLETE"] /\ UNCHANGED latest
      /\ t \notin Cleanup
  BY DEF DropObsolete, Claim, Obsolete, Statuses, Cleanup
<1>2. Moves(c, [call[c] EXCEPT !.cmd[o][t] = "OBSOLETE"])
  BY <1>1, CommandCustody
<1>3. Dispatched(c)
  BY <1>1, <1>2 DEF Dispatched
<1> QED
  BY <1>3 DEF CustodyMove

LEMMA EndExecuteCustody ==
    ASSUME CustodyInv, NEW c \in Calls, NEW o \in Offers, NEW t \in CmdTypes,
           NEW confirmed \in BOOLEAN, EndExecute(c, o, t, confirmed)
    PROVE  CustodyMove
<1> DEFINE old == call[c].cmd[o][t]
           s == IF confirmed /\ old = "PENDING" THEN "CONFIRMED" ELSE old
<1>1. /\ old \in Statuses /\ s \in Statuses /\ latest \in [Agents -> LogEntry]
      /\ old = "PENDING" \/ s = old
      /\ s # "NONE" \/ s = old
      /\ s # old => confirmed
  BY InvFacts DEF CallRow, Statuses
<1>2. call' = [call EXCEPT ![c].cmd[o][t] = s]
  BY DEF EndExecute
<1>3. Moves(c, [call[c] EXCEPT !.cmd[o][t] = s])
  <2> HIDE DEF s
  <2> QED
    BY <1>1, <1>2, CommandCustody
<1>4. \A a \in Agents : latest'[a].state = "RESERVED" => latest'[a] = latest[a]
  <2>1. CASE WriteLog(o, "AVAILABLE", c)
    BY <1>1, <2>1 DEF WriteLog, LogEntry
  <2> QED
    BY <2>1 DEF EndExecute, Release
<1>5. ASSUME NEW a \in Agents, o = a, t \in Cleanup, s # old, \A d \in Calls : ~Serving(call, a, d)
      PROVE  latest'[a] # [state |-> "RESERVED", reason |-> c]
  <2>1. o # NoAgent /\ confirmed
    BY <1>1, <1>5, ConstantsAssumption
  <2>2. Release(c, o)
    BY <1>5, <2>1 DEF EndExecute
  <2>3. CASE latest[a] = [state |-> "RESERVED", reason |-> c]
    <3>1. latest' = [latest EXCEPT ![a] = [state |-> "AVAILABLE", reason |-> c]]
      BY <1>5, <2>2, <2>3 DEF Release, WriteLog
    <3> QED
      BY <1>1, <3>1
  <2>4. CASE latest[a] # [state |-> "RESERVED", reason |-> c]
    <3>1. UNCHANGED latest
      BY <1>5, <2>2, <2>4 DEF Release
    <3> QED
      BY <2>4, <3>1
  <2> QED
    BY <2>3, <2>4
<1> HIDE DEF s
<1>6. Dispatched(c)
  BY <1>1, <1>3, <1>4, <1>5 DEF Dispatched
<1> QED
  BY <1>6 DEF CustodyMove

LEMMA SubmitWrapupCustody ==
    ASSUME CustodyInv, NEW c \in Calls, SubmitWrapup(c)
    PROVE  CustodyMove
<1> DEFINE r == [call[c] EXCEPT !.state = "COMPLETED"]
<1>1. /\ call \in [Calls -> CallRow] /\ latest \in [Agents -> LogEntry]
      /\ call[c] \in CallRow /\ Tight(call[c]) /\ call[c].state = "WRAPUP"
  BY InvFacts DEF SubmitWrapup
<1>2. /\ r \in CallRow /\ r.state = "COMPLETED" /\ r.agentId = call[c].agentId
      /\ r.outcome = call[c].outcome /\ r.cmd = call[c].cmd
  BY <1>1 DEF CallRow, States
<1>3. call' = [call EXCEPT ![c] = r]
  BY <1>1 DEF SubmitWrapup
<1> HIDE DEF r
<1>4. Tight(r) /\ CustodyStep(c, r)
  BY <1>1, <1>2 DEF Tight, CustodyStep, Own, Missed, Live
<1>5. \A a \in Agents : latest'[a].state = "RESERVED" => latest'[a] = latest[a] /\ a # call[c].agentId
  BY <1>1 DEF SubmitWrapup, WriteLog, LogEntry
<1>6. Wrapped(c)
  BY <1>1, <1>2, <1>3, <1>4, <1>5 DEF Wrapped, Moves, r
<1> QED
  BY <1>6 DEF CustodyMove

LEMMA OtherCustody ==
    ASSUME CustodyInv,
           \/ PassTime \/ Crash
           \/ \E c \in Calls, o \in Offers, t \in CmdTypes : BeginExecute(c, o, t)
           \/ \E a \in Agents : SelfAvailable(a)
           \/ \E a \in Agents, s \in {"OFFLINE", "AVAILABLE"} : Stage(a, s) \/ Land(a, s)
    PROVE  CustodyMove
<1>1. latest \in [Agents -> LogEntry]
  BY InvFacts
<1>2. CASE UNCHANGED <<call, latest>>
  BY <1>2 DEF Quiet, CustodyMove
<1>3. ASSUME NEW a \in Agents, NEW s \in {"OFFLINE", "AVAILABLE"}, UNCHANGED call,
             WriteLog(a, s, NoCall)
      PROVE  CustodyMove
  BY <1>1, <1>3 DEF WriteLog, LogEntry, Quiet, CustodyMove
<1> QED
  BY <1>2, <1>3 DEF PassTime, Crash, BeginExecute, SelfAvailable, Stage, Land

\* Every step of the runtime is one of the moves.
LEMMA CustodyMoves ==
    ASSUME CustodyInv, [Next]_vars
    PROVE  CustodyMove
<1>1. CASE UNCHANGED vars
  BY <1>1 DEF vars, Quiet, CustodyMove
<1>2. ASSUME NEW c \in Calls, Created(c) \/ Tick(c)
      PROVE  CustodyMove
  BY <1>2, CreatedCustody, TickCustody DEF CustodyMove
<1>3. ASSUME NEW c \in Calls, ReconcileActive(c) \/ SubmitWrapup(c)
      PROVE  CustodyMove
  BY <1>3, EndCallCustody, SubmitWrapupCustody DEF ReconcileActive
<1>4. ASSUME NEW c \in Calls, NEW a \in Agents, Answer(c, a, FALSE) \/ Bridge(c, a)
      PROVE  CustodyMove
  BY <1>4, AnswerCustody DEF Bridge
<1>5. ASSUME NEW c \in Calls, NEW o \in Offers, Hangup(c, o)
      PROVE  CustodyMove
  BY <1>5, HangupCustody
<1>6. ASSUME NEW c \in Calls, NEW o \in Offers, NEW t \in CmdTypes, DropObsolete(c, o, t)
      PROVE  CustodyMove
  BY <1>6, DropObsoleteCustody
<1>7. ASSUME NEW c \in Calls, NEW o \in Offers, NEW t \in CmdTypes,
             NEW confirmed \in BOOLEAN, EndExecute(c, o, t, confirmed)
      PROVE  CustodyMove
  BY <1>7, EndExecuteCustody
<1> QED
  BY <1>1, <1>2, <1>3, <1>4, <1>5, <1>6, <1>7, OtherCustody DEF Next

----------------------------------------------------------------------------
(* No reservation is stranded *)

LEMMA MovesFacts ==
    ASSUME CustodyInv, NEW c \in Calls, NEW r, Moves(c, r)
    PROVE  /\ call'[c] = r /\ \A d \in Calls \ {c} : call'[d] = call[d]
           /\ TightRows'
BY InvFacts DEF Moves, TightRows, CustodyInv

LEMMA RoutedKeeps ==
    ASSUME CustodyInv, NEW c \in Calls, Routed(c)
    PROVE  TightRows' /\ ReservedServing' /\ NoStrandedReservation'
<1>1. PICK r \in CallRow : Moves(c, r) /\ Covers(call[c], r) /\ LogStep(c, r)
  BY DEF Routed
<1>2. call'[c] = r /\ (\A d \in Calls \ {c} : call'[d] = call[d]) /\ TightRows'
  BY <1>1, MovesFacts
<1>3. latest \in [Agents -> LogEntry] /\ ReservedServing /\ NoStrandedReservation
  BY InvFacts DEF CustodyInv
<1>4. \A a \in Agents, d \in Calls :
        Serving(call, a, d) \/ CleanupPending(call, a, d) =>
          Serving(call', a, d) \/ CleanupPending(call', a, d)
  BY <1>1, <1>2 DEF Covers, Holder, Unclean, Serving, CleanupPending
<1>5. CASE /\ Held(call[c], r)
           /\ \A a \in Agents : latest'[a].state = "RESERVED" => latest'[a] = latest[a]
  <2>1. \A a \in Agents, d \in Calls : Serving(call', a, d) => Serving(call, a, d)
    BY <1>2, <1>5 DEF Held, Serving
  <2>2. \A a \in Agents, d \in Calls :
          latest'[a] = [state |-> "RESERVED", reason |-> d] =>
            latest[a] = [state |-> "RESERVED", reason |-> d]
    BY <1>5
  <2> QED
    BY <1>2, <1>3, <1>4, <2>1, <2>2 DEF ReservedServing, NoStrandedReservation
<1>6. ASSUME NEW a \in Agents, Holder(r, a),
             latest' = [latest EXCEPT ![a] = [state |-> "RESERVED", reason |-> c]],
             \A d \in Calls \ {c} : ~Serving(call, a, d)
      PROVE  ReservedServing' /\ NoStrandedReservation'
  <2>1. /\ latest'[a] = [state |-> "RESERVED", reason |-> c]
        /\ \A b \in Agents : b # a => latest'[b] = latest[b]
    BY <1>3, <1>6
  <2>2. /\ \A d \in Calls : Serving(call', a, d) <=> d = c
        /\ \A b \in Agents, d \in Calls : b # a /\ Serving(call', b, d) => Serving(call, b, d)
    BY <1>2, <1>6 DEF Holder, Serving
  <2>3. \A d \in Calls : latest'[a] = [state |-> "RESERVED", reason |-> d] => d = c
    BY <2>1
  <2>4. ReservedServing'
    BY <1>3, <2>1, <2>2, <2>3 DEF ReservedServing
  <2>5. NoStrandedReservation'
    BY <1>3, <1>4, <2>1, <2>2, <2>3 DEF NoStrandedReservation
  <2> QED
    BY <2>4, <2>5
<1> QED
  BY <1>1, <1>2, <1>5, <1>6 DEF LogStep

LEMMA DispatchedKeeps ==
    ASSUME CustodyInv, NEW c \in Calls, Dispatched(c)
    PROVE  TightRows' /\ ReservedServing' /\ NoStrandedReservation'
<1>1. PICK o \in Offers, t \in CmdTypes, s \in Statuses :
        /\ Moves(c, [call[c] EXCEPT !.cmd[o][t] = s])
        /\ \A a \in Agents : latest'[a].state = "RESERVED" => latest'[a] = latest[a]
        /\ \A a \in Agents :
             o = a /\ t \in Cleanup /\ s # call[c].cmd[o][t] /\ (\A d \in Calls : ~Serving(call, a, d)) =>
                latest'[a] # [state |-> "RESERVED", reason |-> c]
  BY DEF Dispatched
<1> DEFINE r == [call[c] EXCEPT !.cmd[o][t] = s]
<1>2. call'[c] = r /\ (\A d \in Calls \ {c} : call'[d] = call[d]) /\ TightRows'
  BY <1>1, MovesFacts
<1>3. ReservedServing /\ NoStrandedReservation /\ call[c] \in CallRow
  BY InvFacts DEF CustodyInv
<1>4. /\ r.state = call[c].state /\ r.agentId = call[c].agentId
      /\ \A p \in Offers, u \in CmdTypes :
           r.cmd[p][u] = IF p = o /\ u = t THEN s ELSE call[c].cmd[p][u]
  BY <1>3 DEF CallRow
<1> HIDE DEF r
<1>5. \A a \in Agents, d \in Calls : Serving(call', a, d) <=> Serving(call, a, d)
  BY <1>2, <1>4 DEF Serving
<1>6. \A a \in Agents, d \in Calls :
        latest'[a] = [state |-> "RESERVED", reason |-> d] =>
          latest[a] = [state |-> "RESERVED", reason |-> d]
  BY <1>1
<1>7. ReservedServing'
  BY <1>3, <1>5, <1>6 DEF ReservedServing
<1>8. ASSUME NEW a \in Agents, NEW d \in Calls,
             latest'[a] = [state |-> "RESERVED", reason |-> d],
             ~Serving(call', a, d)
      PROVE  CleanupPending(call', a, d)
  <2>1. CleanupPending(call, a, d) /\ ~Serving(call, a, d)
    BY <1>3, <1>5, <1>6, <1>8 DEF NoStrandedReservation
  <2>2. CASE d # c
    BY <1>2, <2>1, <2>2 DEF CleanupPending
  <2>3. CASE d = c
    <3>1. \A e \in Calls : ~Serving(call, a, e)
      BY <1>3, <1>6, <1>8, <2>1 DEF ReservedServing
    <3>2. ~(o = a /\ t \in Cleanup /\ s # call[c].cmd[o][t])
      BY <1>1, <1>8, <2>3, <3>1
    <3>3. PICK u \in Cleanup : call[c].cmd[a][u] = "PENDING"
      BY <2>1, <2>3 DEF CleanupPending
    <3>4. a \in Offers /\ u \in CmdTypes
      BY DEF Offers, Cleanup, CmdTypes
    <3>5. r.cmd[a][u] = "PENDING"
      BY <1>4, <3>2, <3>3, <3>4
    <3> QED
      BY <1>2, <2>3, <3>5 DEF CleanupPending
  <2> QED
    BY <2>2, <2>3
<1>9. NoStrandedReservation'
  BY <1>8 DEF NoStrandedReservation
<1> QED
  BY <1>2, <1>7, <1>9

LEMMA WrappedKeeps ==
    ASSUME CustodyInv, NEW c \in Calls, Wrapped(c)
    PROVE  TightRows' /\ ReservedServing' /\ NoStrandedReservation'
<1> DEFINE r == [call[c] EXCEPT !.state = "COMPLETED"]
<1>1. call'[c] = r /\ (\A d \in Calls \ {c} : call'[d] = call[d]) /\ TightRows'
  BY MovesFacts DEF Wrapped
<1>2. ReservedServing /\ NoStrandedReservation /\ call[c] \in CallRow
  BY InvFacts DEF CustodyInv
<1>3. r.state = "COMPLETED" /\ r.agentId = call[c].agentId /\ r.cmd = call[c].cmd
  BY <1>2 DEF CallRow
<1> HIDE DEF r
<1>4. \A a \in Agents, d \in Calls :
        /\ Serving(call', a, d) => Serving(call, a, d)
        /\ Serving(call, a, d) => Serving(call', a, d) \/ (d = c /\ a = call[c].agentId)
        /\ CleanupPending(call', a, d) <=> CleanupPending(call, a, d)
  BY <1>1, <1>3 DEF Serving, CleanupPending, Live
<1>5. \A a \in Agents, d \in Calls :
        latest'[a] = [state |-> "RESERVED", reason |-> d] =>
          latest[a] = [state |-> "RESERVED", reason |-> d] /\ a # call[c].agentId
  BY DEF Wrapped
<1> QED
  BY <1>1, <1>2, <1>4, <1>5 DEF ReservedServing, NoStrandedReservation

LEMMA QuietKeeps ==
    ASSUME CustodyInv, Quiet
    PROVE  TightRows' /\ ReservedServing' /\ NoStrandedReservation'
<1>1. \A a \in Agents, d \in Calls :
        latest'[a] = [state |-> "RESERVED", reason |-> d] =>
          latest[a] = [state |-> "RESERVED", reason |-> d]
  BY DEF Quiet
<1> QED
  BY <1>1 DEF Quiet, CustodyInv, TightRows, ReservedServing, NoStrandedReservation, Serving,
              CleanupPending

LEMMA CustodyPreserved ==
    ASSUME CustodyInv, [Next]_vars
    PROVE  CustodyInv'
<1>1. Inv'
  BY StepShape, RowsPreserved, ExclusivePreserved DEF Inv, CustodyInv
<1>2. TightRows' /\ ReservedServing' /\ NoStrandedReservation'
  BY CustodyMoves, RoutedKeeps, DispatchedKeeps, WrappedKeeps, QuietKeeps DEF CustodyMove
<1> QED
  BY <1>1, <1>2 DEF CustodyInv

LEMMA CustodyAtStart ==
    ASSUME Init
    PROVE  CustodyInv
<1>1. Inv
  BY InitInv DEF Inv
<1>2. TightRows
  BY DEF Init, NewCall, TightRows, Tight, Offers, CmdTypes
<1>3. \A a \in Agents : latest[a].state # "RESERVED"
  BY DEF Init
<1>4. ReservedServing /\ NoStrandedReservation
  BY <1>3 DEF ReservedServing, NoStrandedReservation
<1> QED
  BY <1>1, <1>2, <1>4 DEF CustodyInv

\* Every reachable state satisfies the invariant, whoever writes the agents'
\* logs and however long a dispatcher waits for the port.
THEOREM CustodyInvariance == Spec => []CustodyInv
<1>1. Init => CustodyInv
  BY CustodyAtStart
<1>2. CustodyInv /\ [Next]_vars => CustodyInv'
  BY CustodyPreserved
<1> QED
  BY <1>1, <1>2, PTL DEF Spec

\* Nobody is left RESERVED: the call is still theirs, or a cleanup command is
\* pending whose confirmation in dispatch() releases them.
THEOREM NoneStranded == Spec => []NoStrandedReservation
<1>1. CustodyInv => NoStrandedReservation
  BY DEF CustodyInv
<1> QED
  BY <1>1, CustodyInvariance, PTL

----------------------------------------------------------------------------
(* The runtime implements CallCustody *)

LEMMA CustodyStart == Init => Custody!CInit
<1> SUFFICES ASSUME Init PROVE Custody!CInit
  OBVIOUS
<1>1. \A c \in Calls : /\ call[c].state = "NONE"
                       /\ \A a \in Agents : call[c].outcome[a] = "NONE"
  BY DEF Init, NewCall, Offers
<1>2. [c \in Calls |-> call[c].state] = [c \in Calls |-> "NONE"]
  BY <1>1
<1>3. [c \in Calls |-> IF call[c].state \in Live THEN call[c].agentId ELSE NoAgent]
        = [c \in Calls |-> NoAgent]
  BY <1>1 DEF Live
<1>4. [c \in Calls |-> {a \in Agents : call[c].outcome[a] = "TIMED_OUT"}] = [c \in Calls |-> {}]
  BY <1>1
<1> QED
  BY <1>2, <1>3, <1>4 DEF Custody!CInit

\* New rows of one call, as the mapping sees them: its phase and holder, ...
LEMMA BecomeMapped ==
    ASSUME CustodyInv, NEW c \in Calls, NEW r, Moves(c, r), NEW p, NEW o, p = r.state, o = Own(r)
    PROVE  Custody!Become(c, p, o)
<1>1. call'[c] = r /\ \A d \in Calls \ {c} : call'[d] = call[d]
  BY MovesFacts
<1>2. [d \in Calls |-> call[d].state]' = [[d \in Calls |-> call[d].state] EXCEPT ![c] = p]
  BY <1>1
<1>3. [d \in Calls |-> Own(call[d])]' = [[d \in Calls |-> Own(call[d])] EXCEPT ![c] = o]
  BY <1>1
<1>4. [d \in Calls |-> IF call[d].state \in Live THEN call[d].agentId ELSE NoAgent]
        = [d \in Calls |-> Own(call[d])]
  BY DEF Own
<1>5. [d \in Calls |-> IF call[d].state \in Live THEN call[d].agentId ELSE NoAgent]'
        = [d \in Calls |-> Own(call[d])]'
  BY DEF Own
<1> QED
  BY <1>2, <1>3, <1>4, <1>5 DEF Custody!Become

\* The holder of a call before the step.
LEMMA OwnMapped ==
    ASSUME NEW c \in Calls
    PROVE  [d \in Calls |-> IF call[d].state \in Live THEN call[d].agentId ELSE NoAgent][c]
             = Own(call[c])
BY DEF Own

\* ... and who missed it.
LEMMA MissedMapped ==
    ASSUME CustodyInv, NEW c \in Calls, NEW r, Moves(c, r)
    PROVE  /\ Missed(r) = Missed(call[c]) \cup ({Own(call[c])} \ {NoAgent}) => Custody!Withdraw(c)
           /\ Missed(r) = Missed(call[c]) =>
                UNCHANGED [d \in Calls |-> {a \in Agents : call[d].outcome[a] = "TIMED_OUT"}]
<1>1. call'[c] = r /\ \A d \in Calls \ {c} : call'[d] = call[d]
  BY MovesFacts
<1>2. ASSUME Missed(r) = Missed(call[c]) \cup ({Own(call[c])} \ {NoAgent})
      PROVE  Custody!Withdraw(c)
  BY <1>1, <1>2 DEF Custody!Withdraw, Missed, Own
<1>3. ASSUME Missed(r) = Missed(call[c])
      PROVE  UNCHANGED [d \in Calls |-> {a \in Agents : call[d].outcome[a] = "TIMED_OUT"}]
  <2>1. \A d \in Calls : Missed(call'[d]) = Missed(call[d])
    BY <1>1, <1>3
  <2> QED
    BY <2>1 DEF Missed
<1> QED
  BY <1>2, <1>3

\* A change that custody does not see.
LEMMA StutterMapped ==
    ASSUME CustodyInv, NEW c \in Calls, NEW r, Moves(c, r),
           r.state = call[c].state, Own(r) = Own(call[c]), Missed(r) = Missed(call[c])
    PROVE  UNCHANGED Custody!cvars
<1>1. call'[c] = r /\ \A d \in Calls \ {c} : call'[d] = call[d]
  BY MovesFacts
<1>2. UNCHANGED [d \in Calls |-> call[d].state]
  BY <1>1
<1>3. UNCHANGED [d \in Calls |-> IF call[d].state \in Live THEN call[d].agentId ELSE NoAgent]
  <2>1. \A d \in Calls : Own(call'[d]) = Own(call[d])
    BY <1>1
  <2> QED
    BY <2>1 DEF Own
<1> QED
  BY <1>2, <1>3, MissedMapped DEF Custody!cvars

\* One lawful change of rows is a step of CallCustody, or changes nothing of it.
LEMMA MoveCustody ==
    ASSUME CustodyInv, NEW c \in Calls, NEW r, Moves(c, r)
    PROVE  [Custody!CNext]_(Custody!cvars)
<1>1. Custody!Become(c, r.state, Own(r))
  BY BecomeMapped
<1>2. CASE Waits(call[c], r)
  <2>1. Custody!Wait(c)
    BY <1>1, <1>2, MissedMapped DEF Waits, Custody!Wait, Custody!Open
  <2> QED
    BY <2>1 DEF Custody!CNext
<1>3. CASE Offered(c, call[c], r)
  <2>1. \A d \in Calls : (IF call[d].state \in Live THEN call[d].agentId ELSE NoAgent) # Own(r)
    BY <1>3 DEF Offered, Own
  <2>2. Own(r) \notin {a \in Agents : call[c].outcome[a] = "TIMED_OUT"}
    BY <1>3 DEF Offered, Missed
  <2>3. Custody!Offer(c, Own(r))
    BY <1>1, <1>3, <2>1, <2>2, MissedMapped DEF Offered, Custody!Offer, Custody!Open
  <2> QED
    BY <1>3, <2>3 DEF Offered, Custody!CNext
<1>4. CASE Abandons(call[c], r)
  <2>1. Custody!Abandon(c)
    BY <1>1, <1>4, MissedMapped DEF Abandons, Custody!Abandon, Custody!Open
  <2> QED
    BY <2>1 DEF Custody!CNext
<1>5. CASE GoesOn(call[c], r, "ASSIGNED", "ACTIVE")
  <2> DEFINE f == [d \in Calls |-> call[d].state]
             o == [d \in Calls |-> IF call[d].state \in Live THEN call[d].agentId ELSE NoAgent]
             m == [d \in Calls |-> {a \in Agents : call[d].outcome[a] = "TIMED_OUT"}]
  <2>1. o[c] = Own(r) /\ r.state = "ACTIVE" /\ call[c].state = "ASSIGNED" /\ m' = m
    BY <1>5, OwnMapped, MissedMapped DEF GoesOn
  <2>2. f' = [f EXCEPT ![c] = r.state] /\ o' = [o EXCEPT ![c] = Own(r)]
    BY <1>1 DEF Custody!Become
  <2>3. /\ f[c] = "ASSIGNED" /\ m' = m
        /\ f' = [f EXCEPT ![c] = "ACTIVE"] /\ o' = [o EXCEPT ![c] = o[c]]
    <3>1. f[c] = "ASSIGNED"
      BY <2>1
    <3> HIDE DEF f, o, m
    <3> QED
      BY <2>1, <2>2, <3>1
  <2>4. Custody!Take(c)
    BY <2>3 DEF Custody!Take, Custody!Become
  <2> QED
    BY <2>4 DEF Custody!CNext
<1>6. CASE GoesOn(call[c], r, "ACTIVE", "WRAPUP")
  <2> DEFINE f == [d \in Calls |-> call[d].state]
             o == [d \in Calls |-> IF call[d].state \in Live THEN call[d].agentId ELSE NoAgent]
             m == [d \in Calls |-> {a \in Agents : call[d].outcome[a] = "TIMED_OUT"}]
  <2>1. o[c] = Own(r) /\ r.state = "WRAPUP" /\ call[c].state = "ACTIVE" /\ m' = m
    BY <1>6, OwnMapped, MissedMapped DEF GoesOn
  <2>2. f' = [f EXCEPT ![c] = r.state] /\ o' = [o EXCEPT ![c] = Own(r)]
    BY <1>1 DEF Custody!Become
  <2>3. /\ f[c] = "ACTIVE" /\ m' = m
        /\ f' = [f EXCEPT ![c] = "WRAPUP"] /\ o' = [o EXCEPT ![c] = o[c]]
    <3>1. f[c] = "ACTIVE"
      BY <2>1
    <3> HIDE DEF f, o, m
    <3> QED
      BY <2>1, <2>2, <3>1
  <2>4. Custody!End(c)
    BY <2>3 DEF Custody!End, Custody!Become
  <2> QED
    BY <2>4 DEF Custody!CNext
<1>7. CASE /\ call[c].state = "WRAPUP" /\ r.state = "COMPLETED"
           /\ Own(r) = NoAgent /\ Missed(r) = Missed(call[c])
  <2>1. Custody!Complete(c)
    BY <1>1, <1>7, MissedMapped DEF Custody!Complete
  <2> QED
    BY <2>1 DEF Custody!CNext
<1> QED
  BY <1>2, <1>3, <1>4, <1>5, <1>6, <1>7, StutterMapped DEF Moves, CustodyStep

\* The runtime implements CallCustody: each transaction of handle(), tick(),
\* reconcileActive(), dispatch() and the agents' requests is a step of it or
\* none, so calls are given to free agents only, never twice to one who let
\* it ring out, and move through their phases in order.
THEOREM ImplementsCustody == Spec => CustodySpec
<1>1. CustodyInv /\ [Next]_vars => [Custody!CNext]_(Custody!cvars)
  <2> SUFFICES ASSUME CustodyInv, [Next]_vars PROVE [Custody!CNext]_(Custody!cvars)
    OBVIOUS
  <2>1. CASE Quiet
    BY <2>1 DEF Quiet, Custody!cvars
  <2>2. ASSUME NEW c \in Calls, Routed(c) \/ Dispatched(c) \/ Wrapped(c)
        PROVE  \E r : Moves(c, r)
    BY <2>2 DEF Routed, Dispatched, Wrapped
  <2> QED
    BY <2>1, <2>2, CustodyMoves, MoveCustody DEF CustodyMove
<1> QED
  BY <1>1, CustodyStart, CustodyInvariance, PTL DEF Spec, CustodySpec, Custody!CSpec

=============================================================================
