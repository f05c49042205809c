-------------------- MODULE ManagedVoiceRuntimeProofs ----------------------
(* Theorems about ManagedVoiceRuntime, for every value of its constants. *)
EXTENDS ManagedVoiceRuntime, TLAPS

----------------------------------------------------------------------------
(* What the helpers return *)

\* intent() changes one command and nothing else.
LEMMA IntentFields ==
    ASSUME NEW row \in CallRow, NEW o \in Offers, NEW t \in CmdTypes, NEW r, r = Intent(row, o, t)
    PROVE  /\ r \in CallRow
           /\ r.state = row.state /\ r.agentId = row.agentId
           /\ r.currentOffer = row.currentOffer /\ r.deadline = row.deadline
           /\ r.answeredAt = row.answeredAt /\ r.terminalReason = row.terminalReason
           /\ r.outcome = row.outcome /\ r.expiresAt = row.expiresAt
           /\ \A p \in Offers, u \in CmdTypes :
                r.cmd[p][u] = IF p = o /\ u = t /\ row.cmd[p][u] = "NONE"
                              THEN "PENDING" ELSE row.cmd[p][u]
BY DEF Intent, CallRow, Statuses

\* The fields that only the transaction that assigns or answers may touch.
Same(r, row) ==
    /\ r.currentOffer = row.currentOffer /\ r.deadline = row.deadline
    /\ r.answeredAt = row.answeredAt /\ r.expiresAt = row.expiresAt

\* A late answer leaves everything but one cancel command alone.
LEMMA LateAnswerFields ==
    ASSUME NEW row \in CallRow, NEW o \in Offers, NEW r, r = LateAnswer(row, o)
    PROVE  /\ r \in CallRow /\ Same(r, row)
           /\ r.state = row.state /\ r.agentId = row.agentId
           /\ r.outcome = row.outcome /\ r.terminalReason = row.terminalReason
           /\ \A p \in Offers, u \in CmdTypes :
                r.cmd[p][u] = IF /\ p = o /\ u = "offer.cancel"
                                 /\ row.cmd[p][u] \in {"NONE", "CONFIRMED"}
                              THEN "PENDING" ELSE row.cmd[p][u]
BY DEF LateAnswer, CallRow, Statuses, CmdTypes, Same

\* An offer that runs out puts its call back in the queue.
LEMMA TimeOutFields ==
    ASSUME NEW row \in CallRow, NEW r, r = TimeOut(row)
    PROVE  /\ r \in CallRow /\ Same(r, row)
           /\ r.state = "QUEUED" /\ r.agentId = NoAgent
           /\ r.terminalReason = row.terminalReason
           /\ r.outcome = [row.outcome EXCEPT ![row.currentOffer] = "TIMED_OUT"]
           /\ \A p \in Offers, u \in CmdTypes :
                r.cmd[p][u] = IF /\ p = row.currentOffer /\ u = "offer.cancel"
                                 /\ row.cmd[p][u] = "NONE"
                              THEN "PENDING" ELSE row.cmd[p][u]
<1> DEFINE i == Intent(row, row.currentOffer, "offer.cancel")
<1>1. row.currentOffer \in Offers /\ "offer.cancel" \in CmdTypes
  BY DEF CallRow, CmdTypes
<1>2. /\ i \in CallRow
      /\ i.currentOffer = row.currentOffer /\ i.deadline = row.deadline
      /\ i.answeredAt = row.answeredAt /\ i.terminalReason = row.terminalReason
      /\ i.outcome = row.outcome /\ i.expiresAt = row.expiresAt
      /\ \A p \in Offers, u \in CmdTypes :
           i.cmd[p][u] = IF /\ p = row.currentOffer /\ u = "offer.cancel"
                            /\ row.cmd[p][u] = "NONE"
                         THEN "PENDING" ELSE row.cmd[p][u]
  BY <1>1, IntentFields
<1>3. TimeOut(row) = [i EXCEPT !.outcome[row.currentOffer] = "TIMED_OUT",
                               !.state = "QUEUED", !.agentId = NoAgent]
  BY DEF TimeOut
<1> HIDE DEF i
<1>4. /\ r \in CallRow
      /\ r.state = "QUEUED" /\ r.agentId = NoAgent
      /\ r.currentOffer = i.currentOffer /\ r.deadline = i.deadline
      /\ r.answeredAt = i.answeredAt /\ r.terminalReason = i.terminalReason
      /\ r.outcome = [i.outcome EXCEPT ![row.currentOffer] = "TIMED_OUT"]
      /\ r.expiresAt = i.expiresAt /\ r.cmd = i.cmd
  <2> DEFINE w == [i.outcome EXCEPT ![row.currentOffer] = "TIMED_OUT"]
  <2>1. i \in CallRow /\ NoAgent \in Offers
    BY <1>2 DEF Offers
  <2>2. w \in [Offers -> Outcomes]
    BY <2>1 DEF CallRow, Outcomes
  <2>3. r = [i EXCEPT !.outcome = w, !.state = "QUEUED", !.agentId = NoAgent]
    BY <1>3
  <2> HIDE DEF w
  <2>4. /\ r \in CallRow
        /\ r.state = "QUEUED" /\ r.agentId = NoAgent
        /\ r.currentOffer = i.currentOffer /\ r.deadline = i.deadline
        /\ r.answeredAt = i.answeredAt /\ r.terminalReason = i.terminalReason
        /\ r.outcome = w /\ r.expiresAt = i.expiresAt /\ r.cmd = i.cmd
    BY <2>1, <2>2, <2>3 DEF CallRow, States, Preanswer
  <2> QED
    BY <2>4 DEF w
<1> QED
  BY <1>2, <1>4 DEF Same

\* A call that ends before it is answered: every offer it made has a cancel.
LEMMA TerminalFields ==
    ASSUME NEW row \in CallRow, NEW reason \in Reasons, NEW r, r = Terminal(row, reason)
    PROVE  /\ r \in CallRow /\ Same(r, row)
           /\ r.state = "ABANDONED" /\ r.agentId = row.agentId /\ r.terminalReason = reason
           /\ r.outcome = [row.outcome EXCEPT ![row.currentOffer] =
                              IF @ = "PENDING" THEN "CANCELLED" ELSE @]
           /\ \A p \in Offers, u \in CmdTypes :
                r.cmd[p][u] = IF /\ row.cmd[p][u] = "NONE"
                                 /\ \/ u = "offer.cancel" /\ row.outcome[p] # "NONE"
                                    \/ u = "call.hangup" /\ p = row.currentOffer
                              THEN "PENDING" ELSE row.cmd[p][u]
<1> DEFINE q == [o \in Offers |-> [t \in CmdTypes |->
                    IF /\ row.cmd[o][t] = "NONE"
                       /\ \/ t = "offer.cancel" /\ row.outcome[o] # "NONE"
                          \/ t = "call.hangup" /\ o = row.currentOffer
                    THEN "PENDING" ELSE row.cmd[o][t]]]
           w == [row.outcome EXCEPT ![row.currentOffer] =
                              IF @ = "PENDING" THEN "CANCELLED" ELSE @]
<1>1. q \in [Offers -> [CmdTypes -> Statuses]]
  BY DEF CallRow, Statuses
<1>2. \A p \in Offers, u \in CmdTypes :
           q[p][u] = IF /\ row.cmd[p][u] = "NONE"
                        /\ \/ u = "offer.cancel" /\ row.outcome[p] # "NONE"
                           \/ u = "call.hangup" /\ p = row.currentOffer
                     THEN "PENDING" ELSE row.cmd[p][u]
  OBVIOUS
<1>3. w \in [Offers -> Outcomes]
  BY DEF CallRow, Outcomes
<1>4. r = [row EXCEPT !.state = "ABANDONED", !.terminalReason = reason,
                      !.outcome = w, !.cmd = q]
  BY DEF Terminal
<1> HIDE DEF q, w
<1>5. /\ r \in CallRow
      /\ r.currentOffer = row.currentOffer /\ r.deadline = row.deadline
      /\ r.answeredAt = row.answeredAt /\ r.expiresAt = row.expiresAt
      /\ r.state = "ABANDONED" /\ r.agentId = row.agentId /\ r.terminalReason = reason
      /\ r.outcome = w /\ r.cmd = q
  BY <1>1, <1>3, <1>4 DEF CallRow, States
<1> QED
  BY <1>2, <1>5 DEF Same, w

\* A new offer, never longer than the call's deadline.
LEMMA AssignFields ==
    ASSUME NEW row \in CallRow, NEW a \in Agents, NEW now \in Nat, NEW r, r = Assign(row, a, now)
    PROVE  /\ r \in CallRow
           /\ r.state = "ASSIGNED" /\ r.agentId = a /\ r.currentOffer = a
           /\ r.deadline = row.deadline /\ r.answeredAt = row.answeredAt
           /\ r.terminalReason = row.terminalReason
           /\ r.outcome = [row.outcome EXCEPT ![a] = "PENDING"]
           /\ \A p \in Offers : p # a => r.expiresAt[p] = row.expiresAt[p]
           /\ r.expiresAt[a] <= row.deadline
           /\ \A p \in Offers, u \in CmdTypes :
                u # "offer.create" => r.cmd[p][u] = row.cmd[p][u]
<1> DEFINE e == IF now + OfferSec < row.deadline THEN now + OfferSec ELSE row.deadline
           m == [row EXCEPT !.state = "ASSIGNED", !.agentId = a, !.currentOffer = a,
                            !.outcome[a] = "PENDING", !.expiresAt[a] = e]
           i == Intent(m, a, "offer.create")
<1>1. a \in Offers /\ "offer.create" \in CmdTypes
  BY DEF Offers, CmdTypes
<1>0. e \in Nat /\ e <= row.deadline
  BY ConstantsAssumption DEF CallRow
<1>3. Assign(row, a, now) = i
  BY DEF Assign
<1> HIDE DEF e
<1>2. /\ m \in CallRow
      /\ m.state = "ASSIGNED" /\ m.agentId = a /\ m.currentOffer = a
      /\ m.deadline = row.deadline /\ m.answeredAt = row.answeredAt
      /\ m.terminalReason = row.terminalReason
      /\ m.outcome = [row.outcome EXCEPT ![a] = "PENDING"]
      /\ \A p \in Offers : p # a => m.expiresAt[p] = row.expiresAt[p]
      /\ m.expiresAt[a] <= row.deadline
      /\ m.cmd = row.cmd
  BY <1>0, <1>1 DEF CallRow, States, Preanswer, Live, Outcomes
<1> HIDE DEF m
<1>4. /\ i \in CallRow /\ i.state = m.state /\ i.agentId = m.agentId
      /\ i.currentOffer = m.currentOffer /\ i.deadline = m.deadline
      /\ i.answeredAt = m.answeredAt /\ i.terminalReason = m.terminalReason
      /\ i.outcome = m.outcome /\ i.expiresAt = m.expiresAt
      /\ \A p \in Offers, u \in CmdTypes :
           u # "offer.create" => i.cmd[p][u] = m.cmd[p][u]
  <2>1. m \in CallRow
    BY <1>2
  <2> QED
    BY <1>1, <2>1, IntentFields
<1> HIDE DEF i
<1> QED
  BY <1>2, <1>3, <1>4

LEMMA AnsweredFields ==
    ASSUME NEW row \in CallRow, NEW o \in Offers, NEW now \in Nat, NEW r, r = Answered(row, o, now)
    PROVE  /\ r \in CallRow
           /\ r.state = "ACTIVE" /\ r.agentId = row.agentId
           /\ r.currentOffer = row.currentOffer /\ r.deadline = row.deadline
           /\ r.answeredAt = now /\ r.terminalReason = row.terminalReason
           /\ r.outcome = [row.outcome EXCEPT ![o] = "ANSWERED"]
           /\ r.expiresAt = row.expiresAt
           /\ \A p \in Offers, u \in CmdTypes :
                u # "call.bridge" \/ p # o => r.cmd[p][u] = row.cmd[p][u]
<1> DEFINE m == [row EXCEPT !.state = "ACTIVE", !.answeredAt = now, !.outcome[o] = "ANSWERED"]
           i == Intent(m, o, "call.bridge")
<1>1. "call.bridge" \in CmdTypes
  BY DEF CmdTypes
<1>2. /\ m \in CallRow
      /\ m.state = "ACTIVE" /\ m.agentId = row.agentId
      /\ m.currentOffer = row.currentOffer /\ m.deadline = row.deadline
      /\ m.answeredAt = now /\ m.terminalReason = row.terminalReason
      /\ m.outcome = [row.outcome EXCEPT ![o] = "ANSWERED"]
      /\ m.expiresAt = row.expiresAt /\ m.cmd = row.cmd
  BY DEF CallRow, States, Preanswer, Live, Outcomes
<1>3. Answered(row, o, now) = i
  BY DEF Answered
<1> HIDE DEF m
<1>4. /\ i \in CallRow /\ i.state = m.state /\ i.agentId = m.agentId
      /\ i.currentOffer = m.currentOffer /\ i.deadline = m.deadline
      /\ i.answeredAt = m.answeredAt /\ i.terminalReason = m.terminalReason
      /\ i.outcome = m.outcome /\ i.expiresAt = m.expiresAt
      /\ \A p \in Offers, u \in CmdTypes :
           u # "call.bridge" \/ p # o => i.cmd[p][u] = m.cmd[p][u]
  <2>1. m \in CallRow
    BY <1>2
  <2> QED
    BY <1>1, <2>1, IntentFields
<1> HIDE DEF i
<1> QED
  BY <1>2, <1>3, <1>4

LEMMA EndedFields ==
    ASSUME NEW row \in CallRow, NEW r, r = Ended(row)
    PROVE  /\ r \in CallRow /\ Same(r, row)
           /\ r.state = "WRAPUP" /\ r.agentId = row.agentId
           /\ r.terminalReason = "AGENT_HANGUP"
           /\ r.outcome = [row.outcome EXCEPT ![row.currentOffer] = "ENDED"]
           /\ \A p \in Offers, u \in CmdTypes :
                r.cmd[p][u] = IF /\ p = row.currentOffer /\ u = "call.hangup"
                                 /\ row.cmd[p][u] = "NONE"
                              THEN "PENDING" ELSE row.cmd[p][u]
<1> DEFINE m == [row EXCEPT !.state = "WRAPUP", !.terminalReason = "AGENT_HANGUP",
                            !.outcome[row.currentOffer] = "ENDED"]
           i == Intent(m, row.currentOffer, "call.hangup")
<1>1. row.currentOffer \in Offers /\ "call.hangup" \in CmdTypes
  BY DEF CallRow, CmdTypes
<1>2. /\ m \in CallRow
      /\ m.state = "WRAPUP" /\ m.agentId = row.agentId
      /\ m.currentOffer = row.currentOffer /\ m.deadline = row.deadline
      /\ m.answeredAt = row.answeredAt /\ m.terminalReason = "AGENT_HANGUP"
      /\ m.outcome = [row.outcome EXCEPT ![row.currentOffer] = "ENDED"]
      /\ m.expiresAt = row.expiresAt /\ m.cmd = row.cmd
  <2> DEFINE w == [row.outcome EXCEPT ![row.currentOffer] = "ENDED"]
  <2>1. w \in [Offers -> Outcomes]
    BY DEF CallRow, Outcomes
  <2>2. m = [row EXCEPT !.state = "WRAPUP", !.terminalReason = "AGENT_HANGUP", !.outcome = w]
    OBVIOUS
  <2> HIDE DEF w, m
  <2>3. /\ m \in CallRow
        /\ m.state = "WRAPUP" /\ m.agentId = row.agentId
        /\ m.currentOffer = row.currentOffer /\ m.deadline = row.deadline
        /\ m.answeredAt = row.answeredAt /\ m.terminalReason = "AGENT_HANGUP"
        /\ m.outcome = w /\ m.expiresAt = row.expiresAt /\ m.cmd = row.cmd
    BY <2>1, <2>2 DEF CallRow, States, Live, Reasons
  <2> QED
    BY <2>3 DEF w
<1>3. Ended(row) = i
  BY DEF Ended
<1> HIDE DEF m
<1>4. /\ i \in CallRow /\ i.state = m.state /\ i.agentId = m.agentId
      /\ i.currentOffer = m.currentOffer /\ i.deadline = m.deadline
      /\ i.answeredAt = m.answeredAt /\ i.terminalReason = m.terminalReason
      /\ i.outcome = m.outcome /\ i.expiresAt = m.expiresAt
      /\ \A p \in Offers, u \in CmdTypes :
           i.cmd[p][u] = IF /\ p = row.currentOffer /\ u = "call.hangup"
                            /\ m.cmd[p][u] = "NONE"
                         THEN "PENDING" ELSE m.cmd[p][u]
  <2>1. m \in CallRow
    BY <1>2
  <2>2. PICK o \in Offers : o = row.currentOffer
    BY <1>1
  <2>3. i = Intent(m, o, "call.hangup")
    BY <2>2
  <2> HIDE DEF i
  <2>4. /\ i \in CallRow /\ i.state = m.state /\ i.agentId = m.agentId
        /\ i.currentOffer = m.currentOffer /\ i.deadline = m.deadline
        /\ i.answeredAt = m.answeredAt /\ i.terminalReason = m.terminalReason
        /\ i.outcome = m.outcome /\ i.expiresAt = m.expiresAt
    BY <1>1, <2>1, <2>3, IntentFields
  <2>5. \A p \in Offers, u \in CmdTypes :
             i.cmd[p][u] = IF p = o /\ u = "call.hangup" /\ m.cmd[p][u] = "NONE"
                           THEN "PENDING" ELSE m.cmd[p][u]
    BY <1>1, <2>1, <2>3 DEF Intent, CallRow
  <2> QED
    BY <2>2, <2>4, <2>5
<1> HIDE DEF i
<1> QED
  BY <1>2, <1>3, <1>4 DEF Same

----------------------------------------------------------------------------
(* The inductive invariant of one call's rows, and what a transaction may do *)
(* to them                                                                   *)

\* Offers end by the deadline, an answer comes before its offer ends.
RowTimely(row) ==
    /\ row.state \in {"ASSIGNED", "ACTIVE", "WRAPUP", "COMPLETED"} =>
           row.expiresAt[row.currentOffer] <= row.deadline
    /\ row.state \in {"ACTIVE", "WRAPUP", "COMPLETED"} =>
           row.answeredAt < row.expiresAt[row.currentOffer]

\* A call has no history before it exists and no reason before it ends.
RowHistory(row) ==
    /\ row.state = "NONE" => \A o \in Offers : row.outcome[o] = "NONE"
    /\ row.terminalReason # "NONE" => row.state \in {"WRAPUP", "COMPLETED", "ABANDONED"}

RowInv(row) == RowCoherent(row) /\ RowTimely(row) /\ RowHistory(row)

\* HistoryFinal, for one call.
Keeps(row, r) ==
    /\ \A a \in Agents : row.outcome[a] \in {"TIMED_OUT", "CANCELLED", "ENDED"} =>
                            r.outcome[a] = row.outcome[a]
    /\ row.terminalReason # "NONE" => r.terminalReason = row.terminalReason

\* Nobody is given the call who did not hold it.
Held(row, r) == r.state \in Live => row.state \in Live /\ r.agentId = row.agentId

LEMMA FreshStep ==
    ASSUME NEW row \in CallRow, RowInv(row), row.state = "NONE", NEW n \in Nat,
           NEW r, r = [NewCall EXCEPT !.state = "QUEUED", !.deadline = n]
    PROVE  r \in CallRow /\ RowInv(r) /\ Keeps(row, r) /\ Held(row, r)
<1>1. NewCall \in CallRow
  BY DEF NewCall, CallRow, States, Offers, Outcomes, Statuses, Reasons
<1>2. /\ NewCall.state = "NONE" /\ NewCall.agentId = NoAgent /\ NewCall.currentOffer = NoAgent
      /\ NewCall.terminalReason = "NONE" /\ NewCall.outcome = [o \in Offers |-> "NONE"]
  BY DEF NewCall
<1> HIDE DEF NewCall
<1>3. /\ r \in CallRow /\ r.state = "QUEUED" /\ r.agentId = NoAgent
      /\ r.currentOffer = NoAgent /\ r.terminalReason = "NONE"
      /\ r.outcome = [o \in Offers |-> "NONE"]
  BY <1>1, <1>2 DEF CallRow, States, Preanswer
<1>4. RowInv(r)
  <2>1. NoAgent \in Offers
    BY DEF Offers
  <2> QED
    BY <1>3, <2>1 DEF RowInv, RowCoherent, RowTimely, RowHistory, OfferPending, Live
<1>5. Keeps(row, r)
  BY DEF RowInv, RowHistory, Keeps, Offers
<1> QED
  BY <1>3, <1>4, <1>5 DEF Held, Live

LEMMA LateAnswerStep ==
    ASSUME NEW row \in CallRow, RowInv(row), NEW o \in Offers, NEW r, r = LateAnswer(row, o)
    PROVE  r \in CallRow /\ RowInv(r) /\ Keeps(row, r) /\ Held(row, r)
<1>1. /\ r \in CallRow /\ Same(r, row) /\ r.state = row.state /\ r.agentId = row.agentId
      /\ r.outcome = row.outcome /\ r.terminalReason = row.terminalReason
  BY LateAnswerFields
<1> QED
  BY <1>1 DEF RowInv, RowCoherent, RowTimely, RowHistory, OfferPending, Keeps, Held, Same

LEMMA TimeOutStep ==
    ASSUME NEW row \in CallRow, RowInv(row), OfferPending(row), NEW r, r = TimeOut(row)
    PROVE  /\ r \in CallRow /\ RowInv(r) /\ Keeps(row, r) /\ Held(row, r)
           /\ r.state = "QUEUED" /\ r.deadline = row.deadline
<1>1. /\ r \in CallRow /\ Same(r, row) /\ r.state = "QUEUED" /\ r.agentId = NoAgent
      /\ r.terminalReason = row.terminalReason
      /\ r.outcome = [row.outcome EXCEPT ![row.currentOffer] = "TIMED_OUT"]
  BY TimeOutFields
<1>2. row.state = "ASSIGNED" /\ row.currentOffer \in Agents
  BY DEF RowInv, RowCoherent, OfferPending, CallRow, Offers
<1>3. /\ \A o \in Offers : r.outcome[o] = IF o = row.currentOffer THEN "TIMED_OUT" ELSE row.outcome[o]
      /\ row.currentOffer \in Offers /\ NoAgent \in Offers
  BY <1>1 DEF CallRow, Offers
<1>4. RowCoherent(r)
  BY <1>1, <1>2, <1>3, ConstantsAssumption DEF RowInv, RowCoherent, OfferPending, Same, Live
<1>5. RowTimely(r) /\ RowHistory(r)
  BY <1>1, <1>2 DEF RowInv, RowTimely, RowHistory
<1>6. Keeps(row, r)
  BY <1>1, <1>3 DEF Keeps, OfferPending, Offers
<1> QED
  BY <1>1, <1>4, <1>5, <1>6 DEF Held, Live, RowInv, Same

LEMMA TerminalStep ==
    ASSUME NEW row \in CallRow, RowInv(row), row.state \in Preanswer,
           NEW reason \in Reasons, NEW r, r = Terminal(row, reason)
    PROVE  r \in CallRow /\ RowInv(r) /\ Keeps(row, r) /\ Held(row, r)
<1>1. /\ r \in CallRow /\ Same(r, row) /\ r.state = "ABANDONED" /\ r.agentId = row.agentId
      /\ r.terminalReason = reason
      /\ r.outcome = [row.outcome EXCEPT ![row.currentOffer] =
                          IF @ = "PENDING" THEN "CANCELLED" ELSE @]
  BY TerminalFields
<1>3. /\ \A o \in Offers : r.outcome[o] = IF o = row.currentOffer /\ row.outcome[o] = "PENDING"
                                         THEN "CANCELLED" ELSE row.outcome[o]
      /\ row.currentOffer \in Offers /\ NoAgent \in Offers
  BY <1>1 DEF CallRow, Offers
<1>4. RowCoherent(r)
  BY <1>1, <1>3 DEF RowInv, RowCoherent, OfferPending, Same, Live, Preanswer
<1>5. RowTimely(r) /\ RowHistory(r)
  BY <1>1 DEF RowTimely, RowHistory
<1>6. Keeps(row, r)
  BY <1>1, <1>3 DEF Keeps, Offers, RowInv, RowHistory, Preanswer
<1> QED
  BY <1>1, <1>4, <1>5, <1>6 DEF Held, Live, RowInv

LEMMA AssignStep ==
    ASSUME NEW row \in CallRow, RowInv(row), row.state = "QUEUED",
           NEW a \in Agents, row.outcome[a] \notin {"TIMED_OUT", "CANCELLED"},
           NEW now \in Nat, NEW r, r = Assign(row, a, now)
    PROVE  r \in CallRow /\ RowInv(r) /\ Keeps(row, r) /\ r.agentId = a
<1>1. /\ r \in CallRow /\ r.state = "ASSIGNED" /\ r.agentId = a /\ r.currentOffer = a
      /\ r.deadline = row.deadline /\ r.terminalReason = row.terminalReason
      /\ r.outcome = [row.outcome EXCEPT ![a] = "PENDING"]
      /\ r.expiresAt[a] <= row.deadline
  BY AssignFields
<1>2. /\ \A o \in Offers : r.outcome[o] = IF o = a THEN "PENDING" ELSE row.outcome[o]
      /\ row.currentOffer \in Offers /\ NoAgent \in Offers /\ a \in Offers /\ a # NoAgent
  BY <1>1, ConstantsAssumption DEF CallRow, Offers
<1>3. \A o \in Offers : row.outcome[o] \notin {"PENDING", "ANSWERED", "ENDED"}
  BY <1>2 DEF RowInv, RowCoherent, OfferPending
<1>4. RowCoherent(r)
  BY <1>1, <1>2, <1>3 DEF RowInv, RowCoherent, OfferPending, Live
<1>5. RowTimely(r) /\ RowHistory(r)
  BY <1>1 DEF RowInv, RowTimely, RowHistory
<1>6. Keeps(row, r)
  BY <1>1, <1>2, <1>3 DEF Keeps, Offers
<1> QED
  BY <1>1, <1>4, <1>5, <1>6 DEF RowInv

LEMMA AnsweredStep ==
    ASSUME NEW row \in CallRow, RowInv(row), row.state = "ASSIGNED",
           NEW now \in Nat, now < row.expiresAt[row.currentOffer],
           NEW r, r = Answered(row, row.currentOffer, now)
    PROVE  r \in CallRow /\ RowInv(r) /\ Keeps(row, r) /\ Held(row, r)
<1> DEFINE o == row.currentOffer
<1>1. o \in Offers
  BY DEF CallRow
<1>2. /\ r \in CallRow /\ r.state = "ACTIVE" /\ r.agentId = row.agentId
      /\ r.currentOffer = row.currentOffer /\ r.deadline = row.deadline
      /\ r.answeredAt = now /\ r.terminalReason = row.terminalReason
      /\ r.outcome = [row.outcome EXCEPT ![o] = "ANSWERED"]
      /\ r.expiresAt = row.expiresAt
  BY <1>1, AnsweredFields
<1>3. /\ \A p \in Offers : r.outcome[p] = IF p = o THEN "ANSWERED" ELSE row.outcome[p]
      /\ NoAgent \in Offers
  BY <1>2 DEF CallRow, Offers
<1>4. RowCoherent(r)
  BY <1>1, <1>2, <1>3 DEF RowInv, RowCoherent, OfferPending, Live
<1>5. RowTimely(r) /\ RowHistory(r)
  BY <1>2 DEF RowInv, RowTimely, RowHistory
<1>6. Keeps(row, r)
  BY <1>1, <1>2, <1>3 DEF Keeps, Offers, RowInv, RowCoherent, OfferPending
<1> QED
  BY <1>2, <1>4, <1>5, <1>6 DEF Held, Live, RowInv

LEMMA EndedStep ==
    ASSUME NEW row \in CallRow, RowInv(row), row.state = "ACTIVE", NEW r, r = Ended(row)
    PROVE  r \in CallRow /\ RowInv(r) /\ Keeps(row, r) /\ Held(row, r)
<1>1. /\ r \in CallRow /\ Same(r, row) /\ r.state = "WRAPUP" /\ r.agentId = row.agentId
      /\ r.terminalReason = "AGENT_HANGUP"
      /\ r.outcome = [row.outcome EXCEPT ![row.currentOffer] = "ENDED"]
  BY EndedFields
<1>3. /\ \A p \in Offers : r.outcome[p] = IF p = row.currentOffer THEN "ENDED" ELSE row.outcome[p]
      /\ row.currentOffer \in Offers /\ NoAgent \in Offers
  BY <1>1 DEF CallRow, Offers
<1>4. RowCoherent(r)
  BY <1>1, <1>3 DEF RowInv, RowCoherent, OfferPending, Live, Same
<1>5. RowTimely(r) /\ RowHistory(r)
  BY <1>1 DEF RowInv, RowTimely, RowHistory, Same
<1>6. Keeps(row, r)
  BY <1>1, <1>3 DEF Keeps, Offers, RowInv, RowCoherent, RowHistory
<1> QED
  BY <1>1, <1>4, <1>5, <1>6 DEF Held, Live, RowInv

LEMMA CompletedStep ==
    ASSUME NEW row \in CallRow, RowInv(row), row.state = "WRAPUP",
           NEW r, r = [row EXCEPT !.state = "COMPLETED"]
    PROVE  r \in CallRow /\ RowInv(r) /\ Keeps(row, r) /\ Held(row, r)
<1>1. /\ r \in CallRow /\ Same(r, row) /\ r.state = "COMPLETED" /\ r.agentId = row.agentId
      /\ r.terminalReason = row.terminalReason /\ r.outcome = row.outcome
  BY DEF CallRow, States, Same
<1> QED
  BY <1>1 DEF RowInv, RowCoherent, RowTimely, RowHistory, OfferPending, Keeps, Held, Same, Live

\* The dispatcher writes nothing but the status of a command.
LEMMA CommandStep ==
    ASSUME NEW row \in CallRow, RowInv(row), NEW o \in Offers, NEW t \in CmdTypes,
           NEW s \in Statuses, NEW r, r = [row EXCEPT !.cmd[o][t] = s]
    PROVE  r \in CallRow /\ RowInv(r) /\ Keeps(row, r) /\ Held(row, r)
<1>1. /\ r \in CallRow /\ Same(r, row) /\ r.state = row.state /\ r.agentId = row.agentId
      /\ r.terminalReason = row.terminalReason /\ r.outcome = row.outcome
  BY DEF CallRow, Same
<1> QED
  BY <1>1 DEF RowInv, RowCoherent, RowTimely, RowHistory, OfferPending, Keeps, Held, Same

LEMMA Composed ==
    ASSUME NEW x, NEW y, NEW z, Keeps(x, y), Keeps(y, z), Held(x, y)
    PROVE  Keeps(x, z) /\ (Held(y, z) => Held(x, z))
BY DEF Keeps, Held

----------------------------------------------------------------------------
(* What a step may do to the calls *)

\* The rows of one call change, and either nobody is given the call or an
\* agent who serves no other.
RowChange(c) ==
    \E r \in CallRow :
        /\ call' = [call EXCEPT ![c] = r]
        /\ RowInv(r) /\ Keeps(call[c], r)
        /\ Held(call[c], r) \/ \A d \in Calls \ {c} : ~Serving(call, r.agentId, d)

\* advance(), on rows that the same transaction may have changed before.
LEMMA AdvanceStep ==
    ASSUME NEW c \in Calls, NEW row \in CallRow, NEW now \in Nat, NEW later \in Nat,
           call \in [Calls -> CallRow], latest \in [Agents -> LogEntry],
           RowInv(row), Keeps(call[c], row), Held(call[c], row),
           Advance(c, row, now, later)
    PROVE  RowChange(c) /\ latest' \in [Agents -> LogEntry]
<1> DEFINE q == Requeued(row)
<1>1. "PREANSWER_DEADLINE_EXCEEDED" \in Reasons
  BY DEF Reasons
<1>2. ASSUME row.state \in Preanswer
      PROVE  /\ q \in CallRow /\ RowInv(q) /\ Keeps(call[c], q) /\ Held(call[c], q)
             /\ q.state \in Preanswer
             /\ q.state = "QUEUED"
  <2>1. CASE OfferPending(row)
    <3>1. q = TimeOut(row)
      BY <2>1 DEF Requeued
    <3> HIDE DEF q
    <3>2. q \in CallRow /\ RowInv(q) /\ Keeps(row, q) /\ Held(row, q) /\ q.state = "QUEUED"
      BY <2>1, <3>1, TimeOutStep
    <3>3. Keeps(call[c], q) /\ Held(call[c], q)
      BY <3>2, Composed
    <3> QED
      BY <3>2, <3>3 DEF Preanswer
  <2>2. CASE ~OfferPending(row)
    <3>1. q = row
      BY <2>2 DEF Requeued
    <3>2. row.state = "QUEUED"
      BY <1>2, <2>2 DEF RowInv, RowCoherent, Preanswer
    <3> QED
      BY <1>2, <3>1, <3>2
  <2> QED
    BY <2>1, <2>2
<1>3. CASE SetCall(c, row) /\ UNCHANGED latest
  BY <1>3 DEF SetCall, RowChange
<1>4. CASE /\ row.state \in Preanswer
           /\ SetCall(c, Terminal(row, "PREANSWER_DEADLINE_EXCEEDED")) /\ UNCHANGED latest
  <2> DEFINE r == Terminal(row, "PREANSWER_DEADLINE_EXCEEDED")
  <2>1. r \in CallRow /\ RowInv(r) /\ Keeps(row, r) /\ Held(row, r)
    BY <1>1, <1>4, TerminalStep
  <2>2. Keeps(call[c], r) /\ Held(call[c], r)
    BY <2>1, Composed
  <2> QED
    BY <1>4, <2>1, <2>2 DEF SetCall, RowChange
<1>5. CASE row.state \in Preanswer /\ SetCall(c, q) /\ UNCHANGED latest
  BY <1>2, <1>5 DEF SetCall, RowChange
<1>6. CASE /\ row.state \in Preanswer
           /\ SetCall(c, Terminal(q, "PREANSWER_DEADLINE_EXCEEDED")) /\ UNCHANGED latest
  <2> DEFINE r == Terminal(q, "PREANSWER_DEADLINE_EXCEEDED")
  <2> HIDE DEF q
  <2>1. r \in CallRow /\ RowInv(r) /\ Keeps(q, r) /\ Held(q, r)
    BY <1>1, <1>2, <1>6, TerminalStep
  <2>2. Keeps(call[c], r) /\ Held(call[c], r)
    BY <1>2, <1>6, <2>1, Composed
  <2> QED
    BY <1>6, <2>1, <2>2 DEF SetCall, RowChange
<1>7. CASE /\ row.state \in Preanswer
           /\ \E a \in Agents : /\ Eligible(c, q, a)
                                /\ SetCall(c, Assign(q, a, later))
                                /\ WriteLog(a, "RESERVED", c)
  <2> HIDE DEF q
  <2>1. PICK a \in Agents : /\ Eligible(c, q, a)
                            /\ SetCall(c, Assign(q, a, later))
                            /\ WriteLog(a, "RESERVED", c)
    BY <1>7
  <2> DEFINE r == Assign(q, a, later)
  <2>2. q.outcome[a] \notin {"TIMED_OUT", "CANCELLED"}
    BY <2>1 DEF Eligible
  <2>3. r \in CallRow /\ RowInv(r) /\ Keeps(q, r) /\ r.agentId = a
    BY <1>2, <1>7, <2>2, AssignStep
  <2>4. Keeps(call[c], r)
    BY <1>2, <1>7, <2>3, Composed
  <2>5. \A d \in Calls \ {c} : ~Serving(call, a, d)
    BY <2>1 DEF Eligible, Serving
  <2>6. RowChange(c)
    BY <2>1, <2>3, <2>4, <2>5 DEF SetCall, RowChange
  <2>7. latest' \in [Agents -> LogEntry]
    BY <2>1 DEF WriteLog, LogEntry, AgentStates
  <2> QED
    BY <2>6, <2>7
<1> QED
  BY <1>3, <1>4, <1>5, <1>6, <1>7 DEF Advance

\* The invariant of every call.
RowsInv == \A c \in Calls : RowInv(call[c])

\* A step leaves the calls alone or changes the rows of one.
Shaped == UNCHANGED call \/ \E c \in Calls : RowChange(c)

\* What the transactions of handle() and tick() have in common.
LEMMA TransactionStep ==
    ASSUME TypeOK, NEW later \in clock .. clock + MaxLag, Elapse(later), Shaped,
           latest' \in [Agents -> LogEntry], UNCHANGED <<staged, executing>>
    PROVE  TypeOK' /\ Shaped
<1>1. clock' \in Nat
  BY ConstantsAssumption DEF TypeOK, Elapse
<1>2. call' \in [Calls -> CallRow]
  BY DEF TypeOK, Shaped, RowChange
<1> QED
  BY <1>1, <1>2 DEF TypeOK

LEMMA UnchangedRow ==
    ASSUME NEW c \in Calls, TypeOK, RowsInv
    PROVE  /\ call[c] \in CallRow /\ RowInv(call[c])
           /\ Keeps(call[c], call[c]) /\ Held(call[c], call[c])
BY DEF TypeOK, RowsInv, Keeps, Held

LEMMA CreatedStep ==
    ASSUME TypeOK, RowsInv, NEW c \in Calls, Created(c)
    PROVE  TypeOK' /\ Shaped
<1>1. PICK later \in clock .. clock + MaxLag :
        /\ Elapse(later)
        /\ IF call[c].state = "NONE"
           THEN /\ clock + PreanswerSec <= MaxClock
                /\ Advance(c, [NewCall EXCEPT !.state = "QUEUED",
                                              !.deadline = clock + PreanswerSec], clock, later)
           ELSE Advance(c, call[c], clock, later)
        /\ UNCHANGED <<staged, executing>>
  BY DEF Created
<1>2. /\ later \in Nat /\ clock \in Nat /\ clock + PreanswerSec \in Nat
      /\ call \in [Calls -> CallRow] /\ latest \in [Agents -> LogEntry]
  BY ConstantsAssumption DEF TypeOK
<1>3. RowChange(c) /\ latest' \in [Agents -> LogEntry]
  <2>1. CASE call[c].state = "NONE"
    <3> DEFINE r == [NewCall EXCEPT !.state = "QUEUED", !.deadline = clock + PreanswerSec]
    <3>1. Advance(c, r, clock, later)
      BY <1>1, <2>1
    <3>2. r \in CallRow /\ RowInv(r) /\ Keeps(call[c], r) /\ Held(call[c], r)
      BY <1>2, <2>1, FreshStep, UnchangedRow
    <3> HIDE DEF r
    <3> QED
      BY <1>2, <3>1, <3>2, AdvanceStep
  <2>2. CASE call[c].state # "NONE"
    BY <1>1, <1>2, <2>2, UnchangedRow, AdvanceStep
  <2> QED
    BY <2>1, <2>2
<1> QED
  BY <1>1, <1>3, TransactionStep DEF Shaped

LEMMA TickStep ==
    ASSUME TypeOK, RowsInv, NEW c \in Calls, Tick(c)
    PROVE  TypeOK' /\ Shaped
<1>1. PICK later \in clock .. clock + MaxLag :
        Elapse(later) /\ Advance(c, call[c], clock, later) /\ UNCHANGED <<staged, executing>>
  BY DEF Tick
<1>2. /\ later \in Nat /\ clock \in Nat
      /\ call \in [Calls -> CallRow] /\ latest \in [Agents -> LogEntry]
  BY ConstantsAssumption DEF TypeOK
<1>3. RowChange(c) /\ latest' \in [Agents -> LogEntry]
  BY <1>1, <1>2, UnchangedRow, AdvanceStep
<1> QED
  BY <1>1, <1>3, TransactionStep DEF Shaped

LEMMA AnswerStep ==
    ASSUME TypeOK, RowsInv, NEW c \in Calls, NEW o \in Agents, NEW bridge, Answer(c, o, bridge)
    PROVE  TypeOK' /\ Shaped
<1> DEFINE row == call[c]
           l == LateAnswer(row, o)
<1>1. PICK later \in clock .. clock + MaxLag :
        /\ Elapse(later) /\ UNCHANGED <<staged, executing>>
        /\ \/ SetCall(c, l) /\ UNCHANGED latest
           \/ UNCHANGED <<call, latest>>
           \/ Advance(c, l, clock, later)
           \/ /\ o = row.currentOffer /\ row.state = "ASSIGNED" /\ InTime(row, o, later)
              /\ SetCall(c, Answered(row, o, later)) /\ WriteLog(o, "BUSY", c)
           \/ Advance(c, row, later, later)
  BY DEF Answer
<1>2. /\ later \in Nat /\ clock \in Nat /\ o \in Offers
      /\ call \in [Calls -> CallRow] /\ latest \in [Agents -> LogEntry]
  BY ConstantsAssumption DEF TypeOK, Offers
<1>3. row \in CallRow /\ RowInv(row) /\ Keeps(row, row) /\ Held(row, row)
  BY UnchangedRow
<1> HIDE DEF row
<1>4. l \in CallRow /\ RowInv(l) /\ Keeps(row, l) /\ Held(row, l)
  BY <1>2, <1>3, LateAnswerStep
<1> HIDE DEF l
<1> USE DEF row
<1>5. Shaped /\ latest' \in [Agents -> LogEntry]
  <2>1. CASE SetCall(c, l) /\ UNCHANGED latest
    BY <1>2, <1>4, <2>1 DEF SetCall, RowChange, Shaped
  <2>2. CASE UNCHANGED <<call, latest>>
    BY <1>2, <2>2 DEF Shaped
  <2>3. CASE Advance(c, l, clock, later)
    BY <1>2, <1>4, <2>3, AdvanceStep DEF Shaped
  <2>4. CASE /\ o = row.currentOffer /\ row.state = "ASSIGNED" /\ InTime(row, o, later)
             /\ SetCall(c, Answered(row, o, later)) /\ WriteLog(o, "BUSY", c)
    <3> DEFINE r == Answered(row, row.currentOffer, later)
    <3>1. later < row.expiresAt[row.currentOffer]
      BY <2>4 DEF InTime
    <3>2. r \in CallRow /\ RowInv(r) /\ Keeps(row, r) /\ Held(row, r)
      BY <1>2, <1>3, <2>4, <3>1, AnsweredStep
    <3>3. call' = [call EXCEPT ![c] = r]
      BY <2>4 DEF SetCall
    <3> HIDE DEF r
    <3>4. Shaped
      BY <3>2, <3>3 DEF RowChange, Shaped
    <3>5. latest' \in [Agents -> LogEntry]
      BY <1>2, <2>4 DEF WriteLog, LogEntry, AgentStates
    <3> QED
      BY <3>4, <3>5
  <2>5. CASE Advance(c, row, later, later)
    BY <1>2, <1>3, <2>5, AdvanceStep DEF Shaped
  <2> QED
    BY <1>1, <2>1, <2>2, <2>3, <2>4, <2>5
<1> QED
  BY <1>1, <1>5, TransactionStep

LEMMA EndCallStep ==
    ASSUME TypeOK, RowsInv, NEW c \in Calls, EndCall(c)
    PROVE  Shaped /\ latest' \in [Agents -> LogEntry]
<1>1. call \in [Calls -> CallRow] /\ latest \in [Agents -> LogEntry]
  BY DEF TypeOK
<1>2. call[c] \in CallRow /\ RowInv(call[c])
  BY UnchangedRow
<1>3. CASE /\ call[c].state \in Preanswer
           /\ SetCall(c, Terminal(call[c], "CALLER_CANCELLED")) /\ UNCHANGED latest
  <2> DEFINE r == Terminal(call[c], "CALLER_CANCELLED")
  <2>1. r \in CallRow /\ RowInv(r) /\ Keeps(call[c], r) /\ Held(call[c], r)
    BY <1>2, <1>3, TerminalStep DEF Reasons
  <2>2. call' = [call EXCEPT ![c] = r]
    BY <1>3 DEF SetCall
  <2> HIDE DEF r
  <2> QED
    BY <1>1, <1>3, <2>1, <2>2 DEF RowChange, Shaped
<1>4. CASE /\ call[c].state = "ACTIVE" /\ call[c].currentOffer # NoAgent
           /\ SetCall(c, Ended(call[c])) /\ WriteLog(call[c].currentOffer, "ACW", c)
  <2> DEFINE r == Ended(call[c])
  <2>1. r \in CallRow /\ RowInv(r) /\ Keeps(call[c], r) /\ Held(call[c], r)
    BY <1>2, <1>4, EndedStep
  <2>2. call' = [call EXCEPT ![c] = r]
    BY <1>4 DEF SetCall
  <2> HIDE DEF r
  <2>3. Shaped
    BY <2>1, <2>2 DEF RowChange, Shaped
  <2>4. latest' \in [Agents -> LogEntry]
    BY <1>1, <1>4 DEF WriteLog, LogEntry, AgentStates
  <2> QED
    BY <2>3, <2>4
<1> QED
  BY <1>1, <1>3, <1>4 DEF EndCall, Shaped

LEMMA HangupStep ==
    ASSUME TypeOK, RowsInv, NEW c \in Calls, NEW o \in Offers, Hangup(c, o)
    PROVE  TypeOK' /\ Shaped
<1>1. PICK later \in clock .. clock + MaxLag :
        /\ Elapse(later) /\ UNCHANGED <<staged, executing>>
        /\ \/ UNCHANGED <<call, latest>>
           \/ Advance(c, call[c], clock, later)
           \/ EndCall(c)
  BY DEF Hangup
<1>2. /\ later \in Nat /\ clock \in Nat
      /\ call \in [Calls -> CallRow] /\ latest \in [Agents -> LogEntry]
  BY ConstantsAssumption DEF TypeOK
<1>3. Shaped /\ latest' \in [Agents -> LogEntry]
  <2>1. CASE UNCHANGED <<call, latest>>
    BY <1>2, <2>1 DEF Shaped
  <2>2. CASE Advance(c, call[c], clock, later)
    BY <1>2, <2>2, UnchangedRow, AdvanceStep DEF Shaped
  <2>3. CASE EndCall(c)
    BY <2>3, EndCallStep
  <2> QED
    BY <1>1, <2>1, <2>2, <2>3
<1> QED
  BY <1>1, <1>3, TransactionStep

LEMMA ReconcileStep ==
    ASSUME TypeOK, RowsInv, NEW c \in Calls, ReconcileActive(c)
    PROVE  TypeOK' /\ Shaped
<1>1. Shaped /\ latest' \in [Agents -> LogEntry]
  BY EndCallStep DEF ReconcileActive
<1> QED
  BY <1>1 DEF ReconcileActive, TypeOK, Shaped, RowChange

LEMMA DropObsoleteStep ==
    ASSUME TypeOK, RowsInv, NEW c \in Calls, NEW o \in Offers, NEW t \in CmdTypes,
           DropObsolete(c, o, t)
    PROVE  TypeOK' /\ Shaped
<1> DEFINE r == [call[c] EXCEPT !.cmd[o][t] = "OBSOLETE"]
<1>1. r \in CallRow /\ RowInv(r) /\ Keeps(call[c], r) /\ Held(call[c], r)
  BY UnchangedRow, CommandStep DEF Statuses
<1>2. call' = [call EXCEPT ![c] = r]
  BY DEF DropObsolete, TypeOK
<1> HIDE DEF r
<1>3. Shaped
  BY <1>1, <1>2 DEF RowChange, Shaped
<1> QED
  BY <1>1, <1>2, <1>3 DEF DropObsolete, TypeOK

LEMMA EndExecuteStep ==
    ASSUME TypeOK, RowsInv, NEW c \in Calls, NEW o \in Offers, NEW t \in CmdTypes,
           NEW confirmed \in BOOLEAN, EndExecute(c, o, t, confirmed)
    PROVE  TypeOK' /\ Shaped
<1>1. PICK s \in Statuses : call' = [call EXCEPT ![c].cmd[o][t] = s]
  <2>1. call[c].cmd[o][t] \in Statuses /\ "CONFIRMED" \in Statuses
    BY DEF TypeOK, CallRow, Statuses
  <2>2. CASE confirmed /\ call[c].cmd[o][t] = "PENDING"
    BY <2>1, <2>2 DEF EndExecute
  <2>3. CASE ~(confirmed /\ call[c].cmd[o][t] = "PENDING")
    <3>1. call' = [call EXCEPT ![c].cmd[o][t] = call[c].cmd[o][t]]
      BY <2>3 DEF EndExecute
    <3> QED
      BY <2>1, <3>1
  <2> QED
    BY <2>2, <2>3
<1> DEFINE r == [call[c] EXCEPT !.cmd[o][t] = s]
<1>2. r \in CallRow /\ RowInv(r) /\ Keeps(call[c], r) /\ Held(call[c], r)
  BY UnchangedRow, CommandStep
<1>3. call' = [call EXCEPT ![c] = r]
  BY <1>1 DEF TypeOK
<1> HIDE DEF r
<1>4. Shaped
  BY <1>2, <1>3 DEF RowChange, Shaped
<1>5. latest' \in [Agents -> LogEntry]
  <2>1. CASE UNCHANGED latest
    BY <2>1 DEF TypeOK
  <2>2. CASE WriteLog(o, "AVAILABLE", c)
    BY <2>2 DEF WriteLog, TypeOK, LogEntry, AgentStates
  <2> QED
    BY <2>1, <2>2 DEF EndExecute, Release
<1>6. /\ clock' \in Nat /\ staged' \in SUBSET (Agents \X {"OFFLINE", "AVAILABLE"})
      /\ executing' \in [Calls -> SUBSET (Offers \X CmdTypes)]
  BY DEF EndExecute, TypeOK
<1> QED
  BY <1>2, <1>3, <1>4, <1>5, <1>6 DEF TypeOK

LEMMA SubmitWrapupStep ==
    ASSUME TypeOK, RowsInv, NEW c \in Calls, SubmitWrapup(c)
    PROVE  TypeOK' /\ Shaped
<1> DEFINE r == [call[c] EXCEPT !.state = "COMPLETED"]
<1>1. r \in CallRow /\ RowInv(r) /\ Keeps(call[c], r) /\ Held(call[c], r)
  BY UnchangedRow, CompletedStep DEF SubmitWrapup
<1>2. call' = [call EXCEPT ![c] = r]
  BY DEF SubmitWrapup, TypeOK
<1> HIDE DEF r
<1>3. Shaped
  BY <1>1, <1>2 DEF RowChange, Shaped
<1>4. latest' \in [Agents -> LogEntry]
  BY DEF SubmitWrapup, WriteLog, TypeOK, LogEntry, AgentStates
<1> QED
  BY <1>1, <1>2, <1>3, <1>4 DEF SubmitWrapup, TypeOK

\* Steps that do not touch the calls.
LEMMA OtherSteps ==
    ASSUME TypeOK,
           \/ PassTime \/ Crash
           \/ \E c \in Calls, o \in Offers, t \in CmdTypes : BeginExecute(c, o, t)
           \/ \E a \in Agents : SelfAvailable(a)
           \/ \E a \in Agents, s \in {"OFFLINE", "AVAILABLE"} : Stage(a, s) \/ Land(a, s)
    PROVE  TypeOK' /\ Shaped
<1>1. CASE PassTime
  BY <1>1 DEF PassTime, TypeOK, Shaped
<1>2. CASE Crash
  BY <1>2 DEF Crash, TypeOK, Shaped
<1>3. ASSUME NEW c \in Calls, NEW o \in Offers, NEW t \in CmdTypes, BeginExecute(c, o, t)
      PROVE  TypeOK' /\ Shaped
  BY <1>3 DEF BeginExecute, TypeOK, Shaped
<1>4. ASSUME NEW a \in Agents, SelfAvailable(a)
      PROVE  TypeOK' /\ Shaped
  BY <1>4 DEF SelfAvailable, WriteLog, LogEntry, AgentStates, TypeOK, Shaped
<1>5. ASSUME NEW a \in Agents, NEW s \in {"OFFLINE", "AVAILABLE"}, Stage(a, s) \/ Land(a, s)
      PROVE  TypeOK' /\ Shaped
  BY <1>5 DEF Stage, Land, WriteLog, LogEntry, AgentStates, TypeOK, Shaped
<1> QED
  BY <1>1, <1>2, <1>3, <1>4, <1>5

----------------------------------------------------------------------------
(* The theorems *)

\* Every step keeps the types and changes at most one call, lawfully.
LEMMA StepShape ==
    ASSUME TypeOK, RowsInv, [Next]_vars
    PROVE  TypeOK' /\ Shaped
<1>1. CASE UNCHANGED vars
  BY <1>1 DEF vars, TypeOK, Shaped
<1>2. ASSUME NEW c \in Calls, Created(c) \/ Tick(c) \/ ReconcileActive(c) \/ SubmitWrapup(c)
      PROVE  TypeOK' /\ Shaped
  BY <1>2, CreatedStep, TickStep, ReconcileStep, SubmitWrapupStep
<1>3. ASSUME NEW c \in Calls, NEW a \in Agents, Answer(c, a, FALSE) \/ Bridge(c, a)
      PROVE  TypeOK' /\ Shaped
  BY <1>3, AnswerStep DEF Bridge
<1>4. ASSUME NEW c \in Calls, NEW o \in Offers, Hangup(c, o)
      PROVE  TypeOK' /\ Shaped
  BY <1>4, HangupStep
<1>5. ASSUME NEW c \in Calls, NEW o \in Offers, NEW t \in CmdTypes, DropObsolete(c, o, t)
      PROVE  TypeOK' /\ Shaped
  BY <1>5, DropObsoleteStep
<1>6. ASSUME NEW c \in Calls, NEW o \in Offers, NEW t \in CmdTypes,
             NEW confirmed \in BOOLEAN, EndExecute(c, o, t, confirmed)
      PROVE  TypeOK' /\ Shaped
  BY <1>6, EndExecuteStep
<1> QED
  BY <1>1, <1>2, <1>3, <1>4, <1>5, <1>6, OtherSteps DEF Next

LEMMA InitInv == Init => TypeOK /\ RowsInv /\ AgentExclusive
<1> SUFFICES ASSUME Init PROVE TypeOK /\ RowsInv /\ AgentExclusive
  OBVIOUS
<1>1. NewCall \in CallRow
  BY DEF NewCall, CallRow, States, Offers, Outcomes, Statuses, Reasons
<1>2. TypeOK
  BY <1>1 DEF Init, TypeOK, LogEntry, AgentStates
<1>3. RowInv(NewCall)
  BY DEF NewCall, RowInv, RowCoherent, RowTimely, RowHistory, OfferPending, Live, Offers
<1>4. RowsInv
  BY <1>3 DEF Init, RowsInv
<1>5. AgentExclusive
  BY DEF Init, AgentExclusive, Serving, NewCall, Live
<1> QED
  BY <1>2, <1>4, <1>5

LEMMA RowsPreserved ==
    ASSUME TypeOK, RowsInv, Shaped
    PROVE  RowsInv'
BY DEF TypeOK, RowsInv, Shaped, RowChange

LEMMA ExclusivePreserved ==
    ASSUME TypeOK, AgentExclusive, Shaped
    PROVE  AgentExclusive'
<1>1. CASE UNCHANGED call
  BY <1>1 DEF AgentExclusive, Serving
<1>2. ASSUME NEW c \in Calls, RowChange(c)
      PROVE  AgentExclusive'
  <2>1. PICK r \in CallRow :
          /\ call' = [call EXCEPT ![c] = r]
          /\ Held(call[c], r) \/ \A d \in Calls \ {c} : ~Serving(call, r.agentId, d)
    BY <1>2 DEF RowChange
  <2>2. call'[c] = r /\ \A d \in Calls \ {c} : call'[d] = call[d]
    BY <2>1 DEF TypeOK
  <2>3. CASE Held(call[c], r)
    BY <2>2, <2>3 DEF AgentExclusive, Serving, Held
  <2>4. CASE \A d \in Calls \ {c} : ~Serving(call, r.agentId, d)
    BY <2>2, <2>4 DEF AgentExclusive, Serving
  <2> QED
    BY <2>1, <2>3, <2>4
<1> QED
  BY <1>1, <1>2 DEF Shaped

\* The inductive invariant.
Inv == TypeOK /\ RowsInv /\ AgentExclusive

\* Every reachable state satisfies the inductive invariant: the transactions
\* of handle(), tick(), reconcileActive() and dispatch(), in any interleaving.
THEOREM Invariance == Spec => []Inv
<1>1. Init => Inv
  BY InitInv DEF Inv
<1>2. Inv /\ [Next]_vars => Inv'
  BY StepShape, RowsPreserved, ExclusivePreserved DEF Inv
<1> QED
  BY <1>1, <1>2, PTL DEF Spec

\* The variables keep their types: the tables only ever hold rows that their
\* CHECK constraints allow.
THEOREM TypeCorrect == Spec => []TypeOK
<1>1. Inv => TypeOK
  BY DEF Inv
<1> QED
  BY <1>1, Invariance, PTL

\* For any number of calls and agents, no agent is given a second call while
\* they hold one (the eligibility query of advance() under the tenant lock).
THEOREM Exclusive == Spec => []AgentExclusive
<1>1. Inv => AgentExclusive
  BY DEF Inv
<1> QED
  BY <1>1, Invariance, PTL

\* Interaction, current offer and outcomes always agree.
THEOREM Coherent == Spec => []OfferCoherent
<1>1. Inv => OfferCoherent
  BY DEF Inv, RowsInv, RowInv, OfferCoherent
<1> QED
  BY <1>1, Invariance, PTL

\* Nobody answers an expired offer, for any timeouts and however long the
\* transaction of answer() takes.
THEOREM InTimeAlways == Spec => []AnsweredInTime
<1>1. Inv => AnsweredInTime
  BY DEF Inv, RowsInv, RowInv, RowTimely, AnsweredInTime
<1> QED
  BY <1>1, Invariance, PTL

\* Outcomes and terminal reasons are never rewritten.
THEOREM Final == Spec => HistoryFinal
<1>1. Inv /\ [Next]_vars =>
        [\A c \in Calls :
          /\ \A a \in Agents : call[c].outcome[a] \in {"TIMED_OUT", "CANCELLED", "ENDED"} =>
                                 call'[c].outcome[a] = call[c].outcome[a]
          /\ call[c].terminalReason # "NONE" =>
                 call'[c].terminalReason = call[c].terminalReason]_vars
  <2> SUFFICES ASSUME Inv, [Next]_vars
               PROVE  \A c \in Calls :
                        /\ \A a \in Agents : call[c].outcome[a] \in {"TIMED_OUT", "CANCELLED", "ENDED"} =>
                                               call'[c].outcome[a] = call[c].outcome[a]
                        /\ call[c].terminalReason # "NONE" =>
                               call'[c].terminalReason = call[c].terminalReason
    OBVIOUS
  <2>1. Shaped /\ call \in [Calls -> CallRow]
    BY StepShape DEF Inv, TypeOK
  <2> QED
    BY <2>1 DEF Shaped, RowChange, Keeps
<1> QED
  BY <1>1, Invariance, PTL DEF Spec, HistoryFinal

=============================================================================
