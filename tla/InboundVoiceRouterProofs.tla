---------------------- MODULE InboundVoiceRouterProofs ----------------------
(***************************************************************************)
(* Theorems about InboundVoiceRouter, for every set of calls, agents and   *)
(* overlapping handlers.                                                   *)
(***************************************************************************)
EXTENDS InboundVoiceRouter, FiniteSetTheorems, TLAPS

-----------------------------------------------------------------------------
(* The inductive invariant *)

Requests ==
  [op : {"idle", "created", "answered", "hangup", "input", "resolve", "decline", "close"},
   i : Calls \cup {None}, event : BOOLEAN, state : States, agent : Agents \cup {None},
   ringing : BOOLEAN, missed : BOOLEAN, cand : SUBSET Agents]

Rounds ==
  [pc : {"idle", "offers", "query", "reoffer", "requeues", "assign", "waits"},
   todo : SUBSET (Calls \cup (Calls \X (Agents \cup {None}))), i : Calls \cup {None},
   cand : SUBSET Agents, locks : SUBSET Agents,
   rows : [Calls -> Rows \cup {None}], logs : [Agents -> Entries \cup {None}]]

Types ==
  /\ policy \in [timeout : Timeouts, wait : Waits]
  /\ call \in [Calls -> Rows]
  /\ latest \in [Agents -> Entries]
  /\ phone \in [Calls -> {"NONE", "UP", "GONE", "HEARD"}]
  /\ asked \subseteq Calls /\ stale \subseteq Agents /\ faults \in 0..MaxFaults
  /\ round \in Rounds
  /\ req \in [Handlers -> Requests]

\* What a handler has in hand, over these rows: its kind of call, and, for a
\* call it is about to create, that nobody has created it.
Ready(rows, r) ==
  /\ r.op \notin {"idle", "close"} => r.i \in Calls
  /\ r.op = "created" => r.event /\ r.i \notin Ivr /\ rows[r.i].state = "NONE"
  /\ r.op = "hangup" => r.state \in {"QUEUED", "ASSIGNED", "ACTIVE"}
  /\ r.op \in {"input", "resolve"} => r.i \in Ivr
  /\ r.op = "close" => r.agent \in Agents

\* One handler creates a call.
OneCreator ==
  \A g, h \in Handlers :
    req[g].op = "created" /\ req[h].op = "created" /\ req[g].i = req[h].i => g = h

\* The columns of a row of call i agree.
Coherent(i, row) ==
  /\ row.state \in {"NONE", "QUEUED"} => row.agent = None
  /\ i \notin Ivr =>
       /\ row.offer # "NONE" <=> row.state = "ASSIGNED"
       /\ row.requeue # "NONE" => row.state = "QUEUED"
       /\ row.state \in {"ASSIGNED", "ACTIVE", "WRAPUP", "COMPLETED"} => row.agent # None
       /\ row.ivr = "NONE"

\* A row the round has written: it was waiting or on offer and, locked, still
\* is; the round holds the agent it gave the call to.
Written(i) ==
  LET row == round.rows[i] IN
  row # None =>
    /\ Coherent(i, row)
    /\ row.state \in {"QUEUED", "ASSIGNED", "ABANDONED"}
    /\ row.state = "ASSIGNED" => row.agent \in round.locks
    /\ call[i].state \in {"QUEUED", "ASSIGNED"}

\* What the round works off.
RoundInv ==
  /\ round.pc \in {"offers", "query", "reoffer"} =>
       round.todo \subseteq Calls \X (Agents \cup {None})
  /\ round.pc \in {"requeues", "assign", "waits"} => round.todo \subseteq Calls
  /\ round.pc \in {"query", "reoffer", "assign"} => round.i \in Calls
  /\ round.pc \in {"query", "reoffer"} =>
       round.rows[round.i] # None /\ round.rows[round.i].state = "QUEUED"

ServesIn(rows, a, i) == rows[i].agent = a /\ rows[i].state \in Live

\* The log of an agent who takes calls or will again.
Free == {"AVAILABLE", "COOLING", "COOLED"}

\* Rows and log agree about agent a: one call at most, none while the log
\* calls the agent free, and a reservation is an offer.
Sound(rows, logs, a) ==
  /\ \A i, j \in Calls : ServesIn(rows, a, i) /\ ServesIn(rows, a, j) => i = j
  /\ logs[a].state \in Free => \A i \in Calls : ~ServesIn(rows, a, i)
  /\ logs[a].state = "RESERVED" =>
       /\ logs[a].call \in Calls
       /\ rows[logs[a].call].state = "ASSIGNED" /\ rows[logs[a].call].agent = a

\* What the round sees: its own writes over what is committed.
SeenRows == [i \in Calls |-> Row(i)]
SeenLogs == [a \in Agents |-> LogOf(a)]

\* They agree in what is committed, should the round fail, and in what the
\* round sees, should it commit.
AgentInv ==
  \A a \in Agents \ stale : Sound(call, latest, a) /\ Sound(SeenRows, SeenLogs, a)

RouterInv ==
  /\ Types
  /\ \A h \in Handlers : Ready(call, req[h])
  /\ OneCreator
  /\ \A i \in Calls : Coherent(i, call[i]) /\ Written(i)
  /\ RoundInv
  /\ AgentInv

-----------------------------------------------------------------------------
(* Rows and log of one agent *)

Has(row, a) == row.agent = a /\ row.state \in Live

Alike(x, y) == x.state = y.state /\ x.agent = y.agent

ServesNone(rows, a) == \A i \in Calls : ~ServesIn(rows, a, i)

\* Row i and the agent's log change together, in one of the ways in which a
\* call is given, kept or given up, or not at all as far as the agent goes.
Change(rows, i, a, y, p, q) ==
  LET x == rows[i] IN
  \/ q = p /\ ~Has(x, a) /\ ~Has(y, a)
  \/ Alike(x, y) /\ (q = p \/ q.state \notin Free \cup {"RESERVED"})
  \/ Has(x, a) /\ Has(y, a) /\ q.state \notin Free \cup {"RESERVED"}
  \/ Has(x, a) /\ ~Has(y, a) /\ q.state # "RESERVED"
  \/ /\ ServesNone(rows, a) /\ y.agent = a /\ y.state = "ASSIGNED"
     /\ q.state = "RESERVED" /\ q.call = i

LEMMA SoundChange ==
  ASSUME NEW c, NEW d, NEW l, NEW m, NEW a, NEW i \in Calls, Sound(c, l, a),
         \A j \in Calls \ {i} : Alike(c[j], d[j]),
         Change(c, i, a, d[i], l[a], m[a])
  PROVE  Sound(d, m, a)
<1> DEFINE x == c[i]
           y == d[i]
<1>0. \A j \in Calls \ {i} : ServesIn(d, a, j) <=> ServesIn(c, a, j)
  BY DEF Alike, ServesIn
<1>1. CASE m[a] = l[a] /\ ~Has(x, a) /\ ~Has(y, a)
  <2>1. \A j \in Calls : ServesIn(d, a, j) <=> ServesIn(c, a, j)
    BY <1>0, <1>1 DEF ServesIn, Has
  <2>2. l[a].state = "RESERVED" => l[a].call # i
    BY <1>1 DEF Sound, Has, Live
  <2> QED
    BY <1>1, <2>1, <2>2 DEF Sound, Alike
<1>2. CASE Alike(x, y) /\ (m[a] = l[a] \/ m[a].state \notin Free \cup {"RESERVED"})
  <2>1. \A j \in Calls : Alike(c[j], d[j])
    BY <1>2
  <2>2. \A j \in Calls : ServesIn(d, a, j) <=> ServesIn(c, a, j)
    BY <2>1 DEF Alike, ServesIn
  <2> QED
    BY <1>2, <2>1, <2>2 DEF Sound, Alike
<1>3. CASE Has(x, a) /\ Has(y, a) /\ m[a].state \notin Free \cup {"RESERVED"}
  <2>1. \A j \in Calls : ServesIn(d, a, j) <=> ServesIn(c, a, j)
    BY <1>0, <1>3 DEF ServesIn, Has
  <2> QED
    BY <1>3, <2>1 DEF Sound
<1>4. CASE Has(x, a) /\ ~Has(y, a) /\ m[a].state # "RESERVED"
  <2>1. ServesIn(c, a, i) /\ ~ServesIn(d, a, i)
    BY <1>4 DEF ServesIn, Has
  <2>2. ServesNone(d, a)
    BY <1>0, <2>1 DEF ServesNone, Sound
  <2> QED
    BY <1>4, <2>2 DEF Sound, ServesNone
<1>5. CASE /\ ServesNone(c, a) /\ y.agent = a /\ y.state = "ASSIGNED"
           /\ m[a].state = "RESERVED" /\ m[a].call = i
  <2>1. \A j \in Calls \ {i} : ~ServesIn(d, a, j)
    BY <1>0, <1>5 DEF ServesNone
  <2> QED
    BY <1>5, <2>1 DEF Sound, Free
<1> QED
  BY <1>1, <1>2, <1>3, <1>4, <1>5 DEF Change

\* Only the log changes.
LEMMA SoundLog ==
  ASSUME NEW c, NEW d, NEW l, NEW m, NEW a, Sound(c, l, a),
         \A j \in Calls : Alike(c[j], d[j]),
         \/ m[a] = l[a]
         \/ m[a].state \notin Free \cup {"RESERVED"}
         \/ m[a].state # "RESERVED" /\ (l[a].state \in Free \/ ServesNone(c, a))
  PROVE  Sound(d, m, a)
<1>1. \A j \in Calls : ServesIn(d, a, j) <=> ServesIn(c, a, j)
  BY DEF Alike, ServesIn
<1> QED
  BY <1>1 DEF Sound, Alike, ServesNone

-----------------------------------------------------------------------------
(* What the round sees *)

LEMMA Seen ==
  ASSUME Types
  PROVE  /\ SeenRows \in [Calls -> Rows] /\ SeenLogs \in [Agents -> Entries]
         /\ \A i \in Calls : SeenRows[i] = Row(i)
         /\ \A i \in Calls : round.rows[i] = None => SeenRows[i] = call[i]
         /\ \A i \in Calls : round.rows[i] # None => SeenRows[i] = round.rows[i]
         /\ \A a \in Agents : SeenLogs[a] = LogOf(a)
         /\ \A a \in Agents : round.logs[a] = None => SeenLogs[a] = latest[a]
         /\ \A a \in Agents : round.logs[a] # None => SeenLogs[a] = round.logs[a]
<1>1. round.rows \in [Calls -> Rows \cup {None}] /\ round.logs \in [Agents -> Entries \cup {None}]
  BY DEF Types, Rounds
<1> QED
  BY <1>1 DEF Types, SeenRows, SeenLogs, Row, LogOf

\* An agent the round has not chosen serves in its eyes only what is committed.
LEMMA Unlocked ==
  ASSUME RouterInv, NEW a \in Agents, a \notin round.locks, ServesNone(call, a)
  PROVE  ServesNone(SeenRows, a)
<1> SUFFICES ASSUME NEW i \in Calls, ServesIn(SeenRows, a, i) PROVE FALSE
  BY DEF ServesNone
<1>1. CASE round.rows[i] = None
  <2>1. SeenRows[i] = call[i]
    BY <1>1, Seen DEF RouterInv
  <2> QED
    BY <2>1 DEF ServesNone, ServesIn
<1>2. CASE round.rows[i] # None
  <2>1. SeenRows[i] = round.rows[i] /\ Written(i)
    BY <1>2, Seen DEF RouterInv
  <2>2. round.rows[i].state = "ASSIGNED" /\ round.rows[i].agent = a
    BY <1>2, <2>1 DEF Written, ServesIn, Live
  <2> QED
    BY <1>2, <2>1, <2>2 DEF Written
<1> QED
  BY <1>1, <1>2

-----------------------------------------------------------------------------
(* The parts of the invariant under a change *)

RowsInv == \A i \in Calls : Coherent(i, call[i]) /\ Written(i)

HandlersInv == (\A h \in Handlers : Ready(call, req[h])) /\ OneCreator

\* A handler goes from what it had in hand to r.
LEMMA OneHandler ==
  ASSUME RouterInv, NEW h \in Handlers, NEW r \in Requests,
         req' = [req EXCEPT ![h] = r], Ready(call', r),
         \A g \in Handlers \ {h} :
           req[g].op = "created" => r.op # "created" \/ req[g].i # r.i,
         \A g \in Handlers \ {h} :
           req[g].op = "created" => call'[req[g].i].state = "NONE"
  PROVE  HandlersInv' /\ req' \in [Handlers -> Requests]
<1>0. req \in [Handlers -> Requests] /\ OneCreator /\ \A g \in Handlers : Ready(call, req[g])
  BY DEF RouterInv, Types
<1>1. req' \in [Handlers -> Requests]
  BY <1>0
<1>2. req'[h] = r /\ \A g \in Handlers \ {h} : req'[g] = req[g]
  BY <1>0
<1>3. \A g \in Handlers : Ready(call', req'[g])
  BY <1>0, <1>2 DEF Ready
<1>4. OneCreator'
  BY <1>0, <1>2 DEF OneCreator
<1> QED
  BY <1>1, <1>3, <1>4 DEF HandlersInv

\* The handler is done.
LEMMA HandlerDone ==
  ASSUME RouterInv, NEW h \in Handlers, Done(h),
         \A g \in Handlers \ {h} :
           req[g].op = "created" => call'[req[g].i].state = "NONE"
  PROVE  HandlersInv' /\ req' \in [Handlers -> Requests]
<1>1. NoRequest \in Requests
  BY DEF NoRequest, Requests, States
<1>2. Ready(call', NoRequest) /\ NoRequest.op # "created"
  BY DEF Ready, NoRequest
<1>3. req' = [req EXCEPT ![h] = NoRequest]
  BY DEF Done
<1> QED
  BY <1>1, <1>2, <1>3, OneHandler

\* No handler moves.
LEMMA NoHandler ==
  ASSUME RouterInv, req' = req,
         \A g \in Handlers : req[g].op = "created" => call'[req[g].i].state = "NONE"
  PROVE  HandlersInv' /\ req' \in [Handlers -> Requests]
<1>0. req \in [Handlers -> Requests] /\ OneCreator /\ \A g \in Handlers : Ready(call, req[g])
  BY DEF RouterInv, Types
<1>1. \A g \in Handlers : Ready(call', req'[g])
  BY <1>0 DEF Ready
<1> QED
  BY <1>0, <1>1 DEF HandlersInv, OneCreator

\* A row that exists, or leads through the IVR, is created by nobody.
LEMMA OthersCreate ==
  ASSUME RouterInv, NEW i \in Calls, NEW row, Write(i, row),
         call[i].state # "NONE" \/ i \in Ivr,
         NEW g \in Handlers, req[g].op = "created"
  PROVE  call'[req[g].i].state = "NONE"
<1>1. Ready(call, req[g]) /\ call \in [Calls -> Rows]
  BY DEF RouterInv, Types
<1>2. req[g].i \in Calls \ {i} /\ call[req[g].i].state = "NONE"
  BY <1>1 DEF Ready
<1> QED
  BY <1>1, <1>2 DEF Write

LEMMA TellTypes ==
  ASSUME RouterInv, NEW calls, calls \subseteq Calls, Tell(calls)
  PROVE  asked' \subseteq Calls /\ faults' \in 0..MaxFaults
  BY RouterConstants DEF RouterInv, Types, Tell

\* A row that the round has not written, or whose state stays, may change.
LEMMA RowWritten ==
  ASSUME RouterInv, NEW i \in Calls, NEW row \in Rows, Write(i, row), Coherent(i, row),
         round.rows[i] = None \/ row.state = call[i].state,
         round'.rows = round.rows, round'.locks = round.locks
  PROVE  RowsInv' /\ call' \in [Calls -> Rows]
<1>0. call \in [Calls -> Rows] /\ RowsInv
  BY DEF RouterInv, Types, RowsInv
<1>1. call' \in [Calls -> Rows] /\ call'[i] = row /\ \A j \in Calls \ {i} : call'[j] = call[j]
  BY <1>0 DEF Write
<1>2. \A j \in Calls : Coherent(j, call'[j])
  BY <1>0, <1>1 DEF RowsInv
<1>3. ASSUME NEW j \in Calls PROVE Written(j)'
  <2>1. Written(j)
    BY <1>0 DEF RowsInv
  <2>2. round.rows[j] # None => call'[j].state = call[j].state
    BY <1>1
  <2> QED
    BY <2>1, <2>2 DEF Written
<1> QED
  BY <1>1, <1>2, <1>3 DEF RowsInv

\* What an entry of agent b does to the log and to the round.
LEMMA LogWritten ==
  ASSUME RouterInv, NEW b \in Agents \cup {None}, NEW e \in Entries, Enter(b, e)
  PROVE  /\ latest' \in [Agents -> Entries] /\ round' \in Rounds
         /\ round' = [round EXCEPT !.logs = round'.logs]
         /\ round'.rows = round.rows /\ round'.locks = round.locks
         /\ RoundInv'
         /\ \A a \in Agents \ {b} : latest'[a] = latest[a] /\ round'.logs[a] = round.logs[a]
         /\ b # None => latest'[b] = e /\ round'.logs[b] = None
<1>0. /\ latest \in [Agents -> Entries] /\ round \in Rounds
      /\ round.logs \in [Agents -> Entries \cup {None}] /\ RoundInv
  BY DEF RouterInv, Types, Rounds
<1>1. CASE b = None
  <2>1. latest' = latest /\ round' = round
    BY <1>1 DEF Enter
  <2>2. round = [round EXCEPT !.logs = round.logs]
    BY <1>0 DEF Rounds
  <2> QED
    BY <1>0, <1>1, <2>1, <2>2 DEF RoundInv
<1>2. CASE b # None
  <2>1. /\ b \in Agents /\ latest' = [latest EXCEPT ![b] = e]
        /\ round' = [round EXCEPT !.logs[b] = None]
    BY <1>2 DEF Enter
  <2>2. round' = [round EXCEPT !.logs = [round.logs EXCEPT ![b] = None]]
    BY <1>0, <2>1 DEF Rounds
  <2>3. [round.logs EXCEPT ![b] = None] \in [Agents -> Entries \cup {None}]
    BY <1>0
  <2>4. /\ round' \in Rounds /\ round'.logs = [round.logs EXCEPT ![b] = None]
        /\ round'.pc = round.pc /\ round'.todo = round.todo /\ round'.i = round.i
        /\ round'.rows = round.rows /\ round'.locks = round.locks
    BY <1>0, <2>2, <2>3 DEF Rounds
  <2>5. RoundInv'
    BY <1>0, <2>4 DEF RoundInv
  <2> QED
    BY <1>0, <2>1, <2>2, <2>4, <2>5
<1> QED
  BY <1>1, <1>2

\* How a committed write to row i, with an entry e of agent b, looks to agent a.
Fair(i, row, b, e, a) ==
  LET x == call[i] IN
  \/ a # b /\ (Alike(x, row) \/ (~Has(x, a) /\ ~Has(row, a)))
  \/ a = b /\ Has(x, a) /\ Has(row, a) /\ e.state \notin Free \cup {"RESERVED"}
  \/ a = b /\ Has(x, a) /\ ~Has(row, a) /\ e.state # "RESERVED"
  \/ /\ a = b /\ latest[a].state = "AVAILABLE" /\ a \notin round.locks
     /\ row.agent = a /\ row.state = "ASSIGNED" /\ e.state = "RESERVED" /\ e.call = i

\* Committed write to a row the round has not written.
LEMMA CommittedWrite ==
  ASSUME RouterInv, NEW i \in Calls, NEW row \in Rows, Write(i, row),
         NEW b \in Agents \cup {None}, NEW e \in Entries, Enter(b, e),
         Coherent(i, row), round.rows[i] = None, stale \subseteq stale',
         \A a \in Agents \ stale' : Fair(i, row, b, e, a)
  PROVE  /\ AgentInv' /\ RowsInv' /\ RoundInv' /\ call' \in [Calls -> Rows]
         /\ latest' \in [Agents -> Entries] /\ round' \in Rounds
<1>1. RowsInv' /\ call' \in [Calls -> Rows]
  BY LogWritten, RowWritten
<1>2. latest' \in [Agents -> Entries] /\ round' \in Rounds /\ RoundInv' /\ round'.rows = round.rows
  BY LogWritten
<1>3. call \in [Calls -> Rows] /\ latest \in [Agents -> Entries] /\ Types /\ None \notin Rows \cup Entries
  BY NullAssumption DEF RouterInv, Types
<1>4. call'[i] = row /\ \A j \in Calls \ {i} : call'[j] = call[j]
  BY <1>3 DEF Write
<1>5. SeenRows[i] = call[i] /\ SeenRows'[i] = row /\ \A j \in Calls \ {i} : SeenRows'[j] = SeenRows[j]
  BY <1>2, <1>4, Seen, <1>3 DEF SeenRows, Row
<1>6. ASSUME NEW a \in Agents \ stale' PROVE Sound(call, latest, a)' /\ Sound(SeenRows, SeenLogs, a)'
  <2>0. a \in Agents /\ Sound(call, latest, a) /\ Sound(SeenRows, SeenLogs, a) /\ Fair(i, row, b, e, a)
    BY DEF RouterInv, AgentInv
  <2>1. a # b => latest'[a] = latest[a] /\ SeenLogs'[a] = SeenLogs[a]
    BY LogWritten, <2>0 DEF SeenLogs, LogOf
  <2>2. a = b => latest'[a] = e /\ SeenLogs'[a] = e
    <3> SUFFICES ASSUME a = b PROVE latest'[a] = e /\ SeenLogs'[a] = e
      OBVIOUS
    <3>1. b # None
      BY RouterConstants, <2>0
    <3> QED
      BY <3>1, LogWritten, <2>0 DEF SeenLogs, LogOf
  <2>3. latest[a].state = "AVAILABLE" /\ a \notin round.locks =>
          ServesNone(call, a) /\ ServesNone(SeenRows, a)
    BY <2>0, Unlocked DEF Sound, ServesNone, Free
  <2>4. Change(call, i, a, call'[i], latest[a], latest'[a])
    BY <1>4, <2>0, <2>1, <2>2, <2>3 DEF Fair, Change
  <2>5. Change(SeenRows, i, a, SeenRows'[i], SeenLogs[a], SeenLogs'[a])
    BY <1>5, <2>0, <2>1, <2>2, <2>3 DEF Fair, Change
  <2>6. \A j \in Calls \ {i} : Alike(call[j], call'[j]) /\ Alike(SeenRows[j], SeenRows'[j])
    BY <1>4, <1>5 DEF Alike
  <2>7. Sound(call', latest', a)
    BY <2>0, <2>4, <2>6, SoundChange
  <2>8. Sound(SeenRows', SeenLogs', a)
    BY <2>0, <2>5, <2>6, SoundChange
  <2> QED
    BY <2>7, <2>8
<1>7. AgentInv'
  BY <1>6 DEF AgentInv
<1> QED
  BY <1>1, <1>2, <1>7

\* Committed write that leaves state and agent of the row alone; the round may
\* have written it.
LEMMA QuietWrite ==
  ASSUME RouterInv, NEW i \in Calls, NEW row \in Rows, Write(i, row), Coherent(i, row),
         Alike(call[i], row), UNCHANGED <<latest, round, stale>>
  PROVE  AgentInv' /\ RowsInv' /\ RoundInv' /\ call' \in [Calls -> Rows]
<1>1. RowsInv' /\ call' \in [Calls -> Rows]
  BY RowWritten DEF Alike
<1>2. RoundInv'
  BY DEF RouterInv, RoundInv
<1>3. call \in [Calls -> Rows] /\ Types
  BY DEF RouterInv, Types
<1>4. \A j \in Calls : Alike(call[j], call'[j])
  BY <1>3 DEF Write, Alike
<1>5. \A j \in Calls : Alike(SeenRows[j], SeenRows'[j])
  BY <1>4, Seen, <1>3 DEF SeenRows, Row, Alike
<1>6. SeenLogs' = SeenLogs
  BY DEF SeenLogs, LogOf
<1>7. ASSUME NEW a \in Agents \ stale' PROVE Sound(call, latest, a)' /\ Sound(SeenRows, SeenLogs, a)'
  <2>1. Sound(call, latest, a) /\ Sound(SeenRows, SeenLogs, a)
    BY DEF RouterInv, AgentInv
  <2>2. Sound(call', latest', a)
    BY <1>4, <2>1, SoundLog
  <2>3. Sound(SeenRows', SeenLogs', a)
    BY <1>5, <1>6, <2>1, SoundLog
  <2> QED
    BY <2>2, <2>3
<1> QED
  BY <1>1, <1>2, <1>7 DEF AgentInv

\* Committed entry alone.
LEMMA CommittedEntry ==
  ASSUME RouterInv, NEW b \in Agents, NEW e \in Entries, Enter(b, e), UNCHANGED <<call, stale>>,
         \/ e.state \notin Free \cup {"RESERVED"}
         \/ e.state # "RESERVED" /\ ServesNone(call, b) /\ b \notin round.locks
  PROVE  /\ AgentInv' /\ RowsInv' /\ RoundInv'
         /\ latest' \in [Agents -> Entries] /\ round' \in Rounds
<1>1. /\ latest' \in [Agents -> Entries] /\ round' \in Rounds /\ RoundInv'
      /\ round'.rows = round.rows /\ round'.locks = round.locks
  BY LogWritten
<1>2. RowsInv'
  BY <1>1 DEF RouterInv, RowsInv, Written
<1>3. SeenRows' = SeenRows
  BY <1>1 DEF SeenRows, Row
<1>4. ASSUME NEW a \in Agents \ stale' PROVE Sound(call, latest, a)' /\ Sound(SeenRows, SeenLogs, a)'
  <2>0. a \in Agents /\ Sound(call, latest, a) /\ Sound(SeenRows, SeenLogs, a)
    BY DEF RouterInv, AgentInv
  <2>1. a # b => latest'[a] = latest[a] /\ SeenLogs'[a] = SeenLogs[a]
    BY LogWritten, <2>0 DEF SeenLogs, LogOf
  <2>2. a = b => latest'[a] = e /\ SeenLogs'[a] = e
    BY RouterConstants, LogWritten, <2>0 DEF SeenLogs, LogOf
  <2>3. ServesNone(call, b) /\ b \notin round.locks => ServesNone(SeenRows, b)
    BY Unlocked
  <2>4. \A j \in Calls : Alike(call[j], call'[j]) /\ Alike(SeenRows[j], SeenRows'[j])
    BY <1>3 DEF Alike
  <2>5. Sound(call', latest', a)
    BY <2>0, <2>1, <2>2, <2>4, SoundLog
  <2>6. Sound(SeenRows', SeenLogs', a)
    BY <2>0, <2>1, <2>2, <2>3, <2>4, SoundLog
  <2> QED
    BY <2>5, <2>6
<1> QED
  BY <1>1, <1>2, <1>4 DEF AgentInv

\* Neither rows, nor log, nor round change.
LEMMA NothingWritten ==
  ASSUME RouterInv, UNCHANGED <<call, latest, round, stale>>
  PROVE  AgentInv' /\ RowsInv' /\ RoundInv'
<1>1. SeenRows' = SeenRows /\ SeenLogs' = SeenLogs
  BY DEF SeenRows, SeenLogs, Row, LogOf
<1>2. AgentInv'
  BY <1>1 DEF RouterInv, AgentInv
<1>3. RowsInv' /\ RoundInv'
  BY DEF RouterInv, RowsInv, Written, RoundInv
<1> QED
  BY <1>2, <1>3

LEMMA Together ==
  ASSUME Types', HandlersInv', RowsInv', RoundInv', AgentInv'
  PROVE  RouterInv'
  BY DEF RouterInv, HandlersInv, RowsInv

-----------------------------------------------------------------------------
(* Handlers begin *)

\* Entries and rows of the model are of their types.
LEMMA EntryType ==
  ASSUME NEW i \in Calls \cup {None},
         NEW s \in {"AVAILABLE", "RESERVED", "BUSY", "ACW", "COOLING", "COOLED", "OFFLINE"}
  PROVE  Entry(s, i) \in Entries /\ Entry(s, i).state = s /\ (s = "RESERVED" => Entry(s, i).call = i)
  BY DEF Entry, Entries

LEMMA RelievedType ==
  ASSUME NEW i \in Calls
  PROVE  Relieved(i) \in Entries /\ Relieved(i).state \in {"COOLING", "AVAILABLE"}
  BY EntryType DEF Relieved

LEMMA QueuedRow ==
  /\ Queued \in Rows
  /\ Queued.state = "QUEUED" /\ Queued.agent = None /\ Queued.offer = "NONE"
  /\ Queued.requeue = "NONE" /\ Queued.ivr = "NONE"
  BY DEF Queued, NoRow, Rows, States

\* An event or request that only reads.
LEMMA BeginKeeps ==
  ASSUME RouterInv, NEW h \in Handlers, NEW r \in Requests, req' = [req EXCEPT ![h] = r],
         Ready(call, r), r.op # "created" \/ InOrder(r.i),
         UNCHANGED <<policy, call, latest, phone, asked, round, stale, faults>>
  PROVE  RouterInv'
<1>1. \A g \in Handlers : Ready(call, req[g])
  BY DEF RouterInv
<1>2. \A g \in Handlers \ {h} : req[g].op = "created" => r.op # "created" \/ req[g].i # r.i
  BY <1>1 DEF InOrder, Ready
<1>3. \A g \in Handlers \ {h} : req[g].op = "created" => call'[req[g].i].state = "NONE"
  BY <1>1 DEF Ready
<1>4. Ready(call', r)
  OBVIOUS
<1>5. HandlersInv' /\ req' \in [Handlers -> Requests]
  BY <1>2, <1>3, <1>4, OneHandler
<1>6. Types'
  BY <1>5 DEF RouterInv, Types
<1> QED
  BY <1>5, <1>6, NothingWritten, Together

\* What a handler reads of the row is of the type of a request.
LEMMA ReadType ==
  ASSUME RouterInv, NEW i \in Calls, NEW event \in BOOLEAN,
         NEW op \in {"answered", "hangup", "input", "decline"}
  PROVE  [op |-> op, i |-> i, event |-> event, state |-> call[i].state,
          agent |-> call[i].agent, ringing |-> call[i].offer = "RINGING",
          missed |-> call[i].missed, cand |-> {}] \in Requests
<1>1. call[i] \in Rows
  BY DEF RouterInv, Types
<1>2. /\ call[i].state \in States /\ call[i].agent \in Agents \cup {None} /\ call[i].missed \in BOOLEAN
  BY <1>1 DEF Rows
<1>3. (call[i].offer = "RINGING") \in BOOLEAN
  OBVIOUS
<1> QED
  BY <1>2, <1>3 DEF Requests

LEMMA ReadsKeeps ==
  ASSUME RouterInv, NEW h \in Handlers, NEW i \in Calls, NEW event \in BOOLEAN,
         NEW op \in {"answered", "hangup", "input", "decline"}, Reads(h, op, i, event),
         op = "hangup" => call[i].state \in {"QUEUED", "ASSIGNED", "ACTIVE"},
         op = "input" => i \in Ivr,
         UNCHANGED <<policy, call, latest, phone, asked, round, stale, faults>>
  PROVE  RouterInv'
<1> DEFINE r == [op |-> op, i |-> i, event |-> event, state |-> call[i].state,
                 agent |-> call[i].agent, ringing |-> call[i].offer = "RINGING",
                 missed |-> call[i].missed, cand |-> {}]
<1>1. r \in Requests
  BY ReadType
<1>2. req' = [req EXCEPT ![h] = r]
  BY DEF Reads
<1>3. Ready(call, r) /\ r.op # "created"
  BY DEF Ready
<1> HIDE DEF r
<1> QED
  BY <1>1, <1>2, <1>3, BeginKeeps

\* Only what no other part of the invariant speaks of changes.
LEMMA AsideKeeps ==
  ASSUME RouterInv, UNCHANGED <<policy, call, latest, round, stale, req>>,
         phone' \in [Calls -> {"NONE", "UP", "GONE", "HEARD"}], asked' \subseteq Calls,
         faults' \in 0..MaxFaults
  PROVE  RouterInv'
<1>1. \A g \in Handlers : Ready(call, req[g])
  BY DEF RouterInv
<1>2. HandlersInv'
  BY <1>1, NoHandler DEF Ready
<1>3. Types'
  BY DEF RouterInv, Types
<1> QED
  BY <1>2, <1>3, NothingWritten, Together

LEMMA BeginCreatedKeeps ==
  ASSUME RouterInv, NEW h \in Handlers, NEW i \in Calls, BeginCreated(h, i)
  PROVE  RouterInv'
<1>1. CASE i \in Ivr
  <2> DEFINE row == [Queued EXCEPT !.ivr = "OPEN"]
  <2>0. /\ Write(i, row) /\ call[i].state = "NONE"
        /\ UNCHANGED <<req, policy, latest, phone, asked, round, stale, faults>>
    BY <1>1 DEF BeginCreated
  <2>1. row \in Rows /\ row.state = "QUEUED" /\ row.agent = None
    BY DEF Queued, NoRow, Rows, States
  <2>2. Coherent(i, row)
    BY <1>1, <2>1 DEF Coherent
  <2>3. /\ Enter(None, Entry("OFFLINE", None)) /\ Entry("OFFLINE", None) \in Entries
        /\ round.rows[i] = None /\ stale \subseteq stale'
    BY <2>0, EntryType DEF Enter, RouterInv, Written
  <2>4. \A a \in Agents \ stale' : Fair(i, row, None, Entry("OFFLINE", None), a)
    BY <2>0, <2>1, RouterConstants DEF Fair, Has, Live
  <2> HIDE DEF row
  <2>5. /\ AgentInv' /\ RowsInv' /\ RoundInv' /\ call' \in [Calls -> Rows]
    BY <2>0, <2>1, <2>2, <2>3, <2>4, CommittedWrite
  <2>6. HandlersInv' /\ req' \in [Handlers -> Requests]
    BY <1>1, <2>0, OthersCreate, NoHandler
  <2>7. Types'
    BY <2>0, <2>5, <2>6 DEF RouterInv, Types
  <2> QED
    BY <2>5, <2>6, <2>7, Together
<1>2. CASE i \notin Ivr
  <2> DEFINE r == [NoRequest EXCEPT !.op = "created", !.i = i, !.event = TRUE, !.cand = AvailableNow]
  <2>0. /\ req' = [req EXCEPT ![h] = r] /\ InOrder(i) /\ call[i].state = "NONE"
        /\ UNCHANGED <<policy, call, latest, phone, asked, round, stale, faults>>
    BY <1>2 DEF BeginCreated
  <2>1. AvailableNow \in SUBSET Agents
    BY DEF AvailableNow
  <2>2. r \in Requests /\ r.i = i
    BY <2>1 DEF Requests, NoRequest, States
  <2>3. Ready(call, r)
    BY <1>2, <2>0 DEF Ready, NoRequest
  <2> HIDE DEF r
  <2> QED
    BY <2>0, <2>2, <2>3, BeginKeeps
<1> QED
  BY <1>1, <1>2

LEMMA BeginsKeep ==
  ASSUME RouterInv, NEW h \in Handlers, NEW i \in Calls,
         \/ BeginAnswered(h, i) \/ BeginHangup(h, i) \/ BeginDecline(h, i)
         \/ \E timeout \in BOOLEAN : BeginInput(h, i, timeout)
  PROVE  RouterInv'
<1>1. CASE BeginAnswered(h, i)
  BY <1>1, ReadsKeeps DEF BeginAnswered
<1>2. CASE BeginDecline(h, i)
  BY <1>2, ReadsKeeps DEF BeginDecline
<1>3. ASSUME NEW timeout \in BOOLEAN, BeginInput(h, i, timeout)
      PROVE  RouterInv'
  <2>1. i \in Ivr
    BY <1>3 DEF BeginInput, RouterInv, Coherent
  <2>2. Reads(h, "input", i, ~timeout) /\ (~timeout) \in BOOLEAN
    BY <1>3 DEF BeginInput
  <2>3. UNCHANGED <<policy, call, latest, phone, asked, round, stale, faults>>
    BY <1>3 DEF BeginInput
  <2> QED
    BY <2>1, <2>2, <2>3, ReadsKeeps
<1>4. CASE BeginHangup(h, i)
  <2>1. CASE call[i].state \in {"QUEUED", "ASSIGNED", "ACTIVE"}
    BY <1>4, <2>1, ReadsKeeps DEF BeginHangup
  <2>2. CASE call[i].state \notin {"QUEUED", "ASSIGNED", "ACTIVE"}
    <3>1. /\ phone' = [phone EXCEPT ![i] = "HEARD"]
          /\ UNCHANGED <<policy, call, latest, asked, round, stale, req, faults>>
      BY <1>4, <2>2 DEF BeginHangup
    <3>2. phone' \in [Calls -> {"NONE", "UP", "GONE", "HEARD"}]
      BY <3>1 DEF RouterInv, Types
    <3>3. asked' \subseteq Calls /\ faults' \in 0..MaxFaults
      BY <3>1 DEF RouterInv, Types
    <3> QED
      BY <3>1, <3>2, <3>3, AsideKeeps
  <2> QED
    BY <2>1, <2>2
<1> QED
  BY <1>1, <1>2, <1>3, <1>4

LEMMA BeginCloseKeeps ==
  ASSUME RouterInv, NEW h \in Handlers, NEW a \in Agents, BeginClose(h, a)
  PROVE  RouterInv'
<1> DEFINE r == [NoRequest EXCEPT !.op = "close", !.agent = a]
<1>0. /\ req' = [req EXCEPT ![h] = r]
      /\ UNCHANGED <<policy, call, latest, phone, asked, round, stale, faults>>
  BY DEF BeginClose
<1>1. r \in Requests /\ r.op # "created"
  BY DEF Requests, NoRequest, States
<1>2. Ready(call, r)
  BY DEF Ready, NoRequest
<1> HIDE DEF r
<1> QED
  BY <1>0, <1>1, <1>2, BeginKeeps

-----------------------------------------------------------------------------
(* Handlers end *)

\* What the operations that write a row share: an entry, the rest typed.
LEMMA WriteKeeps ==
  ASSUME RouterInv, NEW i \in Calls, NEW row \in Rows, Write(i, row),
         NEW b \in Agents \cup {None}, NEW e \in Entries, Enter(b, e),
         Coherent(i, row), round.rows[i] = None,
         stale \subseteq stale', stale' \subseteq Agents,
         \A a \in Agents \ stale' : Fair(i, row, b, e, a),
         HandlersInv', req' \in [Handlers -> Requests],
         policy' = policy, asked' \subseteq Calls, faults' \in 0..MaxFaults,
         phone' \in [Calls -> {"NONE", "UP", "GONE", "HEARD"}]
  PROVE  RouterInv'
<1>1. /\ AgentInv' /\ RowsInv' /\ RoundInv' /\ call' \in [Calls -> Rows]
      /\ latest' \in [Agents -> Entries] /\ round' \in Rounds
  BY CommittedWrite
<1>2. Types'
  BY <1>1 DEF RouterInv, Types
<1> QED
  BY <1>1, <1>2, Together

\* A handler whose update matched nothing, or that failed.
LEMMA DoneKeeps ==
  ASSUME RouterInv, NEW h \in Handlers, Done(h), UNCHANGED <<policy, call, latest, round, stale>>,
         asked' \subseteq Calls, faults' \in 0..MaxFaults,
         phone' \in [Calls -> {"NONE", "UP", "GONE", "HEARD"}]
  PROVE  RouterInv'
<1>1. \A g \in Handlers : Ready(call, req[g])
  BY DEF RouterInv
<1>2. HandlersInv' /\ req' \in [Handlers -> Requests]
  BY <1>1, HandlerDone DEF Ready
<1>3. Types'
  BY <1>2 DEF RouterInv, Types
<1> QED
  BY <1>2, <1>3, NothingWritten, Together

LEMMA PicksType ==
  ASSUME NEW cand \in SUBSET Agents, NEW a \in Picks(cand)
  PROVE  a \in Agents \cup {None} /\ (a # None => a \notin round.locks)
  BY DEF Picks, Pickable, AgentLocked

LEMMA FinishCreatedKeeps ==
  ASSUME RouterInv, NEW h \in Handlers, FinishCreated(h)
  PROVE  RouterInv'
<1>0. /\ req[h] \in Requests /\ Ready(call, req[h]) /\ req[h].op = "created" /\ OneCreator
      /\ call \in [Calls -> Rows] /\ stale \subseteq Agents
  BY DEF FinishCreated, RouterInv, Types
<1>1. PICK i \in Calls : i = req[h].i
  BY <1>0 DEF Ready
<1>2. i \notin Ivr /\ call[i].state = "NONE" /\ call[i].agent = None /\ round.rows[i] = None
  BY <1>0, <1>1 DEF Ready, RouterInv, Coherent, Written
<1>3. req[h].cand \in SUBSET Agents
  BY <1>0 DEF Requests
<1>4. PICK a \in Picks(req[h].cand) :
        /\ Write(i, IF a = None THEN Queued ELSE Offered(Queued, a))
        /\ Log(a, "RESERVED", i)
        /\ stale' = stale \cup Outdated(a)
        /\ Tell(IF a = None THEN {} ELSE {i})
  BY <1>1 DEF FinishCreated
<1>5. Done(h) /\ UNCHANGED <<policy, phone>>
  BY DEF FinishCreated
<1>6. a \in Agents \cup {None} /\ (a # None => a \notin round.locks)
  BY <1>3, PicksType
<1> DEFINE row == IF a = None THEN Queued ELSE Offered(Queued, a)
           e == Entry("RESERVED", i)
<1>7. /\ row \in Rows /\ (a = None => row.state = "QUEUED" /\ row.agent = None)
      /\ (a # None => row.state = "ASSIGNED" /\ row.agent = a) /\ Coherent(i, row)
  <2>1. CASE a = None
    BY <2>1, QueuedRow DEF Coherent
  <2>2. CASE a # None
    BY <2>2, <1>6, QueuedRow DEF Offered, Coherent, Rows, States
  <2> QED
    BY <2>1, <2>2
<1>8. e \in Entries /\ e.state = "RESERVED" /\ e.call = i
  BY EntryType
<1>9. Write(i, row) /\ Enter(a, e)
  BY <1>4 DEF Log
<1> HIDE DEF row, e
<1>10. stale \subseteq stale' /\ stale' \subseteq Agents
  BY <1>0, <1>4, <1>6 DEF Outdated
<1>11. ASSUME NEW b \in Agents \ stale' PROVE Fair(i, row, a, e, b)
  <2>1. CASE b = a
    <3>1. latest[b].state = "AVAILABLE" /\ b \notin round.locks
      BY <1>4, <1>6, <2>1, RouterConstants DEF Outdated
    <3> QED
      BY <1>7, <1>8, <2>1, <3>1, RouterConstants DEF Fair
  <2>2. CASE b # a
    <3>1. ~Has(call[i], b) /\ ~Has(row, b)
      BY <1>2, <1>7, <2>2, RouterConstants DEF Has, Live
    <3> QED
      BY <2>2, <3>1 DEF Fair
  <2> QED
    BY <2>1, <2>2
<1>12. ASSUME NEW g \in Handlers \ {h}, req[g].op = "created" PROVE call'[req[g].i].state = "NONE"
  <2>1. req[g].i \in Calls /\ req[g].i # i /\ call[req[g].i].state = "NONE"
    BY <1>0, <1>1, <1>12 DEF RouterInv, Ready, OneCreator
  <2> QED
    BY <1>0, <1>9, <2>1 DEF Write
<1>13. HandlersInv' /\ req' \in [Handlers -> Requests]
  BY <1>5, <1>12, HandlerDone
<1>14. asked' \subseteq Calls /\ faults' \in 0..MaxFaults
  BY <1>4, TellTypes
<1>15. phone' \in [Calls -> {"NONE", "UP", "GONE", "HEARD"}] /\ policy' = policy
  BY <1>5 DEF RouterInv, Types
<1> QED
  BY <1>2, <1>6, <1>7, <1>8, <1>9, <1>10, <1>11, <1>13, <1>14, <1>15, WriteKeeps

LEMMA FinishAnsweredKeeps ==
  ASSUME RouterInv, NEW h \in Handlers, FinishAnswered(h)
  PROVE  RouterInv'
<1>0. /\ req[h] \in Requests /\ Ready(call, req[h]) /\ req[h].op = "answered"
      /\ call \in [Calls -> Rows] /\ stale \subseteq Agents
  BY DEF FinishAnswered, RouterInv, Types
<1>1. PICK i \in Calls : i = req[h].i
  BY <1>0 DEF Ready
<1>2. PICK b \in Agents \cup {None} : b = req[h].agent
  BY <1>0 DEF Requests
<1>3. Done(h) /\ UNCHANGED <<policy, phone, asked, faults>> /\ round.rows[i] = None
  BY <1>1 DEF FinishAnswered, RowLocked
<1>4. /\ phone' \in [Calls -> {"NONE", "UP", "GONE", "HEARD"}] /\ asked' \subseteq Calls
      /\ faults' \in 0..MaxFaults
  BY <1>3 DEF RouterInv, Types
<1>5. CASE UNCHANGED <<call, latest, round, stale>>
  BY <1>3, <1>4, <1>5, DoneKeeps
<1> DEFINE row == [call[i] EXCEPT !.state = "ACTIVE", !.offer = "NONE"]
           e == Entry("BUSY", i)
<1>6. CASE /\ call[i].state = "ASSIGNED" /\ Write(i, row) /\ Log(b, "BUSY", i)
           /\ stale' = stale \cup Mistaken(b, call[i])
  <2>1. call[i] \in Rows /\ Coherent(i, call[i])
    BY <1>0 DEF RouterInv
  <2>2. row \in Rows /\ row.state = "ACTIVE" /\ row.agent = call[i].agent /\ Coherent(i, row)
    BY <1>6, <2>1 DEF Rows, States, Coherent
  <2>3. e \in Entries /\ e.state = "BUSY" /\ Enter(b, e)
    BY <1>6, EntryType DEF Log
  <2> HIDE DEF row, e
  <2>4. call[i].agent \in Agents \cup {None}
    BY <2>1 DEF Rows
  <2>5. stale \subseteq stale' /\ stale' \subseteq Agents
    BY <1>0, <1>6, <2>4 DEF Mistaken
  <2>6. ASSUME NEW a \in Agents \ stale' PROVE Fair(i, row, b, e, a)
    <3>1. a = b \/ a = call[i].agent => b = call[i].agent
      BY <1>6, RouterConstants DEF Mistaken
    <3>2. CASE a = call[i].agent
      BY <1>6, <2>2, <2>3, <3>1, <3>2 DEF Fair, Has, Live, Free
    <3>3. CASE a # call[i].agent
      BY <2>2, <3>1, <3>3 DEF Fair, Has
    <3> QED
      BY <3>2, <3>3
  <2>7. HandlersInv' /\ req' \in [Handlers -> Requests]
    BY <1>3, <1>6, OthersCreate, HandlerDone
  <2> QED
    BY <1>3, <1>4, <1>6, <2>2, <2>3, <2>5, <2>6, <2>7, WriteKeeps
<1> QED
  BY <1>1, <1>2, <1>5, <1>6 DEF FinishAnswered

LEMMA FinishHangupKeeps ==
  ASSUME RouterInv, NEW h \in Handlers, FinishHangup(h)
  PROVE  RouterInv'
<1>0. /\ req[h] \in Requests /\ Ready(call, req[h]) /\ req[h].op = "hangup"
      /\ call \in [Calls -> Rows] /\ stale \subseteq Agents
  BY DEF FinishHangup, RouterInv, Types
<1>1. PICK i \in Calls : i = req[h].i
  BY <1>0 DEF Ready
<1>2. PICK b \in Agents \cup {None} : b = req[h].agent
  BY <1>0 DEF Requests
<1>3. /\ Done(h) /\ UNCHANGED <<policy, asked, faults>> /\ round.rows[i] = None
      /\ phone' = [phone EXCEPT ![i] = "HEARD"]
  BY <1>1 DEF FinishHangup, RowLocked
<1>4. /\ phone' \in [Calls -> {"NONE", "UP", "GONE", "HEARD"}] /\ asked' \subseteq Calls
      /\ faults' \in 0..MaxFaults
  BY <1>3 DEF RouterInv, Types
<1>5. CASE UNCHANGED <<call, latest, round, stale>>
  BY <1>3, <1>4, <1>5, DoneKeeps
<1>6. call[i] \in Rows /\ Coherent(i, call[i]) /\ call[i].agent \in Agents \cup {None}
  BY <1>0 DEF RouterInv, Rows
<1> DEFINE active == call[i].state = "ACTIVE"
           row == IF active THEN [call[i] EXCEPT !.state = "WRAPUP"]
                  ELSE [call[i] EXCEPT !.state = "ABANDONED", !.offer = "NONE", !.requeue = "NONE"]
           e == Entry(IF active THEN "ACW" ELSE "AVAILABLE", i)
<1>7. CASE /\ call[i].state \in {"QUEUED", "ASSIGNED", "ACTIVE"}
           /\ Write(i, row) /\ Enter(b, e) /\ stale' = stale \cup Mistaken(b, call[i])
  <2>1. /\ row \in Rows /\ row.agent = call[i].agent
        /\ row.state = IF active THEN "WRAPUP" ELSE "ABANDONED"
    BY <1>6 DEF Rows, States
  <2>2. Coherent(i, row)
    BY <1>6, <1>7 DEF Coherent, Rows
  <2>3. e \in Entries /\ e.state = IF active THEN "ACW" ELSE "AVAILABLE"
    BY EntryType
  <2> HIDE DEF row, e
  <2>5. stale \subseteq stale' /\ stale' \subseteq Agents
    BY <1>0, <1>6, <1>7 DEF Mistaken
  <2>6. ASSUME NEW a \in Agents \ stale' PROVE Fair(i, row, b, e, a)
    <3>1. a = b \/ a = call[i].agent => b = call[i].agent
      BY <1>7, RouterConstants DEF Mistaken
    <3>2. CASE a = call[i].agent
      <4>1. call[i].state # "QUEUED"
        BY <1>6, <3>2, RouterConstants DEF Coherent
      <4> QED
        BY <1>7, <2>1, <2>3, <3>1, <3>2, <4>1 DEF Fair, Has, Live, Free
    <3>3. CASE a # call[i].agent
      BY <2>1, <3>1, <3>3 DEF Fair, Has
    <3> QED
      BY <3>2, <3>3
  <2>7. HandlersInv' /\ req' \in [Handlers -> Requests]
    BY <1>3, <1>7, OthersCreate, HandlerDone
  <2> QED
    BY <1>3, <1>4, <1>7, <2>1, <2>2, <2>3, <2>5, <2>6, <2>7, WriteKeeps
<1>8. call[i].state = req[h].state =>
        /\ call[i].state \in {"QUEUED", "ASSIGNED", "ACTIVE"}
        /\ Write(i, row) /\ Enter(b, e) /\ stale' = stale \cup Mistaken(b, call[i])
  BY <1>0, <1>1, <1>2 DEF FinishHangup, Log, Ready
<1>9. call[i].state # req[h].state => UNCHANGED <<call, latest, round, stale>>
  BY <1>1 DEF FinishHangup
<1> QED
  BY <1>5, <1>7, <1>8, <1>9

LEMMA FinishDeclineKeeps ==
  ASSUME RouterInv, NEW h \in Handlers, FinishDecline(h)
  PROVE  RouterInv'
<1>0. /\ req[h] \in Requests /\ Ready(call, req[h]) /\ req[h].op = "decline"
      /\ call \in [Calls -> Rows] /\ stale \subseteq Agents
  BY DEF FinishDecline, RouterInv, Types
<1>1. PICK i \in Calls : i = req[h].i
  BY <1>0 DEF Ready
<1>2. PICK b \in Agents \cup {None} : b = req[h].agent
  BY <1>0 DEF Requests
<1>3. Done(h) /\ UNCHANGED <<policy, asked, faults, phone, stale>> /\ round.rows[i] = None
  BY <1>1 DEF FinishDecline, RowLocked
<1>4. /\ phone' \in [Calls -> {"NONE", "UP", "GONE", "HEARD"}] /\ asked' \subseteq Calls
      /\ faults' \in 0..MaxFaults
  BY <1>3 DEF RouterInv, Types
<1>5. CASE UNCHANGED <<call, latest, round, stale>>
  BY <1>3, <1>4, <1>5, DoneKeeps
<1>6. call[i] \in Rows /\ Coherent(i, call[i])
  BY <1>0 DEF RouterInv
<1> DEFINE row == CASE policy.timeout = "ABANDON" ->
                         [call[i] EXCEPT !.state = "ABANDONED", !.offer = "NONE"]
                    [] policy.timeout = "COOLDOWN_REQUEUE" -> Unassigned(call[i], "LATER")
                    [] OTHER -> Unassigned(call[i], "DUE")
<1>7. CASE /\ call[i].state = "ASSIGNED" /\ call[i].agent = b
           /\ Write(i, row) /\ Enter(b, Relieved(i))
  <2>0. \/ row = [call[i] EXCEPT !.state = "ABANDONED", !.offer = "NONE"]
        \/ row = Unassigned(call[i], "LATER") \/ row = Unassigned(call[i], "DUE")
    BY Zenon
  <2> HIDE DEF row
  <2>1. row \in Rows /\ row.state \in {"ABANDONED", "QUEUED"} /\ Coherent(i, row)
    BY <1>6, <1>7, <2>0 DEF Unassigned, Rows, States, Coherent
  <2>2. Relieved(i) \in Entries /\ Relieved(i).state \in {"COOLING", "AVAILABLE"}
    BY RelievedType
  <2>3. stale \subseteq stale' /\ stale' \subseteq Agents
    BY <1>0, <1>3
  <2>4. \A a \in Agents \ stale' : Fair(i, row, b, Relieved(i), a)
    BY <1>7, <2>1, <2>2 DEF Fair, Has, Live
  <2>5. HandlersInv' /\ req' \in [Handlers -> Requests]
    BY <1>3, <1>7, OthersCreate, HandlerDone
  <2> QED
    BY <1>3, <1>4, <1>7, <2>1, <2>2, <2>3, <2>4, <2>5, WriteKeeps
<1>8. call[i].state = "ASSIGNED" /\ call[i].agent = b => Write(i, row) /\ Enter(b, Relieved(i))
  BY <1>1, <1>2 DEF FinishDecline
<1>9. ~(call[i].state = "ASSIGNED" /\ call[i].agent = b) => UNCHANGED <<call, latest, round, stale>>
  BY <1>1, <1>2, <1>3 DEF FinishDecline
<1> QED
  BY <1>5, <1>7, <1>8, <1>9

LEMMA ResolveInputKeeps ==
  ASSUME RouterInv, NEW h \in Handlers, ResolveInput(h)
  PROVE  RouterInv'
<1>0. /\ req[h] \in Requests /\ Ready(call, req[h]) /\ req[h].op = "resolve"
      /\ call \in [Calls -> Rows] /\ stale \subseteq Agents
  BY DEF ResolveInput, RouterInv, Types
<1>1. PICK i \in Calls : i = req[h].i
  BY <1>0 DEF Ready
<1>2. i \in Ivr /\ call[i] \in Rows /\ Coherent(i, call[i])
  BY <1>0, <1>1 DEF Ready, RouterInv
<1>3. req[h].cand \in SUBSET Agents
  BY <1>0 DEF Requests
<1> DEFINE old == [call[i] EXCEPT !.ivr = "NONE"]
<1>4. PICK a \in Picks(req[h].cand) :
        /\ Write(i, IF a = None THEN old ELSE Offered(old, a))
        /\ Log(a, "RESERVED", i)
        /\ stale' = stale \cup Outdated(a) \cup
                    (IF a = None THEN {} ELSE {call[i].agent} \ {None})
        /\ Tell(IF a = None THEN {} ELSE {i})
  BY <1>1 DEF ResolveInput
<1>5. Done(h) /\ UNCHANGED <<policy, phone>> /\ round.rows[i] = None
  BY <1>1 DEF ResolveInput, RowLocked
<1>6. a \in Agents \cup {None} /\ (a # None => a \notin round.locks)
  BY <1>3, PicksType
<1> DEFINE row == IF a = None THEN old ELSE Offered(old, a)
           e == Entry("RESERVED", i)
<1>7. /\ row \in Rows /\ (a = None => row.state = call[i].state /\ row.agent = call[i].agent)
      /\ (a # None => row.state = "ASSIGNED" /\ row.agent = a)
  <2>1. CASE a = None
    BY <2>1, <1>2 DEF Rows
  <2>2. CASE a # None
    BY <2>2, <1>2, <1>6 DEF Offered, Rows, States
  <2> QED
    BY <2>1, <2>2
<1>8. e \in Entries /\ e.state = "RESERVED" /\ e.call = i
  BY EntryType
<1>9. Write(i, row) /\ Enter(a, e)
  BY <1>4 DEF Log
<1> HIDE DEF row, e, old
<1>10. Coherent(i, row)
  BY <1>2, <1>7 DEF Coherent
<1>11. call[i].agent \in Agents \cup {None}
  BY <1>2 DEF Rows
<1>12. stale \subseteq stale' /\ stale' \subseteq Agents
  BY <1>0, <1>4, <1>6, <1>11 DEF Outdated
<1>13. ASSUME NEW b \in Agents \ stale' PROVE Fair(i, row, a, e, b)
  <2>1. CASE b = a
    <3>1. latest[b].state = "AVAILABLE" /\ b \notin round.locks
      BY <1>4, <1>6, <2>1, RouterConstants DEF Outdated
    <3> QED
      BY <1>7, <1>8, <2>1, <3>1, RouterConstants DEF Fair
  <2>2. CASE b # a /\ a # None
    <3>1. b # call[i].agent
      BY <1>4, <2>2, RouterConstants
    <3>2. ~Has(call[i], b) /\ ~Has(row, b)
      BY <1>7, <2>2, <3>1 DEF Has
    <3> QED
      BY <2>2, <3>2 DEF Fair
  <2>3. CASE b # a /\ a = None
    BY <1>7, <2>3 DEF Fair, Alike
  <2> QED
    BY <2>1, <2>2, <2>3
<1>14. HandlersInv' /\ req' \in [Handlers -> Requests]
  BY <1>2, <1>5, <1>9, OthersCreate, HandlerDone
<1>15. asked' \subseteq Calls /\ faults' \in 0..MaxFaults
  BY <1>4, TellTypes
<1>16. phone' \in [Calls -> {"NONE", "UP", "GONE", "HEARD"}] /\ policy' = policy
  BY <1>5 DEF RouterInv, Types
<1> QED
  BY <1>5, <1>6, <1>7, <1>8, <1>9, <1>10, <1>12, <1>13, <1>14, <1>15, <1>16, WriteKeeps

\* Rows change without state and agent, no handler ends with a new call.
LEMMA QuietKeeps ==
  ASSUME RouterInv, NEW i \in Calls, NEW row \in Rows, Write(i, row), Coherent(i, row),
         Alike(call[i], row), UNCHANGED <<policy, latest, round, stale, phone, asked, faults>>,
         HandlersInv', req' \in [Handlers -> Requests]
  PROVE  RouterInv'
<1>1. AgentInv' /\ RowsInv' /\ RoundInv' /\ call' \in [Calls -> Rows]
  BY QuietWrite
<1>2. Types'
  BY <1>1 DEF RouterInv, Types
<1> QED
  BY <1>1, <1>2, Together

LEMMA RouteInputKeeps ==
  ASSUME RouterInv, NEW h \in Handlers, RouteInput(h)
  PROVE  RouterInv'
<1>0. /\ req[h] \in Requests /\ Ready(call, req[h]) /\ req[h].op = "input" /\ call \in [Calls -> Rows]
      /\ UNCHANGED <<policy, latest, phone, asked, round, stale, faults>>
      /\ phone' \in [Calls -> {"NONE", "UP", "GONE", "HEARD"}] /\ asked' \subseteq Calls
      /\ faults' \in 0..MaxFaults
  BY DEF RouteInput, RouterInv, Types
<1>1. PICK i \in Calls : i = req[h].i
  BY <1>0 DEF Ready
<1>2. i \in Ivr /\ call[i] \in Rows /\ Coherent(i, call[i])
  BY <1>0, <1>1 DEF Ready, RouterInv
<1> DEFINE row == [call[i] EXCEPT !.ivr = "OPEN", !.missed = TRUE]
<1>3. CASE Write(i, row) /\ Done(h)
  <2>1. row \in Rows /\ Alike(call[i], row)
    BY <1>2 DEF Rows, Alike
  <2> HIDE DEF row
  <2>2. Coherent(i, row)
    BY <1>2, <2>1 DEF Coherent, Alike
  <2>3. HandlersInv' /\ req' \in [Handlers -> Requests]
    BY <1>2, <1>3, OthersCreate, HandlerDone
  <2> QED
    BY <1>0, <1>3, <2>1, <2>2, <2>3, QuietKeeps
<1>4. CASE UNCHANGED call /\ Done(h)
  BY <1>0, <1>4, DoneKeeps
<1>5. CASE req' = [req EXCEPT ![h].op = "resolve", ![h].cand = AvailableNow] /\ UNCHANGED call
  <2> DEFINE r == [req[h] EXCEPT !.op = "resolve", !.cand = AvailableNow]
  <2>1. AvailableNow \in SUBSET Agents
    BY DEF AvailableNow
  <2>2. r \in Requests /\ r.op = "resolve" /\ r.i = i
    BY <1>0, <1>1, <2>1 DEF Requests
  <2>3. req' = [req EXCEPT ![h] = r]
    BY <1>0, <1>5 DEF RouterInv, Types
  <2> HIDE DEF r
  <2>4. Ready(call, r)
    BY <1>2, <2>2 DEF Ready
  <2> QED
    BY <1>0, <1>5, <2>2, <2>3, <2>4, BeginKeeps
<1> QED
  BY <1>1, <1>3, <1>4, <1>5 DEF RouteInput

LEMMA FinishCloseKeeps ==
  ASSUME RouterInv, NEW h \in Handlers, FinishClose(h)
  PROVE  RouterInv'
<1>0. /\ Ready(call, req[h]) /\ req[h].op = "close" /\ Done(h)
      /\ UNCHANGED <<policy, call, phone, asked, stale, faults>>
      /\ Log(req[h].agent, "OFFLINE", None)
  BY DEF FinishClose, RouterInv
<1>1. PICK b \in Agents : b = req[h].agent
  BY <1>0 DEF Ready
<1> DEFINE e == Entry("OFFLINE", None)
<1>2. e \in Entries /\ e.state = "OFFLINE" /\ Enter(b, e)
  BY <1>0, <1>1, EntryType DEF Log
<1> HIDE DEF e
<1>3. e.state \notin Free \cup {"RESERVED"}
  BY <1>2 DEF Free
<1>4. /\ AgentInv' /\ RowsInv' /\ RoundInv'
      /\ latest' \in [Agents -> Entries] /\ round' \in Rounds
  BY <1>0, <1>2, <1>3, CommittedEntry
<1>5. \A g \in Handlers : Ready(call, req[g])
  BY DEF RouterInv
<1>6. HandlersInv' /\ req' \in [Handlers -> Requests]
  BY <1>0, <1>5, HandlerDone DEF Ready
<1>7. Types'
  BY <1>0, <1>4, <1>6 DEF RouterInv, Types
<1> QED
  BY <1>4, <1>6, <1>7, Together

LEMMA AbortRequestKeeps ==
  ASSUME RouterInv, NEW h \in Handlers, AbortRequest(h)
  PROVE  RouterInv'
<1>1. Done(h) /\ UNCHANGED <<policy, call, latest, phone, asked, round, stale>>
  BY DEF AbortRequest
<1>2. /\ phone' \in [Calls -> {"NONE", "UP", "GONE", "HEARD"}] /\ asked' \subseteq Calls
      /\ faults' \in 0..MaxFaults
  BY RouterConstants DEF AbortRequest, RouterInv, Types
<1> QED
  BY <1>1, <1>2, DoneKeeps

-----------------------------------------------------------------------------
(* Agents, callers and time *)

\* An agent gives a call up, or finishes it.
LEMMA GivenUp ==
  ASSUME RouterInv, NEW i \in Calls, NEW row \in Rows, Write(i, row), Coherent(i, row),
         round.rows[i] = None, Has(call[i], call[i].agent), row.state \notin Live,
         NEW e \in Entries, Enter(call[i].agent, e), e.state # "RESERVED",
         UNCHANGED <<policy, phone, asked, req, stale, faults>>
  PROVE  RouterInv'
<1>1. PICK b \in Agents \cup {None} : b = call[i].agent
  BY DEF RouterInv, Types, Rows
<1>2. Enter(b, e) /\ call[i].state # "NONE"
  BY <1>1 DEF Has, Live
<1>3. \A a \in Agents \ stale' : Fair(i, row, b, e, a)
  BY <1>1 DEF Fair, Has
<1>4. HandlersInv' /\ req' \in [Handlers -> Requests]
  BY <1>2, OthersCreate, NoHandler
<1>5. /\ stale \subseteq stale' /\ stale' \subseteq Agents /\ asked' \subseteq Calls
      /\ faults' \in 0..MaxFaults /\ phone' \in [Calls -> {"NONE", "UP", "GONE", "HEARD"}]
  BY DEF RouterInv, Types
<1> QED
  BY <1>2, <1>3, <1>4, <1>5, WriteKeeps

LEMMA AgentRequestsKeep ==
  ASSUME RouterInv,
         \/ \E i \in Calls : CompleteWrapUp(i)
         \/ \E a \in Agents, i \in Calls : TakeOver(a, i)
         \/ \E a \in Agents : SelfAvailable(a)
  PROVE  RouterInv'
<1>1. ASSUME NEW i \in Calls, CompleteWrapUp(i) PROVE RouterInv'
  <2> DEFINE row == [call[i] EXCEPT !.state = "COMPLETED"]
             e == Entry("AVAILABLE", i)
  <2>1. call[i] \in Rows /\ Coherent(i, call[i]) /\ call[i].state = "WRAPUP" /\ round.rows[i] = None
    BY <1>1 DEF CompleteWrapUp, RouterInv, Types, RowLocked
  <2>2. row \in Rows /\ row.state = "COMPLETED" /\ Coherent(i, row)
    BY <2>1 DEF Rows, States, Coherent
  <2>3. e \in Entries /\ e.state = "AVAILABLE"
    BY EntryType
  <2>4. Write(i, row) /\ Enter(call[i].agent, e) /\ UNCHANGED <<policy, phone, asked, req, stale, faults>>
    BY <1>1 DEF CompleteWrapUp, Log
  <2> HIDE DEF row, e
  <2>5. Has(call[i], call[i].agent) /\ row.state \notin Live
    BY <2>1, <2>2 DEF Has, Live
  <2> QED
    BY <2>1, <2>2, <2>3, <2>4, <2>5, GivenUp
<1>2. ASSUME NEW a \in Agents, NEW i \in Calls, TakeOver(a, i) PROVE RouterInv'
  <2> DEFINE row == Unassigned(call[i], "DUE")
             e == Entry("AVAILABLE", None)
  <2>1. call[i] \in Rows /\ Coherent(i, call[i]) /\ call[i].state = "ASSIGNED" /\ round.rows[i] = None
    BY <1>2 DEF TakeOver, RouterInv, Types, RowLocked
  <2>2. row \in Rows /\ row.state = "QUEUED" /\ Coherent(i, row)
    BY <2>1 DEF Rows, States, Coherent, Unassigned
  <2>3. e \in Entries /\ e.state = "AVAILABLE"
    BY EntryType
  <2>4. Write(i, row) /\ Enter(call[i].agent, e) /\ UNCHANGED <<policy, phone, asked, req, stale, faults>>
    BY <1>2 DEF TakeOver, Log
  <2> HIDE DEF row, e
  <2>5. Has(call[i], call[i].agent) /\ row.state \notin Live
    BY <2>1, <2>2 DEF Has, Live
  <2> QED
    BY <2>1, <2>2, <2>3, <2>4, <2>5, GivenUp
<1>3. ASSUME NEW a \in Agents, SelfAvailable(a) PROVE RouterInv'
  <2> DEFINE e == Entry("AVAILABLE", None)
  <2>1. e \in Entries /\ e.state = "AVAILABLE"
    BY EntryType
  <2>2. Enter(a, e) /\ UNCHANGED <<policy, call, phone, asked, req, stale, faults>>
    BY <1>3 DEF SelfAvailable, Log
  <2> HIDE DEF e
  <2>3. ServesNone(call, a) /\ a \notin round.locks
    BY <1>3 DEF SelfAvailable, Serves, ServesNone, ServesIn, AgentLocked
  <2>4. /\ AgentInv' /\ RowsInv' /\ RoundInv'
        /\ latest' \in [Agents -> Entries] /\ round' \in Rounds
    BY <2>1, <2>2, <2>3, CommittedEntry
  <2>5. \A g \in Handlers : Ready(call, req[g])
    BY DEF RouterInv
  <2>6. HandlersInv' /\ req' \in [Handlers -> Requests]
    BY <2>2, <2>5, NoHandler DEF Ready
  <2>7. Types'
    BY <2>2, <2>4, <2>6 DEF RouterInv, Types
  <2> QED
    BY <2>4, <2>6, <2>7, Together
<1> QED
  BY <1>1, <1>2, <1>3

LEMMA CallDueKeeps ==
  ASSUME RouterInv, NEW i \in Calls, CallDue(i)
  PROVE  RouterInv'
<1>0. call[i] \in Rows /\ Coherent(i, call[i]) /\ UNCHANGED <<policy, latest, phone, asked, round, req, stale, faults>>
  BY DEF CallDue, RouterInv, Types
<1>1. PICK row : /\ Write(i, row)
                 /\ \/ call[i].offer = "RINGING" /\ row = [call[i] EXCEPT !.offer = "DUE"]
                    \/ call[i].requeue = "LATER" /\ row = [call[i] EXCEPT !.requeue = "DUE"]
                    \/ call[i].ivr = "OPEN" /\ row = [call[i] EXCEPT !.ivr = "DUE"]
                    \/ row = [call[i] EXCEPT !.over = TRUE]
  BY DEF CallDue
<1>2. row \in Rows /\ Alike(call[i], row) /\ Coherent(i, row)
  BY <1>0, <1>1 DEF Rows, Alike, Coherent
<1>3. \A g \in Handlers : Ready(call, req[g])
  BY DEF RouterInv
<1>4. ASSUME NEW g \in Handlers, req[g].op = "created" PROVE call'[req[g].i].state = "NONE"
  BY <1>1, <1>2, <1>3, <1>4 DEF Ready, Write, Alike, RouterInv, Types
<1>5. HandlersInv' /\ req' \in [Handlers -> Requests]
  BY <1>0, <1>4, NoHandler
<1> QED
  BY <1>0, <1>1, <1>2, <1>5, QuietKeeps

LEMMA CooldownDueKeeps ==
  ASSUME RouterInv, NEW b \in Agents, CooldownDue(b)
  PROVE  RouterInv'
<1>0. /\ latest \in [Agents -> Entries] /\ latest[b].state = "COOLING"
      /\ latest' = [latest EXCEPT ![b].state = "COOLED"]
      /\ UNCHANGED <<policy, call, phone, asked, round, req, stale, faults>> /\ Types
  BY DEF CooldownDue, RouterInv, Types
<1>1. /\ latest' \in [Agents -> Entries] /\ latest'[b].state = "COOLED"
      /\ \A a \in Agents \ {b} : latest'[a] = latest[a]
  BY <1>0 DEF Entries
<1>2. RowsInv' /\ RoundInv'
  BY <1>0 DEF RouterInv, RowsInv, Written, RoundInv
<1>3. SeenRows' = SeenRows
  BY <1>0 DEF SeenRows, Row
<1>4. ASSUME NEW a \in Agents \ stale' PROVE Sound(call, latest, a)' /\ Sound(SeenRows, SeenLogs, a)'
  <2>0. a \in Agents /\ Sound(call, latest, a) /\ Sound(SeenRows, SeenLogs, a)
    BY <1>0 DEF RouterInv, AgentInv
  <2>1. latest'[a] = latest[a] \/ (latest'[a].state = "COOLED" /\ latest[a].state = "COOLING")
    BY <1>0, <1>1, <2>0
  <2>2. SeenLogs'[a] = SeenLogs[a] \/ (SeenLogs'[a].state = "COOLED" /\ SeenLogs[a].state = "COOLING")
    BY <1>0, <2>0, <2>1 DEF SeenLogs, LogOf
  <2>3. \A j \in Calls : Alike(call[j], call'[j]) /\ Alike(SeenRows[j], SeenRows'[j])
    BY <1>0, <1>3 DEF Alike
  <2>4. "COOLING" \in Free
    BY DEF Free
  <2>5. Sound(call', latest', a)
    BY <2>0, <2>1, <2>3, <2>4, SoundLog
  <2>6. Sound(SeenRows', SeenLogs', a)
    BY <2>0, <2>2, <2>3, <2>4, SoundLog
  <2> QED
    BY <2>5, <2>6
<1>5. \A g \in Handlers : Ready(call, req[g])
  BY DEF RouterInv
<1>6. HandlersInv'
  BY <1>0, <1>5, NoHandler DEF Ready
<1>7. Types'
  BY <1>0, <1>1 DEF Types
<1>8. AgentInv'
  BY <1>4 DEF AgentInv
<1> QED
  BY <1>2, <1>6, <1>7, <1>8, Together

LEMMA CallersKeep ==
  ASSUME RouterInv, NEW i \in Calls, Dial(i) \/ HangUp(i)
  PROVE  RouterInv'
<1>1. UNCHANGED <<policy, call, latest, asked, round, req, stale, faults>>
  BY DEF Dial, HangUp
<1>2. /\ phone' \in [Calls -> {"NONE", "UP", "GONE", "HEARD"}] /\ asked' \subseteq Calls
      /\ faults' \in 0..MaxFaults
  BY DEF Dial, HangUp, RouterInv, Types
<1> QED
  BY <1>1, <1>2, AsideKeeps

-----------------------------------------------------------------------------
(* The round *)

\* A step of the round before its commit.
LEMMA RoundKeeps ==
  ASSUME RouterInv, UNCHANGED <<policy, call, latest, phone, asked, req>>,
         faults' \in 0..MaxFaults, stale \subseteq stale', stale' \subseteq Agents,
         round' \in Rounds, \A i \in Calls : Written(i)', RoundInv',
         \A a \in Agents \ stale' : Sound(SeenRows', SeenLogs', a)
  PROVE  RouterInv'
<1>1. \A g \in Handlers : Ready(call, req[g])
  BY DEF RouterInv
<1>2. HandlersInv'
  BY <1>1, NoHandler DEF Ready
<1>3. RowsInv'
  BY DEF RouterInv, RowsInv
<1>4. Types'
  BY DEF RouterInv, Types
<1>5. AgentInv'
  BY DEF RouterInv, AgentInv
<1> QED
  BY <1>2, <1>3, <1>4, <1>5, Together

\* The round reads, or locks an agent.
LEMMA RoundReads ==
  ASSUME RouterInv, UNCHANGED <<policy, call, latest, phone, asked, req, stale, faults>>,
         round' \in Rounds, RoundInv', round.locks \subseteq round'.locks,
         round'.rows = round.rows, round'.logs = round.logs
  PROVE  RouterInv'
<1>1. SeenRows' = SeenRows /\ SeenLogs' = SeenLogs
  BY DEF SeenRows, SeenLogs, Row, LogOf
<1>2. \A i \in Calls : Written(i)'
  BY DEF RouterInv, Written
<1>3. \A a \in Agents \ stale' : Sound(SeenRows', SeenLogs', a)
  BY <1>1 DEF RouterInv, AgentInv
<1>4. faults' \in 0..MaxFaults /\ stale \subseteq stale' /\ stale' \subseteq Agents
  BY DEF RouterInv, Types
<1> QED
  BY <1>2, <1>3, <1>4, RoundKeeps

LEMMA NoRoundType ==
  /\ NoRound \in Rounds /\ NoRound.pc = "idle" /\ NoRound.todo = {}
  /\ \A i \in Calls : NoRound.rows[i] = None
  /\ \A a \in Agents : NoRound.logs[a] = None
  BY DEF NoRound, Rounds

\* The round starts or fails: what it sees is what is committed.
LEMMA RoundFresh ==
  ASSUME RouterInv, UNCHANGED <<policy, call, latest, phone, asked, req, stale>>,
         faults' \in 0..MaxFaults, round' \in Rounds, RoundInv',
         \A i \in Calls : round'.rows[i] = None, \A a \in Agents : round'.logs[a] = None
  PROVE  RouterInv'
<1>0. call \in [Calls -> Rows] /\ latest \in [Agents -> Entries] /\ stale \subseteq Agents
  BY DEF RouterInv, Types
<1>1. SeenRows' = call /\ SeenLogs' = latest
  BY <1>0 DEF SeenRows, SeenLogs, Row, LogOf
<1>2. \A i \in Calls : Written(i)'
  BY DEF Written
<1>3. \A a \in Agents \ stale' : Sound(SeenRows', SeenLogs', a)
  BY <1>1 DEF RouterInv, AgentInv
<1> QED
  BY <1>0, <1>2, <1>3, RoundKeeps

LEMMA StartAbortKeep ==
  ASSUME RouterInv, StartRound \/ AbortRound
  PROVE  RouterInv'
<1>1. CASE AbortRound
  <2>1. UNCHANGED <<policy, call, latest, phone, asked, req, stale>> /\ round' = NoRound
    BY <1>1 DEF AbortRound, Go
  <2>2. faults' \in 0..MaxFaults
    BY <1>1, RouterConstants DEF AbortRound, RouterInv, Types
  <2>3. RoundInv' /\ round' \in Rounds
    BY <2>1, NoRoundType DEF RoundInv
  <2> QED
    BY <2>1, <2>2, <2>3, NoRoundType, RoundFresh
<1>2. CASE StartRound
  <2> DEFINE due == {<<i, call[i].agent>> : i \in
                       {j \in Calls : call[j].state = "ASSIGNED" /\ call[j].offer = "DUE"}}
  <2>1. /\ UNCHANGED <<policy, call, latest, phone, asked, req, stale, faults>>
        /\ round' = [NoRound EXCEPT !.pc = "offers", !.todo = due]
    BY <1>2 DEF StartRound, Go
  <2>2. due \subseteq Calls \X (Agents \cup {None})
    BY DEF RouterInv, Types, Rows
  <2> HIDE DEF due
  <2>3. /\ round' \in Rounds /\ round'.pc = "offers" /\ round'.todo = due
        /\ \A i \in Calls : round'.rows[i] = None
        /\ \A a \in Agents : round'.logs[a] = None
    BY <2>1, <2>2 DEF NoRound, Rounds
  <2>4. RoundInv'
    BY <2>2, <2>3 DEF RoundInv
  <2>5. faults' \in 0..MaxFaults
    BY <2>1 DEF RouterInv, Types
  <2> QED
    BY <2>1, <2>3, <2>4, <2>5, RoundFresh
<1> QED
  BY <1>1, <1>2

LEMMA ReadingsKeep ==
  ASSUME RouterInv, QueryAgents \/ BeginRequeue \/ ReadWaits
  PROVE  RouterInv'
<1>0. round \in Rounds /\ RoundInv /\ AvailableTo \in SUBSET Agents
  BY DEF RouterInv, Types, AvailableTo
<1>1. CASE QueryAgents
  <2>1. /\ round' = [round EXCEPT !.pc = "reoffer", !.cand = AvailableTo] /\ round.pc = "query"
        /\ UNCHANGED <<policy, call, latest, phone, asked, req, stale, faults>>
    BY <1>1 DEF QueryAgents, Go
  <2>2. /\ round' \in Rounds /\ round'.pc = "reoffer" /\ round'.todo = round.todo
        /\ round'.i = round.i /\ round'.locks = round.locks /\ round'.rows = round.rows
        /\ round'.logs = round.logs
    BY <1>0, <2>1 DEF Rounds
  <2>3. RoundInv'
    BY <1>0, <2>1, <2>2 DEF RoundInv
  <2> QED
    BY <2>1, <2>2, <2>3, RoundReads
<1>2. CASE BeginRequeue
  <2>1. PICK i \in round.todo :
          round' = [round EXCEPT !.pc = "assign", !.i = i, !.todo = @ \ {i}, !.cand = AvailableTo]
    BY <1>2, Zenon DEF BeginRequeue, Go
  <2>2. /\ UNCHANGED <<policy, call, latest, phone, asked, req, stale, faults>>
        /\ round.pc = "requeues"
    BY <1>2, Zenon DEF BeginRequeue
  <2>3. i \in Calls
    BY <1>0, <2>2 DEF RoundInv
  <2>4. /\ round' \in Rounds /\ round'.pc = "assign" /\ round'.todo \subseteq round.todo
        /\ round'.i = i /\ round'.locks = round.locks /\ round'.rows = round.rows
        /\ round'.logs = round.logs
    BY <1>0, <2>1, <2>3 DEF Rounds
  <2>5. RoundInv'
    BY <1>0, <2>2, <2>4, <2>3 DEF RoundInv
  <2> QED
    BY <2>2, <2>4, <2>5, RoundReads
<1>3. CASE ReadWaits
  <2> DEFINE over == {i \in Calls : /\ Row(i).state = "QUEUED" /\ Row(i).over
                                    /\ Row(i).ivr = "NONE"}
  <2>1. /\ round' = [round EXCEPT !.pc = "waits", !.todo = over]
        /\ UNCHANGED <<policy, call, latest, phone, asked, req, stale, faults>>
    BY <1>3 DEF ReadWaits, Go
  <2>2. over \subseteq Calls
    OBVIOUS
  <2> HIDE DEF over
  <2>3. /\ round' \in Rounds /\ round'.pc = "waits" /\ round'.todo = over
        /\ round'.locks = round.locks /\ round'.rows = round.rows /\ round'.logs = round.logs
    BY <1>0, <2>1, <2>2 DEF Rounds
  <2>4. RoundInv'
    BY <2>2, <2>3 DEF RoundInv
  <2> QED
    BY <2>1, <2>3, <2>4, RoundReads
<1> QED
  BY <1>1, <1>2, <1>3

LEMMA ReleaseCooldownsKeeps ==
  ASSUME RouterInv, ReleaseCooldowns
  PROVE  RouterInv'
<1> DEFINE over == {a \in Agents : LogOf(a).state = "COOLED"}
           logs == [a \in Agents |-> IF a \in over THEN Entry("AVAILABLE", None) ELSE round.logs[a]]
           due == {i \in Calls : Row(i).state = "QUEUED" /\ Row(i).requeue = "DUE"}
<1>0. /\ round \in Rounds /\ RoundInv /\ Types /\ stale \subseteq Agents /\ faults \in 0..MaxFaults
      /\ round.logs \in [Agents -> Entries \cup {None}]
  BY DEF RouterInv, Types, Rounds
<1>1. /\ round' = [round EXCEPT !.pc = "requeues", !.logs = logs, !.todo = due]
      /\ UNCHANGED <<policy, call, latest, phone, asked, req, stale, faults>>
  BY DEF ReleaseCooldowns, Go
<1>2. due \subseteq Calls
  OBVIOUS
<1>3. Entry("AVAILABLE", None) \in Entries /\ Entry("AVAILABLE", None).state = "AVAILABLE"
  BY EntryType
<1>4. /\ logs \in [Agents -> Entries \cup {None}]
      /\ \A a \in Agents : logs[a] = round.logs[a]
                           \/ (LogOf(a).state = "COOLED" /\ logs[a] = Entry("AVAILABLE", None))
  BY <1>0, <1>3
<1> HIDE DEF logs, due
<1>5. /\ round' \in Rounds /\ round'.pc = "requeues" /\ round'.todo = due
      /\ round'.locks = round.locks /\ round'.rows = round.rows /\ round'.logs = logs
  BY <1>0, <1>1, <1>2, <1>4 DEF Rounds
<1>6. RoundInv'
  BY <1>2, <1>5 DEF RoundInv
<1>7. \A i \in Calls : Written(i)'
  BY <1>1, <1>5 DEF RouterInv, Written
<1>8. SeenRows' = SeenRows
  BY <1>1, <1>5 DEF SeenRows, Row
<1>9. ASSUME NEW a \in Agents \ stale' PROVE Sound(SeenRows', SeenLogs', a)
  <2>0. a \in Agents /\ Sound(SeenRows, SeenLogs, a)
    BY <1>1 DEF RouterInv, AgentInv
  <2>1. Entry("AVAILABLE", None) # None
    BY <1>3, NullAssumption
  <2>2. SeenLogs'[a] = SeenLogs[a] \/ (SeenLogs'[a].state = "AVAILABLE" /\ SeenLogs[a].state = "COOLED")
    BY <1>1, <1>3, <1>4, <1>5, <2>0, <2>1 DEF SeenLogs, LogOf
  <2>3. \A j \in Calls : Alike(SeenRows[j], SeenRows'[j])
    BY <1>8 DEF Alike
  <2>4. "COOLED" \in Free
    BY DEF Free
  <2> QED
    BY <2>0, <2>2, <2>3, <2>4, SoundLog
<1> QED
  BY <1>0, <1>1, <1>5, <1>6, <1>7, <1>9, RoundKeeps

\* What the round sees of a row hangs together, and a row it may still work on
\* is committed as queued or on offer.
LEMMA SeenRow ==
  ASSUME RouterInv, NEW i \in Calls
  PROVE  /\ Row(i) \in Rows /\ Row(i) = SeenRows[i] /\ Coherent(i, Row(i))
         /\ Row(i).agent \in Agents \cup {None}
         /\ Row(i).state \in {"QUEUED", "ASSIGNED"} => call[i].state \in {"QUEUED", "ASSIGNED"}
<1>1. Row(i) \in Rows /\ Row(i) = SeenRows[i]
  BY Seen DEF RouterInv
<1>2. Coherent(i, call[i]) /\ Written(i)
  BY DEF RouterInv
<1>3. Coherent(i, Row(i)) /\ (Row(i).state \in {"QUEUED", "ASSIGNED"} => call[i].state \in {"QUEUED", "ASSIGNED"})
  BY <1>2 DEF Written, Row
<1> QED
  BY <1>1, <1>3 DEF Rows

\* The round writes row i and an entry e of agent b.
LEMMA RoundWrites ==
  ASSUME RouterInv, UNCHANGED <<policy, call, latest, phone, asked, req, faults>>,
         stale \subseteq stale', stale' \subseteq Agents, round' \in Rounds, RoundInv',
         NEW i \in Calls, NEW row \in Rows, round'.rows = [round.rows EXCEPT ![i] = row],
         NEW b \in Agents \cup {None}, NEW e \in Entries,
         round'.logs = [round.logs EXCEPT ![b] = e], round.locks \subseteq round'.locks,
         Coherent(i, row), row.state \in {"QUEUED", "ASSIGNED", "ABANDONED"},
         row.state = "ASSIGNED" => row.agent \in round'.locks,
         call[i].state \in {"QUEUED", "ASSIGNED"},
         \A a \in Agents \ stale' :
           Change(SeenRows, i, a, row, SeenLogs[a], IF a = b THEN e ELSE SeenLogs[a])
  PROVE  RouterInv'
<1>0. /\ Types /\ round.rows \in [Calls -> Rows \cup {None}]
      /\ round.logs \in [Agents -> Entries \cup {None}] /\ None \notin Rows \cup Entries
      /\ faults \in 0..MaxFaults
  BY NullAssumption DEF RouterInv, Types, Rounds
<1>1. SeenRows'[i] = row /\ \A j \in Calls \ {i} : SeenRows'[j] = SeenRows[j]
  BY <1>0 DEF SeenRows, Row
<1>2. \A a \in Agents : SeenLogs'[a] = IF a = b THEN e ELSE SeenLogs[a]
  BY <1>0 DEF SeenLogs, LogOf
<1>3. \A j \in Calls : Written(j)'
  <2> SUFFICES ASSUME NEW j \in Calls PROVE Written(j)'
    OBVIOUS
  <2>1. Written(j) /\ round'.rows[j] = IF j = i THEN row ELSE round.rows[j]
    BY <1>0 DEF RouterInv
  <2>2. CASE j = i
    BY <2>1, <2>2 DEF Written
  <2>3. CASE j # i
    BY <2>1, <2>3 DEF Written
  <2> QED
    BY <2>2, <2>3
<1>4. ASSUME NEW a \in Agents \ stale' PROVE Sound(SeenRows', SeenLogs', a)
  <2>1. Sound(SeenRows, SeenLogs, a)
    BY DEF RouterInv, AgentInv
  <2>2. \A j \in Calls \ {i} : Alike(SeenRows[j], SeenRows'[j])
    BY <1>1 DEF Alike
  <2>3. Change(SeenRows, i, a, SeenRows'[i], SeenLogs[a], SeenLogs'[a])
    BY <1>1, <1>2
  <2> QED
    BY <2>1, <2>2, <2>3, SoundChange
<1>5. faults' \in 0..MaxFaults
  BY <1>0
<1> QED
  BY <1>3, <1>4, <1>5, RoundKeeps

LEMMA EndWaitKeeps ==
  ASSUME RouterInv, EndWait
  PROVE  RouterInv'
<1>0. /\ round \in Rounds /\ RoundInv /\ round.pc = "waits" /\ stale \subseteq Agents /\ Types
      /\ UNCHANGED <<policy, call, latest, phone, asked, req, stale, faults>>
  BY DEF EndWait, RouterInv, Types
<1> DEFINE New(i) == IF policy.wait = "WAIT"
                     THEN [Row(i) EXCEPT !.over = FALSE, !.requeue = "DUE"]
                     ELSE [Row(i) EXCEPT !.state = "ABANDONED", !.requeue = "NONE"]
           Left(i) == [round EXCEPT !.todo = @ \ {i}]
<1>1. PICK i \in round.todo :
        round' = IF Row(i).state = "QUEUED" /\ Row(i).over
                 THEN [Left(i) EXCEPT !.rows[i] = New(i)] ELSE Left(i)
  BY Zenon DEF EndWait, Go
<1>2. i \in Calls
  BY <1>0 DEF RoundInv
<1>3. /\ Row(i) \in Rows /\ Row(i) = SeenRows[i] /\ Coherent(i, Row(i))
      /\ Row(i).state = "QUEUED" => call[i].state \in {"QUEUED", "ASSIGNED"}
  BY <1>2, SeenRow
<1>4. /\ Left(i) \in Rounds /\ Left(i).pc = "waits" /\ Left(i).todo \subseteq Calls
      /\ Left(i).rows = round.rows /\ Left(i).logs = round.logs /\ Left(i).locks = round.locks
  BY <1>0 DEF Rounds, RoundInv
<1> HIDE DEF Left
<1>5. CASE round' = Left(i)
  <2>1. RoundInv'
    BY <1>4, <1>5 DEF RoundInv
  <2> QED
    BY <1>0, <1>4, <1>5, <2>1, RoundReads
<1>6. CASE /\ Row(i).state = "QUEUED"
           /\ round' = [Left(i) EXCEPT !.rows[i] = New(i)]
  <2>1. New(i) \in Rows /\ Coherent(i, New(i)) /\ New(i).agent = None /\ New(i).state \in {"QUEUED", "ABANDONED"}
    <3>1. Row(i).agent = None
      BY <1>3, <1>6 DEF Coherent
    <3>2. CASE policy.wait = "WAIT"
      BY <1>3, <1>6, <3>1, <3>2 DEF Rows, Coherent
    <3>3. CASE policy.wait # "WAIT"
      BY <1>3, <1>6, <3>1, <3>3 DEF Rows, Coherent, States
    <3> QED
      BY <3>2, <3>3
  <2> HIDE DEF New
  <2>2. round.rows \in [Calls -> Rows \cup {None}] /\ round.logs \in [Agents -> Entries \cup {None}]
    BY <1>0 DEF Rounds
  <2>3. /\ round' \in Rounds /\ round'.pc = "waits" /\ round'.todo \subseteq Calls
        /\ round'.rows = [round.rows EXCEPT ![i] = New(i)] /\ round'.logs = round.logs
        /\ round'.locks = round.locks
    BY <1>2, <1>4, <1>6, <2>1, <2>2 DEF Rounds
  <2>4. RoundInv'
    BY <2>3 DEF RoundInv
  <2> DEFINE e == Entry("OFFLINE", None)
  <2>5. e \in Entries
    BY EntryType
  <2>6. round'.logs = [round.logs EXCEPT ![None] = e]
    BY <2>2, <2>3, RouterConstants
  <2>7. ASSUME NEW a \in Agents \ stale'
        PROVE  Change(SeenRows, i, a, New(i), SeenLogs[a], IF a = None THEN e ELSE SeenLogs[a])
    <3>1. a # None
      BY RouterConstants
    <3>2. ~Has(SeenRows[i], a) /\ ~Has(New(i), a)
      BY <1>3, <1>6, <2>1, <3>1 DEF Has, Live
    <3> QED
      BY <3>1, <3>2 DEF Change
  <2> HIDE DEF e
  <2> QED
    BY <1>0, <1>2, <1>3, <1>6, <2>1, <2>3, <2>4, <2>5, <2>6, <2>7, RoundWrites
<1> QED
  BY <1>1, <1>5, <1>6

LEMMA TimeOutOfferKeeps ==
  ASSUME RouterInv, TimeOutOffer
  PROVE  RouterInv'
<1>0. /\ round \in Rounds /\ RoundInv /\ round.pc = "offers" /\ stale \subseteq Agents
      /\ round.rows \in [Calls -> Rows \cup {None}] /\ round.logs \in [Agents -> Entries \cup {None}]
      /\ UNCHANGED <<policy, call, latest, phone, asked, req, faults>>
  BY DEF TimeOutOffer, RouterInv, Types, Rounds
<1> DEFINE Mine(o) == [round EXCEPT !.todo = @ \ {o}]
           Won(o) == [Mine(o) EXCEPT !.logs[o[2]] = Relieved(o[1])]
           Left(i) == [Row(i) EXCEPT !.state = "ABANDONED", !.offer = "NONE"]
<1>1. PICK o \in round.todo :
        \/ /\ Row(o[1]).state = "ASSIGNED"
           /\ \/ round' = [Won(o) EXCEPT !.rows[o[1]] = Left(o[1])]
              \/ round' = [Won(o) EXCEPT !.rows[o[1]] = Unassigned(Row(o[1]), "LATER")]
              \/ round' = [Won(o) EXCEPT !.rows[o[1]] = Unassigned(Row(o[1]), "NONE"),
                                         !.pc = "query", !.i = o[1]]
           /\ stale' = stale \cup Mistaken(o[2], Row(o[1]))
        \/ round' = Mine(o) /\ UNCHANGED stale
  <2>1. PICK o \in round.todo :
          IF Row(o[1]).state = "ASSIGNED" /\ Row(o[1]).offer = "DUE"
          THEN /\ CASE policy.timeout = "ABANDON" -> round' = [Won(o) EXCEPT !.rows[o[1]] = Left(o[1])]
                    [] policy.timeout = "COOLDOWN_REQUEUE" ->
                         round' = [Won(o) EXCEPT !.rows[o[1]] = Unassigned(Row(o[1]), "LATER")]
                    [] OTHER -> round' = [Won(o) EXCEPT !.rows[o[1]] = Unassigned(Row(o[1]), "NONE"),
                                                        !.pc = "query", !.i = o[1]]
               /\ stale' = stale \cup Mistaken(o[2], Row(o[1]))
          ELSE round' = Mine(o) /\ UNCHANGED stale
    BY Zenon DEF TimeOutOffer, Go
  <2> HIDE DEF Won, Left, Mine
  <2> QED
    BY <2>1, Zenon
<1>2. PICK i \in Calls, b \in Agents \cup {None} : o[1] = i /\ o[2] = b
  BY <1>0, <1>1 DEF RoundInv
<1>3. /\ Mine(o) \in Rounds /\ Mine(o).pc = "offers" /\ Mine(o).todo \subseteq Calls \X (Agents \cup {None})
      /\ Mine(o).rows = round.rows /\ Mine(o).logs = round.logs /\ Mine(o).locks = round.locks
  BY <1>0 DEF Rounds, RoundInv
<1>4. CASE round' = Mine(o) /\ UNCHANGED stale
  <2> HIDE DEF Mine
  <2>1. RoundInv'
    BY <1>3, <1>4 DEF RoundInv
  <2> QED
    BY <1>0, <1>3, <1>4, <2>1, RoundReads
<1>5. CASE /\ Row(i).state = "ASSIGNED"
           /\ \/ round' = [Won(o) EXCEPT !.rows[i] = Left(i)]
              \/ round' = [Won(o) EXCEPT !.rows[i] = Unassigned(Row(i), "LATER")]
              \/ round' = [Won(o) EXCEPT !.rows[i] = Unassigned(Row(i), "NONE"),
                                         !.pc = "query", !.i = i]
           /\ stale' = stale \cup Mistaken(b, Row(i))
  <2>1. /\ Row(i) \in Rows /\ Row(i) = SeenRows[i] /\ Coherent(i, Row(i))
        /\ Row(i).agent \in Agents \cup {None} /\ call[i].state \in {"QUEUED", "ASSIGNED"}
    BY <1>5, SeenRow
  <2>2. Relieved(i) \in Entries /\ Relieved(i).state \in {"COOLING", "AVAILABLE"}
    BY RelievedType
  <2>3. [round.logs EXCEPT ![b] = Relieved(i)] \in [Agents -> Entries \cup {None}]
    BY <1>0, <2>2
  <2> HIDE DEF Mine
  <2>4. Won(o) = [Mine(o) EXCEPT !.logs = [round.logs EXCEPT ![b] = Relieved(i)]]
    BY <1>2, <1>3 DEF Rounds
  <2> HIDE DEF Won
  <2>5. /\ Won(o) \in Rounds /\ Won(o).pc = "offers" /\ Won(o).todo \subseteq Calls \X (Agents \cup {None})
        /\ Won(o).rows = round.rows /\ Won(o).logs = [round.logs EXCEPT ![b] = Relieved(i)]
        /\ Won(o).locks = round.locks
    BY <1>3, <2>3, <2>4 DEF Rounds
  <2> DEFINE Put(row) == [Won(o) EXCEPT !.rows[i] = row]
             Ask(row) == [Won(o) EXCEPT !.rows[i] = row, !.pc = "query", !.i = i]
  <2>6. PICK row :
          /\ row \in Rows /\ Coherent(i, row) /\ row.state \in {"ABANDONED", "QUEUED"}
          /\ round' = Put(row) \/ (row.state = "QUEUED" /\ round' = Ask(row))
    <3>1. Left(i) \in Rows /\ Coherent(i, Left(i)) /\ Left(i).state = "ABANDONED"
      BY <1>5, <2>1 DEF Rows, States, Coherent
    <3>2. \A again \in {"LATER", "NONE"} :
            /\ Unassigned(Row(i), again) \in Rows /\ Coherent(i, Unassigned(Row(i), again))
            /\ Unassigned(Row(i), again).state = "QUEUED"
      BY <1>5, <2>1 DEF Rows, States, Coherent, Unassigned
    <3>3. \/ round' = Put(Left(i)) \/ round' = Put(Unassigned(Row(i), "LATER"))
          \/ round' = Ask(Unassigned(Row(i), "NONE"))
      BY <1>5, Zenon
    <3> HIDE DEF Left, Put, Ask
    <3> QED
      BY <3>1, <3>2, <3>3
  <2>7. /\ round' \in Rounds /\ round'.todo \subseteq Calls \X (Agents \cup {None})
        /\ round'.rows = [round.rows EXCEPT ![i] = row] /\ round'.logs = [round.logs EXCEPT ![b] = Relieved(i)]
        /\ round'.locks = round.locks /\ round'.pc \in {"offers", "query"}
        /\ (round'.pc = "query" => round'.i = i /\ row.state = "QUEUED")
    <3>1. [round.rows EXCEPT ![i] = row] \in [Calls -> Rows \cup {None}]
      BY <1>0, <2>6
    <3>2. CASE round' = Put(row)
      <4>1. round' = [Won(o) EXCEPT !.rows = [round.rows EXCEPT ![i] = row]]
        BY <2>5, <3>2 DEF Rounds
      <4> QED
        BY <2>5, <3>1, <4>1 DEF Rounds
    <3>3. CASE row.state = "QUEUED" /\ round' = Ask(row)
      <4>1. round' = [Won(o) EXCEPT !.rows = [round.rows EXCEPT ![i] = row], !.pc = "query", !.i = i]
        BY <2>5, <3>3 DEF Rounds
      <4> QED
        BY <2>5, <3>1, <3>3, <4>1 DEF Rounds
    <3> QED
      BY <2>6, <3>2, <3>3
  <2>8. round'.rows[i] = row /\ row # None
    BY <1>0, <2>6, <2>7, NullAssumption
  <2>9. RoundInv'
    BY <2>7, <2>8 DEF RoundInv
  <2>10. stale \subseteq stale' /\ stale' \subseteq Agents
    BY <1>0, <1>5, <2>1 DEF Mistaken
  <2>11. ASSUME NEW a \in Agents \ stale'
         PROVE  Change(SeenRows, i, a, row, SeenLogs[a], IF a = b THEN Relieved(i) ELSE SeenLogs[a])
    <3>1. a = b \/ a = Row(i).agent => b = Row(i).agent
      BY <1>5, RouterConstants DEF Mistaken
    <3>2. ~Has(row, a)
      BY <2>6 DEF Has, Live
    <3>3. CASE a = b
      <4>1. Has(SeenRows[i], a)
        BY <1>5, <2>1, <3>1, <3>3 DEF Has, Live
      <4> QED
        BY <2>2, <3>2, <3>3, <4>1 DEF Change
    <3>4. CASE a # b
      <4>1. ~Has(SeenRows[i], a)
        BY <2>1, <3>1, <3>4 DEF Has
      <4> QED
        BY <3>2, <3>4, <4>1 DEF Change
    <3> QED
      BY <3>3, <3>4
  <2>12. row.state \in {"QUEUED", "ASSIGNED", "ABANDONED"} /\ row.state # "ASSIGNED"
    BY <2>6
  <2>13. round.locks \subseteq round'.locks
    BY <2>7
  <2> QED
    BY <1>0, <2>1, <2>2, <2>6, <2>7, <2>9, <2>10, <2>11, <2>12, <2>13, RoundWrites
<1> QED
  BY <1>1, <1>2, <1>4, <1>5

\* The round is done with the call it had in hand.
Back(r, pc) == [r EXCEPT !.pc = pc, !.i = None, !.cand = {}]

\* The round gives a queued call to an agent of its snapshot.
LEMMA ChosenKeeps ==
  ASSUME RouterInv, UNCHANGED <<policy, call, latest, phone, asked, req, faults>>,
         NEW i \in Calls, NEW a \in Agents, Row(i).state = "QUEUED",
         NEW pc \in {"offers", "requeues"},
         round' = Back(Chosen(i, a), pc),
         pc = "offers" => round.todo \subseteq Calls \X (Agents \cup {None}),
         pc = "requeues" => round.todo \subseteq Calls,
         stale' = stale \cup Outpaced(a)
  PROVE  RouterInv'
<1> DEFINE row == [Offered(Row(i), a) EXCEPT !.requeue = "NONE"]
           e == Entry("RESERVED", i)
<1>0. /\ round \in Rounds /\ stale \subseteq Agents /\ round.locks \subseteq Agents
      /\ round.rows \in [Calls -> Rows \cup {None}] /\ round.logs \in [Agents -> Entries \cup {None}]
  BY DEF RouterInv, Types, Rounds
<1>1. /\ Row(i) \in Rows /\ Row(i) = SeenRows[i] /\ Coherent(i, Row(i))
      /\ call[i].state \in {"QUEUED", "ASSIGNED"}
  BY SeenRow
<1>2. row \in Rows /\ row.state = "ASSIGNED" /\ row.agent = a /\ Coherent(i, row)
  BY <1>1, RouterConstants DEF Rows, States, Offered, Coherent
<1>3. e \in Entries /\ e.state = "RESERVED" /\ e.call = i
  BY EntryType
<1>4. Chosen(i, a) = [round EXCEPT !.rows[i] = row, !.logs[a] = e, !.locks = @ \cup {a}]
  BY DEF Chosen
<1> HIDE DEF row, e
<1> DEFINE rows == [round.rows EXCEPT ![i] = row]
           logs == [round.logs EXCEPT ![a] = e]
           locks == round.locks \cup {a}
<1>5. rows \in [Calls -> Rows \cup {None}] /\ logs \in [Agents -> Entries \cup {None}] /\ locks \subseteq Agents
  BY <1>0, <1>2, <1>3
<1>6. Chosen(i, a) = [round EXCEPT !.rows = rows, !.logs = logs, !.locks = locks]
  BY <1>0, <1>4 DEF Rounds
<1> HIDE DEF rows, logs, locks
<1>7. /\ round' \in Rounds /\ round'.rows = rows /\ round'.logs = logs /\ round'.locks = locks
      /\ round'.pc = pc /\ round'.todo = round.todo
  <2> DEFINE r == Chosen(i, a)
  <2>1. /\ r \in Rounds /\ r.rows = rows /\ r.logs = logs /\ r.locks = locks
        /\ r.todo = round.todo
    BY <1>0, <1>5, <1>6 DEF Rounds
  <2> HIDE DEF r
  <2>2. round' = Back(r, pc)
    BY DEF r
  <2> QED
    BY <2>1, <2>2 DEF Rounds, Back
<1>8. RoundInv'
  BY <1>7 DEF RoundInv
<1>9. /\ round'.rows = [round.rows EXCEPT ![i] = row] /\ round'.logs = [round.logs EXCEPT ![a] = e]
      /\ round.locks \subseteq round'.locks /\ row.agent \in round'.locks
  BY <1>2, <1>7 DEF rows, logs, locks
<1>10. stale \subseteq stale' /\ stale' \subseteq Agents
  BY <1>0 DEF Outpaced
<1>11. ASSUME NEW c \in Agents \ stale'
       PROVE  Change(SeenRows, i, c, row, SeenLogs[c], IF c = a THEN e ELSE SeenLogs[c])
  <2>1. CASE c = a
    <3>1. SeenLogs[c].state = "AVAILABLE"
      BY <2>1, Seen DEF Outpaced, RouterInv
    <3>2. ServesNone(SeenRows, c)
      BY <3>1 DEF RouterInv, AgentInv, Sound, Free, ServesNone
    <3> QED
      BY <1>2, <1>3, <2>1, <3>2 DEF Change
  <2>2. CASE c # a
    <3>1. ~Has(SeenRows[i], c) /\ ~Has(row, c)
      BY <1>1, <1>2, <2>2 DEF Has, Live
    <3> QED
      BY <2>2, <3>1 DEF Change
  <2> QED
    BY <2>1, <2>2
<1>12. row.state \in {"QUEUED", "ASSIGNED", "ABANDONED"}
  BY <1>2
<1> QED
  BY <1>1, <1>2, <1>3, <1>7, <1>8, <1>9, <1>10, <1>11, <1>12, RoundWrites

LEMMA RoundPicksType ==
  ASSUME RouterInv, NEW a \in RoundPicks
  PROVE  a = None \/ a \in Agents
  BY DEF RoundPicks, RouterInv, Types, Rounds

LEMMA ReofferKeeps ==
  ASSUME RouterInv, Reoffer
  PROVE  RouterInv'
<1>0. /\ round \in Rounds /\ RoundInv /\ round.pc = "reoffer"
      /\ UNCHANGED <<policy, call, latest, phone, asked, req, faults>>
  BY DEF Reoffer, RouterInv, Types
<1>1. PICK i \in Calls : i = round.i
  BY <1>0 DEF RoundInv
<1>2. Row(i).state = "QUEUED"
  BY <1>0, <1>1 DEF RoundInv, Row
<1>3. PICK a \in RoundPicks :
        /\ round' = Back(IF a = None THEN round ELSE Chosen(i, a), "offers")
        /\ stale' = stale \cup (IF a = None THEN {} ELSE Outpaced(a))
  BY <1>1, Zenon DEF Reoffer, Go, Back
<1>4. CASE a = None
  <2>1. round' = Back(round, "offers") /\ stale' = stale
    BY <1>3, <1>4
  <2>2. /\ round' \in Rounds /\ round'.pc = "offers" /\ round'.todo = round.todo
        /\ round'.rows = round.rows /\ round'.logs = round.logs /\ round'.locks = round.locks
    BY <1>0, <2>1 DEF Rounds, Back
  <2>3. RoundInv'
    BY <1>0, <2>2 DEF RoundInv
  <2> QED
    BY <1>0, <2>1, <2>2, <2>3, RoundReads
<1>5. CASE a # None
  <2>1. a \in Agents /\ round.todo \subseteq Calls \X (Agents \cup {None})
    BY <1>0, <1>5, RoundPicksType DEF RoundInv
  <2>2. round' = Back(Chosen(i, a), "offers") /\ stale' = stale \cup Outpaced(a)
    BY <1>3, <1>5
  <2> QED
    BY <1>0, <1>2, <2>1, <2>2, ChosenKeeps
<1> QED
  BY <1>4, <1>5

LEMMA AssignRequeueKeeps ==
  ASSUME RouterInv, AssignRequeue
  PROVE  RouterInv'
<1>0. /\ round \in Rounds /\ RoundInv /\ round.pc = "assign" /\ round.todo \subseteq Calls
      /\ UNCHANGED <<policy, call, latest, phone, asked, req, faults>>
  BY DEF AssignRequeue, RouterInv, Types, RoundInv
<1>1. PICK i \in Calls : i = round.i
  BY <1>0 DEF RoundInv
<1> DEFINE Held(a) == [round EXCEPT !.locks = @ \cup {a}]
           due == Row(i).state = "QUEUED" /\ Row(i).requeue = "DUE"
<1>2. PICK a \in RoundPicks :
        /\ round' = Back(IF a = None THEN round ELSE IF due THEN Chosen(i, a) ELSE Held(a), "requeues")
        /\ stale' = stale \cup (IF a # None /\ due THEN Outpaced(a) ELSE {})
  BY <1>1, Zenon DEF AssignRequeue, Go, Back
<1>3. CASE a = None
  <2>1. round' = Back(round, "requeues") /\ stale' = stale
    BY <1>2, <1>3
  <2>2. /\ round' \in Rounds /\ round'.pc = "requeues" /\ round'.todo = round.todo
        /\ round'.rows = round.rows /\ round'.logs = round.logs /\ round'.locks = round.locks
    BY <1>0, <2>1 DEF Rounds, Back
  <2>3. RoundInv'
    BY <1>0, <2>2 DEF RoundInv
  <2> QED
    BY <1>0, <2>1, <2>2, <2>3, RoundReads
<1>4. CASE a # None /\ ~due
  <2>1. a \in Agents /\ round' = Back(Held(a), "requeues") /\ stale' = stale
    <3> HIDE DEF Held, due
    <3> QED
      BY <1>2, <1>4, RoundPicksType
  <2>2. /\ round' \in Rounds /\ round'.pc = "requeues" /\ round'.todo = round.todo
        /\ round'.rows = round.rows /\ round'.logs = round.logs /\ round.locks \subseteq round'.locks
    BY <1>0, <2>1 DEF Rounds, Back
  <2>3. RoundInv'
    BY <1>0, <2>2 DEF RoundInv
  <2> QED
    BY <1>0, <2>1, <2>2, <2>3, RoundReads
<1>5. CASE a # None /\ due
  <2>1. a \in Agents /\ round' = Back(Chosen(i, a), "requeues") /\ stale' = stale \cup Outpaced(a)
    <3> HIDE DEF Held, due
    <3> QED
      BY <1>2, <1>5, RoundPicksType
  <2> QED
    BY <1>0, <1>5, <2>1, ChosenKeeps
<1> QED
  BY <1>3, <1>4, <1>5

LEMMA CommitRoundKeeps ==
  ASSUME RouterInv, CommitRound
  PROVE  RouterInv'
<1>0. /\ call' = SeenRows /\ latest' = SeenLogs /\ round' = NoRound
      /\ UNCHANGED <<policy, phone, req, stale>> /\ Types
      /\ Tell({i \in Calls : round.rows[i] # None /\ Row(i).state = "ASSIGNED"})
  BY DEF CommitRound, SeenRows, SeenLogs, Go, RouterInv
<1>1. asked' \subseteq Calls /\ faults' \in 0..MaxFaults
  BY <1>0, TellTypes
<1>2. call' \in [Calls -> Rows] /\ latest' \in [Agents -> Entries] /\ \A i \in Calls : call'[i] = Row(i)
  BY <1>0, Seen
<1>3. SeenRows' = call' /\ SeenLogs' = latest'
  BY <1>0, <1>2, NoRoundType DEF SeenRows, SeenLogs, Row, LogOf
<1>4. RoundInv' /\ round' \in Rounds
  BY <1>0, NoRoundType DEF RoundInv
<1>5. \A i \in Calls : Written(i)'
  BY <1>0, NoRoundType DEF Written
<1>6. \A i \in Calls : Coherent(i, call'[i])
  BY <1>2, SeenRow
<1>7. AgentInv'
  BY <1>0, <1>3 DEF RouterInv, AgentInv
<1>8. ASSUME NEW g \in Handlers, req[g].op = "created" PROVE call'[req[g].i].state = "NONE"
  <2>1. req[g].i \in Calls /\ call[req[g].i].state = "NONE"
    BY <1>8 DEF RouterInv, Ready
  <2>2. round.rows[req[g].i] = None
    BY <2>1 DEF RouterInv, Written
  <2> QED
    BY <1>2, <2>1, <2>2 DEF Row
<1>9. HandlersInv'
  BY <1>0, <1>8, NoHandler
<1>10. Types'
  BY <1>0, <1>1, <1>2, <1>4 DEF Types
<1>11. RowsInv'
  BY <1>5, <1>6 DEF RowsInv
<1> QED
  BY <1>4, <1>7, <1>9, <1>10, <1>11, Together

-----------------------------------------------------------------------------
(* Theorems *)

LEMMA RouterInit == Init => RouterInv
<1> SUFFICES ASSUME Init PROVE RouterInv
  OBVIOUS
<1>1. /\ call = [i \in Calls |-> NoRow] /\ round = NoRound /\ req = [h \in Handlers |-> NoRequest]
      /\ latest \in [Agents -> {Entry("OFFLINE", None), Entry("AVAILABLE", None)}]
  BY DEF Init
<1>2. NoRow \in Rows /\ NoRow.state = "NONE" /\ \A i \in Calls : Coherent(i, NoRow)
  BY DEF NoRow, Rows, States, Coherent
<1>3. NoRequest \in Requests /\ Ready(call, NoRequest) /\ NoRequest.op # "created"
  BY DEF NoRequest, Requests, States, Ready
<1>4. /\ Entry("OFFLINE", None) \in Entries /\ Entry("OFFLINE", None).state = "OFFLINE"
      /\ Entry("AVAILABLE", None) \in Entries /\ Entry("AVAILABLE", None).state = "AVAILABLE"
  BY EntryType
<1>5. latest \in [Agents -> Entries] /\ \A a \in Agents : latest[a].state # "RESERVED"
  BY <1>1, <1>4
<1>6. call \in [Calls -> Rows] /\ \A i \in Calls : call[i] = NoRow
  BY <1>1, <1>2
<1>7. Types
  BY <1>1, <1>3, <1>5, <1>6, NoRoundType, RouterConstants DEF Init, Types
<1>8. (\A h \in Handlers : Ready(call, req[h])) /\ OneCreator
  BY <1>1, <1>3 DEF OneCreator
<1>9. \A i \in Calls : Coherent(i, call[i]) /\ Written(i)
  BY <1>1, <1>2, <1>6, NoRoundType DEF Written
<1>10. RoundInv
  BY <1>1, NoRoundType DEF RoundInv
<1>11. SeenRows = call /\ SeenLogs = latest
  BY <1>1, <1>5, <1>6, NoRoundType DEF SeenRows, SeenLogs, Row, LogOf
<1>12. \A a \in Agents : Sound(call, latest, a)
  BY <1>2, <1>5, <1>6 DEF Sound, ServesIn, Live
<1>13. AgentInv
  BY <1>11, <1>12 DEF AgentInv
<1> QED
  BY <1>7, <1>8, <1>9, <1>10, <1>13 DEF RouterInv

\* The operations, by who performs them.
LEMMA HandlerStepKeeps ==
  ASSUME RouterInv, NEW h \in Handlers,
         \/ \E i \in Calls :
              \/ BeginCreated(h, i) \/ BeginAnswered(h, i) \/ BeginHangup(h, i)
              \/ \E timeout \in BOOLEAN : BeginInput(h, i, timeout)
              \/ BeginDecline(h, i)
         \/ \E a \in Agents : BeginClose(h, a)
         \/ EventStep(h) \/ AbortRequest(h)
  PROVE  RouterInv'
<1>1. CASE EventStep(h)
  BY <1>1, FinishCreatedKeeps, FinishAnsweredKeeps, FinishHangupKeeps, RouteInputKeeps,
     ResolveInputKeeps, FinishDeclineKeeps, FinishCloseKeeps DEF EventStep
<1> QED
  BY <1>1, BeginCreatedKeeps, BeginsKeep, BeginCloseKeeps, AbortRequestKeeps

LEMMA RouterStep ==
  ASSUME RouterInv, [Next]_vars
  PROVE  RouterInv'
<1>1. CASE UNCHANGED vars
  <2>1. UNCHANGED <<policy, call, latest, phone, asked, round, req, stale, faults>>
    BY <1>1 DEF vars
  <2>2. /\ phone' \in [Calls -> {"NONE", "UP", "GONE", "HEARD"}] /\ asked' \subseteq Calls
        /\ faults' \in 0..MaxFaults
    BY <2>1 DEF RouterInv, Types
  <2> QED
    BY <2>1, <2>2, AsideKeeps
<1>2. CASE RoundStep
  BY <1>2, StartAbortKeep, TimeOutOfferKeeps, ReadingsKeep, ReofferKeeps, ReleaseCooldownsKeeps,
     AssignRequeueKeeps, EndWaitKeeps, CommitRoundKeeps DEF RoundStep
<1>3. CASE Next
  BY <1>2, <1>3, HandlerStepKeeps, StartAbortKeep, AgentRequestsKeep, CallersKeep, CallDueKeeps,
     CooldownDueKeeps DEF Next
<1> QED
  BY <1>1, <1>3

\* The inductive invariant holds throughout.
THEOREM RouterInvariance == Spec => []RouterInv
<1>1. Init => RouterInv
  BY RouterInit
<1>2. RouterInv /\ [Next]_vars => RouterInv'
  BY RouterStep
<1> QED
  BY <1>1, <1>2, PTL DEF Spec

\* The columns of every direct call's row agree, and everything has its type,
\* whatever handlers and the timer interleave.
THEOREM RowsCoherent == Spec => []RowCoherent
<1>1. RouterInv => RowCoherent
  <2> SUFFICES ASSUME RouterInv PROVE RowCoherent
    OBVIOUS
  <2>1. RTypeOK
    <3>1. round \in Rounds /\ req \in [Handlers -> Requests] /\ \A h \in Handlers : Ready(call, req[h])
      BY DEF RouterInv, Types
    <3>2. /\ round.rows \in [Calls -> Rows \cup {None}] /\ round.logs \in [Agents -> Entries \cup {None}]
          /\ round.locks \subseteq Agents /\ round.cand \subseteq Agents
      BY <3>1 DEF Rounds
    <3>3. \A h \in Handlers : /\ req[h].op \notin {"idle", "close"} => req[h].i \in Calls
                              /\ req[h].cand \subseteq Agents
                              /\ req[h].agent \in Agents \cup {None}
      BY <3>1 DEF Requests, Ready
    <3> QED
      BY <3>2, <3>3 DEF RTypeOK, RouterInv, Types
  <2>2. \A i \in Calls \ Ivr : Coherent(i, call[i])
    BY DEF RouterInv
  <2> QED
    BY <2>1, <2>2 DEF RowCoherent, Coherent
<1> QED
  BY <1>1, RouterInvariance, PTL

\* Nobody serves two calls, except an agent about whom a transaction acted on
\* an outdated reading.
THEOREM OneCallPerAgent == Spec => []OneCallEach
<1>1. RouterInv => OneCallEach
  <2> SUFFICES ASSUME RouterInv, NEW a \in Agents \ stale
               PROVE  Cardinality({i \in Calls : Serves(a, i)}) <= 1
    BY DEF OneCallEach
  <2> DEFINE S == {i \in Calls : Serves(a, i)}
  <2>1. \A i, j \in S : i = j
    BY DEF RouterInv, AgentInv, Sound, ServesIn, Serves
  <2> HIDE DEF S
  <2>2. CASE S = {}
    BY <2>2, FS_EmptySet DEF S
  <2>3. CASE S # {}
    <3>1. PICK i : S = {i}
      BY <2>1, <2>3
    <3>2. Cardinality(S) = 1
      BY <3>1, FS_Singleton
    <3> QED
      BY <3>2 DEF S
  <2> QED
    BY <2>2, <2>3
<1> QED
  BY <1>1, RouterInvariance, PTL

\* Whoever is RESERVED has that call on offer, with the same exception.
THEOREM ReservationsAreOffers == Spec => []ReservedIsOffered
<1>1. RouterInv => ReservedIsOffered
  BY DEF RouterInv, AgentInv, Sound, ReservedIsOffered
<1> QED
  BY <1>1, RouterInvariance, PTL

\* A row that is in conversation, or over, goes only forward and keeps its agent.
Forward(x, y) ==
  /\ x.state = "ACTIVE" => y.state \in {"ACTIVE", "WRAPUP"}
  /\ x.state = "WRAPUP" => y.state \in {"WRAPUP", "COMPLETED"}
  /\ x.state \in {"ACTIVE", "WRAPUP"} => y.agent = x.agent
  /\ x.state \in {"COMPLETED", "ABANDONED"} => y.state = x.state

AllForward == \A i \in Calls \ Ivr : Forward(call[i], call'[i])

LEMMA WriteForward ==
  ASSUME RouterInv, NEW i \in Calls, NEW row, Write(i, row), i \in Ivr \/ Forward(call[i], row)
  PROVE  AllForward
<1>1. call \in [Calls -> Rows]
  BY DEF RouterInv, Types
<1>2. call'[i] = row /\ \A j \in Calls \ {i} : call'[j] = call[j]
  BY <1>1 DEF Write
<1>3. \A j \in Calls : Forward(call[j], call[j])
  BY DEF Forward
<1> QED
  BY <1>2, <1>3 DEF AllForward

\* A row still waiting or on offer may become anything.
LEMMA EarlyForward ==
  ASSUME RouterInv, NEW i \in Calls, NEW row, Write(i, row),
         i \in Ivr \/ call[i].state \in {"NONE", "QUEUED", "ASSIGNED"}
  PROVE  AllForward
<1>1. call[i].state \in {"NONE", "QUEUED", "ASSIGNED"} => Forward(call[i], row)
  BY DEF Forward
<1> QED
  BY <1>1, WriteForward

LEMMA SameForward ==
  ASSUME call' = call
  PROVE  AllForward
  BY DEF AllForward, Forward

LEMMA EventForward ==
  ASSUME RouterInv, NEW h \in Handlers, EventStep(h)
  PROVE  AllForward
<1>0. Ready(call, req[h])
  BY DEF RouterInv
<1>1. CASE FinishCreated(h)
  <2>1. req[h].i \in Calls /\ call[req[h].i].state = "NONE"
    BY <1>0, <1>1 DEF FinishCreated, Ready
  <2>2. PICK row : Write(req[h].i, row)
    BY <1>1 DEF FinishCreated
  <2> QED
    BY <2>1, <2>2, EarlyForward
<1>2. CASE FinishAnswered(h)
  <2>1. req[h].i \in Calls
    BY <1>0, <1>2 DEF FinishAnswered, Ready
  <2>2. CASE call' = call
    BY <2>2, SameForward
  <2>3. CASE call[req[h].i].state = "ASSIGNED" /\ \E row : Write(req[h].i, row)
    BY <2>1, <2>3, EarlyForward
  <2> QED
    BY <1>2, <2>2, <2>3 DEF FinishAnswered
<1>3. CASE FinishHangup(h)
  <2>1. PICK i \in Calls : i = req[h].i
    BY <1>0, <1>3 DEF FinishHangup, Ready
  <2>2. CASE call' = call
    BY <2>2, SameForward
  <2> DEFINE row == [call[i] EXCEPT !.state = "WRAPUP"]
  <2>3. CASE call[i].state = "ACTIVE" /\ Write(i, row)
    <3>1. row.state = "WRAPUP" /\ row.agent = call[i].agent
      BY DEF RouterInv, Types, Rows
    <3> HIDE DEF row
    <3>2. Forward(call[i], row)
      BY <2>3, <3>1 DEF Forward
    <3> QED
      BY <2>3, <3>2, WriteForward
  <2>4. CASE call[i].state \in {"QUEUED", "ASSIGNED"} /\ \E new : Write(i, new)
    BY <2>4, EarlyForward
  <2>5. call[i].state = req[h].state => call[i].state \in {"QUEUED", "ASSIGNED", "ACTIVE"}
    BY <1>0, <1>3, <2>1 DEF FinishHangup, Ready
  <2> HIDE DEF row
  <2>6. \/ call' = call
        \/ call[i].state = "ACTIVE" /\ Write(i, row)
        \/ call[i].state \in {"QUEUED", "ASSIGNED"} /\ \E new : Write(i, new)
    BY <1>3, <2>1, <2>5 DEF FinishHangup, row
  <2> QED
    BY <2>2, <2>3, <2>4, <2>6
<1>4. CASE RouteInput(h) \/ ResolveInput(h)
  <2>1. req[h].i \in Calls /\ req[h].i \in Ivr
    BY <1>0, <1>4 DEF RouteInput, ResolveInput, Ready
  <2>2. call' = call \/ \E row : Write(req[h].i, row)
    BY <1>4 DEF RouteInput, ResolveInput
  <2> QED
    BY <2>1, <2>2, EarlyForward, SameForward
<1>5. CASE FinishDecline(h)
  <2>1. req[h].i \in Calls
    BY <1>0, <1>5 DEF FinishDecline, Ready
  <2>2. call' = call \/ (call[req[h].i].state = "ASSIGNED" /\ \E row : Write(req[h].i, row))
    BY <1>5, Zenon DEF FinishDecline
  <2> QED
    BY <2>1, <2>2, EarlyForward, SameForward
<1>6. CASE FinishClose(h)
  BY <1>6, SameForward DEF FinishClose
<1> QED
  BY <1>1, <1>2, <1>3, <1>4, <1>5, <1>6 DEF EventStep

LEMMA RoundForward ==
  ASSUME RouterInv, RoundStep
  PROVE  AllForward
<1>1. CASE CommitRound
  <2> SUFFICES ASSUME NEW i \in Calls PROVE Forward(call[i], call'[i])
    BY DEF AllForward
  <2>1. call'[i] = Row(i) /\ Written(i)
    BY <1>1 DEF CommitRound, RouterInv
  <2>2. CASE round.rows[i] = None
    BY <2>1, <2>2 DEF Row, Forward
  <2>3. CASE round.rows[i] # None
    BY <2>1, <2>3 DEF Written, Forward
  <2> QED
    BY <2>2, <2>3
<1>2. CASE ~CommitRound
  <2>1. call' = call
    BY <1>2, Zenon DEF RoundStep, StartRound, TimeOutOffer, QueryAgents, Reoffer, ReleaseCooldowns,
                BeginRequeue, AssignRequeue, ReadWaits, EndWait
  <2> QED
    BY <2>1, SameForward
<1> QED
  BY <1>1, <1>2

LEMMA OthersForward ==
  ASSUME RouterInv, NEW i \in Calls,
         CompleteWrapUp(i) \/ CallDue(i) \/ \E a \in Agents : TakeOver(a, i)
  PROVE  AllForward
<1>0. call[i] \in Rows
  BY DEF RouterInv, Types
<1>1. CASE CompleteWrapUp(i)
  <2> DEFINE row == [call[i] EXCEPT !.state = "COMPLETED"]
  <2>1. Write(i, row) /\ call[i].state = "WRAPUP"
    BY <1>1 DEF CompleteWrapUp
  <2>2. row.state = "COMPLETED" /\ row.agent = call[i].agent
    BY <1>0 DEF Rows
  <2> HIDE DEF row
  <2>3. Forward(call[i], row)
    BY <2>1, <2>2 DEF Forward
  <2> QED
    BY <2>1, <2>3, WriteForward
<1>2. CASE CallDue(i)
  <2>1. PICK row : /\ Write(i, row)
                   /\ \/ row = [call[i] EXCEPT !.offer = "DUE"]
                      \/ row = [call[i] EXCEPT !.requeue = "DUE"]
                      \/ row = [call[i] EXCEPT !.ivr = "DUE"]
                      \/ row = [call[i] EXCEPT !.over = TRUE]
    BY <1>2 DEF CallDue
  <2>2. row.state = call[i].state /\ row.agent = call[i].agent
    BY <1>0, <2>1 DEF Rows
  <2>3. Forward(call[i], row)
    BY <2>2 DEF Forward
  <2> QED
    BY <2>1, <2>3, WriteForward
<1>3. CASE \E a \in Agents : TakeOver(a, i)
  <2>1. call[i].state = "ASSIGNED" /\ \E row : Write(i, row)
    BY <1>3 DEF TakeOver
  <2> QED
    BY <2>1, EarlyForward
<1> QED
  BY <1>1, <1>2, <1>3

LEMMA BeginForward ==
  ASSUME RouterInv, NEW h \in Handlers,
         \/ \E i \in Calls :
              \/ BeginCreated(h, i) \/ BeginAnswered(h, i) \/ BeginHangup(h, i)
              \/ \E timeout \in BOOLEAN : BeginInput(h, i, timeout)
              \/ BeginDecline(h, i)
         \/ \E a \in Agents : BeginClose(h, a)
         \/ AbortRequest(h)
  PROVE  AllForward
<1>1. ASSUME NEW i \in Calls, BeginCreated(h, i) PROVE AllForward
  <2>1. call' = call \/ (call[i].state = "NONE" /\ \E row : Write(i, row))
    BY <1>1, Zenon DEF BeginCreated
  <2> QED
    BY <2>1, EarlyForward, SameForward
<1>2. CASE \E i \in Calls : BeginAnswered(h, i) \/ BeginHangup(h, i) \/ BeginDecline(h, i)
  <2>1. call' = call
    BY <1>2 DEF BeginAnswered, BeginHangup, BeginDecline
  <2> QED
    BY <2>1, SameForward
<1>3. CASE \E i \in Calls, timeout \in BOOLEAN : BeginInput(h, i, timeout)
  <2>1. call' = call
    BY <1>3 DEF BeginInput
  <2> QED
    BY <2>1, SameForward
<1>4. CASE (\E a \in Agents : BeginClose(h, a)) \/ AbortRequest(h)
  <2>1. call' = call
    BY <1>4, Zenon DEF BeginClose, AbortRequest
  <2> QED
    BY <2>1, SameForward
<1> QED
  BY <1>1, <1>2, <1>3, <1>4

\* No handler that read the row earlier, and no round of the timer, takes a
\* conversation from its agent or revives a call that is over.
THEOREM ConversationsFinal == Spec => ConversationFinal
<1>1. RouterInv /\ [Next]_vars => AllForward
  <2> SUFFICES ASSUME RouterInv, [Next]_vars PROVE AllForward
    OBVIOUS
  <2>1. CASE UNCHANGED vars
    BY <2>1, SameForward DEF vars
  <2>2. CASE RoundStep
    BY <2>2, RoundForward
  <2>3. CASE AbortRound \/ (\E i \in Calls : Dial(i) \/ HangUp(i))
             \/ (\E a \in Agents : SelfAvailable(a) \/ CooldownDue(a))
    <3>1. call' = call
      BY <2>3 DEF AbortRound, Dial, HangUp, SelfAvailable, CooldownDue
    <3> QED
      BY <3>1, SameForward
  <2>4. CASE \/ \E i \in Calls : CompleteWrapUp(i) \/ CallDue(i)
             \/ \E a \in Agents, i \in Calls : TakeOver(a, i)
    BY <2>4, OthersForward
  <2>5. ASSUME NEW h \in Handlers, EventStep(h) PROVE AllForward
    BY <2>5, EventForward
  <2>6. CASE Next
    BY <2>2, <2>3, <2>4, <2>5, <2>6, BeginForward DEF Next
  <2> QED
    BY <2>1, <2>6
<1>2. RouterInv /\ [Next]_vars =>
        [\A i \in Calls \ Ivr :
           /\ call[i].state = "ACTIVE" => call'[i].state \in {"ACTIVE", "WRAPUP"}
           /\ call[i].state = "WRAPUP" => call'[i].state \in {"WRAPUP", "COMPLETED"}
           /\ call[i].state \in {"ACTIVE", "WRAPUP"} => call'[i].agent = call[i].agent
           /\ call[i].state \in {"COMPLETED", "ABANDONED"} => call'[i].state = call[i].state]_vars
  BY <1>1 DEF AllForward, Forward
<1> QED
  BY <1>2, RouterInvariance, PTL DEF Spec, ConversationFinal

=============================================================================
