------------------------------ MODULE WebhookQueue ------------------------------
(***************************************************************************)
(* The durable webhook queues of the base: an event of a race (a lap, a    *)
(* grid change, a mark rounding, a foul, a new transponder code) is stored *)
(* in its kind's queue (src/src/lapWebhookQueue.js and its four siblings)  *)
(* and sent to RegattaUp by one loop of src/src/baseStation.js that sends  *)
(* at most one request per tick, round-robin over the queues, until the    *)
(* backend accepts it.                                                     *)
(*                                                                         *)
(* Every operation of a queue saves its whole database before it returns,  *)
(* so "stored" is both the database and its file. One step of Drain is one *)
(* tick of the loop and the unit of time of the retry backoff.             *)
(***************************************************************************)
EXTENDS Integers, Sequences, FiniteSets

CONSTANTS
  Queues,       \* how many queues there are, numbered from 0
  Events,       \* the events that may be detected
  QueueOf,      \* QueueOf[e]: the queue event e belongs to
  MaxInFlight,  \* requests that may be outstanding, over all queues
  MaxBackoff,   \* the longest wait before a retry
  MaxAttempts,  \* attempts are told apart up to here: their wait is the longest
  MaxCrashes    \* bound: how often the base is killed and started again

PowerOf2[n \in 0 .. MaxAttempts] == IF n = 0 THEN 1 ELSE 2 * PowerOf2[n - 1]

ASSUME WebhookQueueAssumption ==
  /\ Queues \in Nat \ {0}
  /\ QueueOf \in [Events -> 0 .. Queues - 1]
  /\ MaxInFlight \in Nat \ {0}
  /\ MaxBackoff \in Nat \ {0}
  /\ MaxAttempts \in Nat \ {0}
  /\ PowerOf2[MaxAttempts] >= MaxBackoff
  /\ MaxCrashes \in Nat

Kinds   == 0 .. Queues - 1
Replies == {"none", "ok", "error"}

VARIABLES
  ready,     \* the queues whose database has been opened
  corrupt,   \* the queues whose database file cannot be read
  stored,    \* stored[q]: the rows of queue q, each with the id it got (AUTOINCREMENT)
  lastId,    \* lastId[q]: the last id queue q gave a row
  buffered,  \* buffered[q]: events that came before queue q was ready
  attempts,  \* attempts[e]: recorded attempts to send e (MaxAttempts: or more)
  rest,      \* rest[e]: ticks before e is due for a retry
  cursor,    \* the queue the next tick looks at first
  requests,  \* the outstanding requests: the row sent, the attempt, the reply so far
  \* what has happened
  recorded,  \* the events that were stored in their queue
  accepted,  \* accepted[e]: how often the backend accepted e (2: more than once)
  unsure,    \* the events a request of which ended without the base learning the reply
  crashes    \* how often the base was killed

baseVars == <<ready, buffered, cursor, requests>>
diskVars == <<corrupt, stored, lastId, attempts, rest>>
seenVars == <<recorded, accepted, unsure, crashes>>
vars     == <<baseVars, diskVars, seenVars>>

Rows       == [id : Nat \ {0}, event : Events]
Requests   == [row : Rows, attempt : 1 .. MaxAttempts, reply : Replies]
InFlight   == {r.row.event : r \in requests}
Waiting(q) == {buffered[q][i] : i \in DOMAIN buffered[q]}
Detected   == recorded \cup UNION {Waiting(q) : q \in Kinds}

Backoff(n) == IF PowerOf2[n] < MaxBackoff THEN PowerOf2[n] ELSE MaxBackoff

Init ==
  /\ ready = {}
  /\ corrupt = {}
  /\ stored = [q \in Kinds |-> {}]
  /\ lastId = [q \in Kinds |-> 0]
  /\ buffered = [q \in Kinds |-> <<>>]
  /\ attempts = [e \in Events |-> 0]
  /\ rest = [e \in Events |-> 0]
  /\ cursor = 0
  /\ requests = {}
  /\ recorded = {}
  /\ accepted = [e \in Events |-> 0]
  /\ unsure = {}
  /\ crashes = 0

-------------------------------------------------------------------------------
(* Opening a queue, which takes a while after the start, and storing events.*)

Stores(q, events) ==
  /\ stored' = [stored EXCEPT ![q] = @ \cup {[id |-> lastId[q] + i, event |-> events[i]] : i \in DOMAIN events}]
  /\ lastId' = [lastId EXCEPT ![q] = @ + Len(events)]
  /\ recorded' = recorded \cup {events[i] : i \in DOMAIN events}

Open(q) ==
  /\ q \notin ready \cup corrupt
  /\ ready' = ready \cup {q}
  /\ Stores(q, buffered[q])
  /\ buffered' = [buffered EXCEPT ![q] = <<>>]
  /\ UNCHANGED <<cursor, requests, corrupt, attempts, rest, accepted, unsure, crashes>>

DetectReady(e) ==
  /\ e \notin Detected
  /\ QueueOf[e] \in ready
  /\ Stores(QueueOf[e], <<e>>)
  /\ UNCHANGED <<baseVars, corrupt, attempts, rest, accepted, unsure, crashes>>

DetectEarly(e) ==
  /\ e \notin Detected
  /\ QueueOf[e] \notin ready
  /\ buffered' = [buffered EXCEPT ![QueueOf[e]] = Append(@, e)]
  /\ UNCHANGED <<ready, cursor, requests, diskVars, seenVars>>

-------------------------------------------------------------------------------
(* drainOneWebhook: one tick of the loop.                                  *)

\* Mutant of Due: a row whose backoff is up is sent whether or not it is under way.
DueAgain(q) == {row \in stored[q] : rest[row.event] = 0}

\* The rows of queue q that may be sent now.
Due(q) == {row \in stored[q] : rest[row.event] = 0 /\ row.event \notin InFlight}

\* Mutant of Picks: the queues are always looked at from the first one on.
PicksFirst(q) ==
  LET sendable == {p \in ready : Due(p) # {}}
  IN  q \in sendable /\ \A p \in sendable : q <= p

\* The first queue from the cursor on that has such a row.
Picks(q) ==
  LET distance(p) == (p - cursor) % Queues
      sendable    == {p \in ready : Due(p) # {}}
  IN  q \in sendable /\ \A p \in sendable : distance(q) <= distance(p)

Older == [e \in Events |-> IF rest[e] > 0 THEN rest[e] - 1 ELSE 0]

\* The row's attempt is recorded before its request goes out.
Send(q) ==
  /\ Cardinality(InFlight) < MaxInFlight
  /\ Picks(q)
  /\ \E row \in Due(q) :
       LET e == row.event
           n == IF attempts[e] < MaxAttempts THEN attempts[e] + 1 ELSE attempts[e]
       IN  /\ \A other \in Due(q) : row.id <= other.id
           /\ attempts' = [attempts EXCEPT ![e] = n]
           /\ rest' = [Older EXCEPT ![e] = Backoff(n)]
           /\ requests' = requests \cup {[row |-> row, attempt |-> n, reply |-> "none"]}
  /\ cursor' = (q + 1) % Queues
  /\ UNCHANGED <<ready, buffered, corrupt, stored, lastId, seenVars>>

Idle ==
  /\ Cardinality(InFlight) >= MaxInFlight \/ \A q \in ready : Due(q) = {}
  /\ rest' = Older
  /\ UNCHANGED <<baseVars, corrupt, stored, lastId, attempts, seenVars>>

Drain == Idle \/ \E q \in Kinds : Send(q)

-------------------------------------------------------------------------------
(* A request: the backend's part, and how sendQueued... ends.              *)

Answered(r, reply) == requests' = (requests \ {r}) \cup {[r EXCEPT !.reply = reply]}

BackendAccepts(e) ==
  \E r \in requests :
    /\ r.row.event = e
    /\ r.reply = "none"
    /\ Answered(r, "ok")
    /\ accepted' = [accepted EXCEPT ![e] = IF @ < 2 THEN @ + 1 ELSE @]
    /\ UNCHANGED <<ready, buffered, cursor, diskVars, recorded, unsure, crashes>>

BackendRefuses(e) ==
  \E r \in requests :
    /\ r.row.event = e
    /\ r.reply = "none"
    /\ Answered(r, "error")
    /\ UNCHANGED <<ready, buffered, cursor, diskVars, seenVars>>

\* Mutant of Finish: the row goes whatever the reply is.
FinishAnyway(e) ==
  \E r \in requests :
    /\ r.row.event = e
    /\ r.reply # "none"
    /\ requests' = requests \ {r}
    /\ stored' = [stored EXCEPT ![QueueOf[e]] = @ \ {r.row}]
    /\ UNCHANGED <<ready, buffered, cursor, corrupt, lastId, attempts, rest, seenVars>>

\* Mutant of Finish: the row of an accepted event stays.
FinishKeepingRow(e) ==
  \E r \in requests :
    /\ r.row.event = e
    /\ r.reply # "none"
    /\ requests' = requests \ {r}
    /\ UNCHANGED <<ready, buffered, cursor, diskVars, seenVars>>

\* The reply comes: the row of an accepted event is removed.
Finish(e) ==
  \E r \in requests :
    /\ r.row.event = e
    /\ r.reply # "none"
    /\ requests' = requests \ {r}
    /\ stored' = IF r.reply = "ok" THEN [stored EXCEPT ![QueueOf[e]] = @ \ {r.row}] ELSE stored
    /\ UNCHANGED <<ready, buffered, cursor, corrupt, lastId, attempts, rest, seenVars>>

\* No reply in time, whatever the backend did with the request.
TimeOut(e) ==
  \E r \in requests :
    /\ r.row.event = e
    /\ requests' = requests \ {r}
    /\ unsure' = unsure \cup {e}
    /\ UNCHANGED <<ready, buffered, cursor, diskVars, recorded, accepted, crashes>>

-------------------------------------------------------------------------------
(* The base is killed and starts again: what is only in memory is gone. If *)
(* it is writing the file of queue q then, the file is left empty, which   *)
(* opens as an empty database, or is no database any more.                 *)
Killed ==
  /\ crashes < MaxCrashes
  /\ crashes' = crashes + 1
  /\ ready' = {}
  /\ buffered' = [q \in Kinds |-> <<>>]
  /\ cursor' = 0
  /\ requests' = {}
  /\ unsure' = unsure \cup InFlight
  /\ UNCHANGED <<attempts, rest, recorded, accepted>>

Crash == Killed /\ UNCHANGED <<corrupt, stored, lastId>>

CrashSaving(q) ==
  /\ q \in ready
  /\ Killed
  /\ \/ /\ stored' = [stored EXCEPT ![q] = {}]
        /\ lastId' = [lastId EXCEPT ![q] = 0]
        /\ UNCHANGED corrupt
     \/ /\ corrupt' = corrupt \cup {q}
        /\ UNCHANGED <<stored, lastId>>

Next ==
  \/ \E q \in Kinds : Open(q)
  \/ \E e \in Events : DetectReady(e) \/ DetectEarly(e)
  \/ Drain
  \/ \E e \in Events : BackendAccepts(e) \/ BackendRefuses(e) \/ Finish(e) \/ TimeOut(e)
  \/ Crash
  \/ \E q \in Kinds : CrashSaving(q)

Spec == Init /\ [][Next]_vars

(* The loop keeps ticking, a database opens some time, every request ends  *)
(* (AbortSignal.timeout), and of the events in Heard the backend does not  *)
(* refuse or fail to answer every single request.                          *)
Fairness(Heard) ==
  /\ WF_vars(Drain)
  /\ \A q \in Kinds : WF_vars(Open(q))
  /\ \A e \in Events : WF_vars(Finish(e)) /\ WF_vars(TimeOut(e))
  /\ \A e \in Heard : SF_vars(BackendAccepts(e))

-------------------------------------------------------------------------------
(* Properties.                                                             *)

\* Every variable has its type.
TypeOK ==
  /\ ready \in SUBSET Kinds
  /\ corrupt \in SUBSET Kinds
  /\ stored \in [Kinds -> SUBSET Rows]
  /\ lastId \in [Kinds -> Nat]
  /\ buffered \in [Kinds -> Seq(Events)]
  /\ attempts \in [Events -> 0 .. MaxAttempts]
  /\ rest \in [Events -> 0 .. MaxBackoff]
  /\ cursor \in Kinds
  /\ requests \in SUBSET Requests
  /\ recorded \in SUBSET Events
  /\ accepted \in [Events -> 0 .. 2]
  /\ unsure \in SUBSET Events
  /\ crashes \in 0 .. MaxCrashes

\* An event once recorded is in its queue until the backend has accepted it:
\* no failure, restart or retry "ever silently loses a lap"
\* (lapWebhookQueue.js:5).
NothingLost ==
  \A e \in recorded : accepted[e] = 0 => /\ \E row \in stored[QueueOf[e]] : row.event = e
                                         /\ QueueOf[e] \notin corrupt

\* And only one thing loses it: while e waits for the backend no step takes its
\* row away but a kill in the middle of a save of its own queue (a restart, a second
\* attempt, the reply to another event or a torn save of the other queue does not).
Queued(e) == \E row \in stored[QueueOf[e]] : row.event = e
OnlyTornSavesLose ==
  [][\A e \in recorded : Queued(e) /\ accepted'[e] = 0 /\ ~Queued(e)'
                         => CrashSaving(QueueOf[e])]_vars

\* The backend is never given more requests than MaxInFlight at a time, nor two
\* at a time for one event, however late the replies are (drainOneWebhook).
BackendNotFlooded ==
  /\ Cardinality(InFlight) <= MaxInFlight
  /\ \A r, s \in requests : r.row.event = s.row.event => r = s

\* The backend accepts an event twice only if an earlier reply never reached
\* the base: retries alone duplicate nothing.
DuplicatesOnlyAfterLoss ==
  \A e \in Events : accepted[e] > 1 => e \in unsure

\* An event recorded is accepted some time, if the backend does not refuse
\* that event for ever, even when it refuses those of the other queues, and
\* unless a torn save of its own queue loses it (OnlyTornSavesLose).
Delivered(Heard) ==
  \A e \in Heard : e \in recorded ~> accepted[e] > 0 \/ ~Queued(e) \/ QueueOf[e] \in corrupt
===============================================================================
