--------------------------- MODULE WebhookQueueProofs ---------------------------
(***************************************************************************)
(* Theorems about WebhookQueue, for any number of queues, events, requests *)
(* and crashes. The inductive invariant says what a row, a request and the *)
(* acceptance of an event have to do with each other (Books): a row is of  *)
(* a recorded event and the only one of its event, a request is for a row  *)
(* that is still stored, and an event accepted once, no reply of which was *)
(* missed, has either lost its row or its good reply is on the way.        *)
(*                                                                         *)
(* Of TypeOK it takes only what that argument needs (Types): the retry     *)
(* clock plays no part in it, and has its types proved at the end.         *)
(***************************************************************************)
EXTENDS WebhookQueue, FiniteSetTheorems, WellFoundedInduction, TLAPS

USE WebhookQueueAssumption

Types ==
  /\ stored \in [Kinds -> SUBSET Rows]
  /\ buffered \in [Kinds -> Seq(Events)]
  /\ lastId \in [Kinds -> Nat]
  /\ attempts \in [Events -> 0 .. MaxAttempts]
  /\ requests \in SUBSET Requests
  /\ recorded \in SUBSET Events
  /\ accepted \in [Events -> 0 .. 2]

\* The rows of a queue are of recorded events of its kind, one of each.
RowsSound ==
  \A q \in Kinds : \A x \in stored[q] :
    /\ QueueOf[x.event] = q
    /\ x.event \in recorded
    /\ \A y \in stored[q] : x.event = y.event => x = y

\* The events that wait for their queue to open are not recorded yet.
BufferSound ==
  \A q \in Kinds : \A i \in DOMAIN buffered[q] :
    /\ QueueOf[buffered[q][i]] = q
    /\ buffered[q][i] \notin recorded
    /\ \A j \in DOMAIN buffered[q] : buffered[q][i] = buffered[q][j] => i = j

\* A request is for a row still stored, the only one of its event, and a good
\* reply tells of an acceptance.
RequestsSound ==
  \A r \in requests :
    /\ r.row \in stored[QueueOf[r.row.event]]
    /\ r.reply = "ok" => accepted[r.row.event] > 0
    /\ \A s \in requests : r.row.event = s.row.event => r = s

\* An event accepted was recorded, and unless a reply was missed it was accepted
\* once, and its row is gone or about to be removed.
AcceptedSound ==
  \A e \in Events :
    /\ accepted[e] > 0 => e \in recorded
    /\ e \notin unsure /\ accepted[e] > 0 =>
         /\ accepted[e] = 1
         /\ \/ \A row \in stored[QueueOf[e]] : row.event # e
            \/ \E r \in requests : r.row.event = e /\ r.reply = "ok"

Books == Types /\ RowsSound /\ BufferSound /\ RequestsSound /\ AcceptedSound

LEMMA KindsType == /\ 0 \in Kinds
                   /\ \A q \in Kinds : (q + 1) % Queues \in Kinds
                   /\ \A e \in Events : QueueOf[e] \in Kinds
BY DEF Kinds

-------------------------------------------------------------------------------
(* Storing new events.                                                     *)

\* Events that are not recorded, each once, of the queue's own kind: storing
\* them keeps the books, whatever is or is not left in the buffer of q.
LEMMA StoresKeepsBooks ==
  ASSUME Books, NEW q \in Kinds, NEW events \in Seq(Events), Stores(q, events),
         \A i \in DOMAIN events : QueueOf[events[i]] = q /\ events[i] \notin recorded,
         \A i, j \in DOMAIN events : events[i] = events[j] => i = j,
         buffered' \in [Kinds -> Seq(Events)],
         \A p \in Kinds : \A i \in DOMAIN buffered'[p] :
           /\ buffered'[p] = buffered[p]
           /\ \A j \in DOMAIN events : buffered[p][i] # events[j],
         UNCHANGED <<attempts, requests, accepted, unsure>>
  PROVE  Books'
<1> DEFINE new == {[id |-> lastId[q] + i, event |-> events[i]] : i \in DOMAIN events}
<1>0. /\ stored' = [stored EXCEPT ![q] = @ \cup new]
      /\ lastId' = [lastId EXCEPT ![q] = @ + Len(events)]
      /\ recorded' = recorded \cup {events[i] : i \in DOMAIN events}
  BY DEF Stores
<1>1. new \subseteq Rows
  BY DEF Rows, Books, Types
<1>2. ASSUME NEW x \in new
      PROVE  \E i \in DOMAIN events : x.event = events[i]
  <2>1. PICK i \in DOMAIN events : x = [id |-> lastId[q] + i, event |-> events[i]]
    OBVIOUS
  <2> QED BY <2>1
<1>3. \A p \in Kinds : stored'[p] = IF p = q THEN stored[q] \cup new ELSE stored[p]
  BY <1>0 DEF Books, Types
<1>4. Types'
  <2>1. stored' \in [Kinds -> SUBSET Rows]
    BY <1>0, <1>1 DEF Books, Types
  <2>2. recorded' \in SUBSET Events /\ lastId' \in [Kinds -> Nat]
    BY <1>0 DEF Books, Types
  <2> QED BY <2>1, <2>2 DEF Books, Types
<1>5. RowsSound'
  <2> SUFFICES ASSUME NEW p \in Kinds, NEW x \in stored'[p]
               PROVE  /\ QueueOf[x.event] = p
                      /\ x.event \in recorded'
                      /\ \A y \in stored'[p] : x.event = y.event => x = y
    BY DEF RowsSound
  <2>1. CASE p # q
    BY <1>0, <1>3, <2>1 DEF Books, RowsSound
  <2>2. CASE p = q /\ x \in stored[q]
    <3>1. x.event \in recorded
      BY <2>2 DEF Books, RowsSound
    <3>2. \A y \in new : y.event # x.event
      BY <1>2, <3>1
    <3> QED BY <1>0, <1>3, <2>2, <3>1, <3>2 DEF Books, RowsSound
  <2>3. CASE p = q /\ x \in new
    <3>1. x.event \notin recorded /\ x.event \in recorded' /\ QueueOf[x.event] = q
      BY <1>0, <1>2, <2>3
    <3>2. \A y \in stored[q] : y.event # x.event
      BY <3>1 DEF Books, RowsSound
    <3>3. \A y \in new : x.event = y.event => x = y
      BY <2>3
    <3> QED BY <1>3, <2>3, <3>1, <3>2, <3>3
  <2> QED BY <1>3, <2>1, <2>2, <2>3
<1>6. BufferSound'
  <2> SUFFICES ASSUME NEW p \in Kinds, NEW i \in DOMAIN buffered'[p]
               PROVE  /\ QueueOf[buffered'[p][i]] = p
                      /\ buffered'[p][i] \notin recorded'
                      /\ \A j \in DOMAIN buffered'[p] : buffered'[p][i] = buffered'[p][j] => i = j
    BY DEF BufferSound
  <2>1. /\ buffered'[p] = buffered[p]
        /\ \A j \in DOMAIN events : buffered[p][i] # events[j]
    OBVIOUS
  <2>2. buffered'[p][i] \notin {events[j] : j \in DOMAIN events}
    BY <2>1
  <2>3. /\ QueueOf[buffered[p][i]] = p
        /\ buffered[p][i] \notin recorded
        /\ \A j \in DOMAIN buffered[p] : buffered[p][i] = buffered[p][j] => i = j
    BY <2>1 DEF Books, BufferSound
  <2> QED BY <1>0, <2>1, <2>2, <2>3
<1>7. RequestsSound'
  BY <1>3, KindsType DEF Books, Types, RequestsSound, Requests, Rows
<1>8. AcceptedSound'
  <2> SUFFICES ASSUME NEW e \in Events, accepted[e] > 0
               PROVE  /\ e \in recorded'
                      /\ e \notin unsure =>
                           /\ accepted[e] = 1
                           /\ \/ \A row \in stored'[QueueOf[e]] : row.event # e
                              \/ \E r \in requests : r.row.event = e /\ r.reply = "ok"
    BY DEF AcceptedSound
  <2>1. e \in recorded
    BY DEF Books, AcceptedSound
  <2>2. \A y \in new : y.event # e
    BY <1>2, <2>1
  <2>3. e \in recorded'
    BY <1>0, <2>1
  <2>4. ASSUME e \notin unsure, \A row \in stored[QueueOf[e]] : row.event # e
        PROVE  \A row \in stored'[QueueOf[e]] : row.event # e
    BY <1>3, <2>2, <2>4, KindsType
  <2> QED BY <2>3, <2>4 DEF Books, AcceptedSound
<1> QED BY <1>4, <1>5, <1>6, <1>7, <1>8 DEF Books

LEMMA OpenKeepsBooks ==
  ASSUME Books, NEW q \in Kinds, Open(q)
  PROVE  Books'
<1>1. buffered[q] \in Seq(Events) /\ buffered' = [buffered EXCEPT ![q] = <<>>]
  BY DEF Books, Types, Open
<1>2. /\ \A i \in DOMAIN buffered[q] : QueueOf[buffered[q][i]] = q /\ buffered[q][i] \notin recorded
      /\ \A i, j \in DOMAIN buffered[q] : buffered[q][i] = buffered[q][j] => i = j
  BY DEF Books, BufferSound
<1>3. buffered' \in [Kinds -> Seq(Events)]
  BY <1>1 DEF Books, Types
<1>4. \A p \in Kinds : \A i \in DOMAIN buffered'[p] :
        /\ buffered'[p] = buffered[p]
        /\ \A j \in DOMAIN buffered[q] : buffered[p][i] # buffered[q][j]
  <2> SUFFICES ASSUME NEW p \in Kinds, NEW i \in DOMAIN buffered'[p]
               PROVE  /\ buffered'[p] = buffered[p]
                      /\ \A j \in DOMAIN buffered[q] : buffered[p][i] # buffered[q][j]
    OBVIOUS
  <2>1. p # q
    BY <1>1 DEF Books, Types
  <2>2. buffered'[p] = buffered[p]
    BY <1>1, <2>1 DEF Books, Types
  <2>3. QueueOf[buffered[p][i]] = p
    BY <2>2 DEF Books, BufferSound
  <2> QED BY <1>2, <2>1, <2>2, <2>3
<1>5. UNCHANGED <<attempts, requests, accepted, unsure>> /\ Stores(q, buffered[q])
  BY DEF Open
<1> QED BY <1>1, <1>2, <1>3, <1>4, <1>5, StoresKeepsBooks

LEMMA DetectReadyKeepsBooks ==
  ASSUME Books, NEW e \in Events, DetectReady(e)
  PROVE  Books'
<1>1. /\ QueueOf[e] \in Kinds /\ Stores(QueueOf[e], <<e>>) /\ e \notin recorded
      /\ \A p \in Kinds : \A i \in DOMAIN buffered[p] : buffered[p][i] # e
  BY KindsType DEF DetectReady, Detected, Waiting
<1>2. UNCHANGED <<buffered, attempts, requests, accepted, unsure>>
  BY DEF DetectReady, baseVars
<1>3. <<e>> \in Seq(Events) /\ DOMAIN <<e>> = {1} /\ <<e>>[1] = e
  OBVIOUS
<1>4. buffered' \in [Kinds -> Seq(Events)]
  BY <1>2 DEF Books, Types
<1>5. /\ \A i \in DOMAIN <<e>> : QueueOf[<<e>>[i]] = QueueOf[e] /\ <<e>>[i] \notin recorded
      /\ \A i, j \in DOMAIN <<e>> : <<e>>[i] = <<e>>[j] => i = j
  BY <1>1, <1>3
<1>6. \A p \in Kinds : \A i \in DOMAIN buffered'[p] :
        /\ buffered'[p] = buffered[p]
        /\ \A j \in DOMAIN <<e>> : buffered[p][i] # <<e>>[j]
  BY <1>1, <1>2, <1>3
<1> QED BY <1>1, <1>2, <1>3, <1>4, <1>5, <1>6, StoresKeepsBooks

LEMMA DetectEarlyKeepsBooks ==
  ASSUME Books, NEW e \in Events, DetectEarly(e)
  PROVE  Books'
<1>1. /\ QueueOf[e] \in Kinds /\ e \notin recorded
      /\ \A p \in Kinds : \A i \in DOMAIN buffered[p] : buffered[p][i] # e
      /\ buffered' = [buffered EXCEPT ![QueueOf[e]] = Append(@, e)]
      /\ UNCHANGED <<stored, lastId, attempts, requests, recorded, accepted, unsure>>
  BY KindsType DEF DetectEarly, Detected, Waiting, diskVars, seenVars
<1>2. Types'
  BY <1>1 DEF Books, Types
<1>3. BufferSound'
  <2> SUFFICES ASSUME NEW q \in Kinds, NEW i \in DOMAIN buffered'[q]
               PROVE  /\ QueueOf[buffered'[q][i]] = q
                      /\ buffered'[q][i] \notin recorded
                      /\ \A j \in DOMAIN buffered'[q] : buffered'[q][i] = buffered'[q][j] => i = j
    BY <1>1 DEF BufferSound
  <2>1. CASE q # QueueOf[e]
    BY <1>1, <2>1 DEF Books, Types, BufferSound
  <2>2. CASE q = QueueOf[e]
    <3>1. buffered[q] \in Seq(Events) /\ buffered'[q] = Append(buffered[q], e)
      BY <1>1, <2>2 DEF Books, Types
    <3> QED BY <1>1, <2>2, <3>1 DEF Books, BufferSound
  <2> QED BY <2>1, <2>2
<1>4. RowsSound' /\ RequestsSound' /\ AcceptedSound'
  BY <1>1 DEF Books, RowsSound, RequestsSound, AcceptedSound
<1> QED BY <1>2, <1>3, <1>4 DEF Books

-------------------------------------------------------------------------------
(* Sending.                                                                *)

\* What the tick that sends a row of queue q does: the row it takes is not under
\* way, and a request for it, with no reply yet, is.
LEMMA SendStep ==
  ASSUME Books, NEW q \in Kinds, Send(q)
  PROVE  \E row \in stored[q], n \in 1 .. MaxAttempts :
           /\ row \in Rows
           /\ row.event \notin InFlight
           /\ attempts' = [attempts EXCEPT ![row.event] = n]
           /\ requests' = requests \cup {[row |-> row, attempt |-> n, reply |-> "none"]}
<1>1. PICK row \in Due(q) :
        LET n == IF attempts[row.event] < MaxAttempts THEN attempts[row.event] + 1 ELSE attempts[row.event]
        IN  /\ attempts' = [attempts EXCEPT ![row.event] = n]
            /\ requests' = requests \cup {[row |-> row, attempt |-> n, reply |-> "none"]}
  BY DEF Send
<1>2. row \in stored[q] /\ row \in Rows /\ row.event \in Events /\ row.event \notin InFlight
  BY DEF Due, Books, Types, Rows
<1>3. (IF attempts[row.event] < MaxAttempts THEN attempts[row.event] + 1 ELSE attempts[row.event]) \in 1 .. MaxAttempts
  BY <1>2 DEF Books, Types
<1> QED BY <1>1, <1>2, <1>3

LEMMA SendKeepsBooks ==
  ASSUME Books, NEW q \in Kinds, Send(q)
  PROVE  Books'
<1>1. PICK row \in stored[q], n \in 1 .. MaxAttempts :
        /\ row \in Rows
        /\ row.event \notin InFlight
        /\ attempts' = [attempts EXCEPT ![row.event] = n]
        /\ requests' = requests \cup {[row |-> row, attempt |-> n, reply |-> "none"]}
  BY SendStep
<1>2. UNCHANGED <<stored, lastId, buffered, recorded, accepted, unsure>>
  BY DEF Send, seenVars
<1>3. Types'
  <2>1. requests' \in SUBSET Requests
    BY <1>1 DEF Books, Types, Requests, Replies
  <2>2. attempts' \in [Events -> 0 .. MaxAttempts]
    BY <1>1 DEF Books, Types, Rows
  <2> QED BY <1>2, <2>1, <2>2 DEF Books, Types
<1>4. RequestsSound'
  <2>1. \A r \in requests : r.row.event # row.event
    BY <1>1 DEF InFlight
  <2>2. row \in stored[QueueOf[row.event]]
    BY <1>1 DEF Books, RowsSound
  <2> QED BY <1>1, <1>2, <2>1, <2>2 DEF Books, RequestsSound
<1>5. AcceptedSound'
  BY <1>1, <1>2 DEF Books, AcceptedSound
<1>6. RowsSound' /\ BufferSound'
  BY <1>2 DEF Books, RowsSound, BufferSound
<1> QED BY <1>3, <1>4, <1>5, <1>6 DEF Books

-------------------------------------------------------------------------------
(* A request and its end.                                                  *)

LEMMA AcceptsKeepsBooks ==
  ASSUME Books, NEW e \in Events, BackendAccepts(e)
  PROVE  Books'
<1>1. PICK r \in requests :
        /\ r.row.event = e /\ r.reply = "none"
        /\ requests' = (requests \ {r}) \cup {[r EXCEPT !.reply = "ok"]}
        /\ accepted' = [accepted EXCEPT ![e] = IF @ < 2 THEN @ + 1 ELSE @]
        /\ UNCHANGED <<stored, lastId, buffered, attempts, recorded, unsure>>
  BY DEF BackendAccepts, Answered, diskVars
<1> DEFINE ok == [r EXCEPT !.reply = "ok"]
<1>2. r \in Requests /\ ok \in Requests /\ ok.row = r.row /\ ok.reply = "ok"
  <2>1. r \in Requests
    BY <1>1 DEF Books, Types
  <2> QED BY <2>1 DEF Requests, Replies
<1>3. accepted[e] \in 0 .. 2 /\ accepted'[e] \in 1 .. 2 /\ \A f \in Events \ {e} : accepted'[f] = accepted[f]
  BY <1>1 DEF Books, Types
<1>4. Types'
  <2>1. requests' \in SUBSET Requests
    BY <1>1, <1>2 DEF Books, Types
  <2>2. accepted' \in [Events -> 0 .. 2]
    BY <1>1 DEF Books, Types
  <2> QED BY <1>1, <2>1, <2>2 DEF Books, Types
<1>5. \A s \in requests : s # r => s.row.event # e
  BY <1>1 DEF Books, RequestsSound
<1>6. RequestsSound'
  <2>1. \A s \in requests : s.row.event \in Events
    BY DEF Books, Types, Requests, Rows
  <2>2. \A s \in requests \ {r} : accepted'[s.row.event] = accepted[s.row.event]
    BY <1>3, <1>5, <2>1
  <2>3. ok.row.event = e /\ ok.row \in stored[QueueOf[e]]
    BY <1>1, <1>2 DEF Books, RequestsSound
  <2>4. ASSUME NEW s \in requests'
        PROVE  /\ s.row \in stored'[QueueOf[s.row.event]]
               /\ s.reply = "ok" => accepted'[s.row.event] > 0
               /\ \A t \in requests' : s.row.event = t.row.event => s = t
    <3>1. CASE s = ok
      BY <1>1, <1>3, <1>5, <2>3, <3>1
    <3>2. CASE s \in requests \ {r}
      BY <1>1, <1>5, <2>2, <2>3, <3>2 DEF Books, RequestsSound
    <3> QED BY <1>1, <3>1, <3>2
  <2> QED BY <2>4 DEF RequestsSound
<1>7. e \in recorded /\ \E row \in stored[QueueOf[e]] : row.event = e
  BY <1>1, KindsType DEF Books, RequestsSound, RowsSound
<1>8. AcceptedSound'
  <2> SUFFICES ASSUME NEW f \in Events, accepted'[f] > 0
               PROVE  /\ f \in recorded
                      /\ f \notin unsure =>
                           /\ accepted'[f] = 1
                           /\ \/ \A row \in stored[QueueOf[f]] : row.event # f
                              \/ \E s \in requests' : s.row.event = f /\ s.reply = "ok"
    BY <1>1 DEF AcceptedSound
  <2>1. CASE f = e
    <3>1. e \notin unsure => accepted[e] = 0
      BY <1>1, <1>3, <1>5, <1>7 DEF Books, AcceptedSound
    <3>2. ok \in requests' /\ ok.row.event = e
      BY <1>1, <1>2
    <3>3. e \notin unsure => accepted'[e] = 1
      BY <1>1, <3>1 DEF Books, Types
    <3> QED BY <1>2, <1>7, <2>1, <3>2, <3>3
  <2>2. CASE f # e
    <3>1. accepted[f] = accepted'[f]
      BY <1>3, <2>2
    <3>2. \A s \in requests : s.row.event = f => s \in requests'
      BY <1>1, <2>2
    <3> QED BY <3>1, <3>2 DEF Books, AcceptedSound
  <2> QED BY <2>1, <2>2
<1>9. RowsSound' /\ BufferSound'
  BY <1>1 DEF Books, RowsSound, BufferSound
<1> QED BY <1>4, <1>6, <1>8, <1>9 DEF Books

LEMMA RefusesKeepsBooks ==
  ASSUME Books, NEW e \in Events, BackendRefuses(e)
  PROVE  Books'
<1>1. PICK r \in requests :
        /\ r.row.event = e /\ r.reply = "none"
        /\ requests' = (requests \ {r}) \cup {[r EXCEPT !.reply = "error"]}
        /\ UNCHANGED <<stored, lastId, buffered, attempts, recorded, accepted, unsure>>
  BY DEF BackendRefuses, Answered, diskVars, seenVars
<1> DEFINE err == [r EXCEPT !.reply = "error"]
<1>2. r \in Requests /\ err \in Requests /\ err.row = r.row /\ err.reply = "error"
  BY <1>1 DEF Books, Types, Requests, Replies
<1>3. Types'
  BY <1>1, <1>2 DEF Books, Types
<1>4. RequestsSound'
  <2>1. err.row.event = e /\ \A s \in requests : s # r => s.row.event # e
    BY <1>1, <1>2 DEF Books, RequestsSound
  <2>2. ASSUME NEW s \in requests'
        PROVE  /\ s.row \in stored'[QueueOf[s.row.event]]
               /\ s.reply = "ok" => accepted'[s.row.event] > 0
               /\ \A t \in requests' : s.row.event = t.row.event => s = t
    <3>1. CASE s = err
      BY <1>1, <1>2, <2>1, <3>1 DEF Books, RequestsSound
    <3>2. CASE s \in requests \ {r}
      BY <1>1, <2>1, <3>2 DEF Books, RequestsSound
    <3> QED BY <1>1, <3>1, <3>2
  <2> QED BY <2>2 DEF RequestsSound
<1>5. \A s \in requests : s.reply = "ok" => s \in requests'
  BY <1>1
<1>6. AcceptedSound'
  BY <1>1, <1>5 DEF Books, AcceptedSound
<1>7. RowsSound' /\ BufferSound'
  BY <1>1 DEF Books, RowsSound, BufferSound
<1> QED BY <1>3, <1>4, <1>6, <1>7 DEF Books

\* The row of an accepted event goes with its request, and no other row of its
\* event is left.
LEMMA FinishKeepsBooks ==
  ASSUME Books, NEW e \in Events, Finish(e)
  PROVE  Books'
<1>1. PICK r \in requests :
        /\ r.row.event = e
        /\ r.reply # "none"
        /\ requests' = requests \ {r}
        /\ stored' = IF r.reply = "ok" THEN [stored EXCEPT ![QueueOf[e]] = @ \ {r.row}] ELSE stored
        /\ UNCHANGED <<lastId, buffered, attempts, recorded, accepted, unsure>>
  BY DEF Finish, seenVars
<1>2. \A q \in Kinds : stored'[q] \subseteq stored[q]
  BY <1>1, KindsType DEF Books, Types
<1>3. Types'
  BY <1>1, <1>2, KindsType DEF Books, Types
<1>4. RowsSound' /\ BufferSound'
  BY <1>1, <1>2 DEF Books, RowsSound, BufferSound
<1>5. \A s \in requests : s.row.event = e => s = r
  BY <1>1 DEF Books, RequestsSound
<1>6. \A s \in requests' : s.row \in stored'[QueueOf[s.row.event]]
  BY <1>1, <1>5, KindsType DEF Books, Types, RequestsSound
<1>7. RequestsSound'
  BY <1>1, <1>6 DEF Books, RequestsSound
<1>8. AcceptedSound'
  <2> SUFFICES ASSUME NEW f \in Events, accepted[f] > 0, f \notin unsure
               PROVE  \/ \A row \in stored'[QueueOf[f]] : row.event # f
                      \/ \E s \in requests' : s.row.event = f /\ s.reply = "ok"
    BY <1>1 DEF Books, AcceptedSound
  <2>1. \/ \A row \in stored[QueueOf[f]] : row.event # f
        \/ \E s \in requests : s.row.event = f /\ s.reply = "ok"
    BY DEF Books, AcceptedSound
  <2>2. ASSUME f = e, r.reply = "ok"
        PROVE  \A row \in stored'[QueueOf[f]] : row.event # f
    <3>1. \A row \in stored[QueueOf[e]] : row.event = e => row = r.row
      BY <1>1, KindsType DEF Books, RowsSound, RequestsSound
    <3>2. stored'[QueueOf[e]] = stored[QueueOf[e]] \ {r.row}
      BY <1>1, <2>2, KindsType DEF Books, Types
    <3> QED BY <2>2, <3>1, <3>2
  <2> QED BY <1>1, <1>2, <1>5, <2>1, <2>2, KindsType
<1> QED BY <1>3, <1>4, <1>7, <1>8 DEF Books

\* What ends requests without removing a row, and counts each event they were
\* for as unsure, keeps the books: a timeout and a restart of the base.
LEMMA LosingRequestsKeepsBooks ==
  ASSUME Books, Types', requests' \subseteq requests,
         \A r \in requests \ requests' : r.row.event \in unsure',
         unsure \subseteq unsure',
         \A q \in Kinds : stored'[q] \subseteq stored[q],
         \A r \in requests' : r.row \in stored'[QueueOf[r.row.event]],
         \A q \in Kinds : buffered'[q] \in {buffered[q], <<>>},
         UNCHANGED <<recorded, accepted>>
  PROVE  Books'
<1>1. RowsSound'
  BY DEF Books, RowsSound
<1>2. BufferSound'
  <2>1. \A q \in Kinds : \A i \in DOMAIN buffered'[q] : buffered'[q] = buffered[q]
    OBVIOUS
  <2> QED BY <2>1 DEF Books, BufferSound
<1>3. RequestsSound'
  BY DEF Books, RequestsSound
<1>4. AcceptedSound'
  <2> SUFFICES ASSUME NEW e \in Events, accepted[e] > 0, e \notin unsure'
               PROVE  \/ \A row \in stored'[QueueOf[e]] : row.event # e
                      \/ \E r \in requests' : r.row.event = e /\ r.reply = "ok"
    BY DEF Books, AcceptedSound
  <2>1. \/ \A row \in stored[QueueOf[e]] : row.event # e
        \/ \E r \in requests : r.row.event = e /\ r.reply = "ok"
    BY DEF Books, AcceptedSound
  <2> QED BY <2>1, KindsType
<1> QED BY <1>1, <1>2, <1>3, <1>4 DEF Books

LEMMA TimeOutKeepsBooks ==
  ASSUME Books, NEW e \in Events, TimeOut(e)
  PROVE  Books'
<1>1. /\ requests' \subseteq requests
      /\ \A r \in requests \ requests' : r.row.event \in unsure'
      /\ unsure \subseteq unsure'
      /\ UNCHANGED <<stored, lastId, buffered, attempts, recorded, accepted>>
  BY DEF TimeOut, diskVars
<1>2. Types'
  BY <1>1 DEF Books, Types
<1>3. \A r \in requests' : r.row \in stored'[QueueOf[r.row.event]]
  BY <1>1 DEF Books, RequestsSound
<1> QED BY <1>1, <1>2, <1>3, LosingRequestsKeepsBooks

LEMMA KilledKeepsBooks ==
  ASSUME Books, Killed, Types', \A q \in Kinds : stored'[q] \subseteq stored[q]
  PROVE  Books'
<1>1. /\ requests' = {}
      /\ buffered' = [q \in Kinds |-> <<>>]
      /\ unsure' = unsure \cup InFlight
      /\ UNCHANGED <<recorded, accepted>>
  BY DEF Killed
<1>2. \A r \in requests : r.row.event \in unsure'
  BY <1>1 DEF InFlight
<1> QED BY <1>1, <1>2, LosingRequestsKeepsBooks

LEMMA CrashKeepsBooks ==
  ASSUME Books, Crash
  PROVE  Books'
<1>1. Killed /\ UNCHANGED <<stored, lastId>>
  BY DEF Crash
<1>2. Types'
  BY <1>1 DEF Books, Types, Killed
<1> QED BY <1>1, <1>2, KilledKeepsBooks

LEMMA CrashSavingKeepsBooks ==
  ASSUME Books, NEW q \in Kinds, CrashSaving(q)
  PROVE  Books'
<1>1. Killed
  BY DEF CrashSaving
<1>2. \A p \in Kinds : stored'[p] \subseteq stored[p]
  BY DEF CrashSaving, Books, Types
<1>3. Types'
  <2>1. stored' \in [Kinds -> SUBSET Rows] /\ lastId' \in [Kinds -> Nat]
    <3>1. CASE UNCHANGED <<stored, lastId>>
      BY <3>1 DEF Books, Types
    <3>2. CASE stored' = [stored EXCEPT ![q] = {}] /\ lastId' = [lastId EXCEPT ![q] = 0]
      BY <3>2 DEF Books, Types
    <3> QED BY <3>1, <3>2 DEF CrashSaving
  <2>2. /\ buffered' \in [Kinds -> Seq(Events)] /\ requests' \in SUBSET Requests
        /\ UNCHANGED <<attempts, recorded, accepted>>
    BY <1>1 DEF Killed
  <2> QED BY <2>1, <2>2 DEF Books, Types
<1> QED BY <1>1, <1>2, <1>3, KilledKeepsBooks

-------------------------------------------------------------------------------
(* The books are kept.                                                     *)

LEMMA InitBooks == Init => Books
<1> SUFFICES ASSUME Init PROVE Books
  OBVIOUS
<1>1. Types
  BY DEF Init, Types
<1>2. RowsSound /\ BufferSound /\ RequestsSound /\ AcceptedSound
  BY KindsType DEF Init, RowsSound, BufferSound, RequestsSound, AcceptedSound
<1> QED BY <1>1, <1>2 DEF Books

LEMMA StepKeepsBooks ==
  ASSUME Books, [Next]_vars
  PROVE  Books'
<1>1. CASE \E q \in Kinds : Open(q)
  BY <1>1, OpenKeepsBooks
<1>2. CASE \E e \in Events : DetectReady(e) \/ DetectEarly(e)
  BY <1>2, DetectReadyKeepsBooks, DetectEarlyKeepsBooks
<1>3. CASE \E q \in Kinds : Send(q)
  BY <1>3, SendKeepsBooks
<1>4. CASE \E e \in Events : BackendAccepts(e) \/ BackendRefuses(e) \/ Finish(e) \/ TimeOut(e)
  BY <1>4, AcceptsKeepsBooks, RefusesKeepsBooks, FinishKeepsBooks, TimeOutKeepsBooks
<1>5. CASE Crash
  BY <1>5, CrashKeepsBooks
<1>6. CASE \E q \in Kinds : CrashSaving(q)
  BY <1>6, CrashSavingKeepsBooks
<1>7. CASE Idle \/ UNCHANGED vars
  <2>1. UNCHANGED <<stored, lastId, buffered, attempts, requests, recorded, accepted, unsure>>
    BY <1>7 DEF Idle, vars, baseVars, diskVars, seenVars
  <2> QED BY <2>1 DEF Books, Types, RowsSound, BufferSound, RequestsSound, AcceptedSound
<1> QED BY <1>1, <1>2, <1>3, <1>4, <1>5, <1>6, <1>7 DEF Next, Drain

THEOREM BooksKept == Spec => []Books
BY InitBooks, StepKeepsBooks, PTL DEF Spec

-------------------------------------------------------------------------------
(* Theorems.                                                               *)

\* Every event the backend accepted twice is one a reply of which was missed, by
\* a timeout or a restart: the retry of a row never overtakes its own reply.
THEOREM RetriesDuplicateNothing == Spec => []DuplicatesOnlyAfterLoss
<1>1. Books => DuplicatesOnlyAfterLoss
  <2> SUFFICES ASSUME Books, NEW e \in Events, accepted[e] > 1, e \notin unsure
               PROVE  FALSE
    BY DEF DuplicatesOnlyAfterLoss
  <2>1. accepted[e] \in 0 .. 2
    BY DEF Books, Types
  <2>2. accepted[e] > 0 => accepted[e] = 1
    BY DEF Books, AcceptedSound
  <2> QED BY <2>1, <2>2
<1> QED BY <1>1, BooksKept, PTL

\* The limit on outstanding requests holds through every restart and timeout.
Flow == IsFiniteSet(InFlight) /\ Cardinality(InFlight) <= MaxInFlight

LEMMA StepKeepsFlow ==
  ASSUME Books, Flow, [Next]_vars
  PROVE  Flow'
<1>1. CASE \E q \in Kinds : Send(q)
  <2>1. PICK q \in Kinds : Send(q)
    BY <1>1
  <2>2. PICK row \in stored[q], n \in 1 .. MaxAttempts :
          /\ row.event \notin InFlight
          /\ requests' = requests \cup {[row |-> row, attempt |-> n, reply |-> "none"]}
    BY <2>1, SendStep
  <2> DEFINE new == [row |-> row, attempt |-> n, reply |-> "none"]
  <2>3. InFlight' = InFlight \cup {row.event}
    <3>1. new.row.event = row.event /\ new \in requests'
      BY <2>2
    <3>2. requests' = requests \cup {new}
      BY <2>2
    <3> HIDE DEF new
    <3> QED BY <3>1, <3>2 DEF InFlight
  <2>4. Cardinality(InFlight) < MaxInFlight
    BY <2>1 DEF Send
  <2>5. IsFiniteSet(InFlight') /\ Cardinality(InFlight') = Cardinality(InFlight) + 1
    BY <2>2, <2>3, FS_AddElement DEF Flow
  <2>6. Cardinality(InFlight) \in Nat
    BY FS_CardinalityType DEF Flow
  <2> QED BY <2>4, <2>5, <2>6 DEF Flow
<1>2. CASE ~\E q \in Kinds : Send(q)
  <2>1. InFlight' \subseteq InFlight
    <3>1. CASE \E e \in Events : BackendAccepts(e) \/ BackendRefuses(e)
      <4>1. PICK r \in requests, reply \in Replies : Answered(r, reply)
        BY <3>1 DEF BackendAccepts, BackendRefuses, Replies
      <4>2. r \in Requests
        BY DEF Books, Types
      <4>3. [r EXCEPT !.reply = reply].row = r.row
        BY <4>2 DEF Requests
      <4> QED BY <4>1, <4>3 DEF Answered, InFlight
    <3>2. CASE ~\E e \in Events : BackendAccepts(e) \/ BackendRefuses(e)
      <4>1. requests' \subseteq requests
        BY <1>2, <3>2 DEF Next, Open, DetectReady, DetectEarly, Drain, Idle, Finish, TimeOut,
                          Crash, CrashSaving, Killed, vars, baseVars
      <4> QED BY <4>1 DEF InFlight
    <3> QED BY <3>1, <3>2
  <2>2. /\ IsFiniteSet(InFlight') /\ Cardinality(InFlight') <= Cardinality(InFlight)
        /\ Cardinality(InFlight') \in Nat /\ Cardinality(InFlight) \in Nat
    BY <2>1, FS_Subset, FS_CardinalityType DEF Flow
  <2> QED BY <2>2 DEF Flow
<1> QED BY <1>1, <1>2

\* The base never has more than MaxInFlight requests outstanding, nor two for one
\* event.
THEOREM BackendIsNotFlooded == Spec => []BackendNotFlooded
<1>1. Init => Flow
  <2>1. Init => InFlight = {}
    BY DEF Init, InFlight
  <2>2. IsFiniteSet({}) /\ Cardinality({}) = 0
    BY FS_EmptySet
  <2> QED BY <2>1, <2>2 DEF Flow
<1>2. Flow /\ Books => BackendNotFlooded
  BY DEF Flow, Books, RequestsSound, BackendNotFlooded
<1> QED BY <1>1, <1>2, BooksKept, StepKeepsFlow, PTL DEF Spec

-------------------------------------------------------------------------------
\* A step that is not a kill in the middle of a save of its queue leaves the row of an
\* event that still waits for the backend where it is.
LEMMA OtherStepsKeepRows ==
  ASSUME Books, [Next]_vars, NEW e \in recorded, ~CrashSaving(QueueOf[e]),
         Queued(e), accepted'[e] = 0
  PROVE  Queued(e)'
<1>1. QueueOf[e] \in Kinds
  BY KindsType DEF Books, Types
<1>2. ASSUME NEW q \in Kinds, NEW events, Stores(q, events)
      PROVE  Queued(e)'
  <2>1. \A p \in Kinds : stored[p] \subseteq stored'[p]
    BY <1>2 DEF Stores, Books, Types
  <2> QED BY <1>1, <2>1 DEF Queued
<1>3. CASE \E q \in Kinds : Open(q)
  BY <1>2, <1>3 DEF Open
<1>4. CASE \E f \in Events : DetectReady(f)
  <2>1. PICK f \in Events : DetectReady(f)
    BY <1>4
  <2>2. Stores(QueueOf[f], <<f>>) /\ QueueOf[f] \in Kinds
    BY <2>1, KindsType DEF DetectReady
  <2> QED BY <1>2, <2>2
<1>5. CASE \E f \in Events : Finish(f)
  <2>1. PICK f \in Events, r \in requests :
          /\ r.row.event = f
          /\ stored' = IF r.reply = "ok" THEN [stored EXCEPT ![QueueOf[f]] = @ \ {r.row}] ELSE stored
          /\ UNCHANGED <<recorded, accepted>>
    BY <1>5 DEF Finish, seenVars
  <2>2. r.reply = "ok" => accepted[f] > 0
    BY <2>1 DEF Books, RequestsSound
  <2>3. \A row \in stored[QueueOf[e]] : row.event = e /\ f # e => row \in stored'[QueueOf[e]]
    BY <1>1, <2>1 DEF Books, Types
  <2>4. r.reply # "ok" => stored' = stored
    BY <2>1
  <2> QED BY <2>1, <2>2, <2>3, <2>4 DEF Queued, Books, Types
<1>6. CASE \/ \E f \in Events : DetectEarly(f) \/ BackendAccepts(f) \/ BackendRefuses(f) \/ TimeOut(f)
           \/ Drain \/ Crash \/ UNCHANGED vars
  <2>1. UNCHANGED stored
    BY <1>6 DEF DetectEarly, BackendAccepts, BackendRefuses, TimeOut, Drain, Idle, Send, Crash, Killed,
                vars, diskVars
  <2> QED BY <2>1 DEF Queued
<1>7. CASE \E q \in Kinds : CrashSaving(q)
  <2>1. PICK q \in Kinds : CrashSaving(q)
    BY <1>7
  <2>2. q # QueueOf[e] /\ (stored' = [stored EXCEPT ![q] = {}] \/ stored' = stored)
    BY <2>1 DEF CrashSaving
  <2>3. stored'[QueueOf[e]] = stored[QueueOf[e]]
    BY <1>1, <2>2 DEF Books, Types
  <2> QED BY <2>3 DEF Queued
<1> QED BY <1>3, <1>4, <1>5, <1>6, <1>7 DEF Next

\* However saves may tear, only a torn save of its own queue loses an event that waits for
\* the backend (lapWebhookQueue.js:57 saves in place).
THEOREM OnlyKillsLose == Spec => OnlyTornSavesLose
<1>1. Books /\ [Next]_vars =>
        \A e \in recorded : Queued(e) /\ accepted'[e] = 0 /\ ~Queued(e)'
                           => CrashSaving(QueueOf[e])
  BY OtherStepsKeepRows
<1> QED BY <1>1, BooksKept, PTL DEF Spec, OnlyTornSavesLose

-------------------------------------------------------------------------------
(* Types.  The retry clock doubles its waits, so that they are numbers is   *)
(* an induction over the attempts.                                         *)

\* Induction, as a fact about sets of numbers.
LEMMA NatSetInduction ==
  ASSUME NEW N \in Nat, NEW T, 0 \in T, \A n \in 0 .. N - 1 : n \in T => n + 1 \in T
  PROVE  0 .. N \subseteq T
<1> DEFINE R == OpToRel(<, Nat)
           U == (0 .. N) \ T
<1> SUFFICES ASSUME U # {}
             PROVE  FALSE
  OBVIOUS
<1>1. U \subseteq Nat
  OBVIOUS
<1>2. PICK x \in U : \A y \in U : ~(<<y, x>> \in R)
  <2>1. IsWellFoundedOn(R, Nat)
    BY NatLessThanWellFounded
  <2> HIDE DEF R, U
  <2> QED
    BY <1>1, <2>1, WFMin
<1>3. x \in 1 .. N /\ x - 1 \in 0 .. N - 1
  OBVIOUS
<1>4. x - 1 \in U
  BY <1>3
<1>5. <<x - 1, x>> \in R
  BY <1>3 DEF OpToRel
<1> QED
  BY <1>2, <1>4, <1>5

\* Up to n attempts, f doubles.
Doubles(f, n) == f = [m \in 0 .. n |-> IF m = 0 THEN 1 ELSE 2 * f[m - 1]]

LEMMA DoublingExists ==
  ASSUME NEW N \in Nat
  PROVE  \E f : Doubles(f, N)
<1> DEFINE T == {n \in 0 .. N : \E f : f \in [0 .. n -> Nat] /\ f[0] = 1 /\ \A m \in 1 .. n : f[m] = 2 * f[m - 1]}
<1>1. 0 \in T
  <2> DEFINE f == [m \in 0 .. 0 |-> 1]
  <2>1. f \in [0 .. 0 -> Nat] /\ f[0] = 1
    OBVIOUS
  <2> HIDE DEF f
  <2> QED BY <2>1
<1>2. ASSUME NEW n \in 0 .. N - 1, n \in T
      PROVE  n + 1 \in T
  <2>1. PICK f : f \in [0 .. n -> Nat] /\ f[0] = 1 /\ \A m \in 1 .. n : f[m] = 2 * f[m - 1]
    BY <1>2
  <2> DEFINE g == [m \in 0 .. n + 1 |-> IF m = n + 1 THEN 2 * f[n] ELSE f[m]]
  <2>2. f[n] \in Nat /\ 2 * f[n] \in Nat
    BY <2>1
  <2>3. g \in [0 .. n + 1 -> Nat] /\ g[n + 1] = 2 * f[n] /\ \A m \in 0 .. n : g[m] = f[m]
    BY <2>1, <2>2
  <2> HIDE DEF g
  <2>4. \A m \in 1 .. n + 1 : g[m] = 2 * g[m - 1]
    <3> TAKE m \in 1 .. n + 1
    <3>1. CASE m = n + 1
      BY <2>3, <3>1
    <3>2. CASE m # n + 1
      <4>1. m \in 1 .. n /\ m \in 0 .. n /\ m - 1 \in 0 .. n
        BY <3>2
      <4> QED BY <2>1, <2>3, <4>1
    <3> QED BY <3>1, <3>2
  <2>5. g[0] = 1 /\ n + 1 \in 0 .. N
    BY <2>1, <2>3
  <2> QED BY <2>3, <2>4, <2>5
<1>3. N \in T
  <2> HIDE DEF T
  <2> QED BY <1>1, <1>2, NatSetInduction
<1>4. PICK f : f \in [0 .. N -> Nat] /\ f[0] = 1 /\ \A m \in 1 .. N : f[m] = 2 * f[m - 1]
  BY <1>3
<1>5. \A m \in 0 .. N : f[m] = IF m = 0 THEN 1 ELSE 2 * f[m - 1]
  BY <1>4
<1> QED BY <1>4, <1>5 DEF Doubles

LEMMA BackoffType ==
  ASSUME NEW n \in 0 .. MaxAttempts
  PROVE  Backoff(n) \in 0 .. MaxBackoff
<1> DEFINE N == MaxAttempts
           T == {m \in 0 .. N : PowerOf2[m] \in Nat}
<1>1. Doubles(PowerOf2, N)
  <2>1. \E f : Doubles(f, N)
    BY DoublingExists
  <2> DEFINE D(f) == f = [m \in 0 .. N |-> IF m = 0 THEN 1 ELSE 2 * f[m - 1]]
  <2>2. PowerOf2 = CHOOSE f : D(f)
    BY Zenon DEF PowerOf2
  <2>3. \E f : D(f)
    BY <2>1 DEF Doubles
  <2> HIDE DEF D
  <2>4. D(PowerOf2)
    BY <2>2, <2>3
  <2> QED BY <2>4 DEF D, Doubles
<1>2. N \in Nat /\ \A m \in 0 .. N : PowerOf2[m] = IF m = 0 THEN 1 ELSE 2 * PowerOf2[m - 1]
  BY <1>1 DEF Doubles
<1>3. 0 \in T
  BY <1>2
<1>4. \A m \in 0 .. N - 1 : m \in T => m + 1 \in T
  BY <1>2
<1>5. 0 .. N \subseteq T
  <2> HIDE DEF T, N
  <2> QED BY <1>2, <1>3, <1>4, NatSetInduction
<1>6. PowerOf2[n] \in Nat
  BY <1>5
<1> HIDE DEF N
<1> QED BY <1>6 DEF Backoff

\* What TypeOK says beyond Books.
OtherTypes ==
  /\ ready \in SUBSET Kinds
  /\ corrupt \in SUBSET Kinds
  /\ rest \in [Events -> 0 .. MaxBackoff]
  /\ cursor \in Kinds
  /\ unsure \in SUBSET Events
  /\ crashes \in 0 .. MaxCrashes

LEMMA OlderType == rest \in [Events -> 0 .. MaxBackoff] => Older \in [Events -> 0 .. MaxBackoff]
<1> SUFFICES ASSUME rest \in [Events -> 0 .. MaxBackoff]
             PROVE  \A e \in Events : (IF rest[e] > 0 THEN rest[e] - 1 ELSE 0) \in 0 .. MaxBackoff
  BY DEF Older
<1> TAKE e \in Events
<1>1. rest[e] \in 0 .. MaxBackoff
  OBVIOUS
<1> QED BY <1>1

LEMMA StepKeepsTypes ==
  ASSUME Books, OtherTypes, [Next]_vars
  PROVE  OtherTypes'
<1>1. CASE \E q \in Kinds : Open(q)
  BY <1>1 DEF Open, OtherTypes
<1>2. CASE \E e \in Events : DetectReady(e) \/ DetectEarly(e)
  BY <1>2 DEF DetectReady, DetectEarly, OtherTypes, baseVars, diskVars, seenVars
<1>3. ASSUME NEW q \in Kinds, Send(q)
      PROVE  OtherTypes'
  <2>1. PICK row \in Due(q) : \E n \in 0 .. MaxAttempts : rest' = [Older EXCEPT ![row.event] = Backoff(n)]
    <3>1. PICK row \in Due(q) : LET n == IF attempts[row.event] < MaxAttempts THEN attempts[row.event] + 1 ELSE attempts[row.event]
                                IN rest' = [Older EXCEPT ![row.event] = Backoff(n)]
      BY <1>3 DEF Send
    <3>2. row.event \in Events
      BY <1>3 DEF Due, Books, Types, Rows
    <3>3. attempts[row.event] \in 0 .. MaxAttempts
      BY <3>2 DEF Books, Types
    <3>4. (IF attempts[row.event] < MaxAttempts THEN attempts[row.event] + 1 ELSE attempts[row.event]) \in 0 .. MaxAttempts
      BY <3>3
    <3> QED BY <3>1, <3>4
  <2>2. rest' \in [Events -> 0 .. MaxBackoff]
    <3>1. Older \in [Events -> 0 .. MaxBackoff]
      BY OlderType DEF OtherTypes
    <3>2. PICK n \in 0 .. MaxAttempts : rest' = [Older EXCEPT ![row.event] = Backoff(n)]
      BY <2>1
    <3>3. Backoff(n) \in 0 .. MaxBackoff
      BY BackoffType
    <3> QED BY <3>1, <3>2, <3>3
  <2>3. cursor' \in Kinds
    BY <1>3, KindsType DEF Send
  <2> QED BY <1>3, <2>2, <2>3 DEF Send, OtherTypes, seenVars
<1>4. CASE Idle
  BY <1>4, OlderType DEF Idle, OtherTypes, baseVars, seenVars
<1>5. CASE \E e \in Events : BackendAccepts(e) \/ BackendRefuses(e) \/ Finish(e) \/ TimeOut(e)
  BY <1>5 DEF BackendAccepts, BackendRefuses, Finish, TimeOut, OtherTypes, diskVars, seenVars
<1>6. CASE Killed /\ corrupt' \in SUBSET Kinds
  <2>1. InFlight \subseteq Events
    BY DEF InFlight, Books, Types, Requests, Rows
  <2>2. crashes' \in 0 .. MaxCrashes
    BY <1>6 DEF Killed, OtherTypes
  <2> QED BY <1>6, <2>1, <2>2, KindsType DEF Killed, OtherTypes
<1>7. CASE Crash
  BY <1>6, <1>7 DEF Crash, OtherTypes
<1>8. CASE \E q \in Kinds : CrashSaving(q)
  BY <1>6, <1>8 DEF CrashSaving, OtherTypes
<1>9. CASE UNCHANGED vars
  BY <1>9 DEF vars, baseVars, diskVars, seenVars, OtherTypes
<1> QED BY <1>1, <1>2, <1>3, <1>4, <1>5, <1>7, <1>8, <1>9 DEF Next, Drain

\* Every variable has its type: the waits of the retry clock are capped, and the
\* tick always looks at a queue there is.
THEOREM QueueTypesHold == Spec => []TypeOK
<1>1. Init => OtherTypes
  BY KindsType DEF Init, OtherTypes
<1>2. Books /\ OtherTypes /\ [Next]_vars => OtherTypes'
  BY StepKeepsTypes
<1>3. Books /\ OtherTypes => TypeOK
  BY DEF Books, Types, OtherTypes, TypeOK
<1> QED BY <1>1, <1>2, <1>3, BooksKept, PTL DEF Spec

===============================================================================
