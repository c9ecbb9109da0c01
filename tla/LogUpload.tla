------------------------------- MODULE LogUpload -------------------------------
(***************************************************************************)
(* The way of a boat's log files to the base: the boat appends each fix to *)
(* the file of its time slice (src/src/sdLogger.js), old files are pruned  *)
(* (logRotation.js), and whenever the base answers over WiFi the oldest    *)
(* finished file that has no marker beside it is sent (uploadClient.js) to *)
(* an HTTP server that writes it to a .part file and renames that          *)
(* (uploadServer.js). Connections stall: the client gives up after a       *)
(* timeout, and the server hears of that later, or gets the rest first.    *)
(*                                                                         *)
(* A file is a number of lines. What travels is its first and its second   *)
(* half, since a file that is opened again is cut off under whoever still  *)
(* writes to it. One boat is modelled: boats have directories of their own.*)
(***************************************************************************)
EXTENDS Integers, Sequences, SequencesExt

CONSTANTS
  Chunks,    \* bound: time slices that are written, 1 .. n
  MaxLines,  \* bound: lines in a file
  Buckets,   \* the regattas files are stored under
  MaxConns,  \* bound: uploads the server has open at a time
  MaxTrouble \* bound: timeouts, crashes, removals and switches in a behaviour

LogAssumption == Chunks \in Nat \ {0} /\ MaxLines \in Nat \ {0} /\ MaxConns \in Nat \ {0}
ASSUME LogAssumption

VARIABLES
  slice,    \* the time slice by the boat's clock
  lines,    \* the boat's files: the lines of each, or Gone
  marked,   \* the files with a marker
  client,   \* what the upload client does, see Waiting
  conns,    \* uploads the server has open, oldest first
  bucket,   \* the regatta selected at the base
  parts,    \* the .part files
  stored,   \* the files at the base
  trouble,  \* bound: see MaxTrouble
  late      \* history: lines that were appended after their slice

logVars == <<slice, lines, marked, client, conns, bucket, parts, stored, trouble, late>>

Gone    == -1
NoSuchFile == [n |-> 0, has |-> {}, there |-> FALSE]  \* no such file at the base
Halves  == {1, 2}
Waiting == [doing |-> "nothing", chunk |-> 0]

Whole(f) == f.there /\ f.has = Halves

LogInit ==
  /\ slice = 1
  /\ lines = [c \in 1 .. Chunks |-> Gone]
  /\ marked = {}
  /\ client = Waiting
  /\ conns = <<>>
  /\ bucket \in Buckets
  /\ parts = [k \in Buckets \X (1 .. Chunks) |-> NoSuchFile]
  /\ stored = parts
  /\ trouble = 0
  /\ late = [c \in 1 .. Chunks |-> 0]

Trouble == trouble < MaxTrouble /\ trouble' = trouble + 1

boatFiles == <<slice, lines, marked, late>>
baseFiles == <<parts, stored>>

-----------------------------------------------------------------------------
(* The boat's files.                                                        *)

\* logPvt: a fix goes to the file of its own time, which may be that of the last slice when
\* the fix was held back (eventBoost) or repeated (a ping's answer).
LogPvt(c) ==
  /\ c \in {slice, slice - 1} \ {0} /\ c <= Chunks
  /\ lines[c] < MaxLines
  /\ c < slice => Trouble
  /\ c = slice => UNCHANGED trouble
  /\ lines' = [lines EXCEPT ![c] = IF @ = Gone THEN 1 ELSE @ + 1]
  /\ late' = [late EXCEPT ![c] = IF c < slice THEN @ + 1 ELSE @]
  /\ UNCHANGED <<slice, marked, client, conns, bucket, baseFiles>>

NextSlice ==
  /\ slice <= Chunks
  /\ slice' = slice + 1
  /\ UNCHANGED <<lines, marked, late, client, conns, bucket, baseFiles, trouble>>

\* pruneOldLogs and pruneForDiskSpace take the oldest file, sent or not, and leave its marker.
Prune(c) ==
  /\ lines[c] # Gone /\ \A d \in 1 .. c - 1 : lines[d] = Gone
  /\ Trouble
  /\ lines' = [lines EXCEPT ![c] = Gone]
  /\ UNCHANGED <<slice, marked, late, client, conns, bucket, baseFiles>>

-----------------------------------------------------------------------------
(* The client.                                                              *)

\* findPendingUpload
Pending == {c \in 1 .. Chunks : c # slice /\ lines[c] # Gone /\ c \notin marked}

\* tick: the health check comes first; one upload at a time.
ClientTick ==
  /\ client = Waiting
  /\ \E c \in Pending : /\ \A e \in Pending : c <= e
                        /\ client' = [doing |-> "found", chunk |-> c]
  /\ UNCHANGED <<boatFiles, conns, bucket, baseFiles, trouble>>

\* The boat's program stops, for whatever reason; what it was sending goes on as far as it went.
ClientDies == client' = Waiting

\* The file is opened and the request reaches the server, which opens the .part file of the
\* regatta selected now, cutting off what another connection wrote to it. Without the file the
\* read fails, and nothing catches that.
UploadStarts ==
  /\ client.doing = "found"
  /\ IF lines[client.chunk] = Gone
     THEN ClientDies /\ UNCHANGED <<conns, parts>>
     ELSE /\ Len(conns) < MaxConns
          /\ conns' = Append(conns, [of |-> <<bucket, client.chunk>>, n |-> lines[client.chunk],
                                     next |-> 1, file |-> "part", heard |-> TRUE])
          /\ parts' = [parts EXCEPT ![<<bucket, client.chunk>>] =
                         [n |-> lines[client.chunk], has |-> {}, there |-> TRUE]]
          /\ client' = [client EXCEPT !.doing = "sending"]
  /\ UNCHANGED <<boatFiles, bucket, stored, trouble>>

\* The client listens to the last request only.
GivenUp == [i \in 1 .. Len(conns) |-> [conns[i] EXCEPT !.heard = FALSE]]

Timeout ==
  /\ client.doing = "sending"
  /\ Trouble
  /\ client' = Waiting
  /\ conns' = GivenUp
  /\ UNCHANGED <<boatFiles, bucket, baseFiles>>

BoatRestarts ==
  /\ client # Waiting
  /\ Trouble
  /\ ClientDies
  /\ conns' = GivenUp
  /\ UNCHANGED <<boatFiles, bucket, baseFiles>>

\* Status 200 came: the marker is written. If it cannot be, the rejection stops the program.
MarkUploaded(written) ==
  /\ client.doing = "answered"
  /\ IF written THEN UNCHANGED trouble ELSE Trouble
  /\ marked' = IF written THEN marked \cup {client.chunk} ELSE marked
  /\ ClientDies
  /\ UNCHANGED <<slice, lines, late, conns, bucket, baseFiles>>

-----------------------------------------------------------------------------
(* The server.                                                              *)

\* Connection i writes its next half to the file it opened, wherever that is by now.
ReceiveChunk(i) ==
  LET w == conns[i]
      put(f) == [f EXCEPT ![w.of].has = @ \cup {w.next}, ![w.of].n = IF @ > w.n THEN @ ELSE w.n]
  IN /\ w.next \in Halves
     /\ conns' = [conns EXCEPT ![i].next = @ + 1]
     /\ parts' = IF w.file = "part" THEN put(parts) ELSE parts
     /\ stored' = IF w.file = "stored" THEN put(stored) ELSE stored
     /\ UNCHANGED <<boatFiles, client, bucket, trouble>>

\* The client hears the answer to a request it has not given up.
Answered(w, ok) ==
  client' = IF ~w.heard THEN client
            ELSE IF ok THEN [client EXCEPT !.doing = "answered"] ELSE Waiting

\* What the others hold after connection i moved, or removed, the .part file of its upload.
Rest(i, moved) ==
  LET w == conns[i]
      now(v) == IF v.of # w.of THEN v.file
                ELSE IF v.file = "part" THEN (IF moved THEN "stored" ELSE "removed")
                ELSE IF moved THEN "removed" ELSE v.file
  IN RemoveAt([j \in 1 .. Len(conns) |-> [conns[j] EXCEPT !.file = now(conns[j])]], i)

\* Mutant of Finish: an upload that could not be renamed is answered with 200.
FinishAnyway(i) ==
  LET w == conns[i] IN
  /\ w.next \notin Halves
  /\ IF parts[w.of].there
     THEN /\ stored' = [stored EXCEPT ![w.of] = parts[w.of]]
          /\ parts' = [parts EXCEPT ![w.of] = NoSuchFile]
          /\ conns' = Rest(i, TRUE)
     ELSE conns' = RemoveAt(conns, i) /\ UNCHANGED baseFiles
  /\ Answered(w, TRUE)
  /\ UNCHANGED <<boatFiles, bucket, trouble>>

\* on 'finish': the .part file is renamed, if it is still there.
Finish(i) ==
  LET w == conns[i] IN
  /\ w.next \notin Halves
  /\ IF parts[w.of].there
     THEN /\ stored' = [stored EXCEPT ![w.of] = parts[w.of]]
          /\ parts' = [parts EXCEPT ![w.of] = NoSuchFile]
          /\ conns' = Rest(i, TRUE)
          /\ Answered(w, TRUE)
     ELSE /\ conns' = RemoveAt(conns, i)
          /\ Answered(w, FALSE)
          /\ UNCHANGED baseFiles
  /\ UNCHANGED <<boatFiles, bucket, trouble>>

\* on 'close', or an error: the .part file is removed, whoever writes to it.
Broken(i) ==
  LET w == conns[i] IN
  /\ w.next \in Halves
  /\ IF w.heard THEN Trouble ELSE UNCHANGED trouble
  /\ parts' = [parts EXCEPT ![w.of] = NoSuchFile]
  /\ conns' = Rest(i, FALSE)
  /\ Answered(w, FALSE)
  /\ UNCHANGED <<boatFiles, bucket, stored>>

\* The base restarts: connections break, and .part files stay.
BaseDown ==
  /\ conns # <<>> /\ Trouble
  /\ conns' = <<>>
  /\ client' = IF client.doing = "sending" THEN Waiting ELSE client
  /\ UNCHANGED <<boatFiles, bucket, baseFiles>>

SwitchBucket(b) ==
  /\ b # bucket /\ Trouble
  /\ bucket' = b
  /\ UNCHANGED <<boatFiles, client, conns, baseFiles>>

AllLogged ==
  /\ slice > Chunks /\ Pending = {} /\ client = Waiting /\ conns = <<>>
  /\ UNCHANGED logVars

LogNext ==
  \/ \E c \in 1 .. Chunks : LogPvt(c) \/ Prune(c)
  \/ NextSlice
  \/ ClientTick \/ UploadStarts \/ Timeout \/ BoatRestarts
  \/ \E written \in BOOLEAN : MarkUploaded(written)
  \/ \E i \in 1 .. Len(conns) : ReceiveChunk(i) \/ Finish(i) \/ Broken(i)
  \/ BaseDown
  \/ \E b \in Buckets : SwitchBucket(b)
  \/ AllLogged

LogSpec == LogInit /\ [][LogNext]_logVars

-----------------------------------------------------------------------------
LogTypeOK ==
  /\ slice \in 1 .. Chunks + 1
  /\ \A c \in 1 .. Chunks : lines[c] \in Gone .. MaxLines
  /\ marked \subseteq 1 .. Chunks
  /\ client.doing \in {"nothing", "found", "sending", "answered"}
  /\ Len(conns) <= MaxConns
  /\ \A i \in 1 .. Len(conns) : conns[i].file \in {"part", "stored", "removed"} /\ conns[i].next \in 1 .. 3
  /\ bucket \in Buckets
  /\ \A k \in DOMAIN parts : parts[k].has \subseteq Halves /\ stored[k].has \subseteq Halves

\* A file the boat will never send again is whole at the base, under some regatta, with every
\* line it got while its slice lasted: stalled connections that write to one .part file,
\* remove it from under each other or finish late, restarts and lost answers lose none.
MarkedIsStored ==
  \A c \in marked :
    \E b \in Buckets : /\ Whole(stored[<<b, c>>])
                       /\ lines[c] # Gone => stored[<<b, c>>].n >= lines[c] - late[c]

=============================================================================
