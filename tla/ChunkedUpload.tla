---------------------------- MODULE ChunkedUpload ----------------------------
(***************************************************************************)
(* Resumable uploads (FileAssetViewMixin.post in src/anthias_server/api):  *)
(* a client sends the chunks of a file in any order, repeats those it has  *)
(* no answer to, and may start again with another file under the same      *)
(* upload id; the server handles requests in parallel and writes every     *)
(* chunk in place into the one staged file of the session.                 *)
(* A chunk is one position, and its content the file that it is from.      *)
(***************************************************************************)
EXTENDS Integers, Sequences, FiniteSets, SequencesExt

CONSTANTS
  Sessions,    \* upload ids
  Slots,       \* requests that carry chunks
  Lengths,     \* the files: a function from their names to their lengths
  Faults,      \* "full" (the disk), "crash" (the server), "lost" (answers)
  MaxInodes,   \* bound: files on the disk at once
  MaxSends,    \* bound: requests with chunks
  MaxAttempts, \* bound: files sent under one id
  Hole, NoFile

Files == DOMAIN Lengths
Inodes == 1..MaxInodes

ASSUME FilesAssumption == \A f \in Files : Lengths[f] \in Nat \ {0}
ASSUME UploadFaultAssumption == Faults \subseteq {"full", "crash", "lost"}
ASSUME NoFileAssumption == NoFile \notin Files /\ Hole \notin Files

VARIABLES
  data,      \* the content of each inode, a sequence of chunks
  staged,    \* the inode at <assetdir>/<upload id>.tmp, or 0
  chunk,     \* the request in each slot
  client,    \* what the client of each session sends and has answers to
  wiped,     \* history: a full disk has removed the file of this attempt
  sends      \* how many requests there were

uploads == <<data, staged, chunk, client, wiped, sends>>

Free == [at |-> "free", s |-> NoFile, file |-> NoFile, pos |-> 0, inode |-> 0]
Whole(f) == [i \in 1..Lengths[f] |-> f]
Done(s) == client[s].file # NoFile /\ client[s].acked = 1..Lengths[client[s].file]
InFlight(s) == {t \in Slots : chunk[t].s = s}

UploadTypeOK ==
  /\ \A i \in Inodes : data[i] \in Seq(Files \union {Hole})
  /\ staged \in [Sessions -> Inodes \union {0}]
  /\ \A t \in Slots : chunk[t].at \in {"free", "open", "write", "truncate", "answer"}
  /\ \A s \in Sessions : client[s].file \in Files \union {NoFile}
  /\ wiped \in [Sessions -> BOOLEAN] /\ sends \in 0..MaxSends

UploadInit ==
  /\ data = [i \in Inodes |-> <<>>]
  /\ staged = [s \in Sessions |-> 0]
  /\ chunk = [t \in Slots |-> Free]
  /\ client = [s \in Sessions |-> [file |-> NoFile, acked |-> {}, attempts |-> 0]]
  /\ wiped = [s \in Sessions |-> FALSE]
  /\ sends = 0

\* The client turns to a file, the first or another one (a shorter one, or the
\* same again), when nothing it has sent is under way.
Turn(s, f) ==
  /\ client[s].attempts < MaxAttempts /\ InFlight(s) = {}
  /\ client' = [client EXCEPT ![s] =
       [file |-> f, acked |-> {}, attempts |-> @.attempts + 1]]
  /\ wiped' = [wiped EXCEPT ![s] = FALSE]
  /\ UNCHANGED <<data, staged, chunk, sends>>

\* It sends a chunk, or one again that it has had no answer to.
Send(t, s, p) ==
  /\ chunk[t] = Free /\ sends < MaxSends
  /\ client[s].file # NoFile
  /\ p \in 1..Lengths[client[s].file] \ client[s].acked
  /\ chunk' = [chunk EXCEPT ![t] =
       [at |-> "open", s |-> s, file |-> client[s].file, pos |-> p, inode |-> 0]]
  /\ sends' = sends + 1
  /\ UNCHANGED <<data, staged, client, wiped>>

\* It sends the file in one request, without a range: the id is new.
SendWhole(t, s) ==
  /\ chunk[t] = Free /\ sends < MaxSends
  /\ client[s].file # NoFile /\ client[s].acked = {}
  /\ staged[s] = 0 /\ InFlight(s) = {}
  /\ chunk' = [chunk EXCEPT ![t] =
       [at |-> "open", s |-> s, file |-> client[s].file, pos |-> 0, inode |-> 0]]
  /\ sends' = sends + 1
  /\ UNCHANGED <<data, staged, client, wiped>>

\* O_CREAT without O_TRUNC: what is there stays there.
Opened(i) == data[i]

\* The inodes that no path and no request holds; `kept` are those of assets.
Unused(kept) ==
  {i \in Inodes : /\ i \notin kept
                  /\ \A s \in Sessions : staged[s] # i
                  /\ \A t \in Slots : chunk[t].inode # i}

Open(t, kept) ==
  LET s == chunk[t].s
      new == CHOOSE i \in Unused(kept) : \A j \in Unused(kept) : i <= j
      i == IF staged[s] = 0 THEN new ELSE staged[s] IN
  /\ chunk[t].at = "open"
  /\ staged[s] = 0 => Unused(kept) # {}
  /\ staged' = [staged EXCEPT ![s] = i]
  /\ data' = [data EXCEPT ![i] = IF staged[s] = 0 THEN <<>> ELSE Opened(i)]
  /\ chunk' = [chunk EXCEPT ![t].at = "write", ![t].inode = i]
  /\ UNCHANGED <<client, wiped, sends>>

\* seek() and write(): a gap before the chunk is filled with zeros.
Patched(d, p, f) ==
  [i \in 1..(IF p > Len(d) THEN p ELSE Len(d)) |->
     IF i = p THEN f ELSE IF i <= Len(d) THEN d[i] ELSE Hole]

Write(t) ==
  LET c == chunk[t] IN
  /\ c.at = "write"
  /\ data' = [data EXCEPT ![c.inode] =
       IF c.pos = 0 THEN Whole(c.file) ELSE Patched(@, c.pos, c.file)]
  /\ chunk' = [chunk EXCEPT ![t].at =
       IF c.pos = Lengths[c.file] THEN "truncate" ELSE "answer"]
  /\ UNCHANGED <<staged, client, wiped, sends>>

\* Mutant: no truncation.
CutNot(d, n) == d

\* truncate(total) on the last chunk; it fills a gap with zeros, as seek() does.
Cut(d, n) == [i \in 1..n |-> IF i <= Len(d) THEN d[i] ELSE Hole]

Truncate(t) ==
  LET c == chunk[t] IN
  /\ c.at = "truncate"
  /\ data' = [data EXCEPT ![c.inode] = Cut(@, Lengths[c.file])]
  /\ chunk' = [chunk EXCEPT ![t].at = "answer"]
  /\ UNCHANGED <<staged, client, wiped, sends>>

\* ENOSPC: the path is removed, whatever it holds, and the client told, unless
\* the answer is lost.
DiskFull(t) ==
  LET s == chunk[t].s IN
  /\ "full" \in Faults /\ chunk[t].at = "write"
  /\ staged' = [staged EXCEPT ![s] = 0]
  /\ wiped' = [wiped EXCEPT ![s] = TRUE]
  /\ chunk' = [chunk EXCEPT ![t] = Free]
  /\ \/ client' = [client EXCEPT ![s].file = NoFile, ![s].acked = {}]
     \/ "lost" \in Faults /\ UNCHANGED client
  /\ UNCHANGED <<data, sends>>

\* The answer, which the client knows for that of its file, or which is lost.
Answer(t) ==
  LET c == chunk[t] IN
  /\ c.at = "answer"
  /\ \/ client' = [client EXCEPT ![c.s].acked =
          IF client[c.s].file # c.file THEN @
          ELSE IF c.pos = 0 THEN 1..Lengths[c.file] ELSE @ \union {c.pos}]
     \/ "lost" \in Faults /\ UNCHANGED client
  /\ chunk' = [chunk EXCEPT ![t] = Free]
  /\ UNCHANGED <<data, staged, wiped, sends>>

\* The server dies; what it was writing may or may not be in the file.
UploadsDie ==
  /\ chunk' = [t \in Slots |-> Free]
  /\ UNCHANGED <<data, staged, client, wiped, sends>>

UploadStep(kept) ==
  \/ \E s \in Sessions, f \in Files : Turn(s, f)
  \/ \E t \in Slots, s \in Sessions :
       SendWhole(t, s) \/ \E p \in 1..(IF client[s].file = NoFile THEN 0
                                       ELSE Lengths[client[s].file]) : Send(t, s, p)
  \/ \E t \in Slots : \/ Open(t, kept) \/ Write(t) \/ Truncate(t)
                      \/ DiskFull(t) \/ Answer(t)

=============================================================================
