---------------------------- MODULE ServerProofs ----------------------------
(***************************************************************************)
(* Proofs about the two parts of the server that assets live in, for any   *)
(* number of processes, clients, requests and assets.                      *)
(*                                                                         *)
(* Reachability: two sweeps never run at once while redis keeps its keys   *)
(* and the pool enforces its limit in time, and the end of a sweep never   *)
(* takes the lock of another one, whatever redis and the pool do. OneSweep *)
(* is not inductive: what keeps a second sweep out is that the ticks left  *)
(* to the lock and the age of its sweep add up to the hard limit at least, *)
(* so that the sweep is killed before the lock expires (Guarded).          *)
(*                                                                         *)
(* AssetTable with ChunkedUpload: the file of an asset is what its client  *)
(* uploaded (UploadInv and SoundRow: what an acknowledged position means   *)
(* for the file that is staged, and who may still write to a file that an  *)
(* asset has taken), and the viewer is told of everything that leaves the  *)
(* rotation (ToldInv: until it has been, some request still owes it). A    *)
(* request that has the table to itself puts its asset where it was asked  *)
(* to (PlaceInv: no id is in two rows, since one that is yet to be inserted*)
(* is known to its request alone; the list is one of all the active assets,*)
(* once each; and while it is worked off, those no longer in it have their *)
(* numbers, which are all those below the next one).                       *)
(***************************************************************************)
EXTENDS AssetTable, Reachability, FiniteSetTheorems, SequenceTheorems, TLAPS

-----------------------------------------------------------------------------
(* The sweep *)

ReachTypes ==
  /\ pc \in [Workers -> Points]
  /\ age \in [Workers -> Nat]
  /\ owner \in Workers \union {Unset}
  /\ ttl \in Nat
  /\ flushed \in BOOLEAN

Guarded ==
  ~flushed /\ Lateness = 0 =>
    \A w \in Workers : pc[w] \in Sweeping =>
      owner = w /\ ttl > 0 /\ ttl + age[w] >= SweepHard

ReachInv == ReachTypes /\ Guarded

sweepLock == <<owner, ttl, flushed>>

\* The initial states satisfy the invariant.
LEMMA ReachInitInv == ReachInit => ReachInv
<1> SUFFICES ASSUME ReachInit PROVE ReachInv
  OBVIOUS
<1>1. /\ owner = Unset /\ ttl = 0 /\ flushed = FALSE
      /\ pc = [w \in Workers |-> "idle"] /\ age = [w \in Workers |-> 0]
  BY DEF ReachInit
<1>2. ReachTypes
  BY <1>1 DEF ReachTypes, Points
<1>3. Guarded
  BY <1>1 DEF Guarded, Sweeping
<1> QED BY <1>2, <1>3 DEF ReachInv

\* A step of one process that is not in a sweep afterwards, unless it was before,
\* and leaves the lock alone.
LEMMA OwnStep ==
  ASSUME ReachInv, NEW w \in Workers, NEW p \in Points, UNCHANGED sweepLock,
         pc' = [pc EXCEPT ![w] = p],
         age' = age \/ (age' = [age EXCEPT ![w] = 0] /\ p \notin Sweeping),
         p \in Sweeping => pc[w] \in Sweeping
  PROVE  ReachInv'
<1>1. ReachTypes'
  BY DEF ReachInv, ReachTypes, sweepLock
<1>2. Guarded'
  BY DEF ReachInv, ReachTypes, Guarded, sweepLock, Lateness
<1> QED BY <1>1, <1>2 DEF ReachInv

\* The lock is taken when nobody holds it, so that nobody is in a sweep.
LEMMA AcquireInv ==
  ASSUME ReachInv, NEW w \in Workers, Acquire(w) PROVE ReachInv'
<1> USE DEF ReachInv, ReachTypes
<1>1. owner = Unset /\ owner' = w /\ ttl' = SweepHard /\ flushed' = flushed /\ age' = age
  BY DEF Acquire, Hold, history
<1>2. pc' = [pc EXCEPT ![w] = "sweep"]
  BY DEF Acquire, Goto
<1>3. SweepHard \in Nat \ {0}
  BY LimitAssumption
<1>4. ReachTypes'
  BY <1>1, <1>2, <1>3 DEF Points
<1>5. Guarded'
  <2> SUFFICES ASSUME ~flushed, Lateness = 0, NEW v \in Workers, pc'[v] \in Sweeping
               PROVE  owner' = v /\ ttl' > 0 /\ ttl' + age'[v] >= SweepHard
    BY <1>1 DEF Guarded, Lateness
  <2>1. v = w
    <3> SUFFICES ASSUME v # w PROVE FALSE
      OBVIOUS
    <3>1. pc[v] \in Sweeping
      BY <1>2
    <3>2. owner = v
      BY <3>1 DEF Guarded
    <3> QED BY <3>2, <1>1, NoneAssumption
  <2> QED BY <2>1, <1>1, <1>3
<1> QED BY <1>4, <1>5

\* The end of a sweep clears the lock only if it is its own, and leaves no sweep.
LEMMA ReleaseInv ==
  ASSUME ReachInv, NEW w \in Workers, Release(w) PROVE ReachInv'
<1> USE DEF ReachInv, ReachTypes
<1>1. pc' = [pc EXCEPT ![w] = "idle"] /\ age' = [age EXCEPT ![w] = 0] /\ flushed' = flushed
  BY DEF Release, Finish, Goto, history
<1>2. \/ owner = w /\ owner' = Unset /\ ttl' = 0
      \/ owner' = owner /\ ttl' = ttl
  BY DEF Release, DeleteOwn
<1>3. ReachTypes'
  BY <1>1, <1>2 DEF Points
<1>4. Guarded'
  <2> SUFFICES ASSUME ~flushed, Lateness = 0, NEW v \in Workers, pc'[v] \in Sweeping
               PROVE  owner' = v /\ ttl' > 0 /\ ttl' + age'[v] >= SweepHard
    BY <1>1 DEF Guarded, Lateness
  <2>1. v # w /\ pc[v] \in Sweeping /\ age'[v] = age[v]
    BY <1>1 DEF Sweeping
  <2>2. owner = v /\ ttl > 0 /\ ttl + age[v] >= SweepHard
    BY <2>1 DEF Guarded
  <2> QED BY <2>1, <2>2, <1>2
<1> QED BY <1>3, <1>4

\* A sweep that is not killed by a tick was at least two ticks from the limit.
LEMMA TickInv ==
  ASSUME ReachInv, Tick PROVE ReachInv'
<1> USE DEF ReachInv, ReachTypes
<1> DEFINE dead == {w \in Workers : Overdue(w)}
<1>1. /\ pc' = [w \in Workers |-> IF w \in dead THEN "idle" ELSE pc[w]]
      /\ age' = [w \in Workers |-> IF w \in dead \/ ~Busy(w) THEN 0 ELSE age[w] + 1]
      /\ ttl' = Down(ttl) /\ owner' = (IF ttl = 1 THEN Unset ELSE owner)
      /\ flushed' = flushed
  BY DEF Tick, history
<1>2. ReachTypes'
  <2>1. pc' \in [Workers -> Points]
    BY <1>1 DEF Points
  <2>2. age' \in [Workers -> Nat]
    BY <1>1
  <2>3. ttl' \in Nat
    BY <1>1 DEF Down
  <2> QED BY <2>1, <2>2, <2>3, <1>1
<1>3. Guarded'
  <2> SUFFICES ASSUME ~flushed, Lateness = 0, NEW v \in Workers, pc'[v] \in Sweeping
               PROVE  owner' = v /\ ttl' > 0 /\ ttl' + age'[v] >= SweepHard
    BY <1>1 DEF Guarded, Lateness
  <2>1. v \notin dead /\ pc[v] \in Sweeping
    BY <1>1 DEF Sweeping
  <2>2. Busy(v) /\ Limit(v) = SweepHard
    BY <2>1 DEF Busy, Limit, Sweeping, Rechecking
  <2>3. ~(age[v] + 1 >= SweepHard + 0)
    BY <2>1, <2>2 DEF Overdue
  <2>4. age'[v] = age[v] + 1
    BY <1>1, <2>1, <2>2
  <2>5. owner = v /\ ttl > 0 /\ ttl + age[v] >= SweepHard
    BY <2>1 DEF Guarded
  <2>6. SweepHard \in Nat /\ age[v] \in Nat
    BY LimitAssumption
  <2>7. ttl > 1
    BY <2>3, <2>5, <2>6
  <2>8. ttl' = ttl - 1 /\ owner' = owner
    BY <2>7, <1>1 DEF Down
  <2> QED BY <2>4, <2>5, <2>6, <2>7, <2>8
<1> QED BY <1>2, <1>3

\* The two soft and hard ends of a task free its process.
LEMMA FinishInv ==
  ASSUME ReachInv, NEW w \in Workers, Finish(w), UNCHANGED sweepLock PROVE ReachInv'
<1>1. pc' = [pc EXCEPT ![w] = "idle"] /\ age' = [age EXCEPT ![w] = 0]
  BY DEF Finish, Goto
<1>2. "idle" \in Points /\ "idle" \notin Sweeping
  BY DEF Points, Sweeping
<1> QED BY <1>1, <1>2, OwnStep

\* A process goes from one point of its task to another one.
LEMMA GotoInv ==
  ASSUME ReachInv, NEW w \in Workers, NEW p \in Points, Goto(w, p), age' = age,
         p \in Sweeping => pc[w] \in Sweeping, UNCHANGED sweepLock
  PROVE  ReachInv'
BY OwnStep DEF Goto

\* A step that touches neither processes nor lock.
LEMMA OtherInv ==
  ASSUME ReachInv, UNCHANGED <<pc, age, sweepLock>> PROVE ReachInv'
BY DEF ReachInv, ReachTypes, Guarded, sweepLock, Lateness

\* Every step of a process keeps the invariant.
LEMMA WorkInv ==
  ASSUME ReachInv, NEW w \in Workers, Work(w) PROVE ReachInv'
<1> USE DEF keys, history, sweepLock, Points, Sweeping
<1>1. CASE TakeSweep(w)
  BY <1>1, GotoInv DEF TakeSweep
<1>2. CASE Acquire(w)
  BY <1>2, AcquireInv
<1>3. CASE Skip(w)
  BY <1>3, FinishInv DEF Skip
<1>4. CASE SweepProbe(w)
  BY <1>4, GotoInv DEF SweepProbe
<1>5. CASE SweepRecord(w)
  BY <1>5, GotoInv DEF SweepRecord
<1>6. CASE SweepEnds(w)
  BY <1>6, GotoInv DEF SweepEnds
<1>7. CASE Release(w)
  BY <1>7, ReleaseInv
<1>8. CASE \E a \in Assets : TakeRecheck(w, a)
  BY <1>8, GotoInv DEF TakeRecheck
<1>9. CASE RecheckLoad(w)
  BY <1>9, GotoInv, FinishInv DEF RecheckLoad
<1>10. CASE Gate(w)
  BY <1>10, GotoInv, FinishInv DEF Gate
<1>11. CASE RecheckFails(w)
  BY <1>11, FinishInv DEF RecheckFails
<1>12. CASE RecheckProbe(w)
  BY <1>12, GotoInv DEF RecheckProbe
<1>13. CASE RecheckRecord(w)
  BY <1>13, FinishInv DEF RecheckRecord
<1> QED
  BY <1>1, <1>2, <1>3, <1>4, <1>5, <1>6, <1>7, <1>8, <1>9, <1>10, <1>11, <1>12, <1>13
  DEF Work

\* Every step keeps the invariant.
LEMMA ReachNextInv == ReachInv /\ [ReachNext]_reachVars => ReachInv'
<1> SUFFICES ASSUME ReachInv, [ReachNext]_reachVars PROVE ReachInv'
  OBVIOUS
<1>1. CASE Beat
  BY <1>1, OtherInv DEF Beat, keys, task, history, sweepLock
<1>2. CASE Tick
  BY <1>2, TickInv
<1>3. CASE Flush
  <2>1. ReachTypes'
    BY <1>3 DEF Flush, ReachInv, ReachTypes, task
  <2>2. flushed' = TRUE
    BY <1>3 DEF Flush
  <2> QED BY <2>1, <2>2 DEF ReachInv, Guarded
<1>4. ASSUME NEW w \in Workers, Work(w) PROVE ReachInv'
  BY <1>4, WorkInv
<1>5. ASSUME NEW w \in Workers, Kill(w) PROVE ReachInv'
  BY <1>5, FinishInv DEF Kill, keys, sweepLock
<1>6. ASSUME NEW a \in Assets, Ask(a) PROVE ReachInv'
  BY <1>6, OtherInv DEF Ask, CloseGate, task, history, sweepLock
<1>7. ASSUME NEW a \in Assets, Edit(a) PROVE ReachInv'
  BY <1>7, OtherInv DEF Edit, keys, task, history, sweepLock
<1>8. CASE UNCHANGED reachVars
  BY <1>8, OtherInv DEF reachVars, keys, task, history, sweepLock
<1> QED BY <1>1, <1>2, <1>3, <1>4, <1>5, <1>6, <1>7, <1>8 DEF ReachNext

\* The invariant keeps two sweeps apart.
LEMMA InvOne == ReachInv => OneSweep
BY DEF ReachInv, Guarded, OneSweep

\* For every number of processes, every pair of limits and every fault but a loss
\* of the key and a late kill: two sweeps never run at once
\* (revalidate_asset_urls, the TTL of its lock).
THEOREM Exclusive == ReachSpec => []OneSweep
<1>1. ReachSpec => []ReachInv
  BY ReachInitInv, ReachNextInv, PTL DEF ReachSpec
<1> QED BY <1>1, InvOne, PTL

\* Whether or not the lock is lost or the kill is late, the end of a sweep clears
\* no lock but its own (_LOCK_RELEASE_LUA).
THEOREM OwnRelease == ReachSpec => ReleaseIsOwn
<1> DEFINE Own == \A w \in Workers : pc[w] = "release" /\ pc'[w] # "release"
                    => owner' = owner \/ owner = w \/ ttl = 1
<1>1. ReachInv /\ [ReachNext]_reachVars => [Own]_reachVars
  <2> SUFFICES ASSUME ReachInv, [ReachNext]_reachVars, NEW w \in Workers,
                      pc[w] = "release", pc'[w] # "release"
               PROVE  owner' = owner \/ owner = w \/ ttl = 1
    OBVIOUS
  <2>1. pc \in [Workers -> Points]
    BY DEF ReachInv, ReachTypes
  <2>2. CASE Tick
    BY <2>2 DEF Tick
  <2>3. CASE Beat \/ Flush \/ UNCHANGED reachVars
    BY <2>3 DEF Beat, Flush, reachVars, task
  <2>4. ASSUME NEW v \in Workers, Work(v) PROVE owner' = owner \/ owner = w
    <3>1. CASE v = w
      BY <3>1, <2>4, <2>1 DEF Work, TakeSweep, Acquire, Skip, SweepProbe, SweepRecord,
         SweepEnds, Release, DeleteOwn, TakeRecheck, RecheckLoad, Gate, RecheckFails,
         RecheckProbe, RecheckRecord
    <3>2. CASE v # w
      <4>1. pc' = pc \/ \E p \in Points : pc' = [pc EXCEPT ![v] = p]
        BY <2>4 DEF Work, TakeSweep, Acquire, Skip, SweepProbe, SweepRecord, SweepEnds,
           Release, TakeRecheck, RecheckLoad, Gate, RecheckFails, RecheckProbe, RecheckRecord,
           Goto, Finish, Points
      <4>2. pc'[w] = pc[w]
        BY <4>1, <3>2, <2>1
      <4> QED BY <4>2
    <3> QED BY <3>1, <3>2
  <2>5. ASSUME NEW v \in Workers, Kill(v) PROVE owner' = owner
    BY <2>5 DEF Kill, keys
  <2>6. ASSUME NEW a \in Assets, Ask(a) \/ Edit(a) PROVE owner' = owner
    BY <2>6 DEF Ask, Edit, keys
  <2> QED BY <2>2, <2>3, <2>4, <2>5, <2>6 DEF ReachNext
<1>2. ReachSpec => []ReachInv
  BY ReachInitInv, ReachNextInv, PTL DEF ReachSpec
<1> QED BY <1>1, <1>2, PTL DEF ReachSpec, ReleaseIsOwn

-----------------------------------------------------------------------------
(* The content of a file *)

Content == Seq(Files \union {Hole})

\* Position p of file f has arrived; and, with the last one, nothing beyond.
Has(d, f, p) == p <= Len(d) /\ d[p] = f
Complete(d, f, p) == Has(d, f, p) /\ (p = Lengths[f] => Len(d) = Lengths[f])

\* What a request of file f may make of what is there.
Changes(d, f) ==
  {Whole(f), Cut(d, Lengths[f])} \union {Patched(d, q, f) : q \in 1..Lengths[f]}

LEMMA WholeType ==
  ASSUME NEW f \in Files
  PROVE  /\ Lengths[f] \in Nat \ {0}
         /\ Whole(f) \in Content /\ Len(Whole(f)) = Lengths[f]
         /\ \A i \in 1..Lengths[f] : Whole(f)[i] = f
<1>1. Lengths[f] \in Nat \ {0}
  BY FilesAssumption
<1> QED
  BY <1>1 DEF Whole, Content

LEMMA PatchedType ==
  ASSUME NEW d \in Content, NEW f \in Files, NEW q \in 1..Lengths[f]
  PROVE  /\ Patched(d, q, f) \in Content
         /\ Len(Patched(d, q, f)) = (IF q > Len(d) THEN q ELSE Len(d))
         /\ \A i \in 1..Len(d) :
              Patched(d, q, f)[i] = (IF i = q THEN f ELSE d[i])
         /\ Patched(d, q, f)[q] = f
<1> DEFINE n == IF q > Len(d) THEN q ELSE Len(d)
           s == [i \in 1..n |-> IF i = q THEN f
                                ELSE IF i <= Len(d) THEN d[i] ELSE Hole]
<1>1. q \in Nat \ {0} /\ Len(d) \in Nat
  BY FilesAssumption DEF Content
<1>2. n \in Nat /\ q \in 1..n /\ Len(d) <= n
  BY <1>1
<1>3. \A i \in 1..n : (IF i = q THEN f ELSE IF i <= Len(d) THEN d[i] ELSE Hole)
                         \in Files \union {Hole}
  BY <1>1 DEF Content
<1>4. Patched(d, q, f) = s
  BY DEF Patched
<1>5. s \in Content /\ Len(s) = n
  <2> HIDE DEF n
  <2> QED
    BY <1>2, <1>3 DEF Content
<1>6. \A i \in 1..Len(d) : i \in 1..n /\ i <= Len(d)
  BY <1>1
<1>7. \A i \in 1..Len(d) : s[i] = (IF i = q THEN f ELSE d[i])
  BY <1>6
<1>8. s[q] = f
  BY <1>2
<1> QED
  BY <1>4, <1>5, <1>7, <1>8

LEMMA CutType ==
  ASSUME NEW d \in Content, NEW f \in Files
  PROVE  /\ Cut(d, Lengths[f]) \in Content
         /\ Len(Cut(d, Lengths[f])) = Lengths[f]
         /\ \A i \in 1..Lengths[f] :
              i <= Len(d) => Cut(d, Lengths[f])[i] = d[i]
<1>1. Lengths[f] \in Nat /\ Len(d) \in Nat
  BY FilesAssumption DEF Content
<1>2. \A i \in 1..Lengths[f] :
        (IF i <= Len(d) THEN d[i] ELSE Hole) \in Files \union {Hole}
  BY <1>1 DEF Content
<1> QED
  BY <1>1, <1>2 DEF Cut, Content

\* No request of the same file undoes what has arrived of it.
LEMMA Steady ==
  ASSUME NEW d \in Content, NEW f \in Files, NEW e \in Changes(d, f),
         NEW p \in 1..Lengths[f]
  PROVE  /\ e \in Content
         /\ Has(d, f, p) => Has(e, f, p)
         /\ Complete(d, f, p) => Complete(e, f, p)
<1>1. Lengths[f] \in Nat \ {0} /\ Len(d) \in Nat
  BY FilesAssumption DEF Content
<1>2. CASE e = Whole(f)
  BY <1>1, <1>2, WholeType DEF Has, Complete
<1>3. CASE e = Cut(d, Lengths[f])
  BY <1>1, <1>3, CutType DEF Has, Complete
<1>4. ASSUME NEW q \in 1..Lengths[f], e = Patched(d, q, f)
      PROVE  /\ e \in Content
             /\ Has(d, f, p) => Has(e, f, p)
             /\ Complete(d, f, p) => Complete(e, f, p)
  <2>1. /\ e \in Content
        /\ Len(e) = (IF q > Len(d) THEN q ELSE Len(d))
        /\ \A i \in 1..Len(d) : e[i] = (IF i = q THEN f ELSE d[i])
    BY <1>4, PatchedType
  <2>2. Has(d, f, p) => Has(e, f, p)
    BY <1>1, <2>1 DEF Has
  <2> QED
    BY <1>1, <2>1, <2>2 DEF Complete
<1> QED
  BY <1>2, <1>3, <1>4 DEF Changes

\* A file of which every position has arrived is whole, ...
LEMMA Finished ==
  ASSUME NEW d \in Content, NEW f \in Files,
         \A p \in 1..Lengths[f] : Complete(d, f, p)
  PROVE  d = Whole(f)
<1>1. Lengths[f] \in 1..Lengths[f] /\ Lengths[f] \in Nat
  BY FilesAssumption
<1>2. Len(d) = Lengths[f] /\ \A p \in 1..Lengths[f] : d[p] = f
  BY <1>1 DEF Complete, Has
<1> QED
  BY <1>1, <1>2, WholeType DEF Content

LEMMA WholeIsComplete ==
  ASSUME NEW f \in Files, NEW p \in 1..Lengths[f]
  PROVE  Complete(Whole(f), f, p)
BY WholeType, FilesAssumption DEF Complete, Has

\* ... and stays so, whatever is sent again.
LEMMA WholeStays ==
  ASSUME NEW f \in Files, NEW e \in Changes(Whole(f), f)
  PROVE  e = Whole(f)
<1>1. Whole(f) \in Content
  BY WholeType
<1>2. \A p \in 1..Lengths[f] : Complete(e, f, p)
  BY <1>1, Steady, WholeIsComplete
<1>3. e \in Content
  <2>1. 1 \in 1..Lengths[f]
    BY FilesAssumption
  <2> QED
    BY <1>1, <2>1, Steady
<1> QED
  BY <1>2, <1>3, Finished

-----------------------------------------------------------------------------
(* Uploads *)

Chunk == [at : {"free", "open", "write", "truncate", "answer"},
          s : Sessions \union {NoFile}, file : Files \union {NoFile},
          pos : Nat, inode : Inodes \union {0}]
Client == [file : Files \union {NoFile}, acked : SUBSET Nat, attempts : Nat]

UploadTypes ==
  /\ data \in [Inodes -> Content]
  /\ staged \in [Sessions -> Inodes \union {0}]
  /\ chunk \in [Slots -> Chunk]
  /\ client \in [Sessions -> Client]
  /\ wiped \in [Sessions -> BOOLEAN] /\ sends \in Nat

\* The client sends a file of which nothing was lost.
Current(s) == client[s].file # NoFile /\ ~wiped[s]

\* The positions that a request is about
PositionsOf(c) == IF c.pos = 0 THEN 1..Lengths[c.file] ELSE {c.pos}

\* Nobody else's file is staged at the inode that a request writes to.
Sole(c) == \A s \in Sessions : c.inode # 0 /\ staged[s] = c.inode => s = c.s

\* What a request of the current file has done to what is staged
Arrived(c) ==
  /\ c.file = client[c.s].file
  /\ c.at # "open" => c.inode = staged[c.s]
  /\ c.at = "truncate" => Has(data[c.inode], c.file, c.pos)
  /\ c.at = "answer" =>
       \A p \in PositionsOf(c) : Complete(data[c.inode], c.file, p)

SlotOK(c) ==
  IF c.at = "free" THEN c.inode = 0
  ELSE /\ c.s \in Sessions /\ c.file \in Files
       /\ c.pos \in 0..Lengths[c.file]
       /\ c.at = "open" <=> c.inode = 0
       /\ c.at = "truncate" => c.pos = Lengths[c.file]
       /\ Sole(c)
       /\ Current(c.s) => Arrived(c)

\* A position is acknowledged only if it has arrived, and no two sessions
\* share a staged file.
SessionOK(s) ==
  /\ \A z \in Sessions \ {s} : staged[s] # 0 => staged[z] # staged[s]
  /\ Current(s) =>
       \A p \in client[s].acked :
         /\ p \in 1..Lengths[client[s].file] /\ staged[s] # 0
         /\ Complete(data[staged[s]], client[s].file, p)

UploadInv ==
  /\ UploadTypes
  /\ \A t \in Slots : SlotOK(chunk[t])
  /\ \A s \in Sessions : SessionOK(s)

\* The file of a row is staged no more; and it is what was uploaded, which
\* only requests with the same content can write to.
RowOK(row) ==
  row.inode # 0 =>
    /\ \A s \in Sessions : staged[s] # row.inode
    /\ row.of # NoFile =>
         /\ row.of \in Files /\ data[row.inode] = Whole(row.of)
         /\ \A t \in Slots :
              chunk[t].inode = row.inode => chunk[t].file = row.of

\* Every nonempty set of numbers has a least one.
LEMMA Least ==
  ASSUME NEW S \in SUBSET Nat, S # {}
  PROVE  \E m \in S : \A k \in S : m <= k
<1>1. PICK n \in S : TRUE
  OBVIOUS
<1> DEFINE N == 0..n
           T == {0..m : m \in S \intersect N}
           R == StrictSubsetOrdering(N)
<1>2. IsFiniteSet(N)
  BY <1>1, FS_Interval
<1>3. T \subseteq FiniteSubsetsOf(N)
  <2>1. \A m \in S \intersect N : 0..m \subseteq N
    BY <1>1
  <2> QED
    BY <1>2, <2>1, FS_FiniteSubsetsOfFinite
<1>4. T # {}
  <2>1. n \in S \intersect N
    BY <1>1
  <2> QED
    BY <2>1
<1>5. IsWellFoundedOn(R, FiniteSubsetsOf(N))
  BY FS_StrictSubsetOrderingWellFounded
<1>6. PICK x \in T : \A y \in T : ~(<<y, x>> \in R)
  <2> HIDE DEF T, R, N
  <2> QED
    BY <1>3, <1>4, <1>5, WFMin
<1>7. PICK m \in S \intersect N : x = 0..m
  BY <1>6
<1>8. ASSUME NEW k \in S, k < m PROVE FALSE
  <2>1. k \in S \intersect N /\ m \in Nat /\ k \in Nat
    BY <1>1, <1>7, <1>8
  <2>2. 0..k \in T /\ 0..k \subseteq x /\ x \subseteq N /\ 0..k \subseteq N
    BY <1>1, <1>7, <1>8, <2>1
  <2>3. m \in x /\ m \notin 0..k
    BY <1>7, <1>8, <2>1
  <2>4. <<0..k, x>> \in R
    BY <2>2, <2>3 DEF StrictSubsetOrdering
  <2> QED
    BY <1>6, <2>2, <2>4
<1> QED
  BY <1>7, <1>8

\* A new file gets an inode that nobody uses.
LEMMA NewInode ==
  ASSUME NEW kept, Unused(kept) # {}
  PROVE  LET new == CHOOSE i \in Unused(kept) : \A j \in Unused(kept) : i <= j
         IN  new \in Unused(kept)
<1>1. Unused(kept) \in SUBSET Nat
  BY DEF Unused, Inodes
<1>2. \E i \in Unused(kept) : \A j \in Unused(kept) : i <= j
  BY <1>1, Least
<1> QED
  BY <1>2

LEMMA FreeOK == Free \in Chunk /\ SlotOK(Free)
BY DEF Free, Chunk, SlotOK

LEMMA UploadInitInv == UploadInit => UploadInv
<1> SUFFICES ASSUME UploadInit PROVE UploadInv
  OBVIOUS
<1> USE DEF UploadInit
<1>1. data \in [Inodes -> Content]
  BY DEF Content
<1>2. UploadTypes
  BY <1>1, FreeOK DEF UploadTypes, Client
<1>3. \A t \in Slots : SlotOK(chunk[t])
  BY DEF SlotOK, Free
<1>4. \A s \in Sessions : SessionOK(s)
  BY DEF SessionOK, Current
<1> QED
  BY <1>2, <1>3, <1>4 DEF UploadInv

\* A row is not affected by what leaves its file alone.
Spared(row) == RowOK(row) => RowOK(row)'

\* Rows are not affected by what leaves the files alone.
LEMMA FilesKept ==
  ASSUME UNCHANGED <<data, staged>>, NEW row,
         \A t \in Slots : chunk'[t].inode \in {0, chunk[t].inode}
                          /\ (chunk'[t].inode # 0 => chunk'[t].file = chunk[t].file)
  PROVE  Spared(row)
BY DEF Spared, RowOK

LEMMA TurnStep ==
  ASSUME UploadInv, NEW s \in Sessions, NEW f \in Files, Turn(s, f)
  PROVE  UploadInv' /\ \A row : Spared(row)
<1> USE DEF Turn
<1>1. /\ client' = [client EXCEPT ![s] =
           [file |-> f, acked |-> {}, attempts |-> @.attempts + 1]]
      /\ wiped' = [wiped EXCEPT ![s] = FALSE]
      /\ UNCHANGED <<data, staged, chunk, sends>>
  OBVIOUS
<1>2. client[s] \in Client
  BY DEF UploadInv, UploadTypes
<1>3. [file |-> f, acked |-> {}, attempts |-> client[s].attempts + 1] \in Client
  BY <1>2 DEF Client
<1>4. client' \in [Sessions -> Client]
  BY <1>1, <1>3 DEF UploadInv, UploadTypes
<1>5. UploadTypes'
  BY <1>1, <1>4 DEF UploadInv, UploadTypes
<1>6. \A z \in Sessions \ {s} : client'[z] = client[z] /\ wiped'[z] = wiped[z]
  BY <1>1 DEF UploadInv, UploadTypes
<1>7. client'[s].acked = {}
  BY <1>1 DEF UploadInv, UploadTypes
<1>8. ASSUME NEW t \in Slots PROVE SlotOK(chunk[t])'
  <2>1. chunk[t].at # "free" => chunk[t].s \in Sessions \ {s}
    BY DEF UploadInv, SlotOK, InFlight
  <2> QED
    BY <1>1, <1>6, <2>1
       DEF UploadInv, SlotOK, Sole, Current, Arrived, PositionsOf
<1>9. ASSUME NEW z \in Sessions PROVE SessionOK(z)'
  BY <1>1, <1>6, <1>7 DEF UploadInv, SessionOK, Current
<1>10. \A row : Spared(row)
  BY <1>1, FilesKept
<1> QED
  BY <1>5, <1>8, <1>9, <1>10 DEF UploadInv

\* A slot is taken or given free.
LEMMA SlotStep ==
  ASSUME UploadInv, NEW t \in Slots, NEW c \in Chunk, SlotOK(c),
         c.inode \in {0, chunk[t].inode}, c.inode # 0 => c.file = chunk[t].file,
         chunk' = [chunk EXCEPT ![t] = c], sends' \in Nat,
         UNCHANGED <<data, staged, client, wiped>>
  PROVE  UploadInv' /\ \A row : Spared(row)
<1>1. /\ chunk' \in [Slots -> Chunk] /\ chunk'[t] = c
      /\ \A u \in Slots \ {t} : chunk'[u] = chunk[u]
  BY DEF UploadInv, UploadTypes
<1>2. UploadTypes'
  BY <1>1 DEF UploadInv, UploadTypes
<1>3. \A u \in Slots : SlotOK(chunk'[u])
  BY <1>1 DEF UploadInv
<1>4. \A u \in Slots : SlotOK(chunk[u])'
  BY <1>3 DEF SlotOK, Sole, Current, Arrived, PositionsOf
<1>5. \A z \in Sessions : SessionOK(z)'
  BY DEF UploadInv, SessionOK, Current
<1>6. \A row : Spared(row)
  BY <1>1, FilesKept
<1> QED
  BY <1>2, <1>4, <1>5, <1>6 DEF UploadInv

LEMMA SendStep ==
  ASSUME UploadInv, NEW t \in Slots, NEW s \in Sessions,
         \/ SendWhole(t, s)
         \/ \E p \in 1..(IF client[s].file = NoFile THEN 0
                         ELSE Lengths[client[s].file]) : Send(t, s, p)
  PROVE  UploadInv' /\ \A row : Spared(row)
<1>1. client[s].file # NoFile /\ client[s].file \in Files
  BY DEF Send, SendWhole, UploadInv, UploadTypes, Client
<1>2. Lengths[client[s].file] \in Nat
  BY <1>1, FilesAssumption
<1>3. PICK p \in 0..Lengths[client[s].file] :
        chunk' = [chunk EXCEPT ![t] =
          [at |-> "open", s |-> s, file |-> client[s].file, pos |-> p, inode |-> 0]]
  BY <1>1, <1>2 DEF Send, SendWhole
<1> DEFINE c == [at |-> "open", s |-> s, file |-> client[s].file, pos |-> p,
                 inode |-> 0]
<1>4. c \in Chunk
  BY <1>1, <1>2 DEF Chunk
<1>5. SlotOK(c)
  BY <1>1 DEF SlotOK, Sole, Arrived
<1>6. sends' \in Nat /\ UNCHANGED <<data, staged, client, wiped>>
  BY DEF Send, SendWhole, UploadInv, UploadTypes
<1>7. chunk' = [chunk EXCEPT ![t] = c] /\ c.inode = 0
  BY <1>3
<1> HIDE DEF c
<1> QED
  BY <1>4, <1>5, <1>6, <1>7, SlotStep

\* A request writes to the inode it has open: what it makes of the file.
LEMMA EditStep ==
  ASSUME UploadInv, NEW t \in Slots, chunk[t].at \in {"write", "truncate"},
         NEW e \in Changes(data[chunk[t].inode], chunk[t].file),
         NEW at \in {"truncate", "answer"},
         at = "truncate" =>
           /\ chunk[t].pos = Lengths[chunk[t].file]
           /\ Has(e, chunk[t].file, chunk[t].pos),
         at = "answer" /\ Current(chunk[t].s) =>
           \A p \in PositionsOf(chunk[t]) : Complete(e, chunk[t].file, p),
         data' = [data EXCEPT ![chunk[t].inode] = e],
         chunk' = [chunk EXCEPT ![t].at = at],
         UNCHANGED <<staged, client, wiped, sends>>
  PROVE  UploadInv' /\ \A row : Spared(row)
<1> DEFINE c == chunk[t]
<1>1. /\ c \in Chunk /\ c.s \in Sessions /\ c.file \in Files
      /\ c.inode \in Inodes /\ c.pos \in 0..Lengths[c.file]
      /\ Sole(c) /\ (Current(c.s) => Arrived(c))
  BY DEF UploadInv, UploadTypes, SlotOK, Chunk
<1>2. /\ data[c.inode] \in Content
      /\ data \in [Inodes -> Content] /\ chunk \in [Slots -> Chunk]
  BY <1>1 DEF UploadInv, UploadTypes
<1>3. e \in Content
  <2>1. 1 \in 1..Lengths[c.file]
    BY <1>1, FilesAssumption
  <2> QED
    BY <1>1, <1>2, <2>1, Steady
<1>4. /\ data' \in [Inodes -> Content] /\ data'[c.inode] = e
      /\ \A i \in Inodes : i # c.inode => data'[i] = data[i]
  BY <1>1, <1>2, <1>3
<1>5. /\ chunk' \in [Slots -> Chunk]
      /\ \A u \in Slots : /\ chunk'[u].s = chunk[u].s /\ chunk'[u].file = chunk[u].file
                          /\ chunk'[u].pos = chunk[u].pos
                          /\ chunk'[u].inode = chunk[u].inode
      /\ \A u \in Slots \ {t} : chunk'[u].at = chunk[u].at
      /\ chunk'[t].at = at
  BY <1>2 DEF Chunk
<1>6. UploadTypes'
  BY <1>4, <1>5 DEF UploadInv, UploadTypes
<1>7. ASSUME NEW s \in Sessions, Current(s), staged[s] \in Inodes,
             NEW p \in 1..Lengths[client[s].file]
      PROVE  /\ Has(data[staged[s]], client[s].file, p)
                  => Has(data'[staged[s]], client[s].file, p)
             /\ Complete(data[staged[s]], client[s].file, p)
                  => Complete(data'[staged[s]], client[s].file, p)
  <2>1. CASE staged[s] = c.inode
    <3>1. s = c.s
      BY <1>1, <2>1, <1>7 DEF Sole, Inodes
    <3>2. client[s].file = c.file
      BY <1>1, <1>7, <3>1 DEF Arrived
    <3> QED
      BY <1>1, <1>2, <1>4, <1>7, <2>1, <3>2, Steady
  <2>2. CASE staged[s] # c.inode
    BY <1>4, <1>7, <2>2
  <2> QED
    BY <2>1, <2>2
<1>8. ASSUME NEW u \in Slots PROVE SlotOK(chunk[u])'
  <2>1. SlotOK(chunk[u])
    BY DEF UploadInv
  <2>2. CASE u = t
    <3>1. /\ (Sole(c))' /\ chunk[u]'.at = at /\ chunk'[u].inode = c.inode
      BY <1>1, <1>5, <2>2 DEF Sole
    <3>2. ASSUME Current(c.s) PROVE Arrived(chunk[u])'
      BY <1>1, <1>4, <1>5, <2>2, <3>2 DEF Arrived, PositionsOf
    <3> QED
      BY <1>1, <1>5, <2>2, <3>1, <3>2 DEF SlotOK, Current, Sole, Inodes
  <2>3. CASE u # t
    <3> DEFINE d == chunk[u]
    <3>0. chunk'[u].at = d.at
      BY <1>5, <2>3
    <3>1. CASE d.at = "free" \/ d.at = "open"
      BY <1>5, <2>1, <3>0, <3>1 DEF SlotOK, Sole, Current, Arrived
    <3>2. CASE d.at # "free" /\ d.at # "open"
      <4>1. /\ d.s \in Sessions /\ d.file \in Files /\ d.pos \in 0..Lengths[d.file]
            /\ d.inode \in Inodes
        BY <1>2, <2>1, <3>2 DEF SlotOK, Chunk
      <4>2. ASSUME Current(d.s) PROVE Arrived(chunk[u])'
        <5>1. Arrived(d) /\ d.file = client[d.s].file /\ d.inode = staged[d.s]
          BY <2>1, <3>2, <4>2 DEF SlotOK, Arrived
        <5>2. d.at = "truncate" => d.pos \in 1..Lengths[d.file]
          BY <2>1, <4>1, FilesAssumption DEF SlotOK
        <5>3. PositionsOf(d) \subseteq 1..Lengths[d.file]
          BY <4>1, FilesAssumption DEF PositionsOf
        <5>4. d.at = "truncate" => Has(data'[d.inode], d.file, d.pos)
          BY <1>7, <4>1, <4>2, <5>1, <5>2 DEF Arrived
        <5>5. d.at = "answer" =>
                \A p \in PositionsOf(d) : Complete(data'[d.inode], d.file, p)
          BY <1>7, <4>1, <4>2, <5>1, <5>3 DEF Arrived
        <5> HIDE DEF d
        <5>6. Arrived(chunk[u])' <=>
                /\ d.file = client[d.s].file
                /\ d.inode = staged[d.s]
                /\ d.at = "truncate" => Has(data'[d.inode], d.file, d.pos)
                /\ d.at = "answer" =>
                     \A p \in PositionsOf(d) : Complete(data'[d.inode], d.file, p)
          BY <1>5, <3>0, <3>2 DEF Arrived, PositionsOf, d
        <5> QED
          BY <5>1, <5>4, <5>5, <5>6
      <4> QED
        BY <1>5, <2>1, <3>0, <3>2, <4>2 DEF SlotOK, Sole, Current
    <3> QED
      BY <3>1, <3>2
  <2> QED
    BY <2>2, <2>3
<1>9. ASSUME NEW z \in Sessions PROVE SessionOK(z)'
  <2>1. SessionOK(z) /\ staged[z] \in Inodes \union {0}
    BY DEF UploadInv, UploadTypes
  <2>2. ASSUME Current(z), NEW p \in client[z].acked
        PROVE  /\ p \in 1..Lengths[client[z].file] /\ staged[z] # 0
               /\ Complete(data'[staged[z]], client[z].file, p)
    BY <1>7, <2>1, <2>2 DEF SessionOK
  <2> QED
    BY <2>1, <2>2 DEF SessionOK, Current
<1>10. ASSUME NEW row PROVE Spared(row)
  <2> SUFFICES ASSUME RowOK(row), row.inode # 0
               PROVE  /\ \A s \in Sessions : staged'[s] # row.inode
                      /\ row.of # NoFile =>
                           /\ row.of \in Files /\ data'[row.inode] = Whole(row.of)
                           /\ \A u \in Slots : chunk'[u].inode = row.inode
                                => chunk'[u].file = row.of
    BY DEF Spared, RowOK
  <2>1. row.of # NoFile /\ row.inode = c.inode => e = Whole(row.of)
    <3> SUFFICES ASSUME row.of # NoFile, row.inode = c.inode PROVE e = Whole(row.of)
      OBVIOUS
    <3>1. row.of = c.file /\ data[c.inode] = Whole(c.file)
      BY DEF RowOK
    <3>2. e \in Changes(Whole(c.file), c.file)
      BY <3>1
    <3> QED
      BY <1>1, <3>1, <3>2, WholeStays
  <2>2. row.of # NoFile /\ row.inode # c.inode => data'[row.inode] = data[row.inode]
    BY <1>2
  <2> QED
    BY <1>4, <1>5, <2>1, <2>2 DEF RowOK
<1> QED
  BY <1>6, <1>8, <1>9, <1>10 DEF UploadInv

LEMMA WriteStep ==
  ASSUME UploadInv, NEW t \in Slots, Write(t) \/ Truncate(t)
  PROVE  UploadInv' /\ \A row : Spared(row)
<1> DEFINE c == chunk[t]
           d == data[c.inode]
<1>1. /\ c \in Chunk /\ c.s \in Sessions /\ c.file \in Files
      /\ c.inode \in Inodes /\ c.pos \in 0..Lengths[c.file] /\ d \in Content
      /\ (Current(c.s) => Arrived(c))
      /\ c.at = "truncate" => c.pos = Lengths[c.file]
  BY DEF UploadInv, UploadTypes, SlotOK, Chunk, Write, Truncate
<1>2. Lengths[c.file] \in Nat \ {0}
  BY <1>1, FilesAssumption
<1>3. CASE Write(t)
  <2> DEFINE e == IF c.pos = 0 THEN Whole(c.file) ELSE Patched(d, c.pos, c.file)
             at == IF c.pos = Lengths[c.file] THEN "truncate" ELSE "answer"
  <2>1. e \in Changes(d, c.file)
    BY <1>1, <1>2 DEF Changes
  <2>2. c.pos # 0 => Has(e, c.file, c.pos)
    <3> SUFFICES ASSUME c.pos # 0 PROVE Has(e, c.file, c.pos)
      OBVIOUS
    <3>1. c.pos \in 1..Lengths[c.file]
      BY <1>1, <1>2
    <3>2. /\ Len(e) = (IF c.pos > Len(d) THEN c.pos ELSE Len(d))
          /\ e[c.pos] = c.file
      BY <1>1, <3>1, PatchedType
    <3> QED
      BY <1>1, <3>1, <3>2 DEF Has, Content
  <2>3. at = "truncate" =>
          /\ c.pos = Lengths[c.file]
          /\ Has(e, c.file, c.pos)
    BY <1>2, <2>2
  <2>4. at = "answer" => \A p \in PositionsOf(c) : Complete(e, c.file, p)
    <3>1. CASE c.pos = 0
      BY <1>1, <3>1, WholeIsComplete DEF PositionsOf
    <3>2. CASE c.pos # 0
      BY <2>2, <3>2 DEF PositionsOf, Complete
    <3> QED
      BY <3>1, <3>2
  <2>5. /\ data' = [data EXCEPT ![c.inode] = e]
        /\ chunk' = [chunk EXCEPT ![t].at = at]
        /\ UNCHANGED <<staged, client, wiped, sends>> /\ c.at = "write"
    BY <1>3 DEF Write
  <2>6. at \in {"truncate", "answer"}
    OBVIOUS
  <2> HIDE DEF e, at
  <2> QED
    BY <2>1, <2>3, <2>4, <2>5, <2>6, EditStep
<1>4. CASE Truncate(t)
  <2> DEFINE e == Cut(d, Lengths[c.file])
  <2>1. e \in Changes(d, c.file)
    BY DEF Changes
  <2>2. c.at = "truncate" /\ c.pos = Lengths[c.file]
    BY <1>1, <1>4 DEF Truncate
  <2>3. ASSUME Current(c.s) PROVE \A p \in PositionsOf(c) : Complete(e, c.file, p)
    <3>1. Has(d, c.file, c.pos) /\ PositionsOf(c) = {c.pos} /\ c.pos \in 1..Lengths[c.file]
      BY <1>1, <1>2, <2>2, <2>3 DEF Arrived, PositionsOf
    <3>2. Has(e, c.file, c.pos)
      BY <1>1, <2>1, <3>1, Steady
    <3>3. Len(e) = Lengths[c.file]
      BY <1>1, CutType
    <3> QED
      BY <3>1, <3>2, <3>3 DEF Complete
  <2>4. /\ data' = [data EXCEPT ![c.inode] = e]
        /\ chunk' = [chunk EXCEPT ![t].at = "answer"]
        /\ UNCHANGED <<staged, client, wiped, sends>>
    BY <1>4 DEF Truncate
  <2> HIDE DEF e
  <2> QED
    BY <2>1, <2>2, <2>3, <2>4, EditStep
<1> QED
  BY <1>3, <1>4

\* A request opens the staged file: the one there is, or a new one.
LEMMA OpenStep ==
  ASSUME UploadInv, NEW t \in Slots, NEW kept, Open(t, kept)
  PROVE  /\ UploadInv'
         /\ \A row : row.inode \in (Inodes \intersect kept) \union {0} => Spared(row)
<1> DEFINE c == chunk[t]
           s == c.s
           new == CHOOSE i \in Unused(kept) : \A j \in Unused(kept) : i <= j
           i == IF staged[s] = 0 THEN new ELSE staged[s]
           e == IF staged[s] = 0 THEN <<>> ELSE data[i]
           d == [c EXCEPT !.at = "write", !.inode = i]
<1>1. c \in Chunk /\ c.at = "open" /\ s \in Sessions /\ c.file \in Files
      /\ c.pos \in 0..Lengths[c.file] /\ c.inode = 0
      /\ (Current(s) => c.file = client[s].file)
  BY DEF UploadInv, UploadTypes, SlotOK, Open, Arrived
<1>2. staged[s] = 0 => new \in Unused(kept)
  BY NewInode DEF Open
<1> HIDE DEF new
<1>3. i \in Inodes /\ (staged[s] # 0 => i = staged[s])
      /\ (staged[s] = 0 => i \in Unused(kept))
  BY <1>1, <1>2 DEF UploadInv, UploadTypes, Unused
<1>4. /\ staged' = [staged EXCEPT ![s] = i]
      /\ data' = [data EXCEPT ![i] = e]
      /\ chunk' = [chunk EXCEPT ![t] = d]
      /\ UNCHANGED <<client, wiped, sends>>
  <2>1. staged' = [staged EXCEPT ![s] = i] /\ UNCHANGED <<client, wiped, sends>>
    BY DEF Open, new
  <2>2. data' = [data EXCEPT ![i] = IF staged[s] = 0 THEN <<>> ELSE Opened(i)]
    BY DEF Open, new
  <2>3. data' = [data EXCEPT ![i] = e]
    BY <2>2 DEF Opened
  <2>4. chunk' = [chunk EXCEPT ![t].at = "write", ![t].inode = i]
    BY DEF Open, new
  <2>5. chunk' = [chunk EXCEPT ![t] = d]
    <3> HIDE DEF i
    <3>1. chunk \in [Slots -> Chunk]
      BY DEF UploadInv, UploadTypes
    <3> QED
      BY <2>4, <3>1 DEF Chunk
  <2> QED
    BY <2>1, <2>3, <2>5
<1> HIDE DEF i
<1>5. e \in Content /\ (staged[s] # 0 => e = data[i])
  BY <1>3 DEF UploadInv, UploadTypes, Content
<1>6. d \in Chunk /\ d.at = "write" /\ d.inode = i /\ d.s = s /\ d.file = c.file
      /\ d.pos = c.pos
  BY <1>1, <1>3 DEF Chunk
<1> HIDE DEF e, d
<1>7. /\ staged' \in [Sessions -> Inodes \union {0}] /\ staged'[s] = i
      /\ \A z \in Sessions \ {s} : staged'[z] = staged[z]
      /\ data' \in [Inodes -> Content] /\ data'[i] = e
      /\ \A j \in Inodes \ {i} : data'[j] = data[j]
      /\ chunk' \in [Slots -> Chunk] /\ chunk'[t] = d
      /\ \A u \in Slots \ {t} : chunk'[u] = chunk[u]
  BY <1>1, <1>3, <1>4, <1>5, <1>6 DEF UploadInv, UploadTypes
<1>8. UploadTypes'
  BY <1>4, <1>7 DEF UploadInv, UploadTypes
<1>9. \A z \in Sessions : staged[z] # 0 /\ staged'[z] = staged[z]
                             => data'[staged[z]] = data[staged[z]]
  BY <1>1, <1>3, <1>5, <1>7 DEF UploadInv, UploadTypes, Unused
<1>10. ASSUME NEW z \in Sessions \ {s} PROVE staged'[z] # i
  BY <1>1, <1>3, <1>7, <1>10 DEF UploadInv, SessionOK, Unused, Inodes
<1>11. ASSUME NEW u \in Slots PROVE SlotOK(chunk[u])'
  <2>0. SlotOK(chunk[u])
    BY DEF UploadInv
  <2>1. CASE u = t
    BY <1>1, <1>3, <1>4, <1>6, <1>7, <1>10, <2>1
       DEF SlotOK, Sole, Current, Arrived, Inodes
  <2>2. CASE u # t
    <3> DEFINE b == chunk[u]
    <3>1. chunk'[u] = b
      BY <1>7, <2>2
    <3>2. CASE b.at = "free" \/ b.at = "open"
      BY <1>4, <2>0, <3>1, <3>2 DEF SlotOK, Sole, Current, Arrived
    <3>3. CASE b.at # "free" /\ b.at # "open"
      <4>1. b.s \in Sessions /\ b.inode \in Inodes
        BY <2>0, <3>3 DEF SlotOK, UploadInv, UploadTypes, Chunk
      <4>2. (Sole(b))'
        BY <1>1, <1>3, <1>7, <2>0, <3>1, <3>3, <4>1 DEF SlotOK, Sole, Unused, Inodes
      <4>3. ASSUME Current(b.s) PROVE Arrived(b)'
        <5>1. Arrived(b) /\ b.inode = staged[b.s] /\ b.inode # 0
          BY <2>0, <3>3, <4>1, <4>3 DEF SlotOK, Arrived, Inodes
        <5>2. staged'[b.s] = staged[b.s]
          BY <1>1, <1>3, <1>7, <4>1, <5>1
        <5>3. data'[b.inode] = data[b.inode]
          BY <1>9, <4>1, <5>1, <5>2
        <5> QED
          BY <1>4, <3>1, <5>1, <5>2, <5>3 DEF Arrived, PositionsOf
      <4> QED
        BY <1>4, <2>0, <3>1, <3>3, <4>2, <4>3 DEF SlotOK, Current, Sole, Arrived, PositionsOf
    <3> QED
      BY <3>2, <3>3
  <2> QED
    BY <2>1, <2>2
<1>12. ASSUME NEW z \in Sessions PROVE SessionOK(z)'
  <2>1. SessionOK(z)
    BY DEF UploadInv
  <2>2. \A y \in Sessions \ {z} : staged'[z] # 0 => staged'[y] # staged'[z]
    BY <1>1, <1>3, <1>7, <1>10, <2>1 DEF SessionOK
  <2>3. ASSUME Current(z), NEW p \in client[z].acked
        PROVE  /\ p \in 1..Lengths[client[z].file] /\ staged'[z] # 0
               /\ Complete(data'[staged'[z]], client[z].file, p)
    BY <1>1, <1>3, <1>7, <1>9, <2>1, <2>3 DEF SessionOK
  <2> QED
    BY <1>4, <2>2, <2>3 DEF SessionOK, Current
<1>13. ASSUME NEW row, row.inode \in (Inodes \intersect kept) \union {0}, RowOK(row)
       PROVE  RowOK(row)'
  <2>1. CASE row.inode = 0
    BY <2>1 DEF RowOK
  <2>2. CASE row.inode # 0
    <3>1. row.inode # i
      BY <1>1, <1>3, <1>13, <2>2 DEF RowOK, Unused
    <3> QED
      BY <1>1, <1>3, <1>6, <1>7, <1>13, <2>2, <3>1 DEF RowOK
  <2> QED
    BY <2>1, <2>2
<1> QED
  BY <1>8, <1>11, <1>12, <1>13 DEF UploadInv, Spared

LEMMA DiskFullStep ==
  ASSUME UploadInv, NEW t \in Slots, DiskFull(t)
  PROVE  UploadInv' /\ \A row : Spared(row)
<1> DEFINE s == chunk[t].s
<1>1. /\ chunk[t].at = "write" /\ s \in Sessions
      /\ staged' = [staged EXCEPT ![s] = 0]
      /\ wiped' = [wiped EXCEPT ![s] = TRUE]
      /\ chunk' = [chunk EXCEPT ![t] = Free]
      /\ UNCHANGED <<data, sends>>
  BY DEF DiskFull, UploadInv, SlotOK
<1>2. /\ client' \in [Sessions -> Client]
      /\ \A z \in Sessions \ {s} : client'[z] = client[z]
  <2>1. client \in [Sessions -> Client]
    BY DEF UploadInv, UploadTypes
  <2>2. CASE UNCHANGED client
    BY <2>1, <2>2
  <2>3. CASE client' = [client EXCEPT ![s].file = NoFile, ![s].acked = {}]
    <3>1. client[s] \in Client
      BY <1>1, <2>1
    <3>2. [[client[s] EXCEPT !.file = NoFile] EXCEPT !.acked = {}] \in Client
      BY <3>1 DEF Client
    <3> QED
      BY <1>1, <2>1, <2>3, <3>2
  <2> QED
    BY <2>2, <2>3 DEF DiskFull
<1>3. /\ staged' \in [Sessions -> Inodes \union {0}] /\ staged'[s] = 0
      /\ \A z \in Sessions \ {s} : staged'[z] = staged[z] /\ wiped'[z] = wiped[z]
      /\ wiped' \in [Sessions -> BOOLEAN] /\ wiped'[s] = TRUE
      /\ chunk' \in [Slots -> Chunk] /\ chunk'[t] = Free
      /\ \A u \in Slots \ {t} : chunk'[u] = chunk[u]
  BY <1>1, FreeOK DEF UploadInv, UploadTypes
<1>4. UploadTypes'
  BY <1>1, <1>2, <1>3 DEF UploadInv, UploadTypes
<1>5. ASSUME NEW u \in Slots PROVE SlotOK(chunk[u])'
  <2>1. CASE u = t
    BY <1>3, <2>1 DEF SlotOK, Free
  <2>2. CASE u # t
    <3>1. chunk'[u] = chunk[u] /\ SlotOK(chunk[u])
      BY <1>3, <2>2 DEF UploadInv
    <3>2. (Sole(chunk[u]))'
      BY <1>1, <1>3, <3>1 DEF SlotOK, Sole, Free, UploadInv, UploadTypes, Chunk
    <3>3. chunk[u].at # "free" /\ Current(chunk[u].s)' =>
            chunk[u].s \in Sessions \ {s} /\ Current(chunk[u].s) /\ Arrived(chunk[u])
      BY <1>2, <1>3, <3>1 DEF SlotOK, Current
    <3>4. chunk[u].at # "free" /\ Current(chunk[u].s)' => Arrived(chunk[u])'
      BY <1>1, <1>2, <1>3, <3>1, <3>3 DEF Arrived, PositionsOf
    <3> QED
      BY <3>1, <3>2, <3>4 DEF SlotOK, Sole, Current, Arrived, PositionsOf
  <2> QED
    BY <2>1, <2>2
<1>6. ASSUME NEW z \in Sessions PROVE SessionOK(z)'
  <2>1. SessionOK(z)
    BY DEF UploadInv
  <2>2. \A y \in Sessions \ {z} : staged'[z] # 0 => staged'[y] # staged'[z]
    BY <1>1, <1>3, <2>1 DEF SessionOK
  <2>3. CASE z = s
    BY <1>3, <2>2, <2>3 DEF SessionOK, Current
  <2>4. CASE z # s
    BY <1>1, <1>2, <1>3, <2>1, <2>2, <2>4 DEF SessionOK, Current
  <2> QED
    BY <2>3, <2>4
<1>7. ASSUME NEW row, RowOK(row) PROVE RowOK(row)'
  BY <1>1, <1>3, <1>7 DEF RowOK, Free
<1> QED
  BY <1>4, <1>5, <1>6, <1>7 DEF UploadInv, Spared

LEMMA AnswerStep ==
  ASSUME UploadInv, NEW t \in Slots, Answer(t)
  PROVE  UploadInv' /\ \A row : Spared(row)
<1> DEFINE c == chunk[t]
           s == c.s
<1>1. /\ c.at = "answer" /\ s \in Sessions /\ c.file \in Files
      /\ c.pos \in 0..Lengths[c.file] /\ c.inode \in Inodes
      /\ chunk' = [chunk EXCEPT ![t] = Free]
      /\ (Current(s) => Arrived(c))
      /\ UNCHANGED <<data, staged, wiped, sends>>
  BY DEF Answer, UploadInv, UploadTypes, SlotOK, Chunk
<1>2. /\ client' \in [Sessions -> Client]
      /\ \A z \in Sessions : client'[z].file = client[z].file
      /\ \A z \in Sessions \ {s} : client'[z] = client[z]
      /\ client[s].file = c.file =>
           client'[s].acked \subseteq client[s].acked \union PositionsOf(c)
      /\ client[s].file # c.file => client'[s].acked = client[s].acked
  <2>1. client \in [Sessions -> Client]
    BY DEF UploadInv, UploadTypes
  <2>2. CASE UNCHANGED client
    BY <2>1, <2>2
  <2>3. CASE client' = [client EXCEPT ![c.s].acked =
               IF client[c.s].file # c.file THEN @
               ELSE IF c.pos = 0 THEN 1..Lengths[c.file] ELSE @ \union {c.pos}]
    <3> DEFINE a == IF client[s].file # c.file THEN client[s].acked
                    ELSE IF c.pos = 0 THEN 1..Lengths[c.file]
                    ELSE client[s].acked \union {c.pos}
    <3>1. client[s] \in Client /\ Lengths[c.file] \in Nat
      BY <1>1, <2>1, FilesAssumption
    <3>2. a \in SUBSET Nat
      BY <1>1, <3>1 DEF Client
    <3>3. client' = [client EXCEPT ![s].acked = a]
      BY <2>3
    <3>4. /\ client[s].file = c.file => a \subseteq client[s].acked \union PositionsOf(c)
          /\ client[s].file # c.file => a = client[s].acked
      BY DEF PositionsOf
    <3> HIDE DEF a
    <3>5. [client[s] EXCEPT !.acked = a] \in Client
      BY <3>1, <3>2 DEF Client
    <3>6. client' \in [Sessions -> Client] /\ client'[s].acked = a
          /\ client'[s].file = client[s].file
      BY <1>1, <2>1, <3>1, <3>3, <3>5 DEF Client
    <3> QED
      BY <1>1, <2>1, <3>3, <3>4, <3>6
  <2> QED
    BY <2>2, <2>3 DEF Answer
<1>3. /\ chunk' \in [Slots -> Chunk] /\ chunk'[t] = Free
      /\ \A u \in Slots \ {t} : chunk'[u] = chunk[u]
  BY <1>1, FreeOK DEF UploadInv, UploadTypes
<1>4. UploadTypes'
  BY <1>1, <1>2, <1>3 DEF UploadInv, UploadTypes
<1>5. \A z \in Sessions : Current(z)' <=> Current(z)
  BY <1>1, <1>2 DEF Current
<1>6. ASSUME NEW u \in Slots PROVE SlotOK(chunk[u])'
  <2>1. CASE u = t
    BY <1>3, <2>1 DEF SlotOK, Free
  <2>2. CASE u # t
    <3>1. chunk'[u] = chunk[u] /\ SlotOK(chunk[u])
      BY <1>3, <2>2 DEF UploadInv
    <3>2. chunk[u].s \in Sessions /\ Arrived(chunk[u]) => Arrived(chunk[u])'
      BY <1>1, <1>2, <3>1 DEF Arrived, PositionsOf
    <3> QED
      BY <1>1, <1>5, <3>1, <3>2 DEF SlotOK, Sole, Current, Arrived, PositionsOf
  <2> QED
    BY <2>1, <2>2
<1>7. ASSUME NEW z \in Sessions PROVE SessionOK(z)'
  <2>1. SessionOK(z)
    BY DEF UploadInv
  <2>2. CASE z = s
    <3>1. ASSUME Current(s), NEW p \in client'[s].acked
          PROVE  /\ p \in 1..Lengths[client[s].file] /\ staged[s] # 0
                 /\ Complete(data[staged[s]], client[s].file, p)
      <4>1. c.file = client[s].file /\ c.inode = staged[s]
            /\ \A q \in PositionsOf(c) : Complete(data[c.inode], c.file, q)
        BY <1>1, <3>1 DEF Arrived
      <4>2. PositionsOf(c) \subseteq 1..Lengths[c.file]
        BY <1>1, FilesAssumption DEF PositionsOf
      <4>3. p \in client[s].acked \union PositionsOf(c)
        BY <1>2, <3>1, <4>1
      <4>4. CASE p \in client[s].acked
        BY <2>1, <2>2, <3>1, <4>4 DEF SessionOK
      <4>5. CASE p \in PositionsOf(c)
        <5>1. staged[s] # 0
          BY <1>1, <4>1 DEF Inodes
        <5> QED
          BY <4>1, <4>2, <4>5, <5>1
      <4> QED
        BY <4>3, <4>4, <4>5
    <3> QED
      BY <1>1, <1>2, <1>5, <2>1, <2>2, <3>1 DEF SessionOK
  <2>3. CASE z # s
    BY <1>1, <1>2, <1>5, <2>1, <2>3 DEF SessionOK
  <2> QED
    BY <2>2, <2>3
<1>8. ASSUME NEW row PROVE Spared(row)
  BY <1>1, <1>3, FilesKept DEF Free
<1> QED
  BY <1>4, <1>6, <1>7, <1>8 DEF UploadInv

LEMMA UploadsDieStep ==
  ASSUME UploadInv, UploadsDie
  PROVE  UploadInv' /\ \A row : Spared(row)
<1> USE DEF UploadsDie
<1>1. UploadTypes'
  BY FreeOK DEF UploadInv, UploadTypes
<1>2. \A u \in Slots : SlotOK(chunk[u])'
  BY DEF SlotOK, Free
<1>3. \A z \in Sessions : SessionOK(z)'
  BY DEF UploadInv, SessionOK, Current
<1>4. \A row : Spared(row)
  BY FilesKept DEF Free
<1> QED
  BY <1>1, <1>2, <1>3, <1>4 DEF UploadInv

\* The uploads do nothing to a file that is an asset's.
LEMMA UploadStepInv ==
  ASSUME UploadInv, NEW kept, UploadStep(kept)
  PROVE  /\ UploadInv'
         /\ \A row : row.inode \in (Inodes \intersect kept) \union {0} => Spared(row)
BY TurnStep, SendStep, OpenStep, WriteStep, DiskFullStep, AnswerStep DEF UploadStep

-----------------------------------------------------------------------------
(* Requests *)

\* Rows whose file, if they have one, is theirs
SoundRow ==
  {row \in [id : Ids \union {None}, enabled : BOOLEAN, order : Int,
            inode : Inodes \union {0}, of : Files \union {NoFile}] : RowOK(row)}

\* The steps that there are
Steps == {"rename", "list", "count", "insert", "load", "write", "refresh", "splice",
          "save", "exists", "flag", "dates", "select", "unlink", "delete", "publish"}

\* What is left of a request from its first change of the rotation on: nothing
\* that can fail, but for the loss of its asset, and then the reload.
After(step) ==
  CASE step = "write" -> {"list", "refresh", "save", "exists", "publish"}
    [] step \in {"flag", "dates"} -> {"publish"}
    [] step \in {"select", "unlink", "delete"} -> {"unlink", "delete", "publish"}
    [] OTHER -> {}

Telling == {"write", "flag", "dates", "select", "unlink", "delete"}

Orderly(rest) ==
  \A i \in DOMAIN rest : rest[i] \in Telling =>
    /\ rest[Len(rest)] = "publish"
    /\ \A j \in DOMAIN rest : j > i => rest[j] \in After(rest[i])

RequestIn(q, sound) ==
  /\ {"kind", "rest", "row", "ids", "next", "doomed", "alone"} \subseteq DOMAIN q
  /\ q.kind = "createUpload" => \A i \in DOMAIN q.rest : q.rest[i] # "publish"
  /\ q.rest \in Seq(Steps) /\ Orderly(q.rest)
  /\ q.next \in Nat /\ q.row \in sound
RequestOK(q) == RequestIn(q, SoundRow)

TableInv ==
  /\ table \in Seq(SoundRow)
  /\ DOMAIN request = Threads
  /\ \A r \in Threads : RequestOK(request[r])

WholeInv == UploadInv /\ TableInv

\* It still has a reload to send, and nothing keeps it from that.
Owes(q) ==
  /\ q.rest # <<>> /\ q.rest[Len(q.rest)] = "publish"
  /\ \/ Present(q.row.id) /\ \A i \in DOMAIN q.rest : q.rest[i] \in After("write")
     \/ \A i \in DOMAIN q.rest : q.rest[i] \in After("delete")

\* Until the viewer has been told, somebody is about to tell it.
ToldInv == untold = {} \/ \E r \in Threads : Owes(request[r])

\* A row with the file of a sound one, or with none, is sound.
LEMMA SoundRows ==
  ASSUME NEW row \in SoundRow
  PROVE  /\ row.id \in Ids \union {None} /\ row.order \in Int
         /\ row.inode \in Inodes \union {0} /\ RowOK(row)
         /\ \A n \in Int : [row EXCEPT !.order = n] \in SoundRow
         /\ \A e \in BOOLEAN : [row EXCEPT !.enabled = e] \in SoundRow
         /\ [row EXCEPT !.inode = 0, !.of = NoFile] \in SoundRow
BY DEF SoundRow, RowOK

LEMMA BlankRow ==
  ASSUME NEW id \in Ids \union {None}, NEW e \in BOOLEAN, NEW n \in Int
  PROVE  RowOf(id, e, n) \in SoundRow
BY DEF SoundRow, RowOK, Blank, RowOf

LEMMA BlankSound == Blank \in SoundRow
BY DEF SoundRow, RowOK, Blank

LEMMA WaitingOK == RequestOK(Waiting)
<1>1. <<>> \in Seq(Steps) /\ Orderly(<<>>)
  BY DEF Orderly
<1> QED
  BY <1>1, BlankSound DEF RequestOK, RequestIn, Waiting

\* The order of the steps stays as they are taken.
LEMMA OrderlyTail ==
  ASSUME NEW rest \in Seq(Steps), rest # <<>>, Orderly(rest)
  PROVE  Tail(rest) \in Seq(Steps) /\ Orderly(Tail(rest))
<1>1. /\ Tail(rest) \in Seq(Steps) /\ Len(rest) \in Nat \ {0}
      /\ Len(Tail(rest)) = Len(rest) - 1
      /\ \A i \in 1..Len(Tail(rest)) : Tail(rest)[i] = rest[i + 1]
  OBVIOUS
<1>2. ASSUME NEW i \in DOMAIN Tail(rest), Tail(rest)[i] \in Telling
      PROVE  /\ Tail(rest)[Len(Tail(rest))] = "publish"
             /\ \A j \in DOMAIN Tail(rest) :
                  j > i => Tail(rest)[j] \in After(Tail(rest)[i])
  <2>1. /\ i \in 1..Len(Tail(rest)) /\ i + 1 \in DOMAIN rest
        /\ rest[i + 1] = Tail(rest)[i]
    BY <1>1
  <2>2. /\ rest[Len(rest)] = "publish"
        /\ \A j \in DOMAIN rest : j > i + 1 => rest[j] \in After(rest[i + 1])
    BY <1>2, <2>1 DEF Orderly
  <2>3. Tail(rest)[Len(Tail(rest))] = "publish"
    BY <1>1, <2>1, <2>2
  <2>4. ASSUME NEW j \in DOMAIN Tail(rest), j > i
        PROVE  Tail(rest)[j] \in After(Tail(rest)[i])
    <3>1. j \in 1..Len(Tail(rest)) /\ j + 1 \in DOMAIN rest /\ j + 1 > i + 1
      BY <1>1, <2>1, <2>4
    <3> QED
      BY <1>1, <2>1, <2>2, <3>1
  <2> QED
    BY <2>3, <2>4
<1> QED
  BY <1>1, <1>2 DEF Orderly

LEMMA AfterIs ==
  /\ After("write") = {"list", "refresh", "save", "exists", "publish"}
  /\ After("flag") = {"publish"} /\ After("dates") = {"publish"}
  /\ After("select") = {"unlink", "delete", "publish"}
  /\ After("unlink") = {"unlink", "delete", "publish"}
  /\ After("delete") = {"unlink", "delete", "publish"}
BY DEF After

LEMMA Pushed ==
  ASSUME NEW T, NEW x \in T, NEW s \in Seq(T)
  PROVE  /\ <<x>> \o s \in Seq(T) /\ Len(<<x>> \o s) = Len(s) + 1
         /\ (<<x>> \o s)[1] = x
         /\ \A i \in 1..Len(s) : (<<x>> \o s)[i + 1] = s[i]
<1>1. <<x>> \in Seq(T) /\ Len(<<x>>) = 1 /\ <<x>>[1] = x
  OBVIOUS
<1> DEFINE h == <<x>>
<1>2. h \in Seq(T) /\ Len(h) = 1 /\ h[1] = x
  BY <1>1
<1> HIDE DEF h
<1>3. /\ h \o s \in Seq(T) /\ Len(h \o s) = Len(h) + Len(s)
      /\ \A i \in 1..(Len(h) + Len(s)) :
           (h \o s)[i] = IF i <= Len(h) THEN h[i] ELSE s[i - Len(h)]
  BY <1>2, ConcatProperties
<1>4. (h \o s)[1] = x /\ Len(h \o s) = Len(s) + 1
  BY <1>2, <1>3
<1>5. \A i \in 1..Len(s) : (h \o s)[i + 1] = s[i]
  <2>1. \A i \in 1..Len(s) : i + 1 \in 1..(1 + Len(s)) /\ ~(i + 1 <= 1) /\ (i + 1) - 1 = i
    OBVIOUS
  <2> QED
    BY <1>2, <1>3, <2>1
<1> QED
  BY <1>3, <1>4, <1>5 DEF h

LEMMA Quiet ==
  ASSUME NEW rest, \A i \in DOMAIN rest : rest[i] \notin Telling
  PROVE  Orderly(rest)
BY DEF Orderly

LEMMA OneChange ==
  ASSUME NEW rest, NEW k \in DOMAIN rest,
         \A i \in DOMAIN rest : rest[i] \in Telling => i = k,
         rest[Len(rest)] = "publish",
         \A i \in DOMAIN rest : i > k => rest[i] \in After(rest[k])
  PROVE  Orderly(rest)
BY DEF Orderly

\* The programs tell the viewer last, of whatever they change.
LEMMA Programs ==
  ASSUME NEW kind \in Kinds
  PROVE  Program(kind) \in Seq(Steps) /\ Orderly(Program(kind))
<1>1. CreateV2 \in Seq(Steps) /\ Orderly(CreateV2)
  <2>1. CreateV2 \in Seq(Steps)
    BY DEF CreateV2, Steps
  <2>2. Len(CreateV2) = 5 /\ DOMAIN CreateV2 = 1..5
    BY DEF CreateV2
  <2>3. \A i \in 1..5 : CreateV2[i] \notin Telling
    BY DEF CreateV2, Telling
  <2> QED
    BY <2>1, <2>2, <2>3, Quiet
<1>2. CreateV12 \in Seq(Steps) /\ Orderly(CreateV12)
  <2>1. CreateV12 \in Seq(Steps)
    BY DEF CreateV12, Steps
  <2>2. Len(CreateV12) = 5 /\ DOMAIN CreateV12 = 1..5
    BY DEF CreateV12
  <2>3. \A i \in 1..5 : CreateV12[i] \notin Telling
    BY DEF CreateV12, Telling
  <2> QED
    BY <2>1, <2>2, <2>3, Quiet
<1>3. CreateV1 \in Seq(Steps) /\ Orderly(CreateV1)
  <2>1. CreateV1 \in Seq(Steps)
    BY DEF CreateV1, Steps
  <2>2. Len(CreateV1) = 1 /\ DOMAIN CreateV1 = 1..1
    BY DEF CreateV1
  <2>3. \A i \in 1..1 : CreateV1[i] \notin Telling
    BY DEF CreateV1, Telling
  <2> QED
    BY <2>1, <2>2, <2>3, Quiet
<1>4. CreateForm \in Seq(Steps) /\ Orderly(CreateForm)
  <2>1. CreateForm \in Seq(Steps)
    BY DEF CreateForm, Steps
  <2>2. Len(CreateForm) = 2 /\ DOMAIN CreateForm = 1..2
    BY DEF CreateForm
  <2>3. \A i \in 1..2 : CreateForm[i] \notin Telling
    BY DEF CreateForm, Telling
  <2> QED
    BY <2>1, <2>2, <2>3, Quiet
<1>5. OrderApi \in Seq(Steps) /\ Orderly(OrderApi)
  <2>1. OrderApi \in Seq(Steps)
    BY DEF OrderApi, Steps
  <2>2. Len(OrderApi) = 1 /\ DOMAIN OrderApi = 1..1
    BY DEF OrderApi
  <2>3. \A i \in 1..1 : OrderApi[i] \notin Telling
    BY DEF OrderApi, Telling
  <2> QED
    BY <2>1, <2>2, <2>3, Quiet
<1>6. OrderForm \in Seq(Steps) /\ Orderly(OrderForm)
  <2>1. OrderForm \in Seq(Steps)
    BY DEF OrderForm, Steps
  <2>2. Len(OrderForm) = 2 /\ DOMAIN OrderForm = 1..2
    BY DEF OrderForm
  <2>3. \A i \in 1..2 : OrderForm[i] \notin Telling
    BY DEF OrderForm, Telling
  <2> QED
    BY <2>1, <2>2, <2>3, Quiet
<1>7. UpdateV2 \in Seq(Steps) /\ Orderly(UpdateV2)
  <2>1. UpdateV2 \in Seq(Steps)
    BY DEF UpdateV2, Steps
  <2>2. Len(UpdateV2) = 7 /\ DOMAIN UpdateV2 = 1..7
    BY DEF UpdateV2
  <2>3. UpdateV2[7] = "publish" /\ UpdateV2[2] = "write"
    BY DEF UpdateV2
  <2>4. \A i \in 1..7 : UpdateV2[i] \in Telling => i = 2
    BY DEF UpdateV2, Telling
  <2>5. \A i \in 1..7 : i > 2 => UpdateV2[i] \in After("write")
    BY AfterIs DEF UpdateV2
  <2> QED
    BY <2>1, <2>2, <2>3, <2>4, <2>5 DEF Orderly
<1>8. UpdateV1 \in Seq(Steps) /\ Orderly(UpdateV1)
  <2>1. UpdateV1 \in Seq(Steps)
    BY DEF UpdateV1, Steps
  <2>2. Len(UpdateV1) = 4 /\ DOMAIN UpdateV1 = 1..4
    BY DEF UpdateV1
  <2>3. UpdateV1[4] = "publish" /\ UpdateV1[2] = "write"
    BY DEF UpdateV1
  <2>4. \A i \in 1..4 : UpdateV1[i] \in Telling => i = 2
    BY DEF UpdateV1, Telling
  <2>5. \A i \in 1..4 : i > 2 => UpdateV1[i] \in After("write")
    BY AfterIs DEF UpdateV1
  <2> QED
    BY <2>1, <2>2, <2>3, <2>4, <2>5, OneChange
<1>9. EditForm \in Seq(Steps) /\ Orderly(EditForm)
  <2>1. EditForm \in Seq(Steps)
    BY DEF EditForm, Steps
  <2>2. Len(EditForm) = 3 /\ DOMAIN EditForm = 1..3
    BY DEF EditForm
  <2>3. EditForm[3] = "publish" /\ EditForm[2] = "write"
    BY DEF EditForm
  <2>4. \A i \in 1..3 : EditForm[i] \in Telling => i = 2
    BY DEF EditForm, Telling
  <2>5. \A i \in 1..3 : i > 2 => EditForm[i] \in After("write")
    BY AfterIs DEF EditForm
  <2> QED
    BY <2>1, <2>2, <2>3, <2>4, <2>5, OneChange
<1>10. BulkFlag \in Seq(Steps) /\ Orderly(BulkFlag)
  <2>1. BulkFlag \in Seq(Steps)
    BY DEF BulkFlag, Steps
  <2>2. Len(BulkFlag) = 2 /\ DOMAIN BulkFlag = 1..2
    BY DEF BulkFlag
  <2>3. BulkFlag[2] = "publish" /\ BulkFlag[1] = "flag"
    BY DEF BulkFlag
  <2>4. \A i \in 1..2 : BulkFlag[i] \in Telling => i = 1
    BY DEF BulkFlag, Telling
  <2>5. \A i \in 1..2 : i > 1 => BulkFlag[i] \in After("flag")
    BY AfterIs DEF BulkFlag
  <2> QED
    BY <2>1, <2>2, <2>3, <2>4, <2>5, OneChange
<1>11. BulkUpdate \in Seq(Steps) /\ Orderly(BulkUpdate)
  <2>1. BulkUpdate \in Seq(Steps)
    BY DEF BulkUpdate, Steps
  <2>2. Len(BulkUpdate) = 2 /\ DOMAIN BulkUpdate = 1..2
    BY DEF BulkUpdate
  <2>3. BulkUpdate[2] = "publish" /\ BulkUpdate[1] = "dates"
    BY DEF BulkUpdate
  <2>4. \A i \in 1..2 : BulkUpdate[i] \in Telling => i = 1
    BY DEF BulkUpdate, Telling
  <2>5. \A i \in 1..2 : i > 1 => BulkUpdate[i] \in After("dates")
    BY AfterIs DEF BulkUpdate
  <2> QED
    BY <2>1, <2>2, <2>3, <2>4, <2>5, OneChange
<1>12. BulkDelete \in Seq(Steps) /\ Orderly(BulkDelete)
  <2>1. BulkDelete \in Seq(Steps)
    BY DEF BulkDelete, Steps
  <2>2. Len(BulkDelete) = 4 /\ DOMAIN BulkDelete = 1..4
    BY DEF BulkDelete
  <2>3. /\ BulkDelete[1] = "select" /\ BulkDelete[2] = "unlink"
        /\ BulkDelete[3] = "delete" /\ BulkDelete[4] = "publish"
    BY DEF BulkDelete
  <2>4. \A i \in 1..4 : BulkDelete[i] \in Telling =>
          After(BulkDelete[i]) = {"unlink", "delete", "publish"}
    BY <2>3, AfterIs DEF Telling
  <2>5. \A i \in 1..4 : i > 1 => BulkDelete[i] \in {"unlink", "delete", "publish"}
    BY <2>3
  <2> QED
    BY <2>1, <2>2, <2>3, <2>4, <2>5 DEF Orderly
<1>13. <<"rename">> \o CreateV2 \in Seq(Steps) /\ Orderly(<<"rename">> \o CreateV2)
  <2> DEFINE p == <<"rename">> \o CreateV2
  <2>1. Len(CreateV2) = 5 /\ \A i \in 1..5 : CreateV2[i] \notin Telling
    BY DEF CreateV2, Telling
  <2>2. "rename" \notin Telling /\ "rename" \in Steps
    BY DEF Telling, Steps
  <2>3. /\ p \in Seq(Steps) /\ Len(p) = Len(CreateV2) + 1 /\ p[1] = "rename"
        /\ \A i \in 1..Len(CreateV2) : p[i + 1] = CreateV2[i]
    BY <1>1, <2>2, Pushed
  <2> HIDE DEF p
  <2>4. \A i \in DOMAIN p : i = 1 \/ (i - 1 \in 1..5 /\ i = (i - 1) + 1)
    BY <2>1, <2>3
  <2>5. \A i \in DOMAIN p : p[i] \notin Telling
    BY <2>1, <2>2, <2>3, <2>4
  <2> QED
    BY <2>3, <2>5, Quiet DEF p
<1> QED
  BY <1>1, <1>2, <1>3, <1>4, <1>5, <1>6, <1>7, <1>8, <1>9, <1>10, <1>11, <1>12, <1>13,
     KindAssumption
     DEF Program, UpdateV12, CreateApp

LEMMA NoReload ==
  \A i \in DOMAIN Program("createUpload") : Program("createUpload")[i] # "publish"
<1> DEFINE p == <<"rename">> \o CreateV2
<1>1. CreateV2 \in Seq(Steps) /\ "rename" \in Steps
  BY DEF CreateV2, Steps
<1>2. Len(CreateV2) = 5 /\ \A i \in 1..5 : CreateV2[i] # "publish"
  BY DEF CreateV2
<1>3. /\ p \in Seq(Steps) /\ Len(p) = Len(CreateV2) + 1 /\ p[1] = "rename"
      /\ \A i \in 1..Len(CreateV2) : p[i + 1] = CreateV2[i]
  BY <1>1, Pushed
<1>4. Program("createUpload") = p
  BY DEF Program
<1> HIDE DEF p
<1>5. \A i \in DOMAIN p : i = 1 \/ (i - 1 \in 1..5 /\ i = (i - 1) + 1)
  BY <1>2, <1>3
<1>6. \A i \in DOMAIN p : p[i] # "publish"
  BY <1>2, <1>3, <1>5
<1> QED
  BY <1>4, <1>6

\* A delete goes on with the next of its assets.
LEMMA OnceMore ==
  ASSUME NEW rest \in Seq(Steps), rest # <<>>, Head(rest) = "delete", Orderly(rest)
  PROVE  /\ <<"unlink">> \o rest \in Seq(Steps) /\ Orderly(<<"unlink">> \o rest)
         /\ <<"unlink">> \o rest # <<>>
         /\ (<<"unlink">> \o rest)[Len(<<"unlink">> \o rest)] = "publish"
         /\ \A i \in DOMAIN (<<"unlink">> \o rest) :
              (<<"unlink">> \o rest)[i] \in After("delete")
<1> DEFINE p == <<"unlink">> \o rest
<1>1. "unlink" \in Steps /\ "delete" \in Telling
  BY DEF Steps, Telling
<1>2. /\ p \in Seq(Steps) /\ Len(p) = Len(rest) + 1 /\ p[1] = "unlink"
      /\ \A i \in 1..Len(rest) : p[i + 1] = rest[i]
  BY <1>1, Pushed
<1> HIDE DEF p
<1>3. Len(rest) \in Nat \ {0} /\ DOMAIN rest = 1..Len(rest) /\ rest[1] = "delete"
      /\ DOMAIN p = 1..(Len(rest) + 1)
  BY <1>2
<1>4. /\ rest[Len(rest)] = "publish"
      /\ \A j \in 1..Len(rest) : j > 1 => rest[j] \in After("delete")
  BY <1>1, <1>3 DEF Orderly
<1>5. \A j \in 1..Len(rest) : rest[j] \in After("delete")
  BY <1>3, <1>4, AfterIs
<1>6. \A i \in DOMAIN p : i = 1 \/ (i - 1 \in 1..Len(rest) /\ i = (i - 1) + 1)
  BY <1>3
<1>7. \A i \in DOMAIN p : i # 1 => p[i] = rest[i - 1]
  BY <1>2, <1>3, <1>6
<1>8. \A i \in DOMAIN p : p[i] \in After("delete")
  BY <1>2, <1>5, <1>6, <1>7, AfterIs
<1>9. p[Len(p)] = "publish" /\ p # <<>>
  BY <1>2, <1>3, <1>4
<1>10. \A i \in DOMAIN p : p[i] \in Telling => After(p[i]) = After("delete")
  BY <1>8, AfterIs DEF Telling
<1>11. Orderly(p)
  BY <1>8, <1>9, <1>10 DEF Orderly
<1> QED
  BY <1>2, <1>8, <1>9, <1>11 DEF p

\* What no request does to the uploads leaves every row as sound as it was.
LEMMA SoundKept ==
  ASSUME UNCHANGED uploads
  PROVE  /\ UploadInv => UploadInv'
         /\ SoundRow' = SoundRow
         /\ \A q : RequestOK(q) => RequestOK(q)'
<1>1. UploadInv => UploadInv'
  BY DEF UploadInv, UploadTypes, SlotOK, SessionOK, Sole, Current, Arrived, PositionsOf,
         uploads
<1>2. SoundRow' = SoundRow
  BY DEF SoundRow, RowOK, uploads
<1> QED
  BY <1>1, <1>2 DEF RequestOK, RequestIn

\* It is enough to look at the row and at the steps that are left.
LEMMA OnwardOK ==
  ASSUME TableInv, NEW r \in Threads, NEW q, RequestOK(q), q.rest # <<>>, Onward(r, q)
  PROVE  DOMAIN request' = Threads /\ \A x \in Threads : RequestOK(request'[x])
<1> DEFINE n == IF Tail(q.rest) = <<>> THEN Waiting ELSE [q EXCEPT !.rest = Tail(@)]
<1>1. request' = [request EXCEPT ![r] = n]
  BY DEF Onward
<1>2. RequestOK(n)
  <2>1. Tail(q.rest) \in Seq(Steps) /\ Orderly(Tail(q.rest))
    BY OrderlyTail DEF RequestOK, RequestIn
  <2>2. RequestOK([q EXCEPT !.rest = Tail(q.rest)])
    BY <2>1 DEF RequestOK, RequestIn
  <2> QED
    BY <2>2, WaitingOK
<1> HIDE DEF n
<1> QED
  BY <1>1, <1>2 DEF TableInv

LEMMA FailOK ==
  ASSUME TableInv, NEW r \in Threads, Fail(r)
  PROVE  DOMAIN request' = Threads /\ \A x \in Threads : RequestOK(request'[x])
BY WaitingOK DEF TableInv, Fail

\* A request that goes on with another row, and what else TLC keeps of it
LEMMA RowChanged ==
  ASSUME NEW q, RequestOK(q), NEW row \in SoundRow, NEW v
  PROVE  /\ RequestOK([q EXCEPT !.row = row])
         /\ RequestOK([q EXCEPT !.ids = v])
         /\ RequestOK([q EXCEPT !.doomed = v])
         /\ RequestOK([q EXCEPT !.row = row, !.ids = v])
         /\ [q EXCEPT !.row = row].rest = q.rest
         /\ [q EXCEPT !.ids = v].rest = q.rest
         /\ [q EXCEPT !.doomed = v].rest = q.rest
         /\ [q EXCEPT !.row = row, !.ids = v].rest = q.rest
BY DEF RequestOK, RequestIn

LEMMA DisturbedOK ==
  ASSUME NEW q, RequestOK(q)
  PROVE  RequestOK(Disturbed(q))
BY DEF RequestOK, RequestIn, Disturbed

\* Rows of the table
LEMMA TableRows ==
  ASSUME TableInv
  PROVE  /\ \A i \in DOMAIN table : table[i] \in SoundRow
         /\ \A id : Present(id) => At(id) \in DOMAIN table /\ table[At(id)].id = id
BY DEF TableInv, Present, At

\* A table in which each row is replaced by a sound one
LEMMA TableMapped ==
  ASSUME TableInv, NEW t, DOMAIN t = DOMAIN table, t = [i \in DOMAIN table |-> t[i]],
         \A i \in DOMAIN table : t[i] \in SoundRow
  PROVE  t \in Seq(SoundRow)
<1>1. table \in Seq(SoundRow) /\ DOMAIN table = 1..Len(table) /\ Len(table) \in Nat
  BY DEF TableInv
<1>2. t \in [1..Len(table) -> SoundRow]
  BY <1>1
<1> QED
  BY <1>1, <1>2

LEMMA RowRemoved ==
  ASSUME TableInv, NEW i \in DOMAIN table
  PROVE  RemoveAt(table, i) \in Seq(SoundRow)
<1>1. table \in Seq(SoundRow) /\ i \in 1..Len(table) /\ Len(table) \in Nat
  BY DEF TableInv
<1>2. SubSeq(table, 1, i - 1) \in Seq(SoundRow)
  BY <1>1
<1>3. SubSeq(table, i + 1, Len(table)) \in Seq(SoundRow)
  BY <1>1
<1> QED
  BY <1>2, <1>3, ConcatProperties DEF RemoveAt

\* A step of the requests that leaves the uploads alone
LEMMA TableFrame ==
  ASSUME WholeInv, UNCHANGED uploads, table' \in Seq(SoundRow),
         DOMAIN request' = Threads, \A x \in Threads : RequestOK(request'[x])
  PROVE  WholeInv'
<1>1. UploadInv' /\ SoundRow' = SoundRow
  BY SoundKept DEF WholeInv
<1>2. \A x \in Threads : RequestOK(request[x])'
  BY SoundKept DEF RequestOK, RequestIn
<1> QED
  BY <1>1, <1>2 DEF WholeInv, TableInv

-----------------------------------------------------------------------------
(* The rows that requests carry and write *)

LEMMA ArriveWhole ==
  ASSUME WholeInv, NEW r \in Threads, NEW kind \in Kinds, Arrive(r, kind)
  PROVE  WholeInv'
<1>1. PICK row \in Asked(kind),
           ids \in (IF kind \in {"order", "orderApi"} THEN SetToSeqs(Old) ELSE {<<>>}) :
        LET q == [Waiting EXCEPT !.kind = kind, !.rest = Program(kind), !.row = row,
                                 !.ids = ids, !.before = table, !.alone = TRUE]
            busy == \E other \in Threads : request[other] # Waiting IN
        request' = [other \in Threads |->
          IF other # r THEN Disturbed(request[other]) ELSE IF busy THEN Disturbed(q) ELSE q]
  BY DEF Arrive
<1> DEFINE q == [Waiting EXCEPT !.kind = kind, !.rest = Program(kind), !.row = row,
                                !.ids = ids, !.before = table, !.alone = TRUE]
<1>2. row \in SoundRow
  <2>1. \A on \in SUBSET BOOLEAN, at \in SUBSET Int, some \in SUBSET (Ids \union {None}) :
          Prepared(some, on, at) \subseteq SoundRow
    <3> SUFFICES ASSUME NEW on \in SUBSET BOOLEAN, NEW at \in SUBSET Int,
                        NEW some \in SUBSET (Ids \union {None}),
                        NEW x \in Prepared(some, on, at)
                 PROVE  x \in SoundRow
      OBVIOUS
    <3>1. PICK id \in some, e \in on, p \in at :
            x = RowOf(id, e, p)
      BY DEF Prepared
    <3>2. id \in Ids \union {None} /\ e \in BOOLEAN /\ p \in Int
      OBVIOUS
    <3> QED
      BY <3>1, <3>2, BlankRow
  <2>2. /\ {TRUE} \in SUBSET BOOLEAN /\ BOOLEAN \in SUBSET BOOLEAN
        /\ {0} \in SUBSET Int /\ Positions \in SUBSET Int
        /\ {None} \in SUBSET (Ids \union {None}) /\ Ids \in SUBSET (Ids \union {None})
    BY PositionAssumption
  <2>3. \A fresh \in SUBSET New : fresh \in SUBSET (Ids \union {None})
    BY DEF Ids
  <2> QED
    BY <2>1, <2>2, <2>3, BlankSound, KindAssumption DEF Asked
<1>3. RequestOK(q)
  <2>1. Program(kind) \in Seq(Steps) /\ Orderly(Program(kind))
    BY Programs
  <2>2. q.rest = Program(kind) /\ q.row = row /\ q.next = 0
        /\ {"kind", "rest", "row", "ids", "next", "doomed", "alone"} \subseteq DOMAIN q
        /\ q.kind = kind
    BY DEF Waiting
  <2> HIDE DEF q
  <2>3. q.kind = "createUpload" => \A i \in DOMAIN q.rest : q.rest[i] # "publish"
    BY <2>2, NoReload
  <2> QED
    BY <1>2, <2>1, <2>2, <2>3 DEF RequestOK, RequestIn
<1>4. RequestOK(Disturbed(q))
  BY <1>3, DisturbedOK
<1> HIDE DEF q
<1>5. DOMAIN request' = Threads /\ \A x \in Threads : RequestOK(request'[x])
  BY <1>1, <1>3, <1>4, DisturbedOK DEF WholeInv, TableInv, q
<1> QED
  BY <1>5, TableFrame DEF Arrive, WholeInv, TableInv, rows

\* The steps that leave the table alone, ...
LEMMA ReadWhole ==
  ASSUME WholeInv, NEW r \in Threads,
         Refuse(r) \/ List(r) \/ Count(r) \/ Load(r) \/ Refresh(r) \/ Splice(r)
         \/ Exists(r) \/ Dates(r) \/ Select(r) \/ Publish(r)
  PROVE  WholeInv'
<1>1. TableInv /\ RequestOK(request[r]) /\ request[r].row \in SoundRow
  BY DEF WholeInv, TableInv, RequestOK, RequestIn
<1>2. UNCHANGED <<uploads, table>>
  BY DEF Refuse, List, Count, Load, Refresh, Splice, Exists, Dates, Select, Publish, rows
<1>3. ASSUME Fail(r) \/ \E q : RequestOK(q) /\ q.rest # <<>> /\ Onward(r, q)
      PROVE  WholeInv'
  <2>1. DOMAIN request' = Threads /\ \A x \in Threads : RequestOK(request'[x])
    BY <1>1, <1>3, OnwardOK, FailOK
  <2> QED
    BY <1>1, <1>2, <2>1, TableFrame DEF TableInv
<1>4. CASE Refuse(r)
  BY <1>3, <1>4 DEF Refuse
<1>5. CASE List(r)
  BY <1>1, <1>3, <1>5, RowChanged DEF List, Due
<1>6. CASE Count(r)
  <2> DEFINE n == Cardinality({i \in DOMAIN table : table[i].enabled})
             q == request[r]
  <2>1. n \in Int
    <3>1. {i \in DOMAIN table : table[i].enabled} \subseteq 1..Len(table)
          /\ Len(table) \in Nat
      BY <1>1 DEF TableInv
    <3> QED
      BY <3>1, FS_Interval, FS_Subset, FS_CardinalityType
  <2>2. Onward(r, [q EXCEPT !.row.order = n]) /\ q.rest # <<>>
    BY <1>6 DEF Count, Due
  <2> HIDE DEF n
  <2>3. [q.row EXCEPT !.order = n] \in SoundRow
    BY <1>1, <2>1, SoundRows
  <2>4. [q EXCEPT !.row.order = n] = [q EXCEPT !.row = [q.row EXCEPT !.order = n]]
    OBVIOUS
  <2> QED
    BY <1>1, <1>3, <2>2, <2>3, <2>4, RowChanged
<1>7. CASE Load(r)
  <2> DEFINE q == request[r]
             old == table[At(q.row.id)]
             on == q.row.enabled
             at == IF q.kind = "form" THEN old.order ELSE q.row.order
  <2>1. ~Present(q.row.id) => Fail(r)
    BY <1>7 DEF Load
  <2>2. Present(q.row.id) =>
          /\ Onward(r, [q EXCEPT !.row = [old EXCEPT !.enabled = on, !.order = at]])
          /\ q.rest # <<>>
    BY <1>7 DEF Load, Due
  <2>3. Present(q.row.id) => [old EXCEPT !.enabled = on, !.order = at] \in SoundRow
    <3> SUFFICES ASSUME Present(q.row.id)
                 PROVE  [old EXCEPT !.enabled = on, !.order = at] \in SoundRow
      OBVIOUS
    <3>1. old \in SoundRow
      BY <1>1, TableRows
    <3>2. on \in BOOLEAN
      BY <1>1 DEF SoundRow
    <3>3. at \in Int
      BY <1>1, <3>1, SoundRows
    <3> HIDE DEF old, on, at
    <3>4. [old EXCEPT !.enabled = on] \in SoundRow
      BY <3>1, <3>2, SoundRows
    <3> QED
      BY <3>3, <3>4, SoundRows
  <2> HIDE DEF old, on, at
  <2> QED
    BY <1>1, <1>3, <2>1, <2>2, <2>3, RowChanged
<1>8. CASE Refresh(r)
  <2> DEFINE q == request[r]
             old == table[At(q.row.id)]
  <2>1. CASE ~Present(q.row.id)
    BY <1>3, <1>8, <2>1 DEF Refresh
  <2>2. CASE Present(q.row.id)
    <3>1. Onward(r, [q EXCEPT !.row = old, !.ids = Spliced(@, old)]) /\ q.rest # <<>>
      BY <1>8, <2>2 DEF Refresh, Due
    <3>2. old \in SoundRow
      BY <1>1, <2>2, TableRows
    <3> DEFINE v == Spliced(q.ids, old)
               new == [q EXCEPT !.row = old, !.ids = Spliced(@, old)]
    <3>3. new = [q EXCEPT !.row = old, !.ids = v]
      OBVIOUS
    <3>4. RequestOK(new) /\ new.rest = q.rest
      <4>1. RequestOK(q) /\ q.rest = q.rest
        BY <1>1
      <4> HIDE DEF v, old, new, q
      <4> QED
        BY <3>2, <3>3, <4>1 DEF RequestOK, RequestIn
    <3> HIDE DEF new
    <3> QED
      BY <1>3, <3>1, <3>4 DEF new
  <2> QED
    BY <2>1, <2>2
<1>9. CASE Splice(r)
  <2> DEFINE q == request[r]
             v == Spliced(q.ids, q.row)
  <2>1. Onward(r, [q EXCEPT !.ids = v]) /\ q.rest # <<>>
    BY <1>9 DEF Splice, Due
  <2> HIDE DEF v
  <2> QED
    BY <1>1, <1>3, <2>1, RowChanged
<1>10. CASE Exists(r)
  BY <1>1, <1>3, <1>10 DEF Exists, Due
<1>11. CASE Dates(r)
  BY <1>1, <1>3, <1>11 DEF Dates, Due
<1>12. CASE Select(r)
  BY <1>1, <1>3, <1>12, RowChanged DEF Select, Due
<1>13. CASE Publish(r)
  BY <1>1, <1>3, <1>13 DEF Publish, Due
<1> QED
  BY <1>4, <1>5, <1>6, <1>7, <1>8, <1>9, <1>10, <1>11, <1>12, <1>13

\* ... and those that write to it
LEMMA TableWhole ==
  ASSUME WholeInv, NEW r \in Threads,
         Insert(r) \/ WriteRow(r) \/ Save(r) \/ Flag(r) \/ Unlink(r) \/ Delete(r)
  PROVE  WholeInv'
<1> DEFINE q == request[r]
<1>1. TableInv /\ RequestOK(q) /\ q.row \in SoundRow /\ q.rest # <<>>
      /\ table \in Seq(SoundRow)
  BY DEF WholeInv, TableInv, RequestOK, RequestIn, Insert, WriteRow, Save, Flag, Unlink,
         Delete, Due
<1>2. UNCHANGED uploads
  BY DEF Insert, WriteRow, Save, Flag, Unlink, Delete
<1>3. CASE Insert(r)
  <2>1. table' \in Seq(SoundRow)
    BY <1>1, <1>3 DEF Insert
  <2>2. Onward(r, q)
    BY <1>3 DEF Insert
  <2> QED
    BY <1>1, <1>2, <2>1, <2>2, OnwardOK, TableFrame
<1>4. CASE WriteRow(r)
  <2>1. table' \in Seq(SoundRow)
    <3>1. CASE Present(q.row.id)
      BY <1>1, <1>4, <3>1, TableRows DEF WriteRow
    <3>2. CASE ~Present(q.row.id)
      BY <1>1, <1>4, <3>2 DEF WriteRow
    <3> QED
      BY <3>1, <3>2
  <2>2. Onward(r, q)
    BY <1>4 DEF WriteRow
  <2> QED
    BY <1>1, <1>2, <2>1, <2>2, OnwardOK, TableFrame
<1>5. CASE Save(r)
  <2>1. CASE q.ids = <<>>
    BY <1>1, <1>2, <1>5, <2>1, OnwardOK, TableFrame DEF Save
  <2>2. CASE q.ids # <<>>
    <3> DEFINE t == [i \in DOMAIN table |->
                 IF table[i].id = Head(q.ids) THEN [table[i] EXCEPT !.order = q.next]
                 ELSE table[i]]
    <3>1. table' = t /\ request' = [request EXCEPT ![r].ids = Tail(@), ![r].next = @ + 1]
      BY <1>5, <2>2 DEF Save
    <3>2. q.next \in Nat /\ q.next \in Int
      BY <1>1 DEF RequestOK, RequestIn
    <3>3. \A i \in DOMAIN table : t[i] \in SoundRow
      BY <1>1, <3>2, TableRows, SoundRows
    <3>4. t \in Seq(SoundRow)
      <4>1. DOMAIN t = DOMAIN table /\ t = [i \in DOMAIN table |-> t[i]]
        OBVIOUS
      <4> HIDE DEF t
      <4> QED
        BY <1>1, <3>3, <4>1, TableMapped
    <3>5. RequestOK([q EXCEPT !.ids = Tail(q.ids), !.next = q.next + 1])
      BY <1>1 DEF RequestOK, RequestIn
    <3>6. DOMAIN request' = Threads /\ \A x \in Threads : RequestOK(request'[x])
      <4>1. request' = [request EXCEPT ![r] =
                          [q EXCEPT !.ids = Tail(q.ids), !.next = q.next + 1]]
        BY <1>1, <3>1 DEF TableInv
      <4> QED
        BY <1>1, <3>5, <4>1 DEF TableInv
    <3> HIDE DEF t
    <3> QED
      BY <1>2, <3>1, <3>4, <3>6, TableFrame
  <2> QED
    BY <2>1, <2>2
<1>6. CASE Flag(r)
  <2>1. PICK ids \in SUBSET Ids :
          IF Selected(ids) = {} THEN Fail(r) /\ UNCHANGED table
          ELSE /\ table' = [i \in DOMAIN table |->
                    IF table[i].id \in ids
                    THEN [table[i] EXCEPT !.enabled = q.row.enabled] ELSE table[i]]
               /\ Onward(r, q)
    BY <1>6 DEF Flag
  <2>2. CASE Selected(ids) = {}
    BY <1>1, <1>2, <2>1, <2>2, FailOK, TableFrame
  <2>3. CASE Selected(ids) # {}
    <3> DEFINE t == [i \in DOMAIN table |->
                 IF table[i].id \in ids
                 THEN [table[i] EXCEPT !.enabled = q.row.enabled] ELSE table[i]]
    <3>1. table' = t /\ Onward(r, q)
      BY <2>1, <2>3
    <3>2. q.row.enabled \in BOOLEAN
      BY <1>1 DEF SoundRow
    <3>3. \A i \in DOMAIN table : t[i] \in SoundRow
      BY <1>1, <3>2, TableRows, SoundRows
    <3>4. t \in Seq(SoundRow)
      <4>1. DOMAIN t = DOMAIN table /\ t = [i \in DOMAIN table |-> t[i]]
        OBVIOUS
      <4> HIDE DEF t
      <4> QED
        BY <1>1, <3>3, <4>1, TableMapped
    <3> HIDE DEF t
    <3> QED
      BY <1>1, <1>2, <3>1, <3>4, OnwardOK, TableFrame
  <2> QED
    BY <2>2, <2>3
<1>7. CASE Unlink(r)
  <2> DEFINE k == Head(q.doomed).inode
             t == [j \in DOMAIN table |-> Without(k, table[j])]
  <2>1. /\ table' = t
        /\ request' = [x \in Threads |->
             IF x = r THEN [q EXCEPT !.rest = Tail(@)]
             ELSE [request[x] EXCEPT !.row = Without(k, @)]]
    BY <1>7 DEF Unlink
  <2> HIDE DEF k
  <2>2. \A row \in SoundRow : Without(k, row) \in SoundRow
    BY SoundRows DEF Without
  <2>3. t \in Seq(SoundRow)
    <3>1. DOMAIN t = DOMAIN table /\ t = [i \in DOMAIN table |-> t[i]]
      OBVIOUS
    <3>2. \A i \in DOMAIN table : t[i] \in SoundRow
      BY <1>1, <2>2, TableRows
    <3> HIDE DEF t
    <3> QED
      BY <1>1, <3>1, <3>2, TableMapped
  <2>4. RequestOK([q EXCEPT !.rest = Tail(@)])
    BY <1>1, OrderlyTail DEF RequestOK, RequestIn
  <2>5. ASSUME NEW x \in Threads
        PROVE  RequestOK([request[x] EXCEPT !.row = Without(k, @)])
    <3>1. RequestOK(request[x]) /\ Without(k, request[x].row) \in SoundRow
      BY <1>1, <2>2 DEF TableInv, RequestOK, RequestIn
    <3> QED
      BY <3>1, RowChanged
  <2>6. DOMAIN request' = Threads /\ \A x \in Threads : RequestOK(request'[x])
    BY <2>1, <2>4, <2>5
  <2> HIDE DEF t
  <2> QED
    BY <1>2, <2>1, <2>3, <2>6, TableFrame
<1>8. CASE Delete(r)
  <2>1. table' \in Seq(SoundRow)
    BY <1>1, <1>8, TableRows, RowRemoved DEF Delete
  <2>2. CASE Len(q.doomed) = 1
    <3>1. Onward(r, [q EXCEPT !.doomed = <<>>])
      BY <1>8, <2>2 DEF Delete
    <3> QED
      BY <1>1, <1>2, <2>1, <3>1, RowChanged, OnwardOK, TableFrame
  <2>3. CASE Len(q.doomed) # 1
    <3> DEFINE n == [q EXCEPT !.doomed = Tail(q.doomed), !.rest = <<"unlink">> \o q.rest]
    <3>1. request' = [request EXCEPT ![r].doomed = Tail(@), ![r].rest = <<"unlink">> \o @]
      BY <1>8, <2>3 DEF Delete
    <3>2. request' = [request EXCEPT ![r] = n]
      BY <1>1, <3>1 DEF TableInv
    <3>3. <<"unlink">> \o q.rest \in Seq(Steps) /\ Orderly(<<"unlink">> \o q.rest)
      BY <1>1, <1>8, OnceMore DEF Delete, Due, RequestOK, RequestIn
    <3>4. RequestOK(n)
      BY <1>1, <3>3 DEF RequestOK, RequestIn
    <3>5. DOMAIN request' = Threads /\ \A x \in Threads : RequestOK(request'[x])
      <4> HIDE DEF n
      <4> QED
        BY <1>1, <3>2, <3>4 DEF TableInv
    <3> QED
      BY <1>2, <2>1, <3>5, TableFrame
  <2> QED
    BY <2>2, <2>3
<1> QED
  BY <1>3, <1>4, <1>5, <1>6, <1>7, <1>8

\* The rename hands a file over to the asset: all of it has arrived, nobody else
\* has it staged, and whoever still writes to it sends the same.
LEMMA RenameWhole ==
  ASSUME WholeInv, NEW r \in Threads, Rename(r)
  PROVE  WholeInv'
<1> DEFINE q == request[r]
<1>0. TableInv /\ RequestOK(q) /\ q.rest # <<>> /\ q.row \in SoundRow
      /\ UNCHANGED <<data, chunk, wiped, sends, table>>
  BY DEF WholeInv, TableInv, RequestOK, RequestIn, Rename, Due, rows
<1>1. PICK s \in Sessions :
        /\ Done(s)
        /\ IF staged[s] = 0 THEN Fail(r) /\ UNCHANGED staged
           ELSE /\ Onward(r, [q EXCEPT !.row.inode = staged[s],
                       !.row.of = IF wiped[s] THEN NoFile ELSE client[s].file])
                /\ staged' = [staged EXCEPT ![s] = 0]
        /\ client' = [client EXCEPT ![s].file = NoFile, ![s].acked = {}]
  BY DEF Rename
<1>2. /\ data \in [Inodes -> Content] /\ staged \in [Sessions -> Inodes \union {0}]
      /\ chunk \in [Slots -> Chunk] /\ client \in [Sessions -> Client]
      /\ SessionOK(s) /\ \A t \in Slots : SlotOK(chunk[t])
  BY DEF WholeInv, UploadInv, UploadTypes
<1>3. /\ staged' \in [Sessions -> Inodes \union {0}] /\ staged'[s] = 0
      /\ \A z \in Sessions \ {s} : staged'[z] = staged[z]
  BY <1>1, <1>2
<1>4. /\ client' \in [Sessions -> Client] /\ client'[s].file = NoFile
      /\ \A z \in Sessions \ {s} : client'[z] = client[z]
  <2>1. client[s] \in Client
    BY <1>2
  <2>2. [[client[s] EXCEPT !.file = NoFile] EXCEPT !.acked = {}] \in Client
    BY <2>1 DEF Client
  <2>3. client' = [client EXCEPT ![s] =
                     [[client[s] EXCEPT !.file = NoFile] EXCEPT !.acked = {}]]
    BY <1>1, <1>2
  <2> QED
    BY <1>2, <2>2, <2>3
<1>5. UploadInv'
  <2>1. UploadTypes'
    BY <1>0, <1>3, <1>4 DEF WholeInv, UploadInv, UploadTypes
  <2>2. ASSUME NEW t \in Slots PROVE SlotOK(chunk[t])'
    <3>1. chunk[t].at # "free" /\ Current(chunk[t].s)' =>
            chunk[t].s \in Sessions \ {s} /\ Current(chunk[t].s) /\ Arrived(chunk[t])
      BY <1>0, <1>2, <1>3, <1>4 DEF SlotOK, Current
    <3>2. chunk[t].at # "free" /\ Current(chunk[t].s)' => Arrived(chunk[t])'
      BY <1>0, <1>3, <1>4, <3>1 DEF Arrived, PositionsOf
    <3>3. Sole(chunk[t]) => (Sole(chunk[t]))'
      BY <1>0, <1>3 DEF Sole
    <3> QED
      BY <1>0, <1>2, <3>2, <3>3 DEF SlotOK, Sole, Current, Arrived, PositionsOf
  <2>3. ASSUME NEW z \in Sessions PROVE SessionOK(z)'
    <3>1. SessionOK(z)
      BY DEF WholeInv, UploadInv
    <3>2. \A y \in Sessions \ {z} : staged'[z] # 0 => staged'[y] # staged'[z]
      BY <1>3, <3>1 DEF SessionOK
    <3> QED
      BY <1>0, <1>3, <1>4, <3>1, <3>2 DEF SessionOK, Current
  <2> QED
    BY <2>1, <2>2, <2>3 DEF UploadInv
<1>6. SoundRow \subseteq SoundRow'
  BY <1>0, <1>3 DEF SoundRow, RowOK
<1>7. \A x : RequestOK(x) => RequestOK(x)'
  BY <1>6 DEF RequestOK, RequestIn
<1>8. table' \in Seq(SoundRow')
  BY <1>0, <1>6 DEF TableInv
<1>9. DOMAIN request' = Threads /\ \A x \in Threads : RequestOK(request[x])'
  <2>1. CASE staged[s] = 0
    <3>1. DOMAIN request' = Threads /\ \A x \in Threads : RequestOK(request'[x])
      BY <1>0, <1>1, <2>1, FailOK
    <3> QED
      BY <1>6, <3>1 DEF RequestOK, RequestIn
  <2>2. CASE staged[s] # 0
    <3> DEFINE i == staged[s]
               f == IF wiped[s] THEN NoFile ELSE client[s].file
               row == [q.row EXCEPT !.inode = i, !.of = f]
               n == [q EXCEPT !.row = row]
               m == IF Tail(n.rest) = <<>> THEN Waiting ELSE [n EXCEPT !.rest = Tail(n.rest)]
    <3>1. i \in Inodes /\ i # 0 /\ f \in Files \union {NoFile}
      BY <1>2, <2>2 DEF Client
    <3>2. row \in SoundRow'
      <4>1. \A z \in Sessions : staged'[z] # i
        BY <1>2, <1>3, <3>1 DEF SessionOK
      <4>2. ASSUME f # NoFile
            PROVE  /\ f \in Files /\ data[i] = Whole(f)
                   /\ \A t \in Slots : chunk[t].inode = i => chunk[t].file = f
        <5>1. Current(s) /\ f = client[s].file /\ f \in Files
          BY <3>1, <4>2 DEF Current
        <5>2. \A p \in 1..Lengths[f] : Complete(data[i], f, p)
          BY <1>1, <1>2, <5>1 DEF Done, SessionOK
        <5>3. data[i] = Whole(f)
          BY <1>2, <3>1, <5>1, <5>2, Finished
        <5>4. ASSUME NEW t \in Slots, chunk[t].inode = i
              PROVE  chunk[t].file = f
          <6>1. SlotOK(chunk[t]) /\ chunk[t].at # "free"
            BY <1>2, <3>1, <5>4 DEF SlotOK
          <6>2. chunk[t].s = s
            BY <3>1, <5>4, <6>1 DEF SlotOK, Sole
          <6> QED
            BY <5>1, <6>1, <6>2 DEF SlotOK, Arrived
        <5> QED
          BY <5>1, <5>3, <5>4
      <4>3. /\ row.inode = i /\ row.of = f
            /\ row \in [id : Ids \union {None}, enabled : BOOLEAN, order : Int,
                        inode : Inodes \union {0}, of : Files \union {NoFile}]
        <5> HIDE DEF i, f
        <5> QED
          BY <1>0, <3>1 DEF SoundRow
      <4> HIDE DEF row, f, i
      <4> QED
        BY <1>0, <4>1, <4>2, <4>3 DEF SoundRow, RowOK
    <3>3. Onward(r, [q EXCEPT !.row.inode = i, !.row.of = f])
      BY <1>1, <2>2
    <3>4. n = [q EXCEPT !.row.inode = i, !.row.of = f]
      BY <1>0 DEF RequestOK, RequestIn
    <3> HIDE DEF row
    <3>5. /\ {"kind", "rest", "row", "ids", "next", "doomed", "alone"} \subseteq DOMAIN n
          /\ n.rest = q.rest /\ n.next = q.next /\ n.row = row /\ n.kind = q.kind
      BY <1>0 DEF RequestOK, RequestIn
    <3> HIDE DEF n
    <3>6. request' = [request EXCEPT ![r] = m]
      BY <3>3, <3>4 DEF Onward
    <3>7. Tail(q.rest) \in Seq(Steps) /\ Orderly(Tail(q.rest)) /\ q.next \in Nat
      BY <1>0, OrderlyTail DEF RequestOK, RequestIn
    <3>14. q.kind = "createUpload" =>
             \A k \in DOMAIN Tail(q.rest) : Tail(q.rest)[k] # "publish"
      BY <1>0 DEF RequestOK, RequestIn
    <3>8. RequestIn(Waiting, SoundRow')
      BY <1>6, WaitingOK DEF RequestOK, RequestIn
    <3>9. Tail(n.rest) # <<>> =>
            RequestIn([n EXCEPT !.rest = Tail(n.rest)], SoundRow')
      BY <3>2, <3>5, <3>7, <3>14 DEF RequestIn
    <3>10. RequestIn(m, SoundRow')
      BY <3>8, <3>9
    <3> HIDE DEF m
    <3>11. DOMAIN request' = Threads /\ request'[r] = m
           /\ \A x \in Threads \ {r} : request'[x] = request[x]
      BY <1>0, <3>6 DEF TableInv
    <3>12. \A x \in Threads \ {r} : RequestOK(request[x])'
      BY <1>0, <1>7, <3>11 DEF TableInv, RequestOK, RequestIn
    <3>13. RequestOK(request[r])'
      BY <3>10, <3>11 DEF RequestOK
    <3> QED
      BY <3>11, <3>12, <3>13
  <2> QED
    BY <2>1, <2>2
<1> QED
  BY <1>5, <1>8, <1>9 DEF WholeInv, TableInv

LEMMA FlipWhole ==
  ASSUME WholeInv, NEW id \in Ids, Flip(id)
  PROVE  WholeInv'
<1>1. DOMAIN request' = Threads /\ \A x \in Threads : RequestOK(request'[x])
  BY DisturbedOK DEF Flip, WholeInv, TableInv
<1> QED
  BY <1>1, TableFrame DEF Flip, WholeInv, TableInv

\* Rows whose files the uploads spare stay sound.
LEMMA SparedRows ==
  ASSUME WholeInv, UploadInv', NEW kept, UNCHANGED <<table, request>>,
         \A row : row.inode \in (Inodes \intersect kept) \union {0} => Spared(row),
         \A i \in DOMAIN table : table[i].inode \in kept,
         \A x \in Threads : request[x].row.inode \in kept
  PROVE  WholeInv'
<1>1. ASSUME NEW row \in SoundRow, row.inode \in kept
      PROVE  row \in SoundRow'
  <2>1. row.inode \in (Inodes \intersect kept) \union {0}
    BY <1>1 DEF SoundRow
  <2>2. Spared(row) /\ RowOK(row)
    BY <1>1, <2>1 DEF SoundRow
  <2>3. RowOK(row)'
    BY <2>2 DEF Spared
  <2> QED
    BY <1>1, <2>3 DEF SoundRow
<1>2. table \in Seq(SoundRow) /\ \A i \in DOMAIN table : table[i] \in SoundRow
  BY TableRows DEF WholeInv, TableInv
<1>3. \A i \in DOMAIN table : table[i] \in SoundRow'
  BY <1>1, <1>2
<1>4. table' \in Seq(SoundRow')
  BY <1>2, <1>3
<1>5. DOMAIN request' = Threads
  BY DEF WholeInv, TableInv
<1>6. \A x \in Threads : RequestOK(request[x])'
  BY <1>1 DEF WholeInv, TableInv, RequestOK, RequestIn
<1> QED
  BY <1>4, <1>5, <1>6 DEF WholeInv, TableInv

LEMMA UploadWhole ==
  ASSUME WholeInv, Upload
  PROVE  WholeInv'
<1>1. /\ UploadInv'
      /\ \A row : row.inode \in (Inodes \intersect Kept) \union {0} => Spared(row)
  BY UploadStepInv DEF Upload, WholeInv
<1>2. \A i \in DOMAIN table : table[i].inode \in Kept
  BY DEF Kept
<1>3. \A x \in Threads : request[x].row.inode \in Kept
  BY DEF Kept
<1> HIDE DEF Kept
<1> QED
  BY <1>1, <1>2, <1>3, SparedRows DEF Upload, rows

LEMMA ServerDiesWhole ==
  ASSUME WholeInv, ServerDies
  PROVE  WholeInv'
<1>1. UploadInv' /\ \A row : Spared(row)
  BY UploadsDieStep DEF ServerDies, WholeInv
<1>2. SoundRow \subseteq SoundRow'
  BY <1>1 DEF SoundRow, Spared
<1>3. table' \in Seq(SoundRow')
  BY <1>2 DEF ServerDies, WholeInv, TableInv
<1>4. DOMAIN request' = Threads /\ \A x \in Threads : request'[x] = Waiting
  BY DEF ServerDies
<1>5. RequestOK(Waiting)'
  BY <1>2, WaitingOK DEF RequestOK, RequestIn
<1>6. \A x \in Threads : RequestOK(request[x])'
  BY <1>4, <1>5 DEF RequestOK, RequestIn
<1> QED
  BY <1>1, <1>3, <1>4, <1>6 DEF WholeInv, TableInv

LEMMA WholeInit == Init => WholeInv
<1> SUFFICES ASSUME Init PROVE WholeInv
  OBVIOUS
<1>1. UploadInv
  BY UploadInitInv DEF Init
<1>2. PICK ids \in SetToSeqs(Old), at \in SetToSeqs(0..(Cardinality(Old) - 1)) :
        table = [i \in 1..Cardinality(Old) |-> RowOf(ids[i], TRUE, at[i])]
  BY DEF Init
<1>3. Cardinality(Old) \in Nat
  BY IdAssumption, FS_CardinalityType
<1>4. ASSUME NEW i \in 1..Cardinality(Old)
      PROVE  ids[i] \in Ids \union {None} /\ at[i] \in Int
  <2>1. ids[i] \in Old
    BY DEF SetToSeqs
  <2>2. Cardinality(0..(Cardinality(Old) - 1)) = Cardinality(Old)
    BY <1>3, FS_Interval
  <2>3. at[i] \in 0..(Cardinality(Old) - 1)
    BY <2>2 DEF SetToSeqs
  <2> QED
    BY <1>3, <2>1, <2>3 DEF Ids
<1>5. \A i \in 1..Cardinality(Old) : RowOf(ids[i], TRUE, at[i]) \in SoundRow
  BY <1>4, BlankRow
<1>6. table \in Seq(SoundRow)
  <2>1. /\ DOMAIN table = 1..Cardinality(Old)
        /\ table = [i \in 1..Cardinality(Old) |-> table[i]]
        /\ \A i \in 1..Cardinality(Old) : table[i] = RowOf(ids[i], TRUE, at[i])
    BY <1>2
  <2>2. table \in [1..Cardinality(Old) -> SoundRow]
    BY <1>5, <2>1
  <2> QED
    BY <1>3, <2>2
<1>7. DOMAIN request = Threads /\ \A r \in Threads : RequestOK(request[r])
  BY WaitingOK DEF Init
<1> QED
  BY <1>1, <1>6, <1>7 DEF WholeInv, TableInv

LEMMA WholeNext == WholeInv /\ [Next]_vars => WholeInv'
<1> SUFFICES ASSUME WholeInv, [Next]_vars PROVE WholeInv'
  OBVIOUS
<1>1. CASE Upload
  BY <1>1, UploadWhole
<1>2. CASE ServerDies
  BY <1>2, ServerDiesWhole
<1>3. ASSUME NEW r \in Threads, Step(r) PROVE WholeInv'
  BY <1>3, ArriveWhole, ReadWhole, TableWhole, RenameWhole DEF Step
<1>4. ASSUME NEW id \in Ids, Flip(id) PROVE WholeInv'
  BY <1>4, FlipWhole
<1>5. CASE UNCHANGED vars
  BY <1>5, TableFrame DEF vars, rows, WholeInv, TableInv
<1> QED
  BY <1>1, <1>2, <1>3, <1>4, <1>5 DEF Next

\* For any number of clients, files, chunks and requests, and every fault: the file
\* of an asset is what its client uploaded, whatever was sent twice, late or in
\* another order (FileAssetViewMixin.post, prepare_asset, delete_asset_with_file).
THEOREM WholeUploads == Spec => []AssetIsWhole
<1>1. WholeInv => AssetIsWhole
  BY TableRows DEF WholeInv, AssetIsWhole, SoundRow, RowOK
<1> QED
  BY <1>1, WholeInit, WholeNext, PTL DEF Spec

-----------------------------------------------------------------------------
(* Who tells the viewer *)

LEMMA Remaining ==
  ASSUME NEW rest \in Seq(Steps), rest # <<>>, rest[Len(rest)] = "publish",
         Head(rest) # "publish"
  PROVE  /\ Tail(rest) # <<>> /\ Tail(rest)[Len(Tail(rest))] = "publish"
         /\ \A i \in DOMAIN Tail(rest) : i + 1 \in DOMAIN rest /\ i + 1 > 1
                                         /\ Tail(rest)[i] = rest[i + 1]
<1>1. /\ Tail(rest) \in Seq(Steps) /\ Len(rest) \in Nat \ {0}
      /\ Len(Tail(rest)) = Len(rest) - 1 /\ DOMAIN rest = 1..Len(rest)
      /\ Head(rest) = rest[1]
  OBVIOUS
<1>2. \A i \in 1..Len(Tail(rest)) : Tail(rest)[i] = rest[i + 1]
  OBVIOUS
<1>3. Len(rest) # 1
  BY <1>1
<1>4. Len(Tail(rest)) \in 1..Len(Tail(rest)) /\ Len(Tail(rest)) + 1 = Len(rest)
  BY <1>1, <1>3
<1>5. Tail(rest)[Len(Tail(rest))] = "publish"
  BY <1>2, <1>4
<1>6. DOMAIN Tail(rest) = 1..Len(Tail(rest))
  BY <1>1
<1>7. \A i \in DOMAIN Tail(rest) : i + 1 \in DOMAIN rest /\ i + 1 > 1
  BY <1>1, <1>6
<1>8. \A i \in DOMAIN Tail(rest) : Tail(rest)[i] = rest[i + 1]
  BY <1>2, <1>6
<1>9. Tail(rest) # <<>>
  <2>1. Len(Tail(rest)) # 0
    BY <1>1, <1>3
  <2> QED
    BY <1>1, <2>1, EmptySeq
<1> QED
  BY <1>5, <1>7, <1>8, <1>9

\* After a change there is a reload still to come.
LEMMA Tells ==
  ASSUME TableInv, NEW r \in Threads, NEW step \in Telling, Due(r, step)
  PROVE  LET t == Tail(request[r].rest)
         IN  /\ t # <<>> /\ t[Len(t)] = "publish"
             /\ \A i \in DOMAIN t : t[i] \in After(step)
<1> DEFINE rest == request[r].rest
<1>1. /\ rest \in Seq(Steps) /\ rest # <<>> /\ Orderly(rest)
      /\ Head(rest) = rest[1] /\ rest[1] = step /\ 1 \in DOMAIN rest
  BY DEF TableInv, RequestOK, RequestIn, Due
<1> HIDE DEF rest
<1>2. /\ rest[Len(rest)] = "publish"
      /\ \A j \in DOMAIN rest : j > 1 => rest[j] \in After(step)
  BY <1>1 DEF Orderly
<1>3. Head(rest) # "publish"
  BY <1>1 DEF Telling
<1> QED
  BY <1>1, <1>2, <1>3, Remaining DEF rest

\* A request that goes on keeps owing the reload, ...
LEMMA OwesOn ==
  ASSUME TableInv, NEW x \in Threads, Owes(request[x]),
         \A id : Present(id) => Present(id)',
         request'[x].row.id = request[x].row.id,
         \/ request'[x].rest = request[x].rest
         \/ /\ request'[x].rest = Tail(request[x].rest)
            /\ Head(request[x].rest) # "publish"
  PROVE  Owes(request[x])'
<1> DEFINE rest == request[x].rest
           new == request'[x].rest
<1>1. rest \in Seq(Steps) /\ rest # <<>> /\ rest[Len(rest)] = "publish"
  BY DEF TableInv, RequestOK, RequestIn, Owes
<1>2. new # <<>> /\ new[Len(new)] = "publish"
  BY <1>1, Remaining
<1>3. ASSUME NEW S, \A i \in DOMAIN rest : rest[i] \in S
      PROVE  \A i \in DOMAIN new : new[i] \in S
  <2>1. CASE new = rest
    BY <1>3, <2>1
  <2>2. CASE new = Tail(rest) /\ Head(rest) # "publish"
    <3> HIDE DEF rest, new
    <3>1. \A i \in DOMAIN Tail(rest) : i + 1 \in DOMAIN rest /\ Tail(rest)[i] = rest[i + 1]
      BY <1>1, <2>2, Remaining
    <3> QED
      BY <1>3, <2>2, <3>1
  <2> QED
    BY <2>1, <2>2
<1>4. CASE Present(request[x].row.id) /\ \A i \in DOMAIN rest : rest[i] \in After("write")
  BY <1>2, <1>3, <1>4 DEF Owes
<1>5. CASE \A i \in DOMAIN rest : rest[i] \in After("delete")
  BY <1>2, <1>3, <1>5 DEF Owes
<1> QED
  BY <1>4, <1>5 DEF Owes

\* ... whatever the others do.
LEMMA ToldKept ==
  ASSUME TableInv, ToldInv, NEW r \in Threads, untold' = untold,
         \A id : Present(id) => Present(id)',
         \A x \in Threads \ {r} : /\ request'[x].rest = request[x].rest
                                  /\ request'[x].row.id = request[x].row.id,
         Owes(request[r]) => Owes(request[r])'
  PROVE  ToldInv'
<1>1. ASSUME NEW x \in Threads, Owes(request[x]) PROVE Owes(request[x])'
  <2>1. CASE x = r
    BY <1>1, <2>1
  <2>2. CASE x # r
    BY <1>1, <2>2, OwesOn
  <2> QED
    BY <2>1, <2>2
<1> QED
  BY <1>1 DEF ToldInv

\* What a request that owes a reload may be about to do
LEMMA OwesSteps ==
  ASSUME TableInv, NEW r \in Threads, Owes(request[r]), NEW step, Due(r, step)
  PROVE  /\ \/ Present(request[r].row.id) /\ step \in After("write")
            \/ step \in After("delete")
         /\ request[r].rest[Len(request[r].rest)] = "publish"
         /\ request[r].kind # "createUpload"
<1> DEFINE rest == request[r].rest
<1>1. /\ rest \in Seq(Steps) /\ rest # <<>> /\ Head(rest) = rest[1] /\ rest[1] = step
      /\ 1 \in DOMAIN rest /\ Len(rest) \in DOMAIN rest
      /\ request[r].kind = "createUpload" => \A i \in DOMAIN rest : rest[i] # "publish"
  BY DEF TableInv, RequestOK, RequestIn, Due
<1> QED
  BY <1>1 DEF Owes

\* A step on the way, of a request that goes on with a row of the same id
LEMMA OnwardOwes ==
  ASSUME WholeInv, NEW r \in Threads, Owes(request[r]), NEW q,
         RequestOK(q), q.rest = request[r].rest, q.row.id = request[r].row.id,
         Onward(r, q), Head(q.rest) # "publish",
         \A id : Present(id) => Present(id)'
  PROVE  Owes(request[r])'
<1>1. TableInv
  BY DEF WholeInv
<1>2. q.rest \in Seq(Steps) /\ q.rest # <<>> /\ q.rest[Len(q.rest)] = "publish"
      /\ {"kind", "rest", "row", "ids", "next", "doomed", "alone"} \subseteq DOMAIN q
  BY DEF RequestOK, RequestIn, Owes
<1>3. Tail(q.rest) # <<>>
  BY <1>2, Remaining
<1>4. request' = [request EXCEPT ![r] = [q EXCEPT !.rest = Tail(q.rest)]]
  BY <1>3 DEF Onward
<1>5. request'[r].rest = Tail(q.rest) /\ request'[r].row.id = q.row.id
  BY <1>1, <1>2, <1>4 DEF TableInv
<1> QED
  BY <1>1, <1>5, OwesOn

\* A change is made, and the reload is still to be sent.
LEMMA ChangeOwes ==
  ASSUME WholeInv, NEW r \in Threads, NEW step \in Telling, Due(r, step), NEW q,
         RequestOK(q), q.rest = request[r].rest, q.row.id = request[r].row.id,
         Onward(r, q),
         \/ step \in {"flag", "dates", "delete"}
         \/ step = "write" /\ Present(request[r].row.id)'
  PROVE  Owes(request[r])'
<1>1. TableInv
  BY DEF WholeInv
<1>2. {"kind", "rest", "row", "ids", "next", "doomed", "alone"} \subseteq DOMAIN q
  BY DEF RequestOK, RequestIn
<1> DEFINE t == Tail(q.rest)
<1>3. t # <<>> /\ t[Len(t)] = "publish" /\ \A i \in DOMAIN t : t[i] \in After(step)
  BY <1>1, Tells
<1>4. request' = [request EXCEPT ![r] = [q EXCEPT !.rest = t]]
  BY <1>3 DEF Onward
<1> HIDE DEF t
<1>5. request'[r].rest = t /\ request'[r].row.id = request[r].row.id
  BY <1>1, <1>2, <1>4 DEF TableInv
<1>6. CASE step \in {"flag", "dates", "delete"}
  <2>1. \A i \in DOMAIN t : t[i] \in After("delete")
    BY <1>3, <1>6, AfterIs
  <2> QED
    BY <1>3, <1>5, <2>1 DEF Owes
<1>7. CASE step = "write" /\ Present(request[r].row.id)'
  <2>1. (\E i \in DOMAIN table' : table'[i].id = request[r].row.id)
    BY <1>5, <1>7 DEF Present
  <2> QED
    BY <1>3, <1>5, <1>7, <2>1 DEF Owes, Present
<1> QED
  BY <1>6, <1>7

\* The requests whose step changes nothing that the viewer would have to know
LEMMA ReadTold ==
  ASSUME WholeInv, ToldInv, NEW r \in Threads,
         Refuse(r) \/ List(r) \/ Count(r) \/ Load(r) \/ Refresh(r) \/ Splice(r)
         \/ Exists(r) \/ Select(r) \/ Insert(r) \/ Rename(r)
  PROVE  ToldInv'
<1> DEFINE q == request[r]
<1>1. TableInv /\ RequestOK(q) /\ DOMAIN request = Threads /\ q.rest # <<>>
  BY DEF WholeInv, TableInv, Refuse, List, Count, Load, Refresh, Splice, Exists, Select,
         Insert, Rename, Due
<1>2. untold' = untold
  BY DEF Refuse, List, Count, Load, Refresh, Splice, Exists, Select, Insert, Rename, rows
<1>3. \A id : Present(id) => Present(id)'
  <2>1. CASE table' = table
    BY <2>1 DEF Present
  <2>2. CASE table' = Append(table, q.row)
    <3>1. table \in Seq(SoundRow) /\ q.row \in SoundRow
      BY <1>1 DEF TableInv, RequestOK, RequestIn
    <3>2. \A i \in DOMAIN table : i \in DOMAIN table' /\ table'[i] = table[i]
      BY <2>2, <3>1
    <3> QED
      BY <3>2 DEF Present
  <2> QED
    BY <2>1, <2>2
       DEF Refuse, List, Count, Load, Refresh, Splice, Exists, Select, Insert, Rename, rows
<1>4. \A x \in Threads \ {r} : request'[x] = request[x]
  <2>1. Fail(r) \/ \E n : Onward(r, n)
    BY DEF Refuse, List, Count, Load, Refresh, Splice, Exists, Select, Insert, Rename
  <2> QED
    BY <1>1, <2>1 DEF Fail, Onward
<1>5. ASSUME Owes(q) PROVE Owes(request[r])'
  <2>1. PICK step : Due(r, step)
          /\ \/ Present(q.row.id) /\ step \in After("write")
             \/ step \in After("delete")
          /\ q.kind # "createUpload"
    BY <1>1, <1>5, OwesSteps DEF Due
  <2>2. step = Head(q.rest) /\ step \in {"list", "refresh", "save", "exists", "publish",
                                         "unlink", "delete"}
    BY <2>1, AfterIs DEF Due
  <2>3. ASSUME NEW n, RequestOK(n), n.rest = q.rest, n.row.id = q.row.id, Onward(r, n),
               Head(q.rest) # "publish"
        PROVE  Owes(request[r])'
    BY <1>3, <1>5, <2>3, OnwardOwes
  <2>4. CASE List(r)
    <3> PICK ids \in SetToSeqs(ActiveSet) : Onward(r, [q EXCEPT !.ids = ids])
      BY <2>4 DEF List
    <3> DEFINE n == [q EXCEPT !.ids = ids]
    <3>1. Onward(r, n) /\ Head(q.rest) = "list"
      BY <2>4 DEF List, Due
    <3>2. RequestOK(n) /\ n.rest = q.rest /\ n.row.id = q.row.id
      BY <1>1, RowChanged DEF RequestOK, RequestIn
    <3> HIDE DEF n
    <3> QED
      BY <2>3, <3>1, <3>2
  <2>5. CASE Refresh(r)
    <3>1. Head(q.rest) = "refresh" /\ Present(q.row.id)
      BY <2>1, <2>2, <2>5, AfterIs DEF Refresh, Due
    <3> DEFINE old == table[At(q.row.id)]
               n == [q EXCEPT !.row = old, !.ids = Spliced(@, old)]
    <3>2. Onward(r, n)
      BY <2>5, <3>1 DEF Refresh
    <3>3. old \in SoundRow /\ old.id = q.row.id
      BY <1>1, <3>1, TableRows
    <3>4. RequestOK(n) /\ n.rest = q.rest /\ n.row.id = q.row.id
      <4> HIDE DEF old
      <4> QED
        BY <1>1, <3>3 DEF RequestOK, RequestIn
    <3> HIDE DEF n
    <3> QED
      BY <2>3, <3>1, <3>2, <3>4
  <2>6. CASE Exists(r)
    <3>1. Head(q.rest) = "exists" /\ Present(q.row.id)
      BY <2>1, <2>2, <2>6, AfterIs DEF Exists, Due
    <3> QED
      BY <1>1, <2>3, <2>6, <3>1 DEF Exists
  <2>7. CASE Refuse(r)
    BY <2>1, <2>7 DEF Refuse
  <2>8. CASE Count(r) \/ Load(r) \/ Splice(r) \/ Select(r) \/ Insert(r) \/ Rename(r)
    BY <2>2, <2>8 DEF Count, Load, Splice, Select, Insert, Rename, Due
  <2> QED
    BY <2>4, <2>5, <2>6, <2>7, <2>8
<1> QED
  BY <1>1, <1>2, <1>3, <1>4, <1>5, ToldKept

LEMMA SaveTold ==
  ASSUME WholeInv, ToldInv, NEW r \in Threads, Save(r)
  PROVE  ToldInv'
<1> DEFINE q == request[r]
<1>1. TableInv /\ RequestOK(q) /\ DOMAIN request = Threads /\ untold' = untold
      /\ Head(q.rest) = "save"
  BY DEF WholeInv, TableInv, Save, Due
<1>2. CASE q.ids = <<>>
  <2>1. Onward(r, q) /\ table' = table
    BY <1>2 DEF Save
  <2>2. \A id : Present(id) => Present(id)'
    BY <2>1 DEF Present
  <2>3. \A x \in Threads \ {r} : request'[x] = request[x]
    BY <1>1, <2>1 DEF Onward
  <2>4. Owes(q) => Owes(request[r])'
    BY <1>1, <2>1, <2>2, OnwardOwes
  <2> QED
    BY <1>1, <2>2, <2>3, <2>4, ToldKept
<1>3. CASE q.ids # <<>>
  <2>1. /\ table' = [i \in DOMAIN table |->
             IF table[i].id = Head(q.ids) THEN [table[i] EXCEPT !.order = q.next]
             ELSE table[i]]
        /\ request' = [request EXCEPT ![r].ids = Tail(@), ![r].next = @ + 1]
    BY <1>3 DEF Save
  <2>2. \A i \in DOMAIN table : i \in DOMAIN table' /\ table'[i].id = table[i].id
    <3>1. \A row \in SoundRow : [row EXCEPT !.order = q.next].id = row.id
      BY DEF SoundRow
    <3> QED
      BY <1>1, <2>1, <3>1, TableRows
  <2>3. \A id : Present(id) => Present(id)'
    BY <2>2 DEF Present
  <2>4. request'[r].rest = q.rest /\ request'[r].row = q.row
    BY <1>1, <2>1 DEF RequestOK, RequestIn
  <2>5. \A x \in Threads \ {r} : request'[x] = request[x]
    BY <1>1, <2>1
  <2>6. Owes(q) => Owes(request[r])'
    BY <1>1, <2>3, <2>4, OwesOn
  <2> QED
    BY <1>1, <2>3, <2>5, <2>6, ToldKept
<1> QED
  BY <1>2, <1>3

LEMMA UnlinkTold ==
  ASSUME WholeInv, ToldInv, NEW r \in Threads, Unlink(r)
  PROVE  ToldInv'
<1> DEFINE q == request[r]
           k == Head(q.doomed).inode
<1>1. /\ TableInv /\ DOMAIN request = Threads /\ untold' = untold
      /\ \A x \in Threads : RequestOK(request[x])
      /\ Head(q.rest) = "unlink" /\ "unlink" # "publish"
      /\ table' = [j \in DOMAIN table |-> Without(k, table[j])]
      /\ request' = [x \in Threads |->
           IF x = r THEN [q EXCEPT !.rest = Tail(@)]
           ELSE [request[x] EXCEPT !.row = Without(k, @)]]
  BY DEF WholeInv, TableInv, Unlink, Due
<1> HIDE DEF k
<1>2. \A row \in SoundRow : Without(k, row).id = row.id
  BY DEF Without, SoundRow
<1>3. \A id : Present(id) => Present(id)'
  <2>1. \A i \in DOMAIN table : i \in DOMAIN table' /\ table'[i].id = table[i].id
    BY <1>1, <1>2, TableRows
  <2> QED
    BY <2>1 DEF Present
<1>4. \A x \in Threads \ {r} : /\ request'[x].rest = request[x].rest
                               /\ request'[x].row.id = request[x].row.id
  BY <1>1, <1>2 DEF RequestOK, RequestIn
<1>5. request'[r].rest = Tail(q.rest) /\ request'[r].row = q.row
  BY <1>1 DEF RequestOK, RequestIn
<1>6. Owes(q) => Owes(request[r])'
  BY <1>1, <1>3, <1>5, OwesOn
<1> QED
  BY <1>1, <1>3, <1>4, <1>6, ToldKept

\* The requests that change what is in rotation owe the reload from then on.
LEMMA ChangeTold ==
  ASSUME WholeInv, ToldInv, NEW r \in Threads,
         WriteRow(r) \/ Flag(r) \/ Dates(r) \/ Delete(r)
  PROVE  ToldInv'
<1> DEFINE q == request[r]
<1>1. TableInv /\ RequestOK(q) /\ DOMAIN request = Threads /\ q.row \in SoundRow
      /\ table \in Seq(SoundRow)
  BY DEF WholeInv, TableInv, RequestOK, RequestIn
<1>2. Owes(request[r])' => ToldInv'
  BY DEF ToldInv
<1>3. ASSUME NEW step \in {"flag", "dates"}, Due(r, step), Fail(r), untold' = untold,
             UNCHANGED table
      PROVE  ToldInv'
  <2>1. \A id : Present(id) => Present(id)'
    BY <1>3 DEF Present
  <2>2. \A x \in Threads \ {r} : request'[x] = request[x]
    BY <1>1, <1>3 DEF Fail
  <2>3. step \notin After("write") /\ step \notin After("delete")
    BY <1>3, AfterIs
  <2>4. ~Owes(q)
    BY <1>1, <1>3, <2>3, OwesSteps
  <2> QED
    BY <1>1, <1>3, <2>1, <2>2, <2>4, ToldKept
<1>4. ASSUME NEW step \in {"flag", "dates"}, Due(r, step), Onward(r, q)
      PROVE  ToldInv'
  <2>1. step \in Telling
    BY DEF Telling
  <2>2. q.rest = request[r].rest /\ q.row.id = request[r].row.id
    OBVIOUS
  <2> QED
    BY <1>1, <1>2, <1>4, <2>1, <2>2, ChangeOwes
<1>5. CASE WriteRow(r)
  <2>1. Onward(r, q) /\ Due(r, "write") /\ "write" \in Telling
    BY <1>5 DEF WriteRow, Telling
  <2>2. \E i \in DOMAIN table' : table'[i].id = q.row.id
    <3>1. CASE Present(q.row.id)
      <4>1. At(q.row.id) \in DOMAIN table
        BY <1>1, <3>1, TableRows
      <4>2. table' = [table EXCEPT ![At(q.row.id)] = q.row]
        BY <1>5, <3>1 DEF WriteRow
      <4> QED
        BY <1>1, <4>1, <4>2
    <3>2. CASE ~Present(q.row.id)
      <4>1. table' = Append(table, q.row)
        BY <1>5, <3>2 DEF WriteRow
      <4>2. Len(table) + 1 \in DOMAIN table' /\ table'[Len(table) + 1] = q.row
        BY <1>1, <4>1
      <4> QED
        BY <4>2
    <3> QED
      BY <3>1, <3>2
  <2>3. request'[r].row.id = q.row.id
    <3>1. Tail(q.rest) # <<>>
      BY <1>1, <2>1, Tells
    <3>2. request'[r] = [q EXCEPT !.rest = Tail(q.rest)]
      BY <1>1, <2>1, <3>1 DEF Onward
    <3> QED
      BY <1>1, <3>2 DEF RequestOK, RequestIn
  <2>4. Present(request[r].row.id)'
    BY <2>2, <2>3 DEF Present
  <2> QED
    BY <1>1, <1>2, <2>1, <2>4, ChangeOwes
<1>6. CASE Flag(r)
  <2>1. CASE Onward(r, q)
    BY <1>6, <1>4, <2>1 DEF Flag
  <2>2. CASE Fail(r) /\ UNCHANGED table
    <3>1. Gone(table, table') = {}
      BY <2>2 DEF Gone
    <3> QED
      BY <1>3, <1>6, <2>2, <3>1 DEF Flag
  <2> QED
    BY <1>6, <2>1, <2>2 DEF Flag
<1>7. CASE Dates(r)
  <2>1. CASE Onward(r, q)
    BY <1>7, <1>4, <2>1 DEF Dates
  <2>2. CASE Fail(r) /\ UNCHANGED <<window, untold>>
    BY <1>3, <1>7, <2>2 DEF Dates
  <2> QED
    BY <1>7, <2>1, <2>2 DEF Dates
<1>8. CASE Delete(r)
  <2>1. Due(r, "delete") /\ "delete" \in Telling
    BY <1>8 DEF Delete, Telling
  <2>2. CASE Len(q.doomed) = 1
    <3> DEFINE n == [q EXCEPT !.doomed = <<>>]
    <3>1. Onward(r, n)
      BY <1>8, <2>2 DEF Delete
    <3>2. RequestOK(n) /\ n.rest = q.rest /\ n.row.id = q.row.id
      BY <1>1, RowChanged DEF RequestOK, RequestIn
    <3> HIDE DEF n
    <3> QED
      BY <1>1, <1>2, <2>1, <3>1, <3>2, ChangeOwes
  <2>3. CASE Len(q.doomed) # 1
    <3> DEFINE p == <<"unlink">> \o q.rest
    <3>1. request'[r].rest = p
      BY <1>1, <1>8, <2>3 DEF Delete, RequestOK, RequestIn
    <3>2. p # <<>> /\ p[Len(p)] = "publish" /\ \A i \in DOMAIN p : p[i] \in After("delete")
      BY <1>1, <2>1, OnceMore DEF RequestOK, RequestIn, Due
    <3> HIDE DEF p
    <3> QED
      BY <1>2, <3>1, <3>2 DEF Owes
  <2> QED
    BY <2>2, <2>3
<1> QED
  BY <1>5, <1>6, <1>7, <1>8

LEMMA ArriveTold ==
  ASSUME WholeInv, ToldInv, NEW r \in Threads, NEW kind \in Kinds, Arrive(r, kind)
  PROVE  ToldInv'
<1>1. /\ TableInv /\ request[r] = Waiting /\ untold' = untold /\ table' = table
      /\ \A x \in Threads \ {r} : request'[x] = Disturbed(request[x])
  BY DEF WholeInv, Arrive, rows
<1>2. \A x \in Threads \ {r} : /\ request'[x].rest = request[x].rest
                               /\ request'[x].row.id = request[x].row.id
  BY <1>1 DEF Disturbed, TableInv, RequestOK, RequestIn
<1>3. ~Owes(request[r])
  BY <1>1 DEF Owes, Waiting
<1>4. \A id : Present(id) => Present(id)'
  BY <1>1 DEF Present
<1> QED
  BY <1>1, <1>2, <1>3, <1>4, ToldKept

LEMMA FlipTold ==
  ASSUME WholeInv, ToldInv, NEW id \in Ids, Flip(id)
  PROVE  ToldInv'
<1>1. /\ untold' \subseteq untold /\ table' = table /\ TableInv
      /\ \A x \in Threads : request'[x] = Disturbed(request[x])
  BY DEF WholeInv, Flip
<1>2. \A x \in Threads : /\ request'[x].rest = request[x].rest
                         /\ request'[x].row.id = request[x].row.id
  BY <1>1 DEF Disturbed, TableInv, RequestOK, RequestIn
<1>3. \A i : Present(i) => Present(i)'
  BY <1>1 DEF Present
<1>4. \A x \in Threads : Owes(request[x]) => Owes(request[x])'
  BY <1>1, <1>2, <1>3, OwesOn
<1> QED
  BY <1>1, <1>4 DEF ToldInv

LEMMA ToldNext == WholeInv /\ ToldInv /\ [Next]_vars => ToldInv'
<1> SUFFICES ASSUME WholeInv, ToldInv, [Next]_vars PROVE ToldInv'
  OBVIOUS
<1>1. CASE Upload \/ UNCHANGED vars
  BY <1>1 DEF Upload, vars, rows, ToldInv, Owes, Present
<1>2. CASE ServerDies
  BY <1>2 DEF ServerDies, ToldInv
<1>3. ASSUME NEW r \in Threads, Step(r) PROVE ToldInv'
  <2>1. CASE Publish(r)
    BY <2>1 DEF Publish, Told, ToldInv
  <2> QED
    BY <1>3, <2>1, ArriveTold, ReadTold, ChangeTold, SaveTold, UnlinkTold DEF Step
<1>4. ASSUME NEW id \in Ids, Flip(id) PROVE ToldInv'
  BY <1>4, FlipTold
<1> QED
  BY <1>1, <1>2, <1>3, <1>4 DEF Next

\* Whatever requests take out of rotation, in whatever order they are served: when
\* none of them is left, the viewer has been sent a reload after the last of it.
THEOREM ViewerTold == Spec => []ViewerIsTold
<1>1. WholeInv /\ ToldInv => ViewerIsTold
  BY DEF ViewerIsTold, ToldInv, Owes, Waiting
<1>2. Init => ToldInv
  BY DEF Init, ToldInv
<1> QED
  BY <1>1, <1>2, WholeInit, WholeNext, ToldNext, PTL DEF Spec

-----------------------------------------------------------------------------
(* Where a request puts its asset *)

\* What is left of a request is the end of its program, but for a delete that goes
\* on with the next asset.
Course(q) ==
  IF q.kind = "delete" THEN \A i \in DOMAIN q.rest : q.rest[i] \notin {"insert", "exists"}
  ELSE q.rest # <<>> =>
         /\ q.kind \in Kinds
         /\ \E k \in DOMAIN Program(q.kind) :
              q.rest = SubSeq(Program(q.kind), k, Len(Program(q.kind)))

\* No two rows have the same id, ...
UniqueIds == \A i, j \in DOMAIN table : table[i].id = table[j].id => i = j

\* ... since the id of a row that is yet to be inserted is in no row, and nobody
\* else has read one with it.
Unborn(q) == \E i \in DOMAIN q.rest : q.rest[i] = "insert"
Reserved(r) ==
  LET id == request[r].row.id IN
  Unborn(request[r]) =>
    /\ id \in New /\ ~Present(id)
    /\ \A o \in Threads \ {r} : request[o].row.id = id => Due(o, "load")

\* Who has the table to itself is alone.
SoleRequest(r) == request[r].alone => \A o \in Threads \ {r} : request[o] = Waiting

\* A list of the ids of a set, each once
Lists(ids, S) ==
  /\ ids \in Seq(S)
  /\ \A i, j \in DOMAIN ids : ids[i] = ids[j] => i = j
  /\ \A id \in S : \E i \in DOMAIN ids : ids[i] = id

\* The position that list.insert() gives to the last of n
Position(n, asked) ==
  IF asked >= n THEN n - 1
  ELSE IF asked >= 0 THEN asked
  ELSE IF n - 1 + asked >= 0 THEN n - 1 + asked ELSE 0

ActiveAt == {i \in DOMAIN table : IsActive(table[i])}

\* The kinds of request that number the active assets
Splicing == {"create", "createUpload", "createV12", "update", "updateV12"}

\* In the middle of the numbering: who is not in the rest of the list has its number.
Numbered(q) ==
  LET n == Cardinality(ActiveSet) IN
  /\ q.ids \in Seq(ActiveSet) /\ q.next + Len(q.ids) = n
  /\ \A i, j \in DOMAIN q.ids : q.ids[i] = q.ids[j] => i = j
  /\ \A i \in ActiveAt : \/ table[i].order \in 0..(q.next - 1)
                         \/ \E k \in DOMAIN q.ids : q.ids[k] = table[i].id
  /\ \A k \in 0..(q.next - 1) : \E i \in ActiveAt :
       table[i].order = k /\ \A m \in DOMAIN q.ids : q.ids[m] # table[i].id
  /\ \A i \in ActiveAt : table[i].id = q.row.id =>
       \/ table[i].order = Position(n, q.row.order) /\ \A k \in DOMAIN q.ids : q.ids[k] # q.row.id
       \/ \E k \in DOMAIN q.ids : q.ids[k] = q.row.id /\ q.next + k - 1 = Position(n, q.row.order)

\* The list that the asset is about to go into, and the row that decides where
Gathered(q) ==
  /\ \E S : S \ {q.row.id} = ActiveSet \ {q.row.id} /\ Lists(q.ids, S)
  /\ Head(q.rest) = "splice" => \E i \in DOMAIN table : table[i] = q.row

\* A request that has the table to itself, at each of its steps
InPlace(q) ==
  /\ Head(q.rest) \in {"rename", "list", "load", "write", "insert", "refresh", "splice"} => q.next = 0
  /\ Head(q.rest) = "insert" => Lists(q.ids, ActiveSet)
  /\ Head(q.rest) \in {"refresh", "splice"} => Gathered(q)
  /\ Head(q.rest) \in {"save", "exists"} /\ q.row.id \in ActiveSet => Numbered(q)
  /\ Head(q.rest) = "exists" => q.ids = <<>>
Placing(q) == q.alone /\ q.rest # <<>> /\ q.kind \in Splicing => InPlace(q)

PlaceInv ==
  /\ UniqueIds
  /\ \A r \in Threads :
       Course(request[r]) /\ Reserved(r) /\ SoleRequest(r) /\ Placing(request[r])

\* Sequences from which one element is taken, and into which one is put
LEMMA Removed ==
  ASSUME NEW T, NEW s \in Seq(T), NEW k \in 1..Len(s)
  PROVE  /\ RemoveAt(s, k) \in Seq(T) /\ Len(RemoveAt(s, k)) = Len(s) - 1
         /\ \A j \in 1..(Len(s) - 1) :
              RemoveAt(s, k)[j] = IF j < k THEN s[j] ELSE s[j + 1]
<1> DEFINE a == SubSeq(s, 1, k - 1)
           b == SubSeq(s, k + 1, Len(s))
<1>0. Len(s) \in Nat /\ k \in Int /\ 1 <= k /\ k <= Len(s) /\ \A i \in 1..Len(s) : s[i] \in T
  OBVIOUS
<1>1. a \in Seq(T) /\ Len(a) = k - 1 /\ \A i \in 1..(k - 1) : a[i] = s[i]
  <2>1. \A i \in 1..(k - 1) : s[i] \in T
    BY <1>0
  <2>2. 1 \in Int /\ k - 1 \in Int
    BY <1>0
  <2>3. /\ a \in Seq(T) /\ Len(a) = IF 1 <= k - 1 THEN (k - 1) - 1 + 1 ELSE 0
        /\ \A i \in 1..((k - 1) - 1 + 1) : a[i] = s[1 + i - 1]
    BY <2>1, <2>2, SubSeqProperties
  <2> QED
    BY <1>0, <2>3
<1>2. b \in Seq(T) /\ Len(b) = Len(s) - k /\ \A i \in 1..(Len(s) - k) : b[i] = s[k + i]
  <2>1. \A i \in (k + 1)..Len(s) : s[i] \in T
    BY <1>0
  <2>2. k + 1 \in Int /\ Len(s) \in Int
    BY <1>0
  <2>3. /\ b \in Seq(T) /\ Len(b) = IF k + 1 <= Len(s) THEN Len(s) - (k + 1) + 1 ELSE 0
        /\ \A i \in 1..(Len(s) - (k + 1) + 1) : b[i] = s[(k + 1) + i - 1]
    BY <2>1, <2>2, SubSeqProperties
  <2> QED
    BY <1>0, <2>3
<1> HIDE DEF a, b
<1>3. /\ a \o b \in Seq(T) /\ Len(a \o b) = Len(a) + Len(b)
      /\ \A i \in 1..(Len(a) + Len(b)) : (a \o b)[i] = IF i <= Len(a) THEN a[i] ELSE b[i - Len(a)]
  BY <1>1, <1>2, ConcatProperties
<1>4. RemoveAt(s, k) = a \o b
  BY DEF RemoveAt, a, b
<1>5. ASSUME NEW j \in 1..(Len(s) - 1)
      PROVE  (a \o b)[j] = IF j < k THEN s[j] ELSE s[j + 1]
  <2>1. CASE j < k
    BY <1>0, <1>1, <1>2, <1>3, <2>1
  <2>2. CASE ~(j < k)
    <3>1. j - (k - 1) \in 1..(Len(s) - k) /\ k + (j - (k - 1)) = j + 1 /\ ~(j <= k - 1)
      BY <1>0, <2>2
    <3>2. (a \o b)[j] = b[j - (k - 1)]
      BY <1>0, <1>1, <1>2, <1>3, <3>1
    <3> QED
      BY <1>2, <2>2, <3>1, <3>2
  <2> QED
    BY <2>1, <2>2
<1>6. Len(a \o b) = Len(s) - 1
  BY <1>0, <1>1, <1>2, <1>3
<1> QED
  BY <1>3, <1>4, <1>5, <1>6

LEMMA Inserted ==
  ASSUME NEW T, NEW s \in Seq(T), NEW k \in 1..(Len(s) + 1), NEW e \in T
  PROVE  /\ InsertAt(s, k, e) \in Seq(T) /\ Len(InsertAt(s, k, e)) = Len(s) + 1
         /\ \A j \in 1..(Len(s) + 1) :
              InsertAt(s, k, e)[j] = IF j < k THEN s[j] ELSE IF j = k THEN e ELSE s[j - 1]
<1> DEFINE a == SubSeq(s, 1, k - 1)
           b == SubSeq(s, k, Len(s))
<1>0. Len(s) \in Nat /\ k \in Int /\ 1 <= k /\ k <= Len(s) + 1 /\ \A i \in 1..Len(s) : s[i] \in T
  OBVIOUS
<1>1. a \in Seq(T) /\ Len(a) = k - 1 /\ \A i \in 1..(k - 1) : a[i] = s[i]
  <2>1. \A i \in 1..(k - 1) : s[i] \in T
    BY <1>0
  <2>2. 1 \in Int /\ k - 1 \in Int
    BY <1>0
  <2>3. /\ a \in Seq(T) /\ Len(a) = IF 1 <= k - 1 THEN (k - 1) - 1 + 1 ELSE 0
        /\ \A i \in 1..((k - 1) - 1 + 1) : a[i] = s[1 + i - 1]
    BY <2>1, <2>2, SubSeqProperties
  <2> QED
    BY <1>0, <2>3
<1>2. b \in Seq(T) /\ Len(b) = Len(s) - k + 1
      /\ \A i \in 1..(Len(s) - k + 1) : b[i] = s[k + i - 1]
  <2>1. \A i \in k..Len(s) : s[i] \in T
    BY <1>0
  <2>2. k \in Int /\ Len(s) \in Int
    BY <1>0
  <2>3. /\ b \in Seq(T) /\ Len(b) = IF k <= Len(s) THEN Len(s) - k + 1 ELSE 0
        /\ \A i \in 1..(Len(s) - k + 1) : b[i] = s[k + i - 1]
    BY <2>1, <2>2, SubSeqProperties
  <2> QED
    BY <1>0, <2>3
<1> DEFINE c == <<e>> \o b
           t == InsertAt(s, k, e)
<1>3. /\ c \in Seq(T) /\ Len(c) = Len(b) + 1 /\ c[1] = e
      /\ \A i \in 1..Len(b) : c[i + 1] = b[i]
  <2> HIDE DEF b
  <2> QED
    BY <1>2, Pushed
<1>4. t = a \o c
  <2> HIDE DEF a
  <2>1. t = a \o <<e>> \o b
    BY DEF InsertAt, a
  <2>2. <<e>> \in Seq(T)
    OBVIOUS
  <2> HIDE DEF b, t
  <2> QED
    BY <1>1, <1>2, <2>1, <2>2, ConcatAssociative
<1> HIDE DEF a, b, c, t
<1>5. /\ a \o c \in Seq(T) /\ Len(a \o c) = Len(a) + Len(c)
      /\ \A i \in 1..(Len(a) + Len(c)) : (a \o c)[i] = IF i <= Len(a) THEN a[i] ELSE c[i - Len(a)]
  BY <1>1, <1>3, ConcatProperties
<1>7. Len(a) + Len(c) = Len(s) + 1 /\ t \in Seq(T) /\ Len(t) = Len(s) + 1
  <2>1. Len(a) + Len(c) = Len(s) + 1
    BY <1>0, <1>1, <1>2, <1>3
  <2> QED
    BY <1>4, <1>5, <2>1
<1>6. ASSUME NEW j \in 1..(Len(s) + 1)
      PROVE  t[j] = IF j < k THEN s[j] ELSE IF j = k THEN e ELSE s[j - 1]
  <2>1. CASE j < k
    <3>1. j \in 1..(k - 1) /\ j <= Len(a)
      BY <1>0, <1>1, <2>1
    <3>2. j \in 1..(Len(a) + Len(c))
      BY <1>7, SMT
    <3>3. t[j] = a[j]
      BY <1>4, <1>5, <3>1, <3>2
    <3> QED
      BY <1>1, <2>1, <3>1, <3>3
  <2>2. CASE j = k
    <3>1. t[j] = c[j - (k - 1)]
      <4>1. ~(j <= Len(a)) /\ j - Len(a) = j - (k - 1)
        BY <1>0, <1>1, <2>2
      <4>2. j \in 1..(Len(a) + Len(c))
        BY <1>7, SMT
      <4> QED
        BY <1>4, <1>5, <4>1, <4>2
    <3>2. j - (k - 1) = 1
      BY <1>0, <2>2
    <3> QED
      BY <1>3, <2>2, <3>1, <3>2
  <2>3. CASE j > k
    <3>1. t[j] = c[j - (k - 1)]
      <4>1. ~(j <= Len(a)) /\ j - Len(a) = j - (k - 1)
        BY <1>0, <1>1, <2>3
      <4>2. j \in 1..(Len(a) + Len(c))
        BY <1>7, SMT
      <4> QED
        BY <1>4, <1>5, <4>1, <4>2
    <3>2. j - k \in 1..Len(b) /\ (j - k) + 1 = j - (k - 1) /\ k + (j - k) - 1 = j - 1
      BY <1>0, <1>2, <2>3
    <3>3. c[j - (k - 1)] = b[j - k] /\ b[j - k] = s[j - 1]
      BY <1>2, <1>3, <3>2
    <3> QED
      BY <2>3, <3>1, <3>3
  <2> QED
    BY <1>0, <2>1, <2>2, <2>3
<1> QED
  BY <1>6, <1>7 DEF t

\* The end of a sequence from a position on
LEMMA Ends ==
  ASSUME NEW T, NEW p \in Seq(T), NEW k \in DOMAIN p
  PROVE  LET s == SubSeq(p, k, Len(p)) IN
         /\ s \in Seq(T) /\ s # <<>> /\ Head(s) = p[k]
         /\ k = Len(p) => Tail(s) = <<>>
         /\ k # Len(p) => k + 1 \in DOMAIN p /\ Tail(s) = SubSeq(p, k + 1, Len(p))
         /\ \A i \in DOMAIN s : k + i - 1 \in DOMAIN p /\ s[i] = p[k + i - 1]
<1> DEFINE s == SubSeq(p, k, Len(p))
<1>0. Len(p) \in Nat /\ k \in 1..Len(p) /\ DOMAIN p = 1..Len(p)
  OBVIOUS
<1>1. s \in Seq(T) /\ Len(s) = Len(p) - k + 1
      /\ \A i \in 1..(Len(p) - k + 1) : s[i] = p[k + i - 1]
  BY <1>0, SubSeqProperties
<1>2. s # <<>> /\ Head(s) = p[k]
  BY <1>0, <1>1
<1>3. k = Len(p) => Tail(s) = <<>>
  BY <1>0, <1>1, <1>2
<1>4. k # Len(p) => k + 1 \in DOMAIN p /\ Tail(s) = SubSeq(p, k + 1, Len(p))
  <2> SUFFICES ASSUME k # Len(p) PROVE Tail(s) = SubSeq(p, k + 1, Len(p))
    BY <1>0
  <2>1. SubSeq(p, k + 1, Len(p)) \in Seq(T) /\ Len(SubSeq(p, k + 1, Len(p))) = Len(p) - k
        /\ \A i \in 1..(Len(p) - k) : SubSeq(p, k + 1, Len(p))[i] = p[k + i]
    BY <1>0, SubSeqProperties
  <2>2. Tail(s) \in Seq(T) /\ Len(Tail(s)) = Len(p) - k
        /\ \A i \in 1..(Len(p) - k) : Tail(s)[i] = p[k + i]
    BY <1>0, <1>1, <1>2, HeadTailProperties
  <2> HIDE DEF s
  <2> QED
    BY <2>1, <2>2, SeqEqual
<1>5. ASSUME NEW i \in DOMAIN s PROVE k + i - 1 \in DOMAIN p /\ s[i] = p[k + i - 1]
  <2>1. i \in 1..(Len(p) - k + 1)
    BY <1>1
  <2> QED
    BY <1>0, <1>1, <2>1
<1> QED
  BY <1>1, <1>2, <1>3, <1>4, <1>5

LEMMA ListLength ==
  ASSUME NEW S, NEW ids, Lists(ids, S)
  PROVE  Len(ids) \in Nat /\ Cardinality(S) = Len(ids)
<1>1. Len(ids) \in Nat /\ ids \in [1..Len(ids) -> S]
  BY DEF Lists
<1>2. ids \in Bijection(1..Len(ids), S)
  BY <1>1 DEF Lists, Bijection, Injection, Surjection, IsInjective
<1> QED
  BY <1>1, <1>2, FS_CountingElements DEF ExistsBijection

\* What list.remove() leaves
LEMMA FirstRemoved ==
  ASSUME NEW S, NEW ids, Lists(ids, S), NEW id
  PROVE  Lists(RemoveFirst(ids, id), S \ {id})
<1> DEFINE t == RemoveFirst(ids, id)
<1>0. /\ ids \in Seq(S) /\ Len(ids) \in Nat /\ DOMAIN ids = 1..Len(ids)
      /\ \A i, j \in 1..Len(ids) : ids[i] = ids[j] => i = j
      /\ \A x \in S : \E i \in 1..Len(ids) : ids[i] = x
      /\ \A i \in 1..Len(ids) : ids[i] \in S
  BY DEF Lists
<1>1. CASE \A i \in 1..Len(ids) : ids[i] # id
  <2>1. t = ids
    BY <1>1 DEF RemoveFirst
  <2>2. id \notin S
    BY <1>0, <1>1
  <2>3. S \ {id} = S
    BY <2>2
  <2> QED
    BY <2>1, <2>3
<1>2. ASSUME NEW k \in 1..Len(ids), ids[k] = id PROVE Lists(t, S \ {id})
  <2> DEFINE I == {i \in 1..Len(ids) : ids[i] = id}
  <2>1. I = {k}
    BY <1>0, <1>2
  <2>2. SelectInSeq(ids, LAMBDA x : x = id) = k
    <3>1. Min({k}) = k
      BY <1>0 DEF Min
    <3>2. {k} # {}
      OBVIOUS
    <3>3. SelectInSeq(ids, LAMBDA x : x = id) = IF I # {} THEN Min(I) ELSE 0
      BY DEF SelectInSeq
    <3> HIDE DEF I
    <3> QED
      BY <2>1, <3>1, <3>2, <3>3
  <2>3. t = RemoveAt(ids, k)
    BY <1>2, <2>2 DEF RemoveFirst
  <2> HIDE DEF t
  <2>4. /\ t \in Seq(S) /\ Len(t) = Len(ids) - 1
        /\ \A j \in 1..(Len(ids) - 1) : t[j] = IF j < k THEN ids[j] ELSE ids[j + 1]
    <3>1. ids \in Seq(S) /\ k \in 1..Len(ids)
      BY <1>0
    <3>2. /\ RemoveAt(ids, k) \in Seq(S) /\ Len(RemoveAt(ids, k)) = Len(ids) - 1
          /\ \A j \in 1..(Len(ids) - 1) :
               RemoveAt(ids, k)[j] = IF j < k THEN ids[j] ELSE ids[j + 1]
      BY <3>1, Removed
    <3> QED
      BY <2>3, <3>2
  <2>5. DOMAIN t = 1..(Len(ids) - 1)
    BY <2>4
  <2>6. ASSUME NEW j \in 1..(Len(ids) - 1)
        PROVE  \E i \in 1..Len(ids) : i # k /\ t[j] = ids[i] /\ i = IF j < k THEN j ELSE j + 1
    BY <1>0, <2>4, SMTT(30)
  <2>7. \A j \in 1..(Len(ids) - 1) : t[j] \in S \ {id}
    BY <1>0, <1>2, <2>6
  <2>8. t \in Seq(S \ {id})
    BY <1>0, <2>4, <2>5, <2>7
  <2>9. ASSUME NEW i \in DOMAIN t, NEW j \in DOMAIN t, t[i] = t[j] PROVE i = j
    <3>1. PICK a \in 1..Len(ids) : t[i] = ids[a] /\ a = IF i < k THEN i ELSE i + 1
      BY <2>5, <2>6
    <3>2. PICK b \in 1..Len(ids) : t[j] = ids[b] /\ b = IF j < k THEN j ELSE j + 1
      BY <2>5, <2>6
    <3>3. a = b
      BY <1>0, <2>9, <3>1, <3>2
    <3> QED
      BY <1>0, <2>5, <3>1, <3>2, <3>3
  <2>10. ASSUME NEW x \in S \ {id} PROVE \E j \in DOMAIN t : t[j] = x
    <3>1. PICK i \in 1..Len(ids) : ids[i] = x
      BY <1>0
    <3>2. i # k
      BY <1>2, <3>1
    <3>3. CASE i < k
      <4>1. i \in 1..(Len(ids) - 1)
        BY <1>0, <3>3
      <4>2. t[i] = ids[i]
        BY <2>4, <3>3, <4>1
      <4> QED
        BY <2>5, <3>1, <4>1, <4>2
    <3>4. CASE i > k
      <4>1. i - 1 \in 1..(Len(ids) - 1) /\ ~(i - 1 < k) /\ (i - 1) + 1 = i
        BY <1>0, <3>4
      <4>2. t[i - 1] = ids[i]
        BY <2>4, <4>1
      <4> QED
        BY <2>5, <3>1, <4>1, <4>2
    <3> QED
      BY <1>0, <3>2, <3>3, <3>4
  <2> QED
    BY <2>8, <2>9, <2>10 DEF Lists
<1> QED
  BY <1>1, <1>2

\* list.insert() puts the new one at its position, among the others.
LEMMA Placed ==
  ASSUME NEW S, NEW ids, Lists(ids, S), NEW id, id \notin S, NEW k \in 1..(Len(ids) + 1)
  PROVE  LET t == InsertAt(ids, k, id) IN
         Lists(t, S \union {id}) /\ k \in DOMAIN t /\ t[k] = id
<1> DEFINE t == InsertAt(ids, k, id)
           U == S \union {id}
<1>0. /\ ids \in Seq(S) /\ Len(ids) \in Nat /\ DOMAIN ids = 1..Len(ids)
      /\ \A i, j \in 1..Len(ids) : ids[i] = ids[j] => i = j
      /\ \A x \in S : \E i \in 1..Len(ids) : ids[i] = x
      /\ \A i \in 1..Len(ids) : ids[i] \in S
  BY DEF Lists
<1>1. ids \in Seq(U) /\ id \in U
  BY <1>0
<1>2. k \in 1..(Len(ids) + 1)
  BY <1>0
<1>3. /\ t \in Seq(U) /\ Len(t) = Len(ids) + 1
      /\ \A j \in 1..(Len(ids) + 1) :
           t[j] = IF j < k THEN ids[j] ELSE IF j = k THEN id ELSE ids[j - 1]
  <2> HIDE DEF U
  <2> QED
    BY <1>1, <1>2, Inserted
<1> HIDE DEF t
<1>4. DOMAIN t = 1..(Len(ids) + 1) /\ t[k] = id
  BY <1>0, <1>2, <1>3
<1>5. ASSUME NEW j \in 1..(Len(ids) + 1), j # k
      PROVE  \E i \in 1..Len(ids) : t[j] = ids[i] /\ i = IF j < k THEN j ELSE j - 1
  BY <1>0, <1>3, <1>5
<1>6. ASSUME NEW i \in DOMAIN t, NEW j \in DOMAIN t, t[i] = t[j] PROVE i = j
  <2>1. CASE i = k \/ j = k
    BY <1>0, <1>4, <1>5, <1>6, <2>1
  <2>2. CASE i # k /\ j # k
    <3>1. PICK a \in 1..Len(ids) : t[i] = ids[a] /\ a = IF i < k THEN i ELSE i - 1
      BY <1>4, <1>5, <2>2
    <3>2. PICK b \in 1..Len(ids) : t[j] = ids[b] /\ b = IF j < k THEN j ELSE j - 1
      BY <1>4, <1>5, <2>2
    <3>3. a = b
      BY <1>0, <1>6, <3>1, <3>2
    <3> QED
      BY <1>0, <1>4, <2>2, <3>1, <3>2, <3>3
  <2> QED
    BY <2>1, <2>2
<1>7. ASSUME NEW x \in U PROVE \E j \in DOMAIN t : t[j] = x
  <2>1. CASE x = id
    BY <1>2, <1>4, <2>1
  <2>2. CASE x \in S
    <3>1. PICK i \in 1..Len(ids) : ids[i] = x
      BY <1>0, <2>2
    <3>2. CASE i < k
      <4>1. i \in 1..(Len(ids) + 1)
        BY <1>0
      <4>2. t[i] = ids[i]
        BY <1>3, <3>2, <4>1
      <4> QED
        BY <1>4, <3>1, <4>1, <4>2
    <3>3. CASE ~(i < k)
      <4>1. i + 1 \in 1..(Len(ids) + 1) /\ ~(i + 1 < k) /\ i + 1 # k /\ (i + 1) - 1 = i
        BY <1>0, <3>3
      <4>2. t[i + 1] = ids[i]
        BY <1>3, <4>1
      <4> QED
        BY <1>4, <3>1, <4>1, <4>2
    <3> QED
      BY <3>2, <3>3
  <2> QED
    BY <2>1, <2>2
<1>8. Lists(t, U)
  BY <1>3, <1>6, <1>7 DEF Lists
<1> QED
  BY <1>2, <1>4, <1>8 DEF t

\* finalize_asset_update(): an active asset ends up at the position it asked for.
LEMMA SplicedIn ==
  ASSUME NEW S, NEW ids, Lists(ids, S), NEW row, row.order \in Int, IsActive(row)
  PROVE  LET v == Spliced(ids, row)
             n == Cardinality(S \union {row.id}) IN
         /\ Lists(v, S \union {row.id})
         /\ \E k \in DOMAIN v : v[k] = row.id /\ k - 1 = Position(n, row.order)
<1> DEFINE v == Spliced(ids, row)
           id == row.id
           others == RemoveFirst(ids, id)
           m == Len(others)
           p == IF row.order < 0 THEN IF m + row.order < 0 THEN 0 ELSE m + row.order
                ELSE IF row.order > m THEN m ELSE row.order
<1>1. Lists(others, S \ {id})
  BY FirstRemoved
<1>2. m \in Nat
  BY <1>1, ListLength
<1>3. v = InsertAt(others, p + 1, id)
  BY DEF Spliced
<1> HIDE DEF others, v, m
<1>4. p \in 0..m
  BY <1>2
<1>5. Lists(v, (S \ {id}) \union {id}) /\ p + 1 \in DOMAIN v /\ v[p + 1] = id
  <2> HIDE DEF p
  <2> DEFINE k == p + 1
  <2>1. k \in 1..(Len(others) + 1)
    BY <1>2, <1>4 DEF m
  <2>2. id \notin S \ {id}
    OBVIOUS
  <2> DEFINE U == S \ {id}
             t == InsertAt(others, k, id)
  <2>3. Lists(others, U) /\ id \notin U
    BY <1>1, <2>2
  <2> HIDE DEF U, k
  <2>4. Lists(t, U \union {id}) /\ k \in DOMAIN t /\ t[k] = id
    BY <2>1, <2>3, Placed
  <2> QED
    BY <1>3, <2>4 DEF U, k
<1>6. (S \ {id}) \union {id} = S \union {id}
  OBVIOUS
<1>7. Len(v) = m + 1
  <2>1. Len(v) = Len(others) + 1
    <3>0. others \in Seq(S \ {id}) /\ Len(others) \in Nat
      BY <1>1 DEF Lists
    <3>1. others \in Seq(S \union {id}) /\ id \in S \union {id} /\ p + 1 \in 1..(Len(others) + 1)
      <4>1. \A i \in 1..Len(others) : others[i] \in S \ {id}
        BY <3>0
      <4>2. others \in Seq(S \union {id})
        BY <3>0, <4>1
      <4> HIDE DEF p
      <4>3. p + 1 \in 1..(Len(others) + 1)
        BY <1>4, <3>0 DEF m
      <4> QED
        BY <4>2, <4>3
    <3> HIDE DEF p
    <3> QED
      BY <1>3, <3>1, Inserted
  <2> QED
    BY <2>1 DEF m
<1>8. Cardinality(S \union {id}) = m + 1
  BY <1>5, <1>6, <1>7, ListLength
<1>9. p = Position(m + 1, row.order)
  BY <1>2 DEF Position
<1>10. (p + 1) - 1 = p
  BY <1>2
<1> HIDE DEF p
<1> QED
  BY <1>5, <1>6, <1>8, <1>9, <1>10 DEF v

\* The order of the steps in the programs
Creating == {"create", "createUpload", "createV12", "createV1", "createForm", "createApp"}
Loading == {"update", "updateV12", "updateV1", "form"}

\* What comes after a step of a request that numbers the active assets
Sequel(step) ==
  CASE step = "rename" -> {"list"}
    [] step = "load" -> {"write"}
    [] step = "write" -> {"list"}
    [] step = "list" -> {"insert", "refresh"}
    [] step = "insert" -> {"refresh", "splice"}
    [] step \in {"refresh", "splice"} -> {"save"}
    [] step = "save" -> {"exists"}
    [] OTHER -> {"publish"}

SplicingSteps == {"rename", "load", "write", "list", "insert", "refresh", "splice", "save",
                  "exists", "publish"}

ProgramOK(p, kind) ==
  /\ 1 \in DOMAIN p
  /\ \A i, j \in DOMAIN p : p[i] = "insert" /\ p[j] = "insert" => i = j
  /\ \A i \in DOMAIN p : p[i] = "insert" => kind \in Creating
  /\ \A i \in DOMAIN p : p[i] = "exists" => kind \in Splicing \union {"updateV1"}
  /\ \A i \in DOMAIN p : p[i] \in {"select", "unlink", "delete"} => kind = "delete"
  /\ kind \in Loading => p[1] = "load"
  /\ kind \in Splicing =>
       /\ p[1] \in {"rename", "list", "load"}
       /\ \A i \in DOMAIN p : /\ p[i] \in SplicingSteps
                              /\ i + 1 \in DOMAIN p => p[i + 1] \in Sequel(p[i])

LEMMA ProgramSteps ==
  ASSUME NEW kind \in Kinds
  PROVE  ProgramOK(Program(kind), kind)
<1> DEFINE p == Program(kind)
<1> USE DEF ProgramOK, Creating, Loading, Splicing, Sequel, SplicingSteps
<1>1. CASE kind = "create"
  <2>1. p = CreateV2
    BY <1>1 DEF Program
  <2>2. /\ DOMAIN p = 1..5
        /\ p[1] = "list" /\ p[2] = "insert" /\ p[3] = "refresh" /\ p[4] = "save" /\ p[5] = "exists"
    BY <2>1 DEF CreateV2
  <2> HIDE DEF p
  <2>3. ProgramOK(p, kind)
    BY <1>1, <2>2
  <2> QED
    BY <2>3 DEF p
<1>2. CASE kind = "createV12"
  <2>1. p = CreateV12
    BY <1>2 DEF Program
  <2>2. /\ DOMAIN p = 1..5
        /\ p[1] = "list" /\ p[2] = "insert" /\ p[3] = "splice" /\ p[4] = "save" /\ p[5] = "exists"
    BY <2>1 DEF CreateV12
  <2> HIDE DEF p
  <2>3. ProgramOK(p, kind)
    BY <1>2, <2>2
  <2> QED
    BY <2>3 DEF p
<1>3. CASE kind = "createV1"
  <2>1. p = CreateV1
    BY <1>3 DEF Program
  <2>2. /\ DOMAIN p = 1..1
        /\ p[1] = "insert"
    BY <2>1 DEF CreateV1
  <2> HIDE DEF p
  <2>3. ProgramOK(p, kind)
    BY <1>3, <2>2
  <2> QED
    BY <2>3 DEF p
<1>4. CASE kind = "createForm"
  <2>1. p = CreateForm
    BY <1>4 DEF Program
  <2>2. /\ DOMAIN p = 1..2
        /\ p[1] = "count" /\ p[2] = "insert"
    BY <2>1 DEF CreateForm
  <2> HIDE DEF p
  <2>3. ProgramOK(p, kind)
    BY <1>4, <2>2
  <2> QED
    BY <2>3 DEF p
<1>5. CASE kind = "createApp"
  <2>1. p = CreateForm
    BY <1>5 DEF Program, CreateApp
  <2>2. /\ DOMAIN p = 1..2
        /\ p[1] = "count" /\ p[2] = "insert"
    BY <2>1 DEF CreateForm
  <2> HIDE DEF p
  <2>3. ProgramOK(p, kind)
    BY <1>5, <2>2
  <2> QED
    BY <2>3 DEF p
<1>6. CASE kind = "update"
  <2>1. p = UpdateV2
    BY <1>6 DEF Program
  <2>2. /\ DOMAIN p = 1..7
        /\ p[1] = "load" /\ p[2] = "write" /\ p[3] = "list" /\ p[4] = "refresh" /\ p[5] = "save" /\ p[6] = "exists" /\ p[7] = "publish"
    BY <2>1 DEF UpdateV2
  <2> HIDE DEF p
  <2>3. ProgramOK(p, kind)
    BY <1>6, <2>2
  <2> QED
    BY <2>3 DEF p
<1>7. CASE kind = "updateV12"
  <2>1. p = UpdateV2
    BY <1>7 DEF Program, UpdateV12
  <2>2. /\ DOMAIN p = 1..7
        /\ p[1] = "load" /\ p[2] = "write" /\ p[3] = "list" /\ p[4] = "refresh" /\ p[5] = "save" /\ p[6] = "exists" /\ p[7] = "publish"
    BY <2>1 DEF UpdateV2
  <2> HIDE DEF p
  <2>3. ProgramOK(p, kind)
    BY <1>7, <2>2
  <2> QED
    BY <2>3 DEF p
<1>8. CASE kind = "updateV1"
  <2>1. p = UpdateV1
    BY <1>8 DEF Program
  <2>2. /\ DOMAIN p = 1..4
        /\ p[1] = "load" /\ p[2] = "write" /\ p[3] = "exists" /\ p[4] = "publish"
    BY <2>1 DEF UpdateV1
  <2> HIDE DEF p
  <2>3. ProgramOK(p, kind)
    BY <1>8, <2>2
  <2> QED
    BY <2>3 DEF p
<1>9. CASE kind = "form"
  <2>1. p = EditForm
    BY <1>9 DEF Program
  <2>2. /\ DOMAIN p = 1..3
        /\ p[1] = "load" /\ p[2] = "write" /\ p[3] = "publish"
    BY <2>1 DEF EditForm
  <2> HIDE DEF p
  <2>3. ProgramOK(p, kind)
    BY <1>9, <2>2
  <2> QED
    BY <2>3 DEF p
<1>10. CASE kind = "order"
  <2>1. p = OrderForm
    BY <1>10 DEF Program
  <2>2. /\ DOMAIN p = 1..2
        /\ p[1] = "save" /\ p[2] = "publish"
    BY <2>1 DEF OrderForm
  <2> HIDE DEF p
  <2>3. ProgramOK(p, kind)
    BY <1>10, <2>2
  <2> QED
    BY <2>3 DEF p
<1>11. CASE kind = "orderApi"
  <2>1. p = OrderApi
    BY <1>11 DEF Program
  <2>2. /\ DOMAIN p = 1..1
        /\ p[1] = "save"
    BY <2>1 DEF OrderApi
  <2> HIDE DEF p
  <2>3. ProgramOK(p, kind)
    BY <1>11, <2>2
  <2> QED
    BY <2>3 DEF p
<1>12. CASE kind = "bulk"
  <2>1. p = BulkFlag
    BY <1>12 DEF Program
  <2>2. /\ DOMAIN p = 1..2
        /\ p[1] = "flag" /\ p[2] = "publish"
    BY <2>1 DEF BulkFlag
  <2> HIDE DEF p
  <2>3. ProgramOK(p, kind)
    BY <1>12, <2>2
  <2> QED
    BY <2>3 DEF p
<1>13. CASE kind = "bulkUpdate"
  <2>1. p = BulkUpdate
    BY <1>13 DEF Program
  <2>2. /\ DOMAIN p = 1..2
        /\ p[1] = "dates" /\ p[2] = "publish"
    BY <2>1 DEF BulkUpdate
  <2> HIDE DEF p
  <2>3. ProgramOK(p, kind)
    BY <1>13, <2>2
  <2> QED
    BY <2>3 DEF p
<1>14. CASE kind = "delete"
  <2>1. p = BulkDelete
    BY <1>14 DEF Program
  <2>2. /\ DOMAIN p = 1..4
        /\ p[1] = "select" /\ p[2] = "unlink" /\ p[3] = "delete" /\ p[4] = "publish"
    BY <2>1 DEF BulkDelete
  <2> HIDE DEF p
  <2>3. ProgramOK(p, kind)
    BY <1>14, <2>2
  <2> QED
    BY <2>3 DEF p
<1>15. CASE kind = "createUpload"
  <2> DEFINE q == <<"rename">> \o CreateV2
  <2>1. p = q
    BY <1>15 DEF Program
  <2>2. CreateV2 \in Seq(Steps) /\ "rename" \in Steps
    BY DEF CreateV2, Steps
  <2>3. /\ q \in Seq(Steps) /\ Len(q) = Len(CreateV2) + 1 /\ q[1] = "rename"
        /\ \A i \in 1..Len(CreateV2) : q[i + 1] = CreateV2[i]
    BY <2>2, Pushed
  <2>4. /\ Len(CreateV2) = 5 /\ CreateV2[1] = "list" /\ CreateV2[2] = "insert"
        /\ CreateV2[3] = "refresh" /\ CreateV2[4] = "save" /\ CreateV2[5] = "exists"
    BY DEF CreateV2
  <2> HIDE DEF q
  <2>5. /\ DOMAIN q = 1..6 /\ q[1] = "rename" /\ q[1 + 1] = "list" /\ q[2 + 1] = "insert"
        /\ q[3 + 1] = "refresh" /\ q[4 + 1] = "save" /\ q[5 + 1] = "exists"
    BY <2>3, <2>4
  <2>6. /\ DOMAIN p = 1..6 /\ p[1] = "rename" /\ p[2] = "list" /\ p[3] = "insert"
        /\ p[4] = "refresh" /\ p[5] = "save" /\ p[6] = "exists"
    BY <2>1, <2>5
  <2> HIDE DEF p
  <2>7. ProgramOK(p, kind)
    BY <1>15, <2>6
  <2> QED
    BY <2>7 DEF p
<1> QED
  BY <1>1, <1>2, <1>3, <1>4, <1>5, <1>6, <1>7, <1>8, <1>9, <1>10, <1>11, <1>12, <1>13, <1>14, <1>15, KindAssumption

\* A request that goes on with its next step, as itself
Same(q, p) == p.kind = q.kind /\ p.row.id = q.row.id /\ p.alone = q.alone
GoesOn(q, p) == Tail(q.rest) # <<>> /\ p.rest = Tail(q.rest) /\ Same(q, p)

LEMMA OnwardIs ==
  ASSUME TableInv, NEW r \in Threads, NEW n, RequestOK(n), Onward(r, n)
  PROVE  /\ \A x \in Threads \ {r} : request'[x] = request[x]
         /\ \/ request'[r] = Waiting
            \/ /\ Tail(n.rest) # <<>> /\ request'[r].rest = Tail(n.rest)
               /\ request'[r].kind = n.kind /\ request'[r].row = n.row
               /\ request'[r].ids = n.ids /\ request'[r].next = n.next
               /\ request'[r].alone = n.alone
<1>1. /\ DOMAIN request = Threads
      /\ {"kind", "rest", "row", "ids", "next", "doomed", "alone"} \subseteq DOMAIN n
  BY DEF TableInv, RequestOK, RequestIn
<1>2. request' = [request EXCEPT ![r] =
                    IF Tail(n.rest) = <<>> THEN Waiting ELSE [n EXCEPT !.rest = Tail(@)]]
  BY DEF Onward
<1>3. CASE Tail(n.rest) = <<>>
  BY <1>1, <1>2, <1>3
<1>4. CASE Tail(n.rest) # <<>>
  <2>1. request' = [request EXCEPT ![r] = [n EXCEPT !.rest = Tail(n.rest)]]
    BY <1>2, <1>4
  <2> QED
    BY <1>1, <1>4, <2>1
<1> QED
  BY <1>3, <1>4

LEMMA FailIs ==
  ASSUME TableInv, NEW r \in Threads, Fail(r)
  PROVE  request'[r] = Waiting /\ \A x \in Threads \ {r} : request'[x] = request[x]
BY DEF TableInv, Fail

\* Requests follow their programs.
LEMMA CourseNow ==
  ASSUME NEW q, q.rest \in Seq(Steps), Course(q), q.rest # <<>>
  PROVE  /\ q.kind # "delete" => Head(q.rest) \notin {"select", "unlink", "delete"}
         /\ q.kind \in Splicing => Head(q.rest) \in SplicingSteps
         /\ Head(q.rest) = "exists" => q.kind \in Splicing \union {"updateV1"}
<1>1. CASE q.kind = "delete"
  <2>1. 1 \in DOMAIN q.rest /\ Head(q.rest) = q.rest[1]
    OBVIOUS
  <2>2. Head(q.rest) # "exists"
    BY <1>1, <2>1 DEF Course
  <2> QED
    BY <1>1, <2>2 DEF Splicing
<1>2. CASE q.kind # "delete"
  <2> DEFINE p == Program(q.kind)
  <2>1. PICK k \in DOMAIN p : q.rest = SubSeq(p, k, Len(p))
    BY <1>2 DEF Course
  <2>2. p \in Seq(Steps) /\ ProgramOK(p, q.kind)
    BY <1>2, Programs, ProgramSteps DEF Course
  <2> HIDE DEF p
  <2>3. Head(q.rest) = p[k]
    BY <2>1, <2>2, Ends
  <2> QED
    BY <1>2, <2>2, <2>3 DEF ProgramOK
<1> QED
  BY <1>1, <1>2

LEMMA CourseOn ==
  ASSUME NEW q, q.rest \in Seq(Steps), Course(q), q.rest # <<>>, NEW p, GoesOn(q, p)
  PROVE  /\ Course(p)
         /\ Unborn(p) => Unborn(q) /\ Head(q.rest) # "insert"
         /\ q.kind \in Splicing => Head(p.rest) \in Sequel(Head(q.rest))
<1>1. /\ p.rest = Tail(q.rest) /\ p.kind = q.kind /\ p.rest # <<>> /\ p.rest \in Seq(Steps)
      /\ \A i \in DOMAIN p.rest : i + 1 \in DOMAIN q.rest /\ p.rest[i] = q.rest[i + 1]
  <2>1. p.rest = Tail(q.rest) /\ p.kind = q.kind /\ p.rest # <<>>
    BY DEF GoesOn, Same
  <2> DEFINE a == q.rest
             b == p.rest
  <2>2. a \in Seq(Steps) /\ a # <<>> /\ b = Tail(a)
    BY <2>1
  <2> HIDE DEF a, b
  <2>3. b \in Seq(Steps) /\ \A i \in DOMAIN b : i + 1 \in DOMAIN a /\ b[i] = a[i + 1]
    BY <2>2
  <2> QED
    BY <2>1, <2>3 DEF a, b
<1>2. Unborn(p) => Unborn(q)
  BY <1>1 DEF Unborn
<1>3. CASE q.kind = "delete"
  <2>1. \A i \in DOMAIN q.rest : q.rest[i] \notin {"insert", "exists"}
    BY <1>3 DEF Course
  <2>2. \A i \in DOMAIN p.rest : p.rest[i] \notin {"insert", "exists"}
    BY <1>1, <2>1
  <2> QED
    BY <1>1, <1>3, <2>2 DEF Course, Unborn, Splicing
<1>4. CASE q.kind # "delete"
  <2> DEFINE g == Program(q.kind)
  <2>1. PICK k \in DOMAIN g : q.rest = SubSeq(g, k, Len(g))
    BY <1>4 DEF Course
  <2>2. g \in Seq(Steps) /\ ProgramOK(g, q.kind)
    BY <1>4, Programs, ProgramSteps DEF Course
  <2>3. Course(p) <=> \E m \in DOMAIN g : p.rest = SubSeq(g, m, Len(g))
    BY <1>1, <1>4 DEF Course
  <2> HIDE DEF g
  <2>4. Head(q.rest) = g[k] /\ (k = Len(g) => Tail(q.rest) = <<>>)
        /\ (k # Len(g) => k + 1 \in DOMAIN g /\ Tail(q.rest) = SubSeq(g, k + 1, Len(g)))
    <3> DEFINE s == SubSeq(g, k, Len(g))
    <3>1. /\ Head(s) = g[k] /\ (k = Len(g) => Tail(s) = <<>>)
          /\ k # Len(g) => k + 1 \in DOMAIN g /\ Tail(s) = SubSeq(g, k + 1, Len(g))
      BY <2>2, Ends
    <3>2. q.rest = s
      BY <2>1
    <3> HIDE DEF s
    <3> QED
      BY <3>1, <3>2
  <2>5. k + 1 \in DOMAIN g /\ p.rest = SubSeq(g, k + 1, Len(g))
    BY <1>1, <2>4
  <2>6. /\ Head(p.rest) = g[k + 1]
        /\ \A i \in DOMAIN p.rest : (k + 1) + i - 1 \in DOMAIN g /\ p.rest[i] = g[(k + 1) + i - 1]
    <3> DEFINE s == SubSeq(g, k + 1, Len(g))
    <3>1. /\ Head(s) = g[k + 1]
          /\ \A i \in DOMAIN s : (k + 1) + i - 1 \in DOMAIN g /\ s[i] = g[(k + 1) + i - 1]
      BY <2>2, <2>5, Ends
    <3>2. p.rest = s
      BY <2>5
    <3> HIDE DEF s
    <3> QED
      BY <3>1, <3>2
  <2>7. Unborn(p) => Head(q.rest) # "insert"
    <3> SUFFICES ASSUME NEW i \in DOMAIN p.rest, p.rest[i] = "insert", g[k] = "insert"
                 PROVE  FALSE
      BY <2>4 DEF Unborn
    <3>1. (k + 1) + i - 1 = k
      BY <2>2, <2>6 DEF ProgramOK
    <3>2. k \in Nat /\ i \in Nat \ {0}
      BY <1>1, <2>2
    <3> QED
      BY <3>1, <3>2
  <2>8. q.kind \in Splicing => Head(p.rest) \in Sequel(Head(q.rest))
    BY <2>2, <2>4, <2>5, <2>6 DEF ProgramOK
  <2> QED
    BY <1>2, <2>3, <2>5, <2>7, <2>8
<1> QED
  BY <1>3, <1>4

\* What a step of a request does to the requests
Proceeds(r) ==
  LET q == request[r]  p == request'[r] IN
  /\ q.rest # <<>>
  /\ \A x \in Threads \ {r} :
       /\ request'[x].rest = request[x].rest /\ Same(request[x], request'[x])
       /\ request[x] = Waiting => request'[x] = Waiting
  /\ \/ p = Waiting
     \/ GoesOn(q, p) /\ (Head(q.rest) = "load" => Present(q.row.id))
     \/ p.rest = q.rest /\ Same(q, p) /\ Head(q.rest) = "save"
     \/ p.rest = <<"unlink">> \o q.rest /\ Same(q, p) /\ Head(q.rest) = "delete"

LEMMA OnwardProceeds ==
  ASSUME TableInv, NEW r \in Threads, request[r].rest # <<>>,
         \/ Fail(r)
         \/ \E n : /\ RequestOK(n) /\ n.rest = request[r].rest /\ Same(request[r], n)
                   /\ Head(n.rest) = "load" => Present(n.row.id)
                   /\ Onward(r, n)
  PROVE  Proceeds(r)
<1>1. CASE Fail(r)
  BY <1>1, FailIs DEF Proceeds, Same
<1>2. ASSUME NEW n, RequestOK(n), n.rest = request[r].rest, Same(request[r], n),
             Head(n.rest) = "load" => Present(n.row.id), Onward(r, n)
      PROVE  Proceeds(r)
  <2>1. /\ \A x \in Threads \ {r} : request'[x] = request[x]
        /\ \/ request'[r] = Waiting
           \/ /\ Tail(n.rest) # <<>> /\ request'[r].rest = Tail(n.rest)
              /\ request'[r].kind = n.kind /\ request'[r].row = n.row
              /\ request'[r].alone = n.alone
    BY <1>2, OnwardIs
  <2> QED
    BY <1>2, <2>1 DEF Proceeds, GoesOn, Same
<1> QED
  BY <1>1, <1>2

\* A request with other fields than those that it goes by
LEMMA OtherFields ==
  ASSUME NEW q, RequestOK(q), NEW row \in SoundRow, row.id = q.row.id, NEW v
  PROVE  /\ RequestOK([q EXCEPT !.row = row]) /\ Same(q, [q EXCEPT !.row = row])
         /\ RequestOK([q EXCEPT !.ids = v]) /\ Same(q, [q EXCEPT !.ids = v])
         /\ RequestOK([q EXCEPT !.doomed = v]) /\ Same(q, [q EXCEPT !.doomed = v])
         /\ RequestOK([q EXCEPT !.row = row, !.ids = v])
         /\ Same(q, [q EXCEPT !.row = row, !.ids = v])
BY DEF RequestOK, RequestIn, Same

LEMMA StepProceeds ==
  ASSUME WholeInv, NEW r \in Threads,
         Rename(r) \/ Refuse(r) \/ List(r) \/ Count(r) \/ Insert(r) \/ Load(r)
         \/ WriteRow(r) \/ Refresh(r) \/ Splice(r) \/ Save(r) \/ Exists(r) \/ Flag(r)
         \/ Dates(r) \/ Select(r) \/ Unlink(r) \/ Delete(r) \/ Publish(r)
  PROVE  Proceeds(r)
<1> DEFINE q == request[r]
<1>1. /\ TableInv /\ RequestOK(q) /\ q.row \in SoundRow /\ q.rest # <<>> /\ q.rest \in Seq(Steps)
      /\ DOMAIN request = Threads /\ \A x \in Threads : RequestOK(request[x])
      /\ {"kind", "rest", "row", "ids", "next", "doomed", "alone"} \subseteq DOMAIN q
  BY DEF WholeInv, TableInv, RequestOK, RequestIn, Rename, Refuse, List, Count, Insert, Load,
         WriteRow, Refresh, Splice, Save, Exists, Flag, Dates, Select, Unlink, Delete, Publish,
         Due
<1>2. Same(q, q)
  BY DEF Same
<1>3. ASSUME Fail(r) \/ Onward(r, q), Head(q.rest) # "load"
      PROVE  Proceeds(r)
  BY <1>1, <1>2, <1>3, OnwardProceeds
<1>4. ASSUME NEW n, RequestOK(n), n.rest = q.rest, Same(q, n), Onward(r, n),
             Head(q.rest) = "load" => Present(n.row.id)
      PROVE  Proceeds(r)
  BY <1>1, <1>4, OnwardProceeds
<1>5. CASE Refuse(r) \/ Insert(r) \/ WriteRow(r) \/ Exists(r) \/ Flag(r) \/ Dates(r) \/ Publish(r)
  BY <1>3, <1>5 DEF Refuse, Insert, WriteRow, Exists, Flag, Dates, Publish, Due
<1>6. CASE Rename(r)
  <2>1. PICK s \in Sessions :
          \/ Fail(r)
          \/ /\ staged[s] # 0
             /\ Onward(r, [q EXCEPT !.row.inode = staged[s],
                       !.row.of = IF wiped[s] THEN NoFile ELSE client[s].file])
    BY <1>6 DEF Rename
  <2>2. Head(q.rest) # "load"
    BY <1>6 DEF Rename, Due
  <2>3. \A x \in Threads \ {r} : request'[x] = request[x]
    BY <1>1, <2>1 DEF Fail, Onward
  <2>4. CASE Fail(r)
    BY <1>3, <2>2, <2>4
  <2>5. CASE ~Fail(r)
    <3> DEFINE w == IF wiped[s] THEN NoFile ELSE client[s].file
               n == [q EXCEPT !.row.inode = staged[s], !.row.of = w]
    <3>1. request' = [request EXCEPT ![r] =
                        IF Tail(n.rest) = <<>> THEN Waiting ELSE [n EXCEPT !.rest = Tail(@)]]
      BY <2>1, <2>5 DEF Onward
    <3>2. n.rest = q.rest /\ n.kind = q.kind /\ n.alone = q.alone /\ n.row.id = q.row.id
          /\ "rest" \in DOMAIN n
      <4> HIDE DEF w
      <4>1. q.row.id = [[q.row EXCEPT !.inode = staged[s]] EXCEPT !.of = w].id
        BY <1>1 DEF SoundRow
      <4> QED
        BY <1>1, <4>1
    <3> HIDE DEF n
    <3>3. request'[r] = Waiting \/ GoesOn(q, request'[r])
      BY <1>1, <3>1, <3>2 DEF GoesOn, Same
    <3> QED
      BY <1>1, <2>2, <2>3, <3>3 DEF Proceeds, Same
  <2> QED
    BY <2>4, <2>5
<1>7. CASE List(r)
  <2> PICK ids \in SetToSeqs(ActiveSet) : Onward(r, [q EXCEPT !.ids = ids])
    BY <1>7 DEF List
  <2>1. Head(q.rest) # "load" /\ [q EXCEPT !.ids = ids].rest = q.rest
    BY <1>1, <1>7 DEF List, Due
  <2> QED
    BY <1>1, <1>4, <2>1, OtherFields
<1>8. CASE Count(r)
  <2> DEFINE c == Cardinality({i \in DOMAIN table : table[i].enabled})
  <2>1. c \in Int
    <3>1. {i \in DOMAIN table : table[i].enabled} \subseteq 1..Len(table)
          /\ Len(table) \in Nat
      BY <1>1 DEF TableInv
    <3> QED
      BY <3>1, FS_Interval, FS_Subset, FS_CardinalityType
  <2>2. Onward(r, [q EXCEPT !.row.order = c]) /\ Head(q.rest) # "load"
    BY <1>8 DEF Count, Due
  <2> HIDE DEF c
  <2>3. [q.row EXCEPT !.order = c] \in SoundRow /\ [q.row EXCEPT !.order = c].id = q.row.id
    BY <1>1, <2>1, SoundRows DEF SoundRow
  <2>4. [q EXCEPT !.row.order = c] = [q EXCEPT !.row = [q.row EXCEPT !.order = c]]
    OBVIOUS
  <2>5. [q EXCEPT !.row = [q.row EXCEPT !.order = c]].rest = q.rest
    BY <1>1
  <2> QED
    BY <1>1, <1>4, <2>2, <2>3, <2>4, <2>5, OtherFields
<1>9. CASE Load(r)
  <2> DEFINE old == table[At(q.row.id)]
             on == q.row.enabled
             at == IF q.kind = "form" THEN old.order ELSE q.row.order
             row == [old EXCEPT !.enabled = on, !.order = at]
  <2>1. CASE ~Present(q.row.id)
    BY <1>1, <1>9, <2>1, OnwardProceeds DEF Load
  <2>2. CASE Present(q.row.id)
    <3>1. Onward(r, [q EXCEPT !.row = row])
      BY <1>9, <2>2 DEF Load
    <3>2. old \in SoundRow /\ old.id = q.row.id
      BY <1>1, <2>2, TableRows
    <3>3. on \in BOOLEAN /\ at \in Int
      BY <1>1, <3>2, SoundRows DEF SoundRow
    <3> HIDE DEF old, on, at
    <3>4. row \in SoundRow /\ row.id = q.row.id
      BY <3>2, <3>3 DEF SoundRow, RowOK
    <3> HIDE DEF row
    <3>5. [q EXCEPT !.row = row].rest = q.rest /\ [q EXCEPT !.row = row].row = row
      BY <1>1
    <3> QED
      BY <1>1, <1>4, <2>2, <3>1, <3>4, <3>5, OtherFields
  <2> QED
    BY <2>1, <2>2
<1>10. CASE Refresh(r)
  <2> DEFINE old == table[At(q.row.id)]
             v == Spliced(q.ids, old)
  <2>1. Head(q.rest) # "load"
    BY <1>10 DEF Refresh, Due
  <2>2. CASE ~Present(q.row.id)
    BY <1>3, <1>10, <2>1, <2>2 DEF Refresh
  <2>3. CASE Present(q.row.id)
    <3>1. Onward(r, [q EXCEPT !.row = old, !.ids = Spliced(@, old)])
      BY <1>10, <2>3 DEF Refresh
    <3>2. old \in SoundRow /\ old.id = q.row.id
      BY <1>1, <2>3, TableRows
    <3>3. [q EXCEPT !.row = old, !.ids = Spliced(@, old)] = [q EXCEPT !.row = old, !.ids = v]
      OBVIOUS
    <3> HIDE DEF old, v
    <3>4. [q EXCEPT !.row = old, !.ids = v].rest = q.rest
      BY <1>1
    <3> QED
      BY <1>1, <1>4, <2>1, <3>1, <3>2, <3>3, <3>4, OtherFields
  <2> QED
    BY <2>2, <2>3
<1>11. CASE Splice(r)
  <2> DEFINE v == Spliced(q.ids, q.row)
  <2>1. Onward(r, [q EXCEPT !.ids = v]) /\ Head(q.rest) # "load"
    BY <1>11 DEF Splice, Due
  <2> HIDE DEF v
  <2>2. [q EXCEPT !.ids = v].rest = q.rest
    BY <1>1
  <2> QED
    BY <1>1, <1>4, <2>1, <2>2, OtherFields
<1>12. CASE Save(r)
  <2>1. Head(q.rest) = "save" /\ Head(q.rest) # "load"
    BY <1>12 DEF Save, Due
  <2>2. CASE q.ids = <<>>
    BY <1>3, <1>12, <2>1, <2>2 DEF Save
  <2>3. CASE q.ids # <<>>
    <3>1. request' = [request EXCEPT ![r].ids = Tail(@), ![r].next = @ + 1]
      BY <1>12, <2>3 DEF Save
    <3>2. /\ \A x \in Threads \ {r} : request'[x] = request[x]
          /\ request'[r].rest = q.rest /\ Same(q, request'[r])
      BY <1>1, <3>1 DEF Same
    <3> QED
      BY <1>1, <2>1, <3>2 DEF Proceeds, Same
  <2> QED
    BY <2>2, <2>3
<1>13. CASE Select(r)
  <2>1. Head(q.rest) # "load"
    BY <1>13 DEF Select, Due
  <2>2. Fail(r) \/ \E doomed : Onward(r, [q EXCEPT !.doomed = doomed])
    BY <1>13 DEF Select
  <2>3. \A doomed : [q EXCEPT !.doomed = doomed].rest = q.rest
    BY <1>1
  <2> QED
    BY <1>1, <1>3, <1>4, <2>1, <2>2, <2>3, OtherFields
<1>14. CASE Unlink(r)
  <2> DEFINE k == Head(q.doomed).inode
  <2>1. request' = [x \in Threads |->
             IF x = r THEN [q EXCEPT !.rest = Tail(@)]
             ELSE [request[x] EXCEPT !.row = Without(k, @)]]
    BY <1>14 DEF Unlink
  <2> HIDE DEF k
  <2>2. ASSUME NEW x \in Threads \ {r}
        PROVE  /\ request'[x].rest = request[x].rest /\ Same(request[x], request'[x])
               /\ request[x] = Waiting => request'[x] = Waiting
    <3>1. request'[x] = [request[x] EXCEPT !.row = Without(k, request[x].row)]
      BY <2>1
    <3>2. {"kind", "rest", "row", "alone"} \subseteq DOMAIN request[x] /\ request[x].row \in SoundRow
      BY <1>1 DEF RequestOK, RequestIn
    <3>3. Without(k, request[x].row).id = request[x].row.id
      BY <3>2 DEF Without, SoundRow
    <3>4. request[x] = Waiting => Without(k, request[x].row) = request[x].row
      BY DEF Without, Waiting, Blank
    <3>5. request[x] = Waiting => request'[x] = Waiting
      BY <3>1, <3>4 DEF Waiting
    <3> QED
      BY <3>1, <3>2, <3>3, <3>5 DEF Same
  <2>3. Tail(q.rest) # <<>>
    <3>1. Head(q.rest) = "unlink" /\ Orderly(q.rest)
      BY <1>1, <1>14 DEF Unlink, Due, RequestOK, RequestIn
    <3>2. q.rest[1] = "unlink" /\ 1 \in DOMAIN q.rest
      BY <1>1, <3>1
    <3>3. q.rest[Len(q.rest)] = "publish"
      BY <3>1, <3>2 DEF Orderly, Telling
    <3>4. Len(q.rest) # 1
      BY <3>2, <3>3
    <3>5. Len(Tail(q.rest)) = Len(q.rest) - 1 /\ Len(q.rest) \in Nat
      BY <1>1, HeadTailProperties
    <3>6. Len(Tail(q.rest)) # 0
      BY <3>4, <3>5
    <3>7. Len(<<>>) = 0
      OBVIOUS
    <3> QED
      BY <3>6, <3>7
  <2>4. GoesOn(q, request'[r])
    BY <1>1, <2>1, <2>3 DEF GoesOn, Same
  <2>5. Head(q.rest) # "load"
    BY <1>14 DEF Unlink, Due
  <2> QED
    BY <1>1, <2>2, <2>4, <2>5 DEF Proceeds
<1>15. CASE Delete(r)
  <2>1. Head(q.rest) = "delete" /\ Head(q.rest) # "load"
    BY <1>15 DEF Delete, Due
  <2>2. CASE Len(q.doomed) = 1
    <3>1. Onward(r, [q EXCEPT !.doomed = <<>>])
      BY <1>15, <2>2 DEF Delete
    <3>2. [q EXCEPT !.doomed = <<>>].rest = q.rest
      BY <1>1
    <3> QED
      BY <1>1, <1>4, <2>1, <3>1, <3>2, OtherFields
  <2>3. CASE Len(q.doomed) # 1
    <3>1. request' = [request EXCEPT ![r].doomed = Tail(@), ![r].rest = <<"unlink">> \o @]
      BY <1>15, <2>3 DEF Delete
    <3>2. /\ \A x \in Threads \ {r} : request'[x] = request[x]
          /\ request'[r].rest = <<"unlink">> \o q.rest /\ Same(q, request'[r])
      BY <1>1, <3>1 DEF Same
    <3> QED
      BY <1>1, <2>1, <3>2 DEF Proceeds, Same
  <2> QED
    BY <2>2, <2>3
<1> QED
  BY <1>5, <1>6, <1>7, <1>8, <1>9, <1>10, <1>11, <1>12, <1>13, <1>14, <1>15

\* The ids that a step adds to the table are those of the row that it writes.
IdsFrom(r) ==
  \A id : Present(id)' =>
    Present(id) \/ (id = request[r].row.id /\ Head(request[r].rest) \in {"insert", "write"})

LEMMA CourseSame ==
  ASSUME NEW q, NEW p, p.kind = q.kind, p.rest = q.rest, Course(q)
  PROVE  Course(p) /\ (Unborn(p) => Unborn(q))
BY DEF Course, Unborn

\* A request that goes on keeps to its program, its id stays reserved, and who was
\* alone still is.
LEMMA Proceeding ==
  ASSUME WholeInv, PlaceInv, NEW r \in Threads, Proceeds(r), IdsFrom(r)
  PROVE  \A x \in Threads : Course(request[x])' /\ Reserved(x)' /\ SoleRequest(x)'
<1> DEFINE q == request[r]
           p == request'[r]
<1>1. /\ RequestOK(q) /\ q.rest \in Seq(Steps) /\ q.rest # <<>> /\ Orderly(q.rest)
      /\ \A x \in Threads : Course(request[x]) /\ Reserved(x) /\ SoleRequest(x)
  BY DEF WholeInv, TableInv, RequestOK, RequestIn, PlaceInv, Proceeds
<1>2. Course(Waiting) /\ ~Unborn(Waiting) /\ Waiting.alone = FALSE /\ Waiting.row.id = None
  BY DEF Course, Unborn, Waiting, Blank
<1>3. \A x \in Threads \ {r} : Course(request[x])' /\ (Unborn(request[x])' => Unborn(request[x]))
  <2> TAKE x \in Threads \ {r}
  <2>1. request'[x].kind = request[x].kind /\ request'[x].rest = request[x].rest
    BY DEF Proceeds, Same
  <2>2. Course(request'[x]) /\ (Unborn(request'[x]) => Unborn(request[x]))
    BY <1>1, <2>1, CourseSame
  <2> QED
    BY <2>2 DEF Course, Unborn
<1>4. Course(request[r])'
  <2>1. CASE p = Waiting
    BY <1>2, <2>1 DEF Course
  <2>2. CASE GoesOn(q, p)
    <3>1. Course(p)
      BY <1>1, <2>2, CourseOn
    <3> QED
      BY <3>1 DEF Course
  <2>3. CASE p.rest = q.rest /\ Same(q, p)
    BY <1>1, <2>3 DEF Course, Same
  <2>4. CASE p.rest = <<"unlink">> \o q.rest /\ Same(q, p) /\ Head(q.rest) = "delete"
    <3>1. q.kind = "delete"
      BY <1>1, <2>4, CourseNow
    <3>2. \A i \in DOMAIN p.rest : p.rest[i] \in After("delete")
      BY <1>1, <2>4, OnceMore
    <3>3. \A i \in DOMAIN p.rest : p.rest[i] \notin {"insert", "exists"}
      BY <3>2, AfterIs
    <3> QED
      BY <2>4, <3>1, <3>3 DEF Course, Same
  <2> QED
    BY <2>1, <2>2, <2>3, <2>4 DEF Proceeds
<1>5. Unborn(request[r])' => Unborn(q) /\ Head(q.rest) \notin {"insert", "write"} /\ p.row.id = q.row.id
  <2>1. CASE p = Waiting
    BY <1>2, <2>1 DEF Unborn
  <2>2. CASE GoesOn(q, p)
    <3> SUFFICES ASSUME Unborn(p) PROVE Unborn(q) /\ Head(q.rest) \notin {"insert", "write"}
      BY <2>2 DEF GoesOn, Same, Unborn
    <3>1. Unborn(q) /\ Head(q.rest) # "insert"
      BY <1>1, <2>2, CourseOn
    <3>2. Head(q.rest) # "write"
      <4> SUFFICES ASSUME Head(q.rest) = "write" PROVE FALSE
        OBVIOUS
      <4>1. 1 \in DOMAIN q.rest /\ q.rest[1] = "write"
        BY <1>1
      <4>2. \A j \in DOMAIN q.rest : j > 1 => q.rest[j] \in After("write")
        BY <1>1, <4>1 DEF Orderly, Telling
      <4>3. \A j \in DOMAIN q.rest : q.rest[j] # "insert"
        <5>1. \A j \in DOMAIN q.rest : j = 1 \/ j > 1
          BY <1>1
        <5> QED
          BY <4>1, <4>2, <5>1, AfterIs
      <4> QED
        BY <3>1, <4>3 DEF Unborn
    <3> QED
      BY <3>1, <3>2
  <2>3. CASE p.rest = q.rest /\ Same(q, p) /\ Head(q.rest) = "save"
    BY <2>3 DEF Unborn, Same
  <2>4. CASE p.rest = <<"unlink">> \o q.rest /\ Same(q, p) /\ Head(q.rest) = "delete"
    <3>1. \A i \in DOMAIN p.rest : p.rest[i] \in After("delete")
      BY <1>1, <2>4, OnceMore
    <3>2. \A i \in DOMAIN p.rest : p.rest[i] # "insert"
      BY <3>1, AfterIs
    <3> QED
      BY <3>2 DEF Unborn
  <2> QED
    BY <2>1, <2>2, <2>3, <2>4 DEF Proceeds
<1>6. ASSUME NEW x \in Threads PROVE Reserved(x)'
  <2> SUFFICES ASSUME Unborn(request[x])' PROVE Reserved(x)'
    BY DEF Reserved
  <2> PICK id : id = request[x].row.id
    OBVIOUS
  <2>1. Unborn(request[x]) /\ request'[x].row.id = id
    BY <1>3, <1>5 DEF Proceeds, Same
  <2>2. /\ id \in New /\ ~Present(id)
        /\ \A o \in Threads \ {x} : request[o].row.id = id => Due(o, "load")
    BY <1>1, <2>1 DEF Reserved
  <2>3. x # r /\ q.row.id = id => Head(q.rest) = "load"
    BY <2>2 DEF Due
  <2>4. ~Present(id)'
    BY <1>3, <1>5, <2>2, <2>3 DEF IdsFrom
  <2>5. ASSUME NEW o \in Threads \ {x}, request'[o].row.id = id PROVE Due(o, "load")'
    <3>1. CASE o # r
      BY <2>2, <2>5, <3>1 DEF Proceeds, Same, Due
    <3>2. CASE o = r
      <4>1. p # Waiting
        BY <1>2, <2>2, <2>5, <3>2, IdAssumption DEF Ids
      <4>2. q.row.id = id
        BY <2>5, <3>2, <4>1 DEF Proceeds, GoesOn, Same
      <4>3. Head(q.rest) = "load"
        BY <2>3, <2>5, <3>2, <4>2
      <4>4. Present(q.row.id)
        BY <4>1, <4>3 DEF Proceeds
      <4> QED
        BY <2>2, <4>2, <4>4
    <3> QED
      BY <3>1, <3>2
  <2> QED
    BY <2>1, <2>2, <2>4, <2>5 DEF Reserved
<1>7. ASSUME NEW x \in Threads PROVE SoleRequest(x)'
  <2> SUFFICES ASSUME request'[x].alone, NEW o \in Threads \ {x} PROVE request'[o] = Waiting
    BY DEF SoleRequest
  <2>1. request[x].alone
    <3>1. CASE x # r
      BY <3>1 DEF Proceeds, Same
    <3>2. CASE x = r
      BY <1>2, <3>2 DEF Proceeds, GoesOn, Same
    <3> QED
      BY <3>1, <3>2
  <2>2. request[o] = Waiting
    BY <1>1, <2>1 DEF SoleRequest
  <2>3. Waiting.rest = <<>>
    BY DEF Waiting
  <2>4. o # r
    BY <1>1, <2>2, <2>3
  <2> QED
    BY <2>2, <2>4 DEF Proceeds
<1> QED
  BY <1>3, <1>4, <1>6, <1>7

-----------------------------------------------------------------------------
(* The ids of the table *)

\* A table whose rows have the ids that they had
LEMMA IdsKept ==
  ASSUME UniqueIds, NEW r, DOMAIN table' = DOMAIN table,
         \A i \in DOMAIN table : table'[i].id = table[i].id
  PROVE  UniqueIds' /\ IdsFrom(r) /\ (\A id : Present(id)' <=> Present(id))
BY DEF UniqueIds, IdsFrom, Present

LEMMA IdsAppended ==
  ASSUME TableInv, UniqueIds, NEW r \in Threads, ~Present(request[r].row.id),
         request[r].row \in SoundRow,
         table' = Append(table, request[r].row), Head(request[r].rest) \in {"insert", "write"}
  PROVE  UniqueIds' /\ IdsFrom(r)
<1>1. /\ table \in Seq(SoundRow) /\ Len(table) \in Nat /\ DOMAIN table = 1..Len(table)
      /\ table' \in Seq(SoundRow) /\ DOMAIN table' = 1..(Len(table) + 1)
      /\ \A i \in 1..Len(table) : table'[i] = table[i]
      /\ table'[Len(table) + 1] = request[r].row
  BY DEF TableInv
<1>2. \A i \in DOMAIN table' : i \in DOMAIN table \/ i = Len(table) + 1
  BY <1>1
<1>3. \A i \in DOMAIN table : table[i].id # request[r].row.id
  BY DEF Present
<1>4. UniqueIds'
  BY <1>1, <1>2, <1>3 DEF UniqueIds
<1>5. ASSUME NEW id, Present(id)' PROVE Present(id) \/ id = request[r].row.id
  BY <1>1, <1>2, <1>5 DEF Present
<1> QED
  BY <1>4, <1>5 DEF IdsFrom

LEMMA StepIds ==
  ASSUME WholeInv, PlaceInv, NEW r \in Threads,
         Rename(r) \/ Refuse(r) \/ List(r) \/ Count(r) \/ Insert(r) \/ Load(r)
         \/ WriteRow(r) \/ Refresh(r) \/ Splice(r) \/ Save(r) \/ Exists(r) \/ Flag(r)
         \/ Dates(r) \/ Select(r) \/ Unlink(r) \/ Delete(r) \/ Publish(r)
  PROVE  UniqueIds' /\ IdsFrom(r)
<1> DEFINE q == request[r]
<1>1. /\ TableInv /\ UniqueIds /\ Reserved(r) /\ q.row \in SoundRow /\ table \in Seq(SoundRow)
      /\ q.rest \in Seq(Steps)
  BY DEF WholeInv, TableInv, RequestOK, RequestIn, PlaceInv
<1>2. CASE table' = table
  BY <1>1, <1>2, IdsKept
<1>3. CASE Insert(r)
  <2>1. Head(q.rest) = "insert" /\ 1 \in DOMAIN q.rest /\ q.rest[1] = "insert"
    BY <1>1, <1>3 DEF Insert, Due
  <2>2. ~Present(q.row.id)
    BY <1>1, <2>1 DEF Reserved, Unborn
  <2> QED
    BY <1>1, <1>3, <2>1, <2>2, IdsAppended DEF Insert
<1>4. CASE WriteRow(r)
  <2>1. Head(q.rest) = "write"
    BY <1>4 DEF WriteRow, Due
  <2>2. CASE Present(q.row.id)
    <3>1. table' = [table EXCEPT ![At(q.row.id)] = q.row]
      BY <1>4, <2>2 DEF WriteRow
    <3>2. At(q.row.id) \in DOMAIN table /\ table[At(q.row.id)].id = q.row.id
      BY <1>1, <2>2, TableRows
    <3>3. DOMAIN table' = DOMAIN table /\ \A i \in DOMAIN table : table'[i].id = table[i].id
      BY <3>1, <3>2
    <3> QED
      BY <1>1, <3>3, IdsKept
  <2>3. CASE ~Present(q.row.id)
    BY <1>1, <1>4, <2>1, <2>3, IdsAppended DEF WriteRow
  <2> QED
    BY <2>2, <2>3
<1>5. CASE Save(r) \/ Flag(r) \/ Unlink(r)
  <2>1. table' = table \/
        (DOMAIN table' = DOMAIN table /\ \A i \in DOMAIN table : table'[i].id = table[i].id)
    <3>1. \A i \in DOMAIN table : table[i] \in SoundRow
      BY <1>1, TableRows
    <3>2. CASE Save(r)
      BY <3>1, <3>2 DEF Save, SoundRow
    <3>3. CASE Flag(r)
      BY <3>1, <3>3 DEF Flag, SoundRow
    <3>4. CASE Unlink(r)
      BY <3>1, <3>4 DEF Unlink, Without, SoundRow
    <3> QED
      BY <1>5, <3>2, <3>3, <3>4
  <2> QED
    BY <1>1, <1>2, <2>1, IdsKept
<1>6. CASE Delete(r)
  <2> DEFINE id == Head(q.doomed).id
  <2>1. CASE ~Present(id)
    BY <1>2, <1>6, <2>1 DEF Delete
  <2>2. CASE Present(id)
    <3> PICK k : k = At(id)
      OBVIOUS
    <3>1. k \in 1..Len(table) /\ Len(table) \in Nat /\ DOMAIN table = 1..Len(table)
      BY <1>1, <2>2, TableRows
    <3>2. table' = RemoveAt(table, k)
      BY <1>6, <2>2 DEF Delete
    <3>3. /\ table' \in Seq(SoundRow) /\ Len(table') = Len(table) - 1
          /\ \A j \in 1..(Len(table) - 1) :
               table'[j] = IF j < k THEN table[j] ELSE table[j + 1]
      BY <1>1, <3>1, <3>2, Removed
    <3>4. DOMAIN table' = 1..(Len(table) - 1)
      BY <3>3
    <3>5. ASSUME NEW j \in DOMAIN table'
          PROVE  \E i \in DOMAIN table : table'[j] = table[i] /\ i = IF j < k THEN j ELSE j + 1
      BY <3>1, <3>3, <3>4
    <3>6. UniqueIds'
      <4> SUFFICES ASSUME NEW i \in DOMAIN table', NEW j \in DOMAIN table',
                          table'[i].id = table'[j].id
                   PROVE  i = j
        BY DEF UniqueIds
      <4>1. PICK a \in DOMAIN table : table'[i] = table[a] /\ a = IF i < k THEN i ELSE i + 1
        BY <3>5
      <4>2. PICK b \in DOMAIN table : table'[j] = table[b] /\ b = IF j < k THEN j ELSE j + 1
        BY <3>5
      <4>3. a = b
        BY <1>1, <4>1, <4>2 DEF UniqueIds
      <4> QED
        BY <3>1, <3>4, <4>1, <4>2, <4>3
    <3>7. \A x : Present(x)' => Present(x)
      BY <3>5 DEF Present
    <3> QED
      BY <3>6, <3>7 DEF IdsFrom
  <2> QED
    BY <2>1, <2>2
<1>7. Rename(r) \/ Refuse(r) \/ List(r) \/ Count(r) \/ Load(r) \/ Refresh(r) \/ Splice(r)
      \/ Exists(r) \/ Dates(r) \/ Select(r) \/ Publish(r) => table' = table
  BY DEF Rename, Refuse, List, Count, Load, Refresh, Splice, Exists, Dates, Select, Publish, rows
<1> QED
  BY <1>2, <1>3, <1>4, <1>5, <1>6, <1>7

-----------------------------------------------------------------------------
(* The numbering *)

LEMMA ActiveStill ==
  ASSUME window' = window, DOMAIN table' = DOMAIN table,
         \A i \in DOMAIN table : table'[i].id = table[i].id /\ table'[i].enabled = table[i].enabled
  PROVE  ActiveSet' = ActiveSet /\ ActiveAt' = ActiveAt
<1>1. ActiveAt' = ActiveAt
  BY DEF ActiveAt, IsActive
<1>2. ActiveSet = {table[i].id : i \in ActiveAt} /\ ActiveSet' = {table'[i].id : i \in ActiveAt'}
  BY DEF ActiveSet, ActiveAt
<1>3. \A i \in ActiveAt : table'[i].id = table[i].id
  BY DEF ActiveAt
<1> QED
  BY <1>1, <1>2, <1>3

LEMMA ActiveFinite ==
  ASSUME TableInv
  PROVE  IsFiniteSet(ActiveSet)
<1>1. ActiveAt \subseteq 1..Len(table) /\ Len(table) \in Nat
  BY DEF TableInv, ActiveAt
<1>2. IsFiniteSet(ActiveAt)
  <2>1. IsFiniteSet(1..Len(table))
    BY <1>1, FS_Interval
  <2> HIDE DEF ActiveAt
  <2> QED
    BY <1>1, <2>1, FS_Subset
<1>3. [i \in ActiveAt |-> table[i].id] \in Surjection(ActiveAt, ActiveSet)
  BY DEF Surjection, ActiveSet, ActiveAt
<1> QED
  BY <1>2, <1>3, FS_Surjection

\* A list of all of a finite set is one in which each is once.
LEMMA SeqsList ==
  ASSUME NEW S, IsFiniteSet(S), NEW ids \in SetToSeqs(S)
  PROVE  Lists(ids, S)
<1>1. Cardinality(S) \in Nat
  BY FS_CardinalityType
<1>2. /\ ids \in [1..Cardinality(S) -> S]
      /\ \A i, j \in 1..Cardinality(S) : i # j => ids[i] # ids[j]
  BY DEF SetToSeqs
<1>3. ids \in Injection(1..Cardinality(S), S)
  BY <1>2 DEF Injection, IsInjective
<1>4. Cardinality(1..Cardinality(S)) = Cardinality(S)
  BY <1>1, FS_Interval
<1>5. ids \in Surjection(1..Cardinality(S), S)
  BY <1>3, <1>4, FS_Injection
<1>6. ids \in Seq(S) /\ DOMAIN ids = 1..Cardinality(S)
  BY <1>1, <1>2
<1> QED
  BY <1>2, <1>5, <1>6 DEF Lists, Surjection

\* The row of an id is active if the id is.
LEMMA ActiveRow ==
  ASSUME UniqueIds, NEW i \in DOMAIN table, table[i].id \in ActiveSet
  PROVE  IsActive(table[i]) /\ i \in ActiveAt
BY DEF UniqueIds, ActiveSet, ActiveAt

LEMMA AtIs ==
  ASSUME UniqueIds, NEW i \in DOMAIN table
  PROVE  At(table[i].id) = i
BY DEF UniqueIds, At

\* The list at the beginning of the numbering
LEMMA Begun ==
  ASSUME TableInv, UniqueIds, NEW i \in DOMAIN table, table[i].id \in ActiveSet,
         NEW S, NEW ids, Lists(ids, S), S \ {table[i].id} = ActiveSet \ {table[i].id}
  PROVE  LET v == Spliced(ids, table[i])
             n == Cardinality(ActiveSet) IN
         /\ Lists(v, ActiveSet) /\ Len(v) = n
         /\ \E k \in DOMAIN v : v[k] = table[i].id /\ k - 1 = Position(n, table[i].order)
<1>1. IsActive(table[i]) /\ table[i].order \in Int
  BY ActiveRow, TableRows, SoundRows
<1>2. S \union {table[i].id} = ActiveSet
  OBVIOUS
<1> DEFINE v == Spliced(ids, table[i])
           n == Cardinality(S \union {table[i].id})
<1>3. /\ Lists(v, S \union {table[i].id})
      /\ \E k \in DOMAIN v : v[k] = table[i].id /\ k - 1 = Position(n, table[i].order)
  BY <1>1, SplicedIn
<1> HIDE DEF v
<1>4. Len(v) = n
  BY <1>3, ListLength
<1> QED
  BY <1>2, <1>3, <1>4 DEF v

\* The first of the list gets the next number.
LEMMA NumberedOn ==
  ASSUME TableInv, UniqueIds, NEW r \in Threads, Numbered(request[r]), request[r].next \in Nat,
         request[r].ids # <<>>, window' = window,
         table' = [i \in DOMAIN table |->
                     IF table[i].id = Head(request[r].ids)
                     THEN [table[i] EXCEPT !.order = request[r].next] ELSE table[i]],
         request'[r].row = request[r].row, request'[r].ids = Tail(request[r].ids),
         request'[r].next = request[r].next + 1
  PROVE  Numbered(request[r])'
<1> PICK ids, next, row, n :
      ids = request[r].ids /\ next = request[r].next /\ row = request[r].row
      /\ n = Cardinality(ActiveSet)
  OBVIOUS
<1>1. /\ ids \in Seq(ActiveSet) /\ next \in Nat /\ next + Len(ids) = n /\ ids # <<>>
      /\ \A i, j \in DOMAIN ids : ids[i] = ids[j] => i = j
      /\ \A i \in ActiveAt : \/ table[i].order \in 0..(next - 1)
                             \/ \E k \in DOMAIN ids : ids[k] = table[i].id
      /\ \A k \in 0..(next - 1) : \E i \in ActiveAt :
           table[i].order = k /\ \A m \in DOMAIN ids : ids[m] # table[i].id
      /\ \A i \in ActiveAt : table[i].id = row.id =>
           \/ table[i].order = Position(n, row.order) /\ \A k \in DOMAIN ids : ids[k] # row.id
           \/ \E k \in DOMAIN ids : ids[k] = row.id /\ next + k - 1 = Position(n, row.order)
  BY DEF Numbered
<1> DEFINE t == Tail(ids)
<1>2. /\ t \in Seq(ActiveSet) /\ Len(t) = Len(ids) - 1 /\ Len(ids) \in Nat
      /\ DOMAIN ids = 1..Len(ids) /\ DOMAIN t = 1..(Len(ids) - 1)
      /\ \A k \in 1..(Len(ids) - 1) : t[k] = ids[k + 1]
      /\ Head(ids) = ids[1] /\ 1 \in DOMAIN ids
  BY <1>1, HeadTailProperties
<1> HIDE DEF t
<1>3. /\ DOMAIN table' = DOMAIN table
      /\ \A i \in DOMAIN table : /\ table'[i].id = table[i].id
                                 /\ table'[i].enabled = table[i].enabled
                                 /\ table[i].id = ids[1] => table'[i].order = next
                                 /\ table[i].id # ids[1] => table'[i].order = table[i].order
  BY <1>2, TableRows DEF SoundRow
<1>4. ActiveSet' = ActiveSet /\ ActiveAt' = ActiveAt /\ ActiveAt \subseteq DOMAIN table
  BY <1>3, ActiveStill DEF ActiveAt
<1>5. next + 1 + Len(t) = n
  <2>1. next \in Nat /\ Len(ids) \in Nat /\ next + Len(ids) = n /\ Len(t) = Len(ids) - 1
    BY <1>1, <1>2
  <2> QED
    BY <2>1, SMTT(30)
<1>6. ASSUME NEW i \in DOMAIN t, NEW j \in DOMAIN t, t[i] = t[j] PROVE i = j
  <2>1. i + 1 \in DOMAIN ids /\ j + 1 \in DOMAIN ids /\ ids[i + 1] = ids[j + 1]
    BY <1>2, <1>6
  <2>2. i + 1 = j + 1
    BY <1>1, <2>1
  <2> QED
    BY <1>2, <2>2
<1>7. ASSUME NEW m \in DOMAIN ids, m # 1 PROVE m - 1 \in DOMAIN t /\ t[m - 1] = ids[m]
  <2>1. m - 1 \in 1..(Len(ids) - 1) /\ (m - 1) + 1 = m
    BY <1>2, <1>7
  <2> QED
    BY <1>2, <2>1
<1>8. ASSUME NEW m \in DOMAIN t PROVE m + 1 \in DOMAIN ids /\ t[m] = ids[m + 1] /\ t[m] # ids[1]
  <2>1. m + 1 \in DOMAIN ids /\ t[m] = ids[m + 1] /\ m + 1 # 1
    BY <1>2, SMTT(30)
  <2> QED
    BY <1>1, <1>2, <2>1
<1>9. ASSUME NEW i \in ActiveAt
      PROVE  table'[i].order \in 0..(next + 1 - 1) \/ \E k \in DOMAIN t : t[k] = table'[i].id
  <2>1. CASE table[i].id = ids[1]
    BY <1>1, <1>3, <1>4, <2>1, SMTT(30)
  <2>2. CASE table[i].id # ids[1]
    <3>1. CASE table[i].order \in 0..(next - 1)
      BY <1>1, <1>3, <1>4, <2>2, <3>1, SMTT(30)
    <3>2. ASSUME NEW k \in DOMAIN ids, ids[k] = table[i].id
          PROVE  \E m \in DOMAIN t : t[m] = table'[i].id
      <4>1. i \in DOMAIN table /\ table'[i].id = table[i].id
        BY <1>3, <1>4
      <4>2. k # 1
        BY <2>2, <3>2
      <4> QED
        BY <1>7, <3>2, <4>1, <4>2
    <3> QED
      BY <1>1, <3>1, <3>2
  <2> QED
    BY <2>1, <2>2
<1>10. ASSUME NEW k \in 0..(next + 1 - 1)
       PROVE  \E i \in ActiveAt : table'[i].order = k /\ \A m \in DOMAIN t : t[m] # table'[i].id
  <2>1. CASE k = next
    <3>1. ids[1] \in ActiveSet
      BY <1>1, <1>2
    <3>2. PICK i \in ActiveAt : table[i].id = ids[1]
      BY <3>1 DEF ActiveSet, ActiveAt
    <3> QED
      BY <1>3, <1>4, <1>8, <2>1, <3>2
  <2>2. CASE k # next
    <3>1. k \in 0..(next - 1)
      BY <1>1, <2>2
    <3>2. PICK i \in ActiveAt : table[i].order = k /\ \A m \in DOMAIN ids : ids[m] # table[i].id
      BY <1>1, <3>1
    <3>3. table[i].id # ids[1]
      BY <1>2, <3>2
    <3>4. table'[i].order = k /\ table'[i].id = table[i].id
      BY <1>3, <1>4, <3>2, <3>3
    <3>5. ASSUME NEW m \in DOMAIN t PROVE t[m] # table'[i].id
      BY <1>8, <3>2, <3>4, SMTT(30)
    <3> QED
      BY <3>2, <3>4, <3>5
  <2> QED
    BY <2>1, <2>2
<1>11. ASSUME NEW i \in ActiveAt, table'[i].id = row.id
       PROVE  \/ table'[i].order = Position(n, row.order) /\ \A k \in DOMAIN t : t[k] # row.id
              \/ \E k \in DOMAIN t : t[k] = row.id /\ next + 1 + k - 1 = Position(n, row.order)
  <2>1. table[i].id = row.id
    BY <1>3, <1>4, <1>11
  <2>2. CASE /\ table[i].order = Position(n, row.order) /\ \A k \in DOMAIN ids : ids[k] # row.id
    <3>1. table[i].id # ids[1]
      BY <1>2, <2>1, <2>2
    <3> QED
      BY <1>3, <1>4, <1>8, <2>2, <3>1
  <2>3. ASSUME NEW k \in DOMAIN ids, ids[k] = row.id, next + k - 1 = Position(n, row.order)
        PROVE  \/ table'[i].order = Position(n, row.order) /\ \A m \in DOMAIN t : t[m] # row.id
               \/ \E m \in DOMAIN t : t[m] = row.id /\ next + 1 + m - 1 = Position(n, row.order)
    <3>1. CASE k = 1
      <4>1. table'[i].order = Position(n, row.order)
        BY <1>1, <1>3, <1>4, <2>1, <2>3, <3>1
      <4> QED
        BY <1>8, <2>3, <3>1, <4>1
    <3>2. CASE k # 1
      <4>1. k - 1 \in DOMAIN t /\ t[k - 1] = row.id
        BY <1>7, <2>3, <3>2
      <4>2. next + 1 + (k - 1) - 1 = next + k - 1
        <5>1. next \in Nat /\ k \in Nat
          BY <1>1, <1>2
        <5> QED
          BY <5>1
      <4> QED
        BY <2>3, <4>1, <4>2
    <3> QED
      BY <3>1, <3>2
  <2> QED
    BY <1>1, <2>1, <2>2, <2>3
<1>12. request'[r].ids = t /\ request'[r].next = next + 1 /\ request'[r].row = row
       /\ Cardinality(ActiveSet)' = n
  BY <1>4 DEF t
<1> DEFINE p == request'[r]
<1>13. p.ids \in Seq(ActiveSet') /\ p.next + Len(p.ids) = Cardinality(ActiveSet)'
  BY <1>2, <1>4, <1>5, <1>12
<1>14. \A i, j \in DOMAIN p.ids : p.ids[i] = p.ids[j] => i = j
  BY <1>6, <1>12
<1>15. \A i \in ActiveAt' : \/ table'[i].order \in 0..(p.next - 1)
                           \/ \E k \in DOMAIN p.ids : p.ids[k] = table'[i].id
  <2>1. p.next - 1 = next + 1 - 1
    BY <1>12
  <2>2. \A i \in ActiveAt' : \/ table'[i].order \in 0..(next + 1 - 1)
                            \/ \E k \in DOMAIN t : t[k] = table'[i].id
    BY <1>4, <1>9
  <2> HIDE DEF p
  <2> QED
    BY <1>12, <2>1, <2>2 DEF p
<1>16. \A k \in 0..(p.next - 1) : \E i \in ActiveAt' :
         table'[i].order = k /\ \A m \in DOMAIN p.ids : p.ids[m] # table'[i].id
  <2>1. p.next - 1 = next + 1 - 1
    BY <1>12
  <2> TAKE k \in 0..(p.next - 1)
  <2>2. k \in 0..(next + 1 - 1)
    BY <2>1
  <2> HIDE DEF p
  <2>3. PICK i \in ActiveAt' : table'[i].order = k /\ \A m \in DOMAIN t : t[m] # table'[i].id
    BY <1>4, <1>10, <2>2
  <2>4. p.ids = t
    BY <1>12 DEF p
  <2> QED
    BY <2>3, <2>4
<1>17. \A i \in ActiveAt' : table'[i].id = p.row.id =>
         \/ table'[i].order = Position(Cardinality(ActiveSet)', p.row.order)
            /\ \A k \in DOMAIN p.ids : p.ids[k] # p.row.id
         \/ \E k \in DOMAIN p.ids :
              p.ids[k] = p.row.id /\ p.next + k - 1 = Position(Cardinality(ActiveSet)', p.row.order)
  BY <1>4, <1>11, <1>12
<1> HIDE DEF p
<1> QED
  BY <1>13, <1>14, <1>15, <1>16, <1>17 DEF Numbered, p

-----------------------------------------------------------------------------
(* The steps of a request that has the table to itself *)

LEMMA BegunNumbered ==
  ASSUME TableInv, UniqueIds, NEW i \in DOMAIN table, table[i].id \in ActiveSet,
         NEW S, NEW ids, Lists(ids, S), S \ {table[i].id} = ActiveSet \ {table[i].id},
         NEW p, p.ids = Spliced(ids, table[i]), p.next = 0, p.row = table[i]
  PROVE  Numbered(p)
<1> PICK v, n : v = p.ids /\ n = Cardinality(ActiveSet)
  OBVIOUS
<1>1. /\ Lists(v, ActiveSet) /\ Len(v) = n
      /\ \E k \in DOMAIN v : v[k] = table[i].id /\ k - 1 = Position(n, table[i].order)
  BY Begun
<1>2. v \in Seq(ActiveSet) /\ 0 + Len(v) = n /\ \A a, b \in DOMAIN v : v[a] = v[b] => a = b
  BY <1>1 DEF Lists
<1>3. \A j \in ActiveAt : \E k \in DOMAIN v : v[k] = table[j].id
  <2> TAKE j \in ActiveAt
  <2>1. table[j].id \in ActiveSet
    BY DEF ActiveAt, ActiveSet
  <2> QED
    BY <1>1, <2>1 DEF Lists
<1>4. 0..(0 - 1) = {}
  OBVIOUS
<1>5. PICK k \in DOMAIN v : v[k] = table[i].id /\ k - 1 = Position(n, table[i].order)
  BY <1>1
<1>6. k \in Nat
  BY <1>2
<1>7. 0 + k - 1 = Position(n, table[i].order)
  BY <1>5, <1>6
<1> QED
  BY <1>2, <1>3, <1>4, <1>5, <1>7 DEF Numbered

\* The same numbering, with the table as it was
LEMMA NumberedStill ==
  ASSUME table' = table, window' = window
  PROVE  /\ ActiveSet' = ActiveSet /\ ActiveAt' = ActiveAt
         /\ \A r \in Threads : Numbered(request'[r]) => Numbered(request[r])'
<1>1. ActiveSet' = ActiveSet /\ ActiveAt' = ActiveAt
  BY DEF ActiveSet, ActiveAt, IsActive
<1> QED
  BY <1>1 DEF Numbered

LEMMA NumberedAlike ==
  ASSUME NEW q, NEW p, p.ids = q.ids, p.next = q.next, p.row = q.row, Numbered(q)
  PROVE  Numbered(p)
BY DEF Numbered

LEMMA OnwardGoes ==
  ASSUME DOMAIN request = Threads, NEW r \in Threads, NEW n, Onward(r, n),
         {"kind", "rest", "row", "ids", "next", "alone"} \subseteq DOMAIN n,
         request'[r] # Waiting
  PROVE  LET p == request'[r] IN
         /\ p.rest = Tail(n.rest) /\ p.kind = n.kind /\ p.row = n.row
         /\ p.ids = n.ids /\ p.next = n.next /\ p.alone = n.alone
<1>1. request' = [request EXCEPT ![r] =
                    IF Tail(n.rest) = <<>> THEN Waiting ELSE [n EXCEPT !.rest = Tail(@)]]
  BY DEF Onward
<1>2. request' = [request EXCEPT ![r] = [n EXCEPT !.rest = Tail(n.rest)]]
  BY <1>1
<1> QED
  BY <1>2

LEMMA PlacingStep ==
  ASSUME WholeInv, PlaceInv, NEW r \in Threads,
         Rename(r) \/ Refuse(r) \/ List(r) \/ Count(r) \/ Insert(r) \/ Load(r)
         \/ WriteRow(r) \/ Refresh(r) \/ Splice(r) \/ Save(r) \/ Exists(r) \/ Flag(r)
         \/ Dates(r) \/ Select(r) \/ Unlink(r) \/ Delete(r) \/ Publish(r)
  PROVE  Placing(request[r])'
<1> DEFINE q == request[r]
           p == request'[r]
<1> SUFFICES ASSUME p.alone, p.rest # <<>>, p.kind \in Splicing
             PROVE  InPlace(request[r])'
  BY DEF Placing
<1>1. /\ TableInv /\ UniqueIds /\ RequestOK(q) /\ q.row \in SoundRow /\ q.rest \in Seq(Steps)
      /\ q.next \in Nat /\ DOMAIN request = Threads /\ Course(q) /\ Placing(q)
      /\ {"kind", "rest", "row", "ids", "next", "doomed", "alone"} \subseteq DOMAIN q
  BY DEF WholeInv, TableInv, RequestOK, RequestIn, PlaceInv
<1>2. Proceeds(r)
  BY StepProceeds
<1>3. p # Waiting
  BY DEF Waiting
<1>4. q.rest # <<>> /\ p.kind = q.kind /\ p.alone = q.alone /\ p.row.id = q.row.id
  BY <1>2, <1>3 DEF Proceeds, GoesOn, Same
<1>5. InPlace(q) /\ Head(q.rest) \in SplicingSteps
  BY <1>1, <1>4, CourseNow DEF Placing
<1>6. GoesOn(q, p) => Head(p.rest) \in Sequel(Head(q.rest))
  BY <1>1, <1>4, CourseOn
<1>7. GoesOn(q, p) \/ (p.rest = q.rest /\ Head(q.rest) = "save")
  BY <1>2, <1>3, <1>5 DEF Proceeds, SplicingSteps
<1>8. ASSUME NEW step, Due(r, step), step # "save"
      PROVE  Head(q.rest) = step /\ step \in SplicingSteps /\ Head(p.rest) \in Sequel(step)
  BY <1>5, <1>6, <1>7, <1>8 DEF Due
<1>9. ~Fail(r)
  BY <1>1, <1>3, FailIs
<1>10. ASSUME NEW n, Onward(r, n),
              {"kind", "rest", "row", "ids", "next", "alone"} \subseteq DOMAIN n
       PROVE  p.row = n.row /\ p.ids = n.ids /\ p.next = n.next
  BY <1>1, <1>3, <1>10, OnwardGoes
<1>11. CASE Refuse(r) \/ Count(r) \/ Flag(r) \/ Dates(r) \/ Select(r) \/ Unlink(r) \/ Delete(r)
  <2>1. Refuse(r) => Fail(r)
    BY DEF Refuse
  <2>2. Due(r, "count") \/ Due(r, "flag") \/ Due(r, "dates") \/ Due(r, "select")
        \/ Due(r, "unlink") \/ Due(r, "delete")
    BY <1>9, <1>11, <2>1 DEF Count, Flag, Dates, Select, Unlink, Delete
  <2> QED
    BY <1>5, <2>2 DEF SplicingSteps, Due
<1>12. CASE Exists(r) \/ Publish(r)
  <2>1. Due(r, "exists") \/ Due(r, "publish")
    BY <1>12 DEF Exists, Publish
  <2>2. Head(p.rest) = "publish"
    BY <1>8, <2>1 DEF Sequel
  <2> QED
    BY <2>2 DEF InPlace
<1>13. CASE Rename(r) \/ Load(r) \/ WriteRow(r)
  <2>1. Head(p.rest) \in {"list", "write"}
    <3>1. Due(r, "rename") \/ Due(r, "load") \/ Due(r, "write")
      BY <1>13 DEF Rename, Load, WriteRow
    <3> QED
      BY <1>8, <3>1 DEF Sequel
  <2>2. q.next = 0
    <3>1. Due(r, "rename") \/ Due(r, "load") \/ Due(r, "write")
      BY <1>13 DEF Rename, Load, WriteRow
    <3> QED
      BY <1>5, <3>1 DEF InPlace, Due
  <2>3. \E n : Onward(r, n) /\ {"kind", "rest", "row", "ids", "next", "alone"} \subseteq DOMAIN n
               /\ n.next = q.next
    <3>1. CASE Rename(r)
      <4>1. PICK s \in Sessions :
              Onward(r, [q EXCEPT !.row.inode = staged[s],
                           !.row.of = IF wiped[s] THEN NoFile ELSE client[s].file])
        BY <1>9, <3>1 DEF Rename
      <4> DEFINE w == IF wiped[s] THEN NoFile ELSE client[s].file
                 n == [q EXCEPT !.row.inode = staged[s], !.row.of = w]
      <4>2. n.next = q.next /\ DOMAIN n = DOMAIN q
        <5> HIDE DEF w
        <5> QED
          BY <1>1
      <4>3. Onward(r, n)
        BY <4>1
      <4> HIDE DEF n
      <4> QED
        BY <1>1, <4>2, <4>3
    <3>2. CASE Load(r)
      <4>1. \E row : Onward(r, [q EXCEPT !.row = row])
        BY <1>9, <3>2 DEF Load
      <4>2. PICK row : Onward(r, [q EXCEPT !.row = row])
        BY <4>1
      <4>3. [q EXCEPT !.row = row].next = q.next /\ DOMAIN [q EXCEPT !.row = row] = DOMAIN q
        BY <1>1
      <4> QED
        BY <1>1, <4>2, <4>3
    <3>3. CASE WriteRow(r)
      BY <1>1, <3>3 DEF WriteRow
    <3> QED
      BY <1>13, <3>1, <3>2, <3>3
  <2>4. p.next = 0
    BY <1>10, <2>2, <2>3
  <2> QED
    BY <2>1, <2>4 DEF InPlace
<1>14. CASE List(r)
  <2>1. PICK ids \in SetToSeqs(ActiveSet) : Onward(r, [q EXCEPT !.ids = ids])
    BY <1>14 DEF List
  <2>2. [q EXCEPT !.ids = ids].ids = ids /\ [q EXCEPT !.ids = ids].next = q.next
        /\ DOMAIN [q EXCEPT !.ids = ids] = DOMAIN q
    BY <1>1
  <2>3. p.ids = ids /\ p.next = q.next
    BY <1>1, <1>10, <2>1, <2>2
  <2>4. Due(r, "list") /\ table' = table /\ window' = window
    BY <1>14 DEF List, rows
  <2>5. q.next = 0
    BY <1>5, <2>4 DEF InPlace, Due
  <2>6. Head(p.rest) \in {"insert", "refresh"}
    BY <1>8, <2>4 DEF Sequel
  <2>7. Lists(ids, ActiveSet) /\ ActiveSet' = ActiveSet
    BY <1>1, <2>4, ActiveFinite, SeqsList, NumberedStill
  <2>8. \E S : S \ {p.row.id} = ActiveSet' \ {p.row.id} /\ Lists(p.ids, S)
    BY <2>3, <2>7
  <2>9. Lists(request[r].ids, ActiveSet)'
    BY <2>3, <2>7 DEF Lists
  <2> QED
    BY <2>3, <2>5, <2>6, <2>8, <2>9 DEF InPlace, Gathered, Lists
<1>15. CASE Insert(r)
  <2>1. Due(r, "insert") /\ Onward(r, q) /\ table' = Append(table, q.row) /\ window' = window
    BY <1>15 DEF Insert
  <2>2. p.row = q.row /\ p.ids = q.ids /\ p.next = q.next
    BY <1>1, <1>10, <2>1
  <2>3. q.next = 0 /\ Lists(q.ids, ActiveSet)
    BY <1>5, <2>1 DEF InPlace, Due
  <2>4. Head(p.rest) \in {"refresh", "splice"}
    BY <1>8, <2>1 DEF Sequel
  <2>5. /\ Len(table) \in Nat /\ DOMAIN table = 1..Len(table)
        /\ DOMAIN table' = 1..(Len(table) + 1)
        /\ \A i \in 1..Len(table) : table'[i] = table[i]
        /\ table'[Len(table) + 1] = q.row
    BY <1>1, <2>1 DEF TableInv
  <2>6. Len(table) + 1 \in DOMAIN table' /\ \A i \in DOMAIN table' : i \in DOMAIN table \/ i = Len(table) + 1
    BY <2>5
  <2>7. \A i \in DOMAIN table : i \in DOMAIN table' /\ (IsActive(table[i]))' = IsActive(table[i])
    BY <2>1, <2>5 DEF IsActive
  <2>8. ActiveSet' \subseteq ActiveSet \union {q.row.id}
    BY <2>1, <2>5, <2>6 DEF ActiveSet, IsActive
  <2>9. ActiveSet \subseteq ActiveSet'
    BY <2>1, <2>5, <2>6 DEF ActiveSet, IsActive
  <2>10. ActiveSet \ {p.row.id} = ActiveSet' \ {p.row.id}
    BY <2>2, <2>8, <2>9
  <2>11. \E i \in DOMAIN table' : table'[i] = p.row
    BY <2>2, <2>5, <2>6
  <2>12. \E S : S \ {p.row.id} = ActiveSet' \ {p.row.id} /\ Lists(p.ids, S)
    BY <2>2, <2>3, <2>10
  <2> QED
    BY <2>2, <2>3, <2>4, <2>11, <2>12 DEF InPlace, Gathered, Lists
<1>16. CASE Refresh(r) \/ Splice(r)
  <2>1. /\ Due(r, "refresh") \/ Due(r, "splice")
        /\ table' = table /\ window' = window
    BY <1>16 DEF Refresh, Splice, rows
  <2>2. q.next = 0 /\ Gathered(q)
    BY <1>5, <2>1 DEF InPlace, Due
  <2>3. Head(p.rest) = "save"
    BY <1>8, <2>1 DEF Sequel
  <2>4. \E i \in DOMAIN table :
          table[i].id = q.row.id /\ p.row = table[i] /\ p.ids = Spliced(q.ids, table[i]) /\ p.next = 0
    <3>1. CASE Refresh(r)
      <4>1. Present(q.row.id)
        BY <1>9, <3>1 DEF Refresh
      <4> PICK i : i = At(q.row.id)
        OBVIOUS
      <4>2. i \in DOMAIN table /\ table[i].id = q.row.id
        BY <1>1, <4>1, TableRows
      <4> DEFINE v == Spliced(q.ids, table[i])
                 n == [q EXCEPT !.row = table[i], !.ids = v]
      <4>3. Onward(r, n)
        BY <3>1, <4>1 DEF Refresh
      <4>4. n.row = table[i] /\ n.ids = v /\ n.next = q.next /\ DOMAIN n = DOMAIN q
        <5> HIDE DEF v
        <5> QED
          BY <1>1
      <4> HIDE DEF n
      <4>5. p.row = table[i] /\ p.ids = v /\ p.next = q.next
        BY <1>1, <1>10, <4>3, <4>4
      <4> QED
        BY <2>2, <4>2, <4>5
    <3>2. CASE Splice(r)
      <4>1. PICK i \in DOMAIN table : table[i] = q.row
        BY <2>2, <3>2 DEF Gathered, Splice, Due
      <4> DEFINE v == Spliced(q.ids, q.row)
                 n == [q EXCEPT !.ids = v]
      <4>2. Onward(r, n)
        BY <3>2 DEF Splice
      <4>3. n.row = q.row /\ n.ids = v /\ n.next = q.next /\ DOMAIN n = DOMAIN q
        <5> HIDE DEF v
        <5> QED
          BY <1>1
      <4> HIDE DEF n
      <4>4. p.row = q.row /\ p.ids = v /\ p.next = q.next
        BY <1>1, <1>10, <4>2, <4>3
      <4> QED
        BY <2>2, <4>1, <4>4
    <3> QED
      BY <1>16, <3>1, <3>2
  <2>5. PICK i \in DOMAIN table :
          table[i].id = q.row.id /\ p.row = table[i] /\ p.ids = Spliced(q.ids, table[i]) /\ p.next = 0
    BY <2>4
  <2>6. PICK S : S \ {q.row.id} = ActiveSet \ {q.row.id} /\ Lists(q.ids, S)
    BY <2>2 DEF Gathered
  <2>7. ASSUME p.row.id \in ActiveSet' PROVE Numbered(request[r])'
    <3>1. table[i].id \in ActiveSet
      BY <2>1, <2>5, <2>7, NumberedStill
    <3>2. Numbered(p)
      BY <1>1, <2>5, <2>6, <3>1, BegunNumbered
    <3> QED
      BY <2>1, <3>2, NumberedStill
  <2> QED
    BY <2>3, <2>7 DEF InPlace
<1>17. CASE Save(r)
  <2>1. Due(r, "save") /\ Head(q.rest) = "save" /\ window' = window
    BY <1>17 DEF Save, Due
  <2>2. q.row.id \in ActiveSet => Numbered(q)
    BY <1>5, <2>1 DEF InPlace
  <2>3. CASE q.ids = <<>>
    <3>1. Onward(r, q) /\ table' = table
      BY <1>17, <2>3 DEF Save
    <3>2. p.row = q.row /\ p.ids = q.ids /\ p.next = q.next
      BY <1>1, <1>10, <3>1
    <3>3. Head(p.rest) \in {"exists", "save"}
      BY <1>6, <1>7, <2>1 DEF Sequel
    <3>4. p.row.id \in ActiveSet' => Numbered(request[r])'
      BY <2>1, <2>2, <3>1, <3>2, NumberedStill, NumberedAlike
    <3> QED
      BY <2>3, <3>2, <3>3, <3>4 DEF InPlace
  <2>4. CASE q.ids # <<>>
    <3>1. /\ table' = [i \in DOMAIN table |->
                IF table[i].id = Head(q.ids) THEN [table[i] EXCEPT !.order = q.next] ELSE table[i]]
          /\ request' = [request EXCEPT ![r].ids = Tail(@), ![r].next = @ + 1]
      BY <1>17, <2>4 DEF Save
    <3>2. p.row = q.row /\ p.ids = Tail(q.ids) /\ p.next = q.next + 1 /\ p.rest = q.rest
      BY <1>1, <3>1
    <3>3. /\ DOMAIN table' = DOMAIN table
          /\ \A i \in DOMAIN table : table'[i].id = table[i].id /\ table'[i].enabled = table[i].enabled
      BY <1>1, <3>1, TableRows DEF SoundRow
    <3>4. ActiveSet' = ActiveSet
      BY <2>1, <3>3, ActiveStill
    <3>5. p.row.id \in ActiveSet' => Numbered(request[r])'
      BY <1>1, <2>1, <2>2, <2>4, <3>1, <3>2, <3>4, NumberedOn
    <3> QED
      BY <2>1, <3>2, <3>5 DEF InPlace
  <2> QED
    BY <2>3, <2>4
<1> QED
  BY <1>11, <1>12, <1>13, <1>14, <1>15, <1>16, <1>17

LEMMA PlaceStep ==
  ASSUME WholeInv, PlaceInv, NEW r \in Threads,
         Rename(r) \/ Refuse(r) \/ List(r) \/ Count(r) \/ Insert(r) \/ Load(r)
         \/ WriteRow(r) \/ Refresh(r) \/ Splice(r) \/ Save(r) \/ Exists(r) \/ Flag(r)
         \/ Dates(r) \/ Select(r) \/ Unlink(r) \/ Delete(r) \/ Publish(r)
  PROVE  PlaceInv'
<1>1. UniqueIds' /\ IdsFrom(r)
  BY StepIds
<1>2. Proceeds(r)
  BY StepProceeds
<1>3. \A x \in Threads : Course(request[x])' /\ Reserved(x)' /\ SoleRequest(x)'
  BY <1>1, <1>2, Proceeding
<1>4. Placing(request[r])'
  BY PlacingStep
<1>5. ASSUME NEW x \in Threads \ {r} PROVE Placing(request[x])'
  <2>1. ~request[x].alone
    <3>1. SoleRequest(x) /\ request[r].rest # <<>>
      BY <1>2 DEF PlaceInv, Proceeds
    <3> QED
      BY <3>1 DEF SoleRequest, Waiting
  <2>2. ~request'[x].alone
    BY <1>2, <2>1 DEF Proceeds, Same
  <2> QED
    BY <2>2 DEF Placing
<1> QED
  BY <1>1, <1>3, <1>4, <1>5 DEF PlaceInv

-----------------------------------------------------------------------------
(* Requests that arrive, and what else happens *)

LEMMA WaitingPlaced ==
  /\ Course(Waiting) /\ ~Unborn(Waiting) /\ Placing(Waiting) /\ ~Waiting.alone
  /\ Waiting.row.id = None /\ Waiting.rest = <<>>
BY DEF Course, Unborn, Placing, Waiting, Blank

LEMMA DisturbedIs ==
  ASSUME NEW q, RequestOK(q)
  PROVE  LET d == Disturbed(q) IN
         /\ d.kind = q.kind /\ d.rest = q.rest /\ d.row = q.row /\ ~d.alone
         /\ Placing(d) /\ (Course(q) => Course(d)) /\ (Unborn(d) <=> Unborn(q))
<1> DEFINE d == Disturbed(q)
<1>1. d.kind = q.kind /\ d.rest = q.rest /\ d.row = q.row /\ d.alone = FALSE
  BY DEF Disturbed, RequestOK, RequestIn
<1> HIDE DEF d
<1> QED
  BY <1>1 DEF d, Placing, Course, Unborn

\* Requests that say nothing of their places
LEMMA NotAlone ==
  ASSUME NEW x \in Threads, ~request'[x].alone
  PROVE  SoleRequest(x)' /\ Placing(request[x])'
BY DEF SoleRequest, Placing

LEMMA WaitingDisturbed == Disturbed(Waiting) = Waiting
<1> DEFINE w(a, b) == [kind |-> "none", rest |-> <<>>, row |-> Blank, ids |-> <<>>, next |-> 0,
                       doomed |-> <<>>, before |-> b, alone |-> a]
<1>1. \A a, b : [w(a, b) EXCEPT !.alone = a] = w(a, b)
  OBVIOUS
<1>2. \A a, b : [w(a, b) EXCEPT !.before = b] = w(a, b)
  OBVIOUS
<1>3. Waiting = w(FALSE, <<>>)
  BY DEF Waiting
<1> HIDE DEF w
<1>4. [Waiting EXCEPT !.alone = FALSE] = Waiting /\ [Waiting EXCEPT !.before = <<>>] = Waiting
  BY <1>1, <1>2, <1>3
<1>5. Disturbed(Waiting) = [[Waiting EXCEPT !.alone = FALSE] EXCEPT !.before = <<>>]
  BY DEF Disturbed
<1> QED
  BY <1>4, <1>5

\* The asset that a request is about
LEMMA AskedIs ==
  ASSUME NEW kind \in Kinds, NEW row \in Asked(kind)
  PROVE  /\ kind \in Creating =>
              row.id \in New /\ ~Present(row.id) /\ \A x \in Threads : request[x].row.id # row.id
         /\ kind \notin Creating => kind \in Loading \/ row.id = None
<1> DEFINE fresh == {id \in New : ~Present(id) /\ \A x \in Threads : request[x].row.id # id}
<1>1. ASSUME NEW ids, NEW on, NEW at, row \in Prepared(ids, on, at) PROVE row.id \in ids
  <2>1. PICK id \in ids, e \in on, p \in at : row = RowOf(id, e, p)
    BY <1>1 DEF Prepared
  <2> QED
    BY <2>1 DEF RowOf, Blank
<1> HIDE DEF fresh
<1>2. CASE kind \in {"create", "createUpload", "createV12", "createV1"}
  <2>1. row \in Prepared(fresh, BOOLEAN, Positions)
    BY <1>2 DEF Asked, fresh
  <2>2. row.id \in fresh
    BY <1>1, <2>1
  <2> QED
    BY <1>2, <2>2 DEF fresh, Creating
<1>3. CASE kind \in {"createForm", "createApp"}
  <2>1. row \in Prepared(fresh, {TRUE}, {0})
    BY <1>3 DEF Asked, fresh
  <2>2. row.id \in fresh
    BY <1>1, <2>1
  <2> QED
    BY <1>3, <2>2 DEF fresh, Creating
<1>4. CASE kind \in {"update", "updateV12", "updateV1", "form"}
  BY <1>4 DEF Creating, Loading
<1>5. CASE kind \in {"bulk", "bulkUpdate"}
  <2>1. row \in Prepared({None}, BOOLEAN, {0})
    BY <1>5 DEF Asked
  <2>2. row.id \in {None}
    BY <1>1, <2>1
  <2> QED
    BY <1>5, <2>2 DEF Creating
<1>6. CASE kind \in {"delete", "order", "orderApi"}
  <2>1. row = Blank
    BY <1>6 DEF Asked
  <2> QED
    BY <1>6, <2>1 DEF Creating, Blank
<1> QED
  BY <1>2, <1>3, <1>4, <1>5, <1>6, KindAssumption

LEMMA ArrivePlaced ==
  ASSUME WholeInv, PlaceInv, NEW r \in Threads, NEW kind \in Kinds, Arrive(r, kind)
  PROVE  PlaceInv'
<1>1. PICK row \in Asked(kind),
           ids \in (IF kind \in {"order", "orderApi"} THEN SetToSeqs(Old) ELSE {<<>>}) :
        LET q == [Waiting EXCEPT !.kind = kind, !.rest = Program(kind), !.row = row,
                                 !.ids = ids, !.before = table, !.alone = TRUE]
            busy == \E other \in Threads : request[other] # Waiting
        IN  request' = [other \in Threads |->
              IF other # r THEN Disturbed(request[other]) ELSE IF busy THEN Disturbed(q) ELSE q]
  BY DEF Arrive
<1> DEFINE q == [Waiting EXCEPT !.kind = kind, !.rest = Program(kind), !.row = row,
                                !.ids = ids, !.before = table, !.alone = TRUE]
           busy == \E other \in Threads : request[other] # Waiting
           p == request'[r]
<1>2. request' = [other \in Threads |->
        IF other # r THEN Disturbed(request[other]) ELSE IF busy THEN Disturbed(q) ELSE q]
  BY <1>1
<1>3. q.kind = kind /\ q.rest = Program(kind) /\ q.row = row /\ q.next = 0 /\ q.alone
  BY DEF Waiting
<1>4. Disturbed(q).kind = kind /\ Disturbed(q).rest = Program(kind) /\ Disturbed(q).row = row
      /\ Disturbed(q).next = 0 /\ Disturbed(q).alone = FALSE
  BY DEF Waiting, Disturbed
<1>5. /\ p.kind = kind /\ p.rest = Program(kind) /\ p.row = row /\ p.next = 0
      /\ p.alone => ~busy
  <2> HIDE DEF q, busy
  <2>1. p = IF busy THEN Disturbed(q) ELSE q
    BY <1>2
  <2> QED
    BY <1>3, <1>4, <2>1
<1>6. /\ table' = table /\ window' = window
      /\ \A x \in Threads \ {r} : request'[x] = Disturbed(request[x])
  <2> HIDE DEF q, busy
  <2> QED
    BY <1>2 DEF Arrive, rows
<1> HIDE DEF q, p
<1>7. /\ \A x \in Threads : RequestOK(request[x]) /\ Course(request[x]) /\ Reserved(x)
      /\ \A id : Present(id)' <=> Present(id)
      /\ request[r] = Waiting
  BY <1>6 DEF WholeInv, TableInv, PlaceInv, Present, Arrive
<1>8. UniqueIds'
  BY <1>6 DEF PlaceInv, UniqueIds
<1> DEFINE g == Program(kind)
<1>9. g \in Seq(Steps) /\ ProgramOK(g, kind) /\ 1 \in DOMAIN g /\ Head(g) = g[1]
  BY Programs, ProgramSteps DEF ProgramOK
<1> HIDE DEF g
<1>10. /\ kind \in Creating =>
            row.id \in New /\ ~Present(row.id) /\ \A x \in Threads : request[x].row.id # row.id
       /\ kind \notin Creating => kind \in Loading \/ row.id = None
  BY AskedIs
<1>11. None \notin New
  BY IdAssumption DEF Ids
<1>12. p.rest = g
  BY <1>5 DEF g
<1>13. Unborn(p) => kind \in Creating
  BY <1>9, <1>12 DEF Unborn, ProgramOK
<1>14. Course(p)
  <2>1. CASE kind = "delete"
    <3>1. \A i \in DOMAIN g : g[i] \notin {"insert", "exists"}
      BY <1>9, <2>1 DEF ProgramOK, Creating, Splicing
    <3> QED
      BY <1>5, <1>12, <2>1, <3>1 DEF Course
  <2>2. CASE kind # "delete"
    <3>1. g = SubSeq(g, 1, Len(g))
      BY <1>9
    <3> QED
      BY <1>5, <1>9, <2>2, <3>1 DEF Course, g
  <2> QED
    BY <2>1, <2>2
<1>15. ASSUME NEW x \in Threads \ {r}
       PROVE  /\ Course(request[x])' /\ SoleRequest(x)' /\ Placing(request[x])'
              /\ request'[x].row = request[x].row /\ request'[x].rest = request[x].rest
              /\ Unborn(request'[x]) <=> Unborn(request[x])
  <2> DEFINE d == Disturbed(request[x])
  <2>1. request'[x] = d
    BY <1>6
  <2>2. /\ d.rest = request[x].rest /\ d.row = request[x].row /\ ~d.alone
        /\ Course(d) /\ (Unborn(d) <=> Unborn(request[x]))
    BY <1>7, DisturbedIs
  <2> HIDE DEF d
  <2>3. Course(request[x])'
    BY <2>1, <2>2 DEF Course
  <2> QED
    BY <2>1, <2>2, <2>3, NotAlone
<1>16. Course(request[r])'
  BY <1>14 DEF p, Course
<1>17. SoleRequest(r)'
  <2> SUFFICES ASSUME p.alone, NEW o \in Threads \ {r} PROVE request'[o] = Waiting
    BY DEF SoleRequest, p
  <2>1. request[o] = Waiting
    BY <1>5
  <2> QED
    BY <1>6, <2>1, WaitingDisturbed
<1>18. Placing(request[r])'
  <2> SUFFICES ASSUME kind \in Splicing PROVE InPlace(request[r])'
    BY <1>5 DEF Placing, p
  <2>1. Head(g) \in {"rename", "list", "load"}
    BY <1>9 DEF ProgramOK
  <2>2. request'[r].next = 0 /\ Head(request'[r].rest) \in {"rename", "list", "load"}
    BY <1>5, <1>12, <2>1 DEF p
  <2> QED
    BY <2>2 DEF InPlace
<1>19. ASSUME NEW x \in Threads PROVE Reserved(x)'
  <2> SUFFICES ASSUME Unborn(request'[x]) PROVE Reserved(x)'
    BY DEF Reserved, Unborn
  <2>1. CASE x = r
    <3>1. kind \in Creating
      BY <1>13, <2>1 DEF p
    <3>2. row.id \in New /\ ~Present(row.id)' /\ \A o \in Threads \ {r} : request'[o].row.id # row.id
      BY <1>7, <1>10, <1>15, <3>1
    <3>3. request'[r].row = row
      BY <1>5 DEF p
    <3> QED
      BY <2>1, <3>2, <3>3 DEF Reserved
  <2>2. CASE x # r
    <3> PICK id : id = request[x].row.id
      OBVIOUS
    <3>1. Unborn(request[x]) /\ request'[x].row.id = id
      BY <1>15, <2>2
    <3>2. /\ id \in New /\ ~Present(id)'
          /\ \A o \in Threads \ {x} : request[o].row.id = id => Due(o, "load")
      BY <1>7, <3>1 DEF Reserved
    <3>3. ASSUME NEW o \in Threads \ {x}, request'[o].row.id = id PROVE Due(o, "load")'
      <4>1. CASE o # r
        BY <1>15, <3>2, <3>3, <4>1 DEF Due
      <4>2. CASE o = r
        <5>1. row.id = id
          BY <1>5, <3>3, <4>2 DEF p
        <5>2. kind \in Loading
          BY <1>10, <1>11, <3>2, <5>1
        <5>3. Head(g) = "load" /\ g # <<>>
          BY <1>9, <5>2 DEF ProgramOK
        <5> QED
          BY <1>12, <4>2, <5>3 DEF Due, p
      <4> QED
        BY <4>1, <4>2
    <3> QED
      BY <3>1, <3>2, <3>3 DEF Reserved
  <2> QED
    BY <2>1, <2>2
<1> QED
  BY <1>8, <1>15, <1>16, <1>17, <1>18, <1>19 DEF PlaceInv

LEMMA FlipPlaced ==
  ASSUME WholeInv, PlaceInv, NEW id \in Ids, Flip(id)
  PROVE  PlaceInv'
<1>1. table' = table /\ \A x \in Threads : request'[x] = Disturbed(request[x])
  BY DEF Flip
<1>2. ASSUME NEW x \in Threads
      PROVE  /\ Course(request[x])' /\ SoleRequest(x)' /\ Placing(request[x])'
             /\ request'[x].row = request[x].row /\ request'[x].rest = request[x].rest
             /\ Unborn(request'[x]) <=> Unborn(request[x])
  <2> DEFINE d == Disturbed(request[x])
  <2>1. request'[x] = d
    BY <1>1
  <2>2. RequestOK(request[x]) /\ Course(request[x])
    BY DEF WholeInv, TableInv, PlaceInv
  <2>3. /\ d.rest = request[x].rest /\ d.row = request[x].row /\ ~d.alone
        /\ Course(d) /\ (Unborn(d) <=> Unborn(request[x]))
    BY <2>2, DisturbedIs
  <2> HIDE DEF d
  <2>4. Course(request[x])'
    BY <2>1, <2>3 DEF Course
  <2> QED
    BY <2>1, <2>3, <2>4, NotAlone
<1>3. ASSUME NEW x \in Threads PROVE Reserved(x)'
  <2>1. Reserved(x)
    BY DEF PlaceInv
  <2> QED
    BY <1>1, <1>2, <2>1 DEF Reserved, Present, Due, Unborn
<1>4. UniqueIds'
  BY <1>1 DEF PlaceInv, UniqueIds
<1> QED
  BY <1>2, <1>3, <1>4 DEF PlaceInv

LEMMA AllWaiting ==
  ASSUME UniqueIds, \A x \in Threads : request[x] = Waiting
  PROVE  PlaceInv
BY WaitingPlaced DEF PlaceInv, Reserved, SoleRequest

LEMMA PlaceInit == Init => PlaceInv
<1> SUFFICES ASSUME Init PROVE PlaceInv
  OBVIOUS
<1>1. PICK ids \in SetToSeqs(Old), at \in SetToSeqs(0..(Cardinality(Old) - 1)) :
        table = [i \in 1..Cardinality(Old) |-> RowOf(ids[i], TRUE, at[i])]
  BY DEF Init
<1>2. \A i \in 1..Cardinality(Old) : table[i].id = ids[i]
  BY <1>1 DEF RowOf, Blank
<1>3. DOMAIN table = 1..Cardinality(Old)
  BY <1>1
<1>4. UniqueIds
  BY <1>2, <1>3 DEF SetToSeqs, UniqueIds
<1>5. \A x \in Threads : request[x] = Waiting
  BY DEF Init
<1> QED
  BY <1>4, <1>5, AllWaiting

LEMMA PlaceNext == WholeInv /\ PlaceInv /\ [Next]_vars => PlaceInv'
<1> SUFFICES ASSUME WholeInv, PlaceInv, [Next]_vars PROVE PlaceInv'
  OBVIOUS
<1>1. CASE Upload \/ UNCHANGED vars
  <2>1. table' = table /\ window' = window /\ request' = request
    BY <1>1 DEF Upload, vars, rows
  <2>2. ActiveSet' = ActiveSet /\ ActiveAt' = ActiveAt /\ \A id : Present(id)' <=> Present(id)
    BY <2>1, NumberedStill DEF Present
  <2>3. UniqueIds'
    BY <2>1 DEF PlaceInv, UniqueIds
  <2>4. ASSUME NEW x \in Threads
        PROVE  Course(request[x])' /\ Reserved(x)' /\ SoleRequest(x)' /\ Placing(request[x])'
    <3>1. Course(request[x]) /\ Reserved(x) /\ SoleRequest(x) /\ Placing(request[x])
      BY DEF PlaceInv
    <3>2. Course(request[x])' /\ SoleRequest(x)'
      BY <2>1, <3>1 DEF Course, SoleRequest
    <3>3. Reserved(x)'
      BY <2>1, <2>2, <3>1 DEF Reserved, Unborn, Due
    <3>4. Numbered(request[x]) => Numbered(request[x])'
      BY <2>1, NumberedStill
    <3>5. Gathered(request[x]) => Gathered(request[x])'
      BY <2>1, <2>2 DEF Gathered, Lists
    <3>6. Lists(request[x].ids, ActiveSet) => Lists(request[x].ids, ActiveSet)'
      BY <2>1, <2>2 DEF Lists
    <3>7. Placing(request[x])'
      BY <2>1, <2>2, <3>1, <3>4, <3>5, <3>6 DEF Placing, InPlace
    <3> QED
      BY <3>2, <3>3, <3>7
  <2> QED
    BY <2>3, <2>4 DEF PlaceInv
<1>2. CASE ServerDies
  <2>1. table' = table /\ \A x \in Threads : request'[x] = Waiting
    BY <1>2 DEF ServerDies
  <2>2. UniqueIds'
    BY <2>1 DEF PlaceInv, UniqueIds
  <2>3. \A x \in Threads : Course(request[x])' /\ Placing(request[x])' /\ SoleRequest(x)'
    BY <2>1, NotAlone, WaitingPlaced DEF Course
  <2>4. \A x \in Threads : Reserved(x)'
    BY <2>1, WaitingPlaced DEF Reserved, Unborn
  <2> QED
    BY <2>2, <2>3, <2>4 DEF PlaceInv
<1>3. ASSUME NEW r \in Threads, Step(r) PROVE PlaceInv'
  BY <1>3, ArrivePlaced, PlaceStep DEF Step
<1>4. ASSUME NEW id \in Ids, Flip(id) PROVE PlaceInv'
  BY <1>4, FlipPlaced
<1> QED
  BY <1>1, <1>2, <1>3, <1>4 DEF Next

LEMMA PlaceRight ==
  ASSUME WholeInv, PlaceInv
  PROVE  PlacedAsAsked
<1> SUFFICES ASSUME NEW r \in Threads, Due(r, "exists"), request[r].alone,
                    request[r].kind # "updateV1", request[r].row.id \in ActiveSet
             PROVE  LET q == request[r]
                        n == Cardinality(ActiveSet)
                        order(id) == table[At(id)].order
                        asked == q.row.order IN
                    /\ {order(id) : id \in ActiveSet} = 0..(n - 1)
                    /\ order(q.row.id) = IF asked >= n THEN n - 1
                                         ELSE IF asked >= 0 THEN asked
                                         ELSE IF n - 1 + asked >= 0 THEN n - 1 + asked ELSE 0
  BY DEF PlacedAsAsked
<1> DEFINE q == request[r]
           n == Cardinality(ActiveSet)
<1>1. /\ TableInv /\ UniqueIds /\ Course(q) /\ Placing(q) /\ q.rest \in Seq(Steps)
      /\ q.rest # <<>> /\ Head(q.rest) = "exists" /\ q.next \in Nat
  BY DEF WholeInv, TableInv, PlaceInv, RequestOK, RequestIn, Due
<1>2. q.kind \in Splicing
  BY <1>1, CourseNow
<1>3. Numbered(q) /\ q.ids = <<>>
  BY <1>1, <1>2 DEF Placing, InPlace
<1>4. q.next = n
  <2>1. q.next + Len(<<>>) = n /\ Len(<<>>) = 0
    BY <1>3 DEF Numbered
  <2> QED
    BY <1>1, <2>1
<1>5. /\ \A i \in ActiveAt : table[i].order \in 0..(n - 1)
      /\ \A k \in 0..(n - 1) : \E i \in ActiveAt : table[i].order = k
      /\ \A i \in ActiveAt : table[i].id = q.row.id => table[i].order = Position(n, q.row.order)
  <2>1. ~\E k \in DOMAIN q.ids : TRUE
    BY <1>3
  <2>2. /\ \A i \in ActiveAt : \/ table[i].order \in 0..(q.next - 1)
                               \/ \E k \in DOMAIN q.ids : q.ids[k] = table[i].id
        /\ \A k \in 0..(q.next - 1) : \E i \in ActiveAt : table[i].order = k
        /\ \A i \in ActiveAt : table[i].id = q.row.id =>
             \/ table[i].order = Position(n, q.row.order)
             \/ \E k \in DOMAIN q.ids : q.ids[k] = q.row.id
    BY <1>3 DEF Numbered
  <2>3. q.next - 1 = n - 1
    BY <1>4
  <2> HIDE DEF n
  <2>4. 0..(q.next - 1) = 0..(n - 1)
    BY <2>3
  <2> QED
    BY <2>1, <2>2, <2>4
<1>6. \A i \in ActiveAt : i \in DOMAIN table /\ table[i].id \in ActiveSet /\ At(table[i].id) = i
  BY <1>1, AtIs DEF ActiveAt, ActiveSet
<1>7. \A id \in ActiveSet : \E i \in ActiveAt : table[i].id = id
  BY DEF ActiveAt, ActiveSet
<1> HIDE DEF n
<1>8. {table[At(id)].order : id \in ActiveSet} = 0..(n - 1)
  BY <1>5, <1>6, <1>7
<1>9. table[At(q.row.id)].order = Position(n, q.row.order)
  BY <1>5, <1>6, <1>7
<1> QED
  BY <1>8, <1>9 DEF n, Position

\* Whichever assets there are, at whatever positions, and whatever a request asks for:
\* one that has the table to itself leaves the active assets on 0, 1, 2, ..., its own
\* where list.insert() puts it (finalize_asset_update, save_active_assets_ordering).
THEOREM PlacedRight == Spec => []PlacedAsAsked
<1> QED
  BY WholeInit, WholeNext, PlaceInit, PlaceNext, PlaceRight, PTL DEF Spec

=============================================================================
