--------------------------- MODULE SchedulerProofs ---------------------------
(***************************************************************************)
(* Proofs about Scheduler, for every set of assets, every set of rows and  *)
(* every bound: the state is well typed, the position always lies inside   *)
(* the playlist, the playlist misses no commit, and `previous' finds its   *)
(* way back. The play windows come last, for days of any length.           *)
(***************************************************************************)
EXTENDS Scheduler, PlayWindow, FiniteSetTheorems, SequenceTheorems, TLAPS

(***************************************************************************)
(* Lemmas about the operators of the model.                                *)
(***************************************************************************)

\* A row that is a candidate is one the server may commit.
LEMMA CandidateRow ==
  ASSUME db \in [Asset -> Row \cup {None}],
         NEW a \in Candidates
  PROVE  a \in Asset /\ db[a] \in Row /\ Entry(a) \in EntryType
BY NoneAssumption DEF Candidates, Entry, EntryType

\* generate_asset_list() returns a sequence of entries of the table.
LEMMA PlaylistType ==
  ASSUME db \in [Asset -> Row \cup {None}],
         NEW t, NEW new \in Playlists(t)
  PROVE  new \in Seq(EntryType)
<1> DEFINE S == ActiveSet(t)
<1>1. S \subseteq Candidates /\ S \subseteq Asset
  BY DEF ActiveSet, IsActive
<1>2. IsFiniteSet(S)
  BY <1>1, AssetAssumption, FS_Subset
<1>3. Cardinality(S) \in Nat
  BY <1>2, FS_CardinalityType
<1>4. PICK ids \in SetToSeqs(S) : new = [i \in DOMAIN ids |-> Entry(ids[i])]
  BY DEF Playlists
<1>5. ids \in [1..Cardinality(S) -> S]
  BY <1>4 DEF SetToSeqs
<1>6. \A i \in 1..Cardinality(S) : Entry(ids[i]) \in EntryType
  BY <1>1, <1>5, CandidateRow
<1>7. new = [i \in 1..Cardinality(S) |-> Entry(ids[i])]
  BY <1>4, <1>5
<1>8. new \in [1..Cardinality(S) -> EntryType]
  BY <1>6, <1>7
<1>. QED
  BY <1>3, <1>8

\* The deadline is a time or None.
LEMMA DeadlineType ==
  ASSUME db \in [Asset -> Row \cup {None}],
         NEW t \in Nat, NEW dl \in ComputeDeadline(t)
  PROVE  dl \in Nat \cup {None}
<1>1. \A a \in Candidates : db[a].start \in Nat /\ db[a].end \in Nat
  BY CandidateRow, RowAssumption DEF RowType
<1>2. Boundaries(t) \subseteq Nat
  BY <1>1, BoundAssumption DEF Boundaries
<1>. QED
  BY <1>2 DEF ComputeDeadline

\* Keeping the order swaps each entry for the new one with the same id.
LEMMA KeepOrderType ==
  ASSUME assets \in Seq(EntryType), NEW new \in Seq(EntryType),
         Ids(assets) = Ids(new)
  PROVE  /\ KeepOrder(new) \in Seq(EntryType)
         /\ Len(KeepOrder(new)) = Len(assets)
<1>1. \A i \in 1..Len(assets) :
        (CHOOSE e \in Range(new) : e.id = assets[i].id) \in EntryType
  <2>1. SUFFICES ASSUME NEW i \in 1..Len(assets)
                 PROVE (CHOOSE e \in Range(new) : e.id = assets[i].id)
                         \in EntryType
    OBVIOUS
  <2>2. assets[i].id \in Ids(new)
    <3>1. i \in DOMAIN assets
      OBVIOUS
    <3>. QED
      BY <3>1 DEF Ids
  <2>3. PICK j \in DOMAIN new : assets[i].id = new[j].id
    BY <2>2 DEF Ids
  <2>4. new[j] \in Range(new) /\ Range(new) \subseteq EntryType
    BY DEF Range
  <2>. QED
    BY <2>3, <2>4
<1>2. KeepOrder(new) =
        [i \in 1..Len(assets) |->
           CHOOSE e \in Range(new) : e.id = assets[i].id]
  BY DEF KeepOrder
<1>3. KeepOrder(new) \in [1..Len(assets) -> EntryType]
  BY <1>1, <1>2
<1>. QED
  BY <1>3

\* generate_asset_list() returns every active row, and each of them once.
LEMMA PlaylistRange ==
  ASSUME NEW t, NEW new \in Playlists(t)
  PROVE  Range(new) = {Entry(a) : a \in ActiveSet(t)}
<1> DEFINE S == ActiveSet(t)
           D == 1..Cardinality(S)
<1>1. IsFiniteSet(S) /\ Cardinality(S) \in Nat
  BY AssetAssumption, FS_Subset, FS_CardinalityType DEF ActiveSet
<1>2. PICK ids \in SetToSeqs(S) : new = [i \in DOMAIN ids |-> Entry(ids[i])]
  BY DEF Playlists
<1>3. ids \in [D -> S] /\ \A i, j \in D : i # j => ids[i] # ids[j]
  BY <1>2 DEF SetToSeqs
<1>4. ids \in Injection(D, S)
  BY <1>3 DEF Injection, IsInjective
<1>5. Cardinality(D) = Cardinality(S)
  BY <1>1, FS_Interval
<1>6. ids \in Surjection(D, S)
  BY <1>1, <1>4, <1>5, FS_Injection
<1>7. \A a \in S : \E i \in D : ids[i] = a
  BY <1>6 DEF Surjection
<1>8. DOMAIN new = D /\ \A i \in D : new[i] = Entry(ids[i])
  BY <1>2, <1>3
<1>. QED
  BY <1>3, <1>7, <1>8 DEF Range

\* Keeping the order of a list with the same members loses no entry.
LEMMA KeepOrderRange ==
  ASSUME NEW S, NEW new, Range(new) = {Entry(a) : a \in S},
         Ids(assets) = Ids(new)
  PROVE  Range(KeepOrder(new)) = Range(new)
<1>1. \A e \in Range(new) : e = Entry(e.id) /\ e.id \in S
  BY DEF Entry
<1>2. Ids(new) = S
  <2>1. Ids(new) = {e.id : e \in Range(new)}
    BY DEF Ids, Range
  <2>2. \A a \in S : Entry(a) \in Range(new) /\ Entry(a).id = a
    BY DEF Entry
  <2>3. \A a \in S : a \in Ids(new)
    BY <2>1, <2>2
  <2>4. \A x \in Ids(new) : x \in S
    BY <1>1, <2>1
  <2>. QED
    BY <2>3, <2>4
<1>3. \A i \in DOMAIN assets :
        /\ assets[i].id \in S
        /\ KeepOrder(new)[i] = Entry(assets[i].id)
  <2>1. SUFFICES ASSUME NEW i \in DOMAIN assets
                 PROVE /\ assets[i].id \in S
                       /\ KeepOrder(new)[i] = Entry(assets[i].id)
    OBVIOUS
  <2>2. assets[i].id \in S
    BY <1>2 DEF Ids
  <2>3. /\ Entry(assets[i].id) \in Range(new)
        /\ Entry(assets[i].id).id = assets[i].id
    BY <2>2 DEF Entry
  <2>4. (CHOOSE e \in Range(new) : e.id = assets[i].id) = Entry(assets[i].id)
    BY <1>1, <2>3
  <2>. QED
    BY <2>2, <2>4 DEF KeepOrder
<1>4. \A a \in S : \E i \in DOMAIN assets : assets[i].id = a
  BY <1>2 DEF Ids
<1>5. DOMAIN KeepOrder(new) = DOMAIN assets
  BY DEF KeepOrder
<1>6. Range(KeepOrder(new)) = {KeepOrder(new)[i] : i \in DOMAIN assets}
  BY <1>5 DEF Range
<1>. QED
  BY <1>3, <1>4, <1>6

-----------------------------------------------------------------------------

(***************************************************************************)
(* The inductive invariant. IndexInRange makes self.assets[idx] an entry;  *)
(* a jump keeps extra_asset set (only the main thread clears it) and, once *)
(* looked up, has a row to return.                                         *)
(***************************************************************************)

JumpPending ==
  /\ pc \in {"lookup", "adopt", "return", "reject"} => extra # None
  /\ pc \in {"adopt", "return"} => found \in EntryType

IInv == TypeOK /\ IndexInRange /\ JumpPending

LEMMA InitInv == Init => IInv
<1> SUFFICES ASSUME Init PROVE IInv
  OBVIOUS
<1>1. assets \in Seq(EntryType)
  BY DEF Init
<1>2. /\ {now, genTime} \subseteq 1..MaxTime
      /\ {mtime, index, lastMtime} \subseteq Nat
      /\ counter \in 0..ReshuffleAfter
      /\ edits \in 0..MaxEdits /\ cmds \in 0..MaxCommands
  BY BoundAssumption DEF Init
<1>3. {reverse, reshuffling, built, shuffle} \subseteq BOOLEAN
  BY Zenon DEF Init
<1>4. TypeOK
  BY <1>1, <1>2, <1>3 DEF Init, TypeOK, CallPoints
<1>5. IndexInRange /\ JumpPending
  BY DEF Init, IndexInRange, JumpPending
<1>. QED
  BY <1>4, <1>5 DEF IInv

USE DEF envVars, listVars, posVars, cmdVars, callVars, outVars

\* Actions of the main thread that leave the list and the position alone.
LEMMA JumpSteps ==
  ASSUME IInv, Call \/ Lookup \/ Adopt \/ ReturnExtra \/ Reject
  PROVE  IInv'
<1> USE DEF IInv, TypeOK, IndexInRange, JumpPending, CallPoints
<1>1. CASE Call
  BY <1>1 DEF Call
<1>2. CASE Lookup
  <2>1. extra \in Asset
    BY <1>2 DEF Lookup
  <2>2. found' \in EntryType \cup {None}
    BY <1>2, <2>1 DEF Lookup, Entry, EntryType
  <2>3. pc' = "adopt" => found' \in EntryType
    BY <1>2, <2>1 DEF Lookup, Entry, EntryType
  <2>. QED
    BY <1>2, <2>2, <2>3 DEF Lookup
<1>3. CASE Adopt
  BY <1>3 DEF Adopt
<1>4. CASE ReturnExtra
  <2>1. shown' \in [entry : EntryType, ids : Seq(Asset)]
    BY <1>4 DEF ReturnExtra
  <2>. QED
    BY <1>4, <2>1 DEF ReturnExtra
<1>5. CASE Reject
  BY <1>5 DEF Reject
<1>. QED
  BY <1>1, <1>2, <1>3, <1>4, <1>5

\* refresh_playlist() and the stat of update_playlist().
LEMMA RefreshSteps ==
  ASSUME IInv, Refresh \/ Stamp
  PROVE  IInv'
<1> USE DEF IInv, TypeOK, IndexInRange, JumpPending, CallPoints
<1>1. CASE Refresh
  <2>1. reshuffling' \in BOOLEAN
    BY <1>1 DEF Refresh
  <2>2. pc' \in {"stamp", "pick"}
    BY <1>1 DEF Refresh
  <2>. QED
    BY <1>1, <2>1, <2>2 DEF Refresh
<1>2. CASE Stamp
  BY <1>2 DEF Stamp
<1>. QED
  BY <1>1, <1>2

\* Whatever list a refresh installs, the position is inside it.
LEMMA InstallStep ==
  ASSUME IInv, NEW new \in Seq(EntryType), NEW dl \in Nat \cup {None},
         Install(new, dl)
  PROVE  /\ assets' \in Seq(EntryType) /\ deadline' \in Nat \cup {None}
         /\ index' \in Nat /\ counter' \in 0..ReshuffleAfter
         /\ IndexInRange'
<1> USE DEF IInv, TypeOK, IndexInRange
<1>1. CASE Replace(new, dl)
  <2>1. new # <<>> => index % Len(new) \in 0..(Len(new) - 1)
    OBVIOUS
  <2>. QED
    BY <1>1, <2>1, BoundAssumption DEF Replace
<1>2. CASE UNCHANGED <<assets, deadline, posVars>>
  BY <1>2
<1>3. CASE /\ Ids(assets) = Ids(new) /\ assets' = KeepOrder(new)
           /\ deadline' = dl /\ UNCHANGED posVars
  BY <1>3, KeepOrderType
<1>. QED
  BY <1>1, <1>2, <1>3 DEF Install

LEMMA BuildStep ==
  ASSUME IInv, Build
  PROVE  IInv'
<1>1. PICK new \in Playlists(now), dl \in ComputeDeadline(now) :
        Install(new, dl)
  BY DEF Build
<1>2. now \in Nat /\ db \in [Asset -> Row \cup {None}]
  BY DEF IInv, TypeOK
<1>3. new \in Seq(EntryType) /\ dl \in Nat \cup {None}
  BY <1>2, PlaylistType, DeadlineType
<1>4. /\ assets' \in Seq(EntryType) /\ deadline' \in Nat \cup {None}
      /\ index' \in Nat /\ counter' \in 0..ReshuffleAfter
      /\ IndexInRange'
  BY <1>1, <1>3, InstallStep
<1>5. pc' \in {"pick", "idle"}
  BY DEF Build
<1>6. TypeOK'
  BY <1>4, <1>5 DEF Build, IInv, TypeOK, CallPoints
<1>7. JumpPending'
  BY <1>5 DEF JumpPending
<1>. QED
  BY <1>4, <1>6, <1>7 DEF IInv

\* A position inside the list selects an entry, and the next position is
\* inside the list too.
LEMMA ServeStep ==
  ASSUME IInv, NEW i \in 0..(Len(assets) - 1), NEW j \in 0..(Len(assets) - 1),
         Serve(i, j)
  PROVE  /\ index' = j /\ counter' \in 0..ReshuffleAfter
         /\ currentId' \in Asset
         /\ shown' \in [entry : EntryType, ids : Seq(Asset)]
<1> USE DEF IInv, TypeOK
<1>1. assets[i + 1] \in EntryType
  OBVIOUS
<1>2. IdSeq(assets) \in [1..Len(assets) -> Asset]
  <2>1. \A k \in 1..Len(assets) : assets[k].id \in Asset
    <3>1. \A k \in 1..Len(assets) : assets[k] \in EntryType
      OBVIOUS
    <3>2. \A e \in EntryType : e.id \in Asset
      BY Zenon DEF EntryType
    <3>. QED
      BY <3>1, <3>2, Zenon
  <2>2. IdSeq(assets) = [k \in 1..Len(assets) |-> assets[k].id]
    BY DEF IdSeq
  <2>. QED
    BY <2>1, <2>2
<1>3. IdSeq(assets) \in Seq(Asset)
  BY <1>2
<1>4. counter' \in 0..ReshuffleAfter
  BY BoundAssumption DEF Serve
<1>5. index' = j /\ currentId' = assets[i + 1].id
  BY DEF Serve
<1>6. shown' \in [entry : EntryType, ids : Seq(Asset)]
  BY <1>1, <1>3 DEF Serve
<1>. QED
  BY <1>1, <1>4, <1>5, <1>6 DEF EntryType

\* A position taken modulo a length is a position.
LEMMA ModRange ==
  ASSUME NEW x \in Int, NEW n \in Nat \ {0}
  PROVE  x % n \in 0..(n - 1)
  BY SMTT(30)

LEMMA PickSteps ==
  ASSUME IInv, PickNone \/ PickNext \/ PickPrevious
  PROVE  IInv'
<1> USE DEF IInv, TypeOK, IndexInRange, JumpPending, CallPoints
<1>1. CASE PickNone
  BY <1>1 DEF PickNone
<1>2. CASE PickNext
  <2>1. Len(assets) \in Nat \ {0}
    BY <1>2 DEF PickNext
  <2>2. /\ index \in 0..(Len(assets) - 1)
        /\ (index + 1) % Len(assets) \in 0..(Len(assets) - 1)
    <3>1. index \in 0..(Len(assets) - 1) /\ index + 1 \in Int
      BY <2>1
    <3>. QED
      BY <2>1, <3>1, ModRange
  <2>3. /\ index' = (index + 1) % Len(assets)
        /\ counter' \in 0..ReshuffleAfter /\ currentId' \in Asset
        /\ shown' \in [entry : EntryType, ids : Seq(Asset)]
    BY <1>2, <2>2, ServeStep DEF PickNext
  <2>. QED
    BY <1>2, <2>2, <2>3 DEF PickNext
<1>3. CASE PickPrevious
  <2>1. Len(assets) \in Nat \ {0}
    BY <1>3 DEF PickPrevious
  <2>2. /\ (index - 2) % Len(assets) \in 0..(Len(assets) - 1)
        /\ (index - 1) % Len(assets) \in 0..(Len(assets) - 1)
    <3>1. index - 1 \in Int /\ index - 2 \in Int
      BY <2>1
    <3>. QED
      BY <2>1, <3>1, ModRange
  <2>3. /\ index' = (index - 1) % Len(assets)
        /\ counter' \in 0..ReshuffleAfter /\ currentId' \in Asset
        /\ shown' \in [entry : EntryType, ids : Seq(Asset)]
    BY <1>3, <2>2, ServeStep DEF PickPrevious
  <2>4. reverse' \in BOOLEAN
    BY <1>3, Zenon DEF PickPrevious
  <2>5. IndexInRange'
    BY <1>3, <2>2, <2>3 DEF PickPrevious
  <2>6. TypeOK'
    BY <1>3, <2>2, <2>3, <2>4 DEF PickPrevious
  <2>7. JumpPending'
    BY <1>3 DEF PickPrevious
  <2>. QED
    BY <2>5, <2>6, <2>7
<1>. QED
  BY <1>1, <1>2, <1>3

\* Commands, commits and the clock leave the list and the position alone.
LEMMA OtherSteps ==
  ASSUME IInv, Previous \/ (\E a \in Asset : Navigate(a)) \/ Environment
  PROVE  IInv'
<1> USE DEF IInv, TypeOK, IndexInRange, JumpPending, CallPoints
<1>1. CASE Previous
  <2>1. cmds' \in 0..MaxCommands
    BY <1>1, BoundAssumption DEF Previous, CanCommand
  <2>2. reverse' \in BOOLEAN
    BY <1>1, Zenon DEF Previous
  <2>. QED
    BY <1>1, <2>1, <2>2 DEF Previous
<1>2. CASE \E a \in Asset : Navigate(a)
  <2>1. PICK a \in Asset : Navigate(a)
    BY <1>2
  <2>2. cmds' \in 0..MaxCommands
    BY <2>1, BoundAssumption DEF Navigate, CanCommand
  <2>3. extra' \in Asset /\ extra' # None
    BY <2>1, NoneAssumption DEF Navigate
  <2>. QED
    BY <2>1, <2>2, <2>3 DEF Navigate
<1>3. CASE Tick
  <2>1. now' \in 1..MaxTime
    BY <1>3, BoundAssumption DEF Tick
  <2>. QED
    BY <1>3, <2>1 DEF Tick
<1>4. CASE ToggleShuffle
  <2>1. edits' \in 0..MaxEdits
    BY <1>4, BoundAssumption DEF ToggleShuffle, CanEdit
  <2>2. shuffle' \in BOOLEAN
    BY <1>4, Zenon DEF ToggleShuffle
  <2>. QED
    BY <1>4, <2>1, <2>2 DEF ToggleShuffle
<1>5. CASE \E a \in Asset, row \in Row \cup {None} : Commit(a, row)
  <2>1. PICK a \in Asset, row \in Row \cup {None} : Commit(a, row)
    BY <1>5
  <2>2. edits' \in 0..MaxEdits /\ mtime' \in Nat
    BY <2>1, BoundAssumption DEF Commit, CanEdit
  <2>3. db' \in [Asset -> Row \cup {None}]
    BY <2>1 DEF Commit
  <2>. QED
    BY <2>1, <2>2, <2>3 DEF Commit
<1>. QED
  BY <1>1, <1>2, <1>3, <1>4, <1>5 DEF Environment

LEMMA Invariance == IInv /\ [Next]_vars => IInv'
<1> SUFFICES ASSUME IInv, [Next]_vars PROVE IInv'
  OBVIOUS
<1>1. CASE Next
  BY <1>1, JumpSteps, RefreshSteps, BuildStep, PickSteps, OtherSteps
     DEF Next, Main
<1>2. CASE UNCHANGED vars
  BY <1>2
     DEF vars, IInv, TypeOK, IndexInRange, JumpPending, CallPoints
<1>. QED
  BY <1>1, <1>2

LEMMA Inductive == Spec => []IInv
BY InitInv, Invariance, PTL DEF Spec

\* The state of the scheduler is well typed under every interleaving of
\* get_next_asset() with commits, commands and the clock.
THEOREM TypeCorrect == Spec => []TypeOK
<1>1. IInv => TypeOK
  BY DEF IInv
<1>. QED
  BY <1>1, Inductive, PTL

\* get_next_asset() never indexes self.assets out of range, however the
\* list shrank and whichever way the position moved.
THEOREM PositionSafe == Spec => []IndexInRange
<1>1. IInv => IndexInRange
  BY DEF IInv
<1>. QED
  BY <1>1, Inductive, PTL

-----------------------------------------------------------------------------

(***************************************************************************)
(* No lost update. The recorded mtime is that of an earlier stat, so it is *)
(* never ahead of the table; a commit puts it behind, and the list is then *)
(* free to be outdated. Only a build makes a list, from the table as it is *)
(* at that moment.                                                         *)
(***************************************************************************)

CommitInv == lastMtime <= mtime /\ ListIsCommitted

\* Whichever branch installs the list, it has the entries that were generated.
LEMMA InstalledRange ==
  ASSUME NEW S, NEW new, NEW dl, Range(new) = {Entry(a) : a \in S},
         Install(new, dl)
  PROVE  Range(assets') = Range(new)
<1>1. CASE assets' = new
  BY <1>1
<1>2. CASE new = assets /\ assets' = assets
  BY <1>2
<1>3. CASE Ids(assets) = Ids(new) /\ assets' = KeepOrder(new)
  BY <1>3, KeepOrderRange
<1>. QED
  BY <1>1, <1>2, <1>3 DEF Install, Replace

LEMMA BuildCommits ==
  ASSUME IInv, CommitInv, Build
  PROVE  CommitInv'
<1>1. PICK new \in Playlists(now), dl \in ComputeDeadline(now) :
        Install(new, dl)
  BY DEF Build
<1>2. Range(new) = {Entry(a) : a \in ActiveSet(now)}
  BY PlaylistRange
<1>3. Range(assets') = {Entry(a) : a \in ActiveSet(now)}
  BY <1>1, <1>2, InstalledRange
<1>4. UNCHANGED <<db, mtime, lastMtime>> /\ genTime' = now
  BY DEF Build
<1>5. Range(assets') = {Entry(a)' : a \in ActiveSet(genTime)'}
  BY <1>3, <1>4
     DEF Entry, ActiveSet, IsActive, Candidates, InRange, WindowOpen
<1>. QED
  BY <1>4, <1>5 DEF CommitInv, ListIsCommitted

\* A commit makes the table newer than what the scheduler has recorded.
LEMMA CommitCommits ==
  ASSUME IInv, CommitInv, NEW a \in Asset, NEW row, Commit(a, row)
  PROVE  CommitInv'
<1>1. lastMtime \in Nat /\ mtime \in Nat
  BY DEF IInv, TypeOK
<1>2. mtime' = mtime + 1 /\ lastMtime' = lastMtime
  BY DEF Commit
<1>3. lastMtime' < mtime'
  BY <1>1, <1>2 DEF CommitInv
<1>. QED
  BY <1>1, <1>2, <1>3 DEF CommitInv, ListIsCommitted

LEMMA StampCommits ==
  ASSUME IInv, CommitInv, Stamp
  PROVE  CommitInv'
<1>1. lastMtime' = mtime /\ mtime' = mtime /\ pc' = "build" /\ mtime \in Nat
  BY DEF Stamp, IInv, TypeOK
<1>. QED
  BY <1>1 DEF CommitInv, ListIsCommitted

\* Every other step leaves the list, the table and both times alone, and
\* comes out of a build no more than it goes into one.
LEMMA QuietCommits ==
  ASSUME CommitInv, UNCHANGED <<db, mtime, listVars>>,
         pc = "build" => pc' = "build"
  PROVE  CommitInv'
<1>1. \A a : Entry(a)' = Entry(a)
  BY DEF Entry
<1>2. ActiveSet(genTime)' = ActiveSet(genTime)
  BY DEF ActiveSet, IsActive, Candidates, InRange, WindowOpen
<1>. QED
  BY <1>1, <1>2 DEF CommitInv, ListIsCommitted

LEMMA CommitInvariance == IInv /\ CommitInv /\ [Next]_vars => CommitInv'
<1> SUFFICES ASSUME IInv, CommitInv, [Next]_vars PROVE CommitInv'
  OBVIOUS
<1>1. CASE Call \/ Lookup \/ Adopt \/ ReturnExtra \/ Reject \/ Refresh
  BY <1>1, QuietCommits DEF Call, Lookup, Adopt, ReturnExtra, Reject, Refresh
<1>2. CASE PickNone \/ PickNext \/ PickPrevious
  BY <1>2, QuietCommits DEF PickNone, PickNext, PickPrevious
<1>3. CASE Previous \/ (\E a \in Asset : Navigate(a)) \/ Tick \/ ToggleShuffle
  BY <1>3, QuietCommits DEF Previous, Navigate, Tick, ToggleShuffle
<1>4. CASE \E a \in Asset, row \in Row \cup {None} : Commit(a, row)
  BY <1>4, CommitCommits
<1>5. CASE UNCHANGED vars
  BY <1>5, QuietCommits DEF vars
<1>. QED
  BY <1>1, <1>2, <1>3, <1>4, <1>5, StampCommits, BuildCommits
     DEF Next, Main, Environment

\* No commit is lost: once the newest mtime is recorded, the playlist holds
\* the rows that were active when it was generated, as they were committed.
THEOREM NoLostCommit == Spec => []ListIsCommitted
<1>1. Init => CommitInv
  BY DEF Init, CommitInv, ListIsCommitted
<1>2. CommitInv => ListIsCommitted
  BY DEF CommitInv
<1>. QED
  BY <1>1, <1>2, Inductive, CommitInvariance, PTL DEF Spec

-----------------------------------------------------------------------------

(***************************************************************************)
(* The deadline is early enough. Once nothing is left to be committed, it  *)
(* is that of the generation, computed from the table as it still is.      *)
(***************************************************************************)

DeadlineInv ==
  /\ genTime <= now
  /\ pc # "build" /\ lastMtime = mtime => deadline \in ComputeDeadline(genTime)

\* Every branch of update_playlist() leaves the deadline it was given.
LEMMA InstalledDeadline ==
  ASSUME NEW new, NEW dl, Install(new, dl)
  PROVE  deadline' = dl
BY DEF Install, Replace

LEMMA BuildDeadline ==
  ASSUME IInv, DeadlineInv, Build
  PROVE  DeadlineInv'
<1>1. PICK new \in Playlists(now), dl \in ComputeDeadline(now) :
        Install(new, dl)
  BY DEF Build
<1>2. deadline' \in ComputeDeadline(now)
  BY <1>1, InstalledDeadline
<1>3. UNCHANGED <<db, now>> /\ genTime' = now /\ now \in Nat
  BY DEF Build, IInv, TypeOK
<1>4. ComputeDeadline(genTime)' = ComputeDeadline(now)
  BY <1>3
     DEF ComputeDeadline, Boundaries, IsActive, Candidates, InRange, WindowOpen
<1>. QED
  BY <1>2, <1>3, <1>4 DEF DeadlineInv

\* Steps that leave the table, the list and its times alone. The clock may
\* go on.
LEMMA QuietDeadline ==
  ASSUME IInv, DeadlineInv, UNCHANGED <<db, mtime, listVars>>,
         now' \in Nat, now <= now', pc = "build" => pc' = "build"
  PROVE  DeadlineInv'
<1>1. ComputeDeadline(genTime)' = ComputeDeadline(genTime)
  BY DEF ComputeDeadline, Boundaries, IsActive, Candidates, InRange, WindowOpen
<1>2. genTime' \in Nat /\ genTime' = genTime /\ now \in Nat
  BY DEF IInv, TypeOK
<1>. QED
  BY <1>1, <1>2 DEF DeadlineInv

LEMMA DeadlineInvariance ==
  IInv /\ CommitInv /\ DeadlineInv /\ [Next]_vars => DeadlineInv'
<1> SUFFICES ASSUME IInv, CommitInv, DeadlineInv, [Next]_vars
             PROVE DeadlineInv'
  OBVIOUS
<1>0. now \in Nat /\ mtime \in Nat /\ lastMtime \in Nat
  BY DEF IInv, TypeOK
<1>1. CASE Call \/ Lookup \/ Adopt \/ ReturnExtra \/ Reject \/ Refresh
  BY <1>0, <1>1, QuietDeadline
     DEF Call, Lookup, Adopt, ReturnExtra, Reject, Refresh
<1>2. CASE PickNone \/ PickNext \/ PickPrevious
  BY <1>0, <1>2, QuietDeadline DEF PickNone, PickNext, PickPrevious
<1>3. CASE Previous \/ (\E a \in Asset : Navigate(a)) \/ ToggleShuffle
  BY <1>0, <1>3, QuietDeadline DEF Previous, Navigate, ToggleShuffle
<1>4. CASE Tick
  BY <1>0, <1>4, QuietDeadline DEF Tick
<1>5. CASE \E a \in Asset, row \in Row \cup {None} : Commit(a, row)
  <2>1. mtime' = mtime + 1 /\ UNCHANGED <<now, genTime, lastMtime>>
    BY <1>5 DEF Commit
  <2>2. lastMtime' # mtime'
    BY <1>0, <2>1 DEF CommitInv
  <2>. QED
    BY <2>1, <2>2 DEF DeadlineInv
<1>6. CASE Stamp
  BY <1>6 DEF Stamp, DeadlineInv
<1>7. CASE UNCHANGED vars
  BY <1>0, <1>7, QuietDeadline DEF vars
<1>. QED
  BY <1>1, <1>2, <1>3, <1>4, <1>5, <1>6, <1>7, BuildDeadline
     DEF Next, Main, Environment

\* Every boundary of the generation bounds the deadline.
LEMMA DeadlineBound ==
  ASSUME IInv, NEW b \in Boundaries(genTime),
         deadline \in ComputeDeadline(genTime), ~DeadlinePassed
  PROVE  b \in Nat /\ now < b
<1>1. \A a \in Candidates : db[a].start \in Nat /\ db[a].end \in Nat
  BY CandidateRow, RowAssumption DEF RowType, IInv, TypeOK
<1>2. /\ Boundaries(genTime) \subseteq Nat /\ None \notin Boundaries(genTime)
      /\ now \in Nat
  <2>1. Boundaries(genTime) \subseteq Nat
    <3>1. genTime + Cap \in Nat
      BY BoundAssumption DEF IInv, TypeOK
    <3>. QED
      BY <1>1, <3>1 DEF Boundaries
  <2>2. now \in Nat
    BY DEF IInv, TypeOK
  <2>. QED
    BY <2>1, <2>2, NoneAssumption
<1>3. deadline \in Boundaries(genTime) /\ deadline <= b
  BY DEF ComputeDeadline
<1>. QED
  BY <1>2, <1>3 DEF DeadlinePassed

\* A row whose interval now lies in, though it did not at the generation
\* and did not begin at that instant, begins later, and that is a boundary.
LEMMA LateStart ==
  ASSUME IInv, DeadlineInv, NotOverdue, NEW a \in Candidates,
         db[a].start # genTime, ~IsActive(a, genTime), InRange(db[a], now)
  PROVE  InRange(db[a], genTime)
<1>1. db[a].start \in Nat /\ db[a].end \in Nat
  BY CandidateRow, RowAssumption DEF RowType, IInv, TypeOK
<1>2. now \in Nat /\ genTime \in Nat /\ genTime <= now
  BY DEF IInv, TypeOK, DeadlineInv
<1>3. CASE genTime < db[a].start
  <2>1. db[a].start \in Boundaries(genTime)
    BY <1>3 DEF Boundaries
  <2>2. now < db[a].start
    BY <2>1, DeadlineBound DEF DeadlineInv, NotOverdue
  <2>. QED
    BY <1>1, <1>2, <2>2 DEF InRange
<1>4. CASE db[a].start < genTime
  BY <1>1, <1>2, <1>4 DEF InRange
<1>. QED
  BY <1>1, <1>2, <1>3, <1>4

\* While the deadline has not passed and nothing was committed since, the
\* playlist that is cached is the one a new generation would find.
LEMMA DeadlineCovers ==
  IInv /\ CommitInv /\ DeadlineInv => DeadlineCoversBoundaries
<1> SUFFICES ASSUME IInv, CommitInv, DeadlineInv, NotOverdue,
                    NEW a \in Candidates, db[a].start # genTime
             PROVE  IF a \in Windowed
                    THEN InRange(db[a], now) => now < genTime + Cap
                    ELSE IsActive(a, now) <=> a \in Ids(assets)
  BY DEF DeadlineCoversBoundaries
<1>1. /\ deadline \in ComputeDeadline(genTime) /\ ~DeadlinePassed
      /\ now \in Nat /\ genTime \in Nat /\ genTime <= now
      /\ db[a].start \in Nat /\ db[a].end \in Nat
  BY CandidateRow, RowAssumption
     DEF RowType, IInv, TypeOK, DeadlineInv, NotOverdue
<1>2. CASE a \in Windowed
  <2>1. SUFFICES ASSUME InRange(db[a], now) PROVE now < genTime + Cap
    BY <1>2
  <2>2. InRange(db[a], genTime)
    BY <2>1, LateStart DEF IsActive
  <2>3. genTime + Cap \in Boundaries(genTime)
    BY <1>2, <2>2 DEF Boundaries
  <2>. QED
    BY <1>1, <2>3, DeadlineBound
<1>3. CASE a \notin Windowed
  <2>1. IsActive(a, genTime) <=> a \in Ids(assets)
    <3>1. Range(assets) = {Entry(x) : x \in ActiveSet(genTime)}
      BY DEF CommitInv, ListIsCommitted, NotOverdue
    <3>2. Ids(assets) = {e.id : e \in Range(assets)}
      BY DEF Ids, Range
    <3>3. \A x : Entry(x).id = x
      BY DEF Entry
    <3>4. Ids(assets) = {Entry(x).id : x \in ActiveSet(genTime)}
      BY <3>1, <3>2
    <3>5. Ids(assets) = ActiveSet(genTime)
      BY <3>3, <3>4
    <3>. QED
      BY <3>5, CandidateRow DEF ActiveSet, IInv, TypeOK
  <2>2. ASSUME IsActive(a, genTime) PROVE IsActive(a, now)
    <3>1. db[a].start < genTime /\ genTime < db[a].end
      BY <2>2 DEF IsActive, InRange
    <3>2. db[a].end \in Boundaries(genTime)
      BY <2>2, <3>1 DEF Boundaries
    <3>3. now < db[a].end
      BY <1>1, <3>2, DeadlineBound
    <3>. QED
      BY <1>1, <1>3, <3>1, <3>3 DEF IsActive, InRange, WindowOpen
  <2>3. ASSUME IsActive(a, now), ~IsActive(a, genTime) PROVE FALSE
    <3>1. InRange(db[a], genTime)
      BY <2>3, LateStart DEF IsActive
    <3>. QED
      BY <1>3, <2>3, <3>1 DEF IsActive, WindowOpen
  <2>. QED
    BY <1>3, <2>1, <2>2, <2>3
<1>. QED
  BY <1>2, <1>3

\* Nothing tells the scheduler that an asset starts or ends but the deadline:
\* as long as it has not passed, the playlist is right (an asset that starts
\* at the very instant of the generation excepted), and a windowed asset was
\* looked at less than Cap ago.
THEOREM DeadlineSuffices == Spec => []DeadlineCoversBoundaries
<1>1. Init => CommitInv /\ DeadlineInv
  BY DEF Init, CommitInv, ListIsCommitted, DeadlineInv
<1>. QED
  BY <1>1, Inductive, CommitInvariance, DeadlineInvariance, DeadlineCovers,
     PTL DEF Spec

-----------------------------------------------------------------------------

(***************************************************************************)
(* The previous asset. Between two calls the list is the one last picked   *)
(* from, and the position is one past the asset shown; a build may replace *)
(* the list, but when the new one has the same order the position in it is *)
(* still one past. So two steps back is the asset before.                  *)
(***************************************************************************)

\* The constructor has not returned, and nothing was shown.
Constructing == ~built => pc \in {"stamp", "build"} /\ shown = None

Served ==
  shown # None /\ shown.ids # <<>> =>
    /\ pc # "pick" => shown.ids = IdSeq(assets)
    /\ shown.ids = IdSeq(assets) =>
         shown.entry.id = shown.ids[((index - 1) % Len(shown.ids)) + 1]

\* One step back on a circle of n positions.
LEMMA StepBack ==
  ASSUME NEW n \in Nat \ {0}, NEW x \in Int
  PROVE  (x - 1) % n = IF x % n = 0 THEN n - 1 ELSE (x % n) - 1
<1> DEFINE q == x \div n
           p == (x - 1) \div n
           r == x % n
           s == (x - 1) % n
<1>1. q \in Int /\ r \in 0..(n - 1) /\ x = n * q + r
  OBVIOUS
<1>2. p \in Int /\ s \in 0..(n - 1) /\ x - 1 = n * p + s
  OBVIOUS
<1> HIDE DEF q, p, r, s
<1>3. n * (q - p) = 1 + s - r
  BY <1>1, <1>2
<1>4. CASE q - p = 0
  BY <1>1, <1>2, <1>3, <1>4
<1>5. CASE q - p = 1
  BY <1>1, <1>2, <1>3, <1>5
<1>6. CASE q - p >= 2
  BY <1>1, <1>2, <1>3, <1>6
<1>7. CASE q - p <= -1
  BY <1>1, <1>2, <1>3, <1>7
<1>8. s = IF r = 0 THEN n - 1 ELSE r - 1
  BY <1>1, <1>2, <1>4, <1>5, <1>6, <1>7
<1>. QED
  BY <1>8 DEF r, s

LEMMA StepBackMod ==
  ASSUME NEW n \in Nat \ {0}, NEW x \in Int
  PROVE  ((x % n) - 1) % n = (x - 1) % n
<1> DEFINE y == x % n
<1>1. y \in 0..(n - 1)
  OBVIOUS
<1>2. (x - 1) % n = IF y = 0 THEN n - 1 ELSE y - 1
  BY StepBack
<1> HIDE DEF y
<1>3. (y - 1) % n = IF y = 0 THEN n - 1 ELSE y - 1
  <2>1. y % n = y /\ y \in Int
    BY <1>1
  <2>. QED
    BY <2>1, StepBack
<1>4. (y - 1) % n = (x - 1) % n
  BY <1>2, <1>3
<1>. QED
  BY <1>4 DEF y

LEMMA InsideMod ==
  ASSUME NEW n \in Nat \ {0}, NEW x \in 0..(n - 1) PROVE x % n = x
OBVIOUS

LEMMA IdSeqType ==
  ASSUME NEW s \in Seq(EntryType)
  PROVE  /\ IdSeq(s) \in Seq(Asset) /\ Len(IdSeq(s)) = Len(s)
         /\ \A i \in 1..Len(s) : IdSeq(s)[i] = s[i].id
         /\ IdSeq(s) = <<>> <=> s = <<>>
<1>1. \A i \in 1..Len(s) : s[i].id \in Asset
  <2>1. \A i \in 1..Len(s) : s[i] \in EntryType
    OBVIOUS
  <2>2. \A e \in EntryType : e.id \in Asset
    BY Zenon DEF EntryType
  <2>. QED
    BY <2>1, <2>2, Zenon
<1>2. IdSeq(s) = [i \in 1..Len(s) |-> s[i].id] /\ Len(s) \in Nat
  BY DEF IdSeq
<1>3. IdSeq(s) \in Seq(Asset) /\ Len(IdSeq(s)) = Len(s)
  BY <1>1, <1>2
<1>. QED
  BY <1>2, <1>3

LEMMA InitServed == Init => Constructing /\ Served
BY DEF Init, Constructing, Served

\* The steps that move neither the list nor the position, and end no pick.
LEMMA QuietServed ==
  ASSUME Served, UNCHANGED <<assets, index, shown>>, pc = "pick" => pc' = "pick"
  PROVE  Served'
BY DEF Served, IdSeq

\* Only the entry served, and the position one past it, change in a pick.
LEMMA ServeServed ==
  ASSUME IInv, assets # <<>>, NEW i \in 0..(Len(assets) - 1),
         NEW j \in 0..(Len(assets) - 1), Serve(i, j), assets' = assets,
         (j - 1) % Len(assets) = i
  PROVE  Served'
<1>1. assets \in Seq(EntryType)
  BY DEF IInv, TypeOK
<1>2. /\ Len(IdSeq(assets)) = Len(assets) /\ i + 1 \in 1..Len(assets)
      /\ IdSeq(assets)[i + 1] = assets[i + 1].id
  BY <1>1, IdSeqType
<1>3. /\ shown'.entry.id = assets[i + 1].id /\ shown'.ids = IdSeq(assets)
      /\ index' = j
  BY DEF Serve
<1>4. IdSeq(assets)' = IdSeq(assets)
  BY DEF IdSeq
<1>. QED
  BY <1>2, <1>3, <1>4 DEF Served

LEMMA PickServed ==
  ASSUME IInv, PickNext \/ PickPrevious
  PROVE  Served'
<1> DEFINE n == Len(assets)
<1>1. /\ n \in Nat \ {0} /\ index \in 0..(n - 1) /\ assets # <<>>
      /\ UNCHANGED assets
  BY DEF PickNext, PickPrevious, listVars, IInv, TypeOK, IndexInRange
<1> HIDE DEF n
<1>2. CASE PickNext
  <2>1. (index + 1) % n \in 0..(n - 1) /\ index % n = index
    BY <1>1
  <2>2. (((index + 1) % n) - 1) % n = index
    <3> DEFINE x == index + 1
    <3>1. x \in Int /\ x - 1 = index
      BY <1>1
    <3> HIDE DEF x
    <3>2. ((x % n) - 1) % n = index
      BY <1>1, <2>1, <3>1, StepBackMod
    <3>. QED
      BY <3>2 DEF x
  <2>3. Serve(index, (index + 1) % n)
    BY <1>2 DEF PickNext, n
  <2>. QED
    BY <1>1, <2>1, <2>2, <2>3, ServeServed DEF n
<1>3. CASE PickPrevious
  <2>1. (index - 1) % n \in 0..(n - 1) /\ (index - 2) % n \in 0..(n - 1)
    <3>1. index - 1 \in Int /\ index - 2 \in Int
      BY <1>1
    <3>. QED
      BY <1>1, <3>1, ModRange
  <2>2. (((index - 1) % n) - 1) % n = (index - 2) % n
    <3> DEFINE x == index - 1
    <3>1. x \in Int /\ x - 1 = index - 2
      BY <1>1
    <3> HIDE DEF x
    <3>2. ((x % n) - 1) % n = (index - 2) % n
      BY <1>1, <3>1, StepBackMod
    <3>. QED
      BY <3>2 DEF x
  <2>3. Serve((index - 2) % n, (index - 1) % n)
    BY <1>3 DEF PickPrevious, n
  <2>. QED
    BY <1>1, <2>1, <2>2, <2>3, ServeServed DEF n
<1>. QED
  BY <1>2, <1>3

\* A replaced list in the same order as before leaves the position where it was.
LEMMA BuildServed ==
  ASSUME IInv, Constructing, Served, Build
  PROVE  Served'
<1>1. PICK new \in Playlists(now), dl \in ComputeDeadline(now) : Install(new, dl)
  BY DEF Build
<1>2. new \in Seq(EntryType) /\ assets \in Seq(EntryType)
  BY PlaylistType DEF IInv, TypeOK
<1>3. /\ pc = "build" /\ shown' = shown /\ index \in Nat
      /\ (index = 0 \/ index < Len(assets))
  BY DEF Build, outVars, IInv, TypeOK, IndexInRange
<1>4. shown # None /\ shown.ids # <<>> =>
        /\ shown.ids = IdSeq(assets)
        /\ shown.entry.id = shown.ids[((index - 1) % Len(shown.ids)) + 1]
  BY <1>3 DEF Served
<1>5. pc' = "pick" \/ shown = None
  BY DEF Build, Constructing
<1>6. ASSUME index' = index PROVE Served'
  BY <1>3, <1>4, <1>5, <1>6 DEF Served
<1>7. CASE Replace(new, dl)
  <2>1. ASSUME shown # None, shown.ids # <<>>, IdSeq(assets)' = shown.ids
        PROVE  index' = index
    <3>1. IdSeq(new) = shown.ids
      BY <1>7, <2>1 DEF Replace, IdSeq
    <3>2. Len(new) = Len(assets) /\ new # <<>>
      BY <1>2, <1>4, <2>1, <3>1, IdSeqType
    <3>3. Len(new) \in Nat \ {0} /\ index \in 0..(Len(new) - 1)
      BY <1>2, <1>3, <3>2
    <3>4. index % Len(new) = index
      BY <3>3, InsideMod
    <3>. QED
      BY <1>7, <3>2, <3>4 DEF Replace
  <2>2. CASE shown # None /\ shown.ids # <<>> /\ IdSeq(assets)' = shown.ids
    BY <1>6, <2>1, <2>2
  <2>3. CASE ~(shown # None /\ shown.ids # <<>> /\ IdSeq(assets)' = shown.ids)
    BY <1>3, <1>5, <2>3 DEF Served
  <2>. QED
    BY <2>2, <2>3
<1>. QED
  BY <1>1, <1>6, <1>7 DEF Install, posVars

LEMMA ServedInvariance ==
  ASSUME IInv, Constructing, Served, [Next]_vars
  PROVE  Constructing' /\ Served'
<1>1. CASE Call \/ Lookup \/ Adopt \/ Reject \/ Refresh \/ Stamp
  <2>1. /\ UNCHANGED <<assets, index, shown, built>> /\ pc # "pick"
        /\ (built \/ pc' = "build")
    BY <1>1 DEF Call, Lookup, Adopt, Reject, Refresh, Stamp, Constructing,
                listVars, posVars, outVars
  <2>. QED
    BY <2>1, QuietServed DEF Constructing
<1>2. CASE ReturnExtra
  BY <1>2 DEF ReturnExtra, Constructing, Served
<1>3. CASE Build
  BY <1>3, BuildServed DEF Build, Constructing
<1>4. CASE PickNone
  BY <1>4 DEF PickNone, Constructing, Served
<1>5. CASE PickNext \/ PickPrevious
  BY <1>5, PickServed DEF PickNext, PickPrevious, Constructing
<1>6. CASE Previous \/ (\E a \in Asset : Navigate(a)) \/ Environment \/ UNCHANGED vars
  <2>1. UNCHANGED <<assets, index, shown, built, pc>>
    BY <1>6 DEF Previous, Navigate, Environment, Tick, ToggleShuffle, Commit,
                vars, listVars, posVars, outVars, callVars
  <2>. QED
    BY <2>1, QuietServed DEF Constructing
<1>. QED
  BY <1>1, <1>2, <1>3, <1>4, <1>5, <1>6 DEF Next, Main

\* `previous' shows the asset before the one on screen, whatever refreshes,
\* reshuffles and jumps came before, when the list has kept its order.
THEOREM PreviousIsBefore == Spec => PreviousShowsPredecessor
<1> DEFINE Back ==
      pc = "pick" /\ reverse /\ ~reverse' /\ shown # None
        /\ shown.ids = IdSeq(assets) /\ assets # <<>>
      => \E i \in DOMAIN assets :
           /\ shown.entry.id = assets[i].id
           /\ shown'.entry.id = assets[IF i = 1 THEN Len(assets) ELSE i - 1].id
<1>1. ASSUME IInv, Served, [Next]_vars PROVE [Back]_vars
  <2> SUFFICES ASSUME pc = "pick", reverse, ~reverse', shown # None,
                      shown.ids = IdSeq(assets), assets # <<>>
               PROVE  \E i \in DOMAIN assets :
                        /\ shown.entry.id = assets[i].id
                        /\ shown'.entry.id =
                             assets[IF i = 1 THEN Len(assets) ELSE i - 1].id
    OBVIOUS
  <2>1. PickPrevious
    BY <1>1 DEF Next, Main, Call, Lookup, Adopt, ReturnExtra, Reject, Refresh,
                Stamp, Build, PickNone, PickNext, Previous, Navigate,
                Environment, Tick, ToggleShuffle, Commit, vars, cmdVars
  <2> DEFINE n == Len(assets)
  <2>2. assets \in Seq(EntryType) /\ n \in Nat \ {0} /\ index \in Int
    BY <1>1 DEF IInv, TypeOK
  <2>3. /\ Len(IdSeq(assets)) = n /\ IdSeq(assets) # <<>>
        /\ \A k \in 1..n : IdSeq(assets)[k] = assets[k].id
    BY <2>2, IdSeqType
  <2>4. shown.entry.id = IdSeq(assets)[((index - 1) % n) + 1]
    BY <1>1, <2>3 DEF Served
  <2>5. shown'.entry.id = assets[((index - 2) % n) + 1].id
    BY <2>1 DEF PickPrevious, Serve
  <2> HIDE DEF n
  <2> DEFINE x == index - 1
             i == (x % n) + 1
  <2>6. x \in Int /\ x - 1 = index - 2
    BY <2>2
  <2> HIDE DEF x
  <2>7. x % n \in 0..(n - 1)
    BY <2>2, <2>6, ModRange
  <2>8. (x - 1) % n = IF x % n = 0 THEN n - 1 ELSE (x % n) - 1
    BY <2>2, <2>6, StepBack
  <2>9. i \in 1..n /\ ((x - 1) % n) + 1 = IF i = 1 THEN n ELSE i - 1
    BY <2>2, <2>7, <2>8
  <2>10. shown.entry.id = assets[i].id
    <3>1. shown.entry.id = IdSeq(assets)[i]
      BY <2>4 DEF x
    <3>. QED
      BY <2>3, <2>9, <3>1
  <2>11. shown'.entry.id = assets[IF i = 1 THEN n ELSE i - 1].id
    BY <2>5, <2>6, <2>9
  <2>12. i \in DOMAIN assets
    BY <2>2, <2>9 DEF n
  <2>. QED
    BY <2>10, <2>11, <2>12 DEF n
<1>2. IInv /\ Constructing /\ Served /\ [Next]_vars
        => Constructing' /\ Served' /\ [Back]_vars
  BY <1>1, ServedInvariance
<1>. QED
  BY <1>2, InitServed, Inductive, PTL DEF Spec, PreviousShowsPredecessor

-----------------------------------------------------------------------------

(***************************************************************************)
(* The play windows.                                                       *)
(***************************************************************************)

\* The day before a day has the weekday before.
LEMMA YesterdayIsBefore ==
  ASSUME NEW day \in Int
  PROVE  Yesterday(Weekday(day)) = Weekday(day - 1)
BY DEF Yesterday, Weekday

\* A window that opens on a day can only be open on that day and the next.
LEMMA TwoDays ==
  ASSUME NEW w \in Window, HasTimes(w), NEW t \in Instant, NEW day \in Int,
         OpenFrom(w, day, t)
  PROVE  day = t.day \/ day = t.day - 1
<1> DEFINE k == t.day - day
<1>1. /\ DayLength \in Nat \ {0} /\ t.time \in Times /\ k \in Int
      /\ t.day \in Int
      /\ w.from \in Times /\ w.to \in Times
  BY DayAssumption DEF Window, Instant, HasTimes
<1>2. 0 <= Since(day, t) /\ Since(day, t) < 2 * DayLength
  BY <1>1 DEF OpenFrom, Opens, Closes, Times, Since
<1>3. CASE k <= -1
  <2>1. k * DayLength <= -DayLength
    BY <1>1, <1>3
  <2>. QED
    BY <1>1, <1>2, <2>1 DEF Since, Times
<1>4. CASE k >= 2
  <2>1. k * DayLength >= 2 * DayLength
    BY <1>1, <1>4
  <2>. QED
    BY <1>1, <1>2, <2>1 DEF Since, Times
<1>. QED
  BY <1>1, <1>3, <1>4

\* _matches_play_window() is what its docstring says: each day listed opens
\* an interval, which an overnight window closes on the day after, Sunday to
\* Monday included.
THEOREM WindowIsInterval ==
  ASSUME NEW w \in Window, HasTimes(w), ValidPlayDays(w), NEW t \in Instant
  PROVE  MatchesPlayWindow(w, t) <=> InWindow(w, t, Int)
<1>1. /\ DayLength \in Nat \ {0} /\ t.time \in Times /\ t.day \in Int
      /\ w.from \in Times /\ w.to \in Times
      /\ GetPlayDays(w) = w.days
  BY DayAssumption DEF Window, Instant, HasTimes, GetPlayDays, ValidPlayDays
<1>2. Since(t.day, t) = t.time /\ Since(t.day - 1, t) = DayLength + t.time
  BY <1>1 DEF Since, Times
<1>3. InWindow(w, t, Int) <=>
        \/ Weekday(t.day) \in w.days /\ OpenFrom(w, t.day, t)
        \/ Weekday(t.day - 1) \in w.days /\ OpenFrom(w, t.day - 1, t)
  BY <1>1, TwoDays DEF InWindow
<1>4. CASE ~Overnight(w)
  <2>1. OpenFrom(w, t.day, t) <=> w.from <= t.time /\ t.time < w.to
    BY <1>2, <1>4 DEF OpenFrom, Opens, Closes
  <2>2. ~OpenFrom(w, t.day - 1, t)
    BY <1>1, <1>2, <1>4 DEF OpenFrom, Opens, Closes, Times
  <2>3. MatchesPlayWindow(w, t) <=>
          Weekday(t.day) \in w.days /\ w.from <= t.time /\ t.time < w.to
    BY <1>1, <1>4 DEF MatchesPlayWindow
  <2>. QED
    BY <1>3, <2>1, <2>2, <2>3
<1>5. CASE Overnight(w)
  <2>1. OpenFrom(w, t.day, t) <=> w.from <= t.time
    BY <1>1, <1>2, <1>5 DEF OpenFrom, Opens, Closes, Times
  <2>2. OpenFrom(w, t.day - 1, t) <=> t.time < w.to
    BY <1>1, <1>2, <1>5 DEF OpenFrom, Opens, Closes, Times
  <2>3. t.time < w.to => t.time < w.from
    BY <1>1, <1>5 DEF Overnight, Times
  <2>4. MatchesPlayWindow(w, t) <=>
          \/ w.from <= t.time /\ Weekday(t.day) \in w.days
          \/ t.time < w.to /\ Weekday(t.day - 1) \in w.days
    BY <1>1, <1>5, <2>3, YesterdayIsBefore DEF MatchesPlayWindow
  <2>. QED
    BY <1>3, <2>1, <2>2, <2>4
<1>. QED
  BY <1>4, <1>5

\* An asset without a window filter is never closed by its window, whatever
\* is stored: polling only those with a filter misses no boundary.
THEOREM UnfilteredIsOpen ==
  ASSUME NEW w \in Window, ~HasWindowFilter(w), NEW t \in Instant
  PROVE  MatchesPlayWindow(w, t)
<1>1. Weekday(t.day) \in AllDays
  BY DEF Instant, Weekday, AllDays
<1>. QED
  BY <1>1 DEF HasWindowFilter, MatchesPlayWindow

=============================================================================
