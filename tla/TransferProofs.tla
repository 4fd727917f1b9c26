--------------------------- MODULE TransferProofs ---------------------------
(***************************************************************************)
(* Proofs about ContentImport and Archive, of the whole system of both:    *)
(* every theorem is one of ArchiveSpec, in which imports, the tasks of new *)
(* assets, deletes, a backup and restores interleave. A step of it is one  *)
(* of ContentImport, one of the backup, which leaves that alone, or the    *)
(* unpacking of a restore (ArchiveShape), so that each invariant of        *)
(* ContentImport is shown to be kept by ImportNext and then by a restore,  *)
(* for which the same must hold of the rows in the archive.                *)
(***************************************************************************)
EXTENDS Archive, FiniteSetTheorems, SequenceTheorems, TLAPS

-----------------------------------------------------------------------------
(* Types *)

LEMMA MineIsRow ==
  ASSUME ImportTypeOK, NEW s \in Session
  PROVE  Mine(s) \in Row
BY DEF ImportTypeOK, Mine, Row

LEMMA RemovedSeq ==
  ASSUME NEW S, NEW q \in Seq(S), NEW k \in DOMAIN q
  PROVE  /\ RemoveAt(q, k) \in Seq(S)
         /\ Len(RemoveAt(q, k)) = Len(q) - 1
         /\ \A j \in 1..(Len(q) - 1) :
              RemoveAt(q, k)[j] = IF j < k THEN q[j] ELSE q[j + 1]
<1> DEFINE a == SubSeq(q, 1, k - 1)
           b == SubSeq(q, k + 1, Len(q))
<1>1. k \in 1..Len(q) /\ Len(q) \in Nat
  BY LenProperties
<1>2. /\ a \in Seq(S) /\ Len(a) = k - 1
      /\ \A j \in 1..(k - 1) : a[j] = q[j]
  BY <1>1, SubSeqProperties
<1>3. /\ b \in Seq(S) /\ Len(b) = Len(q) - k
      /\ \A j \in 1..(Len(q) - k) : b[j] = q[k + j]
  BY <1>1, SubSeqProperties
<1> HIDE DEF a, b
<1>4. /\ a \o b \in Seq(S) /\ Len(a \o b) = Len(q) - 1
      /\ \A j \in 1..(Len(q) - 1) : (a \o b)[j] = IF j <= k - 1 THEN a[j] ELSE b[j - (k - 1)]
  <2>1. /\ a \o b \in Seq(S) /\ Len(a \o b) = Len(a) + Len(b)
        /\ \A j \in 1..(Len(a) + Len(b)) :
             (a \o b)[j] = IF j <= Len(a) THEN a[j] ELSE b[j - Len(a)]
    BY <1>2, <1>3, ConcatProperties
  <2>2. Len(a) = k - 1 /\ Len(a) + Len(b) = Len(q) - 1
    BY <1>1, <1>2, <1>3
  <2> QED
    BY <2>1, <2>2
<1>5. RemoveAt(q, k) = a \o b
  BY DEF RemoveAt, a, b
<1>6. ASSUME NEW j \in 1..(Len(q) - 1)
      PROVE  (a \o b)[j] = IF j < k THEN q[j] ELSE q[j + 1]
  <2>1. CASE j < k
    <3>1. j \in 1..(k - 1) /\ j <= k - 1
      BY <1>1, <2>1
    <3> QED BY <1>2, <1>4, <2>1, <3>1
  <2>2. CASE ~(j < k)
    <3>1. j - (k - 1) \in 1..(Len(q) - k) /\ ~(j <= k - 1) /\ k + (j - (k - 1)) = j + 1
      BY <1>1, <2>2
    <3>2. (a \o b)[j] = b[j - (k - 1)]
      BY <1>4, <3>1
    <3>3. b[j - (k - 1)] = q[k + (j - (k - 1))]
      BY <1>3, <3>1
    <3> QED BY <2>2, <3>1, <3>2, <3>3
  <2> QED BY <2>1, <2>2
<1> QED BY <1>4, <1>5, <1>6

LEMMA PushedSeq ==
  ASSUME NEW S, NEW q \in Seq(S), NEW i \in S
  PROVE  /\ <<i>> \o q \in Seq(S)
         /\ Len(<<i>> \o q) = Len(q) + 1
         /\ \A j \in 1..(Len(q) + 1) :
              (<<i>> \o q)[j] = IF j = 1 THEN i ELSE q[j - 1]
<1>1. <<i>> \in Seq(S) /\ Len(<<i>>) = 1 /\ <<i>>[1] = i
  OBVIOUS
<1>2. Len(q) \in Nat
  BY LenProperties
<1> QED BY <1>1, <1>2, ConcatProperties

LEMMA ShelfBounds ==
  ASSUME NEW i
  PROVE  ShelfOf(i) \in Shelves /\ LastShelf \in Shelves /\ ShelfOf(i) <= LastShelf
BY DEF ShelfOf, LastShelf, Shelves, YodeckShelf, ScreenCloudShelf

LEMMA ImportTypeInit == Init => ImportTypeOK
<1> SUFFICES ASSUME Init PROVE ImportTypeOK
  OBVIOUS
<1>1. /\ library \in [Shelves -> Seq(Item)]
      /\ at \in [Session -> Steps] /\ shelf \in [Session -> Shelves]
  BY DEF Init, Steps, Shelves
<1>2. /\ asset \in [Row -> [live : BOOLEAN, stamped : BOOLEAN, processing : BOOLEAN, uri : Uri]]
      /\ task \in [Row -> [at : Tasks, stamped : BOOLEAN]]
      /\ deleting \in [Row -> [at : Deletes, uri : Uri]]
  BY DEF Init, NoAsset, NoTask, NoDelete, Uri, Tasks, Deletes
<1>3. tries \in [Session -> 0..MaxRetries]
  BY ImportAssumption DEF Init
<1> QED BY <1>1, <1>2, <1>3 DEF Init, ImportTypeOK

LEMMA PageIsFinite ==
  ASSUME ImportTypeOK, NEW s \in Session
  PROVE  /\ Page(s) \subseteq DOMAIN library[shelf[s]]
         /\ IsFiniteSet(Page(s)) /\ Cardinality(Page(s)) \in Nat
<1> DEFINE q == library[shelf[s]]
<1>1. q \in Seq(Item) /\ DOMAIN q = 1..Len(q) /\ Len(q) \in Nat
  BY LenProperties DEF ImportTypeOK
<1>2. Page(s) \subseteq 1..Len(q)
  BY <1>1 DEF Page
<1>3. IsFiniteSet(1..Len(q))
  BY <1>1, FS_Interval
<1> QED
  BY <1>1, <1>2, <1>3, FS_Subset, FS_CardinalityType

LEMMA AdvanceIsNat ==
  ASSUME ImportTypeOK, NEW s \in Session
  PROVE  Onward(s) \in Nat
BY PageIsFinite, ImportAssumption DEF Onward, Advance, ImportTypeOK

LEMMA FailedTyped ==
  ASSUME ImportTypeOK, NEW s \in Session,
         failed' = failed \/ failed' = [failed EXCEPT ![s] = @ \cup {item[s]}]
  PROVE  failed' \in [Session -> SUBSET Item]
<1> USE DEF ImportTypeOK
<1>1. CASE failed' = failed
  BY <1>1
<1>2. CASE failed' = [failed EXCEPT ![s] = @ \cup {item[s]}]
  BY <1>2
<1> QED BY <1>1, <1>2

LEMMA BatchTyped ==
  ASSUME ImportTypeOK, NEW s \in Session
  PROVE  Batch(s) \in SUBSET Item
<1>1. library[shelf[s]] \in Seq(Item)
  BY DEF ImportTypeOK
<1>2. \A k \in DOMAIN library[shelf[s]] : library[shelf[s]][k] \in Item
  BY <1>1, LenProperties
<1> QED BY <1>2, PageIsFinite DEF Batch

LEMMA RowEdits ==
  ASSUME ImportTypeOK, NEW r \in Row
  PROVE  /\ [asset EXCEPT ![r].stamped = TRUE] \in [Row -> [live : BOOLEAN, stamped : BOOLEAN, processing : BOOLEAN, uri : Uri]]
         /\ \A b \in BOOLEAN : [asset EXCEPT ![r] = [@ EXCEPT !.processing = FALSE, !.stamped = b]]
                                \in [Row -> [live : BOOLEAN, stamped : BOOLEAN, processing : BOOLEAN, uri : Uri]]
<1> DEFINE Rec == [live : BOOLEAN, stamped : BOOLEAN, processing : BOOLEAN, uri : Uri]
<1>1. asset \in [Row -> Rec] /\ asset[r] \in Rec
  BY DEF ImportTypeOK
<1>2. /\ [asset[r] EXCEPT !.stamped = TRUE] \in Rec
      /\ \A b \in BOOLEAN : [asset[r] EXCEPT !.processing = FALSE, !.stamped = b] \in Rec
  BY <1>1
<1> HIDE DEF Rec
<1>3. \A x \in Rec : [asset EXCEPT ![r] = x] \in [Row -> Rec]
  BY <1>1
<1> QED BY <1>2, <1>3 DEF Rec

LEMMA TaskEdits ==
  ASSUME ImportTypeOK, NEW r \in Row, NEW step \in Tasks
  PROVE  [task EXCEPT ![r].at = step] \in [Row -> [at : Tasks, stamped : BOOLEAN]]
<1> DEFINE Rec == [at : Tasks, stamped : BOOLEAN]
<1>1. task \in [Row -> Rec] /\ task[r] \in Rec
  BY DEF ImportTypeOK
<1>2. [task[r] EXCEPT !.at = step] \in Rec
  BY <1>1
<1> HIDE DEF Rec
<1>3. \A x \in Rec : [task EXCEPT ![r] = x] \in [Row -> Rec]
  BY <1>1
<1> QED BY <1>2, <1>3 DEF Rec

LEMMA ImportTypeStep == ImportTypeOK /\ [ImportNext]_importVars => ImportTypeOK'
<1> SUFFICES ASSUME ImportTypeOK, [ImportNext]_importVars
             PROVE  ImportTypeOK'
  OBVIOUS
<1> USE ImportAssumption DEF ImportTypeOK, Go, Fail, Raise, Step
<1>1. CASE Add
  <2> USE DEF Add, store, progress, history
  <2>1. PICK i \in Item \ known, front \in BOOLEAN :
          /\ known' = known \cup {i}
          /\ library' = [library EXCEPT ![ShelfOf(i)] =
                           IF front THEN <<i>> \o @ ELSE Append(@, i)]
    BY <1>1
  <2>2. ShelfOf(i) \in Shelves
    BY ShelfBounds
  <2>3. /\ <<i>> \o library[ShelfOf(i)] \in Seq(Item)
        /\ Append(library[ShelfOf(i)], i) \in Seq(Item)
    BY <2>2, PushedSeq, AppendProperties
  <2>4. library' \in [Shelves -> Seq(Item)]
    BY <2>1, <2>2, <2>3
  <2>5. /\ late' \in [Session -> SUBSET Item]
        /\ place' \in [Session -> Nat]
        /\ shifted' \in [Session -> BOOLEAN]
    BY <1>1
  <2> QED BY <1>1, <2>1, <2>4, <2>5
<1>2. CASE Discard
  <2> USE DEF Discard, store, progress, history
  <2>0. PICK b \in Shelves : \E k \in DOMAIN library[b] :
          library' = [library EXCEPT ![b] = RemoveAt(@, k)]
    BY <1>2
  <2>1. PICK k \in DOMAIN library[b] :
          library' = [library EXCEPT ![b] = RemoveAt(@, k)]
    BY <2>0
  <2>2. library' \in [Shelves -> Seq(Item)]
    BY <2>1, RemovedSeq
  <2>3. /\ place' \in [Session -> Nat]
        /\ shifted' \in [Session -> BOOLEAN]
    BY <1>2 DEF Reading
  <2> QED BY <1>2, <2>2, <2>3
<1> USE DEF listing, store, progress, history
<1>3. ASSUME NEW s \in Session, Validate(s) PROVE ImportTypeOK'
  BY <1>3, MineIsRow DEF Validate, Steps, Making
<1>4. ASSUME NEW s \in Session, List(s) PROVE ImportTypeOK'
  <2>1. at' \in [Session -> Steps]
    BY <1>4, MineIsRow DEF List, Steps, Making
  <2>2. shelf' \in [Session -> Shelves]
    <3>1. \/ shelf' = shelf
          \/ shelf[s] < LastShelf /\ shelf' = [shelf EXCEPT ![s] = @ + 1]
      BY <1>4 DEF List
    <3>2. CASE shelf' = shelf
      BY <3>2
    <3>3. CASE shelf[s] < LastShelf /\ shelf' = [shelf EXCEPT ![s] = @ + 1]
      <4>1. shelf[s] \in 1..2 /\ LastShelf \in 1..2
        BY ShelfBounds DEF Shelves
      <4>2. shelf[s] + 1 \in 1..2
        BY <3>3, <4>1
      <4> QED BY <3>3, <4>2 DEF Shelves
    <3> QED BY <3>1, <3>2, <3>3
  <2>3. place' \in [Session -> Nat]
    BY <1>4, AdvanceIsNat DEF List, Onward, Advance
  <2>4. listed' \in [Session -> SUBSET Item]
    <3>1. listed' = listed \/ listed' = [listed EXCEPT ![s] = @ \cup Batch(s)]
      BY <1>4 DEF List
    <3>2. Batch(s) \in SUBSET Item /\ listed[s] \in SUBSET Item
      BY BatchTyped
    <3> HIDE DEF Batch
    <3>3. CASE listed' = listed
      BY <3>3
    <3>4. CASE listed' = [listed EXCEPT ![s] = @ \cup Batch(s)]
      <4>1. listed[s] \cup Batch(s) \in SUBSET Item
        BY <3>2
      <4> QED BY <3>4, <4>1
    <3> QED BY <3>1, <3>3, <3>4
  <2>5. UNCHANGED <<platform, unpaged, library, known, shifted, late, todo, item, failed, tries, temp, asset, disk, task, deleting, excused, lost, litter>>
    BY <1>4 DEF List
  <2> QED BY <2>1, <2>2, <2>3, <2>4, <2>5
<1>5. ASSUME NEW s \in Session, Choose(s) PROVE ImportTypeOK'
  <2>1. at' \in [Session -> Steps]
    BY <1>5, MineIsRow DEF Choose, Steps, Making
  <2>2. todo' \in [Session -> SUBSET Item]
    <3>1. PICK some \in SUBSET {i \in listed[s] : Importable(i)} :
            todo' = [todo EXCEPT ![s] = some]
      BY <1>5 DEF Choose
    <3> QED BY <3>1
  <2>3. UNCHANGED <<platform, unpaged, library, known, shelf, place, listed, shifted, late, item, failed, tries, temp, asset, disk, task, deleting, excused, lost, litter>>
    BY <1>5 DEF Choose
  <2> QED BY <2>1, <2>2, <2>3
<1>6. ASSUME NEW s \in Session, Pick(s) PROVE ImportTypeOK'
  <2>0. \/ at' = [at EXCEPT ![s] = "done"] /\ UNCHANGED <<todo, item>>
        \/ \E i \in todo[s] : /\ todo' = [todo EXCEPT ![s] = @ \ {i}]
                              /\ item' = [item EXCEPT ![s] = i]
                              /\ at' = [at EXCEPT ![s] = "find"]
    BY <1>6 DEF Pick
  <2>1. at' \in [Session -> Steps]
    <3>1. at' = [at EXCEPT ![s] = "done"] \/ at' = [at EXCEPT ![s] = "find"]
      BY <2>0, Zenon
    <3> QED BY <3>1 DEF Steps
  <2>2. todo' \in [Session -> SUBSET Item]
    <3>1. CASE todo' = todo
      BY <3>1
    <3>2. CASE \E i \in todo[s] : todo' = [todo EXCEPT ![s] = @ \ {i}]
      BY <3>2
    <3> QED BY <2>0, <3>1, <3>2
  <2>3. item' \in [Session -> Item]
    <3>1. CASE item' = item
      BY <3>1
    <3>2. ASSUME NEW i \in todo[s], item' = [item EXCEPT ![s] = i]
          PROVE  item' \in [Session -> Item]
      <4>1. i \in Item
        OBVIOUS
      <4> QED BY <3>2, <4>1
    <3> QED BY <2>0, <3>1, <3>2, Zenon
  <2>4. UNCHANGED <<platform, unpaged, library, known, shelf, place, listed, shifted, late, failed, tries, temp, asset, disk, task, deleting, excused, lost, litter>>
    BY <1>6 DEF Pick
  <2> QED BY <2>1, <2>2, <2>3, <2>4
<1>7. ASSUME NEW s \in Session, Find(s) PROVE ImportTypeOK'
  <2>1. at' \in [Session -> Steps]
    <3>1. \E x \in {"pick", "detail"} : at' = [at EXCEPT ![s] = x]
      BY <1>7 DEF Find
    <3> QED BY <3>1 DEF Steps, Making
  <2>2. excused' \in SUBSET Item
    BY <1>7, MineIsRow DEF Find, Left
  <2>3. UNCHANGED <<platform, unpaged, library, known, shelf, place, listed, shifted, late, todo, item, failed, tries, temp, asset, disk, task, deleting, lost, litter>>
    BY <1>7 DEF Find
  <2> QED BY <2>1, <2>2, <2>3
<1>8. ASSUME NEW s \in Session, Detail(s) PROVE ImportTypeOK'
  <2>1. at' \in [Session -> Steps]
    <3>1. \E x \in {"prepare", "pick", "fetch"} : at' = [at EXCEPT ![s] = x]
      <4>1. CASE YodeckItem(s)
        BY <4>1 DEF YodeckItem
      <4>2. CASE ScreenCloudLink(s) \/ ScreenCloudFile(s)
        BY <4>2 DEF ScreenCloudLink, ScreenCloudFile
      <4>3. CASE XiboItem(s) \/ PiSignageItem(s)
        BY <4>3 DEF XiboItem, PiSignageItem
      <4> QED BY <1>8, <4>1, <4>2, <4>3 DEF Detail
    <3> QED BY <3>1 DEF Steps, Making
  <2>2. failed' \in [Session -> SUBSET Item]
    <3>1. failed' = failed \/ failed' = [failed EXCEPT ![s] = @ \cup {item[s]}]
      BY <1>8 DEF Detail, YodeckItem, ScreenCloudLink, ScreenCloudFile, XiboItem, PiSignageItem
    <3> QED BY <3>1, FailedTyped
  <2>3. UNCHANGED <<platform, unpaged, library, known, shelf, place, listed, shifted, late, todo, item, tries, temp, asset, disk, task, deleting, excused, lost, litter>>
    BY <1>8 DEF Detail
  <2> QED BY <2>1, <2>2, <2>3
<1>9. ASSUME NEW s \in Session, Fetch(s) PROVE ImportTypeOK'
  BY <1>9, MineIsRow DEF Fetch, Steps, Making
<1>10. ASSUME NEW s \in Session, Fetched(s) PROVE ImportTypeOK'
  <2>1. at' \in [Session -> Steps]
    BY <1>10, MineIsRow DEF Fetched, Steps, Making
  <2>2. temp' \in SUBSET (Row \X {"part", "staged"})
    BY <1>10, MineIsRow DEF Fetched, Unlinked
  <2>3. failed' \in [Session -> SUBSET Item]
    <3>1. failed' = failed \/ failed' = [failed EXCEPT ![s] = @ \cup {item[s]}]
      BY <1>10 DEF Fetched
    <3> QED BY <3>1, FailedTyped
  <2>4. UNCHANGED <<platform, unpaged, library, known, shelf, place, listed, shifted, late, todo, item, tries, asset, disk, task, deleting, excused, lost, litter>>
    BY <1>10 DEF Fetched
  <2> QED BY <2>1, <2>2, <2>3, <2>4
<1>11. ASSUME NEW s \in Session, Prepare(s) PROVE ImportTypeOK'
  <2>1. at' \in [Session -> Steps]
    BY <1>11, MineIsRow DEF Prepare, Steps, Making
  <2>2. temp' \in SUBSET (Row \X {"part", "staged"})
    BY <1>11, MineIsRow DEF Prepare, Unlinked
  <2>3. disk' \in SUBSET File
    BY <1>11, MineIsRow DEF Prepare, File, Uri
  <2>4. failed' \in [Session -> SUBSET Item]
    <3>1. failed' = failed \/ failed' = [failed EXCEPT ![s] = @ \cup {item[s]}]
      BY <1>11 DEF Prepare
    <3> QED BY <3>1, FailedTyped
  <2>5. UNCHANGED <<platform, unpaged, library, known, shelf, place, listed, shifted, late, todo, item, tries, asset, task, deleting, excused, lost, litter>>
    BY <1>11 DEF Prepare
  <2> QED BY <2>1, <2>2, <2>3, <2>4, <2>5
<1>12. ASSUME NEW s \in Session, Create(s) PROVE ImportTypeOK'
  <2>1. at' \in [Session -> Steps]
    BY <1>12, MineIsRow DEF Create, Steps, Making
  <2>2. asset' \in [Row -> [live : BOOLEAN, stamped : BOOLEAN, processing : BOOLEAN, uri : Uri]]
    <3>1. asset' = asset \/ asset' = [asset EXCEPT ![Mine(s)] = NewAsset(Mine(s))]
      BY <1>12 DEF Create
    <3>2. NewAsset(Mine(s)) \in [live : BOOLEAN, stamped : BOOLEAN, processing : BOOLEAN, uri : Uri]
      BY DEF NewAsset, NoAsset, Uri
    <3> QED BY <3>1, <3>2
  <2>3. failed' \in [Session -> SUBSET Item]
    <3>1. failed' = failed \/ failed' = [failed EXCEPT ![s] = @ \cup {item[s]}]
      BY <1>12 DEF Create
    <3> QED BY <3>1, FailedTyped
  <2>4. litter' \in SUBSET Row
    BY <1>12, MineIsRow DEF Create
  <2>5. UNCHANGED <<platform, unpaged, library, known, shelf, place, listed, shifted, late, todo, item, tries, temp, disk, task, deleting, excused, lost>>
    BY <1>12 DEF Create
  <2> QED BY <2>1, <2>2, <2>3, <2>4, <2>5
<1>13. ASSUME NEW s \in Session, Dispatch(s) PROVE ImportTypeOK'
  <2>1. at' \in [Session -> Steps]
    BY <1>13, MineIsRow DEF Dispatch, Steps, Making
  <2>2. task' \in [Row -> [at : Tasks, stamped : BOOLEAN]]
    <3>1. task' = task \/ task' = [task EXCEPT ![Mine(s)].at = "queued"]
      BY <1>13 DEF Dispatch
    <3>2. Mine(s) \in Row
      BY MineIsRow
    <3>3. task[Mine(s)] \in [at : Tasks, stamped : BOOLEAN]
      BY <3>2
    <3>4. [task[Mine(s)] EXCEPT !.at = "queued"] \in [at : Tasks, stamped : BOOLEAN]
      BY <3>3 DEF Tasks
    <3>5. CASE task' = task
      BY <3>5
    <3>6. CASE task' = [task EXCEPT ![Mine(s)].at = "queued"]
      BY <3>2, <3>4, <3>6
    <3> QED BY <3>1, <3>5, <3>6
  <2>3. failed' \in [Session -> SUBSET Item]
    <3>1. failed' = failed \/ failed' = [failed EXCEPT ![s] = @ \cup {item[s]}]
      BY <1>13 DEF Dispatch
    <3> QED BY <3>1, FailedTyped
  <2>4. excused' \in SUBSET Item
    BY <1>13, MineIsRow DEF Dispatch, Left
  <2>5. UNCHANGED <<platform, unpaged, library, known, shelf, place, listed, shifted, late, todo, item, tries, temp, asset, disk, deleting, lost, litter>>
    BY <1>13 DEF Dispatch
  <2> QED BY <2>1, <2>2, <2>3, <2>4, <2>5
<1>14. ASSUME NEW s \in Session, Order(s) PROVE ImportTypeOK'
  <2>1. at' \in [Session -> Steps]
    BY <1>14, MineIsRow DEF Order, Steps, Making
  <2>2. failed' \in [Session -> SUBSET Item]
    <3>1. failed' = failed \/ failed' = [failed EXCEPT ![s] = @ \cup {item[s]}]
      BY <1>14 DEF Order
    <3> QED BY <3>1, FailedTyped
  <2>3. UNCHANGED <<platform, unpaged, library, known, shelf, place, listed, shifted, late, todo, item, tries, temp, asset, disk, task, deleting, excused, lost, litter>>
    BY <1>14 DEF Order
  <2> QED BY <2>1, <2>2, <2>3
<1>15. ASSUME NEW s \in Session, Stamp(s) PROVE ImportTypeOK'
  <2>1. at' \in [Session -> Steps]
    BY <1>15, MineIsRow DEF Stamp, Steps, Making
  <2>2. asset' \in [Row -> [live : BOOLEAN, stamped : BOOLEAN, processing : BOOLEAN, uri : Uri]]
    <3>1. asset' = asset \/ asset' = [asset EXCEPT ![Mine(s)].stamped = TRUE]
      BY <1>15 DEF Stamp, Sourced
    <3>2. Mine(s) \in Row
      BY MineIsRow
    <3>3. CASE asset' = asset
      BY <3>3
    <3>4. CASE asset' = [asset EXCEPT ![Mine(s)].stamped = TRUE]
      BY <3>2, <3>4, RowEdits
    <3> QED BY <3>1, <3>3, <3>4
  <2>3. failed' \in [Session -> SUBSET Item]
    <3>1. failed' = failed \/ failed' = [failed EXCEPT ![s] = @ \cup {item[s]}]
      BY <1>15 DEF Stamp
    <3> QED BY <3>1, FailedTyped
  <2>4. UNCHANGED <<platform, unpaged, library, known, shelf, place, listed, shifted, late, todo, item, tries, temp, disk, task, deleting, excused, lost, litter>>
    BY <1>15 DEF Stamp
  <2> QED BY <2>1, <2>2, <2>3, <2>4
<1>16. ASSUME NEW s \in Session, Die(s) PROVE ImportTypeOK'
  <2>1. at' \in [Session -> Steps]
    BY <1>16, MineIsRow DEF Die, Steps, Making
  <2>2. failed' \in [Session -> SUBSET Item]
    BY <1>16, MineIsRow DEF Die
  <2>3. excused' \in SUBSET Item
    BY <1>16, MineIsRow DEF Die, Left
  <2>4. litter' \in SUBSET Row
    BY <1>16, MineIsRow DEF Die
  <2>5. UNCHANGED <<platform, unpaged, library, known, shelf, place, listed, shifted, late, todo, item, tries, temp, asset, disk, task, deleting, lost>>
    BY <1>16 DEF Die
  <2> QED BY <2>1, <2>2, <2>3, <2>4, <2>5
<1>17. ASSUME NEW s \in Session, Retry(s) PROVE ImportTypeOK'
  BY <1>17, MineIsRow DEF Retry, Steps, Making
<1>18. ASSUME NEW r \in Row, Take(r) PROVE ImportTypeOK'
  BY <1>18 DEF Take, Tasks, NoTask, NoAsset, Uri
<1>19. ASSUME NEW r \in Row, Convert(r) PROVE ImportTypeOK'
  <2>1. task' \in [Row -> [at : Tasks, stamped : BOOLEAN]]
    <3>1. PICK step \in {"probed", "unlink", "error"} : task' = [task EXCEPT ![r].at = step]
      BY <1>19 DEF Convert, Step
    <3>2. step \in Tasks
      BY DEF Tasks
    <3> QED BY <3>1, <3>2, TaskEdits
  <2>2. disk' \in SUBSET File
    BY <1>19 DEF Convert, File, Uri
  <2>3. litter' \in SUBSET Row
    BY <1>19 DEF Convert
  <2>4. UNCHANGED <<platform, unpaged, library, known, at, shelf, place, listed, shifted, late, todo, item, failed, tries, temp, asset, deleting, excused, lost>>
    BY <1>19 DEF Convert
  <2> QED BY <2>1, <2>2, <2>3, <2>4
<1>20. ASSUME NEW r \in Row, Unlink(r) PROVE ImportTypeOK'
  <2>1. disk' \in SUBSET File /\ litter' \in SUBSET Row
        /\ task' = [task EXCEPT ![r].at = "converted"]
    BY <1>20 DEF Unlink, Removal
  <2>2. task' \in [Row -> [at : Tasks, stamped : BOOLEAN]]
    BY <2>1, TaskEdits DEF Tasks
  <2>3. UNCHANGED <<platform, unpaged, library, known, at, shelf, place, listed, shifted, late, todo, item, failed, tries, temp, asset, deleting, excused, lost>>
    BY <1>20 DEF Unlink
  <2> QED BY <2>1, <2>2, <2>3
<1>21. ASSUME NEW r \in Row, Commit(r) PROVE ImportTypeOK'
  <2>1. asset' \in [Row -> [live : BOOLEAN, stamped : BOOLEAN, processing : BOOLEAN, uri : Uri]]
    BY <1>21 DEF Commit, NewAsset, NoAsset, Sourced, Uri
  <2>2. lost' \in SUBSET Item
    BY <1>21 DEF Commit, TakenBack, Row
  <2>3. task' \in [Row -> [at : Tasks, stamped : BOOLEAN]]
    BY <1>21 DEF Commit, Tasks, NoTask
  <2>4. UNCHANGED <<platform, unpaged, library, known, at, shelf, place, listed, shifted, late, todo, item, failed, tries, temp, disk, deleting, excused, litter>>
    BY <1>21 DEF Commit
  <2> QED BY <2>1, <2>2, <2>3, <2>4
<1>22. ASSUME NEW r \in Row, RejectRead(r) PROVE ImportTypeOK'
  BY <1>22 DEF RejectRead, Tasks, NoTask
<1>23. ASSUME NEW r \in Row, RejectWrite(r) PROVE ImportTypeOK'
  <2>1. asset' \in [Row -> [live : BOOLEAN, stamped : BOOLEAN, processing : BOOLEAN, uri : Uri]]
    <3>1. task[r].stamped \in BOOLEAN
      OBVIOUS
    <3> QED BY <1>23, <3>1, RowEdits DEF RejectWrite
  <2>2. lost' \in SUBSET Item
    BY <1>23 DEF RejectWrite, TakenBack, Row
  <2>3. task' \in [Row -> [at : Tasks, stamped : BOOLEAN]]
    BY <1>23 DEF RejectWrite, Tasks, NoTask
  <2>4. UNCHANGED <<platform, unpaged, library, known, at, shelf, place, listed, shifted, late, todo, item, failed, tries, temp, disk, deleting, excused, litter>>
    BY <1>23 DEF RejectWrite
  <2> QED BY <2>1, <2>2, <2>3, <2>4
<1>24. ASSUME NEW r \in Row, TaskDies(r) PROVE ImportTypeOK'
  BY <1>24 DEF TaskDies, Tasks, NoTask
<1>25. ASSUME NEW r \in Row, Requeue(r) PROVE ImportTypeOK'
  <2>1. task' \in [Row -> [at : Tasks, stamped : BOOLEAN]]
    BY <1>25, TaskEdits DEF Requeue, Tasks
  <2>2. UNCHANGED <<platform, unpaged, library, known, at, shelf, place, listed, shifted, late, todo, item, failed, tries, temp, asset, disk, deleting, excused, lost, litter>>
    BY <1>25 DEF Requeue
  <2> QED BY <2>1, <2>2
<1>26. ASSUME NEW r \in Row, DeleteLoad(r) \/ DeleteDies(r) PROVE ImportTypeOK'
  <2>1. \E step \in Deletes, u \in Uri : deleting' = [deleting EXCEPT ![r] = [at |-> step, uri |-> u]]
    <3>1. asset[r].uri \in Uri
      OBVIOUS
    <3> QED BY <1>26, <3>1 DEF DeleteLoad, DeleteDies, NoDelete, Deletes, Uri
  <2>2. deleting' \in [Row -> [at : Deletes, uri : Uri]]
    BY <2>1
  <2>3. UNCHANGED <<platform, unpaged, library, known, at, shelf, place, listed, shifted, late, todo, item, failed, tries, temp, asset, disk, task, excused, lost, litter>>
    BY <1>26 DEF DeleteLoad, DeleteDies
  <2> QED BY <2>2, <2>3
<1>27. ASSUME NEW r \in Row, DeleteFile(r) PROVE ImportTypeOK'
  <2>1. disk' \in SUBSET File /\ litter' \in SUBSET Row
    BY <1>27 DEF DeleteFile, Removal
  <2>2. deleting' \in [Row -> [at : Deletes, uri : Uri]]
    <3>1. [deleting[r] EXCEPT !.at = "row"] \in [at : Deletes, uri : Uri]
      <4>1. deleting[r] \in [at : Deletes, uri : Uri]
        OBVIOUS
      <4> QED BY <4>1 DEF Deletes
    <3> QED BY <1>27, <3>1 DEF DeleteFile
  <2>3. UNCHANGED <<platform, unpaged, library, known, at, shelf, place, listed, shifted, late, todo, item, failed, tries, temp, asset, task, excused, lost>>
    BY <1>27 DEF DeleteFile
  <2> QED BY <2>1, <2>2, <2>3
<1>28. ASSUME NEW r \in Row, DeleteRow(r) PROVE ImportTypeOK'
  BY <1>28 DEF DeleteRow, NoAsset, NoDelete, Deletes, Uri
<1>29. CASE UNCHANGED importVars
  BY <1>29 DEF importVars
<1> QED
  BY <1>1, <1>2, <1>3, <1>4, <1>5, <1>6, <1>7, <1>8, <1>9, <1>10, <1>11, <1>12, <1>13, <1>14, <1>15, <1>16, <1>17, <1>18, <1>19, <1>20, <1>21, <1>22, <1>23, <1>24,
     <1>25, <1>26, <1>27, <1>28, <1>29
     DEF ImportNext, Account, Import, Continue, Others, Task, Delete

-----------------------------------------------------------------------------
(* No twins *)

Early == {"detail", "fetch", "fetching", "prepare", "create"}

Safe(i) == i \notin excused \cup lost

\* Imports of an item that nothing excuses do not overlap.
OneMaker ==
  \A s, t \in Session :
    at[s] \in Making /\ at[t] \in Making /\ item[s] = item[t] /\ Safe(item[s]) => s = t

\* Its row has its source, or the import that made it is about to write it.
StampedOrOwn ==
  \A r \in Row : asset[r].live /\ Safe(r[2]) =>
    asset[r].stamped \/ (at[r[1]] \in Unstamped /\ r = Mine(r[1]))

\* An import that has yet to make the row of an item is not too late.
NoneBefore ==
  \A s \in Session, r \in Row :
    at[s] \in Early /\ Safe(item[s]) /\ r[2] = item[s] => ~asset[r].live

TwinInv == OneMaker /\ StampedOrOwn /\ NoneBefore /\ NoTwins

LEMMA TwinSteady ==
  ASSUME ImportTypeOK, TwinInv, NEW s \in Session, NEW x,
         asset' = asset, item' = item, tries' = tries,
         excused \subseteq excused', lost \subseteq lost',
         at' = [at EXCEPT ![s] = x],
         x \in Making => at[s] \in Making,
         x \in Early => at[s] \in Early,
         at[s] \in Unstamped =>
           x \in Unstamped \/ item[s] \in excused' \/ ~asset[Mine(s)].live
  PROVE  TwinInv'
<1> USE DEF TwinInv, Safe
<1>1. /\ \A t \in Session : at'[t] = IF t = s THEN x ELSE at[t]
      /\ \A i : Safe(i)' => Safe(i)
  BY DEF ImportTypeOK
<1>2. OneMaker'
  BY <1>1 DEF OneMaker
<1>3. StampedOrOwn'
  <2> SUFFICES ASSUME NEW r \in Row, asset[r].live, Safe(r[2])',
                      ~asset[r].stamped
               PROVE  at'[r[1]] \in Unstamped /\ r = Mine(r[1])'
    BY DEF StampedOrOwn
  <2>1. at[r[1]] \in Unstamped /\ r = Mine(r[1])
    BY <1>1 DEF StampedOrOwn
  <2>2. r[1] \in Session /\ (r = Mine(r[1]) => r[2] = item[r[1]])
    BY DEF Row, Mine
  <2> QED BY <1>1, <2>1, <2>2 DEF Mine
<1>4. NoneBefore'
  BY <1>1 DEF NoneBefore
<1>5. NoTwins'
  BY <1>1 DEF NoTwins
<1> QED BY <1>2, <1>3, <1>4, <1>5

LEMMA TwinIdle ==
  ASSUME ImportTypeOK, TwinInv, NEW s \in Session,
         UNCHANGED <<asset, excused, lost>>,
         \A t \in Session \ {s} : at'[t] = at[t] /\ item'[t] = item[t] /\ tries'[t] = tries[t],
         at[s] \notin Making, at'[s] \notin Making
  PROVE  TwinInv'
<1> USE DEF TwinInv, Safe
<1>1. OneMaker'
  BY DEF OneMaker
<1>2. StampedOrOwn'
  <2> SUFFICES ASSUME NEW r \in Row, asset[r].live, Safe(r[2]), ~asset[r].stamped
               PROVE  at'[r[1]] \in Unstamped /\ r = Mine(r[1])'
    BY DEF StampedOrOwn
  <2>1. at[r[1]] \in Unstamped /\ r = Mine(r[1])
    BY DEF StampedOrOwn
  <2>2. r[1] \in Session \ {s}
    BY <2>1 DEF Row, Unstamped, Making
  <2> QED BY <2>1, <2>2 DEF Mine
<1>3. NoneBefore'
  BY DEF NoneBefore, Early, Making
<1>4. NoTwins'
  BY DEF NoTwins
<1> QED BY <1>1, <1>2, <1>3, <1>4

LEMMA TwinFind ==
  ASSUME ImportTypeOK, TwinInv, NEW s \in Session, Find(s)
  PROVE  TwinInv'
<1> USE DEF Find, progress, store
<1>1. CASE Imported(item[s])
  BY <1>1, TwinSteady DEF Go, Making, Early, Unstamped
<1>2. CASE ~Imported(item[s])
  <2> USE DEF TwinInv, Safe
  <2>1. /\ \A t \in Session : at'[t] = IF t = s THEN "detail" ELSE at[t]
        /\ UNCHANGED <<item, tries, asset, lost>>
        /\ excused' = IF MakersOf(item[s]) = {} THEN excused ELSE excused \cup {item[s]}
        /\ at[s] = "find"
    BY <1>2 DEF Go, ImportTypeOK
  <2>2. \A i : Safe(i)' => Safe(i)
    BY <2>1
  <2>3. Safe(item[s])' => \A t \in Session : ~(at[t] \in Making /\ item[t] = item[s])
    BY <2>1 DEF MakersOf
  <2>4. OneMaker'
    BY <2>1, <2>2, <2>3 DEF OneMaker
  <2>5. StampedOrOwn'
    BY <2>1, <2>2 DEF StampedOrOwn, Mine, Row, Unstamped
  <2>6. NoneBefore'
    <3> SUFFICES ASSUME NEW t \in Session, NEW r \in Row, at'[t] \in Early, Safe(item[t])',
                        r[2] = item[t], asset[r].live
                 PROVE  FALSE
      BY <2>1 DEF NoneBefore
    <3>1. CASE t # s
      BY <2>1, <2>2, <3>1 DEF NoneBefore
    <3>2. CASE t = s
      <4>1. ~asset[r].stamped
        BY <1>2, <3>2 DEF Imported
      <4>2. at[r[1]] \in Unstamped /\ r = Mine(r[1])
        BY <2>2, <4>1 DEF StampedOrOwn
      <4>3. r[1] \in Session /\ item[r[1]] = item[s]
        BY <3>2, <4>2 DEF Row, Mine
      <4> QED BY <2>3, <3>2, <4>2, <4>3 DEF Unstamped, Making
    <3> QED BY <3>1, <3>2
  <2>7. NoTwins'
    BY <2>1, <2>2 DEF NoTwins
  <2> QED BY <2>4, <2>5, <2>6, <2>7
<1> QED BY <1>1, <1>2

LEMMA TwinCreate ==
  ASSUME ImportTypeOK, TwinInv, NEW s \in Session, Create(s)
  PROVE  TwinInv'
<1> USE DEF Create
<1>1. CASE Raise(s) /\ asset' = asset
  <2>1. PICK x \in {"ended", "pick"} : at' = [at EXCEPT ![s] = x]
    BY <1>1 DEF Raise, Go
  <2> QED BY <1>1, <2>1, TwinSteady DEF Making, Early, Unstamped
<1>2. CASE asset' = [asset EXCEPT ![Mine(s)] = NewAsset(Mine(s))] /\ Go(s, "dispatch")
  <2> USE DEF TwinInv, Safe
  <2>1. /\ \A t \in Session : at'[t] = IF t = s THEN "dispatch" ELSE at[t]
        /\ UNCHANGED <<item, tries, excused, lost>>
        /\ at[s] = "create"
        /\ Mine(s) \in Row /\ Mine(s)[1] = s /\ Mine(s)[2] = item[s]
        /\ \A r \in Row : asset'[r] = IF r = Mine(s) THEN NewAsset(r) ELSE asset[r]
    BY <1>2, MineIsRow DEF Go, ImportTypeOK, Mine
  <2>2. OneMaker'
    BY <2>1 DEF OneMaker, Making
  <2>3. Safe(item[s]) => \A r \in Row : r[2] = item[s] => ~asset[r].live
    BY <2>1 DEF NoneBefore, Early
  <2>4. StampedOrOwn'
    <3> SUFFICES ASSUME NEW r \in Row, asset'[r].live, Safe(r[2]), ~asset'[r].stamped
                 PROVE  at'[r[1]] \in Unstamped /\ r = Mine(r[1])'
      BY <2>1 DEF StampedOrOwn
    <3>1. CASE r = Mine(s)
      BY <2>1, <3>1 DEF Unstamped, Mine
    <3>2. CASE r # Mine(s)
      <4>1. at[r[1]] \in Unstamped /\ r = Mine(r[1])
        BY <2>1, <3>2 DEF StampedOrOwn
      <4> QED BY <2>1, <3>2, <4>1 DEF Unstamped, Mine, Row
    <3> QED BY <3>1, <3>2
  <2>5. NoneBefore'
    <3> SUFFICES ASSUME NEW t \in Session, NEW r \in Row, at'[t] \in Early, Safe(item[t]),
                        r[2] = item[t], asset'[r].live
                 PROVE  FALSE
      BY <2>1 DEF NoneBefore
    <3>1. t # s /\ at[t] \in Early
      BY <2>1 DEF Early
    <3>2. r = Mine(s)
      BY <2>1, <3>1 DEF NoneBefore
    <3> QED BY <2>1, <3>1, <3>2 DEF OneMaker, Making, Early
  <2>6. NoTwins'
    BY <2>1, <2>3 DEF NoTwins
  <2> QED BY <2>2, <2>4, <2>5, <2>6
<1> QED BY <1>1, <1>2

LEMMA TwinStamp ==
  ASSUME ImportTypeOK, TwinInv, NEW s \in Session, Stamp(s)
  PROVE  TwinInv'
<1> USE DEF Stamp
<1>1. CASE ~asset[Mine(s)].live
  <2>1. PICK x \in {"ended", "pick"} : at' = [at EXCEPT ![s] = x]
    BY <1>1 DEF Raise, Go
  <2> QED BY <1>1, <2>1, TwinSteady DEF Making, Early, history
<1>2. CASE asset[Mine(s)].live
  <2> USE DEF TwinInv, Safe
  <2>0. /\ Mine(s) \in Row
        /\ asset' = [asset EXCEPT ![Mine(s)].stamped = TRUE]
    BY <1>2, MineIsRow DEF Sourced
  <2>1. /\ \A t \in Session : at'[t] = IF t = s THEN "pick" ELSE at[t]
        /\ UNCHANGED <<item, tries, excused, lost>>
        /\ Mine(s) \in Row
        /\ \A r \in Row : r # Mine(s) => asset'[r] = asset[r]
        /\ asset'[Mine(s)].stamped = TRUE /\ asset'[Mine(s)].live
    BY <1>2, <2>0 DEF Go, ImportTypeOK, history
  <2>2. OneMaker'
    BY <2>1 DEF OneMaker, Making
  <2>3. StampedOrOwn'
    <3> SUFFICES ASSUME NEW r \in Row, asset[r].live, Safe(r[2]), ~asset[r].stamped,
                        r # Mine(s)
                 PROVE  at'[r[1]] \in Unstamped /\ r = Mine(r[1])'
      BY <2>1 DEF StampedOrOwn
    <3>1. at[r[1]] \in Unstamped /\ r = Mine(r[1])
      BY DEF StampedOrOwn
    <3> QED BY <2>1, <3>1 DEF Mine, Row
  <2>4. NoneBefore'
    BY <2>1 DEF NoneBefore, Early
  <2>5. NoTwins'
    BY <2>1 DEF NoTwins
  <2> QED BY <2>2, <2>3, <2>4, <2>5
<1> QED BY <1>1, <1>2

\* What a task or a delete does to the rows
LEMMA TwinRows ==
  ASSUME ImportTypeOK, TwinInv, UNCHANGED <<at, item, tries, excused>>,
         lost \subseteq lost',
         \A r \in Row : /\ asset'[r].live => asset[r].live
                        /\ asset'[r].live /\ asset[r].stamped
                             => asset'[r].stamped \/ r[2] \in lost'
  PROVE  TwinInv'
<1> USE DEF TwinInv, Safe
<1>1. \A i : Safe(i)' => Safe(i)
  OBVIOUS
<1>2. OneMaker'
  BY <1>1 DEF OneMaker
<1>3. StampedOrOwn'
  BY <1>1 DEF StampedOrOwn, Mine
<1>4. NoneBefore'
  BY <1>1 DEF NoneBefore
<1>5. NoTwins'
  BY <1>1 DEF NoTwins
<1> QED BY <1>2, <1>3, <1>4, <1>5

LEMMA TwinStep ==
  ASSUME ImportTypeOK, TwinInv, [ImportNext]_importVars
  PROVE  TwinInv'
<1> USE DEF store, progress, history, Go, Fail, Raise
<1>1. CASE Account
  BY <1>1 DEF Account, Add, Discard, TwinInv, OneMaker, StampedOrOwn, NoneBefore, NoTwins,
              Safe, Mine
<1>2. ASSUME NEW s \in Session, Validate(s) \/ List(s) \/ Choose(s) \/ Pick(s) \/ Retry(s)
      PROVE  TwinInv'
  <2>1. /\ UNCHANGED <<asset, excused, lost>>
        /\ at[s] \notin Making /\ at'[s] \notin Making
    BY <1>2 DEF Validate, List, Choose, Pick, Retry, Making, ImportTypeOK
  <2>2. \A t \in Session \ {s} : at'[t] = at[t] /\ item'[t] = item[t] /\ tries'[t] = tries[t]
    BY <1>2 DEF Validate, List, Choose, Pick, Retry, ImportTypeOK
  <2> QED BY <2>1, <2>2, TwinIdle
<1>3. ASSUME NEW s \in Session, Detail(s) \/ Fetch(s) \/ Fetched(s) \/ Prepare(s)
      PROVE  TwinInv'
  <2>1. /\ at[s] \in Early
        /\ UNCHANGED <<asset, item, tries, excused, lost>>
    BY <1>3 DEF Detail, Fetch, Fetched, Prepare, Early
  <2>2. \E x : at' = [at EXCEPT ![s] = x]
    BY <1>3 DEF Detail, Fetch, Fetched, Prepare, YodeckItem, ScreenCloudLink, ScreenCloudFile,
                XiboItem, PiSignageItem
  <2> QED BY <2>1, <2>2, TwinSteady DEF Early, Making, Unstamped
<1>4. ASSUME NEW s \in Session, Dispatch(s) \/ Order(s) \/ Die(s)
      PROVE  TwinInv'
  <2>1. /\ at[s] \in Making \cup {"find"}
        /\ UNCHANGED <<asset, item, tries, lost>> /\ excused \subseteq excused'
    BY <1>4 DEF Dispatch, Order, Die, Making
  <2>2. PICK x \in {"order", "stamp", "pick", "ended"} :
          /\ at' = [at EXCEPT ![s] = x]
          /\ at[s] \in Unstamped =>
               x \in Unstamped \/ item[s] \in excused' \/ ~asset[Mine(s)].live
          /\ x \in {"order", "stamp"} => at[s] \in Unstamped
    BY <1>4 DEF Dispatch, Order, Die, Unstamped, Left
  <2> QED BY <2>1, <2>2, TwinSteady DEF Early, Making, Unstamped
<1>5. ASSUME NEW r \in Row,
             \/ Take(r) \/ Convert(r) \/ Unlink(r) \/ RejectRead(r) \/ TaskDies(r)
             \/ Requeue(r) \/ DeleteLoad(r) \/ DeleteFile(r) \/ DeleteDies(r)
      PROVE  TwinInv'
  <2>1. UNCHANGED <<asset, at, item, tries, excused, lost>>
    BY <1>5 DEF Take, Convert, Unlink, RejectRead, TaskDies, Requeue, DeleteLoad, DeleteFile,
                DeleteDies
  <2> QED BY <2>1, TwinRows
<1>6. ASSUME NEW r \in Row, Commit(r) \/ RejectWrite(r)
      PROVE  TwinInv'
  <2>1. /\ UNCHANGED <<at, item, tries, excused>>
        /\ lost' = IF asset[r].stamped /\ ~task[r].stamped THEN lost \cup {r[2]} ELSE lost
    BY <1>6 DEF Commit, RejectWrite, TakenBack
  <2>2. \A q \in Row : q # r => asset'[q] = asset[q]
    BY <1>6 DEF Commit, RejectWrite, ImportTypeOK
  <2>3. asset'[r].live => asset[r].live /\ asset'[r].stamped = task[r].stamped
    <3>1. CASE asset' = asset /\ ~asset[r].live
      BY <3>1
    <3>2. CASE Commit(r) /\ asset[r].live
      BY <3>2 DEF Commit, ImportTypeOK
    <3>3. CASE RejectWrite(r) /\ asset[r].live
      BY <3>3 DEF RejectWrite, ImportTypeOK
    <3> QED BY <1>6, <3>1, <3>2, <3>3 DEF Commit, RejectWrite
  <2> QED BY <2>1, <2>2, <2>3, TwinRows
<1>7. ASSUME NEW r \in Row, DeleteRow(r)
      PROVE  TwinInv'
  <2>1. /\ UNCHANGED <<at, item, tries, excused, lost>>
        /\ asset' = [asset EXCEPT ![r] = NoAsset]
    BY <1>7 DEF DeleteRow
  <2>2. (\A q \in Row : q # r => asset'[q] = asset[q]) /\ ~asset'[r].live
    BY <2>1 DEF ImportTypeOK, NoAsset
  <2> QED BY <2>1, <2>2, TwinRows
<1>8. CASE UNCHANGED importVars
  BY <1>8 DEF importVars, TwinInv, OneMaker, StampedOrOwn, NoneBefore, NoTwins, Safe, Mine
<1> QED
  BY <1>1, <1>2, <1>3, <1>4, <1>5, <1>6, <1>7, <1>8, TwinFind, TwinCreate, TwinStamp
     DEF ImportNext, Import, Continue, Others, Task, Delete

-----------------------------------------------------------------------------
(* The steps of Archive, seen from ContentImport *)

RowTypes == [live : BOOLEAN, stamped : BOOLEAN, processing : BOOLEAN, uri : Uri]

LEMMA Directories ==
  /\ directories # <<>> /\ Head(directories) = "database"
  /\ Tail(directories) # <<>> /\ Head(Tail(directories)) = "assets"
  /\ Tail(Tail(directories)) = <<>> /\ directories # Tail(directories)
BY DEF directories

LEMMA ArchiveShape ==
  ASSUME [ArchiveNext]_archiveVars
  PROVE  \/ [ImportNext]_importVars
         \/ \E q \in Restore : Unpack(q) \/ Extract(q)
<1>1. CASE ImportNext
  BY <1>1
<1>2. CASE Backup
  BY <1>2 DEF Backup, BeginBackup, Thread, AddDatabase, AddAssets, AddFile, Vanished, Finish,
              BrokenPipe, Break, HandOver, Generator, ReadChunk, ReadEnd, Yielded, Join, Leave
<1>3. ASSUME NEW q \in Restore, Recover(q), ~Unpack(q), ~Extract(q)
      PROVE  UNCHANGED importVars
  BY <1>3 DEF Recover, StopViewer, StoreUpload, Finally, Kill
<1>4. CASE UNCHANGED archiveVars
  BY <1>4 DEF archiveVars
<1> QED BY <1>1, <1>2, <1>3, <1>4 DEF ArchiveNext

\* What a restore does to the state of ContentImport
LEMMA RestoredTypes ==
  ASSUME ArchiveTypeOK, NEW q \in Restore, Unpack(q) \/ Extract(q)
  PROVE  ImportTypeOK'
<1> USE DEF ArchiveTypeOK, ImportTypeOK
<1>1. CASE Unpack(q)
  <2>1. UNCHANGED <<platform, unpaged, library, known, at, shelf, place, listed, shifted,
                    late, todo, item, failed, tries, temp, disk, task, deleting, lost>>
    BY <1>1 DEF Unpack, listing, progress
  <2>2. asset' = asset \/ asset' = archive.rows
    BY <1>1 DEF Unpack
  <2>3. excused' \in SUBSET Item
    BY <1>1 DEF Unpack
  <2>4. litter' \in SUBSET Row
    <3> DEFINE some == Listing \cup archive.files
               busy == {r \in Row : deleting[r].at # "none"}
    <3>1. \A f \in some : f[1] \in Row
      BY DEF Listing, File
    <3>2. {f[1] : f \in some} \in SUBSET Row /\ busy \in SUBSET Row
      BY <3>1
    <3>3. litter' = litter \/ litter' = litter \cup {f[1] : f \in some} \cup busy
      BY <1>1 DEF Unpack
    <3> HIDE DEF some, busy
    <3>4. CASE litter' = litter
      BY <3>4
    <3>5. CASE litter' = litter \cup {f[1] : f \in some} \cup busy
      BY <3>2, <3>5
    <3> QED BY <3>3, <3>4, <3>5
  <2> QED BY <2>1, <2>2, <2>3, <2>4
<1>2. CASE Extract(q)
  <2>1. UNCHANGED <<platform, unpaged, library, known, at, shelf, place, listed, shifted,
                    late, todo, item, failed, tries, asset, task, deleting, excused, lost>>
    BY <1>2 DEF Extract, listing, progress
  <2>2. temp' \in SUBSET (Row \X {"part", "staged"}) /\ disk' \in SUBSET File
    BY <1>2 DEF Extract
  <2>3. litter' \in SUBSET Row
    BY <1>2 DEF Extract, File
  <2> QED BY <2>1, <2>2, <2>3
<1> QED BY <1>1, <1>2

LEMMA StreamTypes ==
  ASSUME ArchiveTypeOK, [ArchiveNext]_archiveVars
  PROVE  /\ producer' \in {"none", "add", "broken", "raised", "gone"}
         /\ todoDirs' \in {directories, Tail(directories), <<>>}
         /\ walk' \in SUBSET (File \cup (Row \X {"part", "staged"}))
         /\ archive' \in [rows : [Row -> RowTypes],
                         files : SUBSET (File \cup (Row \X {"part", "staged"}))]
         /\ pipe' \in 0..PipeSize
         /\ writing' \in BOOLEAN /\ reading' \in BOOLEAN /\ error' \in BOOLEAN
         /\ reader' \in {"none", "read", "yield", "cut", "drained", "end"}
         /\ client' \in {"none", "waiting", "away", "aborted", "complete"}
<1> USE DEF ArchiveTypeOK, ImportTypeOK, RowTypes
<1>1. CASE UNCHANGED stream
  BY <1>1 DEF stream
<1>2. CASE Thread
  <2> USE ArchiveAssumption DEF Write
  <2>1. CASE AddDatabase
    <3>1. todoDirs' \in {directories, Tail(directories), <<>>}
      BY <2>1, Directories DEF AddDatabase
    <3>2. archive' \in [rows : [Row -> RowTypes],
                       files : SUBSET (File \cup (Row \X {"part", "staged"}))]
      BY <2>1 DEF AddDatabase
    <3>3. pipe' \in 0..PipeSize
      BY <2>1 DEF AddDatabase
    <3> QED BY <2>1, <3>1, <3>2, <3>3 DEF AddDatabase
  <2>2. CASE AddAssets
    BY <2>2, Directories DEF AddAssets, Listing
  <2>3. CASE AddFile
    <3>1. PICK f \in walk \cap Listing : /\ archive' = [archive EXCEPT !.files = @ \cup {f}]
                                       /\ walk' = walk \ {f}
      BY <2>3 DEF AddFile
    <3>2. archive' \in [rows : [Row -> RowTypes],
                       files : SUBSET (File \cup (Row \X {"part", "staged"}))]
      <4> DEFINE Fs == File \cup (Row \X {"part", "staged"})
      <4>1. archive.files \cup {f} \in SUBSET Fs /\ archive \in [rows : [Row -> RowTypes], files : SUBSET Fs]
        BY <3>1
      <4> HIDE DEF Fs
      <4>2. [archive EXCEPT !.files = archive.files \cup {f}] \in [rows : [Row -> RowTypes], files : SUBSET Fs]
        BY <4>1
      <4> QED BY <3>1, <4>2 DEF Fs
    <3>3. pipe' \in 0..PipeSize
      BY <2>3 DEF AddFile
    <3> QED BY <2>3, <3>1, <3>2, <3>3 DEF AddFile
  <2>4. CASE Vanished \/ Finish \/ BrokenPipe \/ Break \/ HandOver
    <3> HIDE DEF ArchiveTypeOK, ImportTypeOK, RowTypes
    <3>1. /\ UNCHANGED <<todoDirs, walk, archive, pipe, reading, reader, client>>
          /\ producer' \in {"broken", "raised", "gone"}
          /\ writing' \in {writing, FALSE} /\ error' \in {error, TRUE}
      BY <2>4 DEF Vanished, Finish, BrokenPipe, Break, HandOver
    <3>2. archive' \in [rows : [Row -> RowTypes],
                       files : SUBSET (File \cup (Row \X {"part", "staged"}))]
      BY <3>1 DEF ArchiveTypeOK, RowTypes
    <3>3. /\ walk \in SUBSET (File \cup (Row \X {"part", "staged"}))
          /\ todoDirs \in {directories, Tail(directories), <<>>}
          /\ pipe \in 0..PipeSize
      BY DEF ArchiveTypeOK
    <3>4. /\ producer \in {"none", "add", "broken", "raised", "gone"}
          /\ writing \in BOOLEAN /\ reading \in BOOLEAN /\ error \in BOOLEAN
          /\ reader \in {"none", "read", "yield", "cut", "drained", "end"}
          /\ client \in {"none", "waiting", "away", "aborted", "complete"}
      BY DEF ArchiveTypeOK
    <3>5. writing' \in BOOLEAN /\ reading' \in BOOLEAN /\ error' \in BOOLEAN
      BY <3>1, <3>4
    <3>6. /\ producer' \in {"none", "add", "broken", "raised", "gone"}
          /\ reader' \in {"none", "read", "yield", "cut", "drained", "end"}
          /\ client' \in {"none", "waiting", "away", "aborted", "complete"}
      BY <3>1, <3>4
    <3> QED BY <3>1, <3>2, <3>3, <3>5, <3>6
  <2> QED BY <1>2, <2>1, <2>2, <2>3, <2>4 DEF Thread
<1>3. CASE ReadChunk
  BY <1>3, ArchiveAssumption DEF ReadChunk
<1>4. CASE ReadEnd \/ Yielded \/ Leave
  <2> HIDE DEF ArchiveTypeOK, ImportTypeOK, RowTypes
  <2>1. /\ UNCHANGED <<producer, todoDirs, walk, archive, pipe, writing, error>>
        /\ reading' \in {reading, FALSE} /\ reader' \in {reader, "drained", "cut", "read"}
        /\ client' \in {client, "away"}
    BY <1>4 DEF ReadEnd, Yielded, Leave, Closed
  <2>2. archive' \in [rows : [Row -> RowTypes],
                     files : SUBSET (File \cup (Row \X {"part", "staged"}))]
    BY <2>1 DEF ArchiveTypeOK, RowTypes
  <2>3. /\ walk \in SUBSET (File \cup (Row \X {"part", "staged"}))
        /\ todoDirs \in {directories, Tail(directories), <<>>}
        /\ pipe \in 0..PipeSize
    BY DEF ArchiveTypeOK
  <2>4. /\ producer \in {"none", "add", "broken", "raised", "gone"}
        /\ writing \in BOOLEAN /\ reading \in BOOLEAN /\ error \in BOOLEAN
        /\ reader \in {"none", "read", "yield", "cut", "drained", "end"}
        /\ client \in {"none", "waiting", "away", "aborted", "complete"}
    BY DEF ArchiveTypeOK
  <2>5. writing' \in BOOLEAN /\ reading' \in BOOLEAN /\ error' \in BOOLEAN
    BY <2>1, <2>4
  <2>6. /\ producer' \in {"none", "add", "broken", "raised", "gone"}
        /\ reader' \in {"none", "read", "yield", "cut", "drained", "end"}
        /\ client' \in {"none", "waiting", "away", "aborted", "complete"}
    BY <2>1, <2>4
  <2> QED BY <2>1, <2>2, <2>3, <2>5, <2>6
<1>5. CASE Join
  BY <1>5 DEF Join
<1>6. CASE BeginBackup
  BY <1>6 DEF BeginBackup
<1> QED
  BY <1>1, <1>2, <1>3, <1>4, <1>5, <1>6 DEF ArchiveNext, Apart, Backup, Generator, Recover, StopViewer, StoreUpload, Unpack,
     Extract, Finally, Kill, archiveVars

LEMMA RestoringTypes ==
  ASSUME ArchiveTypeOK, [ArchiveNext]_archiveVars
  PROVE  /\ touched' \in SUBSET Row
         /\ restore' \in [Restore -> {"none", "store", "unpack", "extract", "finally", "done"}]
         /\ upload' \in SUBSET Restore
         /\ viewer' \in {"play", "stop"} /\ killed' \in BOOLEAN
<1> USE DEF ArchiveTypeOK, restoring
<1>1. touched' \in SUBSET Row
  <2>1. {f[1] : f \in disk \ disk'} \in SUBSET Row
    BY DEF ImportTypeOK, File
  <2>2. CASE ImportNext /\ Apart
    BY <2>1, <2>2 DEF Apart
  <2> QED BY <2>2 DEF ArchiveNext, Backup, BeginBackup, Thread, AddDatabase, AddAssets, AddFile,
     Vanished, Finish, BrokenPipe, Break, HandOver, Generator, ReadChunk, ReadEnd, Yielded,
     Join, Leave, Recover, StopViewer, StoreUpload, Unpack, Extract, Finally, Kill, archiveVars
<1>2. ASSUME NEW q \in Restore, Recover(q)
      PROVE  /\ restore' \in [Restore -> {"none", "store", "unpack", "extract", "finally", "done"}]
             /\ upload' \in SUBSET Restore
             /\ viewer' \in {"play", "stop"} /\ killed' \in BOOLEAN
  <2>1. \E x \in {"store", "unpack", "extract", "finally", "done"} :
          restore' = [restore EXCEPT ![q] = x]
    BY <1>2 DEF Recover, StopViewer, StoreUpload, Unpack, Extract, Finally, Kill, Turn,
                OnException
  <2>2. restore' \in [Restore -> {"none", "store", "unpack", "extract", "finally", "done"}]
    BY <2>1
  <2>3. upload' \in SUBSET Restore
    BY <1>2 DEF Recover, StopViewer, StoreUpload, Unpack, Extract, Finally, Kill
  <2>4. viewer' \in {"play", "stop"} /\ killed' \in BOOLEAN
    BY <1>2 DEF Recover, StopViewer, StoreUpload, Unpack, Extract, Finally, Kill
  <2> QED BY <2>2, <2>3, <2>4
<1>3. ASSUME ~\E q \in Restore : Recover(q)
      PROVE  UNCHANGED restoring
  BY <1>3 DEF ArchiveNext, Apart, Backup, BeginBackup, Thread, Write, AddDatabase, AddAssets, AddFile,
     Vanished, Finish, BrokenPipe, Break, HandOver, Generator, ReadChunk, ReadEnd, Yielded,
     Join, Leave, archiveVars
<1> QED BY <1>1, <1>2, <1>3

LEMMA ArchiveTypeStep ==
  ASSUME ArchiveTypeOK, [ArchiveNext]_archiveVars
  PROVE  ArchiveTypeOK'
<1>1. ImportTypeOK'
  BY ArchiveShape, RestoredTypes, ImportTypeStep DEF ArchiveTypeOK
<1> QED BY <1>1, StreamTypes, RestoringTypes DEF ArchiveTypeOK, RowTypes

LEMMA ArchiveTypeInit == ArchiveInit => ArchiveTypeOK
<1> SUFFICES ASSUME ArchiveInit PROVE ArchiveTypeOK
  OBVIOUS
<1>1. ImportTypeOK
  BY ImportTypeInit DEF ArchiveInit
<1>2. archive \in [rows : [Row -> RowTypes],
                  files : SUBSET (File \cup (Row \X {"part", "staged"}))]
  BY DEF ArchiveInit, NoArchive, NoAsset, RowTypes, Uri
<1>3. pipe \in 0..PipeSize
  BY ArchiveAssumption DEF ArchiveInit
<1> QED
  BY <1>1, <1>2, <1>3 DEF ArchiveInit, ArchiveTypeOK, RowTypes

\* The type invariant of both modules.
THEOREM TypeCorrect == ArchiveSpec => []ArchiveTypeOK
<1>1. ArchiveTypeOK /\ [ArchiveNext]_archiveVars => ArchiveTypeOK'
  BY ArchiveTypeStep
<1> QED BY <1>1, ArchiveTypeInit, PTL DEF ArchiveSpec

-----------------------------------------------------------------------------
(* No twins, also after a restore *)

\* The rows of the archive have no twins either.
KeptTwins ==
  \A r, q \in Row :
    r[2] = q[2] /\ archive.rows[r].live /\ archive.rows[q].live => r = q \/ ~Safe(r[2])

LEMMA ExcusesGrow ==
  ASSUME [ArchiveNext]_archiveVars
  PROVE  excused \subseteq excused' /\ lost \subseteq lost'
<1>1. ASSUME [ImportNext]_importVars
      PROVE  excused \subseteq excused' /\ lost \subseteq lost'
  <2> USE DEF history
  <2>1. CASE Account \/ \E s \in Session : Validate(s) \/ Retry(s)
    BY <2>1 DEF Account, Add, Discard, Validate, Retry
  <2>2. ASSUME NEW s \in Session, Continue(s)
        PROVE  excused \subseteq excused' /\ lost \subseteq lost'
    BY <2>2 DEF Continue, List, Choose, Pick, Find, Detail, Fetch, Fetched, Prepare, Create,
                Dispatch, Order, Stamp
  <2>3. ASSUME NEW s \in Session, Die(s)
        PROVE  excused \subseteq excused' /\ lost \subseteq lost'
    BY <2>3 DEF Die
  <2>4. ASSUME NEW r \in Row, Others(r)
        PROVE  excused \subseteq excused' /\ lost \subseteq lost'
    BY <2>4 DEF Others, Task, Take, Convert, Unlink, Commit, RejectRead, RejectWrite, TakenBack,
                TaskDies, Requeue, Delete, DeleteLoad, DeleteFile, DeleteRow, DeleteDies
  <2>5. CASE UNCHANGED importVars
    BY <2>5 DEF importVars
  <2> QED BY <1>1, <2>1, <2>2, <2>3, <2>4, <2>5 DEF ImportNext, Import
<1>2. ASSUME NEW q \in Restore, Unpack(q) \/ Extract(q)
      PROVE  excused \subseteq excused' /\ lost \subseteq lost'
  BY <1>2 DEF Unpack, Extract
<1> QED BY <1>1, <1>2, ArchiveShape

\* Nothing but the copy of the database changes the rows of the archive.
LEMMA ArchiveRows ==
  ASSUME ArchiveTypeOK, [ArchiveNext]_archiveVars
  PROVE  \/ archive'.rows = archive.rows
         \/ AddDatabase /\ archive'.rows = asset
<1>1. CASE AddDatabase
  BY <1>1 DEF AddDatabase, ArchiveTypeOK
<1>2. CASE AddFile
  BY <1>2 DEF AddFile, ArchiveTypeOK
<1>3. CASE ~AddDatabase /\ ~AddFile
  BY <1>3 DEF ArchiveNext, Apart, Backup, BeginBackup, Thread, AddAssets, Vanished, Finish,
     BrokenPipe, Break, HandOver, Generator, ReadChunk, ReadEnd, Yielded, Join, Leave,
     Recover, StopViewer, StoreUpload, Unpack, Extract, Finally, Kill, archiveVars, stream
<1> QED BY <1>1, <1>2, <1>3

LEMMA RestoredTwins ==
  ASSUME ArchiveTypeOK, TwinInv, KeptTwins, NEW q \in Restore, Unpack(q) \/ Extract(q)
  PROVE  TwinInv'
<1> USE DEF TwinInv, Safe
<1>1. UNCHANGED <<at, item, tries, lost>>
  BY DEF Unpack, Extract, progress
<1>2. CASE UNCHANGED <<asset, excused>>
  BY <1>1, <1>2 DEF OneMaker, StampedOrOwn, NoneBefore, NoTwins, Mine
<1>3. CASE /\ asset' = archive.rows
           /\ excused' = excused \cup {i \in Item : MakersOf(i) # {}}
                        \cup {i \in Item : \E r \in Row : r[2] = i /\ archive.rows[r].live
                                                       /\ ~archive.rows[r].stamped}
  <2>1. \A s \in Session : at[s] \in Making => item[s] \in excused'
    <3> SUFFICES ASSUME NEW s \in Session, at[s] \in Making
                 PROVE  item[s] \in excused'
      OBVIOUS
    <3>1. item[s] \in Item /\ s \in MakersOf(item[s])
      BY DEF ArchiveTypeOK, ImportTypeOK, MakersOf
    <3> QED BY <1>3, <3>1
  <2>2. \A r \in Row : archive.rows[r].live /\ ~archive.rows[r].stamped => r[2] \in excused'
    BY <1>3 DEF Row
  <2>3. OneMaker'
    BY <1>1, <2>1 DEF OneMaker
  <2>4. StampedOrOwn'
    BY <1>3, <2>2 DEF StampedOrOwn
  <2>5. NoneBefore'
    BY <1>1, <2>1 DEF NoneBefore, Early, Making
  <2>6. NoTwins'
    BY <1>1, <1>3 DEF NoTwins, KeptTwins
  <2> QED BY <2>3, <2>4, <2>5, <2>6
<1> QED BY <1>2, <1>3 DEF Unpack, Extract

LEMMA KeptTwinsStep ==
  ASSUME ArchiveTypeOK, TwinInv, KeptTwins, [ArchiveNext]_archiveVars
  PROVE  KeptTwins'
BY ArchiveRows, ExcusesGrow DEF KeptTwins, TwinInv, NoTwins, Safe

LEMMA TwinInit == Init => TwinInv
BY DEF Init, TwinInv, OneMaker, StampedOrOwn, NoneBefore, NoTwins, Making, Early, NoAsset

\* find_imported_asset() and _stamp_import_source(): an item is imported once, however
\* many imports run at once, fail and are repeated, and also when an archive is restored
\* meanwhile; but for the items named in `excused` and `lost`.
THEOREM ImportedOnce == ArchiveSpec => []NoTwins
<1>1. ArchiveInit => ArchiveTypeOK /\ TwinInv /\ KeptTwins
  BY ArchiveTypeInit, TwinInit DEF ArchiveInit, KeptTwins, NoArchive, NoAsset
<1>2. ArchiveTypeOK /\ TwinInv /\ KeptTwins /\ [ArchiveNext]_archiveVars
        => ArchiveTypeOK' /\ TwinInv' /\ KeptTwins'
  <2> SUFFICES ASSUME ArchiveTypeOK, TwinInv, KeptTwins, [ArchiveNext]_archiveVars
               PROVE  ArchiveTypeOK' /\ TwinInv' /\ KeptTwins'
    OBVIOUS
  <2>1. ArchiveTypeOK'
    BY ArchiveTypeStep
  <2>2. TwinInv'
    BY ArchiveShape, TwinStep, RestoredTwins DEF ArchiveTypeOK
  <2>3. KeptTwins'
    BY KeptTwinsStep
  <2> QED BY <2>1, <2>2, <2>3
<1>3. TwinInv => NoTwins
  BY DEF TwinInv
<1> QED BY <1>1, <1>2, <1>3, PTL DEF ArchiveSpec

-----------------------------------------------------------------------------
(* Nothing is missed *)

Covered(s) == listed[s] \cup late[s]

\* The account: every item is on its shelf, and once.
Shelved ==
  \A b \in Shelves : \A j \in DOMAIN library[b] :
    /\ library[b][j] \in known /\ ShelfOf(library[b][j]) = b
    /\ \A k \in DOMAIN library[b] : library[b][j] = library[b][k] => j = k

Started ==
  \A s \in Session :
    /\ listed[s] \subseteq known
    /\ at[s] = "idle" => shelf[s] = 1 /\ place[s] = 0 /\ listed[s] = {}
    /\ shelf[s] <= LastShelf
    /\ at[s] \notin {"idle", "list", "ended"} => shelf[s] = LastShelf

\* What a listing has on the shelves it is through with, and before its place
ShelvesBefore ==
  \A s \in Session, b \in Shelves :
    at[s] = "list" /\ ~shifted[s] /\ b < shelf[s] =>
      \A k \in DOMAIN library[b] : library[b][k] \in Covered(s)

PlacesBefore ==
  \A s \in Session :
    at[s] = "list" /\ ~shifted[s] =>
      \A k \in DOMAIN library[shelf[s]] : k <= place[s] => library[shelf[s]][k] \in Covered(s)

\* Xibo is asked until it has nothing new: what comes next must be new.
PlacesAfter ==
  \A s \in Session :
    platform = "xibo" /\ ~unpaged /\ at[s] = "list" /\ ~shifted[s] =>
      \A k \in DOMAIN library[1] : place[s] < k => library[1][k] \notin listed[s]

AllCovered ==
  \A s \in Session, b \in Shelves :
    at[s] \notin {"idle", "list", "ended"} /\ ~shifted[s] =>
      \A k \in DOMAIN library[b] : library[b][k] \in Covered(s)

ListingInv == /\ Shelved /\ Started /\ ShelvesBefore /\ PlacesBefore /\ PlacesAfter
              /\ AllCovered

LEMMA LibraryTypes ==
  ASSUME ImportTypeOK, NEW b \in Shelves
  PROVE  /\ library[b] \in Seq(Item) /\ Len(library[b]) \in Nat
         /\ DOMAIN library[b] = 1..Len(library[b])
<1>1. library[b] \in Seq(Item)
  BY DEF ImportTypeOK
<1> QED BY <1>1, LenProperties

\* A page has at most PageSize items, and less only at the end of the shelf.
LEMMA PageBounds ==
  ASSUME ImportTypeOK, NEW s \in Session, ~unpaged, platform # "pisignage"
  PROVE  /\ Cardinality(Page(s)) \in Nat /\ Cardinality(Page(s)) <= PageSize
         /\ Cardinality(Page(s)) < PageSize => Len(library[shelf[s]]) < place[s] + PageSize
<1> DEFINE q == library[shelf[s]]
           p == place[s]
           all == (p + 1)..(p + PageSize)
<1>1. p \in Nat /\ PageSize \in Nat \ {0} /\ shelf[s] \in Shelves
  BY ImportAssumption DEF ImportTypeOK
<1>2. Len(q) \in Nat /\ DOMAIN q = 1..Len(q)
  BY <1>1, LibraryTypes
<1>3. IsFiniteSet(all) /\ Cardinality(all) = PageSize
  <2>1. p + 1 \in Int /\ p + PageSize \in Int /\ p + 1 <= p + PageSize + 1
    BY <1>1
  <2>2. IsFiniteSet(all) /\ Cardinality(all) = IF p + 1 > p + PageSize THEN 0 ELSE (p + PageSize) - (p + 1) + 1
    <3> HIDE DEF p
    <3> QED BY <2>1, FS_Interval
  <2> HIDE DEF all, p
  <2> QED BY <1>1, <2>2
<1>4. Page(s) = {k \in 1..Len(q) : p < k /\ k <= p + PageSize}
  BY <1>2 DEF Page
<1>5. Page(s) \subseteq all
  BY <1>1, <1>2, <1>4
<1>6. Cardinality(Page(s)) <= PageSize /\ Cardinality(Page(s)) \in Nat
  BY <1>3, <1>5, FS_Subset, FS_CardinalityType
<1>7. ASSUME p + PageSize <= Len(q)
      PROVE  Cardinality(Page(s)) = PageSize
  <2>1. Page(s) = all
    BY <1>1, <1>2, <1>4, <1>7
  <2> QED BY <1>3, <2>1
<1> QED BY <1>1, <1>2, <1>6, <1>7

\* After the last page of a shelf all of it is covered.
LEMMA ShelfDone ==
  ASSUME ImportTypeOK, ListingInv, NEW s \in Session,
         at[s] = "list", ~shifted[s], LastPage(s)
  PROVE  \A k \in DOMAIN library[shelf[s]] :
           library[shelf[s]][k] \in Covered(s) \cup Batch(s)
<1> DEFINE q == library[shelf[s]]
           p == place[s]
<1>1. p \in Nat /\ PageSize \in Nat \ {0} /\ shelf[s] \in Shelves
  BY ImportAssumption DEF ImportTypeOK
<1>2. Len(q) \in Nat /\ DOMAIN q = 1..Len(q)
  BY <1>1, LibraryTypes
<1>3. \A k \in DOMAIN q : k <= p => q[k] \in Covered(s)
  BY DEF ListingInv, PlacesBefore
<1>4. \A k \in Page(s) : q[k] \in Batch(s)
  BY DEF Batch
<1>5. CASE platform = "pisignage" \/ unpaged
  BY <1>4, <1>5 DEF Page
<1>6. CASE ~unpaged /\ platform \in {"yodeck", "screencloud"}
  <2>1. p + PageSize >= Len(q)
    BY <1>6 DEF LastPage, YodeckLast, ScreenCloudLast
  <2>2. \A k \in DOMAIN q : k <= p \/ k \in Page(s)
    BY <1>1, <1>2, <1>6, <2>1 DEF Page
  <2> QED BY <1>3, <1>4, <2>2
<1>7. CASE ~unpaged /\ platform = "xibo"
  <2>1. shelf[s] = 1
    BY <1>1, <1>7 DEF ListingInv, Started, LastShelf, Shelves
  <2>2. CASE Cardinality(Page(s)) < PageSize
    <3>1. Len(q) < p + PageSize
      BY <1>7, <2>2, PageBounds
    <3>2. \A k \in DOMAIN q : k <= p \/ k \in Page(s)
      BY <1>1, <1>2, <1>7, <3>1 DEF Page
    <3> QED BY <1>3, <1>4, <3>2
  <2>3. CASE Batch(s) \subseteq listed[s]
    <3>1. \A k \in DOMAIN q : p < k => q[k] \notin listed[s]
      BY <1>7, <2>1 DEF ListingInv, PlacesAfter
    <3>2. ASSUME NEW k \in DOMAIN q, p < k
          PROVE  FALSE
      <4>1. p + 1 \in DOMAIN q /\ p < p + 1 /\ p + 1 <= p + PageSize
        BY <1>1, <1>2, <3>2
      <4>2. p + 1 \in Page(s)
        BY <1>7, <4>1 DEF Page
      <4> QED BY <1>4, <2>3, <3>1, <4>1, <4>2
    <3> QED BY <1>1, <1>2, <1>3, <3>2
  <2> QED BY <1>7, <2>2, <2>3 DEF LastPage, XiboLast
<1>8. platform \in {"yodeck", "screencloud", "xibo", "pisignage"}
  BY ImportAssumption DEF ImportTypeOK, Platform
<1> QED BY <1>5, <1>6, <1>7, <1>8

\* What an item added, or one taken away, does to the places of the others
LEMMA ListingAdd ==
  ASSUME ImportTypeOK, ListingInv, Add
  PROVE  ListingInv'
<1> USE DEF ListingInv, Covered
<1>1. PICK i \in Item \ known, front \in BOOLEAN :
        /\ known' = known \cup {i}
        /\ library' = [library EXCEPT ![ShelfOf(i)] =
                         IF front THEN <<i>> \o @ ELSE Append(@, i)]
        /\ late' = [s \in Session |->
                      IF Begun(s, ShelfOf(i)) THEN late[s] \cup {i} ELSE late[s]]
        /\ place' = [s \in Session |->
                       IF Keyset /\ front /\ Reading(s, ShelfOf(i)) THEN place[s] + 1
                       ELSE place[s]]
        /\ shifted' = [s \in Session |->
             shifted[s] \/ (platform = "xibo" /\ front /\ Reading(s, ShelfOf(i)))]
  BY DEF Add
<1>2. UNCHANGED <<platform, unpaged, shelf, listed, at>>
  BY DEF Add
<1> DEFINE b == ShelfOf(i)
           q == library[b]
           old(k) == IF front THEN k - 1 ELSE k
<1>3. b \in Shelves /\ b <= LastShelf /\ q \in Seq(Item) /\ Len(q) \in Nat
      /\ DOMAIN q = 1..Len(q)
  BY ShelfBounds, LibraryTypes
<1>4. \A c \in Shelves : c # b => library'[c] = library[c]
  BY <1>1, <1>3 DEF ImportTypeOK
<1>5. /\ Len(library'[b]) = Len(q) + 1 /\ DOMAIN library'[b] = 1..(Len(q) + 1)
      /\ \A k \in 1..(Len(q) + 1) :
           \/ library'[b][k] = i
           \/ old(k) \in 1..Len(q) /\ library'[b][k] = q[old(k)]
  <2>1. CASE front
    <3>1. library'[b] = <<i>> \o q
      BY <1>1, <1>3, <2>1 DEF ImportTypeOK
    <3>2. /\ <<i>> \o q \in Seq(Item) /\ Len(<<i>> \o q) = Len(q) + 1
          /\ \A j \in 1..(Len(q) + 1) : (<<i>> \o q)[j] = IF j = 1 THEN i ELSE q[j - 1]
      BY <1>3, PushedSeq
    <3>3. DOMAIN (<<i>> \o q) = 1..(Len(q) + 1)
      BY <3>2, LenProperties
    <3> QED BY <1>3, <2>1, <3>1, <3>2, <3>3
  <2>2. CASE ~front
    <3>1. library'[b] = Append(q, i)
      BY <1>1, <1>3, <2>2 DEF ImportTypeOK
    <3>2. /\ Append(q, i) \in Seq(Item) /\ Len(Append(q, i)) = Len(q) + 1
          /\ \A j \in 1..Len(q) : Append(q, i)[j] = q[j]
          /\ Append(q, i)[Len(q) + 1] = i
      BY <1>3, AppendProperties
    <3>3. DOMAIN Append(q, i) = 1..(Len(q) + 1)
      BY <3>2, LenProperties
    <3> QED BY <1>3, <2>2, <3>1, <3>2, <3>3
  <2> QED BY <2>1, <2>2
<1>6. \A k, j \in 1..(Len(q) + 1) : library'[b][k] = i /\ library'[b][j] = i => k = j
  <2>1. \A k \in 1..(Len(q) + 1) :
          library'[b][k] = i => k = IF front THEN 1 ELSE Len(q) + 1
    <3>1. \A k \in 1..Len(q) : q[k] # i
      BY <1>3 DEF Shelved
    <3>2. CASE front
      <4>1. library'[b] = <<i>> \o q
        BY <1>1, <1>3, <3>2 DEF ImportTypeOK
      <4>2. \A j \in 1..(Len(q) + 1) : (<<i>> \o q)[j] = IF j = 1 THEN i ELSE q[j - 1]
        BY <1>3, PushedSeq
      <4>3. ASSUME NEW k \in 1..(Len(q) + 1), k # 1
            PROVE  library'[b][k] # i
        <5>1. k - 1 \in 1..Len(q)
          BY <1>3, <4>3
        <5> QED BY <3>1, <4>1, <4>2, <4>3, <5>1
      <4> QED BY <3>2, <4>3
    <3>3. CASE ~front
      <4>1. library'[b] = Append(q, i)
        BY <1>1, <1>3, <3>3 DEF ImportTypeOK
      <4>2. \A j \in 1..Len(q) : Append(q, i)[j] = q[j]
        BY <1>3, AppendProperties
      <4> QED BY <1>3, <3>1, <3>3, <4>1, <4>2
    <3> QED BY <3>2, <3>3
  <2> QED BY <2>1
<1>7. \A s \in Session : /\ place'[s] \in Nat /\ place[s] \in Nat /\ shelf[s] \in Shelves
                         /\ place'[s] = place[s] \/ place'[s] = place[s] + 1
                         /\ late[s] \subseteq late'[s]
                         /\ Begun(s, b) => i \in late'[s]
                         /\ shifted[s] => shifted'[s]
  BY <1>1 DEF ImportTypeOK
<1>15. \A k, j \in 1..Len(q) : q[k] = q[j] => k = j
  BY <1>3 DEF Shelved
<1>16. \A k \in 1..Len(q) : q[k] \in known /\ ShelfOf(q[k]) = b /\ q[k] # i
  BY <1>3 DEF Shelved
<1> HIDE DEF b, q
<1>8. Shelved'
  <2> DEFINE home(x) == CASE platform = "yodeck" -> YodeckShelf(x)
                          [] platform = "screencloud" -> ScreenCloudShelf(x)
                          [] OTHER -> 1
  <2>1. \A x : ShelfOf(x) = home(x)
    BY DEF ShelfOf
  <2>2. ASSUME NEW c \in Shelves, NEW j \in DOMAIN library'[c]
        PROVE  /\ library'[c][j] \in known' /\ ShelfOf(library'[c][j]) = c
               /\ \A k \in DOMAIN library'[c] :
                    library'[c][j] = library'[c][k] => j = k
    <3>1. CASE c # b
      BY <1>1, <1>4, <2>2, <3>1 DEF Shelved
    <3>2. CASE c = b
      <4>2. library'[c][j] \in known' /\ ShelfOf(library'[c][j]) = c
        <5>1. known' = known \cup {i} /\ ShelfOf(i) = b
          BY <1>1 DEF b
        <5> QED BY <1>5, <1>16, <2>2, <3>2, <5>1
      <4>3. ASSUME NEW k \in DOMAIN library'[c], library'[c][j] = library'[c][k]
            PROVE  j = k
        <5>1. CASE library'[b][j] = i
          BY <1>5, <1>6, <2>2, <3>2, <4>3, <5>1
        <5>2. CASE library'[b][j] # i
          <6>1. /\ old(j) \in 1..Len(q) /\ library'[b][j] = q[old(j)]
                /\ old(k) \in 1..Len(q) /\ library'[b][k] = q[old(k)]
            BY <1>5, <2>2, <3>2, <4>3, <5>2
          <6>2. old(j) = old(k)
            BY <1>15, <3>2, <4>3, <6>1
          <6>3. j \in Nat /\ k \in Nat
            BY <1>3, <1>5, <2>2, <3>2, <4>3
          <6> QED BY <6>2, <6>3
        <5> QED BY <5>1, <5>2
      <4> QED BY <4>2, <4>3
    <3> QED BY <3>1, <3>2
  <2>3. \A x : home(x)' = home(x)
    BY <1>2 DEF YodeckShelf, ScreenCloudShelf
  <2> HIDE DEF home
  <2> QED
    BY <1>2, <2>1, <2>2, <2>3 DEF Shelved, ShelfOf, YodeckShelf, ScreenCloudShelf, home
<1>9. Started'
  BY <1>1, <1>2 DEF Started, LastShelf, Reading
<1>10. \A s \in Session, c \in Shelves :
         /\ ~shifted'[s]
         /\ (c = b => Begun(s, b))
         /\ \A k \in DOMAIN library[c] : library[c][k] \in Covered(s)
         => \A k \in DOMAIN library'[c] : library'[c][k] \in Covered(s)'
  <2> SUFFICES ASSUME NEW s \in Session, NEW c \in Shelves, ~shifted'[s],
                      c = b => Begun(s, b),
                      \A k \in DOMAIN library[c] : library[c][k] \in Covered(s),
                      NEW k \in DOMAIN library'[c]
               PROVE  library'[c][k] \in Covered(s)'
    OBVIOUS
  <2>1. CASE c # b
    BY <1>2, <1>4, <1>7, <2>1
  <2>2. CASE c = b
    <3>1. library'[b][k] = i \/ (old(k) \in 1..Len(q) /\ library'[b][k] = q[old(k)])
      BY <1>5, <2>2
    <3>2. DOMAIN library[b] = 1..Len(q) /\ library[b] = q
      BY <1>3 DEF q
    <3> QED BY <1>2, <1>7, <2>2, <3>1, <3>2
  <2> QED BY <2>1, <2>2
<1>11. ShelvesBefore'
  <2> SUFFICES ASSUME NEW s \in Session, NEW c \in Shelves,
                      at[s] = "list", ~shifted'[s], c < shelf[s]
               PROVE  \A k \in DOMAIN library'[c] : library'[c][k] \in Covered(s)'
    BY <1>2 DEF ShelvesBefore
  <2>1. c = b => Begun(s, b)
    BY <1>7 DEF Begun, Shelves
  <2>2. \A k \in DOMAIN library[c] : library[c][k] \in Covered(s)
    BY <1>7 DEF ShelvesBefore
  <2> QED BY <1>10, <2>1, <2>2
<1>12. PlacesBefore'
  <2> SUFFICES ASSUME NEW s \in Session, at[s] = "list", ~shifted'[s],
                      NEW k \in DOMAIN library'[shelf[s]], k <= place'[s]
               PROVE  library'[shelf[s]][k] \in Covered(s)'
    BY <1>2 DEF PlacesBefore
  <2>1. \A j \in DOMAIN library[shelf[s]] :
          j <= place[s] => library[shelf[s]][j] \in Covered(s)
    BY <1>7 DEF PlacesBefore
  <2>2. CASE shelf[s] # b
    <3>1. place'[s] = place[s]
      BY <1>1, <2>2 DEF Reading, b
    <3> QED BY <1>2, <1>4, <1>7, <2>1, <2>2, <3>1
  <2>3. CASE shelf[s] = b
    <3>1. k \in 1..(Len(q) + 1)
      BY <1>5, <2>3
    <3>2. place[s] > 0
      BY <1>1, <1>3, <1>7, <3>1 DEF Reading, b
    <3>3. i \in late'[s]
      BY <1>7, <2>3, <3>2 DEF Begun
    <3>4. library'[b][k] = i \/ (old(k) \in 1..Len(q) /\ library'[b][k] = q[old(k)])
      BY <1>5, <3>1
    <3>5. old(k) <= place[s]
      BY <1>1, <1>3, <1>7, <3>1
    <3>6. DOMAIN library[b] = 1..Len(q) /\ library[b] = q
      BY <1>3 DEF q
    <3> QED BY <1>2, <1>7, <2>1, <2>3, <3>3, <3>4, <3>5, <3>6
  <2> QED BY <2>2, <2>3
<1>13. PlacesAfter'
  <2> SUFFICES ASSUME NEW s \in Session, platform = "xibo", ~unpaged, at[s] = "list",
                      ~shifted'[s], NEW k \in DOMAIN library'[1], place'[s] < k
               PROVE  library'[1][k] \notin listed[s]
    BY <1>2 DEF PlacesAfter
  <2>1. b = 1 /\ place'[s] = place[s] /\ shelf[s] = 1
    BY <1>1, <1>7 DEF b, ShelfOf, Keyset, Started, LastShelf, Shelves
  <2>2. k \in 1..(Len(q) + 1) /\ DOMAIN library[1] = 1..Len(q) /\ library[1] = q
    BY <1>3, <1>5, <2>1 DEF q
  <2>3. i \notin listed[s]
    BY <1>1 DEF Started, ListingInv
  <2>4. front => place[s] = 0
    <3>1. shifted'[s] = (shifted[s] \/ (platform = "xibo" /\ front /\ Reading(s, ShelfOf(i))))
      BY <1>1
    <3>2. front => ~Reading(s, b)
      BY <3>1 DEF b
    <3> QED BY <1>7, <2>1, <3>2 DEF Reading
  <2>5. old(k) \in 1..Len(q) => place[s] < old(k)
    BY <1>3, <1>7, <2>1, <2>2, <2>4
  <2>6. \A j \in 1..Len(q) : place[s] < j => q[j] \notin listed[s]
    BY <1>7, <2>2 DEF PlacesAfter
  <2> QED BY <1>5, <2>1, <2>2, <2>3, <2>5, <2>6
<1>14. AllCovered'
  <2> SUFFICES ASSUME NEW s \in Session, NEW c \in Shelves,
                      at[s] \notin {"idle", "list", "ended"}, ~shifted'[s]
               PROVE  \A k \in DOMAIN library'[c] : library'[c][k] \in Covered(s)'
    BY <1>2 DEF AllCovered
  <2>1. Begun(s, b)
    BY <1>3, <1>7, ShelfBounds DEF Started, Begun, Shelves
  <2>2. \A k \in DOMAIN library[c] : library[c][k] \in Covered(s)
    BY <1>7 DEF AllCovered
  <2> QED BY <1>10, <2>1, <2>2
<1> QED BY <1>8, <1>9, <1>11, <1>12, <1>13, <1>14

LEMMA ListingDiscard ==
  ASSUME ImportTypeOK, ListingInv, Discard
  PROVE  ListingInv'
<1> USE DEF ListingInv, Covered
<1>0. PICK b \in Shelves : \E k \in DOMAIN library[b] :
        LET before(s) == Reading(s, b) /\ k <= place[s] IN
        /\ library' = [library EXCEPT ![b] = RemoveAt(@, k)]
        /\ place' = [s \in Session |->
             IF Keyset /\ before(s) THEN place[s] - 1 ELSE place[s]]
        /\ shifted' = [s \in Session |-> shifted[s] \/ (~Keyset /\ before(s))]
  BY DEF Discard
<1>1. PICK gone \in DOMAIN library[b] :
        /\ library' = [library EXCEPT ![b] = RemoveAt(@, gone)]
        /\ place' = [s \in Session |->
             IF Keyset /\ Reading(s, b) /\ gone <= place[s] THEN place[s] - 1 ELSE place[s]]
        /\ shifted' = [s \in Session |->
             shifted[s] \/ (~Keyset /\ Reading(s, b) /\ gone <= place[s])]
  BY <1>0
<1>2. UNCHANGED <<platform, unpaged, shelf, listed, late, known, at>>
  BY DEF Discard
<1> DEFINE q == library[b]
           old(k) == IF k < gone THEN k ELSE k + 1
<1>3. q \in Seq(Item) /\ Len(q) \in Nat /\ DOMAIN q = 1..Len(q) /\ gone \in 1..Len(q)
  BY <1>1, LibraryTypes
<1>4. \A c \in Shelves : c # b => library'[c] = library[c]
  BY <1>1 DEF ImportTypeOK
<1>5. /\ DOMAIN library'[b] = 1..(Len(q) - 1)
      /\ \A k \in 1..(Len(q) - 1) : old(k) \in 1..Len(q) /\ library'[b][k] = q[old(k)]
  <2>1. library'[b] = RemoveAt(q, gone)
    BY <1>1 DEF ImportTypeOK
  <2>2. /\ RemoveAt(q, gone) \in Seq(Item) /\ Len(RemoveAt(q, gone)) = Len(q) - 1
        /\ \A j \in 1..(Len(q) - 1) :
             RemoveAt(q, gone)[j] = IF j < gone THEN q[j] ELSE q[j + 1]
    BY <1>3, RemovedSeq
  <2>3. DOMAIN RemoveAt(q, gone) = 1..(Len(q) - 1)
    BY <2>2, LenProperties
  <2> QED BY <1>3, <2>1, <2>2, <2>3
<1>6. \A k, j \in 1..Len(q) : q[k] = q[j] => k = j
  BY <1>3 DEF Shelved
<1>7. \A s \in Session :
        /\ place'[s] \in Nat /\ place[s] \in Nat /\ shelf[s] \in Shelves
        /\ shifted[s] => shifted'[s]
        /\ place'[s] = IF Keyset /\ Reading(s, b) /\ gone <= place[s]
                       THEN place[s] - 1 ELSE place[s]
        /\ ~shifted'[s] /\ Reading(s, b) /\ gone <= place[s] => Keyset
  <2> SUFFICES ASSUME NEW s \in Session
               PROVE  /\ place'[s] \in Nat /\ place[s] \in Nat /\ shelf[s] \in Shelves
                      /\ shifted[s] => shifted'[s]
                      /\ place'[s] = IF Keyset /\ Reading(s, b) /\ gone <= place[s]
                                     THEN place[s] - 1 ELSE place[s]
                      /\ ~shifted'[s] /\ Reading(s, b) /\ gone <= place[s] => Keyset
    OBVIOUS
  <2>1. place[s] \in Nat /\ shelf[s] \in Shelves
    BY DEF ImportTypeOK
  <2>2. place'[s] = IF Keyset /\ Reading(s, b) /\ gone <= place[s]
                    THEN place[s] - 1 ELSE place[s]
    BY <1>1
  <2>3. shifted'[s] = (shifted[s] \/ (~Keyset /\ Reading(s, b) /\ gone <= place[s]))
    BY <1>1
  <2>4. place'[s] \in Nat
    BY <1>3, <2>1, <2>2
  <2> QED BY <2>1, <2>2, <2>3, <2>4
<1> HIDE DEF q
<1>8. \A c \in Shelves : \A k \in DOMAIN library'[c] :
        \E j \in DOMAIN library[c] : library'[c][k] = library[c][j]
  <2>1. \A k \in DOMAIN library'[b] : \E j \in DOMAIN library[b] : library'[b][k] = library[b][j]
    BY <1>3, <1>5 DEF q
  <2> QED BY <1>4, <2>1
<1>9. Shelved'
  <2> DEFINE home(x) == ShelfOf(x)
  <2>1. ASSUME NEW c \in Shelves, NEW j \in DOMAIN library'[c]
        PROVE  /\ library'[c][j] \in known /\ home(library'[c][j]) = c
               /\ \A k \in DOMAIN library'[c] :
                    library'[c][j] = library'[c][k] => j = k
    <3>1. library'[c][j] \in known /\ home(library'[c][j]) = c
      BY <1>8, <2>1 DEF Shelved
    <3>2. CASE c # b
      BY <1>4, <2>1, <3>1, <3>2 DEF Shelved
    <3>3. CASE c = b
      <4>1. ASSUME NEW k \in DOMAIN library'[c], library'[c][j] = library'[c][k]
            PROVE  j = k
        <5>1. /\ old(j) \in 1..Len(q) /\ library'[b][j] = q[old(j)]
              /\ old(k) \in 1..Len(q) /\ library'[b][k] = q[old(k)]
          BY <1>5, <2>1, <3>3, <4>1
        <5>2. old(j) = old(k)
          BY <1>6, <3>3, <4>1, <5>1
        <5>3. j \in Nat /\ k \in Nat /\ gone \in Nat
          BY <1>3, <1>5, <2>1, <3>3, <4>1
        <5> QED BY <5>2, <5>3
      <4> QED BY <3>1, <4>1
    <3> QED BY <3>2, <3>3
  <2>2. \A x : home(x)' = home(x)
    BY <1>2 DEF ShelfOf, YodeckShelf, ScreenCloudShelf
  <2> QED
    BY <1>2, <2>1, <2>2 DEF Shelved, ShelfOf, YodeckShelf, ScreenCloudShelf
<1>10. Started'
  <2>1. \A s \in Session : place[s] = 0 => place'[s] = 0
    BY <1>7 DEF Reading
  <2> QED BY <1>2, <2>1 DEF Started, LastShelf
<1>11. ShelvesBefore'
  BY <1>2, <1>7, <1>8 DEF ShelvesBefore
<1>12. PlacesBefore'
  <2> SUFFICES ASSUME NEW s \in Session, at[s] = "list", ~shifted'[s],
                      NEW k \in DOMAIN library'[shelf[s]], k <= place'[s]
               PROVE  library'[shelf[s]][k] \in Covered(s)'
    BY <1>2 DEF PlacesBefore
  <2>1. \A j \in DOMAIN library[shelf[s]] :
          j <= place[s] => library[shelf[s]][j] \in Covered(s)
    BY <1>7 DEF PlacesBefore
  <2>2. CASE shelf[s] # b
    <3>1. place'[s] = place[s]
      BY <1>7, <2>2 DEF Reading
    <3> QED BY <1>2, <1>4, <1>7, <2>1, <2>2, <3>1
  <2>3. CASE shelf[s] = b
    <3>1. k \in 1..(Len(q) - 1)
      BY <1>5, <2>3
    <3>2. Reading(s, b)
      <4>1. place[s] > 0
        BY <1>3, <1>7, <3>1
      <4> QED BY <2>3, <4>1 DEF Reading
    <3>3. old(k) <= place[s]
      BY <1>3, <1>7, <3>1, <3>2
    <3>4. old(k) \in DOMAIN library[b] /\ library'[b][k] = library[b][old(k)]
      BY <1>3, <1>5, <3>1 DEF q
    <3> QED BY <1>2, <2>1, <2>3, <3>3, <3>4
  <2> QED BY <2>2, <2>3
<1>13. PlacesAfter'
  <2> SUFFICES ASSUME NEW s \in Session, platform = "xibo", ~unpaged, at[s] = "list",
                      ~shifted'[s], NEW k \in DOMAIN library'[1], place'[s] < k
               PROVE  library'[1][k] \notin listed[s]
    BY <1>2 DEF PlacesAfter
  <2>1. place'[s] = place[s]
    BY <1>7 DEF Keyset
  <2>2. \A j \in DOMAIN library[1] : place[s] < j => library[1][j] \notin listed[s]
    BY <1>7 DEF PlacesAfter
  <2>3. CASE b # 1
    <3>1. library'[1] = library[1]
      BY <1>4, <2>3 DEF Shelves
    <3> QED BY <2>1, <2>2, <3>1
  <2>4. CASE b = 1
    <3>1. k \in 1..(Len(q) - 1)
      BY <1>5, <2>4
    <3>2. old(k) \in DOMAIN library[1] /\ library'[1][k] = library[1][old(k)]
      BY <1>3, <1>5, <2>4, <3>1 DEF q
    <3>3. place[s] < old(k)
      BY <1>3, <1>7, <2>1, <3>1
    <3> QED BY <2>2, <3>2, <3>3
  <2> QED BY <2>3, <2>4
<1>14. AllCovered'
  BY <1>2, <1>7, <1>8 DEF AllCovered
<1> QED BY <1>9, <1>10, <1>11, <1>12, <1>13, <1>14

\* One page: what was behind the place comes to be covered.
LEMMA ListingList ==
  ASSUME ImportTypeOK, ListingInv, NEW s \in Session, List(s)
  PROVE  ListingInv'
<1> USE DEF ListingInv, Covered
<1> DEFINE more == /\ ~LastPage(s) /\ at'[s] = "list" /\ shelf'[s] = shelf[s]
                   /\ place'[s] = Onward(s) /\ listed'[s] = listed[s] \cup Batch(s)
           next == /\ LastPage(s) /\ shelf[s] < LastShelf /\ at'[s] = "list"
                   /\ shelf'[s] = shelf[s] + 1 /\ place'[s] = 0
                   /\ listed'[s] = listed[s] \cup Batch(s)
           over == /\ LastPage(s) /\ ~(shelf[s] < LastShelf) /\ at'[s] = "choose"
                   /\ shelf'[s] = shelf[s] /\ place'[s] = place[s]
                   /\ listed'[s] = listed[s] \cup Batch(s)
           broken == at'[s] = "ended" /\ shelf'[s] = shelf[s] /\ listed'[s] = listed[s]
<1>1. UNCHANGED <<platform, unpaged, library, known, shifted, late>> /\ at[s] = "list"
  BY DEF List
<1>2. \A t \in Session : t # s => /\ at'[t] = at[t] /\ shelf'[t] = shelf[t]
                                  /\ place'[t] = place[t] /\ listed'[t] = listed[t]
  BY DEF List, Go, ImportTypeOK
<1>3. more \/ next \/ over \/ broken
  BY DEF List, Go, ImportTypeOK
<1>4. place[s] \in Nat /\ PageSize \in Nat \ {0} /\ shelf[s] \in Shelves /\ LastShelf \in Shelves
      /\ LastShelf' = LastShelf
  BY <1>1, ImportAssumption, ShelfBounds DEF ImportTypeOK, LastShelf
<1>5. Len(library[shelf[s]]) \in Nat /\ DOMAIN library[shelf[s]] = 1..Len(library[shelf[s]])
  BY <1>4, LibraryTypes
<1> DEFINE q == library[shelf[s]]
<1>6. \A k \in Page(s) : k \in DOMAIN q /\ q[k] \in Batch(s)
  BY DEF Page, Batch
<1>7. Batch(s) \subseteq known
  BY <1>4 DEF Batch, Page, Shelved
<1>8. ASSUME LastPage(s), ~shifted[s]
      PROVE  \A b \in Shelves : b <= shelf[s] => \A k \in DOMAIN library[b] :
               library[b][k] \in Covered(s) \cup Batch(s)
  <2>1. \A k \in DOMAIN library[shelf[s]] :
          library[shelf[s]][k] \in Covered(s) \cup Batch(s)
    BY <1>1, <1>8, ShelfDone
  <2>2. \A b \in Shelves : b < shelf[s] =>
          \A k \in DOMAIN library[b] : library[b][k] \in Covered(s)
    BY <1>1, <1>8 DEF ShelvesBefore
  <2> QED BY <1>4, <2>1, <2>2 DEF Shelves
<1> HIDE DEF q
<1>9. Shelved'
  BY <1>1 DEF Shelved, ShelfOf, YodeckShelf, ScreenCloudShelf
<1>10. Started'
  <2> SUFFICES ASSUME NEW t \in Session
               PROVE  /\ listed'[t] \subseteq known
                      /\ at'[t] = "idle" => shelf'[t] = 1 /\ place'[t] = 0 /\ listed'[t] = {}
                      /\ shelf'[t] <= LastShelf
                      /\ at'[t] \notin {"idle", "list", "ended"} => shelf'[t] = LastShelf
    BY <1>1, <1>4 DEF Started
  <2>1. CASE t # s
    BY <1>2, <2>1 DEF Started
  <2>2. CASE t = s
    <3>1. listed[s] \subseteq known /\ shelf[s] <= LastShelf
      BY DEF Started
    <3> QED BY <1>3, <1>4, <1>7, <2>2, <3>1 DEF Shelves
  <2> QED BY <2>1, <2>2
<1>11. ShelvesBefore'
  <2> SUFFICES ASSUME NEW t \in Session, NEW b \in Shelves,
                      at'[t] = "list", ~shifted[t], b < shelf'[t],
                      NEW k \in DOMAIN library[b]
               PROVE  library[b][k] \in listed'[t] \cup late[t]
    BY <1>1 DEF ShelvesBefore
  <2>1. CASE t # s
    BY <1>2, <2>1 DEF ShelvesBefore
  <2>2. CASE t = s /\ more
    BY <1>1, <2>2 DEF ShelvesBefore
  <2>3. CASE t = s /\ next
    <3>1. b <= shelf[s]
      BY <1>4, <2>3 DEF Shelves
    <3> QED BY <1>8, <2>3, <3>1
  <2> QED BY <1>3, <2>1, <2>2, <2>3
<1>12. PlacesBefore'
  <2> SUFFICES ASSUME NEW t \in Session, at'[t] = "list", ~shifted[t],
                      NEW k \in DOMAIN library[shelf'[t]], k <= place'[t]
               PROVE  library[shelf'[t]][k] \in listed'[t] \cup late[t]
    BY <1>1 DEF PlacesBefore
  <2>1. CASE t # s
    BY <1>2, <2>1 DEF PlacesBefore
  <2>2. CASE t = s /\ more
    <3>1. k \in 1..Len(q) /\ k \in DOMAIN q /\ Len(q) \in Nat
      BY <1>5, <2>2 DEF q
    <3>2. CASE unpaged
      <4>1. k \in Page(s)
        BY <3>1, <3>2 DEF Page, q
      <4> QED BY <1>6, <2>2, <4>1 DEF q
    <3>3. CASE ~unpaged
      <4>1. platform # "pisignage"
        BY <2>2 DEF LastPage
      <4>2. Advance(s) \in Nat /\ Advance(s) <= PageSize
        BY <1>4, <3>3, <4>1, PageBounds DEF Advance
      <4>3. k <= place[s] + PageSize
        BY <1>4, <2>2, <3>1, <3>3, <4>2 DEF Onward
      <4>4. k <= place[s] \/ k \in Page(s)
        BY <1>4, <3>1, <3>3, <4>1, <4>3 DEF Page, q
      <4>5. k <= place[s] => q[k] \in Covered(s)
        BY <1>1, <2>2, <3>1 DEF PlacesBefore, q
      <4> QED BY <1>6, <2>2, <4>4, <4>5 DEF q
    <3> QED BY <3>2, <3>3
  <2>3. CASE t = s /\ next
    <3>1. library[shelf'[t]] \in Seq(Item) /\ shelf'[t] \in Shelves
      BY <1>4, <2>3 DEF ImportTypeOK, Shelves
    <3>2. k \in 1..Len(library[shelf'[t]]) /\ Len(library[shelf'[t]]) \in Nat
      BY <3>1, LibraryTypes
    <3> QED BY <2>3, <3>2
  <2> QED BY <1>3, <2>1, <2>2, <2>3
<1>13. PlacesAfter'
  <2> SUFFICES ASSUME NEW t \in Session, platform = "xibo", ~unpaged, at'[t] = "list",
                      ~shifted[t], NEW k \in DOMAIN library[1], place'[t] < k
               PROVE  library[1][k] \notin listed'[t]
    BY <1>1 DEF PlacesAfter
  <2>1. CASE t # s
    BY <1>2, <2>1 DEF PlacesAfter
  <2>2. CASE t = s /\ more
    <3>1. shelf[s] = 1
      BY <1>4 DEF Started, LastShelf, Shelves
    <3>2. k \in 1..Len(q) /\ q = library[1]
      BY <1>5, <3>1 DEF q
    <3>3. place[s] + PageSize < k
      BY <2>2 DEF Onward, Advance
    <3>4. q[k] \notin listed[s]
      BY <1>1, <1>4, <1>5, <2>2, <3>2, <3>3 DEF PlacesAfter
    <3>5. q[k] \notin Batch(s)
      <4> SUFFICES ASSUME NEW j \in Page(s), q[k] = q[j]
                   PROVE  FALSE
        BY DEF Batch, q
      <4>1. j \in DOMAIN q /\ j <= place[s] + PageSize
        BY DEF Page, q
      <4>2. j = k
        BY <1>4, <3>1, <3>2, <4>1 DEF Shelved, q
      <4>3. j \in Nat
        BY <1>5, <4>1 DEF q
      <4> QED BY <1>4, <3>3, <4>1, <4>2, <4>3
    <3> QED BY <2>2, <3>2, <3>4, <3>5
  <2>3. CASE t = s /\ next
    BY <1>4, <2>3 DEF LastShelf, Shelves
  <2> QED BY <1>3, <2>1, <2>2, <2>3
<1>14. AllCovered'
  <2> SUFFICES ASSUME NEW t \in Session, NEW b \in Shelves,
                      at'[t] \notin {"idle", "list", "ended"}, ~shifted[t],
                      NEW k \in DOMAIN library[b]
               PROVE  library[b][k] \in listed'[t] \cup late[t]
    BY <1>1 DEF AllCovered
  <2>1. CASE t # s
    BY <1>2, <2>1 DEF AllCovered
  <2>2. CASE t = s /\ over
    <3>1. ShelfOf(library[b][k]) = b
      BY DEF Shelved
    <3>2. b <= LastShelf
      BY <3>1, ShelfBounds
    <3>3. b <= shelf[s]
      BY <1>4, <2>2, <3>2 DEF Shelves
    <3> QED BY <1>8, <2>2, <3>3
  <2> QED BY <1>3, <2>1, <2>2
<1> QED BY <1>9, <1>10, <1>11, <1>12, <1>13, <1>14

LEMMA ListingValidate ==
  ASSUME ImportTypeOK, ListingInv, NEW s \in Session, Validate(s)
  PROVE  ListingInv'
<1> USE DEF ListingInv, Covered
<1>1. UNCHANGED listing /\ at[s] = "idle" /\ at'[s] \in {"list", "ended"}
      /\ \A t \in Session : t # s => at'[t] = at[t]
  BY DEF Validate, Go, ImportTypeOK
<1> USE DEF listing
<1>2. shelf[s] = 1 /\ place[s] = 0 /\ listed[s] = {}
  BY <1>1 DEF Started
<1>3. Shelved' /\ Started'
  BY <1>1 DEF Shelved, ShelfOf, YodeckShelf, ScreenCloudShelf, Started, LastShelf
<1>4. ShelvesBefore'
  <2>1. \A b \in Shelves : ~(b < shelf[s])
    BY <1>2 DEF Shelves
  <2> QED BY <1>1, <2>1 DEF ShelvesBefore
<1>5. PlacesBefore'
  <2>1. \A k \in DOMAIN library[shelf[s]] : ~(k <= place[s])
    <3>1. DOMAIN library[shelf[s]] = 1..Len(library[shelf[s]]) /\ Len(library[shelf[s]]) \in Nat
      BY LibraryTypes DEF ImportTypeOK
    <3> QED BY <1>2, <3>1
  <2> QED BY <1>1, <2>1 DEF PlacesBefore
<1>6. PlacesAfter' /\ AllCovered'
  BY <1>1, <1>2 DEF PlacesAfter, AllCovered
<1> QED BY <1>3, <1>4, <1>5, <1>6

\* Steps after the listing
LEMMA ListingKept ==
  ASSUME ImportTypeOK, ListingInv, UNCHANGED listing,
         \A t \in Session :
           at'[t] = at[t] \/ /\ at[t] \notin {"idle", "list", "ended"}
                             /\ at'[t] \notin {"idle", "list"}
  PROVE  ListingInv'
<1> USE DEF ListingInv, Covered, listing
<1>1. Shelved' /\ Started'
  BY DEF Shelved, ShelfOf, YodeckShelf, ScreenCloudShelf, Started, LastShelf
<1>2. ShelvesBefore' /\ PlacesBefore'
  BY DEF ShelvesBefore, PlacesBefore
<1>3. PlacesAfter' /\ AllCovered'
  BY DEF PlacesAfter, AllCovered
<1> QED BY <1>1, <1>2, <1>3

LEMMA ListingStep ==
  ASSUME ImportTypeOK, ListingInv, [ImportNext]_importVars
  PROVE  ListingInv'
<1>1. CASE Account
  BY <1>1, ListingAdd, ListingDiscard DEF Account
<1>2. ASSUME NEW s \in Session, Validate(s) \/ List(s)
      PROVE  ListingInv'
  BY <1>2, ListingValidate, ListingList
<1>3. ASSUME NEW s \in Session, Import(s), ~Validate(s), ~List(s)
      PROVE  ListingInv'
  <2>1. UNCHANGED listing
    BY <1>3 DEF Import, Continue, Choose, Pick, Find, Detail, Fetch, Fetched, Prepare, Create,
                Dispatch, Order, Stamp, Die, Retry
  <2>2. /\ at[s] \notin {"idle", "list", "ended"}
        /\ \E x \in Steps \ {"idle", "list"} : at' = [at EXCEPT ![s] = x]
    <3> USE DEF Go, Fail, Raise, Steps, Making
    <3>1. CASE Choose(s) \/ Pick(s) \/ Find(s) \/ Retry(s) \/ Die(s)
      BY <3>1 DEF Choose, Pick, Find, Retry, Die
    <3>2. CASE Detail(s)
      BY <3>2 DEF Detail, YodeckItem, ScreenCloudLink, ScreenCloudFile, XiboItem, PiSignageItem
    <3>3. CASE Fetch(s) \/ Fetched(s) \/ Prepare(s)
      BY <3>3 DEF Fetch, Fetched, Prepare
    <3>4. CASE Create(s) \/ Dispatch(s) \/ Order(s) \/ Stamp(s)
      BY <3>4 DEF Create, Dispatch, Order, Stamp
    <3> QED BY <1>3, <3>1, <3>2, <3>3, <3>4 DEF Import, Continue
  <2>3. \A t \in Session :
          at'[t] = at[t] \/ /\ at[t] \notin {"idle", "list", "ended"}
                            /\ at'[t] \notin {"idle", "list"}
    BY <2>2 DEF ImportTypeOK
  <2> QED BY <2>1, <2>3, ListingKept
<1>4. ASSUME NEW r \in Row, Others(r)
      PROVE  ListingInv'
  <2>1. UNCHANGED <<listing, at>>
    BY <1>4 DEF Others, Task, Take, Convert, Unlink, Commit, RejectRead,
            RejectWrite, TaskDies, Requeue, Delete, DeleteLoad, DeleteFile,
            DeleteRow, DeleteDies
  <2> QED BY <2>1, ListingKept
<1>5. CASE UNCHANGED importVars
  BY <1>5, ListingKept DEF importVars
<1> QED BY <1>1, <1>2, <1>3, <1>4, <1>5 DEF ImportNext, Import

LEMMA ListingInit == Init => ListingInv
<1> SUFFICES ASSUME Init PROVE ListingInv
  OBVIOUS
<1>1. \A b \in Shelves : DOMAIN library[b] = {}
  BY DEF Init
<1>2. \A s \in Session : /\ at[s] = "idle" /\ shelf[s] = 1 /\ place[s] = 0
                         /\ listed[s] = {}
  BY DEF Init
<1>3. 1 <= LastShelf
  BY DEF LastShelf
<1> QED BY <1>1, <1>2, <1>3 DEF ListingInv, Shelved, Started, ShelvesBefore, PlacesBefore,
                                PlacesAfter, AllCovered

\* The _iter of the providers, with _paginate(): a listing that ended well names all that is
\* in the account, but what was added behind its back or slipped past a shifted offset.
THEOREM NothingIsMissed == ArchiveSpec => []NothingMissed
<1>1. ArchiveInit => ArchiveTypeOK /\ ListingInv
  BY ArchiveTypeInit, ListingInit DEF ArchiveInit
<1>2. ArchiveTypeOK /\ ListingInv /\ [ArchiveNext]_archiveVars
        => ArchiveTypeOK' /\ ListingInv'
  <2> SUFFICES ASSUME ArchiveTypeOK, ListingInv, [ArchiveNext]_archiveVars
               PROVE  ArchiveTypeOK' /\ ListingInv'
    OBVIOUS
  <2>1. ImportTypeOK
    BY DEF ArchiveTypeOK
  <2>2. ASSUME NEW q \in Restore, Unpack(q) \/ Extract(q)
        PROVE  ListingInv'
    <3>1. UNCHANGED <<listing, at>>
      BY <2>2 DEF Unpack, Extract
    <3> QED BY <2>1, <3>1, ListingKept
  <2> QED BY <2>1, <2>2, ArchiveTypeStep, ArchiveShape, ListingStep
<1>3. ListingInv => NothingMissed
  <2> SUFFICES ASSUME ListingInv, NEW s \in Session, NEW b \in Shelves,
                      at[s] \notin {"idle", "list", "ended"}, ~shifted[s]
               PROVE  Range(library[b]) \subseteq listed[s] \cup late[s]
    BY DEF NothingMissed
  <2> QED BY DEF ListingInv, AllCovered, Covered, Range
<1> QED BY <1>1, <1>2, <1>3, PTL DEF ArchiveSpec

-----------------------------------------------------------------------------
(* Nothing is left over *)

Earlier == Early \cup {"find"}

\* Rows that no import has made yet
Unused(r) ==
  \/ tries[r[1]] < r[3]
  \/ /\ r[3] = tries[r[1]]
     /\ \/ at[r[1]] \in {"idle", "list", "choose"}
        \/ r[2] \in todo[r[1]]
        \/ r[2] = item[r[1]] /\ at[r[1]] \in Earlier

Undispatched(r) == at[r[1]] = "dispatch" /\ r = Mine(r[1])

\* What is downloaded is a file of a kind that has one.
Chosen ==
  \A s \in Session :
    /\ \A i \in todo[s] \cup failed[s] : Importable(i)
    /\ at[s] \in {"find"} \cup Making => Importable(item[s]) /\ item[s] \notin todo[s]
    /\ at[s] \in {"fetch", "fetching"} => Nature[item[s]] # "page"

UnusedIsNew ==
  \A r \in Row : Unused(r) =>
    /\ ~asset[r].live /\ asset[r].uri = "orig" /\ ~asset[r].processing
    /\ task[r].at = "none" /\ deleting[r].at = "none"

NoTaskYet == \A r \in Row : Undispatched(r) => task[r].at = "none"

OrigWhileTask ==
  \A r \in Row : task[r].at # "none" \/ Undispatched(r) \/ asset[r].processing
                => asset[r].uri = "orig"

\* Until its task is through with it, the file of an asset is the one its row names.
OwnFile ==
  \A f \in disk : \/ f[1] \in litter
                  \/ f[2] = asset[f[1]].uri
                  \/ task[f[1]].at \in {"unlink", "converted"}

ConvertedOnly ==
  \A r \in Row : task[r].at = "converted" /\ r \notin litter => <<r, "orig">> \notin disk

\* What a delete has removed is gone, and a file that a task has made is its last.
Deleted ==
  \A r \in Row : deleting[r].at # "none" /\ r \notin litter =>
    /\ deleting[r].at = "row" => <<r, deleting[r].uri>> \notin disk
    /\ deleting[r].uri = "made"
         => task[r].at = "none" /\ ~Undispatched(r) /\ ~asset[r].processing

TempOwned == \A f \in temp : f[1] \in litter \/ \E s \in Session : f \in TempOf(s)

DiskOwned ==
  \A f \in disk : f[1] \in litter \/ asset[f[1]].live
                  \/ \E s \in Session : at[s] = "create" /\ f[1] = Mine(s)

FileInv == /\ Chosen /\ UnusedIsNew /\ NoTaskYet /\ OrigWhileTask
           /\ OwnFile /\ ConvertedOnly /\ Deleted /\ TempOwned /\ DiskOwned

\* The same of the rows in the archive, which a restore brings back
KeptFiles ==
  /\ \A r \in Row : Unused(r) => /\ ~archive.rows[r].live /\ ~archive.rows[r].processing
                              /\ archive.rows[r].uri = "orig"
  /\ \A r \in Row :
       \/ task[r].at # "none" \/ Undispatched(r) \/ asset[r].processing
       \/ archive.rows[r].processing
       => archive.rows[r].uri = "orig"

\* The others' part in a step of one session
LEMMA SessionStep ==
  ASSUME ImportTypeOK, NEW s \in Session, Import(s)
  PROVE  /\ platform' = platform
         /\ \A t \in Session \ {s} :
              /\ at'[t] = at[t] /\ item'[t] = item[t] /\ tries'[t] = tries[t]
              /\ todo'[t] = todo[t] /\ failed'[t] = failed[t]
<1> USE DEF ImportTypeOK, Go, Fail, Raise, listing, progress, Import, Continue
<1>1. CASE Validate(s) \/ List(s) \/ Choose(s)
  BY <1>1 DEF Validate, List, Choose
<1>2. CASE Pick(s) \/ Find(s)
  BY <1>2 DEF Pick, Find
<1>3. CASE Detail(s)
  BY <1>3 DEF Detail, YodeckItem, ScreenCloudLink, ScreenCloudFile, XiboItem, PiSignageItem
<1>4. CASE Fetch(s) \/ Fetched(s) \/ Prepare(s)
  BY <1>4 DEF Fetch, Fetched, Prepare
<1>5. CASE Create(s) \/ Dispatch(s) \/ Order(s) \/ Stamp(s)
  BY <1>5 DEF Create, Dispatch, Order, Stamp
<1>6. CASE Die(s) \/ Retry(s)
  BY <1>6 DEF Die, Retry
<1> QED BY <1>1, <1>2, <1>3, <1>4, <1>5, <1>6

LEMMA ImportableKept ==
  ASSUME platform' = platform
  PROVE  \A i : Importable(i)' = Importable(i)
BY DEF Importable, XiboImportable, PiSignageImportable

\* From "find" on: what each step does to at and failed
LEMMA MakingStep ==
  ASSUME ImportTypeOK, Chosen, NEW s \in Session, Import(s), at[s] \in Making \cup {"find"}
  PROVE  /\ todo' = todo /\ item' = item /\ tries' = tries
         /\ at'[s] \in Making \cup {"pick", "ended"}
         /\ failed'[s] \subseteq failed[s] \cup {item[s]}
         /\ at'[s] \in Early => at[s] \in Earlier
         /\ at'[s] \in {"fetch", "fetching"} => Nature[item[s]] # "page"
         /\ at'[s] = "dispatch" => Create(s)
<1> USE DEF ImportTypeOK, Go, Fail, Raise, listing, progress, Making, Early, Earlier
<1>1. CASE Find(s)
  BY <1>1 DEF Find
<1>2. CASE Detail(s)
  <2>1. Importable(item[s])
    BY DEF Chosen
  <2>2. UNCHANGED <<todo, item, tries>> /\ at[s] = "detail"
    BY <1>2 DEF Detail
  <2>3. CASE Fail(s)
    BY <2>2, <2>3
  <2>4. CASE /\ failed' = failed
             /\ YodeckItem(s) \/ ScreenCloudLink(s) \/ ScreenCloudFile(s)
    BY <2>2, <2>4 DEF YodeckItem, ScreenCloudLink, ScreenCloudFile
  <2>5. CASE failed' = failed /\ (XiboItem(s) \/ PiSignageItem(s))
    <3>1. Nature[item[s]] # "page"
      BY <2>1, <2>5 DEF Importable, XiboImportable, PiSignageImportable, XiboItem, PiSignageItem
    <3> QED BY <2>2, <2>5, <3>1 DEF XiboItem, PiSignageItem
  <2> QED BY <1>2, <2>3, <2>4, <2>5 DEF Detail
<1>3. CASE Fetch(s)
  BY <1>3 DEF Fetch, Chosen
<1>4. CASE Fetched(s) \/ Prepare(s)
  BY <1>4 DEF Fetched, Prepare
<1>5. CASE Create(s) \/ Dispatch(s)
  BY <1>5 DEF Create, Dispatch
<1>6. CASE Order(s) \/ Stamp(s) \/ Die(s)
  BY <1>6 DEF Order, Stamp, Die
<1>7. ~Validate(s) /\ ~List(s) /\ ~Choose(s) /\ ~Pick(s) /\ ~Retry(s)
  BY DEF Validate, List, Choose, Pick, Retry
<1> QED BY <1>1, <1>2, <1>3, <1>4, <1>5, <1>6, <1>7 DEF Import, Continue

LEMMA ChosenStep ==
  ASSUME ImportTypeOK, Chosen, NEW s \in Session, Import(s)
  PROVE  Chosen'
<1>1. \A i : Importable(i)' = Importable(i)
  BY SessionStep, ImportableKept
<1>2. /\ \A i \in todo'[s] \cup failed'[s] : Importable(i)
      /\ at'[s] \in {"find"} \cup Making => Importable(item'[s]) /\ item'[s] \notin todo'[s]
      /\ at'[s] \in {"fetch", "fetching"} => Nature[item'[s]] # "page"
  <2> USE DEF ImportTypeOK, Go, listing, progress
  <2>1. CASE at[s] \in Making \cup {"find"}
    BY <2>1, MakingStep DEF Chosen, Making
  <2>2. CASE Validate(s) \/ List(s)
    BY <2>2 DEF Validate, List, Chosen, Making
  <2>3. CASE Choose(s)
    <3>1. /\ at'[s] = "pick" /\ failed' = failed
          /\ \A i \in todo'[s] : Importable(i)
      BY <2>3 DEF Choose
    <3> QED BY <3>1 DEF Chosen, Making
  <2>4. CASE Pick(s)
    <3>1. \/ at'[s] = "done" /\ UNCHANGED <<todo, item, failed>>
          \/ \E i \in todo[s] : /\ todo'[s] = todo[s] \ {i} /\ item'[s] = i
                                /\ at'[s] = "find" /\ failed' = failed
      BY <2>4 DEF Pick
    <3> QED BY <3>1 DEF Chosen, Making
  <2>5. CASE Retry(s)
    BY <2>5 DEF Retry, Chosen, Making
  <2> QED BY <2>1, <2>2, <2>3, <2>4, <2>5 DEF Import, Continue, Find, Detail, Fetch, Fetched,
             Prepare, Create, Dispatch, Order, Stamp, Die, Making
<1>3. \A t \in Session \ {s} :
        /\ \A i \in todo'[t] \cup failed'[t] : Importable(i)
        /\ at'[t] \in {"find"} \cup Making => Importable(item'[t]) /\ item'[t] \notin todo'[t]
        /\ at'[t] \in {"fetch", "fetching"} => Nature[item'[t]] # "page"
  BY SessionStep DEF Chosen
<1> QED BY <1>1, <1>2, <1>3 DEF Chosen

\* A row that was used stays so.
LEMMA UsedStays ==
  ASSUME ImportTypeOK, Chosen, NEW s \in Session, Import(s), NEW r \in Row, Unused(r)'
  PROVE  Unused(r)
<1>1. /\ r[1] \in Session /\ r[2] \in Item /\ r[3] \in Nat
      /\ tries[s] \in Nat
  BY ImportAssumption DEF Row, ImportTypeOK
<1>2. CASE r[1] # s
  BY <1>1, <1>2, SessionStep DEF Unused
<1>3. CASE r[1] = s /\ at[s] \in Making \cup {"find"}
  BY <1>3, MakingStep DEF Unused, Earlier, Early, Making
<1>4. CASE r[1] = s /\ at[s] \notin Making \cup {"find"}
  <2> USE DEF ImportTypeOK, Go, listing, progress
  <2>1. CASE Validate(s) \/ List(s)
    BY <1>4, <2>1 DEF Validate, List, Unused, Earlier, Early
  <2>2. CASE Choose(s)
    BY <1>4, <2>2 DEF Choose, Unused, Earlier, Early
  <2>3. CASE Pick(s)
    <3>1. /\ tries' = tries /\ at[s] = "pick"
          /\ \/ at'[s] = "done" /\ UNCHANGED <<todo, item>>
             \/ \E i \in todo[s] : /\ todo'[s] = todo[s] \ {i} /\ item'[s] = i
                                   /\ at'[s] = "find"
      BY <2>3 DEF Pick
    <3> QED BY <1>4, <3>1 DEF Unused, Earlier, Early
  <2>4. CASE Retry(s)
    <3>1. tries'[s] = tries[s] + 1
      BY <2>4 DEF Retry
    <3> QED BY <1>1, <1>4, <3>1 DEF Unused
  <2> QED BY <1>4, <2>1, <2>2, <2>3, <2>4 DEF Import, Continue, Find, Detail, Fetch, Fetched,
             Prepare, Create, Dispatch, Order, Stamp, Die, Making
<1> QED BY <1>2, <1>3, <1>4

\* And the row that an import is making is used, from the moment it is there.
LEMMA MineIsUsed ==
  ASSUME ImportTypeOK, Chosen, NEW s \in Session, Import(s), at[s] \in Making,
         at'[s] \notin Early
  PROVE  ~Unused(Mine(s))' /\ Mine(s)' = Mine(s) /\ Mine(s) \in Row
<1>1. /\ todo' = todo /\ item' = item /\ tries' = tries /\ item[s] \notin todo[s]
      /\ at'[s] \in Making \cup {"pick", "ended"}
  BY MakingStep DEF Chosen
<1>2. tries[s] \in Nat /\ Mine(s) \in Row
  BY MineIsRow, ImportAssumption DEF ImportTypeOK
<1>3. Mine(s)[1] = s /\ Mine(s)[2] = item[s] /\ Mine(s)[3] = tries[s] /\ Mine(s)' = Mine(s)
  BY <1>1 DEF Mine
<1>4. at'[s] \notin {"idle", "list", "choose"} \cup Earlier
  BY <1>1 DEF Earlier, Early, Making
<1> QED BY <1>1, <1>2, <1>3, <1>4 DEF Unused

\* TempOf without CASE
LEMMA TempOfIs ==
  ASSUME NEW s \in Session
  PROVE  TempOf(s) = {<<Mine(s), name>> : name \in
           {n \in {"part", "staged"} :
              \/ n = "part" /\ at[s] = "fetching"
              \/ n = "staged" /\ at[s] = "prepare" /\ Nature[item[s]] # "page"}}
<1>1. CASE at[s] = "fetching"
  BY <1>1 DEF TempOf
<1>2. CASE at[s] = "prepare" /\ Nature[item[s]] # "page"
  BY <1>2 DEF TempOf
<1>3. CASE at[s] # "fetching" /\ ~(at[s] = "prepare" /\ Nature[item[s]] # "page")
  BY <1>3 DEF TempOf
<1> QED BY <1>1, <1>2, <1>3

\* Who owned a download or a file before a step of another owns it afterwards.
LEMMA OwnersKept ==
  ASSUME ImportTypeOK, NEW s \in Session, Import(s)
  PROVE  /\ \A t \in Session \ {s} : TempOf(t)' = TempOf(t) /\ Mine(t)' = Mine(t)
                                     /\ at'[t] = at[t]
         /\ \A r \in Row : r[1] # s => (Undispatched(r)' <=> Undispatched(r))
<1>1. \A t \in Session \ {s} : at'[t] = at[t] /\ item'[t] = item[t] /\ tries'[t] = tries[t]
  BY SessionStep
<1>2. \A t \in Session \ {s} : Mine(t)' = Mine(t)
  BY <1>1 DEF Mine
<1>3. \A t \in Session \ {s} : TempOf(t)' = TempOf(t)
  BY <1>1, <1>2 DEF TempOf
<1>4. \A r \in Row : r[1] # s => (Undispatched(r)' <=> Undispatched(r))
  BY <1>1, <1>2 DEF Undispatched, Row
<1> QED BY <1>1, <1>2, <1>3, <1>4

\* Steps of an import that leave the rows, the files and the tasks alone
LEMMA FilesMove ==
  ASSUME ImportTypeOK, FileInv, NEW s \in Session, Import(s),
         UNCHANGED <<temp, asset, disk, task, deleting, litter>>,
         at[s] \notin {"fetching", "prepare", "create"}, at'[s] # "dispatch"
  PROVE  FileInv'
<1> USE DEF FileInv
<1>1. Chosen'
  BY ChosenStep
<1>2. \A r \in Row : Undispatched(r)' => Undispatched(r)
  BY OwnersKept DEF Undispatched
<1>3. UnusedIsNew' /\ NoTaskYet' /\ OrigWhileTask'
  BY <1>2, UsedStays DEF UnusedIsNew, NoTaskYet, OrigWhileTask
<1>4. OwnFile' /\ ConvertedOnly' /\ Deleted'
  BY <1>2 DEF OwnFile, ConvertedOnly, Deleted
<1>5. TempOwned'
  <2>1. TempOf(s) = {}
    BY TempOfIs
  <2> QED BY <2>1, OwnersKept DEF TempOwned
<1>6. DiskOwned'
  BY OwnersKept DEF DiskOwned
<1> QED BY <1>1, <1>3, <1>4, <1>5, <1>6

LEMMA FilesFetch ==
  ASSUME ImportTypeOK, FileInv, NEW s \in Session, Import(s), Fetch(s)
  PROVE  FileInv'
<1> USE DEF FileInv
<1>1. /\ UNCHANGED <<asset, disk, task, deleting, litter>> /\ UNCHANGED <<item, tries>>
      /\ temp' = temp \cup {<<Mine(s), "part">>}
      /\ at[s] = "fetch" /\ at'[s] = "fetching"
  BY DEF Fetch, Go, progress, history, ImportTypeOK
<1>2. Chosen'
  BY ChosenStep
<1>3. \A r \in Row : Undispatched(r)' => Undispatched(r)
  BY <1>1, OwnersKept DEF Undispatched
<1>4. UnusedIsNew' /\ NoTaskYet' /\ OrigWhileTask'
  BY <1>1, <1>3, UsedStays DEF UnusedIsNew, NoTaskYet, OrigWhileTask
<1>5. OwnFile' /\ ConvertedOnly' /\ Deleted'
  BY <1>3, <1>1 DEF OwnFile, ConvertedOnly, Deleted
<1>6. TempOwned'
  <2>1. TempOf(s) = {}
    BY <1>1, TempOfIs
  <2>2. TempOf(s)' = {<<Mine(s), "part">>}
    BY <1>1 DEF TempOf, Mine
  <2> QED BY <1>1, <2>1, <2>2, OwnersKept DEF TempOwned
<1>7. DiskOwned'
  BY <1>1, OwnersKept DEF DiskOwned
<1> QED BY <1>2, <1>4, <1>5, <1>6, <1>7

LEMMA FilesFetched ==
  ASSUME ImportTypeOK, FileInv, NEW s \in Session, Import(s), Fetched(s)
  PROVE  FileInv'
<1> USE DEF FileInv
<1>1. /\ UNCHANGED <<asset, disk, task, deleting, litter>> /\ UNCHANGED <<item, tries>>
      /\ at[s] = "fetching" /\ at'[s] \in {"prepare", "pick", "ended"}
      /\ \/ temp' = Unlinked(s) \cup {<<Mine(s), "staged">>} /\ at'[s] = "prepare"
         \/ temp' = Unlinked(s)
  BY DEF Fetched, Go, Fail, Raise, progress, history, ImportTypeOK
<1>2. Chosen'
  BY ChosenStep
<1>3. \A r \in Row : Undispatched(r)' => Undispatched(r)
  BY <1>1, OwnersKept DEF Undispatched
<1>4. UnusedIsNew' /\ NoTaskYet' /\ OrigWhileTask'
  BY <1>1, <1>3, UsedStays DEF UnusedIsNew, NoTaskYet, OrigWhileTask
<1>5. OwnFile' /\ ConvertedOnly' /\ Deleted'
  BY <1>3, <1>1 DEF OwnFile, ConvertedOnly, Deleted
<1>6. TempOwned'
  <2>1. TempOf(s) = {<<Mine(s), "part">>}
    BY <1>1 DEF TempOf
  <2>2. Nature[item[s]] # "page"
    BY <1>1 DEF Chosen
  <2>3. at'[s] = "prepare" => TempOf(s)' = {<<Mine(s), "staged">>}
    BY <1>1, <2>2 DEF TempOf, Mine
  <2>4. \A f \in Unlinked(s) : f \in temp /\ f # <<Mine(s), "part">>
    BY DEF Unlinked
  <2>5. \A f \in Unlinked(s) : f[1] \in litter \/ \E t \in Session \ {s} : f \in TempOf(t)
    BY <2>1, <2>4 DEF TempOwned
  <2>6. \A f \in Unlinked(s) : f[1] \in litter' \/ \E t \in Session : f \in TempOf(t)'
    BY <1>1, <2>5, OwnersKept
  <2> QED BY <1>1, <2>3, <2>6 DEF TempOwned
<1>7. DiskOwned'
  BY <1>1, OwnersKept DEF DiskOwned
<1> QED BY <1>2, <1>4, <1>5, <1>6, <1>7

LEMMA FilesPrepare ==
  ASSUME ImportTypeOK, FileInv, NEW s \in Session, Import(s), Prepare(s)
  PROVE  FileInv'
<1> USE DEF FileInv
<1>1. /\ UNCHANGED <<asset, task, deleting, litter>> /\ UNCHANGED <<item, tries>>
      /\ at[s] = "prepare" /\ at'[s] \in {"create", "pick", "ended"}
      /\ temp' = Unlinked(s)
      /\ \/ disk' = disk
         \/ disk' = disk \cup {<<Mine(s), "orig">>} /\ at'[s] = "create"
  BY DEF Prepare, Go, Fail, Raise, progress, history, ImportTypeOK
<1>2. Chosen'
  BY ChosenStep
<1>3. \A r \in Row : Undispatched(r)' => Undispatched(r)
  BY <1>1, OwnersKept DEF Undispatched
<1>4. UnusedIsNew' /\ NoTaskYet' /\ OrigWhileTask'
  BY <1>1, <1>3, UsedStays DEF UnusedIsNew, NoTaskYet, OrigWhileTask
<1>5. Mine(s)' = Mine(s)
  BY <1>1 DEF Mine
<1>6. Unused(Mine(s)) /\ Mine(s) \in Row
  BY <1>1, MineIsRow DEF Unused, Mine, Earlier, Early
<1>7. OwnFile' /\ ConvertedOnly' /\ Deleted'
  <2>1. /\ asset[Mine(s)].uri = "orig"
        /\ task[Mine(s)].at = "none" /\ deleting[Mine(s)].at = "none"
    BY <1>6 DEF UnusedIsNew
  <2>2. OwnFile'
    BY <1>1, <2>1 DEF OwnFile
  <2>3. ConvertedOnly'
    BY <1>1, <2>1 DEF ConvertedOnly
  <2>4. Deleted'
    BY <1>1, <1>3, <2>1 DEF Deleted
  <2> QED BY <2>2, <2>3, <2>4
<1>8. TempOwned'
  <2>1. TempOf(s) \subseteq {<<Mine(s), "staged">>}
    BY <1>1, TempOfIs
  <2>2. \A f \in Unlinked(s) : f \in temp /\ f # <<Mine(s), "staged">>
    BY DEF Unlinked
  <2>3. \A f \in Unlinked(s) : f[1] \in litter \/ \E t \in Session \ {s} : f \in TempOf(t)
    BY <2>1, <2>2 DEF TempOwned
  <2> QED BY <1>1, <2>3, OwnersKept DEF TempOwned
<1>9. DiskOwned'
  <2>1. \A f \in disk : f[1] \in litter' \/ asset'[f[1]].live
                        \/ \E t \in Session : at'[t] = "create" /\ f[1] = Mine(t)'
    BY <1>1, OwnersKept DEF DiskOwned
  <2> QED BY <1>1, <1>5, <2>1 DEF DiskOwned
<1> QED BY <1>2, <1>4, <1>7, <1>8, <1>9

LEMMA FilesCreate ==
  ASSUME ImportTypeOK, FileInv, NEW s \in Session, Import(s), Create(s)
  PROVE  FileInv'
<1> USE DEF FileInv
<1> DEFINE r == Mine(s)
<1>1. /\ UNCHANGED <<temp, disk, task, deleting>> /\ UNCHANGED <<item, tries>>
      /\ at[s] = "create" /\ at'[s] \in {"dispatch", "pick", "ended"}
      /\ \/ asset' = [asset EXCEPT ![r] = NewAsset(r)] /\ litter' = litter /\ at'[s] = "dispatch"
         \/ asset' = asset /\ litter' = litter \cup {r} /\ at'[s] # "dispatch"
  BY DEF Create, Go, Raise, progress, history, ImportTypeOK
<1>2. Chosen'
  BY ChosenStep
<1>3. ~Unused(r)' /\ r' = r /\ r \in Row /\ r[1] = s
  BY <1>1, MineIsUsed, MineIsRow DEF Making, Early, Mine
<1>4. /\ Unused(r) /\ asset[r].uri = "orig" /\ ~asset[r].live
      /\ task[r].at = "none" /\ deleting[r].at = "none"
  BY <1>1, MineIsRow DEF Unused, Mine, Earlier, Early, UnusedIsNew
<1>5. /\ \A q \in Row : q # r => asset'[q] = asset[q]
      /\ asset'[r].uri = "orig"
      /\ at'[s] = "dispatch" => asset'[r].live
      /\ at'[s] # "dispatch" => r \in litter'
      /\ litter \subseteq litter'
  <2>1. CASE asset' = [asset EXCEPT ![r] = NewAsset(r)]
    <3>1. DOMAIN asset = Row
      BY DEF ImportTypeOK
    <3>2. asset'[r] = NewAsset(r) /\ \A q \in Row : q # r => asset'[q] = asset[q]
      BY <1>3, <2>1, <3>1
    <3>3. NewAsset(r).live /\ NewAsset(r).uri = "orig"
      BY DEF NewAsset, NoAsset
    <3> QED BY <1>1, <3>2, <3>3
  <2>2. CASE asset' = asset /\ litter' = litter \cup {r} /\ at'[s] # "dispatch"
    BY <1>4, <2>2
  <2> QED BY <1>1, <2>1, <2>2
<1> HIDE DEF r
<1>6. UnusedIsNew'
  BY <1>1, <1>3, <1>5, UsedStays DEF UnusedIsNew
<1>7. \A q \in Row : Undispatched(q)' => Undispatched(q) \/ q = r
  BY <1>3, OwnersKept DEF Undispatched, r
<1>8. NoTaskYet' /\ OrigWhileTask'
  BY <1>1, <1>4, <1>5, <1>7 DEF NoTaskYet, OrigWhileTask
<1>9. \A f \in disk : f[1] \in Row
  BY DEF ImportTypeOK, File
<1>10. OwnFile' /\ ConvertedOnly' /\ Deleted'
  <2>1. OwnFile'
    BY <1>1, <1>4, <1>5, <1>9 DEF OwnFile
  <2>2. ConvertedOnly'
    BY <1>1, <1>5 DEF ConvertedOnly
  <2>3. Deleted'
    BY <1>1, <1>4, <1>5, <1>7 DEF Deleted
  <2> QED BY <2>1, <2>2, <2>3
<1>11. TempOwned'
  <2>1. TempOf(s) = {}
    BY <1>1, TempOfIs
  <2> QED BY <1>1, <1>5, <2>1, OwnersKept DEF TempOwned
<1>12. DiskOwned'
  <2> SUFFICES ASSUME NEW f \in disk, f[1] \notin litter', ~asset'[f[1]].live
               PROVE  \E t \in Session : at'[t] = "create" /\ f[1] = Mine(t)'
    BY <1>1 DEF DiskOwned
  <2>1. f[1] # r
    BY <1>5
  <2>2. f[1] \notin litter /\ ~asset[f[1]].live
    BY <1>5, <1>9, <2>1
  <2>3. PICK t \in Session : at[t] = "create" /\ f[1] = Mine(t)
    BY <2>2 DEF DiskOwned
  <2>4. t # s
    BY <2>1, <2>3 DEF r
  <2> QED BY <2>3, <2>4, OwnersKept
<1> QED BY <1>2, <1>6, <1>8, <1>10, <1>11, <1>12

LEMMA FilesDispatch ==
  ASSUME ImportTypeOK, FileInv, NEW s \in Session, Import(s), Dispatch(s)
  PROVE  FileInv'
<1> USE DEF FileInv
<1> DEFINE r == Mine(s)
<1>1. CASE task' = task
  <2>1. /\ UNCHANGED <<temp, asset, disk, task, deleting, litter>>
        /\ at[s] = "dispatch" /\ at'[s] # "dispatch"
    BY <1>1 DEF Dispatch, Go, Raise, ImportTypeOK
  <2> QED BY <2>1, FilesMove
<1>2. CASE task' = [task EXCEPT ![r].at = "queued"] /\ at'[s] = "order"
  <2>1. /\ UNCHANGED <<temp, asset, disk, deleting, litter>> /\ at[s] = "dispatch"
    BY DEF Dispatch
  <2>2. ~Unused(r)' /\ r' = r /\ r \in Row /\ r[1] = s
    BY <1>2, <2>1, MineIsUsed, MineIsRow DEF Making, Early, Mine
  <2>3. /\ task[r].at = "none" /\ task'[r].at = "queued" /\ asset[r].uri = "orig"
        /\ \A q \in Row : q # r => task'[q] = task[q]
        /\ Undispatched(r)
    BY <1>2, <2>1, <2>2 DEF ImportTypeOK, NoTaskYet, OrigWhileTask, Undispatched
  <2> HIDE DEF r
  <2>4. Chosen'
    BY ChosenStep
  <2>5. UnusedIsNew'
    BY <2>1, <2>2, <2>3, UsedStays DEF UnusedIsNew
  <2>6. \A q \in Row : Undispatched(q)' => Undispatched(q) /\ q # r
    BY <1>2, <2>2, OwnersKept DEF Undispatched
  <2>7. NoTaskYet' /\ OrigWhileTask'
    BY <2>1, <2>3, <2>6 DEF NoTaskYet, OrigWhileTask
  <2>8. \A f \in disk : f[1] \in Row
    BY DEF ImportTypeOK, File
  <2>9. OwnFile' /\ ConvertedOnly' /\ Deleted'
    <3>1. OwnFile'
      BY <2>1, <2>3, <2>8 DEF OwnFile
    <3>2. ConvertedOnly'
      BY <2>1, <2>3 DEF ConvertedOnly
    <3>3. Deleted'
      BY <2>1, <2>3, <2>6 DEF Deleted
    <3> QED BY <3>1, <3>2, <3>3
  <2>10. TempOwned'
    <3>1. TempOf(s) = {}
      BY <2>1, TempOfIs
    <3> QED BY <2>1, <3>1, OwnersKept DEF TempOwned
  <2>11. DiskOwned'
    BY <2>1, OwnersKept DEF DiskOwned
  <2> QED BY <2>4, <2>5, <2>7, <2>9, <2>10, <2>11
<1> QED BY <1>1, <1>2 DEF Dispatch, Go, ImportTypeOK

LEMMA FilesStamp ==
  ASSUME ImportTypeOK, FileInv, NEW s \in Session, Import(s), Stamp(s)
  PROVE  FileInv'
<1> USE DEF FileInv
<1>1. /\ UNCHANGED <<temp, disk, task, deleting, litter>>
      /\ at[s] = "stamp" /\ at'[s] # "dispatch"
      /\ asset' = asset \/ asset' = [asset EXCEPT ![Mine(s)].stamped = TRUE]
  BY DEF Stamp, Go, Raise, Sourced, history, ImportTypeOK
<1>2. Mine(s) \in Row
  BY MineIsRow
<1>3. \A q \in Row : /\ asset'[q].live = asset[q].live /\ asset'[q].uri = asset[q].uri
                     /\ asset'[q].processing = asset[q].processing
  <2>1. CASE asset' = asset
    BY <2>1
  <2>2. CASE asset' = [asset EXCEPT ![Mine(s)].stamped = TRUE]
    BY <1>2, <2>2 DEF ImportTypeOK
  <2> QED BY <1>1, <2>1, <2>2
<1>4. \A f \in disk : f[1] \in Row
  BY DEF ImportTypeOK, File
<1>5. Chosen'
  BY ChosenStep
<1>6. \A q \in Row : Undispatched(q)' => Undispatched(q)
  BY <1>1, OwnersKept DEF Undispatched
<1>7. UnusedIsNew' /\ NoTaskYet' /\ OrigWhileTask'
  BY <1>1, <1>3, <1>6, UsedStays DEF UnusedIsNew, NoTaskYet, OrigWhileTask
<1>8. OwnFile' /\ ConvertedOnly' /\ Deleted'
  <2>1. OwnFile' /\ ConvertedOnly'
    BY <1>1, <1>3, <1>4 DEF OwnFile, ConvertedOnly
  <2>2. Deleted'
    BY <1>1, <1>3, <1>6 DEF Deleted
  <2> QED BY <2>1, <2>2
<1>9. TempOwned'
  <2>1. TempOf(s) = {}
    BY <1>1, TempOfIs
  <2> QED BY <1>1, <2>1, OwnersKept DEF TempOwned
<1>10. DiskOwned'
  BY <1>1, <1>3, <1>4, OwnersKept DEF DiskOwned
<1> QED BY <1>5, <1>7, <1>8, <1>9, <1>10

LEMMA FilesDie ==
  ASSUME ImportTypeOK, FileInv, NEW s \in Session, Import(s), Die(s)
  PROVE  FileInv'
<1> USE DEF FileInv
<1>1. /\ UNCHANGED <<temp, asset, disk, task, deleting>>
      /\ litter' = litter \cup {Mine(s)} /\ at'[s] \in {"pick", "ended"}
  BY DEF Die, Go, Raise, store, ImportTypeOK
<1>2. Chosen'
  BY ChosenStep
<1>3. \A q \in Row : Undispatched(q)' => Undispatched(q)
  BY <1>1, OwnersKept DEF Undispatched
<1>4. UnusedIsNew' /\ NoTaskYet' /\ OrigWhileTask'
  BY <1>1, <1>3, UsedStays DEF UnusedIsNew, NoTaskYet, OrigWhileTask
<1>5. OwnFile' /\ ConvertedOnly' /\ Deleted'
  BY <1>3, <1>1 DEF OwnFile, ConvertedOnly, Deleted
<1>6. TempOwned'
  <2>1. \A f \in TempOf(s) : f[1] \in litter'
    BY <1>1, TempOfIs
  <2> QED BY <1>1, <2>1, OwnersKept DEF TempOwned
<1>7. DiskOwned'
  BY <1>1, OwnersKept DEF DiskOwned
<1> QED BY <1>2, <1>4, <1>5, <1>6, <1>7

\* Steps of the task of an asset, and its deletion
LEMMA OthersFrame ==
  ASSUME ImportTypeOK, NEW r \in Row, Others(r)
  PROVE  /\ UNCHANGED <<platform, at, todo, item, failed, tries, temp>>
         /\ \A q \in Row : q # r => /\ asset'[q] = asset[q] /\ task'[q] = task[q]
                                    /\ deleting'[q] = deleting[q]
         /\ litter \subseteq litter' /\ litter' \subseteq litter \cup {r}
         /\ asset'[r].live => asset[r].live
         /\ task'[r].at # "none" \/ asset'[r].processing
              => task[r].at # "none" \/ asset[r].processing
<1> USE DEF listing, progress, history, Step, Removal, ImportTypeOK
<1>1. CASE Take(r) \/ Convert(r) \/ Unlink(r)
  BY <1>1 DEF Take, Convert, Unlink
<1>2. CASE Commit(r)
  BY <1>2 DEF Commit
<1>3. CASE RejectRead(r) \/ TaskDies(r) \/ Requeue(r)
  BY <1>3 DEF RejectRead, TaskDies, Requeue
<1>4. CASE RejectWrite(r)
  BY <1>4 DEF RejectWrite
<1>5. CASE DeleteLoad(r) \/ DeleteFile(r) \/ DeleteDies(r)
  BY <1>5 DEF DeleteLoad, DeleteFile, DeleteDies
<1>6. CASE DeleteRow(r)
  <2>1. ~NoAsset.live /\ ~NoAsset.processing
    BY DEF NoAsset
  <2> QED BY <1>6, <2>1 DEF DeleteRow
<1> QED BY <1>1, <1>2, <1>3, <1>4, <1>5, <1>6 DEF Others, Task, Delete

\* What each does to its own row and file
OwnStep(r) ==
  /\ ~Unused(r)
  /\ task'[r].at # "none" \/ asset'[r].processing => asset'[r].uri = "orig"
  /\ Undispatched(r) => task'[r].at = "none" /\ asset'[r].uri = "orig"
  /\ task'[r].at = "converted" /\ r \notin litter' => <<r, "orig">> \notin disk'
  /\ deleting'[r].at # "none" /\ r \notin litter' =>
       /\ deleting'[r].at = "row" => <<r, deleting'[r].uri>> \notin disk'
       /\ deleting'[r].uri = "made"
            => task'[r].at = "none" /\ ~Undispatched(r) /\ ~asset'[r].processing
  /\ \A f \in disk' : f[1] # r => f \in disk
  /\ \A f \in disk' : f[1] = r =>
       /\ r \in litter' \/ f[2] = asset'[r].uri \/ task'[r].at \in {"unlink", "converted"}
       /\ r \in litter' \/ asset'[r].live

\* What holds of a row that its task or a delete is about to change
LEMMA OwnBefore ==
  ASSUME ImportTypeOK, FileInv, NEW r \in Row
  PROVE  /\ asset[r] \in [live : BOOLEAN, stamped : BOOLEAN, processing : BOOLEAN, uri : Uri]
         /\ task[r] \in [at : Tasks, stamped : BOOLEAN]
         /\ deleting[r] \in [at : Deletes, uri : Uri]
         /\ \A f \in disk : f[1] \in Row /\ f[2] \in Uri /\ f = <<f[1], f[2]>>
         /\ task[r].at # "none" => ~Undispatched(r)
         /\ task[r].at # "none" \/ Undispatched(r) \/ asset[r].processing => asset[r].uri = "orig"
         /\ asset[r].live \/ task[r].at # "none" \/ deleting[r].at # "none" => ~Unused(r)
         /\ ~Unused(r) => \A f \in disk : f[1] = r => r \in litter \/ asset[r].live
         /\ \A f \in disk : f[1] = r =>
              r \in litter \/ f[2] = asset[r].uri \/ task[r].at \in {"unlink", "converted"}
         /\ task[r].at = "converted" /\ r \notin litter => <<r, "orig">> \notin disk
         /\ deleting[r].at # "none" /\ r \notin litter =>
              /\ deleting[r].at = "row" => <<r, deleting[r].uri>> \notin disk
              /\ deleting[r].uri = "made"
                   => task[r].at = "none" /\ ~Undispatched(r) /\ ~asset[r].processing
<1> USE DEF FileInv
<1>1. /\ asset[r] \in [live : BOOLEAN, stamped : BOOLEAN, processing : BOOLEAN, uri : Uri]
      /\ task[r] \in [at : Tasks, stamped : BOOLEAN]
      /\ deleting[r] \in [at : Deletes, uri : Uri]
  BY DEF ImportTypeOK
<1>2. \A f \in disk : f[1] \in Row /\ f[2] \in Uri /\ f = <<f[1], f[2]>>
  BY DEF ImportTypeOK, File
<1>3. /\ task[r].at # "none" => ~Undispatched(r)
      /\ task[r].at # "none" \/ Undispatched(r) \/ asset[r].processing => asset[r].uri = "orig"
      /\ asset[r].live \/ task[r].at # "none" \/ deleting[r].at # "none" => ~Unused(r)
  BY DEF UnusedIsNew, NoTaskYet, OrigWhileTask
<1>4. ~Unused(r) => \A f \in disk : f[1] = r => r \in litter \/ asset[r].live
  <2> SUFFICES ASSUME ~Unused(r), NEW f \in disk, f[1] = r,
                      NEW s \in Session, at[s] = "create", f[1] = Mine(s)
               PROVE  FALSE
    BY DEF DiskOwned
  <2>1. Unused(r)
    BY MineIsRow DEF Unused, Mine, Earlier, Early
  <2> QED BY <2>1
<1>5. /\ \A f \in disk : f[1] = r =>
           r \in litter \/ f[2] = asset[r].uri \/ task[r].at \in {"unlink", "converted"}
      /\ task[r].at = "converted" /\ r \notin litter => <<r, "orig">> \notin disk
  BY DEF OwnFile, ConvertedOnly
<1>6. deleting[r].at # "none" /\ r \notin litter =>
        /\ deleting[r].at = "row" => <<r, deleting[r].uri>> \notin disk
        /\ deleting[r].uri = "made"
             => task[r].at = "none" /\ ~Undispatched(r) /\ ~asset[r].processing
  BY DEF Deleted
<1> QED BY <1>1, <1>2, <1>3, <1>4, <1>5, <1>6

LEMMA FilesTask ==
  ASSUME ImportTypeOK, FileInv, NEW r \in Row, Task(r)
  PROVE  OwnStep(r)
<1> USE OwnBefore DEF OwnStep
<1>1. CASE Take(r)
  <2>1. /\ UNCHANGED <<asset, disk, deleting, litter>> /\ task[r].at = "queued"
        /\ task'[r].at \in {"convert", "none"}
    BY <1>1 DEF Take, NoTask, history, ImportTypeOK
  <2> QED BY <2>1
<1>2. CASE Convert(r)
  <2>1. /\ UNCHANGED <<asset, deleting>> /\ task[r].at = "convert"
        /\ \/ task'[r].at \in {"probed", "error"} /\ UNCHANGED <<disk, litter>>
           \/ /\ disk' = disk \cup {<<r, "made">>} /\ task'[r].at = "unlink"
              /\ litter' = IF asset[r].live THEN litter ELSE litter \cup {r}
    BY <1>2 DEF Convert, Step, ImportTypeOK
  <2>2. deleting[r].at # "none" /\ r \notin litter => deleting[r].uri = "orig"
    BY <2>1 DEF Uri
  <2> QED BY <2>1, <2>2
<1>3. CASE Unlink(r)
  <2>1. /\ UNCHANGED <<asset, deleting>> /\ task[r].at = "unlink" /\ task'[r].at = "converted"
        /\ \/ disk' = disk \ {<<r, "orig">>} /\ litter' = litter
           \/ disk' = disk /\ litter' = litter \cup {r}
    BY <1>3 DEF Unlink, Removal, Step, ImportTypeOK
  <2> QED BY <2>1
<1>4. CASE Commit(r)
  <2>1. /\ task[r].at \in {"probed", "converted"} /\ task'[r].at = "none"
        /\ UNCHANGED <<disk, deleting, litter>>
        /\ asset'[r].live = asset[r].live
        /\ asset'[r].uri = IF ~asset[r].live THEN asset[r].uri
                           ELSE IF task[r].at = "probed" THEN "orig" ELSE "made"
        /\ asset'[r].processing => asset[r].processing /\ ~asset[r].live
    <3>1. CASE ~asset[r].live
      BY <1>4, <3>1 DEF Commit, NoTask, ImportTypeOK
    <3>2. CASE asset[r].live
      BY <1>4, <3>2 DEF Commit, NoTask, ImportTypeOK
    <3> QED BY <3>1, <3>2
  <2>2. \A f \in disk : f[1] = r => r \in litter \/ f[2] = asset'[r].uri
    <3> SUFFICES ASSUME NEW f \in disk, f[1] = r, r \notin litter
                 PROVE  f[2] = asset'[r].uri
      OBVIOUS
    <3>1. asset[r].live
      BY <2>1
    <3>2. CASE task[r].at = "probed"
      BY <2>1, <3>1, <3>2
    <3>3. CASE task[r].at = "converted"
      <4>1. f \in disk /\ f = <<r, f[2]>> /\ f[2] \in Uri /\ r \notin litter
        OBVIOUS
      <4>2. <<r, "orig">> \notin disk
        BY <3>3, <4>1
      <4>3. f[2] = "made"
        BY <4>1, <4>2 DEF Uri
      <4> QED BY <2>1, <3>1, <3>3, <4>3
    <3> QED BY <2>1, <3>2, <3>3
  <2>3. /\ ~Unused(r) /\ ~Undispatched(r)
        /\ asset'[r].processing => asset'[r].uri = "orig"
    BY <2>1
  <2>4. deleting'[r].at # "none" /\ r \notin litter' =>
          /\ deleting'[r].at = "row" => <<r, deleting'[r].uri>> \notin disk'
          /\ deleting'[r].uri # "made"
    BY <2>1
  <2>5. \A f \in disk' : f[1] = r => r \in litter' \/ asset'[r].live
    BY <2>1
  <2> QED BY <2>1, <2>2, <2>3, <2>4, <2>5
<1>5. CASE RejectRead(r) \/ TaskDies(r)
  <2>1. /\ task[r].at # "none" /\ UNCHANGED <<asset, disk, deleting>>
        /\ litter \subseteq litter'
        /\ task[r].at \in {"unlink", "converted"} => r \in litter'
        /\ task'[r].at \in {"reject", "none"}
    BY <1>5 DEF RejectRead, TaskDies, NoTask, history, ImportTypeOK
  <2> QED BY <2>1
<1>6. CASE RejectWrite(r)
  <2>1. /\ task[r].at = "reject" /\ task'[r].at = "none"
        /\ UNCHANGED <<disk, deleting, litter>>
        /\ asset'[r].live = asset[r].live /\ asset'[r].uri = asset[r].uri
        /\ asset'[r].processing => asset[r].processing
    BY <1>6 DEF RejectWrite, NoTask, ImportTypeOK
  <2> QED BY <2>1
<1>7. CASE Requeue(r)
  <2>1. /\ asset[r].live /\ asset[r].processing /\ task[r].at = "none"
        /\ UNCHANGED <<asset, disk, deleting, litter>> /\ task'[r].at = "queued"
    BY <1>7 DEF Requeue, Step, history, ImportTypeOK
  <2>2. ~Undispatched(r)
    BY <1>7 DEF Requeue, Undispatched, Unstamped, Row
  <2> QED BY <2>1, <2>2
<1> QED BY <1>1, <1>2, <1>3, <1>4, <1>5, <1>6, <1>7 DEF Task

LEMMA FilesDelete ==
  ASSUME ImportTypeOK, FileInv, NEW r \in Row, Delete(r)
  PROVE  OwnStep(r)
<1> USE OwnBefore DEF OwnStep
<1>1. CASE DeleteLoad(r)
  <2>1. /\ asset[r].live /\ UNCHANGED <<asset, disk, task, litter>>
        /\ deleting'[r].at = "file" /\ deleting'[r].uri = asset[r].uri
    BY <1>1 DEF DeleteLoad, history, ImportTypeOK
  <2> QED BY <2>1
<1>2. CASE DeleteFile(r)
  <2>1. /\ deleting[r].at = "file" /\ UNCHANGED <<asset, task>>
        /\ deleting'[r].at = "row" /\ deleting'[r].uri = deleting[r].uri
        /\ \/ disk' = disk \ {<<r, deleting[r].uri>>} /\ litter' = litter
           \/ disk' = disk /\ litter' = litter \cup {r}
    BY <1>2 DEF DeleteFile, Removal, ImportTypeOK
  <2> QED BY <2>1
<1>3. CASE DeleteRow(r)
  <2>1. /\ deleting[r].at = "row" /\ UNCHANGED <<disk, task>>
        /\ deleting'[r].at = "none"
        /\ asset'[r].uri = "orig" /\ ~asset'[r].processing
        /\ litter \subseteq litter'
        /\ task[r].at \in {"unlink", "converted"} \/ asset[r].uri # deleting[r].uri => r \in litter'
    BY <1>3 DEF DeleteRow, NoAsset, NoDelete, ImportTypeOK
  <2>2. \A f \in disk : f[1] = r => r \in litter'
    <3> SUFFICES ASSUME NEW f \in disk, f[1] = r, r \notin litter'
                 PROVE  FALSE
      OBVIOUS
    <3>1. /\ r \notin litter /\ asset[r].uri = deleting[r].uri
          /\ task[r].at \notin {"unlink", "converted"}
      BY <2>1
    <3>2. f[2] = asset[r].uri /\ f = <<r, f[2]>>
      BY <3>1
    <3>3. <<r, deleting[r].uri>> \notin disk
      BY <2>1, <3>1
    <3> QED BY <3>1, <3>2, <3>3
  <2> QED BY <2>1, <2>2
<1>4. CASE DeleteDies(r)
  <2>1. /\ deleting[r].at # "none" /\ UNCHANGED <<asset, disk, task, litter>>
        /\ deleting'[r].at = "none"
    BY <1>4 DEF DeleteDies, NoDelete, history, ImportTypeOK
  <2> QED BY <2>1
<1> QED BY <1>1, <1>2, <1>3, <1>4 DEF Delete

LEMMA FilesOthers ==
  ASSUME ImportTypeOK, FileInv, NEW r \in Row, Others(r)
  PROVE  FileInv'
<1> USE DEF FileInv
<1>1. /\ UNCHANGED <<platform, at, todo, item, failed, tries, temp>>
      /\ \A q \in Row : q # r => /\ asset'[q] = asset[q] /\ task'[q] = task[q]
                                 /\ deleting'[q] = deleting[q]
      /\ litter \subseteq litter' /\ litter' \subseteq litter \cup {r}
      /\ asset'[r].live => asset[r].live
  BY OthersFrame
<1>2. \A q \in Row : (Undispatched(q)' <=> Undispatched(q)) /\ (Unused(q)' <=> Unused(q))
  BY <1>1 DEF Undispatched, Unused, Mine
<1>3. OwnStep(r)
  BY FilesTask, FilesDelete DEF Others
<1>4. \A f \in disk : f[1] \in Row
  BY DEF ImportTypeOK, File
<1>5. Chosen'
  BY <1>1, ImportableKept DEF Chosen
<1>6. UnusedIsNew' /\ NoTaskYet' /\ OrigWhileTask'
  BY <1>1, <1>2, <1>3 DEF UnusedIsNew, NoTaskYet, OrigWhileTask, OwnStep
<1>7. OwnFile' /\ ConvertedOnly' /\ Deleted'
  BY <1>1, <1>2, <1>3, <1>4 DEF OwnFile, ConvertedOnly, Deleted, OwnStep
<1>8. TempOwned'
  <2>1. \A s \in Session : TempOf(s)' = TempOf(s)
    BY <1>1 DEF TempOf, Mine
  <2> QED BY <1>1, <2>1 DEF TempOwned
<1>9. DiskOwned'
  <2> SUFFICES ASSUME NEW f \in disk', f[1] # r, f[1] \notin litter', ~asset'[f[1]].live
               PROVE  \E s \in Session : at'[s] = "create" /\ f[1] = Mine(s)'
    BY <1>3 DEF DiskOwned, OwnStep
  <2>1. f \in disk /\ f[1] \notin litter /\ ~asset[f[1]].live
    BY <1>1, <1>3, <1>4 DEF OwnStep
  <2>2. PICK s \in Session : at[s] = "create" /\ f[1] = Mine(s)
    BY <2>1 DEF DiskOwned
  <2>3. Mine(s)' = Mine(s)
    BY <1>1 DEF Mine
  <2> QED BY <1>1, <2>2, <2>3
<1> QED BY <1>5, <1>6, <1>7, <1>8, <1>9

LEMMA FilesSame ==
  ASSUME FileInv,
         UNCHANGED <<platform, at, todo, item, failed, tries, temp, asset, disk, task,
                   deleting, litter>>
  PROVE  FileInv'
<1> USE DEF FileInv
<1>1. \A s \in Session : TempOf(s)' = TempOf(s) /\ Mine(s)' = Mine(s)
  BY DEF TempOf, Mine
<1>2. \A r \in Row : (Undispatched(r)' <=> Undispatched(r)) /\ (Unused(r)' <=> Unused(r))
  BY DEF Undispatched, Unused, Mine
<1>3. Chosen'
  BY ImportableKept DEF Chosen
<1>4. UnusedIsNew' /\ NoTaskYet' /\ OrigWhileTask'
  BY <1>2 DEF UnusedIsNew, NoTaskYet, OrigWhileTask
<1>5. OwnFile' /\ ConvertedOnly' /\ Deleted' /\ TempOwned' /\ DiskOwned'
  BY <1>1, <1>2 DEF OwnFile, ConvertedOnly, Deleted, TempOwned, DiskOwned
<1> QED BY <1>3, <1>4, <1>5

LEMMA FilesStep ==
  ASSUME ImportTypeOK, FileInv, [ImportNext]_importVars
  PROVE  FileInv'
<1>1. CASE Account
  BY <1>1, FilesSame DEF Account, Add, Discard, progress, store, history
<1>2. ASSUME NEW s \in Session, Import(s),
             Validate(s) \/ List(s) \/ Choose(s) \/ Pick(s) \/ Retry(s)
      PROVE  FileInv'
  <2>1. /\ UNCHANGED <<temp, asset, disk, task, deleting, litter>>
        /\ at[s] \notin {"fetching", "prepare", "create"} /\ at'[s] # "dispatch"
    BY <1>2 DEF Validate, List, Choose, Pick, Retry, Go, store, history, ImportTypeOK
  <2> QED BY <1>2, <2>1, FilesMove
<1>3. ASSUME NEW s \in Session, Import(s), Find(s) \/ Detail(s) \/ Order(s)
      PROVE  FileInv'
  <2>1. /\ UNCHANGED <<temp, asset, disk, task, deleting, litter>>
        /\ at[s] \notin {"fetching", "prepare", "create"} /\ at[s] \in Making \cup {"find"}
    BY <1>3 DEF Find, Detail, Order, store, history, Making
  <2>2. at'[s] # "dispatch"
    BY <1>3, <2>1, MakingStep DEF Create, Find, Detail, Order, FileInv
  <2> QED BY <1>3, <2>1, <2>2, FilesMove
<1>4. ASSUME NEW s \in Session, Import(s),
             Fetch(s) \/ Fetched(s) \/ Prepare(s) \/ Create(s) \/ Dispatch(s) \/ Stamp(s) \/ Die(s)
      PROVE  FileInv'
  BY <1>4, FilesFetch, FilesFetched, FilesPrepare, FilesCreate, FilesDispatch, FilesStamp,
     FilesDie
<1>5. ASSUME NEW r \in Row, Others(r) PROVE FileInv'
  BY <1>5, FilesOthers
<1>6. CASE UNCHANGED importVars
  BY <1>6, FilesSame DEF importVars, listing, progress, store, history
<1> QED BY <1>1, <1>2, <1>3, <1>4, <1>5, <1>6 DEF ImportNext, Import, Continue

\* The rows that the archive keeps, and what a restore makes of the files
LEMMA KeptFilesStep ==
  ASSUME ArchiveTypeOK, FileInv, KeptFiles, [ArchiveNext]_archiveVars
  PROVE  KeptFiles'
<1> USE DEF KeptFiles, ArchiveTypeOK
<1>1. ASSUME NEW r \in Row, Unused(r)'
      PROVE  Unused(r)
  <2>1. CASE UNCHANGED <<at, todo, item, tries>>
    BY <1>1, <2>1 DEF Unused
  <2>2. ASSUME [ImportNext]_importVars PROVE Unused(r)
    <3>1. CASE Account \/ (\E q \in Row : Others(q)) \/ UNCHANGED importVars
      BY <2>1, <3>1, OthersFrame DEF Account, Add, Discard, importVars, progress
    <3>2. ASSUME NEW s \in Session, Import(s) PROVE Unused(r)
      BY <1>1, <3>2, UsedStays DEF FileInv
    <3> QED BY <2>2, <3>1, <3>2 DEF ImportNext
  <2>3. ASSUME NEW q \in Restore, Unpack(q) \/ Extract(q) PROVE Unused(r)
    BY <2>1, <2>3 DEF Unpack, Extract, progress
  <2> QED BY <2>2, <2>3, ArchiveShape
<1> DEFINE Busy(r) == task[r].at # "none" \/ Undispatched(r) \/ asset[r].processing
<1>2. ASSUME NEW r \in Row, Busy(r)'
      PROVE  Busy(r) \/ Unused(r) \/ archive.rows[r].processing
  <2>1. CASE UNCHANGED <<at, item, tries, task, asset>>
    BY <1>2, <2>1 DEF Undispatched, Mine
  <2>2. ASSUME [ImportNext]_importVars
        PROVE  Busy(r) \/ Unused(r)
    <3>1. CASE Account \/ UNCHANGED importVars
      BY <1>2, <3>1 DEF Account, Add, Discard, importVars, progress, store, Undispatched, Mine
    <3>2. ASSUME NEW q \in Row, Others(q)
          PROVE  Busy(r) \/ Unused(r)
      <4>1. /\ UNCHANGED <<at, item, tries>>
            /\ q # r => task'[r] = task[r] /\ asset'[r] = asset[r]
            /\ q = r => (task'[r].at # "none" \/ asset'[r].processing
                           => task[r].at # "none" \/ asset[r].processing)
        BY <3>2, OthersFrame
      <4>2. Undispatched(r)' => Undispatched(r)
        BY <4>1 DEF Undispatched, Mine
      <4> QED BY <1>2, <4>1, <4>2
    <3>3. ASSUME NEW s \in Session, Import(s)
          PROVE  Busy(r) \/ Unused(r)
      <4>1. task'[r].at # "none" => task[r].at # "none" \/ Undispatched(r)
        <5>1. CASE task' = task
          BY <5>1
        <5>2. CASE Dispatch(s)
          <6>1. at[s] = "dispatch" /\ Mine(s) \in Row /\ Mine(s)[1] = s
                /\ (task' = task \/ task' = [task EXCEPT ![Mine(s)].at = "queued"])
            BY <5>2, MineIsRow DEF Dispatch, Mine
          <6>2. r # Mine(s) => task'[r] = task[r]
            BY <6>1 DEF ImportTypeOK
          <6>3. r = Mine(s) => Undispatched(r)
            BY <6>1 DEF Undispatched
          <6> QED BY <6>2, <6>3
        <5> QED BY <3>3, <5>1, <5>2 DEF Import, Continue, Validate, List, Choose, Pick, Find,
                 Detail, Fetch, Fetched, Prepare, Create, Order, Stamp, Die, Retry, store
      <4>2. Undispatched(r)' => Undispatched(r) \/ Unused(r)
        <5>1. CASE r[1] # s
          BY <3>3, <5>1, OwnersKept
        <5>2. CASE r[1] = s /\ Create(s)
          BY <5>2, MineIsRow DEF Create, Undispatched, Unused, Mine, Earlier, Early, progress
        <5>3. CASE r[1] = s /\ at[s] \in Making \cup {"find"}
          BY <3>3, <5>2, <5>3, MakingStep DEF Undispatched, FileInv
        <5>4. CASE r[1] = s /\ at[s] \notin Making \cup {"find"}
          <6>1. Validate(s) \/ List(s) \/ Choose(s) \/ Pick(s) \/ Retry(s)
            BY <3>3, <5>4 DEF Import, Continue, Find, Detail, Fetch, Fetched, Prepare, Create,
                              Dispatch, Order, Stamp, Die, Making
          <6>2. at'[s] # "dispatch"
            BY <6>1 DEF Validate, List, Choose, Pick, Retry, Go, ImportTypeOK
          <6> QED BY <5>4, <6>2 DEF Undispatched
        <5> QED BY <5>1, <5>3, <5>4
      <4>3. asset'[r].processing => asset[r].processing \/ Unused(r)
        <5>1. CASE asset' = asset
          BY <5>1
        <5>2. CASE Create(s) /\ asset' # asset
          <6>1. /\ Mine(s) \in Row /\ Unused(Mine(s))
                /\ asset' = [asset EXCEPT ![Mine(s)] = NewAsset(Mine(s))]
            BY <5>2, MineIsRow DEF Create, Unused, Mine, Earlier, Early
          <6>2. r # Mine(s) => asset'[r] = asset[r]
            BY <6>1 DEF ImportTypeOK
          <6> QED BY <6>1, <6>2
        <5>3. CASE Stamp(s) /\ asset' # asset
          <6>1. Mine(s) \in Row /\ asset' = [asset EXCEPT ![Mine(s)].stamped = TRUE]
            BY <5>3, MineIsRow DEF Stamp, Sourced
          <6>2. asset'[r].processing = asset[r].processing
            BY <6>1 DEF ImportTypeOK
          <6> QED BY <6>2
        <5> QED BY <3>3, <5>1, <5>2, <5>3 DEF Import, Continue, Validate, List, Choose, Pick, Find,
                 Detail, Fetch, Fetched, Prepare, Dispatch, Order, Die, Retry, store
      <4> QED BY <1>2, <4>1, <4>2, <4>3
    <3> QED BY <2>2, <3>1, <3>2, <3>3 DEF ImportNext
  <2>3. ASSUME NEW q \in Restore, Unpack(q) \/ Extract(q)
        PROVE  Busy(r) \/ Unused(r) \/ archive.rows[r].processing
    <3>1. UNCHANGED <<at, item, tries, task>> /\ (asset' = asset \/ asset' = archive.rows)
      BY <2>3 DEF Unpack, Extract, progress
    <3> QED BY <1>2, <3>1 DEF Undispatched, Mine
  <2> QED BY <2>2, <2>3, ArchiveShape
<1>3. CASE archive'.rows = archive.rows
  BY <1>1, <1>2, <1>3
<1>4. CASE AddDatabase /\ archive'.rows = asset
  <2>1. \A r \in Row : Unused(r) => ~asset[r].live /\ ~asset[r].processing /\ asset[r].uri = "orig"
    BY DEF FileInv, UnusedIsNew
  <2>2. \A r \in Row : Busy(r) => asset[r].uri = "orig"
    BY DEF FileInv, OrigWhileTask
  <2>3. \A r \in Row : Busy(r)' => Busy(r)
    <3>1. UNCHANGED <<at, item, tries, task, asset>>
      BY <1>4 DEF AddDatabase, importVars, progress, store
    <3> QED BY <3>1 DEF Undispatched, Mine
  <2> QED BY <1>1, <1>4, <2>1, <2>2, <2>3
<1> QED BY <1>3, <1>4, ArchiveRows

LEMMA RestoredFiles ==
  ASSUME ArchiveTypeOK, FileInv, KeptFiles, NEW q \in Restore, Unpack(q) \/ Extract(q)
  PROVE  FileInv'
<1> USE DEF FileInv
<1>1. UNCHANGED <<platform, at, todo, item, failed, tries, task,
                   deleting>>
      /\ litter \subseteq litter'
  BY DEF Unpack, Extract, progress, listing
<1>2. \A s \in Session : TempOf(s)' = TempOf(s) /\ Mine(s)' = Mine(s)
  BY <1>1 DEF TempOf, Mine
<1>3. \A r \in Row : (Undispatched(r)' <=> Undispatched(r)) /\ (Unused(r)' <=> Unused(r))
  BY <1>1 DEF Undispatched, Unused, Mine
<1>4. Chosen'
  BY <1>1, ImportableKept DEF Chosen
<1>5. NoTaskYet'
  BY <1>1, <1>3 DEF NoTaskYet
<1>6. CASE asset' = asset
  <2>1. \A f \in disk' \cup temp' : f \in disk \cup temp \/ f[1] \in litter'
    BY <1>6 DEF Unpack, Extract
  <2>2. /\ \A f \in disk' : f \in disk \/ f[1] \in litter'
        /\ \A f \in temp' : f \in temp \/ f[1] \in litter'
    BY DEF Unpack, Extract
  <2>3. UnusedIsNew' /\ OrigWhileTask'
    BY <1>1, <1>3, <1>6 DEF UnusedIsNew, OrigWhileTask
  <2>4. OwnFile' /\ TempOwned' /\ DiskOwned'
    BY <1>1, <1>2, <1>6, <2>2 DEF OwnFile, TempOwned, DiskOwned
  <2>5. ConvertedOnly' /\ Deleted'
    BY <1>1, <1>3, <1>6, <2>2 DEF ConvertedOnly, Deleted
  <2> QED BY <1>4, <1>5, <2>3, <2>4, <2>5
<1>7. CASE /\ asset' = archive.rows /\ UNCHANGED <<disk, temp>>
           /\ litter' = litter \cup {f[1] : f \in Listing \cup archive.files}
                              \cup {r \in Row : deleting[r].at # "none"}
  <2>1. \A f \in disk' \cup temp' : f[1] \in litter'
    BY <1>7 DEF Listing
  <2>2. UnusedIsNew'
    BY <1>1, <1>3, <1>7 DEF UnusedIsNew, KeptFiles
  <2>3. OrigWhileTask'
    BY <1>1, <1>3, <1>7 DEF OrigWhileTask, KeptFiles
  <2>4. OwnFile' /\ TempOwned' /\ DiskOwned'
    BY <2>1 DEF OwnFile, TempOwned, DiskOwned
  <2>5. ConvertedOnly' /\ Deleted'
    BY <1>1, <1>7, <2>1 DEF ConvertedOnly, Deleted
  <2> QED BY <1>4, <1>5, <2>2, <2>3, <2>4, <2>5
<1> QED BY <1>6, <1>7 DEF Unpack, Extract

LEMMA FilesInit == ArchiveInit => FileInv /\ KeptFiles
<1> SUFFICES ASSUME ArchiveInit PROVE FileInv /\ KeptFiles
  OBVIOUS
<1>1. /\ \A s \in Session : at[s] = "idle" /\ todo[s] = {} /\ failed[s] = {}
      /\ temp = {} /\ disk = {}
      /\ \A r \in Row : /\ asset[r] = NoAsset /\ archive.rows[r] = NoAsset
                      /\ task[r] = NoTask /\ deleting[r] = NoDelete
  BY DEF ArchiveInit, Init, NoArchive
<1>2. \A r \in Row : ~Undispatched(r)
  BY <1>1 DEF Undispatched, Row
<1> QED BY <1>1, <1>2 DEF FileInv, KeptFiles, Chosen, UnusedIsNew, NoTaskYet, OrigWhileTask,
           OwnFile, ConvertedOnly, Deleted, TempOwned, DiskOwned, NoAsset, NoTask,
           NoDelete, Making

\* _download_to_assetdir(), create_file_asset() and _run_image_normalisation(): assetdir holds
\* no download but that of an import under way and no file without its row, but for the
\* rows in `litter`.
THEOREM NothingIsLeftOver == ArchiveSpec => []NothingLeftOver
<1>1. ArchiveInit => ArchiveTypeOK /\ FileInv /\ KeptFiles
  BY ArchiveTypeInit, FilesInit
<1>2. ArchiveTypeOK /\ FileInv /\ KeptFiles /\ [ArchiveNext]_archiveVars
        => ArchiveTypeOK' /\ FileInv' /\ KeptFiles'
  <2> SUFFICES ASSUME ArchiveTypeOK, FileInv, KeptFiles, [ArchiveNext]_archiveVars
               PROVE  ArchiveTypeOK' /\ FileInv' /\ KeptFiles'
    OBVIOUS
  <2>1. ArchiveTypeOK'
    BY ArchiveTypeStep
  <2>2. FileInv'
    BY ArchiveShape, FilesStep, RestoredFiles DEF ArchiveTypeOK
  <2>3. KeptFiles'
    BY KeptFilesStep
  <2> QED BY <2>1, <2>2, <2>3
<1>3. FileInv => NothingLeftOver
  BY DEF FileInv, TempOwned, DiskOwned, NothingLeftOver
<1> QED BY <1>1, <1>2, <1>3, PTL DEF ArchiveSpec

-----------------------------------------------------------------------------
(* The archive is whole *)

HasFile(r) == Nature[r[2]] # "page"

\* Where the thread, the generator and the client stand to one another
Control ==
  /\ writing <=> producer \in {"add", "broken"}
  /\ reader = "none" <=> producer = "none"
  /\ client = "none" <=> producer = "none"
  /\ producer = "none" => archive = NoArchive
  /\ reader = "cut" => client = "away"
  /\ reading <=> reader \in {"read", "yield"}
  /\ reader = "drained" => producer \in {"raised", "gone"}
  /\ reader = "end" /\ client # "away" => producer = "gone"
  /\ client \in {"aborted", "complete"} => reader = "end"
  /\ client = "complete" => walk = {} /\ todoDirs = <<>>
  /\ producer = "gone" /\ ~error =>
       \/ walk = {} /\ todoDirs = <<>>
       \/ reader = "cut"
       \/ reader = "end" /\ client = "away"

LEMMA ControlStep ==
  ASSUME ArchiveTypeOK, Control, [ArchiveNext]_archiveVars
  PROVE  Control'
<1>1. CASE UNCHANGED stream
  BY <1>1 DEF stream, Control
<1>2. CASE BeginBackup
  BY <1>2 DEF BeginBackup, Control
<1>3. CASE AddDatabase \/ AddAssets \/ AddFile
  <2>1. /\ producer = "add" /\ reading
        /\ UNCHANGED <<producer, writing, reading, error, reader, client>>
    BY <1>3 DEF AddDatabase, AddAssets, AddFile, Write
  <2> QED BY <2>1 DEF Control
<1>4. CASE Vanished \/ Finish
  BY <1>4 DEF Vanished, Finish, Control
<1>5. CASE BrokenPipe
  BY <1>5 DEF BrokenPipe, Control, ArchiveTypeOK
<1>6. CASE Break \/ HandOver
  BY <1>6 DEF Break, HandOver, Control
<1>7. CASE ReadChunk \/ ReadEnd
  BY <1>7 DEF ReadChunk, ReadEnd, Control, ArchiveTypeOK
<1>8. CASE Yielded
  BY <1>8 DEF Yielded, Closed, Control
<1>9. CASE Join
  BY <1>9 DEF Join, Joined, Control
<1>10. CASE Leave
  BY <1>10 DEF Leave, Control
<1>11. ASSUME NEW q \in Restore, Recover(q)
       PROVE  UNCHANGED stream
  BY <1>11 DEF Recover, StopViewer, StoreUpload, Unpack, Extract, Finally, Kill
<1> QED BY <1>1, <1>2, <1>3, <1>4, <1>5, <1>6, <1>7, <1>8, <1>9, <1>10, <1>11
           DEF ArchiveNext, Apart, Backup, Thread, Generator, archiveVars, stream

\* What the archive must have the file of
Wanted(r) == r \notin touched /\ archive.rows[r].live /\ HasFile(r)

StillThere == \A r \in Row : Wanted(r) => <<r, archive.rows[r].uri>> \in disk

InWalk ==
  producer # "none" /\ todoDirs = <<>> =>
    \A r \in Row : Wanted(r) => <<r, archive.rows[r].uri>> \in walk \cup archive.files

WholeInv == Control /\ StillThere /\ InWalk

LEMMA StillThereStep ==
  ASSUME ArchiveTypeOK, WholeInv, [ArchiveNext]_archiveVars
  PROVE  StillThere'
<1> USE DEF WholeInv
<1>1. CASE AddDatabase
  <2>1. /\ disk' = disk /\ archive'.rows = asset
        /\ touched' = {r \in Row : <<r, asset[r].uri>> \notin disk}
    BY <1>1 DEF AddDatabase, importVars, store, ArchiveTypeOK
  <2> QED BY <2>1 DEF StillThere, Wanted
<1>2. CASE ~AddDatabase
  <2>1. archive'.rows = archive.rows
    BY <1>2, ArchiveRows
  <2>2. CASE ImportNext /\ Apart /\ producer = "none"
    <3>1. archive.rows = NoArchive.rows
      BY <2>2 DEF Control
    <3> QED BY <2>1, <3>1 DEF StillThere, Wanted, NoArchive, NoAsset
  <2>3. CASE ~(ImportNext /\ Apart /\ producer = "none")
    <3>1. touched \subseteq touched' /\ \A f \in disk : f \in disk' \/ f[1] \in touched'
      <4>1. CASE ImportNext /\ Apart
        BY <2>3, <4>1 DEF Apart
      <4>2. CASE Backup
        BY <1>2, <4>2 DEF Backup, BeginBackup, Thread, AddAssets, AddFile, Vanished, Finish,
              BrokenPipe, Break, HandOver, Generator, ReadChunk, ReadEnd, Yielded, Join, Leave,
              importVars, store
      <4>3. ASSUME NEW q \in Restore, Recover(q)
            PROVE  touched \subseteq touched' /\ disk \subseteq disk'
        BY <4>3 DEF Recover, StopViewer, StoreUpload, Unpack, Extract, Finally, Kill, importVars,
                    store
      <4> QED BY <4>1, <4>2, <4>3 DEF ArchiveNext, archiveVars, importVars, store
    <3> QED BY <2>1, <3>1 DEF StillThere, Wanted, HasFile
  <2> QED BY <2>2, <2>3
<1> QED BY <1>1, <1>2

LEMMA InWalkStep ==
  ASSUME ArchiveTypeOK, WholeInv, [ArchiveNext]_archiveVars
  PROVE  InWalk'
<1> USE DEF WholeInv
<1>1. CASE AddDatabase
  <2>1. todoDirs = directories /\ todoDirs' = Tail(todoDirs)
    BY <1>1, Directories DEF AddDatabase, ArchiveTypeOK
  <2> QED BY <2>1, Directories DEF InWalk
<1>2. CASE AddAssets
  <2>1. walk' = Listing /\ UNCHANGED <<archive, touched>>
    BY <1>2 DEF AddAssets
  <2> QED BY <2>1 DEF InWalk, StillThere, Wanted, HasFile, Listing
<1>3. CASE AddFile
  <2>1. UNCHANGED <<producer, todoDirs, touched>>
    BY <1>3 DEF AddFile
  <2>2. PICK f \in walk \cap Listing :
          /\ archive' = [archive EXCEPT !.files = @ \cup {f}]
          /\ walk' = walk \ {f}
    BY <1>3 DEF AddFile
  <2>3. archive'.rows = archive.rows /\ walk \cup archive.files \subseteq walk' \cup archive'.files
    BY <2>2 DEF ArchiveTypeOK
  <2> QED BY <2>1, <2>3 DEF InWalk, Wanted, HasFile
<1>4. CASE BeginBackup
  BY <1>4, Directories DEF BeginBackup, InWalk
<1>5. CASE ~AddDatabase /\ ~AddAssets /\ ~AddFile /\ ~BeginBackup
  <2>1. UNCHANGED <<todoDirs, walk, archive>> /\ touched \subseteq touched'
        /\ (producer' # "none" => producer # "none")
    <3>0. CASE ImportNext /\ Apart
      BY <3>0 DEF Apart, stream
    <3>1. CASE Backup
      BY <1>5, <3>1 DEF Backup, Thread, Vanished, Finish, BrokenPipe, Break, HandOver,
              Generator, ReadChunk, ReadEnd, Yielded, Join, Leave
    <3>2. ASSUME NEW q \in Restore, Recover(q)
          PROVE  UNCHANGED <<stream, touched>>
      BY <3>2 DEF Recover, StopViewer, StoreUpload, Unpack, Extract, Finally, Kill
    <3> QED BY <3>0, <3>1, <3>2 DEF ArchiveNext, archiveVars, stream
  <2> QED BY <2>1 DEF InWalk, Wanted, HasFile
<1> QED BY <1>1, <1>2, <1>3, <1>4, <1>5

LEMMA WholeStep ==
  ASSUME ArchiveTypeOK, WholeInv, [ArchiveNext]_archiveVars
  PROVE  WholeInv'
BY ControlStep, StillThereStep, InWalkStep DEF WholeInv

LEMMA WholeInit == ArchiveInit => WholeInv
BY DEF ArchiveInit, WholeInv, Control, StillThere, InWalk, Wanted, NoArchive, NoAsset

\* stream_backup(): a backup that ends well holds the file of every asset that its database
\* names, if that was there when the database was copied and was not removed since.
THEOREM BackupIsWhole == ArchiveSpec => []ArchiveIsWhole
<1>1. ArchiveInit => ArchiveTypeOK /\ WholeInv
  BY ArchiveTypeInit, WholeInit
<1>2. ArchiveTypeOK /\ WholeInv /\ [ArchiveNext]_archiveVars => ArchiveTypeOK' /\ WholeInv'
  BY ArchiveTypeStep, WholeStep
<1>3. WholeInv => ArchiveIsWhole
  BY DEF WholeInv, Control, InWalk, Wanted, HasFile, ArchiveIsWhole
<1> QED BY <1>1, <1>2, <1>3, PTL DEF ArchiveSpec

-----------------------------------------------------------------------------
(* The restore lets go of what it took *)

Restoring(q) == restore[q] \notin {"none", "done"}

ReleaseInv ==
  ~killed => /\ viewer = "stop" => \E q \in Restore : Restoring(q)
             /\ \A q \in upload : Restoring(q)

LEMMA ReleaseStep ==
  ASSUME ArchiveTypeOK, ReleaseInv, [ArchiveNext]_archiveVars
  PROVE  ReleaseInv'
<1> USE DEF ReleaseInv
<1>1. CASE UNCHANGED restoring
  BY <1>1 DEF restoring, Restoring
<1>2. ASSUME NEW q \in Restore, Recover(q)
      PROVE  ReleaseInv'
  <2>1. \A p \in Restore \ {q} : Restoring(p)' <=> Restoring(p)
    BY <1>2 DEF Recover, StopViewer, StoreUpload, Unpack, Extract, Finally, Kill, Turn,
                Restoring, ArchiveTypeOK
  <2>2. CASE StopViewer(q) \/ StoreUpload(q) \/ Unpack(q) \/ Extract(q)
    <3>1. Restoring(q)' /\ killed' = killed
      BY <2>2 DEF StopViewer, StoreUpload, Unpack, Extract, Turn, OnException, Restoring,
                  ArchiveTypeOK
    <3>2. upload' \subseteq upload \cup {q} /\ upload \subseteq Restore
      BY <2>2 DEF StopViewer, StoreUpload, Unpack, Extract, ArchiveTypeOK
    <3> QED BY <2>1, <3>1, <3>2
  <2>3. CASE Finally(q)
    <3>1. viewer' = "play" /\ upload' = upload \ {q} /\ upload \subseteq Restore
          /\ killed' = killed
      BY <2>3 DEF Finally, ArchiveTypeOK
    <3> QED BY <2>1, <3>1
  <2>4. CASE Kill(q)
    BY <2>4 DEF Kill
  <2> QED BY <1>2, <2>2, <2>3, <2>4 DEF Recover
<1>3. CASE Backup
  BY <1>3, <1>1 DEF Backup, BeginBackup, Thread, AddDatabase, AddAssets, AddFile, Write,
     Vanished, Finish, BrokenPipe, Break, HandOver, Generator, ReadChunk, ReadEnd, Yielded,
     Join, Leave
<1> QED BY <1>1, <1>2, <1>3 DEF ArchiveNext, Apart, archiveVars

\* settings_recover() and RecoverViewMixin.post(): once no restore is at work the viewer
\* plays and no upload is left, also when several ran at once, unless the server died.
THEOREM RestoresLetGo == ArchiveSpec => []RestoreReleases
<1>1. ArchiveInit => ReleaseInv
  BY DEF ArchiveInit, ReleaseInv
<1>2. ArchiveTypeOK /\ ReleaseInv /\ [ArchiveNext]_archiveVars => ReleaseInv'
  BY ReleaseStep
<1>3. ArchiveTypeOK /\ ReleaseInv => RestoreReleases
  BY DEF ReleaseInv, Restoring, RestoreReleases, ArchiveTypeOK
<1> QED BY <1>1, <1>2, <1>3, TypeCorrect, PTL DEF ArchiveSpec

=============================================================================
