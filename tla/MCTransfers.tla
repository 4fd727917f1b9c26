---------------------------- MODULE MCTransfers ----------------------------
(***************************************************************************)
(* Archive, and the imports it runs among, in five instances.              *)
(*   listing:   one import lists an account whose owner goes on working in *)
(*              it, and imports nothing;                                   *)
(*   importing: two imports, of the wizard and of the command, of an       *)
(*              account that is not changed any more;                      *)
(*   repeating: one import, of which the wizard retries what failed;       *)
(*   streaming: one import of two items, and a backup meanwhile;           *)
(*   archive:   one import, its task, deletes, a backup and a restore of it. *)
(***************************************************************************)
EXTENDS Archive

CONSTANTS i1, i2, i3, s1, s2, q1, q2

MCNature == [i \in Item |-> CASE i = i1 -> "media" [] i = i2 -> "plain" [] OTHER -> "page"]

VARIABLE mode

MCInit ==
  /\ ArchiveInit
  /\ mode \in {"listing", "importing", "repeating", "streaming", "archive"}
  /\ mode # "listing" => platform = "yodeck"
  /\ \A s \in Session : item[s] = i1

Listed ==
  /\ mode = "listing"
  /\ Account \/ Validate(s1) \/ Continue(s1)
  /\ todo'[s1] = {}
  /\ Apart

\* The account, as it is before anything is imported
Filled(items) == Add /\ known' \subseteq items /\ \A s \in Session : at[s] = "idle"

Once(s) == Import(s) /\ tries' = tries

Imports ==
  /\ mode \in {"importing", "repeating"}
  /\ \/ known = {} /\ Filled({i1, i3})
     \/ /\ mode = "importing"
        /\ \/ \E s \in Session : Once(s)
           \/ \E r \in Row : Task(r) /\ ~TaskDies(r) /\ ~Requeue(r)
           \/ \E r \in Row : r[1] = s1 /\ Delete(r) /\ ~DeleteDies(r)
     \/ mode = "repeating" /\ (Import(s1) \/ \E r \in Row : Task(r))
  /\ Apart

Streamed ==
  /\ mode = "streaming"
  /\ \/ (Filled({i1, i2}) \/ Once(s1)) /\ Apart
     \/ Backup /\ (BeginBackup => asset[<<s1, i2, 0>>].live /\ at[s1] = "detail")

Archived ==
  /\ mode = "archive"
  /\ \/ /\ Filled({i1}) \/ Once(s1) \/ \E r \in Row : Others(r)
        /\ Apart
     \/ Backup /\ (BeginBackup => at[s1] = "done" /\ \E r \in Row : asset[r].live)
     \/ client = "complete" /\ \E q \in Restore : Recover(q)

MCNext == (Listed \/ Imports \/ Streamed \/ Archived) /\ UNCHANGED mode

MCVars == <<archiveVars, mode>>

MCSpec ==
  /\ MCInit /\ [][MCNext]_MCVars
  /\ \A s \in Session : WF_MCVars(Continue(s) /\ UNCHANGED <<stream, touched, restoring, mode>>)
  /\ WF_MCVars(Thread /\ UNCHANGED mode) /\ WF_MCVars(Generator /\ UNCHANGED mode)
=============================================================================
