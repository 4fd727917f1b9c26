--------------------------- MODULE CommandChannel ---------------------------
(***************************************************************************)
(* What the path of commands from the server to the viewer promises, with  *)
(* no connection, no thread and no redis in it: commands are numbered as   *)
(* they are published, each is handled at most once and in that order, any *)
(* may be lost, and none waits for ever. ViewerCommands implements it.     *)
(***************************************************************************)
EXTENDS Naturals, Sequences

VARIABLES
  sent,      \* the number of the last command that was published
  pending,   \* the numbers of those on their way
  handled    \* the number of the last one whose handler returned

vars == <<sent, pending, handled>>

Init == sent = 0 /\ pending = <<>> /\ handled = 0

\* A subscriber is there.
Accept ==
  /\ sent' = sent + 1
  /\ pending' = Append(pending, sent + 1)
  /\ UNCHANGED handled

\* Nobody is: redis drops what is published to an empty channel.
Miss == sent' = sent + 1 /\ UNCHANGED <<pending, handled>>

Handle ==
  /\ pending # <<>>
  /\ handled' = Head(pending)
  /\ pending' = Tail(pending)
  /\ UNCHANGED sent

\* A connection that breaks takes all it carries with it.
Lose == pending # <<>> /\ pending' = <<>> /\ UNCHANGED <<sent, handled>>

Next == Accept \/ Miss \/ Handle \/ Lose

Spec == Init /\ [][Next]_vars

\* No command waits for ever.
FairSpec == Spec /\ WF_vars(Handle \/ Lose)

\* Commands are handled in the order of their publication, each at most once:
\* a handler that returns late, or runs again, would break it.
HandledInOrder == [][handled' # handled => handled' > handled]_vars

=============================================================================
