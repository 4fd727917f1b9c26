---------------------------- MODULE Reachability ----------------------------
(***************************************************************************)
(* Who decides whether an asset can be shown: the sweep                    *)
(* revalidate_asset_urls, which beat queues and a token lock in redis      *)
(* keeps single, and the recheck of one asset, which the viewer asks for   *)
(* when it meets an asset it may not show (AssetRecheckViewV2 and          *)
(* revalidate_asset_url in src/anthias_server), behind two keys that       *)
(* expire. Tasks run in the processes of the celery pool, under a soft     *)
(* time limit that raises in the task and a hard one that kills it.        *)
(* Time passes in ticks; keys and tasks count them down and up.            *)
(***************************************************************************)
EXTENDS Integers, FiniteSets

CONSTANTS
  Workers,      \* processes of the pool
  Assets,       \* rows of remote assets
  Uris,
  Answering,    \* the hosts that answer: a subset of Uris
  TaskFaults,   \* "kill" (a process dies), "late" (the hard limit is enforced a
                \* tick late), "flush" (redis loses its keys), "queue" (a task
                \* is not queued although its key was set)
  SweepSoft, SweepHard,      \* ASSET_REVALIDATION_(SOFT_)TIME_LIMIT_S
  RecheckSoft, RecheckHard,  \* ASSET_RECHECK_(SOFT_)TIME_LIMIT_S
  Cooldown,                  \* RECHECK_COOLDOWN_S
  Debounce,                  \* ASSET_RECHECK_QUEUE_DEBOUNCE_S
  MaxQueued,                 \* bound: messages of one kind in the queue
  MaxFaults,                 \* bound: processes that die and keys that are lost
  Unset

ASSUME HostAssumption == Answering \subseteq Uris
ASSUME TaskFaultAssumption == TaskFaults \subseteq {"kill", "late", "flush", "queue"}
ASSUME LimitAssumption ==
  /\ {SweepSoft, SweepHard, RecheckSoft, RecheckHard, Cooldown, Debounce, MaxQueued}
       \subseteq Nat \ {0}
  /\ MaxFaults \in Nat
  /\ SweepSoft < SweepHard /\ RecheckSoft < RecheckHard
ASSUME NoneAssumption == Unset \notin Workers /\ Unset \notin Assets

RemoteRow == [uri : Uris, fit : BOOLEAN, reachable : BOOLEAN]
Points == {"idle", "acquire", "sweep", "verdict", "release",
           "load", "gate", "probe", "record"}
Sweeping == {"sweep", "verdict", "release"}
Rechecking == {"load", "gate", "probe", "record"}

VARIABLES
  remote,     \* the rows; fit: enabled, not in processing, to be checked
  sweeps,     \* messages of beat
  rechecks,   \* messages of the endpoint, by asset
  owner,      \* the sweep lock: the worker whose token it holds, or Unset, ...
  ttl,        \* ... and the ticks until it expires
  gate,       \* recheck:<id>:queue, ticks until it expires
  cooldown,   \* recheck:<id>:lock, the same
  pc,         \* what each process does
  age,        \* ticks since its task began
  todo,       \* the rows a sweep has read and not come to
  uri,        \* the uri its probe goes to
  target,     \* the asset it probes
  verdict,    \* what the probe said
  flushed,    \* history: redis has lost the lock
  faults      \* how many there were

keys == <<owner, ttl, gate, cooldown>>
queue == <<sweeps, rechecks>>
task == <<pc, age, todo, uri, target, verdict>>
history == <<flushed, faults>>
reachVars == <<remote, queue, keys, task, history>>

ReachTypeOK ==
  /\ remote \in [Assets -> RemoteRow]
  /\ sweeps \in 0..MaxQueued
  /\ rechecks \in [Assets -> 0..MaxQueued]
  /\ owner \in Workers \union {Unset}
  /\ ttl \in 0..SweepHard
  /\ gate \in [Assets -> 0..Debounce]
  /\ cooldown \in [Assets -> 0..Cooldown]
  /\ pc \in [Workers -> Points]
  /\ age \in [Workers -> 0..(SweepHard + RecheckHard)]
  /\ todo \in [Workers -> SUBSET Assets]
  /\ uri \in [Workers -> [Assets -> Uris \union {Unset}]]
  /\ target \in [Workers -> Assets \union {Unset}]
  /\ verdict \in [Workers -> BOOLEAN]
  /\ flushed \in BOOLEAN /\ faults \in 0..MaxFaults

ReachInit ==
  /\ remote \in [Assets -> [uri : Uris, fit : {TRUE}, reachable : {TRUE}]]
  /\ sweeps = 0 /\ rechecks = [a \in Assets |-> 0]
  /\ owner = Unset /\ ttl = 0
  /\ gate = [a \in Assets |-> 0] /\ cooldown = gate
  /\ pc = [w \in Workers |-> "idle"]
  /\ age = [w \in Workers |-> 0]
  /\ todo = [w \in Workers |-> {}]
  /\ uri = [w \in Workers |-> [a \in Assets |-> Unset]]
  /\ target = [w \in Workers |-> Unset]
  /\ verdict = [w \in Workers |-> FALSE]
  /\ flushed = FALSE /\ faults = 0

-----------------------------------------------------------------------------
(* The sweep *)

\* beat
Beat ==
  /\ sweeps < MaxQueued
  /\ sweeps' = sweeps + 1
  /\ UNCHANGED <<remote, rechecks, keys, task, history>>

Goto(w, p) == pc' = [pc EXCEPT ![w] = p]

Unread == [a \in Assets |-> Unset]

\* The process is free again, its task forgotten.
Finish(w) ==
  /\ Goto(w, "idle")
  /\ age' = [age EXCEPT ![w] = 0]
  /\ todo' = [todo EXCEPT ![w] = {}]
  /\ target' = [target EXCEPT ![w] = Unset]
  /\ verdict' = [verdict EXCEPT ![w] = FALSE]
  /\ uri' = [uri EXCEPT ![w] = Unread]

TakeSweep(w) ==
  /\ pc[w] = "idle" /\ sweeps > 0
  /\ sweeps' = sweeps - 1
  /\ Goto(w, "acquire")
  /\ UNCHANGED <<remote, rechecks, keys, age, todo, uri, target, verdict, history>>

\* Mutant: the lock has no TTL of its own. (It never counts down from 0.)
HoldForever(w) == owner' = w /\ ttl' = 0

\* Mutant: the TTL is the soft limit.
HoldSoft(w) == owner' = w /\ ttl' = SweepSoft

\* SET NX EX: the token, and a TTL of the hard time limit
Hold(w) == owner' = w /\ ttl' = SweepHard

\* The rows are read at once as the loop begins.
Acquire(w) ==
  /\ pc[w] = "acquire" /\ owner = Unset
  /\ Hold(w)
  /\ todo' = [todo EXCEPT ![w] = {a \in Assets : remote[a].fit}]
  /\ uri' = [uri EXCEPT ![w] = [a \in Assets |-> remote[a].uri]]
  /\ Goto(w, "sweep")
  /\ UNCHANGED <<remote, queue, gate, cooldown, age, target, verdict, history>>

\* "previous sweep still running, skipping"
Skip(w) ==
  /\ pc[w] = "acquire" /\ owner # Unset
  /\ Finish(w)
  /\ UNCHANGED <<remote, queue, keys, history>>

\* _check_asset_reachability() of the next row
SweepProbe(w) ==
  /\ pc[w] = "sweep"
  /\ \E a \in todo[w] :
       /\ todo' = [todo EXCEPT ![w] = @ \ {a}]
       /\ target' = [target EXCEPT ![w] = a]
       /\ verdict' = [verdict EXCEPT ![w] = uri[w][a] \in Answering]
  /\ Goto(w, "verdict")
  /\ UNCHANGED <<remote, queue, keys, age, uri, history>>

Record(w) == remote' = [remote EXCEPT ![target[w]].reachable = verdict[w]]

SweepRecord(w) ==
  /\ pc[w] = "verdict"
  /\ Record(w)
  /\ Goto(w, "sweep")
  /\ target' = [target EXCEPT ![w] = Unset]
  /\ verdict' = [verdict EXCEPT ![w] = FALSE]
  /\ UNCHANGED <<queue, keys, age, todo, uri, history>>

\* The loop is over, or the soft limit has been raised somewhere in it.
SweepEnds(w) ==
  /\ \/ pc[w] = "sweep" /\ todo[w] = {}
     \/ pc[w] \in {"sweep", "verdict"} /\ age[w] >= SweepSoft
  /\ Goto(w, "release")
  /\ todo' = [todo EXCEPT ![w] = {}]
  /\ uri' = [uri EXCEPT ![w] = Unread]
  /\ target' = [target EXCEPT ![w] = Unset]
  /\ verdict' = [verdict EXCEPT ![w] = FALSE]
  /\ UNCHANGED <<remote, queue, keys, age, history>>

\* _LOCK_RELEASE_LUA
DeleteOwn(w) ==
  IF owner = w THEN owner' = Unset /\ ttl' = 0 ELSE UNCHANGED <<owner, ttl>>

Release(w) ==
  /\ pc[w] = "release"
  /\ DeleteOwn(w)
  /\ Finish(w)
  /\ UNCHANGED <<remote, queue, gate, cooldown, history>>

-----------------------------------------------------------------------------
(* The recheck *)

\* The key of the endpoint is free.
AskedFirst(a) == gate[a] = 0

CloseGate(a) == gate' = [gate EXCEPT ![a] = Debounce] /\ UNCHANGED cooldown

\* The viewer meets an asset that it may not show and asks for a recheck; the
\* endpoint queues one if nobody has asked for a while.
Ask(a) ==
  /\ remote[a].fit /\ ~remote[a].reachable
  /\ AskedFirst(a) /\ rechecks[a] < MaxQueued
  /\ CloseGate(a)
  /\ \E ok \in {TRUE} \union (IF "queue" \in TaskFaults THEN {FALSE} ELSE {}) :
       rechecks' = [rechecks EXCEPT ![a] = IF ok THEN @ + 1 ELSE @]
  /\ UNCHANGED <<remote, sweeps, owner, ttl, task, history>>

TakeRecheck(w, a) ==
  /\ pc[w] = "idle" /\ rechecks[a] > 0
  /\ rechecks' = [rechecks EXCEPT ![a] = @ - 1]
  /\ target' = [target EXCEPT ![w] = a]
  /\ Goto(w, "load")
  /\ UNCHANGED <<remote, sweeps, keys, age, todo, uri, verdict, history>>

\* The row is read and must be eligible; ...
RecheckLoad(w) ==
  /\ pc[w] = "load"
  /\ IF remote[target[w]].fit
       THEN /\ uri' = [uri EXCEPT ![w][target[w]] = remote[target[w]].uri]
            /\ Goto(w, "gate")
            /\ UNCHANGED <<age, todo, target, verdict>>
       ELSE Finish(w)
  /\ UNCHANGED <<remote, queue, keys, history>>

\* ... SET NX EX on the cooldown key; ...
Gate(w) ==
  /\ pc[w] = "gate"
  /\ IF cooldown[target[w]] = 0
       THEN /\ cooldown' = [cooldown EXCEPT ![target[w]] = Cooldown]
            /\ Goto(w, "probe")
            /\ UNCHANGED <<age, todo, uri, target, verdict>>
       ELSE Finish(w) /\ UNCHANGED cooldown
  /\ UNCHANGED <<remote, queue, owner, ttl, gate, history>>

\* The soft limit is raised before the try: the task fails.
RecheckFails(w) ==
  /\ pc[w] \in {"load", "gate"} /\ age[w] >= RecheckSoft
  /\ Finish(w)
  /\ UNCHANGED <<remote, queue, keys, history>>

\* ... the probe, which is FALSE if the soft limit ends it; ...
RecheckProbe(w) ==
  /\ pc[w] = "probe"
  /\ verdict' = [verdict EXCEPT ![w] =
                  (age[w] < RecheckSoft /\ uri[w][target[w]] \in Answering)]
  /\ Goto(w, "record")
  /\ UNCHANGED <<remote, queue, keys, age, todo, uri, target, history>>

\* ... and the UPDATE, unless the soft limit is raised there.
RecheckRecord(w) ==
  /\ pc[w] = "record"
  /\ \/ Record(w)
     \/ age[w] >= RecheckSoft /\ UNCHANGED remote
  /\ Finish(w)
  /\ UNCHANGED <<queue, keys, history>>

-----------------------------------------------------------------------------
(* Time, operators and faults *)

Busy(w) == pc[w] # "idle"
Limit(w) == IF pc[w] \in Rechecking THEN RecheckHard ELSE SweepHard
Lateness == IF "late" \in TaskFaults THEN 1 ELSE 0

\* A tick. Who would reach the hard limit is killed by the pool as it does, or
\* one tick late.
Down(n) == IF n = 0 THEN 0 ELSE n - 1
Overdue(w) == Busy(w) /\ age[w] + 1 >= Limit(w) + Lateness

Tick ==
  /\ LET dead == {w \in Workers : Overdue(w)} IN
       /\ pc' = [w \in Workers |-> IF w \in dead THEN "idle" ELSE pc[w]]
       /\ age' = [w \in Workers |-> IF w \in dead \/ ~Busy(w) THEN 0 ELSE age[w] + 1]
       /\ todo' = [w \in Workers |-> IF w \in dead THEN {} ELSE todo[w]]
       /\ target' = [w \in Workers |-> IF w \in dead THEN Unset ELSE target[w]]
       /\ verdict' = [w \in Workers |-> IF w \in dead THEN FALSE ELSE verdict[w]]
       /\ uri' = [w \in Workers |-> IF w \in dead THEN Unread ELSE uri[w]]
  /\ ttl' = Down(ttl)
  /\ owner' = IF ttl = 1 THEN Unset ELSE owner
  /\ gate' = [a \in Assets |-> Down(gate[a])]
  /\ cooldown' = [a \in Assets |-> Down(cooldown[a])]
  /\ UNCHANGED <<remote, queue, history>>

\* A process dies (out of memory, a restart of the container).
Kill(w) ==
  /\ "kill" \in TaskFaults /\ Busy(w)
  /\ faults < MaxFaults /\ faults' = faults + 1
  /\ Finish(w)
  /\ UNCHANGED <<remote, queue, keys, flushed>>

\* redis loses what it holds.
Flush ==
  /\ "flush" \in TaskFaults
  /\ faults < MaxFaults /\ faults' = faults + 1
  /\ owner' = Unset /\ ttl' = 0
  /\ gate' = [a \in Assets |-> 0] /\ cooldown' = gate'
  /\ flushed' = TRUE
  /\ UNCHANGED <<remote, queue, task>>

\* An operator edits an asset or takes it out and puts it back.
Edit(a) ==
  /\ \E u \in Uris, f \in BOOLEAN :
       /\ <<u, f>> # <<remote[a].uri, remote[a].fit>>
       /\ remote' = [remote EXCEPT ![a].uri = u, ![a].fit = f]
  /\ UNCHANGED <<queue, keys, task, history>>

Work(w) ==
  \/ TakeSweep(w) \/ Acquire(w) \/ Skip(w) \/ SweepProbe(w) \/ SweepRecord(w)
  \/ SweepEnds(w) \/ Release(w) \/ \E a \in Assets : TakeRecheck(w, a)
  \/ RecheckLoad(w) \/ Gate(w) \/ RecheckFails(w) \/ RecheckProbe(w) \/ RecheckRecord(w)

ReachNext ==
  \/ Beat \/ Tick \/ Flush
  \/ \E w \in Workers : Work(w) \/ Kill(w)
  \/ \E a \in Assets : Ask(a) \/ Edit(a)

ReachSpec == ReachInit /\ [][ReachNext]_reachVars

\* Time passes and no sweep is cut off at the same step for ever. (That beat goes
\* on is a premise of the property that needs it.)
SweepFairness ==
  /\ WF_reachVars(Tick)
  /\ SF_reachVars(\E w \in Workers : TakeSweep(w))
  /\ SF_reachVars(\E w \in Workers : Acquire(w))
  /\ SF_reachVars(\E w \in Workers : SweepProbe(w))
  /\ SF_reachVars(\E w \in Workers : SweepRecord(w))

\* Not every recheck is cut off; and the viewer comes round to the asset again.
RecheckFairness ==
  /\ \A a \in Assets : SF_reachVars(Ask(a) /\ rechecks'[a] > rechecks[a])
  /\ SF_reachVars(\E w \in Workers, a \in Assets : TakeRecheck(w, a))
  /\ SF_reachVars(\E w \in Workers : RecheckLoad(w))
  /\ SF_reachVars(\E w \in Workers : Gate(w) /\ cooldown' # cooldown)
  /\ SF_reachVars(\E w \in Workers : RecheckProbe(w))
  /\ SF_reachVars(\E w \in Workers : verdict[w] /\ RecheckRecord(w) /\ Record(w))

SweepSpec == ReachSpec /\ SweepFairness
FairSpec == SweepSpec /\ RecheckFairness

-----------------------------------------------------------------------------
(* Properties *)

\* Two sweeps never write over each other: as long as redis keeps the key and the
\* pool enforces its limit in time, a sweep never outlives its lock, wherever it
\* is cut off and however long its message took to be read.
OneSweep ==
  ~flushed /\ Lateness = 0 =>
    \A v, w \in Workers : pc[v] \in Sweeping /\ pc[w] \in Sweeping => v = w

\* Even when one does outlive it, its end takes nothing from the sweep that
\* holds the lock by then.
ReleaseIsOwn ==
  [][\A w \in Workers : pc[w] = "release" /\ pc'[w] # "release"
                          => owner' = owner \/ owner = w \/ ttl = 1]_reachVars

\* An asset that is fit and answers is shown again, even if no sweep ever runs:
\* neither of the two keys keeps the recheck away for ever, and no verdict that
\* is late or about an earlier uri stays. (The rechecks keep to their soft limit.)
InTime == \A w \in Workers : pc[w] \in Rechecking => age[w] < RecheckSoft
FitAssetReturns ==
  \A a \in Assets :
    <>[](remote[a].fit /\ remote[a].uri \in Answering /\ InTime)
      => []<>(remote[a].reachable)

\* An asset that does not answer is found out as long as sweeps are queued: a
\* sweep that dies does not lock the next ones out.
DeadAssetIsFound ==
  \A a \in Assets :
    []<>(sweeps > 0) /\ <>[](remote[a].fit /\ remote[a].uri \notin Answering)
      => []<>(~remote[a].reachable)

\* A verdict is about the uri the row has.
VerdictIsAboutRow ==
  [][\A w \in Workers : pc[w] \in {"verdict", "record"} /\ remote' # remote
       => uri[w][target[w]] = remote[target[w]].uri]_reachVars

=============================================================================
