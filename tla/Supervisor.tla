----------------------------- MODULE Supervisor -----------------------------
(***************************************************************************)
(* The tasks of one worker process: the Supervisor that runs and restarts  *)
(* jobs (utils/asyncio_runner.py), the signal path of the worker           *)
(* (workers/entrypoint.py), and jobs that create watcher tasks.            *)
(*                                                                         *)
(* Discovery and the Solana tracker gather their watchers: gather raises   *)
(* what the first failing one raised and leaves the others running, and    *)
(* the Supervisor starts the job again with a new set of watchers.  The    *)
(* EVM tracker creates its tails and never awaits them.  A job that is one *)
(* loop is a gathering job with one watcher.                               *)
(***************************************************************************)
EXTENDS Naturals, FiniteSets, FiniteSetsExt

CONSTANTS
  Jobs,         \* the Supervisor's jobs, all with restart = True
  Kids,         \* Kids[j]: the watchers job j creates
  Gathering,    \* jobs that gather them; the others never await them
  MaxDelay,     \* back-off steps from backoff_min_s to backoff_max_s
  MaxFails      \* bound: watchers and jobs that fail

AllKids == UNION {Kids[j] : j \in Jobs}

ASSUME SupervisorAssumption ==
  /\ IsFiniteSet(Jobs) /\ IsFiniteSet(AllKids)
  /\ Kids \in [Jobs -> (SUBSET AllKids) \ {{}}]
  /\ \A i, j \in Jobs : i # j => Kids[i] \cap Kids[j] = {}
  /\ Gathering \subseteq Jobs
  /\ MaxDelay \in Nat /\ MaxFails \in Nat

VARIABLES
  stop,         \* "no", "signalled", "done" after shutdown, "closed" after the loop
  phase,        \* where each job's _run_job is
  delay,        \* the back-off step the job's next sleep takes
  empty,        \* jobs that find nothing to watch
  attached,     \* watchers of the job run that is going on
  leaked,       \* leaked[k]: tasks of watcher k left by earlier runs of its job
  begun,        \* history: jobs that have created their watchers
  fails,        \* history: how often watcher k has failed
  early         \* history: how often job j failed before it created them

tasks == <<attached, leaked>>
history == <<begun, fails, early>>
vars == <<stop, phase, delay, empty, tasks, history>>

Init ==
  /\ stop = "no"
  /\ phase = [j \in Jobs |-> "start"]
  /\ delay = [j \in Jobs |-> 0]
  /\ empty \in SUBSET Jobs
  /\ attached = {}
  /\ leaked = [k \in AllKids |-> 0]
  /\ begun = {}
  /\ fails = [k \in AllKids |-> 0]
  /\ early = [j \in Jobs |-> 0]
-----------------------------------------------------------------------------
FailsOf(S) == MapThenSumSet(LAMBDA k : fails[k], S)
EarlyOf(S) == MapThenSumSet(LAMBDA j : early[j], S)

\* Bound: this many failures at most.
MayFail == FailsOf(AllKids) + EarlyOf(Jobs) < MaxFails

\* The tasks of S are left running with nobody awaiting them.
Leak(S) == [k \in AllKids |-> leaked[k] + IF k \in S THEN 1 ELSE 0]

\* Mutation: the Supervisor does not await what the factory returns.
StartDetached(j) ==
  /\ stop = "no" /\ phase[j] = "start" /\ j \notin empty
  /\ phase' = [phase EXCEPT ![j] = "backoff"]
  /\ leaked' = Leak(Kids[j])
  /\ begun' = begun \cup {j}
  /\ UNCHANGED <<stop, delay, empty, attached, fails, early>>

\* The job's factory creates the watchers and awaits them, or its own loop.
Start(j) ==
  /\ stop = "no" /\ phase[j] = "start" /\ j \notin empty
  /\ phase' = [phase EXCEPT ![j] = "running"]
  /\ attached' = attached \cup Kids[j]
  /\ begun' = begun \cup {j}
  /\ UNCHANGED <<stop, delay, empty, leaked, fails, early>>

\* Nothing to watch: no endpoint, no pool, a chain that is not enabled.
ExitClean(j) ==
  /\ stop = "no" /\ phase[j] = "start" /\ j \in empty
  /\ phase' = [phase EXCEPT ![j] = "backoff"]
  /\ delay' = [delay EXCEPT ![j] = 0]
  /\ UNCHANGED <<stop, empty, tasks, history>>

\* Loading the pools fails, say.
FailEarly(j) ==
  /\ MayFail
  /\ stop = "no" /\ phase[j] = "start"
  /\ phase' = [phase EXCEPT ![j] = "backoff"]
  /\ early' = [early EXCEPT ![j] = @ + 1]
  /\ UNCHANGED <<stop, delay, empty, tasks, begun, fails>>

\* The database comes to hold something to watch.
Fill(j) ==
  /\ j \in empty /\ stop = "no"
  /\ empty' = empty \ {j}
  /\ UNCHANGED <<stop, phase, delay, tasks, history>>

\* Mutation: a failure cancels the siblings, as a TaskGroup would.
GatheredFailsGroup(j, k) ==
  /\ MayFail
  /\ stop = "no" /\ j \in Gathering /\ k \in Kids[j] \cap attached
  /\ fails' = [fails EXCEPT ![k] = @ + 1]
  /\ attached' = attached \ Kids[j]
  /\ phase' = [phase EXCEPT ![j] = "backoff"]
  /\ UNCHANGED <<stop, delay, empty, leaked, begun, early>>

\* A gathered watcher raises: the job crashes, its siblings go on.
GatheredFails(j, k) ==
  /\ MayFail
  /\ stop = "no" /\ j \in Gathering /\ k \in Kids[j] \cap attached
  /\ fails' = [fails EXCEPT ![k] = @ + 1]
  /\ attached' = attached \ Kids[j]
  /\ leaked' = Leak((Kids[j] \cap attached) \ {k})
  /\ phase' = [phase EXCEPT ![j] = "backoff"]
  /\ UNCHANGED <<stop, delay, empty, begun, early>>

\* A watcher nobody awaits raises: its task is done and nothing else happens.
TailFails(j, k) ==
  /\ MayFail
  /\ stop = "no" /\ j \notin Gathering /\ k \in Kids[j] \cap attached
  /\ fails' = [fails EXCEPT ![k] = @ + 1]
  /\ attached' = attached \ {k}
  /\ UNCHANGED <<stop, phase, delay, empty, leaked, begun, early>>

LeakedFails(k) ==
  /\ MayFail
  /\ leaked[k] > 0 /\ stop # "closed"
  /\ fails' = [fails EXCEPT ![k] = @ + 1]
  /\ leaked' = [leaked EXCEPT ![k] = @ - 1]
  /\ UNCHANGED <<stop, phase, delay, empty, attached, begun, early>>

\* Mutation: a job that has waited for the longest gives up.
WakeUnlessLongest(j) ==
  /\ stop = "no" /\ phase[j] = "backoff" /\ delay[j] < MaxDelay
  /\ phase' = [phase EXCEPT ![j] = "start"]
  /\ delay' = [delay EXCEPT ![j] = @ + 1]
  /\ UNCHANGED <<stop, empty, tasks, history>>

\* Mutation: the back-off is not capped.
WakeUncapped(j) ==
  /\ stop = "no" /\ phase[j] = "backoff"
  /\ phase' = [phase EXCEPT ![j] = "start"]
  /\ delay' = [delay EXCEPT ![j] = @ + 1]
  /\ UNCHANGED <<stop, empty, tasks, history>>

\* The back-off sleep ends before stopping is set.
Wake(j) ==
  /\ stop = "no" /\ phase[j] = "backoff"
  /\ phase' = [phase EXCEPT ![j] = "start"]
  /\ delay' = [delay EXCEPT ![j] = IF @ < MaxDelay THEN @ + 1 ELSE @]
  /\ UNCHANGED <<stop, empty, tasks, history>>
-----------------------------------------------------------------------------
\* SIGINT or SIGTERM: shutdown sets stopping and cancels every job.
Signal ==
  /\ stop = "no"
  /\ stop' = "signalled"
  /\ UNCHANGED <<phase, delay, empty, tasks, history>>

\* Mutation: shutdown sets stopping but cancels no job.
UnwindSleeping(j) ==
  /\ stop = "signalled" /\ phase[j] = "backoff"
  /\ phase' = [phase EXCEPT ![j] = "stopped"]
  /\ UNCHANGED <<stop, delay, empty, tasks, history>>

\* The cancelled job ends.  A gather cancels what it awaits; tails nobody
\* awaits go on, and so do the watchers of earlier runs.
Unwind(j) ==
  /\ stop = "signalled" /\ phase[j] # "stopped"
  /\ phase' = [phase EXCEPT ![j] = "stopped"]
  /\ attached' = attached \ Kids[j]
  /\ leaked' = IF j \in Gathering THEN leaked ELSE Leak(Kids[j] \cap attached)
  /\ UNCHANGED <<stop, delay, empty, history>>

\* shutdown's gather over the jobs returns.
ShutDown ==
  /\ stop = "signalled" /\ \A j \in Jobs : phase[j] = "stopped"
  /\ stop' = "done"
  /\ UNCHANGED <<phase, delay, empty, tasks, history>>

\* asyncio.run cancels every task that is left and closes the loop.
LoopCloses ==
  /\ stop = "done"
  /\ stop' = "closed"
  /\ leaked' = [k \in AllKids |-> 0]
  /\ UNCHANGED <<phase, delay, empty, attached, history>>

Begin(j) == Start(j) \/ ExitClean(j) \/ FailEarly(j)

Next ==
  \/ \E j \in Jobs : Begin(j) \/ Fill(j) \/ Wake(j) \/ Unwind(j)
  \/ \E j \in Jobs, k \in AllKids : GatheredFails(j, k) \/ TailFails(j, k)
  \/ \E k \in AllKids : LeakedFails(k)
  \/ Signal \/ ShutDown \/ LoopCloses

Spec == Init /\ [][Next]_vars

\* The event loop runs what is ready and timers fire; nothing makes a watcher
\* fail, a signal come or the database fill.
FairSpec ==
  /\ Spec
  /\ \A j \in Jobs : WF_vars(Begin(j)) /\ WF_vars(Wake(j)) /\ WF_vars(Unwind(j))
  /\ WF_vars(ShutDown) /\ WF_vars(LoopCloses)
-----------------------------------------------------------------------------
TypeOK ==
  /\ stop \in {"no", "signalled", "done", "closed"}
  /\ phase \in [Jobs -> {"start", "running", "backoff", "stopped"}]
  /\ delay \in [Jobs -> 0..MaxDelay]
  /\ empty \subseteq Jobs
  /\ attached \subseteq AllKids
  /\ leaked \in [AllKids -> Nat]
  /\ begun \subseteq Jobs
  /\ fails \in [AllKids -> Nat]
  /\ early \in [Jobs -> Nat]

\* The tasks that run watcher k.
Copies(k) == leaked[k] + IF k \in attached THEN 1 ELSE 0

\* One watcher's failure costs no other: whatever its siblings and its job
\* went through, a watcher that has not failed itself runs until the stop.
FailureIsolated ==
  stop = "no" =>
    \A j \in begun : \A k \in Kids[j] : fails[k] = 0 => Copies(k) >= 1

\* A watcher runs twice only through failures of its siblings, one more task
\* for each: back-off, clean exits and its own failures add none.
CopiesEarned ==
  \A j \in Jobs : \A k \in Kids[j] : Copies(k) <= 1 + FailsOf(Kids[j] \ {k})

\* A gathered watcher that is not running comes back, or the worker stops.
WatchedAgain ==
  \A j \in Gathering : \A k \in Kids[j] :
    (k \notin attached /\ j \notin empty /\ stop = "no")
      ~> (k \in attached \/ stop # "no")

\* A signal ends every task, those nobody awaits included.
StopsAll ==
  (stop = "signalled") ~> (stop = "closed" /\ \A k \in AllKids : Copies(k) = 0)
=============================================================================
