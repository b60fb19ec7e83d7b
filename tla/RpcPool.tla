------------------------------ MODULE RpcPool -------------------------------
(***************************************************************************)
(* The pool of HTTPS RPC endpoints of an EVM chain (chains/evm/rpc.py).    *)
(* call() posts to an endpoint the rotation picks, and after a failure     *)
(* tries the next pick, three times at most; batch() posts once and keeps  *)
(* no health record.  Tasks share the pool; between two awaits a task runs *)
(* alone, so a failure, its bookkeeping and the next pick are one step.    *)
(***************************************************************************)
EXTENDS Naturals, FiniteSets

CONSTANTS
  N,            \* number of endpoints, numbered in the order of the urls
  Tasks         \* tasks that may use the pool at the same time

ASSUME PoolAssumption == N \in Nat \ {0} /\ IsFiniteSet(Tasks)

Eps == 1..N
Strikes == 3                                \* fail_streak >= 3 is unhealthy
Attempts == IF N < 3 THEN N ELSE 3          \* min(3, len(endpoints))

VARIABLES
  healthy,      \* endpoints whose healthy flag is set
  streak,       \* fail_streak, counted up to Strikes: nothing looks further
  inFlight,     \* in_flight of each endpoint
  cursor,       \* the endpoint itertools.cycle yields next
  pc,           \* what a task is doing: "idle", "call" or "batch"
  ep,           \* the endpoint a task has posted to
  tries,        \* posts of the task's call so far
  failed        \* history: failed posts of call() since e's last good one, to 2

record == <<healthy, streak, failed>>
vars == <<record, inFlight, cursor, pc, ep, tries>>

Init ==
  /\ healthy = Eps
  /\ streak = [e \in Eps |-> 0]
  /\ inFlight = [e \in Eps |-> 0]
  /\ cursor = 1
  /\ pc = [t \in Tasks |-> "idle"]
  /\ ep = [t \in Tasks |-> 1]
  /\ tries = [t \in Tasks |-> 0]
  /\ failed = [e \in Eps |-> 0]
-----------------------------------------------------------------------------
\* How far e is from the cursor in the rotation.
Ahead(e) == IF e >= cursor THEN e - cursor ELSE e + N - cursor

\* _next_endpoint with flags h and loads f: the first healthy endpoint of
\* the rotation or, when there is none, the first of the least loaded.
Picks(e, h, f) ==
  IF h # {}
    THEN e \in h /\ \A d \in h : Ahead(e) <= Ahead(d)
    ELSE \A d \in Eps : f[e] < f[d] \/ (f[e] = f[d] /\ e <= d)

\* Mutation: the rotation does not wrap.
PostNoWrap(t, h, f) ==
  \E e \in Eps :
    /\ Picks(e, h, f)
    /\ healthy' = h \cup {e}
    /\ cursor' = IF h = {} THEN cursor ELSE e + 1
    /\ inFlight' = [f EXCEPT ![e] = @ + 1]
    /\ ep' = [ep EXCEPT ![t] = e]

\* Task t posts to the endpoint that is picked, which is healthy from then
\* on.  A rotation that finds none healthy comes round to where it was.
Post(t, h, f) ==
  \E e \in Eps :
    /\ Picks(e, h, f)
    /\ healthy' = h \cup {e}
    /\ cursor' = IF h = {} THEN cursor ELSE IF e = N THEN 1 ELSE e + 1
    /\ inFlight' = [f EXCEPT ![e] = @ + 1]
    /\ ep' = [ep EXCEPT ![t] = e]

Call(t) ==
  /\ pc[t] = "idle"
  /\ Post(t, healthy, inFlight)
  /\ pc' = [pc EXCEPT ![t] = "call"]
  /\ tries' = [tries EXCEPT ![t] = 1]
  /\ UNCHANGED <<streak, failed>>

Batch(t) ==
  /\ pc[t] = "idle"
  /\ Post(t, healthy, inFlight)
  /\ pc' = [pc EXCEPT ![t] = "batch"]
  /\ UNCHANGED <<streak, failed, tries>>

Unloaded(t) == [inFlight EXCEPT ![ep[t]] = @ - 1]

\* Mutation: a good answer sets the flag and leaves the streak.
AnsweredKeepsStreak(t) ==
  /\ pc[t] = "call"
  /\ healthy' = healthy \cup {ep[t]}
  /\ failed' = [failed EXCEPT ![ep[t]] = 0]
  /\ inFlight' = Unloaded(t)
  /\ pc' = [pc EXCEPT ![t] = "idle"]
  /\ UNCHANGED <<streak, cursor, ep, tries>>

Answered(t) ==
  /\ pc[t] = "call"
  /\ healthy' = healthy \cup {ep[t]}
  /\ streak' = [streak EXCEPT ![ep[t]] = 0]
  /\ failed' = [failed EXCEPT ![ep[t]] = 0]
  /\ inFlight' = Unloaded(t)
  /\ pc' = [pc EXCEPT ![t] = "idle"]
  /\ UNCHANGED <<cursor, ep, tries>>

UpTo(max, n) == IF n < max THEN n ELSE max

\* A failed post counts n times: an answer of 5xx or 429 is counted where it
\* is seen and again by the except clause that catches what it raises; a
\* transport error or a JSON-RPC error is counted once.
Strike(t, n) ==
  /\ streak' = [streak EXCEPT ![ep[t]] = UpTo(Strikes, @ + n)]
  /\ failed' = [failed EXCEPT ![ep[t]] = UpTo(2, @ + 1)]

HealthyAfter(t, n) ==
  IF streak[ep[t]] + n >= Strikes THEN healthy \ {ep[t]} ELSE healthy

\* Mutation: the retry forgets the finally clause of the failed post.
RetryLoaded(t, n) ==
  /\ pc[t] = "call" /\ tries[t] < Attempts
  /\ Strike(t, n)
  /\ Post(t, HealthyAfter(t, n), inFlight)
  /\ tries' = [tries EXCEPT ![t] = @ + 1]
  /\ UNCHANGED pc

\* Mutation: posts are not counted, so the call never gives up.
RetryForever(t, n) ==
  /\ pc[t] = "call"
  /\ Strike(t, n)
  /\ Post(t, HealthyAfter(t, n), Unloaded(t))
  /\ UNCHANGED <<pc, tries>>

Retry(t, n) ==
  /\ pc[t] = "call" /\ tries[t] < Attempts
  /\ Strike(t, n)
  /\ Post(t, HealthyAfter(t, n), Unloaded(t))
  /\ tries' = [tries EXCEPT ![t] = @ + 1]
  /\ UNCHANGED pc

\* The last attempt fails: call() raises the last exception.
GiveUp(t, n) ==
  /\ pc[t] = "call" /\ tries[t] = Attempts
  /\ Strike(t, n)
  /\ healthy' = HealthyAfter(t, n)
  /\ inFlight' = Unloaded(t)
  /\ pc' = [pc EXCEPT ![t] = "idle"]
  /\ UNCHANGED <<cursor, ep, tries>>

\* The post of a batch ends, well or badly, or a call is cancelled, which
\* no except clause sees: only the finally clause runs.
Unrecorded(t) ==
  /\ pc[t] # "idle"
  /\ inFlight' = Unloaded(t)
  /\ pc' = [pc EXCEPT ![t] = "idle"]
  /\ UNCHANGED <<record, cursor, ep, tries>>

Fails(t) == \E n \in {1, 2} : Retry(t, n) \/ GiveUp(t, n)

Next ==
  \E t \in Tasks : Call(t) \/ Batch(t) \/ Answered(t) \/ Fails(t) \/ Unrecorded(t)

Spec == Init /\ [][Next]_vars

\* httpx ends every post within its timeout, and the refresh loop calls again
\* for as long as the tracker runs.
Ends(t) == Answered(t) \/ Fails(t) \/ Unrecorded(t)

FairSpec == Spec /\ \A t \in Tasks : WF_vars(Ends(t)) /\ WF_vars(Call(t))
-----------------------------------------------------------------------------
TypeOK ==
  /\ healthy \subseteq Eps
  /\ streak \in [Eps -> 0..Strikes]
  /\ inFlight \in [Eps -> Nat]
  /\ cursor \in Eps
  /\ pc \in [Tasks -> {"idle", "call", "batch"}]
  /\ ep \in [Tasks -> Eps]
  /\ tries \in [Tasks -> 0..Attempts]
  /\ failed \in [Eps -> 0..2]

\* The tasks that wait for an answer of endpoint e.
Posting(e) == {t \in Tasks : pc[t] # "idle" /\ ep[t] = e}

\* in_flight counts exactly the tasks that wait, through retries, raised
\* exceptions and cancellations: what the pick among unhealthy ones reads.
InFlightExact == \A e \in Eps : inFlight[e] = Cardinality(Posting(e))

\* An endpoint is out of the rotation only after two failed posts at least
\* since its last good answer, whatever tasks interleave on it (two, not
\* three, since a 5xx is counted twice).
UnhealthyEarned == \A e \in Eps \ healthy : failed[e] = 2

\* Every call comes to an end: it does not go round the endpoints forever.
CallEnds == \A t \in Tasks : (pc[t] = "call") ~> (pc[t] = "idle")

\* "Rotation" with "deprioritisation" and "auto-recovery" (rpc.py:1, 35, 58):
\* an endpoint marked unhealthy is posted to again at some later time, as
\* calls keep coming.
UnhealthyRetried == \A e \in Eps : (e \notin healthy) ~> (e \in healthy)
=============================================================================
