------------------------------ MODULE EventBus ------------------------------
(***************************************************************************)
(* The event bus over Redis Streams (bus/streams.py): producers XADD to a  *)
(* capped stream, worker processes of one consumer group XREADGROUP ">"    *)
(* batches from it, hand each entry to the job's loop body and XACK it     *)
(* when the body comes back.                                               *)
(*                                                                         *)
(* Workers are the processes that run the job: the all-in-one process and  *)
(* the separate worker containers share one group and one consumer name.   *)
(* Entries are numbered in stream order; a batch is an interval of ids.    *)
(***************************************************************************)
EXTENDS Naturals, FiniteSets

CONSTANTS
  Workers,      \* processes that consume the stream in the same group
  MaxMsgs,      \* bound: entries ever appended
  Malformed,    \* entries another writer appended that do not decode
  MaxLen,       \* settings.bus.max_len
  Count,        \* count of XREADGROUP
  MaxFaults     \* bound: crashes and lost replies

ASSUME BusAssumption ==
  /\ MaxMsgs \in Nat /\ MaxFaults \in Nat
  /\ MaxLen \in Nat \ {0} /\ Count \in Nat \ {0}
  /\ Malformed \subseteq 1..MaxMsgs

VARIABLES
  len,          \* entries appended so far
  trimmed,      \* entries 1..trimmed have been evicted by MAXLEN ~
  group,        \* does the consumer group exist?
  cursor,       \* last-delivered id of the group
  pel,          \* pending entries list: delivered to the group, not acked
  pc,           \* control point of each worker's consume() generator
  pos, end,     \* the rest of the worker's batch is pos..end
  begun,        \* history: how often an entry reached a loop body
  finished,     \* history: entries whose loop body came back
  faults        \* crashes and lost replies so far

redis == <<len, trimmed, group, cursor, pel>>
batches == <<pos, end>>
history == <<begun, finished>>
vars == <<redis, pc, batches, history, faults>>

Ids == 1..MaxMsgs

Held(w) == pos[w]..end[w]

\* Entries that are pending in Redis while no worker has them in memory.
Orphans == {i \in pel : \A w \in Workers : i \notin Held(w)}

Init ==
  /\ len = 0 /\ trimmed = 0 /\ group = "absent" /\ cursor = 0 /\ pel = {}
  /\ pc = [w \in Workers |-> "start"]
  /\ pos = [w \in Workers |-> 1] /\ end = [w \in Workers |-> 0]
  /\ begun = [i \in Ids |-> 0] /\ finished = {}
  /\ faults = 0
-----------------------------------------------------------------------------
\* XADD with MAXLEN ~: Redis evicts whole nodes, so at least MaxLen entries
\* stay and older ones may or may not go.
Publish ==
  /\ len < MaxMsgs
  /\ len' = len + 1
  /\ \E t \in trimmed..len :
       /\ t = trimmed \/ t + MaxLen <= len + 1
       /\ trimmed' = t
  /\ UNCHANGED <<group, cursor, pel, pc, batches, history, faults>>

\* Mutation: every start rewinds the group to the beginning.
EnsureGroupAnew(w) ==
  /\ pc[w] = "start"
  /\ group' = "present"
  /\ cursor' = 0
  /\ pc' = [pc EXCEPT ![w] = "read"]
  /\ UNCHANGED <<len, trimmed, pel, batches, history, faults>>

\* XGROUP CREATE ... $ MKSTREAM: a new group starts at the end of the
\* stream, an existing one (BUSYGROUP) is left alone.
EnsureGroup(w) ==
  /\ pc[w] = "start"
  /\ group' = "present"
  /\ cursor' = IF group = "present" THEN cursor ELSE len
  /\ pc' = [pc EXCEPT ![w] = "read"]
  /\ UNCHANGED <<len, trimmed, pel, batches, history, faults>>

\* Mutation: the read starts at the newest entry.
FirstNewest == IF cursor < len THEN len ELSE len + 1

First == (IF cursor < trimmed THEN trimmed ELSE cursor) + 1

\* Mutation: COUNT is not passed.
LastUncounted == len

Last == IF First + Count - 1 <= len THEN First + Count - 1 ELSE len

\* Mutation: XREAD, which moves no group cursor.
ReadEffectNoGroup ==
  /\ First <= len
  /\ pel' = pel \cup (First..Last)
  /\ UNCHANGED <<len, trimmed, group, cursor>>

\* The server's side of XREADGROUP ">": at most Count new entries.
ReadEffect ==
  /\ First <= len
  /\ cursor' = Last
  /\ pel' = pel \cup (First..Last)
  /\ UNCHANGED <<len, trimmed, group>>

\* Mutation: a worker claims a pending entry nobody holds.
ReadClaiming(w) ==
  \E i \in Orphans :
    /\ pc[w] = "read"
    /\ pos' = [pos EXCEPT ![w] = i] /\ end' = [end EXCEPT ![w] = i]
    /\ pc' = [pc EXCEPT ![w] = "next"]
    /\ UNCHANGED <<redis, history, faults>>

Read(w) ==
  /\ pc[w] = "read"
  /\ ReadEffect
  /\ pos' = [pos EXCEPT ![w] = First]
  /\ end' = [end EXCEPT ![w] = Last]
  /\ pc' = [pc EXCEPT ![w] = "next"]
  /\ UNCHANGED <<history, faults>>

\* The server delivered, the reply is lost: consume() catches the
\* ConnectionError, sleeps and asks for ">" again.
ReadReplyLost(w) ==
  /\ pc[w] = "read" /\ faults < MaxFaults
  /\ ReadEffect
  /\ faults' = faults + 1
  /\ UNCHANGED <<pc, batches, history>>

\* XACK of the current entry, and on to the next one or the next read.
AckCurrent(w) ==
  /\ pel' = pel \ {pos[w]}
  /\ pos' = [pos EXCEPT ![w] = @ + 1]
  /\ pc' = [pc EXCEPT ![w] = IF pos[w] = end[w] THEN "read" ELSE "next"]
  /\ UNCHANGED <<len, trimmed, group, cursor, end, faults>>

SkipMalformed(w) ==
  /\ pc[w] = "next" /\ pos[w] \in Malformed
  /\ AckCurrent(w)
  /\ UNCHANGED history

\* Mutation: the ack is sent before the body runs.
YieldAckFirst(w) ==
  /\ pc[w] = "next" /\ pos[w] \notin Malformed
  /\ pel' = pel \ {pos[w]}
  /\ begun' = [begun EXCEPT ![pos[w]] = @ + 1]
  /\ pc' = [pc EXCEPT ![w] = "handle"]
  /\ UNCHANGED <<len, trimmed, group, cursor, batches, finished, faults>>

Yield(w) ==
  /\ pc[w] = "next" /\ pos[w] \notin Malformed
  /\ begun' = [begun EXCEPT ![pos[w]] = @ + 1]
  /\ pc' = [pc EXCEPT ![w] = "handle"]
  /\ UNCHANGED <<redis, batches, finished, faults>>

\* The job's loop body ends; every body swallows its exceptions, so a
\* failed body comes back here like a successful one.
Handle(w) ==
  /\ pc[w] = "handle"
  /\ finished' = finished \cup {pos[w]}
  /\ pc' = [pc EXCEPT ![w] = "ack"]
  /\ UNCHANGED <<redis, batches, begun, faults>>

Ack(w) ==
  /\ pc[w] = "ack"
  /\ AckCurrent(w)
  /\ UNCHANGED history

\* Killed, cancelled, or a Redis error consume() does not catch: the batch
\* is forgotten.
Crash(w) ==
  /\ pc[w] # "down" /\ faults < MaxFaults
  /\ faults' = faults + 1
  /\ pc' = [pc EXCEPT ![w] = "down"]
  /\ pos' = [pos EXCEPT ![w] = 1] /\ end' = [end EXCEPT ![w] = 0]
  /\ UNCHANGED <<redis, history>>

\* Mutation: a crashed job stays down.
RestartNever(w) == pc[w] = "gone" /\ UNCHANGED vars

\* The supervisor runs the job again, which calls consume() anew.
Restart(w) ==
  /\ pc[w] = "down"
  /\ pc' = [pc EXCEPT ![w] = "start"]
  /\ UNCHANGED <<redis, batches, history, faults>>

Consume(w) ==
  \/ EnsureGroup(w) \/ Read(w) \/ SkipMalformed(w)
  \/ Yield(w) \/ Handle(w) \/ Ack(w)

Next ==
  \/ Publish
  \/ \E w \in Workers : Consume(w) \/ ReadReplyLost(w) \/ Crash(w) \/ Restart(w)

Spec == Init /\ [][Next]_vars

\* The event loop keeps running every generator and the supervisor keeps
\* restarting crashed jobs. Nothing obliges producers to publish.
Fairness == \A w \in Workers : WF_vars(Consume(w)) /\ WF_vars(Restart(w))

FairSpec == Spec /\ Fairness
-----------------------------------------------------------------------------
\* One type invariant: Redis's cursors lie inside the stream, a batch is
\* where its worker's control point says, and only pending entries crashed.
TypeOK ==
  /\ len \in 0..MaxMsgs /\ trimmed \in 0..len /\ group \in {"absent", "present"}
  /\ cursor \in 0..len /\ (group = "absent" => cursor = 0)
  /\ pel \subseteq 1..cursor
  /\ pc \in [Workers -> {"start", "read", "next", "handle", "ack", "down"}]
  /\ pos \in [Workers -> Nat] /\ end \in [Workers -> Nat]
  /\ begun \in [Ids -> Nat] /\ finished \subseteq Ids
  /\ faults \in 0..MaxFaults

\* No entry enters a loop body twice, in any worker, over any number of
\* crashes, restarts and lost replies: consume() only ever asks for ">".
AtMostOnce == \A i \in Ids : begun[i] <= 1

\* Two workers of the group, although they use one consumer name, never
\* hold the same entry, and what they hold is pending in Redis.
ExclusiveBatches ==
  \A w \in Workers :
    /\ Held(w) \subseteq pel
    /\ \A v \in Workers \ {w} : Held(v) \cap Held(w) = {}

\* An entry leaves the pending list only when its loop body has come back
\* or it did not decode: the ack follows the work (streams.py:107-111).
AckAfterWork ==
  [][\A i \in pel \ pel' : i \in finished \cup Malformed]_vars

\* What a crash or a lost reply strands stays stranded: nothing reads the
\* pending list again or claims from it, so no later step of any worker
\* takes an orphan up.
OrphansStay == [][Orphans \subseteq Orphans']_vars

\* The damage of one fault is one batch: at most Count entries are
\* stranded by each crash or lost reply.
LossPerFault == Cardinality(Orphans) <= Count * faults

\* Where entry i is in the life LossyQueue describes.
StatusOf(i) ==
  IF i > len THEN "unsent"
  ELSE IF i \in finished THEN "done"
  ELSE IF \E w \in Workers : i \in Held(w) THEN "taken"
  ELSE IF i > cursor /\ i > trimmed THEN "queued"
  ELSE "lost"

Status == [i \in Ids |-> StatusOf(i)]

\* The bus implements the lossy at-most-once FIFO queue: no duplicate, no
\* overtaking at hand-out, nothing comes back once lost or done.
Queue == INSTANCE LossyQueue WITH status <- Status

QueueSpec == Queue!Spec

\* Once faults have stopped, no entry stays queued or in a batch forever:
\* each one published is finished or lost.
EverySettles ==
  \A i \in Ids : (i <= len) ~> (StatusOf(i) \in {"done", "lost"})
=============================================================================
