----------------------------- MODULE LossyQueue -----------------------------
(***************************************************************************)
(* What the event bus really promises one consumer group: every message    *)
(* is handed out at most once, never overtaking an older one that is still *)
(* queued, and any message that is not finished yet may be dropped.        *)
(* EventBus implements this specification (EventBus!Queue).                *)
(***************************************************************************)
EXTENDS Naturals

CONSTANT MaxMsgs    \* messages are numbered 1..MaxMsgs in publication order

VARIABLE status     \* status[i]: where message i is in its life

Msgs == 1..MaxMsgs

Statuses == {"unsent", "queued", "taken", "done", "lost"}

Having(st) == {i \in Msgs : status[i] = st}

\* The set S of messages moves to status st, all others stay.
Move(S, st) == [i \in Msgs |-> IF i \in S THEN st ELSE status[i]]

Init == status = [i \in Msgs |-> "unsent"]

\* The next message is queued; appending may push old queued ones out.
Send ==
  \E i \in Having("unsent"), S \in SUBSET Having("queued") :
    /\ \A j \in Having("unsent") : i <= j
    /\ status' = [Move(S, "lost") EXCEPT ![i] = "queued"]

\* A consumer takes a batch from the old end of the queue.
Take ==
  \E S \in SUBSET Having("queued") :
    /\ \A i \in S, j \in Having("queued") \ S : i < j
    /\ status' = Move(S, "taken")

Finish == \E i \in Having("taken") : status' = Move({i}, "done")

\* Unfinished messages vanish: crash, lost reply, late group, bad body.
Drop ==
  \E S \in SUBSET (Having("queued") \cup Having("taken")) :
    status' = Move(S, "lost")

Next == Send \/ Take \/ Finish \/ Drop

Spec == Init /\ [][Next]_status
=============================================================================
