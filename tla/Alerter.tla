------------------------------ MODULE Alerter -------------------------------
(***************************************************************************)
(* The Telegram alerter (telegram/bot.py) with its Redis dedup keys        *)
(* (cache/redis_client.py) and the Alert table.  Several processes run     *)
(* run_alert_loop: the all-in-one process and the alerts worker share      *)
(* Redis and the database.                                                 *)
(*                                                                         *)
(* dispatch() takes a global key for the opportunity's fingerprint, then,  *)
(* chat after chat, a per-chat key, the rate limiter, the send, and the    *)
(* insert of an Alert row.  Keys expire Cooldown time units after they     *)
(* were set.  Time is kept as what is left of each key and as the age of   *)
(* the last message, so it needs no bound.                                 *)
(***************************************************************************)
EXTENDS Naturals

CONSTANTS
  Procs,        \* processes that run run_alert_loop
  Fps,          \* fingerprints of the opportunities that pass the filters
  Length,       \* Length[f]: characters of f, "kind:buy_pool:sell_pool:base_token"
  Width,        \* of the column Alert.fingerprint
  NChats,       \* length of settings.telegram.chat_ids
  Cooldown,     \* settings.telegram.cooldown_s
  MaxBusy,      \* bound: how long one dispatch (limiter, Telegram) may take
  Crashes       \* whether a dispatch may be cut short

ASSUME AlerterAssumption ==
  /\ Fps # {} /\ Length \in [Fps -> Nat] /\ Width \in Nat
  /\ NChats \in Nat /\ Cooldown \in Nat \ {0} /\ MaxBusy \in Nat
  /\ Crashes \in BOOLEAN

Chats == 1..NChats

VARIABLES
  gkey,         \* gkey[f]: time left of dedup key "alert:f"
  ckey,         \* ckey[c][f]: time left of cooldown key "cd:tg:c:f"
  rows,         \* (chat, fingerprint) pairs in the Alert table
  pc,           \* control point of each process
  fp, chat,     \* dispatch's fingerprint and position in chat_ids
  busy,         \* how long the process's current dispatch has been running
  age           \* history: time since f last reached chat c, up to Cooldown

keys == <<gkey, ckey>>
vars == <<keys, rows, pc, fp, chat, busy, age>>

NoFp == CHOOSE f \in Fps : TRUE   \* fp outside dispatch, where it means nothing

Init ==
  /\ gkey = [f \in Fps |-> 0]
  /\ ckey = [c \in Chats |-> [f \in Fps |-> 0]]
  /\ rows = {}
  /\ pc = [p \in Procs |-> "idle"]
  /\ fp = [p \in Procs |-> NoFp]
  /\ chat = [p \in Procs |-> 1]
  /\ busy = [p \in Procs |-> 0]
  /\ age = [c \in Chats |-> [f \in Fps |-> Cooldown]]
-----------------------------------------------------------------------------
\* Mutation: the dedup key is read and not set.
DispatchUnkeyed(p) ==
  \E f \in Fps :
    /\ pc[p] = "idle" /\ gkey[f] = 0
    /\ pc' = [pc EXCEPT ![p] = "chat"]
    /\ fp' = [fp EXCEPT ![p] = f]
    /\ UNCHANGED <<keys, rows, chat, busy, age>>

\* A ranked opportunity arrives and wins the global SET NX EX.  One whose
\* key is still there is dropped and changes nothing.
Dispatch(p) ==
  \E f \in Fps :
    /\ pc[p] = "idle" /\ gkey[f] = 0
    /\ gkey' = [gkey EXCEPT ![f] = Cooldown]
    /\ pc' = [pc EXCEPT ![p] = "chat"]
    /\ fp' = [fp EXCEPT ![p] = f]
    /\ UNCHANGED <<ckey, rows, chat, busy, age>>

\* dispatch is left, by a return or by an exception; its locals are gone.
Leave(p) ==
  /\ pc' = [pc EXCEPT ![p] = "idle"]
  /\ fp' = [fp EXCEPT ![p] = NoFp]
  /\ chat' = [chat EXCEPT ![p] = 1]
  /\ busy' = [busy EXCEPT ![p] = 0]

\* The chat's cooldown key is still there: on to the next chat.
SkipChat(p) ==
  /\ pc[p] = "chat" /\ chat[p] \in Chats
  /\ ckey[chat[p]][fp[p]] > 0
  /\ chat' = [chat EXCEPT ![p] = @ + 1]
  /\ UNCHANGED <<keys, rows, pc, fp, busy, age>>

\* Mutation: the chat key outlives the global key twice over.
TakeChatLonger(p) ==
  /\ pc[p] = "chat" /\ chat[p] \in Chats
  /\ ckey[chat[p]][fp[p]] = 0
  /\ ckey' = [ckey EXCEPT ![chat[p]][fp[p]] = 2 * Cooldown]
  /\ pc' = [pc EXCEPT ![p] = "send"]
  /\ UNCHANGED <<gkey, rows, fp, chat, busy, age>>

\* The chat's cooldown key is won; what follows waits for the limiter.
TakeChat(p) ==
  /\ pc[p] = "chat" /\ chat[p] \in Chats
  /\ ckey[chat[p]][fp[p]] = 0
  /\ ckey' = [ckey EXCEPT ![chat[p]][fp[p]] = Cooldown]
  /\ pc' = [pc EXCEPT ![p] = "send"]
  /\ UNCHANGED <<gkey, rows, fp, chat, busy, age>>

EndDispatch(p) ==
  /\ pc[p] = "chat" /\ chat[p] \notin Chats
  /\ Leave(p)
  /\ UNCHANGED <<keys, rows, age>>

Reaches(p) == age' = [age EXCEPT ![chat[p]][fp[p]] = 0]

SendOk(p) ==
  /\ pc[p] = "send"
  /\ Reaches(p)
  /\ pc' = [pc EXCEPT ![p] = "persist"]
  /\ UNCHANGED <<keys, rows, fp, chat, busy>>

\* Mutation: a failed send gives its cooldown key back and the chat is tried
\* again.
SendFailsRetry(p) ==
  /\ pc[p] = "send"
  /\ Reaches(p) \/ UNCHANGED age
  /\ ckey' = [ckey EXCEPT ![chat[p]][fp[p]] = 0]
  /\ pc' = [pc EXCEPT ![p] = "chat"]
  /\ UNCHANGED <<gkey, rows, fp, chat, busy>>

\* TelegramRetryAfter (after a sleep) or any other exception: on to the
\* next chat.  The message may have reached the chat all the same.
SendFails(p) ==
  /\ pc[p] = "send"
  /\ Reaches(p) \/ UNCHANGED age
  /\ pc' = [pc EXCEPT ![p] = "chat"]
  /\ chat' = [chat EXCEPT ![p] = @ + 1]
  /\ UNCHANGED <<keys, rows, fp, busy>>

Row(p) == <<chat[p], fp[p]>>

\* Whether the INSERT is accepted: the fingerprint must fit its column and be
\* the chat's first of its kind (UniqueConstraint).  Three addresses never fit
\* 64 characters, so that the table stays empty.
Stores(p) == Length[fp[p]] <= Width /\ Row(p) \notin rows

\* INSERT of the Alert row in a session of its own.  A refused one raises; the
\* exception leaves dispatch, whatever chats are left, and run_alert_loop logs
\* it.
Persist(p) ==
  /\ pc[p] = "persist"
  /\ IF Stores(p)
     THEN /\ rows' = rows \cup {Row(p)}
          /\ pc' = [pc EXCEPT ![p] = "chat"]
          /\ chat' = [chat EXCEPT ![p] = @ + 1]
          /\ UNCHANGED <<fp, busy>>
     ELSE Leave(p) /\ UNCHANGED rows
  /\ UNCHANGED <<keys, age>>

\* The process dies in the middle of a dispatch, or Redis or the database
\* raises in it, which ends the dispatch the same way.  Its keys stay, and the
\* bus does not deliver the opportunity again (EventBus!OrphansStay).
Crash(p) ==
  /\ pc[p] # "idle" /\ Crashes
  /\ Leave(p)
  /\ UNCHANGED <<keys, rows, age>>

Minus1(n) == IF n > 0 THEN n - 1 ELSE 0

\* One time unit passes; no dispatch takes more than MaxBusy of them.
Tick ==
  /\ \A p \in Procs : pc[p] # "idle" => busy[p] < MaxBusy
  /\ gkey' = [f \in Fps |-> Minus1(gkey[f])]
  /\ ckey' = [c \in Chats |-> [f \in Fps |-> Minus1(ckey[c][f])]]
  /\ busy' = [p \in Procs |-> IF pc[p] = "idle" THEN 0 ELSE busy[p] + 1]
  /\ age' = [c \in Chats |-> [f \in Fps |->
               IF age[c][f] < Cooldown THEN age[c][f] + 1 ELSE Cooldown]]
  /\ UNCHANGED <<rows, pc, fp, chat>>

Advance(p) ==
  \/ SkipChat(p) \/ TakeChat(p) \/ EndDispatch(p)
  \/ SendOk(p) \/ SendFails(p) \/ Persist(p)

Next == Tick \/ \E p \in Procs : Dispatch(p) \/ Advance(p) \/ Crash(p)

Spec == Init /\ [][Next]_vars

\* A dispatch that has begun keeps being run by its event loop.
FairSpec == Spec /\ \A p \in Procs : WF_vars(Advance(p))
-----------------------------------------------------------------------------
TypeOK ==
  /\ gkey \in [Fps -> 0..Cooldown]
  /\ ckey \in [Chats -> [Fps -> 0..Cooldown]]
  /\ rows \subseteq Chats \X Fps
  /\ pc \in [Procs -> {"idle", "chat", "send", "persist"}]
  /\ fp \in [Procs -> Fps]
  /\ chat \in [Procs -> 1..(NChats + 1)]
  /\ busy \in [Procs -> 0..MaxBusy]
  /\ age \in [Chats -> [Fps -> 0..Cooldown]]
  /\ \A p \in Procs : pc[p] \in {"send", "persist"} => chat[p] \in Chats

\* A chat gets the same alert again no sooner than a cooldown after the
\* last one, less the time a dispatch may spend between taking the chat's
\* key and sending.  Stated where a process is about to send.
SpacedSends ==
  \A p \in Procs :
    pc[p] = "send" => age[chat[p]][fp[p]] + MaxBusy >= Cooldown

\* Processes that share Redis never work on the same fingerprint at once,
\* provided a dispatch is shorter than the cooldown.
OneDispatcher ==
  MaxBusy < Cooldown =>
    \A p, q \in Procs :
      p # q /\ pc[p] # "idle" /\ pc[q] # "idle" => fp[p] # fp[q]

\* A dispatch that has won the global key can find a chat's key still
\* there: the chat key was set later and has the same TTL.  It then skips
\* the chat for a whole cooldown more.  The window of that is MaxBusy long.
ChatKeyLag ==
  \A c \in Chats, f \in Fps : ckey[c][f] <= gkey[f] + MaxBusy

\* Every dispatch ends, whatever Telegram and the database do.
DispatchEnds == \A p \in Procs : (pc[p] # "idle") ~> (pc[p] = "idle")

\* "We save the Alert to the database for audit" (bot.py:7): a message that
\* was sent leaves a new row behind.
SentIsAudited ==
  [][\A p \in Procs :
       pc[p] = "persist" /\ pc'[p] # "persist" => rows' # rows]_vars
=============================================================================
