--------------------------- MODULE AlerterProofs ----------------------------
(***************************************************************************)
(* Proofs about Alerter for every set of processes, fingerprints and chats *)
(* and every cooldown: type correctness, one dispatcher per fingerprint,   *)
(* spaced sends and the lag of a chat's key behind the global one.         *)
(***************************************************************************)
EXTENDS Alerter, TLAPS

\* While a dispatch runs, its global key has not lost more than the time the
\* dispatch has been running; the same for the chat key it holds at a send.
GlobalHeld ==
  \A p \in Procs : pc[p] # "idle" => gkey[fp[p]] + busy[p] >= Cooldown

ChatHeld ==
  \A p \in Procs :
    pc[p] = "send" => ckey[chat[p]][fp[p]] + busy[p] >= Cooldown

\* What a chat's key has lost has passed since the last message, but for the
\* time between taking the key and sending.
AgeKept ==
  \A c \in Chats, f \in Fps : age[c][f] + ckey[c][f] + MaxBusy >= Cooldown

Timing ==
  /\ GlobalHeld /\ ChatHeld /\ AgeKept
  /\ OneDispatcher /\ ChatKeyLag /\ SpacedSends

IInv == TypeOK /\ Timing
-----------------------------------------------------------------------------
\* What an expiring key has left.
LEMMA Minus1Type ==
  \A n \in 0..Cooldown : /\ Minus1(n) \in 0..Cooldown
                         /\ Minus1(n) <= n /\ n <= Minus1(n) + 1
BY AlerterAssumption DEF AlerterAssumption, Minus1

\* The placeholder fingerprint is one.
LEMMA NoFpType == NoFp \in Fps
BY AlerterAssumption DEF AlerterAssumption, NoFp

\* Init: no key is set and no process is in dispatch.
LEMMA InitIInv == Init => IInv
<1> SUFFICES ASSUME Init PROVE IInv
  OBVIOUS
<1>1. TypeOK
  BY AlerterAssumption, NoFpType DEF AlerterAssumption, Init, TypeOK, Chats
<1>2. GlobalHeld /\ ChatHeld /\ OneDispatcher /\ SpacedSends
  BY DEF Init, GlobalHeld, ChatHeld, OneDispatcher, SpacedSends
<1>3. AgeKept /\ ChatKeyLag
  BY AlerterAssumption DEF AlerterAssumption, Init, AgeKept, ChatKeyLag
<1> QED
  BY <1>1, <1>2, <1>3 DEF IInv, Timing

\* Leaving dispatch keeps the process variables in their types.
LEMMA LeaveType ==
  ASSUME TypeOK, NEW p \in Procs, Leave(p)
  PROVE  /\ pc' \in [Procs -> {"idle", "chat", "send", "persist"}]
         /\ fp' \in [Procs -> Fps]
         /\ chat' \in [Procs -> 1..(NChats + 1)]
         /\ busy' \in [Procs -> 0..MaxBusy]
         /\ pc'[p] = "idle"
         /\ \A q \in Procs \ {p} : /\ pc'[q] = pc[q] /\ fp'[q] = fp[q]
                                   /\ chat'[q] = chat[q] /\ busy'[q] = busy[q]
BY AlerterAssumption, NoFpType DEF AlerterAssumption, TypeOK, Leave

\* Setting one entry of a table of chats and fingerprints.
LEMMA SetEntry ==
  ASSUME NEW m \in [Chats -> [Fps -> 0..Cooldown]],
         NEW c \in Chats, NEW f \in Fps, NEW v \in 0..Cooldown
  PROVE  [m EXCEPT ![c][f] = v] \in [Chats -> [Fps -> 0..Cooldown]]
OBVIOUS

\* Going on to the next chat stays within one past the last.
LEMMA NextChatType ==
  ASSUME TypeOK, NEW p \in Procs, chat[p] \in Chats,
         chat' = [chat EXCEPT ![p] = @ + 1]
  PROVE  chat' \in [Procs -> 1..(NChats + 1)]
<1>1. chat[p] + 1 \in 1..(NChats + 1)
  BY AlerterAssumption DEF AlerterAssumption, Chats
<1> QED
  BY <1>1 DEF TypeOK

\* Type correctness is inductive by itself.
LEMMA TypeStep ==
  ASSUME TypeOK, [Next]_vars
  PROVE  TypeOK'
<1> USE AlerterAssumption DEF AlerterAssumption, Chats, keys
<1>1. CASE Tick
  <2>1. gkey' \in [Fps -> 0..Cooldown] /\ ckey' \in [Chats -> [Fps -> 0..Cooldown]]
    BY <1>1, Minus1Type DEF Tick, TypeOK
  <2>2. age' \in [Chats -> [Fps -> 0..Cooldown]]
    BY <1>1, SMTT(30) DEF Tick, TypeOK
  <2>3. busy' \in [Procs -> 0..MaxBusy]
    BY <1>1 DEF Tick, TypeOK
  <2> QED
    BY <1>1, <2>1, <2>2, <2>3 DEF Tick, TypeOK
<1>2. ASSUME NEW p \in Procs, Dispatch(p) PROVE TypeOK'
  <2>1. \A q \in Procs : pc'[q] \in {"send", "persist"} => chat'[q] \in Chats
    BY <1>2 DEF Dispatch, TypeOK
  <2>2. /\ gkey' \in [Fps -> 0..Cooldown] /\ ckey' \in [Chats -> [Fps -> 0..Cooldown]]
        /\ age' \in [Chats -> [Fps -> 0..Cooldown]]
    <3>1. Cooldown \in 0..Cooldown
      OBVIOUS
    <3>2. gkey' \in [Fps -> 0..Cooldown] /\ UNCHANGED <<ckey, age>>
      BY <1>2, <3>1 DEF Dispatch, TypeOK
    <3> QED
      BY <3>2 DEF TypeOK
  <2>3. rows' \subseteq Chats \X Fps
    BY <1>2 DEF Dispatch, TypeOK
  <2>4. /\ pc' \in [Procs -> {"idle", "chat", "send", "persist"}]
        /\ fp' \in [Procs -> Fps] /\ chat' \in [Procs -> 1..(NChats + 1)]
        /\ busy' \in [Procs -> 0..MaxBusy]
    BY <1>2 DEF Dispatch, TypeOK
  <2> QED
    BY <2>1, <2>2, <2>3, <2>4 DEF TypeOK
<1>3. ASSUME NEW p \in Procs, SkipChat(p) PROVE TypeOK'
  <2>1. \A q \in Procs : pc'[q] \in {"send", "persist"} => chat'[q] \in Chats
    BY <1>3 DEF SkipChat, TypeOK
  <2>2. /\ gkey' \in [Fps -> 0..Cooldown] /\ ckey' \in [Chats -> [Fps -> 0..Cooldown]]
        /\ age' \in [Chats -> [Fps -> 0..Cooldown]]
    BY <1>3 DEF SkipChat, TypeOK
  <2>3. rows' \subseteq Chats \X Fps
    BY <1>3 DEF SkipChat, TypeOK
  <2>4. /\ pc' \in [Procs -> {"idle", "chat", "send", "persist"}]
        /\ fp' \in [Procs -> Fps] /\ chat' \in [Procs -> 1..(NChats + 1)]
        /\ busy' \in [Procs -> 0..MaxBusy]
    <3>1. chat[p] \in Chats
      BY <1>3 DEF SkipChat, TypeOK
    <3> QED
      BY <1>3, <3>1, NextChatType DEF SkipChat, TypeOK
  <2> QED
    BY <2>1, <2>2, <2>3, <2>4 DEF TypeOK
<1>4. ASSUME NEW p \in Procs, TakeChat(p) PROVE TypeOK'
  <2>1. \A q \in Procs : pc'[q] \in {"send", "persist"} => chat'[q] \in Chats
    BY <1>4 DEF TakeChat, TypeOK
  <2>2. /\ gkey' \in [Fps -> 0..Cooldown] /\ ckey' \in [Chats -> [Fps -> 0..Cooldown]]
        /\ age' \in [Chats -> [Fps -> 0..Cooldown]]
    <3>1. chat[p] \in Chats /\ fp[p] \in Fps /\ Cooldown \in 0..Cooldown
      BY <1>4 DEF TakeChat, TypeOK
    <3> QED
      BY <1>4, <3>1, SetEntry DEF TakeChat, TypeOK
  <2>3. rows' \subseteq Chats \X Fps
    BY <1>4 DEF TakeChat, TypeOK
  <2>4. /\ pc' \in [Procs -> {"idle", "chat", "send", "persist"}]
        /\ fp' \in [Procs -> Fps] /\ chat' \in [Procs -> 1..(NChats + 1)]
        /\ busy' \in [Procs -> 0..MaxBusy]
    BY <1>4 DEF TakeChat, TypeOK
  <2> QED
    BY <2>1, <2>2, <2>3, <2>4 DEF TypeOK
<1>5. ASSUME NEW p \in Procs, Leave(p), UNCHANGED <<keys, rows, age>> PROVE TypeOK'
  <2>1. \A q \in Procs : pc'[q] \in {"send", "persist"} => chat'[q] \in Chats
    BY <1>5, LeaveType DEF TypeOK
  <2> QED
    BY <1>5, <2>1, LeaveType DEF TypeOK
<1>6. ASSUME NEW p \in Procs, SendOk(p) PROVE TypeOK'
  <2>1. \A q \in Procs : pc'[q] \in {"send", "persist"} => chat'[q] \in Chats
    BY <1>6 DEF SendOk, Reaches, TypeOK
  <2>2. /\ gkey' \in [Fps -> 0..Cooldown] /\ ckey' \in [Chats -> [Fps -> 0..Cooldown]]
        /\ age' \in [Chats -> [Fps -> 0..Cooldown]]
    <3>1. chat[p] \in Chats /\ fp[p] \in Fps /\ 0 \in 0..Cooldown
      BY <1>6 DEF SendOk, TypeOK
    <3> QED
      BY <1>6, <3>1, SetEntry DEF SendOk, Reaches, TypeOK
  <2>3. rows' \subseteq Chats \X Fps
    BY <1>6 DEF SendOk, Reaches, TypeOK
  <2>4. /\ pc' \in [Procs -> {"idle", "chat", "send", "persist"}]
        /\ fp' \in [Procs -> Fps] /\ chat' \in [Procs -> 1..(NChats + 1)]
        /\ busy' \in [Procs -> 0..MaxBusy]
    BY <1>6 DEF SendOk, Reaches, TypeOK
  <2> QED
    BY <2>1, <2>2, <2>3, <2>4 DEF TypeOK
<1>7. ASSUME NEW p \in Procs, SendFails(p) PROVE TypeOK'
  <2>1. \A q \in Procs : pc'[q] \in {"send", "persist"} => chat'[q] \in Chats
    BY <1>7 DEF SendFails, Reaches, TypeOK
  <2>2. /\ gkey' \in [Fps -> 0..Cooldown] /\ ckey' \in [Chats -> [Fps -> 0..Cooldown]]
        /\ age' \in [Chats -> [Fps -> 0..Cooldown]]
    <3>1. chat[p] \in Chats /\ fp[p] \in Fps /\ 0 \in 0..Cooldown
      BY <1>7 DEF SendFails, TypeOK
    <3>2. CASE Reaches(p)
      BY <1>7, <3>1, <3>2, SetEntry DEF SendFails, Reaches, TypeOK
    <3>3. CASE UNCHANGED age
      BY <1>7, <3>3 DEF SendFails, TypeOK
    <3> QED
      BY <1>7, <3>2, <3>3 DEF SendFails
  <2>3. rows' \subseteq Chats \X Fps
    BY <1>7 DEF SendFails, Reaches, TypeOK
  <2>4. /\ pc' \in [Procs -> {"idle", "chat", "send", "persist"}]
        /\ fp' \in [Procs -> Fps] /\ chat' \in [Procs -> 1..(NChats + 1)]
        /\ busy' \in [Procs -> 0..MaxBusy]
    <3>1. chat[p] \in Chats
      BY <1>7 DEF SendFails, TypeOK
    <3> QED
      BY <1>7, <3>1, NextChatType DEF SendFails, TypeOK
  <2> QED
    BY <2>1, <2>2, <2>3, <2>4 DEF TypeOK
<1>8. ASSUME NEW p \in Procs, Persist(p) PROVE TypeOK'
  <2>1. CASE ~Stores(p)
    BY <1>5, <1>8, <2>1 DEF Persist
  <2>2. CASE Stores(p)
    <3>1. \A q \in Procs : pc'[q] \in {"send", "persist"} => chat'[q] \in Chats
      BY <1>8, <2>2 DEF Persist, TypeOK
    <3>2. chat[p] \in Chats /\ Row(p) \in Chats \X Fps
      BY <1>8 DEF Persist, Row, TypeOK
    <3>3. rows' \subseteq Chats \X Fps
      <4>1. rows' = rows \cup {Row(p)} /\ rows \subseteq Chats \X Fps
        BY <1>8, <2>2 DEF Persist, TypeOK
      <4> QED
        BY <4>1, <3>2
    <3>4. /\ pc' \in [Procs -> {"idle", "chat", "send", "persist"}]
          /\ fp' \in [Procs -> Fps] /\ chat' \in [Procs -> 1..(NChats + 1)]
          /\ busy' \in [Procs -> 0..MaxBusy]
      BY <1>8, <2>2, <3>2, NextChatType DEF Persist, TypeOK
    <3> QED
      BY <1>8, <3>1, <3>3, <3>4 DEF Persist, TypeOK
  <2> QED
    BY <2>1, <2>2
<1>9. CASE UNCHANGED vars
  BY <1>9 DEF vars, TypeOK
<1> QED
  BY <1>1, <1>2, <1>3, <1>4, <1>5, <1>6, <1>7, <1>8, <1>9
     DEF Next, Advance, EndDispatch, Crash
-----------------------------------------------------------------------------
\* A new dispatch is on a fingerprint nobody else works on: their key would
\* still be there.
LEMMA DispatchStep ==
  ASSUME IInv, NEW p \in Procs, Dispatch(p)
  PROVE  Timing'
<1> USE AlerterAssumption DEF AlerterAssumption
<1>a. TypeOK /\ GlobalHeld
  BY DEF IInv, Timing
<1>1. PICK f \in Fps :
        /\ pc[p] = "idle" /\ gkey[f] = 0
        /\ gkey' = [gkey EXCEPT ![f] = Cooldown]
        /\ pc' = [pc EXCEPT ![p] = "chat"]
        /\ fp' = [fp EXCEPT ![p] = f]
        /\ UNCHANGED <<ckey, rows, chat, busy, age>>
  BY DEF Dispatch
<1>2. /\ pc'[p] = "chat" /\ fp'[p] = f
      /\ gkey'[f] = Cooldown
      /\ \A g \in Fps : gkey'[g] >= gkey[g]
      /\ \A q \in Procs \ {p} : pc'[q] = pc[q] /\ fp'[q] = fp[q]
  BY <1>1, <1>a DEF TypeOK
<1>3. GlobalHeld'
  <2> SUFFICES ASSUME NEW q \in Procs, pc'[q] # "idle"
               PROVE  gkey'[fp'[q]] + busy[q] >= Cooldown
    BY <1>1 DEF GlobalHeld
  <2>1. gkey' \in [Fps -> 0..Cooldown] /\ fp' \in [Procs -> Fps]
    BY <1>1, <1>a DEF TypeOK
  <2>2. CASE q = p
    BY <1>2, <2>1, <2>2, <1>a DEF TypeOK
  <2>3. CASE q # p
    BY <1>2, <2>1, <2>3, <1>a DEF TypeOK, GlobalHeld
  <2> QED
    BY <2>2, <2>3
<1>4. ChatHeld' /\ SpacedSends'
  BY <1>1, <1>2 DEF IInv, Timing, ChatHeld, SpacedSends
<1>5. AgeKept'
  BY <1>1 DEF IInv, Timing, AgeKept
<1>6. OneDispatcher'
  <2>1. ASSUME MaxBusy < Cooldown, NEW q \in Procs, pc[q] # "idle" PROVE fp[q] # f
    BY <2>1, <1>1, <1>a DEF TypeOK, GlobalHeld
  <2> QED
    BY <1>2, <2>1 DEF IInv, Timing, OneDispatcher
<1>7. ChatKeyLag'
  <2> SUFFICES ASSUME NEW c \in Chats, NEW g \in Fps
               PROVE  ckey[c][g] <= gkey'[g] + MaxBusy
    BY <1>1 DEF ChatKeyLag
  <2>1. ckey[c][g] <= gkey[g] + MaxBusy /\ ckey[c][g] \in Nat
    BY <1>a DEF IInv, Timing, ChatKeyLag, TypeOK
  <2>2. gkey[g] \in Nat /\ gkey'[g] \in Nat
    BY <1>1, <1>a DEF TypeOK
  <2> QED
    BY <1>2, <2>1, <2>2
<1> QED
  BY <1>3, <1>4, <1>5, <1>6, <1>7 DEF Timing

\* Taking a chat's key: the global key is not older than the dispatch, and
\* the last message to the chat is a cooldown away.
LEMMA TakeChatStep ==
  ASSUME IInv, NEW p \in Procs, TakeChat(p)
  PROVE  Timing'
<1> USE AlerterAssumption DEF AlerterAssumption
<1>a. TypeOK /\ GlobalHeld
  BY DEF IInv, Timing
<1> DEFINE c0 == chat[p]
           f0 == fp[p]
<1>1. /\ c0 \in Chats /\ f0 \in Fps /\ ckey[c0][f0] = 0
      /\ pc'[p] = "send"
      /\ \A q \in Procs \ {p} : pc'[q] = pc[q]
      /\ pc[p] = "chat"
      /\ UNCHANGED <<gkey, rows, fp, chat, busy, age>>
  BY <1>a DEF TakeChat, TypeOK
<1>2. /\ ckey'[c0][f0] = Cooldown
      /\ \A c \in Chats, f \in Fps : c # c0 \/ f # f0 => ckey'[c][f] = ckey[c][f]
  BY <1>1, <1>a DEF TakeChat, TypeOK
<1>3. \A c \in Chats, f \in Fps : /\ ckey'[c][f] \in 0..Cooldown
                                  /\ ckey[c][f] \in 0..Cooldown
                                  /\ age[c][f] \in 0..Cooldown /\ gkey[f] \in 0..Cooldown
                                  /\ ckey'[c][f] >= ckey[c][f]
  BY <1>1, <1>2, <1>a DEF TypeOK
<1>4. gkey[f0] + busy[p] >= Cooldown /\ busy[p] \in 0..MaxBusy
  BY <1>1, <1>a DEF GlobalHeld, TypeOK
<1>5. GlobalHeld' /\ OneDispatcher'
  BY <1>1 DEF IInv, Timing, GlobalHeld, OneDispatcher
<1>6. ChatHeld'
  <2> SUFFICES ASSUME NEW q \in Procs, pc'[q] = "send"
               PROVE  ckey'[chat[q]][fp[q]] + busy[q] >= Cooldown
    BY <1>1 DEF ChatHeld
  <2>1. CASE q = p
    BY <2>1, <1>2, <1>4
  <2>2. CASE q # p
    <3>1. pc[q] = "send" /\ chat[q] \in Chats /\ fp[q] \in Fps /\ busy[q] \in Nat
      BY <2>2, <1>1, <1>a DEF TypeOK
    <3> QED
      BY <3>1, <1>3 DEF IInv, Timing, ChatHeld
  <2> QED
    BY <2>1, <2>2
<1>7. AgeKept'
  BY <1>1, <1>3 DEF IInv, Timing, AgeKept
<1>8. ChatKeyLag'
  <2> SUFFICES ASSUME NEW c \in Chats, NEW f \in Fps
               PROVE  ckey'[c][f] <= gkey[f] + MaxBusy
    BY <1>1 DEF ChatKeyLag
  <2>1. CASE c = c0 /\ f = f0
    BY <2>1, <1>1, <1>2, <1>3, <1>4
  <2>2. CASE c # c0 \/ f # f0
    BY <2>2, <1>2 DEF IInv, Timing, ChatKeyLag
  <2> QED
    BY <2>1, <2>2
<1>9. SpacedSends'
  <2>1. age[c0][f0] + MaxBusy >= Cooldown
    BY <1>1, <1>3 DEF IInv, Timing, AgeKept
  <2> QED
    BY <1>1, <2>1 DEF IInv, Timing, SpacedSends
<1> QED
  BY <1>5, <1>6, <1>7, <1>8, <1>9 DEF Timing

\* A message reaches a chat: the sender holds the chat's key, and nobody else
\* is about to send the same one.
LEMMA ReachStep ==
  ASSUME IInv, NEW p \in Procs, pc[p] = "send", Reaches(p) \/ UNCHANGED age,
         pc'[p] # "idle", pc'[p] # "send",
         \A q \in Procs \ {p} : pc'[q] = pc[q] /\ chat'[q] = chat[q],
         UNCHANGED <<keys, rows, fp, busy>>
  PROVE  Timing'
<1> USE AlerterAssumption DEF AlerterAssumption, keys
<1>a. TypeOK
  BY DEF IInv
<1> DEFINE c0 == chat[p]
           f0 == fp[p]
<1>1. /\ c0 \in Chats /\ f0 \in Fps /\ busy[p] \in 0..MaxBusy
      /\ ckey[c0][f0] + busy[p] >= Cooldown
  BY <1>a DEF IInv, Timing, ChatHeld, TypeOK
<1>2. /\ \A c \in Chats, f \in Fps : c # c0 \/ f # f0 => age'[c][f] = age[c][f]
      /\ age'[c0][f0] \in 0..Cooldown
  BY <1>1, <1>a DEF Reaches, TypeOK
<1>3. GlobalHeld' /\ ChatKeyLag' /\ OneDispatcher'
  BY DEF IInv, Timing, GlobalHeld, ChatKeyLag, OneDispatcher
<1>4. ChatHeld'
  BY DEF IInv, Timing, ChatHeld
<1>5. AgeKept'
  <2> SUFFICES ASSUME NEW c \in Chats, NEW f \in Fps
               PROVE  age'[c][f] + ckey[c][f] + MaxBusy >= Cooldown
    BY DEF AgeKept
  <2>1. CASE c = c0 /\ f = f0
    <3>1. ckey[c][f] \in 0..Cooldown
      BY <1>a DEF TypeOK
    <3> QED
      BY <2>1, <3>1, <1>1, <1>2
  <2>2. CASE c # c0 \/ f # f0
    BY <2>2, <1>2 DEF IInv, Timing, AgeKept
  <2> QED
    BY <2>1, <2>2
<1>6. SpacedSends'
  <2> SUFFICES ASSUME NEW q \in Procs, pc'[q] = "send"
               PROVE  age'[chat'[q]][fp[q]] + MaxBusy >= Cooldown
    BY DEF SpacedSends
  <2>1. q # p /\ pc[q] = "send" /\ chat'[q] = chat[q]
    OBVIOUS
  <2>2. chat[q] \in Chats /\ fp[q] \in Fps
    BY <2>1, <1>a DEF TypeOK
  <2>3. CASE MaxBusy < Cooldown
    <3>1. fp[q] # f0
      BY <2>1, <2>3 DEF IInv, Timing, OneDispatcher
    <3> QED
      BY <2>1, <2>2, <3>1, <1>2 DEF IInv, Timing, SpacedSends
  <2>4. CASE ~ (MaxBusy < Cooldown)
    <3>1. age'[chat[q]][fp[q]] \in Nat
      BY <2>2, <1>2, <1>a DEF TypeOK
    <3> QED
      BY <2>1, <2>4, <3>1
  <2> QED
    BY <2>3, <2>4
<1> QED
  BY <1>3, <1>4, <1>5, <1>6 DEF Timing

\* Time passes: keys lose what the history and the running dispatches gain.
LEMMA TickStep ==
  ASSUME IInv, Tick
  PROVE  Timing'
<1> USE AlerterAssumption DEF AlerterAssumption
<1>a. TypeOK
  BY DEF IInv
<1>1. UNCHANGED <<rows, pc, fp, chat>>
  BY DEF Tick
<1>2. \A f \in Fps : /\ gkey[f] \in 0..Cooldown /\ gkey'[f] \in 0..Cooldown
                     /\ gkey'[f] = Minus1(gkey[f])
  BY <1>a, Minus1Type DEF Tick, TypeOK
<1>3. \A c \in Chats, f \in Fps :
        /\ ckey[c][f] \in 0..Cooldown /\ ckey'[c][f] \in 0..Cooldown
        /\ ckey'[c][f] = Minus1(ckey[c][f])
        /\ age[c][f] \in 0..Cooldown /\ age'[c][f] \in 0..Cooldown
        /\ age'[c][f] = IF age[c][f] < Cooldown THEN age[c][f] + 1 ELSE Cooldown
  BY <1>a, Minus1Type DEF Tick, TypeOK
<1>4. \A p \in Procs : /\ busy[p] \in Nat
                       /\ pc[p] # "idle" => busy'[p] = busy[p] + 1
  BY <1>a DEF Tick, TypeOK
<1>5. GlobalHeld'
  <2> SUFFICES ASSUME NEW p \in Procs, pc[p] # "idle"
               PROVE  gkey'[fp[p]] + busy'[p] >= Cooldown
    BY <1>1 DEF GlobalHeld
  <2>1. gkey[fp[p]] + busy[p] >= Cooldown /\ fp[p] \in Fps
    BY <1>a DEF IInv, Timing, GlobalHeld, TypeOK
  <2> QED
    BY <2>1, <1>2, <1>4, Minus1Type
<1>6. ChatHeld'
  <2> SUFFICES ASSUME NEW p \in Procs, pc[p] = "send"
               PROVE  ckey'[chat[p]][fp[p]] + busy'[p] >= Cooldown
    BY <1>1 DEF ChatHeld
  <2>1. /\ ckey[chat[p]][fp[p]] + busy[p] >= Cooldown
        /\ fp[p] \in Fps /\ chat[p] \in Chats
    BY <1>a DEF IInv, Timing, ChatHeld, TypeOK
  <2> QED
    BY <2>1, <1>3, <1>4, Minus1Type
<1>7. AgeKept'
  <2> SUFFICES ASSUME NEW c \in Chats, NEW f \in Fps
               PROVE  age'[c][f] + ckey'[c][f] + MaxBusy >= Cooldown
    BY DEF AgeKept
  <2>1. age[c][f] + ckey[c][f] + MaxBusy >= Cooldown
    BY DEF IInv, Timing, AgeKept
  <2> QED
    BY <2>1, <1>3, Minus1Type
<1>8. OneDispatcher'
  BY <1>1 DEF IInv, Timing, OneDispatcher
<1>9. ChatKeyLag'
  <2> SUFFICES ASSUME NEW c \in Chats, NEW f \in Fps
               PROVE  ckey'[c][f] <= gkey'[f] + MaxBusy
    BY DEF ChatKeyLag
  <2>1. ckey[c][f] <= gkey[f] + MaxBusy
    BY DEF IInv, Timing, ChatKeyLag
  <2> QED
    BY <2>1, <1>2, <1>3 DEF Minus1
<1>10. SpacedSends'
  <2> SUFFICES ASSUME NEW p \in Procs, pc[p] = "send"
               PROVE  age'[chat[p]][fp[p]] + MaxBusy >= Cooldown
    BY <1>1 DEF SpacedSends
  <2>1. /\ age[chat[p]][fp[p]] + MaxBusy >= Cooldown
        /\ fp[p] \in Fps /\ chat[p] \in Chats
    BY <1>a DEF IInv, Timing, SpacedSends, TypeOK
  <2> QED
    BY <2>1, <1>3
<1> QED
  BY <1>5, <1>6, <1>7, <1>8, <1>9, <1>10 DEF Timing
-----------------------------------------------------------------------------
\* A step that neither enters dispatch nor a send and moves no key keeps all.
LEMMA QuietStep ==
  ASSUME IInv, NEW p \in Procs,
         pc'[p] # "idle" => pc[p] # "idle" /\ fp'[p] = fp[p] /\ busy'[p] = busy[p],
         pc'[p] # "send",
         \A q \in Procs \ {p} : /\ pc'[q] = pc[q] /\ fp'[q] = fp[q]
                                /\ chat'[q] = chat[q] /\ busy'[q] = busy[q],
         UNCHANGED <<keys, age>>
  PROVE  Timing'
<1> USE DEF keys
<1>1. GlobalHeld'
  BY DEF IInv, Timing, GlobalHeld
<1>2. ChatHeld' /\ SpacedSends'
  BY DEF IInv, Timing, ChatHeld, SpacedSends
<1>3. AgeKept' /\ ChatKeyLag'
  BY DEF IInv, Timing, AgeKept, ChatKeyLag
<1>4. OneDispatcher'
  BY DEF IInv, Timing, OneDispatcher
<1> QED
  BY <1>1, <1>2, <1>3, <1>4 DEF Timing

\* Every step keeps the inductive invariant.
LEMMA Step == IInv /\ [Next]_vars => IInv'
<1> SUFFICES ASSUME IInv, [Next]_vars PROVE IInv'
  OBVIOUS
<1>a. TypeOK /\ TypeOK'
  BY TypeStep DEF IInv
<1>1. ASSUME Tick PROVE Timing'
  BY <1>1, TickStep
<1>2. ASSUME NEW p \in Procs, Dispatch(p) PROVE Timing'
  BY <1>2, DispatchStep
<1>3. ASSUME NEW p \in Procs, TakeChat(p) PROVE Timing'
  BY <1>3, TakeChatStep
<1>4. ASSUME NEW p \in Procs, SkipChat(p) PROVE Timing'
  <2>1. /\ pc' = pc /\ pc[p] = "chat" /\ UNCHANGED <<keys, fp, busy, age>>
        /\ \A q \in Procs \ {p} : chat'[q] = chat[q]
    BY <1>4, <1>a DEF SkipChat, TypeOK
  <2> QED
    BY <2>1, QuietStep
<1>5. ASSUME NEW p \in Procs, Leave(p), UNCHANGED <<keys, rows, age>> PROVE Timing'
  BY <1>5, <1>a, LeaveType, QuietStep
<1>6. ASSUME NEW p \in Procs, SendOk(p) PROVE Timing'
  <2>1. /\ pc'[p] = "persist" /\ pc[p] = "send" /\ Reaches(p)
        /\ \A q \in Procs \ {p} : pc'[q] = pc[q] /\ chat'[q] = chat[q]
        /\ UNCHANGED <<keys, rows, fp, busy>>
    BY <1>6, <1>a DEF SendOk, TypeOK
  <2> QED
    BY <2>1, ReachStep
<1>7. ASSUME NEW p \in Procs, SendFails(p) PROVE Timing'
  <2>1. /\ pc'[p] = "chat" /\ pc[p] = "send" /\ (Reaches(p) \/ UNCHANGED age)
        /\ \A q \in Procs \ {p} : pc'[q] = pc[q] /\ chat'[q] = chat[q]
        /\ UNCHANGED <<keys, rows, fp, busy>>
    BY <1>7, <1>a DEF SendFails, TypeOK
  <2> QED
    BY <2>1, ReachStep
<1>8. ASSUME NEW p \in Procs, Persist(p) PROVE Timing'
  <2>1. CASE ~Stores(p)
    BY <1>5, <1>8, <2>1 DEF Persist
  <2>2. CASE Stores(p)
    <3>1. /\ pc'[p] = "chat" /\ pc[p] = "persist" /\ UNCHANGED <<keys, fp, busy, age>>
          /\ \A q \in Procs \ {p} : pc'[q] = pc[q] /\ chat'[q] = chat[q]
      BY <1>8, <2>2, <1>a DEF Persist, TypeOK
    <3> QED
      BY <3>1, QuietStep
  <2> QED
    BY <2>1, <2>2
<1>9. ASSUME UNCHANGED vars PROVE Timing'
  BY <1>9 DEF vars, keys, IInv, Timing, GlobalHeld, ChatHeld, AgeKept, OneDispatcher,
     ChatKeyLag, SpacedSends
<1>10. Timing'
  BY <1>1, <1>2, <1>3, <1>4, <1>5, <1>6, <1>7, <1>8, <1>9
     DEF Next, Advance, EndDispatch, Crash
<1> QED
  BY <1>a, <1>10 DEF IInv

\* The keys, the running dispatches and the history agree in every state.
THEOREM Invariance == Spec => []IInv
BY InitIInv, Step, PTL DEF Spec

\* The types are right for any processes, fingerprints, chats and cooldown.
THEOREM TypeCorrect == Spec => []TypeOK
<1>1. IInv => TypeOK
  BY DEF IInv
<1> QED
  BY <1>1, Invariance, PTL

\* A chat never gets an alert again before a cooldown less a dispatch's time.
THEOREM SendsAreSpaced == Spec => []SpacedSends
<1>1. IInv => SpacedSends
  BY DEF IInv, Timing
<1> QED
  BY <1>1, Invariance, PTL

\* Two processes never dispatch the same fingerprint together, if a dispatch
\* is shorter than the cooldown.
THEOREM DispatchersExclude == Spec => []OneDispatcher
<1>1. IInv => OneDispatcher
  BY DEF IInv, Timing
<1> QED
  BY <1>1, Invariance, PTL

\* A chat's key outlives the global key by at most a dispatch's time.
THEOREM ChatKeyLagBound == Spec => []ChatKeyLag
<1>1. IInv => ChatKeyLag
  BY DEF IInv, Timing
<1> QED
  BY <1>1, Invariance, PTL
=============================================================================
