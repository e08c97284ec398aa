-------------------------- MODULE WebsocketsProofs ---------------------------
(***************************************************************************)
(* Websockets, for any set of clients and any capacity: Broadcast never    *)
(* meets a closed channel, and what a client is handed has no gap.         *)
(***************************************************************************)
EXTENDS Websockets, TLAPS

Phase == {"none", "start", "list", "write", "loop", "done"}

(***************************************************************************)
(* NoSendOnClosed is not inductive: that a closed channel does not come    *)
(* back needs that only sendLoop's first step registers one, and that by   *)
(* then no Broadcast has seen it.                                          *)
(***************************************************************************)
ListenerInv ==
    /\ listeners \subseteq Client
    /\ snd \in [Client -> Phase]
    /\ closed \in [Client -> BOOLEAN]
    /\ NoSendOnClosed
    /\ ListenersServed
    /\ \A c \in Client : closed[c] => snd[c] \notin {"none", "start"}

\* sendLoop removes its listener as it ends.
LEMMA SendEndsPreserves ==
    ASSUME ListenerInv, NEW c \in Client, SendEnds(c), snd[c] \notin {"none", "start"}
    PROVE  ListenerInv'
BY DEF SendEnds, ListenerInv, NoSendOnClosed, ListenersServed, Phase

\* Every step preserves the invariant.
LEMMA NextListenerInv == ListenerInv /\ [Next]_vars => ListenerInv'
<1>. SUFFICES ASSUME ListenerInv, [Next]_vars PROVE ListenerInv'
  OBVIOUS
<1>. USE DEF ListenerInv, NoSendOnClosed, ListenersServed, Phase
<1>1. CASE UNCHANGED vars
  BY <1>1 DEF vars, chans, loops
<1>2. CASE Broadcast
  <2> DEFINE over == {c \in listeners : Full(c)}
  <2>1. /\ listeners' = listeners \ over /\ snd' = snd
        /\ closed' = [c \in Client |-> closed[c] \/ c \in over]
    BY <1>2 DEF Broadcast, loops
  <2>2. \A c \in over : c \in listeners
    OBVIOUS
  <2>. HIDE DEF over
  <2>3. \A c \in Client : closed'[c] <=> closed[c] \/ c \in over
    BY <2>1
  <2>4. closed' \in [Client -> BOOLEAN]
    BY <2>1, Zenon
  <2>. QED  BY <2>1, <2>2, <2>3, <2>4
<1>3. ASSUME NEW c \in Client, Connect(c) PROVE ListenerInv'
  BY <1>3 DEF Connect, chans
<1>4. ASSUME NEW c \in Client, sendLoop(c) PROVE ListenerInv'
  <2>1. CASE Register(c)
    BY <2>1 DEF Register
  <2>2. CASE List(c)
    BY <2>2, SendEndsPreserves DEF List, chans
  <2>3. CASE Write(c)
    BY <2>3, SendEndsPreserves DEF Write, chans
  <2>4. CASE Loop(c)
    BY <2>4, SendEndsPreserves DEF Loop
  <2>. QED  BY <1>4, <2>1, <2>2, <2>3, <2>4 DEF sendLoop
<1>5. ASSUME NEW c \in Client, drainLoop(c) \/ Close(c) PROVE ListenerInv'
  BY <1>5 DEF drainLoop, Close, chans, loops
<1>6. ASSUME NEW c \in Client, ClientRead(c) \/ ClientLeave(c) PROVE ListenerInv'
  BY <1>6 DEF ClientRead, ClientLeave, chans, loops
<1>. QED  BY <1>1, <1>2, <1>3, <1>4, <1>5, <1>6 DEF Next

\* The invariant of the listener map.
THEOREM ListenerInvariance == Spec => []ListenerInv
<1>1. Init => ListenerInv
  BY DEF Init, ListenerInv, NoSendOnClosed, ListenersServed, Phase
<1>. QED  BY <1>1, NextListenerInv, PTL DEF Spec

\* Broadcast neither sends on a closed channel nor closes one twice.
THEOREM BroadcastSafe == Spec => []NoSendOnClosed
<1>1. ListenerInv => NoSendOnClosed
  BY DEF ListenerInv
<1>. QED  BY <1>1, ListenerInvariance, PTL

\* Every listener in the map has a sendLoop that drains it.
THEOREM NoDeadListener == Spec => []ListenersServed
<1>1. ListenerInv => ListenersServed
  BY DEF ListenerInv
<1>. QED  BY <1>1, ListenerInvariance, PTL

-----------------------------------------------------------------------------
(***************************************************************************)
(* The messages on their way to a client, piece by piece: in its           *)
(* connection, in the hand of its sendLoop and in its channel, each        *)
(* following the piece before it.  Tip is the last one past the channel;   *)
(* while the channel is empty it is as new as what was broadcast last.     *)
(***************************************************************************)
Msg == [v : Int, kind : {"none", "list", "news"}]

Follows(m, n) == m.kind = "news" => n = News(m.v + 1)
Chain(s) == \A i \in 1..(Len(s) - 1) : Follows(s[i], s[i + 1])

Arrived(c) == IF sock[c] = <<>> THEN view[c] ELSE sock[c][Len(sock[c])]
Tip(c) == IF snd[c] = "write" THEN hand[c] ELSE Arrived(c)

PipeType ==
    /\ sent \in Int
    /\ view \in [Client -> Msg] /\ hand \in [Client -> Msg]
    /\ sock \in [Client -> Seq(Msg)] /\ ch \in [Client -> Seq(Msg)]

\* A client is handed nothing before the list, and has no channel before it is registered.
EarlyInv(c) ==
    /\ snd[c] \in {"none", "start", "list"} => sock[c] = <<>> /\ view[c] = Nothing
    /\ snd[c] \in {"none", "start"} => ch[c] = <<>>

OrderInv(c) ==
    /\ Chain(sock[c]) /\ Chain(ch[c])
    /\ sock[c] # <<>> => Follows(view[c], sock[c][1])
    /\ snd[c] = "write" => Follows(Arrived(c), hand[c])
    /\ ch[c] # <<>> /\ snd[c] # "done" => Follows(Tip(c), ch[c][1])
    /\ \A i \in 1..Len(ch[c]) : ch[c][i].kind = "news"

RecentInv(c) ==
    c \in listeners =>
       /\ ch[c] # <<>> => ch[c][Len(ch[c])].v = sent
       /\ ch[c] = <<>> => /\ Tip(c).kind = "news" => Tip(c).v = sent
                          /\ snd[c] # "list" => Tip(c).v = sent

ClientInv(c) == EarlyInv(c) /\ OrderInv(c) /\ RecentInv(c)
PipeInv == PipeType /\ \A c \in Client : ClientInv(c)

\* A message joins a chain that it follows.
LEMMA ChainGrows ==
    ASSUME NEW s \in Seq(Msg), NEW m \in Msg, Chain(s), s # <<>> => Follows(s[Len(s)], m)
    PROVE  /\ Append(s, m) \in Seq(Msg) /\ Chain(Append(s, m)) /\ Append(s, m) # <<>>
           /\ Append(s, m)[Len(Append(s, m))] = m
           /\ Append(s, m)[1] = IF s = <<>> THEN m ELSE s[1]
           /\ \A i \in 1..Len(Append(s, m)) : Append(s, m)[i] = m \/ \E k \in 1..Len(s) : Append(s, m)[i] = s[k]
<1> DEFINE t == Append(s, m)
<1>1. t \in Seq(Msg) /\ Len(t) = Len(s) + 1 /\ t[Len(s) + 1] = m /\ \A i \in 1..Len(s) : t[i] = s[i]
  OBVIOUS
<1>2. s # <<>> <=> Len(s) > 0
  OBVIOUS
<1>. HIDE DEF t
<1>3. Chain(t)
  BY <1>1, <1>2 DEF Chain
<1>4. t # <<>> /\ t[Len(t)] = m /\ t[1] = IF s = <<>> THEN m ELSE s[1]
  BY <1>1, <1>2
<1>5. \A i \in 1..Len(t) : t[i] = m \/ \E k \in 1..Len(s) : t[i] = s[k]
  BY <1>1
<1>. QED  BY <1>1, <1>3, <1>4, <1>5 DEF t

\* The first message leaves a chain, and the next one follows it.
LEMMA ChainShrinks ==
    ASSUME NEW s \in Seq(Msg), s # <<>>, Chain(s)
    PROVE  /\ Tail(s) \in Seq(Msg) /\ Chain(Tail(s)) /\ Head(s) = s[1] /\ Head(s) \in Msg
           /\ Tail(s) # <<>> => /\ Follows(s[1], Tail(s)[1])
                                /\ Tail(s)[Len(Tail(s))] = s[Len(s)]
           /\ Tail(s) = <<>> => s[Len(s)] = s[1]
           /\ \A i \in 1..Len(Tail(s)) : \E k \in 1..Len(s) : Tail(s)[i] = s[k]
<1> DEFINE t == Tail(s)
<1>1. t \in Seq(Msg) /\ Len(t) = Len(s) - 1 /\ \A i \in 1..Len(t) : t[i] = s[i + 1]
  OBVIOUS
<1>2. Head(s) = s[1] /\ s[1] \in Msg /\ Len(s) \in Nat \ {0}
  OBVIOUS
<1>. HIDE DEF t
<1>3. t # <<>> <=> Len(t) > 0
  BY <1>1
<1>4. Chain(t)
  BY <1>1, <1>2 DEF Chain
<1>5. t # <<>> => Follows(s[1], t[1]) /\ t[Len(t)] = s[Len(s)]
  BY <1>1, <1>2, <1>3 DEF Chain
<1>6. t = <<>> => s[Len(s)] = s[1]
  BY <1>1, <1>2, <1>3
<1>7. \A i \in 1..Len(t) : \E k \in 1..Len(s) : t[i] = s[k]
  BY <1>1, <1>2
<1>. QED  BY <1>1, <1>2, <1>4, <1>5, <1>6, <1>7 DEF t

\* A client for which nothing changes, but that it may leave the map.
LEMMA ClientUntouched ==
    ASSUME NEW c \in Client, ClientInv(c),
           view'[c] = view[c], sock'[c] = sock[c], ch'[c] = ch[c], hand'[c] = hand[c],
           snd'[c] = snd[c], c \in listeners' => c \in listeners,
           sent' = sent
    PROVE  ClientInv(c)'
BY DEF ClientInv, EarlyInv, OrderInv, RecentInv, Tip, Arrived

\* The others, at a step of one client.
LEMMA OthersUntouched ==
    ASSUME PipeInv, PipeType', NEW c \in Client, UNCHANGED sent,
           \A d \in Client \ {c} :
              /\ view'[d] = view[d] /\ sock'[d] = sock[d] /\ ch'[d] = ch[d]
              /\ hand'[d] = hand[d] /\ snd'[d] = snd[d]
              /\ d \in listeners' => d \in listeners,
           ClientInv(c)'
    PROVE  PipeInv'
<1>1. \A d \in Client \ {c} : ClientInv(d)'
  BY ClientUntouched DEF PipeInv
<1>. QED  BY <1>1 DEF PipeInv

\* sendLoop ends: what it had in hand and in the channel is not sent any more.
LEMMA SendEndsPipe ==
    ASSUME PipeInv, NEW c \in Client, snd \in [Client -> Phase], SendEnds(c)
    PROVE  PipeInv'
<1>1. /\ UNCHANGED <<sent, ch, hand, sock, view>> /\ listeners' = listeners \ {c}
      /\ snd' = [snd EXCEPT ![c] = "done"]
  BY DEF SendEnds, wire
<1>2. PipeType'
  BY <1>1 DEF PipeInv, PipeType
<1>3. ClientInv(c)'
  BY <1>1 DEF PipeInv, ClientInv, EarlyInv, OrderInv, RecentInv, Arrived
<1>. QED  BY <1>1, <1>2, <1>3, OthersUntouched

\* A message is broadcast.
LEMMA PublisherPipe ==
    ASSUME PipeInv, ListenerInv, Broadcast
    PROVE  PipeInv'
<1>1. UNCHANGED <<view, sock, hand, snd>>
  BY DEF Broadcast, loops, wire
<1> DEFINE over == {c \in listeners : Full(c)}
<1>2. /\ sent' = sent + 1 /\ listeners' = listeners \ over
      /\ ch' = [c \in Client |-> IF c \in listeners \ over THEN Append(ch[c], News(sent')) ELSE ch[c]]
      /\ sent \in Int
  BY DEF Broadcast, Deliver, PipeInv, PipeType
<1>3. News(sent') \in Msg /\ News(sent').kind = "news" /\ News(sent').v = sent'
  BY <1>2 DEF Msg, News
<1>. HIDE DEF over
<1>4. ASSUME NEW c \in listeners \ over, c \in Client
      PROVE  ch'[c] \in Seq(Msg) /\ ClientInv(c)'
  <2>1. ch'[c] = Append(ch[c], News(sent')) /\ ch[c] \in Seq(Msg)
    BY <1>2, <1>4 DEF PipeInv, PipeType
  <2>2. EarlyInv(c) /\ OrderInv(c) /\ RecentInv(c)
    BY <1>4 DEF PipeInv, ClientInv
  <2>3. ch[c] # <<>> => Follows(ch[c][Len(ch[c])], News(sent'))
    BY <1>2, <2>2 DEF RecentInv, Follows
  <2>4. /\ ch'[c] \in Seq(Msg) /\ Chain(ch'[c]) /\ ch'[c] # <<>>
        /\ ch'[c][Len(ch'[c])] = News(sent')
        /\ ch'[c][1] = IF ch[c] = <<>> THEN News(sent') ELSE ch[c][1]
        /\ \A i \in 1..Len(ch'[c]) : ch'[c][i].kind = "news"
    <3>1. Chain(ch[c]) /\ \A i \in 1..Len(ch[c]) : ch[c][i].kind = "news"
      BY <2>2 DEF OrderInv
    <3>. QED  BY <1>3, <2>1, <2>3, <3>1, ChainGrows
  <2>5. snd[c] \in {"list", "write", "loop"}
    BY <1>4 DEF ListenerInv, ListenersServed
  <2>6. ch[c] = <<>> => Follows(Tip(c), News(sent'))
    BY <1>2, <2>2 DEF RecentInv, Follows
  <2>7. EarlyInv(c)'
    BY <1>1, <2>2, <2>5 DEF EarlyInv
  <2>8. OrderInv(c)'
    BY <1>1, <2>2, <2>4, <2>5, <2>6 DEF OrderInv, Tip, Arrived
  <2>9. RecentInv(c)'
    BY <1>2, <1>3, <2>4 DEF RecentInv
  <2>. QED  BY <2>4, <2>7, <2>8, <2>9 DEF ClientInv
<1>5. ASSUME NEW c \in Client, c \notin listeners \ over
      PROVE  ch'[c] \in Seq(Msg) /\ ClientInv(c)'
  <2>1. ch'[c] = ch[c] /\ ch[c] \in Seq(Msg) /\ c \notin listeners'
    BY <1>2, <1>5 DEF PipeInv, PipeType
  <2>. QED  BY <1>1, <2>1 DEF PipeInv, ClientInv, EarlyInv, OrderInv, RecentInv, Tip, Arrived
<1>6. PipeType'
  <2>1. ch' \in [Client -> Seq(Msg)]
    <3>1. \A c \in Client : ch'[c] \in Seq(Msg)
      BY <1>4, <1>5
    <3>. QED  BY <1>2, <3>1
  <2>. QED  BY <1>1, <1>2, <2>1 DEF PipeInv, PipeType
<1>. QED  BY <1>4, <1>5, <1>6 DEF PipeInv

\* The connection begins: nothing is handed out yet.
LEMMA ConnectPipe ==
    ASSUME PipeInv, ListenerInv, NEW c \in Client, Connect(c) \/ Register(c)
    PROVE  PipeInv'
<1>1. /\ UNCHANGED <<sent, ch, hand, sock, view>> /\ listeners' \in {listeners, listeners \cup {c}}
      /\ snd[c] \in {"none", "start"} /\ snd'[c] \in {"start", "list"}
      /\ snd'[c] # "list" => listeners' = listeners
      /\ snd[c] = "none" => snd'[c] = "start"
      /\ \A d \in Client \ {c} : snd'[d] = snd[d]
  BY DEF Connect, Register, chans, wire, ListenerInv
<1>2. PipeType'
  BY <1>1 DEF PipeInv, PipeType
<1>3. c \notin listeners
  BY <1>1 DEF ListenerInv, ListenersServed
<1>4. ClientInv(c)'
  <2>1. EarlyInv(c) /\ OrderInv(c)
    BY DEF PipeInv, ClientInv
  <2>2. ch[c] = <<>> /\ sock[c] = <<>> /\ view[c] = Nothing
    BY ONLY <1>1, <2>1 DEF EarlyInv
  <2>3. EarlyInv(c)'
    BY ONLY <1>1, <2>2 DEF EarlyInv
  <2>4. OrderInv(c)'
    BY ONLY <1>1, <2>1, <2>2 DEF OrderInv
  <2>5. Tip(c)' = Nothing
    BY ONLY <1>1, <2>2 DEF Tip, Arrived
  <2>6. RecentInv(c)'
    BY ONLY <1>1, <1>3, <2>2, <2>5 DEF RecentInv, Nothing
  <2>. QED  BY <2>3, <2>4, <2>6 DEF ClientInv
<1>. QED  BY <1>1, <1>2, <1>4, OthersUntouched

\* onWebsocket: the list is as new as the last message broadcast.
LEMMA ListPipe ==
    ASSUME PipeInv, ListenerInv, NEW c \in Client, List(c)
    PROVE  PipeInv'
<1>1. CASE SendEnds(c)
  BY <1>1, SendEndsPipe DEF ListenerInv
<1>2. CASE ~SendEnds(c)
  <2>1. /\ snd[c] = "list" /\ hand' = [hand EXCEPT ![c] = Listed(sent)]
        /\ snd' = [snd EXCEPT ![c] = "write"] /\ UNCHANGED <<sent, listeners, ch, sock, view>>
    BY <1>2 DEF List, chans, wire
  <2>2. Listed(sent) \in Msg /\ Listed(sent).kind = "list" /\ Listed(sent).v = sent
    BY DEF Listed, Msg, PipeInv, PipeType
  <2>3. PipeType'
    BY <2>1, <2>2 DEF PipeInv, PipeType
  <2>4. /\ snd'[c] = "write" /\ hand'[c] = Listed(sent)
        /\ \A d \in Client \ {c} : snd'[d] = snd[d] /\ hand'[d] = hand[d]
    BY <2>1 DEF ListenerInv, PipeInv, PipeType
  <2>5. EarlyInv(c) /\ OrderInv(c) /\ RecentInv(c)
    BY DEF PipeInv, ClientInv
  <2>6. sock[c] = <<>> /\ view[c] = Nothing /\ Arrived(c)' = Nothing /\ Tip(c)' = Listed(sent)
    BY <2>1, <2>4, <2>5 DEF EarlyInv, Arrived, Tip
  <2>7. ClientInv(c)'
    <3>1. EarlyInv(c)'
      BY ONLY <2>4 DEF EarlyInv
    <3>2. OrderInv(c)'
      BY ONLY <2>1, <2>2, <2>4, <2>5, <2>6 DEF OrderInv, Follows, Nothing
    <3>3. RecentInv(c)'
      BY ONLY <2>1, <2>2, <2>4, <2>5, <2>6 DEF RecentInv
    <3>. QED  BY <3>1, <3>2, <3>3 DEF ClientInv
  <2>. QED  BY <2>1, <2>3, <2>4, <2>7, OthersUntouched
<1>. QED  BY <1>1, <1>2

\* WriteJSON: the message in hand goes to the end of the connection.
LEMMA WritePipe ==
    ASSUME PipeInv, ListenerInv, NEW c \in Client, Write(c)
    PROVE  PipeInv'
<1>1. CASE SendEnds(c)
  BY <1>1, SendEndsPipe DEF ListenerInv
<1>2. CASE ~SendEnds(c)
  <2>1. /\ snd[c] = "write" /\ sock' = [sock EXCEPT ![c] = Append(@, hand[c])]
        /\ snd' = [snd EXCEPT ![c] = "loop"] /\ UNCHANGED <<sent, listeners, ch, hand, view>>
    BY <1>2 DEF Write, chans
  <2>2. sock[c] \in Seq(Msg) /\ hand[c] \in Msg
    BY DEF PipeInv, PipeType
  <2>3. EarlyInv(c) /\ OrderInv(c) /\ RecentInv(c)
    BY DEF PipeInv, ClientInv
  <2>4. /\ snd'[c] = "loop" /\ sock'[c] = Append(sock[c], hand[c])
        /\ \A d \in Client \ {c} : snd'[d] = snd[d] /\ sock'[d] = sock[d]
    BY <2>1 DEF ListenerInv, PipeInv, PipeType
  <2>5. /\ sock'[c] \in Seq(Msg) /\ Chain(sock'[c]) /\ sock'[c] # <<>>
        /\ sock'[c][Len(sock'[c])] = hand[c]
        /\ sock'[c][1] = IF sock[c] = <<>> THEN hand[c] ELSE sock[c][1]
    <3>1. Chain(sock[c]) /\ (sock[c] # <<>> => Follows(sock[c][Len(sock[c])], hand[c]))
      BY <2>1, <2>3 DEF OrderInv, Arrived
    <3>. QED  BY <2>2, <2>4, <3>1, ChainGrows
  <2>6. PipeType'
    BY <2>1, <2>4, <2>5 DEF PipeInv, PipeType
  <2>7. Tip(c) = hand[c] /\ Tip(c)' = hand[c]
    BY <2>1, <2>4, <2>5 DEF Tip, Arrived
  <2>8. ClientInv(c)'
    <3>1. EarlyInv(c)'
      BY <2>4 DEF EarlyInv
    <3>2. OrderInv(c)'
      BY <2>1, <2>3, <2>4, <2>5, <2>7 DEF OrderInv, Arrived
    <3>3. RecentInv(c)'
      BY <2>1, <2>3, <2>4, <2>7 DEF RecentInv
    <3>. QED  BY <3>1, <3>2, <3>3 DEF ClientInv
  <2>. QED  BY <2>1, <2>4, <2>6, <2>8, OthersUntouched
<1>. QED  BY <1>1, <1>2

\* The select: the first message of the channel comes into hand.
LEMMA LoopPipe ==
    ASSUME PipeInv, ListenerInv, NEW c \in Client, Loop(c)
    PROVE  PipeInv'
<1>1. CASE SendEnds(c)
  BY <1>1, SendEndsPipe DEF ListenerInv
<1>2. CASE ~SendEnds(c)
  <2>1. /\ snd[c] = "loop" /\ ch[c] # <<>> /\ hand' = [hand EXCEPT ![c] = Head(ch[c])]
        /\ ch' = [ch EXCEPT ![c] = Tail(@)]
        /\ snd' = [snd EXCEPT ![c] = "write"] /\ UNCHANGED <<sent, listeners, sock, view>>
    BY <1>2 DEF Loop, wire
  <2>2. ch[c] \in Seq(Msg)
    BY DEF PipeInv, PipeType
  <2>3. EarlyInv(c) /\ OrderInv(c) /\ RecentInv(c)
    BY DEF PipeInv, ClientInv
  <2>4. /\ snd'[c] = "write" /\ ch'[c] = Tail(ch[c]) /\ hand'[c] = Head(ch[c])
        /\ \A d \in Client \ {c} : snd'[d] = snd[d] /\ ch'[d] = ch[d] /\ hand'[d] = hand[d]
    BY <2>1 DEF ListenerInv, PipeInv, PipeType
  <2>5. /\ ch'[c] \in Seq(Msg) /\ Chain(ch'[c]) /\ hand'[c] = ch[c][1] /\ hand'[c] \in Msg
        /\ ch'[c] # <<>> => /\ Follows(hand'[c], ch'[c][1])
                            /\ ch'[c][Len(ch'[c])] = ch[c][Len(ch[c])]
        /\ ch'[c] = <<>> => ch[c][Len(ch[c])] = hand'[c]
        /\ \A i \in 1..Len(ch'[c]) : ch'[c][i].kind = "news"
    <3>1. Chain(ch[c]) /\ \A i \in 1..Len(ch[c]) : ch[c][i].kind = "news"
      BY <2>3 DEF OrderInv
    <3> DEFINE t == Tail(ch[c])
    <3>2. /\ t \in Seq(Msg) /\ Chain(t) /\ Head(ch[c]) = ch[c][1] /\ Head(ch[c]) \in Msg
          /\ t # <<>> => Follows(ch[c][1], t[1]) /\ t[Len(t)] = ch[c][Len(ch[c])]
          /\ t = <<>> => ch[c][Len(ch[c])] = ch[c][1]
          /\ \A i \in 1..Len(t) : \E k \in 1..Len(ch[c]) : t[i] = ch[c][k]
      BY <2>1, <2>2, <3>1, ChainShrinks
    <3>. HIDE DEF t
    <3>3. \A i \in 1..Len(t) : t[i].kind = "news"
      BY <3>1, <3>2
    <3>4. ch'[c] = t
      BY <2>4 DEF t
    <3>. QED  BY <2>4, <3>2, <3>3, <3>4
  <2>6. PipeType'
    BY <2>1, <2>4, <2>5 DEF PipeInv, PipeType
  <2>7. Tip(c) = Arrived(c) /\ Arrived(c)' = Arrived(c) /\ Tip(c)' = hand'[c]
    BY <2>1, <2>4 DEF Tip, Arrived
  <2>8. ClientInv(c)'
    <3>1. EarlyInv(c)'
      BY <2>4 DEF EarlyInv
    <3>2. OrderInv(c)'
      BY <2>1, <2>3, <2>4, <2>5, <2>7 DEF OrderInv
    <3>3. RecentInv(c)'
      BY <2>1, <2>3, <2>4, <2>5, <2>7 DEF RecentInv
    <3>. QED  BY <3>1, <3>2, <3>3 DEF ClientInv
  <2>. QED  BY <2>1, <2>4, <2>6, <2>8, OthersUntouched
<1>. QED  BY <1>1, <1>2

\* The client reads the first message of the connection.
LEMMA ReadPipe ==
    ASSUME PipeInv, NEW c \in Client, ClientRead(c)
    PROVE  PipeInv'
<1>1. /\ sock[c] # <<>> /\ view' = [view EXCEPT ![c] = Head(sock[c])]
      /\ sock' = [sock EXCEPT ![c] = Tail(@)] /\ UNCHANGED <<sent, listeners, ch, snd, hand>>
  BY DEF ClientRead, chans, loops
<1>2. sock[c] \in Seq(Msg)
  BY DEF PipeInv, PipeType
<1>3. EarlyInv(c) /\ OrderInv(c) /\ RecentInv(c)
  BY DEF PipeInv, ClientInv
<1>4. /\ view'[c] = Head(sock[c]) /\ sock'[c] = Tail(sock[c])
      /\ \A d \in Client \ {c} : view'[d] = view[d] /\ sock'[d] = sock[d]
  BY <1>1 DEF PipeInv, PipeType
<1>5. /\ sock'[c] \in Seq(Msg) /\ Chain(sock'[c]) /\ view'[c] = sock[c][1] /\ view'[c] \in Msg
      /\ sock'[c] # <<>> => /\ Follows(view'[c], sock'[c][1])
                            /\ sock'[c][Len(sock'[c])] = sock[c][Len(sock[c])]
      /\ sock'[c] = <<>> => sock[c][Len(sock[c])] = view'[c]
  <2>1. Chain(sock[c])
    BY <1>3 DEF OrderInv
  <2>. QED  BY <1>1, <1>2, <1>4, <2>1, ChainShrinks
<1>6. PipeType'
  BY <1>1, <1>4, <1>5 DEF PipeInv, PipeType
<1>7. Arrived(c)' = Arrived(c) /\ Tip(c)' = Tip(c)
  BY <1>1, <1>5 DEF Tip, Arrived
<1>8. ClientInv(c)'
  <2>1. EarlyInv(c)'
    BY <1>1, <1>3 DEF EarlyInv
  <2>2. OrderInv(c)'
    BY <1>1, <1>3, <1>5, <1>7 DEF OrderInv
  <2>3. RecentInv(c)'
    BY <1>1, <1>3, <1>7 DEF RecentInv
  <2>. QED  BY <2>1, <2>2, <2>3 DEF ClientInv
<1>. QED  BY <1>1, <1>4, <1>6, <1>8, OthersUntouched

\* The pieces follow one another, and the last is as new as the last broadcast.
THEOREM PipeInvariance == Spec => []PipeInv
<1>1. Init => PipeInv
  <2>. SUFFICES ASSUME Init PROVE PipeInv
    OBVIOUS
  <2>1. PipeType
    BY DEF Init, PipeType, Msg, Nothing
  <2>2. \A c \in Client : /\ view[c] = Nothing /\ sock[c] = <<>> /\ ch[c] = <<>>
                          /\ snd[c] = "none" /\ c \notin listeners
    BY DEF Init
  <2>. QED  BY <2>1, <2>2 DEF PipeInv, ClientInv, EarlyInv, OrderInv, RecentInv, Chain
<1>2. ListenerInv /\ PipeInv /\ [Next]_vars => PipeInv'
  <2>. SUFFICES ASSUME ListenerInv, PipeInv, [Next]_vars PROVE PipeInv'
    OBVIOUS
  <2>1. CASE Broadcast
    BY <2>1, PublisherPipe
  <2>2. ASSUME NEW c \in Client, Connect(c) \/ sendLoop(c)
        PROVE  PipeInv'
    BY <2>2, ConnectPipe, ListPipe, WritePipe, LoopPipe DEF sendLoop
  <2>3. ASSUME NEW c \in Client, ClientRead(c)
        PROVE  PipeInv'
    BY <2>3, ReadPipe
  <2>4. ASSUME UNCHANGED <<sent, listeners, ch, hand, snd, sock, view>>
        PROVE  PipeInv'
    <3>1. PipeType'
      BY <2>4 DEF PipeInv, PipeType
    <3>. QED  BY <2>4, <3>1, ClientUntouched DEF PipeInv
  <2>5. ASSUME NEW c \in Client, drainLoop(c) \/ Close(c) \/ ClientLeave(c)
        PROVE  PipeInv'
    BY <2>4, <2>5 DEF drainLoop, Close, ClientLeave, chans, loops, wire
  <2>6. CASE UNCHANGED vars
    BY <2>4, <2>6 DEF vars, chans, loops, wire
  <2>. QED  BY <2>1, <2>2, <2>3, <2>5, <2>6 DEF Next
<1>. QED  BY <1>1, <1>2, ListenerInvariance, PTL DEF Spec

\* A connected client that has read everything has the latest message or a list
\* taken after it (sendLoop registers the listener before it takes the list).
THEOREM AlwaysUpToDate == Spec => []UpToDate
<1>1. PipeInv => UpToDate
  BY DEF PipeInv, PipeType, ClientInv, RecentInv, Tip, Arrived, UpToDate
<1>. QED  BY <1>1, PipeInvariance, PTL

\* The pieces put together are a chain.
LEMMA ChainsJoin ==
    ASSUME NEW s \in Seq(Msg), NEW t \in Seq(Msg), Chain(s), Chain(t), s # <<>>,
           t # <<>> => Follows(s[Len(s)], t[1])
    PROVE  /\ s \o t \in Seq(Msg) /\ Chain(s \o t) /\ s \o t # <<>>
           /\ (s \o t)[Len(s \o t)] = IF t = <<>> THEN s[Len(s)] ELSE t[Len(t)]
<1> DEFINE w == s \o t
<1>1. /\ w \in Seq(Msg) /\ Len(w) = Len(s) + Len(t)
      /\ \A i \in 1..Len(w) : w[i] = IF i <= Len(s) THEN s[i] ELSE t[i - Len(s)]
  OBVIOUS
<1>2. /\ Len(s) \in Nat \ {0} /\ Len(t) \in Nat /\ (t = <<>> <=> Len(t) = 0)
  OBVIOUS
<1>. HIDE DEF w
<1>3. ASSUME NEW i \in 1..(Len(w) - 1) PROVE Follows(w[i], w[i + 1])
  <2>1. CASE i < Len(s)
    BY <1>1, <1>2, <2>1 DEF Chain
  <2>2. CASE i = Len(s)
    <3>1. /\ i \in 1..Len(w) /\ i + 1 \in 1..Len(w) /\ i <= Len(s)
          /\ ~(i + 1 <= Len(s)) /\ (i + 1) - Len(s) = 1 /\ Len(t) # 0
      BY ONLY <1>1, <1>2, <2>2, i \in 1..(Len(w) - 1)
    <3>2. w[i] = s[Len(s)] /\ w[i + 1] = t[1]
      BY ONLY <1>1, <2>2, <3>1
    <3>. QED  BY <1>2, <3>1, <3>2
  <2>3. CASE i > Len(s)
    <3>1. /\ w[i] = t[i - Len(s)] /\ w[i + 1] = t[(i - Len(s)) + 1]
          /\ i - Len(s) \in 1..(Len(t) - 1)
      BY <1>1, <1>2, <2>3
    <3>. QED  BY <3>1 DEF Chain
  <2>. QED  BY <1>2, <2>1, <2>2, <2>3
<1>4. Chain(w)
  BY <1>3 DEF Chain
<1>5. w # <<>> /\ w[Len(w)] = IF t = <<>> THEN s[Len(s)] ELSE t[Len(t)]
  BY <1>1, <1>2
<1>. QED  BY <1>1, <1>4, <1>5 DEF w

\* News reaches a client without a gap, up to the last broadcast: overflow ends
\* the connection, and loses nothing (Broadcast, sendLoop).
THEOREM AlwaysGapless == Spec => []Gapless
<1>1. ASSUME PipeInv, NEW c \in Client
      PROVE  /\ Chain(Pipeline(c))
             /\ LET m == Pipeline(c)[Len(Pipeline(c))]
                IN  c \in listeners /\ m.kind = "news" => m.v = sent \/ snd[c] = "done"
  <2> DEFINE a == <<view[c]>>
             b == a \o sock[c]
             d == b \o Writing(c)
             e == d \o Queued(c)
  <2>1. /\ view[c] \in Msg /\ hand[c] \in Msg /\ sock[c] \in Seq(Msg) /\ ch[c] \in Seq(Msg)
    BY <1>1 DEF PipeInv, PipeType
  <2>2. OrderInv(c) /\ RecentInv(c)
    BY <1>1 DEF PipeInv, ClientInv
  <2>3. \A m \in Msg : <<m>> \in Seq(Msg) /\ Chain(<<m>>) /\ <<m>> # <<>> /\ Len(<<m>>) = 1 /\ <<m>>[1] = m
    BY DEF Chain
  <2>4. <<>> \in Seq(Msg) /\ Chain(<<>>)
    BY DEF Chain
  <2>5. a \in Seq(Msg) /\ Chain(a) /\ a # <<>> /\ a[Len(a)] = view[c]
    BY <2>1, <2>3
  <2>. HIDE DEF a
  <2>6. b \in Seq(Msg) /\ Chain(b) /\ b # <<>> /\ b[Len(b)] = Arrived(c)
    BY <2>1, <2>2, <2>5, ChainsJoin DEF OrderInv, Arrived
  <2>. HIDE DEF b
  <2>7. d \in Seq(Msg) /\ Chain(d) /\ d # <<>> /\ d[Len(d)] = Tip(c)
    <3>1. /\ Writing(c) \in Seq(Msg) /\ Chain(Writing(c))
          /\ Writing(c) # <<>> => Follows(Arrived(c), Writing(c)[1])
          /\ Tip(c) = IF Writing(c) = <<>> THEN Arrived(c) ELSE Writing(c)[Len(Writing(c))]
      <4>1. CASE snd[c] = "write"
        <5>1. Writing(c) = <<hand[c]>> /\ Tip(c) = hand[c] /\ Follows(Arrived(c), hand[c])
          BY <2>2, <4>1 DEF Writing, Tip, OrderInv
        <5>. QED  BY <2>1, <2>3, <5>1
      <4>2. CASE snd[c] # "write"
        BY <2>4, <4>2 DEF Writing, Tip
      <4>. QED  BY <4>1, <4>2
    <3>. QED  BY <2>6, <3>1, ChainsJoin
  <2>. HIDE DEF d
  <2>8. /\ Chain(e)
        /\ e[Len(e)] = IF Queued(c) = <<>> THEN Tip(c) ELSE Queued(c)[Len(Queued(c))]
    <3>1. /\ Queued(c) \in Seq(Msg) /\ Chain(Queued(c))
          /\ Queued(c) # <<>> => Follows(Tip(c), Queued(c)[1])
      BY ONLY <2>1, <2>2, <2>4 DEF OrderInv, Queued
    <3>. QED  BY ONLY <2>7, <3>1, ChainsJoin
  <2>9. Pipeline(c) = e
    BY DEF e, d, b, a, Pipeline
  <2>. QED  BY <2>2, <2>8, <2>9 DEF RecentInv, Queued
<1>2. ListenerInv /\ PipeInv => Gapless
  <2>. SUFFICES ASSUME ListenerInv, PipeInv, NEW c \in Client
                PROVE  LET p == Pipeline(c) IN
                       /\ \A i \in 1..(Len(p) - 1) : p[i].kind = "news" => p[i + 1] = News(p[i].v + 1)
                       /\ c \in listeners /\ p[Len(p)].kind = "news" => p[Len(p)].v = sent
    BY DEF Gapless
  <2>1. c \in listeners => snd[c] # "done"
    BY DEF ListenerInv, ListenersServed
  <2>. QED  BY <1>1, <2>1 DEF Chain, Follows
<1>. QED  BY <1>2, ListenerInvariance, PipeInvariance, PTL

-----------------------------------------------------------------------------
(***************************************************************************)
(* The end of a connection: what LeaverUnregistered rests on.              *)
(***************************************************************************)
EndType ==
    /\ drain \in [Client -> {"none", "reading", "done"}]
    /\ ctx \in [Client -> BOOLEAN] /\ connClosed \in [Client -> BOOLEAN]

\* A loop that has ended has cancelled the errgroup's context, which closes the
\* connection under the other loop; nothing else closes it; and both loops
\* start together.
LoopsEndTogether ==
    \A c \in Client :
       /\ snd[c] = "done" \/ drain[c] = "done" => ctx[c]
       /\ connClosed[c] => ctx[c]
       /\ snd[c] = "none" <=> drain[c] = "none"
       /\ ctx[c] => snd[c] = "done" \/ drain[c] = "done"

\* Every step preserves that.
LEMMA NextEnds ==
    ASSUME ListenerInv, EndType, LoopsEndTogether, [Next]_vars
    PROVE  EndType' /\ LoopsEndTogether'
<1>. USE DEF EndType, LoopsEndTogether, ListenerInv, Phase
<1>1. CASE Broadcast \/ UNCHANGED vars
  BY <1>1 DEF Broadcast, vars, loops, wire
<1>2. ASSUME NEW c \in Client, SendEnds(c), snd[c] \notin {"none", "done"}
      PROVE  EndType' /\ LoopsEndTogether'
  BY <1>2 DEF SendEnds, wire
<1>3. ASSUME NEW c \in Client, Connect(c) \/ Register(c)
      PROVE  EndType' /\ LoopsEndTogether'
  BY <1>3 DEF Connect, Register, wire
<1>4. ASSUME NEW c \in Client, List(c) \/ Write(c) \/ Loop(c)
      PROVE  EndType' /\ LoopsEndTogether'
  <2>1. CASE SendEnds(c)
    BY <1>2, <1>4, <2>1 DEF List, Write, Loop
  <2>2. CASE ~SendEnds(c)
    <3>1. /\ snd[c] \in {"list", "write", "loop"} /\ UNCHANGED <<drain, ctx, connClosed>>
          /\ \/ snd' = [snd EXCEPT ![c] = "write"]
             \/ snd' = [snd EXCEPT ![c] = "loop"]
      BY <1>4, <2>2 DEF List, Write, Loop, wire
    <3>. QED  BY <3>1
  <2>. QED  BY <2>1, <2>2
<1>5. ASSUME NEW c \in Client, drainLoop(c) PROVE EndType' /\ LoopsEndTogether'
  BY <1>5 DEF drainLoop, wire
<1>7. ASSUME NEW c \in Client, Close(c) PROVE EndType' /\ LoopsEndTogether'
  <2>1. EndType'
    BY <1>7, Zenon DEF Close, loops
  <2>2. LoopsEndTogether'
    BY <1>7 DEF Close, loops
  <2>. QED  BY <2>1, <2>2
<1>6. ASSUME NEW c \in Client, ClientRead(c) \/ ClientLeave(c)
      PROVE  EndType' /\ LoopsEndTogether'
  BY <1>6 DEF ClientRead, ClientLeave, loops
<1>. QED  BY <1>1, <1>3, <1>4, <1>5, <1>6, <1>7 DEF Next, sendLoop

\* A connection is closed only because one of its loops is over, and a loop that
\* is over has cancelled the context on which the connection is closed under the
\* other (the errgroup of ServeHTTP).
THEOREM NoLoopLeftBehind == Spec => []LoopsEndTogether
<1>1. Init => EndType /\ LoopsEndTogether
  BY DEF Init, EndType, LoopsEndTogether
<1>. QED  BY <1>1, NextEnds, ListenerInvariance, PTL DEF Spec

=============================================================================
