----------------------------- MODULE Websockets ------------------------------
(***************************************************************************)
(* The websocket fan-out of channel status (web/ws.go, web/events.go).     *)
(* Per client three goroutines share a connection: sendLoop, drainLoop and *)
(* the one that closes the connection when either has ended.  Broadcast    *)
(* hands every listener the new status without waiting for it.             *)
(*                                                                         *)
(* The messages are numbered in the order in which Broadcast's mutex takes *)
(* them, whatever sessions they come from; a list carries the number of    *)
(* the last one before it.  What a message says of the channel, and that   *)
(* notices of overlapping sessions may cross, is the matter of LiveStatus. *)
(***************************************************************************)
EXTENDS Integers, Sequences

CONSTANTS Client,
          ChCap,       \* messages a listener's channel holds: 10 in the code
          SockCap,     \* messages in flight to a client that does not read
          MaxVersion   \* broadcasts explored

ASSUME WsAssumption ==
    ChCap \in Nat \ {0} /\ SockCap \in Nat \ {0} /\ MaxVersion \in Nat

VARIABLES
    sent,            \* the message broadcast last
    listeners,       \* websockets.listeners
    ch, closed,      \* a listener's channel, and whether Broadcast closed it
    snd, drain,      \* sendLoop and drainLoop
    hand,            \* the message sendLoop is writing
    ctx,             \* the errgroup's context is cancelled
    connClosed,
    sock,            \* messages written and not yet read
    view,            \* the last message the client read
    gone             \* the client went away

chans  == <<listeners, ch, closed>>
loops  == <<snd, drain, hand, ctx>>
wire   == <<connClosed, sock, view, gone>>
vars   == <<sent, chans, loops, wire>>

\* A message, from the list that a new client is sent or broadcast as news.
Nothing == [v |-> 0, kind |-> "none"]
Listed(v) == [v |-> v, kind |-> "list"]
News(v) == [v |-> v, kind |-> "news"]

Init ==
    /\ sent = 0
    /\ listeners = {}
    /\ ch = [c \in Client |-> <<>>] /\ closed = [c \in Client |-> FALSE]
    /\ snd = [c \in Client |-> "none"] /\ drain = [c \in Client |-> "none"]
    /\ hand = [c \in Client |-> Nothing]
    /\ ctx = [c \in Client |-> FALSE] /\ connClosed = [c \in Client |-> FALSE]
    /\ sock = [c \in Client |-> <<>>]
    /\ view = [c \in Client |-> Nothing] /\ gone = [c \in Client |-> FALSE]

-----------------------------------------------------------------------------
(***************************************************************************)
(* The publishers: PublishEvent builds a message, and broadcasts it.       *)
(***************************************************************************)
Full(c) == Len(ch[c]) >= ChCap

Deliver(over) ==
    ch' = [c \in Client |-> IF c \in listeners \ over THEN Append(ch[c], News(sent')) ELSE ch[c]]

BroadcastLossy ==                   \* on overflow the message is dropped
    /\ sent < MaxVersion
    /\ sent' = sent + 1
    /\ Deliver({c \in listeners : Full(c)})
    /\ UNCHANGED <<listeners, closed, loops, wire>>

BroadcastKeeping ==                 \* closed, and still in the map
    LET over == {c \in listeners : Full(c)} IN
    /\ sent < MaxVersion
    /\ sent' = sent + 1
    /\ Deliver(over)
    /\ closed' = [c \in Client |-> closed[c] \/ c \in over]
    /\ UNCHANGED <<listeners, loops, wire>>

\* The whole of Broadcast holds the mutex.
Broadcast ==
    LET over == {c \in listeners : Full(c)} IN
    /\ sent < MaxVersion
    /\ sent' = sent + 1
    /\ Deliver(over)
    /\ listeners' = listeners \ over
    /\ closed' = [c \in Client |-> closed[c] \/ c \in over]
    /\ UNCHANGED <<loops, wire>>

-----------------------------------------------------------------------------
(***************************************************************************)
(* ServeHTTP and sendLoop.                                                 *)
(***************************************************************************)
Connect(c) ==
    /\ snd[c] = "none"
    /\ snd' = [snd EXCEPT ![c] = "start"]
    /\ drain' = [drain EXCEPT ![c] = "reading"]
    /\ UNCHANGED <<sent, chans, hand, ctx, wire>>

Register(c) ==
    /\ snd[c] = "start"
    /\ snd' = [snd EXCEPT ![c] = "list"]
    /\ listeners' = listeners \cup {c}
    /\ UNCHANGED <<sent, ch, closed, drain, hand, ctx, wire>>

SendEndsListening(c) ==             \* without the deferred delete
    /\ snd' = [snd EXCEPT ![c] = "done"]
    /\ ctx' = [ctx EXCEPT ![c] = TRUE]
    /\ UNCHANGED <<sent, chans, drain, hand, wire>>

\* sendLoop returns, with an error or after the context: its deferred function
\* takes the listener out of the map.
SendEnds(c) ==
    /\ snd' = [snd EXCEPT ![c] = "done"]
    /\ ctx' = [ctx EXCEPT ![c] = TRUE]
    /\ listeners' = listeners \ {c}
    /\ UNCHANGED <<sent, ch, closed, drain, hand, wire>>

\* onWebsocket: the channels as they are now are to be written; listing them
\* may fail.
List(c) ==
    /\ snd[c] = "list"
    /\ \/ /\ hand' = [hand EXCEPT ![c] = Listed(sent)]
          /\ snd' = [snd EXCEPT ![c] = "write"]
          /\ UNCHANGED <<sent, chans, drain, ctx, wire>>
       \/ SendEnds(c)

\* WriteJSON waits for room, and fails when the connection is gone.
Write(c) ==
    /\ snd[c] = "write"
    /\ \/ /\ ~connClosed[c] /\ Len(sock[c]) < SockCap
          /\ sock' = [sock EXCEPT ![c] = Append(@, hand[c])]
          /\ snd' = [snd EXCEPT ![c] = "loop"]
          /\ UNCHANGED <<sent, chans, drain, hand, ctx, connClosed, view, gone>>
       \/ (connClosed[c] \/ gone[c]) /\ SendEnds(c)

LoopDeaf(c) ==                      \* the closed channel not noticed
    /\ snd[c] = "loop"
    /\ \/ /\ ch[c] # <<>>
          /\ hand' = [hand EXCEPT ![c] = Head(ch[c])]
          /\ ch' = [ch EXCEPT ![c] = Tail(@)]
          /\ snd' = [snd EXCEPT ![c] = "write"]
          /\ UNCHANGED <<sent, listeners, closed, drain, ctx, wire>>
       \/ ctx[c] /\ SendEnds(c)

\* The select: the context is cancelled, the channel has a message, or it was
\* closed and is empty.
Loop(c) ==
    /\ snd[c] = "loop"
    /\ \/ /\ ch[c] # <<>>
          /\ hand' = [hand EXCEPT ![c] = Head(ch[c])]
          /\ ch' = [ch EXCEPT ![c] = Tail(@)]
          /\ snd' = [snd EXCEPT ![c] = "write"]
          /\ UNCHANGED <<sent, listeners, closed, drain, ctx, wire>>
       \/ ctx[c] /\ SendEnds(c)
       \/ ch[c] = <<>> /\ closed[c] /\ SendEnds(c)

sendLoopLate(c) ==                  \* the channels listed before registering
    \/ /\ snd[c] = "start"
       /\ hand' = [hand EXCEPT ![c] = Listed(sent)]
       /\ snd' = [snd EXCEPT ![c] = "list"]
       /\ UNCHANGED <<sent, chans, drain, ctx, wire>>
    \/ /\ snd[c] = "list"
       /\ listeners' = listeners \cup {c}
       /\ snd' = [snd EXCEPT ![c] = "write"]
       /\ UNCHANGED <<sent, ch, closed, drain, hand, ctx, wire>>
    \/ Write(c) \/ Loop(c)

sendLoop(c) == Register(c) \/ List(c) \/ Write(c) \/ Loop(c)

drainLoop(c) ==
    /\ drain[c] = "reading" /\ (connClosed[c] \/ gone[c])
    /\ drain' = [drain EXCEPT ![c] = "done"]
    /\ ctx' = [ctx EXCEPT ![c] = TRUE]
    /\ UNCHANGED <<sent, chans, snd, hand, wire>>

Close(c) ==
    /\ ctx[c] /\ ~connClosed[c]
    /\ connClosed' = [connClosed EXCEPT ![c] = TRUE]
    /\ UNCHANGED <<sent, chans, loops, sock, view, gone>>

-----------------------------------------------------------------------------
(***************************************************************************)
(* The client.                                                             *)
(***************************************************************************)
ClientRead(c) ==
    /\ sock[c] # <<>> /\ ~gone[c]
    /\ view' = [view EXCEPT ![c] = Head(sock[c])]
    /\ sock' = [sock EXCEPT ![c] = Tail(@)]
    /\ UNCHANGED <<sent, chans, loops, connClosed, gone>>

ClientLeave(c) ==
    /\ drain[c] = "reading" /\ ~gone[c]
    /\ gone' = [gone EXCEPT ![c] = TRUE]
    /\ UNCHANGED <<sent, chans, loops, connClosed, sock, view>>

Next ==
    \/ Broadcast
    \/ \E c \in Client : \/ Connect(c) \/ sendLoop(c) \/ drainLoop(c) \/ Close(c)
                         \/ ClientRead(c) \/ ClientLeave(c)

Spec == Init /\ [][Next]_vars

\* The goroutines of a connection run; whether its client ever reads, and whether
\* there is news, is not theirs to say.
FairSpec ==
    /\ Spec
    /\ \A c \in Client : WF_vars(sendLoop(c)) /\ WF_vars(drainLoop(c)) /\ WF_vars(Close(c))

\* Clients that stay do read what they are sent.
FairClientSpec == FairSpec /\ \A c \in Client : WF_vars(ClientRead(c))

-----------------------------------------------------------------------------
\* Broadcast never sends on a closed channel, and never closes one twice: what
\* it closed is out of the map before the next Broadcast, and cannot come back.
NoSendOnClosed == \A c \in listeners : ~closed[c]

\* The map holds no listener whose sendLoop is over: nobody would drain it.
ListenersServed == \A c \in listeners : snd[c] \in {"list", "write", "loop"}

\* What a client has been handed, from the last message it read to the last in
\* its channel.
Writing(c) == IF snd[c] = "write" THEN <<hand[c]>> ELSE <<>>
Queued(c)  == IF snd[c] = "done" THEN <<>> ELSE ch[c]
Pipeline(c) == <<view[c]>> \o sock[c] \o Writing(c) \o Queued(c)

\* A client that gets news gets all of it, in order and without a gap, up to
\* the latest broadcast: overflow ends the connection, it loses nothing.
Gapless ==
    \A c \in Client :
       LET p == Pipeline(c) IN
       /\ \A i \in 1..(Len(p) - 1) : p[i].kind = "news" => p[i + 1] = News(p[i].v + 1)
       /\ c \in listeners /\ p[Len(p)].kind = "news" => p[Len(p)].v = sent

\* A connected client that has read everything was last told the latest message
\* broadcast, or a list taken after it: the listener is registered before the
\* list is taken, so no message falls between the two.
UpToDate ==
    \A c \in Client :
       (c \in listeners /\ snd[c] = "loop" /\ ch[c] = <<>> /\ sock[c] = <<>>)
          => view[c].v = sent

\* A client that went away is taken out of the map, even if sendLoop was
\* blocked on it.
LeaverUnregistered == \A c \in Client : gone[c] ~> (snd[c] = "done" /\ c \notin listeners)

\* "on overflow force the client to reconnect": once a client's channel has
\* overflowed, its connection is closed.
OverflowReconnects == \A c \in Client : closed[c] ~> connClosed[c]

=============================================================================
