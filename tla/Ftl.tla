--------------------------------- MODULE Ftl ---------------------------------
(***************************************************************************)
(* The FTL ingest: the command loop of every TCP connection                *)
(* (ingest/ftl/ftl.go, handler.go), the goroutine that publishes its       *)
(* stream, and the one UDP loop that routes RTP packets to the streams by  *)
(* the sender's address and SSRC (ingest/ftl/rtp.go).  A connection sends  *)
(* one line at a time; what a line says is a choice from small sets.       *)
(***************************************************************************)
EXTENDS Integers, Sequences

CONSTANTS Conn,      \* TCP connections
          Addr,      \* IP addresses they and the packets come from
          Ssrc,      \* RTP stream identifiers, 0 among them
          Media,     \* the code has video and audio
          RchCap,    \* packets a receiver's channel holds
          None

ASSUME FtlAssumption ==
    /\ 0 \in Ssrc /\ Ssrc \subseteq Nat
    /\ RchCap \in Nat \ {0}
    /\ None \notin Conn

VARIABLES
    addr,        \* the address of a connection
    conn,        \* where its command loop is
    state,       \* Conn.state
    enabled, codec, payload, ssrc,      \* what was configured, per medium
    authBy,      \* the deadline for authentication has passed
    authed,      \* CheckUser has accepted the connection
    ctx,         \* Conn.ctx is cancelled
    pub,         \* the goroutine that runs Publish
    receivers,   \* Server.receivers
    newest,      \* the connection that registered a key last
    rch,         \* the packets in its channel
    hand         \* what serveRTP is about to send, and to whom

config == <<enabled, codec, payload, ssrc>>
session == <<addr, conn, state, authBy, authed, config>>
routes == <<receivers, newest>>
vars == <<session, ctx, pub, routes, rch, hand>>

NoPacket == <<>>
Packet == [ip : Addr, ssrc : Ssrc]
Ping   == -1                        \* the ping key has no SSRC
Key    == ({Ping} \cup Ssrc) \X Addr

ssrcKeyAnyone(n, ip) == <<n, CHOOSE a \in Addr : TRUE>>    \* the IP not copied

ssrcKey(n, ip) == <<n, ip>>

hashKeys(c) ==
    {<<Ping, addr[c]>>} \cup {ssrcKey(ssrc[c][m], addr[c]) : m \in Media}

Serving(c)   == conn[c] \in {"top", "reading"}
InFlight(c)  == pub[c] \in {"streams", "copying", "returned"}
Unauth(c)    == state[c] \in {"new", "unauth"}

Init ==
    /\ addr \in [Conn -> Addr]
    /\ conn = [c \in Conn |-> "idle"]
    /\ state = [c \in Conn |-> "new"]
    /\ enabled = [c \in Conn |-> [m \in Media |-> FALSE]]
    /\ codec = [c \in Conn |-> [m \in Media |-> ""]]
    /\ payload = [c \in Conn |-> [m \in Media |-> 0]]
    /\ ssrc = [c \in Conn |-> [m \in Media |-> 0]]
    /\ authBy = [c \in Conn |-> FALSE] /\ authed = [c \in Conn |-> FALSE]
    /\ ctx = [c \in Conn |-> FALSE]
    /\ pub = [c \in Conn |-> "none"]
    /\ receivers = [k \in Key |-> None] /\ newest = [k \in Key |-> None]
    /\ rch = [c \in Conn |-> <<>>]
    /\ hand = NoPacket

-----------------------------------------------------------------------------
(***************************************************************************)
(* Conn.serve.  Cancelling the context and the 30 seconds for              *)
(* authentication are noticed only between two lines; the read itself has  *)
(* a deadline of its own.                                                  *)
(***************************************************************************)
Accept(c) ==
    /\ conn[c] = "idle"
    /\ conn' = [conn EXCEPT ![c] = "top"]
    /\ UNCHANGED <<addr, state, authBy, authed, config, ctx, pub, routes, rch, hand>>

End(c) ==
    /\ conn' = [conn EXCEPT ![c] = "ended"]
    /\ ctx' = [ctx EXCEPT ![c] = TRUE]

LoopPatient(c) ==                   \* without the authBy check
    /\ conn[c] = "top"
    /\ IF ctx[c] THEN End(c)
                 ELSE conn' = [conn EXCEPT ![c] = "reading"] /\ UNCHANGED ctx
    /\ UNCHANGED <<addr, state, authBy, authed, config, pub, routes, rch, hand>>

Loop(c) ==
    /\ conn[c] = "top"
    /\ IF ctx[c] \/ (Unauth(c) /\ authBy[c])
         THEN End(c)
         ELSE conn' = [conn EXCEPT ![c] = "reading"] /\ UNCHANGED ctx
    /\ UNCHANGED <<addr, state, authBy, authed, config, pub, routes, rch, hand>>

\* A line that is out of place or malformed, DISCONNECT, the deadline of the
\* read, or the end of the connection: the loop returns.
Drop(c) ==
    /\ conn[c] = "reading"
    /\ End(c)
    /\ UNCHANGED <<addr, state, authBy, authed, config, pub, routes, rch, hand>>

AuthDeadline(c) ==
    /\ Serving(c) /\ Unauth(c) /\ ~authBy[c]
    /\ authBy' = [authBy EXCEPT ![c] = TRUE]
    /\ UNCHANGED <<addr, conn, state, authed, config, ctx, pub, routes, rch, hand>>

\* A line was read and its handler succeeds.
Handled(c) ==
    /\ conn[c] = "reading"
    /\ conn' = [conn EXCEPT ![c] = "top"]
    /\ UNCHANGED <<addr, authBy, ctx, rch, hand>>

\* PING, an empty line, a line that is ignored.
Idle(c) ==
    /\ Handled(c)
    /\ UNCHANGED <<state, authed, config, pub, routes>>

handleHMAC(c) ==
    /\ Unauth(c)
    /\ Handled(c)
    /\ state' = [state EXCEPT ![c] = "unauth"]
    /\ UNCHANGED <<authed, config, pub, routes>>

\* CheckUser accepts the digest; a refusal is a Drop.
handleConnect(c) ==
    /\ state[c] = "unauth"
    /\ Handled(c)
    /\ state' = [state EXCEPT ![c] = "config"]
    /\ authed' = [authed EXCEPT ![c] = TRUE]
    /\ UNCHANGED <<config, pub, routes>>

handleEnable(c, m) ==
    /\ state[c] = "config"
    /\ Handled(c)
    /\ enabled' = [enabled EXCEPT ![c][m] = TRUE]
    /\ UNCHANGED <<state, authed, codec, payload, ssrc, pub, routes>>

handleCodec(c, m) ==
    /\ state[c] = "config"
    /\ Handled(c)
    /\ \E name \in {"known", "unknown"} : codec' = [codec EXCEPT ![c][m] = name]
    /\ UNCHANGED <<state, authed, enabled, payload, ssrc, pub, routes>>

handlePT(c, m) ==
    /\ state[c] = "config"
    /\ Handled(c)
    /\ \E v \in 0..1 : payload' = [payload EXCEPT ![c][m] = v]
    /\ UNCHANGED <<state, authed, enabled, codec, ssrc, pub, routes>>

handleSSRC(c, m) ==
    /\ state[c] = "config"
    /\ Handled(c)
    /\ \E v \in Ssrc : ssrc' = [ssrc EXCEPT ![c][m] = v]
    /\ UNCHANGED <<state, authed, enabled, codec, payload, pub, routes>>

addReceiver(c) ==
    /\ receivers' = [k \in Key |-> IF k \in hashKeys(c) THEN c ELSE receivers[k]]
    /\ newest' = [k \in Key |-> IF k \in hashKeys(c) THEN c ELSE newest[k]]

GoLive(c) ==
    /\ \A m \in Media : enabled[c][m] /\ codec[c][m] = "known"
                        /\ payload[c][m] # 0 /\ ssrc[c][m] # 0
    /\ Handled(c)
    /\ state' = [state EXCEPT ![c] = "live"]
    /\ addReceiver(c)
    /\ pub' = [pub EXCEPT ![c] = "streams"]
    /\ UNCHANGED <<authed, config>>

\* A missing parameter or an unsupported codec is a Drop.
handleLive(c) == state[c] = "config" /\ GoLive(c)

-----------------------------------------------------------------------------
(***************************************************************************)
(* The publishing goroutine.  Publish first waits for the codec data, with *)
(* a timeout, and then reads packets until the context is cancelled or a   *)
(* packet is malformed; it returns nil only after the context.             *)
(***************************************************************************)
pubFrame == UNCHANGED <<session, routes, hand>>

\* Streams: a packet completes the codec data, or is not enough for it.
Streams(c) ==
    /\ pub[c] = "streams" /\ rch[c] # <<>>
    /\ rch' = [rch EXCEPT ![c] = Tail(@)]
    /\ \E p \in {"streams", "copying"} : pub' = [pub EXCEPT ![c] = p]
    /\ UNCHANGED ctx /\ pubFrame

ReadPacket(c) ==
    /\ pub[c] = "copying" /\ rch[c] # <<>>
    /\ rch' = [rch EXCEPT ![c] = Tail(@)]
    /\ UNCHANGED <<ctx, pub>> /\ pubFrame

PublishFailsQuietly(c) ==           \* without c.cancel
    /\ pub[c] \in {"streams", "copying"}
    /\ pub' = [pub EXCEPT ![c] = "returned"]
    /\ UNCHANGED <<ctx, rch>> /\ pubFrame

\* The timeout of Streams, a malformed packet, a source without H.264, or an
\* error of another part of Publish.
PublishFails(c) ==
    /\ pub[c] \in {"streams", "copying"}
    /\ pub' = [pub EXCEPT ![c] = "returned"]
    /\ ctx' = [ctx EXCEPT ![c] = TRUE]
    /\ UNCHANGED rch /\ pubFrame

PublishEnds(c) ==
    /\ pub[c] \in {"streams", "copying"} /\ ctx[c]
    /\ pub' = [pub EXCEPT ![c] = "returned"]
    /\ UNCHANGED <<ctx, rch>> /\ pubFrame

delReceiverAll(c) ==                \* without comparing the channel
    /\ pub[c] = "returned"
    /\ receivers' = [k \in Key |-> IF k \in hashKeys(c) THEN None ELSE receivers[k]]
    /\ pub' = [pub EXCEPT ![c] = "gone"]
    /\ UNCHANGED <<session, ctx, newest, rch, hand>>

delReceiverSsrcs(c) ==              \* the ping key forgotten
    /\ pub[c] = "returned"
    /\ receivers' = [k \in Key |-> IF k \in hashKeys(c) /\ k[1] # Ping /\ receivers[k] = c
                                     THEN None ELSE receivers[k]]
    /\ pub' = [pub EXCEPT ![c] = "gone"]
    /\ UNCHANGED <<session, ctx, newest, rch, hand>>

delReceiver(c) ==
    /\ pub[c] = "returned"
    /\ receivers' = [k \in Key |-> IF k \in hashKeys(c) /\ receivers[k] = c
                                     THEN None ELSE receivers[k]]
    /\ pub' = [pub EXCEPT ![c] = "gone"]
    /\ UNCHANGED <<session, ctx, newest, rch, hand>>

-----------------------------------------------------------------------------
(***************************************************************************)
(* serveRTP.  The map is read under the lock, the packet sent after it: by *)
(* then the receiver may be gone.  A ping is answered when its address has *)
(* a key in the map, a sender report is skipped; neither changes anything. *)
(***************************************************************************)
Lookup(p) ==
    /\ hand = NoPacket
    /\ receivers[ssrcKey(p.ssrc, p.ip)] # None
    /\ hand' = <<p, receivers[ssrcKey(p.ssrc, p.ip)]>>
    /\ UNCHANGED <<session, ctx, pub, routes, rch>>

\* The packet is dropped when the channel is full.
Send ==
    /\ hand # NoPacket
    /\ rch' = IF Len(rch[hand[2]]) < RchCap
                THEN [rch EXCEPT ![hand[2]] = Append(@, hand[1])]
                ELSE rch
    /\ hand' = NoPacket
    /\ UNCHANGED <<session, ctx, pub, routes>>

Line(c) ==
    \/ Drop(c) \/ Idle(c) \/ handleHMAC(c) \/ handleConnect(c) \/ handleLive(c)
    \/ \E m \in Media :
          handleEnable(c, m) \/ handleCodec(c, m) \/ handlePT(c, m) \/ handleSSRC(c, m)

Next ==
    \/ \E c \in Conn :
          \/ Accept(c) \/ Loop(c) \/ Line(c) \/ AuthDeadline(c)
          \/ Streams(c) \/ ReadPacket(c)
          \/ PublishFails(c) \/ PublishEnds(c) \/ delReceiver(c)
    \/ \E p \in Packet : Lookup(p)
    \/ Send

Spec == Init /\ [][Next]_vars

(***************************************************************************)
(* The loop goes on, a read comes to its line or its deadline, clocks      *)
(* advance, and the select of readPacket does not prefer packets to the    *)
(* cancelled context for ever.                                             *)
(***************************************************************************)
Fairness ==
    \A c \in Conn :
       /\ WF_vars(Loop(c) \/ Line(c)) /\ WF_vars(AuthDeadline(c))
       /\ WF_vars(PublishEnds(c) \/ delReceiver(c))

FairSpec == Spec /\ Fairness

-----------------------------------------------------------------------------
\* A route belongs to a stream that is still being published: whatever way a
\* connection ended and in whatever order, nothing is left behind in the map.
RoutesInFlight ==
    \A k \in Key : receivers[k] # None
       => InFlight(receivers[k]) /\ k \in hashKeys(receivers[k])

\* The stream that registered a key last keeps it until it ends: a stream that
\* reconnected is not cut off when its predecessor's delReceiver runs late.
NewestKeepsRoute ==
    \A k \in Key : (newest[k] # None /\ InFlight(newest[k])) => receivers[k] = newest[k]

\* "identify sender by IP and SSRC": a packet waiting for a stream came from
\* the address of its connection and carries one of its SSRCs; and no more of
\* them wait than the channel holds, however slowly the stream reads.
PacketsFromSender ==
    \A c \in Conn :
       /\ Len(rch[c]) <= RchCap
       /\ \A i \in 1..Len(rch[c]) :
             rch[c][i].ip = addr[c] /\ \E m \in Media : rch[c][i].ssrc = ssrc[c][m]

\* Only a connection that CheckUser accepted and that gave every parameter is
\* published.
ConfiguredBeforeLive ==
    \A c \in Conn : pub[c] # "none" =>
       /\ authed[c]
       /\ \A m \in Media : enabled[c][m] /\ codec[c][m] = "known" /\ ssrc[c][m] # 0

\* A connection that does not authenticate is dropped, however busily it sends
\* lines.
UnauthDropped == \A c \in Conn : (Serving(c) /\ Unauth(c)) ~> ~(Serving(c) /\ Unauth(c))

\* The two halves of a connection end together: when publishing fails the
\* command loop ends, and when that ends publishing ends and unregisters.
EndTogether ==
    \A c \in Conn : (conn[c] = "ended" \/ pub[c] = "returned")
                      ~> (conn[c] = "ended" /\ pub[c] \in {"none", "gone"})

=============================================================================
