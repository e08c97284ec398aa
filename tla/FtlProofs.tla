------------------------------ MODULE FtlProofs ------------------------------
(***************************************************************************)
(* The routes of Ftl, for any set of connections, addresses and SSRCs.     *)
(***************************************************************************)
EXTENDS Ftl, TLAPS

(***************************************************************************)
(* What a connection has been through.  The configuration is fixed once    *)
(* the connection is published, so the keys it registered are the keys it  *)
(* will unregister.                                                        *)
(***************************************************************************)
Configured(c) ==
    /\ authed[c]
    /\ \A m \in Media : enabled[c][m] /\ codec[c][m] = "known" /\ ssrc[c][m] # 0

ParamType ==
    /\ enabled \in [Conn -> [Media -> BOOLEAN]]
    /\ codec \in [Conn -> [Media -> {"", "known", "unknown"}]]

ConnInv ==
    /\ addr \in [Conn -> Addr]
    /\ state \in [Conn -> {"new", "unauth", "config", "live"}]
    /\ pub \in [Conn -> {"none", "streams", "copying", "returned", "gone"}]
    /\ authed \in [Conn -> BOOLEAN]
    /\ ssrc \in [Conn -> [Media -> Ssrc]]
    /\ ParamType
    /\ \A c \in Conn : state[c] \in {"config", "live"} => authed[c]
    /\ \A c \in Conn : pub[c] # "none" => state[c] = "live" /\ Configured(c)

RouteInv ==
    /\ receivers \in [Key -> Conn \cup {None}]
    /\ newest \in [Key -> Conn \cup {None}]
    /\ \A k \in Key : newest[k] # None => pub[newest[k]] # "none"
    /\ RoutesInFlight
    /\ NewestKeepsRoute

FInv == ConnInv /\ RouteInv

\* A step that leaves addresses, keys and publishing alone leaves routes alone.
LEMMA RoutesStay ==
    ASSUME FInv, UNCHANGED <<addr, pub, receivers, newest>>,
           \A c \in Conn : pub[c] # "none" => ssrc'[c] = ssrc[c]
    PROVE  RouteInv'
<1>. USE DEF FInv, ConnInv, RouteInv
<1>1. \A c \in Conn : pub[c] # "none" => hashKeys(c)' = hashKeys(c)
  BY DEF hashKeys, ssrcKey
<1>2. \A c \in Conn : InFlight(c)' <=> InFlight(c)
  BY DEF InFlight
<1>3. \A c \in Conn : InFlight(c) => pub[c] # "none"
  BY DEF InFlight
<1>4. RoutesInFlight'
  BY <1>1, <1>2, <1>3 DEF RoutesInFlight
<1>5. NewestKeepsRoute'
  BY <1>2 DEF NewestKeepsRoute
<1>. QED  BY <1>4, <1>5

\* The command loop, short of going live.
LEMMA LinePreserves ==
    ASSUME FInv, NEW c \in Conn,
           \/ Accept(c) \/ Loop(c) \/ Drop(c) \/ AuthDeadline(c) \/ Idle(c)
           \/ handleHMAC(c) \/ handleConnect(c)
           \/ \E m \in Media : \/ handleEnable(c, m) \/ handleCodec(c, m)
                               \/ handlePT(c, m) \/ handleSSRC(c, m)
    PROVE  FInv'
<1>. USE DEF FInv, ConnInv
<1>1. UNCHANGED <<addr, pub, receivers, newest>>
  BY DEF Accept, Loop, Drop, AuthDeadline, Idle, handleHMAC, handleConnect,
         handleEnable, handleCodec, handlePT, handleSSRC, Handled, routes
<1>2. CASE Accept(c) \/ Loop(c) \/ Drop(c) \/ AuthDeadline(c) \/ Idle(c)
  <2>1. UNCHANGED <<state, authed, enabled, codec, ssrc>>
    BY <1>2 DEF Accept, Loop, Drop, AuthDeadline, Idle, config
  <2>2. RouteInv'
    BY <1>1, <2>1, RoutesStay
  <2>3. ParamType'
    BY <2>1 DEF ParamType
  <2>. QED  BY <1>1, <2>1, <2>2, <2>3 DEF Configured
<1>3. CASE handleHMAC(c) \/ handleConnect(c)
  <2>1. UNCHANGED <<enabled, codec, ssrc>> /\ pub[c] = "none"
    BY <1>3 DEF handleHMAC, handleConnect, config, Unauth
  <2>2. /\ state' \in [Conn -> {"new", "unauth", "config", "live"}]
        /\ authed' \in [Conn -> BOOLEAN]
        /\ \A d \in Conn : d # c => state'[d] = state[d] /\ authed'[d] = authed[d]
        /\ state'[c] \in {"config", "live"} => authed'[c]
    BY <1>3 DEF handleHMAC, handleConnect
  <2>3. RouteInv'
    BY <1>1, <2>1, RoutesStay
  <2>4. ParamType'
    BY <2>1 DEF ParamType
  <2>. QED  BY <1>1, <2>1, <2>2, <2>3, <2>4 DEF Configured
<1>4. ASSUME NEW m \in Media,
             \/ handleEnable(c, m) \/ handleCodec(c, m)
             \/ handlePT(c, m) \/ handleSSRC(c, m)
      PROVE  FInv'
  <2>1. UNCHANGED <<state, authed>> /\ pub[c] = "none"
    BY <1>4 DEF handleEnable, handleCodec, handlePT, handleSSRC
  <2>2. /\ ssrc' \in [Conn -> [Media -> Ssrc]]
        /\ ParamType'
        /\ \A d \in Conn : d # c => /\ ssrc'[d] = ssrc[d] /\ codec'[d] = codec[d]
                                    /\ enabled'[d] = enabled[d]
    <3>1. CASE handleEnable(c, m)
      <4>1. UNCHANGED <<ssrc, codec>> /\ enabled' = [enabled EXCEPT ![c][m] = TRUE]
        BY <3>1 DEF handleEnable
      <4>. QED  BY <4>1 DEF ParamType
    <3>2. CASE handleCodec(c, m)
      <4>1. PICK name \in {"known", "unknown"} :
               UNCHANGED <<ssrc, enabled>> /\ codec' = [codec EXCEPT ![c][m] = name]
        BY <3>2 DEF handleCodec
      <4>. QED  BY <4>1 DEF ParamType
    <3>3. CASE handlePT(c, m)
      BY <3>3 DEF handlePT, ParamType
    <3>4. CASE handleSSRC(c, m)
      <4>1. PICK v \in Ssrc : UNCHANGED <<codec, enabled>> /\ ssrc' = [ssrc EXCEPT ![c][m] = v]
        BY <3>4 DEF handleSSRC
      <4>. QED  BY <4>1 DEF ParamType
    <3>. QED  BY <1>4, <3>1, <3>2, <3>3, <3>4
  <2>3. RouteInv'
    BY <1>1, <2>1, <2>2, RoutesStay
  <2>. QED  BY <1>1, <2>1, <2>2, <2>3 DEF Configured
<1>. QED  BY <1>2, <1>3, <1>4

\* Going live: the connection's keys are its own from here on.
LEMMA LivePreserves ==
    ASSUME FInv, NEW c \in Conn, handleLive(c)
    PROVE  FInv'
<1>. USE DEF FInv, ConnInv, RouteInv
<1>1. /\ state[c] = "config" /\ pub[c] = "none" /\ authed[c]
      /\ UNCHANGED <<addr, authed, enabled, codec, ssrc>>
      /\ state' = [state EXCEPT ![c] = "live"]
      /\ pub' = [pub EXCEPT ![c] = "streams"]
      /\ \A m \in Media : enabled[c][m] /\ codec[c][m] = "known" /\ ssrc[c][m] # 0
  BY DEF handleLive, GoLive, Handled, config
<1>2. /\ receivers' = [k \in Key |-> IF k \in hashKeys(c) THEN c ELSE receivers[k]]
      /\ newest' = [k \in Key |-> IF k \in hashKeys(c) THEN c ELSE newest[k]]
  BY DEF handleLive, GoLive, addReceiver
<1>3. ConnInv'
  <2>1. ParamType'
    BY <1>1 DEF ParamType
  <2>. QED  BY <1>1, <2>1 DEF Configured
<1>4. \A d \in Conn : hashKeys(d)' = hashKeys(d)
  BY <1>1 DEF hashKeys, ssrcKey
<1>5. \A d \in Conn : InFlight(d)' <=> InFlight(d) \/ d = c
  BY <1>1 DEF InFlight
<1>6. RoutesInFlight'
  BY <1>2, <1>4, <1>5 DEF RoutesInFlight
<1>7. \A k \in Key : newest[k] # c
  BY <1>1, FtlAssumption
<1>8. NewestKeepsRoute'
  BY <1>2, <1>5, <1>7 DEF NewestKeepsRoute
<1>9. \A k \in Key : newest'[k] # None => pub'[newest'[k]] # "none"
  BY <1>1, <1>2
<1>. QED  BY <1>2, <1>3, <1>6, <1>8, <1>9

\* Publishing, up to its return.
LEMMA PublishPreserves ==
    ASSUME FInv, NEW c \in Conn,
           Streams(c) \/ ReadPacket(c) \/ PublishFails(c) \/ PublishEnds(c)
    PROVE  FInv'
<1>. USE DEF FInv, ConnInv, RouteInv
<1>1. /\ UNCHANGED <<addr, state, authed, enabled, codec, ssrc, receivers, newest>>
      /\ pub' \in [Conn -> {"none", "streams", "copying", "returned", "gone"}]
      /\ \A d \in Conn : d # c => pub'[d] = pub[d]
      /\ InFlight(c) /\ pub'[c] \in {"streams", "copying", "returned"}
  BY DEF Streams, ReadPacket, PublishFails, PublishEnds, pubFrame, session, config,
         routes, InFlight
<1>2. ConnInv'
  <2>1. ParamType'
    BY <1>1 DEF ParamType
  <2>. QED  BY <1>1, <2>1 DEF Configured, InFlight
<1>3. \A d \in Conn : hashKeys(d)' = hashKeys(d) /\ (InFlight(d)' <=> InFlight(d))
  BY <1>1 DEF hashKeys, ssrcKey, InFlight
<1>4. RoutesInFlight'
  BY <1>1, <1>3 DEF RoutesInFlight
<1>5. NewestKeepsRoute'
  BY <1>1, <1>3 DEF NewestKeepsRoute
<1>6. \A k \in Key : newest'[k] # None => pub'[newest'[k]] # "none"
  BY <1>1
<1>. QED  BY <1>1, <1>2, <1>4, <1>5, <1>6

\* delReceiver takes back what is still its own, and that is all of it.
LEMMA DelPreserves ==
    ASSUME FInv, NEW c \in Conn, delReceiver(c)
    PROVE  FInv'
<1>. USE DEF FInv, ConnInv, RouteInv
<1>1. /\ UNCHANGED <<addr, state, authed, enabled, codec, ssrc, newest>>
      /\ pub[c] = "returned" /\ pub' = [pub EXCEPT ![c] = "gone"]
      /\ receivers' = [k \in Key |-> IF k \in hashKeys(c) /\ receivers[k] = c
                                       THEN None ELSE receivers[k]]
  BY DEF delReceiver, session, config
<1>2. ConnInv'
  <2>1. ParamType'
    BY <1>1 DEF ParamType
  <2>. QED  BY <1>1, <2>1 DEF Configured
<1>3. \A d \in Conn : hashKeys(d)' = hashKeys(d) /\ (InFlight(d)' <=> InFlight(d) /\ d # c)
  BY <1>1 DEF hashKeys, ssrcKey, InFlight
<1>4. \A k \in Key : receivers'[k] # None => receivers'[k] = receivers[k] /\ receivers[k] # c
  BY <1>1 DEF RoutesInFlight
<1>5. RoutesInFlight'
  BY <1>1, <1>3, <1>4 DEF RoutesInFlight
<1>6. NewestKeepsRoute'
  BY <1>1, <1>3 DEF NewestKeepsRoute
<1>7. \A k \in Key : newest'[k] # None => pub'[newest'[k]] # "none"
  BY <1>1
<1>. QED  BY <1>1, <1>2, <1>5, <1>6, <1>7

\* Every step preserves the invariant.
LEMMA NextFInv == FInv /\ [Next]_vars => FInv'
<1>. SUFFICES ASSUME FInv, [Next]_vars PROVE FInv'
  OBVIOUS
<1>1. ASSUME NEW c \in Conn,
             \/ Accept(c) \/ Loop(c) \/ Line(c) \/ AuthDeadline(c)
             \/ Streams(c) \/ ReadPacket(c)
             \/ PublishFails(c) \/ PublishEnds(c) \/ delReceiver(c)
      PROVE  FInv'
  BY <1>1, LinePreserves, LivePreserves, PublishPreserves, DelPreserves DEF Line
<1>2. CASE (\E p \in Packet : Lookup(p)) \/ Send \/ UNCHANGED vars
  <2>1. UNCHANGED <<addr, state, authed, enabled, codec, ssrc, pub, receivers, newest>>
    BY <1>2 DEF Lookup, Send, vars, session, config, routes
  <2>. QED  BY <2>1, RoutesStay DEF FInv, ConnInv, Configured, ParamType
<1>. QED  BY <1>1, <1>2 DEF Next

\* It holds at the start.
LEMMA InitFInv == Init => FInv
<1>. SUFFICES ASSUME Init PROVE FInv
  OBVIOUS
<1>1. ConnInv
  BY FtlAssumption DEF Init, ConnInv, ParamType
<1>2. RouteInv
  BY DEF Init, RouteInv, RoutesInFlight, NewestKeepsRoute
<1>. QED  BY <1>1, <1>2 DEF FInv

\* The invariant of connections and routes.
THEOREM RouteInvariance == Spec => []FInv
BY InitFInv, NextFInv, PTL DEF Spec

\* No route outlives its stream.
THEOREM NoLeakedRoute == Spec => []RoutesInFlight
<1>1. FInv => RoutesInFlight
  BY DEF FInv, RouteInv
<1>. QED  BY <1>1, RouteInvariance, PTL

\* A late delReceiver never takes a newer stream's route.
THEOREM NoStolenRoute == Spec => []NewestKeepsRoute
<1>1. FInv => NewestKeepsRoute
  BY DEF FInv, RouteInv
<1>. QED  BY <1>1, RouteInvariance, PTL

\* Nothing is published unauthenticated or half configured.
THEOREM AuthFirst == Spec => []ConfiguredBeforeLive
<1>1. FInv => ConfiguredBeforeLive
  BY DEF FInv, ConnInv, Configured, ConfiguredBeforeLive
<1>. QED  BY <1>1, RouteInvariance, PTL

-----------------------------------------------------------------------------
(***************************************************************************)
(* The packets on their way.  Between the lookup and the send serveRTP     *)
(* holds no lock, but the configuration that made the packet the           *)
(* connection's own does not change any more.                              *)
(***************************************************************************)
Own(c, p) == p.ip = addr[c] /\ \E m \in Media : p.ssrc = ssrc[c][m]

HandInv ==
    hand # NoPacket => /\ hand[1] \in Packet /\ hand[2] \in Conn
                       /\ pub[hand[2]] # "none" /\ Own(hand[2], hand[1])

QueueInv ==
    /\ rch \in [Conn -> Seq(Packet)]
    /\ \A c \in Conn :
          /\ Len(rch[c]) <= RchCap
          /\ \A i \in 1..Len(rch[c]) : pub[c] # "none" /\ Own(c, rch[c][i])

PInv == FInv /\ HandInv /\ QueueInv

\* A connection that is published stays so, with its address and its SSRCs.
LEMMA OwnStays ==
    ASSUME FInv, [Next]_vars, NEW c \in Conn, pub[c] # "none"
    PROVE  addr'[c] = addr[c] /\ ssrc'[c] = ssrc[c] /\ pub'[c] # "none"
<1>. USE DEF FInv, ConnInv
<1>1. ASSUME NEW d \in Conn,
             \/ Accept(d) \/ Loop(d) \/ Line(d) \/ AuthDeadline(d)
             \/ Streams(d) \/ ReadPacket(d)
             \/ PublishFails(d) \/ PublishEnds(d) \/ delReceiver(d)
      PROVE  addr'[c] = addr[c] /\ ssrc'[c] = ssrc[c] /\ pub'[c] # "none"
  <2>1. CASE \E m \in Media : handleEnable(d, m) \/ handleCodec(d, m) \/ handlePT(d, m)
                              \/ handleSSRC(d, m)
    BY <2>1 DEF handleEnable, handleCodec, handlePT, handleSSRC, Handled
  <2>2. CASE \/ Accept(d) \/ Loop(d) \/ Drop(d) \/ AuthDeadline(d) \/ Idle(d)
             \/ handleHMAC(d) \/ handleConnect(d) \/ handleLive(d)
    BY <2>2 DEF Accept, Loop, Drop, AuthDeadline, Idle, handleHMAC, handleConnect,
                handleLive, GoLive, Handled, config
  <2>3. CASE Streams(d) \/ ReadPacket(d) \/ PublishFails(d) \/ PublishEnds(d) \/ delReceiver(d)
    BY <2>3 DEF Streams, ReadPacket, PublishFails, PublishEnds, delReceiver, pubFrame,
                session, config
  <2>. QED  BY <1>1, <2>1, <2>2, <2>3 DEF Line
<1>2. CASE (\E q \in Packet : Lookup(q)) \/ Send \/ UNCHANGED vars
  BY <1>2 DEF Lookup, Send, vars, session, config
<1>. QED  BY <1>1, <1>2 DEF Next

\* The lookup takes a route, which is that of a stream with the packet's key.
LEMMA LookupPreserves ==
    ASSUME PInv, NEW p \in Packet, Lookup(p)
    PROVE  HandInv'
<1>1. p.ssrc \in Ssrc /\ p.ip \in Addr /\ p.ssrc # Ping
  BY FtlAssumption DEF Packet, Ping
<1>2. PICK k \in Key : k = <<p.ssrc, p.ip>>
  BY <1>1 DEF Key
<1>3. /\ receivers[k] # None /\ hand' = <<p, receivers[k]>>
      /\ UNCHANGED <<addr, ssrc, pub>>
  BY <1>2 DEF Lookup, ssrcKey, session, config
<1>4. PICK c \in Conn : c = receivers[k] /\ InFlight(c) /\ k \in hashKeys(c)
  BY <1>3 DEF PInv, FInv, RouteInv, RoutesInFlight
<1>5. Own(c, p)
  <2>1. k # <<Ping, addr[c]>>
    BY <1>1, <1>2
  <2>2. PICK m \in Media : k = <<ssrc[c][m], addr[c]>>
    BY <1>4, <2>1 DEF hashKeys, ssrcKey
  <2>. QED  BY <1>2, <2>2 DEF Own
<1>6. hand'[1] = p /\ hand'[2] = c /\ pub[c] # "none"
  BY <1>3, <1>4 DEF InFlight
<1>7. Own(c, p)'
  BY <1>3, <1>5 DEF Own
<1>. QED  BY <1>3, <1>6, <1>7 DEF HandInv

\* Channels that gain only packets of their connection's own.
LEMMA QueueOf ==
    ASSUME PInv, [Next]_vars,
           rch' \in [Conn -> Seq(Packet)], \A c \in Conn : Len(rch'[c]) <= RchCap,
           \A c \in Conn : \A i \in 1..Len(rch'[c]) :
              \/ \E j \in 1..Len(rch[c]) : rch'[c][i] = rch[c][j]
              \/ pub[c] # "none" /\ Own(c, rch'[c][i])
    PROVE  QueueInv'
<1>1. ASSUME NEW c \in Conn, NEW i \in 1..Len(rch'[c])
      PROVE  (pub[c] # "none" /\ Own(c, rch[c][i]))'
  <2>1. pub[c] # "none" /\ Own(c, rch'[c][i])
    BY <1>1 DEF PInv, QueueInv
  <2>2. addr'[c] = addr[c] /\ ssrc'[c] = ssrc[c] /\ pub'[c] # "none"
    BY <2>1, OwnStays DEF PInv
  <2>. QED  BY <2>1, <2>2 DEF Own
<1>. QED  BY <1>1 DEF QueueInv

\* The packets of a connection, added by Send and taken by its stream.
LEMMA QueuePreserves ==
    ASSUME PInv, [Next]_vars
    PROVE  QueueInv'
<1>. USE FtlAssumption DEF PInv, QueueInv
<1>1. ASSUME NEW c \in Conn, Streams(c) \/ ReadPacket(c)
      PROVE  QueueInv'
  <2>1. rch[c] # <<>> /\ rch' = [rch EXCEPT ![c] = Tail(rch[c])]
    BY <1>1 DEF Streams, ReadPacket
  <2>2. /\ Tail(rch[c]) \in Seq(Packet) /\ Len(Tail(rch[c])) = Len(rch[c]) - 1
        /\ \A i \in 1..Len(Tail(rch[c])) :
              Tail(rch[c])[i] = rch[c][i + 1] /\ i + 1 \in 1..Len(rch[c])
    BY <2>1
  <2>3. rch' \in [Conn -> Seq(Packet)] /\ \A d \in Conn : Len(rch'[d]) <= RchCap
    BY <2>1, <2>2
  <2>4. ASSUME NEW d \in Conn, NEW i \in 1..Len(rch'[d])
        PROVE  \E j \in 1..Len(rch[d]) : rch'[d][i] = rch[d][j]
    BY <2>1, <2>2
  <2>. QED  BY <2>3, <2>4, QueueOf
<1>2. CASE Send /\ rch' # rch
  <2>1. /\ hand # NoPacket /\ Len(rch[hand[2]]) < RchCap
        /\ rch' = [rch EXCEPT ![hand[2]] = Append(rch[hand[2]], hand[1])]
    BY <1>2 DEF Send
  <2>2. PICK c \in Conn, p \in Packet :
           /\ c = hand[2] /\ p = hand[1] /\ pub[c] # "none" /\ Own(c, p)
    BY <2>1 DEF HandInv
  <2>3. rch' = [rch EXCEPT ![c] = Append(rch[c], p)] /\ Len(rch[c]) < RchCap
    BY <2>1, <2>2
  <2>4. /\ Append(rch[c], p) \in Seq(Packet) /\ Len(Append(rch[c], p)) = Len(rch[c]) + 1
        /\ \A i \in 1..Len(Append(rch[c], p)) :
              \/ i \in 1..Len(rch[c]) /\ Append(rch[c], p)[i] = rch[c][i]
              \/ Append(rch[c], p)[i] = p
    OBVIOUS
  <2>5. rch' \in [Conn -> Seq(Packet)] /\ \A d \in Conn : Len(rch'[d]) <= RchCap
    BY <2>3, <2>4
  <2>6. ASSUME NEW d \in Conn, NEW i \in 1..Len(rch'[d])
        PROVE  \/ \E j \in 1..Len(rch[d]) : rch'[d][i] = rch[d][j]
               \/ pub[d] # "none" /\ Own(d, rch'[d][i])
    BY <2>2, <2>3, <2>4
  <2>. QED  BY <2>5, <2>6, QueueOf
<1>3. CASE rch' = rch
  BY <1>3, QueueOf
<1>4. rch' = rch \/ Send \/ \E c \in Conn : Streams(c) \/ ReadPacket(c)
  BY DEF Next, vars, Line, Accept, Loop, Drop, AuthDeadline, Idle, handleHMAC, handleConnect,
         handleLive, GoLive, handleEnable, handleCodec, handlePT, handleSSRC, Handled,
         PublishFails, PublishEnds, delReceiver, Lookup
<1>. QED  BY <1>1, <1>2, <1>3, <1>4

\* A stream gets the packets of its own sender, and its channel never overflows
\* (hashKeys, addReceiver and the two halves of serveRTP).
THEOREM OnlyOwnPackets == Spec => []PacketsFromSender
<1>1. Init => HandInv /\ QueueInv
  <2>1. Init => HandInv
    BY DEF Init, HandInv
  <2>2. <<>> \in Seq(Packet) /\ Len(<<>>) = 0 /\ 1..0 = {}
    OBVIOUS
  <2>3. ASSUME Init PROVE QueueInv
    <3>1. rch = [c \in Conn |-> <<>>]
      BY <2>3 DEF Init
    <3>2. rch \in [Conn -> Seq(Packet)] /\ \A c \in Conn : Len(rch[c]) = 0
      BY <2>2, <3>1
    <3>. QED  BY ONLY <2>2, <3>2, FtlAssumption DEF QueueInv
  <2>. QED  BY <2>1, <2>3
<1>2. PInv /\ [Next]_vars => HandInv'
  <2>. SUFFICES ASSUME PInv, [Next]_vars PROVE HandInv'
    OBVIOUS
  <2>1. ASSUME NEW p \in Packet, Lookup(p) PROVE HandInv'
    BY <2>1, LookupPreserves
  <2>2. CASE hand' \in {hand, NoPacket}
    BY <2>2, OwnStays DEF PInv, HandInv, Own
  <2>3. hand' \in {hand, NoPacket} \/ \E p \in Packet : Lookup(p)
    BY DEF Next, vars, Line, Accept, Loop, Drop, AuthDeadline, Idle, handleHMAC, handleConnect,
           handleLive, GoLive, handleEnable, handleCodec, handlePT, handleSSRC, Handled,
           Streams, ReadPacket, PublishFails, PublishEnds, delReceiver, pubFrame, Send
  <2>. QED  BY <2>1, <2>2, <2>3
<1>3. PInv /\ [Next]_vars => PInv'
  BY <1>2, NextFInv, QueuePreserves DEF PInv
<1>4. Init => PInv
  BY <1>1, InitFInv DEF PInv
<1>5. PInv => PacketsFromSender
  BY DEF PInv, QueueInv, Own, PacketsFromSender
<1>. QED  BY <1>3, <1>4, <1>5, PTL DEF Spec

-----------------------------------------------------------------------------
(***************************************************************************)
(* The end of a connection: what EndTogether rests on.                     *)
(***************************************************************************)
EndType ==
    /\ conn \in [Conn -> {"idle", "top", "reading", "ended"}]
    /\ pub \in [Conn -> {"none", "streams", "copying", "returned", "gone"}]
    /\ ctx \in [Conn -> BOOLEAN]

\* Whichever half of a connection is over has cancelled the context that the
\* other half looks at.
EndsCancel ==
    \A c \in Conn : conn[c] = "ended" \/ pub[c] \in {"returned", "gone"} => ctx[c]

\* No step of one connection touches the ends of another, a context stays
\* cancelled, and a half that ends cancels it or has seen it cancelled.
LEMMA EndsPreserved ==
    ASSUME EndType, EndsCancel, [Next]_vars
    PROVE  EndType' /\ EndsCancel'
<1>. USE DEF EndType, EndsCancel
<1>1. ASSUME NEW c \in Conn, Accept(c) \/ Loop(c) \/ Drop(c) \/ AuthDeadline(c)
      PROVE  EndType' /\ EndsCancel'
  BY <1>1 DEF Accept, Loop, Drop, AuthDeadline, End
<1>2. ASSUME NEW c \in Conn, Line(c), ~Drop(c) PROVE EndType' /\ EndsCancel'
  <2>1. /\ conn[c] = "reading" /\ conn' = [conn EXCEPT ![c] = "top"] /\ ctx' = ctx
        /\ pub' = pub \/ pub' = [pub EXCEPT ![c] = "streams"]
    BY <1>2 DEF Line, Idle, handleHMAC, handleConnect, handleLive, GoLive,
                handleEnable, handleCodec, handlePT, handleSSRC, Handled
  <2>. QED  BY <2>1
<1>3. ASSUME NEW c \in Conn, Streams(c) \/ ReadPacket(c) \/ PublishFails(c) \/ PublishEnds(c)
      PROVE  EndType' /\ EndsCancel'
  BY <1>3 DEF Streams, ReadPacket, PublishFails, PublishEnds, pubFrame, session
<1>4. ASSUME NEW c \in Conn, delReceiver(c) PROVE EndType' /\ EndsCancel'
  BY <1>4 DEF delReceiver, session
<1>5. CASE (\E p \in Packet : Lookup(p)) \/ Send \/ UNCHANGED vars
  BY <1>5 DEF Lookup, Send, vars, session
<1>. QED  BY <1>1, <1>2, <1>3, <1>4, <1>5 DEF Next, Line

\* The end of either half reaches the other: publishing never fails quietly, and
\* a command loop never leaves its stream behind (the cancel in Conn.serve and
\* in the goroutine of handleLive).
THEOREM NoHalfLeftBehind == Spec => []EndsCancel
<1>1. Init => EndType /\ EndsCancel
  <2>1. Init => EndType
    <3>1. Init => ctx \in [Conn -> BOOLEAN]
      BY Zenon DEF Init
    <3>2. Init => conn \in [Conn -> {"idle", "top", "reading", "ended"}]
      BY DEF Init
    <3>3. Init => pub \in [Conn -> {"none", "streams", "copying", "returned", "gone"}]
      BY DEF Init
    <3>. QED  BY <3>1, <3>2, <3>3 DEF EndType
  <2>2. Init => EndsCancel
    BY DEF Init, EndsCancel
  <2>. QED  BY <2>1, <2>2
<1>. QED  BY <1>1, EndsPreserved, PTL DEF Spec

=============================================================================
