-------------------------------- MODULE Rtsp ---------------------------------
(***************************************************************************)
(* One connection of the RTSP server (sinks/rtsp/server.go, handler.go):   *)
(* its requests, in any order, and the goroutines that PLAY starts, which  *)
(* read the connection's tracks while later requests replace them.         *)
(* Connections share only the socket that packets leave by.                *)
(*                                                                         *)
(* The channel is taken from its abstract specification: the streams that  *)
(* follow one another are the sessions of ChannelSlot.                     *)
(***************************************************************************)
EXTENDS Integers, Sequences

CONSTANTS Stream,      \* streams that may take the channel
          Layouts,     \* the tracks of a stream: a sequence of codecs
          Plays,       \* senders at a time
          NoStream

ASSUME RtspAssumption ==
    /\ NoStream \notin Stream
    /\ \A l \in Layouts : l \in Seq({"H264", "OPUS"})

VARIABLES
    owner, seen, open,      \* the channel
    layout,      \* the tracks of each stream
    conn,        \* "idle", "open", "describing" inside that handler, "closed"
    cancelled,   \* Conn.ctx is cancelled
    tracks,      \* Conn.tracks
    old,         \* tracks as a sender may still see them while they are replaced
    destAddr,    \* SETUP has set Conn.destAddr
    senders,     \* the goroutines of handlePlay
    crashed,     \* a sender's panic, which nothing recovers, ended the program
    described,   \* the stream that handleDescribe describes, or last described
    involved,    \* history: the streams described or played
    ready,       \* history: a SETUP followed the last DESCRIBE
    early,       \* history: a PLAY came before any DESCRIBE
    wrong        \* history: a packet left on a track of another codec

channelVars == <<owner, seen, open, layout>>
handlerVars == <<conn, cancelled, tracks, old, destAddr, described,
                 involved, ready, early>>
rtspVars == <<channelVars, handlerVars, senders, crashed, wrong>>

Channel == INSTANCE ChannelSlot WITH Session <- Stream, None <- NoStream

Nil   == [codec |-> "none", addr |-> FALSE]
Over  == {"idle", "done", "failed"}
Sender(label, s) == [pc |-> label, src |-> s, idx |-> 0, sent |-> FALSE]

RtspInit ==
    /\ Channel!Init /\ layout = [s \in Stream |-> <<>>]
    /\ conn = "idle" /\ cancelled = FALSE
    /\ tracks = <<>> /\ old = <<>> /\ destAddr = FALSE
    /\ senders = [p \in Plays |-> Sender("idle", NoStream)]
    /\ crashed = FALSE
    /\ described = NoStream /\ involved = {} /\ ready = FALSE /\ early = FALSE /\ wrong = FALSE

-----------------------------------------------------------------------------
(***************************************************************************)
(* The requests.  OPTIONS, an unknown method, and a channel that is not on *)
(* the air (ErrNotFound) only get an answer.                               *)
(***************************************************************************)
ChannelStep ==
    /\ conn # "idle"
    /\ Channel!Next
    /\ UNCHANGED <<layout, handlerVars, senders, crashed, wrong>>

\* The connection is accepted; the streams it will meet may have any tracks.
Accept ==
    /\ conn = "idle" /\ conn' = "open"
    /\ layout' \in [Stream -> Layouts]
    /\ UNCHANGED <<owner, seen, open, cancelled, tracks, old, destAddr, senders, crashed,
                   described, involved, ready, early, wrong>>

\* handleDescribe gives the connection a new slice of as many tracks as the
\* stream has ...
handleDescribe ==
    /\ conn = "open" /\ owner # NoStream
    /\ conn' = "describing"
    /\ tracks' = [i \in DOMAIN layout[owner] |-> Nil] /\ old' = tracks
    /\ described' = owner /\ involved' = involved \cup {owner}
    /\ ready' = FALSE
    /\ UNCHANGED <<channelVars, cancelled, destAddr, senders, crashed, early, wrong>>

FillTracksAlike ==                  \* one codec for all
    /\ conn = "describing" /\ conn' = "open"
    /\ tracks' = [i \in DOMAIN tracks |-> [codec |-> "H264", addr |-> FALSE]]
    /\ old' = tracks'
    /\ UNCHANGED <<channelVars, cancelled, destAddr, senders, crashed, described,
                   involved, ready, early, wrong>>

\* ... and then a framer for each of them, which has no address yet.
FillTracks ==
    /\ conn = "describing" /\ conn' = "open"
    /\ tracks' = [i \in DOMAIN tracks |->
                     [codec |-> layout[described][i], addr |-> FALSE]]
    /\ old' = tracks'
    /\ UNCHANGED <<channelVars, cancelled, destAddr, senders, crashed, described,
                   involved, ready, early, wrong>>

handleSetupOnce ==                  \* without the loop over the tracks
    /\ conn = "open"
    /\ destAddr' = TRUE
    /\ ready' = (tracks # <<>>)
    /\ UNCHANGED <<channelVars, conn, cancelled, tracks, old, senders, crashed,
                   described, involved, early, wrong>>

handleSetup ==
    /\ conn = "open"
    /\ destAddr' = TRUE
    /\ tracks' = [i \in DOMAIN tracks |-> [codec |-> tracks[i].codec, addr |-> TRUE]]
    /\ old' = tracks'
    /\ ready' = (tracks # <<>>)
    /\ UNCHANGED <<channelVars, conn, cancelled, senders, crashed, described,
                   involved, early, wrong>>

\* handlePlay takes the stream that is on the air now, described or not.
handlePlay(p) ==
    /\ conn = "open" /\ destAddr /\ owner # NoStream
    /\ senders[p].pc \in Over
    /\ senders' = [senders EXCEPT ![p] = Sender("check", owner)]
    /\ involved' = involved \cup {owner}
    /\ early' = (early \/ tracks = <<>>)
    /\ UNCHANGED <<channelVars, conn, cancelled, tracks, old, destAddr, crashed,
                   described, ready, wrong>>

\* TEARDOWN cancels the context; the connection goes on.
Teardown ==
    /\ conn = "open" /\ cancelled' = TRUE
    /\ UNCHANGED <<channelVars, conn, tracks, old, destAddr, senders, crashed,
                   described, involved, ready, early, wrong>>

\* The client hangs up, or a handler returns an error: a PLAY without a SETUP,
\* a SETUP without a port, a stream with a codec that has no framer, a
\* response that cannot be written.  serve returns and cancels the context.
EndConn ==
    /\ conn \in {"open", "describing"} /\ conn' = "closed"
    /\ cancelled' = TRUE
    /\ UNCHANGED <<channelVars, tracks, old, destAddr, senders, crashed,
                   described, involved, ready, early, wrong>>

-----------------------------------------------------------------------------
(***************************************************************************)
(* A sender.                                                               *)
(***************************************************************************)
Goto(p, label) == senders' = [senders EXCEPT ![p].pc = label]

CheckNever(p) ==                    \* for { without the test of ctx.Err
    /\ senders[p].pc = "check"
    /\ Goto(p, "reading")
    /\ UNCHANGED <<channelVars, handlerVars, crashed, wrong>>

Check(p) ==
    /\ senders[p].pc = "check"
    /\ Goto(p, IF cancelled THEN "done" ELSE "reading")
    /\ UNCHANGED <<channelVars, handlerVars, crashed, wrong>>

\* ReadPacket: a queue that was closed may still hold packets.
Read(p) ==
    /\ senders[p].pc = "reading"
    /\ \E i \in DOMAIN layout[senders[p].src] :
          senders' = [senders EXCEPT ![p].pc = "sending", ![p].idx = i]
    /\ UNCHANGED <<channelVars, handlerVars, crashed, wrong>>

ReadEnd(p) ==
    /\ senders[p].pc = "reading" /\ senders[p].src \notin open
    /\ Goto(p, "done")
    /\ UNCHANGED <<channelVars, handlerVars, crashed, wrong>>

\* c.tracks[pkt.Idx], then WritePacket.  The slice is read without a lock: a
\* reader that meets its replacement may see the length of one and the memory
\* of the other.  An index out of range panics; a track that is not made yet
\* drops the packet; one without an address fails and ends the sender.
Send(p) ==
    LET i == senders[p].idx IN
    /\ senders[p].pc = "sending"
    /\ \E bound, slice \in {old, tracks} :
          IF i \notin DOMAIN bound \cap DOMAIN slice
          THEN crashed' = TRUE /\ UNCHANGED <<senders, wrong>>
          ELSE /\ wrong' = (wrong \/ slice[i].codec \notin {"none", layout[senders[p].src][i]})
               /\ senders' = [senders EXCEPT
                     ![p].pc = IF slice[i] # Nil /\ ~slice[i].addr THEN "done" ELSE "check",
                     ![p].sent = @ \/ slice[i].addr]
               /\ UNCHANGED crashed
    /\ UNCHANGED <<channelVars, handlerVars>>

\* The socket refuses the packet.
WriteFails(p) ==
    /\ senders[p].pc = "sending"
    /\ Goto(p, "failed")
    /\ UNCHANGED <<channelVars, handlerVars, crashed, wrong>>

SenderStep(p) == Check(p) \/ Read(p) \/ Send(p)

RtspNext ==
    /\ ~crashed
    /\ \/ ChannelStep
       \/ Accept \/ handleDescribe \/ FillTracks \/ handleSetup \/ Teardown \/ EndConn
       \/ \E p \in Plays : handlePlay(p) \/ SenderStep(p) \/ ReadEnd(p) \/ WriteFails(p)

\* A stream on the air has packets, a closed queue runs out of them, and a
\* handler returns.
RtspFairness ==
    /\ WF_rtspVars(~crashed /\ FillTracks)
    /\ \A p \in Plays : /\ WF_rtspVars(~crashed /\ SenderStep(p))
                        /\ SF_rtspVars(~crashed /\ ReadEnd(p))

-----------------------------------------------------------------------------
\* While the streams a connection describes and plays have the same tracks, and
\* PLAY follows a DESCRIBE, every packet finds a track (no index is out of
\* range) and it is the track of its codec, even when DESCRIBE replaces the
\* tracks under a running sender.
TracksFit ==
    (~early /\ \A s, t \in involved : layout[s] = layout[t]) => ~crashed /\ ~wrong

\* DESCRIBE, SETUP and PLAY in this order bring packets: until the stream or the
\* connection ends, or the client asks again, a sender does not end or idle.
PlayDelivers ==
    \A p \in Plays :
       (senders[p].pc = "check" /\ ready /\ ~early) ~>
          \/ senders[p].sent \/ senders[p].pc = "failed" \/ crashed
          \/ ~ready \/ cancelled \/ senders[p].src \notin open

\* After TEARDOWN, or once the connection is gone, every sender ends, though
\* none is told: it looks at the context between two packets.
SendersStop ==
    cancelled ~> (crashed \/ \A p \in Plays : senders[p].pc \in Over)

=============================================================================
