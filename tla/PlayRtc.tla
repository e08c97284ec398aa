------------------------------- MODULE PlayRtc -------------------------------
(***************************************************************************)
(* One WebRTC viewer (sinks/playrtc/rtc.go): the choice of the payload     *)
(* type, and the goroutine that serves the stream while the peer           *)
(* connection reports its ICE states through a channel of one place.  The  *)
(* peer connection (pion) is external: it may go from any state to any     *)
(* other until it is closed, and it reports each change from a goroutine   *)
(* of its own, so that reports may arrive out of order.                    *)
(***************************************************************************)
EXTENDS Integers, Sequences, Functions

CONSTANTS Offers,        \* offers: sequences of media, each a sequence of attributes
          DefaultType,   \* payload type of rtsp.H264Codec
          MaxChanges     \* bound: ICE state changes of one session

ASSUME RtcAssumption ==
    /\ Offers \subseteq Seq(Seq([key : STRING, pt : Nat]))
    /\ DefaultType \in Nat /\ MaxChanges \in Nat

\* webrtc.ICEConnectionState
New == 1
Connected == 3
Closed == 7

VARIABLES
    rtcpc,       \* "idle", "chosen", "setup", "wait", "select", "read", "closing", "done"
    offer,       \* the offer, until the codec is registered
    payloadType, \* of the codec that was chosen
    ice,         \* the state of the peer connection
    changes,     \* its changes so far
    callbacks,   \* reports that have not reached the channel: <<number, state>>
    state,       \* rtcSender.state: a sequence of at most one report
    rtcViewers   \* what addViewer has counted

rtcVars == <<rtcpc, offer, payloadType, ice, changes, callbacks, state, rtcViewers>>
iceVars == <<ice, changes, callbacks>>

RtcInit ==
    /\ rtcpc = "idle" /\ offer = <<>> /\ payloadType = DefaultType
    /\ ice = New /\ changes = 0 /\ callbacks = {} /\ state = <<>>
    /\ rtcViewers = 0

-----------------------------------------------------------------------------
H264Types(media) ==
    {media[i].pt : i \in {j \in DOMAIN media : media[j].key = "rtpmap H264"}}

NoCandidate == -1

FmtpLast(cand, attr, media) ==      \* without the comparison with the candidate
    IF attr.key = "fmtp" /\ attr.pt \in H264Types(media) /\ attr.pt < 2^8
    THEN attr.pt ELSE cand

\* One line of a media against the candidate so far.
Fmtp(cand, attr, media) ==
    IF /\ attr.key = "fmtp" /\ attr.pt \in H264Types(media) /\ attr.pt < 2^8
       /\ cand = NoCandidate \/ cand > attr.pt
    THEN attr.pt ELSE cand

Media(best, media) ==
    LET cand[i \in 0..Len(media)] ==
            IF i = 0 THEN best ELSE Fmtp(cand[i - 1], media[i], media)
    IN  cand[Len(media)]

\* Media by media: the payload types that an rtpmap gives to H264, then the
\* fmtp lines in their order.
chooseCodec(sdp) ==
    LET cand[m \in 0..Len(sdp)] ==
            IF m = 0 THEN NoCandidate ELSE Media(cand[m - 1], sdp[m])
    IN  IF cand[Len(sdp)] = NoCandidate THEN DefaultType ELSE cand[Len(sdp)]

HandleSDP ==
    /\ rtcpc = "idle" /\ rtcpc' = "chosen"
    /\ \E sdp \in Offers : offer' = sdp /\ payloadType' = chooseCodec(sdp)
    /\ UNCHANGED <<iceVars, state, rtcViewers>>

\* The peer connection exists; setupTracks starts it.
NewPeer ==
    /\ rtcpc = "chosen" /\ rtcpc' = "setup"
    /\ offer' = <<>>
    /\ UNCHANGED <<payloadType, iceVars, state, rtcViewers>>

ChangeTo(st) ==
    /\ ice' = st /\ changes' = changes + 1
    /\ callbacks' = callbacks \cup {<<changes', st>>}

\* setupTracks succeeds and the serving goroutine starts, or the peer
\* connection is closed.
setupTracks ==
    /\ rtcpc = "setup"
    /\ \/ rtcpc' = "wait" /\ rtcViewers' = rtcViewers + 1 /\ UNCHANGED iceVars
       \/ rtcpc' = "closing" /\ UNCHANGED <<iceVars, rtcViewers>>
    /\ UNCHANGED <<offer, payloadType, state>>

\* External: the peer connection changes its state.
IceChange ==
    /\ rtcpc \in {"setup", "wait", "select", "read"} /\ changes < MaxChanges /\ ice # Closed
    /\ \E st \in New..Closed \ {ice} : ChangeTo(st)
    /\ UNCHANGED <<rtcpc, offer, payloadType, state, rtcViewers>>

\* The callback sends to the channel; it waits while the channel is full.
Report(c) ==
    /\ c \in callbacks /\ state = <<>>
    /\ callbacks' = callbacks \ {c} /\ state' = <<c[2]>>
    /\ UNCHANGED <<rtcpc, offer, payloadType, ice, changes, rtcViewers>>

\* serve waits for the first Connected.
AwaitConnected ==
    /\ rtcpc = "wait" /\ state # <<>>
    /\ rtcpc' = CASE state[1] = Connected -> "select"
                  [] state[1] > Connected -> "closing"
                  [] OTHER -> "wait"
    /\ state' = <<>>
    /\ UNCHANGED <<offer, payloadType, iceVars, rtcViewers>>

NoSelect ==                         \* the packet loop does not look at the state
    /\ rtcpc = "select" /\ rtcpc' = "read"
    /\ UNCHANGED <<offer, payloadType, iceVars, state, rtcViewers>>

\* The packet loop looks at the channel without waiting ...
Select ==
    /\ rtcpc = "select"
    /\ IF state = <<>> THEN rtcpc' = "read" /\ UNCHANGED state
       ELSE /\ rtcpc' = IF state[1] = Connected THEN "read" ELSE "closing"
            /\ state' = <<>>
    /\ UNCHANGED <<offer, payloadType, iceVars, rtcViewers>>

\* ... and passes a packet on, whatever becomes of the write, or ends with the
\* stream.
ReadPacket ==
    /\ rtcpc = "read" /\ rtcpc' \in {"select", "closing"}
    /\ UNCHANGED <<offer, payloadType, iceVars, state, rtcViewers>>

\* pc.Close, and addViewer(-1) if the goroutine had started.
Close ==
    /\ rtcpc = "closing" /\ rtcpc' = "done"
    /\ IF ice = Closed THEN UNCHANGED iceVars ELSE ChangeTo(Closed)
    /\ rtcViewers' = IF rtcViewers > 0 THEN rtcViewers - 1 ELSE 0
    /\ UNCHANGED <<offer, payloadType, state>>

Serve == NewPeer \/ setupTracks \/ AwaitConnected \/ Select \/ ReadPacket \/ Close

RtcNext == HandleSDP \/ IceChange \/ Serve \/ \E c \in callbacks : Report(c)

RtcSpec == RtcInit /\ [][RtcNext]_rtcVars

\* The stream has packets or ends, and callbacks run.
RtcFairness == WF_rtcVars(Serve) /\ WF_rtcVars(\E c \in callbacks : Report(c))

-----------------------------------------------------------------------------
\* The payload types an offer has for H264: an rtpmap and an fmtp of one media.
Offered ==
    UNION {{t \in H264Types(offer[m]) :
               t < 2^8 /\ [key |-> "fmtp", pt |-> t] \in Range(offer[m])} : m \in DOMAIN offer}

\* The codec is registered under the lowest payload type that the offer has for
\* H264, in whatever order and in whichever media it comes, and under the
\* default type when the offer has none.
LowestPayload ==
    rtcpc = "chosen" =>
       IF Offered = {} THEN payloadType = DefaultType
       ELSE payloadType \in Offered /\ \A t \in Offered : payloadType <= t

\* A viewer whose connection goes beyond Connected at any time (it completes,
\* disconnects, fails or closes) is let go and no longer counted, even when the
\* reports come late, out of order, or wait for a place in the channel.
LostPeerLeaves ==
    (rtcpc \in {"wait", "select", "read"} /\ ice > Connected) ~>
    (rtcpc = "done" /\ rtcViewers = 0)

=============================================================================
