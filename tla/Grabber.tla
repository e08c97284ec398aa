------------------------------- MODULE Grabber -------------------------------
(***************************************************************************)
(* The frame grabber (sinks/grabber/grabber.go): it collects the packets   *)
(* of each key picture, has one decoded every 10 seconds at most, and says *)
(* with it whether the stream has B-frames, which WebRTC cannot show.  An  *)
(* FTL stream has a packet for each NAL unit, so that a picture is several *)
(* packets of the same time, and the grabber knows its end only from the   *)
(* packet that follows.                                                    *)
(***************************************************************************)
EXTENDS Integers, Sequences

CONSTANTS MaxTime,      \* bound: the last time of a packet
          MaxSlices,    \* bound: key packets of a picture
          Window        \* 30 s: how long a B-frame is remembered

ASSUME GrabAssumption == MaxTime \in Nat /\ MaxSlices \in Nat /\ Window \in Nat

VARIABLES
    prev,        \* the last video packet of the stream: its time and kind
    buf,         \* the times of the key packets collected
    keyTime, lastBframe,
    due,         \* the last grab is grabInterval or more ago
    grabch,      \* the channel of one place: results not yet taken
    frame,       \* what makeFrame was last given
    picture,     \* history: the key packets of the picture that prev is of
    bframe       \* history: the time of the last B-frame, or 0

grabVars == <<prev, buf, keyTime, lastBframe, due, grabch, frame, picture, bframe>>

Packet == [time : 0..MaxTime, kind : {"key", "P", "B"}]

GrabInit ==
    /\ prev = [time |-> 0, kind |-> "P"]
    /\ buf = <<>> /\ keyTime = 0 /\ lastBframe = 0
    /\ due = TRUE /\ grabch = <<>> /\ frame = <<>>
    /\ picture = <<>> /\ bframe = 0

\* A video packet of a stream whose times do not go back: of a later picture, or of
\* the one before, whose key slices come last.  An FTL stream that UDP reorders, or
\* that has B-frames, whose times come in decoding order, is not such a stream.
Follows(pkt) ==
    \/ pkt.time > prev.time
    \/ pkt.time = prev.time /\ (prev.kind = "key" => pkt.kind = "key")
       /\ Len(picture) < MaxSlices

FlushesOnOther(pkt) ==              \* without the comparison of the times
    buf # <<>> /\ pkt.kind # "key"

Flushes(pkt) == buf # <<>> /\ (pkt.kind # "key" \/ pkt.time # keyTime)

\* The buffer holds a whole picture: it becomes a frame when one is due, and a
\* result goes to the channel unless an older one is still there.
Flush(pkt) ==
    IF Flushes(pkt) /\ due
    THEN /\ frame' = buf /\ due' = FALSE
         /\ grabch' = IF grabch = <<>> THEN <<[HasBframes |-> lastBframe # 0,
                                               at |-> prev.time, b |-> bframe]>>
                      ELSE grabch
    ELSE UNCHANGED <<frame, due, grabch>>

RememberPerGop(pkt) ==              \* a key frame starts afresh
    IF pkt.kind = "key" THEN 0
    ELSE IF pkt.kind = "B" THEN pkt.time ELSE lastBframe

\* What the packet leaves of the memory of B-frames.
Remember(pkt) ==
    LET last == IF pkt.kind = "B" THEN pkt.time ELSE lastBframe IN
    IF pkt.kind = "key" THEN lastBframe
    ELSE IF last # 0 /\ pkt.time - last > Window THEN 0 ELSE last

\* One round of the loop of Grab.  Packets of other tracks change nothing.
Grab(pkt) ==
    /\ Follows(pkt)
    /\ Flush(pkt)
    /\ buf' = (IF Flushes(pkt) THEN <<>> ELSE buf) \o
              (IF pkt.kind = "key" THEN <<pkt.time>> ELSE <<>>)
    /\ keyTime' = IF pkt.kind = "key" THEN pkt.time ELSE keyTime
    /\ lastBframe' = Remember(pkt)
    /\ prev' = pkt
    /\ picture' = IF pkt.kind # "key" THEN <<>>
                  ELSE (IF pkt.time = prev.time THEN picture ELSE <<>>) \o <<pkt.time>>
    /\ bframe' = IF pkt.kind = "B" THEN pkt.time ELSE bframe

\* Wall-clock time passes.
GrabDue ==
    /\ due' = TRUE
    /\ UNCHANGED <<prev, buf, keyTime, lastBframe, grabch, frame, picture, bframe>>

\* The notifier takes a result.
TakeResult ==
    /\ grabch # <<>> /\ grabch' = <<>>
    /\ UNCHANGED <<prev, buf, keyTime, lastBframe, due, frame, picture, bframe>>

GrabNext == (\E pkt \in Packet : Grab(pkt)) \/ GrabDue \/ TakeResult

GrabSpec == GrabInit /\ [][GrabNext]_grabVars

-----------------------------------------------------------------------------
\* Every frame is made of one whole key picture: all the key packets of it, and
\* no packet of another, also when key pictures follow each other directly.
WholePicture ==
    [][frame' # frame =>
          frame' = picture /\ (prev'.kind = "key" => prev'.time > prev.time)]_grabVars

\* A result that reports no B-frames, which opens the channel to WebRTC, comes
\* from a picture with none in the 30 seconds of stream before it, however many
\* key frames passed and however long the result waits in the channel.  (A
\* B-frame at time 0 of the stream is not remembered.)
NoHiddenBframe ==
    \A i \in DOMAIN grabch :
        ~grabch[i].HasBframes => grabch[i].b = 0 \/ grabch[i].at - grabch[i].b > Window

=============================================================================
