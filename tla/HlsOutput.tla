------------------------------ MODULE HlsOutput ------------------------------
(***************************************************************************)
(* What the HLS publisher of a channel is given: each session's copier     *)
(* writes to the publisher setStream returned, setStream itself starts a   *)
(* discontinuity, and all of them share the publisher of ch.hls            *)
(* (ingest/publish.go; hls.Publisher is external).                         *)
(***************************************************************************)
EXTENDS Channel

VARIABLE segment     \* whose packets follow the last discontinuity in ch.hls

allVars == <<vars, segment>>

HlsInit == Init /\ segment = {}

\* avutil.CopyFile(p, q.Latest()) writes a packet.  The queue holds packets
\* only once copyStream runs, and its readers may still have some to read
\* after it is closed.  A publisher that was replaced is in no playlist.
HlsWrite(s) ==
    /\ "hls" \in running[s]
    /\ segment' = IF pub[s] = hls THEN segment \cup {s} ELSE segment
    /\ UNCHANGED vars

\* Publisher.Discontinuity, or a new Publisher: either way an empty segment.
Restart(s) == SetStream(s) /\ segment' = {}

Reap == Cleanup /\ segment' = {}

HlsNext ==
    \/ \E s \in Session :
          \/ HlsWrite(s) \/ Restart(s)
          \/ /\ \/ Refuse(s) \/ Open(s) \/ StartOutputs(s) \/ Wait(s)
                \/ StopStream(s) \/ AnnounceStop(s) \/ TaskStep(s)
             /\ UNCHANGED segment
    \/ Reap
    \/ Expire /\ UNCHANGED segment

HlsSpec == HlsInit /\ [][HlsNext]_allVars

-----------------------------------------------------------------------------
\* setStream starts a discontinuity because the "stream restarted so viewer
\* should reset their decoder": the packets that follow it are those of the
\* stream on the air.
DiscontinuitySeparates ==
    \A s \in segment : ingest \in {None, Main(s)}

=============================================================================
