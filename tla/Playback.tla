------------------------------- MODULE Playback ------------------------------
(***************************************************************************)
(* The readers of a stream beside the HTTP viewers of Viewers: an RTSP     *)
(* connection, a WebRTC viewer, the HLS viewers' table and the frame       *)
(* grabber.  They share the queue, which each reads with a cursor of its   *)
(* own, and counters that they only add to, so that no step of one can     *)
(* change what another does: the specification lets one of them run in a   *)
(* behaviour, and its state space is their union instead of their product. *)
(***************************************************************************)
EXTENDS Rtsp, PlayRtc, HlsViewers, Grabber

Init == RtspInit /\ RtcInit /\ HlsInit /\ GrabInit

\* Components that have not started.
RtspIdle == conn = "idle"
RtcIdle  == rtcpc = "idle"
HlsIdle  == HlsInit
GrabIdle == GrabInit

Next ==
    \/ RtcIdle /\ HlsIdle /\ GrabIdle /\ RtspNext /\ UNCHANGED <<rtcVars, hlsVars, grabVars>>
    \/ RtspIdle /\ HlsIdle /\ GrabIdle /\ RtcNext /\ UNCHANGED <<rtspVars, hlsVars, grabVars>>
    \/ RtspIdle /\ RtcIdle /\ GrabIdle /\ HlsNext /\ UNCHANGED <<rtspVars, rtcVars, grabVars>>
    \/ RtspIdle /\ RtcIdle /\ HlsIdle /\ GrabNext /\ UNCHANGED <<rtspVars, rtcVars, hlsVars>>

\* No action that has to happen is enabled before its component has started.
Spec ==
    /\ Init
    /\ [][Next]_<<rtspVars, rtcVars, hlsVars, grabVars>>
    /\ RtspFairness /\ RtcFairness

=============================================================================
