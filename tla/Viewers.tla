------------------------------- MODULE Viewers -------------------------------
(***************************************************************************)
(* The viewers of a channel: ServeTS reads ch.aac, ServeSDP reads ch.opus, *)
(* and both keep ch.viewers (ingest/play.go, ingest/manager.go).  A viewer *)
(* holds on to the queue it was given while sessions come and go.          *)
(***************************************************************************)
EXTENDS Channel

CONSTANT Viewer              \* requests that may be in progress

ASSUME ViewerAssumption == IsFiniteSet(Viewer)

VARIABLES viewers,           \* ch.viewers
          vpc,               \* progress of the request
          vsrc               \* the queue behind its demuxer

viewVars == <<viewers, vpc, vsrc>>
allVars  == <<vars, viewVars>>

ViewInit ==
    /\ Init
    /\ viewers = 0
    /\ vpc = [v \in Viewer |-> "idle"]
    /\ vsrc = [v \in Viewer |-> None]

\* channel.queue: with no stream the request gets ErrNoChannel instead.
queue(kind) == IF kind = "rtc" THEN opus ELSE aac

Attach(v) ==
    /\ vpc[v] = "idle"
    /\ \E kind \in {"ts", "rtc"} :
          /\ queue(kind) # None
          /\ vpc' = [vpc EXCEPT ![v] = kind]
          /\ vsrc' = [vsrc EXCEPT ![v] = queue(kind)]
    /\ UNCHANGED viewers

AddViewer(v) ==
    /\ vpc[v] \in {"ts", "rtc"}
    /\ vpc' = [vpc EXCEPT ![v] = "counted"]
    /\ viewers' = viewers + 1
    /\ UNCHANGED vsrc

Gone(v) ==
    /\ vpc' = [vpc EXCEPT ![v] = "idle"]
    /\ vsrc' = [vsrc EXCEPT ![v] = None]

SetupFailsCounted(v) ==             \* addViewer(-1) deferred before the setup
    /\ vpc[v] = "rtc"
    /\ Gone(v)
    /\ viewers' = viewers - 1

\* HandleSDP turns the offer down before the viewer is counted.
SetupFails(v) ==
    /\ vpc[v] = "rtc"
    /\ Gone(v)
    /\ UNCHANGED viewers

\* The client holds the request up, and lets it go on: ServeTS is in WritePacket
\* while it does not read (the server has no WriteTimeout), rtcSender.serve waits
\* for a result of the ICE negotiation.
Stall(v) ==
    /\ vpc[v] = "counted"
    /\ vpc' = [vpc EXCEPT ![v] = "stalled"]
    /\ UNCHANGED <<viewers, vsrc>>

Resume(v) ==
    /\ vpc[v] = "stalled"
    /\ vpc' = [vpc EXCEPT ![v] = "counted"]
    /\ UNCHANGED <<viewers, vsrc>>

\* copyStream, or rtcSender.serve, returns because the client is gone, because
\* of an error or at the end of the queue; addViewer(-1) is deferred.
Leave(v) ==
    /\ vpc[v] \in {"counted", "stalled"}
    /\ Gone(v)
    /\ viewers' = viewers - 1

ViewerStep(v) ==
    Attach(v) \/ AddViewer(v) \/ SetupFails(v) \/ Stall(v) \/ Resume(v) \/ Leave(v)

ViewNext ==
    \/ Next /\ UNCHANGED viewVars
    \/ \E v \in Viewer : ViewerStep(v) /\ UNCHANGED vars

ViewSpec == ViewInit /\ [][ViewNext]_allVars

(***************************************************************************)
(* A reader of a closed queue reaches its end, as often as its client      *)
(* makes it wait: strong fairness, for each wait is over one of the        *)
(* packets that are left.  A client that stalls need never go on.          *)
(***************************************************************************)
ViewFairness ==
    /\ Fairness
    /\ \A v \in Viewer :
          SF_allVars(/\ vpc[v] = "counted" /\ vsrc[v] \in closed
                     /\ Leave(v) /\ UNCHANGED vars)

ViewFairSpec == ViewSpec /\ ViewFairness

-----------------------------------------------------------------------------
\* A viewer reads a queue that is closed, or one that a Publish call still in
\* progress will close: nobody is left on a queue without a writer, whichever
\* session took the channel over since it was handed out.
NoStrandedViewer ==
    \A v \in Viewer : \A s \in Session : \A k \in {"main", "opus"} :
       vsrc[v] = <<s, k>> => \/ pc[s] \in {"set", "running"}
                             \/ <<s, k>> \in closed

\* ch.viewers counts exactly the requests between addViewer(1) and the deferred
\* addViewer(-1), across restarts of the stream they watch.
ViewerCount == viewers = Cardinality({v \in Viewer : vpc[v] \in {"counted", "stalled"}})

\* When the last session has ended and no other starts, the deferred
\* addViewer(-1) of every viewer runs but of those whose client stalls and stays
\* connected: ch.viewers comes down to their number for good.
ViewersDrain ==
    (<>[]Ended) => <>[](viewers = Cardinality({v \in Viewer : vpc[v] = "stalled"}))

=============================================================================
