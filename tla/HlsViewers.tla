----------------------------- MODULE HlsViewers ------------------------------
(***************************************************************************)
(* The table of HLS viewers of a channel (ingest/manager.go): every HLS    *)
(* request notes the time for its host, and the notifiers of the sessions, *)
(* two of which overlap when one session replaces another, count the hosts *)
(* of the last 16 seconds and drop the others.  sync.Map makes single      *)
(* operations atomic; a Range is not, nor is the test followed by Delete.  *)
(***************************************************************************)
EXTENDS Integers, FiniteSets

CONSTANTS Host, Counter,
          Timeout     \* hlsViewTimeout, in ticks of the clock

ASSUME HlsAssumption == IsFiniteSet(Host) /\ Timeout \in Nat

Absent == -1
Late == Timeout + 1           \* any age above hlsViewTimeout

VARIABLES
    hlsv,        \* for each host the age of its entry, or Absent
    counts,      \* the running calls of countHLSViewers
    hlsvTotal,
    watched,     \* history: the age of each host's last request, or Absent
    steady       \* history: hosts whose requests never were Late

hlsVars == <<hlsv, counts, hlsvTotal, watched, steady>>

NoCount == [pc |-> "idle", todo |-> {}, doomed |-> {}, views |-> 0,
            least |-> {}, most |-> {}]

HlsInit ==
    /\ hlsv = [h \in Host |-> Absent] /\ watched = hlsv /\ steady = {}
    /\ counts = [c \in Counter |-> NoCount]
    /\ hlsvTotal = 0

Older(age) == IF age \in {Absent, Late} THEN age ELSE age + 1
Watching(w) == {h \in Host : w[h] \in 0..Timeout}

Tick ==
    /\ hlsv' = [h \in Host |-> Older(hlsv[h])]
    /\ watched' = [h \in Host |-> Older(watched[h])]
    /\ steady' = steady \ {h \in Host : watched'[h] = Late}
    /\ counts' = [c \in Counter |-> [counts[c] EXCEPT !.least = @ \cap steady']]
    /\ UNCHANGED hlsvTotal

hlsViewedOnce(h) ==                 \* LoadOrStore: keeps the first time
    /\ hlsv' = [hlsv EXCEPT ![h] = IF @ = Absent THEN 0 ELSE @]
    /\ watched' = [watched EXCEPT ![h] = 0]
    /\ steady' = IF watched[h] = Absent THEN steady \cup {h} ELSE steady
    /\ counts' = [c \in Counter |-> [counts[c] EXCEPT !.most = @ \cup {h}]]
    /\ UNCHANGED hlsvTotal

\* ServeHLS notes the host before it looks for a publisher, so that a request
\* that is answered with 404 counts as well.
hlsViewed(h) ==
    /\ hlsv' = [hlsv EXCEPT ![h] = 0]
    /\ watched' = [watched EXCEPT ![h] = 0]
    /\ steady' = IF watched[h] = Absent THEN steady \cup {h} ELSE steady
    /\ counts' = [c \in Counter |-> [counts[c] EXCEPT !.most = @ \cup {h}]]
    /\ UNCHANGED hlsvTotal

\* countHLSViewers: Range visits the hosts of the table; it may or may not
\* visit one that comes later.
BeginCount(c) ==
    /\ counts[c].pc = "idle"
    /\ \E extra \in SUBSET {h \in Host : hlsv[h] = Absent} :
          counts' = [counts EXCEPT ![c] =
             [pc |-> "range", todo |-> extra \cup {h \in Host : hlsv[h] # Absent},
              doomed |-> {}, views |-> 0, least |-> steady, most |-> Watching(watched)]]
    /\ UNCHANGED <<hlsv, hlsvTotal, watched, steady>>

Visit(c, h) ==
    /\ counts[c].doomed = {} /\ h \in counts[c].todo
    /\ counts' = [counts EXCEPT
          ![c].todo = @ \ {h},
          ![c].doomed = IF hlsv[h] = Late THEN {h} ELSE {},
          ![c].views = IF hlsv[h] \in 0..Timeout THEN @ + 1 ELSE @]
    /\ UNCHANGED <<hlsv, hlsvTotal, watched, steady>>

\* The entry that was too old is deleted, whatever it holds by now.
Delete(c) ==
    /\ counts[c].doomed # {}
    /\ hlsv' = [h \in Host |-> IF h \in counts[c].doomed THEN Absent ELSE hlsv[h]]
    /\ counts' = [counts EXCEPT ![c].doomed = {}]
    /\ UNCHANGED <<hlsvTotal, watched, steady>>

Counted(c) == counts[c].pc = "range" /\ counts[c].todo = {} /\ counts[c].doomed = {}

StoreTotal(c) ==
    /\ Counted(c)
    /\ hlsvTotal' = counts[c].views
    /\ counts' = [counts EXCEPT ![c] = NoCount]
    /\ UNCHANGED <<hlsv, watched, steady>>

HlsNext ==
    \/ Tick
    \/ \E h \in Host : hlsViewed(h)
    \/ \E c \in Counter : \/ BeginCount(c) \/ Delete(c) \/ StoreTotal(c)
                          \/ \E h \in Host : Visit(c, h)

HlsSpec == HlsInit /\ [][HlsNext]_hlsVars

-----------------------------------------------------------------------------
\* What a count stores holds every host that has watched without a gap since
\* before the count began (a Delete that comes late hits only a host that had
\* let its time pass), and none that did not watch at some time during it,
\* though hosts ask, entries age and another notifier deletes meanwhile.
HlsCount ==
    \A c \in Counter : Counted(c) =>
        Cardinality(counts[c].least) <= counts[c].views /\
        counts[c].views <= Cardinality(counts[c].most)

=============================================================================
