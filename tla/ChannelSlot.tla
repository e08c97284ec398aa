----------------------------- MODULE ChannelSlot -----------------------------
(***************************************************************************)
(* What a channel promises: a slot that one session holds at a time.  A    *)
(* session takes the slot once, and in the same step the session it takes  *)
(* it from is cut off; only the holder gives the slot up, and only after   *)
(* its own stream has ended.  Channel implements this specification.       *)
(***************************************************************************)
CONSTANTS Session, None

VARIABLES owner,     \* the session that holds the slot, or None
          seen,      \* sessions that hold or have held it
          open       \* sessions whose stream can still carry packets

Init == owner = None /\ seen = {} /\ open = {}

\* A session takes the slot; its stream may have failed before it gets there.
Take(s) ==
    /\ s \notin seen
    /\ seen' = seen \cup {s}
    /\ owner' = s
    /\ open' \in {{}, {s}}

\* The stream of the holder ends.
End(s) ==
    /\ s \in open
    /\ open' = open \ {s}
    /\ UNCHANGED <<owner, seen>>

\* The holder, its stream ended, gives the slot up.
Release(s) ==
    /\ owner = s /\ s \notin open
    /\ owner' = None
    /\ UNCHANGED <<seen, open>>

Next == \E s \in Session : Take(s) \/ End(s) \/ Release(s)

Spec == Init /\ [][Next]_<<owner, seen, open>>

=============================================================================
