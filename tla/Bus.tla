-------------------------------- MODULE Bus ---------------------------------
(***************************************************************************)
(* internal/web/bus.go: who listens for a user's changes, and which        *)
(* listeners have a signal waiting.  Each operation holds the mutex, so is *)
(* one atomic step.  A stream is named by the channel it subscribed with.  *)
(***************************************************************************)
CONSTANTS Users, Streams

VARIABLES
  subs,  \* the map of sets: listeners by user, with no key for a user nobody hears
  full   \* channels, of capacity one, that hold their one signal

Listeners(u) == IF u \in DOMAIN subs THEN subs[u] ELSE {}

BusTypeOK == /\ DOMAIN subs \subseteq Users
             /\ \A u \in DOMAIN subs : subs[u] \subseteq Streams
             /\ full \subseteq Streams

BusInit == subs = [u \in {} |-> {}] /\ full = {}

\* A new channel is empty.
Subscribe(u, s) ==
  /\ subs' = [v \in DOMAIN subs \cup {u} |-> IF v = u THEN Listeners(u) \cup {s} ELSE subs[v]]
  /\ full' = full \ {s}

\* Mutant: a user's key outlives the last listener.
UnsubscribeKeepingKey(u, s) ==
  /\ subs' = [v \in DOMAIN subs |-> IF v = u THEN subs[v] \ {s} ELSE subs[v]]
  /\ full' = full \ {s}

\* The last listener takes the user's key along.
Unsubscribe(u, s) ==
  LET left == Listeners(u) \ {s} IN
  /\ subs' = [v \in (IF left = {} THEN DOMAIN subs \ {u} ELSE DOMAIN subs) |->
                IF v = u THEN left ELSE subs[v]]
  /\ full' = full \ {s}

\* A signal already pending is left as it is: the new one is dropped.
Broadcast(u) == full' = full \cup Listeners(u) /\ subs' = subs

Receive(s) == s \in full /\ full' = full \ {s} /\ subs' = subs
=============================================================================
