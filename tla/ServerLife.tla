----------------------------- MODULE ServerLife -----------------------------
(* What the echo servers promise their callers and clients, whatever threads,
   descriptors and failures are behind it: connections are served while the
   server is open, close() lets go of every one of them before the server counts
   as closed, and no connection is served twice. *)
CONSTANT Conns

VARIABLES
    life,           \* "closed", "open" or "closing"
    served,         \* connections that are being echoed
    ended           \* connections that have been

lifeVars == <<life, served, ended>>

Init == life = "closed" /\ served = {} /\ ended = {}

Opens == life = "closed" /\ life' = "open" /\ UNCHANGED <<served, ended>>

\* A connection accepted before close() may still get its worker after it.
Serves(c) ==
    /\ life # "closed" /\ c \notin served \cup ended
    /\ served' = served \cup {c}
    /\ UNCHANGED <<life, ended>>

Finishes(c) ==
    /\ c \in served
    /\ served' = served \ {c} /\ ended' = ended \cup {c}
    /\ UNCHANGED life

Closes == life = "open" /\ life' = "closing" /\ UNCHANGED <<served, ended>>

Closed ==
    /\ life = "closing" /\ served = {}
    /\ life' = "closed"
    /\ UNCHANGED <<served, ended>>

Next ==
    \/ Opens \/ Closes \/ Closed
    \/ \E c \in Conns : Serves(c) \/ Finishes(c)

Spec == Init /\ [][Next]_lifeVars
=============================================================================
