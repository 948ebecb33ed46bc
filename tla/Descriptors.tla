---------------------------- MODULE Descriptors ----------------------------
(* The part of the kernel the server relies on: the descriptor table of the
   process.  It is external to the program and modelled from the calls the
   program makes: ::socket and ::accept hand out the lowest free number,
   ::close makes the number free again even when it reports an error. *)
EXTENDS Integers, FiniteSets

CONSTANTS
    Conns,      \* the connections peers open; each is used at most once
    MaxFd,      \* descriptors of the process left for sockets
    Free,       \* content of an unused table entry
    Unbound,    \* a socket before listen()
    Listening   \* a socket after listen()

ASSUME DescriptorsAssumption ==
    /\ MaxFd \in Nat \ {0}
    /\ IsFiniteSet(Conns)
    /\ {Free, Unbound, Listening} \cap Conns = {}
    /\ Free # Unbound /\ Free # Listening /\ Unbound # Listening

NoFd == -1
Fds == 1..MaxFd
MaybeFd == Fds \cup {NoFd}
Files == Conns \cup {Free, Unbound, Listening}
Tables == [Fds -> Files]

FreeFds(table) == {f \in Fds : table[f] = Free}

\* What the next ::socket or ::accept returns: nothing if the table is full.
LowestFree(table) == {f \in FreeFds(table) : \A g \in FreeFds(table) : f <= g}

Install(table, f, file) == [table EXCEPT ![f] = file]

\* ::close(f); on -1 or an unused number it changes nothing.
Release(table, f) == IF f \in Fds THEN [table EXCEPT ![f] = Free] ELSE table
=============================================================================
