------------------------------ MODULE Arguments ------------------------------
(* The command line of example-8 (main.cpp; that of example-6 is read the same
   way, without tasks).  An argument is a tuple: an action word alone, or a
   parameter with its value.  The loop over the arguments assigns each parameter
   it meets, so that the last one counts.  Of the parameters only those remain
   that matter to some program: main drops key and cert, though its help names
   them. *)
EXTENDS Integers, FiniteSetsExt, Sequences

CONSTANTS
    PortMax,        \* UINT16_MAX
    ULongMax,       \* ULONG_MAX
    DefaultPort,    \* 5044
    NotANumber,     \* the value of a port that has no digits
    NoValue         \* a parameter that is not given

ASSUME ArgumentsAssumption ==
    /\ PortMax \in Nat /\ ULongMax \in Nat /\ PortMax <= ULongMax
    /\ DefaultPort \in 0..PortMax
    /\ NotANumber \notin Int

Words == {"server", "client", "algorithm"}

Actions(line) == {word \in Words : \E i \in DOMAIN line : line[i][1] = word}

\* The values given for a parameter, by position.
Given(line, name) == {i \in DOMAIN line : line[i][1] = name}

LatestOf(line, positions, default) ==
    IF positions = {} THEN default ELSE line[Max(positions)][2]

\* std::stoul takes a minus sign and negates modulo the width of unsigned long.
stoul(n) == n % (ULongMax + 1)

\* Mutant of PortFits: the range is not checked before the number is narrowed.
PortIsNumber(value) == value # NotANumber

\* What is refused leaves the port as it was.
PortFits(value) == value # NotANumber /\ stoul(value) <= PortMax

\* (unsigned short)inputPort
Narrow(n) == n % (PortMax + 1)

parseArguments(line) ==
    [actions |-> Actions(line),
     task |-> LatestOf(line, Given(line, "task"), NoValue),
     input |-> LatestOf(line, Given(line, "input"), NoValue),
     port |-> LET fitting == {i \in Given(line, "port") : PortFits(line[i][2])} IN
              IF fitting = {} THEN DefaultPort ELSE Narrow(stoul(LatestOf(line, fitting, 0)))]

\* A number beyond unsigned long makes stoul throw std::out_of_range, which is
\* not caught: the program terminates, whatever else is on the line.
Terminates(line) ==
    \E i \in Given(line, "port") :
        line[i][2] # NotANumber /\ line[i][2] \notin (-ULongMax)..ULongMax

\* What main runs: the server, the client or the task, and nothing unless
\* exactly one action is given.
Selected(line) ==
    LET configuration == parseArguments(line) IN
    IF Terminates(line) THEN NoValue
    ELSE IF configuration.actions = {"algorithm"} THEN configuration.task
    ELSE IF configuration.actions = {"server"} THEN "server"
    ELSE IF configuration.actions = {"client"} THEN "client"
    ELSE NoValue
=============================================================================
