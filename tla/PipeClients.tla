---------------------------- MODULE PipeClients -----------------------------
(***************************************************************************)
(* Other processes that want something of the running program: a second    *)
(* launch, which finds the mutex of the session taken and asks the first   *)
(* to open its panel (src/cmd/idletrigger/main.go,                         *)
(* platform/windows/singleinstance), and a command of the command line     *)
(* (src/internal/cli).  Both send one line through a named pipe            *)
(* (platform/windows/ipc), whose server makes a new end for each client    *)
(* and has the line carried out by the request loop.                       *)
(*                                                                         *)
(* What the loop does is RequestLoop's; Program composes the two.          *)
(***************************************************************************)
EXTENDS Naturals, FiniteSets, Sequences

CONSTANTS
    Launches,        \* processes that start the program again
    Commands,        \* processes of the command line
    MaxConnections   \* maxConnections: ends of the pipe (8)

Clients == Launches \cup Commands

VARIABLES
    life,    \* the first process: "up", "released" (the mutex) or "ended"
    pipe,    \* its server: "off", "create" (an end) or "listen"
    client,  \* process -> its place
    callers  \* the clients whose line is with the loop, in its order

pipeVars == <<life, pipe, client, callers>>

Places == {"new", "try", "connected", "calling", "answered", "primary", "gaveUp"}

TypeOK ==
    /\ life \in {"up", "released", "ended"}
    /\ pipe \in {"off", "create", "listen"}
    /\ client \in [Clients -> Places]
    /\ callers \in Seq(Clients)
    /\ \A i, j \in DOMAIN callers : i # j => callers[i] # callers[j]

Init ==
    /\ life = "up" /\ pipe = "off"
    /\ client = [c \in Clients |-> "new"]
    /\ callers = <<>>

Move(c, place) == client' = [client EXCEPT ![c] = place]

\* handleConn has begun and not ended: the places in the channel connections
Connected == {c \in Clients : client[c] \in {"connected", "calling"}}
-----------------------------------------------------------------------------
(* The clients *)

\* singleinstance.Acquire.  A process that has taken the place runs on its own
MutexFree == life # "up" /\ \A c \in Launches : client[c] # "primary"

Acquire(c) ==
    /\ c \in Launches /\ client[c] = "new"
    /\ Move(c, IF MutexFree THEN "primary" ELSE "try")
    /\ UNCHANGED <<life, pipe, callers>>

\* cli.Run, up to ipc.Send
CommandStarts(c) ==
    /\ c \in Commands /\ client[c] = "new"
    /\ Move(c, "try")
    /\ UNCHANGED <<life, pipe, callers>>

\* Send: CreateFile finds an end that listens
Connect(c) ==
    /\ client[c] = "try" /\ pipe = "listen"
    /\ Move(c, "connected")
    /\ pipe' = "create"
    /\ UNCHANGED <<life, callers>>

\* A command is refused at once; a launch tries for two seconds, much longer than
\* the server takes to make the next end
Refused(c) ==
    /\ client[c] = "try" /\ pipe # "listen"
    /\ c \in Launches => pipe = "off" \/ Cardinality(Connected) = MaxConnections
    /\ Move(c, "gaveUp")
    /\ UNCHANGED <<life, pipe, callers>>

\* The process is ended, or its line cannot be written or read
Breaks(c) ==
    /\ client[c] = "connected"
    /\ Move(c, "gaveUp")
    /\ UNCHANGED <<life, pipe, callers>>
-----------------------------------------------------------------------------
(* The server, in the first process *)

\* onReady has started it
ServerStarts ==
    /\ pipe = "off" /\ pipe' = "create"
    /\ UNCHANGED <<life, client, callers>>

\* Mutant of HasRoom: an end is counted until the program ends
HasRoomForNew ==
    Cardinality({c \in Clients : client[c] \notin {"new", "try"}}) < MaxConnections

\* A place in connections, whose holder gives it back when it is done
HasRoom == Cardinality(Connected) < MaxConnections

CreateEnd ==
    /\ pipe = "create" /\ HasRoom
    /\ pipe' = "listen"
    /\ UNCHANGED <<life, client, callers>>

\* handleConn has read the line and calls the handler, which waits in s.call
Calls(c) ==
    /\ client[c] = "connected"
    /\ Move(c, "calling")
    /\ callers' = Append(callers, c)
    /\ UNCHANGED <<life, pipe>>

\* The result is the first caller's.  Send gives it to a launch whatever it says
Answer ==
    /\ Move(Head(callers), "answered")
    /\ callers' = Tail(callers)
    /\ UNCHANGED <<life, pipe>>

\* main's deferred Release; then the process ends, and its pipe with it: a launch
\* that waits in Send tries again
Release ==
    /\ life = "up" /\ life' = "released"
    /\ UNCHANGED <<pipe, client, callers>>

Ends ==
    /\ life = "released" /\ life' = "ended"
    /\ pipe' = "off" /\ callers' = <<>>
    /\ client' = [c \in Clients |->
                    IF c \notin Connected THEN client[c]
                    ELSE IF c \in Launches THEN "try" ELSE "gaveUp"]

Client(c) == Acquire(c) \/ CommandStarts(c) \/ Connect(c) \/ Refused(c)
=============================================================================
