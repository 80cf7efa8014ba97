---------------------------- MODULE UDPForwarder ----------------------------
(***************************************************************************)
(* The UDPForwarder plugin.  parseAndExecuteCommands, on the platform's    *)
(* command thread, sets the destination; rxHandle, on any of the threads   *)
(* that deliver received frames (its buffers are thread_local), splits a   *)
(* frame into diagrams and sends them, looking the destination up again    *)
(* for every diagram.  Nothing synchronises the two.                       *)
(***************************************************************************)
EXTENDS UDPNetwork, Sequences

CONSTANTS
    Frames,             \* the frames the NIC will receive
    SizeOf,             \* rxframe.toBuffer().size() of each
    TaskIdOf,           \* the random diagramTaskId rxHandle draws for each
    MaxDiagramLength,   \* maxDiagramLength, 65000 in the code
    Commands,           \* the --forward-to arguments, in the order they are given
    RxThreads           \* threads that call rxHandle

\* destinationPort without a value, and the port of an argument that has none.
NoPort == -1

\* destinationIP without a value, as pluginStatus shows it.
NoIP == "null"

ASSUME FramesAssumption ==
    /\ SizeOf \in [Frames -> Nat \ {0}]
    /\ TaskIdOf \in [Frames -> Nat]
    /\ MaxDiagramLength \in Nat \ {0}
ASSUME CommandsAssumption ==
    /\ Commands \in Seq({Commands[i] : i \in DOMAIN Commands})
    /\ \A i \in DOMAIN Commands :
        Commands[i].ip # NoIP /\ Commands[i].port \in Nat \cup {NoPort}

VARIABLES
    destinationIP,
    destinationPort,
    commandsDone,     \* commands parseAndExecuteCommands has returned from
    cpc,              \* where it is: idle, or between the two assignments
    pending,          \* frames not received yet
    sending           \* for each thread in rxHandle, the segments it has yet to send

forwarderVars == <<destinationIP, destinationPort, commandsDone, cpc, pending, sending>>

ForwarderInit ==
    /\ destinationIP = NoIP
    /\ destinationPort = NoPort
    /\ commandsDone = 0
    /\ cpc = "idle"
    /\ pending = Frames
    /\ sending = [t \in RxThreads |-> <<>>]

-----------------------------------------------------------------------------
(* parseAndExecuteCommands                                                 *)

Command == Commands[commandsDone + 1]

\* destinationIP = segments[0]
SetDestinationIP ==
    /\ cpc = "idle"
    /\ commandsDone < Len(Commands)
    /\ destinationIP' = Command.ip
    /\ cpc' = "port"
    /\ UNCHANGED <<networkVars, destinationPort, commandsDone, pending, sending>>

\* destinationPort = lexical_cast<uint16_t>(segments[1]), which may throw
SetDestinationPort ==
    /\ cpc = "port"
    /\ destinationPort' = IF Command.port = NoPort THEN destinationPort ELSE Command.port
    /\ commandsDone' = commandsDone + 1
    /\ cpc' = "idle"
    /\ UNCHANGED <<networkVars, destinationIP, pending, sending>>

-----------------------------------------------------------------------------
(* rxHandle                                                                *)

\* Mutant: one of the two is enough.
HasDestinationEither == destinationIP # NoIP \/ destinationPort # NoPort

HasDestination == destinationIP # NoIP /\ destinationPort # NoPort

\* A frame below maxDiagramLength is one segment, as the loop would make it.
NumSegments(f) == (SizeOf[f] + MaxDiagramLength - 1) \div MaxDiagramLength

\* Mutant: the last segment is as long as the others.
StepLengthFull(f, pos) == MaxDiagramLength

StepLength(f, pos) ==
    IF pos + MaxDiagramLength < SizeOf[f] THEN MaxDiagramLength ELSE SizeOf[f] - pos

(***************************************************************************)
(* The header of segment i and which bytes of the frame follow it.         *)
(***************************************************************************)
Diagram(f, i) ==
    [task |-> TaskIdOf[f], id |-> i, num |-> NumSegments(f),
     total |-> SizeOf[f], frame |-> f, from |-> i * MaxDiagramLength,
     len |-> StepLength(f, i * MaxDiagramLength)]

Segmentation(f) == [n \in 1..NumSegments(f) |-> Diagram(f, n - 1)]

\* No destination yet: the frame is not forwarded.
IgnoreFrame(t, f) ==
    /\ sending[t] = <<>>
    /\ f \in pending
    /\ ~HasDestination
    /\ pending' = pending \ {f}
    /\ UNCHANGED <<networkVars, destinationIP, destinationPort, commandsDone, cpc, sending>>

SplitFrame(t, f) ==
    /\ sending[t] = <<>>
    /\ f \in pending
    /\ HasDestination
    /\ pending' = pending \ {f}
    /\ sending' = [sending EXCEPT ![t] = Segmentation(f)]
    /\ UNCHANGED <<networkVars, destinationIP, destinationPort, commandsDone, cpc>>

SendDiagram(t) ==
    /\ sending[t] # <<>>
    /\ SendDatagram([ip |-> destinationIP, port |-> destinationPort,
                     diagram |-> Head(sending[t])])
    /\ sending' = [sending EXCEPT ![t] = Tail(@)]
    /\ UNCHANGED <<destinationIP, destinationPort, commandsDone, cpc, pending>>

-----------------------------------------------------------------------------
AllDiagrams == UNION {{Diagram(f, i) : i \in 0..(NumSegments(f) - 1)} : f \in Frames}

ForwarderTypeOK ==
    /\ destinationIP \in {NoIP} \cup {Commands[i].ip : i \in DOMAIN Commands}
    /\ destinationPort \in {NoPort} \cup {Commands[i].port : i \in DOMAIN Commands}
    /\ commandsDone \in 0..Len(Commands)
    /\ cpc \in {"idle", "port"}
    /\ cpc = "port" => commandsDone < Len(Commands)
    /\ pending \subseteq Frames
    /\ sending \in [RxThreads -> Seq(AllDiagrams)]
=============================================================================
