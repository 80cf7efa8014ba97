--------------------------- MODULE FrameForwarding ---------------------------
(***************************************************************************)
(* A forwarding PicoScenes host, the network and the remote logger.        *)
(***************************************************************************)
EXTENDS UDPForwarder, UDPRemoteLogger

ASSUME SentDiagramsAssumption == SentDiagrams = AllDiagrams

vars == <<networkVars, forwarderVars, loggerVars>>

Init == NetworkInit /\ ForwarderInit /\ LoggerInit

CommandStep ==
    /\ SetDestinationIP \/ SetDestinationPort
    /\ UNCHANGED loggerVars

RxHandleStep(t) ==
    /\ SendDiagram(t) \/ \E f \in Frames : IgnoreFrame(t, f) \/ SplitFrame(t, f)
    /\ UNCHANGED loggerVars

ReceiverStep(t) ==
    /\ Receive(t) \/ CopyOut(t) \/ Rearm(t)
    /\ UNCHANGED forwarderVars

DecoderStep == (DecodeWholeFrame \/ PassToConcat) /\ UNCHANGED forwarderVars

ConcatStep == ConcatFrame /\ UNCHANGED forwarderVars

DumperStep == DumpFrame /\ UNCHANGED forwarderVars

\* A datagram is lost, or goes to a host that is not the logger.
NetworkStep ==
    /\ \E d \in network :
        \/ Lose(d)
        \/ /\ ~Addressed(d)
           /\ network' = network \ {d}
           /\ UNCHANGED <<losses, duplicates>>
    /\ UNCHANGED <<forwarderVars, loggerVars>>

FailureStep == (ReceiveError \/ Exit) /\ UNCHANGED forwarderVars

\* Every frame is sent and what the network holds for the logger is logged.
Finished ==
    /\ pending = {} /\ \A t \in RxThreads : sending[t] = <<>>
    /\ cpc = "idle" /\ commandsDone = Len(Commands)
    /\ \/ exited
       \/ /\ network = {} /\ armed
          /\ decoderQueue = <<>> /\ concatQueue = <<>> /\ dumperQueue = <<>>
    /\ UNCHANGED vars

Next ==
    \/ CommandStep
    \/ \E t \in RxThreads : RxHandleStep(t)
    \/ \E t \in IoThreads : ReceiverStep(t)
    \/ DecoderStep
    \/ ConcatStep
    \/ DumperStep
    \/ NetworkStep
    \/ FailureStep
    \/ Finished

Spec == Init /\ [][Next]_vars

(***************************************************************************)
(* The threads of both programs run.  Nothing is assumed of the network    *)
(* but that a datagram it does not lose arrives while the logger listens.  *)
(***************************************************************************)
Fairness ==
    /\ WF_vars(CommandStep)
    /\ \A t \in RxThreads : WF_vars(RxHandleStep(t))
    /\ WF_vars(\E t \in IoThreads : ReceiverStep(t))
    /\ WF_vars(DecoderStep) /\ WF_vars(ConcatStep) /\ WF_vars(DumperStep)

FairSpec == Spec /\ Fairness

-----------------------------------------------------------------------------
\* The types of the variables of the forwarder, the network and the logger.
TypeOK ==
    /\ losses \in 0..MaxLosses /\ duplicates \in 0..MaxDuplicates
    /\ \A d \in network : d.diagram \in AllDiagrams
    /\ ForwarderTypeOK
    /\ LoggerTypeOK

(***************************************************************************)
(* The frames handed to the decoder were complete: every diagram of the    *)
(* frame was there, once ("concat them (if all segments are collected)",   *)
(* UDPRemoteLogger.cxx:44).                                                *)
(***************************************************************************)
MergedOnlyWhenCollected ==
    \A t \in DOMAIN merged :
        /\ Len(merged[t]) = merged[t][1].num
        /\ {merged[t][i].id : i \in DOMAIN merged[t]} = 0..(merged[t][1].num - 1)

Transfer == INSTANCE FrameTransfer
                WITH received <- Frames \ pending, logged <- dumped

(***************************************************************************)
(* The file of the logger holds whole frames of the forwarder, each at     *)
(* most once, whatever the interleaving of the threads and pipelines, the  *)
(* order of arrival and the losses, as long as the network duplicates      *)
(* nothing and no two task ids collide.                                    *)
(***************************************************************************)
ImplementsTransfer == Transfer!Spec

\* The last command that was executed, and how many of them have begun.
LastCommand == Commands[commandsDone]
CommandsBegun == IF cpc = "idle" THEN commandsDone ELSE commandsDone + 1

(***************************************************************************)
(* rxHandle tests both parts of the destination once (line 58) and reads   *)
(* them again for every diagram (line 97), while commands replace them one *)
(* after the other.  A diagram is sent all the same to an address and a    *)
(* port that commands gave, and to those of the last command when none is  *)
(* being executed and the last one was complete.                           *)
(***************************************************************************)
SentAsCommanded ==
    [][\A d \in network' \ network :
        /\ \E i \in 1..CommandsBegun : d.ip = Commands[i].ip
        /\ \E i \in 1..commandsDone : d.port = Commands[i].port /\ d.port # NoPort
        /\ cpc = "idle" /\ LastCommand.port # NoPort =>
              d.ip = LastCommand.ip /\ d.port = LastCommand.port]_vars

\* The destinations named by the first n commands.
Specified(n) == {Commands[i] : i \in {j \in 1..n : Commands[j].port # NoPort}}

(***************************************************************************)
(* A diagram sent while no command is being executed goes to an address    *)
(* and port given together in one command ("forward all received packets   *)
(* to the specified destination.", UDPForwarderPlugin.cxx:14).             *)
(***************************************************************************)
DestinationWasSpecifiedAtRest ==
    [][cpc = "idle" =>
        \A d \in network' \ network :
            [ip |-> d.ip, port |-> d.port] \in Specified(commandsDone)]_vars

(***************************************************************************)
(* A frame received once the destination is set is logged in the end, if   *)
(* nothing fails: the buffer of FrameConcat collects all its segments.     *)
(***************************************************************************)
EventuallyLogged ==
    \A f \in Frames : (f \in pending /\ HasDestination) ~> (f \in ToSet(dumped))
=============================================================================
