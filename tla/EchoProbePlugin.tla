-------------------------- MODULE EchoProbePlugin ---------------------------
(***************************************************************************)
(* EchoProbePlugin on one station: the thread that executes commands, one  *)
(* at a time, and the thread that delivers received frames to rxHandle.    *)
(* They share the parameters of the plugin, the responder's copy of them,  *)
(* and the front end.  A command runs a job of EchoProbeWork.              *)
(***************************************************************************)
EXTENDS EchoProbeWork, EchoProbeSegments, PlatformNIC, FiniteSets

CONSTANTS
    DefaultRepeat,   \* the default of --repeat
    Requests         \* what the peer sends: <<type, request>>

RequestTypes == {"EchoProbeRequest", "EchoProbeFreqChangeRequest"}

\* Any request, or a frame that is none.
ASSUME RequestsAssumption ==
    Requests \subseteq (RequestTypes \X Request) \cup {<<"other", NoData>>}

VARIABLES
    cpc,       \* where the command thread is
    command,   \* the command it executes
    begun,     \* history: the number of commands begun
    failed,    \* history: the last command ended with an exception
    params,    \* EchoProbePlugin::parameters
    mine,      \* EchoProbeResponder::parameters
    hpc,       \* where rxHandle is
    frame,     \* the frame it handles
    done       \* history: what it did with the last frame it finished

commandVars == <<cpc, command, begun, failed, params>>
handlerVars == <<hpc, frame, done>>

(***************************************************************************)
(* rest       : no command is executed                                     *)
(* services   : the mode is set, its services are not yet started          *)
(* options    : the other options are not yet parsed                       *)
(* copyMode, copyRest : in responder->startJob, the assignment of the      *)
(*              parameters, which handle may see half done                 *)
(* start      : initiator->startJob is next                                *)
(* working    : in unifiedEchoProbeWork                                    *)
(* stopRx, stopTx : after the job                                          *)
(***************************************************************************)
CommandPcs == {"rest", "services", "options", "copyMode", "copyRest", "start",
               "working", "stopRx", "stopTx"}

HandlerPcs == {"idle", "received", "shiftCF", "shiftSF"}

(***************************************************************************)
(* A command: its --mode, the options it has besides, with their values,   *)
(* and the option whose value makes the parser throw, if any.              *)
(***************************************************************************)
NoCommand == [mode |-> Unset, set |-> <<>>, fails |-> Unset]

\* The order in which the options are parsed; ack-mcs only has a check here.
OptionOrder ==
    <<"outputFileName", "napa", "cf", "sf", "cf_repeat", "round_repeat", "ndpContent",
      "useBatchAPI", "batchLength", "ack_mcs", "logger_cf_interval_ms", "custom_channels">>

\* The options with a default value are parsed in every command.
Defaults ==
    [cf_repeat |-> DefaultRepeat, round_repeat |-> 1, useBatchAPI |-> FALSE,
     logger_cf_interval_ms |-> 0]

Ranges == {"cf", "sf"}

(***************************************************************************)
(* Whether the command gets as far as this option.  The parts of a range   *)
(* are assigned one by one: a range that makes the parser throw is reached *)
(* with the parts before the malformed one, the parts c.set gives it.      *)
(***************************************************************************)
Reaches(c, option) ==
    \/ c.fails = Unset
    \/ option \in Ranges /\ c.fails = <<option>>
    \/ \E i, j \in DOMAIN OptionOrder :
            OptionOrder[i] = option /\ OptionOrder[j] = c.fails[1] /\ i < j

\* The parts of a range that are left empty keep their values.
Merged(old, new) == [part \in DOMAIN old |-> IF new[part] = Unset THEN old[part] ELSE new[part]]

\* The value a command gives an option, if only by default.
Gives(c) == DOMAIN c.set \cup DOMAIN Defaults

Value(c, option) == IF option \in DOMAIN c.set THEN c.set[option] ELSE Defaults[option]

WithOptions(p, c) ==
    [o \in DOMAIN p |->
        IF o \notin Gives(c) \/ ~Reaches(c, o) THEN p[o]
        ELSE IF o \in Ranges THEN Merged(p[o], Value(c, o))
        ELSE Value(c, o)]

Nothing == [dump |-> Unset, reply |-> Unset]

NoFrame == [type |-> "none", request |-> NoData, entered |-> 0]

PluginInit ==
    /\ WorkInit /\ ServicesInit
    /\ cpc = "rest" /\ command = NoCommand
    /\ begun = 0 /\ failed = FALSE
    /\ params = Parameters /\ mine = Parameters
    /\ hpc = "idle" /\ frame = NoFrame /\ done = Nothing

-----------------------------------------------------------------------------
(* parseAndExecuteCommands                                                 *)

BeginCommand(c) ==
    /\ cpc = "rest"
    /\ begun' = begun + 1
    /\ command' = c
    /\ IF c.mode = Unset
       THEN cpc' = "options" /\ failed' = FALSE /\ UNCHANGED params
       ELSE IF c.mode[1] \in Modes \ {"Standby"}
       THEN /\ params' = [params EXCEPT !.workingMode = c.mode[1]]
            /\ cpc' = "services" /\ failed' = FALSE
       ELSE cpc' = "rest" /\ failed' = TRUE /\ UNCHANGED params
    /\ UNCHANGED <<workVars, services, mine, handlerVars>>

ServicesOf(mode) ==
    CASE mode = "Injector" -> {"Tx"}
      [] mode = "Logger"   -> {"Rx"}
      [] mode \in {"EchoProbeResponder", "EchoProbeInitiator", "Radar"} -> {"Rx", "Tx"}

StartModeServices ==
    /\ cpc = "services"
    /\ StartServices(ServicesOf(params.workingMode))
    /\ cpc' = "options"
    /\ UNCHANGED <<workVars, command, begun, failed, params, mine, handlerVars>>

\* The modes whose parameters the responder gets.
CopiesToResponder == {"EchoProbeResponder", "Logger", "Radar"}

ParseOptions ==
    /\ cpc = "options"
    /\ params' = WithOptions(params, command)
    /\ failed' = (command.fails # Unset)
    /\ cpc' = IF command.fails # Unset \/ params.workingMode = "Standby" THEN "rest"
              ELSE IF params.workingMode \in CopiesToResponder THEN "copyMode" ELSE "start"
    /\ UNCHANGED <<workVars, services, command, begun, mine, handlerVars>>

CopyMode ==
    /\ cpc = "copyMode"
    /\ mine' = [mine EXCEPT !.workingMode = params.workingMode]
    /\ cpc' = "copyRest"
    /\ UNCHANGED <<workVars, services, command, begun, failed, params, handlerVars>>

\* Mutant: the file of the first command is kept.
CopyRestOnce ==
    /\ cpc = "copyRest"
    /\ mine' = IF mine.outputFileName = Unset THEN params
               ELSE [params EXCEPT !.outputFileName = mine.outputFileName]
    /\ cpc' = "start"
    /\ UNCHANGED <<workVars, services, command, begun, failed, params, handlerVars>>

CopyRest ==
    /\ cpc = "copyRest"
    /\ mine' = params
    /\ cpc' = "start"
    /\ UNCHANGED <<workVars, services, command, begun, failed, params, handlerVars>>

\* An exception of the job ends the command where it is.
StartWork ==
    /\ cpc = "start"
    /\ \/ StartJob(params) /\ cpc' = "working" /\ UNCHANGED failed
       \/ FailToStart(params) /\ cpc' = "rest" /\ failed' = TRUE
    /\ UNCHANGED <<services, command, begun, params, mine, handlerVars>>

Work ==
    /\ cpc = "working"
    /\ WorkStep
    /\ UNCHANGED <<services, commandVars, mine, handlerVars>>

\* Mutant: the radar goes on receiving and transmitting.
StopsServicesNotRadar == {"EchoProbeInitiator", "Injector"}

\* The modes after whose jobs the services are stopped.
StopsServices == {"EchoProbeInitiator", "Injector", "Radar"}

WorkReturns ==
    /\ cpc = "working"
    /\ jpc = "returned"
    /\ cpc' = IF params.workingMode \in StopsServices THEN "stopRx" ELSE "rest"
    /\ UNCHANGED <<workVars, services, command, begun, failed, params, mine, handlerVars>>

StopRx ==
    /\ cpc = "stopRx"
    /\ StopService("Rx")
    /\ cpc' = "stopTx"
    /\ UNCHANGED <<workVars, command, begun, failed, params, mine, handlerVars>>

StopTx ==
    /\ cpc = "stopTx"
    /\ StopService("Tx")
    /\ cpc' = "rest"
    /\ UNCHANGED <<workVars, command, begun, failed, params, mine, handlerVars>>

CommandStep ==
    \/ StartModeServices \/ ParseOptions \/ CopyMode \/ CopyRest
    \/ StartWork \/ Work \/ WorkReturns
    \/ StopRx \/ StopTx

-----------------------------------------------------------------------------
(* rxHandle and EchoProbeResponder::handle                                 *)

\* Mutant: every frame is passed to the responder.
ListensAlways == TRUE

Listens == params.workingMode \in {"EchoProbeResponder", "Logger", "Radar"}

(***************************************************************************)
(* A frame of the peer comes to rxHandle: its type and its request, NoData *)
(* if it has none.  "entered" is history: the number of the command after  *)
(* which it came, 0 during a command or after a failed one.                *)
(***************************************************************************)
Receive(type, request) ==
    /\ hpc = "idle"
    /\ "Rx" \in services
    /\ Listens
    /\ hpc' = "received"
    /\ frame' = [type |-> type, request |-> request,
                 entered |-> IF cpc = "rest" /\ ~failed THEN begun ELSE 0]
    /\ done' = Nothing
    /\ UNCHANGED <<workVars, services, commandVars, mine>>

\* What the constructor of EchoProbeRequestSegment makes of the bytes of r.
Parsed == [r \in Requests |-> IF r[2] = NoData THEN NoData ELSE Received(r[2])]

DefaultFile == IF mine.workingMode = "Radar" THEN "radar" ELSE "rx"

File == <<ValueOr(mine.outputFileName, DefaultFile)>>

Ignored ==
    \/ mine.workingMode \in {"Standby", "Injector", "EchoProbeInitiator"}
    \/ mine.workingMode = "EchoProbeResponder" /\ frame.type = "other"

IgnoreFrame ==
    /\ hpc = "received"
    /\ Ignored
    /\ hpc' = "idle"
    /\ UNCHANGED <<workVars, services, commandVars, mine, frame, done>>

LogFrame ==
    /\ hpc = "received"
    /\ mine.workingMode \in {"Logger", "Radar"}
    /\ done' = [Nothing EXCEPT !.dump = File]
    /\ hpc' = "idle"
    /\ UNCHANGED <<workVars, services, commandVars, mine, frame>>

Ack == [type |-> "EchoProbeFreqChangeACK", segment |-> NoData, payloads |-> {}]

\* Mutant: the frequencies of every request are looked at.
AnswerFrameAndShift ==
    /\ hpc = "received"
    /\ mine.workingMode = "EchoProbeResponder"
    /\ frame.type # "other"
    /\ done' = [dump |-> File, reply |-> <<MakeReply(Parsed[<<frame.type, frame.request>>])>>]
    /\ hpc' = "shiftCF"
    /\ UNCHANGED <<workVars, services, commandVars, mine, frame>>

\* A reply and its dump; a frequency change is begun after the ACK.
AnswerFrame ==
    /\ hpc = "received"
    /\ mine.workingMode = "EchoProbeResponder"
    /\ frame.type # "other"
    /\ IF frame.type = "EchoProbeRequest"
       THEN /\ done' = [dump |-> File, reply |-> <<MakeReply(Parsed[<<frame.type, frame.request>>])>>]
            /\ hpc' = "idle"
       ELSE /\ done' = [dump |-> File, reply |-> <<Ack>>]
            /\ hpc' = "shiftCF"
    /\ UNCHANGED <<workVars, services, commandVars, mine, frame>>

\* After the pauses, each part of the tuning that is given is set.
ShiftPart(pc, part, next) ==
    /\ hpc = pc
    /\ LET value == Parsed[<<frame.type, frame.request>>][part]
       IN  tuned' = IF value > 0 THEN [tuned EXCEPT ![part] = value] ELSE tuned
    /\ hpc' = next
    /\ UNCHANGED <<jpc, job, sfList, cfList, at, sent, prebuilt, air,
                   services, commandVars, mine, frame, done>>

ShiftResponderCF == ShiftPart("shiftCF", "cf", "shiftSF")

ShiftResponderSF == ShiftPart("shiftSF", "sf", "idle")

HandlerStep ==
    \/ IgnoreFrame \/ LogFrame \/ AnswerFrame
    \/ ShiftResponderCF \/ ShiftResponderSF
=============================================================================
