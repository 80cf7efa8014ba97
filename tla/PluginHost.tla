----------------------------- MODULE PluginHost -----------------------------
(***************************************************************************)
(* One station with the EchoProbe and the demo plugin on the same NIC: any *)
(* sequence of commands of Commands, and frames of the peer at any time.   *)
(***************************************************************************)
EXTENDS EchoProbePlugin, DemoPlugin

CONSTANTS
    Commands,      \* the commands that may be given
    MaxCommands,   \* bound: commands given
    MaxFrames      \* bound: frames of the peer

\* Options with a count, if given, are positive, ranges and lists are of whole
\* numbers; --mode is not among the options.  A value that makes the parser
\* throw is not that of --output, which is a string.
ASSUME CommandsAssumption ==
    /\ DefaultRepeat \in Nat \ {0}
    /\ \A c \in Commands \cup {NoCommand} :
        /\ "workingMode" \notin DOMAIN c.set
        /\ \A o \in {"cf_repeat", "round_repeat", "batchLength"} \cap DOMAIN c.set :
               c.set[o] \in Nat \ {0}
        /\ \A o \in {"cf", "sf"} \cap DOMAIN c.set : c.set[o] \in ScanRange
        /\ "custom_channels" \in DOMAIN c.set => c.set.custom_channels \in Seq(Int)
        /\ c.fails # Unset => \E i \in 2..Len(OptionOrder) : c.fails = <<OptionOrder[i]>>

ASSUME BoundsAssumption == MaxCommands \in Nat /\ MaxFrames \in Nat

VARIABLES
    received,   \* frames of the peer so far
    calm,       \* history: rxHandle was not at work when the job began
    demoed,     \* history: there was a demo command since --mode was given
    output      \* history: the file name that a command asked for last

hostVars == <<received, calm, demoed, output>>

vars == <<workVars, services, commandVars, mine, handlerVars, hostVars>>

Init ==
    /\ PluginInit
    /\ received = 0 /\ calm = TRUE /\ demoed = FALSE /\ output = Unset

GiveCommand ==
    /\ begun < MaxCommands
    /\ \E c \in Commands :
        /\ BeginCommand(c)
        /\ demoed' = (demoed /\ c.mode = Unset)
        /\ output' = IF cpc' # "rest" /\ "outputFileName" \in DOMAIN c.set
                     THEN c.set.outputFileName ELSE output
    /\ UNCHANGED <<received, calm>>

DemoCommand ==
    /\ cpc = "rest"
    /\ begun < MaxCommands
    /\ begun' = begun + 1
    /\ demoed' = TRUE
    /\ \/ DemoLogger /\ UNCHANGED air
       \/ DemoInjector /\ Emit(<<BasicFrame>>)
    /\ UNCHANGED <<jpc, job, sfList, cfList, at, sent, prebuilt, tuned, cpc, command, failed,
                   params, mine, handlerVars, received, calm, output>>

Execute ==
    /\ CommandStep
    /\ calm' = IF cpc = "start" THEN hpc = "idle" ELSE calm
    /\ UNCHANGED <<received, demoed, output>>

Hear ==
    /\ received < MaxFrames
    /\ received' = received + 1
    /\ \E r \in Requests : Receive(r[1], r[2])
    /\ UNCHANGED <<calm, demoed, output>>

Handle == HandlerStep /\ UNCHANGED hostVars

Next == GiveCommand \/ DemoCommand \/ Execute \/ Hear \/ Handle

\* Both threads go on with what they are at.
Spec == Init /\ [][Next]_vars /\ WF_vars(Execute) /\ WF_vars(Handle)

-----------------------------------------------------------------------------
(* Invariants                                                              *)

ParametersOK(p) ==
    /\ DOMAIN p = DOMAIN Parameters
    /\ p.workingMode \in Modes
    /\ {p.cf_repeat, p.round_repeat, p.batchLength} \subseteq Nat \ {0}
    /\ p.cf \in ScanRange /\ p.sf \in ScanRange
    /\ p.custom_channels \in Seq(Int)

\* The types of the variables; a job works with the parameters of its command.
TypeOK ==
    /\ jpc \in WorkPcs /\ cpc \in CommandPcs /\ hpc \in HandlerPcs
    /\ ParametersOK(params) /\ ParametersOK(mine) /\ ParametersOK(job)
    /\ cpc = "working" => job = params
    /\ services \subseteq Services
    /\ tuned \in Tuning
    /\ begun \in 0..MaxCommands /\ received \in 0..MaxFrames
    /\ hpc \in {"shiftCF", "shiftSF"} => frame.type = "EchoProbeFreqChangeRequest"

(***************************************************************************)
(* After a command that succeeded the services are as its mode needs them, *)
(* whatever commands came before, failed ones among them: none after the   *)
(* job of an initiator (changelog.md:89) or a radar, and those a logger or *)
(* responder listens with.  Nothing is said of an injector, whose services *)
(* the code stops: changelog.md:89 agrees, while the comment at            *)
(* EchoProbePlugin.cxx:86-88 has it stop none.                             *)
(***************************************************************************)
ServicesFollowMode ==
    cpc = "rest" /\ ~failed /\ ~demoed =>
        /\ params.workingMode \in {"EchoProbeInitiator", "Radar"} => services = {}
        /\ params.workingMode = "Logger" => "Rx" \in services
        /\ params.workingMode = "EchoProbeResponder" => services = {"Rx", "Tx"}

(***************************************************************************)
(* The reply to a request has the session and the strategy asked for after *)
(* both segments went through their encodings, and carries what the        *)
(* initiator requires of a reply of this strategy.                         *)
(***************************************************************************)
AnswersAsAsked ==
    /\ hpc = "received" /\ frame.type # "other" =>
           /\ V1Parses(RequestToBuffer(frame.request))
           /\ Parsed[<<frame.type, frame.request>>] = frame.request
    /\ done.reply # Unset /\ frame.type = "EchoProbeRequest" =>
           LET reply == FromBuffer(ReplyToBuffer(done.reply[1].segment)) IN
           /\ reply.replyStrategy = frame.request.replyStrategy
           /\ reply.sessionId = frame.request.sessionId
           /\ AcceptsReply(done.reply[1])

-----------------------------------------------------------------------------
(* Action and temporal properties                                          *)

\* No command was begun since the frame came, and the last one succeeded.
UndisturbedFrame == hpc = "received" /\ frame.entered # 0 /\ frame.entered = begun

LastOutput(default) == <<ValueOr(output, default)>>

(***************************************************************************)
(* A frame that comes and is handled between two commands is treated as    *)
(* the commands asked: by the mode in force, logged to the file named      *)
(* last, and answered by a responder only, with the Tx service on.  The    *)
(* responder decides this from its own copy of the parameters              *)
(* (EchoProbePlugin.cxx:290-293), which not every command renews.          *)
(***************************************************************************)
HandledAsCommanded ==
    [][UndisturbedFrame /\ hpc' # "received" =>
         CASE params.workingMode = "Logger" ->
                 done' = [dump |-> LastOutput("rx"), reply |-> Unset]
           [] params.workingMode = "Radar" ->
                 done' = [dump |-> LastOutput("radar"), reply |-> Unset]
           [] params.workingMode = "EchoProbeResponder" ->
                 IF frame.type = "other" THEN done' = Nothing
                 ELSE /\ done'.dump = LastOutput("rx")
                      /\ done'.reply # Unset
                      /\ "Tx" \in services
           [] OTHER -> FALSE]_vars

(***************************************************************************)
(* While an injector or a radar injects, nobody else retunes the front end *)
(* they share with rxHandle, unless rxHandle was at work when the job      *)
(* began: receiving may be on, and peers may ask for a frequency change.   *)
(***************************************************************************)
InjectsAtPoint ==
    [][calm /\ cpc = "working" /\ air' # air =>
          \A n \in Len(air) + 1..Len(air') : air'[n].at = Point]_vars

(***************************************************************************)
(* Every command comes to its end and the thread is free for the next one, *)
(* unless it is a logger that hops.                                        *)
(***************************************************************************)
CommandsReturn == (cpc # "rest") ~> (cpc = "rest" \/ jpc = "hop")
=============================================================================
