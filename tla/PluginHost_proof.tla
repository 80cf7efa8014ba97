-------------------------- MODULE PluginHost_proof --------------------------
(***************************************************************************)
(* Theorems about PluginHost, for all commands, requests and bounds.       *)
(***************************************************************************)
EXTENDS PluginHost, EchoProbeWork_proof

\* Where the services stand at every point of a command.
ServicesInv ==
    /\ services \subseteq Services
    /\ command \in Commands \cup {NoCommand}
    /\ "workingMode" \in DOMAIN params
    /\ cpc = "services" => params.workingMode \in Modes \ {"Standby"}
    /\ cpc # "services" /\ params.workingMode = "Logger" => "Rx" \in services
    /\ cpc # "services" /\ params.workingMode = "EchoProbeResponder" => services = Services
    /\ cpc \in {"stopRx", "stopTx"} => params.workingMode \in StopsServices
    /\ cpc = "stopTx" => "Rx" \notin services
    /\ cpc = "rest" /\ ~failed /\ ~demoed /\ params.workingMode \in StopsServices => services = {}

LEMMA ModeKept ==
    ASSUME NEW p, NEW c \in Commands \cup {NoCommand}, "workingMode" \in DOMAIN p
    PROVE  /\ WithOptions(p, c).workingMode = p.workingMode
           /\ DOMAIN WithOptions(p, c) = DOMAIN p
<1>1. "workingMode" \notin Gives(c)
  BY CommandsAssumption DEF Gives, Defaults
<1> QED
  BY <1>1 DEF WithOptions

LEMMA ServicesInitially == Init => ServicesInv
  BY DEF Init, PluginInit, ServicesInit, ServicesInv, Parameters, StopsServices, Services

LEMMA ServicesStep == ServicesInv /\ [Next]_vars => ServicesInv'
<1> SUFFICES ASSUME ServicesInv, [Next]_vars PROVE ServicesInv'
  OBVIOUS
<1>1. CASE GiveCommand
  <2>1. PICK c \in Commands : BeginCommand(c) /\ demoed' = (demoed /\ c.mode = Unset)
    BY <1>1 DEF GiveCommand
  <2>2. CASE c.mode = Unset
    BY <2>1, <2>2 DEF BeginCommand, ServicesInv
  <2>3. CASE c.mode # Unset /\ c.mode[1] \in Modes \ {"Standby"}
    BY <2>1, <2>3 DEF BeginCommand, ServicesInv
  <2>4. CASE c.mode # Unset /\ c.mode[1] \notin Modes \ {"Standby"}
    BY <2>1, <2>4 DEF BeginCommand, ServicesInv
  <2> QED
    BY <2>2, <2>3, <2>4
<1>2. CASE DemoCommand
  BY <1>2 DEF DemoCommand, DemoLogger, DemoInjector, StartServices, commandVars, ServicesInv,
              Services, StopsServices
<1>3. CASE Execute
  <2>1. CASE StartModeServices
    <3>1. /\ cpc = "services" /\ cpc' = "options"
          /\ services' = services \cup ServicesOf(params.workingMode)
          /\ UNCHANGED <<command, params>>
      BY <2>1 DEF StartModeServices, StartServices
    <3>2. /\ ServicesOf(params.workingMode) \subseteq Services
          /\ params.workingMode = "Logger" => "Rx" \in ServicesOf(params.workingMode)
          /\ params.workingMode = "EchoProbeResponder" =>
                 Services \subseteq ServicesOf(params.workingMode)
      BY <3>1 DEF ServicesInv, Modes, ServicesOf, Services
    <3> HIDE DEF ServicesOf
    <3> QED
      BY <3>1, <3>2 DEF ServicesInv
  <2>2. CASE ParseOptions
    BY <2>2, <1>3, ModeKept DEF Execute, ParseOptions, ServicesInv, StopsServices,
                               CopiesToResponder
  <2>3. CASE CopyMode \/ CopyRest
    BY <2>3, <1>3 DEF Execute, CopyMode, CopyRest, ServicesInv
  <2>4. CASE StartWork
    BY <2>4, <1>3 DEF Execute, StartWork, ServicesInv
  <2>5. CASE Work
    BY <2>5, <1>3 DEF Execute, Work, commandVars, ServicesInv
  <2>6. CASE WorkReturns
    BY <2>6, <1>3 DEF Execute, WorkReturns, ServicesInv
  <2>7. CASE StopRx
    BY <2>7, <1>3 DEF Execute, StopRx, StopService, ServicesInv, StopsServices, Services
  <2>8. CASE StopTx
    BY <2>8, <1>3 DEF Execute, StopTx, StopService, ServicesInv, StopsServices, Services
  <2> QED
    BY <1>3, <2>1, <2>2, <2>3, <2>4, <2>5, <2>6, <2>7, <2>8 DEF Execute, CommandStep
<1>4. CASE Hear \/ Handle \/ UNCHANGED vars
  <2>1. UNCHANGED <<services, commandVars, demoed>>
    BY <1>4 DEF Hear, Receive, Handle, HandlerStep, IgnoreFrame, LogFrame, AnswerFrame,
                ShiftResponderCF, ShiftResponderSF, ShiftPart, hostVars, vars
  <2> QED
    BY <2>1 DEF ServicesInv, commandVars
<1> QED
  BY <1>1, <1>2, <1>3, <1>4 DEF Next

(***************************************************************************)
(* After every command that succeeded the services are those of its mode.  *)
(***************************************************************************)
THEOREM ServicesCorrect == Spec => []ServicesFollowMode
<1>1. ServicesInv => ServicesFollowMode
  BY DEF ServicesInv, ServicesFollowMode, StopsServices, Services
<1> QED
  BY <1>1, ServicesInitially, ServicesStep, PTL DEF Spec

-----------------------------------------------------------------------------
(* The encodings of requests and replies                                   *)

HasAt(b, pos, v, width) ==
    /\ pos \in Nat /\ width \in Positive /\ pos + width <= Len(b)
    /\ \A k \in 1..width : b[pos + k] = <<v, k>>

\* A value is read where its bytes are.
LEMMA ReadAt ==
    ASSUME NEW b, IsSeq(b), NEW pos, NEW v, NEW width, HasAt(b, pos, v, width)
    PROVE  Read(b, pos, width) = v
<1>1. /\ pos \in Nat /\ width \in Nat \ {0} /\ Len(b) \in Nat /\ pos + width <= Len(b)
      /\ \A k \in 1..width : b[pos + k] = <<v, k>>
  BY SeqDomain DEF HasAt, Positive
<1>2. b[pos + 1] = <<v, 1>> /\ b[pos + 1][1] = v
  BY <1>1
<1>3. SubSeq(b, pos + 1, pos + width) = Bytes(v, width)
  <2>1. PICK S : b \in Seq(S)
    BY DEF IsSeq
  <2> DEFINE t == SubSeq(b, pos + 1, pos + width)
  <2>2. t \in Seq(S) /\ Len(t) = width /\ \A k \in 1..width : t[k] = b[pos + k]
    BY <1>1, <2>1
  <2>3. t = [k \in 1..width |-> t[k]]
    BY <2>2
  <2> HIDE DEF t
  <2>4. t = [k \in 1..width |-> <<v, k>>]
    BY <1>1, <2>2, <2>3
  <2> QED
    BY <2>4 DEF Bytes, t
<1> QED
  BY <1>2, <1>3 DEF Read

\* c is b with the value appended: what could be read is still in its place.
Follows(c, b, v, width) ==
    /\ Len(c) = Len(b) + width
    /\ width # 0 => HasAt(c, Len(b), v, width)
    /\ \A pos, x, n : HasAt(b, pos, x, n) => HasAt(c, pos, x, n)

LEMMA Appended ==
    ASSUME NEW b, IsSeq(b), NEW v, NEW width \in Nat
    PROVE  Follows(b \o Bytes(v, width), b, v, width) /\ IsSeq(b \o Bytes(v, width))
<1> DEFINE t == Bytes(v, width)
           c == b \o t
<1>1. IsSeq(t) /\ Len(t) = width /\ \A k \in 1..width : t[k] = <<v, k>>
  <2>1. t = [k \in 1..width |-> t[k]]
    BY DEF Bytes
  <2>2. \A k \in 1..width : t[k] = <<v, k>>
    BY DEF Bytes
  <2> HIDE DEF t
  <2> QED
    BY <2>1, <2>2, FunctionIsSeq
<1> HIDE DEF t
<1>2. /\ IsSeq(c) /\ Len(b) \in Nat /\ Len(c) = Len(b) + width
      /\ \A n \in Len(b) + 1..Len(b) + width : c[n] = t[n - Len(b)]
      /\ \A n \in 1..Len(b) : c[n] = b[n]
  BY <1>1, ConcatIsSeq
<1> HIDE DEF c
<1>3. ASSUME width # 0 PROVE HasAt(c, Len(b), v, width)
  <2>1. ASSUME NEW k \in 1..width PROVE c[Len(b) + k] = <<v, k>>
    <3>1. Len(b) + k \in Len(b) + 1..Len(b) + width /\ (Len(b) + k) - Len(b) = k
      BY <1>2
    <3> QED
      BY <1>1, <1>2, <3>1
  <2> QED
    BY <1>2, <1>3, <2>1 DEF HasAt, Positive
<1>4. ASSUME NEW pos, NEW x, NEW n, HasAt(b, pos, x, n) PROVE HasAt(c, pos, x, n)
  <2>1. /\ pos \in Nat /\ n \in Nat \ {0} /\ pos + n <= Len(b)
        /\ \A k \in 1..n : b[pos + k] = <<x, k>>
    BY <1>4 DEF HasAt, Positive
  <2>2. \A k \in 1..n : pos + k \in 1..Len(b)
    BY <1>2, <2>1
  <2>3. \A k \in 1..n : c[pos + k] = <<x, k>>
    BY <1>2, <2>1, <2>2
  <2>4. pos + n <= Len(c)
    BY <1>2, <2>1
  <2> QED
    BY <2>1, <2>3, <2>4 DEF HasAt, Positive
<1> QED
  BY <1>2, <1>3, <1>4 DEF Follows, c, t

LEMMA BytesIsSeq ==
    ASSUME NEW v, NEW width \in Positive
    PROVE  LET b == Bytes(v, width) IN
           IsSeq(b) /\ Len(b) = width /\ HasAt(b, 0, v, width)
<1> DEFINE b == Bytes(v, width)
<1>1. \A k \in 1..width : b[k] = <<v, k>>
  BY DEF Bytes
<1>2. IsSeq(b) /\ Len(b) = width
  <2>1. b = [k \in 1..width |-> b[k]]
    BY DEF Bytes
  <2> HIDE DEF b
  <2> QED
    BY <2>1, FunctionIsSeq DEF Positive
<1> HIDE DEF b
<1> QED
  BY <1>1, <1>2 DEF HasAt, Positive, b

LEMMA FirstByte ==
    ASSUME NEW v
    PROVE  IsSeq(Bytes(v, 1)) /\ Len(Bytes(v, 1)) = 1 /\ HasAt(Bytes(v, 1), 0, v, 1)
<1>1. 1 \in Positive
  BY DEF Positive
<1> QED
  BY <1>1, BytesIsSeq

(***************************************************************************)
(* The buffer of a request has every field where v1Parser reads it, and    *)
(* v1Parser comes to its end.                                              *)
(***************************************************************************)
LEMMA RequestBuffer ==
    ASSUME NEW r \in Request
    PROVE  LET b == RequestToBuffer(r) IN
           /\ IsSeq(b) /\ Len(b) = 30
           /\ \A f \in DOMAIN V1Reads : HasAt(b, V1Reads[f][1], r[f], V1Reads[f][2])
<1> DEFINE b1  == Bytes(r.deviceProbingStage, 1)
           b2  == b1 \o Bytes(r.replyStrategy, 1)
           b3  == b2 \o Bytes(r.sessionId, 2)
           b4  == b3 \o Bytes(r.repeat, 2)
           b5  == b4 \o Bytes(r.ackMCS, 2)
           b6  == b5 \o Bytes(r.ackNumSTS, 2)
           b7  == b6 \o Bytes(r.ackCBW, 2)
           b8  == b7 \o Bytes(r.ackGI, 2)
           b9  == b8 \o Bytes(r.cf, 8)
           b10 == b9 \o Bytes(r.sf, 8)
<1>0. RequestToBuffer(r) = b10
  BY DEF RequestToBuffer
<1>b. /\ b2 = b1 \o Bytes(r.replyStrategy, 1)
      /\ b3 = b2 \o Bytes(r.sessionId, 2)
      /\ b4 = b3 \o Bytes(r.repeat, 2)
      /\ b5 = b4 \o Bytes(r.ackMCS, 2)
      /\ b6 = b5 \o Bytes(r.ackNumSTS, 2)
      /\ b7 = b6 \o Bytes(r.ackCBW, 2)
      /\ b8 = b7 \o Bytes(r.ackGI, 2)
      /\ b9 = b8 \o Bytes(r.cf, 8)
      /\ b10 = b9 \o Bytes(r.sf, 8)
  OBVIOUS
<1>1. IsSeq(b1) /\ Len(b1) = 1 /\ HasAt(b1, 0, r.deviceProbingStage, 1)
  BY FirstByte
<1> HIDE DEF b1, b2, b3, b4, b5, b6, b7, b8, b9, b10
<1>2. Follows(b2, b1, r.replyStrategy, 1) /\ IsSeq(b2)
  BY <1>b, <1>1, Appended
<1>3. Follows(b3, b2, r.sessionId, 2) /\ IsSeq(b3)
  BY <1>b, <1>2, Appended
<1>4. Follows(b4, b3, r.repeat, 2) /\ IsSeq(b4)
  BY <1>b, <1>3, Appended
<1>5. Follows(b5, b4, r.ackMCS, 2) /\ IsSeq(b5)
  BY <1>b, <1>4, Appended
<1>6. Follows(b6, b5, r.ackNumSTS, 2) /\ IsSeq(b6)
  BY <1>b, <1>5, Appended
<1>7. Follows(b7, b6, r.ackCBW, 2) /\ IsSeq(b7)
  BY <1>b, <1>6, Appended
<1>8. Follows(b8, b7, r.ackGI, 2) /\ IsSeq(b8)
  BY <1>b, <1>7, Appended
<1>9. Follows(b9, b8, r.cf, 8) /\ IsSeq(b9)
  BY <1>b, <1>8, Appended
<1>10. Follows(b10, b9, r.sf, 8) /\ IsSeq(b10)
  BY <1>b, <1>9, Appended
<1>11. /\ Len(b10) = 30
       /\ HasAt(b10, 0, r.deviceProbingStage, 1) /\ HasAt(b10, 1, r.replyStrategy, 1)
       /\ HasAt(b10, 2, r.sessionId, 2) /\ HasAt(b10, 4, r.repeat, 2)
       /\ HasAt(b10, 6, r.ackMCS, 2) /\ HasAt(b10, 8, r.ackNumSTS, 2)
       /\ HasAt(b10, 10, r.ackCBW, 2) /\ HasAt(b10, 12, r.ackGI, 2)
       /\ HasAt(b10, 14, r.cf, 8) /\ HasAt(b10, 22, r.sf, 8)
  BY <1>1, <1>2, <1>3, <1>4, <1>5, <1>6, <1>7, <1>8, <1>9, <1>10 DEF Follows
<1> QED
  BY <1>0, <1>10, <1>11 DEF V1Reads

(***************************************************************************)
(* A request arrives as it was sent.                                       *)
(***************************************************************************)
LEMMA RequestArrives ==
    ASSUME NEW r \in Request
    PROVE  V1Parses(RequestToBuffer(r)) /\ Received(r) = r
<1> DEFINE b == RequestToBuffer(r)
<1>1. /\ IsSeq(b) /\ Len(b) = 30
      /\ \A f \in DOMAIN V1Reads : HasAt(b, V1Reads[f][1], r[f], V1Reads[f][2])
  BY RequestBuffer
<1> HIDE DEF b
<1>2. V1Parses(b)
  BY <1>1 DEF V1Parses, V1Reads
<1>3. \A f \in DOMAIN V1Reads : Read(b, V1Reads[f][1], V1Reads[f][2]) = r[f]
  BY <1>1, ReadAt
<1>4. DOMAIN V1Reads = DOMAIN r /\ r = [f \in DOMAIN r |-> r[f]]
  <2> DEFINE fields == {"deviceProbingStage", "replyStrategy", "sessionId", "repeat", "ackMCS",
                        "ackNumSTS", "ackCBW", "ackGI", "cf", "sf"}
  <2>1. DOMAIN V1Reads = fields
    BY DEF V1Reads
  <2>2. DOMAIN r = fields
    BY DEF Request
  <2>3. r = [f \in DOMAIN r |-> r[f]]
    BY DEF Request
  <2> QED
    BY <2>1, <2>2, <2>3
<1>5. V1Parser(b) = r
  <2>1. V1Parser(b) = [f \in DOMAIN V1Reads |-> Read(b, V1Reads[f][1], V1Reads[f][2])]
    BY DEF V1Parser
  <2>2. V1Parser(b) = [f \in DOMAIN V1Reads |-> r[f]]
    BY <1>3, <2>1
  <2> QED
    BY <1>4, <2>2
<1> QED
  BY <1>2, <1>5 DEF Received, b

PayloadNames == {NoName, NameOfCSI, NameOfFull}

(***************************************************************************)
(* A reply arrives as it was sent, with or without the name of a payload.  *)
(***************************************************************************)
LEMMA ReplyArrives ==
    ASSUME NEW s, NEW session, NEW name \in PayloadNames
    PROVE  LET reply == [replyStrategy |-> s, sessionId |-> session, payloadName |-> name]
           IN  FromBuffer(ReplyToBuffer(reply)) = reply
<1> DEFINE b1 == Bytes(s, 1)
           b2 == b1 \o Bytes(session, 2)
           b3 == b2 \o Bytes(name, 1)
           b4 == b3 \o Bytes(name, name)
<1>0. ReplyToBuffer([replyStrategy |-> s, sessionId |-> session, payloadName |-> name]) = b4
  BY DEF ReplyToBuffer
<1>b. /\ b2 = b1 \o Bytes(session, 2) /\ b3 = b2 \o Bytes(name, 1)
      /\ b4 = b3 \o Bytes(name, name)
  OBVIOUS
<1>1. IsSeq(b1) /\ Len(b1) = 1 /\ HasAt(b1, 0, s, 1)
  BY FirstByte
<1>2. name \in Nat
  BY DEF PayloadNames, NoName, NameOfCSI, NameOfFull
<1> HIDE DEF b1, b2, b3, b4
<1>3. Follows(b2, b1, session, 2) /\ IsSeq(b2)
  BY <1>b, <1>1, Appended
<1>4. Follows(b3, b2, name, 1) /\ IsSeq(b3)
  BY <1>b, <1>3, Appended
<1>5. Follows(b4, b3, name, name) /\ IsSeq(b4)
  BY <1>b, <1>2, <1>4, Appended
<1>6. /\ HasAt(b4, 0, s, 1) /\ HasAt(b4, 1, session, 2) /\ HasAt(b4, 3, name, 1)
      /\ name # 0 => HasAt(b4, 4, name, name)
  BY <1>1, <1>3, <1>4, <1>5 DEF Follows
<1>7. Read(b4, 0, 1) = s /\ Read(b4, 1, 2) = session
  BY <1>5, <1>6, ReadAt
<1>8. b4[4] = <<name, 1>> /\ b4[4][1] = name
  <2>1. \A k \in 1..1 : b4[3 + k] = <<name, k>>
    BY <1>6 DEF HasAt
  <2>2. b4[3 + 1] = <<name, 1>>
    BY <2>1
  <2> QED
    BY <2>2
<1>9. name # 0 => Read(b4, 4, name) = name
  BY <1>5, <1>6, ReadAt
<1> QED
  BY <1>0, <1>7, <1>8, <1>9 DEF FromBuffer, NoName

\* The reply to a request is what the initiator asks of an answer to it.
LEMMA ReplyAccepted ==
    ASSUME NEW r \in Request
    PROVE  LET reply == FromBuffer(ReplyToBuffer(MakeReply(r).segment)) IN
           /\ reply.replyStrategy = r.replyStrategy
           /\ reply.sessionId = r.sessionId
           /\ AcceptsReply(MakeReply(r))
<1> DEFINE s == r.replyStrategy
           segment == [replyStrategy |-> s, sessionId |-> r.sessionId,
                       payloadName |-> PayloadName(s)]
<1>1. s \in {0, 1, 2, 3}
  BY DEF Request, Strategies, ReplyOnlyHeader, ReplyWithFullPayload
<1>2. MakeReply(r) = [type |-> "EchoProbeReply", segment |-> segment, payloads |-> Payloads(s)]
  BY DEF MakeReply
<1> HIDE DEF s
<1>3. PayloadName(s) \in PayloadNames
  BY DEF PayloadName, PayloadNames
<1>4. FromBuffer(ReplyToBuffer(segment)) = segment
  BY <1>3, ReplyArrives
<1>5. /\ s = 2 => Payloads(s) = {<<NameOfCSI, "SignalMatrix">>} /\ PayloadName(s) = NameOfCSI
      /\ s = 3 => /\ Payloads(s) = {<<NameOfFull, "FullPicoScenesPacket">>}
                  /\ PayloadName(s) = NameOfFull
  BY DEF Payloads, PayloadName, ReplyWithCSI, ReplyWithFullPayload
<1> DEFINE named == {p \in Payloads(s) : p[1] = PayloadName(s)}
<1>6. /\ s = 2 => named # {}
      /\ s = 3 => \E p \in named : p[2] = "FullPicoScenesPacket"
  <2>1. ASSUME s = 2 PROVE <<NameOfCSI, "SignalMatrix">> \in named
    BY <1>5, <2>1
  <2>2. ASSUME s = 3
        PROVE  /\ <<NameOfFull, "FullPicoScenesPacket">> \in named
               /\ <<NameOfFull, "FullPicoScenesPacket">>[2] = "FullPicoScenesPacket"
    BY <1>5, <2>2
  <2> HIDE DEF named
  <2> QED
    BY <2>1, <2>2
<1>7. MakeReply(r).segment = segment /\ MakeReply(r).payloads = Payloads(s)
  BY <1>2
<1>8. segment.replyStrategy = s /\ segment.sessionId = r.sessionId
      /\ segment.payloadName = PayloadName(s)
  OBVIOUS
<1> HIDE DEF segment
<1>9. AcceptsReply(MakeReply(r)) <=>
        \/ s \in {0, 1}
        \/ s = 2 /\ named # {}
        \/ s = 3 /\ \E p \in named : p[2] = "FullPicoScenesPacket"
  BY <1>4, <1>7, <1>8 DEF AcceptsReply, ReplyOnlyHeader, ReplyWithExtraInfo, ReplyWithCSI,
                          ReplyWithFullPayload
<1> HIDE DEF named
<1> QED
  BY <1>1, <1>4, <1>6, <1>7, <1>8, <1>9 DEF s

-----------------------------------------------------------------------------
(* Types                                                                   *)

LEMMA MergedType ==
    ASSUME NEW old \in ScanRange, NEW new \in ScanRange
    PROVE  Merged(old, new) \in ScanRange
  BY DEF Merged, ScanRange

LEMMA ParametersTyped ==
    ASSUME NEW p, ParametersOK(p)
    PROVE  JobOK(p)
  BY DEF ParametersOK, JobOK, Positive

LEMMA ParametersInitially == ParametersOK(Parameters)
<1>1. Parameters.workingMode \in Modes
  BY DEF Parameters, Modes
<1> QED
  BY <1>1, ParametersAreOK DEF ParametersOK, JobOK, Positive

\* The options of a command are of the types of the parameters.
LEMMA OptionsKeepTypes ==
    ASSUME NEW p, ParametersOK(p), NEW c \in Commands \cup {NoCommand}
    PROVE  ParametersOK(WithOptions(p, c))
<1> DEFINE q == WithOptions(p, c)
<1>1. DOMAIN p = DOMAIN Parameters /\ DOMAIN q = DOMAIN p
  BY DEF ParametersOK, WithOptions
<1>2. {"workingMode", "cf", "sf", "cf_repeat", "round_repeat", "batchLength",
       "custom_channels"} \subseteq DOMAIN p
  BY <1>1 DEF Parameters
<1>3. ASSUME NEW o \in DOMAIN p, o \notin {"cf", "sf"}
      PROVE  q[o] = p[o] \/ (o \in Gives(c) /\ q[o] = Value(c, o))
  BY <1>3 DEF WithOptions, Ranges
<1>4. ASSUME NEW o \in {"cf", "sf"}
      PROVE  q[o] = p[o] \/ (o \in Gives(c) /\ q[o] = Merged(p[o], Value(c, o)))
  BY <1>2, <1>4 DEF WithOptions, Ranges
<1>5. q.workingMode \in Modes
  BY <1>2, ModeKept DEF ParametersOK
<1>6. ASSUME NEW o \in {"cf_repeat", "round_repeat", "batchLength"}
      PROVE  q[o] \in Nat \ {0}
  <2>1. p[o] \in Nat \ {0}
    BY <1>6 DEF ParametersOK
  <2>2. o \in Gives(c) => Value(c, o) \in Nat \ {0}
    BY <1>6, CommandsAssumption DEF Gives, Value, Defaults
  <2> HIDE DEF q
  <2> QED
    BY <1>2, <1>3, <1>6, <2>1, <2>2
<1>7. ASSUME NEW o \in {"cf", "sf"}
      PROVE  q[o] \in ScanRange
  <2>1. p[o] \in ScanRange
    BY <1>7 DEF ParametersOK
  <2>2. o \in Gives(c) => Value(c, o) \in ScanRange
    BY <1>7, CommandsAssumption DEF Gives, Value, Defaults
  <2> HIDE DEF q
  <2> QED
    BY <1>4, <2>1, <2>2, MergedType
<1>8. q.custom_channels \in Seq(Int)
  <2>1. p.custom_channels \in Seq(Int)
    BY DEF ParametersOK
  <2>2. "custom_channels" \in Gives(c) => Value(c, "custom_channels") \in Seq(Int)
    BY CommandsAssumption DEF Gives, Value, Defaults
  <2> HIDE DEF q
  <2> QED
    BY <1>2, <1>3, <2>1, <2>2
<1> HIDE DEF q
<1> QED
  BY <1>1, <1>5, <1>6, <1>7, <1>8 DEF ParametersOK, q

(***************************************************************************)
(* A job goes on only in the command that began it, and with the           *)
(* parameters of that command.  What rxHandle has at hand, or has answered *)
(* last, is a frame of the peer, and a reply is the one to its request.    *)
(***************************************************************************)
FrameOK ==
    /\ hpc # "idle" \/ done.reply # Unset => <<frame.type, frame.request>> \in Requests
    /\ hpc \in {"shiftCF", "shiftSF"} => frame.type = "EchoProbeFreqChangeRequest"
    /\ done.reply # Unset /\ frame.type = "EchoProbeRequest" =>
           done.reply = <<MakeReply(frame.request)>>

TypeInv ==
    /\ WorkTyped
    /\ cpc \in CommandPcs /\ hpc \in HandlerPcs
    /\ ParametersOK(params) /\ ParametersOK(mine) /\ ParametersOK(job)
    /\ command \in Commands \cup {NoCommand}
    /\ IF cpc = "working" THEN job = params ELSE jpc \in {"idle", "returned", "threw"}
    /\ begun \in 0..MaxCommands /\ received \in 0..MaxFrames
    /\ FrameOK

LEMMA TypesInitially == Init => TypeInv
<1> SUFFICES ASSUME Init PROVE TypeInv
  OBVIOUS
<1>1. /\ WorkTyped /\ jpc = "idle" /\ job = Parameters
  BY WorkTypedInitially DEF Init, PluginInit, WorkInit
<1>2. /\ cpc = "rest" /\ hpc = "idle" /\ params = Parameters /\ mine = Parameters
      /\ command = NoCommand /\ begun = 0 /\ received = 0 /\ done = Nothing
  BY DEF Init, PluginInit
<1>3. FrameOK
  BY <1>2 DEF FrameOK, Nothing
<1> QED
  BY <1>1, <1>2, <1>3, ParametersInitially, BoundsAssumption
     DEF TypeInv, CommandPcs, HandlerPcs

\* A step outside the loops, whatever it does to the tuning.
LEMMA LoopsUntouched ==
    ASSUME WorkTyped, UNCHANGED <<jpc, job, sfList, cfList, at, sent>>, tuned' \in Tuning
    PROVE  WorkTyped'
  BY DEF WorkTyped, InJob, InLoops, Positions, Channels

\* What rxHandle parses is what the peer sent.
LEMMA ParsedIsSent ==
    ASSUME NEW type, NEW request, <<type, request>> \in Requests
    PROVE  /\ Parsed[<<type, request>>] = request
           /\ type # "other" => request \in Request /\ type \in RequestTypes
<1> DEFINE r == <<type, request>>
<1>1. r \in RequestTypes \X Request \/ r = <<"other", NoData>>
  BY RequestsAssumption
<1>2. type # "other" => request \in Request /\ type \in RequestTypes
  BY <1>1
<1>3. Parsed[r] = IF request = NoData THEN NoData ELSE Received(request)
  BY DEF Parsed
<1>4. request = NoData \/ request \in Request
  BY <1>1
<1> QED
  BY <1>2, <1>3, <1>4, RequestArrives

LEMMA CommandKeepsTypes == TypeInv /\ (GiveCommand \/ DemoCommand) => TypeInv'
<1> SUFFICES ASSUME TypeInv, GiveCommand \/ DemoCommand PROVE TypeInv'
  OBVIOUS
<1>1. /\ begun' = begun + 1 /\ begun < MaxCommands /\ cpc = "rest"
      /\ UNCHANGED <<jpc, job, sfList, cfList, at, sent, tuned, mine, handlerVars, received>>
  BY DEF GiveCommand, BeginCommand, DemoCommand, workVars
<1>2. WorkTyped' /\ begun' \in 0..MaxCommands
  BY <1>1, LoopsUntouched, BoundsAssumption DEF TypeInv, WorkTyped
<1>3. FrameOK'
  BY <1>1 DEF TypeInv, FrameOK, handlerVars
<1>4. CASE DemoCommand
  BY <1>1, <1>2, <1>3, <1>4 DEF TypeInv, DemoCommand, handlerVars
<1>5. CASE GiveCommand
  <2>1. PICK c \in Commands : BeginCommand(c)
    BY <1>5 DEF GiveCommand
  <2>2. command' = c /\ cpc' \in {"options", "services", "rest"}
    BY <2>1 DEF BeginCommand
  <2>3. params' = params \/ \E m \in Modes : params' = [params EXCEPT !.workingMode = m]
    BY <2>1 DEF BeginCommand
  <2>4. ParametersOK(params)'
    <3>1. CASE params' = params
      BY <3>1 DEF TypeInv, ParametersOK
    <3>2. CASE \E m \in Modes : params' = [params EXCEPT !.workingMode = m]
      <4>1. PICK m \in Modes : params' = [params EXCEPT !.workingMode = m]
        BY <3>2
      <4>2. ParametersOK(params) /\ "workingMode" \in DOMAIN params
        BY DEF TypeInv, ParametersOK, Parameters
      <4>3. /\ DOMAIN params' = DOMAIN params /\ params'.workingMode = m
            /\ params'.cf = params.cf /\ params'.sf = params.sf
            /\ params'.cf_repeat = params.cf_repeat /\ params'.batchLength = params.batchLength
            /\ params'.round_repeat = params.round_repeat
            /\ params'.custom_channels = params.custom_channels
        BY <4>1, <4>2
      <4> QED
        BY <4>2, <4>3 DEF ParametersOK
    <3> QED
      BY <2>3, <3>1, <3>2
  <2> QED
    BY <1>1, <1>2, <1>3, <2>2, <2>4 DEF TypeInv, CommandPcs, handlerVars
<1> QED
  BY <1>4, <1>5

LEMMA ExecuteKeepsTypes == TypeInv /\ Execute => TypeInv'
<1> SUFFICES ASSUME TypeInv, Execute PROVE TypeInv'
  OBVIOUS
<1>1. UNCHANGED <<handlerVars, received, begun, command>> /\ CommandStep
  BY DEF Execute, CommandStep, StartModeServices, ParseOptions, CopyMode, CopyRest, StartWork,
         Work, WorkReturns, StopRx, StopTx, commandVars
<1>2. FrameOK'
  BY <1>1 DEF TypeInv, FrameOK, handlerVars
<1>3. ASSUME WorkTyped', ParametersOK(params)', ParametersOK(mine)', ParametersOK(job)',
             IF cpc' = "working" THEN job' = params'
             ELSE jpc' \in {"idle", "returned", "threw"},
             cpc' \in CommandPcs
      PROVE  TypeInv'
  BY <1>1, <1>2, <1>3 DEF TypeInv, handlerVars
<1>4. UNCHANGED workVars => WorkTyped'
  BY LoopsUntouched DEF TypeInv, WorkTyped, workVars
<1>5. CASE StartModeServices
  BY <1>5, <1>3, <1>4 DEF TypeInv, StartModeServices, CommandPcs, workVars
<1>6. CASE ParseOptions
  <2>1. ParametersOK(params)'
    BY <1>6, OptionsKeepTypes DEF TypeInv, ParseOptions
  <2>2. cpc = "options" /\ cpc' \in {"rest", "copyMode", "start"}
    BY <1>6 DEF ParseOptions
  <2> QED
    BY <1>6, <1>3, <1>4, <2>1, <2>2 DEF TypeInv, ParseOptions, CommandPcs, workVars
<1>7. CASE CopyMode
  <2>1. ParametersOK(mine)'
    BY <1>7 DEF TypeInv, CopyMode, ParametersOK
  <2> QED
    BY <1>7, <1>3, <1>4, <2>1 DEF TypeInv, CopyMode, CommandPcs, workVars
<1>8. CASE CopyRest
  BY <1>8, <1>3, <1>4 DEF TypeInv, CopyRest, CommandPcs, workVars
<1>9. CASE StartWork
  <2>1. CASE StartJob(params) /\ cpc' = "working"
    <3>1. WorkTyped'
      BY <2>1, StartTyped, ParametersTyped DEF TypeInv, WorkTyped
    <3> QED
      BY <1>9, <1>3, <2>1, <3>1 DEF TypeInv, StartWork, StartJob, CommandPcs
  <2>2. CASE FailToStart(params) /\ cpc' = "rest"
    <3>1. /\ job' = params /\ jpc' = "threw" /\ cpc = "start"
          /\ UNCHANGED <<sfList, cfList, at, sent, tuned>>
      BY <1>9, <2>2 DEF StartWork, FailToStart
    <3>2. WorkTyped'
      BY <3>1, ParametersTyped DEF TypeInv, WorkTyped, WorkPcs, InJob, InLoops
    <3> QED
      BY <1>9, <1>3, <2>2, <3>1, <3>2 DEF TypeInv, StartWork, CommandPcs
  <2> QED
    BY <1>9, <2>1, <2>2 DEF StartWork
<1>10. CASE Work
  <2>1. WorkTyped' /\ job' = job /\ UNCHANGED <<cpc, params, mine>>
    BY <1>10, WorkStepTyped DEF TypeInv, Work, commandVars
  <2> QED
    BY <1>10, <1>3, <2>1 DEF TypeInv, Work
<1>11. CASE WorkReturns
  BY <1>11, <1>3, <1>4 DEF TypeInv, WorkReturns, CommandPcs, workVars
<1>12. CASE StopRx \/ StopTx
  BY <1>12, <1>3, <1>4 DEF TypeInv, StopRx, StopTx, CommandPcs, workVars
<1> QED
  BY <1>1, <1>5, <1>6, <1>7, <1>8, <1>9, <1>10, <1>11, <1>12 DEF CommandStep

\* rxHandle works on what the peer sent, and tunes to a frequency it asked for.
LEMMA HandleKeepsTypes == TypeInv /\ (Hear \/ Handle) => TypeInv'
<1> SUFFICES ASSUME TypeInv, Hear \/ Handle PROVE TypeInv'
  OBVIOUS
<1>1. UNCHANGED <<jpc, job, sfList, cfList, at, sent, commandVars, mine>>
  BY DEF Hear, Receive, Handle, HandlerStep, IgnoreFrame, LogFrame, AnswerFrame,
         ShiftResponderCF, ShiftResponderSF, ShiftPart, workVars, commandVars
<1>2. ASSUME tuned' \in Tuning, FrameOK', hpc' \in HandlerPcs, received' \in 0..MaxFrames
      PROVE  TypeInv'
  <2>1. WorkTyped'
    BY <1>1, <1>2, LoopsUntouched DEF TypeInv
  <2> QED
    BY <1>1, <1>2, <2>1 DEF TypeInv, commandVars
<1>3. tuned \in Tuning
  BY DEF TypeInv, WorkTyped
<1>4. CASE Hear
  <2>1. PICK r \in Requests : Receive(r[1], r[2])
    BY <1>4 DEF Hear
  <2>2. <<r[1], r[2]>> \in Requests
    <3>1. r \in RequestTypes \X Request \/ r = <<"other", NoData>>
      BY RequestsAssumption
    <3>2. r = <<r[1], r[2]>>
      BY <3>1
    <3> QED
      BY <3>2
  <2>3. /\ hpc' = "received" /\ frame'.type = r[1] /\ frame'.request = r[2]
        /\ done' = Nothing /\ tuned' = tuned
    BY <2>1 DEF Receive, workVars
  <2>4. FrameOK'
    BY <2>2, <2>3 DEF FrameOK, Nothing
  <2>5. received' \in 0..MaxFrames
    BY <1>4, BoundsAssumption DEF Hear, TypeInv
  <2> QED
    BY <1>2, <1>3, <2>3, <2>4, <2>5 DEF HandlerPcs
<1>5. CASE Handle
  <2>1. /\ received' = received /\ frame' = frame
        /\ <<frame.type, frame.request>> \in Requests
        /\ hpc # "idle" /\ HandlerStep
    BY <1>5 DEF Handle, hostVars, HandlerStep, IgnoreFrame, LogFrame, AnswerFrame,
                ShiftResponderCF, ShiftResponderSF, ShiftPart, TypeInv, FrameOK
  <2>2. /\ Parsed[<<frame.type, frame.request>>] = frame.request
        /\ frame.type # "other" => frame.request \in Request /\ frame.type \in RequestTypes
    BY <2>1, ParsedIsSent
  <2>3. CASE IgnoreFrame
    <3>1. hpc' = "idle" /\ done' = done /\ tuned' = tuned
      BY <2>3 DEF IgnoreFrame, workVars
    <3>2. FrameOK'
      BY <2>1, <3>1 DEF TypeInv, FrameOK
    <3> QED
      BY <1>2, <1>3, <2>1, <3>1, <3>2 DEF TypeInv, HandlerPcs
  <2>4. CASE LogFrame
    <3>1. hpc' = "idle" /\ done'.reply = Unset /\ tuned' = tuned
      BY <2>4 DEF LogFrame, Nothing, workVars
    <3>2. FrameOK'
      BY <3>1 DEF FrameOK
    <3> QED
      BY <1>2, <1>3, <2>1, <3>1, <3>2 DEF TypeInv, HandlerPcs
  <2>5. CASE AnswerFrame
    <3>1. frame.type \in RequestTypes /\ tuned' = tuned
      BY <2>2, <2>5 DEF AnswerFrame, workVars
    <3>2. IF frame.type = "EchoProbeRequest"
          THEN hpc' = "idle" /\ done'.reply = <<MakeReply(frame.request)>>
          ELSE hpc' = "shiftCF"
      BY <2>2, <2>5 DEF AnswerFrame
    <3>3. FrameOK'
      BY <2>1, <3>1, <3>2 DEF FrameOK, RequestTypes
    <3> QED
      BY <1>2, <1>3, <2>1, <3>1, <3>2, <3>3 DEF TypeInv, HandlerPcs
  <2>6. CASE ShiftResponderCF \/ ShiftResponderSF
    <3>1. /\ hpc \in {"shiftCF", "shiftSF"} /\ hpc' \in {"shiftSF", "idle"} /\ done' = done
      BY <2>6 DEF ShiftResponderCF, ShiftResponderSF, ShiftPart
    <3>2. frame.type = "EchoProbeFreqChangeRequest" /\ frame.request \in Request
      BY <2>2, <3>1 DEF TypeInv, FrameOK
    <3>3. frame.request.cf \in Int /\ frame.request.sf \in Int
      BY <3>2 DEF Request
    <3>4. \/ tuned' = tuned
          \/ tuned' = [tuned EXCEPT !.cf = frame.request.cf]
          \/ tuned' = [tuned EXCEPT !.sf = frame.request.sf]
      BY <2>2, <2>6 DEF ShiftResponderCF, ShiftResponderSF, ShiftPart
    <3>5. tuned' \in Tuning
      BY <1>3, <3>3, <3>4 DEF Tuning
    <3>6. FrameOK'
      BY <2>1, <3>1, <3>2 DEF TypeInv, FrameOK
    <3> QED
      BY <1>2, <2>1, <3>1, <3>5, <3>6 DEF TypeInv, HandlerPcs
  <2> QED
    BY <2>1, <2>3, <2>4, <2>5, <2>6 DEF HandlerStep
<1> QED
  BY <1>4, <1>5

LEMMA TypesStep == TypeInv /\ [Next]_vars => TypeInv'
<1>1. TypeInv /\ UNCHANGED vars => TypeInv'
  <2> SUFFICES ASSUME TypeInv, UNCHANGED vars PROVE TypeInv'
    OBVIOUS
  <2>1. WorkTyped'
    BY LoopsUntouched DEF vars, workVars, TypeInv, WorkTyped
  <2> QED
    BY <2>1 DEF vars, workVars, commandVars, handlerVars, hostVars, TypeInv, FrameOK
<1> QED
  BY <1>1, CommandKeepsTypes, ExecuteKeepsTypes, HandleKeepsTypes DEF Next

LEMMA TypesAlways == Spec => []TypeInv
BY TypesInitially, TypesStep, PTL DEF Spec

(***************************************************************************)
(* The parameters of the plugin, of the responder and of the job keep the  *)
(* types of the options through every sequence of commands, failed ones    *)
(* among them; a job works with those of its command to its end; and only  *)
(* a frequency change retunes the front end from the other thread.         *)
(***************************************************************************)
THEOREM TypeCorrect == Spec => []TypeOK
<1>1. TypeInv /\ ServicesInv => TypeOK
  BY DEF TypeInv, ServicesInv, FrameOK, WorkTyped, TypeOK
<1> QED
  BY <1>1, TypesAlways, ServicesInitially, ServicesStep, PTL DEF Spec

(***************************************************************************)
(* Every request a peer can send, whatever its fields, arrives as it was   *)
(* sent; the reply to it still has its session and its strategy after the  *)
(* encoding, and is one the initiator accepts for this strategy.           *)
(***************************************************************************)
THEOREM RepliesAnswer == Spec => []AnswersAsAsked
<1>1. TypeInv => AnswersAsAsked
  <2> SUFFICES ASSUME TypeInv PROVE AnswersAsAsked
    OBVIOUS
  <2>1. ASSUME hpc = "received", frame.type # "other"
        PROVE  /\ V1Parses(RequestToBuffer(frame.request))
               /\ Parsed[<<frame.type, frame.request>>] = frame.request
    BY <2>1, ParsedIsSent, RequestArrives DEF TypeInv, FrameOK
  <2>2. ASSUME done.reply # Unset, frame.type = "EchoProbeRequest"
        PROVE  LET reply == FromBuffer(ReplyToBuffer(done.reply[1].segment)) IN
               /\ reply.replyStrategy = frame.request.replyStrategy
               /\ reply.sessionId = frame.request.sessionId
               /\ AcceptsReply(done.reply[1])
    <3>1. frame.request \in Request
      BY <2>2, ParsedIsSent DEF TypeInv, FrameOK
    <3>2. done.reply[1] = MakeReply(frame.request)
      BY <2>2 DEF TypeInv, FrameOK
    <3> QED
      BY <3>1, <3>2, ReplyAccepted
  <2> QED
    BY <2>1, <2>2 DEF AnswersAsAsked
<1> QED
  BY <1>1, TypesAlways, PTL

-----------------------------------------------------------------------------
(* Who tunes the front end during an injection                             *)

HandlerAway ==
    job.workingMode \in Injecting =>
        hpc = "idle" \/ (hpc = "received" /\ mine.workingMode = "Radar")

AtPoint ==
    /\ jpc = "shiftCF" => tuned.sf = Point.sf
    /\ jpc = "inject" => tuned = Point

TuneInv ==
    /\ IsSeq(air)
    /\ cpc = "working" /\ job.useBatchAPI => IsSeq(prebuilt) /\ Len(prebuilt) \in Positive
    /\ cpc = "working" /\ jpc \in {"shiftCF", "inject"} => job.workingMode \in Injecting
    /\ cpc \in {"start", "working"} /\ params.workingMode \in CopiesToResponder => mine = params
    /\ cpc = "working" /\ calm => HandlerAway /\ AtPoint

LEMMA TuneInitially == Init => TuneInv
  BY EmptyIsSeq DEF Init, PluginInit, WorkInit, TuneInv

LEMMA TuneTypes ==
    ASSUME TypeInv
    PROVE  /\ tuned = [cf |-> tuned.cf, sf |-> tuned.sf]
           /\ {params.cf_repeat, params.batchLength, job.cf_repeat} \subseteq Positive
           /\ cpc = "working" => job = params
  BY DEF TypeInv, WorkTyped, Tuning, ParametersOK, Positive

\* Steps of the loops leave the front end at the point they inject at.
LEMMA WorkTunes ==
    ASSUME TypeInv, TuneInv, cpc = "working", WorkStep
    PROVE  /\ UNCHANGED <<job, prebuilt>>
           /\ IsSeq(air')
           /\ jpc' \in {"shiftCF", "inject"} => job.workingMode \in Injecting
           /\ calm => AtPoint'
<1>1. CASE ShiftRate
  <2>1. tuned' = [tuned EXCEPT !.sf = Point.sf] /\ jpc' = "shiftCF" /\ Point' = Point
    BY <1>1 DEF ShiftRate, Point
  <2>2. tuned'.sf = Point.sf
    BY <2>1, TuneTypes
  <2> QED
    BY <1>1, <2>1, <2>2 DEF ShiftRate, TuneInv, AtPoint
<1>2. CASE ShiftCarrier
  <2>1. tuned' = [tuned EXCEPT !.cf = Point.cf] /\ jpc' = "inject" /\ Point' = Point
    BY <1>2 DEF ShiftCarrier, Point
  <2>2. /\ tuned'.cf = Point.cf /\ tuned'.sf = tuned.sf
        /\ tuned' = [cf |-> tuned'.cf, sf |-> tuned'.sf]
    BY <2>1, TuneTypes
  <2>3. calm => tuned.sf = Point.sf
    BY <1>2 DEF ShiftCarrier, TuneInv, AtPoint
  <2>4. calm => tuned' = Point
    BY <2>2, <2>3 DEF Point
  <2> QED
    BY <1>2, <2>1, <2>2, <2>4 DEF ShiftCarrier, TuneInv, AtPoint
<1>3. CASE InjectFrame
  <2>1. IsSeq(air')
    BY <1>3, InjectionIsSeq, EmitAtTuning DEF InjectFrame, TuneInv
  <2>2. UNCHANGED <<at, jpc>> \/ jpc' \in {"visit", "returned"}
    BY <1>3 DEF InjectFrame, LeaveScanPoint, NextRound
  <2> QED
    BY <1>3, <2>1, <2>2 DEF InjectFrame, TuneInv, AtPoint, Point
<1>4. CASE InjectBatch
  <2>1. job.cf_repeat \in Positive /\ IsSeq(prebuilt) /\ Len(prebuilt) \in Positive
    BY <1>4, TuneTypes DEF InjectBatch, TuneInv
  <2>2. IsSeq(Times(BatchRepeats, prebuilt))
    BY <2>1, BatchRepeatsIsNat, TimesIsSeq DEF Positive
  <2>3. IsSeq(air')
    BY <1>4, <2>2, EmitAtTuning DEF InjectBatch, TuneInv
  <2>4. jpc' \in {"visit", "returned"}
    BY <1>4 DEF InjectBatch, LeaveScanPoint, NextRound
  <2> QED
    BY <1>4, <2>3, <2>4 DEF InjectBatch, TuneInv, AtPoint
<1>5. CASE PassPoint
  <2>1. jpc' \in {"visit", "returned"}
    BY <1>5 DEF PassPoint, LeaveScanPoint, NextRound
  <2> QED
    BY <1>5, <2>1 DEF PassPoint, TuneInv, AtPoint
<1>6. CASE MeasurePoint
  <2>1. jpc' \in {"visit", "returned"}
    BY <1>6 DEF MeasurePoint, LeaveScanPoint, NextRound
  <2> QED
    BY <1>6, <2>1 DEF MeasurePoint, TuneInv, AtPoint
<1>7. CASE HopChannel
  BY <1>7 DEF HopChannel, TuneInv, AtPoint
<1> QED
  BY <1>1, <1>2, <1>3, <1>4, <1>5, <1>6, <1>7 DEF WorkStep

\* Until the job of the next command the front end is of no concern.
LEMMA TuneOutsideWork ==
    ASSUME cpc' \notin {"start", "working"}, IsSeq(air')
    PROVE  TuneInv'
  BY DEF TuneInv

LEMMA TuneStep == TypeInv /\ TuneInv /\ [Next]_vars => TuneInv'
<1> SUFFICES ASSUME TypeInv, TuneInv, [Next]_vars PROVE TuneInv'
  OBVIOUS
<1>1. CASE GiveCommand
  <2>1. PICK c \in Commands : BeginCommand(c)
    BY <1>1 DEF GiveCommand
  <2>2. air' = air /\ cpc' \notin {"start", "working"}
    BY <2>1 DEF BeginCommand, workVars
  <2>3. IsSeq(air')
    BY <2>2 DEF TuneInv
  <2> QED
    BY <2>2, <2>3, TuneOutsideWork
<1>2. CASE DemoCommand
  <2>1. cpc' = cpc /\ cpc = "rest"
    BY <1>2 DEF DemoCommand
  <2>2. IsSeq(<<BasicFrame>>)
    <3>1. <<BasicFrame>> \in Seq({BasicFrame})
      OBVIOUS
    <3> QED
      BY <3>1 DEF IsSeq
  <2>3. IsSeq(air')
    BY <1>2, <2>2, EmitAtTuning DEF DemoCommand, TuneInv
  <2> QED
    BY <2>1, <2>3, TuneOutsideWork
<1>3. CASE Execute
  <2>1. CASE cpc' \notin {"start", "working"} /\ UNCHANGED air
    BY <2>1, TuneOutsideWork DEF TuneInv
  <2>2. CASE ParseOptions
    <3>1. IsSeq(air') /\ cpc' # "working"
      BY <2>2 DEF ParseOptions, workVars, TuneInv
    <3>2. cpc' = "start" => params'.workingMode = params.workingMode
      <4>1. "workingMode" \in DOMAIN params
        BY DEF TypeInv, ParametersOK, Parameters
      <4> QED
        BY <2>2, <4>1, ModeKept DEF ParseOptions, TypeInv
    <3>3. cpc' = "start" => params'.workingMode \notin CopiesToResponder
      BY <2>2, <3>2 DEF ParseOptions
    <3> QED
      BY <3>1, <3>3 DEF TuneInv
  <2>3. CASE CopyRest
    BY <2>3 DEF CopyRest, workVars, TuneInv
  <2>4. CASE StartJob(params) /\ cpc = "start" /\ cpc' = "working"
                 /\ UNCHANGED <<params, mine, handlerVars>>
    <3>1. /\ job' = params /\ air' = <<>> /\ tuned' = tuned
          /\ jpc' \in {"hop", "visit"}
          /\ params.useBatchAPI => prebuilt' = BatchFrames(params)
      BY <2>4 DEF StartJob
    <3>2. params.useBatchAPI => IsSeq(prebuilt') /\ Len(prebuilt') \in Positive
      BY <3>1, BatchIsSeq, TuneTypes DEF Positive
    <3>3. calm' => hpc = "idle" /\ hpc' = hpc
      BY <1>3, <2>4 DEF Execute, handlerVars
    <3> QED
      BY <2>4, <3>1, <3>2, <3>3, EmptyIsSeq DEF TuneInv, HandlerAway, AtPoint
  <2>5. CASE Work
    <3>1. /\ WorkStep /\ cpc = "working" /\ cpc' = cpc /\ calm' = calm
          /\ UNCHANGED <<params, mine, hpc>>
      BY <1>3, <2>5 DEF Work, Execute, commandVars, handlerVars
    <3>2. /\ UNCHANGED <<job, prebuilt>>
          /\ IsSeq(air')
          /\ jpc' \in {"shiftCF", "inject"} => job.workingMode \in Injecting
          /\ calm => AtPoint'
      BY <3>1, WorkTunes
    <3>3. HandlerAway => HandlerAway'
      BY <3>1, <3>2 DEF HandlerAway
    <3> QED
      BY <3>1, <3>2, <3>3 DEF TuneInv
  <2>6. ASSUME StartModeServices \/ CopyMode \/ WorkReturns \/ StopRx \/ StopTx
               \/ (StartWork /\ cpc' = "rest")
        PROVE  cpc' \notin {"start", "working"} /\ UNCHANGED air
    BY <2>6 DEF StartModeServices, CopyMode, WorkReturns, StopRx, StopTx, StartWork,
                StartJob, FailToStart, workVars
  <2>7. ASSUME StartWork
        PROVE  \/ cpc' = "rest" /\ UNCHANGED air
               \/ StartJob(params) /\ cpc = "start" /\ cpc' = "working"
                      /\ UNCHANGED <<params, mine, handlerVars>>
    BY <2>7 DEF StartWork, FailToStart
  <2> QED
    BY <1>3, <2>1, <2>2, <2>3, <2>4, <2>5, <2>6, <2>7 DEF Execute, CommandStep
<1>4. CASE Hear
  <2>1. PICK r \in Requests : Receive(r[1], r[2])
    BY <1>4 DEF Hear
  <2>2. /\ hpc' = "received" /\ Listens
        /\ UNCHANGED <<workVars, cpc, params, mine, calm>>
    BY <1>4, <2>1 DEF Hear, Receive, commandVars
  <2>3. cpc = "working" => HandlerAway'
    BY <2>2, TuneTypes DEF TuneInv, HandlerAway, Listens, CopiesToResponder, Injecting,
                           workVars
  <2>4. AtPoint => AtPoint'
    BY <2>2 DEF AtPoint, Point, workVars
  <2> QED
    BY <2>2, <2>3, <2>4 DEF TuneInv, workVars
<1>5. CASE Handle
  <2>1. UNCHANGED <<jpc, job, sfList, cfList, at, prebuilt, air, cpc, params, mine, calm>>
    BY <1>5 DEF Handle, hostVars, HandlerStep, IgnoreFrame, LogFrame, AnswerFrame,
                ShiftResponderCF, ShiftResponderSF, ShiftPart, workVars, commandVars
  <2>2. ASSUME cpc = "working", calm, job.workingMode \in Injecting
        PROVE  HandlerAway' /\ AtPoint'
    <3>1. hpc = "idle" \/ (hpc = "received" /\ mine.workingMode = "Radar")
      BY <2>2 DEF TuneInv, HandlerAway
    <3>2. hpc' = "idle" /\ tuned' = tuned
      BY <1>5, <3>1 DEF Handle, HandlerStep, IgnoreFrame, LogFrame, AnswerFrame,
            ShiftResponderCF, ShiftResponderSF, ShiftPart, workVars
    <3> QED
      BY <2>1, <2>2, <3>2 DEF TuneInv, HandlerAway, AtPoint, Point
  <2>3. ASSUME cpc = "working", job.workingMode \notin Injecting
        PROVE  HandlerAway' /\ AtPoint'
    BY <2>1, <2>3 DEF TuneInv, HandlerAway, AtPoint
  <2> QED
    BY <2>1, <2>2, <2>3 DEF TuneInv
<1>6. CASE UNCHANGED vars
  BY <1>6 DEF vars, workVars, commandVars, handlerVars, hostVars, TuneInv, HandlerAway,
              AtPoint, Point
<1> QED
  BY <1>1, <1>2, <1>3, <1>4, <1>5, <1>6 DEF Next

(***************************************************************************)
(* While an injector or a radar injects, its frames go out at the point of *)
(* the plan: rxHandle does not retune the front end, if it was not at work *)
(* when the job began.                                                     *)
(***************************************************************************)
THEOREM InjectionUndisturbed == Spec => InjectsAtPoint
<1> DEFINE Undisturbed ==
        calm /\ cpc = "working" /\ air' # air =>
            \A n \in Len(air) + 1..Len(air') : air'[n].at = Point
<1>1. TypeInv /\ TuneInv /\ [Next]_vars => [Undisturbed]_vars
  <2> SUFFICES ASSUME TypeInv, TuneInv, Next, calm, cpc = "working", air' # air
               PROVE  \A n \in Len(air) + 1..Len(air') : air'[n].at = Point
    OBVIOUS
  <2>1. WorkStep
    BY DEF Next, GiveCommand, BeginCommand, DemoCommand, Execute, CommandStep,
           StartModeServices, ParseOptions, CopyMode, CopyRest, StartWork, Work, WorkReturns,
           StopRx, StopTx, Hear, Receive, Handle, HandlerStep, IgnoreFrame, LogFrame,
           AnswerFrame, ShiftResponderCF, ShiftResponderSF, ShiftPart, workVars
  <2>2. CASE InjectFrame
    BY <2>2, InjectionIsSeq, EmitAtTuning DEF InjectFrame, TuneInv, AtPoint
  <2>3. CASE InjectBatch
    <3>1. job.cf_repeat \in Positive /\ IsSeq(prebuilt) /\ Len(prebuilt) \in Positive
      BY <2>3, TuneTypes DEF InjectBatch, TuneInv
    <3>2. IsSeq(Times(BatchRepeats, prebuilt))
      BY <3>1, BatchRepeatsIsNat, TimesIsSeq DEF Positive
    <3> QED
      BY <2>3, <3>2, EmitAtTuning DEF InjectBatch, TuneInv, AtPoint
  <2> QED
    BY <2>1, <2>2, <2>3 DEF WorkStep, ShiftRate, ShiftCarrier, PassPoint, MeasurePoint,
                            HopChannel
<1> HIDE DEF Undisturbed
<1>2. Spec => [][Undisturbed]_vars
  BY <1>1, TypesInitially, TypesStep, TuneInitially, TuneStep, PTL DEF Spec
<1> QED
  BY <1>2 DEF Undisturbed, InjectsAtPoint

-----------------------------------------------------------------------------
(* Frames handled between commands                                         *)

\* The file name that is in force once the command under way has parsed it.
FileInv ==
    /\ "outputFileName" \in DOMAIN params
    /\ (IF cpc \in {"services", "options"} THEN WithOptions(params, command) ELSE params)
           .outputFileName = output

\* After a command whose mode the responder serves it has the parameters.
CopyInv ==
    params.workingMode \in CopiesToResponder
      /\ \/ cpc \in {"start", "working", "stopRx", "stopTx"}
         \/ cpc = "rest" /\ ~failed
    => mine = params

\* A frame that no command has followed still meets the state it came in.
FrameInv ==
    /\ begun \in Nat
    /\ frame.entered \in 0..begun
    /\ hpc = "received" => done = Nothing
    /\ UndisturbedFrame =>
           cpc = "rest" /\ ~failed /\ params.workingMode \in CopiesToResponder

HandlingInv == ServicesInv /\ FileInv /\ CopyInv /\ FrameInv

\* Every command gets as far as --output, and this option is what it sets.
LEMMA OutputParsed ==
    ASSUME NEW p, NEW c \in Commands \cup {NoCommand}, "outputFileName" \in DOMAIN p
    PROVE  /\ "outputFileName" \in DOMAIN WithOptions(p, c)
           /\ WithOptions(p, c).outputFileName =
                IF "outputFileName" \in DOMAIN c.set THEN c.set.outputFileName
                ELSE p.outputFileName
<1>1. Reaches(c, "outputFileName")
  <2>1. CASE c.fails = Unset
    BY <2>1 DEF Reaches
  <2>2. CASE c.fails # Unset
    <3>1. PICK i \in 2..Len(OptionOrder) : c.fails = <<OptionOrder[i]>>
      BY <2>2, CommandsAssumption
    <3>2. 1 \in DOMAIN OptionOrder /\ i \in DOMAIN OptionOrder /\ 1 < i
          /\ OptionOrder[1] = "outputFileName" /\ OptionOrder[i] = c.fails[1]
      BY <3>1 DEF OptionOrder
    <3> HIDE DEF OptionOrder
    <3> QED
      BY <3>2 DEF Reaches
  <2> QED
    BY <2>1, <2>2
<1>2. "outputFileName" \in Gives(c) <=> "outputFileName" \in DOMAIN c.set
  BY DEF Gives, Defaults
<1>3. Value(c, "outputFileName") =
        IF "outputFileName" \in DOMAIN c.set THEN c.set.outputFileName
        ELSE Defaults.outputFileName
  BY DEF Value
<1> HIDE DEF Gives, Reaches, Value
<1> QED
  BY <1>1, <1>2, <1>3 DEF WithOptions, Ranges

LEMMA HandlingInitially == Init => HandlingInv
<1> SUFFICES ASSUME Init PROVE FileInv /\ CopyInv /\ FrameInv
  BY ServicesInitially DEF HandlingInv
<1>1. /\ cpc = "rest" /\ params = Parameters /\ mine = Parameters /\ output = Unset
      /\ begun = 0 /\ hpc = "idle" /\ frame = NoFrame
  BY DEF Init, PluginInit
<1> QED
  BY <1>1 DEF FileInv, CopyInv, FrameInv, UndisturbedFrame, Parameters, NoFrame

\* A command is begun: no frame that came before it is undisturbed any more.
LEMMA GiveCommandKeeps == HandlingInv /\ GiveCommand => FileInv' /\ CopyInv' /\ FrameInv'
<1> SUFFICES ASSUME HandlingInv, GiveCommand PROVE FileInv' /\ CopyInv' /\ FrameInv'
  OBVIOUS
<1>1. PICK c \in Commands :
        /\ BeginCommand(c)
        /\ output' = IF cpc' # "rest" /\ "outputFileName" \in DOMAIN c.set
                     THEN c.set.outputFileName ELSE output
  BY DEF GiveCommand
<1>2. /\ cpc = "rest" /\ begun' = begun + 1 /\ command' = c
      /\ UNCHANGED <<mine, hpc, frame, done>>
  BY <1>1 DEF BeginCommand, handlerVars
<1>3. FrameInv'
  BY <1>2 DEF HandlingInv, FrameInv, UndisturbedFrame
<1>4. \/ cpc' = "options" /\ UNCHANGED params
      \/ cpc' = "services" /\ params' = [params EXCEPT !.workingMode = c.mode[1]]
      \/ cpc' = "rest" /\ failed' = TRUE /\ UNCHANGED params
  BY <1>1 DEF BeginCommand
<1>5. CopyInv'
  BY <1>4 DEF CopyInv
<1>6. /\ "outputFileName" \in DOMAIN params' /\ params'.outputFileName = output
      /\ cpc' \in {"options", "services", "rest"}
  BY <1>2, <1>4 DEF HandlingInv, FileInv
<1>7. FileInv'
  <2>1. CASE cpc' = "rest"
    BY <1>1, <1>6, <2>1 DEF FileInv
  <2>2. CASE cpc' # "rest"
    <3>1. WithOptions(params', c).outputFileName = output'
      BY <1>1, <1>6, <2>2, OutputParsed
    <3> QED
      BY <1>2, <1>6, <2>2, <3>1 DEF FileInv
  <2> QED
    BY <2>1, <2>2
<1> QED
  BY <1>3, <1>5, <1>7

\* The command goes on; while one is under way no frame is undisturbed.
LEMMA ExecuteKeeps == HandlingInv /\ Execute => FileInv' /\ CopyInv' /\ FrameInv'
<1> SUFFICES ASSUME HandlingInv, Execute PROVE FileInv' /\ CopyInv' /\ FrameInv'
  OBVIOUS
<1> USE DEF HandlingInv
<1>1. /\ cpc # "rest" /\ UNCHANGED <<begun, hpc, frame, done, output, command>>
      /\ CommandStep
  BY DEF Execute, CommandStep, StartModeServices, ParseOptions, CopyMode, CopyRest, StartWork,
         Work, WorkReturns, StopRx, StopTx, commandVars, handlerVars
<1>2. FrameInv'
  BY <1>1 DEF FrameInv, UndisturbedFrame
<1>3. CASE ParseOptions
  <2>1. /\ "outputFileName" \in DOMAIN params' /\ params'.outputFileName = output'
        /\ params'.workingMode = params.workingMode
    BY <1>1, <1>3, OutputParsed, ModeKept DEF ParseOptions, FileInv, ServicesInv
  <2>2. /\ cpc' \in {"rest", "copyMode", "start"}
        /\ cpc' = "rest" /\ ~failed' => params.workingMode = "Standby"
        /\ cpc' = "start" => params.workingMode \notin CopiesToResponder
    BY <1>3 DEF ParseOptions
  <2> QED
    BY <1>2, <2>1, <2>2 DEF FileInv, CopyInv, CopiesToResponder
<1>4. CASE StartModeServices
  BY <1>1, <1>2, <1>4 DEF StartModeServices, FileInv, CopyInv
<1>5. CASE CopyMode \/ CopyRest
  BY <1>1, <1>2, <1>5 DEF CopyMode, CopyRest, FileInv, CopyInv
<1>6. CASE StartWork
  BY <1>1, <1>2, <1>6 DEF StartWork, FileInv, CopyInv
<1>7. CASE Work
  BY <1>1, <1>2, <1>7 DEF Work, commandVars, FileInv, CopyInv
<1>8. CASE WorkReturns \/ StopRx \/ StopTx
  BY <1>1, <1>2, <1>8 DEF WorkReturns, StopRx, StopTx, FileInv, CopyInv
<1> QED
  BY <1>1, <1>3, <1>4, <1>5, <1>6, <1>7, <1>8 DEF CommandStep

LEMMA HandlingStep == HandlingInv /\ [Next]_vars => HandlingInv'
<1> SUFFICES ASSUME HandlingInv, [Next]_vars PROVE FileInv' /\ CopyInv' /\ FrameInv'
  BY ServicesStep DEF HandlingInv
<1>1. CASE GiveCommand
  BY <1>1, GiveCommandKeeps
<1>2. CASE DemoCommand
  <2>1. /\ begun' = begun + 1
        /\ UNCHANGED <<cpc, command, failed, params, mine, hpc, frame, done, output>>
    BY <1>2 DEF DemoCommand, handlerVars
  <2> QED
    BY <2>1 DEF HandlingInv, FileInv, CopyInv, FrameInv, UndisturbedFrame
<1>3. CASE Execute
  BY <1>3, ExecuteKeeps
<1>4. CASE Hear
  <2>1. /\ hpc' = "received" /\ Listens /\ done' = Nothing
        /\ frame'.entered = IF cpc = "rest" /\ ~failed THEN begun ELSE 0
        /\ UNCHANGED <<cpc, command, begun, failed, params, mine, output>>
    BY <1>4 DEF Hear, Receive, commandVars
  <2> QED
    BY <2>1 DEF HandlingInv, FileInv, CopyInv, FrameInv, UndisturbedFrame, Listens,
                CopiesToResponder
<1>5. CASE Handle
  <2>1. /\ hpc' # "received"
        /\ UNCHANGED <<cpc, command, begun, failed, params, mine, frame, output>>
    BY <1>5 DEF Handle, HandlerStep, IgnoreFrame, LogFrame, AnswerFrame, ShiftResponderCF,
                ShiftResponderSF, ShiftPart, commandVars, hostVars
  <2> QED
    BY <2>1 DEF HandlingInv, FileInv, CopyInv, FrameInv, UndisturbedFrame
<1>6. CASE UNCHANGED vars
  BY <1>6 DEF vars, commandVars, handlerVars, hostVars, HandlingInv, FileInv, CopyInv, FrameInv,
              UndisturbedFrame
<1> QED
  BY <1>1, <1>2, <1>3, <1>4, <1>5, <1>6 DEF Next

(***************************************************************************)
(* A frame handled between two commands is treated as the commands asked:  *)
(* the copy of the parameters that the responder decides by is then that   *)
(* of the plugin, and it holds the mode in force and the file named last.  *)
(***************************************************************************)
THEOREM FramesHandled == Spec => HandledAsCommanded
<1> DEFINE Treated ==
             UndisturbedFrame /\ hpc' # "received" =>
               CASE params.workingMode = "Logger" ->
                       done' = [dump |-> LastOutput("rx"), reply |-> Unset]
                 [] params.workingMode = "Radar" ->
                       done' = [dump |-> LastOutput("radar"), reply |-> Unset]
                 [] params.workingMode = "EchoProbeResponder" ->
                       IF frame.type = "other" THEN done' = Nothing
                       ELSE /\ done'.dump = LastOutput("rx")
                            /\ done'.reply # Unset
                            /\ "Tx" \in services
                 [] OTHER -> FALSE
<1>1. HandlingInv /\ [Next]_vars => [Treated]_vars
  <2> SUFFICES ASSUME HandlingInv, Next, UndisturbedFrame, hpc' # "received" PROVE Treated
    OBVIOUS
  <2>1. /\ cpc = "rest" /\ params.workingMode \in CopiesToResponder /\ mine = params
        /\ hpc = "received" /\ done = Nothing
    BY DEF HandlingInv, FrameInv, CopyInv, UndisturbedFrame
  <2>2. IgnoreFrame \/ LogFrame \/ AnswerFrame
    BY <2>1 DEF Next, GiveCommand, BeginCommand, DemoCommand, Execute, CommandStep,
                StartModeServices, ParseOptions, CopyMode, CopyRest, StartWork, Work, WorkReturns,
                StopRx, StopTx, Hear, Receive, Handle, HandlerStep, ShiftResponderCF,
                ShiftResponderSF, ShiftPart, handlerVars
  <2>3. /\ params.workingMode = "Radar" => File = LastOutput("radar")
        /\ params.workingMode # "Radar" => File = LastOutput("rx")
    BY <2>1 DEF HandlingInv, FileInv, File, DefaultFile, LastOutput
  <2>4. params.workingMode = "EchoProbeResponder" => "Tx" \in services
    BY <2>1 DEF HandlingInv, ServicesInv, Services
  <2> HIDE DEF File, LastOutput
  <2>5. CASE IgnoreFrame
    <3>1. params.workingMode = "EchoProbeResponder" /\ frame.type = "other" /\ done' = Nothing
      BY <2>1, <2>5 DEF IgnoreFrame, Ignored, CopiesToResponder
    <3> QED
      BY <3>1
  <2>6. CASE LogFrame
    <3>1. /\ params.workingMode \in {"Logger", "Radar"}
          /\ done' = [dump |-> File, reply |-> Unset]
      BY <2>1, <2>6 DEF LogFrame, Nothing
    <3> QED
      BY <2>3, <3>1
  <2>7. CASE AnswerFrame
    <3>1. /\ params.workingMode = "EchoProbeResponder" /\ frame.type # "other"
          /\ done'.dump = File /\ done'.reply # Unset
      BY <2>1, <2>7 DEF AnswerFrame, Unset
    <3> QED
      BY <2>3, <2>4, <3>1
  <2> QED
    BY <2>2, <2>5, <2>6, <2>7
<1> HIDE DEF Treated
<1>2. Spec => [][Treated]_vars
  BY <1>1, HandlingInitially, HandlingStep, PTL DEF Spec
<1> QED
  BY <1>2 DEF Treated, HandledAsCommanded
=============================================================================
