------------------------- MODULE EchoProbeSegments --------------------------
(***************************************************************************)
(* The segments of an EchoProbe round trip: the request, the reply for     *)
(* each of the four strategies, how both travel as bytes, and what the     *)
(* initiator takes for an answer.                                          *)
(*                                                                         *)
(* A byte is <<v, k>>, the k-th byte of the value v.  Numbers stand for    *)
(* the enumerators and for Booleans, and the name of a payload is its      *)
(* length: the two names in use differ in it.                              *)
(***************************************************************************)
EXTENDS Integers, Sequences

ReplyOnlyHeader      == 0
ReplyWithExtraInfo   == 1
ReplyWithCSI         == 2
ReplyWithFullPayload == 3

Strategies == ReplyOnlyHeader..ReplyWithFullPayload

NoName    == 0
NameOfCSI == 17   \* "EchoProbeReplyCSI"
NameOfFull == 18  \* "EchoProbeReplyFull"

Bytes(v, width) == [k \in 1..width |-> <<v, k>>]

Garbled == -2

NoData == <<>>   \* a frame without the segment

\* The value whose bytes start behind the first pos bytes of the buffer.
Read(buffer, pos, width) ==
    LET v == buffer[pos + 1][1]
    IN  IF SubSeq(buffer, pos + 1, pos + width) = Bytes(v, width) THEN v ELSE Garbled

-----------------------------------------------------------------------------
(* Request                                                                 *)

\* makeRequestSegment, with no ack-* options; -1 is an unset frequency, and
\* ackGI = 1 stands for GI_800.
MakeRequest(session, known, strategy, cf, sf) ==
    LET change == cf # -1 \/ sf # -1 IN
    [deviceProbingStage |-> IF known THEN 0 ELSE 1,
     replyStrategy |-> IF change THEN ReplyOnlyHeader ELSE strategy,
     sessionId     |-> session,
     repeat        |-> IF change THEN 5 ELSE 1,
     ackMCS        |-> IF change THEN 0 ELSE -1,
     ackNumSTS     |-> IF change THEN 1 ELSE -1,
     ackCBW        |-> -1,
     ackGI         |-> IF change THEN 1 ELSE -1,
     cf |-> cf, sf |-> sf]

\* The packed struct EchoProbeRequest, with the ranges of its fields; the
\* frequencies are whole numbers.
UInt16 == 0..65535
Int16  == -32768..32767

Request ==
    [deviceProbingStage : {0, 1}, replyStrategy : Strategies, sessionId : UInt16,
     repeat : Int16, ackMCS : Int16, ackNumSTS : Int16, ackCBW : Int16, ackGI : Int16,
     cf : Int, sf : Int]

RequestToBuffer(request) ==
    Bytes(request.deviceProbingStage, 1) \o Bytes(request.replyStrategy, 1)
        \o Bytes(request.sessionId, 2) \o Bytes(request.repeat, 2)
        \o Bytes(request.ackMCS, 2) \o Bytes(request.ackNumSTS, 2)
        \o Bytes(request.ackCBW, 2) \o Bytes(request.ackGI, 2)
        \o Bytes(request.cf, 8) \o Bytes(request.sf, 8)

\* Position and width of what v1Parser reads.
V1Reads ==
    [deviceProbingStage |-> <<0, 1>>, replyStrategy |-> <<1, 1>>, sessionId |-> <<2, 2>>,
     repeat |-> <<4, 2>>, ackMCS |-> <<6, 2>>, ackNumSTS |-> <<8, 2>>,
     ackCBW |-> <<10, 2>>, ackGI |-> <<12, 2>>, cf |-> <<14, 8>>, sf |-> <<22, 8>>]

\* Otherwise v1Parser throws: it must have read the whole buffer.
V1Parses(buffer) == Len(buffer) = V1Reads.sf[1] + V1Reads.sf[2]

V1Parser(buffer) == [f \in DOMAIN V1Reads |-> Read(buffer, V1Reads[f][1], V1Reads[f][2])]

\* The request at the receiver.
Received(request) == V1Parser(RequestToBuffer(request))

-----------------------------------------------------------------------------
(* Reply                                                                   *)

PayloadName(strategy) ==
    IF strategy = ReplyWithFullPayload THEN NameOfFull
    ELSE IF strategy = ReplyWithCSI THEN NameOfCSI ELSE NoName

\* EchoProbeReply::toBuffer
ReplyToBuffer(reply) ==
    Bytes(reply.replyStrategy, 1) \o Bytes(reply.sessionId, 2)
        \o Bytes(reply.payloadName, 1) \o Bytes(reply.payloadName, reply.payloadName)

\* Mutant: the name is read from the byte of its length on.
FromBufferNameEarly(buffer) ==
    [replyStrategy |-> Read(buffer, 0, 1),
     sessionId     |-> Read(buffer, 1, 2),
     payloadName   |-> IF buffer[4][1] = 0 THEN NoName ELSE Read(buffer, 3, buffer[4][1])]

\* EchoProbeReply::fromBuffer
FromBuffer(buffer) ==
    [replyStrategy |-> Read(buffer, 0, 1),
     sessionId     |-> Read(buffer, 1, 2),
     payloadName   |-> IF buffer[4][1] = 0 THEN NoName ELSE Read(buffer, 4, buffer[4][1])]

\* The payload segments of the reply, by name, with what they carry.
Payloads(strategy) ==
    IF strategy = ReplyWithFullPayload THEN {<<NameOfFull, "FullPicoScenesPacket">>}
    ELSE IF strategy = ReplyWithCSI THEN {<<NameOfCSI, "SignalMatrix">>} ELSE {}

\* makeRepliesForEchoProbeRequestFrames
MakeReply(request) ==
    [type     |-> "EchoProbeReply",
     segment  |-> [replyStrategy |-> request.replyStrategy,
                   sessionId     |-> request.sessionId,
                   payloadName   |-> PayloadName(request.replyStrategy)],
     payloads |-> Payloads(request.replyStrategy)]

\* What transmitAndSyncRxUnified asks of a reply before it returns it.
AcceptsReply(frame) ==
    LET reply == FromBuffer(ReplyToBuffer(frame.segment))
        named == {p \in frame.payloads : p[1] = reply.payloadName}
    IN  \/ reply.replyStrategy \in {ReplyOnlyHeader, ReplyWithExtraInfo}
        \/ reply.replyStrategy = ReplyWithCSI /\ named # {}
        \/ /\ reply.replyStrategy = ReplyWithFullPayload
           /\ \E p \in named : p[2] = "FullPicoScenesPacket"
=============================================================================
