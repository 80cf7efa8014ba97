--------------------------- MODULE UDPRemoteLogger ---------------------------
(***************************************************************************)
(* The UDP remote logger: io_service threads that receive datagrams, and   *)
(* three AsyncPipelines behind them, each with a queue and one worker that *)
(* takes the items in order: RxFrameDecoder, FrameConcat, FrameDumper.     *)
(* AsyncPipeline and ModularPicoScenesRxFrame::fromBuffer belong to the    *)
(* PicoScenes platform.                                                    *)
(***************************************************************************)
EXTENDS UDPNetwork, Sequences, FiniteSets, SequencesExt

CONSTANTS
    LoggerAddress,   \* ip and port the socket is bound to
    SentDiagrams,    \* diagrams that forwarders send
    LiveLimit,       \* 100 in the code
    IoThreads,       \* threadPool
    Corrupt,         \* a frame decoded from bytes that are no frame
    MaxErrors        \* bound on errors reported by async_receive_from

ASSUME LoggerAssumption ==
    /\ MaxErrors \in Nat
    /\ LiveLimit \in Nat \ {0}
    /\ \A d \in SentDiagrams : Corrupt # d.frame

VARIABLES
    armed,               \* async_receive_from is outstanding
    rxTempBuffer,        \* the datagram in the buffer, in a sequence of at most one
    rxPc,                \* where each thread of threadPool is
    errors,
    exited,              \* main has returned
    decoderQueue,        \* udpDiagramReceivingPipeline
    concatQueue,         \* frameConcatPipeline
    frameConcatBuffer,   \* see FrameConcat
    merged,
    dumperQueue,         \* dumperPipeline
    dumped               \* frames FrameDumper received

receiverVars == <<armed, rxTempBuffer, rxPc, errors, exited>>

loggerVars == <<receiverVars, decoderQueue, concatQueue, frameConcatBuffer,
                merged, dumperQueue, dumped>>

FrameConcat == INSTANCE FrameConcat WITH Diagrams <- SentDiagrams

LoggerInit ==
    /\ armed = TRUE
    /\ rxTempBuffer = <<>>
    /\ rxPc = [t \in IoThreads |-> "run"]
    /\ errors = 0
    /\ exited = FALSE
    /\ decoderQueue = <<>>
    /\ concatQueue = <<>>
    /\ FrameConcat!Init
    /\ dumperQueue = <<>>
    /\ dumped = <<>>

-----------------------------------------------------------------------------
(* Receiving: run, and in the handler before the copy or before re-arming. *)

Addressed(d) == [ip |-> d.ip, port |-> d.port] = LoggerAddress

\* Mutant: receiving is activated again before the buffer is copied.
ReceiveArmed(t) ==
    /\ armed /\ ~exited
    /\ rxPc[t] = "run"
    /\ \E d \in network :
        /\ Addressed(d)
        /\ Arrive(d)
        /\ rxTempBuffer' = <<d.diagram>>
    /\ rxPc' = [rxPc EXCEPT ![t] = "copy"]
    /\ UNCHANGED <<armed, errors, exited, decoderQueue, concatQueue,
                   frameConcatBuffer, merged, dumperQueue, dumped>>

\* A datagram is put into the buffer and the handler called on a thread.
Receive(t) ==
    /\ armed /\ ~exited
    /\ rxPc[t] = "run"
    /\ \E d \in network :
        /\ Addressed(d)
        /\ Arrive(d)
        /\ rxTempBuffer' = <<d.diagram>>
    /\ armed' = FALSE
    /\ rxPc' = [rxPc EXCEPT ![t] = "copy"]
    /\ UNCHANGED <<errors, exited, decoderQueue, concatQueue,
                   frameConcatBuffer, merged, dumperQueue, dumped>>

\* udpDiagramReceivingPipeline->send
CopyOut(t) ==
    /\ rxPc[t] = "copy" /\ ~exited
    /\ decoderQueue' = decoderQueue \o rxTempBuffer
    /\ rxPc' = [rxPc EXCEPT ![t] = "rearm"]
    /\ UNCHANGED <<networkVars, armed, rxTempBuffer, errors, exited, concatQueue,
                   frameConcatBuffer, merged, dumperQueue, dumped>>

Rearm(t) ==
    /\ rxPc[t] = "rearm" /\ ~exited
    /\ armed' = TRUE
    /\ rxPc' = [rxPc EXCEPT ![t] = "run"]
    /\ UNCHANGED <<networkVars, rxTempBuffer, errors, exited, decoderQueue, concatQueue,
                   frameConcatBuffer, merged, dumperQueue, dumped>>

\* The handler is called with an error: receiving is not activated again.
ReceiveError ==
    /\ armed /\ ~exited
    /\ errors < MaxErrors
    /\ errors' = errors + 1
    /\ armed' = FALSE
    /\ UNCHANGED <<networkVars, rxTempBuffer, rxPc, exited, decoderQueue, concatQueue,
                   frameConcatBuffer, merged, dumperQueue, dumped>>

\* io_service is out of work: run returns on every thread, and so does main.
Exit ==
    /\ ~armed /\ ~exited
    /\ \A t \in IoThreads : rxPc[t] = "run"
    /\ exited' = TRUE
    /\ UNCHANGED <<networkVars, armed, rxTempBuffer, rxPc, errors, decoderQueue, concatQueue,
                   frameConcatBuffer, merged, dumperQueue, dumped>>

-----------------------------------------------------------------------------
(* The pipelines                                                           *)

\* The segments are the bytes of one frame, in order and complete.
Intact(segments) ==
    /\ \A i \in DOMAIN segments :
        /\ segments[i].frame = segments[1].frame
        /\ segments[i].from = IF i = 1 THEN 0 ELSE segments[i-1].from + segments[i-1].len
    /\ Last(segments).from + Last(segments).len = segments[1].total

\* What fromBuffer may make of the merged segments.
Decodings(segments) ==
    IF Intact(segments) THEN {<<segments[1].frame>>} ELSE {<<>>, <<Corrupt>>}

IsWholeFrame(d) == d.num = 1 /\ d.id = 0

DecodeWholeFrame ==
    /\ decoderQueue # <<>> /\ ~exited
    /\ IsWholeFrame(Head(decoderQueue))
    /\ \E out \in Decodings(<<Head(decoderQueue)>>) : dumperQueue' = dumperQueue \o out
    /\ decoderQueue' = Tail(decoderQueue)
    /\ UNCHANGED <<networkVars, receiverVars, concatQueue, frameConcatBuffer, merged, dumped>>

PassToConcat ==
    /\ decoderQueue # <<>> /\ ~exited
    /\ ~IsWholeFrame(Head(decoderQueue))
    /\ concatQueue' = Append(concatQueue, Head(decoderQueue))
    /\ decoderQueue' = Tail(decoderQueue)
    /\ UNCHANGED <<networkVars, receiverVars, frameConcatBuffer, merged, dumperQueue, dumped>>

\* A call merges at most one frame (FrameConcat, AtMostOneMerged).
ConcatFrame ==
    /\ concatQueue # <<>> /\ ~exited
    /\ FrameConcat!Concat(Head(concatQueue))
    /\ concatQueue' = Tail(concatQueue)
    /\ IF DOMAIN merged' = {}
       THEN UNCHANGED dumperQueue
       ELSE \E t \in DOMAIN merged' : \E out \in Decodings(merged'[t]) :
                dumperQueue' = dumperQueue \o out
    /\ UNCHANGED <<networkVars, receiverVars, decoderQueue, dumped>>

DumpFrame ==
    /\ dumperQueue # <<>> /\ ~exited
    /\ dumped' = Append(dumped, Head(dumperQueue))
    /\ dumperQueue' = Tail(dumperQueue)
    /\ UNCHANGED <<networkVars, receiverVars, decoderQueue, concatQueue,
                   frameConcatBuffer, merged>>

-----------------------------------------------------------------------------
LoggerTypeOK ==
    /\ armed \in BOOLEAN /\ exited \in BOOLEAN
    /\ rxTempBuffer \in Seq(SentDiagrams) /\ Len(rxTempBuffer) <= 1
    /\ rxPc \in [IoThreads -> {"run", "copy", "rearm"}]
    /\ errors \in 0..MaxErrors
    /\ decoderQueue \in Seq(SentDiagrams)
    /\ concatQueue \in Seq(SentDiagrams)
    /\ FrameConcat!TypeOK
    /\ \A queue \in {dumperQueue, dumped} :
        queue \in Seq({d.frame : d \in SentDiagrams} \cup {Corrupt})
=============================================================================
