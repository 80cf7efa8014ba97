------------------------ MODULE SessionExchange_proof ------------------------
(***************************************************************************)
(* Theorems about the exchange of frames in EchoProbeSession: what an      *)
(* answer the initiator takes tells it about the responder.                *)
(***************************************************************************)
EXTENDS EchoProbeSession_proof

USE DEF Stations

\* What is on its way to the responder, and to the initiator.
Requests == FramesIn(inbox["responder"]) \cup FramesIn(outbox["initiator"])
Answers == FramesIn(inbox["initiator"]) \cup FramesIn(outbox["responder"])

Sorted(s) == \A m, n \in DOMAIN s : m <= n => s[m].task <= s[n].task

SameRequest(f) == f.type = frame.type /\ f.cf = frame.cf /\ f.sf = frame.sf

(***************************************************************************)
(* Requests are handled in the order of their tasks: whatever is answered  *)
(* is not newer than what is still to be handled.                          *)
(***************************************************************************)
Order ==
    /\ Sorted(inbox["responder"]) /\ Sorted(outbox["initiator"])
    /\ \A f \in FramesIn(inbox["responder"]), g \in FramesIn(outbox["initiator"]) :
           f.task <= g.task
    /\ \A a \in Answers, f \in Requests : a.task <= f.task
    /\ \A f \in Requests \cup Answers : f.task <= frame.task
    /\ \A f \in Requests : f.task = frame.task => SameRequest(f)

\* The request that is being carried out is the last one handled.
Serving ==
    /\ rpc = "idle" => serving = NotServing
    /\ rpc = "shiftSF" /\ serving.cf > 0 => tuning["responder"].cf = serving.cf
    /\ rpc # "idle" =>
           /\ serving.type = "EchoProbeFreqChangeRequest"
           /\ serving.task <= frame.task
           /\ serving.task = frame.task => SameRequest(serving)
           /\ \A a \in Answers : a.task <= serving.task

InCall == ipc \in {"transmit", "await"}

(***************************************************************************)
(* An ACK of the present hop means that the frequencies of the request are *)
(* set, or will be; once it was heard, at either tuning, the others are    *)
(* right as well.                                                          *)
(***************************************************************************)
HopInv ==
    InCall /\ call # "measure" =>
        /\ ~connectionEstablished
        /\ frame.type = "EchoProbeFreqChangeRequest"
        /\ frame.cf = IF Point.cf # origin.cf THEN Point.cf ELSE Unspecified
        /\ frame.sf = IF Point.sf # origin.sf THEN Point.sf ELSE Unspecified
        /\ tuning["initiator"] \in {origin, Point}
        /\ \A a \in Answers : a.task = frame.task =>
               /\ frame.cf > 0 => HeadedFor.cf = frame.cf
               /\ frame.sf > 0 => HeadedFor.sf = frame.sf
        /\ \A a \in FramesIn(inbox["initiator"]) : a.task = frame.task => HeadedFor = Point

(***************************************************************************)
(* A reply to the present measurement holds the tuning that the responder  *)
(* still has; once it was heard this is the scan point.                    *)
(***************************************************************************)
MeasureInv ==
    InCall /\ call = "measure" =>
        /\ frame.type = "EchoProbeRequest"
        /\ \A a \in Answers : a.task = frame.task =>
               /\ a.type = "EchoProbeReply"
               /\ [cf |-> a.cf, sf |-> a.sf] = tuning["responder"]
               /\ a.task \in rxLog
               /\ rpc = "idle"
        /\ \A a \in FramesIn(inbox["initiator"]) :
               a.task = frame.task => tuning["responder"] = Point

ExchangeInv == Order /\ Serving /\ HopInv /\ MeasureInv /\ ConfirmedHopIsShared

-----------------------------------------------------------------------------
(* Queues                                                                  *)

LEMMA TailOfQueue ==
    ASSUME NEW s \in Seq(Frame), s # <<>>
    PROVE  /\ Head(s) \in FramesIn(s) /\ Head(s) \in Frame
           /\ FramesIn(Tail(s)) \subseteq FramesIn(s)
           /\ Sorted(s) => Sorted(Tail(s)) /\ \A f \in FramesIn(Tail(s)) : Head(s).task <= f.task
<1>1. Len(s) \in Nat \ {0} /\ DOMAIN s = 1..Len(s) /\ Head(s) = s[1] /\ 1 \in DOMAIN s
  OBVIOUS
<1>2. /\ DOMAIN Tail(s) = 1..(Len(s) - 1)
      /\ \A n \in DOMAIN Tail(s) : n + 1 \in DOMAIN s /\ Tail(s)[n] = s[n + 1]
  OBVIOUS
<1>3. Head(s) \in FramesIn(s) /\ Head(s) \in Frame
  BY <1>1 DEF FramesIn
<1>4. FramesIn(Tail(s)) \subseteq FramesIn(s)
  BY <1>2 DEF FramesIn
<1>5. ASSUME Sorted(s), NEW m \in DOMAIN Tail(s), NEW n \in DOMAIN Tail(s), m <= n
      PROVE  Tail(s)[m].task <= Tail(s)[n].task
  <2>1. m + 1 \in DOMAIN s /\ n + 1 \in DOMAIN s /\ m + 1 <= n + 1
    BY <1>1, <1>2, <1>5
  <2> QED
    BY <1>2, <1>5, <2>1 DEF Sorted
<1>6. ASSUME Sorted(s), NEW n \in DOMAIN Tail(s) PROVE Head(s).task <= Tail(s)[n].task
  <2>1. n + 1 \in DOMAIN s /\ 1 <= n + 1
    BY <1>1, <1>2, <1>6
  <2> QED
    BY <1>1, <1>2, <1>6, <2>1 DEF Sorted
<1> QED
  BY <1>3, <1>4, <1>5, <1>6 DEF Sorted, FramesIn

LEMMA EndOfQueue ==
    ASSUME NEW s \in Seq(Frame), NEW g \in Frame
    PROVE  /\ FramesIn(Append(s, g)) = FramesIn(s) \cup {g}
           /\ Sorted(s) /\ (\A f \in FramesIn(s) : f.task <= g.task) => Sorted(Append(s, g))
<1>1. /\ DOMAIN s = 1..Len(s) /\ Len(s) \in Nat
      /\ DOMAIN Append(s, g) = 1..(Len(s) + 1)
      /\ \A n \in DOMAIN s : Append(s, g)[n] = s[n]
      /\ Append(s, g)[Len(s) + 1] = g
  OBVIOUS
<1>2. \A n \in DOMAIN Append(s, g) : n \in DOMAIN s \/ n = Len(s) + 1
  BY <1>1
<1>3. FramesIn(Append(s, g)) = FramesIn(s) \cup {g}
  BY <1>1, <1>2 DEF FramesIn
<1>4. ASSUME Sorted(s), \A f \in FramesIn(s) : f.task <= g.task,
             NEW m \in DOMAIN Append(s, g), NEW n \in DOMAIN Append(s, g), m <= n
      PROVE  Append(s, g)[m].task <= Append(s, g)[n].task
  <2>1. CASE n \in DOMAIN s
    <3>1. m \in DOMAIN s
      BY <1>1, <1>4, <2>1
    <3> QED
      BY <1>1, <1>4, <2>1, <3>1 DEF Sorted
  <2>2. CASE n = Len(s) + 1 /\ m \in DOMAIN s
    <3>1. s[m] \in FramesIn(s)
      BY <2>2 DEF FramesIn
    <3> QED
      BY <1>1, <1>4, <2>2, <3>1
  <2>3. CASE n = Len(s) + 1 /\ m = Len(s) + 1
    <3>1. g.task <= g.task
      BY DEF Frame
    <3> QED
      BY <1>1, <2>3, <3>1
  <2> QED
    BY <1>2, <2>1, <2>2, <2>3
<1> QED
  BY <1>3, <1>4 DEF Sorted

LEMMA QueueTypes ==
    ASSUME TypeOK
    PROVE  /\ \A s \in Stations : inbox[s] \in Seq(Frame) /\ outbox[s] \in Seq(Frame)
           /\ \A f \in Requests \cup Answers : f \in Frame
           /\ frame \in Frame /\ serving \in Frame
<1>1. \A s \in Stations : inbox[s] \in Seq(Frame) /\ outbox[s] \in Seq(Frame)
  BY DEF TypeOK, RadioTypeOK
<1>2. \A q \in Seq(Frame) : \A f \in FramesIn(q) : f \in Frame
  BY DEF FramesIn
<1> QED
  BY <1>1, <1>2 DEF Requests, Answers, TypeOK, InitiatorTypeOK, ResponderTypeOK

-----------------------------------------------------------------------------
(* Steps of the initiator                                                  *)

\* The initiator goes on with its task, or to the next one, and may take an answer.
LEMMA InitiatorKeepsOrder ==
    ASSUME TypeOK, Order, Serving, frame'.task \in {frame.task, frame.task + 1},
           frame'.task = frame.task => frame' = frame,
           outbox' = outbox, inbox'["responder"] = inbox["responder"],
           FramesIn(inbox'["initiator"]) \subseteq FramesIn(inbox["initiator"]),
           UNCHANGED <<rpc, serving>>, tuning'["responder"] = tuning["responder"]
    PROVE  /\ Order' /\ Serving' /\ Requests' = Requests /\ Answers' \subseteq Answers
           /\ HeadedFor' = HeadedFor /\ PendingChanges' = PendingChanges
           /\ frame'.task = frame.task + 1 => \A a \in Answers' : a.task # frame'.task
<1>1. Requests' = Requests /\ Answers' \subseteq Answers
  BY DEF Requests, Answers
<1>2. frame.task \in Nat /\ serving.task \in Nat /\ \A f \in Requests \cup Answers : f.task \in Nat
  BY QueueTypes DEF Frame
<1>3. \A f \in Requests \cup Answers : f.task <= frame.task
  BY DEF Order
<1>4. Order'
  BY <1>1, <1>2, <1>3 DEF Order, SameRequest
<1>5. Serving'
  BY <1>1, <1>2 DEF Serving, SameRequest
<1>6. HeadedFor' = HeadedFor /\ PendingChanges' = PendingChanges
  BY DEF HeadedFor, Overlay, PendingChanges
<1>7. frame'.task = frame.task + 1 => \A a \in Answers' : a.task # frame'.task
  BY <1>1, <1>2, <1>3
<1> QED
  BY <1>1, <1>4, <1>5, <1>6, <1>7

\* A new measurement starts with no answer to it on the way.
LEMMA NewMeasurement ==
    ASSUME NEW i, StartMeasurement(i),
           frame'.task = frame.task + 1 => \A a \in Answers' : a.task # frame'.task
    PROVE  HopInv' /\ MeasureInv' /\ frame'.task = frame.task + 1
<1>1. /\ frame' = MeasureRequest /\ call' = "measure"
      /\ frame'.task = frame.task + 1 /\ frame'.type = "EchoProbeRequest"
  BY DEF StartMeasurement, MeasureRequest, BasicFrame
<1>2. \A a \in FramesIn(inbox["initiator"])' : a \in Answers'
  BY DEF Answers
<1> QED
  BY <1>1, <1>2 DEF HopInv, MeasureInv

\* An attempt without a usable reply continues the call or ends it.
LEMMA CallGoesOn ==
    ASSUME TypeOK, MeasuringAtPoint, ExchangeInv, ipc = "await", NoUsableReply,
           FramesIn(inbox'["initiator"]) \subseteq FramesIn(inbox["initiator"]),
           Answers' \subseteq Answers, HeadedFor' = HeadedFor,
           tuning'["responder"] = tuning["responder"], UNCHANGED <<rpc, rxLog>>
    PROVE  HopInv' /\ MeasureInv' /\ (connectionEstablished' => tuning' = tuning)
<1>1. HopInv /\ MeasureInv /\ frame' = frame /\ origin' = origin
      /\ connectionEstablished' = connectionEstablished
  BY DEF ExchangeInv, NoUsableReply
<1>2. InCall /\ tuning \in [Stations -> Tuning]
  BY DEF InCall, TypeOK, RadioTypeOK
<1>3. CASE call' = call /\ tuning' = tuning /\ at' = at
  <2>1. Point' = Point
    BY <1>3 DEF Point, PointOf
  <2> QED
    BY <1>1, <1>2, <1>3, <2>1 DEF HopInv, MeasureInv
<1>4. CASE call \in {"current", "next"} /\ call' \in {"current", "next"} /\ at' = at
           /\ \E t \in {origin, Point} : tuning' = [tuning EXCEPT !["initiator"] = t]
  <2>1. Point' = Point
    BY <1>4 DEF Point, PointOf
  <2>2. tuning'["initiator"] \in {origin, Point}
    BY <1>2, <1>4
  <2>3. call # "measure" /\ call' # "measure" /\ ~connectionEstablished
    BY <1>1, <1>2, <1>4 DEF HopInv
  <2> QED
    BY <1>1, <1>2, <2>1, <2>2, <2>3 DEF HopInv, MeasureInv
<1>5. CASE ipc' \in {"visit", "done"} /\ (connectionEstablished' => tuning' = tuning)
  BY <1>5 DEF HopInv, MeasureInv, InCall
<1>6. CASE RetryTransmission
  BY <1>3, <1>6 DEF RetryTransmission
<1>7. CASE TryTargetTuning
  BY <1>4, <1>7 DEF TryTargetTuning, ReachPoint, Tune
<1>8. CASE RetreatToOrigin
  <2>1. CASE attempt < TxMaxRetry
    BY <1>4, <1>8, <2>1 DEF RetreatToOrigin, Tune
  <2>2. CASE ~(attempt < TxMaxRetry)
    <3>1. ipc' \in {"visit", "done"}
      BY <1>8, <2>2, LeaveType DEF RetreatToOrigin
    <3>2. ~connectionEstablished
      BY <1>1, <1>2, <1>8 DEF HopInv, RetreatToOrigin
    <3> QED
      BY <1>1, <1>5, <3>1, <3>2
  <2> QED
    BY <2>1, <2>2
<1>9. CASE AbandonMeasurement
  BY <1>5, <1>9, LeaveType DEF AbandonMeasurement
<1> QED
  BY <1>6, <1>7, <1>8, <1>9 DEF NoUsableReply

\* The initiator takes an answer off its inbox.
LEMMA AnswerTaken ==
    ASSUME TypeOK, TakeFrame("initiator")
    PROVE  /\ Head(inbox["initiator"]) \in FramesIn(inbox["initiator"])
           /\ inbox'["responder"] = inbox["responder"]
           /\ FramesIn(inbox'["initiator"]) \subseteq FramesIn(inbox["initiator"])
<1>1. inbox \in [Stations -> Seq(Frame)]
  BY DEF TypeOK, RadioTypeOK
<1>2. inbox["initiator"] # <<>> /\ inbox' = [inbox EXCEPT !["initiator"] = Tail(@)]
  BY DEF TakeFrame
<1>3. inbox'["initiator"] = Tail(inbox["initiator"]) /\ inbox'["responder"] = inbox["responder"]
  BY <1>1, <1>2
<1>4. inbox["initiator"] \in Seq(Frame)
  BY <1>1
<1> QED
  BY <1>2, <1>3, <1>4, TailOfQueue

\* What the ACK of a hop tells.
LEMMA HopIsShared ==
    ASSUME TypeOK, ExchangeInv, ConfirmHop
    PROVE  /\ HeadedFor = Point
           /\ \A f \in PendingChanges : Overlay(HeadedFor, f) = HeadedFor
<1> DEFINE a == Head(inbox["initiator"])
<1>1. a \in FramesIn(inbox["initiator"]) /\ a \in Answers /\ a.task = frame.task
  BY AnswerTaken DEF ConfirmHop, Accepts, Answers
<1> HIDE DEF a
<1>2. InCall /\ call # "measure"
  BY DEF ConfirmHop, InCall
<1>3. HeadedFor = Point
  BY <1>1, <1>2 DEF ExchangeInv, HopInv
<1>4. ASSUME NEW f \in PendingChanges PROVE Overlay(HeadedFor, f) = HeadedFor
  <2>1. f \in Requests
    BY DEF PendingChanges, Requests
  <2>2. a.task <= f.task /\ f.task <= frame.task /\ f.task \in Nat /\ frame.task \in Nat
    BY <1>1, <2>1, QueueTypes DEF ExchangeInv, Order, Frame
  <2>3. f.task = frame.task
    BY <1>1, <2>2
  <2>4. f.cf = frame.cf /\ f.sf = frame.sf
    BY <2>1, <2>3 DEF ExchangeInv, Order, SameRequest
  <2>5. f.cf \in {Point.cf, Unspecified} /\ f.sf \in {Point.sf, Unspecified}
    BY <1>2, <2>4 DEF ExchangeInv, HopInv
  <2>6. Point = [cf |-> Point.cf, sf |-> Point.sf]
    BY DEF Point, PointOf
  <2> QED
    BY <1>3, <2>5, <2>6 DEF Overlay, Unspecified
<1> QED
  BY <1>3, <1>4

LEMMA InitiatorExchange ==
    ASSUME TypeOK, MeasuringAtPoint, ExchangeInv,
           InitiatorStep \/ InitiatorRxStep \/ DecodeFailure, ~Transmit
    PROVE  ExchangeInv'
<1>1. Order /\ Serving /\ HopInv /\ MeasureInv /\ ConfirmedHopIsShared
  BY DEF ExchangeInv
<1>2. UNCHANGED <<rpc, serving, rxLog>>
  BY DEF InitiatorStep, InitiatorRxStep, DecodeFailure, responderVars
<1>3. tuning \in [Stations -> Tuning] /\ frame.task \in Nat
  BY QueueTypes DEF TypeOK, RadioTypeOK, Frame
<1>4. CASE VisitTunedPoint
  <2>1. StartMeasurement(1) /\ UNCHANGED radioVars /\ UNCHANGED connectionEstablished
    BY <1>4 DEF VisitTunedPoint
  <2>2. frame'.task = frame.task + 1
    BY <2>1 DEF StartMeasurement, MeasureRequest, BasicFrame
  <2>3. /\ Order' /\ Serving' /\ HeadedFor' = HeadedFor /\ PendingChanges' = PendingChanges
        /\ \A a \in Answers' : a.task # frame'.task
    BY <1>1, <1>2, <1>3, <2>1, <2>2, InitiatorKeepsOrder DEF radioVars
  <2>4. HopInv' /\ MeasureInv'
    BY <2>1, <2>3, NewMeasurement
  <2> QED
    BY <1>1, <2>1, <2>3, <2>4 DEF ExchangeInv, ConfirmedHopIsShared, radioVars
<1>5. CASE StartHop
  <2>1. /\ UNCHANGED radioVars /\ frame' = FreqChangeRequest /\ origin' = tuning["initiator"]
        /\ ~connectionEstablished' /\ call' # "measure" /\ at' = at
    BY <1>5 DEF StartHop
  <2>2. /\ frame'.task = frame.task + 1
        /\ frame'.type = "EchoProbeFreqChangeRequest"
        /\ frame'.cf = IF Point.cf # tuning["initiator"].cf THEN Point.cf ELSE Unspecified
        /\ frame'.sf = IF Point.sf # tuning["initiator"].sf THEN Point.sf ELSE Unspecified
    BY <2>1 DEF FreqChangeRequest, BasicFrame
  <2>3. Order' /\ Serving' /\ \A a \in Answers' : a.task # frame'.task
    BY <1>1, <1>2, <1>3, <2>1, <2>2, InitiatorKeepsOrder DEF radioVars
  <2>4. Point' = Point /\ \A a \in FramesIn(inbox["initiator"])' : a \in Answers'
    BY <2>1 DEF Point, PointOf, Answers
  <2>5. HopInv'
    BY <2>1, <2>2, <2>3, <2>4 DEF HopInv, radioVars
  <2>6. MeasureInv' /\ ConfirmedHopIsShared'
    BY <2>1 DEF MeasureInv, ConfirmedHopIsShared
  <2> QED
    BY <2>3, <2>5, <2>6 DEF ExchangeInv
<1>6. CASE ConfirmHop
  <2>1. /\ StartMeasurement(1) /\ TakeFrame("initiator") /\ outbox' = outbox
        /\ tuning' = [tuning EXCEPT !["initiator"] = Point]
    BY <1>6 DEF ConfirmHop, ReachPoint, Tune
  <2>2. frame'.task = frame.task + 1
    BY <2>1 DEF StartMeasurement, MeasureRequest, BasicFrame
  <2>3. tuning'["initiator"] = Point /\ tuning'["responder"] = tuning["responder"]
    BY <1>3, <2>1
  <2>4. /\ Order' /\ Serving' /\ HeadedFor' = HeadedFor /\ PendingChanges' = PendingChanges
        /\ \A a \in Answers' : a.task # frame'.task
    BY <1>1, <1>2, <1>3, <2>1, <2>2, <2>3, AnswerTaken, InitiatorKeepsOrder
  <2>5. HopInv' /\ MeasureInv'
    BY <2>1, <2>4, NewMeasurement
  <2>6. ConfirmedHopIsShared'
    BY <1>6, <2>3, <2>4, HopIsShared DEF ConfirmedHopIsShared
  <2> QED
    BY <2>4, <2>5, <2>6 DEF ExchangeInv
<1>7. CASE RecordMeasurement
  <2>1. TakeFrame("initiator") /\ UNCHANGED <<tuning, outbox, connectionEstablished>>
    BY <1>7 DEF RecordMeasurement
  <2>2. CASE repetition < CfRepeat
    <3>1. StartMeasurement(repetition + 1)
      BY <1>7, <2>2 DEF RecordMeasurement
    <3>2. frame'.task = frame.task + 1
      BY <3>1 DEF StartMeasurement, MeasureRequest, BasicFrame
    <3>3. /\ Order' /\ Serving' /\ HeadedFor' = HeadedFor /\ PendingChanges' = PendingChanges
          /\ \A a \in Answers' : a.task # frame'.task
      BY <1>1, <1>2, <1>3, <2>1, <3>2, AnswerTaken, InitiatorKeepsOrder
    <3>4. HopInv' /\ MeasureInv'
      BY <3>1, <3>3, NewMeasurement
    <3> QED
      BY <1>1, <2>1, <3>3, <3>4 DEF ExchangeInv, ConfirmedHopIsShared
  <2>3. CASE ~(repetition < CfRepeat)
    <3>1. LeavePoint /\ frame' = frame
      BY <1>7, <2>3 DEF RecordMeasurement
    <3>2. ipc' \in {"visit", "done"}
      BY <3>1, LeaveType
    <3>3. Order' /\ Serving' /\ HeadedFor' = HeadedFor /\ PendingChanges' = PendingChanges
      BY <1>1, <1>2, <1>3, <2>1, <3>1, AnswerTaken, InitiatorKeepsOrder
    <3>4. HopInv' /\ MeasureInv'
      BY <3>2 DEF HopInv, MeasureInv, InCall
    <3> QED
      BY <1>1, <2>1, <3>3, <3>4 DEF ExchangeInv, ConfirmedHopIsShared
  <2> QED
    BY <2>2, <2>3
<1>8. CASE Timeout \/ RejectReply
  <2>1. ipc = "await" /\ NoUsableReply /\ UNCHANGED <<frame, outbox, connectionEstablished>>
    BY <1>8 DEF Timeout, RejectReply, NoUsableReply
  <2>2. /\ inbox'["responder"] = inbox["responder"]
        /\ FramesIn(inbox'["initiator"]) \subseteq FramesIn(inbox["initiator"])
    BY <1>8, AnswerTaken DEF Timeout, RejectReply
  <2>3. tuning'["responder"] = tuning["responder"]
    BY <2>1, NoUsableReplyType
  <2>4. /\ Order' /\ Serving' /\ HeadedFor' = HeadedFor /\ PendingChanges' = PendingChanges
        /\ Answers' \subseteq Answers
    BY <1>1, <1>2, <1>3, <2>1, <2>2, <2>3, InitiatorKeepsOrder
  <2>5. HopInv' /\ MeasureInv' /\ (connectionEstablished' => tuning' = tuning)
    BY <1>2, <2>1, <2>2, <2>3, <2>4, CallGoesOn
  <2>6. ConfirmedHopIsShared'
    BY <1>1, <2>1, <2>4, <2>5 DEF ConfirmedHopIsShared
  <2> QED
    BY <2>4, <2>5, <2>6 DEF ExchangeInv
<1>9. CASE Overhear
  <2>1. TakeFrame("initiator") /\ UNCHANGED <<tuning, outbox, initiatorVars>>
    BY <1>9 DEF Overhear
  <2>2. /\ inbox'["responder"] = inbox["responder"]
        /\ FramesIn(inbox'["initiator"]) \subseteq FramesIn(inbox["initiator"])
    BY <2>1, AnswerTaken
  <2>3. UNCHANGED <<ipc, call, at, frame, origin, connectionEstablished>> /\ Point' = Point
    BY <2>1 DEF initiatorVars, Point, PointOf
  <2>4. /\ Order' /\ Serving' /\ HeadedFor' = HeadedFor /\ PendingChanges' = PendingChanges
        /\ Answers' \subseteq Answers
    BY <1>1, <1>2, <1>3, <2>1, <2>2, <2>3, InitiatorKeepsOrder
  <2>5. HopInv'
    BY <1>1, <2>1, <2>2, <2>3, <2>4 DEF HopInv, InCall
  <2>6. MeasureInv'
    BY <1>1, <1>2, <2>1, <2>2, <2>3, <2>4 DEF MeasureInv, InCall
  <2>7. ConfirmedHopIsShared'
    BY <1>1, <2>1, <2>3, <2>4 DEF ConfirmedHopIsShared
  <2> QED
    BY <2>4, <2>5, <2>6, <2>7 DEF ExchangeInv
<1> QED
  BY <1>4, <1>5, <1>6, <1>7, <1>8, <1>9 DEF InitiatorStep, InitiatorRxStep, DecodeFailure

LEMMA TransmitExchange ==
    ASSUME TypeOK, TypeOK', ExchangeInv, InitiatorStep, Transmit
    PROVE  ExchangeInv'
<1>1. Order /\ Serving /\ HopInv /\ MeasureInv /\ ConfirmedHopIsShared
  BY DEF ExchangeInv
<1>2. /\ UNCHANGED <<tuning, inbox, call, at, origin, connectionEstablished>>
      /\ UNCHANGED <<rpc, serving, rxLog>>
      /\ InCall /\ InCall'
  BY DEF InitiatorStep, Transmit, responderVars, InCall
<1>3. /\ frame' \in Frame /\ frame \in Frame /\ outbox \in [Stations -> Seq(Frame)]
      /\ \A f \in Requests \cup Answers : f \in Frame
  BY QueueTypes DEF TypeOK, RadioTypeOK, InitiatorTypeOK
<1>4. frame'.task = frame.task /\ SameRequest(frame')
  BY <1>3 DEF Transmit, SameRequest, Frame
<1>5. outbox' = [outbox EXCEPT !["initiator"] = Append(@, frame')]
  BY DEF Transmit, TransmitFrame
<1>6. /\ outbox'["initiator"] = Append(outbox["initiator"], frame')
      /\ outbox'["responder"] = outbox["responder"]
  BY <1>3, <1>5
<1>7. \A f \in FramesIn(outbox["initiator"]) : f.task <= frame'.task
  BY <1>1, <1>4 DEF Order, Requests
<1>8. /\ FramesIn(outbox'["initiator"]) = FramesIn(outbox["initiator"]) \cup {frame'}
      /\ Sorted(outbox'["initiator"])
  BY <1>1, <1>3, <1>6, <1>7, EndOfQueue DEF Order
<1>9. Answers' = Answers /\ Requests' = Requests \cup {frame'}
  BY <1>2, <1>6, <1>8 DEF Answers, Requests
<1>10. Order'
  <2>1. \A f \in Requests \cup Answers : f.task <= frame'.task
    BY <1>1, <1>4 DEF Order
  <2>2. frame'.task <= frame'.task
    BY <1>3 DEF Frame
  <2>3. \A f \in FramesIn(inbox["responder"]) : f \in Requests
    BY DEF Requests
  <2>4. \A f \in Requests' : f.task = frame'.task =>
            f.type = frame'.type /\ f.cf = frame'.cf /\ f.sf = frame'.sf
    BY <1>1, <1>4, <1>9 DEF Order, SameRequest
  <2> QED
    BY <1>1, <1>2, <1>8, <1>9, <2>1, <2>2, <2>3, <2>4 DEF Order, SameRequest
<1>11. Serving' /\ HeadedFor' = HeadedFor /\ Point' = Point
  BY <1>1, <1>2, <1>4, <1>9 DEF Serving, SameRequest, HeadedFor, Overlay, Point, PointOf
<1>12. HopInv' /\ MeasureInv'
  BY <1>1, <1>2, <1>4, <1>9, <1>11 DEF HopInv, MeasureInv, SameRequest
<1>13. ConfirmedHopIsShared'
  <2> SUFFICES ASSUME connectionEstablished PROVE ConfirmedHopIsShared'
    BY <1>2 DEF ConfirmedHopIsShared
  <2>1. frame'.type = "EchoProbeRequest"
    BY <1>1, <1>2, <1>4 DEF HopInv, MeasureInv, SameRequest
  <2>2. PendingChanges' = PendingChanges
    BY <1>2, <1>8, <2>1 DEF PendingChanges
  <2> QED
    BY <1>1, <1>2, <1>11, <2>2 DEF ConfirmedHopIsShared
<1> QED
  BY <1>10, <1>11, <1>12, <1>13 DEF ExchangeInv

-----------------------------------------------------------------------------
(* Steps of the responder                                                  *)

\* The request that is handled is the oldest, and its answer the newest.
LEMMA OldestHandled ==
    ASSUME TypeOK, Order, TakeFrame("responder"), NEW g \in Frame,
           g.task = Head(inbox["responder"]).task, TransmitFrame("responder", g),
           UNCHANGED frame
    PROVE  /\ Head(inbox["responder"]) \in FramesIn(inbox["responder"])
           /\ inbox'["initiator"] = inbox["initiator"]
           /\ Order' /\ Requests' \subseteq Requests /\ Answers' = Answers \cup {g}
           /\ PendingChanges' \subseteq PendingChanges
           /\ \A a \in Answers : a.task <= g.task
<1> DEFINE f == Head(inbox["responder"])
           in == inbox["responder"]
           out == outbox["responder"]
<1>1. /\ inbox \in [Stations -> Seq(Frame)] /\ outbox \in [Stations -> Seq(Frame)]
      /\ in \in Seq(Frame) /\ out \in Seq(Frame)
  BY DEF TypeOK, RadioTypeOK
<1>2. /\ in # <<>> /\ inbox' = [inbox EXCEPT !["responder"] = Tail(in)]
      /\ outbox' = [outbox EXCEPT !["responder"] = Append(out, g)]
  BY DEF TakeFrame, TransmitFrame
<1>3. /\ inbox'["responder"] = Tail(in) /\ inbox'["initiator"] = inbox["initiator"]
      /\ outbox'["responder"] = Append(out, g) /\ outbox'["initiator"] = outbox["initiator"]
  BY <1>1, <1>2
<1>4. /\ f \in FramesIn(in) /\ FramesIn(Tail(in)) \subseteq FramesIn(in)
      /\ Sorted(Tail(in)) /\ \A h \in FramesIn(Tail(in)) : f.task <= h.task
  BY <1>1, <1>2, TailOfQueue DEF Order
<1>5. FramesIn(Append(out, g)) = FramesIn(out) \cup {g}
  BY <1>1, EndOfQueue
<1>6. /\ Requests' \subseteq Requests /\ Answers' = Answers \cup {g}
      /\ PendingChanges' \subseteq PendingChanges
  BY <1>3, <1>4, <1>5 DEF Requests, Answers, PendingChanges
<1>7. f \in Requests /\ f.task = g.task
  BY <1>4 DEF Requests
<1>8. \A h \in Requests' : g.task <= h.task
  BY <1>3, <1>4, <1>7 DEF Order, Requests
<1>9. \A a \in Answers : a.task <= g.task
  BY <1>7 DEF Order
<1>10. g.task <= frame.task
  BY <1>7 DEF Order
<1>11. Order'
  BY <1>3, <1>4, <1>6, <1>8, <1>10 DEF Order, SameRequest
<1> QED
  BY <1>3, <1>4, <1>6, <1>9, <1>11

LEMMA AtRest ==
    ASSUME TypeOK, rpc = "idle", Serving
    PROVE  HeadedFor = tuning["responder"]
<1>1. tuning["responder"] \in Tuning /\ serving = NotServing
  BY DEF TypeOK, RadioTypeOK, Serving
<1> QED
  BY <1>1 DEF HeadedFor, Overlay, NotServing, Unspecified, Tuning

LEMMA RequestExchange ==
    ASSUME TypeOK, ExchangeInv, ResponderStep, HandleRequest
    PROVE  ExchangeInv'
<1> DEFINE f == Head(inbox["responder"])
<1>1. Order /\ Serving /\ HopInv /\ MeasureInv /\ ConfirmedHopIsShared
  BY DEF ExchangeInv
<1>2. /\ UNCHANGED <<tuning, rpc, serving, ipc, call, at, frame, origin, connectionEstablished>>
      /\ rpc = "idle" /\ TakeFrame("responder") /\ TransmitFrame("responder", ReplyTo(f))
      /\ f.type = "EchoProbeRequest" /\ rxLog' = rxLog \cup {f.task}
  BY DEF ResponderStep, HandleRequest, initiatorVars, HandleFreqChangeRequest,
         ShiftCarrierFrequency, ShiftSamplingRate
<1>3. inbox["responder"] \in Seq(Frame) /\ tuning["responder"] \in Tuning
  BY DEF TypeOK, RadioTypeOK
<1>4. f \in Frame
  BY <1>2, <1>3, TailOfQueue DEF TakeFrame
<1>5. ReplyTo(f) \in Frame
  BY <1>3, <1>4 DEF ReplyTo, Frame, FrameTypes, Tuning
<1>6. ReplyTo(f).task = f.task /\ ReplyTo(f).type = "EchoProbeReply"
      /\ [cf |-> ReplyTo(f).cf, sf |-> ReplyTo(f).sf] = tuning["responder"]
  BY <1>3 DEF ReplyTo, Tuning
<1> DEFINE g == ReplyTo(f)
<1> HIDE DEF f, g
<1>7. /\ f \in FramesIn(inbox["responder"]) /\ inbox'["initiator"] = inbox["initiator"]
      /\ Order' /\ Answers' = Answers \cup {g} /\ PendingChanges' \subseteq PendingChanges
  BY <1>1, <1>2, <1>5, <1>6, OldestHandled DEF f, g
<1>8. HeadedFor' = HeadedFor /\ Point' = Point /\ (InCall' <=> InCall)
  BY <1>2 DEF HeadedFor, Overlay, Point, PointOf, InCall
<1>9. g.task = frame.task => frame.type = "EchoProbeRequest"
  BY <1>1, <1>2, <1>6, <1>7 DEF Order, Requests, SameRequest, g
<1>10. Serving'
  BY <1>1, <1>2 DEF Serving
<1>11. HopInv'
  BY <1>1, <1>2, <1>7, <1>8, <1>9 DEF HopInv
<1>12. MeasureInv'
  BY <1>1, <1>2, <1>6, <1>7, <1>8 DEF MeasureInv, g
<1>13. ConfirmedHopIsShared'
  BY <1>1, <1>2, <1>7, <1>8 DEF ConfirmedHopIsShared
<1> QED
  BY <1>7, <1>10, <1>11, <1>12, <1>13 DEF ExchangeInv

LEMMA ChangeExchange ==
    ASSUME TypeOK, ExchangeInv, ResponderStep, HandleFreqChangeRequest
    PROVE  ExchangeInv'
<1> DEFINE f == Head(inbox["responder"])
           g == AckOf(f)
<1>1. Order /\ Serving /\ HopInv /\ MeasureInv /\ ConfirmedHopIsShared
  BY DEF ExchangeInv
<1>2. /\ UNCHANGED <<tuning, ipc, call, at, frame, origin, connectionEstablished>>
      /\ rpc = "idle" /\ TakeFrame("responder") /\ TransmitFrame("responder", g)
      /\ f.type = "EchoProbeFreqChangeRequest" /\ rxLog' = rxLog \cup {f.task}
      /\ serving' = f /\ rpc' = "shiftCF"
  BY DEF ResponderStep, HandleFreqChangeRequest, initiatorVars
<1>3. inbox["responder"] \in Seq(Frame)
  BY DEF TypeOK, RadioTypeOK
<1>4. f \in Frame
  BY <1>2, <1>3, TailOfQueue DEF TakeFrame
<1>5. g \in Frame /\ g.task = f.task
  BY <1>4 DEF AckOf, Frame, FrameTypes, Unspecified
<1> HIDE DEF f, g
<1>6. /\ f \in FramesIn(inbox["responder"]) /\ inbox'["initiator"] = inbox["initiator"]
      /\ Order' /\ Answers' = Answers \cup {g} /\ PendingChanges' \subseteq PendingChanges
      /\ \A a \in Answers' : a.task <= f.task
  <2>1. g.task <= f.task
    BY <1>4, <1>5 DEF Frame
  <2> QED
    BY <1>1, <1>2, <1>5, <2>1, OldestHandled DEF f
<1>7. /\ f.task <= frame.task
      /\ f.task = frame.task => SameRequest(f)
      /\ f.task \in Nat /\ frame.task \in Nat /\ \A a \in Answers' : a.task \in Nat
  <2>1. f \in Requests
    BY <1>6 DEF Requests
  <2>2. \A a \in Answers' : a \in Frame
    BY <1>5, <1>6, QueueTypes
  <2>3. f.task <= frame.task /\ (f.task = frame.task => SameRequest(f))
    BY <1>1, <2>1 DEF Order
  <2>4. \A h \in Frame : h.task \in Nat
    BY DEF Frame
  <2> QED
    BY <1>4, <2>2, <2>3, <2>4, QueueTypes
<1>8. \A a \in Answers' : a.task = frame.task => f.task = frame.task
  BY <1>6, <1>7
<1>9. /\ HeadedFor = tuning["responder"] /\ HeadedFor' = Overlay(HeadedFor, f)
      /\ Point' = Point /\ (InCall' <=> InCall)
  BY <1>1, <1>2, AtRest DEF HeadedFor, Point, PointOf, InCall, Overlay
<1>10. Serving'
  BY <1>2, <1>6, <1>7 DEF Serving, SameRequest
<1>11. HopInv'
  <2> SUFFICES ASSUME InCall, call # "measure" PROVE HopInv'
    BY <1>2, <1>9 DEF HopInv
  <2>1. ASSUME f.task = frame.task
        PROVE  /\ frame.cf > 0 => HeadedFor'.cf = frame.cf
               /\ frame.sf > 0 => HeadedFor'.sf = frame.sf
               /\ HeadedFor = Point => HeadedFor' = Point
    <3>1. f.cf = frame.cf /\ f.sf = frame.sf
      BY <1>7, <2>1 DEF SameRequest
    <3>2. f.cf \in {Point.cf, Unspecified} /\ f.sf \in {Point.sf, Unspecified}
      BY <1>1, <3>1 DEF HopInv
    <3>3. Point = [cf |-> Point.cf, sf |-> Point.sf]
      BY DEF Point, PointOf
    <3> QED
      BY <1>9, <3>1, <3>2, <3>3 DEF Overlay, Unspecified
  <2>2. \A a \in FramesIn(inbox["initiator"])' : a \in Answers' /\ a \in FramesIn(inbox["initiator"])
    BY <1>6 DEF Answers
  <2> QED
    BY <1>1, <1>2, <1>6, <1>8, <1>9, <2>1, <2>2 DEF HopInv
<1>12. MeasureInv'
  <2>1. InCall /\ call = "measure" => f.task # frame.task
    BY <1>1, <1>2, <1>7 DEF MeasureInv, SameRequest, f
  <2>2. \A a \in FramesIn(inbox["initiator"])' : a \in Answers'
    BY DEF Answers
  <2> QED
    BY <1>1, <1>2, <1>8, <1>9, <2>1, <2>2 DEF MeasureInv
<1>13. ConfirmedHopIsShared'
  <2>1. f \in PendingChanges
    BY <1>2, <1>6 DEF PendingChanges, f
  <2> QED
    BY <1>1, <1>2, <1>6, <1>9, <2>1 DEF ConfirmedHopIsShared
<1> QED
  BY <1>6, <1>10, <1>11, <1>12, <1>13 DEF ExchangeInv

LEMMA ShiftExchange ==
    ASSUME TypeOK, ExchangeInv, ResponderStep, ShiftCarrierFrequency \/ ShiftSamplingRate
    PROVE  ExchangeInv'
<1>1. Order /\ Serving /\ HopInv /\ MeasureInv /\ ConfirmedHopIsShared
  BY DEF ExchangeInv
<1>2. /\ UNCHANGED <<outbox, inbox, rxLog>> /\ UNCHANGED initiatorVars /\ rpc # "idle"
  BY DEF ResponderStep, ShiftCarrierFrequency, ShiftSamplingRate, HandleRequest,
         HandleFreqChangeRequest
<1>3. UNCHANGED <<ipc, call, at, frame, origin, connectionEstablished>>
      /\ tuning'["initiator"] = tuning["initiator"]
  BY <1>2, ResponderStepType DEF initiatorVars
<1>4. tuning \in [Stations -> Tuning] /\ tuning["responder"] \in Tuning /\ serving \in Frame
  BY DEF TypeOK, RadioTypeOK, ResponderTypeOK
<1>5. HeadedFor' = HeadedFor /\ Serving'
  <2>1. CASE ShiftCarrierFrequency
    <3>1. /\ serving' = serving /\ rpc' = "shiftSF"
          /\ tuning'["responder"] = IF serving.cf > 0
                                    THEN [tuning["responder"] EXCEPT !.cf = serving.cf]
                                    ELSE tuning["responder"]
      BY <1>4, <2>1 DEF ShiftCarrierFrequency, Tune, Tuning
    <3>2. /\ tuning'["responder"].sf = tuning["responder"].sf
          /\ tuning'["responder"].cf = IF serving.cf > 0 THEN serving.cf
                                       ELSE tuning["responder"].cf
      BY <1>4, <3>1 DEF Tuning
    <3> QED
      BY <1>1, <1>2, <1>3, <3>1, <3>2
         DEF HeadedFor, Overlay, Serving, SameRequest, Answers
  <2>2. CASE ShiftSamplingRate
    <3>1. /\ serving' = NotServing /\ rpc' = "idle" /\ rpc = "shiftSF"
          /\ tuning'["responder"] = IF serving.sf > 0
                                    THEN [tuning["responder"] EXCEPT !.sf = serving.sf]
                                    ELSE tuning["responder"]
      BY <1>4, <2>2 DEF ShiftSamplingRate, Tune, Tuning
    <3>2. /\ tuning'["responder"].cf = tuning["responder"].cf
          /\ tuning'["responder"].sf = IF serving.sf > 0 THEN serving.sf
                                       ELSE tuning["responder"].sf
      BY <1>4, <3>1 DEF Tuning
    <3>3. serving.cf > 0 => tuning["responder"].cf = serving.cf
      BY <1>1, <3>1 DEF Serving
    <3> QED
      BY <3>1, <3>2, <3>3 DEF HeadedFor, Overlay, Serving, NotServing, Unspecified
  <2> QED
    BY <2>1, <2>2
<1>6. /\ Point' = Point /\ (InCall' <=> InCall) /\ Order' /\ Answers' = Answers
      /\ PendingChanges' = PendingChanges
  BY <1>1, <1>2, <1>3 DEF Point, PointOf, InCall, Order, SameRequest, Requests, Answers,
                          PendingChanges
<1>7. HopInv'
  BY <1>1, <1>2, <1>3, <1>5, <1>6 DEF HopInv
<1>8. MeasureInv'
  <2>1. InCall /\ call = "measure" => \A a \in Answers : a.task # frame.task
    BY <1>1, <1>2 DEF MeasureInv
  <2>2. \A a \in FramesIn(inbox["initiator"])' : a \in Answers'
    BY DEF Answers
  <2> QED
    BY <1>1, <1>2, <1>3, <1>6, <2>1, <2>2 DEF MeasureInv
<1>9. ConfirmedHopIsShared'
  BY <1>1, <1>3, <1>5, <1>6 DEF ConfirmedHopIsShared
<1> QED
  BY <1>5, <1>6, <1>7, <1>8, <1>9 DEF ExchangeInv

-----------------------------------------------------------------------------
(* Emissions                                                               *)

\* An emission takes the oldest frame out of an outbox and may deliver it.
LEMMA EmissionMoves ==
    ASSUME TypeOK, NEW s \in Stations, RadioStep(s)
    PROVE  /\ outbox[s] # <<>> /\ outbox[s] \in Seq(Frame) /\ inbox[Peer(s)] \in Seq(Frame)
           /\ Head(outbox[s]) \in Frame /\ Peer(s) \in Stations /\ Peer(s) # s
           /\ outbox'[s] = Tail(outbox[s]) /\ outbox'[Peer(s)] = outbox[Peer(s)]
           /\ inbox'[s] = inbox[s]
           /\ \/ inbox'[Peer(s)] = inbox[Peer(s)]
              \/ /\ inbox'[Peer(s)] = Append(inbox[Peer(s)], Head(outbox[s]))
                 /\ tuning[s] = tuning[Peer(s)]
           /\ UNCHANGED <<tuning, initiatorVars, responderVars>>
<1>1. Peer(s) \in Stations /\ Peer(s) # s
  BY DEF Peer
<1>2. /\ inbox \in [Stations -> Seq(Frame)] /\ outbox \in [Stations -> Seq(Frame)]
      /\ outbox[s] \in Seq(Frame) /\ inbox[Peer(s)] \in Seq(Frame)
  BY <1>1 DEF TypeOK, RadioTypeOK
<1>3. outbox[s] # <<>> /\ outbox' = [outbox EXCEPT ![s] = Tail(@)]
  BY DEF RadioStep, Emission, Deliver, Miss, Fade, LeaveOutbox
<1>4. /\ outbox'[s] = Tail(outbox[s]) /\ outbox'[Peer(s)] = outbox[Peer(s)]
      /\ Head(outbox[s]) \in Frame
  BY <1>1, <1>2, <1>3
<1>5. /\ UNCHANGED <<tuning, initiatorVars, responderVars>>
      /\ \/ inbox' = inbox
         \/ /\ inbox' = [inbox EXCEPT ![Peer(s)] = Append(@, Head(outbox[s]))]
            /\ tuning[s] = tuning[Peer(s)]
  BY DEF RadioStep, Emission, Deliver, Miss, Fade
<1> QED
  BY <1>1, <1>2, <1>3, <1>4, <1>5

LEMMA RequestEmission ==
    ASSUME TypeOK, ExchangeInv, RadioStep("initiator")
    PROVE  ExchangeInv'
<1> DEFINE f == Head(outbox["initiator"])
           in == inbox["responder"]
           out == outbox["initiator"]
<1>1. Order /\ Serving /\ HopInv /\ MeasureInv /\ ConfirmedHopIsShared
  BY DEF ExchangeInv
<1>2. /\ out # <<>> /\ out \in Seq(Frame) /\ in \in Seq(Frame) /\ f \in Frame
      /\ outbox'["initiator"] = Tail(out) /\ outbox'["responder"] = outbox["responder"]
      /\ inbox'["initiator"] = inbox["initiator"]
      /\ inbox'["responder"] \in {in, Append(in, f)}
      /\ UNCHANGED <<tuning, initiatorVars, responderVars>>
  BY EmissionMoves DEF Peer
<1>3. /\ f \in FramesIn(out) /\ FramesIn(Tail(out)) \subseteq FramesIn(out)
      /\ Sorted(Tail(out)) /\ \A h \in FramesIn(Tail(out)) : f.task <= h.task
  BY <1>1, <1>2, TailOfQueue DEF Order
<1>4. \A h \in FramesIn(in) : h.task <= f.task
  BY <1>1, <1>3 DEF Order
<1>5. FramesIn(Append(in, f)) = FramesIn(in) \cup {f} /\ Sorted(Append(in, f))
  BY <1>1, <1>2, <1>4, EndOfQueue DEF Order
<1> HIDE DEF f
<1>6. /\ Sorted(inbox'["responder"])
      /\ FramesIn(inbox'["responder"]) \subseteq FramesIn(in) \cup {f}
  BY <1>1, <1>2, <1>5 DEF Order
<1>7. /\ Answers' = Answers /\ Requests' \subseteq Requests
      /\ PendingChanges' \subseteq PendingChanges
  BY <1>2, <1>3, <1>6 DEF Answers, Requests, PendingChanges
<1>8. /\ UNCHANGED <<ipc, call, at, frame, origin, connectionEstablished, rpc, serving, rxLog>>
      /\ Point' = Point /\ HeadedFor' = HeadedFor /\ (InCall' <=> InCall)
  BY <1>2 DEF initiatorVars, responderVars, Point, PointOf, HeadedFor, Overlay, InCall
<1>9. Order'
  <2>1. \A g \in FramesIn(inbox'["responder"]), h \in FramesIn(outbox'["initiator"]) :
            g.task <= h.task
    BY <1>1, <1>2, <1>3, <1>6 DEF Order
  <2> QED
    BY <1>1, <1>2, <1>3, <1>6, <1>7, <1>8, <2>1 DEF Order, SameRequest
<1>10. Serving' /\ HopInv' /\ MeasureInv' /\ ConfirmedHopIsShared'
  BY <1>1, <1>2, <1>7, <1>8
     DEF Serving, SameRequest, HopInv, MeasureInv, ConfirmedHopIsShared
<1> QED
  BY <1>9, <1>10 DEF ExchangeInv

\* An ACK of the present hop is heard: the responder is on its way to the point.
LEMMA HeardAtPoint ==
    ASSUME TypeOK, ExchangeInv, InCall, call # "measure",
           tuning["initiator"] = tuning["responder"],
           NEW a \in Answers, a.task = frame.task
    PROVE  HeadedFor = Point
<1>1. /\ Serving /\ HopInv /\ Point \in Tuning /\ Point = [cf |-> Point.cf, sf |-> Point.sf]
  BY PointType DEF ExchangeInv, Point, PointOf, TypeOK, InitiatorTypeOK
<1>2. /\ frame.cf > 0 => HeadedFor.cf = frame.cf
      /\ frame.sf > 0 => HeadedFor.sf = frame.sf
      /\ frame.cf = IF Point.cf # origin.cf THEN Point.cf ELSE Unspecified
      /\ frame.sf = IF Point.sf # origin.sf THEN Point.sf ELSE Unspecified
      /\ tuning["responder"] \in {origin, Point}
  BY <1>1 DEF HopInv
<1>3. rpc # "idle" => serving.cf = frame.cf /\ serving.sf = frame.sf
  <2>1. ASSUME rpc # "idle" PROVE serving.task = frame.task
    <3>1. a.task <= serving.task /\ serving.task <= frame.task
      BY <1>1, <2>1 DEF Serving
    <3>2. serving.task \in Nat /\ frame.task \in Nat
      BY QueueTypes DEF Frame
    <3> QED
      BY <3>1, <3>2
  <2> QED
    BY <1>1, <2>1 DEF Serving, SameRequest
<1>4. rpc = "idle" => serving.cf = Unspecified /\ serving.sf = Unspecified
  BY <1>1 DEF Serving, NotServing
<1>5. HeadedFor.cf = Point.cf
  <2>1. CASE Point.cf # origin.cf
    BY <1>1, <1>2, <2>1 DEF Tuning
  <2>2. CASE Point.cf = origin.cf
    <3>1. serving.cf = Unspecified /\ tuning["responder"].cf = Point.cf
      BY <1>2, <1>3, <1>4, <2>2
    <3> QED
      BY <3>1 DEF HeadedFor, Overlay, Unspecified
  <2> QED
    BY <2>1, <2>2
<1>6. HeadedFor.sf = Point.sf
  <2>1. CASE Point.sf # origin.sf
    BY <1>1, <1>2, <2>1 DEF Tuning
  <2>2. CASE Point.sf = origin.sf
    <3>1. serving.sf = Unspecified /\ tuning["responder"].sf = Point.sf
      BY <1>2, <1>3, <1>4, <2>2
    <3> QED
      BY <3>1 DEF HeadedFor, Overlay, Unspecified
  <2> QED
    BY <2>1, <2>2
<1>7. HeadedFor = [cf |-> HeadedFor.cf, sf |-> HeadedFor.sf]
  BY DEF HeadedFor, Overlay
<1> QED
  BY <1>1, <1>5, <1>6, <1>7

LEMMA AnswerEmission ==
    ASSUME TypeOK, MeasuringAtPoint, ExchangeInv, RadioStep("responder")
    PROVE  ExchangeInv'
<1> DEFINE a == Head(outbox["responder"])
           in == inbox["initiator"]
           out == outbox["responder"]
<1>1. Order /\ Serving /\ HopInv /\ MeasureInv /\ ConfirmedHopIsShared
  BY DEF ExchangeInv
<1>2. /\ out # <<>> /\ out \in Seq(Frame) /\ in \in Seq(Frame) /\ a \in Frame
      /\ outbox'["responder"] = Tail(out) /\ outbox'["initiator"] = outbox["initiator"]
      /\ inbox'["responder"] = inbox["responder"]
      /\ \/ inbox'["initiator"] = in
         \/ /\ inbox'["initiator"] = Append(in, a)
            /\ tuning["initiator"] = tuning["responder"]
      /\ UNCHANGED <<tuning, initiatorVars, responderVars>>
  BY EmissionMoves DEF Peer
<1>3. a \in FramesIn(out) /\ FramesIn(Tail(out)) \subseteq FramesIn(out)
  BY <1>2, TailOfQueue
<1>4. FramesIn(Append(in, a)) = FramesIn(in) \cup {a}
  BY <1>2, EndOfQueue
<1> HIDE DEF a
<1>5. \A b \in FramesIn(inbox'["initiator"]) :
          b \in FramesIn(in) \/ (b = a /\ tuning["initiator"] = tuning["responder"])
  BY <1>2, <1>4
<1>6. /\ a \in Answers /\ Answers' \subseteq Answers /\ Requests' = Requests
      /\ PendingChanges' = PendingChanges
  BY <1>2, <1>3, <1>5 DEF Answers, Requests, PendingChanges
<1>7. /\ UNCHANGED <<ipc, call, at, frame, origin, connectionEstablished, rpc, serving, rxLog>>
      /\ Point' = Point /\ HeadedFor' = HeadedFor /\ (InCall' <=> InCall)
  BY <1>2 DEF initiatorVars, responderVars, Point, PointOf, HeadedFor, Overlay, InCall
<1>8. Order' /\ Serving' /\ ConfirmedHopIsShared'
  BY <1>1, <1>2, <1>6, <1>7 DEF Order, Serving, SameRequest, ConfirmedHopIsShared
<1>9. HopInv'
  <2> SUFFICES ASSUME InCall, call # "measure" PROVE HopInv'
    BY <1>7 DEF HopInv
  <2>1. \A b \in FramesIn(inbox'["initiator"]) : b.task = frame.task => HeadedFor = Point
    BY <1>1, <1>5, <1>6, HeardAtPoint DEF HopInv
  <2> QED
    BY <1>1, <1>2, <1>6, <1>7, <2>1 DEF HopInv
<1>10. MeasureInv'
  <2> SUFFICES ASSUME InCall, call = "measure" PROVE MeasureInv'
    BY <1>7 DEF MeasureInv
  <2>1. tuning["initiator"] = Point
    BY DEF MeasuringAtPoint, InCall
  <2>2. \A b \in FramesIn(inbox'["initiator"]) :
            b.task = frame.task => tuning["responder"] = Point
    BY <1>1, <1>5, <2>1 DEF MeasureInv
  <2> QED
    BY <1>1, <1>2, <1>6, <1>7, <2>2 DEF MeasureInv
<1> QED
  BY <1>8, <1>9, <1>10 DEF ExchangeInv

-----------------------------------------------------------------------------
LEMMA ExchangeInitially == Init => ExchangeInv
<1> SUFFICES ASSUME Init PROVE ExchangeInv
  OBVIOUS
<1>1. inbox = [s \in Stations |-> <<>>] /\ outbox = [s \in Stations |-> <<>>]
  BY DEF Init, RadioInit
<1>2. Requests = {} /\ Answers = {} /\ Sorted(inbox["responder"]) /\ Sorted(outbox["initiator"])
  BY <1>1 DEF Requests, Answers, FramesIn, Sorted
<1>3. FramesIn(inbox["responder"]) = {}
  BY <1>2 DEF Requests
<1>4. Order
  BY <1>2, <1>3 DEF Order
<1>5. ipc = "visit" /\ ~connectionEstablished /\ rpc = "idle" /\ serving = NotServing
  BY DEF Init, InitiatorInit, ResponderInit
<1> QED
  BY <1>4, <1>5 DEF ExchangeInv, Serving, HopInv, MeasureInv, InCall, ConfirmedHopIsShared

LEMMA ExchangeStutter ==
    ASSUME ExchangeInv, UNCHANGED vars
    PROVE  ExchangeInv'
<1>1. UNCHANGED <<tuning, outbox, inbox, ipc, call, at, frame, origin, connectionEstablished,
                  rpc, serving, rxLog>>
  BY DEF vars, radioVars, initiatorVars, responderVars
<1>2. UNCHANGED <<Requests, Answers, Point, HeadedFor, PendingChanges, InCall>>
  BY <1>1 DEF Requests, Answers, Point, PointOf, HeadedFor, Overlay, PendingChanges, InCall
<1>3. Order' /\ Serving'
  BY <1>1, <1>2 DEF ExchangeInv, Order, Serving, SameRequest
<1>4. HopInv' /\ MeasureInv' /\ ConfirmedHopIsShared'
  BY <1>1, <1>2 DEF ExchangeInv, HopInv, MeasureInv, ConfirmedHopIsShared
<1> QED
  BY <1>3, <1>4 DEF ExchangeInv

LEMMA ExchangeStep ==
    TypeOK /\ TypeOK' /\ MeasuringAtPoint /\ ExchangeInv /\ [Next]_vars => ExchangeInv'
<1> SUFFICES ASSUME TypeOK, TypeOK', MeasuringAtPoint, ExchangeInv, [Next]_vars
             PROVE  ExchangeInv'
  OBVIOUS
<1>1. CASE InitiatorStep \/ InitiatorRxStep \/ DecodeFailure
  <2>1. CASE InitiatorStep /\ Transmit
    BY <2>1, TransmitExchange
  <2>2. CASE ~Transmit
    BY <1>1, <2>2, InitiatorExchange
  <2>3. Transmit => InitiatorStep
    <3>1. Transmit => ipc = "transmit" /\ ipc' = "await"
      BY DEF Transmit
    <3>2. InitiatorRxStep \/ DecodeFailure => ~(ipc = "transmit" /\ ipc' = "await")
      BY DEF InitiatorRxStep, Overhear, initiatorVars, DecodeFailure, RejectReply
    <3> QED
      BY <1>1, <3>1, <3>2
  <2> QED
    BY <2>1, <2>2, <2>3
<1>2. CASE ResponderStep
  <2>1. HandleRequest \/ HandleFreqChangeRequest \/ ShiftCarrierFrequency \/ ShiftSamplingRate
    BY <1>2 DEF ResponderStep
  <2> QED
    BY <1>2, <2>1, RequestExchange, ChangeExchange, ShiftExchange
<1>3. CASE \E s \in Stations : RadioStep(s)
  BY <1>3, RequestEmission, AnswerEmission
<1>4. CASE Finished \/ UNCHANGED vars
  BY <1>4, ExchangeStutter DEF Finished
<1> QED
  BY <1>1, <1>2, <1>3, <1>4 DEF Next

LEMMA ExchangeCorrect == Spec => []ExchangeInv
  BY ExchangeInitially, ExchangeStep, TypeCorrect, MeasuresAtPoint, PTL DEF Spec

(***************************************************************************)
(* When unifiedEchoProbeWork takes a hop for confirmed, the responder is   *)
(* at the initiator's tuning or on its way, and no request still pending   *)
(* takes it away, whatever was lost, delayed or repeated.                  *)
(***************************************************************************)
THEOREM HopsAreShared == Spec => []ConfirmedHopIsShared
  BY ExchangeCorrect, PTL DEF ExchangeInv

(***************************************************************************)
(* A frame is dumped for a scan point only if the responder answered the   *)
(* request for it while tuned to that point.                               *)
(***************************************************************************)
THEOREM DumpsAreTrue == Spec => MeasuredWhereClaimed
<1> DEFINE reply == Head(inbox["initiator"])
           Claimed == dumped' # dumped =>
               /\ reply.type = "EchoProbeReply"
               /\ [cf |-> reply.cf, sf |-> reply.sf] = PointOf(dumped'[Len(dumped')])
               /\ reply.task \in rxLog
<1>1. TypeOK /\ ExchangeInv /\ [Next]_vars => [Claimed]_vars
  <2> SUFFICES ASSUME TypeOK, ExchangeInv, Next, dumped' # dumped PROVE Claimed
    OBVIOUS
  <2>1. RecordMeasurement
    BY DEF Next, InitiatorStep, InitiatorRxStep, DecodeFailure, ResponderStep, RadioStep,
           Finished, vars, VisitTunedPoint, StartHop, Transmit, ConfirmHop, Timeout,
           RejectReply, NoUsableReply, Overhear, initiatorVars
  <2>2. InCall /\ call = "measure"
    BY <2>1 DEF RecordMeasurement, InCall
  <2>3. /\ reply \in FramesIn(inbox["initiator"]) /\ reply \in Answers
        /\ reply.task = frame.task
    BY <2>1, AnswerTaken DEF RecordMeasurement, Accepts, Answers
  <2>4. dumped'[Len(dumped')] = at
    <3>1. dumped \in Seq(Positions) /\ at \in Positions /\ dumped' = Append(dumped, at)
      BY <2>1 DEF RecordMeasurement, TypeOK, InitiatorTypeOK
    <3> QED
      BY <3>1
  <2> HIDE DEF reply
  <2> QED
    BY <2>2, <2>3, <2>4 DEF ExchangeInv, MeasureInv, Point
<1> HIDE DEF Claimed
<1>2. Spec => [][Claimed]_vars
  BY <1>1, TypeCorrect, ExchangeCorrect, PTL DEF Spec
<1> QED
  BY <1>2 DEF Claimed, MeasuredWhereClaimed
=============================================================================
