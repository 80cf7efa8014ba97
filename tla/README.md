# Verification of the PicoScenes PDK

TLA+ models, model-checking runs and machine-checked proofs for the plugins of
the PicoScenes Plugin Development Kit: the EchoProbe measurement protocol
(`plugin-echoprobe`), the UDP forwarder (`plugin-forwarder`) and the UDP remote
logger (`udp-remote-logger`).

## 1. The system

| Component | State | Operations | Interacts with |
|---|---|---|---|
| EchoProbe initiator (`EchoProbeInitiator.cxx`) | its parameters, the loop position, the frame and retry count of the current call, counters, the tuning of its front end | `startJob` runs the whole measurement: frequency hops, round-trip measurements, logging | sends requests, blocks for replies; the peer is known only through frames |
| EchoProbe responder (`EchoProbeResponder.cxx`) | its parameters, the tuning of its front end | `handle`, called per received frame: log, reply or acknowledge, retune | answers the initiator |
| Scan lists, logger hopping, injector, batches (`EchoProbeInitiator.cxx` 33-83, 97-125, 173-204, 429-519, 595-660) | loop positions, prebuilt frames, the tuning it leaves behind | enumerate rates and frequencies, build frames, inject, hop | front end, shared with the responder |
| EchoProbe plugin (`EchoProbePlugin.cxx`) | parameters that persist from command to command, the responder's copy of them | `parseAndExecuteCommands` (starts and stops services, runs jobs), `rxHandle` | owns initiator and responder; the command thread and the receiving thread share its parameters |
| Request and reply segments (`EchoProbeRequestSegment.cxx`, `EchoProbeReplySegment.cxx`) | none | encode, decode | carried in frames |
| NIC services (platform) | which of Rx and Tx run | start, stop | shared by all plugins on a NIC |
| Demo plugin (`DemoPlugin.cxx`) | none | a command that starts a service, and may transmit one frame | the services of the NIC |
| UDP forwarder (`UDPForwarderPlugin.cxx`) | destination address and port | `parseAndExecuteCommands`, `rxHandle` | sends diagrams |
| UDP remote logger (`UDPRemoteLogger.cxx`) | receive buffer, three queues, `frameConcatBuffer` | receive, decode, concatenate, dump | four stages linked by queues |
| Build and packaging | none | | |

### What is hard here

* **The split-brain hop.** To change channel the initiator sends a request at
  the old tuning; the responder acknowledges *first* and retunes *later*, the
  carrier frequency and then the sampling rate. Request or ACK may be lost. Only
  the try at the new tuning and the retreat to the old one (137-162) bring the
  two together again.
* **Late answers.** A reply is matched by type and task id only, so answers to
  earlier transmissions reach later waits.
* **goto, break and nested loops** decide what a failure skips.
* **Whoever sends datagrams is believed.** The concatenation handler counts
  segments, ages entries by calls and has no clock.
* **Unsynchronised state**: the forwarder's destination, the plugin's
  parameters, the one receive buffer of a pool of threads, the front end that
  a job and the responder both tune.
* **Commands leave things behind.** Working mode, ranges and the tuning of a
  command outlive it, a failed one included; services are started before the
  options are parsed and stopped by some modes only.
* **Counts and ends**: ranges in both directions, repetitions that are not a
  multiple of the batch, frames that have to be split.

The complete list, with the line at which each bites and the properties that
cover it, is `hazards` in `PROJECT.json`.

### What makes each component correct

* Session: a confirmed hop is shared; what is dumped for a scan point was
  measured there; the dumped frames follow the scan; the job ends; a bounded
  number of losses is survived; a failed round does not spoil later ones.
* Concatenation: bounded memory whatever arrives; at most one frame per call.
* Forwarding: whole frames, each at most once; datagrams only to addresses and
  ports that commands gave, and to those of the last command once it is done;
  every frame in the end, if nothing fails.
* Scan lists and injection: exactly the frequencies of the range, every point
  the same number of frames, in the order of the plan, as many as asked for;
  every job ends but a hopping logger's, which visits all channels.
* Plugin: services, logged files and replies are those the commands asked for,
  whatever came before; an injection is not retuned by a peer; commands return.
* Segments: what the receiver parses is what the sender meant.

## 2. Modules

```
EchoProbeRadio          tunings, air, queues of the two NICs (external)
  EchoProbeInitiator    the initiator's thread
  EchoProbeResponder    the responder's handler
    EchoProbeSession    both, interleaved; properties
      MCEchoProbeSession      instances
      EchoProbeSession_proof  theorems
        SessionExchange_proof   theorems about requests and answers
        SessionCampaign_proof   theorems about the dumped file
MeasurementCampaign     what the dumped file promises (abstract)

FrameConcat             the concatenation handler alone
  MCFrameConcat         any diagrams in any order
  FrameConcat_proof     theorems

UDPNetwork              datagrams: reordered, lost, duplicated (external)
  UDPForwarder          the forwarder plugin
  UDPRemoteLogger       receiver threads and pipelines (uses FrameConcat)
    FrameForwarding     both, interleaved; properties
      MCFrameForwarding       instances
      FrameForwarding_proof   theorems
FrameTransfer           what the logger's file promises (abstract)

ScanPlan                ranges and the frequencies they stand for
Float32                 counts and quotients as a 32-bit float holds them
  EchoProbeWork         a job of any mode on one station (uses both)
    EchoProbeWork_proof what enumerations, batches and the steps of a job return
    ScanJob             job after job; properties
      MCScanJob               instances
      ScanJob_proof           theorems (with EchoProbeWork_proof)
EchoProbeSegments       request and reply, their bytes, the four strategies
PlatformNIC             the services of a NIC (external)
  DemoPlugin            the demo plugin
  EchoProbePlugin       command thread and receiving thread
                        (uses EchoProbeWork and EchoProbeSegments too)
      PluginHost        both plugins, any commands, frames of a peer; properties
        MCPluginHost          instance
        PluginHost_proof      theorems (with EchoProbeWork_proof)
```

### EchoProbe session

`EchoProbeInitiator` follows the thread that runs `unifiedEchoProbeWork`. `ipc`
is the control point (head of the loop body, about to transmit, blocked in
`syncRxConditionally`, returned), `call` tells which of the three calls of
`transmitAndSyncRxUnified` it is in, `at` holds the three loop indices,
`retryCount` and `attempt` the two retry counters, `origin` the pair
`currentCF`/`currentSF`. Each wait ends in an action of its own:
`ConfirmHop`, `RecordMeasurement`, `Timeout` or `RejectReply`; the latter two
continue in `RetryTransmission`, `TryTargetTuning`, `RetreatToOrigin` or
`AbandonMeasurement`. `connectionEstablished`, a local of the hop's block in the
code, is kept in the model until the next hop so that properties can speak of
the time after a confirmed hop.

`EchoProbeResponder` follows `handle`: the reply or ACK is queued at once; the
two retunings are steps of their own because the code sleeps between them and
transmission is asynchronous. `rxLog` stands for the responder's file.

`EchoProbeRadio` models what the platform does with a frame: it waits in an
outbox, is emitted at the tuning the front end has *then*, is heard only by a
front end at the same tuning, and waits in an inbox for the plugin.

Abstractions:

* Task ids are drawn at random from 55537 values and transmission ids from 65436.
  The model draws task ids that do not repeat and numbers the transmissions of a
  call.
* The initiator's `setSamplingRate` and `setCarrierFrequency` follow each other
  without a pause and are one step. Front ends reach exactly the frequency they
  are given (frequencies are whole Hz; the request carries them as `int64_t`).
* A reply carries the tuning of the responder (its ExtraInfoSegment). A
  header-only reply has none; the model keeps it to state where a measurement
  was made.
* Of the four reply strategies only the full payload can fail to decode
  (`FullPayload`, `RejectReply`); an unusable reply counts as a fault.
* The means, the counters of one scan point and the responder's device type
  (which only scales the timeout) are left out. `total_acked_count` is
  `Len(dumped)`.
* `cf_repeat` is at least 1, and `--ndpa` is not given.
* Platform threads: one thread delivers received frames in order.

### Concatenation

`FrameConcat` is one action: insertion and `std::sort` (any order among equal
ids), merging of complete entries, ageing of all, removal. `merged` is what the
call handed to the decoder. The module knows nothing of senders: `Diagrams` may
arrive in any order, any number of times.

### Forwarding

`UDPForwarder` has the command thread, with the two assignments as two steps
(the second may throw), and threads in `rxHandle`: the frame is split with the
destination known to exist, and every diagram is sent to the destination of
that moment. A diagram holds the header fields and which units of the frame
follow (`from`, `len`), so that the arithmetic of the split matters for what can
be decoded. `TaskIdOf` resolves the random choice of task ids in advance.

`UDPRemoteLogger` has the pool of threads (`Receive` fills the one buffer and
disarms, `CopyOut` and `Rearm` are the two halves of `rxHandler`), the error
path that ends receiving and with it the program, and the three pipelines, each
with one worker that takes items in order: that is what the unlocked
`frameConcatBuffer` presumes. Undecodable bytes yield nothing or some wrong
frame (`Corrupt`).

### Scan lists and jobs

`ScanPlan` translates `enumerateArbitrarySamplingRates` and
`enumerateArbitraryCarrierFrequencies`: the ends that are not given are the
tuning the front end has, the list is the do-while loop, `Enumerable` the
condition under which they do not throw.

`EchoProbeWork` is `unifiedEchoProbeWork` in all modes, on one station. `at`
holds the three loop indices, `sent` the inner counter (`i`, or `freqIdx` of the
logger), `prebuilt` is `prebuiltFrames`, `air` the frames of the job with the
tuning each went out at. The two retunings of an injector or a radar are two
steps, as they are calls with pauses between them; so is each injected frame or
batch. The round trips at one point of an initiator, the subject of the session
model, are the single step `MeasurePoint`, which may fail and end the round.
`FailToStart` is the exception of an impossible range.

The repetitions of a batch are `std::ceil(1.0f * cf_repeat / framePoints.size())`,
which is computed in 32-bit floating point: `Float32` translates the two conversions
and the division with the rounding of each to 24 binary digits (to nearest, a
half to even). Up to 2^24 repetitions the result is the exact ceiling
(`FloatCeilingIsExact` in `EchoProbeWork_proof`), above it may be another number.

A frame is only its kind: NDP announcement, NDP or data. `SplitParts` is the
number of frames `autoSplit` makes of one data frame; pauses, the contents of
frames and their MCS are left out. Frequencies are small whole numbers.

### Plugin

`EchoProbePlugin` has two threads. The command thread goes through
`parseAndExecuteCommands`: mode, services, options, the responder's copy, the
job (steps of `EchoProbeWork`), stopping of services. `cpc` tells where it is. A
command is a record with its mode, the options it sets and possibly the option
whose value makes the parser throw; options before that one in the order of the
code keep their new values (`Reaches`), and so do the parts of --cf or --sf before a
malformed part, as begin, step and end are assigned one by one; those with a
default are set in every command. Parts of a range that are left empty keep the values of earlier
commands (`Merged`). `responder->startJob` assigns a whole record while `handle`
may read it: the model assigns the mode and then the rest (`CopyMode`,
`CopyRest`). An exception in an option or in the job ends the command; what was
started or set before stays so.

The receiving thread is `rxHandle`: `Receive` asks the plugin's parameters, what
follows asks the responder's copy. After the ACK of a frequency change it tunes
the front end in two steps, the same front end that the job tunes.

`EchoProbeSegments` gives the fields of a request their ranges (`Request`; the
frequencies are whole numbers, not 64-bit) and lays out request and reply byte by byte: a byte is the k-th
byte of a value, so that a misplaced read yields `Garbled`. Sender and receiver
are translated separately (the packed struct against `v1Parser`, `toBuffer`
against `fromBuffer`). The two payload names in use differ in length and stand
for it; `ackGI = 1` stands for `GI_800`. `AcceptsReply` is what
`transmitAndSyncRxUnified` requires of a reply of each strategy.

`PluginHost` puts both plugins on a NIC. `PlatformNIC` assumes that starting a
running service and stopping a stopped one change nothing, and that frames reach
the plugins only while Rx runs. `calm`, `demoed`, `output` and `frame.entered`
are history for the properties.

Assumptions on the platform: commands come one at a time and received frames
on one thread; a command with options of both plugins is two commands; starting
Rx and Tx is one step; a failed command leaves the plugin ready for the next.

## 3. Runs

Every property of a passing run has a mutant in `PROJECT.json`: a plausible bug in a definition
that models the code, under which the run finds the property violated.

| Run | Instance | Shows |
|---|---|---|
| `session_retries` | two hops from outside the scan, 1 round, 1 loss, 2 retries, arbitrary timeouts and pauses | `TypeOK`; `ConfirmedHopIsShared`: after a hop is confirmed the responder is at the initiator's tuning or on its way, and no request still pending can take it away; `MeasuringAtPoint`; `MeasuredWhereClaimed`: a dumped frame answers a request that was handled at that scan point |
| `session_rounds` | 2 rates x 2 frequencies, 2 rounds, 2 repetitions, 1 retry, arbitrary timeouts | `ConfirmedHopIsShared` for hops that change both components; `ImplementsCampaign`: refinement of `MeasurementCampaign`; `JobTerminates` |
| `session_tolerance` | 2 x 2 points, 2 rounds, 2 repetitions, 3 retries, up to 6 losses or undecodable replies, timely | `SurvivesLosses`: a complete scan whenever no more than TxMaxRetry - 2 were lost. The bound is tight: for 2 losses, or for 2 retries and 1 loss, TLC finds an incomplete scan. `LaterRoundsRecover`: a round that starts after the last loss is complete, although with up to 2 x TxMaxRetry = 6 losses the round before may have failed at any point, in a hop or in a measurement |
| `session_recovery` | 2 rounds, 2 retries, 5 losses, timely | **violated**: `LaterRoundsRecover`, see findings |
| `session_delay` | | **violated**: `DelayIsRoundTrip` |
| `frame_concat` | diagrams of 2- and 3-part frames of three tasks, limit 4 | `TypeOK`, `LiveCountsDistinct`, `SegmentsWithinLive`, `AtMostOneMerged`, `MemoryBounded` |
| `forwarding_transfer` | frames of 1, 2 and 3 diagrams, 2 + 2 threads (symmetric), two commands to different destinations, a loss, an error, limit 3 | `TypeOK`, `MergedOnlyWhenCollected`, `ImplementsTransfer`; `SentAsCommanded`: although the destination is tested once and read again for every diagram, each goes to an address and a port that commands gave, and while no command is executed to those of the last one |
| `forwarding_liveness` | frames of 1, 2 and 2 diagrams, limit 3 | `EventuallyLogged`; tight: limit 2 is not enough |
| `forwarding_bad_port` | a second command without a port number | **violated**: `DestinationWasSpecifiedAtRest` |
| `scan_jobs` | ranges of all shapes, 1 or 2 rounds and repetitions, batches of 1-3 frames for 1-3 repetitions, hopping over default and custom channels | `TypeOK`; `ScanIsRange`: the list is the arithmetic progression from begin to end; `InjectsThePlan`: every visit of a point puts the same number of frames on the air, all at its tuning, in the order of the loops; `InjectionsAsAsked`: as many as --repeat says, or with batches less than a batch more; `JobEnds`; `EveryChannelVisited` |
| `scan_split_batch` | frames in 2 parts | **violated**: `InjectionsAsAsked` |
| `plugin_commands` | any 3 of 12 commands, 2 frames of 6 kinds of the peer | `TypeOK`; `ServicesFollowMode`: after a command the services are those of the mode in force (an injector's excepted), failed commands before it included; `HandledAsCommanded`: a frame between commands is logged, answered or ignored as the last command asked; `AnswersAsAsked`: the reply survives both encodings and is what the initiator requires; `InjectsAtPoint`: the peer cannot retune an injection; `CommandsReturn` |

### Bounds

* Two carrier frequencies and up to two rates give hops that change either
  component or both. A start outside the scan makes the first point a hop too.
* `MaxFaults` bounds frames lost although the tunings agree. Where timeouts are
  arbitrary a timeout before the answer has the effect of a loss with the
  answer still to come, so retries and retreats happen with no or one fault.
  Where they are timely a round fails by losses only, so `session_tolerance` has
  as many as are harmless to later rounds, 2 x TxMaxRetry, and `session_recovery`
  one more.
* `TxMaxRetry` 1 to 3 (5 and more in practice): the hop's own budget, 2 per try,
  is not a parameter.
* `LiveLimit` 1 to 4 stands for 100; the violations scale with it, the theorems
  hold for all limits. `MaxDiagramLength` is 2 units, frames have 2 to 5: a full
  diagram, a split with a short rest, three parts.
* `MaxLosses`, `MaxDuplicates`, `MaxErrors` are named bounds of the environment.
* Scan jobs: the ranges go upwards, downwards, over one point, to an end a step
  reaches or misses, with a step of the wrong sign or zero, and with parts not
  given. Two rounds and two points show whether an index is reset; 1-3
  repetitions against batches of 1-3 give exact, partial and oversized batches.
  Jobs follow each other without a bound; the number of states is finite.
* Plugin: `MaxCommands = 3` covers a command, one that fails or changes the
  mode, and one that relies on what is left; `MaxFrames = 2` a frame that is
  still being handled at each of these points and one more. The rate range is
  never given there; `scan_jobs` covers it.

### Fairness

Weak fairness of each thread: the initiator's (its receive has a timeout, so it
always goes on), the platform's delivery threads, the front ends' transmission,
and for forwarding the command thread, the receiving threads and the pipelines.
In `ScanJob` and `PluginHost` the thread that runs a job or a command goes on
(weak fairness of `Step`, `Execute`), and so does `rxHandle` once called
(`Handle`); no fairness on commands being given or frames of the peer coming.
Losses, decode failures and receive errors are not fair. No fairness promises
that a frame is heard. `Timely` states that timeouts and pauses outlast what they
wait for; only the properties about tolerated losses and recovery use it.

## 4. Proofs

`EchoProbeSession_proof`: `TypeCorrect` (`Spec => []TypeOK`) and `MeasuresAtPoint`
(`Spec => []MeasuringAtPoint`), for all scan lists, repeats, retry budgets and
fault bounds. The invariant of the first is `TypeOK` itself, which includes that a
transmission is only made while `retryCount < MaxRetry`; the second is inductive
together with it. There is one step per action.

`SessionExchange_proof`: `HopsAreShared` (`Spec => []ConfirmedHopIsShared`) and
`DumpsAreTrue` (`Spec => MeasuredWhereClaimed`), for all scan lists, retries and
losses and whatever times out when. `ConfirmedHopIsShared` speaks of the time
after a hop; that it becomes true with an ACK depends on what every answer on its
way means, which `ExchangeInv` states:

* `Order`: requests are handled in the order of their tasks, so what is answered
  is not newer than what is pending, and pending requests of the present task
  are repetitions of `frame`.
* `Serving`: the request being carried out is the last one handled.
* `HopInv`: an ACK of the present hop means that the frequencies it asked for are
  set or about to be. Once it is heard the others are right too: it was heard
  at the origin or at the point, both stations were tuned alike then, and origin
  and point agree in what the request leaves out.
* `MeasureInv`: a reply to the present measurement holds the tuning the responder
  still has; once it is heard this is the scan point.

`SessionCampaign_proof`: `CampaignImplemented` (`Spec => ImplementsCampaign`), for all
scan lists, repeats and whatever is lost. Every step is one of the campaign or
leaves the file alone, because of `CampaignInv` (`CampaignCorrect`), which says where the loops stand
with respect to the file: nothing beyond the present point was dumped, and the
point as often as the inner loop has come round; if not at all yet, it is the
one the campaign goes on with - the first of a later round, or the successor of
the last point, which is complete. All three loops are used: each of the ways
out of a point (`LeavePoint`, `LeaveRound` after a failure) leads to a point that
none in the file equals (`NewPoint`).

`FrameConcat_proof`: for all sets of diagrams and all limits, `TypeCorrect`,
`CountsDistinct`, `SegmentsBounded`, `TasksBounded` (at most `LiveLimit`
incomplete frames, from the distinct live counts and a cardinality argument),
`SegmentsHeldBounded` (`Spec => []MemoryBounded`: at most `LiveLimit` segments in
all entries together) and `OneMergePerCall`. `SegmentsHeldBounded` is not a consequence of the
bounds per entry and per task, whose product is larger. Its invariant, `YoungBounded`,
says that the entries up to age a hold at most a segments, for every a: a call makes every entry
one call older, so that those up to age a were up to age a - 1 before, and adds one
segment to one of them. The inductive invariant `ConcatInv` adds `NoneComplete`: what
stays in the buffer does not pass the test for completeness, so that only the
entry a call inserts into can be merged by it. That the handler's result does
not depend on the order in which it visits the tasks rests on this.

`FrameForwarding_proof`: `TypeCorrect` for everything; `MergedComplete`
(`Spec => []MergedOnlyWhenCollected`) and `TransferImplemented`
(`Spec => ImplementsTransfer`) under `NoCollision`: nothing is duplicated and no two
frames share a task id. Frames, their sizes, the diagram length, the threads on
either side, the commands, losses, failures and `LiveLimit` are arbitrary.

* The segments of a frame tile it (`SegmentsTile`): each begins where the one before
  ends, the last at the end of the frame, none is empty.
* `OnePlace`: a diagram is in at most one of the places of its way - the frame it
  is still part of, a sending thread, the network, `rxTempBuffer`, the queue
  before the decoder, the queue before `FrameConcat`, its buffer, or the frames
  that are logged or about to be - and once there (`SentOnce`, `ReceivedOnce`, `CollectedOnce`, `LoggedOnce`). The receive
  buffer is part of this: it holds the datagram whose length was reported until
  the handler has copied it.
* `FullIsInOrder`: as many different segments, sorted by id, as the frame has are
  all of them and in order. `std::sort` and the comparison of a count are
  enough for the decoder to get the bytes of the frame (`InOrderIsIntact`). The
  proof needs no induction: the segments in front of one and those behind it
  each fit an interval, and the intervals add up.

`DestinationsCommanded` (`Spec => SentAsCommanded`) has no provision: commands may name
different addresses and malformed ports. `DestinationInv` says where the two parts
come from: the address from the last command that began, the port from a
command that is done, the last one unless its port was malformed; and a thread
that sends found both parts set, and neither is ever taken back. Between the two
assignments, or after a malformed port, the parts may be of different commands: the
theorem says no more than that each was commanded.

`ScanJob_proof`: `TypeCorrect`, `PlanIsRange` (`Spec => []ScanIsRange`),
`InjectionFollowsPlan` (`Spec => []InjectsThePlan`), `InjectionCount` and
`TransmissionCount`, for any set of jobs, in any order and any number, any channels
and devices. The last two are about --repeat:

* `InjectionCount`: `InjectionsAsAsked` of every job for which `CountsInjections`
  holds: frame by frame always; in batches if these hold neither NDP
  announcements nor split data frames, with which the number of injections is
  wrong (finding 4), and are repeated less than 2^24 times, as far as a float
  counts.
* `TransmissionCount` (`Spec => []TransmissionsAsAsked`) says what does hold of all
  jobs, announcements and split frames included: in a batch --repeat is the
  number of frames on the air (below 2^24), rounded up to whole batches in each
  round; frame by frame it is the number of injections with all their frames.

Both rest on the same invariant, `CountInv(X)`, which counts the frames that are not
of the kinds X: all but the announcements for the first, all for the second.

* `EchoProbeWork_proof` says what the operators return. The do-while loop of the
  enumeration, `From`, is a recursive function over the integers; that it
  yields the arithmetic progression from begin to end (`EnumerateIsProgression`) is an
  induction over the length of what is left. The library's induction
  theorems take an operator, so it is made by the least counterexample
  (`LeastNumber`, from `WFMin`): of the values from which
  the list is wrong, the one closest to the end would have a successor that is closer. Further lemmas give `BatchFrames`, `Times` and
  `Emit` their lengths and elements, and every step of a job its types
  (`WorkTyped`, `StartTyped`, `WorkStepTyped`).
* `PlanInv`: from `StartJob` on the two lists are what the ranges gave with the
  tuning the job before left (`origin`). `EnumerateIsScan` shows that a progression
  is a scan: the values in the interval which a step reaches, each once, in the
  direction of the step.
* `AirInv`: the number of frames on the air is that of the visits that are over,
  times the frames of a visit, plus those of the present one; the n-th went out at
  the point which its visit has in the plan; while injecting, the front end is
  tuned to the present point. The order of the three loops is here in the number of
  visits, a number with three digits (`VisitPoint`, `LeaveIsNextVisit`).
* `CountInv`: the frames counted at a tuning are those of the visits of its point, as
  the points of a plan are different (`PointsDistinct`); the sum over the air
  grows by what one step emits (`PlacesAtGrow`). The batches of a visit are enough,
  and less than one too many, by `FloatCeilingIsExact`: below 2^24 the quotient has
  so few digits before the point that rounding cannot carry it over a whole
  number.

`PluginHost_proof`: `TypeCorrect` (`Spec => []TypeOK`), `RepliesAnswer`
(`Spec => []AnswersAsAsked`), `ServicesCorrect` (`Spec => []ServicesFollowMode`),
`InjectionUndisturbed` (`Spec => InjectsAtPoint`) and `FramesHandled`
(`Spec => HandledAsCommanded`), for any set of commands, any requests and any number
of either.

* `TypeInv` says more than the types of the variables: the loops of a job are
  within its lists (`WorkTyped`, shared with `ScanJob_proof`), which holds because
  the parameters do not change while a job runs (`job = params`) and every
  option, also of a command that fails half-way, leaves them in their
  types (`OptionsKeepTypes`); what `rxHandle` holds is a frame of the peer, and
  its last reply is the one to that request (`FrameOK`).
* `RepliesAnswer` rests on where bytes are. `HasAt` says that a field lies at a position of a
  buffer; what is appended leaves earlier fields in place (`Appended`),
  and what lies there is read (`ReadAt`). So a request of any content
  arrives as it was sent (`RequestArrives`), a reply with or without a payload name
  too (`ReplyArrives`), and what `MakeReply` puts in for a strategy is what the
  initiator looks for (`ReplyAccepted`).

* `ServicesFollowMode` speaks of the end of a command only. `ServicesInv` adds
  where the services stand at every point of one: at `services` the mode is new
  and nothing is known; from there on Rx runs for a logger, both for a responder,
  whatever demo commands or jobs of other modes came before (those stop services
  only after changing the mode); between the two stops Rx is off. `ModeKept`
  says that the options of a command leave its mode alone.
* `TuneInv`, together with `TypeInv`, says who may tune during an injection: while the job runs, the
  handler is idle or, in a radar, has a frame to log, because the responder's copy
  equals the parameters (`mine = params`) from `start` on; after the step that
  sets the rate the front end has the point's rate, in the injection loop the
  point. `calm` is where the induction starts. The rest is lemmas on sequences of
  frames (`EmitAtTuning`, `TimesIsSeq`, `BatchIsSeq`): what a step appends to
  `air` carries the present tuning.

* `HandlingInv`: the parameters hold the file named last, or will when the command under
  way has parsed its options (`FileInv`); the responder's copy equals them after
  the two steps of the copy and at rest after every command that succeeded in a mode
  that copies (`CopyInv`); a frame that no command followed still meets the state
  it came in (`FrameInv`).

The assumptions are those the modules name: lists are non-empty, repeats and
limits are positive. `JobsAssumption`: the ranges of a job are whole numbers, its
repetitions and batches positive. `CommandsAssumption`: the same of the options of
a command, those of a failing one included; `--mode` is not among the options
a command sets otherwise, and `--output`, a string, does not make the parser
throw. `RequestsAssumption`: what the peer sends is a request of either type with fields in
the ranges of the packed struct, or a frame that is none.

Only model-checked: liveness, which like `ENABLED` is out of the prover's reach -
`JobTerminates`, `SurvivesLosses`, `LaterRoundsRecover`, `EventuallyLogged`,
`JobEnds`, `EveryChannelVisited` and `CommandsReturn`. Every invariant and every
action property of a passing run, and both refinements, are theorems.

## 5. Findings

1. **The stations can part for good** (`session_recovery`). The first request
   moves the responder and its ACK is lost; in each later attempt both tries at
   the new tuning are lost. The initiator ends at the old tuning and never looks
   at the new one again, unless its scan happens to. With the constants of the run 4 = 2 x TxMaxRetry
   losses are harmless (`MaxFaults = 4` in `SessionRecovery.cfg` gives no
   violation); `session_tolerance` checks the same for TxMaxRetry = 3 and 6 losses.
2. **A round-trip delay may be another transmission's** (`session_delay`).
3. **A malformed port leaves a mixed destination** (`forwarding_bad_port`).
4. **Batches of split frames are too few** (`scan_split_batch`). The number of
   repetitions of a batch is --repeat divided by the number of prebuilt frames,
   parts of split frames counted as frames. The same division counts NDP
   announcements, to which no document commits.

Observations met while modelling, without a run of their own:

* `#.total_tx` and the success rate omit the transmissions of failed measurements.
* A frame of more than 101 diagrams never completes (`forwarding_liveness` is
  tight).
* If the responder is in the pauses of a frequency change when an injector job
  begins, it retunes the front end in the middle of the job: without `calm`,
  `InjectsAtPoint` is violated.
* The responder reads none of the ack fields of a request; `--ack-sts` overwrites
  the bandwidth option.
* `--batch` builds its frames once, before the first scan point, and its frames
  carry neither the target address nor the header of an injection.
* The hopping logger never returns, so no later command is executed
  (`CommandsReturn` excepts it).
* A range that cannot be enumerated stays in the parameters and makes every later
  job fail, in any mode, until a command replaces it.
* The documents disagree on the services of an injector: changelog.md:89 has them
  stopped when its job finishes, as lines 287-288 of `EchoProbePlugin.cxx` do; the
  comment at lines 86-88 says that injector and logger no longer stop any because
  of the loopback mode, though it may mean the start of the mode only.
  `ServicesFollowMode` leaves the injector out.
* Two valid commands to different addresses: a diagram sent between the two assignments
  of the second goes to its address and the port of the first, and one frame may
  be sent to both destinations in parts. No document promises otherwise, and
  nothing in the repository tells which thread of the platform executes commands.
* Above 2^24 repetitions the number of batches may be rounded down: --repeat
  16777217 in batches of 1024 gives 16384 of them where 16385 are needed.
* A duplicated datagram counts as a segment, so an incomplete frame may be handed
  on; no run has one (`MaxDuplicates = 0`).

## 6. Not modelled

* The contents of frames: MAC addresses, payloads, padding, MCS, ExtraInfo; means
  and their printing; pauses, apart from the steps they separate.
* `enumerateIntelMVMCFs` and the static `closest`, which nothing calls.
* Segments of a version or name other than the one in use.
* The parsing of text: a command line is the record of its values. Ranges have
  three parts, any of them empty, as fewer are read behind the end of a vector;
  `--repeat`, `--round` and `--batch` are at least 1.
* Colliding task ids, in reach of the forwarding model through `TaskIdOf`; no run
  uses them.
* `--ndpa` with an initiator, whose requests then carry no task id.
* Build and packaging.

## 7. What could follow

The session with the modules of the plugin: two stations, each a `PluginHost`,
in place of `MeasurePoint` and of the requests of a peer.
