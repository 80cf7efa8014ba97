------------------------- MODULE MCFrameForwarding -------------------------
(***************************************************************************)
(* Instances of FrameForwarding for TLC.  A diagram holds two units of a   *)
(* frame (65000 bytes in the code), so that a frame of three units takes   *)
(* two diagrams, the second one shorter.                                   *)
(***************************************************************************)
EXTENDS FrameForwarding, TLC

\* The diagrams of the frames, for the logger's SentDiagrams.
MCSentDiagrams == AllDiagrams

MCLogger == [ip |-> "logger", port |-> 50000]

\* Frames of one diagram (a full one, the boundary of the split), two and three.
MCMixedFrames == {"short", "long", "longer"}
MCMixedSizes == [f \in MCMixedFrames |->
                    IF f = "short" THEN 2 ELSE IF f = "long" THEN 3 ELSE 5]

\* The same with two diagrams for the longest.
MCShorterSizes == [f \in MCMixedFrames |->
                      IF f = "short" THEN 2 ELSE IF f = "long" THEN 3 ELSE 4]

\* Two frames of two diagrams.
MCTwoFrames == {"long", "longer"}
MCTwoSizes == [f \in MCTwoFrames |-> IF f = "long" THEN 3 ELSE 4]

\* Task ids that do not repeat.
MCMixedIds == [f \in MCMixedFrames |->
                  IF f = "short" THEN 1 ELSE IF f = "long" THEN 2 ELSE 3]
MCTwoIds == [f \in MCTwoFrames |-> IF f = "long" THEN 1 ELSE 2]

\* Threads of a pool do the same; no property tells them apart.
MCThreads == Permutations(RxThreads) \cup Permutations(IoThreads)

\* Commands: one valid argument; another destination first; a second one
\* without a port number.
MCOther == [ip |-> "other", port |-> 50001]
MCOneCommand == <<MCLogger>>
MCTwoCommands == <<MCOther, MCLogger>>
MCBadPort == <<MCLogger, [ip |-> "other", port |-> NoPort]>>
=============================================================================
