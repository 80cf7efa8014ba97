---------------------------- MODULE MCPluginHost ----------------------------
(***************************************************************************)
(* The instance of PluginHost for TLC: commands of every mode, with and    *)
(* without an output file, commands that fail early, within a range, late  *)
(* and in the job, commands without a mode; requests of every strategy and *)
(* a frequency change to a tuning no job plans.                            *)
(***************************************************************************)
EXTENDS PluginHost, TLC

MCHome == [cf |-> 2, sf |-> 1]
MCChannels == <<1, 3>>

Mode(m) == [NoCommand EXCEPT !.mode = <<m>>]
Output(c, name) == [c EXCEPT !.set = @ @@ [outputFileName |-> <<name>>]]
Scan(b, s, e) == [cf |-> [begin |-> b, step |-> s, end |-> e]]

MCCommands ==
    {Mode("Injector"), Mode("EchoProbeInitiator"), Mode("Radar"),
     Mode("EchoProbeResponder"), Output(Mode("Logger"), "a"),
     [Mode("Injector") EXCEPT !.set = Scan(<<2>>, <<1>>, <<3>>)],
     [NoCommand EXCEPT !.set = Scan(Unset, <<-1>>, Unset)],
     [Mode("Logger") EXCEPT !.set = [logger_cf_interval_ms |-> 1]],
     [NoCommand EXCEPT !.set = Scan(<<1>>, Unset, Unset), !.fails = <<"cf">>],
     Output(NoCommand, "b"),
     Mode("bogus"),
     [Output(Mode("EchoProbeResponder"), "b") EXCEPT !.fails = <<"ack_mcs">>]}

MCRequests ==
    {<<"EchoProbeRequest", MakeRequest(3, TRUE, s, -1, -1)>> : s \in Strategies} \cup
    {<<"EchoProbeFreqChangeRequest", MakeRequest(3, FALSE, ReplyOnlyHeader, 5, 5)>>,
     <<"other", NoData>>}
=============================================================================
