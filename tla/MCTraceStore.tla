---------------------------- MODULE MCTraceStore ----------------------------
(***************************************************************************)
(* Three commands over three days, one session kept by count, one day by   *)
(* age.  The first is alone; the last two overlap, and the last may read   *)
(* the others' traces.  A command emits one event when it starts and one   *)
(* when it ends; in the code there are three of each, appended the same    *)
(* way.                                                                    *)
(***************************************************************************)
EXTENDS TraceStore

MCStart == <<"started">>
MCFinish == [ok \in BOOLEAN |-> IF ok THEN <<"finished">> ELSE <<"failed">>]
MCReaders == {"debug", "bundle", "export"}
MCCommands == <<{"block"}, {"throw"}, {"pass", "telemetry"} \cup MCReaders>>

\* Bound: a behaviour with a report has a crash or a midnight, not both.
ReportsBounded == proc[3].cmd \in MCReaders => faults + day <= 2

MCSpec == Init /\ [][Next /\ ReportsBounded']_vars
=============================================================================
