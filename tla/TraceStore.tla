----------------------------- MODULE TraceStore -----------------------------
(***************************************************************************)
(* Local traces: packages/tools/trace and the way the command line drives  *)
(* it (trace-events.ts, bin/pairslash.ts).                                 *)
(*                                                                         *)
(* Every command is a session of its own.  An event is appended by writing *)
(* the session's file of the day again, then the session's index is built  *)
(* anew from that file; both are emptied first and written in place.  When *)
(* its session finishes a command prunes old sessions, other commands read *)
(* the indexes and events: nothing is locked, so both meet files another   *)
(* process is writing or removing.                                         *)
(*                                                                         *)
(* Time is counted in days, so of two sessions of one day either may be    *)
(* the newer; an event is its outcome.  Indexes are read one after the     *)
(* other in the code, at one moment here.  Payloads, ids, redacted text    *)
(* and the layout of reports are left out.                                 *)
(***************************************************************************)
EXTENDS Naturals, Sequences, FiniteSets

CONSTANTS
  LastSession,  \* sessions are 1 .. LastSession, in the order of their ids
  MaxDays,      \* max_days of the retention policy
  MaxSessions,  \* max_sessions of the retention policy
  CommandsOf,   \* CommandsOf[s]: the commands session s may be
  StartEvents,  \* the outcomes a command emits before it runs
  FinishEvents, \* FinishEvents[ok]: the outcomes it emits at its end
  Missing,      \* there is no such file
  Torn,         \* the file does not parse
  LastDay,      \* bound: days in a behaviour
  Overlapping,  \* bound: the sessions that may run at the same time
  MaxFaults     \* bound: crashes in a behaviour

ASSUME PolicyAssumption ==
  LastSession \in Nat /\ MaxDays \in Nat \ {0} /\ MaxSessions \in Nat
ASSUME CommandAssumption ==
  \A s \in 1 .. LastSession :
    CommandsOf[s] \subseteq {"pass", "block", "throw", "debug", "bundle", "export", "telemetry"}
ASSUME TraceBoundAssumption == LastDay \in Nat \ {0} /\ MaxFaults \in Nat

Failures == {"blocked", "denied", "failed"}
Outcomes == Failures \cup {"started", "ok", "finished", "exported"}
Logs == Seq(Outcomes)
Days == 1 .. LastDay
Index == [day : Days, count : Nat, failed : BOOLEAN, last : Outcomes \cup {Missing}]

\* A command emits events when it starts and when it ends, and what a file that is
\* gone or torn is read as is no log and no index.
ASSUME EventAssumption ==
  /\ StartEvents \in Logs \ {<<>>} /\ \A ok \in BOOLEAN : FinishEvents[ok] \in Logs \ {<<>>}
  /\ Missing # Torn /\ {Missing, Torn} \cap (Logs \cup Index) = {}

VARIABLES
  day,     \* today
  events,  \* the event file of each session and day
  index,   \* the index file of each session
  proc,    \* the process of each session
  span,    \* history: first and last day of the events of each session
  faults   \* crashes so far

vars == <<day, events, index, proc, span, faults>>

Sessions == 1 .. LastSession
Fails(log) == \E i \in DOMAIN log : log[i] \in Failures

-----------------------------------------------------------------------------
(***************************************************************************)
(* Files.                                                                  *)
(***************************************************************************)

\* parseJsonLines
ParseJsonLines(file) == IF file = Missing THEN <<>> ELSE file

\* Mutant: the event file is not recorded.
RecordsNoFile(log, d) ==
  [day |-> 0, count |-> Len(log), failed |-> Fails(log),
   last |-> IF log = <<>> THEN Missing ELSE log[Len(log)]]

\* The events of a file, all of its day, summed up.
BuildSessionIndex(log, d) ==
  [day |-> d, count |-> Len(log), failed |-> Fails(log),
   last |-> IF log = <<>> THEN Missing ELSE log[Len(log)]]

Indexed == {s \in Sessions : index[s] # Missing}

\* listTraceIndexes throws when a file it found is gone or does not parse.
Listable(names) == \A s \in names : index[s] \notin {Missing, Torn}

\* The sessions that may come first when the newest comes first.
Newest(names) == {t \in names : \A u \in names : index[u].day <= index[t].day}

\* Mutant: the last line is lost.
DropsLastLine(s) ==
  IF index[s] = Missing THEN <<>>
  ELSE IF index[s] = Torn \/ events[s][index[s].day] = Torn THEN Torn
  ELSE LET log == ParseJsonLines(events[s][index[s].day]) IN
       SubSeq(log, 1, IF log = <<>> THEN 0 ELSE Len(log) - 1)

\* loadTraceEvents: Torn when it throws.
LoadTraceEvents(s) ==
  IF index[s] = Missing THEN <<>>
  ELSE IF index[s] = Torn THEN Torn
  ELSE ParseJsonLines(events[s][index[s].day])

-----------------------------------------------------------------------------
Idle ==
  [pc |-> "ready", cmd |-> "pass", ok |-> TRUE, todo |-> <<>>, then |-> "ready", held |-> <<>>,
   names |-> {}, now |-> 0, victims |-> {}, victim |-> Missing, target |-> Missing, latest |-> Missing,
   live |-> FALSE, cut |-> {}, report |-> Missing, exported |-> Missing]

Running(s) == proc[s].pc \notin {"ready", "done", "crashed"}
At(s, pc) == proc[s].pc = pc
Emit(p, outcomes, then) == [p EXCEPT !.pc = "append", !.todo = outcomes, !.then = then]

\* The command ends, well or with an exception: its last events and then the prune.
Finish(p, outcomes, ok) ==
  Emit([p EXCEPT !.ok = ok, !.names = {}], outcomes \o FinishEvents[ok], "prune")
Throw(p) == Finish(p, <<"failed">>, FALSE)

Goes(s, p) == proc' = [proc EXCEPT ![s] = p]

Init ==
  /\ day = 1
  /\ events = [s \in Sessions |-> [d \in Days |-> Missing]]
  /\ index = [s \in Sessions |-> Missing]
  /\ proc = [s \in Sessions |-> Idle]
  /\ span = [s \in Sessions |-> [first |-> 0, last |-> 0]]
  /\ faults = 0

-----------------------------------------------------------------------------
(***************************************************************************)
(* Emitting an event.                                                      *)
(***************************************************************************)
StartCommand(s) ==
  /\ At(s, "ready")
  /\ \A t \in Sessions : t < s => ~At(t, "ready")
  /\ \A t \in Sessions : Running(t) => {s, t} \subseteq Overlapping
  /\ \E c \in CommandsOf[s] : Goes(s, Emit([Idle EXCEPT !.cmd = c], StartEvents, "body"))
  /\ UNCHANGED <<day, events, index, span, faults>>

\* The file of the day of the event is read, and emptied to be written again.
TruncateEvents(s) ==
  /\ At(s, "append")
  /\ events' = [events EXCEPT ![s][day] = <<>>]
  /\ span' = [span EXCEPT ![s] =
       [first |-> IF @.first = 0 THEN day ELSE @.first, last |-> day]]
  /\ Goes(s, [proc[s] EXCEPT !.pc = "write",
               !.held = Append(ParseJsonLines(events[s][day]), Head(proc[s].todo))])
  /\ UNCHANGED <<day, index, faults>>

\* What a file may look like while the log is written to it: cut at the end of a line or
\* within one.
Cuts(log) == {Torn} \cup {SubSeq(log, 1, n) : n \in 0 .. Len(log) - 1}

WritePart(s) ==
  /\ At(s, "write")
  /\ \E file \in Cuts(proc[s].held) : events' = [events EXCEPT ![s][span[s].last] = file]
  /\ UNCHANGED <<day, index, proc, span, faults>>

WriteEvents(s) ==
  /\ At(s, "write")
  /\ events' = [events EXCEPT ![s][span[s].last] = proc[s].held]
  /\ Goes(s, [proc[s] EXCEPT !.pc = "truncate", !.held = <<>>])
  /\ UNCHANGED <<day, index, span, faults>>

\* The index is replaced in place: others can read it half written.
TruncateIndex(s) ==
  /\ At(s, "truncate")
  /\ index' = [index EXCEPT ![s] = Torn]
  /\ Goes(s, [proc[s] EXCEPT !.pc = "index"])
  /\ UNCHANGED <<day, events, span, faults>>

\* Mutant: the index names the file of the day it is written on.
NamesTodaysFile(s) ==
  LET d == span[s].last
      rest == Tail(proc[s].todo)
  IN
  /\ At(s, "index")
  /\ index' = [index EXCEPT ![s] = BuildSessionIndex(ParseJsonLines(events[s][d]), day)]
  /\ Goes(s, CASE rest # <<>> -> [proc[s] EXCEPT !.todo = rest, !.pc = "append"]
               [] proc[s].then = "prune" -> [Idle EXCEPT !.ok = proc[s].ok, !.pc = "prune"]
               [] OTHER -> [proc[s] EXCEPT !.todo = rest, !.pc = proc[s].then])
  /\ UNCHANGED <<day, events, span, faults>>

WriteIndex(s) ==
  LET d == span[s].last
      rest == Tail(proc[s].todo)
  IN
  /\ At(s, "index")
  /\ index' = [index EXCEPT ![s] = BuildSessionIndex(ParseJsonLines(events[s][d]), d)]
  /\ Goes(s, CASE rest # <<>> -> [proc[s] EXCEPT !.todo = rest, !.pc = "append"]
               [] proc[s].then = "prune" -> [Idle EXCEPT !.ok = proc[s].ok, !.pc = "prune"]
               [] OTHER -> [proc[s] EXCEPT !.todo = rest, !.pc = proc[s].then])
  /\ UNCHANGED <<day, events, span, faults>>

-----------------------------------------------------------------------------
(***************************************************************************)
(* Commands: any other command passes, is blocked or throws; a reader reads *)
(* the traces of the others.                                               *)
(***************************************************************************)
Readers == {"debug", "bundle", "export", "telemetry"}

RunCommand(s) ==
  /\ At(s, "body")
  /\ \/ proc[s].cmd = "pass" /\ Goes(s, Finish(proc[s], <<>>, TRUE))
     \/ proc[s].cmd = "block" /\ Goes(s, Finish(proc[s], <<>>, FALSE))
     \/ proc[s].cmd = "throw" /\ Goes(s, Throw(proc[s]))
  /\ UNCHANGED <<day, events, index, span, faults>>

ListIndexes(s) ==
  /\ At(s, "body") /\ proc[s].cmd \in Readers
  /\ Goes(s, [proc[s] EXCEPT !.pc = "select", !.names = Indexed])
  /\ UNCHANGED <<day, events, index, span, faults>>

\* selectLatestSession never takes the session of the command itself.
SelectLatestSession(s) ==
  LET others == proc[s].names \ {s} IN
  /\ At(s, "select") /\ proc[s].cmd # "telemetry"
  /\ IF Listable(proc[s].names) /\ others # {}
     THEN \E t \in Newest(others) :
            Goes(s, [proc[s] EXCEPT !.pc = IF proc[s].cmd = "export" THEN "export" ELSE "report",
                                    !.target = t, !.latest = index[t], !.names = {}])
     ELSE Goes(s, Throw(proc[s]))
  /\ UNCHANGED <<day, events, index, span, faults>>

\* History: who reads the events of t meets them while they are being written.
CutFor(t, reader) == IF At(t, "write") THEN {reader} ELSE {}

\* buildDebugReport: the events behind the index that was selected.  With a
\* bundle the report comes before the export in debug, after it in trace export,
\* where the index is read again.
BuildDebugReport(s) ==
  LET t == proc[s].target
      log == LoadTraceEvents(t)
  IN
  /\ At(s, "report")
  /\ IF log = Torn \/ (proc[s].cmd = "export" /\ index[t] \in {Missing, Torn})
     THEN Goes(s, Throw(proc[s]))
     ELSE LET p == [proc[s] EXCEPT !.report = log, !.cut = @ \cup CutFor(t, "report")] IN
          CASE proc[s].cmd = "bundle" -> Goes(s, [p EXCEPT !.pc = "export"])
            [] proc[s].cmd = "export" -> Goes(s, Finish(p, <<"exported">>, TRUE))
            [] OTHER -> Goes(s, Finish(p, <<>>, TRUE))
  /\ UNCHANGED <<day, events, index, span, faults>>

\* Mutant: as many events as the index counted when the session was selected.
ExportsCounted(s) ==
  LET t == proc[s].target
      log == LoadTraceEvents(t)
      p == [proc[s] EXCEPT !.exported = SubSeq(log, 1, proc[s].latest.count),
                           !.live = Running(t), !.cut = @ \cup CutFor(t, "export")]
  IN
  /\ At(s, "export")
  /\ IF log = Torn \/ Len(log) < proc[s].latest.count \/ (proc[s].cmd = "bundle" /\ index[t] = Missing)
     THEN Goes(s, Throw(proc[s]))
     ELSE Goes(s, IF proc[s].cmd = "bundle" THEN Finish(p, <<"exported", "exported">>, TRUE)
                  ELSE Emit(p, <<"exported">>, "report"))
  /\ UNCHANGED <<day, events, index, span, faults>>

\* exportTrace: the events that are scanned and redacted.
ExportTrace(s) ==
  LET t == proc[s].target
      log == LoadTraceEvents(t)
      p == [proc[s] EXCEPT !.exported = log, !.live = Running(t),
                           !.cut = @ \cup CutFor(t, "export")]
  IN
  /\ At(s, "export")
  /\ IF log = Torn \/ (proc[s].cmd = "bundle" /\ index[t] = Missing)
     THEN Goes(s, Throw(proc[s]))
     ELSE Goes(s, IF proc[s].cmd = "bundle" THEN Finish(p, <<"exported", "exported">>, TRUE)
                  ELSE Emit(p, <<"exported">>, "report"))
  /\ UNCHANGED <<day, events, index, span, faults>>

\* buildTelemetrySummary reads every index and every session's events.
BuildTelemetrySummary(s) ==
  /\ At(s, "select") /\ proc[s].cmd = "telemetry"
  /\ IF Listable(proc[s].names) /\ \A t \in proc[s].names : LoadTraceEvents(t) # Torn
     THEN Goes(s, Finish(proc[s], <<>>, TRUE))
     ELSE Goes(s, Throw(proc[s]))
  /\ UNCHANGED <<day, events, index, span, faults>>

-----------------------------------------------------------------------------
(***************************************************************************)
(* pruneTraceStore, after session.finished.                                *)
(***************************************************************************)
\* The first max_sessions when the newest comes first, whichever of a day come first.
KeptByCount(names) ==
  {kept \in SUBSET names :
     /\ Cardinality(kept) <= MaxSessions
     /\ kept = names \/ Cardinality(kept) = MaxSessions
     /\ \A t \in kept, u \in names \ kept : index[u].day <= index[t].day}

\* Mutant: off by one day.
IsYounger(i, now) == i.count > 0 /\ i.day + MaxDays > now

IsWithinAge(i, now) == i.count > 0 /\ i.day + MaxDays >= now

Outdated(names, now) == {t \in names : ~IsWithinAge(index[t], now)}

\* Mutant: the event file of today is removed.
ExpiresToday(s, names, now) ==
  {{[session |-> t, day |-> now] : t \in Outdated(names \ {s}, now) \ kept} :
     kept \in KeptByCount(names \ {s})}

\* Mutant: the oldest are passed over.
PassesOldest(s, names, now) ==
  {{[session |-> t, day |-> index[t].day] :
      t \in {u \in Outdated(names \ {s}, now) \ kept :
               \E v \in Outdated(names \ {s}, now) \ kept : index[v].day < index[u].day}} :
     kept \in KeptByCount(names \ {s})}

\* The sessions to remove with the day of their event file; the command's own is
\* skipped.
Expired(s, names, now) ==
  {{[session |-> t, day |-> index[t].day] : t \in Outdated(names \ {s}, now) \ kept} :
     kept \in KeptByCount(names \ {s})}

\* Whatever the prune throws is dropped: the command has ended.
PruneStops(s) == Goes(s, [Idle EXCEPT !.pc = "done", !.ok = proc[s].ok])

PruneList(s) ==
  /\ At(s, "prune")
  /\ Goes(s, [proc[s] EXCEPT !.pc = "prune-read", !.names = Indexed, !.now = day])
  /\ UNCHANGED <<day, events, index, span, faults>>

PruneRead(s) ==
  /\ At(s, "prune-read")
  /\ IF Listable(proc[s].names)
     THEN \E victims \in Expired(s, proc[s].names, proc[s].now) :
            Goes(s, [proc[s] EXCEPT !.pc = "prune-index", !.victims = victims])
     ELSE PruneStops(s)
  /\ UNCHANGED <<day, events, index, span, faults>>

\* safeDeleteFile: a file that is gone is passed over, or, when another process
\* removes it after it was found, unlink throws.
PruneIndex(s) ==
  /\ At(s, "prune-index")
  /\ \E v \in proc[s].victims :
       /\ \A w \in proc[s].victims : w.day <= v.day
       /\ \/ /\ index' = [index EXCEPT ![v.session] = Missing]
             /\ Goes(s, [proc[s] EXCEPT !.pc = "prune-events", !.victim = v])
          \/ /\ index[v.session] = Missing
             /\ PruneStops(s)
             /\ UNCHANGED index
  /\ UNCHANGED <<day, events, span, faults>>

PruneEvents(s) ==
  LET v == proc[s].victim IN
  /\ At(s, "prune-events")
  /\ \/ /\ events' = [events EXCEPT ![v.session][v.day] = Missing]
        /\ Goes(s, [proc[s] EXCEPT !.pc = "prune-index", !.victims = @ \ {v},
                                   !.victim = Missing])
     \/ /\ events[v.session][v.day] = Missing
        /\ PruneStops(s)
        /\ UNCHANGED events
  /\ UNCHANGED <<day, index, span, faults>>

\* The retention state is written.
PruneDone(s) ==
  /\ At(s, "prune-index") /\ proc[s].victims = {}
  /\ PruneStops(s)
  /\ UNCHANGED <<day, events, index, span, faults>>

-----------------------------------------------------------------------------
\* A crash leaves the file that is being written as it is by then.
Crash(s) ==
  /\ Running(s) /\ faults < MaxFaults
  /\ faults' = faults + 1
  /\ Goes(s, [Idle EXCEPT !.pc = "crashed"])
  /\ UNCHANGED <<day, events, index, span>>

\* A command is over before the policy could expire it.
NextDay ==
  /\ day < LastDay
  /\ \A s \in Sessions : Running(s) /\ span[s].first # 0 => span[s].first + MaxDays > day
  /\ day' = day + 1
  /\ UNCHANGED <<events, index, proc, span, faults>>

Step(s) ==
  \/ TruncateEvents(s) \/ WritePart(s) \/ WriteEvents(s) \/ TruncateIndex(s) \/ WriteIndex(s)
  \/ RunCommand(s) \/ ListIndexes(s) \/ SelectLatestSession(s)
  \/ BuildDebugReport(s) \/ ExportTrace(s) \/ BuildTelemetrySummary(s)
  \/ PruneList(s) \/ PruneRead(s) \/ PruneIndex(s) \/ PruneEvents(s) \/ PruneDone(s)

Next ==
  \/ \E s \in Sessions : StartCommand(s) \/ Step(s) \/ Crash(s)
  \/ NextDay

Spec == Init /\ [][Next]_vars

-----------------------------------------------------------------------------
(***************************************************************************)
(* Properties.                                                             *)
(***************************************************************************)
\* Days, files and processes have the shape the actions rely on.
TypeOK ==
  /\ day \in Days /\ faults \in 0 .. MaxFaults
  /\ \A s \in Sessions :
       /\ \A d \in Days : events[s][d] \in {Missing, Torn} \/ events[s][d] \in Logs
       /\ index[s] \in {Missing, Torn} \/ index[s] \in Index
       /\ span[s].first <= span[s].last /\ span[s].last <= day
       /\ proc[s].todo \in Logs /\ proc[s].held \in Logs /\ proc[s].names \subseteq Sessions

CrossedMidnight(s) == span[s].first # span[s].last

\* An append of s, or a prune of s by another process, is under way.
Appending(s) == proc[s].pc \in {"write", "truncate", "index"}
BeingPruned(s) == \E t \in Sessions : At(t, "prune-events") /\ proc[t].victim.session = s

\* An index tells of exactly the events in the file it names, whoever appended,
\* pruned or crashed before: what debug, trace export and telemetry take from the
\* index agrees with what they read in the file.
IndexMatchesEvents ==
  \A s \in Sessions :
    index[s] \notin {Missing, Torn} /\ ~Appending(s) /\ ~At(s, "crashed") =>
      index[s] = BuildSessionIndex(ParseJsonLines(events[s][index[s].day]), index[s].day)

\* No event file is left that no index leads to, except the earlier files of a
\* session that ran past midnight and what a crash left behind.
NoLostEventFile ==
  (\A t \in Sessions : ~At(t, "crashed")) =>
    \A s \in Sessions, d \in Days :
      events[s][d] # Missing /\ ~Appending(s) /\ ~BeingPruned(s) =>
        \/ index[s] \notin {Missing, Torn} /\ index[s].day = d
        \/ d < span[s].last

\* The prune removes no session that started within the last max_days, and none
\* while fewer than max_sessions others are as recent: not even when other sessions
\* start, finish, crash or prune in between, or the session's index was rewritten
\* for another day.
PruneKeepsRecent ==
  [][\A s \in Sessions :
       \/ index[s] # Missing /\ index'[s] = Missing
       \/ \E d \in Days : events[s][d] # Missing /\ events'[s][d] = Missing
       => /\ span[s].first + MaxDays < day
          /\ Cardinality({t \in Sessions \ {s} : span[t].last >= span[s].first}) >= MaxSessions]_vars

\* When a prune writes its retention state, the sessions it listed that outlived
\* the policy are gone: at most max_sessions of them are left besides the recent ones.
PruneIsThorough ==
  [][\A s \in Sessions :
       At(s, "prune-index") /\ PruneDone(s) =>
         Cardinality({t \in proc[s].names \ {s} :
                        index[t] \notin {Missing, Torn} /\ ~IsWithinAge(index[t], proc[s].now)
                        /\ ~CrossedMidnight(t)}) <= MaxSessions]_vars

\* A debug report names a failure when the index it was selected by says the session
\* had one, unless it was made of a file the session was just writing.  (A session that
\* is removed, crashes or runs past midnight while the report is made has another file.)
ReportNamesFailure ==
  \A s \in Sessions :
    LET p == proc[s] IN
    /\ p.report # Missing /\ "report" \notin p.cut /\ index[p.target] # Missing
    /\ ~CrossedMidnight(p.target) /\ ~At(p.target, "crashed")
    => (p.latest.failed => Fails(p.report)) /\ p.latest.count <= Len(p.report)

\* Every event in the debug report of a bundle was scanned by the export that says
\* whether the bundle may be shared: in debug --bundle unless the session was just
\* writing what the export read, in trace export only when the session had ended.  (A
\* session that is removed, crashes or runs past midnight in between is another file.)
BundleWasScanned ==
  \A s \in Sessions :
    LET p == proc[s] IN
    /\ p.report # Missing /\ p.exported # Missing /\ index[p.target] # Missing
    /\ IF p.cmd = "bundle" THEN "export" \notin p.cut ELSE ~p.live
    /\ ~CrossedMidnight(p.target) /\ ~At(p.target, "crashed")
    => Len(p.report) <= Len(p.exported)
=============================================================================
