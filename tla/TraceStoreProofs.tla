-------------------------- MODULE TraceStoreProofs --------------------------
(***************************************************************************)
(* The trace store, for every number of sessions and days, every retention *)
(* policy and any overlap of sessions: what an index tells is in the file  *)
(* it names, a prune removes nothing recent and nothing of a session that  *)
(* is not over, and what a reader reports was in the file.                 *)
(***************************************************************************)
EXTENDS TraceStore, FiniteSetTheorems, TLAPS

Commands == {"pass", "block", "throw", "debug", "bundle", "export", "telemetry"}
Pcs == {"ready", "append", "write", "truncate", "index", "body", "select", "report", "export",
        "prune", "prune-read", "prune-index", "prune-events", "done", "crashed"}
Victims == [session : Sessions, day : Days]
Processes ==
  [pc : Pcs, cmd : Commands, ok : BOOLEAN, todo : Logs, held : Logs,
   then : {"ready", "body", "report", "prune"}, names : SUBSET Sessions, now : Nat,
   cut : SUBSET {"report", "export"},
   victims : SUBSET Victims, victim : Victims \cup {Missing},
   target : Sessions \cup {Missing}, latest : Index \cup {Missing}, live : BOOLEAN,
   report : Logs \cup {Missing}, exported : Logs \cup {Missing}]

Typing ==
  /\ day \in Days /\ faults \in 0 .. MaxFaults
  /\ events \in [Sessions -> [Days -> Logs \cup {Missing, Torn}]]
  /\ index \in [Sessions -> Index \cup {Missing, Torn}]
  /\ span \in [Sessions -> [first : Nat, last : Nat]]
  /\ proc \in [Sessions -> Processes]

Over(s) == proc[s].pc \in {"done", "crashed"}
Listed(s) == index[s] \notin {Missing, Torn}
Pending(s) == proc[s].pc \in {"append", "write", "truncate", "index"}
\* The file of the last day of a session.
File(s) == ParseJsonLines(events[s][span[s].last])
\* The events of a day: what is being written, or the file.
LogOn(s, d) ==
  IF At(s, "write") /\ d = span[s].last THEN proc[s].held ELSE ParseJsonLines(events[s][d])

\* What a process knows at its place in the program.
Shape(s) ==
  LET p == proc[s] IN
  /\ Pending(s) => p.todo # <<>> /\ p.then \in {"body", "report", "prune"}
  /\ p.pc \in {"report", "export"} \/ (Pending(s) /\ p.then = "report")
       => p.target \in Sessions /\ p.latest \in Index
  /\ p.pc = "prune-events" => p.victim \in p.victims
  /\ p.pc \notin {"prune-index", "prune-events"} => p.victims = {}
  /\ p.pc \in {"prune-read", "prune-index", "prune-events"} => p.now <= day

\* The index and the event files of a session, at each place of its process.
Filed(s) ==
  /\ span[s].first <= span[s].last /\ span[s].last <= day
  /\ span[s].first = 0 => span[s].last = 0 /\ index[s] = Missing
  /\ At(s, "ready") => span[s].first = 0
  /\ Running(s) /\ span[s].first # 0 => day <= span[s].first + MaxDays
  /\ Appending(s) => span[s].last \in Days
  /\ At(s, "write") => LET file == events[s][span[s].last] IN
                       /\ proc[s].held # <<>> /\ file # Missing
                       /\ file = Torn \/ Len(file) <= Len(proc[s].held)
  /\ At(s, "truncate") \/ At(s, "index") => events[s][span[s].last] \in Logs \ {<<>>}
  /\ At(s, "index") => index[s] = Torn
  /\ index[s] = Torn => proc[s].pc \in {"index", "crashed"}
  /\ index[s] = Missing /\ span[s].first # 0 => At(s, "write") \/ At(s, "truncate") \/ Over(s)
  /\ Listed(s) => /\ span[s].first <= index[s].day /\ index[s].day <= span[s].last
                  /\ index[s].count > 0
  /\ ~At(s, "crashed") =>
       \A d \in Days : /\ events[s][d] = Torn => At(s, "write") /\ d = span[s].last
                       /\ events[s][d] # Missing => d <= span[s].last
  /\ Listed(s) /\ ~At(s, "crashed") =>
       IF At(s, "write") \/ At(s, "truncate")
       THEN LET log == LogOn(s, index[s].day) IN
            index[s].count <= Len(log) /\ (index[s].failed => Fails(log))
       ELSE index[s] = BuildSessionIndex(File(s), span[s].last)

\* A session that a prune may remove, by the policy and by what else is there.
Recent(t) == {u \in Sessions \ {t} : span[u].last >= span[t].first}
Outlived(v) ==
  LET t == v.session IN
  /\ Over(t) /\ span[t].first # 0
  /\ span[t].first + MaxDays < day
  /\ Cardinality(Recent(t)) >= MaxSessions
  /\ ~At(t, "crashed") => v.day = span[t].last

Pruning(s) ==
  /\ \A v \in proc[s].victims : Outlived(v)
  /\ At(s, "prune-events") => index[proc[s].victim.session] = Missing

TraceInv == Typing /\ \A s \in Sessions : Shape(s) /\ Filed(s) /\ Pruning(s)

-----------------------------------------------------------------------------
(***************************************************************************)
(* Logs, indexes and processes.                                            *)
(***************************************************************************)

LEMMA Sentinels ==
  /\ Missing # Torn
  /\ Missing \notin Logs /\ Torn \notin Logs
  /\ Missing \notin Index /\ Torn \notin Index
  /\ <<>> \in Logs
BY EventAssumption DEF Logs

LEMMA ParseType ==
  ASSUME NEW file \in Logs \cup {Missing, Torn}, file # Torn
  PROVE  /\ ParseJsonLines(file) \in Logs
         /\ file # Missing => ParseJsonLines(file) = file
BY Sentinels DEF ParseJsonLines

LEMMA LogLength == \A log \in Logs : Len(log) \in Nat /\ (Fails(log) \in BOOLEAN)
BY DEF Logs, Fails

LEMMA Appended ==
  ASSUME NEW log \in Logs, NEW outcome \in Outcomes
  PROVE  /\ Append(log, outcome) \in Logs \ {<<>>}
         /\ Len(log) < Len(Append(log, outcome))
         /\ Fails(log) => Fails(Append(log, outcome))
BY DEF Logs, Outcomes, Fails

LEMMA Parts ==
  ASSUME NEW log \in Logs
  PROVE  /\ log # <<>> => Head(log) \in Outcomes /\ Tail(log) \in Logs /\ Len(log) > 0
         /\ \A n \in 0 .. Len(log) : SubSeq(log, 1, n) \in Logs
         /\ \A more \in Logs \ {<<>>} : log \o more \in Logs \ {<<>>}
<1>1. \A n \in 0 .. Len(log) : SubSeq(log, 1, n) \in Logs
  BY DEF Logs
<1>2. ASSUME NEW more \in Logs \ {<<>>} PROVE log \o more \in Logs \ {<<>>}
  <2>1. log \o more \in Logs
    BY DEF Logs
  <2>2. Len(log \o more) > 0
    BY DEF Logs
  <2> QED BY <2>1, <2>2
<1>3. log # <<>> => Head(log) \in Outcomes /\ Tail(log) \in Logs /\ Len(log) > 0
  BY DEF Logs, Outcomes
<1> QED BY <1>1, <1>2, <1>3

LEMMA IndexType ==
  ASSUME NEW log \in Logs, NEW d \in Days
  PROVE  /\ BuildSessionIndex(log, d) \in Index
         /\ BuildSessionIndex(log, d).day = d
         /\ BuildSessionIndex(log, d).count = Len(log)
         /\ BuildSessionIndex(log, d).failed = Fails(log)
<1>1. (IF log = <<>> THEN Missing ELSE log[Len(log)]) \in Outcomes \cup {Missing}
  BY DEF Logs
<1> QED BY <1>1, LogLength DEF BuildSessionIndex, Index

LEMMA IdleType ==
  /\ Idle \in Processes
  /\ Idle.victims = {} /\ Idle.target = Missing /\ Idle.latest = Missing
  /\ Idle.report = Missing /\ Idle.exported = Missing /\ Idle.cut = {}
BY Sentinels DEF Idle, Processes, Pcs, Commands

LEMMA EmitType ==
  ASSUME NEW p \in Processes, NEW outcomes \in Logs, NEW then \in {"body", "report", "prune"}
  PROVE  LET q == Emit(p, outcomes, then) IN
         /\ q \in Processes /\ q.pc = "append" /\ q.then = then /\ q.todo = outcomes
         /\ q.victims = p.victims /\ q.names = p.names
         /\ q.cmd = p.cmd /\ q.target = p.target /\ q.latest = p.latest /\ q.live = p.live
         /\ q.cut = p.cut /\ q.report = p.report /\ q.exported = p.exported
BY ZenonT(60) DEF Emit, Processes, Pcs

\* A command that finishes emits at least one event before its prune.
LEMMA FinishType ==
  ASSUME NEW p \in Processes, NEW outcomes \in Logs, NEW ok \in BOOLEAN
  PROVE  LET q == Finish(p, outcomes, ok) IN
         /\ q \in Processes /\ q.pc = "append" /\ q.then = "prune" /\ q.todo # <<>>
         /\ q.victims = p.victims /\ q.names = {}
         /\ q.cmd = p.cmd /\ q.target = p.target /\ q.latest = p.latest /\ q.live = p.live
         /\ q.cut = p.cut /\ q.report = p.report /\ q.exported = p.exported
<1>1. outcomes \o FinishEvents[ok] \in Logs \ {<<>>}
  BY Parts, EventAssumption
<1>2. [p EXCEPT !.ok = ok, !.names = {}] \in Processes
  BY DEF Processes
<1> DEFINE q == [p EXCEPT !.ok = ok, !.names = {}]
           todo == outcomes \o FinishEvents[ok]
           r == Emit(q, todo, "prune")
<1>3. Finish(p, outcomes, ok) = r
  BY DEF Finish
<1>4. /\ q.victims = p.victims /\ q.names = {}
      /\ q.cmd = p.cmd /\ q.target = p.target /\ q.latest = p.latest /\ q.live = p.live
      /\ q.cut = p.cut /\ q.report = p.report /\ q.exported = p.exported
  BY DEF Processes
<1>5. q \in Processes /\ todo \in Logs \ {<<>>}
  BY <1>1, <1>2
<1> HIDE DEF q, todo
<1>6. /\ r \in Processes /\ r.pc = "append" /\ r.then = "prune" /\ r.todo = todo
      /\ r.victims = q.victims /\ r.names = q.names
  BY <1>5, EmitType
<1>7. /\ r.cmd = q.cmd /\ r.target = q.target /\ r.latest = q.latest /\ r.live = q.live
      /\ r.cut = q.cut /\ r.report = q.report /\ r.exported = q.exported
  BY <1>5, EmitType
<1> HIDE DEF r
<1> QED BY <1>3, <1>4, <1>5, <1>6, <1>7

LEMMA ThrowType ==
  ASSUME NEW p \in Processes
  PROVE  LET q == Throw(p) IN
         /\ q \in Processes /\ q.pc = "append" /\ q.then = "prune" /\ q.todo # <<>>
         /\ q.victims = p.victims /\ q.names = {}
         /\ q.cmd = p.cmd /\ q.target = p.target /\ q.latest = p.latest /\ q.live = p.live
         /\ q.cut = p.cut /\ q.report = p.report /\ q.exported = p.exported
<1>1. <<"failed">> \in Logs
  BY DEF Logs, Outcomes, Failures
<1> QED BY <1>1, FinishType DEF Throw

-----------------------------------------------------------------------------
(***************************************************************************)
(* What no step of another disturbs.                                       *)
(***************************************************************************)

LEMMA FiniteSessions == IsFiniteSet(Sessions) /\ \A S \in SUBSET Sessions : IsFiniteSet(S)
<1>1. IsFiniteSet(Sessions)
  BY FS_Interval, PolicyAssumption DEF Sessions
<1> QED BY <1>1, FS_Subset

\* A session that outlived the policy does so from then on.
LEMMA StaysOutlived ==
  ASSUME Typing, Typing', NEW v \in Victims, Outlived(v), day <= day',
         \A u \in Sessions : span[u].last <= span'[u].last,
         span'[v.session] = span[v.session], proc'[v.session] = proc[v.session]
  PROVE  Outlived(v)'
<1> DEFINE t == v.session
<1>1. t \in Sessions
  BY DEF Victims
<1>2. Recent(t) \subseteq Recent(t)'
  BY <1>1 DEF Recent, Typing
<1>3. IsFiniteSet(Recent(t)')
  BY FiniteSessions DEF Recent
<1>4. /\ Cardinality(Recent(t)) <= Cardinality(Recent(t)')
      /\ Cardinality(Recent(t)) \in Nat /\ Cardinality(Recent(t)') \in Nat
  BY <1>2, <1>3, FS_Subset, FS_CardinalityType
<1>5. Cardinality(Recent(t)') >= MaxSessions
  <2> HIDE DEF Recent
  <2>1. Cardinality(Recent(t)) >= MaxSessions
    BY DEF Outlived
  <2> QED BY <1>4, <2>1, PolicyAssumption
<1>6. span[t].first + MaxDays < day'
  <2>1. span[t].first \in Nat
    BY <1>1 DEF Typing
  <2> QED BY <2>1, PolicyAssumption DEF Outlived, Typing, Days
<1> QED BY <1>1, <1>5, <1>6 DEF Outlived, Over, At

\* A session whose process, span and files are left alone.
LEMMA LeftAlone ==
  ASSUME NEW u \in Sessions, Shape(u), Filed(u), day' = day,
         events'[u] = events[u], index'[u] = index[u], span'[u] = span[u], proc'[u] = proc[u]
  PROVE  Shape(u)' /\ Filed(u)'
BY DEF Shape, Filed, Pending, At, Running, Appending, Listed, Over, File, LogOn

\* A step of a session that is not over; of another it removes an index at most.
LEMMA SessionStep ==
  ASSUME TraceInv, Typing', NEW s \in Sessions, ~Over(s), day' = day,
         \A u \in Sessions \ {s} : /\ proc'[u] = proc[u] /\ span'[u] = span[u]
                                   /\ index'[u] \in {index[u], Missing},
         span[s].last <= span'[s].last,
         Shape(s)', \A u \in Sessions : Filed(u)',
         \A v \in proc'[s].victims : Outlived(v),
         proc'[s].pc = "prune-events" => index'[proc'[s].victim.session] = Missing
  PROVE  TraceInv'
<1>1. ASSUME NEW u \in Sessions \ {s} PROVE Shape(u)'
  BY <1>1 DEF TraceInv, Shape, Pending
<1>2. ASSUME NEW u \in Sessions PROVE span[u].last <= span'[u].last
  <2>1. span[u].last \in Nat
    BY DEF TraceInv, Typing
  <2> QED BY <2>1
<1>3. ASSUME NEW v \in Victims, Outlived(v) PROVE Outlived(v)'
  <2>1. v.session \in Sessions \ {s}
    BY <1>3 DEF Victims, Outlived, Over
  <2> QED BY <1>2, <1>3, <2>1, StaysOutlived DEF TraceInv, Typing, Days
<1>4. ASSUME NEW u \in Sessions PROVE Pruning(u)'
  <2>1. proc'[u].victims \subseteq Victims
    BY DEF Typing, Processes
  <2>2. \A v \in proc'[u].victims : Outlived(v)
    BY DEF TraceInv, Pruning
  <2>3. \A v \in proc'[u].victims : Outlived(v)'
    BY <1>3, <2>1, <2>2
  <2>4. At(u, "prune-events")' => index'[proc'[u].victim.session] = Missing
    <3> SUFFICES ASSUME u # s, At(u, "prune-events")'
                 PROVE  index'[proc'[u].victim.session] = Missing
      BY DEF At
    <3>1. proc'[u] = proc[u]
      OBVIOUS
    <3>2. /\ proc[u].victim \in proc[u].victims
          /\ index[proc[u].victim.session] = Missing
      BY <3>1 DEF TraceInv, Shape, Pruning, At
    <3>3. proc[u].victim.session \in Sessions \ {s}
      BY <2>1, <2>2, <3>1, <3>2 DEF Victims, Outlived, Over
    <3> QED BY <3>1, <3>2, <3>3
  <2> QED BY <2>3, <2>4 DEF Pruning
<1> QED BY <1>1, <1>4 DEF TraceInv

\* The same of a step that leaves the files of the others alone.
LEMMA OwnStep ==
  ASSUME TraceInv, Typing', NEW s \in Sessions, ~Over(s), day' = day,
         \A u \in Sessions \ {s} : /\ events'[u] = events[u] /\ index'[u] = index[u]
                                   /\ span'[u] = span[u] /\ proc'[u] = proc[u],
         span[s].last <= span'[s].last,
         Shape(s)', Filed(s)',
         proc'[s].pc # "prune-events", \A v \in proc'[s].victims : Outlived(v)
  PROVE  TraceInv'
<1>1. \A u \in Sessions : Filed(u)'
  BY LeftAlone DEF TraceInv
<1> QED BY <1>1, SessionStep

\* A step that changes nothing but the process of its session.
Quietly(s, p) ==
  /\ proc' = [proc EXCEPT ![s] = p]
  /\ UNCHANGED <<day, events, index, span, faults>>

\* What such a step must leave its session with.
Sound(p) ==
  /\ p \in Processes
  /\ p.pc \notin {"ready", "write", "truncate", "index", "crashed", "prune-events"}
  /\ p.pc = "append" => p.todo # <<>> /\ p.then \in {"body", "report", "prune"}
  /\ p.pc \in {"report", "export"} \/ (p.pc = "append" /\ p.then = "report")
       => p.target \in Sessions /\ p.latest \in Index
  /\ p.pc # "prune-index" => p.victims = {}
  /\ p.pc \in {"prune-read", "prune-index"} => p.now <= day

LEMMA QuietStep ==
  ASSUME TraceInv, NEW s \in Sessions, NEW p, Sound(p), Quietly(s, p),
         proc[s].pc \notin {"write", "truncate", "index", "done", "crashed"},
         \A v \in p.victims : Outlived(v)
  PROVE  TraceInv'
<1>1. Typing'
  BY DEF TraceInv, Typing, Quietly, Sound
<1>2. proc'[s] = p /\ \A u \in Sessions \ {s} : proc'[u] = proc[u]
  BY DEF TraceInv, Typing, Quietly
<1>3. Shape(s)'
  BY <1>2 DEF Sound, Shape, Quietly, Pending
<1>4. Filed(s)'
  <2>1. Filed(s)
    BY DEF TraceInv
  <2> QED BY <1>2, <2>1 DEF Sound, Filed, Quietly, At, Running, Appending, Listed, Over, File
<1>5. span[s].last <= span'[s].last
  BY DEF TraceInv, Typing, Quietly
<1> QED BY <1>1, <1>2, <1>3, <1>4, <1>5, OwnStep DEF Quietly, Over, Sound

-----------------------------------------------------------------------------
(***************************************************************************)
(* The steps that write, remove or crash.                                  *)
(***************************************************************************)

LEMMA StoreInit == Init => TraceInv
<1> SUFFICES ASSUME Init PROVE TraceInv
  OBVIOUS
<1>1. Typing
  <2>1. 1 \in Days /\ 0 \in 0 .. MaxFaults
    BY TraceBoundAssumption DEF Days
  <2>2. proc \in [Sessions -> Processes] /\ span \in [Sessions -> [first : Nat, last : Nat]]
    BY IdleType DEF Init
  <2>3. /\ events \in [Sessions -> [Days -> Logs \cup {Missing, Torn}]]
        /\ index \in [Sessions -> Index \cup {Missing, Torn}]
    BY DEF Init
  <2> QED BY <2>1, <2>2, <2>3 DEF Init, Typing
<1>2. ASSUME NEW s \in Sessions PROVE Shape(s) /\ Filed(s) /\ Pruning(s)
  BY Sentinels, TraceBoundAssumption
     DEF Init, Idle, Shape, Filed, Pruning, Pending, At, Running, Appending, Listed, Over, Days
<1> QED BY <1>1, <1>2 DEF TraceInv

\* At a step that neither writes nor follows a write the file of a day is its log.
LEMMA FileOfDay ==
  ASSUME TraceInv, NEW s \in Sessions, ~At(s, "write"), ~At(s, "crashed"), NEW d \in Days
  PROVE  /\ events[s][d] \in Logs \cup {Missing, Torn} /\ events[s][d] # Torn
         /\ ParseJsonLines(events[s][d]) \in Logs
         /\ LogOn(s, d) = ParseJsonLines(events[s][d])
<1>1. events[s][d] \in Logs \cup {Missing, Torn} /\ events[s][d] # Torn
  BY DEF TraceInv, Typing, Filed
<1> QED BY <1>1, ParseType DEF LogOn

LEMMA TruncateEventsStep ==
  ASSUME TraceInv, NEW s \in Sessions, TruncateEvents(s)
  PROVE  TraceInv'
<1> DEFINE log == ParseJsonLines(events[s][day])
           new == Append(log, Head(proc[s].todo))
<1>1. /\ At(s, "append") /\ proc[s] \in Processes /\ Shape(s) /\ Filed(s)
      /\ day \in Days /\ Typing
  BY DEF TruncateEvents, TraceInv, Typing
<1>2. proc[s].todo \in Logs \ {<<>>}
  BY <1>1 DEF Shape, Pending, At, Processes
<1>3. ~At(s, "write") /\ ~At(s, "crashed")
  BY <1>1 DEF At
<1>4. log \in Logs
  BY <1>1, <1>3, FileOfDay
<1>5. /\ new \in Logs \ {<<>>} /\ Len(log) < Len(new)
      /\ Fails(log) => Fails(new)
  BY <1>2, <1>4, Appended, Parts
<1> DEFINE lasting == [first |-> IF span[s].first = 0 THEN day ELSE span[s].first, last |-> day]
           p == [proc[s] EXCEPT !.pc = "write", !.held = new]
<1>6. /\ events' = [events EXCEPT ![s][day] = <<>>]
      /\ span' = [span EXCEPT ![s] = lasting]
      /\ proc' = [proc EXCEPT ![s] = p]
      /\ day' = day /\ index' = index /\ faults' = faults
  BY DEF TruncateEvents, Goes
<1> HIDE DEF log, new
<1>7. lasting \in [first : Nat, last : Nat] /\ p \in Processes
  <2>1. span[s] \in [first : Nat, last : Nat] /\ day \in Nat
    BY <1>1 DEF Typing, Days
  <2>2. p \in Processes
    BY <1>1, <1>5 DEF Processes, Pcs
  <2> QED BY <2>1, <2>2
<1> HIDE DEF lasting, p
<1>8. Typing'
  BY <1>1, <1>6, <1>7, Sentinels DEF Typing
<1>9. /\ proc'[s] = p /\ span'[s] = lasting /\ index'[s] = index[s]
      /\ events'[s] = [events[s] EXCEPT ![day] = <<>>]
      /\ \A u \in Sessions \ {s} : /\ events'[u] = events[u] /\ index'[u] = index[u]
                                   /\ span'[u] = span[u] /\ proc'[u] = proc[u]
  BY <1>1, <1>6 DEF Typing
<1>10. Shape(s)'
  BY <1>1, <1>6, <1>9 DEF p, Shape, Pending, At, Processes
<1>11. /\ span[s].first \in Nat /\ span[s].last \in Nat /\ span[s].last <= day /\ day \in Nat
       /\ lasting.last = day
       /\ lasting.first = IF span[s].first = 0 THEN day ELSE span[s].first
       /\ day # 0
  BY <1>1 DEF Typing, Filed, Days, lasting
<1>12. /\ events'[s][day] = <<>>
       /\ \A d \in Days \ {day} : events'[s][d] = events[s][d]
  BY <1>1, <1>9 DEF Typing
<1>13. p.pc = "write" /\ p.held = new
  BY <1>1 DEF p, Processes
<1>14. Filed(s)'
  <2>1. /\ span'[s].first <= span'[s].last /\ span'[s].last <= day'
        /\ span'[s].first # 0
        /\ span'[s].first # 0 => day' <= span'[s].first + MaxDays
    BY <1>1, <1>6, <1>9, <1>11, PolicyAssumption DEF Filed, Running, At
  <2>2. /\ span'[s].last \in Days
        /\ proc'[s].held # <<>> /\ events'[s][span'[s].last] # Missing
        /\ Len(events'[s][span'[s].last]) <= Len(proc'[s].held)
    <3>1. Len(<<>>) = 0 /\ Len(new) \in Nat
      BY <1>5, LogLength
    <3> QED BY <3>1, <1>1, <1>5, <1>9, <1>11, <1>12, <1>13, Sentinels
  <2>3. index'[s] # Torn
    BY <1>1, <1>9 DEF Filed, At
  <2>4. \A d \in Days : /\ events'[s][d] # Torn
                        /\ events'[s][d] # Missing => d <= span'[s].last
    <3>1. \A d \in Days : /\ events[s][d] # Torn
                          /\ events[s][d] # Missing => d <= span[s].last
      BY <1>1 DEF Filed, At
    <3>2. <<>> # Torn
      BY Sentinels
    <3> QED BY <3>1, <3>2, <1>9, <1>11, <1>12 DEF Days
  <2>5. ASSUME Listed(s)'
        PROVE  /\ span'[s].first <= index'[s].day /\ index'[s].day <= span'[s].last
               /\ index'[s].count > 0
               /\ index'[s].count <= Len(LogOn(s, index[s].day)')
               /\ index'[s].failed => Fails(LogOn(s, index[s].day)')
    <3>1. /\ Listed(s) /\ span[s].first # 0
          /\ span[s].first <= index[s].day /\ index[s].day <= span[s].last
          /\ index[s].count > 0
          /\ index[s] = BuildSessionIndex(File(s), span[s].last)
      BY <1>1, <1>9, <2>5 DEF Filed, Listed, At
    <3>2. index[s] \in Index
      BY <1>1, <3>1 DEF Typing, Listed
    <3>3. /\ index[s].day = span[s].last /\ index[s].count = Len(File(s))
          /\ index[s].failed = Fails(File(s))
          /\ span[s].last \in Days
      BY <3>1, <3>2 DEF BuildSessionIndex, Index
    <3>4. CASE span[s].last = day
      <4>1. File(s) = log
        BY <3>4 DEF File, log
      <4>2. LogOn(s, index[s].day)' = new
        BY <1>9, <1>11, <1>13, <3>3, <3>4 DEF LogOn, At
      <4> QED BY <1>4, <1>5, <1>9, <1>11, <3>1, <3>3, <3>4, <4>1, <4>2, LogLength
    <3>5. CASE span[s].last # day
      <4>1. LogOn(s, index[s].day)' = File(s)
        BY <1>9, <1>11, <1>12, <3>3, <3>5 DEF LogOn, File
      <4>2. File(s) \in Logs
        BY <1>3, <3>3, FileOfDay DEF File
      <4> QED BY <1>9, <1>11, <3>1, <3>3, <4>1, <4>2, LogLength
    <3> QED BY <3>4, <3>5
  <2> QED BY <1>9, <1>13, <2>1, <2>2, <2>3, <2>4, <2>5
          DEF Filed, At, Running, Appending, Listed
<1>15. proc'[s].victims = {}
  BY <1>1, <1>9 DEF p, Shape, At, Processes
<1>16. ~Over(s)
  BY <1>1 DEF At, Over
<1>17. span[s].last <= span'[s].last
  BY <1>9, <1>11
<1> QED BY <1>6, <1>8, <1>9, <1>10, <1>13, <1>14, <1>15, <1>16, <1>17, OwnStep DEF TraceInv

LEMMA WritePartStep ==
  ASSUME TraceInv, NEW s \in Sessions, WritePart(s)
  PROVE  TraceInv'
<1> DEFINE last == span[s].last
<1>1. /\ At(s, "write") /\ proc[s] \in Processes /\ Shape(s) /\ Filed(s) /\ Typing
      /\ last \in Days
  BY DEF WritePart, TraceInv, Typing, Filed, Appending, At
<1>2. PICK file \in Logs \cup {Torn} :
        /\ events' = [events EXCEPT ![s][last] = file]
        /\ file = Torn \/ Len(file) <= Len(proc[s].held)
  <2> DEFINE log == proc[s].held
  <2>1. log \in Logs
    BY <1>1 DEF Processes
  <2>2. ASSUME NEW n \in 0 .. Len(log) - 1
        PROVE  SubSeq(log, 1, n) \in Logs /\ Len(SubSeq(log, 1, n)) <= Len(log)
    BY <2>1 DEF Logs
  <2>3. \A file \in Cuts(log) : file = Torn \/ (file \in Logs /\ Len(file) <= Len(log))
    BY <2>2 DEF Cuts
  <2> QED BY <2>3 DEF WritePart
<1>3. UNCHANGED <<day, index, proc, span, faults>>
  BY DEF WritePart
<1>4. events' = [events EXCEPT ![s][last] = file]
  BY <1>2
<1>5. Typing'
  BY <1>1, <1>3, <1>4 DEF Typing
<1>6. /\ \A u \in Sessions \ {s} : events'[u] = events[u]
      /\ events'[s][last] = file /\ \A d \in Days \ {last} : events'[s][d] = events[s][d]
  BY <1>1, <1>4 DEF Typing
<1>7. Shape(s)' /\ proc'[s].victims = {}
  BY <1>1, <1>3 DEF Shape, Pending, At
<1>8. Filed(s)'
  <2>1. ASSUME Listed(s) PROVE LogOn(s, index[s].day)' = LogOn(s, index[s].day)
    <3>1. index[s].day \in Days
      BY <1>1, <2>1 DEF Typing, Listed, Index
    <3> QED BY <1>1, <1>3, <1>6, <3>1 DEF LogOn, At
  <2>2. \A d \in Days : /\ events'[s][d] = Torn => d = last
                        /\ events'[s][d] # Missing => d <= last
    BY <1>1, <1>6 DEF Filed, At, Days
  <2>3. file # Missing
    BY Sentinels
  <2> HIDE DEF last
  <2> QED BY <1>1, <1>2, <1>3, <1>6, <2>1, <2>2, <2>3
          DEF Filed, At, Running, Appending, Listed, last
<1>9. ~Over(s) /\ last <= span'[s].last /\ proc'[s].pc # "prune-events"
  BY <1>1, <1>3 DEF At, Over, Days
<1> QED BY <1>3, <1>5, <1>6, <1>7, <1>8, <1>9, OwnStep

LEMMA WriteEventsStep ==
  ASSUME TraceInv, NEW s \in Sessions, WriteEvents(s)
  PROVE  TraceInv'
<1> DEFINE last == span[s].last
           log == proc[s].held
           p == [proc[s] EXCEPT !.pc = "truncate", !.held = <<>>]
<1>1. /\ At(s, "write") /\ proc[s] \in Processes /\ Shape(s) /\ Filed(s) /\ Typing
      /\ last \in Days
  BY DEF WriteEvents, TraceInv, Typing, Filed, Appending, At
<1>2. log \in Logs \ {<<>>}
  BY <1>1 DEF Filed, Processes
<1>3. /\ events' = [events EXCEPT ![s][last] = log]
      /\ proc' = [proc EXCEPT ![s] = p] /\ UNCHANGED <<day, index, span, faults>>
  BY DEF WriteEvents, Goes
<1>4. p \in Processes /\ p.pc = "truncate" /\ p.todo = proc[s].todo /\ p.then = proc[s].then
      /\ p.victims = proc[s].victims /\ p.target = proc[s].target /\ p.latest = proc[s].latest
  BY <1>1, Sentinels DEF Processes, Pcs
<1> HIDE DEF p
<1>5. Typing'
  BY <1>1, <1>2, <1>3, <1>4 DEF Typing
<1>6. /\ proc'[s] = p
      /\ \A u \in Sessions \ {s} : events'[u] = events[u] /\ proc'[u] = proc[u]
      /\ events'[s][last] = log /\ \A d \in Days \ {last} : events'[s][d] = events[s][d]
  BY <1>1, <1>3 DEF Typing
<1>7. Shape(s)' /\ proc'[s].victims = {}
  BY <1>1, <1>4, <1>6 DEF Shape, Pending, At
<1>8. Filed(s)'
  <2>1. ASSUME Listed(s) PROVE LogOn(s, index[s].day)' = LogOn(s, index[s].day)
    <3>1. index[s].day \in Days
      BY <1>1, <2>1 DEF Typing, Listed, Index
    <3>2. log # Missing
      BY <1>2, Sentinels
    <3> QED BY <1>1, <1>3, <1>4, <1>6, <3>1, <3>2 DEF LogOn, At, ParseJsonLines
  <2>2. \A d \in Days : /\ events'[s][d] # Torn
                        /\ events'[s][d] # Missing => d <= last
    BY <1>1, <1>2, <1>6, Sentinels DEF Filed, At, Days
  <2> HIDE DEF last, log
  <2> QED BY <1>1, <1>2, <1>3, <1>4, <1>6, <2>1, <2>2
          DEF Filed, At, Running, Appending, Listed, last, Over
<1>9. ~Over(s) /\ last <= span'[s].last
  BY <1>1, <1>3 DEF At, Over, Days
<1> QED BY <1>3, <1>4, <1>5, <1>6, <1>7, <1>8, <1>9, OwnStep

LEMMA TruncateStep ==
  ASSUME TraceInv, NEW s \in Sessions, TruncateIndex(s)
  PROVE  TraceInv'
<1> DEFINE p == [proc[s] EXCEPT !.pc = "index"]
<1>1. /\ At(s, "truncate") /\ proc[s] \in Processes /\ Shape(s) /\ Filed(s) /\ Typing
  BY DEF TruncateIndex, TraceInv, Typing
<1>2. /\ index' = [index EXCEPT ![s] = Torn] /\ proc' = [proc EXCEPT ![s] = p]
      /\ UNCHANGED <<day, events, span, faults>>
  BY DEF TruncateIndex, Goes
<1>3. p \in Processes /\ p.pc = "index"
  BY <1>1 DEF Processes, Pcs
<1>4. Typing'
  BY <1>1, <1>2, <1>3 DEF Typing
<1>5. /\ proc'[s] = p /\ index'[s] = Torn
      /\ \A u \in Sessions \ {s} : index'[u] = index[u] /\ proc'[u] = proc[u]
  BY <1>1, <1>2 DEF Typing
<1>6. Shape(s)' /\ proc'[s].victims = {}
  BY <1>1, <1>2, <1>5 DEF Shape, Pending, At, Processes
<1>7. Filed(s)'
  <2>1. span[s].first # 0
    <3>1. span[s].last \in Days
      BY <1>1 DEF Filed, Appending, At
    <3> QED BY <1>1, <3>1 DEF Filed, Days
  <2> HIDE DEF p
  <2> QED BY <1>1, <1>2, <1>3, <1>5, <2>1, Sentinels
          DEF Filed, At, Running, Appending, Listed
<1>8. ~Over(s) /\ span[s].last <= span'[s].last
  BY <1>1, <1>2 DEF At, Over, Typing
<1> HIDE DEF p
<1> QED BY <1>2, <1>3, <1>4, <1>5, <1>6, <1>7, <1>8, OwnStep

\* Where a process goes when its index is written.
LEMMA WritesOn ==
  ASSUME TraceInv, NEW s \in Sessions, WriteIndex(s)
  PROVE  /\ At(s, "index") /\ proc' = [proc EXCEPT ![s] = proc'[s]]
         /\ \/ /\ proc'[s] = [proc[s] EXCEPT !.todo = Tail(proc[s].todo), !.pc = "append"]
               /\ Tail(proc[s].todo) # <<>>
            \/ proc'[s] = [Idle EXCEPT !.ok = proc[s].ok, !.pc = "prune"]
            \/ /\ proc'[s] = [proc[s] EXCEPT !.todo = Tail(proc[s].todo), !.pc = proc[s].then]
               /\ proc[s].then \in {"body", "report"}
<1>1. Shape(s) /\ At(s, "index") /\ proc \in [Sessions -> Processes]
  BY DEF WriteIndex, TraceInv, Typing
<1>2. proc[s].then \in {"body", "report", "prune"}
  BY <1>1 DEF Shape, Pending, At
<1>3. proc' = [proc EXCEPT ![s] = proc'[s]]
  BY <1>1 DEF WriteIndex, Goes
<1>4. CASE Tail(proc[s].todo) # <<>>
  BY <1>1, <1>3, <1>4 DEF WriteIndex, Goes
<1>5. CASE Tail(proc[s].todo) = <<>> /\ proc[s].then = "prune"
  BY <1>1, <1>3, <1>5 DEF WriteIndex, Goes
<1>6. CASE Tail(proc[s].todo) = <<>> /\ proc[s].then # "prune"
  BY <1>1, <1>2, <1>3, <1>6 DEF WriteIndex, Goes
<1> QED BY <1>1, <1>3, <1>4, <1>5, <1>6

LEMMA WriteStep ==
  ASSUME TraceInv, NEW s \in Sessions, WriteIndex(s)
  PROVE  TraceInv'
<1> DEFINE d == span[s].last
           i == BuildSessionIndex(File(s), d)
<1>1. /\ At(s, "index") /\ proc[s] \in Processes /\ Shape(s) /\ Filed(s) /\ Typing
  BY DEF WriteIndex, TraceInv, Typing
<1>2. /\ index' = [index EXCEPT ![s] = i]
      /\ UNCHANGED <<day, events, span, faults>>
  BY DEF WriteIndex, File
<1>3. d \in Days /\ events[s][d] \in Logs \ {<<>>}
  BY <1>1 DEF Filed, Appending, At
<1>4. File(s) = events[s][d]
  BY <1>3, Sentinels DEF File, ParseJsonLines
<1>5. /\ i \in Index /\ i.day = d /\ i.count = Len(File(s)) /\ i.count > 0
      /\ i \notin {Missing, Torn}
  BY <1>3, <1>4, IndexType, Parts, Sentinels
<1> HIDE DEF i
<1>6. proc'[s] \in Processes /\ proc'[s].pc \in {"append", "prune", "body", "report"}
  <2>1. proc[s].todo \in Logs \ {<<>>}
    BY <1>1 DEF Shape, Pending, At, Processes
  <2>2. Tail(proc[s].todo) \in Logs
    BY <2>1, Parts
  <2>3. ASSUME NEW pc \in {"append", "body", "report"}
        PROVE  [proc[s] EXCEPT !.todo = Tail(proc[s].todo), !.pc = pc] \in Processes
    BY <1>1, <2>2 DEF Processes, Pcs
  <2>4. CASE /\ proc'[s] = [proc[s] EXCEPT !.todo = Tail(proc[s].todo), !.pc = "append"]
             /\ Tail(proc[s].todo) # <<>>
    BY ZenonT(60), <1>1, <2>3, <2>4 DEF Processes
  <2>5. CASE proc'[s] = [Idle EXCEPT !.ok = proc[s].ok, !.pc = "prune"]
    BY ZenonT(60), <1>1, <2>5, IdleType DEF Processes, Pcs
  <2>6. CASE /\ proc'[s] = [proc[s] EXCEPT !.todo = Tail(proc[s].todo), !.pc = proc[s].then]
             /\ proc[s].then \in {"body", "report"}
    BY ZenonT(60), <1>1, <2>3, <2>6 DEF Processes
  <2> QED BY <2>4, <2>5, <2>6, WritesOn
<1>7. Shape(s)' /\ proc'[s].victims = {}
  <2>1. proc[s].todo # <<>> /\ proc[s].then \in {"body", "report", "prune"}
        /\ proc[s].victims = {}
        /\ (proc[s].then = "report" => proc[s].target \in Sessions /\ proc[s].latest \in Index)
    BY <1>1 DEF Shape, Pending, At
  <2>2. CASE /\ proc'[s] = [proc[s] EXCEPT !.todo = Tail(proc[s].todo), !.pc = "append"]
             /\ Tail(proc[s].todo) # <<>>
    BY <1>1, <2>1, <2>2 DEF Shape, Pending, Processes
  <2>3. CASE proc'[s] = [Idle EXCEPT !.ok = proc[s].ok, !.pc = "prune"]
    BY <2>3, IdleType DEF Shape, Pending, Processes
  <2>4. CASE /\ proc'[s] = [proc[s] EXCEPT !.todo = Tail(proc[s].todo), !.pc = proc[s].then]
             /\ proc[s].then \in {"body", "report"}
    BY <1>1, <2>1, <2>4 DEF Shape, Pending, Processes
  <2> QED BY <2>2, <2>3, <2>4, WritesOn
<1>8. Typing'
  BY ZenonT(60), <1>1, <1>2, <1>5, <1>6, WritesOn DEF Typing
<1>9. /\ index'[s] = i
      /\ \A u \in Sessions \ {s} : index'[u] = index[u] /\ proc'[u] = proc[u]
  BY <1>1, <1>2, WritesOn DEF Typing
<1>10. Filed(s)'
  <2>1. File(s)' = File(s)
    BY <1>2 DEF File
  <2>2. /\ span[s].first <= span[s].last /\ span[s].last <= day /\ span[s].first # 0
    BY <1>1, <1>3 DEF Filed, Days
  <2>3. Running(s)
    BY <1>1 DEF At, Running
  <2>4. /\ day <= span[s].first + MaxDays
        /\ \A e \in Days : /\ events[s][e] # Torn
                           /\ events[s][e] # Missing => e <= span[s].last
    BY <1>1, <2>2, <2>3 DEF Filed, At
  <2>5. i = BuildSessionIndex(File(s), span[s].last)
    BY DEF i
  <2>6. d <= span[s].last /\ span[s].first <= d
    BY <1>3, <2>2 DEF Days
  <2> HIDE DEF d
  <2> QED BY <1>2, <1>5, <1>6, <1>9, <2>1, <2>2, <2>3, <2>4, <2>5, <2>6
          DEF Filed, At, Running, Appending, Listed
<1>11. ~Over(s) /\ span[s].last <= span'[s].last
  BY <1>1, <1>2 DEF At, Over, Typing
<1> QED BY <1>2, <1>6, <1>7, <1>8, <1>9, <1>10, <1>11, OwnStep

LEMMA CrashStep ==
  ASSUME TraceInv, NEW s \in Sessions, Crash(s)
  PROVE  TraceInv'
<1> DEFINE p == [Idle EXCEPT !.pc = "crashed"]
<1>1. /\ Running(s) /\ Shape(s) /\ Filed(s) /\ Typing
      /\ faults' = faults + 1 /\ faults < MaxFaults
      /\ proc' = [proc EXCEPT ![s] = p] /\ UNCHANGED <<day, index, span>>
  BY DEF Crash, Goes, TraceInv
<1>2. p \in Processes /\ p.pc = "crashed" /\ p.victims = {}
  BY IdleType DEF Processes, Pcs
<1> HIDE DEF p
<1>3. UNCHANGED events
  BY DEF Crash
<1>4. faults' \in 0 .. MaxFaults
  BY <1>1, TraceBoundAssumption DEF Typing
<1>5. Typing'
  BY <1>1, <1>2, <1>3, <1>4 DEF Typing
<1>6. proc'[s] = p /\ \A u \in Sessions \ {s} : proc'[u] = proc[u]
  BY <1>1 DEF Typing
<1>7. Shape(s)'
  BY <1>2, <1>6 DEF Shape, Pending
<1>8. Filed(s)'
  BY <1>1, <1>2, <1>6 DEF Filed, At, Running, Appending, Listed, Over
<1>9. ~Over(s) /\ span[s].last <= span'[s].last
  BY <1>1 DEF Running, Over, Typing
<1> QED BY <1>1, <1>2, <1>3, <1>5, <1>6, <1>7, <1>8, <1>9, OwnStep

LEMMA DayStep ==
  ASSUME TraceInv, NextDay
  PROVE  TraceInv'
<1>1. /\ day < LastDay /\ day' = day + 1 /\ day \in Days /\ day' \in Days /\ Typing
      /\ UNCHANGED <<events, index, proc, span, faults>>
  BY TraceBoundAssumption DEF NextDay, TraceInv, Typing, Days
<1>2. Typing'
  BY <1>1 DEF Typing
<1>3. ASSUME NEW s \in Sessions PROVE Shape(s)' /\ Filed(s)' /\ Pruning(s)'
  <2>1. Shape(s) /\ Filed(s) /\ Pruning(s) /\ proc[s] \in Processes
        /\ span[s].first \in Nat /\ span[s].last \in Nat
    BY DEF TraceInv, Typing
  <2>2. Running(s) /\ span[s].first # 0 => day' <= span[s].first + MaxDays
    BY <1>1, <2>1, PolicyAssumption DEF NextDay, Days
  <2>3. Shape(s)'
    BY <1>1, <2>1 DEF Shape, Pending, Processes, Days
  <2>4. Filed(s)'
    BY <1>1, <2>1, <2>2 DEF Filed, At, Running, Appending, Listed, Over, File, LogOn, Days
  <2>5. ASSUME NEW v \in proc[s].victims PROVE Outlived(v)'
    <3>1. v \in Victims /\ Outlived(v)
      BY <2>1 DEF Pruning, Processes
    <3>2. day <= day' /\ \A u \in Sessions : span[u].last <= span'[u].last
      BY <1>1 DEF Typing, Days
    <3> QED BY <1>1, <1>2, <3>1, <3>2, StaysOutlived
  <2> QED BY <1>1, <2>1, <2>3, <2>4, <2>5 DEF Pruning, At
<1> QED BY <1>2, <1>3 DEF TraceInv

-----------------------------------------------------------------------------
(***************************************************************************)
(* The prune.                                                              *)
(***************************************************************************)

LEMMA StopStep ==
  ASSUME TraceInv, NEW s \in Sessions, PruneStops(s),
         UNCHANGED <<day, events, index, span, faults>>,
         proc[s].pc \in {"prune-read", "prune-index", "prune-events"}
  PROVE  TraceInv'
<1> DEFINE p == [Idle EXCEPT !.pc = "done", !.ok = proc[s].ok]
<1>1. Quietly(s, p)
  BY DEF Quietly, PruneStops, Goes
<1>2. p \in Processes /\ p.pc = "done" /\ p.victims = {}
  <2>1. proc[s].ok \in BOOLEAN
    BY DEF TraceInv, Typing, Processes
  <2> QED BY ZenonT(60), <2>1, IdleType DEF Processes, Pcs
<1> HIDE DEF p
<1>3. Sound(p)
  BY <1>2 DEF Sound
<1> QED BY <1>1, <1>2, <1>3, QuietStep

\* A session that the policy expires is over, is older than max_days and has
\* max_sessions others as recent as itself.
LEMMA ExpiredOutlived ==
  ASSUME TraceInv, NEW s \in Sessions, At(s, "prune-read"),
         Listable(proc[s].names),
         NEW victims \in Expired(s, proc[s].names, proc[s].now)
  PROVE  victims \subseteq Victims /\ \A v \in victims : Outlived(v)
<1> DEFINE now == proc[s].now
           others == proc[s].names \ {s}
<1>1. PICK kept \in KeptByCount(others) :
        victims = {[session |-> t, day |-> index[t].day] : t \in Outdated(others, now) \ kept}
  BY DEF Expired
<1>2. /\ Typing /\ Shape(s) /\ others \subseteq Sessions \ {s} /\ now \in Nat /\ now <= day
      /\ day \in Nat
  <2>1. Typing /\ Shape(s)
    BY DEF TraceInv
  <2>2. proc[s] \in Processes /\ day \in Nat
    BY <2>1 DEF Typing, Days
  <2>3. others \subseteq Sessions \ {s} /\ now \in Nat
    BY <2>2 DEF Processes
  <2> QED BY <2>1, <2>2, <2>3 DEF Shape, At
<1>3. \A t \in others : Listed(t) /\ index[t] \in Index
  BY <1>2 DEF Listable, Listed, Typing
<1>4. ASSUME NEW v \in victims PROVE v \in Victims /\ Outlived(v)
  <2>1. PICK t \in Outdated(others, now) \ kept : v = [session |-> t, day |-> index[t].day]
    BY <1>1
  <2>2. /\ t \in others /\ t \in Sessions /\ t # s /\ Listed(t) /\ index[t] \in Index
        /\ ~IsWithinAge(index[t], now) /\ Filed(t)
    BY <1>2, <1>3, <2>1 DEF Outdated, TraceInv
  <2>3. /\ span[t].first \in Nat /\ span[t].last \in Nat
        /\ span[t].first <= index[t].day /\ index[t].day <= span[t].last
        /\ index[t].count > 0 /\ index[t].day \in Days /\ index[t].day \in Nat
        /\ span[t].first # 0
    BY <1>2, <2>2 DEF Filed, Typing, Index, Days, Listed
  <2>4. span[t].first + MaxDays < day
    BY <1>2, <2>2, <2>3, PolicyAssumption DEF IsWithinAge
  <2>5. Over(t)
    <3>1. ~Running(t)
      BY <1>2, <2>2, <2>3, <2>4, PolicyAssumption DEF Filed
    <3>2. ~At(t, "ready")
      BY <2>2, <2>3 DEF Filed
    <3> QED BY <3>1, <3>2 DEF Running, At, Over
  <2>6. ~At(t, "crashed") => index[t].day = span[t].last
    <3> SUFFICES ASSUME ~At(t, "crashed") PROVE index[t].day = span[t].last
      OBVIOUS
    <3>1. index[t] = BuildSessionIndex(File(t), span[t].last)
      BY <2>2, <2>5 DEF Filed, Over, At
    <3> QED BY <2>2, <3>1 DEF BuildSessionIndex, Index
  <2>7. Cardinality(Recent(t)) >= MaxSessions
    <3>1. /\ kept \subseteq others /\ Cardinality(kept) = MaxSessions
          /\ \A u \in kept : index[t].day <= index[u].day
      BY <2>1, <2>2 DEF KeptByCount
    <3>2. ASSUME NEW u \in kept PROVE u \in Recent(t)
      <4>1. u \in Sessions /\ u # t /\ Listed(u) /\ index[u] \in Index /\ Filed(u)
        BY <1>2, <1>3, <2>1, <3>1 DEF TraceInv
      <4>2. /\ index[u].day \in Nat /\ span[u].last \in Nat
            /\ index[u].day <= span[u].last /\ index[t].day <= index[u].day
        BY <1>2, <3>1, <4>1 DEF Filed, Typing, Index, Days
      <4> QED BY <2>3, <4>1, <4>2 DEF Recent
    <3>3. IsFiniteSet(Recent(t))
      BY FiniteSessions DEF Recent
    <3>4. Cardinality(kept) <= Cardinality(Recent(t))
      BY <3>2, <3>3, FS_Subset
    <3> QED BY <3>1, <3>4
  <2>8. v.session = t /\ v.day = index[t].day /\ v \in Victims
    BY <2>1, <2>2, <2>3 DEF Victims
  <2> QED BY <2>3, <2>4, <2>5, <2>6, <2>7, <2>8 DEF Outlived
<1> QED BY <1>4

LEMMA PruneReadStep ==
  ASSUME TraceInv, NEW s \in Sessions, PruneRead(s)
  PROVE  TraceInv'
<1>1. /\ At(s, "prune-read") /\ proc[s] \in Processes /\ Shape(s)
      /\ UNCHANGED <<day, events, index, span, faults>>
  BY DEF PruneRead, TraceInv, Typing
<1>2. CASE ~Listable(proc[s].names)
  BY <1>1, <1>2, StopStep DEF PruneRead, At
<1>3. CASE Listable(proc[s].names)
  <2>1. PICK victims \in Expired(s, proc[s].names, proc[s].now) :
          Goes(s, [proc[s] EXCEPT !.pc = "prune-index", !.victims = victims])
    BY <1>3 DEF PruneRead
  <2> DEFINE p == [proc[s] EXCEPT !.pc = "prune-index", !.victims = victims]
  <2>2. victims \subseteq Victims /\ \A v \in victims : Outlived(v)
    BY <1>1, <1>3, ExpiredOutlived
  <2>3. p \in Processes /\ p.pc = "prune-index" /\ p.victims = victims /\ p.now = proc[s].now
    BY <1>1, <2>2 DEF Processes, Pcs
  <2>4. Quietly(s, p)
    BY <1>1, <2>1 DEF Quietly, Goes
  <2> HIDE DEF p
  <2>5. Sound(p)
    BY <1>1, <2>3 DEF Sound, Shape, At
  <2> QED BY <1>1, <2>2, <2>3, <2>4, <2>5, QuietStep DEF At
<1> QED BY <1>2, <1>3

LEMMA PruneIndexStep ==
  ASSUME TraceInv, NEW s \in Sessions, PruneIndex(s)
  PROVE  TraceInv'
<1>1. /\ At(s, "prune-index") /\ proc[s] \in Processes /\ Shape(s) /\ Pruning(s) /\ Typing
      /\ UNCHANGED <<day, events, span, faults>>
  BY DEF PruneIndex, TraceInv, Typing
<1>2. CASE PruneStops(s) /\ UNCHANGED index
  BY <1>1, <1>2, StopStep DEF At
<1>3. ASSUME NEW v \in proc[s].victims,
             index' = [index EXCEPT ![v.session] = Missing],
             Goes(s, [proc[s] EXCEPT !.pc = "prune-events", !.victim = v])
      PROVE  TraceInv'
  <2> DEFINE p == [proc[s] EXCEPT !.pc = "prune-events", !.victim = v]
             t == v.session
  <2>1. v \in Victims /\ t \in Sessions /\ Over(t) /\ t # s
    BY <1>1, <1>3 DEF Processes, Victims, Pruning, Outlived, Over, At
  <2>2. /\ p \in Processes /\ p.pc = "prune-events" /\ p.victims = proc[s].victims
        /\ p.victim = v /\ p.now = proc[s].now
    BY <1>1, <2>1 DEF Processes, Pcs
  <2>3. proc' = [proc EXCEPT ![s] = p]
    BY <1>3 DEF Goes
  <2> HIDE DEF p
  <2>4. Typing'
    BY <1>1, <1>3, <2>1, <2>2, <2>3 DEF Typing
  <2>5. /\ proc'[s] = p /\ index'[t] = Missing
        /\ \A u \in Sessions \ {s} : proc'[u] = proc[u]
        /\ \A u \in Sessions \ {t} : index'[u] = index[u]
    BY <1>1, <1>3, <2>1, <2>3 DEF Typing
  <2>6. Shape(s)'
    BY <1>1, <1>3, <2>2, <2>5 DEF Shape, Pending, At
  <2>7. Filed(t)'
    <3>1. Filed(t)
      BY <2>1 DEF TraceInv
    <3> QED BY <1>1, <2>1, <2>5, <3>1, Sentinels
            DEF Filed, At, Running, Appending, Listed, Over
  <2>8. Filed(s)'
    <3>1. Filed(s) /\ index'[s] = index[s]
      BY <2>1, <2>5 DEF TraceInv
    <3> QED BY <1>1, <2>2, <2>5, <3>1
            DEF Filed, At, Running, Appending, Listed, Over, File
  <2>9. ASSUME NEW u \in Sessions \ {s, t} PROVE Filed(u)'
    BY <1>1, <2>5, LeftAlone DEF TraceInv
  <2>10. ~Over(s) /\ span[s].last <= span'[s].last
    BY <1>1 DEF Over, At, Typing
  <2>11. /\ \A w \in proc'[s].victims : Outlived(w)
         /\ index'[proc'[s].victim.session] = Missing
    BY <1>1, <2>2, <2>5 DEF Pruning
  <2>12. \A u \in Sessions \ {s} : index'[u] \in {index[u], Missing}
    BY <2>5
  <2>13. \A u \in Sessions : Filed(u)'
    BY <2>7, <2>8, <2>9
  <2> HIDE DEF t
  <2> QED BY <1>1, <2>4, <2>5, <2>6, <2>10, <2>11, <2>12, <2>13, SessionStep
<1> QED BY <1>1, <1>2, <1>3 DEF PruneIndex

LEMMA PruneEventsStep ==
  ASSUME TraceInv, NEW s \in Sessions, PruneEvents(s)
  PROVE  TraceInv'
<1>1. /\ At(s, "prune-events") /\ proc[s] \in Processes /\ Shape(s) /\ Pruning(s) /\ Typing
      /\ UNCHANGED <<day, index, span, faults>>
  BY DEF PruneEvents, TraceInv, Typing
<1>2. CASE PruneStops(s) /\ UNCHANGED events
  BY <1>1, <1>2, StopStep DEF At
<1>3. ASSUME NEW v, v = proc[s].victim,
             events' = [events EXCEPT ![v.session][v.day] = Missing],
             Goes(s, [proc[s] EXCEPT !.pc = "prune-index", !.victims = @ \ {v},
                                     !.victim = Missing])
      PROVE  TraceInv'
  <2> DEFINE p == [proc[s] EXCEPT !.pc = "prune-index", !.victims = @ \ {v},
                                  !.victim = Missing]
             t == v.session
  <2>1. v \in Victims /\ t \in Sessions /\ v.day \in Days /\ Over(t) /\ t # s
        /\ index[t] = Missing
    <3>1. v \in proc[s].victims
      BY <1>1, <1>3 DEF Shape, At
    <3> QED BY <1>1, <1>3, <3>1 DEF Processes, Victims, Pruning, Outlived, Over, At
  <2>2. /\ p \in Processes /\ p.pc = "prune-index" /\ p.victims \subseteq proc[s].victims
        /\ p.now = proc[s].now
    BY ZenonT(60), <1>1, <2>1 DEF Processes, Pcs
  <2>3. proc' = [proc EXCEPT ![s] = p]
    BY <1>3 DEF Goes
  <2> HIDE DEF p
  <2>4. Typing'
    BY <1>1, <1>3, <2>1, <2>2, <2>3 DEF Typing
  <2>5. /\ proc'[s] = p
        /\ \A u \in Sessions \ {s} : proc'[u] = proc[u]
        /\ \A u \in Sessions \ {t} : events'[u] = events[u]
        /\ \A d \in Days : events'[t][d] \in {events[t][d], Missing}
    BY <1>1, <1>3, <2>1, <2>3 DEF Typing
  <2>6. Shape(s)'
    BY <1>1, <2>2, <2>5 DEF Shape, Pending, At
  <2>7. Filed(t)'
    <3>1. Filed(t)
      BY <2>1 DEF TraceInv
    <3>2. ~Listed(t) /\ index[t] # Torn /\ ~Appending(t)
      BY <2>1, Sentinels DEF Listed, Over, Appending
    <3> QED BY <1>1, <2>1, <2>5, <3>1, <3>2, Sentinels
            DEF Filed, At, Running, Appending, Listed, Over
  <2>8. Filed(s)'
    <3>1. Filed(s) /\ events'[s] = events[s]
      BY <2>1, <2>5 DEF TraceInv
    <3> QED BY <1>1, <2>2, <2>5, <3>1
            DEF Filed, At, Running, Appending, Listed, Over, File
  <2>9. ASSUME NEW u \in Sessions \ {s, t} PROVE Filed(u)'
    BY <1>1, <2>5, LeftAlone DEF TraceInv
  <2>10. ~Over(s) /\ span[s].last <= span'[s].last
    BY <1>1 DEF Over, At, Typing
  <2>11. \A w \in proc'[s].victims : Outlived(w)
    BY <1>1, <2>2, <2>5 DEF Pruning
  <2>12. proc'[s].pc # "prune-events"
    BY <2>2, <2>5
  <2>13. \A u \in Sessions : Filed(u)'
    BY <2>7, <2>8, <2>9
  <2> QED BY <1>1, <2>4, <2>5, <2>6, <2>10, <2>11, <2>12, <2>13, SessionStep
<1> QED BY <1>1, <1>2, <1>3 DEF PruneEvents

-----------------------------------------------------------------------------
(***************************************************************************)
(* The steps that only change their process.                               *)
(***************************************************************************)

\* What a reader loads is a log, or cannot be read.
LEMMA LoadType ==
  ASSUME Typing, NEW t \in Sessions
  PROVE  LoadTraceEvents(t) \in Logs \cup {Torn}
<1>1. CASE index[t] \in {Missing, Torn}
  BY <1>1, Sentinels DEF LoadTraceEvents
<1>2. CASE index[t] \notin {Missing, Torn}
  <2>1. index[t] \in Index
    BY <1>2 DEF Typing
  <2>2. index[t].day \in Days
    BY <2>1 DEF Index
  <2>3. events[t][index[t].day] \in Logs \cup {Missing, Torn}
    BY <2>2 DEF Typing
  <2> QED BY <1>2, <2>3, Sentinels DEF LoadTraceEvents, ParseJsonLines
<1> QED BY <1>1, <1>2

\* A command that ends, well or with an exception, only changes its process.
LEMMA EndStep ==
  ASSUME TraceInv, NEW s \in Sessions,
         proc[s].pc \in {"body", "select", "report", "export"},
         UNCHANGED <<day, events, index, span, faults>>,
         NEW p \in Processes, p.victims = {},
         NEW outcomes \in Logs, NEW ok \in BOOLEAN,
         Goes(s, Finish(p, outcomes, ok)) \/ Goes(s, Throw(p))
  PROVE  TraceInv'
<1>1. ASSUME NEW q, q \in {Finish(p, outcomes, ok), Throw(p)}, Goes(s, q)
      PROVE  TraceInv'
  <2>1. /\ q \in Processes /\ q.pc = "append" /\ q.then = "prune" /\ q.todo # <<>>
        /\ q.victims = {}
    BY <1>1, FinishType, ThrowType
  <2>2. Sound(q) /\ Quietly(s, q)
    BY <1>1, <2>1 DEF Sound, Quietly, Goes
  <2> QED BY <2>1, <2>2, QuietStep
<1> QED BY <1>1

LEMMA StartStep ==
  ASSUME TraceInv, NEW s \in Sessions, StartCommand(s)
  PROVE  TraceInv'
<1>1. PICK c \in CommandsOf[s] : Goes(s, Emit([Idle EXCEPT !.cmd = c], StartEvents, "body"))
  BY DEF StartCommand
<1> DEFINE p == [Idle EXCEPT !.cmd = c]
           q == Emit(p, StartEvents, "body")
<1>2. p \in Processes /\ p.victims = {}
  <2>1. c \in Commands
    BY CommandAssumption DEF Sessions, Commands
  <2> QED BY <2>1, IdleType DEF Processes
<1> HIDE DEF p
<1>3. StartEvents \in Logs \ {<<>>}
  BY EventAssumption
<1>4. /\ q \in Processes /\ q.pc = "append" /\ q.then = "body" /\ q.todo # <<>>
      /\ q.victims = {}
  BY <1>2, <1>3, EmitType
<1>5. Quietly(s, q) /\ At(s, "ready")
  BY <1>1 DEF StartCommand, Quietly, Goes, p
<1> HIDE DEF q
<1> QED BY <1>4, <1>5, QuietStep DEF Sound, At

LEMMA RunStep ==
  ASSUME TraceInv, NEW s \in Sessions, RunCommand(s)
  PROVE  TraceInv'
<1>1. proc[s] \in Processes /\ proc[s].victims = {} /\ proc[s].pc = "body"
  BY DEF RunCommand, TraceInv, Typing, Shape, At
<1> QED BY <1>1, Sentinels, EndStep DEF RunCommand

LEMMA ListStep ==
  ASSUME TraceInv, NEW s \in Sessions, ListIndexes(s)
  PROVE  TraceInv'
<1> DEFINE p == [proc[s] EXCEPT !.pc = "select", !.names = Indexed]
<1>1. proc[s] \in Processes /\ proc[s].victims = {} /\ proc[s].pc = "body"
  BY DEF ListIndexes, TraceInv, Typing, Shape, At
<1>2. p \in Processes /\ p.pc = "select" /\ p.victims = {}
  BY ZenonT(60), <1>1 DEF Processes, Pcs, Indexed
<1>3. Quietly(s, p)
  BY DEF ListIndexes, Quietly, Goes
<1> HIDE DEF p
<1> QED BY <1>1, <1>2, <1>3, QuietStep DEF Sound

LEMMA SelectStep ==
  ASSUME TraceInv, NEW s \in Sessions, SelectLatestSession(s)
  PROVE  TraceInv'
<1>1. /\ proc[s] \in Processes /\ proc[s].victims = {} /\ proc[s].pc = "select" /\ Typing
      /\ UNCHANGED <<day, events, index, span, faults>>
  BY DEF SelectLatestSession, TraceInv, Typing, Shape, At
<1>2. CASE Goes(s, Throw(proc[s]))
  BY <1>1, <1>2, Sentinels, EndStep
<1>3. CASE /\ Listable(proc[s].names)
           /\ \E t \in Newest(proc[s].names \ {s}) :
                Goes(s, [proc[s] EXCEPT !.pc = IF proc[s].cmd = "export" THEN "export"
                                               ELSE "report",
                                        !.target = t, !.latest = index[t], !.names = {}])
  <2>1. PICK t \in Newest(proc[s].names \ {s}) :
          Goes(s, [proc[s] EXCEPT !.pc = IF proc[s].cmd = "export" THEN "export" ELSE "report",
                                  !.target = t, !.latest = index[t], !.names = {}])
    BY <1>3
  <2> DEFINE p == [proc[s] EXCEPT !.pc = IF proc[s].cmd = "export" THEN "export" ELSE "report",
                                  !.target = t, !.latest = index[t], !.names = {}]
  <2>2. t \in Sessions /\ index[t] \in Index
    <3>1. t \in proc[s].names /\ proc[s].names \subseteq Sessions
      BY <1>1 DEF Newest, Processes
    <3> QED BY <1>1, <1>3, <3>1 DEF Listable, Typing
  <2>3. /\ p \in Processes /\ p.pc \in {"export", "report"} /\ p.victims = {}
        /\ p.target = t /\ p.latest = index[t]
    BY ZenonT(60), <1>1, <2>2 DEF Processes, Pcs
  <2>4. Quietly(s, p)
    BY <1>1, <2>1 DEF Quietly, Goes
  <2> HIDE DEF p
  <2> QED BY <1>1, <2>2, <2>3, <2>4, QuietStep DEF Sound
<1> QED BY <1>2, <1>3 DEF SelectLatestSession

LEMMA ReportStep ==
  ASSUME TraceInv, NEW s \in Sessions, BuildDebugReport(s)
  PROVE  TraceInv'
<1> DEFINE log == LoadTraceEvents(proc[s].target)
           p == [proc[s] EXCEPT !.report = log, !.cut = @ \cup CutFor(proc[s].target, "report")]
<1>1. /\ proc[s] \in Processes /\ proc[s].victims = {} /\ proc[s].pc = "report" /\ Typing
      /\ proc[s].target \in Sessions /\ proc[s].latest \in Index
      /\ UNCHANGED <<day, events, index, span, faults>>
  BY DEF BuildDebugReport, TraceInv, Typing, Shape, At
<1>2. CASE Goes(s, Throw(proc[s]))
  BY <1>1, <1>2, Sentinels, EndStep
<1>3. CASE log # Torn /\ ~Goes(s, Throw(proc[s]))
  <2>1. log \in Logs
    BY <1>1, <1>3, LoadType
  <2>2. /\ p \in Processes /\ p.victims = {} /\ p.target = proc[s].target
        /\ p.latest = proc[s].latest
    BY <1>1, <2>1 DEF Processes, CutFor
  <2>3. \/ Goes(s, [p EXCEPT !.pc = "export"])
        \/ Goes(s, Finish(p, <<"exported">>, TRUE))
        \/ Goes(s, Finish(p, <<>>, TRUE))
    BY <1>3 DEF BuildDebugReport
  <2> HIDE DEF p
  <2>4. <<"exported">> \in Logs
    BY DEF Logs, Outcomes
  <2>5. CASE Goes(s, [p EXCEPT !.pc = "export"])
    <3> DEFINE q == [p EXCEPT !.pc = "export"]
    <3>1. /\ q \in Processes /\ q.pc = "export" /\ q.victims = {}
          /\ q.target \in Sessions /\ q.latest \in Index
      BY <1>1, <2>2 DEF Processes, Pcs
    <3>2. Quietly(s, q)
      BY <1>1, <2>5 DEF Quietly, Goes
    <3> HIDE DEF q
    <3> QED BY <1>1, <3>1, <3>2, QuietStep DEF Sound
  <2> QED BY <1>1, <2>2, <2>3, <2>4, <2>5, Sentinels, EndStep
<1> QED BY <1>2, <1>3 DEF BuildDebugReport

LEMMA ExportStep ==
  ASSUME TraceInv, NEW s \in Sessions, ExportTrace(s)
  PROVE  TraceInv'
<1> DEFINE log == LoadTraceEvents(proc[s].target)
           p == [proc[s] EXCEPT !.exported = log, !.live = Running(proc[s].target),
                                !.cut = @ \cup CutFor(proc[s].target, "export")]
<1>1. /\ proc[s] \in Processes /\ proc[s].victims = {} /\ proc[s].pc = "export" /\ Typing
      /\ proc[s].target \in Sessions /\ proc[s].latest \in Index
      /\ UNCHANGED <<day, events, index, span, faults>>
  BY DEF ExportTrace, TraceInv, Typing, Shape, At
<1>2. CASE Goes(s, Throw(proc[s]))
  BY <1>1, <1>2, Sentinels, EndStep
<1>3. CASE log # Torn /\ ~Goes(s, Throw(proc[s]))
  <2>1. log \in Logs /\ Running(proc[s].target) \in BOOLEAN
    BY <1>1, <1>3, LoadType DEF Running
  <2>2. /\ p \in Processes /\ p.victims = {} /\ p.target = proc[s].target
        /\ p.latest = proc[s].latest
    BY <1>1, <2>1 DEF Processes, CutFor
  <2>3. \/ Goes(s, Finish(p, <<"exported", "exported">>, TRUE))
        \/ Goes(s, Emit(p, <<"exported">>, "report"))
    BY <1>3 DEF ExportTrace
  <2> HIDE DEF p
  <2>4. <<"exported">> \in Logs \ {<<>>} /\ <<"exported", "exported">> \in Logs
    BY DEF Logs, Outcomes
  <2>5. CASE Goes(s, Emit(p, <<"exported">>, "report"))
    <3> DEFINE event == <<"exported">>
               q == Emit(p, event, "report")
    <3>1. /\ q \in Processes /\ q.pc = "append" /\ q.victims = {} /\ q.todo # <<>>
          /\ q.then = "report" /\ q.target \in Sessions /\ q.latest \in Index
      <4>1. event \in Logs \ {<<>>}
        BY <2>4
      <4> HIDE DEF event
      <4>2. q.pc = "append" /\ q.todo = event /\ q.then = "report"
        BY <2>2, <4>1, EmitType
      <4>3. /\ q \in Processes
            /\ q.victims = p.victims /\ q.target = p.target /\ q.latest = p.latest
        BY <2>2, <4>1, EmitType
      <4> QED BY <1>1, <2>2, <4>1, <4>2, <4>3
    <3>2. Quietly(s, q)
      BY <1>1, <2>5 DEF Quietly, Goes
    <3> HIDE DEF q
    <3> QED BY <1>1, <3>1, <3>2, QuietStep DEF Sound
  <2> QED BY <1>1, <2>2, <2>3, <2>4, <2>5, EndStep
<1> QED BY <1>2, <1>3 DEF ExportTrace

LEMMA SummaryStep ==
  ASSUME TraceInv, NEW s \in Sessions, BuildTelemetrySummary(s)
  PROVE  TraceInv'
<1>1. proc[s] \in Processes /\ proc[s].victims = {} /\ proc[s].pc = "select"
  BY DEF BuildTelemetrySummary, TraceInv, Typing, Shape, At
<1> QED BY <1>1, Sentinels, EndStep DEF BuildTelemetrySummary

LEMMA PruneListStep ==
  ASSUME TraceInv, NEW s \in Sessions, PruneList(s)
  PROVE  TraceInv'
<1> DEFINE p == [proc[s] EXCEPT !.pc = "prune-read", !.names = Indexed, !.now = day]
<1>1. proc[s] \in Processes /\ proc[s].victims = {} /\ proc[s].pc = "prune" /\ day \in Nat
  <2>1. Typing /\ Shape(s) /\ proc[s].pc = "prune"
    BY DEF PruneList, TraceInv, At
  <2> QED BY <2>1 DEF Typing, Shape, Days
<1>2. p \in Processes /\ p.pc = "prune-read" /\ p.victims = {} /\ p.now = day
  BY <1>1 DEF Processes, Pcs, Indexed
<1>3. Quietly(s, p)
  BY DEF PruneList, Quietly, Goes
<1> HIDE DEF p
<1> QED BY <1>1, <1>2, <1>3, QuietStep DEF Sound

LEMMA StoreStep == TraceInv /\ [Next]_vars => TraceInv'
<1> SUFFICES ASSUME TraceInv, [Next]_vars PROVE TraceInv'
  OBVIOUS
<1>1. ASSUME NEW s \in Sessions, Step(s) PROVE TraceInv'
  <2>1. CASE PruneDone(s)
    BY <2>1, StopStep DEF PruneDone, At
  <2> QED BY <1>1, <2>1, TruncateEventsStep, WritePartStep, WriteEventsStep,
             TruncateStep, WriteStep, RunStep, ListStep, SelectStep,
             ReportStep, ExportStep, SummaryStep, PruneListStep, PruneReadStep,
             PruneIndexStep, PruneEventsStep DEF Step
<1>2. CASE UNCHANGED vars
  <2>1. Typing'
    BY <1>2 DEF TraceInv, Typing, vars
  <2>2. ASSUME NEW s \in Sessions PROVE Shape(s)' /\ Filed(s)'
    BY <1>2, LeftAlone DEF TraceInv, vars
  <2>3. ASSUME NEW s \in Sessions PROVE Pruning(s)'
    <3>1. Pruning(s) /\ proc[s] \in Processes
      BY DEF TraceInv, Typing
    <3>2. ASSUME NEW v \in proc[s].victims PROVE Outlived(v)'
      BY <1>2, <3>1 DEF Pruning, Outlived, Recent, Over, At, vars
    <3> QED BY <1>2, <3>1, <3>2 DEF Pruning, At, vars
  <2> QED BY <2>1, <2>2, <2>3 DEF TraceInv
<1> QED BY <1>1, <1>2, StartStep, CrashStep, DayStep DEF Next

LEMMA StoreHolds == Spec => []TraceInv
BY StoreInit, StoreStep, PTL DEF Spec

\* TraceStore: days, files and processes keep their shape.
THEOREM StoreTypeCorrect == Spec => []TypeOK
<1>1. TraceInv => TypeOK
  BY DEF TraceInv, Typing, Filed, TypeOK, Processes
<1> QED BY <1>1, StoreHolds, PTL

\* TraceStore: an index tells of exactly the events in the file it names.
THEOREM IndexesAreTrue == Spec => []IndexMatchesEvents
<1>1. TraceInv => IndexMatchesEvents
  <2> SUFFICES ASSUME TraceInv, NEW s \in Sessions, Listed(s), ~Appending(s),
                      ~At(s, "crashed")
               PROVE  index[s] = BuildSessionIndex(ParseJsonLines(events[s][index[s].day]),
                                                   index[s].day)
    BY DEF IndexMatchesEvents, Listed
  <2>1. index[s] = BuildSessionIndex(File(s), span[s].last)
    BY DEF TraceInv, Filed, At, Appending
  <2>2. index[s].day = span[s].last
    BY <2>1 DEF BuildSessionIndex
  <2> QED BY <2>1, <2>2 DEF File
<1> QED BY <1>1, StoreHolds, PTL

-----------------------------------------------------------------------------
(***************************************************************************)
(* What a prune removes.                                                   *)
(***************************************************************************)

Removed(s) ==
  \/ index[s] # Missing /\ index'[s] = Missing
  \/ \E d \in Days : events[s][d] # Missing /\ events'[s][d] = Missing

\* Only a prune removes, and what it removes has outlived the policy.
LEMMA RemovedOutlived ==
  ASSUME TraceInv, Next, NEW t \in Sessions, Removed(t)
  PROVE  \E v \in Victims : v.session = t /\ Outlived(v)
<1>1. Typing
  BY DEF TraceInv
<1>2. ~(UNCHANGED <<index, events>>)
  BY DEF Removed
<1>3. PICK s \in Sessions : StartCommand(s) \/ Step(s) \/ Crash(s)
  BY <1>2 DEF Next, NextDay
<1>4. \/ TruncateEvents(s) \/ WritePart(s) \/ WriteEvents(s) \/ TruncateIndex(s) \/ WriteIndex(s)
      \/ PruneIndex(s) \/ PruneEvents(s)
  BY <1>2, <1>3 DEF Step, StartCommand, RunCommand, ListIndexes, SelectLatestSession,
                    BuildDebugReport, ExportTrace, BuildTelemetrySummary, PruneList,
                    PruneRead, PruneDone, Crash
<1>5. CASE TruncateEvents(s) \/ WritePart(s) \/ WriteEvents(s)
  <2>1. PICK d \in Nat, file \in Logs \cup {Torn} :
          index' = index /\ events' = [events EXCEPT ![s][d] = file]
    <3>1. proc[s].held \in Logs /\ day \in Nat /\ span[s].last \in Nat
      BY <1>1 DEF Typing, Processes, Days
    <3>2. Cuts(proc[s].held) \subseteq Logs \cup {Torn}
      <4>1. \A n \in 0 .. Len(proc[s].held) - 1 : n \in 0 .. Len(proc[s].held)
        BY <3>1, LogLength
      <4> QED BY <3>1, <4>1, Parts DEF Cuts
    <3>3. CASE TruncateEvents(s)
      BY <3>1, <3>3, Sentinels DEF TruncateEvents
    <3>4. CASE WritePart(s)
      BY <3>1, <3>2, <3>4 DEF WritePart
    <3>5. CASE WriteEvents(s)
      BY <3>1, <3>5 DEF WriteEvents
    <3> QED BY <1>5, <3>3, <3>4, <3>5
  <2>2. file # Missing
    BY Sentinels
  <2>3. \A e \in Days : events[t][e] # Missing => events'[t][e] # Missing
    BY <1>1, <2>1, <2>2 DEF Typing
  <2> QED BY <2>1, <2>3 DEF Removed
<1>6. CASE TruncateIndex(s)
  <2>1. index' = [index EXCEPT ![s] = Torn] /\ events' = events
    BY <1>6 DEF TruncateIndex
  <2> QED BY <1>1, <2>1, Sentinels DEF Removed, Typing
<1>7. CASE WriteIndex(s)
  <2> DEFINE i == BuildSessionIndex(File(s), span[s].last)
  <2>1. index' = [index EXCEPT ![s] = i] /\ events' = events
    BY <1>7 DEF WriteIndex, File
  <2>2. i # Missing
    <3>1. span[s].last \in Days /\ events[s][span[s].last] \in Logs
      BY <1>7 DEF TraceInv, Filed, Appending, At, WriteIndex
    <3> QED BY <3>1, IndexType, ParseType, Sentinels DEF File
  <2> HIDE DEF i
  <2> QED BY <1>1, <2>1, <2>2 DEF Removed, Typing
<1>8. CASE PruneIndex(s)
  <2>1. Pruning(s) /\ proc[s].victims \subseteq Victims
    BY <1>1 DEF TraceInv, Typing, Processes
  <2>2. PICK v \in proc[s].victims : index' = [index EXCEPT ![v.session] = Missing]
    BY <1>2, <1>8 DEF PruneIndex
  <2>3. v.session = t
    <3>1. UNCHANGED events
      BY <1>8 DEF PruneIndex
    <3> QED BY <1>1, <2>2, <3>1 DEF Removed, Typing
  <2> QED BY <2>1, <2>2, <2>3 DEF Pruning
<1>9. CASE PruneEvents(s)
  <2>1. Pruning(s) /\ Shape(s) /\ At(s, "prune-events") /\ proc[s].victims \subseteq Victims
    BY <1>1, <1>9 DEF TraceInv, Typing, Processes, PruneEvents
  <2>2. PICK v \in proc[s].victims : events' = [events EXCEPT ![v.session][v.day] = Missing]
    <3>1. proc[s].victim \in proc[s].victims
      BY <2>1 DEF Shape, At
    <3> QED BY <1>2, <1>9, <3>1 DEF PruneEvents
  <2>3. v.session = t
    <3>1. UNCHANGED index
      BY <1>9 DEF PruneEvents
    <3> QED BY <1>1, <2>2, <3>1 DEF Removed, Typing
  <2> QED BY <2>1, <2>2, <2>3 DEF Pruning
<1> QED BY <1>4, <1>5, <1>6, <1>7, <1>8, <1>9

\* TraceStore: the prune removes no session that started within the last max_days,
\* and none while fewer than max_sessions others are as recent.
THEOREM PruneSparesRecent == Spec => PruneKeepsRecent
<1> DEFINE Spares ==
      \A s \in Sessions :
        Removed(s) =>
          /\ span[s].first + MaxDays < day
          /\ Cardinality({t \in Sessions \ {s} : span[t].last >= span[s].first}) >= MaxSessions
<1>1. TraceInv /\ [Next]_vars => [Spares]_vars
  BY RemovedOutlived DEF Outlived, Recent
<1>2. PruneKeepsRecent <=> [][Spares]_vars
  BY DEF PruneKeepsRecent, Removed
<1> HIDE DEF Spares
<1> QED BY <1>1, <1>2, StoreHolds, PTL DEF Spec

-----------------------------------------------------------------------------
(***************************************************************************)
(* No file is lost.                                                        *)
(***************************************************************************)

Acts(s) == StartCommand(s) \/ Step(s) \/ Crash(s)

\* What a step of one session may do to another: remove its files.
LEMMA OthersOnlyLose ==
  ASSUME TraceInv, NEW s \in Sessions, Acts(s), NEW t \in Sessions \ {s}
  PROVE  /\ proc'[t] = proc[t] /\ span'[t] = span[t]
         /\ index'[t] \in {index[t], Missing}
         /\ \A d \in Days : events'[t][d] \in {events[t][d], Missing}
         /\ index'[t] # index[t] => BeingPruned(t)'
<1>1. Typing /\ proc \in [Sessions -> Processes]
  BY DEF TraceInv, Typing
<1>2. CASE TruncateEvents(s) \/ WritePart(s) \/ WriteEvents(s) \/ TruncateIndex(s) \/ WriteIndex(s)
  BY <1>1, <1>2
     DEF TruncateEvents, WritePart, WriteEvents, TruncateIndex, WriteIndex, Goes, Typing
<1>3. CASE Crash(s)
  BY <1>1, <1>3 DEF Crash, Goes, Typing
<1>4. CASE StartCommand(s) \/ RunCommand(s) \/ ListIndexes(s) \/ SelectLatestSession(s)
  BY <1>1, <1>4 DEF StartCommand, RunCommand, ListIndexes, SelectLatestSession, Goes
<1>5. CASE BuildDebugReport(s) \/ ExportTrace(s) \/ BuildTelemetrySummary(s)
  BY <1>1, <1>5 DEF BuildDebugReport, ExportTrace, BuildTelemetrySummary, Goes
<1>6. CASE PruneList(s) \/ PruneRead(s) \/ PruneDone(s)
  BY <1>1, <1>6 DEF PruneList, PruneRead, PruneDone, PruneStops, Goes
<1>7. CASE PruneEvents(s)
  <2>1. CASE UNCHANGED events /\ PruneStops(s)
    BY <1>1, <1>7, <2>1 DEF PruneEvents, PruneStops, Goes
  <2>2. ASSUME NEW v, events' = [events EXCEPT ![v.session][v.day] = Missing],
               NEW p, Goes(s, p)
        PROVE  /\ proc'[t] = proc[t]
               /\ \A d \in Days : events'[t][d] \in {events[t][d], Missing}
    BY <1>1, <2>2 DEF Typing, Goes
  <2>3. UNCHANGED <<index, span>>
    BY <1>7 DEF PruneEvents
  <2> QED BY <1>7, <2>1, <2>2, <2>3 DEF PruneEvents
<1>8. CASE PruneIndex(s)
  <2>1. UNCHANGED <<events, span>>
    BY <1>8 DEF PruneIndex
  <2>2. CASE UNCHANGED index /\ PruneStops(s)
    BY <1>1, <2>1, <2>2 DEF PruneStops, Goes
  <2>3. ASSUME NEW v \in proc[s].victims, index' = [index EXCEPT ![v.session] = Missing],
               Goes(s, [proc[s] EXCEPT !.pc = "prune-events", !.victim = v])
        PROVE  /\ proc'[t] = proc[t]
               /\ index'[t] \in {index[t], Missing}
               /\ index'[t] # index[t] => BeingPruned(t)'
    <3>1. proc'[t] = proc[t] /\ index'[t] \in {index[t], Missing}
      BY <1>1, <2>3 DEF Typing, Goes
    <3>2. ASSUME index'[t] # index[t] PROVE v.session = t
      BY <1>1, <2>3, <3>2 DEF Typing
    <3>3. proc'[s].pc = "prune-events" /\ proc'[s].victim = v
      BY <1>1, <2>3 DEF Goes, Processes
    <3> QED BY <3>1, <3>2, <3>3 DEF BeingPruned, At
  <2> QED BY <1>8, <2>1, <2>2, <2>3 DEF PruneIndex
<1> QED BY <1>2, <1>3, <1>4, <1>5, <1>6, <1>7, <1>8 DEF Acts, Step

LEMMA ActsAlive ==
  ASSUME NEW s \in Sessions, Acts(s)
  PROVE  ~Over(s)
BY DEF Acts, Step, StartCommand, TruncateEvents, WritePart, WriteEvents, TruncateIndex,
       WriteIndex, RunCommand, ListIndexes, SelectLatestSession, BuildDebugReport, ExportTrace,
       BuildTelemetrySummary,
       PruneList, PruneRead, PruneIndex, PruneEvents, PruneDone, Crash, Running, Over, At

\* A session that is over never does anything again, it only loses files.
LEMMA OverStays ==
  ASSUME TraceInv, [Next]_vars, NEW t \in Sessions, Over(t)
  PROVE  /\ proc'[t] = proc[t] /\ span'[t] = span[t]
         /\ index'[t] \in {index[t], Missing}
         /\ \A d \in Days : events'[t][d] \in {events[t][d], Missing}
<1>1. CASE \E s \in Sessions : Acts(s)
  BY <1>1, ActsAlive, OthersOnlyLose
<1>2. CASE NextDay \/ UNCHANGED vars
  BY <1>2 DEF NextDay, vars
<1> QED BY <1>1, <1>2 DEF Next, Acts

\* Of a session that is over and has no index, the last file is gone, or the prune
\* that removed its index is about to remove it.
Gone(t) == index[t] = Missing /\ Over(t)
NoneLost ==
  (\A t \in Sessions : ~At(t, "crashed")) =>
    \A s \in Sessions :
      Gone(s) /\ span[s].last # 0 /\ events[s][span[s].last] # Missing => BeingPruned(s)

LEMMA LostStep == TraceInv /\ TraceInv' /\ NoneLost /\ [Next]_vars => NoneLost'
<1> SUFFICES ASSUME TraceInv, TraceInv', NoneLost, [Next]_vars,
                    \A t \in Sessions : ~At(t, "crashed")',
                    NEW u \in Sessions, Gone(u)', span'[u].last # 0,
                    events'[u][span'[u].last] # Missing
             PROVE  BeingPruned(u)'
  BY DEF NoneLost
<1>1. \A t \in Sessions : ~At(t, "crashed")
  BY OverStays DEF Over, At
<1>2. Typing /\ Typing' /\ Filed(u) /\ Filed(u)'
  BY DEF TraceInv
<1>3. CASE Over(u)
  <2>1. /\ proc'[u] = proc[u] /\ span'[u] = span[u]
        /\ \A d \in Days : events'[u][d] \in {events[u][d], Missing}
    BY <1>3, OverStays
  <2>2. span[u].last \in Days
    <3>1. span[u].last \in Nat /\ day \in 1 .. LastDay
      BY <1>2 DEF Typing, Days
    <3>2. span[u].last <= day /\ span[u].last # 0
      BY <1>2, <2>1 DEF Filed
    <3> QED BY <3>1, <3>2, TraceBoundAssumption DEF Days
  <2>3. events[u][span[u].last] # Missing
    BY <2>1, <2>2
  <2>4. CASE index[u] = Missing
    <3>1. PICK t \in Sessions : At(t, "prune-events") /\ proc[t].victim.session = u
      BY <1>1, <1>3, <2>1, <2>3, <2>4 DEF NoneLost, Gone, BeingPruned
    <3>2. CASE proc'[t] = proc[t]
      BY <3>1, <3>2 DEF BeingPruned, At
    <3>3. CASE proc'[t] # proc[t]
      <4>1. PruneEvents(t)
        <5>1. PICK s \in Sessions : Acts(s)
          BY <3>3 DEF Next, Acts, NextDay, vars
        <5>2. s = t
          BY <3>3, <5>1, OthersOnlyLose
        <5>3. ~Crash(t)
          <6>1. Crash(t) => proc'[t].pc = "crashed"
            BY <1>2, IdleType DEF Crash, Goes, Typing, Processes
          <6> QED BY <6>1 DEF At
        <5> QED BY <3>1, <5>1, <5>2, <5>3
                DEF Acts, Step, StartCommand, TruncateEvents, WritePart, WriteEvents,
                    TruncateIndex, WriteIndex, RunCommand, ListIndexes, SelectLatestSession,
                    BuildDebugReport,
                    ExportTrace, BuildTelemetrySummary, PruneList, PruneRead, PruneIndex,
                    PruneDone, At
      <4>2. /\ proc[t].victim \in Victims /\ Outlived(proc[t].victim)
        BY <1>2, <3>1 DEF TraceInv, Typing, Processes, Shape, Pruning, At
      <4>3. proc[t].victim.day = span[u].last
        BY <1>1, <3>1, <4>2 DEF Outlived
      <4>4. events'[u][span[u].last] = Missing
        BY <1>2, <2>2, <3>1, <4>1, <4>3 DEF PruneEvents, Typing
      <4> QED BY <2>1, <4>4
    <3> QED BY <3>2, <3>3
  <2>5. CASE index[u] # Missing
    <3>1. index'[u] # index[u]
      BY <2>5 DEF Gone
    <3>2. PICK s \in Sessions : Acts(s)
      BY <3>1 DEF Next, Acts, NextDay, vars
    <3>3. s # u
      BY <1>3, <3>2, ActsAlive
    <3> QED BY <3>1, <3>2, <3>3, OthersOnlyLose
  <2> QED BY <2>4, <2>5
<1>4. CASE ~Over(u)
  <2>1. Next
    BY <1>4 DEF Gone, Over, vars
  <2>2. index[u] = Missing
    <3> SUFFICES ASSUME index[u] # Missing PROVE FALSE
      OBVIOUS
    <3>1. Removed(u)
      BY DEF Gone, Removed
    <3> QED BY <1>4, <2>1, <3>1, RemovedOutlived DEF Outlived
  <2>3. Acts(u)
    <3>1. PICK s \in Sessions : Acts(s)
      BY <1>4, <2>1 DEF Next, Acts, NextDay, Gone, Over
    <3> QED BY <1>4, <3>1, OthersOnlyLose DEF Gone, Over
  <2>4. ~Crash(u)
    <3>1. Crash(u) => proc'[u].pc = "crashed"
      BY <1>2, IdleType DEF Crash, Goes, Typing, Processes
    <3> QED BY <3>1 DEF At
  <2>5. ~TruncateEvents(u) /\ ~WritePart(u) /\ ~WriteEvents(u)
    <3>1. TruncateEvents(u) => proc'[u].pc = "write"
      BY <1>2 DEF TruncateEvents, Goes, Typing, Processes
    <3>2. WriteEvents(u) => proc'[u].pc = "truncate"
      BY <1>2 DEF WriteEvents, Goes, Typing, Processes
    <3>3. WritePart(u) => proc'[u].pc = "write"
      BY DEF WritePart, At
    <3> QED BY <3>1, <3>2, <3>3 DEF Gone, Over
  <2>6. ~TruncateIndex(u)
    BY <1>2, Sentinels DEF TruncateIndex, Gone, Typing
  <2>7. UNCHANGED span
    BY <2>3, <2>4, <2>5
       DEF Acts, Step, StartCommand, TruncateIndex, WriteIndex,
           RunCommand, ListIndexes, SelectLatestSession, BuildDebugReport,
           ExportTrace, BuildTelemetrySummary, PruneList, PruneRead, PruneIndex,
           PruneEvents, PruneDone
  <2>8. At(u, "write") \/ At(u, "truncate")
    BY <1>2, <1>4, <2>2, <2>7 DEF Filed
  <2> QED BY <2>3, <2>4, <2>5, <2>6, <2>8
          DEF Acts, Step, StartCommand, WriteIndex,
              RunCommand, ListIndexes, SelectLatestSession, BuildDebugReport,
              ExportTrace, BuildTelemetrySummary, PruneList, PruneRead, PruneIndex,
              PruneEvents, PruneDone, At
<1> QED BY <1>3, <1>4

\* TraceStore: no event file is left that no index leads to, but for the earlier
\* files of a session that ran past midnight and what a crash left behind.
THEOREM FilesAreFound == Spec => []NoLostEventFile
<1>1. Init => NoneLost
  BY DEF Init, NoneLost
<1>2. TraceInv /\ NoneLost => NoLostEventFile
  <2> SUFFICES ASSUME TraceInv, NoneLost, \A t \in Sessions : ~At(t, "crashed"),
                      NEW s \in Sessions, NEW d \in Days,
                      events[s][d] # Missing, ~Appending(s), ~BeingPruned(s)
               PROVE  \/ index[s] \notin {Missing, Torn} /\ index[s].day = d
                      \/ d < span[s].last
    BY DEF NoLostEventFile
  <2>1. Filed(s) /\ d <= span[s].last /\ span[s].last \in Nat /\ d \in Nat /\ d # 0
    BY DEF TraceInv, Typing, Filed, Days
  <2>2. CASE d < span[s].last
    BY <2>2
  <2>3. CASE d = span[s].last
    <3>1. index[s] # Torn
      BY <2>1 DEF Filed, Appending, At
    <3>2. index[s] # Missing
      <4> SUFFICES ASSUME index[s] = Missing PROVE FALSE
        OBVIOUS
      <4>1. span[s].first # 0
        BY <2>1, <2>3 DEF Filed
      <4>2. Over(s)
        BY <2>1, <4>1 DEF Filed, Appending, At
      <4> QED BY <2>1, <2>3, <4>2 DEF NoneLost, Gone
    <3>3. index[s] = BuildSessionIndex(File(s), span[s].last)
      BY <2>1, <3>1, <3>2 DEF Filed, Listed, Appending, At
    <3> QED BY <2>3, <3>1, <3>2, <3>3 DEF BuildSessionIndex
  <2> QED BY <2>1, <2>2, <2>3
<1> QED BY <1>1, <1>2, StoreHolds, LostStep, PTL DEF Spec

-----------------------------------------------------------------------------
(***************************************************************************)
(* A prune that ends has done its work.                                    *)
(***************************************************************************)

LEMMA SpanGrows ==
  ASSUME TraceInv, [Next]_vars, NEW t \in Sessions
  PROVE  /\ span[t].last <= span'[t].last
         /\ span[t].first # 0 => /\ span'[t].first = span[t].first
                                 /\ CrossedMidnight(t) => CrossedMidnight(t)'
<1>1. /\ Typing /\ Filed(t) /\ span[t].first \in Nat /\ span[t].last \in Nat
      /\ day \in Nat /\ span[t].last <= day /\ span[t].first <= span[t].last
  <2>1. Typing /\ Filed(t)
    BY DEF TraceInv
  <2>2. span[t].first \in Nat /\ span[t].last \in Nat /\ day \in Nat
    <3>1. span[t] \in [first : Nat, last : Nat] /\ day \in Days
      BY <2>1 DEF Typing
    <3> QED BY <3>1 DEF Days
  <2>3. span[t].last <= day /\ span[t].first <= span[t].last
    BY <2>1 DEF Filed
  <2> QED BY <2>1, <2>2, <2>3
<1>2. CASE UNCHANGED span
  BY <1>1, <1>2 DEF CrossedMidnight
<1>3. CASE \E s \in Sessions : TruncateEvents(s)
  <2>1. PICK s \in Sessions :
          span' = [span EXCEPT ![s] =
                     [first |-> IF span[s].first = 0 THEN day ELSE span[s].first, last |-> day]]
    BY <1>3 DEF TruncateEvents
  <2>2. CASE s = t
    <3>1. span'[t] = [first |-> IF span[t].first = 0 THEN day ELSE span[t].first, last |-> day]
      BY <1>1, <2>1, <2>2 DEF Typing
    <3> QED BY <1>1, <3>1 DEF CrossedMidnight
  <2>3. CASE s # t
    BY <1>1, <2>1, <2>3 DEF Typing, CrossedMidnight
  <2> QED BY <2>2, <2>3
<1> QED BY <1>2, <1>3
        DEF Next, Step, StartCommand, WritePart, WriteEvents, TruncateIndex, WriteIndex,
            RunCommand, ListIndexes, SelectLatestSession, BuildDebugReport, ExportTrace,
            BuildTelemetrySummary, PruneList,
            PruneRead, PruneIndex, PruneEvents, PruneDone, Crash, NextDay, vars

\* What a prune still has to do with a session it listed: nothing, since it keeps it,
\* since it is gone, ran past midnight or is recent; or it is to be removed.
Settled(p, t, kept) ==
  /\ span[t].first # 0
  /\ \/ t \in kept
     \/ \E v \in p.victims : v.session = t
     \/ Gone(t)
     \/ CrossedMidnight(t)
     \/ span[t].first + MaxDays >= p.now
Settles(s, p) ==
  p.pc \in {"prune-index", "prune-events"} =>
    \E kept \in SUBSET Sessions :
      Cardinality(kept) <= MaxSessions /\ \A t \in p.names \ {s} : Settled(p, t, kept)
Thorough == \A s \in Sessions : Settles(s, proc[s])

LEMMA SettledStays ==
  ASSUME TraceInv, [Next]_vars, NEW s \in Sessions, NEW p \in Processes, Settles(s, p)
  PROVE  Settles(s, p)'
<1> SUFFICES ASSUME NEW kept, NEW t \in Sessions, Settled(p, t, kept) PROVE Settled(p, t, kept)'
  BY DEF Settles, Processes
<1>1. Gone(t) => Gone(t)'
  BY OverStays DEF Gone, Over
<1> QED BY <1>1, SpanGrows DEF Settled

LEMMA PruneReadSettles ==
  ASSUME TraceInv, NEW s \in Sessions, PruneRead(s)
  PROVE  Settles(s, proc'[s])
<1>1. /\ At(s, "prune-read") /\ proc[s] \in Processes /\ Typing
      /\ proc[s].names \subseteq Sessions /\ proc[s].now \in Nat
  <2>1. At(s, "prune-read") /\ proc[s] \in Processes /\ Typing
    BY DEF PruneRead, TraceInv, Typing
  <2> QED BY <2>1 DEF Processes
<1>2. CASE PruneStops(s)
  BY <1>1, <1>2, IdleType DEF PruneStops, Goes, Typing, Processes, Settles
<1>3. ASSUME Listable(proc[s].names),
             NEW victims \in Expired(s, proc[s].names, proc[s].now),
             Goes(s, [proc[s] EXCEPT !.pc = "prune-index", !.victims = victims])
      PROVE  Settles(s, proc'[s])
  <2> DEFINE others == proc[s].names \ {s}
             now == proc[s].now
  <2>1. /\ proc'[s].victims = victims /\ proc'[s].names = proc[s].names
        /\ proc'[s].now = now
    BY <1>1, <1>3 DEF Goes, Typing, Processes
  <2>2. PICK kept \in KeptByCount(others) :
          victims = {[session |-> t, day |-> index[t].day] : t \in Outdated(others, now) \ kept}
    BY <1>3 DEF Expired
  <2>3. kept \in SUBSET Sessions /\ Cardinality(kept) <= MaxSessions
    BY <1>1, <2>2 DEF KeptByCount
  <2>4. ASSUME NEW t \in others PROVE Settled(proc'[s], t, kept)
    <3>1. /\ t \in Sessions /\ Listed(t) /\ Filed(t) /\ index[t] \in Index
          /\ span[t].first \in Nat /\ span[t].last \in Nat
      BY <1>1, <1>3 DEF Listable, Listed, Typing, TraceInv
    <3>2. /\ span[t].first # 0 /\ index[t].count > 0 /\ index[t].day \in Nat
          /\ span[t].first <= index[t].day /\ index[t].day <= span[t].last
      BY <3>1 DEF Filed, Listed, Index, Days
    <3>3. CASE IsWithinAge(index[t], now)
      <4>1. CrossedMidnight(t) \/ span[t].first + MaxDays >= now
        BY <1>1, <3>1, <3>2, <3>3, PolicyAssumption DEF IsWithinAge, CrossedMidnight
      <4> QED BY <2>1, <3>2, <4>1 DEF Settled
    <3>4. CASE ~IsWithinAge(index[t], now) /\ t \notin kept
      <4>1. [session |-> t, day |-> index[t].day] \in victims
        BY <2>2, <3>4 DEF Outdated
      <4> QED BY <2>1, <3>2, <4>1 DEF Settled
    <3>5. CASE t \in kept
      BY <3>2, <3>5 DEF Settled
    <3> QED BY <3>3, <3>4, <3>5
  <2> QED BY <2>1, <2>3, <2>4 DEF Settles
<1> QED BY <1>2, <1>3 DEF PruneRead

\* Only a prune that goes on is about to remove something.
LEMMA PrunesOn ==
  ASSUME TraceInv, NEW s \in Sessions, Acts(s),
         proc'[s].pc \in {"prune-index", "prune-events"}
  PROVE  /\ ~PruneStops(s)
         /\ PruneRead(s) \/ PruneIndex(s) \/ PruneEvents(s)
<1>1. Typing /\ proc[s] \in Processes /\ proc \in [Sessions -> Processes] /\ Shape(s)
  BY DEF TraceInv, Typing
<1>2. ASSUME NEW p, p \in Processes, Goes(s, p) PROVE p.pc \in {"prune-index", "prune-events"}
  BY <1>1, <1>2 DEF Goes
<1>3. ASSUME NEW p, p \in Processes, p.pc \notin {"prune-index", "prune-events"} PROVE ~Goes(s, p)
  BY <1>2, <1>3
<1>4. /\ ~PruneStops(s) /\ ~Crash(s) /\ ~PruneDone(s)
      /\ ~TruncateEvents(s) /\ ~WritePart(s) /\ ~WriteEvents(s) /\ ~TruncateIndex(s)
      /\ ~ListIndexes(s) /\ ~PruneList(s)
  <2>1. ~PruneStops(s)
    <3>1. PruneStops(s) => proc'[s].pc = "done"
      BY <1>1, IdleType DEF PruneStops, Goes, Processes
    <3> QED BY <3>1
  <2>2. ~Crash(s)
    BY <1>1, <1>2, IdleType DEF Crash, Processes, Pcs
  <2>3. ~TruncateEvents(s) /\ ~WritePart(s) /\ ~WriteEvents(s) /\ ~TruncateIndex(s)
    <3>1. TruncateEvents(s) => proc'[s].pc = "write"
      BY <1>1 DEF TruncateEvents, Goes, Processes
    <3>2. WritePart(s) => proc'[s].pc = "write"
      BY DEF WritePart, At
    <3>3. WriteEvents(s) => proc'[s].pc = "truncate"
      BY <1>1 DEF WriteEvents, Goes, Processes
    <3>4. TruncateIndex(s) => proc'[s].pc = "index"
      BY <1>1 DEF TruncateIndex, Goes, Processes
    <3> QED BY <3>1, <3>2, <3>3, <3>4
  <2>4. ~ListIndexes(s) /\ ~PruneList(s)
    <3>1. ListIndexes(s) => proc'[s].pc = "select"
      BY <1>1 DEF ListIndexes, Goes, Processes
    <3>2. PruneList(s) => proc'[s].pc = "prune-read"
      BY <1>1 DEF PruneList, Goes, Processes
    <3> QED BY <3>1, <3>2
  <2> QED BY <2>1, <2>2, <2>3, <2>4 DEF PruneDone
<1>5. ~WriteIndex(s)
  <2> SUFFICES ASSUME WriteIndex(s) PROVE FALSE
    OBVIOUS
  <2>1. CASE proc'[s] = [proc[s] EXCEPT !.todo = Tail(proc[s].todo), !.pc = "append"]
    BY <1>1, <2>1 DEF Processes
  <2>2. CASE proc'[s] = [Idle EXCEPT !.ok = proc[s].ok, !.pc = "prune"]
    BY <1>1, <2>2, IdleType DEF Processes
  <2>3. CASE /\ proc'[s] = [proc[s] EXCEPT !.todo = Tail(proc[s].todo), !.pc = proc[s].then]
             /\ proc[s].then \in {"body", "report"}
    BY <1>1, <2>3 DEF Processes
  <2> QED BY <2>1, <2>2, <2>3, WritesOn
<1>6. ~StartCommand(s) /\ ~RunCommand(s) /\ ~SelectLatestSession(s) /\ ~BuildDebugReport(s)
      /\ ~ExportTrace(s) /\ ~BuildTelemetrySummary(s)
  <2>1. ASSUME NEW p, NEW outcomes, NEW then, Goes(s, Emit(p, outcomes, then)), p \in Processes
        PROVE  FALSE
    BY <1>1, <2>1 DEF Emit, Goes, Processes
  <2>2. ASSUME NEW p, NEW outcomes, NEW ok, Goes(s, Finish(p, outcomes, ok)), p \in Processes
        PROVE  FALSE
    <3>1. proc'[s] = Finish(p, outcomes, ok)
      BY <1>1, <2>2 DEF Goes
    <3>2. Finish(p, outcomes, ok).pc = "append"
      BY <2>2 DEF Finish, Emit, Processes
    <3> QED BY <3>1, <3>2
  <2>3. ~Goes(s, Throw(proc[s]))
    BY <1>1, <2>2 DEF Throw
  <2>4. ~StartCommand(s)
    <3> SUFFICES ASSUME NEW c \in CommandsOf[s], Goes(s, Emit([Idle EXCEPT !.cmd = c], StartEvents, "body"))
                 PROVE  FALSE
      BY DEF StartCommand
    <3>1. [Idle EXCEPT !.cmd = c] \in Processes
      BY IdleType, CommandAssumption DEF Processes, Commands, Sessions
    <3> QED BY <2>1, <3>1
  <2>5. ~RunCommand(s)
    BY <1>1, <2>2, <2>3 DEF RunCommand
  <2>6. ~SelectLatestSession(s)
    <3> SUFFICES ASSUME SelectLatestSession(s) PROVE FALSE
      OBVIOUS
    <3>1. PICK t : Goes(s, [proc[s] EXCEPT !.pc = IF proc[s].cmd = "export" THEN "export" ELSE "report",
                                          !.target = t, !.latest = index[t], !.names = {}])
      BY <2>3 DEF SelectLatestSession
    <3> QED BY <1>1, <3>1 DEF Goes, Processes
  <2>7. ~BuildTelemetrySummary(s)
    BY <1>1, <2>2, <2>3 DEF BuildTelemetrySummary
  <2>8. ~BuildDebugReport(s)
    <3> SUFFICES ASSUME BuildDebugReport(s) PROVE FALSE
      OBVIOUS
    <3>1. PICK log \in Logs \cup {Torn} : log = LoadTraceEvents(proc[s].target)
      BY <1>1, LoadType DEF BuildDebugReport, Shape, At
    <3> DEFINE p == [proc[s] EXCEPT !.report = log,
                                    !.cut = @ \cup CutFor(proc[s].target, "report")]
    <3>2. /\ log # Torn
          /\ \/ Goes(s, [p EXCEPT !.pc = "export"])
             \/ Goes(s, Finish(p, <<"exported">>, TRUE))
             \/ Goes(s, Finish(p, <<>>, TRUE))
      BY <2>3, <3>1 DEF BuildDebugReport
    <3>3. p \in Processes
      BY <1>1, <3>1, <3>2 DEF Processes, CutFor
    <3> HIDE DEF p
    <3>4. ~Goes(s, [p EXCEPT !.pc = "export"])
      BY <1>1, <3>3 DEF Goes, Processes
    <3> QED BY <2>2, <3>2, <3>3, <3>4
  <2>9. ~ExportTrace(s)
    <3> SUFFICES ASSUME ExportTrace(s) PROVE FALSE
      OBVIOUS
    <3>1. PICK log \in Logs \cup {Torn} : log = LoadTraceEvents(proc[s].target)
      BY <1>1, LoadType DEF ExportTrace, Shape, At
    <3> DEFINE p == [proc[s] EXCEPT !.exported = log, !.live = Running(proc[s].target),
                                    !.cut = @ \cup CutFor(proc[s].target, "export")]
    <3>2. /\ log # Torn
          /\ \/ Goes(s, Finish(p, <<"exported", "exported">>, TRUE))
             \/ Goes(s, Emit(p, <<"exported">>, "report"))
      BY <2>3, <3>1 DEF ExportTrace
    <3>3. p \in Processes
      <4>1. log \in Logs /\ Running(proc[s].target) \in BOOLEAN
        BY <3>1, <3>2 DEF Running
      <4>2. PICK more \in SUBSET {"report", "export"} : more = CutFor(proc[s].target, "export")
        BY DEF CutFor
      <4>3. [proc[s] EXCEPT !.exported = log, !.live = Running(proc[s].target)] \in Processes
        BY ZenonT(60), <1>1, <4>1 DEF Processes
      <4>4. ASSUME NEW q \in Processes PROVE [q EXCEPT !.cut = q.cut \cup more] \in Processes
        BY DEF Processes
      <4>5. proc[s].cut = [proc[s] EXCEPT !.exported = log, !.live = Running(proc[s].target)].cut
        BY <1>1 DEF Processes
      <4> QED BY <1>1, <4>2, <4>3, <4>4, <4>5
    <3> HIDE DEF p
    <3> QED BY <2>1, <2>2, <3>2, <3>3
  <2> QED BY <2>4, <2>5, <2>6, <2>7, <2>8, <2>9
<1> QED BY <1>4, <1>5, <1>6 DEF Acts, Step

LEMMA ThoroughStep == TraceInv /\ TraceInv' /\ Thorough /\ [Next]_vars => Thorough'
<1> SUFFICES ASSUME TraceInv, TraceInv', Thorough, [Next]_vars, NEW s \in Sessions
             PROVE  Settles(s, proc[s])'
  BY DEF Thorough
<1>1. /\ Typing /\ proc[s] \in Processes /\ proc'[s] \in Processes /\ Settles(s, proc[s])
      /\ Pruning(s) /\ Shape(s)
  BY DEF TraceInv, Typing, Thorough
<1>2. ASSUME Settles(s, proc'[s]) PROVE Settles(s, proc[s])'
  <2>1. ASSUME NEW p \in Processes, Settles(s, p) PROVE Settles(s, p)'
    BY <2>1, SettledStays
  <2>2. PICK p : p = proc'[s]
    OBVIOUS
  <2>3. Settles(s, p)'
    BY <1>1, <1>2, <2>1, <2>2
  <2> QED BY <2>2, <2>3 DEF Settles, Settled
<1>3. CASE proc'[s] = proc[s]
  BY <1>1, <1>2, <1>3
<1>4. CASE proc'[s].pc \notin {"prune-index", "prune-events"}
  BY <1>4 DEF Settles
<1>5. CASE proc'[s] # proc[s] /\ proc'[s].pc \in {"prune-index", "prune-events"}
  <2>1. PICK u \in Sessions : Acts(u)
    BY <1>5 DEF Next, Acts, NextDay, vars
  <2>2. Acts(s)
    BY <1>5, <2>1, OthersOnlyLose
  <2>3. ~PruneStops(s) /\ (PruneRead(s) \/ PruneIndex(s) \/ PruneEvents(s))
    BY <1>5, <2>2, PrunesOn
  <2>4. CASE PruneRead(s)
    BY <1>2, <2>4, PruneReadSettles
  <2>5. CASE PruneIndex(s)
    <3>1. /\ proc'[s].names = proc[s].names /\ proc'[s].now = proc[s].now
          /\ proc'[s].victims = proc[s].victims /\ At(s, "prune-index")
      <4>1. PICK v \in proc[s].victims :
              Goes(s, [proc[s] EXCEPT !.pc = "prune-events", !.victim = v])
        BY <1>1, <2>3, <2>5 DEF PruneIndex
      <4> QED BY <1>1, <2>5, <4>1 DEF Goes, Typing, Processes, PruneIndex
    <3> QED BY <1>1, <1>2, <3>1 DEF Settles, Settled, At
  <2>6. CASE PruneEvents(s)
    <3> DEFINE v == proc[s].victim
    <3>1. /\ proc'[s].names = proc[s].names /\ proc'[s].now = proc[s].now
          /\ proc'[s].victims = proc[s].victims \ {v} /\ At(s, "prune-events")
      <4>1. Goes(s, [proc[s] EXCEPT !.pc = "prune-index", !.victims = @ \ {proc[s].victim},
                                    !.victim = Missing])
        BY <1>1, <2>3, <2>6 DEF PruneEvents
      <4> QED BY <1>1, <2>6, <4>1 DEF Goes, Typing, Processes, PruneEvents
    <3>2. Gone(v.session)
      BY <1>1, <3>1 DEF Pruning, Outlived, Shape, Gone, At
    <3>3. PICK kept \in SUBSET Sessions :
            /\ Cardinality(kept) <= MaxSessions
            /\ \A t \in proc[s].names \ {s} : Settled(proc[s], t, kept)
      BY <1>1, <3>1 DEF Settles, At
    <3>4. \A t \in proc[s].names \ {s} : Settled(proc'[s], t, kept)
      BY <3>1, <3>2, <3>3 DEF Settled
    <3> QED BY <1>2, <3>1, <3>3, <3>4 DEF Settles
  <2> QED BY <2>3, <2>4, <2>5, <2>6
<1> QED BY <1>3, <1>4, <1>5

\* What a prune that is done leaves of what it listed is among what it keeps.
LEMMA DoneIsThorough ==
  ASSUME TraceInv, Thorough, NEW s \in Sessions, PruneDone(s)
  PROVE  Cardinality({t \in proc[s].names \ {s} :
                        index[t] \notin {Missing, Torn} /\ ~IsWithinAge(index[t], proc[s].now)
                        /\ ~CrossedMidnight(t)}) <= MaxSessions
<1> DEFINE left == {t \in proc[s].names \ {s} :
                      index[t] \notin {Missing, Torn} /\ ~IsWithinAge(index[t], proc[s].now)
                      /\ ~CrossedMidnight(t)}
<1>1. /\ Typing /\ At(s, "prune-index") /\ proc[s].victims = {}
      /\ proc[s].names \subseteq Sessions /\ proc[s].now \in Nat
  <2>1. Typing /\ At(s, "prune-index") /\ proc[s].victims = {}
    BY DEF TraceInv, PruneDone
  <2>2. proc[s] \in Processes
    BY <2>1 DEF Typing
  <2> QED BY <2>1, <2>2 DEF Processes
<1>2. PICK kept \in SUBSET Sessions :
        /\ Cardinality(kept) <= MaxSessions
        /\ \A t \in proc[s].names \ {s} : Settled(proc[s], t, kept)
  BY <1>1 DEF Thorough, Settles, At
<1>3. ASSUME NEW t \in left PROVE t \in kept
  <2>1. /\ t \in Sessions /\ Listed(t) /\ Filed(t) /\ index[t] \in Index
        /\ span[t].first \in Nat /\ span[t].last \in Nat /\ ~CrossedMidnight(t)
        /\ ~IsWithinAge(index[t], proc[s].now)
    BY <1>1 DEF Typing, TraceInv, Listed
  <2>2. /\ index[t].count > 0 /\ index[t].day \in Nat
        /\ span[t].first <= index[t].day
    BY <2>1 DEF Filed, Index, Days
  <2>3. ~(span[t].first + MaxDays >= proc[s].now)
    BY <1>1, <2>1, <2>2, PolicyAssumption DEF IsWithinAge
  <2>4. Settled(proc[s], t, kept) /\ ~Gone(t)
    BY <1>2, <2>1 DEF Gone, Listed
  <2> QED BY <1>1, <2>1, <2>3, <2>4 DEF Settled
<1>4. IsFiniteSet(kept) /\ IsFiniteSet(left)
  BY <1>1, FiniteSessions
<1>5. Cardinality(left) <= Cardinality(kept) /\ Cardinality(left) \in Nat
      /\ Cardinality(kept) \in Nat
  BY <1>3, <1>4, FS_Subset, FS_CardinalityType
<1> HIDE DEF left
<1>6. Cardinality(left) <= MaxSessions
  BY <1>2, <1>5, PolicyAssumption
<1> QED BY <1>6 DEF left

\* TraceStore: a prune that writes its retention state has removed what outlived the
\* policy.
THEOREM PrunesAreThorough == Spec => PruneIsThorough
<1> DEFINE Done ==
      \A s \in Sessions :
        At(s, "prune-index") /\ PruneDone(s) =>
          Cardinality({t \in proc[s].names \ {s} :
                         index[t] \notin {Missing, Torn} /\ ~IsWithinAge(index[t], proc[s].now)
                         /\ ~CrossedMidnight(t)}) <= MaxSessions
<1>1. Init => Thorough
  BY DEF Init, Idle, Thorough, Settles
<1>2. TraceInv /\ Thorough /\ [Next]_vars => [Done]_vars
  BY DoneIsThorough
<1>3. PruneIsThorough <=> [][Done]_vars
  BY DEF PruneIsThorough
<1> HIDE DEF Done
<1> QED BY <1>1, <1>2, <1>3, StoreHolds, ThoroughStep, PTL DEF Spec

-----------------------------------------------------------------------------
(***************************************************************************)
(* What a reader takes from another session.                               *)
(***************************************************************************)

Seen(t) == span[t].first # 0 /\ (index[t] # Missing \/ Over(t))
Same(t) == index[t] # Missing /\ ~CrossedMidnight(t) /\ ~At(t, "crashed")
Awaits(p, then) == p.pc \in {"append", "write", "truncate", "index"} /\ p.then = then
\* The events of the last day: what is being written, or the file.
LastLog(t) == LogOn(t, span[t].last)

\* What a process may hold at each place of its program.
Placed(p) ==
  /\ p.latest = Missing => p.report = Missing /\ p.exported = Missing
  /\ p.pc \in {"ready", "body", "select"} \/ Awaits(p, "body") => p.latest = Missing
  /\ p.pc = "export" => p.cmd \in {"bundle", "export"}
  /\ p.pc = "report" \/ Awaits(p, "report") => p.cmd = "export" \/ p.exported = Missing

\* The index it was told of is no more than is in the log, what it reported and
\* exported is no more either, and as much as there was, unless the file was being
\* written when it was read.
Learned(p) ==
  LET t == p.target IN
  /\ p.latest.count <= Len(LastLog(t)) /\ (p.latest.failed => Fails(LastLog(t)))
  /\ p.report # Missing =>
       /\ Len(p.report) <= Len(LastLog(t))
       /\ "report" \notin p.cut =>
            p.latest.count <= Len(p.report) /\ (p.latest.failed => Fails(p.report))
  /\ p.exported # Missing /\ ~p.live => Over(t) /\ Len(p.exported) = Len(LastLog(t))
  /\ /\ p.report # Missing /\ p.exported # Missing
     /\ IF p.cmd = "bundle" THEN "export" \notin p.cut ELSE ~p.live
     => Len(p.report) <= Len(p.exported)

Knows(p) ==
  /\ Placed(p)
  /\ p.latest # Missing => /\ p.target \in Sessions /\ Seen(p.target)
                           /\ Same(p.target) => Learned(p)
Reading == \A s \in Sessions : Knows(proc[s])

\* The file of the last day is that log, or a part of it while it is written.
LEMMA LogType ==
  ASSUME TraceInv, NEW t \in Sessions, Seen(t), Same(t)
  PROVE  /\ span[t].last \in Days /\ LastLog(t) \in Logs
         /\ ~At(t, "write") => LastLog(t) = File(t)
         /\ File(t) # Torn => File(t) \in Logs /\ Len(File(t)) <= Len(LastLog(t))
<1> DEFINE last == span[t].last
           file == events[t][last]
<1>1. /\ Filed(t) /\ Typing /\ last \in Nat /\ span[t].first \in Nat
      /\ day \in Nat /\ day <= LastDay /\ proc[t] \in Processes
  BY DEF TraceInv, Typing, Days
<1>2. last \in Days
  BY <1>1, TraceBoundAssumption DEF Filed, Seen, Days
<1>3. file \in Logs \cup {Missing, Torn}
  BY <1>1, <1>2 DEF Typing
<1>4. CASE At(t, "write")
  <2>1. LastLog(t) = proc[t].held /\ proc[t].held \in Logs
    BY <1>1, <1>4 DEF LastLog, LogOn, Processes
  <2>2. file # Missing /\ (file = Torn \/ Len(file) <= Len(proc[t].held))
    BY <1>1, <1>4 DEF Filed
  <2> HIDE DEF last
  <2> QED BY <1>2, <1>3, <1>4, <2>1, <2>2, Sentinels DEF File, ParseJsonLines, last
<1>5. CASE ~At(t, "write")
  <2>1. ParseJsonLines(file) \in Logs /\ LogOn(t, last) = ParseJsonLines(file)
    BY <1>2, <1>5, FileOfDay DEF Same
  <2>2. File(t) = ParseJsonLines(file) /\ LastLog(t) = File(t)
    BY <2>1 DEF File, LastLog
  <2> QED BY <1>2, <1>5, <2>1, <2>2, LogLength
<1> QED BY <1>4, <1>5

LEMMA EmitsNext ==
  ASSUME NEW p, "pc" \in DOMAIN p, NEW outcomes, NEW ok, NEW then
  PROVE  /\ Emit(p, outcomes, then).pc = "append"
         /\ Finish(p, outcomes, ok).pc = "append" /\ Throw(p).pc = "append"
BY DEF Emit, Finish, Throw

\* Only the steps that write an event file start at, or lead to, one being written.
LEMMA NotWriting ==
  ASSUME TraceInv, NEW s \in Sessions, Acts(s),
         ~TruncateEvents(s), ~WritePart(s), ~WriteEvents(s), ~Crash(s)
  PROVE  ~At(s, "write") /\ ~At(s, "write")'
<1>1. Typing /\ proc[s] \in Processes /\ proc \in [Sessions -> Processes] /\ Shape(s)
  BY DEF TraceInv, Typing
<1>2. ASSUME NEW p, Goes(s, p) PROVE proc'[s] = p
  BY <1>1, <1>2 DEF Goes
<1>3. ~At(s, "write")
  BY DEF Acts, Step, StartCommand, TruncateIndex, WriteIndex, RunCommand, ListIndexes,
         SelectLatestSession, BuildDebugReport, ExportTrace, BuildTelemetrySummary,
         PruneList, PruneRead, PruneIndex, PruneEvents, PruneDone, At
<1>4. proc'[s].pc # "write"
  <2>1. CASE StartCommand(s)
    <3>1. PICK c \in CommandsOf[s] : Goes(s, Emit([Idle EXCEPT !.cmd = c], StartEvents, "body"))
      BY <2>1 DEF StartCommand
    <3>2. [Idle EXCEPT !.cmd = c] \in Processes
      <4>1. c \in Commands
        BY CommandAssumption DEF Sessions, Commands
      <4> QED BY <4>1, IdleType DEF Processes
    <3>3. Emit([Idle EXCEPT !.cmd = c], StartEvents, "body").pc = "append"
      BY <3>2, EventAssumption, EmitType
    <3> QED BY <1>2, <3>1, <3>3
  <2>2. CASE TruncateIndex(s)
    BY <1>1, <2>2 DEF TruncateIndex, Goes, Processes
  <2>3. CASE WriteIndex(s)
    <3>1. CASE proc'[s] = [proc[s] EXCEPT !.todo = Tail(proc[s].todo), !.pc = "append"]
      BY <1>1, <3>1 DEF Processes
    <3>2. CASE proc'[s] = [Idle EXCEPT !.ok = proc[s].ok, !.pc = "prune"]
      BY <1>1, <3>2, IdleType DEF Processes
    <3>3. CASE /\ proc'[s] = [proc[s] EXCEPT !.todo = Tail(proc[s].todo), !.pc = proc[s].then]
               /\ proc[s].then \in {"body", "report"}
      BY <1>1, <3>3 DEF Processes
    <3> QED BY <2>3, <3>1, <3>2, <3>3, WritesOn
  <2>4. "pc" \in DOMAIN proc[s]
    BY <1>1 DEF Processes
  <2>5. CASE RunCommand(s) \/ BuildTelemetrySummary(s)
    <3>1. PICK ok \in BOOLEAN : Goes(s, Finish(proc[s], <<>>, ok)) \/ Goes(s, Throw(proc[s]))
      BY <2>5 DEF RunCommand, BuildTelemetrySummary
    <3> QED BY <1>2, <2>4, <3>1, EmitsNext
  <2>6. CASE ListIndexes(s) \/ SelectLatestSession(s)
    <3>1. PICK t : \/ Goes(s, [proc[s] EXCEPT !.pc = "select", !.names = Indexed])
                   \/ Goes(s, [proc[s] EXCEPT
                                 !.pc = IF proc[s].cmd = "export" THEN "export" ELSE "report",
                                 !.target = t, !.latest = index[t], !.names = {}])
                   \/ Goes(s, Throw(proc[s]))
      BY <2>6 DEF ListIndexes, SelectLatestSession
    <3>2. \/ proc'[s] = [proc[s] EXCEPT !.pc = "select", !.names = Indexed]
          \/ proc'[s] = [proc[s] EXCEPT
                           !.pc = IF proc[s].cmd = "export" THEN "export" ELSE "report",
                           !.target = t, !.latest = index[t], !.names = {}]
          \/ proc'[s] = Throw(proc[s])
      BY <1>2, <3>1
    <3> QED BY <2>4, <3>2, EmitsNext
  <2>7. CASE BuildDebugReport(s)
    <3>1. PICK p : /\ "pc" \in DOMAIN p
                   /\ \/ Goes(s, Throw(p)) \/ Goes(s, [p EXCEPT !.pc = "export"])
                      \/ Goes(s, Finish(p, <<"exported">>, TRUE)) \/ Goes(s, Finish(p, <<>>, TRUE))
      BY <2>4, <2>7 DEF BuildDebugReport
    <3> QED BY <1>2, <3>1, EmitsNext
  <2>8. CASE ExportTrace(s)
    <3>1. PICK p : /\ "pc" \in DOMAIN p
                   /\ \/ Goes(s, Throw(p)) \/ Goes(s, Finish(p, <<"exported", "exported">>, TRUE))
                      \/ Goes(s, Emit(p, <<"exported">>, "report"))
      BY <2>4, <2>8 DEF ExportTrace
    <3> QED BY <1>2, <3>1, EmitsNext
  <2>9. CASE PruneList(s) \/ PruneStops(s) \/ PruneRead(s)
    <3>1. PICK victims : \/ Goes(s, [proc[s] EXCEPT !.pc = "prune-read", !.names = Indexed,
                                                   !.now = day])
                         \/ Goes(s, [Idle EXCEPT !.pc = "done", !.ok = proc[s].ok])
                         \/ Goes(s, [proc[s] EXCEPT !.pc = "prune-index", !.victims = victims])
      BY <2>9 DEF PruneList, PruneRead, PruneStops
    <3>2. "pc" \in DOMAIN Idle
      BY DEF Idle
    <3>3. \/ proc'[s] = [proc[s] EXCEPT !.pc = "prune-read", !.names = Indexed, !.now = day]
          \/ proc'[s] = [Idle EXCEPT !.pc = "done", !.ok = proc[s].ok]
          \/ proc'[s] = [proc[s] EXCEPT !.pc = "prune-index", !.victims = victims]
      BY <1>2, <3>1
    <3> QED BY <2>4, <3>2, <3>3
  <2>10. CASE PruneIndex(s) \/ PruneEvents(s) \/ PruneDone(s)
    <3> SUFFICES ASSUME ~PruneStops(s) PROVE proc'[s].pc # "write"
      BY <2>9
    <3> QED BY <1>1, <1>2, <2>10 DEF PruneIndex, PruneEvents, PruneDone, Processes
  <2> QED BY <2>1, <2>2, <2>3, <2>5, <2>6, <2>7, <2>8, <2>9, <2>10 DEF Acts, Step
<1> QED BY <1>3, <1>4 DEF At

\* The log of a session that stays the same only grows, and not once it is over.
LEMMA LogGrows ==
  ASSUME TraceInv, TraceInv', [Next]_vars, NEW t \in Sessions, Seen(t)
  PROVE  /\ Seen(t)'
         /\ Over(t) => Over(t)'
         /\ Same(t)' => /\ Same(t) /\ LastLog(t) \in Logs /\ LastLog(t)' \in Logs
                        /\ Len(LastLog(t)) <= Len(LastLog(t)')
                        /\ Fails(LastLog(t)) => Fails(LastLog(t)')
                        /\ Over(t) => LastLog(t)' = LastLog(t)
<1>1. /\ Typing /\ Typing' /\ Filed(t) /\ Filed(t)' /\ span[t].first # 0
      /\ span[t].first \in Nat /\ span[t].last \in Nat
      /\ proc \in [Sessions -> Processes]
  BY DEF TraceInv, Typing, Seen
<1>2. /\ span'[t].first = span[t].first /\ span[t].last <= span'[t].last
      /\ CrossedMidnight(t) => CrossedMidnight(t)'
  BY <1>1, SpanGrows
<1>3. Over(t) => Over(t)' /\ index'[t] \in {index[t], Missing}
  BY OverStays DEF Over
<1>4. index[t] # Missing /\ index'[t] = Missing => Over(t)
  <2> SUFFICES ASSUME index[t] # Missing, index'[t] = Missing PROVE Over(t)
    OBVIOUS
  <2>1. Removed(t) /\ Next
    BY DEF Removed, vars
  <2> QED BY <2>1, RemovedOutlived DEF Outlived
<1>5. Seen(t)'
  BY <1>2, <1>3, <1>4 DEF Seen
<1>6. ASSUME Same(t)'
      PROVE  /\ Same(t) /\ LastLog(t) \in Logs /\ LastLog(t)' \in Logs
             /\ Len(LastLog(t)) <= Len(LastLog(t)')
             /\ Fails(LastLog(t)) => Fails(LastLog(t)')
             /\ Over(t) => LastLog(t)' = LastLog(t)
  <2>1. Same(t)
    <3>1. index[t] # Missing
      BY <1>3, <1>6 DEF Same, Seen
    <3>2. ~At(t, "crashed")
      BY <1>6, OverStays DEF Same, At, Over
    <3> QED BY <1>2, <1>6, <3>1, <3>2 DEF Same
  <2>2. span'[t].last = span[t].last
    BY <1>2, <1>6, <2>1 DEF Same, CrossedMidnight
  <2> DEFINE d == span[t].last
  <2>3. d \in Days /\ LastLog(t) \in Logs
    BY <2>1, LogType
  <2>4. CASE LastLog(t)' = LastLog(t)
    BY <2>1, <2>3, <2>4, LogLength
  <2>5. CASE TruncateEvents(t)
    <3> DEFINE new == Append(ParseJsonLines(events[t][day]), Head(proc[t].todo))
    <3>1. /\ span'[t].last = day /\ At(t, "append") /\ Shape(t) /\ proc[t] \in Processes
          /\ proc'[t] = [proc[t] EXCEPT !.pc = "write", !.held = new]
      BY <1>1, <2>5 DEF TruncateEvents, Goes, Typing, TraceInv
    <3>2. LastLog(t) = ParseJsonLines(events[t][day]) /\ day = span[t].last
      BY <2>2, <3>1 DEF LastLog, LogOn, At
    <3>3. Head(proc[t].todo) \in Outcomes
      BY <3>1, Parts DEF Shape, Pending, At, Processes
    <3>4. /\ new \in Logs \ {<<>>} /\ Len(LastLog(t)) < Len(new)
          /\ Fails(LastLog(t)) => Fails(new)
      BY <2>3, <3>2, <3>3, Appended
    <3> HIDE DEF new
    <3>5. proc'[t].pc = "write" /\ proc'[t].held = new
      BY <3>1 DEF Processes
    <3>6. LastLog(t)' = new
      BY <3>5 DEF LastLog, LogOn, At
    <3>7. ~Over(t)
      BY <3>1 DEF At, Over
    <3> QED BY <2>1, <2>3, <3>4, <3>6, <3>7, LogLength
  <2>6. CASE WriteEvents(t) \/ WritePart(t)
    <3>1. LastLog(t) = proc[t].held
      BY <2>6 DEF WriteEvents, WritePart, LastLog, LogOn, At
    <3>2. CASE WritePart(t)
      <4>1. LastLog(t)' = proc[t].held
        BY <2>2, <3>2 DEF WritePart, LastLog, LogOn, At
      <4> QED BY <2>4, <3>1, <4>1
    <3>3. CASE WriteEvents(t)
      <4>1. proc'[t].pc = "truncate" /\ events'[t][d] = proc[t].held
        BY <1>1, <2>3, <3>3 DEF WriteEvents, Goes, Processes, Typing
      <4>2. LastLog(t)' = proc[t].held
        BY <2>2, <2>3, <3>1, <4>1, Sentinels DEF LastLog, LogOn, At, ParseJsonLines
      <4> QED BY <2>4, <3>1, <4>2
    <3> QED BY <2>6, <3>2, <3>3
  <2>7. CASE ~TruncateEvents(t) /\ ~WriteEvents(t) /\ ~WritePart(t)
    <3>1. (At(t, "write") => proc'[t] = proc[t]) /\ (At(t, "write")' => proc'[t] = proc[t])
      <4>1. CASE proc'[t] = proc[t]
        BY <4>1
      <4>2. CASE proc'[t] # proc[t]
        <5>1. PICK s \in Sessions : Acts(s)
          BY <4>2 DEF Next, Acts, NextDay, vars
        <5>2. Acts(t)
          BY <4>2, <5>1, OthersOnlyLose
        <5>3. ~Crash(t)
          <6>1. Crash(t) => proc'[t].pc = "crashed"
            BY <1>1, IdleType DEF Crash, Goes, Processes
          <6> QED BY <1>6, <6>1 DEF Same, At
        <5>4. ~At(t, "write") /\ ~At(t, "write")'
          BY <2>7, <5>2, <5>3, NotWriting
        <5> QED BY <5>4
      <4> QED BY <4>1, <4>2
    <3>2. CASE events'[t][d] = events[t][d]
      <4>1. LastLog(t)' = LastLog(t)
        BY <2>2, <3>1, <3>2 DEF LastLog, LogOn, At
      <4> QED BY <2>4, <4>1
    <3>3. CASE events'[t][d] # events[t][d]
      <4>1. PICK s \in Sessions : Acts(s)
        BY <3>3 DEF Next, Acts, NextDay, vars
      <4>2. PruneEvents(s)
        <5>1. events' # events
          BY <3>3
        <5>2. ~TruncateEvents(s) /\ ~WriteEvents(s) /\ ~WritePart(s)
          BY <1>1, <2>7, <3>3 DEF TruncateEvents, WriteEvents, WritePart, Typing
        <5> QED BY <4>1, <5>1, <5>2
                DEF Acts, Step, StartCommand, TruncateIndex, WriteIndex, RunCommand, ListIndexes,
                    SelectLatestSession, BuildDebugReport, ExportTrace, BuildTelemetrySummary,
                    PruneList, PruneRead, PruneIndex, PruneDone, Crash
      <4>3. Pruning(s) /\ At(s, "prune-events") /\ UNCHANGED index
        BY <4>2 DEF PruneEvents, TraceInv
      <4>4. proc[s].victim.session = t
        BY <1>1, <3>3, <4>2 DEF PruneEvents, Typing
      <4> QED BY <1>6, <2>1, <4>3, <4>4 DEF Pruning, Same
    <3> QED BY <3>2, <3>3
  <2> QED BY <2>5, <2>6, <2>7
<1> QED BY <1>3, <1>5, <1>6

\* What a process knows stays true, whatever anyone does.
LEMMA KnowsStays ==
  ASSUME TraceInv, TraceInv', [Next]_vars, NEW p \in Processes, Knows(p)
  PROVE  Knows(p)'
<1>1. CASE p.latest = Missing
  BY <1>1 DEF Knows, Placed, Awaits
<1>2. CASE p.latest # Missing
  <2> DEFINE t == p.target
  <2>1. /\ t \in Sessions /\ Seen(t) /\ p.latest # Missing /\ p.latest \in Index
        /\ p.latest.count \in Nat
        /\ p.report # Missing => p.report \in Logs
        /\ p.exported # Missing => p.exported \in Logs
    BY <1>2 DEF Knows, Processes, Index
  <2>2. ASSUME Same(t)' PROVE Learned(p)'
    <3>1. /\ Learned(p) /\ Same(t)
          /\ Len(LastLog(t)) <= Len(LastLog(t)')
          /\ Fails(LastLog(t)) => Fails(LastLog(t)')
          /\ Over(t) => LastLog(t)' = LastLog(t) /\ Over(t)'
      BY <1>2, <2>1, <2>2, LogGrows DEF Knows
    <3>2. Len(LastLog(t)) \in Nat /\ Len(LastLog(t)') \in Nat
      BY <2>1, <2>2, LogGrows, LogLength
    <3>3. /\ p.report # Missing => Len(p.report) \in Nat
      BY <2>1, LogLength
    <3> QED BY <2>1, <3>1, <3>2, <3>3 DEF Learned
  <2>3. Seen(t)'
    BY <2>1, LogGrows
  <2> QED BY <1>2, <2>1, <2>2, <2>3 DEF Knows, Placed, Awaits
<1> QED BY <1>1, <1>2

\* A process that goes on knows no less.
LEMMA KnowsMoves ==
  ASSUME NEW p, NEW q, Knows(p),
         q.cmd = p.cmd, q.target = p.target, q.latest = p.latest, q.live = p.live,
         q.cut = p.cut, q.report = p.report, q.exported = p.exported,
         q.pc \in {"ready", "body", "select"} \/ Awaits(q, "body") => p.latest = Missing,
         q.pc = "export" => p.cmd \in {"bundle", "export"},
         q.pc = "report" \/ Awaits(q, "report") => p.cmd = "export" \/ p.exported = Missing
  PROVE  Knows(q)
<1>1. Placed(q)
  BY DEF Knows, Placed
<1>2. q.latest # Missing /\ Same(q.target) => Learned(q)
  BY DEF Knows, Learned
<1> QED BY <1>1, <1>2 DEF Knows

LEMMA KnowsNothing ==
  ASSUME NEW q, q.latest = Missing, q.report = Missing,
         q.exported = Missing, q.pc # "export"
  PROVE  Knows(q)
BY DEF Knows, Placed

LEMMA KnowsIdle ==
  ASSUME NEW pc \in Pcs \ {"export"}, NEW ok \in BOOLEAN
  PROVE  Knows([Idle EXCEPT !.ok = ok, !.pc = pc]) /\ Knows([Idle EXCEPT !.pc = pc])
<1>1. ASSUME NEW q \in {[Idle EXCEPT !.ok = ok, !.pc = pc], [Idle EXCEPT !.pc = pc]}
      PROVE  /\ q.latest = Missing /\ q.report = Missing
             /\ q.exported = Missing /\ q.pc # "export"
  BY IdleType DEF Processes
<1> QED BY <1>1, KnowsNothing

LEMMA KnowsFinish ==
  ASSUME NEW p \in Processes, Knows(p), NEW outcomes \in Logs, NEW ok \in BOOLEAN,
         NEW q \in {Finish(p, outcomes, ok), Throw(p)}
  PROVE  Knows(q)
<1>1. /\ q.pc = "append" /\ q.then = "prune"
      /\ q.cmd = p.cmd /\ q.target = p.target /\ q.latest = p.latest /\ q.live = p.live
      /\ q.cut = p.cut /\ q.report = p.report /\ q.exported = p.exported
  <2>1. CASE q = Finish(p, outcomes, ok)
    BY <2>1, FinishType
  <2>2. CASE q = Throw(p)
    BY <2>2, ThrowType
  <2> QED BY <2>1, <2>2
<1> QED BY <1>1, KnowsMoves DEF Awaits

\* What the events read are: of a session that stayed the same the log, or a part of it.
LEMMA LoadIsLog ==
  ASSUME TraceInv, NEW t \in Sessions, Seen(t), Same(t), LoadTraceEvents(t) # Torn
  PROVE  /\ LoadTraceEvents(t) \in Logs /\ LastLog(t) \in Logs
         /\ Len(LoadTraceEvents(t)) <= Len(LastLog(t))
         /\ ~At(t, "write") => LoadTraceEvents(t) = LastLog(t)
<1>1. Typing /\ Filed(t) /\ span[t].first \in Nat /\ span[t].last \in Nat
  BY DEF TraceInv, Typing
<1>2. Listed(t)
  BY DEF Same, Listed, LoadTraceEvents
<1>3. index[t].day = span[t].last
  <2>1. index[t].day \in Nat
    BY <1>1, <1>2 DEF Typing, Listed, Index, Days
  <2> QED BY <1>1, <1>2, <2>1 DEF Filed, Same, CrossedMidnight
<1>4. LoadTraceEvents(t) = File(t)
  BY <1>2, <1>3 DEF Listed, LoadTraceEvents, File
<1> QED BY <1>4, LogType

LEMMA SelectKnows ==
  ASSUME TraceInv, NEW s \in Sessions, Knows(proc[s]), SelectLatestSession(s)
  PROVE  Knows(proc'[s])
<1>1. /\ Typing /\ proc[s] \in Processes /\ At(s, "select")
      /\ proc \in [Sessions -> Processes]
  BY DEF TraceInv, Typing, SelectLatestSession
<1>2. CASE Goes(s, Throw(proc[s]))
  BY <1>1, <1>2, KnowsFinish, Sentinels DEF Goes
<1>3. ASSUME NEW t \in Newest(proc[s].names \ {s}), Listable(proc[s].names),
             Goes(s, [proc[s] EXCEPT !.pc = IF proc[s].cmd = "export" THEN "export" ELSE "report",
                                     !.target = t, !.latest = index[t], !.names = {}])
      PROVE  Knows(proc'[s])
  <2> DEFINE q == proc'[s]
  <2>1. /\ q.pc = IF proc[s].cmd = "export" THEN "export" ELSE "report"
        /\ q.target = t /\ q.latest = index[t] /\ q.cmd = proc[s].cmd
        /\ q.report = proc[s].report /\ q.exported = proc[s].exported
    BY <1>1, <1>3 DEF Goes, Processes
  <2>2. proc[s].report = Missing /\ proc[s].exported = Missing
    BY <1>1 DEF Knows, Placed, At
  <2>3. /\ t \in Sessions /\ Listed(t) /\ index[t] \in Index /\ Filed(t)
        /\ span[t].first \in Nat /\ span[t].last \in Nat
    <3>1. t \in proc[s].names /\ proc[s].names \subseteq Sessions
      BY <1>1, <1>3 DEF Newest, Processes
    <3> QED BY <1>1, <1>3, <3>1 DEF Listable, Listed, Typing, TraceInv
  <2>4. Seen(t) /\ index[t] # Missing
    <3>1. index[t] # Missing /\ index[t].day \in Nat
      BY <2>3 DEF Listed, Index, Days
    <3>2. span[t].first # 0
      BY <2>3, <3>1 DEF Filed
    <3> QED BY <2>3, <3>1, <3>2 DEF Seen
  <2>5. Placed(q)
    BY <2>1, <2>2, <2>4 DEF Placed, Awaits
  <2>6. ASSUME Same(t) PROVE Learned(q)
    <3>1. index[t].day = span[t].last
      <4>1. index[t].day \in Nat
        BY <2>3 DEF Index, Days
      <4> QED BY <2>3, <2>6, <4>1 DEF Filed, Same, CrossedMidnight
    <3>2. LastLog(t) \in Logs /\ (~At(t, "write") => LastLog(t) = File(t))
      BY <2>3, <2>4, <2>6, LogType
    <3>3. index[t].count <= Len(LastLog(t)) /\ (index[t].failed => Fails(LastLog(t)))
      <4>1. CASE At(t, "write") \/ At(t, "truncate")
        BY <2>3, <2>6, <3>1, <4>1 DEF Filed, Same, LastLog
      <4>2. CASE ~At(t, "write") /\ ~At(t, "truncate")
        <5>1. index[t] = BuildSessionIndex(LastLog(t), span[t].last)
          BY <2>3, <2>6, <3>2, <4>2 DEF Filed, Same
        <5>2. index[t].count = Len(LastLog(t)) /\ index[t].failed = Fails(LastLog(t))
          BY <5>1 DEF BuildSessionIndex
        <5> QED BY <3>2, <5>2, LogLength
      <4> QED BY <4>1, <4>2
    <3> QED BY <2>1, <2>2, <3>3 DEF Learned
  <2> QED BY <2>1, <2>3, <2>4, <2>5, <2>6 DEF Knows, Listed
<1> QED BY <1>2, <1>3 DEF SelectLatestSession

LEMMA ReportKnows ==
  ASSUME TraceInv, NEW s \in Sessions, Knows(proc[s]), BuildDebugReport(s)
  PROVE  Knows(proc'[s])
<1> DEFINE t == proc[s].target
           log == LoadTraceEvents(t)
           p == [proc[s] EXCEPT !.report = log, !.cut = @ \cup CutFor(t, "report")]
<1>1. /\ Typing /\ proc[s] \in Processes /\ proc[s].pc = "report"
      /\ proc \in [Sessions -> Processes] /\ t \in Sessions /\ proc[s].latest \in Index
  BY DEF TraceInv, Typing, BuildDebugReport, Shape, At
<1>2. CASE Goes(s, Throw(proc[s]))
  BY <1>1, <1>2, KnowsFinish, Sentinels DEF Goes
<1>3. CASE log # Torn /\ ~Goes(s, Throw(proc[s]))
  <2>1. log \in Logs
    BY <1>1, <1>3, LoadType
  <2>2. /\ p \in Processes /\ p.pc = "report" /\ p.report = log
        /\ p.cmd = proc[s].cmd /\ p.target = t /\ p.latest = proc[s].latest
        /\ p.live = proc[s].live /\ p.exported = proc[s].exported
        /\ p.cut = proc[s].cut \cup CutFor(t, "report")
    BY <1>1, <2>1 DEF Processes, CutFor
  <2>3. \/ Goes(s, [p EXCEPT !.pc = "export"]) /\ p.cmd = "bundle"
        \/ Goes(s, Finish(p, <<"exported">>, TRUE))
        \/ Goes(s, Finish(p, <<>>, TRUE))
    BY <1>3, <2>2 DEF BuildDebugReport
  <2>4. proc[s].cmd = "export" \/ proc[s].exported = Missing
    BY <1>1 DEF Knows, Placed
  <2>5. ASSUME Same(t) PROVE Learned(p)
    <3>1. Seen(t) /\ Learned(proc[s])
      BY <1>1, <2>5, Sentinels DEF Knows
    <3>2. /\ Len(log) <= Len(LastLog(t)) /\ (~At(t, "write") => log = LastLog(t))
          /\ Len(log) \in Nat /\ Len(LastLog(t)) \in Nat
      BY <1>1, <1>3, <2>5, <3>1, LoadIsLog, LogLength
    <3>3. "report" \notin p.cut => log = LastLog(t)
      BY <2>2, <3>2 DEF CutFor
    <3>4. Over(t) => log = LastLog(t)
      BY <3>2 DEF Over, At
    <3> HIDE DEF t, log, p
    <3> QED BY <2>2, <2>4, <3>1, <3>2, <3>3, <3>4 DEF Learned, t
  <2> HIDE DEF p
  <2>6. Knows(p)
    BY <1>1, <2>2, <2>4, <2>5, Sentinels DEF Knows, Placed, Awaits
  <2>7. CASE Goes(s, [p EXCEPT !.pc = "export"]) /\ p.cmd = "bundle"
    <3> DEFINE q == [p EXCEPT !.pc = "export"]
    <3>1. /\ q.pc = "export" /\ q.cmd = p.cmd /\ q.target = p.target /\ q.latest = p.latest
          /\ q.live = p.live /\ q.cut = p.cut /\ q.report = p.report
          /\ q.exported = p.exported
      BY <2>2 DEF Processes
    <3>2. proc'[s] = q
      BY <1>1, <2>7 DEF Goes
    <3> HIDE DEF q
    <3> QED BY <2>6, <2>7, <3>1, <3>2, KnowsMoves DEF Awaits
  <2>8. <<"exported">> \in Logs
    BY DEF Logs, Outcomes
  <2>9. ASSUME NEW outcomes \in Logs, Goes(s, Finish(p, outcomes, TRUE)) PROVE Knows(proc'[s])
    <3>1. proc'[s] = Finish(p, outcomes, TRUE)
      BY <1>1, <2>9 DEF Goes
    <3> QED BY <2>2, <2>6, <3>1, KnowsFinish
  <2> QED BY <2>3, <2>7, <2>8, <2>9, Sentinels
<1> QED BY <1>2, <1>3 DEF BuildDebugReport

LEMMA ExportKnows ==
  ASSUME TraceInv, NEW s \in Sessions, Knows(proc[s]), ExportTrace(s)
  PROVE  Knows(proc'[s])
<1> DEFINE t == proc[s].target
           log == LoadTraceEvents(t)
           p == [proc[s] EXCEPT !.exported = log, !.live = Running(t),
                                !.cut = @ \cup CutFor(t, "export")]
<1>1. /\ Typing /\ proc[s] \in Processes /\ proc[s].pc = "export"
      /\ proc \in [Sessions -> Processes] /\ t \in Sessions /\ proc[s].latest \in Index
  BY DEF TraceInv, Typing, ExportTrace, Shape, At
<1>2. CASE Goes(s, Throw(proc[s]))
  BY <1>1, <1>2, KnowsFinish, Sentinels DEF Goes
<1>3. CASE log # Torn /\ ~Goes(s, Throw(proc[s]))
  <2>1. log \in Logs
    BY <1>1, <1>3, LoadType
  <2>2. /\ p \in Processes /\ p.pc = "export" /\ p.exported = log /\ p.live = Running(t)
        /\ p.cmd = proc[s].cmd /\ p.target = t /\ p.latest = proc[s].latest
        /\ p.report = proc[s].report /\ p.cut = proc[s].cut \cup CutFor(t, "export")
    BY <1>1, <2>1 DEF Processes, Running, CutFor
  <2>3. \/ Goes(s, Finish(p, <<"exported", "exported">>, TRUE))
        \/ Goes(s, Emit(p, <<"exported">>, "report")) /\ p.cmd # "bundle"
    BY <1>3, <2>2 DEF ExportTrace
  <2>4. p.cmd \in {"bundle", "export"} /\ Seen(t)
    BY <1>1, <2>2, Sentinels DEF Knows, Placed
  <2>5. ASSUME Same(t) PROVE Learned(p)
    <3>1. Learned(proc[s])
      BY <1>1, <2>5, Sentinels DEF Knows
    <3>2. /\ Len(log) <= Len(LastLog(t)) /\ (~At(t, "write") => log = LastLog(t))
          /\ Len(log) \in Nat /\ Len(LastLog(t)) \in Nat
      BY <1>1, <1>3, <2>4, <2>5, LoadIsLog, LogLength
    <3>3. ~Running(t) => Over(t) /\ log = LastLog(t)
      <4>1. ~At(t, "ready")
        BY <1>1, <2>4 DEF TraceInv, Filed, Seen
      <4> QED BY <3>2, <4>1 DEF Running, Over, At
    <3>4. "export" \notin p.cut => log = LastLog(t)
      BY <2>2, <3>2 DEF CutFor
    <3>5. "report" \notin p.cut => "report" \notin proc[s].cut
      BY <2>2
    <3>6. (p.report # Missing => proc[s].report # Missing) /\ p.latest = proc[s].latest
      BY <2>2
    <3> HIDE DEF t, log, p
    <3> QED BY <2>2, <3>1, <3>2, <3>3, <3>4, <3>5, <3>6 DEF Learned, t
  <2> HIDE DEF p
  <2>6. Knows(p)
    BY <1>1, <2>2, <2>4, <2>5, Sentinels DEF Knows, Placed, Awaits
  <2>7. CASE Goes(s, Emit(p, <<"exported">>, "report")) /\ p.cmd # "bundle"
    <3> DEFINE event == <<"exported">>
               q == Emit(p, event, "report")
    <3>1. event \in Logs
      BY DEF Logs, Outcomes
    <3>2. proc'[s] = q
      BY <1>1, <2>7 DEF Goes
    <3> HIDE DEF event
    <3>3. q.pc = "append" /\ q.then = "report" /\ q.cmd = p.cmd
      BY <2>2, <3>1, EmitType
    <3>4. /\ q.target = p.target /\ q.latest = p.latest
          /\ q.live = p.live /\ q.cut = p.cut /\ q.report = p.report
          /\ q.exported = p.exported
      BY <2>2, <3>1, EmitType
    <3> HIDE DEF q
    <3> QED BY <2>4, <2>6, <2>7, <3>2, <3>3, <3>4, KnowsMoves DEF Awaits
  <2>8. CASE Goes(s, Finish(p, <<"exported", "exported">>, TRUE))
    <3>1. proc'[s] = Finish(p, <<"exported", "exported">>, TRUE)
      BY <1>1, <2>8 DEF Goes
    <3>2. <<"exported", "exported">> \in Logs
      BY DEF Logs, Outcomes
    <3> QED BY <2>2, <2>6, <3>1, <3>2, KnowsFinish
  <2> QED BY <2>3, <2>7, <2>8
<1> QED BY <1>2, <1>3 DEF ExportTrace

\* A command that starts, emits, ends or prunes.
LEMMA OthersKnow ==
  ASSUME TraceInv, NEW s \in Sessions, Knows(proc[s]), Acts(s),
         ~SelectLatestSession(s), ~BuildDebugReport(s), ~ExportTrace(s)
  PROVE  Knows(proc'[s])
<1>1. Typing /\ proc[s] \in Processes /\ proc \in [Sessions -> Processes] /\ Shape(s)
  BY DEF TraceInv, Typing
<1>2. ASSUME NEW q, proc'[s] = q,
             q.cmd = proc[s].cmd, q.target = proc[s].target, q.latest = proc[s].latest,
             q.live = proc[s].live, q.cut = proc[s].cut,
             q.report = proc[s].report, q.exported = proc[s].exported,
             q.pc \in {"ready", "body", "select"} \/ Awaits(q, "body") => proc[s].latest = Missing,
             q.pc # "export",
             q.pc = "report" \/ Awaits(q, "report")
               => proc[s].cmd = "export" \/ proc[s].exported = Missing
      PROVE  Knows(proc'[s])
  BY <1>2, KnowsMoves
<1>3. CASE StartCommand(s)
  <2>1. PICK c \in CommandsOf[s] : Goes(s, Emit([Idle EXCEPT !.cmd = c], StartEvents, "body"))
    BY <1>3 DEF StartCommand
  <2> DEFINE p == [Idle EXCEPT !.cmd = c]
             q == Emit(p, StartEvents, "body")
  <2>2. /\ p \in Processes /\ p.latest = Missing /\ p.report = Missing /\ p.exported = Missing
    <3>1. c \in Commands
      BY CommandAssumption DEF Sessions, Commands
    <3> QED BY <3>1, IdleType DEF Processes
  <2>3. proc'[s] = q
    BY <1>1, <2>1 DEF Goes
  <2> HIDE DEF p
  <2>4. StartEvents \in Logs
    BY EventAssumption
  <2>5. q.pc = "append"
    BY <2>2, <2>4, EmitType
  <2>6. q.latest = p.latest /\ q.report = p.report /\ q.exported = p.exported
    BY <2>2, <2>4, EmitType
  <2> HIDE DEF q
  <2> QED BY <2>2, <2>3, <2>5, <2>6, KnowsNothing
<1>4. CASE TruncateEvents(s) \/ WritePart(s) \/ WriteEvents(s) \/ TruncateIndex(s)
  <2>1. \/ proc'[s] = proc[s]
        \/ \E pc \in {"write", "truncate", "index"} :
             \/ proc'[s] = [proc[s] EXCEPT !.pc = pc]
             \/ \E log : proc'[s] = [proc[s] EXCEPT !.pc = pc, !.held = log]
    BY <1>1, <1>4 DEF TruncateEvents, WritePart, WriteEvents, TruncateIndex, Goes
  <2>2. proc[s].pc \in {"append", "write", "truncate"}
    BY <1>4 DEF TruncateEvents, WritePart, WriteEvents, TruncateIndex, At
  <2>3. /\ proc'[s].pc \in {"write", "truncate", "index"} \/ proc'[s] = proc[s]
        /\ proc'[s].then = proc[s].then /\ proc'[s].cmd = proc[s].cmd
        /\ proc'[s].target = proc[s].target /\ proc'[s].latest = proc[s].latest
        /\ proc'[s].live = proc[s].live /\ proc'[s].cut = proc[s].cut
        /\ proc'[s].report = proc[s].report /\ proc'[s].exported = proc[s].exported
    BY <1>1, <2>1 DEF Processes
  <2> QED BY <1>1, <1>2, <2>2, <2>3 DEF Knows, Placed, Awaits
<1>5. CASE WriteIndex(s)
  <2>1. proc[s].pc = "index"
    BY <1>5 DEF WriteIndex, At
  <2>2. CASE proc'[s] = [proc[s] EXCEPT !.todo = Tail(proc[s].todo), !.pc = "append"]
    BY ZenonT(60), <1>1, <1>2, <2>1, <2>2 DEF Processes, Knows, Placed, Awaits
  <2>3. CASE proc'[s] = [Idle EXCEPT !.ok = proc[s].ok, !.pc = "prune"]
    <3>1. proc[s].ok \in BOOLEAN /\ "prune" \in Pcs \ {"export"}
      BY <1>1 DEF Processes, Pcs
    <3> QED BY ZenonT(60), <2>3, <3>1, KnowsIdle
  <2>4. CASE /\ proc'[s] = [proc[s] EXCEPT !.todo = Tail(proc[s].todo), !.pc = proc[s].then]
             /\ proc[s].then \in {"body", "report"}
    <3> DEFINE q == proc'[s]
    <3>1. q.pc = proc[s].then /\ q.pc # "export" /\ q.pc \notin {"append", "write"}
      BY <1>1, <2>4 DEF Processes
    <3>2. /\ q.cmd = proc[s].cmd /\ q.target = proc[s].target /\ q.latest = proc[s].latest
          /\ q.live = proc[s].live /\ q.cut = proc[s].cut
          /\ q.report = proc[s].report /\ q.exported = proc[s].exported
      BY <1>1, <2>4 DEF Processes
    <3>3. /\ q.pc \notin {"truncate", "index"} /\ q.pc \in {"body", "report"}
      BY <2>4, <3>1
    <3> HIDE DEF q
    <3>4. (q.pc = "body" => proc[s].latest = Missing)
          /\ (q.pc = "report" => proc[s].cmd = "export" \/ proc[s].exported = Missing)
      BY <2>1, <3>1 DEF Knows, Placed, Awaits
    <3> QED BY <3>1, <3>2, <3>3, <3>4, KnowsMoves DEF Awaits, q
  <2> QED BY <1>5, <2>2, <2>3, <2>4, WritesOn
<1>6. CASE RunCommand(s) \/ BuildTelemetrySummary(s)
  <2>1. PICK ok \in BOOLEAN : Goes(s, Finish(proc[s], <<>>, ok)) \/ Goes(s, Throw(proc[s]))
    BY <1>6 DEF RunCommand, BuildTelemetrySummary
  <2>2. proc'[s] \in {Finish(proc[s], <<>>, ok), Throw(proc[s])}
    BY <1>1, <2>1 DEF Goes
  <2> QED BY <1>1, <2>2, KnowsFinish, Sentinels
<1>7. CASE ListIndexes(s)
  <2>1. proc'[s] = [proc[s] EXCEPT !.pc = "select", !.names = Indexed] /\ proc[s].pc = "body"
    BY <1>1, <1>7 DEF ListIndexes, Goes, At
  <2> QED BY <1>1, <1>2, <2>1 DEF Processes, Knows, Placed, Awaits
<1>8. CASE PruneStops(s)
  <2>1. proc'[s] = [Idle EXCEPT !.ok = proc[s].ok, !.pc = "done"]
    BY <1>1, <1>8 DEF PruneStops, Goes
  <2>2. proc[s].ok \in BOOLEAN /\ "done" \in Pcs \ {"export"}
    BY <1>1 DEF Processes, Pcs
  <2> QED BY ZenonT(60), <2>1, <2>2, KnowsIdle
<1>9. CASE Crash(s)
  <2>1. proc'[s] = [Idle EXCEPT !.pc = "crashed"]
    BY <1>1, <1>9 DEF Crash, Goes
  <2> QED BY <2>1, KnowsIdle DEF Pcs
<1>10. CASE PruneList(s) \/ PruneRead(s) \/ PruneIndex(s) \/ PruneEvents(s)
  <2> SUFFICES ASSUME ~PruneStops(s) PROVE Knows(proc'[s])
    BY <1>8
  <2>1. CASE PruneList(s)
    <3>1. proc'[s] = [proc[s] EXCEPT !.pc = "prune-read", !.names = Indexed, !.now = day]
      BY <1>1, <2>1 DEF PruneList, Goes
    <3> QED BY <1>1, <1>2, <3>1 DEF Processes, Awaits
  <2>2. CASE PruneRead(s)
    <3>1. PICK victims : proc'[s] = [proc[s] EXCEPT !.pc = "prune-index", !.victims = victims]
      BY <1>1, <2>2 DEF PruneRead, Goes
    <3> QED BY <1>1, <1>2, <3>1 DEF Processes, Awaits
  <2>3. CASE PruneIndex(s)
    <3>1. PICK v : proc'[s] = [proc[s] EXCEPT !.pc = "prune-events", !.victim = v]
      BY <1>1, <2>3 DEF PruneIndex, Goes
    <3>2. /\ proc'[s].pc = "prune-events"
          /\ proc'[s].cmd = proc[s].cmd /\ proc'[s].target = proc[s].target
          /\ proc'[s].latest = proc[s].latest /\ proc'[s].live = proc[s].live
          /\ proc'[s].cut = proc[s].cut /\ proc'[s].report = proc[s].report
          /\ proc'[s].exported = proc[s].exported
      BY <1>1, <3>1 DEF Processes
    <3> QED BY <1>2, <3>2 DEF Awaits
  <2>4. CASE PruneEvents(s)
    <3>1. PICK victims : proc'[s] = [proc[s] EXCEPT !.pc = "prune-index", !.victims = victims,
                                                   !.victim = Missing]
      BY <1>1, <2>4 DEF PruneEvents, Goes
    <3>2. /\ proc'[s].pc = "prune-index"
          /\ proc'[s].cmd = proc[s].cmd /\ proc'[s].target = proc[s].target
          /\ proc'[s].latest = proc[s].latest /\ proc'[s].live = proc[s].live
          /\ proc'[s].cut = proc[s].cut /\ proc'[s].report = proc[s].report
          /\ proc'[s].exported = proc[s].exported
      BY <1>1, <3>1 DEF Processes
    <3> QED BY <1>2, <3>2 DEF Awaits
  <2> QED BY <1>10, <2>1, <2>2, <2>3, <2>4
<1> QED BY <1>3, <1>4, <1>5, <1>6, <1>7, <1>8, <1>9, <1>10 DEF Acts, Step, PruneDone

LEMMA ReadingStep == TraceInv /\ TraceInv' /\ Reading /\ [Next]_vars => Reading'
<1> SUFFICES ASSUME TraceInv, TraceInv', Reading, [Next]_vars, NEW s \in Sessions
             PROVE  Knows(proc[s])'
  BY DEF Reading
<1>1. proc[s] \in Processes /\ proc'[s] \in Processes /\ Knows(proc[s])
  BY DEF TraceInv, Typing, Reading
<1>2. Knows(proc'[s])
  <2>1. CASE proc'[s] = proc[s]
    BY <1>1, <2>1
  <2>2. CASE proc'[s] # proc[s]
    <3>1. PICK u \in Sessions : Acts(u)
      BY <2>2 DEF Next, Acts, NextDay, vars
    <3>2. Acts(s)
      BY <2>2, <3>1, OthersOnlyLose
    <3> QED BY <1>1, <3>2, SelectKnows, ReportKnows, ExportKnows, OthersKnow
  <2> QED BY <2>1, <2>2
<1>3. ASSUME NEW p \in Processes, Knows(p) PROVE Knows(p)'
  BY <1>3, KnowsStays
<1>4. PICK p \in Processes : p = proc'[s]
  BY <1>1
<1>5. Knows(p)'
  BY <1>2, <1>3, <1>4
<1> QED BY <1>4, <1>5 DEF Knows, Placed, Learned, Awaits

LEMMA ReadingHolds == Spec => [](TraceInv /\ Reading)
<1>1. Init => Reading
  <2> SUFFICES ASSUME Init, NEW s \in Sessions PROVE Knows(proc[s])
    BY DEF Reading
  <2>1. proc[s] = Idle /\ Idle.pc # "export"
    BY DEF Init, Idle
  <2> QED BY <2>1, IdleType, KnowsNothing
<1> QED BY <1>1, StoreHolds, ReadingStep, PTL DEF Spec

\* TraceStore: a debug report names a failure that the index it was selected by tells
\* of, and no fewer events than it counted, unless the file was being written.
THEOREM ReportsNameFailures == Spec => []ReportNamesFailure
<1>1. TraceInv /\ Reading => ReportNamesFailure
  <2> SUFFICES ASSUME Reading, NEW s \in Sessions,
                      proc[s].report # Missing, "report" \notin proc[s].cut,
                      Same(proc[s].target)
               PROVE  /\ proc[s].latest.failed => Fails(proc[s].report)
                      /\ proc[s].latest.count <= Len(proc[s].report)
    BY DEF ReportNamesFailure, Same
  <2> QED BY DEF Reading, Knows, Placed, Learned
<1> QED BY <1>1, ReadingHolds, PTL

\* TraceStore: every event in the report of a bundle was scanned by its export, if that
\* did not meet the file while it was being written.
THEOREM BundlesAreScanned == Spec => []BundleWasScanned
<1>1. TraceInv /\ Reading => BundleWasScanned
  <2> SUFFICES ASSUME Reading, NEW s \in Sessions,
                      proc[s].report # Missing, proc[s].exported # Missing,
                      Same(proc[s].target),
                      IF proc[s].cmd = "bundle" THEN "export" \notin proc[s].cut
                      ELSE ~proc[s].live
               PROVE  Len(proc[s].report) <= Len(proc[s].exported)
    BY DEF BundleWasScanned, Same
  <2> QED BY DEF Reading, Knows, Placed, Learned
<1> QED BY <1>1, ReadingHolds, PTL
=============================================================================
