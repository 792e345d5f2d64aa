------------------------ MODULE HarnessCoreLogProofs ------------------------
(***************************************************************************)
(* More proofs about HarnessCore: what the end of a session leaves on      *)
(* disk, and the thread that the next process will load.                   *)
(***************************************************************************)
EXTENDS HarnessCoreRefinement

----------------------------------------------------------------------------
(* The queue files of sessions that ended. *)

\* Without failing removals, what is to be removed is removed.
LEMMA DeletableAll ==
    ASSUME NEW S, NEW drop \in Deletable(S)
    PROVE  ~DiskFaults => S \subseteq drop
  BY DEF Deletable

\* The end of sessions leaves no entry of them, when a working disk removes
\* the entries of all of them.
LEMMA EndsLeaveNoEntry ==
    ASSUME TypeOK, EndedLeavesNoEntry,
           NEW done, NEW errs, NEW canc, NEW begun, NEW drop, NEW unread,
           Ends(done, errs, canc, begun, drop, unread),
           ~DiskFaults => done \cup errs \cup canc \subseteq drop
    PROVE  EndedLeavesNoEntry'
  <1> SUFFICES ASSUME NEW s \in Sids, status'[s] \in {"done", "failed"},
                      "survived" \notin marks'[s]
               PROVE  queue'[s].file = "absent"
    BY DEF EndedLeavesNoEntry
  <1>1. queue'[s] = IF s \in drop THEN NoEntry ELSE queue[s]
    BY DEF Ends
  <1>2. CASE s \in done \cup errs \cup canc
    <2>1. marks'[s] = marks[s] \cup {"finished"}
                     \cup (IF DiskFaults /\ s \notin drop THEN {"survived"} ELSE {})
      BY <1>2 DEF Ends
    <2>2. s \in drop
      BY <1>2, <2>1
    <2> QED
      BY <1>1, <2>2 DEF NoEntry
  <1>3. CASE s \notin done \cup errs \cup canc
    <2>1. status'[s] = IF s \in begun THEN "running" ELSE status[s]
      BY <1>3 DEF Ends
    <2>2. marks[s] \subseteq marks'[s]
      BY <1>3 DEF Ends
    <2>3. queue[s].file = "absent"
      BY <2>1, <2>2 DEF EndedLeavesNoEntry
    <2> QED
      BY <1>1, <2>3 DEF NoEntry
  <1> QED
    BY <1>2, <1>3

\* A step that ends no session, adds no file and forgets no mark keeps it too;
\* so does one after which the process is gone.
LEMMA OthersLeaveNoEntry ==
    ASSUME EndedLeavesNoEntry,
           \A s \in Sids : \/ status'[s] \notin {"done", "failed"}
                           \/ /\ status'[s] = status[s] /\ marks[s] \subseteq marks'[s]
                              /\ queue'[s] \in {queue[s], NoEntry}
    PROVE  EndedLeavesNoEntry'
  BY DEF EndedLeavesNoEntry, NoEntry

LEMMA NextLeavesNoEntry ==
    ASSUME IInv, EndedLeavesNoEntry, [Next]_vars
    PROVE  EndedLeavesNoEntry'
  <1> TypeOK
    BY DEF IInv
  <1>1. ASSUME NEW s \in Sids, Submit(s) PROVE EndedLeavesNoEntry'
    <2>1. \A t \in Sids : t # s => /\ status'[t] = status[t] /\ marks'[t] = marks[t]
                                   /\ queue'[t] = queue[t]
      BY <1>1 DEF Submit, TypeOK, DiskType, ProcessType, HistoryType
    <2>2. status'[s] = "pending"
      BY <1>1 DEF Submit, TypeOK, ProcessType
    <2> QED
      BY <2>1, <2>2, OthersLeaveNoEntry
  <1>2. ASSUME NEW s \in Sids, TaskStep(s) PROVE EndedLeavesNoEntry'
    <2>1. CASE Begin(s)
      <3>1. CASE Ends({}, {}, {}, {s}, {}, {})
        BY <3>1, EndsLeaveNoEntry
      <3>2. CASE \E drop \in Deletable({s}) : Ends({}, {s}, {}, {}, drop, {})
        BY <3>2, DeletableAll, EndsLeaveNoEntry
      <3> QED
        BY <2>1, <3>1, <3>2 DEF Begin
    <2>2. CASE Reply(s)
      <3>1. PICK k \in Burns(After(s)) :
               \E drop \in Deletable({s} \cup Burnt(After(s), k)) :
                  Ends({s}, Burnt(After(s), k), {}, Resumed(After(s), k), drop, {})
        BY <2>2 DEF Reply
      <3> QED
        BY <3>1, DeletableAll, EndsLeaveNoEntry
    <2>3. CASE Raise(s)
      <3>1. PICK k \in Burns(After(s)) :
               \E drop \in Deletable({s} \cup Burnt(After(s), k)) :
                  Ends({}, {s} \cup Burnt(After(s), k), {}, Resumed(After(s), k), drop, {})
        BY <2>3 DEF Raise
      <3> QED
        BY <3>1, DeletableAll, EndsLeaveNoEntry
    <2>4. CASE Cancelled(s)
      <3>1. PICK drop \in Deletable({s}) : Ends({}, {}, {s}, {}, drop, {})
        BY <2>4 DEF Cancelled
      <3> QED
        BY <3>1, DeletableAll, EndsLeaveNoEntry
    <2>5. CASE CancelledUnstarted(s)
      BY <2>5, OthersLeaveNoEntry DEF CancelledUnstarted, disk, history
    <2> QED
      BY <1>2, <2>1, <2>2, <2>3, <2>4, <2>5 DEF TaskStep
  <1>3. CASE Stop \/ EmergencyStop \/ RestartStops \/ RestartStarts
    <2>1. UNCHANGED <<status, marks, queue>>
      BY <1>3 DEF Stop, EmergencyStop, RestartStops, RestartStarts, disk, history, sessions
    <2> QED
      BY <2>1, OthersLeaveNoEntry
  <1>4. CASE ResetChat \/ ResetAll
    <2>1. PICK gone : Wipe(gone)
      BY <1>4 DEF ResetChat, ResetAll
    <2>2. UNCHANGED status
      BY <1>4 DEF ResetChat, ResetAll, sessions
    <2> QED
      BY <2>1, <2>2, OthersLeaveNoEntry DEF Wipe
  <1>5. CASE Failure
    <2>1. Dies
      BY <1>5 DEF Failure, Crash, CrashInSubmit, CrashInReply, CrashInReset
    <2>2. \A s \in Sids : status'[s] = "none"
      BY <2>1 DEF Dies
    <2> QED
      BY <2>2, OthersLeaveNoEntry
  <1>6. CASE Start
    <2>1. PICK unread \in Unreadable :
             \E order \in InOrder(Whole \ unread) :
             \E k \in 0..Len(order) :
             \E drop \in Deletable(unread \cup RestoreDrops(Burnt(order, k))) :
                Ends({}, Burnt(order, k), {}, Resumed(order, k), drop, unread)
      BY <1>6 DEF Start
    <2>2. PICK order \in InOrder(Whole \ unread) :
             \E k \in 0..Len(order) :
             \E drop \in Deletable(unread \cup RestoreDrops(Burnt(order, k))) :
                Ends({}, Burnt(order, k), {}, Resumed(order, k), drop, unread)
      BY <2>1
    <2>3. PICK k \in 0..Len(order) :
             \E drop \in Deletable(unread \cup RestoreDrops(Burnt(order, k))) :
                Ends({}, Burnt(order, k), {}, Resumed(order, k), drop, unread)
      BY <2>2
    <2>4. PICK drop \in Deletable(unread \cup RestoreDrops(Burnt(order, k))) :
                Ends({}, Burnt(order, k), {}, Resumed(order, k), drop, unread)
      BY <2>3
    <2>5. ~DiskFaults => {} \cup Burnt(order, k) \cup {} \subseteq drop
      BY DeletableAll DEF RestoreDrops
    <2> QED
      BY <2>4, <2>5, EndsLeaveNoEntry
  <1>7. CASE UNCHANGED vars
    BY <1>7, OthersLeaveNoEntry DEF vars
  <1> QED
    BY <1>1, <1>2, <1>3, <1>4, <1>5, <1>6, <1>7 DEF Next, Shell

\* A session that the process saw end, in its own task, in the replay, by an
\* exception or by a cancellation, leaves no queue file for the next process to
\* run again, but for those whose removal failed.
THEOREM EndedIsRemoved == Spec => []EndedLeavesNoEntry
  <1>1. Init => EndedLeavesNoEntry
    BY DEF Init, NothingRuns, EndedLeavesNoEntry
  <1>2. IInv /\ EndedLeavesNoEntry /\ [Next]_vars => EndedLeavesNoEntry'
    BY NextLeavesNoEntry
  <1> QED
    BY <1>1, <1>2, InductiveInvariant, PTL DEF Spec

----------------------------------------------------------------------------
(* The thread in memory and the log. *)

\* What the log says of the thread: the same, if all of the thread loads, and
\* nothing that the thread does not hold.
Recorded(thread, lines) ==
    /\ AllLoad(thread) => thread = lines
    /\ \A i \in 1..Len(lines) : \E j \in 1..Len(thread) : thread[j] = lines[i]

\* A turn goes to the thread, and to the log if it loads.
LEMMA RecordedAppend ==
    ASSUME NEW t \in Seq(Message), NEW l \in Seq(Message), NEW m \in Message,
           Recorded(t, l), NEW k, k = IF Loads(m) THEN Append(l, m) ELSE l
    PROVE  Recorded(Append(t, m), k)
  <1> PICK u : u = Append(t, m)
    OBVIOUS
  <1>1. /\ u \in Seq(Message) /\ Len(u) = Len(t) + 1 /\ Len(t) \in Nat /\ Len(l) \in Nat
        /\ \A i \in 1..Len(t) : u[i] = t[i]
        /\ u[Len(t) + 1] = m
    OBVIOUS
  <1>2. AllLoad(u) => u = k
    <2> SUFFICES ASSUME AllLoad(u) PROVE u = k
      OBVIOUS
    <2>1. Loads(m)
      BY <1>1 DEF AllLoad
    <2>2. AllLoad(t)
      BY <1>1 DEF AllLoad
    <2> QED
      BY <2>1, <2>2 DEF Recorded
  <1>3. ASSUME NEW i \in 1..Len(k) PROVE \E j \in 1..Len(u) : u[j] = k[i]
    <2>1. CASE i \in 1..Len(l)
      <3>1. k[i] = l[i]
        BY <2>1
      <3>2. PICK j \in 1..Len(t) : t[j] = l[i]
        BY <2>1 DEF Recorded
      <3>3. j \in 1..Len(u) /\ u[j] = k[i]
        BY <1>1, <3>1, <3>2
      <3> QED
        BY <3>3
    <2>2. CASE i \notin 1..Len(l)
      <3>1. k = Append(l, m) /\ i = Len(l) + 1
        BY <1>1, <1>3, <2>2
      <3>2. k[i] = m /\ Len(t) + 1 \in 1..Len(u)
        BY <1>1, <3>1
      <3> QED
        BY <1>1, <3>2
    <2> QED
      BY <2>1, <2>2
  <1>4. Recorded(u, k)
    BY <1>2, <1>3 DEF Recorded
  <1> QED
    BY <1>4

\* A log that was just loaded, or reset.
LEMMA RecordedLoad == \A l : Recorded(l, l)
  BY DEF Recorded

\* The log of a working disk has no torn line, so that each turn that loads
\* becomes a line of its own, and the thread of a process that is up follows it.
LogFollows == ~DiskFaults => ~chatLog.torn /\ (started => Recorded(chat, chatLog.lines))

\* On a working disk an append to the log appends, if the text loads.
LEMMA LoggedAppends ==
    ASSUME ~DiskFaults, ~chatLog.torn, NEW m,
           NEW w \in WriteOutcomes, chatLog' = Logged(chatLog, m, w)
    PROVE  /\ chatLog'.lines = IF Loads(m) THEN Append(chatLog.lines, m) ELSE chatLog.lines
           /\ ~chatLog'.torn
  BY DEF WriteOutcomes, Logged

LEMMA NextLogFollows ==
    ASSUME TypeOK, LogFollows, [Next]_vars
    PROVE  LogFollows'
  <1> SUFFICES ASSUME ~DiskFaults
               PROVE  ~chatLog'.torn /\ (started' => Recorded(chat', chatLog'.lines))
    BY DEF LogFollows
  <1>1. ~chatLog.torn /\ (started => Recorded(chat, chatLog.lines))
    BY DEF LogFollows
  <1>2. chat \in Seq(Message) /\ chatLog.lines \in Seq(Message)
    BY DEF TypeOK, DiskType, ProcessType, ChatLog
  <1>3. ASSUME NEW s \in Sids, Submit(s)
        PROVE  ~chatLog'.torn /\ (started' => Recorded(chat', chatLog'.lines))
    <2>1. started /\ chat' = Append(chat, User(s)) /\ User(s) \in Message
      BY <1>3 DEF Submit, User, Message
    <2>2. PICK w \in WriteOutcomes : chatLog' = Logged(chatLog, User(s), w)
      BY <1>3 DEF Submit
    <2> QED
      BY <1>1, <1>2, <2>1, <2>2, LoggedAppends, RecordedAppend
  <1>4. ASSUME NEW s \in Sids, TaskStep(s)
        PROVE  ~chatLog'.torn /\ (started' => Recorded(chat', chatLog'.lines))
    <2>1. CASE Reply(s)
      <3>1. started' = started /\ chat' = Append(chat, Assistant(s)) /\ Assistant(s) \in Message
        BY <2>1 DEF Reply, Assistant, Message
      <3>2. PICK w \in WriteOutcomes : chatLog' = Logged(chatLog, Assistant(s), w)
        BY <2>1 DEF Reply
      <3> QED
        BY <1>1, <1>2, <3>1, <3>2, LoggedAppends, RecordedAppend
    <2>2. CASE Begin(s) \/ Raise(s) \/ Cancelled(s) \/ CancelledUnstarted(s)
      BY <1>1, <2>2 DEF Begin, Raise, Cancelled, CancelledUnstarted, disk
    <2> QED
      BY <1>4, <2>1, <2>2 DEF TaskStep
  <1>5. CASE Stop \/ EmergencyStop \/ RestartStops \/ RestartStarts
    BY <1>1, <1>5 DEF Stop, EmergencyStop, RestartStops, RestartStarts, disk
  <1>6. CASE ResetChat \/ ResetAll
    BY <1>6, RecordedLoad DEF ResetChat, ResetAll, EmptyLog
  <1>7. CASE Failure
    <2>1. started' = FALSE
      BY <1>7 DEF Failure, Crash, CrashInSubmit, CrashInReply, CrashInReset, Dies
    <2>2. ~chatLog'.torn
      <3>1. CASE Crash
        BY <1>1, <3>1 DEF Crash, disk
      <3>2. ASSUME NEW s \in Sids, CrashInSubmit(s) \/ CrashInReply(s)
            PROVE  ~chatLog'.torn
        BY <1>1, <3>2, LoggedAppends DEF CrashInSubmit, CrashInReply
      <3>3. CASE CrashInReset
        BY <3>3 DEF CrashInReset, EmptyLog
      <3> QED
        BY <1>7, <3>1, <3>2, <3>3 DEF Failure
    <2> QED
      BY <2>1, <2>2
  <1>8. CASE Start
    BY <1>1, <1>8, RecordedLoad DEF Start
  <1>9. CASE UNCHANGED vars
    BY <1>1, <1>9 DEF vars
  <1> QED
    BY <1>3, <1>4, <1>5, <1>6, <1>7, <1>8, <1>9 DEF Next, Shell

\* On a working disk, and when no prompt and no reply holds one of the characters
\* at which the load breaks lines, the thread of a process that is up is what the next
\* process will load, whatever was submitted, answered, reset or killed.
THEOREM ThreadIsLogged ==
    ASSUME Separated = {}
    PROVE  Spec => []MirrorsLog
  <1>1. Init => LogFollows
    BY DEF Init, NothingRuns, EmptyLog, LogFollows
  <1>2. TypeOK /\ LogFollows /\ [Next]_vars => LogFollows'
    BY NextLogFollows
  <1>3. LogFollows => MirrorsLog
    BY DEF LogFollows, Recorded, AllLoad, Loads, MirrorsLog
  <1> QED
    BY <1>1, <1>2, <1>3, TypeCorrect, PTL DEF Spec

----------------------------------------------------------------------------
(* The stopped agent. *)

\* The sessions that enter the agent in a step are those that it begins.
LEMMA EndsBegins ==
    ASSUME NEW done, NEW errs, NEW canc, NEW begun, NEW drop, NEW unread,
           Ends(done, errs, canc, begun, drop, unread),
           NEW s \in Sids, task[s] # "handling", task'[s] = "handling"
    PROVE  s \in begun
  BY DEF Ends

\* A replay resumes no session while the agent is stopped.
LEMMA StoppedResumesNone ==
    ASSUME NEW rest, NEW k \in Burns(rest), Resumed(rest, k) # {}
    PROVE  running
  BY DEF Burns, Resumed

LEMMA NextNoRunWhenStopped ==
    ASSUME TypeOK, [Next]_vars, NEW s \in Sids, task[s] # "handling", task'[s] = "handling"
    PROVE  running'
  <1>1. ASSUME NEW t \in Sids, Submit(t) PROVE running'
    BY <1>1 DEF Submit, TypeOK, ProcessType
  <1>2. ASSUME NEW t \in Sids, TaskStep(t) PROVE running'
    <2>1. CASE Begin(t)
      <3>1. CASE running
        BY <2>1, <3>1 DEF Begin
      <3>2. CASE \E drop \in Deletable({t}) : Ends({}, {t}, {}, {}, drop, {})
        BY <3>2, EndsBegins
      <3> QED
        BY <2>1, <3>1, <3>2 DEF Begin
    <2>2. CASE Reply(t)
      <3>1. PICK k \in Burns(After(t)) :
               \E drop \in Deletable({t} \cup Burnt(After(t), k)) :
                  Ends({t}, Burnt(After(t), k), {}, Resumed(After(t), k), drop, {})
        BY <2>2 DEF Reply
      <3> QED
        BY <2>2, <3>1, EndsBegins, StoppedResumesNone DEF Reply
    <2>3. CASE Raise(t)
      <3>1. PICK k \in Burns(After(t)) :
               \E drop \in Deletable({t} \cup Burnt(After(t), k)) :
                  Ends({}, {t} \cup Burnt(After(t), k), {}, Resumed(After(t), k), drop, {})
        BY <2>3 DEF Raise
      <3> QED
        BY <2>3, <3>1, EndsBegins, StoppedResumesNone DEF Raise
    <2>4. CASE Cancelled(t)
      BY <2>4, EndsBegins DEF Cancelled
    <2>5. CASE CancelledUnstarted(t)
      BY <2>5 DEF CancelledUnstarted, TypeOK, ProcessType
    <2> QED
      BY <1>2, <2>1, <2>2, <2>3, <2>4, <2>5 DEF TaskStep
  <1>3. CASE Shell
    <2>1. UNCHANGED task
      BY <1>3 DEF Shell, Stop, EmergencyStop, RestartStops, RestartStarts, ResetChat,
                  ResetAll, sessions
    <2> QED
      BY <2>1
  <1>4. CASE Failure
    BY <1>4 DEF Failure, Crash, CrashInSubmit, CrashInReply, CrashInReset, Dies
  <1>5. CASE Start
    BY <1>5 DEF Start
  <1>6. CASE UNCHANGED vars
    BY <1>6 DEF vars
  <1> QED
    BY <1>1, <1>2, <1>3, <1>4, <1>5, <1>6 DEF Next

\* From the stop on, no prompt enters the agent: neither a new one, nor the
\* restored one that comes next when another ends.
THEOREM StoppedRunsNothing == Spec => NoRunWhenStopped
  <1>1. TypeOK /\ [Next]_vars
        => [\A s \in Sids : task[s] # "handling" /\ task'[s] = "handling" => running']_vars
    BY NextNoRunWhenStopped
  <1> QED
    BY <1>1, TypeCorrect, PTL DEF Spec, NoRunWhenStopped
----------------------------------------------------------------------------
(* The turns in the log. *)

HasTurn(m) == \E i \in 1..Len(chatLog.lines) : chatLog.lines[i] = m

\* The sessions that this process or the next one may still give to the agent.
CanRun(s) == \/ task[s] # "none"
             \/ queue[s].file = "good"
             \/ \E i \in 1..Len(replay) : replay[i] = s

RunsAreAccepted == \A s \in Sids : CanRun(s) => "accepted" \in marks[s]

PromptsAreLogged ==
    \A s \in Sids : "accepted" \in marks[s] /\ "unpaired" \notin marks[s] => HasTurn(User(s))

\* What may still run has no reply yet, unless its entry outlived the reply.
Unanswered ==
    \A s \in Sids : snap[s].created = 0 \/ (CanRun(s) /\ "survived" \notin marks[s])
                    => ~HasTurn(Assistant(s))

TurnsInv == /\ ReplayWaits
            /\ RunsAreAccepted /\ PromptsAreLogged /\ Unanswered
            /\ RepliesFollowPrompts /\ OneReply

\* A step of a task that has started is one of Ends: it begins and leaves in
\* the replay only sessions that could run before.
LEMMA TaskStepEnds ==
    ASSUME TypeOK, NEW s \in Sids, TaskStep(s), ~CancelledUnstarted(s)
    PROVE  \E done, errs, canc, begun, drop :
              /\ Ends(done, errs, canc, begun, drop, {})
              /\ \A t \in begun : CanRun(t)
              /\ \A i \in 1..Len(replay') : CanRun(replay'[i])
  <1> replay \in Seq(Sids)
    BY DEF TypeOK, ProcessType
  <1>1. CASE Begin(s)
    <2>1. CanRun(s) /\ UNCHANGED replay
      BY <1>1 DEF Begin, CanRun
    <2>2. \A i \in 1..Len(replay') : CanRun(replay'[i])
      BY <2>1 DEF CanRun
    <2>3. CASE Ends({}, {}, {}, {s}, {}, {})
      BY <2>1, <2>2, <2>3
    <2>4. CASE \E drop \in Deletable({s}) : Ends({}, {s}, {}, {}, drop, {})
      BY <2>2, <2>4
    <2> QED
      BY <1>1, <2>3, <2>4 DEF Begin
  <1>2. ASSUME NEW k \in Burns(After(s)), replay' = IF Restored(s) THEN Left(After(s), k) ELSE replay
        PROVE  /\ \A t \in Resumed(After(s), k) : CanRun(t)
               /\ \A i \in 1..Len(replay') : CanRun(replay'[i])
    <2>1. CASE Restored(s)
      <3>1. /\ After(s) \in Seq(Sids)
            /\ \A i \in 1..Len(After(s)) : After(s)[i] = replay[i + 1] /\ i + 1 \in 1..Len(replay)
        BY <2>1 DEF After, Restored
      <3>2. \A i \in 1..Len(After(s)) : CanRun(After(s)[i])
        BY <3>1 DEF CanRun
      <3>3. k \in 0..Len(After(s))
        BY <3>1 DEF Burns
      <3>4. /\ \A t \in Resumed(After(s), k) : \E i \in 1..Len(After(s)) : t = After(s)[i]
            /\ \A i \in 1..Len(Left(After(s), k)) :
                  \E j \in 1..Len(After(s)) : Left(After(s), k)[i] = After(s)[j]
        BY <3>1, <3>3, ReplayCut
      <3>5. replay' = Left(After(s), k)
        BY <1>2, <2>1
      <3>6. \A i \in 1..Len(replay') : \E j \in 1..Len(After(s)) : replay'[i] = After(s)[j]
        BY <3>4, <3>5
      <3>7. \A i \in 1..Len(replay') : CanRun(replay'[i])
        BY <3>2, <3>6
      <3> QED
        BY <3>2, <3>4, <3>7
    <2>2. CASE ~Restored(s)
      <3>1. After(s) = <<>> /\ replay' = replay
        BY <1>2, <2>2 DEF After
      <3>2. Resumed(After(s), k) = {}
        BY <3>1 DEF Burns, Resumed
      <3>3. \A i \in 1..Len(replay') : CanRun(replay'[i])
        BY <3>1 DEF CanRun
      <3> QED
        BY <3>2, <3>3
    <2> QED
      BY <2>1, <2>2
  <1>3. CASE Reply(s)
    <2>1. PICK k \in Burns(After(s)) :
             /\ \E drop \in Deletable({s} \cup Burnt(After(s), k)) :
                   Ends({s}, Burnt(After(s), k), {}, Resumed(After(s), k), drop, {})
             /\ replay' = IF Restored(s) THEN Left(After(s), k) ELSE replay
      BY <1>3 DEF Reply
    <2> QED
      BY <1>2, <2>1
  <1>4. CASE Raise(s)
    <2>1. PICK k \in Burns(After(s)) :
             /\ \E drop \in Deletable({s} \cup Burnt(After(s), k)) :
                   Ends({}, {s} \cup Burnt(After(s), k), {}, Resumed(After(s), k), drop, {})
             /\ replay' = IF Restored(s) THEN Left(After(s), k) ELSE replay
      BY <1>4 DEF Raise
    <2> QED
      BY <1>2, <2>1
  <1>5. CASE Cancelled(s)
    <2>1. PICK drop \in Deletable({s}) : Ends({}, {}, {s}, {}, drop, {})
      BY <1>5 DEF Cancelled
    <2>2. replay' \in {<<>>, replay}
      BY <1>5 DEF Cancelled
    <2>3. \A i \in 1..Len(replay') : CanRun(replay'[i])
      BY <2>2 DEF CanRun
    <2> QED
      BY <2>1, <2>3
  <1> QED
    BY <1>1, <1>3, <1>4, <1>5 DEF TaskStep

\* So is a start: what it begins and replays has a whole entry.
LEMMA StartEnds ==
    ASSUME Start
    PROVE  \E done, errs, canc, begun, drop, unread :
              /\ Ends(done, errs, canc, begun, drop, unread)
              /\ \A t \in begun : CanRun(t)
              /\ \A i \in 1..Len(replay') : CanRun(replay'[i])
  <1>1. PICK unread \in Unreadable :
           \E order \in InOrder(Whole \ unread) :
           \E k \in 0..Len(order) :
              /\ \E drop \in Deletable(unread \cup RestoreDrops(Burnt(order, k))) :
                    Ends({}, Burnt(order, k), {}, Resumed(order, k), drop, unread)
              /\ replay' = Left(order, k)
    BY DEF Start
  <1>2. PICK order \in InOrder(Whole \ unread) :
           \E k \in 0..Len(order) :
              /\ \E drop \in Deletable(unread \cup RestoreDrops(Burnt(order, k))) :
                    Ends({}, Burnt(order, k), {}, Resumed(order, k), drop, unread)
              /\ replay' = Left(order, k)
    BY <1>1
  <1>3. PICK k \in 0..Len(order) :
              /\ \E drop \in Deletable(unread \cup RestoreDrops(Burnt(order, k))) :
                    Ends({}, Burnt(order, k), {}, Resumed(order, k), drop, unread)
              /\ replay' = Left(order, k)
    BY <1>2
  <1>4. order \in Seq(Sids) /\ \A i \in 1..Len(order) : order[i] \in Whole
    <2>1. Whole \ unread \subseteq Sids
      BY DEF Whole
    <2>2. IsFiniteSet(Whole \ unread)
      BY <2>1, CoreAssumption, FS_Subset
    <2>3. order \in Seq(Whole \ unread)
      BY <2>2, InOrderIsList
    <2> QED
      BY <2>1, <2>3
  <1>5. \A i \in 1..Len(order) : CanRun(order[i])
    BY <1>4 DEF Whole, CanRun
  <1>6. /\ \A t \in Resumed(order, k) : \E i \in 1..Len(order) : t = order[i]
        /\ \A i \in 1..Len(Left(order, k)) : \E j \in 1..Len(order) : Left(order, k)[i] = order[j]
    BY <1>4, ReplayCut
  <1>7. \A t \in Resumed(order, k) : CanRun(t)
    BY <1>5, <1>6
  <1>8. replay' = Left(order, k)
    BY <1>3
  <1>9. \A i \in 1..Len(replay') : \E j \in 1..Len(order) : replay'[i] = order[j]
    BY <1>6, <1>8
  <1>10. \A i \in 1..Len(replay') : CanRun(replay'[i])
    BY <1>5, <1>9
  <1> QED
    BY <1>3, <1>7, <1>10

\* No step takes back a mark or a submission, and submit_prompt alone accepts.
LEMMA NextMarks ==
    ASSUME IInv, [Next]_vars, NEW s \in Sids
    PROVE  /\ marks[s] \subseteq marks'[s]
           /\ snap[s].created # 0 => snap'[s] = snap[s]
           /\ "accepted" \in marks'[s] => "accepted" \in marks[s] \/ Submit(s)
  <1> TypeOK
    BY DEF IInv
  <1> DEFINE Keeps == /\ marks[s] \subseteq marks'[s]
                      /\ snap[s].created # 0 => snap'[s] = snap[s]
                      /\ "accepted" \in marks'[s] => "accepted" \in marks[s] \/ Submit(s)
  <1>1. ASSUME NEW t \in Sids, Submit(t) PROVE Keeps
    <2>1. CASE s = t
      <3>1. snap[s].created = 0
        BY <1>1, <2>1 DEF Submit
      <3>2. marks[s] = {}
        BY <3>1 DEF IInv, FreshIds
      <3> QED
        BY <1>1, <2>1, <3>1, <3>2
    <2>2. CASE s # t
      <3>1. marks'[s] = marks[s] /\ snap'[s] = snap[s]
        BY <1>1, <2>2 DEF Submit, TypeOK, HistoryType
      <3> QED
        BY <3>1
    <2> QED
      BY <2>1, <2>2
  <1>2. ASSUME NEW done, NEW errs, NEW canc, NEW begun, NEW drop, NEW unread,
               Ends(done, errs, canc, begun, drop, unread), UNCHANGED snap
        PROVE  Keeps
    BY <1>2 DEF Ends
  <1>3. ASSUME NEW t \in Sids, TaskStep(t) PROVE Keeps
    <2>1. UNCHANGED snap
      BY <1>3 DEF TaskStep, Begin, Reply, Raise, Cancelled, CancelledUnstarted, history
    <2>2. CASE CancelledUnstarted(t)
      BY <2>1, <2>2 DEF CancelledUnstarted, history
    <2>3. CASE ~CancelledUnstarted(t)
      BY <1>2, <1>3, <2>1, <2>3, TaskStepEnds
    <2> QED
      BY <2>2, <2>3
  <1>4. CASE Start
    <2>1. UNCHANGED snap
      BY <1>4 DEF Start
    <2> QED
      BY <1>2, <1>4, <2>1, StartEnds
  <1>5. CASE Stop \/ EmergencyStop \/ RestartStops \/ RestartStarts \/ Crash \/ UNCHANGED vars
    <2>1. UNCHANGED <<snap, marks>>
      BY <1>5 DEF Stop, EmergencyStop, RestartStops, RestartStarts, Crash, history, vars
    <2> QED
      BY <2>1
  <1>6. CASE ResetChat \/ ResetAll \/ CrashInReset
    <2>1. UNCHANGED snap /\ \E gone : Wipe(gone)
      BY <1>6 DEF ResetChat, ResetAll, CrashInReset
    <2>2. PICK gone : Wipe(gone)
      BY <2>1
    <2>3. /\ marks[s] \subseteq marks'[s]
          /\ "accepted" \in marks'[s] => "accepted" \in marks[s]
      BY <2>2 DEF Wipe
    <2> QED
      BY <2>1, <2>3
  <1>7. ASSUME NEW t \in Sids, CrashInSubmit(t) PROVE Keeps
    BY <1>7 DEF CrashInSubmit, TypeOK, HistoryType
  <1>8. ASSUME NEW t \in Sids, CrashInReply(t) PROVE Keeps
    <2>1. marks'[s] \in {marks[s], marks[s] \cup {"survived"}} /\ UNCHANGED snap
      BY <1>8 DEF CrashInReply, TypeOK, HistoryType
    <2> QED
      BY <2>1
  <1> QED
    BY <1>1, <1>3, <1>4, <1>5, <1>6, <1>7, <1>8 DEF Next, Shell, Failure

\* A session that may run after a step could run before it, or was submitted.
LEMMA NextRuns ==
    ASSUME IInv, [Next]_vars, NEW s \in Sids, CanRun(s)'
    PROVE  CanRun(s) \/ Submit(s)
  <1> TypeOK
    BY DEF IInv
  <1>1. ASSUME NEW t \in Sids, Submit(t) PROVE CanRun(s) \/ Submit(s)
    <2>1. CASE s # t
      <3>1. queue'[s] = queue[s]
        BY <1>1, <2>1 DEF Submit, TypeOK, DiskType
      <3>2. task'[s] = task[s] /\ UNCHANGED replay
        BY <1>1, <2>1 DEF Submit, TypeOK, ProcessType
      <3> QED
        BY <3>1, <3>2 DEF CanRun
    <2> QED
      BY <1>1, <2>1
  <1>2. ASSUME NEW done, NEW errs, NEW canc, NEW begun, NEW drop, NEW unread,
               Ends(done, errs, canc, begun, drop, unread),
               \A t \in begun : CanRun(t), \A i \in 1..Len(replay') : CanRun(replay'[i])
        PROVE  CanRun(s)
    <2>1. CASE task'[s] # "none"
      <3>1. s \in begun \/ task[s] # "none"
        BY <1>2, <2>1, EndsTask
      <3> QED
        BY <1>2, <3>1 DEF CanRun
    <2>2. CASE queue'[s].file = "good"
      <3>1. queue'[s] \in {NoEntry, queue[s]}
        BY <1>2 DEF Ends
      <3> QED
        BY <2>2, <3>1 DEF CanRun, NoEntry
    <2>3. CASE \E i \in 1..Len(replay') : replay'[i] = s
      BY <1>2, <2>3
    <2> QED
      BY <2>1, <2>2, <2>3 DEF CanRun
  <1>3. ASSUME NEW t \in Sids, TaskStep(t) PROVE CanRun(s)
    <2>1. CASE CancelledUnstarted(t)
      BY <2>1 DEF CancelledUnstarted, CanRun, disk, TypeOK, ProcessType
    <2>2. CASE ~CancelledUnstarted(t)
      BY <1>2, <1>3, <2>2, TaskStepEnds
    <2> QED
      BY <2>1, <2>2
  <1>4. CASE Start
    BY <1>2, <1>4, StartEnds
  <1>5. CASE Stop \/ EmergencyStop \/ RestartStops \/ RestartStarts \/ UNCHANGED vars
    <2>1. UNCHANGED <<task, queue, replay>>
      BY <1>5 DEF Stop, EmergencyStop, RestartStops, RestartStarts, disk, sessions, vars
    <2> QED
      BY <2>1 DEF CanRun
  <1>6. CASE ResetChat \/ ResetAll
    <2>1. UNCHANGED <<task, replay>> /\ \E gone : Wipe(gone)
      BY <1>6 DEF ResetChat, ResetAll, sessions
    <2>2. queue'[s] \in {NoEntry, queue[s]}
      BY <2>1 DEF Wipe
    <2> QED
      BY <2>1, <2>2 DEF CanRun, NoEntry
  <1>7. CASE Failure
    <2>1. Dies
      BY <1>7 DEF Failure, Crash, CrashInSubmit, CrashInReply, CrashInReset
    <2>2. queue'[s].file = "good"
      BY <2>1 DEF Dies, CanRun
    <2>3. queue[s].file = "good"
      <3>1. CASE Crash
        BY <2>2, <3>1 DEF Crash, disk
      <3>2. ASSUME NEW t \in Sids, CrashInSubmit(t) PROVE queue[s].file = "good"
        BY <2>2, <3>2 DEF CrashInSubmit, TypeOK, DiskType, Entry
      <3>3. ASSUME NEW t \in Sids, CrashInReply(t) PROVE queue[s].file = "good"
        BY <2>2, <3>3 DEF CrashInReply
      <3>4. CASE CrashInReset
        BY <2>2, <3>4 DEF CrashInReset, Wipe, NoEntry
      <3> QED
        BY <1>7, <3>1, <3>2, <3>3, <3>4 DEF Failure
    <2> QED
      BY <2>3 DEF CanRun
  <1> QED
    BY <1>1, <1>3, <1>4, <1>5, <1>6, <1>7 DEF Next, Shell

\* The lines of the log: none changes, a new prompt or a reply joins them at
\* the end, or a reset takes them all and leaves every prompt unpaired.
LogKept == chatLog'.lines = chatLog.lines
LogAsked(s) == snap[s].created = 0 /\ chatLog'.lines = Append(chatLog.lines, User(s))
LogAnswered(s) == /\ Reply(s) \/ CrashInReply(s)
                  /\ chatLog'.lines = Append(chatLog.lines, Assistant(s))
LogReset == /\ chatLog'.lines = <<>>
            /\ \A s \in Given : "unpaired" \in marks'[s]

LEMMA LoggedLines ==
    ASSUME NEW m, NEW w, chatLog' = Logged(chatLog, m, w)
    PROVE  chatLog'.lines \in {chatLog.lines, Append(chatLog.lines, m)}
  BY DEF Logged

LEMMA NextLines ==
    ASSUME [Next]_vars
    PROVE  \/ LogKept \/ LogReset
           \/ \E s \in Sids : LogAsked(s) \/ LogAnswered(s)
  <1>1. ASSUME NEW s \in Sids, Submit(s) \/ CrashInSubmit(s) PROVE LogKept \/ LogAsked(s)
    BY <1>1, LoggedLines DEF Submit, CrashInSubmit, LogKept, LogAsked
  <1>2. ASSUME NEW s \in Sids, Reply(s) \/ CrashInReply(s) PROVE LogKept \/ LogAnswered(s)
    <2>1. PICK w : chatLog' = Logged(chatLog, Assistant(s), w)
      BY <1>2 DEF Reply, CrashInReply
    <2>2. chatLog'.lines \in {chatLog.lines, Append(chatLog.lines, Assistant(s))}
      BY <2>1, LoggedLines
    <2> QED
      BY <1>2, <2>2 DEF LogKept, LogAnswered
  <1>3. ASSUME NEW s \in Sids, TaskStep(s), ~Reply(s) PROVE LogKept
    BY <1>3 DEF TaskStep, Begin, Raise, Cancelled, CancelledUnstarted, disk, LogKept
  <1>4. CASE Stop \/ EmergencyStop \/ RestartStops \/ RestartStarts \/ Crash \/ Start
             \/ UNCHANGED vars
    BY <1>4 DEF Stop, EmergencyStop, RestartStops, RestartStarts, Crash, Start, disk, vars, LogKept
  <1>5. CASE ResetChat \/ ResetAll \/ CrashInReset
    <2>1. (\E gone : Wipe(gone)) /\ chatLog' \in {EmptyLog, chatLog}
      BY <1>5 DEF ResetChat, ResetAll, CrashInReset
    <2>2. \A s \in Given : "unpaired" \in marks'[s]
      BY <2>1 DEF Wipe, Given
    <2> QED
      BY <2>1, <2>2 DEF LogKept, LogReset, EmptyLog
  <1> QED
    BY <1>1, <1>2, <1>3, <1>4, <1>5 DEF Next, Shell, Failure

\* What an append does to the turns of a log.
LEMMA TurnsOfAppend ==
    ASSUME chatLog.lines \in Seq(Message), NEW n \in Message,
           chatLog'.lines = Append(chatLog.lines, n)
    PROVE  /\ \A m : HasTurn(m)' <=> HasTurn(m) \/ m = n
           /\ Len(chatLog'.lines) = Len(chatLog.lines) + 1
           /\ \A i \in 1..Len(chatLog.lines) : chatLog'.lines[i] = chatLog.lines[i]
           /\ chatLog'.lines[Len(chatLog.lines) + 1] = n
  <1>1. /\ Len(chatLog'.lines) = Len(chatLog.lines) + 1
        /\ \A i \in 1..Len(chatLog.lines) : chatLog'.lines[i] = chatLog.lines[i]
        /\ chatLog'.lines[Len(chatLog.lines) + 1] = n
    OBVIOUS
  <1>2. \A i \in 1..Len(chatLog'.lines) : i \in 1..Len(chatLog.lines) \/ i = Len(chatLog.lines) + 1
    BY <1>1
  <1>3. Len(chatLog.lines) + 1 \in 1..Len(chatLog'.lines)
        /\ \A i \in 1..Len(chatLog.lines) : i \in 1..Len(chatLog'.lines)
    BY <1>1
  <1>4. \A m : HasTurn(m)' <=> HasTurn(m) \/ m = n
    BY <1>1, <1>2, <1>3 DEF HasTurn
  <1> QED
    BY <1>1, <1>4

\* Once answered, a session does not run again, or its entry outlived the reply.
LEMMA AnsweredOnce ==
    ASSUME IInv, ReplayWaits, ReplayWaits', NEW s \in Sids,
           Reply(s) \/ CrashInReply(s), CanRun(s)'
    PROVE  "survived" \in marks'[s]
  <1> TypeOK
    BY DEF IInv
  <1> replay \in Seq(Sids)
    BY DEF TypeOK, ProcessType
  <1>1. CASE CrashInReply(s)
    <2>1. queue[s].file = "good"
      BY <1>1 DEF CrashInReply, Dies, CanRun
    <2> QED
      BY <1>1, <2>1 DEF CrashInReply, TypeOK, HistoryType
  <1>2. CASE Reply(s)
    <2>1. PICK k \in Burns(After(s)) :
             /\ \E drop \in Deletable({s} \cup Burnt(After(s), k)) :
                   Ends({s}, Burnt(After(s), k), {}, Resumed(After(s), k), drop, {})
             /\ replay' = IF Restored(s) THEN Left(After(s), k) ELSE replay
      BY <1>2 DEF Reply
    <2>2. PICK drop \in Deletable({s} \cup Burnt(After(s), k)) :
             Ends({s}, Burnt(After(s), k), {}, Resumed(After(s), k), drop, {})
      BY <2>1
    <2>3. task'[s] = "none"
      BY <2>2, EndsTask
    <2>4. \A i \in 1..Len(replay') : replay'[i] # s
      <3>1. CASE Restored(s)
        <4>1. /\ After(s) \in Seq(Sids) /\ Len(After(s)) = Len(replay) - 1
              /\ \A i \in 1..Len(After(s)) : After(s)[i] = replay[i + 1] /\ i + 1 \in 1..Len(replay)
              /\ s = replay[1] /\ 1 \in 1..Len(replay)
          BY <3>1 DEF After, Restored
        <4>2. \A i \in 1..Len(After(s)) : After(s)[i] # s
          BY <4>1 DEF ReplayWaits
        <4>3. k \in 0..Len(After(s))
          BY <4>1 DEF Burns
        <4>4. \A i \in 1..Len(Left(After(s), k)) :
                 \E j \in 1..Len(After(s)) : Left(After(s), k)[i] = After(s)[j]
          BY <4>1, <4>3, ReplayCut
        <4>5. replay' = Left(After(s), k)
          BY <2>1, <3>1
        <4>6. \A i \in 1..Len(replay') : \E j \in 1..Len(After(s)) : replay'[i] = After(s)[j]
          BY <4>4, <4>5
        <4> QED
          BY <4>2, <4>6
      <3>2. CASE ~Restored(s)
        <4>1. UNCHANGED replay /\ task[s] # "none"
          BY <1>2, <2>1, <3>2 DEF Reply
        <4> QED
          BY <3>2, <4>1, OutsideReplay
      <3> QED
        BY <3>1, <3>2
    <2>5. queue'[s].file = "good"
      BY <2>3, <2>4 DEF CanRun
    <2>6. s \notin drop
      BY <2>2, <2>5 DEF Ends, NoEntry
    <2>7. DiskFaults
      BY <2>6 DEF Deletable
    <2> QED
      BY <2>2, <2>6, <2>7 DEF Ends
  <1> QED
    BY <1>1, <1>2

LEMMA NextTurns ==
    ASSUME IInv, IInv', TurnsInv, [Next]_vars
    PROVE  TurnsInv'
  <1> DEFINE lines == chatLog.lines
  <1> TypeOK /\ TypeOK'
    BY DEF IInv
  <1>1. lines \in Seq(Message) /\ lines' \in Seq(Message)
    BY DEF TypeOK, DiskType, ChatLog
  <1>2. \A s \in Sids : User(s) \in Message /\ Assistant(s) \in Message
    BY TurnTypes
  <1>3. /\ \A s \in Sids : marks[s] \subseteq marks'[s]
        /\ \A s \in Sids : snap[s].created # 0 => snap'[s] = snap[s]
        /\ \A s \in Sids : "accepted" \in marks'[s] => "accepted" \in marks[s] \/ Submit(s)
    BY NextMarks
  <1>4. \A s \in Sids : snap[s].created = 0 => marks[s] = {}
    BY DEF IInv, FreshIds
  <1>5. ASSUME NEW s \in Sids, task[s] = "handling"
        PROVE  CanRun(s) /\ "accepted" \in marks[s] /\ snap[s].created # 0
    <2>1. CanRun(s)
      BY <1>5 DEF CanRun
    <2> QED
      BY <1>4, <2>1 DEF TurnsInv, RunsAreAccepted
  <1>6. ReplayWaits'
    BY NextReplayWaits DEF TurnsInv
  <1>7. RunsAreAccepted'
    <2> SUFFICES ASSUME NEW s \in Sids, CanRun(s)' PROVE "accepted" \in marks'[s]
      BY DEF RunsAreAccepted
    <2>1. CASE Submit(s)
      BY <2>1 DEF Submit, TypeOK, HistoryType
    <2>2. CASE CanRun(s)
      BY <1>3, <2>2 DEF TurnsInv, RunsAreAccepted
    <2> QED
      BY <2>1, <2>2, NextRuns
  <1>8. PromptsAreLogged'
    <2> SUFFICES ASSUME NEW s \in Sids, "accepted" \in marks'[s], "unpaired" \notin marks'[s]
                 PROVE  HasTurn(User(s))'
      BY DEF PromptsAreLogged
    <2>1. CASE "accepted" \in marks[s]
      <3>1. HasTurn(User(s)) /\ snap[s].created # 0
        BY <1>3, <1>4, <2>1 DEF TurnsInv, PromptsAreLogged
      <3>2. ~LogReset
        BY <3>1 DEF LogReset, Given, TypeOK, HistoryType
      <3>3. CASE LogKept
        BY <3>1, <3>3 DEF LogKept, HasTurn
      <3>4. ASSUME NEW t \in Sids, LogAsked(t) \/ LogAnswered(t) PROVE HasTurn(User(s))'
        <4>1. PICK n \in Message : lines' = Append(lines, n)
          BY <1>2, <3>4 DEF LogAsked, LogAnswered
        <4> QED
          BY <1>1, <3>1, <4>1, TurnsOfAppend
      <3> QED
        BY <3>2, <3>3, <3>4, NextLines
    <2>2. CASE Submit(s)
      <3>1. PICK w \in WriteOutcomes :
               /\ chatLog' = Logged(chatLog, User(s), w)
               /\ w = "ok" /\ ~chatLog.torn /\ Loads(User(s))
        BY <2>2 DEF Submit, TypeOK, HistoryType
      <3>2. lines' = Append(lines, User(s))
        BY <3>1 DEF Logged
      <3> QED
        BY <1>1, <1>2, <3>2, TurnsOfAppend
    <2> QED
      BY <1>3, <2>1, <2>2
  <1>9. Unanswered'
    <2> SUFFICES ASSUME NEW s \in Sids, HasTurn(Assistant(s))',
                        snap'[s].created = 0 \/ (CanRun(s)' /\ "survived" \notin marks'[s])
                 PROVE  FALSE
      BY DEF Unanswered
    <2>1. snap[s].created = 0 \/ (CanRun(s) /\ "survived" \notin marks[s])
      BY <1>3, NextRuns DEF Submit
    <2>2. ~HasTurn(Assistant(s))
      BY <2>1 DEF TurnsInv, Unanswered
    <2>3. ~LogKept
      BY <2>2 DEF LogKept, HasTurn
    <2>4. ~LogReset
      BY DEF LogReset, HasTurn
    <2>5. ASSUME NEW t \in Sids, LogAsked(t) PROVE FALSE
      <3>1. lines' = Append(lines, User(t))
        BY <2>5 DEF LogAsked
      <3>2. Assistant(s) = User(t)
        BY <1>1, <1>2, <2>2, <3>1, TurnsOfAppend
      <3> QED
        BY <3>2 DEF Assistant, User
    <2>6. ASSUME NEW t \in Sids, LogAnswered(t) PROVE FALSE
      <3>1. lines' = Append(lines, Assistant(t)) /\ (Reply(t) \/ CrashInReply(t))
        BY <2>6 DEF LogAnswered
      <3>2. Assistant(s) = Assistant(t)
        BY <1>1, <1>2, <2>2, <3>1, TurnsOfAppend
      <3>3. s = t
        BY <3>2 DEF Assistant
      <3>4. task[s] = "handling" /\ UNCHANGED snap
        BY <3>1, <3>3 DEF Reply, CrashInReply
      <3>5. snap'[s].created # 0
        BY <1>5, <3>4
      <3> QED
        BY <1>6, <3>1, <3>3, <3>5, AnsweredOnce DEF TurnsInv
    <2> QED
      BY <2>3, <2>4, <2>5, <2>6, NextLines
  <1>10. \A i \in 1..Len(lines) : lines[i] \in Message
    BY <1>1
  <1>11. RepliesFollowPrompts'
    <2> SUFFICES ASSUME NEW i \in 1..Len(lines'), lines'[i].role = "assistant",
                        "unpaired" \notin marks'[lines'[i].sid]
                 PROVE  \E j \in 1..(i - 1) : lines'[j] = User(lines'[i].sid)
      BY DEF RepliesFollowPrompts
    <2>1. ASSUME i \in 1..Len(lines), lines'[i] = lines[i],
                 \A j \in 1..Len(lines) : lines'[j] = lines[j]
          PROVE  \E j \in 1..(i - 1) : lines'[j] = User(lines'[i].sid)
      <3>1. lines[i].sid \in Sids
        BY <1>10, <2>1 DEF Message
      <3>2. "unpaired" \notin marks[lines[i].sid]
        BY <1>3, <2>1, <3>1
      <3>3. PICK j \in 1..(i - 1) : lines[j] = User(lines[i].sid)
        BY <2>1, <3>2 DEF TurnsInv, RepliesFollowPrompts
      <3>4. j \in 1..Len(lines)
        BY <1>1, <2>1, <3>3
      <3> QED
        BY <2>1, <3>3, <3>4
    <2>2. ~LogReset
      BY DEF LogReset
    <2>3. CASE LogKept
      BY <2>1, <2>3 DEF LogKept
    <2>4. ASSUME NEW t \in Sids, NEW n \in Message, lines' = Append(lines, n),
                 n = User(t) \/ (n = Assistant(t) /\ LogAnswered(t))
          PROVE  \E j \in 1..(i - 1) : lines'[j] = User(lines'[i].sid)
      <3>1. /\ Len(lines') = Len(lines) + 1
            /\ \A j \in 1..Len(lines) : lines'[j] = lines[j]
            /\ lines'[Len(lines) + 1] = n
        BY <1>1, <2>4, TurnsOfAppend
      <3>2. CASE i \in 1..Len(lines)
        BY <2>1, <3>1, <3>2
      <3>3. CASE i = Len(lines) + 1
        <4>1. n = Assistant(t) /\ LogAnswered(t)
          BY <2>4, <3>1, <3>3 DEF User
        <4>2. lines'[i].sid = t
          BY <3>1, <3>3, <4>1 DEF Assistant
        <4>3. task[t] = "handling"
          BY <4>1 DEF LogAnswered, Reply, CrashInReply
        <4>4. "accepted" \in marks[t] /\ "unpaired" \notin marks[t]
          BY <1>3, <1>5, <4>2, <4>3
        <4>5. HasTurn(User(t))
          BY <4>4 DEF TurnsInv, PromptsAreLogged
        <4>6. PICK j \in 1..Len(lines) : lines[j] = User(t)
          BY <4>5 DEF HasTurn
        <4>7. j \in 1..(i - 1)
          BY <1>1, <3>3, <4>6
        <4> QED
          BY <3>1, <4>2, <4>6, <4>7
      <3> QED
        BY <1>1, <3>1, <3>2, <3>3
    <2>5. ASSUME NEW t \in Sids, LogAsked(t) \/ LogAnswered(t)
          PROVE  \E j \in 1..(i - 1) : lines'[j] = User(lines'[i].sid)
      BY <1>2, <2>4, <2>5 DEF LogAsked, LogAnswered
    <2> QED
      BY <2>2, <2>3, <2>5, NextLines
  <1>12. OneReply'
    <2> SUFFICES ASSUME NEW i \in 1..Len(lines'), NEW j \in 1..Len(lines'), i < j,
                        lines'[i].role = "assistant", lines'[j] = lines'[i]
                 PROVE  "survived" \in marks'[lines'[i].sid]
      BY DEF OneReply
    <2>1. ASSUME i \in 1..Len(lines), j \in 1..Len(lines), lines'[i] = lines[i], lines'[j] = lines[j]
          PROVE  "survived" \in marks'[lines'[i].sid]
      <3>1. lines[i].sid \in Sids
        BY <1>10, <2>1 DEF Message
      <3>2. "survived" \in marks[lines[i].sid]
        BY <2>1 DEF TurnsInv, OneReply
      <3> QED
        BY <1>3, <2>1, <3>1, <3>2
    <2>2. ~LogReset
      BY DEF LogReset
    <2>3. CASE LogKept
      BY <2>1, <2>3 DEF LogKept
    <2>4. ASSUME NEW t \in Sids, NEW n \in Message, lines' = Append(lines, n),
                 n = User(t) \/ (n = Assistant(t) /\ LogAnswered(t))
          PROVE  "survived" \in marks'[lines'[i].sid]
      <3>1. /\ Len(lines') = Len(lines) + 1
            /\ \A p \in 1..Len(lines) : lines'[p] = lines[p]
            /\ lines'[Len(lines) + 1] = n
        BY <1>1, <2>4, TurnsOfAppend
      <3>2. i \in 1..Len(lines)
        BY <1>1, <3>1
      <3>3. CASE j \in 1..Len(lines)
        BY <2>1, <3>1, <3>2, <3>3
      <3>4. CASE j = Len(lines) + 1
        <4>1. n = Assistant(t) /\ LogAnswered(t)
          BY <2>4, <3>1, <3>4 DEF User
        <4>2. lines[i] = Assistant(t)
          BY <3>1, <3>2, <3>4, <4>1
        <4>3. HasTurn(Assistant(t))
          BY <3>2, <4>2 DEF HasTurn
        <4>4. task[t] = "handling"
          BY <4>1 DEF LogAnswered, Reply, CrashInReply
        <4>5. "survived" \in marks[t]
          BY <1>5, <4>3, <4>4 DEF TurnsInv, Unanswered
        <4>6. lines'[i].sid = t
          BY <3>1, <3>2, <4>2 DEF Assistant
        <4> QED
          BY <1>3, <4>5, <4>6
      <3> QED
        BY <1>1, <3>1, <3>3, <3>4
    <2>5. ASSUME NEW t \in Sids, LogAsked(t) \/ LogAnswered(t)
          PROVE  "survived" \in marks'[lines'[i].sid]
      BY <1>2, <2>4, <2>5 DEF LogAsked, LogAnswered
    <2> QED
      BY <2>2, <2>3, <2>5, NextLines
  <1> QED
    BY <1>6, <1>7, <1>8, <1>9, <1>11, <1>12 DEF TurnsInv

\* The inductive invariant of the turns in the log.
LEMMA TurnsInvariant == Spec => []TurnsInv
  <1>1. Init => TurnsInv
    <2> SUFFICES ASSUME Init PROVE TurnsInv
      OBVIOUS
    <2>1. chatLog.lines = <<>> /\ replay = <<>>
      BY DEF Init, NothingRuns, EmptyLog
    <2>2. \A s \in Sids : ~CanRun(s) /\ marks[s] = {}
      BY DEF Init, NothingRuns, CanRun, NoEntry
    <2>3. \A m : ~HasTurn(m)
      BY <2>1 DEF HasTurn
    <2>4. RepliesFollowPrompts /\ OneReply
      BY <2>1 DEF RepliesFollowPrompts, OneReply
    <2> QED
      BY <2>1, <2>2, <2>3, <2>4 DEF TurnsInv, ReplayWaits, RunsAreAccepted, PromptsAreLogged,
         Unanswered
  <1>2. IInv /\ IInv' /\ TurnsInv /\ [Next]_vars => TurnsInv'
    BY NextTurns
  <1> QED
    BY <1>1, <1>2, InductiveInvariant, PTL DEF Spec

\* Whatever crashed, restarted, was reset or could not be written: in the log
\* no reply precedes the turn that it answers, unless that turn is known not
\* to be there.
THEOREM RepliesComeAfter == Spec => []RepliesFollowPrompts
  <1>1. TurnsInv => RepliesFollowPrompts
    BY DEF TurnsInv
  <1> QED
    BY <1>1, TurnsInvariant, PTL

\* Whatever crashed and failed: no prompt is answered twice in the log, but
\* those whose queue entry outlived their first reply.
THEOREM RepliedOnce == Spec => []OneReply
  <1>1. TurnsInv => OneReply
    BY DEF TurnsInv
  <1> QED
    BY <1>1, TurnsInvariant, PTL

----------------------------------------------------------------------------
(* The context of a prompt in the thread. *)

\* An append leaves the beginning of a list as it is.
LEMMA PrefixOfAppend ==
    ASSUME NEW S, NEW l \in Seq(S), NEW m \in S, NEW n \in 0..Len(l)
    PROVE  /\ Append(l, m) \in Seq(S) /\ Len(Append(l, m)) = Len(l) + 1
           /\ SubSeq(Append(l, m), 1, n) = SubSeq(l, 1, n)
           /\ SubSeq(Append(l, m), 1, Len(l) + 1) = Append(l, m)
  OBVIOUS

\* What loads as a whole loads in its parts.
LEMMA LoadedAppend ==
    ASSUME NEW t \in Seq(Message), NEW m \in Message, AllLoad(Append(t, m))
    PROVE  AllLoad(t) /\ Loads(m)
  <1>1. PICK u : u = Append(t, m)
    OBVIOUS
  <1>2. /\ Len(u) = Len(t) + 1 /\ Len(t) \in Nat /\ u[Len(t) + 1] = m
        /\ \A i \in 1..Len(t) : u[i] = t[i]
    BY <1>1
  <1>3. AllLoad(u)
    BY <1>1
  <1> QED
    BY <1>2, <1>3 DEF AllLoad

LEMMA NextExtendsContext ==
    ASSUME ~DiskFaults, IInv, LogFollows, ThreadExtendsContext, [Next]_vars
    PROVE  ThreadExtendsContext'
  <1> DEFINE lines == chatLog.lines
             context(s) == Append(snap[s].prior, User(s))
  <1> TypeOK
    BY DEF IInv
  <1>1. lines \in Seq(Message) /\ chat \in Seq(Message) /\ ~chatLog.torn
    BY DEF TypeOK, DiskType, ProcessType, ChatLog, LogFollows
  <1> SUFFICES ASSUME NEW s \in Sids, snap'[s].created > 0, "unpaired" \notin marks'[s],
                      AllLoad(context(s)')
               PROVE  /\ Len(lines') >= Len(context(s)')
                      /\ SubSeq(lines', 1, Len(context(s)')) = context(s)'
    BY DEF ThreadExtendsContext
  <1>2. CASE snap[s].created = 0
    <2>1. Submit(s) \/ CrashInSubmit(s)
      <3>1. ASSUME NEW t \in Sids, Submit(t) \/ CrashInSubmit(t) PROVE t = s
        BY <1>2, <3>1 DEF Submit, CrashInSubmit, TypeOK, HistoryType
      <3>2. ASSUME UNCHANGED snap PROVE FALSE
        BY <1>2, <3>2
      <3> QED
        BY <3>1, <3>2 DEF Next, TaskStep, Begin, Reply, Raise, Cancelled, CancelledUnstarted,
           Shell, Stop, EmergencyStop, RestartStops, RestartStarts, ResetChat, ResetAll,
           Failure, Crash, CrashInReply, CrashInReset, Start, history, vars
    <2>2. snap'[s].prior = chat
      BY <2>1 DEF Submit, CrashInSubmit, PriorHistory, TypeOK, HistoryType
    <2>3. context(s)' = Append(chat, User(s)) /\ User(s) \in Message
      BY <2>2, TurnTypes DEF User
    <2>4. PICK w \in WriteOutcomes : chatLog' = Logged(chatLog, User(s), w)
      BY <2>1 DEF Submit, CrashInSubmit
    <2>5. AllLoad(chat) /\ Loads(User(s))
      BY <1>1, <2>3, LoadedAppend
    <2>6. lines' = Append(lines, User(s)) /\ context(s)' = Append(lines, User(s))
      <3>1. chat = lines
        BY <2>1, <2>5 DEF Submit, CrashInSubmit, LogFollows, Recorded
      <3> QED
        BY <1>1, <2>3, <2>4, <2>5, <3>1, LoggedAppends
    <2> HIDE DEF lines, context
    <2>7. Len(lines) \in 0..Len(lines)
      BY <1>1
    <2> QED
      BY <1>1, <2>3, <2>6, <2>7, PrefixOfAppend
  <1>3. CASE snap[s].created # 0
    <2>1. snap'[s] = snap[s] /\ "unpaired" \notin marks[s]
      BY <1>3, NextMarks
    <2>2. context(s)' = context(s) /\ snap[s].created > 0
      BY <2>1 DEF User
    <2>3. Len(lines) >= Len(context(s)) /\ SubSeq(lines, 1, Len(context(s))) = context(s)
      BY <2>1, <2>2 DEF ThreadExtendsContext
    <2>4. ~LogReset
      BY <2>2 DEF LogReset, Given
    <2>5. CASE LogKept
      BY <2>2, <2>3, <2>5 DEF LogKept
    <2>6. ASSUME NEW t \in Sids, LogAsked(t) \/ LogAnswered(t)
          PROVE  /\ Len(lines') >= Len(context(s)')
                 /\ SubSeq(lines', 1, Len(context(s)')) = context(s)'
      <3>1. PICK n \in Message : lines' = Append(lines, n)
        BY <2>6, TurnTypes DEF LogAsked, LogAnswered
      <3>2. context(s) \in Seq(Message)
        BY TurnTypes DEF TypeOK, HistoryType
      <3> HIDE DEF lines, context
      <3>3. Len(context(s)) \in 0..Len(lines)
        BY <1>1, <2>3, <3>2
      <3> QED
        BY <1>1, <2>2, <2>3, <3>1, <3>3, PrefixOfAppend
    <2> QED
      BY <2>4, <2>5, <2>6, NextLines
  <1> QED
    BY <1>2, <1>3

\* On a working disk, the conversation that a prompt was given is the beginning
\* of the thread, with the prompt right after it, through any crashes and
\* restarts, until a reset, if no turn of it holds a line separator.
THEOREM ContextStaysAbove == Spec => []ThreadExtendsContext
  <1>1. ASSUME ~DiskFaults PROVE Spec => []ThreadExtendsContext
    <2>1. Init => LogFollows /\ ThreadExtendsContext
      BY DEF Init, NothingRuns, EmptyLog, LogFollows, ThreadExtendsContext
    <2>2. IInv /\ LogFollows /\ [Next]_vars => LogFollows'
      BY NextLogFollows DEF IInv
    <2>3. IInv /\ LogFollows /\ ThreadExtendsContext /\ [Next]_vars => ThreadExtendsContext'
      BY <1>1, NextExtendsContext
    <2> QED
      BY <2>1, <2>2, <2>3, InductiveInvariant, PTL DEF Spec
  <1>2. ASSUME DiskFaults PROVE Spec => []ThreadExtendsContext
    <2>1. ThreadExtendsContext
      BY <1>2 DEF ThreadExtendsContext
    <2> QED
      BY <2>1, PTL
  <1> QED
    BY <1>1, <1>2
============================================================================
