----------------------- MODULE HarnessCoreRefinement -----------------------
(***************************************************************************)
(* On a working disk the core implements DurablePrompts: for any set of    *)
(* prompts, and any number of crashes, resets and stops.                   *)
(***************************************************************************)
EXTENDS HarnessCoreProofs

\* The sessions of a replay are distinct; only the first one has started.
ReplayWaits ==
    /\ \A i, j \in 1..Len(replay) : i # j => replay[i] # replay[j]
    /\ \A j \in 1..Len(replay) : task[replay[j]] = IF j = 1 THEN "handling" ELSE "none"

\* A prompt that is to end: accepted, and not ended yet.
Alive(s) == "accepted" \in marks[s] /\ "finished" \notin marks[s]

EntriesAlive == \A s \in Sids : queue[s].file = "good" => Alive(s)
TasksAlive == \A s \in Sids : task[s] # "none" => Alive(s)
ReplayAlive == \A i \in 1..Len(replay) : Alive(replay[i])

\* A working disk takes and gives back every entry.
NoFaultMarks == \A s \in Sids : "unsaved" \notin marks[s] /\ "unread" \notin marks[s]

DiskInv == EntriesAlive /\ TasksAlive /\ ReplayAlive /\ NoFaultMarks

RInv == IInv /\ ReplayWaits /\ DiskInv

----------------------------------------------------------------------------
(* The order of a replay. *)

\* Where the sessions of a step are afterwards.
LEMMA EndsTask ==
    ASSUME NEW done, NEW errs, NEW canc, NEW begun, NEW drop, NEW unread,
           Ends(done, errs, canc, begun, drop, unread), NEW s \in Sids
    PROVE  task'[s] = IF s \in done \cup errs \cup canc THEN "none"
                      ELSE IF s \in begun THEN "handling" ELSE task[s]
  BY DEF Ends

\* A list of distinct sessions, cut after its k-th: the next one starts, the
\* others wait.
LEMMA CutWaits ==
    ASSUME NEW rest \in Seq(Sids), NEW k \in 0..Len(rest),
           \A i, j \in 1..Len(rest) : i # j => rest[i] # rest[j],
           \A i \in 1..Len(rest) :
              rest[i] \notin Burnt(rest, k)
              => task'[rest[i]] = IF rest[i] \in Resumed(rest, k) THEN "handling" ELSE "none",
           replay' = Left(rest, k)
    PROVE  ReplayWaits'
  <1>1. /\ Len(replay') = Len(rest) - k
        /\ \A i \in 1..Len(replay') : replay'[i] = rest[k + i] /\ k + i \in 1..Len(rest)
    BY DEF Left
  <1>2. \A i, j \in 1..Len(replay') : i # j => replay'[i] # replay'[j]
    BY <1>1
  <1>3. ASSUME NEW j \in 1..Len(replay')
        PROVE  task'[replay'[j]] = IF j = 1 THEN "handling" ELSE "none"
    <2>1. replay'[j] = rest[k + j] /\ k + j \in 1..Len(rest) /\ rest[k + j] \in Sids
      BY <1>1
    <2>2. rest[k + j] \notin Burnt(rest, k)
      BY <2>1 DEF Burnt
    <2>3. rest[k + j] \in Resumed(rest, k) <=> j = 1
      BY <2>1 DEF Resumed
    <2> QED
      BY <2>1, <2>2, <2>3
  <1> QED
    BY <1>2, <1>3 DEF ReplayWaits

\* A session that has started is the running one of the replay, or not in it.
LEMMA OutsideReplay ==
    ASSUME TypeOK, ReplayWaits, NEW s, task[s] # "none", ~(Restored(s) /\ task[s] = "handling")
    PROVE  \A i \in 1..Len(replay) : replay[i] # s
  BY DEF ReplayWaits, Restored, TypeOK, ProcessType

\* The end of session s keeps the order of the replay.
LEMMA ContinueWaits ==
    ASSUME TypeOK, ReplayWaits, NEW s \in Sids, task[s] # "none",
           NEW k \in Burns(After(s)),
           NEW done, NEW errs, done \cup errs = {s} \cup Burnt(After(s), k),
           NEW drop, NEW unread,
           Ends(done, errs, {}, Resumed(After(s), k), drop, unread),
           replay' = IF Restored(s) THEN Left(After(s), k) ELSE replay
    PROVE  ReplayWaits'
  <1> DEFINE rest == After(s)
  <1>1. replay \in Seq(Sids)
    BY DEF TypeOK, ProcessType
  <1>2. \A t \in Sids : task'[t] = IF t \in done \cup errs \cup {} THEN "none"
                                   ELSE IF t \in Resumed(rest, k) THEN "handling" ELSE task[t]
    BY EndsTask
  <1>3. CASE Restored(s)
    <2>1. /\ rest \in Seq(Sids) /\ Len(rest) = Len(replay) - 1
          /\ \A i \in 1..Len(rest) : rest[i] = replay[i + 1] /\ i + 1 \in 1..Len(replay)
          /\ s = replay[1] /\ 1 \in 1..Len(replay)
      BY <1>1, <1>3 DEF After, Restored
    <2>2. k \in 0..Len(rest)
      BY <2>1 DEF Burns
    <2>3. \A i, j \in 1..Len(rest) : i # j => rest[i] # rest[j]
      BY <2>1 DEF ReplayWaits
    <2>4. \A i \in 1..Len(rest) : task[rest[i]] = "none" /\ rest[i] # s
      BY <2>1 DEF ReplayWaits
    <2>5. \A i \in 1..Len(rest) :
             rest[i] \notin Burnt(rest, k)
             => task'[rest[i]] = IF rest[i] \in Resumed(rest, k) THEN "handling" ELSE "none"
      BY <1>2, <2>1, <2>4
    <2>6. replay' = Left(rest, k)
      BY <1>3
    <2> QED
      BY <2>1, <2>2, <2>3, <2>5, <2>6, CutWaits
  <1>4. CASE ~Restored(s)
    <2>1. rest = <<>> /\ k = 0
      BY <1>4 DEF After, Burns
    <2>2. Burnt(rest, k) = {} /\ Resumed(rest, k) = {}
      BY <2>1 DEF Burnt, Resumed
    <2>3. \A i \in 1..Len(replay) : replay[i] \in Sids /\ replay[i] # s
      BY <1>1, <1>4, OutsideReplay
    <2>4. \A i \in 1..Len(replay) : task'[replay[i]] = task[replay[i]]
      BY <1>2, <2>2, <2>3
    <2> QED
      BY <1>4, <2>4 DEF ReplayWaits
  <1> QED
    BY <1>3, <1>4

\* The orders of a finite set name none of its members twice.
LEMMA InOrderDistinct ==
    ASSUME NEW S, IsFiniteSet(S), NEW f \in InOrder(S)
    PROVE  /\ f \in Seq(S)
           /\ \A i, j \in 1..Len(f) : i # j => f[i] # f[j]
  <1>1. Cardinality(S) \in Nat
    BY FS_CardinalityType
  <1>2. f \in [1..Cardinality(S) -> S]
    BY DEF InOrder
  <1>3. f \in Seq(S) /\ Len(f) = Cardinality(S)
    BY <1>1, <1>2
  <1>4. \A i, j \in 1..Len(f) : i < j => f[i] # f[j]
    BY <1>3 DEF InOrder
  <1> QED
    BY <1>3, <1>4

LEMMA NextReplayWaits ==
    ASSUME IInv, ReplayWaits, [Next]_vars
    PROVE  ReplayWaits'
  <1> TypeOK
    BY DEF IInv
  <1> replay \in Seq(Sids)
    BY DEF TypeOK, ProcessType
  <1>1. ASSUME NEW s \in Sids, Submit(s) PROVE ReplayWaits'
    <2>1. \A i \in 1..Len(replay) : replay[i] # s
      BY <1>1 DEF IInv, ReplayIsSnapshots, KnownTo, Submit
    <2>2. UNCHANGED replay /\ task' = [task EXCEPT ![s] = "created"]
      BY <1>1 DEF Submit
    <2> QED
      BY <2>1, <2>2 DEF ReplayWaits, TypeOK, ProcessType
  <1>2. ASSUME NEW s \in Sids, TaskStep(s) PROVE ReplayWaits'
    <2>1. CASE Begin(s)
      <3>1. \A i \in 1..Len(replay) : replay[i] # s /\ replay[i] \in Sids
        BY <2>1, OutsideReplay DEF Begin
      <3>2. \A t \in Sids : t # s => task'[t] = task[t]
        BY <2>1, EndsTask DEF Begin
      <3>3. UNCHANGED replay
        BY <2>1 DEF Begin
      <3> QED
        BY <3>1, <3>2, <3>3 DEF ReplayWaits
    <2>2. CASE Reply(s)
      <3>1. PICK k \in Burns(After(s)) :
               /\ \E drop \in Deletable({s} \cup Burnt(After(s), k)) :
                     Ends({s}, Burnt(After(s), k), {}, Resumed(After(s), k), drop, {})
               /\ replay' = IF Restored(s) THEN Left(After(s), k) ELSE replay
        BY <2>2 DEF Reply
      <3>2. task[s] # "none"
        BY <2>2 DEF Reply
      <3> QED
        BY <3>1, <3>2, ContinueWaits
    <2>3. CASE Raise(s)
      <3>1. PICK k \in Burns(After(s)) :
               /\ \E drop \in Deletable({s} \cup Burnt(After(s), k)) :
                     Ends({}, {s} \cup Burnt(After(s), k), {}, Resumed(After(s), k), drop, {})
               /\ replay' = IF Restored(s) THEN Left(After(s), k) ELSE replay
        BY <2>3 DEF Raise
      <3>2. task[s] # "none"
        BY <2>3 DEF Raise
      <3> QED
        BY <3>1, <3>2, ContinueWaits
    <2>4. CASE Cancelled(s)
      <3>1. CASE Restored(s)
        <4>1. replay' = <<>>
          BY <2>4, <3>1 DEF Cancelled
        <4> QED
          BY <4>1 DEF ReplayWaits
      <3>2. CASE ~Restored(s)
        <4>1. \A i \in 1..Len(replay) : replay[i] # s /\ replay[i] \in Sids
          BY <2>4, <3>2, OutsideReplay DEF Cancelled
        <4>2. \A t \in Sids : t # s => task'[t] = task[t]
          BY <2>4, EndsTask DEF Cancelled
        <4>3. UNCHANGED replay
          BY <2>4, <3>2 DEF Cancelled
        <4> QED
          BY <4>1, <4>2, <4>3 DEF ReplayWaits
      <3> QED
        BY <3>1, <3>2
    <2>5. CASE CancelledUnstarted(s)
      <3>1. \A i \in 1..Len(replay) : replay[i] # s /\ replay[i] \in Sids
        BY <2>5, OutsideReplay DEF CancelledUnstarted
      <3>2. UNCHANGED replay /\ task' = [task EXCEPT ![s] = "none"]
        BY <2>5 DEF CancelledUnstarted
      <3> QED
        BY <3>1, <3>2 DEF ReplayWaits, TypeOK, ProcessType
    <2> QED
      BY <1>2, <2>1, <2>2, <2>3, <2>4, <2>5 DEF TaskStep
  <1>3. CASE Shell \/ UNCHANGED vars
    <2>1. UNCHANGED <<replay, task>>
      BY <1>3 DEF Shell, Stop, EmergencyStop, RestartStops, RestartStarts, ResetChat,
                  ResetAll, sessions, vars
    <2> QED
      BY <2>1 DEF ReplayWaits
  <1>4. CASE Failure
    <2>1. replay' = <<>>
      BY <1>4 DEF Failure, Crash, CrashInSubmit, CrashInReply, CrashInReset, Dies
    <2> QED
      BY <2>1 DEF ReplayWaits
  <1>5. CASE Start
    <2>1. PICK unread \in Unreadable :
             \E order \in InOrder(Whole \ unread) :
             \E k \in 0..Len(order) :
                /\ \E drop \in Deletable(unread \cup RestoreDrops(Burnt(order, k))) :
                      Ends({}, Burnt(order, k), {}, Resumed(order, k), drop, unread)
                /\ replay' = Left(order, k)
      BY <1>5 DEF Start
    <2>2. PICK order \in InOrder(Whole \ unread) :
             \E k \in 0..Len(order) :
                /\ \E drop \in Deletable(unread \cup RestoreDrops(Burnt(order, k))) :
                      Ends({}, Burnt(order, k), {}, Resumed(order, k), drop, unread)
                /\ replay' = Left(order, k)
      BY <2>1
    <2>3. PICK k \in 0..Len(order) :
                /\ \E drop \in Deletable(unread \cup RestoreDrops(Burnt(order, k))) :
                      Ends({}, Burnt(order, k), {}, Resumed(order, k), drop, unread)
                /\ replay' = Left(order, k)
      BY <2>2
    <2>4. /\ order \in Seq(Sids)
          /\ \A i, j \in 1..Len(order) : i # j => order[i] # order[j]
      <3>1. Whole \ unread \subseteq Sids
        BY DEF Whole
      <3>2. IsFiniteSet(Whole \ unread)
        BY <3>1, CoreAssumption, FS_Subset
      <3>3. /\ order \in Seq(Whole \ unread)
            /\ \A i, j \in 1..Len(order) : i # j => order[i] # order[j]
        BY <3>2, InOrderDistinct
      <3> QED
        BY <3>1, <3>3
    <2>5. \A i \in 1..Len(order) : order[i] \in Sids /\ task[order[i]] = "none"
      BY <1>5, <2>4 DEF Start, IInv, DeadRunsNothing
    <2>6. \A t \in Sids : task'[t] = IF t \in {} \cup Burnt(order, k) \cup {} THEN "none"
                                     ELSE IF t \in Resumed(order, k) THEN "handling" ELSE task[t]
      BY <2>3, EndsTask
    <2>7. \A i \in 1..Len(order) :
             order[i] \notin Burnt(order, k)
             => task'[order[i]] = IF order[i] \in Resumed(order, k) THEN "handling" ELSE "none"
      BY <2>5, <2>6
    <2>8. replay' = Left(order, k)
      BY <2>3
    <2> QED
      BY <2>4, <2>7, <2>8, CutWaits
  <1> QED
    BY <1>1, <1>2, <1>3, <1>4, <1>5 DEF Next

----------------------------------------------------------------------------
(* Steps of the core as steps of DurablePrompts. *)

Fates == [s \in Sids |-> FateOf(s)]

\* A prompt that is to end is one that DurablePrompts lets end.
LEMMA AliveFate ==
    ASSUME RInv, NEW s \in Sids, Alive(s)
    PROVE  snap[s].created # 0 /\ FateOf(s) \in {"pending", "wiped"}
  <1>1. snap[s].created # 0
    BY DEF RInv, IInv, FreshIds, Alive
  <1>2. queue[s].file # "good" => "wiped" \in marks[s]
    <2>1. "unsaved" \notin marks[s] /\ "unread" \notin marks[s]
      BY DEF RInv, DiskInv, NoFaultMarks
    <2>2. CASE "wiped" \notin marks[s]
      <3>1. "accepted" \in marks[s]
            /\ marks[s] \cap {"finished", "wiped", "unsaved", "unread"} = {}
        BY <2>1, <2>2 DEF Alive
      <3>2. NoPromptLost
        BY DEF RInv, IInv
      <3>3. queue[s] = [file |-> "good", prior |-> snap[s].prior, created |-> snap[s].created]
        BY <3>1, <3>2 DEF NoPromptLost
      <3> QED
        BY <3>3
    <2> QED
      BY <2>2
  <1> QED
    BY <1>1, <1>2 DEF FateOf, Alive

\* No prompt is lost.
LEMMA NoneLost ==
    ASSUME RInv, NEW s \in Sids
    PROVE  FateOf(s) # "lost"
  <1>1. CASE Alive(s)
    BY <1>1, AliveFate
  <1>2. CASE ~Alive(s)
    BY <1>2 DEF Alive, FateOf
  <1> QED
    BY <1>1, <1>2

\* A step that changes no fate is a stutter.
LEMMA StutterStep ==
    ASSUME \A s \in Sids : FateOf(s)' = FateOf(s)
    PROVE  [Durable!Next]_Fates
  BY DEF Fates

\* A step that lets prompts end that may end is an End.
LEMMA EndStep ==
    ASSUME NEW S \in SUBSET Sids, \A s \in S : FateOf(s) \in {"pending", "wiped"},
           \A s \in Sids : FateOf(s)' = IF s \in S THEN "ended" ELSE FateOf(s)
    PROVE  [Durable!Next]_Fates
  <1>1. CASE S = {}
    BY <1>1, StutterStep
  <1>2. CASE S # {}
    <2>1. Durable!End(S)
      BY <1>2 DEF Durable!End, Durable!Become
    <2> QED
      BY <2>1 DEF Durable!Next
  <1> QED
    BY <1>1, <1>2

\* A step that ends sessions on a working disk ends prompts that may end, and
\* none of the others is touched.
LEMMA EndsStep ==
    ASSUME RInv, NEW done, NEW errs, NEW canc, NEW begun, NEW drop,
           Ends(done, errs, canc, begun, drop, {}), UNCHANGED snap, ~DiskFaults,
           done \cup errs \cup canc \subseteq Sids,
           done \cup errs \cup canc \subseteq drop,
           \A s \in Sids : s \in drop => \/ s \in done \cup errs \cup canc
                                         \/ queue[s].file = "malformed",
           \A s \in Sids : s \in done \cup errs \cup canc \cup begun => Alive(s)
    PROVE  /\ EntriesAlive' /\ TasksAlive' /\ NoFaultMarks'
           /\ \A s \in Sids : s \notin done \cup errs \cup canc => marks'[s] = marks[s]
           /\ [Durable!Next]_Fates
  <1> DEFINE over == done \cup errs \cup canc
  <1>1. \A s \in Sids : marks'[s] = IF s \in over THEN marks[s] \cup {"finished"} ELSE marks[s]
    BY DEF Ends
  <1>2. \A s \in Sids : queue'[s] = IF s \in drop THEN NoEntry ELSE queue[s]
    BY DEF Ends
  <1>3. EntriesAlive'
    <2> SUFFICES ASSUME NEW s \in Sids, queue'[s].file = "good" PROVE Alive(s)'
      BY DEF EntriesAlive
    <2>1. s \notin drop
      BY <1>2 DEF NoEntry
    <2>2. marks'[s] = marks[s] /\ queue'[s] = queue[s]
      BY <1>1, <1>2, <2>1
    <2> QED
      BY <2>2 DEF RInv, DiskInv, EntriesAlive, Alive
  <1>4. TasksAlive'
    <2> SUFFICES ASSUME NEW s \in Sids, task'[s] # "none" PROVE Alive(s)'
      BY DEF TasksAlive
    <2>1. s \notin over /\ (s \in begun \/ task[s] # "none")
      BY EndsTask
    <2>2. Alive(s)
      BY <2>1 DEF RInv, DiskInv, TasksAlive
    <2> QED
      BY <1>1, <2>1, <2>2 DEF Alive
  <1>5. NoFaultMarks'
    <2> SUFFICES ASSUME NEW s \in Sids PROVE "unsaved" \notin marks'[s] /\ "unread" \notin marks'[s]
      BY DEF NoFaultMarks
    <2>1. "unsaved" \notin marks[s] /\ "unread" \notin marks[s]
      BY DEF NoFaultMarks, RInv, DiskInv
    <2> HIDE DEF over
    <2>2. marks'[s] \in {marks[s], marks[s] \cup {"finished"}}
      BY <1>1
    <2> QED
      BY <2>1, <2>2
  <1>6. ASSUME NEW s \in Sids PROVE FateOf(s)' = IF s \in over THEN "ended" ELSE FateOf(s)
    <2>1. CASE s \in over
      <3>1. Alive(s) /\ snap'[s].created # 0 /\ marks'[s] = marks[s] \cup {"finished"}
        BY <1>1, <2>1, AliveFate
      <3> QED
        BY <2>1, <3>1 DEF FateOf, Alive
    <2>2. CASE s \notin over
      <3>1. marks'[s] = marks[s]
        BY <1>1, <2>2
      <3>2. s \in drop => queue[s].file = "malformed" /\ queue'[s].file = "absent"
        BY <1>2, <2>2 DEF NoEntry
      <3>3. queue'[s].file = "good" <=> queue[s].file = "good"
        BY <1>2, <3>2
      <3> QED
        BY <2>2, <3>1, <3>3 DEF FateOf
    <2> QED
      BY <2>1, <2>2
  <1>7. over \in SUBSET Sids /\ \A s \in over : FateOf(s) \in {"pending", "wiped"}
    BY AliveFate
  <1>8. [Durable!Next]_Fates
    BY <1>6, <1>7, EndStep
  <1> QED
    BY <1>1, <1>3, <1>4, <1>5, <1>8

\* The wipe of queue files and of the thread.
LEMMA WipeStep ==
    ASSUME RInv, NEW gone \in SUBSET OnDisk, Wipe(gone), UNCHANGED snap
    PROVE  /\ EntriesAlive' /\ NoFaultMarks'
           /\ \A s \in Sids : Alive(s) => Alive(s)'
           /\ [Durable!Next]_Fates
  <1>1. /\ \A s \in Sids : queue'[s] = IF s \in gone THEN NoEntry ELSE queue[s]
        /\ \A s \in Sids : marks'[s] = marks[s] \cup (IF s \in Given THEN {"unpaired"} ELSE {})
                                                \cup (IF s \in gone THEN {"wiped"} ELSE {})
    BY DEF Wipe
  <1>2. \A s \in Sids : Alive(s) => Alive(s)'
    BY <1>1 DEF Alive
  <1>3. EntriesAlive'
    BY <1>1, <1>2 DEF EntriesAlive, NoEntry, RInv, DiskInv
  <1>4. NoFaultMarks'
    BY <1>1 DEF NoFaultMarks, RInv, DiskInv
  <1> DEFINE S == {s \in gone : FateOf(s) = "pending"}
  <1>5. ASSUME NEW s \in Sids PROVE FateOf(s)' = IF s \in S THEN "wiped" ELSE FateOf(s)
    <2>1. /\ "accepted" \in marks'[s] <=> "accepted" \in marks[s]
          /\ "finished" \in marks'[s] <=> "finished" \in marks[s]
          /\ "wiped" \in marks'[s] <=> "wiped" \in marks[s] \/ s \in gone
      BY <1>1
    <2>2. queue'[s].file = "good" <=> queue[s].file = "good" /\ s \notin gone
      BY <1>1 DEF NoEntry
    <2>3. FateOf(s) # "lost"
      BY NoneLost
    <2> QED
      BY <2>1, <2>2, <2>3 DEF FateOf
  <1>6. S \subseteq Sids
    BY DEF OnDisk
  <1>7. Durable!Wipe(S)
    BY <1>5, <1>6 DEF Durable!Wipe, Durable!Become
  <1>8. [Durable!Next]_Fates
    BY <1>6, <1>7 DEF Durable!Next
  <1> QED
    BY <1>2, <1>3, <1>4, <1>8

\* What a list of distinct sessions leaves to a later step is not among those
\* that ended.
LEMMA LeftOutside ==
    ASSUME NEW rest \in Seq(Sids), NEW k \in 0..Len(rest),
           \A i, j \in 1..Len(rest) : i # j => rest[i] # rest[j]
    PROVE  \A i \in 1..Len(Left(rest, k)) :
              /\ Left(rest, k)[i] \notin Burnt(rest, k)
              /\ \E j \in 1..Len(rest) : Left(rest, k)[i] = rest[j]
  <1>1. /\ Len(Left(rest, k)) = Len(rest) - k
        /\ \A i \in 1..(Len(rest) - k) : /\ Left(rest, k)[i] = rest[k + i]
                                         /\ k + i \in 1..Len(rest)
    BY DEF Left
  <1>2. \A i \in 1..(Len(rest) - k) : rest[k + i] \notin Burnt(rest, k)
    BY DEF Burnt
  <1> QED
    BY <1>1, <1>2

\* The end of session s, with those that follow it in its task.
LEMMA ContinueStep ==
    ASSUME RInv, ~DiskFaults, NEW s \in Sids, task[s] # "none",
           NEW k \in Burns(After(s)),
           NEW done, NEW errs, done \cup errs = {s} \cup Burnt(After(s), k),
           NEW drop \in Deletable({s} \cup Burnt(After(s), k)),
           Ends(done, errs, {}, Resumed(After(s), k), drop, {}),
           replay' = IF Restored(s) THEN Left(After(s), k) ELSE replay,
           UNCHANGED snap
    PROVE  DiskInv' /\ [Durable!Next]_Fates
  <1> DEFINE rest == After(s)
  <1>1. replay \in Seq(Sids) /\ ReplayWaits /\ TypeOK
    BY DEF RInv, IInv, TypeOK, ProcessType
  <1>2. /\ rest \in Seq(Sids)
        /\ \A i \in 1..Len(rest) : Alive(rest[i]) /\ rest[i] # s
        /\ \A i, j \in 1..Len(rest) : i # j => rest[i] # rest[j]
    <2>1. CASE Restored(s)
      <3>1. /\ rest \in Seq(Sids) /\ s = replay[1] /\ 1 \in 1..Len(replay)
            /\ \A i \in 1..Len(rest) : rest[i] = replay[i + 1] /\ i + 1 \in 1..Len(replay)
        BY <1>1, <2>1 DEF After, Restored
      <3> QED
        BY <1>1, <3>1 DEF ReplayWaits, RInv, DiskInv, ReplayAlive
    <2>2. CASE ~Restored(s)
      BY <2>2 DEF After
    <2> QED
      BY <2>1, <2>2
  <1>3. k \in 0..Len(rest)
    BY <1>2 DEF Burns
  <1>4. \A t \in Burnt(rest, k) \cup Resumed(rest, k) :
           t \in Sids /\ \E i \in 1..Len(rest) : t = rest[i]
    BY <1>2, <1>3, ReplayCut
  <1>5. Alive(s)
    BY DEF RInv, DiskInv, TasksAlive
  <1>6. \A t \in Sids : t \in done \cup errs \cup {} \cup Resumed(rest, k) => Alive(t)
    BY <1>2, <1>4, <1>5
  <1>7. drop = {s} \cup Burnt(rest, k)
    BY DEF Deletable
  <1>8. /\ done \cup errs \cup {} \subseteq Sids /\ done \cup errs \cup {} \subseteq drop
        /\ \A t \in Sids : t \in drop => \/ t \in done \cup errs \cup {}
                                         \/ queue[t].file = "malformed"
    BY <1>4, <1>7
  <1>9. /\ EntriesAlive' /\ TasksAlive' /\ NoFaultMarks'
        /\ \A t \in Sids : t \notin done \cup errs \cup {} => marks'[t] = marks[t]
        /\ [Durable!Next]_Fates
    BY <1>6, <1>8, EndsStep
  <1>10. ReplayAlive'
    <2>1. CASE Restored(s)
      <3>1. replay' = Left(rest, k)
        BY <2>1
      <3>2. ASSUME NEW i \in 1..Len(replay')
            PROVE  "accepted" \in marks'[replay'[i]] /\ "finished" \notin marks'[replay'[i]]
        <4>1. replay'[i] \notin Burnt(rest, k)
          BY <1>2, <1>3, <3>1, <3>2, LeftOutside
        <4>2. PICK j \in 1..Len(rest) : replay'[i] = rest[j]
          BY <1>2, <1>3, <3>1, <3>2, LeftOutside
        <4>3. rest[j] \in Sids /\ Alive(rest[j]) /\ rest[j] # s
          BY <1>2
        <4>4. marks'[rest[j]] = marks[rest[j]]
          BY <1>9, <4>1, <4>2, <4>3
        <4> QED
          BY <4>2, <4>3, <4>4 DEF Alive
      <3> QED
        BY <3>2 DEF ReplayAlive, Alive
    <2>2. CASE ~Restored(s)
      <3>1. Burnt(rest, k) = {}
        BY <1>3, <2>2 DEF After, Burnt
      <3>2. \A i \in 1..Len(replay) : replay[i] # s /\ replay[i] \in Sids
        BY <1>1, <2>2, OutsideReplay
      <3>3. \A i \in 1..Len(replay) : marks'[replay[i]] = marks[replay[i]]
        BY <1>9, <3>1, <3>2
      <3> QED
        BY <2>2, <3>3 DEF ReplayAlive, Alive, RInv, DiskInv
    <2> QED
      BY <2>1, <2>2
  <1> QED
    BY <1>9, <1>10 DEF DiskInv

LEMMA TaskRefines ==
    ASSUME RInv, ~DiskFaults, NEW s \in Sids, TaskStep(s)
    PROVE  DiskInv' /\ [Durable!Next]_Fates
  <1>1. replay \in Seq(Sids) /\ ReplayWaits /\ TypeOK
    BY DEF RInv, IInv, TypeOK, ProcessType
  <1>2. task[s] # "none" => Alive(s)
    BY DEF RInv, DiskInv, TasksAlive
  <1>3. CASE Begin(s)
    <2>1. \A i \in 1..Len(replay) : replay[i] # s /\ replay[i] \in Sids
      BY <1>1, <1>3, OutsideReplay DEF Begin
    <2>2. PICK errs \in SUBSET {s}, begun \in SUBSET {s} : Ends({}, errs, {}, begun, errs, {})
      <3>1. CASE Ends({}, {}, {}, {s}, {}, {})
        BY <3>1
      <3>2. CASE \E drop \in Deletable({s}) : Ends({}, {s}, {}, {}, drop, {})
        <4>1. Ends({}, {s}, {}, {}, {s}, {})
          BY <3>2 DEF Deletable
        <4> QED
          BY <4>1
      <3> QED
        BY <1>3, <3>1, <3>2 DEF Begin
    <2>3. /\ {} \cup errs \cup {} \subseteq Sids /\ {} \cup errs \cup {} \subseteq errs
          /\ \A t \in Sids : t \in errs => \/ t \in {} \cup errs \cup {}
                                           \/ queue[t].file = "malformed"
          /\ \A t \in Sids : t \in {} \cup errs \cup {} \cup begun => Alive(t)
      BY <1>2, <1>3 DEF Begin
    <2>4. UNCHANGED <<snap, replay>>
      BY <1>3 DEF Begin
    <2>5. /\ EntriesAlive' /\ TasksAlive' /\ NoFaultMarks'
          /\ \A t \in Sids : t \notin {} \cup errs \cup {} => marks'[t] = marks[t]
          /\ [Durable!Next]_Fates
      BY <2>2, <2>3, <2>4, EndsStep
    <2>6. ReplayAlive'
      BY <2>1, <2>4, <2>5 DEF ReplayAlive, Alive, RInv, DiskInv
    <2> QED
      BY <2>5, <2>6 DEF DiskInv
  <1>4. CASE Reply(s)
    <2>1. PICK k \in Burns(After(s)) :
             /\ \E drop \in Deletable({s} \cup Burnt(After(s), k)) :
                   Ends({s}, Burnt(After(s), k), {}, Resumed(After(s), k), drop, {})
             /\ replay' = IF Restored(s) THEN Left(After(s), k) ELSE replay
      BY <1>4 DEF Reply
    <2>2. task[s] # "none" /\ UNCHANGED snap
      BY <1>4 DEF Reply
    <2> QED
      BY <2>1, <2>2, ContinueStep
  <1>5. CASE Raise(s)
    <2>1. PICK k \in Burns(After(s)) :
             /\ \E drop \in Deletable({s} \cup Burnt(After(s), k)) :
                   Ends({}, {s} \cup Burnt(After(s), k), {}, Resumed(After(s), k), drop, {})
             /\ replay' = IF Restored(s) THEN Left(After(s), k) ELSE replay
      BY <1>5 DEF Raise
    <2>2. task[s] # "none" /\ UNCHANGED snap
      BY <1>5 DEF Raise
    <2> QED
      BY <2>1, <2>2, ContinueStep
  <1>6. CASE Cancelled(s)
    <2>1. Ends({}, {}, {s}, {}, {s}, {})
      BY <1>6 DEF Cancelled, Deletable
    <2>2. /\ {} \cup {} \cup {s} \subseteq Sids /\ {} \cup {} \cup {s} \subseteq {s}
          /\ \A t \in Sids : t \in {s} => \/ t \in {} \cup {} \cup {s}
                                          \/ queue[t].file = "malformed"
          /\ \A t \in Sids : t \in {} \cup {} \cup {s} \cup {} => Alive(t)
      BY <1>2, <1>6 DEF Cancelled
    <2>3. UNCHANGED snap
      BY <1>6 DEF Cancelled
    <2>4. /\ EntriesAlive' /\ TasksAlive' /\ NoFaultMarks'
          /\ \A t \in Sids : t \notin {} \cup {} \cup {s} => marks'[t] = marks[t]
          /\ [Durable!Next]_Fates
      BY <2>1, <2>2, <2>3, EndsStep
    <2>5. ReplayAlive'
      <3>1. CASE Restored(s)
        BY <1>6, <3>1 DEF Cancelled, ReplayAlive
      <3>2. CASE ~Restored(s)
        <4>1. \A i \in 1..Len(replay) : replay[i] # s /\ replay[i] \in Sids
          BY <1>1, <1>6, <3>2, OutsideReplay DEF Cancelled
        <4>2. UNCHANGED replay
          BY <1>6, <3>2 DEF Cancelled
        <4> QED
          BY <2>4, <4>1, <4>2 DEF ReplayAlive, Alive, RInv, DiskInv
      <3> QED
        BY <3>1, <3>2
    <2> QED
      BY <2>4, <2>5 DEF DiskInv
  <1>7. CASE CancelledUnstarted(s)
    <2>1. UNCHANGED <<queue, snap, marks, replay>> /\ task' = [task EXCEPT ![s] = "none"]
      BY <1>7 DEF CancelledUnstarted, disk, history
    <2>2. [Durable!Next]_Fates
      BY <2>1, StutterStep DEF FateOf
    <2>3. \A t \in Sids : task'[t] # "none" => task[t] # "none"
      BY <1>1, <2>1 DEF TypeOK, ProcessType
    <2>4. DiskInv'
      BY <2>1, <2>3 DEF RInv, DiskInv, EntriesAlive, TasksAlive, ReplayAlive, NoFaultMarks, Alive
    <2> QED
      BY <2>2, <2>4
  <1> QED
    BY <1>3, <1>4, <1>5, <1>6, <1>7 DEF TaskStep

LEMMA SubmitRefines ==
    ASSUME RInv, ~DiskFaults, NEW s \in Sids, Submit(s)
    PROVE  DiskInv' /\ [Durable!Next]_Fates
  <1>1. PICK w \in WriteOutcomes, e \in EntryOutcomes :
             /\ queue' = [queue EXCEPT ![s] =
                             IF e = "good"
                             THEN [file |-> "good", prior |-> PriorHistory(s), created |-> clock + 1]
                             ELSE [file |-> e, prior |-> <<>>, created |-> 0]]
             /\ marks' = [marks EXCEPT ![s] =
                             {"accepted"}
                             \cup (IF e = "good" THEN {} ELSE {"unsaved"})
                             \cup (IF w = "ok" /\ ~chatLog.torn /\ Loads(User(s))
                                   THEN {} ELSE {"unpaired"})]
    BY DEF Submit
  <1>2. e = "good"
    BY DEF EntryOutcomes
  <1>3. TypeOK
    BY DEF RInv, IInv
  <1>4. /\ queue'[s].file = "good"
        /\ "accepted" \in marks'[s] /\ "finished" \notin marks'[s]
        /\ "unsaved" \notin marks'[s] /\ "unread" \notin marks'[s]
    BY <1>1, <1>2, <1>3 DEF TypeOK, DiskType, HistoryType
  <1>5. /\ snap[s].created = 0 /\ snap'[s].created # 0
        /\ UNCHANGED replay /\ task' = [task EXCEPT ![s] = "created"]
    BY <1>3 DEF Submit, TypeOK, HistoryType
  <1>6. \A t \in Sids : t # s => /\ queue'[t] = queue[t] /\ marks'[t] = marks[t]
                                 /\ snap'[t] = snap[t] /\ task'[t] = task[t]
    BY <1>1, <1>3, <1>5 DEF Submit, TypeOK, DiskType, ProcessType, HistoryType
  <1>7. Durable!Accept(s)
    <2>1. FateOf(s) = "new" /\ FateOf(s)' = "pending"
      BY <1>4, <1>5 DEF FateOf
    <2>2. \A t \in Sids : t # s => FateOf(t)' = FateOf(t)
      BY <1>6 DEF FateOf
    <2> QED
      BY <2>1, <2>2 DEF Durable!Accept, Durable!Become
  <1>8. EntriesAlive' /\ TasksAlive' /\ NoFaultMarks'
    BY <1>4, <1>6 DEF RInv, DiskInv, EntriesAlive, TasksAlive, NoFaultMarks, Alive
  <1>9. ReplayAlive'
    <2>1. \A i \in 1..Len(replay) : replay[i] \in Sids /\ replay[i] # s
      BY <1>3, <1>5 DEF RInv, IInv, ReplayIsSnapshots, KnownTo, TypeOK, ProcessType
    <2> QED
      BY <1>5, <1>6, <2>1 DEF RInv, DiskInv, ReplayAlive, Alive
  <1> QED
    BY <1>7, <1>8, <1>9 DEF DiskInv, Durable!Next

LEMMA ShellRefines ==
    ASSUME RInv, ~DiskFaults, Shell
    PROVE  DiskInv' /\ [Durable!Next]_Fates
  <1>1. CASE Stop \/ EmergencyStop \/ RestartStops \/ RestartStarts
    <2>1. UNCHANGED <<queue, snap, marks, replay, task>>
      BY <1>1 DEF Stop, EmergencyStop, RestartStops, RestartStarts, disk, history, sessions
    <2>2. DiskInv'
      BY <2>1 DEF RInv, DiskInv, EntriesAlive, TasksAlive, ReplayAlive, NoFaultMarks, Alive
    <2> QED
      BY <2>1, <2>2, StutterStep DEF FateOf
  <1>2. CASE ResetChat \/ ResetAll
    <2>1. PICK gone \in SUBSET OnDisk : Wipe(gone)
      BY <1>2, DeletableSubset DEF ResetChat, ResetAll
    <2>2. UNCHANGED <<snap, replay, task>>
      BY <1>2 DEF ResetChat, ResetAll, sessions
    <2>3. /\ EntriesAlive' /\ NoFaultMarks' /\ \A s \in Sids : Alive(s) => Alive(s)'
          /\ [Durable!Next]_Fates
      BY <2>1, <2>2, WipeStep
    <2>4. \A i \in 1..Len(replay) : replay[i] \in Sids
      BY DEF RInv, IInv, TypeOK, ProcessType
    <2>5. TasksAlive' /\ ReplayAlive'
      BY <2>2, <2>3, <2>4 DEF RInv, DiskInv, TasksAlive, ReplayAlive
    <2> QED
      BY <2>3, <2>5 DEF DiskInv
  <1> QED
    BY <1>1, <1>2 DEF Shell

LEMMA FailureRefines ==
    ASSUME RInv, ~DiskFaults, Failure
    PROVE  DiskInv' /\ [Durable!Next]_Fates
  <1>1. TasksAlive' /\ ReplayAlive'
    BY DEF Failure, Crash, CrashInSubmit, CrashInReply, CrashInReset, Dies,
           TasksAlive, ReplayAlive
  <1>2. TypeOK
    BY DEF RInv, IInv
  <1>3. CASE Crash
    <2>1. UNCHANGED <<queue, snap, marks>>
      BY <1>3 DEF Crash, disk, history
    <2>2. EntriesAlive' /\ NoFaultMarks'
      BY <2>1 DEF RInv, DiskInv, EntriesAlive, NoFaultMarks, Alive
    <2> QED
      BY <1>1, <2>1, <2>2, StutterStep DEF FateOf, DiskInv
  <1>4. ASSUME NEW s \in Sids, CrashInSubmit(s)
        PROVE  DiskInv' /\ [Durable!Next]_Fates
    <2>1. PICK e \in {"absent", "malformed"} : queue' = [queue EXCEPT ![s].file = e]
      BY <1>4 DEF CrashInSubmit
    <2>2. /\ snap' = [snap EXCEPT ![s] = [created |-> clock + 1, prior |-> PriorHistory(s)]]
          /\ UNCHANGED marks /\ snap[s].created = 0
      BY <1>4 DEF CrashInSubmit
    <2>3. marks[s] = {}
      BY <2>2 DEF RInv, IInv, FreshIds
    <2>4. snap'[s].created # 0 /\ queue'[s].file # "good"
      BY <1>2, <2>1, <2>2 DEF TypeOK, DiskType, HistoryType, Entry
    <2>5. \A t \in Sids : t # s => queue'[t] = queue[t] /\ snap'[t] = snap[t]
      BY <1>2, <2>1, <2>2 DEF TypeOK, DiskType, HistoryType
    <2>6. Durable!Refuse(s)
      <3>1. FateOf(s) = "new" /\ FateOf(s)' = "refused"
        BY <2>2, <2>3, <2>4 DEF FateOf
      <3>2. \A t \in Sids : t # s => FateOf(t)' = FateOf(t)
        BY <2>2, <2>5 DEF FateOf
      <3> QED
        BY <3>1, <3>2 DEF Durable!Refuse, Durable!Become
    <2>7. EntriesAlive' /\ NoFaultMarks'
      BY <2>2, <2>4, <2>5 DEF RInv, DiskInv, EntriesAlive, NoFaultMarks, Alive
    <2> QED
      BY <1>1, <2>6, <2>7 DEF DiskInv, Durable!Next
  <1>5. ASSUME NEW s \in Sids, CrashInReply(s)
        PROVE  DiskInv' /\ [Durable!Next]_Fates
    <2>1. /\ UNCHANGED <<queue, snap>>
          /\ \A t \in Sids : marks'[t] \in {marks[t], marks[t] \cup {"survived"}}
      BY <1>2, <1>5 DEF CrashInReply, TypeOK, HistoryType
    <2>2. \A t \in Sids : /\ "accepted" \in marks'[t] <=> "accepted" \in marks[t]
                          /\ "finished" \in marks'[t] <=> "finished" \in marks[t]
                          /\ "wiped" \in marks'[t] <=> "wiped" \in marks[t]
                          /\ "unsaved" \in marks'[t] <=> "unsaved" \in marks[t]
                          /\ "unread" \in marks'[t] <=> "unread" \in marks[t]
      BY <2>1
    <2>3. [Durable!Next]_Fates
      BY <2>1, <2>2, StutterStep DEF FateOf
    <2>4. EntriesAlive' /\ NoFaultMarks'
      BY <2>1, <2>2 DEF RInv, DiskInv, EntriesAlive, NoFaultMarks, Alive
    <2> QED
      BY <1>1, <2>3, <2>4 DEF DiskInv
  <1>6. CASE CrashInReset
    <2>1. (\E gone \in SUBSET OnDisk : Wipe(gone)) /\ UNCHANGED snap
      BY <1>6 DEF CrashInReset
    <2>2. EntriesAlive' /\ NoFaultMarks' /\ [Durable!Next]_Fates
      BY <2>1, WipeStep
    <2> QED
      BY <1>1, <2>2 DEF DiskInv
  <1> QED
    BY <1>3, <1>4, <1>5, <1>6 DEF Failure

LEMMA StartRefines ==
    ASSUME RInv, ~DiskFaults, Start
    PROVE  DiskInv' /\ [Durable!Next]_Fates
  <1>1. PICK order \in InOrder(Whole \ {}) :
         \E k \in 0..Len(order) :
            /\ \E drop \in Deletable({} \cup RestoreDrops(Burnt(order, k))) :
                  Ends({}, Burnt(order, k), {}, Resumed(order, k), drop, {})
            /\ replay' = Left(order, k)
    BY DEF Start, Unreadable
  <1>2. PICK k \in 0..Len(order) :
            /\ \E drop \in Deletable({} \cup RestoreDrops(Burnt(order, k))) :
                  Ends({}, Burnt(order, k), {}, Resumed(order, k), drop, {})
            /\ replay' = Left(order, k)
    BY <1>1
  <1>3. PICK drop \in Deletable({} \cup RestoreDrops(Burnt(order, k))) :
            Ends({}, Burnt(order, k), {}, Resumed(order, k), drop, {})
    BY <1>2
  <1>4. /\ order \in Seq(Sids)
        /\ \A i \in 1..Len(order) : order[i] \in Whole
        /\ \A i, j \in 1..Len(order) : i # j => order[i] # order[j]
    <2>1. Whole \ {} \subseteq Sids
      BY DEF Whole
    <2>2. IsFiniteSet(Whole \ {})
      BY <2>1, CoreAssumption, FS_Subset
    <2>3. /\ order \in Seq(Whole \ {})
          /\ \A i, j \in 1..Len(order) : i # j => order[i] # order[j]
      BY <2>2, InOrderDistinct
    <2> QED
      BY <2>1, <2>3
  <1>5. \A i \in 1..Len(order) : order[i] \in Sids /\ Alive(order[i])
    BY <1>4 DEF Whole, RInv, DiskInv, EntriesAlive
  <1>6. \A t \in Burnt(order, k) \cup Resumed(order, k) :
           t \in Sids /\ \E i \in 1..Len(order) : t = order[i]
    BY <1>4, ReplayCut
  <1>7. drop = {} \cup RestoreDrops(Burnt(order, k)) /\ UNCHANGED snap
    BY DEF Deletable, Start
  <1>8. /\ {} \cup Burnt(order, k) \cup {} \subseteq Sids
        /\ {} \cup Burnt(order, k) \cup {} \subseteq drop
        /\ \A t \in Sids : t \in drop => \/ t \in {} \cup Burnt(order, k) \cup {}
                                         \/ queue[t].file = "malformed"
        /\ \A t \in Sids :
              t \in {} \cup Burnt(order, k) \cup {} \cup Resumed(order, k) => Alive(t)
    BY <1>5, <1>6, <1>7 DEF RestoreDrops
  <1>9. /\ EntriesAlive' /\ TasksAlive' /\ NoFaultMarks'
        /\ \A t \in Sids : t \notin {} \cup Burnt(order, k) \cup {} => marks'[t] = marks[t]
        /\ [Durable!Next]_Fates
    BY <1>3, <1>7, <1>8, EndsStep
  <1>10. ReplayAlive'
    <2>1. ASSUME NEW i \in 1..Len(replay')
          PROVE  "accepted" \in marks'[replay'[i]] /\ "finished" \notin marks'[replay'[i]]
      <3>1. replay' = Left(order, k)
        BY <1>2
      <3>2. replay'[i] \notin Burnt(order, k)
        BY <1>4, <2>1, <3>1, LeftOutside
      <3>3. PICK j \in 1..Len(order) : replay'[i] = order[j]
        BY <1>4, <2>1, <3>1, LeftOutside
      <3>4. marks'[order[j]] = marks[order[j]]
        BY <1>5, <1>9, <3>2, <3>3
      <3> QED
        BY <1>5, <3>3, <3>4 DEF Alive
    <2> QED
      BY <2>1 DEF ReplayAlive, Alive
  <1> QED
    BY <1>9, <1>10 DEF DiskInv

----------------------------------------------------------------------------
(* The theorem. *)

LEMMA NextRefines ==
    ASSUME RInv, ~DiskFaults, [Next]_vars
    PROVE  DiskInv' /\ [Durable!Next]_Fates
  <1>1. CASE UNCHANGED vars
    <2>1. UNCHANGED <<queue, snap, marks, replay, task>>
      BY <1>1 DEF vars
    <2>2. DiskInv'
      BY <2>1 DEF RInv, DiskInv, EntriesAlive, TasksAlive, ReplayAlive, NoFaultMarks, Alive
    <2> QED
      BY <2>1, <2>2, StutterStep DEF FateOf
  <1> QED
    BY <1>1, SubmitRefines, TaskRefines, ShellRefines, FailureRefines, StartRefines DEF Next

LEMMA InitRefines == Init => ReplayWaits /\ DiskInv /\ Durable!Init
  <1> SUFFICES ASSUME Init PROVE ReplayWaits /\ DiskInv /\ Durable!Init
    OBVIOUS
  <1>1. ReplayWaits
    BY DEF Init, NothingRuns, ReplayWaits
  <1>2. DiskInv
    BY DEF Init, NothingRuns, NoEntry, DiskInv, EntriesAlive, TasksAlive, ReplayAlive,
           NoFaultMarks
  <1>3. Durable!Init
    BY DEF Init, Durable!Init, FateOf
  <1> QED
    BY <1>1, <1>2, <1>3

\* On a working disk the core implements DurablePrompts.  Nothing but the end
\* of its session and a wipe changes the fate of an accepted prompt, each
\* prompt ends at most once, and crashes, restarts and starts are stutters or
\* ends.
THEOREM CoreImplementsDurable ==
    ASSUME ~DiskFaults
    PROVE  Spec => ImplementsDurable
  <1>1. Init => ReplayWaits /\ DiskInv /\ Durable!Init
    BY InitRefines
  <1>2. IInv /\ ReplayWaits /\ DiskInv /\ [Next]_vars => ReplayWaits' /\ DiskInv'
    BY NextReplayWaits, NextRefines DEF RInv
  <1>3. IInv /\ ReplayWaits /\ DiskInv /\ [Next]_vars => [Durable!Next]_Fates
    BY NextRefines DEF RInv
  <1> QED
    BY <1>1, <1>2, <1>3, InductiveInvariant, PTL
       DEF Spec, ImplementsDurable, Durable!Spec, Fates

----------------------------------------------------------------------------
(* The order of the restored prompts. *)

\* No older prompt that the process restored and has not run is behind the
\* j-th of the replay.
NoneOvertaken(j) ==
    \A s \in Sids :
        /\ queue[s].file = "good" /\ status[s] = "none"
        /\ snap[s].created < snap[replay[j]].created
        => \E i \in 1..(j - 1) : replay[i] = s

ReplayInOrder == \A j \in 1..Len(replay) : NoneOvertaken(j)

\* A finite set listed without repetition is listed whole.
LEMMA InOrderIsWhole ==
    ASSUME NEW S, IsFiniteSet(S), NEW f \in InOrder(S), NEW s \in S
    PROVE  \E i \in 1..Len(f) : f[i] = s
  <1>1. Cardinality(S) \in Nat /\ f \in [1..Cardinality(S) -> S]
    BY FS_CardinalityType DEF InOrder
  <1>2. Len(f) = Cardinality(S)
    BY <1>1
  <1>3. \A i, j \in 1..Cardinality(S) : i # j => f[i] # f[j]
    BY <1>2, InOrderDistinct
  <1>4. f \in Injection(1..Cardinality(S), S)
    BY <1>1, <1>3 DEF Injection, IsInjective
  <1>5. Cardinality(1..Cardinality(S)) = Cardinality(S)
    BY <1>1, FS_Interval
  <1>6. f \in Surjection(1..Cardinality(S), S)
    BY <1>4, <1>5, FS_Injection
  <1> QED
    BY <1>2, <1>6 DEF Surjection

\* Sessions that come after a cut keep the order of the uncut list: those
\* before the cut have been run, and are no longer to be restored.
LEMMA CutInOrder ==
    ASSUME NEW rest \in Seq(Sids), NEW k \in 0..Len(rest), UNCHANGED snap,
           replay' = Left(rest, k),
           \A j \in 1..Len(rest), s \in Sids :
              /\ queue'[s].file = "good" /\ status'[s] = "none"
              /\ snap[s].created < snap[rest[j]].created
              => \E i \in 1..(j - 1) : rest[i] = s /\ s \notin Burnt(rest, k)
    PROVE  ReplayInOrder'
  <1>1. /\ Len(replay') = Len(rest) - k
        /\ \A i \in 1..Len(replay') : replay'[i] = rest[k + i] /\ k + i \in 1..Len(rest)
    BY DEF Left
  <1>2. SUFFICES ASSUME NEW j \in 1..Len(replay'), NEW s \in Sids,
                        queue'[s].file = "good", status'[s] = "none",
                        snap'[s].created < snap'[replay'[j]].created
                 PROVE  \E i \in 1..(j - 1) : replay'[i] = s
    BY DEF ReplayInOrder, NoneOvertaken
  <1>3. replay'[j] = rest[k + j] /\ k + j \in 1..Len(rest)
    BY <1>1
  <1>4. PICK i \in 1..(k + j - 1) : rest[i] = s /\ s \notin Burnt(rest, k)
    BY <1>2, <1>3
  <1>5. i > k
    BY <1>3, <1>4 DEF Burnt
  <1>6. i - k \in 1..(j - 1) /\ i - k \in 1..Len(replay') /\ k + (i - k) = i
    BY <1>1, <1>3, <1>4, <1>5
  <1>7. replay'[i - k] = rest[i]
    BY <1>1, <1>6
  <1> QED
    BY <1>4, <1>6, <1>7

\* A step that leaves the replay, restores nothing and forgets no status keeps
\* the order.
LEMMA SameInOrder ==
    ASSUME ReplayInOrder, UNCHANGED replay,
           \A i \in 1..Len(replay) : snap'[replay[i]] = snap[replay[i]],
           \A s \in Sids : queue'[s].file = "good" /\ status'[s] = "none"
                           => /\ queue[s].file = "good" /\ status[s] = "none"
                              /\ snap'[s] = snap[s]
    PROVE  ReplayInOrder'
  BY DEF ReplayInOrder, NoneOvertaken

\* What the end of sessions leaves to restore was to restore before.
LEMMA EndsRestores ==
    ASSUME NEW done, NEW errs, NEW canc, NEW begun, NEW drop, NEW unread,
           Ends(done, errs, canc, begun, drop, unread), NEW s \in Sids,
           queue'[s].file = "good", status'[s] = "none"
    PROVE  /\ queue[s].file = "good" /\ status[s] = "none"
           /\ s \notin done \cup errs \cup canc \cup begun
  BY DEF Ends, NoEntry

\* The end of session s keeps the order of those that follow it.
LEMMA ContinueInOrder ==
    ASSUME TypeOK, ReplayWaits, ReplayInOrder, NEW s \in Sids, task[s] # "none",
           NEW k \in Burns(After(s)),
           NEW done, NEW errs, done \cup errs = {s} \cup Burnt(After(s), k),
           NEW drop, NEW unread,
           Ends(done, errs, {}, Resumed(After(s), k), drop, unread),
           replay' = IF Restored(s) THEN Left(After(s), k) ELSE replay,
           UNCHANGED snap
    PROVE  ReplayInOrder'
  <1> replay \in Seq(Sids)
    BY DEF TypeOK, ProcessType
  <1>1. \A t \in Sids : queue'[t].file = "good" /\ status'[t] = "none"
                        => /\ queue[t].file = "good" /\ status[t] = "none"
                           /\ t # s /\ t \notin Burnt(After(s), k)
    BY EndsRestores
  <1>2. CASE Restored(s)
    <2>1. /\ After(s) \in Seq(Sids) /\ Len(After(s)) = Len(replay) - 1
          /\ \A i \in 1..Len(After(s)) : After(s)[i] = replay[i + 1] /\ i + 1 \in 1..Len(replay)
          /\ s = replay[1]
      BY <1>2 DEF After, Restored
    <2>2. k \in 0..Len(After(s)) /\ replay' = Left(After(s), k)
      BY <1>2, <2>1 DEF Burns
    <2>3. ASSUME NEW j \in 1..Len(After(s)), NEW t \in Sids,
                 queue'[t].file = "good", status'[t] = "none",
                 snap[t].created < snap[After(s)[j]].created
          PROVE  \E i \in 1..(j - 1) : After(s)[i] = t /\ t \notin Burnt(After(s), k)
      <3>1. After(s)[j] = replay[j + 1] /\ j + 1 \in 1..Len(replay)
        BY <2>1
      <3>2. PICK p \in 1..(j + 1 - 1) : replay[p] = t
        BY <1>1, <2>3, <3>1 DEF ReplayInOrder, NoneOvertaken
      <3>3. t # s /\ t \notin Burnt(After(s), k)
        BY <1>1, <2>3
      <3>4. p # 1
        BY <2>1, <3>2, <3>3
      <3>5. p - 1 \in 1..(j - 1) /\ p - 1 \in 1..Len(After(s)) /\ (p - 1) + 1 = p
        BY <2>1, <3>2, <3>4
      <3>6. After(s)[p - 1] = replay[p]
        BY <2>1, <3>5
      <3> QED
        BY <3>2, <3>3, <3>5, <3>6
    <2> QED
      BY <2>1, <2>2, <2>3, CutInOrder
  <1>3. CASE ~Restored(s)
    <2>1. UNCHANGED replay
      BY <1>3
    <2> QED
      BY <1>1, <2>1, SameInOrder
  <1> QED
    BY <1>2, <1>3

LEMMA StartInOrder ==
    ASSUME ~DiskFaults, IInv, Start
    PROVE  ReplayInOrder'
  <1>1. PICK order \in InOrder(Whole) :
         \E k \in 0..Len(order) :
            /\ \E drop \in Deletable({} \cup RestoreDrops(Burnt(order, k))) :
                  Ends({}, Burnt(order, k), {}, Resumed(order, k), drop, {})
            /\ replay' = Left(order, k)
    <2>1. Whole \ {} = Whole
      OBVIOUS
    <2> QED
      BY <2>1 DEF Start, Unreadable
  <1>2. PICK k \in 0..Len(order) :
            /\ \E drop \in Deletable({} \cup RestoreDrops(Burnt(order, k))) :
                  Ends({}, Burnt(order, k), {}, Resumed(order, k), drop, {})
            /\ replay' = Left(order, k)
    BY <1>1
  <1>3. PICK drop : Ends({}, Burnt(order, k), {}, Resumed(order, k), drop, {})
    BY <1>2
  <1>4. Whole \subseteq Sids /\ IsFiniteSet(Whole)
    BY CoreAssumption, FS_Subset DEF Whole
  <1>5. /\ order \in Seq(Whole) /\ order \in Seq(Sids)
        /\ Len(order) = Cardinality(Whole) /\ Cardinality(Whole) \in Nat
    BY <1>4, InOrderDistinct, FS_CardinalityType DEF InOrder
  <1>6. ASSUME NEW j \in 1..Len(order), NEW s \in Sids,
               queue'[s].file = "good", status'[s] = "none",
               snap[s].created < snap[order[j]].created
        PROVE  \E i \in 1..(j - 1) : order[i] = s /\ s \notin Burnt(order, k)
    <2>1. queue[s].file = "good" /\ s \notin Burnt(order, k)
      BY <1>3, <1>6, EndsRestores
    <2>2. s \in Whole
      BY <2>1 DEF Whole
    <2>3. PICK i \in 1..Len(order) : order[i] = s
      BY <1>1, <1>4, <2>2, InOrderIsWhole
    <2>4. order[j] \in Whole /\ order[j] \in Sids
      BY <1>5
    <2>5. queue[s].created = snap[s].created /\ queue[order[j]].created = snap[order[j]].created
      BY <2>1, <2>4 DEF IInv, EntriesAreSnapshots, Whole
    <2>6. queue[s].created \in Nat /\ queue[order[j]].created \in Nat
      BY <2>4 DEF IInv, TypeOK, DiskType, Entry
    <2>7. j < i => queue[order[j]].created <= queue[order[i]].created
      BY <1>1, <1>5, <2>3 DEF InOrder
    <2>8. j # i
      BY <1>6, <2>3, <2>5, <2>6
    <2>9. i < j
      BY <1>5, <1>6, <2>3, <2>5, <2>6, <2>7, <2>8
    <2> QED
      BY <1>5, <2>1, <2>3, <2>9
  <1>7. UNCHANGED snap /\ replay' = Left(order, k)
    BY <1>2 DEF Start
  <1> QED
    BY <1>5, <1>6, <1>7, CutInOrder

LEMMA NextInOrder ==
    ASSUME ~DiskFaults, IInv, ReplayWaits, ReplayInOrder, [Next]_vars
    PROVE  ReplayInOrder'
  <1> TypeOK
    BY DEF IInv
  <1> replay \in Seq(Sids)
    BY DEF TypeOK, ProcessType
  <1>1. ASSUME NEW s \in Sids, Submit(s) PROVE ReplayInOrder'
    <2>1. \A i \in 1..Len(replay) : replay[i] # s /\ replay[i] \in Sids
      BY <1>1 DEF IInv, ReplayIsSnapshots, KnownTo, Submit
    <2>2. /\ status'[s] = "pending" /\ UNCHANGED replay
          /\ \A t \in Sids : t # s => /\ status'[t] = status[t] /\ queue'[t] = queue[t]
                                      /\ snap'[t] = snap[t]
      BY <1>1 DEF Submit, TypeOK, DiskType, ProcessType, HistoryType
    <2> QED
      BY <2>1, <2>2, SameInOrder
  <1>2. ASSUME NEW s \in Sids, TaskStep(s) PROVE ReplayInOrder'
    <2>1. UNCHANGED snap
      BY <1>2 DEF TaskStep, Begin, Reply, Raise, Cancelled, CancelledUnstarted, history
    <2>2. CASE Begin(s)
      <3>1. UNCHANGED replay
        BY <2>2 DEF Begin
      <3>2. \A t \in Sids : queue'[t].file = "good" /\ status'[t] = "none"
                            => queue[t].file = "good" /\ status[t] = "none"
        BY <2>2, EndsRestores DEF Begin
      <3> QED
        BY <2>1, <3>1, <3>2, SameInOrder
    <2>3. CASE Reply(s)
      <3>1. PICK k \in Burns(After(s)) :
               /\ \E drop \in Deletable({s} \cup Burnt(After(s), k)) :
                     Ends({s}, Burnt(After(s), k), {}, Resumed(After(s), k), drop, {})
               /\ replay' = IF Restored(s) THEN Left(After(s), k) ELSE replay
        BY <2>3 DEF Reply
      <3>2. task[s] # "none"
        BY <2>3 DEF Reply
      <3> QED
        BY <2>1, <3>1, <3>2, ContinueInOrder
    <2>4. CASE Raise(s)
      <3>1. PICK k \in Burns(After(s)) :
               /\ \E drop \in Deletable({s} \cup Burnt(After(s), k)) :
                     Ends({}, {s} \cup Burnt(After(s), k), {}, Resumed(After(s), k), drop, {})
               /\ replay' = IF Restored(s) THEN Left(After(s), k) ELSE replay
        BY <2>4 DEF Raise
      <3>2. task[s] # "none"
        BY <2>4 DEF Raise
      <3> QED
        BY <2>1, <3>1, <3>2, ContinueInOrder
    <2>5. CASE Cancelled(s)
      <3>1. PICK drop \in Deletable({s}) : Ends({}, {}, {s}, {}, drop, {})
        BY <2>5 DEF Cancelled
      <3>2. \A t \in Sids : queue'[t].file = "good" /\ status'[t] = "none"
                            => queue[t].file = "good" /\ status[t] = "none"
        BY <3>1, EndsRestores
      <3>3. CASE replay' = <<>>
        BY <3>3 DEF ReplayInOrder
      <3>4. CASE UNCHANGED replay
        BY <2>1, <3>2, <3>4, SameInOrder
      <3> QED
        BY <2>5, <3>3, <3>4 DEF Cancelled
    <2>6. CASE CancelledUnstarted(s)
      <3>1. UNCHANGED <<replay, queue, status>>
        BY <2>6 DEF CancelledUnstarted, disk
      <3> QED
        BY <2>1, <3>1, SameInOrder
    <2> QED
      BY <1>2, <2>2, <2>3, <2>4, <2>5, <2>6 DEF TaskStep
  <1>3. CASE Stop \/ EmergencyStop \/ RestartStops \/ RestartStarts \/ UNCHANGED vars
    <2>1. UNCHANGED <<replay, queue, status, snap>>
      BY <1>3 DEF Stop, EmergencyStop, RestartStops, RestartStarts, disk, sessions, history, vars
    <2> QED
      BY <2>1, SameInOrder
  <1>4. CASE ResetChat \/ ResetAll
    <2>1. UNCHANGED <<replay, status, snap>> /\ \E gone : Wipe(gone)
      BY <1>4 DEF ResetChat, ResetAll, sessions
    <2>2. \A s \in Sids : queue'[s] \in {NoEntry, queue[s]}
      BY <2>1 DEF Wipe
    <2>3. \A s \in Sids : queue'[s].file = "good" => queue[s].file = "good"
      BY <2>2 DEF NoEntry
    <2> QED
      BY <2>1, <2>3, SameInOrder
  <1>5. CASE Failure
    <2>1. replay' = <<>>
      BY <1>5 DEF Failure, Crash, CrashInSubmit, CrashInReply, CrashInReset, Dies
    <2> QED
      BY <2>1 DEF ReplayInOrder
  <1>6. CASE Start
    BY <1>6, StartInOrder
  <1> QED
    BY <1>1, <1>2, <1>3, <1>4, <1>5, <1>6 DEF Next, Shell

\* On a working disk, restored prompts run one after another, and none of them
\* overtakes an older one that the process has yet to run, also when prompts
\* of earlier processes are restored together.
THEOREM RestoredByAge == Spec => []RestoredInOrder
  <1>1. ASSUME ~DiskFaults PROVE Spec => []RestoredInOrder
    <2>1. Init => ReplayWaits /\ ReplayInOrder
      BY DEF Init, NothingRuns, ReplayWaits, ReplayInOrder
    <2>2. IInv /\ ReplayWaits /\ [Next]_vars => ReplayWaits'
      BY NextReplayWaits
    <2>3. IInv /\ ReplayWaits /\ ReplayInOrder /\ [Next]_vars => ReplayInOrder'
      BY <1>1, NextInOrder
    <2>4. ReplayWaits /\ ReplayInOrder => RestoredInOrder
      BY DEF ReplayWaits, ReplayInOrder, NoneOvertaken, RestoredInOrder
    <2> QED
      BY <2>1, <2>2, <2>3, <2>4, InductiveInvariant, PTL DEF Spec
  <1>2. ASSUME DiskFaults PROVE Spec => []RestoredInOrder
    <2>1. RestoredInOrder
      BY <1>2 DEF RestoredInOrder
    <2> QED
      BY <2>1, PTL
  <1> QED
    BY <1>1, <1>2
============================================================================
