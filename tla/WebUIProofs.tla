---------------------------- MODULE WebUIProofs ----------------------------
(***************************************************************************)
(* Proofs about WebUI: for any set of tabs, following any sessions of the  *)
(* core, with any number of crashes and broken connections.                *)
(***************************************************************************)
EXTENDS WebUI, HarnessCoreRefinement, HarnessCoreLogProofs

----------------------------------------------------------------------------
(* The page lets the core be. *)

LEMMA UIStepIsCoreStep == [UINext]_uiVars => [Next]_vars
  BY DEF UINext, CoreStep, Connect, Receive, Break, TakenByStale, Noticed, uiVars

\* The composition runs the core as it is: whatever is proved about the core
\* holds of it.
THEOREM PageOnTopOfCore == UISpec => Spec
  <1>1. UIInit => Init
    BY DEF UIInit
  <1> QED
    BY <1>1, UIStepIsCoreStep, PTL DEF UISpec, Spec

----------------------------------------------------------------------------
(* The streams of the core: a step leaves one alone, puts one outcome on it *)
(* or ends the process.                                                     *)

Ended(s) == "finished" \in marks[s]

Same(s) == chunks'[s] = chunks[s] /\ (Ended(s) => Ended(s)')
Grows(s, c) == chunks'[s] = chunks[s] \o <<c, "END">> /\ Ended(s)'
Died == /\ started /\ ~started'
        /\ chunks' = [s \in Sids |-> <<>>]
        /\ spent'.crashes = spent.crashes + 1
        /\ \A s \in Sids : Ended(s) => Ended(s)'

Stays == ~(started /\ ~started') /\ (UNCHANGED spent.crashes)

LEMMA EndsStreams ==
    ASSUME NEW done, NEW errs, NEW canc, NEW begun, NEW drop, NEW unread,
           Ends(done, errs, canc, begun, drop, unread), NEW s \in Sids
    PROVE  \/ s \in done /\ Grows(s, "content")
           \/ s \in errs \cup canc /\ \E c \in {"error", "cancelled"} : Grows(s, c)
           \/ s \notin done \cup errs \cup canc /\ Same(s)
  <1> DEFINE over == done \cup errs \cup canc
  <1>1. chunks'[s] = IF s \in done THEN chunks[s] \o <<"content", "END">>
                     ELSE IF s \in errs THEN chunks[s] \o <<"error", "END">>
                     ELSE IF s \in canc THEN chunks[s] \o <<"cancelled", "END">>
                     ELSE chunks[s]
    BY DEF Ends, Outcome
  <1>2. marks'[s] = IF s \in over
                    THEN marks[s] \cup {"finished"}
                         \cup (IF DiskFaults /\ s \notin drop THEN {"survived"} ELSE {})
                    ELSE IF s \in drop \cap unread THEN marks[s] \cup {"unread"} ELSE marks[s]
    BY DEF Ends
  <1>3. s \in over => Ended(s)'
    BY <1>2 DEF Ended
  <1>4. s \notin over => (Ended(s) => Ended(s)')
    BY <1>2 DEF Ended
  <1> QED
    BY <1>1, <1>3, <1>4 DEF Grows, Same

\* A crash takes the streams with it.
LEMMA FailureDies ==
    ASSUME IInv, Failure
    PROVE  Died
  <1>1. started
    BY DEF Failure, Crash, CrashInSubmit, CrashInReply, CrashInReset, IInv, DeadRunsNothing
  <1>2. ~started' /\ chunks' = [s \in Sids |-> <<>>] /\ CountCrash
    BY DEF Failure, Crash, CrashInSubmit, CrashInReply, CrashInReset, Dies
  <1>3. spent'.crashes = spent.crashes + 1
    BY <1>2 DEF CountCrash, IInv, TypeOK, HistoryType, Spent
  <1>4. ASSUME NEW s \in Sids, Ended(s) PROVE Ended(s)'
    <2>1. CASE UNCHANGED marks
      BY <1>4, <2>1 DEF Ended
    <2>2. ASSUME NEW t \in Sids, CrashInReply(t) PROVE Ended(s)'
      BY <1>4, <2>2 DEF CrashInReply, Ended, IInv, TypeOK, HistoryType
    <2>3. CASE CrashInReset
      BY <1>4, <2>3 DEF CrashInReset, Wipe, Ended
    <2> QED
      BY <2>1, <2>2, <2>3 DEF Failure, Crash, CrashInSubmit, history
  <1> QED
    BY <1>1, <1>2, <1>3, <1>4 DEF Died

LEMMA NextStreams ==
    ASSUME IInv, [Next]_vars, NEW s \in Sids
    PROVE  \/ Died
           \/ Stays /\ Same(s)
           \/ Stays /\ Grows(s, "content") /\ Reply(s)
           \/ Stays /\ \E c \in {"error", "cancelled"} : Grows(s, c)
  <1>0. spent \in Spent /\ marks \in [Sids -> SUBSET Mark]
    BY DEF IInv, TypeOK, HistoryType
  <1>1. ASSUME NEW t \in Sids, Submit(t) PROVE Stays /\ Same(s)
    <2>1. Ended(s) => Ended(s)'
      <3>1. CASE s = t
        BY <1>1, <3>1 DEF Submit, Ended, IInv, FreshIds
      <3>2. CASE s # t
        BY <1>0, <1>1, <3>2 DEF Submit, Ended
      <3> QED
        BY <3>1, <3>2
    <2> QED
      BY <1>1, <2>1 DEF Submit, Same, Stays
  <1>2. ASSUME NEW t \in Sids, Begin(t)
        PROVE  Stays /\ (Same(s) \/ \E c \in {"error", "cancelled"} : Grows(s, c))
    BY <1>2, EndsStreams DEF Begin, Stays
  <1>3. ASSUME NEW t \in Sids, Reply(t)
        PROVE  /\ Stays
               /\ \/ Same(s)
                  \/ Grows(s, "content") /\ s = t
                  \/ \E c \in {"error", "cancelled"} : Grows(s, c)
    <2>1. PICK k \in Burns(After(t)) :
             \E drop \in Deletable({t} \cup Burnt(After(t), k)) :
                Ends({t}, Burnt(After(t), k), {}, Resumed(After(t), k), drop, {})
      BY <1>3 DEF Reply
    <2>2. \/ s \in {t} /\ Grows(s, "content")
          \/ \E c \in {"error", "cancelled"} : Grows(s, c)
          \/ Same(s)
      BY <2>1, EndsStreams
    <2> QED
      BY <1>3, <2>2 DEF Reply, Stays
  <1>4. ASSUME NEW t \in Sids, Raise(t) \/ Cancelled(t)
        PROVE  Stays /\ (Same(s) \/ \E c \in {"error", "cancelled"} : Grows(s, c))
    <2>1. CASE Raise(t)
      <3>1. PICK k \in Burns(After(t)) :
               \E drop \in Deletable({t} \cup Burnt(After(t), k)) :
                  Ends({}, {t} \cup Burnt(After(t), k), {}, Resumed(After(t), k), drop, {})
        BY <2>1 DEF Raise
      <3>2. Same(s) \/ \E c \in {"error", "cancelled"} : Grows(s, c)
        BY <3>1, EndsStreams
      <3> QED
        BY <2>1, <3>2 DEF Raise, Stays
    <2>2. CASE Cancelled(t)
      BY <2>2, EndsStreams DEF Cancelled, Stays
    <2> QED
      BY <1>4, <2>1, <2>2
  <1>5. ASSUME NEW t \in Sids, CancelledUnstarted(t) PROVE Stays /\ Same(s)
    BY <1>5 DEF CancelledUnstarted, Stays, Same, Ended, history
  <1>6. CASE Shell
    <2>1. ~(started /\ ~started') /\ UNCHANGED chunks
      BY <1>6 DEF Shell, Stop, EmergencyStop, RestartStops, RestartStarts, ResetChat,
                  ResetAll, sessions
    <2>2. UNCHANGED spent.crashes
      BY <1>0, <1>6 DEF Shell, Stop, EmergencyStop, RestartStops, RestartStarts, ResetChat,
                        ResetAll, CountStop, CountReset, Spent
    <2>3. Ended(s) => Ended(s)'
      BY <1>6 DEF Shell, Stop, EmergencyStop, RestartStops, RestartStarts, ResetChat,
                  ResetAll, Wipe, history, Ended
    <2> QED
      BY <2>1, <2>2, <2>3 DEF Stays, Same
  <1>7. CASE Start
    BY <1>7, EndsStreams DEF Start, Stays
  <1>8. CASE UNCHANGED vars
    BY <1>8 DEF vars, Stays, Same, Ended
  <1> QED
    BY <1>1, <1>2, <1>3, <1>4, <1>5, <1>6, <1>7, <1>8, FailureDies DEF Next, TaskStep

----------------------------------------------------------------------------
(* The inductive invariant of the page. *)

\* Nothing is on a stream, and nothing was shown, before the session ended.
Streamed == \A s \in Sids : chunks[s] # <<>> => Ended(s)
Told == \A t \in Tabs : shown[t] # <<>> => Ended(Follows[t])

UIInv == UITypeOK /\ Streamed /\ Told

LEMMA StreamType ==
    ASSUME TypeOK, NEW s \in Sids
    PROVE  chunks[s] \in Seq(Item)
  BY DEF TypeOK, ProcessType, Item

LEMMA StreamGrows ==
    ASSUME TypeOK, NEW s \in Sids, NEW c, Grows(s, c)
    PROVE  /\ Len(chunks'[s]) = Len(chunks[s]) + 2
           /\ \A i \in 1..Len(chunks[s]) : chunks'[s][i] = chunks[s][i]
  BY StreamType DEF Grows

\* A step of the core keeps what the page counts on.
LEMMA CoreStepUIInv ==
    ASSUME IInv, UIInv, [Next]_vars,
           IF started /\ ~started'
           THEN /\ phase' = [t \in Tabs |-> IF phase[t] = "open" THEN "broken" ELSE phase[t]]
                /\ taken' = Reborn(taken) /\ stale' = Reborn(stale)
                /\ UNCHANGED <<shown, breaks>>
           ELSE UNCHANGED page
    PROVE  UIInv'
  <1>1. \A s \in Sids : Ended(s) => Ended(s)'
    BY NextStreams DEF Died, Same, Grows
  <1>2. Told'
    BY <1>1, WebUIAssumption DEF UIInv, UITypeOK, Told, page
  <1>3. CASE started /\ ~started'
    <2>1. \A s \in Sids : chunks'[s] = <<>>
      BY <1>3, NextStreams DEF Died, Stays
    <2>2. Streamed'
      BY <2>1 DEF Streamed
    <2>3. UITypeOK'
      BY <1>3, <2>1 DEF UIInv, UITypeOK, Reborn
    <2> QED
      BY <1>2, <2>2, <2>3 DEF UIInv
  <1>4. CASE ~(started /\ ~started')
    <2>1. ASSUME NEW s \in Sids
          PROVE  /\ Len(chunks'[s]) >= Len(chunks[s])
                 /\ chunks'[s] # <<>> => Ended(s)'
      <3>1. CASE Same(s)
        BY <3>1, StreamType DEF Same, UIInv, Streamed, IInv
      <3>2. ASSUME NEW c, Grows(s, c) PROVE Len(chunks'[s]) >= Len(chunks[s]) /\ Ended(s)'
        BY <3>2, StreamGrows, StreamType DEF Grows, IInv
      <3> QED
        BY <1>4, <3>1, <3>2, NextStreams DEF Died
    <2>2. Streamed'
      BY <2>1 DEF Streamed
    <2>3. \A s \in Sids : Len(chunks'[s]) \in Nat /\ Len(chunks[s]) \in Nat
      BY StreamType, NextIInv DEF IInv, TypeOK, ProcessType
    <2>4. UITypeOK'
      BY <1>4, <2>1, <2>3 DEF UIInv, UITypeOK, page
    <2> QED
      BY <1>2, <2>2, <2>4 DEF UIInv
  <1> QED
    BY <1>3, <1>4

\* So do the steps of a tab.
LEMMA TabStepUIInv ==
    ASSUME IInv, UIInv, NEW t \in Tabs, Connect(t) \/ Receive(t) \/ Break(t)
    PROVE  UIInv'
  <1> DEFINE f == Follows[t]
  <1>0. /\ phase \in [Tabs -> {"idle", "open", "broken", "closed"}]
        /\ shown \in [Tabs -> Seq(Item)]
        /\ taken \in [Sids -> Nat] /\ stale \in [Sids -> Nat] /\ breaks \in Nat
        /\ \A r \in Sids : taken[r] <= Len(chunks[r])
        /\ \A r \in Sids : chunks[r] \in Seq(Item)
        /\ \A r \in Sids : Len(chunks[r]) \in Nat
        /\ f \in Sids
    BY StreamType, WebUIAssumption DEF UIInv, UITypeOK, IInv
  <1>1. UNCHANGED <<chunks, marks>>
    BY DEF Connect, Receive, Break, vars, sessions, history
  <1>2. Streamed' /\ \A r \in Sids : Ended(r)' <=> Ended(r)
    BY <1>1 DEF UIInv, Streamed, Ended
  <1>3. CASE Connect(t) \/ Break(t)
    <2>1. UNCHANGED <<shown, taken>>
      BY <1>3 DEF Connect, Break
    <2>2. phase' \in [Tabs -> {"idle", "open", "broken", "closed"}]
      BY <1>0, <1>3 DEF Connect, Break
    <2>3. \/ UNCHANGED <<stale, breaks>>
          \/ stale' = [stale EXCEPT ![f] = @ + 1] /\ breaks' = breaks + 1
      BY <1>3 DEF Connect, Break
    <2>4. stale' \in [Sids -> Nat] /\ breaks' \in Nat
      BY <1>0, <2>3
    <2>5. UITypeOK'
      BY <1>0, <1>1, <2>1, <2>2, <2>4 DEF UITypeOK
    <2>6. Told'
      BY <1>2, <2>1, WebUIAssumption DEF UIInv, Told
    <2> QED
      BY <1>2, <2>5, <2>6 DEF UIInv
  <1>4. CASE Receive(t)
    <2>1. Pending(f) /\ taken' = [taken EXCEPT ![f] = @ + 1]
          /\ shown' = [shown EXCEPT ![t] = Append(@, NextItem(f))]
          /\ UNCHANGED <<stale, breaks>>
      BY <1>4 DEF Receive
    <2>2. taken[f] + 1 \in 1..Len(chunks[f]) /\ NextItem(f) \in Item
      BY <1>0, <2>1 DEF Pending, NextItem
    <2>3. shown' \in [Tabs -> Seq(Item)]
      BY <1>0, <2>1, <2>2
    <2>4. phase' \in [Tabs -> {"idle", "open", "broken", "closed"}]
      BY <1>0, <1>4 DEF Receive
    <2>5. taken' \in [Sids -> Nat] /\ \A r \in Sids : taken'[r] <= Len(chunks[r])
      BY <1>0, <2>1, <2>2
    <2>6. UITypeOK'
      BY <1>0, <1>1, <2>1, <2>3, <2>4, <2>5 DEF UITypeOK
    <2>7. Ended(f)
      BY <1>0, <2>2 DEF UIInv, Streamed
    <2>8. Told'
      BY <1>0, <1>2, <2>1, <2>7, WebUIAssumption DEF UIInv, Told
    <2> QED
      BY <1>2, <2>6, <2>8 DEF UIInv
  <1> QED
    BY <1>3, <1>4

\* And those of a generator whose connection is broken.
LEMMA StaleStepUIInv ==
    ASSUME IInv, UIInv, NEW s \in Sids, TakenByStale(s) \/ Noticed(s)
    PROVE  UIInv'
  <1>0. /\ taken \in [Sids -> Nat] /\ stale \in [Sids -> Nat]
        /\ \A r \in Sids : taken[r] <= Len(chunks[r]) /\ Len(chunks[r]) \in Nat
    BY StreamType DEF UIInv, UITypeOK, IInv
  <1>1. UNCHANGED <<chunks, marks, phase, shown, breaks>>
    BY DEF TakenByStale, Noticed, vars, sessions, history
  <1>2. stale[s] > 0 /\ stale' \in {stale, [stale EXCEPT ![s] = @ - 1]}
    BY DEF TakenByStale, Noticed
  <1>3. stale' \in [Sids -> Nat]
    <2>1. stale[s] - 1 \in Nat
      BY <1>0, <1>2
    <2> QED
      BY <1>0, <1>2, <2>1
  <1>4. \/ UNCHANGED taken
        \/ taken[s] < Len(chunks[s]) /\ taken' = [taken EXCEPT ![s] = @ + 1]
    BY DEF TakenByStale, Noticed, Pending
  <1>5. taken' \in [Sids -> Nat] /\ \A r \in Sids : taken'[r] <= Len(chunks[r])
    BY <1>0, <1>4
  <1>6. UITypeOK'
    BY <1>1, <1>3, <1>5 DEF UIInv, UITypeOK
  <1>7. Streamed'
    BY <1>1 DEF UIInv, Streamed, Ended
  <1>8. Told'
    BY <1>1 DEF UIInv, Told, Ended
  <1> QED
    BY <1>6, <1>7, <1>8 DEF UIInv

LEMMA NextUIInv == IInv /\ UIInv /\ [UINext]_uiVars => UIInv'
  <1> SUFFICES ASSUME IInv, UIInv, [UINext]_uiVars PROVE UIInv'
    OBVIOUS
  <1>1. CASE CoreStep
    BY <1>1, CoreStepUIInv DEF CoreStep
  <1>2. CASE UNCHANGED uiVars
    <2>1. UNCHANGED <<chunks, marks, page>>
      BY <1>2 DEF uiVars, vars, sessions, history
    <2> QED
      BY <2>1 DEF page, UIInv, UITypeOK, Streamed, Told, Ended
  <1>3. ASSUME NEW t \in Tabs, Connect(t) \/ Receive(t) \/ Break(t) PROVE UIInv'
    BY <1>3, TabStepUIInv
  <1>4. ASSUME NEW s \in Sids, TakenByStale(s) \/ Noticed(s) PROVE UIInv'
    BY <1>4, StaleStepUIInv
  <1> QED
    BY <1>1, <1>2, <1>3, <1>4 DEF UINext

LEMMA InitUIInv == UIInit => UIInv
  <1> SUFFICES ASSUME UIInit PROVE UIInv
    OBVIOUS
  <1>1. \A s \in Sids : chunks[s] = <<>>
    BY DEF UIInit, Init, NothingRuns
  <1>2. UITypeOK
    BY <1>1 DEF UIInit, UITypeOK
  <1> QED
    BY <1>1, <1>2 DEF UIInit, UIInv, Streamed, Told

\* What the theorems about the page rest on: only an ended session has a
\* stream, and only its tabs were shown some of it.
THEOREM PageInvariant == UISpec => []UIInv
  <1>1. Spec => []IInv
    BY InductiveInvariant
  <1> QED
    BY <1>1, PageOnTopOfCore, InitUIInv, NextUIInv, PTL DEF UISpec

\* Types, and no generator takes more than its session has put, whatever
\* breaks, reconnects or dies (stream_response of core.py).
THEOREM PageTypeCorrect == UISpec => []UITypeOK
  <1>1. UIInv => UITypeOK
    BY DEF UIInv
  <1> QED
    BY <1>1, PageInvariant, PTL

----------------------------------------------------------------------------
(* What a tab was shown is final. *)

LEMMA WorkingDiskInvariant ==
    ASSUME ~DiskFaults
    PROVE  Spec => []DiskInv
  <1>1. IInv /\ ReplayWaits /\ DiskInv /\ [Next]_vars => ReplayWaits' /\ DiskInv'
    BY NextReplayWaits, NextRefines DEF RInv
  <1> QED
    BY <1>1, InitRefines, InductiveInvariant, PTL DEF Spec

\* On a working disk no process runs a prompt again, or keeps it to be
\* restored, once any tab was sent a part of its outcome.
THEOREM ShownIsNeverRerun ==
    ASSUME ~DiskFaults
    PROVE  UISpec => []ShownIsFinal
  <1>1. ASSUME UIInv, DiskInv PROVE ShownIsFinal
    <2>1. ASSUME NEW t \in Tabs, shown[t] # <<>>
          PROVE  task[Follows[t]] = "none" /\ queue[Follows[t]].file # "good"
      <3>1. Follows[t] \in Sids /\ ~Alive(Follows[t])
        BY <1>1, <2>1, WebUIAssumption DEF UIInv, Told, Ended, Alive
      <3> QED
        BY <1>1, <3>1 DEF DiskInv, TasksAlive, EntriesAlive
    <2> QED
      BY <2>1 DEF ShownIsFinal
  <1>2. UIInv /\ DiskInv => ShownIsFinal
    BY <1>1
  <1> QED
    BY <1>2, PageInvariant, PageOnTopOfCore, WorkingDiskInvariant, PTL

----------------------------------------------------------------------------
(* What a tab was shown stays on the page. *)

InLog(s) == \/ "unpaired" \in marks[s]
            \/ \E i \in 1..Len(chatLog.lines) : chatLog.lines[i] = Assistant(s)

\* A log that only grew still has what it had.
LEMMA GrownLog ==
    ASSUME TypeOK, NEW s \in Sids, InLog(s),
           "unpaired" \in marks[s] => "unpaired" \in marks'[s],
           \/ UNCHANGED chatLog
           \/ \E m, w : chatLog' = Logged(chatLog, m, w)
    PROVE  InLog(s)'
  <1>1. chatLog.lines \in Seq(Message)
    BY DEF TypeOK, DiskType, ChatLog
  <1>2. CASE "unpaired" \in marks[s]
    BY <1>2 DEF InLog
  <1>3. ASSUME NEW i \in 1..Len(chatLog.lines), chatLog.lines[i] = Assistant(s)
        PROVE  InLog(s)'
    <2>1. PICK m : chatLog'.lines \in {chatLog.lines, Append(chatLog.lines, m)}
      BY LoggedLines
    <2>2. i \in 1..Len(chatLog'.lines) /\ chatLog'.lines[i] = Assistant(s)
      BY <1>1, <1>3, <2>1
    <2> QED
      BY <2>2 DEF InLog, Assistant
  <1> QED
    BY <1>2, <1>3 DEF InLog

\* The sessions of a step forget no mark.
LEMMA EndsMarks ==
    ASSUME NEW done, NEW errs, NEW canc, NEW begun, NEW drop, NEW unread,
           Ends(done, errs, canc, begun, drop, unread), NEW s \in Sids
    PROVE  "unpaired" \in marks[s] => "unpaired" \in marks'[s]
  BY DEF Ends

\* No step of the core takes the reply of an ended session off the log, but a
\* reset.
LEMMA NextInLog ==
    ASSUME IInv, [Next]_vars, NEW s \in Sids, Ended(s), InLog(s)
    PROVE  InLog(s)'
  <1>1. TypeOK
    BY DEF IInv
  <1>2. s \in Given /\ marks \in [Sids -> SUBSET Mark]
    BY DEF IInv, FreshIds, Ended, Given, TypeOK, HistoryType
  <1>4. ASSUME NEW t \in Sids, Submit(t) PROVE InLog(s)'
    <2>1. s # t
      BY <1>2, <1>4 DEF Submit, Given
    <2>2. marks'[s] = marks[s] /\ \E w : chatLog' = Logged(chatLog, User(t), w)
      BY <1>2, <1>4, <2>1 DEF Submit
    <2> QED
      BY <1>1, <2>2, GrownLog
  <1>5. ASSUME NEW t \in Sids, TaskStep(t) PROVE InLog(s)'
    <2>1. "unpaired" \in marks[s] => "unpaired" \in marks'[s]
      BY <1>5, EndsMarks DEF TaskStep, Begin, Reply, Raise, Cancelled, CancelledUnstarted,
                             history
    <2>2. UNCHANGED chatLog \/ \E w : chatLog' = Logged(chatLog, Assistant(t), w)
      BY <1>5 DEF TaskStep, Begin, Reply, Raise, Cancelled, CancelledUnstarted, disk
    <2> QED
      BY <1>1, <2>1, <2>2, GrownLog
  <1>6. CASE Shell
    <2>1. CASE ResetChat \/ ResetAll
      BY <1>2, <2>1 DEF ResetChat, ResetAll, Wipe, InLog
    <2>2. CASE Stop \/ EmergencyStop \/ RestartStops \/ RestartStarts
      BY <2>2 DEF Stop, EmergencyStop, RestartStops, RestartStarts, disk, history, InLog
    <2> QED
      BY <1>6, <2>1, <2>2 DEF Shell
  <1>7. CASE Failure
    <2>1. CASE Crash
      BY <2>1 DEF Crash, disk, history, InLog
    <2>2. ASSUME NEW t \in Sids, CrashInSubmit(t) PROVE InLog(s)'
      <3>1. marks' = marks /\ \E w : chatLog' = Logged(chatLog, User(t), w)
        BY <2>2 DEF CrashInSubmit
      <3> QED
        BY <1>1, <3>1, GrownLog
    <2>3. ASSUME NEW t \in Sids, CrashInReply(t) PROVE InLog(s)'
      <3>1. "unpaired" \in marks[s] => "unpaired" \in marks'[s]
        BY <1>2, <2>3 DEF CrashInReply
      <3>2. \E w : chatLog' = Logged(chatLog, Assistant(t), w)
        BY <2>3 DEF CrashInReply
      <3> QED
        BY <1>1, <3>1, <3>2, GrownLog
    <2>4. CASE CrashInReset
      BY <1>2, <2>4 DEF CrashInReset, Wipe, InLog
    <2> QED
      BY <1>7, <2>1, <2>2, <2>3, <2>4 DEF Failure
  <1>8. CASE Start
    <2>1. UNCHANGED chatLog /\ ("unpaired" \in marks[s] => "unpaired" \in marks'[s])
      BY <1>8, EndsMarks DEF Start
    <2> QED
      BY <1>1, <2>1, GrownLog
  <1>9. CASE UNCHANGED vars
    BY <1>9 DEF vars, InLog
  <1> QED
    BY <1>4, <1>5, <1>6, <1>7, <1>8, <1>9 DEF Next

----------------------------------------------------------------------------
\* A reply that is on a stream, or was shown, is in the log, unless reset or
\* broken at a separator.
HasReply(stream) == \E i \in 1..Len(stream) : stream[i] = "content"
StreamedInLog ==
    \A s \in Sids : HasReply(chunks[s]) /\ Loads(Assistant(s)) => InLog(s)
ShownInLog ==
    \A t \in Tabs : HasReply(shown[t]) /\ Loads(Assistant(Follows[t])) => InLog(Follows[t])

LogInv == StreamedInLog /\ ShownInLog

LEMMA CoreStepLogInv ==
    ASSUME IInv, UIInv, LogInv, LogFollows, ~DiskFaults, [Next]_vars,
           UNCHANGED shown
    PROVE  LogInv'
  <1>1. ASSUME NEW s \in Sids, Ended(s), InLog(s) PROVE InLog(s)'
    BY <1>1, NextInLog
  <1>2. ShownInLog'
    <2>1. ASSUME NEW t \in Tabs, HasReply(shown[t]), Loads(Assistant(Follows[t]))
          PROVE  InLog(Follows[t])'
      <3>1. shown[t] # <<>>
        BY <2>1 DEF HasReply
      <3> QED
        BY <1>1, <2>1, <3>1, WebUIAssumption DEF UIInv, Told, LogInv, ShownInLog
    <2> QED
      BY <2>1, WebUIAssumption DEF ShownInLog
  <1>3. ASSUME NEW s \in Sids, HasReply(chunks[s])', Loads(Assistant(s)) PROVE InLog(s)'
    <2>0. chunks[s] \in Seq(Item) /\ TypeOK
      BY StreamType DEF IInv
    <2>1. CASE HasReply(chunks[s])
      <3>1. chunks[s] # <<>>
        BY <2>1 DEF HasReply
      <3> QED
        BY <1>1, <1>3, <2>1, <3>1 DEF UIInv, Streamed, LogInv, StreamedInLog
    <2>2. CASE ~HasReply(chunks[s])
      <3>1. ~Died
        BY <1>3 DEF Died, HasReply
      <3>2. ~Same(s)
        BY <1>3, <2>2 DEF Same, HasReply
      <3>3. ASSUME NEW c \in {"error", "cancelled"}, Grows(s, c) PROVE FALSE
        <4>1. chunks'[s] = chunks[s] \o <<c, "END">>
          BY <3>3 DEF Grows
        <4>2. PICK i \in 1..Len(chunks'[s]) : chunks'[s][i] = "content"
          BY <1>3 DEF HasReply
        <4>3. CASE i \in 1..Len(chunks[s])
          BY <2>0, <2>2, <4>1, <4>2, <4>3 DEF HasReply
        <4>4. CASE i \in {Len(chunks[s]) + 1, Len(chunks[s]) + 2}
          BY <2>0, <4>1, <4>2, <4>4
        <4>5. Len(chunks'[s]) = Len(chunks[s]) + 2 /\ Len(chunks[s]) \in Nat
          BY <2>0, <4>1
        <4> QED
          BY <4>2, <4>3, <4>4, <4>5
      <3>4. Reply(s)
        BY <3>1, <3>2, <3>3, NextStreams
      <3>5. PICK w \in WriteOutcomes : chatLog' = Logged(chatLog, Assistant(s), w)
        BY <3>4 DEF Reply
      <3>6. chatLog'.lines = Append(chatLog.lines, Assistant(s))
        BY <1>3, <3>5, LoggedAppends DEF LogFollows
      <3>7. chatLog.lines \in Seq(Message)
        BY <2>0 DEF TypeOK, DiskType, ChatLog
      <3>8. /\ Len(chatLog.lines) + 1 \in 1..Len(chatLog'.lines)
            /\ chatLog'.lines[Len(chatLog.lines) + 1] = Assistant(s)
        BY <3>6, <3>7
      <3> QED
        BY <3>8 DEF InLog, Assistant
    <2> QED
      BY <2>1, <2>2
  <1>4. StreamedInLog'
    BY <1>3 DEF StreamedInLog, HasReply
  <1> QED
    BY <1>2, <1>4 DEF LogInv

LEMMA PageStepLogInv ==
    ASSUME IInv, UIInv, LogInv,
           \/ \E t \in Tabs : Connect(t) \/ Receive(t) \/ Break(t)
           \/ \E s \in Sids : TakenByStale(s) \/ Noticed(s)
    PROVE  LogInv'
  <1>1. UNCHANGED <<chunks, marks, chatLog>>
    BY DEF Connect, Receive, Break, TakenByStale, Noticed, vars
  <1>2. StreamedInLog'
    BY <1>1 DEF LogInv, StreamedInLog, HasReply, InLog
  <1>3. \A s \in Sids : InLog(s) => InLog(s)'
    BY <1>1 DEF InLog
  <1>4. ASSUME UNCHANGED shown PROVE ShownInLog'
    BY <1>3, <1>4, WebUIAssumption DEF LogInv, ShownInLog, HasReply
  <1>5. ASSUME NEW t \in Tabs, Receive(t) PROVE ShownInLog'
    <2> DEFINE f == Follows[t]
    <2>0. /\ f \in Sids /\ shown \in [Tabs -> Seq(Item)] /\ taken[f] \in Nat
          /\ Len(chunks[f]) \in Nat
      BY StreamType, WebUIAssumption DEF UIInv, UITypeOK, IInv
    <2>1. shown' = [shown EXCEPT ![t] = Append(@, NextItem(f))] /\ Pending(f)
      BY <1>5 DEF Receive
    <2>2. taken[f] + 1 \in 1..Len(chunks[f])
      BY <2>0, <2>1 DEF Pending
    <2>3. NextItem(f) = "content" /\ Loads(Assistant(f)) => InLog(f)'
      BY <1>3, <2>0, <2>2 DEF NextItem, LogInv, StreamedInLog, HasReply
    <2>4. HasReply(shown'[t]) => HasReply(shown[t]) \/ NextItem(f) = "content"
      BY <2>0, <2>1 DEF HasReply
    <2>5. ASSUME NEW u \in Tabs, HasReply(shown'[u]), Loads(Assistant(Follows[u]))
          PROVE  InLog(Follows[u])'
      BY <1>3, <2>0, <2>1, <2>3, <2>4, <2>5, WebUIAssumption DEF LogInv, ShownInLog
    <2> QED
      BY <2>5, WebUIAssumption DEF ShownInLog, HasReply
  <1>6. UNCHANGED shown \/ \E t \in Tabs : Receive(t)
    BY DEF Connect, Break, TakenByStale, Noticed
  <1> QED
    BY <1>2, <1>4, <1>5, <1>6 DEF LogInv

LEMMA NextLogInv ==
    ASSUME IInv, UIInv, LogInv, LogFollows, ~DiskFaults, [UINext]_uiVars
    PROVE  LogInv'
  <1>1. CASE CoreStep
    <2>1. UNCHANGED shown
      BY <1>1 DEF CoreStep, page
    <2> QED
      BY <1>1, <2>1, CoreStepLogInv DEF CoreStep
  <1>2. CASE UNCHANGED uiVars
    <2>1. UNCHANGED vars
      BY <1>2 DEF uiVars
    <2>2. UNCHANGED shown
      BY <1>2 DEF uiVars, page
    <2> QED
      BY <2>1, <2>2, CoreStepLogInv
  <1> QED
    BY <1>1, <1>2, PageStepLogInv DEF UINext

\* On a working disk, a reply that any tab was shown is in the thread of this
\* process and of every later one, until the chat is reset, if a load does not
\* break it at a line separator.
THEOREM ShownIsOnPage ==
    ASSUME ~DiskFaults
    PROVE  UISpec => []ShownStaysOnPage
  <1>1. UIInit => LogInv /\ LogFollows
    BY DEF UIInit, Init, NothingRuns, EmptyLog, LogFollows, LogInv, StreamedInLog, ShownInLog,
           HasReply
  <1>2. IInv /\ LogFollows /\ [UINext]_uiVars => LogFollows'
    BY UIStepIsCoreStep, NextLogFollows DEF IInv
  <1>3. IInv /\ UIInv /\ LogInv /\ LogFollows /\ [UINext]_uiVars => LogInv'
    BY NextLogInv
  <1>4. LogFollows /\ LogInv => ShownStaysOnPage
    BY WebUIAssumption
       DEF LogFollows, Recorded, LogInv, ShownInLog, HasReply, InLog, ShownStaysOnPage
  <1>5. Spec => []IInv
    BY InductiveInvariant
  <1> QED
    BY <1>1, <1>2, <1>3, <1>4, <1>5, PageOnTopOfCore, PageInvariant, PTL DEF UISpec

----------------------------------------------------------------------------
(* What a tab is told by the first process. *)

\* The whole stream of a session that ended.
Outcomes == {<<c, "END">> : c \in {"content", "error", "cancelled"}}

\* Until a crash there is one process, which restores nothing, knows every
\* session, and puts one outcome on the stream of each.
FirstProcess ==
    spent.crashes = 0 =>
    /\ replay = <<>>
    /\ ~started => \A s \in Sids : queue[s] = NoEntry
    /\ \A s \in Sids : "accepted" \in marks[s] => Known(s)
    /\ \A s \in Sids : chunks[s] # <<>> => chunks[s] \in Outcomes /\ task[s] = "none"

\* A tab has what was taken from the stream, and closes at its end.
HasTaken(t) ==
    /\ shown[t] = SubSeq(chunks[Follows[t]], 1, taken[Follows[t]])
    /\ phase[t] = "closed" => taken[Follows[t]] = 2

FirstTabs ==
    breaks = 0 /\ spent.crashes = 0 =>
    /\ \A s \in Sids : stale[s] = 0
    /\ \A t \in Tabs : Sole(t) => HasTaken(t)

LEMMA OutcomeShape ==
    ASSUME NEW o \in Outcomes
    PROVE  /\ o \in Seq(Item) /\ Len(o) = 2 /\ o[2] = "END" /\ o[1] # "END"
  <1>1. PICK c \in {"content", "error", "cancelled"} : o = <<c, "END">>
    BY DEF Outcomes
  <1>2. c \in Item /\ "END" \in Item /\ c # "END"
    BY DEF Item
  <1> QED
    BY <1>1, <1>2

\* The crashes are counted, and never forgotten.
LEMMA NextCrashes ==
    ASSUME IInv, [Next]_vars
    PROVE  /\ spent.crashes \in Nat
           /\ IF Failure THEN spent'.crashes = spent.crashes + 1
                         ELSE spent'.crashes = spent.crashes
  <1>1. spent \in Spent
    BY DEF IInv, TypeOK, HistoryType
  <1>2. CASE Failure
    <2>1. CountCrash
      BY <1>2 DEF Failure, Crash, CrashInSubmit, CrashInReply, CrashInReset
    <2> QED
      BY <1>1, <1>2, <2>1 DEF CountCrash, Spent
  <1>3. CASE Shell /\ ~Failure
    <2>1. CountStop \/ CountReset \/ UNCHANGED spent
          \/ spent' = [spent EXCEPT !.emergencies = @ + 1]
      BY <1>3 DEF Shell, Stop, EmergencyStop, RestartStops, RestartStarts, ResetChat, ResetAll
    <2> QED
      BY <1>1, <1>3, <2>1 DEF CountStop, CountReset, Spent
  <1>4. CASE ~Shell /\ ~Failure
    <2>1. UNCHANGED spent
      BY <1>4 DEF Next, Submit, TaskStep, Begin, Reply, Raise, Cancelled, CancelledUnstarted,
         Start, vars
    <2> QED
      BY <1>1, <1>4, <2>1 DEF Spent
  <1> QED
    BY <1>2, <1>3, <1>4

\* With nothing restored, the end of a session ends that one alone.
LEMMA EndsAlone ==
    ASSUME NEW s, replay = <<>>, NEW k \in Burns(After(s))
    PROVE  ~Restored(s) /\ Burnt(After(s), k) = {} /\ Resumed(After(s), k) = {}
  BY DEF Restored, After, Burns, Burnt, Resumed

\* A session ends with an outcome on an empty stream, and begins with nothing
\* on it.
LEMMA EndsFirst ==
    ASSUME TypeOK, FirstProcess, spent.crashes = 0,
           NEW done, NEW errs, NEW canc, NEW begun, NEW drop, NEW unread,
           Ends(done, errs, canc, begun, drop, unread),
           \A s \in Sids : s \in done \cup errs \cup canc \cup begun => chunks[s] = <<>>
    PROVE  /\ \A s \in Sids : "accepted" \in marks'[s] => Known(s)'
           /\ \A s \in Sids : chunks'[s] # <<>> => chunks'[s] \in Outcomes /\ task'[s] = "none"
           /\ \A s \in Sids : queue[s] = NoEntry => queue'[s] = NoEntry
  <1>1. ASSUME NEW s \in Sids, "accepted" \in marks'[s] PROVE Known(s)'
    <2>1. "accepted" \in marks[s]
      BY <1>1 DEF Ends
    <2>2. status[s] # "none"
      BY <2>1 DEF FirstProcess, Known
    <2> QED
      BY <2>2 DEF Ends, Known
  <1>2. ASSUME NEW s \in Sids, chunks'[s] # <<>>
        PROVE  chunks'[s] \in Outcomes /\ task'[s] = "none"
    <2>1. CASE s \in done \cup errs \cup canc
      <3>1. PICK c \in {"content", "error", "cancelled"} : chunks'[s] = <<>> \o <<c, "END">>
        BY <2>1, EndsStreams DEF Grows
      <3>2. chunks'[s] = <<c, "END">>
        BY <3>1
      <3>3. task'[s] = "none"
        BY <2>1, EndsTask
      <3> QED
        BY <3>2, <3>3 DEF Outcomes
    <2>2. CASE s \notin done \cup errs \cup canc
      <3>1. chunks'[s] = chunks[s]
        BY <2>2, EndsStreams DEF Same
      <3>2. chunks[s] \in Outcomes /\ task[s] = "none" /\ s \notin begun
        BY <1>2, <3>1 DEF FirstProcess
      <3>3. task'[s] = "none"
        BY <2>2, <3>2, EndsTask
      <3> QED
        BY <3>1, <3>2, <3>3
    <2> QED
      BY <2>1, <2>2
  <1>3. \A s \in Sids : queue[s] = NoEntry => queue'[s] = NoEntry
    BY DEF Ends
  <1> QED
    BY <1>1, <1>2, <1>3

LEMMA NextFirst ==
    ASSUME IInv, IInv', Streamed, FirstProcess, [Next]_vars
    PROVE  FirstProcess'
  <1> TypeOK
    BY DEF IInv
  <1> SUFFICES ASSUME spent'.crashes = 0
               PROVE  /\ replay' = <<>>
                      /\ ~started' => \A s \in Sids : queue'[s] = NoEntry
                      /\ \A s \in Sids : "accepted" \in marks'[s] => Known(s)'
                      /\ \A s \in Sids : chunks'[s] # <<>>
                                         => chunks'[s] \in Outcomes /\ task'[s] = "none"
    BY DEF FirstProcess
  <1>1. /\ spent.crashes = 0 /\ replay = <<>>
        /\ ~started => \A s \in Sids : queue[s] = NoEntry
        /\ \A s \in Sids : "accepted" \in marks[s] => Known(s)
        /\ \A s \in Sids : chunks[s] # <<>> => chunks[s] \in Outcomes /\ task[s] = "none"
    <2>1. spent.crashes = 0
      BY NextCrashes
    <2> QED
      BY <2>1 DEF FirstProcess
  <1>2. ASSUME NEW s \in Sids, Submit(s)
        PROVE  /\ replay' = <<>> /\ started'
               /\ \A t \in Sids : "accepted" \in marks'[t] => Known(t)'
               /\ \A t \in Sids : chunks'[t] # <<>> => chunks'[t] \in Outcomes /\ task'[t] = "none"
    <2>1. replay' = <<>> /\ started' /\ UNCHANGED chunks /\ status'[s] = "pending"
      BY <1>1, <1>2 DEF Submit, TypeOK, ProcessType
    <2>2. chunks[s] = <<>>
      BY <1>2 DEF Submit, IInv, FreshIds, Streamed, Ended
    <2>3. \A t \in Sids : t # s => /\ marks'[t] = marks[t] /\ status'[t] = status[t]
                                   /\ task'[t] = task[t]
      BY <1>2 DEF Submit, TypeOK, ProcessType, HistoryType
    <2> QED
      BY <1>1, <2>1, <2>2, <2>3 DEF Known
  <1>3. ASSUME NEW s \in Sids, TaskStep(s)
        PROVE  /\ replay' = <<>> /\ started' = started
               /\ \A t \in Sids : "accepted" \in marks'[t] => Known(t)'
               /\ \A t \in Sids : chunks'[t] # <<>> => chunks'[t] \in Outcomes /\ task'[t] = "none"
    <2>1. started' = started
      BY <1>3 DEF TaskStep, Begin, Reply, Raise, Cancelled, CancelledUnstarted
    <2>2. replay' = <<>>
      BY <1>1, <1>3, EndsAlone DEF TaskStep, Begin, Reply, Raise, Cancelled, CancelledUnstarted
    <2>3. task[s] # "none"
      BY <1>3 DEF TaskStep, Begin, Reply, Raise, Cancelled, CancelledUnstarted
    <2>4. chunks[s] = <<>>
      BY <1>1, <2>3
    <2>5. CASE CancelledUnstarted(s)
      BY <1>1, <2>1, <2>2, <2>4, <2>5 DEF CancelledUnstarted, history, Known, TypeOK, ProcessType
    <2>6. CASE ~CancelledUnstarted(s)
      <3>1. \E done, errs, canc, begun \in SUBSET {s} :
               \E drop : Ends(done, errs, canc, begun, drop, {})
        <4>1. CASE Begin(s)
          <5>1. CASE Ends({}, {}, {}, {s}, {}, {})
            BY <5>1
          <5>2. CASE \E drop \in Deletable({s}) : Ends({}, {s}, {}, {}, drop, {})
            BY <5>2
          <5> QED
            BY <4>1, <5>1, <5>2 DEF Begin
        <4>2. CASE Reply(s)
          <5>1. PICK k \in Burns(After(s)) :
                   \E drop \in Deletable({s} \cup Burnt(After(s), k)) :
                      Ends({s}, Burnt(After(s), k), {}, Resumed(After(s), k), drop, {})
            BY <4>2 DEF Reply
          <5>2. Burnt(After(s), k) = {} /\ Resumed(After(s), k) = {}
            BY <1>1, EndsAlone
          <5>3. PICK drop : Ends({s}, {}, {}, {}, drop, {})
            BY <5>1, <5>2
          <5> QED
            BY <5>3
        <4>3. CASE Raise(s)
          <5>1. PICK k \in Burns(After(s)) :
                   \E drop \in Deletable({s} \cup Burnt(After(s), k)) :
                      Ends({}, {s} \cup Burnt(After(s), k), {}, Resumed(After(s), k), drop, {})
            BY <4>3 DEF Raise
          <5>2. Burnt(After(s), k) = {} /\ Resumed(After(s), k) = {}
            BY <1>1, EndsAlone
          <5>3. {s} \cup {} = {s}
            OBVIOUS
          <5>4. PICK drop : Ends({}, {s}, {}, {}, drop, {})
            BY <5>1, <5>2, <5>3
          <5> QED
            BY <5>4
        <4>4. CASE Cancelled(s)
          <5>1. PICK drop : Ends({}, {}, {s}, {}, drop, {})
            BY <4>4 DEF Cancelled
          <5> QED
            BY <5>1
        <4> QED
          BY <1>3, <2>6, <4>1, <4>2, <4>3, <4>4 DEF TaskStep
      <3>2. PICK done, errs, canc, begun \in SUBSET {s} :
               \E drop : Ends(done, errs, canc, begun, drop, {})
        BY <3>1
      <3>3. \A t \in Sids : t \in done \cup errs \cup canc \cup begun => chunks[t] = <<>>
        BY <2>4, <3>2
      <3>4. /\ \A t \in Sids : "accepted" \in marks'[t] => Known(t)'
            /\ \A t \in Sids : chunks'[t] # <<>> => chunks'[t] \in Outcomes /\ task'[t] = "none"
        BY <1>1, <3>2, <3>3, EndsFirst
      <3> QED
        BY <2>1, <2>2, <3>4
    <2> QED
      BY <2>5, <2>6
  <1>4. ASSUME NEW s \in Sids, TaskStep(s) PROVE started
    BY <1>4 DEF TaskStep, Begin, Reply, Raise, Cancelled, CancelledUnstarted, IInv, DeadRunsNothing
  <1>5. CASE Shell
    <2>1. UNCHANGED <<started, status, task, replay, chunks>> /\ started
      BY <1>5 DEF Shell, Stop, EmergencyStop, RestartStops, RestartStarts, ResetChat, ResetAll,
         sessions
    <2>2. \A s \in Sids : "accepted" \in marks'[s] => "accepted" \in marks[s]
      BY <1>5 DEF Shell, Stop, EmergencyStop, RestartStops, RestartStarts, ResetChat, ResetAll,
         Wipe, history
    <2> QED
      BY <1>1, <2>1, <2>2 DEF Known
  <1>6. ~Failure
    BY NextCrashes
  <1>7. CASE Start
    <2>1. PICK unread \in Unreadable :
             \E order \in InOrder(Whole \ unread) :
             \E k \in 0..Len(order) :
                /\ \E drop \in Deletable(unread \cup RestoreDrops(Burnt(order, k))) :
                      Ends({}, Burnt(order, k), {}, Resumed(order, k), drop, unread)
                /\ replay' = Left(order, k)
      BY <1>7 DEF Start
    <2>2. Whole \ unread = {}
      BY <1>1, <1>7 DEF Start, Whole, NoEntry
    <2>3. PICK order \in InOrder(Whole \ unread) :
             \E k \in 0..Len(order) :
                /\ \E drop \in Deletable(unread \cup RestoreDrops(Burnt(order, k))) :
                      Ends({}, Burnt(order, k), {}, Resumed(order, k), drop, unread)
                /\ replay' = Left(order, k)
      BY <2>1
    <2>4. order = <<>>
      <3>1. order \in Seq({})
        BY <2>2, <2>3, FS_EmptySet, InOrderIsList
      <3> QED
        BY <3>1
    <2>5. PICK k \in 0..0 :
                /\ \E drop \in Deletable(unread \cup RestoreDrops(Burnt(order, k))) :
                      Ends({}, Burnt(order, k), {}, Resumed(order, k), drop, unread)
                /\ replay' = Left(order, k)
      BY <2>3, <2>4
    <2>6. Burnt(order, k) = {} /\ Resumed(order, k) = {} /\ Left(order, k) = <<>>
      BY <2>4, <2>5 DEF Burnt, Resumed, Left
    <2>7. PICK drop : Ends({}, {}, {}, {}, drop, unread)
      BY <2>5, <2>6
    <2>8. /\ \A t \in Sids : "accepted" \in marks'[t] => Known(t)'
          /\ \A t \in Sids : chunks'[t] # <<>> => chunks'[t] \in Outcomes /\ task'[t] = "none"
      BY <1>1, <2>7, EndsFirst
    <2> QED
      BY <1>7, <2>5, <2>6, <2>8 DEF Start
  <1>8. CASE UNCHANGED vars
    BY <1>1, <1>8 DEF vars, Known
  <1> QED
    BY <1>2, <1>3, <1>4, <1>5, <1>6, <1>7, <1>8 DEF Next

\* Beginnings of streams.
LEMMA StreamPrefix ==
    ASSUME NEW c \in Seq(Item), NEW n \in 0..Len(c)
    PROVE  /\ \A e \in Seq(Item) : SubSeq(c \o e, 1, n) = SubSeq(c, 1, n)
           /\ n < Len(c) => Append(SubSeq(c, 1, n), c[n + 1]) = SubSeq(c, 1, n + 1)
           /\ SubSeq(c, 1, Len(c)) = c
  OBVIOUS

LEMMA CoreStepFirstTabs ==
    ASSUME IInv, UIInv, FirstTabs, CoreStep
    PROVE  FirstTabs'
  <1> SUFFICES ASSUME breaks' = 0, spent'.crashes = 0
               PROVE  /\ \A s \in Sids : stale'[s] = 0
                      /\ \A t \in Tabs : Sole(t) => HasTaken(t)'
    BY DEF FirstTabs, Sole
  <1>1. [Next]_vars /\ ~Failure /\ spent.crashes = 0
    BY NextCrashes DEF CoreStep
  <1>2. ~(started /\ ~started')
    BY <1>1 DEF Next, Submit, TaskStep, Begin, Reply, Raise, Cancelled, CancelledUnstarted,
       Shell, Stop, EmergencyStop, RestartStops, RestartStarts, ResetChat, ResetAll, Start, vars
  <1>3. UNCHANGED <<phase, shown, taken, stale, breaks>>
    BY <1>2 DEF CoreStep, page
  <1>4. \A s \in Sids : stale[s] = 0
    BY <1>1, <1>3 DEF FirstTabs
  <1>5. ASSUME NEW t \in Tabs, Sole(t) PROVE HasTaken(t)'
    <2> DEFINE s == Follows[t]
    <2>1. s \in Sids /\ TypeOK
      BY WebUIAssumption DEF IInv
    <2>2. chunks[s] \in Seq(Item) /\ taken[s] \in 0..Len(chunks[s])
      BY <2>1, StreamType DEF UIInv, UITypeOK
    <2>3. HasTaken(t)
      BY <1>1, <1>3, <1>5 DEF FirstTabs
    <2>4. SubSeq(chunks'[s], 1, taken[s]) = SubSeq(chunks[s], 1, taken[s])
      <3>1. CASE Same(s)
        BY <3>1 DEF Same
      <3>2. ASSUME NEW c \in Item, Grows(s, c)
            PROVE  SubSeq(chunks'[s], 1, taken[s]) = SubSeq(chunks[s], 1, taken[s])
        <4>1. <<c, "END">> \in Seq(Item)
          BY <3>2 DEF Item
        <4> QED
          BY <2>2, <3>2, <4>1, StreamPrefix DEF Grows
      <3>3. ~Died
        BY <1>2 DEF Died
      <3> QED
        BY <1>1, <2>1, <3>1, <3>2, <3>3, NextStreams DEF Item
    <2> QED
      BY <1>3, <2>3, <2>4 DEF HasTaken
  <1> QED
    BY <1>3, <1>4, <1>5

LEMMA TabStepFirstTabs ==
    ASSUME IInv, UIInv, FirstProcess, FirstTabs, NEW t \in Tabs,
           Connect(t) \/ Receive(t) \/ Break(t)
    PROVE  FirstTabs'
  <1> DEFINE f == Follows[t]
  <1> SUFFICES ASSUME breaks' = 0, spent'.crashes = 0
               PROVE  /\ \A s \in Sids : stale'[s] = 0
                      /\ \A u \in Tabs : Sole(u) => HasTaken(u)'
    BY DEF FirstTabs, Sole
  <1>1. UNCHANGED <<chunks, spent>>
    BY DEF Connect, Receive, Break, vars
  <1>2. ~Break(t)
    BY DEF Break, UIInv, UITypeOK
  <1>3. UNCHANGED <<stale, breaks>>
    BY <1>2 DEF Connect, Receive
  <1>4. /\ \A s \in Sids : stale[s] = 0
        /\ \A u \in Tabs : Sole(u) => HasTaken(u)
        /\ \A s \in Sids : "accepted" \in marks[s] => Known(s)
        /\ \A s \in Sids : chunks[s] # <<>> => chunks[s] \in Outcomes
    BY <1>1, <1>3 DEF FirstTabs, FirstProcess
  <1>5. /\ f \in Sids /\ TypeOK /\ UITypeOK
        /\ \A u \in Tabs : Follows[u] \in Sids
    BY WebUIAssumption DEF IInv, UIInv
  <1>6. CASE Connect(t)
    <2>1. phase' = [phase EXCEPT ![t] = "open"] /\ UNCHANGED <<shown, taken>>
      BY <1>4, <1>5, <1>6 DEF Connect
    <2>2. \A u \in Tabs : phase'[u] = "closed" => phase[u] = "closed"
      BY <1>5, <2>1 DEF UITypeOK
    <2> QED
      BY <1>1, <1>3, <1>4, <2>1, <2>2 DEF HasTaken
  <1>7. CASE Receive(t)
    <2>1. /\ Pending(f) /\ taken' = [taken EXCEPT ![f] = @ + 1]
          /\ shown' = [shown EXCEPT ![t] = Append(@, NextItem(f))]
          /\ phase' = [phase EXCEPT ![t] = IF CloseOn(NextItem(f)) THEN "closed" ELSE @]
          /\ phase[t] = "open"
      BY <1>7 DEF Receive
    <2>2. ASSUME NEW u \in Tabs, Sole(u), u # t PROVE HasTaken(u)'
      <3>1. Follows[u] # f
        BY <2>2 DEF Sole
      <3>2. taken'[Follows[u]] = taken[Follows[u]] /\ shown'[u] = shown[u] /\ phase'[u] = phase[u]
        BY <1>5, <2>1, <2>2, <3>1 DEF UITypeOK
      <3>3. HasTaken(u)
        BY <1>4, <2>2
      <3> QED
        BY <1>1, <3>2, <3>3 DEF HasTaken
    <2>3. ASSUME Sole(t) PROVE HasTaken(t)'
      <3>1. chunks[f] \in Seq(Item) /\ taken[f] \in 0..Len(chunks[f]) /\ taken[f] < Len(chunks[f])
        BY <1>5, <2>1, StreamType DEF UITypeOK, Pending
      <3>2. shown[t] = SubSeq(chunks[f], 1, taken[f])
        BY <1>4, <2>3 DEF HasTaken
      <3>3. shown'[t] = Append(SubSeq(chunks[f], 1, taken[f]), chunks[f][taken[f] + 1])
            /\ taken'[f] = taken[f] + 1
        BY <1>5, <2>1, <3>2 DEF UITypeOK, NextItem
      <3>4. shown'[t] = SubSeq(chunks[f], 1, taken'[f])
        BY <3>1, <3>3, StreamPrefix
      <3>5. ASSUME phase'[t] = "closed" PROVE taken'[f] = 2
        <4>1. chunks[f][taken[f] + 1] = "END"
          BY <1>5, <2>1, <3>5 DEF UITypeOK, CloseOn, NextItem
        <4>2. chunks[f] \in Outcomes
          BY <1>4, <1>5, <3>1
        <4>3. Len(chunks[f]) = 2 /\ chunks[f][1] # "END"
          BY <4>2, OutcomeShape
        <4>4. taken[f] + 1 # 1
          BY <4>1, <4>3
        <4> QED
          BY <3>1, <3>3, <4>3, <4>4
      <3> QED
        BY <1>1, <3>4, <3>5 DEF HasTaken
    <2> QED
      BY <1>3, <1>4, <2>2, <2>3
  <1> QED
    BY <1>2, <1>6, <1>7

LEMMA NextFirstTabs ==
    ASSUME IInv, UIInv, FirstProcess, FirstTabs, [UINext]_uiVars
    PROVE  FirstTabs'
  <1>1. CASE UNCHANGED uiVars
    <2>1. UNCHANGED <<chunks, spent, phase, shown, taken, stale, breaks>>
      BY <1>1 DEF uiVars, vars, page
    <2> QED
      BY <2>1 DEF FirstTabs, HasTaken, Sole
  <1>2. ASSUME NEW s \in Sids, TakenByStale(s) \/ Noticed(s) PROVE FirstTabs'
    <2>1. UNCHANGED <<spent, breaks>> /\ stale[s] > 0
      BY <1>2 DEF TakenByStale, Noticed, vars
    <2>2. stale[s] # 0
      BY <2>1 DEF UIInv, UITypeOK
    <2> QED
      BY <2>1, <2>2 DEF FirstTabs
  <1> QED
    BY <1>1, <1>2, CoreStepFirstTabs, TabStepFirstTabs DEF UINext

\* The first process, and the invariant of its tabs.
LEMMA FirstInvariant == UISpec => [](FirstProcess /\ FirstTabs)
  <1>1. UIInit => FirstProcess /\ FirstTabs
    <2> SUFFICES ASSUME UIInit PROVE FirstProcess /\ FirstTabs
      OBVIOUS
    <2>1. /\ replay = <<>> /\ \A s \in Sids : queue[s] = NoEntry /\ marks[s] = {} /\ chunks[s] = <<>>
          /\ \A s \in Sids : stale[s] = 0 /\ taken[s] = 0
          /\ \A t \in Tabs : phase[t] = "idle" /\ shown[t] = <<>>
      BY DEF UIInit, Init, NothingRuns
    <2>2. SubSeq(<<>>, 1, 0) = <<>>
      OBVIOUS
    <2> QED
      BY <2>1, <2>2, WebUIAssumption DEF FirstProcess, FirstTabs, HasTaken
  <1>2. IInv /\ IInv' /\ UIInv /\ FirstProcess /\ FirstTabs /\ [UINext]_uiVars
        => FirstProcess' /\ FirstTabs'
    BY UIStepIsCoreStep, NextFirst, NextFirstTabs DEF UIInv
  <1>3. Spec => []IInv
    BY InductiveInvariant
  <1> QED
    BY <1>1, <1>2, <1>3, PageOnTopOfCore, PageInvariant, PTL DEF UISpec

\* For any tabs and sessions: until a connection breaks or the process dies, a
\* tab that alone follows its session has what its generator took, in order
\* and once, and is told "done" with the whole outcome only.
THEOREM ToldOnceAndWhole == UISpec => []ToldTheOutcome
  <1>1. ASSUME IInv, UIInv, FirstProcess, FirstTabs PROVE ToldTheOutcome
    <2> SUFFICES ASSUME breaks = 0, spent.crashes = 0, NEW t \in Tabs, Sole(t)
                 PROVE  LET s == Follows[t] IN
                        /\ shown[t] = SubSeq(chunks[s], 1, taken[s])
                        /\ phase[t] = "closed" => shown[t] = chunks[s] /\ Len(chunks[s]) = 2
      BY DEF ToldTheOutcome
    <2> DEFINE s == Follows[t]
    <2>1. HasTaken(t)
      BY <1>1 DEF FirstTabs
    <2>2. s \in Sids
      BY WebUIAssumption
    <2>3. chunks[s] \in Seq(Item) /\ taken[s] <= Len(chunks[s])
      BY <1>1, <2>2, StreamType DEF IInv, UIInv, UITypeOK
    <2>4. ASSUME phase[t] = "closed" PROVE shown[t] = chunks[s] /\ Len(chunks[s]) = 2
      <3>1. taken[s] = 2 /\ chunks[s] # <<>>
        BY <2>1, <2>3, <2>4 DEF HasTaken
      <3>2. Len(chunks[s]) = 2
        BY <1>1, <2>2, <3>1, OutcomeShape DEF FirstProcess
      <3> QED
        BY <2>1, <2>3, <3>1, <3>2, StreamPrefix DEF HasTaken
    <2> QED
      BY <2>1, <2>4 DEF HasTaken
  <1>2. IInv /\ UIInv /\ FirstProcess /\ FirstTabs => ToldTheOutcome
    BY <1>1
  <1>3. Spec => []IInv
    BY InductiveInvariant
  <1> QED
    BY <1>2, <1>3, PageOnTopOfCore, PageInvariant, FirstInvariant, PTL
============================================================================
