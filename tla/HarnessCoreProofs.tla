------------------------- MODULE HarnessCoreProofs -------------------------
(***************************************************************************)
(* Proofs about HarnessCore, for any set of prompts, any number of         *)
(* crashes, resets and stops, and with or without failing disk operations. *)
(***************************************************************************)
EXTENDS HarnessCore, TLAPS, FiniteSetTheorems

(***************************************************************************)
(* The inductive invariant: the type invariant, and for every session what *)
(* each place that remembers a prompt knows of its submission.             *)
(***************************************************************************)

\* An id that was never given to a prompt has left no trace.
FreshIds ==
    \A s \in Sids : snap[s].created = 0
                    => marks[s] = {} /\ queue[s] = NoEntry

\* Whole queue entries hold the snapshot of the submission.
EntriesAreSnapshots ==
    \A s \in Sids : queue[s].file = "good"
                    => queue[s].prior = snap[s].prior /\ queue[s].created = snap[s].created

\* So do the running sessions and those that wait in the replay.
KnownTo(s) == snap[s].created > 0 /\ hist[s] = snap[s].prior
TasksAreSnapshots == \A s \in Sids : task[s] # "none" => KnownTo(s)
ReplayIsSnapshots == \A i \in 1..Len(replay) : KnownTo(replay[i])

\* A process that is not up runs no session.
DeadRunsNothing == ~started => \A s \in Sids : task[s] = "none"

IInv == /\ TypeOK /\ DeadRunsNothing
        /\ FreshIds /\ EntriesAreSnapshots
        /\ TasksAreSnapshots /\ ReplayIsSnapshots
        /\ NoPromptLost

----------------------------------------------------------------------------
(* Lemmas about the operators of the model. *)

\* Removing queue files touches none but those asked for.
LEMMA DeletableSubset ==
    ASSUME NEW S, NEW drop \in Deletable(S)
    PROVE  drop \subseteq S
  BY DEF Deletable

\* An append to the log yields a log.
LEMMA LoggedType ==
    ASSUME NEW log \in ChatLog, NEW m \in Message, NEW w \in WriteOutcomes
    PROVE  Logged(log, m, w) \in ChatLog
  <1>1. Append(log.lines, m) \in Seq(Message)
    BY DEF ChatLog
  <1>2. w \in {"ok", "lost", "torn", "cut"}
    BY DEF WriteOutcomes
  <1> QED
    BY <1>1, <1>2 DEF Logged, ChatLog

\* The turns of a session are messages.
LEMMA TurnTypes ==
    ASSUME NEW s \in Sids
    PROVE  User(s) \in Message /\ Assistant(s) \in Message
  BY DEF User, Assistant, Message

\* A replay list cut after its k-th session: what is burnt, resumed and left
\* are sessions of the list.
LEMMA ReplayCut ==
    ASSUME NEW rest \in Seq(Sids), NEW k \in 0..Len(rest)
    PROVE  /\ Burnt(rest, k) \subseteq Sids
           /\ \A s \in Burnt(rest, k) \cup Resumed(rest, k) :
                 s \in Sids /\ \E i \in 1..Len(rest) : s = rest[i]
           /\ Left(rest, k) \in Seq(Sids)
           /\ \A i \in 1..Len(Left(rest, k)) :
                 \E j \in 1..Len(rest) : Left(rest, k)[i] = rest[j]
  <1>1. /\ Left(rest, k) \in Seq(Sids)
        /\ Len(Left(rest, k)) = Len(rest) - k
        /\ \A i \in 1..(Len(rest) - k) : Left(rest, k)[i] = rest[k + i]
    BY DEF Left
  <1>2. \A i \in 1..Len(Left(rest, k)) : Left(rest, k)[i] = rest[k + i] /\ k + i \in 1..Len(rest)
    BY <1>1
  <1>3. Burnt(rest, k) \subseteq Sids
    BY DEF Burnt
  <1>4. \A s \in Burnt(rest, k) \cup Resumed(rest, k) :
                 s \in Sids /\ \E i \in 1..Len(rest) : s = rest[i]
    BY DEF Burnt, Resumed
  <1> QED
    BY <1>1, <1>2, <1>3, <1>4

\* One step of the sessions keeps the types of what it assigns.
LEMMA EndsType ==
    ASSUME TypeOK,
           NEW done \in SUBSET Sids, NEW errs \in SUBSET Sids,
           NEW canc \in SUBSET Sids, NEW begun \in SUBSET Sids,
           NEW drop, NEW unread, Ends(done, errs, canc, begun, drop, unread)
    PROVE  /\ queue' \in [Sids -> Entry]
           /\ status' \in [Sids -> {"none", "pending", "running", "done", "failed"}]
           /\ task' \in [Sids -> {"none", "created", "handling"}]
           /\ chunks' \in [Sids -> Seq({"content", "error", "cancelled", "END"})]
           /\ cancelReq' \subseteq Sids
           /\ marks' \in [Sids -> SUBSET Mark]
  <1>1. queue' \in [Sids -> Entry]
    BY DEF Ends, TypeOK, DiskType, ProcessType, HistoryType, NoEntry, Entry
  <1>2. status' \in [Sids -> {"none", "pending", "running", "done", "failed"}]
    BY DEF Ends, TypeOK, DiskType, ProcessType, HistoryType
  <1>3. task' \in [Sids -> {"none", "created", "handling"}]
    BY DEF Ends, TypeOK, DiskType, ProcessType, HistoryType
  <1>4. chunks' \in [Sids -> Seq({"content", "error", "cancelled", "END"})]
    <2> DEFINE Chunk == {"content", "error", "cancelled", "END"}
    <2>1. \A q \in Seq(Chunk), c \in Chunk : q \o <<c, "END">> \in Seq(Chunk)
      OBVIOUS
    <2> QED
      BY <2>1 DEF Ends, Outcome, TypeOK, DiskType, ProcessType, HistoryType
  <1>5. cancelReq' \subseteq Sids
    BY DEF Ends, TypeOK, DiskType, ProcessType, HistoryType
  <1>6. marks' \in [Sids -> SUBSET Mark]
    BY DEF Ends, TypeOK, DiskType, ProcessType, HistoryType, Mark
  <1> QED
    BY <1>1, <1>2, <1>3, <1>4, <1>5, <1>6

\* ... and what the places that remember a prompt know of it, when the queue
\* files removed are of sessions that end, unreadable or malformed.
LEMMA EndsKeepsSnapshots ==
    ASSUME TypeOK, FreshIds, EntriesAreSnapshots, NoPromptLost,
           NEW done, NEW errs, NEW canc, NEW begun, NEW drop, NEW unread,
           Ends(done, errs, canc, begun, drop, unread),
           UNCHANGED snap,
           \A s \in Sids : s \in done \cup errs \cup canc => snap[s].created > 0,
           \A s \in Sids : s \in drop => \/ s \in done \cup errs \cup canc \cup unread
                                         \/ queue[s].file = "malformed",
           \A s \in unread : queue[s].file = "good",
           \A s \in Sids : task[s] # "none" \/ s \in begun => KnownTo(s)'
    PROVE  FreshIds' /\ EntriesAreSnapshots' /\ TasksAreSnapshots' /\ NoPromptLost'
  <1>1. FreshIds'
    <2> SUFFICES ASSUME NEW s \in Sids, snap'[s].created = 0
                 PROVE  marks'[s] = {} /\ queue'[s] = NoEntry
      BY DEF FreshIds
    <2>1. /\ s \notin done \cup errs \cup canc
          /\ marks[s] = {} /\ queue[s] = NoEntry
      BY DEF FreshIds
    <2>2. s \notin unread
      BY <2>1 DEF NoEntry
    <2>3. marks'[s] = marks[s]
      BY <2>1, <2>2 DEF Ends
    <2>4. queue'[s] = NoEntry
      BY <2>1 DEF Ends
    <2> QED
      BY <2>1, <2>3, <2>4
  <1>2. EntriesAreSnapshots'
    BY DEF Ends, TypeOK, DiskType, ProcessType, HistoryType, EntriesAreSnapshots, NoEntry, Entry
  <1>3. TasksAreSnapshots'
    BY DEF Ends, TypeOK, DiskType, ProcessType, HistoryType, TasksAreSnapshots
  <1>4. NoPromptLost'
    <2> SUFFICES ASSUME NEW s \in Sids, "accepted" \in marks'[s],
                        marks'[s] \cap {"finished", "wiped", "unsaved", "unread"} = {}
                 PROVE  queue'[s] = [file |-> "good", prior |-> snap[s].prior,
                                     created |-> snap[s].created]
      BY DEF NoPromptLost
    <2>1. /\ s \notin done \cup errs \cup canc /\ marks'[s] = marks[s]
          /\ s \notin drop \cap unread
      BY DEF Ends, TypeOK, DiskType, ProcessType, HistoryType
    <2>2. queue[s] = [file |-> "good", prior |-> snap[s].prior, created |-> snap[s].created]
      BY <2>1 DEF NoPromptLost
    <2>3. s \notin drop
      BY <2>1, <2>2
    <2> QED
      BY <2>2, <2>3 DEF Ends
  <1> QED
    BY <1>1, <1>2, <1>3, <1>4

\* What follows a session in its task is a list of sessions of the replay.
LEMMA AfterKnown ==
    ASSUME TypeOK, ReplayIsSnapshots, NEW s
    PROVE  /\ After(s) \in Seq(Sids)
           /\ \A i \in 1..Len(After(s)) : KnownTo(After(s)[i])
  <1>1. replay \in Seq(Sids)
    BY DEF TypeOK, ProcessType
  <1>2. CASE Restored(s)
    <2>1. /\ After(s) \in Seq(Sids)
          /\ \A i \in 1..Len(After(s)) : After(s)[i] = replay[i + 1] /\ i + 1 \in 1..Len(replay)
      BY <1>1, <1>2 DEF After, Restored
    <2> QED
      BY <2>1 DEF ReplayIsSnapshots
  <1>3. CASE ~Restored(s)
    BY <1>3 DEF After
  <1> QED
    BY <1>2, <1>3

\* The end of session s, with the restored sessions that follow it in its task.
LEMMA ContinueKeeps ==
    ASSUME IInv, NEW s \in Sids, task[s] # "none",
           NEW k \in Burns(After(s)),
           NEW done, NEW errs, done \cup errs = {s} \cup Burnt(After(s), k),
           NEW drop \in Deletable({s} \cup Burnt(After(s), k)),
           Ends(done, errs, {}, Resumed(After(s), k), drop, {}),
           replay' = IF Restored(s) THEN Left(After(s), k) ELSE replay,
           UNCHANGED <<snap, hist>>
    PROVE  /\ queue' \in [Sids -> Entry]
           /\ status' \in [Sids -> {"none", "pending", "running", "done", "failed"}]
           /\ task' \in [Sids -> {"none", "created", "handling"}]
           /\ chunks' \in [Sids -> Seq({"content", "error", "cancelled", "END"})]
           /\ cancelReq' \subseteq Sids /\ replay' \in Seq(Sids)
           /\ marks' \in [Sids -> SUBSET Mark]
           /\ FreshIds' /\ EntriesAreSnapshots' /\ TasksAreSnapshots'
           /\ ReplayIsSnapshots' /\ NoPromptLost'
  <1> DEFINE rest == After(s)
  <1> USE DEF IInv
  <1>1. rest \in Seq(Sids) /\ \A i \in 1..Len(rest) : KnownTo(rest[i])
    BY AfterKnown
  <1>2. k \in 0..Len(rest)
    BY <1>1 DEF Burns
  <1>3. /\ Burnt(rest, k) \subseteq Sids
        /\ \A t \in Burnt(rest, k) \cup Resumed(rest, k) :
              t \in Sids /\ \E i \in 1..Len(rest) : t = rest[i]
        /\ Left(rest, k) \in Seq(Sids)
        /\ \A i \in 1..Len(Left(rest, k)) :
              \E j \in 1..Len(rest) : Left(rest, k)[i] = rest[j]
    BY <1>1, <1>2, ReplayCut
  <1>4. \A t \in Burnt(rest, k) \cup Resumed(rest, k) : KnownTo(t)
    BY <1>1, <1>3
  <1>5. KnownTo(s)
    BY DEF TasksAreSnapshots
  <1>6. \A t : KnownTo(t)' = KnownTo(t)
    BY DEF KnownTo
  <1>7. done \in SUBSET Sids /\ errs \in SUBSET Sids /\ Resumed(rest, k) \in SUBSET Sids
    BY <1>3
  <1>8. /\ queue' \in [Sids -> Entry]
        /\ status' \in [Sids -> {"none", "pending", "running", "done", "failed"}]
        /\ task' \in [Sids -> {"none", "created", "handling"}]
        /\ chunks' \in [Sids -> Seq({"content", "error", "cancelled", "END"})]
        /\ cancelReq' \subseteq Sids
        /\ marks' \in [Sids -> SUBSET Mark]
    BY <1>7, EndsType
  <1>9. replay' \in Seq(Sids) /\ ReplayIsSnapshots'
    <2>1. CASE Restored(s)
      BY <2>1, <1>1, <1>3, <1>6 DEF ReplayIsSnapshots
    <2>2. CASE ~Restored(s)
      BY <2>2, <1>6 DEF ReplayIsSnapshots, TypeOK, ProcessType
    <2> QED
      BY <2>1, <2>2
  <1>10. drop \subseteq {s} \cup Burnt(rest, k)
    BY DeletableSubset
  <1>11. \A t \in Sids : t \in drop => t \in done \cup errs \cup {} \cup {}
                                        \/ queue[t].file = "malformed"
    BY <1>10
  <1>12. /\ \A t \in Sids : t \in done \cup errs \cup {} => snap[t].created > 0
         /\ \A t \in Sids : task[t] # "none" \/ t \in Resumed(rest, k) => KnownTo(t)'
    BY <1>4, <1>5, <1>6 DEF KnownTo, TasksAreSnapshots
  <1>13. FreshIds' /\ EntriesAreSnapshots' /\ TasksAreSnapshots' /\ NoPromptLost'
    BY <1>12, <1>11, EndsKeepsSnapshots
  <1> QED
    BY <1>8, <1>9, <1>13

----------------------------------------------------------------------------
(* The inductive invariant holds initially and is kept by every action. *)

LEMMA InitIInv == Init => IInv
  <1> SUFFICES ASSUME Init PROVE IInv
    OBVIOUS
  <1>1. chatLog \in ChatLog /\ queue \in [Sids -> Entry]
    BY DEF Init, ChatLog, EmptyLog, Entry, NoEntry
  <1>2. TypeOK
    <2>1. ProcessType
      <3>1. <<>> \in Seq(Message) /\ <<>> \in Seq(Sids)
            /\ <<>> \in Seq({"content", "error", "cancelled", "END"})
        OBVIOUS
      <3> QED
        BY <3>1 DEF Init, NothingRuns, ProcessType
    <2>2. HistoryType
      <3>1. [created |-> 0, prior |-> <<>>] \in [created : Nat, prior : Seq(Message)]
        OBVIOUS
      <3> QED
        BY <3>1 DEF Init, HistoryType, Spent
    <2> QED
      BY <1>1, <2>1, <2>2 DEF TypeOK, DiskType
  <1>3. FreshIds /\ EntriesAreSnapshots /\ NoPromptLost
    BY DEF Init, FreshIds, EntriesAreSnapshots, NoPromptLost, NoEntry
  <1>4. TasksAreSnapshots /\ ReplayIsSnapshots
    BY DEF Init, NothingRuns, TasksAreSnapshots, ReplayIsSnapshots
  <1>5. DeadRunsNothing
    BY DEF Init, NothingRuns, DeadRunsNothing
  <1> QED
    BY <1>2, <1>3, <1>4, <1>5 DEF IInv

LEMMA SubmitIInv ==
    ASSUME IInv, NEW s \in Sids, Submit(s)
    PROVE  IInv'
  <1> USE DEF IInv
  <1> PICK w \in WriteOutcomes, e \in EntryOutcomes :
             /\ chat' = Append(chat, User(s))
             /\ chatLog' = Logged(chatLog, User(s), w)
             /\ queue' = [queue EXCEPT ![s] =
                             IF e = "good"
                             THEN [file |-> "good", prior |-> chat, created |-> clock + 1]
                             ELSE [file |-> e, prior |-> <<>>, created |-> 0]]
             /\ marks' = [marks EXCEPT ![s] =
                             {"accepted"}
                             \cup (IF e = "good" THEN {} ELSE {"unsaved"})
                             \cup (IF w = "ok" /\ ~chatLog.torn /\ Loads(User(s))
                                   THEN {} ELSE {"unpaired"})]
    BY DEF Submit, PriorHistory
  <1>1. e \in {"good", "absent", "malformed"}
    BY DEF EntryOutcomes
  <1>2. TypeOK'
    <2>1. chatLog' \in ChatLog /\ chat' \in Seq(Message)
      BY LoggedType, TurnTypes DEF TypeOK, DiskType, ProcessType, HistoryType
    <2>2. queue' \in [Sids -> Entry]
      <3>1. /\ [file |-> "good", prior |-> chat, created |-> clock + 1] \in Entry
            /\ [file |-> e, prior |-> <<>>, created |-> 0] \in Entry
        BY <1>1 DEF TypeOK, DiskType, ProcessType, HistoryType, Entry
      <3> QED
        BY <3>1 DEF TypeOK, DiskType, ProcessType, HistoryType
    <2>3. marks' \in [Sids -> SUBSET Mark]
      BY DEF TypeOK, DiskType, ProcessType, HistoryType, Mark
    <2>4. ProcessType'
      BY <2>1 DEF TypeOK, ProcessType, Submit, PriorHistory
    <2>5. HistoryType'
      <3>1. snap' \in [Sids -> [created : Nat, prior : Seq(Message)]] /\ clock' \in Nat
        BY DEF TypeOK, ProcessType, HistoryType, Submit, PriorHistory
      <3>2. spent' = spent
        BY DEF Submit
      <3> QED
        BY <2>3, <3>1, <3>2 DEF TypeOK, HistoryType
    <2> QED
      BY <2>1, <2>2, <2>4, <2>5 DEF TypeOK, DiskType
  <1>3. clock + 1 > 0
    BY DEF TypeOK, DiskType, ProcessType, HistoryType
  <1>4. FreshIds' /\ EntriesAreSnapshots'
    <2>1. snap' = [snap EXCEPT ![s] = [created |-> clock + 1, prior |-> chat]]
      BY DEF Submit, PriorHistory
    <2>2. FreshIds'
      BY <1>3, <2>1 DEF FreshIds, TypeOK, DiskType, ProcessType, HistoryType
    <2>3. EntriesAreSnapshots'
      BY <1>1, <2>1 DEF EntriesAreSnapshots, TypeOK, DiskType, ProcessType, HistoryType
    <2> QED
      BY <2>2, <2>3
  <1>5. \A t \in Sids : t # s => KnownTo(t)' = KnownTo(t)
    BY DEF KnownTo, Submit, TypeOK, DiskType, ProcessType, HistoryType
  <1>6. KnownTo(s)'
    BY <1>3 DEF KnownTo, Submit, TypeOK, DiskType, ProcessType, HistoryType, PriorHistory
  <1>7. TasksAreSnapshots' /\ ReplayIsSnapshots'
    <2>1. TasksAreSnapshots'
      BY <1>5, <1>6 DEF TasksAreSnapshots, Submit, TypeOK, ProcessType
    <2>2. \A i \in 1..Len(replay) : replay[i] \in Sids
      BY DEF TypeOK, ProcessType
    <2>3. replay' = replay
      BY DEF Submit
    <2> QED
      BY <1>5, <1>6, <2>1, <2>2, <2>3 DEF ReplayIsSnapshots
  <1>8. NoPromptLost'
    BY <1>1 DEF NoPromptLost, Submit, TypeOK, DiskType, ProcessType, HistoryType, PriorHistory
  <1>9. DeadRunsNothing'
    BY DEF DeadRunsNothing, Submit
  <1> QED
    BY <1>2, <1>4, <1>7, <1>8, <1>9

LEMMA BeginIInv ==
    ASSUME IInv, NEW s \in Sids, Begin(s)
    PROVE  IInv'
  <1> USE DEF IInv
  <1>1. PICK errs \in SUBSET {s}, begun \in SUBSET {s}, drop \in SUBSET {s} :
            drop \subseteq errs /\ Ends({}, errs, {}, begun, drop, {})
    BY DeletableSubset DEF Begin
  <1>2. /\ queue' \in [Sids -> Entry]
        /\ status' \in [Sids -> {"none", "pending", "running", "done", "failed"}]
        /\ task' \in [Sids -> {"none", "created", "handling"}]
        /\ chunks' \in [Sids -> Seq({"content", "error", "cancelled", "END"})]
        /\ cancelReq' \subseteq Sids
        /\ marks' \in [Sids -> SUBSET Mark]
    BY <1>1, EndsType
  <1>3. TypeOK'
    BY <1>2 DEF TypeOK, DiskType, ProcessType, HistoryType, Begin
  <1>4. KnownTo(s) /\ \A t : KnownTo(t)' = KnownTo(t)
    BY DEF TasksAreSnapshots, KnownTo, Begin
  <1>5. /\ \A t \in Sids : t \in {} \cup errs \cup {} => snap[t].created > 0
        /\ \A t \in Sids : t \in drop => \/ t \in {} \cup errs \cup {}
                                         \/ queue[t].file = "malformed"
        /\ \A t \in Sids : task[t] # "none" \/ t \in begun => KnownTo(t)'
    <2>1. snap[s].created > 0
      BY <1>4 DEF KnownTo
    <2>2. \A t \in Sids : task[t] # "none" \/ t \in begun => KnownTo(t)
      BY <1>4 DEF TasksAreSnapshots
    <2> QED
      BY <1>1, <1>4, <2>1, <2>2
  <1>6. UNCHANGED <<snap, replay>>
    BY DEF Begin
  <1>7. FreshIds' /\ EntriesAreSnapshots' /\ TasksAreSnapshots' /\ NoPromptLost'
    BY <1>1, <1>5, <1>6, EndsKeepsSnapshots
  <1>8. ReplayIsSnapshots'
    BY <1>4, <1>6 DEF ReplayIsSnapshots
  <1>9. DeadRunsNothing'
    BY DEF DeadRunsNothing, Begin
  <1> QED
    BY <1>3, <1>7, <1>8, <1>9

LEMMA ReplyIInv ==
    ASSUME IInv, NEW s \in Sids, Reply(s)
    PROVE  IInv'
  <1>1. PICK k \in Burns(After(s)) :
         \E drop \in Deletable({s} \cup Burnt(After(s), k)) :
            /\ Ends({s}, Burnt(After(s), k), {}, Resumed(After(s), k), drop, {})
            /\ replay' = IF Restored(s) THEN Left(After(s), k) ELSE replay
    BY DEF Reply
  <1>2. task[s] # "none" /\ UNCHANGED <<snap, hist>>
    BY DEF Reply
  <1>3. /\ queue' \in [Sids -> Entry]
        /\ status' \in [Sids -> {"none", "pending", "running", "done", "failed"}]
        /\ task' \in [Sids -> {"none", "created", "handling"}]
        /\ chunks' \in [Sids -> Seq({"content", "error", "cancelled", "END"})]
        /\ cancelReq' \subseteq Sids /\ replay' \in Seq(Sids)
        /\ marks' \in [Sids -> SUBSET Mark]
        /\ FreshIds' /\ EntriesAreSnapshots' /\ TasksAreSnapshots'
        /\ ReplayIsSnapshots' /\ NoPromptLost'
    BY <1>1, <1>2, ContinueKeeps
  <1>4. chatLog' \in ChatLog /\ chat' \in Seq(Message)
    BY LoggedType, TurnTypes DEF Reply, IInv, TypeOK, DiskType, ProcessType
  <1>5. TypeOK'
    BY <1>3, <1>4 DEF IInv, TypeOK, DiskType, ProcessType, HistoryType, Reply
  <1>6. DeadRunsNothing'
    BY DEF IInv, DeadRunsNothing, Reply
  <1> QED
    BY <1>3, <1>5, <1>6 DEF IInv

LEMMA RaiseIInv ==
    ASSUME IInv, NEW s \in Sids, Raise(s)
    PROVE  IInv'
  <1>1. PICK k \in Burns(After(s)) :
         \E drop \in Deletable({s} \cup Burnt(After(s), k)) :
            /\ Ends({}, {s} \cup Burnt(After(s), k), {}, Resumed(After(s), k), drop, {})
            /\ replay' = IF Restored(s) THEN Left(After(s), k) ELSE replay
    BY DEF Raise
  <1>2. task[s] # "none" /\ UNCHANGED <<snap, hist>>
    BY DEF Raise
  <1>3. /\ queue' \in [Sids -> Entry]
        /\ status' \in [Sids -> {"none", "pending", "running", "done", "failed"}]
        /\ task' \in [Sids -> {"none", "created", "handling"}]
        /\ chunks' \in [Sids -> Seq({"content", "error", "cancelled", "END"})]
        /\ cancelReq' \subseteq Sids /\ replay' \in Seq(Sids)
        /\ marks' \in [Sids -> SUBSET Mark]
        /\ FreshIds' /\ EntriesAreSnapshots' /\ TasksAreSnapshots'
        /\ ReplayIsSnapshots' /\ NoPromptLost'
    BY <1>1, <1>2, ContinueKeeps
  <1>4. TypeOK'
    BY <1>3 DEF IInv, TypeOK, DiskType, ProcessType, HistoryType, Raise
  <1>6. DeadRunsNothing'
    BY DEF IInv, DeadRunsNothing, Raise
  <1> QED
    BY <1>3, <1>4, <1>6 DEF IInv

LEMMA CancelledIInv ==
    ASSUME IInv, NEW s \in Sids, Cancelled(s)
    PROVE  IInv'
  <1> USE DEF IInv
  <1>1. PICK drop \in SUBSET {s} : Ends({}, {}, {s}, {}, drop, {})
    BY DeletableSubset DEF Cancelled
  <1>2. /\ queue' \in [Sids -> Entry]
        /\ status' \in [Sids -> {"none", "pending", "running", "done", "failed"}]
        /\ task' \in [Sids -> {"none", "created", "handling"}]
        /\ chunks' \in [Sids -> Seq({"content", "error", "cancelled", "END"})]
        /\ cancelReq' \subseteq Sids
        /\ marks' \in [Sids -> SUBSET Mark]
    BY <1>1, EndsType
  <1>3. TypeOK'
    <2>1. replay' \in Seq(Sids)
      BY DEF Cancelled, TypeOK, ProcessType
    <2>2. ProcessType'
      BY <1>2, <2>1 DEF TypeOK, ProcessType, Cancelled
    <2>3. DiskType' /\ HistoryType'
      BY <1>2 DEF TypeOK, DiskType, HistoryType, Cancelled
    <2> QED
      BY <2>2, <2>3 DEF TypeOK
  <1>4. KnownTo(s) /\ \A t : KnownTo(t)' = KnownTo(t)
    BY DEF TasksAreSnapshots, KnownTo, Cancelled
  <1>5. /\ \A t \in Sids : t \in {} \cup {} \cup {s} => snap[t].created > 0
        /\ \A t \in Sids : t \in drop => \/ t \in {} \cup {} \cup {s}
                                         \/ queue[t].file = "malformed"
        /\ \A t \in Sids : task[t] # "none" \/ t \in {} => KnownTo(t)'
    <2>1. snap[s].created > 0
      BY <1>4 DEF KnownTo
    <2>2. \A t \in Sids : task[t] # "none" \/ t \in {} => KnownTo(t)
      BY DEF TasksAreSnapshots
    <2> QED
      BY <1>1, <1>4, <2>1, <2>2
  <1>6. UNCHANGED snap /\ (replay' = <<>> \/ replay' = replay)
    BY DEF Cancelled
  <1>7. FreshIds' /\ EntriesAreSnapshots' /\ TasksAreSnapshots' /\ NoPromptLost'
    BY <1>1, <1>5, <1>6, EndsKeepsSnapshots
  <1>8. ReplayIsSnapshots'
    BY <1>4, <1>6 DEF ReplayIsSnapshots
  <1>9. DeadRunsNothing'
    BY DEF DeadRunsNothing, Cancelled
  <1> QED
    BY <1>3, <1>7, <1>8, <1>9

LEMMA CancelledUnstartedIInv ==
    ASSUME IInv, NEW s \in Sids, CancelledUnstarted(s)
    PROVE  IInv'
  <1> USE DEF IInv, CancelledUnstarted, disk, history
  <1>1. TypeOK'
    BY DEF TypeOK, DiskType, ProcessType, HistoryType
  <1>2. \A t : KnownTo(t)' = KnownTo(t)
    BY DEF KnownTo
  <1>3. TasksAreSnapshots'
    BY <1>2 DEF TasksAreSnapshots, TypeOK, ProcessType
  <1>4. ReplayIsSnapshots'
    BY <1>2 DEF ReplayIsSnapshots
  <1>5. FreshIds' /\ EntriesAreSnapshots' /\ NoPromptLost'
    BY DEF FreshIds, EntriesAreSnapshots, NoPromptLost
  <1>6. DeadRunsNothing'
    BY DEF DeadRunsNothing
  <1> QED
    BY <1>1, <1>3, <1>4, <1>5, <1>6

\* The counters of the bounds stay counters.
LEMMA SpentGrows ==
    ASSUME NEW r \in Spent
    PROVE  /\ [r EXCEPT !.crashes = @ + 1] \in Spent
           /\ [r EXCEPT !.resets = @ + 1] \in Spent
           /\ [r EXCEPT !.stops = @ + 1] \in Spent
           /\ [r EXCEPT !.emergencies = @ + 1] \in Spent
  <1>1. [r EXCEPT !.crashes = @ + 1] \in Spent
    BY DEF Spent
  <1>2. [r EXCEPT !.resets = @ + 1] \in Spent
    BY DEF Spent
  <1>3. [r EXCEPT !.stops = @ + 1] \in Spent
    BY DEF Spent
  <1>4. [r EXCEPT !.emergencies = @ + 1] \in Spent
    BY DEF Spent
  <1> QED
    BY <1>1, <1>2, <1>3, <1>4

\* stop, emergency stop and restart touch neither the disk nor the sessions,
\* but for the requests to cancel.
LEMMA StopsIInv ==
    ASSUME IInv, Stop \/ EmergencyStop \/ RestartStops \/ RestartStarts
    PROVE  IInv'
  <1> USE DEF IInv
  <1>1. /\ UNCHANGED <<chatLog, queue, started, chat, status, task, hist, replay, chunks,
                       snap, clock, marks>>
        /\ running' \in {FALSE, running} /\ shell' \in {shell, "idle", "restarting"}
        /\ cancelReq' \in {cancelReq, {t \in Sids : task[t] # "none"}}
    BY DEF Stop, EmergencyStop, RestartStops, RestartStarts, disk, history, sessions
  <1>2. spent' \in Spent
    <2>1. spent' \in {spent, [spent EXCEPT !.stops = @ + 1], [spent EXCEPT !.emergencies = @ + 1]}
      BY DEF Stop, EmergencyStop, RestartStops, RestartStarts, CountStop
    <2> QED
      BY <2>1, SpentGrows DEF TypeOK, HistoryType
  <1>3. TypeOK'
    BY <1>1, <1>2 DEF TypeOK, DiskType, ProcessType, HistoryType
  <1>4. \A t : KnownTo(t)' = KnownTo(t)
    BY <1>1 DEF KnownTo
  <1>5. TasksAreSnapshots' /\ ReplayIsSnapshots'
    BY <1>1, <1>4 DEF TasksAreSnapshots, ReplayIsSnapshots
  <1>6. FreshIds' /\ EntriesAreSnapshots' /\ NoPromptLost'
    BY <1>1 DEF FreshIds, EntriesAreSnapshots, NoPromptLost
  <1>7. DeadRunsNothing'
    BY <1>1 DEF DeadRunsNothing
  <1> QED
    BY <1>3, <1>5, <1>6, <1>7

\* What every wipe keeps: an id it marks was given to a prompt.
LEMMA WipeKeeps ==
    ASSUME IInv, NEW gone \in SUBSET OnDisk, Wipe(gone), UNCHANGED snap
    PROVE  /\ queue' \in [Sids -> Entry]
           /\ marks' \in [Sids -> SUBSET Mark]
           /\ FreshIds' /\ EntriesAreSnapshots' /\ NoPromptLost'
  <1> USE DEF IInv
  <1>1. queue' \in [Sids -> Entry]
    BY DEF Wipe, TypeOK, DiskType, Entry, NoEntry
  <1>2. marks' \in [Sids -> SUBSET Mark]
    BY DEF Wipe, TypeOK, HistoryType, Mark
  <1>3. FreshIds'
    BY DEF FreshIds, Wipe, OnDisk, Given, NoEntry, TypeOK, HistoryType
  <1>4. EntriesAreSnapshots'
    BY DEF EntriesAreSnapshots, Wipe, NoEntry
  <1>5. NoPromptLost'
    BY DEF NoPromptLost, Wipe, NoEntry, OnDisk, TypeOK, HistoryType
  <1> QED
    BY <1>1, <1>2, <1>3, <1>4, <1>5

LEMMA ResetsIInv ==
    ASSUME IInv, ResetChat \/ ResetAll
    PROVE  IInv'
  <1> USE DEF IInv
  <1>1. PICK gone \in SUBSET OnDisk : Wipe(gone)
    BY DeletableSubset DEF ResetChat, ResetAll
  <1>2. /\ UNCHANGED <<started, running, status, task, hist, cancelReq, replay, chunks,
                       shell, snap, clock>>
        /\ chat' = <<>> /\ chatLog' \in {EmptyLog, chatLog}
        /\ spent' = [spent EXCEPT !.resets = @ + 1]
    BY DEF ResetChat, ResetAll, CountReset, sessions
  <1>3. /\ queue' \in [Sids -> Entry]
        /\ marks' \in [Sids -> SUBSET Mark]
        /\ FreshIds' /\ EntriesAreSnapshots' /\ NoPromptLost'
    BY <1>1, <1>2, WipeKeeps
  <1>4. TypeOK'
    <2>1. DiskType'
      <3>1. EmptyLog \in ChatLog
        BY DEF EmptyLog, ChatLog
      <3> QED
        BY <1>2, <1>3, <3>1 DEF TypeOK, DiskType
    <2>2. ProcessType'
      BY <1>2 DEF TypeOK, ProcessType
    <2>3. spent' \in Spent
      BY <1>2, SpentGrows DEF TypeOK, HistoryType
    <2>4. HistoryType'
      BY <1>2, <1>3, <2>3 DEF TypeOK, HistoryType
    <2> QED
      BY <2>1, <2>2, <2>4 DEF TypeOK
  <1>5. \A t : KnownTo(t)' = KnownTo(t)
    BY <1>2 DEF KnownTo
  <1>6. TasksAreSnapshots' /\ ReplayIsSnapshots'
    BY <1>2, <1>5 DEF TasksAreSnapshots, ReplayIsSnapshots
  <1>7. DeadRunsNothing'
    BY <1>2 DEF DeadRunsNothing
  <1> QED
    BY <1>3, <1>4, <1>6, <1>7

\* A dead process has sound types and remembers nothing.
LEMMA DiesType ==
    ASSUME Dies
    PROVE  ProcessType' /\ DeadRunsNothing' /\ TasksAreSnapshots' /\ ReplayIsSnapshots'
  <1>1. <<>> \in Seq(Message) /\ <<>> \in Seq(Sids)
        /\ <<>> \in Seq({"content", "error", "cancelled", "END"})
    OBVIOUS
  <1>2. ProcessType'
    BY <1>1 DEF Dies, ProcessType
  <1>3. TasksAreSnapshots' /\ ReplayIsSnapshots'
    BY DEF Dies, TasksAreSnapshots, ReplayIsSnapshots
  <1>4. DeadRunsNothing'
    BY DEF Dies, DeadRunsNothing
  <1> QED
    BY <1>2, <1>3, <1>4

LEMMA CrashCounted ==
    ASSUME TypeOK, CountCrash
    PROVE  spent' \in Spent
  BY SpentGrows DEF TypeOK, HistoryType, CountCrash

LEMMA CrashIInv ==
    ASSUME IInv, Crash
    PROVE  IInv'
  <1> USE DEF IInv, Crash, disk, history
  <1>1. ProcessType' /\ DeadRunsNothing' /\ TasksAreSnapshots' /\ ReplayIsSnapshots'
    BY DiesType
  <1>2. DiskType' /\ HistoryType'
    BY CrashCounted DEF TypeOK, DiskType, HistoryType
  <1>3. FreshIds' /\ EntriesAreSnapshots' /\ NoPromptLost'
    BY DEF FreshIds, EntriesAreSnapshots, NoPromptLost
  <1> QED
    BY <1>1, <1>2, <1>3 DEF TypeOK

LEMMA CrashInSubmitIInv ==
    ASSUME IInv, NEW s \in Sids, CrashInSubmit(s)
    PROVE  IInv'
  <1> USE DEF IInv
  <1>1. ProcessType' /\ DeadRunsNothing' /\ TasksAreSnapshots' /\ ReplayIsSnapshots'
    BY DiesType DEF CrashInSubmit
  <1>2. chatLog' \in ChatLog
    BY LoggedType, TurnTypes DEF CrashInSubmit, TypeOK, DiskType
  <1>3. PICK e \in {"absent", "malformed"} : queue' = [queue EXCEPT ![s].file = e]
    BY DEF CrashInSubmit
  <1>4. queue[s] = NoEntry /\ marks[s] = {}
    BY DEF FreshIds, CrashInSubmit
  <1>5. /\ snap' = [snap EXCEPT ![s] = [created |-> clock + 1, prior |-> chat]]
        /\ clock' = clock + 1 /\ UNCHANGED marks
    BY DEF CrashInSubmit, PriorHistory
  <1>6. DiskType'
    BY <1>2, <1>3 DEF TypeOK, DiskType, Entry
  <1>7. HistoryType'
    <2>1. [created |-> clock + 1, prior |-> chat] \in [created : Nat, prior : Seq(Message)]
      BY DEF TypeOK, HistoryType, ProcessType
    <2>2. spent' \in Spent
      BY CrashCounted DEF CrashInSubmit
    <2> QED
      BY <1>5, <2>1, <2>2 DEF TypeOK, HistoryType
  <1>8. FreshIds' /\ EntriesAreSnapshots'
    <2>1. clock + 1 > 0
      BY DEF TypeOK, HistoryType
    <2> QED
      BY <1>3, <1>5, <2>1 DEF FreshIds, EntriesAreSnapshots, TypeOK, DiskType, HistoryType, Entry
  <1>9. NoPromptLost'
    BY <1>3, <1>4, <1>5 DEF NoPromptLost, TypeOK, DiskType, HistoryType
  <1> QED
    BY <1>1, <1>6, <1>7, <1>8, <1>9 DEF TypeOK

LEMMA CrashInReplyIInv ==
    ASSUME IInv, NEW s \in Sids, CrashInReply(s)
    PROVE  IInv'
  <1> USE DEF IInv, CrashInReply
  <1>1. ProcessType' /\ DeadRunsNothing' /\ TasksAreSnapshots' /\ ReplayIsSnapshots'
    BY DiesType
  <1>2. chatLog' \in ChatLog
    BY LoggedType, TurnTypes DEF TypeOK, DiskType
  <1>3. snap[s].created > 0
    BY DEF TasksAreSnapshots, KnownTo
  <1>4. marks' \in [Sids -> SUBSET Mark]
    BY DEF TypeOK, HistoryType, Mark
  <1>5. DiskType' /\ HistoryType'
    BY <1>2, <1>4, CrashCounted DEF TypeOK, DiskType, HistoryType
  <1>6. FreshIds' /\ EntriesAreSnapshots'
    BY <1>3 DEF FreshIds, EntriesAreSnapshots, TypeOK, HistoryType
  <1>7. NoPromptLost'
    BY DEF NoPromptLost, TypeOK, HistoryType
  <1> QED
    BY <1>1, <1>5, <1>6, <1>7 DEF TypeOK

LEMMA CrashInResetIInv ==
    ASSUME IInv, CrashInReset
    PROVE  IInv'
  <1> USE DEF IInv, CrashInReset
  <1>1. ProcessType' /\ DeadRunsNothing' /\ TasksAreSnapshots' /\ ReplayIsSnapshots'
    BY DiesType
  <1>2. /\ queue' \in [Sids -> Entry]
        /\ marks' \in [Sids -> SUBSET Mark]
        /\ FreshIds' /\ EntriesAreSnapshots' /\ NoPromptLost'
    BY WipeKeeps
  <1>3. DiskType' /\ HistoryType'
    BY <1>2, CrashCounted DEF TypeOK, DiskType, HistoryType, ChatLog, EmptyLog
  <1> QED
    BY <1>1, <1>2, <1>3 DEF TypeOK

\* The orders of a finite set are lists of its members.
LEMMA InOrderIsList ==
    ASSUME NEW S, IsFiniteSet(S), NEW f \in InOrder(S)
    PROVE  f \in Seq(S)
  <1>1. Cardinality(S) \in Nat
    BY FS_CardinalityType
  <1>2. f \in [1..Cardinality(S) -> S]
    BY DEF InOrder
  <1> QED
    BY <1>1, <1>2

LEMMA StartIInv ==
    ASSUME IInv, Start
    PROVE  IInv'
  <1> DEFINE good == Whole
  <1> USE DEF IInv
  <1>1. PICK unread \in Unreadable :
         \E order \in InOrder(good \ unread) :
         \E k \in 0..Len(order) :
            /\ \E drop \in Deletable(unread \cup RestoreDrops(Burnt(order, k))) :
                  Ends({}, Burnt(order, k), {}, Resumed(order, k), drop, unread)
            /\ replay' = Left(order, k)
    BY DEF Start
  <1>2. PICK order \in InOrder(good \ unread) :
         \E k \in 0..Len(order) :
            /\ \E drop \in Deletable(unread \cup RestoreDrops(Burnt(order, k))) :
                  Ends({}, Burnt(order, k), {}, Resumed(order, k), drop, unread)
            /\ replay' = Left(order, k)
    BY <1>1
  <1>3. PICK k \in 0..Len(order) :
            /\ \E drop \in Deletable(unread \cup RestoreDrops(Burnt(order, k))) :
                  Ends({}, Burnt(order, k), {}, Resumed(order, k), drop, unread)
            /\ replay' = Left(order, k)
    BY <1>2
  <1>4. PICK drop \in Deletable(unread \cup RestoreDrops(Burnt(order, k))) :
            Ends({}, Burnt(order, k), {}, Resumed(order, k), drop, unread)
    BY <1>3
  <1>5. order \in Seq(good \ unread)
    <2>1. good \ unread \subseteq Sids
      BY DEF Whole
    <2>2. IsFiniteSet(good \ unread)
      BY <2>1, CoreAssumption, FS_Subset
    <2> QED
      BY <2>2, InOrderIsList
  <1>6. order \in Seq(Sids) /\ \A i \in 1..Len(order) : order[i] \in good
    BY <1>5 DEF Whole
  <1>7. /\ Burnt(order, k) \subseteq Sids
        /\ \A t \in Burnt(order, k) \cup Resumed(order, k) :
              t \in Sids /\ \E i \in 1..Len(order) : t = order[i]
        /\ Left(order, k) \in Seq(Sids)
        /\ \A i \in 1..Len(Left(order, k)) :
              \E j \in 1..Len(order) : Left(order, k)[i] = order[j]
    BY <1>6, ReplayCut
  <1>8. /\ hist' = [s \in Sids |-> IF queue[s].file = "good" THEN queue[s].prior ELSE <<>>]
        /\ snap' = snap
    BY DEF Start, RestoredHistory
  <1>9. \A t \in good : t \in Sids /\ snap[t].created > 0 /\ KnownTo(t)'
    <2>1. \A t \in good : t \in Sids /\ queue[t].file = "good"
      BY DEF Whole
    <2>2. \A t \in good : snap[t].created # 0
      BY <2>1 DEF FreshIds, NoEntry
    <2>3. \A t \in Sids : snap[t].created \in Nat
      BY DEF TypeOK, HistoryType
    <2>4. \A t \in good : hist'[t] = snap[t].prior
      BY <1>8, <2>1 DEF EntriesAreSnapshots
    <2>5. \A t \in good : t \in Sids /\ snap[t].created > 0
      BY <2>1, <2>2, <2>3
    <2> QED
      BY <1>8, <2>4, <2>5 DEF KnownTo
  <1>10. \A s \in Sids : task[s] # "none" => KnownTo(s)'
    BY DEF Start, DeadRunsNothing
  <1>11. TypeOK'
    <2>1. Resumed(order, k) \subseteq Sids
      BY <1>7
    <2>2. /\ queue' \in [Sids -> Entry]
          /\ status' \in [Sids -> {"none", "pending", "running", "done", "failed"}]
          /\ task' \in [Sids -> {"none", "created", "handling"}]
          /\ chunks' \in [Sids -> Seq({"content", "error", "cancelled", "END"})]
          /\ cancelReq' \subseteq Sids
          /\ marks' \in [Sids -> SUBSET Mark]
      BY <1>4, <1>7, <2>1, EndsType
    <2>3. hist' \in [Sids -> Seq(Message)] /\ chat' \in Seq(Message)
      <3>1. <<>> \in Seq(Message)
        OBVIOUS
      <3>2. \A s \in Sids : queue[s].prior \in Seq(Message)
        BY DEF TypeOK, DiskType, Entry
      <3>3. chatLog.lines \in Seq(Message)
        BY DEF TypeOK, DiskType, ChatLog
      <3>4. hist' \in [Sids -> Seq(Message)]
        BY <1>8, <3>1, <3>2
      <3> QED
        BY <3>1, <3>3, <3>4 DEF Start
    <2>4. ProcessType'
      BY <1>3, <1>7, <2>2, <2>3 DEF TypeOK, ProcessType, Start
    <2>5. DiskType' /\ HistoryType'
      BY <2>2 DEF TypeOK, DiskType, HistoryType, Start
    <2> QED
      BY <2>4, <2>5 DEF TypeOK
  <1>12. FreshIds' /\ EntriesAreSnapshots' /\ TasksAreSnapshots' /\ NoPromptLost'
    <2>1. \A s \in Sids : s \in {} \cup Burnt(order, k) \cup {} => snap[s].created > 0
      BY <1>6, <1>7, <1>9
    <2>2. \A s \in Sids : task[s] # "none" \/ s \in Resumed(order, k) => KnownTo(s)'
      BY <1>6, <1>7, <1>9, <1>10
    <2>3. \A s \in unread : queue[s].file = "good"
      BY DEF Unreadable, Whole
    <2>4. drop \subseteq unread \cup RestoreDrops(Burnt(order, k))
      BY DeletableSubset
    <2>5. \A s \in Sids : s \in drop => \/ s \in {} \cup Burnt(order, k) \cup {} \cup unread
                                         \/ queue[s].file = "malformed"
      BY <2>4 DEF RestoreDrops
    <2> QED
      BY <1>4, <1>8, <2>1, <2>2, <2>3, <2>5, EndsKeepsSnapshots
  <1>13. ReplayIsSnapshots'
    BY <1>3, <1>6, <1>7, <1>9 DEF ReplayIsSnapshots
  <1>14. DeadRunsNothing'
    BY DEF DeadRunsNothing, Start
  <1> QED
    BY <1>11, <1>12, <1>13, <1>14

----------------------------------------------------------------------------
(* The theorems. *)

\* Every step keeps the inductive invariant.
LEMMA NextIInv ==
    ASSUME IInv, [Next]_vars
    PROVE  IInv'
  <1>1. CASE \E s \in Sids : Submit(s)
    BY <1>1, SubmitIInv
  <1>2. CASE \E s \in Sids : TaskStep(s)
    BY <1>2, BeginIInv, ReplyIInv, RaiseIInv, CancelledIInv, CancelledUnstartedIInv DEF TaskStep
  <1>3. CASE Shell
    BY <1>3, StopsIInv, ResetsIInv DEF Shell
  <1>4. CASE Failure
    BY <1>4, CrashIInv, CrashInSubmitIInv, CrashInReplyIInv, CrashInResetIInv DEF Failure
  <1>5. CASE Start
    BY <1>5, StartIInv
  <1>6. CASE UNCHANGED vars
    <2> USE <1>6 DEF IInv, vars
    <2>1. TypeOK'
      BY DEF TypeOK, DiskType, ProcessType, HistoryType
    <2>2. FreshIds' /\ EntriesAreSnapshots' /\ NoPromptLost'
      BY DEF FreshIds, EntriesAreSnapshots, NoPromptLost
    <2>3. TasksAreSnapshots' /\ ReplayIsSnapshots'
      BY DEF TasksAreSnapshots, ReplayIsSnapshots, KnownTo
    <2>4. DeadRunsNothing'
      BY DEF DeadRunsNothing
    <2> QED
      BY <2>1, <2>2, <2>3, <2>4
  <1> QED
    BY <1>1, <1>2, <1>3, <1>4, <1>5, <1>6 DEF Next

\* What the other theorems about the core rest on: entries, tasks and the list
\* of the replay hold what was submitted.
THEOREM InductiveInvariant == Spec => []IInv
  <1>1. Init => IInv
    BY InitIInv
  <1>2. IInv /\ [Next]_vars => IInv'
    BY NextIInv
  <1> QED
    BY <1>1, <1>2, PTL DEF Spec

\* Every variable keeps its type.
THEOREM TypeCorrect == Spec => []TypeOK
  <1>1. IInv => TypeOK
    BY DEF IInv
  <1> QED
    BY <1>1, InductiveInvariant, PTL

\* The files of state/queue lose no accepted prompt: crashes at any point of
\* submit_prompt, _run_session or reset, restarts, stops, failing writes and
\* failing removals leave the entry of every prompt whose session has not
\* ended, unless the operator wiped it or it could not be written at all.
THEOREM PromptsAreKept == Spec => []NoPromptLost
  <1>1. IInv => NoPromptLost
    BY DEF IInv
  <1> QED
    BY <1>1, InductiveInvariant, PTL

\* Every run of a prompt, in whatever process, gets the history of its
\* submission.
THEOREM ContextIsKept == Spec => []ContextIsSnapshot
  <1>1. IInv => ContextIsSnapshot
    BY DEF IInv, TasksAreSnapshots, KnownTo, ContextIsSnapshot
  <1> QED
    BY <1>1, InductiveInvariant, PTL
============================================================================
