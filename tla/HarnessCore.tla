---------------------------- MODULE HarnessCore ----------------------------
(***************************************************************************)
(* The core of the harness: CoreAPI of core.py.  One process accepts       *)
(* prompts, runs one asyncio task per prompt, keeps the chat thread in     *)
(* memory and in state/chat.jsonl, and mirrors every prompt in flight as a *)
(* file of state/queue/, from which the next process re-runs it.           *)
(*                                                                         *)
(* One action is the code a task runs between two points where it can      *)
(* suspend.  The bodies under _chat_lock, bus.publish and put() on an      *)
(* unbounded queue never suspend, so submit_prompt is one step, and the    *)
(* end of a session is one step that also starts the next restored         *)
(* session.  Only a crash or a failing file operation splits such a step.  *)
(***************************************************************************)
EXTENDS Integers, Sequences, FiniteSets

CONSTANTS
    Sids,         \* session ids; uuid4 gives each prompt a fresh one
    Separated,    \* messages whose text holds a U+0085, U+2028 or U+2029
    DiskFaults,   \* TRUE: file operations may raise OSError or write partially
    MaxCrashes,   \* bound: crashes of the process
    MaxResets,    \* bound: reset commands
    MaxStops,     \* bound: restart and stop commands
    MaxEmergencies \* bound: emergency stops

\* A prompt and its reply are told apart by their role.  Texts are left out,
\* but for the characters of Separated; all of them can be encoded.
Message == [role : {"user", "assistant"}, sid : Sids]

ASSUME CoreAssumption ==
    /\ IsFiniteSet(Sids) /\ Separated \subseteq Message
    /\ DiskFaults \in BOOLEAN
    /\ MaxCrashes \in Nat /\ MaxResets \in Nat /\ MaxStops \in Nat /\ MaxEmergencies \in Nat

VARIABLES
    \* on disk
    chatLog,      \* chat.jsonl: parsable lines, unterminated tail?, undecodable?
    queue,        \* queue/<sid>.json of every session id
    \* in the process
    started,      \* _started_at is set: the process is up
    running,      \* Agent._running
    chat,         \* _chat_history
    status,       \* Session.status, "none" for an id not in _sessions
    task,         \* progress of the coroutine _run_session of each session
    hist,         \* its argument prior_history
    cancelReq,    \* sessions whose task was cancelled and has not yet noticed
    replay,       \* _replay: sessions still to run, Head is the running one
    chunks,       \* what was put on Session.response_chunks
    shell,        \* a restart command between its stop() and its start()
    \* history of the execution, read by no guard but Submit's freshness
    snap,         \* creation time and chat snapshot of each submission
    clock,        \* number of submissions
    marks,        \* what happened to each prompt
    spent         \* crashes, resets, stops and emergency stops so far

disk == <<chatLog, queue>>
history == <<snap, clock, marks>>
sessions == <<status, task, hist, cancelReq, replay, chunks>>
vars == <<chatLog, queue, started, running, chat, status, task, hist, cancelReq,
          replay, chunks, shell, snap, clock, marks, spent>>

----------------------------------------------------------------------------
(* Data. *)

\* Mutation of User: a role the log does not know.
HumanTurn(s) == [role |-> "human", sid |-> s]

User(s) == [role |-> "user", sid |-> s]
Assistant(s) == [role |-> "assistant", sid |-> s]

\* What list(path.glob("*.json")) finds for a session: a whole entry, a
\* truncated one that json.loads refuses, or no file.
Entry == [file : {"absent", "good", "malformed"}, prior : Seq(Message), created : Nat]
NoEntry == [file |-> "absent", prior |-> <<>>, created |-> 0]

ChatLog == [lines : Seq(Message), torn : BOOLEAN, undecodable : BOOLEAN]
EmptyLog == [lines |-> <<>>, torn |-> FALSE, undecodable |-> FALSE]

Mark == {"accepted",    \* submit_prompt returned the id
         "finished",    \* its session ended in some process: done or failed
         "wiped",       \* reset all removed its queue entry
         "unsaved",     \* its queue entry could not be written
         "unread",      \* a start could not read its entry, and removed it
         "unpaired",    \* its user turn is not in the log: reset, or not written whole
         "survived"}    \* its entry outlived the reply: crash or failing unlink

\* open("a") + write: all of the line, nothing, a prefix without newline, or a
\* prefix that ends inside a multi-byte character.
WriteOutcomes == IF DiskFaults THEN {"ok", "lost", "torn", "cut"} ELSE {"ok"}
EntryOutcomes == IF DiskFaults THEN {"good", "absent", "malformed"} ELSE {"good"}

\* json.dumps(ensure_ascii=False) leaves the three separators as they are, and
\* splitlines() breaks the line at them: the load skips the pieces, of a prompt
\* and of a reply alike.
Loads(m) == m \notin Separated
AllLoad(thread) == \A i \in 1..Len(thread) : Loads(thread[i])

\* Mutation of Logged: only replies reach the file.
LoggedReplies(log, m, w) ==
    [log EXCEPT !.lines = IF m.role = "user" THEN @ ELSE Append(@, m)]

\* Mutation of Logged: only prompts reach the file.
LoggedPrompts(log, m, w) ==
    [log EXCEPT !.lines = IF m.role = "user" THEN Append(@, m) ELSE @]

\* _append_chat_log, seen by the next load: a line written after an unterminated
\* one is glued to it, and both are skipped; a cut character makes the whole
\* file undecodable.  (A prefix that lacks only the newline is left out.)
Logged(log, m, w) ==
    [lines       |-> IF w = "ok" /\ ~log.torn /\ Loads(m)
                    THEN Append(log.lines, m) ELSE log.lines,
     torn        |-> IF w = "lost" THEN log.torn ELSE w # "ok",
     undecodable |-> log.undecodable \/ w = "cut"]

\* Mutation of Deletable: the end of a session forgets its queue file.
DeletesNothing(S) == {{}}

\* _delete_queue_entry: an unlink that raises OSError keeps the file.
Deletable(S) == IF DiskFaults THEN SUBSET S ELSE {S}

----------------------------------------------------------------------------
(* The process as __init__ leaves it. *)

NothingRuns ==
    /\ started = FALSE /\ running = FALSE /\ chat = <<>>
    /\ status = [s \in Sids |-> "none"]
    /\ task = [s \in Sids |-> "none"]
    /\ hist = [s \in Sids |-> <<>>]
    /\ cancelReq = {} /\ replay = <<>>
    /\ chunks = [s \in Sids |-> <<>>]
    /\ shell = "idle"

Init ==
    /\ chatLog = EmptyLog
    /\ queue = [s \in Sids |-> NoEntry]
    /\ NothingRuns
    /\ snap = [s \in Sids |-> [created |-> 0, prior |-> <<>>]]
    /\ clock = 0
    /\ marks = [s \in Sids |-> {}]
    /\ spent = [crashes |-> 0, resets |-> 0, stops |-> 0, emergencies |-> 0]

----------------------------------------------------------------------------
(* One step of the sessions: those of `done` return a reply, `errs` fail   *)
(* with an exception, `canc` notice their cancellation, `begun` enter      *)
(* agent.handle and suspend in it; the queue files of `drop` are removed,  *)
(* those of `unread` because they could not be read.                       *)
(* Every session that ends pushes one chunk and the end-of-stream object.  *)

\* Mutation of Outcome: only a reply is followed by the end-of-stream object.
OutcomeUnmarked(chunk) == IF chunk = "content" THEN <<chunk, "END">> ELSE <<chunk>>

Outcome(chunk) == <<chunk, "END">>

Ends(done, errs, canc, begun, drop, unread) ==
    LET over == done \cup errs \cup canc IN
    /\ status' = [s \in Sids |-> IF s \in done THEN "done"
                                 ELSE IF s \in over THEN "failed"
                                 ELSE IF s \in begun THEN "running" ELSE status[s]]
    /\ task' = [s \in Sids |-> IF s \in over THEN "none"
                               ELSE IF s \in begun THEN "handling" ELSE task[s]]
    /\ chunks' = [s \in Sids |-> IF s \in done THEN chunks[s] \o Outcome("content")
                                 ELSE IF s \in errs THEN chunks[s] \o Outcome("error")
                                 ELSE IF s \in canc THEN chunks[s] \o Outcome("cancelled")
                                 ELSE chunks[s]]
    /\ queue' = [s \in Sids |-> IF s \in drop THEN NoEntry ELSE queue[s]]
    /\ cancelReq' = cancelReq \ over
    /\ marks' = [s \in Sids |-> IF s \in over
                                THEN marks[s] \cup {"finished"}
                                     \cup (IF DiskFaults /\ s \notin drop
                                           THEN {"survived"} ELSE {})
                                ELSE IF s \in drop \cap unread
                                THEN marks[s] \cup {"unread"} ELSE marks[s]]

\* _replay runs its list without suspending between two sessions: the first k
\* sessions of `rest` raise before they suspend (all of them when the agent is
\* not running), the next one suspends in the agent.
Burnt(rest, k) == {rest[i] : i \in 1..k}
Resumed(rest, k) == IF k < Len(rest) THEN {rest[k + 1]} ELSE {}
Left(rest, k) == SubSeq(rest, k + 1, Len(rest))

\* Mutation of Burns: handle does not test whether the agent is running.
BurnsAnyway(rest) == 0..Len(rest)

Burns(rest) == IF running THEN 0..Len(rest) ELSE {Len(rest)}

Restored(s) == replay # <<>> /\ s = Head(replay)

\* Mutation of After: the end of a restored session ends _replay.
AfterNone(s) == <<>>

After(s) == IF Restored(s) THEN Tail(replay) ELSE <<>>

----------------------------------------------------------------------------
(* Clients. *)

\* Mutation of PriorHistory: the snapshot is taken after the user turn joined.
PriorHistoryAfter(s) == Append(chat, User(s))

\* The snapshot is taken before the user turn joins the thread.
PriorHistory(s) == chat

\* submit_prompt, up to the return of the session id.
Submit(s) ==
    /\ started
    /\ snap[s].created = 0
    /\ \E w \in WriteOutcomes, e \in EntryOutcomes :
         /\ chat' = Append(chat, User(s))
         /\ chatLog' = Logged(chatLog, User(s), w)
         /\ queue' = [queue EXCEPT ![s] =
                         IF e = "good"
                         THEN [file |-> "good", prior |-> PriorHistory(s), created |-> clock + 1]
                         ELSE [file |-> e, prior |-> <<>>, created |-> 0]]
         /\ marks' = [marks EXCEPT ![s] =
                         {"accepted"}
                         \cup (IF e = "good" THEN {} ELSE {"unsaved"})
                         \cup (IF w = "ok" /\ ~chatLog.torn /\ Loads(User(s))
                               THEN {} ELSE {"unpaired"})]
    /\ status' = [status EXCEPT ![s] = "pending"]
    /\ task' = [task EXCEPT ![s] = "created"]
    /\ hist' = [hist EXCEPT ![s] = PriorHistory(s)]
    /\ snap' = [snap EXCEPT ![s] = [created |-> clock + 1, prior |-> PriorHistory(s)]]
    /\ clock' = clock + 1
    /\ UNCHANGED <<started, running, cancelReq, replay, chunks, shell, spent>>

----------------------------------------------------------------------------
(* The session tasks. *)

\* First step of the task of submit_prompt: handle refuses when the agent is
\* not running, may raise before it suspends, or suspends in the LLM call.
Begin(s) ==
    /\ task[s] = "created" /\ s \notin cancelReq
    /\ \/ running /\ Ends({}, {}, {}, {s}, {}, {})
       \/ \E drop \in Deletable({s}) : Ends({}, {s}, {}, {}, drop, {})
    /\ UNCHANGED <<chatLog, started, running, chat, hist, replay, shell, snap, clock, spent>>

\* handle returns: the reply is streamed, appended and logged, the entry dropped.
Reply(s) ==
    /\ task[s] = "handling" /\ s \notin cancelReq
    /\ \E k \in Burns(After(s)) :
         LET burnt == Burnt(After(s), k) IN
         /\ \E drop \in Deletable({s} \cup burnt) :
              Ends({s}, burnt, {}, Resumed(After(s), k), drop, {})
         /\ replay' = IF Restored(s) THEN Left(After(s), k) ELSE replay
    /\ \E w \in WriteOutcomes : chatLog' = Logged(chatLog, Assistant(s), w)
    /\ chat' = Append(chat, Assistant(s))
    /\ UNCHANGED <<started, running, hist, shell, snap, clock, spent>>

\* handle raises.  When append_episode fails while a cancellation unwinds, its
\* OSError replaces the CancelledError and the session fails the same way.
Raise(s) ==
    /\ task[s] = "handling" /\ (s \in cancelReq => DiskFaults)
    /\ \E k \in Burns(After(s)) :
         LET burnt == Burnt(After(s), k) IN
         /\ \E drop \in Deletable({s} \cup burnt) :
              Ends({}, {s} \cup burnt, {}, Resumed(After(s), k), drop, {})
         /\ replay' = IF Restored(s) THEN Left(After(s), k) ELSE replay
    /\ UNCHANGED <<chatLog, chat, started, running, hist, shell, snap, clock, spent>>

\* The CancelledError is delivered in handle.  It is not an Exception: it also
\* ends _replay, whose remaining sessions stay on disk, unrun.
Cancelled(s) ==
    /\ task[s] = "handling" /\ s \in cancelReq
    /\ \E drop \in Deletable({s}) : Ends({}, {}, {s}, {}, drop, {})
    /\ replay' = IF Restored(s) THEN <<>> ELSE replay
    /\ UNCHANGED <<chatLog, chat, started, running, hist, shell, snap, clock, spent>>

\* The CancelledError is thrown into a coroutine that never ran: its try
\* statement is never entered, so nothing of _run_session happens.
CancelledUnstarted(s) ==
    /\ task[s] = "created" /\ s \in cancelReq
    /\ task' = [task EXCEPT ![s] = "none"]
    /\ cancelReq' = cancelReq \ {s}
    /\ UNCHANGED <<disk, started, running, chat, status, hist, replay, chunks, shell,
                   history, spent>>

----------------------------------------------------------------------------
(* Operators: the control shell. *)

CountStop == /\ spent.stops < MaxStops
             /\ spent' = [spent EXCEPT !.stops = @ + 1]

\* stop: the agent refuses new prompts, sessions in flight go on.
Stop ==
    /\ started /\ CountStop
    /\ running' = FALSE
    /\ UNCHANGED <<disk, started, chat, sessions, shell, history>>

\* emergency stop: and every session task is asked to cancel.
EmergencyStop ==
    /\ started
    /\ spent.emergencies < MaxEmergencies
    /\ spent' = [spent EXCEPT !.emergencies = @ + 1]
    /\ running' = FALSE
    /\ cancelReq' = {s \in Sids : task[s] # "none"}
    /\ UNCHANGED <<disk, started, chat, status, task, hist, replay, chunks, shell, history>>

\* restart: its stop(), which suspends closing the HTTP client ...
RestartStops ==
    /\ started /\ shell = "idle" /\ CountStop
    /\ running' = FALSE
    /\ shell' = "restarting"
    /\ UNCHANGED <<disk, started, chat, sessions, history>>

\* ... then its start(), which returns at once since _started_at is still set.
RestartStarts ==
    /\ started /\ shell = "restarting"
    /\ shell' = "idle"
    /\ UNCHANGED <<disk, started, running, chat, sessions, history, spent>>

CountReset == /\ spent.resets < MaxResets
              /\ spent' = [spent EXCEPT !.resets = @ + 1]

Given == {s \in Sids : snap[s].created > 0}
OnDisk == {s \in Sids : queue[s].file # "absent"}

\* What is left when the files of `gone` are removed and the thread is cleared.
Wipe(gone) ==
    /\ queue' = [s \in Sids |-> IF s \in gone THEN NoEntry ELSE queue[s]]
    /\ marks' = [s \in Sids |-> marks[s]
                                \cup (IF s \in Given THEN {"unpaired"} ELSE {})
                                \cup (IF s \in gone THEN {"wiped"} ELSE {})]

\* reset chat.  An unlink that raises leaves the log and a cleared thread.
ResetChat ==
    /\ started /\ CountReset
    /\ chat' = <<>>
    /\ chatLog' \in {EmptyLog} \cup (IF DiskFaults THEN {chatLog} ELSE {})
    /\ Wipe({})
    /\ UNCHANGED <<started, running, sessions, shell, snap, clock>>

\* reset all also removes state/queue, in any order until a removal raises.
ResetAll ==
    /\ started /\ CountReset
    /\ chat' = <<>>
    /\ chatLog' = EmptyLog
    /\ \E gone \in Deletable(OnDisk) : Wipe(gone)
    /\ UNCHANGED <<started, running, sessions, shell, snap, clock>>

----------------------------------------------------------------------------
(* Crashes and the next process. *)

CountCrash == /\ spent.crashes < MaxCrashes
              /\ spent' = [spent EXCEPT !.crashes = @ + 1]

\* Nothing of the process is left but what is on disk.
Dies == /\ started' = FALSE /\ running' = FALSE /\ chat' = <<>>
        /\ status' = [s \in Sids |-> "none"]
        /\ task' = [s \in Sids |-> "none"]
        /\ hist' = [s \in Sids |-> <<>>]
        /\ cancelReq' = {} /\ replay' = <<>>
        /\ chunks' = [s \in Sids |-> <<>>]
        /\ shell' = "idle"

Crash ==
    /\ started /\ CountCrash /\ Dies
    /\ UNCHANGED <<disk, history>>

\* Killed in submit_prompt before the queue entry is whole: the client was
\* never given the id.
CrashInSubmit(s) ==
    /\ started /\ CountCrash /\ Dies
    /\ snap[s].created = 0
    /\ \E w \in WriteOutcomes : chatLog' = Logged(chatLog, User(s), w)
    /\ \E e \in {"absent", "malformed"} : queue' = [queue EXCEPT ![s].file = e]
    /\ snap' = [snap EXCEPT ![s] = [created |-> clock + 1, prior |-> PriorHistory(s)]]
    /\ clock' = clock + 1
    /\ UNCHANGED marks

\* Killed between the append of the reply and the removal of the entry.
CrashInReply(s) ==
    /\ CountCrash /\ Dies
    /\ task[s] = "handling" /\ s \notin cancelReq
    /\ \E w \in WriteOutcomes : chatLog' = Logged(chatLog, Assistant(s), w)
    /\ marks' = [marks EXCEPT ![s] = @ \cup (IF queue[s].file = "good" THEN {"survived"} ELSE {})]
    /\ UNCHANGED <<queue, snap, clock>>

\* Killed while reset all removes the files of state/queue.
CrashInReset ==
    /\ started /\ CountCrash /\ Dies
    /\ spent.resets < MaxResets
    /\ chatLog' = EmptyLog
    /\ \E gone \in SUBSET OnDisk : Wipe(gone)
    /\ UNCHANGED <<snap, clock>>

\* Mutation of InOrder: glob order instead of creation time.
InAnyOrder(S) == {f \in [1..Cardinality(S) -> S] : \A i, j \in DOMAIN f : i < j => f[i] # f[j]}

\* The lists of the sessions in S that respect their creation time.
InOrder(S) ==
    {f \in [1..Cardinality(S) -> S] :
        \A i, j \in 1..Cardinality(S) : i < j => /\ f[i] # f[j]
                                                  /\ queue[f[i]].created <= queue[f[j]].created}

\* Mutation of RestoreDrops: every file read is removed.
RestoreDropsAll(burnt) == OnDisk

\* Mutation of RestoredHistory: a restored prompt is given the current thread.
CurrentHistory(s) == chatLog.lines

\* _restore_pending_tasks removes the files json.loads refuses and those it
\* cannot read, and _run_session those of the sessions that end at once; the
\* prior history is the entry's.
RestoreDrops(burnt) == burnt \cup {s \in Sids : queue[s].file = "malformed"}
Whole == {s \in Sids : queue[s].file = "good"}
Unreadable == IF DiskFaults THEN SUBSET Whole ELSE {{}}
RestoredHistory(s) == queue[s].prior

\* start(): load the thread, start the agent, collect the queue, and run
\* _replay up to its first suspension, which precedes every client.  A log
\* that does not decode makes start() raise, and the process exits.
Start ==
    /\ ~started
    /\ ~chatLog.undecodable
    /\ started' = TRUE /\ running' = TRUE
    /\ chat' \in {chatLog.lines} \cup (IF DiskFaults THEN {<<>>} ELSE {})
    /\ \E unread \in Unreadable :
       \E order \in InOrder(Whole \ unread) :
       \E k \in 0..Len(order) :
         /\ \E drop \in Deletable(unread \cup RestoreDrops(Burnt(order, k))) :
              Ends({}, Burnt(order, k), {}, Resumed(order, k), drop, unread)
         /\ replay' = Left(order, k)
    /\ hist' = [s \in Sids |-> IF queue[s].file = "good" THEN RestoredHistory(s) ELSE <<>>]
    /\ UNCHANGED <<chatLog, shell, snap, clock, spent>>

----------------------------------------------------------------------------
(* Specification. *)

TaskStep(s) == Begin(s) \/ Reply(s) \/ Raise(s) \/ Cancelled(s) \/ CancelledUnstarted(s)
Shell == Stop \/ EmergencyStop \/ RestartStops \/ RestartStarts \/ ResetChat \/ ResetAll
Failure == \/ Crash
           \/ \E s \in Sids : CrashInSubmit(s) \/ CrashInReply(s)
           \/ CrashInReset

Next == \/ \E s \in Sids : Submit(s) \/ TaskStep(s)
        \/ Shell \/ Failure \/ Start

Spec == Init /\ [][Next]_vars

\* A ready task is run by the event loop, an LLM call ends by its timeout and
\* the rounds of one prompt are bounded, the shell's restart goes on, and the
\* container is restarted (docker-compose: restart: unless-stopped).
Fairness == /\ \A s \in Sids : WF_vars(TaskStep(s))
            /\ WF_vars(RestartStarts)
            /\ WF_vars(Start)

FairSpec == Spec /\ Fairness

----------------------------------------------------------------------------
(* Type invariant. *)

DiskType ==
    /\ chatLog \in ChatLog
    /\ queue \in [Sids -> Entry]

ProcessType ==
    /\ started \in BOOLEAN /\ running \in BOOLEAN
    /\ chat \in Seq(Message)
    /\ status \in [Sids -> {"none", "pending", "running", "done", "failed"}]
    /\ task \in [Sids -> {"none", "created", "handling"}]
    /\ hist \in [Sids -> Seq(Message)]
    /\ cancelReq \subseteq Sids
    /\ replay \in Seq(Sids)
    /\ chunks \in [Sids -> Seq({"content", "error", "cancelled", "END"})]
    /\ shell \in {"idle", "restarting"}

Spent == [crashes : Nat, resets : Nat, stops : Nat, emergencies : Nat]

HistoryType ==
    /\ snap \in [Sids -> [created : Nat, prior : Seq(Message)]]
    /\ clock \in Nat
    /\ marks \in [Sids -> SUBSET Mark]
    /\ spent \in Spent

TypeOK == DiskType /\ ProcessType /\ HistoryType

----------------------------------------------------------------------------
(* Safety. *)

\* A prompt whose id was returned to the client has, until its session ends or
\* the operator wipes it, its entry on disk with the snapshot taken at its
\* submission, whatever crashed in between, provided that it could be written
\* and every start could read it (_write_queue_entry, every
\* _delete_queue_entry and the removals of _restore_pending_tasks in core.py).
NoPromptLost ==
    \A s \in Sids :
        "accepted" \in marks[s] /\ marks[s] \cap {"finished", "wiped", "unsaved", "unread"} = {}
        => queue[s] = [file |-> "good", prior |-> snap[s].prior, created |-> snap[s].created]

\* Every run of a prompt, the first one and the restored ones, gives the agent
\* the conversation as it stood when the prompt was submitted, never the
\* thread of the moment (prior_history in submit_prompt and _replay).
ContextIsSnapshot ==
    \A s \in Sids : task[s] # "none" => hist[s] = snap[s].prior

\* A session that ended leaves no entry for a later process to run again,
\* unless its removal failed (the three _delete_queue_entry of _run_session).
EndedLeavesNoEntry ==
    \A s \in Sids : status[s] \in {"done", "failed"} /\ "survived" \notin marks[s]
                    => queue[s].file = "absent"

\* While the process is up and the disk works, the thread in memory is what the
\* next process would load from chat.jsonl: README, "multi-turn memory persisted
\* to `state/chat.jsonl`, restored on start".  It needs prompts and replies
\* without the separators of Loads.
MirrorsLog == started /\ ~DiskFaults => chat = chatLog.lines

\* In the log a reply comes after the user turn it answers, also when another
\* process wrote it, unless the turn was reset or could not be written.
RepliesFollowPrompts ==
    \A i \in 1..Len(chatLog.lines) :
        LET m == chatLog.lines[i] IN
        m.role = "assistant" /\ "unpaired" \notin marks[m.sid]
        => \E j \in 1..(i - 1) : chatLog.lines[j] = User(m.sid)

\* A prompt is answered twice in the log only if its entry outlived its first
\* reply: a crash between the two writes of _run_session, or a failed unlink.
OneReply ==
    \A i, j \in 1..Len(chatLog.lines) :
        LET m == chatLog.lines[i] IN
        i < j /\ m.role = "assistant" /\ chatLog.lines[j] = m => "survived" \in marks[m.sid]

\* The context a prompt was given is what the thread shows above that prompt,
\* across crashes and restarts, until the thread is reset, if all of it loads.
ThreadExtendsContext ==
    ~DiskFaults =>
    \A s \in Sids :
        LET context == Append(snap[s].prior, User(s)) IN
        snap[s].created > 0 /\ "unpaired" \notin marks[s] /\ AllLoad(context)
        => /\ Len(chatLog.lines) >= Len(context)
           /\ SubSeq(chatLog.lines, 1, Len(context)) = context

\* Restored sessions run one at a time, and none overtakes an older prompt
\* that the same process restored and has not run (sort and loop of _replay).
RestoredInOrder ==
    ~DiskFaults =>
    \A j \in 1..Len(replay) :
        /\ task[replay[j]] = (IF j = 1 THEN "handling" ELSE "none")
        /\ \A s \in Sids :
              /\ queue[s].file = "good" /\ status[s] = "none"
              /\ snap[s].created < snap[replay[j]].created
              => \E i \in 1..(j - 1) : replay[i] = s

----------------------------------------------------------------------------
(* Action properties. *)

\* After stop no session enters the agent any more, neither a new one nor the
\* next restored one (the first test of Agent.handle).
NoRunWhenStopped ==
    [][\A s \in Sids : task[s] # "handling" /\ task'[s] = "handling" => running']_vars

\* What became of each prompt, in the terms of DurablePrompts; "lost" is no
\* fate that DurablePrompts knows.
FateOf(s) ==
    IF snap[s].created = 0 THEN "new"
    ELSE IF "accepted" \notin marks[s] THEN "refused"
    ELSE IF "finished" \in marks[s] THEN "ended"
    ELSE IF queue[s].file = "good" THEN "pending"
    ELSE IF "wiped" \in marks[s] THEN "wiped" ELSE "lost"

Durable == INSTANCE DurablePrompts WITH fate <- [s \in Sids |-> FateOf(s)]

\* The core implements DurablePrompts: no crash, restart or new process changes
\* the fate of a prompt, and it ends at most once.
ImplementsDurable == Durable!Spec

----------------------------------------------------------------------------
(* Liveness. *)

\* Every accepted prompt is eventually ended or wiped: by its own task, or, if
\* the process dies, by the replay of a later one, which takes every entry in
\* turn.  Emergency stops void it: see EntryRemovedAtEnd.
EventuallyEnds ==
    \A s \in Sids : "accepted" \in marks[s]
                    ~> marks[s] \cap {"finished", "wiped", "unsaved"} # {}

----------------------------------------------------------------------------
(* What the repository says and the code does not do. *)

\* _write_queue_entry: "Removed when the session finishes (any outcome)."  A
\* session whose task is over has no entry left.
EntryRemovedAtEnd ==
    \A s \in Sids : status[s] # "none" /\ task[s] = "none" => queue[s].file = "absent"

\* The shell answers "ok, restarted": a restart leaves the agent running.
RestartRuns ==
    [][shell = "restarting" /\ shell' = "idle" /\ started' => running']_vars

\* _load_chat_history skips a malformed line: a damaged log does not prevent
\* the next process from starting.
ComesBack == ~started ~> started
============================================================================
