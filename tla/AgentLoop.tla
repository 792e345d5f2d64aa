----------------------------- MODULE AgentLoop -----------------------------
(***************************************************************************)
(* Agent.handle of agent.py for concurrent sessions, the events it and the *)
(* core publish on the bus, and the monitor that consumes them.            *)
(*                                                                         *)
(* An action is what handle runs from one suspension point to the next: it *)
(* suspends in the LLM call and in a tool's handler only.  The bus calls   *)
(* the monitor inside publish, so the events of one step are consumed in   *)
(* that step.                                                              *)
(***************************************************************************)
EXTENDS Monitor, TLC

CONSTANTS
    Sids,         \* sessions
    Backlog,      \* sessions a previous process left in state/queue, oldest first
    MaxRounds,    \* HARNESS_MAX_ROUNDS
    Model,        \* the model's name in the events of an LLM call
    Plans,        \* the tool calls an LLM answer may hold: sequences of names
    MaxCancels,   \* bound: cancellations
    MaxResets     \* bound: reset metrics / reset all commands

ASSUME AgentAssumption ==
    /\ MaxRounds \in Nat \ {0} /\ MaxCancels \in Nat /\ MaxResets \in Nat
    /\ IsFiniteSet(Sids)
    /\ Backlog \in Seq(Sids) /\ IsInjective(Backlog)    \* one file of state/queue each
    /\ Plans \subseteq Seq(STRING) /\ Model \in STRING

VARIABLES
    pc,          \* where handle of each session is suspended
    outcome,     \* how its session ended
    round,       \* round_idx
    calls,       \* tool calls of the answer not finished yet, Head in execution
    backlog,     \* restored sessions to run, Head is the running one
    running,     \* Agent._running
    subscribed,  \* the monitor's startup hook has run
    m,           \* the monitor
    cancels, resets

vars == <<pc, outcome, round, calls, backlog, running, subscribed, m, cancels, resets>>

LlmStart(s) == Event("llm_call_start", s, Model, TRUE)
LlmEnd(s, ok) == Event("llm_call_end", s, Model, ok)
ToolStart(s, t) == Event("tool_call_start", s, t, TRUE)
RoundStart(s) == <<Plain("agent_round_start", s), LlmStart(s)>>

\* Mutation of RoundEnd: a reply is not announced.
NoRoundEnd(s) == <<>>

\* handle announces only rounds that ended well.
RoundEnd(s) == <<Event("agent_round_end", s, "", TRUE)>>

\* EventBus.publish
Publish(events) == m' = IF subscribed THEN OnEvents(m, events) ELSE m

----------------------------------------------------------------------------
(* start() ran _replay up to the first LLM call, before any server.        *)

Init ==
    /\ pc = [s \in Sids |-> IF Backlog # <<>> /\ s = Head(Backlog) THEN "llm"
                            ELSE IF s \in Range(Backlog) THEN "waiting" ELSE "new"]
    /\ outcome = [s \in Sids |-> "none"]
    /\ round = [s \in Sids |-> IF pc[s] = "llm" THEN 1 ELSE 0]
    /\ calls = [s \in Sids |-> <<>>]
    /\ backlog = Backlog
    /\ running = TRUE
    /\ subscribed = FALSE
    /\ m = Fresh
    /\ cancels = 0 /\ resets = 0

\* The startup hook of the monitor's server.
Subscribe ==
    /\ ~subscribed /\ subscribed' = TRUE
    /\ UNCHANGED <<pc, outcome, round, calls, backlog, running, m, cancels, resets>>

\* submit_prompt
Submit(s) ==
    /\ pc[s] = "new"
    /\ pc' = [pc EXCEPT ![s] = "created"]
    /\ Publish(<<Plain("prompt_submitted", s)>>)
    /\ UNCHANGED <<outcome, round, calls, backlog, running, subscribed, cancels, resets>>

Restored(s) == backlog # <<>> /\ s = Head(backlog)

\* Session s ends with outcome o after publishing `events`.  If it is the
\* restored session that runs, _replay goes on in the same step: to the LLM
\* call of the next one, or, the agent being stopped, through all that remain.
\* (That a restored session fails before its first LLM call is left out.)
Over(s, o, events) ==
    LET rest == IF Restored(s) THEN Tail(backlog) ELSE <<>>
        next == IF running /\ rest # <<>> THEN {Head(rest)} ELSE {}
        refused == IF running THEN {} ELSE Range(rest)
        restore == IF running
                   THEN [i \in 1..Cardinality(next) |-> Plain("session_restored", rest[i])]
                        \o (IF next = {} THEN <<>> ELSE RoundStart(Head(rest)))
                   ELSE [i \in DOMAIN rest |-> Plain("session_restored", rest[i])]
    IN
    /\ pc' = [t \in Sids |-> IF t = s \/ t \in refused THEN "over"
                             ELSE IF t \in next THEN "llm" ELSE pc[t]]
    /\ outcome' = [t \in Sids |-> IF t = s THEN o
                                  ELSE IF t \in refused THEN "failed" ELSE outcome[t]]
    /\ round' = [t \in Sids |-> IF t \in next THEN 1 ELSE round[t]]
    /\ calls' = [calls EXCEPT ![s] = <<>>]
    /\ backlog' = IF Restored(s) THEN (IF running THEN rest ELSE <<>>) ELSE backlog
    /\ Publish(events \o restore)

\* The round loop is left; append_episode may raise, and then handle does too.
Leave(s, events) == \/ Over(s, "done", events \o RoundEnd(s))
                    \/ Over(s, "failed", events)

\* Mutation of NextRound: `while` without a bound on the rounds.
NextRoundUnbounded(s, events) ==
    /\ pc' = [pc EXCEPT ![s] = "llm"]
    /\ calls' = [calls EXCEPT ![s] = <<>>]
    /\ Publish(Append(events, LlmStart(s)))
    /\ UNCHANGED <<round, outcome, backlog>>

\* The rounds go on with another LLM call, or are exhausted.
NextRound(s, events) ==
    \/ /\ round[s] < MaxRounds
       /\ pc' = [pc EXCEPT ![s] = "llm"]
       /\ round' = [round EXCEPT ![s] = @ + 1]
       /\ calls' = [calls EXCEPT ![s] = <<>>]
       /\ Publish(Append(events, LlmStart(s)))
       /\ UNCHANGED <<outcome, backlog>>
    \/ /\ round[s] = MaxRounds
       /\ Leave(s, events)

Invoke(s, plan, events) ==
    /\ pc' = [pc EXCEPT ![s] = "tool"]
    /\ calls' = [calls EXCEPT ![s] = plan]
    /\ Publish(Append(events, ToolStart(s, Head(plan))))
    /\ UNCHANGED <<outcome, round, backlog>>

----------------------------------------------------------------------------
(* handle *)

\* The session's first step: to the first LLM call, or an exception before it,
\* at the test of _running or while the messages are built.
Begin(s) ==
    /\ pc[s] = "created"
    /\ \/ /\ running
          /\ pc' = [pc EXCEPT ![s] = "llm"]
          /\ round' = [round EXCEPT ![s] = 1]
          /\ Publish(RoundStart(s))
          /\ UNCHANGED <<outcome, calls, backlog>>
       \/ ~running /\ Over(s, "failed", <<>>)
       \/ running /\ Over(s, "failed", <<Plain("agent_round_start", s)>>)
    /\ UNCHANGED <<running, subscribed, cancels, resets>>

\* The answer holds the calls of `plan`; the text of one without calls is the
\* reply.
Answered(s, plan) ==
    /\ pc[s] = "llm"
    /\ IF plan = <<>> THEN Leave(s, <<LlmEnd(s, TRUE)>>)
                      ELSE Invoke(s, plan, <<LlmEnd(s, TRUE)>>)
    /\ UNCHANGED <<running, subscribed, cancels, resets>>

LlmAnswers(s) == \E plan \in Plans : Answered(s, plan)

LlmFails(s) ==
    /\ pc[s] = "llm"
    /\ Over(s, "failed", <<LlmEnd(s, FALSE)>>)
    /\ UNCHANGED <<running, subscribed, cancels, resets>>

\* _invoke_tool ends, the handler having returned (ok) or raised; then comes
\* the next call of the answer, or the next round.
Invoked(s, ok) ==
    /\ pc[s] = "tool"
    /\ LET ended == <<Event("tool_call_end", s, Head(calls[s]), ok)>> IN
         IF Tail(calls[s]) # <<>> THEN Invoke(s, Tail(calls[s]), ended)
                                  ELSE NextRound(s, ended)
    /\ UNCHANGED <<running, subscribed, cancels, resets>>

ToolEnds(s) == \E ok \in BOOLEAN : Invoked(s, ok)

\* Emergency stop: the agent is stopped before the CancelledError is delivered
\* to the LLM call, to a handler or to a task that never ran.  It passes every
\* except clause of handle, publishes nothing, and ends _replay if it hits a
\* restored session, unless append_episode raises in its place.
Cancelled(s) ==
    /\ pc[s] \in {"created", "llm", "tool"} /\ ~running
    /\ cancels < MaxCancels /\ cancels' = cancels + 1
    /\ \/ /\ pc' = [pc EXCEPT ![s] = "over"]
          /\ outcome' = [outcome EXCEPT ![s] = "failed"]
          /\ calls' = [calls EXCEPT ![s] = <<>>]
          /\ backlog' = IF Restored(s) THEN <<>> ELSE backlog
          /\ UNCHANGED <<round, m>>
       \/ pc[s] # "created" /\ Over(s, "failed", <<>>)
    /\ UNCHANGED <<running, subscribed, resets>>

----------------------------------------------------------------------------
(* Operators. *)

Stop ==
    /\ running /\ running' = FALSE
    /\ UNCHANGED <<pc, outcome, round, calls, backlog, subscribed, m, cancels, resets>>

ResetMetrics ==
    /\ resets < MaxResets /\ resets' = resets + 1
    /\ Publish(<<Plain("factory_reset", "")>>)
    /\ UNCHANGED <<pc, outcome, round, calls, backlog, running, subscribed, cancels>>

Handle(s) == Begin(s) \/ LlmAnswers(s) \/ LlmFails(s) \/ ToolEnds(s)

Next == \/ \E s \in Sids : Submit(s) \/ Handle(s) \/ Cancelled(s)
        \/ Subscribe \/ Stop \/ ResetMetrics

Spec == Init /\ [][Next]_vars

\* As long as a session is in handle, some session goes on: every LLM call ends
\* by its timeout; tools return, which the agent does not enforce
\* (ToolEntry.timeout_sec is never read by it).
FairSpec == Spec /\ WF_vars(\E s \in Sids : Handle(s))

----------------------------------------------------------------------------
(* Properties. *)

\* Types, with the table of cards and the list of their order in agreement
\* (eviction in _on_prompt).
TypeOK ==
    /\ pc \in [Sids -> {"new", "waiting", "created", "llm", "tool", "over"}]
    /\ outcome \in [Sids -> {"none", "done", "failed"}]
    /\ round \in [Sids -> 0..MaxRounds]
    /\ calls \in [Sids -> Seq(STRING)]
    /\ backlog \in Seq(Sids)
    /\ running \in BOOLEAN /\ subscribed \in BOOLEAN
    /\ MonitorType(m, Sids) /\ Tidy(m)

\* What the agent is doing for session s.
Doing(s) == IF pc[s] = "llm" THEN {OpenStep("llm_call", Model)}
            ELSE IF pc[s] = "tool" THEN {OpenStep("tool_call", Head(calls[s]))} ELSE {}

\* The card of a session in flight shows exactly what its agent is doing: one
\* open step, the last, and it is the LLM call or the tool of the moment; all
\* earlier steps are closed.  (_open_step and _close_last_step search the
\* card, and events of other sessions, resets and evictions come between.)
CardFollowsAgent ==
    \A s \in DOMAIN m.tasks :
        pc[s] \in {"llm", "tool"} => Shows(m.tasks[s].steps, Doing(s))

\* A card is "done" exactly when its session gave a reply, and then none of
\* its steps is open.
DoneCards ==
    \A s \in DOMAIN m.tasks :
        /\ m.tasks[s].status = "done" <=> outcome[s] = "done"
        /\ m.tasks[s].status = "done" => Shows(m.tasks[s].steps, {})

\* The FSM strip never shows a session in a state it has left by an event: it
\* follows the session named in it, with any number of sessions interleaved.
FsmFollowsSession ==
    \A s \in m.session : outcome[s] # "failed" =>
        /\ m.state = "llm" => pc[s] = "llm"
        /\ m.state = "tool" => pc[s] = "tool"
        /\ m.state = "prompted" => pc[s] = "created"

\* A card that a reset or an eviction removed does not come back with the next
\* event of its session: only a new prompt or a restored one makes a card.
NoGhostCards ==
    [][\A s \in Sids : s \in DOMAIN m'.tasks /\ s \notin DOMAIN m.tasks
                       => pc[s] \in {"new", "waiting"}]_vars

\* The gauge of running sessions counts no session twice and none that gave its
\* reply, with prompts and replies before the monitor subscribed, resets and
\* restored sessions between them: at most the new prompts not answered yet.
\* (Failed ones stay counted, and restored ones take it below what runs.)
GaugeCountsOpen ==
    m.active <= Cardinality({s \in Sids : /\ pc[s] # "new" /\ outcome[s] # "done"
                                          /\ s \notin Range(Backlog)})

\* Every session that runs ends, whatever tools it calls, and a restored one
\* gets its turn unless a cancellation ended the replay before it: in the end
\* no session is left inside handle.
SessionsEnd ==
    <>[](\A s \in Sids : \/ pc[s] \in {"new", "over"}
                         \/ pc[s] = "waiting" /\ cancels > 0)

\* README: "per-prompt cards with status (running/done/failed)".
FailedCards ==
    \A s \in DOMAIN m.tasks : outcome[s] = "failed" => m.tasks[s].status = "failed"
============================================================================
