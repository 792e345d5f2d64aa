------------------------------ MODULE Monitor ------------------------------
(***************************************************************************)
(* The monitor: TaskHistorySink of monitor/history.py and the session gauge *)
(* of MetricsSink of monitor/metrics.py, as functions from the monitor's   *)
(* state and one bus event to its next state.  Times, token counts, texts  *)
(* and the counters that only ever grow are left out.                      *)
(***************************************************************************)
EXTENDS Integers, Sequences, FiniteSetsExt, Functions, SequencesExt

CONSTANT MaxTasks    \* TaskHistorySink.max: cards kept

ASSUME MonitorAssumption == MaxTasks \in Nat \ {0}

\* An event of the bus: its session, the tool's or the model's name, and ok.
Event(kind, sid, name, ok) == [kind |-> kind, sid |-> sid, name |-> name, ok |-> ok]
Plain(kind, sid) == Event(kind, sid, "", TRUE)

\* A step of a card; "open" until its end event arrives.
OpenStep(kind, name) == [kind |-> kind, name |-> name, ok |-> "open"]
NewCard(restored) == [status |-> "running", steps |-> <<>>, restored |-> restored]

\* self.tasks[sid] = ...
WithCard(tasks, s, card) == [t \in DOMAIN tasks \cup {s} |-> IF t = s THEN card ELSE tasks[t]]

\* The sinks as constructed: cards by session, their order of arrival, the
\* FSM strip (state, tool and, at most one, session), the gauge.
Fresh == [tasks |-> << >>, order |-> << >>,
          state |-> "idle", tool |-> "", session |-> {},
          active |-> 0]

HasCard(m, s) == s \in DOMAIN m.tasks

\* Mutation of SetState: the session shown is the first one, not the last.
SetStateOnly(m, st, s) == [m EXCEPT !.state = st, !.session = IF @ = {} THEN {s} ELSE @]

\* _set_state
SetState(m, st, s) == [m EXCEPT !.state = st, !.session = {s}]

\* Mutation of Evict: the card of an evicted session is kept in tasks.
EvictOrder(m) == IF Len(m.order) > MaxTasks THEN [m EXCEPT !.order = Tail(@)] ELSE m

\* The end of _on_prompt: at most MaxTasks cards.  Cards come one by one, so
\* the loop runs at most once.
Evict(m) ==
    IF Len(m.order) > MaxTasks
    THEN [m EXCEPT !.order = Tail(@),
                   !.tasks = Restrict(@, DOMAIN @ \ {Head(m.order)})]
    ELSE m

\* _on_prompt
OnPrompt(m, s, restored) ==
    IF HasCard(m, s)
    THEN [m EXCEPT !.tasks[s].restored = restored \/ @]
    ELSE LET added == [m EXCEPT !.tasks = WithCard(@, s, NewCard(restored)),
                                !.order = Append(@, s)]
         IN SetState(Evict(added), "prompted", s)

\* Mutation of OpenStepOf: a step of an unknown session makes its card.
OpenStepMaking(m, s, step) ==
    IF HasCard(m, s) THEN [m EXCEPT !.tasks[s].steps = Append(@, step)]
    ELSE [m EXCEPT !.tasks = WithCard(@, s, [NewCard(FALSE) EXCEPT !.steps = <<step>>]),
                   !.order = Append(@, s)]

\* _open_step
OpenStepOf(m, s, step) ==
    IF HasCard(m, s) THEN [m EXCEPT !.tasks[s].steps = Append(@, step)] ELSE m

\* Mutation of CloseLastStep: the oldest step of the kind, open or not.
CloseFirstStep(m, s, kind, name, ok) ==
    LET of == IF HasCard(m, s)
              THEN {i \in DOMAIN m.tasks[s].steps : m.tasks[s].steps[i].kind = kind} ELSE {}
    IN IF of = {} THEN m
       ELSE [m EXCEPT !.tasks[s].steps[Min(of)].ok = IF ok THEN "ok" ELSE "fail"]

\* _close_last_step: the most recent open step of the kind and name.
CloseLastStep(m, s, kind, name, ok) ==
    LET open == IF HasCard(m, s)
                THEN {i \in DOMAIN m.tasks[s].steps : m.tasks[s].steps[i] = OpenStep(kind, name)}
                ELSE {}
    IN IF open = {} THEN m
       ELSE [m EXCEPT !.tasks[s].steps[Max(open)].ok = IF ok THEN "ok" ELSE "fail"]

\* The branch agent_round_end of consume: "reply" is overwritten by "idle".
OnRoundEnd(m, s, ok) ==
    [m EXCEPT !.tasks = IF HasCard(m, s)
                        THEN [@ EXCEPT ![s].status = IF ok THEN "done" ELSE "failed"] ELSE @,
              !.state = "idle", !.session = {}]

\* TaskHistorySink.consume
History(m, e) ==
    CASE e.kind = "prompt_submitted"  -> OnPrompt(m, e.sid, FALSE)
      [] e.kind = "session_restored"  -> OnPrompt(m, e.sid, TRUE)
      [] e.kind = "agent_round_start" -> SetState(m, "prompted", e.sid)
      [] e.kind = "llm_call_start" ->
            SetState(OpenStepOf(m, e.sid, OpenStep("llm_call", e.name)), "llm", e.sid)
      [] e.kind = "llm_call_end" ->
            SetState(CloseLastStep(m, e.sid, "llm_call", e.name, e.ok), "prompted", e.sid)
      [] e.kind = "tool_call_start" ->
            SetState([OpenStepOf(m, e.sid, OpenStep("tool_call", e.name)) EXCEPT !.tool = e.name],
                     "tool", e.sid)
      [] e.kind = "tool_call_end" ->
            SetState([CloseLastStep(m, e.sid, "tool_call", e.name, e.ok) EXCEPT !.tool = ""],
                     "prompted", e.sid)
      [] e.kind = "agent_round_end" -> OnRoundEnd(m, e.sid, e.ok)
      [] e.kind = "factory_reset" -> [Fresh EXCEPT !.active = m.active]

\* Mutation of Metrics: the end of a round is not counted.
MetricsNoEnd(m, e) ==
    CASE e.kind = "factory_reset"    -> [m EXCEPT !.active = 0]
      [] e.kind = "prompt_submitted" -> [m EXCEPT !.active = @ + 1]
      [] OTHER -> m

\* MetricsSink.consume, of which the gauge active_sessions is kept.
Metrics(m, e) ==
    CASE e.kind = "factory_reset"    -> [m EXCEPT !.active = 0]
      [] e.kind = "prompt_submitted" -> [m EXCEPT !.active = @ + 1]
      [] e.kind = "agent_round_end"  -> [m EXCEPT !.active = @ - 1]
      [] OTHER -> m

\* _on_event of monitor/server.py: the metrics, then the history.
OnEvent(m, e) == History(Metrics(m, e), e)

\* The events one step of the agent publishes, in their order.
OnEvents(m, events) ==
    LET after[i \in 0..Len(events)] == IF i = 0 THEN m ELSE OnEvent(after[i - 1], events[i])
    IN after[Len(events)]

----------------------------------------------------------------------------
(* Types, and what a card may show. *)

StepType == [kind : {"llm_call", "tool_call"}, name : STRING, ok : {"open", "ok", "fail"}]
Card == [status : {"running", "done", "failed"}, steps : Seq(StepType), restored : BOOLEAN]

FsmState == {"idle", "prompted", "llm", "tool"}
ToolName == STRING \cup {""}    \* "" for none

\* The monitor of sessions in S.
MonitorType(m, S) ==
    /\ m = [tasks |-> m.tasks, order |-> m.order, state |-> m.state, tool |-> m.tool,
            session |-> m.session, active |-> m.active]
    /\ m.tasks \in [DOMAIN m.tasks -> Card] /\ DOMAIN m.tasks \subseteq S
    /\ m.order \in Seq(S)
    /\ m.state \in FsmState /\ m.tool \in ToolName
    /\ m.session \subseteq S
    /\ m.active \in Int

\* The table of cards and the list of their order agree: the same sessions,
\* each once, at most MaxTasks.
Tidy(m) == DOMAIN m.tasks = Range(m.order) /\ IsInjective(m.order) /\ Len(m.order) <= MaxTasks

\* The open steps are the members of `doing`, none or one, and that is the last.
Shows(steps, doing) ==
    /\ \A i \in DOMAIN steps : steps[i].ok = "open" => i = Len(steps) /\ steps[i] \in doing
    /\ \A d \in doing : steps # <<>> /\ Last(steps) = d

\* The steps that are calls which ended.
EndedCalls(steps) == {i \in DOMAIN steps : steps[i].kind = "tool_call" /\ steps[i].ok # "open"}
============================================================================
