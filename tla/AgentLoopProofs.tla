-------------------------- MODULE AgentLoopProofs --------------------------
(***************************************************************************)
(* Theorems of AgentLoop, for any number of sessions, rounds, calls, cards *)
(* and restored sessions: the cards, the FSM strip and the gauge of the    *)
(* monitor follow the sessions of the agent, however they interleave.      *)
(***************************************************************************)
EXTENDS AgentLoop, MonitorProofs

----------------------------------------------------------------------------
(* The inductive invariant. *)

\* The restored sessions to run: each once, the first in handle, the others
\* waiting.
Queue ==
    /\ IsInjective(backlog)
    /\ \A i \in DOMAIN backlog : /\ backlog[i] \in Range(Backlog)
                                 /\ i = 1 => pc[backlog[i]] \in {"llm", "tool"}
                                 /\ i # 1 => pc[backlog[i]] = "waiting"

\* Where a session stands.
Standing(s) ==
    /\ s \in Range(Backlog) => pc[s] \notin {"new", "created"}
    /\ outcome[s] = "none" <=> pc[s] # "over"
    /\ pc[s] = "tool" => calls[s] # <<>>

\* What the card of a session says of it: whether it gave its reply and, unless
\* it failed, the step in progress.
CardOf(s) ==
    /\ pc[s] \notin {"new", "waiting"}
    /\ m.tasks[s].status = "done" <=> outcome[s] = "done"
    /\ outcome[s] # "failed" => Shows(m.tasks[s].steps, Doing(s))

\* A monitor that has not subscribed knows nothing.
Unseen == ~subscribed => m = Fresh

LoopInv ==
    /\ TypeOK
    /\ Queue
    /\ \A s \in Sids : Standing(s)
    /\ \A s \in DOMAIN m.tasks : CardOf(s)
    /\ FsmFollowsSession
    /\ GaugeCountsOpen
    /\ Unseen

\* A step of session s changes no card but its own, and a card comes, without
\* any call on it, with a new prompt or a restored one only.
Bystanders(s) ==
    \A t \in DOMAIN m'.tasks :
        IF t \in DOMAIN m.tasks THEN t # s => m'.tasks[t] = m.tasks[t]
        ELSE pc[t] \in {"new", "waiting"} /\ EndedCalls(m'.tasks[t].steps) = {}

\* On the card of s, while it goes on, a step is opened, after its last one was
\* closed.
Opens(new, steps) == \E d \in StepType : d.ok = "open" /\ new = Append(steps, d)
Starts(s) == s \in DOMAIN m.tasks /\ pc'[s] # "over"
             => Opens(m'.tasks[s].steps, m.tasks[s].steps)
Proceeds(s, ok) == s \in DOMAIN m.tasks /\ pc'[s] # "over"
                   => Opens(m'.tasks[s].steps, Closed(m.tasks[s].steps, ok))

\* The sessions the gauge may count.
OpenPrompts == {s \in Sids : /\ pc[s] # "new" /\ outcome[s] # "done"
                             /\ s \notin Range(Backlog)}

LEMMA OpenPromptsFinite ==
    ASSUME NEW P \in SUBSET Sids
    PROVE  IsFiniteSet(P) /\ Cardinality(P) \in Nat
BY AgentAssumption, FS_Subset, FS_CardinalityType

\* The sets of the invariants in the names of the monitor's lemmas.
LEMMA DoingIs ==
    ASSUME NEW s \in Sids
    PROVE  /\ pc[s] = "llm" => Doing(s) = Asking(Model)
           /\ pc[s] = "tool" => Doing(s) = Using(Head(calls[s]))
           /\ pc[s] \notin {"llm", "tool"} => Doing(s) = Nothing
BY DEF Doing, Asking, Using, Nothing

LEMMA DoingWillBe ==
    ASSUME NEW s \in Sids
    PROVE  /\ pc'[s] = "llm" => Doing(s)' = Asking(Model)
           /\ pc'[s] = "tool" => Doing(s)' = Using(Head(calls'[s]))
           /\ pc'[s] \notin {"llm", "tool"} => Doing(s)' = Nothing
BY DEF Doing, Asking, Using, Nothing

LEMMA UnseenIsEmpty ==
    ASSUME LoopInv, ~subscribed
    PROVE  DOMAIN m.tasks = {} /\ m.session = {} /\ m.active = 0
BY FreshInOrder DEF LoopInv, Unseen

----------------------------------------------------------------------------
(* A session that goes on. *)

\* The monitor sees session s go from what it does to `doing`, in state st.
Follows(s, doing, st) ==
    \/ ~subscribed /\ m' = m
    \/ subscribed /\ Moves(Sids, m, m', s, Doing(s), doing) /\ Strip(m', s, st)

LEMMA GoesOnKeeps ==
    ASSUME LoopInv, NEW s \in Sids, pc[s] \in {"created", "llm", "tool"},
           NEW p \in {"llm", "tool"}, pc' = [pc EXCEPT ![s] = p],
           NEW plan \in Seq(STRING), calls' = [calls EXCEPT ![s] = plan],
           p = "tool" => plan # <<>>,
           round' \in [Sids -> 0..MaxRounds], outcome' = outcome, backlog' = backlog,
           running' = running, subscribed' = subscribed,
           Follows(s, Doing(s)', p)
    PROVE  LoopInv' /\ Bystanders(s)
<1>1. /\ pc \in [Sids -> {"new", "waiting", "created", "llm", "tool", "over"}]
      /\ outcome \in [Sids -> {"none", "done", "failed"}]
      /\ calls \in [Sids -> Seq(STRING)] /\ backlog \in Seq(Sids)
      /\ MonitorType(m, Sids) /\ Tidy(m)
  BY DEF LoopInv, TypeOK
<1>2. /\ pc'[s] = p /\ calls'[s] = plan
      /\ \A t \in Sids : t # s => pc'[t] = pc[t] /\ calls'[t] = calls[t]
  BY <1>1
<1>3. outcome[s] = "none" /\ pc[s] # "waiting" /\ pc[s] # "new"
  BY DEF LoopInv, Standing
<1>4. MonitorType(m', Sids) /\ Tidy(m') /\ m'.active = m.active /\ DOMAIN m'.tasks = DOMAIN m.tasks
  BY <1>1 DEF Follows, Moves, Noted, Touches
<1>5. TypeOK'
  <2>1. pc' \in [Sids -> {"new", "waiting", "created", "llm", "tool", "over"}]
    BY <1>1
  <2>2. calls' \in [Sids -> Seq(STRING)]
    BY <1>1
  <2>. QED BY <2>1, <2>2, <1>1, <1>4 DEF LoopInv, TypeOK
<1>6. Queue'
  <2>1. ASSUME NEW i \in DOMAIN backlog
        PROVE  /\ i = 1 => pc'[backlog[i]] \in {"llm", "tool"}
               /\ i # 1 => pc'[backlog[i]] = "waiting"
    <3>1. backlog[i] \in Sids
      BY <1>1
    <3>2. CASE backlog[i] = s
      BY <3>2, <1>2, <1>3 DEF LoopInv, Queue
    <3>3. CASE backlog[i] # s
      BY <3>1, <3>3, <1>2 DEF LoopInv, Queue
    <3>. QED BY <3>2, <3>3
  <2>. QED BY <2>1 DEF LoopInv, Queue
<1>7. ASSUME NEW t \in Sids PROVE Standing(t)'
  <2>1. Standing(t)
    BY DEF LoopInv
  <2>2. CASE t = s
    BY <2>1, <2>2, <1>2, <1>3 DEF Standing
  <2>3. CASE t # s
    BY <2>1, <2>3, <1>2 DEF Standing
  <2>. QED BY <2>2, <2>3
<1>8. ASSUME NEW t \in DOMAIN m'.tasks PROVE CardOf(t)'
  <2>1. t \in Sids /\ t \in DOMAIN m.tasks /\ CardOf(t)
    BY <1>1, <1>4 DEF LoopInv, MonitorType
  <2>2. CASE ~subscribed
    BY <2>1, <2>2, UnseenIsEmpty
  <2>3. CASE subscribed
    <3>1. Moves(Sids, m, m', s, Doing(s), Doing(s)')
      BY <2>3 DEF Follows
    <3>2. CASE t = s
      <4>1. m'.tasks[s].status = m.tasks[s].status
        BY <3>1, <3>2, <2>1 DEF Moves
      <4>2. Shows(m.tasks[s].steps, Doing(s))
        BY <3>2, <2>1, <1>3 DEF CardOf
      <4>3. Shows(m'.tasks[s].steps, Doing(s)')
        BY <4>2, <3>1, <3>2, <2>1 DEF Moves
      <4>. QED BY <3>2, <4>1, <4>3, <2>1, <1>2, <1>3 DEF CardOf
    <3>3. CASE t # s
      <4>1. m'.tasks[t] = m.tasks[t]
        BY <3>1, <3>3, <2>1 DEF Moves, Noted, Touches
      <4>2. Doing(t)' = Doing(t) /\ pc'[t] = pc[t]
        BY <3>3, <2>1, <1>2 DEF Doing
      <4>. QED BY <4>1, <4>2, <2>1 DEF CardOf
    <3>. QED BY <3>2, <3>3
  <2>. QED BY <2>2, <2>3
<1>9. FsmFollowsSession'
  <2>1. CASE ~subscribed
    <3>1. m'.session = {}
      BY <2>1, UnseenIsEmpty DEF Follows
    <3>. QED BY <3>1 DEF FsmFollowsSession
  <2>2. CASE subscribed
    <3>1. m'.session = {s} /\ m'.state = p
      BY <2>2 DEF Follows, Strip
    <3>. QED BY <3>1, <1>2 DEF FsmFollowsSession
  <2>. QED BY <2>1, <2>2
<1>10. GaugeCountsOpen'
  <2>1. OpenPrompts' = OpenPrompts
    <3>1. \A t \in Sids : pc'[t] = "new" <=> pc[t] = "new"
      BY <1>2, <1>3
    <3>. QED BY <3>1 DEF OpenPrompts
  <2>. QED BY <2>1, <1>4 DEF LoopInv, GaugeCountsOpen, OpenPrompts
<1>11. Unseen'
  BY DEF LoopInv, Unseen, Follows
<1>12. Bystanders(s)
  <2>1. CASE ~subscribed
    BY <2>1 DEF Follows, Bystanders
  <2>2. CASE subscribed
    BY <2>2, <1>4 DEF Follows, Moves, Noted, Touches, Bystanders
  <2>. QED BY <2>1, <2>2
<1>. QED BY <1>5, <1>6, <1>7, <1>8, <1>9, <1>10, <1>11, <1>12 DEF LoopInv

----------------------------------------------------------------------------
(* A session that ends, and what _replay does then. *)

\* The parts of Over.
Rest(s) == IF Restored(s) THEN Tail(backlog) ELSE <<>>
NextUp(s) == IF running /\ Rest(s) # <<>> THEN {Head(Rest(s))} ELSE {}
Refused(s) == IF running THEN {} ELSE Range(Rest(s))
Restore(s) ==
    IF running
    THEN [i \in 1..Cardinality(NextUp(s)) |-> Plain("session_restored", Rest(s)[i])]
         \o (IF NextUp(s) = {} THEN <<>> ELSE RoundStart(Head(Rest(s))))
    ELSE [i \in DOMAIN Rest(s) |-> Plain("session_restored", Rest(s)[i])]

LEMMA OverParts ==
    ASSUME NEW s \in Sids, NEW o, NEW events, Over(s, o, events)
    PROVE  /\ pc' = [t \in Sids |-> IF t = s \/ t \in Refused(s) THEN "over"
                                    ELSE IF t \in NextUp(s) THEN "llm" ELSE pc[t]]
           /\ outcome' = [t \in Sids |-> IF t = s THEN o
                                         ELSE IF t \in Refused(s) THEN "failed" ELSE outcome[t]]
           /\ round' = [t \in Sids |-> IF t \in NextUp(s) THEN 1 ELSE round[t]]
           /\ calls' = [calls EXCEPT ![s] = <<>>]
           /\ backlog' = IF Restored(s) THEN (IF running THEN Rest(s) ELSE <<>>) ELSE backlog
           /\ m' = IF subscribed THEN OnEvents(m, events \o Restore(s)) ELSE m
BY DEF Over, Rest, NextUp, Refused, Restore, Publish

\* The restored sessions that come next are waiting, and have no card.
LEMMA RestWaits ==
    ASSUME LoopInv, NEW s \in Sids, pc[s] \in {"created", "llm", "tool"}
    PROVE  /\ Rest(s) \in Seq(Sids) /\ IsInjective(Rest(s))
           /\ \A i \in DOMAIN Rest(s) :
                 /\ Rest(s)[i] \in Sids /\ Rest(s)[i] \in Range(Backlog)
                 /\ pc[Rest(s)[i]] = "waiting" /\ Rest(s)[i] # s
                 /\ Rest(s)[i] \notin DOMAIN m.tasks
           /\ Rest(s) # <<>> => Head(Rest(s)) = Rest(s)[1] /\ 1 \in DOMAIN Rest(s)
<1>1. backlog \in Seq(Sids) /\ Queue
  BY DEF LoopInv, TypeOK
<1>2. CASE ~ Restored(s)
  <2>1. Rest(s) = <<>>
    BY <1>2 DEF Rest
  <2> DEFINE none == <<>>
  <2>2. none \in Seq(Sids) /\ DOMAIN none = {}
    OBVIOUS
  <2>3. IsInjective(none)
    <3> HIDE DEF none
    <3>. QED BY <2>2 DEF IsInjective
  <2>. QED BY <2>1, <2>2, <2>3
<1>3. CASE Restored(s)
  <2>1. backlog # <<>> /\ s = backlog[1] /\ Rest(s) = Tail(backlog)
    BY <1>1, <1>3 DEF Restored, Rest
  <2>2. /\ Tail(backlog) \in Seq(Sids) /\ IsInjective(Tail(backlog))
        /\ Len(Tail(backlog)) = Len(backlog) - 1
    BY <1>1, <2>1, TailKeeps DEF Queue
  <2>3. /\ DOMAIN Tail(backlog) = 1..(Len(backlog) - 1)
        /\ \A i \in 1..(Len(backlog) - 1) : Tail(backlog)[i] = backlog[i + 1]
        /\ Len(backlog) \in Nat /\ DOMAIN backlog = 1..Len(backlog)
    BY <1>1, <2>1
  <2>4. ASSUME NEW i \in DOMAIN Tail(backlog)
        PROVE  /\ Tail(backlog)[i] \in Sids /\ Tail(backlog)[i] \in Range(Backlog)
               /\ pc[Tail(backlog)[i]] = "waiting" /\ Tail(backlog)[i] # s
               /\ Tail(backlog)[i] \notin DOMAIN m.tasks
    <3>1. i + 1 \in 1..Len(backlog) /\ i + 1 # 1 /\ Tail(backlog)[i] = backlog[i + 1]
      BY <2>3
    <3>2. backlog[i + 1] \in Sids /\ backlog[i + 1] \in Range(Backlog) /\ pc[backlog[i + 1]] = "waiting"
      BY <1>1, <2>3, <3>1 DEF Queue
    <3>3. backlog[i + 1] # s
      BY <3>2
    <3>4. backlog[i + 1] \notin DOMAIN m.tasks
      BY <3>2 DEF LoopInv, CardOf
    <3>. QED BY <3>1, <3>2, <3>3, <3>4
  <2>5. Tail(backlog) # <<>> => Head(Tail(backlog)) = Tail(backlog)[1] /\ 1 \in DOMAIN Tail(backlog)
    BY <2>2
  <2>. QED BY <2>1, <2>2, <2>4, <2>5
<1>. QED BY <1>2, <1>3

\* So are those that run next or are refused.
LEMMA NextWaits ==
    ASSUME LoopInv, NEW s \in Sids, pc[s] \in {"created", "llm", "tool"},
           NEW t, t \in NextUp(s) \/ t \in Refused(s)
    PROVE  /\ t \in Sids /\ t \in Range(Backlog) /\ t # s /\ t \notin DOMAIN m.tasks
           /\ pc[t] = "waiting" /\ outcome[t] = "none"
<1>1. PICK i \in DOMAIN Rest(s) : t = Rest(s)[i]
  <2>1. CASE t \in NextUp(s)
    BY <2>1, RestWaits DEF NextUp
  <2>2. CASE t \in Refused(s)
    BY <2>2 DEF Refused, Range
  <2>. QED BY <2>1, <2>2
<1>2. /\ t \in Sids /\ t \in Range(Backlog) /\ t # s /\ t \notin DOMAIN m.tasks
      /\ pc[t] = "waiting"
  BY <1>1, RestWaits
<1>3. outcome[t] = "none"
  BY <1>2 DEF LoopInv, Standing
<1>. QED BY <1>2, <1>3

\* Over moves the sessions and the queue as the invariant wants it.
LEMMA OverKeepsSessions ==
    ASSUME LoopInv, NEW s \in Sids, pc[s] \in {"created", "llm", "tool"},
           NEW o \in {"done", "failed"}, NEW events, Over(s, o, events)
    PROVE  /\ pc' \in [Sids -> {"new", "waiting", "created", "llm", "tool", "over"}]
           /\ outcome' \in [Sids -> {"none", "done", "failed"}]
           /\ round' \in [Sids -> 0..MaxRounds] /\ calls' \in [Sids -> Seq(STRING)]
           /\ backlog' \in Seq(Sids)
           /\ Queue' /\ \A t \in Sids : Standing(t)'
<1>1. /\ pc \in [Sids -> {"new", "waiting", "created", "llm", "tool", "over"}]
      /\ outcome \in [Sids -> {"none", "done", "failed"}]
      /\ round \in [Sids -> 0..MaxRounds]
      /\ calls \in [Sids -> Seq(STRING)] /\ backlog \in Seq(Sids)
  BY DEF LoopInv, TypeOK
<1>2. /\ \A t \in Sids : pc'[t] = IF t = s \/ t \in Refused(s) THEN "over"
                                  ELSE IF t \in NextUp(s) THEN "llm" ELSE pc[t]
      /\ \A t \in Sids : outcome'[t] = IF t = s THEN o
                                       ELSE IF t \in Refused(s) THEN "failed" ELSE outcome[t]
  BY OverParts
<1>3. /\ pc' \in [Sids -> {"new", "waiting", "created", "llm", "tool", "over"}]
      /\ outcome' \in [Sids -> {"none", "done", "failed"}]
  BY <1>1, OverParts
<1>4. round' \in [Sids -> 0..MaxRounds]
  <2>1. 1 \in 0..MaxRounds
    BY AgentAssumption
  <2>2. round' = [t \in Sids |-> IF t \in NextUp(s) THEN 1 ELSE round[t]]
    BY OverParts
  <2>. QED BY <2>1, <2>2, <1>1
<1>5. calls' \in [Sids -> Seq(STRING)] /\ \A t \in Sids : t # s => calls'[t] = calls[t]
  <2>1. calls' = [calls EXCEPT ![s] = <<>>]
    BY OverParts
  <2>2. <<>> \in Seq(STRING)
    OBVIOUS
  <2>. QED BY <2>1, <2>2, <1>1
<1>6. backlog' = IF Restored(s) THEN (IF running THEN Rest(s) ELSE <<>>) ELSE backlog
  BY OverParts
<1>7. backlog' \in Seq(Sids) /\ Queue'
  <2>1. CASE ~ Restored(s)
    <3>1. Rest(s) = <<>> /\ backlog' = backlog
      BY <2>1, <1>6 DEF Rest
    <3>2. NextUp(s) = {} /\ Refused(s) = {}
      <4>1. Range(<<>>) = {}
        BY DEF Range
      <4>. QED BY <3>1, <4>1 DEF NextUp, Refused
    <3>3. \A t \in Sids : t # s => pc'[t] = pc[t]
      BY <3>2, <1>2
    <3>4. ASSUME NEW i \in DOMAIN backlog PROVE backlog[i] # s /\ backlog[i] \in Sids
      <4>1. backlog[i] \in Sids /\ backlog # <<>> /\ Head(backlog) = backlog[1]
        BY <1>1
      <4>2. CASE i = 1
        BY <4>1, <4>2, <2>1 DEF Restored
      <4>3. CASE i # 1
        BY <4>1, <4>3 DEF LoopInv, Queue
      <4>. QED BY <4>1, <4>2, <4>3
    <3>. QED BY <3>1, <3>3, <3>4, <1>1 DEF LoopInv, Queue
  <2>2. CASE Restored(s) /\ ~running
    <3>1. backlog' = <<>>
      BY <2>2, <1>6
    <3> DEFINE none == <<>>
    <3>2. none \in Seq(Sids) /\ DOMAIN none = {}
      OBVIOUS
    <3>3. backlog' = none
      BY <3>1
    <3> HIDE DEF none
    <3>. QED BY <3>2, <3>3 DEF Queue, IsInjective
  <2>3. CASE Restored(s) /\ running
    <3>1. backlog' = Rest(s)
      BY <2>3, <1>6
    <3>2. PICK rest : rest = Rest(s)
      OBVIOUS
    <3>3. /\ rest \in Seq(Sids) /\ IsInjective(rest)
          /\ \A i \in DOMAIN rest : /\ rest[i] \in Sids /\ rest[i] \in Range(Backlog)
                                    /\ pc[rest[i]] = "waiting" /\ rest[i] # s
          /\ rest # <<>> => Head(rest) = rest[1] /\ 1 \in DOMAIN rest
      BY <3>2, RestWaits
    <3>4. Refused(s) = {}
      BY <2>3 DEF Refused
    <3>5. ASSUME NEW i \in DOMAIN rest
          PROVE  /\ i = 1 => pc'[rest[i]] = "llm"
                 /\ i # 1 => pc'[rest[i]] = "waiting"
      <4>1. rest # <<>>
        BY <3>3
      <4>2. NextUp(s) = {rest[1]}
        BY <4>1, <2>3, <3>2, <3>3 DEF NextUp
      <4>3. i # 1 => rest[i] # rest[1]
        BY <4>1, <3>3 DEF IsInjective
      <4>. QED BY <4>2, <4>3, <3>3, <3>4, <1>2
    <3>. QED BY <3>1, <3>2, <3>3, <3>5 DEF Queue
  <2>. QED BY <2>1, <2>2, <2>3
<1>8. ASSUME NEW t \in Sids PROVE Standing(t)'
  <2>1. Standing(t)
    BY DEF LoopInv
  <2>2. CASE t = s
    BY <2>1, <2>2, <1>2 DEF Standing
  <2>3. CASE t # s
    <3>1. CASE t \in Refused(s)
      BY <2>1, <2>3, <3>1, <1>2 DEF Standing
    <3>2. CASE t \notin Refused(s) /\ t \in NextUp(s)
      BY <2>1, <2>3, <3>2, <1>2, NextWaits DEF Standing
    <3>3. CASE t \notin Refused(s) /\ t \notin NextUp(s)
      BY <2>1, <2>3, <3>3, <1>2, <1>5 DEF Standing
    <3>. QED BY <3>1, <3>2, <3>3
  <2>. QED BY <2>2, <2>3
<1>. QED BY <1>3, <1>4, <1>5, <1>7, <1>8

\* What the monitor makes of the events of _replay.
LEMMA RestoreEffect ==
    ASSUME LoopInv, NEW s \in Sids, pc[s] \in {"created", "llm", "tool"},
           NEW mid, MonitorType(mid, Sids), Tidy(mid), DOMAIN mid.tasks = DOMAIN m.tasks,
           NEW new, new = OnEvents(mid, Restore(s))
    PROVE  /\ running => /\ Restores(Sids, mid, new, NextUp(s), Asking(Model))
                         /\ \/ new.session = mid.session /\ new.state = mid.state
                            \/ new.session \subseteq NextUp(s) /\ new.state = "llm"
           /\ ~running => /\ Restores(Sids, mid, new, Refused(s), Nothing)
                          /\ \/ new.session = mid.session /\ new.state = mid.state
                             \/ new.session \subseteq Refused(s)
<1>1. /\ Rest(s) \in Seq(Sids) /\ IsInjective(Rest(s))
      /\ \A i \in DOMAIN Rest(s) : Rest(s)[i] \in Sids /\ Rest(s)[i] \notin DOMAIN mid.tasks
      /\ Rest(s) # <<>> => Head(Rest(s)) = Rest(s)[1] /\ 1 \in DOMAIN Rest(s)
  BY RestWaits
<1>2. CASE ~running
  <2>1. PICK rest \in Seq(Sids) : rest = Rest(s)
    BY <1>1
  <2> DEFINE events == [i \in DOMAIN rest |-> Plain("session_restored", rest[i])]
  <2>2. events = Restore(s)
    BY <1>2, <2>1 DEF Restore
  <2>3. Len(rest) \in Nat /\ DOMAIN rest = 1..Len(rest)
    OBVIOUS
  <2>4. ASSUME NEW i \in DOMAIN rest
        PROVE  events[i].kind = "session_restored" /\ events[i].sid = rest[i]
    BY DEF Plain, Event
  <2>5. Len(events) = Len(rest)
    BY <2>3
  <2> HIDE DEF events
  <2>6. /\ Restores(Sids, mid, new, Range(rest), Nothing)
        /\ \/ new.session = mid.session /\ new.state = mid.state
           \/ new.session \subseteq Range(rest)
    <3>1. \A i \in DOMAIN rest : rest[i] \notin DOMAIN mid.tasks
      BY <1>1, <2>1
    <3>2. IsInjective(rest) /\ new = OnEvents(mid, events)
      BY <1>1, <2>1, <2>2
    <3>. QED BY <3>1, <3>2, <2>4, <2>5, AllRestored
  <2>. QED BY <1>2, <2>1, <2>6 DEF Refused
<1>3. CASE running /\ Rest(s) = <<>>
  <2>1. NextUp(s) = {}
    BY <1>3 DEF NextUp
  <2>2. Cardinality(NextUp(s)) = 0
    BY <2>1, FS_EmptySet
  <2>3. Restore(s) = <<>>
    <3>1. Restore(s) = [i \in 1..0 |-> Plain("session_restored", Rest(s)[i])] \o <<>>
      BY <1>3, <2>1, <2>2 DEF Restore
    <3>. QED BY <3>1
  <2>4. new = mid
    BY <2>3, OnEventsNone
  <2>5. Restores(Sids, mid, new, NextUp(s), Asking(Model))
    BY <2>4 DEF Restores
  <2>. QED BY <1>3, <2>4, <2>5
<1>4. CASE running /\ Rest(s) # <<>>
  <2>1. PICK h \in Sids : h = Rest(s)[1] /\ h = Head(Rest(s)) /\ h \notin DOMAIN mid.tasks
    BY <1>1, <1>4
  <2>2. NextUp(s) = {h}
    BY <1>4, <2>1 DEF NextUp
  <2>3. Cardinality(NextUp(s)) = 1
    BY <2>2, FS_Singleton
  <2> DEFINE e == Plain("session_restored", h)
             f == Plain("agent_round_start", h)
             g == LlmStart(h)
  <2>4. Restore(s) = <<e>> \o <<f, g>>
    <3>1. Restore(s) = [i \in 1..1 |-> Plain("session_restored", Rest(s)[i])] \o RoundStart(h)
      BY <1>4, <2>1, <2>2, <2>3 DEF Restore
    <3>2. [i \in 1..1 |-> Plain("session_restored", Rest(s)[i])] = <<e>>
      BY <2>1
    <3>3. RoundStart(h) = <<f, g>>
      BY DEF RoundStart
    <3>. QED BY <3>1, <3>2, <3>3
  <2>5. /\ e.kind = "session_restored" /\ e.sid = h
        /\ f.kind = "agent_round_start" /\ f.sid = h
        /\ g.kind = "llm_call_start" /\ g.sid = h /\ g.name = Model
        /\ Model \in STRING
    <3>1. e.kind = "session_restored" /\ e.sid = h
      BY PlainFields
    <3>2. f.kind = "agent_round_start" /\ f.sid = h
      BY PlainFields
    <3>3. g.kind = "llm_call_start" /\ g.sid = h /\ g.name = Model
      BY DEF LlmStart, Event
    <3>4. Model \in STRING
      BY AgentAssumption
    <3>. QED BY <3>1, <3>2, <3>3, <3>4
  <2> HIDE DEF e, f, g
  <2>6. new = OnEvents(OnEvent(mid, e), <<f, g>>)
    <3> DEFINE a == <<e>>
               b == <<f, g>>
    <3>1. PICK A, B : a \in Seq(A) /\ b \in Seq(B)
      <4>1. a \in Seq({e}) /\ b \in Seq({f, g})
        OBVIOUS
      <4> HIDE DEF a, b
      <4>. QED BY <4>1
    <3> HIDE DEF a, b
    <3>2. OnEvents(mid, a \o b) = OnEvents(OnEvents(mid, a), b)
      BY <3>1, OnEventsConcat
    <3>3. OnEvents(mid, a) = OnEvent(mid, e)
      BY OnEventsOne DEF a
    <3>. QED BY <2>4, <3>2, <3>3 DEF a, b
  <2>7. Restores(Sids, mid, new, {h}, Asking(Model)) /\ Strip(new, h, "llm")
    BY <2>1, <2>5, <2>6, OneRestored
  <2>. QED BY <1>4, <2>2, <2>7 DEF Strip
<1>. QED BY <1>2, <1>3, <1>4

LEMMA RestoreIsList ==
    ASSUME LoopInv, NEW s \in Sids, pc[s] \in {"created", "llm", "tool"}
    PROVE  \E B : Restore(s) \in Seq(B)
<1>1. Rest(s) \in Seq(Sids)
  BY RestWaits
<1>2. CASE ~running
  <2>1. PICK rest \in Seq(Sids) : rest = Rest(s)
    BY <1>1
  <2> DEFINE events == [i \in DOMAIN rest |-> Plain("session_restored", rest[i])]
             B == {Plain("session_restored", t) : t \in Sids}
  <2>2. Len(rest) \in Nat /\ DOMAIN rest = 1..Len(rest) /\ \A i \in DOMAIN rest : rest[i] \in Sids
    OBVIOUS
  <2>3. \A i \in DOMAIN rest : events[i] \in B
    BY <2>2
  <2>4. events = [i \in 1..Len(rest) |-> events[i]]
    BY <2>2
  <2>5. events \in Seq(B)
    <3> HIDE DEF events, B
    <3>. QED BY <2>2, <2>3, <2>4
  <2>. QED BY <2>1, <2>5, <1>2 DEF Restore
<1>3. CASE running
  <2>1. Cardinality(NextUp(s)) \in Nat
    <3>1. NextUp(s) = {} \/ \E h : NextUp(s) = {h}
      BY DEF NextUp
    <3>2. Cardinality(NextUp(s)) = 0 \/ Cardinality(NextUp(s)) = 1
      BY <3>1, FS_EmptySet, FS_Singleton
    <3>. QED BY <3>2
  <2> DEFINE n == Cardinality(NextUp(s))
             a == [i \in 1..n |-> Plain("session_restored", Rest(s)[i])]
             A == {Plain("session_restored", Rest(s)[i]) : i \in 1..n}
             h == Head(Rest(s))
             b == RoundStart(h)
             B == {Plain("agent_round_start", h), LlmStart(h)}
  <2>2. a \in Seq(A)
    <3>1. n \in Nat /\ \A i \in 1..n : a[i] \in A
      BY <2>1
    <3>2. a = [i \in 1..n |-> a[i]]
      OBVIOUS
    <3> HIDE DEF n, a, A
    <3>. QED BY <3>1, <3>2
  <2>3. b \in Seq(B) /\ <<>> \in Seq(B)
    BY DEF RoundStart
  <2>4. a \in Seq(A \cup B) /\ b \in Seq(A \cup B) /\ <<>> \in Seq(A \cup B)
    <3> HIDE DEF a, A, b, B
    <3>. QED BY <2>2, <2>3
  <2>5. Restore(s) = a \o (IF NextUp(s) = {} THEN <<>> ELSE b)
    BY <1>3 DEF Restore
  <2> HIDE DEF n, a, A, b, B
  <2>6. Restore(s) \in Seq(A \cup B)
    BY <2>4, <2>5
  <2>. QED BY <2>6
<1>. QED BY <1>2, <1>3

\* What the monitor shows when s has failed, and when it has given its reply.
Fails(s, mid) ==
    /\ MonitorType(mid, Sids) /\ Tidy(mid) /\ Touches(m, mid, s) /\ mid.active = m.active
    /\ s \in DOMAIN m.tasks => mid.tasks[s].status = m.tasks[s].status
    /\ \/ mid.session = {s}
       \/ mid.session = m.session /\ mid.state = m.state

Replies(s, mid) ==
    /\ MonitorType(mid, Sids) /\ Tidy(mid) /\ Touches(m, mid, s) /\ mid.active = m.active - 1
    /\ s \in DOMAIN m.tasks => mid.tasks[s].status = "done" /\ Shows(mid.tasks[s].steps, Nothing)
    /\ mid.session = {}

LEMMA OverKeeps ==
    ASSUME LoopInv, NEW s \in Sids, pc[s] \in {"created", "llm", "tool"},
           NEW o \in {"done", "failed"}, NEW A, NEW events \in Seq(A), Over(s, o, events),
           running' = running, subscribed' = subscribed,
           subscribed /\ o = "failed" => Fails(s, OnEvents(m, events)),
           subscribed /\ o = "done" => Replies(s, OnEvents(m, events))
    PROVE  LoopInv' /\ Bystanders(s)
<1> DEFINE mid == OnEvents(m, events)
<1>0. m' = IF subscribed THEN OnEvents(mid, Restore(s)) ELSE m
  <2>1. PICK B : Restore(s) \in Seq(B)
    BY RestoreIsList
  <2>2. OnEvents(m, events \o Restore(s)) = OnEvents(mid, Restore(s))
    BY <2>1, OnEventsConcat
  <2>. QED BY <2>2, OverParts
<1>1. /\ pc' \in [Sids -> {"new", "waiting", "created", "llm", "tool", "over"}]
      /\ outcome' \in [Sids -> {"none", "done", "failed"}]
      /\ round' \in [Sids -> 0..MaxRounds] /\ calls' \in [Sids -> Seq(STRING)]
      /\ backlog' \in Seq(Sids)
      /\ Queue' /\ \A t \in Sids : Standing(t)'
  BY OverKeepsSessions
<1>2. /\ \A t \in Sids : pc'[t] = IF t = s \/ t \in Refused(s) THEN "over"
                                  ELSE IF t \in NextUp(s) THEN "llm" ELSE pc[t]
      /\ \A t \in Sids : outcome'[t] = IF t = s THEN o
                                       ELSE IF t \in Refused(s) THEN "failed" ELSE outcome[t]
  BY OverParts
<1>3. \A t \in Sids : t # s => calls'[t] = calls[t]
  <2>1. calls' = [calls EXCEPT ![s] = <<>>] /\ calls \in [Sids -> Seq(STRING)]
    BY OverParts DEF LoopInv, TypeOK
  <2>. QED BY <2>1
<1>4. MonitorType(m, Sids) /\ Tidy(m) /\ DOMAIN m.tasks \subseteq Sids
  BY DEF LoopInv, TypeOK, MonitorType
<1>5. \A t : t \in NextUp(s) \/ t \in Refused(s) =>
         /\ t \in Sids /\ t \in Range(Backlog) /\ t # s /\ t \notin DOMAIN m.tasks
         /\ pc[t] = "waiting" /\ outcome[t] = "none"
  BY NextWaits
<1>6. outcome[s] = "none" /\ pc[s] \notin {"new", "waiting", "over"}
  BY DEF LoopInv, Standing
<1> DEFINE Told == /\ MonitorType(mid, Sids) /\ Tidy(mid) /\ Touches(m, mid, s)
                   /\ mid.active = IF o = "done" THEN m.active - 1 ELSE m.active
<1>7. ASSUME subscribed PROVE Told
  BY <1>7 DEF Fails, Replies
<1>8. ASSUME subscribed
      PROVE  /\ running => /\ Restores(Sids, mid, m', NextUp(s), Asking(Model))
                           /\ \/ m'.session = mid.session /\ m'.state = mid.state
                              \/ m'.session \subseteq NextUp(s) /\ m'.state = "llm"
             /\ ~running => /\ Restores(Sids, mid, m', Refused(s), Nothing)
                            /\ \/ m'.session = mid.session /\ m'.state = mid.state
                               \/ m'.session \subseteq Refused(s)
  <2>1. MonitorType(mid, Sids) /\ Tidy(mid) /\ DOMAIN mid.tasks = DOMAIN m.tasks
    BY <1>7, <1>8 DEF Touches
  <2>2. m' = OnEvents(mid, Restore(s))
    BY <1>0, <1>8
  <2> HIDE DEF mid
  <2>. QED BY <2>1, <2>2, RestoreEffect
<1>9. /\ MonitorType(m', Sids) /\ Tidy(m')
      /\ m'.active = IF subscribed /\ o = "done" THEN m.active - 1 ELSE m.active
  <2>1. CASE ~subscribed
    BY <2>1, <1>0, <1>4
  <2>2. CASE subscribed
    BY <2>2, <1>7, <1>8 DEF Restores
  <2>. QED BY <2>1, <2>2
<1>10. TypeOK'
  BY <1>1, <1>9 DEF TypeOK, LoopInv
<1>11. ASSUME NEW t \in DOMAIN m'.tasks PROVE CardOf(t)'
  <2>1. CASE ~subscribed
    BY <2>1, <1>0, UnseenIsEmpty
  <2>2. CASE subscribed
    <3>1. ASSUME t \in DOMAIN mid.tasks, m'.tasks[t] = mid.tasks[t] PROVE CardOf(t)'
      <4>1. t \in DOMAIN m.tasks /\ t \in Sids /\ CardOf(t)
        BY <2>2, <3>1, <1>4, <1>7 DEF Touches, LoopInv
      <4>2. CASE t # s
        <5>1. mid.tasks[t] = m.tasks[t]
          BY <2>2, <4>1, <4>2, <1>7 DEF Touches
        <5>2. t \notin NextUp(s) /\ t \notin Refused(s)
          BY <4>1, <1>5
        <5>3. pc'[t] = pc[t] /\ outcome'[t] = outcome[t] /\ calls'[t] = calls[t]
          BY <4>1, <4>2, <5>2, <1>2, <1>3
        <5>4. Doing(t)' = Doing(t)
          BY <5>3 DEF Doing
        <5>. QED BY <3>1, <4>1, <5>1, <5>3, <5>4 DEF CardOf
      <4>3. CASE t = s
        <5>1. pc'[s] = "over" /\ outcome'[s] = o
          BY <1>2
        <5>2. CASE o = "failed"
          <6>1. mid.tasks[s].status = m.tasks[s].status
            BY <2>2, <4>1, <4>3, <5>2 DEF Fails
          <6>2. m.tasks[s].status # "done"
            BY <4>1, <4>3, <1>6 DEF CardOf
          <6>. QED BY <3>1, <4>3, <5>1, <5>2, <6>1, <6>2 DEF CardOf
        <5>3. CASE o = "done"
          <6>1. mid.tasks[s].status = "done" /\ Shows(mid.tasks[s].steps, Nothing)
            BY <2>2, <4>1, <4>3, <5>3 DEF Replies
          <6>2. Doing(s)' = Nothing
            BY <5>1, DoingWillBe
          <6>. QED BY <3>1, <4>3, <5>1, <5>3, <6>1, <6>2 DEF CardOf
        <5>. QED BY <5>2, <5>3
      <4>. QED BY <4>2, <4>3
    <3>2. ASSUME running, t \in NextUp(s), m'.tasks[t].status = "running",
                 Shows(m'.tasks[t].steps, Asking(Model))
          PROVE  CardOf(t)'
      <4>1. t \in Sids /\ t # s /\ t \notin Refused(s) /\ outcome[t] = "none"
        BY <3>2, <1>5 DEF Refused
      <4>2. pc'[t] = "llm" /\ outcome'[t] = "none"
        BY <3>2, <4>1, <1>2
      <4>3. Doing(t)' = Asking(Model)
        BY <4>1, <4>2, DoingWillBe
      <4>. QED BY <3>2, <4>2, <4>3 DEF CardOf
    <3>3. ASSUME t \in Refused(s), m'.tasks[t].status = "running" PROVE CardOf(t)'
      <4>1. t \in Sids /\ t # s
        BY <3>3, <1>5
      <4>2. pc'[t] = "over" /\ outcome'[t] = "failed"
        BY <3>3, <4>1, <1>2
      <4>. QED BY <3>3, <4>2 DEF CardOf
    <3>4. CASE running
      BY <2>2, <3>1, <3>2, <3>4, <1>8 DEF Restores
    <3>5. CASE ~running
      BY <2>2, <3>1, <3>3, <3>5, <1>8 DEF Restores
    <3>. QED BY <3>4, <3>5
  <2>. QED BY <2>1, <2>2
<1>12. FsmFollowsSession'
  <2>1. SUFFICES ASSUME NEW t \in m'.session, outcome'[t] # "failed"
                 PROVE  /\ m'.state = "llm" => pc'[t] = "llm"
                        /\ m'.state = "tool" => pc'[t] = "tool"
                        /\ m'.state = "prompted" => pc'[t] = "created"
    BY DEF FsmFollowsSession
  <2>2. subscribed
    BY <1>0, UnseenIsEmpty
  <2>3. t \in Sids
    BY <1>9 DEF MonitorType
  <2>4. t \notin Refused(s)
    BY <2>1, <2>3, <1>2, <1>5
  <2>5. CASE t \in NextUp(s) /\ m'.state = "llm"
    BY <2>3, <2>4, <2>5, <1>2, <1>5
  <2>6. CASE m'.session = mid.session /\ m'.state = mid.state
    <3>1. o # "done"
      BY <2>1, <2>2, <2>6 DEF Replies
    <3>2. t # s
      BY <2>1, <3>1, <1>2
    <3>3. m'.session = m.session /\ m'.state = m.state
      BY <2>1, <2>2, <2>6, <3>1, <3>2 DEF Fails
    <3>4. /\ m.state = "llm" => pc[t] = "llm"
          /\ m.state = "tool" => pc[t] = "tool"
          /\ m.state = "prompted" => pc[t] = "created"
      <4>1. outcome[t] # "failed"
        BY <2>1, <2>3, <2>4, <3>2, <1>2
      <4>. QED BY <2>1, <3>3, <4>1 DEF LoopInv, FsmFollowsSession
    <3>5. t \in NextUp(s) => pc[t] = "waiting"
      BY <1>5
    <3>. QED BY <2>3, <2>4, <3>2, <3>3, <3>4, <3>5, <1>2
  <2>. QED BY <2>1, <2>2, <2>4, <2>5, <2>6, <1>8
<1>13. GaugeCountsOpen'
  <2>1. OpenPrompts \in SUBSET Sids
    BY DEF OpenPrompts
  <2>2. IsFiniteSet(OpenPrompts) /\ Cardinality(OpenPrompts) \in Nat /\ m.active \in Int
    BY <2>1, <1>4, OpenPromptsFinite DEF MonitorType
  <2>3. m.active <= Cardinality(OpenPrompts)
    BY DEF LoopInv, GaugeCountsOpen, OpenPrompts
  <2>4. ASSUME NEW t \in Sids
        PROVE  /\ pc'[t] = "new" <=> pc[t] = "new"
               /\ t # s => (outcome'[t] = "done" <=> outcome[t] = "done")
    BY <1>2, <1>5, <1>6
  <2>5. CASE o = "failed"
    <3>1. outcome'[s] # "done" /\ outcome[s] # "done"
      BY <2>5, <1>2, <1>6
    <3>2. OpenPrompts' = OpenPrompts
      BY <2>4, <3>1 DEF OpenPrompts
    <3>3. m'.active <= Cardinality(OpenPrompts')
      BY <2>3, <2>5, <3>2, <1>9
    <3>. QED BY <3>3 DEF GaugeCountsOpen, OpenPrompts
  <2>6. CASE o = "done"
    <3>1. outcome'[s] = "done" /\ outcome[s] = "none"
      BY <2>6, <1>2, <1>6
    <3>2. OpenPrompts' = OpenPrompts \ {s}
      BY <2>4, <3>1 DEF OpenPrompts
    <3>3. Cardinality(OpenPrompts') =
             IF s \in OpenPrompts THEN Cardinality(OpenPrompts) - 1 ELSE Cardinality(OpenPrompts)
      BY <2>2, <3>2, FS_RemoveElement
    <3>4. m'.active <= Cardinality(OpenPrompts')
      <4>1. CASE subscribed
        BY <4>1, <2>2, <2>3, <2>6, <3>3, <1>9
      <4>2. CASE ~subscribed
        <5>1. m'.active = 0
          BY <4>2, <1>0, UnseenIsEmpty
        <5>2. OpenPrompts' \in SUBSET Sids
          BY <2>1, <3>2
        <5>3. Cardinality(OpenPrompts') \in Nat
          BY <5>2, OpenPromptsFinite
        <5>. QED BY <5>1, <5>3
      <4>. QED BY <4>1, <4>2
    <3>. QED BY <3>4 DEF GaugeCountsOpen, OpenPrompts
  <2>. QED BY <2>5, <2>6
<1>14. Unseen'
  BY <1>0 DEF LoopInv, Unseen
<1>15. Bystanders(s)
  <2>1. CASE ~subscribed
    BY <2>1, <1>0 DEF Bystanders
  <2>2. CASE subscribed
    <3>1. /\ DOMAIN mid.tasks = DOMAIN m.tasks
          /\ \A t \in DOMAIN m.tasks : t # s => mid.tasks[t] = m.tasks[t]
      BY <2>2, <1>7 DEF Touches
    <3>2. ASSUME NEW t \in DOMAIN m'.tasks
          PROVE  \/ t \in DOMAIN mid.tasks /\ m'.tasks[t] = mid.tasks[t]
                 \/ /\ t \in NextUp(s) \/ t \in Refused(s)
                    /\ EndedCalls(m'.tasks[t].steps) = {}
      <4> HIDE DEF mid
      <4>1. CASE running
        BY <4>1, <2>2, <1>8 DEF Restores
      <4>2. CASE ~running
        BY <4>2, <2>2, <1>8 DEF Restores
      <4>. QED BY <4>1, <4>2
    <3> HIDE DEF mid
    <3>. QED BY <3>1, <3>2, <1>5 DEF Bystanders
  <2>. QED BY <2>1, <2>2
<1>. QED BY <1>1, <1>10, <1>11, <1>12, <1>13, <1>14, <1>15 DEF LoopInv

----------------------------------------------------------------------------
(* The steps of handle: the event e closes what the session does. *)

Closing(s, e) ==
    subscribed => /\ Moves(Sids, m, OnEvent(m, e), s, Doing(s), Nothing)
                  /\ Strip(OnEvent(m, e), s, "prompted")
                  /\ Ends(m, OnEvent(m, e), s, Doing(s), e)

LEMMA ClosedAndOpened ==
    ASSUME LoopInv, NEW s \in Sids, pc[s] \in {"created", "llm", "tool"}, NEW e, Closing(s, e),
           NEW d \in StepType, d.ok = "open",
           subscribed /\ s \in DOMAIN m.tasks
           => m'.tasks[s].steps = Append(OnEvent(m, e).tasks[s].steps, d)
    PROVE  Proceeds(s, e.ok)
<1>1. SUFFICES ASSUME s \in DOMAIN m.tasks PROVE Opens(m'.tasks[s].steps, Closed(m.tasks[s].steps, e.ok))
  BY DEF Proceeds
<1>2. subscribed
  BY <1>1, UnseenIsEmpty
<1>3. outcome[s] = "none" /\ CardOf(s)
  BY <1>1 DEF LoopInv, Standing
<1>4. Shows(m.tasks[s].steps, Doing(s))
  BY <1>3 DEF CardOf
<1>5. OnEvent(m, e).tasks[s].steps = Closed(m.tasks[s].steps, e.ok)
  BY <1>1, <1>2, <1>4 DEF Closing, Ends
<1>. QED BY <1>1, <1>2, <1>5 DEF Opens

LEMMA OverIsOver ==
    ASSUME LoopInv, NEW s \in Sids, pc[s] \in {"created", "llm", "tool"}, NEW o, NEW events,
           Over(s, o, events), NEW ok
    PROVE  Proceeds(s, ok) /\ Starts(s)
<1>1. pc'[s] = "over"
  BY OverParts
<1>. QED BY <1>1 DEF Proceeds, Starts

LEMMA MovesFails ==
    ASSUME NEW s, NEW mid, NEW from, NEW to, NEW st, Moves(Sids, m, mid, s, from, to), Strip(mid, s, st)
    PROVE  Fails(s, mid)
<1>1. Noted(Sids, m, mid, s) /\ (s \in DOMAIN m.tasks => mid.tasks[s].status = m.tasks[s].status)
  BY DEF Moves
<1>2. mid.session = {s}
  BY DEF Strip
<1>3. /\ MonitorType(mid, Sids) /\ Tidy(mid) /\ Touches(m, mid, s)
      /\ mid.active = m.active
  BY <1>1 DEF Noted
<1>. QED BY <1>1, <1>2, <1>3 DEF Fails

LEMMA LlmEndCloses ==
    ASSUME LoopInv, NEW s \in Sids, pc[s] = "llm", NEW ok, NEW e, e = LlmEnd(s, ok)
    PROVE  Closing(s, e)
<1>1. e.kind = "llm_call_end" /\ e.sid = s /\ e.name = Model
  BY DEF LlmEnd, Event
<1>2. MonitorType(m, Sids) /\ Tidy(m) /\ Model \in STRING
  BY AgentAssumption DEF LoopInv, TypeOK
<1>3. Doing(s) = Asking(Model)
  BY DoingIs
<1>4. Moves(Sids, m, OnEvent(m, e), s, Asking(Model), Nothing)
      /\ Strip(OnEvent(m, e), s, "prompted")
      /\ Ends(m, OnEvent(m, e), s, Asking(Model), e)
  BY <1>1, <1>2, LlmEndMoves
<1>. QED BY <1>3, <1>4 DEF Closing

LEMMA ToolEndCloses ==
    ASSUME LoopInv, NEW s \in Sids, pc[s] = "tool", NEW ok,
           NEW e, e = Event("tool_call_end", s, Head(calls[s]), ok)
    PROVE  Closing(s, e)
<1>1. calls[s] \in Seq(STRING) /\ calls[s] # <<>>
  BY DEF LoopInv, TypeOK, Standing
<1>2. PICK name \in STRING : name = Head(calls[s])
  <2>1. Head(calls[s]) \in STRING
    BY <1>1, HeadAndTail
  <2>. QED BY <2>1
<1>3. e.kind = "tool_call_end" /\ e.sid = s /\ e.name = name
  BY <1>2 DEF Event
<1>4. MonitorType(m, Sids) /\ Tidy(m)
  BY DEF LoopInv, TypeOK
<1>5. Doing(s) = Using(name)
  BY <1>2, DoingIs
<1>6. Moves(Sids, m, OnEvent(m, e), s, Using(name), Nothing)
      /\ Strip(OnEvent(m, e), s, "prompted")
      /\ Ends(m, OnEvent(m, e), s, Using(name), e)
  BY <1>3, <1>4, ToolEndMoves
<1>. QED BY <1>5, <1>6 DEF Closing

LEMMA FailKeeps ==
    ASSUME LoopInv, NEW s \in Sids, pc[s] \in {"created", "llm", "tool"},
           NEW e, subscribed => Fails(s, OnEvent(m, e)), Over(s, "failed", <<e>>),
           running' = running, subscribed' = subscribed
    PROVE  LoopInv' /\ Bystanders(s)
<1> DEFINE events == <<e>>
<1>1. PICK A : events \in Seq(A)
  <2>1. events \in Seq({e})
    OBVIOUS
  <2>. QED BY <2>1
<1>2. OnEvents(m, events) = OnEvent(m, e)
  BY OnEventsOne
<1>3. PICK o \in {"done", "failed"} : o = "failed"
  OBVIOUS
<1>4. Over(s, o, events)
  BY <1>3
<1> HIDE DEF events
<1>5. subscribed => Fails(s, OnEvents(m, events))
  BY <1>2
<1>6. o # "done"
  BY <1>3
<1>. QED BY <1>1, <1>4, <1>5, <1>6, OverKeeps

\* That is also how a session ends that publishes nothing more.
LEMMA SilentKeeps ==
    ASSUME LoopInv, NEW s \in Sids, pc[s] \in {"created", "llm", "tool"}, Over(s, "failed", <<>>),
           running' = running, subscribed' = subscribed
    PROVE  LoopInv' /\ Bystanders(s)
<1> DEFINE events == <<>>
<1>1. PICK A : events \in Seq(A)
  <2>1. events \in Seq({})
    OBVIOUS
  <2>. QED BY <2>1
<1>2. OnEvents(m, events) = m
  BY OnEventsNone
<1>3. PICK o \in {"done", "failed"} : o = "failed"
  OBVIOUS
<1>4. Over(s, o, events)
  BY <1>3
<1> HIDE DEF events
<1>5. Fails(s, m)
  BY DEF Fails, Touches, LoopInv, TypeOK
<1>6. o # "done"
  BY <1>3
<1>. QED BY <1>1, <1>2, <1>4, <1>5, <1>6, OverKeeps

LEMMA LeaveKeeps ==
    ASSUME LoopInv, NEW s \in Sids, pc[s] \in {"created", "llm", "tool"},
           NEW e, Closing(s, e), Leave(s, <<e>>), running' = running, subscribed' = subscribed
    PROVE  LoopInv' /\ Bystanders(s) /\ Proceeds(s, e.ok)
<1>1. CASE Over(s, "failed", <<e>>)
  <2>1. subscribed => Fails(s, OnEvent(m, e))
    BY MovesFails DEF Closing
  <2>. QED BY <2>1, <1>1, FailKeeps, OverIsOver
<1>2. CASE Over(s, "done", <<e>> \o RoundEnd(s))
  <2>4. PICK f : RoundEnd(s) = <<f>> /\ f.kind = "agent_round_end" /\ f.sid = s /\ f.ok
    <3> DEFINE end == Event("agent_round_end", s, "", TRUE)
    <3>1. RoundEnd(s) = <<end>>
      BY DEF RoundEnd
    <3>2. end.kind = "agent_round_end" /\ end.sid = s /\ end.ok
      BY Zenon DEF Event
    <3> HIDE DEF end
    <3>. QED BY <3>1, <3>2
  <2> DEFINE events == <<e, f>>
             mid == OnEvent(m, e)
             new == OnEvent(mid, f)
  <2>1. <<e>> \o RoundEnd(s) = events
    BY <2>4, AppendOne
  <2>2. PICK A : events \in Seq(A)
    BY TwoEvents
  <2>3. OnEvents(m, events) = new
    BY OnEventsTwo
  <2> HIDE DEF events
  <2>5. ASSUME subscribed PROVE Replies(s, new)
    <3>1. Moves(Sids, m, mid, s, Doing(s), Nothing)
      BY <2>5 DEF Closing
    <3>2. Noted(Sids, m, mid, s) /\ DOMAIN mid.tasks = DOMAIN m.tasks
      BY <3>1 DEF Moves, Noted, Touches
    <3>3. MonitorType(mid, Sids) /\ Tidy(mid)
      BY <3>2 DEF Noted
    <3>4. new = OnEvent(mid, f)
      OBVIOUS
    <3> HIDE DEF mid, new
    <3>5. /\ MonitorType(new, Sids) /\ Tidy(new) /\ Touches(mid, new, s)
          /\ new.active = mid.active - 1 /\ new.session = {}
          /\ s \in DOMAIN mid.tasks => /\ new.tasks[s].status = "done"
                                       /\ new.tasks[s].steps = mid.tasks[s].steps
      BY <2>4, <3>3, <3>4, RoundEndEffect
    <3>6. Touches(m, new, s) /\ new.active = m.active - 1
      BY <3>2, <3>5 DEF Noted, Touches
    <3>7. ASSUME s \in DOMAIN m.tasks PROVE Shows(new.tasks[s].steps, Nothing)
      <4>1. outcome[s] = "none" /\ CardOf(s)
        BY <3>7 DEF LoopInv, Standing
      <4>2. Shows(m.tasks[s].steps, Doing(s))
        BY <4>1 DEF CardOf
      <4>3. Shows(mid.tasks[s].steps, Nothing)
        BY <3>1, <3>7, <4>2 DEF Moves
      <4>. QED BY <3>2, <3>5, <3>7, <4>3
    <3>. QED BY <3>2, <3>5, <3>6, <3>7 DEF Replies
  <2> HIDE DEF new
  <2>6. PICK o \in {"done", "failed"} : o = "done"
    OBVIOUS
  <2>7. Over(s, o, events) /\ o # "failed"
    BY <1>2, <2>1, <2>6
  <2>8. subscribed => Replies(s, OnEvents(m, events))
    BY <2>3, <2>5
  <2>. QED BY <2>2, <2>7, <2>8, OverKeeps, OverIsOver
<1>. QED BY <1>1, <1>2 DEF Leave

LEMMA InvokeKeeps ==
    ASSUME LoopInv, NEW s \in Sids, pc[s] \in {"created", "llm", "tool"},
           NEW e, Closing(s, e), NEW plan \in Seq(STRING), plan # <<>>, Invoke(s, plan, <<e>>),
           running' = running, subscribed' = subscribed
    PROVE  LoopInv' /\ Bystanders(s) /\ Proceeds(s, e.ok)
<1>1. /\ pc' = [pc EXCEPT ![s] = "tool"] /\ calls' = [calls EXCEPT ![s] = plan]
      /\ outcome' = outcome /\ round' = round /\ backlog' = backlog
      /\ m' = IF subscribed THEN OnEvents(m, Append(<<e>>, ToolStart(s, Head(plan)))) ELSE m
  BY DEF Invoke, Publish
<1>2. PICK name \in STRING : name = Head(plan)
  <2>1. Head(plan) \in STRING
    BY HeadAndTail
  <2>. QED BY <2>1
<1> DEFINE f == ToolStart(s, name)
           mid == OnEvent(m, e)
<1>3. subscribed => m' = OnEvent(mid, f)
  <2>1. Append(<<e>>, ToolStart(s, Head(plan))) = <<e, f>>
    BY <1>2, AppendOne
  <2> HIDE DEF f
  <2>2. OnEvents(m, <<e, f>>) = OnEvent(mid, f)
    BY OnEventsTwo
  <2>. QED BY <1>1, <2>1, <2>2
<1>4. f.kind = "tool_call_start" /\ f.sid = s /\ f.name = name
  BY DEF ToolStart, Event
<1> HIDE DEF f
<1>5. Doing(s)' = Using(name)
  <2>1. pc \in [Sids -> {"new", "waiting", "created", "llm", "tool", "over"}]
        /\ calls \in [Sids -> Seq(STRING)]
    BY DEF LoopInv, TypeOK
  <2>2. pc'[s] = "tool" /\ calls'[s] = plan
    BY <1>1, <2>1
  <2>. QED BY <2>2, <1>2, DoingWillBe
<1>6. Follows(s, Doing(s)', "tool")
  <2>1. CASE ~subscribed
    BY <2>1, <1>1 DEF Follows
  <2>2. CASE subscribed
    <3>1. Moves(Sids, m, mid, s, Doing(s), Nothing)
      BY <2>2 DEF Closing
    <3>2. MonitorType(mid, Sids) /\ Tidy(mid)
      BY <3>1 DEF Moves, Noted
    <3> HIDE DEF mid
    <3>3. Moves(Sids, mid, m', s, Nothing, Using(name)) /\ Strip(m', s, "tool")
      BY <2>2, <1>3, <1>4, <3>2, ToolStartMoves
    <3>4. Moves(Sids, m, m', s, Doing(s), Using(name))
      BY <3>1, <3>3, MovesOn
    <3>. QED BY <2>2, <3>3, <3>4, <1>5 DEF Follows
  <2>. QED BY <2>1, <2>2
<1>7. round' \in [Sids -> 0..MaxRounds]
  BY <1>1 DEF LoopInv, TypeOK
<1>8. PICK p \in {"llm", "tool"} : p = "tool"
  OBVIOUS
<1>9. pc' = [pc EXCEPT ![s] = p] /\ Follows(s, Doing(s)', p)
  BY <1>1, <1>6, <1>8
<1>10. Proceeds(s, e.ok)
  <2>1. PICK d \in StepType : d = OpenStep("tool_call", name) /\ d.ok = "open"
    <3>1. OpenStep("tool_call", name) \in StepType /\ OpenStep("tool_call", name).ok = "open"
      BY DEF OpenStep, StepType
    <3>. QED BY <3>1
  <2>2. ASSUME subscribed, s \in DOMAIN m.tasks
        PROVE  m'.tasks[s].steps = Append(mid.tasks[s].steps, d)
    <3>1. Moves(Sids, m, mid, s, Doing(s), Nothing)
      BY <2>2 DEF Closing
    <3>2. MonitorType(mid, Sids) /\ Tidy(mid) /\ DOMAIN mid.tasks = DOMAIN m.tasks
      BY <3>1 DEF Moves, Noted, Touches
    <3>3. m' = OnEvent(mid, f)
      BY <2>2, <1>3
    <3> HIDE DEF mid
    <3>4. /\ Moves(Sids, mid, m', s, Nothing, Using(name)) /\ Strip(m', s, "tool")
          /\ Uses(mid, m', s, name)
      BY <3>2, <3>3, <1>4, ToolStartMoves
    <3>. QED BY <2>1, <2>2, <3>2, <3>4 DEF Uses
  <2>. QED BY <2>1, <2>2, ClosedAndOpened
<1>. QED BY <1>1, <1>7, <1>9, <1>10, GoesOnKeeps

LEMMA NextRoundKeeps ==
    ASSUME LoopInv, NEW s \in Sids, pc[s] = "tool",
           NEW e, Closing(s, e), NextRound(s, <<e>>), running' = running, subscribed' = subscribed
    PROVE  LoopInv' /\ Bystanders(s) /\ Proceeds(s, e.ok)
<1>1. CASE round[s] = MaxRounds /\ Leave(s, <<e>>)
  BY <1>1, LeaveKeeps
<1>2. CASE /\ round[s] < MaxRounds
           /\ pc' = [pc EXCEPT ![s] = "llm"]
           /\ round' = [round EXCEPT ![s] = @ + 1]
           /\ calls' = [calls EXCEPT ![s] = <<>>]
           /\ Publish(Append(<<e>>, LlmStart(s)))
           /\ UNCHANGED <<outcome, backlog>>
  <2> DEFINE f == LlmStart(s)
             mid == OnEvent(m, e)
  <2>1. subscribed => m' = OnEvent(mid, f)
    <3>1. m' = IF subscribed THEN OnEvents(m, Append(<<e>>, f)) ELSE m
      BY <1>2 DEF Publish
    <3>2. Append(<<e>>, f) = <<e, f>>
      BY AppendOne
    <3> HIDE DEF f
    <3>3. OnEvents(m, <<e, f>>) = OnEvent(mid, f)
      BY OnEventsTwo
    <3>. QED BY <3>1, <3>2, <3>3
  <2>2. f.kind = "llm_call_start" /\ f.sid = s /\ f.name = Model
    BY DEF LlmStart, Event
  <2> HIDE DEF f
  <2>3. pc'[s] = "llm" /\ round' \in [Sids -> 0..MaxRounds]
    <3>1. /\ pc \in [Sids -> {"new", "waiting", "created", "llm", "tool", "over"}]
          /\ round \in [Sids -> 0..MaxRounds]
      BY DEF LoopInv, TypeOK
    <3>2. round[s] \in 0..MaxRounds /\ round[s] + 1 \in 0..MaxRounds
      BY <1>2, <3>1, AgentAssumption
    <3>. QED BY <1>2, <3>1, <3>2
  <2>4. Doing(s)' = Asking(Model)
    BY <2>3, DoingWillBe
  <2>5. Follows(s, Doing(s)', "llm")
    <3>1. CASE ~subscribed
      BY <3>1, <1>2 DEF Follows, Publish
    <3>2. CASE subscribed
      <4>1. Moves(Sids, m, mid, s, Doing(s), Nothing)
        BY <3>2 DEF Closing
      <4>2. MonitorType(mid, Sids) /\ Tidy(mid) /\ Model \in STRING
        BY <4>1, AgentAssumption DEF Moves, Noted
      <4> HIDE DEF mid
      <4>3. Moves(Sids, mid, m', s, Nothing, Asking(Model)) /\ Strip(m', s, "llm")
        BY <3>2, <2>1, <2>2, <4>2, LlmStartMoves
      <4>4. Moves(Sids, m, m', s, Doing(s), Asking(Model))
        BY <4>1, <4>3, MovesOn
      <4>. QED BY <3>2, <4>3, <4>4, <2>4 DEF Follows
    <3>. QED BY <3>1, <3>2
  <2>6. PICK p \in {"llm", "tool"} : p = "llm"
    OBVIOUS
  <2>7. pc' = [pc EXCEPT ![s] = p] /\ Follows(s, Doing(s)', p) /\ p # "tool"
    BY <1>2, <2>5, <2>6
  <2>8. PICK plan \in Seq(STRING) : plan = <<>>
    <3>1. <<>> \in Seq(STRING)
      OBVIOUS
    <3>. QED BY <3>1
  <2>9. calls' = [calls EXCEPT ![s] = plan] /\ outcome' = outcome /\ backlog' = backlog
    BY <1>2, <2>8
  <2>10. Proceeds(s, e.ok)
    <3>1. PICK d \in StepType : d = OpenStep("llm_call", Model) /\ d.ok = "open"
      <4>1. OpenStep("llm_call", Model) \in StepType /\ OpenStep("llm_call", Model).ok = "open"
        BY AgentAssumption DEF OpenStep, StepType
      <4>. QED BY <4>1
    <3>2. ASSUME subscribed, s \in DOMAIN m.tasks
          PROVE  m'.tasks[s].steps = Append(mid.tasks[s].steps, d)
      <4>1. Moves(Sids, m, mid, s, Doing(s), Nothing)
        BY <3>2 DEF Closing
      <4>2. /\ MonitorType(mid, Sids) /\ Tidy(mid) /\ DOMAIN mid.tasks = DOMAIN m.tasks
            /\ Model \in STRING
        BY <4>1, AgentAssumption DEF Moves, Noted, Touches
      <4>3. m' = OnEvent(mid, f)
        BY <3>2, <2>1
      <4> HIDE DEF mid
      <4>4. /\ Moves(Sids, mid, m', s, Nothing, Asking(Model)) /\ Strip(m', s, "llm")
            /\ Asks(mid, m', s, Model)
        BY <4>2, <4>3, <2>2, LlmStartMoves
      <4>. QED BY <3>1, <3>2, <4>2, <4>4 DEF Asks
    <3>. QED BY <3>1, <3>2, ClosedAndOpened
  <2>. QED BY <2>3, <2>7, <2>9, <2>10, GoesOnKeeps
<1>. QED BY <1>1, <1>2 DEF NextRound

LEMMA BeginKeeps ==
    ASSUME LoopInv, NEW s \in Sids, Begin(s)
    PROVE  LoopInv' /\ Bystanders(s) /\ Starts(s)
<1>1. pc[s] = "created" /\ running' = running /\ subscribed' = subscribed
  BY DEF Begin
<1>2. MonitorType(m, Sids) /\ Tidy(m) /\ Model \in STRING
  BY AgentAssumption DEF LoopInv, TypeOK
<1> DEFINE e == Plain("agent_round_start", s)
           f == LlmStart(s)
<1>3. e.kind = "agent_round_start" /\ e.sid = s
  BY PlainFields
<1>4. f.kind = "llm_call_start" /\ f.sid = s /\ f.name = Model
  BY DEF LlmStart, Event
<1>5. RoundStart(s) = <<e, f>>
  BY DEF RoundStart
<1>6. CASE /\ pc' = [pc EXCEPT ![s] = "llm"]
           /\ round' = [round EXCEPT ![s] = 1]
           /\ Publish(RoundStart(s))
           /\ UNCHANGED <<outcome, calls, backlog>>
  <2>1. /\ pc \in [Sids -> {"new", "waiting", "created", "llm", "tool", "over"}]
        /\ round \in [Sids -> 0..MaxRounds] /\ calls \in [Sids -> Seq(STRING)]
        /\ 1 \in 0..MaxRounds
    BY AgentAssumption DEF LoopInv, TypeOK
  <2>2. pc'[s] = "llm" /\ round' \in [Sids -> 0..MaxRounds]
    BY <1>6, <2>1
  <2>3. Doing(s)' = Asking(Model) /\ Doing(s) = Nothing
    BY <1>1, <2>2, DoingIs, DoingWillBe
  <2>4. m' = IF subscribed THEN OnEvents(m, <<e, f>>) ELSE m
    BY <1>5, <1>6 DEF Publish
  <2> HIDE DEF e, f
  <2>5. Follows(s, Doing(s)', "llm")
    <3>1. CASE ~subscribed
      BY <3>1, <2>4 DEF Follows
    <3>2. CASE subscribed
      <4>1. m' = OnEvents(m, <<e, f>>)
        BY <3>2, <2>4
      <4>2. Moves(Sids, m, m', s, Nothing, Asking(Model)) /\ Strip(m', s, "llm")
        BY <4>1, <1>2, <1>3, <1>4, RoundStartMoves
      <4>. QED BY <3>2, <4>2, <2>3 DEF Follows
    <3>. QED BY <3>1, <3>2
  <2>6. PICK p \in {"llm", "tool"} : p = "llm"
    OBVIOUS
  <2>7. pc' = [pc EXCEPT ![s] = p] /\ Follows(s, Doing(s)', p) /\ p # "tool"
    BY <1>6, <2>5, <2>6
  <2>8. PICK plan \in Seq(STRING) : plan = calls[s]
    BY <2>1
  <2>9. calls' = [calls EXCEPT ![s] = plan] /\ outcome' = outcome /\ backlog' = backlog
    BY <1>6, <2>1, <2>8
  <2>10. Starts(s)
    <3>1. ASSUME s \in DOMAIN m.tasks PROVE Opens(m'.tasks[s].steps, m.tasks[s].steps)
      <4>1. m' = OnEvents(m, <<e, f>>)
        BY <3>1, <2>4, UnseenIsEmpty
      <4>2. /\ Moves(Sids, m, m', s, Nothing, Asking(Model)) /\ Strip(m', s, "llm")
            /\ Asks(m, m', s, Model)
        BY <4>1, <1>2, <1>3, <1>4, RoundStartMoves
      <4>3. OpenStep("llm_call", Model) \in StepType /\ OpenStep("llm_call", Model).ok = "open"
        BY <1>2 DEF OpenStep, StepType
      <4>. QED BY <3>1, <4>2, <4>3 DEF Asks, Opens
    <3>. QED BY <3>1 DEF Starts
  <2>. QED BY <1>1, <2>2, <2>7, <2>9, <2>10, GoesOnKeeps
<1>7. CASE Over(s, "failed", <<>>)
  BY <1>1, <1>7, SilentKeeps, OverIsOver
<1>8. CASE Over(s, "failed", <<e>>)
  <2> DEFINE mid == OnEvent(m, e)
  <2>1. Over(s, "failed", <<e>>)
    BY <1>8
  <2> HIDE DEF e
  <2>2. Noted(Sids, m, mid, s) /\ mid.tasks = m.tasks /\ mid.session = {s}
    BY <1>2, <1>3, RoundStartEffect
  <2>3. Fails(s, mid)
    <3> HIDE DEF mid
    <3>. QED BY <2>2 DEF Noted, Fails
  <2>. QED BY <1>1, <2>1, <2>3, FailKeeps, OverIsOver
<1>. QED BY <1>6, <1>7, <1>8 DEF Begin

\* For any list of tool names in an answer: AgentTurn takes them from a message.
LEMMA AnsweredKeeps ==
    ASSUME LoopInv, NEW s \in Sids, NEW plan \in Seq(STRING), Answered(s, plan)
    PROVE  LoopInv' /\ Bystanders(s) /\ Proceeds(s, TRUE)
<1>1. pc[s] = "llm" /\ running' = running /\ subscribed' = subscribed
  BY DEF Answered
<1>2. PICK e : e = LlmEnd(s, TRUE)
  OBVIOUS
<1>3. e.ok = TRUE
  BY <1>2, Zenon DEF LlmEnd, Event
<1>4. Closing(s, e)
  BY <1>1, <1>2, LlmEndCloses
<1>5. ASSUME plan = <<>>
      PROVE  LoopInv' /\ Bystanders(s) /\ Proceeds(s, e.ok)
  <2>1. Leave(s, <<e>>)
    BY <1>2, <1>5 DEF Answered
  <2>. QED BY <2>1, <1>1, <1>4, LeaveKeeps
<1>6. ASSUME plan # <<>>
      PROVE  LoopInv' /\ Bystanders(s) /\ Proceeds(s, e.ok)
  <2>1. Invoke(s, plan, <<e>>)
    BY <1>2, <1>6 DEF Answered
  <2>. QED BY <2>1, <1>1, <1>4, <1>6, InvokeKeeps
<1>7. LoopInv' /\ Bystanders(s) /\ Proceeds(s, e.ok)
  BY <1>5, <1>6
<1>. QED BY <1>3, <1>7, Zenon

LEMMA LlmFailsKeeps ==
    ASSUME LoopInv, NEW s \in Sids, LlmFails(s)
    PROVE  LoopInv' /\ Bystanders(s)
<1>1. pc[s] = "llm" /\ running' = running /\ subscribed' = subscribed
  BY DEF LlmFails
<1>2. PICK e : e = LlmEnd(s, FALSE)
  OBVIOUS
<1>3. Closing(s, e)
  BY <1>1, <1>2, LlmEndCloses
<1>4. Over(s, "failed", <<e>>)
  BY <1>2 DEF LlmFails
<1>5. subscribed => Fails(s, OnEvent(m, e))
  BY <1>3, MovesFails DEF Closing
<1>. QED BY <1>1, <1>4, <1>5, FailKeeps

LEMMA InvokedKeeps ==
    ASSUME LoopInv, NEW s \in Sids, NEW ok, Invoked(s, ok)
    PROVE  LoopInv' /\ Bystanders(s) /\ Proceeds(s, ok)
<1>1. pc[s] = "tool" /\ running' = running /\ subscribed' = subscribed
  BY DEF Invoked
<1>2. PICK e : e = Event("tool_call_end", s, Head(calls[s]), ok)
  OBVIOUS
<1>3. e.ok = ok
  BY <1>2, Zenon DEF Event
<1>4. Closing(s, e)
  BY <1>1, <1>2, ToolEndCloses
<1>5. Tail(calls[s]) \in Seq(STRING)
  <2>1. calls[s] \in Seq(STRING) /\ calls[s] # <<>>
    BY <1>1 DEF LoopInv, TypeOK, Standing
  <2>. QED BY <2>1, HeadAndTail
<1>6. ASSUME Tail(calls[s]) # <<>>
      PROVE  LoopInv' /\ Bystanders(s) /\ Proceeds(s, e.ok)
  <2>1. Invoke(s, Tail(calls[s]), <<e>>)
    BY <1>2, <1>6 DEF Invoked
  <2>. QED BY <2>1, <1>1, <1>4, <1>5, <1>6, InvokeKeeps
<1>7. ASSUME Tail(calls[s]) = <<>>
      PROVE  LoopInv' /\ Bystanders(s) /\ Proceeds(s, e.ok)
  <2>1. NextRound(s, <<e>>)
    BY <1>2, <1>7 DEF Invoked
  <2>. QED BY <2>1, <1>1, <1>4, NextRoundKeeps
<1>8. LoopInv' /\ Bystanders(s) /\ Proceeds(s, e.ok)
  BY <1>6, <1>7
<1>. QED BY <1>3, <1>8, Zenon

----------------------------------------------------------------------------
(* The other actions. *)

LEMMA SubmitKeeps ==
    ASSUME LoopInv, NEW s \in Sids, Submit(s)
    PROVE  LoopInv' /\ Bystanders(s)
<1>1. /\ pc[s] = "new" /\ pc' = [pc EXCEPT ![s] = "created"]
      /\ m' = IF subscribed THEN OnEvents(m, <<Plain("prompt_submitted", s)>>) ELSE m
      /\ UNCHANGED <<outcome, round, calls, backlog, running, subscribed>>
  BY DEF Submit, Publish
<1>2. /\ pc \in [Sids -> {"new", "waiting", "created", "llm", "tool", "over"}]
      /\ MonitorType(m, Sids) /\ Tidy(m) /\ backlog \in Seq(Sids)
  BY DEF LoopInv, TypeOK
<1>3. pc'[s] = "created" /\ \A t \in Sids : t # s => pc'[t] = pc[t]
  BY <1>1, <1>2
<1>4. s \notin DOMAIN m.tasks /\ outcome[s] = "none" /\ s \notin Range(Backlog)
  BY <1>1 DEF LoopInv, CardOf, Standing
<1>5. ASSUME subscribed
      PROVE  Prompted(Sids, m, m', s) /\ m'.active = m.active + 1
  <2> DEFINE e == Plain("prompt_submitted", s)
  <2>1. e.kind = "prompt_submitted" /\ e.sid = s
    BY PlainFields
  <2>2. m' = OnEvents(m, <<e>>)
    BY <1>1, <1>5
  <2> HIDE DEF e
  <2>3. m' = OnEvent(m, e)
    BY <2>2, OnEventsOne
  <2>. QED BY <2>1, <2>3, <1>2, <1>4, SubmittedEffect
<1>6. /\ MonitorType(m', Sids) /\ Tidy(m')
      /\ m'.active = IF subscribed THEN m.active + 1 ELSE m.active
  BY <1>1, <1>2, <1>5 DEF Prompted
<1>7. TypeOK'
  <2>1. pc' \in [Sids -> {"new", "waiting", "created", "llm", "tool", "over"}]
    BY <1>1, <1>2
  <2>. QED BY <2>1, <1>1, <1>6 DEF LoopInv, TypeOK
<1>8. Queue'
  <2>1. ASSUME NEW i \in DOMAIN backlog PROVE pc'[backlog[i]] = pc[backlog[i]]
    <3>1. backlog[i] \in Sids /\ backlog[i] # s
      BY <1>1, <1>2 DEF LoopInv, Queue
    <3>. QED BY <3>1, <1>3
  <2>. QED BY <2>1, <1>1 DEF LoopInv, Queue
<1>9. ASSUME NEW t \in Sids PROVE Standing(t)'
  <2>1. Standing(t)
    BY DEF LoopInv
  <2>2. CASE t = s
    BY <2>1, <2>2, <1>1, <1>3, <1>4 DEF Standing
  <2>3. CASE t # s
    BY <2>1, <2>3, <1>1, <1>3 DEF Standing
  <2>. QED BY <2>2, <2>3
<1>10. ASSUME NEW t \in DOMAIN m'.tasks PROVE CardOf(t)'
  <2>1. CASE ~subscribed
    BY <2>1, <1>1, UnseenIsEmpty
  <2>2. CASE subscribed
    <3>1. ASSUME t \in DOMAIN m.tasks, m'.tasks[t] = m.tasks[t] PROVE CardOf(t)'
      <4>1. CardOf(t) /\ t \in Sids /\ t # s
        BY <3>1, <1>2, <1>4 DEF LoopInv, MonitorType
      <4>2. pc'[t] = pc[t] /\ Doing(t)' = Doing(t)
        BY <4>1, <1>1, <1>3 DEF Doing
      <4>. QED BY <3>1, <4>1, <4>2, <1>1 DEF CardOf
    <3>2. ASSUME t = s, m'.tasks[t].status = "running", Shows(m'.tasks[t].steps, Nothing)
          PROVE  CardOf(t)'
      <4>1. Doing(s)' = Nothing
        BY <1>3, DoingWillBe
      <4>. QED BY <3>2, <4>1, <1>1, <1>3, <1>4 DEF CardOf
    <3>. QED BY <2>2, <3>1, <3>2, <1>5 DEF Prompted
  <2>. QED BY <2>1, <2>2
<1>11. FsmFollowsSession'
  <2>1. CASE ~subscribed
    <3>1. m'.session = {}
      BY <2>1, <1>1, UnseenIsEmpty
    <3>. QED BY <3>1 DEF FsmFollowsSession
  <2>2. CASE subscribed
    <3>1. m'.session = {s} /\ m'.state = "prompted"
      BY <2>2, <1>5 DEF Prompted, Strip
    <3>. QED BY <3>1, <1>3 DEF FsmFollowsSession
  <2>. QED BY <2>1, <2>2
<1>12. GaugeCountsOpen'
  <2>1. OpenPrompts \in SUBSET Sids /\ s \notin OpenPrompts
    BY <1>1 DEF OpenPrompts
  <2>2. IsFiniteSet(OpenPrompts) /\ Cardinality(OpenPrompts) \in Nat /\ m.active \in Int
    BY <2>1, <1>2, OpenPromptsFinite DEF MonitorType
  <2>3. m.active <= Cardinality(OpenPrompts)
    BY DEF LoopInv, GaugeCountsOpen, OpenPrompts
  <2>4. OpenPrompts' = OpenPrompts \cup {s}
    BY <1>1, <1>3, <1>4 DEF OpenPrompts
  <2>5. Cardinality(OpenPrompts') = Cardinality(OpenPrompts) + 1
    BY <2>1, <2>2, <2>4, FS_AddElement
  <2>6. m'.active <= Cardinality(OpenPrompts')
    BY <2>2, <2>3, <2>5, <1>6
  <2>. QED BY <2>6 DEF GaugeCountsOpen, OpenPrompts
<1>13. Unseen'
  BY <1>1 DEF LoopInv, Unseen
<1>14. Bystanders(s)
  <2>1. CASE ~subscribed
    BY <2>1, <1>1 DEF Bystanders
  <2>2. CASE subscribed
    <3>1. ASSUME NEW t \in DOMAIN m'.tasks, t = s, m'.tasks[t].steps = <<>>
          PROVE  EndedCalls(m'.tasks[t].steps) = {}
      BY <3>1 DEF EndedCalls
    <3>. QED BY <2>2, <3>1, <1>1, <1>4, <1>5 DEF Bystanders, Prompted
  <2>. QED BY <2>1, <2>2
<1>. QED BY <1>7, <1>8, <1>9, <1>10, <1>11, <1>12, <1>13, <1>14 DEF LoopInv

\* A step that leaves the sessions and the monitor alone.
LEMMA QuietKeeps ==
    ASSUME LoopInv, m' = m, UNCHANGED <<pc, outcome, round, calls, backlog>>,
           running' \in BOOLEAN, subscribed' \in BOOLEAN, subscribed => subscribed'
    PROVE  LoopInv'
<1>1. TypeOK'
  BY DEF LoopInv, TypeOK
<1>2. Queue' /\ \A s \in Sids : Standing(s)'
  BY DEF LoopInv, Queue, Standing
<1>3. \A s \in DOMAIN m'.tasks : CardOf(s)'
  <2>1. ASSUME NEW s \in DOMAIN m.tasks PROVE CardOf(s)'
    <3>1. CardOf(s) /\ Doing(s)' = Doing(s)
      BY DEF LoopInv, Doing
    <3>. QED BY <3>1 DEF CardOf
  <2>. QED BY <2>1
<1>4. FsmFollowsSession' /\ GaugeCountsOpen' /\ Unseen'
  BY DEF LoopInv, FsmFollowsSession, GaugeCountsOpen, Unseen
<1>. QED BY <1>1, <1>2, <1>3, <1>4 DEF LoopInv

\* A cancellation that ends the replay as well.
LEMMA CutKeeps ==
    ASSUME LoopInv, NEW s \in Sids, pc[s] \in {"created", "llm", "tool"},
           pc' = [pc EXCEPT ![s] = "over"], outcome' = [outcome EXCEPT ![s] = "failed"],
           calls' = [calls EXCEPT ![s] = <<>>], backlog' = IF Restored(s) THEN <<>> ELSE backlog,
           UNCHANGED <<round, m>>, running' = running, subscribed' = subscribed
    PROVE  LoopInv' /\ Bystanders(s)
<1>1. /\ pc \in [Sids -> {"new", "waiting", "created", "llm", "tool", "over"}]
      /\ outcome \in [Sids -> {"none", "done", "failed"}]
      /\ calls \in [Sids -> Seq(STRING)] /\ backlog \in Seq(Sids)
      /\ MonitorType(m, Sids)
  BY DEF LoopInv, TypeOK
<1>2. /\ pc'[s] = "over" /\ outcome'[s] = "failed"
      /\ \A t \in Sids : t # s => /\ pc'[t] = pc[t] /\ outcome'[t] = outcome[t]
                                  /\ calls'[t] = calls[t]
  BY <1>1
<1>3. outcome[s] = "none"
  BY DEF LoopInv, Standing
<1>4. TypeOK'
  <2>1. <<>> \in Seq(STRING) /\ <<>> \in Seq(Sids)
    OBVIOUS
  <2>2. /\ pc' \in [Sids -> {"new", "waiting", "created", "llm", "tool", "over"}]
        /\ outcome' \in [Sids -> {"none", "done", "failed"}]
        /\ calls' \in [Sids -> Seq(STRING)] /\ backlog' \in Seq(Sids)
    BY <2>1, <1>1
  <2>. QED BY <2>2 DEF LoopInv, TypeOK
<1>5. Queue'
  <2>1. CASE ~ Restored(s)
    <3>1. ASSUME NEW i \in DOMAIN backlog PROVE backlog[i] # s /\ backlog[i] \in Sids
      <4>1. backlog[i] \in Sids /\ backlog # <<>> /\ Head(backlog) = backlog[1]
        BY <1>1
      <4>2. CASE i = 1
        BY <4>1, <4>2, <2>1 DEF Restored
      <4>3. CASE i # 1
        BY <4>1, <4>3 DEF LoopInv, Queue
      <4>. QED BY <4>1, <4>2, <4>3
    <3>. QED BY <2>1, <3>1, <1>2 DEF LoopInv, Queue
  <2>2. CASE Restored(s)
    <3> DEFINE none == <<>>
    <3>1. DOMAIN none = {} /\ backlog' = none
      BY <2>2
    <3> HIDE DEF none
    <3>. QED BY <3>1 DEF Queue, IsInjective
  <2>. QED BY <2>1, <2>2
<1>6. ASSUME NEW t \in Sids PROVE Standing(t)'
  <2>1. Standing(t)
    BY DEF LoopInv
  <2>2. CASE t = s
    BY <2>2, <1>2 DEF Standing
  <2>3. CASE t # s
    BY <2>1, <2>3, <1>2 DEF Standing
  <2>. QED BY <2>2, <2>3
<1>7. ASSUME NEW t \in DOMAIN m.tasks PROVE CardOf(t)'
  <2>1. CardOf(t) /\ t \in Sids
    BY <1>1 DEF LoopInv, MonitorType
  <2>2. CASE t = s
    BY <2>1, <2>2, <1>2, <1>3 DEF CardOf
  <2>3. CASE t # s
    <3>1. Doing(t)' = Doing(t)
      BY <2>1, <2>3, <1>2 DEF Doing
    <3>. QED BY <2>1, <2>3, <3>1, <1>2 DEF CardOf
  <2>. QED BY <2>2, <2>3
<1>8. FsmFollowsSession'
  <2>1. ASSUME NEW t \in m.session, outcome'[t] # "failed"
        PROVE  t # s /\ pc'[t] = pc[t] /\ outcome'[t] = outcome[t]
    <3>1. t \in Sids /\ t # s
      BY <2>1, <1>1, <1>2 DEF MonitorType
    <3>. QED BY <3>1, <1>2
  <2>. QED BY <2>1 DEF LoopInv, FsmFollowsSession
<1>9. GaugeCountsOpen'
  <2>1. ASSUME NEW t \in Sids
        PROVE  /\ pc'[t] = "new" <=> pc[t] = "new"
               /\ outcome'[t] = "done" <=> outcome[t] = "done"
    BY <1>2, <1>3
  <2>2. OpenPrompts' = OpenPrompts
    BY <2>1 DEF OpenPrompts
  <2>. QED BY <2>2 DEF LoopInv, GaugeCountsOpen, OpenPrompts
<1>10. Unseen'
  BY DEF LoopInv, Unseen
<1>11. Bystanders(s)
  BY DEF Bystanders
<1>. QED BY <1>4, <1>5, <1>6, <1>7, <1>8, <1>9, <1>10, <1>11 DEF LoopInv

LEMMA CancelledKeeps ==
    ASSUME LoopInv, NEW s \in Sids, Cancelled(s)
    PROVE  LoopInv' /\ Bystanders(s)
<1>1. pc[s] \in {"created", "llm", "tool"} /\ running' = running /\ subscribed' = subscribed
  BY DEF Cancelled
<1>2. CASE Over(s, "failed", <<>>)
  BY <1>1, <1>2, SilentKeeps
<1>3. CASE /\ pc' = [pc EXCEPT ![s] = "over"]
           /\ outcome' = [outcome EXCEPT ![s] = "failed"]
           /\ calls' = [calls EXCEPT ![s] = <<>>]
           /\ backlog' = IF Restored(s) THEN <<>> ELSE backlog
           /\ UNCHANGED <<round, m>>
  BY <1>1, <1>3, CutKeeps
<1>. QED BY <1>2, <1>3 DEF Cancelled

LEMMA ResetKeeps ==
    ASSUME LoopInv, ResetMetrics
    PROVE  LoopInv' /\ DOMAIN m'.tasks = {}
<1>1. /\ m' = IF subscribed THEN OnEvents(m, <<Plain("factory_reset", "")>>) ELSE m
      /\ UNCHANGED <<pc, outcome, round, calls, backlog, running, subscribed>>
  BY DEF ResetMetrics, Publish
<1>2. MonitorType(m, Sids)
  BY DEF LoopInv, TypeOK
<1>3. m' = Fresh
  <2>1. CASE ~subscribed
    BY <2>1, <1>1 DEF LoopInv, Unseen
  <2>2. CASE subscribed
    <3> DEFINE e == Plain("factory_reset", "")
    <3>1. m' = OnEvents(m, <<e>>)
      BY <2>2, <1>1
    <3>2. e.kind = "factory_reset"
      BY PlainFields
    <3> HIDE DEF e
    <3>3. m' = OnEvent(m, e)
      BY <3>1, OnEventsOne
    <3>. QED BY <3>2, <3>3, <1>2, ResetEffect
  <2>. QED BY <2>1, <2>2
<1>4. /\ MonitorType(m', Sids) /\ Tidy(m')
      /\ DOMAIN m'.tasks = {} /\ m'.session = {} /\ m'.active = 0
  BY <1>3, FreshInOrder
<1>5. TypeOK'
  BY <1>1, <1>4 DEF LoopInv, TypeOK
<1>6. Queue' /\ \A s \in Sids : Standing(s)'
  BY <1>1 DEF LoopInv, Queue, Standing
<1>7. FsmFollowsSession' /\ Unseen'
  BY <1>3, <1>4 DEF FsmFollowsSession, Unseen
<1>8. GaugeCountsOpen'
  <2>1. OpenPrompts' \in SUBSET Sids
    BY DEF OpenPrompts
  <2>2. Cardinality(OpenPrompts') \in Nat
    BY <2>1, OpenPromptsFinite
  <2>3. m'.active <= Cardinality(OpenPrompts')
    BY <2>2, <1>4
  <2>. QED BY <2>3 DEF GaugeCountsOpen, OpenPrompts
<1>. QED BY <1>4, <1>5, <1>6, <1>7, <1>8 DEF LoopInv

----------------------------------------------------------------------------
(* The invariant of every step, and the theorems. *)

LEMMA InitLoopInv == Init => LoopInv
<1>. SUFFICES ASSUME Init PROVE LoopInv
  OBVIOUS
<1>1. /\ \A s \in Sids : /\ pc[s] = IF Backlog # <<>> /\ s = Head(Backlog) THEN "llm"
                                    ELSE IF s \in Range(Backlog) THEN "waiting" ELSE "new"
                         /\ outcome[s] = "none" /\ calls[s] = <<>>
      /\ backlog = Backlog /\ m = Fresh
  BY DEF Init
<1>2. Backlog \in Seq(Sids) /\ IsInjective(Backlog)
  BY AgentAssumption
<1>3. /\ MonitorType(m, Sids) /\ Tidy(m)
      /\ DOMAIN m.tasks = {} /\ m.session = {} /\ m.active = 0
  BY <1>1, FreshInOrder
<1>4. TypeOK
  <2>1. pc \in [Sids -> {"new", "waiting", "created", "llm", "tool", "over"}]
    BY DEF Init
  <2>2. outcome \in [Sids -> {"none", "done", "failed"}]
    BY DEF Init
  <2>3. round \in [Sids -> 0..MaxRounds]
    <3>1. 0 \in 0..MaxRounds /\ 1 \in 0..MaxRounds
      BY AgentAssumption
    <3>. QED BY <3>1 DEF Init
  <2>4. calls \in [Sids -> Seq(STRING)]
    <3>1. <<>> \in Seq(STRING)
      OBVIOUS
    <3>. QED BY <3>1 DEF Init
  <2>5. running \in BOOLEAN /\ subscribed \in BOOLEAN
    BY DEF Init
  <2>. QED BY <2>1, <2>2, <2>3, <2>4, <2>5, <1>1, <1>2, <1>3 DEF TypeOK
<1>5. Queue
  <2>1. \A i \in DOMAIN Backlog : Backlog[i] \in Sids /\ Backlog[i] \in Range(Backlog)
    BY <1>2 DEF Range
  <2>2. ASSUME NEW i \in DOMAIN Backlog
        PROVE  /\ i = 1 => pc[Backlog[i]] = "llm"
               /\ i # 1 => pc[Backlog[i]] = "waiting"
    <3>1. Backlog # <<>> /\ Head(Backlog) = Backlog[1] /\ 1 \in DOMAIN Backlog
      BY <1>2
    <3>2. i # 1 => Backlog[i] # Backlog[1]
      BY <3>1, <1>2 DEF IsInjective
    <3>. QED BY <2>1, <3>1, <3>2, <1>1
  <2>. QED BY <2>1, <2>2, <1>1, <1>2 DEF Queue
<1>6. ASSUME NEW s \in Sids PROVE Standing(s)
  BY <1>1 DEF Standing
<1>7. (\A s \in DOMAIN m.tasks : CardOf(s)) /\ FsmFollowsSession
  BY <1>3 DEF FsmFollowsSession
<1>8. GaugeCountsOpen
  <2>1. OpenPrompts \in SUBSET Sids
    BY DEF OpenPrompts
  <2>2. Cardinality(OpenPrompts) \in Nat
    BY <2>1, OpenPromptsFinite
  <2>3. m.active <= Cardinality(OpenPrompts)
    BY <2>2, <1>3
  <2>. QED BY <2>3 DEF GaugeCountsOpen, OpenPrompts
<1>9. Unseen
  BY <1>1 DEF Unseen
<1>. QED BY <1>4, <1>5, <1>6, <1>7, <1>8, <1>9 DEF LoopInv

\* What a step does to the cards.
Cards == m' = m \/ DOMAIN m'.tasks = {} \/ \E s \in Sids : Bystanders(s)

LEMMA NextLoopInv ==
    ASSUME LoopInv, [Next]_vars
    PROVE  LoopInv' /\ Cards
<1>1. ASSUME NEW s \in Sids, Submit(s) PROVE LoopInv' /\ Bystanders(s)
  BY <1>1, SubmitKeeps
<1>2. ASSUME NEW s \in Sids, Begin(s) PROVE LoopInv' /\ Bystanders(s)
  BY <1>2, BeginKeeps
<1>3. ASSUME NEW s \in Sids, LlmAnswers(s) PROVE LoopInv' /\ Bystanders(s)
  <2>1. PICK plan \in Plans : Answered(s, plan)
    BY <1>3 DEF LlmAnswers
  <2>2. plan \in Seq(STRING)
    BY AgentAssumption
  <2>. QED BY <2>1, <2>2, AnsweredKeeps
<1>4. ASSUME NEW s \in Sids, LlmFails(s) PROVE LoopInv' /\ Bystanders(s)
  BY <1>4, LlmFailsKeeps
<1>5. ASSUME NEW s \in Sids, ToolEnds(s) PROVE LoopInv' /\ Bystanders(s)
  <2>1. PICK ok : Invoked(s, ok)
    BY <1>5 DEF ToolEnds
  <2>. QED BY <2>1, InvokedKeeps
<1>6. ASSUME NEW s \in Sids, Cancelled(s) PROVE LoopInv' /\ Bystanders(s)
  BY <1>6, CancelledKeeps
<1>7. CASE Subscribe
  <2>1. running \in BOOLEAN
    BY DEF LoopInv, TypeOK
  <2>2. /\ m' = m /\ UNCHANGED <<pc, outcome, round, calls, backlog>>
        /\ running' \in BOOLEAN /\ subscribed' \in BOOLEAN /\ (subscribed => subscribed')
    BY <1>7, <2>1 DEF Subscribe
  <2>. QED BY <2>2, QuietKeeps DEF Cards
<1>8. CASE Stop
  <2>1. subscribed \in BOOLEAN
    BY DEF LoopInv, TypeOK
  <2>2. /\ m' = m /\ UNCHANGED <<pc, outcome, round, calls, backlog>>
        /\ running' \in BOOLEAN /\ subscribed' \in BOOLEAN /\ (subscribed => subscribed')
    BY <1>8, <2>1 DEF Stop
  <2>. QED BY <2>2, QuietKeeps DEF Cards
<1>9. CASE ResetMetrics
  BY <1>9, ResetKeeps DEF Cards
<1>10. CASE UNCHANGED vars
  <2>1. running \in BOOLEAN /\ subscribed \in BOOLEAN
    BY DEF LoopInv, TypeOK
  <2>2. /\ m' = m /\ UNCHANGED <<pc, outcome, round, calls, backlog>>
        /\ running' = running /\ subscribed' = subscribed
    BY <1>10 DEF vars
  <2>. QED BY <2>1, <2>2, QuietKeeps DEF Cards
<1>. QED BY <1>1, <1>2, <1>3, <1>4, <1>5, <1>6, <1>7, <1>8, <1>9, <1>10 DEF Next, Handle, Cards

\* The inductive invariant holds in every reachable state.
THEOREM LoopInvariant == Spec => []LoopInv
<1>1. LoopInv /\ [Next]_vars => LoopInv'
  BY NextLoopInv
<1>. QED BY <1>1, InitLoopInv, PTL DEF Spec

\* Types, and the monitor in order: its table of cards and the list of their
\* order agree, through prompts, restored sessions, evictions and resets.
THEOREM LoopTypeCorrect == Spec => []TypeOK
<1>1. LoopInv => TypeOK
  BY DEF LoopInv
<1>. QED BY <1>1, LoopInvariant, PTL

\* The card of a session in flight shows its LLM call or its tool of the moment
\* as its one open step: _open_step and _close_last_step find the right step
\* among the events of any number of sessions.
THEOREM CardsFollowAgents == Spec => []CardFollowsAgent
<1>1. LoopInv => CardFollowsAgent
  <2>1. ASSUME LoopInv, NEW s \in DOMAIN m.tasks, pc[s] \in {"llm", "tool"}
        PROVE  Shows(m.tasks[s].steps, Doing(s))
    <3>1. CardOf(s) /\ s \in Sids
      BY <2>1 DEF LoopInv, TypeOK, MonitorType
    <3>2. outcome[s] = "none"
      BY <2>1, <3>1 DEF LoopInv, Standing
    <3>. QED BY <3>1, <3>2 DEF CardOf
  <2>. QED BY <2>1 DEF CardFollowsAgent
<1>. QED BY <1>1, LoopInvariant, PTL

\* A card says "done" exactly when its session gave its reply, and shows no
\* step in progress then: agent_round_end reaches the card it is about.
THEOREM DoneCardsAreDone == Spec => []DoneCards
<1>1. LoopInv => DoneCards
  <2>1. ASSUME LoopInv, NEW s \in DOMAIN m.tasks
        PROVE  /\ m.tasks[s].status = "done" <=> outcome[s] = "done"
               /\ m.tasks[s].status = "done" => Shows(m.tasks[s].steps, {})
    <3>1. CardOf(s) /\ s \in Sids
      BY <2>1 DEF LoopInv, TypeOK, MonitorType
    <3>2. Standing(s)
      BY <2>1, <3>1 DEF LoopInv
    <3>3. ASSUME m.tasks[s].status = "done" PROVE Shows(m.tasks[s].steps, {})
      <4>1. outcome[s] = "done" /\ pc[s] = "over"
        BY <3>1, <3>2, <3>3 DEF CardOf, Standing
      <4>2. Doing(s) = Nothing
        BY <3>1, <4>1, DoingIs
      <4>3. Shows(m.tasks[s].steps, Nothing)
        BY <3>1, <4>1, <4>2 DEF CardOf
      <4>. QED BY <4>3 DEF Nothing
    <3>. QED BY <3>1, <3>3 DEF CardOf
  <2>. QED BY <2>1 DEF DoneCards
<1>. QED BY <1>1, LoopInvariant, PTL

\* The FSM strip shows the session it names in the state that session is in,
\* unless it failed, with any number of sessions interleaved (_set_state).
THEOREM StripFollowsSession == Spec => []FsmFollowsSession
<1>1. LoopInv => FsmFollowsSession
  BY DEF LoopInv
<1>. QED BY <1>1, LoopInvariant, PTL

\* The gauge counts at most the new prompts not answered yet.
THEOREM GaugeIsBounded == Spec => []GaugeCountsOpen
<1>1. LoopInv => GaugeCountsOpen
  BY DEF LoopInv
<1>. QED BY <1>1, LoopInvariant, PTL

\* A card that a reset or an eviction removed does not come back.
THEOREM NoCardComesBack == Spec => NoGhostCards
<1>1. LoopInv /\ [Next]_vars
      => [\A s \in Sids : s \in DOMAIN m'.tasks /\ s \notin DOMAIN m.tasks
                          => pc[s] \in {"new", "waiting"}]_vars
  <2>1. ASSUME LoopInv, [Next]_vars PROVE Cards
    BY <2>1, NextLoopInv
  <2>. QED BY <2>1 DEF Cards, Bystanders
<1>. QED BY <1>1, LoopInvariant, PTL DEF Spec, NoGhostCards
=============================================================================
