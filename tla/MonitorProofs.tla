--------------------------- MODULE MonitorProofs ---------------------------
(***************************************************************************)
(* What the monitor makes of lists of events, of any length, and of each   *)
(* event, for any number of cards.                                         *)
(***************************************************************************)
EXTENDS Monitor, FiniteSetTheorems, TLAPS

----------------------------------------------------------------------------
(* Lists of events.  The library's induction theorems take an operator;    *)
(* that every set of numbers has a least one serves in their place: the    *)
(* lemmas below take the least index at which they would fail.             *)

\* Every non-empty set of natural numbers has a least one.
LEMMA LeastNat ==
    ASSUME NEW N \in SUBSET Nat, N # {}
    PROVE  \E n \in N : \A k \in N : n <= k
<1>1. IsWellFoundedOn(OpToRel(<, Nat), Nat)
  BY NatLessThanWellFounded
<1>2. PICK n \in N : \A k \in N : ~ (<<k, n>> \in OpToRel(<, Nat))
  BY <1>1, WFMin
<1>3. \A k \in N : <<k, n>> \in Nat \X Nat
  OBVIOUS
<1>4. ASSUME NEW k \in N PROVE ~ (k < n)
  <2>1. ~ (<<k, n>> \in OpToRel(<, Nat))
    BY <1>2
  <2>. QED BY <2>1, <1>3, ZenonT(20) DEF OpToRel
<1>. QED BY <1>4

\* f is what the monitor goes through, starting in `mon`, with n events.
Run(f, mon, events, n) ==
    f = [i \in 0..n |-> IF i = 0 THEN mon ELSE OnEvent(f[i - 1], events[i])]

\* Every list of events can be run.
LEMMA RunExists ==
    ASSUME NEW mon, NEW events, NEW n \in Nat
    PROVE  \E f : Run(f, mon, events, n)
<1> DEFINE N == {k \in 0..n : ~ \E f : Run(f, mon, events, k)}
<1>1. SUFFICES ASSUME N # {} PROVE FALSE
  OBVIOUS
<1>0. N \in SUBSET Nat
  OBVIOUS
<1>2. PICK k \in N : \A j \in N : k <= j
  <2> HIDE DEF N
  <2>. QED BY <1>0, <1>1, LeastNat
<1>3. CASE k = 0
  <2>1. Run([i \in 0..0 |-> mon], mon, events, 0)
    BY DEF Run
  <2>. QED BY <2>1, <1>2, <1>3
<1>4. CASE k # 0
  <2>1. k - 1 \in 0..n /\ k - 1 \notin N
    BY <1>2, <1>4
  <2>2. PICK g : Run(g, mon, events, k - 1)
    BY <2>1
  <2> DEFINE f == [i \in 0..k |-> IF i = k THEN OnEvent(g[k - 1], events[k]) ELSE g[i]]
  <2>3. \A i \in 0..(k - 1) : g[i] = IF i = 0 THEN mon ELSE OnEvent(g[i - 1], events[i])
    BY <2>2 DEF Run
  <2>4. ASSUME NEW i \in 0..k
        PROVE  f[i] = IF i = 0 THEN mon ELSE OnEvent(f[i - 1], events[i])
    BY <2>3, <1>4
  <2>5. Run(f, mon, events, k)
    BY <2>4 DEF Run
  <2>. QED BY <2>5, <1>2
<1>. QED BY <1>3, <1>4

\* OnEvents is the end of such a run.
LEMMA RunOfOnEvents ==
    ASSUME NEW mon, NEW events, Len(events) \in Nat
    PROVE  \E f : Run(f, mon, events, Len(events)) /\ OnEvents(mon, events) = f[Len(events)]
<1>1. \E f : f = [i \in 0..Len(events) |-> IF i = 0 THEN mon ELSE OnEvent(f[i - 1], events[i])]
  <2>1. \E f : Run(f, mon, events, Len(events))
    BY RunExists
  <2>. QED BY <2>1 DEF Run
<1> DEFINE after == CHOOSE f : f = [i \in 0..Len(events) |->
                                    IF i = 0 THEN mon ELSE OnEvent(f[i - 1], events[i])]
<1>2. Run(after, mon, events, Len(events))
  BY <1>1 DEF Run
<1>3. OnEvents(mon, events) = after[Len(events)]
  BY DEF OnEvents
<1>. QED BY <1>2, <1>3

\* f takes the n events of b.
Takes(f, b, n) == \A i \in 1..n : f[i] = OnEvent(f[i - 1], b[i])

LEMMA RunTakes ==
    ASSUME NEW f, NEW mon, NEW events, NEW n \in Nat, Run(f, mon, events, n)
    PROVE  f[0] = mon /\ Takes(f, events, n)
BY DEF Run, Takes

\* Two runs that take the same events stay together.
LEMMA RunsAgree ==
    ASSUME NEW f, NEW g, NEW n \in Nat, NEW b, f[0] = g[0], Takes(f, b, n), Takes(g, b, n)
    PROVE  f[n] = g[n]
<1> DEFINE N == {i \in 0..n : f[i] # g[i]}
<1>1. SUFFICES ASSUME N # {} PROVE FALSE
  OBVIOUS
<1>0. N \in SUBSET Nat
  OBVIOUS
<1>2. PICK i \in N : \A j \in N : i <= j
  <2> HIDE DEF N
  <2>. QED BY <1>0, <1>1, LeastNat
<1>3. CASE i = 0
  BY <1>2, <1>3
<1>4. CASE i # 0
  <2>1. i - 1 \in 0..n /\ i - 1 \notin N /\ i \in 1..n
    BY <1>2, <1>4
  <2>2. f[i - 1] = g[i - 1]
    BY <2>1
  <2>3. f[i] = OnEvent(f[i - 1], b[i]) /\ g[i] = OnEvent(g[i - 1], b[i])
    BY <2>1 DEF Takes
  <2>. QED BY <2>2, <2>3, <1>2
<1>. QED BY <1>3, <1>4

LEMMA OnEventsNone ==
    ASSUME NEW mon
    PROVE  OnEvents(mon, <<>>) = mon
<1>1. PICK f : Run(f, mon, <<>>, 0) /\ OnEvents(mon, <<>>) = f[0]
  BY RunOfOnEvents
<1>. QED BY <1>1 DEF Run

LEMMA OnEventsOne ==
    ASSUME NEW mon, NEW e
    PROVE  OnEvents(mon, <<e>>) = OnEvent(mon, e)
<1>1. PICK f : Run(f, mon, <<e>>, 1) /\ OnEvents(mon, <<e>>) = f[1]
  BY RunOfOnEvents
<1>2. f[1] = OnEvent(f[0], e) /\ f[0] = mon
  BY <1>1 DEF Run
<1>. QED BY <1>1, <1>2

\* The events of a list are taken one after the other.
LEMMA OnEventsConcat ==
    ASSUME NEW mon, NEW A, NEW B, NEW a \in Seq(A), NEW b \in Seq(B)
    PROVE  OnEvents(mon, a \o b) = OnEvents(OnEvents(mon, a), b)
<1> DEFINE ab == a \o b
           mid == OnEvents(mon, a)
<1>1. /\ Len(ab) = Len(a) + Len(b)
      /\ Len(a) \in Nat /\ Len(b) \in Nat /\ Len(ab) \in Nat
      /\ \A i \in 1..Len(a) : ab[i] = a[i]
      /\ \A i \in 1..Len(b) : ab[Len(a) + i] = b[i]
  OBVIOUS
<1> HIDE DEF ab, mid
<1>2. PICK f : Run(f, mon, ab, Len(ab)) /\ OnEvents(mon, ab) = f[Len(ab)]
  BY <1>1, RunOfOnEvents
<1>3. PICK g : Run(g, mon, a, Len(a)) /\ OnEvents(mon, a) = g[Len(a)]
  BY <1>1, RunOfOnEvents
<1>4. PICK h : Run(h, mid, b, Len(b)) /\ OnEvents(mid, b) = h[Len(b)]
  BY <1>1, RunOfOnEvents
<1> DEFINE tail == [i \in 0..Len(b) |-> f[Len(a) + i]]
<1>5. f[0] = mon /\ Takes(f, ab, Len(ab))
  BY <1>1, <1>2, RunTakes
<1>6. g[0] = mon /\ Takes(g, a, Len(a))
  BY <1>1, <1>3, RunTakes
<1>7. h[0] = mid /\ Takes(h, b, Len(b))
  BY <1>1, <1>4, RunTakes
<1>8. Takes(f, a, Len(a)) /\ Takes(tail, b, Len(b))
  BY <1>1, <1>5 DEF Takes
<1>9. f[Len(a)] = g[Len(a)]
  BY <1>1, <1>5, <1>6, <1>8, RunsAgree
<1>10. tail[0] = f[Len(a)] /\ tail[Len(b)] = f[Len(ab)]
  BY <1>1
<1>11. tail[Len(b)] = h[Len(b)]
  <2>1. tail[0] = h[0]
    BY <1>3, <1>7, <1>9, <1>10 DEF mid
  <2> HIDE DEF tail
  <2>. QED BY <2>1, <1>1, <1>7, <1>8, RunsAgree
<1>. QED BY <1>2, <1>4, <1>10, <1>11 DEF ab, mid

LEMMA OnEventsTwo ==
    ASSUME NEW mon, NEW e, NEW f
    PROVE  OnEvents(mon, <<e, f>>) = OnEvent(OnEvent(mon, e), f)
<1> DEFINE ef == <<e, f>>
<1>1. Len(ef) = 2 /\ ef[1] = e /\ ef[2] = f
  OBVIOUS
<1> HIDE DEF ef
<1>2. PICK g : Run(g, mon, ef, Len(ef)) /\ OnEvents(mon, ef) = g[Len(ef)]
  <2>1. Len(ef) \in Nat
    BY <1>1
  <2>. QED BY <2>1, RunOfOnEvents
<1>3. g[0] = mon /\ g[1] = OnEvent(g[0], e) /\ g[2] = OnEvent(g[1], f)
  BY <1>1, <1>2 DEF Run
<1>. QED BY <1>2, <1>3 DEF ef

LEMMA HeadAndTail ==
    ASSUME NEW T, NEW q \in Seq(T), q # <<>>
    PROVE  Head(q) \in T /\ Tail(q) \in Seq(T)
OBVIOUS

LEMMA AppendOne ==
    ASSUME NEW e, NEW f
    PROVE  Append(<<e>>, f) = <<e, f>> /\ <<e>> \o <<f>> = <<e, f>>
<1>1. /\ <<e>> \in Seq({e, f}) /\ Len(<<e>>) = 1 /\ <<e>>[1] = e
      /\ <<f>> \in Seq({e, f}) /\ Len(<<f>>) = 1 /\ <<f>>[1] = f
  OBVIOUS
<1> DEFINE p == Append(<<e>>, f)
           q == <<e>> \o <<f>>
<1>2. p \in Seq({e, f}) /\ Len(p) = 2 /\ p[1] = e /\ p[2] = f
  BY <1>1
<1>3. q \in Seq({e, f}) /\ Len(q) = 2 /\ q[1] = e /\ q[2] = f
  BY <1>1
<1> HIDE DEF p, q
<1>4. p = <<e, f>> /\ q = <<e, f>>
  BY <1>2, <1>3
<1>. QED BY <1>4 DEF p, q

\* A literal list of events is a list.
LEMMA TwoEvents ==
    ASSUME NEW e, NEW f
    PROVE  (\E A : <<e, f>> \in Seq(A)) /\ (\E A : <<e>> \in Seq(A))
<1>1. <<e, f>> \in Seq({e, f}) /\ <<e>> \in Seq({e})
  OBVIOUS
<1>. QED BY <1>1

----------------------------------------------------------------------------
(* The parts of an event's handler. *)

\* From `mon` to `new` at most the card of s changes; none comes or goes.
Touches(mon, new, s) ==
    /\ DOMAIN new.tasks = DOMAIN mon.tasks /\ new.order = mon.order
    /\ \A t \in DOMAIN mon.tasks : t # s => new.tasks[t] = mon.tasks[t]

LEMMA SetStateEffect ==
    ASSUME NEW S, NEW mon, MonitorType(mon, S), NEW s \in S,
           NEW st, st \in FsmState, NEW new, new = SetState(mon, st, s)
    PROVE  /\ MonitorType(new, S)
           /\ new.tasks = mon.tasks /\ new.order = mon.order /\ new.active = mon.active
           /\ new.state = st /\ new.session = {s}
<1>1. /\ new.tasks = mon.tasks /\ new.order = mon.order /\ new.active = mon.active
      /\ new.state = st /\ new.session = {s} /\ new.tool = mon.tool
      /\ new = [tasks |-> new.tasks, order |-> new.order, state |-> new.state,
                tool |-> new.tool, session |-> new.session, active |-> new.active]
  <2>1. new = [mon EXCEPT !.state = st, !.session = {s}]
    BY DEF SetState
  <2>2. mon = [tasks |-> mon.tasks, order |-> mon.order, state |-> mon.state, tool |-> mon.tool,
               session |-> mon.session, active |-> mon.active]
    BY DEF MonitorType
  <2>3. new = [tasks |-> mon.tasks, order |-> mon.order, state |-> st, tool |-> mon.tool,
               session |-> {s}, active |-> mon.active]
    BY <2>1, <2>2, Zenon
  <2>. QED BY <2>3
<1>2. MonitorType(new, S)
  BY <1>1 DEF MonitorType
<1>. QED BY <1>1, <1>2

LEMMA OpenStepOfEffect ==
    ASSUME NEW S, NEW mon, MonitorType(mon, S), NEW s \in S, NEW step \in StepType,
           NEW new, new = OpenStepOf(mon, s, step)
    PROVE  /\ MonitorType(new, S) /\ Touches(mon, new, s) /\ new.active = mon.active
           /\ s \in DOMAIN mon.tasks => /\ new.tasks[s].status = mon.tasks[s].status
                                        /\ new.tasks[s].steps = Append(mon.tasks[s].steps, step)
<1> DEFINE card == [mon.tasks[s] EXCEPT !.steps = Append(@, step)]
<1>1. CASE s \notin DOMAIN mon.tasks
  <2>1. new = mon
    BY <1>1 DEF OpenStepOf, HasCard
  <2>. QED BY <2>1, <1>1 DEF Touches
<1>2. CASE s \in DOMAIN mon.tasks
  <2>1. mon.tasks[s] \in Card /\ mon.tasks[s].steps \in Seq(StepType)
    BY <1>2 DEF MonitorType, Card
  <2>2. Append(mon.tasks[s].steps, step) \in Seq(StepType)
    BY <2>1
  <2>3. /\ card \in Card /\ card.status = mon.tasks[s].status
        /\ card.steps = Append(mon.tasks[s].steps, step)
    BY <2>1, <2>2 DEF Card
  <2>4. new = [mon EXCEPT !.tasks = [mon.tasks EXCEPT ![s] = card]]
    BY <1>2 DEF OpenStepOf, HasCard
  <2> HIDE DEF card
  <2>5. /\ new.tasks = [mon.tasks EXCEPT ![s] = card] /\ new.order = mon.order
        /\ new.active = mon.active /\ new.state = mon.state /\ new.tool = mon.tool
        /\ new.session = mon.session
        /\ new = [tasks |-> new.tasks, order |-> new.order, state |-> new.state,
                  tool |-> new.tool, session |-> new.session, active |-> new.active]
    BY <2>4 DEF MonitorType
  <2>6. new.tasks \in [DOMAIN mon.tasks -> Card] /\ new.tasks[s] = card
    BY <1>2, <2>3, <2>5 DEF MonitorType
  <2>7. MonitorType(new, S)
    BY <2>5, <2>6 DEF MonitorType
  <2>8. Touches(mon, new, s)
    BY <2>5, <2>6 DEF Touches, MonitorType
  <2>. QED BY <2>3, <2>5, <2>6, <2>7, <2>8
<1>. QED BY <1>1, <1>2

LEMMA MaxOfSome ==
    ASSUME NEW n \in Nat, NEW N \in SUBSET (1..n), N # {}
    PROVE  Max(N) \in N /\ \A k \in N : k <= Max(N)
<1> DEFINE M == {n - k : k \in N}
<1>1. M \in SUBSET Nat /\ M # {}
  <2>1. ASSUME NEW k \in N PROVE n - k \in Nat
    <3>1. k \in 1..n
      OBVIOUS
    <3>. QED BY <3>1
  <2>2. PICK k \in N : TRUE
    OBVIOUS
  <2>3. n - k \in M
    OBVIOUS
  <2>. QED BY <2>1, <2>3
<1>2. PICK j \in M : \A k \in M : j <= k
  <2> HIDE DEF M
  <2>. QED BY <1>1, LeastNat
<1>3. PICK x \in N : j = n - x
  BY <1>2
<1>4. \A k \in N : x >= k
  <2> TAKE k \in N
  <2>1. n - k \in M /\ k \in 1..n /\ x \in 1..n
    OBVIOUS
  <2>2. j <= n - k
    BY <2>1, <1>2
  <2>. QED BY <2>1, <2>2, <1>3
<1>5. \E y \in N : \A k \in N : y >= k
  BY <1>4
<1>6. Max(N) \in N /\ \A k \in N : Max(N) >= k
  BY <1>5 DEF Max
<1>. QED BY <1>6

\* What closes the last step of a card.
Closed(steps, ok) == [steps EXCEPT ![Len(steps)].ok = IF ok THEN "ok" ELSE "fail"]

LEMMA ShowsClosed ==
    ASSUME NEW steps \in Seq(StepType), NEW d, Shows(steps, {d}), NEW e
    PROVE  Shows(Closed(steps, e.ok), {})
<1>1. Len(steps) \in 1..Len(steps) /\ DOMAIN steps = 1..Len(steps)
  <2>1. steps # <<>>
    BY DEF Shows
  <2>. QED BY <2>1
<1> DEFINE x == [steps[Len(steps)] EXCEPT !.ok = IF e.ok THEN "ok" ELSE "fail"]
<1>2. x.ok # "open"
  <2>1. steps[Len(steps)] \in StepType
    BY <1>1
  <2>. QED BY <2>1 DEF StepType
<1>3. Closed(steps, e.ok) = [steps EXCEPT ![Len(steps)] = x]
  BY DEF Closed
<1> HIDE DEF x
<1>4. /\ DOMAIN Closed(steps, e.ok) = DOMAIN steps
      /\ \A i \in DOMAIN steps : Closed(steps, e.ok)[i] = IF i = Len(steps) THEN x ELSE steps[i]
  BY <1>1, <1>3
<1>. QED BY <1>1, <1>2, <1>4 DEF Shows

\* Of a card that shows a step of this kind and name, that step is closed; of
\* any card, the status stays.
Closes(S, mon, new, s, kind, name, e) ==
    /\ MonitorType(new, S) /\ Touches(mon, new, s) /\ new.active = mon.active
    /\ s \in DOMAIN mon.tasks => new.tasks[s].status = mon.tasks[s].status
    /\ s \in DOMAIN mon.tasks /\ Shows(mon.tasks[s].steps, {OpenStep(kind, name)})
       => /\ new.tasks[s].steps = Closed(mon.tasks[s].steps, e.ok)
          /\ Shows(new.tasks[s].steps, {})

LEMMA CloseLastStepEffect ==
    ASSUME NEW S, NEW mon, MonitorType(mon, S), NEW s \in S, NEW kind, NEW name, NEW e,
           NEW new, new = CloseLastStep(mon, s, kind, name, e.ok)
    PROVE  Closes(S, mon, new, s, kind, name, e)
<1> DEFINE steps == mon.tasks[s].steps
           open == {i \in DOMAIN steps : steps[i] = OpenStep(kind, name)}
           closed == [steps EXCEPT ![Max(open)].ok = IF e.ok THEN "ok" ELSE "fail"]
           card == [mon.tasks[s] EXCEPT !.steps = closed]
<1>1. CASE s \notin DOMAIN mon.tasks
  <2>1. new = mon
    BY <1>1 DEF CloseLastStep, HasCard
  <2>. QED BY <2>1, <1>1 DEF Touches, Closes
<1>2. CASE s \in DOMAIN mon.tasks
  <2>1. mon.tasks[s] \in Card /\ steps \in Seq(StepType)
    BY <1>2 DEF MonitorType, Card
  <2>2. CASE open = {}
    <3>1. new = mon
      BY <1>2, <2>2 DEF CloseLastStep, HasCard
    <3>2. ~ Shows(steps, {OpenStep(kind, name)})
      <4>1. ASSUME Shows(steps, {OpenStep(kind, name)}) PROVE Len(steps) \in open
        BY <4>1, <2>1 DEF Shows, Last
      <4>. QED BY <4>1, <2>2
    <3>. QED BY <3>1, <3>2, <1>2 DEF Touches, Closes
  <2>3. CASE open # {}
    <3>1. Max(open) \in open
      <4>1. open \in SUBSET (1..Len(steps)) /\ Len(steps) \in Nat
        BY <2>1
      <4> HIDE DEF open
      <4>. QED BY <4>1, <2>3, MaxOfSome
    <3>2. closed \in Seq(StepType)
      <4>1. Max(open) \in 1..Len(steps) /\ steps[Max(open)] \in StepType
        <5>1. \A i \in open : i \in 1..Len(steps) /\ steps[i] \in StepType
          BY <2>1
        <5> HIDE DEF open
        <5>. QED BY <5>1, <3>1
      <4> DEFINE i == Max(open)
                 x == [steps[i] EXCEPT !.ok = IF e.ok THEN "ok" ELSE "fail"]
      <4>2. x \in StepType
        BY <4>1 DEF StepType
      <4>3. closed = [steps EXCEPT ![i] = x]
        OBVIOUS
      <4> HIDE DEF open, x
      <4>. QED BY <4>1, <4>2, <4>3, <2>1
    <3>3. Shows(steps, {OpenStep(kind, name)}) => Max(open) = Len(steps)
      <4>1. steps[Max(open)].ok = "open" /\ Max(open) \in DOMAIN steps
        BY <3>1 DEF OpenStep
      <4>. QED BY <4>1 DEF Shows
    <3> HIDE DEF closed
    <3>4. card \in Card /\ card.status = mon.tasks[s].status /\ card.steps = closed
      BY <2>1, <3>2 DEF Card
    <3>5. new = [mon EXCEPT !.tasks = [mon.tasks EXCEPT ![s] = card]]
      BY <1>2, <2>3 DEF CloseLastStep, HasCard, closed
    <3> HIDE DEF card
    <3>6. /\ new.tasks = [mon.tasks EXCEPT ![s] = card] /\ new.order = mon.order
          /\ new.active = mon.active /\ new.state = mon.state /\ new.tool = mon.tool
          /\ new.session = mon.session
          /\ new = [tasks |-> new.tasks, order |-> new.order, state |-> new.state,
                    tool |-> new.tool, session |-> new.session, active |-> new.active]
      BY <3>5 DEF MonitorType
    <3>7. new.tasks \in [DOMAIN mon.tasks -> Card] /\ new.tasks[s] = card
      BY <1>2, <3>4, <3>6 DEF MonitorType
    <3>8. MonitorType(new, S)
      BY <3>6, <3>7 DEF MonitorType
    <3>9. Touches(mon, new, s)
      BY <3>6, <3>7 DEF Touches, MonitorType
    <3>10. new.tasks[s].steps = closed /\ new.tasks[s].status = mon.tasks[s].status
      BY <3>4, <3>7
    <3>11. Shows(steps, {OpenStep(kind, name)})
           => new.tasks[s].steps = Closed(steps, e.ok) /\ Shows(new.tasks[s].steps, {})
      <4>1. SUFFICES ASSUME Shows(steps, {OpenStep(kind, name)})
                     PROVE  /\ new.tasks[s].steps = Closed(steps, e.ok)
                            /\ Shows(new.tasks[s].steps, {})
        OBVIOUS
      <4>2. closed = Closed(steps, e.ok)
        BY <3>3, <4>1 DEF closed, Closed
      <4>3. Shows(Closed(steps, e.ok), {})
        BY <2>1, <4>1, ShowsClosed
      <4>. QED BY <4>2, <4>3, <3>10
    <3>. QED BY <1>2, <3>6, <3>8, <3>9, <3>10, <3>11 DEF Closes
  <2>. QED BY <2>2, <2>3
<1>. QED BY <1>1, <1>2

LEMMA TouchedStaysTidy ==
    ASSUME NEW mon, NEW new, NEW s, Tidy(mon), Touches(mon, new, s)
    PROVE  Tidy(new)
BY DEF Tidy, Touches

\* The list of order loses its head: the others stay, each once.
LEMMA TailKeeps ==
    ASSUME NEW S, NEW q \in Seq(S), q # <<>>, IsInjective(q)
    PROVE  /\ Tail(q) \in Seq(S) /\ Len(Tail(q)) = Len(q) - 1 /\ IsInjective(Tail(q))
           /\ Head(q) \in Range(q)
           /\ \A x : x \in Range(Tail(q)) <=> x \in Range(q) /\ x # Head(q)
<1>1. /\ Tail(q) \in Seq(S) /\ Len(Tail(q)) = Len(q) - 1 /\ Len(q) \in Nat \ {0}
      /\ DOMAIN q = 1..Len(q) /\ DOMAIN Tail(q) = 1..(Len(q) - 1)
      /\ \A i \in 1..(Len(q) - 1) : Tail(q)[i] = q[i + 1]
      /\ Head(q) = q[1]
  OBVIOUS
<1>2. IsInjective(Tail(q))
  BY <1>1 DEF IsInjective
<1>3. ASSUME NEW x, x \in Range(Tail(q)) PROVE x \in Range(q) /\ x # Head(q)
  <2>1. PICK i \in 1..(Len(q) - 1) : x = q[i + 1]
    BY <1>1, <1>3 DEF Range
  <2>2. i + 1 \in 1..Len(q) /\ 1 \in 1..Len(q) /\ i + 1 # 1
    BY <1>1
  <2>3. q[i + 1] # q[1]
    BY <2>2, <1>1 DEF IsInjective
  <2>. QED BY <2>1, <2>2, <2>3, <1>1 DEF Range
<1>4. ASSUME NEW x, x \in Range(q), x # Head(q) PROVE x \in Range(Tail(q))
  <2>1. PICK i \in 1..Len(q) : x = q[i]
    BY <1>1, <1>4 DEF Range
  <2>2. i - 1 \in 1..(Len(q) - 1) /\ (i - 1) + 1 = i
    BY <1>1, <1>4, <2>1
  <2>3. Tail(q)[i - 1] = x
    BY <2>1, <2>2, <1>1
  <2>. QED BY <2>2, <2>3, <1>1 DEF Range
<1>5. Head(q) \in Range(q)
  BY <1>1 DEF Range
<1>. QED BY <1>1, <1>2, <1>3, <1>4, <1>5

LEMMA AppendKeeps ==
    ASSUME NEW S, NEW q \in Seq(S), NEW s \in S, IsInjective(q), s \notin Range(q)
    PROVE  /\ Append(q, s) \in Seq(S) /\ Len(Append(q, s)) = Len(q) + 1
           /\ Append(q, s) # <<>> /\ IsInjective(Append(q, s))
           /\ \A x : x \in Range(Append(q, s)) <=> x \in Range(q) \/ x = s
           /\ q # <<>> => Head(Append(q, s)) # s
<1>1. /\ Append(q, s) \in Seq(S) /\ Len(Append(q, s)) = Len(q) + 1 /\ Len(q) \in Nat
      /\ DOMAIN q = 1..Len(q) /\ DOMAIN Append(q, s) = 1..(Len(q) + 1)
      /\ \A i \in 1..Len(q) : Append(q, s)[i] = q[i] /\ i \in 1..(Len(q) + 1)
      /\ Append(q, s)[Len(q) + 1] = s /\ Len(q) + 1 \in 1..(Len(q) + 1)
      /\ \A i \in 1..(Len(q) + 1) : i \in 1..Len(q) \/ i = Len(q) + 1
      /\ Append(q, s) # <<>>
  <2>1. /\ Append(q, s) \in Seq(S) /\ Len(Append(q, s)) = Len(q) + 1 /\ Len(q) \in Nat
        /\ DOMAIN q = 1..Len(q) /\ DOMAIN Append(q, s) = 1..(Len(q) + 1)
        /\ \A i \in 1..Len(q) : Append(q, s)[i] = q[i]
        /\ Append(q, s)[Len(q) + 1] = s
    OBVIOUS
  <2>2. /\ \A i \in 1..Len(q) : i \in 1..(Len(q) + 1)
        /\ \A i \in 1..(Len(q) + 1) : i \in 1..Len(q) \/ i = Len(q) + 1
        /\ Len(q) + 1 \in 1..(Len(q) + 1)
    BY <2>1
  <2>3. Append(q, s) # <<>>
    BY <2>1
  <2>. QED BY <2>1, <2>2, <2>3
<1>2. \A i \in 1..Len(q) : q[i] # s
  BY <1>1 DEF Range
<1>3. IsInjective(Append(q, s))
  BY <1>1, <1>2 DEF IsInjective
<1>4. \A x : x \in Range(Append(q, s)) <=> x \in Range(q) \/ x = s
  BY <1>1 DEF Range
<1>5. q # <<>> => Head(Append(q, s)) # s
  <2>1. q # <<>> => 1 \in 1..Len(q)
    BY <1>1
  <2>2. Head(Append(q, s)) = Append(q, s)[1]
    BY <1>1
  <2>. QED BY <2>1, <2>2, <1>1, <1>2
<1>. QED BY <1>1, <1>3, <1>4, <1>5

\* No step, an LLM call or a tool call in progress.
Nothing == {}
Asking(name) == {OpenStep("llm_call", name)}
Using(name) == {OpenStep("tool_call", name)}

LEMMA NoStepShown == Shows(<<>>, {})
BY DEF Shows

\* The strip shows session s in state st.
Strip(mon, s, st) == mon.session = {s} /\ mon.state = st

\* The card of a new session, besides which the cards stay as they are.
Prompted(S, mon, new, s) ==
    /\ MonitorType(new, S) /\ Tidy(new) /\ Strip(new, s, "prompted")
    /\ \A t \in DOMAIN new.tasks :
          \/ /\ t = s /\ new.tasks[t].status = "running"
             /\ new.tasks[t].steps = <<>> /\ Shows(new.tasks[t].steps, Nothing)
          \/ t \in DOMAIN mon.tasks /\ new.tasks[t] = mon.tasks[t]

\* A prompt of a session without card brings its card; at most an old one goes.
LEMMA OnPromptEffect ==
    ASSUME NEW S, NEW mon, MonitorType(mon, S), Tidy(mon), NEW s \in S, NEW r, NewCard(r) \in Card,
           s \notin DOMAIN mon.tasks, NEW new, new = OnPrompt(mon, s, r)
    PROVE  Prompted(S, mon, new, s) /\ new.active = mon.active
<1> DEFINE tasks == WithCard(mon.tasks, s, NewCard(r))
           order == Append(mon.order, s)
           added == [mon EXCEPT !.tasks = tasks, !.order = order]
           kept == Evict(added)
<1>1. mon = [tasks |-> mon.tasks, order |-> mon.order, state |-> mon.state, tool |-> mon.tool,
             session |-> mon.session, active |-> mon.active]
  BY DEF MonitorType
<1>2. added = [tasks |-> tasks, order |-> order, state |-> mon.state, tool |-> mon.tool,
               session |-> mon.session, active |-> mon.active]
  <2> HIDE DEF tasks, order
  <2>1. added = [mon EXCEPT !.tasks = tasks, !.order = order]
    OBVIOUS
  <2> HIDE DEF added
  <2>2. PICK a, b, c, d, e, f :
           mon = [tasks |-> a, order |-> b, state |-> c, tool |-> d, session |-> e, active |-> f]
    BY <1>1, Zenon
  <2>. QED BY <2>1, <2>2
<1>3. /\ DOMAIN tasks = DOMAIN mon.tasks \cup {s}
      /\ \A t \in DOMAIN tasks : tasks[t] = IF t = s THEN NewCard(r) ELSE mon.tasks[t]
      /\ tasks \in [DOMAIN mon.tasks \cup {s} -> Card]
  BY DEF WithCard, MonitorType
<1>4. /\ order \in Seq(S) /\ Len(order) = Len(mon.order) + 1 /\ order # <<>> /\ IsInjective(order)
      /\ \A x : x \in Range(order) <=> x \in Range(mon.order) \/ x = s
      /\ Len(mon.order) \in Nat /\ Len(mon.order) <= MaxTasks /\ Range(mon.order) = DOMAIN mon.tasks
  <2>1. mon.order \in Seq(S) /\ IsInjective(mon.order) /\ s \notin Range(mon.order)
    BY DEF MonitorType, Tidy
  <2>2. Len(mon.order) \in Nat /\ Len(mon.order) <= MaxTasks /\ Range(mon.order) = DOMAIN mon.tasks
    BY <2>1 DEF Tidy
  <2>. QED BY <2>1, <2>2, AppendKeeps
<1>5. new = SetState(kept, "prompted", s)
  BY DEF OnPrompt, HasCard
<1> DEFINE Kept(k) ==
        /\ MonitorType(k, S) /\ Tidy(k) /\ k.active = mon.active
        /\ DOMAIN k.tasks \subseteq DOMAIN mon.tasks \cup {s}
        /\ \A t \in DOMAIN k.tasks : k.tasks[t] = IF t = s THEN NewCard(r) ELSE mon.tasks[t]
<1>8. ASSUME Kept(kept)
      PROVE  Prompted(S, mon, new, s) /\ new.active = mon.active
  <2> HIDE DEF kept
  <2>1. MonitorType(kept, S)
    BY <1>8
  <2>2. /\ MonitorType(new, S) /\ new.tasks = kept.tasks /\ new.order = kept.order
        /\ new.active = kept.active /\ new.state = "prompted" /\ new.session = {s}
    <3>1. "prompted" \in FsmState
      BY DEF FsmState
    <3>. QED BY <3>1, <2>1, <1>5, SetStateEffect
  <2>3. Tidy(new)
    BY <2>2, <1>8 DEF Tidy
  <2>4. /\ NewCard(r).status = "running" /\ NewCard(r).steps = <<>>
        /\ Shows(NewCard(r).steps, Nothing)
    BY NoStepShown DEF NewCard, Nothing
  <2>. QED BY <2>2, <2>3, <2>4, <1>8 DEF Prompted, Strip
<1>6. CASE Len(order) <= MaxTasks
  <2>1. kept = added
    <3>1. ~ (Len(added.order) > MaxTasks)
      BY <1>2, <1>4, <1>6, MonitorAssumption
    <3>. QED BY <3>1 DEF Evict
  <2> HIDE DEF tasks, order, added, kept
  <2>2. MonitorType(kept, S)
    BY <2>1, <1>2, <1>3, <1>4 DEF MonitorType
  <2>3. DOMAIN tasks = Range(order)
    BY <1>3, <1>4
  <2>4. Tidy(kept)
    BY <2>1, <2>3, <1>2, <1>4, <1>6 DEF Tidy
  <2>5. Kept(kept)
    BY <2>1, <2>2, <2>4, <1>2, <1>3
  <2> HIDE DEF Kept
  <2>. QED BY <2>5, <1>5, <1>8
<1>7. CASE Len(order) > MaxTasks
  <2> DEFINE rest == DOMAIN tasks \ {Head(order)}
  <2>1. kept = [tasks |-> Restrict(tasks, rest), order |-> Tail(order), state |-> mon.state,
                tool |-> mon.tool, session |-> mon.session, active |-> mon.active]
    <3>1. kept = [added EXCEPT !.order = Tail(order), !.tasks = Restrict(tasks, rest)]
      <4>1. added.order = order /\ added.tasks = tasks
        BY <1>2
      <4> HIDE DEF tasks, order, added
      <4>. QED BY <4>1, <1>7 DEF Evict
    <3> HIDE DEF tasks, order, added, kept, rest
    <3>. QED BY <3>1, <1>2, Zenon
  <2>2. /\ Tail(order) \in Seq(S) /\ Len(Tail(order)) = Len(order) - 1 /\ IsInjective(Tail(order))
        /\ \A x : x \in Range(Tail(order)) <=> x \in Range(order) /\ x # Head(order)
    <3> HIDE DEF order
    <3>. QED BY <1>4, TailKeeps
  <2> HIDE DEF tasks, order, added, kept
  <2>3. /\ DOMAIN Restrict(tasks, rest) = rest
        /\ \A t \in rest : Restrict(tasks, rest)[t] = tasks[t]
        /\ Restrict(tasks, rest) \in [rest -> Card]
    BY <1>3 DEF Restrict
  <2>4. MonitorType(kept, S)
    BY <2>1, <2>2, <2>3, <1>3 DEF MonitorType
  <2>5. Tidy(kept)
    <3>1. rest = Range(Tail(order))
      BY <1>3, <1>4, <2>2
    <3>2. Len(Tail(order)) <= MaxTasks
      BY <2>2, <1>4, MonitorAssumption
    <3> HIDE DEF rest
    <3>. QED BY <3>1, <3>2, <2>1, <2>2, <2>3 DEF Tidy
  <2>6. Kept(kept)
    BY <2>1, <2>3, <2>4, <2>5, <1>3
  <2> HIDE DEF Kept
  <2>. QED BY <2>6, <1>5, <1>8
<1>. QED BY <1>4, <1>6, <1>7, MonitorAssumption

----------------------------------------------------------------------------
(* What a card shows. *)

LEMMA ShowsOpened ==
    ASSUME NEW steps \in Seq(StepType), Shows(steps, {}), NEW d \in StepType
    PROVE  Shows(Append(steps, d), {d})
<1>1. /\ Len(Append(steps, d)) = Len(steps) + 1 /\ Len(steps) \in Nat
      /\ DOMAIN Append(steps, d) = 1..(Len(steps) + 1) /\ DOMAIN steps = 1..Len(steps)
      /\ \A i \in 1..Len(steps) : Append(steps, d)[i] = steps[i]
      /\ Append(steps, d)[Len(steps) + 1] = d
      /\ Append(steps, d) # <<>>
  <2>1. /\ Len(Append(steps, d)) = Len(steps) + 1 /\ Len(steps) \in Nat
        /\ DOMAIN Append(steps, d) = 1..(Len(steps) + 1) /\ DOMAIN steps = 1..Len(steps)
        /\ \A i \in 1..Len(steps) : Append(steps, d)[i] = steps[i]
        /\ Append(steps, d)[Len(steps) + 1] = d
    OBVIOUS
  <2>. QED BY <2>1
<1>2. \A i \in 1..(Len(steps) + 1) : i \in 1..Len(steps) \/ i = Len(steps) + 1
  BY <1>1
<1>. QED BY <1>1, <1>2 DEF Shows, Last

\* The calls that ended: an open step is none of them.
LEMMA OpenedEndsNone ==
    ASSUME NEW steps \in Seq(StepType), NEW d \in StepType, d.ok = "open"
    PROVE  EndedCalls(Append(steps, d)) = EndedCalls(steps)
<1>1. /\ Len(steps) \in Nat /\ DOMAIN steps = 1..Len(steps)
      /\ DOMAIN Append(steps, d) = 1..(Len(steps) + 1)
      /\ \A i \in 1..Len(steps) : Append(steps, d)[i] = steps[i]
      /\ Append(steps, d)[Len(steps) + 1] = d
  OBVIOUS
<1>2. \A i : i \in 1..(Len(steps) + 1) <=> i \in 1..Len(steps) \/ i = Len(steps) + 1
  BY <1>1
<1> DEFINE more == Append(steps, d)
<1> HIDE DEF more
<1>3. \A i : i \in DOMAIN more /\ more[i].kind = "tool_call" /\ more[i].ok # "open"
            <=> i \in DOMAIN steps /\ steps[i].kind = "tool_call" /\ steps[i].ok # "open"
  BY <1>1, <1>2 DEF more
<1>. QED BY <1>3 DEF EndedCalls, more

\* The first step of a card is none.
LEMMA FirstEndsNone ==
    ASSUME NEW d \in StepType, d.ok = "open", NEW steps, steps = <<>>
    PROVE  EndedCalls(Append(steps, d)) = {}
<1>1. steps \in Seq(StepType) /\ DOMAIN steps = {}
  OBVIOUS
<1>2. EndedCalls(steps) = {}
  BY <1>1 DEF EndedCalls
<1>. QED BY <1>1, <1>2, OpenedEndsNone

----------------------------------------------------------------------------
(* The events. *)

\* A step of session s: the monitor stays in order, and other cards as they are.
Noted(S, mon, new, s) ==
    MonitorType(new, S) /\ Tidy(new) /\ Touches(mon, new, s) /\ new.active = mon.active

LEMMA RoundStartEffect ==
    ASSUME NEW S, NEW mon, MonitorType(mon, S), Tidy(mon), NEW s \in S,
           NEW e, e.kind = "agent_round_start", e.sid = s, NEW new, new = OnEvent(mon, e)
    PROVE  /\ Noted(S, mon, new, s) /\ new.tasks = mon.tasks
           /\ new.state = "prompted" /\ new.session = {s}
<1>1. new = SetState(mon, "prompted", s)
  BY DEF OnEvent, Metrics, History
<1>2. "prompted" \in FsmState
  BY DEF FsmState
<1>3. /\ MonitorType(new, S) /\ new.tasks = mon.tasks /\ new.order = mon.order
      /\ new.active = mon.active /\ new.state = "prompted" /\ new.session = {s}
  BY <1>1, <1>2, SetStateEffect
<1>4. Touches(mon, new, s)
  BY <1>3 DEF Touches
<1>. QED BY <1>3, <1>4, TouchedStaysTidy DEF Noted

LEMMA LlmStartEffect ==
    ASSUME NEW S, NEW mon, MonitorType(mon, S), Tidy(mon), NEW s \in S, NEW name \in STRING,
           NEW e, e.kind = "llm_call_start", e.sid = s, e.name = name,
           NEW new, new = OnEvent(mon, e)
    PROVE  /\ Noted(S, mon, new, s) /\ new.state = "llm" /\ new.session = {s}
           /\ s \in DOMAIN mon.tasks =>
                 /\ new.tasks[s].status = mon.tasks[s].status
                 /\ new.tasks[s].steps = Append(mon.tasks[s].steps, OpenStep("llm_call", name))
<1> DEFINE mid == OpenStepOf(mon, s, OpenStep("llm_call", name))
<1>1. new = SetState(mid, "llm", s)
  BY DEF OnEvent, Metrics, History
<1>2. "llm" \in FsmState /\ OpenStep("llm_call", name) \in StepType
  BY DEF FsmState, OpenStep, StepType
<1>3. /\ MonitorType(mid, S) /\ Touches(mon, mid, s) /\ mid.active = mon.active
      /\ s \in DOMAIN mon.tasks =>
            /\ mid.tasks[s].status = mon.tasks[s].status
            /\ mid.tasks[s].steps = Append(mon.tasks[s].steps, OpenStep("llm_call", name))
  BY <1>2, OpenStepOfEffect
<1> HIDE DEF mid
<1>4. /\ MonitorType(new, S) /\ new.tasks = mid.tasks /\ new.order = mid.order
      /\ new.active = mid.active /\ new.state = "llm" /\ new.session = {s}
  <2>1. MonitorType(mid, S) /\ "llm" \in FsmState
    BY <1>2, <1>3
  <2>. QED BY <2>1, <1>1, SetStateEffect
<1>5. Touches(mon, new, s)
  BY <1>3, <1>4 DEF Touches
<1>. QED BY <1>3, <1>4, <1>5, TouchedStaysTidy DEF Noted

LEMMA LlmEndEffect ==
    ASSUME NEW S, NEW mon, MonitorType(mon, S), Tidy(mon), NEW s \in S, NEW name \in STRING,
           NEW e, e.kind = "llm_call_end", e.sid = s, e.name = name,
           NEW new, new = OnEvent(mon, e)
    PROVE  /\ Noted(S, mon, new, s) /\ new.state = "prompted" /\ new.session = {s}
           /\ s \in DOMAIN mon.tasks =>
                 /\ new.tasks[s].status = mon.tasks[s].status
                 /\ Shows(mon.tasks[s].steps, {OpenStep("llm_call", name)})
                    => new.tasks[s].steps = Closed(mon.tasks[s].steps, e.ok)
                       /\ Shows(new.tasks[s].steps, {})
<1> DEFINE mid == CloseLastStep(mon, s, "llm_call", name, e.ok)
<1>1. new = SetState(mid, "prompted", s)
  BY DEF OnEvent, Metrics, History
<1>2. /\ MonitorType(mid, S) /\ Touches(mon, mid, s) /\ mid.active = mon.active
      /\ s \in DOMAIN mon.tasks => mid.tasks[s].status = mon.tasks[s].status
      /\ s \in DOMAIN mon.tasks /\ Shows(mon.tasks[s].steps, {OpenStep("llm_call", name)})
         => mid.tasks[s].steps = Closed(mon.tasks[s].steps, e.ok) /\ Shows(mid.tasks[s].steps, {})
  <2>1. PICK kind : kind = "llm_call"
    OBVIOUS
  <2>2. mid = CloseLastStep(mon, s, kind, name, e.ok)
    BY <2>1
  <2> HIDE DEF mid
  <2>3. /\ MonitorType(mid, S) /\ Touches(mon, mid, s) /\ mid.active = mon.active
        /\ s \in DOMAIN mon.tasks => mid.tasks[s].status = mon.tasks[s].status
        /\ s \in DOMAIN mon.tasks /\ Shows(mon.tasks[s].steps, {OpenStep(kind, name)})
           => mid.tasks[s].steps = Closed(mon.tasks[s].steps, e.ok) /\ Shows(mid.tasks[s].steps, {})
    <3>1. Closes(S, mon, mid, s, kind, name, e)
      BY <2>2, CloseLastStepEffect
    <3>. QED BY <3>1 DEF Closes
  <2>. QED BY <2>1, <2>3
<1> HIDE DEF mid
<1>3. /\ MonitorType(new, S) /\ new.tasks = mid.tasks /\ new.order = mid.order
      /\ new.active = mid.active /\ new.state = "prompted" /\ new.session = {s}
  <2>1. MonitorType(mid, S) /\ "prompted" \in FsmState
    BY <1>2 DEF FsmState
  <2>. QED BY <2>1, <1>1, SetStateEffect
<1>4. Touches(mon, new, s)
  BY <1>2, <1>3 DEF Touches
<1>. QED BY <1>2, <1>3, <1>4, TouchedStaysTidy DEF Noted

LEMMA SetToolEffect ==
    ASSUME NEW S, NEW mon, MonitorType(mon, S), NEW tool \in ToolName,
           NEW new, new = [mon EXCEPT !.tool = tool]
    PROVE  /\ MonitorType(new, S) /\ new.tasks = mon.tasks /\ new.order = mon.order
           /\ new.active = mon.active
<1>1. mon = [tasks |-> mon.tasks, order |-> mon.order, state |-> mon.state, tool |-> mon.tool,
             session |-> mon.session, active |-> mon.active]
  BY DEF MonitorType
<1>2. new = [tasks |-> mon.tasks, order |-> mon.order, state |-> mon.state, tool |-> tool,
             session |-> mon.session, active |-> mon.active]
  BY <1>1, Zenon
<1>. QED BY <1>2 DEF MonitorType

LEMMA ToolStartEffect ==
    ASSUME NEW S, NEW mon, MonitorType(mon, S), Tidy(mon), NEW s \in S, NEW name \in STRING,
           NEW e, e.kind = "tool_call_start", e.sid = s, e.name = name,
           NEW new, new = OnEvent(mon, e)
    PROVE  /\ Noted(S, mon, new, s) /\ new.state = "tool" /\ new.session = {s}
           /\ s \in DOMAIN mon.tasks =>
                 /\ new.tasks[s].status = mon.tasks[s].status
                 /\ new.tasks[s].steps = Append(mon.tasks[s].steps, OpenStep("tool_call", name))
<1> DEFINE mid == OpenStepOf(mon, s, OpenStep("tool_call", name))
           named == [mid EXCEPT !.tool = name]
<1>1. new = SetState(named, "tool", s)
  BY DEF OnEvent, Metrics, History
<1>2. /\ MonitorType(mid, S) /\ Touches(mon, mid, s) /\ mid.active = mon.active
      /\ s \in DOMAIN mon.tasks =>
            /\ mid.tasks[s].status = mon.tasks[s].status
            /\ mid.tasks[s].steps = Append(mon.tasks[s].steps, OpenStep("tool_call", name))
  <2>1. OpenStep("tool_call", name) \in StepType
    BY DEF OpenStep, StepType
  <2>. QED BY <2>1, OpenStepOfEffect
<1> HIDE DEF mid
<1>3. /\ MonitorType(named, S) /\ named.tasks = mid.tasks /\ named.order = mid.order
      /\ named.active = mid.active
  <2>1. name \in ToolName
    BY DEF ToolName
  <2>. QED BY <2>1, <1>2, SetToolEffect
<1> HIDE DEF named
<1>4. /\ MonitorType(new, S) /\ new.tasks = named.tasks /\ new.order = named.order
      /\ new.active = named.active /\ new.state = "tool" /\ new.session = {s}
  <2>1. MonitorType(named, S) /\ "tool" \in FsmState
    BY <1>3 DEF FsmState
  <2>. QED BY <2>1, <1>1, SetStateEffect
<1>5. Touches(mon, new, s)
  BY <1>2, <1>3, <1>4 DEF Touches
<1>. QED BY <1>2, <1>3, <1>4, <1>5, TouchedStaysTidy DEF Noted

LEMMA ToolEndEffect ==
    ASSUME NEW S, NEW mon, MonitorType(mon, S), Tidy(mon), NEW s \in S, NEW name \in STRING,
           NEW e, e.kind = "tool_call_end", e.sid = s, e.name = name,
           NEW new, new = OnEvent(mon, e)
    PROVE  /\ Noted(S, mon, new, s) /\ new.state = "prompted" /\ new.session = {s}
           /\ s \in DOMAIN mon.tasks =>
                 /\ new.tasks[s].status = mon.tasks[s].status
                 /\ Shows(mon.tasks[s].steps, {OpenStep("tool_call", name)})
                    => new.tasks[s].steps = Closed(mon.tasks[s].steps, e.ok)
                       /\ Shows(new.tasks[s].steps, {})
<1> DEFINE mid == CloseLastStep(mon, s, "tool_call", name, e.ok)
           named == [mid EXCEPT !.tool = ""]
<1>1. new = SetState(named, "prompted", s)
  BY DEF OnEvent, Metrics, History
<1>2. /\ MonitorType(mid, S) /\ Touches(mon, mid, s) /\ mid.active = mon.active
      /\ s \in DOMAIN mon.tasks => mid.tasks[s].status = mon.tasks[s].status
      /\ s \in DOMAIN mon.tasks /\ Shows(mon.tasks[s].steps, {OpenStep("tool_call", name)})
         => mid.tasks[s].steps = Closed(mon.tasks[s].steps, e.ok) /\ Shows(mid.tasks[s].steps, {})
  <2>1. PICK kind : kind = "tool_call"
    OBVIOUS
  <2>2. mid = CloseLastStep(mon, s, kind, name, e.ok)
    BY <2>1
  <2> HIDE DEF mid
  <2>3. /\ MonitorType(mid, S) /\ Touches(mon, mid, s) /\ mid.active = mon.active
        /\ s \in DOMAIN mon.tasks => mid.tasks[s].status = mon.tasks[s].status
        /\ s \in DOMAIN mon.tasks /\ Shows(mon.tasks[s].steps, {OpenStep(kind, name)})
           => mid.tasks[s].steps = Closed(mon.tasks[s].steps, e.ok) /\ Shows(mid.tasks[s].steps, {})
    <3>1. Closes(S, mon, mid, s, kind, name, e)
      BY <2>2, CloseLastStepEffect
    <3>. QED BY <3>1 DEF Closes
  <2>. QED BY <2>1, <2>3
<1> HIDE DEF mid
<1>3. /\ MonitorType(named, S) /\ named.tasks = mid.tasks /\ named.order = mid.order
      /\ named.active = mid.active
  <2>1. PICK none \in ToolName : none = ""
    BY DEF ToolName
  <2>2. named = [mid EXCEPT !.tool = none]
    BY <2>1
  <2> HIDE DEF named
  <2>. QED BY <2>2, <1>2, SetToolEffect
<1> HIDE DEF named
<1>4. /\ MonitorType(new, S) /\ new.tasks = named.tasks /\ new.order = named.order
      /\ new.active = named.active /\ new.state = "prompted" /\ new.session = {s}
  <2>1. MonitorType(named, S) /\ "prompted" \in FsmState
    BY <1>3 DEF FsmState
  <2>. QED BY <2>1, <1>1, SetStateEffect
<1>5. Touches(mon, new, s)
  BY <1>2, <1>3, <1>4 DEF Touches
<1>. QED BY <1>2, <1>3, <1>4, <1>5, TouchedStaysTidy DEF Noted

\* A reply: the card is done, the strip idle, the gauge one lower.
LEMMA RoundEndEffect ==
    ASSUME NEW S, NEW mon, MonitorType(mon, S), Tidy(mon), NEW s \in S,
           NEW e, e.kind = "agent_round_end", e.sid = s, e.ok, NEW new, new = OnEvent(mon, e)
    PROVE  /\ MonitorType(new, S) /\ Tidy(new) /\ Touches(mon, new, s)
           /\ new.active = mon.active - 1 /\ new.session = {}
           /\ s \in DOMAIN mon.tasks => /\ new.tasks[s].status = "done"
                                        /\ new.tasks[s].steps = mon.tasks[s].steps
<1> DEFINE tasks == IF HasCard(mon, s) THEN [mon.tasks EXCEPT ![s].status = "done"] ELSE mon.tasks
<1>1. mon = [tasks |-> mon.tasks, order |-> mon.order, state |-> mon.state, tool |-> mon.tool,
             session |-> mon.session, active |-> mon.active]
  BY DEF MonitorType
<1>2. new = [tasks |-> tasks, order |-> mon.order, state |-> "idle", tool |-> mon.tool,
             session |-> {}, active |-> mon.active - 1]
  <2>1. new = OnRoundEnd([mon EXCEPT !.active = @ - 1], s, e.ok)
    BY DEF OnEvent, Metrics, History
  <2>2. [mon EXCEPT !.active = @ - 1] =
           [tasks |-> mon.tasks, order |-> mon.order, state |-> mon.state, tool |-> mon.tool,
            session |-> mon.session, active |-> mon.active - 1]
    <3>1. PICK a, b, c, d, e0, f :
             mon = [tasks |-> a, order |-> b, state |-> c, tool |-> d, session |-> e0, active |-> f]
      BY <1>1, Zenon
    <3>. QED BY <3>1
  <2>. QED BY <2>1, <2>2 DEF OnRoundEnd, HasCard
<1>3. /\ DOMAIN tasks = DOMAIN mon.tasks /\ tasks \in [DOMAIN mon.tasks -> Card]
      /\ \A t \in DOMAIN mon.tasks : t # s => tasks[t] = mon.tasks[t]
      /\ s \in DOMAIN mon.tasks => tasks[s].status = "done" /\ tasks[s].steps = mon.tasks[s].steps
  <2>1. CASE s \in DOMAIN mon.tasks
    <3> DEFINE card == [mon.tasks[s] EXCEPT !.status = "done"]
    <3>1. tasks = [mon.tasks EXCEPT ![s] = card]
      BY <2>1 DEF HasCard
    <3>2. mon.tasks[s] \in Card
      BY <2>1 DEF MonitorType
    <3>3. card \in Card /\ card.status = "done" /\ card.steps = mon.tasks[s].steps
      BY <3>2 DEF Card
    <3> HIDE DEF card, tasks
    <3>. QED BY <2>1, <3>1, <3>3 DEF MonitorType
  <2>2. CASE s \notin DOMAIN mon.tasks
    BY <2>2 DEF HasCard, MonitorType
  <2>. QED BY <2>1, <2>2
<1> HIDE DEF tasks
<1>4. MonitorType(new, S)
  BY <1>2, <1>3 DEF MonitorType, FsmState
<1>5. Touches(mon, new, s)
  BY <1>2, <1>3 DEF Touches
<1>. QED BY <1>2, <1>3, <1>4, <1>5, TouchedStaysTidy

\* A reset of the metrics clears the monitor.
LEMMA ResetEffect ==
    ASSUME NEW mon, NEW S, MonitorType(mon, S), NEW e, e.kind = "factory_reset",
           NEW new, new = OnEvent(mon, e)
    PROVE  new = Fresh
<1>1. mon = [tasks |-> mon.tasks, order |-> mon.order, state |-> mon.state, tool |-> mon.tool,
             session |-> mon.session, active |-> mon.active]
  BY DEF MonitorType
<1>2. [mon EXCEPT !.active = 0].active = 0
  BY <1>1
<1>3. new = [Fresh EXCEPT !.active = [mon EXCEPT !.active = 0].active]
  BY DEF OnEvent, Metrics, History
<1>. QED BY <1>2, <1>3 DEF Fresh

LEMMA FreshInOrder ==
    ASSUME NEW S
    PROVE  /\ MonitorType(Fresh, S) /\ Tidy(Fresh)
           /\ DOMAIN Fresh.tasks = {} /\ Fresh.session = {} /\ Fresh.active = 0
<1>1. /\ Fresh.tasks = << >> /\ Fresh.order = << >> /\ Fresh.state = "idle" /\ Fresh.tool = ""
      /\ Fresh.session = {} /\ Fresh.active = 0
      /\ Fresh = [tasks |-> Fresh.tasks, order |-> Fresh.order, state |-> Fresh.state,
                  tool |-> Fresh.tool, session |-> Fresh.session, active |-> Fresh.active]
  BY DEF Fresh
<1> DEFINE none == << >>
<1>2. DOMAIN none = {} /\ Len(none) = 0 /\ none \in Seq(S)
  OBVIOUS
<1>3. Range(none) = {} /\ IsInjective(none)
  <2> HIDE DEF none
  <2>. QED BY <1>2 DEF Range, IsInjective
<1>4. none \in [{} -> Card]
  OBVIOUS
<1> HIDE DEF none
<1>5. Fresh.tasks = none /\ Fresh.order = none
  BY <1>1 DEF none
<1>6. MonitorType(Fresh, S)
  <2>1. Fresh.tasks \in [DOMAIN Fresh.tasks -> Card] /\ DOMAIN Fresh.tasks \subseteq S
    BY <1>2, <1>4, <1>5
  <2>2. Fresh.order \in Seq(S)
    BY <1>2, <1>5
  <2>3. Fresh.state \in FsmState /\ Fresh.tool \in ToolName
    BY <1>1 DEF FsmState, ToolName
  <2>4. Fresh.session \subseteq S /\ Fresh.active \in Int
    <3>1. Fresh.session = {} /\ Fresh.active = 0
      BY <1>1
    <3>. QED BY <3>1
  <2>. QED BY <1>1, <2>1, <2>2, <2>3, <2>4 DEF MonitorType
<1>7. Tidy(Fresh)
  BY <1>2, <1>3, <1>5, MonitorAssumption DEF Tidy
<1>. QED BY <1>1, <1>2, <1>5, <1>6, <1>7

----------------------------------------------------------------------------
(* Lists of events. *)

LEMMA EventFields ==
    ASSUME NEW kind, NEW s, NEW name, NEW ok, NEW e, e = Event(kind, s, name, ok)
    PROVE  e.kind = kind /\ e.sid = s /\ e.name = name /\ e.ok = ok
BY DEF Event

LEMMA PlainFields ==
    ASSUME NEW kind, NEW s, NEW e, e = Plain(kind, s)
    PROVE  e.kind = kind /\ e.sid = s
BY DEF Plain, Event

\* The card of s gets a step, an LLM call or a tool call.
Asks(mon, new, s, name) == s \in DOMAIN mon.tasks =>
    new.tasks[s].steps = Append(mon.tasks[s].steps, OpenStep("llm_call", name))
Uses(mon, new, s, name) == s \in DOMAIN mon.tasks =>
    new.tasks[s].steps = Append(mon.tasks[s].steps, OpenStep("tool_call", name))

\* Of a card that shows what s does, the event e closes the last step.
Ends(mon, new, s, from, e) == s \in DOMAIN mon.tasks /\ Shows(mon.tasks[s].steps, from)
                              => new.tasks[s].steps = Closed(mon.tasks[s].steps, e.ok)

\* Session s goes from doing `from` to doing `to`, and its card follows.
Moves(S, mon, new, s, from, to) ==
    /\ Noted(S, mon, new, s)
    /\ s \in DOMAIN mon.tasks =>
          /\ new.tasks[s].status = mon.tasks[s].status
          /\ Shows(mon.tasks[s].steps, from) => Shows(new.tasks[s].steps, to)

LEMMA MovesOn ==
    ASSUME NEW S, NEW a, NEW b, NEW c, NEW s, NEW from, NEW mid, NEW to,
           Moves(S, a, b, s, from, mid), Moves(S, b, c, s, mid, to)
    PROVE  Moves(S, a, c, s, from, to)
<1>1. Noted(S, a, c, s)
  BY DEF Moves, Noted, Touches
<1>2. DOMAIN b.tasks = DOMAIN a.tasks
  BY DEF Moves, Noted, Touches
<1>. QED BY <1>1, <1>2 DEF Moves

LEMMA LlmStartMoves ==
    ASSUME NEW S, NEW mon, MonitorType(mon, S), Tidy(mon), NEW s \in S, NEW name \in STRING,
           NEW e, e.kind = "llm_call_start", e.sid = s, e.name = name,
           NEW new, new = OnEvent(mon, e)
    PROVE  /\ Moves(S, mon, new, s, Nothing, Asking(name)) /\ Strip(new, s, "llm")
           /\ Asks(mon, new, s, name)
<1>1. /\ Noted(S, mon, new, s) /\ new.state = "llm" /\ new.session = {s}
      /\ s \in DOMAIN mon.tasks =>
            /\ new.tasks[s].status = mon.tasks[s].status
            /\ new.tasks[s].steps = Append(mon.tasks[s].steps, OpenStep("llm_call", name))
  BY LlmStartEffect
<1>2. ASSUME s \in DOMAIN mon.tasks, Shows(mon.tasks[s].steps, Nothing)
      PROVE  Shows(new.tasks[s].steps, Asking(name))
  <2>1. mon.tasks[s].steps \in Seq(StepType)
    BY <1>2 DEF MonitorType, Card
  <2>2. PICK d \in StepType : d = OpenStep("llm_call", name)
    BY DEF OpenStep, StepType
  <2>3. Shows(mon.tasks[s].steps, {})
    BY <1>2 DEF Nothing
  <2>4. Shows(Append(mon.tasks[s].steps, d), {d})
    BY <2>1, <2>3, ShowsOpened
  <2>. QED BY <1>1, <1>2, <2>2, <2>4 DEF Asking
<1>. QED BY <1>1, <1>2 DEF Moves, Strip, Asks

LEMMA ToolStartMoves ==
    ASSUME NEW S, NEW mon, MonitorType(mon, S), Tidy(mon), NEW s \in S, NEW name \in STRING,
           NEW e, e.kind = "tool_call_start", e.sid = s, e.name = name,
           NEW new, new = OnEvent(mon, e)
    PROVE  /\ Moves(S, mon, new, s, Nothing, Using(name)) /\ Strip(new, s, "tool")
           /\ Uses(mon, new, s, name)
<1>1. /\ Noted(S, mon, new, s) /\ new.state = "tool" /\ new.session = {s}
      /\ s \in DOMAIN mon.tasks =>
            /\ new.tasks[s].status = mon.tasks[s].status
            /\ new.tasks[s].steps = Append(mon.tasks[s].steps, OpenStep("tool_call", name))
  BY ToolStartEffect
<1>2. ASSUME s \in DOMAIN mon.tasks, Shows(mon.tasks[s].steps, Nothing)
      PROVE  Shows(new.tasks[s].steps, Using(name))
  <2>1. mon.tasks[s].steps \in Seq(StepType)
    BY <1>2 DEF MonitorType, Card
  <2>2. PICK d \in StepType : d = OpenStep("tool_call", name)
    BY DEF OpenStep, StepType
  <2>3. Shows(mon.tasks[s].steps, {})
    BY <1>2 DEF Nothing
  <2>4. Shows(Append(mon.tasks[s].steps, d), {d})
    BY <2>1, <2>3, ShowsOpened
  <2>. QED BY <1>1, <1>2, <2>2, <2>4 DEF Using
<1>. QED BY <1>1, <1>2 DEF Moves, Strip, Uses

LEMMA LlmEndMoves ==
    ASSUME NEW S, NEW mon, MonitorType(mon, S), Tidy(mon), NEW s \in S, NEW name \in STRING,
           NEW e, e.kind = "llm_call_end", e.sid = s, e.name = name, NEW new, new = OnEvent(mon, e)
    PROVE  /\ Moves(S, mon, new, s, Asking(name), Nothing) /\ Strip(new, s, "prompted")
           /\ Ends(mon, new, s, Asking(name), e)
<1>1. /\ Noted(S, mon, new, s) /\ new.state = "prompted" /\ new.session = {s}
      /\ s \in DOMAIN mon.tasks =>
            /\ new.tasks[s].status = mon.tasks[s].status
            /\ Shows(mon.tasks[s].steps, {OpenStep("llm_call", name)})
               => new.tasks[s].steps = Closed(mon.tasks[s].steps, e.ok)
                  /\ Shows(new.tasks[s].steps, {})
  BY LlmEndEffect
<1>. QED BY <1>1 DEF Moves, Strip, Ends, Asking, Nothing

LEMMA ToolEndMoves ==
    ASSUME NEW S, NEW mon, MonitorType(mon, S), Tidy(mon), NEW s \in S, NEW name \in STRING,
           NEW e, e.kind = "tool_call_end", e.sid = s, e.name = name, NEW new, new = OnEvent(mon, e)
    PROVE  /\ Moves(S, mon, new, s, Using(name), Nothing) /\ Strip(new, s, "prompted")
           /\ Ends(mon, new, s, Using(name), e)
<1>1. /\ Noted(S, mon, new, s) /\ new.state = "prompted" /\ new.session = {s}
      /\ s \in DOMAIN mon.tasks =>
            /\ new.tasks[s].status = mon.tasks[s].status
            /\ Shows(mon.tasks[s].steps, {OpenStep("tool_call", name)})
               => new.tasks[s].steps = Closed(mon.tasks[s].steps, e.ok)
                  /\ Shows(new.tasks[s].steps, {})
  BY ToolEndEffect
<1>. QED BY <1>1 DEF Moves, Strip, Ends, Using, Nothing

\* The beginning of a round, from a card without steps or without any open.
LEMMA RoundStartMoves ==
    ASSUME NEW S, NEW mon, MonitorType(mon, S), Tidy(mon), NEW s \in S, NEW name \in STRING,
           NEW e, e.kind = "agent_round_start", e.sid = s,
           NEW f, f.kind = "llm_call_start", f.sid = s, f.name = name,
           NEW new, new = OnEvents(mon, <<e, f>>)
    PROVE  /\ Moves(S, mon, new, s, Nothing, Asking(name)) /\ Strip(new, s, "llm")
           /\ Asks(mon, new, s, name)
<1> DEFINE mid == OnEvent(mon, e)
<1>1. new = OnEvent(mid, f)
  BY OnEventsTwo
<1> HIDE DEF mid
<1>2. Noted(S, mon, mid, s) /\ mid.tasks = mon.tasks
  BY RoundStartEffect DEF mid
<1>3. Moves(S, mon, mid, s, Nothing, Nothing)
  BY <1>2 DEF Moves
<1>4. MonitorType(mid, S) /\ Tidy(mid)
  BY <1>2 DEF Noted
<1>5. /\ Moves(S, mid, new, s, Nothing, Asking(name)) /\ Strip(new, s, "llm")
      /\ Asks(mid, new, s, name)
  BY <1>1, <1>4, LlmStartMoves
<1>6. Moves(S, mon, new, s, Nothing, Asking(name))
  BY <1>3, <1>5, MovesOn
<1>. QED BY <1>2, <1>5, <1>6 DEF Asks

LEMMA NewCardIsCard == NewCard(FALSE) \in Card /\ NewCard(TRUE) \in Card
BY DEF NewCard, Card

LEMMA SubmittedEffect ==
    ASSUME NEW S, NEW mon, MonitorType(mon, S), Tidy(mon), NEW s \in S, s \notin DOMAIN mon.tasks,
           NEW e, e.kind = "prompt_submitted", e.sid = s, NEW new, new = OnEvent(mon, e)
    PROVE  Prompted(S, mon, new, s) /\ new.active = mon.active + 1
<1> DEFINE counted == [mon EXCEPT !.active = @ + 1]
<1>1. new = OnPrompt(counted, s, FALSE)
  BY DEF OnEvent, Metrics, History
<1>2. mon = [tasks |-> mon.tasks, order |-> mon.order, state |-> mon.state, tool |-> mon.tool,
             session |-> mon.session, active |-> mon.active]
  BY DEF MonitorType
<1>3. PICK a, b, c, d, x, f :
         mon = [tasks |-> a, order |-> b, state |-> c, tool |-> d, session |-> x, active |-> f]
  BY <1>2, Zenon
<1>4. counted = [tasks |-> mon.tasks, order |-> mon.order, state |-> mon.state, tool |-> mon.tool,
                 session |-> mon.session, active |-> mon.active + 1]
  BY <1>3
<1> HIDE DEF counted
<1>5. /\ MonitorType(counted, S) /\ Tidy(counted) /\ counted.active = mon.active + 1
      /\ counted.tasks = mon.tasks
  BY <1>4 DEF MonitorType, Tidy
<1>6. PICK r : r = FALSE
  OBVIOUS
<1>7. Prompted(S, counted, new, s) /\ new.active = counted.active
  <2>1. NewCard(r) \in Card
    BY <1>6, NewCardIsCard
  <2>2. new = OnPrompt(counted, s, r)
    BY <1>1, <1>6
  <2>3. s \notin DOMAIN counted.tasks
    BY <1>5
  <2>. QED BY <2>1, <2>2, <2>3, <1>5, OnPromptEffect
<1>8. Prompted(S, mon, new, s)
  BY <1>5, <1>7 DEF Prompted
<1>. QED BY <1>5, <1>6, <1>7, <1>8

LEMMA RestoredEffect ==
    ASSUME NEW S, NEW mon, MonitorType(mon, S), Tidy(mon), NEW s \in S, s \notin DOMAIN mon.tasks,
           NEW e, e.kind = "session_restored", e.sid = s, NEW new, new = OnEvent(mon, e)
    PROVE  Prompted(S, mon, new, s) /\ new.active = mon.active
<1>1. new = OnPrompt(mon, s, TRUE)
  BY DEF OnEvent, Metrics, History
<1>2. PICK r : r = TRUE
  OBVIOUS
<1>3. Prompted(S, mon, new, s) /\ new.active = mon.active
  <2>1. NewCard(r) \in Card
    BY <1>2, NewCardIsCard
  <2>2. new = OnPrompt(mon, s, r)
    BY <1>1, <1>2
  <2>. QED BY <2>1, <2>2, OnPromptEffect
<1>. QED BY <1>2, <1>3

----------------------------------------------------------------------------
(* What _replay publishes when a session has ended. *)

\* Sessions of R get new cards, on which `doing` is in progress, and the strip;
\* the other cards stay, or go for the new ones.
Restores(S, mon, new, R, doing) ==
    /\ MonitorType(new, S) /\ Tidy(new) /\ new.active = mon.active
    /\ \A t \in DOMAIN new.tasks :
          \/ t \in DOMAIN mon.tasks /\ new.tasks[t] = mon.tasks[t]
          \/ /\ t \in R /\ new.tasks[t].status = "running"
             /\ Shows(new.tasks[t].steps, doing) /\ EndedCalls(new.tasks[t].steps) = {}

\* The next restored session runs to its LLM call.
LEMMA OneRestored ==
    ASSUME NEW S, NEW mon, MonitorType(mon, S), Tidy(mon), NEW s \in S, s \notin DOMAIN mon.tasks,
           NEW name \in STRING,
           NEW e, e.kind = "session_restored", e.sid = s,
           NEW f, f.kind = "agent_round_start", f.sid = s,
           NEW g, g.kind = "llm_call_start", g.sid = s, g.name = name,
           NEW new, new = OnEvents(OnEvent(mon, e), <<f, g>>)
    PROVE  Restores(S, mon, new, {s}, Asking(name)) /\ Strip(new, s, "llm")
<1> DEFINE mid == OnEvent(mon, e)
<1>1. Prompted(S, mon, mid, s) /\ mid.active = mon.active
  BY RestoredEffect
<1>2. new = OnEvents(mid, <<f, g>>)
  OBVIOUS
<1> HIDE DEF mid
<1>3. MonitorType(mid, S) /\ Tidy(mid)
  BY <1>1 DEF Prompted
<1>4. /\ Moves(S, mid, new, s, Nothing, Asking(name)) /\ Strip(new, s, "llm")
      /\ Asks(mid, new, s, name)
  BY <1>2, <1>3, RoundStartMoves
<1>5. MonitorType(new, S) /\ Tidy(new) /\ new.active = mon.active /\ Touches(mid, new, s)
  BY <1>1, <1>4 DEF Moves, Noted
<1>6. ASSUME NEW t \in DOMAIN new.tasks
      PROVE  \/ t \in DOMAIN mon.tasks /\ new.tasks[t] = mon.tasks[t]
             \/ /\ t \in {s} /\ new.tasks[t].status = "running"
                /\ Shows(new.tasks[t].steps, Asking(name)) /\ EndedCalls(new.tasks[t].steps) = {}
  <2>1. t \in DOMAIN mid.tasks
    BY <1>5 DEF Touches
  <2>2. CASE t # s
    BY <2>1, <2>2, <1>1, <1>5 DEF Prompted, Touches
  <2>3. CASE t = s
    <3>1. CASE /\ mid.tasks[t].status = "running" /\ mid.tasks[t].steps = <<>>
               /\ Shows(mid.tasks[t].steps, Nothing)
      <4>1. new.tasks[t].status = "running" /\ Shows(new.tasks[t].steps, Asking(name))
        BY <2>1, <2>3, <3>1, <1>4 DEF Moves
      <4>2. PICK d \in StepType : d = OpenStep("llm_call", name) /\ d.ok = "open"
        <5>1. OpenStep("llm_call", name) \in StepType /\ OpenStep("llm_call", name).ok = "open"
          BY DEF OpenStep, StepType
        <5>. QED BY <5>1
      <4>3. new.tasks[t].steps = Append(mid.tasks[t].steps, d)
        BY <2>1, <2>3, <4>2, <1>4 DEF Asks
      <4>4. EndedCalls(new.tasks[t].steps) = {}
        BY <3>1, <4>2, <4>3, FirstEndsNone
      <4>. QED BY <2>3, <4>1, <4>4
    <3>. QED BY <2>1, <2>3, <3>1, <1>1 DEF Prompted
  <2>. QED BY <2>2, <2>3
<1>. QED BY <1>4, <1>5, <1>6 DEF Restores

\* The agent being stopped, all that remain are announced, however many.
LEMMA AllRestored ==
    ASSUME NEW S, NEW mon, MonitorType(mon, S), Tidy(mon), NEW rest \in Seq(S), IsInjective(rest),
           \A i \in DOMAIN rest : rest[i] \notin DOMAIN mon.tasks,
           NEW events, Len(events) = Len(rest),
           \A i \in DOMAIN rest : events[i].kind = "session_restored" /\ events[i].sid = rest[i],
           NEW new, new = OnEvents(mon, events)
    PROVE  /\ Restores(S, mon, new, Range(rest), Nothing)
           /\ \/ new.session = mon.session /\ new.state = mon.state
              \/ new.session \subseteq Range(rest)
<1>1. Len(rest) \in Nat /\ DOMAIN rest = 1..Len(rest) /\ \A i \in 1..Len(rest) : rest[i] \in S
  OBVIOUS
<1>2. PICK f : Run(f, mon, events, Len(events)) /\ OnEvents(mon, events) = f[Len(events)]
  BY <1>1, RunOfOnEvents
<1>3. f[0] = mon /\ Takes(f, events, Len(rest))
  BY <1>1, <1>2, RunTakes
<1> DEFINE New(card) == /\ card.status = "running" /\ Shows(card.steps, Nothing)
                        /\ EndedCalls(card.steps) = {}
    Good(i) ==
        /\ MonitorType(f[i], S) /\ Tidy(f[i]) /\ f[i].active = mon.active
        /\ \A t \in DOMAIN f[i].tasks :
              \/ t \in DOMAIN mon.tasks /\ f[i].tasks[t] = mon.tasks[t]
              \/ New(f[i].tasks[t]) /\ \E j \in 1..i : t = rest[j]
        /\ i = 0 \/ f[i].session = {rest[i]}
    N == {i \in 0..Len(rest) : ~ Good(i)}
<1>4. N = {}
  <2>1. SUFFICES ASSUME N # {} PROVE FALSE
    OBVIOUS
  <2>2. N \in SUBSET Nat
    <3> HIDE DEF Good
    <3>. QED BY <1>1
  <2>3. PICK n \in N : \A k \in N : n <= k
    <3> HIDE DEF N
    <3>. QED BY <2>1, <2>2, LeastNat
  <2>4. n \in 0..Len(rest) /\ ~ Good(n)
    OBVIOUS
  <2>5. Good(0)
    BY <1>3
  <2>6. n # 0
    BY <2>4, <2>5
  <2>7. n - 1 \in 0..Len(rest) /\ n \in 1..Len(rest) /\ n \in Nat /\ n - 1 < n
    BY <2>4, <2>6, <1>1
  <2>8. Good(n - 1)
    <3>1. ~ (n - 1 \in N)
      <4> HIDE DEF N
      <4>. QED BY <2>3, <2>7
    <3> HIDE DEF Good
    <3>. QED BY <3>1, <2>7
  <2>9. PICK prev, next : prev = f[n - 1] /\ next = f[n]
    OBVIOUS
  <2>10. next = OnEvent(prev, events[n])
    BY <2>7, <2>9, <1>3 DEF Takes
  <2>11. rest[n] \notin DOMAIN prev.tasks
    <3>1. ASSUME NEW t \in DOMAIN prev.tasks PROVE t # rest[n]
      <4>1. CASE t \in DOMAIN mon.tasks
        BY <4>1, <2>7, <1>1
      <4>2. CASE \E j \in 1..(n - 1) : t = rest[j]
        <5>1. PICK j \in 1..(n - 1) : t = rest[j]
          BY <4>2
        <5>2. j \in 1..Len(rest) /\ j # n
          BY <2>7, <1>1
        <5>. QED BY <5>1, <5>2, <2>7, <1>1 DEF IsInjective
      <4>. QED BY <4>1, <4>2, <2>8, <2>9
    <3>. QED BY <3>1
  <2>12. Prompted(S, prev, next, rest[n]) /\ next.active = prev.active
    <3>1. MonitorType(prev, S) /\ Tidy(prev)
      BY <2>8, <2>9
    <3>2. PICK s \in S : s = rest[n]
      BY <2>7, <1>1
    <3>2e. PICK e : e = events[n]
      OBVIOUS
    <3>3. e.kind = "session_restored" /\ e.sid = s
      BY <3>2, <3>2e, <2>7, <1>1
    <3>4. next = OnEvent(prev, e) /\ s \notin DOMAIN prev.tasks
      BY <3>2, <3>2e, <2>10, <2>11
    <3>5. Prompted(S, prev, next, s) /\ next.active = prev.active
      BY <3>1, <3>3, <3>4, RestoredEffect
    <3>. QED BY <3>2, <3>5
  <2>13. ASSUME NEW t \in DOMAIN next.tasks
         PROVE  \/ t \in DOMAIN mon.tasks /\ next.tasks[t] = mon.tasks[t]
                \/ New(next.tasks[t]) /\ \E j \in 1..n : t = rest[j]
    <3>1. CASE /\ t = rest[n] /\ next.tasks[t].status = "running"
               /\ next.tasks[t].steps = <<>> /\ Shows(next.tasks[t].steps, Nothing)
      <4>1. n \in 1..n
        BY <2>7
      <4>2. EndedCalls(next.tasks[t].steps) = {}
        BY <3>1 DEF EndedCalls
      <4>. QED BY <3>1, <4>1, <4>2
    <3>2. CASE t \in DOMAIN prev.tasks /\ next.tasks[t] = prev.tasks[t]
      <4>1. \A j \in 1..(n - 1) : j \in 1..n
        BY <2>7
      <4>. QED BY <3>2, <4>1, <2>8, <2>9
    <3>. QED BY <3>1, <3>2, <2>12 DEF Prompted
  <2>14. /\ MonitorType(next, S) /\ Tidy(next) /\ next.active = mon.active
         /\ next.session = {rest[n]}
    BY <2>8, <2>9, <2>12 DEF Prompted, Strip
  <2>15. Good(n)
    BY <2>9, <2>13, <2>14
  <2>. QED BY <2>4, <2>15
<1>5. Good(Len(rest))
  <2>1. Len(rest) \in 0..Len(rest)
    BY <1>1
  <2>. QED BY <2>1, <1>4
<1>6. new = f[Len(rest)]
  BY <1>2
<1>7. ASSUME NEW t \in DOMAIN new.tasks
      PROVE  \/ t \in DOMAIN mon.tasks /\ new.tasks[t] = mon.tasks[t]
             \/ /\ t \in Range(rest) /\ new.tasks[t].status = "running"
                /\ Shows(new.tasks[t].steps, Nothing) /\ EndedCalls(new.tasks[t].steps) = {}
  <2>1. CASE New(new.tasks[t]) /\ \E j \in 1..Len(rest) : t = rest[j]
    BY <2>1, <1>1 DEF Range
  <2>. QED BY <2>1, <1>5, <1>6
<1>8. Restores(S, mon, new, Range(rest), Nothing)
  BY <1>5, <1>6, <1>7 DEF Restores
<1>9. \/ new.session = mon.session /\ new.state = mon.state
      \/ new.session \subseteq Range(rest)
  <2>1. CASE Len(rest) = 0
    BY <2>1, <1>3, <1>6
  <2>2. CASE Len(rest) # 0
    <3>1. Len(rest) \in 1..Len(rest) /\ new.session = {rest[Len(rest)]}
      BY <2>2, <1>1, <1>5, <1>6
    <3>. QED BY <3>1, <1>1 DEF Range
  <2>. QED BY <2>1, <2>2
<1>. QED BY <1>8, <1>9
=============================================================================
