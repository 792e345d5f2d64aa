------------------------ MODULE GigaChatClientProofs ------------------------
(***************************************************************************)
(* Proofs about GigaChatClient, for any set of concurrent callers and of   *)
(* commands that close the client, any lifetimes of tokens and any lead.   *)
(***************************************************************************)
EXTENDS GigaChatClient, TLAPS

(***************************************************************************)
(* The inductive invariant.  TypeOK says that the lock's queue holds the   *)
(* suspended callers, each once; the conjuncts below say who is inside the *)
(* lock, what its request is worth, and which client a close() has marked. *)
(***************************************************************************)

\* The lock is held by the one caller whose token request is under way.
LockIsHeld ==
    /\ \A c \in Callers : c \in holder <=> pc[c] = "refreshing"
    /\ \A c, d \in holder : c = d

\* A token that may still arrive is younger than the cached one.
RequestsAreAhead ==
    /\ token.serial <= issued /\ (token.serial = 0 => token = None)
    /\ \A c \in holder : token.serial < request[c] /\ request[c] <= issued

\* Clients are numbered from 1 in the order of their construction.
ClientsAreMade == http \in 0..made /\ open \subseteq 1..made

\* A close() that is suspended has closed the pooled client, unless another
\* close() has forgotten that one meanwhile.
ClosingKnows ==
    \A k \in Closers : closing[k] = "aclose" =>
        \/ http # 0 /\ http \notin open
        \/ \E j \in Closers : j # k /\ closing[j] = "done"

IInv == TypeOK /\ LockIsHeld /\ RequestsAreAhead /\ ClientsAreMade /\ ClosingKnows

Place == {"idle", "waiting", "refreshing", "chatting"}

----------------------------------------------------------------------------
(* Lemmas about the queue of the lock. *)

\* The queue q holds the callers that wait at p, each once.
Holds(q, p) ==
    /\ \A i, j \in 1..Len(q) : q[i] = q[j] => i = j
    /\ \A i \in 1..Len(q) : p[q[i]] = "waiting"
    /\ \A c \in Callers : p[c] = "waiting" => \E i \in 1..Len(q) : q[i] = c

LEMMA QueueHolds ==
    ASSUME NEW q \in Seq(Callers), NEW p \in [Callers -> Place]
    PROVE  IsInjective(q) /\ ToSet(q) = {c \in Callers : p[c] = "waiting"} <=> Holds(q, p)
  <1>1. DOMAIN q = 1..Len(q) /\ \A i \in 1..Len(q) : q[i] \in Callers
    OBVIOUS
  <1>2. IsInjective(q) <=> \A i, j \in 1..Len(q) : q[i] = q[j] => i = j
    BY <1>1 DEF IsInjective
  <1>3. ToSet(q) = {c \in Callers : p[c] = "waiting"}
        <=> /\ \A i \in 1..Len(q) : p[q[i]] = "waiting"
            /\ \A c \in Callers : p[c] = "waiting" => \E i \in 1..Len(q) : q[i] = c
    BY <1>1 DEF ToSet
  <1> QED
    BY <1>2, <1>3 DEF Holds

\* A caller joins the end of the queue.
LEMMA QueueJoined ==
    ASSUME NEW q \in Seq(Callers), NEW p \in [Callers -> Place], Holds(q, p),
           NEW c \in Callers, p[c] # "waiting"
    PROVE  Holds(Append(q, c), [p EXCEPT ![c] = "waiting"])
  <1> DEFINE r == Append(q, c)
             n == [p EXCEPT ![c] = "waiting"]
  <1>1. /\ Len(r) = Len(q) + 1 /\ r[Len(q) + 1] = c
        /\ \A i \in 1..Len(q) : r[i] = q[i] /\ q[i] \in Callers /\ q[i] # c
    BY DEF Holds
  <1>2. \A i \in 1..Len(r) : i \in 1..Len(q) \/ i = Len(q) + 1
    BY <1>1
  <1>3. \A i, j \in 1..Len(r) : r[i] = r[j] => i = j
    BY <1>1, <1>2 DEF Holds
  <1>4. \A i \in 1..Len(r) : n[r[i]] = "waiting"
    BY <1>1, <1>2 DEF Holds
  <1>5. ASSUME NEW d \in Callers, n[d] = "waiting" PROVE \E i \in 1..Len(r) : r[i] = d
    <2>1. CASE d = c
      BY <1>1, <2>1
    <2>2. CASE d # c
      BY <1>1, <1>5, <2>2 DEF Holds
    <2> QED
      BY <2>1, <2>2
  <1> QED
    BY <1>3, <1>4, <1>5 DEF Holds

\* The first of the queue leaves it.
LEMMA QueuePassed ==
    ASSUME NEW q \in Seq(Callers), NEW p \in [Callers -> Place], Holds(q, p), q # <<>>,
           NEW v \in Place, v # "waiting"
    PROVE  Holds(Tail(q), [p EXCEPT ![Head(q)] = v])
  <1> DEFINE r == Tail(q)
             n == [p EXCEPT ![Head(q)] = v]
  <1>1. /\ Len(r) = Len(q) - 1 /\ Head(q) = q[1] /\ Len(q) \in Nat /\ Len(q) > 0
        /\ \A i \in 1..Len(r) : r[i] = q[i + 1]
        /\ \A i \in 1..Len(q) : q[i] \in Callers
    OBVIOUS
  <1>2. \A i \in 1..Len(r) : i + 1 \in 1..Len(q) /\ i + 1 # 1
    BY <1>1
  <1>3. \A i, j \in 1..Len(r) : r[i] = r[j] => i = j
    BY <1>1, <1>2 DEF Holds
  <1>4. \A i \in 1..Len(r) : n[r[i]] = "waiting"
    BY <1>1, <1>2 DEF Holds
  <1>5. ASSUME NEW d \in Callers, n[d] = "waiting" PROVE \E i \in 1..Len(r) : r[i] = d
    <2>1. d # Head(q) /\ p[d] = "waiting"
      BY <1>1, <1>5
    <2>2. PICK i \in 1..Len(q) : q[i] = d
      BY <2>1 DEF Holds
    <2>3. i - 1 \in 1..Len(r) /\ r[i - 1] = d
      BY <1>1, <2>1, <2>2
    <2> QED
      BY <2>3
  <1> QED
    BY <1>3, <1>4, <1>5 DEF Holds

\* A caller leaves the queue from where it is.
LEMMA QueueLeft ==
    ASSUME NEW q \in Seq(Callers), NEW p \in [Callers -> Place], Holds(q, p),
           NEW k \in 1..Len(q), NEW v \in Place, v # "waiting"
    PROVE  /\ RemoveAt(q, k) \in Seq(Callers)
           /\ Holds(RemoveAt(q, k), [p EXCEPT ![q[k]] = v])
  <1> DEFINE r == RemoveAt(q, k)
             n == [p EXCEPT ![q[k]] = v]
             was(i) == IF i < k THEN i ELSE i + 1
  <1>1. \A i \in 1..Len(q) : q[i] \in Callers
    OBVIOUS
  <1>2. /\ r \in Seq(Callers) /\ Len(r) = Len(q) - 1
        /\ \A i \in 1..Len(r) : r[i] = q[was(i)]
    <2> DEFINE a == SubSeq(q, 1, k - 1)
               b == SubSeq(q, k + 1, Len(q))
    <2>1. /\ a \in Seq(Callers) /\ Len(a) = k - 1
          /\ \A i \in 1..(k - 1) : a[i] = q[i]
      BY <1>1
    <2>2. /\ b \in Seq(Callers) /\ Len(b) = Len(q) - k
          /\ \A i \in 1..(Len(q) - k) : b[i] = q[i + k]
      BY <1>1
    <2>3. r = a \o b
      BY DEF RemoveAt
    <2> HIDE DEF a, b, r
    <2>4. /\ r \in Seq(Callers) /\ Len(r) = Len(q) - 1
          /\ \A i \in 1..(k - 1) : r[i] = q[i]
          /\ \A i \in k..(Len(q) - 1) : r[i] = b[i - (k - 1)] /\ i - (k - 1) \in 1..(Len(q) - k)
      BY <2>1, <2>2, <2>3
    <2>5. ASSUME NEW i \in 1..Len(r) PROVE r[i] = q[was(i)]
      <3>1. CASE i < k
        BY <2>4, <3>1
      <3>2. CASE i >= k
        <4>1. i \in k..(Len(q) - 1) /\ i - (k - 1) + k = i + 1
          BY <2>4, <3>2
        <4>2. r[i] = q[i + 1]
          BY <2>2, <2>4, <4>1
        <4> QED
          BY <3>2, <4>2
      <3> QED
        BY <2>4, <3>1, <3>2
    <2> QED
      BY <2>4, <2>5
  <1>3. \A i \in 1..Len(r) : was(i) \in 1..Len(q) /\ was(i) # k
    BY <1>2
  <1>4. ASSUME NEW i \in 1..Len(r), NEW j \in 1..Len(r), r[i] = r[j] PROVE i = j
    <2>1. q[was(i)] = q[was(j)]
      BY <1>2, <1>4
    <2>2. was(i) = was(j)
      BY <1>3, <2>1 DEF Holds
    <2> QED
      BY <1>2, <2>2
  <1>5. \A i \in 1..Len(r) : n[r[i]] = "waiting"
    BY <1>1, <1>2, <1>3 DEF Holds
  <1>6. ASSUME NEW d \in Callers, n[d] = "waiting" PROVE \E i \in 1..Len(r) : r[i] = d
    <2>1. d # q[k] /\ p[d] = "waiting"
      BY <1>1, <1>6
    <2>2. PICK i \in 1..Len(q) : q[i] = d
      BY <2>1 DEF Holds
    <2>3. CASE i < k
      BY <1>2, <2>2, <2>3
    <2>4. CASE i > k
      <3>1. i - 1 \in 1..Len(r) /\ was(i - 1) = i
        BY <1>2, <2>4
      <3> QED
        BY <1>2, <2>2, <3>1
    <2> QED
      BY <2>1, <2>2, <2>3, <2>4
  <1> QED
    BY <1>2, <1>4, <1>5, <1>6 DEF Holds

\* A caller outside of the queue moves on outside of it.
LEMMA QueueKept ==
    ASSUME NEW q \in Seq(Callers), NEW p \in [Callers -> Place], Holds(q, p),
           NEW c \in Callers, p[c] # "waiting", NEW v \in Place, v # "waiting"
    PROVE  Holds(q, [p EXCEPT ![c] = v])
  <1>1. \A i \in 1..Len(q) : q[i] \in Callers /\ q[i] # c
    BY DEF Holds
  <1> QED
    BY <1>1 DEF Holds

----------------------------------------------------------------------------
(* Lemmas about the operators of the client. *)

\* A request gets the pooled client or a new one: the pool never shrinks here.
LEMMA GetHttpEffect ==
    ASSUME TypeOK, ClientsAreMade, GetHttp
    PROVE  /\ http' \in Nat /\ made' \in Nat /\ open' \subseteq Nat
           /\ ClientsAreMade'
           /\ http' # 0
           /\ http # 0 => http' = http /\ open' = open
           /\ open' \ {http'} \subseteq open \ {http}
  <1> USE DEF GetHttp, httpVars, ClientsAreMade
  <1>1. http \in Nat /\ made \in Nat /\ open \subseteq Nat
    BY DEF TypeOK
  <1>2. CASE http # 0
    <2>1. http' = http /\ made' = made /\ open' = open
      BY <1>2
    <2> QED
      BY <1>1, <1>2, <2>1
  <1>3. CASE http = 0
    <2>1. made' = made + 1 /\ http' = made + 1 /\ open' = open \cup {made + 1}
      BY <1>3
    <2>2. open' \ {http'} \subseteq open /\ 0 \notin open
      BY <1>1, <2>1
    <2>3. http' \in 0..made' /\ open' \subseteq 1..made'
      BY <1>1, <2>1
    <2> QED
      BY <1>1, <1>3, <2>1, <2>2, <2>3
  <1> QED
    BY <1>2, <1>3

\* A chat request is posted, or refused by a closed client.
LEMMA PostChatEffect ==
    ASSUME TypeOK, NEW c \in Callers, PostChat(c)
    PROVE  \E v \in Place \ {"waiting", "refreshing"} : pc' = [pc EXCEPT ![c] = v]
  <1>1. CASE pc' = [pc EXCEPT ![c] = "chatting"]
    BY <1>1 DEF Place
  <1>2. CASE pc' = [pc EXCEPT ![c] = "idle"]
    BY <1>2 DEF Place
  <1> QED
    BY <1>1, <1>2 DEF PostChat

\* A token request is posted under the lock, with the next serial number, or
\* refused by a closed client.
LEMMA PostTokenEffect ==
    ASSUME TypeOK, NEW c \in Callers, NEW held, PostToken(c, held)
    PROVE  \/ /\ pc' = [pc EXCEPT ![c] = "refreshing"]
              /\ holder' = held \cup {c} /\ issued' = issued + 1
              /\ request' = [request EXCEPT ![c] = issued + 1]
           \/ /\ pc' = [pc EXCEPT ![c] = "idle"]
              /\ holder' = held \ {c} /\ UNCHANGED <<issued, request>>
  BY DEF PostToken

----------------------------------------------------------------------------
(* Types. *)

\* TypeOK but for the queue of the lock.
Scalars ==
    /\ now \in 0..MaxTime
    /\ token \in [serial : Nat, expires : Nat]
    /\ holder \subseteq Callers /\ waiters \in Seq(Callers)
    /\ issued \in Nat /\ request \in [Callers -> Nat]
    /\ pc \in [Callers -> Place]
    /\ calls \in [Callers -> 0..MaxCalls]
    /\ http \in Nat /\ made \in Nat /\ open \subseteq Nat
    /\ closing \in [Closers -> {"no", "aclose", "done"}]

LEMMA TypeParts == TypeOK <=> Scalars /\ Holds(waiters, pc)
  BY QueueHolds DEF TypeOK, Scalars, Place

LEMMA TypePartsNext == TypeOK' <=> Scalars' /\ Holds(waiters', pc')
  BY QueueHolds DEF TypeOK, Scalars, Place

\* What chat() and _ensure_token assign keeps its type.
LEMMA PostTypes ==
    ASSUME TypeOK, ClientsAreMade, NEW c \in Callers,
           \/ PostChat(c) /\ UNCHANGED <<holder, issued, request>>
           \/ \E held \in SUBSET Callers : PostToken(c, held)
    PROVE  /\ holder' \subseteq Callers /\ issued' \in Nat /\ request' \in [Callers -> Nat]
           /\ pc' \in [Callers -> Place]
           /\ http' \in Nat /\ made' \in Nat /\ open' \subseteq Nat
  <1>1. CASE PostChat(c) /\ UNCHANGED <<holder, issued, request>>
    BY <1>1, GetHttpEffect DEF PostChat, TypeOK, Place
  <1>2. ASSUME NEW held \in SUBSET Callers, PostToken(c, held)
        PROVE  /\ holder' \subseteq Callers /\ issued' \in Nat /\ request' \in [Callers -> Nat]
               /\ pc' \in [Callers -> Place]
               /\ http' \in Nat /\ made' \in Nat /\ open' \subseteq Nat
    <2>1. http' \in Nat /\ made' \in Nat /\ open' \subseteq Nat
      BY <1>2, GetHttpEffect DEF PostToken
    <2>2. /\ holder \subseteq Callers /\ issued \in Nat /\ request \in [Callers -> Nat]
          /\ pc \in [Callers -> Place]
      BY DEF TypeOK, Place
    <2>3. CASE /\ pc' = [pc EXCEPT ![c] = "refreshing"]
               /\ holder' = held \cup {c} /\ issued' = issued + 1
               /\ request' = [request EXCEPT ![c] = issued + 1]
      BY <1>2, <2>1, <2>2, <2>3 DEF Place
    <2>4. CASE /\ pc' = [pc EXCEPT ![c] = "idle"]
               /\ holder' = held \ {c} /\ UNCHANGED <<issued, request>>
      BY <1>2, <2>1, <2>2, <2>4 DEF Place
    <2> QED
      BY <1>2, <2>3, <2>4, PostTokenEffect
  <1> QED
    BY <1>1, <1>2

LEMMA NextScalars ==
    ASSUME TypeOK, ClientsAreMade, [Next]_vars
    PROVE  Scalars'
  <1> USE DEF Scalars, tokenVars, httpVars
  <1>0. Scalars
    BY TypeParts
  <1>1. CASE Tick
    BY <1>0, <1>1, ClientAssumption DEF Tick
  <1>2. ASSUME NEW c \in Callers, Call(c) PROVE Scalars'
    <2>1. calls' \in [Callers -> 0..MaxCalls]
      BY <1>0, <1>2, ClientAssumption DEF Call
    <2>2. CASE Valid /\ PostChat(c) /\ UNCHANGED tokenVars
      BY <1>0, <1>2, <2>1, <2>2, PostTypes DEF Call
    <2>3. CASE ~Valid /\ Free /\ PostToken(c, holder) /\ UNCHANGED <<token, waiters>>
      <3>1. holder \in SUBSET Callers
        BY <1>0
      <3> QED
        BY <1>0, <1>2, <2>1, <2>3, <3>1, PostTypes DEF Call
    <2>4. CASE /\ waiters' = Append(waiters, c)
               /\ pc' = [pc EXCEPT ![c] = "waiting"]
               /\ UNCHANGED <<token, holder, issued, request, httpVars>>
      BY <1>0, <1>2, <2>1, <2>4 DEF Call, Place
    <2> QED
      BY <1>2, <2>2, <2>3, <2>4 DEF Call
  <1>3. ASSUME NEW c \in Callers, Acquire(c) PROVE Scalars'
    <2>1. Tail(waiters) \in Seq(Callers) /\ holder \in SUBSET Callers
      BY <1>0, <1>3 DEF Acquire
    <2> QED
      BY <1>0, <1>3, <2>1, PostTypes DEF Acquire
  <1>4. ASSUME NEW c \in Callers, TokenArrives(c) PROVE Scalars'
    <2>1. pc' \in [Callers -> Place]
      BY <1>0, <1>4, PostChatEffect DEF TokenArrives
    <2>2. http' \in Nat /\ made' \in Nat /\ open' \subseteq Nat
      BY <1>4, GetHttpEffect DEF TokenArrives, PostChat
    <2>3. token' \in [serial : Nat, expires : Nat]
      BY <1>0, <1>4, ClientAssumption DEF TokenArrives
    <2> QED
      BY <1>0, <1>4, <2>1, <2>2, <2>3 DEF TokenArrives
  <1>5. ASSUME NEW c \in Callers, TokenFails(c) PROVE Scalars'
    BY <1>0, <1>5 DEF TokenFails, Release, Place
  <1>6. ASSUME NEW c \in Callers, CancelWaiting(c) PROVE Scalars'
    <2>1. PICK i \in 1..Len(waiters) : waiters' = RemoveAt(waiters, i)
      BY <1>0, <1>6 DEF CancelWaiting
    <2>2. waiters \in Seq(Callers) /\ pc \in [Callers -> Place] /\ Holds(waiters, pc)
      BY TypeParts
    <2>3. "idle" \in Place /\ "idle" # "waiting"
      BY DEF Place
    <2>4. waiters' \in Seq(Callers)
      BY <2>1, <2>2, <2>3, QueueLeft
    <2>5. pc' \in [Callers -> Place]
      BY <1>6, <2>2 DEF CancelWaiting, Place
    <2> QED
      BY <1>0, <1>6, <2>4, <2>5 DEF CancelWaiting
  <1>7. ASSUME NEW c \in Callers, ChatEnds(c) PROVE Scalars'
    BY <1>0, <1>7 DEF ChatEnds, Place
  <1>8. ASSUME NEW k \in Closers, CloseBegins(k) \/ CloseEnds(k) PROVE Scalars'
    <2>1. closing' \in [Closers -> {"no", "aclose", "done"}]
      BY <1>0, <1>8 DEF CloseBegins, CloseEnds
    <2>2. http' \in {http, 0}
      BY <1>8 DEF CloseBegins, CloseEnds
    <2>3. open' \subseteq open
      BY <1>8 DEF CloseBegins, CloseEnds
    <2>4. http' \in Nat /\ open' \subseteq Nat
      BY <1>0, <2>2, <2>3
    <2> QED
      BY <1>0, <1>8, <2>1, <2>4 DEF CloseBegins, CloseEnds
  <1>9. CASE UNCHANGED vars
    BY <1>0, <1>9 DEF vars
  <1> QED
    BY <1>1, <1>2, <1>3, <1>4, <1>5, <1>6, <1>7, <1>8, <1>9 DEF Next, Progress

\* The queue of the lock and the callers that wait in it stay in agreement.
LEMMA NextHolds ==
    ASSUME TypeOK, [Next]_vars
    PROVE  Holds(waiters', pc')
  <1>0. Scalars /\ Holds(waiters, pc)
    BY TypeParts
  <1>1. CASE UNCHANGED <<waiters, pc>>
    BY <1>0, <1>1
  <1>2. ASSUME NEW c \in Callers, pc[c] # "waiting", UNCHANGED waiters,
               NEW v \in Place \ {"waiting"}, pc' = [pc EXCEPT ![c] = v]
        PROVE  Holds(waiters', pc')
    BY <1>0, <1>2, QueueKept DEF Scalars
  <1>3. ASSUME NEW c \in Callers, Call(c) PROVE Holds(waiters', pc')
    <2>1. CASE PostChat(c) /\ UNCHANGED waiters
      BY <1>2, <1>3, <2>1, PostChatEffect DEF Call
    <2>2. CASE PostToken(c, holder) /\ UNCHANGED waiters
      BY <1>2, <1>3, <2>2, PostTokenEffect DEF Call, Place
    <2>3. CASE waiters' = Append(waiters, c) /\ pc' = [pc EXCEPT ![c] = "waiting"]
      BY <1>0, <1>3, <2>3, QueueJoined DEF Call, Scalars
    <2> QED
      BY <1>3, <2>1, <2>2, <2>3 DEF Call, tokenVars
  <1>4. ASSUME NEW c \in Callers, Acquire(c) PROVE Holds(waiters', pc')
    <2>1. PICK v \in Place \ {"waiting"} : pc' = [pc EXCEPT ![c] = v]
      BY <1>4, PostChatEffect, PostTokenEffect DEF Acquire, Place
    <2> QED
      BY <1>0, <1>4, <2>1, QueuePassed DEF Acquire, Scalars
  <1>5. ASSUME NEW c \in Callers, TokenArrives(c) \/ TokenFails(c) \/ ChatEnds(c)
        PROVE  Holds(waiters', pc')
    <2>1. \E v \in Place \ {"waiting"} : pc' = [pc EXCEPT ![c] = v]
      BY <1>5, PostChatEffect DEF TokenArrives, TokenFails, ChatEnds, Place
    <2> QED
      BY <1>2, <1>5, <2>1 DEF TokenArrives, TokenFails, ChatEnds, tokenVars
  <1>6. ASSUME NEW c \in Callers, CancelWaiting(c) PROVE Holds(waiters', pc')
    <2>1. PICK i \in 1..Len(waiters) : waiters[i] = c /\ waiters' = RemoveAt(waiters, i)
      BY <1>0, <1>6 DEF CancelWaiting, Scalars
    <2> QED
      BY <1>0, <1>6, <2>1, QueueLeft DEF CancelWaiting, Scalars, Place
  <1> QED
    BY <1>1, <1>3, <1>4, <1>5, <1>6
       DEF Next, Progress, Tick, CloseBegins, CloseEnds, vars, tokenVars

----------------------------------------------------------------------------
(* The lock and the serial numbers of the tokens. *)

\* A caller outside of the lock moves on outside of it.
LEMMA OutsideTheLock ==
    ASSUME TypeOK, LockIsHeld, RequestsAreAhead,
           NEW c \in Callers, pc[c] # "refreshing",
           NEW v \in Place \ {"refreshing"}, pc' = [pc EXCEPT ![c] = v],
           UNCHANGED <<token, holder, issued, request>>
    PROVE  LockIsHeld' /\ RequestsAreAhead'
  BY DEF LockIsHeld, RequestsAreAhead, TypeOK, Place

\* A caller takes the free lock for its request, or is refused at once.
LEMMA IntoTheLock ==
    ASSUME TypeOK, LockIsHeld, RequestsAreAhead, holder = {},
           NEW c \in Callers, PostToken(c, holder), UNCHANGED token
    PROVE  LockIsHeld' /\ RequestsAreAhead'
  <1>1. /\ issued \in Nat /\ token.serial \in Nat /\ request \in [Callers -> Nat]
        /\ pc \in [Callers -> Place]
    BY DEF TypeOK, Place
  <1>2. CASE /\ pc' = [pc EXCEPT ![c] = "refreshing"]
             /\ holder' = holder \cup {c} /\ issued' = issued + 1
             /\ request' = [request EXCEPT ![c] = issued + 1]
    <2>1. holder' = {c}
      BY <1>2
    <2>2. LockIsHeld'
      BY <1>1, <1>2, <2>1 DEF LockIsHeld
    <2>3. RequestsAreAhead'
      BY <1>1, <1>2, <2>1 DEF RequestsAreAhead
    <2> QED
      BY <2>2, <2>3
  <1>3. CASE /\ pc' = [pc EXCEPT ![c] = "idle"]
             /\ holder' = holder \ {c} /\ UNCHANGED <<issued, request>>
    <2>1. holder' = {}
      BY <1>3
    <2> QED
      BY <1>1, <1>3, <2>1 DEF LockIsHeld, RequestsAreAhead
  <1> QED
    BY <1>2, <1>3, PostTokenEffect

\* The holder leaves the lock, with its token cached or without.
LEMMA OutOfTheLock ==
    ASSUME TypeOK, LockIsHeld, RequestsAreAhead,
           NEW c \in holder, NEW v \in Place \ {"refreshing"}, pc' = [pc EXCEPT ![c] = v],
           holder' = holder \ {c}, UNCHANGED issued,
           token' = token \/ token'.serial = request[c]
    PROVE  LockIsHeld' /\ RequestsAreAhead' /\ token'.serial >= token.serial
  <1>1. /\ issued \in Nat /\ token.serial \in Nat /\ request \in [Callers -> Nat]
        /\ pc \in [Callers -> Place] /\ holder \subseteq Callers
    BY DEF TypeOK, Place
  <1>2. holder' = {}
    BY DEF LockIsHeld
  <1>3. LockIsHeld'
    BY <1>1, <1>2 DEF LockIsHeld
  <1>4. token.serial < request[c] /\ request[c] <= issued
    BY DEF RequestsAreAhead
  <1> QED
    BY <1>1, <1>2, <1>3, <1>4 DEF RequestsAreAhead

\* Every step keeps the lock's invariants and never turns the cached token back.
LEMMA NextLock ==
    ASSUME TypeOK, LockIsHeld, RequestsAreAhead, [Next]_vars
    PROVE  LockIsHeld' /\ RequestsAreAhead' /\ token'.serial >= token.serial
  <1>0. token.serial \in Nat /\ holder \subseteq Callers
    BY DEF TypeOK
  <1>1. CASE UNCHANGED <<token, holder, issued, request, pc>>
    BY <1>0, <1>1 DEF LockIsHeld, RequestsAreAhead
  <1>2. ASSUME NEW c \in Callers, Call(c)
        PROVE  LockIsHeld' /\ RequestsAreAhead' /\ UNCHANGED token
    <2>1. CASE PostChat(c) /\ UNCHANGED tokenVars
      BY <1>2, <2>1, PostChatEffect, OutsideTheLock DEF Call, tokenVars
    <2>2. CASE Free /\ PostToken(c, holder) /\ UNCHANGED token
      BY <2>2, IntoTheLock DEF Free
    <2>3. CASE /\ pc' = [pc EXCEPT ![c] = "waiting"]
               /\ UNCHANGED <<token, holder, issued, request>>
      BY <1>2, <2>3, OutsideTheLock DEF Call, Place
    <2> QED
      BY <1>2, <2>1, <2>2, <2>3 DEF Call
  <1>3. ASSUME NEW c \in Callers, Acquire(c)
        PROVE  LockIsHeld' /\ RequestsAreAhead' /\ UNCHANGED token
    <2>1. CASE PostChat(c) /\ UNCHANGED <<holder, issued, request>>
      <3>1. pc[c] # "refreshing"
        BY <1>3 DEF Acquire, LockIsHeld
      <3> QED
        BY <1>3, <2>1, <3>1, PostChatEffect, OutsideTheLock DEF Acquire
    <2>2. CASE PostToken(c, holder)
      BY <1>3, <2>2, IntoTheLock DEF Acquire
    <2> QED
      BY <1>3, <2>1, <2>2 DEF Acquire
  <1>4. ASSUME NEW c \in Callers, TokenArrives(c) \/ TokenFails(c)
        PROVE  LockIsHeld' /\ RequestsAreAhead' /\ token'.serial >= token.serial
    <2>1. c \in holder
      BY <1>4 DEF TokenArrives, TokenFails, LockIsHeld
    <2>2. PICK v \in Place \ {"refreshing"} : pc' = [pc EXCEPT ![c] = v]
      BY <1>4, PostChatEffect DEF TokenArrives, TokenFails, Place
    <2>3. holder' = holder \ {c} /\ UNCHANGED issued
      BY <1>4 DEF TokenArrives, TokenFails, Release
    <2>4. token' = token \/ token'.serial = request[c]
      BY <1>4 DEF TokenArrives, TokenFails
    <2> QED
      BY <2>1, <2>2, <2>3, <2>4, OutOfTheLock
  <1>5. ASSUME NEW c \in Callers, CancelWaiting(c) \/ ChatEnds(c)
        PROVE  LockIsHeld' /\ RequestsAreAhead' /\ UNCHANGED token
    BY <1>5, OutsideTheLock DEF CancelWaiting, ChatEnds, tokenVars, Place
  <1> QED
    BY <1>0, <1>1, <1>2, <1>3, <1>4, <1>5
       DEF Next, Progress, Tick, CloseBegins, CloseEnds, vars, tokenVars

----------------------------------------------------------------------------
(* The HTTP clients. *)

\* Clients stay numbered, and every close() knows what it closes.
LEMMA NextClients ==
    ASSUME TypeOK, ClientsAreMade, ClosingKnows, [Next]_vars
    PROVE  ClientsAreMade' /\ ClosingKnows'
  <1>0. /\ http \in Nat /\ made \in Nat /\ open \subseteq Nat
        /\ closing \in [Closers -> {"no", "aclose", "done"}]
    BY DEF TypeOK
  <1>1. CASE UNCHANGED httpVars /\ UNCHANGED closing
    BY <1>1 DEF httpVars, ClientsAreMade, ClosingKnows
  <1>2. CASE GetHttp /\ UNCHANGED closing
    BY <1>2, GetHttpEffect DEF ClosingKnows
  <1>3. ASSUME NEW k \in Closers, CloseBegins(k)
        PROVE  ClientsAreMade' /\ ClosingKnows'
    <2>1. ClientsAreMade'
      BY <1>0, <1>3 DEF CloseBegins, ClientsAreMade
    <2>2. CASE http \in open
      <3>1. http' # 0 /\ http' \notin open'
        BY <1>0, <1>3, <2>2 DEF CloseBegins, ClientsAreMade
      <3> QED
        BY <2>1, <3>1 DEF ClosingKnows
    <2>3. CASE http \notin open
      <3>1. closing' = [closing EXCEPT ![k] = "done"]
        BY <1>3, <2>3 DEF CloseBegins
      <3> QED
        BY <1>0, <2>1, <3>1 DEF ClosingKnows
    <2> QED
      BY <2>2, <2>3
  <1>4. ASSUME NEW k \in Closers, CloseEnds(k)
        PROVE  ClientsAreMade' /\ ClosingKnows'
    <2>1. ClientsAreMade'
      BY <1>0, <1>4 DEF CloseEnds, ClientsAreMade
    <2>2. closing' = [closing EXCEPT ![k] = "done"]
      BY <1>4 DEF CloseEnds
    <2> QED
      BY <1>0, <2>1, <2>2 DEF ClosingKnows
  <1>5. ASSUME NEW c \in Callers, Call(c) \/ Acquire(c) \/ TokenArrives(c)
        PROVE  (GetHttp \/ UNCHANGED httpVars) /\ UNCHANGED closing
    BY <1>5 DEF Call, Acquire, TokenArrives, PostChat, PostToken, httpVars
  <1> QED
    BY <1>1, <1>2, <1>3, <1>4, <1>5
       DEF Next, Progress, Tick, TokenFails, CancelWaiting, ChatEnds, vars, httpVars

----------------------------------------------------------------------------
(* The theorems. *)

LEMMA InitIInv == Init => IInv
  <1> SUFFICES ASSUME Init PROVE IInv
    OBVIOUS
  <1>1. TypeOK
    <2>1. Scalars
      BY ClientAssumption DEF Init, Scalars, None, Place
    <2>2. Holds(waiters, pc)
      BY DEF Init, Holds
    <2> QED
      BY <2>1, <2>2, TypeParts
  <1>2. LockIsHeld /\ RequestsAreAhead /\ ClientsAreMade /\ ClosingKnows
    BY DEF Init, None, LockIsHeld, RequestsAreAhead, ClientsAreMade, ClosingKnows
  <1> QED
    BY <1>1, <1>2 DEF IInv

LEMMA NextIInv == IInv /\ [Next]_vars => IInv'
  <1> SUFFICES ASSUME IInv, [Next]_vars PROVE IInv'
    OBVIOUS
  <1>1. TypeOK'
    BY NextScalars, NextHolds, TypePartsNext DEF IInv
  <1> QED
    BY <1>1, NextLock, NextClients DEF IInv

\* The inductive invariant the theorems below rest on.
THEOREM InductiveInvariant == Spec => []IInv
  BY InitIInv, NextIInv, PTL DEF Spec

\* Types; and the queue of the lock holds exactly the callers suspended on it,
\* each once, through any cancellation in the middle of the queue.
THEOREM TypeCorrect == Spec => []TypeOK
  <1>1. IInv => TypeOK
    BY DEF IInv
  <1> QED
    BY <1>1, InductiveInvariant, PTL

\* The cached token is never replaced by an older one, whatever crosses.
THEOREM TokensOnlyAdvance == Spec => TokensAdvance
  <1>1. IInv /\ [Next]_vars => [token'.serial >= token.serial]_vars
    BY NextLock DEF IInv
  <1> QED
    BY <1>1, InductiveInvariant, PTL DEF Spec, TokensAdvance

\* A step that sends a token request, or a chat request with the cached token,
\* has looked at the token as it is in that step.
LEMMA SendsLook ==
    ASSUME IInv, [Next]_vars
    PROVE  /\ issued' > issued => ~Valid
           /\ \A c \in Callers : pc[c] \notin {"chatting", "refreshing"} /\ pc'[c] = "chatting"
                                => Valid
  <1>0. issued \in Nat /\ pc \in [Callers -> Place]
    BY DEF IInv, TypeOK, Place
  <1>1. CASE UNCHANGED <<issued, pc>>
    BY <1>0, <1>1
  <1>2. ASSUME NEW c \in Callers, PostChat(c), UNCHANGED issued
        PROVE  /\ ~(issued' > issued)
               /\ \A d \in Callers \ {c} : pc'[d] = pc[d]
    BY <1>0, <1>2 DEF PostChat
  <1>3. ASSUME NEW c \in Callers, PostToken(c, holder)
        PROVE  pc'[c] # "chatting" /\ \A d \in Callers \ {c} : pc'[d] = pc[d]
    BY <1>0, <1>3, PostTokenEffect DEF IInv
  <1>4. ASSUME NEW c \in Callers, Call(c) \/ Acquire(c)
        PROVE  \/ Valid /\ PostChat(c) /\ UNCHANGED issued
               \/ ~Valid /\ PostToken(c, holder)
               \/ /\ pc' = [pc EXCEPT ![c] = "waiting"]
                  /\ UNCHANGED issued
    BY <1>4 DEF Call, Acquire, Checked, tokenVars
  <1>5. ASSUME NEW c \in Callers, pc' = [pc EXCEPT ![c] = "waiting"], UNCHANGED issued
        PROVE  ~(issued' > issued) /\ \A d \in Callers : pc'[d] = "chatting" => pc[d] = "chatting"
    BY <1>0, <1>5
  <1>6. ASSUME NEW c \in Callers, TokenArrives(c)
        PROVE  ~(issued' > issued) /\ pc[c] = "refreshing" /\ \A d \in Callers \ {c} : pc'[d] = pc[d]
    BY <1>2, <1>6 DEF TokenArrives
  <1>7. ASSUME NEW c \in Callers, TokenFails(c) \/ CancelWaiting(c) \/ ChatEnds(c)
        PROVE  ~(issued' > issued) /\ \A d \in Callers : pc'[d] = "chatting" => pc[d] = "chatting"
    BY <1>0, <1>7 DEF TokenFails, CancelWaiting, ChatEnds, tokenVars
  <1> QED
    BY <1>1, <1>2, <1>3, <1>4, <1>5, <1>6, <1>7
       DEF Next, Progress, Tick, CloseBegins, CloseEnds, vars, tokenVars

\* Every token request that is sent is needed: the cached token is missing or
\* within the lead window at that moment, for any number of callers that found
\* it so together.
THEOREM RequestsAreNeeded == Spec => NeededRequests
  <1>1. IInv /\ [Next]_vars
        => [issued' > issued => token = None \/ token.expires - now <= Lead]_vars
    <2> SUFFICES ASSUME IInv, [Next]_vars, issued' > issued
                 PROVE  token = None \/ token.expires - now <= Lead
      OBVIOUS
    <2>1. ~Valid
      BY SendsLook
    <2>2. token.expires - now \in Int /\ Lead \in Int
      BY ClientAssumption DEF IInv, TypeOK
    <2> QED
      BY <2>1, <2>2 DEF Valid
  <1> QED
    BY <1>1, InductiveInvariant, PTL DEF Spec, NeededRequests

\* No caller that shares a token sends it stale, however long it has waited.
THEOREM SendsAreFresh == Spec => FreshOnSend
  <1>1. IInv /\ [Next]_vars
        => [\A c \in Callers : pc[c] \notin {"chatting", "refreshing"} /\ pc'[c] = "chatting"
                              => token.serial # 0 /\ token.expires - now > Lead]_vars
    <2> SUFFICES ASSUME IInv, [Next]_vars, NEW c \in Callers,
                        pc[c] \notin {"chatting", "refreshing"}, pc'[c] = "chatting"
                 PROVE  token.serial # 0 /\ token.expires - now > Lead
      OBVIOUS
    <2>1. Valid
      BY SendsLook
    <2> QED
      BY <2>1 DEF Valid, IInv, RequestsAreAhead
  <1> QED
    BY <1>1, InductiveInvariant, PTL DEF Spec, FreshOnSend

\* A step that takes an open client out of the pool is the end of a close()
\* after another one.
LEMMA NextOrphans ==
    ASSUME IInv, [Next]_vars, NEW client \in open', client # http'
    PROVE  \/ client \in open /\ client # http
           \/ \E k, j \in Closers : /\ closing[k] = "aclose" /\ closing'[k] = "done"
                                   /\ closing[j] = "done" /\ j # k
  <1>1. CASE UNCHANGED httpVars
    BY <1>1 DEF httpVars
  <1>2. CASE GetHttp
    BY <1>2, GetHttpEffect DEF IInv
  <1>3. ASSUME NEW k \in Closers, CloseBegins(k)
        PROVE  client \in open /\ client # http
    BY <1>3 DEF CloseBegins
  <1>4. ASSUME NEW k \in Closers, CloseEnds(k)
        PROVE  \/ client \in open /\ client # http
               \/ \E j \in Closers : /\ closing[k] = "aclose" /\ closing'[k] = "done"
                                    /\ closing[j] = "done" /\ j # k
    <2>1. closing[k] = "aclose" /\ closing'[k] = "done" /\ client \in open
      BY <1>4 DEF CloseEnds, IInv, TypeOK
    <2> QED
      BY <2>1 DEF IInv, ClosingKnows
  <1>5. ASSUME NEW c \in Callers, Call(c) \/ Acquire(c) \/ TokenArrives(c)
        PROVE  GetHttp \/ UNCHANGED httpVars
    BY <1>5 DEF Call, Acquire, TokenArrives, PostChat, PostToken, httpVars
  <1> QED
    BY <1>1, <1>2, <1>3, <1>4, <1>5
       DEF Next, Progress, Tick, TokenFails, CancelWaiting, ChatEnds, vars, httpVars

\* With one close() at a time no HTTP client is ever lost open: it stays the
\* pooled one until a close() closes it.
THEOREM ClientsStayPooled == Spec => OrphansOnlyByOverlap
  <1>1. IInv /\ [Next]_vars
        => [\A client \in open' \ {http'} :
               \/ client \in open \ {http}
               \/ \E k, j \in Closers : /\ closing[k] = "aclose" /\ closing'[k] = "done"
                                       /\ closing[j] = "done" /\ j # k]_vars
    BY NextOrphans
  <1> QED
    BY <1>1, InductiveInvariant, PTL DEF Spec, OrphansOnlyByOverlap
============================================================================
