--------------------------- MODULE GigaChatClient ---------------------------
(***************************************************************************)
(* GigaChatClient of llm/gigachat.py, shared by the concurrent sessions:   *)
(* the cached access token and its lock, the pooled HTTP client and its    *)
(* close().                                                                *)
(*                                                                         *)
(* A call is one chat().  It suspends on the lock, in the token request    *)
(* and in the chat request; an action is what runs between two of these.   *)
(* Time passes between any two actions, in units of _TOKEN_REFRESH_LEAD.   *)
(***************************************************************************)
EXTENDS Integers, Sequences, FiniteSets, SequencesExt

CONSTANTS
    Callers,      \* the sessions that call chat(), one call at a time each
    Closers,      \* shell commands that call close(): stop, restart, emergency stop
    Lead,         \* _TOKEN_REFRESH_LEAD_SEC
    Lifetimes,    \* how long an issued token lives, the default of 1800 s included
    MaxTime,      \* bound: the clock
    MaxCalls      \* bound: calls of one session

ASSUME ClientAssumption ==
    /\ IsFiniteSet(Callers) /\ IsFiniteSet(Closers)
    /\ Lead \in Nat /\ Lifetimes \subseteq Nat /\ MaxTime \in Nat /\ MaxCalls \in Nat

VARIABLES
    now,          \* time.time()
    token,        \* _token: serial number of its issue (0: None) and expiry
    holder,       \* callers inside `async with self._token_lock`
    waiters,      \* the lock's queue: asyncio.Lock is fair
    issued,       \* token requests the server has seen
    request,      \* serial number of the token request each caller waits for (0: none)
    pc,           \* where the call of each caller is suspended
    calls,        \* chat() calls of each caller so far
    http,         \* _http: number of the client (0: None)
    made,         \* HTTP clients constructed
    open,         \* those aclose() was not called on
    closing       \* progress of each close()

tokenVars == <<token, holder, waiters, issued, request>>
httpVars == <<http, made, open>>
vars == <<now, token, holder, waiters, issued, request, pc, calls, http, made,
          open, closing>>

None == [serial |-> 0, expires |-> 0]

Init ==
    /\ now = 0 /\ token = None
    /\ holder = {} /\ waiters = <<>>
    /\ issued = 0
    /\ request = [c \in Callers |-> 0]
    /\ pc = [c \in Callers |-> "idle"]
    /\ calls = [c \in Callers |-> 0]
    /\ http = 0
    /\ made = 0 /\ open = {}
    /\ closing = [k \in Closers |-> "no"]

----------------------------------------------------------------------------
(* Helpers. *)

\* Mutation of Valid: a token is good until its last second.
ValidToTheEnd == token # None /\ token.expires > now

\* The test of both the fast path and the double check.
Valid == token # None /\ token.expires - now > Lead

\* Mutation of Free: there is no lock.
AlwaysFree == TRUE

\* Lock.acquire does not wait: unlocked, and nobody queued before.
Free == holder = {} /\ waiters = <<>>

\* Mutation of Checked: _ensure_token does not look again under the lock.
Unchecked == FALSE

Checked == Valid

\* Mutation of GetHttp: a client is made for every request.
GetHttpUnpooled == made' = made + 1 /\ http' = made' /\ open' = open \cup {made'}

\* _get_http: the pooled client, or a new one.
GetHttp ==
    IF http # 0 THEN UNCHANGED httpVars
    ELSE made' = made + 1 /\ http' = made' /\ open' = open \cup {made'}

\* Mutation of Release: an exception leaves the lock locked.
KeepsLock(c) == holder

Release(c) == holder \ {c}

\* chat() posts the request with the token it was given.  A client that is
\* closed refuses, and the call ends there.
PostChat(c) ==
    /\ GetHttp
    /\ pc' = [pc EXCEPT ![c] = IF http' \in open' THEN "chatting" ELSE "idle"]

\* The token request, under the lock; a closed client refuses this one too.
PostToken(c, held) ==
    /\ GetHttp
    /\ IF http' \in open'
       THEN /\ pc' = [pc EXCEPT ![c] = "refreshing"]
            /\ holder' = held \cup {c}
            /\ issued' = issued + 1
            /\ request' = [request EXCEPT ![c] = issued + 1]
       ELSE /\ pc' = [pc EXCEPT ![c] = "idle"]
            /\ holder' = held \ {c}
            /\ UNCHANGED <<issued, request>>

----------------------------------------------------------------------------
(* chat() and _ensure_token. *)

Tick == /\ now < MaxTime /\ now' = now + 1
        /\ UNCHANGED <<tokenVars, pc, calls, httpVars, closing>>

\* chat() up to its first suspension: with a valid token the chat request,
\* else the token request or the queue of the lock.
Call(c) ==
    /\ pc[c] = "idle" /\ calls[c] < MaxCalls
    /\ calls' = [calls EXCEPT ![c] = @ + 1]
    /\ \/ Valid /\ PostChat(c) /\ UNCHANGED tokenVars
       \/ ~Valid /\ Free /\ PostToken(c, holder) /\ UNCHANGED <<token, waiters>>
       \/ /\ ~Valid /\ ~Free
          /\ waiters' = Append(waiters, c)
          /\ pc' = [pc EXCEPT ![c] = "waiting"]
          /\ UNCHANGED <<token, holder, issued, request, httpVars>>
    /\ UNCHANGED <<now, closing>>

\* The lock passes to the first in its queue, who looks at the token again.
Acquire(c) ==
    /\ holder = {} /\ waiters # <<>> /\ c = Head(waiters)
    /\ waiters' = Tail(waiters)
    /\ \/ Checked /\ PostChat(c) /\ UNCHANGED <<holder, issued, request>>
       \/ ~Checked /\ PostToken(c, holder)
    /\ UNCHANGED <<now, token, calls, closing>>

\* The answer to the token request: the token is cached, the lock released and
\* the chat request posted, without looking at the expiry that was answered.
TokenArrives(c) ==
    /\ pc[c] = "refreshing"
    /\ \E life \in Lifetimes : token' = [serial |-> request[c], expires |-> now + life]
    /\ holder' = holder \ {c}
    /\ request' = [request EXCEPT ![c] = 0]
    /\ PostChat(c)
    /\ UNCHANGED <<now, waiters, issued, calls, closing>>

\* Timeout, connection error, HTTP error or an answer without a token; also
\* the cancellation of the session.  The server may have issued the token.
TokenFails(c) ==
    /\ pc[c] = "refreshing"
    /\ pc' = [pc EXCEPT ![c] = "idle"]
    /\ holder' = Release(c)
    /\ request' = [request EXCEPT ![c] = 0]
    /\ UNCHANGED <<now, token, waiters, issued, calls, httpVars, closing>>

\* Mutation of CancelWaiting: the cancelled caller stays in the queue.
CancelLeavesWaiter(c) ==
    /\ pc[c] = "waiting"
    /\ pc' = [pc EXCEPT ![c] = "idle"]
    /\ UNCHANGED <<now, token, holder, waiters, issued, request, calls, httpVars, closing>>

\* The session is cancelled while it waits for the lock.
CancelWaiting(c) ==
    /\ pc[c] = "waiting"
    /\ pc' = [pc EXCEPT ![c] = "idle"]
    /\ \E i \in DOMAIN waiters : waiters[i] = c /\ waiters' = RemoveAt(waiters, i)
    /\ UNCHANGED <<now, token, holder, issued, request, calls, httpVars, closing>>

\* The chat request ends: an answer, an error, a timeout or a cancellation.
ChatEnds(c) ==
    /\ pc[c] = "chatting"
    /\ pc' = [pc EXCEPT ![c] = "idle"]
    /\ UNCHANGED <<now, tokenVars, calls, httpVars, closing>>

----------------------------------------------------------------------------
(* close() *)

\* aclose() marks the client closed at once and suspends closing connections;
\* on a client that is closed already it returns at once.
CloseBegins(k) ==
    /\ closing[k] = "no"
    /\ closing' = [closing EXCEPT ![k] = IF http \in open THEN "aclose" ELSE "done"]
    /\ open' = open \ {http}
    /\ http' = IF http \in open THEN http ELSE 0
    /\ UNCHANGED <<now, tokenVars, pc, calls, made>>

CloseEnds(k) ==
    /\ closing[k] = "aclose"
    /\ closing' = [closing EXCEPT ![k] = "done"]
    /\ http' = 0
    /\ UNCHANGED <<now, tokenVars, pc, calls, made, open>>

\* What ends by itself: requests time out (httpx timeout, 120 s).
Progress(c) == Acquire(c) \/ TokenArrives(c) \/ TokenFails(c) \/ ChatEnds(c)

Next == \/ Tick
        \/ \E c \in Callers : Call(c) \/ CancelWaiting(c) \/ Progress(c)
        \/ \E k \in Closers : CloseBegins(k) \/ CloseEnds(k)

Spec == Init /\ [][Next]_vars

FairSpec == Spec /\ \A c \in Callers : WF_vars(Progress(c))

----------------------------------------------------------------------------
(* Properties. *)

\* Types; the queue of the lock holds exactly the callers suspended on it.
TypeOK ==
    /\ now \in 0..MaxTime
    /\ token \in [serial : Nat, expires : Nat]
    /\ holder \subseteq Callers /\ waiters \in Seq(Callers)
    /\ issued \in Nat /\ request \in [Callers -> Nat]
    /\ pc \in [Callers -> {"idle", "waiting", "refreshing", "chatting"}]
    /\ calls \in [Callers -> 0..MaxCalls]
    /\ http \in Nat /\ made \in Nat /\ open \subseteq Nat
    /\ closing \in [Closers -> {"no", "aclose", "done"}]
    /\ IsInjective(waiters) /\ ToSet(waiters) = {c \in Callers : pc[c] = "waiting"}

\* The cached token is never replaced by one the server issued earlier, with
\* requests that cross, time out and are repeated (the lock of _ensure_token).
TokensAdvance == [][token'.serial >= token.serial]_vars

\* A token request is sent only when the cached token is missing or within the
\* lead window at that moment: callers that queued behind a refresh share its
\* token (the double check of _ensure_token).
NeededRequests ==
    [][issued' > issued => token = None \/ token.expires - now <= Lead]_vars

\* A chat request leaves with a token that is good for more than the lead time,
\* however long its caller waited for the lock; only the caller that fetched a
\* token uses it whatever its lifetime.
FreshOnSend ==
    [][\A c \in Callers : pc[c] \notin {"chatting", "refreshing"} /\ pc'[c] = "chatting"
                          => token.serial # 0 /\ token.expires - now > Lead]_vars

\* An open HTTP client is the pooled one, and so is closed by the next close().
\* One is orphaned only when a close() ends after another: the second finds the
\* client closed already and forgets it, a call makes a new one, and the first,
\* whose aclose() returns late, forgets that one unclosed.
OrphansOnlyByOverlap ==
    [][\A client \in open' \ {http'} :
          \/ client \in open \ {http}
          \/ \E k, j \in Closers : /\ closing[k] = "aclose" /\ closing'[k] = "done"
                                  /\ closing[j] = "done" /\ j # k]_vars

\* Every call ends: nobody keeps the lock, whatever fails or is cancelled.
CallsEnd == \A c \in Callers : pc[c] # "idle" ~> pc[c] = "idle"
============================================================================
