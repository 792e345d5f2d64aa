------------------------------- MODULE WebUI -------------------------------
(***************************************************************************)
(* The browser's side of a session: the page of ui/web.py, composed with   *)
(* the core.  The fragment a form submit returns opens an EventSource on   *)
(* /api/stream/<sid>, whose generator takes items from the session's one   *)
(* queue and sends each as an SSE event.                                   *)
(*                                                                         *)
(* Session.response_chunks is `chunks` of HarnessCore, which only grows;   *)
(* `taken` counts what the generators have taken from it.  A connection    *)
(* that breaks leaves its generator waiting at the queue until the server  *)
(* notices, so a tab that reconnects may compete with its own past.        *)
(***************************************************************************)
EXTENDS HarnessCore

CONSTANTS
    Tabs,       \* browser tabs
    Follows,    \* the session each tab has submitted
    MaxBreaks   \* bound: connections that break while the process lives

ASSUME WebUIAssumption == Follows \in [Tabs -> Sids] /\ MaxBreaks \in Nat

VARIABLES
    phase,    \* the EventSource of each tab
    shown,    \* the items it was sent, in order
    taken,    \* per session, items taken from its queue
    stale,    \* per session, generators whose connection is broken, unnoticed
    breaks    \* connections broken so far

page == <<phase, shown, taken, stale, breaks>>
uiVars == <<vars, page>>

UIInit ==
    /\ Init
    /\ phase = [t \in Tabs |-> "idle"]
    /\ shown = [t \in Tabs |-> <<>>]
    /\ taken = [s \in Sids |-> 0]
    /\ stale = [s \in Sids |-> 0]
    /\ breaks = 0

Pending(s) == taken[s] < Len(chunks[s])
NextItem(s) == chunks[s][taken[s] + 1]

----------------------------------------------------------------------------
(* stream of web.py over stream_response of core.py. *)

\* self._sessions.get: a restored session is not there before _replay takes it.
Known(s) == status[s] # "none"

\* The EventSource opens, or opens again after its connection broke.  The
\* generator of an unknown session returns at once, which sends "done".
Connect(t) ==
    /\ started
    /\ phase[t] \in {"idle", "broken"} /\ "accepted" \in marks[Follows[t]]
    /\ phase' = [phase EXCEPT ![t] = IF Known(Follows[t]) THEN "open" ELSE "closed"]
    /\ UNCHANGED <<vars, shown, taken, stale, breaks>>

\* Mutation of CloseOn: the first chunk closes the EventSource (sse-close).
CloseOnFirst(item) == TRUE

CloseOn(item) == item = "END"

\* The generator takes an item and the tab gets it; after the end of stream it
\* gets "done", on which it closes (sse-close).
Receive(t) ==
    LET s == Follows[t] IN
    /\ phase[t] = "open" /\ Pending(s)
    /\ taken' = [taken EXCEPT ![s] = @ + 1]
    /\ shown' = [shown EXCEPT ![t] = Append(@, NextItem(s))]
    /\ phase' = [phase EXCEPT ![t] = IF CloseOn(NextItem(s)) THEN "closed" ELSE @]
    /\ UNCHANGED <<vars, stale, breaks>>

\* The connection of a tab breaks; the server has not noticed.
Break(t) ==
    /\ phase[t] = "open"
    /\ breaks < MaxBreaks /\ breaks' = breaks + 1
    /\ phase' = [phase EXCEPT ![t] = "broken"]
    /\ stale' = [stale EXCEPT ![Follows[t]] = @ + 1]
    /\ UNCHANGED <<vars, shown, taken>>

\* A generator without a client takes an item and sends it to nobody; the end
\* of stream ends it, a failing send may.
TakenByStale(s) ==
    /\ stale[s] > 0 /\ Pending(s)
    /\ taken' = [taken EXCEPT ![s] = @ + 1]
    /\ stale' \in {[stale EXCEPT ![s] = @ - 1]}
                  \cup (IF NextItem(s) = "END" THEN {} ELSE {stale})
    /\ UNCHANGED <<vars, phase, shown, breaks>>

\* The server notices: the generator is cancelled in get(), which takes nothing.
Noticed(s) ==
    /\ stale[s] > 0
    /\ stale' = [stale EXCEPT ![s] = @ - 1]
    /\ UNCHANGED <<vars, phase, shown, taken, breaks>>

----------------------------------------------------------------------------
(* The steps of the core leave the page alone, but the end of the process  *)
(* breaks every connection and takes the queues and generators with it.    *)

\* Mutation of Reborn: the next process goes on where the last one was.
Kept(counts) == counts

Reborn(counts) == [s \in Sids |-> 0]

CoreStep ==
    /\ Next
    /\ IF started /\ ~started'
       THEN /\ phase' = [t \in Tabs |-> IF phase[t] = "open" THEN "broken" ELSE phase[t]]
            /\ taken' = Reborn(taken)
            /\ stale' = Reborn(stale)
            /\ UNCHANGED <<shown, breaks>>
       ELSE UNCHANGED page

UINext == \/ CoreStep
          \/ \E t \in Tabs : Connect(t) \/ Receive(t) \/ Break(t)
          \/ \E s \in Sids : TakenByStale(s) \/ Noticed(s)

UISpec == UIInit /\ [][UINext]_uiVars

\* An EventSource retries until it is closed, and the server sends what it has.
FairUISpec ==
    /\ UISpec
    /\ Fairness
    /\ \A t \in Tabs : WF_uiVars(Connect(t)) /\ WF_uiVars(Receive(t))

----------------------------------------------------------------------------
(* Properties. *)

Item == {"content", "error", "cancelled", "END"}

\* Types, and no generator takes more than the session has put.
UITypeOK ==
    /\ phase \in [Tabs -> {"idle", "open", "broken", "closed"}]
    /\ shown \in [Tabs -> Seq(Item)]
    /\ taken \in [Sids -> Nat] /\ stale \in [Sids -> Nat] /\ breaks \in Nat
    /\ \A s \in Sids : taken[s] <= Len(chunks[s])

\* What a tab was shown is final: in no process does its prompt run again, or
\* wait to be restored, after its user has seen a reply, an error or "session
\* cancelled" (the put of the chunk and _delete_queue_entry in _run_session
\* are separated by no suspension).
ShownIsFinal ==
    ~DiskFaults =>
    \A t \in Tabs : shown[t] # <<>> =>
        /\ task[Follows[t]] = "none"
        /\ queue[Follows[t]].file # "good"

\* A reply that a tab was shown is on the page that GET /api/chat renders, in
\* this process and in every later one, unless the chat was reset or the load
\* breaks the reply at a line separator.
ShownStaysOnPage ==
    started /\ ~DiskFaults =>
    \A t \in Tabs :
        LET s == Follows[t] IN
        /\ "unpaired" \notin marks[s] /\ Loads(Assistant(s))
        /\ \E i \in 1..Len(shown[t]) : shown[t][i] = "content"
        => \E i \in 1..Len(chat) : chat[i] = Assistant(s)

Sole(t) == \A u \in Tabs \ {t} : Follows[u] # Follows[t]

\* As long as no connection broke, a tab that alone follows its session was
\* sent, in order and once, exactly what its generator took; told "done" by the
\* process that ran the session, it has been sent the whole outcome.
ToldTheOutcome ==
    breaks = 0 /\ spent.crashes = 0 =>
    \A t \in Tabs : Sole(t) =>
        LET s == Follows[t] IN
        /\ shown[t] = SubSeq(chunks[s], 1, taken[s])
        /\ phase[t] = "closed" => shown[t] = chunks[s] /\ Len(chunks[s]) = 2

\* A tab that alone follows its session does not wait for ever at a stream: it
\* is told "done", also when the process dies under it, unless a connection
\* broke and its generator took the end of stream in the tab's place, or an
\* emergency stop cancelled a session before its first step.
TabsClose ==
    \A t \in Tabs : Sole(t) =>
        (phase[t] = "open" ~> phase[t] = "closed" \/ breaks > 0 \/ spent.emergencies > 0)
============================================================================
