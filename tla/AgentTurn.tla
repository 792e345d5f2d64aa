----------------------------- MODULE AgentTurn -----------------------------
(***************************************************************************)
(* What the sessions of AgentLoop say and do: the messages of handle, the  *)
(* payload each LLM call sends in either tool format, and the tools with   *)
(* the disk they share.  Composes AgentLoop, Wire and Toolbox: every       *)
(* action is one of AgentLoop's with the data it moves.                    *)
(***************************************************************************)
EXTENDS AgentLoop, Toolbox

CONSTANT Answers   \* answers of the LLM provider, by tool format

\* Ids and names; "" for none, "fresh" for the id a function_call is given.
Label == STRING \cup {"", "fresh"}
ArgumentsType == [on : DOMAIN PathOf, text : Text]
CallType == [id : Label, name : STRING,
             raw : [form : {"object", "string", "junk"}, args : ArgumentsType]]

\* An answer holds at most one function_call, and one of the v1 API no other call.
ASSUME TurnAssumption ==
    /\ \A f \in {"functions", "tools"} : \A answer \in Answers[f] :
          /\ answer.toolCalls \in Seq(CallType) /\ answer.functionCall \in Seq(CallType)
          /\ Len(answer.functionCall) <= 1
    /\ \A answer \in Answers["functions"] : Len(answer.toolCalls) <= 1

VARIABLES
    format,     \* tool_format of the client
    messages,   \* messages of each session in handle
    todo,       \* tool calls of its answer not finished yet, Head in execution
    ran,        \* history: name and arguments of every call it executed
    disk        \* sandbox and knowledge

turnVars == <<vars, format, messages, todo, ran, disk>>

TurnInit ==
    /\ Init
    /\ format \in {"functions", "tools"}
    /\ messages = [s \in Sids |-> IF pc[s] = "llm" THEN <<Prompt>> ELSE <<>>]
    /\ todo = [s \in Sids |-> <<>>]
    /\ ran = [s \in Sids |-> <<>>]
    /\ disk = Disk0

\* handle's variables after a step in which that of s are `new`: they go with
\* the coroutine, and a session that enters handle builds its messages.
Scope(f, s, new, start) ==
    [t \in Sids |-> IF pc'[t] \notin {"llm", "tool"} THEN <<>>
                    ELSE IF pc[t] \notin {"llm", "tool"} THEN start
                    ELSE IF t = s THEN new ELSE f[t]]
Locals(s, msgs, left, done) ==
    /\ messages' = Scope(messages, s, msgs, <<Prompt>>)
    /\ todo' = Scope(todo, s, left, <<>>)
    /\ ran' = Scope(ran, s, done, <<>>)
SameLocals(s) == Locals(s, messages[s], todo[s], ran[s])

----------------------------------------------------------------------------

\* chat() returns: _parse_response, and the assistant turn joins the messages.
TurnAnswer(s) ==
    \E answer \in Answers[format] :
        LET msg == ParseResponse(answer) IN
        /\ Answered(s, [i \in DOMAIN msg.calls |-> msg.calls[i].name])
        /\ Locals(s, Append(messages[s], msg), msg.calls, ran[s])
        /\ UNCHANGED <<format, disk>>

\* Mutation of Result: the result of an exception is not told to the model.
ResultIfReturned(call, r) == IF r.raised THEN <<>> ELSE <<ToolMessage(call, r.text)>>

Result(call, r) == <<ToolMessage(call, r.text)>>

\* A tool is executed, and its result joins the messages; a handler that
\* returned is a success, whatever it says.
TurnTool(s) ==
    /\ pc[s] = "tool"
    /\ LET call == Head(todo[s])
           args == ParseArgs(call.raw) IN
       \E r \in Execute(disk, call.name, args) :
          /\ Invoked(s, ~r.raised)
          /\ disk' = r.disk
          /\ Locals(s, messages[s] \o Result(call, r), Tail(todo[s]),
                    Append(ran[s], [name |-> call.name, args |-> args, raised |-> r.raised]))
    /\ UNCHANGED format

TurnBegin(s) == Begin(s) /\ SameLocals(s) /\ UNCHANGED <<format, disk>>
TurnFails(s) == LlmFails(s) /\ SameLocals(s) /\ UNCHANGED <<format, disk>>
TurnCancelled(s) == Cancelled(s) /\ SameLocals(s) /\ UNCHANGED <<format, disk>>

\* reset metrics, or reset all, which removes the sandbox and the knowledge; it
\* raises when a removal does, and then tells the monitor nothing.
TurnReset ==
    /\ \/ ResetMetrics /\ disk' \in {disk, Wiped}
       \/ UNCHANGED vars /\ disk' \in HalfWiped(disk)
    /\ UNCHANGED <<format, messages, todo, ran>>

TurnHandle(s) == TurnBegin(s) \/ TurnAnswer(s) \/ TurnTool(s) \/ TurnFails(s)

TurnNext ==
    \/ \E s \in Sids : TurnHandle(s) \/ TurnCancelled(s)
    \/ TurnReset
    \/ /\ Subscribe \/ Stop \/ \E s \in Sids : Submit(s)
       /\ UNCHANGED <<format, messages, todo, ran, disk>>

TurnSpec == TurnInit /\ [][TurnNext]_turnVars

----------------------------------------------------------------------------
(* Properties. *)

Payload(s) == Sent(format, messages[s])

\* The calls of the assistant turn p[i].
CallsAt(p, i) == IF p[i].role = "assistant" THEN p[i].calls ELSE <<>>

\* Every assistant turn with calls is followed at once by their results, in
\* order, under the same names and ids, and no result stands elsewhere.
Paired(p, role) ==
    /\ \A i \in DOMAIN p : \A k \in DOMAIN CallsAt(p, i) :
          /\ i + k \in DOMAIN p
          /\ LET r == p[i + k] IN
             r.role = role /\ r.name = CallsAt(p, i)[k].name /\ r.id = CallsAt(p, i)[k].id
    /\ \A j \in DOMAIN p : p[j].role = role =>
          \E i \in 1..(j - 1) : j - i \in DOMAIN CallsAt(p, i)

\* Every payload follows the table of docs/gigachat-functions.md: calls and
\* results in pairs, results that are JSON, an automatic choice in the first
\* round only.  (Results that only Python takes for JSON are the exception,
\* and answers of the v1 API hold one call.)
PayloadFollowsDocs ==
    \A s \in Sids : pc[s] = "llm" =>
        LET p == Payload(s) IN
        IF format = "tools" THEN Paired(p, "tool")
        ELSE /\ Paired(p, "function")
             /\ \A i \in DOMAIN p : p[i].role = "function" =>
                    p[i].quoted \/ IsJson(p[i].content) \/ p[i].content = "NaN"
             /\ Choice(format, p) = "auto" <=> round[s] = 1

\* The arguments the model is told it used are those its tool was given,
\* although two parsers read them (_parse_args and _serialize_message): the
\* payload echoes the i-th call, of those that were executed, before its result.
EchoIsWhatRan ==
    format = "functions" =>
    \A s \in Sids : pc[s] = "llm" =>
        LET p == Payload(s) IN
        /\ Len(p) = 2 * Len(ran[s]) + 1
        /\ \A i \in DOMAIN ran[s] :
              /\ Len(p[2 * i].calls) = 1
              /\ p[2 * i].calls[1].name = ran[s][i].name
              /\ p[2 * i].calls[1].raw.args = ran[s][i].args

\* The card of a session in flight lists the calls its agent executed, in their
\* order, each marked by whether its handler raised, through any interleaving
\* of sessions: the steps that are ended calls match them one by one.
CardIsTranscript ==
    \A s \in DOMAIN m.tasks : pc[s] \in {"llm", "tool"} =>
        LET steps == m.tasks[s].steps IN
        \E at \in [DOMAIN ran[s] -> EndedCalls(steps)] :
           /\ Range(at) = EndedCalls(steps)
           /\ \A i, j \in DOMAIN ran[s] : i < j => at[i] < at[j]
           /\ \A i \in DOMAIN ran[s] :
                 /\ steps[at[i]].name = ran[s][i].name
                 /\ steps[at[i]].ok = IF ran[s][i].raised THEN "fail" ELSE "ok"

\* No tool changes anything on disk but below state/sandbox, links included, and
\* through any failure of a file operation: "This is the only filesystem area the
\* agent can write to via tool calls".
Confined ==
    [][\A path \in DOMAIN disk.tree \cup DOMAIN disk'.tree :
          \/ IsBelow(Root, path)
          \/ /\ path \in DOMAIN disk.tree /\ path \in DOMAIN disk'.tree
             /\ disk'.tree[path] = disk.tree[path]
          \/ disk' \in {Wiped} \cup HalfWiped(disk)]_turnVars

\* The entry of a topic stays as it is, or a reset removed it.
Untouched(topic) ==
    IF topic \in DOMAIN disk'.knowledge
    THEN topic \in DOMAIN disk.knowledge /\ disk'.knowledge[topic] = disk.knowledge[topic]
    ELSE disk' \in {Wiped} \cup HalfWiped(disk)

\* Session s executes a knowledge_write of the topic.  If it goes on, the entry
\* is the whole text, which is not empty, or the call is on record as failed.
Writes(s, topic) ==
    LET call == Head(todo[s])
        args == ParseArgs(call.raw) IN
    /\ pc[s] = "tool" /\ call.name = "knowledge_write" /\ args.on = topic
    /\ pc'[s] \in {"llm", "tool"} =>
          /\ Len(ran'[s]) = Len(ran[s]) + 1
          /\ \/ Last(ran'[s]).raised
             \/ /\ topic \in DOMAIN disk'.knowledge
                /\ disk'.knowledge[topic] = args.text /\ args.text \notin {"", "blank"}

\* What is known of a topic, which all sessions share, changes only by a reset or
\* by a write of that topic; and a write that lost what was known (it truncates
\* the file first, core and tool catch nothing) never passes for a success.
KnowledgeKept ==
    [][\A topic \in DOMAIN disk.knowledge \cup DOMAIN disk'.knowledge :
          Untouched(topic) \/ \E s \in Sids : Writes(s, topic)]_turnVars
============================================================================
