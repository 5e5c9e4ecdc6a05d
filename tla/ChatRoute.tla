------------------------------ MODULE ChatRoute ------------------------------
(***************************************************************************)
(* What a chat request is made into and what comes back of the answer      *)
(* (gateway, routes/chat.rs and services/chat_service.rs; corlinman_server *)
(* and corlinman_agent for the agent's side of the request): the model's   *)
(* name, the session's rows before the new messages, the form each vendor  *)
(* takes them in; then the frames of the answer, the tools it calls, and   *)
(* what the caller and the session get.  A caller makes one request after  *)
(* another; requests at the same time, trims and failing appends are in    *)
(* ChatSession, late results in AgentTurn.                                 *)
(*                                                                         *)
(* A message is [role, content], its content a sequence of parts of a type *)
(* and what they hold; an empty text is no part.                           *)
(***************************************************************************)
EXTENDS Integers, Sequences, SequencesExt, FiniteSetsExt

CONSTANTS
    Requests,       \* what callers ask
    Redirect,       \* ModelRedirect: [aliases, known_models, default]
    VendorOf,       \* the model of a vendor's provider -> "openai", "anthropic" or "google"
    Temperature,    \* among the provider's parameters
    Texts,
    MaxFrames, MaxTurns,
    Nil

VARIABLES
    sessions,       \* session key -> its rows
    stage,          \* "idle", "open", or how the frames ended
    request,
    loaded,         \* the rows the request was given
    asked,          \* what the vendor was asked
    text, calls,    \* what was accumulated of the answer
    told,           \* what the caller was sent
    results,        \* what went back to the agent
    made,           \* bound: requests so far
    turns           \* the requests that were kept, and what their callers were told (history)

askVars == <<request, loaded, asked>>
answerVars == <<text, calls, results>>
turnVars == <<made, turns>>
routeVars == <<sessions, stage, askVars, answerVars, told, turnVars>>

Message(role, content) == [role |-> role, content |-> content]
Part(type, of) == [type |-> type, of |-> of]

Init ==
    /\ sessions = [k \in UNION {{r.body_key, r.header_key} : r \in Requests} \ {Nil} |-> <<>>]
    /\ stage = "idle" /\ request = Nil /\ loaded = <<>> /\ asked = Nil
    /\ text = <<>> /\ calls = <<>> /\ told = <<>> /\ results = <<>>
    /\ made = 0 /\ turns = <<>>

-----------------------------------------------------------------------------
(* The request.                                                            *)

Streamed(r) == r.transport \in {"sse", "channel"}

\* Nil: nobody knows the model.
apply_model_aliases(model) ==
    IF model \in DOMAIN Redirect.aliases THEN Redirect.aliases[model]
    ELSE IF Redirect.known_models = {} \/ model \in Redirect.known_models THEN model
    ELSE Redirect.default

\* A channel asks for its model as it is configured.
Model(r) == IF r.transport = "channel" THEN r.model ELSE apply_model_aliases(r.model)

Refused(r) == r.transport # "channel" /\ (r.model = Nil \/ r.messages = <<>> \/ Model(r) = Nil)

\* The body before the header; a channel's key is for the agent, and no rows are kept by it.
resolve_session_key(r) ==
    IF r.transport = "channel" THEN Nil ELSE IF r.body_key # Nil THEN r.body_key ELSE r.header_key

\* A row's tool calls are not part of the message it becomes.
session_message_to_chat_message(row) == Message(row.role, row.content)

\* The name and the call a message answers stay behind, and so do the tools; a role nobody
\* knows is a user's.
_to_agent_start(messages) ==
    [n \in DOMAIN messages |->
        [messages[n] EXCEPT !.role = IF @ \in {"user", "assistant", "system", "tool"} THEN @ ELSE "user"]]

_attachment_to_content_part(a) ==
    IF a.holds = Nil THEN <<>> ELSE <<Part(IF a.kind = "image" THEN "image_url" ELSE "file", a.holds)>>

\* To the last message of a user, or to one of its own.
_inject_attachments(messages, attachments) ==
    LET users == {n \in DOMAIN messages : messages[n].role = "user"}
        at == IF users = {} THEN Len(messages) + 1 ELSE Max(users)
        all == IF users = {} THEN Append(messages, Message("user", <<>>)) ELSE messages IN
    IF attachments = <<>> THEN messages
    ELSE [all EXCEPT ![at].content =
            @ \o FlattenSeq([n \in DOMAIN attachments |-> _attachment_to_content_part(attachments[n])])]

OfType(content, types) == SelectSeq(content, LAMBDA p : p.type \in types)

\* Anthropic takes the system's texts apart from the rest, a tool for a user, and no files.
_split_system(messages) ==
    [system |-> FlattenSeq([n \in DOMAIN messages |->
                    IF messages[n].role = "system" THEN OfType(messages[n].content, {"text"}) ELSE <<>>]),
     chat |-> LET rest == SelectSeq(messages, LAMBDA m : m.role # "system") IN
              [n \in DOMAIN rest |->
                Message(IF rest[n].role \in {"user", "tool"} THEN "user" ELSE "assistant",
                        OfType(rest[n].content, {"text", "image_url"}))]]

\* OpenAI takes the messages as they are, Google what has content, with its role.
ForVendor(vendor, messages) ==
    CASE vendor = "anthropic" -> _split_system(messages)
      [] vendor = "openai"    -> [system |-> <<>>, chat |-> messages]
      [] vendor = "google"    -> [system |-> <<>>, chat |-> SelectSeq(messages, LAMBDA m : m.content # <<>>)]

\* A temperature of 0 is none to the agent, and the provider's is taken.
_apply_merged_params(temperature) == IF temperature \in {Nil, 0} THEN Temperature ELSE temperature

build_chat_start(r, rows) ==
    [n \in DOMAIN rows |-> session_message_to_chat_message(rows[n])] \o r.messages

Asked(r, rows) ==
    [model |-> Model(r),
     temperature |-> _apply_merged_params(r.temperature),
     prompt |-> ForVendor(VendorOf[Model(r)],
                    _inject_attachments(_to_agent_start(build_chat_start(r, rows)), r.attachments))]

Error(code) == [kind |-> "error", code |-> code]

\* A load that fails gives no rows.
handle_chat(r) ==
    /\ stage = "idle" /\ made < MaxTurns /\ made' = made + 1
    /\ request' = r /\ text' = <<>> /\ calls' = <<>> /\ results' = <<>>
    /\ IF Refused(r)
       THEN /\ stage' = "idle" /\ loaded' = <<>> /\ asked' = Nil
            /\ told' = <<Error("bad_request")>>
       ELSE /\ loaded' \in {<<>>, IF resolve_session_key(r) = Nil THEN <<>>
                                  ELSE sessions[resolve_session_key(r)]}
            /\ asked' = Asked(r, loaded')
            /\ \/ stage' = "open" /\ told' = <<>>
               \/ stage' = "idle" /\ told' = <<Error("upstream")>>
    /\ UNCHANGED <<sessions, turns>>

-----------------------------------------------------------------------------
(* The answer, frame by frame.                                             *)

Emit(event) == told' = IF Streamed(request) THEN Append(told, event) ELSE told

\* Bound: a later answer is shorter.
Taking == stage = "open" /\ Len(text) + Len(calls) < MaxFrames \div made

TakeToken(t) ==
    /\ Taking
    /\ text' = Append(text, t)
    /\ Emit([kind |-> "token", text |-> t])
    /\ UNCHANGED <<sessions, stage, askVars, calls, results, turnVars>>

\* What the gate says, and what becomes of a call it lets through.
Executions ==
    [gate : {"denied", "timeout", "cancelled", "broken"}]
    \cup [gate : {"off", "approved"},
          plugin : {"no_such_plugin", "no_runtime", "success", "error", "runtime_timeout",
                    "callback", "callback_dropped", "callback_late"}]

HasResult(e) == e.gate # "broken"
is_error(e) == e.gate \notin {"off", "approved"} \/ e.plugin \notin {"success", "callback"}

\* The gate's own error ends a plain request; a stream lists the call and goes on.
TakeCall(e) ==
    /\ Taking
    /\ LET id == Len(calls) + 1 IN
       /\ calls' = Append(calls, id)
       /\ results' = IF HasResult(e) THEN Append(results, [call |-> id, is_error |-> is_error(e)]) ELSE results
       /\ IF HasResult(e) \/ Streamed(request)
          THEN Emit([kind |-> "tool_call", index |-> Len(calls), id |-> id]) /\ UNCHANGED stage
          ELSE told' = <<Error("gate")>> /\ stage' = "idle"
    /\ UNCHANGED <<sessions, askVars, text, turnVars>>

\* Frames of other kinds are passed over.  An agent that gives no reason gets one.
normalise_finish_reason(raw) ==
    IF raw = "tool_call" THEN "tool_calls"
    ELSE IF raw # "" THEN raw
    ELSE IF calls # <<>> THEN "tool_calls" ELSE "stop"

Finishes(reason) ==
    IF Streamed(request) THEN Emit([kind |-> "finish", reason |-> reason])
    ELSE told' = <<[kind |-> "response", reason |-> reason, text |-> text, calls |-> calls]>>

\* A channel's turn is over with its last event, and keeps nothing.
Closes(how) == stage' = IF request.transport = "channel" THEN "idle" ELSE how

TakeDone(raw) ==
    /\ stage = "open"
    /\ Finishes(IF request.transport = "channel" THEN raw ELSE normalise_finish_reason(raw))
    /\ Closes("done")
    /\ UNCHANGED <<sessions, askVars, answerVars, turnVars>>

\* An error frame, or the error of a stream that broke.
TakeError ==
    /\ stage = "open"
    /\ IF Streamed(request) THEN Emit(Error("upstream")) /\ Closes("error")
       ELSE told' = <<Error("upstream")>> /\ stage' = "idle"
    /\ UNCHANGED <<sessions, askVars, answerVars, turnVars>>

\* No frame is left and there was no end: SSE goes on to [DONE].
FramesEnd ==
    /\ stage = "open"
    /\ IF request.transport = "sse" THEN UNCHANGED told ELSE Finishes("stop")
    /\ Closes("done")
    /\ UNCHANGED <<sessions, askVars, answerVars, turnVars>>

\* The last message of a user among the new ones; none, and only the answer is kept.
NewUser(r) ==
    LET users == {n \in DOMAIN r.messages : r.messages[n].role = "user"} IN
    IF users = {} THEN <<>>
    ELSE <<[role |-> "user", content |-> r.messages[Max(users)].content, tool_calls |-> <<>>]>>

\* persist_turn and persist_stream_turn; [DONE] is sent when the rows are there.
persist_turn ==
    /\ stage \in {"done", "error"}
    /\ LET key == resolve_session_key(request)
           answer == [role |-> "assistant", tool_calls |-> calls,
                      content |-> [n \in DOMAIN text |-> Part("text", text[n])]] IN
       sessions' = IF key = Nil THEN sessions
                   ELSE [sessions EXCEPT ![key] = @ \o NewUser(request) \o <<answer>>]
    /\ told' = IF request.transport = "sse" THEN Append(told, [kind |-> "[DONE]"]) ELSE told
    /\ turns' = Append(turns, [request |-> request, told |-> told'])
    /\ stage' = "idle"
    /\ UNCHANGED <<askVars, answerVars, made>>

\* Whatever ran by then, nothing is kept; a response waits for its rows.
CallerLeaves ==
    /\ stage # "idle"
    /\ told' = IF Streamed(request) THEN told ELSE <<>>
    /\ stage' = "idle"
    /\ UNCHANGED <<sessions, askVars, answerVars, turnVars>>

Next ==
    \/ \E r \in Requests : handle_chat(r)
    \/ \E t \in Texts : TakeToken(t)
    \/ \E e \in Executions : TakeCall(e)
    \/ \E raw \in {"", "stop", "tool_call"} : TakeDone(raw)
    \/ TakeError \/ FramesEnd \/ persist_turn \/ CallerLeaves

Spec == Init /\ [][Next]_routeVars

-----------------------------------------------------------------------------
(* Properties.                                                             *)

TypeOK ==
    /\ stage \in {"idle", "open", "done", "error"}
    /\ text \in Seq(Texts) /\ calls \in Seq(Nat)
    /\ \A k \in DOMAIN sessions : \A n \in DOMAIN sessions[k] : sessions[k][n].role \in {"user", "assistant"}

Kinds(events, kind) == SelectSeq(events, LAMBDA e : e.kind = kind)

\* What a caller can put together of what it was sent.
Heard(events) ==
    IF Kinds(events, "response") # <<>>
    THEN [text |-> Kinds(events, "response")[1].text, calls |-> Kinds(events, "response")[1].calls]
    ELSE [text |-> [n \in DOMAIN Kinds(events, "token") |-> Kinds(events, "token")[n].text],
          calls |-> [n \in DOMAIN Kinds(events, "tool_call") |-> Kinds(events, "tool_call")[n].id]]

\* A session's rows are its own turns that were kept, in order: the last thing the user
\* said and the answer as the caller of that turn heard it, whatever the transport and
\* however the turn ended (persist_turn, persist_stream_turn).
RowsAreTheTurns ==
    \A k \in DOMAIN sessions :
        LET InSession(r) == r.body_key = k \/ (r.body_key = Nil /\ r.header_key = k)
            kept == SelectSeq(turns, LAMBDA t : InSession(t.request))
            Users(r) == SelectSeq(r.messages, LAMBDA m : m.role = "user") IN
        sessions[k] = FlattenSeq([n \in DOMAIN kept |->
            (IF Users(kept[n].request) = <<>> THEN <<>>
             ELSE <<[role |-> "user", content |-> Last(Users(kept[n].request)).content, tool_calls |-> <<>>]>>)
            \o <<[role |-> "assistant", tool_calls |-> Heard(kept[n].told).calls,
                  content |-> [m \in DOMAIN Heard(kept[n].told).text |->
                                  Part("text", Heard(kept[n].told).text[m])]]>>])

\* A caller is told one end and nothing after it but [DONE], which follows every stream that
\* it stays for; its tool calls are numbered from 0; and no result goes to the agent
\* twice, out of order, or for a call that was not listed (build_sse_stream,
\* chat_nonstream, into_event_stream).
OneEnd ==
    /\ LET ends == {n \in DOMAIN told : told[n].kind \in {"finish", "error", "response"}}
           listed == Kinds(told, "tool_call") IN
       /\ Cardinality(ends) <= 1
       /\ \A n \in ends : \A m \in DOMAIN told : m > n => told[m].kind = "[DONE]"
       /\ \A n \in DOMAIN listed : listed[n].index = n - 1
    /\ \A t \in Range(turns) : (t.request.transport = "sse") = (Last(t.told).kind = "[DONE]")
    /\ \A m, n \in DOMAIN results : m < n => results[m].call < results[n].call
    /\ \A n \in DOMAIN results : results[n].call <= Len(calls)

Content(messages) == FlattenSeq([n \in DOMAIN messages |-> messages[n].content])

\* What the vendor is asked holds every text of the rows and of the request, the system's
\* texts in order and the others' in order, and every attachment the vendor takes, in a
\* message of a user that no other user's message follows (build_chat_start,
\* _inject_attachments, _split_system).
NothingIsUnsaid ==
    stage = "open" =>
        LET given == Content(loaded) \o Content(request.messages)
            systems == Content(SelectSeq(request.messages, LAMBDA m : m.role = "system"))
            others == Content(loaded) \o Content(SelectSeq(request.messages, LAMBDA m : m.role # "system"))
            chat == asked.prompt.chat
            attached == {n \in DOMAIN chat : OfType(chat[n].content, {"image_url", "file"}) # <<>>} IN
        /\ IF VendorOf[asked.model] = "anthropic"
           THEN asked.prompt.system = systems /\ OfType(Content(chat), {"text"}) = others
           ELSE asked.prompt.system = <<>> /\ OfType(Content(chat), {"text"}) = given
        /\ \A n \in DOMAIN request.attachments :
            LET a == request.attachments[n] IN
            a.holds # Nil /\ (VendorOf[asked.model] # "anthropic" \/ a.kind = "image") =>
                \E m \in attached : a.holds \in {p.of : p \in Range(chat[m].content)}
        /\ \A m \in attached : \A n \in DOMAIN chat : n > m => chat[n].role # "user" \/ VendorOf[asked.model] = "anthropic"
=============================================================================
