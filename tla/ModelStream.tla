----------------------------- MODULE ModelStream -----------------------------
(***************************************************************************)
(* One round of a model's answer on its way from the vendor to the gateway *)
(* (corlinman_providers; corlinman_agent, reasoning_loop.py;               *)
(* corlinman_server, agent_servicer.py).  A provider turns what its vendor *)
(* streams into chunks of one kind for all, the loop puts tool calls       *)
(* together from them, and the servicer sends frames.  A vendor sends a    *)
(* call's name with its first piece.  Rounds, results and cancellation are *)
(* in AgentTurn.                                                           *)
(***************************************************************************)
EXTENDS Integers, Sequences, SequencesExt, Functions

CONSTANTS
    CallIds,        \* by which vendors call the tool calls of a round
    Fragments,      \* of text and of arguments
    MaxEvents,
    Nil

VARIABLES
    request_format, \* of the provider's specification
    stream,         \* "open", or how the vendor's stream ended
    open_ids,       \* the provider's open calls: index or block -> call id
    open_calls,     \* the loop's, in the order in which they were begun
    frames,         \* what the servicer has sent
    said,           \* what the model said, and how its answer ended (history)
    error           \* what was raised (history)

providerVars == <<request_format, stream, open_ids>>
streamVars == <<providerVars, open_calls, frames, said, error>>

Indices == 0 .. 1

\* DeclarativeProvider._build_inner: who speaks for a request format.
_build_inner ==
    [openai_compatible |-> "openai", anthropic_compatible |-> "anthropic", gemini_compatible |-> "google"]
vendor == _build_inner[request_format]

Init ==
    /\ request_format \in DOMAIN _build_inner
    /\ stream = "open" /\ open_ids = [i \in {} |-> Nil] /\ open_calls = <<>> /\ frames = <<>>
    /\ said = [text |-> <<>>, calls |-> <<>>, finish |-> Nil] /\ error = Nil

-----------------------------------------------------------------------------
(* ReasoningLoop._run_one_round and Chat: chunks to frames.                *)

Token(text) == [kind |-> "token", text |-> text]
Start(id, name) == [kind |-> "tool_call_start", id |-> id, name |-> name]
Delta(id, fragment) == [kind |-> "tool_call_delta", id |-> id, fragment |-> fragment]
End(id) == [kind |-> "tool_call_end", id |-> id]
Done(finish) == [kind |-> "done", finish |-> finish]

\* Arguments that nobody sent are an empty object; whether they parse is only logged.
ToolCall(call) ==
    [kind |-> "tool_call", call |-> [call EXCEPT !.args = IF @ = <<>> THEN <<"{}">> ELSE @]]

Known(calls, id) == {k \in DOMAIN calls : calls[k].id = id}

Flush(calls) == [k \in DOMAIN calls |-> ToolCall(calls[k])]
Without(calls, id) == SelectSeq(calls, LAMBDA call : call.id # id)

\* A call that begins again under its id loses what it had, at its old place.
TakeChunk(s, c) ==
    CASE c.kind = "token" -> [s EXCEPT !.frames = Append(@, c)]
      [] c.kind = "tool_call_start" ->
            LET call == [id |-> c.id, name |-> c.name, args |-> <<>>] IN
            [s EXCEPT !.open = IF Known(@, c.id) = {} THEN Append(@, call)
                               ELSE [k \in DOMAIN @ |-> IF k \in Known(@, c.id) THEN call ELSE @[k]]]
      [] c.kind = "tool_call_delta" ->
            [s EXCEPT !.open = [k \in DOMAIN @ |-> IF k \in Known(@, c.id)
                                                   THEN [@[k] EXCEPT !.args = Append(@, c.fragment)]
                                                   ELSE @[k]]]
      [] c.kind = "tool_call_end" ->
            [open |-> Without(s.open, c.id),
             frames |-> s.frames \o [n \in 1 .. Len(s.open) - Len(Without(s.open, c.id)) |->
                                        ToolCall(s.open[CHOOSE k \in Known(s.open, c.id) : TRUE])]]
      [] c.kind = "done" ->
            [open |-> <<>>, frames |-> s.frames \o Flush(s.open) \o <<c>>]

Yield(chunks) ==
    LET s == FoldLeft(TakeChunk, [open |-> open_calls, frames |-> frames], chunks) IN
    open_calls' = s.open /\ frames' = s.frames

-----------------------------------------------------------------------------
(* The model goes on, and the provider passes it on.                       *)

Said == Len(said.text) + FoldFunction(LAMBDA c, n : n + Len(c.args) + 1, 0, said.calls)
Streaming == stream = "open" /\ Said < MaxEvents

SayText(fragment) ==
    /\ Streaming
    /\ vendor = "anthropic" => open_ids = [i \in {} |-> Nil]
    /\ said' = [said EXCEPT !.text = Append(@, fragment)]
    /\ Yield(<<Token(fragment)>>)
    /\ UNCHANGED <<providerVars, error>>

Begun == {said.calls[k].index : k \in DOMAIN said.calls}

\* The model goes on with the arguments of the call at an index, or begins it.
Says(index, id, fragments) ==
    said' = [said EXCEPT !.calls =
        IF index \in Begun
        THEN [k \in DOMAIN @ |-> IF @[k].index = index THEN [@[k] EXCEPT !.args = @ \o fragments]
                                 ELSE @[k]]
        ELSE Append(@, [index |-> index, id |-> id, args |-> fragments])]

Fallback(index) == <<"call", index>>

\* OpenAI and what is compatible with it: deltas by index, whose first piece opens the
\* call.  A server may name no call; an id that comes late is not looked at.
ToolDelta(index, id, fragments) ==
    /\ Streaming /\ vendor = "openai"
    /\ index \notin Begun => id = Nil \/ \A k \in DOMAIN said.calls : said.calls[k].id # id
    /\ index \in Begun => id = Nil /\ fragments # <<>>
    /\ Says(index, id, fragments)
    /\ LET call_id == IF index \in DOMAIN open_ids THEN open_ids[index]
                      ELSE IF id # Nil THEN id ELSE Fallback(index) IN
       /\ Yield((IF index \in DOMAIN open_ids THEN <<>> ELSE <<Start(call_id, index)>>)
                \o [n \in DOMAIN fragments |-> Delta(call_id, fragments[n])])
       /\ open_ids' = [i \in DOMAIN open_ids \cup {index} |-> IF i = index THEN call_id ELSE open_ids[i]]
    /\ UNCHANGED <<request_format, stream, error>>

\* Anthropic: one block after another.
BlockStart(index, id) ==
    /\ Streaming /\ vendor = "anthropic" /\ open_ids = [i \in {} |-> Nil] /\ index \notin Begun
    /\ \A k \in DOMAIN said.calls : said.calls[k].id # id
    /\ Says(index, id, <<>>)
    /\ Yield(<<Start(id, index)>>)
    /\ open_ids' = [i \in {index} |-> id]
    /\ UNCHANGED <<request_format, stream, error>>

BlockDelta(index, fragment) ==
    /\ Streaming /\ vendor = "anthropic" /\ index \in DOMAIN open_ids
    /\ Says(index, Nil, <<fragment>>)
    /\ Yield(<<Delta(open_ids[index], fragment)>>)
    /\ UNCHANGED <<providerVars, error>>

BlockStop(index) ==
    /\ stream = "open" /\ vendor = "anthropic" /\ index \in DOMAIN open_ids
    /\ Yield(<<End(open_ids[index])>>)
    /\ open_ids' = [i \in DOMAIN open_ids \ {index} |-> open_ids[i]]
    /\ UNCHANGED <<request_format, stream, said, error>>

-----------------------------------------------------------------------------
(* The answer ends, or breaks off.                                         *)

Reasons == [openai    |-> {"stop", "length", "tool_calls", "content_filter"},
            anthropic |-> {"end_turn", "max_tokens", "stop_sequence", "tool_use", "refusal"},
            google    |-> {"STOP", "MAX_TOKENS"}]

\* Google's reason is not read.
_map_finish_reason(reason) ==
    CASE vendor = "openai" /\ reason \in {"stop", "length", "tool_calls"} -> reason
      [] vendor = "anthropic" /\ reason = "max_tokens" -> "length"
      [] vendor = "anthropic" /\ reason = "tool_use"   -> "tool_calls"
      [] OTHER -> "stop"

\* The loop's own done, which ends the turn when there was no call (ReasoningLoop.run).
Finish(reason) ==
    /\ stream = "open" /\ (vendor = "anthropic" => open_ids = [i \in {} |-> Nil])
    /\ reason \in Reasons[vendor]
    /\ stream' = "finished" /\ open_ids' = [i \in {} |-> Nil]
    /\ said' = [said EXCEPT !.finish = reason]
    /\ Yield((IF vendor = "openai" THEN [n \in DOMAIN said.calls |-> End(open_ids[said.calls[n].index])]
              ELSE <<>>)
             \o <<Done(_map_finish_reason(reason))>>)
    /\ UNCHANGED <<request_format, error>>

\* A server that ends its stream without a reason.
Quits ==
    /\ stream = "open" /\ vendor = "openai"
    /\ stream' = "quit" /\ open_ids' = [i \in {} |-> Nil]
    /\ Yield(<<Done("stop")>>)
    /\ UNCHANGED <<request_format, said, error>>

\* What the SDKs raise, and what their message speaks of.
Exceptions ==
    [class : {"RateLimit", "Timeout", "Authentication", "PermissionDenied", "NotFound", "Other"}]
    \cup [class : {"BadRequest"}, says : SUBSET {"billing", "context"}]
    \cup [class : {"Status"}, status : {400, 401, 403, 404, 429, 500, 503, 529}]

\* _map_openai_error and _map_anthropic_error, which differ in the words they look for.
_map_error(e) ==
    IF vendor = "google" THEN "unknown"
    ELSE CASE e.class = "RateLimit"         -> "rate_limit"
         [] e.class = "Timeout"           -> "timeout"
         [] e.class = "Authentication"    -> "auth"
         [] e.class = "PermissionDenied"  -> "auth_permanent"
         [] e.class = "NotFound"          -> "model_not_found"
         [] e.class = "BadRequest"        -> IF "billing" \in e.says THEN "billing"
                                             ELSE IF "context" \in e.says THEN "context_overflow"
                                             ELSE "format"
         [] e.class = "Status"            -> IF e.status \in {503, 529} THEN "overloaded"
                                             ELSE IF e.status = 429 THEN "rate_limit"
                                             ELSE IF e.status \in {401, 403} THEN "auth"
                                             ELSE IF e.status = 404 THEN "model_not_found"
                                             ELSE "unknown"
         [] OTHER                         -> "unknown"

\* The integers of FailoverReason in common.proto, as Python writes them ..
_reason_to_proto ==
    [billing |-> 1, rate_limit |-> 2, auth |-> 3, auth_permanent |-> 4, timeout |-> 5,
     model_not_found |-> 6, format |-> 7, context_overflow |-> 8, overloaded |-> 9]

\* .. and as Rust reads them.
reason_from_proto ==
    <<"billing", "rate_limit", "auth", "auth_permanent", "timeout", "model_not_found", "format",
      "context_overflow", "overloaded", "unknown">>

_error_frame(reason) ==
    [kind |-> "error",
     reason |-> IF reason \in DOMAIN _reason_to_proto THEN _reason_to_proto[reason] ELSE 10,
     retryable |-> reason \in {"rate_limit", "timeout", "overloaded", "unknown"}]

\* Calls that are open are not handed on.
Fails(e) ==
    /\ stream = "open"
    /\ stream' = "failed" /\ error' = _map_error(e)
    /\ frames' = Append(frames, _error_frame(_map_error(e)))
    /\ UNCHANGED <<request_format, open_ids, open_calls, said>>

Next ==
    \/ \E f \in Fragments :
        SayText(f) \/ \E i \in Indices : BlockDelta(i, f)
    \/ \E i \in Indices :
        \/ \E id \in CallIds : BlockStart(i, id)
        \/ \E id \in CallIds \cup {Nil}, fs \in {<<>>} \cup {<<f>> : f \in Fragments} : ToolDelta(i, id, fs)
        \/ BlockStop(i)
    \/ \E r \in UNION Range(Reasons) : Finish(r)
    \/ Quits
    \/ \E e \in Exceptions : Fails(e)

Spec == Init /\ [][Next]_streamVars

-----------------------------------------------------------------------------
(* Properties.                                                             *)

Sent(kind) == SelectSeq(frames, LAMBDA f : f.kind = kind)

TypeOK ==
    /\ stream \in {"open", "finished", "quit", "failed"}
    /\ DOMAIN open_ids \subseteq Indices
    /\ \A k \in DOMAIN open_calls : open_calls[k].args \in Seq(Fragments)

\* Whatever vendor it is and however it cuts and interleaves its answer, the frames
\* carry the text the model said, in order, and each of its calls once, under an id of its
\* own and with the arguments the model gave to that call and no others; when the stream
\* ends, every call it began is there and one end comes last (chat_stream,
\* _run_one_round).
AnswerSurvives ==
    /\ [n \in DOMAIN Sent("token") |-> Sent("token")[n].text] = said.text
    /\ \A n \in DOMAIN Sent("tool_call") :
        LET call == Sent("tool_call")[n].call IN
        /\ \E k \in DOMAIN said.calls :
            /\ said.calls[k].index = call.name
            /\ call.args = IF said.calls[k].args = <<>> THEN <<"{}">> ELSE said.calls[k].args
            /\ said.calls[k].id # Nil => call.id = said.calls[k].id
        /\ \A m \in DOMAIN Sent("tool_call") : m # n => Sent("tool_call")[m].call.id # call.id
    /\ stream \in {"finished", "quit"} =>
        Len(Sent("tool_call")) = Len(said.calls) /\ Last(frames).kind = "done"
    /\ Len(Sent("done")) + Len(Sent("error")) = (IF stream = "open" THEN 0 ELSE 1)

\* The reason a provider gave an error reaches the gateway under the same name, over two
\* tables of integers in two languages; a call that an error cut short is not handed on
\* (_reason_to_proto, reason_from_proto).
ErrorsAreTold ==
    stream = "failed" =>
        /\ reason_from_proto[Last(frames).reason] = error
        /\ {Sent("tool_call")[n].call.id : n \in DOMAIN Sent("tool_call")}
              \cap {open_calls[k].id : k \in DOMAIN open_calls} = {}
=============================================================================
