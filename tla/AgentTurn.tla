------------------------------ MODULE AgentTurn ------------------------------
(***************************************************************************)
(* One chat turn between the gateway and the Python agent                  *)
(* (corlinman_agent/reasoning_loop.py, corlinman_server/agent_servicer.py; *)
(* gateway, routes/chat.rs and services/chat_service.rs).  The agent asks  *)
(* the provider round by round and emits the tool calls of a round while   *)
(* it streams; the gateway takes one frame after another and runs a call   *)
(* to its end before it takes the next, and the agent waits for the        *)
(* results of a round, each for a limited time.  A provider may use the    *)
(* same call ids in every round ("call_0" of openai_provider.py), and none *)
(* twice in a round.  Tokens and arguments are left out, and the frames in *)
(* both directions are queues without a limit.                             *)
(***************************************************************************)
EXTENDS Integers, Sequences, SequencesExt

CONSTANTS
    CallIds,
    MaxRounds,  \* _MAX_ROUNDS
    Nil

VARIABLES
    transport,  \* who drives the gateway's half: a request, an SSE request or a channel
    phase,      \* where the agent's loop is, or how it ended
    round,      \* the provider calls so far
    asked,      \* the ids of the round's tool calls
    got,        \* the results of the round, by call id
    inbox,      \* the results on their way to the loop and in its queue
    aborted,    \* a Cancel frame has reached the loop
    frames,     \* the agent's frames the gateway has not taken
    executing,  \* the call the gateway runs
    outcome,    \* what the gateway's caller was told
    listed,     \* the calls the response lists (tool_calls)
    prompt,     \* the calls and results given back to the provider (history)
    ran         \* the calls the gateway was done with (history)

loopVars == <<phase, round, asked, got, aborted, prompt>>
gatewayVars == <<transport, executing, outcome, listed, ran>>
turnVars == <<loopVars, gatewayVars, inbox, frames>>

ToolCalls == [round : 1 .. MaxRounds, id : CallIds]
Call(id) == [round |-> round, id |-> id]
Frames == [kind : {"tool_call"}, call : ToolCalls] \cup [kind : {"done", "error"}]

Ended == {"done", "error", "dead"}
Listening == outcome = "open"

Init ==
    /\ transport \in {"request", "sse", "channel"}
    /\ phase = "start" /\ round = 0 /\ asked = <<>> /\ got = [i \in {} |-> Nil] /\ aborted = FALSE
    /\ inbox = <<>> /\ frames = <<>> /\ executing = Nil /\ outcome = "open"
    /\ prompt = {} /\ listed = {} /\ ran = {}

-----------------------------------------------------------------------------
(* The agent's loop.                                                       *)

Emit(frame) == frames' = Append(frames, frame)

End(kind) == phase' = kind /\ Emit([kind |-> kind])

\* A model the resolver does not know is an error frame, and no loop runs.
RefuseModel ==
    /\ phase = "start" /\ End("error")
    /\ UNCHANGED <<round, asked, got, aborted, prompt, inbox, gatewayVars>>

EnterRound == phase' = "provider" /\ round' = round + 1 /\ asked' = <<>>

\* The top of the loop: a cancel ends it, and so do all the rounds it may have.
StartRound ==
    /\ phase \in {"start", "again"}
    /\ IF round = MaxRounds THEN End("done") /\ UNCHANGED <<round, asked>>
       ELSE IF aborted THEN End("error") /\ UNCHANGED <<round, asked>>
       ELSE EnterRound /\ UNCHANGED frames
    /\ UNCHANGED <<got, aborted, prompt, inbox, gatewayVars>>

EmitCall(id) ==
    /\ phase = "provider" /\ ~Contains(asked, id)
    /\ asked' = Append(asked, id)
    /\ Emit([kind |-> "tool_call", call |-> Call(id)])
    /\ UNCHANGED <<phase, round, got, aborted, prompt, inbox, gatewayVars>>

ProviderFails ==
    /\ phase = "provider" /\ End("error")
    /\ UNCHANGED <<round, asked, got, aborted, prompt, inbox, gatewayVars>>

ProviderEnds ==
    /\ phase = "provider"
    /\ IF aborted THEN End("error")
       ELSE IF asked = <<>> THEN End("done")
       ELSE phase' = "collect" /\ UNCHANGED frames
    /\ got' = [i \in {} |-> Nil]
    /\ UNCHANGED <<round, asked, aborted, prompt, inbox, gatewayVars>>

Missing == ToSet(asked) \ DOMAIN got

\* Whatever arrives is kept by its id; a cancel wins over a result.
TakeResult ==
    /\ phase = "collect" /\ Missing # {} /\ ~aborted /\ inbox # <<>>
    /\ LET result == Head(inbox)
       IN got' = [i \in DOMAIN got \cup {result.call.id} |->
                    IF i = result.call.id THEN result ELSE got[i]]
    /\ inbox' = Tail(inbox)
    /\ UNCHANGED <<phase, round, asked, aborted, prompt, frames, gatewayVars>>

CollectIsCancelled ==
    /\ phase = "collect" /\ aborted /\ End("error")
    /\ UNCHANGED <<round, asked, got, aborted, prompt, inbox, gatewayVars>>

\* Mutant: a round goes on with the results that came in time.
ResultIsLate_goes_on ==
    /\ phase = "collect" /\ Missing # {} /\ ~aborted /\ inbox = <<>>
    /\ phase' = "again"
    /\ UNCHANGED <<round, asked, got, aborted, prompt, inbox, frames, gatewayVars>>

\* Nothing for tool_result_timeout: the turn ends as the provider's round ended.
ResultIsLate ==
    /\ phase = "collect" /\ Missing # {} /\ ~aborted /\ inbox = <<>>
    /\ End("done")
    /\ UNCHANGED <<round, asked, got, aborted, prompt, inbox, gatewayVars>>

\* The calls and their results go into the messages; a placeholder ends the turn.
ExtendMessages ==
    /\ phase = "collect" /\ Missing = {} /\ ~aborted
    /\ prompt' = prompt \cup {[call |-> Call(id), result |-> got[id]] : id \in ToSet(asked)}
    /\ IF \E id \in ToSet(asked) : got[id].placeholder THEN End("done")
       ELSE phase' = "again" /\ UNCHANGED frames
    /\ UNCHANGED <<round, asked, got, aborted, inbox, gatewayVars>>

\* The pump feeds a Cancel to the loop and ends (ChatStream::cancel sends one).
CancelArrives ==
    /\ Listening /\ phase \notin Ended /\ ~aborted
    /\ aborted' = TRUE
    /\ UNCHANGED <<phase, round, asked, got, prompt, inbox, frames, gatewayVars>>

\* The agent's process ends, or the stream to a caller that left is reset when the
\* next frame finds nobody; until then the loop is told nothing.
AgentDies ==
    /\ phase \notin Ended
    /\ phase' = "dead"
    /\ UNCHANGED <<round, asked, got, aborted, prompt, inbox, frames, gatewayVars>>

-----------------------------------------------------------------------------
(* The gateway's half.                                                     *)

TakeCall ==
    /\ Listening /\ executing = Nil /\ frames # <<>> /\ Head(frames).kind = "tool_call"
    /\ executing' = Head(frames).call /\ listed' = listed \cup {Head(frames).call}
    /\ frames' = Tail(frames)
    /\ UNCHANGED <<transport, outcome, ran, loopVars, inbox>>

\* Errors and timeouts of the plugin, and a denial, are results too.
ExecutionEnds ==
    /\ executing # Nil
    /\ \E placeholder \in BOOLEAN :
        inbox' = Append(inbox, [call |-> executing, placeholder |-> placeholder])
    /\ ran' = ran \cup {executing} /\ executing' = Nil
    /\ UNCHANGED <<transport, outcome, listed, loopVars, frames>>

\* The approval gate's own error ends a plain request; the streams send no result.
ExecutionFails ==
    /\ executing # Nil
    /\ ran' = ran \cup {executing} /\ executing' = Nil
    /\ outcome' = IF transport = "request" THEN "error" ELSE outcome
    /\ UNCHANGED <<transport, listed, loopVars, inbox, frames>>

TakeEnd ==
    /\ Listening /\ executing = Nil /\ frames # <<>> /\ Head(frames).kind \in {"done", "error"}
    /\ outcome' = Head(frames).kind /\ frames' = Tail(frames)
    /\ UNCHANGED <<transport, executing, listed, ran, loopVars, inbox>>

\* The status of a stream that was reset.
StreamBreaks ==
    /\ Listening /\ executing = Nil /\ frames = <<>> /\ phase = "dead"
    /\ outcome' = "error"
    /\ UNCHANGED <<transport, executing, listed, ran, loopVars, inbox, frames>>

\* A client that leaves takes the call that runs with it; a channel's cancellation is
\* looked at between frames only.
CallerLeaves ==
    /\ Listening
    /\ transport = "channel" => executing = Nil
    /\ outcome' = "left" /\ executing' = Nil
    /\ UNCHANGED <<transport, listed, ran, loopVars, inbox, frames>>

LoopStep ==
    \/ StartRound \/ ProviderEnds \/ TakeResult \/ CollectIsCancelled \/ ResultIsLate
    \/ ExtendMessages

GatewayStep == TakeCall \/ ExecutionEnds \/ ExecutionFails \/ TakeEnd \/ StreamBreaks

Next ==
    \/ LoopStep \/ RefuseModel \/ ProviderFails \/ CancelArrives \/ AgentDies
    \/ \E id \in CallIds : EmitCall(id)
    \/ GatewayStep \/ CallerLeaves

\* A provider's stream ends, a wait for a result is limited (30 s), and an execution
\* has a deadline of its own, by the plugin, the approval or the callback.
Spec == Init /\ [][Next]_turnVars /\ WF_turnVars(LoopStep) /\ WF_turnVars(GatewayStep)

-----------------------------------------------------------------------------
Results == [call : ToolCalls, placeholder : BOOLEAN]

TypeOK ==
    /\ transport \in {"request", "sse", "channel"}
    /\ phase \in {"start", "provider", "collect", "again"} \cup Ended
    /\ round \in 0 .. MaxRounds /\ asked \in Seq(CallIds) /\ aborted \in BOOLEAN
    /\ DOMAIN got \subseteq CallIds /\ \A i \in DOMAIN got : got[i] \in Results
    /\ inbox \in Seq(Results) /\ frames \in Seq(Frames)
    /\ executing \in ToolCalls \cup {Nil} /\ outcome \in {"open", "done", "error", "left"}

\* What the provider is given as the result of a call is that call's result, though
\* rounds use the same ids and results may be late (_collect_results).
ResultsAnswerTheirCalls == \A p \in prompt : p.result.call = p.call

\* When the caller is told the turn is done, every call the response lists has run to
\* its end, though the agent may have given up waiting for one (chat_nonstream,
\* build_sse_stream, into_event_stream).
DoneMeansRun == outcome = "done" => listed \subseteq ran

\* A caller that stays is told how the turn ended, and the loop ends, whatever call
\* got no result (run, tool_result_timeout).
TurnEnds == <>(outcome # "open" /\ phase \in Ended)
=============================================================================
