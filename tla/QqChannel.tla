------------------------------ MODULE QqChannel ------------------------------
(***************************************************************************)
(* The QQ channel of the gateway (corlinman-channels, service.rs and       *)
(* qq/onebot.rs): a WebSocket client that dials out to the OneBot server,  *)
(* puts its events into one bounded queue and sends the actions of         *)
(* another; a loop that routes the events; and a task for each message     *)
(* that passed, which runs the chat and queues the reply.                  *)
(* Messages are numbered in the order the server sends them.  What the     *)
(* router asks of a message is in TokenBucket; here it is a choice.        *)
(***************************************************************************)
EXTENDS Integers, Sequences, SequencesExt

CONSTANTS
    MaxMessages,
    QueueRoom,      \* slots of either queue: 64
    MaxBreaks       \* bound: connections and dials that fail

Messages == 1 .. MaxMessages
Nothing == 0

VARIABLES
    client,     \* where the client's task is
    hand,       \* the event or action it holds
    eventQueue, actionQueue,
    arrived,    \* messages the server has sent
    chat,       \* where each message is
    answered,   \* the messages the chat gave a text or an error for (history)
    delivered,  \* the replies the server got, in order
    broken,     \* the replies that were being sent when the connection broke (history)
    breaks,
    stopping    \* the channel's token

clientVars == <<client, hand>>
chatVars == <<chat, answered>>
peerVars == <<arrived, delivered, broken, breaks>>
qqVars == <<clientVars, eventQueue, actionQueue, chatVars, peerVars, stopping>>

Init ==
    /\ client = "connecting" /\ hand = Nothing
    /\ eventQueue = <<>> /\ actionQueue = <<>>
    /\ arrived = 0
    /\ chat = [m \in Messages |-> "none"] /\ answered = {}
    /\ delivered = <<>> /\ broken = {} /\ breaks = 0
    /\ stopping = FALSE

Break == breaks < MaxBreaks /\ breaks' = breaks + 1

-----------------------------------------------------------------------------
(* OneBotClient::run and connect_once.                                     *)

Connect ==
    /\ client = "connecting"
    /\ client' = "connected"
    /\ UNCHANGED <<hand, eventQueue, actionQueue, chatVars, peerVars, stopping>>

ConnectFails ==
    /\ client = "connecting" /\ Break
    /\ client' = "backoff"
    /\ UNCHANGED <<hand, eventQueue, actionQueue, chatVars, arrived, delivered, broken, stopping>>

\* Looked at first wherever the client waits, but not while it dials.
ClientStops ==
    /\ stopping
    /\ client \in {"connected", "backoff"}
    /\ client' = "ended"
    /\ UNCHANGED <<hand, eventQueue, actionQueue, chatVars, peerVars, stopping>>

TakeAction ==
    /\ client = "connected" /\ ~stopping /\ actionQueue # <<>>
    /\ client' = "sending"
    /\ hand' = Head(actionQueue) /\ actionQueue' = Tail(actionQueue)
    /\ UNCHANGED <<eventQueue, chatVars, peerVars, stopping>>

SendAction ==
    /\ client = "sending"
    /\ client' = "connected" /\ hand' = Nothing
    /\ delivered' = Append(delivered, hand)
    /\ UNCHANGED <<eventQueue, actionQueue, chatVars, arrived, broken, breaks, stopping>>

\* Mutant: what failed is sent again after the next dial.
SendFails_requeues ==
    /\ client = "sending" /\ Break
    /\ client' = "backoff" /\ hand' = Nothing
    /\ delivered' \in {delivered, Append(delivered, hand)}
    /\ actionQueue' = <<hand>> \o actionQueue
    /\ broken' = broken \cup {hand}
    /\ UNCHANGED <<eventQueue, chatVars, arrived, stopping>>

\* The server may have got it all the same.  The action is not sent again.
SendFails ==
    /\ client = "sending" /\ Break
    /\ client' = "backoff" /\ hand' = Nothing
    /\ delivered' \in {delivered, Append(delivered, hand)}
    /\ broken' = broken \cup {hand}
    /\ UNCHANGED <<eventQueue, actionQueue, chatVars, arrived, stopping>>

\* The select prefers an action to a frame.
ReadEvent ==
    /\ client = "connected" /\ ~stopping /\ actionQueue = <<>>
    /\ arrived < MaxMessages
    /\ arrived' = arrived + 1
    /\ client' = "forwarding" /\ hand' = arrived'
    /\ UNCHANGED <<eventQueue, actionQueue, chatVars, delivered, broken, breaks, stopping>>

ForwardEvent ==
    /\ client = "forwarding"
    /\ Len(eventQueue) < QueueRoom
    /\ eventQueue' = Append(eventQueue, hand)
    /\ client' = "connected" /\ hand' = Nothing
    /\ UNCHANGED <<actionQueue, chatVars, peerVars, stopping>>

\* run_qq_channel returned and aborted the loop, which held the receiver.
ForwardFails ==
    /\ client = "forwarding" /\ stopping
    /\ client' = "ended" /\ hand' = Nothing
    /\ UNCHANGED <<eventQueue, actionQueue, chatVars, peerVars, stopping>>

\* Mutant: after a disconnect the client is done.
PeerCloses_ends ==
    /\ client = "connected" /\ Break
    /\ client' = "ended"
    /\ UNCHANGED <<hand, eventQueue, actionQueue, chatVars, arrived, delivered, broken, stopping>>

PeerCloses ==
    /\ client = "connected" /\ Break
    /\ client' = "backoff"
    /\ UNCHANGED <<hand, eventQueue, actionQueue, chatVars, arrived, delivered, broken, stopping>>

\* The delay has passed.
Redial ==
    /\ client = "backoff" /\ ~stopping
    /\ client' = "connecting"
    /\ UNCHANGED <<hand, eventQueue, actionQueue, chatVars, peerVars, stopping>>

-----------------------------------------------------------------------------
(* The dispatch loop and handle_one.                                       *)

Dispatch ==
    /\ eventQueue # <<>> /\ ~stopping
    /\ eventQueue' = Tail(eventQueue)
    /\ chat' \in {[chat EXCEPT ![Head(eventQueue)] = s] : s \in {"dropped", "running"}}
    /\ UNCHANGED <<clientVars, actionQueue, answered, peerVars, stopping>>

\* The stream is over: a text or an error is a reply, an empty text is none.
ChatEnds(m) ==
    /\ chat[m] = "running"
    /\ \/ chat' = [chat EXCEPT ![m] = "replying"] /\ answered' = answered \cup {m}
       \/ chat' = [chat EXCEPT ![m] = "done"] /\ UNCHANGED answered
    /\ UNCHANGED <<clientVars, eventQueue, actionQueue, peerVars, stopping>>

QueueReply(m) ==
    /\ chat[m] = "replying" /\ client # "ended"
    /\ Len(actionQueue) < QueueRoom
    /\ actionQueue' = Append(actionQueue, m)
    /\ chat' = [chat EXCEPT ![m] = "done"]
    /\ UNCHANGED <<clientVars, eventQueue, answered, peerVars, stopping>>

\* The client went and took the receiver along.
QueueFails(m) ==
    /\ chat[m] = "replying" /\ client = "ended"
    /\ chat' = [chat EXCEPT ![m] = "done"]
    /\ UNCHANGED <<clientVars, eventQueue, actionQueue, answered, peerVars, stopping>>

Stop ==
    /\ ~stopping
    /\ stopping' = TRUE
    /\ UNCHANGED <<clientVars, eventQueue, actionQueue, chatVars, peerVars>>

ClientStep ==
    \/ Connect \/ ClientStops \/ TakeAction \/ SendAction \/ ForwardEvent \/ ForwardFails \/ Redial

ReplyStep == \E m \in Messages : QueueReply(m) \/ QueueFails(m)

Next ==
    \/ ClientStep
    \/ ConnectFails \/ SendFails \/ PeerCloses \/ ReadEvent
    \/ Dispatch
    \/ \E m \in Messages : ChatEnds(m)
    \/ ReplyStep
    \/ Stop

\* The tasks run when they can, and a queue with room time and again takes a reply in
\* the end.  What the server and the chat do is not owed, but of the connections only
\* so many fail.
Spec ==
    /\ Init /\ [][Next]_qqVars
    /\ WF_qqVars(ClientStep) /\ WF_qqVars(Dispatch) /\ SF_qqVars(ReplyStep)

-----------------------------------------------------------------------------
TypeOK ==
    /\ client \in {"connecting", "connected", "sending", "forwarding", "backoff", "ended"}
    /\ hand \in Messages \cup {Nothing}
    /\ eventQueue \in Seq(Messages) /\ Len(eventQueue) <= QueueRoom
    /\ actionQueue \in Seq(Messages) /\ Len(actionQueue) <= QueueRoom
    /\ chat \in [Messages -> {"none", "dropped", "running", "replying", "done"}]

\* A message gets one reply at most, across broken connections and lost
\* acknowledgements, and none if the router dropped it (connect_once).
OneReplyAtMost ==
    /\ IsInjective(delivered)
    /\ \A i \in DOMAIN delivered : delivered[i] \in answered

\* Until the channel stops, a reply is lost only with the connection it was being
\* sent over: those that wait outlive a reconnect (connect_once, run).
RepliesOutliveReconnects ==
    ~stopping => \A m \in answered :
        \/ chat[m] = "replying"
        \/ m \in ToSet(actionQueue) \cup ToSet(delivered) \cup broken
        \/ client = "sending" /\ hand = m

\* However the two queues fill, every reply leaves the gateway or breaks with its
\* connection, unless the channel is stopped.
RepliesLeave ==
    \A m \in Messages : m \in answered ~> stopping \/ m \in ToSet(delivered) \cup broken
=============================================================================
