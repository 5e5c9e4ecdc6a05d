--------------------------- MODULE TelegramChannel ---------------------------
(***************************************************************************)
(* The Telegram channel (corlinman-channels, telegram/service.rs): a loop  *)
(* that asks getUpdates for what lies beyond its offset, a task for every  *)
(* update it dispatches, a bounded queue of replies and the task that      *)
(* sends them.  Telegram forgets an update when it is asked for a later    *)
(* one; the offset lives in memory only, so a process that starts again    *)
(* is given what was not forgotten.                                        *)
(*                                                                         *)
(* Updates are numbered from 1, and an offset of 0 is none.  Which updates *)
(* pass the whitelist, the mention gate and the keywords is a set.         *)
(***************************************************************************)
EXTENDS Integers, SequencesExt, FiniteSetsExt

CONSTANTS
    MaxUpdates, MaxLives,   \* bounds: updates that arrive, starts of the process
    Dispatched,             \* the updates that are forwarded to the chat service
    ReplyRoom,              \* of the reply queue
    Nil

Updates == 1 .. MaxUpdates

VARIABLES
    latest,         \* the newest update at Telegram
    confirmed,      \* what Telegram forgot: every update below
    response,       \* of the getUpdates in flight, when there is one already
    life, stopping,
    poller, offset, batch,
    handler,        \* update -> where its task is
    replies, sender, outgoing,
    takes,          \* update -> how often a loop took it, in this life and in all (history)
    sends,          \* update -> how often its reply was sent (history)
    gone            \* the updates that a restart, a stop, a failed send or an empty
                    \* answer left without one (history)

telegram == <<latest, confirmed, response>>
loopVars == <<poller, offset, batch>>
replyVars == <<replies, sender, outgoing>>
telegramVars ==
    <<telegram, life, stopping, loopVars, handler, replyVars, takes, sends, gone>>

Init ==
    /\ latest = 0 /\ confirmed = 1 /\ response = Nil
    /\ life = 1 /\ stopping = FALSE
    /\ poller = "starting" /\ offset = 0 /\ batch = <<>>
    /\ handler = [u \in Updates |-> "none"]
    /\ replies = <<>> /\ sender = "none" /\ outgoing = Nil
    /\ takes = [u \in Updates |-> [now |-> 0, ever |-> 0]]
    /\ sends = [u \in Updates |-> 0]
    /\ gone = {}

InFlight ==
    {u \in Updates : handler[u] \in {"running", "replying"}} \cup ToSet(replies)
        \cup (IF outgoing = Nil THEN {} ELSE {outgoing})

-----------------------------------------------------------------------------
(* Telegram.                                                               *)

Arrive ==
    /\ latest < MaxUpdates
    /\ latest' = latest + 1
    /\ UNCHANGED <<confirmed, response, life, stopping, loopVars, handler, replyVars, takes, sends, gone>>

\* getUpdates confirms what is below the offset and returns what is not confirmed,
\* some of it where a limit cuts it off, and nothing when the long poll times out.
AnswerPoll ==
    /\ poller = "polling" /\ response = Nil
    /\ confirmed' = IF offset > confirmed THEN offset ELSE confirmed
    /\ \E n \in confirmed' - 1 .. latest :
        response' = [i \in 1 .. n - confirmed' + 1 |-> confirmed' + i - 1]
    /\ UNCHANGED <<latest, life, stopping, loopVars, handler, replyVars, takes, sends, gone>>

-----------------------------------------------------------------------------
(* The loop.                                                               *)

\* get_me; without it run_telegram_channel returns.
Authenticate ==
    /\ poller = "starting"
    /\ \/ poller' = "asking" /\ sender' = "waiting"
       \/ poller' = "ended" /\ UNCHANGED sender
    /\ UNCHANGED <<telegram, life, stopping, offset, batch, handler, replies, outgoing, takes, sends, gone>>

AskForUpdates ==
    /\ poller = "asking" /\ ~stopping
    /\ poller' = "polling" /\ response' = Nil
    /\ UNCHANGED <<latest, confirmed, life, stopping, offset, batch, handler, replyVars, takes, sends, gone>>

PollReturns ==
    /\ poller = "polling" /\ response # Nil
    /\ poller' = "batch" /\ batch' = response /\ response' = Nil
    /\ UNCHANGED <<latest, confirmed, life, stopping, offset, handler, replyVars, takes, sends, gone>>

\* The request fails, before or after Telegram had it.
PollFails ==
    /\ poller = "polling"
    /\ poller' = "backoff" /\ response' = Nil
    /\ UNCHANGED <<latest, confirmed, life, stopping, offset, batch, handler, replyVars, takes, sends, gone>>

BackoffEnds ==
    /\ poller = "backoff" /\ poller' = "asking"
    /\ UNCHANGED <<telegram, life, stopping, offset, batch, handler, replyVars, takes, sends, gone>>

TakeUpdate(u) ==
    /\ poller = "batch" /\ batch # <<>> /\ u = Head(batch)
    /\ batch' = Tail(batch)
    /\ offset' = u + 1
    /\ takes' = [takes EXCEPT ![u] = [now |-> @.now + 1, ever |-> @.ever + 1]]
    /\ handler' = IF u \in Dispatched THEN [handler EXCEPT ![u] = "running"] ELSE handler
    /\ UNCHANGED <<telegram, life, stopping, poller, replyVars, sends, gone>>

BatchEnds ==
    /\ poller = "batch" /\ batch = <<>>
    /\ poller' = "asking"
    /\ UNCHANGED <<telegram, life, stopping, offset, batch, handler, replyVars, takes, sends, gone>>

LoopStops ==
    /\ stopping /\ poller \in {"asking", "polling", "backoff"}
    /\ poller' = "joining" /\ response' = Nil
    /\ UNCHANGED <<latest, confirmed, life, stopping, offset, batch, handler, replyVars, takes, sends, gone>>

ChannelEnds ==
    /\ poller = "joining" /\ sender = "ended"
    /\ poller' = "ended"
    /\ UNCHANGED <<telegram, life, stopping, offset, batch, handler, replyVars, takes, sends, gone>>

-----------------------------------------------------------------------------
(* handle_one and the reply task.                                          *)

\* The chat turn ends with a text or an error, which is a reply too, or with nothing.
TurnEnds(u) ==
    /\ handler[u] = "running"
    /\ \/ handler' = [handler EXCEPT ![u] = "replying"] /\ UNCHANGED gone
       \/ handler' = [handler EXCEPT ![u] = "done"] /\ gone' = gone \cup {u}
    /\ UNCHANGED <<telegram, life, stopping, loopVars, replyVars, takes, sends>>

\* Mutant: a full queue is not waited for.
QueueReply_try(u) ==
    /\ handler[u] = "replying" /\ sender # "ended"
    /\ replies' = IF Len(replies) < ReplyRoom THEN Append(replies, u) ELSE replies
    /\ handler' = [handler EXCEPT ![u] = "done"]
    /\ UNCHANGED <<telegram, life, stopping, loopVars, sender, outgoing, takes, sends, gone>>

QueueReply(u) ==
    /\ handler[u] = "replying" /\ sender # "ended" /\ Len(replies) < ReplyRoom
    /\ replies' = Append(replies, u)
    /\ handler' = [handler EXCEPT ![u] = "done"]
    /\ UNCHANGED <<telegram, life, stopping, loopVars, sender, outgoing, takes, sends, gone>>

QueueIsClosed(u) ==
    /\ handler[u] = "replying" /\ sender = "ended"
    /\ handler' = [handler EXCEPT ![u] = "done"] /\ gone' = gone \cup {u}
    /\ UNCHANGED <<telegram, life, stopping, loopVars, replyVars, takes, sends>>

\* The token comes first in the select.
TakeReply ==
    /\ sender = "waiting" /\ replies # <<>> /\ ~stopping
    /\ sender' = "sending" /\ outgoing' = Head(replies) /\ replies' = Tail(replies)
    /\ UNCHANGED <<telegram, life, stopping, loopVars, handler, takes, sends, gone>>

SendReply ==
    /\ sender = "sending"
    /\ \/ sends' = [sends EXCEPT ![outgoing] = @ + 1] /\ UNCHANGED gone
       \/ gone' = gone \cup {outgoing} /\ UNCHANGED sends
    /\ sender' = "waiting" /\ outgoing' = Nil
    /\ UNCHANGED <<telegram, life, stopping, loopVars, handler, replies, takes>>

\* What is queued goes with the receiver.
SenderStops ==
    /\ sender = "waiting" /\ stopping
    /\ sender' = "ended" /\ replies' = <<>> /\ gone' = gone \cup ToSet(replies)
    /\ UNCHANGED <<telegram, life, stopping, loopVars, handler, outgoing, takes, sends>>

Stop ==
    /\ ~stopping /\ stopping' = TRUE
    /\ UNCHANGED <<telegram, life, loopVars, handler, replyVars, takes, sends, gone>>

\* The process dies, or exits while handlers still run, and starts again.
Restart ==
    /\ life < MaxLives
    /\ life' = life + 1 /\ stopping' = FALSE /\ response' = Nil
    /\ poller' = "starting" /\ offset' = 0 /\ batch' = <<>>
    /\ handler' = [u \in Updates |-> "none"]
    /\ replies' = <<>> /\ sender' = "none" /\ outgoing' = Nil
    /\ takes' = [u \in Updates |-> [takes[u] EXCEPT !.now = 0]]
    /\ gone' = gone \cup InFlight
    /\ UNCHANGED <<latest, confirmed, sends>>

Next ==
    \/ Arrive \/ AnswerPoll
    \/ Authenticate \/ AskForUpdates \/ PollReturns \/ PollFails \/ BackoffEnds
    \/ BatchEnds \/ LoopStops \/ ChannelEnds
    \/ \E u \in Updates :
        TakeUpdate(u) \/ TurnEnds(u) \/ QueueReply(u) \/ QueueIsClosed(u)
    \/ TakeReply \/ SendReply \/ SenderStops
    \/ Stop \/ Restart

Spec == Init /\ [][Next]_telegramVars

-----------------------------------------------------------------------------
TypeOK ==
    /\ latest \in 0 .. MaxUpdates /\ confirmed \in 1 .. MaxUpdates + 1
    /\ life \in 1 .. MaxLives /\ stopping \in BOOLEAN
    /\ poller \in {"starting", "asking", "polling", "batch", "backoff", "joining", "ended"}
    /\ offset \in 0 .. MaxUpdates + 1
    /\ handler \in [Updates -> {"none", "running", "replying", "done"}]
    /\ Len(replies) <= ReplyRoom
    /\ sender \in {"none", "waiting", "sending", "ended"}
    /\ outgoing \in Updates \cup {Nil}
    /\ gone \subseteq Updates

\* Telegram is not asked for an update it then forgets unseen: whatever requests fail
\* and wherever the process dies, what is forgotten was taken by some loop
\* (run_telegram_channel).
ForgottenWasTaken == \A u \in Updates : u < confirmed => takes[u].ever > 0

\* In one life no update is taken twice, and it is answered once at most: a second
\* answer needs a restart (run_telegram_channel, handle_one).
OncePerLife ==
    \A u \in Updates : takes[u].now <= 1 /\ sends[u] <= takes[u].ever

\* An update for the bot that was taken is answered or on its way, unless something
\* that is known to lose replies befell it; a full queue is not such a thing
\* (handle_one).
NoneIsDropped ==
    \A u \in Dispatched : takes[u].ever > 0 => sends[u] > 0 \/ u \in InFlight \cup gone
=============================================================================
