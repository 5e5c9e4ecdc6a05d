------------------------------- MODULE Canvas -------------------------------
(***************************************************************************)
(* A canvas session (corlinman-gateway, routes/canvas.rs): frames that are *)
(* posted to it, streams that hand them on, and the janitor that reaps it  *)
(* when its time is up.  The map of sessions is behind a lock; a frame is  *)
(* accepted, and a session reaped, in one step under it, but the janitor   *)
(* lists what has expired in a step of its own.                            *)
(*                                                                         *)
(* A stream is a task with a receiver for the frames, one for the expiry   *)
(* and a bounded channel to its client.  The frames of a session are a     *)
(* broadcast channel that keeps the last Capacity; like HookBus, the model *)
(* has its whole history.                                                  *)
(***************************************************************************)
EXTENDS Integers, SequencesExt, FiniteSetsExt

CONSTANTS
    Streams,
    MaxFrames,  \* bound: how many frames are posted
    MaxTime,    \* bound of the clock
    Lifetimes,  \* the times to live a session may be given
    Capacity    \* of the broadcast channel, and of a stream's channel to its client

VARIABLES
    now, open, expires,
    frames,     \* session.events: one number per accepted frame
    janitor,    \* whether it has listed the session as expired
    reaped,     \* the session was removed, and its streams told
    stream,     \* stream -> where its task is
    joined,     \* stream -> how many frames there were when it subscribed (history)
    position,   \* stream -> the frames its receiver has behind it
    holds,      \* stream -> what its task is about to send
    pipe,       \* stream -> what is on its way to the client
    told        \* stream -> what its client was sent

sessionVars == <<now, open, expires, frames, janitor, reaped>>
streamVars == <<stream, joined, position, holds, pipe, told>>
canvasVars == <<sessionVars, streamVars>>

Frame(i) == [kind |-> "canvas", frame |-> i]
Lag(n) == [kind |-> "lag", frame |-> n]
End == [kind |-> "end", frame |-> 0]

Init ==
    /\ now = 0 /\ open = FALSE /\ expires = 0 /\ frames = 0
    /\ janitor = FALSE /\ reaped = FALSE
    /\ stream = [s \in Streams |-> "none"]
    /\ joined = [s \in Streams |-> 0]
    /\ position = [s \in Streams |-> 0]
    /\ holds = [s \in Streams |-> End]
    /\ pipe = [s \in Streams |-> <<>>]
    /\ told = [s \in Streams |-> <<>>]

\* The wall clock may be set back.
Tick ==
    /\ now' \in 0 .. MaxTime /\ now' # now
    /\ UNCHANGED <<open, expires, frames, janitor, reaped, streamVars>>

CreateSession(ttl) ==
    /\ ~open /\ ~reaped
    /\ open' = TRUE /\ expires' = now + ttl
    /\ UNCHANGED <<now, frames, janitor, reaped, streamVars>>

\* Anything else is refused and changes nothing.
PostFrame ==
    /\ open /\ expires > now /\ frames < MaxFrames
    /\ frames' = frames + 1
    /\ UNCHANGED <<now, open, expires, janitor, reaped, streamVars>>

-----------------------------------------------------------------------------
(* janitor_loop.                                                           *)

ListExpired ==
    /\ ~janitor /\ open /\ expires <= now
    /\ janitor' = TRUE
    /\ UNCHANGED <<now, open, expires, frames, reaped, streamVars>>

Reap ==
    /\ janitor
    /\ janitor' = FALSE /\ open' = FALSE /\ reaped' = TRUE
    /\ UNCHANGED <<now, expires, frames, streamVars>>

-----------------------------------------------------------------------------
(* stream_events and build_sse_stream.                                     *)

\* Subscribes under the lock, even to a session that has expired and is not reaped.
OpenStream(s) ==
    /\ open /\ stream[s] = "none"
    /\ stream' = [stream EXCEPT ![s] = "selecting"]
    /\ joined' = [joined EXCEPT ![s] = frames]
    /\ position' = [position EXCEPT ![s] = frames]
    /\ UNCHANGED <<sessionVars, holds, pipe, told>>

Hold(s, item, where) ==
    /\ holds' = [holds EXCEPT ![s] = item]
    /\ stream' = [stream EXCEPT ![s] = where]

\* The expiry comes first in the select, whatever frames are left.
SeeExpiry(s) ==
    /\ stream[s] = "selecting" /\ reaped
    /\ Hold(s, End, "ending")
    /\ UNCHANGED <<sessionVars, joined, position, pipe, told>>

Backlog(s) == frames - position[s]

NextFrame(s) ==
    /\ stream[s] = "selecting" /\ ~reaped /\ Backlog(s) \in 1 .. Capacity
    /\ position' = [position EXCEPT ![s] = @ + 1]
    /\ Hold(s, Frame(position'[s]), "sending")
    /\ UNCHANGED <<sessionVars, joined, pipe, told>>

FallBehind(s) ==
    /\ stream[s] = "selecting" /\ ~reaped /\ Backlog(s) > Capacity
    /\ position' = [position EXCEPT ![s] = frames - Capacity]
    /\ Hold(s, Lag(Backlog(s) - Capacity), "sending")
    /\ UNCHANGED <<sessionVars, joined, pipe, told>>

SendToClient(s) ==
    /\ stream[s] \in {"sending", "ending"} /\ Len(pipe[s]) < Capacity
    /\ pipe' = [pipe EXCEPT ![s] = Append(@, holds[s])]
    /\ stream' = [stream EXCEPT ![s] = IF @ = "ending" THEN "ended" ELSE "selecting"]
    /\ UNCHANGED <<sessionVars, joined, position, holds, told>>

ClientReads(s) ==
    /\ stream[s] # "left" /\ pipe[s] # <<>>
    /\ pipe' = [pipe EXCEPT ![s] = Tail(@)]
    /\ told' = [told EXCEPT ![s] = Append(@, Head(pipe[s]))]
    /\ UNCHANGED <<sessionVars, stream, joined, position, holds>>

\* The task of a client that left notices when it next sends.
ClientLeaves(s) ==
    /\ stream[s] \notin {"none", "left"}
    /\ stream' = [stream EXCEPT ![s] = "left"]
    /\ pipe' = [pipe EXCEPT ![s] = <<>>]
    /\ UNCHANGED <<sessionVars, joined, position, holds, told>>

Next ==
    \/ Tick \/ (\E ttl \in Lifetimes : CreateSession(ttl)) \/ PostFrame
    \/ ListExpired \/ Reap
    \/ \E s \in Streams :
        \/ OpenStream(s) \/ SeeExpiry(s) \/ NextFrame(s) \/ FallBehind(s)
        \/ SendToClient(s) \/ ClientReads(s) \/ ClientLeaves(s)

Spec == Init /\ [][Next]_canvasVars

-----------------------------------------------------------------------------
TypeOK ==
    /\ now \in 0 .. MaxTime /\ frames \in 0 .. MaxFrames
    /\ open \in BOOLEAN /\ janitor \in BOOLEAN /\ reaped \in BOOLEAN
    /\ stream \in [Streams -> {"none", "selecting", "sending", "ending", "ended", "left"}]
    /\ \A s \in Streams : position[s] \in 0 .. frames /\ Len(pipe[s]) <= Capacity

Covers(item) == IF item.kind = "lag" THEN item.frame ELSE IF item.kind = "canvas" THEN 1 ELSE 0

\* How many frames the first n of some items stand for.
Covered(items, n) == Cardinality(UNION {{i} \X (1 .. Covers(items[i])) : i \in 1 .. n})

\* What a client was sent says, frame by frame or as a lag, all that was posted since it
\* joined: a frame is never missed untold nor told twice (build_sse_stream).
StreamsAccount ==
    \A s \in Streams : \A i \in DOMAIN told[s] :
        told[s][i].kind = "canvas" => told[s][i].frame = joined[s] + Covered(told[s], i)

\* Once a client was told that the session ended it is sent nothing more, and nobody can
\* post to the session or join it (janitor_loop, build_sse_stream).
EndIsTheEnd ==
    \A s \in Streams : End \in ToSet(told[s]) => ~open /\ Last(told[s]) = End /\ pipe[s] = <<>>
=============================================================================
