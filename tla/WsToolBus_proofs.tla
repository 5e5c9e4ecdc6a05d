-------------------------- MODULE WsToolBus_proofs --------------------------
(***************************************************************************)
(* What holds of the tool bus for every set of connections, calls, runner  *)
(* ids and tools.                                                          *)
(***************************************************************************)
EXTENDS WsToolBus, FiniteSetTheorems, TLAPS

(* The type invariant needs to know which lookups have succeeded, and that  *)
(* a heartbeat that still ticks has not counted its last miss.              *)

Lookups ==
    \A i \in Calls :
        /\ call[i] = "lookup" => found[i] \in Runners
        /\ call[i] \in {"resolved", "sending", "waiting", "stopping"} => owner[i] \in Conns

Pulse ==
    \A c \in Conns :
        /\ reader[c] \in {"undialed", "indexing"} => heartbeat[c] = "stopped" /\ missed[c] = 0
        /\ heartbeat[c] \in {"ticking", "counting"} => missed[c] < MaxMissed

TypeInv == TypeOK /\ Lookups /\ Pulse

LEMMA FramesTyped ==
    /\ Ping \in Frames
    /\ \A i \in Calls : Invoke(i) \in Frames /\ CancelFrame(i) \in Frames
BY DEF Frames

\* A frame sent into a channel with room for it leaves a channel of frames.
LEMMA SendTyped ==
    ASSUME TypeOK, NEW c \in Conns, NEW frame \in Frames, Send(c, frame)
    PROVE  /\ outbox' \in [Conns -> Seq(Frames)]
           /\ \A d \in Conns : Len(outbox'[d]) <= OutboxSize
<1>1. outbox' = [outbox EXCEPT ![c] = Append(@, frame)] /\ Len(outbox[c]) < OutboxSize
  BY DEF Send, CanSend
<1>2. /\ Append(outbox[c], frame) \in Seq(Frames)
      /\ Len(Append(outbox[c], frame)) = Len(outbox[c]) + 1
      /\ Len(outbox[c]) \in Nat
  BY DEF TypeOK
<1>3. QED BY <1>1, <1>2, BoundAssumption DEF TypeOK

LEMMA RemoveTyped ==
    ASSUME TypeOK, NEW r, RemoveRunner(r)
    PROVE  runners' \in [Runners -> Conns \cup {None}] /\ gauge' \in Int
<1>1. gauge \in Int /\ runners \in [Runners -> Conns \cup {None}]
  BY DEF TypeOK
<1>2. runners' \in [Runners -> Conns \cup {None}]
  BY <1>1 DEF RemoveRunner
<1>3. gauge - 1 \in Int /\ gauge' \in {gauge, gauge - 1}
  BY <1>1 DEF RemoveRunner
<1>4. QED BY <1>1, <1>2, <1>3

LEMMA ConnTypeStep ==
    ASSUME TypeInv, NEW c \in Conns, ConnStep(c)
    PROVE  TypeInv'
<1> USE BoundAssumption, NoneAssumption, AdvertAssumption
    DEF TypeInv, TypeOK, Lookups, Pulse, ReaderSteps, Replies,
        registry, connVars, pulse, channel, callVars, At
<1>1. ASSUME NEW r \in Runners, NEW tools \in Adverts, RegisterRunner(c, r, tools)
      PROVE  TypeInv'
  BY <1>1 DEF RegisterRunner
<1>2. ASSUME NEW t \in Tools, IndexTool(c, t) PROVE TypeInv'
  BY <1>2 DEF IndexTool
<1>3. CASE StartTasks(c)
  BY <1>3 DEF StartTasks
<1>4. CASE WriteFrame(c)
  <2>1. /\ Tail(outbox[c]) \in Seq(Frames)
        /\ Len(Tail(outbox[c])) <= OutboxSize
    BY <1>4 DEF WriteFrame
  <2>2. pinged' \in [Conns -> BOOLEAN] /\ handler' \in [Calls -> {"none", "running", "replied"}]
    BY <1>4 DEF WriteFrame, Deliver
  <2>3. QED BY <1>4, <2>1, <2>2 DEF WriteFrame
<1>5. CASE WriteFails(c)
  BY <1>5 DEF WriteFails
<1>6. CASE HandlePong(c)
  BY <1>6 DEF HandlePong
<1>7. CASE SocketEnds(c)
  BY <1>7 DEF SocketEnds
<1>8. CASE DrainPending(c)
  BY <1>8 DEF DrainPending
<1>9. CASE Unregister(c)
  <2>1. runners' \in [Runners -> Conns \cup {None}] /\ gauge' \in Int
    BY <1>9, RemoveTyped DEF Unregister
  <2>2. QED BY <1>9, <2>1 DEF Unregister
<1>10. CASE Deindex(c)
  BY <1>10 DEF Deindex, PurgeTools
<1>11. CASE Close(c)
  BY <1>11 DEF Close
<1>12. CASE SendPing(c)
  <2>1. /\ outbox' \in [Conns -> Seq(Frames)]
        /\ \A d \in Conns : Len(outbox'[d]) <= OutboxSize
    <3> HIDE DEF TypeOK
    <3>1. QED BY <1>12, SendTyped, FramesTyped DEF SendPing
  <2>2. QED BY <1>12, <2>1 DEF SendPing
<1>13. CASE PingFails(c)
  BY <1>13 DEF PingFails
<1>14. CASE CountMiss(c)
  BY <1>14 DEF CountMiss, Expires
<1>15. CASE ExpireRunner(c)
  <2>1. runners' \in [Runners -> Conns \cup {None}] /\ gauge' \in Int
    BY <1>15, RemoveTyped DEF ExpireRunner
  <2>2. QED BY <1>15, <2>1 DEF ExpireRunner
<1>16. CASE ExpireTools(c)
  BY <1>16 DEF ExpireTools, PurgeTools
<1> HIDE DEF TypeInv
<1>17. QED
  BY <1>1, <1>2, <1>3, <1>4, <1>5, <1>6, <1>7, <1>8, <1>9, <1>10, <1>11, <1>12, <1>13,
     <1>14, <1>15, <1>16
  DEF ConnStep, Cleanup

LEMMA CallTypeStep ==
    ASSUME TypeInv, NEW i \in Calls, CallStep(i)
    PROVE  TypeInv'
<1> USE BoundAssumption, NoneAssumption
    DEF TypeInv, TypeOK, Lookups, Pulse, ReaderSteps, Replies,
        registry, connVars, pulse, channel, callVars, At
<1>1. ASSUME NEW t \in Tools, LookupTool(i, t) PROVE TypeInv'
  <2>1. CASE tool_index[t] # None
    <3>1. /\ found' = [found EXCEPT ![i] = tool_index[t]] /\ tool_index[t] \in Runners
          /\ call' = [call EXCEPT ![i] = "lookup"]
      BY <1>1, <2>1 DEF LookupTool
    <3>2. QED BY <1>1, <3>1 DEF LookupTool
  <2>2. CASE tool_index[t] = None
    <3>1. found' = found /\ call' = [call EXCEPT ![i] = "unsent"]
      BY <1>1, <2>2 DEF LookupTool
    <3>2. QED BY <1>1, <3>1 DEF LookupTool
  <2>3. QED BY <2>1, <2>2
<1>2. CASE LookupRunner(i)
  <2>1. CASE runners[found[i]] # None
    <3>1. /\ owner' = [owner EXCEPT ![i] = runners[found[i]]] /\ runners[found[i]] \in Conns
          /\ call' = [call EXCEPT ![i] = "resolved"]
      BY <1>2, <2>1 DEF LookupRunner
    <3>2. QED BY <1>2, <3>1 DEF LookupRunner
  <2>2. CASE runners[found[i]] = None
    <3>1. owner' = owner /\ call' = [call EXCEPT ![i] = "unsent"]
      BY <1>2, <2>2 DEF LookupRunner
    <3>2. QED BY <1>2, <3>1 DEF LookupRunner
  <2>3. QED BY <2>1, <2>2
<1>3. CASE InsertPending(i)
  BY <1>3 DEF InsertPending
<1>4. CASE SendInvoke(i)
  <2>1. /\ outbox' \in [Conns -> Seq(Frames)]
        /\ \A d \in Conns : Len(outbox'[d]) <= OutboxSize
    <3>1. owner[i] \in Conns /\ Send(owner[i], Invoke(i))
      BY <1>4 DEF SendInvoke
    <3> HIDE DEF TypeOK
    <3>2. QED BY <3>1, SendTyped, FramesTyped
  <2>2. QED BY <1>4, <2>1 DEF SendInvoke
<1>5. CASE SendFails(i)
  BY <1>5 DEF SendFails
<1>6. ASSUME NEW c \in Conns, HandleReply(c, i) PROVE TypeInv'
  BY <1>6 DEF HandleReply
<1>7. CASE ReceiveReply(i)
  BY <1>7 DEF ReceiveReply
<1>8. CASE GiveUp(i)
  BY <1>8 DEF GiveUp
<1>9. CASE SendCancel(i)
  <2>1. /\ outbox' \in [Conns -> Seq(Frames)]
        /\ \A d \in Conns : Len(outbox'[d]) <= OutboxSize
    <3>1. owner[i] \in Conns /\ Send(owner[i], CancelFrame(i))
      BY <1>9 DEF SendCancel
    <3> HIDE DEF TypeOK
    <3>2. QED BY <3>1, SendTyped, FramesTyped
  <2>2. QED BY <1>9, <2>1 DEF SendCancel
<1>10. CASE CancelFails(i)
  BY <1>10 DEF CancelFails
<1>11. CASE DropCall(i)
  <2>1. \E to \in {"abandoned", "dropped"} : call' = [call EXCEPT ![i] = to]
    BY <1>11 DEF DropCall
  <2>2. QED BY <1>11, <2>1 DEF DropCall
<1> HIDE DEF TypeInv
<1>12. QED
  BY <1>1, <1>2, <1>3, <1>4, <1>5, <1>6, <1>7, <1>8, <1>9, <1>10, <1>11
  DEF CallStep, Cancelled, Timeout

LEMMA TypeInvariant == Spec => []TypeInv
<1>1. Init => TypeInv
  BY BoundAssumption DEF Init, TypeInv, TypeOK, Lookups, Pulse, ReaderSteps, Replies
<1>2. TypeInv /\ [Next]_vars => TypeInv'
  <2> SUFFICES ASSUME TypeInv, [Next]_vars PROVE TypeInv'
    OBVIOUS
  <2>1. CASE UNCHANGED vars
    BY <2>1 DEF vars, TypeInv, TypeOK, Lookups, Pulse, registry, connVars, pulse, channel,
                callVars
  <2>2. QED BY <2>1, ConnTypeStep, CallTypeStep DEF Next
<1>3. QED BY <1>1, <1>2, PTL DEF Spec

\* The variables keep their types, no outbox holds more than its channel can,
\* and no connection counts more misses than the threshold.
THEOREM TypeCorrect == Spec => []TypeOK
BY TypeInvariant, PTL DEF TypeInv

-----------------------------------------------------------------------------
(* The registry.  A connection is in the map only until its own cleanup     *)
(* takes its runner id out, whoever put it there last; the same goes for    *)
(* the index and the cleanup's second step.                                 *)

RegistryInv == RegisteredIsServing /\ IndexedHasConnection

LEMMA RegistryStep ==
    ASSUME TypeOK, RegistryInv, NEW c \in Conns, ConnStep(c)
    PROVE  RegistryInv'
<1> USE NoneAssumption
    DEF RegistryInv, TypeOK, RegisteredIsServing, IndexedHasConnection, Serving, ReaderSteps,
        registry, connVars, At
<1>1. ASSUME NEW r \in Runners, NEW tools \in Adverts, RegisterRunner(c, r, tools)
      PROVE  RegistryInv'
  <2>1. /\ reader[c] = "undialed" /\ reader' = [reader EXCEPT ![c] = "indexing"]
        /\ runner_id' = [runner_id EXCEPT ![c] = r]
        /\ runners' = [runners EXCEPT ![r] = c]
        /\ tool_index' = tool_index
    BY <1>1 DEF RegisterRunner
  <2>2. RegisteredIsServing'
    BY <2>1
  <2>3. IndexedHasConnection'
    BY <2>1
  <2>4. QED BY <2>2, <2>3
<1>2. ASSUME NEW t \in Tools, IndexTool(c, t) PROVE RegistryInv'
  BY <1>2 DEF IndexTool
<1>3. CASE StartTasks(c)
  BY <1>3 DEF StartTasks
<1>4. CASE SocketEnds(c)
  BY <1>4 DEF SocketEnds
<1>5. CASE DrainPending(c)
  BY <1>5 DEF DrainPending
<1>6. CASE Unregister(c)
  BY <1>6 DEF Unregister, RemoveRunner
<1>7. CASE Deindex(c)
  <2>1. /\ reader' = [reader EXCEPT ![c] = "closing"] /\ reader[c] = "deindexing"
        /\ \A t \in Tools : tool_index'[t] =
               IF tool_index[t] = runner_id[c] THEN None ELSE tool_index[t]
        /\ UNCHANGED <<runners, runner_id>>
    BY <1>7 DEF Deindex, PurgeTools
  <2>2. RegisteredIsServing'
    BY <2>1
  <2>3. IndexedHasConnection'
    BY <2>1
  <2>4. QED BY <2>2, <2>3
<1>8. CASE Close(c)
  <2>1. /\ reader[c] = "closing" /\ reader' = [reader EXCEPT ![c] = "gone"]
        /\ UNCHANGED <<runners, tool_index, runner_id>>
    BY <1>8 DEF Close
  <2>2. RegisteredIsServing'
    BY <2>1
  <2>3. IndexedHasConnection'
    BY <2>1
  <2>4. QED BY <2>2, <2>3
<1>9. CASE ExpireRunner(c)
  BY <1>9 DEF ExpireRunner, RemoveRunner
<1>10. CASE ExpireTools(c)
  BY <1>10 DEF ExpireTools, PurgeTools
<1>11. CASE WriteFrame(c) \/ WriteFails(c) \/ HandlePong(c) \/ SendPing(c) \/ PingFails(c)
            \/ CountMiss(c)
  <2>1. UNCHANGED <<registry, connVars>>
    BY <1>11 DEF WriteFrame, WriteFails, HandlePong, SendPing, PingFails, CountMiss
  <2>2. QED BY <2>1
<1> HIDE DEF RegistryInv, At
<1>12. QED
  BY <1>1, <1>2, <1>3, <1>4, <1>5, <1>6, <1>7, <1>8, <1>9, <1>10, <1>11 DEF ConnStep, Cleanup

LEMMA RegistryInvariant == Spec => []RegistryInv
<1>1. Init => RegistryInv
  BY DEF Init, RegistryInv, RegisteredIsServing, IndexedHasConnection
<1>2. TypeOK /\ RegistryInv /\ [Next]_vars => RegistryInv'
  <2> SUFFICES ASSUME TypeOK, RegistryInv, [Next]_vars PROVE RegistryInv'
    OBVIOUS
  <2>1. CASE UNCHANGED <<registry, connVars>>
    BY <2>1 DEF RegistryInv, RegisteredIsServing, IndexedHasConnection, Serving, registry,
                connVars
  <2>2. ASSUME NEW i \in Calls, CallStep(i) PROVE UNCHANGED <<registry, connVars>>
    BY <2>2 DEF CallStep, LookupTool, LookupRunner, InsertPending, SendInvoke, SendFails,
                HandleReply, ReceiveReply, Cancelled, Timeout, GiveUp, SendCancel,
                CancelFails, DropCall
  <2>3. UNCHANGED vars => UNCHANGED <<registry, connVars>>
    BY DEF vars
  <2>4. QED BY <2>1, <2>2, <2>3, RegistryStep DEF Next
<1>3. QED BY <1>1, <1>2, TypeCorrect, PTL DEF Spec

\* However connections of one runner id overlap, what resolve_tool returns has not
\* been unregistered by its own cleanup; and when the last connection of a runner
\* id has cleaned up, no tool is advertised for it any more.
THEOREM RegistryHolds == Spec => []RegistryIsSound
BY RegistryInvariant, PTL DEF RegistryInv, RegistryIsSound

-----------------------------------------------------------------------------
(* The gauge.  It counts the registered connections whose tasks have been   *)
(* started; while no runner id is dialed twice, nothing but its own end     *)
(* takes a connection out of the map.                                       *)

Counted == {r \in Runners : runners[r] # None /\ reader[runners[r]] # "indexing"}

GaugeIsExact ==
    /\ IsFiniteSet(Counted)
    /\ gauge = Cardinality(Counted)
    /\ \A c \in Conns : reader[c] = "indexing" => runners[runner_id[c]] = c

DialedIsKnown == \A c \in Conns : reader[c] = "undialed" <=> runner_id[c] = None

GaugeInv == DialedIsKnown /\ (DialedOnce => GaugeIsExact)

\* A runner id once dialed stays that connection's.
LEMMA DialStep ==
    ASSUME TypeOK, DialedIsKnown, NEW c \in Conns, ConnStep(c)
    PROVE  /\ DialedIsKnown'
           /\ DialedOnce' => DialedOnce
<1> USE NoneAssumption DEF TypeOK, DialedIsKnown, DialedOnce, ReaderSteps, registry, connVars, At
<1>1. ASSUME NEW r \in Runners, NEW tools \in Adverts, RegisterRunner(c, r, tools)
      PROVE  DialedIsKnown' /\ (DialedOnce' => DialedOnce)
  <2>1. /\ reader[c] = "undialed" /\ reader' = [reader EXCEPT ![c] = "indexing"]
        /\ runner_id' = [runner_id EXCEPT ![c] = r]
    BY <1>1 DEF RegisterRunner
  <2>2. \A d \in Conns : runner_id[d] # None => runner_id'[d] = runner_id[d]
    BY <2>1
  <2>3. DialedIsKnown'
    BY <2>1
  <2>4. DialedOnce' => DialedOnce
    BY <2>2
  <2>5. QED BY <2>3, <2>4
<1>2. ASSUME runner_id' = runner_id,
             \/ reader' = reader
             \/ \E to \in ReaderSteps \ {"undialed"} :
                   reader[c] # "undialed" /\ reader' = [reader EXCEPT ![c] = to]
      PROVE  DialedIsKnown' /\ (DialedOnce' => DialedOnce)
  BY <1>2
<1> HIDE DEF DialedIsKnown, DialedOnce
<1>3. ASSUME NEW t \in Tools, IndexTool(c, t) PROVE runner_id' = runner_id /\ reader' = reader
  BY <1>3 DEF IndexTool
<1>4. CASE StartTasks(c) \/ SocketEnds(c) \/ Cleanup(c)
  BY <1>4, <1>2 DEF StartTasks, SocketEnds, Cleanup, DrainPending, Unregister, Deindex, Close
<1>5. CASE WriteFrame(c) \/ WriteFails(c) \/ HandlePong(c) \/ SendPing(c) \/ PingFails(c)
           \/ CountMiss(c) \/ ExpireRunner(c) \/ ExpireTools(c)
  <2>1. UNCHANGED connVars
    BY <1>5 DEF WriteFrame, WriteFails, HandlePong, SendPing, PingFails, CountMiss,
                ExpireRunner, ExpireTools
  <2>2. QED BY <2>1, <1>2
<1>6. QED BY <1>1, <1>2, <1>3, <1>4, <1>5 DEF ConnStep

\* What neither registers, unregisters nor starts anything is not counted.
LEMMA GaugeFrame ==
    ASSUME TypeOK, GaugeIsExact, runners' = runners, gauge' = gauge, runner_id' = runner_id,
           \A c \in Conns : reader'[c] = "indexing" <=> reader[c] = "indexing"
    PROVE  GaugeIsExact'
<1>1. \A r \in Runners : runners[r] # None => runners[r] \in Conns
  BY DEF TypeOK
<1>2. Counted' = Counted
  BY <1>1 DEF Counted
<1>3. QED BY <1>2 DEF GaugeIsExact

\* A runner taken out of the map was counted once, or was not in it.
LEMMA GaugeRemove ==
    ASSUME TypeInv, RegistryInv, DialedIsKnown, DialedOnce, GaugeIsExact, NEW c \in Conns,
           runner_id[c] \in Runners, reader[c] # "indexing", RemoveRunner(runner_id[c]),
           runner_id' = runner_id,
           \A d \in Conns : reader'[d] = "indexing" <=> reader[d] = "indexing"
    PROVE  GaugeIsExact'
<1> DEFINE r == runner_id[c]
<1>0. /\ \A s \in Runners : runners[s] # None =>
             runners[s] \in Conns /\ runner_id[runners[s]] = s
      /\ runners \in [Runners -> Conns \cup {None}] /\ r \in Runners
  BY DEF TypeInv, TypeOK, RegistryInv, RegisteredIsServing
<1>1. runners[r] # None => runners[r] = c
  BY <1>0, NoneAssumption DEF DialedOnce
<1>2. /\ runners'[r] = None
      /\ \A s \in Runners : s # r => runners'[s] = runners[s]
  BY <1>0 DEF RemoveRunner
<1>3. Counted' = Counted \ {r}
  BY <1>0, <1>2 DEF Counted
<1>4. runners[r] # None <=> r \in Counted
  BY <1>0, <1>1 DEF Counted
<1>5. IsFiniteSet(Counted') /\ gauge' = Cardinality(Counted')
  <2>1. CASE r \in Counted
    <3>1. IsFiniteSet(Counted \ {r}) /\ Cardinality(Counted \ {r}) = Cardinality(Counted) - 1
      BY <2>1, FS_RemoveElement DEF GaugeIsExact
    <3>2. gauge' = gauge - 1
      BY <2>1, <1>4 DEF RemoveRunner
    <3>3. QED BY <3>1, <3>2, <1>3 DEF GaugeIsExact
  <2>2. CASE r \notin Counted
    <3>1. Counted' = Counted /\ gauge' = gauge
      BY <2>2, <1>3, <1>4 DEF RemoveRunner
    <3>2. QED BY <3>1 DEF GaugeIsExact
  <2>3. QED BY <2>1, <2>2
<1>6. ASSUME NEW d \in Conns, reader'[d] = "indexing" PROVE runners'[runner_id'[d]] = d
  <2>1. reader[d] = "indexing" /\ runners[runner_id[d]] = d /\ d # c
    BY <1>6 DEF GaugeIsExact
  <2>2. runner_id[d] # r
    BY <2>1, <1>0, NoneAssumption DEF DialedOnce
  <2>3. runner_id[d] \in Runners
    BY <2>1 DEF DialedIsKnown, TypeInv, TypeOK
  <2>4. QED BY <2>1, <2>2, <2>3, <1>2
<1>7. QED BY <1>5, <1>6 DEF GaugeIsExact

LEMMA GaugeStep ==
    ASSUME TypeInv, TypeOK', RegistryInv, GaugeInv, NEW c \in Conns, ConnStep(c)
    PROVE  GaugeInv'
<1> SUFFICES ASSUME DialedOnce, DialedOnce', DialedIsKnown, DialedIsKnown', GaugeIsExact
             PROVE  GaugeIsExact'
  BY DialStep DEF GaugeInv, TypeInv
<1>0. /\ TypeOK
      /\ reader[c] # "undialed" => runner_id[c] \in Runners
      /\ heartbeat[c] = "expired" => reader[c] \notin {"undialed", "indexing"}
  BY DEF TypeInv, TypeOK, Pulse, DialedIsKnown
<1>1. ASSUME NEW r \in Runners, NEW tools \in Adverts, RegisterRunner(c, r, tools)
      PROVE  GaugeIsExact'
  <2>1. /\ reader[c] = "undialed" /\ reader' = [reader EXCEPT ![c] = "indexing"]
        /\ runner_id' = [runner_id EXCEPT ![c] = r]
        /\ runners' = [runners EXCEPT ![r] = c]
        /\ gauge' = gauge
    BY <1>1 DEF RegisterRunner, At
  <2>2. /\ reader \in [Conns -> ReaderSteps] /\ runner_id \in [Conns -> Runners \cup {None}]
        /\ runners \in [Runners -> Conns \cup {None}] /\ None \notin Runners
        /\ runner_id[c] = None
    BY <2>1, <1>0, NoneAssumption DEF TypeOK, DialedIsKnown
  <2>3. \A d \in Conns : d # c => runner_id[d] # r
    BY <2>1, <2>2 DEF DialedOnce
  <2>4. runners[r] = None
    BY <2>2, <2>3 DEF RegistryInv, RegisteredIsServing
  <2>5. \A s \in Runners : runners[s] # None => runners[s] # c
    BY <2>2 DEF RegistryInv, RegisteredIsServing
  <2>6. \A s \in Runners : runners[s] # None => runners[s] \in Conns
    BY <2>2
  <2>7. Counted' = Counted
    <3>1. ASSUME NEW s \in Runners PROVE s \in Counted' <=> s \in Counted
      <4>1. CASE s = r
        BY <2>1, <2>2, <2>4, <4>1 DEF Counted
      <4>2. CASE s # r
        BY <2>1, <2>2, <2>5, <2>6, <4>2 DEF Counted
      <4>3. QED BY <4>1, <4>2
    <3>2. QED BY <3>1 DEF Counted
  <2>8. ASSUME NEW d \in Conns, reader'[d] = "indexing" PROVE runners'[runner_id'[d]] = d
    <3>1. CASE d = c
      BY <2>1, <2>2, <3>1
    <3>2. CASE d # c
      <4>1. reader[d] = "indexing" /\ runner_id'[d] = runner_id[d] /\ runner_id[d] \in Runners
        BY <2>1, <2>2, <2>8, <3>2 DEF DialedIsKnown
      <4>2. runners[runner_id[d]] = d
        BY <4>1 DEF GaugeIsExact
      <4>3. QED BY <4>1, <4>2, <2>1, <2>2, <2>3, <3>2
    <3>3. QED BY <3>1, <3>2
  <2>9. QED BY <2>1, <2>7, <2>8 DEF GaugeIsExact
<1>2. CASE StartTasks(c)
  <2> DEFINE r == runner_id[c]
  <2>1. /\ reader[c] = "indexing" /\ reader' = [reader EXCEPT ![c] = "reading"]
        /\ gauge' = gauge + 1 /\ runners' = runners /\ runner_id' = runner_id
    BY <1>2 DEF StartTasks, At
  <2>2. /\ r \in Runners /\ runners[r] = c /\ c # None
        /\ reader \in [Conns -> ReaderSteps] /\ runners \in [Runners -> Conns \cup {None}]
    BY <2>1, <1>0, NoneAssumption DEF GaugeIsExact, TypeOK
  <2>3. r \notin Counted
    BY <2>1, <2>2 DEF Counted
  <2>4. \A s \in Runners : s # r /\ runners[s] # None => runners[s] \in Conns \ {c}
    BY <2>2 DEF RegistryInv, RegisteredIsServing
  <2>5. Counted' = Counted \cup {r}
    <3>1. ASSUME NEW s \in Runners PROVE s \in Counted' <=> (s \in Counted \/ s = r)
      <4>1. CASE s = r
        BY <2>1, <2>2, <4>1 DEF Counted
      <4>2. CASE s # r
        BY <2>1, <2>2, <2>4, <4>2 DEF Counted
      <4>3. QED BY <4>1, <4>2
    <3>2. QED BY <3>1, <2>2 DEF Counted
  <2>6. IsFiniteSet(Counted') /\ Cardinality(Counted') = Cardinality(Counted) + 1
    BY <2>3, <2>5, FS_AddElement DEF GaugeIsExact
  <2>7. \A d \in Conns : reader'[d] = "indexing" => runners'[runner_id'[d]] = d
    BY <2>1, <2>2 DEF GaugeIsExact
  <2>8. QED BY <2>1, <2>6, <2>7 DEF GaugeIsExact
<1>3. CASE Unregister(c)
  <2>1. /\ reader[c] = "unregistering" /\ reader' = [reader EXCEPT ![c] = "deindexing"]
        /\ RemoveRunner(runner_id[c]) /\ runner_id' = runner_id
    BY <1>3 DEF Unregister, At
  <2>2. \A d \in Conns : reader'[d] = "indexing" <=> reader[d] = "indexing"
    BY <2>1, <1>0 DEF TypeOK
  <2>3. QED BY <2>1, <2>2, <1>0, GaugeRemove
<1>4. CASE ExpireRunner(c)
  <2>1. /\ heartbeat[c] = "expired" /\ reader' = reader
        /\ RemoveRunner(runner_id[c]) /\ runner_id' = runner_id
    BY <1>4 DEF ExpireRunner, At, connVars
  <2>2. QED BY <2>1, <1>0, GaugeRemove
<1>5. CASE SocketEnds(c) \/ DrainPending(c) \/ Deindex(c) \/ Close(c)
  <2>1. /\ runners' = runners /\ gauge' = gauge /\ runner_id' = runner_id
        /\ \E to \in {"draining", "unregistering", "closing", "gone"} :
              reader' = [reader EXCEPT ![c] = to]
        /\ reader[c] # "indexing"
    BY <1>5 DEF SocketEnds, DrainPending, Deindex, Close, At, registry
  <2>2. \A d \in Conns : reader'[d] = "indexing" <=> reader[d] = "indexing"
    BY <2>1, <1>0 DEF TypeOK
  <2>3. QED BY <2>1, <2>2, <1>0, GaugeFrame
<1>6. ASSUME NEW t \in Tools, IndexTool(c, t) PROVE GaugeIsExact'
  BY <1>6, <1>0, GaugeFrame DEF IndexTool
<1>7. CASE WriteFrame(c) \/ WriteFails(c) \/ HandlePong(c) \/ SendPing(c) \/ PingFails(c)
           \/ CountMiss(c) \/ ExpireTools(c)
  <2>1. UNCHANGED <<runners, gauge, connVars>>
    BY <1>7 DEF WriteFrame, WriteFails, HandlePong, SendPing, PingFails, CountMiss,
                ExpireTools, registry
  <2>2. QED BY <2>1, <1>0, GaugeFrame DEF connVars
<1>8. QED BY <1>1, <1>2, <1>3, <1>4, <1>5, <1>6, <1>7 DEF ConnStep, Cleanup

LEMMA GaugeInvariant == Spec => []GaugeInv
<1>1. Init => GaugeInv
  <2> SUFFICES ASSUME Init PROVE GaugeInv
    OBVIOUS
  <2>1. Counted = {}
    BY DEF Init, Counted
  <2>2. QED BY <2>1, FS_EmptySet DEF Init, GaugeInv, GaugeIsExact, DialedIsKnown
<1>2. TypeInv /\ RegistryInv /\ GaugeInv /\ TypeOK' /\ [Next]_vars => GaugeInv'
  <2> SUFFICES ASSUME TypeInv, RegistryInv, GaugeInv, TypeOK', [Next]_vars PROVE GaugeInv'
    OBVIOUS
  <2>1. CASE UNCHANGED <<registry, connVars>>
    BY <2>1 DEF GaugeInv, GaugeIsExact, Counted, DialedIsKnown, DialedOnce, registry, connVars
  <2>2. ASSUME NEW i \in Calls, CallStep(i) PROVE UNCHANGED <<registry, connVars>>
    BY <2>2 DEF CallStep, LookupTool, LookupRunner, InsertPending, SendInvoke, SendFails,
                HandleReply, ReceiveReply, Cancelled, Timeout, GiveUp, SendCancel,
                CancelFails, DropCall
  <2>3. UNCHANGED vars => UNCHANGED <<registry, connVars>>
    BY DEF vars
  <2>4. QED BY <2>1, <2>2, <2>3, GaugeStep DEF Next
<1>3. QED BY <1>1, <1>2, TypeInvariant, TypeCorrect, RegistryInvariant, PTL DEF Spec

\* As long as no runner id is dialed twice, the gauge counts the registered runners,
\* whichever of the heartbeat and the cleanup takes one out first.
THEOREM GaugeIsRight == Spec => []GaugeCountsRunners
<1>1. TypeOK /\ GaugeInv => GaugeCountsRunners
  <2> SUFFICES ASSUME TypeOK, GaugeInv, DialedOnce, \A c \in Conns : reader[c] # "indexing"
               PROVE  gauge = Cardinality({r \in Runners : runners[r] # None})
    BY DEF GaugeCountsRunners
  <2>1. Counted = {r \in Runners : runners[r] # None}
    BY DEF Counted, TypeOK
  <2>2. QED BY <2>1 DEF GaugeInv, GaugeIsExact
<1>2. QED BY <1>1, TypeCorrect, GaugeInvariant, PTL

-----------------------------------------------------------------------------
(* The waiters.  A call is in the map of the one connection it resolved,    *)
(* from its insert to its answer or its return.                             *)

\* A waiter leaves the map before it is answered, and is not there before its
\* call has resolved a connection.
WaiterInv ==
    /\ WaitersBelongToCalls
    /\ UnansweredCallsAreReachable
    /\ \A c \in Conns, i \in Calls : i \in pending[c] => reply[i] = "none"
    /\ \A i \in Calls : call[i] \in {"idle", "lookup", "resolved"} => reply[i] = "none"

LEMMA WaiterStep ==
    ASSUME TypeInv, WaiterInv, NEW i \in Calls, CallStep(i)
    PROVE  WaiterInv'
<1> USE DEF TypeInv, TypeOK, Lookups, WaiterInv, WaitersBelongToCalls,
            UnansweredCallsAreReachable, At
<1>1. ASSUME NEW t \in Tools, LookupTool(i, t) PROVE WaiterInv'
  <2>1. /\ UNCHANGED <<pending, owner, reply>>
        /\ call[i] = "idle"
        /\ \E to \in {"lookup", "unsent"} : call' = [call EXCEPT ![i] = to]
    BY <1>1 DEF LookupTool
  <2>2. QED BY <2>1
<1>2. CASE LookupRunner(i)
  <2>1. /\ UNCHANGED <<pending, reply>>
        /\ call[i] = "lookup"
        /\ \E to \in {"resolved", "unsent"} : call' = [call EXCEPT ![i] = to]
        /\ \A j \in Calls : j # i => owner'[j] = owner[j]
    BY <1>2 DEF LookupRunner
  <2>2. QED BY <2>1
<1>3. CASE InsertPending(i)
  BY <1>3 DEF InsertPending
<1>4. CASE SendInvoke(i)
  BY <1>4 DEF SendInvoke
<1>5. CASE SendFails(i)
  BY <1>5 DEF SendFails
<1>6. ASSUME NEW c \in Conns, HandleReply(c, i) PROVE WaiterInv'
  <2>1. CASE i \in pending[c]
    <3>1. /\ pending' = [pending EXCEPT ![c] = @ \ {i}]
          /\ reply' = [reply EXCEPT ![i] = "answered"]
          /\ owner[i] = c /\ call[i] \notin {"idle", "lookup", "resolved"}
          /\ UNCHANGED <<call, owner>>
      BY <1>6, <2>1 DEF HandleReply
    <3>2. QED BY <3>1
  <2>2. CASE i \notin pending[c]
    <3>1. UNCHANGED <<pending, call, owner, reply>>
      BY <1>6, <2>2 DEF HandleReply
    <3>2. QED BY <3>1
  <2>3. QED BY <2>1, <2>2
<1>7. CASE ReceiveReply(i)
  <2>1. /\ call[i] = "waiting" /\ reply[i] # "none"
        /\ call' = [call EXCEPT ![i] = "returned"]
        /\ UNCHANGED <<pending, owner, reply>>
    BY <1>7 DEF ReceiveReply
  <2>2. QED BY <2>1
<1>8. CASE GiveUp(i)
  BY <1>8 DEF GiveUp
<1>9. CASE SendCancel(i)
  BY <1>9 DEF SendCancel
<1>10. CASE CancelFails(i)
  BY <1>10 DEF CancelFails
<1>11. CASE DropCall(i)
  <2>1. CASE call' = [call EXCEPT ![i] = "abandoned"]
    BY <1>11, <2>1 DEF DropCall
  <2>2. CASE call' = [call EXCEPT ![i] = "dropped"]
    BY <1>11, <2>2 DEF DropCall
  <2>3. QED BY <1>11, <2>1, <2>2 DEF DropCall
<1> HIDE DEF WaiterInv, TypeInv, At
<1>12. QED
  BY <1>1, <1>2, <1>3, <1>4, <1>5, <1>6, <1>7, <1>8, <1>9, <1>10, <1>11
  DEF CallStep, Cancelled, Timeout

LEMMA WaiterInvariant == Spec => []WaiterInv
<1>1. Init => WaiterInv
  BY DEF Init, WaiterInv, WaitersBelongToCalls, UnansweredCallsAreReachable
<1>2. TypeInv /\ WaiterInv /\ [Next]_vars => WaiterInv'
  <2> SUFFICES ASSUME TypeInv, WaiterInv, [Next]_vars PROVE WaiterInv'
    OBVIOUS
  <2>1. ASSUME NEW c \in Conns, DrainPending(c) PROVE WaiterInv'
    <3> USE DEF TypeInv, TypeOK, Lookups, WaiterInv, WaitersBelongToCalls,
                UnansweredCallsAreReachable
    <3>1. /\ \A i \in Calls : reply'[i] = IF i \in pending[c] THEN "disconnected" ELSE reply[i]
          /\ pending' = [pending EXCEPT ![c] = {}]
          /\ UNCHANGED <<call, owner>>
      BY <2>1 DEF DrainPending
    <3>2. WaitersBelongToCalls'
      BY <3>1
    <3>3. UnansweredCallsAreReachable'
      BY <3>1
    <3>4. \A d \in Conns, i \in Calls : i \in pending'[d] => reply'[i] = "none"
      BY <3>1
    <3>5. \A i \in Calls : call'[i] \in {"idle", "lookup", "resolved"} => reply'[i] = "none"
      BY <3>1
    <3>6. QED BY <3>2, <3>3, <3>4, <3>5
  <2>2. ASSUME NEW c \in Conns, ConnStep(c), ~DrainPending(c)
        PROVE  UNCHANGED <<pending, call, owner, reply>>
    BY <2>2 DEF ConnStep, Cleanup, RegisterRunner, IndexTool, StartTasks, WriteFrame,
                WriteFails, HandlePong, SocketEnds, Unregister, Deindex, Close, SendPing,
                PingFails, CountMiss, ExpireRunner, ExpireTools, callVars
  <2>3. UNCHANGED vars => UNCHANGED <<pending, call, owner, reply>>
    BY DEF vars, callVars
  <2>4. CASE UNCHANGED <<pending, call, owner, reply>>
    BY <2>4 DEF WaiterInv, WaitersBelongToCalls, UnansweredCallsAreReachable
  <2>5. QED BY <2>1, <2>2, <2>3, <2>4, WaiterStep DEF Next
<1>3. QED BY <1>1, <1>2, TypeInvariant, PTL DEF Spec

\* A call that has returned leaves no waiter behind, and an unanswered call can
\* still be answered.
THEOREM NoWaiterLeaksOrIsLost == Spec => []WaitersMatchCalls
BY WaiterInvariant, PTL DEF WaiterInv, WaitersMatchCalls

-----------------------------------------------------------------------------
(* The refinement.  A call that has an Invoke in an outbox or a handler on  *)
(* a runner was sent, and one that is answered was handled.                 *)

InvokesAreSent ==
    \A c \in Conns, i \in Calls : \A k \in 1 .. Len(outbox[c]) :
        outbox[c][k] = Invoke(i) => call[i] \in Sent

PromiseInv ==
    /\ InvokesAreSent
    /\ \A i \in Calls : handler[i] # "none" => call[i] \in Sent
    /\ \A i \in Calls : reply[i] = "answered" => handler[i] # "none"

LEMMA FramesDiffer ==
    ASSUME NEW i, NEW j
    PROVE  /\ Invoke(i) # Ping /\ Invoke(i) # CancelFrame(j)
           /\ Invoke(i) = Invoke(j) => i = j
<1>1. Invoke(i).kind = "invoke" /\ Ping.kind = "ping" /\ CancelFrame(j).kind = "cancel"
  BY DEF Invoke, Ping, CancelFrame
<1>2. Invoke(i).id = i /\ Invoke(j).id = j
  BY DEF Invoke
<1>3. QED BY <1>1, <1>2

\* What is in an outbox after a Send was there before it, or is what was sent.
LEMMA SendAdds ==
    ASSUME TypeOK, NEW c \in Conns, NEW frame, Send(c, frame),
           NEW d \in Conns, NEW k \in 1 .. Len(outbox'[d])
    PROVE  \/ k \in 1 .. Len(outbox[d]) /\ outbox'[d][k] = outbox[d][k]
           \/ outbox'[d][k] = frame
<1>1. outbox' = [outbox EXCEPT ![c] = Append(@, frame)]
  BY DEF Send
<1>2. outbox \in [Conns -> Seq(Frames)]
  BY DEF TypeOK
<1>3. CASE d = c
  <2> DEFINE s == outbox[c]
  <2>1. s \in Seq(Frames) /\ outbox'[d] = Append(s, frame)
    BY <1>1, <1>2, <1>3
  <2>2. /\ Len(Append(s, frame)) = Len(s) + 1 /\ Len(s) \in Nat
        /\ Append(s, frame)[Len(s) + 1] = frame
        /\ \A n \in 1 .. Len(s) : Append(s, frame)[n] = s[n]
    BY <2>1
  <2>3. QED BY <1>3, <2>1, <2>2
<1>4. CASE d # c
  BY <1>1, <1>2, <1>4
<1>5. QED BY <1>3, <1>4

LEMMA PromiseInvConnStep ==
    ASSUME TypeOK, PromiseInv, NEW c \in Conns, ConnStep(c)
    PROVE  PromiseInv'
<1> USE DEF PromiseInv, InvokesAreSent
<1>1. CASE WriteFrame(c)
  <2>1. /\ outbox[c] \in Seq(Frames) /\ outbox[c] # <<>>
        /\ outbox' = [outbox EXCEPT ![c] = Tail(@)] /\ outbox \in [Conns -> Seq(Frames)]
        /\ UNCHANGED <<call, reply>> /\ handler \in [Calls -> {"none", "running", "replied"}]
    BY <1>1 DEF WriteFrame, TypeOK
  <2>2. /\ Head(outbox[c]) = outbox[c][1] /\ 1 \in 1 .. Len(outbox[c])
        /\ Head(outbox[c]) \in Frames
        /\ \A k \in 1 .. Len(Tail(outbox[c])) : /\ k + 1 \in 1 .. Len(outbox[c])
                                               /\ Tail(outbox[c])[k] = outbox[c][k + 1]
    BY <2>1
  <2>3. InvokesAreSent'
    <3> SUFFICES ASSUME NEW d \in Conns, NEW i \in Calls, NEW k \in 1 .. Len(outbox'[d]),
                        outbox'[d][k] = Invoke(i)
                 PROVE  call[i] \in Sent
      BY <2>1
    <3>1. CASE d = c
      BY <2>1, <2>2, <3>1
    <3>2. CASE d # c
      BY <2>1, <3>2
    <3>3. QED BY <3>1, <3>2
  <2>4. ASSUME NEW i \in Calls, handler'[i] # handler[i]
        PROVE  Head(outbox[c]) = Invoke(i) /\ handler'[i] = "running"
    <3>1. Head(outbox[c]).kind = "invoke" /\ handler' = [handler EXCEPT ![Head(outbox[c]).id] = "running"]
      BY <1>1, <2>4 DEF WriteFrame, Deliver
    <3>2. PICK j \in Calls : Head(outbox[c]) = Invoke(j)
      BY <2>2, <3>1 DEF Frames, Ping, CancelFrame
    <3>3. Head(outbox[c]).id = j
      BY <3>2 DEF Invoke
    <3>4. QED BY <2>1, <2>4, <3>1, <3>2, <3>3
  <2>5. \A i \in Calls : handler'[i] # "none" => call'[i] \in Sent
    BY <2>1, <2>2, <2>4
  <2>6. \A i \in Calls : reply'[i] = "answered" => handler'[i] # "none"
    BY <2>1, <2>4
  <2>7. QED BY <2>3, <2>5, <2>6
<1>2. CASE WriteFails(c) \/ Close(c)
  <2>1. /\ outbox' = [outbox EXCEPT ![c] = <<>>] /\ outbox \in [Conns -> Seq(Frames)]
        /\ UNCHANGED <<call, reply, handler>>
    BY <1>2 DEF WriteFails, Close, TypeOK, callVars
  <2>2. InvokesAreSent'
    BY <2>1
  <2>3. QED BY <2>1, <2>2
<1>3. CASE SendPing(c)
  <2>1. Send(c, Ping) /\ UNCHANGED <<call, reply, handler>>
    BY <1>3 DEF SendPing, callVars
  <2>2. InvokesAreSent'
    BY <2>1, SendAdds, FramesDiffer
  <2>3. QED BY <2>1, <2>2
<1>4. CASE DrainPending(c)
  BY <1>4 DEF DrainPending, channel, TypeOK
<1>5. CASE UNCHANGED <<outbox, call, reply, handler>>
  BY <1>5
<1>6. QED
  BY <1>1, <1>2, <1>3, <1>4, <1>5
  DEF ConnStep, Cleanup, RegisterRunner, IndexTool, StartTasks, HandlePong, SocketEnds,
      Unregister, Deindex, PingFails, CountMiss, ExpireRunner, ExpireTools, channel, callVars

\* A call that was sent stays so.
LEMMA SentStays ==
    ASSUME TypeOK, NEW i \in Calls, CallStep(i), NEW j \in Calls, call[j] \in Sent
    PROVE  call'[j] \in Sent
<1> USE DEF At, Sent, TypeOK
<1>1. CASE UNCHANGED call
  BY <1>1
<1>2. CASE \E t \in Tools : LookupTool(i, t)
  BY <1>2 DEF LookupTool
<1>3. CASE LookupRunner(i) \/ InsertPending(i) \/ SendInvoke(i) \/ SendFails(i)
  BY <1>3 DEF LookupRunner, InsertPending, SendInvoke, SendFails
<1>4. CASE ReceiveReply(i) \/ GiveUp(i) \/ SendCancel(i) \/ CancelFails(i)
  BY <1>4 DEF ReceiveReply, GiveUp, SendCancel, CancelFails
<1>5. CASE DropCall(i)
  BY <1>5 DEF DropCall
<1>6. ASSUME NEW c \in Conns, HandleReply(c, i) PROVE UNCHANGED call
  BY <1>6 DEF HandleReply
<1> HIDE DEF At, Sent, TypeOK
<1>7. QED BY <1>1, <1>2, <1>3, <1>4, <1>5, <1>6 DEF CallStep, Cancelled, Timeout

LEMMA PromiseInvCallStep ==
    ASSUME TypeInv, WaiterInv, PromiseInv, NEW i \in Calls, CallStep(i)
    PROVE  PromiseInv'
<1>1. TypeOK /\ \A j \in Calls : call[j] \in Sent => call'[j] \in Sent
  BY SentStays DEF TypeInv
<1>2. CASE UNCHANGED <<outbox, reply, handler>>
  BY <1>1, <1>2 DEF PromiseInv, InvokesAreSent
<1>3. CASE SendInvoke(i)
  <2>1. /\ owner[i] \in Conns /\ Send(owner[i], Invoke(i)) /\ call'[i] \in Sent
        /\ UNCHANGED <<reply, handler>>
    BY <1>3 DEF SendInvoke, At, Sent, TypeInv, TypeOK, Lookups
  <2>2. InvokesAreSent'
    <3> SUFFICES ASSUME NEW d \in Conns, NEW j \in Calls, NEW k \in 1 .. Len(outbox'[d]),
                        outbox'[d][k] = Invoke(j)
                 PROVE  call'[j] \in Sent
      BY DEF InvokesAreSent
    <3>1. \/ k \in 1 .. Len(outbox[d]) /\ outbox'[d][k] = outbox[d][k]
          \/ outbox'[d][k] = Invoke(i)
      BY <1>1, <2>1, SendAdds
    <3>2. QED BY <1>1, <2>1, <3>1, FramesDiffer DEF PromiseInv, InvokesAreSent
  <2>3. QED BY <1>1, <2>1, <2>2 DEF PromiseInv
<1>4. CASE SendCancel(i)
  <2>1. /\ owner[i] \in Conns /\ Send(owner[i], CancelFrame(i))
        /\ UNCHANGED <<reply, handler>>
    BY <1>4 DEF SendCancel, At, TypeInv, Lookups
  <2>2. InvokesAreSent'
    BY <1>1, <2>1, SendAdds, FramesDiffer DEF PromiseInv, InvokesAreSent
  <2>3. QED BY <1>1, <2>1, <2>2 DEF PromiseInv
<1>5. ASSUME NEW c \in Conns, HandleReply(c, i) PROVE PromiseInv'
  <2>1. /\ UNCHANGED <<outbox, call>> /\ handler[i] = "running"
        /\ handler' = [handler EXCEPT ![i] = "replied"]
        /\ \A j \in Calls : j # i => reply'[j] = reply[j]
        /\ handler \in [Calls -> {"none", "running", "replied"}]
    BY <1>5 DEF HandleReply, At, channel, TypeInv, TypeOK
  <2>2. QED BY <2>1 DEF PromiseInv, InvokesAreSent
<1>6. QED
  BY <1>2, <1>3, <1>4, <1>5
  DEF CallStep, Cancelled, Timeout, LookupTool, LookupRunner, InsertPending, SendFails,
      ReceiveReply, GiveUp, CancelFails, DropCall, channel

LEMMA PromiseInvariant == Spec => []PromiseInv
<1>1. Init => PromiseInv
  BY DEF Init, PromiseInv, InvokesAreSent
<1>2. TypeInv /\ WaiterInv /\ PromiseInv /\ [Next]_vars => PromiseInv'
  <2>1. TypeInv => TypeOK
    BY DEF TypeInv
  <2>2. UNCHANGED vars /\ PromiseInv => PromiseInv'
    BY DEF vars, channel, callVars, PromiseInv, InvokesAreSent
  <2>3. QED BY <2>1, <2>2, PromiseInvConnStep, PromiseInvCallStep DEF Next
<1>3. QED BY <1>1, <1>2, TypeInvariant, WaiterInvariant, PTL DEF Spec

\* What a step leaves alone of a call leaves its promise alone.
LEMMA PromiseStutters == UNCHANGED <<call, reply, handler>> => UNCHANGED Promise!vars
BY DEF Promise!vars, SentCalls, TakenCalls, Result

LEMMA PromiseConnStep ==
    ASSUME TypeOK, WaiterInv, PromiseInv, NEW c \in Conns, ConnStep(c)
    PROVE  [Promise!Next]_(Promise!vars)
<1>1. CASE WriteFrame(c)
  <2>1. /\ outbox[c] \in Seq(Frames) /\ outbox[c] # <<>>
        /\ UNCHANGED <<call, reply>> /\ handler \in [Calls -> {"none", "running", "replied"}]
    BY <1>1 DEF WriteFrame, TypeOK
  <2>2. CASE handler' = handler
    BY <2>1, <2>2, PromiseStutters
  <2>3. CASE handler' # handler
    <3>1. Head(outbox[c]) \in Frames /\ Head(outbox[c]) = outbox[c][1] /\ 1 \in 1 .. Len(outbox[c])
      BY <2>1
    <3>2. /\ Head(outbox[c]).kind = "invoke"
          /\ handler' = [handler EXCEPT ![Head(outbox[c]).id] = "running"]
      BY <1>1, <2>3 DEF WriteFrame, Deliver
    <3>3. PICK i \in Calls : Head(outbox[c]) = Invoke(i)
      BY <3>1, <3>2 DEF Frames, Ping, CancelFrame
    <3>4. handler' = [handler EXCEPT ![i] = "running"] /\ call[i] \in Sent
      <4>1. Invoke(i).id = i
        BY DEF Invoke
      <4>2. call[i] \in Sent
        BY <3>1, <3>3 DEF PromiseInv, InvokesAreSent
      <4>3. QED BY <3>2, <3>3, <4>1, <4>2
    <3>5. UNCHANGED <<SentCalls, Result>> /\ TakenCalls' = TakenCalls \cup {i}
      BY <2>1, <3>4 DEF SentCalls, TakenCalls, Result
    <3>6. CASE i \in TakenCalls
      BY <3>5, <3>6 DEF Promise!vars
    <3>7. CASE i \notin TakenCalls
      <4>1. i \in SentCalls \ TakenCalls
        BY <3>4, <3>7 DEF SentCalls
      <4>2. Promise!Take(i)
        BY <3>5, <4>1 DEF Promise!Take
      <4>3. QED BY <4>2 DEF Promise!Next
    <3>8. QED BY <3>6, <3>7
  <2>4. QED BY <2>2, <2>3
<1>2. CASE DrainPending(c)
  <2>1. /\ UNCHANGED <<call, handler>>
        /\ \A i \in Calls : reply'[i] = IF i \in pending[c] THEN "disconnected" ELSE reply[i]
    BY <1>2 DEF DrainPending
  <2>2. \A i \in Calls : i \in pending[c] => call[i] # "returned"
    BY DEF WaiterInv, WaitersBelongToCalls
  <2>3. UNCHANGED <<SentCalls, TakenCalls, Result>>
    BY <2>1, <2>2 DEF SentCalls, TakenCalls, Result
  <2>4. QED BY <2>3 DEF Promise!vars
<1>3. CASE UNCHANGED <<call, reply, handler>>
  BY <1>3, PromiseStutters
<1>4. QED
  BY <1>1, <1>2, <1>3
  DEF ConnStep, Cleanup, RegisterRunner, IndexTool, StartTasks, WriteFails, HandlePong,
      SocketEnds, Unregister, Deindex, Close, SendPing, PingFails, CountMiss, ExpireRunner,
      ExpireTools, callVars

\* A step of a call that only moves it on, or only ends it without a result.
LEMMA PromiseMoves ==
    ASSUME TypeOK, NEW i \in Calls, UNCHANGED <<reply, handler>>,
           NEW to, call' = [call EXCEPT ![i] = to], to # "returned", call[i] # "returned",
           to \in Sent <=> call[i] \in Sent,
           call[i] \in Failed => to \in Failed
    PROVE  [Promise!Next]_(Promise!vars)
<1>1. call \in [Calls -> {"idle", "lookup", "resolved", "sending", "waiting", "stopping",
                        "returned", "stopped", "unsent", "abandoned", "dropped"}]
  BY DEF TypeOK
<1>2. UNCHANGED <<SentCalls, TakenCalls>>
  BY <1>1 DEF SentCalls, TakenCalls
<1>3. CASE to \in Failed <=> call[i] \in Failed
  <2>1. UNCHANGED Result
    BY <1>1, <1>3 DEF Result
  <2>2. QED BY <1>2, <2>1 DEF Promise!vars
<1>4. CASE to \in Failed /\ call[i] \notin Failed
  <2>1. Result[i] = "none" /\ Result' = [Result EXCEPT ![i] = "failed"]
    BY <1>1, <1>4 DEF Result
  <2>2. QED BY <1>2, <2>1 DEF Promise!Next, Promise!Fail
<1>5. QED BY <1>3, <1>4

LEMMA PromiseCallStep ==
    ASSUME TypeOK, WaiterInv, PromiseInv, NEW i \in Calls, CallStep(i)
    PROVE  [Promise!Next]_(Promise!vars)
<1> USE DEF At
<1>1. ASSUME NEW t \in Tools, LookupTool(i, t) PROVE [Promise!Next]_(Promise!vars)
  BY <1>1, PromiseMoves DEF LookupTool, Sent, Failed
<1>2. CASE LookupRunner(i)
  BY <1>2, PromiseMoves DEF LookupRunner, Sent, Failed
<1>3. CASE InsertPending(i)
  BY <1>3, PromiseMoves DEF InsertPending, Sent, Failed
<1>4. CASE SendFails(i)
  BY <1>4, PromiseMoves DEF SendFails, Sent, Failed
<1>5. CASE GiveUp(i)
  BY <1>5, PromiseMoves DEF GiveUp, Sent, Failed
<1>6. CASE SendCancel(i) \/ CancelFails(i)
  BY <1>6, PromiseMoves DEF SendCancel, CancelFails, Sent, Failed
<1>7. CASE DropCall(i)
  BY <1>7, PromiseMoves DEF DropCall, Sent, Failed
<1>8. CASE SendInvoke(i)
  <2>1. /\ call[i] = "sending" /\ call' = [call EXCEPT ![i] = "waiting"]
        /\ UNCHANGED <<reply, handler>> /\ DOMAIN call = Calls
    BY <1>8 DEF SendInvoke, TypeOK
  <2>2. i \notin SentCalls /\ SentCalls' = SentCalls \cup {i} /\ UNCHANGED TakenCalls
    BY <2>1 DEF SentCalls, TakenCalls, Sent
  <2>3. Result[i] = "none" /\ UNCHANGED Result
    BY <2>1 DEF Result, Failed
  <2>4. QED BY <2>2, <2>3 DEF Promise!Next, Promise!Hand
<1>9. CASE ReceiveReply(i)
  <2>1. /\ call[i] = "waiting" /\ call' = [call EXCEPT ![i] = "returned"]
        /\ UNCHANGED <<reply, handler>> /\ DOMAIN call = Calls
    BY <1>9 DEF ReceiveReply, TypeOK
  <2>2. Result[i] = "none" /\ UNCHANGED <<SentCalls, TakenCalls>>
    BY <2>1 DEF SentCalls, TakenCalls, Result, Sent, Failed
  <2>3. CASE reply[i] = "answered"
    <3>1. i \in TakenCalls
      BY <2>3 DEF PromiseInv, TakenCalls
    <3>2. Result' = [Result EXCEPT ![i] = "answered"]
      BY <2>1, <2>3 DEF Result, Failed
    <3>3. QED BY <2>2, <3>1, <3>2 DEF Promise!Next, Promise!Answer
  <2>4. CASE reply[i] # "answered"
    <3>1. Result' = [Result EXCEPT ![i] = "failed"]
      BY <2>1, <2>4 DEF Result, Failed
    <3>2. QED BY <2>2, <3>1 DEF Promise!Next, Promise!Fail
  <2>5. QED BY <2>3, <2>4
<1>10. ASSUME NEW c \in Conns, HandleReply(c, i) PROVE [Promise!Next]_(Promise!vars)
  <2>1. /\ call' = call /\ handler[i] = "running"
        /\ handler' = [handler EXCEPT ![i] = "replied"] /\ DOMAIN handler = Calls
        /\ \A j \in Calls : j # i => reply'[j] = reply[j]
        /\ i \notin pending[c] => reply' = reply
    BY <1>10 DEF HandleReply, TypeOK
  <2>2. i \in pending[c] => call[i] # "returned"
    BY DEF WaiterInv, WaitersBelongToCalls
  <2>3. UNCHANGED <<SentCalls, TakenCalls>>
    BY <2>1 DEF SentCalls, TakenCalls
  <2>4. UNCHANGED Result
    BY <2>1, <2>2 DEF Result
  <2>5. QED BY <2>3, <2>4 DEF Promise!vars
<1> HIDE DEF At
<1>11. QED
  BY <1>1, <1>2, <1>3, <1>4, <1>5, <1>6, <1>7, <1>8, <1>9, <1>10
  DEF CallStep, Cancelled, Timeout

\* Whatever happens to the connections, a tool call keeps the promise of Exchange.
THEOREM BusKeepsItsPromise == Spec => KeepsItsPromise
<1>1. Init => Promise!Init
  BY DEF Init, Promise!Init, SentCalls, TakenCalls, Result, Sent, Failed
<1>2. TypeInv /\ WaiterInv /\ PromiseInv /\ [Next]_vars => [Promise!Next]_(Promise!vars)
  <2>1. TypeInv => TypeOK
    BY DEF TypeInv
  <2>2. UNCHANGED vars => UNCHANGED Promise!vars
    BY PromiseStutters DEF vars, callVars
  <2>3. QED BY <2>1, <2>2, PromiseConnStep, PromiseCallStep DEF Next
<1>3. QED
  BY <1>1, <1>2, TypeInvariant, WaiterInvariant, PromiseInvariant, PTL
  DEF Spec, KeepsItsPromise, Promise!Spec
=============================================================================
