-------------------------- MODULE NodeBridge_proofs --------------------------
(***************************************************************************)
(* What holds of the node bridge for every set of connections, nodes, jobs *)
(* and kinds, and however node ids and kinds fall into shards.             *)
(***************************************************************************)
EXTENDS NodeBridge, TLAPS

(* The type invariant needs to know what each task has looked up before it  *)
(* gets where it is, and that a session somebody sends a Pong to is there.  *)

Known ==
    /\ \A c \in Conns : reader[c] \notin {"undialed", "gone"} \/ heartbeat[c] # "stopped"
                        => node_id[c] \in Nodes
    /\ \A c \in Conns : reader[c] = "ponging" => sessions[node_id[c]] \in Conns
    /\ \A j \in Jobs : job[j] = "scanning" => kind[j] \in Kinds
    /\ \A j \in Jobs : job[j] \in {"resolved", "sending", "waiting"} => owner[j] \in Conns

Pulse ==
    \A c \in Conns :
        /\ reader[c] \in {"undialed", "indexing", "acking"} => heartbeat[c] = "stopped" /\ missed[c] = 0
        /\ heartbeat[c] \in {"ticking", "counting"} => missed[c] < MaxMissed

TypeInv == TypeOK /\ Known /\ Pulse

LEMMA FramesTyped == Ping \in Frames /\ Pong \in Frames /\ \A j \in Jobs : DispatchJob(j) \in Frames
BY DEF Frames

\* A frame sent into a channel with room for it leaves a channel of frames.
LEMMA SendTyped ==
    ASSUME TypeOK, NEW c \in Conns, NEW frame \in Frames, Send(c, frame)
    PROVE  /\ outbox' \in [Conns -> Seq(Frames)]
           /\ \A d \in Conns : Len(outbox'[d]) <= OutboxSize
<1>1. outbox' = [outbox EXCEPT ![c] = Append(@, frame)] /\ Len(outbox[c]) < OutboxSize
  BY DEF Send, CanSend
<1>2. /\ Append(outbox[c], frame) \in Seq(Frames)
      /\ Len(Append(outbox[c], frame)) = Len(outbox[c]) + 1
      /\ Len(outbox[c]) \in Nat
  BY DEF TypeOK
<1>3. QED BY <1>1, <1>2, BoundAssumption DEF TypeOK

\* Whoever removes a session leaves a registry, and nobody's Pong without one.
LEMMA RemoveTyped ==
    ASSUME TypeInv, NEW c \in Conns, node_id[c] \in Nodes, ~ Ponging(node_id[c]),
           sessions' = [sessions EXCEPT ![node_id[c]] = None]
    PROVE  /\ sessions' \in [Nodes -> Conns \cup {None}]
           /\ \A d \in Conns : reader[d] = "ponging" => sessions'[node_id[d]] \in Conns
<1>1. sessions' \in [Nodes -> Conns \cup {None}]
  BY DEF TypeInv, TypeOK
<1>2. ASSUME NEW d \in Conns, reader[d] = "ponging" PROVE sessions'[node_id[d]] \in Conns
  <2>1. node_id[d] \in Nodes /\ sessions[node_id[d]] \in Conns /\ node_id[d] # node_id[c]
    BY <1>2 DEF TypeInv, Known, Ponging
  <2>2. QED BY <2>1 DEF TypeInv, TypeOK
<1>3. QED BY <1>1, <1>2

LEMMA ReaderTypeStep ==
    ASSUME TypeInv, NEW c \in Conns, ReaderStep(c)
    PROVE  TypeInv'
<1> USE BoundAssumption, NoneAssumption, AdvertAssumption
    DEF TypeInv, TypeOK, Known, Pulse, ReaderSteps,
        registry, connVars, pulse, channel, jobVars, At
<1>1. ASSUME NEW n \in Nodes, NEW caps \in Adverts, RegisterSession(c, n, caps)
      PROVE  TypeInv'
  <2>1. reader[c] = "undialed" /\ heartbeat[c] = "stopped"
    BY <1>1 DEF RegisterSession
  <2>2. CASE At(reader, c, "undialed", "indexing")
    <3>1. /\ reader' = [reader EXCEPT ![c] = "indexing"]
          /\ node_id' = [node_id EXCEPT ![c] = n]
          /\ advert' = [advert EXCEPT ![c] = caps] /\ caps \in SUBSET Kinds
          /\ UNCHANGED <<registry, pulse, channel, jobVars>>
      BY <1>1, <2>2 DEF RegisterSession
    <3>2. QED BY <2>1, <3>1
  <2>3. CASE At(reader, c, "undialed", "gone")
    <3>1. /\ reader' = [reader EXCEPT ![c] = "gone"]
          /\ UNCHANGED <<node_id, advert, registry, pulse, channel, jobVars>>
      BY <1>1, <2>3 DEF RegisterSession
    <3>2. QED BY <2>1, <3>1
  <2>4. QED BY <1>1, <2>2, <2>3 DEF RegisterSession
<1>2. ASSUME NEW k \in Kinds, IndexCapability(c, k) PROVE TypeInv'
  <2>1. /\ node_id[c] \in Nodes
        /\ capability_index' = [capability_index EXCEPT ![k] = @ \cup {node_id[c]}]
        /\ advert' = [advert EXCEPT ![c] = @ \ {k}]
        /\ UNCHANGED <<sessions, node_id, reader, pulse, channel, jobVars>>
    BY <1>2 DEF IndexCapability
  <2>2. capability_index' \in [Kinds -> SUBSET Nodes] /\ advert' \in [Conns -> SUBSET Kinds]
    BY <2>1
  <2>3. QED BY <2>1, <2>2
<1>3. CASE InsertSession(c)
  <2>1. /\ reader[c] = "indexing" /\ reader' = [reader EXCEPT ![c] = "acking"]
        /\ node_id[c] \in Nodes /\ sessions' = [sessions EXCEPT ![node_id[c]] = c]
        /\ UNCHANGED <<capability_index, node_id, advert, pulse, channel, jobVars>>
    BY <1>3 DEF InsertSession
  <2>2. /\ sessions' \in [Nodes -> Conns \cup {None}]
        /\ \A n \in Nodes : sessions[n] \in Conns => sessions'[n] \in Conns
    BY <2>1
  <2>3. QED BY <2>1, <2>2
<1>4. CASE StartTasks(c)
  BY <1>4 DEF StartTasks
<1>5. CASE AckFails(c)
  BY <1>5 DEF AckFails
<1>6. CASE HandleFrame(c)
  BY <1>6 DEF HandleFrame
<1>7. CASE HandlePing(c)
  <2>1. /\ reader[c] = "reading" /\ node_id[c] \in Nodes
        /\ missed' = [missed EXCEPT ![c] = 0]
        /\ UNCHANGED <<registry, node_id, advert, heartbeat, channel, jobVars>>
    BY <1>7 DEF HandlePing
  <2>2. CASE sessions[node_id[c]] = None
    BY <1>7, <2>1, <2>2 DEF HandlePing
  <2>3. CASE sessions[node_id[c]] # None
    <3>1. sessions[node_id[c]] \in Conns /\ reader' = [reader EXCEPT ![c] = "ponging"]
      BY <1>7, <2>1, <2>3 DEF HandlePing
    <3>2. QED BY <2>1, <3>1
  <2>4. QED BY <2>2, <2>3
<1>8. CASE SendPong(c)
  <2>1. /\ outbox' \in [Conns -> Seq(Frames)]
        /\ \A d \in Conns : Len(outbox'[d]) <= OutboxSize
    <3>1. sessions[node_id[c]] \in Conns
      BY <1>8 DEF SendPong
    <3> HIDE DEF TypeOK
    <3>2. QED BY <1>8, <3>1, SendTyped, FramesTyped DEF SendPong, TypeOK
  <2>2. /\ reader[c] = "ponging" /\ reader' = [reader EXCEPT ![c] = "reading"]
        /\ UNCHANGED <<registry, node_id, advert, pulse, writer, jobVars>>
    BY <1>8 DEF SendPong
  <2>3. QED BY <2>1, <2>2
<1>9. ASSUME NEW j \in Jobs, HandleJobResult(c, j) PROVE TypeInv'
  BY <1>9 DEF HandleJobResult
<1>10. CASE SocketEnds(c)
  BY <1>10 DEF SocketEnds
<1>11. CASE ReaderRemoves(c)
  <2>1. /\ sessions' \in [Nodes -> Conns \cup {None}]
        /\ \A d \in Conns : reader[d] = "ponging" => sessions'[node_id[d]] \in Conns
    <3> HIDE DEF TypeInv
    <3>1. node_id[c] \in Nodes
      BY <1>11 DEF ReaderRemoves, RemoveSession, TypeInv
    <3>2. QED BY <1>11, <3>1, RemoveTyped DEF ReaderRemoves, RemoveSession
  <2>2. \E to \in {"pruning", "gone", "aborting"} : reader' = [reader EXCEPT ![c] = to]
    BY <1>11 DEF ReaderRemoves, RemoveSession, AfterRemoval
  <2>3. QED BY <1>11, <2>1, <2>2 DEF ReaderRemoves, RemoveSession
<1>12. CASE ReaderPrunes(c)
  <2>1. capability_index' \in [Kinds -> SUBSET Nodes]
    BY <1>12 DEF ReaderPrunes, PruneIndex
  <2>2. \E to \in {"gone", "aborting"} : reader' = [reader EXCEPT ![c] = to]
    BY <1>12 DEF ReaderPrunes, AfterRemoval
  <2>3. QED BY <1>12, <2>1, <2>2 DEF ReaderPrunes
<1>13. CASE AbortHeartbeat(c)
  BY <1>13 DEF AbortHeartbeat
<1>14. CASE JoinWriter(c)
  BY <1>14 DEF JoinWriter
<1> HIDE DEF TypeInv
<1>15. QED
  BY <1>1, <1>2, <1>3, <1>4, <1>5, <1>6, <1>7, <1>8, <1>9, <1>10, <1>11, <1>12, <1>13, <1>14
  DEF ReaderStep, Cleanup

LEMMA TasksTypeStep ==
    ASSUME TypeInv, NEW c \in Conns, WriteFrame(c) \/ WriterCloses(c) \/ HeartbeatStep(c)
    PROVE  TypeInv'
<1> USE BoundAssumption, NoneAssumption
    DEF TypeInv, TypeOK, Known, Pulse, ReaderSteps,
        registry, connVars, pulse, channel, jobVars, At
<1>1. CASE WriteFrame(c)
  <2>1. /\ Tail(outbox[c]) \in Seq(Frames)
        /\ Len(Tail(outbox[c])) <= OutboxSize
    BY <1>1 DEF WriteFrame
  <2>2. handler' \in [Jobs -> {"none", "running", "replied"}]
    BY <1>1 DEF WriteFrame
  <2>3. QED BY <1>1, <2>1, <2>2 DEF WriteFrame
<1>2. CASE WriterCloses(c)
  BY <1>2 DEF WriterCloses
<1>3. CASE SendPing(c)
  <2>1. /\ outbox' \in [Conns -> Seq(Frames)]
        /\ \A d \in Conns : Len(outbox'[d]) <= OutboxSize
    <3> HIDE DEF TypeOK
    <3>1. QED BY <1>3, SendTyped, FramesTyped DEF SendPing
  <2>2. QED BY <1>3, <2>1 DEF SendPing
<1>4. CASE PingFails(c)
  BY <1>4 DEF PingFails
<1>5. CASE CountMiss(c)
  BY <1>5 DEF CountMiss, Expires
<1>6. CASE HeartbeatRemoves(c)
  <2>1. /\ sessions' \in [Nodes -> Conns \cup {None}]
        /\ \A d \in Conns : reader[d] = "ponging" => sessions'[node_id[d]] \in Conns
    <3> HIDE DEF TypeInv
    <3>1. node_id[c] \in Nodes
      BY <1>6 DEF HeartbeatRemoves, RemoveSession, TypeInv
    <3>2. QED BY <1>6, <3>1, RemoveTyped DEF HeartbeatRemoves, RemoveSession
  <2>2. \E to \in {"purging", "stopped"} : heartbeat' = [heartbeat EXCEPT ![c] = to]
    BY <1>6 DEF HeartbeatRemoves, RemoveSession
  <2>3. QED BY <1>6, <2>1, <2>2 DEF HeartbeatRemoves, RemoveSession
<1>7. CASE HeartbeatPrunes(c)
  <2>1. capability_index' \in [Kinds -> SUBSET Nodes]
    BY <1>7 DEF HeartbeatPrunes, PruneIndex
  <2>2. QED BY <1>7, <2>1 DEF HeartbeatPrunes
<1> HIDE DEF TypeInv
<1>8. QED BY <1>1, <1>2, <1>3, <1>4, <1>5, <1>6, <1>7 DEF HeartbeatStep

LEMMA JobTypeStep ==
    ASSUME TypeInv, NEW j \in Jobs, JobStep(j)
    PROVE  TypeInv'
<1> USE BoundAssumption, NoneAssumption
    DEF TypeInv, TypeOK, Known, Pulse, ReaderSteps,
        registry, connVars, pulse, channel, jobVars, At
<1>1. ASSUME NEW k \in Kinds, FindKind(j, k) PROVE TypeInv'
  <2>1. \E to \in {"unsent", "scanning"} : job' = [job EXCEPT ![j] = to]
    BY <1>1 DEF FindKind
  <2>2. QED BY <1>1, <2>1 DEF FindKind
<1>2. ASSUME NEW n \in Nodes, ScanNode(j, n) PROVE TypeInv'
  <2>1. CASE sessions[n] # None
    <3>1. /\ sessions[n] \in Conns
          /\ job' = [job EXCEPT ![j] = "resolved"]
          /\ owner' = [owner EXCEPT ![j] = sessions[n]]
          /\ scan' = [scan EXCEPT ![j] = {}]
      BY <1>2, <2>1 DEF ScanNode
    <3>2. QED BY <1>2, <3>1 DEF ScanNode
  <2>2. CASE sessions[n] = None
    <3>1. /\ \E to \in {"unsent", "scanning"} : job' = [job EXCEPT ![j] = to]
          /\ scan' = [scan EXCEPT ![j] = @ \ {n}] /\ owner' = owner
      BY <1>2, <2>2 DEF ScanNode
    <3>2. QED BY <1>2, <3>1 DEF ScanNode
  <2>3. QED BY <2>1, <2>2
<1>3. CASE InsertPending(j)
  BY <1>3 DEF InsertPending
<1>4. CASE SendJob(j)
  <2>1. /\ outbox' \in [Conns -> Seq(Frames)]
        /\ \A c \in Conns : Len(outbox'[c]) <= OutboxSize
    <3>1. owner[j] \in Conns /\ Send(owner[j], DispatchJob(j))
      BY <1>4 DEF SendJob
    <3> HIDE DEF TypeOK
    <3>2. QED BY <3>1, SendTyped, FramesTyped
  <2>2. QED BY <1>4, <2>1 DEF SendJob
<1>5. CASE SendFails(j)
  BY <1>5 DEF SendFails
<1>6. CASE ReceiveResult(j)
  BY <1>6 DEF ReceiveResult
<1>7. CASE Timeout(j)
  BY <1>7 DEF Timeout
<1>8. CASE DropJob(j)
  <2>1. \E to \in {"abandoned", "dropped"} : job' = [job EXCEPT ![j] = to]
    BY <1>8 DEF DropJob
  <2>2. QED BY <1>8, <2>1 DEF DropJob
<1> HIDE DEF TypeInv
<1>9. QED BY <1>1, <1>2, <1>3, <1>4, <1>5, <1>6, <1>7, <1>8 DEF JobStep

LEMMA TypeInvariant == Spec => []TypeInv
<1>1. Init => TypeInv
  BY BoundAssumption DEF Init, TypeInv, TypeOK, Known, Pulse, ReaderSteps
<1>2. TypeInv /\ [Next]_vars => TypeInv'
  <2>1. TypeInv /\ UNCHANGED vars => TypeInv'
    BY DEF vars, TypeInv, TypeOK, Known, Pulse, registry, connVars, pulse, channel, jobVars
  <2>2. QED BY <2>1, ReaderTypeStep, TasksTypeStep, JobTypeStep DEF Next
<1>3. QED BY <1>1, <1>2, PTL DEF Spec

\* The variables keep their types: no connection counts more misses than the
\* threshold, and no outbox holds more than its channel can.
THEOREM TypeCorrect == Spec => []TypeOK
BY TypeInvariant, PTL DEF TypeInv

-----------------------------------------------------------------------------
(* The registry.  A registration holds the shard of its node from the check *)
(* that the id is free to the insert, so until then nobody else has it; and *)
(* a session leaves the map no later than its own connection takes it out.  *)

RegistrationIsAlone ==
    \A c \in Conns : reader[c] = "indexing" =>
        /\ sessions[node_id[c]] = None
        /\ \A d \in Conns : reader[d] = "indexing" /\ Shard[node_id[d]] = Shard[node_id[c]] => d = c

RegistryInv == RegisteredIsServing /\ IndexedIsKnown /\ RegistrationIsAlone

Serving == {"acking", "reading", "ponging", "removing"}

RegistryTyped ==
    /\ sessions \in [Nodes -> Conns \cup {None}]
    /\ capability_index \in [Kinds -> SUBSET Nodes]
    /\ node_id \in [Conns -> Nodes \cup {None}]
    /\ advert \in [Conns -> SUBSET Kinds]
    /\ reader \in [Conns -> ReaderSteps]
    /\ heartbeat \in [Conns -> {"stopped", "ticking", "counting", "expired", "purging"}]
    /\ \A c \in Conns : reader[c] \notin {"undialed", "gone"} => node_id[c] \in Nodes

LEMMA RegistryTypes == TypeInv => RegistryTyped
BY DEF TypeInv, TypeOK, Known, RegistryTyped

\* The other steps of a connection leave what the registry says of it true.
LEMMA RegistryIsKept ==
    ASSUME TypeInv, RegistryInv, NEW c \in Conns,
           UNCHANGED <<sessions, capability_index, node_id, advert>>,
           \A d \in Conns : heartbeat[d] = "purging" => heartbeat'[d] = "purging",
           \A d \in Conns : d # c => reader'[d] = reader[d],
           reader[c] \notin {"indexing", "pruning"}, reader'[c] # "indexing",
           reader[c] \in Serving => reader'[c] \in Serving
    PROVE  RegistryInv'
<1> RegistryTyped
  BY RegistryTypes
<1>1. RegisteredIsServing'
  BY DEF RegistryInv, RegisteredIsServing, Serving, RegistryTyped
<1>2. RegistrationIsAlone'
  BY DEF RegistryInv, RegistrationIsAlone
<1>3. \A n \in Nodes : Pruning(n) => Pruning(n)'
  BY DEF Pruning
<1>4. IndexedIsKnown'
  BY <1>3 DEF RegistryInv, IndexedIsKnown, RegistryTyped
<1>5. QED BY <1>1, <1>2, <1>4 DEF RegistryInv

\* Who takes a session out of the map is on the way to the index.
LEMMA RemovalIsFollowed ==
    ASSUME TypeInv, RegistryInv, NEW c \in Conns, node_id[c] \in Nodes, ~ Registering(node_id[c]),
           \A d \in Conns : reader'[d] = reader[d] \/ (d = c /\ reader[c] = "removing"),
           reader'[c] # "indexing",
           \A d \in Conns : heartbeat[d] = "purging" => heartbeat'[d] = "purging",
           sessions[node_id[c]] # None => reader'[c] = "pruning" \/ heartbeat'[c] = "purging",
           sessions' = [sessions EXCEPT ![node_id[c]] = None],
           UNCHANGED <<capability_index, node_id, advert>>,
           \A n \in Nodes : sessions'[n] # c \/ reader'[c] = reader[c]
    PROVE  RegistryInv'
<1> RegistryTyped
  BY RegistryTypes
<1> USE DEF RegistryTyped, RegistryInv
<1>1. \A n \in Nodes : sessions'[n] = IF n = node_id[c] THEN None ELSE sessions[n]
  OBVIOUS
<1>2. RegisteredIsServing'
  BY <1>1, NoneAssumption DEF RegisteredIsServing
<1>3. \A n \in Nodes : Pruning(n) => Pruning(n)'
  BY DEF Pruning
<1>4. sessions[node_id[c]] # None => Pruning(node_id[c])'
  BY DEF Pruning
<1>5. IndexedIsKnown'
  BY <1>1, <1>3, <1>4 DEF IndexedIsKnown
<1>6. RegistrationIsAlone'
  BY <1>1, NoneAssumption DEF RegistrationIsAlone
<1>7. QED BY <1>2, <1>5, <1>6

\* Whoever prunes the index of a node has nothing more to do for it, and nobody
\* else needs to have.
LEMMA PruningIsComplete ==
    ASSUME TypeInv, RegistryInv, NEW c \in Conns, node_id[c] \in Nodes, PruneIndex(node_id[c]),
           \A d \in Conns : reader'[d] = reader[d] \/ (d = c /\ reader[c] = "pruning"),
           reader'[c] # "indexing",
           \A d \in Conns : d # c => heartbeat'[d] = heartbeat[d],
           UNCHANGED <<sessions, node_id, advert>>
    PROVE  RegistryInv'
<1> RegistryTyped
  BY RegistryTypes
<1> USE DEF RegistryTyped, RegistryInv
<1>1. \A k \in Kinds : capability_index'[k] = capability_index[k] \ {node_id[c]}
  BY DEF PruneIndex
<1>2. RegisteredIsServing'
  BY NoneAssumption DEF RegisteredIsServing
<1>3. \A n \in Nodes : Pruning(n) /\ n # node_id[c] => Pruning(n)'
  BY DEF Pruning
<1>4. IndexedIsKnown'
  BY <1>1, <1>3 DEF IndexedIsKnown
<1>5. RegistrationIsAlone'
  BY DEF RegistrationIsAlone
<1>6. QED BY <1>2, <1>4, <1>5

LEMMA RegistryReaderStep ==
    ASSUME TypeInv, RegistryInv, NEW c \in Conns, ReaderStep(c)
    PROVE  RegistryInv'
<1> RegistryTyped
  BY RegistryTypes
<1> USE NoneAssumption DEF At
<1>1. ASSUME NEW n \in Nodes, NEW caps \in Adverts, RegisterSession(c, n, caps)
      PROVE  RegistryInv'
  <2>1. /\ reader[c] = "undialed" /\ heartbeat[c] = "stopped" /\ ~ Registering(n)
        /\ UNCHANGED <<sessions, capability_index, heartbeat>>
    BY <1>1 DEF RegisterSession, TypeInv, Pulse, registry, pulse
  <2>2. CASE At(reader, c, "undialed", "indexing")
    <3>1. /\ reader' = [reader EXCEPT ![c] = "indexing"] /\ sessions[n] = None
          /\ node_id' = [node_id EXCEPT ![c] = n]
          /\ advert' = [advert EXCEPT ![c] = caps]
      BY <1>1, <2>1, <2>2 DEF RegisterSession, RegistryTyped
    <3> USE DEF RegistryTyped, RegistryInv
    <3>2. RegisteredIsServing'
      BY <2>1, <3>1 DEF RegisteredIsServing
    <3>3. ASSUME NEW m \in Nodes, Pruning(m) PROVE Pruning(m)'
      <4>1. PICK d \in Conns : node_id[d] = m /\ (reader[d] = "pruning" \/ heartbeat[d] = "purging")
        BY <3>3 DEF Pruning
      <4>2. d # c
        BY <2>1, <4>1
      <4>3. QED BY <2>1, <3>1, <4>1, <4>2 DEF Pruning
    <3>4. ASSUME NEW k \in Kinds, NEW m \in Nodes,
                 NEW d \in Conns, reader[d] = "indexing", node_id[d] = m, k \notin advert[d]
          PROVE  reader'[d] = "indexing" /\ node_id'[d] = m /\ k \notin advert'[d]
      BY <2>1, <3>1, <3>4
    <3>5. IndexedIsKnown'
      BY <2>1, <3>3, <3>4 DEF IndexedIsKnown
    <3>6. RegistrationIsAlone'
      BY <2>1, <3>1 DEF RegistrationIsAlone, Registering
    <3>7. QED BY <3>2, <3>5, <3>6
  <2>3. CASE At(reader, c, "undialed", "gone")
    <3>1. /\ reader' = [reader EXCEPT ![c] = "gone"]
          /\ UNCHANGED <<node_id, advert>>
      BY <1>1, <2>1, <2>3 DEF RegisterSession, RegistryTyped
    <3>2. /\ reader'[c] = "gone"
          /\ \A d \in Conns : d # c => reader'[d] = reader[d]
      BY <3>1 DEF RegistryTyped
    <3>3. QED BY <2>1, <3>1, <3>2, RegistryIsKept DEF Serving
  <2>4. QED BY <1>1, <2>2, <2>3 DEF RegisterSession
<1>2. ASSUME NEW k \in Kinds, IndexCapability(c, k) PROVE RegistryInv'
  <2>1. /\ node_id[c] \in Nodes /\ reader[c] = "indexing"
        /\ capability_index' = [capability_index EXCEPT ![k] = @ \cup {node_id[c]}]
        /\ advert' = [advert EXCEPT ![c] = @ \ {k}]
        /\ UNCHANGED <<sessions, node_id, reader, heartbeat>>
    BY <1>2 DEF IndexCapability, RegistryTyped, pulse
  <2> USE DEF RegistryTyped, RegistryInv
  <2>2. RegisteredIsServing' /\ RegistrationIsAlone'
    BY <2>1 DEF RegisteredIsServing, RegistrationIsAlone
  <2>3. \A m \in Nodes : Pruning(m) => Pruning(m)'
    BY <2>1 DEF Pruning
  <2>4. /\ \A i \in Kinds, d \in Conns : i \notin advert[d] => i \notin advert'[d]
        /\ k \notin advert'[c]
    BY <2>1
  <2>5. \A i \in Kinds : \A m \in capability_index'[i] :
            m \in capability_index[i] \/ (i = k /\ m = node_id[c])
    BY <2>1
  <2>6. IndexedIsKnown'
    BY <2>1, <2>3, <2>4, <2>5 DEF IndexedIsKnown
  <2>7. QED BY <2>2, <2>6
<1>3. CASE InsertSession(c)
  <2>1. /\ reader[c] = "indexing" /\ reader' = [reader EXCEPT ![c] = "acking"]
        /\ node_id[c] \in Nodes /\ sessions' = [sessions EXCEPT ![node_id[c]] = c]
        /\ UNCHANGED <<capability_index, node_id, advert, heartbeat>>
    BY <1>3 DEF InsertSession, RegistryTyped, pulse
  <2> USE DEF RegistryTyped, RegistryInv
  <2>2. RegisteredIsServing'
    BY <2>1 DEF RegisteredIsServing
  <2>3. RegistrationIsAlone'
    BY <2>1 DEF RegistrationIsAlone
  <2>4. IndexedIsKnown'
    BY <2>1 DEF IndexedIsKnown, Pruning
  <2>5. QED BY <2>2, <2>3, <2>4
<1>4. CASE ReaderRemoves(c)
  <2>1. /\ node_id[c] \in Nodes /\ ~ Registering(node_id[c]) /\ reader[c] = "removing"
        /\ sessions' = [sessions EXCEPT ![node_id[c]] = None]
        /\ reader' = [reader EXCEPT ![c] = IF sessions[node_id[c]] = None THEN AfterRemoval(c) ELSE "pruning"]
        /\ UNCHANGED <<capability_index, node_id, advert, heartbeat>>
    BY <1>4 DEF ReaderRemoves, RemoveSession, RegistryTyped, pulse
  <2>2. /\ \A d \in Conns : reader'[d] = reader[d] \/ (d = c /\ reader[c] = "removing")
        /\ reader'[c] \in {"pruning", "gone", "aborting"}
    BY <2>1 DEF AfterRemoval, RegistryTyped
  <2>3. \A n \in Nodes : sessions'[n] # c
    BY <2>1 DEF RegistryTyped, RegistryInv, RegisteredIsServing
  <2>4. sessions[node_id[c]] # None => reader'[c] = "pruning"
    BY <2>1 DEF RegistryTyped
  <2>5. QED BY <2>1, <2>2, <2>3, <2>4, RemovalIsFollowed
<1>5. CASE ReaderPrunes(c)
  <2>1. /\ node_id[c] \in Nodes /\ reader[c] = "pruning" /\ PruneIndex(node_id[c])
        /\ reader' = [reader EXCEPT ![c] = AfterRemoval(c)]
        /\ UNCHANGED <<sessions, node_id, advert, heartbeat>>
    BY <1>5 DEF ReaderPrunes, RegistryTyped, pulse
  <2>2. /\ \A d \in Conns : reader'[d] = reader[d] \/ (d = c /\ reader[c] = "pruning")
        /\ reader'[c] # "indexing"
    BY <2>1 DEF AfterRemoval, RegistryTyped
  <2>3. QED BY <2>1, <2>2, PruningIsComplete
<1>6. CASE StartTasks(c) \/ AckFails(c) \/ HandleFrame(c) \/ HandlePing(c) \/ SendPong(c)
           \/ (\E j \in Jobs : HandleJobResult(c, j)) \/ SocketEnds(c) \/ AbortHeartbeat(c)
           \/ JoinWriter(c)
  <2>1. /\ UNCHANGED <<sessions, capability_index, node_id, advert>>
        /\ \A d \in Conns : heartbeat[d] = "purging" => heartbeat'[d] = "purging"
        /\ \/ reader' = reader
           \/ reader' = [reader EXCEPT ![c] = "reading"] /\ reader[c] \in {"acking", "ponging"}
           \/ reader' = [reader EXCEPT ![c] = "ponging"] /\ reader[c] = "reading"
           \/ reader' = [reader EXCEPT ![c] = "removing"] /\ reader[c] \in {"acking", "reading"}
           \/ reader' = [reader EXCEPT ![c] = "joining"] /\ reader[c] = "aborting"
           \/ reader' = [reader EXCEPT ![c] = "gone"] /\ reader[c] = "joining"
    BY <1>6 DEF StartTasks, AckFails, HandleFrame, HandlePing, SendPong, HandleJobResult,
                SocketEnds, AbortHeartbeat, JoinWriter, registry, pulse, connVars, RegistryTyped
  <2>2. /\ \A d \in Conns : d # c => reader'[d] = reader[d]
        /\ reader'[c] # reader[c] =>
              /\ reader[c] \notin {"indexing", "pruning"} /\ reader'[c] # "indexing"
              /\ reader[c] \in Serving => reader'[c] \in Serving
    BY <2>1 DEF Serving, RegistryTyped
  <2>3. CASE reader'[c] # reader[c]
    BY <2>1, <2>2, <2>3, RegistryIsKept
  <2>4. CASE reader'[c] = reader[c]
    <3>1. reader' = reader
      BY <2>1, <2>4 DEF RegistryTyped
    <3>2. QED BY <2>1, <3>1 DEF RegistryInv, RegisteredIsServing, IndexedIsKnown, RegistrationIsAlone, Pruning
  <2>5. QED BY <2>3, <2>4
<1>7. QED BY <1>1, <1>2, <1>3, <1>4, <1>5, <1>6 DEF ReaderStep, Cleanup

LEMMA RegistryHeartbeatStep ==
    ASSUME TypeInv, RegistryInv, NEW c \in Conns, HeartbeatStep(c)
    PROVE  RegistryInv'
<1> RegistryTyped
  BY RegistryTypes
<1> USE DEF At
<1>1. CASE HeartbeatRemoves(c)
  <2>1. /\ node_id[c] \in Nodes /\ ~ Registering(node_id[c]) /\ heartbeat[c] = "expired"
        /\ sessions' = [sessions EXCEPT ![node_id[c]] = None]
        /\ heartbeat' = [heartbeat EXCEPT ![c] = IF sessions[node_id[c]] = None THEN "stopped" ELSE "purging"]
        /\ UNCHANGED <<capability_index, node_id, advert, reader>>
    BY <1>1 DEF HeartbeatRemoves, RemoveSession, TypeInv, Known, connVars
  <2>2. /\ \A d \in Conns : heartbeat[d] = "purging" => heartbeat'[d] = "purging"
        /\ sessions[node_id[c]] # None => heartbeat'[c] = "purging"
        /\ reader'[c] # "indexing"
    BY <2>1 DEF TypeInv, Pulse, RegistryTyped
  <2>3. QED BY <2>1, <2>2, RemovalIsFollowed
<1>2. CASE HeartbeatPrunes(c)
  <2>1. /\ node_id[c] \in Nodes /\ heartbeat[c] = "purging" /\ PruneIndex(node_id[c])
        /\ heartbeat' = [heartbeat EXCEPT ![c] = "stopped"]
        /\ UNCHANGED <<sessions, node_id, advert, reader>>
    BY <1>2 DEF HeartbeatPrunes, TypeInv, Known, connVars
  <2>2. reader'[c] # "indexing" /\ \A d \in Conns : d # c => heartbeat'[d] = heartbeat[d]
    BY <2>1 DEF TypeInv, Pulse, RegistryTyped
  <2>3. QED BY <2>1, <2>2, PruningIsComplete
<1>3. CASE SendPing(c) \/ PingFails(c) \/ CountMiss(c)
  <2>1. /\ UNCHANGED <<sessions, capability_index, node_id, advert, reader>>
        /\ \A d \in Conns : heartbeat[d] = "purging" => heartbeat'[d] = "purging"
    BY <1>3 DEF SendPing, PingFails, CountMiss, registry, connVars, RegistryTyped
  <2>2. RegisteredIsServing' /\ RegistrationIsAlone'
    BY <2>1 DEF RegistryInv, RegisteredIsServing, RegistrationIsAlone
  <2>3. IndexedIsKnown'
    BY <2>1 DEF RegistryInv, IndexedIsKnown, Pruning
  <2>4. QED BY <2>2, <2>3 DEF RegistryInv
<1>4. QED BY <1>1, <1>2, <1>3 DEF HeartbeatStep

LEMMA RegistryInvariant == Spec => []RegistryInv
<1>1. Init => RegistryInv
  BY DEF Init, RegistryInv, RegisteredIsServing, IndexedIsKnown, RegistrationIsAlone
<1>2. TypeInv /\ RegistryInv /\ [Next]_vars => RegistryInv'
  <2> SUFFICES ASSUME TypeInv, RegistryInv, [Next]_vars PROVE RegistryInv'
    OBVIOUS
  <2>1. CASE UNCHANGED <<registry, connVars, heartbeat>>
    BY <2>1 DEF RegistryInv, RegisteredIsServing, IndexedIsKnown, RegistrationIsAlone, Pruning,
                registry, connVars
  <2>2. ASSUME NEW j \in Jobs, JobStep(j) PROVE UNCHANGED <<registry, connVars, heartbeat>>
    BY <2>2 DEF JobStep, FindKind, ScanNode, InsertPending, SendJob, SendFails, ReceiveResult,
                Timeout, DropJob, pulse
  <2>3. ASSUME NEW c \in Conns, WriteFrame(c) \/ WriterCloses(c)
        PROVE  UNCHANGED <<registry, connVars, heartbeat>>
    BY <2>3 DEF WriteFrame, WriterCloses, pulse
  <2>4. UNCHANGED vars => UNCHANGED <<registry, connVars, heartbeat>>
    BY DEF vars, pulse
  <2>5. QED BY <2>1, <2>2, <2>3, <2>4, RegistryReaderStep, RegistryHeartbeatStep DEF Next
<1>3. QED BY <1>1, <1>2, TypeInvariant, PTL DEF Spec

\* However connections of one node overlap, a dispatch is never handed a session that
\* its own connection has removed, and no node stays in the index without a session
\* unless somebody is about to insert one or to prune it (register_session,
\* remove_session).
THEOREM RegistryHolds == Spec => []RegistryIsSound
BY TypeCorrect, RegistryInvariant, PTL DEF RegistryInv, RegistryIsSound

-----------------------------------------------------------------------------
(* The locks.  A lookup holds the entry of its kind, so the ids it has yet  *)
(* to look up are still in it.                                              *)

ScansAreLocked == \A j \in Jobs : job[j] = "scanning" => scan[j] \subseteq capability_index[kind[j]]

LEMMA ScanJobStep ==
    ASSUME TypeInv, ScansAreLocked, NEW j \in Jobs, JobStep(j)
    PROVE  ScansAreLocked'
<1>1. /\ job \in [Jobs -> {"idle", "scanning", "resolved", "sending", "waiting", "answered",
                         "timed_out", "unsent", "abandoned", "dropped"}]
      /\ kind \in [Jobs -> Kinds \cup {None}] /\ scan \in [Jobs -> SUBSET Nodes]
      /\ capability_index' = capability_index
  BY DEF TypeInv, TypeOK, JobStep, FindKind, ScanNode, InsertPending, SendJob, SendFails,
         ReceiveResult, Timeout, DropJob, registry
<1> USE DEF ScansAreLocked, At
<1>2. ASSUME NEW k \in Kinds, FindKind(j, k) PROVE ScansAreLocked'
  BY <1>1, <1>2 DEF FindKind
<1>3. ASSUME NEW n \in Nodes, ScanNode(j, n) PROVE ScansAreLocked'
  <2>1. /\ job[j] = "scanning" /\ scan'[j] \subseteq scan[j] /\ kind' = kind
        /\ \A i \in Jobs : i # j => scan'[i] = scan[i] /\ job'[i] = job[i]
    BY <1>1, <1>3 DEF ScanNode
  <2>2. QED BY <1>1, <2>1
<1>4. CASE InsertPending(j) \/ SendJob(j) \/ SendFails(j) \/ ReceiveResult(j) \/ Timeout(j)
           \/ DropJob(j)
  <2>1. UNCHANGED <<kind, scan>> /\ \A i \in Jobs : job'[i] = "scanning" => job[i] = "scanning"
    BY <1>1, <1>4 DEF InsertPending, SendJob, SendFails, ReceiveResult, Timeout, DropJob
  <2>2. QED BY <1>1, <2>1
<1>5. QED BY <1>2, <1>3, <1>4 DEF JobStep

LEMMA ScanConnStep ==
    ASSUME TypeInv, ScansAreLocked, NEW c \in Conns,
           ReaderStep(c) \/ WriteFrame(c) \/ WriterCloses(c) \/ HeartbeatStep(c)
    PROVE  ScansAreLocked'
<1>1. UNCHANGED <<job, kind, scan>>
  BY DEF ReaderStep, HeartbeatStep, Cleanup, RegisterSession, IndexCapability, InsertSession,
         StartTasks, AckFails, HandleFrame, HandlePing, SendPong, HandleJobResult, SocketEnds,
         ReaderRemoves, ReaderPrunes, AbortHeartbeat, JoinWriter, WriteFrame, WriterCloses,
         SendPing, PingFails, CountMiss, HeartbeatRemoves, HeartbeatPrunes, jobVars
<1>2. CASE UNCHANGED capability_index
  BY <1>1, <1>2 DEF ScansAreLocked
<1>3. ASSUME NEW k \in Kinds, IndexCapability(c, k) PROVE ScansAreLocked'
  <2>1. \A i \in Kinds : capability_index[i] \subseteq capability_index'[i]
    BY <1>3 DEF IndexCapability, TypeInv, TypeOK
  <2>2. QED BY <1>1, <2>1 DEF ScansAreLocked, TypeInv, Known
<1>4. ASSUME NEW n, PruneIndex(n) PROVE ScansAreLocked'
  <2>1. \A j \in Jobs : job[j] # "scanning"
    BY <1>4 DEF PruneIndex, Scanned, TypeInv, Known
  <2>2. QED BY <1>1, <2>1 DEF ScansAreLocked
<1>5. QED
  BY <1>2, <1>3, <1>4
  DEF ReaderStep, HeartbeatStep, Cleanup, RegisterSession, InsertSession, StartTasks, AckFails,
      HandleFrame, HandlePing, SendPong, HandleJobResult, SocketEnds, ReaderRemoves,
      ReaderPrunes, AbortHeartbeat, JoinWriter, WriteFrame, WriterCloses, SendPing, PingFails,
      CountMiss, HeartbeatRemoves, HeartbeatPrunes, registry

LEMMA ScanInvariant == Spec => []ScansAreLocked
<1>1. Init => ScansAreLocked
  BY DEF Init, ScansAreLocked
<1>2. TypeInv /\ ScansAreLocked /\ [Next]_vars => ScansAreLocked'
  <2>1. ScansAreLocked /\ UNCHANGED vars => ScansAreLocked'
    BY DEF ScansAreLocked, vars, registry, jobVars
  <2>2. QED BY <2>1, ScanJobStep, ScanConnStep DEF Next
<1>3. QED BY <1>1, <1>2, TypeInvariant, PTL DEF Spec

\* A dispatch and a registration that wait for each other have met in a collision, of two
\* nodes in a shard of sessions or of two kinds in a shard of the index, or the node
\* registers again before its old session is out of the index: otherwise the dispatch
\* would have found the node under a kind that it has not been indexed for.
THEOREM LocksHold == Spec => []LocksMeetOnlyInCollisions
<1>1. TypeInv /\ RegistryInv /\ ScansAreLocked => LocksMeetOnlyInCollisions
  <2> SUFFICES ASSUME TypeInv, RegistryInv, ScansAreLocked, NEW j \in Jobs, NEW c \in Conns,
                      Deadlocked(j, c),
                      ~ \E n \in scan[j] : n # node_id[c] /\ Shard[node_id[c]] = Shard[n],
                      ~ \E k \in advert[c] : k # kind[j] /\ IndexShard[kind[j]] = IndexShard[k]
               PROVE  Pruning(node_id[c])
    BY DEF LocksMeetOnlyInCollisions
  <2>1. /\ reader[c] = "indexing" /\ node_id[c] \in scan[j] /\ kind[j] \in advert[c]
        /\ job[j] = "scanning"
    BY DEF Deadlocked
  <2>2. PICK n \in Nodes : n = node_id[c] /\ n \in capability_index[kind[j]] /\ kind[j] \in Kinds
    BY <2>1 DEF TypeInv, TypeOK, Known, ScansAreLocked
  <2>3. sessions[n] = None
    BY <2>1, <2>2 DEF RegistryInv, RegistrationIsAlone
  <2>4. ASSUME NEW d \in Conns, reader[d] = "indexing", node_id[d] = n, kind[j] \notin advert[d]
        PROVE  FALSE
    BY <2>1, <2>2, <2>4 DEF RegistryInv, RegistrationIsAlone
  <2>5. QED BY <2>2, <2>3, <2>4 DEF RegistryInv, IndexedIsKnown
<1>2. QED BY <1>1, TypeInvariant, RegistryInvariant, ScanInvariant, PTL

-----------------------------------------------------------------------------
(* The waiters.  A waiter is in the map from the insert of its dispatch to  *)
(* its answer or its return, and one that was dropped to its answer.        *)

WaiterInv ==
    /\ WaitersBelongToJobs
    /\ UnansweredJobsAreReachable
    /\ \A j \in pending_jobs : reply[j] = "none"
    /\ \A j \in Jobs : job[j] \in {"idle", "scanning", "resolved"} => reply[j] = "none"

WaitersTyped ==
    /\ pending_jobs \subseteq Jobs
    /\ job \in [Jobs -> {"idle", "scanning", "resolved", "sending", "waiting", "answered",
                       "timed_out", "unsent", "abandoned", "dropped"}]
    /\ reply \in [Jobs -> {"none", "answered"}]

LEMMA WaiterTypes == TypeInv => WaitersTyped
BY DEF TypeInv, TypeOK, WaitersTyped

LEMMA WaiterJobStep ==
    ASSUME WaitersTyped, WaiterInv, NEW j \in Jobs, JobStep(j)
    PROVE  WaiterInv'
<1> USE DEF WaitersTyped, WaiterInv, WaitersBelongToJobs, UnansweredJobsAreReachable, At
<1>1. ASSUME NEW k \in Kinds, FindKind(j, k) PROVE WaiterInv'
  <2>1. /\ UNCHANGED <<pending_jobs, reply>> /\ job[j] = "idle"
        /\ \E to \in {"scanning", "unsent"} : job' = [job EXCEPT ![j] = to]
    BY <1>1 DEF FindKind
  <2>2. QED BY <2>1
<1>2. ASSUME NEW n \in Nodes, ScanNode(j, n) PROVE WaiterInv'
  <2>1. /\ UNCHANGED <<pending_jobs, reply>> /\ job[j] = "scanning"
        /\ \E to \in {"scanning", "resolved", "unsent"} : job' = [job EXCEPT ![j] = to]
    BY <1>2 DEF ScanNode
  <2>2. QED BY <2>1
<1>3. CASE InsertPending(j)
  BY <1>3 DEF InsertPending
<1>4. CASE SendJob(j)
  BY <1>4 DEF SendJob
<1>5. CASE SendFails(j)
  BY <1>5 DEF SendFails
<1>6. CASE ReceiveResult(j)
  BY <1>6 DEF ReceiveResult
<1>7. CASE Timeout(j)
  BY <1>7 DEF Timeout
<1>8. CASE DropJob(j)
  BY <1>8 DEF DropJob
<1> HIDE DEF WaiterInv
<1>9. QED BY <1>1, <1>2, <1>3, <1>4, <1>5, <1>6, <1>7, <1>8 DEF JobStep

LEMMA WaiterInvariant == Spec => []WaiterInv
<1>1. Init => WaiterInv
  BY DEF Init, WaiterInv, WaitersBelongToJobs, UnansweredJobsAreReachable
<1>2. TypeInv /\ WaiterInv /\ [Next]_vars => WaiterInv'
  <2> SUFFICES ASSUME TypeInv, WaiterInv, [Next]_vars PROVE WaiterInv'
    OBVIOUS
  <2>1. WaitersTyped
    BY WaiterTypes
  <2>2. ASSUME NEW c \in Conns, NEW j \in Jobs, HandleJobResult(c, j) PROVE WaiterInv'
    BY <2>1, <2>2
    DEF HandleJobResult, WaitersTyped, WaiterInv, WaitersBelongToJobs, UnansweredJobsAreReachable
  <2>3. CASE UNCHANGED <<pending_jobs, job, reply>>
    BY <2>3 DEF WaiterInv, WaitersBelongToJobs, UnansweredJobsAreReachable
  <2>4. UNCHANGED vars => UNCHANGED <<pending_jobs, job, reply>>
    BY DEF vars, jobVars
  <2>5. ASSUME NEW c \in Conns,
               ReaderStep(c) \/ WriteFrame(c) \/ WriterCloses(c) \/ HeartbeatStep(c),
               ~ \E j \in Jobs : HandleJobResult(c, j)
        PROVE  UNCHANGED <<pending_jobs, job, reply>>
    BY <2>5
    DEF ReaderStep, HeartbeatStep, Cleanup, RegisterSession, IndexCapability, InsertSession,
        StartTasks, AckFails, HandleFrame, HandlePing, SendPong, SocketEnds, ReaderRemoves,
        ReaderPrunes, AbortHeartbeat, JoinWriter, WriteFrame, WriterCloses, SendPing, PingFails,
        CountMiss, HeartbeatRemoves, HeartbeatPrunes, jobVars
  <2>6. QED BY <2>1, <2>2, <2>3, <2>4, <2>5, WaiterJobStep DEF Next
<1>3. QED BY <1>1, <1>2, TypeInvariant, PTL DEF Spec

\* A dispatch that has returned leaves no waiter behind, and an unanswered one can still be
\* answered, over whichever connection the node answers (dispatch_job, handle_client_frame).
THEOREM NoWaiterLeaksOrIsLost == Spec => []WaitersMatchJobs
BY WaiterInvariant, PTL DEF WaiterInv, WaitersMatchJobs

-----------------------------------------------------------------------------
(* The refinement.  A job in an outbox or on a node was sent, and one that  *)
(* is answered was executed.                                                *)

JobsAreSent ==
    \A c \in Conns, j \in Jobs : \A k \in 1 .. Len(outbox[c]) :
        outbox[c][k] = DispatchJob(j) => j \in SentJobs

PromiseInv ==
    /\ JobsAreSent
    /\ TakenJobs \subseteq SentJobs
    /\ \A j \in Jobs : reply[j] = "answered" => j \in TakenJobs

PromiseTyped ==
    /\ WaitersTyped
    /\ outbox \in [Conns -> Seq(Frames)]
    /\ handler \in [Jobs -> {"none", "running", "replied"}]

LEMMA PromiseTypes == TypeInv => PromiseTyped
BY WaiterTypes DEF TypeInv, TypeOK, PromiseTyped

LEMMA FramesDiffer ==
    ASSUME NEW j, NEW i
    PROVE  /\ DispatchJob(j) # Ping /\ DispatchJob(j) # Pong
           /\ DispatchJob(j) = DispatchJob(i) => j = i
<1>1. DispatchJob(j).kind = "job" /\ Ping.kind = "ping" /\ Pong.kind = "pong"
  BY DEF DispatchJob, Ping, Pong
<1>2. DispatchJob(j).id = j /\ DispatchJob(i).id = i
  BY DEF DispatchJob
<1>3. QED BY <1>1, <1>2

\* What is in an outbox after a Send was there before it, or is what was sent.
LEMMA SendAdds ==
    ASSUME PromiseTyped, NEW c \in Conns, NEW frame, Send(c, frame),
           NEW d \in Conns, NEW k \in 1 .. Len(outbox'[d])
    PROVE  \/ k \in 1 .. Len(outbox[d]) /\ outbox'[d][k] = outbox[d][k]
           \/ outbox'[d][k] = frame
<1>1. outbox' = [outbox EXCEPT ![c] = Append(@, frame)] /\ outbox \in [Conns -> Seq(Frames)]
  BY DEF Send, PromiseTyped
<1>2. CASE d = c
  <2> DEFINE s == outbox[c]
  <2>1. s \in Seq(Frames) /\ outbox'[d] = Append(s, frame)
    BY <1>1, <1>2
  <2>2. /\ Len(Append(s, frame)) = Len(s) + 1 /\ Len(s) \in Nat
        /\ Append(s, frame)[Len(s) + 1] = frame
        /\ \A n \in 1 .. Len(s) : Append(s, frame)[n] = s[n]
    BY <2>1
  <2>3. QED BY <1>2, <2>1, <2>2
<1>3. CASE d # c
  BY <1>1, <1>3
<1>4. QED BY <1>2, <1>3

\* A frame that is written was sent, and starts at most the one job it names.
LEMMA WriteTakes ==
    ASSUME PromiseTyped, PromiseInv, NEW c \in Conns, WriteFrame(c)
    PROVE  /\ JobsAreSent'
           /\ UNCHANGED <<pending_jobs, job, reply>>
           /\ \/ UNCHANGED TakenJobs
              \/ \E j \in SentJobs : TakenJobs' = TakenJobs \cup {j}
<1>1. /\ outbox[c] \in Seq(Frames) /\ outbox[c] # <<>>
      /\ outbox' = [outbox EXCEPT ![c] = Tail(@)] /\ outbox \in [Conns -> Seq(Frames)]
      /\ UNCHANGED <<pending_jobs, job, reply>>
      /\ handler' = [j \in Jobs |-> IF Head(outbox[c]) = DispatchJob(j) THEN "running" ELSE handler[j]]
  BY DEF WriteFrame, PromiseTyped
<1>2. /\ Head(outbox[c]) = outbox[c][1] /\ 1 \in 1 .. Len(outbox[c])
      /\ \A k \in 1 .. Len(Tail(outbox[c])) : /\ k + 1 \in 1 .. Len(outbox[c])
                                             /\ Tail(outbox[c])[k] = outbox[c][k + 1]
  BY <1>1
<1>3. SentJobs' = SentJobs
  BY <1>1 DEF SentJobs
<1>4. JobsAreSent'
  <2> SUFFICES ASSUME NEW d \in Conns, NEW j \in Jobs, NEW k \in 1 .. Len(outbox'[d]),
                      outbox'[d][k] = DispatchJob(j)
               PROVE  j \in SentJobs
    BY <1>3 DEF JobsAreSent
  <2>1. CASE d = c
    BY <1>1, <1>2, <2>1 DEF PromiseInv, JobsAreSent
  <2>2. CASE d # c
    BY <1>1, <2>2 DEF PromiseInv, JobsAreSent
  <2>3. QED BY <2>1, <2>2
<1>5. CASE \E j \in Jobs : Head(outbox[c]) = DispatchJob(j)
  <2>1. PICK j \in Jobs : Head(outbox[c]) = DispatchJob(j)
    BY <1>5
  <2>2. j \in SentJobs
    BY <1>2, <2>1 DEF PromiseInv, JobsAreSent
  <2>3. \A i \in Jobs : handler'[i] = IF i = j THEN "running" ELSE handler[i]
    BY <1>1, <2>1, FramesDiffer
  <2>4. TakenJobs' = TakenJobs \cup {j}
    BY <2>3 DEF TakenJobs
  <2>5. QED BY <1>1, <1>4, <2>2, <2>4
<1>6. CASE ~ \E j \in Jobs : Head(outbox[c]) = DispatchJob(j)
  <2>1. \A i \in Jobs : handler'[i] = handler[i]
    BY <1>1, <1>6
  <2>2. UNCHANGED TakenJobs
    BY <2>1 DEF TakenJobs
  <2>3. QED BY <1>1, <1>4, <2>2
<1>7. QED BY <1>5, <1>6

LEMMA PromiseInvConnStep ==
    ASSUME PromiseTyped, PromiseInv, NEW c \in Conns,
           ReaderStep(c) \/ WriteFrame(c) \/ WriterCloses(c) \/ HeartbeatStep(c),
           reader[c] = "ponging" => sessions[node_id[c]] \in Conns
    PROVE  PromiseInv'
<1>1. CASE WriteFrame(c)
  BY <1>1, WriteTakes DEF PromiseInv, SentJobs
<1>2. CASE WriterCloses(c)
  <2>1. /\ outbox' = [outbox EXCEPT ![c] = <<>>] /\ outbox \in [Conns -> Seq(Frames)]
        /\ UNCHANGED <<job, reply, handler>>
    BY <1>2 DEF WriterCloses, PromiseTyped, jobVars
  <2>2. QED BY <2>1 DEF PromiseInv, JobsAreSent, SentJobs, TakenJobs
<1>3. ASSUME NEW d \in Conns, NEW frame \in {Ping, Pong}, Send(d, frame),
             UNCHANGED <<job, reply, handler>>
      PROVE  PromiseInv'
  <2>1. JobsAreSent'
    BY <1>3, SendAdds, FramesDiffer DEF PromiseInv, JobsAreSent, SentJobs
  <2>2. QED BY <1>3, <2>1 DEF PromiseInv, SentJobs, TakenJobs
<1>4. ASSUME NEW j \in Jobs, HandleJobResult(c, j) PROVE PromiseInv'
  <2>1. /\ UNCHANGED <<outbox, job>> /\ handler[j] = "running"
        /\ handler' = [handler EXCEPT ![j] = "replied"]
        /\ \A i \in Jobs : i # j => reply'[i] = reply[i]
    BY <1>4 DEF HandleJobResult, At, channel, PromiseTyped, WaitersTyped
  <2>2. TakenJobs' = TakenJobs /\ j \in TakenJobs /\ SentJobs' = SentJobs
    BY <2>1 DEF TakenJobs, SentJobs, PromiseTyped
  <2>3. QED BY <2>1, <2>2 DEF PromiseInv, JobsAreSent
<1>5. CASE UNCHANGED <<outbox, job, reply, handler>>
  BY <1>5 DEF PromiseInv, JobsAreSent, SentJobs, TakenJobs
<1>6. CASE SendPing(c)
  BY <1>3, <1>6 DEF SendPing, jobVars
<1>7. CASE SendPong(c)
  BY <1>3, <1>5, <1>7 DEF SendPong, At, jobVars
<1>8. QED
  BY <1>1, <1>2, <1>4, <1>5, <1>6, <1>7
  DEF ReaderStep, HeartbeatStep, Cleanup, RegisterSession, IndexCapability, InsertSession,
      StartTasks, AckFails, HandleFrame, HandlePing, SocketEnds, ReaderRemoves, ReaderPrunes,
      AbortHeartbeat, JoinWriter, PingFails, CountMiss, HeartbeatRemoves, HeartbeatPrunes,
      channel, jobVars

\* Where a dispatch gets to, and with it the promise: nothing, handed over, or ended.
LEMMA JobMoves ==
    ASSUME TypeInv, NEW j \in Jobs, JobStep(j)
    PROVE  /\ UNCHANGED <<reply, handler>>
           /\ \E to : job' = [job EXCEPT ![j] = to] /\
                \/ job[j] \in {"idle", "scanning", "resolved"}
                      /\ to \in {"scanning", "resolved", "sending", "unsent"}
                \/ job[j] = "sending" /\ to = "waiting"
                \/ job[j] = "sending" /\ to \in {"unsent", "abandoned"}
                \/ job[j] = "waiting" /\ to = "answered" /\ reply[j] # "none"
                \/ job[j] = "waiting" /\ to \in {"timed_out", "dropped"}
           /\ job[j] # "sending" \/ job'[j] # "waiting" => UNCHANGED outbox
           /\ UNCHANGED outbox \/ (owner[j] \in Conns /\ Send(owner[j], DispatchJob(j)))
<1> USE DEF At
<1>1. ASSUME NEW k \in Kinds, FindKind(j, k)
      PROVE  /\ UNCHANGED <<reply, handler, outbox>> /\ job[j] = "idle"
             /\ \E to \in {"scanning", "unsent"} : job' = [job EXCEPT ![j] = to]
  BY <1>1 DEF FindKind, channel
<1>2. ASSUME NEW n \in Nodes, ScanNode(j, n)
      PROVE  /\ UNCHANGED <<reply, handler, outbox>> /\ job[j] = "scanning"
             /\ \E to \in {"scanning", "resolved", "unsent"} : job' = [job EXCEPT ![j] = to]
  BY <1>2 DEF ScanNode, channel
<1>3. CASE InsertPending(j)
  BY <1>3 DEF InsertPending, channel
<1>4. CASE SendJob(j)
  BY <1>4 DEF SendJob, TypeInv, TypeOK, Known
<1>5. CASE SendFails(j)
  BY <1>5 DEF SendFails, channel
<1>6. CASE ReceiveResult(j)
  BY <1>6 DEF ReceiveResult, channel
<1>7. CASE Timeout(j)
  BY <1>7 DEF Timeout, channel
<1>8. CASE DropJob(j)
  BY <1>8 DEF DropJob, channel
<1> HIDE DEF At
<1>9. QED BY <1>1, <1>2, <1>3, <1>4, <1>5, <1>6, <1>7, <1>8 DEF JobStep

LEMMA PromiseInvJobStep ==
    ASSUME TypeInv, PromiseInv, NEW j \in Jobs, JobStep(j)
    PROVE  PromiseInv'
<1>1. PromiseTyped
  BY PromiseTypes
<1>2. SentJobs \subseteq SentJobs' /\ TakenJobs' = TakenJobs /\ UNCHANGED reply
  BY <1>1, JobMoves DEF SentJobs, TakenJobs, PromiseTyped, WaitersTyped
<1>3. JobsAreSent'
  <2>1. CASE UNCHANGED outbox
    BY <1>2, <2>1 DEF PromiseInv, JobsAreSent
  <2>2. CASE ~ UNCHANGED outbox
    <3>1. /\ owner[j] \in Conns /\ Send(owner[j], DispatchJob(j))
          /\ job'[j] = "waiting"
      BY <2>2, JobMoves
    <3>2. j \in SentJobs'
      BY <3>1 DEF SentJobs
    <3>3. QED BY <1>1, <1>2, <3>1, <3>2, SendAdds, FramesDiffer DEF PromiseInv, JobsAreSent
  <2>3. QED BY <2>1, <2>2
<1>4. QED BY <1>2, <1>3 DEF PromiseInv

LEMMA PromiseInvariant == Spec => []PromiseInv
<1>1. Init => PromiseInv
  BY DEF Init, PromiseInv, JobsAreSent, SentJobs, TakenJobs
<1>2. TypeInv /\ PromiseInv /\ [Next]_vars => PromiseInv'
  <2>1. PromiseInv /\ UNCHANGED vars => PromiseInv'
    BY DEF vars, channel, jobVars, PromiseInv, JobsAreSent, SentJobs, TakenJobs
  <2>2. TypeInv => \A c \in Conns : reader[c] = "ponging" => sessions[node_id[c]] \in Conns
    BY DEF TypeInv, Known
  <2>3. QED BY <2>1, <2>2, PromiseTypes, PromiseInvConnStep, PromiseInvJobStep DEF Next
<1>3. QED BY <1>1, <1>2, TypeInvariant, PTL DEF Spec

LEMMA PromiseConnStep ==
    ASSUME PromiseTyped, PromiseInv, NEW c \in Conns,
           ReaderStep(c) \/ WriteFrame(c) \/ WriterCloses(c) \/ HeartbeatStep(c)
    PROVE  [Promise!Next]_(Promise!vars)
<1>1. CASE WriteFrame(c)
  <2>1. UNCHANGED <<SentJobs, Result>>
    BY <1>1, WriteTakes DEF SentJobs, Result
  <2>2. CASE UNCHANGED TakenJobs
    BY <2>1, <2>2 DEF Promise!vars
  <2>3. ASSUME NEW j \in SentJobs, TakenJobs' = TakenJobs \cup {j}
        PROVE  [Promise!Next]_(Promise!vars)
    <3>1. CASE j \in TakenJobs
      BY <2>1, <2>3, <3>1 DEF Promise!vars
    <3>2. CASE j \notin TakenJobs
      BY <2>1, <2>3, <3>2 DEF Promise!Next, Promise!Take, SentJobs
    <3>3. QED BY <3>1, <3>2
  <2>4. QED BY <1>1, <2>2, <2>3, WriteTakes
<1>2. ASSUME NEW j \in Jobs, HandleJobResult(c, j) PROVE UNCHANGED Promise!vars
  <2>1. /\ job' = job /\ handler[j] = "running" /\ handler' = [handler EXCEPT ![j] = "replied"]
    BY <1>2 DEF HandleJobResult, At
  <2>2. UNCHANGED <<SentJobs, TakenJobs, Result>>
    BY <2>1 DEF SentJobs, TakenJobs, Result, PromiseTyped
  <2>3. QED BY <2>2 DEF Promise!vars
<1>3. CASE UNCHANGED <<job, handler>>
  BY <1>3 DEF Promise!vars, SentJobs, TakenJobs, Result
<1>4. QED
  BY <1>1, <1>2, <1>3
  DEF ReaderStep, HeartbeatStep, Cleanup, RegisterSession, IndexCapability, InsertSession,
      StartTasks, AckFails, HandleFrame, HandlePing, SendPong, SocketEnds, ReaderRemoves,
      ReaderPrunes, AbortHeartbeat, JoinWriter, WriterCloses, SendPing, PingFails, CountMiss,
      HeartbeatRemoves, HeartbeatPrunes, jobVars

LEMMA PromiseJobStep ==
    ASSUME TypeInv, PromiseInv, NEW j \in Jobs, JobStep(j)
    PROVE  [Promise!Next]_(Promise!vars)
<1> PromiseTyped
  BY PromiseTypes
<1>1. /\ DOMAIN job = Jobs /\ UNCHANGED TakenJobs
      /\ reply[j] # "none" => reply[j] = "answered"
  BY JobMoves DEF TakenJobs, PromiseTyped, WaitersTyped
<1>2. PICK to : job' = [job EXCEPT ![j] = to] /\
                \/ job[j] \in {"idle", "scanning", "resolved"}
                      /\ to \in {"scanning", "resolved", "sending", "unsent"}
                \/ job[j] = "sending" /\ to = "waiting"
                \/ job[j] = "sending" /\ to \in {"unsent", "abandoned"}
                \/ job[j] = "waiting" /\ to = "answered" /\ reply[j] # "none"
                \/ job[j] = "waiting" /\ to \in {"timed_out", "dropped"}
  BY JobMoves
<1>3. CASE job[j] \in {"idle", "scanning", "resolved"} /\ to \in {"scanning", "resolved", "sending"}
  BY <1>1, <1>2, <1>3 DEF Promise!vars, SentJobs, Result
<1>4. CASE job[j] = "sending" /\ to = "waiting"
  <2>1. /\ j \notin SentJobs /\ SentJobs' = SentJobs \cup {j}
        /\ Result[j] = "none" /\ UNCHANGED Result
    BY <1>1, <1>2, <1>4 DEF SentJobs, Result
  <2>2. QED BY <1>1, <2>1 DEF Promise!Next, Promise!Hand
<1>5. CASE job[j] \in {"idle", "scanning", "resolved", "sending", "waiting"}
           /\ to \in {"unsent", "abandoned", "timed_out", "dropped"}
  <2>1. /\ UNCHANGED SentJobs
        /\ Result[j] = "none" /\ Result' = [Result EXCEPT ![j] = "failed"]
    BY <1>1, <1>2, <1>5 DEF SentJobs, Result
  <2>2. QED BY <1>1, <2>1 DEF Promise!Next, Promise!Fail
<1>6. CASE job[j] = "waiting" /\ to = "answered" /\ reply[j] # "none"
  <2>1. /\ UNCHANGED SentJobs /\ j \in TakenJobs
        /\ Result[j] = "none" /\ Result' = [Result EXCEPT ![j] = "answered"]
    BY <1>1, <1>2, <1>6 DEF SentJobs, Result, PromiseInv
  <2>2. QED BY <1>1, <2>1 DEF Promise!Next, Promise!Answer
<1>7. QED BY <1>2, <1>3, <1>4, <1>5, <1>6

\* Whatever happens to the connections, a dispatch keeps the promise of Exchange: no node
\* executes what was not sent, and no result comes from nowhere.
THEOREM BridgeKeepsItsPromise == Spec => KeepsItsPromise
<1>1. Init => Promise!Init
  BY DEF Init, Promise!Init, SentJobs, TakenJobs, Result
<1>2. TypeInv /\ PromiseInv /\ [Next]_vars => [Promise!Next]_(Promise!vars)
  <2>1. UNCHANGED vars => UNCHANGED Promise!vars
    BY DEF vars, jobVars, Promise!vars, SentJobs, TakenJobs, Result
  <2>2. QED BY <2>1, PromiseTypes, PromiseConnStep, PromiseJobStep DEF Next
<1>3. QED
  BY <1>1, <1>2, TypeInvariant, PromiseInvariant, PTL
  DEF Spec, KeepsItsPromise, Promise!Spec
=============================================================================
