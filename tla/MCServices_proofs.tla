---------------------------- MODULE MCServices_proofs ----------------------------
(***************************************************************************)
(* What holds of the machines of MCServices for every value of their       *)
(* bounds.  A machine that was not chosen stands still, so that an         *)
(* invariant of one is an invariant of all behaviours.                     *)
(***************************************************************************)
EXTENDS MCServices, FiniteSetTheorems, TLAPS

-----------------------------------------------------------------------------
(* The approval gate.  Every column keeps its domain and every handler     *)
(* stays on its steps.                                                     *)

LEMMA GotoTyped ==
    ASSUME TypeOK, NEW x \in Actors, NEW step \in Steps, Goto(x, step)
    PROVE  pc' \in [Actors -> Steps]
BY DEF TypeOK, Goto

LEMMA TypeStep ==
    ASSUME TypeOK, [Next]_vars
    PROVE  TypeOK'
<1> USE ActorAssumption
    DEF TypeOK, Actors, Steps, Finished, RuleMatches, Verdicts, Outcomes, Labels,
        BusEvents, gateVars, checkVars, operatorVars, Goto, Return, Publish
<1>1. ASSUME NEW c \in Checks, CheckStep(c) PROVE TypeOK'
  <2>1. ASSUME NEW m \in RuleMatches, BeginCheck(c, m) PROVE TypeOK'
    <3>1. rule' \in [Checks -> RuleMatches]
      BY <2>1 DEF BeginCheck
    <3>2. result' \in [Checks -> {"none", "error"} \cup Outcomes]
      BY <2>1 DEF BeginCheck
    <3>3. pc' \in [Actors -> Steps]
      <4>1. {"returned", "insert"} \subseteq Steps /\ c \in Actors
        OBVIOUS
      <4> HIDE DEF Goto, Steps, Actors, TypeOK
      <4>2. QED BY <2>1, <4>1, GotoTyped DEF BeginCheck
    <3>4. QED BY <2>1, <3>1, <3>2, <3>3 DEF BeginCheck
  <2>2. CASE insert_pending_approval(c)
    <3>0. {"returned", "persist", "register"} \subseteq Steps /\ c \in Actors
      OBVIOUS
    <3>1. row' \in [Checks -> {"none", "undecided"} \cup Labels]
      <4> HIDE DEF Goto, Labels
      <4>1. QED BY <2>2 DEF insert_pending_approval
    <3>2. pc' \in [Actors -> Steps]
      <4> HIDE DEF Goto, Steps, Actors, TypeOK
      <4>1. QED BY <2>2, <3>0, GotoTyped DEF insert_pending_approval
    <3>3. result' \in [Checks -> {"none", "error"} \cup Outcomes]
      <4> HIDE DEF Goto, Labels
      <4>1. QED BY <2>2 DEF insert_pending_approval
    <3>4. QED BY <2>2, <3>1, <3>2, <3>3 DEF insert_pending_approval
  <2>3. CASE Register(c)
    <3>1. bus[c] \o <<"requested">> \in Seq(BusEvents)
      OBVIOUS
    <3>2. bus' \in [Checks -> Seq(BusEvents)]
      BY <2>3, <3>1 DEF Register
    <3>3. QED BY <2>3, <3>2 DEF Register
  <2>4. ASSUME NEW o \in Outcomes, WakeUp(c, o) PROVE TypeOK'
    BY <2>4 DEF WakeUp
  <2>5. CASE PersistDecision(c)
    BY <2>5 DEF PersistDecision, decide_approval, db_label
  <2>6. CASE Announce(c)
    <3>1. FinalEvents(c) \in Seq(BusEvents)
      <4>1. "requested" \in BusEvents /\ "denied" \in BusEvents /\ "timeout" \in BusEvents
        OBVIOUS
      <4> HIDE DEF BusEvents
      <4>2. QED BY <4>1 DEF FinalEvents
    <3>2. bus[c] \o FinalEvents(c) \in Seq(BusEvents)
      BY <3>1
    <3>3. bus' \in [Checks -> Seq(BusEvents)]
      BY <2>6, <3>2 DEF Announce
    <3>4. QED BY <2>6, <3>3 DEF Announce
  <2>7. QED
    BY <1>1, <2>1, <2>2, <2>3, <2>4, <2>5, <2>6 DEF CheckStep, Receive, Timeout, Cancel
<1>2. ASSUME NEW o \in Operators, ResolveStep(o) PROVE TypeOK'
  <2>1. ASSUME NEW c \in Checks, NEW v \in Verdicts, get_pending_approval(o, c, v)
        PROVE  TypeOK'
    <3>1. {"not_found", "update", "no_op", "error"} \subseteq Steps /\ o \in Actors
      OBVIOUS
    <3>2. pc' \in [Actors -> Steps]
      <4> HIDE DEF Goto, Steps, Actors, TypeOK
      <4>1. QED BY <2>1, <3>1, GotoTyped DEF get_pending_approval
    <3>3. target' \in [Operators -> Checks \cup {None}] /\ verdict' \in [Operators -> Verdicts]
      <4> HIDE DEF Goto, Verdicts
      <4>1. QED BY <2>1 DEF get_pending_approval
    <3>4. QED BY <2>1, <3>2, <3>3 DEF get_pending_approval
  <2>2. CASE ResolveRow(o)
    BY <2>2 DEF ResolveRow, decide_approval
  <2>3. CASE Wake(o)
    BY <2>3 DEF Wake
  <2>4. CASE EmitDecided(o)
    <3>1. target[o] \in Checks => bus[target[o]] \o <<verdict[o]>> \in Seq(BusEvents)
      OBVIOUS
    <3>2. bus' \in [Checks -> Seq(BusEvents)]
      BY <2>4, <3>1 DEF EmitDecided
    <3>3. QED BY <2>4, <3>2 DEF EmitDecided
  <2> HIDE DEF TypeOK, Verdicts
  <2>5. QED BY <1>2, <2>1, <2>2, <2>3, <2>4 DEF ResolveStep
<1>3. ASSUME NEW x \in Actors, Abandon(x) PROVE TypeOK'
  BY <1>3 DEF Abandon
<1>4. CASE GatewayRestart
  BY <1>4 DEF GatewayRestart
<1>5. CASE UNCHANGED vars
  BY <1>5 DEF vars
<1>6. QED BY <1>1, <1>2, <1>3, <1>4, <1>5 DEF Next

LEMMA TypeCorrect == Spec => []TypeOK
<1>1. Init => TypeOK
  BY ActorAssumption
  DEF Init, TypeOK, Actors, Steps, Finished, RuleMatches, Verdicts, Outcomes
<1>2. TypeOK /\ [Next]_vars => TypeOK'
  BY TypeStep
<1>3. QED BY <1>1, <1>2, PTL DEF Spec

-----------------------------------------------------------------------------
(* Where an "approved" can come from: the verdict an operator looked the    *)
(* undecided row up for travels through the oneshot to the outcome.        *)

ApprovedBy(c) == \E o \in Operators : Decides(o, c) /\ verdict[o] = "approved"

Prompted(c) == rule[c] = "prompt"

GateInv ==
    \A c \in Checks :
        /\ pc[c] = "idle" => rule[c] = "allow" /\ result[c] = "none"
        /\ pc[c] = "insert" => rule[c] # "allow"
        /\ pc[c] \in {"register", "waiting"} \/ c \in pending => Prompted(c)
        /\ sent[c] # "none" => Prompted(c)
        /\ sent[c] = "approved" \/ outcome[c] = "approved" => Prompted(c) /\ ApprovedBy(c)
        /\ result[c] = "approved" => rule[c] = "allow" \/ (Prompted(c) /\ ApprovedBy(c))

LEMMA GateStep ==
    ASSUME TypeOK, GateInv, [Next]_vars
    PROVE  GateInv'
<1> USE ActorAssumption
    DEF TypeOK, GateInv, Prompted, Actors, Steps, Finished, RuleMatches, Verdicts,
        Outcomes, gateVars, checkVars, operatorVars, Goto, Return, Publish
<1>1. ASSUME NEW c \in Checks, CheckStep(c) PROVE GateInv'
  <2>0. \A b \in Checks : ApprovedBy(b) => ApprovedBy(b)'
    <3>1. UNCHANGED operatorVars /\ \A o \in Operators : pc'[o] = pc[o]
      BY <1>1 DEF CheckStep, BeginCheck, insert_pending_approval, Register, Receive,
                  Timeout, Cancel, WakeUp, PersistDecision, Announce
    <3>2. QED BY <3>1 DEF ApprovedBy, Decides
  <2>1. ASSUME NEW m \in RuleMatches, BeginCheck(c, m) PROVE GateInv'
    BY <2>0, <2>1 DEF BeginCheck
  <2>2. CASE insert_pending_approval(c)
    BY <2>0, <2>2 DEF insert_pending_approval
  <2>3. CASE Register(c)
    BY <2>0, <2>3 DEF Register
  <2>4. CASE Receive(c)
    BY <2>0, <2>4 DEF Receive, WakeUp
  <2>5. CASE Timeout(c) \/ Cancel(c)
    BY <2>0, <2>5 DEF Timeout, Cancel, WakeUp
  <2>6. CASE PersistDecision(c)
    BY <2>0, <2>6 DEF PersistDecision
  <2>7. CASE Announce(c)
    BY <2>0, <2>7 DEF Announce
  <2>8. QED BY <1>1, <2>1, <2>2, <2>3, <2>4, <2>5, <2>6, <2>7 DEF CheckStep
<1>2. ASSUME NEW o \in Operators, ResolveStep(o) PROVE GateInv'
  <2>0. \A b \in Checks : ApprovedBy(b) => ApprovedBy(b)'
    <3>1. ASSUME NEW b \in Checks, NEW q \in Operators, Decides(q, b)
          PROVE  Decides(q, b)' /\ verdict'[q] = verdict[q]
      BY <1>2, <3>1 DEF Decides, ResolveStep, get_pending_approval, ResolveRow, Wake, EmitDecided
    <3>2. QED BY <3>1 DEF ApprovedBy
  <2>1. ASSUME NEW c \in Checks, NEW v \in Verdicts, get_pending_approval(o, c, v)
        PROVE  GateInv'
    BY <2>0, <2>1 DEF get_pending_approval
  <2>2. CASE ResolveRow(o)
    BY <2>0, <2>2 DEF ResolveRow
  <2>3. CASE Wake(o)
    <3>1. target[o] \in pending /\ verdict[o] = "approved" => ApprovedBy(target[o])
      BY <2>3 DEF Wake, ApprovedBy, Decides
    <3>2. QED BY <2>0, <2>3, <3>1 DEF Wake
  <2>4. CASE EmitDecided(o)
    BY <2>0, <2>4 DEF EmitDecided
  <2>5. QED BY <1>2, <2>1, <2>2, <2>3, <2>4 DEF ResolveStep
<1>3. ASSUME NEW x \in Actors, Abandon(x) PROVE GateInv'
  BY <1>3 DEF Abandon, ApprovedBy, Decides
<1>4. CASE GatewayRestart
  BY <1>4 DEF GatewayRestart, ApprovedBy, Decides
<1>5. CASE UNCHANGED vars
  BY <1>5 DEF vars, ApprovedBy, Decides
<1>6. QED BY <1>1, <1>2, <1>3, <1>4, <1>5 DEF Next

(* Whatever times out, fails, is dropped or races, a gated call runs only   *)
(* when an operator approved that call: the gate fails closed.             *)

THEOREM GateFailsClosed == Spec => []RunsOnlyApproved
<1>1. Init => GateInv
  BY SMTT(40), ZenonT(40) DEF Init, GateInv, Actors
<1>2. TypeOK /\ GateInv /\ [Next]_vars => GateInv'
  BY GateStep
<1>3. GateInv => RunsOnlyApproved
  BY DEF GateInv, RunsOnlyApproved, Prompted, ApprovedBy
<1>4. QED BY <1>1, <1>2, <1>3, TypeCorrect, PTL DEF Spec

(* A check inserts its row under an id nobody has used: until then there is *)
(* no row to decide.                                                       *)

FreshRow == \A c \in Checks : pc[c] \in {"idle", "insert"} => row[c] = "none"

LEMMA RowStep ==
    ASSUME TypeOK, FreshRow, [Next]_vars
    PROVE  /\ FreshRow'
           /\ \A c \in Checks : row[c] \in Labels => row'[c] = row[c]
<1> USE ActorAssumption
    DEF TypeOK, FreshRow, Actors, Labels, Verdicts, Finished, gateVars, checkVars,
        operatorVars, Goto, Return
<1> DEFINE Goal == FreshRow' /\ \A c \in Checks : row[c] \in Labels => row'[c] = row[c]
<1>1. ASSUME NEW c \in Checks, CheckStep(c) PROVE Goal
  <2>1. ASSUME NEW m \in RuleMatches, BeginCheck(c, m) PROVE Goal
    BY <2>1 DEF BeginCheck
  <2>2. CASE insert_pending_approval(c)
    BY <2>2 DEF insert_pending_approval
  <2>3. CASE PersistDecision(c)
    BY <2>3 DEF PersistDecision, decide_approval
  <2>4. CASE Register(c) \/ Receive(c) \/ Timeout(c) \/ Cancel(c) \/ Announce(c)
    BY <2>4 DEF Register, Receive, Timeout, Cancel, WakeUp, Announce
  <2>5. QED BY <1>1, <2>1, <2>2, <2>3, <2>4 DEF CheckStep
<1>2. ASSUME NEW o \in Operators, ResolveStep(o) PROVE Goal
  BY <1>2 DEF ResolveStep, get_pending_approval, ResolveRow, decide_approval, Wake, EmitDecided
<1>3. ASSUME NEW x \in Actors, Abandon(x) PROVE Goal
  BY <1>3 DEF Abandon
<1>4. CASE GatewayRestart \/ UNCHANGED vars
  BY <1>4 DEF GatewayRestart, vars
<1>5. QED BY <1>1, <1>2, <1>3, <1>4 DEF Next

(* No timeout, operator or restart changes a decision that is in the row.   *)

THEOREM DecisionIsFinal == Spec => FirstDecisionStays
<1>1. Init => FreshRow
  BY DEF Init, FreshRow
<1>2. TypeOK /\ FreshRow /\ [Next]_vars =>
          FreshRow' /\ [\A c \in Checks : row[c] \in Labels => row'[c] = row[c]]_vars
  BY RowStep
<1>3. QED BY <1>1, <1>2, TypeCorrect, PTL DEF Spec, FirstDecisionStays

(* Only a dropped check leaves its sender in the map.                       *)

THEOREM SendersAreCleanedUp == Spec => []NoSenderLeaks
<1>1. Init => NoSenderLeaks
  BY DEF Init, NoSenderLeaks
<1>2. ASSUME TypeOK, NoSenderLeaks, [Next]_vars PROVE NoSenderLeaks'
  <2> USE ActorAssumption
      DEF TypeOK, NoSenderLeaks, Actors, Finished, gateVars, checkVars, operatorVars, Goto, Return
  <2>1. ASSUME NEW c \in Checks, CheckStep(c) PROVE NoSenderLeaks'
    BY SMTT(40), <1>2, <2>1 DEF CheckStep, BeginCheck, insert_pending_approval, Register, Receive,
                      Timeout, Cancel, WakeUp, PersistDecision, Announce
  <2>2. ASSUME NEW o \in Operators, ResolveStep(o) PROVE NoSenderLeaks'
    BY <1>2, <2>2 DEF ResolveStep, get_pending_approval, ResolveRow, Wake, EmitDecided
  <2>3. ASSUME NEW x \in Actors, Abandon(x) PROVE NoSenderLeaks'
    BY <1>2, <2>3 DEF Abandon
  <2>4. CASE GatewayRestart
    BY <1>2, <2>4 DEF GatewayRestart
  <2>5. CASE UNCHANGED vars
    BY <1>2, <2>5 DEF vars
  <2>6. QED BY <1>2, <2>1, <2>2, <2>3, <2>4, <2>5 DEF Next
<1>3. QED BY <1>1, <1>2, TypeCorrect, PTL DEF Spec

-----------------------------------------------------------------------------
(* The plugin supervisor.  One handle at a time: what the map of children  *)
(* tracks, what the watchdog waits for and what stop_service kills are     *)
(* never two processes, and each is held only in phases of its owner.      *)

Held ==
    /\ alive \subseteq {tracked, child, stopping}
    /\ tracked # 0 =>
         /\ child = 0 /\ stopping = 0
         /\ watchdog \in {"boot_dialing", "unwatched", "looking", "dialing"}
    /\ child # 0 => stopping = 0 /\ watchdog \in {"waiting", "exited", "unregistered"}
    /\ stopping # 0 =>
         /\ teardown = "killing"
         /\ watchdog \in {"unwatched", "looking", "dialing", "ended"}
    /\ watchdog \in {"exited", "unregistered"} => child \notin alive
    /\ teardown # "no" => watchdog \notin {"boot", "boot_dialing"}

SupervisorInv ==
    /\ Supervisor!TypeOK
    /\ watchdog # "ended" => crashes <= MaxRestarts
    /\ Held
    /\ Supervisor!ClientIsWatched

LEMMA SupervisorInit == Supervisor!Init => SupervisorInv
BY BoundsAssumption DEF SupervisorInv, Held, Supervisor!Init, Supervisor!TypeOK,
   Supervisor!ClientIsWatched, Supervisor!NoProcess, Supervisor!NoProcessOr, Supervisor!Processes

\* spawn_service is called where no handle is held, and hence no process runs.
LEMMA SpawnStep ==
    ASSUME SupervisorInv, Supervisor!SpawnService, tracked = 0, child = 0, stopping = 0
    PROVE  /\ spawned' \in 1 .. MaxSpawns /\ alive' = {spawned'} /\ socket' = 0
           /\ tracked' = spawned' /\ child' = 0 /\ stopping' = 0
<1>1. alive = {}
  BY DEF SupervisorInv, Held, Supervisor!TypeOK, Supervisor!Processes
<1>2. QED BY <1>1, BoundsAssumption DEF SupervisorInv, Supervisor!TypeOK, Supervisor!SpawnService,
          Supervisor!NoProcessOr, Supervisor!NoProcess, Supervisor!Processes

LEMMA SupervisorStep ==
    ASSUME SupervisorInv, [Supervisor!Next]_supVars
    PROVE  SupervisorInv'
<1> USE BoundsAssumption
    DEF SupervisorInv, Held, Supervisor!TypeOK, Supervisor!ClientIsWatched, Supervisor!NoProcess,
        Supervisor!NoProcessOr, Supervisor!Processes, Supervisor!handles, Supervisor!CanDial
<1>1. ASSUME NEW p \in Supervisor!Processes, Supervisor!ProcessBinds(p) PROVE SupervisorInv'
  BY <1>1 DEF Supervisor!ProcessBinds
<1>2. ASSUME NEW p \in Supervisor!Processes, Supervisor!ProcessExits(p) PROVE SupervisorInv'
  BY <1>2 DEF Supervisor!ProcessExits
<1>3. CASE Supervisor!BootSpawns
  BY <1>3, SpawnStep DEF Supervisor!BootSpawns
<1>4. CASE Supervisor!BootSpawnFails
  BY <1>4 DEF Supervisor!BootSpawnFails
<1>5. CASE Supervisor!BootDials
  BY <1>5 DEF Supervisor!BootDials
<1>6. CASE Supervisor!BootDialFails
  BY <1>6 DEF Supervisor!BootDialFails
<1>7. CASE Supervisor!TakeChild
  BY <1>7 DEF Supervisor!TakeChild
<1>8. CASE Supervisor!WaitEnds
  BY <1>8 DEF Supervisor!WaitEnds
<1>9. CASE Supervisor!KillOnShutdown
  BY <1>9 DEF Supervisor!KillOnShutdown
<1>10. CASE Supervisor!Unregister
  BY <1>10 DEF Supervisor!Unregister
<1>11. CASE Supervisor!RecordCrash
  BY <1>11 DEF Supervisor!RecordCrash, Supervisor!GivesUp
<1>12. CASE Supervisor!BackoffEnds
  BY <1>12 DEF Supervisor!BackoffEnds
<1>13. CASE Supervisor!ShutdownInBackoff
  BY <1>13 DEF Supervisor!ShutdownInBackoff
<1>14. CASE Supervisor!Respawn
  BY <1>14, SpawnStep DEF Supervisor!Respawn
<1>15. CASE Supervisor!RespawnFails
  BY <1>15 DEF Supervisor!RespawnFails
<1>16. CASE Supervisor!Redial
  BY <1>16 DEF Supervisor!Redial
<1>17. CASE Supervisor!RedialFails
  BY <1>17 DEF Supervisor!RedialFails
<1>18. CASE Supervisor!Cancel
  BY <1>18 DEF Supervisor!Cancel
<1>19. CASE Supervisor!ListChildren
  BY <1>19 DEF Supervisor!ListChildren
<1>20. CASE Supervisor!StopService
  BY <1>20 DEF Supervisor!StopService
<1>21. CASE Supervisor!KillStopping
  BY <1>21 DEF Supervisor!KillStopping
<1>22. CASE UNCHANGED supVars
  BY <1>22 DEF supVars
<1>23. QED
  BY <1>1, <1>2, <1>3, <1>4, <1>5, <1>6, <1>7, <1>8, <1>9, <1>10, <1>11, <1>12, <1>13, <1>14,
     <1>15, <1>16, <1>17, <1>18, <1>19, <1>20, <1>21, <1>22
     DEF Supervisor!Next, Supervisor!Watchdog, Supervisor!Teardown

LEMMA SupervisorHolds == MCSpec => []SupervisorInv
<1>1. MCInit => SupervisorInv
  BY SupervisorInit DEF MCInit
<1>2. [MCNext]_allVars => [Supervisor!Next]_supVars
  BY DEF MCNext, Runs, allVars
<1>3. SupervisorInv /\ [MCNext]_allVars => SupervisorInv'
  BY <1>2, SupervisorStep
<1>4. QED BY <1>1, <1>3, PTL DEF MCSpec

LEMMA SupervisorGuarantees ==
    ASSUME SupervisorInv
    PROVE  Supervisor!OneHeldProcess /\ Supervisor!ClientIsWatched
<1>1. \A p, q \in alive : p = q
  BY DEF SupervisorInv, Held, Supervisor!TypeOK, Supervisor!Processes, Supervisor!NoProcessOr
<1>2. Cardinality(alive) <= 1
  <2>1. CASE alive = {}
    <3>1. Cardinality({}) = 0
      BY FS_EmptySet
    <3>2. QED BY <2>1, <3>1
  <2>2. CASE alive # {}
    <3>1. PICK p \in alive : TRUE
      BY <2>2
    <3>2. alive = {p}
      BY <1>1, <3>1
    <3>3. Cardinality({p}) = 1
      BY FS_Singleton
    <3>4. QED BY <3>2, <3>3
  <2>3. QED BY <2>1, <2>2
<1>3. Supervisor!Cardinality(alive) = Cardinality(alive)
  BY DEF Supervisor!Cardinality, Cardinality
<1>4. QED BY <1>2, <1>3 DEF SupervisorInv, Held, Supervisor!OneHeldProcess, Supervisor!ClientIsWatched

-----------------------------------------------------------------------------
(* The scheduler's job and the end of the gateway.  The slot the loop      *)
(* waits for lies after every slot it fired, because the clock does not go *)
(* back; while a run is under way it is the last one that was fired.       *)

RunResults == {"none", "success", "exit_code", "timeout", "spawn_failed", "unsupported_action"}
Underway == {"waiting", "reaping", "reporting"}

JobInv ==
    /\ Shutdown!SchedulerTypeOK
    /\ ended_as \in RunResults
    /\ events \in Seq(Slots \X RunResults)
    /\ loop \in {"sleeping"} \cup Underway => next \in Slots
    /\ \A i \in DOMAIN fired : fired[i] <= clock
    /\ loop = "sleeping" => \A i \in DOMAIN fired : fired[i] < next
    /\ loop \in Underway => Len(fired) > 0 /\ fired[Len(fired)] = next
    /\ Shutdown!FiresOncePerSlot
    /\ Shutdown!OneProcessPerJob
    /\ Shutdown!EachRunIsReported

GatewayInv ==
    /\ JobInv
    /\ Shutdown!TypeOK
    /\ awaited = Len(Shutdown!DrainOrder) => loop = "ended"
    /\ main = "exited" => awaited = Len(Shutdown!DrainOrder)

LEMMA GatewayInit == Shutdown!Init => GatewayInv
<1> SUFFICES ASSUME Shutdown!Init PROVE GatewayInv
  OBVIOUS
<1>1. /\ fired = <<>> /\ events = <<>> /\ loop = "computing" /\ clock = 0 /\ next = 0
      /\ process = [s \in Slots |-> "none"] /\ ended_as = "none" /\ cancelled = FALSE
      /\ main = "serving" /\ awaited = 0 /\ ended \in {{}, Shutdown!Observer}
  BY DEF Shutdown!Init, Shutdown!SchedulerInit, Shutdown!NoSlot
<1>2. Len(Shutdown!DrainOrder) = 4
  BY DEF Shutdown!DrainOrder
<1>3. JobInv
  <2>1. Shutdown!SchedulerTypeOK /\ ended_as \in RunResults /\ events \in Seq(Slots \X RunResults)
    <3>1. clock \in 0 .. MaxTime /\ cancelled \in BOOLEAN /\ next \in Slots \cup {0}
      <4>1. 0 \in 0 .. MaxTime
        BY BoundsAssumption
      <4>2. cancelled \in BOOLEAN
        BY <1>1
      <4>3. QED BY <1>1, <4>1, <4>2
    <3>2. process \in [Slots -> {"none", "running", "killed", "exited"}]
      BY <1>1
    <3>3. fired \in Seq(Slots) /\ events \in Seq(Slots \X RunResults) /\ ended_as \in RunResults
      BY <1>1 DEF RunResults
    <3>4. QED BY <1>1, <3>1, <3>2, <3>3 DEF Shutdown!SchedulerTypeOK, Shutdown!Times, Shutdown!NoSlot
  <2>2. DOMAIN fired = {} /\ DOMAIN events = {} /\ Len(fired) = 0 /\ Len(events) = 0
    BY <1>1
  <2>3. QED BY <1>1, <2>1, <2>2 DEF JobInv, Underway, Shutdown!FiresOncePerSlot,
               Shutdown!OneProcessPerJob, Shutdown!EachRunIsReported
<1>4. QED BY <1>1, <1>2, <1>3 DEF GatewayInv, JobInv, Shutdown!TypeOK, Shutdown!Tasks

LEMMA JobStep ==
    ASSUME JobInv, Shutdown!SchedulerNext
    PROVE  JobInv'
<1> USE BoundsAssumption
    DEF JobInv, RunResults, Underway, Shutdown!SchedulerTypeOK, Shutdown!Times, Shutdown!NoSlot,
        Shutdown!FiresOncePerSlot, Shutdown!OneProcessPerJob, Shutdown!EachRunIsReported
<1>0. Slots \subseteq Nat /\ 0 \notin Slots /\ clock \in Nat /\ fired \in Seq(Slots)
  OBVIOUS
<1>a. \A i \in DOMAIN fired : fired[i] \in Slots
  BY <1>0
<1>b. \A i \in DOMAIN fired : fired[i] \in Nat /\ fired[i] <= clock
  BY <1>0, <1>a
<1>1. CASE Shutdown!Tick
  <2>1. clock' = clock + 1 /\ clock' \in 0 .. MaxTime
    BY <1>1, <1>0 DEF Shutdown!Tick
  <2>2. \A i \in DOMAIN fired : fired[i] <= clock'
    BY <1>0, <1>b, <2>1
  <2>3. UNCHANGED <<cancelled, action, loop, next, process, ended_as, fired, events>>
    BY <1>1 DEF Shutdown!Tick
  <2>4. QED BY <2>1, <2>2, <2>3
<1>2. CASE Shutdown!NextAfter
  <2>1. UNCHANGED <<clock, cancelled, action, process, ended_as, fired, events>>
        /\ loop = "computing"
    BY <1>2 DEF Shutdown!NextAfter
  <2>2. \/ loop' = "ended" /\ next' = next
        \/ loop' = "sleeping" /\ next' \in Slots /\ next' > clock
    BY <1>2 DEF Shutdown!NextAfter, Shutdown!Upcoming
  <2>3. loop' = "sleeping" => \A i \in DOMAIN fired : fired[i] < next'
    <3>1. ASSUME loop' = "sleeping", NEW i \in DOMAIN fired PROVE fired[i] < next'
      <4>1. next' \in Nat /\ clock < next' /\ fired[i] \in Nat /\ fired[i] <= clock
        BY <1>0, <1>b, <2>2, <3>1
      <4>2. QED BY <1>0, <4>1
    <3>2. QED BY <3>1
  <2>4. QED BY <2>1, <2>2, <2>3
<1>3. CASE Shutdown!StopSleeping
  BY <1>3, <1>0 DEF Shutdown!StopSleeping
<1>4. CASE Shutdown!Fire
  BY <1>4, <1>0 DEF Shutdown!Fire
<1>5. ASSUME NEW s \in Slots, Shutdown!ProcessExits(s) PROVE JobInv'
  BY <1>5, <1>0 DEF Shutdown!ProcessExits
<1>6. CASE Shutdown!WaitReturns
  BY <1>6, <1>0 DEF Shutdown!WaitReturns
<1>7. CASE Shutdown!TimeoutExpires
  BY <1>7, <1>0 DEF Shutdown!TimeoutExpires
<1>8. CASE Shutdown!ReapEnds
  BY <1>8, <1>0 DEF Shutdown!ReapEnds
<1>9. CASE Shutdown!EmitOutcome
  BY <1>9, <1>0 DEF Shutdown!EmitOutcome
<1>10. QED
  BY <1>1, <1>2, <1>3, <1>4, <1>5, <1>6, <1>7, <1>8, <1>9
     DEF Shutdown!SchedulerNext, Shutdown!LoopStep

LEMMA GatewayStep ==
    ASSUME GatewayInv, [Shutdown!Next]_gatewayVars
    PROVE  GatewayInv'
<1> DEFINE Last == Len(Shutdown!DrainOrder)
<1>0. Last = 4 /\ Shutdown!DrainOrder[4] = "scheduler" /\ Shutdown!DrainOrder[3] = "observer_writer"
  BY DEF Shutdown!DrainOrder
<1>1. CASE main # "exited" /\ Shutdown!SchedulerNext /\ UNCHANGED Shutdown!shutdownVars
  <2>1. JobInv'
    BY <1>1, JobStep DEF GatewayInv
  <2>2. loop = "ended" => loop' = "ended"
    BY <1>1 DEF Shutdown!SchedulerNext, Shutdown!LoopStep, Shutdown!Tick, Shutdown!NextAfter,
       Shutdown!StopSleeping, Shutdown!Fire, Shutdown!ProcessExits, Shutdown!WaitReturns,
       Shutdown!TimeoutExpires, Shutdown!ReapEnds, Shutdown!EmitOutcome
  <2>3. QED BY <1>1, <2>1, <2>2
            DEF GatewayInv, JobInv, Shutdown!TypeOK, Shutdown!shutdownVars
<1>2. CASE Shutdown!Signal
  <2>1. JobInv'
    BY <1>2 DEF Shutdown!Signal, GatewayInv, JobInv, Shutdown!SchedulerTypeOK,
       Shutdown!FiresOncePerSlot, Shutdown!OneProcessPerJob, Shutdown!EachRunIsReported
  <2>2. QED BY <1>2, <2>1 DEF Shutdown!Signal, GatewayInv, JobInv, Shutdown!TypeOK
<1>3. ASSUME NEW t \in Shutdown!Tasks, Shutdown!TaskEnds(t) PROVE GatewayInv'
  <2>1. JobInv'
    BY <1>3 DEF Shutdown!TaskEnds, Shutdown!jobVars, GatewayInv, JobInv, Shutdown!SchedulerTypeOK,
       Shutdown!FiresOncePerSlot, Shutdown!OneProcessPerJob, Shutdown!EachRunIsReported
  <2>2. QED BY <1>3, <2>1
            DEF Shutdown!TaskEnds, Shutdown!jobVars, GatewayInv, JobInv, Shutdown!TypeOK
<1>4. CASE Shutdown!AwaitNext
  <2>1. JobInv'
    BY <1>4 DEF Shutdown!AwaitNext, Shutdown!jobVars, GatewayInv, JobInv, Shutdown!SchedulerTypeOK,
       Shutdown!FiresOncePerSlot, Shutdown!OneProcessPerJob, Shutdown!EachRunIsReported
  <2>2. awaited' = awaited + 1 /\ awaited \in 0 .. 3 /\ loop' = loop /\ ended' = ended
    BY <1>0, <1>4 DEF Shutdown!AwaitNext, Shutdown!jobVars, GatewayInv, Shutdown!TypeOK
  <2>3. awaited' = 4 => loop = "ended"
    BY <1>0, <1>4, <2>2 DEF Shutdown!AwaitNext, Shutdown!HasEnded
  <2>4. main' \in {"exited", main} /\ main = "draining" /\ (main' = "exited" => awaited' = 4)
    BY <1>0, <1>4 DEF Shutdown!AwaitNext
  <2>5. QED BY <1>0, <2>1, <2>2, <2>3, <2>4 DEF GatewayInv, JobInv, Shutdown!TypeOK
<1>5. CASE UNCHANGED gatewayVars
  BY <1>5 DEF gatewayVars, GatewayInv, JobInv, Shutdown!TypeOK, Shutdown!SchedulerTypeOK,
     Shutdown!FiresOncePerSlot, Shutdown!OneProcessPerJob, Shutdown!EachRunIsReported
<1>6. QED BY <1>1, <1>2, <1>3, <1>4, <1>5 DEF Shutdown!Next

LEMMA GatewayInvariant == MCSpec => []GatewayInv
<1>1. MCInit => GatewayInv
  BY GatewayInit DEF MCInit
<1>2. [MCNext]_allVars => [Shutdown!Next]_gatewayVars
  BY DEF MCNext, Runs, allVars
<1>3. GatewayInv /\ [MCNext]_allVars => GatewayInv'
  BY <1>2, GatewayStep
<1>4. QED BY <1>1, <1>3, PTL DEF MCSpec

\* For any slots and however runs, timeouts, hanging processes and the signal meet: no
\* slot fires twice or late, one process runs, each run is reported in order, and the
\* gateway's exit leaves no run behind.
THEOREM RunsAreAccounted == MCSpec => []GatewayHolds
<1>1. GatewayInv => GatewayHolds
  <2> SUFFICES ASSUME GatewayInv PROVE Shutdown!ExitEndsRuns
    BY DEF GatewayInv, JobInv, GatewayHolds
  <2>1. CASE main = "exited"
    <3>1. loop = "ended"
      BY <2>1 DEF GatewayInv
    <3>2. QED BY <3>1 DEF GatewayInv, JobInv, Shutdown!ExitEndsRuns, Shutdown!OneProcessPerJob,
                  Shutdown!EachRunIsReported, Shutdown!SchedulerTypeOK
  <2>2. QED BY <2>1 DEF Shutdown!ExitEndsRuns
<1>2. QED BY <1>1, GatewayInvariant, PTL

-----------------------------------------------------------------------------
(* The chat turn.  While the agent's loop goes on, the calls under way are *)
(* those of its round, each in one place: a frame, the gateway's hand, the *)
(* inbox or the results.  When the round has all its results nothing of it *)
(* is under way any more, and the next round may use its ids again.        *)

Going == phase \notin Agent!Ended
IsCall(i) == i \in DOMAIN frames /\ frames[i].kind = "tool_call"
OfRound(c) == c.round = round /\ c.id \in Agent!ToSet(asked)

Framed(c) == \E i \in DOMAIN frames : IsCall(i) /\ frames[i].call = c
Returned(c) == \E i \in DOMAIN inbox : inbox[i].call = c
UnderWay(c) == Framed(c) \/ executing = c \/ Returned(c)

EachCallOnce ==
    /\ \A i, j : IsCall(i) /\ IsCall(j) /\ frames[i].call = frames[j].call => i = j
    /\ \A i, j \in DOMAIN inbox : inbox[i].call = inbox[j].call => i = j
    /\ \A c \in Agent!ToolCalls : Framed(c) => executing # c /\ ~Returned(c)
    /\ executing # None => ~Returned(executing)

TurnInv ==
    /\ Agent!TypeOK
    /\ phase \in {"provider", "collect", "again"} => round # 0
    /\ Going =>
         /\ EachCallOnce
         /\ \A c \in Agent!ToolCalls : UnderWay(c) => OfRound(c)
         /\ phase \in {"start", "again"} => \A c \in Agent!ToolCalls : ~UnderWay(c)
    /\ phase = "collect" =>
         \A x \in DOMAIN got : got[x].call = Agent!Call(x) /\ ~UnderWay(Agent!Call(x))
    /\ executing # None => told = "open"
    /\ told = "open" => listed \subseteq ran \cup {executing}
    /\ listed \subseteq Agent!ToolCalls
    /\ executing = None \/ executing \in Agent!ToolCalls
    /\ Agent!ResultsAnswerTheirCalls
    /\ Agent!DoneMeansRun

LEMMA TurnInit == Agent!Init => TurnInv
<1> SUFFICES ASSUME Agent!Init PROVE TurnInv
  OBVIOUS
<1>1. /\ transport \in {"request", "sse", "channel"} /\ phase = "start" /\ round = 0 /\ asked = <<>>
      /\ DOMAIN got = {} /\ inbox = <<>> /\ frames = <<>> /\ executing = None /\ told = "open"
      /\ prompt = {} /\ listed = {} /\ ran = {} /\ aborted = FALSE
  BY DEF Agent!Init
<1>2. 0 \in 0 .. MaxRounds
  BY BoundsAssumption
<1>3. inbox \in Seq(Agent!Results) /\ frames \in Seq(Agent!Frames) /\ asked \in Seq(CallIds)
  BY <1>1
<1>4. Agent!TypeOK
  BY <1>1, <1>2, <1>3 DEF Agent!TypeOK
<1>5. \A c \in Agent!ToolCalls : ~UnderWay(c)
  BY <1>1, CallAssumption DEF UnderWay, Framed, Returned, IsCall
<1>6. EachCallOnce
  BY <1>1, <1>5 DEF EachCallOnce, IsCall, UnderWay
<1>7. QED BY <1>1, <1>4, <1>5, <1>6
          DEF TurnInv, Agent!ResultsAnswerTheirCalls, Agent!DoneMeansRun

LEMMA CallsTyped ==
    ASSUME TurnInv
    PROVE  /\ \A i : IsCall(i) => frames[i].call \in Agent!ToolCalls
           /\ \A i \in DOMAIN inbox : inbox[i].call \in Agent!ToolCalls
<1>1. \A i \in DOMAIN frames : frames[i] \in Agent!Frames
  BY DEF TurnInv, Agent!TypeOK
<1>2. \A i \in DOMAIN inbox : inbox[i] \in Agent!Results
  BY DEF TurnInv, Agent!TypeOK
<1>3. \A f \in Agent!Frames : f.kind = "tool_call" => f.call \in Agent!ToolCalls
  BY DEF Agent!Frames
<1>4. QED BY <1>1, <1>2, <1>3 DEF IsCall, Agent!Results

LEMMA FrameAdded ==
    ASSUME TurnInv, NEW f \in Agent!Frames, frames' = Append(frames, f)
    PROVE  /\ frames' \in Seq(Agent!Frames)
           /\ \A i : IsCall(i)' <=> IsCall(i) \/ (i = Len(frames) + 1 /\ f.kind = "tool_call")
           /\ \A i \in DOMAIN frames : frames'[i] = frames[i]
           /\ frames'[Len(frames) + 1] = f
           /\ Len(frames) + 1 \notin DOMAIN frames
BY DEF TurnInv, Agent!TypeOK, IsCall

LEMMA FrameTaken ==
    ASSUME TurnInv, frames # <<>>, frames' = Tail(frames)
    PROVE  /\ frames' \in Seq(Agent!Frames)
           /\ Head(frames) = frames[1] /\ Head(frames) \in Agent!Frames
           /\ \A i : IsCall(i)' <=> i \in Nat \ {0} /\ IsCall(i + 1)
           /\ \A i \in DOMAIN frames' : frames'[i] = frames[i + 1]
BY DEF TurnInv, Agent!TypeOK, IsCall

LEMMA EndTyped ==
    ASSUME NEW kind \in {"done", "error"}
    PROVE  [kind |-> kind] \in Agent!Frames /\ [kind |-> kind].kind # "tool_call"
BY DEF Agent!Frames

\* Once the loop has ended only the gateway's half is left.
LEMMA LoopOver ==
    ASSUME TurnInv, phase' \in Agent!Ended, frames' \in Seq(Agent!Frames),
           UNCHANGED <<transport, executing, told, listed, ran, round, asked, aborted, prompt, inbox>>,
           got' = got \/ DOMAIN got' = {}
    PROVE  TurnInv'
<1>1. Agent!TypeOK'
  BY DEF TurnInv, Agent!TypeOK
<1>2. phase' \notin {"start", "provider", "collect", "again"}
  BY DEF Agent!Ended
<1>3. QED BY <1>1, <1>2
          DEF TurnInv, Going, Agent!ResultsAnswerTheirCalls, Agent!DoneMeansRun

LEMMA LoopEnds ==
    ASSUME TurnInv, NEW kind \in {"done", "error"}, Agent!End(kind),
           UNCHANGED <<transport, executing, told, listed, ran, round, asked, aborted, prompt, inbox>>,
           got' = got \/ DOMAIN got' = {}
    PROVE  TurnInv'
<1>1. phase' \in Agent!Ended
  BY DEF Agent!End, Agent!Ended
<1>2. frames' \in Seq(Agent!Frames)
  BY EndTyped, FrameAdded DEF Agent!End, Agent!Emit
<1>3. QED BY <1>1, <1>2, LoopOver

\* Where nothing is under way and nothing is sent, a step of the loop changes nothing
\* about the calls.
LEMMA CallsStay ==
    ASSUME UNCHANGED <<frames, executing, inbox>>
    PROVE  /\ \A c : UnderWay(c)' <=> UnderWay(c)
           /\ EachCallOnce' <=> EachCallOnce
BY DEF UnderWay, Framed, Returned, IsCall, EachCallOnce

LEMMA LoopKeeps ==
    ASSUME TurnInv,
           \/ Agent!StartRound \/ Agent!ProviderEnds \/ Agent!TakeResult \/ Agent!CollectIsCancelled
           \/ Agent!ResultIsLate \/ Agent!ExtendMessages \/ Agent!RefuseModel \/ Agent!ProviderFails
           \/ Agent!CancelArrives \/ Agent!AgentDies
           \/ \E id \in CallIds : Agent!EmitCall(id)
    PROVE  TurnInv'
<1> USE DEF Agent!gatewayVars
<1>0. /\ Agent!TypeOK /\ frames \in Seq(Agent!Frames) /\ inbox \in Seq(Agent!Results)
      /\ asked \in Seq(CallIds) /\ round \in 0 .. MaxRounds /\ MaxRounds \in Nat
  BY BoundsAssumption DEF TurnInv, Agent!TypeOK
<1>1. CASE Agent!StartRound
  <2>1. CASE \E kind \in {"done", "error"} : Agent!End(kind) /\ UNCHANGED <<round, asked>>
    BY <1>1, <2>1, LoopEnds DEF Agent!StartRound
  <2>2. CASE Agent!EnterRound /\ frames' = frames /\ round # MaxRounds
    <3>1. /\ phase \in {"start", "again"} /\ phase' = "provider" /\ round' = round + 1 /\ asked' = <<>>
          /\ UNCHANGED <<got, aborted, prompt, inbox, transport, executing, told, listed, ran, frames>>
      BY <1>1, <2>2 DEF Agent!StartRound, Agent!EnterRound
    <3>2. round' \in 0 .. MaxRounds /\ round' # 0
      BY <1>0, <2>2, <3>1
    <3>3. asked' \in Seq(CallIds)
      BY <3>1
    <3>4. Agent!TypeOK'
      BY <1>0, <3>1, <3>2, <3>3 DEF Agent!TypeOK
    <3>5. Going /\ \A c \in Agent!ToolCalls : ~UnderWay(c)
      BY <3>1 DEF TurnInv, Going, Agent!Ended
    <3>6. EachCallOnce' /\ \A c \in Agent!ToolCalls : ~UnderWay(c)'
      BY <3>1, <3>5, CallsStay DEF TurnInv
    <3>7. QED BY <3>1, <3>2, <3>4, <3>6
              DEF TurnInv, Agent!ResultsAnswerTheirCalls, Agent!DoneMeansRun
  <2>3. QED BY <1>1, <2>1, <2>2 DEF Agent!StartRound
<1>2. CASE Agent!ProviderEnds
  <2>1. CASE \E kind \in {"done", "error"} : Agent!End(kind)
    BY <1>2, <2>1, LoopEnds DEF Agent!ProviderEnds
  <2>2. CASE phase' = "collect" /\ frames' = frames
    <3>1. /\ phase = "provider" /\ DOMAIN got' = {}
          /\ UNCHANGED <<round, asked, aborted, prompt, inbox, transport, executing, told, listed, ran>>
      BY <1>2 DEF Agent!ProviderEnds
    <3>2. Agent!TypeOK'
      BY <1>0, <2>2, <3>1 DEF Agent!TypeOK
    <3>3. Going /\ round # 0
      BY <3>1 DEF TurnInv, Going, Agent!Ended
    <3>4. EachCallOnce' /\ \A c \in Agent!ToolCalls : UnderWay(c)' => OfRound(c)'
      BY <2>2, <3>1, <3>3, CallsStay DEF TurnInv, OfRound
    <3>5. QED BY <2>2, <3>1, <3>2, <3>3, <3>4
              DEF TurnInv, Agent!ResultsAnswerTheirCalls, Agent!DoneMeansRun
  <2>3. QED BY <1>2, <2>1, <2>2 DEF Agent!ProviderEnds
<1>3. CASE Agent!TakeResult
  <2>0. PICK r : r = Head(inbox)
    OBVIOUS
  <2>1. /\ phase = "collect" /\ inbox # <<>> /\ inbox' = Tail(inbox)
        /\ got' = [i \in DOMAIN got \cup {r.call.id} |-> IF i = r.call.id THEN r ELSE got[i]]
        /\ UNCHANGED <<phase, round, asked, aborted, prompt, frames, transport, executing, told, listed, ran>>
    BY <1>3, <2>0 DEF Agent!TakeResult
  <2>2. /\ r = inbox[1] /\ 1 \in DOMAIN inbox /\ r \in Agent!Results /\ r.call \in Agent!ToolCalls
        /\ inbox' \in Seq(Agent!Results)
        /\ \A i \in DOMAIN inbox' : i + 1 \in DOMAIN inbox /\ inbox'[i] = inbox[i + 1] /\ i + 1 # 1
        /\ \A i \in DOMAIN inbox : i = 1 \/ (i - 1 \in DOMAIN inbox' /\ inbox'[i - 1] = inbox[i])
    <3>1. Len(inbox) \in Nat /\ Len(inbox) # 0 /\ DOMAIN inbox = 1 .. Len(inbox) /\ r = inbox[1]
      BY <1>0, <2>0, <2>1
    <3>2. r \in Agent!Results
      BY <1>0, <3>1
    <3>3. inbox' \in Seq(Agent!Results) /\ Len(inbox') = Len(inbox) - 1
          /\ \A i \in 1 .. Len(inbox) - 1 : inbox'[i] = inbox[i + 1]
      BY <1>0, <2>1
    <3>4. DOMAIN inbox' = 1 .. Len(inbox) - 1
      BY <3>3
    <3>5. QED BY <3>1, <3>2, <3>3, <3>4 DEF Agent!Results
  <2>3. /\ Going /\ EachCallOnce /\ Returned(r.call) /\ OfRound(r.call) /\ r.call.id \in CallIds
        /\ r.call = Agent!Call(r.call.id)
    BY <2>1, <2>2 DEF TurnInv, Going, Agent!Ended, UnderWay, Returned, OfRound, Agent!Call, Agent!ToolCalls
  <2>4. \A c : Returned(c)' => Returned(c) /\ c # r.call
    BY <2>2, <2>3 DEF Returned, EachCallOnce
  <2>5. ~UnderWay(r.call)'
    <3>1. ~Framed(r.call) /\ executing # r.call
      BY <2>2, <2>3, CallAssumption DEF EachCallOnce
    <3>2. ~Framed(r.call)' /\ executing' # r.call
      BY <2>1, <3>1 DEF Framed, IsCall
    <3>3. ~Returned(r.call)'
      BY <2>4
    <3>4. QED BY <3>2, <3>3 DEF UnderWay
  <2>6. \A c : UnderWay(c)' => UnderWay(c)
    BY <2>1, <2>4 DEF UnderWay, Framed, IsCall
  <2>7. EachCallOnce'
    BY <2>1, <2>2, <2>3, <2>4 DEF EachCallOnce, Framed, IsCall
  <2>8. Agent!TypeOK'
    BY <1>0, <2>1, <2>2, <2>3 DEF Agent!TypeOK
  <2>9. \A x \in DOMAIN got' : got'[x].call = Agent!Call(x)' /\ ~UnderWay(Agent!Call(x))'
    <3>1. Agent!Call(r.call.id)' = r.call /\ \A x : Agent!Call(x)' = Agent!Call(x)
      BY <2>1, <2>3 DEF Agent!Call
    <3>2. got'[r.call.id].call = r.call
      BY <2>1
    <3>3. ASSUME NEW x \in DOMAIN got, x # r.call.id
          PROVE  got'[x].call = Agent!Call(x) /\ ~UnderWay(Agent!Call(x))'
      <4>1. got'[x] = got[x] /\ x \in DOMAIN got
        BY <2>1, <3>3
      <4>2. got[x].call = Agent!Call(x) /\ ~UnderWay(Agent!Call(x))
        BY <2>1, <4>1 DEF TurnInv
      <4>3. ~UnderWay(Agent!Call(x))'
        BY <2>1, <2>6, <4>2 DEF UnderWay, Framed, Returned, IsCall, Agent!Call
      <4>4. QED BY <4>1, <4>2, <4>3
    <3>4. QED BY <2>1, <2>5, <3>1, <3>2, <3>3
  <2>10. \A c \in Agent!ToolCalls : UnderWay(c)' => OfRound(c)'
    BY <2>1, <2>3, <2>6 DEF TurnInv, OfRound
  <2>11. QED BY <2>1, <2>7, <2>8, <2>9, <2>10
            DEF TurnInv, Agent!ResultsAnswerTheirCalls, Agent!DoneMeansRun
<1>4. CASE Agent!CollectIsCancelled \/ Agent!RefuseModel \/ Agent!ProviderFails \/ Agent!ResultIsLate
  BY <1>4, LoopEnds DEF Agent!CollectIsCancelled, Agent!RefuseModel, Agent!ProviderFails, Agent!ResultIsLate
<1>5. CASE Agent!AgentDies
  BY <1>0, <1>5, LoopOver DEF Agent!AgentDies, Agent!Ended
<1>6. CASE Agent!CancelArrives
  <2>1. aborted' = TRUE
        /\ UNCHANGED <<phase, round, asked, got, prompt, inbox, frames, transport, executing, told, listed, ran>>
    BY <1>6 DEF Agent!CancelArrives
  <2>2. Agent!TypeOK'
    BY <1>0, <2>1 DEF Agent!TypeOK
  <2>3. QED BY <2>1, <2>2, CallsStay
            DEF TurnInv, Going, OfRound, Agent!Call, Agent!ResultsAnswerTheirCalls, Agent!DoneMeansRun
<1>7. CASE Agent!ExtendMessages
  <2>1. /\ phase = "collect" /\ Agent!ToSet(asked) \subseteq DOMAIN got
        /\ prompt' = prompt \cup {[call |-> Agent!Call(id), result |-> got[id]] : id \in Agent!ToSet(asked)}
        /\ UNCHANGED <<round, asked, got, aborted, inbox, transport, executing, told, listed, ran>>
    BY <1>7 DEF Agent!ExtendMessages, Agent!Missing
  <2>2. Agent!ResultsAnswerTheirCalls'
    <3>1. \A id \in Agent!ToSet(asked) : got[id].call = Agent!Call(id)
      BY <2>1 DEF TurnInv
    <3>2. QED BY <2>1, <3>1 DEF TurnInv, Agent!ResultsAnswerTheirCalls
  <2>3. CASE Agent!End("done")
    <3>1. phase' \in Agent!Ended /\ frames' \in Seq(Agent!Frames)
      BY <2>3, EndTyped, FrameAdded DEF Agent!End, Agent!Emit, Agent!Ended
    <3>2. Agent!TypeOK' /\ phase' \notin {"start", "provider", "collect", "again"}
      BY <1>0, <2>1, <3>1 DEF Agent!TypeOK, Agent!Ended
    <3>3. QED BY <2>1, <2>2, <3>1, <3>2 DEF TurnInv, Going, Agent!DoneMeansRun
  <2>4. CASE phase' = "again" /\ frames' = frames
    <3>1. Going /\ round # 0 /\ EachCallOnce
      BY <2>1 DEF TurnInv, Going, Agent!Ended
    <3>2. ASSUME NEW c \in Agent!ToolCalls, UnderWay(c) PROVE FALSE
      <4>1. OfRound(c) /\ c = Agent!Call(c.id)
        BY <3>1, <3>2 DEF TurnInv, OfRound, Agent!Call, Agent!ToolCalls
      <4>2. c.id \in DOMAIN got
        BY <2>1, <4>1 DEF OfRound
      <4>3. QED BY <2>1, <3>2, <4>1, <4>2 DEF TurnInv
    <3>3. EachCallOnce' /\ \A c \in Agent!ToolCalls : ~UnderWay(c)'
      BY <2>1, <2>4, <3>1, <3>2, CallsStay
    <3>4. Agent!TypeOK'
      BY <1>0, <2>1, <2>4 DEF Agent!TypeOK
    <3>5. QED BY <2>1, <2>2, <2>4, <3>1, <3>3, <3>4 DEF TurnInv, Agent!DoneMeansRun
  <2>5. QED BY <1>7, <2>3, <2>4 DEF Agent!ExtendMessages
<1>8. ASSUME NEW id \in CallIds, Agent!EmitCall(id) PROVE TurnInv'
  <2> DEFINE f == [kind |-> "tool_call", call |-> Agent!Call(id)]
  <2>1. /\ phase = "provider" /\ id \notin Agent!ToSet(asked) /\ asked' = Append(asked, id)
        /\ frames' = Append(frames, f)
        /\ UNCHANGED <<phase, round, got, aborted, prompt, inbox, transport, executing, told, listed, ran>>
    BY <1>0, <1>8 DEF Agent!EmitCall, Agent!Emit, Agent!Contains, Agent!ToSet
  <2>2. round # 0 /\ Agent!Call(id) \in Agent!ToolCalls /\ f \in Agent!Frames /\ f.kind = "tool_call"
        /\ Agent!Call(id).id = id
    BY <1>0, <2>1 DEF TurnInv, Agent!Call, Agent!ToolCalls, Agent!Frames
  <2>3. /\ asked' \in Seq(CallIds) /\ id \in Agent!ToSet(asked)'
        /\ \A x \in Agent!ToSet(asked) : x \in Agent!ToSet(asked)'
    <3>1. asked' \in Seq(CallIds) /\ Len(asked') = Len(asked) + 1 /\ asked'[Len(asked) + 1] = id
          /\ \A i \in DOMAIN asked : i \in DOMAIN asked' /\ asked'[i] = asked[i]
      BY <1>0, <2>1
    <3>2. Len(asked) + 1 \in DOMAIN asked'
      BY <1>0, <3>1
    <3>3. QED BY <3>1, <3>2 DEF Agent!ToSet
  <2>4. Going /\ EachCallOnce
    BY <2>1 DEF TurnInv, Going, Agent!Ended
  <2>5. ~UnderWay(Agent!Call(id))
    BY <2>1, <2>2, <2>4 DEF TurnInv, OfRound
  <2>6. \A c : UnderWay(c)' => UnderWay(c) \/ c = Agent!Call(id)
    BY <2>1, <2>2, FrameAdded DEF UnderWay, Framed, Returned, IsCall
  <2>7. EachCallOnce'
    BY <2>1, <2>2, <2>4, <2>5, FrameAdded, CallsTyped DEF EachCallOnce, UnderWay, Framed, Returned, IsCall
  <2>8. \A c \in Agent!ToolCalls : UnderWay(c)' => OfRound(c)'
    BY <2>1, <2>2, <2>3, <2>4, <2>6 DEF TurnInv, OfRound, Agent!Call
  <2>9. Agent!TypeOK'
    BY <1>0, <2>1, <2>2, <2>3, FrameAdded DEF Agent!TypeOK
  <2>10. QED BY <2>1, <2>2, <2>7, <2>8, <2>9
            DEF TurnInv, Agent!ResultsAnswerTheirCalls, Agent!DoneMeansRun
<1>9. QED BY <1>1, <1>2, <1>3, <1>4, <1>5, <1>6, <1>7, <1>8

\* Calls that only become fewer stay those of the round.
LEMMA CallsLeave ==
    ASSUME TurnInv, UNCHANGED <<phase, round, asked, got>>, EachCallOnce => EachCallOnce',
           \A c \in Agent!ToolCalls : UnderWay(c)' => UnderWay(c)
    PROVE  /\ phase' \in {"provider", "collect", "again"} => round' # 0
           /\ Going' =>
                /\ EachCallOnce'
                /\ \A c \in Agent!ToolCalls : UnderWay(c)' => OfRound(c)'
                /\ phase' \in {"start", "again"} => \A c \in Agent!ToolCalls : ~UnderWay(c)'
           /\ phase' = "collect" =>
                \A x \in DOMAIN got' : got'[x].call = Agent!Call(x)' /\ ~UnderWay(Agent!Call(x))'
<1>1. ASSUME phase' = "collect", NEW x \in DOMAIN got'
      PROVE  got'[x].call = Agent!Call(x)' /\ ~UnderWay(Agent!Call(x))'
  <2>1. PICK c : c = Agent!Call(x)
    OBVIOUS
  <2>2. got[x].call = c /\ ~UnderWay(c) /\ got[x] \in Agent!Results
    BY <1>1, <2>1 DEF TurnInv, Agent!TypeOK
  <2>3. c \in Agent!ToolCalls
    BY <2>2 DEF Agent!Results
  <2>4. ~UnderWay(c)' /\ Agent!Call(x)' = c
    BY <2>1, <2>2, <2>3 DEF Agent!Call
  <2>5. QED BY <1>1, <2>2, <2>4
<1>2. QED BY <1>1 DEF TurnInv, Going, OfRound

LEMMA TurnGatewayStep ==
    ASSUME TurnInv,
           \/ Agent!TakeCall \/ Agent!ExecutionEnds \/ Agent!ExecutionFails \/ Agent!TakeEnd
           \/ Agent!StreamBreaks \/ Agent!CallerLeaves
    PROVE  TurnInv'
<1> USE DEF Agent!loopVars, Agent!Listening
<1>0. /\ Agent!TypeOK /\ frames \in Seq(Agent!Frames) /\ inbox \in Seq(Agent!Results)
      /\ UNCHANGED <<phase, round, asked, got, aborted, prompt, transport>>
  BY DEF TurnInv, Agent!TypeOK, Agent!TakeCall, Agent!ExecutionEnds, Agent!ExecutionFails,
     Agent!TakeEnd, Agent!StreamBreaks, Agent!CallerLeaves
<1>a. \A c \in Agent!ToolCalls : c # None
  BY CallAssumption
<1>1. CASE Agent!TakeCall
  <2>0. PICK f : f = Head(frames)
    OBVIOUS
  <2>1. /\ told = "open" /\ executing = None /\ frames # <<>> /\ f.kind = "tool_call"
        /\ executing' = f.call /\ listed' = listed \cup {f.call} /\ frames' = Tail(frames)
        /\ UNCHANGED <<told, ran, inbox>>
    BY <1>1, <2>0 DEF Agent!TakeCall
  <2>2. /\ frames' \in Seq(Agent!Frames) /\ f = frames[1] /\ f \in Agent!Frames
        /\ \A i : IsCall(i)' => i \in Nat \ {0} /\ i + 1 # 1 /\ IsCall(i + 1)
        /\ \A i : IsCall(i)' => frames'[i] = frames[i + 1]
        /\ IsCall(1)
    BY <1>0, <2>0, <2>1, FrameTaken DEF IsCall
  <2>3. f.call \in Agent!ToolCalls /\ Framed(f.call)
    <3>1. frames[1].call \in Agent!ToolCalls
      BY <2>2, CallsTyped
    <3>2. QED BY <2>2, <3>1 DEF Framed, IsCall
  <2>4. ASSUME EachCallOnce, NEW c, Framed(c)' PROVE Framed(c) /\ c # f.call
    <3>1. PICK i : IsCall(i)' /\ frames'[i].call = c
      BY <2>4 DEF Framed, IsCall
    <3>2. IsCall(i + 1) /\ frames[i + 1].call = c /\ i + 1 # 1
      BY <2>2, <3>1
    <3>3. QED BY <2>2, <2>4, <3>2 DEF Framed, EachCallOnce, IsCall
  <2>5. \A c : UnderWay(c)' => UnderWay(c)
    <3>1. ASSUME NEW c, Framed(c)' PROVE Framed(c)
      <4>1. PICK i : IsCall(i)' /\ frames'[i].call = c
        BY <3>1 DEF Framed, IsCall
      <4>2. IsCall(i + 1) /\ frames[i + 1].call = c
        BY <2>2, <4>1
      <4>3. QED BY <4>2 DEF Framed, IsCall
    <3>2. QED BY <2>1, <2>3, <3>1 DEF UnderWay, Returned
  <2>6. EachCallOnce => EachCallOnce'
    <3>1. ASSUME EachCallOnce, NEW i, NEW j, IsCall(i)', IsCall(j)', frames'[i].call = frames'[j].call
          PROVE  i = j
      <4>1. IsCall(i + 1) /\ IsCall(j + 1) /\ frames[i + 1].call = frames[j + 1].call
            /\ i \in Nat /\ j \in Nat
        BY <2>2, <3>1
      <4>2. i + 1 = j + 1
        BY <3>1, <4>1 DEF EachCallOnce
      <4>3. QED BY <4>1, <4>2
    <3>2. \A c : Returned(c)' <=> Returned(c)
      BY <2>1 DEF Returned
    <3>3. ASSUME EachCallOnce, NEW c \in Agent!ToolCalls, Framed(c)'
          PROVE  executing' # c /\ ~Returned(c)'
      BY <2>1, <2>4, <3>2, <3>3 DEF EachCallOnce
    <3>4. EachCallOnce => ~Returned(executing)'
      BY <2>1, <2>3 DEF EachCallOnce, Returned
    <3>5. QED BY <2>1, <3>1, <3>3, <3>4 DEF EachCallOnce
  <2>7. Agent!TypeOK'
    BY <1>0, <2>1, <2>2, <2>3 DEF Agent!TypeOK
  <2>8. /\ listed \subseteq Agent!ToolCalls /\ listed \subseteq ran \cup {executing}
        /\ Agent!ResultsAnswerTheirCalls
    BY <2>1 DEF TurnInv
  <2>9. listed' \subseteq Agent!ToolCalls /\ listed' \subseteq ran' \cup {executing'}
    BY <1>a, <2>1, <2>3, <2>8
  <2>10. Agent!ResultsAnswerTheirCalls' /\ Agent!DoneMeansRun'
    BY <1>0, <2>1, <2>8 DEF Agent!ResultsAnswerTheirCalls, Agent!DoneMeansRun
  <2>11. QED BY <1>0, <2>1, <2>3, <2>5, <2>6, <2>7, <2>9, <2>10, CallsLeave DEF TurnInv
<1>2. CASE Agent!ExecutionEnds
  <2>1. PICK r \in [call : {executing}, placeholder : BOOLEAN] :
            /\ executing # None /\ inbox' = Append(inbox, r) /\ r.call = executing
            /\ ran' = ran \cup {executing} /\ executing' = None
            /\ UNCHANGED <<told, listed, frames>>
    BY <1>2 DEF Agent!ExecutionEnds
  <2>2. executing \in Agent!ToolCalls /\ r \in Agent!Results
    BY <2>1 DEF TurnInv, Agent!Results
  <2>3. /\ inbox' \in Seq(Agent!Results) /\ Len(inbox') = Len(inbox) + 1
        /\ DOMAIN inbox' = DOMAIN inbox \cup {Len(inbox) + 1} /\ Len(inbox) + 1 \notin DOMAIN inbox
        /\ inbox'[Len(inbox) + 1] = r /\ \A i \in DOMAIN inbox : inbox'[i] = inbox[i]
    BY <1>0, <2>1, <2>2
  <2>4. \A c : Returned(c)' <=> Returned(c) \/ c = executing
    BY <2>1, <2>3 DEF Returned
  <2>5. \A c : Framed(c)' <=> Framed(c)
    BY <2>1 DEF Framed, IsCall
  <2>6. \A c : UnderWay(c)' => UnderWay(c) \/ c = None
    BY <2>1, <2>4, <2>5 DEF UnderWay
  <2>7. EachCallOnce => EachCallOnce'
    <3>1. ASSUME EachCallOnce PROVE \A i, j \in DOMAIN inbox' : inbox'[i].call = inbox'[j].call => i = j
      <4>1. \A i \in DOMAIN inbox : inbox[i].call # executing
        BY <2>1, <3>1 DEF EachCallOnce, Returned
      <4>2. QED BY <2>1, <2>3, <3>1, <4>1 DEF EachCallOnce
    <3>2. ASSUME EachCallOnce, NEW c \in Agent!ToolCalls, Framed(c)'
          PROVE  executing' # c /\ ~Returned(c)'
      BY <1>a, <2>1, <2>4, <2>5, <3>2 DEF EachCallOnce
    <3>3. QED BY <2>1, <3>1, <3>2 DEF EachCallOnce, IsCall
  <2>8. Agent!TypeOK'
    BY <1>0, <2>1, <2>3 DEF Agent!TypeOK
  <2>9. QED BY <1>0, <1>a, <2>1, <2>6, <2>7, <2>8, CallsLeave
            DEF TurnInv, Agent!ResultsAnswerTheirCalls, Agent!DoneMeansRun
<1>3. CASE \/ Agent!ExecutionFails \/ Agent!TakeEnd \/ Agent!StreamBreaks \/ Agent!CallerLeaves
  <2>1. /\ executing' = None /\ inbox' = inbox
        /\ told' \in {"open", "done", "error", "left"}
        /\ frames' = frames \/ (frames # <<>> /\ frames' = Tail(frames))
    BY <1>0, <1>3, FrameTaken DEF Agent!ExecutionFails, Agent!TakeEnd, Agent!StreamBreaks,
       Agent!CallerLeaves, TurnInv, Agent!TypeOK
  <2>2. /\ frames' \in Seq(Agent!Frames)
        /\ \/ \A i : IsCall(i)' => IsCall(i) /\ frames'[i] = frames[i]
           \/ \A i : IsCall(i)' => i \in Nat /\ IsCall(i + 1) /\ frames'[i] = frames[i + 1]
    BY <1>0, <2>1, FrameTaken DEF IsCall
  <2>3. \A c : Framed(c)' => Framed(c)
    BY <2>2 DEF Framed, IsCall
  <2>4. \A c : Returned(c)' <=> Returned(c)
    BY <2>1 DEF Returned
  <2>5. EachCallOnce => EachCallOnce'
    <3>1. ASSUME EachCallOnce, NEW i, NEW j, IsCall(i)', IsCall(j)', frames'[i].call = frames'[j].call
          PROVE  i = j
      <4>1. CASE IsCall(i) /\ IsCall(j) /\ frames[i].call = frames[j].call
        BY <3>1, <4>1 DEF EachCallOnce
      <4>2. CASE IsCall(i + 1) /\ IsCall(j + 1) /\ frames[i + 1].call = frames[j + 1].call
                 /\ i \in Nat /\ j \in Nat
        <5>1. i + 1 = j + 1
          BY <3>1, <4>2 DEF EachCallOnce
        <5>2. QED BY <4>2, <5>1
      <4>3. QED BY <2>2, <3>1, <4>1, <4>2
    <3>2. QED BY <1>a, <2>1, <2>3, <2>4, <3>1 DEF EachCallOnce
  <2>6. \A c \in Agent!ToolCalls : UnderWay(c)' => UnderWay(c)
    BY <1>a, <2>1, <2>3, <2>4 DEF UnderWay
  <2>7. Agent!TypeOK'
    BY <1>0, <2>1, <2>2 DEF Agent!TypeOK
  <2>8. /\ told' = "open" => listed' \subseteq ran' \cup {executing'}
        /\ Agent!DoneMeansRun'
    <3>1. /\ told = "open" /\ listed \subseteq ran \cup {executing} /\ listed \subseteq Agent!ToolCalls
          /\ listed' = listed
      BY <1>3 DEF Agent!ExecutionFails, Agent!TakeEnd, Agent!StreamBreaks, Agent!CallerLeaves, TurnInv
    <3>2. \/ ran' = ran \cup {executing}
          \/ executing = None /\ ran' = ran
          \/ told' = "left"
      BY <1>3 DEF Agent!ExecutionFails, Agent!TakeEnd, Agent!StreamBreaks, Agent!CallerLeaves
    <3>3. told' = "left" \/ listed' \subseteq ran'
      BY <1>a, <3>1, <3>2
    <3>4. QED BY <3>3 DEF Agent!DoneMeansRun
  <2>9. listed' = listed
    BY <1>3 DEF Agent!ExecutionFails, Agent!TakeEnd, Agent!StreamBreaks, Agent!CallerLeaves
  <2>10. QED BY <1>0, <2>1, <2>5, <2>6, <2>7, <2>8, <2>9, CallsLeave
            DEF TurnInv, Agent!ResultsAnswerTheirCalls
<1>4. QED BY <1>1, <1>2, <1>3

LEMMA TurnHolds == MCSpec => []TurnInv
<1>1. MCInit => TurnInv
  BY TurnInit DEF MCInit
<1>2. [MCNext]_allVars => [Agent!Next]_agentVars
  BY DEF MCNext, Runs, allVars
<1>3. ASSUME TurnInv, [Agent!Next]_agentVars PROVE TurnInv'
  <2>1. CASE Agent!Next
    BY <1>3, <2>1, LoopKeeps, TurnGatewayStep DEF Agent!Next, Agent!LoopStep, Agent!GatewayStep
  <2>2. CASE UNCHANGED agentVars
    <3>1. Agent!TypeOK'
      BY <1>3, <2>2 DEF agentVars, TurnInv, Agent!TypeOK
    <3>2. QED BY <1>3, <2>2, <3>1, CallsStay
              DEF agentVars, TurnInv, Going, OfRound, UnderWay, Framed, Returned, IsCall, Agent!Call,
                  Agent!ResultsAnswerTheirCalls, Agent!DoneMeansRun
  <2>3. QED BY <1>3, <2>1, <2>2
<1>4. TurnInv /\ [MCNext]_allVars => TurnInv'
  BY <1>2, <1>3
<1>5. QED BY <1>1, <1>4, PTL DEF MCSpec

\* For any ids and number of rounds, though every round uses the ids again and results
\* come late: a result is taken for its own call, and "done" means that what the
\* response lists has run.
THEOREM ResultsMeetTheirCalls == MCSpec => []ChatHolds
<1>1. TurnInv => ChatHolds
  BY DEF TurnInv, ChatHolds
<1>2. QED BY <1>1, TurnHolds, PTL

-----------------------------------------------------------------------------
(* The QQ channel.  A message is in one place on its way in (the client's  *)
(* hand, the event queue) and its reply in one on its way out (the action  *)
(* queue, the client's hand, delivered), and none is on both ways.         *)

Has(s, m) == \E i \in DOMAIN s : s[i] = m
NoRepeats(s) == \A i, j \in DOMAIN s : s[i] = s[j] => i = j

LEMMA Appended ==
    ASSUME NEW S, NEW s \in Seq(S), NEW e \in S
    PROVE  /\ Append(s, e) \in Seq(S) /\ Len(Append(s, e)) = Len(s) + 1
           /\ \A m : Has(Append(s, e), m) <=> Has(s, m) \/ m = e
           /\ NoRepeats(s) /\ ~Has(s, e) => NoRepeats(Append(s, e))
<1>1. /\ Append(s, e) \in Seq(S) /\ Len(Append(s, e)) = Len(s) + 1
      /\ DOMAIN Append(s, e) = DOMAIN s \cup {Len(s) + 1} /\ Len(s) + 1 \notin DOMAIN s
      /\ Append(s, e)[Len(s) + 1] = e /\ \A i \in DOMAIN s : Append(s, e)[i] = s[i]
  OBVIOUS
<1>2. QED BY <1>1 DEF Has, NoRepeats

LEMMA Taken ==
    ASSUME NEW S, NEW s \in Seq(S), s # <<>>
    PROVE  /\ Tail(s) \in Seq(S) /\ Head(s) \in S /\ Len(Tail(s)) = Len(s) - 1 /\ Len(s) \in Nat
           /\ \A m : Has(s, m) <=> m = Head(s) \/ Has(Tail(s), m)
           /\ NoRepeats(s) => NoRepeats(Tail(s)) /\ ~Has(Tail(s), Head(s))
<1> DEFINE t == Tail(s)
<1>1. /\ t \in Seq(S) /\ Head(s) = s[1] /\ s[1] \in S /\ Len(t) = Len(s) - 1 /\ Len(s) \in Nat
      /\ DOMAIN s = 1 .. Len(s) /\ DOMAIN t = 1 .. Len(s) - 1 /\ Len(s) # 0
      /\ \A i \in DOMAIN t : t[i] = s[i + 1]
  OBVIOUS
<1>2. \A i \in DOMAIN t : i + 1 \in DOMAIN s /\ i + 1 # 1
  BY <1>1
<1>3. \A i \in DOMAIN s : i # 1 => i - 1 \in DOMAIN t /\ t[i - 1] = s[i]
  BY <1>1
<1>4. ASSUME NEW m PROVE Has(s, m) <=> m = Head(s) \/ Has(t, m)
  <2>1. Has(s, m) => m = Head(s) \/ Has(t, m)
    BY <1>1, <1>3 DEF Has
  <2>2. Has(t, m) => Has(s, m)
    BY <1>1, <1>2 DEF Has
  <2>3. Has(s, Head(s))
    BY <1>1 DEF Has
  <2>4. QED BY <2>1, <2>2, <2>3
<1>5. ASSUME NoRepeats(s) PROVE NoRepeats(t)
  <2>1. ASSUME NEW i \in DOMAIN t, NEW j \in DOMAIN t, t[i] = t[j] PROVE i = j
    <3>1. i + 1 = j + 1
      BY <1>1, <1>2, <1>5, <2>1 DEF NoRepeats
    <3>2. QED BY <1>1, <2>1, <3>1
  <2>2. QED BY <2>1 DEF NoRepeats
<1>6. NoRepeats(s) => ~Has(t, Head(s))
  BY <1>1, <1>2 DEF NoRepeats, Has
<1>7. QED BY <1>1, <1>4, <1>5, <1>6

Forwarding(m) == qq_client = "forwarding" /\ hand = m
Sending(m) == qq_client = "sending" /\ hand = m

WaysIn ==
    /\ arrived \in 0 .. MaxMessages
    /\ NoRepeats(eventQueue)
    /\ \A m \in QQ!Messages :
         /\ Has(eventQueue, m) \/ Forwarding(m) => chat[m] = "none" /\ m <= arrived
         /\ Forwarding(m) => ~Has(eventQueue, m)
         /\ m > arrived => chat[m] = "none"
         /\ m \in answered => chat[m] \in {"replying", "done"}

WaysOut ==
    /\ delivered \in Seq(QQ!Messages) /\ answered \subseteq QQ!Messages
    /\ NoRepeats(actionQueue) /\ NoRepeats(delivered)
    /\ \A m \in QQ!Messages :
         /\ Has(actionQueue, m) \/ Sending(m) => chat[m] = "done"
         /\ Has(actionQueue, m) \/ Sending(m) \/ Has(delivered, m) => m \in answered
         /\ Has(delivered, m) => chat[m] = "done"
         /\ chat[m] = "replying" => m \in answered
         /\ Has(actionQueue, m) => ~Sending(m)
         /\ Has(actionQueue, m) \/ Sending(m) => ~Has(delivered, m)

NoneIsLost ==
    \/ qq_stopping
    \/ \A m \in answered :
         chat[m] = "replying" \/ Has(actionQueue, m) \/ Sending(m) \/ Has(delivered, m) \/ m \in broken

QqInv ==
    /\ QQ!TypeOK
    /\ qq_client \in {"sending", "forwarding"} => hand \in QQ!Messages
    /\ qq_client = "ended" => qq_stopping
    /\ WaysIn /\ WaysOut /\ NoneIsLost

LEMMA QqInit == QQ!Init => QqInv
<1> SUFFICES ASSUME QQ!Init PROVE QqInv
  OBVIOUS
<1>1. /\ qq_client = "connecting" /\ hand = 0 /\ eventQueue = <<>> /\ actionQueue = <<>> /\ arrived = 0
      /\ chat = [m \in QQ!Messages |-> "none"] /\ answered = {} /\ delivered = <<>>
  BY DEF QQ!Init, QQ!Nothing
<1>2. \A m : ~Has(<<>>, m)
  BY DEF Has
<1>3. NoRepeats(<<>>)
  BY DEF NoRepeats
<1>4. Len(<<>>) = 0 /\ 0 <= QueueRoom /\ 0 \in 0 .. MaxMessages
  BY BoundsAssumption
<1>5. <<>> \in Seq(QQ!Messages)
  OBVIOUS
<1>6. QQ!TypeOK
  BY <1>1, <1>4, <1>5 DEF QQ!TypeOK, QQ!Nothing
<1>7. QED BY <1>1, <1>2, <1>3, <1>4, <1>5, <1>6 DEF QqInv, WaysIn, WaysOut, NoneIsLost, Forwarding, Sending

LEMMA QqStep ==
    ASSUME QqInv, [QQ!Next]_qqVars
    PROVE  QqInv'
<1> USE DEF QQ!Nothing, QQ!clientVars, QQ!chatVars, QQ!peerVars, Forwarding, Sending
<1>0. /\ eventQueue \in Seq(QQ!Messages) /\ actionQueue \in Seq(QQ!Messages)
      /\ delivered \in Seq(QQ!Messages) /\ arrived \in 0 .. MaxMessages
      /\ Len(eventQueue) \in Nat /\ Len(actionQueue) \in Nat /\ 0 \notin QQ!Messages
      /\ chat \in [QQ!Messages -> {"none", "dropped", "running", "replying", "done"}]
      /\ MaxMessages \in Nat /\ QueueRoom \in Nat /\ QQ!Messages \subseteq Nat
  BY BoundsAssumption DEF QqInv, QQ!TypeOK, WaysIn, WaysOut, QQ!Messages
<1>1. CASE \/ QQ!Connect \/ QQ!ConnectFails \/ QQ!ClientStops \/ QQ!PeerCloses \/ QQ!Redial
  <2>1. /\ qq_client \notin {"sending", "forwarding"} /\ qq_client' \notin {"sending", "forwarding"}
        /\ qq_client' \in {"connecting", "connected", "backoff", "ended"}
        /\ qq_client' = "ended" => qq_stopping
        /\ UNCHANGED <<hand, eventQueue, actionQueue, chat, answered, arrived, delivered, broken, qq_stopping>>
    BY <1>1 DEF QQ!Connect, QQ!ConnectFails, QQ!ClientStops, QQ!PeerCloses, QQ!Redial
  <2>2. QED BY <2>1 DEF QqInv, QQ!TypeOK, WaysIn, WaysOut, NoneIsLost
<1>2. CASE QQ!TakeAction
  <2>0. PICK h : h = Head(actionQueue)
    OBVIOUS
  <2>1. /\ qq_client = "connected" /\ actionQueue # <<>> /\ qq_client' = "sending" /\ hand' = h
        /\ actionQueue' = Tail(actionQueue)
        /\ UNCHANGED <<eventQueue, chat, answered, arrived, delivered, broken, qq_stopping>>
    BY <1>2, <2>0 DEF QQ!TakeAction
  <2>2. /\ actionQueue' \in Seq(QQ!Messages) /\ h \in QQ!Messages /\ Len(actionQueue') = Len(actionQueue) - 1
        /\ \A m : Has(actionQueue, m) <=> m = h \/ Has(actionQueue', m)
        /\ NoRepeats(actionQueue') /\ ~Has(actionQueue', h)
    BY <1>0, <2>0, <2>1, Taken DEF QqInv, WaysOut
  <2>3. QQ!TypeOK'
    BY <1>0, <2>1, <2>2 DEF QqInv, QQ!TypeOK
  <2>4. WaysIn'
    BY <2>1 DEF QqInv, WaysIn
  <2>5. WaysOut'
    BY <1>0, <2>1, <2>2 DEF QqInv, WaysOut
  <2>6. NoneIsLost'
    BY <2>1, <2>2 DEF QqInv, NoneIsLost
  <2>7. QED BY <2>1, <2>2, <2>3, <2>4, <2>5, <2>6 DEF QqInv
<1>3. CASE QQ!SendAction \/ QQ!SendFails
  <2>0. PICK h : h = hand
    OBVIOUS
  <2>1. /\ qq_client = "sending" /\ hand' = 0
        /\ qq_client' \in {"connected", "backoff"}
        /\ \/ delivered' = Append(delivered, h) /\ broken \subseteq broken'
           \/ delivered' = delivered /\ broken' = broken \cup {h}
        /\ UNCHANGED <<eventQueue, actionQueue, chat, answered, arrived, qq_stopping>>
    BY <1>3, <2>0 DEF QQ!SendAction, QQ!SendFails
  <2>2. h \in QQ!Messages /\ ~Has(delivered, h) /\ h \in answered /\ chat[h] = "done" /\ ~Has(actionQueue, h)
    BY <2>0, <2>1 DEF QqInv, WaysOut
  <2>3. /\ delivered' \in Seq(QQ!Messages) /\ NoRepeats(delivered')
        /\ \A m : Has(delivered', m) => Has(delivered, m) \/ m = h
        /\ \A m : Has(delivered, m) => Has(delivered', m)
        /\ Has(delivered', h) \/ h \in broken'
    <3>1. NoRepeats(delivered)
      BY DEF QqInv, WaysOut
    <3>2. CASE delivered' = Append(delivered, h)
      BY <1>0, <2>2, <3>1, <3>2, Appended
    <3>3. CASE delivered' = delivered /\ broken' = broken \cup {h}
      BY <1>0, <3>1, <3>3
    <3>4. QED BY <2>1, <3>2, <3>3
  <2>4. QQ!TypeOK'
    BY <1>0, <2>1 DEF QqInv, QQ!TypeOK
  <2>5. WaysIn'
    BY <2>1 DEF QqInv, WaysIn
  <2>6. WaysOut'
    BY <1>0, <2>1, <2>2, <2>3 DEF QqInv, WaysOut
  <2>7. NoneIsLost'
    BY <2>0, <2>1, <2>2, <2>3 DEF QqInv, NoneIsLost
  <2>8. QED BY <2>1, <2>4, <2>5, <2>6, <2>7 DEF QqInv
<1>4. CASE QQ!ReadEvent
  <2>1. /\ qq_client = "connected" /\ arrived < MaxMessages /\ arrived' = arrived + 1
        /\ qq_client' = "forwarding" /\ hand' = arrived'
        /\ UNCHANGED <<eventQueue, actionQueue, chat, answered, delivered, broken, qq_stopping>>
    BY <1>4 DEF QQ!ReadEvent
  <2>2. arrived' \in 0 .. MaxMessages /\ hand' \in QQ!Messages /\ hand' = arrived + 1 /\ arrived \in Nat
    BY <1>0, <2>1 DEF QQ!Messages
  <2>3. QQ!TypeOK'
    BY <1>0, <2>1, <2>2 DEF QqInv, QQ!TypeOK
  <2>4. WaysIn'
    BY <1>0, <2>1, <2>2 DEF QqInv, WaysIn
  <2>5. WaysOut'
    BY <2>1 DEF QqInv, WaysOut
  <2>6. NoneIsLost'
    BY <2>1 DEF QqInv, NoneIsLost
  <2>7. QED BY <2>1, <2>2, <2>3, <2>4, <2>5, <2>6 DEF QqInv
<1>5. CASE QQ!ForwardEvent
  <2>0. PICK h : h = hand
    OBVIOUS
  <2>1. /\ qq_client = "forwarding" /\ Len(eventQueue) < QueueRoom /\ eventQueue' = Append(eventQueue, h)
        /\ qq_client' = "connected" /\ hand' = 0
        /\ UNCHANGED <<actionQueue, chat, answered, arrived, delivered, broken, qq_stopping>>
    BY <1>5, <2>0 DEF QQ!ForwardEvent
  <2>2. h \in QQ!Messages /\ ~Has(eventQueue, h) /\ chat[h] = "none" /\ h <= arrived
    BY <2>0, <2>1 DEF QqInv, WaysIn
  <2>3. /\ eventQueue' \in Seq(QQ!Messages) /\ Len(eventQueue') = Len(eventQueue) + 1
        /\ \A m : Has(eventQueue', m) <=> Has(eventQueue, m) \/ m = h
        /\ NoRepeats(eventQueue')
    BY <1>0, <2>1, <2>2, Appended DEF QqInv, WaysIn
  <2>4. QQ!TypeOK'
    BY <1>0, <2>1, <2>3 DEF QqInv, QQ!TypeOK
  <2>5. WaysIn'
    BY <2>1, <2>2, <2>3 DEF QqInv, WaysIn
  <2>6. WaysOut'
    BY <2>1 DEF QqInv, WaysOut
  <2>7. NoneIsLost'
    BY <2>1 DEF QqInv, NoneIsLost
  <2>8. QED BY <2>1, <2>4, <2>5, <2>6, <2>7 DEF QqInv
<1>6. CASE QQ!ForwardFails
  <2>1. /\ qq_client = "forwarding" /\ qq_stopping /\ qq_client' = "ended" /\ hand' = 0
        /\ UNCHANGED <<eventQueue, actionQueue, chat, answered, arrived, delivered, broken, qq_stopping>>
    BY <1>6 DEF QQ!ForwardFails
  <2>2. QED BY <2>1 DEF QqInv, QQ!TypeOK, WaysIn, WaysOut, NoneIsLost
<1>7. CASE QQ!Dispatch
  <2>0. PICK h : h = Head(eventQueue)
    OBVIOUS
  <2>1. PICK s \in {"dropped", "running"} :
            /\ eventQueue # <<>> /\ eventQueue' = Tail(eventQueue) /\ chat' = [chat EXCEPT ![h] = s]
            /\ UNCHANGED <<qq_client, hand, actionQueue, answered, arrived, delivered, broken, qq_stopping>>
    BY <1>7, <2>0 DEF QQ!Dispatch
  <2>2. /\ eventQueue' \in Seq(QQ!Messages) /\ h \in QQ!Messages /\ Len(eventQueue') = Len(eventQueue) - 1
        /\ \A m : Has(eventQueue, m) <=> m = h \/ Has(eventQueue', m)
        /\ NoRepeats(eventQueue') /\ ~Has(eventQueue', h)
    BY <1>0, <2>0, <2>1, Taken DEF QqInv, WaysIn
  <2>3. chat[h] = "none" /\ h <= arrived /\ ~Forwarding(h) /\ h \notin answered
    BY <2>2 DEF QqInv, WaysIn
  <2>4. /\ chat' \in [QQ!Messages -> {"none", "dropped", "running", "replying", "done"}]
        /\ \A m \in QQ!Messages \ {h} : chat'[m] = chat[m]
    BY <1>0, <2>1
  <2>5. QQ!TypeOK'
    BY <1>0, <2>1, <2>2, <2>4 DEF QqInv, QQ!TypeOK
  <2>6. WaysIn'
    BY <1>0, <2>1, <2>2, <2>3, <2>4 DEF QqInv, WaysIn
  <2>7. WaysOut'
    BY <2>1, <2>3, <2>4 DEF QqInv, WaysOut
  <2>8. NoneIsLost'
    BY <2>1, <2>3, <2>4 DEF QqInv, NoneIsLost, WaysOut
  <2>9. QED BY <2>1, <2>5, <2>6, <2>7, <2>8 DEF QqInv
<1>8. ASSUME NEW n \in QQ!Messages, QQ!ChatEnds(n) PROVE QqInv'
  <2>1. /\ chat[n] = "running"
        /\ \/ chat' = [chat EXCEPT ![n] = "replying"] /\ answered' = answered \cup {n}
           \/ chat' = [chat EXCEPT ![n] = "done"] /\ answered' = answered
        /\ UNCHANGED <<qq_client, hand, eventQueue, actionQueue, arrived, delivered, broken, qq_stopping>>
    BY <1>8 DEF QQ!ChatEnds
  <2>2. n \notin answered /\ ~Has(eventQueue, n) /\ ~Forwarding(n) /\ ~(n > arrived)
        /\ ~Has(actionQueue, n) /\ ~Sending(n) /\ ~Has(delivered, n)
    BY <2>1 DEF QqInv, WaysIn, WaysOut
  <2>3. /\ chat' \in [QQ!Messages -> {"none", "dropped", "running", "replying", "done"}]
        /\ \A m \in QQ!Messages \ {n} : chat'[m] = chat[m]
        /\ chat'[n] \in {"replying", "done"} /\ (n \in answered' => chat'[n] = "replying")
        /\ \A m \in answered' : m \in answered \/ m = n
        /\ answered \subseteq answered'
    BY <1>0, <2>1, <2>2
  <2>4. QQ!TypeOK'
    BY <2>1, <2>3 DEF QqInv, QQ!TypeOK
  <2>5. WaysIn'
    BY <2>1, <2>2, <2>3 DEF QqInv, WaysIn
  <2>6. WaysOut'
    BY <2>1, <2>2, <2>3 DEF QqInv, WaysOut
  <2>7. NoneIsLost'
    BY <2>1, <2>3 DEF QqInv, NoneIsLost, WaysOut
  <2>8. QED BY <2>1, <2>4, <2>5, <2>6, <2>7 DEF QqInv
<1>9. ASSUME NEW n \in QQ!Messages, QQ!QueueReply(n) \/ QQ!QueueFails(n) PROVE QqInv'
  <2>1. /\ chat[n] = "replying" /\ chat' = [chat EXCEPT ![n] = "done"]
        /\ \/ actionQueue' = Append(actionQueue, n) /\ Len(actionQueue) < QueueRoom
           \/ actionQueue' = actionQueue /\ qq_client = "ended"
        /\ UNCHANGED <<qq_client, hand, eventQueue, answered, arrived, delivered, broken, qq_stopping>>
    BY <1>9 DEF QQ!QueueReply, QQ!QueueFails
  <2>2. ~Has(eventQueue, n) /\ ~Forwarding(n) /\ ~(n > arrived)
        /\ ~Has(actionQueue, n) /\ ~Sending(n) /\ ~Has(delivered, n) /\ n \in answered
    BY <2>1 DEF QqInv, WaysIn, WaysOut
  <2>3. /\ chat' \in [QQ!Messages -> {"none", "dropped", "running", "replying", "done"}]
        /\ \A m \in QQ!Messages \ {n} : chat'[m] = chat[m]
        /\ chat'[n] = "done"
    BY <1>0, <2>1
  <2>4. /\ actionQueue' \in Seq(QQ!Messages) /\ Len(actionQueue') <= QueueRoom /\ NoRepeats(actionQueue')
        /\ \A m : Has(actionQueue', m) => Has(actionQueue, m) \/ m = n
        /\ \A m : Has(actionQueue, m) => Has(actionQueue', m)
        /\ Has(actionQueue', n) \/ qq_stopping
    <3>1. NoRepeats(actionQueue) /\ Len(actionQueue) <= QueueRoom
      BY DEF QqInv, WaysOut, QQ!TypeOK
    <3>2. CASE actionQueue' = Append(actionQueue, n) /\ Len(actionQueue) < QueueRoom
      BY <1>0, <2>2, <3>1, <3>2, Appended
    <3>3. CASE actionQueue' = actionQueue /\ qq_client = "ended"
      BY <1>0, <3>1, <3>3 DEF QqInv
    <3>4. QED BY <2>1, <3>2, <3>3
  <2>5. QQ!TypeOK'
    BY <2>1, <2>3, <2>4 DEF QqInv, QQ!TypeOK
  <2>6. WaysIn'
    BY <2>1, <2>2, <2>3 DEF QqInv, WaysIn
  <2>7. WaysOut'
    BY <2>1, <2>2, <2>3, <2>4 DEF QqInv, WaysOut
  <2>8. NoneIsLost'
    BY <2>1, <2>3, <2>4 DEF QqInv, NoneIsLost, WaysOut
  <2>9. QED BY <2>1, <2>5, <2>6, <2>7, <2>8 DEF QqInv
<1>10. CASE QQ!Stop \/ UNCHANGED qqVars
  <2>1. /\ qq_stopping => qq_stopping'
        /\ UNCHANGED <<qq_client, hand, eventQueue, actionQueue, chat, answered, arrived, delivered, broken>>
        /\ qq_stopping' \/ qq_stopping' = qq_stopping
    BY <1>10 DEF QQ!Stop, qqVars
  <2>2. QED BY <2>1 DEF QqInv, QQ!TypeOK, WaysIn, WaysOut, NoneIsLost
<1>11. QED BY <1>1, <1>2, <1>3, <1>4, <1>5, <1>6, <1>7, <1>8, <1>9, <1>10
          DEF QQ!Next, QQ!ClientStep, QQ!ReplyStep

LEMMA QqHolds == MCSpec => []QqInv
<1>1. MCInit => QqInv
  BY QqInit DEF MCInit
<1>2. [MCNext]_allVars => [QQ!Next]_qqVars
  BY DEF MCNext, Runs, allVars
<1>3. QqInv /\ [MCNext]_allVars => QqInv'
  BY <1>2, QqStep
<1>4. QED BY <1>1, <1>3, PTL DEF MCSpec

\* For any number of messages, room and failures: no message is answered twice, however
\* connections break, and until the channel stops a reply is lost only while it is sent.
THEOREM RepliesAreKept == MCSpec => []ChannelsHold
<1>1. QqInv => ChannelsHold
  <2> SUFFICES ASSUME QqInv PROVE QQ!OneReplyAtMost /\ QQ!RepliesOutliveReconnects
    BY DEF ChannelsHold
  <2>1. QQ!OneReplyAtMost
    BY DEF QqInv, WaysOut, QQ!OneReplyAtMost, QQ!IsInjective, NoRepeats, Has
  <2>2. ASSUME NEW s, NEW m PROVE Has(s, m) <=> m \in QQ!ToSet(s)
    BY DEF Has, QQ!ToSet
  <2>3. QQ!RepliesOutliveReconnects
    BY <2>2 DEF QqInv, NoneIsLost, QQ!RepliesOutliveReconnects, Sending
  <2>4. QED BY <2>1, <2>3
<1>2. QED BY <1>1, QqHolds, PTL

-----------------------------------------------------------------------------
(* The plugin registry and its reload.  The walk has seen the first places *)
(* as they are, unless touched since; what is still to be removed or       *)
(* inserted is what the registry differs in from the walk; and who touches *)
(* a place leaves a mark the reloader comes to, or makes it blind.         *)

Spots == {Places[i] : i \in DOMAIN Places}
Contents == Registry!Manifests \cup {None, Broken}
Kept(table) == \A n \in DOMAIN table :
    n \in Names /\ table[n] \in [place : Spots, version : 0 .. MaxEdits]

RegistryTypes ==
    /\ disk \in [Spots -> Contents] /\ Kept(entries) /\ Kept(upserts)
    /\ removals \subseteq DOMAIN entries
    /\ edits \in Nat /\ edits <= MaxEdits
    /\ watch \in {"none", "native", "polling"}
    /\ reloader \in {"idle", "debounce", "discover", "apply", "stopped"}

\* Discovery has walked the first places, and found what lies there unless it was touched.
WalkInv ==
    /\ \E k \in 0 .. Len(Places) :
        DOMAIN walked = {Places[i] : i \in 1 .. k} /\ Cardinality(DOMAIN walked) = k
    /\ walked \in [DOMAIN walked -> Contents]
    /\ reloader \in {"discover", "apply"} => \A p \in DOMAIN walked \ touched : walked[p] = disk[p]
    /\ reloader = "apply" /\ ~blind => DOMAIN walked = Spots

\* Who touches a place, or is not seen to, leaves a mark the reloader comes to.
ToldInv == touched # {} /\ ~blind => unseen \/ event \/ reloader \in {"debounce", "stopped"}

\* What is still to be removed and inserted is what the registry differs in from the walk.
PlanInv ==
    /\ reloader # "apply" => removals = {} /\ DOMAIN upserts = {}
    /\ reloader = "apply" /\ ~blind =>
        /\ \A n \in DOMAIN upserts :
            n \in Registry!Fresh(walked) /\ upserts[n] = Registry!Entry(walked, n)
        /\ \A n \in Registry!Fresh(walked) \ DOMAIN upserts :
            n \in DOMAIN entries /\ entries[n] = Registry!Entry(walked, n)
        /\ \A n \in DOMAIN entries \ Registry!Fresh(walked) :
            n \notin removals <=> walked[entries[n].place] = Broken
        /\ \A n \in removals : n \notin Registry!Fresh(walked)

AgreeInv ==
    reloader \notin {"discover", "apply"} /\ ~blind /\ touched = {} =>
        /\ \A n \in Registry!Fresh(disk) : n \in DOMAIN entries /\ entries[n] = Registry!Entry(disk, n)
        /\ \A n \in DOMAIN entries \ Registry!Fresh(disk) : disk[entries[n].place] = Broken

RegistryInv == RegistryTypes /\ WalkInv /\ ToldInv /\ PlanInv /\ AgreeInv

-----------------------------------------------------------------------------
(* Ranks.                                                                   *)

LEMMA RankIsPlace ==
    /\ DOMAIN Places = 1 .. Len(Places) /\ Len(Places) \in Nat
    /\ \A p \in Spots : Registry!Rank(p) \in 1 .. Len(Places) /\ Places[Registry!Rank(p)] = p
<1>1. DOMAIN Places = 1 .. Len(Places) /\ Len(Places) \in Nat
  BY PlacesAssumption
<1>2. ASSUME NEW p \in Spots PROVE Registry!Rank(p) \in DOMAIN Places /\ Places[Registry!Rank(p)] = p
  BY DEF Spots, Registry!Rank
<1>3. QED BY <1>1, <1>2

\* Of the manifests that claim a name one lies at the highest place, and it is the entry.
LEMMA WinnerExists ==
    ASSUME NEW found, DOMAIN found \subseteq Spots, NEW n, Registry!Claims(found, n) # {}
    PROVE  /\ Registry!Winner(found, n) \in Registry!Claims(found, n)
           /\ \A q \in Registry!Claims(found, n) :
                Registry!Rank(q) <= Registry!Rank(Registry!Winner(found, n))
<1>1. PICK C : C = Registry!Claims(found, n)
  OBVIOUS
<1>2. C \subseteq Spots /\ C # {}
  BY <1>1 DEF Registry!Claims
<1>3. PICK T : T = {Len(Places) - Registry!Rank(p) : p \in C}
  OBVIOUS
<1>4. T \subseteq Nat /\ T # {}
  BY <1>2, <1>3, RankIsPlace
<1>5. PICK x \in T : \A y \in T : ~(<<y, x>> \in OpToRel(<, Nat))
  BY <1>4, NatLessThanWellFounded, WFMin
<1>6. \A y \in T : ~(y < x)
  BY <1>4, <1>5 DEF OpToRel
<1>7. PICK p \in C : x = Len(Places) - Registry!Rank(p)
  BY <1>3
<1>8. ASSUME NEW q \in C PROVE Registry!Rank(q) <= Registry!Rank(p)
  <2>1. Len(Places) - Registry!Rank(q) \in T
    BY <1>3
  <2>2. Registry!Rank(p) \in Nat /\ Registry!Rank(q) \in Nat /\ Len(Places) \in Nat
    BY <1>2, RankIsPlace
  <2>3. QED BY <1>6, <1>7, <2>1, <2>2
<1>9. QED BY <1>1, <1>7, <1>8 DEF Registry!Winner

LEMMA WinnerIsTheBest ==
    ASSUME NEW found, DOMAIN found \subseteq Spots, NEW n, NEW p \in Registry!Claims(found, n),
           \A q \in Registry!Claims(found, n) : Registry!Rank(q) <= Registry!Rank(p)
    PROVE  p = Registry!Winner(found, n)
<1>1. PICK w : w = Registry!Winner(found, n)
  OBVIOUS
<1>2. w \in Registry!Claims(found, n) /\ \A q \in Registry!Claims(found, n) : Registry!Rank(q) <= Registry!Rank(w)
  BY <1>1, WinnerExists
<1>3. p \in Spots /\ w \in Spots
  BY <1>2 DEF Registry!Claims
<1>4. Registry!Rank(p) <= Registry!Rank(w) /\ Registry!Rank(w) <= Registry!Rank(p)
  BY <1>2
<1>5. Registry!Rank(p) = Registry!Rank(w)
  BY <1>3, <1>4, RankIsPlace
<1>6. QED BY <1>1, <1>3, <1>5, RankIsPlace

LEMMA EntryTyped ==
    ASSUME NEW found, DOMAIN found \subseteq Spots, found \in [DOMAIN found -> Contents],
           NEW n \in Registry!Fresh(found)
    PROVE  n \in Names /\ Registry!Entry(found, n) \in [place : Spots, version : 0 .. MaxEdits]
<1>1. n \in Names /\ Registry!Claims(found, n) # {}
  BY DEF Registry!Fresh
<1>2. PICK w : w = Registry!Winner(found, n)
  OBVIOUS
<1>3. w \in DOMAIN found /\ found[w] # None /\ found[w] # Broken
  BY <1>1, <1>2, WinnerExists DEF Registry!Claims, Registry!IsManifest
<1>4. found[w].version \in 0 .. MaxEdits
  BY <1>3 DEF Contents, Registry!Manifests
<1>5. QED BY <1>1, <1>2, <1>3, <1>4 DEF Registry!Entry

LEMMA CardinalityIsTheSame == \A S : Registry!Cardinality(S) = Cardinality(S)
BY DEF Registry!Cardinality, Cardinality

LEMMA NothingIsFresh == Registry!Fresh([p \in {} |-> None]) = {}
BY DEF Registry!Fresh, Registry!Claims

-----------------------------------------------------------------------------
(* The steps.                                                               *)

LEMMA RegistryInit == Registry!Init => RegistryInv
<1> SUFFICES ASSUME Registry!Init PROVE RegistryInv
  OBVIOUS
<1>1. /\ disk \in [Spots -> {None, Broken} \cup [name : Names, version : {0}]]
      /\ entries = [n \in Registry!Fresh(disk) |-> Registry!Entry(disk, n)]
      /\ watch = "none" /\ unseen = FALSE /\ event = FALSE
      /\ reloader = "idle" /\ walked = [p \in {} |-> None]
      /\ removals = {} /\ upserts = [n \in {} |-> None]
      /\ edits = 0 /\ blind = FALSE /\ touched = {}
  BY DEF Registry!Init, Registry!ToSet, Spots
<1>2. disk \in [Spots -> Contents] /\ DOMAIN disk = Spots
  <2>1. \A m \in [name : Names, version : {0}] : m \in Contents
    BY PlacesAssumption DEF Contents, Registry!Manifests
  <2>2. QED BY <1>1, <2>1 DEF Contents
<1>3. Kept(entries) /\ DOMAIN entries = Registry!Fresh(disk)
  BY <1>1, <1>2, EntryTyped DEF Kept
<1>4. RegistryTypes
  BY <1>1, <1>2, <1>3, PlacesAssumption DEF RegistryTypes, Kept
<1>5. WalkInv
  <2>1. DOMAIN walked = {Places[i] : i \in 1 .. 0} /\ Cardinality(DOMAIN walked) = 0
    BY <1>1, FS_EmptySet
  <2>2. 0 \in 0 .. Len(Places)
    BY RankIsPlace
  <2>3. QED BY <1>1, <2>1, <2>2 DEF WalkInv
<1>6. ToldInv /\ PlanInv
  BY <1>1 DEF ToldInv, PlanInv
<1>7. AgreeInv
  BY <1>1, <1>3 DEF AgreeInv
<1>8. QED BY <1>4, <1>5, <1>6, <1>7 DEF RegistryInv

LEMMA RegistryStands == RegistryInv /\ UNCHANGED registryVars => RegistryInv'
<1> SUFFICES ASSUME RegistryInv, UNCHANGED registryVars PROVE RegistryInv'
  OBVIOUS
<1>1. UNCHANGED <<disk, entries, watch, unseen, event, reloader, walked, removals, upserts, edits,
                  blind, touched>>
  BY DEF registryVars
<1>2. RegistryTypes'
  BY <1>1 DEF RegistryInv, RegistryTypes, Kept
<1>3. WalkInv'
  BY <1>1 DEF RegistryInv, WalkInv
<1>4. ToldInv' /\ PlanInv' /\ AgreeInv'
  BY <1>1 DEF RegistryInv, ToldInv, PlanInv, AgreeInv
<1>5. QED BY <1>2, <1>3, <1>4 DEF RegistryInv

LEMMA EditHolds ==
    ASSUME RegistryInv, NEW p \in DOMAIN disk, NEW n \in Names,
           NEW put \in {None, Broken, [name |-> n, version |-> edits + 1]},
           Registry!Edit(p, put)
    PROVE  RegistryInv'
<1>1. /\ edits < MaxEdits /\ edits' = edits + 1
      /\ disk' = [disk EXCEPT ![p] = put] /\ touched' = touched \cup {p}
      /\ (watch = "native" /\ unseen' = TRUE /\ blind' = blind) \/ (blind' = TRUE /\ unseen' = unseen)
      /\ UNCHANGED <<entries, watch, event, reloader, walked, removals, upserts>>
  BY DEF Registry!Edit, Registry!planVars
<1>2. RegistryTypes /\ WalkInv /\ ToldInv /\ PlanInv
  BY DEF RegistryInv
<1>3. disk' \in [Spots -> Contents]
  <2>1. edits + 1 \in 0 .. MaxEdits
    BY <1>1, <1>2, PlacesAssumption DEF RegistryTypes
  <2>2. put \in Contents
    BY <2>1 DEF Contents, Registry!Manifests
  <2>3. QED BY <1>1, <1>2, <2>2 DEF RegistryTypes
<1>4. RegistryTypes'
  BY <1>1, <1>2, <1>3, PlacesAssumption DEF RegistryTypes, Kept
<1>5. WalkInv'
  <2>1. \A q \in Spots : q \notin touched' => disk'[q] = disk[q] /\ q \notin touched
    BY <1>1, <1>2 DEF RegistryTypes
  <2>2. DOMAIN walked \subseteq Spots
    BY <1>2, RankIsPlace DEF WalkInv, Spots
  <2>3. ~blind' => ~blind
    BY <1>1
  <2>4. QED BY <1>1, <1>2, <2>1, <2>2, <2>3 DEF WalkInv
<1>6. ToldInv'
  BY <1>1 DEF ToldInv
<1>7. PlanInv'
  BY <1>1, <1>2 DEF PlanInv
<1>8. AgreeInv'
  BY <1>1 DEF AgreeInv
<1>9. QED BY <1>4, <1>5, <1>6, <1>7, <1>8 DEF RegistryInv

\* Steps that only tell the reloader, or stop it.
LEMMA TellingHolds ==
    ASSUME RegistryInv, Registry!InstallWatch \/ Registry!Notify \/ Registry!PollTick
                        \/ Registry!ReceiveEvent \/ Registry!Cancel
    PROVE  RegistryInv'
<1>1. /\ UNCHANGED <<disk, edits, entries, walked, removals, upserts, blind, touched>>
      /\ watch' \in {"none", "native", "polling"}
      /\ \/ reloader' = reloader
         \/ reloader \in {"idle", "debounce"} /\ reloader' \in {"debounce", "stopped"}
  <2>0. watch \in {"none", "native", "polling"}
    BY DEF RegistryInv, RegistryTypes
  <2>1. CASE Registry!InstallWatch
    BY <2>1 DEF Registry!InstallWatch, Registry!diskVars, Registry!planVars
  <2>2. CASE Registry!Notify
    BY <2>0, <2>2 DEF Registry!Notify, Registry!planVars
  <2>3. CASE Registry!PollTick
    BY <2>0, <2>3 DEF Registry!PollTick, Registry!diskVars, Registry!planVars
  <2>4. CASE Registry!ReceiveEvent
    BY <2>0, <2>4 DEF Registry!ReceiveEvent, Registry!diskVars, Registry!planVars
  <2>5. CASE Registry!Cancel
    BY <2>0, <2>5 DEF Registry!Cancel, Registry!diskVars, Registry!planVars
  <2>6. QED BY <2>1, <2>2, <2>3, <2>4, <2>5
<1>2. RegistryTypes'
  BY <1>1 DEF RegistryInv, RegistryTypes, Kept
<1>3. WalkInv'
  BY <1>1 DEF RegistryInv, WalkInv
<1>4. ToldInv'
  <2>0. ToldInv
    BY DEF RegistryInv
  <2>1. CASE Registry!InstallWatch
    BY <2>0, <2>1 DEF ToldInv, Registry!InstallWatch, Registry!diskVars
  <2>2. CASE Registry!Notify \/ Registry!PollTick
    BY <2>2 DEF ToldInv, Registry!Notify, Registry!PollTick
  <2>3. CASE Registry!ReceiveEvent \/ Registry!Cancel
    BY <2>3 DEF ToldInv, Registry!ReceiveEvent, Registry!Cancel
  <2>4. QED BY <2>1, <2>2, <2>3
<1>5. PlanInv'
  BY <1>1 DEF RegistryInv, PlanInv
<1>6. AgreeInv'
  BY <1>1 DEF RegistryInv, AgreeInv
<1>7. QED BY <1>2, <1>3, <1>4, <1>5, <1>6 DEF RegistryInv

LEMMA DebounceEndsHolds == ASSUME RegistryInv, Registry!DebounceEnds PROVE RegistryInv'
<1>1. /\ reloader = "debounce" /\ reloader' = "discover" /\ walked' = [p \in {} |-> None]
      /\ blind' = FALSE /\ touched' = {}
      /\ UNCHANGED <<disk, edits, entries, watch, event, removals, upserts>>
  BY DEF Registry!DebounceEnds, Registry!diskVars
<1>2. RegistryTypes'
  BY <1>1 DEF RegistryInv, RegistryTypes, Kept
<1>3. WalkInv'
  <2>1. DOMAIN walked' = {Places[i] : i \in 1 .. 0} /\ Cardinality(DOMAIN walked') = 0
    BY <1>1, FS_EmptySet
  <2>2. 0 \in 0 .. Len(Places)
    BY RankIsPlace
  <2>3. QED BY <1>1, <2>1, <2>2 DEF WalkInv
<1>4. ToldInv' /\ PlanInv' /\ AgreeInv'
  BY <1>1 DEF RegistryInv, ToldInv, PlanInv, AgreeInv
<1>5. QED BY <1>2, <1>3, <1>4 DEF RegistryInv

LEMMA WalkHolds == ASSUME RegistryInv, Registry!Walk PROVE RegistryInv'
<1>0. PICK p : p = Places[Cardinality(DOMAIN walked) + 1]
  OBVIOUS
<1>1. /\ reloader = "discover" /\ DOMAIN walked # DOMAIN disk
      /\ walked' = [q \in DOMAIN walked \cup {p} |-> disk[q]]
      /\ UNCHANGED <<disk, unseen, edits, entries, watch, event, reloader, removals, upserts, blind,
                     touched>>
  BY <1>0, CardinalityIsTheSame DEF Registry!Walk, Registry!diskVars
<1>2. RegistryTypes'
  BY <1>1 DEF RegistryInv, RegistryTypes, Kept
<1>3. PICK k \in 0 .. Len(Places) :
        DOMAIN walked = {Places[i] : i \in 1 .. k} /\ Cardinality(DOMAIN walked) = k
  BY DEF RegistryInv, WalkInv
<1>4. disk \in [Spots -> Contents] /\ DOMAIN disk = Spots
  BY DEF RegistryInv, RegistryTypes
<1>5. k < Len(Places)
  BY <1>1, <1>3, <1>4, RankIsPlace DEF Spots
<1>6. k + 1 \in 0 .. Len(Places) /\ p = Places[k + 1] /\ p \in Spots /\ k \in Nat
  <2>1. k \in Nat /\ k + 1 \in 1 .. Len(Places) /\ k + 1 \in 0 .. Len(Places)
    BY <1>5, RankIsPlace
  <2>2. p = Places[k + 1]
    BY <1>0, <1>3
  <2>3. QED BY <2>1, <2>2, RankIsPlace DEF Spots
<1>7. DOMAIN walked' = {Places[i] : i \in 1 .. k + 1} /\ DOMAIN walked' \subseteq Spots
  <2>1. DOMAIN walked' = DOMAIN walked \cup {p}
    BY <1>1
  <2>2. 1 .. k + 1 = (1 .. k) \cup {k + 1}
    BY <1>6
  <2>3. \A i \in 1 .. k + 1 : Places[i] \in Spots
    BY <1>6, RankIsPlace DEF Spots
  <2>4. QED BY <1>3, <1>6, <2>1, <2>2, <2>3
<1>8. Cardinality(DOMAIN walked') = k + 1
  <2>1. p \notin DOMAIN walked
    <3> SUFFICES ASSUME NEW i \in 1 .. k, Places[i] = Places[k + 1] PROVE FALSE
      BY <1>3, <1>6
    <3>1. i \in DOMAIN Places /\ k + 1 \in DOMAIN Places /\ i # k + 1
      BY <1>6, RankIsPlace
    <3>2. QED BY <3>1, PlacesAssumption
  <2>2. IsFiniteSet(DOMAIN walked)
    <3>1. IsFiniteSet(1 .. k)
      BY <1>6, FS_Interval
    <3>2. PICK f : f = [i \in 1 .. k |-> Places[i]]
      OBVIOUS
    <3>3. f \in Surjection(1 .. k, DOMAIN walked)
      BY <1>3, <3>2 DEF Surjection
    <3>4. QED BY <3>1, <3>3, FS_Surjection
  <2>3. Cardinality(DOMAIN walked \cup {p}) = Cardinality(DOMAIN walked) + 1
    BY <2>1, <2>2, FS_AddElement
  <2>4. QED BY <1>1, <1>3, <2>3
<1>9. walked' \in [DOMAIN walked' -> Contents]
      /\ \A q \in DOMAIN walked' : walked'[q] = disk[q]
  BY <1>1, <1>4, <1>7
<1>10. WalkInv'
  BY <1>1, <1>6, <1>7, <1>8, <1>9 DEF WalkInv
<1>11. ToldInv' /\ PlanInv' /\ AgreeInv'
  BY <1>1 DEF RegistryInv, ToldInv, PlanInv, AgreeInv
<1>12. QED BY <1>2, <1>10, <1>11 DEF RegistryInv

LEMMA PlanRefreshHolds == ASSUME RegistryInv, Registry!PlanRefresh PROVE RegistryInv'
<1>1. /\ reloader = "discover" /\ DOMAIN walked = DOMAIN disk /\ reloader' = "apply"
      /\ removals' = DOMAIN entries \ (Registry!Fresh(walked) \cup Registry!Retained(walked))
      /\ upserts' = [n \in Registry!Fresh(walked) |-> Registry!Entry(walked, n)]
      /\ UNCHANGED <<disk, unseen, edits, entries, watch, event, walked, blind, touched>>
  BY DEF Registry!PlanRefresh, Registry!Plan, Registry!diskVars
<1>2. /\ disk \in [Spots -> Contents] /\ DOMAIN walked = Spots
      /\ walked \in [DOMAIN walked -> Contents] /\ Kept(entries)
  BY <1>1 DEF RegistryInv, RegistryTypes, WalkInv
<1>3. Kept(upserts')
  BY <1>1, <1>2, EntryTyped DEF Kept
<1>4. RegistryTypes'
  BY <1>1, <1>3 DEF RegistryInv, RegistryTypes, Kept
<1>5. WalkInv'
  BY <1>1, <1>2 DEF RegistryInv, WalkInv
<1>6. ToldInv' /\ AgreeInv'
  BY <1>1 DEF RegistryInv, ToldInv, AgreeInv
<1>7. PlanInv'
  <2>1. \A n \in DOMAIN upserts' :
          n \in Registry!Fresh(walked) /\ upserts'[n] = Registry!Entry(walked, n)
    BY <1>1
  <2>2. Registry!Fresh(walked) \ DOMAIN upserts' = {}
    BY <1>1
  <2>3. \A n \in DOMAIN entries : entries[n].place \in DOMAIN walked
    BY <1>2 DEF Kept
  <2>4. \A n \in DOMAIN entries \ Registry!Fresh(walked) :
          n \notin removals' <=> walked[entries[n].place] = Broken
    BY <1>1, <2>3 DEF Registry!Retained
  <2>5. \A n \in removals' : n \notin Registry!Fresh(walked)
    BY <1>1
  <2>6. QED BY <1>1, <2>1, <2>2, <2>4, <2>5 DEF PlanInv
<1>8. QED BY <1>4, <1>5, <1>6, <1>7 DEF RegistryInv

LEMMA DiscoverPanicsHolds == ASSUME RegistryInv, Registry!DiscoverPanics PROVE RegistryInv'
<1>1. /\ reloader = "discover" /\ reloader' = "apply" /\ blind' = TRUE
      /\ removals' \subseteq DOMAIN entries
      /\ upserts' = [n \in {} |-> Registry!Entry([p \in {} |-> None], n)]
      /\ UNCHANGED <<disk, unseen, edits, entries, watch, event, walked, touched>>
  BY NothingIsFresh DEF Registry!DiscoverPanics, Registry!Plan, Registry!diskVars
<1>2. RegistryTypes'
  BY <1>1 DEF RegistryInv, RegistryTypes, Kept
<1>3. WalkInv'
  BY <1>1 DEF RegistryInv, WalkInv
<1>4. ToldInv' /\ PlanInv' /\ AgreeInv'
  BY <1>1 DEF ToldInv, PlanInv, AgreeInv
<1>5. QED BY <1>2, <1>3, <1>4 DEF RegistryInv

LEMMA RemoveEntryHolds == ASSUME RegistryInv, NEW n \in Names, Registry!RemoveEntry(n) PROVE RegistryInv'
<1>1. /\ reloader = "apply" /\ n \in removals /\ removals' = removals \ {n}
      /\ entries' = [m \in DOMAIN entries \ {n} |-> entries[m]]
      /\ UNCHANGED <<disk, unseen, edits, watch, event, reloader, walked, upserts, blind, touched>>
  BY DEF Registry!RemoveEntry, Registry!diskVars
<1>2. DOMAIN entries' = DOMAIN entries \ {n} /\ \A m \in DOMAIN entries' : entries'[m] = entries[m]
  BY <1>1
<1>3. RegistryTypes'
  BY <1>1, <1>2 DEF RegistryInv, RegistryTypes, Kept
<1>4. WalkInv'
  BY <1>1 DEF RegistryInv, WalkInv
<1>5. ToldInv' /\ AgreeInv'
  BY <1>1 DEF RegistryInv, ToldInv, AgreeInv
<1>6. PlanInv'
  BY <1>1, <1>2 DEF RegistryInv, PlanInv
<1>7. QED BY <1>3, <1>4, <1>5, <1>6 DEF RegistryInv

LEMMA UpsertEntryHolds == ASSUME RegistryInv, NEW n \in Names, Registry!UpsertEntry(n) PROVE RegistryInv'
<1>1. /\ reloader = "apply" /\ removals = {} /\ n \in DOMAIN upserts
      /\ upserts' = [m \in DOMAIN upserts \ {n} |-> upserts[m]]
      /\ entries' = [m \in DOMAIN entries \cup {n} |-> IF m = n THEN upserts[n] ELSE entries[m]]
      /\ UNCHANGED <<disk, unseen, edits, watch, event, reloader, walked, removals, blind, touched>>
  BY DEF Registry!UpsertEntry, Registry!diskVars
<1>2. /\ DOMAIN entries' = DOMAIN entries \cup {n} /\ entries'[n] = upserts[n]
      /\ \A m \in DOMAIN entries : m # n => entries'[m] = entries[m]
      /\ DOMAIN upserts' = DOMAIN upserts \ {n} /\ \A m \in DOMAIN upserts' : upserts'[m] = upserts[m]
  BY <1>1
<1>3. RegistryTypes'
  BY <1>1, <1>2 DEF RegistryInv, RegistryTypes, Kept
<1>4. WalkInv'
  BY <1>1 DEF RegistryInv, WalkInv
<1>5. ToldInv' /\ AgreeInv'
  BY <1>1 DEF RegistryInv, ToldInv, AgreeInv
<1>6. PlanInv'
  <2> SUFFICES ASSUME ~blind PROVE PlanInv'
    BY <1>1 DEF PlanInv
  <2>0. PlanInv
    BY DEF RegistryInv
  <2>1. \A m \in DOMAIN upserts' :
          m \in Registry!Fresh(walked) /\ upserts'[m] = Registry!Entry(walked, m)
    BY <1>1, <1>2, <2>0 DEF PlanInv
  <2>2. n \in Registry!Fresh(walked) /\ entries'[n] = Registry!Entry(walked, n)
    BY <1>1, <1>2, <2>0 DEF PlanInv
  <2>3. \A m \in Registry!Fresh(walked) \ DOMAIN upserts' :
          m \in DOMAIN entries' /\ entries'[m] = Registry!Entry(walked, m)
    BY <1>1, <1>2, <2>0, <2>2 DEF PlanInv
  <2>4. \A m \in DOMAIN entries' \ Registry!Fresh(walked) :
          m \notin removals' <=> walked[entries'[m].place] = Broken
    BY <1>1, <1>2, <2>0, <2>2 DEF PlanInv
  <2>5. QED BY <1>1, <2>1, <2>3, <2>4 DEF PlanInv
<1>7. QED BY <1>3, <1>4, <1>5, <1>6 DEF RegistryInv

LEMMA RefreshEndsHolds == ASSUME RegistryInv, Registry!RefreshEnds PROVE RegistryInv'
<1>1. /\ reloader = "apply" /\ removals = {} /\ DOMAIN upserts = {}
      /\ reloader' = "idle" /\ walked' = [p \in {} |-> None]
      /\ UNCHANGED <<disk, unseen, edits, entries, watch, event, removals, upserts, blind, touched>>
  BY DEF Registry!RefreshEnds, Registry!diskVars
<1>2. RegistryTypes'
  BY <1>1 DEF RegistryInv, RegistryTypes, Kept
<1>3. WalkInv'
  <2>1. DOMAIN walked' = {Places[i] : i \in 1 .. 0} /\ Cardinality(DOMAIN walked') = 0
    BY <1>1, FS_EmptySet
  <2>2. 0 \in 0 .. Len(Places)
    BY RankIsPlace
  <2>3. QED BY <1>1, <2>1, <2>2 DEF WalkInv
<1>4. ToldInv' /\ PlanInv'
  BY <1>1 DEF RegistryInv, ToldInv, PlanInv
<1>5. AgreeInv'
  <2> SUFFICES ASSUME ~blind, touched = {} PROVE AgreeInv'
    BY <1>1 DEF AgreeInv
  <2>1. walked = disk
    <3>1. DOMAIN walked = Spots /\ walked \in [Spots -> Contents] /\ disk \in [Spots -> Contents]
      BY <1>1 DEF RegistryInv, RegistryTypes, WalkInv
    <3>2. \A p \in Spots : walked[p] = disk[p]
      BY <1>1, <3>1 DEF RegistryInv, WalkInv
    <3>3. QED BY <3>1, <3>2
  <2>2. \A n \in Registry!Fresh(disk) : n \in DOMAIN entries /\ entries[n] = Registry!Entry(disk, n)
    BY <1>1, <2>1 DEF RegistryInv, PlanInv
  <2>3. \A n \in DOMAIN entries \ Registry!Fresh(disk) : disk[entries[n].place] = Broken
    BY <1>1, <2>1 DEF RegistryInv, PlanInv
  <2>4. QED BY <1>1, <2>2, <2>3 DEF AgreeInv
<1>6. QED BY <1>2, <1>3, <1>4, <1>5 DEF RegistryInv

LEMMA RegistryStep == RegistryInv /\ Registry!Next => RegistryInv'
BY EditHolds, TellingHolds, DebounceEndsHolds, WalkHolds, PlanRefreshHolds, DiscoverPanicsHolds,
   RemoveEntryHolds, UpsertEntryHolds, RefreshEndsHolds DEF Registry!Next

LEMMA RegistryHolds == MCSpec => []RegistryInv
<1>1. MCInit => RegistryInv
  BY RegistryInit DEF MCInit
<1>2. RegistryInv /\ [MCNext]_allVars => RegistryInv'
  <2> SUFFICES ASSUME RegistryInv, [MCNext]_allVars PROVE RegistryInv'
    OBVIOUS
  <2>1. CASE UNCHANGED registryVars
    BY <2>1, RegistryStands
  <2>2. CASE Registry!Next
    BY <2>2, RegistryStep
  <2>3. QED BY <2>1, <2>2 DEF MCNext, Runs, allVars
<1>3. QED BY <1>1, <1>2, PTL DEF MCSpec

LEMMA RegistryGuarantees ==
    ASSUME RegistryInv
    PROVE  Registry!TypeOK /\ Registry!QuietMeansFresh /\ Registry!RemovedIsGone
<1>1. /\ disk \in [Spots -> Contents] /\ Kept(entries) /\ Kept(upserts)
      /\ removals \subseteq DOMAIN entries /\ DOMAIN disk = Spots
  BY DEF RegistryInv, RegistryTypes
<1>2. Registry!TypeOK
  <2>1. Registry!ToSet(Places) = Spots
    BY DEF Registry!ToSet, Spots
  <2>2. DOMAIN walked \subseteq Spots
    BY RankIsPlace DEF RegistryInv, WalkInv, Spots
  <2>3. removals \subseteq Names /\ DOMAIN upserts \subseteq Names
    BY <1>1 DEF Kept
  <2>4. QED BY <1>1, <2>1, <2>2, <2>3
            DEF RegistryInv, RegistryTypes, Kept, Contents, Registry!TypeOK
<1>3. Registry!QuietMeansFresh
  <2> SUFFICES ASSUME reloader = "idle", ~event, ~unseen, ~blind
               PROVE  /\ \A n \in Names, p \in DOMAIN disk : Registry!Best(n, p) =>
                          n \in DOMAIN entries /\ entries[n] = [place |-> p, version |-> disk[p].version]
                      /\ \A n \in DOMAIN entries :
                          Registry!Claims(disk, n) = {} => disk[entries[n].place] = Broken
    BY DEF Registry!QuietMeansFresh
  <2>1. touched = {}
    BY DEF RegistryInv, ToldInv
  <2>2. /\ \A n \in Registry!Fresh(disk) : n \in DOMAIN entries /\ entries[n] = Registry!Entry(disk, n)
        /\ \A n \in DOMAIN entries \ Registry!Fresh(disk) : disk[entries[n].place] = Broken
    BY <2>1 DEF RegistryInv, AgreeInv
  <2>3. ASSUME NEW n \in Names, NEW p \in DOMAIN disk, Registry!Best(n, p)
        PROVE  n \in DOMAIN entries /\ entries[n] = [place |-> p, version |-> disk[p].version]
    <3>1. PICK found : found = disk
      OBVIOUS
    <3>2. p \in Registry!Claims(found, n)
          /\ \A q \in Registry!Claims(found, n) : Registry!Rank(q) <= Registry!Rank(p)
      BY <2>3, <3>1 DEF Registry!Best
    <3>3. p = Registry!Winner(found, n) /\ n \in Registry!Fresh(found)
      BY <1>1, <3>1, <3>2, WinnerIsTheBest DEF Registry!Fresh
    <3>4. QED BY <2>2, <3>1, <3>3 DEF Registry!Entry
  <2>4. \A n \in DOMAIN entries : Registry!Claims(disk, n) = {} => disk[entries[n].place] = Broken
    BY <2>2 DEF Registry!Fresh
  <2>5. QED BY <2>3, <2>4
<1>4. Registry!RemovedIsGone
  <2> SUFFICES ASSUME ~blind, NEW n \in removals, NEW p \in DOMAIN disk \ touched
               PROVE  /\ Registry!IsManifest(disk[p]) => disk[p].name # n
                      /\ p = entries[n].place => disk[p] # Broken
    BY DEF Registry!RemovedIsGone
  <2>1. reloader = "apply"
    BY DEF RegistryInv, PlanInv
  <2>2. p \in DOMAIN walked /\ walked[p] = disk[p]
    BY <1>1, <2>1 DEF RegistryInv, WalkInv
  <2>3. n \notin Registry!Fresh(walked) /\ n \in DOMAIN entries /\ n \in Names
    BY <1>1, <2>1 DEF RegistryInv, PlanInv, Kept
  <2>4. walked[entries[n].place] # Broken
    BY <2>1, <2>3 DEF RegistryInv, PlanInv
  <2>5. Registry!Claims(walked, n) = {}
    BY <2>3 DEF Registry!Fresh
  <2>6. QED BY <2>2, <2>4, <2>5 DEF Registry!Claims
<1>5. QED BY <1>2, <1>3, <1>4

-----------------------------------------------------------------------------
(* A call of a plugin.  Which steps a kind of plugin takes, what its       *)
(* process is at each of them, and where the guard of a container is held. *)

StdioInv ==
    call_kind = "stdio" =>
        /\ ~guard /\ ~removing /\ ~oom
        /\ call_step \in {"begin", "exchange", "reaping", "over", "dropped"}
        /\ call_step = "begin" => plugin_process = "none"
        /\ call_step \in {"over", "dropped"} => plugin_process # "running"

DockerInv ==
    call_kind = "docker" =>
        /\ call_step \in {"begin", "creating", "attaching", "exchange", "waiting", "inspecting",
                          "over", "dropped"}
        /\ call_step = "begin" => plugin_process = "none"
        /\ call_step = "creating" => plugin_process = "created"
        /\ call_step \in {"begin", "creating"} => ~guard
        /\ call_step \in {"attaching", "exchange", "waiting", "inspecting"} => guard
        /\ removing => call_step \in {"over", "dropped"}
        /\ call_step = "inspecting" => plugin_process \in {"exited", "removed"}
        /\ call_step \in {"over", "dropped"} => plugin_process # "running" \/ removing
        /\ call_outcome = "success" => plugin_process \in {"exited", "removed"}
        /\ read \in {"valid", "garbage"} => line = read

ServiceInv ==
    call_kind = "service" => ~oom /\ ~guard /\ call_step \in {"begin", "opening", "streaming", "over", "dropped"}

OutcomeInv ==
    /\ call_outcome # None => call_step \in {"reaping", "over", "dropped"}
    /\ Call!SuccessIsAnAnswer

CallInv == Call!CallTypeOK /\ {oom, guard, removing} \subseteq BOOLEAN /\ StdioInv /\ DockerInv /\ ServiceInv /\ OutcomeInv

LEMMA CallInit == Call!CallInit => CallInv
BY CallNoneAssumption DEF Call!CallInit, Call!Kinds, CallInv, Call!CallTypeOK, StdioInv, DockerInv, ServiceInv,
    OutcomeInv, Call!SuccessIsAnAnswer

LEMMA CallStep == CallInv /\ [Call!CallNext]_callVars => CallInv'
<1> SUFFICES ASSUME CallInv, [Call!CallNext]_callVars PROVE CallInv'
  OBVIOUS
<1> USE CallNoneAssumption
   DEF CallInv, Call!CallTypeOK, Call!Kinds, StdioInv, DockerInv, ServiceInv, OutcomeInv,
       Call!SuccessIsAnAnswer, Call!worldVars, Call!Quiet, Call!Goes, Call!Returns,
       Call!ExchangeEnds
<1>1. CASE Call!Answer
  BY <1>1 DEF Call!Answer
<1>2. CASE Call!Exit
  <2>1. Call!CallTypeOK'
    BY <1>2 DEF Call!Exit
  <2>2. {oom, guard, removing}' \subseteq BOOLEAN
    BY <1>2 DEF Call!Exit
  <2>3. StdioInv'
    BY <1>2 DEF Call!Exit
  <2>4. DockerInv'
    BY <1>2 DEF Call!Exit
  <2>5. ServiceInv' /\ OutcomeInv'
    BY <1>2 DEF Call!Exit
  <2>6. QED BY <2>1, <2>2, <2>3, <2>4, <2>5 DEF CallInv
<1>3. CASE Call!AutoRemove
  BY <1>3 DEF Call!AutoRemove
<1>4. CASE Call!Remove
  <2>1. Call!CallTypeOK'
    BY <1>4 DEF Call!Remove
  <2>2. {oom, guard, removing}' \subseteq BOOLEAN
    BY <1>4 DEF Call!Remove
  <2>3. StdioInv'
    BY <1>4 DEF Call!Remove
  <2>4. DockerInv'
    BY <1>4 DEF Call!Remove
  <2>5. ServiceInv' /\ OutcomeInv'
    BY <1>4 DEF Call!Remove
  <2>6. QED BY <2>1, <2>2, <2>3, <2>4, <2>5 DEF CallInv
<1>5. CASE Call!CancelCall
  BY <1>5 DEF Call!CancelCall
<1>6. CASE Call!Spawn
  <2>1. Call!CallTypeOK'
    BY <1>6 DEF Call!Spawn
  <2>2. {oom, guard, removing}' \subseteq BOOLEAN
    BY <1>6 DEF Call!Spawn
  <2>3. StdioInv'
    BY <1>6 DEF Call!Spawn
  <2>4. DockerInv'
    BY <1>6 DEF Call!Spawn
  <2>5. ServiceInv' /\ OutcomeInv'
    BY <1>6 DEF Call!Spawn
  <2>6. QED BY <2>1, <2>2, <2>3, <2>4, <2>5 DEF CallInv
<1>7. CASE Call!ReadLine
  BY <1>7 DEF Call!ReadLine
<1>8. CASE Call!ReadEof
  BY <1>8 DEF Call!ReadEof
<1>9. CASE Call!ExchangeTimesOut
  BY <1>9 DEF Call!ExchangeTimesOut
<1>10. CASE Call!ExchangeIsCancelled
  BY <1>10 DEF Call!ExchangeIsCancelled
<1>11. CASE Call!Reap
  BY <1>11 DEF Call!Reap
<1>12. CASE Call!CreateContainer
  <2>1. Call!CallTypeOK'
    BY <1>12 DEF Call!CreateContainer
  <2>2. {oom, guard, removing}' \subseteq BOOLEAN
    BY <1>12 DEF Call!CreateContainer
  <2>3. StdioInv'
    BY <1>12 DEF Call!CreateContainer
  <2>4. DockerInv'
    BY <1>12 DEF Call!CreateContainer
  <2>5. ServiceInv' /\ OutcomeInv'
    BY <1>12 DEF Call!CreateContainer
  <2>6. QED BY <2>1, <2>2, <2>3, <2>4, <2>5 DEF CallInv
<1>13. CASE Call!ContainerIsCreated
  BY <1>13 DEF Call!ContainerIsCreated
<1>14. CASE Call!StartContainer
  <2>1. Call!CallTypeOK'
    BY <1>14 DEF Call!StartContainer
  <2>2. {oom, guard, removing}' \subseteq BOOLEAN
    BY <1>14 DEF Call!StartContainer
  <2>3. StdioInv'
    BY <1>14 DEF Call!StartContainer
  <2>4. DockerInv'
    BY <1>14 DEF Call!StartContainer
  <2>5. ServiceInv' /\ OutcomeInv'
    BY <1>14 DEF Call!StartContainer
  <2>6. QED BY <2>1, <2>2, <2>3, <2>4, <2>5 DEF CallInv
<1>15. CASE Call!ContainerAnswers
  BY <1>15 DEF Call!ContainerAnswers
<1>16. CASE Call!ContainerFails
  BY <1>16 DEF Call!ContainerFails
<1>17. CASE Call!ContainerHasExited
  BY <1>17 DEF Call!ContainerHasExited
<1>18. CASE Call!Inspect
  <2>1. Call!CallTypeOK'
    BY <1>18 DEF Call!Inspect
  <2>2. {oom, guard, removing}' \subseteq BOOLEAN
    BY <1>18 DEF Call!Inspect
  <2>3. StdioInv'
    BY <1>18 DEF Call!Inspect
  <2>4. DockerInv'
    BY <1>18 DEF Call!Inspect
  <2>5. ServiceInv' /\ OutcomeInv'
    <3>1. call_outcome' = "success" => read = "valid" /\ ~(oom /\ plugin_process = "exited")
      <4> HIDE DEF CallInv, Call!Returns, Call!ExchangeEnds
      <4>1. ASSUME oom, plugin_process = "exited" PROVE call_outcome' = "oom"
        BY <1>18, <4>1 DEF Call!Inspect
      <4>2. ASSUME ~(oom /\ plugin_process = "exited")
            PROVE  call_outcome' = CASE read = "valid" -> "success"
                                     [] read = "garbage" -> "parse"
                                     [] OTHER -> "error"
        BY <1>18, <4>2 DEF Call!Inspect
      <4>3. QED BY <4>1, <4>2
    <3>2. /\ plugin_process \in {"exited", "removed"} /\ (read = "valid" => line = "valid")
          /\ call_kind = "docker" /\ call_step' = "over"
      BY <1>18 DEF Call!Inspect
    <3>3. UNCHANGED <<call_kind, read, line, oom, plugin_process>>
      BY <1>18 DEF Call!Inspect
    <3>4. QED BY <3>1, <3>2, <3>3
  <2>6. QED BY <2>1, <2>2, <2>3, <2>4, <2>5 DEF CallInv
<1>19. CASE Call!CallService
  BY <1>19 DEF Call!CallService
<1>20. CASE Call!StreamOpens
  BY <1>20 DEF Call!StreamOpens
<1>21. CASE Call!ServiceEnds
  BY <1>21 DEF Call!ServiceEnds
<1>22. CASE Call!Dropped
  <2>1. Call!CallTypeOK'
    BY <1>22 DEF Call!Dropped
  <2>2. {oom, guard, removing}' \subseteq BOOLEAN
    BY <1>22 DEF Call!Dropped
  <2>3. StdioInv'
    BY <1>22 DEF Call!Dropped
  <2>4. DockerInv'
    BY <1>22 DEF Call!Dropped
  <2>5. ServiceInv' /\ OutcomeInv'
    <3>1. /\ call_step \notin {"begin", "over"} /\ call_step' = "dropped" /\ guard' = FALSE
          /\ UNCHANGED <<call_kind, line, oom, read, call_outcome>>
          /\ call_kind # "stdio" => plugin_process' = plugin_process
      BY <1>22 DEF Call!Dropped
    <3>2. call_kind = "stdio" => ~oom
      OBVIOUS
    <3>3. ServiceInv'
      BY <3>1
    <3>4. OutcomeInv'
      BY <3>1, <3>2
    <3>5. QED BY <3>3, <3>4
  <2>6. QED BY <2>1, <2>2, <2>3, <2>4, <2>5 DEF CallInv
<1>23. CASE UNCHANGED callVars
  BY <1>23 DEF callVars
<1>24. QED BY <1>1, <1>2, <1>3, <1>4, <1>5, <1>6, <1>7, <1>8, <1>9, <1>10, <1>11, <1>12, <1>13, <1>14, <1>15, <1>16, <1>17, <1>18, <1>19, <1>20, <1>21, <1>22, <1>23
     DEF Call!CallNext

LEMMA CallHolds == MCSpec => []CallInv
<1>1. MCInit => CallInv
  BY CallInit DEF MCInit, Call!Init
<1>2. [MCNext]_allVars => [Call!CallNext]_callVars
  BY DEF MCNext, Runs, allVars
<1>3. CallInv /\ [MCNext]_allVars => CallInv'
  BY <1>2, CallStep
<1>4. QED BY <1>1, <1>3, PTL DEF MCSpec

LEMMA CallGuarantees == CallInv => Call!NothingRunsOn /\ Call!SuccessIsAnAnswer
BY DEF CallInv, Call!CallTypeOK, Call!Kinds, StdioInv, DockerInv, OutcomeInv, Call!NothingRunsOn

-----------------------------------------------------------------------------
(* Asynchronous calls.  A parked entry is of a call that still waits and   *)
(* has got nothing; a callback that has taken an entry alone holds it; and *)
(* what a call was given was given under its own task id.                  *)

Parked ==
    \A t \in TaskIds : pending_tasks[t] # None =>
        /\ task[pending_tasks[t]] = t
        /\ call[pending_tasks[t]] \in {"waiting", "elapsed", "cancelling", "dropped"}
        /\ slot[pending_tasks[t]] = None

Begun ==
    \A c \in Calls :
        /\ call[c] = "running" <=> task[c] = None
        /\ call[c] = "answered" => slot[c] # None
        /\ call[c] = "waiting" /\ slot[c] = None => Call!SenderLives(c) \/ Call!Reused(task[c])

Holding ==
    \A p \in Callbacks :
        /\ post[p] = "sending" <=> held[p] # None
        /\ held[p] # None =>
            /\ task[held[p]] = posted_for[p] /\ slot[held[p]] = None
            /\ call[held[p]] \notin {"running", "accepted"}
            /\ \A t \in TaskIds : pending_tasks[t] # held[p]
            /\ \A q \in Callbacks : held[q] = held[p] => q = p

Delivered ==
    /\ \A c \in Calls : slot[c] # None =>
        /\ post[slot[c]] = "ok" /\ posted_for[slot[c]] = task[c]
        /\ call[c] \notin {"running", "accepted"}
    /\ \A p \in Callbacks : post[p] = "ok" => \E c \in Calls : slot[c] = p

AsyncInv == Call!AsyncTypeOK /\ Parked /\ Begun /\ Holding /\ Delivered

LEMMA AsyncInit == Call!AsyncInit => AsyncInv
BY AsyncAssumption
   DEF Call!AsyncInit, AsyncInv, Call!AsyncTypeOK, Parked, Begun, Holding, Delivered

LEMMA CallSideKeeps ==
    ASSUME AsyncInv, UNCHANGED asyncVars
    PROVE  AsyncInv'
BY DEF AsyncInv, asyncVars, Call!AsyncTypeOK, Parked, Begun, Holding, Delivered, Call!SenderLives,
    Call!Reused

\* Steps of a call that only move it on.
LEMMA MovesOn ==
    ASSUME AsyncInv, NEW c \in Calls,
           Call!Receive(c) \/ Call!ReceiveFails(c) \/ Call!Elapse(c) \/ Call!DropReceiver(c)
           \/ Call!Disconnect(c)
    PROVE  AsyncInv'
<1> USE AsyncAssumption
<1>1. /\ call[c] \in {"accepted", "waiting", "elapsed"}
      /\ \E s \in {"answered", "cancelled", "elapsed", "cancelling", "dropped"} :
            call' = [call EXCEPT ![c] = s]
  BY DEF Call!Receive, Call!ReceiveFails, Call!Elapse, Call!DropReceiver, Call!Disconnect, Call!GoesTo
<1>2. UNCHANGED <<pending_tasks, task, slot, post, posted_for, held>>
  BY DEF Call!Receive, Call!ReceiveFails, Call!Elapse, Call!DropReceiver, Call!Disconnect,
     Call!postVars
<1>3. Call!AsyncTypeOK'
  BY <1>1, <1>2 DEF AsyncInv, Call!AsyncTypeOK
<1>4. Parked'
  <2> SUFFICES ASSUME NEW t \in TaskIds, pending_tasks[t] # None
               PROVE  call'[pending_tasks[t]] \in {"waiting", "elapsed", "cancelling", "dropped"}
    BY <1>2 DEF Parked, AsyncInv
  <2>1. CASE pending_tasks[t] = c
    BY <2>1 DEF AsyncInv, Parked, Call!AsyncTypeOK, Call!Receive, Call!ReceiveFails, Call!Elapse,
       Call!DropReceiver, Call!Disconnect, Call!GoesTo, Call!SenderLives
  <2>2. CASE pending_tasks[t] # c
    BY <1>1, <2>2 DEF AsyncInv, Parked, Call!AsyncTypeOK
  <2>3. QED BY <2>1, <2>2
<1>5. Begun'
  <2> SUFFICES ASSUME NEW d \in Calls
               PROVE  /\ call'[d] = "running" <=> task[d] = None
                      /\ call'[d] = "answered" => slot[d] # None
                      /\ call'[d] = "waiting" /\ slot[d] = None
                            => Call!SenderLives(d) \/ Call!Reused(task[d])
    BY <1>2 DEF Begun, Call!SenderLives, Call!Reused
  <2>1. CASE d = c
    BY <2>1, <1>1 DEF AsyncInv, Begun, Call!AsyncTypeOK, Call!Receive, Call!ReceiveFails,
       Call!Elapse, Call!DropReceiver, Call!Disconnect, Call!GoesTo
  <2>2. CASE d # c
    BY <1>1, <2>2 DEF AsyncInv, Begun, Call!AsyncTypeOK
  <2>3. QED BY <2>1, <2>2
<1>6. Holding' /\ Delivered'
  BY <1>1, <1>2 DEF AsyncInv, Holding, Delivered, Call!AsyncTypeOK
<1>7. QED BY <1>3, <1>4, <1>5, <1>6 DEF AsyncInv

LEMMA AcceptKeeps ==
    ASSUME AsyncInv, NEW c \in Calls, NEW t \in TaskIds, Call!Accept(c, t)
    PROVE  AsyncInv'
<1> USE AsyncAssumption DEF AsyncInv, Call!Accept, Call!GoesTo, Call!postVars
<1>1. call[c] = "running" /\ task[c] = None /\ slot[c] = None
  BY DEF Begun, Delivered
<1>2. Call!AsyncTypeOK'
  BY DEF Call!AsyncTypeOK
<1>3. Parked'
  BY <1>1 DEF Call!AsyncTypeOK, Parked
<1>4. Begun'
  <2> SUFFICES ASSUME NEW d \in Calls
               PROVE  /\ call'[d] = "running" <=> task'[d] = None
                      /\ call'[d] = "answered" => slot[d] # None
                      /\ call'[d] = "waiting" /\ slot[d] = None
                            => Call!SenderLives(d)' \/ Call!Reused(task[d])'
    BY DEF Begun, Call!SenderLives, Call!Reused
  <2>1. CASE d = c
    BY <2>1 DEF Begun, Call!AsyncTypeOK
  <2>2. CASE d # c
    <3>1. call'[d] = call[d] /\ task'[d] = task[d]
      BY <2>2 DEF Call!AsyncTypeOK
    <3>2. Call!SenderLives(d) => Call!SenderLives(d)'
      BY <3>1 DEF Call!SenderLives
    <3>3. ASSUME call[d] # "running", Call!Reused(task[d]) PROVE Call!Reused(task[d])'
      <4>1. PICK x, y \in Calls : x # y /\ task[x] = task[d] /\ task[y] = task[d]
        BY <3>3 DEF Call!Reused
      <4>2. x # c /\ y # c
        BY <4>1, <3>3, <1>1 DEF Begun
      <4>3. task'[x] = task[x] /\ task'[y] = task[y]
        BY <4>2 DEF Call!AsyncTypeOK
      <4>4. QED BY <4>1, <4>3, <3>1 DEF Call!Reused
    <3>4. QED BY <3>1, <3>2, <3>3 DEF Begun
  <2>3. QED BY <2>1, <2>2
<1>5. Holding' /\ Delivered'
  BY <1>1 DEF Holding, Delivered, Call!AsyncTypeOK
<1>6. QED BY <1>2, <1>3, <1>4, <1>5

LEMMA RegisterKeeps ==
    ASSUME AsyncInv, NEW c \in Calls, Call!Register(c)
    PROVE  AsyncInv'
<1> USE AsyncAssumption DEF AsyncInv, Call!Register, Call!GoesTo, Call!postVars
<1>1. /\ call[c] = "accepted" /\ task[c] \in TaskIds /\ slot[c] = None
      /\ \A t \in TaskIds : pending_tasks[t] # c
      /\ \A p \in Callbacks : held[p] # c
  BY DEF Begun, Delivered, Call!AsyncTypeOK, Parked, Holding
<1>2. Call!AsyncTypeOK'
  BY <1>1 DEF Call!AsyncTypeOK
<1>3. Parked'
  BY <1>1 DEF Call!AsyncTypeOK, Parked
<1>4. Begun'
  <2> SUFFICES ASSUME NEW d \in Calls
               PROVE  /\ call'[d] = "running" <=> task[d] = None
                      /\ call'[d] = "answered" => slot[d] # None
                      /\ call'[d] = "waiting" /\ slot[d] = None
                            => Call!SenderLives(d)' \/ Call!Reused(task[d])
    BY DEF Begun, Call!SenderLives, Call!Reused
  <2>1. CASE d = c
    BY <2>1, <1>1 DEF Begun, Call!AsyncTypeOK, Call!SenderLives
  <2>2. CASE d # c
    <3>1. call'[d] = call[d]
      BY <2>2 DEF Call!AsyncTypeOK
    <3>2. CASE task[d] = task[c]
      BY <3>1, <3>2, <2>2, <1>1 DEF Begun, Call!Reused
    <3>3. ASSUME task[d] # task[c], Call!SenderLives(d), call[d] # "running"
          PROVE  Call!SenderLives(d)'
      <4>1. task[d] \in TaskIds
        BY <3>3 DEF Begun, Call!AsyncTypeOK
      <4>2. QED BY <4>1, <3>3, <1>1 DEF Call!SenderLives, Call!AsyncTypeOK
    <3>4. QED BY <3>1, <3>2, <3>3 DEF Begun
  <2>3. QED BY <2>1, <2>2
<1>5. Holding'
  <2>1. \A p \in Callbacks : held[p] # None => held[p] \in Calls /\ call'[held[p]] = call[held[p]]
    BY <1>1 DEF Call!AsyncTypeOK
  <2>2. \A p \in Callbacks, t \in TaskIds : held[p] # None => pending_tasks'[t] # held[p]
    BY <1>1 DEF Holding, Call!AsyncTypeOK
  <2>3. QED BY <2>1, <2>2 DEF Holding
<1>6. Delivered'
  BY <1>1 DEF Delivered, Call!AsyncTypeOK
<1>7. QED BY <1>2, <1>3, <1>4, <1>5, <1>6

LEMMA CancelKeeps ==
    ASSUME AsyncInv, NEW c \in Calls, Call!CancelTask(c)
    PROVE  AsyncInv'
<1> USE AsyncAssumption DEF AsyncInv, Call!CancelTask, Call!GoesTo, Call!postVars
<1>1. call[c] = "cancelling" /\ task[c] \in TaskIds
  BY DEF Begun, Call!AsyncTypeOK
<1>2. Call!AsyncTypeOK'
  BY <1>1 DEF Call!AsyncTypeOK
<1>3. Parked'
  BY <1>1 DEF Call!AsyncTypeOK, Parked
<1>4. Begun'
  <2> SUFFICES ASSUME NEW d \in Calls
               PROVE  /\ call'[d] = "running" <=> task[d] = None
                      /\ call'[d] = "answered" => slot[d] # None
                      /\ call'[d] = "waiting" /\ slot[d] = None
                            => Call!SenderLives(d)' \/ Call!Reused(task[d])
    BY DEF Begun, Call!SenderLives, Call!Reused
  <2>1. CASE d = c
    BY <2>1, <1>1 DEF Begun, Call!AsyncTypeOK
  <2>2. CASE d # c
    <3>1. call'[d] = call[d]
      BY <2>2 DEF Call!AsyncTypeOK
    <3>2. CASE task[d] = task[c]
      BY <3>1, <3>2, <2>2, <1>1 DEF Begun, Call!Reused
    <3>3. ASSUME task[d] # task[c], Call!SenderLives(d), call[d] # "running"
          PROVE  Call!SenderLives(d)'
      <4>1. task[d] \in TaskIds
        BY <3>3 DEF Begun, Call!AsyncTypeOK
      <4>2. QED BY <4>1, <3>3, <1>1 DEF Call!SenderLives, Call!AsyncTypeOK
    <3>4. QED BY <3>1, <3>2, <3>3 DEF Begun
  <2>3. QED BY <2>1, <2>2
<1>5. Holding' /\ Delivered'
  BY <1>1 DEF Holding, Delivered, Call!AsyncTypeOK
<1>6. QED BY <1>2, <1>3, <1>4, <1>5

LEMMA TakeKeeps ==
    ASSUME AsyncInv, NEW p \in Callbacks, NEW t \in TaskIds, Call!TakeEntry(p, t)
    PROVE  AsyncInv'
<1> USE AsyncAssumption DEF AsyncInv, Call!TakeEntry, Call!Told, Call!callVars
<1>1. /\ post[p] = "unsent" /\ held[p] = None /\ pending_tasks[t] \in Calls \cup {None}
      /\ \A c \in Calls : slot[c] # p
  BY DEF Holding, Delivered, Call!AsyncTypeOK
<1>2. Call!AsyncTypeOK'
  BY <1>1 DEF Call!AsyncTypeOK
<1>3. Parked'
  BY <1>1 DEF Call!AsyncTypeOK, Parked
<1>4. Begun'
  <2>1. ASSUME NEW d \in Calls, Call!SenderLives(d), call[d] # "running"
        PROVE  Call!SenderLives(d)'
    <3>1. task[d] \in TaskIds
      BY <2>1 DEF Begun, Call!AsyncTypeOK
    <3>2. CASE pending_tasks[task[d]] = d /\ task[d] # t
      BY <3>1, <3>2 DEF Call!SenderLives, Call!AsyncTypeOK
    <3>3. CASE pending_tasks[task[d]] = d /\ task[d] = t
      <4>1. held'[p] = d
        BY <3>3 DEF Call!AsyncTypeOK
      <4>2. QED BY <4>1 DEF Call!SenderLives
    <3>4. ASSUME NEW q \in Callbacks, held[q] = d
          PROVE  Call!SenderLives(d)'
      <4>1. q # p
        BY <3>4, <1>1
      <4>2. held'[q] = d
        BY <3>4, <4>1 DEF Call!AsyncTypeOK
      <4>3. QED BY <4>2 DEF Call!SenderLives
    <3>5. QED BY <2>1, <3>2, <3>3, <3>4 DEF Call!SenderLives
  <2>2. QED BY <2>1 DEF Begun, Call!Reused
<1>5. Holding'
  <2> SUFFICES ASSUME NEW q \in Callbacks
               PROVE  /\ post'[q] = "sending" <=> held'[q] # None
                      /\ held'[q] # None =>
                          /\ task[held'[q]] = posted_for'[q] /\ slot[held'[q]] = None
                          /\ call[held'[q]] \notin {"running", "accepted"}
                          /\ \A u \in TaskIds : pending_tasks'[u] # held'[q]
                          /\ \A r \in Callbacks : held'[r] = held'[q] => r = q
    BY DEF Holding
  <2>1. CASE q # p
    <3>1. post'[q] = post[q] /\ held'[q] = held[q] /\ posted_for'[q] = posted_for[q]
      BY <2>1 DEF Call!AsyncTypeOK
    <3>2. held[q] # None => \A u \in TaskIds : pending_tasks'[u] # held[q]
      BY DEF Holding, Call!AsyncTypeOK
    <3>3. held[q] # None => \A r \in Callbacks : held'[r] = held[q] => r = q
      BY <1>1 DEF Holding, Call!AsyncTypeOK
    <3>4. QED BY <3>1, <3>2, <3>3 DEF Holding
  <2>2. CASE q = p
    <3>1. held'[q] = pending_tasks[t] /\ posted_for'[q] = t
      BY <2>2 DEF Call!AsyncTypeOK
    <3>2. post'[q] = "sending" <=> held'[q] # None
      BY <3>1, <2>2, <1>1 DEF Call!AsyncTypeOK
    <3>3. ASSUME held'[q] # None
          PROVE  /\ task[held'[q]] = t /\ slot[held'[q]] = None
                 /\ call[held'[q]] \in {"waiting", "elapsed", "cancelling", "dropped"}
      BY <3>1, <3>3 DEF Parked
    <3>4. ASSUME held'[q] # None, NEW u \in TaskIds PROVE pending_tasks'[u] # held'[q]
      BY <3>1, <3>4 DEF Parked, Call!AsyncTypeOK
    <3>5. ASSUME held'[q] # None, NEW r \in Callbacks, held'[r] = held'[q] PROVE r = q
      BY <3>1, <3>5, <2>2 DEF Holding, Call!AsyncTypeOK
    <3>6. QED BY <3>1, <3>2, <3>3, <3>4, <3>5
  <2>3. QED BY <2>1, <2>2
<1>6. Delivered'
  BY <1>1 DEF Delivered, Call!AsyncTypeOK
<1>7. QED BY <1>2, <1>3, <1>4, <1>5, <1>6

LEMMA SendKeeps ==
    ASSUME AsyncInv, NEW p \in Callbacks, Call!SendPayload(p)
    PROVE  AsyncInv'
<1> USE AsyncAssumption DEF AsyncInv, Call!SendPayload, Call!Told, Call!callVars
<1>1. PICK c : c = held[p]
  OBVIOUS
<1>2. /\ c \in Calls /\ post[p] = "sending" /\ task[c] = posted_for[p] /\ slot[c] = None
      /\ call[c] \notin {"running", "accepted"}
      /\ \A t \in TaskIds : pending_tasks[t] # c
      /\ \A q \in Callbacks : held[q] = c => q = p
      /\ \A d \in Calls : slot[d] # p
  BY <1>1 DEF Holding, Delivered, Call!AsyncTypeOK
<1>3. held' = [held EXCEPT ![p] = None] /\ UNCHANGED <<pending_tasks, call, task, posted_for>>
  OBVIOUS
<1>4. CASE Call!HasReceiver(c)
  <2>1. slot' = [slot EXCEPT ![c] = p] /\ post' = [post EXCEPT ![p] = "ok"]
    BY <1>4, <1>1
  <2> HIDE DEF Call!SendPayload
  <2>2. Call!AsyncTypeOK'
    BY <2>1, <1>3, <1>2 DEF Call!AsyncTypeOK
  <2>3. Parked'
    BY <2>1, <1>3, <1>2 DEF Parked, Call!AsyncTypeOK
  <2>4. Begun'
    <3> SUFFICES ASSUME NEW d \in Calls
                 PROVE  /\ call[d] = "answered" => slot'[d] # None
                        /\ call[d] = "waiting" /\ slot'[d] = None
                              => Call!SenderLives(d)' \/ Call!Reused(task[d])
      BY <1>3 DEF Begun, Call!SenderLives, Call!Reused
    <3>1. CASE d = c
      BY <3>1, <2>1 DEF Call!AsyncTypeOK
    <3>2. CASE d # c
      <4>1. slot'[d] = slot[d]
        BY <3>2, <2>1 DEF Call!AsyncTypeOK
      <4>2. Call!SenderLives(d) => Call!SenderLives(d)'
        BY <3>2, <1>1, <1>3 DEF Call!SenderLives, Call!AsyncTypeOK
      <4>3. QED BY <4>1, <4>2 DEF Begun
    <3>3. QED BY <3>1, <3>2
  <2>5. Holding'
    BY <2>1, <1>2, <1>3 DEF Holding, Call!AsyncTypeOK
  <2>6. Delivered'
    <3>1. ASSUME NEW d \in Calls, slot'[d] # None
          PROVE  /\ post'[slot'[d]] = "ok" /\ posted_for[slot'[d]] = task[d]
                 /\ call[d] \notin {"running", "accepted"}
      BY <3>1, <2>1, <1>2 DEF Delivered, Call!AsyncTypeOK
    <3>2. ASSUME NEW q \in Callbacks, post'[q] = "ok" PROVE \E d \in Calls : slot'[d] = q
      <4>1. CASE q = p
        BY <4>1, <2>1, <1>2 DEF Call!AsyncTypeOK
      <4>2. CASE q # p
        <5>1. PICK d \in Calls : slot[d] = q
          BY <4>2, <3>2, <2>1 DEF Delivered, Call!AsyncTypeOK
        <5>2. slot'[d] = q
          BY <5>1, <2>1, <1>2 DEF Call!AsyncTypeOK
        <5>3. QED BY <5>2
      <4>3. QED BY <4>1, <4>2
    <3>3. QED BY <3>1, <3>2, <1>3 DEF Delivered
  <2>7. QED BY <2>2, <2>3, <2>4, <2>5, <2>6
<1>5. CASE ~Call!HasReceiver(c)
  <2>1. slot' = slot /\ post' = [post EXCEPT ![p] = "waiter_dropped"] /\ call[c] # "waiting"
    BY <1>5, <1>1 DEF Call!HasReceiver
  <2> HIDE DEF Call!SendPayload
  <2>2. Call!AsyncTypeOK'
    BY <2>1, <1>3, <1>2 DEF Call!AsyncTypeOK
  <2>3. Parked' /\ Delivered'
    BY <2>1, <1>3, <1>2 DEF Parked, Delivered, Call!AsyncTypeOK
  <2>4. Begun'
    <3>1. ASSUME NEW d \in Calls, d # c, Call!SenderLives(d) PROVE Call!SenderLives(d)'
      BY <3>1, <1>1, <1>3 DEF Call!SenderLives, Call!AsyncTypeOK
    <3>2. QED BY <3>1, <2>1, <1>3, <1>2 DEF Begun, Call!Reused
  <2>5. Holding'
    BY <2>1, <1>2, <1>3 DEF Holding, Call!AsyncTypeOK
  <2>6. QED BY <2>2, <2>3, <2>4, <2>5
<1>6. QED BY <1>4, <1>5

LEMMA AsyncStep == AsyncInv /\ Call!AsyncNext => AsyncInv'
<1> SUFFICES ASSUME AsyncInv, Call!AsyncNext PROVE AsyncInv'
  OBVIOUS
<1>1. ASSUME NEW c \in Calls, Call!Waiter(c) \/ Call!Disconnect(c) PROVE AsyncInv'
  BY <1>1, MovesOn, RegisterKeeps, CancelKeeps DEF Call!Waiter
<1>2. QED BY <1>1, AcceptKeeps, TakeKeeps, SendKeeps DEF Call!AsyncNext

LEMMA AsyncHolds == MCSpec => []AsyncInv
<1>1. MCInit => AsyncInv
  BY AsyncInit DEF MCInit, Call!Init
<1>2. AsyncInv /\ [MCNext]_allVars => AsyncInv'
  <2> SUFFICES ASSUME AsyncInv, [MCNext]_allVars PROVE AsyncInv'
    OBVIOUS
  <2>1. CASE UNCHANGED asyncVars
    BY <2>1, CallSideKeeps
  <2>2. CASE Call!AsyncNext
    BY <2>2, AsyncStep
  <2>3. QED BY <2>1, <2>2 DEF MCNext, Runs, allVars
<1>3. QED BY <1>1, <1>2, PTL DEF MCSpec

LEMMA AsyncGuarantees ==
    AsyncInv => Call!ParkedTasksBelong /\ Call!WaitingCallIsReachable /\ Call!OkIsOneDelivery
<1> SUFFICES ASSUME AsyncInv
             PROVE  Call!ParkedTasksBelong /\ Call!WaitingCallIsReachable /\ Call!OkIsOneDelivery
  OBVIOUS
<1>1. Call!ParkedTasksBelong
  BY DEF AsyncInv, Parked, Call!ParkedTasksBelong
<1>2. Call!WaitingCallIsReachable
  BY DEF AsyncInv, Begun, Call!WaitingCallIsReachable
<1>3. ASSUME NEW p \in Callbacks, post[p] = "ok"
      PROVE  \E c \in Calls : slot[c] = p /\ task[c] = posted_for[p]
  <2>1. PICK c \in Calls : slot[c] = p
    BY <1>3 DEF AsyncInv, Delivered
  <2>2. slot[c] # None
    BY <2>1, AsyncAssumption
  <2>3. QED BY <2>1, <2>2 DEF AsyncInv, Delivered
<1>4. \A c \in Calls : call[c] = "answered" => slot[c] # None /\ post[slot[c]] = "ok"
  BY DEF AsyncInv, Begun, Delivered
<1>5. QED BY <1>1, <1>2, <1>3, <1>4 DEF Call!OkIsOneDelivery

-----------------------------------------------------------------------------
(* The configuration file.  While no event is ahead every reload that      *)
(* compares has read what the file says; no reload and no post drafts what *)
(* validate_report refuses; while no two requests have opened one temporary*)
(* each has its own inode, and the file is whole.                          *)

Active(r) == config_at[r] \in {"reading", "diffing", "swapping", "announcing"}
Ahead == config_event \/ config_at[Watcher] \in {"locking", "reading"}
Comparing(r) == config_at[r] \in {"diffing", "swapping"}

LockInv == \A r \in Reloaders :
    /\ Active(r) => lock = r
    /\ config_at[r] \in {"idle", "locking", "reading", "diffing", "swapping", "announcing", "done"}

FollowInv ==
    ~Ahead =>
        /\ \A r \in Reloaders : Comparing(r) => draft[r] = content[live]
        /\ ~overtaken /\ Config!Sound(content[live]) /\ (\A r \in Reloaders : ~Comparing(r))
            => Config!SameSections(snapshot, content[live])

\* What was not validated can only come from a request that does not.
Unchecked == {Base} \cup (Writers \ Posts)
FaultInv ==
    /\ snapshot \cap Faulty \subseteq Unchecked
    /\ \A a \in Writers \cup Reloaders : draft[a] \cap Faulty \subseteq Unchecked

Shared == \E v, w \in Writers : v # w /\ fd[v] = fd[w] /\ fd[v] # None

WriterInv == \A w \in Writers :
    /\ config_at[w] \in {"idle", "loaded", "opened", "written", "renamed", "done"}
    /\ config_at[w] \in {"idle", "loaded"} =>
        fd[w] = None /\ live # w /\ tmp # w /\ content[w] = None
    /\ config_at[w] \in {"loaded", "opened"} => w \in draft[w]
    /\ config_at[w] \in {"opened", "written", "renamed"} => fd[w] # None
    /\ fd[w] \in Writers \cup {None}
    /\ fd[w] # None => content[fd[w]] # None

TmpInv == tmp # None => \E w \in Writers : fd[w] = tmp

TornInv ==
    ~Shared =>
        /\ content[live] \notin {{}, Mixed}
        /\ \A w \in Writers :
            /\ fd[w] \in {None, w}
            /\ config_at[w] \in {"opened", "written"} => tmp = w
            /\ config_at[w] = "opened" => content[w] = {}
            /\ config_at[w] = "written" => content[w] \notin {{}, Mixed}

ConfigInv ==
    Config!TypeOK /\ LockInv /\ FollowInv /\ FaultInv /\ WriterInv /\ TmpInv /\ TornInv

LEMMA ConfigInit == Config!Init => ConfigInv
<1> SUFFICES ASSUME Config!Init PROVE ConfigInv
  OBVIOUS
<1> USE FilesAssumption
    DEF Config!Init, Config!Inodes, Config!Configs
<1>1. Config!TypeOK
  BY DEF Config!TypeOK
<1>2. LockInv
  BY DEF LockInv, Active
<1>3. {Base} # Mixed /\ content[live] = {Base} /\ snapshot = {Base}
  OBVIOUS
<1>4. FollowInv
  BY <1>3 DEF FollowInv, Comparing, Config!SameSections, Config!Sound
<1>5. WriterInv /\ TmpInv
  BY DEF WriterInv, TmpInv
<1>6. TornInv
  BY <1>3 DEF TornInv, Shared
<1>7. FaultInv
  BY DEF FaultInv, Unchecked
<1>8. QED BY <1>1, <1>2, <1>4, <1>5, <1>6, <1>7 DEF ConfigInv

\* What a step leaves of the file, the drafts and the places of the others.
LEMMA Standing ==
    ASSUME ConfigInv, UNCHANGED configVars
    PROVE  ConfigInv'
<1>1. Config!TypeOK' /\ LockInv' /\ WriterInv' /\ TmpInv' /\ TornInv'
  BY DEF configVars, ConfigInv, Config!TypeOK, LockInv, WriterInv, TmpInv, TornInv, Shared, Active
<1>2. FollowInv' /\ FaultInv'
  BY DEF configVars, ConfigInv, FollowInv, FaultInv, Comparing, Ahead, Config!SameSections,
     Config!Sound
<1>3. QED BY <1>1, <1>2 DEF ConfigInv

\* A step of a request or of a reload on its own way: it moves to another place and may drop or
\* change its own draft.
LEMMA TypesMove ==
    ASSUME ConfigInv, NEW a \in Writers \cup Reloaders,
           NEW s \in {"idle", "loaded", "opened", "written", "renamed", "locking", "reading",
                      "diffing", "swapping", "announcing", "done"},
           config_at' = [config_at EXCEPT ![a] = s],
           draft' = draft \/ \E d \in Config!Configs : draft' = [draft EXCEPT ![a] = d]
    PROVE  /\ config_at' \in [Writers \cup Reloaders ->
                    {"idle", "loaded", "opened", "written", "renamed", "locking", "reading",
                     "diffing", "swapping", "announcing", "done"}]
           /\ draft' \in [Writers \cup Reloaders -> Config!Configs]
           /\ config_at'[a] = s
           /\ \A b \in Writers \cup Reloaders : b # a =>
                config_at'[b] = config_at[b] /\ draft'[b] = draft[b]
BY DEF ConfigInv, Config!TypeOK

-----------------------------------------------------------------------------
(* A request.                                                              *)

\* A request's own step concerns no reload.
LEMMA ReloadsStand ==
    ASSUME ConfigInv, NEW w \in Writers, UNCHANGED lock,
           \A r \in Reloaders : config_at'[r] = config_at[r] /\ draft'[r] = draft[r]
    PROVE  /\ LockInv'
           /\ Ahead /\ ~Ahead' => config_event /\ ~config_event'
           /\ \A r \in Reloaders : Comparing(r)' <=> Comparing(r)
<1>1. Watcher \in Reloaders
  BY FilesAssumption
<1>2. QED BY <1>1 DEF ConfigInv, LockInv, Active, Ahead, Comparing

\* A request that leaves the file alone.
LEMMA RequestMoves ==
    ASSUME ConfigInv, NEW w \in Writers,
           UNCHANGED <<live, tmp, content, lock, fd, config_event>>,
           NEW s \in {"loaded", "done"},
           config_at' = [config_at EXCEPT ![w] = s],
           s = "loaded" =>
             /\ config_at[w] = "idle"
             /\ \E c \in Config!Edited(snapshot, w) :
                 (w \in Posts => Config!Sound(c)) /\ draft' = [draft EXCEPT ![w] = c],
           s = "done" => config_at[w] # "idle" /\ draft' = [draft EXCEPT ![w] = {}],
           \/ UNCHANGED <<snapshot, overtaken>>
           \/ snapshot' = draft[w] /\ overtaken' = ~Config!SameSections(draft[w], content[live])
    PROVE  ConfigInv'
<1> USE FilesAssumption DEF Config!Inodes, Config!Configs
<1>1. w \in Writers \cup Reloaders /\ w \notin Reloaders
      /\ {} \in Config!Configs /\ draft[w] \in Config!Configs
  BY DEF ConfigInv, Config!TypeOK
<1>2. PICK d \in Config!Configs :
        /\ draft' = [draft EXCEPT ![w] = d]
        /\ s = "loaded" => w \in d
        /\ d \cap Faulty \subseteq Unchecked
  <2>1. CASE s = "done"
    BY <2>1, <1>1
  <2>2. CASE s = "loaded"
    <3>1. PICK c \in Config!Edited(snapshot, w) :
            (w \in Posts => Config!Sound(c)) /\ draft' = [draft EXCEPT ![w] = c]
      BY <2>2
    <3>2. c \in Config!Configs /\ w \in c /\ c \subseteq snapshot \cup {w}
      BY <3>1 DEF Config!Edited, ConfigInv, Config!TypeOK
    <3>3. snapshot \cap Faulty \subseteq Unchecked
      BY DEF ConfigInv, FaultInv
    <3>4. c \cap Faulty \subseteq Unchecked
      BY <3>1, <3>2, <3>3 DEF Unchecked, Config!Sound
    <3>5. QED BY <3>1, <3>2, <3>4
  <2>3. QED BY <2>1, <2>2
<1>3. /\ config_at' \in [Writers \cup Reloaders ->
                {"idle", "loaded", "opened", "written", "renamed", "locking", "reading",
                 "diffing", "swapping", "announcing", "done"}]
      /\ draft' \in [Writers \cup Reloaders -> Config!Configs]
      /\ config_at'[w] = s
      /\ \A b \in Writers \cup Reloaders : b # w =>
            config_at'[b] = config_at[b] /\ draft'[b] = draft[b]
  <2> HIDE DEF Config!Inodes, Config!Configs
  <2>1. QED BY <1>1, <1>2, TypesMove
<1>4. \A r \in Reloaders : config_at'[r] = config_at[r] /\ draft'[r] = draft[r]
  BY <1>1, <1>3
<1>5. /\ LockInv' /\ (Ahead' <=> Ahead)
      /\ \A r \in Reloaders : Comparing(r)' <=> Comparing(r)
  BY <1>4, ReloadsStand DEF Ahead
<1>6. Config!TypeOK'
  BY <1>1, <1>3 DEF ConfigInv, Config!TypeOK
<1>7. FollowInv'
  <2>1. ASSUME ~Ahead', NEW r \in Reloaders, Comparing(r)' PROVE draft'[r] = content[live]
    BY <2>1, <1>4, <1>5 DEF ConfigInv, FollowInv
  <2>2. ASSUME ~Ahead', ~overtaken', Config!Sound(content[live]), \A r \in Reloaders : ~Comparing(r)'
        PROVE  Config!SameSections(snapshot', content[live])
    <3>1. CASE UNCHANGED <<snapshot, overtaken>>
      BY <2>2, <3>1, <1>5 DEF ConfigInv, FollowInv
    <3>2. CASE snapshot' = draft[w] /\ overtaken' = ~Config!SameSections(draft[w], content[live])
      BY <2>2, <3>2
    <3>3. QED BY <3>1, <3>2
  <2>3. QED BY <2>1, <2>2 DEF FollowInv, Config!SameSections, Config!Sound
<1>8. WriterInv'
  <2>1. w \in draft'[w] \/ s = "done"
    BY <1>1, <1>2 DEF ConfigInv, Config!TypeOK
  <2>2. QED BY <2>1, <1>3, <1>1 DEF ConfigInv, WriterInv
<1>9. TmpInv' /\ TornInv'
  BY <1>3 DEF ConfigInv, TmpInv, TornInv, Shared
<1>10. FaultInv'
  <2>1. draft'[w] \cap Faulty \subseteq Unchecked
    BY <1>1, <1>2 DEF ConfigInv, Config!TypeOK
  <2>2. snapshot' = snapshot \/ snapshot' = draft[w]
    OBVIOUS
  <2>3. QED BY <2>1, <2>2, <1>1, <1>3 DEF ConfigInv, FaultInv, Unchecked
<1>11. QED BY <1>5, <1>6, <1>7, <1>8, <1>9, <1>10 DEF ConfigInv

\* A step that changes no configuration brings no fault in.
LEMMA FaultsStand == ConfigInv /\ UNCHANGED <<snapshot, draft>> => FaultInv'
BY DEF ConfigInv, FaultInv, Unchecked

LEMMA OpenKeeps ==
    ASSUME ConfigInv, NEW w \in Writers, Config!OpenTmp(w)
    PROVE  ConfigInv'
<1> USE FilesAssumption DEF Config!Inodes, Config!Configs
<1>0. PICK i : i = tmp'
  OBVIOUS
<1>1. /\ config_at[w] = "loaded" /\ config_at' = [config_at EXCEPT ![w] = "opened"]
      /\ i = IF tmp = None THEN w ELSE tmp
      /\ tmp' = i /\ content' = [content EXCEPT ![i] = {}] /\ fd' = [fd EXCEPT ![w] = i]
      /\ UNCHANGED <<live, snapshot, config_event, lock, draft, overtaken>>
  BY <1>0 DEF Config!OpenTmp, Config!Goes
<1>2. /\ fd[w] = None /\ live # w /\ content[w] = None /\ w \in draft[w]
      /\ w \in Writers \cup Reloaders /\ w \notin Reloaders
  BY <1>1 DEF ConfigInv, WriterInv
<1>3. i \in Writers /\ i # live
  BY <1>1, <1>2 DEF ConfigInv, Config!TypeOK, TmpInv, WriterInv
<1>4. /\ config_at'[w] = "opened" /\ fd'[w] = i /\ content'[i] = {} /\ content'[live] = content[live]
      /\ \A b \in Writers \cup Reloaders : b # w => config_at'[b] = config_at[b]
      /\ \A v \in Writers : v # w => fd'[v] = fd[v]
      /\ \A j \in Config!Inodes : j # i => content'[j] = content[j]
  BY <1>1, <1>3 DEF ConfigInv, Config!TypeOK
<1>5. Config!TypeOK'
  BY <1>1, <1>3, <1>4, {} \in Config!Configs DEF ConfigInv, Config!TypeOK
<1>6. \A r \in Reloaders : config_at'[r] = config_at[r] /\ draft'[r] = draft[r]
  BY <1>1, <1>2, <1>4
<1>7. LockInv' /\ (Ahead' <=> Ahead) /\ \A r \in Reloaders : Comparing(r)' <=> Comparing(r)
  BY <1>1, <1>6, ReloadsStand DEF Ahead
<1>8. FollowInv'
  BY <1>1, <1>4, <1>6, <1>7 DEF ConfigInv, FollowInv, Config!SameSections, Config!Sound
<1>9. \A v \in Writers : config_at'[v] \in {"idle", "loaded"} => v # i
  <2>1. CASE tmp = None
    BY <2>1, <1>1, <1>4
  <2>2. CASE tmp # None
    BY <2>2, <1>1, <1>4 DEF ConfigInv, WriterInv
  <2>3. QED BY <2>1, <2>2
<1>10. WriterInv'
  <2> SUFFICES ASSUME NEW v \in Writers
               PROVE  /\ config_at'[v] \in {"idle", "loaded", "opened", "written", "renamed", "done"}
                      /\ config_at'[v] \in {"idle", "loaded"} =>
                          fd'[v] = None /\ live' # v /\ tmp' # v /\ content'[v] = None
                      /\ config_at'[v] \in {"loaded", "opened"} => v \in draft'[v]
                      /\ config_at'[v] \in {"opened", "written", "renamed"} => fd'[v] # None
                      /\ fd'[v] \in Writers \cup {None}
                      /\ fd'[v] # None => content'[fd'[v]] # None
    BY DEF WriterInv
  <2>1. CASE v = w
    BY <2>1, <1>1, <1>2, <1>3, <1>4
  <2>2. CASE v # w
    <3>1. fd[v] # None => content'[fd[v]] # None
      BY <1>3, <1>4 DEF ConfigInv, WriterInv
    <3>2. config_at'[v] \in {"idle", "loaded"} => content'[v] = content[v]
      BY <1>9, <1>4
    <3>3. QED BY <2>2, <3>1, <3>2, <1>1, <1>4, <1>9 DEF ConfigInv, WriterInv
  <2>3. QED BY <2>1, <2>2
<1>11. TmpInv'
  BY <1>1, <1>4 DEF TmpInv
<1>12. TornInv'
  <2> SUFFICES ASSUME ~Shared' PROVE TornInv'
    BY DEF TornInv
  <2>1. ~Shared
    BY <1>2, <1>4 DEF Shared
  <2>2. tmp = None
    <3>1. ASSUME NEW v \in Writers, fd[v] = tmp, tmp # None PROVE FALSE
      BY <3>1, <1>1, <1>2, <1>4 DEF Shared
    <3>2. QED BY <3>1 DEF ConfigInv, TmpInv
  <2>3. i = w
    BY <2>2, <1>1
  <2>4. \A v \in Writers : v # w => config_at[v] \notin {"opened", "written"}
    BY <2>1, <2>2 DEF ConfigInv, TornInv
  <2>5. QED BY <2>1, <2>3, <2>4, <1>1, <1>4 DEF ConfigInv, TornInv
<1>13. FaultInv'
  BY <1>1, FaultsStand
<1>14. QED BY <1>5, <1>7, <1>8, <1>10, <1>11, <1>12, <1>13 DEF ConfigInv

LEMMA WriteKeeps ==
    ASSUME ConfigInv, NEW w \in Writers, Config!WriteTmp(w)
    PROVE  ConfigInv'
<1> USE FilesAssumption DEF Config!Inodes, Config!Configs
<1>1. PICK i, c :
        /\ i = fd[w] /\ c \in {draft[w]} \cup (IF content[i] = {} THEN {} ELSE {Mixed})
        /\ content' = [content EXCEPT ![i] = c]
  BY DEF Config!WriteTmp
<1>2. /\ config_at[w] = "opened" /\ config_at' = [config_at EXCEPT ![w] = "written"]
      /\ config_event' = (config_event \/ fd[w] = live)
      /\ UNCHANGED <<live, tmp, snapshot, lock, draft, fd, overtaken>>
  BY DEF Config!WriteTmp, Config!Goes
<1>3. /\ i \in Writers /\ content[i] # None /\ w \in draft[w] /\ draft[w] \in Config!Configs
      /\ w \in Writers \cup Reloaders /\ w \notin Reloaders
      /\ c \in Config!Configs \cup {Mixed} /\ c \notin {{}, None}
  BY <1>1, <1>2 DEF ConfigInv, WriterInv, Config!TypeOK
<1>4. /\ config_at'[w] = "written" /\ content'[i] = c
      /\ \A b \in Writers \cup Reloaders : b # w => config_at'[b] = config_at[b]
      /\ \A j \in Config!Inodes : j # i => content'[j] = content[j]
  BY <1>1, <1>2, <1>3 DEF ConfigInv, Config!TypeOK
<1>5. Config!TypeOK'
  BY <1>1, <1>2, <1>3, <1>4 DEF ConfigInv, Config!TypeOK
<1>6. \A r \in Reloaders : config_at'[r] = config_at[r] /\ draft'[r] = draft[r]
  BY <1>2, <1>3, <1>4
<1>7. LockInv' /\ \A r \in Reloaders : Comparing(r)' <=> Comparing(r)
  BY <1>2, <1>6, ReloadsStand
<1>8. ~Ahead' => ~Ahead /\ i # live
  BY <1>1, <1>2, <1>3, <1>6 DEF Ahead
<1>9. FollowInv'
  <2> SUFFICES ASSUME ~Ahead' PROVE FollowInv'
    BY DEF FollowInv
  <2>1. content'[live] = content[live]
    BY <1>8, <1>4 DEF ConfigInv, Config!TypeOK
  <2>2. QED BY <2>1, <1>2, <1>6, <1>7, <1>8 DEF ConfigInv, FollowInv, Config!SameSections, Config!Sound
<1>10. WriterInv'
  <2>1. \A v \in Writers : config_at'[v] \in {"idle", "loaded"} => v # i
    BY <1>3, <1>4 DEF ConfigInv, WriterInv
  <2>2. \A j \in Config!Inodes : content[j] # None => content'[j] # None
    BY <1>3, <1>4
  <2>3. QED BY <2>1, <2>2, <1>2, <1>3, <1>4 DEF ConfigInv, WriterInv
<1>11. TmpInv'
  BY <1>2 DEF ConfigInv, TmpInv
<1>12. TornInv'
  <2> SUFFICES ASSUME ~Shared' PROVE TornInv'
    BY DEF TornInv
  <2>1. ~Shared
    BY <1>2 DEF Shared
  <2>2. i = w /\ tmp = w /\ content[w] = {} /\ live # w
    BY <2>1, <1>1, <1>2, <1>3 DEF ConfigInv, TornInv, Config!TypeOK
  <2>3. c = draft[w] /\ c # Mixed
    BY <2>2, <1>1, <1>3
  <2>4. content'[live] = content[live]
    BY <2>2, <1>4 DEF ConfigInv, Config!TypeOK
  <2>5. QED BY <2>1, <2>2, <2>3, <2>4, <1>2, <1>3, <1>4 DEF ConfigInv, TornInv
<1>13. FaultInv'
  BY <1>2, FaultsStand
<1>14. QED BY <1>5, <1>7, <1>9, <1>10, <1>11, <1>12, <1>13 DEF ConfigInv

LEMMA RenameKeeps ==
    ASSUME ConfigInv, NEW w \in Writers, Config!RenameTmp(w)
    PROVE  ConfigInv'
<1> USE FilesAssumption DEF Config!Inodes, Config!Configs
<1>1. /\ tmp # None /\ config_at[w] = "written" /\ config_at' = [config_at EXCEPT ![w] = "renamed"]
      /\ live' = tmp /\ tmp' = None /\ config_event' = TRUE
      /\ UNCHANGED <<content, snapshot, lock, draft, fd, overtaken>>
  BY DEF Config!RenameTmp, Config!Goes
<1>2. /\ w \in Writers \cup Reloaders /\ w \notin Reloaders /\ config_at'[w] = "renamed"
      /\ \A b \in Writers \cup Reloaders : b # w => config_at'[b] = config_at[b]
  BY <1>1 DEF ConfigInv, Config!TypeOK
<1>3. tmp \in Writers /\ content[tmp] # None
  BY <1>1 DEF ConfigInv, TmpInv, WriterInv
<1>4. Config!TypeOK'
  BY <1>1, <1>2, <1>3 DEF ConfigInv, Config!TypeOK
<1>5. \A r \in Reloaders : config_at'[r] = config_at[r] /\ draft'[r] = draft[r]
  BY <1>1, <1>2
<1>6. LockInv' /\ Ahead'
  BY <1>1, <1>5, ReloadsStand DEF Ahead
<1>7. FollowInv' /\ TmpInv'
  BY <1>1, <1>6 DEF FollowInv, TmpInv
<1>8. WriterInv'
  BY <1>1, <1>2, <1>3 DEF ConfigInv, WriterInv
<1>9. TornInv'
  <2> SUFFICES ASSUME ~Shared' PROVE TornInv'
    BY DEF TornInv
  <2>1. ~Shared
    BY <1>1 DEF Shared
  <2>2. tmp = w /\ content[w] \notin {{}, Mixed}
    BY <2>1, <1>1 DEF ConfigInv, TornInv
  <2>3. \A v \in Writers : v # w => config_at[v] \notin {"opened", "written"}
    BY <2>1, <2>2 DEF ConfigInv, TornInv
  <2>4. QED BY <2>1, <2>2, <2>3, <1>1, <1>2 DEF ConfigInv, TornInv
<1>10. FaultInv'
  BY <1>1, FaultsStand
<1>11. QED BY <1>4, <1>6, <1>7, <1>8, <1>9, <1>10 DEF ConfigInv

LEMMA EditorKeeps ==
    ASSUME ConfigInv, NEW e \in Edits, Config!EditorSaves(e)
    PROVE  ConfigInv'
<1> USE FilesAssumption DEF Config!Inodes, Config!Configs
<1>1. PICK c \in Config!Edited(IF content[live] = Mixed THEN {Base} ELSE content[live], e) :
        content' = [content EXCEPT ![e] = c]
  BY DEF Config!EditorSaves
<1>2. /\ content[e] = None /\ content' = [content EXCEPT ![e] = c]
      /\ live' = e /\ config_event' = TRUE
      /\ UNCHANGED <<tmp, snapshot, lock, config_at, draft, fd, overtaken>>
  BY <1>1 DEF Config!EditorSaves
<1>3. c \in Config!Configs /\ c \notin {{}, None, Mixed}
  <2>1. content[live] = Mixed \/ content[live] \in Config!Configs
    BY DEF ConfigInv, Config!TypeOK
  <2>2. c \in Config!Configs /\ c # {}
    BY <1>1, <2>1 DEF Config!Edited
  <2>3. QED BY <2>2
<1>4. /\ content'[e] = c /\ e \notin Writers
      /\ \A j \in Config!Inodes : j # e => content'[j] = content[j]
  BY <1>2 DEF ConfigInv, Config!TypeOK
<1>5. tmp # e
  BY <1>4 DEF ConfigInv, TmpInv, WriterInv
<1>6. Config!TypeOK'
  BY <1>2, <1>3, <1>4, <1>5 DEF ConfigInv, Config!TypeOK
<1>7. LockInv' /\ Ahead' /\ FollowInv' /\ TmpInv'
  BY <1>2 DEF ConfigInv, LockInv, Active, Ahead, FollowInv, TmpInv
<1>8. \A v \in Writers : content'[v] = content[v]
  BY <1>4
<1>9. WriterInv'
  BY <1>2, <1>4, <1>8 DEF ConfigInv, WriterInv
<1>10. TornInv'
  BY <1>2, <1>3, <1>4, <1>8 DEF ConfigInv, TornInv, Shared
<1>11. FaultInv'
  BY <1>2, FaultsStand
<1>12. QED BY <1>6, <1>7, <1>9, <1>10, <1>11 DEF ConfigInv

-----------------------------------------------------------------------------
(* A reload.                                                               *)

\* It leaves the requests and the file alone.
LEMMA RequestsStand ==
    ASSUME ConfigInv, NEW r \in Reloaders,
           NEW s \in {"idle", "locking", "reading", "diffing", "swapping", "announcing", "done"},
           config_at' = [config_at EXCEPT ![r] = s],
           draft' = draft \/ \E d \in Config!Configs : draft' = [draft EXCEPT ![r] = d],
           UNCHANGED <<live, tmp, content, fd>>,
           snapshot' \in Config!Configs, lock' \in Reloaders \cup {None},
           {config_event', overtaken'} \subseteq BOOLEAN
    PROVE  /\ Config!TypeOK' /\ WriterInv' /\ TmpInv' /\ TornInv'
           /\ config_at'[r] = s
           /\ \A q \in Reloaders : q # r => config_at'[q] = config_at[q] /\ draft'[q] = draft[q]
<1>1. r \in Writers \cup Reloaders
  OBVIOUS
<1>2. /\ config_at' \in [Writers \cup Reloaders ->
                {"idle", "loaded", "opened", "written", "renamed", "locking", "reading",
                 "diffing", "swapping", "announcing", "done"}]
      /\ draft' \in [Writers \cup Reloaders -> Config!Configs]
      /\ config_at'[r] = s
      /\ \A b \in Writers \cup Reloaders : b # r =>
            config_at'[b] = config_at[b] /\ draft'[b] = draft[b]
  BY <1>1, TypesMove
<1>3. \A w \in Writers : config_at'[w] = config_at[w] /\ draft'[w] = draft[w]
  BY <1>2, FilesAssumption
<1>4. Config!TypeOK'
  BY <1>2 DEF ConfigInv, Config!TypeOK
<1>5. WriterInv' /\ TmpInv' /\ TornInv'
  BY <1>3 DEF ConfigInv, WriterInv, TmpInv, TornInv, Shared
<1>6. QED BY <1>2, <1>4, <1>5

LEMMA ConfigTyped ==
    ASSUME ConfigInv
    PROVE  /\ snapshot \in Config!Configs /\ lock \in Reloaders \cup {None}
           /\ {config_event, overtaken} \subseteq BOOLEAN
           /\ content[live] \in Config!Configs \cup {Mixed}
           /\ \A r \in Reloaders : draft[r] \in Config!Configs
           /\ {} \in Config!Configs /\ Watcher \in Reloaders
BY FilesAssumption DEF ConfigInv, Config!TypeOK, Config!Configs

LEMMA TakeEventsKeeps == ConfigInv /\ Config!TakeEvents => ConfigInv'
<1> SUFFICES ASSUME ConfigInv, Config!TakeEvents PROVE ConfigInv'
  OBVIOUS
<1>1. /\ config_at[Watcher] = "idle" /\ config_at' = [config_at EXCEPT ![Watcher] = "locking"]
      /\ config_event' = FALSE
      /\ UNCHANGED <<live, tmp, content, snapshot, lock, draft, fd, overtaken>>
  BY DEF Config!TakeEvents, Config!Goes, Config!fileVars
<1>2. /\ Config!TypeOK' /\ WriterInv' /\ TmpInv' /\ TornInv'
      /\ config_at'[Watcher] = "locking"
      /\ \A q \in Reloaders : q # Watcher => config_at'[q] = config_at[q] /\ draft'[q] = draft[q]
  BY <1>1, ConfigTyped, RequestsStand
<1>3. LockInv' /\ Ahead'
  BY <1>1, <1>2 DEF ConfigInv, LockInv, Active, Ahead
<1>4. QED BY <1>1, <1>2, <1>3, FaultsStand DEF ConfigInv, FollowInv

\* A reload's draft is what a file says that validated, or is dropped.
LEMMA ReloadBringsNoFault ==
    ASSUME ConfigInv, NEW r \in Reloaders, NEW d, d \cap Faulty = {},
           draft' = draft \/ draft' = [draft EXCEPT ![r] = d],
           snapshot' = snapshot \/ snapshot' = draft[r]
    PROVE  FaultInv'
<1>1. \A a \in Writers \cup Reloaders : draft'[a] = draft[a] \/ draft'[a] = d
  BY DEF ConfigInv, Config!TypeOK
<1>2. QED BY <1>1 DEF ConfigInv, FaultInv, Unchecked

LEMMA ReloadKeeps ==
    ASSUME ConfigInv, NEW r \in Reloaders, Config!ReloadStep(r)
    PROVE  ConfigInv'
<1> DEFINE After(s) ==
        /\ Config!TypeOK' /\ WriterInv' /\ TmpInv' /\ TornInv' /\ config_at'[r] = s
        /\ \A q \in Reloaders : q # r => config_at'[q] = config_at[q] /\ draft'[q] = draft[q]
<1> DEFINE Over == IF r = Watcher THEN "idle" ELSE "done"
<1>0. Over \in {"idle", "done"} /\ r \in Writers \cup Reloaders
  OBVIOUS
\* Who holds the lock is alone in looking at the file.
<1>a. ASSUME Active(r), NEW q \in Reloaders, q # r PROVE ~Active(q) /\ ~Comparing(q)
  BY <1>a DEF ConfigInv, LockInv, Active, Comparing
<1>b. ASSUME lock = None, NEW q \in Reloaders PROVE ~Active(q)
  BY <1>b, FilesAssumption DEF ConfigInv, LockInv
<1>1. CASE Config!RequestReload(r)
  <2>1. /\ r # Watcher /\ config_at[r] = "idle" /\ config_at' = [config_at EXCEPT ![r] = "locking"]
        /\ UNCHANGED <<live, tmp, content, snapshot, config_event, lock, draft, fd, overtaken>>
    BY <1>1 DEF Config!RequestReload, Config!Goes, Config!fileVars
  <2>2. After("locking")
    BY <2>1, ConfigTyped, RequestsStand
  <2>3. LockInv' /\ (Ahead' <=> Ahead)
    BY <2>1, <2>2, ConfigTyped DEF ConfigInv, LockInv, Active, Ahead
  <2>4. \A q \in Reloaders : Comparing(q)' <=> Comparing(q)
    BY <2>1, <2>2 DEF Comparing
  <2>5. FollowInv'
    BY <2>1, <2>3, <2>4 DEF ConfigInv, FollowInv, Config!SameSections, Config!Sound
  <2>6. QED BY <2>1, <2>2, <2>3, <2>5, FaultsStand DEF ConfigInv
<1>2. CASE Config!LockReload(r)
  <2>1. /\ lock = None /\ config_at[r] = "locking"
        /\ config_at' = [config_at EXCEPT ![r] = "reading"] /\ lock' = r
        /\ UNCHANGED <<live, tmp, content, snapshot, config_event, draft, fd, overtaken>>
    BY <1>2 DEF Config!LockReload, Config!Goes, Config!fileVars
  <2>2. After("reading")
    BY <2>1, ConfigTyped, RequestsStand
  <2>3. LockInv' /\ (Ahead' <=> Ahead)
    BY <2>1, <2>2, <1>b, ConfigTyped DEF ConfigInv, LockInv, Active, Ahead
  <2>4. \A q \in Reloaders : Comparing(q)' <=> Comparing(q)
    BY <2>1, <2>2 DEF Comparing
  <2>5. FollowInv'
    BY <2>1, <2>3, <2>4 DEF ConfigInv, FollowInv, Config!SameSections, Config!Sound
  <2>6. QED BY <2>1, <2>2, <2>3, <2>5, FaultsStand DEF ConfigInv
<1>3. CASE Config!LoadFails(r)
  <2>1. /\ ~Config!Sound(content[live]) /\ config_at[r] = "reading"
        /\ config_at' = [config_at EXCEPT ![r] = Over] /\ lock' = None
        /\ draft' = [draft EXCEPT ![r] = {}]
        /\ UNCHANGED <<live, tmp, content, snapshot, config_event, fd, overtaken>>
    BY <1>3 DEF Config!LoadFails, Config!Ends, Config!Goes, Config!fileVars
  <2>2. After(Over)
    BY <2>1, <1>0, ConfigTyped, RequestsStand
  <2>3. \A q \in Reloaders : ~Active(q)' /\ ~Comparing(q)'
    BY <2>1, <2>2, <1>0, <1>a DEF Active, Comparing
  <2>4. LockInv'
    BY <2>2, <2>3, <1>0 DEF ConfigInv, LockInv
  <2>5. FollowInv'
    BY <2>1, <2>3 DEF FollowInv, Config!Sound
  <2>6. FaultInv'
    BY <2>1, ReloadBringsNoFault, {} \cap Faulty = {}
  <2>7. QED BY <2>2, <2>4, <2>5, <2>6 DEF ConfigInv
<1>4. CASE Config!LoadFromPath(r)
  <2>1. /\ Config!Sound(content[live]) /\ config_at[r] = "reading"
        /\ config_at' = [config_at EXCEPT ![r] = "diffing"]
        /\ draft' = [draft EXCEPT ![r] = content[live]]
        /\ UNCHANGED <<live, tmp, content, snapshot, config_event, lock, fd, overtaken>>
    BY <1>4 DEF Config!LoadFromPath, Config!Goes, Config!fileVars
  <2>0. content[live] \in Config!Configs
    BY <2>1, ConfigTyped DEF Config!Sound
  <2>2. After("diffing")
    BY <2>0, <2>1, ConfigTyped, RequestsStand
  <2>3. draft'[r] = content[live]
    BY <2>1, <1>0 DEF ConfigInv, Config!TypeOK
  <2>4. \A q \in Reloaders : q # r => ~Active(q)' /\ ~Comparing(q)'
    BY <2>1, <2>2, <1>a DEF Active, Comparing
  <2>5. LockInv'
    BY <2>1, <2>2 DEF ConfigInv, LockInv, Active
  <2>6. FollowInv'
    BY <2>1, <2>2, <2>3, <2>4 DEF FollowInv, Comparing
  <2>7. content[live] \cap Faulty = {}
    BY <2>1 DEF Config!Sound
  <2>8. FaultInv'
    BY <2>1, <2>7, ReloadBringsNoFault
  <2>9. QED BY <2>2, <2>5, <2>6, <2>8 DEF ConfigInv
<1>5. CASE Config!IsNoop(r)
  <2>1. /\ Config!SameSections(snapshot, draft[r]) /\ config_at[r] = "diffing"
        /\ config_at' = [config_at EXCEPT ![r] = Over] /\ lock' = None /\ overtaken' = FALSE
        /\ draft' = [draft EXCEPT ![r] = {}]
        /\ UNCHANGED <<live, tmp, content, snapshot, config_event, fd>>
    BY <1>5 DEF Config!IsNoop, Config!Ends, Config!Goes, Config!fileVars
  <2>2. After(Over)
    BY <2>1, <1>0, ConfigTyped, RequestsStand
  <2>3. \A q \in Reloaders : ~Active(q)' /\ ~Comparing(q)'
    BY <2>1, <2>2, <1>0, <1>a DEF Active, Comparing
  <2>4. LockInv'
    BY <2>2, <2>3, <1>0 DEF ConfigInv, LockInv
  <2>5. ~Ahead' => ~Ahead
    BY <2>1, <2>2, ConfigTyped DEF Ahead
  <2>6. FollowInv'
    BY <2>1, <2>3, <2>5 DEF ConfigInv, FollowInv, Comparing, Config!SameSections, Config!Sound
  <2>7. FaultInv'
    BY <2>1, ReloadBringsNoFault, {} \cap Faulty = {}
  <2>8. QED BY <2>2, <2>4, <2>6, <2>7 DEF ConfigInv
<1>6. CASE Config!Differs(r)
  <2>1. /\ config_at[r] = "diffing" /\ config_at' = [config_at EXCEPT ![r] = "swapping"]
        /\ UNCHANGED <<live, tmp, content, snapshot, config_event, lock, draft, fd, overtaken>>
    BY <1>6 DEF Config!Differs, Config!Goes, Config!fileVars
  <2>2. After("swapping")
    BY <2>1, ConfigTyped, RequestsStand
  <2>3. LockInv' /\ (Ahead' <=> Ahead)
    BY <2>1, <2>2, ConfigTyped DEF ConfigInv, LockInv, Active, Ahead
  <2>4. \A q \in Reloaders : Comparing(q)' <=> Comparing(q)
    BY <2>1, <2>2 DEF Comparing
  <2>5. FollowInv'
    BY <2>1, <2>3, <2>4 DEF ConfigInv, FollowInv, Config!SameSections, Config!Sound
  <2>6. QED BY <2>1, <2>2, <2>3, <2>5, FaultsStand DEF ConfigInv
<1>7. CASE Config!Swap(r)
  <2>1. /\ config_at[r] = "swapping" /\ config_at' = [config_at EXCEPT ![r] = "announcing"]
        /\ snapshot' = draft[r] /\ overtaken' = FALSE
        /\ UNCHANGED <<live, tmp, content, config_event, lock, draft, fd>>
    BY <1>7 DEF Config!Swap, Config!Goes, Config!fileVars
  <2>2. After("announcing")
    BY <2>1, ConfigTyped, RequestsStand
  <2>3. LockInv' /\ (Ahead' <=> Ahead)
    BY <2>1, <2>2, ConfigTyped DEF ConfigInv, LockInv, Active, Ahead
  <2>4. FollowInv'
    <3>1. \A q \in Reloaders : ~Comparing(q)'
      BY <2>1, <2>2, <1>a DEF Active, Comparing
    <3>2. ~Ahead => draft[r] = content[live]
      BY <2>1 DEF ConfigInv, FollowInv, Comparing
    <3>3. Config!Sound(content[live]) => Config!SameSections(content[live], content[live])
      BY DEF Config!SameSections, Config!Sound
    <3>4. QED BY <2>1, <2>3, <3>1, <3>2, <3>3 DEF FollowInv, Config!SameSections, Config!Sound
  <2>5. FaultInv'
    BY <2>1, ReloadBringsNoFault, {} \cap Faulty = {}
  <2>6. QED BY <2>2, <2>3, <2>4, <2>5 DEF ConfigInv
<1>8. CASE Config!Announce(r)
  <2>1. /\ config_at[r] = "announcing"
        /\ config_at' = [config_at EXCEPT ![r] = Over] /\ lock' = None
        /\ draft' = [draft EXCEPT ![r] = {}]
        /\ UNCHANGED <<live, tmp, content, snapshot, config_event, fd, overtaken>>
    BY <1>8 DEF Config!Announce, Config!Ends, Config!Goes, Config!fileVars
  <2>2. After(Over)
    BY <2>1, <1>0, ConfigTyped, RequestsStand
  <2>3. \A q \in Reloaders : ~Active(q)' /\ ~Comparing(q)' /\ ~Comparing(q)
    BY <2>1, <2>2, <1>0, <1>a DEF Active, Comparing
  <2>4. LockInv'
    BY <2>2, <2>3, <1>0 DEF ConfigInv, LockInv
  <2>5. ~Ahead' => ~Ahead
    BY <2>1, <2>2, ConfigTyped DEF Ahead
  <2>6. FollowInv'
    BY <2>1, <2>3, <2>5 DEF ConfigInv, FollowInv, Config!SameSections, Config!Sound
  <2>7. FaultInv'
    BY <2>1, ReloadBringsNoFault, {} \cap Faulty = {}
  <2>8. QED BY <2>2, <2>4, <2>6, <2>7 DEF ConfigInv
<1>9. QED BY <1>1, <1>2, <1>3, <1>4, <1>5, <1>6, <1>7, <1>8 DEF Config!ReloadStep

LEMMA RequestKeeps ==
    ASSUME ConfigInv, NEW w \in Writers, Config!WriterStep(w)
    PROVE  ConfigInv'
<1>0. w # Watcher
  BY FilesAssumption
<1>1. CASE Config!LoadConfig(w)
  BY <1>1, RequestMoves DEF Config!LoadConfig, Config!Goes, Config!fileVars
<1>2. CASE Config!Store(w)
  BY <1>0, <1>2, RequestMoves DEF Config!Store, Config!Ends, Config!Goes, Config!fileVars
<1>3. CASE Config!WriteFails(w) \/ Config!RenameFails(w) \/ Config!Abandon(w)
  <2>1. /\ config_at' = [config_at EXCEPT ![w] = "done"] /\ config_at[w] # "idle"
        /\ draft' = [draft EXCEPT ![w] = {}]
        /\ UNCHANGED <<live, tmp, content, snapshot, config_event, lock, fd, overtaken>>
    BY <1>0, <1>3 DEF Config!WriteFails, Config!RenameFails, Config!Abandon, Config!Ends,
       Config!Goes, Config!fileVars
  <2>2. QED BY <2>1, RequestMoves
<1>4. QED BY <1>1, <1>2, <1>3, OpenKeeps, WriteKeeps, RenameKeeps DEF Config!WriterStep

LEMMA ConfigHolds == MCSpec => []ConfigInv
<1>1. MCInit => ConfigInv
  BY ConfigInit DEF MCInit
<1>2. ConfigInv /\ [MCNext]_allVars => ConfigInv'
  <2> SUFFICES ASSUME ConfigInv, [MCNext]_allVars PROVE ConfigInv'
    OBVIOUS
  <2>1. CASE UNCHANGED configVars
    BY <2>1, Standing
  <2>2. CASE Config!Next
    BY <2>2, RequestKeeps, EditorKeeps, TakeEventsKeeps, ReloadKeeps DEF Config!Next
  <2>3. QED BY <2>1, <2>2 DEF MCNext, Runs, allVars
<1>3. QED BY <1>1, <1>2, PTL DEF MCSpec

LEMMA ConfigGuarantees ==
    ConfigInv =>
        Config!SnapshotFollowsFile /\ Config!FaultsAreUnchecked /\ Config!TornByTwoWriters
<1> SUFFICES ASSUME ConfigInv
             PROVE  Config!SnapshotFollowsFile /\ Config!FaultsAreUnchecked /\ Config!TornByTwoWriters
  OBVIOUS
<1>1. Config!SnapshotFollowsFile
  BY FilesAssumption DEF ConfigInv, FollowInv, Ahead, Comparing, Config!SnapshotFollowsFile,
     Config!Quiet
<1>2. Config!TornByTwoWriters
  BY DEF ConfigInv, TornInv, Shared, Config!TornByTwoWriters
<1>3. Config!FaultsAreUnchecked
  BY DEF ConfigInv, FaultInv, Unchecked, Config!FaultsAreUnchecked
<1>4. QED BY <1>1, <1>2, <1>3

-----------------------------------------------------------------------------
(* The admin handlers.  Whatever is live, on disk, with Python or on the   *)
(* way there names declared providers only, a request at "ready" was       *)
(* checked on the clone it changes, a temporary is younger than anything   *)
(* Python has read, and while requests take turns the open one has the     *)
(* files to itself.                                                        *)

FineIf(c, cfg) ==
    /\ cfg \in Admin!Configs
    /\ cfg.embedding # None => Admin!Declared(cfg, cfg.embedding)
    /\ c \/ \A n \in Aliases :
        cfg.aliases[n] \in {None, "shorthand"} \/ Admin!Declared(cfg, cfg.aliases[n])
Fine(cfg) == FineIf(careless, cfg)
Text(t) == t = None \/ Fine(t)

Requests ==
    [at : {"idle", "ready", "written", "stored", "writing", "filled", "answered"},
     edit : Admin!Changes \cup {None}, read : Admin!Configs \cup {None},
     fd : {None, "tmp", "file", "gone"}]

\* A request that was checked on its clone, with what its edit was checked for.
RequestIf(c, r) ==
    /\ r.at = "ready" =>
        /\ FineIf(c, r.read) /\ r.edit \in Admin!Changes /\ Admin!Accepted(r.edit, r.read)
        /\ c \/ (r.edit.op = "alias" => r.edit.to = "shorthand" \/ Admin!Declared(r.read, r.edit.to))
    /\ r.at \in {"written", "writing"} => FineIf(c, r.read)
    /\ r.fd # None => r.at \in {"writing", "filled"}

RequestInv ==
    /\ careless \in BOOLEAN
    /\ request \in [Admin!Handlers -> Requests]
    /\ \A h \in Admin!Handlers : RequestIf(careless, request[h])

ContentInv ==
    /\ Fine(admin_live) /\ Fine(admin_disk) /\ Fine(admin_loaded.content)
    /\ Text(pyFile.content) /\ (pyTmp # None => Text(pyTmp.content))

TimeInv ==
    /\ mtime \in Nat /\ pyFile.mtime \in 1 .. mtime /\ admin_loaded.mtime \in 0 .. mtime
    /\ poll \in 1 .. mtime \cup {None}
    /\ pyTmp # None => pyTmp.mtime \in 1 .. mtime
                       /\ pyTmp.mtime \notin {pyFile.mtime, admin_loaded.mtime, poll}
    /\ Admin!LoadedIsCurrent

Open(h) == request[h].at \notin {"idle", "answered"}

TurnsInv ==
    ~overlapped /\ ~admin_failed =>
        /\ \A g, h \in Admin!Handlers : Open(g) /\ Open(h) => g = h
        /\ (\A h \in Admin!Handlers : request[h].at \notin {"stored", "writing", "filled"})
            => pyFile.content = Admin!render_py_config(admin_live)
        /\ \A h \in Admin!Handlers :
            /\ request[h].at = "writing" => request[h].read = admin_live /\ request[h].fd = "tmp"
            /\ request[h].at = "filled" => pyTmp.content = Admin!render_py_config(admin_live)

AdminInv == RequestInv /\ ContentInv /\ TimeInv /\ TurnsInv

-----------------------------------------------------------------------------
(* The edits.                                                              *)

LEMMA ChangedTyped ==
    ASSUME NEW cfg \in Admin!Configs, NEW e \in Admin!Changes
    PROVE  Admin!Changed(e, cfg) \in Admin!Configs
<1> USE DEF Admin!Configs, Admin!Switch
<1>1. CASE e \in Admin!Upserts \cup Admin!Patches
  <2>1. e.op \in {"upsert", "patch"} /\ e.provider \in ProviderSlots \cup {CustomSlot}
        /\ e.switch \in {"off", "on"} /\ (e.op = "patch" => e.provider \in ProviderSlots)
    BY <1>1 DEF Admin!Upserts, Admin!Patches
  <2>2. CASE e.provider \in ProviderSlots
    <3>1. Admin!Changed(e, cfg) = [cfg EXCEPT !.providers[e.provider] = e.switch]
      BY <2>1, <2>2, AdminAssumption DEF Admin!Changed
    <3>2. QED BY <2>1, <2>2, <3>1
  <2>3. CASE e.provider \notin ProviderSlots
    <3>1. e.op = "upsert" /\ e.provider = CustomSlot
      BY <2>1, <2>3
    <3>2. Admin!Changed(e, cfg) = cfg
      BY <2>3, <3>1 DEF Admin!Changed
    <3>3. QED BY <3>2
  <2>4. QED BY <2>2, <2>3
<1>2. CASE e \in Admin!Deletes
  <2>1. e.op = "delete" /\ e.provider \in ProviderSlots
    BY <1>2 DEF Admin!Deletes
  <2>2. Admin!Changed(e, cfg) = [cfg EXCEPT !.providers[e.provider] = None]
    BY <2>1 DEF Admin!Changed
  <2>3. QED BY <2>1, <2>2
<1>3. CASE e \in Admin!AliasPuts
  <2>1. e.op = "alias" /\ e.name \in Aliases /\ e.to \in {"shorthand"} \cup ProviderSlots \cup {CustomSlot}
    BY <1>3 DEF Admin!AliasPuts
  <2>2. Admin!Changed(e, cfg) = [cfg EXCEPT !.aliases[e.name] = e.to]
    BY <2>1 DEF Admin!Changed
  <2>3. QED BY <2>1, <2>2
<1>4. CASE e \in Admin!AliasDrops
  <2>1. e.op = "unalias" /\ e.name \in Aliases
    BY <1>4 DEF Admin!AliasDrops
  <2>2. Admin!Changed(e, cfg) = [cfg EXCEPT !.aliases[e.name] = None]
    BY <2>1 DEF Admin!Changed
  <2>3. QED BY <2>1, <2>2
<1>5. CASE e \in Admin!Bulks
  <2>1. e.op = "bulk"
    BY <1>5 DEF Admin!Bulks
  <2>2. Admin!Changed(e, cfg) =
          [cfg EXCEPT !.aliases = [n \in Aliases |-> IF n \in e.names THEN "shorthand" ELSE None]]
    BY <2>1 DEF Admin!Changed
  <2>3. QED BY <2>2
<1>6. CASE e \in Admin!Embeddings
  <2>1. e.op = "embed" /\ e.provider \in ProviderSlots
    BY <1>6 DEF Admin!Embeddings
  <2>2. Admin!Changed(e, cfg) = [cfg EXCEPT !.embedding = e.provider]
    BY <2>1 DEF Admin!Changed
  <2>3. QED BY <2>1, <2>2
<1>7. QED BY <1>1, <1>2, <1>3, <1>4, <1>5, <1>6 DEF Admin!Changes

\* What a request was checked for on its clone, the change keeps.
LEMMA ChangedFine ==
    ASSUME NEW cfg, Fine(cfg), NEW e \in Admin!Changes, Admin!Accepted(e, cfg),
           careless \/ (e.op = "alias" => e.to = "shorthand" \/ Admin!Declared(cfg, e.to))
    PROVE  Fine(Admin!Changed(e, cfg))
<1> USE AdminAssumption DEF Fine, FineIf, Admin!Configs, Admin!Switch, Admin!Declared
<1>0. Admin!Changed(e, cfg) \in Admin!Configs
  BY ChangedTyped
<1>1. CASE e \in Admin!Upserts \cup Admin!Patches
  <2>1. e.op \in {"upsert", "patch"} /\ e.provider \in ProviderSlots \cup {CustomSlot}
        /\ e.switch \in {"off", "on"} /\ (e.op = "patch" => e.provider \in ProviderSlots)
    BY <1>1 DEF Admin!Upserts, Admin!Patches
  <2>2. CASE e.provider \in ProviderSlots
    <3>1. Admin!Changed(e, cfg) = [cfg EXCEPT !.providers[e.provider] = e.switch]
      BY <2>1, <2>2 DEF Admin!Changed
    <3>2. QED BY <2>1, <2>2, <3>1, <1>0
  <2>3. CASE e.provider \notin ProviderSlots
    <3>1. e.op = "upsert" /\ e.provider = CustomSlot
      BY <2>1, <2>3
    <3>2. Admin!Changed(e, cfg) = cfg
      BY <2>3, <3>1 DEF Admin!Changed
    <3>3. QED BY <3>2
  <2>4. QED BY <2>2, <2>3
<1>2. CASE e \in Admin!Deletes
  <2>1. e.op = "delete" /\ e.provider \in ProviderSlots
    BY <1>2 DEF Admin!Deletes
  <2>2. Admin!Changed(e, cfg) = [cfg EXCEPT !.providers[e.provider] = None]
    BY <2>1 DEF Admin!Changed
  <2>3. cfg.embedding # e.provider /\ \A n \in Aliases : cfg.aliases[n] # e.provider
    BY <2>1 DEF Admin!Accepted, Admin!detect_references
  <2>4. QED BY <2>1, <2>2, <2>3, <1>0
<1>3. CASE e \in Admin!AliasPuts
  <2>1. e.op = "alias" /\ e.name \in Aliases /\ e.to \in {"shorthand"} \cup ProviderSlots \cup {CustomSlot}
    BY <1>3 DEF Admin!AliasPuts
  <2>2. Admin!Changed(e, cfg) = [cfg EXCEPT !.aliases[e.name] = e.to]
    BY <2>1 DEF Admin!Changed
  <2>3. QED BY <2>1, <2>2, <1>0
<1>4. CASE e \in Admin!AliasDrops
  <2>1. e.op = "unalias" /\ e.name \in Aliases
    BY <1>4 DEF Admin!AliasDrops
  <2>2. Admin!Changed(e, cfg) = [cfg EXCEPT !.aliases[e.name] = None]
    BY <2>1 DEF Admin!Changed
  <2>3. QED BY <2>1, <2>2, <1>0
<1>5. CASE e \in Admin!Bulks
  <2>1. e.op = "bulk"
    BY <1>5 DEF Admin!Bulks
  <2>2. Admin!Changed(e, cfg) =
          [cfg EXCEPT !.aliases = [n \in Aliases |-> IF n \in e.names THEN "shorthand" ELSE None]]
    BY <2>1 DEF Admin!Changed
  <2>3. QED BY <2>2, <1>0
<1>6. CASE e \in Admin!Embeddings
  <2>1. e.op = "embed" /\ e.provider \in ProviderSlots
    BY <1>6 DEF Admin!Embeddings
  <2>2. Admin!Changed(e, cfg) = [cfg EXCEPT !.embedding = e.provider]
    BY <2>1 DEF Admin!Changed
  <2>3. cfg.providers[e.provider] # None
    BY <2>1 DEF Admin!Accepted
  <2>4. QED BY <2>1, <2>2, <2>3, <1>0
<1>7. QED BY <1>1, <1>2, <1>3, <1>4, <1>5, <1>6 DEF Admin!Changes

LEMMA RenderFine ==
    ASSUME NEW cfg, Fine(cfg)
    PROVE  Fine(Admin!render_py_config(cfg)) /\ Admin!render_py_config(cfg) \in Admin!Configs
BY AdminAssumption
   DEF Fine, FineIf, Admin!Configs, Admin!Switch, Admin!Declared, Admin!render_py_config

LEMMA NothingFine == Fine(Admin!Nothing)
BY AdminAssumption DEF Fine, FineIf, Admin!Configs, Admin!Nothing, Admin!Declared

LEMMA AdminInit == Admin!Init => AdminInv
<1> SUFFICES ASSUME Admin!Init PROVE AdminInv
  OBVIOUS
<1>1. PICK cfg \in Admin!Configs :
        /\ \A n \in Aliases : cfg.aliases[n] \in ProviderSlots => Admin!Declared(cfg, cfg.aliases[n])
        /\ \A n \in Aliases : cfg.aliases[n] # CustomSlot
        /\ cfg.embedding # None => Admin!Declared(cfg, cfg.embedding)
        /\ admin_live = cfg /\ admin_disk = cfg
        /\ pyFile = [mtime |-> 1, content |-> Admin!render_py_config(cfg)]
  BY DEF Admin!Init
<1>2. Fine(cfg)
  BY <1>1 DEF Fine, FineIf, Admin!Configs
<1>3. /\ request = [h \in Admin!Handlers |-> Admin!Idle]
      /\ pyTmp = None /\ mtime = 1 /\ poll = None
      /\ admin_loaded = [mtime |-> 0, content |-> Admin!Nothing]
      /\ overlapped = FALSE /\ admin_failed = FALSE /\ careless = FALSE
  BY DEF Admin!Init
<1>4. RequestInv
  BY <1>3, AdminAssumption DEF RequestInv, RequestIf, Admin!Idle, Requests
<1>5. ContentInv
  BY <1>1, <1>2, <1>3, NothingFine, RenderFine DEF ContentInv, Text
<1>6. TimeInv
  BY <1>1, <1>3 DEF TimeInv, Admin!LoadedIsCurrent
<1>7. TurnsInv
  BY <1>1, <1>3 DEF TurnsInv, Open, Admin!Idle
<1>8. QED BY <1>4, <1>5, <1>6, <1>7 DEF AdminInv

-----------------------------------------------------------------------------
(* The steps.  Each is restated as plain equations first.                   *)

LEMMA FineGrows ==
    ASSUME NEW c \in BOOLEAN, NEW d \in BOOLEAN, c => d
    PROVE  /\ \A cfg : FineIf(c, cfg) => FineIf(d, cfg)
           /\ \A r : RequestIf(c, r) => RequestIf(d, r)
<1>1. \A cfg : FineIf(c, cfg) => FineIf(d, cfg)
  BY DEF FineIf
<1>2. \A r : RequestIf(c, r) => RequestIf(d, r)
  BY <1>1 DEF RequestIf
<1>3. QED BY <1>1, <1>2

\* One request goes on and the others stay.
LEMMA RequestStep ==
    ASSUME RequestInv, careless' \in BOOLEAN, careless => careless',
           NEW h \in Admin!Handlers, NEW r \in Requests, RequestIf(careless', r),
           request' = [request EXCEPT ![h] = r]
    PROVE  RequestInv'
<1>1. request' \in [Admin!Handlers -> Requests]
  BY DEF RequestInv
<1>2. ASSUME NEW g \in Admin!Handlers PROVE RequestIf(careless', request'[g])
  <2>1. CASE g = h
    BY <2>1 DEF RequestInv
  <2>2. CASE g # h
    <3>1. request'[g] = request[g] /\ RequestIf(careless, request[g]) /\ careless \in BOOLEAN
      BY <2>2 DEF RequestInv
    <3>2. QED BY <3>1, FineGrows
  <2>3. QED BY <2>1, <2>2
<1>3. QED BY <1>1, <1>2 DEF RequestInv

\* The files and what was loaded stay, as the clock and the ghosts do.
LEMMA TimeStands ==
    ASSUME TimeInv, UNCHANGED <<pyFile, pyTmp, mtime, poll, admin_loaded>>
    PROVE  TimeInv'
BY DEF TimeInv, Admin!LoadedIsCurrent, Admin!_load_config, Admin!Nothing

LEMMA AcceptHolds ==
    ASSUME AdminInv, NEW h \in Admin!Handlers, NEW e \in Admin!Changes, Admin!Accept(h, e)
    PROVE  AdminInv'
<1>1. /\ request[h].at = "idle" /\ Admin!Accepted(e, admin_live)
      /\ request' = [request EXCEPT ![h] = [at |-> "ready", edit |-> e, read |-> admin_live, fd |-> None]]
      /\ overlapped' = (overlapped \/ \E g \in Admin!Handlers : request[g].at \notin {"idle", "answered"})
      /\ careless' = (careless \/ (e.op = "alias" /\ e.to \notin {"shorthand"} /\ ~Admin!Declared(admin_live, e.to)))
      /\ UNCHANGED <<admin_live, admin_disk, pyFile, pyTmp, mtime, poll, admin_loaded, admin_failed>>
  BY DEF Admin!Accept, Admin!pyVars, Admin!pythonVars
<1>2. careless \in BOOLEAN /\ careless' \in BOOLEAN /\ (careless => careless') /\ Fine(admin_live)
  BY <1>1 DEF AdminInv, RequestInv, ContentInv
<1>3. PICK r : r = [at |-> "ready", edit |-> e, read |-> admin_live, fd |-> None]
  OBVIOUS
<1>4. r \in Requests
  BY <1>2, <1>3 DEF Requests, Fine, FineIf
<1>6. RequestIf(careless', r)
  <2>1. FineIf(careless', admin_live)
    BY <1>2, FineGrows DEF Fine
  <2>2. careless' \/ (e.op = "alias" => e.to = "shorthand" \/ Admin!Declared(admin_live, e.to))
    BY <1>1
  <2>3. QED BY <1>1, <1>3, <2>1, <2>2 DEF RequestIf
<1>7. RequestInv'
  BY <1>1, <1>2, <1>3, <1>4, <1>6, RequestStep DEF AdminInv
<1>8. ContentInv'
  BY <1>1, <1>2, FineGrows DEF AdminInv, ContentInv, Text, Fine
<1>9. TimeInv'
  BY <1>1, TimeStands DEF AdminInv
<1>10. TurnsInv'
  <2> SUFFICES ASSUME ~overlapped', ~admin_failed' PROVE TurnsInv'
    BY DEF TurnsInv
  <2>1. ~overlapped /\ ~admin_failed /\ \A g \in Admin!Handlers : ~Open(g)
    BY <1>1 DEF Open
  <2>2. request \in [Admin!Handlers -> Requests]
    BY DEF AdminInv, RequestInv
  <2>3. \A g \in Admin!Handlers : request'[g].at = IF g = h THEN "ready" ELSE request[g].at
    BY <1>1, <2>2
  <2>4. pyFile.content = Admin!render_py_config(admin_live)
    BY <2>1 DEF AdminInv, TurnsInv, Open
  <2>5. \A g \in Admin!Handlers : g # h => request'[g].at \in {"idle", "answered"}
    BY <2>1, <2>3 DEF Open
  <2>6. pyFile'.content = Admin!render_py_config(admin_live')
    BY <1>1, <2>4
  <2>7. QED BY <2>3, <2>5, <2>6 DEF TurnsInv, Open
<1>11. QED BY <1>7, <1>8, <1>9, <1>10 DEF AdminInv

\* While requests take turns the open one has the files to itself.
LEMMA TurnsStep ==
    ASSUME AdminInv, NEW h \in Admin!Handlers, Open(h), NEW r,
           request' = [request EXCEPT ![h] = r], UNCHANGED <<overlapped, admin_failed>>,
           ~overlapped, ~admin_failed,
           r.at \notin {"stored", "writing", "filled"} =>
               pyFile'.content = Admin!render_py_config(admin_live'),
           r.at = "writing" => r.read = admin_live' /\ r.fd = "tmp",
           r.at = "filled" => pyTmp'.content = Admin!render_py_config(admin_live')
    PROVE  TurnsInv'
<1>1. request'[h] = r /\ \A g \in Admin!Handlers : g # h => request'[g] = request[g]
  BY DEF AdminInv, RequestInv
<1>2. \A g \in Admin!Handlers : g # h => request'[g].at \in {"idle", "answered"}
  BY <1>1 DEF AdminInv, TurnsInv, Open
<1>3. \A f, g \in Admin!Handlers : request'[f].at \notin {"idle", "answered"}
          /\ request'[g].at \notin {"idle", "answered"} => f = g
  BY <1>2
<1>4. (\A g \in Admin!Handlers : request'[g].at \notin {"stored", "writing", "filled"})
          => pyFile'.content = Admin!render_py_config(admin_live')
  BY <1>1
<1>5. \A g \in Admin!Handlers : request'[g].at = "writing" =>
          request'[g].read = admin_live' /\ request'[g].fd = "tmp"
  BY <1>1, <1>2
<1>6. \A g \in Admin!Handlers : request'[g].at = "filled" =>
          pyTmp'.content = Admin!render_py_config(admin_live')
  BY <1>1, <1>2
<1>7. QED BY <1>3, <1>4, <1>5, <1>6 DEF TurnsInv, Open

\* What is live is with Python when no request is rewriting the file.
LEMMA LiveIsWritten ==
    ASSUME AdminInv, ~overlapped, ~admin_failed,
           NEW h \in Admin!Handlers, Open(h), request[h].at \notin {"stored", "writing", "filled"}
    PROVE  pyFile.content = Admin!render_py_config(admin_live)
<1>1. \A g \in Admin!Handlers : request[g].at \notin {"stored", "writing", "filled"}
  BY DEF AdminInv, TurnsInv, Open
<1>2. QED BY <1>1 DEF AdminInv, TurnsInv

LEMMA WriteConfigHolds ==
    ASSUME AdminInv, NEW h \in Admin!Handlers, Admin!WriteConfig(h)
    PROVE  AdminInv'
<1>1. /\ request[h].at = "ready"
      /\ admin_disk' = Admin!Changed(request[h].edit, request[h].read)
      /\ request' = [request EXCEPT ![h] = [@ EXCEPT !.at = "written", !.edit = None, !.read = admin_disk']]
      /\ UNCHANGED <<admin_live, pyFile, pyTmp, mtime, poll, admin_loaded, overlapped, admin_failed, careless>>
  BY DEF Admin!WriteConfig, Admin!Clone, Admin!pyVars, Admin!pythonVars, Admin!ghostVars
<1>2. /\ careless \in BOOLEAN /\ request \in [Admin!Handlers -> Requests]
      /\ request[h] \in Requests /\ RequestIf(careless, request[h])
  BY DEF AdminInv, RequestInv
<1>3. Fine(admin_disk')
  <2>1. PICK cfg, e : cfg = request[h].read /\ e = request[h].edit
    OBVIOUS
  <2>2. /\ FineIf(careless, cfg) /\ e \in Admin!Changes /\ Admin!Accepted(e, cfg)
        /\ careless \/ (e.op = "alias" => e.to = "shorthand" \/ Admin!Declared(cfg, e.to))
    BY <1>1, <1>2, <2>1 DEF RequestIf
  <2>3. Fine(Admin!Changed(e, cfg))
    BY <2>2, ChangedFine DEF Fine
  <2>4. QED BY <1>1, <2>1, <2>3
<1>4. FineIf(careless', admin_disk')
  BY <1>1, <1>3 DEF Fine
<1>5. PICK r : r = [request[h] EXCEPT !.at = "written", !.edit = None, !.read = admin_disk']
  OBVIOUS
<1>6. /\ r.at = "written" /\ r.edit = None /\ r.read = admin_disk' /\ r.fd = request[h].fd
      /\ request' = [request EXCEPT ![h] = r]
  BY <1>1, <1>2, <1>5 DEF Requests
<1>7. r \in Requests
  BY <1>2, <1>4, <1>5 DEF Requests, FineIf
<1>8. RequestIf(careless', r)
  BY <1>1, <1>2, <1>4, <1>6 DEF RequestIf
<1>9. RequestInv'
  BY <1>1, <1>2, <1>6, <1>7, <1>8, RequestStep DEF AdminInv
<1>10. ContentInv'
  BY <1>1, <1>4 DEF AdminInv, ContentInv, Text, Fine
<1>11. TimeInv'
  BY <1>1, TimeStands DEF AdminInv
<1>12. TurnsInv'
  <2> SUFFICES ASSUME ~overlapped', ~admin_failed' PROVE TurnsInv'
    BY DEF TurnsInv
  <2>1. Open(h) /\ ~overlapped /\ ~admin_failed
    BY <1>1 DEF Open
  <2>2. pyFile.content = Admin!render_py_config(admin_live)
    BY <1>1, <2>1, LiveIsWritten
  <2>3. pyFile'.content = Admin!render_py_config(admin_live')
    BY <1>1, <2>2
  <2>4. QED BY <1>1, <1>6, <2>1, <2>3, TurnsStep
<1>13. QED BY <1>9, <1>10, <1>11, <1>12 DEF AdminInv

\* A request that is over, whether its files were written or not.
LEMMA AnsweredIsTyped ==
    ASSUME NEW c \in BOOLEAN
    PROVE  Admin!Answered \in Requests /\ Admin!Answered.at = "answered"
           /\ RequestIf(c, Admin!Answered)
BY DEF Admin!Answered, Admin!Idle, Requests, RequestIf

LEMMA WriteFailsHolds ==
    ASSUME AdminInv, NEW h \in Admin!Handlers, Admin!WriteFails(h)
    PROVE  AdminInv'
<1>1. /\ request[h].at = "ready"
      /\ request' = [request EXCEPT ![h] = Admin!Answered]
      /\ UNCHANGED <<admin_live, admin_disk, pyFile, pyTmp, mtime, poll, admin_loaded, overlapped,
                     admin_failed, careless>>
  BY DEF Admin!WriteFails, Admin!pyVars, Admin!pythonVars, Admin!ghostVars
<1>2. careless \in BOOLEAN /\ careless' \in BOOLEAN
  BY <1>1 DEF AdminInv, RequestInv
<1>3. RequestInv'
  BY <1>1, <1>2, RequestStep, AnsweredIsTyped DEF AdminInv
<1>4. ContentInv'
  BY <1>1 DEF AdminInv, ContentInv, Text, Fine
<1>5. TimeInv'
  BY <1>1, TimeStands DEF AdminInv
<1>6. TurnsInv'
  <2> SUFFICES ASSUME ~overlapped', ~admin_failed' PROVE TurnsInv'
    BY DEF TurnsInv
  <2>1. Open(h) /\ ~overlapped /\ ~admin_failed
    BY <1>1 DEF Open
  <2>2. pyFile.content = Admin!render_py_config(admin_live)
    BY <1>1, <2>1, LiveIsWritten
  <2>3. pyFile'.content = Admin!render_py_config(admin_live')
    BY <1>1, <2>2
  <2>4. Admin!Answered.at = "answered"
    BY AnsweredIsTyped, <1>2
  <2>5. QED BY <1>1, <2>1, <2>3, <2>4, TurnsStep
<1>7. QED BY <1>3, <1>4, <1>5, <1>6 DEF AdminInv

LEMMA StoreHolds ==
    ASSUME AdminInv, NEW h \in Admin!Handlers, Admin!Store(h)
    PROVE  AdminInv'
<1>1. /\ request[h].at = "written"
      /\ admin_live' = request[h].read
      /\ request' = [request EXCEPT ![h] = [@ EXCEPT !.at = "stored", !.read = None]]
      /\ UNCHANGED <<admin_disk, pyFile, pyTmp, mtime, poll, admin_loaded, overlapped,
                     admin_failed, careless>>
  BY DEF Admin!Store, Admin!pyVars, Admin!pythonVars, Admin!ghostVars
<1>2. /\ careless \in BOOLEAN /\ request[h] \in Requests /\ RequestIf(careless, request[h])
  BY DEF AdminInv, RequestInv
<1>3. PICK r : r = [request[h] EXCEPT !.at = "stored", !.read = None]
  OBVIOUS
<1>4. /\ r.at = "stored" /\ r.fd = request[h].fd /\ request' = [request EXCEPT ![h] = r]
  BY <1>1, <1>2, <1>3 DEF Requests
<1>5. r \in Requests
  BY <1>2, <1>3 DEF Requests
<1>6. RequestIf(careless', r)
  BY <1>1, <1>2, <1>4 DEF RequestIf
<1>7. RequestInv'
  BY <1>1, <1>2, <1>4, <1>5, <1>6, RequestStep DEF AdminInv
<1>8. FineIf(careless', admin_live')
  BY <1>1, <1>2 DEF RequestIf
<1>9. ContentInv'
  BY <1>1, <1>8 DEF AdminInv, ContentInv, Text, Fine
<1>10. TimeInv'
  BY <1>1, TimeStands DEF AdminInv
<1>11. TurnsInv'
  <2> SUFFICES ASSUME ~overlapped', ~admin_failed' PROVE TurnsInv'
    BY DEF TurnsInv
  <2>1. Open(h) /\ ~overlapped /\ ~admin_failed
    BY <1>1 DEF Open
  <2>2. QED BY <1>1, <1>4, <2>1, TurnsStep
<1>12. QED BY <1>7, <1>9, <1>10, <1>11 DEF AdminInv

LEMMA TruncateHolds ==
    ASSUME AdminInv, NEW h \in Admin!Handlers, Admin!Truncate(h)
    PROVE  AdminInv'
<1>1. /\ request[h].at = "stored"
      /\ request' = [request EXCEPT ![h] = [@ EXCEPT !.at = "writing", !.read = admin_live, !.fd = "tmp"]]
      /\ mtime' = mtime + 1 /\ pyTmp' = [mtime |-> mtime + 1, content |-> None]
      /\ UNCHANGED <<admin_live, admin_disk, pyFile, poll, admin_loaded, overlapped, admin_failed,
                     careless>>
  BY DEF Admin!Truncate, Admin!pyVars, Admin!pythonVars, Admin!ghostVars
<1>2. /\ careless \in BOOLEAN /\ request[h] \in Requests /\ FineIf(careless, admin_live)
  BY DEF AdminInv, RequestInv, ContentInv, Fine
<1>3. PICK r : r = [request[h] EXCEPT !.at = "writing", !.read = admin_live, !.fd = "tmp"]
  OBVIOUS
<1>4. /\ r.at = "writing" /\ r.read = admin_live /\ r.fd = "tmp"
      /\ request' = [request EXCEPT ![h] = r]
  BY <1>1, <1>2, <1>3 DEF Requests
<1>5. r \in Requests
  BY <1>2, <1>3 DEF Requests, FineIf
<1>6. RequestIf(careless', r)
  BY <1>1, <1>2, <1>4 DEF RequestIf
<1>7. RequestInv'
  BY <1>1, <1>2, <1>4, <1>5, <1>6, RequestStep DEF AdminInv
<1>8. ContentInv'
  BY <1>1 DEF AdminInv, ContentInv, Text, Fine
<1>9. TimeInv'
  <2>1. TimeInv
    BY DEF AdminInv
  <2>2. mtime' \in Nat /\ pyTmp'.mtime = mtime' /\ mtime' \notin {pyFile.mtime, admin_loaded.mtime, poll}
    BY <1>1, <2>1, AdminAssumption DEF TimeInv
  <2>3. pyTmp'.mtime \in 1 .. mtime'
    BY <1>1, <2>1, <2>2 DEF TimeInv
  <2>4. pyFile'.mtime \in 1 .. mtime' /\ admin_loaded'.mtime \in 0 .. mtime'
        /\ poll' \in 1 .. mtime' \cup {None}
    BY <1>1, <2>1 DEF TimeInv
  <2>5. Admin!LoadedIsCurrent'
    BY <1>1, <2>1 DEF TimeInv, Admin!LoadedIsCurrent, Admin!_load_config, Admin!Nothing
  <2>6. QED BY <1>1, <2>2, <2>3, <2>4, <2>5 DEF TimeInv
<1>10. TurnsInv'
  <2> SUFFICES ASSUME ~overlapped', ~admin_failed' PROVE TurnsInv'
    BY DEF TurnsInv
  <2>1. Open(h) /\ ~overlapped /\ ~admin_failed
    BY <1>1 DEF Open
  <2>2. r.read = admin_live'
    BY <1>1, <1>4
  <2>3. QED BY <1>1, <1>4, <2>1, <2>2, TurnsStep
<1>11. QED BY <1>7, <1>8, <1>9, <1>10 DEF AdminInv

LEMMA FillHolds ==
    ASSUME AdminInv, NEW h \in Admin!Handlers, Admin!Fill(h)
    PROVE  AdminInv'
<1>0. PICK text : text = [mtime |-> mtime + 1, content |-> Admin!render_py_config(request[h].read)]
  OBVIOUS
<1>1. /\ request[h].at = "writing"
      /\ request' = [request EXCEPT ![h] = [@ EXCEPT !.at = "filled", !.read = None]]
      /\ mtime' = mtime + 1
      /\ pyTmp' = (IF request[h].fd = "tmp" THEN text ELSE pyTmp)
      /\ pyFile' = (IF request[h].fd = "file" THEN text ELSE pyFile)
      /\ UNCHANGED <<admin_live, admin_disk, poll, admin_loaded, overlapped, admin_failed, careless>>
  BY <1>0 DEF Admin!Fill, Admin!pythonVars, Admin!ghostVars
<1>2. /\ careless \in BOOLEAN /\ request[h] \in Requests /\ RequestIf(careless, request[h])
  BY DEF AdminInv, RequestInv
<1>3. PICK r : r = [request[h] EXCEPT !.at = "filled", !.read = None]
  OBVIOUS
<1>4. /\ r.at = "filled" /\ r.fd = request[h].fd /\ request' = [request EXCEPT ![h] = r]
  BY <1>1, <1>2, <1>3 DEF Requests
<1>5. r \in Requests
  BY <1>2, <1>3 DEF Requests
<1>6. RequestIf(careless', r)
  BY <1>1, <1>2, <1>4 DEF RequestIf
<1>7. RequestInv'
  BY <1>1, <1>2, <1>4, <1>5, <1>6, RequestStep DEF AdminInv
<1>8. FineIf(careless, text.content)
  <2>1. PICK cfg : cfg = request[h].read
    OBVIOUS
  <2>2. Fine(cfg)
    BY <1>1, <1>2, <2>1 DEF RequestIf, Fine
  <2>3. Fine(Admin!render_py_config(cfg))
    BY <2>2, RenderFine
  <2>4. text.content = Admin!render_py_config(cfg)
    BY <1>0, <2>1
  <2>5. QED BY <2>3, <2>4 DEF Fine
<1>9. ContentInv'
  <2>1. ContentInv
    BY DEF AdminInv
  <2>2. Text(pyFile.content)'
    BY <1>1, <1>8, <2>1 DEF ContentInv, Text, Fine
  <2>3. (pyTmp # None => Text(pyTmp.content))'
    BY <1>1, <1>8, <2>1 DEF ContentInv, Text, Fine
  <2>4. Fine(admin_live)' /\ Fine(admin_disk)' /\ Fine(admin_loaded.content)'
    BY <1>1, <2>1 DEF ContentInv, Fine
  <2>5. QED BY <2>2, <2>3, <2>4 DEF ContentInv
<1>10. TimeInv'
  <2>1. TimeInv
    BY DEF AdminInv
  <2>2. mtime' \in Nat /\ text.mtime = mtime' /\ mtime' \in 1 .. mtime'
    BY <1>0, <1>1, <2>1 DEF TimeInv
  <2>3. mtime' \notin {pyFile.mtime, admin_loaded.mtime, poll}
    BY <1>1, <2>1, AdminAssumption DEF TimeInv
  <2>4. pyFile'.mtime \in 1 .. mtime' /\ admin_loaded'.mtime \in 0 .. mtime'
        /\ poll' \in 1 .. mtime' \cup {None}
    BY <1>1, <2>1, <2>2 DEF TimeInv
  <2>5. pyTmp' # None => pyTmp'.mtime \in 1 .. mtime'
    BY <1>1, <2>1, <2>2 DEF TimeInv
  <2>6. pyTmp' # None => pyTmp'.mtime \notin {pyFile'.mtime, admin_loaded'.mtime, poll'}
    <3>1. CASE request[h].fd = "tmp"
      BY <1>1, <2>2, <2>3, <3>1
    <3>2. CASE request[h].fd = "file"
      <4>1. pyTmp' = pyTmp /\ pyFile'.mtime = mtime + 1
        BY <1>0, <1>1, <3>2
      <4>2. pyTmp # None => pyTmp.mtime # mtime + 1
        BY <2>1 DEF TimeInv
      <4>3. pyTmp # None => pyTmp.mtime \notin {admin_loaded.mtime, poll}
        BY <2>1 DEF TimeInv
      <4>4. QED BY <1>1, <4>1, <4>2, <4>3
    <3>3. CASE request[h].fd \notin {"tmp", "file"}
      BY <1>1, <2>1, <3>3 DEF TimeInv
    <3>4. QED BY <3>1, <3>2, <3>3
  <2>7. Admin!LoadedIsCurrent'
    <3>1. CASE request[h].fd = "file"
      <4>1. admin_loaded'.mtime # pyFile'.mtime
        BY <1>1, <2>2, <2>3, <3>1
      <4>2. QED BY <4>1 DEF Admin!LoadedIsCurrent
    <3>2. CASE request[h].fd # "file"
      BY <1>1, <2>1, <3>2 DEF TimeInv, Admin!LoadedIsCurrent, Admin!_load_config, Admin!Nothing
    <3>3. QED BY <3>1, <3>2
  <2>8. QED BY <2>2, <2>4, <2>5, <2>6, <2>7 DEF TimeInv
<1>11. TurnsInv'
  <2> SUFFICES ASSUME ~overlapped', ~admin_failed' PROVE TurnsInv'
    BY DEF TurnsInv
  <2>1. Open(h) /\ ~overlapped /\ ~admin_failed
    BY <1>1 DEF Open
  <2>2. request[h].read = admin_live /\ request[h].fd = "tmp"
    BY <1>1, <2>1 DEF AdminInv, TurnsInv
  <2>3. pyTmp'.content = Admin!render_py_config(admin_live')
    BY <1>0, <1>1, <2>2
  <2>4. QED BY <1>1, <1>4, <2>1, <2>3, TurnsStep
<1>12. QED BY <1>7, <1>9, <1>10, <1>11 DEF AdminInv

LEMMA RenameHolds ==
    ASSUME AdminInv, NEW h \in Admin!Handlers, Admin!Rename(h)
    PROVE  AdminInv'
<1>1. /\ request[h].at = "filled" /\ pyTmp # None
      /\ pyFile' = pyTmp /\ pyTmp' = None
      /\ request' = [g \in Admin!Handlers |->
             IF g = h THEN Admin!Answered
             ELSE [request[g] EXCEPT !.fd = CASE @ = "tmp" -> "file" [] @ = "file" -> "gone" [] OTHER -> @]]
      /\ UNCHANGED <<admin_live, admin_disk, mtime, poll, admin_loaded, overlapped, admin_failed,
                     careless>>
  BY DEF Admin!Rename, Admin!pythonVars, Admin!ghostVars
<1>2. careless \in BOOLEAN /\ request \in [Admin!Handlers -> Requests]
  BY DEF AdminInv, RequestInv
<1>3. ASSUME NEW g \in Admin!Handlers, g # h
      PROVE  /\ request'[g] \in Requests
             /\ request'[g].at = request[g].at /\ request'[g].edit = request[g].edit
             /\ request'[g].read = request[g].read
             /\ request'[g].fd # None => request[g].fd # None
  <2>1. PICK r, f : r = request[g] /\ f = CASE r.fd = "tmp" -> "file" [] r.fd = "file" -> "gone" [] OTHER -> r.fd
    OBVIOUS
  <2>2. request'[g] = [r EXCEPT !.fd = f] /\ r \in Requests
    BY <1>1, <1>2, <1>3, <2>1
  <2>3. r.fd \in {None, "tmp", "file", "gone"}
    BY <2>2 DEF Requests
  <2>4. f \in {None, "tmp", "file", "gone"} /\ (f # None => r.fd # None)
    BY <2>1, <2>3, AdminAssumption
  <2>5. request'[g] \in Requests
    BY <2>2, <2>4 DEF Requests
  <2>6. request'[g].at = r.at /\ request'[g].edit = r.edit /\ request'[g].read = r.read
        /\ request'[g].fd = f
    BY <2>2 DEF Requests
  <2>7. QED BY <2>1, <2>4, <2>5, <2>6
<1>4. request'[h] = Admin!Answered /\ Admin!Answered \in Requests /\ Admin!Answered.at = "answered"
      /\ RequestIf(careless, Admin!Answered)
  BY <1>1, <1>2, AnsweredIsTyped
<1>5. RequestInv'
  <2>1. request' \in [Admin!Handlers -> Requests]
    <3>1. \A g \in Admin!Handlers : request'[g] \in Requests
      BY <1>3, <1>4
    <3>2. request' = [g \in Admin!Handlers |-> request'[g]]
      BY <1>1
    <3>3. QED BY <3>1, <3>2
  <2>2. ASSUME NEW g \in Admin!Handlers, g # h PROVE RequestIf(careless', request'[g])
    <3>1. RequestIf(careless, request[g])
      BY DEF AdminInv, RequestInv
    <3>2. QED BY <1>1, <1>3, <2>2, <3>1 DEF RequestIf
  <2>3. QED BY <1>1, <1>2, <1>4, <2>1, <2>2 DEF RequestInv
<1>6. ContentInv'
  BY <1>1 DEF AdminInv, ContentInv, Text, Fine
<1>7. TimeInv'
  <2>1. TimeInv
    BY DEF AdminInv
  <2>2. admin_loaded'.mtime # pyFile'.mtime
    BY <1>1, <2>1 DEF TimeInv
  <2>3. Admin!LoadedIsCurrent'
    BY <2>2 DEF Admin!LoadedIsCurrent
  <2>4. QED BY <1>1, <2>1, <2>3 DEF TimeInv
<1>8. TurnsInv'
  <2> SUFFICES ASSUME ~overlapped', ~admin_failed' PROVE TurnsInv'
    BY DEF TurnsInv
  <2>1. Open(h) /\ ~overlapped /\ ~admin_failed
    BY <1>1 DEF Open
  <2>2. \A g \in Admin!Handlers : request'[g].at \in {"idle", "answered"}
    BY <1>3, <1>4, <2>1 DEF AdminInv, TurnsInv, Open
  <2>3. pyTmp.content = Admin!render_py_config(admin_live)
    BY <1>1, <2>1 DEF AdminInv, TurnsInv
  <2>4. pyFile'.content = Admin!render_py_config(admin_live')
    BY <1>1, <2>3
  <2>5. QED BY <2>2, <2>4 DEF TurnsInv, Open
<1>9. QED BY <1>5, <1>6, <1>7, <1>8 DEF AdminInv

LEMMA RewriteFailsHolds ==
    ASSUME AdminInv, NEW h \in Admin!Handlers, Admin!RewriteFails(h)
    PROVE  AdminInv'
<1>1. /\ request' = [request EXCEPT ![h] = Admin!Answered] /\ admin_failed' = TRUE
      /\ UNCHANGED <<admin_live, admin_disk, pyFile, pyTmp, mtime, poll, admin_loaded, careless>>
  BY DEF Admin!RewriteFails, Admin!pyVars, Admin!pythonVars
<1>2. careless \in BOOLEAN /\ careless' \in BOOLEAN
  BY <1>1 DEF AdminInv, RequestInv
<1>3. RequestInv'
  BY <1>1, <1>2, RequestStep, AnsweredIsTyped DEF AdminInv
<1>4. ContentInv'
  BY <1>1 DEF AdminInv, ContentInv, Text, Fine
<1>5. TimeInv'
  BY <1>1, TimeStands DEF AdminInv
<1>6. TurnsInv'
  BY <1>1 DEF TurnsInv
<1>7. QED BY <1>3, <1>4, <1>5, <1>6 DEF AdminInv

\* Nothing about the requests, what is live and the two files changes.
LEMMA FilesStand ==
    ASSUME AdminInv, UNCHANGED <<admin_live, admin_disk, request, pyFile, pyTmp, overlapped,
                                 admin_failed, careless>>
    PROVE  RequestInv' /\ TurnsInv' /\ Fine(admin_live)' /\ Fine(admin_disk)'
           /\ Text(pyFile.content)' /\ (pyTmp # None => Text(pyTmp.content))'
<1>1. RequestInv'
  BY DEF AdminInv, RequestInv
<1>2. TurnsInv'
  BY DEF AdminInv, TurnsInv, Open
<1>3. QED BY <1>1, <1>2 DEF AdminInv, ContentInv, Text, Fine

LEMMA StatHolds ==
    ASSUME AdminInv, Admin!Stat
    PROVE  AdminInv'
<1>1. /\ poll' = pyFile.mtime
      /\ UNCHANGED <<admin_live, admin_disk, request, pyFile, pyTmp, mtime, admin_loaded, overlapped,
                     admin_failed, careless>>
  BY DEF Admin!Stat, Admin!pyVars, Admin!ghostVars
<1>2. RequestInv' /\ TurnsInv'
  BY <1>1, FilesStand
<1>3. ContentInv'
  BY <1>1 DEF AdminInv, ContentInv, Text, Fine
<1>4. TimeInv'
  <2>1. TimeInv
    BY DEF AdminInv
  <2>2. poll' # None /\ poll' \in 1 .. mtime'
    BY <1>1, <2>1, AdminAssumption DEF TimeInv
  <2>3. Admin!LoadedIsCurrent'
    BY <2>2 DEF Admin!LoadedIsCurrent
  <2>4. QED BY <1>1, <2>1, <2>2, <2>3 DEF TimeInv
<1>5. QED BY <1>2, <1>3, <1>4 DEF AdminInv

LEMMA LoadConfigHolds ==
    ASSUME AdminInv, Admin!LoadConfig
    PROVE  AdminInv'
<1>1. /\ poll # None /\ poll' = None
      /\ admin_loaded' = [mtime |-> poll, content |-> Admin!_load_config(pyFile.content)]
      /\ UNCHANGED <<admin_live, admin_disk, request, pyFile, pyTmp, mtime, overlapped,
                     admin_failed, careless>>
  BY DEF Admin!LoadConfig, Admin!pyVars, Admin!ghostVars
<1>2. RequestInv' /\ TurnsInv'
  BY <1>1, FilesStand
<1>3. ContentInv'
  <2>1. Fine(Admin!_load_config(pyFile.content))
    BY NothingFine DEF AdminInv, ContentInv, Text, Admin!_load_config
  <2>2. FineIf(careless', admin_loaded'.content)
    BY <1>1, <2>1 DEF Fine
  <2>3. QED BY <1>1, <2>2 DEF AdminInv, ContentInv, Text, Fine
<1>4. TimeInv'
  <2>1. TimeInv
    BY DEF AdminInv
  <2>2. admin_loaded'.mtime = poll /\ poll \in 1 .. mtime
    BY <1>1, <2>1 DEF TimeInv
  <2>3. Admin!LoadedIsCurrent'
    <3>1. admin_loaded'.content = Admin!_load_config(pyFile'.content)
      BY <1>1
    <3>2. (Admin!_load_config(pyFile.content))' = Admin!_load_config(pyFile'.content)
      BY DEF Admin!_load_config, Admin!Nothing
    <3>3. QED BY <3>1, <3>2 DEF Admin!LoadedIsCurrent
  <2>4. pyTmp # None => pyTmp.mtime \in 1 .. mtime /\ pyTmp.mtime # None
                        /\ pyTmp.mtime \notin {pyFile.mtime, poll}
    BY <2>1, AdminAssumption DEF TimeInv
  <2>5. QED BY <1>1, <2>1, <2>2, <2>3, <2>4 DEF TimeInv
<1>5. QED BY <1>2, <1>3, <1>4 DEF AdminInv

LEMMA AdminStep == AdminInv /\ Admin!Next => AdminInv'
BY AcceptHolds, WriteConfigHolds, WriteFailsHolds, StoreHolds, TruncateHolds, FillHolds, RenameHolds,
   RewriteFailsHolds, StatHolds, LoadConfigHolds DEF Admin!Next

LEMMA AdminStands == AdminInv /\ UNCHANGED adminVars => AdminInv'
<1> SUFFICES ASSUME AdminInv, UNCHANGED adminVars PROVE AdminInv'
  OBVIOUS
<1>1. UNCHANGED <<admin_live, admin_disk, request, pyFile, pyTmp, mtime, poll, admin_loaded,
                  overlapped, admin_failed, careless>>
  BY DEF adminVars
<1>2. RequestInv' /\ TurnsInv'
  BY <1>1, FilesStand
<1>3. ContentInv'
  BY <1>1 DEF AdminInv, ContentInv, Text, Fine
<1>4. TimeInv'
  BY <1>1, TimeStands DEF AdminInv
<1>5. QED BY <1>2, <1>3, <1>4 DEF AdminInv

LEMMA AdminHolds == MCSpec => [](machine = "admin" => AdminInv)
<1>1. MCInit => (machine = "admin" => AdminInv)
  BY AdminInit DEF MCInit
<1>2. (machine = "admin" => AdminInv) /\ [MCNext]_allVars => (machine = "admin" => AdminInv)'
  <2> SUFFICES ASSUME machine = "admin" => AdminInv, [MCNext]_allVars, machine' = "admin"
               PROVE  AdminInv'
    OBVIOUS
  <2>1. machine = "admin"
    BY DEF MCNext, Runs, allVars
  <2>2. CASE UNCHANGED adminVars
    BY <2>1, <2>2, AdminStands
  <2>3. CASE Admin!Next
    BY <2>1, <2>3, AdminStep
  <2>4. QED BY <2>2, <2>3 DEF MCNext, Runs, allVars
<1>3. QED BY <1>1, <1>2, PTL DEF MCSpec

LEMMA AdminGuarantees ==
    ASSUME AdminInv
    PROVE  /\ Admin!TypeOK /\ Admin!ReferencesAreDeclared /\ Admin!FilesAgree
           /\ Admin!LoadedIsCurrent /\ Admin!AliasesResolve
<1>1. Fine(admin_live) /\ Fine(admin_disk) /\ Fine(admin_loaded.content) /\ Text(pyFile.content)
  BY DEF AdminInv, ContentInv
<1>2. /\ admin_live.aliases \in [Aliases -> {None, "shorthand"} \cup ProviderSlots \cup {CustomSlot}]
      /\ admin_live.providers \in [ProviderSlots -> Admin!Switch \cup {None}]
      /\ admin_live \in Admin!Configs
  BY <1>1 DEF Fine, FineIf, Admin!Configs
<1>3. Admin!TypeOK
  <2>1. \A h \in Admin!Handlers : request[h].fd \in {None, "tmp", "file", "gone"}
    BY DEF AdminInv, RequestInv, Requests
  <2>2. pyFile.mtime \in 1 .. mtime /\ admin_loaded.mtime \in 0 .. mtime
    BY DEF AdminInv, TimeInv
  <2>3. QED BY <1>2, <2>1, <2>2 DEF Admin!TypeOK
<1>4. Admin!ReferencesAreDeclared
  BY <1>1 DEF Fine, FineIf, Admin!ReferencesAreDeclared
<1>5. Admin!FilesAgree
  <2> SUFFICES ASSUME Admin!Quiet, ~overlapped, ~admin_failed
               PROVE  pyFile.content = Admin!render_py_config(admin_live)
    BY DEF Admin!FilesAgree
  <2>1. \A h \in Admin!Handlers : request[h].at \notin {"stored", "writing", "filled"}
    BY DEF Admin!Quiet
  <2>2. QED BY <2>1 DEF AdminInv, TurnsInv
<1>6. Admin!LoadedIsCurrent
  BY DEF AdminInv, TimeInv
<1>7. Admin!AliasesResolve
  <2> SUFFICES ASSUME Admin!Quiet, ~overlapped, ~admin_failed, poll = None,
                      admin_loaded.mtime = pyFile.mtime,
                      NEW n \in Aliases, admin_live.aliases[n] \in ProviderSlots
               PROVE  Admin!Resolve(n) =
                      IF admin_live.providers[admin_live.aliases[n]] = "on" THEN admin_live.aliases[n]
                      ELSE "KeyError"
    BY DEF Admin!AliasesResolve
  <2>1. pyFile.content = Admin!render_py_config(admin_live)
    BY <1>5 DEF Admin!FilesAgree
  <2>2. Admin!render_py_config(admin_live) # None
    BY <1>1, RenderFine, AdminAssumption
  <2>3. admin_loaded.content = Admin!render_py_config(admin_live)
    BY <1>6, <2>1, <2>2 DEF Admin!LoadedIsCurrent, Admin!_load_config
  <2>4. admin_live.aliases[n] # "shorthand"
    BY AdminAssumption
  <2>5. /\ admin_loaded.content.aliases[n] = admin_live.aliases[n]
        /\ admin_loaded.content.providers = admin_live.providers
    BY <2>3, <2>4 DEF Admin!render_py_config
  <2>6. QED BY <2>5 DEF Admin!Resolve
<1>8. QED BY <1>3, <1>4, <1>5, <1>6, <1>7

-----------------------------------------------------------------------------
(* What the run MCServices checks of these parts.                          *)

\* For any number of restarts and spawns, and wherever crashes, failed dials and a
\* shutdown meet: one process at a time, which some task holds, and calls go to the
\* process that is watched.  For any roots, names and edits: a quiet registry is what the
\* disk says, and a reload removes no plugin whose file is claimed or merely broken.
\* Whatever ends a call, what it started does not run on, and for any calls, task ids and
\* callbacks an async result goes to the call it is for, once.
THEOREM PluginsStaySound == MCSpec => []PluginsHold
<1>1. SupervisorInv /\ RegistryInv /\ CallInv /\ AsyncInv => PluginsHold
  BY SupervisorGuarantees, RegistryGuarantees, CallGuarantees, AsyncGuarantees DEF PluginsHold
<1>2. QED BY <1>1, SupervisorHolds, RegistryHolds, CallHolds, AsyncHolds, PTL

\* For any writers, editor saves and reloads: when no reload is left the snapshot is what
\* the file says, and a file is torn only when two requests have opened one temporary.
\* For any providers, aliases and requests, however they overlap: nothing live, on disk or
\* with Python names a provider that is not declared, and requests that took turns leave
\* Python with what is live.
THEOREM ConfigurationIsKept == MCSpec => []ConfigurationHolds
<1>1. ConfigInv /\ (machine = "admin" => AdminInv) => ConfigurationHolds
  BY ConfigGuarantees, AdminGuarantees DEF ConfigurationHolds
<1>2. QED BY <1>1, ConfigHolds, AdminHolds, PTL

(* The types.                                                              *)

LEMMA GateTypes == MCSpec => []TypeOK
<1>1. MCInit => TypeOK
  <2>1. Init => TypeOK
    BY ActorAssumption DEF Init, TypeOK, Actors, Steps, Finished, RuleMatches, Verdicts, Outcomes
  <2>2. QED BY <2>1 DEF MCInit
<1>2. [MCNext]_allVars => [Next]_vars
  BY DEF MCNext, Runs, allVars
<1>3. TypeOK /\ [MCNext]_allVars => TypeOK'
  BY <1>2, TypeStep
<1>4. QED BY <1>1, <1>3, PTL DEF MCSpec

\* Every machine keeps to its types, the chosen one and those that stand still.
THEOREM ServicesTypeCorrect == MCSpec => []ServicesTypeOK
<1>1. MCInit => machine \in Machines
  BY DEF MCInit
<1>2. machine \in Machines /\ [MCNext]_allVars => (machine \in Machines)'
  BY DEF MCNext, Runs, allVars
<1>3. machine \in Machines /\ TypeOK /\ SupervisorInv /\ GatewayInv /\ QqInv /\ TurnInv
      /\ RegistryInv /\ CallInv /\ AsyncInv /\ ConfigInv /\ (machine = "admin" => AdminInv)
          => ServicesTypeOK
  <2>1. RegistryInv => Registry!TypeOK
    BY RegistryGuarantees
  <2>2. machine = "admin" /\ AdminInv => Admin!TypeOK
    BY AdminGuarantees
  <2>3. QED BY <2>1, <2>2 DEF Machines, ServicesTypeOK, SupervisorInv, GatewayInv, QqInv, TurnInv,
                              CallInv, AsyncInv, ConfigInv
<1>4. QED BY <1>1, <1>2, <1>3, GateTypes, SupervisorHolds, GatewayInvariant, QqHolds, TurnHolds,
             RegistryHolds, CallHolds, AsyncHolds, ConfigHolds, AdminHolds, PTL
          DEF MCSpec
=============================================================================
