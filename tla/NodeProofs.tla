------------------------------ MODULE NodeProofs ------------------------------
(***************************************************************************)
(* A node and its shards, for any number of them: none outlives a node that *)
(* completes, and none is taken down without a cause.                      *)
(***************************************************************************)
EXTENDS Node, TLAPS

NodeTypes ==
  /\ node \in {"spawning", "selecting", "joining", "completed", "panicked"}
  /\ spawned \in 0 .. NShards /\ joined \in 0 .. NShards
  /\ signalled \in BOOLEAN /\ shutdown \in BOOLEAN
  /\ thread \in [Shards -> {"unborn", "pinning", "building", "starting",
                            "serving", "leaving", "returned", "failed", "panicked"}]

(* How far the node is in starting and in joining. *)
Progress ==
  /\ node = "spawning" => spawned < NShards
  /\ node \in {"spawning", "selecting"} => joined = 0 /\ shutdown = FALSE
  /\ node = "joining" => joined < NShards
  /\ node = "completed" => joined = NShards

(* The inductive invariant: a thread the node has joined stays over, since  *)
(* only threads that are not over take steps, and none is started again.    *)
IInv ==
  /\ NodeTypes /\ Progress
  /\ \A s \in 1 .. joined : Ended(s)
  /\ NoStopWithoutCause

-----------------------------------------------------------------------------
(* Nothing is started, joined or shut down at first. *)
LEMMA InitInv == Init => IInv
<1>1. SUFFICES ASSUME Init PROVE IInv
  OBVIOUS
<1>2. 0 < NShards /\ NShards \in Nat
  BY NodeAssumption
<1>3. NodeTypes
  <2>1. spawned \in 0 .. NShards /\ joined \in 0 .. NShards
    BY <1>1, <1>2 DEF Init
  <2>2. thread \in [Shards -> {"unborn"}]
    BY <1>1 DEF Init
  <2>3. QED
    BY <1>1, <2>1, <2>2 DEF Init, NodeTypes
<1>4. Progress /\ NoStopWithoutCause
  BY <1>1, <1>2 DEF Init, Progress, NoStopWithoutCause
<1>5. \A s \in 1 .. joined : Ended(s)
  BY <1>1 DEF Init
<1>6. QED
  BY <1>3, <1>4, <1>5 DEF IInv

(* Starting a thread brings none back: the first that is not started yet    *)
(* has not been joined.                                                     *)
LEMMA SpawnInv == ASSUME IInv, SpawnShard PROVE IInv'
<1>1. /\ spawned \in 0 .. NShards /\ spawned < NShards /\ joined = 0 /\ shutdown = FALSE
      /\ spawned' = spawned + 1 /\ UNCHANGED <<joined, signalled, shutdown>>
      /\ thread' = [thread EXCEPT ![spawned + 1] = "pinning"]
      /\ node' = IF spawned + 1 = NShards THEN "selecting" ELSE "spawning"
  BY DEF SpawnShard, IInv, NodeTypes, Progress
<1>2. NShards \in Nat
  BY NodeAssumption
<1>3. spawned' \in 0 .. NShards /\ (spawned + 1 # NShards => spawned' < NShards)
  BY <1>1, <1>2
<1>4. NodeTypes'
  BY <1>1, <1>3 DEF IInv, NodeTypes
<1>5. Progress'
  BY <1>1, <1>3 DEF Progress
<1>6. (\A s \in 1 .. joined : Ended(s))' /\ NoStopWithoutCause'
  BY <1>1 DEF NoStopWithoutCause
<1>7. QED
  BY <1>4, <1>5, <1>6 DEF IInv

(* A step of a thread that leaves it in one of the states it may be in. *)
LEMMA ThreadInv ==
  ASSUME IInv, NEW s \in Shards, ~ Ended(s),
         NEW to \in {"building", "starting", "serving", "leaving", "returned", "failed", "panicked"},
         thread' = [thread EXCEPT ![s] = to], UNCHANGED nodeVars
  PROVE  IInv'
<1>1. NodeTypes' /\ Progress'
  BY DEF IInv, NodeTypes, Progress, nodeVars
<1>2. ASSUME NEW other \in Shards, Ended(other) PROVE Ended(other)'
  BY <1>2 DEF IInv, NodeTypes, Ended
<1>3. (\A other \in 1 .. joined : Ended(other))'
  <2>1. 1 .. joined \subseteq Shards
    BY NodeAssumption DEF IInv, NodeTypes, Shards
  <2>2. QED
    BY <1>2, <2>1 DEF IInv, nodeVars
<1>4. NoStopWithoutCause'
  BY <1>2 DEF IInv, NoStopWithoutCause, nodeVars
<1>5. QED
  BY <1>1, <1>3, <1>4 DEF IInv

(* The node joins the next thread only once it is over. *)
LEMMA JoinInv == ASSUME IInv, Join PROVE IInv'
<1>1. /\ joined \in 0 .. NShards /\ joined < NShards /\ NShards \in Nat
      /\ joined' = joined + 1 /\ Ended(joined + 1)
      /\ node' = IF joined + 1 = NShards THEN "completed" ELSE "joining"
      /\ node = "joining" /\ UNCHANGED <<spawned, signalled, shutdown, thread>>
  BY NodeAssumption DEF Join, IInv, NodeTypes, Progress, shardVars
<1>2. joined' \in 0 .. NShards /\ (joined + 1 # NShards => joined' < NShards)
  BY <1>1
<1>3. NodeTypes'
  BY <1>1, <1>2 DEF IInv, NodeTypes
<1>4. Progress'
  BY <1>1, <1>2 DEF Progress
<1>5. (\A s \in 1 .. joined : Ended(s))'
  <2>1. SUFFICES ASSUME NEW s \in 1 .. joined + 1 PROVE Ended(s)
    BY <1>1 DEF Ended
  <2>2. s \in 1 .. joined \/ s = joined + 1
    BY <1>1
  <2>3. QED
    BY <1>1, <2>2 DEF IInv
<1>6. NoStopWithoutCause'
  BY <1>1 DEF IInv, NoStopWithoutCause, Ended
<1>7. QED
  BY <1>3, <1>4, <1>5, <1>6 DEF IInv

(* What changes nothing the invariant speaks of. *)
LEMMA IdleInv == ASSUME IInv, UNCHANGED <<nodeVars, thread>> PROVE IInv'
BY DEF IInv, NodeTypes, Progress, Ended, NoStopWithoutCause, nodeVars

(* Every step keeps the invariant. *)
LEMMA NextInv == IInv /\ [Next]_vars => IInv'
<1>1. SUFFICES ASSUME IInv, [Next]_vars PROVE IInv'
  OBVIOUS
<1>2. CASE SpawnShard
  BY <1>1, <1>2, SpawnInv
<1>3. CASE SpawnFails
  BY <1>1, <1>3 DEF SpawnFails, shardVars, IInv, NodeTypes, Progress, Ended, NoStopWithoutCause
<1>4. CASE StopShards
  <2>1. signalled \/ \A s \in Shards : Ended(s)
    BY <1>4 DEF StopShards, DoneClosed
  <2>2. node = "selecting" /\ joined = 0 /\ 0 < NShards
    BY <1>1, <1>4, NodeAssumption DEF StopShards, IInv, Progress
  <2>3. QED
    BY <1>1, <1>4, <2>1, <2>2 DEF StopShards, shardVars, IInv, NodeTypes, Progress, Ended,
                                  NoStopWithoutCause
<1>5. CASE Join
  BY <1>1, <1>5, JoinInv
<1>6. CASE Signal
  BY <1>1, <1>6 DEF Signal, shardVars, IInv, NodeTypes, Progress, Ended, NoStopWithoutCause
<1>7. ASSUME NEW s \in Shards, ThreadStep(s) \/ ShardPanics(s) PROVE IInv'
  <2>1. ~ Ended(s) /\ UNCHANGED nodeVars
    BY <1>7 DEF ThreadStep, ShardPanics, Pin, Build, Start, BindFails, SeeShutdown, Return,
                Leave, Ended
  <2>2. \E to \in {"building", "starting", "serving", "leaving", "returned", "failed", "panicked"} :
          thread' = [thread EXCEPT ![s] = to]
    BY <1>7 DEF ThreadStep, ShardPanics, Pin, Build, Start, BindFails, SeeShutdown, Return, Leave
  <2>3. QED
    BY <1>1, <2>1, <2>2, ThreadInv
<1>8. ASSUME NEW s \in Shards, TaskStep(s) \/ StopChild(s) PROVE IInv'
  <2>1. UNCHANGED <<nodeVars, thread>>
    BY <1>8 DEF TaskStep, StopChild, LoopStops, Sleep, WakeBySleep, WakeByStop, SleepAgain
  <2>2. QED
    BY <1>1, <2>1, IdleInv
<1>9. CASE UNCHANGED vars
  BY <1>1, <1>9, IdleInv DEF vars, shardVars
<1>10. QED
  BY <1>1, <1>2, <1>3, <1>4, <1>5, <1>6, <1>7, <1>8, <1>9 DEF Next, NodeStep

-----------------------------------------------------------------------------
(* What has been joined is over in every reachable state. *)
THEOREM Invariance == Spec => []IInv
BY InitInv, NextInv, PTL DEF Spec

(* The types of the tasks, which the invariant does not speak of. *)
LEMMA TypeStep == ASSUME TypeOK, IInv', [Next]_vars PROVE TypeOK'
<1> DEFINE LoopStates == {"unborn", "running", "ended", "dropped"}
           SleeperStates == {"unborn", "awake", "sleeping", "slept", "stopped", "dropped"}
           TaskTypes == /\ loops \in [Shards -> [Loops -> LoopStates]]
                        /\ sleeper \in [Shards -> SleeperStates]
                        /\ requested \subseteq Sources
<1>1. TaskTypes
  BY DEF TypeOK, StopTypeOK
<1>2. \A s \in Shards : /\ ShardToken(s) \subseteq Sources /\ SleeperToken(s) \subseteq Sources
                        /\ <<s, "child">> \in Sources
  BY NodeAssumption DEF Shards, ShardToken, SleeperToken, Child
<1>3. ASSUME UNCHANGED <<loops, sleeper, requested>> PROVE TaskTypes'
  BY <1>1, <1>3
<1>4. ASSUME NEW s \in Shards, Start(s) \/ BindFails(s)
      PROVE  TaskTypes'
  <2>1. loops' \in [Shards -> [Loops -> LoopStates]]
    <3>1. CASE Start(s)
      <4>1. [l \in Loops |-> "running"] \in [Loops -> LoopStates]
        OBVIOUS
      <4>2. QED
        BY <1>1, <3>1, <4>1 DEF Start
    <3>2. CASE BindFails(s)
      <4>1. [loops[s] EXCEPT !["recv"] = "running"] \in [Loops -> LoopStates]
        BY <1>1
      <4>2. loops' = [loops EXCEPT ![s] = [loops[s] EXCEPT !["recv"] = "running"]]
        BY <1>1, <3>2 DEF BindFails
      <4>3. QED
        BY <1>1, <4>1, <4>2
    <3>3. QED
      BY <1>4, <3>1, <3>2
  <2>2. sleeper' \in [Shards -> SleeperStates] /\ requested' = requested
    BY <1>1, <1>4 DEF Start, BindFails
  <2>3. QED
    BY <1>1, <2>1, <2>2
<1>5. ASSUME NEW s \in Shards, SeeShutdown(s) \/ StopChild(s)
      PROVE  TaskTypes'
  BY <1>1, <1>2, <1>5 DEF SeeShutdown, StopChild, Request, ShardToken
<1>6. ASSUME NEW s \in Shards, Return(s) \/ ShardPanics(s)
      PROVE  TaskTypes'
  <2>1. /\ loops' = [loops EXCEPT ![s] = [l \in Loops |-> Drop(loops[s][l])]]
        /\ sleeper' = [sleeper EXCEPT ![s] = Drop(sleeper[s])]
        /\ requested' = requested \cup SleeperToken(s)
    BY <1>1, <1>6 DEF Return, ShardPanics, Leave, Request
  <2>2. [l \in Loops |-> Drop(loops[s][l])] \in [Loops -> LoopStates]
    <3>1. \A l \in Loops : loops[s][l] \in LoopStates
      BY <1>1
    <3>2. QED
      BY <3>1 DEF Drop
  <2>3. Drop(sleeper[s]) \in SleeperStates
    BY <1>1 DEF Drop
  <2>4. loops' \in [Shards -> [Loops -> LoopStates]]
    BY <1>1, <2>1, <2>2
  <2>5. sleeper' \in [Shards -> SleeperStates]
    BY <1>1, <2>1, <2>3
  <2>6. QED
    BY <1>1, <1>2, <2>1, <2>4, <2>5
<1>7. ASSUME NEW s \in Shards, TaskStep(s)
      PROVE  TaskTypes'
  <2>1. ASSUME NEW l \in Loops, LoopStops(s, l) PROVE TaskTypes'
    BY <1>1, <2>1 DEF LoopStops
  <2>2. ASSUME Sleep(s) \/ WakeBySleep(s) \/ WakeByStop(s) \/ SleepAgain(s) PROVE TaskTypes'
    BY <1>1, <2>2 DEF Sleep, WakeBySleep, WakeByStop, SleepAgain
  <2>3. QED
    BY <1>7, <2>1, <2>2 DEF TaskStep
<1> HIDE DEF TaskTypes
<1>8. ASSUME NodeStep \/ Signal \/ UNCHANGED vars PROVE TaskTypes'
  <2>1. UNCHANGED <<loops, sleeper, requested>>
    BY <1>8 DEF NodeStep, SpawnShard, SpawnFails, StopShards, Join, Signal, shardVars, vars
  <2>2. QED
    BY <1>3, <2>1
<1>9. ASSUME NEW s \in Shards, Pin(s) \/ Build(s)
      PROVE  TaskTypes'
  <2>1. UNCHANGED <<loops, sleeper, requested>>
    BY <1>9 DEF Pin, Build
  <2>2. QED
    BY <1>3, <2>1
<1>10. TaskTypes'
  <2>1. \/ NodeStep \/ Signal \/ UNCHANGED vars
        \/ \E s \in Shards : ThreadStep(s) \/ ShardPanics(s) \/ TaskStep(s) \/ StopChild(s)
    BY DEF Next
  <2>2. ASSUME NEW s \in Shards, ThreadStep(s) PROVE TaskTypes'
    <3>1. Pin(s) \/ Build(s) \/ Start(s) \/ BindFails(s) \/ SeeShutdown(s) \/ Return(s)
      BY <2>2 DEF ThreadStep
    <3>2. QED
      BY <1>4, <1>5, <1>6, <1>9, <3>1
  <2>3. QED
    BY <1>5, <1>6, <1>7, <1>8, <2>1, <2>2
<1>11. QED
  BY <1>10 DEF TaskTypes, TypeOK, StopTypeOK, IInv, NodeTypes

(* The state of a node and of its shards always has its types. *)
THEOREM TypeCorrect == Spec => []TypeOK
<1>1. Init => TypeOK
  <2>1. SUFFICES ASSUME Init PROVE TypeOK
    OBVIOUS
  <2>2. NodeTypes
    BY <2>1, InitInv DEF IInv
  <2>3. /\ loops \in [Shards -> [Loops -> {"unborn"}]] /\ sleeper \in [Shards -> {"unborn"}]
        /\ requested = {}
    BY <2>1 DEF Init, StopInit
  <2>4. /\ loops \in [Shards -> [Loops -> {"unborn", "running", "ended", "dropped"}]]
        /\ sleeper \in [Shards -> {"unborn", "awake", "sleeping", "slept", "stopped", "dropped"}]
    BY <2>3
  <2>5. QED
    BY <2>2, <2>3, <2>4 DEF TypeOK, StopTypeOK, NodeTypes
<1>2. TypeOK /\ IInv' /\ [Next]_vars => TypeOK'
  BY TypeStep
<1>3. QED
  BY <1>1, <1>2, Invariance, PTL DEF Spec

(* Builder::run returns only after every thread is over, in whatever order  *)
(* they end, fail or panic.                                                 *)
THEOREM NoShardEverOutlivesNode == Spec => []NoShardOutlivesNode
<1>1. IInv => NoShardOutlivesNode
  BY DEF IInv, Progress, NoShardOutlivesNode, Shards
<1>2. QED
  BY <1>1, Invariance, PTL

(* The shutdown channel closes under a shard that still runs only after a   *)
(* signal or in a node that panicked.                                       *)
THEOREM NeverStoppedWithoutCause == Spec => []NoStopWithoutCause
<1>1. IInv => NoStopWithoutCause
  BY DEF IInv
<1>2. QED
  BY <1>1, Invariance, PTL
=============================================================================
