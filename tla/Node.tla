--------------------------------- MODULE Node ---------------------------------
(***************************************************************************)
(* The life of a node (runtime/node.rs) and of its shards                  *)
(* (runtime/shard.rs): one thread per CPU, started one after the other,    *)
(* told to stop by the end of a channel, joined one after the other.       *)
(*                                                                         *)
(* A shard's thread pins itself, builds its runtime, detaches its three    *)
(* loops and waits for the shutdown.  It may fail at each of these points  *)
(* and panic while it serves.  Nothing is sent over the shards' queues:    *)
(* enum Message is empty.  One more task per shard stands for a user of    *)
(* the shard's token: it makes a child of it and sleeps with wait_for.     *)
(***************************************************************************)
EXTENDS StopTree

CONSTANT NShards    \* One per CPU the process may use.

ASSUME NodeAssumption ==
  /\ NShards \in Nat \ {0}
  /\ Sources = (1 .. NShards) \X {"shard", "child"}

VARIABLES
  node,             \* Where Builder::run_inner is.
  spawned,          \* The threads started so far.
  joined,           \* The threads joined so far.
  signalled,        \* A ctrl-c has arrived, or listening for it has failed.
  shutdown,         \* The node has closed the shutdown channel.
  thread,           \* Where each shard's thread is.
  loops,            \* What each shard's detached loops are doing.
  sleeper           \* What the sleeping task of each shard is doing.

nodeVars == <<node, spawned, joined, signalled, shutdown>>
shardVars == <<thread, loops, sleeper, requested>>
vars == <<nodeVars, shardVars>>

Shards == 1 .. NShards
Loops == {"recv", "tick", "accept"}

(* The threads that are over; done_tx is the last thing a thread drops. *)
Ended(s) == thread[s] \in {"returned", "failed", "panicked"}

(* The tokens: Shard::token, and the sleeper's child of it. *)
ShardToken(s) == {<<s, "shard">>}
SleeperToken(s) == Child(ShardToken(s), <<s, "child">>)

Init ==
  /\ node = "spawning" /\ spawned = 0 /\ joined = 0
  /\ signalled = FALSE /\ shutdown = FALSE
  /\ thread = [s \in Shards |-> "unborn"]
  /\ loops = [s \in Shards |-> [l \in Loops |-> "unborn"]]
  /\ sleeper = [s \in Shards |-> "unborn"]
  /\ StopInit

-----------------------------------------------------------------------------
(* A loop that leaves one turn late. *)
SpawnOneTooMany ==
  /\ node = "spawning"
  /\ spawned' = spawned + 1
  /\ thread' = [thread EXCEPT ![spawned + 1] = "pinning"]
  /\ node' = IF spawned = NShards THEN "selecting" ELSE "spawning"
  /\ UNCHANGED <<joined, signalled, shutdown, loops, sleeper, requested>>

(* The loop that starts the threads; after the last one the node drops its  *)
(* own ends of the queues and of done.                                      *)
SpawnShard ==
  /\ node = "spawning"
  /\ spawned' = spawned + 1
  /\ thread' = [thread EXCEPT ![spawned + 1] = "pinning"]
  /\ node' = IF spawned + 1 = NShards THEN "selecting" ELSE "spawning"
  /\ UNCHANGED <<joined, signalled, shutdown, loops, sleeper, requested>>

(* A thread cannot be started: the node panics, which drops the shutdown's  *)
(* handle.  The threads started before are not joined.                      *)
SpawnFails ==
  /\ node = "spawning"
  /\ node' = "panicked"
  /\ shutdown' = TRUE
  /\ UNCHANGED <<spawned, joined, signalled, shardVars>>

Signal ==
  /\ node = "selecting"
  /\ ~ signalled
  /\ signalled' = TRUE
  /\ UNCHANGED <<node, spawned, joined, shutdown, shardVars>>

(* A thread that drops its done_tx at once (let _ = instead of let _done_tx). *)
DoneClosedEarly == spawned = NShards

(* A node that keeps its own done_tx. *)
DoneKept == FALSE

(* done_rx.recv fails: every done_tx is gone, the node's own and those of   *)
(* the threads.                                                             *)
DoneClosed == node # "spawning" /\ \A s \in Shards : Ended(s)

(* The select! of run_inner, and the drop of the shutdown's handle. *)
StopShards ==
  /\ node = "selecting"
  /\ signalled \/ DoneClosed
  /\ node' = "joining"
  /\ shutdown' = TRUE
  /\ UNCHANGED <<spawned, joined, signalled, shardVars>>

(* A join that gives up at the first thread that did not end well. *)
JoinOrGiveUp ==
  /\ node = "joining"
  /\ Ended(joined + 1)
  /\ joined' = joined + 1
  /\ node' = IF joined + 1 = NShards \/ thread[joined + 1] # "returned"
             THEN "completed" ELSE "joining"
  /\ UNCHANGED <<spawned, signalled, shutdown, shardVars>>

(* One turn of the loop that joins: it blocks on the next thread; an error  *)
(* or a panic of the thread is logged.                                      *)
Join ==
  /\ node = "joining"
  /\ Ended(joined + 1)
  /\ joined' = joined + 1
  /\ node' = IF joined + 1 = NShards THEN "completed" ELSE "joining"
  /\ UNCHANGED <<spawned, signalled, shutdown, shardVars>>

-----------------------------------------------------------------------------
(* The thread pins itself; sched_setaffinity may fail. *)
Pin(s) ==
  /\ thread[s] = "pinning"
  /\ \E t \in {"building", "failed"} : thread' = [thread EXCEPT ![s] = t]
  /\ UNCHANGED <<nodeVars, loops, sleeper, requested>>

(* shard::Builder::run up to block_on; building the runtime may fail.  The  *)
(* shard's stop source exists from here on.                                 *)
Build(s) ==
  /\ thread[s] = "building"
  /\ \E t \in {"starting", "failed"} : thread' = [thread EXCEPT ![s] = t]
  /\ UNCHANGED <<nodeVars, loops, sleeper, requested>>

(* The first poll of Shard::run: the loops are detached, then the shutdown  *)
(* is awaited.                                                              *)
Start(s) ==
  /\ thread[s] = "starting"
  /\ thread' = [thread EXCEPT ![s] = "serving"]
  /\ loops' = [loops EXCEPT ![s] = [l \in Loops |-> "running"]]
  /\ sleeper' = [sleeper EXCEPT ![s] = "awake"]
  /\ UNCHANGED <<nodeVars, requested>>

(* The listener cannot be bound (or the port overflows): run returns an     *)
(* error before the tick is spawned, and the shard goes away; the error is  *)
(* only logged.                                                             *)
BindFails(s) ==
  /\ thread[s] = "starting"
  /\ thread' = [thread EXCEPT ![s] = "leaving"]
  /\ loops' = [loops EXCEPT ![s].recv = "running"]
  /\ UNCHANGED <<nodeVars, sleeper, requested>>

(* A shard that requests its stop and serves on. *)
SeeShutdownStays(s) ==
  /\ thread[s] = "serving"
  /\ shutdown
  /\ Request({<<s, "shard">>})
  /\ UNCHANGED <<nodeVars, thread, loops, sleeper>>

(* Shard::run sees that the shutdown channel is closed, and requests the    *)
(* shard's stop.                                                            *)
SeeShutdown(s) ==
  /\ thread[s] = "serving"
  /\ shutdown
  /\ Request({<<s, "shard">>})
  /\ thread' = [thread EXCEPT ![s] = "leaving"]
  /\ UNCHANGED <<nodeVars, loops, sleeper>>

Drop(task) == IF task \in {"running", "awake", "sleeping"} THEN "dropped" ELSE task

(* block_on has returned; CURRENT is cleared and the runtime dropped, and   *)
(* with it the tasks that are still there, the shard and its stop source.   *)
Leave(s, how) ==
  /\ thread' = [thread EXCEPT ![s] = how]
  /\ loops' = [loops EXCEPT ![s] = [l \in Loops |-> Drop(@[l])]]
  /\ sleeper' = [sleeper EXCEPT ![s] = Drop(@)]
  /\ Request(SleeperToken(s))
  /\ UNCHANGED nodeVars

Return(s) == thread[s] = "leaving" /\ Leave(s, "returned")

ShardPanics(s) == thread[s] = "serving" /\ Leave(s, "panicked")

-----------------------------------------------------------------------------
(* The tasks of a shard run until its runtime is dropped. *)
Alive(s) == thread[s] \in {"serving", "leaving"}

(* The select! of spawn_recv_loop, spawn_tick and accept sees the token.    *)
(* (The receive loop's queue never closes under it: it keeps the shard, and *)
(* the shard keeps a sender of its own queue.)                              *)
LoopStops(s, l) ==
  /\ Alive(s)
  /\ loops[s][l] = "running"
  /\ WaitReturns(ShardToken(s))
  /\ loops' = [loops EXCEPT ![s][l] = "ended"]
  /\ UNCHANGED <<nodeVars, thread, sleeper, requested>>

(* wait_for returns at once if the stop was requested before. *)
Sleep(s) ==
  /\ Alive(s)
  /\ sleeper[s] = "awake"
  /\ sleeper' = [sleeper EXCEPT ![s] =
                   IF IsRequested(SleeperToken(s)) THEN "stopped" ELSE "sleeping"]
  /\ UNCHANGED <<nodeVars, thread, loops, requested>>

(* The owner of the child's source stops the sleeper alone. *)
StopChild(s) ==
  /\ Alive(s)
  /\ sleeper[s] \in {"awake", "sleeping"}
  /\ <<s, "child">> \notin requested
  /\ Request({<<s, "child">>})
  /\ UNCHANGED <<nodeVars, thread, loops, sleeper>>

(* A wait_for that trusts its timer. *)
WakeByTimer(s) ==
  /\ Alive(s)
  /\ sleeper[s] = "sleeping"
  /\ sleeper' = [sleeper EXCEPT ![s] = "slept"]
  /\ UNCHANGED <<nodeVars, thread, loops, requested>>

(* The select! of wait_for: the sleep is over, in time or, when the stop    *)
(* came at the same moment, too late.                                       *)
WakeBySleep(s) ==
  /\ Alive(s)
  /\ sleeper[s] = "sleeping"
  /\ sleeper' = [sleeper EXCEPT ![s] =
                   IF SleptThrough(SleeperToken(s)) THEN "slept" ELSE "stopped"]
  /\ UNCHANGED <<nodeVars, thread, loops, requested>>

WakeByStop(s) ==
  /\ Alive(s)
  /\ sleeper[s] = "sleeping"
  /\ WaitReturns(SleeperToken(s))
  /\ sleeper' = [sleeper EXCEPT ![s] = "stopped"]
  /\ UNCHANGED <<nodeVars, thread, loops, requested>>

(* The sleeper sleeps again. *)
SleepAgain(s) ==
  /\ Alive(s)
  /\ sleeper[s] = "slept"
  /\ sleeper' = [sleeper EXCEPT ![s] = "awake"]
  /\ UNCHANGED <<nodeVars, thread, loops, requested>>

-----------------------------------------------------------------------------
NodeStep == SpawnShard \/ SpawnFails \/ StopShards \/ Join

ThreadStep(s) ==
  Pin(s) \/ Build(s) \/ Start(s) \/ BindFails(s) \/ SeeShutdown(s) \/ Return(s)

TaskStep(s) ==
  \/ \E l \in Loops : LoopStops(s, l)
  \/ Sleep(s) \/ WakeBySleep(s) \/ WakeByStop(s) \/ SleepAgain(s)

Next ==
  \/ NodeStep \/ Signal
  \/ \E s \in Shards :
       ThreadStep(s) \/ ShardPanics(s) \/ TaskStep(s) \/ StopChild(s)

(* The operating system runs each thread that can go on, and a thread's     *)
(* runtime polls a task whose token was stopped; signals, panics and the    *)
(* timers may never come.                                                   *)
Fairness ==
  /\ WF_vars(NodeStep)
  /\ \A s \in Shards : WF_vars(ThreadStep(s)) /\ WF_vars(WakeByStop(s))

Spec == Init /\ [][Next]_vars /\ Fairness

-----------------------------------------------------------------------------
(* The types of the node's and the shards' states. *)
TypeOK ==
  /\ node \in {"spawning", "selecting", "joining", "completed", "panicked"}
  /\ spawned \in 0 .. NShards /\ joined \in 0 .. NShards
  /\ signalled \in BOOLEAN /\ shutdown \in BOOLEAN
  /\ thread \in [Shards -> {"unborn", "pinning", "building", "starting",
                            "serving", "leaving", "returned", "failed", "panicked"}]
  /\ loops \in [Shards -> [Loops -> {"unborn", "running", "ended", "dropped"}]]
  /\ sleeper \in [Shards -> {"unborn", "awake", "sleeping", "slept", "stopped",
                             "dropped"}]
  /\ StopTypeOK

(* A node that completes leaves no shard behind: however its threads end,   *)
(* each of them has ended before Builder::run returns.                      *)
NoShardOutlivesNode == node = "completed" => \A s \in Shards : Ended(s)

(* The node does not take its shards down without a cause: a serving shard  *)
(* sees the shutdown only after a signal or when the node itself failed to  *)
(* start the others.                                                        *)
NoStopWithoutCause ==
  \A s \in Shards : shutdown /\ ~ Ended(s) => signalled \/ node = "panicked"

(* A node that is told to stop, or all of whose shards have ended, comes to *)
(* its end, in whatever order the threads fail, panic or notice.            *)
NodeCompletes ==
  signalled \/ (node = "selecting" /\ \A s \in Shards : Ended(s))
    ~> node = "completed"

(* The shutdown reaches every shard that was started, also the ones that    *)
(* start late, and also when the node panicked.                             *)
ShutdownReachesAll ==
  \A s \in Shards : shutdown /\ thread[s] # "unborn" ~> Ended(s)

(* A stop of the shard or of the child interrupts wait_for, which then says *)
(* that it was interrupted, even if its timer went off at the same moment.  *)
StopInterruptsSleep ==
  \A s \in Shards :
    sleeper[s] = "sleeping" /\ IsRequested(SleeperToken(s))
      ~> sleeper[s] \in {"stopped", "dropped"}
=============================================================================
