------------------------------- MODULE Cluster -------------------------------
(***************************************************************************)
(* Universal ids across the shards of a cluster: entities are created on   *)
(* one shard, promoted to a universal id, and handed to other shards, and  *)
(* a shard may crash and come back with a new, empty world.                *)
(*                                                                         *)
(* A shard's registry appears here by its abstract identities (module      *)
(* EntityIdentity, which Registry is proved to implement): a local handle  *)
(* is a token without slot or generation, and the token of a dead entity   *)
(* may stand for a new one, because nobody keeps handles in this model.    *)
(* The hand-over is driven the way registry_migrate_round_trip and         *)
(* docs/architectures/topology.md drive it: the source despawns the entity *)
(* and sends its id, the target adopts the id.                             *)
(***************************************************************************)
EXTENDS Integers, FiniteSets

CONSTANTS
  Shards,           \* The shards, each the minter of its own serials.
  Handles,          \* Local handles of one shard (bounds its live entities).
  MaxSerial,        \* u64::MAX in the code: the serial that is never minted.
  NoUid,            \* Option::None where a UniversalId may stand.
  NoEntity          \* Option::None where an Entity may stand.

ASSUME ClusterAssumption ==
  /\ IsFiniteSet(Shards) /\ IsFiniteSet(Handles)
  /\ MaxSerial \in Nat
  /\ NoEntity \notin Handles

UniversalId == [minter : Shards, serial : 0 .. MaxSerial - 1]

ASSUME NoUidAssumption == NoUid \notin UniversalId

VARIABLES
  live,             \* The live entities of each shard.
  universal,        \* Per shard, the id of each local entity.
  to_local,         \* Per shard, the local entity of each id.
  next,             \* Per shard, the serial of the next minted id.
  migrating,        \* How many Migrate messages carry an id to a shard.
  restarted,        \* The shards that have come back with a new world.
  gone              \* Ids whose entity was despawned for good or crashed.

worldVars == <<live, universal, to_local, next>>
vars == <<worldVars, migrating, restarted, gone>>

NoMaps == [uid \in UniversalId |-> NoEntity]
NoIds == [handle \in Handles |-> NoUid]

Held(shard) == {universal[shard][handle] : handle \in live[shard]} \ {NoUid}

-----------------------------------------------------------------------------
Init ==
  /\ live = [shard \in Shards |-> {}]
  /\ universal = [shard \in Shards |-> NoIds]
  /\ to_local = [shard \in Shards |-> NoMaps]
  /\ next = [shard \in Shards |-> 0]
  /\ migrating = [uid \in UniversalId |-> [shard \in Shards |-> 0]]
  /\ restarted = {}
  /\ gone = {}

Spawn(shard) ==
  /\ \E handle \in Handles \ live[shard] :
       live' = [live EXCEPT ![shard] = @ \cup {handle}]
  /\ UNCHANGED <<universal, to_local, next, migrating, restarted, gone>>

(* Registry::despawn: the id, if any, is taken from both maps.  The reverse *)
(* map loses the id whichever entity it pointed to.                         *)
Remove(shard, handle) ==
  LET uid == universal[shard][handle]
  IN  /\ handle \in live[shard]
      /\ live' = [live EXCEPT ![shard] = @ \ {handle}]
      /\ universal' = [universal EXCEPT ![shard][handle] = NoUid]
      /\ to_local' = IF uid = NoUid THEN to_local
                     ELSE [to_local EXCEPT ![shard][uid] = NoEntity]
      /\ UNCHANGED next

(* An entity dies. *)
Despawn(shard, handle) ==
  /\ Remove(shard, handle)
  /\ gone' = gone \cup ({universal[shard][handle]} \ {NoUid})
  /\ UNCHANGED <<migrating, restarted>>

(* promote that keeps the counter where it is. *)
PromoteReusing(shard, handle) ==
  LET uid == [minter |-> shard, serial |-> next[shard]]
  IN  /\ handle \in live[shard]
      /\ universal[shard][handle] = NoUid
      /\ next[shard] < MaxSerial
      /\ universal' = [universal EXCEPT ![shard][handle] = uid]
      /\ to_local' = [to_local EXCEPT ![shard][uid] = handle]
      /\ UNCHANGED <<live, next, migrating, restarted, gone>>

(* promote that mints the last value of the counter as well. *)
PromotePastLast(shard, handle) ==
  LET uid == [minter |-> shard, serial |-> next[shard]]
  IN  /\ handle \in live[shard]
      /\ universal[shard][handle] = NoUid
      /\ next' = [next EXCEPT ![shard] = @ + 1]
      /\ universal' = [universal EXCEPT ![shard][handle] = uid]
      /\ to_local' = [to_local EXCEPT ![shard][uid] = handle]
      /\ UNCHANGED <<live, migrating, restarted, gone>>

(* Registry::promote: the next serial, written to both maps without a look  *)
(* at what the reverse map holds under it.                                  *)
Promote(shard, handle) ==
  LET uid == [minter |-> shard, serial |-> next[shard]]
  IN  /\ handle \in live[shard]
      /\ universal[shard][handle] = NoUid
      /\ next[shard] < MaxSerial
      /\ next' = [next EXCEPT ![shard] = @ + 1]
      /\ universal' = [universal EXCEPT ![shard][handle] = uid]
      /\ to_local' = [to_local EXCEPT ![shard][uid] = handle]
      /\ UNCHANGED <<live, migrating, restarted, gone>>

(* A promoted entity leaves for another shard: it is removed here before    *)
(* its id is sent.                                                          *)
MigrateOut(shard, handle, target) ==
  LET uid == universal[shard][handle]
  IN  /\ uid # NoUid
      /\ Remove(shard, handle)
      /\ migrating' = [migrating EXCEPT ![uid][target] = @ + 1]
      /\ UNCHANGED <<restarted, gone>>

Arrive(shard, uid) ==
  /\ migrating[uid][shard] > 0
  /\ migrating' = [migrating EXCEPT ![uid][shard] = @ - 1]

(* Registry::adopt without its early return. *)
AdoptTwice(shard, uid) ==
  /\ \E handle \in Handles \ live[shard] :
       /\ live' = [live EXCEPT ![shard] = @ \cup {handle}]
       /\ universal' = [universal EXCEPT ![shard][handle] = uid]
       /\ to_local' = [to_local EXCEPT ![shard][uid] = handle]
  /\ UNCHANGED next

(* Registry::adopt of an id that has no entity here. *)
Adopt(shard, uid) ==
  /\ to_local[shard][uid] = NoEntity
  /\ \E handle \in Handles \ live[shard] :
       /\ live' = [live EXCEPT ![shard] = @ \cup {handle}]
       /\ universal' = [universal EXCEPT ![shard][handle] = uid]
       /\ to_local' = [to_local EXCEPT ![shard][uid] = handle]
  /\ UNCHANGED next

MigrateIn(shard, uid) ==
  /\ Arrive(shard, uid)
  /\ Adopt(shard, uid)
  /\ UNCHANGED <<restarted, gone>>

(* adopt returns None: the id has an entity here already, and the one that  *)
(* arrives is lost.                                                         *)
MigrateRefused(shard, uid) ==
  /\ Arrive(shard, uid)
  /\ to_local[shard][uid] # NoEntity
  /\ UNCHANGED <<worldVars, restarted, gone>>

(* World::new on a shard that starts again: an empty world whose serials    *)
(* start from 0, whatever was minted before.                                *)
Restart(shard) ==
  /\ shard \notin restarted
  /\ restarted' = restarted \cup {shard}
  /\ gone' = gone \cup Held(shard)
  /\ live' = [live EXCEPT ![shard] = {}]
  /\ universal' = [universal EXCEPT ![shard] = NoIds]
  /\ to_local' = [to_local EXCEPT ![shard] = NoMaps]
  /\ next' = [next EXCEPT ![shard] = 0]
  /\ UNCHANGED migrating

Next ==
  \E shard \in Shards :
    \/ Spawn(shard)
    \/ Restart(shard)
    \/ \E handle \in Handles :
         \/ Despawn(shard, handle)
         \/ Promote(shard, handle)
         \/ \E target \in Shards \ {shard} : MigrateOut(shard, handle, target)
    \/ \E uid \in UniversalId : MigrateIn(shard, uid) \/ MigrateRefused(shard, uid)

Spec == Init /\ [][Next]_vars

-----------------------------------------------------------------------------
(* The types of the cluster's state. *)
TypeOK ==
  /\ live \in [Shards -> SUBSET Handles]
  /\ universal \in [Shards -> [Handles -> UniversalId \cup {NoUid}]]
  /\ to_local \in [Shards -> [UniversalId -> Handles \cup {NoEntity}]]
  /\ next \in [Shards -> 0 .. MaxSerial]
  /\ migrating \in [UniversalId -> [Shards -> Nat]]
  /\ restarted \subseteq Shards
  /\ gone \subseteq UniversalId

(* The entities of the whole cluster that carry an id, and the messages     *)
(* that do.                                                                 *)
Holders(uid) ==
  {holder \in Shards \X Handles :
     holder[2] \in live[holder[1]] /\ universal[holder[1]][holder[2]] = uid}

Messages(uid) == UNION {{shard} \X (1 .. migrating[uid][shard]) : shard \in Shards}

Bearers(uid) == Cardinality(Holders(uid)) + Cardinality(Messages(uid))

(* As long as its minter has not restarted, a minted id names exactly one   *)
(* entity, here or underway, until that entity is despawned or lost in a    *)
(* crash, and none from then on: migration neither copies nor drops one.    *)
OneEntityPerId ==
  \A uid \in UniversalId :
    uid.minter \notin restarted =>
      Bearers(uid) = IF uid.serial < next[uid.minter] /\ uid \notin gone THEN 1 ELSE 0

(* The two maps of a shard are each other's inverse whatever arrives, even  *)
(* the aliases that restarts elsewhere set loose; after a restart this      *)
(* holds for the ids that others have minted.                               *)
MapsAgree ==
  \A shard \in Shards, uid \in UniversalId :
    shard \notin restarted \/ uid.minter # shard =>
      LET local == to_local[shard][uid]
      IN  /\ \A handle \in live[shard] :
               universal[shard][handle] = uid => local = handle
          /\ local # NoEntity => /\ local \in live[shard]
                                 /\ universal[shard][local] = uid

(* What entity.rs promises of universal ids: "Counters are never reused",   *)
(* and an id does not alias a live entity of the cluster after a restart.   *)
IdsNeverAlias ==
  \A uid \in UniversalId :
    Bearers(uid) <= 1
=============================================================================
