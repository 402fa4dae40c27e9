---------------------------- MODULE ClusterProofs ----------------------------
(***************************************************************************)
(* Universal ids in a cluster of any size: as long as an id's minter does  *)
(* not restart, the id names one entity, wherever it travels, and the two  *)
(* maps of every shard agree about it.                                     *)
(***************************************************************************)
EXTENDS Cluster, FiniteSetTheorems, TLAPS

(* Where an id can be: with no entity at all, with one, or in one message. *)
Nowhere(uid) ==
  \A shard \in Shards : /\ \A handle \in Handles : universal[shard][handle] # uid
                        /\ migrating[uid][shard] = 0

SettledAt(uid, at, entity) ==
  \A shard \in Shards :
    /\ \A handle \in Handles :
         universal[shard][handle] = uid <=> shard = at /\ handle = entity
    /\ migrating[uid][shard] = 0

UnderwayTo(uid, target) ==
  \A shard \in Shards : /\ \A handle \in Handles : universal[shard][handle] # uid
                        /\ migrating[uid][shard] = IF shard = target THEN 1 ELSE 0

SomewhereOnce(uid) ==
  \/ \E shard \in Shards, handle \in Handles : SettledAt(uid, shard, handle)
  \/ \E shard \in Shards : UnderwayTo(uid, shard)

Minted(uid) == uid.serial < next[uid.minter]

OnePlacePerId ==
  \A uid \in UniversalId :
    uid.minter \notin restarted =>
      IF Minted(uid) /\ uid \notin gone THEN SomewhereOnce(uid) ELSE Nowhere(uid)

(* What was never minted was never lost. *)
GoneWasMinted ==
  \A uid \in gone : uid.minter \notin restarted => Minted(uid)

(* The dead keep no id. *)
DeadAreNameless ==
  \A shard \in Shards, handle \in Handles :
    handle \notin live[shard] => universal[shard][handle] = NoUid

IInv ==
  /\ TypeOK
  /\ OnePlacePerId
  /\ GoneWasMinted
  /\ DeadAreNameless
  /\ MapsAgree

-----------------------------------------------------------------------------
(* Empty shards, no messages. *)
LEMMA InitInv == Init => IInv
<1>1. SUFFICES ASSUME Init PROVE IInv
  OBVIOUS
<1>2. /\ \A shard \in Shards : /\ live[shard] = {} /\ next[shard] = 0
                               /\ \A handle \in Handles : universal[shard][handle] = NoUid
                               /\ \A uid \in UniversalId : to_local[shard][uid] = NoEntity
      /\ \A uid \in UniversalId : \A shard \in Shards : migrating[uid][shard] = 0
  BY <1>1 DEF Init, NoIds, NoMaps
<1>3. TypeOK
  <2>1. 0 \in 0 .. MaxSerial
    BY ClusterAssumption
  <2>2. QED
    BY <1>1, <2>1 DEF Init, TypeOK, NoIds, NoMaps
<1>4. GoneWasMinted /\ DeadAreNameless /\ MapsAgree
  BY <1>1, <1>2, NoUidAssumption DEF Init, GoneWasMinted, DeadAreNameless, MapsAgree
<1>5. \A uid \in UniversalId : Nowhere(uid) /\ ~ Minted(uid)
  BY <1>2, NoUidAssumption, ClusterAssumption DEF Nowhere, Minted, UniversalId
<1>6. OnePlacePerId
  BY <1>5 DEF OnePlacePerId
<1>7. QED
  BY <1>3, <1>4, <1>6 DEF IInv

(* An id whose bearers a step leaves alone stays where it is. *)
LEMMA PlaceKept ==
  ASSUME NEW uid,
         \A shard \in Shards :
           /\ \A handle \in Handles :
                universal'[shard][handle] = uid <=> universal[shard][handle] = uid
           /\ migrating'[uid][shard] = migrating[uid][shard]
  PROVE  (Nowhere(uid) => Nowhere(uid)') /\ (SomewhereOnce(uid) => SomewhereOnce(uid)')
<1>1. Nowhere(uid) => Nowhere(uid)'
  BY DEF Nowhere
<1>2. ASSUME NEW shard \in Shards, NEW handle \in Handles, SettledAt(uid, shard, handle)
      PROVE  SettledAt(uid, shard, handle)'
  BY <1>2 DEF SettledAt
<1>3. ASSUME NEW shard \in Shards, UnderwayTo(uid, shard)
      PROVE  UnderwayTo(uid, shard)'
  BY <1>3 DEF UnderwayTo
<1>4. QED
  BY <1>1, <1>2, <1>3 DEF SomewhereOnce

(* spawn: a handle of no live entity, which has no id. *)
LEMMA SpawnInv == ASSUME IInv, NEW shard \in Shards, Spawn(shard) PROVE IInv'
<1>1. PICK handle \in Handles \ live[shard] :
        /\ live' = [live EXCEPT ![shard] = @ \cup {handle}]
        /\ UNCHANGED <<universal, to_local, next, migrating, restarted, gone>>
  BY DEF Spawn
<1>2. TypeOK'
  BY <1>1 DEF IInv, TypeOK
<1>3. OnePlacePerId'
  <2>1. \A uid \in UniversalId :
          (Nowhere(uid) => Nowhere(uid)') /\ (SomewhereOnce(uid) => SomewhereOnce(uid)')
    BY <1>1, PlaceKept
  <2>2. QED
    BY <1>1, <2>1 DEF IInv, OnePlacePerId, Minted
<1>4. DeadAreNameless' /\ GoneWasMinted'
  BY <1>1 DEF IInv, TypeOK, DeadAreNameless, GoneWasMinted, Minted
<1>5. MapsAgree'
  BY <1>1, NoUidAssumption DEF IInv, TypeOK, MapsAgree, DeadAreNameless
<1>6. QED
  BY <1>2, <1>3, <1>4, <1>5 DEF IInv

-----------------------------------------------------------------------------
(* What removing an entity does to the maps: its id leaves both, and no     *)
(* other id moves.                                                          *)
LEMMA RemoveEffect ==
  ASSUME IInv, NEW shard \in Shards, NEW handle \in Handles, Remove(shard, handle),
         UNCHANGED restarted
  PROVE  /\ live' \in [Shards -> SUBSET Handles]
         /\ universal' \in [Shards -> [Handles -> UniversalId \cup {NoUid}]]
         /\ to_local' \in [Shards -> [UniversalId -> Handles \cup {NoEntity}]]
         /\ next' = next
         /\ DeadAreNameless' /\ MapsAgree'
         /\ \A uid \in UniversalId : \A at \in Shards, other \in Handles :
              universal'[at][other] = uid <=>
                universal[at][other] = uid /\ ~ (at = shard /\ other = handle)
<1>1. PICK held \in UniversalId \cup {NoUid} : held = universal[shard][handle]
  BY DEF IInv, TypeOK
<1>2. /\ live' = [live EXCEPT ![shard] = @ \ {handle}]
      /\ universal' = [universal EXCEPT ![shard][handle] = NoUid]
      /\ to_local' = IF held = NoUid THEN to_local
                     ELSE [to_local EXCEPT ![shard][held] = NoEntity]
      /\ next' = next /\ handle \in live[shard]
  BY <1>1 DEF Remove
<1>3. /\ live \in [Shards -> SUBSET Handles]
      /\ universal \in [Shards -> [Handles -> UniversalId \cup {NoUid}]]
      /\ to_local \in [Shards -> [UniversalId -> Handles \cup {NoEntity}]]
  BY DEF IInv, TypeOK
<1>4. /\ live' \in [Shards -> SUBSET Handles]
      /\ universal' \in [Shards -> [Handles -> UniversalId \cup {NoUid}]]
      /\ to_local' \in [Shards -> [UniversalId -> Handles \cup {NoEntity}]]
  BY <1>2, <1>3
<1>5. ASSUME NEW uid \in UniversalId, NEW at \in Shards, NEW other \in Handles
      PROVE  universal'[at][other] = uid <=>
               universal[at][other] = uid /\ ~ (at = shard /\ other = handle)
  BY <1>2, <1>3, NoUidAssumption
<1>6. DeadAreNameless'
  BY <1>2, <1>3 DEF IInv, DeadAreNameless
<1>7. ASSUME NEW at \in Shards, NEW uid \in UniversalId, at \notin restarted \/ uid.minter # at
      PROVE  /\ \A other \in live'[at] :
                  universal'[at][other] = uid => to_local'[at][uid] = other
             /\ to_local'[at][uid] # NoEntity =>
                  /\ to_local'[at][uid] \in live'[at]
                  /\ universal'[at][to_local'[at][uid]] = uid
  <2>1. /\ \A other \in live[at] :
             universal[at][other] = uid => to_local[at][uid] = other
        /\ to_local[at][uid] # NoEntity =>
             /\ to_local[at][uid] \in live[at]
             /\ universal[at][to_local[at][uid]] = uid
    BY <1>7 DEF IInv, MapsAgree
  <2>2. CASE at # shard
    BY <2>1, <2>2, <1>2, <1>3
  <2>3. CASE at = shard /\ uid = held
    <3>1. to_local'[at][uid] = NoEntity
      BY <2>3, <1>2, <1>3, NoUidAssumption
    <3>2. to_local[at][uid] = handle
      BY <2>1, <2>3, <1>1, <1>2
    <3>3. \A other \in live'[at] : universal'[at][other] # uid
      BY <2>1, <2>3, <3>2, <1>2, <1>3
    <3>4. QED
      BY <3>1, <3>3
  <2>4. CASE at = shard /\ uid # held
    <3>1. to_local'[at][uid] = to_local[at][uid] /\ to_local[at][uid] # handle
      BY <2>1, <2>4, <1>1, <1>2, <1>3, ClusterAssumption
    <3>2. QED
      BY <2>1, <2>4, <3>1, <1>2, <1>3, NoUidAssumption
  <2>5. QED
    BY <2>2, <2>3, <2>4
<1>8. MapsAgree'
  BY <1>7 DEF MapsAgree
<1>9. QED
  BY <1>2, <1>4, <1>5, <1>6, <1>8

(* An entity that dies takes its id with it. *)
LEMMA DespawnInv ==
  ASSUME IInv, NEW shard \in Shards, NEW handle \in Handles, Despawn(shard, handle)
  PROVE  IInv'
<1>1. PICK held \in UniversalId \cup {NoUid} : held = universal[shard][handle]
  BY DEF IInv, TypeOK
<1>2. /\ gone' = gone \cup ({held} \ {NoUid})
      /\ migrating' = migrating /\ restarted' = restarted
      /\ Remove(shard, handle)
  BY <1>1 DEF Despawn
<1>3. /\ live' \in [Shards -> SUBSET Handles]
      /\ universal' \in [Shards -> [Handles -> UniversalId \cup {NoUid}]]
      /\ to_local' \in [Shards -> [UniversalId -> Handles \cup {NoEntity}]]
      /\ next' = next
      /\ DeadAreNameless' /\ MapsAgree'
      /\ \A uid \in UniversalId : \A at \in Shards, other \in Handles :
           universal'[at][other] = uid <=>
             universal[at][other] = uid /\ ~ (at = shard /\ other = handle)
  BY <1>2, RemoveEffect
<1>4. TypeOK'
  BY <1>1, <1>2, <1>3 DEF IInv, TypeOK
<1>5. ASSUME NEW uid \in UniversalId, uid.minter \notin restarted
      PROVE  /\ uid = held => Minted(uid) /\ Nowhere(uid)'
             /\ uid # held /\ Nowhere(uid) => Nowhere(uid)'
             /\ uid # held /\ SomewhereOnce(uid) => SomewhereOnce(uid)'
  <2>1. CASE uid = held
    <3>1. ~ Nowhere(uid)
      BY <2>1, <1>1 DEF Nowhere
    <3>2. Minted(uid) /\ SomewhereOnce(uid)
      BY <1>5, <3>1 DEF IInv, OnePlacePerId
    <3>3. SettledAt(uid, shard, handle)
      BY <1>1, <2>1, <3>2 DEF SomewhereOnce, SettledAt, UnderwayTo
    <3>4. Nowhere(uid)'
      BY <1>2, <1>3, <3>3 DEF SettledAt, Nowhere
    <3>5. QED
      BY <2>1, <3>2, <3>4
  <2>2. CASE uid # held
    <3>1. \A at \in Shards, other \in Handles :
            universal'[at][other] = uid <=> universal[at][other] = uid
      BY <1>1, <1>3, <2>2
    <3>2. QED
      BY <1>2, <2>2, <3>1, PlaceKept
  <2>3. QED
    BY <2>1, <2>2
<1>6. OnePlacePerId'
  BY <1>2, <1>3, <1>5 DEF IInv, OnePlacePerId, Minted
<1>7. GoneWasMinted'
  BY <1>1, <1>2, <1>3, <1>5 DEF IInv, GoneWasMinted, Minted
<1>8. QED
  BY <1>3, <1>4, <1>6, <1>7 DEF IInv

(* An entity that leaves is one message from then on. *)
LEMMA MigrateOutInv ==
  ASSUME IInv, NEW shard \in Shards, NEW handle \in Handles, NEW target \in Shards,
         MigrateOut(shard, handle, target)
  PROVE  IInv'
<1>1. PICK held \in UniversalId : held = universal[shard][handle]
  BY DEF IInv, TypeOK, MigrateOut
<1>2. /\ migrating' = [migrating EXCEPT ![held][target] = @ + 1]
      /\ gone' = gone /\ restarted' = restarted
      /\ Remove(shard, handle)
      /\ migrating \in [UniversalId -> [Shards -> Nat]]
  BY <1>1 DEF MigrateOut, IInv, TypeOK
<1>3. /\ live' \in [Shards -> SUBSET Handles]
      /\ universal' \in [Shards -> [Handles -> UniversalId \cup {NoUid}]]
      /\ to_local' \in [Shards -> [UniversalId -> Handles \cup {NoEntity}]]
      /\ next' = next
      /\ DeadAreNameless' /\ MapsAgree'
      /\ \A uid \in UniversalId : \A at \in Shards, other \in Handles :
           universal'[at][other] = uid <=>
             universal[at][other] = uid /\ ~ (at = shard /\ other = handle)
  BY <1>2, RemoveEffect
<1>4. TypeOK' /\ GoneWasMinted'
  BY <1>2, <1>3 DEF IInv, TypeOK, GoneWasMinted, Minted
<1>5. ASSUME NEW uid \in UniversalId, uid.minter \notin restarted
      PROVE  (Nowhere(uid) => Nowhere(uid)') /\ (SomewhereOnce(uid) => SomewhereOnce(uid)')
  <2>1. CASE uid = held
    <3>1. ~ Nowhere(uid)
      BY <2>1, <1>1 DEF Nowhere
    <3>2. SomewhereOnce(uid)
      BY <1>5, <3>1 DEF IInv, OnePlacePerId
    <3>3. SettledAt(uid, shard, handle)
      BY <1>1, <2>1, <3>2 DEF SomewhereOnce, SettledAt, UnderwayTo
    <3>4. UnderwayTo(uid, target)'
      BY <1>2, <1>3, <2>1, <3>3 DEF SettledAt, UnderwayTo
    <3>5. QED
      BY <3>1, <3>4 DEF SomewhereOnce
  <2>2. CASE uid # held
    <3>1. \A at \in Shards, other \in Handles :
            universal'[at][other] = uid <=> universal[at][other] = uid
      BY <1>1, <1>3, <2>2
    <3>2. QED
      BY <1>2, <2>2, <3>1, PlaceKept
  <2>3. QED
    BY <2>1, <2>2
<1>6. OnePlacePerId'
  BY <1>2, <1>3, <1>5 DEF IInv, OnePlacePerId, Minted
<1>7. QED
  BY <1>3, <1>4, <1>6 DEF IInv

-----------------------------------------------------------------------------
(* An entity is bound to an id in both maps. *)
Bind(shard, handle, uid) ==
  /\ live' = [live EXCEPT ![shard] = @ \cup {handle}]
  /\ universal' = [universal EXCEPT ![shard][handle] = uid]
  /\ to_local' = [to_local EXCEPT ![shard][uid] = handle]
  /\ restarted' = restarted

(* What binding an entity to an id does to the maps of a shard where either *)
(* the id was unbound, or restarts have made it the shard's own alias.      *)
LEMMA BindEffect ==
  ASSUME IInv, NEW shard \in Shards, NEW handle \in Handles, NEW uid \in UniversalId,
         universal[shard][handle] = NoUid,
         to_local[shard][uid] = NoEntity \/ (uid.minter = shard /\ shard \in restarted),
         Bind(shard, handle, uid)
  PROVE  /\ live' \in [Shards -> SUBSET Handles]
         /\ universal' \in [Shards -> [Handles -> UniversalId \cup {NoUid}]]
         /\ to_local' \in [Shards -> [UniversalId -> Handles \cup {NoEntity}]]
         /\ DeadAreNameless' /\ MapsAgree'
         /\ \A other \in UniversalId : \A at \in Shards, local \in Handles :
              universal'[at][local] = other <=>
                \/ universal[at][local] = other
                \/ other = uid /\ at = shard /\ local = handle
<1> USE DEF Bind
<1>1. /\ live \in [Shards -> SUBSET Handles]
      /\ universal \in [Shards -> [Handles -> UniversalId \cup {NoUid}]]
      /\ to_local \in [Shards -> [UniversalId -> Handles \cup {NoEntity}]]
  BY DEF IInv, TypeOK
<1>2. /\ live' \in [Shards -> SUBSET Handles]
      /\ universal' \in [Shards -> [Handles -> UniversalId \cup {NoUid}]]
      /\ to_local' \in [Shards -> [UniversalId -> Handles \cup {NoEntity}]]
  BY <1>1
<1>3. ASSUME NEW other \in UniversalId, NEW at \in Shards, NEW local \in Handles
      PROVE  universal'[at][local] = other <=>
               \/ universal[at][local] = other
               \/ other = uid /\ at = shard /\ local = handle
  BY <1>1, NoUidAssumption
<1>4. DeadAreNameless'
  BY <1>1 DEF IInv, DeadAreNameless
<1>5. ASSUME NEW at \in Shards, NEW other \in UniversalId, at \notin restarted \/ other.minter # at
      PROVE  /\ \A local \in live'[at] :
                  universal'[at][local] = other => to_local'[at][other] = local
             /\ to_local'[at][other] # NoEntity =>
                  /\ to_local'[at][other] \in live'[at]
                  /\ universal'[at][to_local'[at][other]] = other
  <2>1. /\ \A local \in live[at] :
             universal[at][local] = other => to_local[at][other] = local
        /\ to_local[at][other] # NoEntity =>
             /\ to_local[at][other] \in live[at]
             /\ universal[at][to_local[at][other]] = other
    BY <1>5 DEF IInv, MapsAgree
  <2>2. CASE at # shard
    BY <2>1, <2>2, <1>1
  <2>3. CASE at = shard /\ other = uid
    <3>1. to_local[at][uid] = NoEntity
      BY <1>5, <2>3
    <3>2. \A local \in live[at] : universal[at][local] # uid
      BY <2>1, <2>3, <3>1, <1>1, ClusterAssumption
    <3>3. QED
      BY <2>3, <3>2, <1>1
  <2>4. CASE at = shard /\ other # uid
    <3>1. to_local'[at][other] = to_local[at][other]
      BY <2>4, <1>1
    <3>2. to_local[at][other] # handle
      BY <2>1, <2>4, NoUidAssumption, ClusterAssumption
    <3>3. QED
      BY <2>1, <2>4, <3>1, <3>2, <1>1
  <2>5. QED
    BY <2>2, <2>3, <2>4
<1>6. MapsAgree'
  BY <1>5 DEF MapsAgree
<1>7. QED
  BY <1>2, <1>3, <1>4, <1>6

(* promote: a minted id that no one bears, unless the shard has restarted.  *)
LEMMA PromoteInv ==
  ASSUME IInv, NEW shard \in Shards, NEW handle \in Handles, Promote(shard, handle)
  PROVE  IInv'
<1>1. PICK serial \in 0 .. MaxSerial - 1 : serial = next[shard] /\ next[shard] < MaxSerial
  BY ClusterAssumption DEF IInv, TypeOK, Promote
<1>2. PICK uid \in UniversalId : uid = [minter |-> shard, serial |-> serial]
  BY DEF UniversalId
<1>3. /\ uid.minter = shard /\ uid.serial = next[shard]
      /\ handle \in live[shard] /\ universal[shard][handle] = NoUid
      /\ next' = [next EXCEPT ![shard] = @ + 1]
      /\ universal' = [universal EXCEPT ![shard][handle] = uid]
      /\ to_local' = [to_local EXCEPT ![shard][uid] = handle]
      /\ UNCHANGED <<live, migrating, restarted, gone>>
  BY <1>1, <1>2 DEF Promote
<1>4. live' = [live EXCEPT ![shard] = @ \cup {handle}]
  BY <1>3 DEF IInv, TypeOK
<1>5. shard \notin restarted => Nowhere(uid) /\ uid \notin gone /\ to_local[shard][uid] = NoEntity
  <2>1. SUFFICES ASSUME shard \notin restarted
                 PROVE  Nowhere(uid) /\ uid \notin gone /\ to_local[shard][uid] = NoEntity
    OBVIOUS
  <2>2. ~ Minted(uid)
    BY <1>1, <1>3 DEF Minted
  <2>3. Nowhere(uid) /\ uid \notin gone
    BY <1>3, <2>1, <2>2 DEF IInv, OnePlacePerId, GoneWasMinted
  <2>4. to_local[shard][uid] \in Handles \cup {NoEntity}
    BY DEF IInv, TypeOK
  <2>5. to_local[shard][uid] = NoEntity
    BY <2>1, <2>3, <2>4 DEF IInv, MapsAgree, Nowhere
  <2>6. QED
    BY <2>3, <2>5
<1>6. /\ universal' \in [Shards -> [Handles -> UniversalId \cup {NoUid}]]
      /\ to_local' \in [Shards -> [UniversalId -> Handles \cup {NoEntity}]]
      /\ DeadAreNameless' /\ MapsAgree'
      /\ \A other \in UniversalId : \A at \in Shards, local \in Handles :
           universal'[at][local] = other <=>
             \/ universal[at][local] = other
             \/ other = uid /\ at = shard /\ local = handle
  <2>1. Bind(shard, handle, uid) /\ (to_local[shard][uid] = NoEntity \/ shard \in restarted)
    BY <1>3, <1>4, <1>5 DEF Bind
  <2>2. QED
    BY <1>3, <2>1, BindEffect
<1>7. next' \in [Shards -> 0 .. MaxSerial]
  <2>1. next \in [Shards -> 0 .. MaxSerial]
    BY DEF IInv, TypeOK
  <2>2. next[shard] + 1 \in 0 .. MaxSerial
    BY <1>1, ClusterAssumption
  <2>3. QED
    BY <1>3, <2>1, <2>2
<1>8. TypeOK'
  BY <1>3, <1>6, <1>7 DEF IInv, TypeOK
<1>9. ASSUME NEW other \in UniversalId, other.minter \notin restarted
      PROVE  /\ other = uid => Minted(other)' /\ SomewhereOnce(other)' /\ other \notin gone
             /\ other # uid => /\ Minted(other)' <=> Minted(other)
                               /\ Nowhere(other) => Nowhere(other)'
                               /\ SomewhereOnce(other) => SomewhereOnce(other)'
  <2>1. CASE other = uid
    <3>1. Nowhere(uid) /\ uid \notin gone
      BY <1>3, <1>5, <1>9, <2>1
    <3>2. SettledAt(uid, shard, handle)'
      BY <1>3, <1>6, <3>1 DEF SettledAt, Nowhere
    <3>3. Minted(uid)'
      BY <1>1, <1>3, <1>7 DEF Minted, IInv, TypeOK
    <3>4. QED
      BY <2>1, <3>1, <3>2, <3>3 DEF SomewhereOnce
  <2>2. CASE other # uid
    <3>1. other.minter \in Shards /\ other.serial \in 0 .. MaxSerial - 1
      BY DEF UniversalId
    <3>2. other.minter = shard => other.serial # serial
      BY <1>2, <2>2 DEF UniversalId
    <3>3. Minted(other)' <=> Minted(other)
      <4>1. CASE other.minter = shard
        <5>1. next'[shard] = serial + 1 /\ next[shard] = serial
          BY <1>1, <1>3 DEF IInv, TypeOK
        <5>2. other.serial < serial + 1 <=> other.serial < serial
          BY <3>1, <3>2, <4>1, ClusterAssumption
        <5>3. QED
          BY <4>1, <5>1, <5>2 DEF Minted
      <4>2. CASE other.minter # shard
        BY <1>3, <3>1, <4>2 DEF Minted, IInv, TypeOK
      <4>3. QED
        BY <4>1, <4>2
    <3>4. QED
      BY <1>3, <1>6, <2>2, <3>3, PlaceKept
  <2>3. QED
    BY <2>1, <2>2
<1>10. OnePlacePerId' /\ GoneWasMinted'
  BY <1>3, <1>9 DEF IInv, TypeOK, OnePlacePerId, GoneWasMinted
<1>11. QED
  BY <1>6, <1>8, <1>10 DEF IInv

(* A message delivered to a shard is the one bearer of its id. *)
LEMMA MigrateInInv ==
  ASSUME IInv, NEW shard \in Shards, NEW uid \in UniversalId, MigrateIn(shard, uid)
  PROVE  IInv'
<1>1. PICK handle \in Handles \ live[shard] :
        /\ migrating[uid][shard] > 0
        /\ migrating' = [migrating EXCEPT ![uid][shard] = @ - 1]
        /\ to_local[shard][uid] = NoEntity
        /\ live' = [live EXCEPT ![shard] = @ \cup {handle}]
        /\ universal' = [universal EXCEPT ![shard][handle] = uid]
        /\ to_local' = [to_local EXCEPT ![shard][uid] = handle]
        /\ UNCHANGED <<next, restarted, gone>>
  BY DEF MigrateIn, Arrive, Adopt
<1>2. universal[shard][handle] = NoUid /\ migrating \in [UniversalId -> [Shards -> Nat]]
  BY DEF IInv, DeadAreNameless, TypeOK
<1>3. /\ live' \in [Shards -> SUBSET Handles]
      /\ universal' \in [Shards -> [Handles -> UniversalId \cup {NoUid}]]
      /\ to_local' \in [Shards -> [UniversalId -> Handles \cup {NoEntity}]]
      /\ DeadAreNameless' /\ MapsAgree'
      /\ \A other \in UniversalId : \A at \in Shards, local \in Handles :
           universal'[at][local] = other <=>
             \/ universal[at][local] = other
             \/ other = uid /\ at = shard /\ local = handle
  <2>1. Bind(shard, handle, uid)
    BY <1>1 DEF Bind
  <2>2. QED
    BY <1>1, <1>2, <2>1, BindEffect
<1>4. migrating' \in [UniversalId -> [Shards -> Nat]]
  <2>1. migrating[uid][shard] - 1 \in Nat
    BY <1>1, <1>2
  <2>2. QED
    BY <1>1, <1>2, <2>1
<1>5. TypeOK' /\ GoneWasMinted'
  BY <1>1, <1>3, <1>4 DEF IInv, TypeOK, GoneWasMinted, Minted
<1>6. ASSUME NEW other \in UniversalId, other.minter \notin restarted
      PROVE  (Nowhere(other) => Nowhere(other)') /\ (SomewhereOnce(other) => SomewhereOnce(other)')
  <2>1. CASE other = uid
    <3>1. ~ Nowhere(uid)
      BY <1>1, <1>2 DEF Nowhere
    <3>2. SomewhereOnce(uid)
      BY <1>6, <2>1, <3>1 DEF IInv, OnePlacePerId
    <3>3. UnderwayTo(uid, shard)
      BY <1>1, <3>2 DEF SomewhereOnce, SettledAt, UnderwayTo
    <3>4. SettledAt(uid, shard, handle)'
      BY <1>1, <1>2, <1>3, <3>3 DEF SettledAt, UnderwayTo
    <3>5. QED
      BY <2>1, <3>1, <3>4 DEF SomewhereOnce
  <2>2. CASE other # uid
    BY <1>1, <1>2, <1>3, <2>2, PlaceKept
  <2>3. QED
    BY <2>1, <2>2
<1>7. OnePlacePerId'
  BY <1>1, <1>6 DEF IInv, OnePlacePerId, Minted
<1>8. QED
  BY <1>3, <1>5, <1>7 DEF IInv

(* adopt refuses only ids that restarts have doubled: one that is underway  *)
(* and not doubled has no entity on the target.                             *)
LEMMA MigrateRefusedInv ==
  ASSUME IInv, NEW shard \in Shards, NEW uid \in UniversalId, MigrateRefused(shard, uid)
  PROVE  IInv'
<1>1. /\ migrating[uid][shard] > 0
      /\ migrating' = [migrating EXCEPT ![uid][shard] = @ - 1]
      /\ to_local[shard][uid] # NoEntity
      /\ UNCHANGED <<live, universal, to_local, next, restarted, gone>>
  BY DEF MigrateRefused, Arrive, worldVars
<1>2. migrating \in [UniversalId -> [Shards -> Nat]]
  BY DEF IInv, TypeOK
<1>3. migrating' \in [UniversalId -> [Shards -> Nat]]
  <2>1. migrating[uid][shard] - 1 \in Nat
    BY <1>1, <1>2
  <2>2. QED
    BY <1>1, <1>2, <2>1
<1>4. uid.minter \in restarted
  <2>1. SUFFICES ASSUME uid.minter \notin restarted PROVE FALSE
    OBVIOUS
  <2>2. ~ Nowhere(uid)
    BY <1>1, <1>2 DEF Nowhere
  <2>3. SomewhereOnce(uid)
    BY <2>1, <2>2 DEF IInv, OnePlacePerId
  <2>4. \A handle \in Handles : universal[shard][handle] # uid
    BY <1>1, <1>2, <2>3 DEF SomewhereOnce, SettledAt, UnderwayTo
  <2>5. shard \notin restarted \/ uid.minter # shard
    BY <2>1
  <2>6. to_local[shard][uid] \in live[shard] /\ universal[shard][to_local[shard][uid]] = uid
    BY <1>1, <2>5 DEF IInv, MapsAgree
  <2>7. live[shard] \subseteq Handles
    BY DEF IInv, TypeOK
  <2>8. QED
    BY <2>4, <2>6, <2>7
<1>5. ASSUME NEW other \in UniversalId, other.minter \notin restarted
      PROVE  (Nowhere(other) => Nowhere(other)') /\ (SomewhereOnce(other) => SomewhereOnce(other)')
  <2>1. other # uid
    BY <1>4, <1>5
  <2>2. QED
    BY <1>1, <1>2, <2>1, PlaceKept
<1>6. OnePlacePerId'
  BY <1>1, <1>5 DEF IInv, OnePlacePerId, Minted
<1>7. TypeOK' /\ GoneWasMinted' /\ DeadAreNameless' /\ MapsAgree'
  BY <1>1, <1>3 DEF IInv, TypeOK, GoneWasMinted, Minted, DeadAreNameless, MapsAgree
<1>8. QED
  BY <1>6, <1>7 DEF IInv

(* A restart loses the entities of a shard; the ids that others minted for  *)
(* them are borne by no one, and the shard's own are no longer spoken of.   *)
LEMMA RestartInv == ASSUME IInv, NEW shard \in Shards, Restart(shard) PROVE IInv'
<1>1. /\ restarted' = restarted \cup {shard}
      /\ gone' = gone \cup Held(shard)
      /\ live' = [live EXCEPT ![shard] = {}]
      /\ universal' = [universal EXCEPT ![shard] = NoIds]
      /\ to_local' = [to_local EXCEPT ![shard] = NoMaps]
      /\ next' = [next EXCEPT ![shard] = 0]
      /\ migrating' = migrating
  BY DEF Restart
<1>2. /\ live \in [Shards -> SUBSET Handles]
      /\ universal \in [Shards -> [Handles -> UniversalId \cup {NoUid}]]
      /\ to_local \in [Shards -> [UniversalId -> Handles \cup {NoEntity}]]
      /\ next \in [Shards -> 0 .. MaxSerial]
  BY DEF IInv, TypeOK
<1>3. \A uid \in UniversalId :
        uid \in Held(shard) <=> \E handle \in Handles : universal[shard][handle] = uid
  <2>1. \A handle \in Handles : handle \notin live[shard] => universal[shard][handle] = NoUid
    BY DEF IInv, DeadAreNameless
  <2>2. QED
    BY <1>2, <2>1, NoUidAssumption DEF Held
<1>4. Held(shard) \subseteq UniversalId
  BY <1>2 DEF Held
<1>5. TypeOK'
  <2>1. NoIds \in [Handles -> UniversalId \cup {NoUid}]
    BY DEF NoIds
  <2>2. NoMaps \in [UniversalId -> Handles \cup {NoEntity}]
    BY DEF NoMaps
  <2>3. 0 \in 0 .. MaxSerial
    BY ClusterAssumption
  <2>4. /\ live' \in [Shards -> SUBSET Handles]
        /\ universal' \in [Shards -> [Handles -> UniversalId \cup {NoUid}]]
        /\ to_local' \in [Shards -> [UniversalId -> Handles \cup {NoEntity}]]
        /\ next' \in [Shards -> 0 .. MaxSerial]
    BY <1>1, <1>2, <2>1, <2>2, <2>3
  <2>5. QED
    BY <1>1, <1>4, <2>4 DEF IInv, TypeOK
<1>6. ASSUME NEW at \in Shards, NEW handle \in Handles
      PROVE  universal'[at][handle] = IF at = shard THEN NoUid ELSE universal[at][handle]
  BY <1>1, <1>2 DEF NoIds
<1>7. DeadAreNameless'
  BY <1>1, <1>2, <1>6 DEF IInv, DeadAreNameless
<1>8. MapsAgree'
  <2>1. SUFFICES ASSUME NEW at \in Shards, NEW uid \in UniversalId,
                        at \notin restarted' \/ uid.minter # at
                 PROVE  /\ \A handle \in live'[at] :
                             universal'[at][handle] = uid => to_local'[at][uid] = handle
                        /\ to_local'[at][uid] # NoEntity =>
                             /\ to_local'[at][uid] \in live'[at]
                             /\ universal'[at][to_local'[at][uid]] = uid
    BY DEF MapsAgree
  <2>2. CASE at = shard
    <3>1. live'[at] = {} /\ to_local'[at][uid] = NoEntity
      BY <1>1, <1>2, <2>2 DEF NoMaps
    <3>2. QED
      BY <3>1
  <2>3. CASE at # shard
    <3>1. /\ live'[at] = live[at] /\ to_local'[at] = to_local[at]
          /\ universal'[at] = universal[at]
          /\ at \notin restarted \/ uid.minter # at
      BY <1>1, <1>2, <2>1, <2>3
    <3>2. QED
      BY <3>1 DEF IInv, MapsAgree
  <2>4. QED
    BY <2>2, <2>3
<1>9. ASSUME NEW uid \in UniversalId, uid.minter \notin restarted'
      PROVE  /\ uid.minter \notin restarted
             /\ Minted(uid)' <=> Minted(uid)
             /\ uid \in Held(shard) => Minted(uid) /\ Nowhere(uid)'
             /\ uid \notin Held(shard) =>
                  (Nowhere(uid) => Nowhere(uid)') /\ (SomewhereOnce(uid) => SomewhereOnce(uid)')
  <2>1. uid.minter \in Shards /\ uid.minter # shard /\ uid.minter \notin restarted
    BY <1>1, <1>9 DEF UniversalId
  <2>2. Minted(uid)' <=> Minted(uid)
    BY <1>1, <1>2, <2>1 DEF Minted
  <2>3. CASE uid \in Held(shard)
    <3>1. PICK handle \in Handles : universal[shard][handle] = uid
      BY <1>3, <2>3
    <3>2. Minted(uid) /\ SomewhereOnce(uid)
      BY <2>1, <3>1 DEF IInv, OnePlacePerId, Nowhere
    <3>3. SettledAt(uid, shard, handle)
      BY <3>1, <3>2 DEF SomewhereOnce, SettledAt, UnderwayTo
    <3>4. Nowhere(uid)'
      BY <1>1, <1>6, <3>3, NoUidAssumption DEF SettledAt, Nowhere
    <3>5. QED
      BY <2>1, <2>2, <2>3, <3>2, <3>4
  <2>4. CASE uid \notin Held(shard)
    <3>1. \A at \in Shards : \A handle \in Handles :
            universal'[at][handle] = uid <=> universal[at][handle] = uid
      BY <1>3, <1>6, <2>4, NoUidAssumption
    <3>2. QED
      BY <1>1, <2>1, <2>2, <2>4, <3>1, PlaceKept
  <2>5. QED
    BY <2>3, <2>4
<1>10. OnePlacePerId' /\ GoneWasMinted'
  <2>1. OnePlacePerId'
    BY <1>1, <1>9 DEF IInv, OnePlacePerId
  <2>2. GoneWasMinted'
    BY <1>1, <1>4, <1>9 DEF IInv, TypeOK, GoneWasMinted
  <2>3. QED
    BY <2>1, <2>2
<1>11. QED
  BY <1>5, <1>7, <1>8, <1>10 DEF IInv

(* Every step keeps the invariant. *)
LEMMA NextInv == IInv /\ [Next]_vars => IInv'
<1>1. SUFFICES ASSUME IInv, [Next]_vars PROVE IInv'
  OBVIOUS
<1>2. CASE UNCHANGED vars
  <2>1. UNCHANGED <<live, universal, to_local, next, migrating, restarted, gone>>
    BY <1>2 DEF vars, worldVars
  <2>2. OnePlacePerId'
    <3>1. \A uid \in UniversalId :
            (Nowhere(uid) => Nowhere(uid)') /\ (SomewhereOnce(uid) => SomewhereOnce(uid)')
      BY <2>1, PlaceKept
    <3>2. QED
      BY <1>1, <2>1, <3>1 DEF IInv, OnePlacePerId, Minted
  <2>3. QED
    BY <1>1, <2>1, <2>2
       DEF IInv, TypeOK, GoneWasMinted, Minted, DeadAreNameless, MapsAgree
<1>3. ASSUME NEW shard \in Shards, Spawn(shard) \/ Restart(shard) PROVE IInv'
  BY <1>1, <1>3, SpawnInv, RestartInv
<1>4. ASSUME NEW shard \in Shards, NEW handle \in Handles,
             Despawn(shard, handle) \/ Promote(shard, handle)
      PROVE  IInv'
  BY <1>1, <1>4, DespawnInv, PromoteInv
<1>5. ASSUME NEW shard \in Shards, NEW handle \in Handles, NEW target \in Shards,
             MigrateOut(shard, handle, target)
      PROVE  IInv'
  BY <1>1, <1>5, MigrateOutInv
<1>6. ASSUME NEW shard \in Shards, NEW uid \in UniversalId,
             MigrateIn(shard, uid) \/ MigrateRefused(shard, uid)
      PROVE  IInv'
  BY <1>1, <1>6, MigrateInInv, MigrateRefusedInv
<1>7. QED
  BY <1>1, <1>2, <1>3, <1>4, <1>5, <1>6 DEF Next

-----------------------------------------------------------------------------
(* The inductive invariant holds in every reachable state. *)
THEOREM Invariance == Spec => []IInv
BY InitInv, NextInv, PTL DEF Spec

(* The state stays within its types; no counter passes the serial that is   *)
(* never minted.                                                            *)
THEOREM TypeCorrect == Spec => []TypeOK
<1>1. IInv => TypeOK
  BY DEF IInv
<1>2. QED
  BY <1>1, Invariance, PTL

(* The maps of Registry agree on every shard, whatever other shards and     *)
(* their restarts send.                                                     *)
THEOREM MapsAlwaysAgree == Spec => []MapsAgree
<1>1. IInv => MapsAgree
  BY DEF IInv
<1>2. QED
  BY <1>1, Invariance, PTL

(* How many bear an id, for each of the places it can be in. *)
LEMMA BearersOfPlace ==
  ASSUME IInv, NEW uid \in UniversalId
  PROVE  /\ Nowhere(uid) => Bearers(uid) = 0
         /\ SomewhereOnce(uid) => Bearers(uid) = 1
<1>1. /\ live \in [Shards -> SUBSET Handles]
      /\ migrating \in [UniversalId -> [Shards -> Nat]]
      /\ \A shard \in Shards, handle \in Handles :
           handle \notin live[shard] => universal[shard][handle] # uid
  BY NoUidAssumption DEF IInv, TypeOK, DeadAreNameless
<1>2. ASSUME Nowhere(uid) PROVE Bearers(uid) = 0
  <2>1. Holders(uid) = {}
    BY <1>2 DEF Nowhere, Holders
  <2>2. Messages(uid) = {}
    <3>1. \A shard \in Shards : 1 .. migrating[uid][shard] = {}
      BY <1>2 DEF Nowhere
    <3>2. QED
      BY <3>1 DEF Messages
  <2>3. QED
    BY <2>1, <2>2, FS_EmptySet DEF Bearers
<1>3. ASSUME NEW at \in Shards, NEW handle \in Handles, SettledAt(uid, at, handle)
      PROVE  Bearers(uid) = 1
  <2>1. Holders(uid) = {<<at, handle>>}
    <3>1. handle \in live[at] /\ universal[at][handle] = uid
      BY <1>1, <1>3 DEF SettledAt
    <3>2. \A holder \in Holders(uid) : holder = <<at, handle>>
      BY <1>3 DEF SettledAt, Holders
    <3>3. <<at, handle>> \in Holders(uid)
      BY <3>1 DEF Holders
    <3>4. QED
      BY <3>2, <3>3
  <2>2. Messages(uid) = {}
    <3>1. \A shard \in Shards : 1 .. migrating[uid][shard] = {}
      BY <1>3 DEF SettledAt
    <3>2. QED
      BY <3>1 DEF Messages
  <2>3. Cardinality(Holders(uid)) = 1 /\ Cardinality(Messages(uid)) = 0
    BY <2>1, <2>2, FS_EmptySet, FS_Singleton
  <2>4. QED
    BY <2>3 DEF Bearers
<1>4. ASSUME NEW target \in Shards, UnderwayTo(uid, target) PROVE Bearers(uid) = 1
  <2>1. Holders(uid) = {}
    BY <1>4 DEF UnderwayTo, Holders
  <2>2. Messages(uid) = {target} \X {1}
    <3>1. 1 .. migrating[uid][target] = {1}
      <4>1. migrating[uid][target] = 1
        BY <1>4 DEF UnderwayTo
      <4>2. 1 .. 1 = {1}
        OBVIOUS
      <4>3. QED
        BY <4>1, <4>2
    <3>2. \A shard \in Shards : shard # target => 1 .. migrating[uid][shard] = {}
      <4>1. \A shard \in Shards : shard # target => migrating[uid][shard] = 0
        BY <1>4 DEF UnderwayTo
      <4>2. 1 .. 0 = {}
        OBVIOUS
      <4>3. QED
        BY <4>1, <4>2
    <3>3. \A shard \in Shards : {shard} \X (1 .. migrating[uid][shard]) =
            IF shard = target THEN {target} \X {1} ELSE {}
      BY <3>1, <3>2
    <3>4. QED
      BY <3>3 DEF Messages
  <2>3. {target} \X {1} = {<<target, 1>>}
    OBVIOUS
  <2>4. Cardinality(Messages(uid)) = 1 /\ Cardinality(Holders(uid)) = 0
    BY <2>1, <2>2, <2>3, FS_EmptySet, FS_Singleton
  <2>5. QED
    BY <2>4 DEF Bearers
<1>5. QED
  BY <1>2, <1>3, <1>4 DEF SomewhereOnce

(* Promotion, hand-over, adoption and despawn keep one entity per id from   *)
(* its minting to its death, in any interleaving and for any number of      *)
(* shards, as long as its minter does not restart.                          *)
THEOREM OneEntityAlways == Spec => []OneEntityPerId
<1>1. IInv => OneEntityPerId
  BY BearersOfPlace DEF IInv, OnePlacePerId, Minted, OneEntityPerId
<1>2. QED
  BY <1>1, Invariance, PTL
=============================================================================
