---------------------------- MODULE EntityIdentity ----------------------------
(***************************************************************************)
(* What one shard's registry of entities (ecs/entity.rs) promises, without *)
(* slots, generations or tables: a handle is fresh when it is issued and   *)
(* never alive again once its entity is gone, and the universal names form *)
(* a one-to-one relation with live entities, each minted at most once.     *)
(***************************************************************************)

CONSTANTS
  Handle,           \* Every handle a registry could issue.
  Name,             \* Every universal name.
  OwnName,          \* The names this registry mints.
  NoHandle          \* "No entity": not a handle.

VARIABLES
  live,             \* The handles of the entities that exist.
  issued,           \* The handles issued so far.
  minted,           \* The own names minted so far.
  names             \* The live entity each name stands for, or NoHandle.

vars == <<live, issued, minted, names>>

Named(handle) == \E name \in Name : names[name] = handle

Init ==
  /\ live = {}
  /\ issued = {}
  /\ minted \in SUBSET OwnName
  /\ names = [name \in Name |-> NoHandle]

(* A fresh handle comes to life. *)
Issue(handle) ==
  /\ handle \in Handle \ issued
  /\ live' = live \cup {handle}
  /\ issued' = issued \cup {handle}

(* A new entity that nothing outside the shard can name yet. *)
Spawn(handle) ==
  /\ Issue(handle)
  /\ UNCHANGED <<minted, names>>

(* A live entity goes, and its name with it. *)
Despawn(handle) ==
  /\ handle \in live
  /\ live' = live \ {handle}
  /\ names' = [name \in Name |->
                 IF names[name] = handle THEN NoHandle ELSE names[name]]
  /\ UNCHANGED <<issued, minted>>

(* A nameless live entity gets a name no entity was ever given. *)
Promote(handle, name) ==
  /\ handle \in live
  /\ ~ Named(handle)
  /\ name \in OwnName \ minted
  /\ names[name] = NoHandle
  /\ minted' = minted \cup {name}
  /\ names' = [names EXCEPT ![name] = handle]
  /\ UNCHANGED <<live, issued>>

(* An entity moves in under the name it already has. *)
Adopt(name, handle) ==
  /\ names[name] = NoHandle
  /\ name \notin OwnName \ minted
  /\ Issue(handle)
  /\ names' = [names EXCEPT ![name] = handle]
  /\ UNCHANGED minted

Next ==
  \/ \E handle \in Handle : Spawn(handle) \/ Despawn(handle)
  \/ \E handle \in Handle, name \in Name :
       Promote(handle, name) \/ Adopt(name, handle)

Spec == Init /\ [][Next]_vars
=============================================================================
