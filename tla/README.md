# Verification of uju

TLA+ models of uju, their TLC runs, and proofs checked by TLAPS. Every
definition is translated from the Rust sources under `src/crates/`;
`PROJECT.json` names, for each one, the lines it stands for.

## The system

uju is a server framework for seamless worlds. A *node* is a process that runs
one pinned thread per CPU, each a *shard*: a single-threaded async runtime
(compio) that owns one ECS *world* and its network sessions and shares nothing
with the other shards. A schema compiler (`uju-protoc`) turns `.uju` files into
wire layouts and Rust code, which runs on a small wire runtime.

| Component | Source (`src/crates/...`) | State | Operations | What makes it hard |
|---|---|---|---|---|
| Entity allocator | `uju/src/ecs/entity.rs` | generation per slot, stack of free slots, live count | `try_alloc`, `dealloc`, `is_alive` | stale handles, the end of 32-bit generations |
| Registry, universal ids | `uju/src/ecs/entity.rs` | allocator, serial counter, two maps between handles and ids | `spawn`, `despawn`, `promote`, `adopt`, `universal`, `resolve` | recycled slots, ids that come back, the last serial |
| Ids in a cluster | `entity.rs`, `ecs/world.rs` | the registries of all shards, entities on their way | migration, restart | ids outlive their minter |
| Component table | `ecs/storage/sparse_set.rs`, `sparse_array.rs` | paged index, dense vectors of handles and components | `insert`, `remove`, `clear`, lookups | swap-remove, pages given back, generations |
| World, views | `ecs/world.rs`, `ecs/storage/view.rs` | registry, tables, unique cells, each behind a `RefCell` | the registry's, `view(_mut)`, uniques | views held across an await, panics half way |
| Join, query | `ecs/storage/join.rs`, `ecs/query.rs` | checked-out views, the driver's iterator | `Query::new`, `iter`, `next` | choice of the driver, aliasing, `Without` |
| TCP session | `net/transport/tcp/session.rs` | egress queue, batch, carry, stop token | `send`, `close`, send loop, receive loop | close against queue, partial writes, chunking |
| TCP listener | `net/transport/tcp/listener.rs` | listening socket | `bind`, `accept` | drops each session it opens |
| Stop source and token | `util/stop.rs` | flag and channel per source, links per token | `request`, drop, `wait`, `wait_for`, `child` | lost wake-ups, parent and child |
| Node and shards | `runtime/node.rs`, `runtime/shard.rs` | threads, channels, the current node and shard | start, shutdown, join | everyone waiting, a thread that fails |
| Schema compiler: names | `uju-protoc/src/resolve.rs` | namespaces, scopes, uses, sites | collect, intern, resolve | shadowing, uses of what comes later |
| Schema compiler: lowering | `uju-protoc/src/ir.rs`, `ir/lower.rs` | declarations and consts lowered so far, errors | one pass per concern | recursion, keys, links between roles, ends of ranges |
| Schema compiler: layout | `uju-protoc/src/ir/wire.rs` | none | sizes, slots, tags, sequences, ids, fingerprints | widths at their limits, a stable fingerprint |
| Schema compiler: Rust backend | `uju-protoc/src/backend/rust.rs`, `backend/rust/*.rs` | none | what is encoded, decoded and derived per role; encoders, views | two ends generated apart, checks left out |
| Wire runtime | `uju/src/net/wire.rs` | a buffer and a position | writer, checks, collections read in place | counts and boundaries from the other side |
| Lexer, parser, lints, IR dump, command line | `uju-protoc/src` | | | text processing |
| Registrations, macros, bit set, coordinator, RUDP | various | | | straight-line code, unused, or stubs |

How they interact: a shard's tasks call the world directly and share it by
dynamic borrows. The world frees an entity's slot first and then asks each table
to drop its component. A session is reached through a queue (its owner sends)
and a stop token (its owner or the shard stops it). Shards are joined by bounded
channels of frames, but the only message type is still an empty enum, so nothing
is sent yet. Nodes meet over TCP according to the documents; there is no such
code either. The compiler hands each role a module of encoders and views; two
roles meet only through bytes and the fingerprints they compare.

## The modules

| Module | Models | Promises |
|---|---|---|
| `EntityAllocator` | `Allocator` | `SlotsAccounted`, `GenerationNeverOverflows` |
| `Registry` (extends `EntityAllocator`) | `Registry`, `UniversalAllocator` | `MapsAgree`, `NextIsFresh`, `HandlesNeverReturn`, implements `EntityIdentity` |
| `EntityIdentity` | abstract: handles are issued once, names are one-to-one with live entities and minted once | |
| `Cluster` | several registries (by their abstract identities), migration, restart | `OneEntityPerId`, `MapsAgree`; `IdsNeverAlias` fails |
| `SparseArray` | the paged array, as pure operators | `Tight` |
| `SparseSet` (extends `SparseArray`) | one component table | `PositionsAgree`, `PagesTight`, implements `ComponentMap` |
| `ComponentMap` | abstract: one entry per index, visible to its own generation only | |
| `World` (extends `Registry`) | the world's tables and views, and its registry behind a borrow | `GhostsExplained`, `NewEntitiesAreBare`, `ViewsAreStable` |
| `Query` | `Query::new`, `iter`, `Join::next` | `YieldsMatching`, `NoAliasing`, `ShortestDrives`; `DataTermSuffices` fails |
| `Framing` | `drain_frames` and the carry of `recv_loop` | `FramesAreTheStream` |
| `TcpSession` (extends `Framing`) | a session, its two loops, its token | `WireInOrder`, `NothingLostOnClose`, `SessionEnds` |
| `StopTree` | `StopSource`, `StopToken`: a token is the set of the sources it is linked to | |
| `Node` (extends `StopTree`) | a node, its shard threads, their detached loops, a sleeper on a child token | `NoShardOutlivesNode`, `NoStopWithoutCause`, `NodeCompletes`, `ShutdownReachesAll`, `StopInterruptsSleep` |
| `SchemaIR` | the lowered schema: types, constraints, declarations, their references, the order of names | |
| `Names` (extends `SchemaIR`) | collecting declarations, resolving paths | `OrderInsensitive` |
| `Layout` (extends `SchemaIR`) | sizes, slots, unions, sequences, ids, fingerprints | `FixedAgreesWithLayout` |
| `Cycles` | the search for declarations that contain themselves, call by call | `CyclesExactly` |
| `Lower` (extends `Names`, `Layout`, `Cycles`) | the compiler's passes, as a state machine over what may be compiled | `KeysFixedAndFloatFree`, `FixedAgreesWithLayout`, `LinksRoutable`, `ValuesFit`, `OrderInsensitive`; `QualifiedNamesUnique` fails |
| `Generate` (extends `Lower`) | what the Rust backend generates for each role | `RolesMeet`, `FingerprintCovers`, `TraitsFollowContents` |
| `Cells` (extends `Layout`) | the cells a type gets on the wire, and what their checks assume | |
| `Encode` (extends `Cells`) | the writer and the generated encoders | `EncodeOutcome` |
| `View` (extends `Cells`) | the checks, the collections and the generated views | `ValidatorTotal` |
| `Codec` (extends `Encode`, `View`) | a message from its sender's value to its receiver's | `RoundTrip`, `EncodeOutcome`, `ValidatorTotal`, `AcceptedIsCanonical` |
| `RegistryProofs`, `SparseSetProofs`, `WorldProofs`, `ClusterProofs`, `QueryProofs`, `TcpSessionProofs`, `NodeProofs`, `LowerProofs` | | the theorems below |

The `MC*` modules hold the symmetry sets and small values of the runs.
Definitions named after a mistake (`DeallocDouble`, `DrainOnce`, ...) are not
part of any specification: each is the form a plausible bug would give the
definition that follows it, and shows that a property of a run notices it.

### Correspondence, where it is not literal

* Indices that the code counts from 0 count from 1 where they index a sequence
  (slots, positions, pages). `u32::MAX` and `u64::MAX` are `MaxGeneration` and
  `MaxSerial`, `usize::MAX` is `Endless`.
* A call that returns `None` or `false` without changing anything is a disabled
  action (a stuttering step). A call that panics is an action where the panic
  changes what others see: borrow conflicts and the interrupted despawn in
  `World`, the panicking query in `Query`. `promote` past the last serial and
  `alloc` without free indices panic before they have changed anything visible:
  in `Registry` they do nothing, in `World` they end the task.
* `to_universal` is a vector that grows on demand; the model's is total, with
  `NoUid` past the vector's end.
* `World` uses a table as the map it implements and leaves the component values
  out. A task's several views of one table count as one. The tasks share a
  thread, so each call is one step and tasks interleave between calls; a view
  lives until `Release` or until its task panics, and a panic ends only its task
  (the runtime catches it).
* `Query` freezes the tables: `World!ViewsAreStable` is why it may. A table is
  its dense vector; `SparseSet!PositionsAgree` is why a lookup is membership. A
  query's tuple of tuples is the sequence of its terms and the set of the places
  at which its inner tuples end (an outer tuple looks at lengths and handles of
  its elements alone, so deeper nesting adds nothing). What an operator finds
  shortest first is the least of those that are strictly shorter than all before.
* In `TcpSession` each await of the two loops is a place between two steps.
  A write that fails has written any part of its batch; a message cut in half
  counts as not written. `writer.close()` waiting for the other half of the
  stream is what the comment at the end of `recv_loop` says of compio, and is
  external. `Abandon` is the runtime being dropped with the detached tasks in
  it, which happens when a shard's `run` has returned.
* `Cluster` moves an entity the way the test `registry_migrate_round_trip`
  does: promote, despawn, adopt elsewhere. No code sends the message yet; it is
  delivered exactly once, in any order, which is an assumption. A shard restarts at most once in the run.
  `MapsAgree` does not speak of the ids a restarted shard has minted itself: two
  of its entities may then have one id, which is the finding below.
* In `Node` the threads' own steps (pin, build, start, bind, panic) and the
  node's loop interleave freely. The receive loop, the tick and the accept loop
  end by the token alone. A panic may end a thread at any moment while it serves.
  The requesting of a source and the closing of its channel are one step: a
  source never leaves its thread.
* In the compiler's modules an option is a sequence of at most one element, a
  name is a member of `Alphabet` (in text order), a path a sequence of names, an
  error its kind without position and wording. A parsed source is a record with
  the fields the parser fills. What a fingerprint hashes stands for the
  fingerprint: two texts that differ are taken to have different hashes.
* A type is a tree: a function from positions to nodes, `<<1>>` being the item of
  the root and `<<2>>` the value of a map. What the code does by descending into a
  type is a statement about its positions or a recursive function over them, which
  the prover accepts where it does not accept recursive operators. A source's items
  are a sequence in the order the code meets them, each with the place of the item
  it is nested in (`within`, 0 for none); nesting is thus earlier than what is
  nested, and the scopes are filled in the code's order. `Schemas` is a set of
  families of sources, and `SchemasAssumption` says of each what the parser makes
  sure of (`Parsed`): names are names, numbers numbers, types trees. A chain of
  `option`s around a type is kept beside its node.
* A side of a message, with its roles and kinds, is a set where the code has a
  list without repetitions; the kinds become a list, sorted by qualified name, in
  `SortKinds`, as in the code. `Closure` is one definition for the code's several
  walks along references (what a client lists, what a role marks).
* In `Cycles` the recursion of `visit` is a stack, a visit goes into the white
  targets in any order, and the grey ones are reported together at its end. They
  are the same as those the code meets one by one: what lies on the stack below a
  visit is grey as long as the visit lasts. `OrderInsensitive` says in one step
  whether the sources in another order would be accepted; there it uses
  `HasRing`, which `CyclesExactly` justifies.
* A byte has `Bits` bits. All limits follow from it, so with 3 bits a width is
  exceeded at 7, `MAX_SIZE` is 63 and a message has at most 63 bytes; with 8 the
  definitions are the code's. Sizes saturate where the code's do. One limit is out
  of every run's reach: the ids of messages and hub kinds (`TooMany`), which even with
  3 bits takes 64 of them.
* In `Cells`, `Encode` and `View` a string is a sequence of byte values with an
  encoding of one or two bytes per character, a float the word it is stored as
  (in the order of the values, infinity and NaN last), a time a number of ticks
  with several to the microsecond, since the encoder truncates. Bytes are read
  by offset and length as in the code; a slice out of bounds is the verdict
  `panic`. Field names and offsets inside errors are left out.
* A set's or a map's items may be equal on the wire: neither the code nor
  `docs/protocol/wire-format.md` (line 225) asks a view to notice. The Rust
  backend refuses schemas with `uentity` or `uuid` (`rust.rs`, line 530), so
  `Codec` sends none.

## The runs

| Run | Bounds | Why they suffice | Shows |
|---|---|---|---|
| `registry` | 3 slots, generations to 5 (two entities per slot, then retirement), 2 minters, 3 serials from 1 on | slots are recycled, retired and exhausted, the serials run out, foreign and own ids come back | all invariants of allocator and registry, and the refinement |
| `cluster` | 2 shards, 2 live entities each, 2 serials, 1 restart each | an id can leave, return, meet its alias and be refused | one entity per id while its minter lives |
| `cluster_alias` | the same | | a violation, see Findings |
| `sparse_set` | 4 indices in 2 pages of 2, 2 generations, 2 values | every order of insertion and removal, pages freed at the end and before another page, the removed entry last or not | consistency, tightness, the refinement |
| `world` | 2 slots of 2 entities, 2 tables, 2 tasks, one id to mint and to come back | a despawn meets no view, a view on the first or on the second table, of its own task or of another; ghosts meet recycled slots | what is left behind, and that views are stable |
| `query` | 2 components, 7 contents per table (two slots, one of them with two generations), queries of up to 3 terms in groups | every driver, ties, every nesting of `Without`, generations that differ between tables | what is yielded, by which driver |
| `query_without` | the same, 2 terms | | a violation, see Findings |
| `node` | 2 shards, each with its three loops and a sleeper | a shard that fails or panics before, while and after the other starts, a join that waits for the second while the first is over, a stop that races a timer | the node completes and leaves no shard behind, the stop reaches all |
| `lower` | five families of schemas: references, keys and recursion among a struct, a type, a union and a hub kind; endpoints of up to two on each side; enums, bounds and consts about the ends of 3-bit bytes; two sources with nested names and uses; two messages between pairs of roles over a shared key | each family reaches every branch of the pass it is for, with accepted and rejected schemas; two sources are what an order needs | soundness of what is accepted, order, that both ends of a link are generated |
| `nested_names` | structs and namespaces of one name, over two sources | | a violation, see Findings |
| `codec` | 8 messages with every kind of slot, sequence, payload and scalar; buffers of 0, 5, 9, 20, 63 and 70 bytes; every single byte changed, cut or added; any 4 bytes as any of 6 messages | counts and boundaries wider than one byte, sizes at, below and above the limits, values that need and that skip checks | encode and decode are inverse, nothing is read out of bounds, one encoding per value |
| `tcp_session` | 4 messages in batches of 2, 4 bytes of 2 values, headers of 2 bytes | full, short and cut batches, a drain of more than one batch; frames of length 2 and 3 in any chunks; a failed write in either loop, then another | order, gaps, drain, framing, take-down |

Deadlock is not checked where the system may come to rest: when all slots are
retired and the serials used up (`registry`, `cluster`), when a query has ended,
when a session is down, when a node has completed, when a schema is compiled or
a message is read.

Fairness is assumed in `TcpSession` and `Node`. In `Node` it is `WF(NodeStep)`
and `WF(ThreadStep(s))`, since the operating system runs every thread that can
go on, and `WF(WakeByStop(s))`, since a runtime polls a task whose channel has
closed; signals, panics and timers may never come. In `TcpSession` it is
`WF(SendLoop)` (the runtime polls a
task that can go on, and a write ends, well or not, once the peer reads or the
connection breaks) and `WF(ReceiveStops)` (a requested stop stays visible to the
receive loop's `select!`, whose branches are polled in random order).
What `SessionEnds` says of a session that nobody stops rests on the first alone: that
the reader has ended is its premise, since no fairness makes a silent peer close its
end. The drain
loop ends because the model's owner sends finitely many messages; an owner that
keeps sending faster than the peer reads could keep a closing session draining.

## Findings

* **Serials restart from 0** (`cluster_alias`). `World::new` passes 0 to
  `UniversalAllocator::new`, whose documentation requires a start above every
  serial minted before. The trace: an entity is promoted and leaves, its shard
  restarts, and promotes a new entity to the same id. The code has a todo there.
* **A leading `Without` panics** (`query_without`). A tuple's `entities()` asks
  its first term for its entities before it compares lengths, so a query such as
  `(Without<A>, B)`, or one with a nested tuple that starts with `Without` and
  is tried, panics although it has a data term. The comments in `query.rs` say
  this is unreachable.
* **Qualified names are not unique** (`nested_names`). Ids, fingerprints and the
  order of declarations come from qualified names, which `ir/wire.rs` takes to be
  unique. Names are joined with dots whether a segment is a namespace or a
  declaration, so an enum `X` nested in struct `b` of namespace `a` and an `X` of
  namespace `a.b` are both `a.b.X`. Neither `lower` nor `Wire::new`, which assigns
  the ids, rejects the schema. The Rust backend refuses it later and for another
  reason, since the module of `b`'s nested types meets that of namespace `a.b`
  (`check_names`, `backend/rust.rs`, line 219); the IR dump does not.

Not counted as findings, since nothing in the repository promises otherwise, but
visible in the models: after a failed write the send loop still tries to write
the later messages (`WireInOrder` says how much the peer can miss in front of
them); after a write error without a stop the writer waits for the reader while the
queue keeps accepting messages (`SessionEnds` promises an end only once the
reader has ended); a message sent after the drain's last look at the queue is lost
(`NothingLostOnClose` covers all before); and a despawn that panics leaves components
of a dead entity that no second despawn removes. Two steps of a session stand for
`todo`s in the code and no property promises anything of them: the shard that goes
away in the middle of a drain (`Abandon`), and the listener that drops each session
it has opened (`DropSession`).

## The proofs

All theorems hold for every value of the constants that meets the named
assumptions of the modules they are about; nothing else is assumed. Each proof
finds an inductive invariant (`IInv`, `RegistryInv`, `SearchInv`, `CompilerInv`) and shows `Init => IInv` and
`IInv /\ [Next]_vars => IInv'`, one lemma per operation where an operation does
more than one thing.

**Registry** (`RegistryProofs`, whose first half is about the allocator). For every number of
slots, every odd last generation above 2, every set of minters and range of
serials: `RegistryInv` joins `RegistryTypeOK`, `SlotsAccounted`, `GenerationNeverOverflows`,
`MapsAgree` and `NextIsFresh`. None is inductive alone: popping a free slot needs
that free slots are distinct, dead and not retired; advancing a generation needs
that it is below the last; minting needs that the next id is unknown to the
reverse map; adopting needs that a dead slot has no id left. `DeadHandlesStayDead`
is an action property: a step gives at most one slot a larger generation.
`RegistryImplementsIdentity` maps every step to a step of `EntityIdentity` or to
a stutter.

**Component table** (`SparseSetProofs`). For every page length, index range and
set of components. The first half says what `Insert` and `Remove` of the paged
array do to `Get` at every index and to the counts (`InsertEffect`,
`RemoveEffect`, `TrimmedEffect`): a count is the cardinality of what a page
holds, so a page that is given back at count 1 held nothing but the removed
entry; the slots popped at the end are those behind the largest one that has a
page. The second half uses only that. `IInv` is
`TypeOK /\ PositionsAgree /\ PagesTight`: the counts are needed because a page
given back too early would lose positions. `TableImplementsMap` is the
refinement of `ComponentMap`; the hard step is the removal whose last entry is
moved, or is the removed entry itself.

**World** (`WorldProofs`, on the registry's lemmas). For every number of tables,
tasks and slots. `GhostsExplained` needs that an entry's handle stands under its
own index and was once issued (`EntriesIssued`): a handle that is alive now but
was never issued cannot be in a table, which is also why `NewEntitiesAreBare`
holds. `ViewsAreStable` needs that an exclusive borrow excludes all others
(`BorrowsExclude`). `WorldImplementsRegistry`: every step of a world, the
interrupted despawn included, is a step of its registry or leaves it alone, so the
registry's theorems are theorems about every world.

**Cluster** (`ClusterProofs`). For every set of shards, handles and serials. An
id whose minter has not restarted is in one of three places: nowhere (not minted,
or gone), settled with one entity on one shard, or under way in one message
(`Nowhere`, `SettledAt`, `UnderwayTo`); every operation moves an id between two of
these or leaves it. `OneEntityPerId`, which counts, follows from the place;
`MapsAgree` needs that dead entities carry no id.

**Query** (`QueryProofs`). For any number of components, any tables whose
handles are distinct, and any terms in any groups. `IInv` says what has been
probed: a prefix of the driver's handles, and each term for exactly those handles
of it that all terms before match. `YieldsMatching` is what remains when the
prefix is the whole driver, and needs that the driver holds every entity that
matches; `NoAliasing` needs that handles are distinct in the driver and that no
two terms borrow one component mutably, which is what building the query checked;
`ShortestDrives` is a fact about taking the first of the shortest twice, over
groups and within the group taken. `PanicsOnlyOnLeadingWithout` is the other side
of the finding above: a query panics exactly when a group it asks for entities
starts with a `Without`.

**TCP session** (`TcpSessionProofs`). For every batch size and number of messages.
Wire, batch and queue stand in one line that misses numbers in at most one place, at
most a batch, and none until a write fails (`OneGap`). A failed write in the main loop
opens the gap and ends that loop (`FailureEndsLoop`), so that nothing but the drain
runs behind it; a second failure ends the drain, and nothing is written behind that.
`WireInOrder` speaks of the wire alone and is a consequence. `NothingLostOnClose` is
one too: where nothing is missing and batch and queue are empty, the wire is all that
was sent.

The second half of the module is about framing, for every header size, set of
byte values and chunks. `Drained` and the library's `FlattenSeq` are recursive
functions; that each exists and is the only one that recurs so is proved by the
least counterexample (`LeastNumber`, from the library's well-foundedness of `<`),
which stands for induction throughout. Draining returns frames that flatten to
the bytes consumed and stops where no frame is complete (`DrainedWell`); with it
`ReceiveInv` shows that a chunk keeps `FramesAreTheStream`, for which flattening
must distribute over concatenation (`FlattenConcat`). `OneFraming` says that some
bytes can be cut in one way only into frames and a rest without a complete frame:
the first frame in which two cuts differ would start at one position and have one
length. Hence `ChunksNeverMatter`: a session's frames and carry are those of all
its bytes received at once.

**Node** (`NodeProofs`). For every number of shards. Joining happens in order, and
what is joined is over and stays over, because only threads that are not over
take steps and none is started twice (`Progress`).

**Recursive declarations** (`LowerProofs`, its first part). For every schema, whatever its
declarations refer to. A report stands for a ring, because the grey declarations
are those on the stack and the stack is a path of references: the part of it from
the declaration met again closes one. Conversely, as long as there is no report,
what is black leads to black declarations only and holds no ring
(`BlackIsClean`): a visit that ends adds a declaration that refers to black ones
alone, and a ring with it would be one without it. This is an induction along the
search and needs no order among the declarations.

**Schema compiler** (`LowerProofs`). For every set of sources the parser can
make, every alphabet of names, every number of bits to a byte. `CompilerInv`
says what is known when a pass begins: the table is what resolving makes of the
sources, the declarations lowered so far are what lowering makes of the table, and
as long as nothing is reported none of them had an error (`CleanDefs`). Four kinds
of lemma carry it to the properties:

* the recursions of `Names` and of `LowerEnum` are functions of a counter, which
  exist by the least counterexample; over them `TableResolved` shows that a
  declaration of the table is an item of a source and is nested in an earlier one,
  and `EnumFits` that values counted on from one another stay distinct and in range;
* `Closure` is the least closed set around its start (`ClosureIsLeast`): its
  recursion ends because every step that changes a set leaves fewer declarations
  out. Every walk of the compiler and the backend is such a set;
* `Before` is a strict total order on names, so `Sorted` lists what it sorts, each
  once (`SortedLists`), whatever the order it is given in;
* a lowered type has the shape of the one that was written, and names only what is
  declared and is no message or hub kind (`LoweredRefs`).

`SearchIsSearch` is a refinement: while the compiler searches, its variables of
`Cycles` behave as `SearchSpec` says, so `CyclesAlwaysExact` is a theorem about the
compiler (`CompilerFindsCycles`). `LinksAlwaysRoutable` needs that a side without
errors that a hub receives on names exactly one kind. `RolesAlwaysMeet` and
`FingerprintAlwaysCovers` compare closures that the code computes apart, by showing
that one is closed under the references of the other. `ValuesAlwaysFit` needs that
a width that `Int::of` takes is enough for the difference of the bounds, and that
bounds of the two's complement range and of the unsigned one are what a byte of any
number of bits gives.

`FixedAlwaysAgrees` is about two recursions over the declarations of an accepted
schema, `DefSizes` and that of `IsFixed`. `CheckedInv` says that they run over
references without a ring, which is what the search reports, and that `sizes` is the
first of them. Where there is no ring, what holds of a declaration as soon as it
holds of all it refers to holds of all (`AlongReferences`: declarations that were
left out would each refer to another one left out, which makes a ring). This gives
that both recursions have a solution (`DefSizesExist`, `FixExists`) and that the
solutions agree on everything that is no message (`FixIsFixed`). The same induction
goes down the parts of one type, whose positions never have a ring either
(`TreeEnds`): a part has exactly one size (`SizesExist`, `SizesUnique`), and a type
is of a fixed size when each node is and each declaration it names is
(`TypeIsFixed`). Where they differ in form is an object: the layout sorts its fields
into bits and into fixed, optional and variable ones, and `ObjectIsFixed` says that
the last two kinds are missing exactly when every field that is no bool is of a fixed
size and not optional.

`KeysAlwaysFixedAndFloatFree` is about the search of `check_key`, which walks what was
written and passes over what it has visited, also for an earlier field. `Pure` is the
largest set of declarations that write no float and lead to none that does; to say of
a key that it is float-free is to say that what it refers to is pure. The search is
right in a sense that can be carried along (`SearchesWell`): as long as all that was
visited is pure, of the declarations known so far, a search that finds no float leaves
only pure ones behind, and the one it began with is among them. The declaration under
search is visited too and not known to be pure, but with no ring nothing below it
leads back to it, so `AlongReferences` gives it of every declaration of a fixed size.
The restriction is needed: the search does not go into unions and collections, and
that a key is of a fixed size, which is checked apart and on what was lowered, is why
it need not (`AcceptedFixed`). `WrittenAs` ties the two forms of a type together.

`TraitsAlwaysFollowContents` is about a walk that goes round until nothing changes. A
round sets the traits of one declaration after another and reads those before it
already new; its recursion has a solution (`RoundExists`). Traits a round leaves alone
are settled, and there is exactly one way to settle where there is no ring
(`SettledExist`, `SettledUnique`). Each round settles at least one declaration more
than were settled before it (`RoundAdvances`), so the rounds end, and with those
traits wherever they begin (`RoundsSettle`): that the walk begins by assuming every
trait makes no difference to what it finds. Of equality, hashing and copying, a part
has a trait when its node keeps it and all it is made of has it (`PartKeeps`), and
this goes down the parts of a type, to declarations, and along references to all that
is stored in it (`TypeKeeps`, `DefKeeps`, `StoredKeep`). `Default`, which a collection
or an optional field has whatever it holds, is no such trait. That keys can be
searched by follows from `KeysAlwaysFixedAndFloatFree`.

Type correctness is proved of all but `Query`, which chooses its tables and terms
once and for all; the invariant is a run's property in `registry` alone. Every
safety property and both refinements of these state machines are proved, and of the
compiler those named above.

Only model-checked:

* liveness (`SessionEnds`, `NodeCompletes`, `ShutdownReachesAll`,
  `StopInterruptsSleep`), which is out of the prover's reach;
* `OrderInsensitive`, which compares what the compiler makes of two different lists of
  sources: a proof would have to show of every operator, from `Resolve` to the
  fingerprints, that it commutes with renumbering the declarations;
* the codec: a value on the wire is read by operators that recur over its type
  and its bytes, which the prover does not accept in a module it proves about.

## The plan

The ECS core, the session, stopping, the node, the compiler from names to
generated code, and the wire runtime are modelled; the eight state machines above
have their proofs. What is left, in order of what it would add:

1. `World`'s uniques: one cell per type, with the same borrow rules as a table.
2. The backend's name collisions, dispatch enums and relay tables; the link and
   hub traits of the wire runtime that they implement.
3. The calendar arithmetic of the lexer as operators against a day count.
4. The bit set, once something uses it; the messages between shards, once
   `enum Message` has one, under `Cluster`.

## Not modelled

* Registrations and the derive macros: a loop at start-up, and generated code
  without later state. Built-in components are data.
* The bit set: no other module uses it yet. The uniques of a world: see the plan.
* The transport facade forwards to the TCP session and its RUDP side is
  `todo!()`; the listener is modelled only in what it does to a session.
* The compiler's lexer and parser (text, calendar arithmetic), the generated text
  itself with the names it has to keep apart, dispatch enums and relay tables,
  the IR dump, lints, diagnostics and the command line.
* The coordinator (an empty `main`) and the cluster topology that exists in the
  documents only.
* The overflow of the sparse array's 32-bit positions, which takes 2^32 - 1
  components of one type.
