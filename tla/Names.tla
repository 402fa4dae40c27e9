--------------------------------- MODULE Names ---------------------------------
(***************************************************************************)
(* Collecting and resolving names over parsed sources                      *)
(* (uju-protoc/src/resolve.rs).  A source is a record [ns, uses, items];   *)
(* namespaces and paths are sequences of names.  An item is a record with  *)
(* a tag, a name and the item it is nested in: structs, messages and hubs  *)
(* hold items, which follow them; within is the place of that item, 0 when *)
(* there is none.                                                          *)
(*                                                                         *)
(* The table holds a site per type and per const, in the order they are    *)
(* met, the namespaces with their scopes, the uses of each source, and the *)
(* errors found.  A scope is a function from names to symbols.             *)
(***************************************************************************)
EXTENDS SchemaIR

(* A Symbol: a type or a const. *)
TypeSym(id) == [sort |-> "type", id |-> id]
ConstSym(id) == [sort |-> "const", id |-> id]

EmptyTable ==
  [types |-> <<>>, consts |-> <<>>, nss |-> <<>>, sources |-> <<>>, errors |-> {}]

(* find_namespace: 0 when there is none of that name. *)
FindNamespace(table, name) ==
  LET found == {n \in DOMAIN table.nss : table.nss[n].name = name}
  IN IF found = {} THEN 0 ELSE Min(found)

(* intern_namespace *)
Intern(table, name) ==
  IF FindNamespace(table, name) # 0 THEN table
  ELSE [table EXCEPT !.nss = Append(@, [name |-> name, scope |-> <<>>])]

(* declare: the later of two declarations of one name takes the scope. *)
Declare(table, ns, owner, name, symbol) ==
  LET old == IF owner = 0 THEN table.nss[ns].scope ELSE table.types[owner].scope
      new == (name :> symbol) @@ old
      with == IF owner = 0 THEN [table EXCEPT !.nss[ns].scope = new]
              ELSE [table EXCEPT !.types[owner].scope = new]
  IN IF name \in DOMAIN old
     THEN [with EXCEPT !.errors = @ \cup {"declared more than once"}]
     ELSE with

(* collect: item j of a source whose first type is the one after base; a     *)
(* body's items are collected right behind it.                               *)
Collect(table, source, ns, items, base, j) ==
  LET item == items[j]
      parent == IF item.within = 0 THEN 0
                ELSE base + Cardinality({i \in 1..item.within : items[i].tag # "const"})
      site == [source |-> source, ns |-> ns, parent |-> parent, item |-> item, scope |-> <<>>]
  IN IF item.tag = "const"
     THEN Declare([table EXCEPT !.consts = Append(@, site)],
                  ns, parent, item.name, ConstSym(Len(table.consts) + 1))
     ELSE Declare([table EXCEPT !.types = Append(@, site)],
                  ns, parent, item.name, TypeSym(Len(table.types) + 1))

(* The first loop of Resolver::new. *)
CollectSource(table, k, source) ==
  LET with == Intern(table, source.ns)
      ns == FindNamespace(with, source.ns)
      opened == [with EXCEPT !.sources = Append(@, [ns |-> ns, uses |-> <<>>])]
      base == Len(table.types)
      collected[j \in 0..Len(source.items)] ==
        IF j = 0 THEN opened ELSE Collect(collected[j - 1], k, ns, source.items, base, j)
  IN collected[Len(source.items)]

(* The second loop: a use of a namespace, once. *)
AddUse(table, k, use) ==
  LET ns == FindNamespace(table, use)
  IN CASE ns = 0 -> [table EXCEPT !.errors = @ \cup {"unknown namespace"}]
       [] ns # 0 /\ ns \in Range(table.sources[k].uses) -> table
       [] OTHER -> [table EXCEPT !.sources[k].uses = Append(@, ns)]

AddUses(table, k, uses) ==
  LET added[j \in 0..Len(uses)] ==
        IF j = 0 THEN table ELSE AddUse(added[j - 1], k, uses[j])
  IN added[Len(uses)]

(* Resolver::new that resolves the uses of a source as it comes. *)
ResolverOfEach(sources) ==
  LET resolved[k \in 0..Len(sources)] ==
        IF k = 0 THEN EmptyTable
        ELSE AddUses(CollectSource(resolved[k - 1], k, sources[k]), k, sources[k].uses)
  IN resolved[Len(sources)]

(* Resolver::new: uses are resolved once all sources have been collected. *)
ResolverOf(sources) ==
  LET collected[k \in 0..Len(sources)] ==
        IF k = 0 THEN EmptyTable ELSE CollectSource(collected[k - 1], k, sources[k])
      resolved[k \in 0..Len(sources)] ==
        IF k = 0 THEN collected[Len(sources)]
        ELSE AddUses(resolved[k - 1], k, sources[k].uses)
  IN resolved[Len(sources)]

-----------------------------------------------------------------------------
(* What a scope calls a name: a set of at most one symbol. *)
Lookup(scope, name) == {scope[n] : n \in DOMAIN scope \cap {name}}

(* walk: what the segments of a path from `from` on lead to; nothing when   *)
(* one leads nowhere or into a const.                                       *)
Walk(table, path, symbol, from) ==
  LET reached[n \in Nat] ==
        IF n < from THEN {symbol}
        ELSE UNION {Lookup(table.types[sym.id].scope, path[n]) :
                      sym \in {s \in reached[n - 1] : s.sort = "type"}}
  IN reached[Len(path)]

(* The enclosing declarations of a scope, innermost first, then 0. *)
Enclosing(table, scope) ==
  LET from[id \in 0..Len(table.types)] ==
        IF id = 0 THEN <<0>> ELSE <<id>> \o from[table.types[id].parent]
  IN from[scope]

ScopeOf(table, source, cursor) ==
  IF cursor = 0 THEN table.nss[table.sources[source].ns].scope
  ELSE table.types[cursor].scope

(* The visible namespaces that a path may be qualified by. *)
Qualifiers(table, source, path) ==
  {n \in {table.sources[source].ns} \cup Range(table.sources[source].uses) :
     LET name == table.nss[n].name IN
     Len(path) > Len(name) /\ SubSeq(path, 1, Len(name)) = name}

(* resolve_symbol: first the lexical scopes, innermost first; then a path   *)
(* qualified by a visible namespace, the longest one; then a name from the  *)
(* one used namespace that has it.  Whatever comes first decides.           *)
Lexical(table, source, scope, path) ==
  {k \in DOMAIN Enclosing(table, scope) :
     path[1] \in DOMAIN ScopeOf(table, source, Enclosing(table, scope)[k])}

Users(table, source, name) ==
  {n \in Range(table.sources[source].uses) : name \in DOMAIN table.nss[n].scope}

ResolveSymbol(table, source, scope, path) ==
  LET from(found, at) == UNION {Walk(table, path, symbol, at + 1) :
                                  symbol \in Lookup(found, path[at])}
      lexical == Lexical(table, source, scope, path)
      qualified == Qualifiers(table, source, path)
      used == Users(table, source, path[1])
  IN CASE lexical # {} ->
            from(ScopeOf(table, source, Enclosing(table, scope)[Min(lexical)]), 1)
       [] lexical = {} /\ qualified # {} ->
            UNION {from(table.nss[n].scope, Len(table.nss[n].name) + 1) :
                     n \in {m \in qualified : \A o \in qualified :
                              Len(table.nss[o].name) <= Len(table.nss[m].name)}}
       [] OTHER -> UNION {from(table.nss[n].scope, 1) :
                            n \in {m \in used : used = {m}}}

(* resolve: the type a path names, in a set; nothing for a const. *)
Resolve(table, source, scope, path) ==
  {id \in DOMAIN table.types : ResolveSymbol(table, source, scope, path) = {TypeSym(id)}}
=============================================================================
