-------------------------------- MODULE MCLower --------------------------------
(***************************************************************************)
(* Small sources for Lower, one family for each of its questions.          *)
(***************************************************************************)
EXTENDS Generate

T(k) == Leaf([k |-> k, cons |-> <<>>, options |-> <<>>])
N(path) == Leaf([k |-> "named", path |-> path, cons |-> <<>>, options |-> <<>>])
Of(k, item) == Made([k |-> k, cons |-> <<>>, options |-> <<>>], <<item>>)
Array(item) == Made([k |-> "array", len |-> 2, cons |-> <<>>, options |-> <<>>], <<item>>)
Map(key, value) == Made([k |-> "map", cons |-> <<>>, options |-> <<>>], <<key, value>>)
Constrained(k, cons) == Leaf([k |-> k, cons |-> cons, options |-> <<>>])
Option(ty) == [ty EXCEPT ![<<>>].options = Append(@, <<>>)]
U8 == T("u8")
S == N(<<"S">>)

F(name, ty) == [name |-> name, ty |-> ty]
Struct(name, fields) ==
  [tag |-> "struct", name |-> name, attrs |-> <<>>, within |-> 0, fields |-> fields]
Message(name, from, to, both, fields) ==
  [tag |-> "message", name |-> name, attrs |-> <<>>, within |-> 0, fields |-> fields,
   from |-> from, to |-> to, both |-> both]
Hub(name, key) ==
  [tag |-> "hub", name |-> name, attrs |-> <<>>, within |-> 0, fields |-> <<>>, key |-> key]
TypeItem(name, target) ==
  [tag |-> "type", name |-> name, attrs |-> <<>>, within |-> 0, target |-> target]
Enum(name, repr, variants) ==
  [tag |-> "enum", name |-> name, attrs |-> <<>>, within |-> 0, repr |-> repr, variants |-> variants]
Union(name, data) ==
  [tag |-> "union", name |-> name, attrs |-> <<>>, within |-> 0,
   variants |-> <<[name |-> "V", data |-> data], [name |-> "W", data |-> [form |-> "unit"]]>>]
Const(name, ty, lit, value) ==
  [tag |-> "const", name |-> name, attrs |-> <<>>, within |-> 0, ty |-> ty,
   value |-> [lit |-> lit, value |-> value]]

Source(ns, uses, items) == [ns |-> ns, uses |-> uses, items |-> items]
Alone(items) == <<Source(<<"a">>, <<>>, items)>>

(* A first item that holds others, then the rest. *)
Holding(item, inner, others) ==
  <<item>> \o [k \in DOMAIN inner |-> [inner[k] EXCEPT !.within = 1]] \o others

MCAlphabet == <<"C", "E", "H", "K", "L", "M", "S", "T", "U", "V", "W", "X", "a", "b", "x", "y">>
MCFloatLimit == [f32 |-> 5, f64 |-> 20]

-----------------------------------------------------------------------------
(* References, keys and recursion among two structs, a type and a union. *)
Leaves == {U8, T("f32"), S, N(<<"X">>)}
Fields ==
  Leaves \cup {Of("vec", ty) : ty \in {S, N(<<"T">>)}}
  \cup {Of("set", ty) : ty \in Leaves \cup {N(<<"T">>), Array(T("f32")), T("string")}}
  \cup {Map(ty, N(<<"U">>)) : ty \in {U8, N(<<"T">>), N(<<"X">>)}}
  \cup {Option(ty) : ty \in {T("bool"), U8, N(<<"X">>), Of("vec", U8)}}
  \cup {Array(ty) : ty \in {N(<<"T">>), T("bool"), Array(U8), Option(U8)}}
  \cup {N(<<"T">>), N(<<"U">>), N(<<"M">>)}

TypeSchemas ==
  {Alone(<<Struct("S", <<F("x", s)>>), Struct("T", <<F("x", t), F("y", U8)>>),
           TypeItem("X", x), Union("U", [form |-> "type", ty |-> u]), Hub("H", h),
           Message("M", <<[role |-> "client", kind |-> None]>>,
                   <<[role |-> "sim", kind |-> None]>>, FALSE, <<F("x", S)>>)>>)
   : s \in Fields, t \in {U8, T("f32"), T("string"), S, N(<<"X">>), N(<<"U">>),
                          Option(T("bool")), Option(N(<<"X">>))},
     x \in {T("f32"), T("bool"), N(<<"X">>)}, u \in {U8, S},
     h \in {U8, N(<<"T">>)}}

(* Endpoints. *)
Endpoints ==
  {[role |-> role, kind |-> None] : role \in {"client", "edge", "sim", "hub"}}
  \cup {[role |-> "hub", kind |-> Some(<<kind>>)] : kind \in {"K", "L"}}
Sides == BoundedSeq(Endpoints, 2) \ {<<>>}

LinkSchemas ==
  {Alone(<<Hub("L", U8), Hub("K", U8), Message("M", from, to, both, <<>>)>>)
   : from \in Sides, to \in Sides, both \in BOOLEAN}

(* Enums, bounds and consts, about the ends of their ranges. *)
Reprs == {"u8", "i8", "u16"}
Variants ==
  {[k \in DOMAIN vs |-> [name |-> IF k = 3 THEN "V" ELSE <<"V", "W">>[k], value |-> vs[k]]]
   : vs \in BoundedSeq({None} \cup {Some(v) : v \in {-1, 0, 1, MaxOf(1) - 1, MaxOf(1), MaxOf(1) + 1}}, 2)}

Number(v) == Some([lit |-> "int", value |-> v])
WrittenCons ==
  {[name |-> name, value |-> Number(v)] : name \in {"min", "max"}, v \in {-4, 2, 5, MaxOf(1) + 1}}
  \cup {[name |-> name, value |-> Number(v)] : name \in {"min_length", "max_length"},
                                                v \in {-1, 1, MaxSize, MaxSize + 1}}
  \cup {[name |-> "nan", value |-> None], [name |-> "min", value |-> None],
        [name |-> "max", value |-> Some([lit |-> "float", value |-> 2])]}

ValueSchemas ==
  {Alone(<<Enum("E", repr, vs)>>) : repr \in Reprs, vs \in Variants}
  \cup {Alone(<<Struct("S", <<F("x", Constrained(k, cons))>>)>>)
        : k \in {"u8", "i8", "i16", "f32", "string", "bool"}, cons \in BoundedSeq(WrittenCons, 2)}
  \cup {Alone(<<Const("C", T(k), lit, v)>>)
        : k \in {"u8", "f32", "duration", "uuid"}, lit \in {"int", "duration"},
          v \in {-1, 0, 5, 6, MaxOf(1), MaxOf(1) + 1}}
  \cup {Alone(<<Const("C", ty, "int", 1)>>)
        : ty \in {Option(U8), Option(T("string")), Constrained("u8", <<[name |-> "nan", value |-> None]>>)}}

One == <<[name |-> "V", value |-> None]>>

(* Two sources, their names and uses. *)
Paths == {<<"X">>, <<"S", "X">>, <<"T">>, <<"a", "b", "T">>, <<"b", "X">>, <<"a", "X">>}

NameSchemas ==
  {<<Source(<<"a">>, u1, Holding(Struct("S", <<F("x", N(p))>>), inner,
       <<Enum("E", "u8", One), Message("M", <<[role |-> "client", kind |-> None]>>,
                                       <<[role |-> "sim", kind |-> None]>>, FALSE,
                                       <<F("x", S)>>)>>)),
     Source(n2, u2, <<Struct("T", <<F("y", N(q))>>), Enum("X", "u16", One),
                      Const(c, U8, "int", 1),
                      Message("L", <<[role |-> "client", kind |-> None]>>,
                              <<[role |-> "sim", kind |-> None]>>, TRUE, <<>>)>>)>>
   : u1 \in {<<>>, <<<<"a", "b">>>>}, u2 \in {<<>>, <<<<"a">>>>},
     n2 \in {<<"a">>, <<"a", "b">>}, p \in Paths, q \in Paths,
     inner \in {<<>>, <<Enum("X", "u8", One)>>}, c \in {"C", "E"}}

(* A declaration nested in one that is named like a namespace. *)
NestedSchemas ==
  {<<Source(<<"a">>, u, Holding(Struct("b", <<F("x", T(k))>>), <<Enum("X", "u8", One)>>, <<>>)),
     Source(n, <<>>, <<Enum("X", r, One)>>)>>
   : u \in {<<>>, <<<<"b">>>>}, k \in {"u8", "f32"}, n \in {<<"a", "b">>, <<"b">>}, r \in Reprs}

(* Roles: a key, a struct that holds it or a float, a hub kind and the       *)
(* messages between three roles, a client end among them or not.            *)
End(role) == <<[role |-> role, kind |-> IF role = "hub" THEN Some(<<"H">>) ELSE None]>>
RolePairs == {<<"client", "sim">>, <<"client", "hub">>, <<"sim", "client">>, <<"hub", "client">>,
              <<"sim", "hub">>, <<"hub", "hub">>, <<"sim", "sim">>, <<"edge", "sim">>}
RoleFields == {T("f32"), N(<<"K">>), Of("vec", N(<<"T">>)), Of("set", N(<<"K">>)),
          Map(N(<<"K">>), N(<<"U">>)), Option(N(<<"X">>)), T("uuid")}

RoleSchemas ==
  {Alone(<<Struct("S", <<F("x", s), F("y", N(<<"U">>))>>),
           Union("U", [form |-> "type", ty |-> u]),
           TypeItem("X", U8), Struct("K", <<F("x", N(<<"X">>))>>),
           Struct("T", <<F("x", t)>>), Hub("H", h),
           Message("M", End(p[1]), End(p[2]), FALSE, <<F("x", S)>>),
           Message("L", End(q[1]), End(q[2]), FALSE, <<F("x", m)>>)>>)
   : s \in RoleFields, u \in {T("string"), N(<<"K">>)}, t \in {T("f32"), N(<<"X">>)},
     h \in {N(<<"K">>), N(<<"X">>)}, p \in RolePairs, q \in RolePairs \ {<<"sim", "hub">>, <<"hub", "hub">>, <<"sim", "sim">>},
     m \in {U8, N(<<"T">>)}}

MCNested == {NestedSchemas}

MCSchemas == {TypeSchemas, LinkSchemas, ValueSchemas, NameSchemas, RoleSchemas}
=============================================================================
