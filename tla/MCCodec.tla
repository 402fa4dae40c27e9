--------------------------------- MODULE MCCodec ---------------------------------
(* A schema with each kind of slot, sequence, union payload and scalar, and  *)
(* bytes of three bits: a message has at most 63 bytes, and a count, a       *)
(* boundary or a prefix that is wider than 7 takes two.                      *)
EXTENDS Codec

CONSTANT Defs   \* The declarations of the schema.

Identifiers == <<"a">>

T(k) == Plain(k)
Bounded(k, least, most) ==
  Leaf([k |-> k, cons |-> [NoCons EXCEPT !.min = Some(least), !.max = Some(most)]])
Long(k, least, most) ==
  Leaf([k |-> k, cons |-> [NoCons EXCEPT !.minLen = least, !.maxLen = most]])
UpTo(most) == [NoCons EXCEPT !.maxLen = most]
Vec(item, most) == Made([k |-> "vec", cons |-> UpTo(most)], <<item>>)
MapOf(key, value, most) == Made([k |-> "map", cons |-> UpTo(most)], <<key, value>>)
ArrayOf(item, n) == Made([k |-> "array", len |-> n, cons |-> NoCons], <<item>>)

F(ty) == [name |-> "a", ty |-> ty, optional |-> FALSE]
O(ty) == [name |-> "a", ty |-> ty, optional |-> TRUE]

Decl(tag) == [tag |-> tag, ns |-> 1, parent |-> 0, name |-> "a"]
StructDef(fields) == [fields |-> fields] @@ Decl("struct")
MessageDef(fields) == [fields |-> fields, links |-> <<>>] @@ Decl("message")
Unit == [form |-> "unit"]
OfType(ty) == [form |-> "type", ty |-> ty]
OfFields(fields) == [form |-> "fields", fields |-> fields]

(* The declarations: an enum, a type, structs of a fixed size, of no size   *)
(* and of a varying one, a union, and the messages.                         *)
Kind == 1
Level == 2
Point == 3
Empty == 4
Line == 5
Choice == 6
Flags == 15

Schema ==
  <<[repr |-> "u8", variants |-> <<[name |-> "a", value |-> 1], [name |-> "b", value |-> 6]>>]
      @@ Decl("enum"),
    [target |-> Bounded("i16", -3, 3)] @@ Decl("type"),
    StructDef(<<F(T("bool")), F(Bounded("i8", -2, 3)), F(Named(Kind))>>),
    StructDef(<<>>),
    StructDef(<<O(Named(Level)), F(Long("string", None, Some(2)))>>),
    [variants |-> <<[name |-> "a", data |-> Unit], [name |-> "b", data |-> OfType(T("u8"))],
                    [name |-> "c", data |-> OfType(Long("string", None, Some(2)))],
                    [name |-> "d", data |-> OfFields(<<O(T("u8")), O(T("bool"))>>)],
                    [name |-> "e", data |-> OfFields(<<F(T("u8"))>>)]>>] @@ Decl("union"),
    \* 7: options of every slot, and two slots in the var section.
    MessageDef(<<O(T("bool")), O(Named(Level)), O(Long("string", None, Some(2))),
                 F(Vec(T("u8"), Some(1)))>>),
    \* 8: wide boundaries, prefixed items, and a map.
    MessageDef(<<F(Vec(Long("bytes", None, Some(2)), Some(2))),
                 F(MapOf(T("u8"), Named(Choice), Some(2)))>>),
    \* 9: a union, and items of no size.
    MessageDef(<<F(Named(Choice)), F(Vec(Named(Empty), None))>>),
    \* 10: scalars.
    MessageDef(<<F(Leaf([k |-> "f32", cons |-> [NoCons EXCEPT !.infinite = TRUE, !.min = Some(5)]])),
                 O(T("timestamp")), F(T("entity"))>>),
    \* 11: arrays and fixed lengths.
    MessageDef(<<F(ArrayOf(Named(Point), 2)), F(Long("string", Some(2), Some(2))),
                 F(Long("bytes", Some(1), Some(1)))>>),
    \* 12: only the size of a message bounds it.
    MessageDef(<<F(T("bytes"))>>),
    \* 13: a struct of a varying size, and packed items and entries.
    MessageDef(<<O(Named(Line)), F(Vec(Named(Point), None)),
                 F(MapOf(T("u8"), T("bool"), Some(2)))>>),
    \* 14: what needs few checks or none.
    MessageDef(<<F(ArrayOf(Named(Flags), 1)), O(T("bytes")), F(Vec(T("u8"), None))>>),
    StructDef(<<F(T("bool")), O(T("bool"))>>)>>

Compiled == MessageCells(Defs)

Opt(S) == {None} \cup {Some(x) : x \in S}
Set(S) == {Some(x) : x \in S}

Texts == {<<>>, <<1>>, <<6, 4>>, <<1, 2, 3>>}
Chosen ==
  {[tag |-> 1, data |-> <<>>], [tag |-> 2, data |-> 7], [tag |-> 3, data |-> <<3>>],
   [tag |-> 4, data |-> <<None, Some(TRUE)>>], [tag |-> 4, data |-> <<Some(5), None>>],
   [tag |-> 5, data |-> <<Some(5)>>]}
Points == {<<Some(TRUE), Some(-2), Some(6)>>, <<Some(FALSE), Some(4), Some(1)>>}
Zeros(n) == [i \in 1..n |-> 0]

Values ==
  [m \in 7..14 |->
     CASE m = 7 -> Opt(BOOLEAN) \X Opt({-3, 4}) \X Opt(Texts) \X Set({<<>>, <<7>>, <<0, 0>>})
       [] m = 8 -> Set({<<>>, <<<<1>>>>, <<<<>>, <<5, 6>>>>, <<<<1, 2>>, <<>>>>})
                   \X Set({<<>>} \cup {<<<<2, c>>, <<3, d>>>> : c \in Chosen, d \in Chosen})
       [] m = 9 -> Set(Chosen) \X Set({<<>>, <<<<>>, <<>>>>, [i \in 1..64 |-> <<>>]})
       [] m = 10 -> Set({4, 5, NaN("f32"), Infinity("f32")}) \X Opt({-1, 7, 201, 202})
                    \X Set({[index |-> 3, generation |-> 1]})
       [] m = 11 -> Set({<<p, q>> : p \in Points, q \in Points}) \X Set({<<1, 2>>, <<1>>})
                    \X Set({<<5>>})
       [] m = 12 -> {<<Some(Zeros(n))>> : n \in {0, 7, 62, 63, 64}}
       [] m = 13 -> Opt(Opt({-3, 0}) \X Set({<<>>, <<6, 5>>})) \X Set({<<>>, <<<<Some(TRUE), Some(3), Some(1)>>>>})
                    \X Set({<<>>, <<<<1, TRUE>>, <<0, FALSE>>>>})
       [] m = 14 -> Set({<<<<Some(TRUE), b>>>> : b \in Opt(BOOLEAN)}) \X Opt({<<>>, <<1, 2>>})
                    \X Set({<<>>, <<5>>})]

Buffers == {0, 5, 9, 20, 63, 70}
ProbedMessages == {7, 8, 9, 11, 13, 14}
=============================================================================
