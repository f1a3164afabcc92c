------------------------------ MODULE MCCompile ------------------------------
(* The programs that TLC compiles: every pair of the statements below, each *)
(* of them in every block form, and the operators on constants.             *)
EXTENDS Compile, Lowering

NoHandler == [kind |-> "none", n |-> "", body |-> <<>>, passes |-> FALSE]
Handler(kind, body, passes) ==
    [kind |-> kind, n |-> "err", body |-> body, passes |-> passes]

I(v)          == [k |-> "int", t |-> "i64", v |-> v]
V(n, t)       == [k |-> "var", t |-> t, n |-> n]
Un(op, t, x)  == [k |-> "un", t |-> t, op |-> op, x |-> x]
Bin(op, l, r) == [k |-> "bin", t |-> IF op \in {"==", "!=", "<", "<=", ">", ">=", "&&", "||"}
                                     THEN "bool" ELSE l.t,
                  op |-> op, l |-> l, r |-> r]
Cast(t, x)    == [k |-> "cast", t |-> t, x |-> x]
Field(x, fld) == [k |-> "field", t |-> "i64", x |-> x, fld |-> fld]
Index(x, i)   == [k |-> "index", t |-> "i64", x |-> x, i |-> i]
Lit(t, vs)    == [k |-> "lit", t |-> t, vs |-> vs]
CallOf(f, t, args)  == [k |-> "call", t |-> t, f |-> f, args |-> args, handler |-> NoHandler,
                        out |-> FALSE]
Fails(f, out, h)    == [k |-> "call", t |-> "i64", f |-> f, args |-> <<>>, handler |-> h,
                        out |-> out]
Virtual(x)    == [k |-> "virtual", t |-> "i64", x |-> x, f |-> "get", args |-> <<x>>,
                  handler |-> NoHandler, out |-> FALSE]
NoExpr        == [k |-> "none", t |-> "void"]

Let(n, e)     == [k |-> "let", n |-> n, e |-> e]
Do1(e)        == [k |-> "expr", e |-> e]
Set(x, op, e) == [k |-> "set", x |-> x, op |-> op, e |-> e]
If(c, t, e)   == [k |-> "if", c |-> c, then |-> t, else |-> e]
Loop(k, c, b) == [k |-> k, c |-> c, body |-> b]
For(low, high, step, b) ==
    [k |-> "for", n |-> "i", low |-> low, high |-> high, step |-> step, body |-> b]
Each(n, by_pointer, b) ==
    [k |-> "each", n |-> n, over |-> V("arr", "array"), by_pointer |-> by_pointer, body |-> b]
Return(e)     == [k |-> "return", e |-> e]
Defer(s)      == [k |-> "defer", s |-> s]
Blk(b)        == [k |-> "block", body |-> b]
Switch(e, arms, otherwise) ==
    [k |-> "switch", e |-> e, arms |-> arms, otherwise |-> otherwise]
Try(b, h)     == [k |-> "try", body |-> b, n |-> "caught", handler |-> h]
Break         == [k |-> "break"]
Continue      == [k |-> "continue"]
Yield(e)      == [k |-> "yield", e |-> e]
Assert1(e)    == [k |-> "assert", e |-> e]

x == V("x", "i64")     y == V("y", "i64")     z == V("z", "i64")
a == V("a", "i64")     b == V("b", "i64")     k == V("k", "i64")
s == V("s", "struct")  s2 == V("s2", "struct")  o == V("o", "class")
q == V("q", "ptr")     arr == V("arr", "array")
Work(e) == Do1(CallOf("work", "void", <<e>>))
Risky(h) == Do1(Fails("risky", FALSE, h))

Types == [n \in {"a", "b", "x", "y", "z", "k", "i"} |-> "i64"] @@ ("s" :> "struct")
         @@ ("s2" :> "struct") @@ ("o" :> "class") @@ ("o2" :> "class") @@ ("q" :> "ptr")
         @@ ("arr" :> "array") @@ ("err" :> "ptr") @@ ("caught" :> "ptr") @@ ("e" :> "ptr")
         @@ ("u" :> "i8")

-----------------------------------------------------------------------------
(* A leaf is a sequence of statements and the locals it works on.           *)
Leaf(needs, body) == [needs |-> needs, body |-> body]

(* Leaves that may stand in any block.                                      *)
Leaves == {
    Leaf({}, <<Set(x, "=", Bin("+", x, I(1)))>>),
    Leaf({}, <<Set(x, "=", Bin("*", I(4), y)), Set(y, "-", x)>>),
    Leaf({}, <<Set(y, "=", CallOf("work", "i64", <<x>>))>>),
    Leaf({"s"}, <<Set(Field(s, 1), "=", x), Set(y, "=", Bin("-", Field(s, 0), Field(s, 1)))>>),
    Leaf({"s"}, <<Set(Field(s, 1), "+", y), Work(Field(s, 1))>>),
    Leaf({"s"}, <<Do1(CallOf("poke", "void", <<Un("&", "ptr", s)>>)), Set(x, "=", Field(s, 0))>>),
    Leaf({"s", "s2"}, <<Set(s2, "=", s), Set(Field(s, 0), "=", y), Work(Field(s2, 0))>>),
    Leaf({"s", "q"}, <<Set(q, "=", Un("&", "ptr", Field(s, 1))), Set(Un("*", "i64", q), "=", y),
                       Set(x, "=", Bin("+", x, Un("*", "i64", q)))>>),
    Leaf({"o"}, <<Set(y, "=", Virtual(o))>>),
    Leaf({"arr"}, <<Set(Index(arr, Bin("&", x, I(1))), "=", y), Set(x, "=", Index(arr, I(0)))>>),
    Leaf({}, <<Do1(CallOf("show", "void", <<Lit("struct", <<x, I(2)>>)>>))>>),
    Leaf({}, <<Assert1(Bin("!=", x, I(3))), Assert1(Bin("<", y, I(7)))>>),
    Leaf({}, <<Set(x, "=", Cast("i64", Bin("&&", Bin("<", x, y), Bin("!=", CallOf("work", "i64", <<y>>), I(2)))))>>),
    Leaf({}, <<If(Bin("||", Un("!", "bool", Bin("<=", x, y)), Bin("==", y, I(0))),
                  <<Set(x, "=", y)>>, <<>>)>>),
    Leaf({}, <<Set(x, "=", Cast("i64", Cast("i8", x))), Set(y, "=", Cast("i64", Cast("u8", y)))>>),
    Leaf({}, <<Set(x, "=", Un("-", "i64", x)), Set(y, "=", Un("~", "i64", y))>>),
    Leaf({}, <<If(Bin(">", x, y), <<Return(x)>>, <<>>)>>),
    Leaf({}, <<Risky(Handler("block", <<Set(x, "=", I(6)), Work(x)>>, FALSE))>>),
    Leaf({}, <<Risky(Handler("fatal", <<>>, FALSE)), Work(y)>>),
    Leaf({}, <<Risky(Handler("block", <<Return(y)>>, TRUE))>>),
    Leaf({}, <<Switch(Bin("&", x, I(3)), <<[v |-> 0, body |-> <<Set(y, "=", I(1))>>],
                                          [v |-> 2, body |-> <<Return(y)>>]>>, <<Work(x)>>)>>),
    Leaf({}, <<For(I(0), Bin("&", y, I(3)), 1, <<Set(x, "+", V("i", "i64"))>>)>>),
    Leaf({}, <<For(I(0), I(4), -2, <<Work(V("i", "i64"))>>)>>),
    Leaf({}, <<For(I(0), I(3), 2, <<If(Bin("==", V("i", "i64"), x), <<Continue>>, <<>>), Work(x)>>)>>),
    Leaf({}, <<Try(<<Risky(Handler("enclosing", <<>>, FALSE)), Work(x)>>, <<Set(x, "=", I(5))>>)>>),
    Leaf({"wrap"}, <<Risky([Handler("block", <<Work(y)>>, FALSE) EXCEPT !.n = "e"]),
               Do1(Fails("wrap", FALSE, Handler("block", <<Work(I(2))>>, FALSE)))>>)
    }

(* Leaves for the blocks that reserve_slots visits and that no error leaves *)
(* to an enclosing try: they declare a local in memory, or defer.           *)
Declaring == {
    Leaf({}, <<Defer(Work(x)), Set(x, "=", y)>>),
    Leaf({}, <<Let("z", Fails("fetch", TRUE, Handler("block", <<Yield(x)>>, FALSE))), Set(x, "=", z)>>),
    Leaf({}, <<Let("z", Fails("fetch", TRUE, Handler("fatal", <<>>, FALSE))), Set(y, "=", z)>>),
    Leaf({"o2"}, <<Let("o2", Lit("class", <<x>>)), Do1(CallOf("show", "void", <<V("o2", "class")>>))>>),
    Leaf({"arr"}, <<Each("i", FALSE, <<Set(x, "+", V("i", "i64"))>>),
                    Each("e", TRUE, <<Set(Un("*", "i64", V("e", "ptr")), "=", x)>>)>>),
    Leaf({"make"}, <<Let("s2", CallOf("make", "struct", <<x>>)), Work(Field(s2, 0))>>)
    }

(* Two locals change places.                                                *)
Swap == Leaf({}, <<Set(k, "=", x), Set(x, "=", y), Set(y, "=", k)>>)

InBlocks(body) == {
    <<If(Bin("<", x, y), body, <<>>)>>,
    <<If(Bin("==", x, I(0)), <<Work(x)>>, body)>>,
    <<Set(k, "=", I(0)), Loop("while", Bin("<", k, I(2)), <<Set(k, "+", I(1))>> \o body)>>,
    <<Set(k, "=", I(0)), Loop("do", Bin("<", k, I(2)), <<Set(k, "+", I(1))>> \o body)>>,
    <<For(I(0), I(2), 1, body)>>,
    <<Blk(<<Defer(Work(y))>> \o body)>>,
    <<Loop("while", Bin("==", I(1), I(1)), <<Defer(Work(I(1)))>> \o body \o <<Break>>)>>,
    <<For(I(0), I(2), 1, <<Blk(<<Defer(Work(x))>> \o body \o <<Continue>>), Work(I(3))>>)>>
    }

InAnyBlock(body) == {
    <<Switch(x, <<[v |-> 0, body |-> body], [v |-> 0 - 1, body |-> <<Work(x)>>]>>, <<>>)>>,
    <<Try(body \o <<Risky(Handler("enclosing", <<>>, FALSE))>>, <<Work(y)>>)>>,
    <<Risky(Handler("block", body, FALSE))>>
    }

(* The locals the statements need, in an order.                             *)
Prefix(needs) ==
    SelectSeq(<<Let("x", a), Let("y", b), Let("k", I(0)), Let("s", Lit("struct", <<I(1), b>>)),
                Let("s2", Lit("struct", <<I(0), I(0)>>)), Let("o", Lit("class", <<b>>)),
                Let("arr", Lit("array", <<a, b>>)), Let("q", Un("&", "ptr", Field(s, 1)))>>,
              LAMBDA d : d.n \in needs \cup {"x", "y", "k"})

Fn1(name, params, result, body, exported) ==
    [name |-> name, params |-> params, types |-> Types @@ ("self" :> "ptr"),
     taken |-> {"z"}, body |-> body, result |-> result, exported |-> exported]

(* main, and the functions that the statements need: the method in the      *)
(* table of a class beside a function that nothing reaches and one that C   *)
(* code calls, a function that passes an error on, and one that gives a     *)
(* struct.                                                                  *)
Program(needs, body, asserts) ==
    LET class == {"o", "o2"} \cap needs # {}
    IN  [fns |->
           <<Fn1("main", <<"a", "b">>, "i64",
                 Prefix(needs) \o body \o <<Work(y), Return(x)>>, FALSE)>>
           \o (IF class
               THEN <<Fn1("unused", <<"a">>, "i64", <<Return(a)>>, FALSE),
                      Fn1("get", <<"self">>, "i64", <<Return(Field(V("self", "ptr"), 1))>>, FALSE),
                      Fn1("called_from_c", <<>>, "i64", <<Return(I(1))>>, TRUE)>>
               ELSE <<>>)
           \o (IF "wrap" \in needs
               THEN <<Fn1("wrap", <<>>, "ptr",
                          <<Defer(Work(I(4))), Risky(Handler("try", <<>>, FALSE)),
                            Return([k |-> "int", t |-> "ptr", v |-> 0])>>, FALSE)>>
               ELSE <<>>)
           \o (IF "make" \in needs
               THEN <<Fn1("make", <<"a">>, "struct",
                          <<Let("s", Lit("struct", <<a, I(1)>>)), Return(s)>>, FALSE)>>
               ELSE <<>>),
         globals |->
           IF class
           THEN <<[value |-> <<Op("int", "i64", 0), Op("func", "ptr", 2)>>, exported |-> FALSE],
                  [value |-> <<Op("int", "i64", 0), Op("func", "ptr", 3)>>, exported |-> FALSE]>>
           ELSE <<>>,
         table |-> 2, asserts |-> asserts]

-----------------------------------------------------------------------------
(* The leaves that work on memory, leave the block or branch, in the second *)
(* place.                                                                   *)
Second == {l \in Leaves \cup Declaring : l.needs # {} \/ l.body[1].k \in {"let", "defer", "if", "try"}}
Pairs == {Program(l1.needs \cup l2.needs, l1.body \o l2.body, TRUE) :
            l1 \in Leaves \cup Declaring \cup {Swap}, l2 \in Second \cup {Swap}}
Nested == UNION {{Program(l.needs, w, FALSE) : w \in InBlocks(l.body)} : l \in Leaves \cup Declaring}
          \cup UNION {{Program(l.needs, w, TRUE) : w \in InAnyBlock(l.body)} : l \in Leaves}

(* One program per operator, type and first operand, with every second      *)
(* operand that the operator is defined on, and x in the place of one.      *)
Constants == {0, 1, 3, 4, 8, 15}
Operators == {"+", "-", "*", "/", "%", "&", "|", "^", "<<", ">>",
              "==", "!=", "<", "<=", ">", ">="}
Const(t, v) == [k |-> "int", t |-> t, v |-> v]
Operations(op, t, c) ==
    LET ty == ir_type_of(t)
    IN  {Work(Cast("i64", Bin(op, Const(t, c), Const(t, d)))) :
           d \in {e \in Constants : ~Undefined(binary_op(op, t), ty, trim(ty, c), trim(ty, e))}}
OnConstants == {Program({}, Listed(Operations(op, t, c)), TRUE) :
                  op \in Operators, t \in {"i64", "u64", "i8"}, c \in Constants}
OnVariables == {Program({}, <<Set(x, "=", Cast("i64", Bin(op, Cast(t, x), Const(t, c)))),
                              Set(y, "=", Cast("i64", Bin(op, Const(t, c), Cast(t, y))))>>, TRUE) :
                  op \in Operators, t \in {"i64", "u64", "i8"}, c \in Constants}

MCPrograms == Pairs \cup Nested \cup OnConstants \cup OnVariables

MCRuns == {[vs |-> <<0, 3>>, fail |-> 0], [vs |-> <<2, 1>>, fail |-> 0],
           [vs |-> <<15, 8>>, fail |-> 0], [vs |-> <<0, 3>>, fail |-> 1],
           [vs |-> <<2, 1>>, fail |-> 2]}

(* A field is read into x, x changes, and the field is read again.          *)
ReadTwice == {Program({"s"}, <<Do1(CallOf("poke", "void", <<Un("&", "ptr", s)>>)),
                               Set(x, "=", Field(s, 0)), Set(x, "+", I(1)),
                               Set(y, "=", Field(s, 0))>>, TRUE)}

(* A call fails in a try block that has deferred a statement.               *)
DeferInTry == {Program({}, <<Try(<<Defer(Work(x)), Risky(Handler("enclosing", <<>>, FALSE))>>,
                                 <<Work(y)>>)>>, TRUE)}

MCBits == [t \in {"i8", "i64"} |-> IF t = "i8" THEN 3 ELSE 4]
=============================================================================
