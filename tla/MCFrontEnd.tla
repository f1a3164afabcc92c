----------------------------- MODULE MCFrontEnd -----------------------------
(***************************************************************************)
(* The trees and the texts that FrontEnd.cfg runs the front end on.        *)
(***************************************************************************)
EXTENDS FrontEnd

Libraries == INSTANCE MCLibraryFile

mc_Units == Libraries!mc_Units

T(k, s) == N(k, Bytes(s), <<>>)
Leaf(k) == N(k, <<>>, <<>>)
V1(k, v) == N(k, <<>>, v)
Nm(s) == T("name", s)
Num(i) == N("int_lit", <<i>>, <<>>)
Some(v) == V1("some", v)
Ty(s) == T("builtin", s)
Named(s) == V1("named", <<Nm(s), None>>)
Bin(op, l, r) == N("binary", kinds[op], <<l, r>>)
Un(op, e) == N("unary", kinds[op], <<e>>)
Call(f, args) == V1("call", <<f, List(args), None>>)
Try(c) == Handled(c, Leaf("try"))
Catch(c, name, body) == Handled(c, N("handler", Bytes(name), <<body>>))
Field(e, f) == N("field", Bytes(f), <<e>>)
Index(e, i) == V1("index", <<e, i, None>>)
Part(e, i, j) == V1("index", <<e, i, Some(<<j>>)>>)
Init1(f, e) == V1("item", <<Nm(f), e>>)
Struct(s, inits) == V1("struct_lit", <<Nm(s), None, List(inits)>>)
Let(x, e) == V1("let", <<Nm(x), None, e>>)
LetT(x, t, e) == V1("let", <<Nm(x), Some(<<t>>), e>>)
Block(s) == V1("block", s)
Assign(op, l, r) == N("assign", kinds[op], <<l, r>>)
Doc(s) == T("doc", s)

a == Nm("a")
b == Nm("b")
c == Nm("by")
g == Nm("g")

(***************************************************************************)
(* Expressions.                                                            *)
(***************************************************************************)
Ops == <<"||", "&&", "|", "^", "&", "==", "!=", "<", "<=", ">", ">=", "<<", ">>", "+", "-",
         "*", "/", "%">>

(* a x b y by in one grouping and the other, for all y.                    *)
Left(x)  == [i \in DOMAIN Ops |-> Bin(Ops[i], Bin(x, a, b), c)]
Right(x) == [i \in DOMAIN Ops |-> Bin(x, a, Bin(Ops[i], b, c))]

Pt == Struct("Pt", <<Init1("x", Num(1)), Init1("y", Num(0))>>)

Unaries == <<
    Un("-", Un("-", a)), Un("&", Un("&", a)), Un("!", Un("~", a)), Un("*", Un("*", a)),
    Bin("&", a, Un("&", b)), Bin("/", a, Un("*", b)), Bin("&&", a, Un("&", b)),
    Bin("-", a, Un("-", b)), Un("-", Bin("+", a, b)),
    V1("as", <<Un("-", a), Ty("int")>>), Un("-", V1("as", <<a, Ty("u8")>>)),
    Bin("*", V1("as", <<a, Ty("i64")>>), b), V1("as", <<Bin("*", a, b), Ty("c_long")>>),
    V1("as?", <<a, V1("pointer", <<Named("Pt")>>)>>), V1("is", <<a, Named("Pt")>>),
    V1("as", <<V1("as", <<a, Ty("int")>>), Ty("byte")>>),
    Bin("<", V1("as", <<a, Ty("int")>>), b) >>

Postfix == <<
    Call(Call(a, <<b>>), <<>>), Field(Index(a, Num(7)), "x"), Field(Un("*", a), "x"),
    Index(Part(a, Num(1), Num(20)), Num(3)), Field(V1("as", <<a, Named("Pt")>>), "super"),
    Call(Field(Nm("self"), "f"), <<Pt, Bin("+", a, b)>>), Un("&", Field(a, "x")),
    Part(a, Bin("+", a, Num(1)), Call(b, <<>>)), Field(Pt, "x"), Try(Call(a, <<b>>)),
    Bin("+", Try(Call(a, <<>>)), Num(2)), Un("-", Try(Call(a, <<>>))) >>

Literals == <<
    Num(0), Num(1000), T("float_lit", "1.5"), T("float_lit", "0.25e-7"), N("char_lit", <<97>>, <<>>),
    N("char_lit", <<39>>, <<>>), N("char_lit", <<233>>, <<>>), N("char_lit", <<128512>>, <<>>),
    T("string_lit", ""), T("string_lit", "a\"b\\n // x"), N("string_lit", <<NL, 195, 169>>, <<>>),
    N("bytes_lit", <<0, 255, 34>>, <<>>), Leaf("true"), Leaf("false"), Leaf("null"),
    V1("array_lit", <<a>>), V1("array_lit", <<a, Pt, b>>), V1("array_repeat", <<Num(0), Num(8)>>),
    V1("slice_lit", <<Ty("int"), List(<<Init1("ptr", a), Init1("len", Num(2))>>)>>),
    V1("struct_lit", <<Nm("m"), Some(<<Nm("Pt")>>), List(<<Init1("x", Pt)>>)>>) >>

Builtins == <<
    V1("alloc", <<Pt>>), V1("alloc", <<Call(Nm("Pt"), <<a>>)>>),
    V1("alloc_raw", <<Ty("int"), Bin("*", a, Num(2))>>), V1("dup", <<a>>),
    V1("size_of", <<V1("array", <<Bin("+", a, Num(1)), Ty("int")>>)>>), V1("join", <<a>>),
    V1("dispatch", <<Un("&", a), Call(g, <<b>>)>>), V1("dispatch", <<a, Field(a, "f")>>),
    V1("parallel", <<a, None, g>>), V1("parallel", <<a, Some(<<Num(4)>>), Call(g, <<b>>)>>),
    Bin("+", V1("alloc", <<Pt>>), Num(1)), Bin("+", Num(1), V1("parallel", <<a, None, g>>)),
    V1("size_of", <<V1("fn_type", <<List(<<Ty("int"), V1("slice", <<Ty("str")>>)>>),
                                     Some(<<V1("pointer", <<Ty("bool")>>)>>)>>)>>),
    V1("size_of", <<V1("fn_type", <<List(<<>>), None>>)>>),
    V1("size_of", <<V1("named", <<Nm("m"), Some(<<Nm("Pt")>>)>>)>>) >>

(***************************************************************************)
(* Statements.                                                             *)
(***************************************************************************)
Conds == <<Pt, Bin("==", a, Pt), Field(Pt, "x"), Call(g, <<Pt>>), Index(a, Pt),
           V1("slice_lit", <<Ty("int"), List(<<>>)>>), V1("alloc", <<Call(a, <<>>)>>)>>

Stop == Leaf("break")
Do(e) == Block(<<Call(e, <<>>)>>)

Loops == <<
    V1("if", <<a, Do(a), None>>), V1("if", <<a, Do(a), b, Block(<<>>), Do(b)>>),
    V1("while", <<Bin("<", a, b), Block(<<Stop, Leaf("continue")>>)>>),
    V1("do", <<Do(a), Un("!", b)>>),
    N("for", Bytes("i"), <<Num(0), Some(<<Num(10), None>>), Do(a)>>),
    N("for", Bytes("i"), <<a, Some(<<b, Some(<<Num(2)>>)>>), Do(a)>>),
    N("for", Bytes("in"), <<a, None, Do(a)>>), N("for", Bytes("x"), <<a, Do(b)>>),
    N("for", <<>>, <<Num(0), Some(<<Num(3), None>>), Block(<<>>)>>),
    V1("switch", <<a, List(<<V1("item", <<Num(1), Call(g, <<>>)>>),
                             V1("item", <<Num(2), Assign("+=", a, Pt)>>), Block(<<Stop>>)>>)>>),
    V1("switch", <<a, List(<<None>>)>>) >>

Simple == <<
    LetT("x", V1("pointer", <<Ty("int")>>), Leaf("null")),
    V1("const", <<Nm("k"), Ty("int"), Num(3)>>),
    Let("x", Catch(Call(g, <<a>>), "e", Block(<<V1("yield", <<Num(0)>>)>>))),
    Let("x", V1("alloc", <<Catch(Call(g, <<a>>), "", Block(<<Leaf("yield")>>))>>)),
    Let("x", Handled(Call(g, <<>>), Leaf("fatal"))), Let("fatal", Try(Call(g, <<>>))),
    Catch(Call(g, <<>>), "e", Do(a)), Assign("=", Field(a, "x"), Pt),
    Assign("<<=", Un("*", a), Num(1)), V1("free", <<a>>), V1("delete", <<a>>),
    V1("join_all", <<a>>), V1("return", <<>>), V1("return", <<Bin("+", a, b)>>),
    V1("defer", <<V1("destroy", <<a>>)>>), V1("defer", <<Block(<<Call(g, <<>>)>>)>>),
    Block(<<Let("y", a)>>),
    V1("try", <<Do(a), N("handler", Bytes("e"), <<Do(b)>>)>>),
    V1("try", <<Block(<<>>), Leaf("fatal")>>),
    V1("assert", <<Bin("<", a, b), None>>),
    V1("assert", <<a, Some(<<T("string_lit", "no")>>)>>) >>

(***************************************************************************)
(* Items.                                                                  *)
(***************************************************************************)
ItemD(doc, note, vis, marks, n) ==
    V1("item", <<Doc(doc), Doc(note), Leaf(vis)>> \o marks \o <<n>>)
Plain == <<None, None, None, None>>
Item(n) == ItemD("", "", "private", Plain, n)
Param(x, t) == V1("item", <<Nm(x), t>>)
FnOf(name, ps, result, body) == V1("fn", <<Nm(name), V1("params", ps), result, Block(body)>>)
Fn(name, body) == Item(FnOf(name, <<>>, None, body))

FieldD(doc, x, t, bits) == V1("item", <<Doc(doc), Doc(""), Nm(x), t, bits>>)
Member(doc, vis, final, op, contract, n) ==
    V1("member", <<Doc(doc), Doc(""), Leaf(vis), final, op, contract, n>>)
Slot(doc, form, vis, own, x, t, value) ==
    V1("item", <<Doc(doc), Doc(""), form, vis, own, None, None, Nm(x), t, None, value>>)
Method(name, ps, body) == V1("fn", <<Nm(name), V1("self", ps), None, Block(body)>>)

AClass(doc) == V1("class", <<Nm("Circle"), None,
    List(<<N("inherits", Bytes("Shape"), <<>>),
           Slot("", Leaf("implements"), None, None, "ser", Named("Ser"), None),
           Slot(doc, None, Leaf("pub"), Leaf("own"), "own", V1("pointer", <<Ty("int")>>), None),
           Slot("", None, None, None, "final", Ty("int"), Some(<<Num(3)>>))>>),
    List(<<Member("the area", "pub", Leaf("final"), None, None, Method("area", <<>>, <<>>)),
           Member("", "private", None, None, Leaf("abstract"),
                  V1("fn", <<Nm("draw"), V1("self", <<Param("x", Ty("int"))>>),
                             Some(<<Ty("bool")>>)>>)),
           Member("", "private", None, None, Leaf("concrete"),
                  V1("fn", <<Nm("Ser"), Some(<<Nm("put")>>), V1("self", <<>>), None,
                             Block(<<Stop>>)>>)),
           Member("", "protected", None, None, None,
                  V1("static", <<Nm("n"), Ty("int"), Num(0)>>)),
           Member("", "private", None, Leaf("operator"), None,
                  V1("fn", <<Nm("add"), V1("params", <<>>), None, Block(<<>>)>>)),
           Member("a constant", "pub", None, None, None,
                  V1("const", <<Nm("K"), Ty("int"), Num(1)>>))>>)>>)

Items1 == <<
    ItemD("adds", "inside", "pub", Plain,
          FnOf("add", <<Param("x", Ty("int")), Param("y", Named("Pt"))>>, Some(<<Ty("int")>>),
               <<V1("return", <<Bin("+", a, b)>>)>>)),
    ItemD("", "", "internal", <<None, None, Leaf("worker"), None>>, FnOf("w", <<>>, None, <<>>)),
    ItemD("", "", "private", <<None, Leaf("operator"), None, None>>,
          FnOf("eq", <<>>, None, <<Stop>>)),
    Item(V1("extern", <<Nm("printf"), V1("variadic", <<Param("s", Ty("str"))>>),
                        Some(<<Ty("c_int")>>)>>)),
    ItemD("", "", "export", <<None, None, None, Leaf("packed")>>,
          V1("struct", <<Nm("Pt"), Some(<<Num(8)>>),
                         List(<<FieldD("across", "x", Ty("int"), None),
                                FieldD("", "packed", Ty("u8"), Some(<<Num(3)>>))>>)>>)),
    Item(V1("union", <<Nm("U"), None, List(<<FieldD("", "x", Ty("f64"), None)>>)>>)),
    ItemD("a mode", "", "pub", Plain,
          V1("enum", <<Nm("Mode"), Some(<<Ty("u8")>>),
                       List(<<V1("item", <<Doc("off"), Doc(""), Nm("Off"), None>>),
                              V1("item", <<Doc(""), Doc("now"), Nm("On"), Some(<<Num(4)>>)>>)>>),
                       List(<<Member("", "private", None, None, None,
                                     Method("next", <<>>, <<>>))>>)>>)),
    ItemD("pi", "", "private", Plain, V1("const", <<Nm("PI"), Ty("float"), T("float_lit", "3.1")>>)),
    ItemD("", "", "pub", <<Leaf("final"), None, None, None>>, AClass("owned")) >>

Module(doc, imports, items) == V1("module", <<Doc(doc), Doc(""), List(imports), List(items)>>)
Import(path, as) == V1("import", <<T("path", path), as>>)

Around(body) == Module("", <<>>, <<Fn("f", body), Fn("h", <<Stop>>)>>)

(* Whole in every layout, and with each word left out in turn.             *)
ExprPrograms ==
    [i \in DOMAIN Ops |-> Around(<<Let("x", Call(g, Left(Ops[i])))>>)]
    \o [i \in DOMAIN Ops |-> Around(<<Let("x", Call(g, Right(Ops[i])))>>)]
    \o <<Around(<<Let("x", Call(g, Unaries))>>), Around(<<Let("x", Call(g, Postfix))>>),
         Around(<<Let("x", Call(g, Literals))>>),
         Around([i \in DOMAIN Builtins |-> Let("x", Builtins[i])])>>

CondPrograms == [i \in DOMAIN Conds |->
    Around(<<V1("if", <<Conds[i], Do(a), Conds[i], Block(<<>>), None>>),
             V1("while", <<Conds[i], Do(a)>>),
             N("for", Bytes("x"), <<Conds[i], None, Do(a)>>)>>)]

StatementPrograms ==
    [i \in DOMAIN Loops |-> Around(<<Loops[i], Let("z", Pt)>>)]
    \o [i \in DOMAIN Simple |-> Around(<<Simple[i], Let("z", Pt)>>)]

ItemPrograms ==
    [i \in DOMAIN Items1 |-> Module("module text", <<Import("m", None),
                                      Import("anti.io", Some(<<Nm("io")>>))>>,
                                    <<Items1[i], Fn("h", <<Stop>>)>>)]

mc_Programs == StatementPrograms \o ItemPrograms \o CondPrograms \o ExprPrograms

(***************************************************************************)
(* Texts: the spellings of a constant and of its documentation.            *)
(***************************************************************************)
K(doc, e) == Module("", <<>>, <<ItemD(doc, "", "private", Plain,
                                      V1("const", <<Nm("K"), Ty("int"), e>>))>>)

Spelled(bytes, e) == [bytes |-> Bytes("const K: int = ") \o bytes \o Bytes(";"),
                      tree |-> K("", e)]
Spell(s, e) == Spelled(Bytes(s), e)
Wrong(s) == [Spell(s, a) EXCEPT !.tree = None]

Str(s) == T("string_lit", s)
Q1 == "\""

Numbers == <<
    Spell("0xfF", Num(255)), Spell("1_000", Num(1000)), Spell("0x3_e8", Num(1000)),
    Wrong("1001"), Wrong("0x3e9"), Wrong("00"), Wrong("1__0"), Wrong("1_"), Wrong("0x_1"),
    Wrong("0x"), Wrong("0xg"), Wrong("12ab"), Wrong("1.5x"), Wrong("1.5e"), Wrong("1.5_"),
    Spell("1_0.0_1e+1_0", T("float_lit", "10.01e+10")), Spell("9.0E2", T("float_lit", "9.0E2")),
    Spell("a. b", Field(a, "b")), Spell("1.a", Field(Num(1), "a")), Wrong("@"), Wrong("1 $ 2"), Wrong("select") >>

Quoted == <<
    Spell("'\\u{e9}'", N("char_lit", <<233>>, <<>>)), Spell("'\\x41'", N("char_lit", <<65>>, <<>>)),
    Spell("'\\n'", N("char_lit", <<NL>>, <<>>)), Spelled(<<39, 195, 169, 39>>, N("char_lit", <<233>>, <<>>)),
    Wrong("'\\x80'"), Wrong("''"), Wrong("'ab'"), Wrong("'a"), Wrong("'\\q'"), Wrong("'\\u{}'"),
    Wrong("'\\u{d800}'"), Wrong("'\\u{110000}'"), Wrong("'\\0'"), Wrong("'\\u{1234567}'"),
    Spell("r" \o Q1 \o "a\\b" \o Q1, Str("a\\b")),
    Spell("r#" \o Q1 \o "a" \o Q1 \o "b" \o Q1 \o "#", Str("a\"b")),
    Spell("##" \o Q1 \o "a" \o Q1 \o "#\\t" \o Q1 \o "##", N("string_lit", Bytes("a\"#") \o <<TAB>>, <<>>)),
    Spell("b" \o Q1 \o "\\0\\xff\\u{e9}" \o Q1, N("bytes_lit", <<0, 255, 195, 169>>, <<>>)),
    Spell("br" \o Q1 \o "\\0" \o Q1, N("bytes_lit", Bytes("\\0"), <<>>)),
    Spelled(Bytes(Q1) \o <<CR, NL, CR>> \o Bytes(Q1), N("string_lit", <<NL, CR>>, <<>>)),
    Wrong(Q1 \o "\\0" \o Q1), Wrong(Q1 \o "a"), Wrong("r#" \o Q1 \o "a" \o Q1),
    Spell("b", b), Spell("br.a", Field(Nm("br"), "a")),
    [Spelled(<<NUL>>, a) EXCEPT !.tree = None], [Spelled(<<39, 195, 39>>, a) EXCEPT !.tree = None],
    [Spelled(<<195, 169>>, a) EXCEPT !.tree = None] >>

NoDoc(bytes) == [bytes |-> bytes \o <<NL>> \o Bytes("const K: int = 1;"),
                 tree |-> K("", Num(1))]
DocIs(bytes, t) == [NoDoc(bytes) EXCEPT !.tree = [@ EXCEPT !.v[4].v[1].v[1].t = t]]
DocWrong(bytes) == [NoDoc(bytes) EXCEPT !.tree = None]
L1(s) == Bytes(s) \o <<NL>>

Comments == <<
    DocIs(Bytes("/** Dot. */"), Bytes("Dot.")),
    DocIs(L1("/**") \o L1("   two") \o <<NL>> \o L1("     more ") \o Bytes("  */"),
          L1("two") \o <<NL>> \o Bytes("  more ")),
    DocIs(L1("/// a") \o L1("///   b") \o Bytes("///"), L1("a") \o L1("  b")),
    DocIs(L1("/// a") \o <<NL>> \o Bytes("/// b"), L1("a") \o <<NL>> \o Bytes("b")),
    DocIs(L1("/// a") \o Bytes("/** b */"), L1("a") \o <<NL>> \o Bytes("b")),
    DocIs(Bytes("/// a") \o <<CR, NL>> \o Bytes("/// b") \o <<CR>>, L1("a") \o Bytes("b")),
    DocIs(L1("///") \o Bytes("/// b"), <<NL>> \o Bytes("b")),
    DocIs(L1("///") \o <<NL>> \o Bytes("/// b"), Bytes("b")),
    NoDoc(Bytes("//// a")), NoDoc(Bytes("/*** a */")), NoDoc(Bytes("/**/")), NoDoc(BOM),
    NoDoc(Bytes("/* a * / /* b */")), DocWrong(Bytes("/* a")), DocWrong(Bytes("/** a")),
    DocWrong(L1("/** a") \o Bytes("*/")), DocWrong(L1("/**") \o Bytes("a */")),
    DocWrong(L1("/**")), DocWrong(Bytes("*/")), NoDoc(Bytes("/// ")),
    [bytes |-> Bytes("const /// a") \o <<NL>> \o Bytes("K: int = 1; /// b"), tree |-> K("", Num(1))],
    [bytes |-> Bytes("const K: int = 1; //! late") \o <<NL>> \o Bytes("fn h() {}"),
     tree |-> Module("", <<>>, K("", Num(1)).v[4].v \o <<Fn("h", <<>>)>>)] >>

(* Docs of a class, of its base, where they are lost, and of a field.      *)
BaseDocs ==
    [bytes |-> L1("/// of the class") \o L1("class A {") \o L1("    /// of the base")
               \o L1("    //! late") \o L1("    //# noted of the base")
               \o L1("    inherits B,") \o L1("    /// of the field") \o L1("    x: int")
               \o Bytes("}"),
     tree |-> Module("", <<>>, <<ItemD("of the class", "", "private", Plain,
         V1("class", <<Nm("A"), None,
             List(<<N("inherits", Bytes("B"), <<>>),
                    Slot("of the field", None, None, None, "x", Ty("int"), None)>>),
             List(<<>>)>>))>>)]

mc_Texts == <<BaseDocs>> \o Numbers \o Quoted \o Comments \o
    <<[bytes |-> Bytes("import a; import b;"),
       tree |-> Module("", <<Import("a", None), Import("b", None)>>, <<>>)]>>

Dropped == Len(StatementPrograms) + Len(ItemPrograms)

(* The module that imports a and b, with their files: with and without     *)
(* docs, cut at every CutStep-th byte, and with one byte of every          *)
(* ChangeStep changed.  No step is a multiple of another or of the width   *)
(* of a number, so that cuts and changes fall on all bytes of the numbers. *)
CutStep == 9
ChangeStep == 5

Importer == Len(mc_Texts)

File(unit, strip, cut, changed, to) ==
    [unit |-> unit, strip |-> strip, cut |-> cut, at |-> changed, to |-> to]
WholeFile(unit) == File(unit, FALSE, -1, 0, 0)
Length(unit) == Len(FileBytes(WholeFile(unit)))
Damaged(unit) ==
    {File(unit, FALSE, CutStep * n, 0, 0) : n \in 0..((Length(unit) - 1) \div CutStep)} \cup
    {File(unit, FALSE, -1, ChangeStep * i, IF i % 2 = 0 THEN 255 ELSE 1) :
        i \in 1..(Length(unit) \div ChangeStep)}

WithLibraries ==
    LET with(fs) == [text |-> Importer, files |-> fs]
    IN  {with(<<File(1, s, -1, 0, 0), File(2, z, -1, 0, 0)>>) : s \in BOOLEAN, z \in BOOLEAN}
        \cup {with(<<f>>) : f \in Damaged(1)}
        \cup {with(<<WholeFile(1), f>>) : f \in Damaged(2)}

mc_Sources ==
    LET whole    == [program : DOMAIN mc_Programs, layout : {"tight"}, drop : {0}]
                    \cup [program : 1..Dropped, layout : {"lines", "commented"}, drop : {0}]
        mistakes == UNION {[program : {i}, layout : {"lines"},
                            drop : 1..Len(WordsOf(mc_Programs[i]))] : i \in 1..Dropped}
        spelt    == [text : DOMAIN mc_Texts, files : {<<>>}]
    IN  whole \cup mistakes \cup spelt \cup WithLibraries

(* The first program with each of its words left out.                      *)
mc_Mistakes == [program : {1}, layout : {"lines"}, drop : 1..Len(WordsOf(mc_Programs[1]))]

mc_BaseSources == {[text |-> 1, files |-> <<>>]}
=============================================================================
