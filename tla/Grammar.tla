------------------------------ MODULE Grammar ------------------------------
(***************************************************************************)
(* The grammar of chapter 2 read from the tree to the text: the tokens     *)
(* that a tree stands for, in the order the rules give them, with the      *)
(* parentheses the levels of the rules ask for.  It is the reference that  *)
(* the lexer and the parser are checked against, and says nothing of how   *)
(* they work.                                                              *)
(***************************************************************************)
EXTENDS Parser

W(word) == <<Bytes(word)>>

(* Parts with a comma between them.                                        *)
Commas(parts) ==
    FoldLeft(LAMBDA all, w : IF all = <<>> THEN w ELSE all \o W(",") \o w, <<>>, parts)

Parens(words) == W("(") \o words \o W(")")

(***************************************************************************)
(* Literals.                                                               *)
(***************************************************************************)
RECURSIVE Digits(_)
Digits(n) == (IF n < 10 THEN <<>> ELSE Digits(n \div 10)) \o <<48 + (n % 10)>>

HexDigit(d) == IF d < 10 THEN 48 + d ELSE 87 + d

(* Escapes for what may not stand in a literal as it is.                   *)
Escaped(bytes) ==
    FlattenSeq([i \in DOMAIN bytes |->
        CASE bytes[i] = NL -> Bytes("\\n")
          [] bytes[i] \in {Code["\""], Code["\\"], Code["'"]} -> <<Code["\\"], bytes[i]>>
          [] OTHER -> <<bytes[i]>>])

Hexed(bytes) == FlattenSeq([i \in DOMAIN bytes |->
    Bytes("\\x") \o <<HexDigit(bytes[i] \div 16), HexDigit(bytes[i] % 16)>>])

Quote == <<Code["\""]>>

Literal(n) ==
    CASE n.k = "int_lit"    -> Digits(n.t[1])
      [] n.k = "float_lit"  -> n.t
      [] n.k = "char_lit"   -> Bytes("'") \o Escaped(append_utf8(n.t[1])) \o Bytes("'")
      [] n.k = "string_lit" -> Quote \o Escaped(n.t) \o Quote
      [] n.k = "bytes_lit"  -> Bytes("b") \o Quote \o Hexed(n.t) \o Quote

(***************************************************************************)
(* Types and expressions.  min is the level of the rule the expression     *)
(* stands in, cond says that it stands in a condition.                     *)
(***************************************************************************)
(* The rules or_expr to multiplicative, each with its operators.           *)
BinaryRules == <<{"||"}, {"&&"}, {"|"}, {"^"}, {"&"}, {"==", "!="}, {"<", "<=", ">", ">="},
                 {"<<", ">>"}, {"+", "-"}, {"*", "/", "%"}>>

Level(n) ==
    CASE n.k \in {"alloc", "dispatch", "parallel"} -> 0
      [] n.k = "binary" -> CHOOSE i \in DOMAIN BinaryRules :
                            \E op \in BinaryRules[i] : n.t = Bytes(op)
      [] n.k \in {"as", "as?", "is"} -> 11
      [] n.k = "unary" -> 12
      [] n.k = "call" -> IF n.v[3].k = "try" THEN 12 ELSE 13
      [] OTHER -> 13

RECURSIVE ExprWords(_, _, _)
RECURSIVE TypeWords(_, _)
RECURSIVE BlockWords(_)

Types(list, cond) == Commas([i \in DOMAIN list |-> TypeWords(list[i], cond)])
Exprs(list, cond) == Commas([i \in DOMAIN list |-> ExprWords(list[i], 0, cond)])
Inits(list) == W("{") \o Commas([i \in DOMAIN list |->
    <<list[i].v[1].t>> \o W(":") \o ExprWords(list[i].v[2], 0, FALSE)]) \o W("}")

(* What an optional part adds: its token and its own words.                *)
Opt(n, token, words) == IF n.k = "none" THEN <<>> ELSE W(token) \o words

TypeWords(n, cond) ==
    CASE n.k = "builtin" -> <<n.t>>
      [] n.k = "named"   -> <<n.v[1].t>> \o Opt(n.v[2], ".", <<n.v[2].v[1].t>>)
      [] n.k = "pointer" -> W("*") \o TypeWords(n.v[1], cond)
      [] n.k = "slice"   -> W("[") \o W("]") \o TypeWords(n.v[1], cond)
      [] n.k = "array"   -> W("[") \o ExprWords(n.v[1], 0, cond) \o W("]")
                            \o TypeWords(n.v[2], cond)
      [] n.k = "fn_type" -> W("fn") \o Parens(Types(n.v[1].v, cond))
                            \o Opt(n.v[2], "->", TypeWords(n.v[2].v[1], cond))

Bare(n, cond) ==
    LET e(i, min) == ExprWords(n.v[i], min, cond)
        level == Level(n)
    IN  CASE n.k = "name" -> <<n.t>>
          [] n.k \in {"true", "false", "null"} -> W(n.k)
          [] n.k \in {"int_lit", "float_lit", "char_lit", "string_lit", "bytes_lit"} ->
               <<Literal(n)>>
          [] n.k = "struct_lit" -> <<n.v[1].t>> \o Opt(n.v[2], ".", <<n.v[2].v[1].t>>)
                                   \o Inits(n.v[3].v)
          [] n.k = "slice_lit" -> W("[") \o W("]") \o TypeWords(n.v[1], cond)
                                  \o Inits(n.v[2].v)
          [] n.k = "array_lit" -> W("[") \o Exprs(n.v, cond) \o W("]")
          [] n.k = "array_repeat" -> W("[") \o e(1, 0) \o W(";") \o e(2, 0) \o W("]")
          [] n.k = "alloc" -> W("alloc") \o e(1, 0)
          [] n.k = "alloc_raw" -> W("alloc") \o Parens(TypeWords(n.v[1], cond) \o W(",")
                                                       \o e(2, 0))
          [] n.k \in {"dup", "delete", "destroy", "free", "join", "join_all"} ->
               W(n.k) \o Parens(e(1, 0))
          [] n.k = "size_of" -> W(n.k) \o Parens(TypeWords(n.v[1], cond))
          [] n.k = "dispatch" -> W(n.k) \o e(1, 0) \o W("->") \o e(2, 13)
          [] n.k = "parallel" -> W(n.k) \o e(1, 0)
                                 \o Opt(n.v[2], "by", ExprWords(n.v[2].v[1], 0, cond))
                                 \o W("->") \o e(3, 13)
          [] n.k = "call" -> (IF n.v[3].k = "try" THEN W("try") ELSE <<>>)
                             \o e(1, 13) \o Parens(Exprs(n.v[2].v, FALSE))
          [] n.k = "index" -> e(1, 13) \o W("[") \o ExprWords(n.v[2], 0, FALSE)
                              \o Opt(n.v[3], "..", ExprWords(n.v[3].v[1], 0, FALSE))
                              \o W("]")
          [] n.k = "field" -> e(1, 13) \o W(".") \o <<n.t>>
          [] n.k = "unary" -> <<n.t>> \o e(1, 12)
          [] n.k = "as?" -> e(1, 11) \o W("as") \o W("?") \o TypeWords(n.v[2], cond)
          [] n.k \in {"as", "is"} -> e(1, 11) \o W(n.k) \o TypeWords(n.v[2], cond)
          [] n.k = "binary" -> e(1, level) \o <<n.t>> \o e(2, level + 1)

ExprWords(n, min, cond) ==
    IF Level(n) < min \/ (cond /\ n.k \in {"struct_lit", "slice_lit"})
    THEN Parens(Bare(n, FALSE)) ELSE Bare(n, cond)

(***************************************************************************)
(* Statements.                                                             *)
(***************************************************************************)
HandlerWords(h) ==
    CASE h.k = "handler" -> W("catch") \o (IF h.t = <<>> THEN <<>> ELSE <<h.t>>)
                            \o BlockWords(h.v[1])
      [] h.k = "fatal"   -> W("catch") \o W("fatal")
      [] OTHER           -> <<>>

(* The handler behind the value of a let or a call that stands alone.      *)
Caught(e) == LET c == IF e.k = "alloc" THEN e.v[1] ELSE e
                   IN  IF c.k = "call" THEN HandlerWords(c.v[3]) ELSE <<>>

Cond(n) == ExprWords(n, 0, TRUE)
Top(n) == ExprWords(n, 0, FALSE)

ArmWords(n) ==
    CASE n.k = "block"  -> BlockWords(n)
      [] n.k = "assign" -> Top(n.v[1]) \o <<n.t>> \o Top(n.v[2])
      [] OTHER          -> Top(n)

Over(n) ==
    IF Len(n.v) = 2 THEN W("&") \o Cond(n.v[1])
    ELSE Cond(n.v[1]) \o Opt(n.v[2], "..", Cond(n.v[2].v[1])
                             \o Opt(n.v[2].v[2], "by", Cond(n.v[2].v[2].v[1])))

RECURSIVE StatementWords(_)
StatementWords(n) ==
    CASE n.k = "let" -> W("let") \o <<n.v[1].t>>
                        \o Opt(n.v[2], ":", TypeWords(n.v[2].v[1], FALSE))
                        \o W("=") \o Top(n.v[3]) \o Caught(n.v[3]) \o W(";")
      [] n.k = "const" -> W("const") \o <<n.v[1].t>> \o W(":") \o TypeWords(n.v[2], FALSE)
                          \o W("=") \o Top(n.v[3]) \o Caught(n.v[3]) \o W(";")
      [] n.k = "if" -> LET branch(i) == (IF i = 1 THEN W("if") ELSE W("else") \o W("if"))
                                        \o Cond(n.v[2 * i - 1]) \o BlockWords(n.v[2 * i])
                       IN  FlattenSeq([i \in 1..(Len(n.v) \div 2) |-> branch(i)])
                           \o (IF Last(n.v).k = "none" THEN <<>>
                               ELSE W("else") \o BlockWords(Last(n.v)))
      [] n.k = "while" -> W("while") \o Cond(n.v[1]) \o W("do") \o BlockWords(n.v[2])
      [] n.k = "do" -> W("do") \o BlockWords(n.v[1]) \o W("while") \o Cond(n.v[2])
      [] n.k = "for" -> W("for") \o (IF n.t = <<>> THEN <<>> ELSE <<n.t>> \o W("in"))
                        \o Over(n) \o BlockWords(Last(n.v))
      [] n.k = "assert" -> W("assert")
                           \o Parens(Top(n.v[1]) \o Opt(n.v[2], ",", Top(n.v[2].v[1])))
                           \o W(";")
      [] n.k = "switch" ->
           LET all == n.v[2].v
               arm(i) == Top(all[i].v[1]) \o W("=>") \o ArmWords(all[i].v[2])
               arms == [i \in 1..(Len(all) - 1) |-> arm(i)]
               rest == IF Last(all).k = "none" THEN <<>>
                       ELSE <<W("else") \o W("=>") \o ArmWords(Last(all))>>
           IN  W("switch") \o Cond(n.v[1]) \o W("{") \o Commas(arms \o rest) \o W("}")
      [] n.k = "defer" -> W("defer") \o StatementWords(n.v[1])
      [] n.k \in {"break", "continue"} -> W(n.k) \o W(";")
      [] n.k \in {"return", "yield"} ->
           W(n.k) \o (IF n.v = <<>> THEN <<>> ELSE Top(n.v[1])) \o W(";")
      [] n.k = "block" -> BlockWords(n)
      [] n.k = "try" -> W("try") \o BlockWords(n.v[1]) \o HandlerWords(n.v[2])
      [] n.k = "assign" -> ArmWords(n) \o W(";")
      [] OTHER -> Top(n) \o Caught(n) \o W(";")

BlockWords(n) ==
    W("{") \o FlattenSeq([i \in DOMAIN n.v |-> StatementWords(n.v[i])]) \o W("}")

(***************************************************************************)
(* Items.  A doc comment is one word that ends its line.                   *)
(***************************************************************************)
RECURSIVE LinesOf(_)
LinesOf(t) ==
    IF \E i \in DOMAIN t : t[i] = NL
    THEN LET i == CHOOSE i \in DOMAIN t : t[i] = NL /\ \A j \in 1..(i - 1) : t[j] # NL
         IN  <<SubSeq(t, 1, i - 1)>> \o LinesOf(SubSeq(t, i + 1, Len(t)))
    ELSE <<t>>

(* A blank line in the text is the end of one comment and a new one.       *)
DocWords(n, marker) ==
    LET lines == LinesOf(n.t)
    IN  IF n.t = <<>> THEN <<>>
        ELSE <<FlattenSeq([i \in DOMAIN lines |->
                 IF lines[i] = <<>> THEN <<NL>> ELSE Bytes(marker \o " ") \o lines[i] \o <<NL>>])>>

Docs2(v) == DocWords(v[1], "///") \o DocWords(v[2], "//#")
MarkWord(n) == IF n.k \in {"none", "private"} THEN <<>> ELSE W(n.k)
Marks(v) == FlattenSeq([i \in DOMAIN v |-> MarkWord(v[i])])
ResultWords(n) == Opt(n, "->", TypeWords(n.v[1], FALSE))
AlignWords(n) == Opt(n, "align", Parens(Top(n.v[1])))
ConstWords(v) ==
    <<v[1].t>> \o W(":") \o TypeWords(v[2], FALSE) \o W("=") \o Top(v[3]) \o W(";")

ParamWords(n) ==
    LET ps == [i \in DOMAIN n.v |-> <<n.v[i].v[1].t>> \o W(":")
                                    \o TypeWords(n.v[i].v[2], FALSE)]
    IN  Parens(Commas(CASE n.k = "self"     -> <<W("self")>> \o ps
                        [] n.k = "variadic" -> ps \o <<W("...")>>
                        [] OTHER            -> ps))

MemberWords(m) ==
    LET n == m.v[7]
        concrete == m.v[6].k = "concrete"
        fn == IF concrete THEN n.v[3] ELSE n.v[2]
    IN  Docs2(m.v) \o Marks(SubSeq(m.v, 3, 6)) \o W(n.k) \o
        CASE n.k = "static" -> W("atomic") \o ConstWords(n.v)
          [] n.k = "const"  -> ConstWords(n.v)
          [] n.k = "fn"     ->
               <<n.v[1].t>>
               \o (IF concrete THEN Opt(n.v[2], "::", <<n.v[2].v[1].t>>) ELSE <<>>)
               \o ParamWords(fn)
               \o (IF concrete THEN ResultWords(n.v[4]) ELSE ResultWords(n.v[3]))
               \o (IF m.v[6].k = "abstract" THEN W(";") ELSE BlockWords(Last(n.v)))

EntryWords(n, kind) ==
    LET v == n.v
    IN  CASE n.k = "inherits" -> W("inherits") \o <<n.t>>
          [] kind = "enum" -> Docs2(v) \o <<v[3].t>> \o Opt(v[4], "=", Top(v[4].v[1]))
          [] kind = "class" ->
               Docs2(v) \o Marks(SubSeq(v, 3, 7)) \o <<v[8].t>> \o W(":")
               \o TypeWords(v[9], FALSE) \o Opt(v[10], ":", Top(v[10].v[1]))
               \o Opt(v[11], "=", Top(v[11].v[1]))
          [] OTHER -> Docs2(v) \o <<v[3].t>> \o W(":") \o TypeWords(v[4], FALSE)
                      \o Opt(v[5], ":", Top(v[5].v[1]))

Entries2(list, kind) == Commas([i \in DOMAIN list |-> EntryWords(list[i], kind)])
Members(list) == FlattenSeq([i \in DOMAIN list |-> MemberWords(list[i])])

ItemWords(it) ==
    LET n == it.v[8]
        v == n.v
        opened == W(n.k) \o <<v[1].t>>
        comma == IF v[3].v = <<>> THEN <<>> ELSE W(",")
    IN  Docs2(it.v) \o Marks(SubSeq(it.v, 3, 7)) \o
        CASE n.k = "fn" -> opened \o ParamWords(v[2]) \o ResultWords(v[3]) \o BlockWords(v[4])
          [] n.k = "extern" -> W("extern") \o W("fn") \o <<v[1].t>> \o ParamWords(v[2])
                               \o ResultWords(v[3]) \o W(";")
          [] n.k \in {"struct", "union"} ->
               opened \o AlignWords(v[2]) \o W("{") \o Entries2(v[3].v, n.k) \o W("}")
          [] n.k = "class" ->
               opened \o AlignWords(v[2]) \o W("{") \o Entries2(v[3].v, n.k) \o comma
               \o Members(v[4].v) \o W("}")
          [] n.k = "enum" ->
               opened \o Opt(v[2], ":", TypeWords(v[2].v[1], FALSE)) \o W("{")
               \o Entries2(v[3].v, n.k) \o comma \o Members(v[4].v) \o W("}")
          [] n.k = "const" -> W("const") \o ConstWords(v)

ImportWords(n) ==
    LET path == n.v[1].t
        dots == {i \in DOMAIN path : path[i] = Code["."]}
        ends == dots \cup {0, Len(path) + 1}
        segment(i) == SubSeq(path, i + 1, Min({j \in ends : j > i}) - 1)
        starts == SelectSeq([i \in 1..(Len(path) + 1) |-> i - 1],
                            LAMBDA i : i \in ends \ {Len(path) + 1})
        words == FoldLeft(LAMBDA all, i : IF all = <<>> THEN <<segment(i)>>
                                          ELSE all \o W(".") \o <<segment(i)>>,
                          <<>>, starts)
    IN  W("import") \o words \o Opt(n.v[2], "as", <<n.v[2].v[1].t>>) \o W(";")

TreeWords(tree) ==
    LET each(nodes, Of(_)) == FlattenSeq([i \in DOMAIN nodes |-> Of(nodes[i])])
    IN  DocWords(tree.v[1], "//!") \o DocWords(tree.v[2], "//#!")
        \o each(tree.v[3].v, ImportWords) \o each(tree.v[4].v, ItemWords)

(***************************************************************************)
(* Layout: the words with white space between them.                        *)
(***************************************************************************)
Openers == {k \in DOMAIN kinds : k \in Symbols /\ Len(kinds[k]) > 1}

(* Two neighbours that would read as something else without a space.       *)
Fuse(a, b) ==
    LET c == Last(a)
        d == b[1]
    IN  \/ is_ident_char(c) /\ is_ident_char(d)
        \/ \E k \in Openers : kinds[k][1] = c /\ kinds[k][2] = d
        \/ c = Code["/"] /\ d \in {Code["/"], Code["*"]}

(* gap stands between two words; "tight" leaves out what can be left out.  *)
(* The word number drop (0: none) is missing, the gap behind it stays.     *)
Layout(words, layout, drop) ==
    LET gap(a, b) == CASE layout = "lines"     ->
                            IF a \in {Bytes(";"), Bytes("{"), Bytes("}")} THEN <<NL>>
                            ELSE Bytes(" ")
                       [] layout = "commented" -> Bytes(" /*x*/") \o <<NL, TAB>>
                       [] layout = "tight"     -> IF Fuse(a, b) THEN Bytes(" ") ELSE <<>>
        word(i) == IF i = drop THEN <<>> ELSE words[i]
    IN  FlattenSeq([i \in DOMAIN words |->
            IF i = Len(words) THEN word(i) ELSE word(i) \o gap(words[i], words[i + 1])])
=============================================================================
