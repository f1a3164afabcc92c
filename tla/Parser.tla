------------------------------- MODULE Parser -------------------------------
(***************************************************************************)
(* The parser of antic, src/parser.c: recursive descent with panic mode.   *)
(*                                                                         *)
(* A node of the tree is [k, t, v]: its kind, its text or number and its   *)
(* parts.  p is struct parser.  A rule of the grammar gives [p, ok, n]; ok *)
(* is false where the C function returns NULL.  A chain of                 *)
(*     !expect(...) || (x = rule(p)) == NULL || ...                        *)
(* is written as a sequence of steps, which Steps runs from left to right  *)
(* and abandons at the first that fails.                                   *)
(***************************************************************************)
EXTENDS Lexer

N(k, t, v) == [k |-> k, t |-> t, v |-> v]
None == N("none", <<>>, <<>>)
List(v) == N("list", <<>>, v)

Got(p, n) == [p |-> p, ok |-> TRUE, n |-> n]
Nothing(p) == [p |-> p, ok |-> FALSE, n |-> None]

(***************************************************************************)
(* The token cursor.  The last token is the only "eof".                    *)
(***************************************************************************)
Words == {"by", "in", "fatal", "packed", "align", "final", "operator", "own",
          "mutable"}

peek_at(p, ahead) ==
    p.tokens[IF p.pos + ahead < Len(p.tokens) THEN p.pos + ahead ELSE Len(p.tokens)]

peek(p) == peek_at(p, 0)

is_word(t, word) == t.kind = "ident" /\ t.value = Bytes(word)

Is(t, k) == IF k \in Words THEN is_word(t, k) ELSE t.kind = k

check(p, k) == Is(peek(p), k)

next(p) == IF check(p, "eof") THEN p ELSE [p EXCEPT !.pos = @ + 1]

error_here(p, what) ==
    [p EXCEPT !.ok = FALSE, !.panic = TRUE,
              !.errors = IF p.panic THEN @
                         ELSE Append(@, [line |-> peek(p).line,
                                         column |-> peek(p).column, what |-> what])]

is_doc(kind) == kind \in DocKinds

(* The texts of several comments, with a blank line before each but the    *)
(* first that says something.                                              *)
Joined(texts) ==
    FoldLeft(LAMBDA all, t : IF all = <<>> THEN t ELSE all \o <<NL, NL>> \o t, <<>>, texts)

(* Every comment before the token is marked, whatever its kind.            *)
doc_before_any(p, kind) ==
    LET first == IF p.pos = 1 THEN 1 ELSE p.origin[p.pos - 1] + 1
        here  == SelectSeq([i \in 1..(p.origin[p.pos] - first) |-> first + i - 1],
                           LAMBDA i : p.all[i].kind = kind)
    IN  [p |-> [p EXCEPT !.taken = @ \cup (first..(p.origin[p.pos] - 1))],
         n |-> N("doc", Joined([i \in DOMAIN here |-> p.all[here[i]].value]), <<>>)]

(* The comments of one kind between the previous token and this one.       *)
doc_before(p, kind) ==
    LET first == IF p.pos = 1 THEN 1 ELSE p.origin[p.pos - 1] + 1
        here  == SelectSeq([i \in 1..(p.origin[p.pos] - first) |-> first + i - 1],
                           LAMBDA i : p.all[i].kind = kind)
    IN  [p |-> [p EXCEPT !.taken = @ \cup ToSet(here)],
         n |-> N("doc", Joined([i \in DOMAIN here |-> p.all[here[i]].value]), <<>>)]

(***************************************************************************)
(* Recovery.                                                               *)
(***************************************************************************)
StatementStart == {"}", "eof", "let", "const", "if", "while", "do", "return", "break",
                   "continue"}

(* The token that stopped the search is passed over as well.               *)
sync_statement_past(p) ==
    LET stop == CHOOSE i \in p.pos..Len(p.tokens) :
            /\ p.tokens[i].kind \in StatementStart \cup {";"}
            /\ \A j \in p.pos..(i - 1) : p.tokens[j].kind \notin StatementStart \cup {";"}
    IN  next([p EXCEPT !.panic = FALSE, !.pos = stop])

sync_statement(p) ==
    LET stop == CHOOSE i \in p.pos..Len(p.tokens) :
            /\ p.tokens[i].kind \in StatementStart \cup {";"}
            /\ \A j \in p.pos..(i - 1) : p.tokens[j].kind \notin StatementStart \cup {";"}
    IN  [p EXCEPT !.panic = FALSE,
                  !.pos = IF p.tokens[stop].kind = ";" THEN stop + 1 ELSE stop]

RECURSIVE sync_item(_, _)
sync_item(p, depth) ==
    LET k == peek(p).kind
        inner == IF k = "{" THEN depth + 1
                 ELSE IF k = "}" /\ depth > 0 THEN depth - 1 ELSE depth
    IN  IF k = "eof" \/ /\ depth = 0
                        /\ k \in {"fn", "struct", "union", "extern", "const", "pub",
                                  "export", "import"}
        THEN [p EXCEPT !.panic = FALSE]
        ELSE sync_item(next(p), inner)

sync_import(p, line) ==
    LET stop == CHOOSE i \in p.pos..Len(p.tokens) :
            LET on(j) == p.tokens[j].kind # "eof" /\ p.tokens[j].line = line
            IN  /\ \/ ~on(i)
                   \/ i > p.pos /\ p.tokens[i - 1].kind = ";"
                /\ \A j \in p.pos..(i - 1) :
                       on(j) /\ (j > p.pos => p.tokens[j - 1].kind # ";")
    IN  [p EXCEPT !.pos = stop, !.panic = FALSE]

(***************************************************************************)
(* Steps.                                                                  *)
(***************************************************************************)
Step(op, k, s) == [op |-> op, k |-> k, s |-> s]

X(k) == Step("expect", k, <<>>)             \* this token
Q(k) == Step("accept", k, <<>>)             \* this token, or nothing
O(k, s) == Step("option", k, s)             \* this token and what follows it, or nothing
L(close, s) == Step("list", close, s)       \* s, s, ... up to the closing token
F(s) == Step("fresh", "", s)                \* s, with struct literals allowed
No(ks) == Step("refuse", ks, <<>>)          \* an error at one of these tokens
Mark(ks, before) == Step("mark", ks, before) \* one of these words, if it stands so
D(kind) == Step("doc", kind, <<>>)
V(own, other) == Step("vis", own, other)
P(k) == Step("params", k, <<>>)
R(rule) == Step(rule, "", <<>>)

NAME == R("name")
TYPE == R("type")
EXPR == R("expr")
COND == R("cond")
BLOCK == R("block")
POSTFIX == R("postfix")

expect(p, k) ==
    IF check(p, k) THEN Got(next(p), None) ELSE Nothing(error_here(p, "expected " \o k))

expect_name(p) ==
    IF check(p, "ident") THEN Got(next(p), N("name", peek(p).value, <<>>))
    ELSE Nothing(error_here(p, "expected ident"))

RECURSIVE type(_)
RECURSIVE expression(_)
RECURSIVE postfix(_)
RECURSIVE block(_)
RECURSIVE params(_, _)
RECURSIVE Items(_, _, _)
RECURSIVE Steps(_, _)

condition(p) ==
    LET r == expression([p EXCEPT !.no_struct_literal = TRUE])
    IN  [r EXCEPT !.p.no_struct_literal = p.no_struct_literal]

(* The level an item or a member is visible at.                            *)
visibility(p, own, other) ==
    LET k == IF \E j \in {"export", "pub", own} : check(p, j) THEN peek(p).kind
             ELSE "private"
        q == IF k = "private" THEN p ELSE next(p)
    IN  IF k # own /\ check(q, other) THEN Nothing(error_here(q, "misplaced " \o other))
        ELSE Got(q, N(k, <<>>, <<>>))

(* One step: the parser after it and the nodes it adds.                    *)
Run(p, s) ==
    LET Adds(r) == [p |-> r.p, ok |-> r.ok, v |-> <<r.n>>]
        Only(r) == [p |-> r.p, ok |-> r.ok, v |-> <<>>]
        Skip    == [p |-> p, ok |-> TRUE, v |-> <<>>]
        inner   == Steps([p EXCEPT !.no_struct_literal = FALSE], s.s)
        rest    == Steps(next(p), s.s)
        words   == {k \in s.k : check(p, k) /\ (s.s = {} \/ peek_at(p, 1).kind \in s.s)}
        doc     == doc_before(p, s.k)
    IN  CASE s.op = "expect"  -> Only(expect(p, s.k))
          [] s.op = "accept"  -> IF check(p, s.k) THEN [Skip EXCEPT !.p = next(p)] ELSE Skip
          [] s.op = "option"  -> IF check(p, s.k)
                                 THEN [rest EXCEPT !.v = <<N("some", <<>>, @)>>]
                                 ELSE [Skip EXCEPT !.v = <<None>>]
          [] s.op = "list"    -> Adds(Items(p, s, <<>>))
          [] s.op = "fresh"   -> [inner EXCEPT !.p.no_struct_literal = p.no_struct_literal]
          [] s.op = "refuse"  -> IF \E k \in s.k : check(p, k)
                                 THEN Only(Nothing(error_here(p, "misplaced"))) ELSE Skip
          [] s.op = "mark"    -> IF words = {} THEN [Skip EXCEPT !.v = <<None>>]
                                 ELSE Adds(Got(next(p), N(CHOOSE k \in words : TRUE, <<>>,
                                                          <<>>)))
          [] s.op = "doc"     -> Adds(Got(doc.p, doc.n))
          [] s.op = "not_atomic" -> Only(Nothing(error_here(p, "static is atomic")))
          [] s.op = "vis"     -> Adds(visibility(p, s.k, s.s))
          [] s.op = "name"    -> Adds(expect_name(p))
          [] s.op = "string"  -> IF check(p, "string_lit")
                                 THEN Adds(Got(next(p), N("string_lit", peek(p).value, <<>>)))
                                 ELSE Only(Nothing(error_here(p, "expected a string literal")))
          [] s.op = "type"    -> Adds(type(p))
          [] s.op = "expr"    -> Adds(expression(p))
          [] s.op = "cond"    -> Adds(condition(p))
          [] s.op = "block"   -> Adds(block(p))
          [] s.op = "postfix" -> Adds(postfix(p))
          [] s.op = "params"  -> Adds(params(p, s.k))

Steps(p, s) ==
    IF s = <<>> THEN [p |-> p, ok |-> TRUE, v |-> <<>>]
    ELSE LET r == Run(p, Head(s))
         IN  IF ~r.ok THEN r
             ELSE LET more == Steps(r.p, Tail(s)) IN [more EXCEPT !.v = r.v \o @]

(* The loop of a list up to its closing token, and that token.             *)
Items(p, s, done) ==
    IF check(p, s.k) THEN Got(next(p), List(done))
    ELSE LET r == Steps(p, s.s)
             all == Append(done, IF Len(r.v) = 1 THEN r.v[1] ELSE N("item", <<>>, r.v))
         IN  IF ~r.ok THEN Nothing(r.p)
             ELSE IF check(r.p, ",") THEN Items(next(r.p), s, all)
             ELSE LET e == expect(r.p, s.k) IN [e EXCEPT !.n = List(all)]

(* A node of kind k from steps, and one whose first part was read before.  *)
Rule(p, k, s) == LET r == Steps(p, s) IN [p |-> r.p, ok |-> r.ok, n |-> N(k, <<>>, r.v)]

Then(first, k, s) ==
    IF ~first.ok THEN first
    ELSE LET r == Steps(first.p, s)
         IN  [p |-> r.p, ok |-> r.ok, n |-> N(k, <<>>, <<first.n>> \o r.v)]

(***************************************************************************)
(* Types.                                                                  *)
(***************************************************************************)
is_builtin_type(k) == k \in {"bool", "byte", "char", "f32", "f64", "float", "i8", "i16",
    "i32", "i64", "int", "str", "u8", "u16", "u32", "u64", "uint", "c_char", "c_double",
    "c_float", "c_int", "c_longlong", "c_short", "c_size_t", "c_uchar", "c_uint",
    "c_ulonglong", "c_ushort", "c_long", "c_ulong", "c_wchar"}

type(p) ==
    LET k == peek(p).kind
    IN  CASE is_builtin_type(k) -> Got(next(p), N("builtin", peek(p).value, <<>>))
          [] k = "ident" -> Rule(p, "named", <<NAME, O(".", <<NAME>>)>>)
          [] k = "*"  -> Rule(next(p), "pointer", <<TYPE>>)
          [] k = "[" /\ peek_at(p, 1).kind = "]" -> Rule(next(next(p)), "slice", <<TYPE>>)
          [] k = "[" /\ peek_at(p, 1).kind # "]" -> Rule(next(p), "array", <<EXPR, X("]"), TYPE>>)
          [] k = "fn" -> Rule(next(p), "fn_type",
                              <<X("("), L(")", <<TYPE>>), O("->", <<TYPE>>)>>)
          [] OTHER    -> Nothing(error_here(p, "expected a type"))

(***************************************************************************)
(* Expressions.                                                            *)
(***************************************************************************)
field_inits == F(<<L("}", <<NAME, X(":"), EXPR>>)>>)
Operand == <<X("("), EXPR, Q(","), X(")")>>

array_literal(p) ==
    LET first == expression(p)
        more  == Items(next(first.p), L("]", <<EXPR>>), <<>>)
    IN  IF ~first.ok THEN first
        ELSE IF check(first.p, ";") THEN Then(first, "array_repeat", <<X(";"), EXPR, X("]")>>)
        ELSE IF check(first.p, ",")
        THEN [more EXCEPT !.n = N("array_lit", <<>>, <<first.n>> \o @.v)]
        ELSE Then(first, "array_lit", <<X("]")>>)

primary(p) ==
    LET t == peek(p)
        k == t.kind
        q == next(p)
        second == peek_at(p, 1).kind
        qualified == second = "." /\ peek_at(p, 2).kind = "ident" /\ peek_at(p, 3).kind = "{"
        paren == Steps(q, <<F(<<EXPR>>), X(")")>>)
        Refused == Nothing(error_here(p, "expected an expression"))
    IN  CASE k \in {"int_lit", "char_lit"} -> Got(q, N(k, <<t.value>>, <<>>))
          [] k \in {"float_lit", "string_lit", "bytes_lit"} -> Got(q, N(k, t.value, <<>>))
          [] k \in {"true", "false", "null"} -> Got(q, N(k, <<>>, <<>>))
          [] k = "self" -> Got(q, N("name", t.value, <<>>))
          [] k = "ident" ->
               IF ~p.no_struct_literal /\ (qualified \/ second = "{")
               THEN Rule(p, "struct_lit", <<NAME, O(".", <<NAME>>), X("{"), field_inits>>)
               ELSE expect_name(p)
          [] k = "(" -> IF paren.ok THEN Got(paren.p, paren.v[1]) ELSE Nothing(paren.p)
          [] k = "[" ->
               IF second # "]" THEN array_literal(q)
               ELSE IF p.no_struct_literal THEN Refused
               ELSE Rule(next(q), "slice_lit", <<TYPE, X("{"), field_inits>>)
          [] k = "alloc" ->
               IF second # "(" THEN Rule(q, "alloc", <<EXPR>>)
               ELSE Rule(q, "alloc_raw", <<X("("), TYPE, X(","), EXPR, Q(","), X(")")>>)
          [] k \in {"dup", "delete", "destroy", "free", "join", "join_all"} ->
               Rule(q, k, Operand)
          [] k = "size_of"  -> Rule(q, k, <<X("("), TYPE, Q(","), X(")")>>)
          [] k = "dispatch" -> Rule(q, k, <<EXPR, X("->"), POSTFIX>>)
          [] k = "parallel" -> Rule(q, k, <<EXPR, O("by", <<EXPR>>), X("->"), POSTFIX>>)
          [] OTHER -> Refused

RECURSIVE Postfixes(_)
Postfixes(r) ==
    LET k == peek(r.p).kind
        q == next(r.p)
        more == Steps(q, IF k = "(" THEN <<F(<<L(")", <<EXPR>>)>>)>>
                         ELSE <<F(<<EXPR, O("..", <<EXPR>>)>>), X("]")>>)
    IN  IF ~r.ok THEN r
        ELSE IF k = "(" /\ more.ok
        THEN Postfixes(Got(more.p, N("call", <<>>, <<r.n>> \o more.v \o <<None>>)))
        ELSE IF k = "[" /\ more.ok
        THEN Postfixes(Got(more.p, N("index", <<>>, <<r.n>> \o more.v)))
        ELSE IF k \in {"(", "["} THEN Nothing(more.p)
        ELSE IF k # "." THEN r
        ELSE IF peek(q).kind \in {"ident", "super"}
        THEN Postfixes(Got(next(q), N("field", peek(q).value, <<r.n>>)))
        ELSE Nothing(error_here(q, "expected ident"))

postfix(p) == Postfixes(primary(p))

(* A call carries its handler as its third part.                           *)
Handled(n, handler) == [n EXCEPT !.v[3] = handler]

RECURSIVE unary(_)
unary(p) ==
    LET k == peek(p).kind
        r == unary(next(p))
        c == postfix(next(p))
    IN  IF k \in {"-", "!", "~", "*", "&"}
        THEN IF r.ok THEN Got(r.p, N("unary", kinds[k], <<r.n>>)) ELSE r
        ELSE IF k # "try" THEN postfix(p)
        ELSE IF ~c.ok THEN c
        ELSE IF c.n.k # "call" THEN Nothing(error_here(c.p, "try stands before a call"))
        ELSE Got(c.p, Handled(c.n, N("try", <<>>, <<>>)))

RECURSIVE Casts(_)
Casts(r) ==
    LET q == next(r.p)
        checked == check(r.p, "as") /\ check(q, "?")
    IN  IF ~r.ok \/ peek(r.p).kind \notin {"as", "is"} THEN r
        ELSE IF checked THEN Casts(Then([r EXCEPT !.p = next(q)], "as?", <<TYPE>>))
        ELSE Casts(Then([r EXCEPT !.p = q], peek(r.p).kind, <<TYPE>>))

cast(p) == Casts(unary(p))

Levels == <<{"||"}, {"&&"}, {"|"}, {"^"}, {"&"}, {"==", "!="}, {"<", "<=", ">", ">="},
            {"<<", ">>"}, {"+", "-"}, {"*", "/", "%"}>>

precedence(k) ==
    IF \E i \in DOMAIN Levels : k \in Levels[i]
    THEN CHOOSE i \in DOMAIN Levels : k \in Levels[i] ELSE 0

\* Mutant: the right operand takes the operators of its own level as well.
RECURSIVE Operators_right(_, _)
Operators_right(r, min) ==
    LET op == peek(r.p).kind
        right == Operators_right(cast(next(r.p)), precedence(op))
    IN  IF ~r.ok \/ precedence(op) < min THEN r
        ELSE IF ~right.ok THEN right
        ELSE Operators_right(Got(right.p, N("binary", kinds[op], <<r.n, right.n>>)), min)

(* The loop of binary, after its first operand.                            *)
RECURSIVE Operators(_, _)
Operators(r, min) ==
    LET op == peek(r.p).kind
        right == Operators(cast(next(r.p)), precedence(op) + 1)
    IN  IF ~r.ok \/ precedence(op) < min THEN r
        ELSE IF ~right.ok THEN right
        ELSE Operators(Got(right.p, N("binary", kinds[op], <<r.n, right.n>>)), min)

\* Mutant of binary.
binary_right(p, min) == Operators_right(cast(p), min)

binary(p, min) == Operators(cast(p), min)

expression(p) == binary(p, 1)

(***************************************************************************)
(* Statements.                                                             *)
(***************************************************************************)
AssignOps == {"=", "+=", "-=", "*=", "/=", "%=", "&=", "|=", "^=", "<<=", ">>="}

is_assign_op(k) == k \in AssignOps

(* What follows catch, and a handler that must be there.                   *)
read_handler(p) ==
    LET q == next(p)
        name == IF check(q, "ident") THEN peek(q).value ELSE <<>>
        body == block(IF check(q, "ident") THEN next(q) ELSE q)
    IN  IF ~check(p, "catch") THEN Nothing(error_here(p, "expected catch"))
        ELSE IF check(q, "fatal") THEN Got(next(q), N("fatal", <<>>, <<>>))
        ELSE IF body.ok THEN Got(body.p, N("handler", name, <<body.n>>))
        ELSE body

(* The call whose error the handler of a let takes.                        *)
let_or_const(p) ==
    LET k == peek(p).kind
        r == Rule(next(p), k, (IF k = "const" THEN <<NAME, X(":"), TYPE>>
                               ELSE <<NAME, O(":", <<TYPE>>)>>) \o <<X("="), EXPR>>)
        value == Last(r.n.v)
        inner == IF value.k = "alloc" THEN value.v[1] ELSE value
        h == read_handler(r.p)
        handled == Handled(inner, h.n)
        caught == [r.n EXCEPT !.v[Len(r.n.v)] =
                      IF value.k = "alloc" THEN N("alloc", <<>>, <<handled>>) ELSE handled]
        end(q, n) == LET e == expect(q, ";") IN [e EXCEPT !.n = n]
    IN  IF ~r.ok THEN r
        ELSE IF ~check(r.p, "catch") THEN end(r.p, r.n)
        ELSE IF inner.k # "call" THEN Nothing(error_here(r.p, "catch follows a call"))
        ELSE IF ~h.ok THEN h
        ELSE end(h.p, caught)

Assignment(e) ==
    LET value == expression(next(e.p))
    IN  IF value.ok
        THEN Got(value.p, N("assign", kinds[peek(e.p).kind], <<e.n, value.n>>)) ELSE value

arm_body(p) ==
    LET e == expression(p)
    IN  IF check(p, "{") THEN block(p)
        ELSE IF ~e.ok THEN e
        ELSE IF is_assign_op(peek(e.p).kind) THEN Assignment(e)
        ELSE IF e.n.k # "call" THEN Nothing(error_here(e.p, "an arm of a switch"))
        ELSE e

RECURSIVE if_statement(_, _)
if_statement(p, done) ==
    LET b == Steps(next(p), <<COND, BLOCK>>)
        branches == done \o b.v
        otherwise == block(next(b.p))
    IN  IF ~b.ok THEN Nothing(b.p)
        ELSE IF ~check(b.p, "else") THEN Got(b.p, N("if", <<>>, Append(branches, None)))
        ELSE IF check(next(b.p), "if") THEN if_statement(next(b.p), branches)
        ELSE IF ~otherwise.ok THEN otherwise
        ELSE Got(otherwise.p, N("if", <<>>, Append(branches, otherwise.n)))

for_statement(p) ==
    LET bound == peek_at(p, 1).kind = "ident" /\ Is(peek_at(p, 2), "in")
        name  == IF bound THEN peek_at(p, 1).value ELSE <<>>
        q     == [p EXCEPT !.pos = IF bound THEN @ + 3 ELSE @ + 1,
                           !.no_struct_literal = TRUE]
        over  == IF check(q, "&") THEN Steps(next(q), <<EXPR>>)
                 ELSE Steps(q, <<EXPR, O("..", <<EXPR, O("by", <<EXPR>>)>>)>>)
        after == [over.p EXCEPT !.no_struct_literal = FALSE]
        body  == block(after)
    IN  IF ~over.ok THEN Nothing(after)
        ELSE IF ~body.ok THEN body
        ELSE Got(body.p, N("for", name, Append(over.v, body.n)))

(* The arms after the opening brace; otherwise is the body of the else.    *)
RECURSIVE Arms(_, _, _)
Arms(p, done, otherwise) ==
    LET rest == check(p, "else")
        value == IF rest THEN Got(next(p), None) ELSE expression(p)
        arrow == expect(value.p, "=>")
        body  == arm_body(arrow.p)
        arms  == IF rest THEN done ELSE Append(done, N("item", <<>>, <<value.n, body.n>>))
        last  == IF rest THEN body.n ELSE otherwise
        end(q, as, o) == LET e == expect(q, "}") IN [e EXCEPT !.n = List(Append(as, o))]
    IN  IF check(p, "}") \/ check(p, "eof") THEN end(p, done, otherwise)
        ELSE IF rest /\ otherwise # None THEN Nothing(error_here(next(p), "one else"))
        ELSE IF ~value.ok THEN value
        ELSE IF ~arrow.ok THEN arrow
        ELSE IF ~body.ok THEN body
        ELSE IF check(body.p, ",") THEN Arms(next(body.p), arms, last)
        ELSE end(body.p, arms, last)

switch_statement(p) ==
    LET value == expression([next(p) EXCEPT !.no_struct_literal = TRUE])
        open  == expect([value.p EXCEPT !.no_struct_literal = FALSE], "{")
        arms  == Arms(open.p, <<>>, None)
    IN  IF ~value.ok THEN Nothing([value.p EXCEPT !.no_struct_literal = FALSE])
        ELSE IF ~open.ok THEN open
        ELSE IF ~arms.ok THEN arms
        ELSE Got(arms.p, N("switch", <<>>, <<value.n, arms.n>>))

simple_statement(p) ==
    LET e == expression(p)
        assigned == is_assign_op(peek(e.p).kind)
        h == read_handler(e.p)
        a == IF assigned THEN Assignment(e)
             ELSE IF e.n.k = "call" /\ check(e.p, "catch")
             THEN [h EXCEPT !.n = Handled(e.n, h.n)]
             ELSE e
        end == expect(a.p, ";")
    IN  IF ~e.ok THEN e
        ELSE IF ~a.ok \/ ~end.ok THEN Nothing(IF a.ok THEN end.p ELSE a.p)
        ELSE IF ~assigned /\ a.n.k \notin {"call", "free", "dup", "delete", "destroy", "join",
                                           "join_all"}
        THEN Nothing(error_here(a.p, "expected a call or an assignment"))
        ELSE Got(end.p, a.n)

RECURSIVE statement(_)
statement(p) ==
    LET k == peek(p).kind
        q == next(p)
        deferred == statement(q)
        body == block(q)
        handler == read_handler(body.p)
    IN  CASE k \in {"let", "const"} -> let_or_const(p)
          [] k = "if"     -> if_statement(p, <<>>)
          [] k = "while"  -> Rule(q, k, <<COND, X("do"), BLOCK>>)
          [] k = "for"    -> for_statement(p)
          [] k = "do"     -> Rule(q, k, <<BLOCK, X("while"), COND>>)
          [] k = "assert" -> Rule(q, k, <<X("("), EXPR, O(",", <<R("string")>>), X(")"),
                                          X(";")>>)
          [] k = "switch" -> switch_statement(p)
          [] k = "defer"  ->
               IF ~deferred.ok THEN deferred
               ELSE IF deferred.n.k = "defer"
               THEN Nothing(error_here(deferred.p, "a defer holds one statement"))
               ELSE Got(deferred.p, N(k, <<>>, <<deferred.n>>))
          [] k \in {"break", "continue"} -> Rule(q, k, <<X(";")>>)
          [] k \in {"return", "yield"} ->
               Rule(q, k, IF check(q, ";") THEN <<X(";")>> ELSE <<EXPR, X(";")>>)
          [] k = "{" -> block(p)
          [] k = "try" /\ check(q, "{") ->
               IF ~body.ok THEN body
               ELSE IF ~handler.ok THEN handler
               ELSE Got(handler.p, N(k, <<>>, <<body.n, handler.n>>))
          [] OTHER -> simple_statement(p)

RECURSIVE Statements(_, _)
Statements(p, done) ==
    LET s == statement(p)
    IN  IF check(p, "}") \/ check(p, "eof") THEN [p |-> p, v |-> done]
        ELSE IF s.ok THEN Statements(s.p, Append(done, s.n))
        ELSE Statements(sync_statement(s.p), done)

block(p) ==
    LET open == expect(p, "{")
        body == Statements(open.p, <<>>)
        close == expect(body.p, "}")
    IN  IF ~open.ok THEN open ELSE [close EXCEPT !.n = N("block", <<>>, body.v)]

(***************************************************************************)
(* Items.                                                                  *)
(***************************************************************************)
Docs == <<D("doc"), D("note")>>
Constant == <<NAME, X(":"), TYPE, X("="), EXPR, X(";")>>
Alignment == O("align", <<X("("), EXPR, X(")")>>)
Result == O("->", <<TYPE>>)

(* The list after "(" and self: form says what else it may hold.           *)
RECURSIVE ParamList(_, _, _)
ParamList(p, form, done) ==
    LET r == Steps(p, <<NAME, X(":"), TYPE>>)
        all == Append(done, N("item", <<>>, r.v))
        end(q, v, dots) == LET e == expect(q, ")")
                           IN  [e EXCEPT !.n = N(IF dots THEN "variadic" ELSE "params",
                                                 <<>>, v)]
    IN  IF check(p, ")") THEN end(p, done, FALSE)
        ELSE IF form = "variadic" /\ done # <<>> /\ check(p, "...")
        THEN end(IF check(next(p), ",") THEN next(next(p)) ELSE next(p), done, TRUE)
        ELSE IF ~r.ok THEN Nothing(r.p)
        ELSE IF check(r.p, ",") THEN ParamList(next(r.p), form, all)
        ELSE end(r.p, all, FALSE)

params(p, form) ==
    LET open == expect(p, "(")
        self == form = "self" /\ check(open.p, "self")
        q    == next(open.p)
        alone == expect(q, ")")
        list == ParamList(IF self THEN next(q) ELSE open.p, form, <<>>)
        Self(r) == [r EXCEPT !.n = N("self", <<>>, @.v)]
    IN  IF ~open.ok THEN open
        ELSE IF ~self THEN list
        ELSE IF check(q, ",") THEN Self(list) ELSE Self(alone)

starts_member(p) ==
    LET i == IF peek(p).kind \in {"pub", "protected", "export"} THEN 1 ELSE 0
    IN  \/ peek_at(p, i).kind \in {"fn", "export", "pub", "abstract", "concrete", "const",
                                   "static"}
        \/ /\ Is(peek_at(p, i), "final") \/ Is(peek_at(p, i), "operator")
           /\ peek_at(p, i + 1).kind = "fn"

member(p) ==
    LET head == Steps(p, Docs \o <<V("protected", "internal"), Mark({"final"}, {"fn"}),
                                   Mark({"operator"}, {"fn"}),
                                   Mark({"abstract", "concrete"}, {})>>)
        contract == head.v[6].k
        q == head.p
        atomic == check(next(q), "atomic")
        rest == CASE contract = "none" /\ check(q, "static") ->
                       Rule(next(q), "static",
                            IF atomic THEN <<X("atomic")>> \o Constant
                            ELSE <<NAME, R("not_atomic")>>)
                  [] contract = "none" /\ check(q, "const") ->
                       Rule(next(q), "const", Constant)
                  [] OTHER ->
                       Rule(q, "fn", <<X("fn"), NAME,
                                IF contract = "concrete" THEN O("::", <<NAME>>)
                                ELSE No({"::"}),
                                P("self"), Result,
                                IF contract = "abstract" THEN X(";") ELSE BLOCK>>)
    IN  IF ~head.ok THEN Nothing(q)
        ELSE [rest EXCEPT !.n = N("member", <<>>, Append(head.v, @))]

RECURSIVE members_of(_, _)
members_of(p, done) ==
    LET m == member(p)
    IN  IF check(p, "}") \/ check(p, "eof") THEN Got(p, List(done))
        ELSE IF ~m.ok THEN m
        ELSE members_of(m.p, Append(done, m.n))

(* What only a class may hold.                                             *)
struct_field_only == No({"fn", "pub", "export", "abstract", "concrete", "const", "static",
                         "use", "inherits", "implements", "protected"})

StructField == Docs \o <<struct_field_only, NAME, X(":"), TYPE, O(":", <<EXPR>>), No({"="})>>

(* The fields of a struct: at least one.                                   *)
struct_fields(p) ==
    LET first == Steps(p, StructField)
        f == N("item", <<>>, first.v)
    IN  IF ~first.ok THEN Nothing(first.p)
        ELSE IF check(first.p, ",") THEN Items(next(first.p), L("}", StructField), <<f>>)
        ELSE LET e == expect(first.p, "}") IN [e EXCEPT !.n = List(<<f>>)]

(* A field of a class.  The docs of inherits are read and go nowhere.      *)
ClassField(p) ==
    LET docs == Steps(p, Docs)
        form == Run(docs.p, Mark({"implements", "use"}, {}))
        base == expect_name(next(docs.p))
        rest == Steps(form.p, <<IF form.v[1] = None THEN Mark({"pub", "protected"}, {})
                                ELSE Mark({}, {}),
                                Mark({"own"}, {"ident"}), Mark({"mutable"}, {"ident"}),
                                Mark({"atomic"}, {"ident"}), NAME, X(":"), TYPE,
                                O(":", <<EXPR>>), O("=", <<EXPR>>)>>)
    IN  IF check(docs.p, "inherits") THEN [base EXCEPT !.n = N("inherits", @.t, <<>>)]
        ELSE [p |-> rest.p, ok |-> rest.ok,
              n |-> N("item", <<>>, docs.v \o form.v \o rest.v)]

EnumValue(p) == Rule(p, "item", Docs \o <<NAME, O("=", <<EXPR>>)>>)

(* The fields of a class, or the values of an enum.                        *)
RECURSIVE Entries(_, _, _)
Entries(p, kind, done) ==
    LET e == IF kind = "class" THEN ClassField(p) ELSE EnumValue(p)
        based == \E i \in DOMAIN done : done[i].k = "inherits"
        all == Append(done, e.n)
    IN  IF check(p, "}") \/ check(p, "eof") \/ starts_member(p) THEN Got(p, List(done))
        ELSE IF based /\ check(p, "inherits")
        THEN Nothing(error_here(p, "a class has one base"))
        ELSE IF ~e.ok THEN e
        ELSE IF check(e.p, ",") THEN Entries(next(e.p), kind, all)
        ELSE Got(e.p, List(all))

(* The body of a class or an enum, after its opening brace.                *)
Body(head, kind) ==
    LET fields == Entries(head.p, kind, <<>>)
        members == members_of(fields.p, <<>>)
        end == expect(members.p, "}")
    IN  IF ~head.ok THEN head
        ELSE IF ~fields.ok THEN fields
        ELSE IF ~members.ok THEN members
        ELSE [end EXCEPT !.n = N(kind, <<>>, head.n.v \o <<fields.n, members.n>>)]

class_item(p) == Body(Rule(p, "class", <<X("class"), NAME, Alignment, X("{")>>), "class")

item(p) ==
    LET head == Steps(p, Docs \o <<V("internal", "protected")>>)
        exported == head.v[3].k = "export"
        marks == Steps(head.p,
                    <<IF exported THEN No({"extern"}) ELSE No({}),
                      Mark({"abstract", "final", "singleton"}, {"class"}),
                      Mark({"operator"}, {"fn"}), Mark({"worker"}, {})>>)
        worker == marks.v[3] # None
        packed == Run(marks.p, Mark({"packed"}, {"struct", "union", "class"}))
        q == packed.p
        k == peek(q).kind
        fields == Rule(q, k, <<X(k), NAME, Alignment, X("{")>>)
        struct == struct_fields(fields.p)
        rest == CASE k = "fn"     -> Rule(q, k, <<X(k), NAME, P(""), Result, BLOCK>>)
                  [] k = "extern" -> Rule(q, k, <<X(k), X("fn"), NAME, P("variadic"), Result,
                                                  X(";")>>)
                  [] k \in {"struct", "union"} ->
                       IF ~fields.ok THEN fields
                       ELSE [struct EXCEPT !.n = N(k, <<>>, Append(fields.n.v, @))]
                  [] k = "class"  -> class_item(q)
                  [] k = "enum"   -> Body(Rule(q, k, <<X(k), NAME, O(":", <<TYPE>>), X("{")>>),
                                          k)
                  [] k = "const"  -> Rule(next(q), k, Constant)
                  [] OTHER        -> Nothing(error_here(q, "expected an item"))
    IN  IF ~head.ok THEN Nothing(head.p)
        ELSE IF ~marks.ok THEN Nothing(marks.p)
        ELSE IF worker /\ ~check(marks.p, "fn")
        THEN Nothing(error_here(marks.p, "worker stands before fn"))
        ELSE [rest EXCEPT !.n = N("item", <<>>, head.v \o marks.v \o packed.v \o <<@>>)]

(***************************************************************************)
(* parse: the start, one turn of each of its loops, and the end.           *)
(***************************************************************************)
RECURSIVE module_path(_, _)
module_path(p, done) ==
    LET s == expect_name(p)
        path == IF done = <<>> THEN s.n.t ELSE done \o <<Code["."]>> \o s.n.t
    IN  IF ~s.ok THEN s
        ELSE IF check(s.p, ".") THEN module_path(next(s.p), path)
        ELSE Got(s.p, N("path", path, <<>>))

parse_start(tokens) ==
    LET origin == SelectSeq([i \in DOMAIN tokens |-> i], LAMBDA i : ~is_doc(tokens[i].kind))
        p == [all |-> tokens, origin |-> origin,
              tokens |-> [i \in DOMAIN origin |-> tokens[origin[i]]],
              taken |-> {}, pos |-> 1, panic |-> FALSE, ok |-> TRUE,
              no_struct_literal |-> FALSE, errors |-> <<>>]
        doc  == doc_before(p, "module_doc")
        note == doc_before(doc.p, "module_note")
    IN  [p |-> note.p, module |-> <<doc.n, note.n>>, imports |-> <<>>, items |-> <<>>]

parse_import(m) ==
    LET p == m.p
        path == module_path(next(p), <<>>)
        r == Then(path, "import", <<O("as", <<NAME>>), X(";")>>)
    IN  IF r.ok THEN [m EXCEPT !.p = r.p, !.imports = Append(@, r.n)]
        ELSE [m EXCEPT !.p = sync_import(r.p, peek(p).line)]

parse_item(m) ==
    LET r == item(m.p)
    IN  IF r.ok THEN [m EXCEPT !.p = r.p, !.items = Append(@, r.n)]
        ELSE [m EXCEPT !.p = sync_item(IF r.p.pos = m.p.pos THEN next(r.p) ELSE r.p, 0)]

(* The comments that no item, no field and no module asked for.            *)
dropped(p) == {i \in DOMAIN p.all : is_doc(p.all[i].kind)} \ p.taken

(* The tree of a module whose items are all read.                          *)
Tree(m) == N("module", <<>>, m.module \o <<List(m.imports), List(m.items)>>)
=============================================================================
