------------------------------- MODULE Lexer -------------------------------
(***************************************************************************)
(* The lexer of antic, src/lexer.c.  A source is a sequence of bytes.  lx   *)
(* is struct lexer: the source, the position with its line and column, the *)
(* tokens pushed and the messages added so far.  The kind of a keyword or  *)
(* a symbol is its spelling.                                               *)
(***************************************************************************)
EXTENDS Integers, Sequences, FiniteSets, FiniteSetsExt, SequencesExt, TLC

CONSTANT UINT64_MAX   \* the largest integer literal

ASSUME LiteralAssumption == UINT64_MAX \in Nat /\ UINT64_MAX >= 15

(* The printable characters in the order of their codes, but for 96.       *)
Upper == " !\"#$%&'()*+,-./0123456789:;<=>?@ABCDEFGHIJKLMNOPQRSTUVWXYZ[\\]^_"
Lower == "abcdefghijklmnopqrstuvwxyz{|}~"

CodesIn(s, first) == [c \in {SubSeq(s, i, i) : i \in 1..Len(s)} |->
    first + (CHOOSE i \in 1..Len(s) : SubSeq(s, i, i) = c) - 1]

Code == CodesIn(Upper, 32) @@ CodesIn(Lower, 97)

Bytes(s) == [i \in 1..Len(s) |-> Code[SubSeq(s, i, i)]]

NL == 10
TAB == 9
CR == 13
NUL == 0

Keywords == {"as", "break", "const", "continue", "do", "else", "export",
    "extern", "fn", "if", "import", "let", "pub", "return", "struct", "while",
    "union", "true", "false", "null", "alloc", "free", "size_of", "bool",
    "byte", "char", "f32", "f64", "float", "i8", "i16", "i32", "i64", "int",
    "str", "u8", "u16", "u32", "u64", "uint", "c_char", "c_double", "c_float",
    "c_int", "c_longlong", "c_short", "c_size_t", "c_uchar", "c_uint",
    "c_ulonglong", "c_ushort", "c_long", "c_ulong", "c_wchar", "worker",
    "parallel", "self", "abstract", "concrete", "enum", "use", "inherits",
    "class", "super", "is", "dup", "delete", "destroy", "static", "assert",
    "switch", "for", "defer", "implements", "singleton", "internal",
    "protected", "catch", "try", "yield", "atomic", "dispatch", "join",
    "join_all"}

Symbols == {"(", ")", "{", "}", "[", "]", ",", ";", ":", "::", ".", "..",
    "...", "->", "=>", "+", "-", "*", "/", "%", "&", "|", "^", "~", "!", "?",
    "<<", ">>", "&&", "||", "==", "!=", "<", "<=", ">", ">=", "=", "+=", "-=",
    "*=", "/=", "%=", "&=", "|=", "^=", "<<=", ">>="}

reserved == {"chan", "recv", "select", "send", "sync", "thread"}

kinds == [k \in Keywords \cup Symbols \cup reserved |-> Bytes(k)]

DocKinds == {"doc", "note", "module_doc", "module_note"}

(***************************************************************************)
(* The position.                                                           *)
(***************************************************************************)
at(lx, ahead) ==
    IF lx.pos + ahead < Len(lx.src) THEN lx.src[lx.pos + ahead + 1] ELSE -1

(* n calls of advance.                                                     *)
advance(lx, n) ==
    LET lines == {i \in 1..n : lx.src[lx.pos + i] = NL}
    IN  [lx EXCEPT !.pos = @ + n,
                   !.line = @ + Cardinality(lines),
                   !.column = IF lines = {} THEN @ + n ELSE n - Max(lines) + 1]

(* A while loop over the source: the first offset from k on without P.     *)
Past(lx, k, P(_)) ==
    CHOOSE j \in k..(k + Len(lx.src) + 1) : ~P(j) /\ \A i \in k..(j - 1) : P(i)

Between(from, to) == SubSeq(from.src, from.pos + 1, to.pos)

is_digit(c) == c \in 48..57
is_hex(c) == c \in 48..57 \cup 97..102 \cup 65..70
hex_value(c) == IF is_digit(c) THEN c - 48 ELSE IF c >= 97 THEN c - 87 ELSE c - 55
is_ident_start(c) == c \in 97..122 \cup 65..90 \cup {Code["_"]}
is_ident_char(c) == is_ident_start(c) \/ is_digit(c)
is_blank(c) == c \in {Code[" "], TAB, CR}
InLine(lx, i) == at(lx, i) \notin {-1, NL}
EndsBlock(lx, i) == at(lx, i) = Code["*"] /\ at(lx, i + 1) = Code["/"]

error_at(lx, place, what) ==
    [lx EXCEPT !.errors = Append(@, [line |-> place.line, column |-> place.column,
                                     what |-> what])]

(* Push the token that started at s.                                       *)
push(lx, kind, s, value) ==
    [lx EXCEPT !.out = Append(@, [kind |-> kind, offset |-> s.pos,
                                  length |-> lx.pos - s.pos, line |-> s.line,
                                  column |-> s.column, value |-> value])]

append_utf8(cp) ==
    LET tail(shift) == 128 + ((cp \div shift) % 64)
    IN  CASE cp < 128            -> <<cp>>
          [] cp \in 128..2047    -> <<192 + (cp \div 64), tail(1)>>
          [] cp \in 2048..65535  -> <<224 + (cp \div 4096), tail(64), tail(1)>>
          [] OTHER               -> <<240 + (cp \div 262144), tail(4096), tail(64),
                                      tail(1)>>

(* The UTF-8 sequence at offset i of s: its length, or 0, and its value.   *)
utf8_length(s, i) ==
    LET b == s[i + 1]
        n == CASE b < 128 -> 1 [] b \in 192..223 -> 2 [] b \in 224..239 -> 3
               [] b \in 240..247 -> 4 [] OTHER -> 0
        rest == SubSeq(s, i + 2, i + n)
        head == CASE n = 1 -> b [] n = 2 -> b % 32 [] n = 3 -> b % 16 [] OTHER -> b % 8
        cp == FoldLeft(LAMBDA v, c : (v * 64) + (c % 64), head, rest)
        min == <<0, 128, 2048, 65536>>
        valid == /\ n > 0
                 /\ i + n <= Len(s)
                 /\ \A c \in ToSet(rest) : c \in 128..191
                 /\ cp >= min[n] /\ cp <= 1114111 /\ cp \notin 55296..57343
    IN  [n |-> IF valid THEN n ELSE 0, cp |-> IF valid THEN cp ELSE 0]

(* The whole file, before the first token: the first place where no        *)
(* sequence starts and none goes on.                                       *)
validate(lx) ==
    LET covered(i) == \E j \in (i - 3)..(i - 1) : j >= lx.pos /\ utf8_length(lx.src, j).n > i - j
        bad == {i \in lx.pos..(Len(lx.src) - 1) :
                    lx.src[i + 1] > 127 /\ utf8_length(lx.src, i).n = 0 /\ ~covered(i)}
    IN  IF bad = {} THEN [ok |-> TRUE, place |-> lx]
        ELSE [ok |-> FALSE, place |-> advance(lx, Min(bad) - lx.pos)]

(***************************************************************************)
(* Comments.                                                               *)
(***************************************************************************)
doc_marker(lx, ahead) ==
    LET block == at(lx, ahead + 1) = Code["*"]
        c == at(lx, ahead + 2)
        d == at(lx, ahead + 3)
        Marker(kind, length) == [kind |-> kind, length |-> length]
    IN  IF at(lx, ahead) # Code["/"] \/ ~(block \/ at(lx, ahead + 1) = Code["/"])
        THEN Marker("eof", 3)
        ELSE IF c = Code["#"] /\ d = Code["!"] THEN Marker("module_note", 4)
        ELSE IF c = Code["#"] THEN Marker("note", 3)
        ELSE IF c = Code["!"] THEN Marker("module_doc", 3)
        ELSE IF ~block /\ c = Code["/"] /\ d # Code["/"] THEN Marker("doc", 3)
        ELSE IF block /\ c = Code["*"] /\ d \notin {Code["*"], Code["/"]}
        THEN Marker("doc", 3)
        ELSE Marker("eof", 3)

Lead(l) == CHOOSE n \in 0..Len(l) : /\ \A i \in 1..n : is_blank(l[i])
                                    /\ n < Len(l) => ~is_blank(l[n + 1])

(* raw is the text as its lines; the white space they share goes.          *)
push_doc(lx, kind, s, raw) ==
    LET lines  == IF raw = <<>> THEN << <<>> >> ELSE raw
        filled == {i \in DOMAIN lines : Lead(lines[i]) < Len(lines[i])}
        common == IF filled = {} THEN 0 ELSE Min({Lead(lines[i]) : i \in filled})
        line(i) == IF i \in filled THEN SubSeq(lines[i], common + 1, Len(lines[i])) ELSE <<>>
    IN  push(lx, kind, s, FlattenSeq([i \in DOMAIN lines |->
                              IF i = 1 THEN line(i) ELSE <<NL>> \o line(i)]))

take_line(from, to) ==
    LET l == Between(from, to)
    IN  IF l # <<>> /\ Last(l) = CR THEN Front(l) ELSE l

RECURSIVE DocLines(_, _, _, _)
DocLines(lx, kind, marker, raw) ==
    LET from == advance(lx, marker)
        to   == advance(from, Past(from, 0, LAMBDA i : InLine(from, i)))
        next == Past(to, 1, LAMBDA i : at(to, i) \in {Code[" "], TAB})
        more == Append(raw, take_line(from, to))
    IN  IF /\ at(to, 0) = NL
           /\ at(to, next + 1) = Code["/"]
           /\ doc_marker(to, next).kind = kind
        THEN DocLines(advance(to, next), kind, doc_marker(to, next).length, more)
        ELSE [lx |-> to, raw |-> more]

line_doc(lx, kind, marker) ==
    LET d == DocLines(lx, kind, marker, <<>>) IN push_doc(d.lx, kind, lx, d.raw)

skip_block(lx, skip) ==
    LET ends == {j \in skip..(Len(lx.src) - lx.pos) : EndsBlock(lx, j)}
    IN  IF ends = {} THEN [lx |-> advance(lx, Len(lx.src) - lx.pos), closed |-> FALSE]
        ELSE [lx |-> advance(lx, Min(ends) + 2), closed |-> TRUE]

(* The lines of a block doc after its opener, which stands at s.           *)
RECURSIVE BlockLines(_, _, _, _)
BlockLines(lx, kind, s, raw) ==
    LET n    == Past(lx, 0, LAMBDA i : InLine(lx, i) /\ ~EndsBlock(lx, i))
        stop == advance(lx, n)
    IN  IF at(stop, 0) = -1 THEN error_at(stop, s, "unterminated block comment")
        ELSE IF at(stop, 0) = NL
        THEN BlockLines(advance(stop, 1), kind, s, Append(raw, take_line(lx, stop)))
        ELSE IF \E i \in 0..(n - 1) : ~is_blank(at(lx, i))
        THEN error_at(advance(stop, 2), [line |-> lx.line, column |-> 1],
                      "text before the end of a doc comment")
        ELSE push_doc(advance(stop, 2), kind, s, raw)

block_doc(lx, kind, marker) ==
    LET open   == advance(lx, marker)
        text   == advance(open, Past(open, 0, LAMBDA i : is_blank(at(open, i))))
        ends   == {i \in 0..Past(text, 0, LAMBDA i : InLine(text, i)) :
                        EndsBlock(text, i)}
        length == Max({0} \cup {i \in 1..Min(ends) : ~is_blank(at(text, i - 1))})
        rest   == skip_block(text, 0)
    IN  IF ends # {}
        THEN push_doc(rest.lx, kind, lx,
                      <<Between(text, advance(text, length))>>)
        ELSE IF at(text, 0) # NL
        THEN error_at(rest.lx, lx, IF rest.closed THEN "text after a doc marker"
                                   ELSE "unterminated block comment")
        ELSE BlockLines(advance(text, 1), kind, lx, <<>>)

RECURSIVE skip_trivia(_)
skip_trivia(lx) ==
    LET c == at(lx, 0)
        block == skip_block(lx, 2)
    IN  IF is_blank(c) \/ c = NL THEN skip_trivia(advance(lx, 1))
        ELSE IF c # Code["/"] \/ doc_marker(lx, 0).kind # "eof" THEN lx
        ELSE IF at(lx, 1) = Code["/"]
        THEN skip_trivia(advance(lx, Past(lx, 0, LAMBDA i : InLine(lx, i))))
        ELSE IF at(lx, 1) # Code["*"] THEN lx
        ELSE IF block.closed THEN skip_trivia(block.lx)
        ELSE error_at(block.lx, lx, "unterminated block comment")

(***************************************************************************)
(* Words and numbers.                                                      *)
(***************************************************************************)
word_kind(w) ==
    IF \E k \in Keywords : kinds[k] = w THEN CHOOSE k \in Keywords : kinds[k] = w
    ELSE IF \E k \in reserved : kinds[k] = w THEN "reserved" ELSE "ident"

identifier(lx) ==
    LET to == advance(lx, Past(lx, 0, LAMBDA i : is_ident_char(at(lx, i))))
    IN  push(to, word_kind(Between(lx, to)), lx, Between(lx, to))

(* Digits with `_` only between two of them.                               *)
digit_run(lx, hex) ==
    LET valid(c) == IF hex THEN is_hex(c) ELSE is_digit(c)
        n   == Past(lx, 0, LAMBDA i : valid(at(lx, i)) \/ at(lx, i) = Code["_"])
        bad == {i \in 0..(n - 1) : at(lx, i) = Code["_"] /\ ~valid(at(lx, i + 1))}
        to  == advance(lx, IF bad = {} THEN n ELSE Min(bad))
    IN  [lx |-> to, ok |-> bad = {},
         digits |-> SelectSeq(Between(lx, to), LAMBDA c : c # Code["_"])]

number_error(lx, s, what) ==
    LET n == Past(lx, 0, LAMBDA i : \/ is_ident_char(at(lx, i))
                                    \/ at(lx, i) = Code["."] /\ is_digit(at(lx, i + 1)))
    IN  push(advance(error_at(lx, s, what), n), "error", s, <<>>)

(* The value of the digits, or -1 when the next step would overflow.       *)
literal_value(digits, base) ==
    FoldLeft(LAMBDA v, c : LET d == hex_value(c) IN
                 IF v = -1 \/ v > (UINT64_MAX - d) \div base THEN -1
                 ELSE (v * base) + d,
             0, digits)

fraction(lx, s, digits) ==
    LET f     == digit_run(advance(lx, 1), FALSE)
        exp   == at(f.lx, 0) \in {Code["e"], Code["E"]}
        sign  == at(f.lx, 1) \in {Code["+"], Code["-"]}
        x     == advance(f.lx, IF sign THEN 2 ELSE 1)
        g     == digit_run(x, FALSE)
        to    == IF exp THEN g.lx ELSE f.lx
    IN  IF ~f.ok THEN number_error(f.lx, s, "misplaced _")
        ELSE IF exp /\ ~is_digit(at(x, 0)) THEN number_error(x, s, "no exponent")
        ELSE IF exp /\ ~g.ok THEN number_error(g.lx, s, "misplaced _")
        ELSE IF is_ident_char(at(to, 0)) THEN number_error(to, s, "invalid character")
        ELSE push(to, "float_lit", s,
                  digits \o <<Code["."]>> \o f.digits
                  \o (IF exp THEN Between(f.lx, x) \o g.digits ELSE <<>>))

number(lx) ==
    LET hex   == at(lx, 0) = Code["0"] /\ at(lx, 1) = Code["x"]
        first == IF hex THEN advance(lx, 2) ELSE lx
        run   == digit_run(first, hex)
        value == literal_value(run.digits, IF hex THEN 16 ELSE 10)
    IN  IF hex /\ ~is_hex(at(first, 0))
        THEN number_error(first, lx, IF at(first, 0) = Code["_"] THEN "misplaced _"
                                     ELSE "no hexadecimal digits")
        ELSE IF ~run.ok THEN number_error(run.lx, lx, "misplaced _")
        ELSE IF ~hex /\ at(run.lx, 0) = Code["."] /\ is_digit(at(run.lx, 1))
        THEN fraction(run.lx, lx, run.digits)
        ELSE IF is_ident_char(at(run.lx, 0))
        THEN number_error(run.lx, lx, "invalid character")
        ELSE IF ~hex /\ Len(run.digits) > 1 /\ run.digits[1] = Code["0"]
        THEN number_error(run.lx, lx, "leading 0")
        ELSE IF value = -1 THEN number_error(run.lx, lx, "too large")
        ELSE push(run.lx, "int_lit", lx, value)

(***************************************************************************)
(* Characters and strings.                                                 *)
(***************************************************************************)
SimpleEscapes == [c \in {Code["n"], Code["r"], Code["t"], Code["\\"],
                         Code["\""], Code["'"]} |->
    CASE c = Code["n"] -> NL [] c = Code["r"] -> CR [] c = Code["t"] -> TAB
      [] OTHER -> c]

(* One escape at the current backslash.                                    *)
escape(lx, mode) ==
    LET c    == at(lx, 1)
        from == advance(lx, IF c = -1 THEN 1 ELSE 2)
        Is(to, value, raw) == [lx |-> to, ok |-> TRUE, value |-> value, raw |-> raw]
        Not(to, what) == [lx |-> IF what = "" THEN to ELSE error_at(to, lx, what),
                          ok |-> FALSE, value |-> 0, raw |-> FALSE]
        byte == (hex_value(at(from, 0)) * 16) + hex_value(at(from, 1))
        n    == Min({7, Past(from, 1, LAMBDA i : is_hex(at(from, i))) - 1})
        cp   == FoldLeft(LAMBDA v, d : (v * 16) + hex_value(d), 0,
                         SubSeq(from.src, from.pos + 2, from.pos + 1 + n))
        brace == advance(from, 1 + n)
    IN  IF c = -1 THEN Not(from, "")
        ELSE IF c \in DOMAIN SimpleEscapes THEN Is(from, SimpleEscapes[c], FALSE)
        ELSE IF c = Code["0"]
        THEN IF mode = "bytes" THEN Is(from, 0, TRUE) ELSE Not(from, "NUL")
        ELSE IF c = Code["x"]
        THEN IF ~is_hex(at(from, 0)) \/ ~is_hex(at(from, 1))
             THEN Not(from, "two hexadecimal digits")
             ELSE IF mode = "bytes" THEN Is(advance(from, 2), byte, TRUE)
             ELSE IF byte > 127 THEN Not(advance(from, 2), "above 7F")
             ELSE IF byte = 0 THEN Not(advance(from, 2), "NUL")
             ELSE Is(advance(from, 2), byte, FALSE)
        ELSE IF c # Code["u"] THEN Not(from, "unknown escape")
        ELSE IF at(from, 0) # Code["{"] THEN Not(from, "1 to 6 hexadecimal digits")
        ELSE IF n \notin 1..6 \/ at(brace, 0) # Code["}"]
        THEN Not(brace, "1 to 6 hexadecimal digits")
        ELSE IF cp > 1114111 \/ cp \in 55296..57343
        THEN Not(advance(brace, 1), "not a scalar value")
        ELSE IF cp = 0 /\ mode # "bytes" THEN Not(advance(brace, 1), "NUL")
        ELSE Is(advance(brace, 1), cp, FALSE)

character(lx) ==
    LET open == advance(lx, 1)
        c    == at(open, 0)
        esc  == escape(open, "char")
        u    == utf8_length(open.src, open.pos)
        one  == IF c = Code["\\"] THEN esc
                ELSE [lx |-> advance(open, u.n), ok |-> TRUE, value |-> u.cp]
        n    == Past(one.lx, 0, LAMBDA i : InLine(one.lx, i)
                                           /\ at(one.lx, i) # Code["'"])
        Bad(to, what) == push(error_at(to, lx, what), "error", lx, <<>>)
    IN  IF c = Code["'"] THEN Bad(advance(open, 1), "empty")
        ELSE IF c \in {-1, NL, CR} THEN Bad(open, "unterminated")
        ELSE IF at(one.lx, 0) = Code["'"]
        THEN IF one.ok THEN push(advance(one.lx, 1), "char_lit", lx, one.value)
             ELSE push(advance(one.lx, 1), "error", lx, <<>>)
        ELSE IF at(one.lx, n) = Code["'"]
        THEN Bad(advance(one.lx, n + 1), "more than one character")
        ELSE Bad(one.lx, "unterminated")

(* The content of a string literal up to the quote and the hashes.         *)
RECURSIVE Content(_, _, _, _, _)
Content(lx, s, form, bytes, valid) ==
    LET c    == at(lx, 0)
        mode == IF form.bytes THEN "bytes" ELSE "str"
        esc  == escape(lx, mode)
    IN  IF c = -1 THEN push(error_at(lx, s, "unterminated string"), "error", s, <<>>)
        ELSE IF c = Code["\""] /\ \A i \in 1..form.hashes : at(lx, i) = Code["#"]
        THEN push(advance(lx, 1 + form.hashes),
                  IF ~valid THEN "error" ELSE IF form.bytes THEN "bytes_lit"
                  ELSE "string_lit", s, IF valid THEN bytes ELSE <<>>)
        ELSE IF c = Code["\\"] /\ ~form.raw
        THEN Content(esc.lx, s, form,
                     IF esc.ok THEN bytes \o (IF esc.raw THEN <<esc.value>>
                                              ELSE append_utf8(esc.value))
                     ELSE bytes, valid /\ esc.ok)
        ELSE IF c = CR /\ at(lx, 1) = NL
        THEN Content(advance(lx, 2), s, form, Append(bytes, NL), valid)
        ELSE IF c = NUL /\ mode # "bytes"
        THEN Content(advance(error_at(lx, lx, "NUL"), 1), s, form, bytes, FALSE)
        ELSE Content(advance(lx, 1), s, form, Append(bytes, c), valid)

(* The prefix of a string literal at the current position.                 *)
Prefix(lx) ==
    LET b == IF at(lx, 0) = Code["b"] THEN 1 ELSE 0
        r == IF at(lx, b) = Code["r"] THEN 1 ELSE 0
        q == Past(lx, b + r, LAMBDA i : at(lx, i) = Code["#"])
    IN  [bytes |-> b = 1, raw |-> r = 1, hashes |-> q - b - r, quote |-> q]

string(lx) ==
    LET form == Prefix(lx)
    IN  Content(advance(lx, form.quote + 1), lx, form, <<>>, TRUE)

starts_string(lx) == at(lx, Prefix(lx).quote) = Code["\""]

Matches(lx) ==
    {k \in Symbols : \A i \in 1..Len(kinds[k]) : at(lx, i - 1) = kinds[k][i]}

\* Mutant: the first symbol that matches, whatever follows it.
symbol_first(lx) ==
    LET k == CHOOSE k \in Matches(lx) : Len(kinds[k]) = 1 \/ k = ".."
    IN  push(advance(lx, Len(kinds[k])), k, lx, <<>>)

symbol(lx) ==
    LET k == CHOOSE k \in Matches(lx) :
                 \A j \in Matches(lx) : Len(kinds[j]) <= Len(kinds[k])
    IN  push(advance(lx, Len(kinds[k])), k, lx, <<>>)

(***************************************************************************)
(* lex: the start, and one turn of its loop.                               *)
(***************************************************************************)
BOM == <<239, 187, 191>>

lex_start(src) ==
    LET bom == Len(src) >= 3 /\ SubSeq(src, 1, 3) = BOM
        lx  == [src |-> src, pos |-> IF bom THEN 3 ELSE 0, line |-> 1, column |-> 1,
                out |-> <<>>, errors |-> <<>>]
        v   == validate(lx)
    IN  IF v.ok THEN lx ELSE push(error_at(lx, v.place, "invalid UTF-8"), "eof", lx, <<>>)

lex_token(lx0) ==
    LET lx  == skip_trivia(lx0)
        c   == at(lx, 0)
        doc == doc_marker(lx, 0)
        u   == utf8_length(lx.src, lx.pos)
    IN  IF c = -1 THEN push(lx, "eof", lx, <<>>)
        ELSE IF doc.kind # "eof"
        THEN IF at(lx, 1) = Code["/"] THEN line_doc(lx, doc.kind, doc.length)
             ELSE block_doc(lx, doc.kind, doc.length)
        ELSE IF c \in {Code["r"], Code["b"], Code["#"], Code["\""]} /\ starts_string(lx)
        THEN string(lx)
        ELSE IF is_ident_start(c) THEN identifier(lx)
        ELSE IF is_digit(c) THEN number(lx)
        ELSE IF c = Code["'"] THEN character(lx)
        ELSE IF Matches(lx) # {} THEN symbol(lx)
        ELSE push(advance(error_at(lx, lx, "unexpected character"), u.n), "error",
                  lx, <<>>)

lexed(lx) == lx.out # <<>> /\ Last(lx.out).kind = "eof"
=============================================================================
