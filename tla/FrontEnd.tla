------------------------------ MODULE FrontEnd ------------------------------
(***************************************************************************)
(* The front end of a compile, as compile in src/driver.c runs it: lex,    *)
(* where no message came of it parse, and where the parser had none either *)
(* load the library files.  One action is one turn of a loop of the first  *)
(* two, or one section of a library file.                                  *)
(*                                                                         *)
(* A source is the text of a tree of Programs in one layout, as the        *)
(* grammar writes it, with the word number drop left out (0: none), or one *)
(* of Texts: another spelling of a tree, or one that must be refused.  A   *)
(* text may come with library files, in the order in which load_libraries  *)
(* reads them: each is what another compile wrote for one of Units, with   *)
(* or without its docs, and whole, cut short or with one byte changed.     *)
(***************************************************************************)
EXTENDS Grammar, Interfaces

CONSTANTS Programs,    \* trees
          Texts,       \* of [bytes, tree]; the tree is None where it must be refused
          Sources,     \* of [program, layout, drop], or [text, files]
          Units        \* checked modules with their IR

(* The turns and the sections, of Lexer, Parser, LibraryReader and         *)
(* LibraryIr, and the words of a tree as Grammar has them.  A run gives    *)
(* each the operator of that module.                                       *)
CONSTANTS LexToken(_), ParseImport(_), ParseItem(_),
          ReadHeader(_), ReadTypes(_), ReadItems(_), ReadIr(_), WordsOf(_)

VARIABLES source, lx, module, lib, stage

vars == <<source, lx, module, lib, stage>>

Written(s) == "program" \in DOMAIN s
Whole(s) == Written(s) => s.drop = 0

(* The tree of a whole source.                                             *)
Expected(s) == IF Written(s) THEN Programs[s.program] ELSE Texts[s.text].tree

TextOf(s) ==
    IF ~Written(s) THEN Texts[s.text].bytes
    ELSE Layout(WordsOf(Programs[s.program]), s.layout, s.drop)

(* The files that the compiles of Units wrote.                             *)
Outputs ==
    {[unit |-> i, strip |-> strip,
      bytes |-> antl_write(sema_interface(Units[i]), Units[i].heap, Units[i].ir, strip)]
       : i \in DOMAIN Units, strip \in BOOLEAN}

(* The bytes of a file: [unit, strip, cut, at, to].  Of a cut file the     *)
(* first cut bytes are left (-1: all); the byte at is now to (0: none).    *)
FileBytes(f) ==
    LET whole == (CHOOSE o \in Outputs : o.unit = f.unit /\ o.strip = f.strip).bytes
    IN  IF f.cut >= 0 THEN SubSeq(whole, 1, f.cut)
        ELSE IF f.at > 0 THEN [whole EXCEPT ![f.at] = f.to] ELSE whole

Files(s) == IF Written(s) THEN <<>> ELSE s.files

NoModule == [p |-> <<>>, module |-> <<>>, imports |-> <<>>, items |-> <<>>]

Init ==
    /\ source \in Sources
    /\ lx = lex_start(TextOf(source))
    /\ module = NoModule
    /\ lib = Opened(<<>>, types_init, <<>>, NoProgram)
    /\ stage = "lex"

LexOne ==
    /\ stage = "lex" /\ ~lexed(lx)
    /\ lx' = LexToken(lx)
    /\ UNCHANGED <<source, module, lib, stage>>

(* lex returns: with a message the compile ends here.                      *)
LexEnd ==
    /\ stage = "lex" /\ lexed(lx)
    /\ \/ /\ lx.errors # <<>>
          /\ stage' = "refused"
          /\ UNCHANGED module
       \/ /\ lx.errors = <<>>
          /\ stage' = "imports"
          /\ module' = parse_start(lx.out)
    /\ UNCHANGED <<source, lx, lib>>

ParseOneImport ==
    /\ stage = "imports" /\ check(module.p, "import")
    /\ module' = ParseImport(module)
    /\ UNCHANGED <<source, lx, lib, stage>>

ParseOneItem ==
    /\ stage = "items" \/ (stage = "imports" /\ ~check(module.p, "import"))
    /\ ~check(module.p, "eof")
    /\ module' = ParseItem(module)
    /\ stage' = "items"
    /\ UNCHANGED <<source, lx, lib>>

ParseEnd ==
    /\ stage \in {"imports", "items"} /\ check(module.p, "eof")
    /\ stage' = IF module.p.ok THEN "parsed" ELSE "refused"
    /\ UNCHANGED <<source, lx, module, lib>>

(* antl_read of the next file; the process keeps its types and the program *)
(* from one file to the next.                                              *)
OpenLibrary ==
    /\ stage = "parsed" /\ Len(lib.libraries) < Len(Files(source))
    /\ lib' = Opened(FileBytes(Files(source)[Len(lib.libraries) + 1]), lib.heap,
                     lib.libraries, lib.program)
    /\ stage' = "header"
    /\ UNCHANGED <<source, lx, module>>

Section(from, r, to) ==
    /\ stage = from
    /\ lib' = r
    /\ stage' = IF r.failed THEN "not_loaded" ELSE to
    /\ UNCHANGED <<source, lx, module>>

HeaderSection ==
    LET r == ReadHeader(lib)
        needs == \E m \in ToSet(r.iface.imports) : library(r, m) = <<>>
    IN  Section("header", IF ~r.failed /\ needs THEN fail(r) ELSE r, "types")

TypesSection == Section("types", ReadTypes(lib), "library_items")

ItemsSection == Section("library_items", ReadItems(lib), "ir")

IrSection ==
    LET r == ReadIr(lib)
        q == DamagedIf(~r.failed /\ r.pos # Len(r.data), r)
    IN  Section("ir", IF q.failed THEN q ELSE [q EXCEPT !.libraries = Append(@, q.iface)], "parsed")

Next ==
    \/ LexOne \/ LexEnd \/ ParseOneImport \/ ParseOneItem \/ ParseEnd
    \/ OpenLibrary \/ HeaderSection \/ TypesSection \/ ItemsSection \/ IrSection

Spec == Init /\ [][Next]_vars

(***************************************************************************)
(* Properties.                                                             *)
(***************************************************************************)
RECURSIVE LexAll(_)
LexAll(l) == IF lexed(l) THEN l ELSE LexAll(LexToken(l))

RECURSIVE ParseAll(_)
ParseAll(m) ==
    IF check(m.p, "eof") THEN m
    ELSE ParseAll(IF check(m.p, "import") /\ m.items = <<>> THEN ParseImport(m)
                  ELSE ParseItem(m))

Reread(tree) == Tree(ParseAll(parse_start(LexAll(lex_start(Layout(WordsOf(tree), "lines", 0))).out)))

(* What the grammar writes for a tree, in any layout and any spelling of   *)
(* its literals and comments, the front end reads back as that tree and no *)
(* other.  Where it accepts a text that lost a word, the tree it read is   *)
(* one the grammar writes.                                                 *)
ReadBack ==
    /\ Whole(source) /\ stage = "refused" => Expected(source) = None
    /\ stage = "parsed" =>
         IF Whole(source) THEN Tree(module) = Expected(source)
         ELSE Reread(Tree(module)) = Tree(module)

(* A comment that documents something opens here.                          *)
OpensDoc(b) ==
    /\ Len(b) > 2 /\ b[1] = Code["/"] /\ b[2] \in {Code["/"], Code["*"]}
    /\ \/ b[3] \in {Code["#"], Code["!"]}
       \/ b[3] = b[2] /\ ~(Len(b) > 3 /\ b[4] \in {Code["/"], b[2]})

(* White space and comments that document nothing.                         *)
RECURSIVE IsTrivia(_)
IsTrivia(b) ==
    LET ends == {i \in 4..Len(b) : b[i - 1] = Code["*"] /\ b[i] = Code["/"]}
        line == {i \in 2..Len(b) : b[i] = NL}
    IN  \/ b = <<>>
        \/ (is_blank(b[1]) \/ b[1] = NL) /\ IsTrivia(Tail(b))
        \/ /\ Len(b) > 1 /\ b[1] = Code["/"] /\ ~OpensDoc(b)
           /\ \/ /\ b[2] = Code["/"]
                 /\ line = {} \/ IsTrivia(SubSeq(b, Min(line), Len(b)))
              \/ /\ b[2] = Code["*"] /\ ends # {}
                 /\ IsTrivia(SubSeq(b, Min(ends) + 1, Len(b)))

(* The tokens lie in the text one after the other with nothing but white   *)
(* space and comments that document nothing between them, each at the line *)
(* and column where its first byte stands, none is cut short, and the last *)
(* is the end.                                                             *)
TokensTile ==
    LET out   == lx.out
        t     == Last(out)
        first == IF Len(lx.src) >= 3 /\ SubSeq(lx.src, 1, 3) = BOM THEN 3 ELSE 0
        from  == IF Len(out) > 1
                 THEN out[Len(out) - 1].offset + out[Len(out) - 1].length ELSE first
        ends  == {i \in 1..t.offset : lx.src[i] = NL}
        text  == SubSeq(lx.src, t.offset + 1, t.offset + t.length)
        after == t.offset + t.length
    IN  stage = "lex" /\ out # <<>> /\ lx.errors = <<>> =>
          /\ t.offset >= from /\ after <= Len(lx.src)
          /\ IsTrivia(SubSeq(lx.src, from + 1, t.offset))
          /\ t.line = 1 + Cardinality(ends)
          /\ t.column = t.offset - Max(ends \cup {first}) + 1
          /\ t.kind = "eof" => t.offset = Len(lx.src)
          /\ t.kind \in Symbols \cup Keywords => text = kinds[t.kind]
          /\ t.kind \in Symbols =>
               \A k \in Symbols :
                   (Len(kinds[k]) > t.length /\ t.offset + Len(kinds[k]) <= Len(lx.src)) =>
                   SubSeq(lx.src, t.offset + 1, t.offset + Len(kinds[k])) # kinds[k]
          /\ (t.kind \in Keywords \cup {"ident", "int_lit"} /\ after < Len(lx.src))
             => ~is_ident_char(lx.src[after + 1])

(* The texts of the docs in a tree.                                        *)
RECURSIVE DocsIn(_)
DocsIn(n) == (IF n.k = "doc" THEN {n.t} ELSE {}) \cup UNION {DocsIn(n.v[i]) : i \in DOMAIN n.v}

DocTokens == {i \in DOMAIN lx.out : is_doc(lx.out[i].kind)}

(* It is part of the docs of the tree, or --doc-warnings reports its loss. *)
Kept(i) ==
    LET text == lx.out[i].value
    IN  \/ i \in dropped(module.p)
        \/ \E d \in DocsIn(Tree(module)) : \E j \in 0..(Len(d) - Len(text)) :
               SubSeq(d, j + 1, j + Len(text)) = text

(* The class form asks for the docs of an item before inherits as it does  *)
(* before a field.                                                         *)
OfBase(i) ==
    /\ lx.out[i].kind \in {"doc", "note"}
    /\ \E j \in (i + 1)..Len(lx.out) :
           lx.out[j].kind = "inherits" /\ (i + 1)..(j - 1) \subseteq DocTokens

(* No documentation vanishes without a word, as decisions.md:183 has it:   *)
(* each doc comment of a module that is accepted is kept.  The code does   *)
(* not hold this before inherits.                                          *)
DocsKept == stage = "parsed" => \A i \in DocTokens : Kept(i)

(* Nor does documentation that stands anywhere but before inherits, beside *)
(* whatever other comments and whatever is lost there: what doc_before     *)
(* marks as taken for one token is never that of another.                  *)
OtherDocsKept == stage = "parsed" => \A i \in DocTokens : OfBase(i) \/ Kept(i)

(* The item number j of a tree has the word number i.                      *)
Holds(tree, j, i) ==
    LET upto(n) == Len(WordsOf([tree EXCEPT !.v[4].v = SubSeq(@, 1, n)]))
    IN  upto(j - 1) < i /\ i <= upto(j)

(* An item that opens with a word at which recovery stops.                 *)
Resumes(it) ==
    LET plain == [it EXCEPT !.v[1] = None, !.v[2] = None]
        words == WordsOf(N("module", <<>>, <<None, None, List(<<>>), List(<<plain>>)>>))
    IN  words[1] \in {Bytes(k) : k \in {"fn", "struct", "union", "extern", "const", "pub",
                                        "export"}}

(* A refused source has a message, and the messages of the parser come in  *)
(* the order of the source.  A lost word that is no brace costs no item    *)
(* but the one it was lost from: all others are read as they stand, if     *)
(* they open with a word at which recovery stops.                          *)
MistakesStayLocal ==
    stage = "refused" =>
        LET all   == module.p.errors
            tree  == Programs[source.program]
            items == tree.v[4].v
            word  == WordsOf(tree)[source.drop]
        IN  \/ lx.errors # <<>>
            \/ /\ all # <<>>
               /\ \A i \in 1..(Len(all) - 1) :
                    \/ all[i].line < all[i + 1].line
                    \/ all[i].line = all[i + 1].line /\ all[i].column <= all[i + 1].column
               /\ (Written(source) /\ word \notin {Bytes("{"), Bytes("}")}) =>
                    \A j \in DOMAIN items :
                        \/ Holds(tree, j, source.drop) \/ ~Resumes(items[j])
                        \/ items[j] \in ToSet(module.items)

(* One mistake produces one message, as parser.c:12 says of the recovery:  *)
(* a text with one word lost that is no brace has no more than that.  The  *)
(* code does not hold this of a statement with braces: the search for the  *)
(* next one stops inside them, and their closing brace is taken for that   *)
(* of the block around the statement.                                      *)
OneMessage ==
    (stage = "refused" /\ ~Whole(source)) =>
        LET word == WordsOf(Programs[source.program])[source.drop]
        IN  word \in {Bytes("{"), Bytes("}")} \/ Len(lx.errors \o module.p.errors) <= 1

(* The files read so far.                                                  *)
Loaded == SubSeq(Files(source), 1, Len(lib.libraries))
Sound(f) == f.cut < 0 /\ f.at = 0

(* What a module shows, its types, constants, docs and IR, is what a       *)
(* compile that imports it reads: nothing is lost, nothing private is      *)
(* added, a name stands for the same entry, and a struct that two          *)
(* libraries speak of is one type.  A whole file is never refused.         *)
InterfaceKept ==
    LET us == [i \in DOMAIN Loaded |-> Units[Loaded[i].unit]]
        same(i) ==
            LET text(d) == IF Loaded[i].strip THEN <<>> ELSE d
                kept(d) == d
                out == sema_interface(us[i])
                in  == lib.libraries[i]
            IN  /\ InterfaceText(lib.heap, in, kept) = InterfaceText(us[i].heap, out, text)
                /\ TypeTexts(lib.heap, in, kept) = TypeTexts(us[i].heap, out, text)
        all == UNION {Local(lib.heap, lib.libraries[i]) : i \in DOMAIN Loaded}
        shown == UNION {Reached(lib.heap, lib.libraries[i]) : i \in DOMAIN Loaded}
        all_of(Texts1(_)) == UNION {Texts1(us[i].ir) : i \in DOMAIN us}
    IN  /\ stage = "not_loaded" => \E f \in ToSet(Files(source)) : ~Sound(f)
        /\ (stage = "parsed" /\ Loaded # <<>> /\ \A f \in ToSet(Loaded) : Sound(f)) =>
             /\ \A i \in DOMAIN Loaded : same(i)
             /\ {t \in shown : type_has_fields(lib.heap[t])} \ {types_object} \subseteq all
             /\ AggTexts(lib.program) = all_of(AggTexts)
             /\ GlobalTexts(lib.program) = FlattenSeq([i \in DOMAIN us |-> GlobalTexts(us[i].ir)])
             /\ FunctionTexts(lib.program) = Linked(all_of(FunctionTexts))

(* A file that lost its end is not loaded, the reader never looks past the *)
(* end of its bytes, and whatever it does accept, no index of the program  *)
(* and of the types leads nowhere and no struct holds itself.              *)
DamageRefused ==
    /\ lib.pos <= Len(lib.data)
    /\ stage = "parsed" =>
         /\ \A f \in ToSet(Loaded) : f.cut < 0
         /\ NothingDangles(lib.program)
         /\ \A t \in DOMAIN lib.heap :
              LET x == lib.heap[t]
              IN  /\ ToSet(Parts(x)) \cup {f.type : f \in ToSet(x.fields)} \subseteq DOMAIN lib.heap
                  /\ type_has_fields(x) => ~types_find_cycle(lib.heap, t)
=============================================================================
