------------------------------ MODULE Libraries ------------------------------
(***************************************************************************)
(* The library files of one compilation: the module path of a source file  *)
(* (src/modpath.c), the search for the files of the imports, the order     *)
(* they are loaded in, and the licence notice of a linked binary           *)
(* (src/driver.c, src/notice.c).                                           *)
(*                                                                         *)
(* A module path is the sequence of its segments.  A path is a directory,  *)
(* the sequence of its parts, with a name and a suffix.  files maps the    *)
(* paths that exist to what they hold; the content of a library file is    *)
(* what antl_header and antl_read find in it: whether each of them accepts *)
(* the file, its module, its imports and its package.                      *)
(***************************************************************************)
EXTENDS Integers, Sequences, FiniteSets, SequencesExt, FiniteSetsExt

CONSTANT BadSegments    \* names that are no lowercase identifier or a keyword

RUNTIME_MODULE == <<"anti", "rt">>

Path(dir, name, suffix) == [dir |-> dir, name |-> name, suffix |-> suffix]

-----------------------------------------------------------------------------
(* The sets that paths and module paths are taken from.                    *)
Paths   == [dir : Seq(STRING), name : STRING, suffix : Seq(STRING)]
Modules == Seq(STRING) \ {<<>>}

(* The function f with y at x.                                             *)
Put(f, x, y) == [z \in DOMAIN f \cup {x} |-> IF z = x THEN y ELSE f[z]]

(* The members of S, a set of numbers up to n, from the least on.          *)
InOrder(S, n) ==
    LET up[i \in 0 .. n] == IF i = 0 THEN <<>>
                            ELSE IF i \in S THEN Append(up[i - 1], i)
                            ELSE up[i - 1]
    IN  up[n]

(* The part of source under root, an empty sequence when root does not     *)
(* hold it.                                                                *)
under(source, root) ==
    IF root # <<>> /\ IsPrefix(root, source.dir)
    THEN SubSeq(source.dir, Len(root) + 1, Len(source.dir)) \o <<source.name>>
    ELSE <<>>

(* A name with a dot of its own is no segment.                             *)
module_path_of_source(source, roots) ==
    LET held == {i \in DOMAIN roots : under(source, roots[i]) # <<>>}
        rest == IF held # {} THEN under(source, roots[Min(held)])
                ELSE <<source.name>>
    IN  [ok |-> /\ Len(source.suffix) = 1
                /\ \A i \in DOMAIN rest : rest[i] \notin BadSegments,
         module |-> rest]

module_path_reserved(m) == m[1] = "anti"

module_name(o) ==
    LET r == module_path_of_source(o.input, o.roots)
    IN  [r EXCEPT !.ok = /\ r.ok
                         /\ r.module # RUNTIME_MODULE
                         /\ ("-c" \in o.flags /\ "--anti-internal" \notin o.flags)
                                => ~module_path_reserved(r.module)]

-----------------------------------------------------------------------------
(* The library file of a module under the first search root that has one,  *)
(* std/ of the runtime archive last; NULL is the empty sequence.           *)
search_roots(o, files, m) ==
    LET roots == o.roots \o (IF o.runtime # <<>>
                             THEN <<o.runtime \o <<"std">> >> ELSE <<>>)
        at(i) == Path(roots[i] \o Front(m), Last(m), <<".antl">>)
        held  == {i \in DOMAIN roots : at(i) \in DOMAIN files}
    IN  IF held # {} THEN <<at(Min(held))>> ELSE <<>>

(* One turn of the first loop of a round: the header of the next file.     *)
ReadHeader(files, s) ==
    IF ~s.ok \/ s.read = Len(s.out) THEN s
    ELSE LET p == s.out[s.read + 1] IN
         IF p \in DOMAIN files /\ files[p].kind = "antl" /\ files[p].header
         THEN [s EXCEPT !.read = @ + 1,
                        !.modules = Append(@, files[p].module),
                        !.wanted = @ \o files[p].imports]
         ELSE [s EXCEPT !.ok = FALSE]

(* The first loop: the header of every file not read so far.               *)
ReadHeaders(files, s) ==
    LET turn[n \in 0 .. Len(s.out)] ==
          IF n = 0 THEN s ELSE ReadHeader(files, turn[n - 1])
    IN  turn[Len(s.out)]

(* One turn of the second loop: the file of the module m, which is wanted. *)
SearchFor(o, files, modules, out, m) ==
    LET found == search_roots(o, files, m) IN
    IF Contains(modules, m) \/ found = <<>> \/ Contains(out, found[1])
    THEN out ELSE Append(out, found[1])

(* The second loop: the file of every wanted module that none provides.    *)
Search(o, files, s) ==
    LET turn[n \in 0 .. Len(s.wanted)] ==
          IF n = 0 THEN s.out
          ELSE SearchFor(o, files, s.modules, turn[n - 1], s.wanted[n])
    IN  turn[Len(s.wanted)]

Round(o, files, s) ==
    LET r == ReadHeaders(files, s) IN
    IF r.ok THEN [r EXCEPT !.out = Search(o, files, r)] ELSE r

(* The rounds; each but the last adds a file that exists, so that one more *)
(* than there are files are enough, and a round after the last is none.    *)
Rounds(o, files, s) ==
    LET bound == Cardinality(DOMAIN files) + 1
        round[n \in 0 .. bound] ==
            IF n = 0 THEN s ELSE Round(o, files, round[n - 1])
    IN  round[bound]

(* The files on the command line and, for every import that none of them   *)
(* holds, the file under the search roots, with the imports of found files *)
(* looked up too.                                                          *)
find_libraries(o, files, imports) ==
    Rounds(o, files, [out |-> o.libraries, modules |-> <<>>,
                      wanted |-> imports, read |-> 0, ok |-> TRUE])

-----------------------------------------------------------------------------
\* Mutant: an import is ready when a file provides it, loaded or not.
Ready_provided(files, paths, order, i) ==
    /\ i \notin ToSet(order)
    /\ \A m \in ToSet(files[paths[i]].imports) :
            \E k \in DOMAIN paths : files[paths[k]].module = m

(* A file that is not loaded, with imports that are; order has the         *)
(* positions of the loaded files in paths.                                 *)
Ready(files, paths, order, i) ==
    /\ i \notin ToSet(order)
    /\ \A m \in ToSet(files[paths[i]].imports) :
            \E k \in ToSet(order) : files[paths[k]].module = m

LoadFile(files, paths, i, s) ==
    IF ~s.ok \/ ~Ready(files, paths, s.order, i) THEN s
    ELSE IF files[paths[i]].body THEN [s EXCEPT !.order = Append(@, i)]
    ELSE [s EXCEPT !.ok = FALSE, !.why = "damaged"]

(* One pass over the files: those whose imports are all loaded are read.   *)
LoadPass(files, paths, s) ==
    LET turn[i \in 0 .. Len(paths)] ==
          IF i = 0 THEN s ELSE LoadFile(files, paths, i, turn[i - 1])
    IN  turn[Len(paths)]

(* No progress: the first import no file provides, or else a cycle.        *)
Blocked(files, paths, module, s) ==
    LET left == InOrder(DOMAIN paths \ ToSet(s.order), Len(paths))
        all  == FlattenSeq([n \in DOMAIN left |-> files[paths[left[n]]].imports])
        bad  == SelectSeq(all, LAMBDA m :
                    m = module \/ \A p \in ToSet(paths) : files[p].module # m)
    IN  [s EXCEPT !.ok = FALSE,
                  !.why = IF bad = <<>> \/ bad[1] = module THEN "cycle"
                          ELSE "missing"]

LoadTurn(files, paths, module, s) ==
    IF ~s.ok \/ Len(s.order) = Len(paths) THEN s
    ELSE LET n == LoadPass(files, paths, s) IN
         IF n.ok /\ n.order = s.order THEN Blocked(files, paths, module, s)
         ELSE n

(* The passes; each loads a file or ends the loop, so that as many as      *)
(* there are files are enough.                                             *)
LoadFrom(files, paths, module, s) ==
    LET turn[n \in 0 .. Len(paths)] ==
          IF n = 0 THEN s ELSE LoadTurn(files, paths, module, turn[n - 1])
    IN  turn[Len(paths)]

(* Every file once, each after the files it imports.                       *)
load_libraries(files, paths, module) ==
    LET m(i)  == files[paths[i]].module
        clash == \E i \in DOMAIN paths :
                    \/ m(i) = module
                    \/ \E j \in 1..(i - 1) : m(i) = m(j)
    IN  IF clash THEN [ok |-> FALSE, why |-> "clash", order |-> <<>>]
        ELSE LoadFrom(files, paths, module,
                      [ok |-> TRUE, why |-> "", order |-> <<>>])

-----------------------------------------------------------------------------
AddPackage(list, p) ==
    IF \E j \in DOMAIN list : list[j].name = p.name THEN list
    ELSE Append(list, p)

(* The runtime, every package of the libraries once, and the package of    *)
(* the compiled module.                                                    *)
build_notice(runtime, own, packages) ==
    LET list[n \in 0 .. Len(packages)] ==
          IF n = 0 THEN <<runtime>> ELSE AddPackage(list[n - 1], packages[n])
    IN  Append(list[Len(packages)], own)

repeated(list, i) == \E j \in 1..(i - 1) : list[j].name = list[i].name

Named(list) == {i \in DOMAIN list : ~repeated(list, i)}

(* The first package of every text.                                        *)
Printed(list) == {i \in Named(list) :
                    /\ list[i].text # ""
                    /\ \A j \in 1..(i - 1) : list[j].text # list[i].text}

\* Mutant: a text names only the first package that has it.
TextFor_first(list, i) == {i}

TextFor(list, i) == {j \in Named(list) : j >= i /\ list[j].text = list[i].text}

Names(list, S) == LET a == InOrder(S, Len(list))
                  IN  [k \in DOMAIN a |-> list[a[k]].name]

(* The package lines, and each licence text with the packages it is for.   *)
notice_text(list) ==
    [packages |-> Names(list, Named(list)),
     texts |-> LET a == InOrder(Printed(list), Len(list))
               IN  [k \in DOMAIN a |->
                        [text |-> list[a[k]].text,
                         names |-> Names(list, TextFor(list, a[k]))]]]
=============================================================================
