----------------------------- MODULE CommandLine -----------------------------
(***************************************************************************)
(* The command line of antic, as run in src/main.c reads it.  An argument  *)
(* is a word such as "--dev", or the path of a file.                       *)
(***************************************************************************)
EXTENDS Linker, Libraries

CONSTANT Home   \* the directory above antic's own when it has a lib/, or <<>>

NoPath == Path(<<>>, "", <<>>)

Word(w) == [word |-> w, path |-> NoPath]
File(p) == [word |-> "", path |-> p]

Argument == [word : STRING, path : Paths]

Dumps == {"--dump-tokens", "--dump-ast", "--dump-types", "--dump-ir",
          "--dump-opt", "--dump-select", "--dump-alloc"}

Flags == Dumps \cup {"-c", "-S", "--anti-internal", "--bundle-runtime",
                     "--soname", "--dev", "--no-reflect", "--strip-docs",
                     "--doc-warnings"}

Slots == {"--llvm-ar", "--package-name", "--package-version", "--license",
          "--license-text", "-o", "--target", "--llvm-mc", "--runtime"}

NoOptions ==
    [flags |-> {}, slot |-> <<>>, lib |-> "none", asserts |-> "mode",
     linker |-> "lld", target |-> Host, runtime |-> <<>>, input |-> NoPath,
     libraries |-> <<>>, objects |-> <<>>, roots |-> <<>>,
     dependencies |-> <<>>, attribution |-> <<>>, exit |-> -1]

Exit(o, status) == [o EXCEPT !.exit = status]

Has(o, slot) == slot \in DOMAIN o.slot

(* The directory a path names as a search root or as the runtime.          *)
Directory(p) == Append(p.dir, p.name)

(* An option that takes the argument after it; v is that argument.         *)
TakeValue(o, opt, v) ==
    CASE opt = "--lib"        -> IF v.word \in {"static", "shared"}
                                 THEN [o EXCEPT !.lib = v.word] ELSE Exit(o, 2)
      [] opt = "--linker"     -> IF v.word \in {"lld", "platform"}
                                 THEN [o EXCEPT !.linker = v.word]
                                 ELSE Exit(o, 2)
      [] opt = "--dependency" -> [o EXCEPT !.dependencies = Append(@, v.word)]
      [] opt = "--attribution" -> [o EXCEPT !.attribution = Append(@, v.word)]
      [] opt = "-I"           -> [o EXCEPT !.roots = Append(@, Directory(v.path))]
      [] OTHER                -> [o EXCEPT !.slot = Put(@, opt, v)]

Valued == Slots \cup {"--lib", "--linker", "--dependency", "--attribution", "-I"}

(* A file name: a library file, an input of the linker or the source file. *)
TakeFile(o, p) ==
    IF ends_with(p.suffix, ".antl") THEN [o EXCEPT !.libraries = Append(@, p)]
    ELSE IF link_is_input(p.suffix) THEN [o EXCEPT !.objects = Append(@, p)]
    ELSE IF o.input = NoPath THEN [o EXCEPT !.input = p]
    ELSE Exit(o, 2)

(* One turn of the loop: the options after the argument at i.              *)
TakeArgument(argv, i, o) ==
    LET arg == argv[i].word IN
    IF arg \in {"--version", "--help", "--print-host-target",
                "--print-targets"} THEN Exit(o, 0)
    ELSE IF arg \in Flags THEN [o EXCEPT !.flags = @ \cup {arg}]
    ELSE IF arg \in {"--asserts", "--no-asserts"}
         THEN [o EXCEPT !.asserts = IF arg = "--asserts" THEN "on" ELSE "off"]
    ELSE IF arg \in Valued
         THEN IF i = Len(argv) THEN Exit(o, 2) ELSE TakeValue(o, arg, argv[i + 1])
    ELSE IF arg # "" THEN Exit(o, 2)
    ELSE TakeFile(o, argv[i].path)

(* The loop over the arguments; an option with a value takes two of them.  *)
Arguments(argv) ==
    LET turn[n \in 0 .. Len(argv)] ==
          IF n = 0 THEN [i |-> 1, o |-> NoOptions]
          ELSE LET s == turn[n - 1] IN
               IF s.o.exit # -1 \/ s.i > Len(argv) THEN s
               ELSE [i |-> s.i + (IF argv[s.i].word \in Valued THEN 2 ELSE 1),
                     o |-> TakeArgument(argv, s.i, s.o)]
    IN  turn[Len(argv)].o

(* After the loop: the input of dev mode, the target and the runtime.      *)
Settled(o) ==
    LET first == o.input = NoPath /\ "--dev" \in o.flags /\ o.libraries # <<>>
        in    == IF first THEN [o EXCEPT !.input = Head(o.libraries),
                                         !.libraries = Tail(@)] ELSE o
    IN  IF in.input = NoPath THEN Exit(in, 2)
        ELSE IF Has(in, "--target") /\ ~target_from_name(in.slot["--target"].word)
        THEN Exit(in, 2)
        ELSE [in EXCEPT
                !.target = IF Has(in, "--target") THEN in.slot["--target"].word
                           ELSE @,
                !.runtime = IF Has(in, "--runtime")
                            THEN Directory(in.slot["--runtime"].path) ELSE Home]

run(argv) ==
    LET o == Arguments(argv)
    IN  IF o.exit # -1 THEN o ELSE Settled(o)
=============================================================================
