-------------------------------- MODULE Build --------------------------------
(***************************************************************************)
(* The build driver, src/driver.c, with the commands it starts through     *)
(* src/process.c.  One command after the other runs over the same files;   *)
(* a source may be edited between two of them.  A command compiles in      *)
(* memory, then works through its steps: files it writes itself and tools  *)
(* it runs as child processes.  A write or a tool may fail, and the whole  *)
(* command may be killed, at every step.                                   *)
(*                                                                         *)
(* The content of a file is where it comes from: an assembly file holds    *)
(* the version of the source and of the libraries compiled into it, an     *)
(* object the assembly file it was made of, and so on.  Partial is a file  *)
(* whose writer did not finish.                                            *)
(***************************************************************************)
EXTENDS CommandLine

CONSTANTS
    Worlds,         \* the files that may be there at the start
    Edits,          \* [path, content] pairs, what an editor may save
    Commands,       \* [on, argv] pairs: a command line, tried when on exists
    MaxCommands,    \* how many commands are run
    RuntimeMembers, \* the member names of the runtime library
    RuntimeLicence, \* its licence text, "" when the file cannot be read
    PipeSize,       \* how many names fit into a pipe
    Sysroots,       \* the targets whose sysroot the runtime archive holds
    LldInArchive,   \* whether it holds the lld programs
    CrtFound,       \* whether the host has the glibc start files
    BadSpecs        \* --dependency values without two commas

(* A file that antic did not make, and what its readers find in it.        *)
Content(c) ==
    /\ c.kind \in {"source", "antl", "foreign", "rt", "text"}
    /\ c.kind \in {"source", "antl"} => c.imports \in Seq(Modules)
    /\ c.kind = "antl" => c.module \in Modules

ASSUME BuildAssumption ==
    /\ Host \in DOMAIN target_info
    /\ \A f \in Worlds : IsFiniteSet(DOMAIN f) /\ \A p \in DOMAIN f : Content(f[p])
    /\ \A e \in Edits : Content(e.content)
    /\ \A c \in Commands : c.argv \in Seq(Argument)
    /\ RuntimeMembers \in Seq(STRING) /\ Home \in Seq(STRING)

VARIABLES
    files,          \* [path -> content]
    o,              \* the options of the command
    unit,           \* what compile left in memory
    todo,           \* the steps the command has still to take
    child,          \* the process it runs
    status,         \* its exit status, or one of the two below
    before,         \* the files when it started
    commands        \* how many commands have started

vars == <<files, o, unit, todo, child, status, before, commands>>

Running == -1
Killed  == -2

Partial == [kind |-> "partial"]

NoChild == [st |-> "none", out |-> <<>>, pipe |-> <<>>, got |-> <<>>,
            writer |-> FALSE, code |-> 0]

NoNotice == [packages |-> <<>>, texts |-> <<>>]

NoUnit == [status |-> 1, module |-> <<>>, found |-> [out |-> <<>>, ok |-> FALSE],
           load |-> [ok |-> FALSE, why |-> "", order |-> <<>>],
           base |-> NoPath, notice |-> NoNotice, asm |-> Partial,
           antl |-> Partial, package |-> Partial]

-----------------------------------------------------------------------------
(* The options.                                                            *)
On(flag) == flag \in o.flags

links(opts) == opts.flags \cap (Dumps \cup {"-S", "-c"}) = {} /\ opts.lib = "none"

can_link(opts) ==
    opts.linker = "lld" \/ target_info[Host].os = target_info[opts.target].os

(* The checks of driver_run before it compiles; 2 is its exit status.      *)
Refused(opts) ==
    \/ ~(ends_with(opts.input.suffix, ".anti")
         \/ ("--dev" \in opts.flags /\ ends_with(opts.input.suffix, ".antl")))
    \/ links(opts) /\ "--dev" \notin opts.flags
       /\ (opts.runtime = <<>> \/ ~can_link(opts))
    \/ opts.lib # "none" /\ "-S" \notin opts.flags
       /\ (\/ opts.runtime = <<>>
           \/ (opts.lib = "shared"
               \/ ("--bundle-runtime" \in opts.flags
                   /\ target_info[opts.target].format # "COFF"))
              /\ ~can_link(opts))

-----------------------------------------------------------------------------
(* compile: everything up to the assembly, in memory.                      *)

(* --dependency has two commas and the licence text can be read.           *)
package_header(opts) ==
    /\ \A i \in DOMAIN opts.dependencies : opts.dependencies[i] \notin BadSpecs
    /\ Has(opts, "--license-text") =>
            opts.slot["--license-text"].path \in DOMAIN files

own_interface(opts, module) ==
    [name |-> IF Has(opts, "--package-name")
              THEN <<opts.slot["--package-name"].word>> ELSE module,
     text |-> IF Has(opts, "--license-text")
              THEN files[opts.slot["--license-text"].path].text ELSE ""]

RuntimePackage == [name |-> RUNTIME_MODULE, text |-> RuntimeLicence]

Packages(u) == [k \in DOMAIN u.load.order |->
                    files[u.found.out[u.load.order[k]]].package]

(* The packages are those of the modules that the assembly is linked with. *)
Assembly(opts, version, u, noticed) ==
    [kind |-> "asm", version |-> version,
     libs |-> IF "--dev" \in opts.flags THEN {}
              ELSE {files[p].version : p \in ToSet(u.found.out)},
     init |-> opts.lib = "shared",
     asserts |-> ~(opts.asserts = "off"
                   \/ (opts.asserts = "mode" /\ "--dev" \notin opts.flags)),
     packages |-> IF noticed
                  THEN {RuntimePackage, u.package}
                       \cup {files[p].package : p \in ToSet(u.found.out)}
                  ELSE {},
     notice |-> IF noticed THEN u.notice ELSE NoNotice]

(* back_end: 1 after an error, 2 after a dump, 3 for a module of dev mode  *)
(* that has no main, 0 with the assembly.                                  *)
back_end(opts, src, u) ==
    LET dump == opts.flags \cap {"--dump-select", "--dump-alloc"} # {}
        dev  == "--dev" \in opts.flags
        s    == IF \/ src.error = "lower"
                   \/ ~dump /\ "-S" \notin opts.flags /\ ~dev
                      /\ opts.lib = "none" /\ ~src.main
                   \/ src.error = "select"
                THEN 1
                ELSE IF dump THEN 2
                ELSE IF dev /\ ~src.main THEN 3 ELSE 0
    IN  [u EXCEPT !.status = s,
                  !.asm = IF s \in {0, 3}
                          THEN Assembly(opts, src.version, u,
                                        /\ s # 3 /\ "-S" \notin opts.flags
                                        /\ opts.lib # "static")
                          ELSE @]

(* The path without its last extension.                                    *)
Stem(p) == [p EXCEPT !.suffix = Front(@)]

library_name(opts, module) ==
    IF Has(opts, "-o")
    THEN LET base == opts.slot["-o"].path.name IN
         IF /\ target_info[opts.target].format # "COFF"
            /\ Len(base) >= 3 /\ SubSeq(base, 1, 3) = "lib"
         THEN SubSeq(base, 4, Len(base)) ELSE base
    ELSE Last(module)

base_name(opts, module) ==
    IF opts.lib # "none" /\ "-S" \notin opts.flags
    THEN Path((IF Has(opts, "-o") THEN opts.slot["-o"].path
               ELSE opts.input).dir, library_name(opts, module), <<>>)
    ELSE IF Has(opts, "-o") THEN opts.slot["-o"].path
    ELSE Stem(opts.input)

(* After sema_check, which has the module and its libraries.               *)
Checked(opts, src, u) ==
    LET own  == own_interface(opts, u.module)
        full == [u EXCEPT !.notice = notice_text(
                    build_notice(RuntimePackage, own, Packages(u)))]
    IN  IF "--dump-types" \in opts.flags THEN [u EXCEPT !.status = 2]
        ELSE IF "-c" \in opts.flags
        THEN IF src.error = "lower" \/ ~package_header(opts) THEN u
             ELSE [u EXCEPT !.status = 2,
                    !.antl = [kind |-> "antl", header |-> TRUE, body |-> TRUE,
                              module |-> u.module, imports |-> src.imports,
                              package |-> own, version |-> src.version,
                              main |-> src.main, error |-> ""]]
        ELSE IF opts.flags \cap {"--dump-ir", "--dump-opt"} # {}
        THEN [u EXCEPT !.status = IF src.error = "lower" THEN 1 ELSE 2]
        ELSE IF opts.lib # "none" /\ src.main THEN u
        ELSE IF opts.lib # "none" \/ links(opts)
        THEN IF package_header(opts)
             THEN back_end(opts, src, [full EXCEPT !.package = own]) ELSE u
        ELSE back_end(opts, src, u)

compile(opts) ==
    IF opts.input \notin DOMAIN files \/ files[opts.input].kind # "source"
    THEN NoUnit
    ELSE
    LET src  == files[opts.input]
        name == module_name(opts)
        find == find_libraries(opts, files, src.imports)
        load == load_libraries(files, find.out, name.module)
        u    == [NoUnit EXCEPT !.module = name.module, !.found = find]
        v    == [u EXCEPT !.load = load]
    IN  IF src.error \in {"read", "lex"} THEN NoUnit
        ELSE IF "--dump-tokens" \in opts.flags THEN [NoUnit EXCEPT !.status = 2]
        ELSE IF src.error = "parse" THEN NoUnit
        ELSE IF "--dump-ast" \in opts.flags THEN [NoUnit EXCEPT !.status = 2]
        ELSE IF ~name.ok THEN NoUnit
        ELSE IF ~find.ok THEN u
        ELSE IF ~load.ok \/ src.error = "sema" THEN v
        ELSE [Checked(opts, src, v) EXCEPT !.base = base_name(opts, name.module)]

(* dev mode: the module of a library file into its object.                 *)
compile_library_file(opts) ==
    LET with == [opts EXCEPT !.libraries = <<opts.input>> \o @]
        find == find_libraries(with, files, <<>>)
        load == load_libraries(files, find.out, <<>>)
        u    == [NoUnit EXCEPT !.found = find]
    IN  IF opts.input \notin DOMAIN files \/ ~find.ok THEN u
        ELSE IF ~load.ok THEN [u EXCEPT !.load = load]
        ELSE LET b == back_end(opts, files[opts.input],
                               [u EXCEPT !.load = load,
                                         !.module = files[opts.input].module])
             IN  IF b.status = 0 \/ b.status = 3
                 THEN [b EXCEPT !.status = 3,
                                !.base = IF Has(opts, "-o")
                                         THEN opts.slot["-o"].path
                                         ELSE Stem(opts.input)]
                 ELSE b

-----------------------------------------------------------------------------
(* The steps after compile.  A step of a tool names the files it reads,    *)
(* the file it makes and the command line it was started with.             *)
Write(path, content) == [op |-> "write", path |-> path, content |-> content]
Delete(path)         == [op |-> "remove", path |-> path]
Listing              == [op |-> "listing"]
Query                == [op |-> "query"]
Fail                 == [op |-> "fail"]

Tool(makes, kind, reads, command) ==
    [op |-> "tool", path |-> makes, kind |-> kind, reads |-> reads,
     command |-> command]

Plus(p, suffix) == [p EXCEPT !.suffix = @ \o suffix]
ObjectSuffix == target_info[o.target].object_suffix

archive_tool(name) == IF o.runtime # <<>> /\ LldInArchive THEN "archive" ELSE name

assemble(asm, object) ==
    Tool(object, "object", <<asm>>,
         Command(<<IF Has(o, "--llvm-mc") THEN "--llvm-mc"
                   ELSE archive_tool("llvm-mc"),
                   "-triple", "-filetype=obj", "-o", object, asm>>, 0, 0))

(* What a link needs from the host or from the runtime archive.            *)
link_facts ==
    LET os == target_info[o.target].os IN
    IF o.linker = "platform"
    THEN IF os = "macos" THEN <<Query, Query>>
         ELSE IF os = "linux" /\ ~CrtFound THEN <<Fail>> ELSE <<>>
    ELSE IF os # "windows" /\ o.target \notin Sysroots THEN <<Fail>> ELSE <<>>

Inputs(object, executable, extra) ==
    [linker |-> o.linker, lld_dir |-> LldInArchive,
     sysroot |-> o.target \in Sysroots, object |-> object,
     executable |-> executable, extra |-> extra]

link_program(object, executable) ==
    link_facts \o
    <<Tool(executable, "executable", <<object>> \o o.objects,
           link_command(o.target, Inputs(object, executable, o.objects)))>>

(* The object of the package header copy.                                  *)
PackagePath == Plus(unit.base, <<".package">>)

assemble_package ==
    <<Write(Plus(PackagePath, <<".s">>), [kind |-> "package", of |-> unit.package]),
      assemble(Plus(PackagePath, <<".s">>), Plus(PackagePath, ObjectSuffix))>>

LibraryPath ==
    LET n == unit.base.name IN
    IF Has(o, "-o") THEN o.slot["-o"].path
    ELSE IF o.lib = "static"
    THEN IF target_info[o.target].format = "COFF"
         THEN Path(unit.base.dir, n, <<".lib">>)
         ELSE Path(unit.base.dir, "lib" \o n, <<".a">>)
    ELSE CASE target_info[o.target].os = "windows" -> Path(unit.base.dir, n, <<".dll">>)
           [] target_info[o.target].os = "macos"   ->
                Path(unit.base.dir, "lib" \o n, <<".dylib">>)
           [] OTHER -> Path(unit.base.dir, "lib" \o n, <<".so">>)

\* Mutant: the old archive stays, and llvm-ar adds to it.
Archive_added(members) ==
    <<Tool(LibraryPath, "archive",
           Append(members, Plus(PackagePath, ObjectSuffix)),
           archive_command("llvm-ar", LibraryPath,
                           Append(members, Plus(PackagePath, ObjectSuffix))))>>

(* rm of the old archive, then llvm-ar with the members.                   *)
Archive(members) ==
    <<Delete(LibraryPath),
      Tool(LibraryPath, "archive",
           Append(members, Plus(PackagePath, ObjectSuffix)),
           archive_command(IF Has(o, "--llvm-ar") THEN "--llvm-ar"
                           ELSE "llvm-ar", LibraryPath,
                           Append(members, Plus(PackagePath, ObjectSuffix))))>>

Extracted(name) == Path(Append(unit.base.dir, unit.base.name \o ".rt"), name,
                        ObjectSuffix)

StubPath == Path(o.runtime \o <<"lib", o.target>>, "anti_rt_license_stub",
                 ObjectSuffix)

(* The members of the runtime besides its start code and its licence.      *)
Kept(listing) ==
    LET a == InOrder({i \in DOMAIN listing :
                        listing[i] \notin {"start", "license"}}, Len(listing))
    IN  [k \in DOMAIN a |-> listing[a[k]]]

bundle(object, listing) ==
    LET kept    == Kept(listing)
        paths   == [i \in DOMAIN kept |-> Extracted(kept[i])]
        extract == [i \in DOMAIN kept |->
                        Tool(paths[i], "member", <<>>,
                             Command(<<"llvm-ar", "x", "--output", "library",
                                       kept[i]>>, 0, 0))]
        objects == <<object, StubPath>> \o paths
        joined  == Plus(unit.base, <<".bundled">> \o ObjectSuffix)
    IN  IF target_info[o.target].format = "COFF"
        THEN extract \o Archive(objects)
        ELSE extract \o link_facts
             \o <<Tool(joined, "joined", objects,
                       relocatable_command(o.target,
                            Inputs(object, joined, <<>>), joined, objects))>>
             \o Archive(<<joined>>)

(* The shared library, with the version in its name on Linux.              *)
SharedLibrary(object) ==
    LET major     == On("--soname")
        linux     == target_info[o.target].os = "linux" /\ major
        def       == Plus(unit.base, <<".def">>)
        versioned == IF linux THEN Plus(LibraryPath, <<".1">>) ELSE LibraryPath
    IN  IF major /\ ~Has(o, "--package-version") THEN <<Fail>>
        ELSE (IF target_info[o.target].os = "windows"
              THEN <<Write(def, [kind |-> "def", version |-> unit.asm.version])>>
              ELSE <<>>)
             \o link_facts
             \o <<Tool(versioned, "shared", <<object>> \o o.objects,
                       link_shared_command(o.target,
                            Inputs(object, versioned, o.objects), major))>>
             \o (IF linux
                 THEN <<Tool(LibraryPath, "symlink", <<versioned>>,
                             Command(<<"ln", "-sf", versioned, LibraryPath>>,
                                     0, 0))>> ELSE <<>>)

Header == [kind |-> "header", version |-> unit.asm.version]

build_c_library(object) ==
    <<Write(Plus(unit.base, <<".h">>), Header)>>
    \o (IF o.lib = "static"
        THEN assemble_package
             \o (IF On("--bundle-runtime") THEN <<Listing>>
                 ELSE Archive(<<object>>))
        ELSE SharedLibrary(object))

ObjectPath == Plus(unit.base, ObjectSuffix)

\* Mutant: the assembly file is opened before compile runs.
Steps_opened ==
    IF unit.status = 1 THEN <<Write(Plus(Stem(o.input), <<".s">>), Partial), Fail>>
    ELSE <<Write(Plus(unit.base, <<".s">>), unit.asm)>>

(* driver_run after compile.                                               *)
Steps ==
    LET asm == Plus(unit.base, <<".s">>)
        exe == IF Has(o, "-o") THEN unit.base
               ELSE Plus(unit.base, target_info[o.target].executable_suffix)
        antl == IF Has(o, "-o") THEN o.slot["-o"].path
                ELSE Plus(Stem(o.input), <<".antl">>)
        object_only == unit.status = 3
    IN  IF unit.status = 1 THEN <<Fail>>
        ELSE IF unit.status = 2
        THEN IF unit.antl # Partial THEN <<Write(antl, unit.antl)>> ELSE <<>>
        ELSE IF /\ On("--dev") /\ ~object_only /\ ~On("-S")
                /\ (o.runtime = <<>> \/ ~can_link(o))
        THEN <<Fail>>
        ELSE IF On("-S")
        THEN <<Write(IF Has(o, "-o") THEN unit.base ELSE asm, unit.asm)>>
        ELSE <<Write(asm, unit.asm), assemble(asm, ObjectPath)>>
             \o (IF object_only THEN <<>>
                 ELSE IF o.lib # "none" THEN build_c_library(ObjectPath)
                 ELSE link_program(ObjectPath, exe))

-----------------------------------------------------------------------------
(* The file system: files is what was there, f in the operators below.     *)
Without(f, path) == [p \in DOMAIN f \ {path} |-> f[p]]

(* What a tool makes of the files it reads.  llvm-ar rcs adds its members  *)
(* to an archive that is there, in place of those with their names.        *)
MemberName(p) == <<p.name, p.suffix>>
Member(f, p)  == <<MemberName(p), f[p]>>

Made(f, step) ==
    CASE step.kind = "archive" ->
            LET new == {Member(f, p) : p \in ToSet(step.reads)}
                old == IF step.path \in DOMAIN f /\ f[step.path].kind = "archive"
                       THEN f[step.path].members ELSE {}
            IN  [kind |-> "archive", members |->
                    new \cup {m \in old : \A n \in new : n[1] # m[1]}]
      [] step.kind = "member" -> [kind |-> "rt", name |-> step.path.name]
      [] OTHER -> [kind |-> step.kind,
                   from |-> [i \in DOMAIN step.reads |-> f[step.reads[i]]]]

(* What is left of a file whose writer stopped.                            *)
Broken(path) == {files, Without(files, path), Put(files, path, Partial)}

-----------------------------------------------------------------------------
Init ==
    /\ files \in Worlds
    /\ o = NoOptions /\ unit = NoUnit /\ todo = <<>> /\ child = NoChild
    /\ status = 0 /\ before = files /\ commands = 0

Idle == status # Running

(* The programmer saves another version of a source file.                  *)
Edit ==
    /\ Idle
    /\ \E e \in Edits :
        e.path \in DOMAIN files /\ files' = Put(files, e.path, e.content)
    /\ before' = files'
    /\ files' # files
    /\ o' = NoOptions /\ unit' = NoUnit
    /\ UNCHANGED <<todo, child, status, commands>>

(* main reads the command line, driver_run checks the options, and the     *)
(* compiler runs: nothing is written before compile has ended.             *)
Start ==
    /\ Idle /\ commands < MaxCommands
    /\ commands' = commands + 1
    /\ files' = files /\ before' = files /\ child' = child
    /\ \E c \in Commands :
        /\ c.on \in DOMAIN files
        /\ o' = run(c.argv)
        /\ status' = IF o'.exit # -1 THEN o'.exit
                     ELSE IF Refused(o') THEN 2 ELSE Running
    /\ unit' = IF status' # Running THEN NoUnit
               ELSE IF ends_with(o'.input.suffix, ".antl") THEN compile_library_file(o')
               ELSE compile(o')
    /\ todo' = IF status' = Running THEN Steps' ELSE <<>>

At(op) == status = Running /\ todo # <<>> /\ Head(todo).op = op

Fails == status' = 1 /\ todo' = <<>>

Finish ==
    /\ status = Running /\ todo = <<>>
    /\ status' = 0
    /\ UNCHANGED <<files, o, unit, todo, child, before, commands>>

StepFails ==
    /\ At("fail") /\ Fails
    /\ UNCHANGED <<files, o, unit, child, before, commands>>

(* write_file, whose failure ends the command.                             *)
WriteFile ==
    /\ At("write")
    /\ \/ files' = Put(files, Head(todo).path, Head(todo).content)
          /\ todo' = Tail(todo) /\ UNCHANGED status
       \/ files' \in Broken(Head(todo).path) /\ Fails
    /\ UNCHANGED <<o, unit, child, before, commands>>

(* remove of the old archive, whose result nobody reads.  llvm-ar, the     *)
(* step after it, replaces the archive by a rename within its directory:   *)
(* where the old file cannot be removed, the rename fails as well, and the *)
(* command ends there with the old archive in place.                       *)
RemoveFile ==
    /\ At("remove")
    /\ \/ files' = Without(files, Head(todo).path)
          /\ todo' = Tail(todo) /\ UNCHANGED status
       \/ Head(todo).path \in DOMAIN files /\ UNCHANGED files /\ Fails
    /\ UNCHANGED <<o, unit, child, before, commands>>

-----------------------------------------------------------------------------
(* process_run and process_capture.                                        *)
AtProcess == At("tool") \/ At("listing") \/ At("query")
Captures  == At("listing") \/ At("query")

Output == CASE At("listing") -> RuntimeMembers
            [] At("query")   -> <<"sdk">>
            [] OTHER         -> <<>>

\* Mutant: the parent keeps its write end of the pipe.
Spawn_open ==
    /\ AtProcess /\ child.st = "none"
    /\ child' = [NoChild EXCEPT !.st = "running", !.out = Output,
                                !.writer = TRUE]
    /\ UNCHANGED <<files, o, unit, todo, status, before, commands>>

(* The parent closes its write end of the pipe right after the child runs. *)
Spawn ==
    /\ AtProcess /\ child.st = "none"
    /\ child' = [NoChild EXCEPT !.st = "running", !.out = Output,
                                !.writer = FALSE]
    /\ UNCHANGED <<files, o, unit, todo, status, before, commands>>

SpawnFails ==
    /\ AtProcess /\ child.st = "none"
    /\ Fails
    /\ UNCHANGED <<files, o, unit, child, before, commands>>

(* The child writes a line of its output when the pipe has room.           *)
ChildWrites ==
    /\ child.st = "running" /\ child.out # <<>>
    /\ Len(child.pipe) < PipeSize
    /\ child' = [child EXCEPT !.pipe = Append(@, Head(child.out)),
                              !.out = Tail(@)]
    /\ UNCHANGED <<files, o, unit, todo, status, before, commands>>

ChildExits ==
    /\ child.st = "running" /\ child.out = <<>>
    /\ At("tool") =>
        /\ ToSet(Head(todo).reads) \subseteq DOMAIN files
        /\ files' = Put(files, Head(todo).path, Made(files, Head(todo)))
    /\ ~At("tool") => files' = files
    /\ child' = [child EXCEPT !.st = "exited", !.code = 0]
    /\ UNCHANGED <<o, unit, todo, status, before, commands>>

(* A nonzero exit status, or the end by a signal.                          *)
ChildFails ==
    /\ child.st = "running"
    /\ files' \in IF At("tool") THEN Broken(Head(todo).path) ELSE {files}
    /\ child' = [child EXCEPT !.st = "exited", !.code = 1, !.out = <<>>]
    /\ UNCHANGED <<o, unit, todo, status, before, commands>>

ParentReads ==
    /\ Captures /\ child.pipe # <<>>
    /\ child' = [child EXCEPT !.got = @ \o child.pipe, !.pipe = <<>>]
    /\ UNCHANGED <<files, o, unit, todo, status, before, commands>>

(* read returns 0 when no process holds the write end; then the parent     *)
(* waits.                                                                  *)
wait_for ==
    /\ child.st = "exited"
    /\ Captures => child.pipe = <<>> /\ ~child.writer
    /\ child' = NoChild
    /\ IF child.code # 0 THEN Fails
       ELSE /\ todo' = IF At("listing")
                       THEN bundle(ObjectPath, child.got) ELSE Tail(todo)
            /\ UNCHANGED status
    /\ UNCHANGED <<files, o, unit, before, commands>>

(* The command and its child are killed.                                   *)
Crash ==
    /\ status = Running
    /\ status' = Killed
    /\ files' \in IF At("write") \/ (At("tool") /\ child.st = "running")
                  THEN Broken(Head(todo).path) ELSE {files}
    /\ todo' = <<>> /\ child' = NoChild
    /\ UNCHANGED <<o, unit, before, commands>>

Work == \/ Finish \/ StepFails \/ WriteFile \/ RemoveFile
        \/ Spawn \/ SpawnFails \/ ChildWrites \/ ChildExits \/ ChildFails
        \/ ParentReads \/ wait_for

Next == Edit \/ Start \/ Work \/ Crash

(* The system runs antic and its child, and every tool ends.               *)
Spec == Init /\ [][Next]_vars /\ WF_vars(Work)

-----------------------------------------------------------------------------
(* What the command promised to write, from the files it started with.     *)
ObjectOf(asm) == [kind |-> "object", from |-> <<asm>>]
Extra         == [i \in DOMAIN o.objects |-> before[o.objects[i]]]
PackageObject == Plus(PackagePath, ObjectSuffix)
JoinedObject  == Plus(unit.base, <<".bundled">> \o ObjectSuffix)

Bundled == [i \in DOMAIN Kept(RuntimeMembers) |->
                [kind |-> "rt", name |-> Kept(RuntimeMembers)[i]]]

ArchiveWanted ==
    LET object == <<MemberName(ObjectPath), ObjectOf(unit.asm)>>
        all    == <<ObjectOf(unit.asm), before[StubPath]>> \o Bundled
    IN  {<<MemberName(PackageObject), ObjectOf([kind |-> "package",
                                                of |-> unit.package])>>}
        \cup
        (IF ~On("--bundle-runtime") THEN {object}
         ELSE IF target_info[o.target].format = "COFF"
         THEN {object, Member(before, StubPath)}
              \cup {<<MemberName(Extracted(Bundled[i].name)), Bundled[i]>> :
                        i \in DOMAIN Bundled}
         ELSE {<<MemberName(JoinedObject), [kind |-> "joined", from |-> all]>>})

(* The path of an output, with what it is to hold.                         *)
One(path, content) == [p \in {path} |-> content]

Linked(kind) == [kind |-> kind, from |-> <<ObjectOf(unit.asm)>> \o Extra]

LibraryWanted ==
    IF o.lib = "static" THEN [kind |-> "archive", members |-> ArchiveWanted]
    ELSE IF target_info[o.target].os = "linux" /\ On("--soname")
    THEN [kind |-> "symlink", from |-> <<Linked("shared")>>]
    ELSE Linked("shared")

Wanted ==
    IF unit.status = 2
    THEN IF unit.antl # Partial
         THEN One(IF Has(o, "-o") THEN o.slot["-o"].path
                  ELSE Plus(Stem(o.input), <<".antl">>), unit.antl)
         ELSE <<>>
    ELSE IF On("-S")
    THEN One(IF Has(o, "-o") THEN unit.base ELSE Plus(unit.base, <<".s">>),
             unit.asm)
    ELSE IF unit.status = 3 THEN One(ObjectPath, ObjectOf(unit.asm))
    ELSE IF o.lib # "none"
    THEN Put(One(Plus(unit.base, <<".h">>), Header), LibraryPath, LibraryWanted)
    ELSE One(IF Has(o, "-o") THEN unit.base
             ELSE Plus(unit.base, target_info[o.target].executable_suffix),
             Linked("executable"))

(* The files of a build on the way to its output, and the files that it    *)
(* takes as they are.                                                      *)
Between == {Plus(unit.base, <<".s">>), ObjectPath, Plus(unit.base, <<".h">>),
            Plus(unit.base, <<".def">>), Plus(PackagePath, <<".s">>),
            PackageObject, JoinedObject}
           \cup {Extracted(Kept(RuntimeMembers)[i]) :
                    i \in DOMAIN Kept(RuntimeMembers)}

Outputs == DOMAIN Wanted
           \cup (IF o.lib = "none" THEN {} ELSE {Plus(LibraryPath, <<".1">>)})

(* No input of the linker is a file that the build writes, and the output  *)
(* of a library, which -o may name at will, is none of the files between.  *)
Apart ==
    /\ (ToSet(o.objects) \cup {StubPath}) \cap (Between \cup Outputs) = {}
    /\ o.lib # "none" => LibraryPath \notin Between

(* Exit status 0 means that every file the command is for holds what this  *)
(* command made of the sources as they are: nothing an earlier command,    *)
(* a failed one or a killed one left behind is part of it.                 *)
ExitZeroMeansBuilt ==
    status = 0 /\ unit # NoUnit /\ Apart =>
        \A p \in DOMAIN Wanted : p \in DOMAIN files /\ files[p] = Wanted[p]

(* A command that ends while compile runs (an error in the source, a       *)
(* library that is missing, damaged or in a cycle, an option that does     *)
(* not fit) leaves every file of an earlier build as it was.               *)
ErrorsTouchNothing ==
    status # Running /\ unit.status = 1 => files = before

-----------------------------------------------------------------------------
(* The files that the imports of the files in S reach, S among them: what  *)
(* is in every set that holds S and the provider of every import.          *)
Needs(p, q) == before[q].module \in ToSet(before[p].imports)

Reach(paths, S) ==
    {p \in paths : \A C \in SUBSET paths :
        /\ S \subseteq C
        /\ \A q \in C, r \in paths : Needs(q, r) => r \in C
        => p \in C}

(* The library files of a compilation.  The search is closed: an import    *)
(* without a file is under no search root.  load_libraries accepts exactly *)
(* the sets without two files of one module, without the module that is    *)
(* compiled, with a file for every import and without a cycle, and loads   *)
(* each file once and after the files it imports.                          *)
LibrariesResolved ==
    LET found == unit.found.out
        paths == ToSet(found)
        mod(p) == before[p].module
        order == [k \in DOMAIN unit.load.order |-> found[unit.load.order[k]]]
        loadable ==
            /\ \A i, j \in DOMAIN found : mod(found[i]) = mod(found[j]) => i = j
            /\ \A p \in paths :
                /\ before[p].body
                /\ ends_with(o.input.suffix, ".anti") => mod(p) # unit.module
                /\ \A m \in ToSet(before[p].imports) :
                        \E q \in paths : mod(q) = m
                /\ p \notin Reach(paths, {q \in paths : Needs(p, q)})
    IN  unit.found.ok =>
        /\ \A p \in paths : \A m \in ToSet(before[p].imports) :
                \/ \E q \in paths : mod(q) = m
                \/ search_roots(o, before, m) = <<>>
                \/ ToSet(search_roots(o, before, m)) \subseteq paths
        /\ unit.load.ok <=> loadable
        /\ unit.load.ok =>
            /\ Len(order) = Len(found) /\ ToSet(order) = paths
            /\ \A k \in DOMAIN order : \A m \in ToSet(before[order[k]].imports) :
                    \E n \in 1..(k - 1) : mod(order[n]) = m

(* A program or a shared library carries a notice that names the package   *)
(* of every module linked into it once, and the licence text of a package  *)
(* stands in it with the name of that package.  Two packages of one name   *)
(* are taken for one: their texts are then the same.                       *)
Noticed(asm, p) ==
    /\ Cardinality({i \in DOMAIN asm.notice.packages :
                        asm.notice.packages[i] = p.name}) = 1
    /\ p.text # "" /\ (\A q \in asm.packages : q.name = p.name => q.text = p.text)
            => \E t \in ToSet(asm.notice.texts) :
                    t.text = p.text /\ Contains(t.names, p.name)

Binaries == {p \in DOMAIN files : files[p].kind \in {"executable", "shared"}}

NoticeComplete ==
    \A b \in Binaries :
        LET asm == files[b].from[1].from[1]
        IN  /\ RuntimePackage \in asm.packages
            /\ \A p \in asm.packages : Noticed(asm, p)

(* No command line of src/linker.c outgrows the vector that calloc gave it *)
(* or the texts of struct link_command.                                    *)
CommandsFit ==
    \A i \in DOMAIN todo : todo[i].op = "tool" => Fits(todo[i].command)

(* Every command ends: antic reads what a captured child writes before it  *)
(* waits for it, and holds no end of the pipe that keeps the read open.    *)
CommandEnds == status = Running ~> status # Running
=============================================================================
