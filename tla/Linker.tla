------------------------------- MODULE Linker -------------------------------
(***************************************************************************)
(* The targets of src/target.c and the command lines of src/linker.c.  A   *)
(* command is its argument vector, the room that calloc gave the vector,   *)
(* and the number of texts the command built beside it.  An argument is a  *)
(* word or a path; the bytes of a path are left out.  A suffix is the      *)
(* sequence of the extensions of a name.                                   *)
(***************************************************************************)
EXTENDS Integers, Sequences, SequencesExt

CONSTANT Host       \* the target antic runs on

LINK_FIXED_ARGS  == 24
LINK_MAX_STRINGS == 12

Info(os, arch, format, object, exe) ==
    [os |-> os, arch |-> arch, format |-> format,
     object_suffix |-> object, executable_suffix |-> exe]

Arm == {"linux-arm64", "macos-arm64", "windows-arm64"}

target_info ==
    [t \in Arm \cup {"linux-x86_64", "macos-x86_64", "windows-x86_64"} |->
        LET arch == IF t \in Arm THEN "arm64" ELSE "x86_64" IN
        IF t \in {"linux-x86_64", "linux-arm64"}
        THEN Info("linux", arch, "ELF", <<".o">>, <<>>)
        ELSE IF t \in {"macos-x86_64", "macos-arm64"}
        THEN Info("macos", arch, "Mach-O", <<".o">>, <<>>)
        ELSE Info("windows", arch, "COFF", <<".obj">>, <<".exe">>)]

target_from_name(name) == name \in DOMAIN target_info

ends_with(suffix, ext) == suffix # <<>> /\ Last(suffix) = ext

link_is_input(suffix) == \E ext \in {".o", ".a", ".obj", ".lib"} : ends_with(suffix, ext)

\* Mutant: the vector has no room for the extra inputs.
Command_fixed(argv, extra, strings) ==
    [argv |-> argv, room |-> LINK_FIXED_ARGS + 1, strings |-> strings]

Command(argv, extra, strings) ==
    [argv |-> argv, room |-> LINK_FIXED_ARGS + extra + 1, strings |-> strings]

(* The object of the program, then the extra inputs.                       *)
add_inputs(in) == <<in.object>> \o in.extra

link_runtime_library(t) ==
    IF target_info[t].format = "COFF" THEN "anti_rt.lib" ELSE "libanti_rt.a"

(* flavour of lld in its directory, which is a text of its own, or the     *)
(* platform linker.                                                        *)
program(in, flavour, platform) ==
    IF in.linker = "platform" THEN platform ELSE flavour

ProgramStrings(in) == IF in.linker = "lld" /\ in.lld_dir THEN 1 ELSE 0

macos_start(t, in, dylib) ==
    <<program(in, "ld64.lld", "ld")>> \o (IF dylib THEN <<"-dylib">> ELSE <<>>)
    \o <<"-S", "-arch", target_info[t].arch, "-platform_version", "macos",
         "version", "sdk version", "-syslibroot",
         IF in.linker = "lld" THEN "sysroot" ELSE "sdk path">>

macos(t, in) ==
    Command(macos_start(t, in, FALSE) \o <<"-o", in.executable>>
            \o add_inputs(in) \o <<link_runtime_library(t), "-lSystem">>,
            Len(in.extra), 2 + ProgramStrings(in))

linux_lld(t, in) ==
    Command(<<program(in, "ld.lld", "ld"), "-static", "-pie",
              "--no-dynamic-linker", "--strip-debug", "-o", in.executable,
              "rcrt1.o", "crti.o">>
            \o add_inputs(in) \o <<link_runtime_library(t), "libc.a",
                                   "libclang_rt.builtins.a", "crtn.o">>,
            Len(in.extra), 6 + ProgramStrings(in))

linux_ld(t, in) ==
    Command(<<"ld", "-pie", "--strip-debug", "--dynamic-linker", "-o",
              in.executable, "Scrt1.o", "crti.o">>
            \o add_inputs(in)
            \o <<link_runtime_library(t), "-L", "-lc", "crtn.o">>,
            Len(in.extra), 6)

windows_libpaths(in) ==
    IF in.linker = "lld" /\ in.sysroot
    THEN <<"crt/lib", "sdk/lib/um", "sdk/lib/ucrt">> ELSE <<>>

WindowsLibraries(t) ==
    <<link_runtime_library(t), "msvcrt.lib", "libvcruntime.lib", "ucrt.lib",
      "legacy_stdio_definitions.lib">>

windows(t, in) ==
    Command(<<program(in, "lld-link", "link.exe"), "/NOLOGO", "/debug:none",
              "/SUBSYSTEM:CONSOLE", "/MACHINE", in.executable>>
            \o windows_libpaths(in) \o add_inputs(in) \o WindowsLibraries(t),
            Len(in.extra),
            2 + ProgramStrings(in) + Len(windows_libpaths(in)))

link_command(t, in) ==
    CASE target_info[t].os = "macos"   -> macos(t, in)
      [] target_info[t].os = "windows" -> windows(t, in)
      [] OTHER -> IF in.linker = "lld" THEN linux_lld(t, in)
                  ELSE linux_ld(t, in)

(* A shared library; major is whether --soname gave it a version.          *)
link_shared_command(t, in, major) ==
    CASE target_info[t].os = "macos" ->
            Command(macos_start(t, in, TRUE) \o <<"-o", in.executable>>
                    \o (IF major
                        THEN <<"-install_name", "@rpath",
                               "-compatibility_version", "major",
                               "-current_version", "version">> ELSE <<>>)
                    \o add_inputs(in)
                    \o <<link_runtime_library(t), "-lSystem">>,
                    Len(in.extra), 4 + ProgramStrings(in))
      [] target_info[t].os = "linux" ->
            Command(<<program(in, "ld.lld", "ld"), "-shared", "--strip-debug",
                      "-o", in.executable>>
                    \o (IF major THEN <<"-soname", "base">> ELSE <<>>)
                    \o add_inputs(in) \o <<link_runtime_library(t)>>
                    \o (IF in.linker = "platform" THEN <<"-L", "-lc">>
                        ELSE <<>>),
                    Len(in.extra), 2 + ProgramStrings(in))
      [] OTHER ->
            Command(<<program(in, "lld-link", "link.exe"), "/NOLOGO",
                      "/debug:none", "/DLL", "/MACHINE", in.executable,
                      "/DEF">>
                    \o windows_libpaths(in) \o add_inputs(in)
                    \o WindowsLibraries(t),
                    Len(in.extra),
                    3 + ProgramStrings(in) + Len(windows_libpaths(in)))

archive_command(llvm_ar, archive, members) ==
    Command(<<llvm_ar, "--format", "rcs", archive>> \o members,
            Len(members), 0)

relocatable_command(t, in, output, objects) ==
    LET mac == target_info[t].os = "macos" IN
    Command(<<IF mac THEN "ld" ELSE program(in, "ld.lld", "ld"), "-r">>
            \o (IF mac THEN <<"-keep_private_externs", "-arch",
                              target_info[t].arch>> ELSE <<>>)
            \o <<"-o", output>> \o objects,
            Len(objects), IF mac THEN 0 ELSE ProgramStrings(in))

(* argv ends with NULL, so it takes one more than its arguments.           *)
Fits(c) == Len(c.argv) < c.room /\ c.strings <= LINK_MAX_STRINGS
=============================================================================
