------------------------------- MODULE MCBuild -------------------------------
(***************************************************************************)
(* Small instances of Build: two commands on a program, two on a library   *)
(* for C, one of every other kind, and one on every small graph of library *)
(* files.                                                                  *)
(***************************************************************************)
EXTENDS Build

W(s)    == Word(s)
In(n)   == Path(<<>>, n, <<".anti">>)
Obj(n)  == Path(<<>>, n, <<".o">>)
A(n)    == Path(<<"inc">>, n, <<".antl">>)
Inc     == <<W("-I"), File(Path(<<>>, "inc", <<>>))>>
Rt      == <<W("--runtime"), File(Path(<<>>, "rt", <<>>))>>
To(n, s) == <<W("-o"), File(Path(<<"out">>, n, s))>>
Lic     == Path(<<>>, "licence", <<".txt">>)

Source(version, error, main, imports) ==
    [kind |-> "source", version |-> version, error |-> error, main |-> main,
     imports |-> imports]

Lib(version, module, imports, package) ==
    [kind |-> "antl", header |-> TRUE, body |-> TRUE, module |-> module,
     imports |-> imports, package |-> package, version |-> version,
     main |-> FALSE, error |-> ""]

Package(name, text) == [name |-> <<name>>, text |-> text]

Stub(t) == Path(<<"rt", "lib", t>>, "anti_rt_license_stub",
                target_info[t].object_suffix)

Foreign(n) == [kind |-> "foreign", name |-> n]

Common ==
    (A("a") :> Lib("a1", <<"a">>, << <<"b">> >>, Package("pa", "text 1")))
    @@ (A("b") :> Lib("b1", <<"b">>, <<>>, Package("pb", "text 1")))
    @@ (Obj("x") :> Foreign("x")) @@ (Obj("y") :> Foreign("y"))
    @@ (Obj("z") :> Foreign("z")) @@ (Lic :> [kind |-> "text", text |-> "mine"])
    @@ [p \in {Stub(t) : t \in DOMAIN target_info} |->
            [kind |-> "rt", name |-> "stub"]]

Program == Common @@ (In("p") :> Source("p1", "", TRUE, << <<"a">> >>))
Library == Common @@ (In("l") :> Source("l1", "", FALSE, <<>>))
Mixed   == Common
    @@ (In("q") :> Source("q1", "", TRUE, << <<"a">> >>))
    @@ (In("n") :> Source("n1", "", FALSE, <<>>))
    @@ [p \in {In("read"), In("lex"), In("parse"), In("sema"), In("lower"),
               In("select")} |-> Source("e1", p.name, TRUE, <<>>)]
    @@ (Path(<<>>, "bad", <<".antl">>) :> [Lib("d1", <<"d">>, <<>>,
                                           Package("pd", "")) EXCEPT !.body = FALSE])
    @@ (Path(<<>>, "cut", <<".antl">>) :> [Lib("d1", <<"d">>, <<>>,
                                           Package("pd", "")) EXCEPT !.header = FALSE])

-----------------------------------------------------------------------------
(* Graphs of library files: c.antl on the command line, a.antl and b.antl  *)
(* under the search root; the compiled module is g.                        *)
Imports == {<<>>, << <<"a">> >>, << <<"b">> >>, << <<"c">> >>, << <<"g">> >>,
            << <<"a">>, <<"b">> >>, << <<"b">>, <<"c">> >>}

OnLine == Path(<<>>, "c", <<".antl">>)

G(m, imports) == Lib(m, <<m>>, imports, Package(m, m))

Graphs ==
    {(In("g") :> Source("g1", "", FALSE, << <<"a">> >>)) @@ (OnLine :> c) @@ a @@ b :
        c \in {G(m, i) : m \in {"c", "a", "g"}, i \in Imports},
        a \in {<<>>} \cup {A("a") :> G(m, i) : m \in {"a", "b"}, i \in Imports},
        b \in {<<>>} \cup {A("b") :> G("b", i) : i \in Imports}}

MCWorlds == {Program, Library, Mixed} \cup Graphs

MCEdits ==
    {[path |-> In("p"), content |-> Source("p2", e, TRUE, << <<"a">> >>)] :
        e \in {"", "sema"}}
    \cup {[path |-> In("l"), content |-> Source("l2", "", FALSE, <<>>)]}

P == <<File(In("p"))>> \o Rt
L == <<File(In("l"))>> \o Rt
Q == <<File(In("q"))>> \o Inc \o Rt
Shared == <<W("--lib"), W("shared")>>
Static == <<W("--lib"), W("static")>>
Soname == <<W("--soname"), W("--package-version"), W("1.2.3")>>
For(t) == <<W("--target"), W(t)>>

OnProgram ==
    {P \o Inc, P \o Inc \o To("p", <<>>) \o <<File(Obj("x"))>>,
     P \o Inc \o <<W("--dev"), W("--no-asserts")>>, P \o <<W("-S")>> \o Inc}

OnLibrary ==
    {L \o Static, L \o Static \o <<W("--bundle-runtime")>>,
     L \o Static \o <<W("--bundle-runtime")>> \o To("libl", <<".a">>),
     L \o Shared \o For("linux-arm64") \o Soname,
     <<File(In("l")), W("-c"), W("--license-text"), File(Lic)>>}

OnMixed ==
    {<<W("--version")>>, <<W("-o")>>, <<W("--unknown")>>,
     <<W("--dev")>>, <<File(Lic)>>, <<File(In("q")), File(In("n"))>>,
     Q \o For("none"), Q \o <<W("--lib"), W("none")>>,
     Q \o <<W("--linker"), W("none")>>, <<File(In("q"))>>,
     Q \o <<W("--linker"), W("platform")>> \o For("linux-arm64"),
     Q \o <<W("--linker"), W("platform")>> \o <<W("--asserts")>>,
     Q \o For("windows-x86_64"), Q \o For("linux-x86_64") \o <<W("--package-name"), W("pa")>>,
     Q \o Static, Q \o <<W("-c"), W("--dependency"), W("bad")>>,
     Q \o <<W("--dependency"), W("n,c,u"), W("--attribution"), W("by")>>,
     Q \o <<File(Path(<<>>, "bad", <<".antl">>))>>,
     Q \o <<File(Path(<<>>, "cut", <<".antl">>))>>,
     <<File(In("n"))>> \o Rt, <<File(In("n")), W("--dev")>>,
     <<File(In("n"))>> \o Rt \o Static \o For("windows-arm64")
        \o <<W("--bundle-runtime")>>,
     <<File(In("n"))>> \o Rt \o Shared \o For("windows-arm64")
        \o <<File(Obj("x"))>>,
     <<File(In("n"))>> \o Rt \o Shared \o For("macos-x86_64") \o Soname
        \o <<File(Obj("x")), File(Obj("y")), File(Obj("z"))>>,
     <<File(In("n"))>> \o Rt \o Shared \o For("macos-arm64")
        \o <<W("--soname")>>,
     <<File(In("n"))>> \o Rt \o Static \o <<W("--linker"), W("platform")>>
        \o <<W("--bundle-runtime")>>,
     <<File(A("a")), W("--dev"), File(A("b"))>>,
     <<File(In("q")), W("--dev")>> \o Inc}
    \cup {Q \o <<W(d)>> : d \in Dumps}
    \cup {<<File(In(e))>> \o Rt : e \in {"read", "lex", "parse", "sema",
                                         "lower", "select"}}

OnGraph == {<<File(In("g")), File(OnLine), W("--dump-types")>> \o Inc}

Given(n, lines) == {[on |-> In(n), argv |-> argv] : argv \in lines}

MCCommands == Given("p", OnProgram) \cup Given("l", OnLibrary)
              \cup Given("q", OnMixed) \cup Given("g", OnGraph)

MCMembers  == <<"start", "license", "heap", "list">>
MCSysroots == {"linux-x86_64", "macos-arm64", "macos-x86_64", "windows-x86_64",
               "linux-arm64"}
MCHome     == <<>>
=============================================================================
