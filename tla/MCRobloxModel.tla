---------------------------- MODULE MCRobloxModel ----------------------------
(* A small instance of RobloxModel for TLC: fourteen files, of which a       *)
(* project has any, whose names collide, hide each other, name directories, *)
(* must be made safe or end with several suffixes.                          *)
EXTENDS RobloxModel

File(dir, stem, ext) == [dir |-> dir, stem |-> stem, ext |-> ext]

\* As the build sorts them: by the names on the path, as strings.
MCOrder == <<
  File(<<>>, ".server", "xl"),
  File(<<"a">>, "Init", "xl"),
  File(<<"a">>, "b", "luau"),
  File(<<"a">>, "b", "xl"),
  File(<<"a">>, "init.server", "xl"),
  File(<<"a">>, "init.v.server", "xl"),
  File(<<"a">>, "init", "xl"),
  File(<<"a-b">>, "b", "xl"),
  File(<<>>, "a-b", "xl"),
  File(<<>>, "a", "xl"),
  File(<<"a_b">>, "main", "xl"),
  File(<<>>, "init", "xl"),
  File(<<"main.server">>, "b", "xl"),
  File(<<>>, "main.server", "xl")>>

MCFiles == ToSet(MCOrder)

MCUnsafe == "a-b" :> "a_b" @@ "main.server" :> "main_server" @@ ".server" :> "_server"
            @@ "init.server" :> "init_server" @@ "init.v.server" :> "init_v_server"

MCExtensions == <<"xl", "luau">>
MCScriptSuffixes == <<".server", ".legacy", ".v.server", ".local">>
MCLongestFirst == <<".v.server", ".server", ".legacy", ".local">>
MCStripped ==
  <<"init.server", ".server">> :> "init" @@ <<"main.server", ".server">> :> "main"
  @@ <<"init.v.server", ".server">> :> "init.v" @@ <<"init.v.server", ".v.server">> :> "init"
  @@ <<".server", ".server">> :> ""
MCIndexFiles == <<"init">>

MCAliases ==
  {[from |-> <<"@x">>, wild |-> FALSE, to |-> <<"a">>],
   [from |-> <<"@y">>, wild |-> TRUE, to |-> <<>>],
   [from |-> <<"@y", "a">>, wild |-> TRUE, to |-> <<"a-b">>]}

\* "a-b" begins with "a".
MCLonger == <<"a", "a-b">> :> "-b" @@ <<"a", "a_b">> :> "_b"

Paths == {<<>>} \union {<<n>> : n \in {"a", "b", "a-b", "a_b", "init", "Init", "main"}}
         \union {<<"a", "b">>, <<"a-b", "b">>, <<"a_b", "main">>,
                <<"main.server", "b">>}

MCSpecifiers ==
  {[ups |-> u, names |-> p, ext |-> ""] : u \in 1..3, p \in Paths \ {<<>>}}
  \union {[ups |-> 1, names |-> <<>>, ext |-> ""]}
  \union {[ups |-> 1, names |-> p, ext |-> "xl"] : p \in Paths \ {<<>>}}
  \union {[ups |-> 0, names |-> <<"@x">> \o p, ext |-> ""] : p \in {<<>>, <<"b">>}}
  \union {[ups |-> 0, names |-> <<"@y">> \o p, ext |-> ""] : p \in Paths}
=============================================================================
