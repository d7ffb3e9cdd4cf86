------------------------------ MODULE MCLowering ------------------------------
(* Programs for Lowering: each construct of the language over operands with    *)
(* and without calls and setup.                                                *)
EXTENDS Lowering

x == Name(Variable)
Do(f) == Call(f, <<>>)
Or(f, g) == Op("nullish", <<Do(f), g>>)

(* An operand with and without calls, and with setup before and inside it. *)
Operands(f, g) ==
  {x, Do(f), Or(f, Do(g)), Op("and", <<Do(f), Or(g, x)>>)}
Simple(f) == {x, Do(f), Or(f, x)}

Pairs == {<<l, r>> : l \in Operands("a", "b"), r \in Operands("c", "d")}
Conditionals == {<<c, t, e>> : c \in Operands("a", "b"), t \in Simple("c"), e \in Simple("d")}
Matches ==
  {<<v, c, r, e>> : v \in Simple("a"), c \in Simple("b"), r \in {Do("c")}, e \in {x, Do("d")}}
Chains ==
  {<<c, r, d, t, e>> : c \in Simple("a"), r \in {Do("b")}, d \in {x, Do("c")},
                       t \in Simple("d"), e \in {Do("e")}}

Named(name, nodes) == {e @@ [name |-> name] : e \in nodes}
Each(clauses) == [clauses |-> clauses]
ForEach(n) == [is |-> "for", name |-> <<n, <<>>>>]
Filter == [is |-> "if"]
element == Name(<<"i", <<>>>>)
When(test, stmt) == Op("if", <<test, stmt, Literal(Nil)>>)
Leaving == {Op("break", <<>>), Op("continue", <<>>), Op("return", <<x>>)}
Note(v) == Op("set", <<x, x, v>>)

(* Bodies of loops: a note, perhaps after something that leaves the round. *)
Bodies ==
  {Note(x)} \cup {Op("seq", <<When(Do("w"), leave), Note(x)>>) : leave \in Leaving}

LoopPrograms ==
  {Op("while", <<test, body>>) : test \in Simple("a"), body \in Bodies}
  \cup {Op("repeat", <<body, test>>) : test \in Simple("a"), body \in Bodies}
  \cup {Op("for", <<Op("list", <<x, e>>), body>>) @@ Each(<<ForEach("i")>>) :
           e \in Simple("a"), body \in Bodies \cup {Note(element)}}
  \cup {Op("while", <<Do("a"), Op("for", <<Op("list", <<x>>), body>>) @@ Each(<<ForEach("i")>>)>>) :
           body \in Leaving}

Comprehensions ==
  {Op("comp", <<Op("list", <<e>>), test, value>>) @@ Each(<<ForEach("i"), Filter>>) :
     e \in Simple("a"), test \in {element, Or("b", element)}, value \in {element, Or("c", element)}}
  \cup {Op("comp", <<Op("list", <<x>>), Op("list", <<e>>), value>>) @@ Each(<<ForEach("i"), ForEach("j")>>) :
     e \in {element, Op("nullish", <<element, Do("b")>>)}, value \in {element, Do("c")}}

(* Patterns that bind and test, and the cases made of them. *)
Is(v) == [is |-> "literal", value |-> v]
Bind(n) == [is |-> "bind", name |-> <<n, <<>>>>]
With(key, pattern) == [is |-> "table", fields |-> <<[key |-> key, pattern |-> pattern]>>]
Patterns ==
  {Is("true"), Bind("p"), With("kind", Is("true")), With("kind", Bind("p")),
   With("child", With("kind", Bind("p"))), With("missing", With("kind", Bind("p")))}
Matching(subjects) ==
  LET Bound(pattern) == IF Bindings(pattern, x) = <<>> THEN x ELSE Name(<<"p", <<>>>>)
      Guards(pattern) == {Literal("true"), Call("g", <<Bound(pattern)>>), Or("g", Bound(pattern))}
      Match(v, first, guard, second) ==
        Op("match", <<v, guard, Call("first", <<Bound(first)>>), Literal("true"), Do("second")>>)
          @@ [patterns |-> <<first, second>>]
  IN UNION {{Match(v, first, guard, second) : v \in subjects, second \in Patterns, guard \in Guards(first)}
              : first \in Patterns}

Assignments ==
  {Op(op, <<o, at, v>>) : op \in {"set", "update", "default"},
                          o \in Simple("a"), at \in Operands("b", "c"), v \in Simple("d")}

Lets ==
  {Op("let", <<e, default, Call("r", <<Name(<<"n", <<>>>>)>>)>>) @@ [name |-> <<"n", <<>>>>, key |-> key] :
     e \in {x, Or("a", x), Op("constructor", <<Do("a")>>)}, default \in Operands("b", "c"),
     key \in {"kind", "missing"}}

(* Cases that share the block of a later one, or the default. *)
Shared ==
  LET Switch(c, d, shares) ==
        Op("switch", <<x, c, Literal(Nil), d, Do("body"), Do("default")>>) @@ [shares |-> shares]
  IN {Switch(c, d, {1}) : c \in {Do("a"), Literal("true")}, d \in {Do("b"), Literal(Nil)}}
     \cup {Switch(Literal("true"), Literal(Nil), {1, 2})}

AllPrograms ==
  LET values ==
        UNION {{Op(op, args) : args \in Pairs} :
                 op \in {"and", "or", "nullish", "binary", "do", "index", "constructor"}}
        \cup {Op(op, args) : op \in {"ternary", "ifexpr"}, args \in Conditionals}
        \cup {Op(op, args) : op \in {"ifexpr", "if"}, args \in Chains}
        \cup {Op(op, args) @@ [shares |-> {}] : op \in {"swexpr", "switch"}, args \in Matches}
        \cup {Op(op, <<x>> \o args) @@ [shares |-> {}] : op \in {"swexpr", "switch"}, args \in Chains}
        \cup {Op(op, args) @@ [name |-> "m"] :
                op \in {"call", "pipe", "method"}, args \in Pairs}
  IN values
     \cup {Op("binary", <<x, Op("method", <<Op("or", args), x>>) @@ [name |-> "m"]>>)
              : args \in Pairs}
     \cup {Op("do", <<Op("if", args), Or("y", Do("z"))>>) : args \in Conditionals}
     \cup {Op("not", <<e>>) : e \in Operands("a", "b")}
     \cup LoopPrograms \cup Comprehensions \cup Assignments \cup Lets \cup Shared
     \cup Matching({x, Op("constructor", <<Do("a")>>)})
-------------------------------------------------------------------------------
(* The shapes whose emitted code does not do what the source says.             *)

RECURSIVE HasCall(_), OrderKept(_), TestsArePlain(_)
HasCall(e) == e.op = "call" \/ \E i \in DOMAIN e.args : HasCall(e.args[i])

NeedsSetup(e) == Lower(e, <<>>).setup # <<>>

(* A call left of an operand with setup: the setup is written first.  So is    *)
(* that of a value before the read of the variable it updates.                 *)
Overtakes(e) ==
  \/ e.op = "update" /\ NeedsSetup(e.args[3])
  \/ /\ e.op \in {"binary", "call", "pipe", "method", "index", "constructor", "list"}
     /\ \E j \in DOMAIN e.args : \E i \in 1..(j - 1) :
          /\ e.op \in {"pipe", "method"} => i > 1
          /\ NeedsSetup(e.args[j]) /\ HasCall(Lower(e.args[i], <<>>).expr)
OrderKept(e) == ~Overtakes(e) /\ \A i \in DOMAIN e.args : OrderKept(e.args[i])

(* A test of an elseif that needs setup: it is written into the branch before. *)
Subject(e) == IF e.op \in {"switch", "swexpr"} THEN 1 ELSE 0
ComputesElseif(e) ==
  /\ e.op \in {"if", "ifexpr", "switch", "swexpr"}
  /\ \E i \in DOMAIN e.args :
       /\ i > Subject(e) + 2 /\ i < Len(e.args) /\ (i - Subject(e)) % 2 = 1
       /\ NeedsSetup(e.args[i]) \/ (Subject(e) = 0 /\ e.args[i].op \notin {"name", "literal"})
TestsArePlain(e) == ~ComputesElseif(e) /\ \A i \in DOMAIN e.args : TestsArePlain(e.args[i])

(* A field that a pattern binds is read before the value is known to be a      *)
(* table: the program fails unless it always is one.                           *)
BindsInReach(e) ==
  e.op = "match" =>
    \A k \in DOMAIN e.patterns :
      LET bound == Bindings(e.patterns[k], Name(Variable))
      IN \A b \in DOMAIN bound, v \in IF e.args[1].op = "constructor" THEN {Table} ELSE Values :
           \A o \in Eval(bound[b].expr, Variable :> v) : o.exit = ""

(* A test of a repeat loop that needs a local, which a continue passes over. *)
RECURSIVE Continues(_)
Continues(e) ==
  e.op = "continue" \/ (e.op \notin {"while", "repeat", "for"} /\ \E k \in DOMAIN e.args : Continues(e.args[k]))
TestIsReached(e) ==
  e.op = "repeat" => (~Continues(e.args[1]) \/ e.args[2].op \in {"name", "literal"})

FaithfulPrograms == 
  {e \in AllPrograms : OrderKept(e) /\ TestsArePlain(e) /\ BindsInReach(e) /\ TestIsReached(e)}
ElseifPrograms == {e \in AllPrograms : OrderKept(e) /\ e.op = "if"}
===============================================================================
