------------------------------- MODULE Lowering -------------------------------
(* How the emitter turns XLuau expressions and branches into plain Luau, and   *)
(* what the emitted code then does, statement by statement.                    *)
(*                                                                             *)
(* The emitter lowers an expression to setup statements, which it writes       *)
(* before the statement the expression is in, and a Luau expression            *)
(* (struct LoweredExpr, src/src/emitter.rs).  Programs and their meaning are   *)
(* in Luau; a temporary is named after the place of the node in the program it *)
(* is for, which makes names as unique as next_temp does.                      *)
EXTENDS Luau

CONSTANT Programs  \* programs to emit, as trees (see Luau)
VARIABLES source,  \* the program
          code,    \* the emitted statements that are still to run
          env,     \* the locals in scope, with their values
          trace    \* the calls made so far

vars == <<source, code, env, trace>>

Done == code = <<>>
Result == <<"result", <<>>>>
Names(locals) == [n \in {<<"x", <<>>>>} |-> locals[n]]

(* The source program, which the emitted code must implement. *)
S == INSTANCE Evaluation
       WITH names <- Names(env), answer <- IF Done /\ Result \in DOMAIN env THEN <<env[Result]>> ELSE <<>>
-------------------------------------------------------------------------------
(* Luau statements. *)
Local(n, e) == [op |-> "local", name |-> n, expr |-> e]
Assign(n, e) == [op |-> "assign", name |-> n, expr |-> e]
Discard(e) == [op |-> "discard", expr |-> e]
Block(body) == [op |-> "block", body |-> body]
If(branches, else) == [op |-> "if", branches |-> branches, else |-> else]
Leave(locals) == [op |-> "leave", locals |-> locals]
Declare(n) == Local(n, Literal(Nil))
While(test, body) == [op |-> "while", test |-> test, body |-> body, left |-> MaxRounds]
Repeat(body, test) == [op |-> "repeat", test |-> test, body |-> body, left |-> MaxRounds]
For(name, header, body) == [op |-> "for", name |-> name, header |-> header, body |-> body]
Break == [op |-> "break"]
Continue == [op |-> "continue"]
Return(args) == [op |-> "return", args |-> args]

(* Where the rounds of a loop end, and what was declared outside it. *)
Again(loop, locals) == [op |-> "again", loop |-> loop, locals |-> locals]
Until(loop, locals) == [op |-> "until", loop |-> loop, locals |-> locals]
-------------------------------------------------------------------------------
Lowered(setup, expr) == [setup |-> setup, expr |-> expr, safe |-> FALSE]

Capture(l, n) ==
  IF l.safe THEN l
  ELSE [setup |-> Append(l.setup, Local(n, l.expr)), expr |-> Name(n), safe |-> TRUE]

Setups(ls) == FlattenSeq([i \in DOMAIN ls |-> ls[i].setup])
Exprs(ls) == [i \in DOMAIN ls |-> ls[i].expr]

(* An expression used as a statement. *)
Run(l) == Append(l.setup, Discard(l.expr))
Store(l, n) == Append(l.setup, Assign(n, l.expr))

(* One if statement: the setup of each test but the first is written after the *)
(* body of the branch before it.                                               *)
Chain(tests, bodies, else) ==
  LET Next(i) == IF i < Len(tests) THEN tests[i + 1].setup ELSE <<>>
  IN tests[1].setup \o
     <<If([i \in DOMAIN tests |-> [test |-> tests[i].expr, body |-> bodies[i] \o Next(i)]],
          else)>>

Odd(ls) == [i \in 1..(Len(ls) \div 2) |-> ls[2 * i - 1]]
Even(ls) == [i \in 1..(Len(ls) \div 2) |-> ls[2 * i]]
-------------------------------------------------------------------------------
(* Each operator lowers one kind of node from its arguments, lowered already.  *)
LowerCall(f, ls) == Lowered(Setups(ls), Call(f, Exprs(ls)))

LowerIndex(ls) == Lowered(Setups(ls), Op("index", Exprs(ls)))
LowerConstructor(ls) == Lowered(Setups(ls), Op("constructor", Exprs(ls)))
LowerNot(ls) == Lowered(Setups(ls), Op("not", Exprs(ls)))

LowerPipe(f, ls, p) ==
  LET input == Capture(ls[1], <<"pipe", p>>)
  IN LowerCall(f, <<input>> \o Tail(ls))

LowerMethod(f, ls, p) ==
  LET base == Capture(ls[1], <<"opt", p>>)
      result == <<"result of opt", p>>
      current == <<"cur", p>>
      invoked == LowerCall(f, Tail(ls))
      method == Call(f, <<Name(current)>> \o invoked.expr.args)
      taken == invoked.setup \o <<Assign(current, method), Assign(result, Name(current))>>
      test == [test |-> Op("isset", <<Name(current)>>), body |-> taken]
  IN Lowered(base.setup \o
             <<Declare(result), Block(<<Local(current, base.expr), If(<<test>>, <<>>)>>)>>,
             Name(result))

LowerBinary(op, ls) == Lowered(Setups(ls), Op(op, Exprs(ls)))

\* Mutant: the right side is always set up and the left one is written twice.
LowerGuardedTwice(op, ls, p) ==
  LET left == ls[1]
      right == ls[2]
      isset == Op("isset", <<left.expr>>)
      direct == IF op = "nullish" THEN Op("ifexpr", <<isset, left.expr, right.expr>>)
                                  ELSE Op(op, <<left.expr, right.expr>>)
  IN Lowered(left.setup \o right.setup, direct)

(* and, or and ??: the right side runs only if the left one asks for it. *)
LowerGuarded(op, ls, p) ==
  LET left == Capture(ls[1], <<"lhs", p>>)
      right == ls[2]
      temp == <<op, p>>
      isset == Op("isset", <<left.expr>>)
      keep == <<Assign(temp, left.expr)>>
      take == Store(right, temp)
      direct == IF op = "nullish" THEN Op("ifexpr", <<isset, left.expr, right.expr>>)
                                  ELSE Op(op, <<left.expr, right.expr>>)
      branch == CASE op = "and" -> If(<<[test |-> left.expr, body |-> take]>>, keep)
                  [] op = "or" -> If(<<[test |-> left.expr, body |-> keep]>>, take)
                  [] op = "nullish" -> If(<<[test |-> isset, body |-> keep]>>, take)
  IN IF right.setup = <<>> THEN Lowered(left.setup, direct)
     ELSE Lowered(left.setup \o <<Declare(temp), branch>>, Name(temp))

LowerTernary(ls, p) ==
  LET condition == Capture(ls[1], <<"cond", p>>)
      temp == <<"ternary", p>>
      branch == If(<<[test |-> condition.expr, body |-> Store(ls[2], temp)]>>,
                   Store(ls[3], temp))
  IN IF ls[2].setup = <<>> /\ ls[3].setup = <<>>
     THEN Lowered(condition.setup,
                  Op("ifexpr", <<condition.expr, ls[2].expr, ls[3].expr>>))
     ELSE Lowered(condition.setup \o <<Declare(temp), branch>>, Name(temp))

Captures(ls, prefix, p) ==
  [i \in DOMAIN ls |-> Capture(ls[i], <<prefix, Append(p, i)>>)]

LowerIfExpr(ls, p) ==
  LET temp == <<"ifexpr", p>>
      values == Even(ls)
  IN Lowered(<<Declare(temp)>> \o
             Chain(Captures(Odd(ls), "ifcond", p),
                   [i \in DOMAIN values |-> Store(values[i], temp)], Store(Last(ls), temp)),
             Name(temp))

(* The test of a group of cases of a switch: one equals the local n. *)
OneEquals(ls, n) ==
  LET equals == [i \in DOMAIN ls |-> Op("binary", <<Name(n), ls[i].expr>>)]
  IN Lowered(Setups(ls), FoldLeft(LAMBDA l, r : Op("or", <<l, r>>), Head(equals), Tail(equals)))

LowerSwitchExpr(ls, p) ==
  LET switch == <<"sw", p>>
      temp == <<"swexpr", p>>
      results == Even(Tail(ls))
  IN Lowered(ls[1].setup \o <<Local(switch, ls[1].expr), Declare(temp)>> \o
             Chain([i \in DOMAIN results |-> OneEquals(<<ls[2 * i]>>, switch)],
                   [i \in DOMAIN results |-> Store(results[i], temp)], Store(Last(ls), temp)),
             Name(temp))

\* Mutant: the temporary is declared inside the block.
LowerDoInside(ls, p) ==
  LET temp == <<"de", p>>
  IN Lowered(<<Block(<<Declare(temp)>> \o Run(ls[1]) \o Store(ls[2], temp))>>, Name(temp))

LowerDo(ls, p) ==
  LET temp == <<"de", p>>
  IN Lowered(<<Declare(temp), Block(Run(ls[1]) \o Store(ls[2], temp))>>, Name(temp))

(* do local { key = n = default } = source, and a result. *)
LowerLet(e, ls, p) ==
  LET temp == <<"de", p>>
      base == <<"d", p>>
      default == <<"default", p>>
      field == Get(Name(base), e.key)
      isset == Op("isset", <<field>>)
      choice == If(<<[test |-> isset, body |-> <<Assign(default, field)>>]>>, Store(ls[2], default))
      binding == IF ls[2].setup = <<>>
                 THEN <<Local(e.name, Op("ifexpr", <<isset, field, ls[2].expr>>))>>
                 ELSE <<Declare(default), choice, Local(e.name, Name(default))>>
      body == ls[1].setup \o <<Local(<<"v", p>>, ls[1].expr), Local(base, Name(<<"v", p>>))>>
              \o binding \o Store(ls[3], temp)
  IN Lowered(<<Declare(temp), Block(body)>>, Name(temp))

(* The clauses of a comprehension, each inside the one before it. *)
Clauses(e, ls, insert) ==
  LET Clause(k, body) ==
        ls[k].setup \o
        (IF e.clauses[k].is = "if" THEN <<If(<<[test |-> ls[k].expr, body |-> body]>>, <<>>)>>
         ELSE <<For(e.clauses[k].name, ls[k].expr, body)>>)
  IN FoldRight(Clause, [k \in 1..Len(e.clauses) |-> k], insert)

LowerComprehension(e, ls, p) ==
  LET table == <<"comp", p>>
      value == Last(ls)
      insert == Append(value.setup, Discard(Op("insert", <<value.expr>>)))
  IN Lowered(<<Local(table, Literal(Table))>> \o Clauses(e, ls, insert), Name(table))

(* Statements have no value. *)
Statement(setup) == [setup |-> setup, expr |-> Literal(Nil), safe |-> TRUE]

LowerIf(ls, p) ==
  LET blocks == Even(ls)
  IN Statement(Chain(Captures(Odd(ls), "cond", p),
                     [i \in DOMAIN blocks |-> Run(blocks[i])], Run(Last(ls))))

(* The cases of a switch that are written together: a case without a block of  *)
(* its own, for which fallthrough stands too, is part of the next one's test.  *)
Groups(e) ==
  LET ends == SetToSortSeq({i \in 1..((Len(e.args) - 2) \div 2) : i \notin e.shares}, <)
      First(k) == IF k = 1 THEN 1 ELSE ends[k - 1] + 1
  IN [k \in DOMAIN ends |-> [i \in 1..(ends[k] - First(k) + 1) |-> First(k) + i - 1]]

(* Without cases only the default is written: the value is not evaluated. *)
LowerSwitch(e, ls, p) ==
  LET switch == <<"sw", p>>
      groups == Groups(e)
      tests == [k \in DOMAIN groups |->
                 OneEquals([i \in DOMAIN groups[k] |-> ls[2 * groups[k][i]]], switch)]
      blocks == [k \in DOMAIN groups |-> Run(ls[2 * Last(groups[k]) + 1])]
  IN Statement(IF groups = <<>> THEN Run(Last(ls))
               ELSE ls[1].setup \o <<Local(switch, ls[1].expr)>> \o
                    Chain(tests, blocks, Run(Last(ls))))

(* The test that e fits a pattern. *)
RECURSIVE Condition(_, _)
Condition(pattern, e) ==
  CASE pattern.is = "literal" -> Op("binary", <<e, Literal(pattern.value)>>)
    [] pattern.is = "bind" -> Literal("true")
    [] pattern.is = "table" ->
         LET fields == [i \in DOMAIN pattern.fields |->
                         Condition(pattern.fields[i].pattern, Get(e, pattern.fields[i].key))]
         IN FoldLeft(LAMBDA l, r : Op("and", <<l, r>>), Op("istable", <<e>>), fields)

(* Case i of a match.  What its pattern binds is read before the pattern is    *)
(* tested, and when an earlier case was taken.                                 *)
LowerCase(e, ls, i, subject, p) ==
  LET matched == <<"matched", p>>
      test == <<"mcond", Append(p, i)>>
      bindings == Bindings(e.patterns[i], subject)
      bound == [b \in DOMAIN bindings |-> <<"mbind", p \o <<i, b>>>>]
      guard == ls[2 * i]
      Locals == [b \in DOMAIN bindings |-> Local(bindings[b].name, Name(bound[b]))]
      When(body) == If(<<[test |-> Name(test), body |-> Locals \o body]>>, <<>>)
  IN Block([b \in DOMAIN bindings |-> Declare(bound[b])] \o
           [b \in DOMAIN bindings |-> Assign(bound[b], bindings[b].expr)] \o
           <<Local(test, Op("and", <<Op("not", <<Name(matched)>>), Condition(e.patterns[i], subject)>>))>> \o
           (IF e.args[2 * i] = Literal("true") THEN <<>> ELSE <<When(Store(guard, test))>>) \o
           <<When(<<Assign(matched, Literal("true"))>> \o Run(ls[2 * i + 1]))>>)

LowerMatch(e, ls, p) ==
  LET subject == Capture(ls[1], <<"m", p>>)
  IN Statement(subject.setup \o <<Local(<<"matched", p>>, Literal("false"))>> \o
               [i \in DOMAIN e.patterns |-> LowerCase(e, ls, i, subject.expr, p)])

(* A test with setup is evaluated in the loop. *)
LowerWhile(ls, p) ==
  LET test == Capture(ls[1], <<"cond", p>>)
      guard == <<"while", p>>
      leave == If(<<[test |-> Op("not", <<Name(guard)>>), body |-> <<Break>>]>>, <<>>)
  IN Statement(<<IF test.setup = <<>> THEN While(test.expr, Run(ls[2]))
                 ELSE While(Literal("true"),
                            test.setup \o <<Local(guard, test.expr), leave>> \o Run(ls[2]))>>)

LowerRepeat(ls, p) ==
  LET test == Capture(ls[2], <<"repeat", p>>)
  IN Statement(<<Repeat(Run(ls[1]) \o test.setup, test.expr)>>)

LowerFor(e, ls) ==
  Statement(Append(ls[1].setup, For(e.clauses[1].name, ls[1].expr, Run(ls[2]))))

LowerReturn(ls) == Statement(Append(Setups(ls), Return(Exprs(ls))))

(* An object and an index, evaluated once. *)
Target(ls, p) == <<Capture(ls[1], <<"obj", p>>), Capture(ls[2], <<"idx", p>>)>>

LowerSet(ls, p) ==
  LET parts == Append(Target(ls, p), ls[3])
  IN Statement(Append(Setups(parts), Discard(Op("set", Exprs(parts)))))

LowerUpdate(ls, p) ==
  LET at == Target(ls, p)
      updated == Op("binary", <<Op("index", Exprs(at)), ls[3].expr>>)
  IN Statement(Setups(at) \o ls[3].setup \o <<Discard(Op("set", Append(Exprs(at), updated)))>>)

LowerDefault(ls, p) ==
  LET at == Target(ls, p)
      isnil == Op("not", <<Op("isset", <<Op("index", Exprs(at))>>)>>)
      set == Discard(Op("set", Append(Exprs(at), ls[3].expr)))
  IN Statement(Append(Setups(at), If(<<[test |-> isnil, body |-> Append(ls[3].setup, set)]>>, <<>>)))

RECURSIVE Lower(_, _)
Lower(e, p) ==
  LET ls == [i \in DOMAIN e.args |-> Lower(e.args[i], Append(p, i))]
  IN CASE e.op \in {"literal", "name"} -> [setup |-> <<>>, expr |-> e, safe |-> TRUE]
       [] e.op = "call" -> LowerCall(e.name, ls)
       [] e.op = "pipe" -> LowerPipe(e.name, ls, p)
       [] e.op = "method" -> LowerMethod(e.name, ls, p)
       [] e.op = "binary" -> LowerBinary(e.op, ls)
       [] e.op \in {"and", "or", "nullish"} -> LowerGuarded(e.op, ls, p)
       [] e.op = "ternary" -> LowerTernary(ls, p)
       [] e.op = "ifexpr" -> LowerIfExpr(ls, p)
       [] e.op = "swexpr" -> LowerSwitchExpr(ls, p)
       [] e.op = "do" -> LowerDo(ls, p)
       [] e.op = "if" -> LowerIf(ls, p)
       [] e.op = "switch" -> LowerSwitch(e, ls, p)
       [] e.op = "index" -> LowerIndex(ls)
       [] e.op = "list" -> Lowered(Setups(ls), Op("list", Exprs(ls)))
       [] e.op = "constructor" -> LowerConstructor(ls)
       [] e.op = "not" -> LowerNot(ls)
       [] e.op = "let" -> LowerLet(e, ls, p)
       [] e.op = "comp" -> LowerComprehension(e, ls, p)
       [] e.op = "seq" -> Statement(Run(ls[1]) \o Run(ls[2]))
       [] e.op = "match" -> LowerMatch(e, ls, p)
       [] e.op = "while" -> LowerWhile(ls, p)
       [] e.op = "repeat" -> LowerRepeat(ls, p)
       [] e.op = "for" -> LowerFor(e, ls)
       [] e.op = "break" -> Statement(<<Break>>)
       [] e.op = "continue" -> Statement(<<Continue>>)
       [] e.op = "return" -> LowerReturn(ls)
       [] e.op = "set" -> LowerSet(ls, p)
       [] e.op = "update" -> LowerUpdate(ls, p)
       [] e.op = "default" -> LowerDefault(ls, p)

\* Mutant: the expression itself is not written.
EmitSetup(e) == Lower(e, <<>>).setup

(* local result = e, at the top of a file. *)
Emit(e) ==
  LET l == Lower(e, <<>>)
  IN Append(l.setup, Local(Result, l.expr))
-------------------------------------------------------------------------------
Init ==
  /\ source \in Programs
  /\ code = Emit(source)
  /\ env \in [{Variable} -> Values \cup {Table}]
  /\ trace = <<>>

(* Where a step may go: to other locals and other code, or to the end. *)
To(locals, rest) == [env |-> locals, code |-> rest]
Ended(how) == To((Result :> how) @@ env, <<>>)

(* The next statement has these outcomes: After says where its value leads. *)
Evaluates(outcomes, After(_)) ==
  /\ \E o \in outcomes :
       LET next == IF o.exit = "error" THEN Ended("error") ELSE After(o.value)
       IN /\ trace' = trace \o o.trace
          /\ env' = next.env
          /\ code' = next.code
  /\ UNCHANGED source

AtStatement(op) == ~Done /\ code[1].op = op

Declares ==
  /\ AtStatement("local")
  /\ Evaluates(Eval(code[1].expr, env), LAMBDA v : To((code[1].name :> v) @@ env, Tail(code)))

Assigns ==
  /\ AtStatement("assign")
  /\ Evaluates(Eval(code[1].expr, env), LAMBDA v : To((code[1].name :> v) @@ env, Tail(code)))

Discards ==
  /\ AtStatement("discard")
  /\ Evaluates(Eval(code[1].expr, env), LAMBDA v : To(env, Tail(code)))

Returns ==
  /\ AtStatement("return")
  /\ Evaluates(Then(EvalAll(code[1].args, env), LAMBDA vs : Event("return", vs, Nil)),
               LAMBDA v : Ended("return"))

(* What is declared in a block is gone after it. *)
Entering(body) == body \o <<Leave(DOMAIN env)>> \o Tail(code)

Branches ==
  /\ AtStatement("if")
  /\ code[1].branches # <<>>
  /\ Evaluates(Eval(code[1].branches[1].test, env), LAMBDA v :
       To(env, IF Truthy(v) THEN Entering(code[1].branches[1].body)
               ELSE <<If(Tail(code[1].branches), code[1].else)>> \o Tail(code)))

Otherwise ==
  /\ AtStatement("if")
  /\ code[1].branches = <<>>
  /\ code' = Entering(code[1].else)
  /\ UNCHANGED <<source, env, trace>>

Enters ==
  /\ AtStatement("block")
  /\ code' = Entering(code[1].body)
  /\ UNCHANGED <<source, env, trace>>

Leaves ==
  /\ AtStatement("leave")
  /\ env' = Restrict(env, code[1].locals)
  /\ code' = Tail(code)
  /\ UNCHANGED <<source, trace>>

(* A loop is entered for one round less after each. *)
Entered == [code[1] EXCEPT !.left = @ - 1]

Loops ==
  /\ AtStatement("while")
  /\ code[1].left > 0
  /\ Evaluates(Eval(code[1].test, env), LAMBDA v :
       To(env, IF Truthy(v) THEN code[1].body \o <<Again(Entered, DOMAIN env)>> \o Tail(code)
               ELSE Tail(code)))

Repeats ==
  /\ AtStatement("repeat")
  /\ code[1].left > 0
  /\ code' = code[1].body \o <<Until(Entered, DOMAIN env)>> \o Tail(code)
  /\ UNCHANGED <<source, env, trace>>

Iterates ==
  /\ AtStatement("for")
  /\ Evaluates(EvalAll(code[1].header.args, env), LAMBDA vs :
       To(env, <<[op |-> "iterate", name |-> code[1].name, with |-> vs, body |-> code[1].body,
                  left |-> MaxRounds]>> \o Tail(code)))

TakesNext ==
  /\ AtStatement("iterate")
  /\ code[1].left > 0
  /\ Evaluates(Elements(code[1].with), LAMBDA element :
       IF element = Nil THEN To(env, Tail(code))
       ELSE To((code[1].name :> element) @@ env,
               code[1].body \o <<Again(Entered, DOMAIN env)>> \o Tail(code)))

GoesRound ==
  /\ AtStatement("again")
  /\ env' = Restrict(env, code[1].locals)
  /\ code' = <<code[1].loop>> \o Tail(code)
  /\ UNCHANGED <<source, trace>>

(* The test of a repeat loop sees the locals of its body. *)
Tests ==
  /\ AtStatement("until")
  /\ Evaluates(Eval(code[1].loop.test, env), LAMBDA v :
       To(Restrict(env, code[1].locals),
          IF Truthy(v) THEN Tail(code) ELSE <<code[1].loop>> \o Tail(code)))

RoundEnd == SelectInSeq(code, LAMBDA s : s.op \in {"again", "until"})

Breaks ==
  /\ AtStatement("break")
  /\ env' = Restrict(env, code[RoundEnd].locals)
  /\ code' = SubSeq(code, RoundEnd + 1, Len(code))
  /\ UNCHANGED <<source, trace>>

(* The blocks in the loop are left: their locals are gone. *)
Skips ==
  /\ AtStatement("continue")
  /\ LET left == {i \in 1..RoundEnd : code[i].op = "leave"}
     IN env' = IF left = {} THEN env ELSE Restrict(env, code[Max(left)].locals)
  /\ code' = SubSeq(code, RoundEnd, Len(code))
  /\ UNCHANGED <<source, trace>>

Next ==
  \/ Declares \/ Assigns \/ Discards \/ Returns
  \/ Branches \/ Otherwise
  \/ Enters \/ Leaves
  \/ Loops \/ Repeats \/ Iterates \/ TakesNext
  \/ GoesRound \/ Tests \/ Breaks \/ Skips

Spec == Init /\ [][Next]_vars
-------------------------------------------------------------------------------
(* Locals have values, calls have answers, and the result is there at the end. *)
TypeOK ==
  /\ env \in [DOMAIN env -> Values \cup {Table, "return", "error"}]
  /\ Variable \in DOMAIN env
  /\ \A i \in DOMAIN trace : trace[i].answer \in Values \cup {Table}
  /\ Done => Result \in DOMAIN env

RECURSIVE Reads(_)
Reads(e) ==
  IF e.op = "name" THEN {e.local} ELSE UNION {Reads(e.args[i]) : i \in DOMAIN e.args}

(* What the next statement evaluates. *)
Evaluated(s) ==
  CASE s.op \in {"local", "assign", "discard"} -> {s.expr}
    [] s.op = "if" /\ s.branches # <<>> -> {s.branches[1].test}
    [] s.op = "while" -> {s.test}
    [] s.op = "until" -> {s.loop.test}
    [] s.op = "for" -> {s.header}
    [] s.op = "return" -> {Op("return", s.args)}
    [] OTHER -> {}

(* Emitted code never reads a temporary outside the block that declares it,    *)
(* nor assigns one: in Luau both would reach for a global of that name.        *)
TemporariesInScope ==
  ~Done =>
    /\ \A e \in Evaluated(code[1]) : Reads(e) \subseteq DOMAIN env
    /\ code[1].op = "assign" => code[1].name \in DOMAIN env

(* Emitted code makes the calls its source makes, with the same arguments, in  *)
(* the same order, each once and only if the source makes it, and has the      *)
(* same value: it implements the source.  It leaves loops, rounds of loops and *)
(* the program where the source does, and fails only where the source fails.   *)
ImplementsSource == S!Spec
===============================================================================
