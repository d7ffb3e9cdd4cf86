--------------------------------- MODULE Luau ---------------------------------
(* The trees that stand for XLuau programs and for the Luau expressions the    *)
(* emitter writes, and what they mean: the order in which their calls happen,  *)
(* the value they have and how they end.  Luau is the part of the language     *)
(* that is emitted, so Eval gives meaning to both sides of the translation in  *)
(* Lowering.                                                                   *)
(*                                                                             *)
(* A tree is a record with an operator and arguments.  The only effect is a    *)
(* call, which answers any value; a meaning is the set of all outcomes         *)
(* [value, exit, trace], where the trace lists the calls with their arguments  *)
(* and answers, and exit says what a statement leaves: a loop, a round of it,  *)
(* the program by return or by an error, or nothing.  The order is the one     *)
(* src/src/comptime/eval.rs gives what it can run; for the rest it is that of  *)
(* the plain Luau the emitter writes for it.                                   *)
EXTENDS Integers, SequencesExt, FiniteSetsExt, Functions, TLC

CONSTANT MaxRounds  \* bound: how often a loop is entered

ASSUME RoundsAssumption == MaxRounds \in Nat

Nil == "nil"
Table == "table"
Values == {Nil, "false", "true"}
Variable == <<"x", <<>>>>

Truthy(v) == v \notin {Nil, "false"}
Boolean(b) == IF b THEN "true" ELSE "false"

(* Tables look alike: each has a kind and a child, and no other field. *)
Field(v, key) ==
  CASE key = "kind" -> "true"
    [] key = "child" -> Table
    [] OTHER -> Nil

Literal(v) == [op |-> "literal", value |-> v, args |-> <<>>]
Name(n) == [op |-> "name", local |-> n, args |-> <<>>]
Call(f, args) == [op |-> "call", name |-> f, args |-> args]
Op(op, args) == [op |-> op, args |-> args]
Get(e, key) == [op |-> "field", key |-> key, args |-> <<e>>]
-------------------------------------------------------------------------------
(* Patterns of match: a literal, a name to bind, or a table whose fields, a    *)
(* sequence of [key, pattern], have patterns.                                  *)
RECURSIVE Fits(_, _), Bindings(_, _)

Fits(pattern, v) ==
  CASE pattern.is = "literal" -> v = pattern.value
    [] pattern.is = "bind" -> TRUE
    [] pattern.is = "table" ->
         v = Table /\ \A i \in DOMAIN pattern.fields :
                        Fits(pattern.fields[i].pattern, Field(v, pattern.fields[i].key))

(* The names a pattern binds, with the expressions for their values. *)
Bindings(pattern, e) ==
  CASE pattern.is = "literal" -> <<>>
    [] pattern.is = "bind" -> <<[name |-> pattern.name, expr |-> e]>>
    [] pattern.is = "table" ->
         FlattenSeq([i \in DOMAIN pattern.fields |->
                       Bindings(pattern.fields[i].pattern, Get(e, pattern.fields[i].key))])
-------------------------------------------------------------------------------
Just(v) == {[value |-> v, exit |-> "", trace |-> <<>>]}
Exit(how) == {[value |-> Nil, exit |-> how, trace |-> <<>>]}

(* The outcomes of first, each that does not leave followed by those of Rest   *)
(* for its value.                                                              *)
Then(first, Rest(_)) ==
  UNION {IF a.exit # "" THEN {a}
         ELSE {[b EXCEPT !.trace = a.trace \o @] : b \in Rest(a.value)} : a \in first}

(* A round of a loop, and the others after it. *)
Round(body, Others(_)) ==
  LET end == {[a EXCEPT !.value = Nil, !.exit = ""] : a \in {o \in body : o.exit = "break"}}
      next == {[a EXCEPT !.value = Nil, !.exit = ""] : a \in {o \in body : o.exit \in {"", "continue"}}}
  IN end \cup Then(next, Others) \cup {a \in body : a.exit \in {"return", "error", "cut"}}

Event(f, values, v) ==
  {[value |-> v, exit |-> "", trace |-> <<[call |-> f, with |-> values, answer |-> v]>>]}
Answers(f, values) == UNION {Event(f, values, v) : v \in Values}

(* Whether a loop has a next element is an answer too. *)
Elements(values) == UNION {Event("next", values, v) : v \in {Nil, "true"}}

(* A test holds if it is true or, in a switch, if it equals the subject. *)
Holds(subject, v) == IF subject = <<>> THEN Truthy(v) ELSE <<v>> = subject

RECURSIVE Eval(_, _), EvalAll(_, _), EvalChain(_, _, _), EvalSwitch(_, _, _, _),
          EvalMatch(_, _, _, _),
          EvalWhile(_, _, _), EvalRepeat(_, _, _), EvalClauses(_, _, _), EvalEach(_, _, _, _, _)

EvalAll(args, env) ==
  IF args = <<>> THEN Just(<<>>)
  ELSE Then(Eval(args[1], env), LAMBDA v :
         Then(EvalAll(Tail(args), env), LAMBDA vs : Just(<<v>> \o vs)))

(* A chain's arguments are test, value, test, value, ..., value: it has the     *)
(* value after the first test that holds.                                      *)
EvalChain(args, env, subject) ==
  IF Len(args) = 1 THEN Eval(args[1], env)
  ELSE Then(Eval(args[1], env), LAMBDA v :
         IF Holds(subject, v) THEN Eval(args[2], env)
         ELSE EvalChain(SubSeq(args, 3, Len(args)), env, subject))

(* Case i and later of a switch on v, which has a test and a block each.  The  *)
(* cases in e.shares have no block: they share that of a later one.            *)
EvalSwitch(e, i, v, env) ==
  LET cases == (Len(e.args) - 2) \div 2
      with == {j \in i..cases : j \notin e.shares}
  IN IF i > cases THEN Eval(Last(e.args), env)
     ELSE Then(Eval(e.args[2 * i], env), LAMBDA w :
            CASE w # v -> EvalSwitch(e, i + 1, v, env)
              [] w = v /\ with # {} -> Eval(e.args[2 * Min(with) + 1], env)
              [] w = v /\ with = {} -> Eval(Last(e.args), env))

(* Case i and later of a match on v: a pattern, a guard and a block each. *)
EvalMatch(e, i, v, env) ==
  IF i > Len(e.patterns) THEN Just(Nil)
  ELSE IF ~Fits(e.patterns[i], v) THEN EvalMatch(e, i + 1, v, env)
  ELSE LET subject == <<"match", <<>>>>
           bound == Bindings(e.patterns[i], Name(subject))
           Value(b) == (CHOOSE o \in Eval(b.expr, subject :> v) : TRUE).value
           inside == FoldLeft(LAMBDA names, b : (b.name :> Value(b)) @@ names, env, bound)
       IN Then(Eval(e.args[2 * i], inside), LAMBDA g :
            IF Truthy(g) THEN Eval(e.args[2 * i + 1], inside) ELSE EvalMatch(e, i + 1, v, env))

(* The loops may be entered `left` more times: then they are cut. *)
EvalWhile(e, env, left) ==
  IF left = 0 THEN Exit("cut")
  ELSE Then(Eval(e.args[1], env), LAMBDA test :
         IF ~Truthy(test) THEN Just(Nil)
         ELSE Round(Eval(e.args[2], env), LAMBDA v : EvalWhile(e, env, left - 1)))

EvalRepeat(e, env, left) ==
  IF left = 0 THEN Exit("cut")
  ELSE Round(Eval(e.args[1], env), LAMBDA v :
         Then(Eval(e.args[2], env), LAMBDA test :
           IF Truthy(test) THEN Just(Nil) ELSE EvalRepeat(e, env, left - 1)))

(* Clause i and later of a for loop, which has one clause and a block, or of a *)
(* comprehension.                                                              *)
EvalClauses(e, i, env) ==
  CASE i > Len(e.clauses) /\ e.op = "for" -> Eval(e.args[i], env)
    [] i > Len(e.clauses) /\ e.op = "comp" ->
         Then(Eval(e.args[i], env), LAMBDA v : Event("insert", <<v>>, Nil))
    [] i <= Len(e.clauses) /\ e.clauses[i].is = "if" ->
         Then(Eval(e.args[i], env), LAMBDA v :
           IF Truthy(v) THEN EvalClauses(e, i + 1, env) ELSE Just(Nil))
    [] OTHER ->
         Then(EvalAll(e.args[i].args, env), LAMBDA vs : EvalEach(e, i, vs, env, MaxRounds))

EvalEach(e, i, vs, env, left) ==
  IF left = 0 THEN Exit("cut")
  ELSE Then(Elements(vs), LAMBDA element :
         IF element = Nil THEN Just(Nil)
         ELSE Round(EvalClauses(e, i + 1, (e.clauses[i].name :> element) @@ env), LAMBDA v :
                EvalEach(e, i, vs, env, left - 1)))

Eval(e, env) ==
  LET first == Eval(e.args[1], env)
      Second == Eval(e.args[2], env)
  IN CASE e.op = "literal" -> Just(e.value)
       [] e.op = "name" -> Just(IF e.local \in DOMAIN env THEN env[e.local] ELSE Nil)
       [] e.op \in {"call", "pipe"} ->
            Then(EvalAll(e.args, env), LAMBDA vs : Answers(e.name, vs))
       [] e.op = "method" ->  \* base?.name(...)
            Then(first, LAMBDA v :
              IF v = Nil THEN Just(Nil)
              ELSE Then(EvalAll(Tail(e.args), env),
                        LAMBDA vs : Answers(e.name, <<v>> \o vs)))
       [] e.op = "index" -> Then(EvalAll(e.args, env), LAMBDA vs : Answers("get", vs))
       [] e.op = "field" ->
            Then(first, LAMBDA v : IF v = Table THEN Just(Field(v, e.key)) ELSE Exit("error"))
       [] e.op = "constructor" -> Then(EvalAll(e.args, env), LAMBDA vs : Event(e.op, vs, Table))
       [] e.op \in {"set", "insert"} -> Then(EvalAll(e.args, env), LAMBDA vs : Event(e.op, vs, Nil))
       [] e.op = "isset" -> Then(first, LAMBDA v : Just(Boolean(v # Nil)))
       [] e.op = "istable" -> Then(first, LAMBDA v : Just(Boolean(v = Table)))
       [] e.op = "not" -> Then(first, LAMBDA v : Just(Boolean(~Truthy(v))))
       [] e.op = "and" -> Then(first, LAMBDA v : IF Truthy(v) THEN Second ELSE Just(v))
       [] e.op = "or" -> Then(first, LAMBDA v : IF Truthy(v) THEN Just(v) ELSE Second)
       [] e.op = "nullish" -> Then(first, LAMBDA v : IF v = Nil THEN Second ELSE Just(v))
       [] e.op = "binary" ->
            Then(first, LAMBDA l : Then(Second, LAMBDA r : Just(Boolean(l = r))))
       [] e.op \in {"do", "seq"} -> Then(first, LAMBDA v : Second)
       [] e.op = "let" ->  \* do local { key = name = default } = first, and a result
            Then(first, LAMBDA v :
              IF v # Table THEN Exit("error")
              ELSE Then(IF Field(v, e.key) # Nil THEN Just(Field(v, e.key)) ELSE Second, LAMBDA w :
                     Eval(e.args[3], (e.name :> w) @@ env)))
       [] e.op \in {"ternary", "ifexpr"} -> EvalChain(e.args, env, <<>>)
       [] e.op = "swexpr" ->
            Then(first, LAMBDA v : EvalChain(Tail(e.args), env, <<v>>))
       [] e.op = "comp" -> Then(EvalClauses(e, 1, env), LAMBDA v : Just(Table))
       [] e.op = "if" ->
            Then(EvalChain(e.args, env, <<>>), LAMBDA v : Just(Nil))
       [] e.op = "switch" ->
            Then(Then(first, LAMBDA v : EvalSwitch(e, 1, v, env)), LAMBDA v : Just(Nil))
       [] e.op = "match" ->
            Then(Then(first, LAMBDA v : EvalMatch(e, 1, v, env)), LAMBDA v : Just(Nil))
       [] e.op = "while" -> EvalWhile(e, env, MaxRounds)
       [] e.op = "repeat" -> EvalRepeat(e, env, MaxRounds)
       [] e.op = "for" -> EvalClauses(e, 1, env)
       [] e.op \in {"break", "continue"} -> Exit(e.op)
       [] e.op = "return" ->
            Then(Then(EvalAll(e.args, env), LAMBDA vs : Event(e.op, vs, Nil)),
                 LAMBDA v : Exit(e.op))
       [] e.op = "update" ->  \* object[index] = object[index] == value
            Then(EvalAll(SubSeq(e.args, 1, 2), env), LAMBDA at :
              Then(Answers("get", at), LAMBDA l :
                Then(Eval(e.args[3], env), LAMBDA r :
                  Event("set", at \o <<Boolean(l = r)>>, Nil))))
       [] e.op = "default" ->  \* object[index] ??= value
            Then(EvalAll(SubSeq(e.args, 1, 2), env), LAMBDA at :
              Then(Answers("get", at), LAMBDA old :
                IF old # Nil THEN Just(Nil)
                ELSE Then(Eval(e.args[3], env), LAMBDA v : Event("set", at \o <<v>>, Nil))))
===============================================================================
