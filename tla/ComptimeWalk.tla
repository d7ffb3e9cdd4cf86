---------------------------- MODULE ComptimeWalk ----------------------------
(* Statements of compile-time code (src/comptime/eval.rs and env.rs) beside *)
(* the same statements in Luau: scopes, assignments, blocks, loops, calls   *)
(* and returns.  A behavior is the evaluation of `comptime f(argument)` for *)
(* some body of f.  What expressions compute is a parameter here, in both   *)
(* worlds, and ComptimeEval gives it: what is proved of the walk holds      *)
(* whatever they compute.                                                   *)
EXTENDS Naturals, SequencesExt, FiniteSetsExt

CONSTANTS
  Locals,      \* names of locals
  LoopNames,   \* the two names loops bind
  Expressions, \* the expressions statements use
  Targets,     \* the targets of assignments: [name, path]
  Pairs,       \* assignments to two targets: [first, second, e1, e2]
  Patterns,    \* the patterns of destructuring locals: [entries, rest]
  CapturedScopes,    \* what the function captures: its scopes, constants by name
  Arguments,   \* what the function is called with: expressions
  MaxSteps,    \* bound: statements of a walk
  MaxBlocks    \* bound: blocks in a call, and calls in each other

ASSUME WalkBounds == MaxSteps \in Nat /\ MaxBlocks \in Nat

\* A stack of scopes.
ASSUME ScopesAreStacked ==
  \A scopes \in CapturedScopes : Len(scopes) \in Nat /\ DOMAIN scopes = 1..Len(scopes)

\* What expressions, assignments and patterns compute: the operators of the
\* evaluator, and those of Luau.
CONSTANTS
  eval_expr(_, _),         \* environment, expression
  set_path_value(_, _, _), \* table, path, value
  bind_pattern(_, _, _),   \* environment, pattern, value: [ok, values]
  luau_expr(_, _, _),      \* locals, expression, the identity of its tables
  luau_store(_, _, _, _, _), \* frames, table, path, value, values to be stored next
  luau_pattern(_, _, _, _) \* locals, pattern, value, identity: values

VARIABLES
  frames, \* the evaluators at work, outermost first, each with its Luau twin
  handle, \* the function: what it captured, in both worlds
  steps,  \* statements executed so far
  ended,  \* "running", or how the evaluation ended
  result  \* what the outermost call returned, in both worlds

walkVars == <<frames, handle, steps, ended, result>>

-----------------------------------------------------------------------------
(* The values that statements look at.                                      *)

Nil == [t |-> "nil"]
Num(n) == [t |-> "num", n |-> n]
Bool(b) == [t |-> "bool", b |-> b]
Error == [t |-> "error"]

\* Luau stops with an error; Luau goes its own way (why: see ComptimeEval).
Raised == [t |-> "raised"]
Departs(why) == [t |-> "departs", why |-> why]
Stops(l) == l.t \in {"raised", "departs"}

Truthy(v) == v \notin {Nil, Bool(FALSE)}

\* What a generic for loop goes over: fixed when the loop begins.
Items(v) ==
  IF v.t = "array"
  THEN [i \in DOMAIN v.items |-> <<Num(i), v.items[i]>>]
  ELSE [i \in DOMAIN v.entries |-> <<v.entries[i].key, v.entries[i].value>>]

Read(l, key) ==
  IF l.t # "map" THEN Raised ELSE IF key \in DOMAIN l.map THEN l.map[key] ELSE Nil

\* A loop in Luau, with the entries in the order the evaluator takes them.
LuauItems(l, items) ==
  [i \in DOMAIN items |-> <<items[i][1], Read(l, items[i][1])>>]

-----------------------------------------------------------------------------
(* CtEnv: scopes, outermost first.                                          *)

\* A map with the values of another added or put in their place.
Updated(map, values) ==
  [n \in DOMAIN map \union DOMAIN values |-> IF n \in DOMAIN values THEN values[n] ELSE map[n]]

Single(name, value) == [n \in {name} |-> value]

EmptyCtScope == [values |-> <<>>, const_names |-> {}]

PushScope(env) == Append(env, EmptyCtScope)

\* A scope into which some values are put.
Inserted(scope, values, is_const) ==
  [values |-> Updated(scope.values, values),
   const_names |-> IF is_const THEN scope.const_names \union DOMAIN values ELSE scope.const_names]

\* define_value for each of some names.
DefineValues(env, values, is_const) ==
  [env EXCEPT ![Len(env)] = Inserted(@, values, is_const)]

DefineValue(env, name, value, is_const) == DefineValues(env, Single(name, value), is_const)

\* The innermost scope with a name, 0 when there is none.
Innermost(env, name) == Max({i \in 1..Len(env) : name \in DOMAIN env[i].values} \union {0})

LookupName(env, name) ==
  LET i == Innermost(env, name) IN IF i = 0 THEN Error ELSE env[i].values[name]

Refused == [ok |-> FALSE, env |-> <<>>]

\* Mutant: consts are assigned as well.
AssignAnyway(env, name, value) ==
  LET i == Innermost(env, name)
  IN IF i = 0 \/ value = Error
     THEN Refused
     ELSE [ok |-> TRUE,
           env |-> [env EXCEPT ![i] = Inserted(@, Single(name, value), FALSE)]]

AssignValue(env, name, value) ==
  LET i == Innermost(env, name)
  IN IF i # 0 /\ name \in env[i].const_names THEN Refused ELSE AssignAnyway(env, name, value)

\* The root is read, changed and assigned back: a const table cannot change.
AssignTarget(env, target, value) ==
  LET path == [i \in DOMAIN target.path |->
                 [by |-> target.path[i].by, key |-> eval_expr(env, target.path[i].key)]]
  IN AssignValue(env, target.name, set_path_value(LookupName(env, target.name), path, value))

PatternNames(pattern) ==
  {pattern.entries[i].name : i \in DOMAIN pattern.entries}
  \union (IF pattern.rest = "" THEN {} ELSE {pattern.rest})

-----------------------------------------------------------------------------
(* Luau's locals, scope by scope.                                           *)

Declared(locals, values) == [locals EXCEPT ![Len(locals)] = Updated(@, values)]

\* The scope of a local, 0 for a name that is none.
LuauScope(locals, name) == Max({j \in 1..Len(locals) : name \in DOMAIN locals[j]} \union {0})

LuauPath(locals, target) ==
  [i \in DOMAIN target.path |-> luau_expr(locals, target.path[i].key, <<>>)]

Assigned(locals, target, value, pending) ==
  LET i == LuauScope(locals, target.name)
      new == luau_store(frames, locals[i][target.name], LuauPath(locals, target), value, pending)
  IN CASE i = 0 -> [stop |-> Raised, locals |-> locals]
       [] i # 0 /\ Stops(new) -> [stop |-> new, locals |-> locals]
       [] OTHER -> [stop |-> Nil,
                    locals |-> [locals EXCEPT ![i] = Updated(@, Single(target.name, new))]]

-----------------------------------------------------------------------------
(* Statements: both worlds take the same step, unless the evaluator refuses *)
(* the program or Luau would do something else.                             *)

Top == Last(frames)
Fresh == <<steps + 2>>

Running == ended = "running" /\ steps < MaxSteps

Stays(ok, l) == ok /\ ~Stops(l)

\* The end of the walk when the statement is not the same to both.
Ends(ok, l) ==
  /\ ~Stays(ok, l)
  /\ ended' = IF ~ok THEN "refused" ELSE IF l = Raised THEN "raised" ELSE "departed"
  /\ UNCHANGED <<frames, handle, steps, result>>

Frame(env, locals, open, into) == [env |-> env, locals |-> locals, open |-> open, into |-> into]

Move(f) ==
  /\ frames' = [frames EXCEPT ![Len(frames)] = f]
  /\ steps' = steps + 1
  /\ UNCHANGED <<handle, ended, result>>

Update(env, locals) == Move(Frame(env, locals, Top.open, Top.into))

Local(name, e, is_const) ==
  LET v == eval_expr(Top.env, e) l == luau_expr(Top.locals, e, Fresh)
  IN /\ Running
     /\ \/ /\ Stays(v # Error, l)
           /\ Update(DefineValue(Top.env, name, v, is_const), Declared(Top.locals, Single(name, l)))
        \/ Ends(v # Error, l)

Destructure(pattern, e) ==
  LET v == eval_expr(Top.env, e) l == luau_expr(Top.locals, e, Append(Fresh, 0))
      bound == bind_pattern(Top.env, pattern, v)
      luau == luau_pattern(Top.locals, pattern, l, Fresh)
      ok == v # Error /\ bound.ok
  IN /\ Running
     /\ \/ /\ Stays(ok, l)
           /\ Update(DefineValues(Top.env, [n \in PatternNames(pattern) |-> bound.values[n]], FALSE),
                     Declared(Top.locals, [n \in PatternNames(pattern) |-> luau[n]]))
        \/ Ends(ok, l)

Assign(target, e) ==
  LET v == eval_expr(Top.env, e) l == luau_expr(Top.locals, e, Fresh)
      assigned == IF v = Error THEN Refused ELSE AssignTarget(Top.env, target, v)
      luau == Assigned(Top.locals, target, l, {})
      stop == IF Stops(l) THEN l ELSE luau.stop
  IN /\ Running
     /\ \/ Stays(assigned.ok, stop) /\ Update(assigned.env, luau.locals)
        \/ Ends(assigned.ok, stop)

\* All values are evaluated before the first is assigned; the evaluator comes
\* to a target's own expressions only when it assigns to it.
ReadsTarget(second, first) ==
  \/ second.name = first.name /\ IsPrefix(first.path, second.path)
  \/ \E i \in DOMAIN second.path : second.path[i].key = [op |-> "name", name |-> first.name]

AssignTwo(pair) ==
  LET v1 == eval_expr(Top.env, pair.e1) v2 == eval_expr(Top.env, pair.e2)
      l1 == luau_expr(Top.locals, pair.e1, Append(Fresh, 1))
      l2 == luau_expr(Top.locals, pair.e2, Append(Fresh, 2))
      first == IF Error \in {v1, v2} THEN Refused ELSE AssignTarget(Top.env, pair.first, v1)
      second == IF first.ok THEN AssignTarget(first.env, pair.second, v2) ELSE Refused
      luau1 == Assigned(Top.locals, pair.first, l1, {l2})
      luau2 == Assigned(luau1.locals, pair.second, l2, {})
      stop == CASE Stops(l1) -> l1
                [] ~Stops(l1) /\ Stops(l2) -> l2
                [] ~Stops(l1) /\ ~Stops(l2) /\ ReadsTarget(pair.second, pair.first) -> Departs("targets")
                [] ~Stops(l1) /\ ~Stops(l2) /\ ~ReadsTarget(pair.second, pair.first) ->
                     IF Stops(luau1.stop) THEN luau1.stop ELSE luau2.stop
  IN /\ Running
     /\ \/ Stays(second.ok, stop) /\ Update(second.env, luau2.locals)
        \/ Ends(second.ok, stop)

\* A block that is run once: do, or the branch of an if whose test is e.
Block == [names |-> <<>>, left |-> <<>>, lefts |-> <<>>, over |-> Nil]

\* The values of a loop's names in one round.
RoundValues(names, values) ==
  [n \in ToSet(names) |-> values[CHOOSE i \in DOMAIN names : names[i] = n]]

BeginBlock(f, block, values, luau) ==
  Frame(DefineValues(PushScope(f.env), RoundValues(block.names, values), FALSE),
        Declared(Append(f.locals, <<>>), RoundValues(block.names, luau)),
        Append(f.open, block), f.into)

\* Mutant: the scope of the block stays.
LeaveOpen(f) == Frame(f.env, f.locals, Front(f.open), f.into)

LeaveBlock(f) == Frame(Front(f.env), Front(f.locals), Front(f.open), f.into)

If(e) ==
  LET v == eval_expr(Top.env, e) l == luau_expr(Top.locals, e, Fresh)
  IN /\ Running
     /\ Len(Top.open) < MaxBlocks
     /\ \/ Stays(v # Error, l) /\ Truthy(v) /\ Move(BeginBlock(Top, Block, <<>>, <<>>))
        \/ Ends(v # Error, l)

\* The next round of a loop, or the end of it.
Round(f, loop) ==
  IF loop.left = <<>> THEN f
  ELSE BeginBlock(f, [names |-> loop.names, left |-> Tail(loop.left), lefts |-> Tail(loop.lefts),
                      over |-> loop.over],
                  Head(loop.left), Head(loop.lefts))

ForNumeric(name, to) ==
  LET items == [i \in 1..to |-> <<Num(i)>>]
  IN /\ Running
     /\ Len(Top.open) < MaxBlocks
     /\ Move(Round(Top, [names |-> <<name>>, left |-> items, lefts |-> items, over |-> Nil]))

ForGeneric(k, n, e) ==
  LET v == eval_expr(Top.env, e) l == luau_expr(Top.locals, e, Fresh)
      ok == v.t \in {"array", "table"}
      items == IF ok THEN Items(v) ELSE <<>>
  IN /\ Running
     /\ Len(Top.open) < MaxBlocks
     /\ \/ /\ Stays(ok, l)
           /\ Move(Round(Top, [names |-> <<k, n>>, left |-> items, lefts |-> LuauItems(l, items), over |-> l]))
        \/ Ends(ok, l)

EndBlock ==
  /\ Running
  /\ Top.open # <<>>
  /\ Move(Round(LeaveBlock(Top), Last(Top.open)))

\* A call runs in what the function captured and a scope of its own.
Called(v, l, into) ==
  Frame(DefineValue(PushScope(handle.env), "x", v, FALSE),
        Declared(Append(handle.locals, <<>>), Single("x", l)), <<>>, into)

\* `local into = f(e)`, in f itself.
Call(into, e) ==
  LET v == eval_expr(Top.env, e) l == luau_expr(Top.locals, e, Fresh)
  IN /\ Running
     /\ Len(frames) < MaxBlocks
     /\ \/ /\ Stays(v # Error, l)
           /\ frames' = Append(frames, Called(v, l, into))
           /\ steps' = steps + 1
           /\ UNCHANGED <<handle, ended, result>>
        \/ Ends(v # Error, l)

\* The caller goes on with the result in a local.
Resumed(f, into, v, l) ==
  Frame(DefineValue(f.env, into, v, FALSE), Declared(f.locals, Single(into, l)), f.open, f.into)

\* return, from within any number of blocks, and the end of the body.
Give(v, l) ==
  LET callers == Front(frames) IN
  /\ steps' = steps + 1
  /\ UNCHANGED handle
  /\ \/ /\ callers = <<>>
        /\ frames' = <<>> /\ ended' = "returned" /\ result' = [value |-> v, luau |-> l]
     \/ /\ callers # <<>>
        /\ frames' = [callers EXCEPT ![Len(callers)] = Resumed(@, Top.into, v, l)]
        /\ UNCHANGED <<ended, result>>

Return(e) ==
  LET v == eval_expr(Top.env, e) l == luau_expr(Top.locals, e, Fresh)
  IN Running /\ ((Stays(v # Error, l) /\ Give(v, l)) \/ Ends(v # Error, l))

EndFunction == Running /\ Top.open = <<>> /\ Give(Nil, Nil)

\* A function definition keeps the scopes around it; all they hold is const.
Captured(scopes) ==
  [env |-> [i \in DOMAIN scopes |->
              [values |-> [n \in DOMAIN scopes[i] |-> eval_expr(<<>>, scopes[i][n])],
               const_names |-> DOMAIN scopes[i]]],
   locals |-> [i \in DOMAIN scopes |->
                 [n \in DOMAIN scopes[i] |-> luau_expr(<<>>, scopes[i][n], <<0>>)]]]

WalkInit ==
  /\ \E scopes \in CapturedScopes : handle = Captured(scopes)
  /\ \E e \in Arguments : frames = <<Called(eval_expr(<<>>, e), luau_expr(<<>>, e, <<1>>), "")>>
  /\ steps = 0
  /\ ended = "running"
  /\ result = [value |-> Nil, luau |-> Nil]

WalkNext ==
  \/ \E name \in Locals, e \in Expressions, is_const \in BOOLEAN : Local(name, e, is_const)
  \/ \E pattern \in Patterns, e \in Expressions : Destructure(pattern, e)
  \/ \E target \in Targets, e \in Expressions : Assign(target, e)
  \/ \E pair \in Pairs : AssignTwo(pair)
  \/ \E e \in Expressions : If(e)
  \/ \E to \in 0..2 : ForNumeric(LoopNames[1], to)
  \/ \E e \in Expressions : ForGeneric(LoopNames[1], LoopNames[2], e)
  \/ EndBlock
  \/ \E into \in Locals, e \in Expressions : Call(into, e)
  \/ \E e \in Expressions : Return(e)
  \/ EndFunction

WalkSpec == WalkInit /\ [][WalkNext]_walkVars

-----------------------------------------------------------------------------
(* Properties.                                                              *)

\* What the machine's variables are: as many scopes as Luau has, those that
\* were captured, one for the body and one for each open block, with the same
\* names in each; and a name is const only where it has a value.
WalkTypeOK ==
  /\ steps \in 0..MaxSteps
  /\ ended \in {"running", "returned", "refused", "raised", "departed"}
  /\ \A i \in DOMAIN frames :
       LET f == frames[i] IN
       /\ Len(f.env) = Len(handle.env) + 1 + Len(f.open)
       /\ Len(f.locals) = Len(f.env)
       /\ \A j \in DOMAIN f.env :
            /\ DOMAIN f.env[j].values = DOMAIN f.locals[j]
            /\ f.env[j].const_names \subseteq DOMAIN f.env[j].values

\* What a function captured stays as it was when the function was defined, in
\* every call, whatever the calls do: the same call gives the same result, and
\* the evaluator may give each call a copy (call_function, assign_value).  In
\* Luau no call assigns to the captured locals either; that none changes a
\* table they hold is for luau_store to see to, where the walk ends.
CapturedStays ==
  \A i \in DOMAIN frames : \A j \in 1..Len(handle.env) :
    /\ frames[i].env[j] = handle.env[j]
    /\ frames[i].locals[j] = handle.locals[j]

=============================================================================
