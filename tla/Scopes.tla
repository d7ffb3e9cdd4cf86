------------------------------- MODULE Scopes -------------------------------
(* What a name means to the two passes of the compiler that resolve names:  *)
(* the expander, which evaluates compile-time code in the scopes of a CtEnv *)
(* (src/comptime/expand.rs, src/comptime/env.rs), and the emitter, which    *)
(* refuses assignments to consts and has states notify their watchers       *)
(* (const_scopes and state_scopes of src/emitter.rs).  A behavior is a walk *)
(* through some program.  The compiler runs the passes one after the other; *)
(* as neither looks ahead, they walk together here.  `decls` and `open` say *)
(* what is in scope by Luau's rules: each pass keeps books of its own.      *)
EXTENDS Naturals, SequencesExt, FiniteSetsExt

CONSTANTS
  Names,    \* the names a program declares
  MaxDecls, \* bound: declarations in scope at a time
  MaxDepth  \* bound: constructs nested in each other

ASSUME BoundsAssumption == MaxDecls \in Nat /\ MaxDepth \in Nat

VARIABLES
  decls,        \* the declarations in scope, oldest first
  open,         \* the constructs the walk is in, innermost last
  const_scopes, \* Emitter::const_scopes
  state_scopes, \* Emitter::state_scopes, a state by its place in decls
  env,          \* Expander::env, values by their place in decls
  handles       \* the env each comptime function of decls was made with

vars == <<decls, open, const_scopes, state_scopes, env, handles>>

Kinds == {"local", "const", "state", "comptime", "comptime function"}

\* What a construct pushes on const_scopes, state_scopes and env.  A loop
\* pushes const_scopes for its variables and then a block; a function pushes
\* all for its parameters and then a block; a comprehension pushes nothing in
\* the emitter.  "test" and "result" are what is left of a repeat loop and of
\* a do expression when the walk is at the expression after their block.
Pushes(kind) ==
  CASE kind \in {"block", "repeat", "do"} -> <<1, 1, 1>>
    [] kind = "loop" -> <<2, 1, 1>>
    [] kind = "function" -> <<2, 2, 1>>
    [] kind \in {"comprehension", "result"} -> <<0, 0, 1>>
    [] kind = "test" -> <<0, 0, 0>>

Nothing == 0

\* A scope of CtEnv.  Declarations of the compile-time pass are all const.
CtScope ==
  [values : [Names -> 0..MaxDecls], functions : [Names -> 0..MaxDecls], runtime_names : SUBSET Names]

EmptyScope ==
  [values |-> [n \in Names |-> Nothing], functions |-> [n \in Names |-> Nothing], runtime_names |-> {}]

NoStates == [n \in Names |-> Nothing]

TypeOK ==
  /\ decls \in Seq([name : Names, kind : Kinds])
  /\ open \in Seq([kind : {"block", "loop", "function", "comprehension", "repeat", "do", "test", "result"},
                   base : 0..MaxDecls, after : SUBSET Names])
  /\ const_scopes \in Seq(SUBSET Names)
  /\ state_scopes \in Seq([Names -> 0..MaxDecls])
  /\ env \in Seq(CtScope)
  /\ handles \in Seq(Seq(CtScope))
  /\ Len(handles) = Len(decls)

\* emit_program opens the block of the program.
Init ==
  /\ decls = <<>>
  /\ open = <<>>
  /\ const_scopes = <<{}, {}>>
  /\ state_scopes = <<NoStates, NoStates>>
  /\ env = <<EmptyScope>>
  /\ handles = <<>>

-----------------------------------------------------------------------------
Drop(seq, count) == SubSeq(seq, 1, Len(seq) - count)

\* Mutant: the first scope is looked at first.
FirstWith(scopes, n) == Min({i \in 1..Len(scopes) : scopes[i][n] # Nothing})

\* The innermost of the scopes, which map names to declarations, that has n.
InnermostWith(scopes, n) == Max({i \in 1..Len(scopes) : scopes[i][n] # Nothing})

LookUp(scopes, n) ==
  IF \E i \in 1..Len(scopes) : scopes[i][n] # Nothing THEN scopes[InnermostWith(scopes, n)][n] ELSE Nothing

lookup_value(scopes, n) == LookUp([i \in 1..Len(scopes) |-> scopes[i].values], n)

lookup_function(scopes, n) == LookUp([i \in 1..Len(scopes) |-> scopes[i].functions], n)

\* Mutant: functions are looked up before values.
FunctionsFirst(scopes, n) ==
  IF lookup_function(scopes, n) # Nothing THEN lookup_function(scopes, n) ELSE lookup_value(scopes, n)

\* Whether the error for n says that it is a runtime local.
is_runtime_name(scopes, n) == \E i \in 1..Len(scopes) : n \in scopes[i].runtime_names

\* What a compile-time expression takes n for: a value of any scope before a
\* function of any scope.  Nothing is a compile error.
lookup_name(scopes, n) ==
  IF lookup_value(scopes, n) # Nothing THEN lookup_value(scopes, n) ELSE lookup_function(scopes, n)

\* Mutant: the body is evaluated in the scopes of the caller.
CallInCaller(d) == Append(env, [EmptyScope EXCEPT !.functions[decls[d].name] = d])

\* The scopes in which a call evaluates the body of the comptime function d.
call_function(d) ==
  Append(handles[d], [EmptyScope EXCEPT !.functions[decls[d].name] = d])

\* Mutant: only the innermost scope is looked at.
CheckInnermost(n) == n \in Last(const_scopes)

\* Is an assignment to n refused?
check_const_target(n) == \E i \in 1..Len(const_scopes) : n \in const_scopes[i]

\* The state whose watchers an assignment to n notifies.
lookup_state_binding(n) == LookUp(state_scopes, n)

-----------------------------------------------------------------------------
\* Between statements: not in an expression that has a scope.
AtStatement == open # <<>> => Last(open).kind \notin {"comprehension", "test", "result"}

\* The walk enters a construct that declares the locals `outer` in the scope
\* around it and `inner` in its own, where the expander declares `known`.  It
\* declares `outer` itself when it has left the construct.
Enter(kind, outer, inner, known) ==
  LET Local(names) == [i \in 1..Len(names) |-> [name |-> names[i], kind |-> "local"]] IN
  /\ Len(open) < MaxDepth
  /\ Len(decls) + Len(outer) + Len(inner) <= MaxDecls
  /\ decls' = decls \o Local(outer) \o Local(inner)
  /\ handles' = handles \o [i \in 1..(Len(outer) + Len(inner)) |-> <<>>]
  /\ open' = Append(open, [kind |-> kind, base |-> Len(decls) + Len(outer), after |-> ToSet(outer)])
  /\ const_scopes' = const_scopes \o [i \in 1..Pushes(kind)[1] |-> {}]
  /\ state_scopes' = state_scopes \o [i \in 1..Pushes(kind)[2] |-> NoStates]
  /\ env' = Append(env, [EmptyScope EXCEPT !.runtime_names = known])

\* do, while, and the branches of if and switch.  The branch that a comptime
\* if or switch selects is no construct: it is part of the block around it.
EnterBlock == AtStatement /\ Enter("block", <<>>, <<>>, {})

\* Mutant: the expander does not learn of the variables of a loop.
EnterLoopUnknown(n) == AtStatement /\ Enter("loop", <<>>, <<n>>, {})

EnterLoop(n) == AtStatement /\ Enter("loop", <<>>, <<n>>, {n})

\* What the expander declares in the scope of a function, and of a method of
\* an object: it meets the object after its methods.
FunctionKnows(f, n) == {f, n}
MethodKnows(n) == {n}

\* local function f(n)
EnterFunction(f, n) == AtStatement /\ Enter("function", <<f>>, <<n>>, FunctionKnows(f, n))

\* task function f(n)
EnterTaskFunction(f, n) == AtStatement /\ Enter("function", <<f>>, <<n>>, FunctionKnows(f, n))

\* A method of the object o, with the parameter n.
EnterMethod(o, n) == AtStatement /\ Enter("function", <<o>>, <<n>>, MethodKnows(n))

\* The method `new` of an object; the arguments of super.new are outside.
EnterConstructor(o, n) == AtStatement /\ Enter("function", <<o>>, <<n>>, MethodKnows(n))

EnterFunctionExpr(n) == Enter("function", <<>>, <<n>>, {n})

\* The handlers of signals, and of the end of a spawned task.
EnterHandler(n) == Enter("function", <<>>, <<n>>, {n})
EnterSpawnHandler(n) == AtStatement /\ Enter("function", <<>>, <<n>>, {n})

\* watch s: refused unless s is found among the states.
EnterWatch(s, n) == AtStatement /\ lookup_state_binding(s) # Nothing /\ EnterHandler(n)

\* A case of match, whose pattern binds n.
EnterMatch(n) == AtStatement /\ Enter("block", <<>>, <<n>>, {n})

EnterComprehension(n) == Enter("comprehension", <<>>, <<n>>, {n})

EnterRepeat == AtStatement /\ Enter("repeat", <<>>, <<>>, {})

EnterDo == Enter("do", <<>>, <<>>, {})

\* The end of the block of a repeat loop: both passes leave its scope.
ReachTest ==
  /\ open # <<>> /\ Last(open).kind = "repeat"
  /\ open' = [open EXCEPT ![Len(open)].kind = "test"]
  /\ const_scopes' = Front(const_scopes)
  /\ state_scopes' = Front(state_scopes)
  /\ env' = Front(env)
  /\ UNCHANGED <<decls, handles>>

\* The end of the block of a do expression: the emitter leaves its scope.
ReachResult ==
  /\ open # <<>> /\ Last(open).kind = "do"
  /\ open' = [open EXCEPT ![Len(open)].kind = "result"]
  /\ const_scopes' = Front(const_scopes)
  /\ state_scopes' = Front(state_scopes)
  /\ UNCHANGED <<decls, env, handles>>

\* The end of a construct.
Leave ==
  /\ open # <<>> /\ Last(open).kind \notin {"repeat", "do"}
  /\ open' = Front(open)
  /\ decls' = SubSeq(decls, 1, Last(open).base)
  /\ handles' = SubSeq(handles, 1, Last(open).base)
  /\ const_scopes' = Drop(const_scopes, Pushes(Last(open).kind)[1])
  /\ state_scopes' = Drop(state_scopes, Pushes(Last(open).kind)[2])
  /\ LET left == Drop(env, Pushes(Last(open).kind)[3])
     IN  env' = [left EXCEPT ![Len(left)].runtime_names = @ \cup Last(open).after]

-----------------------------------------------------------------------------
\* A declaration comes into scope; a comptime function keeps the env.
Add(n, kind) ==
  /\ AtStatement
  /\ Len(decls) < MaxDecls
  /\ decls' = Append(decls, [name |-> n, kind |-> kind])
  /\ handles' = Append(handles, IF kind = "comptime function" THEN env ELSE <<>>)
  /\ UNCHANGED open

DefineRuntime(n) == env' = [env EXCEPT ![Len(env)].runtime_names = @ \cup {n}]

\* local; also objects, enums and signals.  Emitter::declare_name does
\* nothing for them.
DeclareLocal(n) ==
  /\ Add(n, "local")
  /\ DefineRuntime(n)
  /\ UNCHANGED <<const_scopes, state_scopes>>

DeclareConst(n) ==
  /\ Add(n, "const")
  /\ DefineRuntime(n)
  /\ const_scopes' = [const_scopes EXCEPT ![Len(const_scopes)] = @ \cup {n}]
  /\ UNCHANGED state_scopes

DeclareState(n) ==
  /\ Add(n, "state")
  /\ DefineRuntime(n)
  /\ state_scopes' = [state_scopes EXCEPT ![Len(state_scopes)][n] = Len(decls) + 1]
  /\ UNCHANGED const_scopes

\* A name of the pattern of a compile-time declaration gets its value.
bind_comptime_pattern(n, d) == env' = [env EXCEPT ![Len(env)].values[n] = d]

\* comptime const: the expander leaves nothing of it for the emitter.
DeclareComptime(n) ==
  /\ Add(n, "comptime")
  /\ bind_comptime_pattern(n, Len(decls) + 1)
  /\ UNCHANGED <<const_scopes, state_scopes>>

DeclareComptimeFunction(n) ==
  /\ Add(n, "comptime function")
  /\ env' = [env EXCEPT ![Len(env)].functions[n] = Len(decls) + 1]
  /\ UNCHANGED <<const_scopes, state_scopes>>

Next ==
  \/ EnterBlock \/ EnterRepeat \/ EnterDo \/ ReachTest \/ ReachResult \/ Leave
  \/ \E n \in Names :
       \/ EnterLoop(n) \/ EnterMatch(n) \/ EnterComprehension(n)
       \/ EnterFunctionExpr(n) \/ EnterHandler(n) \/ EnterSpawnHandler(n)
       \/ \E m \in Names :
            \/ EnterFunction(m, n) \/ EnterTaskFunction(m, n)
            \/ EnterMethod(m, n) \/ EnterConstructor(m, n) \/ EnterWatch(m, n)
       \/ DeclareLocal(n) \/ DeclareConst(n) \/ DeclareState(n)
       \/ DeclareComptime(n) \/ DeclareComptimeFunction(n)

Spec == Init /\ [][Next]_vars

-----------------------------------------------------------------------------
\* The declaration n means by Luau's rules.
Visible(n) ==
  IF \E d \in 1..Len(decls) : decls[d].name = n THEN Max({d \in 1..Len(decls) : decls[d].name = n}) ELSE Nothing

IsKind(d, kind) == d # Nothing /\ decls[d].kind = kind

\* d is declared in a block whose end the walk has reached, but not left.
EndReached(d, kinds) ==
  \E i \in 1..Len(open) :
    /\ open[i].kind \in kinds
    /\ open[i].base < d
    /\ i < Len(open) => d <= open[i + 1].base

\* The compile-time declaration of n among `ds` that is nearest.
Nearest(ds, n) ==
  LET Of(kind) == {d \in ds : decls[d].name = n /\ decls[d].kind = kind} IN
  IF Of("comptime") # {} THEN Max(Of("comptime"))
  ELSE IF Of("comptime function") # {} THEN Max(Of("comptime function")) ELSE Nothing

(* An assignment to a name that means a const is refused, however many      *)
(* scopes lie between, and none is refused unless a const of that name is   *)
(* in scope: no const outlives its scope.  The one gap is the expression    *)
(* after a block, which sees the consts of the block when the emitter has   *)
(* left them already.                                                       *)
ConstsAreRefused ==
  \A n \in Names :
    /\ IsKind(Visible(n), "const") =>
         check_const_target(n) \/ EndReached(Visible(n), {"test", "result"})
    /\ check_const_target(n) =>
         \E d \in 1..Len(decls) : decls[d] = [name |-> n, kind |-> "const"]

(* An assignment to a state notifies the watchers of that state and of no   *)
(* other of its name, and what is notified is always a state in scope.      *)
StatesAreFound ==
  \A n \in Names :
    /\ IsKind(Visible(n), "state") =>
         lookup_state_binding(n) = Visible(n) \/ EndReached(Visible(n), {"test", "result"})
    /\ lookup_state_binding(n) # Nothing =>
         /\ lookup_state_binding(n) <= Len(decls)
         /\ decls[lookup_state_binding(n)] = [name |-> n, kind |-> "state"]

(* A name of a compile-time expression is the nearest compile-time          *)
(* declaration in scope, functions after values: none that is out of scope, *)
(* or inner to another one, whatever runtime declarations lie between.      *)
ComptimeIsNearest ==
  \A n \in Names :
    lookup_name(env, n) = Nearest({d \in 1..Len(decls) : ~EndReached(d, {"test"})}, n)

(* A comptime function that is called sees the names as they were where it  *)
(* was declared, and itself, whatever is declared after it.                 *)
CallsSeeDefinition ==
  \A d \in 1..Len(decls) : decls[d].kind = "comptime function" /\ lookup_name(env, decls[d].name) = d =>
    \A n \in Names :
      lookup_name(call_function(d), n) = Nearest({e \in 1..d : ~EndReached(e, {"test"})}, n)

(* The error for a compile-time expression that names a runtime local says  *)
(* so, and says it of no name that has gone out of scope.  The expander     *)
(* does not know the locals of a repeat loop in its test, nor an object in  *)
(* its own methods.                                                         *)
RuntimeLocalsAreKnown ==
  \A n \in Names :
    LET Runtime(d) == decls[d].name = n /\ decls[d].kind \in {"local", "const", "state"}
        Known(d) == ~EndReached(d, {"test"}) /\ ~\E i \in 1..Len(open) : open[i].base = d /\ n \in open[i].after
    IN  /\ is_runtime_name(env, n) => \E d \in 1..Len(decls) : Runtime(d)
        /\ (\E d \in 1..Len(decls) : Runtime(d) /\ Known(d)) => is_runtime_name(env, n)

=============================================================================
