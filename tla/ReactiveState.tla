--------------------------- MODULE ReactiveState ---------------------------
(* The Luau code XLuau emits for `state`, `watch` and the three assignment  *)
(* forms on a state (src/emitter.rs).  A state is a local and a table of    *)
(* watcher closures; an assignment becomes                                  *)
(*                                                                          *)
(*     do local old = x; x = <value>                                        *)
(*        if x ~= old then for _, _w in watchers do _w(old, x) end end end  *)
(*                                                                          *)
(* The right-hand side and the watcher bodies are user code: they may       *)
(* assign states, register watchers, raise an error, or yield to another    *)
(* coroutine.  The emitted code around them contains no yield, so a step of *)
(* this module runs one coroutine from one point of its user code to the    *)
(* next.  A watcher is represented by the last value it was told: entry n   *)
(* of watchers[x] stands for the n-th closure of x's table.                 *)
EXTENDS Naturals, Sequences

CONSTANTS
  States,       \* the state variables
  Values,       \* the values they hold
  Nil,          \* Luau's nil
  Threads,      \* the coroutines
  TargetLists,  \* the left-hand sides of the program's assignments
  MaxDepth,     \* bound: assignments nested in one coroutine
  MaxWatchers,  \* bound: watchers registered on one state
  RhsRunsCode   \* may a right-hand side call or yield to code that assigns?

ASSUME StatesAssumption ==
  /\ Nil \in Values
  /\ TargetLists \subseteq Seq(States)
  /\ \A x \in States : <<x>> \in TargetLists
  /\ \A targets \in TargetLists : \A i, j \in 1..Len(targets) :
       targets[i] = targets[j] => i = j
  /\ MaxDepth \in Nat
  /\ MaxWatchers \in Nat
  /\ RhsRunsCode \in BOOLEAN

VARIABLES
  val,       \* the local that holds each state
  watchers,  \* each state's watcher table: what each watcher was last told
  stack,     \* each coroutine's assignments in progress, innermost last
  outdated,  \* history: states written over a change the saved old value hides
  unwound    \* history: states whose notification an error cut short

vars == <<val, watchers, stack, outdated, unwound>>

(* An assignment in progress.  k = 0: the old values are saved and the      *)
(* right-hand sides are being evaluated.  k > 0: the values are written and *)
(* watcher i of target k is running.                                        *)
Frame == [targets : TargetLists, old : Seq(Values), k : Nat, i : Nat]

TypeOK ==
  /\ val \in [States -> Values]
  /\ watchers \in [States -> Seq(Values)]
  /\ stack \in [Threads -> Seq(Frame)]
  /\ outdated \subseteq States
  /\ unwound \subseteq States

Init ==
  /\ val \in [States -> Values]
  /\ watchers = [x \in States |-> <<>>]
  /\ stack = [t \in Threads |-> <<>>]
  /\ outdated = {}
  /\ unwound = {}

-----------------------------------------------------------------------------
Top(t) == stack[t][Len(stack[t])]
Below(t) == SubSeq(stack[t], 1, Len(stack[t]) - 1)

Evaluating(f) == f.k = 0

\* User code runs unless some right-hand side that runs none is being evaluated.
UserCode ==
  RhsRunsCode \/ \A t \in Threads : \A d \in 1..Len(stack[t]) : ~Evaluating(stack[t][d])

\* Mutant: the watcher is passed the old value for the new one.
CallsWithOld(t, f, k, i, v) ==
  /\ stack' = [stack EXCEPT ![t] = Append(Below(t), [f EXCEPT !.k = k, !.i = i])]
  /\ watchers' = [watchers EXCEPT ![f.targets[k]] = [@ EXCEPT ![i] = f.old[k]]]

\* Calls watcher i of target k with the state's current value.
Calls(t, f, k, i, v) ==
  /\ stack' = [stack EXCEPT ![t] = Append(Below(t), [f EXCEPT !.k = k, !.i = i])]
  /\ watchers' = [watchers EXCEPT ![f.targets[k]] = [@ EXCEPT ![i] = v[f.targets[k]]]]

\* Mutant: a change to nil is not a change.
DueUnlessNil(f, j, v) ==
  /\ v[f.targets[j]] # f.old[j]
  /\ v[f.targets[j]] # Nil
  /\ watchers[f.targets[j]] # <<>>

\* `if x ~= old then for ...`: target j has a change to tell and a watcher to tell it to.
Due(f, j, v) == v[f.targets[j]] # f.old[j] /\ watchers[f.targets[j]] # <<>>

\* The emitted code after target f.k is dealt with: the next target with
\* watchers to call, or the end of the block.
NotifyRest(t, f, v) ==
  \/ \E j \in (f.k + 1)..Len(f.targets) :
       /\ Due(f, j, v)
       /\ \A m \in (f.k + 1)..(j - 1) : ~Due(f, m, v)
       /\ Calls(t, f, j, 1, v)
  \/ /\ \A j \in (f.k + 1)..Len(f.targets) : ~Due(f, j, v)
     /\ stack' = [stack EXCEPT ![t] = Below(t)]
     /\ UNCHANGED watchers

\* `local old = x` for every target, before the right-hand sides run.
SaveOld(t, targets) ==
  /\ Len(stack[t]) < MaxDepth
  /\ stack' = [stack EXCEPT ![t] =
       Append(@, [targets |-> targets,
                  old |-> [j \in 1..Len(targets) |-> val[targets[j]]],
                  k |-> 0, i |-> 0])]
  /\ UNCHANGED <<val, watchers, outdated, unwound>>

-----------------------------------------------------------------------------
\* x, y = ..., ...
Assign(t, targets) == UserCode /\ SaveOld(t, targets)

\* x += ...: the operator may raise an error (Fail) before x is written.
CompoundAssign(t, x) == UserCode /\ SaveOld(t, <<x>>)

\* x ??= ...: nothing happens unless x is nil.
NullishAssign(t, x) == UserCode /\ val[x] = Nil /\ SaveOld(t, <<x>>)

\* The right-hand sides have their values: write them and start notifying.
Commit(t) ==
  /\ stack[t] # <<>>
  /\ Evaluating(Top(t))
  /\ LET f == Top(t) IN
     \E new \in [1..Len(f.targets) -> Values] :
       /\ val' = [x \in States |->
            IF \E j \in 1..Len(f.targets) : f.targets[j] = x
            THEN new[CHOOSE j \in 1..Len(f.targets) : f.targets[j] = x]
            ELSE val[x]]
       /\ NotifyRest(t, f, val')
       /\ outdated' = outdated \cup
            {f.targets[j] : j \in {m \in 1..Len(f.targets) : val[f.targets[m]] # f.old[m]}}
  /\ UNCHANGED unwound

\* Mutant: the loop over the table runs its first watcher only.
ReturnsToEnd(t) ==
  /\ UserCode
  /\ stack[t] # <<>>
  /\ ~Evaluating(Top(t))
  /\ NotifyRest(t, Top(t), val)
  /\ UNCHANGED <<val, outdated, unwound>>

\* A watcher's body returns to the loop that called it.
WatcherReturns(t) ==
  /\ UserCode
  /\ stack[t] # <<>>
  /\ ~Evaluating(Top(t))
  /\ LET f == Top(t) IN
     \/ /\ f.i < Len(watchers[f.targets[f.k]])
        /\ Calls(t, f, f.k, f.i + 1, val)
     \/ /\ f.i = Len(watchers[f.targets[f.k]])
        /\ NotifyRest(t, f, val)
  /\ UNCHANGED <<val, outdated, unwound>>

\* watch x |old, new| ... end: the closure joins the end of the table.
Watch(x) ==
  /\ UserCode
  /\ Len(watchers[x]) < MaxWatchers
  /\ watchers' = [watchers EXCEPT ![x] = Append(@, val[x])]
  /\ UNCHANGED <<val, stack, outdated, unwound>>

\* The code t runs raises an error, caught around assignment d + 1 of its
\* stack or, for d = 0, by nobody.
Fail(t, d) ==
  /\ d < Len(stack[t])
  /\ UserCode \/ Evaluating(Top(t))
  /\ stack' = [stack EXCEPT ![t] = SubSeq(@, 1, d)]
  /\ unwound' = unwound \cup
       {x \in States : \E e \in (d + 1)..Len(stack[t]) :
          /\ stack[t][e].k > 0
          /\ \E j \in (stack[t][e].k)..Len(stack[t][e].targets) : stack[t][e].targets[j] = x}
  /\ UNCHANGED <<val, watchers, outdated>>

Next ==
  \/ \E t \in Threads :
       \/ \E targets \in TargetLists : Assign(t, targets)
       \/ \E x \in States : CompoundAssign(t, x)
       \/ \E x \in States : NullishAssign(t, x)
       \/ Commit(t)
       \/ WatcherReturns(t)
       \/ \E d \in 0..(MaxDepth - 1) : Fail(t, d)
  \/ \E x \in States : Watch(x)

Spec == Init /\ [][Next]_vars

-----------------------------------------------------------------------------
\* f has written x and has not finished telling x's watchers.
Owes(f, x) == f.k > 0 /\ \E j \in (f.k)..Len(f.targets) : f.targets[j] = x

\* f is going to tell watcher n of x: its loop over x's table has not reached
\* n, or it has not reached x and will find the value changed.
WillTell(f, x, n) ==
  /\ f.k > 0
  /\ \/ f.targets[f.k] = x /\ f.i < n
     \/ \E j \in (f.k + 1)..Len(f.targets) : f.targets[j] = x /\ val[x] # f.old[j]

(* Whatever the nesting and the interleaving, a watcher that does not know  *)
(* the current value is about to be told by an assignment in progress       *)
(* (render_state_notification_block), except where a right-hand side        *)
(* changed the state after the old value was saved or an error unwound the  *)
(* loop.                                                                    *)
ToldOrDue ==
  \A x \in States \ (outdated \cup unwound) : \A n \in 1..Len(watchers[x]) :
    \/ watchers[x][n] = val[x]
    \/ \E t \in Threads : \E d \in 1..Len(stack[t]) : WillTell(stack[t][d], x, n)

\* No assignment in progress still has to tell x's watchers.
Settled(x) == \A t \in Threads : \A d \in 1..Len(stack[t]) : ~Owes(stack[t][d], x)

(* "assignments on state locals notify watchers when the value changes":    *)
(* once the notifications of x are over, every watcher of x knows its       *)
(* current value, whatever the watchers assigned on the way.                *)
WatchersCaughtUp ==
  \A x \in States \ (outdated \cup unwound) :
    Settled(x) => \A n \in 1..Len(watchers[x]) : watchers[x][n] = val[x]

(* The documented promise with no exception for right-hand sides that run   *)
(* code: docs/guides/signals-and-state.md:138.                              *)
ChangesAreNotified ==
  \A x \in States \ unwound :
    Settled(x) => \A n \in 1..Len(watchers[x]) : watchers[x][n] = val[x]

(* When right-hand sides run no code of their own, the saved old value is   *)
(* the value the assignment overwrites.                                     *)
SavedOldIsCurrent ==
  ~RhsRunsCode => \A t \in Threads : \A d \in 1..Len(stack[t]) :
    Evaluating(stack[t][d]) =>
      \A j \in 1..Len(stack[t][d].targets) :
        stack[t][d].old[j] = val[stack[t][d].targets[j]]

=============================================================================
