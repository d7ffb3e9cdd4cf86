------------------------------- MODULE Signal -------------------------------
(* The Luau code XLuau emits for `signal`, `on`, `once` and `fire`          *)
(* (src/emitter.rs, emit_signal_decl).  A signal is a table with an array   *)
(* of handler closures:                                                     *)
(*   connect(fn)   appends fn and returns { disconnect };                   *)
(*   disconnect()  removes the first entry equal to fn, if there is one;    *)
(*   once(fn)      connects a closure that disconnects itself and calls fn; *)
(*   fire(...)     calls the entries of the live array one index after the  *)
(*                 other.                                                   *)
(* Handlers are user code: they may connect, disconnect, fire again, raise  *)
(* an error, or yield in the middle of a fire.  The emitted code between    *)
(* two pieces of user code contains no yield, so it is one step here.       *)
(* An entry of the array is represented by the connection that added it.    *)
EXTENDS Naturals, SequencesExt

CONSTANTS
  Conns,      \* the connections a program makes, each at most once
  OnceConns,  \* those made with `once`
  Closure,    \* the closure each connection adds to the array
  Threads,    \* the coroutines
  MaxDepth    \* bound: fires nested in one coroutine

(* `once` makes a new closure each time.  `on` may add one closure twice:   *)
(* Luau reuses a function value whose upvalues are the same, and connect    *)
(* can be called with any function.                                         *)
ASSUME ConnsAssumption ==
  /\ OnceConns \subseteq Conns
  /\ \A c \in OnceConns : \A d \in Conns : Closure[c] = Closure[d] => c = d
  /\ MaxDepth \in Nat

VARIABLES
  handlers,  \* self._handlers
  status,    \* history: each connection is "new", "open" or "closed"
  runs,      \* history: how often the body of a `once` handler ran
  stack      \* each coroutine's fires in progress, innermost last

vars == <<handlers, status, runs, stack>>

(* A fire in progress runs the handler it found at index i.  History: the   *)
(* connections of the array when it started, those it called, and how many  *)
(* entries were removed at or before its index since it started.            *)
Frame == [i : Nat, start : SUBSET Conns, called : SUBSET Conns, cuts : Nat]

TypeOK ==
  /\ handlers \in Seq(Conns)
  /\ status \in [Conns -> {"new", "open", "closed"}]
  /\ runs \in [OnceConns -> Nat]
  /\ stack \in [Threads -> Seq(Frame)]

Init ==
  /\ handlers = <<>>
  /\ status = [c \in Conns |-> "new"]
  /\ runs = [c \in OnceConns |-> 0]
  /\ stack = [t \in Threads |-> <<>>]

-----------------------------------------------------------------------------
Top(t) == stack[t][Len(stack[t])]
Below(t) == SubSeq(stack[t], 1, Len(stack[t]) - 1)

\* Mutant: only an entry after the first is found.
FoundAfterFirst(c, n) ==
  /\ n \in 2..Len(handlers)
  /\ Closure[handlers[n]] = Closure[c]

\* table.find(self._handlers, fn): the first equal entry.
Found(c, n) ==
  /\ n \in 1..Len(handlers)
  /\ Closure[handlers[n]] = Closure[c]
  /\ \A m \in 1..(n - 1) : Closure[handlers[m]] # Closure[c]

\* What the removal of entry n means to a fire in progress.
Shift(f, n) == IF n <= f.i THEN [f EXCEPT !.cuts = @ + 1] ELSE f

\* disconnect() of connection c, when the fires in progress are st.
Disconnects(c, st) ==
  /\ \/ \E n \in 1..Len(handlers) :
          /\ Found(c, n)
          /\ handlers' = RemoveAt(handlers, n)
          /\ stack' = [t \in Threads |-> [d \in 1..Len(st[t]) |-> Shift(st[t][d], n)]]
     \/ /\ \A n \in 1..Len(handlers) : ~Found(c, n)
        /\ stack' = st
        /\ UNCHANGED handlers
  /\ status' = [status EXCEPT ![c] = "closed"]

\* Mutant: the closure of a `once` connection does not disconnect itself.
CallsKeepingOnce(t, below, f) ==
  LET c == handlers[f.i + 1]
      g == [f EXCEPT !.i = @ + 1, !.called = @ \cup {c}]
  IN
  /\ stack' = [stack EXCEPT ![t] = Append(below, g)]
  /\ runs' = [x \in OnceConns |-> IF x = c THEN runs[x] + 1 ELSE runs[x]]
  /\ UNCHANGED <<handlers, status>>

\* The loop of a fire calls the entry after index f.i.  The closure of a
\* `once` connection first disconnects itself.
Calls(t, below, f) ==
  LET c == handlers[f.i + 1]
      g == [f EXCEPT !.i = @ + 1, !.called = @ \cup {c}]
      st == [stack EXCEPT ![t] = Append(below, g)]
  IN
  \/ /\ c \in OnceConns
     /\ runs' = [runs EXCEPT ![c] = @ + 1]
     /\ Disconnects(c, st)
  \/ /\ c \notin OnceConns
     /\ stack' = st
     /\ UNCHANGED <<handlers, status, runs>>

-----------------------------------------------------------------------------
\* Mutant: a connection goes to the front of the array.
ConnectFirst(c) ==
  /\ status[c] = "new"
  /\ handlers' = <<c>> \o handlers
  /\ status' = [status EXCEPT ![c] = "open"]
  /\ UNCHANGED <<runs, stack>>

\* on Name |...| ... end, once Name |...| ... end
Connect(c) ==
  /\ status[c] = "new"
  /\ handlers' = Append(handlers, c)
  /\ status' = [status EXCEPT ![c] = "open"]
  /\ UNCHANGED <<runs, stack>>

\* conn:disconnect(), which nothing keeps from being called again.
Disconnect(c) ==
  /\ status[c] # "new"
  /\ Disconnects(c, stack)
  /\ UNCHANGED runs

\* fire Name(...): nothing happens when the array is empty.
Fire(t) ==
  /\ Len(stack[t]) < MaxDepth
  /\ handlers # <<>>
  /\ Calls(t, stack[t], [i |-> 0, start |-> ToSet(handlers), called |-> {}, cuts |-> 0])

\* Mutant: the loop advances its index twice.
ReturnsSkipping(t) ==
  /\ stack[t] # <<>>
  /\ \/ Top(t).i + 1 < Len(handlers) /\ Calls(t, Below(t), [Top(t) EXCEPT !.i = @ + 1])
     \/ /\ Top(t).i + 1 >= Len(handlers)
        /\ stack' = [stack EXCEPT ![t] = Below(t)]
        /\ UNCHANGED <<handlers, status, runs>>

\* A handler returns to the loop of its fire, which goes on to the next index
\* of the array as it is now.
HandlerReturns(t) ==
  /\ stack[t] # <<>>
  /\ \/ Top(t).i < Len(handlers) /\ Calls(t, Below(t), Top(t))
     \/ /\ Top(t).i >= Len(handlers)
        /\ stack' = [stack EXCEPT ![t] = Below(t)]
        /\ UNCHANGED <<handlers, status, runs>>

\* A handler raises an error, caught around fire d + 1 of its coroutine or,
\* for d = 0, by nobody: the fires above end where they are.
Fail(t, d) ==
  /\ d < Len(stack[t])
  /\ stack' = [stack EXCEPT ![t] = SubSeq(@, 1, d)]
  /\ UNCHANGED <<handlers, status, runs>>

Next ==
  \/ \E c \in Conns : Connect(c)
  \/ \E c \in Conns : Disconnect(c)
  \/ \E t \in Threads :
       \/ Fire(t)
       \/ HandlerReturns(t)
       \/ \E d \in 0..(MaxDepth - 1) : Fail(t, d)

Spec == Init /\ [][Next]_vars

-----------------------------------------------------------------------------
\* No other connection has c's closure.
Own(c) == \A d \in Conns : Closure[d] = Closure[c] => d = c

(* "auto-disconnect after the first fire": the body of a `once` handler     *)
(* runs at most once, also when fires are nested in each other or their     *)
(* coroutines interleave, and when the body raises an error.                *)
OnceAtMostOnce == \A c \in OnceConns : runs[c] <= 1

(* A connection whose closure is its own is in the array exactly as long as *)
(* it has not been disconnected: a disconnect of another connection, or a   *)
(* second one, never takes its entry, and it gets no call afterwards.       *)
OwnClosureStaysConnected ==
  \A c \in Conns : Own(c) => (c \in ToSet(handlers) <=> status[c] = "open")

(* One fire calls a connection at most once: what is ahead of its index has *)
(* not been called, however the array moved under it.                       *)
NoneCalledTwice ==
  \A t \in Threads : \A d \in 1..Len(stack[t]) :
    \A n \in 1..Len(handlers) : n > stack[t][d].i => handlers[n] \notin stack[t][d].called

\* The connections fire f found at its start that are behind its index now and
\* that it has not called.
PassedOver(f) ==
  {c \in f.start \ f.called : \E n \in 1..Len(handlers) : n <= f.i /\ handlers[n] = c}

(* A fire passes over at most one connection for each entry removed behind  *)
(* its index while it runs; if none is, it calls every handler it found.    *)
(* An entry removed there, even by a once handler of its own, may cost the  *)
(* next handler its call.                                                   *)
FireMissesAtMostCuts ==
  \A t \in Threads : \A d \in 1..Len(stack[t]) :
    Cardinality(PassedOver(stack[t][d])) <= stack[t][d].cuts

=============================================================================
