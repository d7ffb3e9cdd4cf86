---------------------------- MODULE SignalProofs ----------------------------
(* What the emitted signal code guarantees for any number of connections,   *)
(* closures, coroutines and nested fires: a `once` body runs at most once,  *)
(* a connection whose closure is its own stays connected until it is        *)
(* disconnected and no longer, no fire calls a connection twice, and one    *)
(* passes over no more connections than entries are removed behind its      *)
(* index.                                                                   *)
EXTENDS Signal, SequenceTheorems, FiniteSetTheorems, TLAPS

\* Removing entry n of a sequence moves the entries after it one place left.
LEMMA RemoveAtProperties ==
  ASSUME NEW S, NEW s \in Seq(S), NEW n \in 1..Len(s),
         NEW q, q = RemoveAt(s, n)
  PROVE  /\ q \in Seq(S)
         /\ Len(q) = Len(s) - 1
         /\ \A m \in 1..Len(q) : q[m] = IF m < n THEN s[m] ELSE s[m + 1]
<1> DEFINE l == SubSeq(s, 1, n - 1)
           r == SubSeq(s, n + 1, Len(s))
<1>1. Len(s) \in Nat /\ n \in Nat
  OBVIOUS
<1>2. l \in Seq(S) /\ Len(l) = n - 1 /\ \A m \in 1..(n - 1) : l[m] = s[m]
  BY <1>1
<1>3. r \in Seq(S) /\ Len(r) = Len(s) - n /\ \A m \in 1..(Len(s) - n) : r[m] = s[n + m]
  BY <1>1
<1>4. q = l \o r
  BY DEF RemoveAt
<1> HIDE DEF l, r
<1>5. /\ q \in Seq(S)
      /\ Len(q) = Len(l) + Len(r)
      /\ \A m \in 1..(Len(l) + Len(r)) : q[m] = IF m <= Len(l) THEN l[m] ELSE r[m - Len(l)]
  <2>1. /\ l \o r \in Seq(S)
        /\ Len(l \o r) = Len(l) + Len(r)
        /\ \A m \in 1..(Len(l) + Len(r)) :
             (l \o r)[m] = IF m <= Len(l) THEN l[m] ELSE r[m - Len(l)]
    BY <1>2, <1>3, ConcatProperties
  <2>2. QED
    BY <1>4, <2>1
<1>6. Len(q) = Len(s) - 1
  BY <1>1, <1>2, <1>3, <1>5
<1>7. ASSUME NEW m \in 1..Len(q)
      PROVE  q[m] = IF m < n THEN s[m] ELSE s[m + 1]
  <2>1. CASE m < n
    BY <1>1, <1>2, <1>5, <1>6, <2>1
  <2>2. CASE m >= n
    <3>1. q[m] = r[m - Len(l)]
      BY <1>1, <1>2, <1>3, <1>5, <2>2
    <3> DEFINE k == m - Len(l)
    <3>2. k \in 1..(Len(s) - n) /\ n + k = m + 1
      BY <1>1, <1>2, <1>6, <2>2
    <3>3. r[k] = s[n + k]
      <4> HIDE DEF k
      <4> QED
        BY <1>3, <3>2
    <3>4. QED
      BY <1>1, <2>2, <3>1, <3>2, <3>3
  <2>3. QED
    BY <1>1, <2>1, <2>2
<1>8. QED
  BY <1>5, <1>6, <1>7

\* Keeping a prefix of a sequence.
LEMMA KeepPrefix ==
  ASSUME NEW S, NEW s \in Seq(S), NEW m \in Nat, m <= Len(s),
         NEW q, q = SubSeq(s, 1, m)
  PROVE  /\ q \in Seq(S)
         /\ Len(q) = m
         /\ \A d \in 1..m : q[d] = s[d]
OBVIOUS

\* Connection c is in the array.
Connected(c) == \E n \in 1..Len(handlers) : handlers[n] = c

\* A connection is in the array once.
NoDuplicates == \A m, n \in 1..Len(handlers) : handlers[m] = handlers[n] => m = n

\* A connection that was not made yet is nowhere.
NewIsAbsent ==
  \A c \in Conns : status[c] = "new" =>
    /\ ~Connected(c)
    /\ \A t \in Threads : \A d \in 1..Len(stack[t]) : c \notin stack[t][d].called

OwnInv == \A c \in Conns : Own(c) => (Connected(c) <=> status[c] = "open")

\* A `once` body that ran is disconnected for good.
OnceInv == \A c \in OnceConns : runs[c] = 0 \/ (runs[c] = 1 /\ status[c] = "closed")

IInv == TypeOK /\ NoDuplicates /\ NewIsAbsent /\ OwnInv /\ OnceInv /\ NoneCalledTwice

\* The fires in progress st are well formed, know only connections that were
\* made, and have called nothing that is ahead of them.
Sound(st) ==
  /\ st \in [Threads -> Seq(Frame)]
  /\ \A t \in Threads : \A d \in 1..Len(st[t]) :
       /\ \A c \in st[t][d].called : status[c] # "new"
       /\ \A n \in 1..Len(handlers) : n > st[t][d].i => handlers[n] \notin st[t][d].called

LEMMA StackIsSound == ASSUME IInv PROVE Sound(stack)
<1>1. \A t \in Threads : \A d \in 1..Len(stack[t]) : stack[t][d] \in Frame
  BY DEF IInv, TypeOK
<1>2. \A t \in Threads : \A d \in 1..Len(stack[t]) : stack[t][d].called \subseteq Conns
  BY <1>1 DEF Frame
<1>3. QED
  BY <1>2 DEF IInv, TypeOK, NewIsAbsent, NoneCalledTwice, Sound

\* A connection made with `once` has a closure of its own.
LEMMA OnceIsOwn == \A c \in OnceConns : c \in Conns /\ Own(c)
BY ConnsAssumption DEF Own

\* What one disconnect does, from the fires in progress st.
LEMMA DisconnectsEffect ==
  ASSUME IInv, NEW c \in Conns, status[c] # "new",
         NEW st, Sound(st), Disconnects(c, st)
  PROVE  /\ handlers' \in Seq(Conns)
         /\ status' \in [Conns -> {"new", "open", "closed"}]
         /\ status'[c] = "closed"
         /\ NoDuplicates' /\ NewIsAbsent' /\ OwnInv' /\ NoneCalledTwice'
         /\ stack' \in [Threads -> Seq(Frame)]
<1>1. /\ status' = [status EXCEPT ![c] = "closed"]
      /\ status' \in [Conns -> {"new", "open", "closed"}]
      /\ status'[c] = "closed"
      /\ \A d \in Conns : d # c => status'[d] = status[d]
  BY DEF Disconnects, IInv, TypeOK
<1>2. CASE \E n \in 1..Len(handlers) :
             /\ Found(c, n)
             /\ handlers' = RemoveAt(handlers, n)
             /\ stack' = [t \in Threads |-> [d \in 1..Len(st[t]) |-> Shift(st[t][d], n)]]
  <2>0. PICK n \in 1..Len(handlers) :
             /\ Found(c, n)
             /\ handlers' = RemoveAt(handlers, n)
             /\ stack' = [t \in Threads |-> [d \in 1..Len(st[t]) |-> Shift(st[t][d], n)]]
    BY <1>2
  <2>1. handlers \in Seq(Conns) /\ Len(handlers) \in Nat /\ n \in Nat
    BY DEF IInv, TypeOK
  <2>2. /\ handlers' \in Seq(Conns)
        /\ Len(handlers') = Len(handlers) - 1
        /\ \A m \in 1..Len(handlers') :
             handlers'[m] = IF m < n THEN handlers[m] ELSE handlers[m + 1]
    BY <2>0, <2>1, RemoveAtProperties
  \* Where an entry of the new array was in the old one.
  <2> DEFINE was(m) == IF m < n THEN m ELSE m + 1
  <2>3. \A m \in 1..Len(handlers') :
          was(m) \in 1..Len(handlers) /\ was(m) # n /\ handlers'[m] = handlers[was(m)]
    BY <2>1, <2>2
  <2>4. \A m1, m2 \in 1..Len(handlers') : was(m1) = was(m2) => m1 = m2
    BY <2>1, <2>2
  <2>5. \A k \in 1..Len(handlers) : k # n => \E m \in 1..Len(handlers') : handlers'[m] = handlers[k]
    <3> TAKE k \in 1..Len(handlers)
    <3> HAVE k # n
    <3>1. CASE k < n
      <4>1. k \in 1..Len(handlers') /\ handlers'[k] = handlers[k]
        BY <2>1, <2>2, <3>1
      <4>2. QED
        BY <4>1
    <3>2. CASE k > n
      <4>1. k - 1 \in 1..Len(handlers') /\ handlers'[k - 1] = handlers[k]
        BY <2>1, <2>2, <3>2
      <4>2. QED
        BY <4>1
    <3>3. QED
      BY <2>1, <3>1, <3>2
  <2> HIDE DEF was
  <2>6. NoDuplicates'
    BY <2>3, <2>4 DEF NoDuplicates, IInv
  <2>7. \A d \in Conns : Connected(d)' => Connected(d)
    BY <2>3 DEF Connected
  <2>8. \A d \in Conns : Connected(d) /\ d # handlers[n] => Connected(d)'
    BY <2>5 DEF Connected
  <2>9. \A m \in 1..Len(handlers') : handlers'[m] # handlers[n]
    BY <2>3 DEF IInv, NoDuplicates
  <2>10. OwnInv'
    <3> SUFFICES ASSUME NEW d \in Conns, Own(d)
                 PROVE  Connected(d)' <=> status'[d] = "open"
      BY DEF OwnInv, Own
    <3>1. Closure[handlers[n]] = Closure[c] /\ handlers[n] \in Conns
      BY <2>0, <2>1 DEF Found
    <3>2. CASE d = c
      <4>1. handlers[n] = c
        BY <3>1, <3>2 DEF Own
      <4>2. ~Connected(c)'
        BY <2>9, <4>1 DEF Connected
      <4>3. QED
        BY <1>1, <3>2, <4>2
    <3>3. CASE d # c
      <4>1. handlers[n] # d
        BY <3>1, <3>3 DEF Own
      <4>2. QED
        BY <1>1, <2>7, <2>8, <3>3, <4>1 DEF IInv, OwnInv
    <3>4. QED
      BY <3>2, <3>3
  \* The frames keep their index and what they called.
  <2>11. \A t \in Threads : \A d \in 1..Len(st[t]) :
           /\ Shift(st[t][d], n) \in Frame
           /\ Shift(st[t][d], n).i = st[t][d].i
           /\ Shift(st[t][d], n).called = st[t][d].called
    <3> TAKE t \in Threads
    <3> TAKE d \in 1..Len(st[t])
    <3>1. st[t][d] \in Frame
      BY DEF Sound
    <3>2. QED
      BY <3>1 DEF Shift, Frame
  <2>12. \A t \in Threads :
           /\ stack'[t] \in Seq(Frame)
           /\ Len(stack'[t]) = Len(st[t])
           /\ \A d \in 1..Len(st[t]) : stack'[t][d] = Shift(st[t][d], n)
    <3> TAKE t \in Threads
    <3> DEFINE q == [d \in 1..Len(st[t]) |-> Shift(st[t][d], n)]
    <3>1. Len(st[t]) \in Nat
      BY DEF Sound
    <3>2. q \in Seq(Frame) /\ Len(q) = Len(st[t])
      BY <2>11, <3>1
    <3>3. stack'[t] = q
      BY <2>0
    <3>4. QED
      BY <3>2, <3>3
  <2>13. stack' \in [Threads -> Seq(Frame)]
    BY <2>0, <2>12
  <2>14. \A t \in Threads : \A k \in 1..Len(stack'[t]) :
           /\ k \in 1..Len(st[t])
           /\ st[t][k] \in Frame
           /\ stack'[t][k].i = st[t][k].i
           /\ stack'[t][k].called = st[t][k].called
    <3> TAKE t \in Threads
    <3> TAKE k \in 1..Len(stack'[t])
    <3>1. k \in 1..Len(st[t]) /\ stack'[t][k] = Shift(st[t][k], n)
      BY <2>12
    <3>2. st[t] \in Seq(Frame)
      BY DEF Sound
    <3>3. QED
      BY <2>11, <3>1, <3>2
  <2>15. NewIsAbsent'
    <3> SUFFICES ASSUME NEW d \in Conns, status'[d] = "new"
                 PROVE  /\ ~Connected(d)'
                        /\ \A t \in Threads : \A k \in 1..Len(stack'[t]) :
                             d \notin stack'[t][k].called
      BY DEF NewIsAbsent
    <3>1. status[d] = "new"
      BY <1>1
    <3>2. ~Connected(d)'
      BY <2>7, <3>1 DEF IInv, NewIsAbsent
    <3>3. QED
      BY <2>14, <3>1, <3>2 DEF Sound
  <2>16. NoneCalledTwice'
    <3> SUFFICES ASSUME NEW t \in Threads, NEW k \in 1..Len(stack'[t]),
                        NEW m \in 1..Len(handlers'), m > stack'[t][k].i
                 PROVE  handlers'[m] \notin stack'[t][k].called
      BY DEF NoneCalledTwice
    <3>1. /\ k \in 1..Len(st[t]) /\ st[t][k] \in Frame
          /\ stack'[t][k].i = st[t][k].i
          /\ stack'[t][k].called = st[t][k].called
      BY <2>14
    <3>2. was(m) > st[t][k].i
      BY <2>1, <2>2, <3>1 DEF was, Frame
    <3>3. QED
      BY <2>3, <3>1, <3>2 DEF Sound
  <2>17. QED
    BY <1>1, <2>2, <2>6, <2>10, <2>13, <2>15, <2>16
<1>3. CASE /\ \A n \in 1..Len(handlers) : ~Found(c, n)
           /\ stack' = st
           /\ UNCHANGED handlers
  <2>1. handlers \in Seq(Conns)
    BY DEF IInv, TypeOK
  <2>2. NoDuplicates' /\ NoneCalledTwice' /\ stack' \in [Threads -> Seq(Frame)]
    BY <1>3 DEF NoDuplicates, NoneCalledTwice, Sound, IInv
  <2>3. NewIsAbsent'
    BY <1>1, <1>3 DEF NewIsAbsent, Connected, Sound, IInv
  <2>4. Own(c) => ~Connected(c)
    <3> SUFFICES ASSUME Own(c), NEW n \in 1..Len(handlers), handlers[n] = c PROVE FALSE
      BY DEF Connected
    <3>1. \A m \in 1..(n - 1) : Closure[handlers[m]] # Closure[c]
      BY <2>1 DEF Own, IInv, NoDuplicates
    <3>2. QED
      BY <1>3, <3>1 DEF Found
  <2>5. OwnInv'
    BY <1>1, <1>3, <2>4 DEF OwnInv, Own, Connected, IInv
  <2>6. QED
    BY <1>1, <1>3, <2>1, <2>2, <2>3, <2>5
<1>4. QED
  BY <1>2, <1>3 DEF Disconnects

\* A call keeps the invariant: below is t's stack without the fire that calls.
LEMMA CallsInv ==
  ASSUME IInv, NEW t \in Threads, NEW below \in Seq(Frame), NEW f \in Frame,
         \A d \in 1..Len(below) : d \in 1..Len(stack[t]) /\ below[d] = stack[t][d],
         f.i < Len(handlers),
         \A x \in f.called : status[x] # "new",
         \A n \in 1..Len(handlers) : n > f.i => handlers[n] \notin f.called,
         Calls(t, below, f)
  PROVE  IInv'
<1> DEFINE c == handlers[f.i + 1]
           g == [f EXCEPT !.i = f.i + 1, !.called = f.called \cup {c}]
           st == [stack EXCEPT ![t] = Append(below, g)]
<1>1. /\ handlers \in Seq(Conns) /\ Len(handlers) \in Nat
      /\ f.i \in Nat /\ f.i + 1 \in 1..Len(handlers)
  BY DEF IInv, TypeOK, Frame
<1>2. c \in Conns /\ Connected(c) /\ status[c] # "new"
  BY <1>1 DEF Connected, IInv, NewIsAbsent
<1>3. g \in Frame /\ g.i = f.i + 1 /\ g.called = f.called \cup {c}
  <2>1. f.called \cup {c} \in SUBSET Conns /\ f.i + 1 \in Nat
    BY <1>1, <1>2 DEF Frame
  <2> HIDE DEF c
  <2>2. QED
    BY <2>1 DEF Frame
<1>4. /\ \A x \in g.called : status[x] # "new"
      /\ \A n \in 1..Len(handlers) : n > g.i => handlers[n] \notin g.called
  <2>1. \A x \in g.called : status[x] # "new"
    BY <1>2, <1>3
  <2>2. ASSUME NEW n \in 1..Len(handlers), n > g.i PROVE handlers[n] \notin g.called
    <3>1. n > f.i /\ n # f.i + 1
      BY <1>1, <1>3, <2>2
    <3>2. handlers[n] # c
      BY <1>1, <3>1 DEF IInv, NoDuplicates
    <3>3. QED
      BY <1>3, <3>1, <3>2
  <2>3. QED
    BY <2>1, <2>2
<1>5. Sound(st)
  <2>1. Sound(stack)
    BY StackIsSound
  <2>2. /\ Append(below, g) \in Seq(Frame)
        /\ Len(Append(below, g)) = Len(below) + 1
        /\ \A d \in 1..Len(below) : Append(below, g)[d] = below[d]
        /\ Append(below, g)[Len(below) + 1] = g
    <3> HIDE DEF g
    <3> QED
      BY <1>3, AppendProperties
  <2>3. st \in [Threads -> Seq(Frame)]
    BY <2>1, <2>2 DEF Sound
  <2>4. st[t] = Append(below, g) /\ \A u \in Threads : u # t => st[u] = stack[u]
    BY <2>1 DEF Sound
  <2> HIDE DEF st
  <2>5. ASSUME NEW u \in Threads, NEW d \in 1..Len(st[u])
        PROVE  /\ \A x \in st[u][d].called : status[x] # "new"
               /\ \A n \in 1..Len(handlers) : n > st[u][d].i => handlers[n] \notin st[u][d].called
    <3>1. CASE u # t
      BY <2>1, <2>4, <3>1 DEF Sound
    <3>2. CASE u = t /\ d = Len(below) + 1
      <4>1. st[u][d] = g
        BY <2>2, <2>4, <3>2
      <4>2. QED
        BY <1>4, <4>1
    <3>3. CASE u = t /\ d # Len(below) + 1
      <4>1. d \in 1..Len(below)
        BY <2>2, <2>4, <3>3
      <4>2. d \in 1..Len(stack[t]) /\ st[u][d] = stack[t][d]
        BY <2>2, <2>4, <3>3, <4>1
      <4>3. QED
        BY <2>1, <4>2 DEF Sound
    <3>4. QED
      BY <3>1, <3>2, <3>3
  <2>6. QED
    BY <2>3, <2>5 DEF Sound
<1>6. CASE c \in OnceConns /\ runs' = [runs EXCEPT ![c] = runs[c] + 1] /\ Disconnects(c, st)
  <2>1. /\ handlers' \in Seq(Conns)
        /\ status' \in [Conns -> {"new", "open", "closed"}]
        /\ status'[c] = "closed"
        /\ NoDuplicates' /\ NewIsAbsent' /\ OwnInv' /\ NoneCalledTwice'
        /\ stack' \in [Threads -> Seq(Frame)]
    <3> HIDE DEF c, st
    <3> QED
      BY <1>2, <1>5, <1>6, DisconnectsEffect
  <2>2. runs' \in [OnceConns -> Nat] /\ \A x \in OnceConns : runs'[x] = IF x = c THEN runs[x] + 1 ELSE runs[x]
    BY <1>6 DEF IInv, TypeOK
  <2>3. status[c] = "open" /\ runs[c] = 0
    BY <1>2, <1>6, OnceIsOwn DEF IInv, OwnInv, OnceInv
  <2>4. OnceInv'
    <3>1. \A x \in OnceConns : x # c => status'[x] = status[x]
      BY <1>6, OnceIsOwn DEF Disconnects, IInv, TypeOK
    <3> HIDE DEF c
    <3>2. ASSUME NEW x \in OnceConns
          PROVE  runs'[x] = 0 \/ (runs'[x] = 1 /\ status'[x] = "closed")
      <4>1. CASE x = c
        BY <2>1, <2>2, <2>3, <4>1
      <4>2. CASE x # c
        BY <2>2, <3>1, <4>2 DEF OnceInv, IInv
      <4>3. QED
        BY <4>1, <4>2
    <3>3. QED
      BY <3>2 DEF OnceInv
  <2>5. QED
    BY <2>1, <2>2, <2>4 DEF IInv, TypeOK
<1>7. CASE c \notin OnceConns /\ stack' = st /\ UNCHANGED <<handlers, status, runs>>
  <2>1. stack' \in [Threads -> Seq(Frame)] /\ NoneCalledTwice'
    BY <1>5, <1>7 DEF Sound, NoneCalledTwice
  <2>2. NewIsAbsent'
    <3> HIDE DEF st
    <3> SUFFICES ASSUME NEW x \in Conns, status[x] = "new"
                 PROVE  /\ ~Connected(x)
                        /\ \A u \in Threads : \A d \in 1..Len(st[u]) : x \notin st[u][d].called
      BY <1>7 DEF NewIsAbsent, Connected
    <3>1. ~Connected(x)
      BY DEF IInv, NewIsAbsent
    <3>2. QED
      BY <1>5, <3>1 DEF Sound
  <2>3. QED
    BY <1>7, <2>1, <2>2
       DEF IInv, TypeOK, NoDuplicates, OwnInv, Own, Connected, OnceInv
<1>8. QED
  BY <1>6, <1>7 DEF Calls

\* Dropping fires in progress keeps the invariant.
LEMMA DropInv ==
  ASSUME IInv, NEW t \in Threads, NEW m \in Nat, m <= Len(stack[t]),
         stack' = [stack EXCEPT ![t] = SubSeq(stack[t], 1, m)],
         UNCHANGED <<handlers, status, runs>>
  PROVE  IInv'
<1>1. stack[t] \in Seq(Frame) /\ Len(stack[t]) \in Nat
  BY DEF IInv, TypeOK
<1>2. stack'[t] = SubSeq(stack[t], 1, m) /\ \A u \in Threads : u # t => stack'[u] = stack[u]
  BY DEF IInv, TypeOK
<1>3. stack'[t] \in Seq(Frame) /\ Len(stack'[t]) = m /\ \A d \in 1..m : stack'[t][d] = stack[t][d]
  BY <1>1, <1>2, KeepPrefix
<1>4. \A u \in Threads : \A d \in 1..Len(stack'[u]) :
        d \in 1..Len(stack[u]) /\ stack'[u][d] = stack[u][d]
  BY <1>1, <1>2, <1>3
<1>5. TypeOK'
  BY <1>2, <1>3 DEF IInv, TypeOK
<1>6. NewIsAbsent'
  BY <1>4 DEF IInv, NewIsAbsent, Connected
<1>7. NoneCalledTwice'
  BY <1>4 DEF IInv, NoneCalledTwice
<1>8. QED
  BY <1>5, <1>6, <1>7 DEF IInv, NoDuplicates, OwnInv, Own, Connected, OnceInv

LEMMA ConnectInv ==
  ASSUME IInv, NEW c \in Conns, Connect(c)
  PROVE  IInv'
<1>1. /\ status[c] = "new"
      /\ handlers' = Append(handlers, c)
      /\ status' = [status EXCEPT ![c] = "open"]
      /\ UNCHANGED <<runs, stack>>
  BY DEF Connect
<1>2. handlers \in Seq(Conns) /\ Len(handlers) \in Nat
  BY DEF IInv, TypeOK
<1>3. /\ handlers' \in Seq(Conns)
      /\ Len(handlers') = Len(handlers) + 1
      /\ \A n \in 1..Len(handlers) : handlers'[n] = handlers[n]
      /\ handlers'[Len(handlers) + 1] = c
  BY <1>1, <1>2, AppendProperties
<1>4. /\ status'[c] = "open"
      /\ \A d \in Conns : d # c => status'[d] = status[d]
  BY <1>1 DEF IInv, TypeOK
<1>5. \A n \in 1..Len(handlers') : n \in 1..Len(handlers) \/ n = Len(handlers) + 1
  BY <1>2, <1>3
<1>6. \A n \in 1..Len(handlers) : handlers[n] # c
  BY <1>1 DEF IInv, NewIsAbsent, Connected
<1>7. TypeOK'
  BY <1>1, <1>3 DEF IInv, TypeOK
<1>8. NoDuplicates'
  BY <1>3, <1>5, <1>6 DEF IInv, NoDuplicates
<1>9. \A d \in Conns : Connected(d)' <=> Connected(d) \/ d = c
  <2> TAKE d \in Conns
  <2>1. Len(handlers) + 1 \in 1..Len(handlers')
    BY <1>2, <1>3
  <2>2. \A n \in 1..Len(handlers) : n \in 1..Len(handlers')
    BY <1>2, <1>3
  <2>3. QED
    BY <1>3, <1>5, <2>1, <2>2 DEF Connected
<1>10. NewIsAbsent'
  BY <1>1, <1>4, <1>9 DEF IInv, NewIsAbsent
<1>11. OwnInv'
  BY <1>4, <1>9 DEF IInv, OwnInv, Own
<1>12. OnceInv'
  BY <1>1, <1>4, OnceIsOwn DEF IInv, OnceInv
<1>13. NoneCalledTwice'
  <2> SUFFICES ASSUME NEW t \in Threads, NEW d \in 1..Len(stack[t]),
                      NEW n \in 1..Len(handlers'), n > stack[t][d].i
               PROVE  handlers'[n] \notin stack[t][d].called
    BY <1>1 DEF NoneCalledTwice
  <2>1. c \notin stack[t][d].called
    BY <1>1 DEF IInv, NewIsAbsent
  <2>2. QED
    BY <1>3, <1>5, <2>1 DEF IInv, NoneCalledTwice
<1>14. QED
  BY <1>7, <1>8, <1>10, <1>11, <1>12, <1>13 DEF IInv

LEMMA DisconnectInv ==
  ASSUME IInv, NEW c \in Conns, Disconnect(c)
  PROVE  IInv'
<1>1. status[c] # "new" /\ Disconnects(c, stack) /\ runs' = runs
  BY DEF Disconnect
<1>2. /\ handlers' \in Seq(Conns)
      /\ status' \in [Conns -> {"new", "open", "closed"}]
      /\ status'[c] = "closed"
      /\ NoDuplicates' /\ NewIsAbsent' /\ OwnInv' /\ NoneCalledTwice'
      /\ stack' \in [Threads -> Seq(Frame)]
  BY <1>1, StackIsSound, DisconnectsEffect
<1>3. \A d \in Conns : d # c => status'[d] = status[d]
  BY <1>1 DEF Disconnects, IInv, TypeOK
<1>4. OnceInv'
  BY <1>1, <1>2, <1>3, OnceIsOwn DEF OnceInv, IInv
<1>5. QED
  BY <1>1, <1>2, <1>4 DEF IInv, TypeOK

LEMMA FireInv ==
  ASSUME IInv, NEW t \in Threads, Fire(t)
  PROVE  IInv'
<1> DEFINE f == [i |-> 0, start |-> ToSet(handlers), called |-> {}, cuts |-> 0]
<1>1. handlers \in Seq(Conns) /\ handlers # <<>>
  BY DEF Fire, IInv, TypeOK
<1>2. f \in Frame
  BY <1>1 DEF Frame, ToSet
<1>3. f.i < Len(handlers)
  BY <1>1, EmptySeq
<1>4. stack[t] \in Seq(Frame)
  BY DEF IInv, TypeOK
<1>5. /\ \A x \in f.called : status[x] # "new"
      /\ \A n \in 1..Len(handlers) : n > f.i => handlers[n] \notin f.called
  OBVIOUS
<1>6. Calls(t, stack[t], f)
  BY DEF Fire
<1> HIDE DEF f
<1>7. QED
  BY <1>2, <1>3, <1>4, <1>5, <1>6, CallsInv

LEMMA HandlerReturnsInv ==
  ASSUME IInv, NEW t \in Threads, HandlerReturns(t)
  PROVE  IInv'
<1>1. stack[t] # <<>> /\ stack[t] \in Seq(Frame)
  BY DEF HandlerReturns, IInv, TypeOK
<1> DEFINE m == Len(stack[t]) - 1
<1>2. Len(stack[t]) \in Nat \ {0} /\ m \in Nat /\ m <= Len(stack[t])
  BY <1>1, EmptySeq
<1>3. Below(t) = SubSeq(stack[t], 1, m)
  BY DEF Below
<1> HIDE DEF m
<1>4. CASE Top(t).i < Len(handlers) /\ Calls(t, Below(t), Top(t))
  <2>1. Below(t) \in Seq(Frame) /\ Len(Below(t)) = m /\ \A d \in 1..m : Below(t)[d] = stack[t][d]
    BY <1>1, <1>2, <1>3, KeepPrefix
  <2>2. \A d \in 1..Len(Below(t)) : d \in 1..Len(stack[t]) /\ Below(t)[d] = stack[t][d]
    BY <1>2, <2>1
  <2>3. Top(t) \in Frame
    BY <1>1, <1>2 DEF Top
  <2>4. /\ \A x \in Top(t).called : status[x] # "new"
        /\ \A n \in 1..Len(handlers) : n > Top(t).i => handlers[n] \notin Top(t).called
    BY <1>2, StackIsSound DEF Sound, Top
  <2>5. QED
    BY <1>4, <2>1, <2>2, <2>3, <2>4, CallsInv
<1>5. CASE stack' = [stack EXCEPT ![t] = Below(t)] /\ UNCHANGED <<handlers, status, runs>>
  BY <1>2, <1>3, <1>5, DropInv
<1>6. QED
  BY <1>4, <1>5 DEF HandlerReturns

LEMMA FailInv ==
  ASSUME IInv, NEW t \in Threads, NEW d \in 0..(MaxDepth - 1), Fail(t, d)
  PROVE  IInv'
<1>1. d \in Nat /\ d <= Len(stack[t])
  BY ConnsAssumption DEF Fail, IInv, TypeOK
<1>2. QED
  BY <1>1, DropInv DEF Fail

LEMMA InitInv == Init => IInv
BY DEF Init, IInv, TypeOK, NoDuplicates, NewIsAbsent, OwnInv, Connected, OnceInv, NoneCalledTwice

\* Every step keeps the invariant.
LEMMA NextInv == IInv /\ [Next]_vars => IInv'
<1> SUFFICES ASSUME IInv, [Next]_vars PROVE IInv'
  OBVIOUS
<1>1. ASSUME NEW c \in Conns, Connect(c) PROVE IInv'
  BY <1>1, ConnectInv
<1>2. ASSUME NEW c \in Conns, Disconnect(c) PROVE IInv'
  BY <1>2, DisconnectInv
<1>3. ASSUME NEW t \in Threads, Fire(t) PROVE IInv'
  BY <1>3, FireInv
<1>4. ASSUME NEW t \in Threads, HandlerReturns(t) PROVE IInv'
  BY <1>4, HandlerReturnsInv
<1>5. ASSUME NEW t \in Threads, NEW d \in 0..(MaxDepth - 1), Fail(t, d) PROVE IInv'
  BY <1>5, FailInv
<1>6. CASE UNCHANGED vars
  BY <1>6 DEF vars, IInv, TypeOK, NoDuplicates, NewIsAbsent, OwnInv, Own, Connected, OnceInv,
              NoneCalledTwice
<1>7. QED
  BY <1>1, <1>2, <1>3, <1>4, <1>5, <1>6 DEF Next

LEMMA Inductive == Spec => []IInv
BY InitInv, NextInv, PTL DEF Spec

(* The variables keep their types.                                          *)
THEOREM TypeCorrect == Spec => []TypeOK
<1>1. IInv => TypeOK
  BY DEF IInv
<1>2. QED
  BY <1>1, Inductive, PTL

(* The body of a `once` handler runs at most once, whatever fires are       *)
(* nested or interleaved and whatever raises an error.                      *)
THEOREM SafeOnceAtMostOnce == Spec => []OnceAtMostOnce
<1>1. IInv => OnceAtMostOnce
  BY DEF IInv, OnceInv, OnceAtMostOnce
<1>2. QED
  BY <1>1, Inductive, PTL

(* A connection with a closure of its own is connected from its connect to  *)
(* its disconnect, and no longer.                                           *)
THEOREM SafeOwnClosureStaysConnected == Spec => []OwnClosureStaysConnected
<1>1. IInv => OwnClosureStaysConnected
  <2> SUFFICES ASSUME IInv, NEW c \in Conns, Own(c)
               PROVE  c \in ToSet(handlers) <=> status[c] = "open"
    BY DEF OwnClosureStaysConnected
  <2>1. c \in ToSet(handlers) <=> Connected(c)
    BY DEF IInv, TypeOK, ToSet, Connected
  <2>2. QED
    BY <2>1 DEF IInv, OwnInv
<1>2. QED
  BY <1>1, Inductive, PTL

(* No fire calls a connection twice.                                        *)
THEOREM SafeNoneCalledTwice == Spec => []NoneCalledTwice
<1>1. IInv => NoneCalledTwice
  BY DEF IInv
<1>2. QED
  BY <1>1, Inductive, PTL

-----------------------------------------------------------------------------
(* What a fire passes over, for any array hs of connections.                *)
Passed(f, hs) == {c \in f.start \ f.called : \E n \in 1..Len(hs) : n <= f.i /\ hs[n] = c}

LEMMA PassedIsFinite ==
  ASSUME NEW hs \in Seq(Conns), NEW f
  PROVE  IsFiniteSet(Passed(f, hs))
<1> DEFINE I == 1..Len(hs)
           T == {hs[n] : n \in I}
           h == [n \in I |-> hs[n]]
<1>1. IsFiniteSet(I)
  BY FS_Interval
<1>2. h \in Surjection(I, T)
  BY DEF Surjection
<1>3. IsFiniteSet(T)
  BY <1>1, <1>2, FS_Surjection
<1>4. Passed(f, hs) \subseteq T
  BY DEF Passed
<1> HIDE DEF T
<1>5. QED
  BY <1>3, <1>4, FS_Subset

\* It passes over no more, or over one more.
LEMMA NoMorePassed ==
  ASSUME NEW A, NEW B, IsFiniteSet(B), A \subseteq B
  PROVE  Cardinality(A) <= Cardinality(B) /\ Cardinality(A) \in Nat /\ Cardinality(B) \in Nat
BY FS_Subset, FS_CardinalityType

LEMMA OneMorePassed ==
  ASSUME NEW A, NEW B, NEW x, IsFiniteSet(B), A \subseteq B \cup {x}
  PROVE  Cardinality(A) <= Cardinality(B) + 1
<1>1. IsFiniteSet(B \cup {x}) /\ Cardinality(B \cup {x}) <= Cardinality(B) + 1
  <2>1. PICK C : C = B \cup {x}
    OBVIOUS
  <2>2. IsFiniteSet(C) /\ Cardinality(C) = IF x \in B THEN Cardinality(B) ELSE Cardinality(B) + 1
    BY <2>1, FS_AddElement
  <2>3. Cardinality(B) \in Nat
    BY FS_CardinalityType
  <2>4. Cardinality(C) <= Cardinality(B) + 1
    BY <2>2, <2>3
  <2>5. QED
    BY <2>1, <2>2, <2>4
<1>2. /\ Cardinality(A) <= Cardinality(B \cup {x})
      /\ Cardinality(A) \in Nat /\ Cardinality(B \cup {x}) \in Nat /\ Cardinality(B) \in Nat
  BY <1>1, NoMorePassed, FS_CardinalityType
<1>3. QED
  BY <1>1, <1>2

\* The fires in progress st have passed over no more than they may, and
\* started with connections that were made.
Modest(st) ==
  \A t \in Threads : \A d \in 1..Len(st[t]) :
    /\ Cardinality(Passed(st[t][d], handlers)) <= st[t][d].cuts
    /\ \A c \in st[t][d].start : status[c] # "new"

\* A disconnect, which moves the entries after the one it removes.
LEMMA DisconnectsModest ==
  ASSUME IInv, NEW c \in Conns, status[c] # "new",
         NEW st, Sound(st), Modest(st), Disconnects(c, st)
  PROVE  Modest(stack)'
<1>1. \A x : status[x] # "new" => status'[x] # "new"
  BY DEF Disconnects, IInv, TypeOK
<1>2. handlers \in Seq(Conns) /\ Len(handlers) \in Nat
  BY DEF IInv, TypeOK
<1>3. CASE \E n \in 1..Len(handlers) :
             /\ Found(c, n)
             /\ handlers' = RemoveAt(handlers, n)
             /\ stack' = [t \in Threads |-> [d \in 1..Len(st[t]) |-> Shift(st[t][d], n)]]
  <2>0. PICK n \in 1..Len(handlers) :
             /\ handlers' = RemoveAt(handlers, n)
             /\ stack' = [t \in Threads |-> [d \in 1..Len(st[t]) |-> Shift(st[t][d], n)]]
    BY <1>3
  <2>1. PICK hs : hs = handlers'
    OBVIOUS
  <2>2. /\ Len(hs) = Len(handlers) - 1
        /\ \A m \in 1..Len(hs) : hs[m] = IF m < n THEN handlers[m] ELSE handlers[m + 1]
    BY <1>2, <2>0, <2>1, RemoveAtProperties
  <2>3. ASSUME NEW f \in Frame, Cardinality(Passed(f, handlers)) <= f.cuts
        PROVE  Cardinality(Passed(Shift(f, n), hs)) <= Shift(f, n).cuts
    <3>0. f.i \in Nat /\ f.cuts \in Nat /\ IsFiniteSet(Passed(f, handlers))
      BY <1>2, PassedIsFinite DEF Frame
    <3>1. CASE n <= f.i
      <4>1. PICK g : g = Shift(f, n)
        OBVIOUS
      <4>2. g.i = f.i /\ g.start = f.start /\ g.called = f.called /\ g.cuts = f.cuts + 1
        BY <3>1, <4>1 DEF Shift, Frame
      <4>3. ASSUME NEW x \in Passed(g, hs) PROVE x \in Passed(f, handlers) \cup {handlers[f.i + 1]}
        <5>1. PICK m \in 1..Len(hs) : m <= f.i /\ hs[m] = x
          BY <4>2, <4>3 DEF Passed
        <5>2. x \in f.start \ f.called
          BY <4>2, <4>3 DEF Passed
        <5>3. CASE m < n
          <6>1. m \in 1..Len(handlers) /\ handlers[m] = x
            BY <1>2, <2>2, <5>1, <5>3
          <6>2. QED
            BY <5>1, <5>2, <6>1 DEF Passed
        <5>4. CASE m >= n /\ m < f.i
          <6>1. m + 1 \in 1..Len(handlers) /\ handlers[m + 1] = x /\ m + 1 <= f.i
            BY <1>2, <2>2, <3>0, <5>1, <5>4
          <6>2. QED
            BY <5>2, <6>1 DEF Passed
        <5>5. CASE m >= n /\ m = f.i
          BY <2>2, <5>1, <5>5
        <5>6. QED
          BY <3>0, <5>1, <5>3, <5>4, <5>5
      <4>4. Passed(g, hs) \subseteq Passed(f, handlers) \cup {handlers[f.i + 1]}
        BY <4>3
      <4>5. Cardinality(Passed(g, hs)) <= Cardinality(Passed(f, handlers)) + 1
        BY <3>0, <4>4, OneMorePassed
      <4>6. Cardinality(Passed(g, hs)) \in Nat /\ Cardinality(Passed(f, handlers)) \in Nat
        <5>1. IsFiniteSet(Passed(f, handlers) \cup {handlers[f.i + 1]})
          BY <3>0, FS_AddElement
        <5>2. QED
          BY <3>0, <4>4, <5>1, NoMorePassed, FS_CardinalityType
      <4>7. QED
        BY <2>3, <3>0, <4>1, <4>2, <4>5, <4>6
    <3>2. CASE n > f.i
      <4>1. Shift(f, n) = f
        BY <3>0, <3>2 DEF Shift
      <4>2. Passed(f, hs) \subseteq Passed(f, handlers)
        <5>1. \A m \in 1..Len(hs) : m <= f.i => m \in 1..Len(handlers) /\ hs[m] = handlers[m]
          BY <1>2, <2>2, <3>0, <3>2
        <5>2. QED
          BY <5>1 DEF Passed
      <4>3. QED
        BY <2>3, <3>0, <4>1, <4>2, NoMorePassed
    <3>3. QED
      BY <3>0, <3>1, <3>2
  <2>4. ASSUME NEW t \in Threads, NEW d \in 1..Len(stack'[t])
        PROVE  d \in 1..Len(st[t]) /\ st[t][d] \in Frame /\ stack'[t][d] = Shift(st[t][d], n)
    <3>1. st[t] \in Seq(Frame) /\ Len(st[t]) \in Nat
      BY DEF Sound
    <3>2. PICK q : q = [k \in 1..Len(st[t]) |-> Shift(st[t][k], n)]
      OBVIOUS
    <3>3. Len(q) = Len(st[t])
      BY <3>1, <3>2
    <3>4. stack'[t] = q
      BY <2>0, <3>2
    <3>5. QED
      BY <2>4, <3>1, <3>2, <3>3, <3>4
  <2>5. \A f \in Frame : Shift(f, n).start = f.start
    BY DEF Shift, Frame
  <2>6. QED
    BY <1>1, <2>1, <2>3, <2>4, <2>5 DEF Modest
<1>4. CASE stack' = st /\ UNCHANGED handlers
  BY <1>1, <1>4 DEF Modest
<1>5. QED
  BY <1>3, <1>4 DEF Disconnects

\* A call, which takes the next entry out of what may be passed over.
LEMMA CallsModest ==
  ASSUME IInv, Modest(stack), NEW t \in Threads, NEW below \in Seq(Frame), NEW f \in Frame,
         \A d \in 1..Len(below) : d \in 1..Len(stack[t]) /\ below[d] = stack[t][d],
         f.i < Len(handlers),
         \A x \in f.called : status[x] # "new",
         \A n \in 1..Len(handlers) : n > f.i => handlers[n] \notin f.called,
         Cardinality(Passed(f, handlers)) <= f.cuts,
         \A x \in f.start : status[x] # "new",
         Calls(t, below, f)
  PROVE  Modest(stack)'
<1> DEFINE c == handlers[f.i + 1]
           g == [f EXCEPT !.i = f.i + 1, !.called = f.called \cup {c}]
           st == [stack EXCEPT ![t] = Append(below, g)]
<1>1. /\ handlers \in Seq(Conns) /\ Len(handlers) \in Nat
      /\ f.i \in Nat /\ f.i + 1 \in 1..Len(handlers)
  BY DEF IInv, TypeOK, Frame
<1>2. c \in Conns /\ status[c] # "new"
  BY <1>1 DEF Connected, IInv, NewIsAbsent
<1>3. g \in Frame /\ g.i = f.i + 1 /\ g.called = f.called \cup {c} /\ g.start = f.start /\ g.cuts = f.cuts
  <2>1. f.called \cup {c} \in SUBSET Conns /\ f.i + 1 \in Nat
    BY <1>1, <1>2 DEF Frame
  <2> HIDE DEF c
  <2>2. QED
    BY <2>1 DEF Frame
<1>4. Cardinality(Passed(g, handlers)) <= g.cuts /\ \A x \in g.start : status[x] # "new"
  <2> HIDE DEF g
  <2>1. \A n \in 1..Len(handlers) : n <= f.i + 1 => n <= f.i \/ n = f.i + 1
    BY <1>1
  <2>2. Passed(g, handlers) \subseteq Passed(f, handlers)
    BY <1>3, <2>1 DEF Passed
  <2>3. IsFiniteSet(Passed(f, handlers)) /\ f.cuts \in Nat
    BY <1>1, PassedIsFinite DEF Frame
  <2>4. QED
    BY <1>3, <2>2, <2>3, NoMorePassed
<1>5. stack \in [Threads -> Seq(Frame)]
  BY DEF IInv, TypeOK
<1>6. /\ Append(below, g) \in Seq(Frame)
      /\ Len(below) \in Nat
      /\ Len(Append(below, g)) = Len(below) + 1
      /\ \A d \in 1..Len(below) : Append(below, g)[d] = below[d]
      /\ Append(below, g)[Len(below) + 1] = g
  <2> HIDE DEF g
  <2>1. QED
    BY <1>3, AppendProperties
<1>7. /\ st \in [Threads -> Seq(Frame)] /\ st[t] = Append(below, g)
      /\ \A u \in Threads : u # t => st[u] = stack[u]
  BY <1>5, <1>6
<1>8. ASSUME NEW u \in Threads, NEW d \in 1..Len(st[u])
      PROVE  st[u][d] = g \/ \E e \in 1..Len(stack[u]) : st[u][d] = stack[u][e]
  <2> HIDE DEF st, g
  <2>1. CASE u # t
    BY <1>7, <1>8, <2>1
  <2>2. CASE u = t
    <3>1. d \in 1..Len(below) \/ d = Len(below) + 1
      BY <1>6, <1>7, <1>8, <2>2
    <3>2. QED
      BY <1>6, <1>7, <2>2, <3>1
  <2>3. QED
    BY <2>1, <2>2
<1> HIDE DEF st
<1>9. Modest(st)
  <2> HIDE DEF g
  <2>1. QED
    BY <1>4, <1>8 DEF Modest
<1>10. Sound(st)
  <2>1. Sound(stack)
    BY StackIsSound
  <2>2. /\ \A x \in g.called : status[x] # "new"
        /\ \A n \in 1..Len(handlers) : n > g.i => handlers[n] \notin g.called
    <3> HIDE DEF g
    <3>1. \A n \in 1..Len(handlers) : n > f.i + 1 => n > f.i /\ handlers[n] # c
      BY <1>1 DEF IInv, NoDuplicates
    <3>2. QED
      BY <1>2, <1>3, <3>1
  <2> HIDE DEF g
  <2>3. ASSUME NEW u \in Threads, NEW d \in 1..Len(st[u])
        PROVE  /\ \A x \in st[u][d].called : status[x] # "new"
               /\ \A n \in 1..Len(handlers) : n > st[u][d].i => handlers[n] \notin st[u][d].called
    <3>1. CASE st[u][d] = g
      BY <2>2, <3>1
    <3>2. CASE \E e \in 1..Len(stack[u]) : st[u][d] = stack[u][e]
      BY <2>1, <3>2 DEF Sound
    <3>3. QED
      BY <1>8, <3>1, <3>2
  <2>4. QED
    BY <1>7, <2>3 DEF Sound
<1>11. CASE c \in OnceConns /\ Disconnects(c, st)
  <2> HIDE DEF c
  <2>1. QED
    BY <1>2, <1>9, <1>10, <1>11, DisconnectsModest
<1>12. CASE stack' = st /\ UNCHANGED <<handlers, status>>
  BY <1>9, <1>12 DEF Modest
<1>13. QED
  BY <1>11, <1>12 DEF Calls, st

LEMMA DropModest ==
  ASSUME IInv, Modest(stack), NEW t \in Threads, NEW m \in Nat, m <= Len(stack[t]),
         stack' = [stack EXCEPT ![t] = SubSeq(stack[t], 1, m)],
         UNCHANGED <<handlers, status, runs>>
  PROVE  Modest(stack)'
<1>1. stack[t] \in Seq(Frame) /\ Len(stack[t]) \in Nat
  BY DEF IInv, TypeOK
<1>2. stack'[t] = SubSeq(stack[t], 1, m) /\ \A u \in Threads : u # t => stack'[u] = stack[u]
  BY DEF IInv, TypeOK
<1>3. stack'[t] \in Seq(Frame) /\ Len(stack'[t]) = m /\ \A d \in 1..m : stack'[t][d] = stack[t][d]
  BY <1>1, <1>2, KeepPrefix
<1>4. \A u \in Threads : \A d \in 1..Len(stack'[u]) :
        d \in 1..Len(stack[u]) /\ stack'[u][d] = stack[u][d]
  BY <1>1, <1>2, <1>3
<1>5. QED
  BY <1>4 DEF Modest

LEMMA ConnectModest ==
  ASSUME IInv, Modest(stack), NEW c \in Conns, Connect(c)
  PROVE  Modest(stack)'
<1>1. /\ status[c] = "new"
      /\ handlers' = Append(handlers, c)
      /\ \A x : x # c /\ status[x] # "new" => status'[x] # "new"
      /\ UNCHANGED stack
  BY DEF Connect, IInv, TypeOK
<1>2. handlers \in Seq(Conns) /\ Len(handlers) \in Nat
  BY DEF IInv, TypeOK
<1>3. PICK hs : hs = handlers'
  OBVIOUS
<1>4. /\ Len(hs) = Len(handlers) + 1 /\ hs[Len(handlers) + 1] = c
      /\ \A n \in 1..Len(handlers) : hs[n] = handlers[n]
  BY <1>1, <1>2, <1>3, AppendProperties
<1>5. \A n \in 1..Len(hs) : n \in 1..Len(handlers) \/ n = Len(handlers) + 1
  BY <1>2, <1>4
<1>6. ASSUME NEW t \in Threads, NEW d \in 1..Len(stack[t])
      PROVE  /\ Cardinality(Passed(stack[t][d], hs)) <= stack[t][d].cuts
             /\ \A x \in stack[t][d].start : status'[x] # "new"
  <2>1. stack[t][d] \in Frame /\ stack[t][d].cuts \in Nat
    <3>1. stack[t] \in Seq(Frame)
      BY DEF IInv, TypeOK
    <3>2. stack[t][d] \in Frame
      BY <1>6, <3>1
    <3>3. QED
      BY <3>2 DEF Frame
  <2>2. PICK f : f = stack[t][d]
    OBVIOUS
  <2>3. Cardinality(Passed(f, handlers)) <= f.cuts /\ \A x \in f.start : status[x] # "new"
    BY <1>6, <2>2 DEF Modest
  <2>4. Passed(f, hs) \subseteq Passed(f, handlers)
    BY <1>1, <1>4, <1>5, <2>3 DEF Passed
  <2>5. Cardinality(Passed(f, hs)) <= f.cuts
    BY <1>2, <2>1, <2>2, <2>3, <2>4, PassedIsFinite, NoMorePassed
  <2>6. \A x \in f.start : status'[x] # "new"
    BY <1>1, <2>3
  <2>7. QED
    BY <2>2, <2>5, <2>6
<1>7. QED
  BY <1>1, <1>3, <1>6 DEF Modest

LEMMA FireModest ==
  ASSUME IInv, Modest(stack), NEW t \in Threads, Fire(t)
  PROVE  Modest(stack)'
<1> DEFINE f == [i |-> 0, start |-> ToSet(handlers), called |-> {}, cuts |-> 0]
<1>1. handlers \in Seq(Conns) /\ handlers # <<>>
  BY DEF Fire, IInv, TypeOK
<1>2. f \in Frame /\ f.i < Len(handlers) /\ f.called = {}
  BY <1>1, EmptySeq DEF Frame, ToSet
<1>3. \A x \in f.start : status[x] # "new"
  BY <1>1 DEF ToSet, IInv, NewIsAbsent, Connected
<1>4. Cardinality(Passed(f, handlers)) <= f.cuts
  <2>1. Passed(f, handlers) = {}
    BY <1>1 DEF Passed
  <2>2. QED
    BY <2>1, FS_EmptySet
<1>5. stack[t] \in Seq(Frame) /\ Calls(t, stack[t], f)
  BY DEF Fire, IInv, TypeOK
<1> HIDE DEF f
<1>6. QED
  BY <1>2, <1>3, <1>4, <1>5, CallsModest

LEMMA HandlerReturnsModest ==
  ASSUME IInv, Modest(stack), NEW t \in Threads, HandlerReturns(t)
  PROVE  Modest(stack)'
<1>1. stack[t] # <<>> /\ stack[t] \in Seq(Frame)
  BY DEF HandlerReturns, IInv, TypeOK
<1> DEFINE m == Len(stack[t]) - 1
<1>2. Len(stack[t]) \in Nat \ {0} /\ m \in Nat /\ m <= Len(stack[t])
  BY <1>1, EmptySeq
<1>3. Below(t) = SubSeq(stack[t], 1, m)
  BY DEF Below
<1> HIDE DEF m
<1>4. CASE Top(t).i < Len(handlers) /\ Calls(t, Below(t), Top(t))
  <2>1. Below(t) \in Seq(Frame) /\ Len(Below(t)) = m /\ \A d \in 1..m : Below(t)[d] = stack[t][d]
    BY <1>1, <1>2, <1>3, KeepPrefix
  <2>2. \A d \in 1..Len(Below(t)) : d \in 1..Len(stack[t]) /\ Below(t)[d] = stack[t][d]
    BY <1>2, <2>1
  <2>3. Top(t) \in Frame
    BY <1>1, <1>2 DEF Top
  <2>4. /\ \A x \in Top(t).called : status[x] # "new"
        /\ \A n \in 1..Len(handlers) : n > Top(t).i => handlers[n] \notin Top(t).called
    BY <1>2, StackIsSound DEF Sound, Top
  <2>5. /\ Cardinality(Passed(Top(t), handlers)) <= Top(t).cuts
        /\ \A x \in Top(t).start : status[x] # "new"
    BY <1>2 DEF Modest, Top
  <2>6. QED
    BY <1>4, <2>1, <2>2, <2>3, <2>4, <2>5, CallsModest
<1>5. CASE stack' = [stack EXCEPT ![t] = Below(t)] /\ UNCHANGED <<handlers, status, runs>>
  BY <1>2, <1>3, <1>5, DropModest
<1>6. QED
  BY <1>4, <1>5 DEF HandlerReturns

LEMMA NextModest == IInv /\ Modest(stack) /\ [Next]_vars => Modest(stack)'
<1> SUFFICES ASSUME IInv, Modest(stack), [Next]_vars PROVE Modest(stack)'
  OBVIOUS
<1>1. ASSUME NEW c \in Conns, Connect(c) PROVE Modest(stack)'
  BY <1>1, ConnectModest
<1>2. ASSUME NEW c \in Conns, Disconnect(c) PROVE Modest(stack)'
  BY <1>2, StackIsSound, DisconnectsModest DEF Disconnect
<1>3. ASSUME NEW t \in Threads, Fire(t) PROVE Modest(stack)'
  BY <1>3, FireModest
<1>4. ASSUME NEW t \in Threads, HandlerReturns(t) PROVE Modest(stack)'
  BY <1>4, HandlerReturnsModest
<1>5. ASSUME NEW t \in Threads, NEW d \in 0..(MaxDepth - 1), Fail(t, d) PROVE Modest(stack)'
  <2>1. d \in Nat /\ d <= Len(stack[t])
    BY <1>5, ConnsAssumption DEF Fail, IInv, TypeOK
  <2>2. QED
    BY <1>5, <2>1, DropModest DEF Fail
<1>6. CASE UNCHANGED vars
  BY <1>6 DEF vars, Modest, Passed
<1>7. QED
  BY <1>1, <1>2, <1>3, <1>4, <1>5, <1>6 DEF Next

(* A fire passes over at most one connection for each entry removed behind  *)
(* its index while it runs: the array moves under it, and that is all it    *)
(* loses.                                                                   *)
THEOREM SafeFireMissesAtMostCuts == Spec => []FireMissesAtMostCuts
<1>1. Init => Modest(stack)
  BY DEF Init, Modest
<1>2. Modest(stack) => FireMissesAtMostCuts
  BY DEF Modest, Passed, FireMissesAtMostCuts, PassedOver
<1>3. QED
  BY <1>1, <1>2, Inductive, NextModest, PTL DEF Spec

=============================================================================
