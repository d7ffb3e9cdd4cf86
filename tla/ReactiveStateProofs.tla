------------------------- MODULE ReactiveStateProofs ------------------------
(* ToldOrDue is inductive, so WatchersCaughtUp holds of every program, for  *)
(* any number of states, watchers, coroutines and nested assignments; and   *)
(* when right-hand sides run no code, the documented promise holds without  *)
(* exception.                                                               *)
EXTENDS ReactiveState, SequenceTheorems, TLAPS

\* Keeping a prefix of a sequence.
LEMMA KeepPrefix ==
  ASSUME NEW S, NEW s \in Seq(S), NEW m \in Nat, m <= Len(s),
         NEW q, q = SubSeq(s, 1, m)
  PROVE  /\ q \in Seq(S)
         /\ Len(q) = m
         /\ \A d \in 1..m : q[d] = s[d]
OBVIOUS

\* Replacing the last element of a sequence.
LEMMA ReplaceLast ==
  ASSUME NEW S, NEW s \in Seq(S), s # <<>>, NEW e \in S,
         NEW q, q = Append(SubSeq(s, 1, Len(s) - 1), e)
  PROVE  /\ q \in Seq(S)
         /\ Len(q) = Len(s)
         /\ q[Len(s)] = e
         /\ \A d \in 1..Len(s) - 1 : q[d] = s[d]
<1> DEFINE m == Len(s) - 1
           p == SubSeq(s, 1, m)
<1>1. m \in Nat /\ m <= Len(s) /\ Len(s) = m + 1
  BY EmptySeq
<1>2. p \in Seq(S) /\ Len(p) = m /\ \A d \in 1..m : p[d] = s[d]
  <2> HIDE DEF m
  <2> QED
    BY <1>1, KeepPrefix
<1>3. q = Append(p, e)
  OBVIOUS
<1> HIDE DEF p
<1>4. q \in Seq(S) /\ Len(q) = Len(p) + 1 /\ q[Len(p) + 1] = e
      /\ \A d \in 1..Len(p) : q[d] = p[d]
  BY <1>2, <1>3, AppendProperties
<1> HIDE DEF m
<1>5. QED
  BY <1>1, <1>2, <1>4 DEF m

\* What the frames of a reachable state satisfy beyond their type.
FrameOK(f) ==
  /\ f.k <= Len(f.targets)
  /\ f.k > 0 => f.i \in 1..Len(watchers[f.targets[f.k]])

FramesOK == \A t \in Threads : \A d \in 1..Len(stack[t]) : FrameOK(stack[t][d])

IInv == TypeOK /\ FramesOK /\ ToldOrDue

\* A frame's targets are states.
LEMMA TargetsAreStates ==
  ASSUME NEW f \in Frame, NEW j \in 1..Len(f.targets)
  PROVE  f.targets[j] \in States
BY StatesAssumption DEF Frame

\* The innermost frame of a busy coroutine is a frame.
LEMMA TopIsFrame ==
  ASSUME TypeOK, FramesOK, NEW t \in Threads, stack[t] # <<>>
  PROVE  /\ Len(stack[t]) \in Nat \ {0}
         /\ Top(t) = stack[t][Len(stack[t])]
         /\ Top(t) \in Frame /\ FrameOK(Top(t))
         /\ Len(Top(t).targets) \in Nat /\ Top(t).k \in Nat
<1>1. stack[t] \in Seq(Frame)
  BY DEF TypeOK
<1>2. Len(stack[t]) \in Nat \ {0}
  BY <1>1, EmptySeq
<1>3. Top(t) = stack[t][Len(stack[t])] /\ Top(t) \in Frame
  BY <1>1, <1>2 DEF Top
<1>4. FrameOK(Top(t))
  BY <1>2, <1>3 DEF FramesOK
<1>5. Len(Top(t).targets) \in Nat /\ Top(t).k \in Nat
  BY <1>3, StatesAssumption DEF Frame
<1>6. QED
  BY <1>2, <1>3, <1>4, <1>5

\* A step replaces t's innermost frame f by one that runs watcher i of target
\* k, which it tells v's value.
Called(t, k, i, v) ==
  LET f == Top(t)
      x == f.targets[k]
      g == stack'[t][Len(stack[t])]
  IN
  /\ watchers' \in [States -> Seq(Values)]
  /\ \A z \in States : Len(watchers'[z]) = Len(watchers[z])
  /\ \A z \in States : \A n \in 1..Len(watchers[z]) :
       watchers'[z][n] = IF z = x /\ n = i THEN v[x] ELSE watchers[z][n]
  /\ stack' \in [Threads -> Seq(Frame)]
  /\ \A u \in Threads : Len(stack'[u]) = Len(stack[u])
  /\ g.targets = f.targets /\ g.old = f.old /\ g.k = k /\ g.i = i
  /\ \A u \in Threads : \A d \in 1..Len(stack[u]) :
       <<u, d>> # <<t, Len(stack[t])>> => stack'[u][d] = stack[u][d]

\* A step leaves every frame in place but t's innermost one.
OthersStay(t) ==
  \A u \in Threads : \A d \in 1..Len(stack[u]) :
    <<u, d>> # <<t, Len(stack[t])>> => d \in 1..Len(stack'[u]) /\ stack'[u][d] = stack[u][d]

\* A step adds no frame, and the frame it leaves innermost in t has written its
\* targets.
NoneBegins(t) ==
  \A u \in Threads : \A d \in 1..Len(stack'[u]) :
    /\ d \in 1..Len(stack[u])
    /\ <<u, d>> = <<t, Len(stack[t])>> => stack'[u][d].k > 0

\* A step only records in the watcher tables values of v.
OnlyTells(v) ==
  /\ watchers' \in [States -> Seq(Values)]
  /\ \A z \in States : Len(watchers'[z]) = Len(watchers[z])
  /\ \A z \in States : \A n \in 1..Len(watchers[z]) :
       watchers'[z][n] = v[z] \/ watchers'[z][n] = watchers[z][n]

\* After a step of t, watcher n of target j of t's innermost frame f knows the
\* value v of the target, or that frame is going to tell it.
TellsTarget(t, f, j, n, v) ==
  \/ watchers'[f.targets[j]][n] = v[f.targets[j]]
  \/ /\ Len(stack[t]) \in 1..Len(stack'[t])
     /\ LET g == stack'[t][Len(stack[t])] IN
        /\ g.k > 0
        /\ \/ g.targets[g.k] = f.targets[j] /\ g.i < n
           \/ /\ j \in (g.k + 1)..Len(g.targets)
              /\ g.targets[j] = f.targets[j]
              /\ g.old[j] = f.old[j]

\* It is so for every target the frame still has to look at.
TellsRest(t, f, v) ==
  \A j \in (f.k + 1)..Len(f.targets) : \A n \in 1..Len(watchers[f.targets[j]]) :
    v[f.targets[j]] # f.old[j] => TellsTarget(t, f, j, n, v)

\* Calling a watcher keeps the types and records the value it is told.
LEMMA CallsEffect ==
  ASSUME TypeOK, FramesOK, NEW t \in Threads, stack[t] # <<>>,
         NEW k \in 1..Len(Top(t).targets),
         NEW v \in [States -> Values],
         NEW i \in 1..Len(watchers[Top(t).targets[k]]),
         Calls(t, Top(t), k, i, v)
  PROVE  Called(t, k, i, v)
<1> DEFINE f == Top(t)
           x == f.targets[k]
           g == [f EXCEPT !.k = k, !.i = i]
<1>1. f \in Frame /\ Len(f.targets) \in Nat /\ Len(stack[t]) \in Nat \ {0}
  BY TopIsFrame
<1>2. x \in States
  BY <1>1, TargetsAreStates
<1>3. g \in Frame /\ g.targets = f.targets /\ g.old = f.old /\ g.k = k /\ g.i = i
  <2>1. watchers[x] \in Seq(Values)
    BY <1>2 DEF TypeOK
  <2>2. k \in Nat /\ i \in Nat
    BY <1>1, <2>1
  <2>3. QED
    BY <1>1, <2>2 DEF Frame
<1>4. stack' = [stack EXCEPT ![t] = Append(SubSeq(stack[t], 1, Len(stack[t]) - 1), g)]
  BY DEF Calls, Below
<1>5. stack'[t] = Append(SubSeq(stack[t], 1, Len(stack[t]) - 1), g)
      /\ \A u \in Threads : u # t => stack'[u] = stack[u]
  BY <1>4 DEF TypeOK
<1>6. /\ stack'[t] \in Seq(Frame)
      /\ Len(stack'[t]) = Len(stack[t])
      /\ stack'[t][Len(stack[t])] = g
      /\ \A d \in 1..Len(stack[t]) - 1 : stack'[t][d] = stack[t][d]
  <2>1. stack[t] \in Seq(Frame)
    BY DEF TypeOK
  <2>2. QED
    BY <1>3, <1>5, <2>1, ReplaceLast
<1>7. stack' \in [Threads -> Seq(Frame)]
  BY <1>4, <1>5, <1>6 DEF TypeOK
<1>8. \A u \in Threads : \A d \in 1..Len(stack[u]) :
        <<u, d>> # <<t, Len(stack[t])>> => stack'[u][d] = stack[u][d]
  <2> TAKE u \in Threads
  <2> TAKE d \in 1..Len(stack[u])
  <2> HAVE <<u, d>> # <<t, Len(stack[t])>>
  <2>1. CASE u # t
    BY <2>1, <1>5
  <2>2. CASE u = t
    <3>1. d \in 1..Len(stack[t]) - 1
      BY <2>2, <1>1
    <3>2. QED
      BY <2>2, <3>1, <1>6
  <2>3. QED
    BY <2>1, <2>2
<1>9. watchers' = [watchers EXCEPT ![x] = [watchers[x] EXCEPT ![i] = v[x]]]
  BY <1>2 DEF Calls, TypeOK
<1>10. watchers[x] \in Seq(Values) /\ v[x] \in Values
  BY <1>2 DEF TypeOK
<1>11. [watchers[x] EXCEPT ![i] = v[x]] \in Seq(Values)
       /\ Len([watchers[x] EXCEPT ![i] = v[x]]) = Len(watchers[x])
       /\ \A n \in 1..Len(watchers[x]) :
            [watchers[x] EXCEPT ![i] = v[x]][n] = IF n = i THEN v[x] ELSE watchers[x][n]
  BY <1>10
<1>12. /\ watchers' \in [States -> Seq(Values)]
       /\ \A z \in States : z # x => watchers'[z] = watchers[z]
       /\ watchers'[x] = [watchers[x] EXCEPT ![i] = v[x]]
  BY <1>2, <1>9, <1>11 DEF TypeOK
<1>13. \A z \in States : Len(watchers'[z]) = Len(watchers[z])
  BY <1>11, <1>12
<1>14. \A z \in States : \A n \in 1..Len(watchers[z]) :
         watchers'[z][n] = IF z = x /\ n = i THEN v[x] ELSE watchers[z][n]
  BY <1>11, <1>12
<1>15. \A u \in Threads : Len(stack'[u]) = Len(stack[u])
  BY <1>5, <1>6
<1> HIDE DEF f, x, g
<1>16. QED
  BY <1>3, <1>6, <1>7, <1>8, <1>12, <1>13, <1>14, <1>15 DEF f, x, g, Called

\* Leaving the innermost assignment keeps the other frames.
LEMMA PopEffect ==
  ASSUME TypeOK, NEW t \in Threads, NEW m \in Nat, m < Len(stack[t]),
         stack' = [stack EXCEPT ![t] = SubSeq(stack[t], 1, m)]
  PROVE  /\ stack' \in [Threads -> Seq(Frame)]
         /\ Len(stack'[t]) = m
         /\ \A d \in 1..m : stack'[t][d] = stack[t][d]
         /\ \A u \in Threads : u # t => stack'[u] = stack[u]
<1>1. stack[t] \in Seq(Frame)
  BY DEF TypeOK
<1>2. stack'[t] = SubSeq(stack[t], 1, m) /\ \A u \in Threads : u # t => stack'[u] = stack[u]
  BY DEF TypeOK
<1>3. m <= Len(stack[t])
  BY <1>1
<1>4. stack'[t] \in Seq(Frame) /\ Len(stack'[t]) = m /\ \A d \in 1..m : stack'[t][d] = stack[t][d]
  BY <1>1, <1>2, <1>3, KeepPrefix
<1>5. QED
  BY <1>2, <1>4 DEF TypeOK

\* Calling a watcher keeps the frames sound.
LEMMA CallsKeepsFrames ==
  ASSUME TypeOK, FramesOK, NEW t \in Threads, stack[t] # <<>>,
         NEW k \in 1..Len(Top(t).targets),
         NEW v \in [States -> Values],
         NEW i \in 1..Len(watchers[Top(t).targets[k]]),
         Called(t, k, i, v)
  PROVE  FramesOK'
<1>1. Top(t) \in Frame /\ Len(Top(t).targets) \in Nat /\ Len(stack[t]) \in Nat \ {0}
  BY TopIsFrame
<1> SUFFICES ASSUME NEW u \in Threads, NEW d \in 1..Len(stack'[u])
             PROVE  FrameOK(stack[u][d])'
  BY DEF FramesOK
<1>2. d \in 1..Len(stack[u])
  BY DEF Called
<1>3. CASE <<u, d>> = <<t, Len(stack[t])>>
  <2>1. /\ stack'[u][d].targets = Top(t).targets
        /\ stack'[u][d].k = k /\ stack'[u][d].i = i
    BY <1>3 DEF Called
  <2>2. Len(watchers'[Top(t).targets[k]]) = Len(watchers[Top(t).targets[k]])
    BY <1>1, TargetsAreStates DEF Called
  <2>3. QED
    BY <1>1, <2>1, <2>2 DEF FrameOK
<1>4. CASE <<u, d>> # <<t, Len(stack[t])>>
  <2>1. stack'[u][d] = stack[u][d]
    BY <1>2, <1>4 DEF Called
  <2>2. FrameOK(stack[u][d]) /\ stack[u][d] \in Frame
    BY <1>2 DEF FramesOK, TypeOK
  <2>3. stack[u][d].k > 0 => stack[u][d].targets[stack[u][d].k] \in States
    <3>1. stack[u][d].k \in Nat /\ Len(stack[u][d].targets) \in Nat
      BY <2>2, StatesAssumption DEF Frame
    <3>2. QED
      BY <2>2, <3>1, TargetsAreStates DEF FrameOK
  <2>4. \A z \in States : Len(watchers'[z]) = Len(watchers[z])
    BY DEF Called
  <2>5. QED
    BY <2>1, <2>2, <2>3, <2>4 DEF FrameOK
<1>5. QED
  BY <1>3, <1>4

\* Moving on to the rest of the targets: what it keeps, and whom it tells.
LEMMA NotifyRestEffect ==
  ASSUME TypeOK, FramesOK, NEW t \in Threads, stack[t] # <<>>,
         NEW v \in [States -> Values],
         NotifyRest(t, Top(t), v)
  PROVE  /\ stack' \in [Threads -> Seq(Frame)]
         /\ FramesOK'
         /\ OnlyTells(v)
         /\ OthersStay(t)
         /\ NoneBegins(t)
         /\ TellsRest(t, Top(t), v)
<1> DEFINE f == Top(t)
<1>1. f \in Frame /\ Len(f.targets) \in Nat /\ f.k \in Nat /\ Len(stack[t]) \in Nat \ {0}
  BY TopIsFrame
<1>2. \A j \in 1..Len(f.targets) : f.targets[j] \in States
  BY <1>1, TargetsAreStates
<1>3. CASE \E j \in (f.k + 1)..Len(f.targets) :
             /\ Due(f, j, v)
             /\ \A m \in (f.k + 1)..(j - 1) : ~Due(f, m, v)
             /\ Calls(t, f, j, 1, v)
  <2>0. PICK j \in (f.k + 1)..Len(f.targets) :
             /\ Due(f, j, v)
             /\ \A m \in (f.k + 1)..(j - 1) : ~Due(f, m, v)
             /\ Calls(t, f, j, 1, v)
    BY <1>3
  <2> DEFINE x == f.targets[j]
  <2>1. j \in 1..Len(f.targets) /\ x \in States
    BY <1>1, <1>2
  <2>2. watchers[x] \in Seq(Values) /\ watchers[x] # <<>>
    BY <2>0, <2>1 DEF Due, TypeOK
  <2>3. 1 \in 1..Len(watchers[x])
    BY <2>2, EmptySeq
  <2>4. Called(t, j, 1, v)
    BY <2>0, <2>1, <2>3, CallsEffect
  <2>5. FramesOK'
    BY <2>1, <2>3, <2>4, CallsKeepsFrames
  <2>6. OnlyTells(v) /\ OthersStay(t) /\ stack' \in [Threads -> Seq(Frame)]
    BY <2>4 DEF Called, OnlyTells, OthersStay
  <2>7. LET g == stack'[t][Len(stack[t])] IN
        g.targets = f.targets /\ g.old = f.old /\ g.k = j /\ g.i = 1
    BY <2>4 DEF Called
  <2>8. ASSUME NEW m \in (f.k + 1)..Len(f.targets),
               NEW n \in 1..Len(watchers[f.targets[m]]),
               v[f.targets[m]] # f.old[m]
        PROVE  TellsTarget(t, f, m, n, v)
    <3>1. m \in 1..Len(f.targets) /\ f.targets[m] \in States
      BY <1>1, <1>2
    <3>2. Due(f, m, v)
      <4>1. watchers[f.targets[m]] # <<>>
        OBVIOUS
      <4>2. QED
        BY <2>8, <4>1 DEF Due
    <3>3. ~(m < j)
      BY <1>1, <2>0, <3>2
    <3>4. Len(stack[t]) \in 1..Len(stack'[t]) /\ j > 0
      BY <1>1, <2>1, <2>4 DEF Called
    <3>5. CASE m = j
      <4>1. CASE n = 1
        BY <2>4, <3>1, <3>5, <4>1 DEF Called, TellsTarget
      <4>2. CASE n > 1
        BY <2>7, <3>4, <3>5, <4>2 DEF TellsTarget
      <4>3. QED
        BY <3>1, <4>1, <4>2 DEF TypeOK
    <3>6. CASE m > j
      BY <1>1, <2>7, <3>4, <3>6 DEF TellsTarget
    <3>7. QED
      BY <1>1, <3>3, <3>5, <3>6
  <2>9. NoneBegins(t)
    <3>1. j > 0
      BY <1>1, <2>1
    <3>2. QED
      BY <2>4, <2>7, <3>1 DEF Called, NoneBegins
  <2>10. QED
    BY <2>5, <2>6, <2>8, <2>9 DEF TellsRest
<1>4. CASE /\ \A j \in (f.k + 1)..Len(f.targets) : ~Due(f, j, v)
           /\ stack' = [stack EXCEPT ![t] = Below(t)]
           /\ UNCHANGED watchers
  <2> DEFINE m == Len(stack[t]) - 1
  <2>1. m \in Nat /\ m < Len(stack[t])
    BY <1>1
  <2>2. /\ stack' \in [Threads -> Seq(Frame)]
        /\ Len(stack'[t]) = m
        /\ \A d \in 1..m : stack'[t][d] = stack[t][d]
        /\ \A u \in Threads : u # t => stack'[u] = stack[u]
    <3>1. stack' = [stack EXCEPT ![t] = SubSeq(stack[t], 1, m)]
      BY <1>4 DEF Below
    <3> HIDE DEF m
    <3>2. QED
      BY <2>1, <3>1, PopEffect
  <2>3. \A u \in Threads : \A d \in 1..Len(stack'[u]) :
          d \in 1..Len(stack[u]) /\ stack'[u][d] = stack[u][d]
    BY <1>1, <2>2
  <2>4. FramesOK'
    <3> SUFFICES ASSUME NEW u \in Threads, NEW d \in 1..Len(stack'[u])
                 PROVE  FrameOK(stack[u][d])'
      BY DEF FramesOK
    <3>1. stack'[u][d] = stack[u][d] /\ FrameOK(stack[u][d])
      BY <2>3 DEF FramesOK
    <3>2. watchers' = watchers
      BY <1>4
    <3>3. QED
      BY <3>1, <3>2 DEF FrameOK
  <2>5. OthersStay(t)
    BY <1>1, <2>2 DEF OthersStay
  <2>6. \A j \in (f.k + 1)..Len(f.targets) : \A n \in 1..Len(watchers[f.targets[j]]) :
          v[f.targets[j]] = f.old[j]
    BY <1>4 DEF Due
  <2>7. NoneBegins(t)
    <3>1. \A u \in Threads : \A d \in 1..Len(stack'[u]) : <<u, d>> # <<t, Len(stack[t])>>
      BY <1>1, <2>2
    <3>2. QED
      BY <2>3, <3>1 DEF NoneBegins
  <2>8. QED
    BY <1>4, <2>2, <2>4, <2>5, <2>6, <2>7 DEF TypeOK, OnlyTells, TellsRest
<1>5. QED
  BY <1>3, <1>4 DEF NotifyRest

-----------------------------------------------------------------------------
\* A frame that a step leaves in place still tells the watchers it was going
\* to tell, if the state keeps its value.
LEMMA FrameStillTells ==
  ASSUME NEW x \in States, NEW n, val'[x] = val[x],
         NEW u \in Threads, NEW d \in 1..Len(stack[u]),
         d \in 1..Len(stack'[u]), stack'[u][d] = stack[u][d],
         WillTell(stack[u][d], x, n)
  PROVE  (\E w \in Threads : \E e \in 1..Len(stack[w]) : WillTell(stack[w][e], x, n))'
<1>1. WillTell(stack[u][d], x, n)'
  BY DEF WillTell
<1>2. QED
  BY <1>1

\* A frame of the next state that has watcher n of x ahead of it tells it.
LEMMA FrameTells ==
  ASSUME NEW x, NEW n, NEW t \in Threads, NEW d \in 1..Len(stack'[t]),
         stack'[t][d].k > 0,
         \/ /\ stack'[t][d].targets[stack'[t][d].k] = x
            /\ stack'[t][d].i < n
         \/ \E j \in (stack'[t][d].k + 1)..Len(stack'[t][d].targets) :
              stack'[t][d].targets[j] = x /\ val'[x] # stack'[t][d].old[j]
  PROVE  (\E w \in Threads : \E e \in 1..Len(stack[w]) : WillTell(stack[w][e], x, n))'
<1>1. /\ stack'[t][d].k > 0
      /\ \/ /\ stack'[t][d].targets[stack'[t][d].k] = x
            /\ stack'[t][d].i < n
         \/ \E j \in (stack'[t][d].k + 1)..Len(stack'[t][d].targets) :
              stack'[t][d].targets[j] = x /\ val'[x] # stack'[t][d].old[j]
  OBVIOUS
<1>2. WillTell(stack[t][d], x, n)'
  BY <1>1 DEF WillTell
<1>3. QED
  BY <1>2

\* What TellsTarget promises of the innermost frame is that it will tell.
LEMMA TellingFrameTells ==
  ASSUME NEW x \in States, NEW n, NEW t \in Threads, NEW f, NEW j,
         f.targets[j] = x, val'[x] # f.old[j],
         watchers'[x][n] # val'[x],
         TellsTarget(t, f, j, n, val')
  PROVE  (\E w \in Threads : \E e \in 1..Len(stack[w]) : WillTell(stack[w][e], x, n))'
<1> DEFINE d == Len(stack[t])
           g == stack'[t][d]
<1>1. d \in 1..Len(stack'[t])
      /\ g.k > 0
      /\ \/ g.targets[g.k] = x /\ g.i < n
         \/ j \in (g.k + 1)..Len(g.targets) /\ g.targets[j] = x /\ val'[x] # g.old[j]
  BY DEF TellsTarget
<1> HIDE DEF d
<1>2. QED
  BY <1>1, FrameTells

LEMMA InitInv == Init => IInv
BY DEF Init, IInv, TypeOK, FramesOK, ToldOrDue

LEMMA SaveOldInv ==
  ASSUME IInv, NEW t \in Threads, NEW targets \in TargetLists, SaveOld(t, targets)
  PROVE  IInv'
<1> USE DEF IInv
<1> DEFINE f == [targets |-> targets,
                 old |-> [j \in 1..Len(targets) |-> val[targets[j]]],
                 k |-> 0, i |-> 0]
<1>1. f \in Frame
  <2>1. Len(targets) \in Nat /\ \A j \in 1..Len(targets) : targets[j] \in States
    BY StatesAssumption
  <2>2. [j \in 1..Len(targets) |-> val[targets[j]]] \in Seq(Values)
    BY <2>1 DEF TypeOK
  <2>3. QED
    BY <2>2 DEF Frame
<1>2. stack' = [stack EXCEPT ![t] = Append(stack[t], f)]
  BY DEF SaveOld
<1>3. stack[t] \in Seq(Frame)
  BY DEF TypeOK
<1>4. stack'[t] = Append(stack[t], f) /\ \A u \in Threads : u # t => stack'[u] = stack[u]
  BY <1>2 DEF TypeOK
<1>5. /\ stack'[t] \in Seq(Frame)
      /\ Len(stack'[t]) = Len(stack[t]) + 1
      /\ stack'[t][Len(stack[t]) + 1] = f
      /\ \A d \in 1..Len(stack[t]) : stack'[t][d] = stack[t][d]
  <2> HIDE DEF f
  <2> QED
    BY <1>1, <1>3, <1>4, AppendProperties
<1>6. UNCHANGED <<val, watchers, outdated, unwound>>
  BY DEF SaveOld
<1>7. TypeOK'
  BY <1>2, <1>4, <1>5, <1>6 DEF TypeOK
<1>8. \A u \in Threads : \A d \in 1..Len(stack[u]) :
        d \in 1..Len(stack'[u]) /\ stack'[u][d] = stack[u][d]
  <2> TAKE u \in Threads
  <2> TAKE d \in 1..Len(stack[u])
  <2>1. CASE u = t
    BY <1>3, <1>5, <2>1
  <2>2. CASE u # t
    BY <1>4, <2>2
  <2>3. QED
    BY <2>1, <2>2
<1>9. FramesOK'
  <2> SUFFICES ASSUME NEW u \in Threads, NEW d \in 1..Len(stack'[u])
               PROVE  FrameOK(stack[u][d])'
    BY DEF FramesOK
  <2>1. CASE u = t /\ d = Len(stack[t]) + 1
    <3>1. stack'[u][d] = f
      BY <1>5, <2>1
    <3>2. Len(targets) \in Nat
      BY StatesAssumption
    <3>3. QED
      BY <3>1, <3>2 DEF FrameOK
  <2>2. CASE ~(u = t /\ d = Len(stack[t]) + 1)
    <3>1. d \in 1..Len(stack[u])
      BY <1>3, <1>4, <1>5, <2>2
    <3>2. stack'[u][d] = stack[u][d] /\ FrameOK(stack[u][d])
      BY <1>8, <3>1 DEF FramesOK
    <3>3. QED
      BY <1>6, <3>2 DEF FrameOK
  <2>3. QED
    BY <2>1, <2>2
<1>10. ToldOrDue'
  <2> SUFFICES ASSUME NEW x \in States \ (outdated' \cup unwound'),
                      NEW n \in 1..Len(watchers'[x]),
                      watchers'[x][n] # val'[x]
               PROVE  (\E w \in Threads : \E e \in 1..Len(stack[w]) :
                         WillTell(stack[w][e], x, n))'
    BY DEF ToldOrDue
  <2>0. PICK u \in Threads : \E d \in 1..Len(stack[u]) : WillTell(stack[u][d], x, n)
    BY <1>6 DEF ToldOrDue
  <2>1. PICK d \in 1..Len(stack[u]) : WillTell(stack[u][d], x, n)
    BY <2>0
  <2>2. QED
    BY <1>6, <1>8, <2>1, FrameStillTells
<1>11. QED
  BY <1>7, <1>9, <1>10

LEMMA CommitInv ==
  ASSUME IInv, NEW t \in Threads, Commit(t)
  PROVE  IInv'
<1> USE DEF IInv
<1> DEFINE f == Top(t)
<1>1. PICK new \in [1..Len(f.targets) -> Values] :
        /\ val' = [x \in States |->
             IF \E j \in 1..Len(f.targets) : f.targets[j] = x
             THEN new[CHOOSE j \in 1..Len(f.targets) : f.targets[j] = x]
             ELSE val[x]]
        /\ NotifyRest(t, f, val')
        /\ outdated' = outdated \cup
             {f.targets[j] : j \in {m \in 1..Len(f.targets) : val[f.targets[m]] # f.old[m]}}
  BY DEF Commit
<1>2. stack[t] # <<>> /\ f.k = 0 /\ unwound' = unwound
  BY DEF Commit, Evaluating
<1>3. f \in Frame /\ Len(f.targets) \in Nat /\ Len(stack[t]) \in Nat \ {0}
  BY <1>2, TopIsFrame
<1>4. val' \in [States -> Values]
  <2>1. ASSUME NEW x \in States, \E j \in 1..Len(f.targets) : f.targets[j] = x
        PROVE  new[CHOOSE j \in 1..Len(f.targets) : f.targets[j] = x] \in Values
    BY <2>1
  <2>2. QED
    BY <1>1, <2>1 DEF TypeOK
<1>5. /\ stack' \in [Threads -> Seq(Frame)]
      /\ FramesOK'
      /\ OnlyTells(val')
      /\ OthersStay(t)
      /\ TellsRest(t, f, val')
  BY <1>1, <1>2, <1>4, NotifyRestEffect
<1>6. TypeOK'
  <2>1. outdated' \subseteq States
    BY <1>1, <1>3, TargetsAreStates DEF TypeOK
  <2>2. QED
    BY <1>2, <1>4, <1>5, <2>1 DEF TypeOK, OnlyTells
<1>7. ToldOrDue'
  <2> SUFFICES ASSUME NEW x \in States \ (outdated' \cup unwound'),
                      NEW n \in 1..Len(watchers'[x]),
                      watchers'[x][n] # val'[x]
               PROVE  (\E w \in Threads : \E e \in 1..Len(stack[w]) :
                         WillTell(stack[w][e], x, n))'
    BY DEF ToldOrDue
  <2>1. n \in 1..Len(watchers[x]) /\ watchers'[x][n] = watchers[x][n]
    BY <1>5 DEF OnlyTells
  <2>2. x \in States \ (outdated \cup unwound)
    BY <1>1, <1>2
  <2>3. CASE val'[x] = val[x]
    <3>0. PICK u \in Threads : \E d \in 1..Len(stack[u]) : WillTell(stack[u][d], x, n)
      BY <2>1, <2>2, <2>3 DEF ToldOrDue
    <3>1. PICK d \in 1..Len(stack[u]) : WillTell(stack[u][d], x, n)
      BY <3>0
    <3>2. <<u, d>> # <<t, Len(stack[t])>>
      BY <1>2, <1>3, <3>1 DEF WillTell, Top
    <3>3. d \in 1..Len(stack'[u]) /\ stack'[u][d] = stack[u][d]
      BY <1>5, <3>2 DEF OthersStay
    <3>4. QED
      BY <2>3, <3>1, <3>3, FrameStillTells
  <2>4. CASE val'[x] # val[x]
    <3>1. PICK j \in 1..Len(f.targets) : f.targets[j] = x
      BY <1>1, <2>4
    <3>2. f.old[j] = val[x]
      BY <1>1, <3>1
    <3>3. j \in (f.k + 1)..Len(f.targets) /\ n \in 1..Len(watchers[f.targets[j]])
      BY <1>2, <1>3, <2>1, <3>1
    <3>4. TellsTarget(t, f, j, n, val')
      BY <1>5, <2>4, <3>1, <3>2, <3>3 DEF TellsRest
    <3>5. QED
      BY <2>1, <2>4, <3>1, <3>2, <3>4, TellingFrameTells
  <2>5. QED
    BY <2>3, <2>4
<1>8. QED
  BY <1>5, <1>6, <1>7

LEMMA WatcherReturnsInv ==
  ASSUME IInv, NEW t \in Threads, WatcherReturns(t)
  PROVE  IInv'
<1> USE DEF IInv
<1> DEFINE f == Top(t)
           x0 == f.targets[f.k]
<1>1. stack[t] # <<>> /\ f.k # 0 /\ UNCHANGED <<val, outdated, unwound>>
  BY DEF WatcherReturns, Evaluating
<1>2. /\ f \in Frame /\ FrameOK(f) /\ Len(f.targets) \in Nat
      /\ f.k \in 1..Len(f.targets) /\ Len(stack[t]) \in Nat \ {0}
  BY <1>1, TopIsFrame DEF FrameOK
<1>3. x0 \in States /\ watchers[x0] \in Seq(Values) /\ f.i \in 1..Len(watchers[x0])
  BY <1>2, TargetsAreStates DEF FrameOK, TypeOK
<1>4. val \in [States -> Values]
  BY DEF TypeOK
\* It is enough that a watcher t was going to tell is told or still to be told.
<1>5. ASSUME OnlyTells(val), OthersStay(t),
             \A x \in States, n \in Nat :
               WillTell(f, x, n) /\ n \in 1..Len(watchers[x]) =>
                 \/ watchers'[x][n] = val[x]
                 \/ (\E w \in Threads : \E e \in 1..Len(stack[w]) : WillTell(stack[w][e], x, n))'
      PROVE  ToldOrDue'
  <2> SUFFICES ASSUME NEW x \in States \ (outdated' \cup unwound'),
                      NEW n \in 1..Len(watchers'[x]),
                      watchers'[x][n] # val'[x]
               PROVE  (\E w \in Threads : \E e \in 1..Len(stack[w]) :
                         WillTell(stack[w][e], x, n))'
    BY DEF ToldOrDue
  <2>1. n \in 1..Len(watchers[x]) /\ watchers'[x][n] = watchers[x][n] /\ n \in Nat
    <3>1. n \in 1..Len(watchers[x])
      BY <1>5 DEF OnlyTells
    <3>2. watchers'[x][n] = val[x] \/ watchers'[x][n] = watchers[x][n]
      BY <1>5, <3>1 DEF OnlyTells
    <3>3. watchers[x] \in Seq(Values)
      BY DEF TypeOK
    <3>4. QED
      BY <1>1, <3>1, <3>2, <3>3
  <2>2. PICK u \in Threads : \E d \in 1..Len(stack[u]) : WillTell(stack[u][d], x, n)
    BY <1>1, <2>1 DEF ToldOrDue
  <2>3. PICK d \in 1..Len(stack[u]) : WillTell(stack[u][d], x, n)
    BY <2>2
  <2>4. CASE <<u, d>> = <<t, Len(stack[t])>>
    BY <1>1, <1>5, <2>1, <2>3, <2>4 DEF Top
  <2>5. CASE <<u, d>> # <<t, Len(stack[t])>>
    <3>1. d \in 1..Len(stack'[u]) /\ stack'[u][d] = stack[u][d]
      BY <1>5, <2>5 DEF OthersStay
    <3>2. QED
      BY <1>1, <2>3, <3>1, FrameStillTells
  <2>6. QED
    BY <2>4, <2>5
<1>6. CASE f.i < Len(watchers[x0]) /\ Calls(t, f, f.k, f.i + 1, val)
  <2>1. f.i + 1 \in 1..Len(watchers[x0])
    BY <1>3, <1>6
  <2>2. Called(t, f.k, f.i + 1, val)
    BY <1>1, <1>2, <1>4, <1>6, <2>1, CallsEffect
  <2>3. FramesOK'
    BY <1>1, <1>2, <1>4, <2>1, <2>2, CallsKeepsFrames
  <2>4. OnlyTells(val) /\ OthersStay(t) /\ stack' \in [Threads -> Seq(Frame)]
    BY <2>2 DEF Called, OnlyTells, OthersStay
  <2>5. TypeOK'
    BY <1>1, <2>4 DEF TypeOK, OnlyTells
  <2>6. ASSUME NEW x \in States, NEW n \in Nat,
               WillTell(f, x, n), n \in 1..Len(watchers[x])
        PROVE  \/ watchers'[x][n] = val[x]
               \/ (\E w \in Threads : \E e \in 1..Len(stack[w]) : WillTell(stack[w][e], x, n))'
    <3> DEFINE d == Len(stack[t])
               g == stack'[t][d]
    <3>1. g.targets = f.targets /\ g.old = f.old /\ g.k = f.k /\ g.i = f.i + 1
      BY <2>2 DEF Called
    <3>2. d \in 1..Len(stack'[t])
      BY <1>2, <2>2 DEF Called
    <3>3. CASE f.targets[f.k] = x /\ n = f.i + 1
      BY <1>3, <2>2, <2>6, <3>3 DEF Called
    <3>4. CASE f.targets[f.k] = x /\ n > f.i + 1
      <4>1. g.k > 0 /\ g.targets[g.k] = x /\ g.i < n
        BY <1>2, <1>3, <3>1, <3>4
      <4> HIDE DEF d
      <4>2. QED
        BY <3>2, <4>1, FrameTells
    <3>5. CASE \E j \in (f.k + 1)..Len(f.targets) : f.targets[j] = x /\ val[x] # f.old[j]
      <4>1. /\ g.k > 0
            /\ \E j \in (g.k + 1)..Len(g.targets) : g.targets[j] = x /\ val'[x] # g.old[j]
        BY <1>1, <1>2, <3>1, <3>5
      <4> HIDE DEF d
      <4>2. QED
        BY <3>2, <4>1, FrameTells
    <3>6. QED
      BY <1>3, <2>6, <3>3, <3>4, <3>5 DEF WillTell
  <2>7. QED
    BY <1>5, <2>3, <2>4, <2>5, <2>6
<1>7. CASE f.i = Len(watchers[x0]) /\ NotifyRest(t, f, val)
  <2>1. /\ stack' \in [Threads -> Seq(Frame)]
        /\ FramesOK'
        /\ OnlyTells(val)
        /\ OthersStay(t)
        /\ TellsRest(t, f, val)
    BY <1>1, <1>4, <1>7, NotifyRestEffect
  <2>2. TypeOK'
    BY <1>1, <2>1 DEF TypeOK, OnlyTells
  <2>3. ASSUME NEW x \in States, NEW n \in Nat,
               WillTell(f, x, n), n \in 1..Len(watchers[x])
        PROVE  \/ watchers'[x][n] = val[x]
               \/ (\E w \in Threads : \E e \in 1..Len(stack[w]) : WillTell(stack[w][e], x, n))'
    <3>1. PICK j \in (f.k + 1)..Len(f.targets) : f.targets[j] = x /\ val[x] # f.old[j]
      BY <1>3, <1>7, <2>3 DEF WillTell
    <3>2. TellsTarget(t, f, j, n, val)
      BY <2>1, <2>3, <3>1 DEF TellsRest
    <3>3. QED
      BY <1>1, <3>1, <3>2, TellingFrameTells
  <2>4. QED
    BY <1>5, <2>1, <2>2, <2>3
<1>8. QED
  BY <1>6, <1>7 DEF WatcherReturns

LEMMA WatchInv ==
  ASSUME IInv, NEW x \in States, Watch(x)
  PROVE  IInv'
<1> USE DEF IInv
<1>1. UNCHANGED <<val, stack, outdated, unwound>>
      /\ watchers' = [watchers EXCEPT ![x] = Append(watchers[x], val[x])]
  BY DEF Watch
<1>2. watchers[x] \in Seq(Values) /\ val[x] \in Values
  BY DEF TypeOK
<1>3. /\ Append(watchers[x], val[x]) \in Seq(Values)
      /\ Len(Append(watchers[x], val[x])) = Len(watchers[x]) + 1
      /\ \A n \in 1..Len(watchers[x]) : Append(watchers[x], val[x])[n] = watchers[x][n]
      /\ Append(watchers[x], val[x])[Len(watchers[x]) + 1] = val[x]
  BY <1>2, AppendProperties
<1>4. /\ \A z \in States : z # x => watchers'[z] = watchers[z]
      /\ watchers'[x] = Append(watchers[x], val[x])
  BY <1>1 DEF TypeOK
<1>5. TypeOK'
  BY <1>1, <1>3, <1>4 DEF TypeOK
<1>6. FramesOK'
  <2> SUFFICES ASSUME NEW u \in Threads, NEW d \in 1..Len(stack[u])
               PROVE  FrameOK(stack[u][d])'
    BY <1>1 DEF FramesOK
  <2> DEFINE f == stack[u][d]
  <2>1. FrameOK(f) /\ f \in Frame
    BY DEF FramesOK, TypeOK
  <2>2. f.k \in Nat /\ Len(f.targets) \in Nat
    BY <2>1, StatesAssumption DEF Frame
  <2>3. CASE f.k > 0
    <3>1. f.targets[f.k] \in States
      BY <2>1, <2>2, <2>3, TargetsAreStates DEF FrameOK
    <3>2. Len(watchers[f.targets[f.k]]) \in Nat
          /\ Len(watchers'[f.targets[f.k]]) \in Nat
          /\ Len(watchers[f.targets[f.k]]) <= Len(watchers'[f.targets[f.k]])
      <4>1. \A z \in States : watchers[z] \in Seq(Values)
        BY DEF TypeOK
      <4>2. \A z \in States : Len(watchers'[z]) = Len(watchers[z])
                              \/ Len(watchers'[z]) = Len(watchers[z]) + 1
        BY <1>3, <1>4
      <4> HIDE DEF f
      <4>3. QED
        BY <3>1, <4>1, <4>2
    <3>3. QED
      BY <1>1, <2>1, <2>3, <3>2 DEF FrameOK
  <2>4. CASE ~(f.k > 0)
    BY <1>1, <2>1, <2>4 DEF FrameOK
  <2>5. QED
    BY <2>3, <2>4
<1>7. ToldOrDue'
  <2> SUFFICES ASSUME NEW z \in States \ (outdated' \cup unwound'),
                      NEW n \in 1..Len(watchers'[z]),
                      watchers'[z][n] # val'[z]
               PROVE  (\E w \in Threads : \E e \in 1..Len(stack[w]) :
                         WillTell(stack[w][e], z, n))'
    BY DEF ToldOrDue
  <2>1. n \in 1..Len(watchers[z]) /\ watchers'[z][n] = watchers[z][n]
    BY <1>1, <1>2, <1>3, <1>4
  <2>2. PICK u \in Threads : \E d \in 1..Len(stack[u]) : WillTell(stack[u][d], z, n)
    BY <1>1, <2>1 DEF ToldOrDue
  <2>3. PICK d \in 1..Len(stack[u]) : WillTell(stack[u][d], z, n)
    BY <2>2
  <2>4. QED
    BY <1>1, <2>3, FrameStillTells
<1>8. QED
  BY <1>5, <1>6, <1>7

LEMMA FailInv ==
  ASSUME IInv, NEW t \in Threads, NEW d \in 0..(MaxDepth - 1), Fail(t, d)
  PROVE  IInv'
<1> USE DEF IInv
<1>1. d \in Nat /\ d < Len(stack[t])
  BY StatesAssumption DEF Fail
<1>2. UNCHANGED <<val, watchers, outdated>> /\ unwound \subseteq unwound' /\ unwound' \subseteq States
  BY DEF Fail, TypeOK
<1>3. /\ stack' \in [Threads -> Seq(Frame)]
      /\ Len(stack'[t]) = d
      /\ \A e \in 1..d : stack'[t][e] = stack[t][e]
      /\ \A u \in Threads : u # t => stack'[u] = stack[u]
  <2>1. stack' = [stack EXCEPT ![t] = SubSeq(stack[t], 1, d)]
    BY DEF Fail
  <2>2. QED
    BY <1>1, <2>1, PopEffect
<1>4. TypeOK'
  BY <1>2, <1>3 DEF TypeOK
<1>5. Len(stack[t]) \in Nat
  BY DEF TypeOK
<1>6. FramesOK'
  <2> SUFFICES ASSUME NEW u \in Threads, NEW e \in 1..Len(stack'[u])
               PROVE  FrameOK(stack[u][e])'
    BY DEF FramesOK
  <2>1. stack'[u][e] = stack[u][e] /\ e \in 1..Len(stack[u])
    BY <1>1, <1>3, <1>5
  <2>2. FrameOK(stack[u][e])
    BY <2>1 DEF FramesOK
  <2>3. QED
    BY <1>2, <2>1, <2>2 DEF FrameOK
<1>7. ToldOrDue'
  <2> SUFFICES ASSUME NEW x \in States \ (outdated' \cup unwound'),
                      NEW n \in 1..Len(watchers'[x]),
                      watchers'[x][n] # val'[x]
               PROVE  (\E w \in Threads : \E e \in 1..Len(stack[w]) :
                         WillTell(stack[w][e], x, n))'
    BY DEF ToldOrDue
  <2>1. x \in States \ (outdated \cup unwound) /\ n \in 1..Len(watchers[x])
        /\ watchers[x][n] # val[x]
    BY <1>2
  <2>2. PICK u \in Threads : \E e \in 1..Len(stack[u]) : WillTell(stack[u][e], x, n)
    BY <2>1 DEF ToldOrDue
  <2>3. PICK e \in 1..Len(stack[u]) : WillTell(stack[u][e], x, n)
    BY <2>2
  \* A frame the error removes would have put x into unwound.
  <2>4. ~(u = t /\ e > d)
    <3> SUFFICES ASSUME u = t, e > d PROVE FALSE
      OBVIOUS
    <3> DEFINE f == stack[t][e]
    <3>1. f \in Frame /\ FrameOK(f)
      <4>1. stack[t] \in Seq(Frame) /\ e \in 1..Len(stack[t])
        BY DEF TypeOK
      <4>2. QED
        BY <4>1 DEF FramesOK
    <3>2. f.k \in Nat /\ Len(f.targets) \in Nat
      BY <3>1, StatesAssumption DEF Frame
    <3>3. f.k > 0 /\ \E j \in (f.k)..Len(f.targets) : f.targets[j] = x
      BY <2>3, <3>1, <3>2 DEF WillTell, FrameOK
    <3>4. e \in (d + 1)..Len(stack[t])
      BY <1>1, <1>5
    <3>5. x \in unwound'
      BY <3>3, <3>4 DEF Fail
    <3>6. QED
      BY <3>5
  <2>5. e \in 1..Len(stack'[u]) /\ stack'[u][e] = stack[u][e]
    BY <1>1, <1>3, <1>5, <2>4
  <2>6. QED
    BY <1>2, <2>3, <2>5, FrameStillTells
<1>8. QED
  BY <1>4, <1>6, <1>7

\* Every step keeps the invariant.
LEMMA NextInv == IInv /\ [Next]_vars => IInv'
<1> SUFFICES ASSUME IInv, [Next]_vars PROVE IInv'
  OBVIOUS
<1>1. ASSUME NEW t \in Threads, NEW targets \in TargetLists, Assign(t, targets)
      PROVE  IInv'
  BY <1>1, SaveOldInv DEF Assign
<1>2. ASSUME NEW t \in Threads, NEW x \in States, CompoundAssign(t, x)
      PROVE  IInv'
  BY <1>2, SaveOldInv, StatesAssumption DEF CompoundAssign
<1>3. ASSUME NEW t \in Threads, NEW x \in States, NullishAssign(t, x)
      PROVE  IInv'
  BY <1>3, SaveOldInv, StatesAssumption DEF NullishAssign
<1>4. ASSUME NEW t \in Threads, Commit(t) PROVE IInv'
  BY <1>4, CommitInv
<1>5. ASSUME NEW t \in Threads, WatcherReturns(t) PROVE IInv'
  BY <1>5, WatcherReturnsInv
<1>6. ASSUME NEW t \in Threads, NEW d \in 0..(MaxDepth - 1), Fail(t, d) PROVE IInv'
  BY <1>6, FailInv
<1>7. ASSUME NEW x \in States, Watch(x) PROVE IInv'
  BY <1>7, WatchInv
<1>8. CASE UNCHANGED vars
  BY <1>8 DEF vars, IInv, TypeOK, FramesOK, FrameOK, ToldOrDue, WillTell
<1>9. QED
  BY <1>1, <1>2, <1>3, <1>4, <1>5, <1>6, <1>7, <1>8 DEF Next

(* The variables keep their types and every watcher that does not know the  *)
(* current value is about to be told, in every program.                     *)
THEOREM Inductive == Spec => []IInv
BY InitInv, NextInv, PTL DEF Spec

(* The variables keep their types.                                          *)
THEOREM TypeCorrect == Spec => []TypeOK
<1>1. IInv => TypeOK
  BY DEF IInv
<1>2. QED
  BY <1>1, Inductive, PTL

(* Every watcher that does not know the current value is about to be told   *)
(* by an assignment in progress.                                            *)
THEOREM SafeToldOrDue == Spec => []ToldOrDue
<1>1. IInv => ToldOrDue
  BY DEF IInv
<1>2. QED
  BY <1>1, Inductive, PTL

\* A frame that will tell a watcher of x owes x's watchers.
LEMMA TellersOwe ==
  ASSUME TypeOK, FramesOK, NEW x, NEW n, NEW t \in Threads, NEW d \in 1..Len(stack[t]),
         WillTell(stack[t][d], x, n)
  PROVE  Owes(stack[t][d], x)
<1> DEFINE f == stack[t][d]
<1>1. f \in Frame /\ FrameOK(f)
  BY DEF TypeOK, FramesOK
<1>2. f.k \in Nat /\ Len(f.targets) \in Nat
  BY <1>1, StatesAssumption DEF Frame
<1>3. QED
  BY <1>1, <1>2 DEF WillTell, Owes, FrameOK

\* The invariant says it at each moment.
LEMMA InvCaughtUp == IInv => WatchersCaughtUp
<1> SUFFICES ASSUME IInv, NEW x \in States \ (outdated \cup unwound), Settled(x),
                    NEW n \in 1..Len(watchers[x])
             PROVE  watchers[x][n] = val[x]
  BY DEF WatchersCaughtUp
<1>1. \A t \in Threads : \A d \in 1..Len(stack[t]) : ~WillTell(stack[t][d], x, n)
  BY TellersOwe DEF Settled, IInv
<1>2. QED
  BY <1>1 DEF IInv, ToldOrDue

(* Once the notifications of a state are over, every watcher knows its      *)
(* value: for every number of states, watchers, coroutines and nested       *)
(* assignments.                                                             *)
THEOREM SafeWatchersCaughtUp == Spec => []WatchersCaughtUp
BY InvCaughtUp, Inductive, PTL

-----------------------------------------------------------------------------
(* Right-hand sides that run no code.  At most one assignment evaluates its *)
(* right-hand sides, nothing else happens until it commits, and the old     *)
(* values it saved are still current when it does.                          *)
Alone ==
  /\ SavedOldIsCurrent
  /\ ~RhsRunsCode => outdated = {}
  /\ ~RhsRunsCode => \A t, u \in Threads : \A d \in 1..Len(stack[t]) : \A e \in 1..Len(stack[u]) :
       Evaluating(stack[t][d]) /\ Evaluating(stack[u][e]) => t = u /\ d = e

AInv == IInv /\ Alone

NoneEvaluating == \A t \in Threads : \A d \in 1..Len(stack[t]) : ~Evaluating(stack[t][d])

\* With no right-hand side being evaluated there is nothing to check.
LEMMA NoneEvaluatingAlone ==
  ASSUME NoneEvaluating', ~RhsRunsCode => outdated' = {}
  PROVE  Alone'
BY DEF NoneEvaluating, Alone, SavedOldIsCurrent

LEMMA SaveOldAlone ==
  ASSUME AInv, ~RhsRunsCode, UserCode,
         NEW t \in Threads, NEW targets \in TargetLists, SaveOld(t, targets)
  PROVE  Alone'
<1> DEFINE f == [targets |-> targets,
                 old |-> [j \in 1..Len(targets) |-> val[targets[j]]],
                 k |-> 0, i |-> 0]
<1>1. f \in Frame
  <2>1. Len(targets) \in Nat /\ \A j \in 1..Len(targets) : targets[j] \in States
    BY StatesAssumption
  <2>2. [j \in 1..Len(targets) |-> val[targets[j]]] \in Seq(Values)
    BY <2>1 DEF AInv, IInv, TypeOK
  <2>3. QED
    BY <2>2 DEF Frame
<1>2. stack' = [stack EXCEPT ![t] = Append(stack[t], f)] /\ UNCHANGED <<val, outdated>>
  BY DEF SaveOld
<1>3. stack[t] \in Seq(Frame) /\ Len(stack[t]) \in Nat
  BY DEF AInv, IInv, TypeOK
<1>4. stack'[t] = Append(stack[t], f) /\ \A u \in Threads : u # t => stack'[u] = stack[u]
  BY <1>2 DEF AInv, IInv, TypeOK
<1>5. /\ Len(stack'[t]) = Len(stack[t]) + 1
      /\ stack'[t][Len(stack[t]) + 1] = f
      /\ \A d \in 1..Len(stack[t]) : stack'[t][d] = stack[t][d]
  <2> HIDE DEF f
  <2> QED
    BY <1>1, <1>3, <1>4, AppendProperties
\* Only the new frame is evaluating.
<1>6. ASSUME NEW u \in Threads, NEW d \in 1..Len(stack'[u]), Evaluating(stack'[u][d])
      PROVE  u = t /\ d = Len(stack[t]) + 1
  <2>1. \A w \in Threads : \A e \in 1..Len(stack[w]) : ~Evaluating(stack[w][e])
    BY DEF UserCode
  <2>2. CASE u # t
    BY <1>4, <1>6, <2>1, <2>2
  <2>3. CASE u = t /\ d # Len(stack[t]) + 1
    <3>1. d \in 1..Len(stack[t])
      BY <1>3, <1>5, <2>3
    <3>2. QED
      BY <1>5, <1>6, <2>1, <2>3, <3>1
  <2>4. QED
    BY <2>2, <2>3
<1>7. SavedOldIsCurrent'
  <2> SUFFICES ASSUME NEW u \in Threads, NEW d \in 1..Len(stack'[u]), Evaluating(stack'[u][d]),
                      NEW j \in 1..Len(stack'[u][d].targets)
               PROVE  stack'[u][d].old[j] = val'[stack'[u][d].targets[j]]
    BY DEF SavedOldIsCurrent, Evaluating
  <2>1. stack'[u][d] = f
    BY <1>5, <1>6
  <2>2. QED
    BY <1>2, <2>1
<1>8. \A u, w \in Threads : \A d \in 1..Len(stack'[u]) : \A e \in 1..Len(stack'[w]) :
        Evaluating(stack'[u][d]) /\ Evaluating(stack'[w][e]) => u = w /\ d = e
  BY <1>6
<1>9. QED
  BY <1>2, <1>7, <1>8 DEF Alone, AInv, Evaluating

LEMMA CommitAlone ==
  ASSUME AInv, ~RhsRunsCode, NEW t \in Threads, Commit(t)
  PROVE  Alone'
<1> DEFINE f == Top(t)
<1>1. PICK new \in [1..Len(f.targets) -> Values] :
        /\ val' = [x \in States |->
             IF \E j \in 1..Len(f.targets) : f.targets[j] = x
             THEN new[CHOOSE j \in 1..Len(f.targets) : f.targets[j] = x]
             ELSE val[x]]
        /\ NotifyRest(t, f, val')
        /\ outdated' = outdated \cup
             {f.targets[j] : j \in {m \in 1..Len(f.targets) : val[f.targets[m]] # f.old[m]}}
  BY DEF Commit
<1>2. stack[t] # <<>> /\ Evaluating(f)
  BY DEF Commit
<1>3. f = stack[t][Len(stack[t])] /\ Len(stack[t]) \in Nat \ {0}
  BY <1>2, TopIsFrame DEF AInv, IInv
<1>4. Len(stack[t]) \in 1..Len(stack[t])
  BY <1>3
<1>5. \A j \in 1..Len(f.targets) : f.old[j] = val[f.targets[j]]
  <2> DEFINE e == Len(stack[t])
  <2>1. e \in 1..Len(stack[t]) /\ Evaluating(stack[t][e])
    BY <1>2, <1>3, <1>4
  <2>2. \A j \in 1..Len(stack[t][e].targets) : stack[t][e].old[j] = val[stack[t][e].targets[j]]
    <3> HIDE DEF e
    <3> QED
      BY <2>1 DEF AInv, Alone, SavedOldIsCurrent
  <2>3. QED
    BY <1>3, <2>2
<1>6. outdated' = {}
  BY <1>1, <1>5 DEF AInv, Alone
<1>7. \A u \in Threads : \A d \in 1..Len(stack[u]) :
        Evaluating(stack[u][d]) => <<u, d>> = <<t, Len(stack[t])>>
  BY <1>2, <1>3, <1>4 DEF AInv, Alone
<1>8. val' \in [States -> Values]
  <2>1. ASSUME NEW x \in States, \E j \in 1..Len(f.targets) : f.targets[j] = x
        PROVE  new[CHOOSE j \in 1..Len(f.targets) : f.targets[j] = x] \in Values
    BY <2>1
  <2>2. QED
    BY <1>1, <2>1 DEF AInv, IInv, TypeOK
<1>9. OthersStay(t) /\ NoneBegins(t)
  BY <1>1, <1>2, <1>8, NotifyRestEffect DEF AInv, IInv
<1>10. NoneEvaluating'
  BY <1>7, <1>9 DEF NoneEvaluating, OthersStay, NoneBegins, Evaluating
<1>11. QED
  BY <1>6, <1>10, NoneEvaluatingAlone

LEMMA WatcherReturnsAlone ==
  ASSUME AInv, ~RhsRunsCode, NEW t \in Threads, WatcherReturns(t)
  PROVE  Alone'
<1> DEFINE f == Top(t)
<1>1. /\ stack[t] # <<>> /\ f.k # 0
      /\ UNCHANGED <<val, outdated>>
      /\ NoneEvaluating
  BY DEF WatcherReturns, Evaluating, UserCode, NoneEvaluating
<1>2. /\ f \in Frame /\ FrameOK(f) /\ Len(f.targets) \in Nat
      /\ f.k \in 1..Len(f.targets) /\ f.k > 0 /\ f.targets[f.k] \in States
  <2>1. f \in Frame /\ FrameOK(f) /\ Len(f.targets) \in Nat /\ f.k \in Nat
    BY <1>1, TopIsFrame DEF AInv, IInv
  <2>2. f.k \in 1..Len(f.targets) /\ f.k > 0
    BY <1>1, <2>1 DEF FrameOK
  <2>3. QED
    BY <2>1, <2>2, TargetsAreStates
<1>3. val \in [States -> Values]
  BY DEF AInv, IInv, TypeOK
<1>4. CASE f.i < Len(watchers[f.targets[f.k]]) /\ Calls(t, f, f.k, f.i + 1, val)
  <2>1. f.i + 1 \in 1..Len(watchers[f.targets[f.k]])
    <3>1. Len(watchers[f.targets[f.k]]) \in Nat
      BY <1>2 DEF AInv, IInv, TypeOK
    <3>2. QED
      BY <1>2, <1>4, <3>1 DEF FrameOK
  <2>2. Called(t, f.k, f.i + 1, val)
    BY <1>1, <1>2, <1>3, <1>4, <2>1, CallsEffect DEF AInv, IInv
  <2>3. OthersStay(t) /\ NoneBegins(t)
    BY <1>2, <2>2 DEF Called, OthersStay, NoneBegins
  <2>4. NoneEvaluating'
    BY <1>1, <2>3 DEF NoneEvaluating, OthersStay, NoneBegins, Evaluating
  <2>5. QED
    BY <1>1, <2>4, NoneEvaluatingAlone DEF AInv, Alone
<1>5. CASE NotifyRest(t, f, val)
  <2>1. OthersStay(t) /\ NoneBegins(t)
    BY <1>1, <1>3, <1>5, NotifyRestEffect DEF AInv, IInv
  <2>2. NoneEvaluating'
    BY <1>1, <2>1 DEF NoneEvaluating, OthersStay, NoneBegins, Evaluating
  <2>3. QED
    BY <1>1, <2>2, NoneEvaluatingAlone DEF AInv, Alone
<1>6. QED
  BY <1>4, <1>5 DEF WatcherReturns

LEMMA FailAlone ==
  ASSUME AInv, ~RhsRunsCode, NEW t \in Threads, NEW d \in 0..(MaxDepth - 1), Fail(t, d)
  PROVE  Alone'
<1>1. d \in Nat /\ d < Len(stack[t]) /\ Len(stack[t]) \in Nat
  BY StatesAssumption DEF Fail, AInv, IInv, TypeOK
<1>2. UNCHANGED <<val, outdated>> /\ stack' = [stack EXCEPT ![t] = SubSeq(stack[t], 1, d)]
  BY DEF Fail
<1>3. /\ Len(stack'[t]) = d
      /\ \A e \in 1..d : stack'[t][e] = stack[t][e]
      /\ \A u \in Threads : u # t => stack'[u] = stack[u]
  BY <1>1, <1>2, PopEffect DEF AInv, IInv
<1>4. \A u \in Threads : \A e \in 1..Len(stack'[u]) :
        e \in 1..Len(stack[u]) /\ stack'[u][e] = stack[u][e]
  BY <1>1, <1>3
<1>5. SavedOldIsCurrent'
  <2> SUFFICES ASSUME NEW u \in Threads, NEW e \in 1..Len(stack'[u]), Evaluating(stack'[u][e]),
                      NEW j \in 1..Len(stack'[u][e].targets)
               PROVE  stack'[u][e].old[j] = val'[stack'[u][e].targets[j]]
    BY DEF SavedOldIsCurrent, Evaluating
  <2>1. e \in 1..Len(stack[u]) /\ stack'[u][e] = stack[u][e]
    BY <1>4
  <2>2. Evaluating(stack[u][e]) /\ j \in 1..Len(stack[u][e].targets)
    BY <2>1
  <2>3. stack[u][e].old[j] = val[stack[u][e].targets[j]]
    BY <2>1, <2>2 DEF AInv, Alone, SavedOldIsCurrent
  <2>4. QED
    BY <1>2, <2>1, <2>3
<1>6. QED
  BY <1>2, <1>4, <1>5 DEF AInv, Alone, Evaluating

\* Every step of a program whose right-hand sides run no code keeps Alone.
LEMMA NextAlone == ~RhsRunsCode /\ AInv /\ [Next]_vars => Alone'
<1> SUFFICES ASSUME ~RhsRunsCode, AInv, [Next]_vars PROVE Alone'
  OBVIOUS
<1>1. ASSUME NEW t \in Threads, NEW targets \in TargetLists, Assign(t, targets)
      PROVE  Alone'
  BY <1>1, SaveOldAlone DEF Assign
<1>2. ASSUME NEW t \in Threads, NEW x \in States, CompoundAssign(t, x)
      PROVE  Alone'
  BY <1>2, SaveOldAlone, StatesAssumption DEF CompoundAssign
<1>3. ASSUME NEW t \in Threads, NEW x \in States, NullishAssign(t, x)
      PROVE  Alone'
  BY <1>3, SaveOldAlone, StatesAssumption DEF NullishAssign
<1>4. ASSUME NEW t \in Threads, Commit(t) PROVE Alone'
  BY <1>4, CommitAlone
<1>5. ASSUME NEW t \in Threads, WatcherReturns(t) PROVE Alone'
  BY <1>5, WatcherReturnsAlone
<1>6. ASSUME NEW t \in Threads, NEW d \in 0..(MaxDepth - 1), Fail(t, d) PROVE Alone'
  BY <1>6, FailAlone
<1>7. ASSUME NEW x \in States, Watch(x) PROVE Alone'
  BY <1>7 DEF Watch, AInv, Alone, SavedOldIsCurrent
<1>8. CASE UNCHANGED vars
  BY <1>8 DEF vars, AInv, Alone, SavedOldIsCurrent
<1>9. QED
  BY <1>1, <1>2, <1>3, <1>4, <1>5, <1>6, <1>7, <1>8 DEF Next

(* The old value an assignment compares with is the value it overwrites, if *)
(* right-hand sides run no code: nothing can happen between the two.        *)
THEOREM SafeSavedOldIsCurrent == Spec => []SavedOldIsCurrent
<1>1. CASE RhsRunsCode
  <2>1. SavedOldIsCurrent
    BY <1>1 DEF SavedOldIsCurrent
  <2>2. QED
    BY <2>1, PTL
<1>2. CASE ~RhsRunsCode
  <2>1. Init => AInv
    BY InitInv DEF Init, AInv, Alone, SavedOldIsCurrent
  <2>2. AInv /\ [Next]_vars => AInv'
    BY <1>2, NextInv, NextAlone DEF AInv
  <2>3. AInv => SavedOldIsCurrent
    BY DEF AInv, Alone
  <2>4. QED
    BY <2>1, <2>2, <2>3, PTL DEF Spec
<1>3. QED
  BY <1>1, <1>2

(* The documented promise, with no exception but errors, for every program  *)
(* whose right-hand sides run no code.                                      *)
THEOREM SafeChangesAreNotified ==
  ASSUME ~RhsRunsCode
  PROVE  Spec => []ChangesAreNotified
<1>1. Init => AInv
  BY InitInv DEF Init, AInv, Alone, SavedOldIsCurrent
<1>2. AInv /\ [Next]_vars => AInv'
  BY NextInv, NextAlone DEF AInv
<1>3. AInv => ChangesAreNotified
  BY InvCaughtUp DEF AInv, Alone, WatchersCaughtUp, ChangesAreNotified
<1>4. QED
  BY <1>1, <1>2, <1>3, PTL DEF Spec

=============================================================================
