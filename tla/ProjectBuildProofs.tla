------------------------- MODULE ProjectBuildProofs -------------------------
(* Theorems about DependencyCheck and ProjectBuild, for every set of files, *)
(* every list of requires and of outputs, and every save.  First what a     *)
(* search that passes, and a reported cycle, mean; then that a build makes  *)
(* that search its first step, writes nothing before every file is          *)
(* compiled, and compiles no circular requires unless a file was saved in   *)
(* between.                                                                 *)
EXTENDS ProjectBuild, SequenceTheorems, TLAPS

-----------------------------------------------------------------------------
(* The inductive invariant.  While the search runs, the paths of the stack  *)
(* are the Visiting ones, each requires the next, and what a path on the    *)
(* stack requires is visited, still to be followed, or the next path.       *)
VisitingOnStack ==
  \A p \in Paths : states[p] = "Visiting" <=> \E d \in 1..Len(stack) : stack[d].path = p

OnStackOnce ==
  \A d, e \in 1..Len(stack) : stack[d].path = stack[e].path => d = e

Chain == \A d \in 1..(Len(stack) - 1) : Requires(stack[d].path, stack[d + 1].path)

Followed ==
  \A d \in 1..Len(stack) : \A q \in ToSet(read[stack[d].path]) :
    \/ states[q] = "Visited"
    \/ q \in ToSet(stack[d].todo)
    \/ d < Len(stack) /\ q = stack[d + 1].path

TodoIsRequired ==
  \A d \in 1..Len(stack) : ToSet(stack[d].todo) \subseteq ToSet(read[stack[d].path])

AskedIsKnown ==
  \A p \in asked : states[p] = "Visited" \/ (stack # <<>> /\ p = stack[1].path)

VisitedIsClosed == \A p \in VisitedPaths : ToSet(read[p]) \subseteq VisitedPaths

IInv ==
  /\ TypeOK
  /\ result = "checking" =>
       /\ VisitingOnStack
       /\ OnStackOnce
       /\ Chain
       /\ Followed
       /\ TodoIsRequired
       /\ AskedIsKnown
  /\ VisitedIsClosed
  /\ Acyclic(VisitedPaths)
  /\ result = "ok" => asked \subseteq VisitedPaths
  /\ ReportedIsCycle

-----------------------------------------------------------------------------
\* A path whose requires are all in a closed acyclic set can join it.
LEMMA AddLeaf ==
  ASSUME NEW V, NEW p, p \notin V, Acyclic(V),
         \A v \in V : ToSet(read[v]) \subseteq V, ToSet(read[p]) \subseteq V
  PROVE  Acyclic(V \cup {p})
<1> SUFFICES ASSUME NEW S \in SUBSET (V \cup {p}), S # {}
             PROVE  \E x \in S : \A q \in S : ~Requires(x, q)
    BY DEF Acyclic
<1>1. CASE S \cap V = {}
  <2>1. p \in S /\ \A q \in S : q \notin V
      BY <1>1
  <2> QED
      BY <2>1 DEF Requires
<1>2. CASE S \cap V # {}
  <2>1. PICK x \in S \cap V : \A q \in S \cap V : ~Requires(x, q)
      BY <1>2, S \cap V \in SUBSET V DEF Acyclic
  <2>2. \A q \in S : q \notin V => ~Requires(x, q)
      BY DEF Requires
  <2> QED
      BY <2>1, <2>2
<1> QED
    BY <1>1, <1>2

\* What a sequence holds, after its head and before its last element.
LEMMA HeadTail ==
  ASSUME NEW S, NEW s \in Seq(S), s # <<>>
  PROVE  /\ Head(s) \in S
         /\ Head(s) \in ToSet(s)
         /\ Tail(s) \in Seq(S)
         /\ \A q \in ToSet(s) : q = Head(s) \/ q \in ToSet(Tail(s))
         /\ ToSet(Tail(s)) \subseteq ToSet(s)
<1>1. Len(s) \in Nat /\ Len(s) > 0 /\ DOMAIN s = 1..Len(s)
    BY EmptySeq, LenProperties
<1>2. /\ Tail(s) \in Seq(S) /\ Len(Tail(s)) = Len(s) - 1
      /\ \A i \in 1..Len(Tail(s)) : Tail(s)[i] = s[i + 1]
    BY HeadTailProperties
<1>3. Head(s) = s[1] /\ 1 \in DOMAIN s
    BY <1>1
<1>4. DOMAIN Tail(s) = 1..(Len(s) - 1)
    BY <1>2, LenProperties
<1>5. ASSUME NEW i \in 1..Len(s), i # 1 PROVE s[i] \in ToSet(Tail(s))
  <2>1. i - 1 \in DOMAIN Tail(s) /\ Tail(s)[i - 1] = s[i]
      BY <1>1, <1>2, <1>4, <1>5
  <2> QED
      BY <2>1 DEF ToSet
<1>6. ASSUME NEW i \in 1..(Len(s) - 1) PROVE s[i + 1] \in ToSet(s)
  <2>1. i + 1 \in DOMAIN s
      BY <1>1
  <2> QED
      BY <2>1 DEF ToSet
<1>7. \A q \in ToSet(s) : q = Head(s) \/ q \in ToSet(Tail(s))
    BY <1>1, <1>3, <1>5 DEF ToSet
<1>8. ToSet(Tail(s)) \subseteq ToSet(s)
    BY <1>2, <1>4, <1>6 DEF ToSet
<1>9. Head(s) \in ToSet(s)
    BY <1>3 DEF ToSet
<1> QED
    BY <1>2, <1>3, <1>7, <1>8, <1>9, HeadTailProperties

\* Keeping a prefix of a sequence.
LEMMA KeepPrefix ==
  ASSUME NEW S, NEW s \in Seq(S), NEW m \in Nat, m <= Len(s),
         NEW q, q = SubSeq(s, 1, m)
  PROVE  /\ q \in Seq(S)
         /\ Len(q) = m
         /\ \A d \in 1..m : q[d] = s[d]
OBVIOUS

\* What is left of a sequence without its last element.
LEMMA FrontOf ==
  ASSUME NEW S, NEW s \in Seq(S), s # <<>>
  PROVE  /\ Front(s) \in Seq(S)
         /\ Len(s) \in Nat /\ Len(s) > 0
         /\ Len(Front(s)) = Len(s) - 1
         /\ \A i \in 1..(Len(s) - 1) : Front(s)[i] = s[i]
<1>1. Len(s) \in Nat /\ Len(s) > 0
    OBVIOUS
<1> DEFINE q == SubSeq(s, 1, Len(s) - 1)
<1>2. q \in Seq(S) /\ Len(q) = Len(s) - 1 /\ \A i \in 1..(Len(s) - 1) : q[i] = s[i]
  <2> DEFINE m == Len(s) - 1
  <2>1. m \in Nat /\ m <= Len(s) /\ q = SubSeq(s, 1, m)
      BY <1>1
  <2> HIDE DEF m, q
  <2>2. q \in Seq(S) /\ Len(q) = m /\ \A d \in 1..m : q[d] = s[d]
      BY <2>1, KeepPrefix
  <2> QED
      BY <2>2 DEF m
<1>3. Front(s) = q
    BY DEF Front
<1> HIDE DEF q
<1> QED
    BY <1>1, <1>2, <1>3

-----------------------------------------------------------------------------
LEMMA InitInv == Init => IInv
<1> SUFFICES ASSUME Init PROVE IInv
    OBVIOUS
<1>1. TypeOK
    BY ContentsAssumption DEF Init, TypeOK
<1>2. VisitedPaths = {}
    BY DEF Init, VisitedPaths
<1>3. Acyclic(VisitedPaths) /\ VisitedIsClosed
    BY <1>2 DEF Acyclic, VisitedIsClosed
<1>4. Len(stack) = 0
    BY DEF Init
<1>5. VisitingOnStack /\ OnStackOnce /\ Chain /\ Followed /\ TodoIsRequired /\ AskedIsKnown
    BY <1>4 DEF Init, VisitingOnStack, OnStackOnce, Chain, Followed, TodoIsRequired, AskedIsKnown
<1> QED
    BY <1>1, <1>3, <1>5 DEF Init, IInv, ReportedIsCycle

\* The facts of a visit of p, called with the visits `below` in progress, which
\* are those of the stack but for the require that led to p.
Calling(p, below) ==
  /\ p \in Paths
  /\ below \in Seq(Frame)
  /\ Len(below) = Len(stack)
  /\ \A d \in 1..Len(below) : below[d].path = stack[d].path
  /\ \A d \in 1..Len(below) : ToSet(below[d].todo) \subseteq ToSet(read[below[d].path])
  /\ \A d \in 1..Len(below) : \A q \in ToSet(read[below[d].path]) :
       \/ states[q] = "Visited"
       \/ q \in ToSet(below[d].todo)
       \/ d < Len(below) /\ q = below[d + 1].path
       \/ d = Len(below) /\ q = p
  /\ Len(below) > 0 => Requires(below[Len(below)].path, p)
  /\ \/ asked' = asked
     \/ Len(below) = 0 /\ asked' = asked \cup {p}
  /\ entries' \in Seq(Paths)
  /\ UNCHANGED <<file, saves>>

LEMMA SkipInv ==
  ASSUME IInv, result = "checking", NEW p, NEW below, Calling(p, below), SkipVisited(p, below)
  PROVE  IInv'
<1> USE DEF Calling, SkipVisited
<1>1. stack' = below /\ UNCHANGED <<states, read, result, cycle>>
    OBVIOUS
<1>2. TypeOK'
    BY DEF IInv, TypeOK
<1>3. VisitedPaths' = VisitedPaths
    BY DEF VisitedPaths
<1>4. VisitedIsClosed' /\ Acyclic(VisitedPaths)' /\ ReportedIsCycle'
    BY <1>3 DEF IInv, VisitedIsClosed, Acyclic, Requires, ReportedIsCycle
<1>5. Len(stack) \in Nat
    BY LenProperties DEF IInv, TypeOK
<1>6. VisitingOnStack' /\ OnStackOnce'
    BY DEF IInv, VisitingOnStack, OnStackOnce
<1>7. Chain'
    BY <1>5 DEF IInv, Chain, Requires
<1>8. Followed' /\ TodoIsRequired'
    BY <1>5 DEF Followed, TodoIsRequired
<1>9. AskedIsKnown'
  <2>1. \A q \in asked : states[q] = "Visited" \/ (Len(stack) > 0 /\ q = stack[1].path)
      BY <1>5, EmptySeq DEF IInv, AskedIsKnown, TypeOK
  <2>2. Len(stack) > 0 => below # <<>> /\ below[1].path = stack[1].path
      BY <1>5, EmptySeq
  <2> QED
      BY <2>1, <2>2 DEF AskedIsKnown
<1> QED
    BY <1>1, <1>2, <1>4, <1>6, <1>7, <1>8, <1>9 DEF IInv

LEMMA ReportInv ==
  ASSUME IInv, result = "checking", NEW p, NEW below, Calling(p, below), ReportCycle(p, below)
  PROVE  IInv'
<1>1. UNCHANGED <<states, read, file, saves>> /\ result' = "cycle" /\ stack' = below
    BY DEF Calling, ReportCycle
<1>0. /\ p \in Paths /\ below \in Seq(Frame) /\ Len(below) = Len(stack)
      /\ \A d \in 1..Len(below) : below[d].path = stack[d].path
      /\ Len(below) > 0 => Requires(below[Len(below)].path, p)
      /\ asked' \subseteq asked \cup {p} /\ entries' \in Seq(Paths)
    BY DEF Calling
<1>2. PICK start \in 1..Len(below) :
         /\ below[start].path = p
         /\ cycle' = Append([d \in 1..(Len(below) + 1 - start) |-> below[start + d - 1].path], p)
    BY DEF ReportCycle
<1> DEFINE n == Len(below) + 1 - start
           paths == [d \in 1..n |-> below[start + d - 1].path]
<1>3. Len(below) \in Nat /\ n \in Nat /\ n >= 1
    BY <1>0, <1>2, LenProperties
<1>4. \A d \in 1..n : start + d - 1 \in 1..Len(below) /\ paths[d] = below[start + d - 1].path
    BY <1>3
<1>5. ASSUME NEW d \in 1..Len(below) PROVE below[d].path \in Paths
  <2>1. below[d] \in Frame
      BY <1>0, ElementOfSeq
  <2> QED
      BY <2>1 DEF Frame
<1>6. paths \in Seq(Paths) /\ Len(paths) = n
  <2>1. paths \in [1..n -> Paths]
      BY <1>4, <1>5
  <2> HIDE DEF paths, n
  <2>2. paths \in Seq(Paths)
      BY <1>3, <2>1, SeqDef
  <2>3. DOMAIN paths = 1..n /\ DOMAIN paths = 1..Len(paths) /\ Len(paths) \in Nat
      BY <2>1, <2>2, LenProperties
  <2> QED
      BY <1>3, <2>2, <2>3
<1>7. /\ cycle' \in Seq(Paths) /\ Len(cycle') = n + 1
      /\ \A i \in 1..n : cycle'[i] = below[start + i - 1].path
      /\ cycle'[n + 1] = p
  <2>1. cycle' = Append(paths, p)
      BY <1>2
  <2> HIDE DEF paths
  <2>2. /\ cycle' \in Seq(Paths) /\ Len(cycle') = n + 1
        /\ \A i \in 1..n : cycle'[i] = paths[i]
        /\ cycle'[n + 1] = p
      BY <1>0, <1>6, <2>1, AppendProperties
  <2> QED
      BY <1>4, <2>2
<1>8. TypeOK'
    BY <1>0, <1>1, <1>7 DEF IInv, TypeOK
<1>9. VisitedPaths' = VisitedPaths
    BY <1>1 DEF VisitedPaths
<1>10. VisitedIsClosed' /\ Acyclic(VisitedPaths)'
    BY <1>1, <1>9 DEF IInv, VisitedIsClosed, Acyclic, Requires
<1>11. ASSUME NEW i \in 1..n PROVE Requires(cycle[i], cycle[i + 1])'
  <2>1. CASE i = n
    <3>1. start + i - 1 = Len(below)
        BY <1>3, <2>1
    <3> QED
        BY <1>0, <1>1, <1>3, <1>7, <2>1, <3>1, cycle'[i] = below[Len(below)].path, cycle'[i + 1] = p,
           Requires(below[Len(below)].path, p) DEF Requires
  <2>2. CASE i # n
    <3>1. i + 1 \in 1..n /\ start + i - 1 \in 1..(Len(stack) - 1) /\ start + (i + 1) - 1 = (start + i - 1) + 1
        BY <1>0, <1>3, <2>2
    <3>2. Requires(stack[start + i - 1].path, stack[(start + i - 1) + 1].path)
        BY <3>1 DEF IInv, Chain
    <3>3. cycle'[i] = stack[start + i - 1].path /\ cycle'[i + 1] = stack[(start + i - 1) + 1].path
        BY <1>0, <1>3, <1>4, <1>7, <3>1
    <3> QED
        BY <1>1, <3>2, <3>3 DEF Requires
  <2> QED
      BY <2>1, <2>2
<1>12. ASSUME NEW i \in 1..n, NEW j \in 1..n, cycle'[i] = cycle'[j] PROVE i = j
  <2>1. stack[start + i - 1].path = stack[start + j - 1].path
      BY <1>0, <1>4, <1>7, <1>12
  <2>2. start + i - 1 = start + j - 1
      BY <1>0, <1>4, <2>1 DEF IInv, OnStackOnce
  <2> QED
      BY <1>3, <2>2
<1>13. cycle'[1] = p
    BY <1>2, <1>3, <1>7
<1>14. ReportedIsCycle'
  <2>1. Len(cycle') - 1 = n /\ Len(cycle') >= 2
      BY <1>3, <1>7
  <2> QED
      BY <1>3, <1>7, <1>11, <1>12, <1>13, <2>1 DEF ReportedIsCycle
<1> QED
    BY <1>1, <1>8, <1>10, <1>14 DEF IInv

LEMMA EnterInv ==
  ASSUME IInv, result = "checking", NEW p, NEW below, Calling(p, below), Enter(p, below)
  PROVE  IInv'
<1>1. /\ p \in Paths /\ below \in Seq(Frame) /\ Len(below) = Len(stack)
      /\ \A d \in 1..Len(below) : below[d].path = stack[d].path
      /\ \A d \in 1..Len(below) : ToSet(below[d].todo) \subseteq ToSet(read[below[d].path])
      /\ \A d \in 1..Len(below) : \A q \in ToSet(read[below[d].path]) :
           \/ states[q] = "Visited"
           \/ q \in ToSet(below[d].todo)
           \/ d < Len(below) /\ q = below[d + 1].path
           \/ d = Len(below) /\ q = p
      /\ Len(below) > 0 => Requires(below[Len(below)].path, p)
      /\ entries' \in Seq(Paths) /\ UNCHANGED <<file, saves>>
    BY DEF Calling
<1>2. asked' = asked \/ (Len(below) = 0 /\ asked' = asked \cup {p})
    BY DEF Calling
<1>3. states[p] = "New" /\ states' = [states EXCEPT ![p] = "Visiting"] /\ UNCHANGED cycle
    BY DEF Enter
<1>4. Len(stack) \in Nat /\ stack \in Seq(Frame) /\ states \in [Paths -> {"New", "Visiting", "Visited"}]
      /\ read \in [Paths -> Seq(Paths)]
    BY LenProperties DEF IInv, TypeOK
<1>5. \A q \in Paths \ {p} : states'[q] = states[q]
    BY <1>3, <1>4
<1>6. states'[p] = "Visiting" /\ VisitedPaths' = VisitedPaths /\ p \notin VisitedPaths
    BY <1>1, <1>3, <1>4 DEF VisitedPaths
<1>7. \/ read' = read
      \/ file[p] \in Seq(Paths) /\ read' = [read EXCEPT ![p] = file[p]]
    BY <1>1, ContentsAssumption DEF Enter, IInv, TypeOK
<1>8. read' \in [Paths -> Seq(Paths)] /\ \A q \in Paths \ {p} : read'[q] = read[q]
    BY <1>4, <1>7
<1>9. \A q \in VisitedPaths : q \in Paths \ {p}
    BY <1>6 DEF VisitedPaths
<1>10. VisitedIsClosed' /\ Acyclic(VisitedPaths)'
  <2>1. VisitedIsClosed'
      BY <1>6, <1>8, <1>9 DEF IInv, VisitedIsClosed
  <2>2. ASSUME NEW S \in SUBSET VisitedPaths, S # {}
        PROVE  \E x \in S : \A q \in S : ~(q \in ToSet(read'[x]))
    <3>1. PICK x \in S : \A q \in S : ~(q \in ToSet(read[x]))
        BY <2>2 DEF IInv, Acyclic, Requires
    <3> QED
        BY <1>8, <1>9, <3>1
  <2> QED
      BY <1>6, <2>1, <2>2 DEF Acyclic, Requires
<1>11. asked' \subseteq Paths
    BY <1>1, <1>2 DEF IInv, TypeOK
<1>12. CASE file[p] = Unusable
  <2>1. result' = "error" /\ stack' = below /\ read' = read
      BY <1>12 DEF Enter
  <2>2. TypeOK'
      BY <1>1, <1>3, <1>4, <1>8, <1>11, <2>1 DEF IInv, TypeOK
  <2> QED
      BY <1>10, <2>1, <2>2 DEF IInv, ReportedIsCycle
<1>13. CASE file[p] # Unusable
  <2> DEFINE f == [path |-> p, todo |-> file[p]]
             n == Len(stack)
  <2>1. stack' = Append(below, f) /\ read' = [read EXCEPT ![p] = file[p]] /\ result' = result
      BY <1>13 DEF Enter
  <2>2. file[p] \in Seq(Paths) /\ f \in Frame /\ f.path = p /\ f.todo = file[p]
      BY <1>1, <1>13, ContentsAssumption DEF IInv, TypeOK, Frame
  <2>3. read'[p] = file[p]
      BY <1>1, <1>4, <2>1
  <2> HIDE DEF f
  <2>4. /\ stack' \in Seq(Frame) /\ stack' # <<>> /\ Len(stack') = n + 1
        /\ \A d \in 1..n : stack'[d] = below[d]
        /\ stack'[n + 1] = f
      BY <1>1, <2>1, <2>2, AppendProperties
  <2>5. \A d \in 1..n : stack'[d].path = stack[d].path /\ below[d].path = stack[d].path
      BY <1>1, <2>4
  <2>6. \A d \in 1..(n + 1) : d \in 1..n \/ d = n + 1
      BY <1>4
  <2>7. TypeOK'
      BY <1>1, <1>3, <1>4, <1>8, <1>11, <2>1, <2>4 DEF IInv, TypeOK
  <2>8. \A d \in 1..n : stack[d].path \in Paths /\ stack[d].path # p /\ states[stack[d].path] = "Visiting"
    <3>1. ASSUME NEW d \in 1..n PROVE stack[d].path \in Paths
      <4>1. stack[d] \in Frame
          BY <1>4, ElementOfSeq
      <4> QED
          BY <4>1 DEF Frame
    <3> QED
        BY <1>3, <3>1 DEF IInv, VisitingOnStack
  <2>9. VisitingOnStack'
    <3>1. ASSUME NEW q \in Paths
          PROVE  states'[q] = "Visiting" <=> \E d \in 1..(n + 1) : stack'[d].path = q
      <4>1. CASE q = p
        <5>1. n + 1 \in 1..(n + 1)
            BY <1>4
        <5>2. stack'[n + 1].path = q
            BY <2>2, <2>4, <4>1
        <5> QED
            BY <1>6, <4>1, <5>1, <5>2
      <4>2. CASE q # p
        <5>1. states'[q] = "Visiting" <=> \E d \in 1..n : stack[d].path = q
            BY <1>5, <4>2 DEF IInv, VisitingOnStack
        <5>2. (\E d \in 1..n : stack[d].path = q) <=> \E d \in 1..(n + 1) : stack'[d].path = q
          <6>1. \A d \in 1..n : d \in 1..(n + 1)
              BY <1>4
          <6>2. stack'[n + 1].path # q
              BY <2>2, <2>4, <4>2
          <6> QED
              BY <2>5, <2>6, <6>1, <6>2
        <5> QED
            BY <5>1, <5>2
      <4> QED
          BY <4>1, <4>2
    <3> QED
        BY <2>4, <3>1 DEF VisitingOnStack
  <2>10. OnStackOnce'
    <3>1. ASSUME NEW d \in 1..(n + 1), NEW e \in 1..(n + 1), stack'[d].path = stack'[e].path
          PROVE  d = e
      <4>1. CASE d \in 1..n /\ e \in 1..n
          BY <2>5, <3>1, <4>1 DEF IInv, OnStackOnce
      <4>2. CASE d = n + 1 \/ e = n + 1
          BY <2>2, <2>4, <2>5, <2>6, <2>8, <3>1, <4>2
      <4> QED
          BY <2>6, <4>1, <4>2
    <3> QED
        BY <2>4, <3>1 DEF OnStackOnce
  <2>11. Chain'
    <3>1. ASSUME NEW d \in 1..n PROVE stack'[d + 1].path \in ToSet(read'[stack'[d].path])
      <4>1. stack'[d].path = stack[d].path /\ read'[stack'[d].path] = read[stack[d].path]
          BY <1>8, <2>5, <2>8
      <4>2. CASE d = n
        <5>1. n > 0 /\ below[n].path = stack[n].path /\ Requires(below[n].path, p)
            BY <1>1, <1>4, <4>2
        <5> QED
            BY <2>2, <2>4, <4>1, <4>2, <5>1 DEF Requires
      <4>3. CASE d # n
        <5>1. d \in 1..(Len(stack) - 1) /\ d + 1 \in 1..n
            BY <1>4, <4>3
        <5>2. Requires(stack[d].path, stack[d + 1].path)
            BY <5>1 DEF IInv, Chain
        <5> QED
            BY <2>5, <4>1, <5>1, <5>2 DEF Requires
      <4> QED
          BY <4>2, <4>3
    <3>2. Len(stack') - 1 = n
        BY <1>4, <2>4
    <3> QED
        BY <3>1, <3>2 DEF Chain, Requires
  <2>12. Followed'
    <3>1. ASSUME NEW d \in 1..(n + 1), NEW q \in ToSet(read'[stack'[d].path])
          PROVE  \/ states'[q] = "Visited"
                 \/ q \in ToSet(stack'[d].todo)
                 \/ d < n + 1 /\ q = stack'[d + 1].path
      <4>1. CASE d = n + 1
          BY <2>2, <2>3, <2>4, <3>1, <4>1
      <4>2. CASE d \in 1..n
        <5>1. stack'[d] = below[d] /\ read'[stack'[d].path] = read[below[d].path]
            BY <1>8, <2>4, <2>5, <2>8, <4>2
        <5>2. \/ states[q] = "Visited"
              \/ q \in ToSet(below[d].todo)
              \/ d < Len(below) /\ q = below[d + 1].path
              \/ d = Len(below) /\ q = p
            BY <1>1, <3>1, <4>2, <5>1
        <5>3. CASE states[q] = "Visited"
          <6>1. read[below[d].path] \in Seq(Paths)
              BY <1>4, <2>5, <2>8, <4>2
          <6>2. q \in Paths
              BY <3>1, <5>1, <6>1, LenProperties, ElementOfSeq DEF ToSet
          <6> QED
              BY <1>3, <1>5, <5>3, <6>2
        <5>4. CASE d < Len(below) /\ q = below[d + 1].path
          <6>1. d + 1 \in 1..n
              BY <1>1, <1>4, <4>2, <5>4
          <6> QED
              BY <1>4, <2>4, <4>2, <5>4, <6>1
        <5>5. CASE d = Len(below) /\ q = p
            BY <1>1, <1>4, <2>2, <2>4, <5>5
        <5> QED
            BY <5>1, <5>2, <5>3, <5>4, <5>5
      <4> QED
          BY <2>6, <4>1, <4>2
    <3> QED
        BY <2>4, <3>1 DEF Followed
  <2>13. TodoIsRequired'
    <3>1. ASSUME NEW d \in 1..(n + 1)
          PROVE  ToSet(stack'[d].todo) \subseteq ToSet(read'[stack'[d].path])
      <4>1. CASE d = n + 1
          BY <2>2, <2>3, <2>4, <4>1
      <4>2. CASE d \in 1..n
        <5>1. stack'[d] = below[d] /\ read'[stack'[d].path] = read[below[d].path]
            BY <1>8, <2>4, <2>5, <2>8, <4>2
        <5> QED
            BY <1>1, <4>2, <5>1
      <4> QED
          BY <2>6, <4>1, <4>2
    <3> QED
        BY <2>4, <3>1 DEF TodoIsRequired
  <2>14. AskedIsKnown'
    <3>1. ASSUME NEW q \in asked' PROVE states'[q] = "Visited" \/ q = stack'[1].path
      <4>1. CASE q \in asked
        <5>1. CASE states[q] = "Visited"
          <6>1. q \in Paths
              BY <4>1 DEF IInv, TypeOK
          <6> QED
              BY <1>3, <1>5, <5>1, <6>1
        <5>2. CASE stack # <<>> /\ q = stack[1].path
          <6>1. 1 \in 1..n
              BY <1>4, <5>2, EmptySeq
          <6> QED
              BY <2>5, <5>2, <6>1
        <5> QED
            BY <4>1, <5>1, <5>2 DEF IInv, AskedIsKnown
      <4>2. CASE Len(below) = 0 /\ q = p
          BY <1>1, <2>2, <2>4, <4>2
      <4> QED
          BY <1>2, <3>1, <4>1, <4>2
    <3> QED
        BY <2>4, <3>1 DEF AskedIsKnown
  <2> QED
      BY <1>3, <1>10, <2>1, <2>7, <2>9, <2>10, <2>11, <2>12, <2>13, <2>14 DEF IInv, ReportedIsCycle
<1> QED
    BY <1>12, <1>13

LEMMA VisitInv ==
  ASSUME IInv, result = "checking", NEW p, NEW below, Calling(p, below), Visit(p, below)
  PROVE  IInv'
BY SkipInv, ReportInv, EnterInv DEF Visit

LEMMA VisitEntryInv == IInv /\ VisitEntry => IInv'
<1> SUFFICES ASSUME IInv, VisitEntry PROVE IInv'
    OBVIOUS
<1>1. /\ Head(entries) \in Paths /\ Tail(entries) \in Seq(Paths)
    BY HeadTail DEF VisitEntry, IInv, TypeOK
<1>2. stack = <<>> /\ stack \in Seq(Frame) /\ Len(stack) = 0
    BY DEF VisitEntry, IInv, TypeOK
<1>3. Calling(Head(entries), stack)
    BY <1>1, <1>2 DEF VisitEntry, Calling
<1> QED
    BY <1>3, VisitInv DEF VisitEntry

LEMMA VisitRequiredInv == IInv /\ VisitRequired => IInv'
<1> SUFFICES ASSUME IInv, VisitRequired PROVE IInv'
    OBVIOUS
<1> DEFINE n == Len(stack)
           p == Head(Top.todo)
           below == [stack EXCEPT ![n].todo = Tail(@)]
<1>1. stack \in Seq(Frame) /\ n \in Nat /\ n > 0 /\ DOMAIN stack = 1..n
    BY LenProperties, EmptySeq DEF VisitRequired, IInv, TypeOK
<1>2. Top = stack[n] /\ stack[n] \in Frame
    BY <1>1, ElementOfSeq DEF Top
<1>3. /\ p \in Paths /\ p \in ToSet(stack[n].todo)
      /\ Tail(stack[n].todo) \in Seq(Paths)
      /\ \A q \in ToSet(stack[n].todo) : q = p \/ q \in ToSet(Tail(stack[n].todo))
      /\ ToSet(Tail(stack[n].todo)) \subseteq ToSet(stack[n].todo)
    BY <1>2, HeadTail DEF VisitRequired, Frame
<1> DEFINE g == [stack[n] EXCEPT !.todo = Tail(@)]
<1>4. g \in Frame /\ g.path = stack[n].path /\ g.todo = Tail(stack[n].todo)
    BY <1>2, <1>3 DEF Frame
<1>5. below = [stack EXCEPT ![n] = g]
    BY <1>1
<1> HIDE DEF g
<1>6. /\ below \in Seq(Frame) /\ Len(below) = n
      /\ \A d \in 1..n : below[d] = IF d = n THEN g ELSE stack[d]
  <2>1. n = Len(stack) /\ n \in 1..Len(stack)
      BY <1>1
  <2> HIDE DEF n, below
  <2> QED
      BY <1>1, <1>4, <1>5, <2>1, ExceptSeq
<1>7. \A d \in 1..n : below[d].path = stack[d].path
    BY <1>4, <1>6
<1>8. Requires(stack[n].path, p)
    BY <1>1, <1>3 DEF VisitRequired, IInv, TodoIsRequired, Requires
<1>9. \A d \in 1..n : ToSet(below[d].todo) \subseteq ToSet(read[below[d].path])
    BY <1>3, <1>4, <1>6 DEF VisitRequired, IInv, TodoIsRequired
<1>10. ASSUME NEW d \in 1..n, NEW q \in ToSet(read[below[d].path])
       PROVE  \/ states[q] = "Visited"
              \/ q \in ToSet(below[d].todo)
              \/ d < n /\ q = below[d + 1].path
              \/ d = n /\ q = p
  <2>1. \/ states[q] = "Visited"
        \/ q \in ToSet(stack[d].todo)
        \/ d < n /\ q = stack[d + 1].path
      BY <1>7, <1>10 DEF VisitRequired, IInv, Followed
  <2>2. CASE q \in ToSet(stack[d].todo)
      BY <1>3, <1>4, <1>6, <2>2
  <2>3. CASE d < n /\ q = stack[d + 1].path
    <3>1. d + 1 \in 1..n
        BY <1>1, <2>3
    <3> QED
        BY <1>7, <2>3, <3>1
  <2> QED
      BY <2>1, <2>2, <2>3
<1> HIDE DEF p, below, n
<1>11. Calling(p, below)
  <2>1. Len(below) = Len(stack) /\ Len(below) = n
      BY <1>6 DEF n
  <2>2. Requires(below[Len(below)].path, p)
      BY <1>1, <1>7, <1>8, <2>1
  <2>3. entries \in Seq(Paths) /\ UNCHANGED <<file, entries, asked, saves>>
      BY DEF VisitRequired, IInv, TypeOK
  <2> QED
      BY <1>3, <1>6, <1>7, <1>9, <1>10, <2>1, <2>2, <2>3 DEF Calling
<1>12. result = "checking" /\ Visit(p, below)
    BY DEF VisitRequired, p, below, n
<1> QED
    BY <1>11, <1>12, VisitInv

LEMMA LeaveInv == IInv /\ Leave => IInv'
<1> SUFFICES ASSUME IInv, Leave PROVE IInv'
    OBVIOUS
<1> DEFINE n == Len(stack)
           p == Top.path
<1>1. stack \in Seq(Frame) /\ stack # <<>> /\ states \in [Paths -> {"New", "Visiting", "Visited"}]
    BY DEF Leave, IInv, TypeOK
<1>2. /\ n \in Nat /\ n > 0 /\ stack' \in Seq(Frame) /\ Len(stack') = n - 1
      /\ \A d \in 1..(n - 1) : stack'[d] = stack[d]
    BY <1>1, FrontOf DEF Leave
<1>3. Top = stack[n] /\ stack[n] \in Frame /\ n \in 1..n
    BY <1>1, <1>2, ElementOfSeq DEF Top
<1>4. p = stack[n].path /\ p \in Paths /\ stack[n].todo = <<>>
    BY <1>3 DEF Frame, Leave
<1>5. /\ result = "checking" /\ states' = [states EXCEPT ![p] = "Visited"]
      /\ UNCHANGED <<file, entries, read, asked, result, cycle, saves>>
    BY DEF Leave
<1> HIDE DEF p
<1>6. states[p] = "Visiting" /\ p \notin VisitedPaths
    BY <1>3, <1>4, <1>5 DEF IInv, VisitingOnStack, VisitedPaths
<1>7. VisitedPaths' = VisitedPaths \cup {p} /\ \A q \in Paths \ {p} : states'[q] = states[q]
    BY <1>1, <1>4, <1>5 DEF VisitedPaths
<1>8. read \in [Paths -> Seq(Paths)]
    BY DEF IInv, TypeOK
<1>9. ToSet(read[p]) \subseteq VisitedPaths
  <2>1. ASSUME NEW q \in ToSet(read[p]) PROVE q \in VisitedPaths
    <3>1. q \in Paths
        BY <1>4, <1>8, <2>1, LenProperties, ElementOfSeq DEF ToSet
    <3>2. ToSet(<<>>) = {}
        BY DEF ToSet
    <3>3. \/ states[q] = "Visited"
          \/ q \in ToSet(stack[n].todo)
          \/ n < n /\ q = stack[n + 1].path
        BY <1>3, <1>4, <1>5, <2>1 DEF IInv, Followed
    <3> QED
        BY <1>2, <1>4, <3>1, <3>2, <3>3 DEF VisitedPaths
  <2> QED
      BY <2>1
<1>10. VisitedIsClosed'
    BY <1>5, <1>7, <1>9 DEF IInv, VisitedIsClosed
<1>11. Acyclic(VisitedPaths)'
  <2>1. Acyclic(VisitedPaths \cup {p})
      BY <1>6, <1>9, AddLeaf DEF IInv, VisitedIsClosed
  <2> QED
      BY <1>5, <1>7, <2>1 DEF Acyclic, Requires
<1>12. TypeOK'
    BY <1>1, <1>2, <1>4, <1>5 DEF IInv, TypeOK
<1>13. \A d \in 1..(n - 1) : d \in 1..n /\ d # n /\ stack'[d] = stack[d] /\ stack[d].path # p
    BY <1>2, <1>3, <1>4, <1>5 DEF IInv, OnStackOnce
<1>14. VisitingOnStack'
  <2>1. ASSUME NEW q \in Paths
        PROVE  states'[q] = "Visiting" <=> \E d \in 1..(n - 1) : stack'[d].path = q
    <3>1. CASE q = p
        BY <1>1, <1>5, <1>13, <3>1
    <3>2. CASE q # p
      <4>1. states'[q] = "Visiting" <=> \E d \in 1..n : stack[d].path = q
          BY <1>5, <1>7, <3>2 DEF IInv, VisitingOnStack
      <4>2. \A d \in 1..n : d \in 1..(n - 1) \/ d = n
          BY <1>2
      <4>3. (\E d \in 1..n : stack[d].path = q) <=> \E d \in 1..(n - 1) : stack'[d].path = q
          BY <1>4, <1>13, <3>2, <4>2
      <4> QED
          BY <4>1, <4>3
    <3> QED
        BY <3>1, <3>2
  <2> QED
      BY <1>2, <2>1 DEF VisitingOnStack
<1>15. OnStackOnce'
    BY <1>2, <1>5, <1>13 DEF IInv, OnStackOnce
<1>16. Chain'
  <2>1. ASSUME NEW d \in 1..((n - 1) - 1) PROVE Requires(stack'[d].path, stack'[d + 1].path)
    <3>1. d \in 1..(n - 1) /\ d + 1 \in 1..(n - 1) /\ d \in 1..(Len(stack) - 1)
        BY <1>2
    <3> QED
        BY <1>5, <1>13, <3>1 DEF IInv, Chain
  <2> QED
      BY <1>2, <1>5, <2>1 DEF Chain, Requires
<1>17. Followed' /\ TodoIsRequired'
  <2>1. ASSUME NEW d \in 1..(n - 1), NEW q \in ToSet(read[stack[d].path])
        PROVE  \/ states'[q] = "Visited"
               \/ q \in ToSet(stack[d].todo)
               \/ d < n - 1 /\ q = stack'[d + 1].path
    <3>1. \/ states[q] = "Visited"
          \/ q \in ToSet(stack[d].todo)
          \/ d < n /\ q = stack[d + 1].path
        BY <1>5, <1>13, <2>1 DEF IInv, Followed
    <3>2. CASE states[q] = "Visited"
      <4>1. stack[d] \in Frame
          BY <1>1, <1>13, ElementOfSeq
      <4>2. read[stack[d].path] \in Seq(Paths)
          BY <1>8, <4>1 DEF Frame
      <4>3. q \in Paths
          BY <2>1, <4>2, LenProperties, ElementOfSeq DEF ToSet
      <4> QED
          BY <1>6, <1>7, <3>2, <4>3
    <3>3. CASE d < n /\ q = stack[d + 1].path
      <4>1. CASE d = n - 1
        <5>1. q = p
            BY <1>2, <1>4, <3>3, <4>1
        <5> QED
            BY <1>1, <1>4, <1>5, <5>1
      <4>2. CASE d # n - 1
        <5>1. d < n - 1 /\ d + 1 \in 1..(n - 1)
            BY <1>2, <4>2
        <5> QED
            BY <1>13, <3>3, <5>1
      <4> QED
          BY <4>1, <4>2
    <3> QED
        BY <3>1, <3>2, <3>3
  <2>2. \A d \in 1..(n - 1) : ToSet(stack[d].todo) \subseteq ToSet(read[stack[d].path])
      BY <1>5, <1>13 DEF IInv, TodoIsRequired
  <2> QED
      BY <1>2, <1>5, <1>13, <2>1, <2>2 DEF Followed, TodoIsRequired
<1>18. AskedIsKnown'
  <2>1. ASSUME NEW q \in asked PROVE states'[q] = "Visited" \/ (stack' # <<>> /\ q = stack'[1].path)
    <3>1. q \in Paths
        BY <2>1 DEF IInv, TypeOK
    <3>2. states[q] = "Visited" \/ q = stack[1].path
        BY <1>5, <2>1 DEF IInv, AskedIsKnown
    <3>3. CASE states[q] = "Visited" \/ q = p
        BY <1>1, <1>4, <1>5, <1>7, <3>1, <3>3
    <3>4. CASE q = stack[1].path /\ q # p
      <4>1. n # 1
          BY <1>4, <3>4
      <4>2. 1 \in 1..(n - 1) /\ Len(stack') # 0
          BY <1>2, <4>1
      <4>3. stack' # <<>>
          BY <4>2
      <4> QED
          BY <1>13, <3>4, <4>2, <4>3
    <3> QED
        BY <3>2, <3>3, <3>4
  <2> QED
      BY <1>5, <2>1 DEF AskedIsKnown
<1> QED
    BY <1>5, <1>10, <1>11, <1>12, <1>14, <1>15, <1>16, <1>17, <1>18 DEF IInv, ReportedIsCycle

LEMMA AcceptInv == IInv /\ Accept => IInv'
<1> SUFFICES ASSUME IInv, Accept PROVE IInv'
    OBVIOUS
<1>1. /\ result = "checking" /\ stack = <<>> /\ result' = "ok"
      /\ UNCHANGED <<file, entries, states, stack, read, asked, cycle, saves>>
    BY DEF Accept
<1>2. asked \subseteq VisitedPaths
    BY <1>1 DEF IInv, TypeOK, AskedIsKnown, VisitedPaths
<1>3. VisitedPaths' = VisitedPaths
    BY <1>1 DEF VisitedPaths
<1>4. TypeOK' /\ VisitedIsClosed' /\ Acyclic(VisitedPaths)'
    BY <1>1, <1>3 DEF IInv, TypeOK, VisitedIsClosed, Acyclic, Requires
<1> QED
    BY <1>1, <1>2, <1>3, <1>4 DEF IInv, ReportedIsCycle

LEMMA IdleInv ==
  ASSUME IInv, file' \in [Paths -> DepLists \cup {Unusable}], saves' \in 0..MaxSaves,
         UNCHANGED <<entries, states, stack, read, asked, result, cycle>>
  PROVE  IInv'
<1>1. VisitedPaths' = VisitedPaths
    BY DEF VisitedPaths
<1>2. TypeOK' /\ VisitedIsClosed' /\ Acyclic(VisitedPaths)'
    BY <1>1 DEF IInv, TypeOK, VisitedIsClosed, Acyclic, Requires
<1>3. VisitingOnStack' = VisitingOnStack /\ OnStackOnce' = OnStackOnce /\ Chain' = Chain
    BY DEF VisitingOnStack, OnStackOnce, Chain, Requires
<1>4. Followed' = Followed /\ TodoIsRequired' = TodoIsRequired /\ AskedIsKnown' = AskedIsKnown
    BY DEF Followed, TodoIsRequired, AskedIsKnown
<1>5. ReportedIsCycle' = ReportedIsCycle
    BY DEF ReportedIsCycle, Requires
<1> QED
    BY <1>1, <1>2, <1>3, <1>4, <1>5 DEF IInv

LEMMA NextInv == IInv /\ [Next]_vars => IInv'
<1> SUFFICES ASSUME IInv, [Next]_vars PROVE IInv'
    OBVIOUS
<1>1. CASE VisitEntry
    BY <1>1, VisitEntryInv
<1>2. CASE VisitRequired
    BY <1>2, VisitRequiredInv
<1>3. CASE Leave
    BY <1>3, LeaveInv
<1>4. CASE Accept
    BY <1>4, AcceptInv
<1>5. ASSUME NEW p \in Paths, Save(p) PROVE IInv'
  <2>1. file' \in [Paths -> DepLists \cup {Unusable}] /\ saves' \in 0..MaxSaves
      BY <1>5, ContentsAssumption DEF Save, IInv, TypeOK
  <2> QED
      BY <1>5, <2>1, IdleInv DEF Save
<1>6. CASE UNCHANGED vars
  <2>1. file \in [Paths -> DepLists \cup {Unusable}] /\ saves \in 0..MaxSaves
      BY DEF IInv, TypeOK
  <2> QED
      BY <1>6, <2>1, IdleInv DEF vars
<1> QED
    BY <1>1, <1>2, <1>3, <1>4, <1>5, <1>6 DEF Next, Search

LEMMA Inductive == Spec => []IInv
BY InitInv, NextInv, PTL DEF Spec

-----------------------------------------------------------------------------
\* Every variable keeps its type (the VisitState map, the stack, the report).
THEOREM TypeCorrect == Spec => []TypeOK
<1>1. IInv => TypeOK
    BY DEF IInv
<1> QED
    BY <1>1, Inductive, PTL

(* A build that passes detect_circular_dependencies has no circular         *)
(* requires: what its entry points reach was read and forms no cycle.       *)
THEOREM SafeAcceptedIsAcyclic == Spec => []AcceptedIsAcyclic
<1>1. IInv => AcceptedIsAcyclic
    BY DEF IInv, AcceptedIsAcyclic, VisitedIsClosed
<1> QED
    BY <1>1, Inductive, PTL

(* A cycle that detect_circular_dependencies reports is one: a path of      *)
(* requires from a file to itself that names no other file twice.           *)
THEOREM SafeReportedIsCycle == Spec => []ReportedIsCycle
<1>1. IInv => ReportedIsCycle
    BY DEF IInv
<1> QED
    BY <1>1, Inductive, PTL

(* A file that is being visited is on the stack, and only once: a cycle is  *)
(* never reported from the bottom of the stack for want of the file in it   *)
(* (visit_dependency, `unwrap_or(0)`), and ReportCycle can always be taken. *)
THEOREM VisitingIsOnStack ==
  Spec => [](result = "checking" => VisitingOnStack /\ OnStackOnce)
<1>1. IInv => (result = "checking" => VisitingOnStack /\ OnStackOnce)
    BY DEF IInv
<1> QED
    BY <1>1, Inductive, PTL


-----------------------------------------------------------------------------
(* The build implements the search.                                         *)

LEMMA StepsOfSearch == [BuildNext]_<<vars, buildVars>> => [Next]_vars
BY DEF BuildNext, Build, Check, UserSaves, Reject, Compile, Write, Finish, WriteFails, Next

(* What DependencyCheck promises of every search holds of the one a build   *)
(* begins with, though its files are saved, read again and written later.   *)
THEOREM BuildSearches == BuildSpec => Spec
<1>1. BuildInit => Init
    BY DEF BuildInit
<1> QED
    BY <1>1, StepsOfSearch, PTL DEF BuildSpec, Spec

-----------------------------------------------------------------------------
(* The inductive invariant.  The entry points that the search has still to  *)
(* visit, and those it has asked for, are the files of the build; files are *)
(* compiled after it.                                                       *)
FilesAreAsked == ToSet(files) \subseteq asked \cup ToSet(entries)

NoneLeft == result = "ok" => entries = <<>>

CompiledAfter == artifacts # <<>> => result = "ok"

BInv ==
  /\ IInv
  /\ BuildTypeOK
  /\ FilesAreAsked
  /\ NoneLeft
  /\ CompiledAfter
  /\ FailsClean

LEMMA OutputCount == Len(Outputs) \in Nat /\ Len(Outputs) > 0
BY OutputsAssumption, EmptySeq, LenProperties

\* The number of an output names a file.
LEMMA FileOfOutput ==
  ASSUME NEW n \in Nat, n > 0, NEW a \in Nat, NEW k \in Nat, k < a * n
  PROVE  k \div n \in 0..(a - 1)
<1>1. k \div n \in Nat /\ (k \div n) * n <= k
    BY Z3
<1>2. ASSUME k \div n >= a PROVE FALSE
  <2>1. (k \div n) * n >= a * n
      BY <1>1, <1>2, Z3
  <2> QED
      BY <1>1, <2>1
<1> QED
    BY <1>1, <1>2

LEMMA PutType ==
  ASSUME BuildTypeOK, NEW k, NEW contents \in DepLists \cup {Earlier, Torn}, Put(k, contents)
  PROVE  output' \in [Paths -> [ToSet(Outputs) -> DepLists \cup {Earlier, Torn}]]
BY DEF BuildTypeOK, Put

LEMMA BuildInitInv == BuildInit => BInv
<1> SUFFICES ASSUME BuildInit PROVE BInv
    OBVIOUS
<1>1. Init /\ IInv
    BY InitInv DEF BuildInit
<1>2. files \in Seq(Paths) /\ Len(files) \in Nat
    BY <1>1, ContentsAssumption DEF BuildInit, Init
<1>3. 0 \in 0..(Len(files) * Len(Outputs)) /\ Len(<<>>) = 0 /\ <<>> \in Seq(DepLists)
    BY <1>2, OutputCount
<1>4. BuildTypeOK
    BY <1>1, <1>2, <1>3 DEF BuildInit, BuildTypeOK
<1>5. FilesAreAsked /\ NoneLeft /\ CompiledAfter
    BY <1>1 DEF BuildInit, Init, FilesAreAsked, NoneLeft, CompiledAfter
<1>6. FailsClean
    BY DEF BuildInit, FailsClean, New
<1> QED
    BY <1>1, <1>4, <1>5, <1>6 DEF BInv

\* A step of the search, or a save, leaves the build's own variables alone.
LEMMA SearchInv == BInv /\ (Check \/ UserSaves) => BInv'
<1> SUFFICES ASSUME BInv, Check \/ UserSaves PROVE BInv'
    OBVIOUS
<1>1. IInv'
  <2>1. [Next]_vars
      BY StepsOfSearch DEF BuildNext, Build
  <2> QED
      BY <2>1, NextInv DEF BInv
<1>2. UNCHANGED buildVars
    BY DEF Check, UserSaves
<1>3. BuildTypeOK'
    BY <1>2 DEF BInv, BuildTypeOK, buildVars
<1>5. asked \cup ToSet(entries) \subseteq asked' \cup ToSet(entries')
  <2>1. CASE VisitEntry
    <3>1. entries \in Seq(Paths) /\ entries # <<>>
        BY <2>1 DEF BInv, IInv, TypeOK, VisitEntry
    <3>2. \A q \in ToSet(entries) : q = Head(entries) \/ q \in ToSet(Tail(entries))
        BY <3>1, HeadTail
    <3> QED
        BY <2>1, <3>2 DEF VisitEntry
  <2>2. CASE ~VisitEntry
      BY <2>2 DEF Check, UserSaves, Search, VisitRequired, Leave, Accept, Save
  <2> QED
      BY <2>1, <2>2
<1>6. FilesAreAsked'
    BY <1>2, <1>5 DEF BInv, FilesAreAsked, buildVars
<1>7. result' = result \/ result = "checking"
    BY DEF Check, UserSaves, Search, VisitEntry, VisitRequired, Leave, Accept, Save
<1>8. result = "ok" => entries' = entries
    BY DEF Check, UserSaves, Search, VisitEntry, VisitRequired, Leave, Accept, Save
<1>9. NoneLeft'
  <2>1. CASE Accept
      BY <2>1 DEF Accept, NoneLeft
  <2>2. CASE ~Accept
    <3>1. result' = "ok" => result = "ok"
        BY <2>2 DEF Check, UserSaves, Search, VisitEntry, VisitRequired, Leave, Save,
                    Visit, SkipVisited, ReportCycle, Enter
    <3> QED
        BY <3>1, <1>8 DEF BInv, NoneLeft
  <2> QED
      BY <2>1, <2>2
<1>10. CompiledAfter'
    BY <1>2, <1>7 DEF BInv, CompiledAfter, buildVars
<1>11. FailsClean'
  <2>1. CASE result = "checking"
      BY <1>2, <2>1 DEF BInv, FailsClean, New, buildVars
  <2>2. CASE result # "checking"
      BY <1>2, <1>7, <2>2 DEF BInv, FailsClean, New, buildVars
  <2> QED
      BY <2>1, <2>2
<1> QED
    BY <1>1, <1>3, <1>6, <1>9, <1>10, <1>11 DEF BInv

\* A step of the build itself leaves the search as it is.
LEMMA SearchKept ==
  ASSUME BInv, UNCHANGED <<vars, files>>
  PROVE  IInv' /\ FilesAreAsked' /\ NoneLeft' /\ UNCHANGED result
<1>1. IInv'
    BY NextInv DEF BInv
<1> QED
    BY <1>1 DEF BInv, FilesAreAsked, NoneLeft, vars

LEMMA RejectInv == BInv /\ Reject => BInv'
<1> SUFFICES ASSUME BInv, Reject PROVE BInv'
    OBVIOUS
<1>1. IInv' /\ FilesAreAsked' /\ NoneLeft' /\ UNCHANGED result
    BY SearchKept DEF Reject
<1>2. BuildTypeOK' /\ CompiledAfter' /\ FailsClean'
    BY <1>1 DEF BInv, Reject, BuildTypeOK, CompiledAfter, FailsClean, New
<1> QED
    BY <1>1, <1>2 DEF BInv

LEMMA CompileInv == BInv /\ Compile => BInv'
<1> SUFFICES ASSUME BInv, Compile PROVE BInv'
    OBVIOUS
<1>1. IInv' /\ FilesAreAsked' /\ NoneLeft' /\ UNCHANGED result
    BY SearchKept DEF Compile
<1>2. files \in Seq(Paths) /\ Len(files) \in Nat /\ artifacts \in Seq(DepLists) /\ Len(artifacts) \in Nat
    BY DEF BInv, BuildTypeOK
<1>3. \/ UNCHANGED artifacts
      \/ \E contents \in DepLists : artifacts' = Append(artifacts, contents)
  <2>1. files[Len(artifacts) + 1] \in Paths
      BY <1>2, Len(artifacts) + 1 \in 1..Len(files) DEF Compile
  <2>2. file[files[Len(artifacts) + 1]] \in DepLists \cup {Unusable}
      BY <2>1 DEF BInv, IInv, TypeOK
  <2> QED
      BY <2>2 DEF Compile
<1>4. artifacts' \in Seq(DepLists) /\ Len(artifacts') <= Len(files)
    BY <1>2, <1>3 DEF Compile
<1>5. outcome' \in {"running", "done", "failed"}
    BY DEF Compile, BInv, BuildTypeOK
<1>6. BuildTypeOK'
    BY <1>4, <1>5 DEF BInv, BuildTypeOK, Compile
<1>7. CompiledAfter'
    BY <1>1 DEF Compile, CompiledAfter
<1>8. model = Earlier /\ \A p \in Paths, o \in ToSet(Outputs) : ~New(p, o)
    BY DEF Compile, BInv, FailsClean
<1>9. FailsClean'
    BY <1>8 DEF Compile, FailsClean, New
<1> QED
    BY <1>1, <1>6, <1>7, <1>9 DEF BInv

\* Once every file of a build is compiled, its outputs may change.
LEMMA CompiledIsFree ==
  ASSUME Compiled, operation = "build", UNCHANGED <<result, operation, files, artifacts>>,
         Len(files) \in Nat
  PROVE  FailsClean'
BY DEF Compiled, FailsClean

LEMMA WriteInv == BInv /\ Write => BInv'
<1> SUFFICES ASSUME BInv, Write PROVE BInv'
    OBVIOUS
<1>1. IInv' /\ FilesAreAsked' /\ NoneLeft' /\ UNCHANGED result
    BY SearchKept DEF Write
<1>2. Len(files) \in Nat /\ written \in Nat /\ written < Len(files) * Len(Outputs)
    BY DEF BInv, BuildTypeOK, Write
<1>3. written \div Len(Outputs) \in 0..(Len(files) - 1)
    BY <1>2, OutputCount, FileOfOutput
<1>4. artifacts[(written \div Len(Outputs)) + 1] \in DepLists
  <2>1. (written \div Len(Outputs)) + 1 \in 1..Len(artifacts)
      BY <1>2, <1>3 DEF Write, Compiled
  <2> QED
      BY <2>1 DEF BInv, BuildTypeOK
<1>5. output' \in [Paths -> [ToSet(Outputs) -> DepLists \cup {Earlier, Torn}]]
    BY <1>4, PutType DEF Write, BInv
<1>6. written' \in 0..(Len(files) * Len(Outputs))
  <2>1. Len(files) * Len(Outputs) \in Nat
      BY <1>2, OutputCount
  <2> QED
      BY <1>2, <2>1 DEF Write
<1>7. BuildTypeOK'
    BY <1>5, <1>6 DEF BInv, BuildTypeOK, Write
<1>8. CompiledAfter' /\ FailsClean'
    BY <1>1, <1>2, CompiledIsFree DEF BInv, Write, CompiledAfter
<1> QED
    BY <1>1, <1>7, <1>8 DEF BInv

LEMMA WriteFailsInv == BInv /\ WriteFails => BInv'
<1> SUFFICES ASSUME BInv, WriteFails PROVE BInv'
    OBVIOUS
<1>1. IInv' /\ FilesAreAsked' /\ NoneLeft' /\ UNCHANGED result
    BY SearchKept DEF WriteFails
<1>2. output' \in [Paths -> [ToSet(Outputs) -> DepLists \cup {Earlier, Torn}]]
    BY PutType DEF WriteFails, BInv, BuildTypeOK
<1>3. model' \in Seq(DepLists) \cup {Earlier, Torn}
    BY DEF WriteFails, BInv, BuildTypeOK
<1>4. BuildTypeOK'
    BY <1>2, <1>3 DEF BInv, BuildTypeOK, WriteFails
<1>5. CompiledAfter' /\ FailsClean'
    BY <1>1, CompiledIsFree DEF BInv, BuildTypeOK, WriteFails, CompiledAfter
<1> QED
    BY <1>1, <1>4, <1>5 DEF BInv

LEMMA FinishInv == BInv /\ Finish => BInv'
<1> SUFFICES ASSUME BInv, Finish PROVE BInv'
    OBVIOUS
<1>1. IInv' /\ FilesAreAsked' /\ NoneLeft' /\ UNCHANGED result
    BY SearchKept DEF Finish
<1>2. BuildTypeOK'
    BY DEF BInv, BuildTypeOK, Finish
<1>3. CompiledAfter'
    BY <1>1 DEF BInv, Finish, CompiledAfter
<1>4. FailsClean'
  <2>1. CASE operation = "build"
      BY <2>1, <1>1, CompiledIsFree DEF BInv, BuildTypeOK, Finish
  <2>2. CASE operation # "build"
      BY <2>2 DEF BInv, BuildTypeOK, Finish, FailsClean, New
  <2> QED
      BY <2>1, <2>2
<1> QED
    BY <1>1, <1>2, <1>3, <1>4 DEF BInv

LEMMA BuildNextInv == BInv /\ [BuildNext]_<<vars, buildVars>> => BInv'
<1> SUFFICES ASSUME BInv, [BuildNext]_<<vars, buildVars>> PROVE BInv'
    OBVIOUS
<1>1. CASE UNCHANGED <<vars, buildVars>>
  <2>1. IInv' /\ FilesAreAsked' /\ NoneLeft' /\ UNCHANGED result
      BY <1>1, SearchKept DEF buildVars
  <2>2. BuildTypeOK' /\ CompiledAfter' /\ FailsClean'
      BY <1>1, <2>1 DEF BInv, BuildTypeOK, CompiledAfter, FailsClean, New, buildVars
  <2> QED
      BY <2>1, <2>2 DEF BInv
<1> QED
    BY <1>1, SearchInv, RejectInv, CompileInv, WriteInv, WriteFailsInv, FinishInv DEF BuildNext, Build

LEMMA BuildInductive == BuildSpec => []BInv
BY BuildInitInv, BuildNextInv, PTL DEF BuildSpec

-----------------------------------------------------------------------------
\* Outputs, artifacts and the outcome keep their types.
THEOREM BuildTypeCorrect == BuildSpec => []BuildTypeOK
<1>1. BInv => BuildTypeOK
    BY DEF BInv
<1> QED
    BY <1>1, BuildInductive, PTL

(* A build that fails before every file is compiled, and a check, leave     *)
(* every output as it was (build_project before write_artifact).            *)
THEOREM SafeFailsClean == BuildSpec => []FailsClean
<1>1. BInv => FailsClean
    BY DEF BInv
<1> QED
    BY <1>1, BuildInductive, PTL

(* What is compiled has circular requires only when a file was saved        *)
(* between the search and the moment it was read again to be compiled.      *)
THEOREM SafeCompiledAcyclic == BuildSpec => []CompiledAcyclic
<1>1. ASSUME BInv PROVE CompiledAcyclic
  <2> SUFFICES ASSUME \A i \in 1..Len(artifacts) : artifacts[i] = read[files[i]],
                      NEW S \in SUBSET (1..Len(artifacts)), S # {}
               PROVE  \E i \in S : \A j \in S : files[j] \notin ToSet(artifacts[i])
      BY DEF CompiledAcyclic
  <2> DEFINE P == {files[i] : i \in S}
  <2>1. artifacts # <<>> /\ result = "ok"
    <3>1. artifacts \in Seq(DepLists) /\ Len(artifacts) \in Nat
        BY <1>1 DEF BInv, BuildTypeOK
    <3>2. PICK i \in S : i \in 1..Len(artifacts)
        OBVIOUS
    <3>3. Len(artifacts) # 0
        BY <3>1, <3>2
    <3> QED
        BY <1>1, <3>3, Len(<<>>) = 0 DEF BInv, CompiledAfter
  <2>2. ToSet(files) \subseteq VisitedPaths
    <3>1. asked \subseteq VisitedPaths
        BY <1>1, <2>1 DEF BInv, IInv
    <3>2. ToSet(entries) = {}
        BY <1>1, <2>1 DEF BInv, NoneLeft, ToSet
    <3> QED
        BY <1>1, <3>1, <3>2 DEF BInv, FilesAreAsked
  <2>3. P \in SUBSET VisitedPaths /\ P # {}
    <3>1. \A i \in S : files[i] \in ToSet(files)
        BY <1>1 DEF BInv, BuildTypeOK, ToSet
    <3> QED
        BY <2>2, <3>1
  <2>4. PICK p \in P : \A q \in P : ~Requires(p, q)
      BY <1>1, <2>3 DEF BInv, IInv, Acyclic
  <2>5. PICK i \in S : p = files[i]
      OBVIOUS
  <2>6. \A j \in S : files[j] \notin ToSet(artifacts[i])
      BY <2>4, <2>5 DEF Requires
  <2> QED
      BY <2>6
<1> QED
    BY <1>1, BuildInductive, PTL

-----------------------------------------------------------------------------
(* The search comes to an end: every step of it brings the end nearer, in   *)
(* the order of what is left: paths that are new, entry points, visits in   *)
(* progress, requires of the innermost visit.                               *)
NewPaths == {p \in Paths : states[p] = "New"}

SearchNearer ==
  \/ result' # "checking"
  \/ NewPaths' \subseteq NewPaths /\ NewPaths' # NewPaths
  \/ /\ NewPaths' = NewPaths
     /\ \/ Len(entries') < Len(entries)
        \/ /\ Len(entries') = Len(entries)
           /\ \/ Len(stack') < Len(stack)
              \/ stack # <<>> /\ Len(stack') = Len(stack) /\ Len(Top'.todo) < Len(Top.todo)

\* A visit marks a new path, ends the search or goes back to the requires of
\* the visit that called it.
LEMMA VisitNearer ==
  ASSUME IInv, NEW p \in Paths, NEW below, Visit(p, below)
  PROVE  \/ result' # "checking"
         \/ NewPaths' \subseteq NewPaths /\ NewPaths' # NewPaths
         \/ NewPaths' = NewPaths /\ stack' = below
<1>1. CASE SkipVisited(p, below)
    BY <1>1 DEF SkipVisited, NewPaths
<1>2. CASE ReportCycle(p, below)
    BY <1>2 DEF ReportCycle
<1>3. CASE Enter(p, below)
  <2>1. p \in NewPaths
      BY <1>3 DEF Enter, NewPaths
  <2>2. states' = [states EXCEPT ![p] = "Visiting"] /\ states \in [Paths -> {"New", "Visiting", "Visited"}]
      BY <1>3 DEF Enter, IInv, TypeOK
  <2>3. p \notin NewPaths' /\ NewPaths' \subseteq NewPaths
      BY <2>2 DEF NewPaths
  <2> QED
      BY <2>1, <2>3
<1> QED
    BY <1>1, <1>2, <1>3 DEF Visit

LEMMA SearchNears == IInv /\ Search => SearchNearer
<1> SUFFICES ASSUME IInv, Search PROVE SearchNearer
    OBVIOUS
<1>1. stack \in Seq(Frame) /\ entries \in Seq(Paths) /\ states \in [Paths -> {"New", "Visiting", "Visited"}]
    BY DEF IInv, TypeOK
<1>2. CASE VisitEntry
  <2>1. Head(entries) \in Paths /\ Len(entries') < Len(entries)
    <3>1. entries # <<>> /\ entries' = Tail(entries)
        BY <1>2 DEF VisitEntry
    <3> QED
        BY <1>1, <3>1
  <2>2. Visit(Head(entries), stack)
      BY <1>2 DEF VisitEntry
  <2> QED
      BY <2>1, <2>2, VisitNearer DEF SearchNearer
<1>3. CASE VisitRequired
  <2>1. PICK below : below = [stack EXCEPT ![Len(stack)].todo = Tail(@)]
      OBVIOUS
  <2>2. stack # <<>> /\ Top.todo # <<>> /\ Visit(Head(Top.todo), below) /\ entries' = entries
      BY <1>3, <2>1 DEF VisitRequired
  <2>3. Len(stack) \in 1..Len(stack) /\ Top \in Frame
      BY <1>1, <2>2, FrontOf, ElementOfSeq DEF Top
  <2>4. Top.todo \in Seq(Paths)
      BY <2>3 DEF Frame
  <2>5. Head(Top.todo) \in Paths /\ Len(Tail(Top.todo)) < Len(Top.todo)
      BY <2>2, <2>4
  <2>6. Len(below) = Len(stack) /\ below[Len(stack)].todo = Tail(Top.todo)
      BY <1>1, <2>1, <2>3 DEF Top, Frame
  <2>7. stack' = below => Len(stack') = Len(stack) /\ Len(Top'.todo) < Len(Top.todo)
      BY <2>5, <2>6 DEF Top
  <2> QED
      BY <2>2, <2>5, <2>7, VisitNearer DEF SearchNearer
<1>4. CASE Leave
  <2>1. stack # <<>> /\ stack' = Front(stack) /\ entries' = entries
      BY <1>4 DEF Leave
  <2>2. Len(stack') < Len(stack)
      BY <1>1, <2>1, FrontOf
  <2>3. states' = [states EXCEPT ![Top.path] = "Visited"]
      BY <1>4 DEF Leave
  <2>4. NewPaths' \subseteq NewPaths
      BY <1>1, <2>3 DEF NewPaths
  <2> QED
      BY <2>1, <2>2, <2>4 DEF SearchNearer
<1>5. CASE Accept
    BY <1>5 DEF Accept, SearchNearer
<1> QED
    BY <1>2, <1>3, <1>4, <1>5 DEF Search

-----------------------------------------------------------------------------
(* And so does the build.                                                   *)
ToCompile == Len(files) - Len(artifacts)
ToWrite == Len(files) * Len(Outputs) - written

BuildNearer ==
  \/ outcome = "running" /\ outcome' # "running"
  \/ /\ outcome' = outcome
     /\ \/ result = "checking" /\ SearchNearer
        \/ /\ result # "checking" /\ result' = result
           /\ \/ ToCompile' \in Nat /\ ToCompile' < ToCompile
              \/ ToCompile' = ToCompile /\ ToWrite' \in Nat /\ ToWrite' < ToWrite

\* What a save leaves as it is: all that is compared.
Delays == UNCHANGED <<entries, states, stack, result, artifacts, written, files, outcome>>

LEMMA BuildStepNears == BInv /\ BInv' /\ (Build \/ WriteFails) => BuildNearer
<1> SUFFICES ASSUME BInv, BInv', Build \/ WriteFails PROVE BuildNearer
    OBVIOUS
<1>1. CASE Check
  <2>1. Search /\ IInv /\ outcome' = outcome
      BY <1>1 DEF Check, buildVars, BInv
  <2>2. result = "checking"
      BY <2>1 DEF Search, VisitEntry, VisitRequired, Leave, Accept
  <2> QED
      BY <2>1, <2>2, SearchNears DEF BuildNearer
<1>2. CASE Reject \/ Finish \/ WriteFails
    BY <1>2 DEF Reject, Finish, WriteFails, Compiled, BuildNearer
<1>3. CASE Compile
  <2>1. files \in Seq(Paths) /\ artifacts \in Seq(DepLists)
      BY DEF BInv, BuildTypeOK
  <2>2. files' \in Seq(Paths) /\ artifacts' \in Seq(DepLists) /\ Len(artifacts') <= Len(files')
      BY DEF BInv, BuildTypeOK
  <2>3. outcome = "running" /\ result = "ok" /\ result' = result /\ files' = files
      BY <1>3 DEF Compile, vars
  <2>4. CASE outcome' = outcome
    <3>1. Len(artifacts') = Len(artifacts) + 1
      <4>1. \E contents : artifacts' = Append(artifacts, contents)
          BY <1>3, <2>3, <2>4 DEF Compile
      <4> QED
          BY <2>1, <4>1
    <3>2. ToCompile' \in Nat /\ ToCompile' < ToCompile
        BY <2>1, <2>2, <2>3, <3>1 DEF ToCompile
    <3> QED
        BY <2>3, <2>4, <3>2 DEF BuildNearer
  <2>5. CASE outcome' # outcome
      BY <2>3, <2>5 DEF BuildNearer
  <2> QED
      BY <2>4, <2>5
<1>4. CASE Write
  <2>1. /\ result = "ok" /\ result' = result /\ outcome' = outcome /\ written' = written + 1
        /\ files' = files /\ artifacts' = artifacts
      BY <1>4 DEF Write, Compiled, vars
  <2>2. written' \in 0..(Len(files') * Len(Outputs)) /\ written \in 0..(Len(files) * Len(Outputs))
      BY DEF BInv, BuildTypeOK
  <2>3. Len(files) \in Nat /\ Len(Outputs) \in Nat
      BY OutputCount DEF BInv, BuildTypeOK
  <2>4. PICK all : all = Len(files) * Len(Outputs)
      OBVIOUS
  <2>5. all \in Nat
      BY <2>3, <2>4
  <2>6. ToWrite' \in Nat /\ ToWrite' < ToWrite /\ ToCompile' = ToCompile
      BY <2>1, <2>2, <2>4, <2>5 DEF ToWrite, ToCompile
  <2> QED
      BY <2>1, <2>6 DEF BuildNearer
<1> QED
    BY <1>1, <1>2, <1>3, <1>4 DEF Build

(* Every step of a build brings its end nearer, in a well-founded order     *)
(* when there are finitely many files, and saves do not put it off: a       *)
(* search in files that change meanwhile comes to an end, too, and no write *)
(* is made twice (visit_dependency, build_project, write_artifact).         *)
THEOREM BuildNears == BuildSpec => [][BuildNearer \/ (UserSaves /\ Delays)]_<<vars, buildVars>>
<1>1. BInv /\ BInv' /\ [BuildNext]_<<vars, buildVars>>
        => [BuildNearer \/ (UserSaves /\ Delays)]_<<vars, buildVars>>
  <2>1. UserSaves => Delays
      BY DEF UserSaves, Save, Delays, buildVars
  <2> QED
      BY <2>1, BuildStepNears DEF BuildNext
<1> QED
    BY <1>1, BuildInductive, PTL DEF BuildSpec

-----------------------------------------------------------------------------
(* The outputs are numbered in the order they are written.  Those of a      *)
(* number below `written` are of this build, those above are as they were,  *)
(* and the next one may be torn when its write has failed.                  *)
Number(i, j) == (i - 1) * Len(Outputs) + (j - 1)

(* include's patterns find no file twice: a list of files names each once.  *)
EachListedOnce == \A l \in EntryLists : \A i, j \in 1..Len(l) : l[i] = l[j] => i = j

FilesOnce == \A i, j \in 1..Len(files) : files[i] = files[j] => i = j

WrittenSoFar ==
  \A i \in 1..Len(files), j \in 1..Len(Outputs) :
    LET now == output[files[i]][Outputs[j]] IN
    /\ Number(i, j) < written => now = artifacts[i]
    /\ Number(i, j) = written => now = Earlier \/ (now = Torn /\ outcome = "failed")
    /\ Number(i, j) > written => now = Earlier

WrittenLast == written > 0 \/ outcome = "done" => Len(artifacts) = Len(files)

ModelLast ==
  model # Earlier =>
    /\ written = Len(files) * Len(Outputs)
    /\ model = artifacts \/ model = Torn
    /\ outcome # "running"

WInv ==
  /\ FilesOnce
  /\ WrittenSoFar
  /\ WrittenLast
  /\ ModelLast

\* Quotient and remainder.
LEMMA Euclid ==
  ASSUME NEW n \in Nat, n > 0, NEW k \in Nat
  PROVE  /\ k \div n \in Nat
         /\ k % n \in 0..(n - 1)
         /\ k = (k \div n) * n + (k % n)
<1>1. k = n * (k \div n) + (k % n)
    BY SMT
<1>2. k \div n \in Nat /\ k % n \in 0..(n - 1)
    BY SMT
<1>3. n * (k \div n) = (k \div n) * n
    BY <1>2, SMT
<1> QED
    BY <1>1, <1>2, <1>3

\* A number belongs to one output only.
LEMMA OneNumber ==
  ASSUME NEW n \in Nat, n > 0, NEW i \in Nat, NEW j \in 0..(n - 1), NEW e \in Nat, NEW f \in 0..(n - 1)
  PROVE  /\ i < e => i * n + j < e * n + f
         /\ i * n + j = e * n + f => i = e /\ j = f
<1>1. ASSUME NEW g \in Nat, NEW h \in Nat, g < h PROVE g * n + n <= h * n
  <2>1. h - g \in Nat /\ h - g >= 1 /\ h = g + (h - g)
      BY <1>1
  <2>2. h * n = g * n + (h - g) * n
      BY <2>1, Z3
  <2>3. (h - g) * n >= n
      BY <2>1, Z3
  <2>4. h * n \in Nat /\ g * n \in Nat /\ (h - g) * n \in Nat
      BY <2>1, Z3
  <2> QED
      BY <2>2, <2>3, <2>4
<1>2. i * n \in Nat /\ e * n \in Nat
    BY Z3
<1>3. i < e => i * n + j < e * n + f
    BY <1>1, <1>2
<1>4. e < i => e * n + f < i * n + j
    BY <1>1, <1>2
<1> QED
    BY <1>2, <1>3, <1>4

LEMMA NumberOf ==
  ASSUME NEW i \in Nat \ {0}, NEW j \in 1..Len(Outputs)
  PROVE  /\ Number(i, j) \in Nat
         /\ \A e \in Nat \ {0}, f \in 1..Len(Outputs) :
              /\ i < e => Number(i, j) < Number(e, f)
              /\ Number(i, j) = Number(e, f) => i = e /\ j = f
<1>1. i - 1 \in Nat /\ j - 1 \in 0..(Len(Outputs) - 1)
    BY OutputCount
<1>2. (i - 1) * Len(Outputs) \in Nat
    BY <1>1, OutputCount, Z3
<1>3. ASSUME NEW e \in Nat \ {0}, NEW f \in 1..Len(Outputs)
      PROVE  /\ i < e => Number(i, j) < Number(e, f)
             /\ Number(i, j) = Number(e, f) => i = e /\ j = f
  <2>1. e - 1 \in Nat /\ f - 1 \in 0..(Len(Outputs) - 1)
      BY OutputCount
  <2>2. /\ i - 1 < e - 1 => Number(i, j) < Number(e, f)
        /\ Number(i, j) = Number(e, f) => i - 1 = e - 1 /\ j - 1 = f - 1
      BY <1>1, <2>1, OutputCount, OneNumber DEF Number
  <2> QED
      BY <2>2, OutputCount
<1> QED
    BY <1>1, <1>2, <1>3 DEF Number

\* A write changes the output of its number and no other.
LEMMA PutAt ==
  ASSUME BuildTypeOK, FilesOnce, written < Len(files) * Len(Outputs), NEW contents, Put(written, contents),
         NEW i \in 1..Len(files), NEW j \in 1..Len(Outputs)
  PROVE  /\ output'[files[i]][Outputs[j]] =
              IF Number(i, j) = written THEN contents ELSE output[files[i]][Outputs[j]]
         /\ Number(i, j) = written => i = (written \div Len(Outputs)) + 1
<1> DEFINE e == (written \div Len(Outputs)) + 1
           f == (written % Len(Outputs)) + 1
<1>1. Len(files) \in Nat /\ written \in Nat /\ \A g \in 1..Len(files) : files[g] \in Paths
    BY DEF BuildTypeOK
<1>2. e \in 1..Len(files) /\ f \in 1..Len(Outputs)
    BY <1>1, OutputCount, FileOfOutput, Euclid
<1>3. Number(e, f) = written
  <2>1. written = (written \div Len(Outputs)) * Len(Outputs) + (written % Len(Outputs))
      BY <1>1, OutputCount, Euclid
  <2>2. e - 1 = written \div Len(Outputs) /\ f - 1 = written % Len(Outputs)
      BY <1>1, OutputCount, Euclid
  <2> QED
      BY <2>1, <2>2 DEF Number
<1>4. /\ Outputs[j] \in ToSet(Outputs)
      /\ Outputs[f] \in ToSet(Outputs)
      /\ Outputs[j] = Outputs[f] => j = f
      /\ files[i] = files[e] => i = e
    BY <1>1, <1>2, OutputsAssumption DEF FilesOnce, ToSet
<1>5. output' = [output EXCEPT ![files[e]][Outputs[f]] = contents]
    BY DEF Put
<1> HIDE DEF e, f
<1>6. output'[files[i]][Outputs[j]] =
        IF files[i] = files[e] /\ Outputs[j] = Outputs[f] THEN contents ELSE output[files[i]][Outputs[j]]
    BY <1>1, <1>2, <1>4, <1>5 DEF BuildTypeOK
<1>7. Number(i, j) = written <=> i = e /\ j = f
  <2>1. i \in Nat \ {0} /\ e \in Nat \ {0}
      BY <1>1, <1>2
  <2>2. Number(i, j) = Number(e, f) => i = e /\ j = f
      BY <1>2, <2>1, NumberOf
  <2> QED
      BY <1>3, <2>2
<1> QED
    BY <1>4, <1>6, <1>7 DEF e

LEMMA WriteInit == EachListedOnce /\ BuildInit => WInv
<1> SUFFICES ASSUME EachListedOnce, BuildInit PROVE WInv
    OBVIOUS
<1>1. FilesOnce
    BY DEF EachListedOnce, BuildInit, Init, FilesOnce
<1>2. files \in Seq(Paths)
    BY BuildInitInv DEF BInv, BuildTypeOK
<1>3. WrittenSoFar
  <2> SUFFICES ASSUME NEW i \in 1..Len(files), NEW j \in 1..Len(Outputs)
               PROVE  /\ Number(i, j) \in Nat
                      /\ output[files[i]][Outputs[j]] = Earlier
      BY DEF WrittenSoFar, BuildInit
  <2>1. Number(i, j) \in Nat
      BY <1>2, NumberOf
  <2>2. files[i] \in Paths /\ Outputs[j] \in ToSet(Outputs)
      BY <1>2 DEF ToSet
  <2> QED
      BY <2>1, <2>2 DEF BuildInit
<1> QED
    BY <1>1, <1>3 DEF WInv, WrittenLast, ModelLast, BuildInit

\* A step that writes nothing and compiles nothing.
LEMMA WriteKept ==
  ASSUME WInv, UNCHANGED <<files, artifacts, written, output, model>>,
         outcome' = outcome \/ (outcome = "running" /\ outcome' = "failed")
  PROVE  WInv'
<1>1. FilesOnce'
    BY DEF WInv, FilesOnce
<1>2. WrittenSoFar'
    BY DEF WInv, WrittenSoFar, Number
<1>3. WrittenLast' /\ ModelLast'
    BY DEF WInv, WrittenLast, ModelLast
<1> QED
    BY <1>1, <1>2, <1>3 DEF WInv

\* What is compiled is appended before anything is written.
LEMMA WriteCompile == BInv /\ WInv /\ Compile => WInv'
<1> SUFFICES ASSUME BInv, WInv, Compile PROVE WInv'
    OBVIOUS
<1>1. files \in Seq(Paths) /\ written \in Nat
    BY DEF BInv, BuildTypeOK
<1>2. written = 0 /\ model = Earlier
    BY <1>1 DEF WInv, WrittenLast, ModelLast, Compile
<1>3. UNCHANGED <<files, written, output, model>> /\ outcome' \in {"running", "failed"} /\ outcome = "running"
    BY DEF Compile
<1>4. WrittenSoFar'
  <2> SUFFICES ASSUME NEW i \in 1..Len(files), NEW j \in 1..Len(Outputs)
               PROVE  /\ Number(i, j) \in Nat
                      /\ output[files[i]][Outputs[j]] = Earlier
      BY <1>2, <1>3 DEF WrittenSoFar, Number
  <2>1. Number(i, j) \in Nat
      BY <1>1, NumberOf
  <2> QED
      BY <1>2, <1>3, <2>1 DEF WInv, WrittenSoFar
<1>5. FilesOnce' /\ WrittenLast' /\ ModelLast'
    BY <1>2, <1>3 DEF WInv, FilesOnce, WrittenLast, ModelLast
<1> QED
    BY <1>4, <1>5 DEF WInv

LEMMA WriteWrite == BInv /\ WInv /\ Write => WInv'
<1> SUFFICES ASSUME BInv, WInv, Write PROVE WInv'
    OBVIOUS
<1> DEFINE contents == artifacts[(written \div Len(Outputs)) + 1]
<1>1. BuildTypeOK /\ FilesOnce /\ written \in Nat /\ files \in Seq(Paths)
    BY DEF BInv, WInv, BuildTypeOK
<1>2. written < Len(files) * Len(Outputs) /\ Put(written, contents)
    BY DEF Write
<1>3. UNCHANGED <<files, artifacts, model, outcome>> /\ written' = written + 1 /\ outcome = "running"
      /\ Len(artifacts) = Len(files)
    BY DEF Write, Compiled
<1>4. WrittenSoFar'
  <2> SUFFICES ASSUME NEW i \in 1..Len(files), NEW j \in 1..Len(Outputs)
               PROVE  LET now == output'[files[i]][Outputs[j]] IN
                      /\ Number(i, j) < written + 1 => now = artifacts[i]
                      /\ Number(i, j) >= written + 1 => now = Earlier
      BY <1>3 DEF WrittenSoFar, Number
  <2>1. Number(i, j) \in Nat
      BY <1>1, NumberOf
  <2>2. output'[files[i]][Outputs[j]] =
          IF Number(i, j) = written THEN artifacts[i] ELSE output[files[i]][Outputs[j]]
    <3> HIDE DEF contents
    <3>1. /\ output'[files[i]][Outputs[j]] =
               IF Number(i, j) = written THEN contents ELSE output[files[i]][Outputs[j]]
          /\ Number(i, j) = written => i = (written \div Len(Outputs)) + 1
        BY <1>1, <1>2, PutAt
    <3> QED
        BY <3>1 DEF contents
  <2>3. /\ Number(i, j) < written => output[files[i]][Outputs[j]] = artifacts[i]
        /\ Number(i, j) > written => output[files[i]][Outputs[j]] = Earlier
      BY DEF WInv, WrittenSoFar
  <2> QED
      BY <1>1, <2>1, <2>2, <2>3
<1>5. FilesOnce' /\ WrittenLast' /\ ModelLast'
    BY <1>3 DEF WInv, FilesOnce, WrittenLast, ModelLast
<1> QED
    BY <1>4, <1>5 DEF WInv

LEMMA WriteWriteFails == BInv /\ WInv /\ WriteFails => WInv'
<1> SUFFICES ASSUME BInv, WInv, WriteFails PROVE WInv'
    OBVIOUS
<1>1. BuildTypeOK /\ FilesOnce /\ written \in Nat /\ files \in Seq(Paths)
    BY DEF BInv, WInv, BuildTypeOK
<1>2. /\ UNCHANGED <<files, artifacts, written>>
      /\ outcome = "running" /\ outcome' = "failed" /\ Len(artifacts) = Len(files)
    BY DEF WriteFails, Compiled
<1>3. CASE UNCHANGED <<output, model>>
    BY <1>2, <1>3, WriteKept
<1>4. CASE written < Len(files) * Len(Outputs) /\ Put(written, Torn) /\ UNCHANGED model
  <2>1. WrittenSoFar'
    <3> SUFFICES ASSUME NEW i \in 1..Len(files), NEW j \in 1..Len(Outputs)
                 PROVE  LET now == output'[files[i]][Outputs[j]] IN
                        /\ Number(i, j) < written => now = artifacts[i]
                        /\ Number(i, j) = written => now = Torn
                        /\ Number(i, j) > written => now = Earlier
        BY <1>2 DEF WrittenSoFar, Number
    <3>1. Number(i, j) \in Nat
        BY <1>1, NumberOf
    <3>2. output'[files[i]][Outputs[j]] =
            IF Number(i, j) = written THEN Torn ELSE output[files[i]][Outputs[j]]
        BY <1>1, <1>4, PutAt
    <3>3. /\ Number(i, j) < written => output[files[i]][Outputs[j]] = artifacts[i]
          /\ Number(i, j) > written => output[files[i]][Outputs[j]] = Earlier
        BY DEF WInv, WrittenSoFar
    <3> QED
        BY <1>1, <3>1, <3>2, <3>3
  <2>2. FilesOnce' /\ WrittenLast' /\ ModelLast'
      BY <1>2, <1>4 DEF WInv, FilesOnce, WrittenLast, ModelLast
  <2> QED
      BY <2>1, <2>2 DEF WInv
<1>5. CASE written = Len(files) * Len(Outputs) /\ model' = Torn /\ UNCHANGED output
  <2>1. WrittenSoFar'
      BY <1>2, <1>5 DEF WInv, WrittenSoFar, Number
  <2>2. FilesOnce' /\ WrittenLast' /\ ModelLast'
      BY <1>2, <1>5 DEF WInv, FilesOnce, WrittenLast, ModelLast
  <2> QED
      BY <2>1, <2>2 DEF WInv
<1> QED
    BY <1>3, <1>4, <1>5 DEF WriteFails

LEMMA WriteFinish == BInv /\ WInv /\ Finish => WInv'
<1> SUFFICES ASSUME BInv, WInv, Finish PROVE WInv'
    OBVIOUS
<1>1. /\ UNCHANGED <<files, artifacts, written, output>>
      /\ outcome = "running" /\ outcome' = "done" /\ Len(artifacts) = Len(files)
      /\ model' = model \/ (model' = artifacts /\ written = Len(files) * Len(Outputs))
    BY DEF Finish, Compiled
<1>2. WrittenSoFar'
    BY <1>1 DEF WInv, WrittenSoFar, Number
<1>3. FilesOnce' /\ WrittenLast' /\ ModelLast'
    BY <1>1 DEF WInv, FilesOnce, WrittenLast, ModelLast
<1> QED
    BY <1>2, <1>3 DEF WInv

LEMMA WriteNextInv == BInv /\ WInv /\ [BuildNext]_<<vars, buildVars>> => WInv'
<1> SUFFICES ASSUME BInv, WInv, [BuildNext]_<<vars, buildVars>> PROVE WInv'
    OBVIOUS
<1>1. CASE Check \/ UserSaves \/ UNCHANGED <<vars, buildVars>>
    BY <1>1, WriteKept DEF Check, UserSaves, buildVars
<1>2. CASE Reject
    BY <1>2, WriteKept DEF Reject
<1>3. CASE Compile
    BY <1>3, WriteCompile
<1>4. CASE Write
    BY <1>4, WriteWrite
<1>5. CASE WriteFails
    BY <1>5, WriteWriteFails
<1>6. CASE Finish
    BY <1>6, WriteFinish
<1> QED
    BY <1>1, <1>2, <1>3, <1>4, <1>5, <1>6 DEF BuildNext, Build

LEMMA WriteInductive == ASSUME EachListedOnce PROVE BuildSpec => [](BInv /\ WInv)
<1>1. BuildInit => BInv /\ WInv
    BY BuildInitInv, WriteInit
<1>2. BInv /\ WInv /\ [BuildNext]_<<vars, buildVars>> => (BInv /\ WInv)'
    BY BuildNextInv, WriteNextInv
<1> QED
    BY <1>1, <1>2, PTL DEF BuildSpec

-----------------------------------------------------------------------------
(* When no file is listed twice, whatever write fails, no output on disk is *)
(* newer than one that is written before it.                                *)
THEOREM SafeWritesInOrder == ASSUME EachListedOnce PROVE BuildSpec => []WritesInOrder
<1>1. ASSUME BInv, WInv PROVE WritesInOrder
  <2> SUFFICES ASSUME NEW p \in 1..Len(files), NEW q \in 1..Len(files),
                      NEW i \in 1..Len(Outputs), NEW j \in 1..Len(Outputs),
                      New(files[q], Outputs[j])
               PROVE  /\ p < q \/ (p = q /\ i < j) => output[files[p]][Outputs[i]] = artifacts[p]
                      /\ \/ output[files[q]][Outputs[j]] = artifacts[q]
                         \/ output[files[q]][Outputs[j]] = Torn /\ outcome = "failed"
      BY DEF WritesInOrder
  <2>1. written \in Nat /\ p \in Nat \ {0} /\ q \in Nat \ {0}
      BY <1>1 DEF BInv, BuildTypeOK
  <2>2. Number(p, i) \in Nat /\ Number(q, j) \in Nat
      BY <2>1, NumberOf
  <2>3. p < q => Number(p, i) < Number(q, j)
      BY <2>1, NumberOf
  <2>4. p = q /\ i < j => Number(p, i) < Number(q, j)
    <3> SUFFICES ASSUME p = q, i < j PROVE Number(p, i) < Number(p, j)
        OBVIOUS
    <3>1. (p - 1) * Len(Outputs) \in Nat
        BY <2>1, OutputCount, Z3
    <3> QED
        BY <3>1 DEF Number
  <2>5. Number(q, j) <= written
      BY <1>1, <2>1, <2>2 DEF WInv, WrittenSoFar, New
  <2>6. p < q \/ (p = q /\ i < j) => output[files[p]][Outputs[i]] = artifacts[p]
      BY <1>1, <2>1, <2>2, <2>3, <2>4, <2>5 DEF WInv, WrittenSoFar
  <2>7. \/ output[files[q]][Outputs[j]] = artifacts[q]
        \/ output[files[q]][Outputs[j]] = Torn /\ outcome = "failed"
      BY <1>1, <2>1, <2>2, <2>5 DEF WInv, WrittenSoFar, New
  <2> QED
      BY <2>6, <2>7
<1> QED
    BY <1>1, WriteInductive, PTL

(* When no file is listed twice, the project's model is replaced after all  *)
(* outputs and agrees with them.                                            *)
THEOREM SafeModelMatches == ASSUME EachListedOnce PROVE BuildSpec => []ModelMatches
<1>1. ASSUME BInv, WInv PROVE ModelMatches
  <2> SUFFICES ASSUME model # Earlier, NEW i \in 1..Len(files), NEW o \in ToSet(Outputs)
               PROVE  /\ output[files[i]][o] = artifacts[i]
                      /\ model # Torn => model[i] = artifacts[i]
      BY DEF ModelMatches
  <2>1. PICK j \in 1..Len(Outputs) : o = Outputs[j]
      BY DEF ToSet
  <2>2. written = Len(files) * Len(Outputs) /\ (model = artifacts \/ model = Torn)
      BY <1>1 DEF WInv, ModelLast
  <2>3. Len(files) \in Nat /\ i \in Nat \ {0} /\ Len(files) + 1 \in Nat \ {0} /\ 1 \in 1..Len(Outputs)
      BY <1>1, OutputCount DEF BInv, BuildTypeOK
  <2>4. Number(i, j) < Number(Len(files) + 1, 1)
      BY <2>3, NumberOf
  <2>5. Number(Len(files) + 1, 1) = written
      BY <2>2, <2>3, OutputCount, Z3 DEF Number
  <2>6. output[files[i]][Outputs[j]] = artifacts[i]
      BY <1>1, <2>4, <2>5 DEF WInv, WrittenSoFar
  <2> QED
      BY <2>1, <2>2, <2>6
<1> QED
    BY <1>1, WriteInductive, PTL

=============================================================================
