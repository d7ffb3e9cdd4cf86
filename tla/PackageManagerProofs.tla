------------------------ MODULE PackageManagerProofs ------------------------
(* Theorems about PackageManager: what lock, store, config and bundle hold, *)
(* for every set of packages, whatever they depend on, and every number of  *)
(* commands, each of which may end at any step.                             *)
EXTENDS PackageManager, SequenceTheorems, FiniteSetTheorems, TLAPS

-----------------------------------------------------------------------------
(* The inductive invariant.  A package a command has visited is one whose   *)
(* dependencies are being installed (it has a frame on the stack), the one  *)
(* being stored, or settled: stored at the version the command will write   *)
(* in the lock, and so are its dependencies.                                *)
Fetching == pc \in {"fetching", "storing"}

Unwritten == Fetching \/ pc \in {"config", "lock"}

InProgress(p) == Fetching /\ \E i \in 2..Len(stack) : stack[i].self[1] = p

BeingStored(p) == pc = "storing" /\ Head(Top.todo)[1] = p

Settled(p, pins) ==
  /\ disk[p] \in Versions
  /\ pins[p] = disk[p]
  /\ \A d \in ToSet(Deps[p][disk[p]]) : d[1] \in seen

FrameHeld(i) ==
  LET r == stack[i].self IN
  /\ r \in Request
  /\ r[1] \in seen
  /\ disk[r[1]] = r[2]
  /\ \A d \in ToSet(Deps[r[1]][r[2]]) : d[1] \in seen \/ d \in ToSet(stack[i].todo)

FramesHeld ==
  Fetching =>
    /\ stack # <<>>
    /\ \A i \in 2..Len(stack) : FrameHeld(i)
    /\ \A i, j \in 2..Len(stack) : stack[i].self[1] = stack[j].self[1] => i = j

StoringOne ==
  pc = "storing" =>
    /\ Top.todo # <<>>
    /\ Head(Top.todo)[1] \in seen
    /\ ~InProgress(Head(Top.todo)[1])

VisitedHeld ==
  Unwritten => \A p \in seen : InProgress(p) \/ BeingStored(p) \/ Settled(p, newLock)

WrittenHeld == pc \in {"bundle", "ok"} => \A p \in seen : Settled(p, lock)

SeenIsDirty == Unwritten => seen \subseteq dirty

OthersKept == Unwritten => \A p \in Packages \ seen : newLock[p] \in {lock[p], None}

\* `install` without names asks for all the config requires.
AllAsked ==
  command = "install all" =>
    /\ pc # "config"
    /\ Fetching => \A p \in Required(config) : p \in seen \/ \E v \in Versions : <<p, v>> \in ToSet(stack[1].todo)
    /\ pc \in {"lock", "bundle", "ok"} => Required(config) \subseteq seen

CanUseBundle ==
  pc = "ok" => \A p \in Required(config) : lock[p] # None /\ disk[p] # None /\ bundle[p] # None

IInv ==
  /\ TypeOK
  /\ FramesHeld
  /\ StoringOne
  /\ VisitedHeld
  /\ WrittenHeld
  /\ SeenIsDirty
  /\ OthersKept
  /\ AllAsked
  /\ CanUseBundle
  /\ PinsAreStored

-----------------------------------------------------------------------------
\* What a sequence holds, after its head and before its last element.
LEMMA HeadTail ==
  ASSUME NEW S, NEW s \in Seq(S), s # <<>>
  PROVE  /\ Head(s) \in S
         /\ Head(s) \in ToSet(s)
         /\ Tail(s) \in Seq(S)
         /\ \A q \in ToSet(s) : q = Head(s) \/ q \in ToSet(Tail(s))
         /\ ToSet(Tail(s)) \subseteq ToSet(s)
<1>1. Len(s) \in Nat /\ Len(s) > 0 /\ DOMAIN s = 1..Len(s)
    BY EmptySeq, LenProperties
<1>2. /\ Tail(s) \in Seq(S) /\ Len(Tail(s)) = Len(s) - 1
      /\ \A i \in 1..Len(Tail(s)) : Tail(s)[i] = s[i + 1]
    BY HeadTailProperties
<1>3. Head(s) = s[1] /\ 1 \in DOMAIN s
    BY <1>1
<1>4. DOMAIN Tail(s) = 1..(Len(s) - 1)
    BY <1>2, LenProperties
<1>5. ASSUME NEW i \in 1..Len(s), i # 1 PROVE s[i] \in ToSet(Tail(s))
  <2>1. i - 1 \in DOMAIN Tail(s) /\ Tail(s)[i - 1] = s[i]
      BY <1>1, <1>2, <1>4, <1>5
  <2> QED
      BY <2>1 DEF ToSet
<1>6. ASSUME NEW i \in 1..(Len(s) - 1) PROVE s[i + 1] \in ToSet(s)
  <2>1. i + 1 \in DOMAIN s
      BY <1>1
  <2> QED
      BY <2>1 DEF ToSet
<1>7. \A q \in ToSet(s) : q = Head(s) \/ q \in ToSet(Tail(s))
    BY <1>1, <1>3, <1>5 DEF ToSet
<1>8. ToSet(Tail(s)) \subseteq ToSet(s)
    BY <1>2, <1>4, <1>6 DEF ToSet
<1>9. Head(s) \in ToSet(s)
    BY <1>3 DEF ToSet
<1> QED
    BY <1>2, <1>3, <1>7, <1>8, <1>9, HeadTailProperties

\* Keeping a prefix of a sequence.
LEMMA KeepPrefix ==
  ASSUME NEW S, NEW s \in Seq(S), NEW m \in Nat, m <= Len(s),
         NEW q, q = SubSeq(s, 1, m)
  PROVE  /\ q \in Seq(S)
         /\ Len(q) = m
         /\ \A d \in 1..m : q[d] = s[d]
OBVIOUS

\* What is left of a sequence without its last element.
LEMMA FrontOf ==
  ASSUME NEW S, NEW s \in Seq(S), s # <<>>
  PROVE  /\ Front(s) \in Seq(S)
         /\ Len(s) \in Nat /\ Len(s) > 0
         /\ Len(Front(s)) = Len(s) - 1
         /\ \A i \in 1..(Len(s) - 1) : Front(s)[i] = s[i]
<1>1. Len(s) \in Nat /\ Len(s) > 0
    OBVIOUS
<1> DEFINE q == SubSeq(s, 1, Len(s) - 1)
<1>2. q \in Seq(S) /\ Len(q) = Len(s) - 1 /\ \A i \in 1..(Len(s) - 1) : q[i] = s[i]
  <2> DEFINE m == Len(s) - 1
  <2>1. m \in Nat /\ m <= Len(s) /\ q = SubSeq(s, 1, m)
      BY <1>1
  <2> HIDE DEF m, q
  <2>2. q \in Seq(S) /\ Len(q) = m /\ \A d \in 1..m : q[d] = s[d]
      BY <2>1, KeepPrefix
  <2> QED
      BY <2>2 DEF m
<1>3. Front(s) = q
    BY DEF Front
<1> HIDE DEF q
<1> QED
    BY <1>1, <1>2, <1>3

\* The innermost frame of a stack.
LEMMA TypeFacts ==
  ASSUME TypeOK
  PROVE  /\ stack \in Seq(Frame)
         /\ Len(stack) \in Nat
         /\ \A i \in 1..Len(stack) : stack[i] \in Frame
         /\ stack # <<>> => Len(stack) > 0 /\ Top = stack[Len(stack)] /\ Top \in Frame /\ Top.todo \in Seq(Request)
<1>0. stack \in Seq(Frame)
    BY DEF TypeOK
<1>1. stack \in Seq(Frame) /\ Len(stack) \in Nat /\ \A i \in 1..Len(stack) : stack[i] \in Frame
    BY <1>0
<1>2. ASSUME stack # <<>> PROVE Len(stack) > 0 /\ Top = stack[Len(stack)] /\ Top \in Frame /\ Top.todo \in Seq(Request)
  <2>1. Len(stack) > 0
      BY <1>1, <1>2, EmptySeq
  <2>2. Top = stack[Len(stack)]
      BY DEF Top, Last
  <2> QED
      BY <1>1, <2>1, <2>2 DEF Frame
<1> QED
    BY <1>1, <1>2

\* The first request of the innermost frame is taken off.
LEMMA TakeRequest ==
  ASSUME TypeOK, stack # <<>>, Top.todo # <<>>,
         NEW s, s = [stack EXCEPT ![Len(stack)].todo = Tail(@)]
  PROVE  /\ Head(Top.todo) \in Request
         /\ s \in Seq(Frame)
         /\ Len(s) = Len(stack)
         /\ \A i \in 1..Len(stack) : s[i].self = stack[i].self
         /\ \A i \in 1..Len(stack), r \in Request :
              r \in ToSet(stack[i].todo) => r \in ToSet(s[i].todo) \/ (i = Len(stack) /\ r = Head(Top.todo))
<1>1. /\ stack \in Seq(Frame)
      /\ Len(stack) \in Nat /\ Len(stack) > 0
      /\ Top = stack[Len(stack)]
      /\ Top.todo \in Seq(Request)
      /\ \A i \in 1..Len(stack) : stack[i] \in Frame
    BY TypeFacts
<1>2. /\ Head(Top.todo) \in Request
      /\ Tail(Top.todo) \in Seq(Request)
      /\ \A q \in ToSet(Top.todo) : q = Head(Top.todo) \/ q \in ToSet(Tail(Top.todo))
    BY <1>1, HeadTail
<1>3. Len(s) = Len(stack) /\ DOMAIN s = 1..Len(stack)
    BY <1>1
<1>4. s[Len(stack)] = [Top EXCEPT !.todo = Tail(@)] /\ \A i \in 1..Len(stack) : i # Len(stack) => s[i] = stack[i]
  <2>1. Len(stack) \in DOMAIN stack /\ DOMAIN stack = 1..Len(stack)
      BY <1>1
  <2>2. s[Len(stack)] = [stack[Len(stack)] EXCEPT !.todo = Tail(@)]
      BY <2>1
  <2> QED
      BY <1>1, <2>1, <2>2
<1>5. Top \in Frame
    BY <1>1
<1>6. s[Len(stack)] \in Frame /\ s[Len(stack)].self = Top.self /\ s[Len(stack)].todo = Tail(Top.todo)
    BY <1>2, <1>4, <1>5 DEF Frame
<1>7. s \in Seq(Frame)
    BY <1>1, <1>3, <1>4, <1>6
<1> QED
    BY <1>1, <1>2, <1>3, <1>4, <1>6, <1>7

-----------------------------------------------------------------------------
LEMMA InitInv == Init => IInv
<1> SUFFICES ASSUME Init PROVE IInv
    OBVIOUS
<1>1. TypeOK
  <2>1. Nothing \in Pins /\ Nothing \in Stored /\ Nothing \in [Packages -> Sources]
      BY DEF Nothing, Pins, Stored, Sources
  <2>2. stack \in Seq(Frame) /\ Len(stack) = 0
      BY EmptySeq DEF Init
  <2>3. Cardinality(Packages) \in Nat
      BY PackagesAssumption, FS_CardinalityType
  <2>4. commands \in 0..MaxCommands
      BY PackagesAssumption DEF Init
  <2> QED
      BY <2>1, <2>2, <2>3, <2>4 DEF Init, TypeOK
<1>2. FramesHeld /\ StoringOne /\ VisitedHeld /\ WrittenHeld /\ SeenIsDirty /\ OthersKept
    BY DEF Init, FramesHeld, StoringOne, VisitedHeld, WrittenHeld, SeenIsDirty, OthersKept, Unwritten, Fetching
<1>3. AllAsked /\ CanUseBundle /\ PinsAreStored
    BY DEF Init, AllAsked, CanUseBundle, PinsAreStored, Nothing, Required
<1> QED
    BY <1>1, <1>2, <1>3 DEF IInv

LEMMA Singleton ==
  ASSUME NEW S, NEW b \in S
  PROVE  <<b>> \in Seq(S) /\ Len(<<b>>) = 1 /\ <<b>>[1] = b /\ <<b>> # <<>>
OBVIOUS

LEMMA OneCommandMore ==
  ASSUME IInv, commands < MaxCommands, commands' = commands + 1
  PROVE  commands' \in 0..MaxCommands
<1>1. commands \in 0..MaxCommands
    BY DEF IInv, TypeOK
<1>2. MaxCommands \in Nat
    BY PackagesAssumption
<1> QED
    BY <1>1, <1>2

\* What holds of the stack of a command that begins.
LEMMA OneFrame ==
  ASSUME NEW s, Len(s) = 1, NEW c \in Nat
  PROVE  Len(s) <= c + 1 /\ \A i \in 2..Len(s) : FALSE
OBVIOUS

\* A command begins to install its requests.
LEMMA StartInstall ==
  ASSUME IInv, NEW name \in {"install all", "install", "update"}, Starts(name),
         newConfig' \in [Packages -> Sources],
         NEW requests \in Seq(Request), Installs(requests),
         name = "install all" =>
           \A p \in Required(config) : \E v \in Versions : <<p, v>> \in ToSet(requests)
  PROVE  IInv'
<1> DEFINE bottom == [self |-> None, todo |-> requests]
<1>0. stack' = <<bottom>> /\ bottom \in Frame /\ bottom.todo = requests
    BY DEF Installs, Frame
<1> HIDE DEF bottom
<1>1. stack' \in Seq(Frame) /\ Len(stack') = 1 /\ stack'[1].todo = requests /\ stack' # <<>>
    BY <1>0, Singleton
<1>2. pc' = "fetching" /\ newLock' = lock /\ seen' = {} /\ command' = name
    BY DEF Installs, Starts
<1>3. UNCHANGED <<config, lock, disk, bundle, dirty>> /\ commands' = commands + 1 /\ commands < MaxCommands
    BY DEF Starts
<1>4. TypeOK'
  <2>1. stack' \in Seq(Frame)
      BY <1>1
  <2>2. Cardinality(Packages) \in Nat
      BY PackagesAssumption, FS_CardinalityType
  <2>3. commands' \in 0..MaxCommands
      BY <1>3, OneCommandMore
  <2>0. Len(stack') = 1
      BY <1>1
  <2>4. Len(stack') <= Cardinality(Packages) + 1
      BY <2>0, <2>2, OneFrame
  <2> QED
      BY <1>2, <1>3, <2>1, <2>3, <2>4 DEF IInv, TypeOK, Pins
<1>5. FramesHeld' /\ StoringOne' /\ VisitedHeld' /\ WrittenHeld' /\ SeenIsDirty'
  <2>0. Len(stack') = 1
      BY <1>1
  <2>1. \A i \in 2..Len(stack') : FALSE
      BY <2>0, OneFrame
  <2>2. FramesHeld'
      BY <1>1, <2>1 DEF FramesHeld
  <2> QED
      BY <1>2, <2>2 DEF StoringOne, VisitedHeld, WrittenHeld, SeenIsDirty
<1>6. OthersKept' /\ CanUseBundle' /\ PinsAreStored'
    BY <1>2, <1>3 DEF IInv, OthersKept, CanUseBundle, PinsAreStored
<1>7. AllAsked'
  <2> QED
      BY <1>1, <1>2, <1>3 DEF AllAsked, Required
<1> QED
    BY <1>4, <1>5, <1>6, <1>7 DEF IInv

LEMMA InstallAllInv == IInv /\ InstallAll => IInv'
<1> SUFFICES ASSUME IInv, InstallAll PROVE IInv'
    OBVIOUS
<1>1. PICK latest \in [Packages -> Versions], ids \in [1..Cardinality(Required(config)) -> Required(config)] :
        /\ Range(ids) = Required(config)
        /\ Installs([i \in DOMAIN ids |->
             <<ids[i], IF config[ids[i]] = Latest THEN latest[ids[i]] ELSE config[ids[i]]>>])
    BY DEF InstallAll
<1> DEFINE version(p) == IF config[p] = Latest THEN latest[p] ELSE config[p]
           n == Cardinality(Required(config))
           requests == [i \in 1..n |-> <<ids[i], version(ids[i])>>]
<1>2. \A p \in Required(config) : p \in Packages /\ version(p) \in Versions
    BY DEF IInv, TypeOK, Required, Sources
<1>3. n \in Nat
    BY PackagesAssumption, FS_Subset, FS_CardinalityType DEF Required
<1>4. \A i \in 1..n : ids[i] \in Required(config)
    OBVIOUS
<1>5. requests \in Seq(Request)
  <2>1. \A i \in 1..n : <<ids[i], version(ids[i])>> \in Request
      BY <1>2, <1>4 DEF Request
  <2> HIDE DEF version, n
  <2> QED
      BY <1>3, <2>1
<1>6. \A p \in Required(config) : \E v \in Versions : <<p, v>> \in ToSet(requests)
  <2> SUFFICES ASSUME NEW p \in Required(config) PROVE \E v \in Versions : <<p, v>> \in ToSet(requests)
      OBVIOUS
  <2>1. PICK i \in 1..n : ids[i] = p
      BY <1>1 DEF Range
  <2>2. DOMAIN requests = 1..n /\ requests[i] = <<p, version(p)>>
      BY <2>1
  <2>3. <<p, version(p)>> \in ToSet(requests)
      BY <2>2 DEF ToSet
  <2> QED
      BY <1>2, <2>3
<1>7. Installs(requests)
    BY <1>1
<1>8. Starts("install all") /\ newConfig' \in [Packages -> Sources]
    BY DEF InstallAll, IInv, TypeOK
<1> HIDE DEF requests
<1> QED
    BY <1>5, <1>6, <1>7, <1>8, StartInstall

LEMMA OneRequest ==
  ASSUME NEW p \in Packages, NEW v \in Versions
  PROVE  << <<p, v>> >> \in Seq(Request)
BY DEF Request

LEMMA InstallPackageInv ==
  ASSUME IInv, NEW p \in Packages, NEW v \in Versions, NEW source \in Sources,
         InstallPackage(p, v, source) \/ UpdatePackage(p, v, source)
  PROVE  IInv'
<1>1. newConfig' \in [Packages -> Sources]
    BY DEF IInv, TypeOK, InstallPackage, UpdatePackage
<1>2. Installs(<< <<p, v>> >>)
    BY DEF InstallPackage, UpdatePackage
<1>3. CASE InstallPackage(p, v, source)
  <2>1. Starts("install")
      BY <1>3 DEF InstallPackage
  <2> QED
      BY <1>1, <1>2, <2>1, OneRequest, StartInstall
<1>4. CASE UpdatePackage(p, v, source)
  <2>1. Starts("update")
      BY <1>4 DEF UpdatePackage
  <2> QED
      BY <1>1, <1>2, <2>1, OneRequest, StartInstall
<1> QED
    BY <1>3, <1>4

LEMMA RemovePackagesInv ==
  ASSUME IInv, NEW gone \in SUBSET Packages, RemovePackages(gone)
  PROVE  IInv'
<1>1. /\ pc' = "config" /\ command' = "remove" /\ stack' = <<>> /\ seen' = {}
      /\ newConfig' = [p \in Packages |-> IF p \in gone THEN None ELSE config[p]]
      /\ newLock' = [p \in Packages |-> IF p \in Required(newConfig') THEN lock[p] ELSE None]
      /\ UNCHANGED <<config, lock, disk, bundle, dirty>>
      /\ commands' = commands + 1 /\ commands < MaxCommands
    BY DEF RemovePackages, Starts
<1>2. TypeOK'
  <2>1. newConfig' \in [Packages -> Sources]
      BY <1>1 DEF IInv, TypeOK, Sources
  <2>2. newLock' \in Pins
      BY <1>1 DEF IInv, TypeOK, Pins
  <2>3. stack' \in Seq(Frame) /\ Len(stack') = 0
      BY <1>1, EmptySeq
  <2>4. Cardinality(Packages) \in Nat
      BY PackagesAssumption, FS_CardinalityType
  <2>5. commands' \in 0..MaxCommands
      BY <1>1, OneCommandMore
  <2>6. Len(stack') <= Cardinality(Packages) + 1
      BY <2>3, <2>4
  <2> QED
      BY <1>1, <2>1, <2>2, <2>3, <2>5, <2>6 DEF IInv, TypeOK
<1>3. FramesHeld' /\ StoringOne' /\ VisitedHeld' /\ WrittenHeld' /\ SeenIsDirty' /\ AllAsked' /\ CanUseBundle'
    BY <1>1 DEF FramesHeld, StoringOne, VisitedHeld, WrittenHeld, SeenIsDirty, AllAsked, CanUseBundle, Fetching
<1>4. OthersKept' /\ PinsAreStored'
    BY <1>1 DEF IInv, OthersKept, PinsAreStored
<1> QED
    BY <1>2, <1>3, <1>4 DEF IInv

-----------------------------------------------------------------------------
\* One lemma per step of a command: first those that install.
LEMMA SkipSeenInv == IInv /\ SkipSeen => IInv'
<1> SUFFICES ASSUME IInv, SkipSeen PROVE IInv'
    OBVIOUS
<1> DEFINE h == Head(Top.todo)
<1>0. /\ TypeOK /\ FramesHeld /\ VisitedHeld /\ SeenIsDirty /\ OthersKept /\ AllAsked /\ PinsAreStored
      /\ pc = "fetching" /\ Top.todo # <<>> /\ h[1] \in seen
      /\ stack' = [stack EXCEPT ![Len(stack)].todo = Tail(@)]
      /\ UNCHANGED <<config, lock, disk, bundle, command, pc, newConfig, newLock, seen, dirty, commands>>
    BY DEF IInv, SkipSeen
<1>1. stack # <<>> /\ Len(stack) \in Nat
    BY <1>0, TypeFacts DEF FramesHeld, Fetching
<1>2. PICK s : s = stack'
    OBVIOUS
<1>3. /\ h \in Request
      /\ s \in Seq(Frame)
      /\ Len(s) = Len(stack)
      /\ \A i \in 1..Len(stack) : s[i].self = stack[i].self
      /\ \A i \in 1..Len(stack), r \in Request :
           r \in ToSet(stack[i].todo) => r \in ToSet(s[i].todo) \/ (i = Len(stack) /\ r = h)
    BY <1>0, <1>1, <1>2, TakeRequest
<1> HIDE DEF h
<1>4. TypeOK'
    BY <1>0, <1>2, <1>3 DEF TypeOK
<1>5. FramesHeld'
  <2>1. stack' # <<>>
      BY <1>1, <1>2, <1>3, EmptySeq, TypeFacts, <1>0
  <2>2. ASSUME NEW i \in 2..Len(s) PROVE FrameHeld(i)'
    <3>1. i \in 1..Len(stack) /\ i \in 2..Len(stack)
        BY <1>1, <1>3
    <3>2. FrameHeld(i)
        BY <1>0, <3>1 DEF FramesHeld, Fetching
    <3>3. \A d \in ToSet(Deps[stack[i].self[1]][stack[i].self[2]]) : d \in Request
        BY <3>2, PackagesAssumption DEF FrameHeld, Request, ToSet
    <3> QED
        BY <1>0, <1>2, <1>3, <3>1, <3>2, <3>3 DEF FrameHeld
  <2>3. \A i, j \in 2..Len(s) : s[i].self[1] = s[j].self[1] => i = j
      BY <1>0, <1>1, <1>3 DEF FramesHeld, Fetching
  <2> QED
      BY <1>2, <2>1, <2>2, <2>3 DEF FramesHeld
<1>6. VisitedHeld'
  <2>1. \A p : InProgress(p) => InProgress(p)'
      BY <1>0, <1>1, <1>2, <1>3 DEF InProgress, Fetching
  <2> QED
      BY <1>0, <2>1 DEF VisitedHeld, Unwritten, Fetching, BeingStored, Settled
<1>7. AllAsked'
  <2>1. 1 \in 1..Len(stack)
      BY <1>1, <1>0, TypeFacts
  <2>2. ASSUME NEW p \in Packages, NEW v \in Versions, <<p, v>> \in ToSet(stack[1].todo)
        PROVE  p \in seen \/ <<p, v>> \in ToSet(s[1].todo)
    <3>1. <<p, v>> \in Request
        BY DEF Request
    <3>2. <<p, v>> \in ToSet(s[1].todo) \/ <<p, v>> = h
        BY <1>3, <2>1, <2>2, <3>1
    <3> QED
        BY <1>0, <3>2
  <2>3. stack'[1] = s[1]
      BY <1>2
  <2> QED
      BY <1>0, <2>2, <2>3 DEF AllAsked, Fetching, Required
<1> QED
    BY <1>0, <1>4, <1>5, <1>6, <1>7
       DEF IInv, StoringOne, WrittenHeld, SeenIsDirty, OthersKept, CanUseBundle, PinsAreStored, Unwritten, Fetching

LEMMA FetchInv == IInv /\ Fetch => IInv'
<1> SUFFICES ASSUME IInv, Fetch PROVE IInv'
    OBVIOUS
<1> DEFINE p == Head(Top.todo)[1]
<1>0. /\ TypeOK /\ FramesHeld /\ VisitedHeld /\ SeenIsDirty /\ OthersKept /\ AllAsked /\ PinsAreStored
      /\ pc = "fetching" /\ Top.todo # <<>>
      /\ p \notin seen
      /\ seen' = seen \cup {p}
      /\ disk' = [disk EXCEPT ![p] = None]
      /\ dirty' = dirty \cup {p}
      /\ pc' = "storing"
      /\ UNCHANGED <<config, lock, bundle, command, newConfig, newLock, stack, commands>>
    BY DEF IInv, Fetch
<1>1. stack # <<>> /\ Len(stack) \in Nat
    BY <1>0, TypeFacts DEF FramesHeld, Fetching
<1>2. p \in Packages
  <2>1. Head(Top.todo) \in Request
      BY <1>0, <1>1, TypeFacts, HeadTail
  <2> QED
      BY <2>1 DEF Request
<1>3. Top' = Top
    BY <1>0 DEF Top
<1>4. Head(Top.todo)[1]' = p
    BY <1>3
<1> HIDE DEF p
<1>5. TypeOK'
    BY <1>0, <1>2 DEF TypeOK, Stored
<1>6. \A q \in Packages : q # p => disk'[q] = disk[q]
    BY <1>0 DEF TypeOK, Stored
<1>7. ASSUME NEW i \in 2..Len(stack) PROVE FrameHeld(i)' /\ stack[i].self[1] # p
  <2>1. FrameHeld(i)
      BY <1>0 DEF FramesHeld, Fetching
  <2> QED
      BY <1>0, <1>6, <2>1 DEF FrameHeld, Request, TypeOK
<1>8. FramesHeld'
    BY <1>0, <1>7 DEF FramesHeld, Fetching
<1>9. StoringOne'
    BY <1>0, <1>3, <1>4, <1>7 DEF StoringOne, InProgress
<1>10. VisitedHeld'
  <2> SUFFICES ASSUME NEW q \in seen' PROVE InProgress(q)' \/ BeingStored(q)' \/ Settled(q, newLock)'
      BY DEF VisitedHeld
  <2>1. CASE q = p
      BY <1>0, <1>4, <2>1 DEF BeingStored
  <2>2. CASE q # p
    <3>1. q \in seen /\ q \in Packages
        BY <1>0, <2>2 DEF TypeOK
    <3>2. CASE InProgress(q)
        BY <1>0, <3>2 DEF InProgress, Fetching
    <3>3. CASE Settled(q, newLock)
        BY <1>0, <1>6, <2>2, <3>1, <3>3 DEF Settled
    <3> QED
        BY <1>0, <3>1, <3>2, <3>3 DEF VisitedHeld, Unwritten, Fetching, BeingStored
  <2> QED
      BY <2>1, <2>2
<1>11. PinsAreStored'
    BY <1>0, <1>6 DEF PinsAreStored
<1> QED
    BY <1>0, <1>5, <1>8, <1>9, <1>10, <1>11
       DEF IInv, WrittenHeld, SeenIsDirty, OthersKept, AllAsked, CanUseBundle, Unwritten, Fetching, Required

LEMMA StoreSomeInv == IInv /\ StoreSome => IInv'
<1> SUFFICES ASSUME IInv, StoreSome PROVE IInv'
    OBVIOUS
<1> DEFINE p == Head(Top.todo)[1]
<1>0. /\ TypeOK /\ FramesHeld /\ StoringOne /\ VisitedHeld /\ SeenIsDirty /\ OthersKept /\ AllAsked /\ PinsAreStored
      /\ pc = "storing"
      /\ p \in seen
      /\ disk' = [disk EXCEPT ![p] = Partial]
      /\ UNCHANGED <<config, lock, bundle, command, pc, newConfig, newLock, stack, seen, dirty, commands>>
    BY DEF IInv, StoreSome, StoringOne
<1>1. Top' = Top
    BY <1>0 DEF Top
<1>2. p' = p
    BY <1>1
<1>3. \A i \in 2..Len(stack) : stack[i].self[1] # p
    BY <1>0 DEF StoringOne, InProgress, Fetching
<1> HIDE DEF p
<1>4. TypeOK'
    BY <1>0 DEF TypeOK, Stored
<1>5. \A q \in Packages : q # p => disk'[q] = disk[q]
    BY <1>0 DEF TypeOK, Stored
<1>6. ASSUME NEW i \in 2..Len(stack) PROVE FrameHeld(i)'
  <2>1. FrameHeld(i)
      BY <1>0 DEF FramesHeld, Fetching
  <2> QED
      BY <1>0, <1>3, <1>5, <2>1 DEF FrameHeld, Request, TypeOK
<1>7. FramesHeld'
    BY <1>0, <1>6 DEF FramesHeld, Fetching
<1>8. StoringOne'
    BY <1>0, <1>1 DEF StoringOne, InProgress, Fetching
<1>9. VisitedHeld'
  <2> SUFFICES ASSUME NEW q \in seen' PROVE InProgress(q)' \/ BeingStored(q)' \/ Settled(q, newLock)'
      BY DEF VisitedHeld
  <2>1. CASE q = p
      BY <1>0, <1>1, <2>1 DEF BeingStored, p
  <2>2. CASE q # p
    <3>1. q \in seen /\ q \in Packages
        BY <1>0, <2>2 DEF TypeOK
    <3>2. CASE InProgress(q)
        BY <1>0, <3>2 DEF InProgress, Fetching
    <3>3. CASE Settled(q, newLock)
        BY <1>0, <1>5, <2>2, <3>1, <3>3 DEF Settled
    <3>4. ~BeingStored(q)
        BY <2>2 DEF BeingStored, p
    <3> QED
        BY <1>0, <3>1, <3>2, <3>3, <3>4 DEF VisitedHeld, Unwritten, Fetching
  <2> QED
      BY <2>1, <2>2
<1>10. PinsAreStored'
  <2>1. p \in dirty
      BY <1>0 DEF SeenIsDirty, Unwritten, Fetching
  <2> QED
      BY <1>0, <1>5, <2>1 DEF PinsAreStored
<1> QED
    BY <1>0, <1>4, <1>7, <1>8, <1>9, <1>10
       DEF IInv, WrittenHeld, SeenIsDirty, OthersKept, AllAsked, CanUseBundle, Unwritten, Fetching, Required

\* The stack while installing: its frames are of different visited packages,
\* so it is never deeper than there are packages.
LEMMA StackDepth ==
  ASSUME NEW s \in Seq(Frame), NEW v \in SUBSET Packages,
         \A i \in 2..Len(s) : s[i].self[1] \in v,
         \A i, j \in 2..Len(s) : s[i].self[1] = s[j].self[1] => i = j
  PROVE  Len(s) <= Cardinality(Packages) + 1
<1>1. Len(s) \in Nat
    OBVIOUS
<1>2. IsFiniteSet(v) /\ Cardinality(v) <= Cardinality(Packages) /\ Cardinality(v) \in Nat /\ Cardinality(Packages) \in Nat
    BY PackagesAssumption, FS_Subset, FS_CardinalityType
<1> DEFINE I == 2..Len(s)
           f == [i \in I |-> s[i].self[1]]
<1>3. f \in Injection(I, v)
    BY DEF Injection, IsInjective
<1>4. IsFiniteSet(I) /\ Cardinality(I) = IF 2 > Len(s) THEN 0 ELSE Len(s) - 2 + 1
    BY <1>1, FS_Interval
<1>5. Cardinality(I) <= Cardinality(v)
    BY <1>2, <1>3, <1>4, FS_Injection
<1> HIDE DEF I
<1> QED
    BY <1>1, <1>2, <1>4, <1>5

\* What a sequence holds once an element is appended.
LEMMA Appended ==
  ASSUME NEW S, NEW s \in Seq(S), NEW b \in S
  PROVE  /\ Append(s, b) \in Seq(S)
         /\ Len(s) \in Nat
         /\ Len(Append(s, b)) = Len(s) + 1
         /\ \A i \in 1..Len(s) : Append(s, b)[i] = s[i]
         /\ Append(s, b)[Len(s) + 1] = b
OBVIOUS

LEMMA StoreInv == IInv /\ Store => IInv'
<1> SUFFICES ASSUME IInv, Store PROVE IInv'
    OBVIOUS
<1> DEFINE h == Head(Top.todo)
           s == [stack EXCEPT ![Len(stack)].todo = Tail(@)]
           frame == [self |-> <<h[1], h[2]>>, todo |-> Deps[h[1]][h[2]]]
<1>0. /\ TypeOK /\ FramesHeld /\ StoringOne /\ VisitedHeld /\ SeenIsDirty /\ OthersKept /\ AllAsked /\ PinsAreStored
      /\ pc = "storing" /\ pc' = "fetching" /\ Top.todo # <<>>
      /\ h[1] \in seen
      /\ disk' = [disk EXCEPT ![h[1]] = h[2]]
      /\ stack' = Append(s, frame)
      /\ UNCHANGED <<config, lock, bundle, command, newConfig, newLock, seen, dirty, commands>>
    BY DEF IInv, Store, StoringOne
<1>1. stack # <<>> /\ Len(stack) \in Nat /\ Len(stack) > 0
    BY <1>0, TypeFacts DEF FramesHeld, Fetching
<1>2. /\ h \in Request
      /\ s \in Seq(Frame)
      /\ Len(s) = Len(stack)
      /\ \A i \in 1..Len(stack) : s[i].self = stack[i].self
      /\ \A i \in 1..Len(stack), r \in Request :
           r \in ToSet(stack[i].todo) => r \in ToSet(s[i].todo) \/ (i = Len(stack) /\ r = h)
    BY <1>0, <1>1, TakeRequest
<1>3. \A i \in 2..Len(stack) : stack[i].self[1] # h[1]
    BY <1>0 DEF StoringOne, InProgress, Fetching
<1>4. h[1] \in Packages /\ h[2] \in Versions /\ h = <<h[1], h[2]>>
    BY <1>2 DEF Request
<1>5. frame \in Frame /\ frame.self = h /\ frame.todo = Deps[h[1]][h[2]]
  <2>1. Deps[h[1]][h[2]] \in Seq(Request)
      BY <1>4, PackagesAssumption DEF Request
  <2> QED
      BY <1>2, <1>4, <2>1 DEF Frame
<1>6. \A q \in Packages : q # h[1] => disk'[q] = disk[q]
    BY <1>0 DEF TypeOK, Stored
<1>7. disk' \in Stored /\ disk'[h[1]] = h[2]
    BY <1>0, <1>4 DEF TypeOK, Stored
<1>8. PICK t : t = stack'
    OBVIOUS
<1> HIDE DEF s, frame
<1>9. /\ t \in Seq(Frame)
      /\ Len(t) = Len(stack) + 1
      /\ \A i \in 1..Len(stack) : t[i] = s[i]
      /\ t[Len(stack) + 1] = frame
    BY <1>0, <1>2, <1>5, <1>8, Appended
<1> HIDE DEF h
<1>10. \A i \in 2..Len(t) : i \in 2..Len(stack) \/ i = Len(stack) + 1
    BY <1>1, <1>9
<1>11. \A i \in 2..Len(stack) : i \in 1..Len(stack) /\ i \in 2..Len(t)
    BY <1>1, <1>9
<1>12. ASSUME NEW i \in 2..Len(t) PROVE FrameHeld(i)'
  <2>1. CASE i \in 2..Len(stack)
    <3>1. FrameHeld(i)
        BY <1>0, <2>1 DEF FramesHeld, Fetching
    <3>2. t[i].self = stack[i].self /\ t[i] = s[i]
        BY <1>2, <1>9, <1>11, <2>1
    <3>3. \A d \in ToSet(Deps[stack[i].self[1]][stack[i].self[2]]) : d \in Request
        BY <3>1, PackagesAssumption DEF FrameHeld, Request, ToSet
    <3>4. disk'[stack[i].self[1]] = disk[stack[i].self[1]]
        BY <1>3, <1>6, <2>1, <3>1 DEF FrameHeld, Request
    <3> QED
        BY <1>0, <1>2, <1>8, <1>11, <2>1, <3>1, <3>2, <3>3, <3>4 DEF FrameHeld
  <2>2. CASE i = Len(stack) + 1
      BY <1>0, <1>2, <1>5, <1>7, <1>8, <1>9, <2>2 DEF FrameHeld
  <2> QED
      BY <1>10, <2>1, <2>2
<1>13. \A i, j \in 2..Len(t) : t[i].self[1] = t[j].self[1] => i = j
  <2>1. \A i, j \in 2..Len(stack) : stack[i].self[1] = stack[j].self[1] => i = j
      BY <1>0 DEF FramesHeld, Fetching
  <2>2. \A i \in 2..Len(stack) : t[i].self = stack[i].self
      BY <1>2, <1>9, <1>11
  <2>3. t[Len(stack) + 1].self[1] = h[1]
      BY <1>5, <1>9
  <2> QED
      BY <1>3, <1>10, <2>1, <2>2, <2>3
<1>14. t # <<>>
    BY <1>1, <1>9, EmptySeq
<1>15. FramesHeld'
    BY <1>8, <1>12, <1>13, <1>14 DEF FramesHeld
<1>16. TypeOK'
  <2>1. \A i \in 2..Len(t) : t[i].self[1] \in seen
      BY <1>0, <1>8, <1>12 DEF FrameHeld
  <2>2. seen \in SUBSET Packages
      BY <1>0 DEF TypeOK
  <2>3. Len(t) <= Cardinality(Packages) + 1
      BY <1>9, <1>13, <2>1, <2>2, StackDepth
  <2> QED
      BY <1>0, <1>7, <1>8, <1>9, <2>3 DEF TypeOK
<1>17. VisitedHeld'
  <2> SUFFICES ASSUME NEW q \in seen' PROVE InProgress(q)' \/ Settled(q, newLock)'
      BY DEF VisitedHeld
  <2>1. CASE q = h[1]
    <3>1. Len(stack) + 1 \in 2..Len(t) /\ t[Len(stack) + 1].self[1] = q
        BY <1>1, <1>5, <1>9, <2>1
    <3> QED
        BY <1>0, <1>8, <3>1 DEF InProgress, Fetching
  <2>2. CASE q # h[1]
    <3>1. q \in seen /\ q \in Packages
        BY <1>0, <2>2 DEF TypeOK
    <3>2. CASE InProgress(q)
      <4>1. PICK i \in 2..Len(stack) : stack[i].self[1] = q
          BY <3>2 DEF InProgress
      <4>2. i \in 2..Len(t) /\ t[i].self[1] = q
          BY <1>2, <1>9, <1>11, <4>1
      <4> QED
          BY <1>0, <1>8, <4>2 DEF InProgress, Fetching
    <3>3. CASE Settled(q, newLock)
        BY <1>0, <1>6, <2>2, <3>1, <3>3 DEF Settled
    <3>4. ~BeingStored(q)
        BY <2>2 DEF BeingStored, h
    <3> QED
        BY <1>0, <3>1, <3>2, <3>3, <3>4 DEF VisitedHeld, Unwritten, Fetching
  <2> QED
      BY <2>1, <2>2
<1>18. PinsAreStored'
  <2>1. h[1] \in dirty
      BY <1>0 DEF SeenIsDirty, Unwritten, Fetching
  <2> QED
      BY <1>0, <1>6, <2>1 DEF PinsAreStored
<1>19. AllAsked'
  <2>1. 1 \in 1..Len(stack)
      BY <1>1
  <2>2. ASSUME NEW p \in Packages, NEW v \in Versions, <<p, v>> \in ToSet(stack[1].todo)
        PROVE  p \in seen \/ <<p, v>> \in ToSet(t[1].todo)
    <3>1. <<p, v>> \in Request
        BY DEF Request
    <3>2. <<p, v>> \in ToSet(s[1].todo) \/ <<p, v>> = h
        BY <1>2, <2>1, <2>2, <3>1
    <3> QED
        BY <1>0, <1>9, <2>1, <3>2
  <2>3. stack'[1] = t[1]
      BY <1>8
  <2> QED
      BY <1>0, <2>2, <2>3 DEF AllAsked, Fetching, Required
<1> QED
    BY <1>0, <1>15, <1>16, <1>17, <1>18, <1>19
       DEF IInv, StoringOne, WrittenHeld, SeenIsDirty, OthersKept, CanUseBundle, Unwritten, Fetching

LEMMA PinInv == IInv /\ Pin => IInv'
<1> SUFFICES ASSUME IInv, Pin PROVE IInv'
    OBVIOUS
<1> DEFINE n == Len(stack)
<1>p. PICK p, v : p = Top.self[1] /\ v = Top.self[2]
    OBVIOUS
<1>0. /\ TypeOK /\ FramesHeld /\ VisitedHeld /\ SeenIsDirty /\ OthersKept /\ AllAsked /\ PinsAreStored
      /\ pc = "fetching" /\ n > 1 /\ Top.todo = <<>>
      /\ newLock' = [newLock EXCEPT ![p] = v]
      /\ stack' = Front(stack)
      /\ UNCHANGED <<config, lock, disk, bundle, command, pc, newConfig, seen, dirty, commands>>
    BY <1>p DEF IInv, Pin
<1>1. stack # <<>> /\ stack \in Seq(Frame) /\ n \in Nat /\ Top = stack[n]
    BY <1>0, TypeFacts DEF FramesHeld, Fetching
<1>2. PICK t : t = stack'
    OBVIOUS
<1>3. t \in Seq(Frame) /\ Len(t) = n - 1 /\ \A i \in 1..(n - 1) : t[i] = stack[i]
    BY <1>0, <1>1, <1>2, FrontOf
<1>4. n \in 2..n /\ 1 \in 1..(n - 1)
    BY <1>0, <1>1
<1>5. /\ Top.self \in Request /\ p \in seen /\ disk[p] = v
      /\ \A d \in ToSet(Deps[p][v]) : d[1] \in seen
  <2>1. FrameHeld(n)
      BY <1>0, <1>4 DEF FramesHeld, Fetching
  <2>2. ToSet(Top.todo) = {}
      BY <1>0 DEF ToSet
  <2> QED
      BY <1>1, <1>p, <2>1, <2>2 DEF FrameHeld
<1>6. p \in Packages /\ v \in Versions
    BY <1>5, <1>p DEF Request
<1>7. \A i \in 2..Len(t) : i \in 2..n /\ i \in 1..(n - 1)
    BY <1>1, <1>3
<1>8. \A i \in 2..n : i = n \/ i \in 2..Len(t)
    BY <1>1, <1>3
<1> HIDE DEF n
<1>9. TypeOK'
  <2>1. newLock' \in Pins
      BY <1>0, <1>6 DEF TypeOK, Pins
  <2>2. n <= Cardinality(Packages) + 1 /\ Cardinality(Packages) \in Nat
      BY <1>0, PackagesAssumption, FS_CardinalityType DEF TypeOK, n
  <2>3. Len(t) <= Cardinality(Packages) + 1
      BY <1>1, <1>3, <2>2
  <2> QED
      BY <1>0, <1>2, <1>3, <2>1, <2>3 DEF TypeOK
<1>10. FramesHeld'
  <2>1. t # <<>>
      BY <1>0, <1>1, <1>3, EmptySeq
  <2>2. ASSUME NEW i \in 2..Len(t) PROVE FrameHeld(i)'
    <3>1. FrameHeld(i)
        BY <1>0, <1>7 DEF FramesHeld, Fetching, n
    <3>2. t[i] = stack[i]
        BY <1>3, <1>7
    <3> QED
        BY <1>0, <1>2, <3>1, <3>2 DEF FrameHeld
  <2>3. \A i, j \in 2..Len(t) : t[i].self[1] = t[j].self[1] => i = j
    <3>1. \A i, j \in 2..n : stack[i].self[1] = stack[j].self[1] => i = j
        BY <1>0 DEF FramesHeld, Fetching, n
    <3> QED
        BY <1>3, <1>7, <3>1
  <2> QED
      BY <1>2, <2>1, <2>2, <2>3 DEF FramesHeld
<1>11. \A q \in Packages : q # p => newLock'[q] = newLock[q]
    BY <1>0 DEF TypeOK, Pins
<1>12. newLock'[p] = v
    BY <1>0, <1>6 DEF TypeOK, Pins
<1>13. Settled(p, newLock)'
    BY <1>0, <1>5, <1>6, <1>12 DEF Settled
<1>14. VisitedHeld'
  <2> SUFFICES ASSUME NEW q \in seen' PROVE InProgress(q)' \/ Settled(q, newLock)'
      BY DEF VisitedHeld
  <2>1. CASE q = p
      BY <1>13, <2>1
  <2>2. CASE q # p
    <3>1. q \in seen /\ q \in Packages
        BY <1>0, <2>2 DEF TypeOK
    <3>2. CASE InProgress(q)
      <4>1. PICK i \in 2..n : stack[i].self[1] = q
          BY <3>2 DEF InProgress, n
      <4>2. i \in 2..Len(t)
          BY <1>1, <1>p, <1>8, <2>2, <4>1
      <4>3. t[i].self[1] = q
          BY <1>3, <1>7, <4>1, <4>2
      <4> QED
          BY <1>0, <1>2, <4>2, <4>3 DEF InProgress, Fetching
    <3>3. CASE Settled(q, newLock)
        BY <1>0, <1>11, <2>2, <3>1, <3>3 DEF Settled
    <3> QED
        BY <1>0, <3>1, <3>2, <3>3 DEF VisitedHeld, Unwritten, Fetching, BeingStored
  <2> QED
      BY <2>1, <2>2
<1>15. OthersKept'
    BY <1>0, <1>5, <1>11 DEF OthersKept, Unwritten, Fetching
<1>16. AllAsked'
  <2>1. stack'[1] = stack[1]
      BY <1>2, <1>3, <1>4
  <2> QED
      BY <1>0, <2>1 DEF AllAsked, Fetching, Required
<1> QED
    BY <1>0, <1>9, <1>10, <1>14, <1>15, <1>16
       DEF IInv, StoringOne, WrittenHeld, SeenIsDirty, CanUseBundle, PinsAreStored, Unwritten, Fetching

LEMMA HoldsNothing == ToSet(<<>>) = {}
BY DEF ToSet

LEMMA InstalledInv == IInv /\ Installed => IInv'
<1> SUFFICES ASSUME IInv, Installed PROVE IInv'
    OBVIOUS
<1>0. /\ TypeOK /\ FramesHeld /\ VisitedHeld /\ SeenIsDirty /\ OthersKept /\ AllAsked /\ PinsAreStored
      /\ pc = "fetching" /\ Len(stack) = 1 /\ Top.todo = <<>>
      /\ stack' = <<>>
      /\ pc' = IF command = "install all" THEN "lock" ELSE "config"
      /\ UNCHANGED <<config, lock, disk, bundle, command, newConfig, newLock, seen, dirty, commands>>
    BY DEF IInv, Installed
<1>1. TypeOK'
  <2>1. stack' \in Seq(Frame) /\ Len(stack') = 0
      BY <1>0, EmptySeq
  <2>2. Cardinality(Packages) \in Nat
      BY PackagesAssumption, FS_CardinalityType
  <2>3. Len(stack') <= Cardinality(Packages) + 1
      BY <2>1, <2>2
  <2> QED
      BY <1>0, <2>1, <2>3 DEF TypeOK
<1>2. \A p : ~InProgress(p)
    BY <1>0, OneFrame DEF InProgress
<1>3. \A p \in seen : Settled(p, newLock)
    BY <1>0, <1>2 DEF VisitedHeld, Unwritten, Fetching, BeingStored
<1>4. VisitedHeld'
    BY <1>0, <1>3 DEF VisitedHeld, Settled
<1>5. AllAsked'
  <2>1. stack # <<>> /\ Top = stack[1]
      BY <1>0, TypeFacts DEF FramesHeld, Fetching
  <2>0. ToSet(Top.todo) = {}
      BY <1>0, HoldsNothing
  <2>2. ToSet(stack[1].todo) = {}
      BY <2>0, <2>1
  <2>3. command = "install all" => Required(config) \subseteq seen
      BY <1>0, <2>2 DEF AllAsked, Fetching
  <2> QED
      BY <1>0, <2>3 DEF AllAsked, Fetching, Required
<1> QED
    BY <1>0, <1>1, <1>4, <1>5
       DEF IInv, FramesHeld, StoringOne, WrittenHeld, SeenIsDirty, OthersKept, CanUseBundle, PinsAreStored, Unwritten, Fetching

-----------------------------------------------------------------------------
\* The steps that write, and those that may come at any point.
LEMMA WriteConfigInv == IInv /\ WriteConfig => IInv'
<1> SUFFICES ASSUME IInv, WriteConfig PROVE IInv'
    OBVIOUS
<1>0. /\ TypeOK /\ VisitedHeld /\ SeenIsDirty /\ OthersKept /\ AllAsked /\ PinsAreStored
      /\ pc = "config" /\ pc' = "lock" /\ config' = newConfig
      /\ UNCHANGED <<lock, disk, bundle, command, newConfig, newLock, stack, seen, dirty, commands>>
    BY DEF IInv, WriteConfig
<1>1. command # "install all"
    BY <1>0 DEF AllAsked
<1>2. TypeOK'
    BY <1>0 DEF TypeOK
<1>3. VisitedHeld'
    BY <1>0 DEF VisitedHeld, Unwritten, Fetching, InProgress, BeingStored, Settled
<1> QED
    BY <1>0, <1>1, <1>2, <1>3
       DEF IInv, FramesHeld, StoringOne, WrittenHeld, SeenIsDirty, OthersKept, AllAsked, CanUseBundle, PinsAreStored,
           Unwritten, Fetching

LEMMA WriteLockInv == IInv /\ WriteLock => IInv'
<1> SUFFICES ASSUME IInv, WriteLock PROVE IInv'
    OBVIOUS
<1>0. /\ TypeOK /\ VisitedHeld /\ SeenIsDirty /\ OthersKept /\ AllAsked /\ PinsAreStored
      /\ pc = "lock" /\ pc' = "bundle" /\ lock' = newLock /\ dirty' = dirty \ seen
      /\ UNCHANGED <<config, disk, bundle, command, newConfig, newLock, stack, seen, commands>>
    BY DEF IInv, WriteLock
<1>1. TypeOK'
    BY <1>0 DEF TypeOK
<1>2. \A p \in seen : Settled(p, newLock)
    BY <1>0 DEF VisitedHeld, Unwritten, Fetching, InProgress, BeingStored
<1>3. WrittenHeld'
    BY <1>0, <1>2 DEF WrittenHeld, Settled
<1>4. PinsAreStored'
  <2> SUFFICES ASSUME NEW p \in Packages, p \notin dirty', lock'[p] # None
               PROVE  disk'[p] = lock'[p]
      BY DEF PinsAreStored
  <2>1. CASE p \in seen
      BY <1>0, <1>2, <2>1 DEF Settled
  <2>2. CASE p \notin seen
    <3>1. p \notin dirty /\ newLock[p] \in {lock[p], None}
        BY <1>0, <2>2 DEF OthersKept, Unwritten
    <3> QED
        BY <1>0, <3>1 DEF PinsAreStored
  <2> QED
      BY <2>1, <2>2
<1> QED
    BY <1>0, <1>1, <1>3, <1>4
       DEF IInv, FramesHeld, StoringOne, VisitedHeld, SeenIsDirty, OthersKept, AllAsked, CanUseBundle,
           Unwritten, Fetching, Required

\* What packages.luau holds when it is made.
LEMMA BundledFacts ==
  ASSUME TypeOK
  PROVE  /\ Bundled \in Stored
         /\ CanBundle => \A p \in Required(config) : lock[p] # None /\ disk[p] # None /\ Bundled[p] # None
BY DEF TypeOK, Stored, Bundled, CanBundle, Required

LEMMA BundleInv == IInv /\ Bundle => IInv'
<1> SUFFICES ASSUME IInv, Bundle PROVE IInv'
    OBVIOUS
<1>0. /\ TypeOK /\ WrittenHeld /\ AllAsked /\ PinsAreStored
      /\ pc = "bundle" /\ pc' \in {"ok", "failed"}
      /\ UNCHANGED <<config, lock, disk, command, newConfig, newLock, stack, seen, dirty, commands>>
    BY DEF IInv, Bundle
<1>1. bundle' = bundle \/ bundle' = Bundled
    BY DEF Bundle
<1>2. TypeOK'
    BY <1>0, <1>1, BundledFacts DEF TypeOK
<1>3. WrittenHeld'
    BY <1>0 DEF WrittenHeld, Settled
<1>4. CanUseBundle'
    BY <1>0, BundledFacts DEF Bundle, CanUseBundle, Required
<1> QED
    BY <1>0, <1>2, <1>3, <1>4
       DEF IInv, FramesHeld, StoringOne, VisitedHeld, SeenIsDirty, OthersKept, AllAsked, PinsAreStored,
           Unwritten, Fetching, Required

LEMMA InterruptInv == IInv /\ Interrupt => IInv'
<1> SUFFICES ASSUME IInv, Interrupt PROVE IInv'
    OBVIOUS
<1>0. /\ pc' = "failed"
      /\ UNCHANGED <<config, lock, disk, bundle, command, newConfig, newLock, stack, seen, dirty, commands>>
    BY DEF Interrupt
<1>1. TypeOK'
    BY <1>0 DEF IInv, TypeOK
<1> QED
    BY <1>0, <1>1
       DEF IInv, FramesHeld, StoringOne, VisitedHeld, WrittenHeld, SeenIsDirty, OthersKept, AllAsked, CanUseBundle,
           PinsAreStored, Unwritten, Fetching

\* A build beside the command, and a step that changes nothing.
LEMMA BundleOnlyInv ==
  ASSUME IInv,
         (Build \/ UNCHANGED vars)
  PROVE  IInv'
<1>0. UNCHANGED <<config, lock, disk, command, pc, newConfig, newLock, stack, seen, dirty, commands>>
    BY DEF Build, vars
<1>1. bundle' = bundle \/ (CanBundle /\ bundle' = Bundled)
    BY DEF Build, vars
<1>2. TypeOK'
    BY <1>0, <1>1, BundledFacts DEF IInv, TypeOK
<1>3. \A i : FrameHeld(i)' <=> FrameHeld(i)
    BY <1>0 DEF FrameHeld
<1>4. \A p : (InProgress(p)' <=> InProgress(p)) /\ (BeingStored(p)' <=> BeingStored(p))
    BY <1>0 DEF InProgress, BeingStored, Fetching, Top
<1>5. \A p : (Settled(p, lock)' <=> Settled(p, lock)) /\ (Settled(p, newLock)' <=> Settled(p, newLock))
    BY <1>0 DEF Settled
<1>6. FramesHeld' /\ StoringOne'
    BY <1>0, <1>3, <1>4 DEF IInv, FramesHeld, StoringOne, Fetching, Top
<1>7. VisitedHeld' /\ WrittenHeld' /\ SeenIsDirty' /\ OthersKept'
    BY <1>0, <1>4, <1>5 DEF IInv, VisitedHeld, WrittenHeld, SeenIsDirty, OthersKept, Unwritten, Fetching
<1>8. AllAsked' /\ PinsAreStored'
    BY <1>0 DEF IInv, AllAsked, PinsAreStored, Fetching, Required
<1>9. CanUseBundle'
  <2>1. CASE bundle' = bundle
      BY <1>0, <2>1 DEF IInv, CanUseBundle, Required
  <2>2. CASE CanBundle /\ bundle' = Bundled
      BY <1>0, <2>2, BundledFacts DEF IInv, CanUseBundle, Required
  <2> QED
      BY <1>1, <2>1, <2>2
<1> QED
    BY <1>2, <1>6, <1>7, <1>8, <1>9 DEF IInv

\* Every step keeps the invariant.
LEMMA NextInv == IInv /\ [Next]_vars => IInv'
BY InstallAllInv, InstallPackageInv, RemovePackagesInv, SkipSeenInv, FetchInv, StoreSomeInv, StoreInv, PinInv,
   InstalledInv, WriteConfigInv, WriteLockInv, BundleInv, InterruptInv, BundleOnlyInv
   DEF Next, Step

LEMMA Invariant == Spec => []IInv
BY InitInv, NextInv, PTL DEF Spec

-----------------------------------------------------------------------------
(* Every variable keeps its type; the recursion of installs is never deeper *)
(* than there are packages, also when dependencies are circular.            *)
THEOREM TypeCorrect == Spec => []TypeOK
<1>1. IInv => TypeOK
    BY DEF IInv
<1> QED
    BY <1>1, Invariant, PTL

(* What the lock says of a package is what is stored, except for a package  *)
(* whose directory a command replaced without getting to write its lock.    *)
THEOREM SafePinsAreStored == Spec => []PinsAreStored
<1>1. IInv => PinsAreStored
    BY DEF IInv
<1> QED
    BY <1>1, Invariant, PTL

(* A command that succeeds leaves a project that builds, and `install`      *)
(* leaves every package that is needed stored at the version in the lock.   *)
THEOREM SafeSuccessCanBuild == Spec => []SuccessCanBuild
<1>1. IInv => SuccessCanBuild
  <2> SUFFICES ASSUME IInv, pc = "ok" PROVE SuccessCanBuild
      BY DEF SuccessCanBuild
  <2>1. \A p \in Required(config) : lock[p] # None /\ disk[p] # None /\ bundle[p] # None
      BY DEF IInv, CanUseBundle
  <2>2. \A p \in seen : Settled(p, lock)
      BY DEF IInv, WrittenHeld
  <2>3. seen \in SUBSET Packages
      BY DEF IInv, TypeOK
  <2>4. ASSUME command = "install all", NEW p \in Needed PROVE lock[p] # None /\ disk[p] = lock[p]
    <3>1. Required(config) \subseteq seen
        BY <2>4 DEF IInv, AllAsked
    <3>2. \A q \in seen : disk[q] \in Versions => \A d \in ToSet(Deps[q][disk[q]]) : d[1] \in seen
        BY <2>2 DEF Settled
    <3>3. p \in seen
        BY <2>3, <2>4, <3>1, <3>2 DEF Needed
    <3> QED
        BY <2>2, <3>3, PackagesAssumption DEF Settled
  <2> QED
      BY <2>1, <2>4 DEF SuccessCanBuild
<1> QED
    BY <1>1, Invariant, PTL

-----------------------------------------------------------------------------
(* A command comes to an end: every step of it brings the end nearer, in    *)
(* the order of what is left: packages it has not seen, the phases of the   *)
(* command, installs in progress, requests of the innermost install.        *)
Phase ==
  CASE pc = "storing" -> 5
    [] pc = "fetching" -> 4
    [] pc = "config" -> 3
    [] pc = "lock" -> 2
    [] pc = "bundle" -> 1
    [] OTHER -> 0

CommandNearer ==
  \/ seen \subseteq seen' /\ seen' # seen
  \/ /\ seen' = seen
     /\ \/ Phase' < Phase
        \/ /\ Phase' = Phase
           /\ \/ Len(stack') < Len(stack)
              \/ stack # <<>> /\ Len(stack') = Len(stack) /\ Len(Top'.todo) < Len(Top.todo)

\* Phases are numbered from the first to the last.
LEMMA PhasesAre ==
  ASSUME TypeOK
  PROVE  /\ pc = "storing" => Phase = 5
         /\ pc = "fetching" => Phase = 4
         /\ pc = "config" => Phase = 3
         /\ pc = "lock" => Phase = 2
         /\ pc = "bundle" => Phase = 1
         /\ ~Running => Phase = 0
         /\ Running => Phase \in 1..5
<1>1. pc \in {"fetching", "storing", "config", "lock", "bundle", "ok", "failed"}
    BY DEF TypeOK
<1> QED
    BY <1>1 DEF Phase, Running

LEMMA SkipSeenNears == IInv /\ SkipSeen => CommandNearer
<1> SUFFICES ASSUME IInv, SkipSeen PROVE CommandNearer
    OBVIOUS
<1>1. seen' = seen /\ pc' = pc /\ pc = "fetching"
    BY DEF SkipSeen
<1>2. stack \in Seq(Frame) /\ stack # <<>> /\ Len(stack) \in 1..Len(stack)
  <2>1. stack \in Seq(Frame) /\ stack # <<>>
      BY <1>1 DEF IInv, TypeOK, FramesHeld, Fetching
  <2> QED
      BY <2>1, FrontOf
<1>3. Top = stack[Len(stack)] /\ Top \in Frame
    BY <1>2, ElementOfSeq DEF Top, Last
<1>4. Top.todo \in Seq(Request) /\ Top.todo # <<>>
    BY <1>3 DEF Frame, SkipSeen
<1>5. Len(Tail(Top.todo)) < Len(Top.todo)
    BY <1>4
<1>6. stack' = [stack EXCEPT ![Len(stack)].todo = Tail(@)]
    BY DEF SkipSeen
<1>7. Len(stack') = Len(stack) /\ stack'[Len(stack)].todo = Tail(Top.todo)
    BY <1>2, <1>3, <1>6 DEF Frame
<1>8. Top' = stack'[Len(stack')]
    BY DEF Top, Last
<1>9. Phase' = Phase
    BY <1>1 DEF Phase
<1> QED
    BY <1>1, <1>2, <1>5, <1>7, <1>8, <1>9 DEF CommandNearer

LEMMA PinNears == IInv /\ Pin => CommandNearer
<1> SUFFICES ASSUME IInv, Pin PROVE CommandNearer
    OBVIOUS
<1>1. seen' = seen /\ pc' = pc /\ pc = "fetching" /\ stack' = Front(stack)
    BY DEF Pin
<1>2. stack \in Seq(Frame) /\ stack # <<>>
    BY <1>1 DEF IInv, TypeOK, FramesHeld, Fetching
<1>3. Len(stack') < Len(stack)
    BY <1>1, <1>2, FrontOf
<1>4. Phase' = Phase
    BY <1>1 DEF Phase
<1> QED
    BY <1>1, <1>3, <1>4 DEF CommandNearer

\* The other steps see a new package or go on to a later phase.
LEMMA StepNears == IInv /\ Step => CommandNearer
<1> SUFFICES ASSUME IInv, Step PROVE CommandNearer
    OBVIOUS
<1>1. TypeOK
    BY DEF IInv
<1>2. /\ pc' = "fetching" => Phase' = 4
      /\ pc' = "config" => Phase' = 3
      /\ pc' = "lock" => Phase' = 2
      /\ pc' = "bundle" => Phase' = 1
      /\ ~Running' => Phase' = 0
    BY DEF Phase, Running
<1>3. CASE Fetch
    BY <1>3 DEF Fetch, CommandNearer
<1>4. CASE Store
  <2>1. pc = "storing" /\ pc' = "fetching" /\ seen' = seen
      BY <1>4 DEF Store
  <2> QED
      BY <1>1, <1>2, <2>1, PhasesAre DEF CommandNearer
<1>5. CASE Installed
  <2>1. pc = "fetching" /\ pc' \in {"lock", "config"} /\ seen' = seen
      BY <1>5 DEF Installed
  <2> QED
      BY <1>1, <1>2, <2>1, PhasesAre DEF CommandNearer
<1>6. CASE WriteConfig
  <2>1. pc = "config" /\ pc' = "lock" /\ seen' = seen
      BY <1>6 DEF WriteConfig
  <2> QED
      BY <1>1, <1>2, <2>1, PhasesAre DEF CommandNearer
<1>7. CASE WriteLock
  <2>1. pc = "lock" /\ pc' = "bundle" /\ seen' = seen
      BY <1>7 DEF WriteLock
  <2> QED
      BY <1>1, <1>2, <2>1, PhasesAre DEF CommandNearer
<1>8. CASE Bundle
  <2>1. pc = "bundle" /\ ~Running' /\ seen' = seen
      BY <1>8 DEF Bundle, Running
  <2> QED
      BY <1>1, <1>2, <2>1, PhasesAre DEF CommandNearer
<1> QED
    BY <1>3, <1>4, <1>5, <1>6, <1>7, <1>8, SkipSeenNears, PinNears DEF Step

(* Every step of a command brings its end nearer, and nothing else puts it  *)
(* off, be it a build beside it: there are finitely many packages, each is  *)
(* fetched once, so that installs end also when dependencies are circular   *)
(* (install_source_recursive with its set of visited packages).             *)
THEOREM CommandNears ==
  Spec => [][/\ Step => CommandNearer
             /\ Running => CommandNearer \/ UNCHANGED <<pc, seen, stack>>]_vars
<1>1. IInv /\ Next /\ Running /\ ~Step => CommandNearer \/ UNCHANGED <<pc, seen, stack>>
  <2> SUFFICES ASSUME IInv, Next, Running, ~Step PROVE CommandNearer \/ UNCHANGED <<pc, seen, stack>>
      OBVIOUS
  <2>1. StoreSome \/ Interrupt \/ Build
      BY DEF Next, InstallAll, InstallPackage, UpdatePackage, RemovePackages, Starts
  <2>2. CASE StoreSome \/ Build
      BY <2>2 DEF StoreSome, Build
  <2>3. CASE Interrupt
    <3>1. ~Running' /\ seen' = seen
        BY <2>3 DEF Interrupt, Running
    <3>2. Phase' = 0
        BY <3>1 DEF Phase, Running
    <3>3. Phase \in 1..5
        BY PhasesAre DEF IInv
    <3> QED
        BY <3>1, <3>2, <3>3 DEF CommandNearer
  <2> QED
      BY <2>1, <2>2, <2>3
<1>2. IInv /\ [Next]_vars
        => [/\ Step => CommandNearer
            /\ Running => CommandNearer \/ UNCHANGED <<pc, seen, stack>>]_vars
    BY <1>1, StepNears
<1> QED
    BY <1>2, Invariant, PTL DEF Spec

=============================================================================
