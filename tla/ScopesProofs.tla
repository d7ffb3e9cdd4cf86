---------------------------- MODULE ScopesProofs ----------------------------
(* Theorems about Scopes: however deep the constructs of a program nest, and *)
(* however many names it declares, an assignment is refused for a const that *)
(* is in scope and for no other, a state notifies its own watchers, and a    *)
(* compile-time name is the nearest declaration, at the place of the walk    *)
(* and in the body of a function that is called.  And about ComptimeWalk, at *)
(* the end: no call changes what a compile-time function captured.           *)
EXTENDS Scopes, ComptimeWalk, SequenceTheorems, WellFoundedInduction, TLAPS

-----------------------------------------------------------------------------
(* The books of the emitter, level by level: level 0 is the program, level  *)
(* k the k-th open construct.  Level k of the constructs op declares what   *)
(* stands between its base and that of level k + 1; of a stack of scopes it *)
(* has those after top[k - 1], up to top[k].                                *)
Base(op, k) == IF k = 0 THEN 0 ELSE op[k].base

\* The d-th declaration is one of level k.
InLevel(op, d, k) == Base(op, k) < d /\ (k < Len(op) => d <= Base(op, k + 1))

\* Levels begin in their order.
Bases(op, count) ==
  /\ \A i, j \in 0..Len(op) : i <= j => Base(op, i) <= Base(op, j)
  /\ Base(op, Len(op)) <= count

\* The places of a stack of `count` scopes: 1 is const_scopes, 2 state_scopes.
Layout(op, top, which, count) ==
  /\ top \in [0..Len(op) -> Nat]
  /\ top[0] = 2
  /\ \A k \in 1..Len(op) : top[k] = top[k - 1] + Pushes(op[k].kind)[which]
  /\ \A i, j \in 0..Len(op) : i <= j => top[i] <= top[j]
  /\ top[Len(op)] = count

\* Level k has a scope of its own, and place j is one.
HasScope(top, k) == k > 0 => top[k - 1] < top[k]

ScopeOf(top, j, k) == j <= top[k] /\ (k > 0 => top[k - 1] < j)

\* The walk is past the block of level k, whose scope is gone.
Ended(op, k) == k > 0 /\ op[k].kind \in {"test", "result"}

\* Every name of const_scopes is that of a const of the same level, and every
\* const is in the last scope of its level, unless its block has ended.
ConstsKept(op, ds, scopes, top) ==
  /\ \A j \in 1..Len(scopes) : \A n \in scopes[j] : \E k \in 0..Len(op), d \in 1..Len(ds) :
       ScopeOf(top, j, k) /\ InLevel(op, d, k) /\ ds[d] = [name |-> n, kind |-> "const"]
  /\ \A d \in 1..Len(ds) : ds[d].kind = "const" => \E k \in 0..Len(op) :
       /\ InLevel(op, d, k)
       /\ Ended(op, k) \/ (HasScope(top, k) /\ ds[d].name \in scopes[top[k]])

\* Every entry of state_scopes is a state of the same level, and every state
\* or a later one of its name is in the last scope of its level.
StatesKept(op, ds, scopes, top) ==
  /\ \A j \in 1..Len(scopes) : \A n \in Names : scopes[j][n] # Nothing =>
       /\ scopes[j][n] \in 1..Len(ds)
       /\ ds[scopes[j][n]] = [name |-> n, kind |-> "state"]
       /\ \E k \in 0..Len(op) : ScopeOf(top, j, k) /\ InLevel(op, scopes[j][n], k)
  /\ \A d \in 1..Len(ds) : ds[d].kind = "state" => \E k \in 0..Len(op) :
       /\ InLevel(op, d, k)
       /\ Ended(op, k) \/ (HasScope(top, k) /\ scopes[top[k]][ds[d].name] >= d)

ConstBooks ==
  \E top : Layout(open, top, 1, Len(const_scopes)) /\ ConstsKept(open, decls, const_scopes, top)

StateBooks ==
  \E top : Layout(open, top, 2, Len(state_scopes)) /\ StatesKept(open, decls, state_scopes, top)

IInv == TypeOK /\ Bases(open, Len(decls)) /\ ConstBooks /\ StateBooks

-----------------------------------------------------------------------------
\* The greatest of a set of numbers up to n.
LEMMA MaxIs ==
  ASSUME NEW n \in Nat, NEW S \in SUBSET (0..n), S # {}
  PROVE  Max(S) \in S /\ \A x \in S : x <= Max(S)
<1> DEFINE T == {n - x : x \in S}
<1>1. T \subseteq Nat /\ T # {}
  <2>1. \A x \in S : n - x \in Nat
    OBVIOUS
  <2>2. PICK x \in S : TRUE
    OBVIOUS
  <2>3. n - x \in T
    OBVIOUS
  <2> QED
    BY <2>1, <2>3
<1>2. PICK m \in T : \A y \in T : <<y, m>> \notin OpToRel(<, Nat)
  BY <1>1, NatLessThanWellFounded, WFMin
<1>3. m \in Nat /\ \A y \in T : ~(y < m)
  BY <1>1, <1>2 DEF OpToRel
<1>4. PICK x \in S : m = n - x
  OBVIOUS
<1>5. \A y \in S : x >= y
  <2> TAKE y \in S
  <2>1. ~(n - y < n - x)
    BY <1>3, <1>4
  <2> QED
    BY <2>1
<1>6. Max(S) \in S /\ \A y \in S : Max(S) >= y
  BY <1>5 DEF Max
<1> QED
  BY <1>6

\* Two halves of a sequence.
LEMMA FrontOf ==
  ASSUME NEW S, NEW s \in Seq(S), NEW m \in 0..Len(s), NEW q, q = SubSeq(s, 1, m)
  PROVE  q \in Seq(S) /\ Len(q) = m /\ \A i \in 1..m : q[i] = s[i]
OBVIOUS

LEMMA FunctionIsSeq ==
  ASSUME NEW S, NEW n \in Nat, NEW q \in [1..n -> S]
  PROVE  q \in Seq(S) /\ Len(q) = n
OBVIOUS

\* One element of a sequence replaced.
\* Names for hypotheses: x may stand at place i of s, and q has it there.
Fits(S, s, i, x) == i \in 1..Len(s) => x \in S

Replaced(s, i, x, q) == q = [s EXCEPT ![i] = x]

LEMMA ReplaceOne ==
  ASSUME NEW S, NEW s \in Seq(S), NEW i, NEW x, Fits(S, s, i, x),
         NEW q, Replaced(s, i, x, q)
  PROVE  /\ q \in Seq(S) /\ Len(q) = Len(s)
         /\ \A j \in 1..Len(s) : q[j] = IF j = i THEN x ELSE s[j]
<1>1. DOMAIN s = 1..Len(s) /\ Len(s) \in Nat /\ s \in [1..Len(s) -> S]
  BY LenProperties
<1>2. q \in [1..Len(s) -> S] /\ \A j \in 1..Len(s) : q[j] = IF j = i THEN x ELSE s[j]
  BY <1>1 DEF Fits, Replaced
<1> QED
  BY <1>1, <1>2

\* Scopes that nothing is declared in yet.
LEMMA AddScopes ==
  ASSUME NEW S, NEW s \in Seq(S), NEW m \in Nat, NEW x \in S, NEW q, q = s \o [i \in 1..m |-> x]
  PROVE  /\ q \in Seq(S) /\ Len(q) = Len(s) + m
         /\ \A j \in 1..Len(s) : q[j] = s[j]
         /\ \A j \in 1..Len(q) : j <= Len(s) \/ q[j] = x
<1>1. /\ q \in Seq(S) /\ Len(q) = Len(s) + m
      /\ \A j \in 1..Len(s) : q[j] = s[j]
      /\ \A j \in (Len(s) + 1)..(Len(s) + m) : q[j] = x
  OBVIOUS
<1>2. \A j \in 1..Len(q) : j <= Len(s) \/ j \in (Len(s) + 1)..(Len(s) + m)
  BY <1>1
<1> QED
  BY <1>1, <1>2

\* Constructs with statements have a scope of both stacks.
LEMMA PushesAre ==
  /\ \A kind \in {"block", "repeat", "do", "loop", "function", "comprehension", "test", "result"} :
       Pushes(kind)[1] \in Nat /\ Pushes(kind)[2] \in Nat
  /\ \A kind \in {"block", "repeat", "do", "loop", "function"} : Pushes(kind)[1] > 0 /\ Pushes(kind)[2] > 0
  /\ \A kind \in {"repeat", "do"} : Pushes(kind)[1] = 1 /\ Pushes(kind)[2] = 1
  /\ \A kind \in {"test", "result"} : Pushes(kind)[1] = 0 /\ Pushes(kind)[2] = 0
BY DEF Pushes

-----------------------------------------------------------------------------
\* The types of the elements of the variables.
Construct ==
  [kind : {"block", "loop", "function", "comprehension", "repeat", "do", "test", "result"},
   base : 0..MaxDecls, after : SUBSET Names]

Decl == [name : Names, kind : Kinds]

StateScope == [Names -> 0..MaxDecls]

\* What a change of the constructs, of the declarations, and of a stack of
\* which the first `left` scopes stay keeps of the levels.
Carried(op, op2, top, top2, ds, ds2, left, kind) ==
  /\ \A k \in 0..Len(op) : \A d \in 1..Len(ds) : \A j \in 1..left :
       ScopeOf(top, j, k) /\ InLevel(op, d, k) =>
         /\ k \in 0..Len(op2)
         /\ ScopeOf(top2, j, k) /\ InLevel(op2, d, k)
         /\ d \in 1..Len(ds2) /\ ds2[d] = ds[d]
  /\ \A d \in 1..Len(ds2) : \/ d \in 1..Len(ds) /\ ds2[d] = ds[d]
                            \/ ds2[d].kind # kind
  /\ \A k \in 0..Len(op) : \A d \in 1..Len(ds) : d \in 1..Len(ds2) /\ InLevel(op, d, k) =>
       /\ k \in 0..Len(op2)
       /\ InLevel(op2, d, k)
       /\ \/ Ended(op2, k)
          \/ ~Ended(op, k) /\ (HasScope(top, k) => HasScope(top2, k) /\ top2[k] = top[k] /\ top[k] <= left)

\* Levels that are carried over keep their books.
LEMMA CarryConsts ==
  ASSUME NEW op, NEW op2, NEW top, NEW top2, NEW ds, NEW ds2, NEW left \in Nat,
         NEW cs, NEW cs2, Len(cs) \in Nat, Len(cs2) \in Nat, left <= Len(cs), left <= Len(cs2),
         Carried(op, op2, top, top2, ds, ds2, left, "const"),
         ConstsKept(op, ds, cs, top),
         \A k \in 0..Len(op) : top[k] \in Nat,
         \A j \in 1..left : cs2[j] = cs[j],
         \A j \in 1..Len(cs2) : j <= left \/ cs2[j] = {},
         \A k \in 0..Len(op) : HasScope(top, k) => top[k] > 0
  PROVE  ConstsKept(op2, ds2, cs2, top2)
<1>1. ASSUME NEW j \in 1..Len(cs2), NEW n \in cs2[j]
      PROVE  \E k \in 0..Len(op2), d \in 1..Len(ds2) :
               ScopeOf(top2, j, k) /\ InLevel(op2, d, k) /\ ds2[d] = [name |-> n, kind |-> "const"]
  <2>1. j \in 1..left /\ j \in 1..Len(cs) /\ n \in cs[j]
    BY <1>1
  <2>2. PICK k \in 0..Len(op), d \in 1..Len(ds) :
          ScopeOf(top, j, k) /\ InLevel(op, d, k) /\ ds[d] = [name |-> n, kind |-> "const"]
    BY <2>1 DEF ConstsKept
  <2>3. /\ k \in 0..Len(op2) /\ ScopeOf(top2, j, k) /\ InLevel(op2, d, k)
        /\ d \in 1..Len(ds2) /\ ds2[d] = ds[d]
    BY <2>1, <2>2 DEF Carried
  <2> QED
    BY <2>2, <2>3
<1>2. ASSUME NEW d \in 1..Len(ds2), ds2[d].kind = "const"
      PROVE  \E k \in 0..Len(op2) :
               /\ InLevel(op2, d, k)
               /\ Ended(op2, k) \/ (HasScope(top2, k) /\ ds2[d].name \in cs2[top2[k]])
  <2>1. d \in 1..Len(ds) /\ ds2[d] = ds[d]
    BY <1>2 DEF Carried
  <2>2. PICK k \in 0..Len(op) :
          /\ InLevel(op, d, k)
          /\ Ended(op, k) \/ (HasScope(top, k) /\ ds[d].name \in cs[top[k]])
    BY <1>2, <2>1 DEF ConstsKept
  <2>3. /\ k \in 0..Len(op2)
        /\ InLevel(op2, d, k)
        /\ \/ Ended(op2, k)
           \/ ~Ended(op, k) /\ (HasScope(top, k) => HasScope(top2, k) /\ top2[k] = top[k] /\ top[k] <= left)
    BY <1>2, <2>1, <2>2 DEF Carried
  <2>4. CASE Ended(op2, k)
    BY <2>3, <2>4
  <2>5. CASE ~Ended(op2, k)
    <3>1. HasScope(top, k) /\ HasScope(top2, k) /\ top2[k] = top[k] /\ top[k] <= left
      BY <2>2, <2>3, <2>5
    <3>2. top[k] \in 1..left
      BY <3>1
    <3> QED
      BY <2>1, <2>2, <2>3, <2>5, <3>1, <3>2
  <2> QED
    BY <2>4, <2>5
<1> QED
  BY <1>1, <1>2 DEF ConstsKept

LEMMA CarryStates ==
  ASSUME NEW op, NEW op2, NEW top, NEW top2, NEW ds, NEW ds2, NEW left \in Nat,
         NEW ss, NEW ss2, Len(ss) \in Nat, Len(ss2) \in Nat, left <= Len(ss), left <= Len(ss2),
         Carried(op, op2, top, top2, ds, ds2, left, "state"),
         StatesKept(op, ds, ss, top),
         \A k \in 0..Len(op) : top[k] \in Nat,
         \A j \in 1..left : ss2[j] = ss[j],
         \A j \in 1..Len(ss2) : j <= left \/ ss2[j] = NoStates,
         \A k \in 0..Len(op) : HasScope(top, k) => top[k] > 0
  PROVE  StatesKept(op2, ds2, ss2, top2)
<1>1. ASSUME NEW j \in 1..Len(ss2), NEW n \in Names, ss2[j][n] # Nothing
      PROVE  /\ ss2[j][n] \in 1..Len(ds2)
             /\ ds2[ss2[j][n]] = [name |-> n, kind |-> "state"]
             /\ \E k \in 0..Len(op2) : ScopeOf(top2, j, k) /\ InLevel(op2, ss2[j][n], k)
  <2>1. j \in 1..left /\ j \in 1..Len(ss) /\ ss2[j] = ss[j]
    BY <1>1 DEF NoStates
  <2>2. PICK d : d = ss[j][n]
    OBVIOUS
  <2>3. d \in 1..Len(ds) /\ ds[d] = [name |-> n, kind |-> "state"]
    BY <1>1, <2>1, <2>2 DEF StatesKept
  <2>4. PICK k \in 0..Len(op) : ScopeOf(top, j, k) /\ InLevel(op, d, k)
    BY <1>1, <2>1, <2>2 DEF StatesKept
  <2>5. /\ k \in 0..Len(op2) /\ ScopeOf(top2, j, k) /\ InLevel(op2, d, k)
        /\ d \in 1..Len(ds2) /\ ds2[d] = ds[d]
    BY <2>1, <2>3, <2>4 DEF Carried
  <2> QED
    BY <2>1, <2>2, <2>3, <2>5
<1>2. ASSUME NEW d \in 1..Len(ds2), ds2[d].kind = "state"
      PROVE  \E k \in 0..Len(op2) :
               /\ InLevel(op2, d, k)
               /\ Ended(op2, k) \/ (HasScope(top2, k) /\ ss2[top2[k]][ds2[d].name] >= d)
  <2>1. d \in 1..Len(ds) /\ ds2[d] = ds[d]
    BY <1>2 DEF Carried
  <2>2. PICK k \in 0..Len(op) :
          /\ InLevel(op, d, k)
          /\ Ended(op, k) \/ (HasScope(top, k) /\ ss[top[k]][ds[d].name] >= d)
    BY <1>2, <2>1 DEF StatesKept
  <2>3. /\ k \in 0..Len(op2)
        /\ InLevel(op2, d, k)
        /\ \/ Ended(op2, k)
           \/ ~Ended(op, k) /\ (HasScope(top, k) => HasScope(top2, k) /\ top2[k] = top[k] /\ top[k] <= left)
    BY <1>2, <2>1, <2>2 DEF Carried
  <2>4. CASE Ended(op2, k)
    BY <2>3, <2>4
  <2>5. CASE ~Ended(op2, k)
    <3>1. HasScope(top, k) /\ HasScope(top2, k) /\ top2[k] = top[k] /\ top[k] <= left
      BY <2>2, <2>3, <2>5
    <3>2. top[k] \in 1..left
      BY <3>1
    <3> QED
      BY <2>1, <2>2, <2>3, <2>5, <3>1, <3>2
  <2> QED
    BY <2>4, <2>5
<1> QED
  BY <1>1, <1>2 DEF StatesKept

\* Every scope has a positive place.
LEMMA PlacesArePositive ==
  ASSUME NEW op, Len(op) \in Nat, NEW top, NEW which, NEW count, Layout(op, top, which, count)
  PROVE  /\ count \in Nat /\ count >= 2
         /\ \A k \in 0..Len(op) : top[k] \in 2..count
<1>1. \A k \in 0..Len(op) : top[k] \in Nat
  BY DEF Layout
<1>2. \A k \in 0..Len(op) : top[0] <= top[k] /\ top[k] <= top[Len(op)]
  BY DEF Layout
<1> QED
  BY <1>1, <1>2 DEF Layout

-----------------------------------------------------------------------------
\* A construct is entered.
LEMMA EnterBases ==
  ASSUME NEW op \in Seq(Construct), NEW count \in Nat, Bases(op, count),
         NEW f \in Construct, f.base >= count, NEW op2, op2 = Append(op, f)
  PROVE  Bases(op2, f.base)
<1>1. /\ Len(op) \in Nat /\ Len(op2) = Len(op) + 1 /\ op2[Len(op) + 1] = f
      /\ \A k \in 1..Len(op) : op2[k] = op[k] /\ op[k] \in Construct
  BY AppendProperties
<1>2. \A c \in Construct : c.base \in Nat
  BY BoundsAssumption DEF Construct
<1>3. \A k \in 0..Len(op) : Base(op2, k) = Base(op, k) /\ Base(op, k) \in Nat
  BY <1>1, <1>2 DEF Base
<1>4. Base(op2, Len(op) + 1) = f.base /\ f.base \in Nat
  BY <1>1, <1>2 DEF Base
<1>5. \A k \in 0..Len(op) : Base(op, k) <= count
  <2>1. \A k \in 0..Len(op) : Base(op, k) <= Base(op, Len(op)) /\ Base(op, Len(op)) <= count
    BY <1>1 DEF Bases
  <2> QED
    BY <1>1, <1>3, <2>1
<1>6. ASSUME NEW i \in 0..Len(op2), NEW j \in 0..Len(op2), i <= j
      PROVE  Base(op2, i) <= Base(op2, j)
  <2>1. CASE j \in 0..Len(op)
    <3>1. i \in 0..Len(op)
      BY <1>1, <1>6, <2>1
    <3> QED
      BY <1>3, <1>6, <2>1, <3>1 DEF Bases
  <2>2. CASE j = Len(op) + 1
    <3>1. i \in 0..Len(op) \/ i = j
      BY <1>1, <1>6, <2>2
    <3> QED
      BY <1>3, <1>4, <1>5, <2>2, <3>1
  <2> QED
    BY <1>1, <2>1, <2>2
<1> QED
  BY <1>1, <1>3, <1>4, <1>5, <1>6 DEF Bases

\* Entering keeps all levels and adds one of locals.
LEMMA EnterCarries ==
  ASSUME NEW op \in Seq(Construct), NEW ds \in Seq(Decl), NEW ds2 \in Seq(Decl), Bases(op, Len(ds)),
         NEW f \in Construct, f.base >= Len(ds), NEW op2, op2 = Append(op, f),
         NEW top, NEW which \in {1, 2}, NEW count, Layout(op, top, which, count),
         Len(ds2) >= Len(ds),
         NEW kept \in {"const", "state"},
         \A d \in 1..Len(ds2) : IF d <= Len(ds) THEN ds2[d] = ds[d] ELSE ds2[d].kind = "local"
  PROVE  \E top2 : /\ Layout(op2, top2, which, count + Pushes(f.kind)[which])
                   /\ Carried(op, op2, top, top2, ds, ds2, count, kept)
<1>1. /\ Len(op) \in Nat /\ Len(op2) = Len(op) + 1 /\ op2[Len(op) + 1] = f
      /\ \A k \in 1..Len(op) : op2[k] = op[k]
      /\ Len(ds) \in Nat /\ Len(ds2) \in Nat
  BY AppendProperties
<1>2. PICK p : p = Pushes(f.kind)[which]
  OBVIOUS
<1>3. p \in Nat
  BY <1>2, PushesAre DEF Construct
<1> DEFINE top2 == [k \in 0..(Len(op) + 1) |-> IF k <= Len(op) THEN top[k] ELSE count + p]
<1>4. \A k \in 0..Len(op) : top[k] \in Nat /\ top[k] <= count
  BY <1>1, PlacesArePositive
<1>5. count \in Nat /\ top[Len(op)] = count
  BY <1>1, PlacesArePositive DEF Layout
<1>6. /\ \A k \in 0..Len(op) : top2[k] = top[k]
      /\ top2[Len(op) + 1] = count + p
      /\ top2 \in [0..Len(op2) -> Nat]
  BY <1>1, <1>3, <1>4, <1>5
<1> HIDE DEF top2
<1>7. Layout(op2, top2, which, count + p)
  <2>1. top2[0] = 2
    BY <1>1, <1>6 DEF Layout
  <2>2. ASSUME NEW k \in 1..Len(op2) PROVE top2[k] = top2[k - 1] + Pushes(op2[k].kind)[which]
    <3>1. CASE k <= Len(op)
      <4>1. k \in 1..Len(op) /\ k - 1 \in 0..Len(op) /\ k \in 0..Len(op)
        BY <1>1, <3>1
      <4> QED
        BY <1>1, <1>6, <4>1 DEF Layout
    <3>2. CASE k = Len(op) + 1
      <4>1. k - 1 = Len(op) /\ Len(op) \in 0..Len(op)
        BY <1>1, <3>2
      <4> QED
        BY <1>1, <1>2, <1>5, <1>6, <3>2, <4>1
    <3> QED
      BY <1>1, <3>1, <3>2
  <2>3. ASSUME NEW i \in 0..Len(op2), NEW j \in 0..Len(op2), i <= j PROVE top2[i] <= top2[j]
    <3>1. CASE j \in 0..Len(op)
      <4>1. i \in 0..Len(op)
        BY <1>1, <2>3, <3>1
      <4> QED
        BY <1>6, <2>3, <3>1, <4>1 DEF Layout
    <3>2. CASE j = Len(op) + 1
      <4>1. i \in 0..Len(op) \/ i = j
        BY <1>1, <2>3, <3>2
      <4> QED
        BY <1>3, <1>4, <1>5, <1>6, <3>2, <4>1
    <3> QED
      BY <1>1, <3>1, <3>2
  <2> QED
    BY <1>1, <1>6, <2>1, <2>2, <2>3 DEF Layout
<1>8. /\ \A k \in 0..Len(op) : Base(op2, k) = Base(op, k) /\ Base(op, k) \in Nat
      /\ Base(op2, Len(op) + 1) = f.base /\ f.base \in Nat
  <2>1. \A k \in 1..Len(op) : op[k] \in Construct
    OBVIOUS
  <2>2. \A c \in Construct : c.base \in Nat
    BY BoundsAssumption DEF Construct
  <2> QED
    BY <1>1, <2>1, <2>2 DEF Base
<1>9. ASSUME NEW k \in 0..Len(op), NEW d \in 1..Len(ds), InLevel(op, d, k)
      PROVE  k \in 0..Len(op2) /\ InLevel(op2, d, k)
  <2>1. CASE k < Len(op)
    <3>1. k + 1 \in 0..Len(op)
      BY <1>1, <2>1
    <3> QED
      BY <1>1, <1>8, <1>9, <2>1, <3>1 DEF InLevel
  <2>2. CASE k = Len(op)
    BY <1>1, <1>8, <1>9, <2>2 DEF InLevel
  <2> QED
    BY <1>1, <2>1, <2>2
<1>10. \A k \in 0..Len(op) : /\ \A j : ScopeOf(top, j, k) => ScopeOf(top2, j, k)
                             /\ HasScope(top, k) => HasScope(top2, k)
                             /\ Ended(op, k) => Ended(op2, k)
  <2> TAKE k \in 0..Len(op)
  <2>1. k > 0 => k - 1 \in 0..Len(op) /\ k \in 1..Len(op)
    BY <1>1
  <2> QED
    BY <1>1, <1>6, <2>1 DEF ScopeOf, HasScope, Ended
<1>11. Carried(op, op2, top, top2, ds, ds2, count, kept)
  <2>1. \A d \in 1..Len(ds) : d \in 1..Len(ds2) /\ ds2[d] = ds[d]
    BY <1>1
  <2>2. \A d \in 1..Len(ds2) : \/ d \in 1..Len(ds) /\ ds2[d] = ds[d]
                               \/ ds2[d].kind # kept
    BY <1>1
  <2> QED
    BY <1>4, <1>6, <1>9, <1>10, <2>1, <2>2 DEF Carried
<1> QED
  BY <1>2, <1>7, <1>11

\* The block of a construct ends: its scope is left, its declarations stay.
BlockEnds(op, op2, kind) ==
  /\ Len(op) > 0
  /\ op[Len(op)].kind \in {"repeat", "do"}
  /\ kind \in {"test", "result"}
  /\ op2 = [op EXCEPT ![Len(op)].kind = kind]

LEMMA ReachCarries ==
  ASSUME NEW op \in Seq(Construct), NEW ds \in Seq(Decl),
         NEW kind, NEW op2, BlockEnds(op, op2, kind),
         NEW kept, Bases(op, Len(ds)),
         NEW top, NEW which \in {1, 2}, NEW count, Layout(op, top, which, count)
  PROVE  /\ op2 \in Seq(Construct) /\ Bases(op2, Len(ds))
         /\ \E top2 : /\ Layout(op2, top2, which, count - 1)
                      /\ Carried(op, op2, top, top2, ds, ds, count - 1, kept)
<1> DEFINE last == Len(op)
<1>1. last \in Nat \ {0} /\ last \in 1..last /\ Len(ds) \in Nat /\ \A k \in 1..last : op[k] \in Construct
  BY DEF BlockEnds
<1>2. PICK f : f = [op[last] EXCEPT !.kind = kind]
  OBVIOUS
<1>3. f \in Construct /\ f.kind = kind /\ f.base = op[last].base
  BY <1>1, <1>2 DEF Construct, BlockEnds
<1>4. /\ op2 \in Seq(Construct) /\ Len(op2) = last
      /\ \A k \in 1..last : op2[k] = IF k = last THEN f ELSE op[k]
  <2>1. op2 = [op EXCEPT ![last] = f]
    BY <1>2 DEF BlockEnds
  <2> HIDE DEF last
  <2>2. /\ op2 \in Seq(Construct) /\ Len(op2) = Len(op)
        /\ \A k \in 1..Len(op) : op2[k] = IF k = last THEN f ELSE op[k]
    <3>1. op \in [1..Len(op) -> Construct] /\ DOMAIN op = 1..Len(op) /\ Len(op) \in Nat
      BY LenProperties
    <3>2. op2 \in [1..Len(op) -> Construct] /\ \A k \in 1..Len(op) : op2[k] = IF k = last THEN f ELSE op[k]
      BY <1>3, <2>1, <3>1
    <3>3. op2 \in Seq(Construct) /\ Len(op2) = Len(op)
      BY <3>1, <3>2, FunctionIsSeq
    <3> QED
      BY <3>2, <3>3
  <2> QED
    BY <2>2 DEF last
<1> HIDE DEF last
<1>5. \A k \in 0..last : Base(op2, k) = Base(op, k)
  BY <1>1, <1>3, <1>4 DEF Base
<1>6. Bases(op2, Len(ds))
  <2>1. last \in 0..last
    BY <1>1
  <2>2. \A i, j \in 0..last : i <= j => Base(op2, i) <= Base(op2, j)
    BY <1>5 DEF Bases, last
  <2>3. Base(op2, last) <= Len(ds)
    BY <1>5, <2>1 DEF Bases, last
  <2> QED
    BY <1>4, <2>2, <2>3 DEF Bases
<1>7. \A k \in 0..last : \A d : InLevel(op2, d, k) <=> InLevel(op, d, k)
  <2> TAKE k \in 0..last
  <2>1. k < last => k + 1 \in 0..last
    BY <1>1
  <2> QED
    BY <1>4, <1>5, <2>1 DEF InLevel, last
<1>8. /\ \A k \in 0..last : top[k] \in 2..count
      /\ count \in Nat
      /\ top[last] = count
  BY <1>1, PlacesArePositive DEF Layout, last
<1>9. top[last - 1] = count - 1
  <2>1. Pushes(op[last].kind)[which] = 1
    BY PushesAre DEF BlockEnds, last
  <2>2. top[last] = top[last - 1] + 1
    BY <1>1, <2>1 DEF Layout, last
  <2>3. last - 1 \in 0..last
    BY <1>1
  <2> QED
    BY <1>8, <2>2, <2>3
<1> DEFINE top2 == [k \in 0..last |-> IF k = last THEN count - 1 ELSE top[k]]
<1>10. /\ top2 \in [0..last -> Nat]
       /\ top2[last] = count - 1
       /\ \A k \in 0..last : k # last => top2[k] = top[k] /\ top[k] <= count - 1
  <2>1. count - 1 \in Nat
    BY <1>1, <1>8
  <2>2. \A k \in 0..last : k # last => top[k] <= count - 1
    <3> TAKE k \in 0..last
    <3> HAVE k # last
    <3>1. k <= last - 1 /\ last - 1 \in 0..last
      BY <1>1
    <3> QED
      BY <1>9, <3>1 DEF Layout, last
  <2>3. \A k \in 0..last : (IF k = last THEN count - 1 ELSE top[k]) \in Nat
    BY <1>8, <2>1
  <2>4. top2 \in [0..last -> Nat]
    BY <2>3
  <2>5. last \in 0..last
    BY <1>1
  <2>6. top2[last] = count - 1 /\ \A k \in 0..last : k # last => top2[k] = top[k]
    BY <2>5
  <2> QED
    BY <2>2, <2>4, <2>6
<1> HIDE DEF top2
<1>11. Layout(op2, top2, which, count - 1)
  <2>1. top2[0] = 2
    BY <1>1, <1>10 DEF Layout, last
  <2>2. ASSUME NEW k \in 1..last PROVE top2[k] = top2[k - 1] + Pushes(op2[k].kind)[which]
    <3>1. k - 1 \in 0..last /\ k - 1 # last /\ k \in 0..last
      BY <1>1
    <3>2. CASE k = last
      <4>1. Pushes(op2[k].kind)[which] = 0
        BY <1>3, <1>4, <3>2, PushesAre DEF BlockEnds
      <4>2. count - 1 \in Nat
        BY <1>8
      <4> QED
        BY <1>9, <1>10, <3>1, <3>2, <4>1, <4>2
    <3>3. CASE k # last
      BY <1>4, <1>10, <3>1, <3>3 DEF Layout, last
    <3> QED
      BY <3>2, <3>3
  <2>3. ASSUME NEW i \in 0..last, NEW j \in 0..last, i <= j PROVE top2[i] <= top2[j]
    <3>1. CASE j = last
      <4>1. count - 1 <= count - 1
        BY <1>8
      <4> QED
        BY <1>10, <3>1, <4>1
    <3>2. CASE j # last
      <4>1. i # last
        BY <1>1, <2>3, <3>2
      <4> QED
        BY <1>10, <2>3, <3>2, <4>1 DEF Layout, last
    <3> QED
      BY <3>1, <3>2
  <2> QED
    BY <1>4, <1>10, <2>1, <2>2, <2>3 DEF Layout
<1>12. Carried(op, op2, top, top2, ds, ds, count - 1, kept)
  <2>1. ASSUME NEW k \in 0..last, NEW j \in 1..(count - 1), ScopeOf(top, j, k) PROVE ScopeOf(top2, j, k)
    <3>1. k > 0 => k - 1 \in 0..last /\ k - 1 # last
      BY <1>1
    <3>2. j <= count - 1
      BY <1>8
    <3> QED
      BY <1>10, <2>1, <3>1, <3>2 DEF ScopeOf
  <2>2. ASSUME NEW k \in 0..last, ~Ended(op2, k)
        PROVE  ~Ended(op, k) /\ (HasScope(top, k) => HasScope(top2, k) /\ top2[k] = top[k] /\ top[k] <= count - 1)
    <3>1. k # last
      BY <1>1, <1>3, <1>4, <2>2 DEF Ended, BlockEnds
    <3>2. k > 0 => k \in 1..last /\ k - 1 \in 0..last /\ k - 1 # last
      BY <1>1
    <3> QED
      BY <1>4, <1>10, <2>2, <3>1, <3>2 DEF Ended, HasScope
  <2> QED
    BY <1>4, <1>7, <2>1, <2>2 DEF Carried, last
<1> QED
  BY <1>4, <1>6, <1>11, <1>12

\* A construct is left.
ConstructLeft(op, op2, ds, ds2) ==
  /\ Len(op) > 0
  /\ op2 = SubSeq(op, 1, Len(op) - 1)
  /\ ds2 = SubSeq(ds, 1, op[Len(op)].base)

Popped(op, which, p) == p = Pushes(op[Len(op)].kind)[which]

LEMMA LeaveCarries ==
  ASSUME NEW op \in Seq(Construct), NEW op2,
         NEW ds \in Seq(Decl), Bases(op, Len(ds)), NEW kept,
         NEW ds2, ConstructLeft(op, op2, ds, ds2),
         NEW top, NEW which \in {1, 2}, NEW count, Layout(op, top, which, count),
         NEW p, Popped(op, which, p)
  PROVE  /\ op2 \in Seq(Construct)
         /\ ds2 \in Seq(Decl) /\ Len(ds2) = op[Len(op)].base /\ Len(ds2) <= Len(ds)
         /\ Bases(op2, Len(ds2))
         /\ p \in Nat /\ p <= count
         /\ \E top2 : /\ Layout(op2, top2, which, count - p)
                      /\ Carried(op, op2, top, top2, ds, ds2, count - p, kept)
<1> DEFINE last == Len(op)
<1>1. last \in Nat \ {0} /\ last \in 1..last /\ last - 1 \in 0..last /\ last \in 0..last /\ last - 1 \in Nat
  BY DEF ConstructLeft
<1>2. /\ op2 \in Seq(Construct) /\ Len(op2) = last - 1
      /\ \A k \in 1..(last - 1) : op2[k] = op[k]
  <2>1. PICK m : m = last - 1
    OBVIOUS
  <2>2. m \in 0..Len(op) /\ op2 = SubSeq(op, 1, m)
    BY <1>1, <2>1 DEF ConstructLeft
  <2>3. op2 \in Seq(Construct) /\ Len(op2) = m /\ \A k \in 1..m : op2[k] = op[k]
    BY <2>2, FrontOf
  <2> QED
    BY <2>1, <2>3
<1>3. /\ Base(op, last) = op[last].base /\ Base(op, last) <= Len(ds) /\ Len(ds) \in Nat
      /\ \A k \in 0..last : Base(op, k) \in Nat
  <2>1. \A k \in 1..last : op[k] \in Construct
    OBVIOUS
  <2>2. \A k \in 1..last : op[k].base \in Nat
    BY <2>1, BoundsAssumption DEF Construct
  <2> QED
    BY <1>1, <2>2 DEF Base, Bases
<1>4. PICK b : b = op[last].base
  OBVIOUS
<1>5. /\ b \in Nat /\ b <= Len(ds) /\ Base(op, last) = b
      /\ ds2 \in Seq(Decl) /\ Len(ds2) = b
      /\ \A d \in 1..b : ds2[d] = ds[d]
  <2>1. b \in 0..Len(ds) /\ ds2 = SubSeq(ds, 1, b)
    BY <1>1, <1>3, <1>4 DEF ConstructLeft
  <2> QED
    BY <1>3, <1>4, <2>1, FrontOf
<1>6. PICK q : q = p
  OBVIOUS
<1> HIDE DEF last
<1>7. /\ top[last] = count /\ top[last] = top[last - 1] + q
      /\ top[last - 1] \in Nat /\ q \in Nat /\ count \in Nat
      /\ \A k \in 0..last : top[k] \in 2..count
  <2>1. q \in Nat
    <3>0. op[last] \in Construct
      BY <1>1 DEF last
    <3>1. op[last].kind \in {"block", "repeat", "do", "loop", "function", "comprehension", "test", "result"}
      BY <3>0 DEF Construct
    <3> QED
      BY <1>6, <3>1, PushesAre DEF Popped, last
  <2> QED
    BY <1>1, <1>6, <2>1, PlacesArePositive DEF Layout, Popped, last
<1>8. count - q \in Nat /\ top[last - 1] = count - q /\ q <= count
  BY <1>7
<1>9. \A k \in 0..(last - 1) : k \in 0..last /\ Base(op2, k) = Base(op, k) /\ Base(op, k) <= b
  <2> TAKE k \in 0..(last - 1)
  <2>1. k \in 0..last /\ k <= last /\ (k = 0 \/ k \in 1..(last - 1))
    BY <1>1
  <2>2. Base(op, k) <= Base(op, last)
    BY <1>1, <2>1 DEF Bases, last
  <2> QED
    BY <1>2, <1>5, <2>1, <2>2 DEF Base
<1>10. Bases(op2, b)
  BY <1>1, <1>2, <1>9 DEF Bases, last
<1>11. \A k \in 0..last : \A d \in 1..b : InLevel(op, d, k) => k \in 0..(last - 1) /\ InLevel(op2, d, k)
  <2> TAKE k \in 0..last
  <2> TAKE d \in 1..b
  <2> HAVE InLevel(op, d, k)
  <2>1. k # last
    BY <1>5 DEF InLevel
  <2>2. k \in 0..(last - 1) /\ (k < last - 1 => k + 1 \in 0..(last - 1) /\ k < last)
    BY <1>1, <2>1
  <2> QED
    BY <1>2, <1>9, <2>2 DEF InLevel, last
<1> DEFINE top2 == [k \in 0..(last - 1) |-> top[k]]
<1>12. top2 \in [0..(last - 1) -> Nat] /\ \A k \in 0..(last - 1) : k \in 0..last /\ top2[k] = top[k]
  BY <1>1, <1>7
<1> HIDE DEF top2
<1>13. Layout(op2, top2, which, count - q)
  <2>0. top[0] = 2 /\ 0 \in 0..(last - 1) /\ last - 1 \in 0..(last - 1)
    BY <1>1 DEF Layout
  <2>1. top2[0] = 2 /\ top2[last - 1] = count - q
    BY <1>8, <1>12, <2>0
  <2>2. ASSUME NEW k \in 1..(last - 1) PROVE top2[k] = top2[k - 1] + Pushes(op2[k].kind)[which]
    <3>1. k - 1 \in 0..(last - 1) /\ k \in 0..(last - 1) /\ k \in 1..last
      BY <1>1
    <3> QED
      BY <1>2, <1>12, <3>1 DEF Layout, last
  <2>3. \A i, j \in 0..(last - 1) : i <= j => top2[i] <= top2[j]
    BY <1>12 DEF Layout, last
  <2> QED
    BY <1>2, <1>12, <2>1, <2>2, <2>3 DEF Layout
<1>14. Carried(op, op2, top, top2, ds, ds2, count - q, kept)
  <2>1. ASSUME NEW k \in 0..last, NEW d \in 1..Len(ds), NEW j \in 1..(count - q), ScopeOf(top, j, k), InLevel(op, d, k)
        PROVE  k \in 0..(last - 1) /\ ScopeOf(top2, j, k) /\ InLevel(op2, d, k) /\ d \in 1..b
    <3>1. k # last
      BY <1>1, <1>8, <2>1 DEF ScopeOf
    <3>2. k \in 0..(last - 1) /\ k < last /\ k + 1 \in 0..last /\ k + 1 <= last
      BY <1>1, <3>1
    <3>3. d <= Base(op, k + 1) /\ Base(op, k + 1) <= b
      BY <1>1, <1>5, <2>1, <3>2 DEF InLevel, Bases, last
    <3>4. d \in 1..b
      BY <1>3, <1>5, <3>2, <3>3
    <3>5. k > 0 => k - 1 \in 0..(last - 1)
      BY <1>1, <3>2
    <3> QED
      BY <1>11, <1>12, <2>1, <3>2, <3>4, <3>5 DEF ScopeOf
  <2>2. ASSUME NEW k \in 0..(last - 1), ~Ended(op2, k)
        PROVE  ~Ended(op, k) /\ (HasScope(top, k) => HasScope(top2, k) /\ top2[k] = top[k] /\ top[k] <= count - q)
    <3>1. k > 0 => k \in 1..(last - 1) /\ k - 1 \in 0..(last - 1)
      BY <1>1
    <3>2. top[k] <= top[last - 1]
      BY <1>1 DEF Layout, last
    <3> QED
      BY <1>2, <1>8, <1>12, <2>2, <3>1, <3>2 DEF Ended, HasScope
  <2>3. \A d \in 1..b : d \in 1..Len(ds)
    BY <1>3, <1>5
  <2> QED
    BY <1>2, <1>5, <1>11, <2>1, <2>2, <2>3 DEF Carried, last
<1> QED
  BY <1>2, <1>4, <1>5, <1>6, <1>7, <1>8, <1>10, <1>13, <1>14 DEF last

-----------------------------------------------------------------------------
\* A name is declared, which is no business of this book.
LEMMA AddCarries ==
  ASSUME NEW op, NEW top, NEW ds \in Seq(Decl), NEW x \in Decl, NEW kept, x.kind # kept,
         NEW ds2, ds2 = Append(ds, x), NEW count,
         \A k \in 0..Len(op) : top[k] <= count
  PROVE  Carried(op, op, top, top, ds, ds2, count, kept)
<1>1. /\ Len(ds) \in Nat /\ Len(ds2) = Len(ds) + 1 /\ ds2[Len(ds) + 1] = x
      /\ \A d \in 1..Len(ds) : ds2[d] = ds[d]
  BY AppendProperties
<1>2. \A d \in 1..Len(ds2) : d \in 1..Len(ds) \/ d = Len(ds) + 1
  BY <1>1
<1>3. \A d \in 1..Len(ds) : d \in 1..Len(ds2)
  BY <1>1
<1> QED
  BY <1>1, <1>2, <1>3 DEF Carried

\* The last level has a scope of its own wherever a name can be declared.
LEMMA LastHasScope ==
  ASSUME NEW op \in Seq(Construct), NEW top, NEW which \in {1, 2}, NEW count, Layout(op, top, which, count),
         op # <<>> => op[Len(op)].kind \notin {"comprehension", "test", "result"}
  PROVE  HasScope(top, Len(op)) /\ top[Len(op)] = count /\ count \in Nat /\ count >= 2
<1>1. Len(op) \in Nat /\ (op = <<>> \/ Len(op) \in 1..Len(op))
  BY EmptySeq
<1>2. count \in Nat /\ count >= 2 /\ \A k \in 0..Len(op) : top[k] \in Nat
  BY <1>1, PlacesArePositive
<1>3. top[Len(op)] = count
  BY DEF Layout
<1>4. CASE op = <<>>
  BY <1>2, <1>3, <1>4 DEF HasScope
<1>5. CASE op # <<>>
  <2>1. Len(op) \in 1..Len(op) /\ Len(op) - 1 \in 0..Len(op) /\ op[Len(op)] \in Construct
    BY <1>1, <1>5
  <2>2. op[Len(op)].kind \in {"block", "repeat", "do", "loop", "function"}
    BY <1>5, <2>1 DEF Construct
  <2>3. PICK p : p = Pushes(op[Len(op)].kind)[which]
    OBVIOUS
  <2>4. p \in Nat /\ p > 0
    BY <2>2, <2>3, PushesAre
  <2>5. top[Len(op)] = top[Len(op) - 1] + p
    BY <2>1, <2>3 DEF Layout
  <2> QED
    BY <1>2, <1>3, <2>1, <2>4, <2>5 DEF HasScope
<1> QED
  BY <1>4, <1>5

\* A const is entered in the last scope, which is that of the last level.
LEMMA AddConst ==
  ASSUME NEW op \in Seq(Construct), NEW top, NEW cs \in Seq(SUBSET Names), Layout(op, top, 1, Len(cs)),
         op # <<>> => op[Len(op)].kind \notin {"comprehension", "test", "result"},
         NEW ds \in Seq(Decl), Bases(op, Len(ds)), ConstsKept(op, ds, cs, top),
         NEW n \in Names, NEW x \in Decl, x = [name |-> n, kind |-> "const"],
         NEW ds2, ds2 = Append(ds, x),
         NEW cs2, Len(cs2) = Len(cs),
         \A j \in 1..Len(cs) : cs2[j] = IF j = Len(cs) THEN cs[j] \cup {n} ELSE cs[j]
  PROVE  ConstsKept(op, ds2, cs2, top)
<1>1. /\ Len(ds) \in Nat /\ Len(ds2) = Len(ds) + 1 /\ ds2[Len(ds) + 1] = x
      /\ \A d \in 1..Len(ds) : ds2[d] = ds[d]
      /\ \A d \in 1..Len(ds) : d \in 1..Len(ds2)
  BY AppendProperties
<1>2. PICK last : last = Len(op)
  OBVIOUS
<1>3. last \in 0..Len(op) /\ HasScope(top, last) /\ top[last] = Len(cs) /\ Len(cs) \in 1..Len(cs)
  <2>1. PICK count : count = Len(cs)
    OBVIOUS
  <2>2. PICK which \in {1, 2} : which = 1
    OBVIOUS
  <2>3. Layout(op, top, which, count)
    BY <2>1, <2>2
  <2>4. HasScope(top, Len(op)) /\ top[Len(op)] = count /\ count \in Nat /\ count >= 2
    BY <2>3, LastHasScope
  <2>5. Len(op) \in Nat
    OBVIOUS
  <2> QED
    BY <1>2, <2>1, <2>4, <2>5
<1>4. InLevel(op, Len(ds) + 1, last) /\ ScopeOf(top, Len(cs), last)
  <2>1. Base(op, last) \in Nat
    <3>1. \A k \in 1..Len(op) : op[k] \in Construct
      OBVIOUS
    <3>2. \A c \in Construct : c.base \in Nat
      BY BoundsAssumption DEF Construct
    <3> QED
      BY <1>2, <1>3, <3>1, <3>2 DEF Base
  <2>2. Base(op, last) < Len(ds) + 1
    BY <1>1, <1>2, <2>1 DEF Bases
  <2> QED
    BY <1>2, <1>3, <2>2 DEF InLevel, HasScope, ScopeOf
<1>5. ASSUME NEW j \in 1..Len(cs2), NEW m \in cs2[j]
      PROVE  \E k \in 0..Len(op), d \in 1..Len(ds2) :
               ScopeOf(top, j, k) /\ InLevel(op, d, k) /\ ds2[d] = [name |-> m, kind |-> "const"]
  <2>1. CASE m \in cs[j]
    <3>1. PICK k \in 0..Len(op), d \in 1..Len(ds) :
            ScopeOf(top, j, k) /\ InLevel(op, d, k) /\ ds[d] = [name |-> m, kind |-> "const"]
      BY <2>1 DEF ConstsKept
    <3> QED
      BY <1>1, <3>1
  <2>2. CASE m \notin cs[j]
    <3>1. j = Len(cs) /\ m = n
      BY <1>5, <2>2
    <3>2. Len(ds) + 1 \in 1..Len(ds2)
      BY <1>1
    <3> QED
      BY <1>1, <1>3, <1>4, <3>1, <3>2
  <2> QED
    BY <2>1, <2>2
<1>6. ASSUME NEW d \in 1..Len(ds2), ds2[d].kind = "const"
      PROVE  \E k \in 0..Len(op) :
               /\ InLevel(op, d, k)
               /\ Ended(op, k) \/ (HasScope(top, k) /\ ds2[d].name \in cs2[top[k]])
  <2>1. CASE d \in 1..Len(ds)
    <3>1. PICK k \in 0..Len(op) :
            /\ InLevel(op, d, k)
            /\ Ended(op, k) \/ (HasScope(top, k) /\ ds[d].name \in cs[top[k]])
      BY <1>1, <1>6, <2>1 DEF ConstsKept
    <3>2. top[k] \in 1..Len(cs)
      <4>1. top[k] \in 2..Len(cs)
        BY PlacesArePositive
      <4> QED
        BY <4>1
    <3>3. ds[d].name \in cs[top[k]] => ds[d].name \in cs2[top[k]]
      BY <3>2
    <3> QED
      BY <1>1, <2>1, <3>1, <3>3
  <2>2. CASE d = Len(ds) + 1
    <3>1. ds2[d].name = n /\ n \in cs2[top[last]]
      <4>1. n \in cs2[Len(cs)]
        BY <1>3
      <4> QED
        BY <1>1, <1>3, <2>2, <4>1
    <3> QED
      BY <1>3, <1>4, <2>2, <3>1
  <2> QED
    BY <1>1, <2>1, <2>2
<1> QED
  BY <1>5, <1>6 DEF ConstsKept

\* A state is entered in the last scope.
Entered(ss, ss2, n, d) ==
  \A j \in 1..Len(ss) : \A m \in Names : ss2[j][m] = IF j = Len(ss) /\ m = n THEN d ELSE ss[j][m]

LEMMA AddState ==
  ASSUME NEW op \in Seq(Construct), NEW top, NEW ss \in Seq(StateScope), Layout(op, top, 2, Len(ss)),
         op # <<>> => op[Len(op)].kind \notin {"comprehension", "test", "result"},
         NEW ds \in Seq(Decl), Bases(op, Len(ds)), StatesKept(op, ds, ss, top),
         NEW n \in Names, NEW x \in Decl, x = [name |-> n, kind |-> "state"],
         NEW ds2, ds2 = Append(ds, x),
         NEW ss2, Len(ss2) = Len(ss), Entered(ss, ss2, n, Len(ds) + 1)
  PROVE  StatesKept(op, ds2, ss2, top)
<1>1. /\ Len(ds) \in Nat /\ Len(ds2) = Len(ds) + 1 /\ ds2[Len(ds) + 1] = x
      /\ \A d \in 1..Len(ds) : ds2[d] = ds[d]
      /\ \A d \in 1..Len(ds) : d \in 1..Len(ds2)
      /\ Len(ds) + 1 \in 1..Len(ds2)
  BY AppendProperties
<1>2. PICK last : last = Len(op)
  OBVIOUS
<1>3. last \in 0..Len(op) /\ HasScope(top, last) /\ top[last] = Len(ss) /\ Len(ss) \in 1..Len(ss)
  <2>1. PICK count : count = Len(ss)
    OBVIOUS
  <2>2. PICK which \in {1, 2} : which = 2
    OBVIOUS
  <2>3. Layout(op, top, which, count)
    BY <2>1, <2>2
  <2>4. HasScope(top, Len(op)) /\ top[Len(op)] = count /\ count \in Nat /\ count >= 2
    BY <2>3, LastHasScope
  <2>5. Len(op) \in Nat
    OBVIOUS
  <2> QED
    BY <1>2, <2>1, <2>4, <2>5
<1>4. InLevel(op, Len(ds) + 1, last) /\ ScopeOf(top, Len(ss), last)
  <2>1. Base(op, last) \in Nat
    <3>1. \A k \in 1..Len(op) : op[k] \in Construct
      OBVIOUS
    <3>2. \A c \in Construct : c.base \in Nat
      BY BoundsAssumption DEF Construct
    <3> QED
      BY <1>2, <1>3, <3>1, <3>2 DEF Base
  <2>2. Base(op, last) < Len(ds) + 1
    BY <1>1, <1>2, <2>1 DEF Bases
  <2> QED
    BY <1>2, <1>3, <2>2 DEF InLevel, HasScope, ScopeOf
<1>5. ASSUME NEW j \in 1..Len(ss2), NEW m \in Names, ss2[j][m] # Nothing
      PROVE  /\ ss2[j][m] \in 1..Len(ds2)
             /\ ds2[ss2[j][m]] = [name |-> m, kind |-> "state"]
             /\ \E k \in 0..Len(op) : ScopeOf(top, j, k) /\ InLevel(op, ss2[j][m], k)
  <2>1. CASE j = Len(ss) /\ m = n
    <3>1. ss2[j][m] = Len(ds) + 1
      BY <1>3, <2>1 DEF Entered
    <3> QED
      BY <1>1, <1>3, <1>4, <2>1, <3>1
  <2>2. CASE ~(j = Len(ss) /\ m = n)
    <3>1. PICK e : e = ss[j][m]
      OBVIOUS
    <3>2. ss2[j][m] = e /\ e # Nothing
      BY <1>5, <2>2, <3>1 DEF Entered
    <3>3. e \in 1..Len(ds) /\ ds[e] = [name |-> m, kind |-> "state"]
      BY <3>1, <3>2 DEF StatesKept
    <3>4. \E k \in 0..Len(op) : ScopeOf(top, j, k) /\ InLevel(op, e, k)
      <4>1. \E k \in 0..Len(op) : ScopeOf(top, j, k) /\ InLevel(op, ss[j][m], k)
        BY <3>1, <3>2 DEF StatesKept
      <4> QED
        BY <3>1, <4>1
    <3> QED
      BY <1>1, <3>2, <3>3, <3>4
  <2> QED
    BY <2>1, <2>2
<1>6. ASSUME NEW d \in 1..Len(ds2), ds2[d].kind = "state"
      PROVE  \E k \in 0..Len(op) :
               /\ InLevel(op, d, k)
               /\ Ended(op, k) \/ (HasScope(top, k) /\ ss2[top[k]][ds2[d].name] >= d)
  <2>1. CASE d \in 1..Len(ds)
    <3>1. PICK k \in 0..Len(op) :
            /\ InLevel(op, d, k)
            /\ Ended(op, k) \/ (HasScope(top, k) /\ ss[top[k]][ds[d].name] >= d)
      BY <1>1, <1>6, <2>1 DEF StatesKept
    <3>2. top[k] \in 1..Len(ss)
      <4>1. top[k] \in 2..Len(ss)
        BY PlacesArePositive
      <4> QED
        BY <4>1
    <3>3. ds[d].name \in Names
      <4>1. ds[d] \in Decl
        BY <2>1
      <4> QED
        BY <4>1 DEF Decl
    <3>4. ss[top[k]][ds[d].name] >= d => ss2[top[k]][ds[d].name] >= d
      <4>1. PICK j \in 1..Len(ss) : j = top[k]
        BY <3>2
      <4>2. PICK m \in Names : m = ds[d].name
        BY <3>3
      <4>3. ss2[j][m] = Len(ds) + 1 \/ ss2[j][m] = ss[j][m]
        BY DEF Entered
      <4>4. Len(ds) + 1 >= d
        BY <1>1, <2>1
      <4> QED
        BY <4>1, <4>2, <4>3, <4>4
    <3>5. ds2[d].name = ds[d].name
      BY <1>1, <2>1
    <3> QED
      BY <3>1, <3>4, <3>5
  <2>2. CASE d = Len(ds) + 1
    <3>1. ds2[d].name = n /\ ss2[top[last]][n] = d
      <4>1. ss2[Len(ss)][n] = Len(ds) + 1
        BY <1>3 DEF Entered
      <4> QED
        BY <1>1, <1>3, <2>2, <4>1
    <3>2. d >= d
      BY <1>1, <2>2
    <3>3. ss2[top[last]][ds2[d].name] >= d
      BY <3>1, <3>2
    <3>4. InLevel(op, d, last)
      BY <1>4, <2>2
    <3> QED
      BY <1>3, <3>3, <3>4
  <2>3. d \in 1..Len(ds) \/ d = Len(ds) + 1
    BY <1>1
  <2> QED
    BY <2>1, <2>2, <2>3
<1> QED
  BY <1>5, <1>6 DEF StatesKept

-----------------------------------------------------------------------------
(* Every step keeps the books.                                              *)
LEMMA Types ==
  TypeOK <=> /\ decls \in Seq(Decl)
             /\ open \in Seq(Construct)
             /\ const_scopes \in Seq(SUBSET Names)
             /\ state_scopes \in Seq(StateScope)
             /\ env \in Seq(CtScope)
             /\ handles \in Seq(Seq(CtScope))
             /\ Len(handles) = Len(decls)
BY DEF TypeOK, Decl, Construct, StateScope

LEMMA Empty ==
  /\ EmptyScope \in CtScope
  /\ \A known \in SUBSET Names : [EmptyScope EXCEPT !.runtime_names = known] \in CtScope
  /\ NoStates \in StateScope
  /\ {} \in SUBSET Names
BY BoundsAssumption DEF EmptyScope, CtScope, NoStates, Nothing, StateScope

LEMMA LocalsAre ==
  ASSUME NEW names \in Seq(Names),
         NEW q, q = [i \in 1..Len(names) |-> [name |-> names[i], kind |-> "local"]]
  PROVE  q \in Seq(Decl) /\ Len(q) = Len(names) /\ \A i \in 1..Len(names) : q[i].kind = "local"
<1>1. \A i \in 1..Len(names) : [name |-> names[i], kind |-> "local"] \in Decl
  BY DEF Decl, Kinds
<1>2. Len(names) \in Nat
  OBVIOUS
<1>3. q \in [1..Len(names) -> Decl]
  BY <1>1
<1>4. q \in Seq(Decl) /\ Len(q) = Len(names)
  BY <1>2, <1>3, FunctionIsSeq
<1> QED
  BY <1>4

\* Locals, which are in neither book.
AllLocal(t) == \A i \in 1..Len(t) : t[i].kind = "local"

LocalsAdded(s, q) == \A d \in 1..Len(q) : IF d <= Len(s) THEN q[d] = s[d] ELSE q[d].kind = "local"

LEMMA AddLocals ==
  ASSUME NEW s \in Seq(Decl), NEW t \in Seq(Decl), AllLocal(t),
         NEW q, q = s \o t
  PROVE  q \in Seq(Decl) /\ Len(q) = Len(s) + Len(t) /\ LocalsAdded(s, q)
<1>1. /\ q \in Seq(Decl) /\ Len(q) = Len(s) + Len(t)
      /\ \A d \in 1..(Len(s) + Len(t)) : q[d] = IF d <= Len(s) THEN s[d] ELSE t[d - Len(s)]
  BY ConcatProperties
<1>2. ASSUME NEW d \in 1..Len(q), ~(d <= Len(s)) PROVE q[d].kind = "local"
  <2>1. d - Len(s) \in 1..Len(t)
    BY <1>1, <1>2
  <2>2. q[d] = t[d - Len(s)]
    BY <1>1, <1>2
  <2> QED
    BY <2>1, <2>2 DEF AllLocal
<1> QED
  BY <1>1, <1>2 DEF LocalsAdded

\* Both books are carried over together.
LEMMA CarryBooks ==
  ASSUME IInv,
         NEW op2, op2 = open', NEW ds2, ds2 = decls',
         NEW cl \in Nat, NEW sl \in Nat, cl <= Len(const_scopes), sl <= Len(state_scopes),
         NEW ct, NEW st, Layout(open, ct, 1, Len(const_scopes)), Layout(open, st, 2, Len(state_scopes)),
         ConstsKept(open, decls, const_scopes, ct), StatesKept(open, decls, state_scopes, st),
         const_scopes' \in Seq(SUBSET Names), state_scopes' \in Seq(StateScope),
         \E top2 : /\ Layout(op2, top2, 1, Len(const_scopes'))
                   /\ Carried(open, op2, ct, top2, decls, ds2, cl, "const"),
         \E top2 : /\ Layout(op2, top2, 2, Len(state_scopes'))
                   /\ Carried(open, op2, st, top2, decls, ds2, sl, "state"),
         cl <= Len(const_scopes'), sl <= Len(state_scopes'),
         \A j \in 1..cl : const_scopes'[j] = const_scopes[j],
         \A j \in 1..Len(const_scopes') : j <= cl \/ const_scopes'[j] = {},
         \A j \in 1..sl : state_scopes'[j] = state_scopes[j],
         \A j \in 1..Len(state_scopes') : j <= sl \/ state_scopes'[j] = NoStates
  PROVE  ConstBooks' /\ StateBooks'
<1>1. /\ Len(open) \in Nat
      /\ Len(const_scopes) \in Nat /\ Len(state_scopes) \in Nat
      /\ Len(const_scopes') \in Nat /\ Len(state_scopes') \in Nat
  BY Types DEF IInv
<1>2. ConstBooks'
  <2>1. PICK top2 : /\ Layout(op2, top2, 1, Len(const_scopes'))
                    /\ Carried(open, op2, ct, top2, decls, ds2, cl, "const")
    OBVIOUS
  <2>2. \A k \in 0..Len(open) : ct[k] \in Nat /\ ct[k] > 0
    <3>1. \A k \in 0..Len(open) : ct[k] \in 2..Len(const_scopes)
      BY <1>1, PlacesArePositive
    <3> QED
      BY <3>1
  <2>3. PICK cs2 : cs2 = const_scopes'
    OBVIOUS
  <2>4. ConstsKept(op2, ds2, cs2, top2)
    BY <1>1, <2>1, <2>2, <2>3, CarryConsts
  <2> QED
    BY <2>1, <2>3, <2>4 DEF ConstBooks
<1>3. StateBooks'
  <2>1. PICK top2 : /\ Layout(op2, top2, 2, Len(state_scopes'))
                    /\ Carried(open, op2, st, top2, decls, ds2, sl, "state")
    OBVIOUS
  <2>2. \A k \in 0..Len(open) : st[k] \in Nat /\ st[k] > 0
    <3>1. \A k \in 0..Len(open) : st[k] \in 2..Len(state_scopes)
      BY <1>1, PlacesArePositive
    <3> QED
      BY <3>1
  <2>3. PICK ss2 : ss2 = state_scopes'
    OBVIOUS
  <2>4. StatesKept(op2, ds2, ss2, top2)
    BY <1>1, <2>1, <2>2, <2>3, CarryStates
  <2> QED
    BY <2>1, <2>3, <2>4 DEF StateBooks
<1> QED
  BY <1>2, <1>3

\* Entering a construct, of any kind and with any locals, keeps the books.
LEMMA EnterInv ==
  ASSUME IInv, NEW kind \in {"block", "repeat", "do", "loop", "function", "comprehension"},
         NEW outer \in Seq(Names), NEW inner \in Seq(Names), NEW known \in SUBSET Names,
         Enter(kind, outer, inner, known)
  PROVE  IInv'
<1> DEFINE AsLocals(names) == [i \in 1..Len(names) |-> [name |-> names[i], kind |-> "local"]]
<1>1. /\ decls \in Seq(Decl) /\ open \in Seq(Construct)
      /\ const_scopes \in Seq(SUBSET Names) /\ state_scopes \in Seq(StateScope)
      /\ env \in Seq(CtScope) /\ handles \in Seq(Seq(CtScope)) /\ Len(handles) = Len(decls)
      /\ Len(decls) \in Nat /\ Len(open) \in Nat /\ Len(outer) \in Nat /\ Len(inner) \in Nat
      /\ Len(const_scopes) \in Nat /\ Len(state_scopes) \in Nat
  BY Types DEF IInv
<1>2. /\ decls' = (decls \o AsLocals(outer)) \o AsLocals(inner)
      /\ handles' = handles \o [i \in 1..(Len(outer) + Len(inner)) |-> <<>>]
      /\ open' = Append(open, [kind |-> kind, base |-> Len(decls) + Len(outer), after |-> ToSet(outer)])
      /\ const_scopes' = const_scopes \o [i \in 1..Pushes(kind)[1] |-> {}]
      /\ state_scopes' = state_scopes \o [i \in 1..Pushes(kind)[2] |-> NoStates]
      /\ env' = Append(env, [EmptyScope EXCEPT !.runtime_names = known])
      /\ Len(decls) + Len(outer) + Len(inner) <= MaxDecls
  BY DEF Enter
<1>3. PICK f : f = [kind |-> kind, base |-> Len(decls) + Len(outer), after |-> ToSet(outer)]
  OBVIOUS
<1>4. f \in Construct /\ f.kind = kind /\ f.base = Len(decls) + Len(outer)
  <2>1. ToSet(outer) \in SUBSET Names
    BY DEF ToSet
  <2>2. Len(decls) + Len(outer) \in 0..MaxDecls
    <3>1. /\ Len(decls) \in Nat /\ Len(outer) \in Nat /\ Len(inner) \in Nat /\ MaxDecls \in Nat
          /\ Len(decls) + Len(outer) + Len(inner) <= MaxDecls
      BY <1>1, <1>2, BoundsAssumption
    <3> HIDE <1>1, <1>2
    <3> QED
      BY <3>1
  <2> QED
    BY <1>3, <2>1, <2>2 DEF Construct
<1>5. /\ decls' \in Seq(Decl)
      /\ Len(decls') = Len(decls) + Len(outer) + Len(inner)
      /\ \A d \in 1..Len(decls') : IF d <= Len(decls) THEN decls'[d] = decls[d] ELSE decls'[d].kind = "local"
  <2>1. PICK lo : lo = AsLocals(outer)
    OBVIOUS
  <2>2. PICK li : li = AsLocals(inner)
    OBVIOUS
  <2> HIDE DEF AsLocals
  <2>3. lo \in Seq(Decl) /\ Len(lo) = Len(outer) /\ AllLocal(lo)
    BY <2>1, LocalsAre DEF AsLocals, AllLocal
  <2>4. li \in Seq(Decl) /\ Len(li) = Len(inner) /\ AllLocal(li)
    BY <2>2, LocalsAre DEF AsLocals, AllLocal
  <2>5. PICK a : a = decls \o lo
    OBVIOUS
  <2>6. a \in Seq(Decl) /\ Len(a) = Len(decls) + Len(outer) /\ LocalsAdded(decls, a)
    BY <1>1, <2>3, <2>5, AddLocals
  <2>7. PICK b : b = a \o li
    OBVIOUS
  <2>9. b \in Seq(Decl) /\ Len(b) = Len(a) + Len(inner) /\ LocalsAdded(a, b)
    <3>1. a \in Seq(Decl) /\ li \in Seq(Decl) /\ AllLocal(li) /\ b = a \o li
      BY <2>4, <2>6, <2>7
    <3>2. b \in Seq(Decl) /\ Len(b) = Len(a) + Len(li) /\ LocalsAdded(a, b)
      BY <3>1, AddLocals
    <3> QED
      BY <2>4, <3>2
  <2>10. ASSUME NEW d \in 1..Len(b)
         PROVE  IF d <= Len(decls) THEN b[d] = decls[d] ELSE b[d].kind = "local"
    <3>1. CASE d <= Len(a)
      <4>1. d \in 1..Len(a) /\ b[d] = a[d]
        BY <1>1, <2>6, <2>9, <3>1 DEF LocalsAdded
      <4> QED
        BY <2>6, <4>1 DEF LocalsAdded
    <3>2. CASE ~(d <= Len(a))
      <4>1. b[d].kind = "local" /\ ~(d <= Len(decls))
        BY <1>1, <2>6, <2>9, <3>2 DEF LocalsAdded
      <4> QED
        BY <4>1
    <3> QED
      BY <3>1, <3>2
  <2>11. decls' = b
    BY <1>2, <2>1, <2>2, <2>5, <2>7
  <2>12. Len(b) = Len(decls) + Len(outer) + Len(inner)
    BY <1>1, <2>6, <2>9
  <2> QED
    BY <2>9, <2>10, <2>11, <2>12
<1>6. /\ handles' \in Seq(Seq(CtScope))
      /\ Len(handles') = Len(decls')
  <2>1. PICK m \in Nat : m = Len(outer) + Len(inner)
    BY <1>1
  <2>2. PICK none : none = <<>>
    OBVIOUS
  <2>3. none \in Seq(CtScope)
    BY <2>2
  <2>4. PICK hs : hs = handles'
    OBVIOUS
  <2>5. hs = handles \o [i \in 1..m |-> none]
    BY <1>2, <2>1, <2>2, <2>4
  <2>6. hs \in Seq(Seq(CtScope)) /\ Len(hs) = Len(handles) + m
    <3>1. PICK S : S = Seq(CtScope)
      OBVIOUS
    <3>2. handles \in Seq(S) /\ none \in S
      BY <1>1, <2>3, <3>1
    <3>3. hs \in Seq(S) /\ Len(hs) = Len(handles) + m
      BY <2>5, <3>2, AddScopes
    <3> QED
      BY <3>1, <3>3
  <2> QED
    BY <1>1, <1>5, <2>1, <2>4, <2>6
<1>7. PICK p \in Nat, q \in Nat : p = Pushes(kind)[1] /\ q = Pushes(kind)[2]
  BY PushesAre
<1>8. /\ const_scopes' \in Seq(SUBSET Names) /\ Len(const_scopes') = Len(const_scopes) + p
      /\ \A j \in 1..Len(const_scopes) : const_scopes'[j] = const_scopes[j]
      /\ \A j \in 1..Len(const_scopes') : j <= Len(const_scopes) \/ const_scopes'[j] = {}
  <2>1. PICK x \in SUBSET Names : x = {}
    OBVIOUS
  <2>2. PICK cs2 : cs2 = const_scopes'
    OBVIOUS
  <2>3. cs2 = const_scopes \o [i \in 1..p |-> x]
    BY <1>2, <1>7, <2>1, <2>2
  <2>4. /\ cs2 \in Seq(SUBSET Names) /\ Len(cs2) = Len(const_scopes) + p
        /\ \A j \in 1..Len(const_scopes) : cs2[j] = const_scopes[j]
        /\ \A j \in 1..Len(cs2) : j <= Len(const_scopes) \/ cs2[j] = x
    BY <1>1, <2>3, AddScopes
  <2> QED
    BY <2>1, <2>2, <2>4
<1>9. /\ state_scopes' \in Seq(StateScope) /\ Len(state_scopes') = Len(state_scopes) + q
      /\ \A j \in 1..Len(state_scopes) : state_scopes'[j] = state_scopes[j]
      /\ \A j \in 1..Len(state_scopes') : j <= Len(state_scopes) \/ state_scopes'[j] = NoStates
  <2>1. PICK x \in StateScope : x = NoStates
    BY Empty
  <2>2. PICK ss2 : ss2 = state_scopes'
    OBVIOUS
  <2>3. ss2 = state_scopes \o [i \in 1..q |-> x]
    BY <1>2, <1>7, <2>1, <2>2
  <2>4. /\ ss2 \in Seq(StateScope) /\ Len(ss2) = Len(state_scopes) + q
        /\ \A j \in 1..Len(state_scopes) : ss2[j] = state_scopes[j]
        /\ \A j \in 1..Len(ss2) : j <= Len(state_scopes) \/ ss2[j] = x
    BY <1>1, <2>3, AddScopes
  <2> QED
    BY <2>1, <2>2, <2>4
<1>10. /\ open' = Append(open, f) /\ open' \in Seq(Construct) /\ env' \in Seq(CtScope)
  <2>1. open' = Append(open, f)
    BY <1>2, <1>3
  <2>2. PICK x \in CtScope : x = [EmptyScope EXCEPT !.runtime_names = known]
    BY Empty
  <2>3. env' = Append(env, x)
    BY <1>2, <2>2
  <2> QED
    BY <1>1, <1>4, <2>1, <2>3, AppendProperties
<1>11. TypeOK'
  BY <1>5, <1>6, <1>8, <1>9, <1>10 DEF TypeOK, Decl, Construct, StateScope
<1>12. Bases(open, Len(decls)) /\ f.base >= Len(decls)
  BY <1>1, <1>4 DEF IInv
<1>13. PICK op2 : op2 = open'
  OBVIOUS
<1>14. PICK ds2 : ds2 = decls'
  OBVIOUS
<1>15. Bases(open', Len(decls'))
  <2>1. Bases(op2, f.base)
    BY <1>1, <1>4, <1>10, <1>12, <1>13, EnterBases
  <2>2. f.base \in Nat /\ f.base <= Len(decls')
    BY <1>1, <1>4, <1>5
  <2>3. Base(op2, Len(op2)) \in Nat
    <3>1. op2 \in Seq(Construct) /\ Len(op2) \in Nat /\ \A k \in 1..Len(op2) : op2[k] \in Construct
      BY <1>10, <1>13
    <3>2. \A c \in Construct : c.base \in Nat
      BY BoundsAssumption DEF Construct
    <3> QED
      BY <3>1, <3>2 DEF Base
  <2>4. Len(decls') \in Nat
    BY <1>5
  <2> QED
    BY <1>13, <2>1, <2>2, <2>3, <2>4 DEF Bases
<1>16. PICK ct : Layout(open, ct, 1, Len(const_scopes)) /\ ConstsKept(open, decls, const_scopes, ct)
  BY DEF IInv, ConstBooks
<1>17. PICK st : Layout(open, st, 2, Len(state_scopes)) /\ StatesKept(open, decls, state_scopes, st)
  BY DEF IInv, StateBooks
<1>18. /\ ds2 \in Seq(Decl) /\ Len(ds2) >= Len(decls) /\ op2 = Append(open, f)
       /\ \A d \in 1..Len(ds2) : IF d <= Len(decls) THEN ds2[d] = decls[d] ELSE ds2[d].kind = "local"
  BY <1>1, <1>5, <1>10, <1>13, <1>14
<1>19. \E top2 : /\ Layout(op2, top2, 1, Len(const_scopes'))
                 /\ Carried(open, op2, ct, top2, decls, ds2, Len(const_scopes), "const")
  <2>1. \E top2 : /\ Layout(op2, top2, 1, Len(const_scopes) + Pushes(f.kind)[1])
                  /\ Carried(open, op2, ct, top2, decls, ds2, Len(const_scopes), "const")
    BY <1>1, <1>4, <1>12, <1>16, <1>18, EnterCarries
  <2> QED
    BY <1>4, <1>7, <1>8, <2>1
<1>20. \E top2 : /\ Layout(op2, top2, 2, Len(state_scopes'))
                 /\ Carried(open, op2, st, top2, decls, ds2, Len(state_scopes), "state")
  <2>1. \E top2 : /\ Layout(op2, top2, 2, Len(state_scopes) + Pushes(f.kind)[2])
                  /\ Carried(open, op2, st, top2, decls, ds2, Len(state_scopes), "state")
    BY <1>1, <1>4, <1>12, <1>17, <1>18, EnterCarries
  <2> QED
    BY <1>4, <1>7, <1>9, <2>1
<1>21. Len(const_scopes) <= Len(const_scopes') /\ Len(state_scopes) <= Len(state_scopes')
  BY <1>1, <1>8, <1>9
<1>22. Len(const_scopes) <= Len(const_scopes) /\ Len(state_scopes) <= Len(state_scopes)
  BY <1>1
<1>23. ConstBooks' /\ StateBooks'
  BY <1>1, <1>8, <1>9, <1>13, <1>14, <1>16, <1>17, <1>19, <1>20, <1>21, <1>22, CarryBooks
<1> QED
  BY <1>11, <1>15, <1>23 DEF IInv

\* What the actions with a construct enter.
LEMMA EnterAny ==
  ASSUME IInv, NEW m \in Names, NEW n \in Names,
         \/ EnterBlock \/ EnterRepeat \/ EnterDo
         \/ EnterLoop(n) \/ EnterMatch(n) \/ EnterComprehension(n)
         \/ EnterFunctionExpr(n) \/ EnterHandler(n) \/ EnterSpawnHandler(n)
         \/ EnterFunction(m, n) \/ EnterTaskFunction(m, n)
         \/ EnterMethod(m, n) \/ EnterConstructor(m, n) \/ EnterWatch(m, n)
  PROVE  IInv'
<1>1. \E kind \in {"block", "repeat", "do", "loop", "function", "comprehension"} :
      \E outer \in {<<>>, <<m>>} : \E inner \in {<<>>, <<n>>} :
      \E known \in {{}, {n}, {m, n}} : Enter(kind, outer, inner, known)
  <2>1. CASE EnterBlock \/ EnterRepeat \/ EnterDo
    BY <2>1 DEF EnterBlock, EnterRepeat, EnterDo
  <2>2. CASE EnterLoop(n) \/ EnterMatch(n) \/ EnterComprehension(n)
    BY <2>2 DEF EnterLoop, EnterMatch, EnterComprehension
  <2>3. CASE EnterFunctionExpr(n) \/ EnterHandler(n) \/ EnterSpawnHandler(n) \/ EnterWatch(m, n)
    BY <2>3 DEF EnterFunctionExpr, EnterHandler, EnterSpawnHandler, EnterWatch
  <2>4. CASE EnterFunction(m, n) \/ EnterTaskFunction(m, n)
    BY <2>4 DEF EnterFunction, EnterTaskFunction, FunctionKnows
  <2>5. CASE EnterMethod(m, n) \/ EnterConstructor(m, n)
    BY <2>5 DEF EnterMethod, EnterConstructor, MethodKnows
  <2> QED
    BY <2>1, <2>2, <2>3, <2>4, <2>5
<1>2. <<>> \in Seq(Names) /\ <<m>> \in Seq(Names) /\ <<n>> \in Seq(Names)
  OBVIOUS
<1>3. \A known \in {{}, {n}, {m, n}} : known \in SUBSET Names
  OBVIOUS
<1> QED
  BY <1>1, <1>2, <1>3, EnterInv

\* The end of a block whose construct goes on.
LEMMA ReachInv ==
  ASSUME IInv, open # <<>>, NEW kind \in {"test", "result"}, Last(open).kind \in {"repeat", "do"},
         open' = [open EXCEPT ![Len(open)].kind = kind],
         const_scopes' = Front(const_scopes),
         state_scopes' = Front(state_scopes),
         env' \in Seq(CtScope),
         UNCHANGED <<decls, handles>>
  PROVE  IInv'
<1>1. /\ decls \in Seq(Decl) /\ open \in Seq(Construct)
      /\ const_scopes \in Seq(SUBSET Names) /\ state_scopes \in Seq(StateScope)
      /\ handles \in Seq(Seq(CtScope)) /\ Len(handles) = Len(decls)
      /\ Len(open) \in Nat /\ Len(const_scopes) \in Nat /\ Len(state_scopes) \in Nat
  BY Types DEF IInv
<1>2. PICK ct : Layout(open, ct, 1, Len(const_scopes)) /\ ConstsKept(open, decls, const_scopes, ct)
  BY DEF IInv, ConstBooks
<1>3. PICK st : Layout(open, st, 2, Len(state_scopes)) /\ StatesKept(open, decls, state_scopes, st)
  BY DEF IInv, StateBooks
<1>4. Len(const_scopes) >= 2 /\ Len(state_scopes) >= 2
  BY <1>1, <1>2, <1>3, PlacesArePositive
<1>5. PICK cl \in Nat : cl = Len(const_scopes) - 1
  BY <1>1, <1>4
<1>6. PICK sl \in Nat : sl = Len(state_scopes) - 1
  BY <1>1, <1>4
<1>7. /\ const_scopes' \in Seq(SUBSET Names) /\ Len(const_scopes') = cl
      /\ \A j \in 1..cl : const_scopes'[j] = const_scopes[j]
  <2>1. PICK q : q = const_scopes'
    OBVIOUS
  <2>2. q = SubSeq(const_scopes, 1, cl) /\ cl \in 0..Len(const_scopes)
    BY <1>1, <1>5, <2>1 DEF Front
  <2>3. q \in Seq(SUBSET Names) /\ Len(q) = cl /\ \A j \in 1..cl : q[j] = const_scopes[j]
    BY <1>1, <2>2, FrontOf
  <2> QED
    BY <2>1, <2>3
<1>8. /\ state_scopes' \in Seq(StateScope) /\ Len(state_scopes') = sl
      /\ \A j \in 1..sl : state_scopes'[j] = state_scopes[j]
  <2>1. PICK q : q = state_scopes'
    OBVIOUS
  <2>2. q = SubSeq(state_scopes, 1, sl) /\ sl \in 0..Len(state_scopes)
    BY <1>1, <1>6, <2>1 DEF Front
  <2>3. q \in Seq(StateScope) /\ Len(q) = sl /\ \A j \in 1..sl : q[j] = state_scopes[j]
    BY <1>1, <2>2, FrontOf
  <2> QED
    BY <2>1, <2>3
<1>9. PICK op2 : op2 = open'
  OBVIOUS
<1>10. PICK ds2 : ds2 = decls'
  OBVIOUS
<1>11. ds2 = decls /\ op2 = [open EXCEPT ![Len(open)].kind = kind] /\ open[Len(open)].kind \in {"repeat", "do"}
  BY <1>9, <1>10 DEF Last
<1>12. Bases(open, Len(decls))
  BY DEF IInv
<1>13. /\ op2 \in Seq(Construct) /\ Bases(op2, Len(decls))
       /\ \E top2 : /\ Layout(op2, top2, 1, Len(const_scopes) - 1)
                    /\ Carried(open, op2, ct, top2, decls, decls, Len(const_scopes) - 1, "const")
  <2>1. PICK count : count = Len(const_scopes)
    OBVIOUS
  <2>2. PICK which \in {1, 2} : which = 1
    OBVIOUS
  <2>3. PICK kept : kept = "const"
    OBVIOUS
  <2>4. PICK op, ds : op = open /\ ds = decls
    OBVIOUS
  <2>5. /\ op \in Seq(Construct) /\ ds \in Seq(Decl)
        /\ BlockEnds(op, op2, kind) /\ Bases(op, Len(ds))
        /\ Layout(op, ct, which, count)
    BY <1>1, <1>2, <1>11, <1>12, <2>1, <2>2, <2>4, EmptySeq DEF BlockEnds
  <2>6. /\ op2 \in Seq(Construct) /\ Bases(op2, Len(ds))
        /\ \E top2 : /\ Layout(op2, top2, which, count - 1)
                     /\ Carried(op, op2, ct, top2, ds, ds, count - 1, kept)
    BY <2>5, ReachCarries
  <2> QED
    BY <2>1, <2>2, <2>3, <2>4, <2>6
<1>14. \E top2 : /\ Layout(op2, top2, 2, Len(state_scopes) - 1)
                 /\ Carried(open, op2, st, top2, decls, decls, Len(state_scopes) - 1, "state")
  <2>1. PICK count : count = Len(state_scopes)
    OBVIOUS
  <2>2. PICK which \in {1, 2} : which = 2
    OBVIOUS
  <2>3. PICK kept : kept = "state"
    OBVIOUS
  <2>4. PICK op, ds : op = open /\ ds = decls
    OBVIOUS
  <2>5. /\ op \in Seq(Construct) /\ ds \in Seq(Decl)
        /\ BlockEnds(op, op2, kind) /\ Bases(op, Len(ds))
        /\ Layout(op, st, which, count)
    BY <1>1, <1>3, <1>11, <1>12, <2>1, <2>2, <2>4, EmptySeq DEF BlockEnds
  <2>6. \E top2 : /\ Layout(op2, top2, which, count - 1)
                  /\ Carried(op, op2, st, top2, ds, ds, count - 1, kept)
    BY <2>5, ReachCarries
  <2> QED
    BY <2>1, <2>2, <2>3, <2>4, <2>6
<1>15. TypeOK'
  BY <1>1, <1>7, <1>8, <1>9, <1>13 DEF TypeOK, Decl, Construct, StateScope
<1>16. cl <= Len(const_scopes) /\ sl <= Len(state_scopes) /\ cl <= Len(const_scopes') /\ sl <= Len(state_scopes')
       /\ (\A j \in 1..Len(const_scopes') : j <= cl) /\ (\A j \in 1..Len(state_scopes') : j <= sl)
  BY <1>1, <1>5, <1>6, <1>7, <1>8
<1>17. \E top2 : /\ Layout(op2, top2, 1, Len(const_scopes'))
                 /\ Carried(open, op2, ct, top2, decls, ds2, cl, "const")
  BY <1>5, <1>7, <1>11, <1>13
<1>18. \E top2 : /\ Layout(op2, top2, 2, Len(state_scopes'))
                 /\ Carried(open, op2, st, top2, decls, ds2, sl, "state")
  BY <1>6, <1>8, <1>11, <1>14
<1>19. ConstBooks' /\ StateBooks'
  BY <1>2, <1>3, <1>7, <1>8, <1>9, <1>10, <1>16, <1>17, <1>18, CarryBooks
<1>20. Bases(open', Len(decls'))
  BY <1>9, <1>10, <1>11, <1>13
<1> QED
  BY <1>15, <1>19, <1>20 DEF IInv

LEMMA ReachEither ==
  ASSUME IInv, ReachTest \/ ReachResult
  PROVE  IInv'
<1>1. env \in Seq(CtScope)
  BY Types DEF IInv
<1>2. Front(env) \in Seq(CtScope)
  BY <1>1 DEF Front
<1>3. CASE ReachTest
  BY <1>2, <1>3, ReachInv DEF ReachTest
<1>4. CASE ReachResult
  BY <1>1, <1>4, ReachInv DEF ReachResult
<1> QED
  BY <1>3, <1>4

\* The expander learns of names in one of its scopes.
LEMMA MoreNames ==
  ASSUME NEW s \in Seq(CtScope), NEW i, NEW more \in SUBSET Names,
         NEW q, q = [s EXCEPT ![i].runtime_names = @ \cup more]
  PROVE  q \in Seq(CtScope)
<1>1. PICK x : x = [s[i] EXCEPT !.runtime_names = @ \cup more]
  OBVIOUS
<1>2. q = [s EXCEPT ![i] = x]
  BY <1>1
<1>3. ASSUME i \in 1..Len(s) PROVE x \in CtScope
  <2>1. s[i] \in CtScope
    BY <1>3
  <2> QED
    BY <1>1, <2>1 DEF CtScope
<1>4. PICK S : S = CtScope
  OBVIOUS
<1>5. s \in Seq(S) /\ Fits(S, s, i, x) /\ Replaced(s, i, x, q)
  BY <1>2, <1>3, <1>4 DEF Fits, Replaced
<1>6. q \in Seq(S)
  BY <1>5, ReplaceOne
<1> QED
  BY <1>4, <1>6

\* A construct is left.
LEMMA LeaveInv ==
  ASSUME IInv, Leave
  PROVE  IInv'
<1>1. /\ decls \in Seq(Decl) /\ open \in Seq(Construct) /\ open # <<>>
      /\ const_scopes \in Seq(SUBSET Names) /\ state_scopes \in Seq(StateScope)
      /\ env \in Seq(CtScope) /\ handles \in Seq(Seq(CtScope)) /\ Len(handles) = Len(decls)
      /\ Len(decls) \in Nat /\ Len(open) \in Nat /\ Len(const_scopes) \in Nat /\ Len(state_scopes) \in Nat
  BY Types DEF IInv, Leave
<1>2. PICK ct : Layout(open, ct, 1, Len(const_scopes)) /\ ConstsKept(open, decls, const_scopes, ct)
  BY DEF IInv, ConstBooks
<1>3. PICK st : Layout(open, st, 2, Len(state_scopes)) /\ StatesKept(open, decls, state_scopes, st)
  BY DEF IInv, StateBooks
<1>4. PICK f : f = open[Len(open)]
  OBVIOUS
<1>5. f \in Construct
  <2>1. Len(open) \in 1..Len(open)
    BY <1>1, EmptySeq
  <2> QED
    BY <1>1, <1>4, <2>1
<1>6. PICK p, q : p = Pushes(f.kind)[1] /\ q = Pushes(f.kind)[2]
  OBVIOUS
<1>7. p \in Nat /\ q \in Nat
  <2>1. f.kind \in {"block", "repeat", "do", "loop", "function", "comprehension", "test", "result"}
    BY <1>5 DEF Construct
  <2> QED
    BY <1>6, <2>1, PushesAre
<1>8. PICK op2 : op2 = open'
  OBVIOUS
<1>9. PICK ds2 : ds2 = decls'
  OBVIOUS
<1>10. /\ op2 = SubSeq(open, 1, Len(open) - 1)
       /\ ds2 = SubSeq(decls, 1, open[Len(open)].base)
       /\ Bases(open, Len(decls))
  BY <1>8, <1>9 DEF Leave, Last, Front, IInv
<1>11. /\ op2 \in Seq(Construct)
       /\ ds2 \in Seq(Decl) /\ Len(ds2) = f.base /\ Len(ds2) <= Len(decls)
       /\ Bases(op2, Len(ds2))
       /\ Len(const_scopes) - p \in Nat
       /\ \E top2 : /\ Layout(op2, top2, 1, Len(const_scopes) - p)
                    /\ Carried(open, op2, ct, top2, decls, ds2, Len(const_scopes) - p, "const")
  <2>1. PICK count : count = Len(const_scopes)
    OBVIOUS
  <2>2. PICK which \in {1, 2} : which = 1
    OBVIOUS
  <2>3. PICK kept : kept = "const"
    OBVIOUS
  <2>4. PICK op, ds : op = open /\ ds = decls
    OBVIOUS
  <2>5. /\ op \in Seq(Construct) /\ ds \in Seq(Decl) /\ Bases(op, Len(ds))
        /\ ConstructLeft(op, op2, ds, ds2)
        /\ Layout(op, ct, which, count)
    BY <1>1, <1>2, <1>10, <2>1, <2>2, <2>4, EmptySeq DEF ConstructLeft
  <2>6. PICK r : Popped(op, which, r)
    BY DEF Popped
  <2>7. /\ op2 \in Seq(Construct)
        /\ ds2 \in Seq(Decl) /\ Len(ds2) = op[Len(op)].base /\ Len(ds2) <= Len(ds)
        /\ Bases(op2, Len(ds2))
        /\ r \in Nat /\ r <= count
        /\ \E top2 : /\ Layout(op2, top2, which, count - r)
                     /\ Carried(op, op2, ct, top2, ds, ds2, count - r, kept)
    BY <2>5, <2>6, LeaveCarries
  <2>8. r = p /\ op[Len(op)] = f
    BY <1>4, <1>6, <2>2, <2>4, <2>6 DEF Popped
  <2> QED
    BY <1>1, <2>1, <2>2, <2>3, <2>4, <2>7, <2>8
<1>12. /\ Len(state_scopes) - q \in Nat
       /\ \E top2 : /\ Layout(op2, top2, 2, Len(state_scopes) - q)
                    /\ Carried(open, op2, st, top2, decls, ds2, Len(state_scopes) - q, "state")
  <2>1. PICK count : count = Len(state_scopes)
    OBVIOUS
  <2>2. PICK which \in {1, 2} : which = 2
    OBVIOUS
  <2>3. PICK kept : kept = "state"
    OBVIOUS
  <2>4. PICK op, ds : op = open /\ ds = decls
    OBVIOUS
  <2>5. /\ op \in Seq(Construct) /\ ds \in Seq(Decl) /\ Bases(op, Len(ds))
        /\ ConstructLeft(op, op2, ds, ds2)
        /\ Layout(op, st, which, count)
    BY <1>1, <1>3, <1>10, <2>1, <2>2, <2>4, EmptySeq DEF ConstructLeft
  <2>6. PICK r : Popped(op, which, r)
    BY DEF Popped
  <2>7. /\ op2 \in Seq(Construct)
        /\ ds2 \in Seq(Decl) /\ Len(ds2) = op[Len(op)].base /\ Len(ds2) <= Len(ds)
        /\ Bases(op2, Len(ds2))
        /\ r \in Nat /\ r <= count
        /\ \E top2 : /\ Layout(op2, top2, which, count - r)
                     /\ Carried(op, op2, st, top2, ds, ds2, count - r, kept)
    BY <2>5, <2>6, LeaveCarries
  <2>8. r = q
    BY <1>4, <1>6, <2>2, <2>4, <2>6 DEF Popped
  <2> QED
    BY <1>1, <2>1, <2>2, <2>3, <2>4, <2>7, <2>8
<1>13. PICK cl \in Nat : cl = Len(const_scopes) - p
  BY <1>11
<1>14. PICK sl \in Nat : sl = Len(state_scopes) - q
  BY <1>12
<1>15. /\ const_scopes' \in Seq(SUBSET Names) /\ Len(const_scopes') = cl
       /\ \A j \in 1..cl : const_scopes'[j] = const_scopes[j]
  <2>1. PICK cs2 : cs2 = const_scopes'
    OBVIOUS
  <2>2. cs2 = SubSeq(const_scopes, 1, cl) /\ cl \in 0..Len(const_scopes)
    <3>1. const_scopes' = Drop(const_scopes, Pushes(Last(open).kind)[1])
      BY DEF Leave
    <3>2. const_scopes' = Drop(const_scopes, p)
      BY <1>4, <1>6, <3>1 DEF Last
    <3>3. const_scopes' = SubSeq(const_scopes, 1, Len(const_scopes) - p)
      BY <3>2 DEF Drop
    <3> QED
      BY <1>1, <1>7, <1>13, <2>1, <3>3
  <2>3. cs2 \in Seq(SUBSET Names) /\ Len(cs2) = cl /\ \A j \in 1..cl : cs2[j] = const_scopes[j]
    BY <1>1, <2>2, FrontOf
  <2> QED
    BY <2>1, <2>3
<1>16. /\ state_scopes' \in Seq(StateScope) /\ Len(state_scopes') = sl
       /\ \A j \in 1..sl : state_scopes'[j] = state_scopes[j]
  <2>1. PICK ss2 : ss2 = state_scopes'
    OBVIOUS
  <2>2. ss2 = SubSeq(state_scopes, 1, sl) /\ sl \in 0..Len(state_scopes)
    <3>1. state_scopes' = Drop(state_scopes, Pushes(Last(open).kind)[2])
      BY DEF Leave
    <3>2. state_scopes' = Drop(state_scopes, q)
      BY <1>4, <1>6, <3>1 DEF Last
    <3>3. state_scopes' = SubSeq(state_scopes, 1, Len(state_scopes) - q)
      BY <3>2 DEF Drop
    <3> QED
      BY <1>1, <1>7, <1>14, <2>1, <3>3
  <2>3. ss2 \in Seq(StateScope) /\ Len(ss2) = sl /\ \A j \in 1..sl : ss2[j] = state_scopes[j]
    BY <1>1, <2>2, FrontOf
  <2> QED
    BY <2>1, <2>3
<1>17. handles' \in Seq(Seq(CtScope)) /\ Len(handles') = Len(ds2)
  <2>1. PICK S : S = Seq(CtScope)
    OBVIOUS
  <2>2. PICK hs : hs = handles'
    OBVIOUS
  <2>3. PICK m : m = Len(ds2)
    OBVIOUS
  <2>4. m \in 0..Len(handles) /\ hs = SubSeq(handles, 1, m) /\ handles \in Seq(S)
    BY <1>1, <1>4, <1>11, <2>1, <2>2, <2>3 DEF Leave, Last
  <2>5. hs \in Seq(S) /\ Len(hs) = m
    BY <2>4, FrontOf
  <2> QED
    BY <2>1, <2>2, <2>3, <2>5
<1>18. env' \in Seq(CtScope)
  <2>1. PICK left : left = Drop(env, Pushes(f.kind)[3])
    OBVIOUS
  <2>2. left \in Seq(CtScope)
    <3>1. Pushes(f.kind)[3] \in {0, 1}
      BY <1>5 DEF Construct, Pushes
    <3> QED
      BY <1>1, <2>1, <3>1 DEF Drop
  <2>3. PICK more \in SUBSET Names : more = f.after
    BY <1>5 DEF Construct
  <2>4. PICK e : e = env'
    OBVIOUS
  <2>5. PICK i : i = Len(left)
    OBVIOUS
  <2>6. e = [left EXCEPT ![i].runtime_names = @ \cup more]
    BY <1>4, <2>1, <2>3, <2>4, <2>5 DEF Leave, Last
  <2>7. e \in Seq(CtScope)
    BY <2>2, <2>6, MoreNames
  <2> QED
    BY <2>4, <2>7
<1>19. TypeOK'
  BY <1>8, <1>9, <1>11, <1>15, <1>16, <1>17, <1>18 DEF TypeOK, Decl, Construct, StateScope
<1>20. cl <= Len(const_scopes) /\ sl <= Len(state_scopes) /\ cl <= Len(const_scopes') /\ sl <= Len(state_scopes')
       /\ (\A j \in 1..Len(const_scopes') : j <= cl) /\ (\A j \in 1..Len(state_scopes') : j <= sl)
  BY <1>1, <1>7, <1>13, <1>14, <1>15, <1>16
<1>21. \E top2 : /\ Layout(op2, top2, 1, Len(const_scopes'))
                 /\ Carried(open, op2, ct, top2, decls, ds2, cl, "const")
  BY <1>11, <1>13, <1>15
<1>22. \E top2 : /\ Layout(op2, top2, 2, Len(state_scopes'))
                 /\ Carried(open, op2, st, top2, decls, ds2, sl, "state")
  BY <1>12, <1>14, <1>16
<1>23. ConstBooks' /\ StateBooks'
  BY <1>2, <1>3, <1>8, <1>9, <1>15, <1>16, <1>20, <1>21, <1>22, CarryBooks
<1>24. Bases(open', Len(decls'))
  BY <1>8, <1>9, <1>11
<1> QED
  BY <1>19, <1>23, <1>24 DEF IInv

-----------------------------------------------------------------------------
\* A declaration comes into scope.
LEMMA AddTypes ==
  ASSUME IInv, NEW n \in Names, NEW kind \in Kinds, Add(n, kind)
  PROVE  /\ decls' = Append(decls, [name |-> n, kind |-> kind]) /\ [name |-> n, kind |-> kind] \in Decl
         /\ decls' \in Seq(Decl) /\ Len(decls') = Len(decls) + 1 /\ Len(decls') \in 0..MaxDecls
         /\ handles' \in Seq(Seq(CtScope)) /\ Len(handles') = Len(decls')
         /\ open' = open /\ Bases(open', Len(decls'))
<1>1. /\ decls \in Seq(Decl) /\ open \in Seq(Construct) /\ env \in Seq(CtScope)
      /\ handles \in Seq(Seq(CtScope)) /\ Len(handles) = Len(decls) /\ Len(decls) \in Nat
  BY Types DEF IInv
<1>2. [name |-> n, kind |-> kind] \in Decl
  BY DEF Decl
<1>3. /\ decls' = Append(decls, [name |-> n, kind |-> kind])
      /\ handles' = Append(handles, IF kind = "comptime function" THEN env ELSE <<>>)
      /\ open' = open /\ Len(decls) < MaxDecls
  BY DEF Add
<1>4. decls' \in Seq(Decl) /\ Len(decls') = Len(decls) + 1
  BY <1>1, <1>2, <1>3, AppendProperties
<1>5. handles' \in Seq(Seq(CtScope)) /\ Len(handles') = Len(decls) + 1
  <2>1. PICK S : S = Seq(CtScope)
    OBVIOUS
  <2>2. PICK x : x = IF kind = "comptime function" THEN env ELSE <<>>
    OBVIOUS
  <2>3. <<>> \in Seq(CtScope)
    OBVIOUS
  <2>4. x \in S /\ handles \in Seq(S) /\ handles' = Append(handles, x)
    BY <1>1, <1>3, <2>1, <2>2, <2>3
  <2>5. handles' \in Seq(S) /\ Len(handles') = Len(handles) + 1
    BY <2>4, AppendProperties
  <2> QED
    BY <1>1, <2>1, <2>5
<1>6. Bases(open, Len(decls) + 1)
  <2>1. Bases(open, Len(decls))
    BY DEF IInv
  <2>2. Base(open, Len(open)) \in Nat
    <3>1. \A k \in 1..Len(open) : open[k] \in Construct
      BY <1>1
    <3>2. \A c \in Construct : c.base \in Nat
      BY BoundsAssumption DEF Construct
    <3>3. Len(open) = 0 \/ Len(open) \in 1..Len(open)
      BY <1>1
    <3> QED
      BY <3>1, <3>2, <3>3 DEF Base
  <2> QED
    BY <1>1, <2>1, <2>2 DEF Bases
<1>7. Len(decls') \in 0..MaxDecls
  <2>1. Len(decls) \in Nat /\ Len(decls) < MaxDecls /\ MaxDecls \in Nat /\ Len(decls') = Len(decls) + 1
    BY <1>1, <1>3, <1>4, BoundsAssumption
  <2> HIDE <1>1, <1>3, <1>4
  <2> QED
    BY <2>1
<1> QED
  BY <1>2, <1>3, <1>4, <1>5, <1>6, <1>7

\* What is no const is no business of const_scopes, and so for states.
LEMMA AddKeepsConsts ==
  ASSUME IInv, NEW n \in Names, NEW kind \in Kinds \ {"const"}, Add(n, kind), const_scopes' = const_scopes
  PROVE  ConstBooks'
<1>1. /\ decls \in Seq(Decl) /\ open \in Seq(Construct) /\ Len(open) \in Nat
      /\ const_scopes \in Seq(SUBSET Names) /\ Len(const_scopes) \in Nat
  BY Types DEF IInv
<1>2. PICK ct : Layout(open, ct, 1, Len(const_scopes)) /\ ConstsKept(open, decls, const_scopes, ct)
  BY DEF IInv, ConstBooks
<1>3. \A k \in 0..Len(open) : ct[k] \in Nat /\ ct[k] > 0 /\ ct[k] <= Len(const_scopes)
  <2>1. \A k \in 0..Len(open) : ct[k] \in 2..Len(const_scopes)
    BY <1>1, <1>2, PlacesArePositive
  <2> QED
    BY <1>1, <2>1
<1>4. PICK x \in Decl : x = [name |-> n, kind |-> kind]
  BY AddTypes
<1>5. PICK ds2 : ds2 = decls'
  OBVIOUS
<1>6. ds2 = Append(decls, x) /\ x.kind # "const" /\ open' = open
  BY <1>4, <1>5 DEF Add
<1>7. PICK count \in Nat : count = Len(const_scopes)
  BY <1>1
<1>8. Carried(open, open, ct, ct, decls, ds2, count, "const")
  <2>1. \A k \in 0..Len(open) : ct[k] <= count
    BY <1>3, <1>7
  <2>2. PICK kept : kept = "const"
    OBVIOUS
  <2>3. Carried(open, open, ct, ct, decls, ds2, count, kept)
    BY <1>1, <1>6, <2>1, <2>2, AddCarries
  <2> QED
    BY <2>2, <2>3
<1>9. ConstsKept(open, ds2, const_scopes, ct)
  <2>1. PICK cs2 : cs2 = const_scopes
    OBVIOUS
  <2>2. PICK op2 : op2 = open
    OBVIOUS
  <2>3. Carried(open, op2, ct, ct, decls, ds2, count, "const")
    BY <1>8, <2>2
  <2>4. count <= Len(cs2) /\ count <= Len(const_scopes) /\ (\A j \in 1..Len(cs2) : j <= count) /\ Len(cs2) \in Nat
    BY <1>1, <1>7, <2>1
  <2>5. \A j \in 1..count : cs2[j] = const_scopes[j]
    BY <2>1
  <2>6. ConstsKept(op2, ds2, cs2, ct)
    BY <1>1, <1>2, <1>3, <2>3, <2>4, <2>5, CarryConsts
  <2> QED
    BY <2>1, <2>2, <2>6
<1> QED
  BY <1>2, <1>5, <1>6, <1>9 DEF ConstBooks

LEMMA AddKeepsStates ==
  ASSUME IInv, NEW n \in Names, NEW kind \in Kinds \ {"state"}, Add(n, kind), state_scopes' = state_scopes
  PROVE  StateBooks'
<1>1. /\ decls \in Seq(Decl) /\ open \in Seq(Construct) /\ Len(open) \in Nat
      /\ state_scopes \in Seq(StateScope) /\ Len(state_scopes) \in Nat
  BY Types DEF IInv
<1>2. PICK st : Layout(open, st, 2, Len(state_scopes)) /\ StatesKept(open, decls, state_scopes, st)
  BY DEF IInv, StateBooks
<1>3. \A k \in 0..Len(open) : st[k] \in Nat /\ st[k] > 0 /\ st[k] <= Len(state_scopes)
  <2>1. \A k \in 0..Len(open) : st[k] \in 2..Len(state_scopes)
    BY <1>1, <1>2, PlacesArePositive
  <2> QED
    BY <1>1, <2>1
<1>4. PICK x \in Decl : x = [name |-> n, kind |-> kind]
  BY AddTypes
<1>5. PICK ds2 : ds2 = decls'
  OBVIOUS
<1>6. ds2 = Append(decls, x) /\ x.kind # "state" /\ open' = open
  BY <1>4, <1>5 DEF Add
<1>7. PICK count \in Nat : count = Len(state_scopes)
  BY <1>1
<1>8. Carried(open, open, st, st, decls, ds2, count, "state")
  <2>1. \A k \in 0..Len(open) : st[k] <= count
    BY <1>3, <1>7
  <2>2. PICK kept : kept = "state"
    OBVIOUS
  <2>3. Carried(open, open, st, st, decls, ds2, count, kept)
    BY <1>1, <1>6, <2>1, <2>2, AddCarries
  <2> QED
    BY <2>2, <2>3
<1>9. StatesKept(open, ds2, state_scopes, st)
  <2>1. PICK ss2 : ss2 = state_scopes
    OBVIOUS
  <2>2. PICK op2 : op2 = open
    OBVIOUS
  <2>3. Carried(open, op2, st, st, decls, ds2, count, "state")
    BY <1>8, <2>2
  <2>4. count <= Len(ss2) /\ count <= Len(state_scopes) /\ (\A j \in 1..Len(ss2) : j <= count) /\ Len(ss2) \in Nat
    BY <1>1, <1>7, <2>1
  <2>5. \A j \in 1..count : ss2[j] = state_scopes[j]
    BY <2>1
  <2>6. StatesKept(op2, ds2, ss2, st)
    BY <1>1, <1>2, <1>3, <2>3, <2>4, <2>5, CarryStates
  <2> QED
    BY <2>1, <2>2, <2>6
<1> QED
  BY <1>2, <1>5, <1>6, <1>9 DEF StateBooks

LEMMA DefineRuntimeTypes ==
  ASSUME IInv, NEW n \in Names, DefineRuntime(n)
  PROVE  env' \in Seq(CtScope)
<1>1. env \in Seq(CtScope)
  BY Types DEF IInv
<1>2. PICK more \in SUBSET Names : more = {n}
  OBVIOUS
<1>3. PICK i, e : i = Len(env) /\ e = env'
  OBVIOUS
<1>4. e = [env EXCEPT ![i].runtime_names = @ \cup more]
  BY <1>2, <1>3 DEF DefineRuntime
<1>5. e \in Seq(CtScope)
  BY <1>1, <1>4, MoreNames
<1> QED
  BY <1>3, <1>5

\* What is no business of either book.
LEMMA DeclareOther ==
  ASSUME IInv, NEW n \in Names, NEW kind \in {"local", "comptime", "comptime function"}, Add(n, kind),
         env' \in Seq(CtScope), UNCHANGED <<const_scopes, state_scopes>>
  PROVE  IInv'
<1>1. kind \in Kinds /\ kind # "const" /\ kind # "state"
  BY DEF Kinds
<1>2. const_scopes \in Seq(SUBSET Names) /\ state_scopes \in Seq(StateScope) /\ open \in Seq(Construct)
  BY Types DEF IInv
<1>3. /\ decls' \in Seq(Decl) /\ handles' \in Seq(Seq(CtScope)) /\ Len(handles') = Len(decls')
      /\ open' = open /\ Bases(open', Len(decls'))
  BY <1>1, AddTypes
<1>4. TypeOK'
  BY <1>2, <1>3 DEF TypeOK, Decl, Construct, StateScope
<1>5. ConstBooks' /\ StateBooks'
  BY <1>1, AddKeepsConsts, AddKeepsStates
<1> QED
  BY <1>3, <1>4, <1>5 DEF IInv

LEMMA ScopesOf ==
  IInv => env \in Seq(CtScope) /\ \A i : i \in 1..Len(env) => env[i] \in CtScope
<1> HAVE IInv
<1>1. PICK e : e = env
  OBVIOUS
<1>2. PICK S : S = CtScope
  OBVIOUS
<1>3. e \in Seq(S)
  BY <1>1, <1>2, Types DEF IInv
<1>4. \A i : i \in 1..Len(e) => e[i] \in S
  BY <1>3
<1> QED
  BY <1>1, <1>2, <1>3, <1>4

LEMMA DeclareAny ==
  ASSUME IInv, NEW n \in Names, DeclareLocal(n) \/ DeclareComptime(n) \/ DeclareComptimeFunction(n)
  PROVE  IInv'
<1>1. env \in Seq(CtScope) /\ Len(decls) \in Nat
  BY Types DEF IInv
<1>2. CASE DeclareLocal(n)
  <2>1. env' \in Seq(CtScope)
    BY <1>2, DefineRuntimeTypes DEF DeclareLocal
  <2> QED
    BY <1>2, <2>1, DeclareOther DEF DeclareLocal
<1>3. CASE DeclareComptime(n) \/ DeclareComptimeFunction(n)
  <2>1. PICK kind \in {"comptime", "comptime function"} :
          Add(n, kind) /\ UNCHANGED <<const_scopes, state_scopes>>
    BY <1>3 DEF DeclareComptime, DeclareComptimeFunction
  <2>2. PICK d : d = Len(decls) + 1
    OBVIOUS
  <2>3. d \in 0..MaxDecls
    <3>1. kind \in Kinds
      BY DEF Kinds
    <3> QED
      BY <2>1, <2>2, <3>1, AddTypes
  <2>4. PICK i : i = Len(env)
    OBVIOUS
  <2>5. PICK x : /\ i \in 1..Len(env) => x \in CtScope
                 /\ env' = [env EXCEPT ![i] = x]
    <3>1. CASE DeclareComptime(n)
      <4>1. PICK y : y = [env[i] EXCEPT !.values[n] = d]
        OBVIOUS
      <4>0. i \in 1..Len(env) => env[i] \in CtScope
        BY ScopesOf
      <4>2. env' = [env EXCEPT ![i] = y]
        BY <2>2, <2>4, <3>1, <4>1 DEF DeclareComptime, bind_comptime_pattern
      <4>3. i \in 1..Len(env) => y \in CtScope
        BY <2>3, <4>0, <4>1 DEF CtScope
      <4> QED
        BY <4>2, <4>3
    <3>2. CASE DeclareComptimeFunction(n)
      <4>1. PICK y : y = [env[i] EXCEPT !.functions[n] = d]
        OBVIOUS
      <4>0. i \in 1..Len(env) => env[i] \in CtScope
        BY ScopesOf
      <4>2. env' = [env EXCEPT ![i] = y]
        BY <2>2, <2>4, <3>2, <4>1 DEF DeclareComptimeFunction
      <4>3. i \in 1..Len(env) => y \in CtScope
        BY <2>3, <4>0, <4>1 DEF CtScope
      <4> QED
        BY <4>2, <4>3
    <3> QED
      BY <1>3, <3>1, <3>2
  <2>6. env' \in Seq(CtScope)
    <3>1. PICK S : S = CtScope
      OBVIOUS
    <3>2. PICK e : e = env'
      OBVIOUS
    <3>3. env \in Seq(S) /\ Fits(S, env, i, x) /\ Replaced(env, i, x, e)
      BY <1>1, <2>5, <3>1, <3>2 DEF Fits, Replaced
    <3>4. e \in Seq(S)
      BY <3>3, ReplaceOne
    <3> QED
      BY <3>1, <3>2, <3>4
  <2> QED
    BY <2>1, <2>6, DeclareOther
<1> QED
  BY <1>2, <1>3

\* A const, and a state, goes into its book.
LEMMA DeclareConstInv ==
  ASSUME IInv, NEW n \in Names, DeclareConst(n)
  PROVE  IInv'
<1>1. /\ decls \in Seq(Decl) /\ open \in Seq(Construct)
      /\ const_scopes \in Seq(SUBSET Names) /\ state_scopes \in Seq(StateScope)
  BY Types DEF IInv
<1>2. /\ Add(n, "const") /\ "const" \in Kinds /\ state_scopes' = state_scopes
      /\ const_scopes' = [const_scopes EXCEPT ![Len(const_scopes)] = @ \cup {n}]
      /\ open # <<>> => open[Len(open)].kind \notin {"comprehension", "test", "result"}
  BY DEF DeclareConst, Kinds, Add, AtStatement, Last
<1>3. env' \in Seq(CtScope)
  BY DefineRuntimeTypes DEF DeclareConst
<1>4. PICK x : x = [name |-> n, kind |-> "const"]
  OBVIOUS
<1>5. PICK ds2 : ds2 = decls'
  OBVIOUS
<1>6. /\ ds2 = Append(decls, x) /\ x \in Decl /\ ds2 \in Seq(Decl)
      /\ handles' \in Seq(Seq(CtScope)) /\ Len(handles') = Len(ds2)
      /\ open' = open /\ Bases(open', Len(ds2))
  BY <1>2, <1>4, <1>5, AddTypes
<1>7. PICK cs2 : cs2 = const_scopes'
  OBVIOUS
<1>8. /\ cs2 \in Seq(SUBSET Names) /\ Len(cs2) = Len(const_scopes)
      /\ \A j \in 1..Len(const_scopes) :
           cs2[j] = IF j = Len(const_scopes) THEN const_scopes[j] \cup {n} ELSE const_scopes[j]
  <2>1. PICK i, y : i = Len(const_scopes) /\ y = const_scopes[i] \cup {n}
    OBVIOUS
  <2>2. cs2 = [const_scopes EXCEPT ![i] = y]
    BY <1>2, <1>7, <2>1
  <2>3. i \in 1..Len(const_scopes) => y \in SUBSET Names
    BY <1>1, <2>1
  <2>4. /\ cs2 \in Seq(SUBSET Names) /\ Len(cs2) = Len(const_scopes)
        /\ \A j \in 1..Len(const_scopes) : cs2[j] = IF j = i THEN y ELSE const_scopes[j]
    <3>1. PICK S, cs : S = SUBSET Names /\ cs = const_scopes
      OBVIOUS
    <3>2. cs \in Seq(S) /\ Fits(S, cs, i, y) /\ Replaced(cs, i, y, cs2)
      BY <1>1, <2>2, <2>3, <3>1 DEF Fits, Replaced
    <3>3. /\ cs2 \in Seq(S) /\ Len(cs2) = Len(cs)
          /\ \A j \in 1..Len(cs) : cs2[j] = IF j = i THEN y ELSE cs[j]
      BY <3>2, ReplaceOne
    <3> QED
      BY <3>1, <3>3
  <2> QED
    BY <2>1, <2>4
<1>9. TypeOK'
  BY <1>1, <1>2, <1>3, <1>5, <1>6, <1>7, <1>8 DEF TypeOK, Decl, Construct, StateScope
<1>10. StateBooks'
  <2>1. PICK kind \in Kinds \ {"state"} : kind = "const"
    BY DEF Kinds
  <2> QED
    BY <1>2, <2>1, AddKeepsStates
<1>11. PICK ct : Layout(open, ct, 1, Len(const_scopes)) /\ ConstsKept(open, decls, const_scopes, ct)
  BY DEF IInv, ConstBooks
<1>12. ConstsKept(open, ds2, cs2, ct)
  <2>1. Bases(open, Len(decls))
    BY DEF IInv
  <2> QED
    BY <1>1, <1>2, <1>4, <1>6, <1>8, <1>11, <2>1, AddConst
<1>13. ConstBooks'
  BY <1>5, <1>6, <1>7, <1>8, <1>11, <1>12 DEF ConstBooks
<1> QED
  BY <1>5, <1>6, <1>9, <1>10, <1>13 DEF IInv

LEMMA DeclareStateInv ==
  ASSUME IInv, NEW n \in Names, DeclareState(n)
  PROVE  IInv'
<1>1. /\ decls \in Seq(Decl) /\ open \in Seq(Construct)
      /\ const_scopes \in Seq(SUBSET Names) /\ state_scopes \in Seq(StateScope)
  BY Types DEF IInv
<1>2. /\ Add(n, "state") /\ "state" \in Kinds /\ const_scopes' = const_scopes
      /\ state_scopes' = [state_scopes EXCEPT ![Len(state_scopes)][n] = Len(decls) + 1]
      /\ open # <<>> => open[Len(open)].kind \notin {"comprehension", "test", "result"}
  BY DEF DeclareState, Kinds, Add, AtStatement, Last
<1>3. env' \in Seq(CtScope)
  BY DefineRuntimeTypes DEF DeclareState
<1>4. PICK x : x = [name |-> n, kind |-> "state"]
  OBVIOUS
<1>5. PICK ds2 : ds2 = decls'
  OBVIOUS
<1>6. /\ ds2 = Append(decls, x) /\ x \in Decl /\ ds2 \in Seq(Decl)
      /\ Len(decls) + 1 \in 0..MaxDecls
      /\ handles' \in Seq(Seq(CtScope)) /\ Len(handles') = Len(ds2)
      /\ open' = open /\ Bases(open', Len(ds2))
  BY <1>2, <1>4, <1>5, AddTypes
<1>7. PICK ss2 : ss2 = state_scopes'
  OBVIOUS
<1>8. /\ ss2 \in Seq(StateScope) /\ Len(ss2) = Len(state_scopes)
      /\ \A j \in 1..Len(state_scopes) : \A m \in Names :
           ss2[j][m] = IF j = Len(state_scopes) /\ m = n THEN Len(decls) + 1 ELSE state_scopes[j][m]
  <2>1. PICK i, y : i = Len(state_scopes) /\ y = [state_scopes[i] EXCEPT ![n] = Len(decls) + 1]
    OBVIOUS
  <2>2. ss2 = [state_scopes EXCEPT ![i] = y]
    BY <1>2, <1>7, <2>1
  <2>3. i \in 1..Len(state_scopes) => state_scopes[i] \in StateScope
    BY <1>1, <2>1
  <2>4. i \in 1..Len(state_scopes) =>
          y \in StateScope /\ \A m \in Names : y[m] = IF m = n THEN Len(decls) + 1 ELSE state_scopes[i][m]
    BY <1>6, <2>1, <2>3 DEF StateScope
  <2>5. /\ ss2 \in Seq(StateScope) /\ Len(ss2) = Len(state_scopes)
        /\ \A j \in 1..Len(state_scopes) : ss2[j] = IF j = i THEN y ELSE state_scopes[j]
    <3>1. PICK S, ss : S = StateScope /\ ss = state_scopes
      OBVIOUS
    <3>2. ss \in Seq(S) /\ Fits(S, ss, i, y) /\ Replaced(ss, i, y, ss2)
      BY <1>1, <2>2, <2>4, <3>1 DEF Fits, Replaced
    <3>3. /\ ss2 \in Seq(S) /\ Len(ss2) = Len(ss)
          /\ \A j \in 1..Len(ss) : ss2[j] = IF j = i THEN y ELSE ss[j]
      BY <3>2, ReplaceOne
    <3> QED
      BY <3>1, <3>3
  <2> QED
    BY <2>1, <2>4, <2>5
<1>9. TypeOK'
  BY <1>1, <1>2, <1>3, <1>5, <1>6, <1>7, <1>8 DEF TypeOK, Decl, Construct, StateScope
<1>10. ConstBooks'
  <2>1. PICK kind \in Kinds \ {"const"} : kind = "state"
    BY DEF Kinds
  <2> QED
    BY <1>2, <2>1, AddKeepsConsts
<1>11. PICK st : Layout(open, st, 2, Len(state_scopes)) /\ StatesKept(open, decls, state_scopes, st)
  BY DEF IInv, StateBooks
<1>12. StatesKept(open, ds2, ss2, st)
  <2>1. Bases(open, Len(decls))
    BY DEF IInv
  <2> QED
    <3>1. PICK op, ds, ss : op = open /\ ds = decls /\ ss = state_scopes
      OBVIOUS
    <3>2. Entered(ss, ss2, n, Len(ds) + 1) /\ Len(ss2) = Len(ss)
      BY <1>8, <3>1 DEF Entered
    <3>3. /\ op \in Seq(Construct) /\ ds \in Seq(Decl) /\ ss \in Seq(StateScope)
          /\ op # <<>> => op[Len(op)].kind \notin {"comprehension", "test", "result"}
          /\ Layout(op, st, 2, Len(ss)) /\ StatesKept(op, ds, ss, st)
          /\ Bases(op, Len(ds)) /\ ds2 = Append(ds, x) /\ x \in Decl
      BY <1>1, <1>2, <1>6, <1>11, <2>1, <3>1
    <3>4. StatesKept(op, ds2, ss2, st)
      BY <1>4, <3>2, <3>3, AddState
    <3> QED
      BY <3>1, <3>4
<1>13. StateBooks'
  BY <1>5, <1>6, <1>7, <1>8, <1>11, <1>12 DEF StateBooks
<1> QED
  BY <1>5, <1>6, <1>9, <1>10, <1>13 DEF IInv

-----------------------------------------------------------------------------
\* The program is level 0, with two scopes of each stack.
LEMMA InitInv ==
  Init => IInv
<1> HAVE Init
<1>1. /\ decls = <<>> /\ open = <<>> /\ env = <<EmptyScope>> /\ handles = <<>>
      /\ const_scopes = <<{}, {}>> /\ state_scopes = <<NoStates, NoStates>>
  BY DEF Init
<1>2. TypeOK
  <2>1. const_scopes \in Seq(SUBSET Names) /\ Len(const_scopes) = 2
    BY <1>1
  <2>2. PICK S, x : S = StateScope /\ x = NoStates
    OBVIOUS
  <2>3. <<x, x>> \in Seq(S)
    BY <2>2, Empty
  <2>4. PICK T, y : T = CtScope /\ y = EmptyScope
    OBVIOUS
  <2>5. <<y>> \in Seq(T)
    BY <2>4, Empty
  <2>6. state_scopes \in Seq(StateScope) /\ env \in Seq(CtScope)
    BY <1>1, <2>2, <2>3, <2>4, <2>5
  <2>7. decls \in Seq(Decl) /\ open \in Seq(Construct) /\ handles \in Seq(Seq(CtScope)) /\ Len(handles) = Len(decls)
    BY <1>1
  <2> QED
    BY <2>1, <2>6, <2>7, Types
<1>3. Len(decls) = 0 /\ Len(open) = 0 /\ Len(const_scopes) = 2 /\ Len(state_scopes) = 2
  BY <1>1
<1>4. Bases(open, Len(decls))
  BY <1>3 DEF Bases, Base
<1> DEFINE top == [k \in 0..0 |-> 2]
<1>5. Layout(open, top, 1, 2) /\ Layout(open, top, 2, 2)
  BY <1>3 DEF Layout
<1>6. ConstsKept(open, decls, const_scopes, top)
  <2>1. \A j \in 1..2 : const_scopes[j] = {}
    BY <1>1
  <2> QED
    BY <1>3, <2>1 DEF ConstsKept
<1>7. StatesKept(open, decls, state_scopes, top)
  <2>1. \A j \in 1..2 : state_scopes[j] = NoStates
    BY <1>1
  <2>2. \A n \in Names : NoStates[n] = Nothing
    BY DEF NoStates
  <2> QED
    BY <1>3, <2>1, <2>2 DEF StatesKept
<1> HIDE DEF top
<1> QED
  BY <1>2, <1>3, <1>4, <1>5, <1>6, <1>7 DEF IInv, ConstBooks, StateBooks

LEMMA NextInv ==
  IInv /\ [Next]_vars => IInv'
<1> SUFFICES ASSUME IInv, [Next]_vars PROVE IInv'
  OBVIOUS
<1>1. CASE UNCHANGED vars
  BY <1>1 DEF vars, IInv, TypeOK, ConstBooks, StateBooks
<1>2. CASE EnterBlock \/ EnterRepeat \/ EnterDo
  <2>1. CASE Names = {}
    <3>1. \E kind \in {"block", "repeat", "do", "loop", "function", "comprehension"} : Enter(kind, <<>>, <<>>, {})
      BY <1>2 DEF EnterBlock, EnterRepeat, EnterDo
    <3>2. <<>> \in Seq(Names) /\ {} \in SUBSET Names
      OBVIOUS
    <3> QED
      BY <3>1, <3>2, EnterInv
  <2>2. CASE Names # {}
    BY <1>2, <2>2, EnterAny
  <2> QED
    BY <2>1, <2>2
<1>3. CASE ReachTest \/ ReachResult
  BY <1>3, ReachEither
<1>4. CASE Leave
  BY <1>4, LeaveInv
<1>5. ASSUME NEW n \in Names, NEW m \in Names,
             \/ EnterLoop(n) \/ EnterMatch(n) \/ EnterComprehension(n)
             \/ EnterFunctionExpr(n) \/ EnterHandler(n) \/ EnterSpawnHandler(n)
             \/ EnterFunction(m, n) \/ EnterTaskFunction(m, n)
             \/ EnterMethod(m, n) \/ EnterConstructor(m, n) \/ EnterWatch(m, n)
      PROVE  IInv'
  BY <1>5, EnterAny
<1>6. ASSUME NEW n \in Names,
             \/ DeclareLocal(n) \/ DeclareConst(n) \/ DeclareState(n)
             \/ DeclareComptime(n) \/ DeclareComptimeFunction(n)
      PROVE  IInv'
  BY <1>6, DeclareAny, DeclareConstInv, DeclareStateInv
<1> QED
  BY <1>1, <1>2, <1>3, <1>4, <1>5, <1>6 DEF Next

LEMMA Invariant ==
  Spec => []IInv
BY InitInv, NextInv, PTL DEF Spec

(* Every variable keeps its type, however deep the walk goes.               *)
THEOREM TypeCorrect ==
  Spec => []TypeOK
<1>1. IInv => TypeOK
  BY DEF IInv
<1> QED
  BY <1>1, Invariant, PTL

-----------------------------------------------------------------------------
\* What a name means is its last declaration.
LEMMA VisibleIs ==
  ASSUME TypeOK, NEW n \in Names
  PROVE  /\ Visible(n) # Nothing =>
              /\ Visible(n) \in 1..Len(decls)
              /\ decls[Visible(n)].name = n
              /\ \A e \in 1..Len(decls) : decls[e].name = n => e <= Visible(n)
<1> DEFINE S == {d \in 1..Len(decls) : decls[d].name = n}
<1>1. Len(decls) \in Nat
  BY Types
<1>2. CASE S = {}
  BY <1>2 DEF Visible
<1>3. CASE S # {}
  <2>1. PICK N \in Nat : N = Len(decls)
    BY <1>1
  <2>2. S \in SUBSET (0..N)
    BY <2>1
  <2>3. Visible(n) = Max(S)
    BY <1>3 DEF Visible
  <2> HIDE DEF S
  <2>4. Max(S) \in S /\ \A x \in S : x <= Max(S)
    BY <1>3, <2>2, MaxIs
  <2> QED
    BY <2>3, <2>4 DEF S
<1> QED
  BY <1>2, <1>3

\* A declaration of a level whose block has ended.
LEMMA EndedIs ==
  ASSUME NEW d, NEW k \in 0..Len(open), Len(open) \in Nat, InLevel(open, d, k), Ended(open, k)
  PROVE  EndReached(d, {"test", "result"})
<1>1. k \in 1..Len(open) /\ k + 1 # 0 /\ k # 0
  BY DEF Ended
<1>2. open[k].kind \in {"test", "result"} /\ open[k].base < d /\ (k < Len(open) => d <= open[k + 1].base)
  BY <1>1 DEF InLevel, Base, Ended
<1> QED
  BY <1>1, <1>2 DEF EndReached

\* A visible const is in the scope of its level, or its block has ended.
LEMMA ConstBooksSuffice ==
  IInv => ConstsAreRefused
<1> SUFFICES ASSUME IInv, NEW n \in Names
             PROVE  /\ IsKind(Visible(n), "const") =>
                         check_const_target(n) \/ EndReached(Visible(n), {"test", "result"})
                    /\ check_const_target(n) =>
                         \E d \in 1..Len(decls) : decls[d] = [name |-> n, kind |-> "const"]
  BY DEF ConstsAreRefused
<1>1. TypeOK /\ Len(open) \in Nat /\ Len(const_scopes) \in Nat
  BY Types DEF IInv
<1>2. PICK top : Layout(open, top, 1, Len(const_scopes)) /\ ConstsKept(open, decls, const_scopes, top)
  BY DEF IInv, ConstBooks
<1>3. ASSUME IsKind(Visible(n), "const")
      PROVE  check_const_target(n) \/ EndReached(Visible(n), {"test", "result"})
  <2>1. PICK d : d = Visible(n)
    OBVIOUS
  <2>2. d \in 1..Len(decls) /\ decls[d].name = n /\ decls[d].kind = "const"
    BY <1>1, <1>3, <2>1, VisibleIs DEF IsKind
  <2>3. PICK k \in 0..Len(open) :
          /\ InLevel(open, d, k)
          /\ Ended(open, k) \/ (HasScope(top, k) /\ decls[d].name \in const_scopes[top[k]])
    BY <1>2, <2>2 DEF ConstsKept
  <2>4. CASE Ended(open, k)
    BY <1>1, <2>1, <2>3, <2>4, EndedIs
  <2>5. CASE ~Ended(open, k)
    <3>1. top[k] \in 2..Len(const_scopes)
      BY <1>1, <1>2, PlacesArePositive
    <3>2. top[k] \in 1..Len(const_scopes)
      BY <3>1
    <3> QED
      BY <2>2, <2>3, <2>5, <3>2 DEF check_const_target
  <2> QED
    BY <2>4, <2>5
<1>4. ASSUME check_const_target(n)
      PROVE  \E d \in 1..Len(decls) : decls[d] = [name |-> n, kind |-> "const"]
  <2>1. PICK j \in 1..Len(const_scopes) : n \in const_scopes[j]
    BY <1>4 DEF check_const_target
  <2>2. PICK k \in 0..Len(open), d \in 1..Len(decls) : decls[d] = [name |-> n, kind |-> "const"]
    BY <1>2, <2>1 DEF ConstsKept
  <2> QED
    BY <2>2
<1> QED
  BY <1>3, <1>4

(* An assignment to a name that means a const is refused, unless it is in   *)
(* the expression after a block and means a const of the block; and every   *)
(* refused assignment names a const that is in scope.                       *)
THEOREM SafeConstsAreRefused ==
  Spec => []ConstsAreRefused
BY Invariant, ConstBooksSuffice, PTL

\* What the innermost scope says.
LEMMA LookUpIs ==
  ASSUME NEW s \in Seq(StateScope), NEW n \in Names, LookUp(s, n) # Nothing
         \/ \E i \in 1..Len(s) : s[i][n] # Nothing
  PROVE  \E i \in 1..Len(s) : /\ LookUp(s, n) = s[i][n] /\ s[i][n] # Nothing
                              /\ \A j \in 1..Len(s) : s[j][n] # Nothing => j <= i
<1> DEFINE S == {i \in 1..Len(s) : s[i][n] # Nothing}
<1>1. S # {} /\ LookUp(s, n) = s[Max(S)][n]
  BY DEF LookUp, InnermostWith
<1>2. PICK N \in Nat : N = Len(s)
  OBVIOUS
<1>3. S \in SUBSET (0..N)
  BY <1>2
<1>4. Max(S) \in S /\ \A x \in S : x <= Max(S)
  <2> HIDE DEF S
  <2> QED
    BY <1>1, <1>3, MaxIs
<1>5. PICK i : i = Max(S)
  OBVIOUS
<1>6. i \in 1..Len(s) /\ s[i][n] # Nothing /\ \A j \in 1..Len(s) : s[j][n] # Nothing => j <= i
  BY <1>4, <1>5
<1> QED
  BY <1>1, <1>5, <1>6

\* An entry of an inner level would be declared after the visible state.
LEMMA StateBooksSuffice ==
  IInv => StatesAreFound
<1> SUFFICES ASSUME IInv, NEW n \in Names
             PROVE  /\ IsKind(Visible(n), "state") =>
                         lookup_state_binding(n) = Visible(n) \/ EndReached(Visible(n), {"test", "result"})
                    /\ lookup_state_binding(n) # Nothing =>
                         /\ lookup_state_binding(n) <= Len(decls)
                         /\ decls[lookup_state_binding(n)] = [name |-> n, kind |-> "state"]
  BY DEF StatesAreFound
<1>1. /\ TypeOK /\ Len(open) \in Nat /\ Len(state_scopes) \in Nat /\ Len(decls) \in Nat
      /\ state_scopes \in Seq(StateScope) /\ open \in Seq(Construct)
  BY Types DEF IInv
<1>2. PICK top : Layout(open, top, 2, Len(state_scopes)) /\ StatesKept(open, decls, state_scopes, top)
  BY DEF IInv, StateBooks
<1>3. \A k \in 0..Len(open) : top[k] \in 2..Len(state_scopes)
  BY <1>1, <1>2, PlacesArePositive
<1>4. PICK ss : ss = state_scopes
  OBVIOUS
<1>5. ss \in Seq(StateScope) /\ lookup_state_binding(n) = LookUp(ss, n) /\ Len(ss) = Len(state_scopes)
  BY <1>1, <1>4 DEF lookup_state_binding
<1>6. ASSUME NEW j \in 1..Len(ss), ss[j][n] # Nothing
      PROVE  /\ ss[j][n] \in 1..Len(decls)
             /\ decls[ss[j][n]] = [name |-> n, kind |-> "state"]
             /\ \E k \in 0..Len(open) : ScopeOf(top, j, k) /\ InLevel(open, ss[j][n], k)
  BY <1>2, <1>4, <1>6 DEF StatesKept
<1>7. ASSUME IsKind(Visible(n), "state"), ~EndReached(Visible(n), {"test", "result"})
      PROVE  lookup_state_binding(n) = Visible(n)
  <2>1. PICK d : d = Visible(n)
    OBVIOUS
  <2>2. /\ d \in 1..Len(decls) /\ decls[d].name = n /\ decls[d].kind = "state"
        /\ \A e \in 1..Len(decls) : decls[e].name = n => e <= d
    BY <1>1, <1>7, <2>1, VisibleIs DEF IsKind
  <2>3. PICK k \in 0..Len(open) :
          /\ InLevel(open, d, k)
          /\ Ended(open, k) \/ (HasScope(top, k) /\ ss[top[k]][decls[d].name] >= d)
    BY <1>2, <1>4, <2>2 DEF StatesKept
  <2>4. ~Ended(open, k)
    BY <1>1, <1>7, <2>1, <2>3, EndedIs
  <2>5. PICK t : t = top[k]
    OBVIOUS
  <2>6. t \in 1..Len(ss) /\ ss[t][n] >= d
    <3>1. t \in 2..Len(ss)
      BY <1>3, <1>5, <2>5
    <3> QED
      BY <2>2, <2>3, <2>4, <2>5, <3>1
  <2>7. ss[t][n] = d /\ ss[t][n] # Nothing
    <3>1. ss[t] \in StateScope
      BY <1>5, <2>6
    <3>2. PICK e \in Nat : e = ss[t][n]
      BY <3>1, BoundsAssumption DEF StateScope
    <3>3. e # Nothing
      BY <2>2, <2>6, <3>2 DEF Nothing
    <3>4. e \in 1..Len(decls) /\ decls[e] = [name |-> n, kind |-> "state"]
      BY <1>6, <2>6, <3>2, <3>3
    <3>5. e <= d
      BY <2>2, <3>4
    <3> QED
      BY <2>2, <2>6, <3>2, <3>3, <3>5
  <2>8. PICK i \in 1..Len(ss) :
          /\ LookUp(ss, n) = ss[i][n] /\ ss[i][n] # Nothing
          /\ \A j \in 1..Len(ss) : ss[j][n] # Nothing => j <= i
    BY <1>5, <2>6, <2>7, LookUpIs
  <2>9. t <= i
    BY <2>6, <2>7, <2>8
  <2>10. ASSUME i # t PROVE FALSE
    <3>1. PICK e : e = ss[i][n]
      OBVIOUS
    <3>2. e \in 1..Len(decls) /\ decls[e] = [name |-> n, kind |-> "state"]
      BY <1>6, <2>8, <3>1
    <3>3. PICK l \in 0..Len(open) : ScopeOf(top, i, l) /\ InLevel(open, e, l)
      BY <1>6, <2>8, <3>1
    <3>4. e <= d
      BY <2>2, <3>2
    <3>5. k < l
      <4>1. l <= k => top[l] <= top[k]
        BY <1>2 DEF Layout
      <4>2. i <= top[l] /\ t < i
        BY <2>6, <2>9, <2>10, <3>3 DEF ScopeOf
      <4>3. top[l] \in Nat /\ top[k] \in Nat
        BY <1>2 DEF Layout
      <4> QED
        BY <2>5, <4>1, <4>2, <4>3
    <3>6. k + 1 \in 0..Len(open) /\ k + 1 <= l /\ k < Len(open)
      BY <1>1, <3>5
    <3>7. d <= Base(open, k + 1) /\ Base(open, k + 1) <= Base(open, l) /\ Base(open, l) < e
      BY <2>3, <3>3, <3>6 DEF InLevel, IInv, Bases
    <3>8. \A x \in 0..Len(open) : Base(open, x) \in Nat
      <4>1. \A c \in Construct : c.base \in Nat
        BY BoundsAssumption DEF Construct
      <4>2. \A x \in 1..Len(open) : open[x] \in Construct
        BY <1>1
      <4> QED
        BY <1>1, <4>1, <4>2 DEF Base
    <3>9. Base(open, k + 1) \in Nat /\ Base(open, l) \in Nat /\ d \in Nat /\ e \in Nat
      BY <2>2, <3>2, <3>6, <3>8
    <3> QED
      BY <3>4, <3>7, <3>9
  <2> QED
    BY <1>5, <2>1, <2>7, <2>8, <2>10
<1>8. ASSUME lookup_state_binding(n) # Nothing
      PROVE  /\ lookup_state_binding(n) <= Len(decls)
             /\ decls[lookup_state_binding(n)] = [name |-> n, kind |-> "state"]
  <2>1. PICK i \in 1..Len(ss) : LookUp(ss, n) = ss[i][n] /\ ss[i][n] # Nothing
    BY <1>5, <1>8, LookUpIs
  <2>2. PICK e : e = ss[i][n]
    OBVIOUS
  <2>3. e \in 1..Len(decls) /\ decls[e] = [name |-> n, kind |-> "state"]
    BY <1>6, <2>1, <2>2
  <2>4. lookup_state_binding(n) = e
    BY <1>5, <2>1, <2>2
  <2> QED
    BY <1>1, <2>3, <2>4
<1> QED
  BY <1>7, <1>8

(* An assignment to a name that means a state notifies the watchers of that *)
(* state, unless it is in the expression after a block and means a state of *)
(* the block; and whatever is notified is a state of that name in scope.    *)
THEOREM SafeStatesAreFound ==
  Spec => []StatesAreFound
BY Invariant, StateBooksSuffice, PTL

-----------------------------------------------------------------------------
(* The scopes of the expander: one for the program, and one for every open  *)
(* construct whose block has not ended in the test of a repeat loop.        *)

\* d belongs to a repeat loop at whose test the walk is.
Past(op, d) == \E k \in 1..Len(op) : op[k].kind = "test" /\ InLevel(op, d, k)

\* The levels that have a scope: all but those of the repeat loops at their tests.
\* lev gives the level of each scope.
Levels(op, lev, count) ==
  /\ count \in Nat \ {0} /\ lev \in [1..count -> 0..Len(op)]
  /\ lev[1] = 0
  /\ \A i, j \in 1..count : i < j => lev[i] < lev[j]
  /\ \A j \in 2..count : op[lev[j]].kind # "test"
  /\ \A k \in 1..Len(op) : op[k].kind # "test" => \E j \in 1..count : lev[j] = k

\* A scope has a table of values and one of functions.
Table(scope, kind) == IF kind = "comptime" THEN scope.values ELSE scope.functions

Tables(scopes, kind) == [i \in 1..Len(scopes) |-> Table(scopes[i], kind)]

\* The entries of a table are declarations of its level; each declaration is in
\* the table of its level, or a newer one of its name is, unless it is past.
EntriesKept(op, ds, scopes, lev, kind) ==
  /\ \A j \in 1..Len(scopes) : \A n \in Names : Table(scopes[j], kind)[n] # Nothing =>
       /\ Table(scopes[j], kind)[n] \in 1..Len(ds)
       /\ ds[Table(scopes[j], kind)[n]] = [name |-> n, kind |-> kind]
       /\ InLevel(op, Table(scopes[j], kind)[n], lev[j])
  /\ \A d \in 1..Len(ds) : ds[d].kind = kind =>
       \/ Past(op, d)
       \/ \E j \in 1..Len(scopes) : InLevel(op, d, lev[j]) /\ Table(scopes[j], kind)[ds[d].name] >= d

\* A declaration the expander only knows by its name.
Runtime(x, n) == x.name = n /\ x.kind \in {"local", "const", "state"}

\* d was declared before level k + 1 was entered.
NotBeyond(op, d, k) == k < Len(op) => d <= Base(op, k + 1)

\* The expander declares d only when it has left the construct.
Pending(op, d, n) == \E i \in 1..Len(op) : op[i].base = d /\ n \in op[i].after

\* The names a scope knows are of declarations; each runtime declaration is known
\* in the scope of its level, unless it is past or still to come.
RuntimeKept(op, ds, scopes, lev) ==
  /\ \A j \in 1..Len(scopes) : \A n \in scopes[j].runtime_names : \E d \in 1..Len(ds) :
       Runtime(ds[d], n) /\ NotBeyond(op, d, lev[j])
  /\ \A d \in 1..Len(ds) : \A n \in Names : Runtime(ds[d], n) =>
       \/ Past(op, d)
       \/ Pending(op, d, n)
       \/ \E j \in 1..Len(scopes) : InLevel(op, d, lev[j]) /\ n \in scopes[j].runtime_names

\* What is still to come are locals, each just before its construct.
Afters(op, ds) ==
  \A i \in 1..Len(op) : \A n \in op[i].after :
    /\ Base(op, i - 1) < op[i].base /\ op[i].base <= Len(ds)
    /\ ds[op[i].base] = [name |-> n, kind |-> "local"]
    /\ i > 1 => op[i - 1].kind \notin {"comprehension", "test", "result"}

\* x is the newest of the first `count` declarations that n may mean, of a kind.
Newest(x, op, ds, count, n, kind) ==
  /\ x # Nothing => x \in 1..count /\ ds[x] = [name |-> n, kind |-> kind] /\ ~Past(op, x)
  /\ \A d \in 1..count : ds[d] = [name |-> n, kind |-> kind] /\ ~Past(op, d) => d <= x

\* The kinds of compile-time declarations.
CtKinds == {"comptime", "comptime function"}

\* The scopes a comptime function keeps give what was in scope before it.
HandlesKept(op, ds, hs) ==
  \A d \in 1..Len(ds) : ds[d].kind = "comptime function" /\ ~Past(op, d) =>
    \A n \in Names, kind \in CtKinds :
      Newest(LookUp(Tables(hs[d], kind), n), op, ds, d - 1, n, kind)

\* The scopes of the walk, level by level.
EnvKept(op, ds, s) ==
  \E lev \in [1..Len(s) -> 0..Len(op)] :
    /\ Levels(op, lev, Len(s))
    /\ EntriesKept(op, ds, s, lev, "comptime")
    /\ EntriesKept(op, ds, s, lev, "comptime function")
    /\ RuntimeKept(op, ds, s, lev)

\* All the books of the expander.
Expander(op, ds, s, hs) == EnvKept(op, ds, s) /\ Afters(op, ds) /\ HandlesKept(op, ds, hs)

\* The declarations that two states share belong to the same levels in both.
LevelsAgree(op, op2, count) ==
  \A d \in 1..count : \A k \in Nat :
    (k <= Len(op) /\ InLevel(op, d, k)) <=> (k <= Len(op2) /\ InLevel(op2, d, k))

\* The repeat loops at their tests are the same.
KindsAgree(op, op2) ==
  \A k \in 1..Len(op) : k \in 1..Len(op2) => (op2[k].kind = "test" <=> op[k].kind = "test")

\* Bases are numbers of declarations.
LEMMA BasesAreNat ==
  ASSUME NEW op \in Seq(Construct)
  PROVE  Len(op) \in Nat /\ \A k \in 0..Len(op) : Base(op, k) \in Nat
<1>1. \A c \in Construct : c.base \in Nat
  BY BoundsAssumption DEF Construct
<1>2. \A k \in 1..Len(op) : op[k] \in Construct
  OBVIOUS
<1>3. Len(op) \in Nat /\ \A k \in 0..Len(op) : k = 0 \/ k \in 1..Len(op)
  OBVIOUS
<1> QED
  BY <1>1, <1>2, <1>3 DEF Base

\* A declaration belongs to one level.
LEMMA OneLevel ==
  ASSUME NEW op \in Seq(Construct), NEW count \in Nat, Bases(op, count), NEW d \in Nat,
         NEW k \in 0..Len(op), NEW l \in 0..Len(op), InLevel(op, d, k), InLevel(op, d, l)
  PROVE  k = l
<1>1. ASSUME NEW i \in 0..Len(op), NEW j \in 0..Len(op), InLevel(op, d, i), InLevel(op, d, j), i < j
      PROVE  FALSE
  <2>1. i + 1 \in 0..Len(op) /\ i + 1 <= j /\ i < Len(op)
    BY <1>1, BasesAreNat
  <2>2. Base(op, i + 1) <= Base(op, j)
    BY <2>1 DEF Bases
  <2>3. d <= Base(op, i + 1) /\ Base(op, j) < d
    BY <1>1, <2>1 DEF InLevel
  <2>4. Base(op, i + 1) \in Nat /\ Base(op, j) \in Nat
    BY <2>1, BasesAreNat
  <2> QED
    BY <2>2, <2>3, <2>4
<1> QED
  BY <1>1, BasesAreNat

\* Then what is past is the same.
LEMMA PastAgrees ==
  ASSUME NEW op \in Seq(Construct), NEW op2 \in Seq(Construct), NEW count,
         LevelsAgree(op, op2, count), KindsAgree(op, op2), NEW d \in 1..count
  PROVE  Past(op, d) <=> Past(op2, d)
<1>0. Len(op) \in Nat /\ Len(op2) \in Nat
  OBVIOUS
<1>1. ASSUME Past(op, d) PROVE Past(op2, d)
  <2>1. PICK k \in 1..Len(op) : op[k].kind = "test" /\ InLevel(op, d, k)
    BY <1>1 DEF Past
  <2>2. k \in Nat /\ k <= Len(op)
    BY <1>0
  <2>3. k <= Len(op2) /\ InLevel(op2, d, k)
    BY <2>1, <2>2 DEF LevelsAgree
  <2>4. k \in 1..Len(op2)
    BY <1>0, <2>3
  <2> QED
    BY <2>1, <2>3, <2>4 DEF Past, KindsAgree
<1>2. ASSUME Past(op2, d) PROVE Past(op, d)
  <2>1. PICK k \in 1..Len(op2) : op2[k].kind = "test" /\ InLevel(op2, d, k)
    BY <1>2 DEF Past
  <2>2. k \in Nat /\ k <= Len(op2)
    BY <1>0
  <2>3. k <= Len(op) /\ InLevel(op, d, k)
    BY <2>1, <2>2 DEF LevelsAgree
  <2>4. k \in 1..Len(op)
    BY <1>0, <2>3
  <2> QED
    BY <2>1, <2>3, <2>4 DEF Past, KindsAgree
<1> QED
  BY <1>1, <1>2

\* A construct is entered, with declarations of its own.
Opened(op, op2, f, count) ==
  f \in Construct /\ f.base >= count /\ f.kind # "test" /\ op2 = Append(op, f)

\* Entering a construct changes no level of a declaration.
LEMMA EnterAgrees ==
  ASSUME NEW op \in Seq(Construct), NEW count \in Nat, Bases(op, count),
         NEW f, NEW op2, Opened(op, op2, f, count)
  PROVE  /\ op2 \in Seq(Construct) /\ Len(op2) = Len(op) + 1 /\ op2[Len(op) + 1] = f
         /\ \A k \in 1..Len(op) : op2[k] = op[k]
         /\ LevelsAgree(op, op2, count) /\ KindsAgree(op, op2)
         /\ \A d \in 1..count : \A k \in 0..Len(op) : NotBeyond(op, d, k) => NotBeyond(op2, d, k)
<1>0. f \in Construct /\ f.base >= count /\ f.kind # "test" /\ op2 = Append(op, f)
  BY DEF Opened
<1>1. /\ op2 \in Seq(Construct) /\ Len(op) \in Nat /\ Len(op2) = Len(op) + 1 /\ op2[Len(op) + 1] = f
      /\ \A k \in 1..Len(op) : op2[k] = op[k]
  BY <1>0, AppendProperties
<1>2. \A k \in 0..Len(op) : Base(op2, k) = Base(op, k) /\ Base(op, k) \in Nat
  BY <1>1, BasesAreNat DEF Base
<1>3. Base(op2, Len(op) + 1) = f.base /\ f.base \in Nat
  BY <1>0, <1>1, BoundsAssumption DEF Base, Construct
<1>4. ASSUME NEW d \in 1..count, NEW k \in 0..Len(op)
      PROVE  NotBeyond(op, d, k) <=> NotBeyond(op2, d, k)
  <2>1. CASE k < Len(op)
    <3>1. k + 1 \in 0..Len(op) /\ k < Len(op2)
      BY <1>1, <2>1
    <3> QED
      BY <1>2, <2>1, <3>1 DEF NotBeyond
  <2>2. CASE k = Len(op)
    <3>1. d <= f.base
      BY <1>0, <1>3
    <3> QED
      BY <1>1, <1>3, <2>2, <3>1 DEF NotBeyond
  <2> QED
    BY <1>1, <2>1, <2>2
<1>5. \A d \in 1..count : \A k \in 0..Len(op) : InLevel(op, d, k) <=> InLevel(op2, d, k)
  BY <1>2, <1>4 DEF InLevel, NotBeyond
<1>6. \A d \in 1..count : ~InLevel(op2, d, Len(op) + 1)
  BY <1>0, <1>3 DEF InLevel
<1>7. LevelsAgree(op, op2, count)
  <2> SUFFICES ASSUME NEW d \in 1..count, NEW k \in Nat
               PROVE  (k <= Len(op) /\ InLevel(op, d, k)) <=> (k <= Len(op2) /\ InLevel(op2, d, k))
    BY DEF LevelsAgree
  <2>1. CASE k <= Len(op)
    <3>1. k \in 0..Len(op) /\ k <= Len(op2)
      BY <1>1, <2>1
    <3> QED
      BY <1>5, <2>1, <3>1
  <2>2. CASE ~(k <= Len(op))
    <3>1. k <= Len(op2) => k = Len(op) + 1
      BY <1>1, <2>2
    <3> QED
      BY <1>6, <2>2, <3>1
  <2> QED
    BY <2>1, <2>2
<1>8. KindsAgree(op, op2)
  BY <1>1 DEF KindsAgree
<1> QED
  BY <1>1, <1>4, <1>7, <1>8

\* The block of a construct ends.
LEMMA ReachAgrees ==
  ASSUME NEW op \in Seq(Construct), NEW kind, NEW op2, BlockEnds(op, op2, kind), NEW count
  PROVE  /\ op2 \in Seq(Construct) /\ Len(op2) = Len(op)
         /\ \A k \in 1..Len(op) : /\ op2[k].base = op[k].base /\ op2[k].after = op[k].after
                                  /\ op2[k].kind = IF k = Len(op) THEN kind ELSE op[k].kind
         /\ LevelsAgree(op, op2, count)
         /\ \A k \in 0..Len(op) : \A d : NotBeyond(op2, d, k) <=> NotBeyond(op, d, k)
<1> DEFINE last == Len(op)
<1>1. last \in Nat \ {0} /\ last \in 1..last /\ \A k \in 1..last : op[k] \in Construct
  BY DEF BlockEnds
<1>2. PICK f : f = [op[last] EXCEPT !.kind = kind]
  OBVIOUS
<1>3. f \in Construct /\ f.kind = kind /\ f.base = op[last].base /\ f.after = op[last].after
  BY <1>1, <1>2 DEF Construct, BlockEnds
<1>4. /\ op2 \in Seq(Construct) /\ Len(op2) = last
      /\ \A k \in 1..last : op2[k] = IF k = last THEN f ELSE op[k]
  <2>1. op2 = [op EXCEPT ![last] = f]
    BY <1>2 DEF BlockEnds
  <2>2. PICK S, i : S = Construct /\ i = last
    OBVIOUS
  <2>3. op \in Seq(S) /\ Fits(S, op, i, f) /\ Replaced(op, i, f, op2)
    BY <1>3, <2>1, <2>2 DEF Fits, Replaced
  <2>4. op2 \in Seq(S) /\ Len(op2) = Len(op) /\ \A j \in 1..Len(op) : op2[j] = IF j = i THEN f ELSE op[j]
    BY <2>3, ReplaceOne
  <2> QED
    BY <2>2, <2>4
<1>5. \A k \in 1..last : /\ op2[k].base = op[k].base /\ op2[k].after = op[k].after
                         /\ op2[k].kind = IF k = last THEN kind ELSE op[k].kind
  BY <1>3, <1>4
<1>6. \A k \in 0..last : Base(op2, k) = Base(op, k)
  BY <1>1, <1>5 DEF Base
<1>7. \A k \in 0..last : \A d : (NotBeyond(op2, d, k) <=> NotBeyond(op, d, k)) /\ (InLevel(op2, d, k) <=> InLevel(op, d, k))
  <2> TAKE k \in 0..last
  <2>1. k < last => k + 1 \in 0..last
    BY <1>1
  <2> QED
    BY <1>4, <1>6, <2>1 DEF InLevel, NotBeyond
<1>8. \A k \in Nat : k <= last => k \in 0..last
  BY <1>1
<1> QED
  BY <1>4, <1>5, <1>7, <1>8 DEF LevelsAgree

\* A construct is left.
LEMMA LeaveAgrees ==
  ASSUME NEW op \in Seq(Construct), NEW op2, NEW ds \in Seq(Decl), Bases(op, Len(ds)),
         NEW ds2, ConstructLeft(op, op2, ds, ds2)
  PROVE  /\ Len(op) \in Nat \ {0} /\ op2 \in Seq(Construct) /\ Len(op2) = Len(op) - 1
         /\ \A k \in 1..Len(op2) : op2[k] = op[k]
         /\ ds2 \in Seq(Decl) /\ Len(ds2) = op[Len(op)].base /\ Len(ds2) <= Len(ds)
         /\ \A d \in 1..Len(ds2) : ds2[d] = ds[d] /\ d \in 1..Len(ds)
         /\ LevelsAgree(op, op2, Len(ds2)) /\ KindsAgree(op, op2)
         /\ \A d \in 1..Len(ds) : \A k \in 0..Len(op2) :
              NotBeyond(op, d, k) => d \in 1..Len(ds2) /\ NotBeyond(op2, d, k)
<1> DEFINE last == Len(op)
<1>1. last \in Nat \ {0} /\ last \in 1..last /\ last - 1 \in Nat
  BY DEF ConstructLeft
<1>2. /\ op2 \in Seq(Construct) /\ Len(op2) = last - 1
      /\ \A k \in 1..(last - 1) : op2[k] = op[k]
  <2>1. PICK m : m = last - 1
    OBVIOUS
  <2>2. m \in 0..Len(op) /\ op2 = SubSeq(op, 1, m)
    BY <1>1, <2>1 DEF ConstructLeft
  <2>3. op2 \in Seq(Construct) /\ Len(op2) = m /\ \A k \in 1..m : op2[k] = op[k]
    BY <2>2, FrontOf
  <2> QED
    BY <2>1, <2>3
<1>3. PICK b : b = op[last].base
  OBVIOUS
<1>4. /\ b \in Nat /\ b <= Len(ds) /\ Base(op, last) = b /\ Len(ds) \in Nat
      /\ \A k \in 0..last : Base(op, k) \in Nat
  BY <1>1, <1>3, BasesAreNat DEF Base, Bases
<1>5. /\ ds2 \in Seq(Decl) /\ Len(ds2) = b
      /\ \A d \in 1..b : ds2[d] = ds[d]
  <2>1. b \in 0..Len(ds) /\ ds2 = SubSeq(ds, 1, b)
    BY <1>3, <1>4 DEF ConstructLeft
  <2> QED
    BY <2>1, FrontOf
<1> HIDE DEF last
<1>6. \A k \in 0..(last - 1) : k \in 0..last /\ Base(op2, k) = Base(op, k)
  BY <1>1, <1>2 DEF Base
<1>7. ASSUME NEW d \in 1..Len(ds), NEW k \in 0..(last - 1), NotBeyond(op, d, k)
      PROVE  d \in 1..b /\ NotBeyond(op2, d, k)
  <2>1. k + 1 \in 0..last /\ k < last /\ k + 1 <= last /\ last \in 0..last
    BY <1>1
  <2>2. d <= Base(op, k + 1)
    BY <1>7, <2>1 DEF NotBeyond, last
  <2>3. Base(op, k + 1) <= Base(op, last)
    BY <2>1 DEF Bases, last
  <2>4. d \in 1..b
    BY <1>4, <2>1, <2>2, <2>3
  <2>5. k < last - 1 => k + 1 \in 0..(last - 1)
    BY <1>1
  <2> QED
    BY <1>2, <1>6, <2>2, <2>4, <2>5 DEF NotBeyond
<1>8. ASSUME NEW d \in 1..b, NEW k \in 0..(last - 1)
      PROVE  InLevel(op, d, k) <=> InLevel(op2, d, k)
  <2>1. d \in 1..Len(ds)
    BY <1>4
  <2>2. InLevel(op, d, k) => InLevel(op2, d, k)
    BY <1>6, <1>7, <2>1 DEF InLevel, NotBeyond
  <2>3. CASE k = last - 1
    <3>1. k + 1 = last /\ d <= b
      BY <1>1, <2>3
    <3> QED
      BY <1>4, <1>6, <2>2, <3>1 DEF InLevel
  <2>4. CASE k # last - 1
    <3>1. k < last - 1 /\ k + 1 \in 0..(last - 1)
      BY <1>1, <2>4
    <3> QED
      BY <1>2, <1>6, <2>2, <3>1 DEF InLevel
  <2> QED
    BY <2>3, <2>4
<1>9. LevelsAgree(op, op2, b)
  <2> SUFFICES ASSUME NEW d \in 1..b, NEW k \in Nat
               PROVE  (k <= Len(op) /\ InLevel(op, d, k)) <=> (k <= Len(op2) /\ InLevel(op2, d, k))
    BY DEF LevelsAgree
  <2>1. CASE k <= last - 1
    <3>1. k \in 0..(last - 1) /\ k <= last
      BY <1>1, <2>1
    <3> QED
      BY <1>2, <1>8, <2>1, <3>1 DEF last
  <2>2. CASE ~(k <= last - 1)
    <3>1. k <= last => k = last
      BY <1>1, <2>2
    <3>2. ~InLevel(op, d, last)
      BY <1>4 DEF InLevel
    <3> QED
      BY <1>2, <2>2, <3>1, <3>2 DEF last
  <2> QED
    BY <2>1, <2>2
<1>10. KindsAgree(op, op2)
  BY <1>2 DEF KindsAgree
<1>11. \A d \in 1..b : d \in 1..Len(ds)
  BY <1>4
<1> QED
  BY <1>1, <1>2, <1>3, <1>4, <1>5, <1>7, <1>9, <1>10, <1>11 DEF last

\* What a step from op, ds and the scopes s to op2, ds2 and s2 keeps of the
\* levels: a scope is lost only with its declarations.
Kept(op, op2, ds, ds2, s, s2, lev, lev2, count) ==
  /\ \A d \in 1..Len(ds) : d \in 1..Len(ds2) => d \in 1..count /\ ds2[d] = ds[d]
  /\ LevelsAgree(op, op2, count)
  /\ \A d \in 1..count : Past(op, d) => Past(op2, d)
  /\ \A j \in 1..Len(s2) : j \in 1..Len(s) =>
       /\ lev2[j] = lev[j]
       /\ \A d \in 1..Len(ds) : NotBeyond(op, d, lev[j]) => d \in 1..Len(ds2) /\ NotBeyond(op2, d, lev[j])
  /\ \A j \in 1..Len(s) : j \notin 1..Len(s2) =>
       \A d \in 1..count : InLevel(op, d, lev[j]) => d \notin 1..Len(ds2) \/ Past(op2, d)

\* Scopes that stay keep their tables; new ones are empty.
TablesKept(s, s2, kind) ==
  \A j \in 1..Len(s2) : \/ j \in 1..Len(s) /\ Table(s2[j], kind) = Table(s[j], kind)
                        \/ j \notin 1..Len(s) /\ \A n \in Names : Table(s2[j], kind)[n] = Nothing

\* No declaration of the kind is new.
NoneAdded(ds, ds2, kind) == \A d \in 1..Len(ds2) : d \in 1..Len(ds) \/ ds2[d].kind # kind

\* Then the entries are kept.
LEMMA CarryEntries ==
  ASSUME NEW op, NEW op2, NEW ds, NEW ds2, NEW s, NEW s2, NEW lev, NEW lev2, NEW count, NEW kind,
         Len(op) \in Nat, lev \in [1..Len(s) -> 0..Len(op)],
         Kept(op, op2, ds, ds2, s, s2, lev, lev2, count),
         TablesKept(s, s2, kind), NoneAdded(ds, ds2, kind),
         EntriesKept(op, ds, s, lev, kind)
  PROVE  EntriesKept(op2, ds2, s2, lev2, kind)
<1>1. ASSUME NEW d \in 1..Len(ds), d \in 1..Len(ds2), NEW j \in 1..Len(s), InLevel(op, d, lev[j])
      PROVE  InLevel(op2, d, lev[j])
  <2>1. lev[j] \in Nat /\ lev[j] <= Len(op)
    OBVIOUS
  <2>2. d \in 1..count
    BY <1>1 DEF Kept
  <2> QED
    BY <1>1, <2>1, <2>2 DEF Kept, LevelsAgree
<1>2. ASSUME NEW j \in 1..Len(s2), NEW n \in Names, Table(s2[j], kind)[n] # Nothing
      PROVE  /\ Table(s2[j], kind)[n] \in 1..Len(ds2)
             /\ ds2[Table(s2[j], kind)[n]] = [name |-> n, kind |-> kind]
             /\ InLevel(op2, Table(s2[j], kind)[n], lev2[j])
  <2>1. j \in 1..Len(s) /\ Table(s2[j], kind) = Table(s[j], kind) /\ lev2[j] = lev[j]
    BY <1>2 DEF TablesKept, Kept
  <2>2. PICK d : d = Table(s[j], kind)[n]
    OBVIOUS
  <2>3. d \in 1..Len(ds) /\ ds[d] = [name |-> n, kind |-> kind] /\ InLevel(op, d, lev[j])
    BY <1>2, <2>1, <2>2 DEF EntriesKept
  <2>4. NotBeyond(op, d, lev[j])
    BY <2>3 DEF InLevel, NotBeyond
  <2>5. d \in 1..Len(ds2) /\ ds2[d] = ds[d]
    BY <2>1, <2>3, <2>4 DEF Kept
  <2>6. InLevel(op2, d, lev[j])
    BY <1>1, <2>1, <2>3, <2>5
  <2> QED
    BY <2>1, <2>2, <2>3, <2>5, <2>6
<1>3. ASSUME NEW d \in 1..Len(ds2), ds2[d].kind = kind
      PROVE  \/ Past(op2, d)
             \/ \E j \in 1..Len(s2) : InLevel(op2, d, lev2[j]) /\ Table(s2[j], kind)[ds2[d].name] >= d
  <2>1. d \in 1..Len(ds) /\ ds2[d] = ds[d] /\ d \in 1..count
    BY <1>3 DEF NoneAdded, Kept
  <2>2. CASE Past(op, d)
    BY <2>1, <2>2 DEF Kept
  <2>3. CASE \E j \in 1..Len(s) : InLevel(op, d, lev[j]) /\ Table(s[j], kind)[ds[d].name] >= d
    <3>1. PICK j \in 1..Len(s) : InLevel(op, d, lev[j]) /\ Table(s[j], kind)[ds[d].name] >= d
      BY <2>3
    <3>2. CASE j \in 1..Len(s2)
      <4>1. lev2[j] = lev[j] /\ Table(s2[j], kind) = Table(s[j], kind)
        BY <3>2 DEF Kept, TablesKept
      <4>2. InLevel(op2, d, lev[j])
        BY <1>1, <2>1, <3>1
      <4> QED
        BY <2>1, <3>1, <3>2, <4>1, <4>2
    <3>3. CASE j \notin 1..Len(s2)
      BY <2>1, <3>1, <3>3 DEF Kept
    <3> QED
      BY <3>2, <3>3
  <2> QED
    BY <1>3, <2>1, <2>2, <2>3 DEF EntriesKept
<1> QED
  BY <1>2, <1>3 DEF EntriesKept

\* A runtime declaration is known in its scope, or where it will be.
Known(op, s, lev, d, n) ==
  \/ Past(op, d)
  \/ Pending(op, d, n)
  \/ \E j \in 1..Len(s) : InLevel(op, d, lev[j]) /\ n \in s[j].runtime_names

\* New names are of runtime declarations, and new declarations are known.
NamesJustified(op2, ds2, s, s2, lev2) ==
  \A j \in 1..Len(s2) : \A n \in s2[j].runtime_names :
    \/ j \in 1..Len(s) /\ n \in s[j].runtime_names
    \/ \E d \in 1..Len(ds2) : Runtime(ds2[d], n) /\ NotBeyond(op2, d, lev2[j])

\* What becomes known, or ceases to be pending, is in its scope.
NewKnown(op, op2, ds, ds2, s2, lev2) ==
  \A d \in 1..Len(ds2) : \A n \in Names : Runtime(ds2[d], n) =>
    \/ d \in 1..Len(ds) /\ ~Pending(op, d, n)
    \/ Known(op2, s2, lev2, d, n)

\* No scope that stays forgets a name.
NamesKept(s, s2) == \A j \in 1..Len(s) : j \in 1..Len(s2) => s[j].runtime_names \subseteq s2[j].runtime_names

\* Then the runtime names are kept.
LEMMA CarryRuntime ==
  ASSUME NEW op, NEW op2, NEW ds, NEW ds2, NEW s, NEW s2, NEW lev, NEW lev2, NEW count,
         Len(op) \in Nat, lev \in [1..Len(s) -> 0..Len(op)],
         Kept(op, op2, ds, ds2, s, s2, lev, lev2, count), NamesKept(s, s2),
         NamesJustified(op2, ds2, s, s2, lev2), NewKnown(op, op2, ds, ds2, s2, lev2),
         RuntimeKept(op, ds, s, lev)
  PROVE  RuntimeKept(op2, ds2, s2, lev2)
<1>1. ASSUME NEW j \in 1..Len(s2), NEW n \in s2[j].runtime_names
      PROVE  \E d \in 1..Len(ds2) : Runtime(ds2[d], n) /\ NotBeyond(op2, d, lev2[j])
  <2>1. CASE j \in 1..Len(s) /\ n \in s[j].runtime_names
    <3>1. PICK d \in 1..Len(ds) : Runtime(ds[d], n) /\ NotBeyond(op, d, lev[j])
      BY <2>1 DEF RuntimeKept
    <3>2. d \in 1..Len(ds2) /\ NotBeyond(op2, d, lev2[j]) /\ ds2[d] = ds[d]
      BY <2>1, <3>1 DEF Kept
    <3> QED
      BY <3>1, <3>2
  <2> QED
    BY <2>1 DEF NamesJustified
<1>2. ASSUME NEW d \in 1..Len(ds2), NEW n \in Names, Runtime(ds2[d], n)
      PROVE  Known(op2, s2, lev2, d, n)
  <2>1. CASE d \in 1..Len(ds) /\ ~Pending(op, d, n)
    <3>1. ds2[d] = ds[d] /\ d \in 1..count
      BY <2>1 DEF Kept
    <3>2. CASE Past(op, d)
      BY <3>1, <3>2 DEF Kept, Known
    <3>3. ASSUME NEW j \in 1..Len(s), InLevel(op, d, lev[j]), n \in s[j].runtime_names
          PROVE  Known(op2, s2, lev2, d, n)
      <4>1. CASE j \in 1..Len(s2)
        <5>1. lev2[j] = lev[j] /\ n \in s2[j].runtime_names
          BY <3>3, <4>1 DEF Kept, NamesKept
        <5>2. lev[j] \in Nat /\ lev[j] <= Len(op)
          OBVIOUS
        <5>3. InLevel(op2, d, lev[j])
          BY <3>1, <3>3, <5>2 DEF Kept, LevelsAgree
        <5> QED
          BY <4>1, <5>1, <5>3 DEF Known
      <4>2. CASE j \notin 1..Len(s2)
        BY <3>1, <3>3, <4>2 DEF Kept, Known
      <4> QED
        BY <4>1, <4>2
    <3>4. Runtime(ds[d], n)
      BY <1>2, <3>1
    <3> QED
      BY <2>1, <3>2, <3>3, <3>4 DEF RuntimeKept
  <2> QED
    BY <1>2, <2>1 DEF NewKnown
<1> QED
  BY <1>1, <1>2 DEF RuntimeKept, Known

\* What the comptime functions have seen stays what they have seen.
Steady(op, op2, ds, ds2) ==
  \A d \in 1..Len(ds2) : d \in 1..Len(ds) /\ ~Past(op2, d) =>
    \A e \in 1..d : ds2[e] = ds[e] /\ (Past(op2, e) <=> Past(op, e))

\* Functions keep the scopes they were made with.
HandlesStay(ds, ds2, hs, hs2) == \A d \in 1..Len(ds) : d \in 1..Len(ds2) => hs2[d] = hs[d]

\* Arithmetic of intervals.
LEMMA UpTo ==
  ASSUME NEW N \in Nat, NEW d \in 1..N
  PROVE  d \in Nat /\ d \in 1..d /\ \A e \in 1..(d - 1) : e \in 1..d
OBVIOUS

\* Then the handles are kept.
LEMMA CarryHandles ==
  ASSUME NEW op, NEW op2, NEW ds, NEW ds2, Len(ds) \in Nat, Len(ds2) \in Nat, NEW hs, NEW hs2,
         Steady(op, op2, ds, ds2), HandlesStay(ds, ds2, hs, hs2),
         NoneAdded(ds, ds2, "comptime function"), HandlesKept(op, ds, hs)
  PROVE  HandlesKept(op2, ds2, hs2)
<1> SUFFICES ASSUME NEW d \in 1..Len(ds2), ds2[d].kind = "comptime function", ~Past(op2, d),
                    NEW n \in Names, NEW kind \in CtKinds
             PROVE  Newest(LookUp(Tables(hs2[d], kind), n), op2, ds2, d - 1, n, kind)
  BY DEF HandlesKept
<1>0. d \in Nat /\ d \in 1..d /\ \A e \in 1..(d - 1) : e \in 1..d
  <2>1. PICK N \in Nat : N = Len(ds2)
    OBVIOUS
  <2> QED
    BY <2>1, UpTo
<1>1. d \in 1..Len(ds) /\ d \in 1..d /\ \A e \in 1..(d - 1) : e \in 1..d
  <2>1. d \in 1..Len(ds)
    BY DEF NoneAdded
  <2> QED
    BY <1>0, <2>1
<1>2. ds2[d] = ds[d] /\ ~Past(op, d) /\ hs2[d] = hs[d]
  BY <1>1 DEF Steady, HandlesStay
<1>3. \A e \in 1..(d - 1) : ds2[e] = ds[e] /\ (Past(op2, e) <=> Past(op, e))
  BY <1>1 DEF Steady
<1>4. PICK x : x = LookUp(Tables(hs[d], kind), n)
  OBVIOUS
<1>5. Newest(x, op, ds, d - 1, n, kind)
  BY <1>1, <1>2, <1>4 DEF HandlesKept
<1>6. Newest(x, op2, ds2, d - 1, n, kind)
  BY <1>3, <1>5 DEF Newest
<1> QED
  BY <1>2, <1>4, <1>6

\* The scope on top of the stack is that of the last level, if it has one.
LEMMA LastLevel ==
  ASSUME NEW op, Len(op) \in Nat, NEW lev, NEW count, Levels(op, lev, count),
         Len(op) = 0 \/ op[Len(op)].kind # "test"
  PROVE  lev[count] = Len(op) /\ count \in 1..count
<1>1. count \in Nat \ {0} /\ count \in 1..count /\ \A j \in 1..count : lev[j] \in 0..Len(op)
  BY DEF Levels
<1>2. CASE Len(op) = 0
  BY <1>1, <1>2
<1>3. CASE Len(op) # 0
  <2>1. Len(op) \in 1..Len(op) /\ op[Len(op)].kind # "test"
    BY <1>3
  <2>2. PICK j \in 1..count : lev[j] = Len(op)
    BY <2>1 DEF Levels
  <2>3. j < count => lev[j] < lev[count]
    BY <1>1 DEF Levels
  <2>4. lev[count] <= Len(op) /\ lev[count] \in Nat
    BY <1>1
  <2>5. j = count
    BY <1>1, <2>2, <2>3, <2>4
  <2> QED
    BY <1>1, <2>2, <2>5
<1> QED
  BY <1>2, <1>3

\* A construct more, which has a scope.
Extends(op, op2) ==
  Len(op2) = Len(op) + 1 /\ op2[Len(op2)].kind # "test" /\ \A k \in 1..Len(op) : op2[k] = op[k]

\* Then there is a level more, and a scope.
LEMMA LevelsGrow ==
  ASSUME NEW op, Len(op) \in Nat, NEW op2, Extends(op, op2),
         NEW lev, NEW count, Levels(op, lev, count)
  PROVE  \E lev2 \in [1..(count + 1) -> 0..Len(op2)] :
           /\ Levels(op2, lev2, count + 1)
           /\ lev2[count + 1] = Len(op2) /\ \A j \in 1..count : lev2[j] = lev[j]
<1> DEFINE lev2 == [j \in 1..(count + 1) |-> IF j <= count THEN lev[j] ELSE Len(op2)]
<1>0. Len(op2) = Len(op) + 1 /\ op2[Len(op2)].kind # "test" /\ \A k \in 1..Len(op) : op2[k] = op[k]
  BY DEF Extends
<1>1. count \in Nat \ {0} /\ \A j \in 1..count : lev[j] \in 0..Len(op)
  BY DEF Levels
<1>2. /\ lev2 \in [1..(count + 1) -> 0..Len(op2)]
      /\ lev2[count + 1] = Len(op2) /\ \A j \in 1..count : lev2[j] = lev[j]
  BY <1>0, <1>1
<1> HIDE DEF lev2
<1>3. ASSUME NEW i \in 1..(count + 1), NEW j \in 1..(count + 1), i < j PROVE lev2[i] < lev2[j]
  <2>1. i \in 1..count /\ (j \in 1..count \/ j = count + 1)
    BY <1>1, <1>3
  <2>2. CASE j \in 1..count
    BY <1>2, <1>3, <2>1, <2>2 DEF Levels
  <2>3. CASE j = count + 1
    <3>1. lev[i] \in 0..Len(op)
      BY <1>1, <2>1
    <3>2. lev[i] < Len(op2)
      BY <1>0, <3>1
    <3> QED
      BY <1>2, <2>1, <2>3, <3>2
  <2> QED
    BY <2>1, <2>2, <2>3
<1>4. ASSUME NEW j \in 2..(count + 1) PROVE op2[lev2[j]].kind # "test"
  <2>1. CASE j \in 1..count
    <3>1. j \in 2..count /\ 1 \in 1..count /\ 1 < j
      BY <1>1, <2>1
    <3>2. lev[1] < lev[j] /\ lev[1] = 0 /\ op[lev[j]].kind # "test"
      BY <2>1, <3>1 DEF Levels
    <3>3. lev[j] \in 1..Len(op)
      BY <1>1, <2>1, <3>2
    <3> QED
      BY <1>0, <1>2, <2>1, <3>2, <3>3
  <2>2. CASE j = count + 1
    BY <1>0, <1>2, <2>2
  <2> QED
    BY <1>1, <2>1, <2>2
<1>5. ASSUME NEW k \in 1..Len(op2), op2[k].kind # "test" PROVE \E j \in 1..(count + 1) : lev2[j] = k
  <2>1. CASE k \in 1..Len(op)
    <3>1. PICK j \in 1..count : lev[j] = k
      BY <1>0, <1>5, <2>1 DEF Levels
    <3>2. j \in 1..(count + 1)
      BY <1>1
    <3> QED
      BY <1>2, <3>1, <3>2
  <2>2. CASE k = Len(op2)
    <3>1. count + 1 \in 1..(count + 1)
      BY <1>1
    <3> QED
      BY <1>2, <2>2, <3>1
  <2>3. k \in 1..Len(op) \/ k = Len(op2)
    BY <1>0
  <2> QED
    BY <2>1, <2>2, <2>3
<1>6. lev2[1] = 0 /\ count + 1 \in Nat \ {0}
  <2>1. 1 \in 1..count
    BY <1>1
  <2> QED
    BY <1>1, <1>2, <2>1 DEF Levels
<1> QED
  BY <1>2, <1>3, <1>4, <1>5, <1>6 DEF Levels

\* The scope of the last level is left: its construct too, or its test is next.
ScopeLeft(op, op2) ==
  /\ Len(op) > 0 /\ op[Len(op)].kind # "test"
  /\ \A k \in 1..(Len(op) - 1) : op2[k].kind = op[k].kind
  /\ \/ Len(op2) = Len(op) - 1
     \/ Len(op2) = Len(op) /\ op2[Len(op)].kind = "test"

\* Then the last level has no scope any more.
LEMMA LevelsShrink ==
  ASSUME NEW op, Len(op) \in Nat, NEW op2, ScopeLeft(op, op2),
         NEW lev, NEW count, Levels(op, lev, count)
  PROVE  /\ count - 1 \in Nat /\ count - 1 >= 1 /\ lev[count] = Len(op)
         /\ \E lev2 \in [1..(count - 1) -> 0..Len(op2)] :
              /\ Levels(op2, lev2, count - 1)
              /\ \A j \in 1..(count - 1) : lev2[j] = lev[j] /\ lev[j] <= Len(op) - 1
<1> DEFINE lev2 == [j \in 1..(count - 1) |-> lev[j]]
<1>1. count \in Nat \ {0} /\ (\A j \in 1..count : lev[j] \in 0..Len(op)) /\ lev[1] = 0 /\ lev[count] = Len(op)
  <2>1. Len(op) = 0 \/ op[Len(op)].kind # "test"
    BY DEF ScopeLeft
  <2> QED
    BY <2>1, LastLevel DEF Levels
<1>2. count # 1
  BY <1>1 DEF ScopeLeft
<1>3. count - 1 \in Nat /\ count - 1 >= 1 /\ count \in 1..count /\ \A j \in 1..(count - 1) : j \in 1..count /\ j < count
  BY <1>1, <1>2
<1>4. \A j \in 1..(count - 1) : lev[j] \in 0..(Len(op) - 1)
  <2> TAKE j \in 1..(count - 1)
  <2>1. lev[j] < lev[count] /\ lev[j] \in 0..Len(op)
    BY <1>1, <1>3 DEF Levels
  <2> QED
    BY <1>1, <2>1
<1>5. Len(op2) \in Nat /\ Len(op) - 1 <= Len(op2) /\ \A k \in 1..(Len(op) - 1) : k \in 1..Len(op)
  BY DEF ScopeLeft
<1>6. lev2 \in [1..(count - 1) -> 0..Len(op2)] /\ \A j \in 1..(count - 1) : lev2[j] = lev[j]
  <2>1. \A j \in 1..(count - 1) : lev[j] \in 0..Len(op2)
    BY <1>4, <1>5
  <2> QED
    BY <2>1
<1> HIDE DEF lev2
<1>7. ASSUME NEW j \in 2..(count - 1) PROVE op2[lev2[j]].kind # "test"
  <2>1. j \in 1..(count - 1) /\ j \in 2..count /\ 1 \in 1..count /\ 1 < j /\ j \in 1..count
    BY <1>3
  <2>2. lev[1] < lev[j] /\ op[lev[j]].kind # "test"
    BY <2>1 DEF Levels
  <2>3. lev[j] \in 1..(Len(op) - 1)
    BY <1>1, <1>4, <2>1, <2>2
  <2> QED
    BY <1>6, <2>1, <2>2, <2>3 DEF ScopeLeft
<1>8. ASSUME NEW k \in 1..Len(op2), op2[k].kind # "test" PROVE \E j \in 1..(count - 1) : lev2[j] = k
  <2>1. k \in 1..(Len(op) - 1)
    BY <1>8 DEF ScopeLeft
  <2>2. op[k].kind # "test" /\ k \in 1..Len(op) /\ k # Len(op)
    BY <1>8, <2>1 DEF ScopeLeft
  <2>3. PICK j \in 1..count : lev[j] = k
    BY <2>2 DEF Levels
  <2>4. j \in 1..(count - 1)
    BY <1>1, <2>2, <2>3
  <2> QED
    BY <1>6, <2>3, <2>4
<1>9. lev2[1] = 0 /\ count - 1 \in Nat \ {0}
  <2>1. 1 \in 1..(count - 1)
    BY <1>3
  <2> QED
    BY <1>1, <1>3, <1>6, <2>1
<1>10. \A i, j \in 1..(count - 1) : i < j => lev2[i] < lev2[j]
  BY <1>3, <1>6 DEF Levels
<1>11. Levels(op2, lev2, count - 1)
  BY <1>6, <1>7, <1>8, <1>9, <1>10 DEF Levels
<1>12. \A j \in 1..(count - 1) : lev[j] <= Len(op) - 1
  BY <1>4
<1> QED
  BY <1>1, <1>3, <1>6, <1>11, <1>12

\* The construct that is left had no scope.
LEMMA LevelsStay ==
  ASSUME NEW op, Len(op) \in Nat \ {0}, op[Len(op)].kind = "test",
         NEW op2, Len(op2) = Len(op) - 1, \A k \in 1..Len(op2) : op2[k] = op[k],
         NEW lev, NEW count, Levels(op, lev, count)
  PROVE  Levels(op2, lev, count) /\ lev \in [1..count -> 0..Len(op2)]
<1>1. count \in Nat \ {0} /\ (\A j \in 1..count : lev[j] \in 0..Len(op)) /\ lev[1] = 0 /\ lev \in [1..count -> 0..Len(op)]
  BY DEF Levels
<1>2. ASSUME NEW j \in 2..count PROVE lev[j] \in 1..Len(op2) /\ op2[lev[j]].kind # "test"
  <2>1. j \in 1..count /\ 1 \in 1..count /\ 1 < j
    BY <1>1
  <2>2. lev[1] < lev[j] /\ op[lev[j]].kind # "test"
    BY <2>1 DEF Levels
  <2>3. lev[j] # Len(op) /\ lev[j] \in 0..Len(op) /\ 0 < lev[j]
    BY <1>1, <2>1, <2>2
  <2>4. lev[j] \in 1..Len(op2)
    BY <2>3
  <2> QED
    BY <2>2, <2>4
<1>3. \A j \in 1..count : lev[j] \in 0..Len(op2)
  <2> TAKE j \in 1..count
  <2>1. CASE j = 1
    BY <1>1, <2>1
  <2>2. CASE j \in 2..count
    BY <1>2, <2>2
  <2> QED
    BY <1>1, <2>1, <2>2
<1>4. \A k \in 1..Len(op2) : k \in 1..Len(op)
  OBVIOUS
<1>5. lev \in [1..count -> 0..Len(op2)]
  BY <1>1, <1>3
<1>6. \A k \in 1..Len(op2) : op2[k].kind # "test" => \E j \in 1..count : lev[j] = k
  BY <1>4 DEF Levels
<1> QED
  BY <1>1, <1>2, <1>5, <1>6 DEF Levels

\* The kinds of constructs that have no scope are no others than before.
LEMMA LevelsSame ==
  ASSUME NEW op, Len(op) \in Nat, NEW op2, Len(op2) = Len(op),
         \A k \in 1..Len(op) : op2[k].kind = "test" <=> op[k].kind = "test",
         NEW lev, NEW count, Levels(op, lev, count)
  PROVE  Levels(op2, lev, count)
<1>1. ASSUME NEW j \in 2..count PROVE op2[lev[j]].kind # "test"
  <2>1. j \in 1..count /\ 1 \in 1..count /\ 1 < j /\ lev[j] \in 0..Len(op) /\ lev[1] = 0
    BY DEF Levels
  <2>2. lev[1] < lev[j] /\ op[lev[j]].kind # "test"
    BY <2>1 DEF Levels
  <2>3. lev[j] \in 1..Len(op)
    BY <2>1, <2>2
  <2> QED
    BY <2>2, <2>3
<1> QED
  BY <1>1 DEF Levels

\* All that is kept, once it is known how a step changes the levels.
LEMMA EnvCarried ==
  ASSUME NEW op, NEW op2, NEW ds, NEW ds2, NEW s, NEW s2, NEW lev, NEW lev2, NEW count,
         Len(op) \in Nat, lev \in [1..Len(s) -> 0..Len(op)], lev2 \in [1..Len(s2) -> 0..Len(op2)],
         Levels(op2, lev2, Len(s2)),
         Kept(op, op2, ds, ds2, s, s2, lev, lev2, count),
         TablesKept(s, s2, "comptime"), TablesKept(s, s2, "comptime function"),
         NoneAdded(ds, ds2, "comptime"), NoneAdded(ds, ds2, "comptime function"),
         EntriesKept(op, ds, s, lev, "comptime"), EntriesKept(op, ds, s, lev, "comptime function"),
         NamesKept(s, s2), NamesJustified(op2, ds2, s, s2, lev2), NewKnown(op, op2, ds, ds2, s2, lev2),
         RuntimeKept(op, ds, s, lev)
  PROVE  EnvKept(op2, ds2, s2)
<1>1. EntriesKept(op2, ds2, s2, lev2, "comptime")
  <2>1. PICK kind : kind = "comptime"
    OBVIOUS
  <2>2. EntriesKept(op2, ds2, s2, lev2, kind)
    BY <2>1, CarryEntries
  <2> QED
    BY <2>1, <2>2
<1>2. EntriesKept(op2, ds2, s2, lev2, "comptime function")
  <2>1. PICK kind : kind = "comptime function"
    OBVIOUS
  <2>2. EntriesKept(op2, ds2, s2, lev2, kind)
    BY <2>1, CarryEntries
  <2> QED
    BY <2>1, <2>2
<1>3. RuntimeKept(op2, ds2, s2, lev2)
  BY CarryRuntime
<1> QED
  BY <1>1, <1>2, <1>3 DEF EnvKept

\* The declarations of a construct: those around it, and those inside.
LocalsOf(ds, at, names) ==
  \A i \in 1..Len(names) : ds[at + i] = [name |-> names[i], kind |-> "local"]

\* The declarations a construct adds.
DeclaredBy(ds, ds2, outer, inner) ==
  /\ ds2 \in Seq(Decl) /\ Len(ds2) = Len(ds) + Len(outer) + Len(inner)
  /\ \A d \in 1..Len(ds) : ds2[d] = ds[d]
  /\ LocalsOf(ds2, Len(ds), outer) /\ LocalsOf(ds2, Len(ds) + Len(outer), inner)

\* What a new declaration is.
NewLocal(ds, ds2, outer, inner, d) ==
  \/ \E i \in 1..Len(outer) : d = Len(ds) + i /\ ds2[d] = [name |-> outer[i], kind |-> "local"]
  \/ /\ d > Len(ds) + Len(outer)
     /\ \E i \in 1..Len(inner) : ds2[d] = [name |-> inner[i], kind |-> "local"]

\* The new declarations are locals.
LEMMA NewLocals ==
  ASSUME NEW ds \in Seq(Decl), NEW outer \in Seq(Names), NEW inner \in Seq(Names), NEW ds2,
         DeclaredBy(ds, ds2, outer, inner), NEW d \in 1..Len(ds2), d \notin 1..Len(ds)
  PROVE  NewLocal(ds, ds2, outer, inner, d)
<1>1. Len(ds) \in Nat /\ Len(outer) \in Nat /\ Len(inner) \in Nat /\ Len(ds2) = Len(ds) + Len(outer) + Len(inner)
  BY DEF DeclaredBy
<1>2. CASE d <= Len(ds) + Len(outer)
  <2>1. d - Len(ds) \in 1..Len(outer) /\ d = Len(ds) + (d - Len(ds))
    BY <1>1, <1>2
  <2> QED
    BY <2>1 DEF NewLocal, DeclaredBy, LocalsOf
<1>3. CASE ~(d <= Len(ds) + Len(outer))
  <2>1. /\ d - (Len(ds) + Len(outer)) \in 1..Len(inner)
        /\ d = Len(ds) + Len(outer) + (d - (Len(ds) + Len(outer)))
        /\ d > Len(ds) + Len(outer)
    BY <1>1, <1>3
  <2> QED
    BY <2>1 DEF NewLocal, DeclaredBy, LocalsOf
<1> QED
  BY <1>2, <1>3

\* The elements of a sequence.
LEMMA InToSet ==
  ASSUME NEW S, NEW t \in Seq(S), NEW x
  PROVE  x \in ToSet(t) <=> \E i \in 1..Len(t) : t[i] = x
BY DEF ToSet

\* A sequence of one is not the empty one.
LEMMA NotEmpty ==
  ASSUME NEW S, NEW t \in Seq(S), Len(t) = 1
  PROVE  t # <<>>
<1>1. t = <<>> => Len(t) = 0
  BY EmptySeq
<1> QED
  BY <1>1

\* Arithmetic of intervals.
LEMMA OnlyOne ==
  ASSUME NEW N \in Nat, N <= 1, NEW i \in 1..N
  PROVE  i = 1 /\ N = 1
OBVIOUS

\* What the expander knows of a construct that is entered.
Knows(s, s2, outer, inner, known) ==
  /\ Len(s2) = Len(s) + 1 /\ \A j \in 1..Len(s) : s2[j] = s[j]
  /\ s2[Len(s) + 1] = [EmptyScope EXCEPT !.runtime_names = known]
  /\ known \subseteq ToSet(outer) \cup ToSet(inner) /\ ToSet(inner) \subseteq known

\* A construct is entered, step by step on plain values.
EnterStep(op, op2, ds, ds2, s, s2, hs, hs2, f, outer, inner, known) ==
  /\ op \in Seq(Construct) /\ ds \in Seq(Decl) /\ Bases(op, Len(ds)) /\ Len(s) \in Nat
  /\ outer \in Seq(Names) /\ inner \in Seq(Names) /\ Len(outer) <= 1
  /\ outer # <<>> /\ op # <<>> => op[Len(op)].kind \notin {"comprehension", "test", "result"}
  /\ f \in Construct /\ f.kind # "test" /\ f.base = Len(ds) + Len(outer) /\ f.after = ToSet(outer)
  /\ op2 = Append(op, f)
  /\ DeclaredBy(ds, ds2, outer, inner)
  /\ Knows(s, s2, outer, inner, known)
  /\ HandlesStay(ds, ds2, hs, hs2)

\* Entering a construct keeps the books.
LEMMA EnterKeeps ==
  ASSUME NEW op, NEW op2, NEW ds, NEW ds2, NEW s, NEW s2, NEW hs, NEW hs2,
         NEW f, NEW outer, NEW inner, NEW known,
         EnterStep(op, op2, ds, ds2, s, s2, hs, hs2, f, outer, inner, known),
         Expander(op, ds, s, hs)
  PROVE  Expander(op2, ds2, s2, hs2)
<1>a. op \in Seq(Construct) /\ ds \in Seq(Decl) /\ Bases(op, Len(ds)) /\ outer \in Seq(Names) /\ inner \in Seq(Names)
  BY DEF EnterStep
<1>b. /\ f \in Construct /\ f.kind # "test" /\ f.base = Len(ds) + Len(outer) /\ f.after = ToSet(outer)
      /\ op2 = Append(op, f) /\ Len(outer) <= 1 /\ Len(s) \in Nat
  BY DEF EnterStep
<1>c. DeclaredBy(ds, ds2, outer, inner) /\ Knows(s, s2, outer, inner, known) /\ HandlesStay(ds, ds2, hs, hs2)
  BY DEF EnterStep
<1>1. /\ Len(op) \in Nat /\ Len(ds) \in Nat /\ Len(ds2) \in Nat /\ Len(outer) \in Nat /\ Len(inner) \in Nat
      /\ Len(ds2) = Len(ds) + Len(outer) + Len(inner) /\ Len(ds) <= Len(ds2) /\ f.base >= Len(ds) /\ f.base \in Nat
  BY <1>a, <1>b, <1>c DEF DeclaredBy
<1>2. /\ op2 \in Seq(Construct) /\ Len(op2) = Len(op) + 1 /\ op2[Len(op2)] = f
      /\ \A k \in 1..Len(op) : op2[k] = op[k]
      /\ LevelsAgree(op, op2, Len(ds)) /\ KindsAgree(op, op2)
      /\ \A d \in 1..Len(ds) : \A k \in 0..Len(op) : NotBeyond(op, d, k) => NotBeyond(op2, d, k)
  <2>1. PICK count \in Nat : count = Len(ds)
    BY <1>1
  <2>2. Bases(op, count) /\ Opened(op, op2, f, count)
    BY <1>1, <1>a, <1>b, <2>1 DEF Opened
  <2>3. /\ op2 \in Seq(Construct) /\ Len(op2) = Len(op) + 1 /\ op2[Len(op) + 1] = f
        /\ \A k \in 1..Len(op) : op2[k] = op[k]
        /\ LevelsAgree(op, op2, count) /\ KindsAgree(op, op2)
        /\ \A d \in 1..count : \A k \in 0..Len(op) : NotBeyond(op, d, k) => NotBeyond(op2, d, k)
    BY <1>a, <2>1, <2>2, EnterAgrees
  <2> QED
    BY <2>1, <2>3
<1>3. \A d \in 1..Len(ds) : Past(op, d) <=> Past(op2, d)
  BY <1>2, <1>a, PastAgrees
<1>4. PICK lev \in [1..Len(s) -> 0..Len(op)] :
        /\ Levels(op, lev, Len(s))
        /\ EntriesKept(op, ds, s, lev, "comptime")
        /\ EntriesKept(op, ds, s, lev, "comptime function")
        /\ RuntimeKept(op, ds, s, lev)
  BY DEF Expander, EnvKept
<1>5. PICK lev2 \in [1..(Len(s) + 1) -> 0..Len(op2)] :
        /\ Levels(op2, lev2, Len(s) + 1)
        /\ lev2[Len(s) + 1] = Len(op2) /\ \A j \in 1..Len(s) : lev2[j] = lev[j]
  <2>1. PICK count : count = Len(s)
    OBVIOUS
  <2>2. Levels(op, lev, count) /\ Extends(op, op2)
    BY <1>2, <1>4, <1>b, <2>1 DEF Extends
  <2>3. \E lev2 \in [1..(count + 1) -> 0..Len(op2)] :
           /\ Levels(op2, lev2, count + 1)
           /\ lev2[count + 1] = Len(op2) /\ \A j \in 1..count : lev2[j] = lev[j]
    BY <1>1, <2>2, LevelsGrow
  <2> QED
    BY <2>1, <2>3
<1>6. Len(s2) = Len(s) + 1 /\ \A j \in 1..Len(s2) : (j \in 1..Len(s) /\ s2[j] = s[j]) \/ (j = Len(s) + 1 /\ j \notin 1..Len(s))
  <2>1. Len(s2) = Len(s) + 1 /\ \A j \in 1..Len(s) : s2[j] = s[j]
    BY <1>c DEF Knows
  <2>2. \A j \in 1..(Len(s) + 1) : j \in 1..Len(s) \/ (j = Len(s) + 1 /\ j \notin 1..Len(s))
    BY <1>b
  <2> QED
    BY <2>1, <2>2
<1>7. \A d \in 1..Len(ds) : d \in 1..Len(ds2) /\ ds2[d] = ds[d]
  BY <1>1, <1>c DEF DeclaredBy
<1>8. Kept(op, op2, ds, ds2, s, s2, lev, lev2, Len(ds))
  <2>1. \A j \in 1..Len(s) : j \in 1..Len(s2) /\ lev[j] \in 0..Len(op)
    BY <1>6
  <2> QED
    BY <1>2, <1>3, <1>5, <1>7, <2>1 DEF Kept
<1>9. \A d \in 1..Len(ds2) : d \in 1..Len(ds) \/ ds2[d].kind = "local"
  <2>1. ASSUME NEW d \in 1..Len(ds2), d \notin 1..Len(ds) PROVE ds2[d].kind = "local"
    <3>1. NewLocal(ds, ds2, outer, inner, d)
      BY <1>a, <1>c, <2>1, NewLocals
    <3>2. PICK x : ds2[d] = [name |-> x, kind |-> "local"]
      BY <3>1 DEF NewLocal
    <3> QED
      BY <3>2
  <2> QED
    BY <2>1
<1>10. NoneAdded(ds, ds2, "comptime") /\ NoneAdded(ds, ds2, "comptime function")
  BY <1>9 DEF NoneAdded
<1>11. /\ s2[Len(s) + 1].runtime_names = known
       /\ \A n \in Names : \A kind : Table(s2[Len(s) + 1], kind)[n] = Nothing
  BY <1>c DEF Knows, EmptyScope, Table
<1>12. TablesKept(s, s2, "comptime") /\ TablesKept(s, s2, "comptime function")
  BY <1>6, <1>11 DEF TablesKept
<1>13. NamesKept(s, s2)
  BY <1>c DEF NamesKept, Knows
<1>14. NamesJustified(op2, ds2, s, s2, lev2)
  <2> SUFFICES ASSUME NEW j \in 1..Len(s2), NEW n \in s2[j].runtime_names, j = Len(s) + 1
               PROVE  \E d \in 1..Len(ds2) : Runtime(ds2[d], n) /\ NotBeyond(op2, d, lev2[j])
    BY <1>6 DEF NamesJustified
  <2>1. \A d : NotBeyond(op2, d, lev2[j])
    BY <1>2, <1>5 DEF NotBeyond
  <2>2. n \in ToSet(outer) \cup ToSet(inner)
    BY <1>11, <1>c DEF Knows
  <2>3. CASE n \in ToSet(outer)
    <3>1. PICK i \in 1..Len(outer) : outer[i] = n
      BY <2>3, <1>a, <1>b, <1>c, InToSet
    <3>2. ds2[Len(ds) + i] = [name |-> n, kind |-> "local"]
      BY <1>c, <3>1 DEF DeclaredBy, LocalsOf
    <3>3. PICK d \in 1..Len(ds2) : d = Len(ds) + i
      BY <1>1
    <3>4. Runtime(ds2[d], n)
      BY <3>2, <3>3 DEF Runtime
    <3> QED
      BY <2>1, <3>4
  <2>4. CASE n \in ToSet(inner)
    <3>1. PICK i \in 1..Len(inner) : inner[i] = n
      BY <2>4, <1>a, <1>b, <1>c, InToSet
    <3>2. ds2[Len(ds) + Len(outer) + i] = [name |-> n, kind |-> "local"]
      BY <1>c, <3>1 DEF DeclaredBy, LocalsOf
    <3>3. PICK d \in 1..Len(ds2) : d = Len(ds) + Len(outer) + i
      BY <1>1
    <3>4. Runtime(ds2[d], n)
      BY <3>2, <3>3 DEF Runtime
    <3> QED
      BY <2>1, <3>4
  <2> QED
    BY <2>2, <2>3, <2>4
<1>15. NewKnown(op, op2, ds, ds2, s2, lev2)
  <2> SUFFICES ASSUME NEW d \in 1..Len(ds2), NEW n \in Names, Runtime(ds2[d], n)
               PROVE  (d \in 1..Len(ds) /\ ~Pending(op, d, n)) \/ Known(op2, s2, lev2, d, n)
    BY DEF NewKnown
  <2>1. CASE d \in 1..Len(ds) /\ Pending(op, d, n)
    <3>1. PICK i \in 1..Len(op) : op[i].base = d /\ n \in op[i].after
      BY <2>1 DEF Pending
    <3>2. op2[i] = op[i] /\ i \in 1..Len(op2)
      BY <1>1, <1>2
    <3> QED
      BY <3>1, <3>2 DEF Known, Pending
  <2>2. ASSUME NEW i \in 1..Len(outer), d = Len(ds) + i, ds2[d] = [name |-> outer[i], kind |-> "local"]
        PROVE  Known(op2, s2, lev2, d, n)
    <3>1. f.base = d /\ n \in f.after
      <4>1. n = outer[i]
        BY <2>2 DEF Runtime
      <4>2. i = 1 /\ Len(outer) = 1
        BY <1>1, <1>b, OnlyOne
      <4> QED
        <5>1. n \in ToSet(outer)
          BY <1>a, <4>1, InToSet
        <5> QED
          BY <1>b, <2>2, <4>2, <5>1
    <3>2. Len(op2) \in 1..Len(op2)
      BY <1>1, <1>2
    <3> QED
      BY <1>2, <3>1, <3>2 DEF Known, Pending
  <2>3. ASSUME d > Len(ds) + Len(outer), NEW i \in 1..Len(inner), ds2[d] = [name |-> inner[i], kind |-> "local"]
        PROVE  Known(op2, s2, lev2, d, n)
    <3>1. n \in known
      <4>1. n = inner[i]
        BY <2>3 DEF Runtime
      <4> QED
        BY <4>1, <1>a, <1>b, <1>c, InToSet DEF Knows
    <3>2. Len(s) + 1 \in 1..Len(s2)
      BY <1>6
    <3>3. InLevel(op2, d, lev2[Len(s) + 1])
      <4>1. Base(op2, Len(op2)) = f.base
        BY <1>1, <1>2 DEF Base
      <4>2. f.base < d
        BY <1>1, <1>b, <2>3
      <4> QED
        BY <1>5, <4>1, <4>2 DEF InLevel
    <3> QED
      BY <1>11, <3>1, <3>2, <3>3 DEF Known
  <2>4. CASE d \notin 1..Len(ds)
    <3>1. NewLocal(ds, ds2, outer, inner, d)
      BY <1>a, <1>c, <2>4, NewLocals
    <3> QED
      BY <2>2, <2>3, <3>1 DEF NewLocal
  <2> QED
    BY <2>1, <2>4
<1>16. EnvKept(op2, ds2, s2)
  <2>1. lev2 \in [1..Len(s2) -> 0..Len(op2)] /\ Levels(op2, lev2, Len(s2))
    BY <1>5, <1>6
  <2>2. PICK count : count = Len(ds)
    OBVIOUS
  <2>3. Kept(op, op2, ds, ds2, s, s2, lev, lev2, count)
    BY <1>8, <2>2
  <2> QED
    BY <1>1, <1>4, <1>10, <1>12, <1>13, <1>14, <1>15, <2>1, <2>3, EnvCarried
<1>17. Afters(op2, ds2)
  <2> SUFFICES ASSUME NEW i \in 1..Len(op2), NEW n \in op2[i].after
               PROVE  /\ Base(op2, i - 1) < op2[i].base /\ op2[i].base <= Len(ds2)
                      /\ ds2[op2[i].base] = [name |-> n, kind |-> "local"]
                      /\ i > 1 => op2[i - 1].kind \notin {"comprehension", "test", "result"}
    BY DEF Afters
  <2>0. \A k \in 0..Len(op) : Base(op2, k) = Base(op, k) /\ Base(op, k) \in Nat
    BY <1>1, <1>2, <1>a, BasesAreNat DEF Base
  <2>1. CASE i \in 1..Len(op)
    <3>1. /\ Base(op, i - 1) < op[i].base /\ op[i].base <= Len(ds)
          /\ ds[op[i].base] = [name |-> n, kind |-> "local"]
          /\ i > 1 => op[i - 1].kind \notin {"comprehension", "test", "result"}
      BY <1>2, <2>1 DEF Expander, Afters
    <3>2. i - 1 \in 0..Len(op) /\ (i > 1 => i - 1 \in 1..Len(op))
      BY <1>1, <2>1
    <3>3. op[i].base \in Nat
      <4>1. op[i] \in Construct
        BY <1>a, <2>1
      <4> QED
        BY <4>1, BoundsAssumption DEF Construct
    <3>4. op[i].base \in 1..Len(ds) /\ op[i].base <= Len(ds2)
      <4>1. PICK b \in Nat, c \in Nat : b = op[i].base /\ c = Base(op, i - 1)
        BY <2>0, <3>2, <3>3
      <4>2. c < b /\ b <= Len(ds)
        BY <3>1, <4>1
      <4>3. b \in 1..Len(ds) /\ b <= Len(ds2)
        BY <1>1, <4>2
      <4> QED
        BY <4>1, <4>3
    <3> QED
      BY <1>2, <1>7, <2>0, <2>1, <3>1, <3>2, <3>4
  <2>2. CASE i = Len(op) + 1
    <3>1. PICK j \in 1..Len(outer) : n = outer[j]
      BY <1>2, <2>2, <1>a, <1>b, <1>c, InToSet
    <3>2. j = 1 /\ Len(outer) = 1 /\ f.base = Len(ds) + 1 /\ i - 1 = Len(op)
      <4>1. j = 1 /\ Len(outer) = 1
        BY <1>1, <1>b, OnlyOne
      <4> QED
        BY <1>1, <1>b, <2>2, <4>1
    <3>3. ds2[f.base] = [name |-> n, kind |-> "local"]
      BY <1>c, <3>1, <3>2 DEF DeclaredBy, LocalsOf
    <3>4. Base(op, Len(op)) <= Len(ds)
      BY <1>a DEF Bases
    <3>5. Base(op2, i - 1) < f.base
      <4>1. PICK b \in Nat : b = Base(op, Len(op))
        BY <1>1, <2>0
      <4>2. Base(op2, i - 1) = b
        BY <1>1, <2>0, <3>2, <4>1
      <4>3. b < f.base
        BY <1>1, <3>2, <3>4, <4>1
      <4> QED
        BY <4>2, <4>3
    <3>6. f.base <= Len(ds2)
      BY <1>1, <3>2
    <3>7. i > 1 => op2[i - 1].kind \notin {"comprehension", "test", "result"}
      <4>1. outer # <<>>
        BY <1>a, <3>2, NotEmpty
      <4>2. i > 1 => Len(op) \in 1..Len(op) /\ op # <<>>
        BY <1>1, <2>2
      <4> QED
        BY <1>2, <3>2, <4>1, <4>2 DEF EnterStep
    <3> QED
      BY <1>2, <2>2, <3>3, <3>5, <3>6, <3>7
  <2> QED
    BY <1>1, <1>2, <2>1, <2>2
<1>18. HandlesKept(op2, ds2, hs2)
  <2>1. Steady(op, op2, ds, ds2)
    <3>1. \A d \in 1..Len(ds) : \A e \in 1..d : e \in 1..Len(ds)
      BY <1>1
    <3> QED
      BY <1>3, <1>7, <3>1 DEF Steady
  <2> QED
    BY <1>1, <1>10, <1>c, <2>1, CarryHandles DEF Expander
<1> QED
  BY <1>16, <1>17, <1>18 DEF Expander

\* The walk reaches the test of a repeat loop: its declarations are past.
TestStep(op, op2, ds, s, s2) ==
  /\ op \in Seq(Construct) /\ ds \in Seq(Decl) /\ Bases(op, Len(ds)) /\ Len(s) \in Nat
  /\ BlockEnds(op, op2, "test")
  /\ Len(s2) = Len(s) - 1 /\ \A j \in 1..(Len(s) - 1) : s2[j] = s[j]

\* Reaching the test keeps the books.
LEMMA TestKeeps ==
  ASSUME NEW op, NEW op2, NEW ds, NEW s, NEW s2, NEW hs,
         TestStep(op, op2, ds, s, s2), Expander(op, ds, s, hs)
  PROVE  Expander(op2, ds, s2, hs)
<1>a. op \in Seq(Construct) /\ ds \in Seq(Decl) /\ Bases(op, Len(ds)) /\ Len(s) \in Nat /\ BlockEnds(op, op2, "test")
  BY DEF TestStep
<1>b. Len(s2) = Len(s) - 1 /\ \A j \in 1..(Len(s) - 1) : s2[j] = s[j]
  BY DEF TestStep
<1>1. /\ Len(op) \in Nat /\ Len(op) > 0 /\ op[Len(op)].kind \in {"repeat", "do"}
      /\ Len(ds) \in Nat
  BY <1>a DEF BlockEnds
<1>2. /\ op2 \in Seq(Construct) /\ Len(op2) = Len(op)
      /\ \A k \in 1..Len(op) : /\ op2[k].base = op[k].base /\ op2[k].after = op[k].after
                               /\ op2[k].kind = IF k = Len(op) THEN "test" ELSE op[k].kind
      /\ LevelsAgree(op, op2, Len(ds))
      /\ \A k \in 0..Len(op) : \A d : NotBeyond(op2, d, k) <=> NotBeyond(op, d, k)
  <2>1. PICK kind, count : kind = "test" /\ count = Len(ds)
    OBVIOUS
  <2>2. BlockEnds(op, op2, kind)
    BY <1>a, <2>1
  <2>3. /\ op2 \in Seq(Construct) /\ Len(op2) = Len(op)
        /\ \A k \in 1..Len(op) : /\ op2[k].base = op[k].base /\ op2[k].after = op[k].after
                                 /\ op2[k].kind = IF k = Len(op) THEN kind ELSE op[k].kind
        /\ LevelsAgree(op, op2, count)
        /\ \A k \in 0..Len(op) : \A d : NotBeyond(op2, d, k) <=> NotBeyond(op, d, k)
    BY <1>a, <2>2, ReachAgrees
  <2> QED
    BY <2>1, <2>3
<1>3. PICK lev \in [1..Len(s) -> 0..Len(op)] :
        /\ Levels(op, lev, Len(s))
        /\ EntriesKept(op, ds, s, lev, "comptime")
        /\ EntriesKept(op, ds, s, lev, "comptime function")
        /\ RuntimeKept(op, ds, s, lev)
  BY DEF Expander, EnvKept
<1>4. ScopeLeft(op, op2)
  <2>1. \A k \in 1..(Len(op) - 1) : k \in 1..Len(op) /\ k # Len(op)
    BY <1>1
  <2>2. Len(op) \in 1..Len(op)
    BY <1>1
  <2> QED
    BY <1>1, <1>2, <2>1, <2>2 DEF ScopeLeft
<1>5. /\ Len(s) - 1 \in Nat /\ Len(s) - 1 >= 1 /\ lev[Len(s)] = Len(op)
      /\ \E lev2 \in [1..(Len(s) - 1) -> 0..Len(op2)] :
           /\ Levels(op2, lev2, Len(s) - 1)
           /\ \A j \in 1..(Len(s) - 1) : lev2[j] = lev[j] /\ lev[j] <= Len(op) - 1
  <2>1. PICK count : count = Len(s)
    OBVIOUS
  <2>2. Levels(op, lev, count)
    BY <1>3, <2>1
  <2>3. /\ count - 1 \in Nat /\ count - 1 >= 1 /\ lev[count] = Len(op)
        /\ \E lev2 \in [1..(count - 1) -> 0..Len(op2)] :
             /\ Levels(op2, lev2, count - 1)
             /\ \A j \in 1..(count - 1) : lev2[j] = lev[j] /\ lev[j] <= Len(op) - 1
    BY <1>1, <1>4, <2>2, LevelsShrink
  <2> QED
    BY <2>1, <2>3
<1>6. PICK lev2 \in [1..(Len(s) - 1) -> 0..Len(op2)] :
        Levels(op2, lev2, Len(s) - 1) /\ \A j \in 1..(Len(s) - 1) : lev2[j] = lev[j]
  BY <1>5
<1>7. ASSUME NEW d \in 1..Len(ds), InLevel(op2, d, Len(op)) PROVE Past(op2, d)
  <2>1. Len(op) \in 1..Len(op2) /\ op2[Len(op)].kind = "test"
    BY <1>1, <1>2
  <2> QED
    BY <1>7, <2>1 DEF Past
<1>8. \A d \in 1..Len(ds) : \A k \in 0..Len(op) : InLevel(op, d, k) <=> InLevel(op2, d, k)
  <2>1. \A k \in 0..Len(op) : k \in Nat /\ k <= Len(op)
    BY <1>1
  <2> QED
    BY <1>2, <2>1 DEF LevelsAgree
<1>9. ASSUME NEW d \in 1..Len(ds), Past(op, d) PROVE Past(op2, d)
  <2>1. PICK k \in 1..Len(op) : op[k].kind = "test" /\ InLevel(op, d, k)
    BY <1>9 DEF Past
  <2>2. k \in 1..Len(op2) /\ k # Len(op) /\ k \in 0..Len(op)
    BY <1>1, <1>2, <2>1
  <2> QED
    BY <1>2, <1>8, <2>1, <2>2 DEF Past
<1>10. \A j \in 1..Len(s2) : j \in 1..Len(s) /\ s2[j] = s[j] /\ lev2[j] = lev[j] /\ lev[j] \in 0..Len(op)
  <2>1. \A j \in 1..(Len(s) - 1) : j \in 1..Len(s)
    BY <1>5
  <2> QED
    BY <1>b, <1>6, <2>1
<1>11. ASSUME NEW j \in 1..Len(s), j \notin 1..Len(s2), NEW d \in 1..Len(ds), InLevel(op, d, lev[j])
       PROVE  Past(op2, d)
  <2>1. j = Len(s)
    BY <1>b, <1>5, <1>11
  <2>2. InLevel(op, d, Len(op)) /\ Len(op) \in 0..Len(op)
    BY <1>1, <1>5, <1>11, <2>1
  <2> QED
    BY <1>7, <1>8, <2>2
<1>12. Kept(op, op2, ds, ds, s, s2, lev, lev2, Len(ds))
  BY <1>2, <1>9, <1>10, <1>11 DEF Kept
<1>13. /\ TablesKept(s, s2, "comptime") /\ TablesKept(s, s2, "comptime function")
       /\ NoneAdded(ds, ds, "comptime") /\ NoneAdded(ds, ds, "comptime function")
       /\ NamesKept(s, s2) /\ NamesJustified(op2, ds, s, s2, lev2)
  BY <1>10 DEF TablesKept, NoneAdded, NamesKept, NamesJustified
<1>14. NewKnown(op, op2, ds, ds, s2, lev2)
  <2>1. \A d, n : Pending(op, d, n) => Pending(op2, d, n)
    BY <1>2 DEF Pending
  <2> QED
    BY <2>1 DEF NewKnown, Known
<1>15. EnvKept(op2, ds, s2)
  <2>1. lev2 \in [1..Len(s2) -> 0..Len(op2)] /\ Levels(op2, lev2, Len(s2))
    BY <1>b, <1>6
  <2>2. PICK count, ds2 : count = Len(ds) /\ ds2 = ds
    OBVIOUS
  <2>3. Kept(op, op2, ds, ds2, s, s2, lev, lev2, count)
    BY <1>12, <2>2
  <2>4. /\ NoneAdded(ds, ds2, "comptime") /\ NoneAdded(ds, ds2, "comptime function")
        /\ NamesJustified(op2, ds2, s, s2, lev2) /\ NewKnown(op, op2, ds, ds2, s2, lev2)
    BY <1>13, <1>14, <2>2
  <2>5. EnvKept(op2, ds2, s2)
    BY <1>1, <1>3, <1>13, <2>1, <2>3, <2>4, EnvCarried
  <2> QED
    BY <2>2, <2>5
<1>16. Afters(op2, ds)
  <2> SUFFICES ASSUME NEW i \in 1..Len(op2), NEW n \in op2[i].after
               PROVE  /\ Base(op2, i - 1) < op2[i].base /\ op2[i].base <= Len(ds)
                      /\ ds[op2[i].base] = [name |-> n, kind |-> "local"]
                      /\ i > 1 => op2[i - 1].kind \notin {"comprehension", "test", "result"}
    BY DEF Afters
  <2>1. i \in 1..Len(op) /\ op2[i].base = op[i].base /\ op2[i].after = op[i].after
    BY <1>2
  <2>2. /\ Base(op, i - 1) < op[i].base /\ op[i].base <= Len(ds)
        /\ ds[op[i].base] = [name |-> n, kind |-> "local"]
        /\ i > 1 => op[i - 1].kind \notin {"comprehension", "test", "result"}
    BY <2>1 DEF Expander, Afters
  <2>3. i - 1 # 0 => i - 1 \in 1..Len(op) /\ i - 1 # Len(op)
    BY <1>1, <2>1
  <2>4. Base(op2, i - 1) = Base(op, i - 1)
    BY <1>2, <2>3 DEF Base
  <2>5. i > 1 => i - 1 # 0
    BY <2>1
  <2> QED
    BY <1>2, <2>1, <2>2, <2>3, <2>4, <2>5
<1>17. HandlesKept(op2, ds, hs)
  <2>1. Steady(op, op2, ds, ds)
    <3> SUFFICES ASSUME NEW d \in 1..Len(ds), ~Past(op2, d), NEW e \in 1..d
                 PROVE  Past(op2, e) <=> Past(op, e)
      BY DEF Steady
    <3>1. e \in 1..Len(ds)
      BY <1>1
    <3>2. ASSUME Past(op2, e) PROVE Past(op, e)
      <4>1. PICK k \in 1..Len(op2) : op2[k].kind = "test" /\ InLevel(op2, e, k)
        BY <3>2 DEF Past
      <4>2. k \in 1..Len(op) /\ k \in 0..Len(op)
        BY <1>1, <1>2
      <4>3. k # Len(op)
        <5>1. ASSUME InLevel(op2, e, Len(op)) PROVE InLevel(op2, d, Len(op))
          <6>1. Base(op2, Len(op)) \in Nat
            BY <1>1, <1>2, BasesAreNat
          <6>2. Base(op2, Len(op)) < e /\ ~(Len(op) < Len(op2))
            BY <1>1, <1>2, <5>1 DEF InLevel
          <6>3. Base(op2, Len(op)) < d
            BY <6>1, <6>2
          <6> QED
            BY <6>2, <6>3 DEF InLevel
        <5> QED
          BY <1>7, <4>1, <5>1
      <4>4. op[k].kind = "test" /\ InLevel(op, e, k)
        BY <1>2, <1>8, <3>1, <4>1, <4>2, <4>3
      <4> QED
        BY <4>2, <4>4 DEF Past
    <3> QED
      BY <1>9, <3>1, <3>2
  <2>2. PICK ds2, hs2 : ds2 = ds /\ hs2 = hs
    OBVIOUS
  <2>3. /\ Steady(op, op2, ds, ds2) /\ HandlesStay(ds, ds2, hs, hs2) /\ NoneAdded(ds, ds2, "comptime function")
        /\ HandlesKept(op, ds, hs) /\ Len(ds2) \in Nat
    BY <1>1, <1>13, <2>1, <2>2 DEF HandlesStay, Expander
  <2>4. HandlesKept(op2, ds2, hs2)
    BY <1>1, <2>3, CarryHandles
  <2> QED
    BY <2>2, <2>4
<1> QED
  BY <1>15, <1>16, <1>17 DEF Expander

\* Nothing changes at the result of a do expression.
LEMMA ResultKeeps ==
  ASSUME NEW op \in Seq(Construct), NEW op2, BlockEnds(op, op2, "result"), NEW ds, NEW s, NEW hs,
         Expander(op, ds, s, hs)
  PROVE  Expander(op2, ds, s, hs)
<1>1. /\ Len(op) \in Nat /\ Len(op) > 0 /\ op[Len(op)].kind \in {"repeat", "do"}
  BY DEF BlockEnds
<1>2. /\ Len(op2) = Len(op)
      /\ \A k \in 1..Len(op) : /\ op2[k].base = op[k].base /\ op2[k].after = op[k].after
                               /\ op2[k].kind = IF k = Len(op) THEN "result" ELSE op[k].kind
  BY ReachAgrees
<1>3. \A k \in 1..Len(op) : (op2[k].kind = "test" <=> op[k].kind = "test")
  BY <1>1, <1>2
<1>4. \A k \in 0..Len(op) : Base(op2, k) = Base(op, k)
  BY <1>1, <1>2 DEF Base
<1>5. \A k \in 0..Len(op) : \A d : (InLevel(op2, d, k) <=> InLevel(op, d, k)) /\ (NotBeyond(op2, d, k) <=> NotBeyond(op, d, k))
  <2> TAKE k \in 0..Len(op)
  <2>1. k < Len(op) => k + 1 \in 0..Len(op)
    BY <1>1
  <2> QED
    BY <1>2, <1>4, <2>1 DEF InLevel, NotBeyond
<1>6. \A d : Past(op2, d) <=> Past(op, d)
  <2>1. \A k \in 1..Len(op) : k \in 0..Len(op)
    BY <1>1
  <2> QED
    BY <1>2, <1>3, <1>5, <2>1 DEF Past
<1>7. \A d, n : Pending(op2, d, n) <=> Pending(op, d, n)
  BY <1>2 DEF Pending
<1>8. EnvKept(op2, ds, s)
  <2>1. PICK lev \in [1..Len(s) -> 0..Len(op)] :
          /\ Levels(op, lev, Len(s))
          /\ EntriesKept(op, ds, s, lev, "comptime")
          /\ EntriesKept(op, ds, s, lev, "comptime function")
          /\ RuntimeKept(op, ds, s, lev)
    BY DEF Expander, EnvKept
  <2>2. Levels(op2, lev, Len(s))
    <3>1. PICK count : count = Len(s)
      OBVIOUS
    <3>2. Levels(op, lev, count)
      BY <2>1, <3>1
    <3>3. Levels(op2, lev, count)
      BY <1>1, <1>2, <1>3, <3>2, LevelsSame
    <3> QED
      BY <3>1, <3>3
  <2>3. \A j \in 1..Len(s) : lev[j] \in 0..Len(op)
    OBVIOUS
  <2>4. EntriesKept(op2, ds, s, lev, "comptime") /\ EntriesKept(op2, ds, s, lev, "comptime function")
    BY <1>5, <1>6, <2>1, <2>3 DEF EntriesKept
  <2>5. RuntimeKept(op2, ds, s, lev)
    BY <1>5, <1>6, <1>7, <2>1, <2>3 DEF RuntimeKept
  <2> QED
    BY <1>2, <2>2, <2>4, <2>5 DEF EnvKept
<1>9. Afters(op2, ds)
  <2> SUFFICES ASSUME NEW i \in 1..Len(op2), NEW n \in op2[i].after
               PROVE  /\ Base(op2, i - 1) < op2[i].base /\ op2[i].base <= Len(ds)
                      /\ ds[op2[i].base] = [name |-> n, kind |-> "local"]
                      /\ i > 1 => op2[i - 1].kind \notin {"comprehension", "test", "result"}
    BY DEF Afters
  <2>1. i \in 1..Len(op) /\ op2[i].base = op[i].base /\ op2[i].after = op[i].after
    BY <1>2
  <2>2. /\ Base(op, i - 1) < op[i].base /\ op[i].base <= Len(ds)
        /\ ds[op[i].base] = [name |-> n, kind |-> "local"]
        /\ i > 1 => op[i - 1].kind \notin {"comprehension", "test", "result"}
    BY <2>1 DEF Expander, Afters
  <2>3. /\ i - 1 \in 0..Len(op)
        /\ i > 1 => i - 1 \in 1..Len(op) /\ i - 1 # Len(op)
    BY <1>1, <2>1
  <2> QED
    BY <1>2, <1>4, <2>1, <2>2, <2>3
<1>10. HandlesKept(op2, ds, hs)
  BY <1>6 DEF HandlesKept, Newest, Expander
<1> QED
  BY <1>8, <1>9, <1>10 DEF Expander

\* A construct is left, with its scope if it still has one; the scope around
\* it learns of its name.
LeaveStep(op, op2, ds, ds2, s, s2, hs, hs2) ==
  /\ op \in Seq(Construct) /\ ds \in Seq(Decl) /\ Bases(op, Len(ds)) /\ Len(s) \in Nat
  /\ ConstructLeft(op, op2, ds, ds2)
  /\ Len(s2) = IF op[Len(op)].kind = "test" THEN Len(s) ELSE Len(s) - 1
  /\ \A j \in 1..Len(s2) : /\ s2[j].values = s[j].values /\ s2[j].functions = s[j].functions
                           /\ s2[j].runtime_names = IF j = Len(s2) THEN s[j].runtime_names \cup op[Len(op)].after
                                                    ELSE s[j].runtime_names
  /\ HandlesStay(ds, ds2, hs, hs2)

\* The levels of the scopes that stay.
LeaveLevels(op, op2, s, s2, lev, lev2) ==
  /\ lev2 \in [1..Len(s2) -> 0..Len(op2)] /\ Levels(op2, lev2, Len(s2))
  /\ Len(s2) \in Nat /\ Len(s2) >= 1 /\ Len(s2) <= Len(s)
  /\ \A j \in 1..Len(s2) : lev2[j] = lev[j] /\ lev[j] \in 0..Len(op2)
  /\ \A j \in 1..Len(s) : j \notin 1..Len(s2) => lev[j] = Len(op)

\* Leaving a construct leaves such levels.
LEMMA LeaveLevelsAre ==
  ASSUME NEW op, NEW op2, NEW ds, NEW ds2, NEW s, NEW s2, NEW hs, NEW hs2,
         LeaveStep(op, op2, ds, ds2, s, s2, hs, hs2), NEW lev, Levels(op, lev, Len(s))
  PROVE  \E lev2 : LeaveLevels(op, op2, s, s2, lev, lev2)
<1>1. PICK count : count = Len(s)
  OBVIOUS
<1>2. Levels(op, lev, count)
  BY <1>1
<1>3. /\ Len(op) \in Nat \ {0} /\ Len(op2) = Len(op) - 1 /\ \A k \in 1..Len(op2) : op2[k] = op[k]
  BY LeaveAgrees DEF LeaveStep
<1>4. count \in Nat \ {0}
  BY <1>2 DEF Levels
<1>5. CASE op[Len(op)].kind = "test"
  <2>1. Levels(op2, lev, count) /\ lev \in [1..count -> 0..Len(op2)]
    BY <1>2, <1>3, <1>5, LevelsStay
  <2>2. Len(s2) = count
    BY <1>1, <1>5 DEF LeaveStep
  <2> QED
    BY <1>1, <1>4, <2>1, <2>2 DEF LeaveLevels
<1>6. CASE op[Len(op)].kind # "test"
  <2>1. ScopeLeft(op, op2)
    BY <1>3, <1>6 DEF ScopeLeft
  <2>2. count - 1 \in Nat /\ count - 1 >= 1 /\ lev[count] = Len(op)
    BY <1>2, <1>3, <2>1, LevelsShrink
  <2>3. PICK lev2 \in [1..(count - 1) -> 0..Len(op2)] :
          /\ Levels(op2, lev2, count - 1)
          /\ \A j \in 1..(count - 1) : lev2[j] = lev[j] /\ lev[j] <= Len(op) - 1
    BY <1>2, <1>3, <2>1, LevelsShrink
  <2>4. Len(s2) = count - 1
    BY <1>1, <1>6 DEF LeaveStep
  <2>5. PICK less : less = count - 1
    OBVIOUS
  <2>6. less \in Nat /\ less >= 1 /\ less <= count /\ \A j \in 1..count : j \notin 1..less => j = count
    BY <1>4, <2>2, <2>5
  <2>7. lev2 \in [1..less -> 0..Len(op2)] /\ Levels(op2, lev2, less) /\ \A j \in 1..less : lev2[j] = lev[j]
    BY <2>3, <2>5
  <2>8. \A j \in 1..less : lev2[j] = lev[j] /\ lev[j] \in 0..Len(op2)
    BY <2>7
  <2>9. \A j \in 1..count : j \notin 1..less => lev[j] = Len(op)
    BY <2>2, <2>6
  <2>10. Len(s2) = less /\ Len(s) = count
    BY <1>1, <2>4, <2>5
  <2>11. LeaveLevels(op, op2, s, s2, lev, lev2)
    BY <2>6, <2>7, <2>8, <2>9, <2>10 DEF LeaveLevels
  <2> QED
    BY <2>11
<1> QED
  BY <1>5, <1>6

\* Leaving a construct keeps the books.
LEMMA LeaveKeeps ==
  ASSUME NEW op, NEW op2, NEW ds, NEW ds2, NEW s, NEW s2, NEW hs, NEW hs2,
         LeaveStep(op, op2, ds, ds2, s, s2, hs, hs2), Expander(op, ds, s, hs)
  PROVE  Expander(op2, ds2, s2, hs2)
<1>1. /\ Len(op) \in Nat \ {0} /\ op2 \in Seq(Construct) /\ Len(op2) = Len(op) - 1
      /\ \A k \in 1..Len(op2) : op2[k] = op[k]
      /\ ds2 \in Seq(Decl) /\ Len(ds2) = op[Len(op)].base /\ Len(ds2) <= Len(ds)
      /\ \A d \in 1..Len(ds2) : ds2[d] = ds[d] /\ d \in 1..Len(ds)
      /\ LevelsAgree(op, op2, Len(ds2)) /\ KindsAgree(op, op2)
      /\ \A d \in 1..Len(ds) : \A k \in 0..Len(op2) :
           NotBeyond(op, d, k) => d \in 1..Len(ds2) /\ NotBeyond(op2, d, k)
  BY LeaveAgrees DEF LeaveStep
<1>2. op \in Seq(Construct) /\ ds \in Seq(Decl) /\ Bases(op, Len(ds)) /\ HandlesStay(ds, ds2, hs, hs2)
  BY DEF LeaveStep
<1>3. Len(ds) \in Nat /\ Len(ds2) \in Nat
  BY <1>1, <1>2
<1>4. \A d \in 1..Len(ds2) : Past(op, d) <=> Past(op2, d)
  <2>1. PICK count : count = Len(ds2)
    OBVIOUS
  <2>2. LevelsAgree(op, op2, count)
    BY <1>1, <2>1
  <2>3. \A d \in 1..count : Past(op, d) <=> Past(op2, d)
    BY <1>1, <1>2, <2>2, PastAgrees
  <2> QED
    BY <2>1, <2>3
<1>5. PICK lev \in [1..Len(s) -> 0..Len(op)] :
        /\ Levels(op, lev, Len(s))
        /\ EntriesKept(op, ds, s, lev, "comptime")
        /\ EntriesKept(op, ds, s, lev, "comptime function")
        /\ RuntimeKept(op, ds, s, lev)
  BY DEF Expander, EnvKept
<1>6. PICK lev2 : LeaveLevels(op, op2, s, s2, lev, lev2)
  BY <1>5, LeaveLevelsAre
<1>7. /\ lev2 \in [1..Len(s2) -> 0..Len(op2)] /\ Levels(op2, lev2, Len(s2))
      /\ \A j \in 1..Len(s2) : lev2[j] = lev[j] /\ lev[j] \in 0..Len(op2) /\ j \in 1..Len(s)
      /\ \A j \in 1..Len(s) : j \notin 1..Len(s2) => lev[j] = Len(op)
      /\ Len(s2) \in 1..Len(s2)
  <2>1. /\ lev2 \in [1..Len(s2) -> 0..Len(op2)] /\ Levels(op2, lev2, Len(s2))
        /\ \A j \in 1..Len(s2) : lev2[j] = lev[j] /\ lev[j] \in 0..Len(op2)
        /\ \A j \in 1..Len(s) : j \notin 1..Len(s2) => lev[j] = Len(op)
        /\ Len(s2) \in Nat /\ Len(s2) >= 1 /\ Len(s2) <= Len(s)
    BY <1>6 DEF LeaveLevels
  <2>2. Len(s) \in Nat
    BY DEF LeaveStep
  <2>3. Len(s2) \in 1..Len(s2) /\ \A j \in 1..Len(s2) : j \in 1..Len(s)
    BY <2>1, <2>2
  <2> QED
    BY <2>1, <2>3
<1>8. \A d \in 1..Len(ds2) : ~InLevel(op, d, Len(op))
  <2>1. Base(op, Len(op)) = Len(ds2)
    BY <1>1 DEF Base
  <2> QED
    BY <1>3, <2>1 DEF InLevel
<1>9. Kept(op, op2, ds, ds2, s, s2, lev, lev2, Len(ds2))
  BY <1>1, <1>4, <1>7, <1>8 DEF Kept
<1>10. /\ NoneAdded(ds, ds2, "comptime") /\ NoneAdded(ds, ds2, "comptime function")
  BY <1>1 DEF NoneAdded
<1>11. \A j \in 1..Len(s2) : /\ s2[j].values = s[j].values /\ s2[j].functions = s[j].functions
                             /\ s2[j].runtime_names = IF j = Len(s2) THEN s[j].runtime_names \cup op[Len(op)].after
                                                      ELSE s[j].runtime_names
  BY DEF LeaveStep
<1>12. TablesKept(s, s2, "comptime") /\ TablesKept(s, s2, "comptime function") /\ NamesKept(s, s2)
  BY <1>7, <1>11 DEF TablesKept, NamesKept, Table
<1>13. ASSUME NEW n \in op[Len(op)].after
       PROVE  /\ Len(ds2) \in 1..Len(ds2) /\ ds2[Len(ds2)] = [name |-> n, kind |-> "local"]
              /\ Base(op, Len(op) - 1) < Len(ds2)
              /\ Len(op2) = 0 \/ op2[Len(op2)].kind # "test"
  <2>1. Len(op) \in 1..Len(op) /\ Len(op) - 1 \in 0..Len(op) /\ (Len(op) > 1 => Len(op2) \in 1..Len(op2))
    BY <1>1
  <2>2. /\ Base(op, Len(op) - 1) < op[Len(op)].base /\ op[Len(op)].base <= Len(ds)
        /\ ds[op[Len(op)].base] = [name |-> n, kind |-> "local"]
        /\ Len(op) > 1 => op[Len(op) - 1].kind \notin {"comprehension", "test", "result"}
    BY <2>1 DEF Expander, Afters
  <2>3. Base(op, Len(op) - 1) \in Nat
    BY <1>2, <2>1, BasesAreNat
  <2>4. Len(ds2) \in 1..Len(ds2)
    BY <1>1, <1>3, <2>2, <2>3
  <2>5. CASE Len(op) > 1
    <3>1. Len(op) - 1 = Len(op2) /\ op2[Len(op2)] = op[Len(op2)]
      BY <1>1, <2>1, <2>5
    <3> QED
      BY <1>1, <2>2, <2>4, <2>5, <3>1
  <2>6. CASE ~(Len(op) > 1)
    <3>1. Len(op2) = 0
      BY <1>1, <2>6
    <3> QED
      BY <1>1, <2>2, <2>4, <3>1
  <2> QED
    BY <2>5, <2>6
<1>14. ASSUME NEW n \in op[Len(op)].after PROVE lev2[Len(s2)] = Len(op2)
  <2>1. PICK count : count = Len(s2)
    OBVIOUS
  <2>2. Levels(op2, lev2, count)
    BY <1>7, <2>1
  <2>3. Len(op2) = 0 \/ op2[Len(op2)].kind # "test"
    BY <1>13
  <2>4. Len(op2) \in Nat
    BY <1>1
  <2>5. lev2[count] = Len(op2)
    BY <2>2, <2>3, <2>4, LastLevel
  <2> QED
    BY <2>1, <2>5
<1>15. NamesJustified(op2, ds2, s, s2, lev2)
  <2> SUFFICES ASSUME NEW j \in 1..Len(s2), NEW n \in s2[j].runtime_names, ~(j \in 1..Len(s) /\ n \in s[j].runtime_names)
               PROVE  \E d \in 1..Len(ds2) : Runtime(ds2[d], n) /\ NotBeyond(op2, d, lev2[j])
    BY DEF NamesJustified
  <2>1. j = Len(s2) /\ n \in op[Len(op)].after
    BY <1>7, <1>11
  <2>2. lev2[j] = Len(op2)
    BY <1>14, <2>1
  <2>3. \A d : NotBeyond(op2, d, lev2[j])
    BY <1>1, <2>2 DEF NotBeyond
  <2>4. Len(ds2) \in 1..Len(ds2) /\ Runtime(ds2[Len(ds2)], n)
    <3>1. PICK x : x = ds2[Len(ds2)]
      OBVIOUS
    <3>2. Len(ds2) \in 1..Len(ds2) /\ x = [name |-> n, kind |-> "local"]
      BY <1>13, <2>1, <3>1
    <3>3. Runtime(x, n)
      BY <3>2 DEF Runtime
    <3> QED
      BY <3>1, <3>2, <3>3
  <2> QED
    BY <2>3, <2>4
<1>16. NewKnown(op, op2, ds, ds2, s2, lev2)
  <2> SUFFICES ASSUME NEW d \in 1..Len(ds2), NEW n \in Names, Pending(op, d, n)
               PROVE  Known(op2, s2, lev2, d, n)
    BY <1>1 DEF NewKnown
  <2>1. PICK i \in 1..Len(op) : op[i].base = d /\ n \in op[i].after
    BY DEF Pending
  <2>2. CASE i # Len(op)
    <3>1. i \in 1..Len(op2)
      BY <1>1, <2>2
    <3> QED
      BY <1>1, <2>1, <3>1 DEF Known, Pending
  <2>3. CASE i = Len(op)
    <3>1. n \in op[Len(op)].after /\ d = Len(ds2)
      BY <1>1, <2>1, <2>3
    <3>2. lev2[Len(s2)] = Len(op2) /\ n \in s2[Len(s2)].runtime_names
      BY <1>7, <1>11, <1>14, <3>1
    <3>3. Base(op2, Len(op2)) = Base(op, Len(op) - 1)
      <4>1. Len(op2) = 0 \/ Len(op2) \in 1..Len(op2)
        BY <1>1
      <4> QED
        BY <1>1, <4>1 DEF Base
    <3>4. InLevel(op2, d, Len(op2))
      <4>1. Base(op2, Len(op2)) < d
        BY <1>13, <3>1, <3>3
      <4> QED
        BY <1>1, <4>1 DEF InLevel
    <3> QED
      BY <1>7, <3>2, <3>4 DEF Known
  <2> QED
    BY <2>2, <2>3
<1>17. EnvKept(op2, ds2, s2)
  <2>1. PICK count : count = Len(ds2)
    OBVIOUS
  <2>2. Kept(op, op2, ds, ds2, s, s2, lev, lev2, count)
    BY <1>9, <2>1
  <2> QED
    BY <1>1, <1>5, <1>7, <1>10, <1>12, <1>15, <1>16, <2>2, EnvCarried
<1>18. Afters(op2, ds2)
  <2> SUFFICES ASSUME NEW i \in 1..Len(op2), NEW n \in op2[i].after
               PROVE  /\ Base(op2, i - 1) < op2[i].base /\ op2[i].base <= Len(ds2)
                      /\ ds2[op2[i].base] = [name |-> n, kind |-> "local"]
                      /\ i > 1 => op2[i - 1].kind \notin {"comprehension", "test", "result"}
    BY DEF Afters
  <2>1. i \in 1..Len(op) /\ i \in 0..Len(op) /\ op2[i] = op[i] /\ i <= Len(op) /\ Len(op) \in 0..Len(op) /\ Len(op) \in 1..Len(op)
    BY <1>1
  <2>2. /\ Base(op, i - 1) < op[i].base /\ op[i].base <= Len(ds)
        /\ ds[op[i].base] = [name |-> n, kind |-> "local"]
        /\ i > 1 => op[i - 1].kind \notin {"comprehension", "test", "result"}
    BY <2>1 DEF Expander, Afters
  <2>3. i - 1 \in 0..Len(op) /\ (i - 1 # 0 => i - 1 \in 1..Len(op2))
    BY <1>1, <2>1
  <2>4. Base(op2, i - 1) = Base(op, i - 1) /\ (i > 1 => op2[i - 1] = op[i - 1])
    BY <1>1, <2>3 DEF Base
  <2>5. op[i].base <= Len(ds2)
    <3>1. Base(op, i) <= Base(op, Len(op))
      BY <1>2, <2>1 DEF Bases
    <3>2. Base(op, i) = op[i].base /\ Base(op, Len(op)) = op[Len(op)].base
      BY <1>1, <2>1 DEF Base
    <3> QED
      BY <1>1, <3>1, <3>2
  <2>6. op[i].base \in 1..Len(ds2)
    <3>1. PICK b \in Nat, c \in Nat : b = Base(op, i) /\ c = Base(op, i - 1)
      BY <1>2, <2>1, <2>3, BasesAreNat
    <3>2. Base(op, i) = op[i].base
      BY <2>1 DEF Base
    <3>3. c < b /\ b <= Len(ds2)
      BY <2>2, <2>5, <3>1, <3>2
    <3>4. b \in 1..Len(ds2)
      BY <1>3, <3>3
    <3> QED
      BY <3>1, <3>2, <3>4
  <2> QED
    BY <1>1, <2>1, <2>2, <2>4, <2>5, <2>6
<1>19. HandlesKept(op2, ds2, hs2)
  <2>1. Steady(op, op2, ds, ds2)
    <3>1. \A d \in 1..Len(ds2) : \A e \in 1..d : e \in 1..Len(ds2)
      BY <1>3
    <3> QED
      BY <1>1, <1>4, <3>1 DEF Steady
  <2> QED
    BY <1>2, <1>3, <1>10, <2>1, CarryHandles DEF Expander
<1> QED
  BY <1>17, <1>18, <1>19 DEF Expander

\* Tables of a stack of scopes.
LEMMA TablesAre ==
  ASSUME NEW s \in Seq(CtScope), NEW kind
  PROVE  /\ Tables(s, kind) \in Seq(StateScope) /\ Len(Tables(s, kind)) = Len(s)
         /\ \A j \in 1..Len(s) : Tables(s, kind)[j] = Table(s[j], kind) /\ Table(s[j], kind) \in StateScope
<1>1. \A j \in 1..Len(s) : s[j] \in CtScope
  OBVIOUS
<1>2. \A c \in CtScope : Table(c, kind) \in StateScope
  BY DEF Table, CtScope, StateScope
<1>3. \A j \in 1..Len(s) : Table(s[j], kind) \in StateScope
  BY <1>1, <1>2
<1>4. Len(s) \in Nat
  OBVIOUS
<1>5. PICK q : q = Tables(s, kind)
  OBVIOUS
<1>6. q \in [1..Len(s) -> StateScope] /\ \A j \in 1..Len(s) : q[j] = Table(s[j], kind)
  BY <1>3, <1>5 DEF Tables
<1>7. q \in Seq(StateScope) /\ Len(q) = Len(s)
  BY <1>4, <1>6, FunctionIsSeq
<1> QED
  BY <1>3, <1>5, <1>6, <1>7

\* An entry of an inner level is declared after those of the levels around it.
LEMMA LaterLevel ==
  ASSUME NEW op \in Seq(Construct), NEW count \in Nat, Bases(op, count),
         NEW k \in 0..Len(op), NEW l \in 0..Len(op), k < l,
         NEW d \in Nat, NEW e \in Nat, InLevel(op, d, k), InLevel(op, e, l)
  PROVE  d <= e
<1>1. k + 1 \in 0..Len(op) /\ k + 1 <= l /\ k < Len(op)
  BY BasesAreNat
<1>2. d <= Base(op, k + 1) /\ Base(op, k + 1) <= Base(op, l) /\ Base(op, l) < e
  BY <1>1 DEF InLevel, Bases
<1>3. PICK b \in Nat, c \in Nat : b = Base(op, k + 1) /\ c = Base(op, l)
  BY <1>1, BasesAreNat
<1> QED
  BY <1>2, <1>3

\* A scope is that of no level that is past.
LEMMA NotPast ==
  ASSUME NEW op \in Seq(Construct), NEW count \in Nat, Bases(op, count), NEW lev, NEW scopes,
         Levels(op, lev, scopes), NEW j \in 1..scopes, NEW d \in Nat, InLevel(op, d, lev[j])
  PROVE  ~Past(op, d)
<1> SUFFICES ASSUME Past(op, d) PROVE FALSE
  OBVIOUS
<1>1. PICK k \in 1..Len(op) : op[k].kind = "test" /\ InLevel(op, d, k)
  BY DEF Past
<1>2. scopes \in Nat \ {0} /\ lev[j] \in 0..Len(op) /\ lev[1] = 0
  BY DEF Levels
<1>3. k \in 0..Len(op) /\ k # 0
  BY BasesAreNat
<1>4. PICK l \in 0..Len(op) : l = lev[j]
  BY <1>2
<1>5. k = l
  BY <1>1, <1>3, <1>4, OneLevel
<1>6. j # 1
  BY <1>2, <1>3, <1>4, <1>5
<1>7. j \in 2..scopes
  BY <1>2, <1>6
<1>8. op[lev[j]].kind # "test"
  BY <1>7 DEF Levels
<1> QED
  BY <1>1, <1>4, <1>5, <1>8

\* What a look-up gives is the newest declaration of the name that is not past.
LEMMA LookUpIsNewest ==
  ASSUME NEW op \in Seq(Construct), NEW ds, NEW count \in Nat, count = Len(ds), Bases(op, count),
         NEW s \in Seq(CtScope), NEW lev, Levels(op, lev, Len(s)),
         NEW kind, EntriesKept(op, ds, s, lev, kind), NEW n \in Names
  PROVE  Newest(LookUp(Tables(s, kind), n), op, ds, count, n, kind)
<1>1. PICK t : t = Tables(s, kind)
  OBVIOUS
<1>2. /\ t \in Seq(StateScope) /\ Len(t) = Len(s)
      /\ \A j \in 1..Len(s) : t[j] = Table(s[j], kind) /\ t[j] \in StateScope
  BY <1>1, TablesAre
<1>3. \A j \in 1..Len(s) : lev[j] \in 0..Len(op)
  BY DEF Levels
<1>4. ASSUME NEW j \in 1..Len(s), t[j][n] # Nothing
      PROVE  /\ t[j][n] \in 1..count /\ ds[t[j][n]] = [name |-> n, kind |-> kind]
             /\ InLevel(op, t[j][n], lev[j])
  BY <1>2, <1>4 DEF EntriesKept
<1>5. ASSUME LookUp(t, n) # Nothing
      PROVE  /\ LookUp(t, n) \in 1..count /\ ds[LookUp(t, n)] = [name |-> n, kind |-> kind]
             /\ ~Past(op, LookUp(t, n))
  <2>1. PICK i \in 1..Len(s) : LookUp(t, n) = t[i][n] /\ t[i][n] # Nothing
    BY <1>2, <1>5, LookUpIs
  <2>2. PICK x : x = t[i][n]
    OBVIOUS
  <2>3. x \in 1..count /\ ds[x] = [name |-> n, kind |-> kind] /\ InLevel(op, x, lev[i])
    BY <1>4, <2>1, <2>2
  <2>4. PICK scopes : scopes = Len(s)
    OBVIOUS
  <2>5. x \in Nat /\ i \in 1..scopes /\ Levels(op, lev, scopes)
    BY <2>3, <2>4
  <2>6. ~Past(op, x)
    BY <2>3, <2>5, NotPast
  <2> QED
    BY <2>1, <2>2, <2>3, <2>6
<1>6. ASSUME NEW d \in 1..count, ds[d] = [name |-> n, kind |-> kind], ~Past(op, d)
      PROVE  d <= LookUp(t, n)
  <2>1. PICK j \in 1..Len(s) : InLevel(op, d, lev[j]) /\ Table(s[j], kind)[ds[d].name] >= d
    <3>1. ds[d].kind = kind
      BY <1>6
    <3> QED
      BY <1>6, <3>1 DEF EntriesKept
  <2>2. PICK y \in Nat : y = t[j][n]
    <3>1. t[j] \in StateScope
      BY <1>2
    <3> QED
      BY <3>1, BoundsAssumption DEF StateScope
  <2>3. d <= y /\ y # Nothing
    <3>1. t[j][n] >= d
      BY <1>2, <1>6, <2>1
    <3> QED
      BY <2>2, <3>1 DEF Nothing
  <2>4. PICK i \in 1..Len(s) :
          /\ LookUp(t, n) = t[i][n] /\ t[i][n] # Nothing
          /\ \A k \in 1..Len(s) : t[k][n] # Nothing => k <= i
    BY <1>2, <2>2, <2>3, LookUpIs
  <2>5. CASE i = j
    BY <2>2, <2>3, <2>4, <2>5
  <2>6. CASE i # j
    <3>1. j <= i
      BY <2>2, <2>3, <2>4
    <3>2. j < i
      BY <2>6, <3>1
    <3>3. lev[j] < lev[i]
      BY <3>2 DEF Levels
    <3>4. PICK x \in Nat : x = t[i][n] /\ InLevel(op, x, lev[i])
      <4>1. t[i][n] \in 1..count /\ InLevel(op, t[i][n], lev[i])
        BY <1>4, <2>4
      <4> QED
        BY <4>1
    <3>5. PICK k \in 0..Len(op), l \in 0..Len(op) : k = lev[j] /\ l = lev[i]
      BY <1>3
    <3>6. d <= x
      <4>1. d \in Nat /\ k < l /\ InLevel(op, d, k) /\ InLevel(op, x, l)
        BY <2>1, <3>3, <3>4, <3>5
      <4> QED
        BY <4>1, LaterLevel
    <3> QED
      BY <2>4, <3>4, <3>6
  <2> QED
    BY <2>5, <2>6
<1> QED
  BY <1>1, <1>5, <1>6 DEF Newest

\* The tables after n is declared as the d-th declaration.
TableAdds(s, s2, n, d, kind, which) ==
  \A j \in 1..Len(s) : Table(s2[j], which) =
    IF j = Len(s) /\ kind = which THEN [Table(s[j], which) EXCEPT ![n] = d] ELSE Table(s[j], which)

\* The names of the last scope grow by a runtime name.
NameAdds(s, s2, n, kind) ==
  \A j \in 1..Len(s) : s2[j].runtime_names =
    IF j = Len(s) /\ kind \in {"local", "const", "state"} THEN s[j].runtime_names \cup {n} ELSE s[j].runtime_names

\* One declaration more.
DeclAdded(ds, ds2, n, kind) ==
  /\ Len(ds2) = Len(ds) + 1
  /\ \A d \in 1..Len(ds) : ds2[d] = ds[d]
  /\ ds2[Len(ds) + 1] = [name |-> n, kind |-> kind]

\* A comptime function keeps the scopes it is declared in.
Captures(ds, hs2, s, kind) == kind = "comptime function" => hs2[Len(ds) + 1] = s

\* A declaration comes into scope, in the last scope.
AddStep(op, ds, ds2, s, s2, hs, hs2, n, kind) ==
  /\ op \in Seq(Construct) /\ ds \in Seq(Decl) /\ Bases(op, Len(ds)) /\ s \in Seq(CtScope)
  /\ n \in Names /\ kind \in Kinds
  /\ Len(op) = 0 \/ op[Len(op)].kind # "test"
  /\ DeclAdded(ds, ds2, n, kind)
  /\ Len(s2) = Len(s)
  /\ TableAdds(s, s2, n, Len(ds) + 1, kind, "comptime")
  /\ TableAdds(s, s2, n, Len(ds) + 1, kind, "comptime function")
  /\ NameAdds(s, s2, n, kind)
  /\ HandlesStay(ds, ds2, hs, hs2)
  /\ Captures(ds, hs2, s, kind)

\* The last scope is that of the level the declaration belongs to.
InLast(op, s, lev, d) ==
  /\ Len(s) \in 1..Len(s) /\ lev[Len(s)] = Len(op) /\ InLevel(op, d, Len(op))
  /\ NotBeyond(op, d, Len(op))

\* The place of the new declaration.
LEMMA NewPlace ==
  ASSUME NEW ds, NEW ds2, Len(ds) \in Nat, NEW n, NEW kind, DeclAdded(ds, ds2, n, kind),
         NEW x, x = Len(ds) + 1
  PROVE  /\ x \in Nat /\ x \in 1..Len(ds2) /\ Len(ds2) = x /\ x # 0 /\ x - 1 = Len(ds)
         /\ \A d \in 1..Len(ds) : d \in 1..Len(ds2) /\ ds2[d] = ds[d] /\ x >= d
         /\ \A d \in 1..Len(ds2) : d \in 1..Len(ds) \/ d = x
         /\ ds2[x] = [name |-> n, kind |-> kind]
BY DEF DeclAdded

\* The table of its kind gets the new declaration.
LEMMA AddEntry ==
  ASSUME NEW op, NEW ds \in Seq(Decl), NEW ds2, NEW s \in Seq(CtScope), NEW s2, NEW lev, NEW n \in Names, NEW kind,
         InLast(op, s, lev, Len(ds) + 1), DeclAdded(ds, ds2, n, kind), Len(s2) = Len(s),
         TableAdds(s, s2, n, Len(ds) + 1, kind, kind), EntriesKept(op, ds, s, lev, kind)
  PROVE  EntriesKept(op, ds2, s2, lev, kind)
<1>1. PICK x : x = Len(ds) + 1
  OBVIOUS
<1>2. /\ x \in Nat /\ x \in 1..Len(ds2) /\ Len(ds2) = x /\ x # Nothing
      /\ \A d \in 1..Len(ds) : d \in 1..Len(ds2) /\ ds2[d] = ds[d] /\ x >= d
      /\ \A d \in 1..Len(ds2) : d \in 1..Len(ds) \/ d = x
      /\ ds2[x] = [name |-> n, kind |-> kind]
  <2>1. Len(ds) \in Nat
    OBVIOUS
  <2> QED
    BY <1>1, <2>1, NewPlace DEF Nothing
<1>3. PICK t : t = Tables(s, kind)
  OBVIOUS
<1>4. \A j \in 1..Len(s) : t[j] = Table(s[j], kind) /\ t[j] \in [Names -> 0..MaxDecls]
  BY <1>3, TablesAre DEF StateScope
<1>5. \A j \in 1..Len(s) : Table(s2[j], kind) = IF j = Len(s) THEN [t[j] EXCEPT ![n] = x] ELSE t[j]
  BY <1>1, <1>4 DEF TableAdds
<1>6. \A j \in 1..Len(s) : \A m \in Names :
        Table(s2[j], kind)[m] = IF j = Len(s) /\ m = n THEN x ELSE t[j][m]
  BY <1>4, <1>5
<1>7. ASSUME NEW j \in 1..Len(s2), NEW m \in Names, Table(s2[j], kind)[m] # Nothing
      PROVE  /\ Table(s2[j], kind)[m] \in 1..Len(ds2)
             /\ ds2[Table(s2[j], kind)[m]] = [name |-> m, kind |-> kind]
             /\ InLevel(op, Table(s2[j], kind)[m], lev[j])
  <2>1. CASE j = Len(s) /\ m = n
    <3>1. Table(s2[j], kind)[m] = x
      BY <1>6, <2>1
    <3> QED
      BY <1>1, <1>2, <2>1, <3>1 DEF InLast
  <2>2. CASE ~(j = Len(s) /\ m = n)
    <3>1. PICK y : y = t[j][m]
      OBVIOUS
    <3>2. Table(s2[j], kind)[m] = y /\ Table(s[j], kind)[m] = y /\ y # Nothing
      BY <1>4, <1>6, <1>7, <2>2, <3>1
    <3>3. y \in 1..Len(ds) /\ ds[y] = [name |-> m, kind |-> kind] /\ InLevel(op, y, lev[j])
      BY <3>2 DEF EntriesKept
    <3> QED
      BY <1>2, <3>2, <3>3
  <2> QED
    BY <2>1, <2>2
<1>8. ASSUME NEW d \in 1..Len(ds2), ds2[d].kind = kind
      PROVE  \/ Past(op, d)
             \/ \E j \in 1..Len(s2) : InLevel(op, d, lev[j]) /\ Table(s2[j], kind)[ds2[d].name] >= d
  <2>1. CASE d = x
    <3>1. PICK j \in 1..Len(s2) : j = Len(s)
      BY DEF InLast
    <3>2. ds2[d].name = n /\ InLevel(op, d, lev[j])
      BY <1>1, <1>2, <2>1, <3>1 DEF InLast
    <3>3. Table(s2[j], kind)[n] = x
      BY <1>6, <3>1
    <3> QED
      BY <1>2, <2>1, <3>2, <3>3
  <2>2. CASE d \in 1..Len(ds)
    <3>1. ds2[d] = ds[d] /\ x >= d
      BY <1>2, <2>2
    <3>2. CASE Past(op, d)
      BY <3>2
    <3>3. CASE ~Past(op, d)
      <4>1. PICK j \in 1..Len(s) : InLevel(op, d, lev[j]) /\ Table(s[j], kind)[ds[d].name] >= d
        BY <1>8, <2>2, <3>1, <3>3 DEF EntriesKept
      <4>2. PICK m \in Names : m = ds[d].name
        <5>1. ds[d] \in Decl
          BY <2>2
        <5> QED
          BY <5>1 DEF Decl
      <4>3. CASE j = Len(s) /\ m = n
        <5>1. Table(s2[j], kind)[m] = x
          BY <1>6, <4>3
        <5> QED
          BY <3>1, <4>1, <4>2, <5>1
      <4>4. CASE ~(j = Len(s) /\ m = n)
        <5>1. Table(s2[j], kind)[m] = t[j][m]
          BY <1>6, <4>4
        <5> QED
          BY <1>4, <3>1, <4>1, <4>2, <5>1
      <4> QED
        BY <4>3, <4>4
    <3> QED
      BY <3>2, <3>3
  <2> QED
    BY <1>2, <2>1, <2>2
<1> QED
  BY <1>7, <1>8 DEF EntriesKept

\* The constructs are the same, and one declaration is new.
LEMMA AddKept ==
  ASSUME NEW op \in Seq(Construct), NEW ds, NEW ds2, Len(ds) \in Nat, NEW n, NEW kind, DeclAdded(ds, ds2, n, kind),
         NEW s, NEW s2, Len(s2) = Len(s), NEW lev
  PROVE  Kept(op, op, ds, ds2, s, s2, lev, lev, Len(ds))
<1>1. \A d \in 1..Len(ds) : d \in 1..Len(ds2) /\ ds2[d] = ds[d]
  BY DEF DeclAdded
<1>2. LevelsAgree(op, op, Len(ds))
  BY DEF LevelsAgree
<1> QED
  BY <1>1, <1>2 DEF Kept

\* The newest depends on the declarations counted only.
LEMMA NewestSame ==
  ASSUME NEW x, NEW op, NEW ds, NEW ds2, NEW count, \A d \in 1..count : ds2[d] = ds[d],
         NEW n, NEW kind, Newest(x, op, ds, count, n, kind)
  PROVE  Newest(x, op, ds2, count, n, kind)
BY DEF Newest

\* What a look-up in the scopes s gives is the newest.
Finds(op, ds, s) ==
  \A m \in Names, which \in CtKinds :
    Newest(LookUp(Tables(s, which), m), op, ds, Len(ds), m, which)

\* A comptime function that is declared has seen what a look-up gives.
LEMMA AddHandles ==
  ASSUME NEW op, NEW ds, NEW ds2, Len(ds) \in Nat, NEW n, NEW kind, DeclAdded(ds, ds2, n, kind),
         NEW hs, NEW hs2, HandlesStay(ds, ds2, hs, hs2), HandlesKept(op, ds, hs),
         NEW s, Captures(ds, hs2, s, kind), Finds(op, ds, s)
  PROVE  HandlesKept(op, ds2, hs2)
<1>1. PICK x : x = Len(ds) + 1
  OBVIOUS
<1>2. /\ x - 1 = Len(ds)
      /\ \A e \in 1..Len(ds) : ds2[e] = ds[e]
      /\ \A e \in 1..Len(ds2) : e \in 1..Len(ds) \/ e = x
      /\ ds2[x] = [name |-> n, kind |-> kind]
  BY <1>1, NewPlace
<1>3. \A d \in 1..Len(ds) : \A e \in 1..(d - 1) : e \in 1..Len(ds)
  BY DEF DeclAdded
<1>4. kind = "comptime function" => hs2[x] = s
  BY <1>1 DEF Captures
<1>5. ASSUME NEW d \in 1..Len(ds), ds2[d].kind = "comptime function", ~Past(op, d),
             NEW m \in Names, NEW which \in CtKinds
      PROVE  Newest(LookUp(Tables(hs2[d], which), m), op, ds2, d - 1, m, which)
  <2>1. ds[d].kind = "comptime function"
    BY <1>2, <1>5
  <2>2. hs2[d] = hs[d]
    <3>1. d \in 1..Len(ds2)
      BY <1>1, NewPlace
    <3> QED
      BY <1>5, <3>1 DEF HandlesStay
  <2>3. PICK y, count : y = LookUp(Tables(hs[d], which), m) /\ count = d - 1
    OBVIOUS
  <2>4. Newest(y, op, ds, count, m, which)
    BY <1>5, <2>1, <2>3 DEF HandlesKept
  <2>5. \A e \in 1..count : ds2[e] = ds[e]
    BY <1>2, <1>3, <2>3
  <2>6. Newest(y, op, ds2, count, m, which)
    BY <2>4, <2>5, NewestSame
  <2> QED
    BY <2>2, <2>3, <2>6
<1>6. ASSUME ds2[x].kind = "comptime function", NEW m \in Names, NEW which \in CtKinds
      PROVE  Newest(LookUp(Tables(hs2[x], which), m), op, ds2, x - 1, m, which)
  <2>1. hs2[x] = s
    <3>1. kind = ds2[x].kind
      BY <1>2
    <3> QED
      BY <1>4, <1>6, <3>1
  <2>2. PICK y, count : y = LookUp(Tables(s, which), m) /\ count = Len(ds)
    OBVIOUS
  <2>3. Newest(y, op, ds, count, m, which)
    BY <2>2 DEF Finds
  <2>4. \A e \in 1..count : ds2[e] = ds[e]
    BY <1>2, <2>2
  <2>5. Newest(y, op, ds2, count, m, which)
    BY <2>3, <2>4, NewestSame
  <2> QED
    BY <1>2, <2>1, <2>2, <2>5
<1> QED
  BY <1>2, <1>5, <1>6 DEF HandlesKept

\* The scope of a runtime declaration learns its name.
LEMMA AddRuntime ==
  ASSUME NEW op, NEW ds, NEW ds2, Len(ds) \in Nat, NEW s, NEW s2, NEW lev, NEW n \in Names, NEW kind,
         InLast(op, s, lev, Len(ds) + 1), DeclAdded(ds, ds2, n, kind), Len(s2) = Len(s), NameAdds(s, s2, n, kind)
  PROVE  NamesKept(s, s2) /\ NamesJustified(op, ds2, s, s2, lev) /\ NewKnown(op, op, ds, ds2, s2, lev)
<1>1. PICK x : x = Len(ds) + 1
  OBVIOUS
<1>2. /\ x \in 1..Len(ds2) /\ ds2[x] = [name |-> n, kind |-> kind]
      /\ \A d \in 1..Len(ds2) : d \in 1..Len(ds) \/ d = x
  BY <1>1, NewPlace
<1>3. PICK last : last = Len(s)
  OBVIOUS
<1>4. /\ last \in 1..Len(s) /\ last \in 1..Len(s2) /\ lev[last] = Len(op)
      /\ InLevel(op, x, lev[last]) /\ NotBeyond(op, x, lev[last])
  BY <1>1, <1>3 DEF InLast
<1>5. \A j \in 1..Len(s) : s2[j].runtime_names =
        IF j = last /\ kind \in {"local", "const", "state"} THEN s[j].runtime_names \cup {n} ELSE s[j].runtime_names
  BY <1>3 DEF NameAdds
<1>6. NamesKept(s, s2)
  BY <1>5 DEF NamesKept
<1>7. NamesJustified(op, ds2, s, s2, lev)
  <2> SUFFICES ASSUME NEW j \in 1..Len(s2), NEW m \in s2[j].runtime_names, ~(j \in 1..Len(s) /\ m \in s[j].runtime_names)
               PROVE  \E d \in 1..Len(ds2) : Runtime(ds2[d], m) /\ NotBeyond(op, d, lev[j])
    BY DEF NamesJustified
  <2>1. j = last /\ m = n /\ kind \in {"local", "const", "state"}
    BY <1>5
  <2>2. Runtime(ds2[x], m)
    BY <1>2, <2>1 DEF Runtime
  <2> QED
    BY <1>2, <1>4, <2>1, <2>2
<1>8. NewKnown(op, op, ds, ds2, s2, lev)
  <2> SUFFICES ASSUME NEW d \in 1..Len(ds2), NEW m \in Names, Runtime(ds2[d], m), d \notin 1..Len(ds)
               PROVE  Known(op, s2, lev, d, m)
    BY DEF NewKnown, Known
  <2>1. d = x
    BY <1>2
  <2>2. m = n /\ kind \in {"local", "const", "state"}
    BY <1>2, <2>1 DEF Runtime
  <2>3. m \in s2[last].runtime_names
    BY <1>4, <1>5, <2>2
  <2> QED
    BY <1>4, <2>1, <2>3 DEF Known
<1> QED
  BY <1>6, <1>7, <1>8

\* Only the kind of the new declaration has a new one.
LEMMA NewOfKind ==
  ASSUME NEW ds, NEW ds2, Len(ds) \in Nat, NEW n, NEW kind, DeclAdded(ds, ds2, n, kind)
  PROVE  \A d \in 1..Len(ds2) : d \in 1..Len(ds) \/ ds2[d].kind = kind
BY DEF DeclAdded

\* Old declarations stay.
LEMMA OldPlaces ==
  ASSUME NEW ds, NEW ds2, Len(ds) \in Nat, NEW n, NEW kind, DeclAdded(ds, ds2, n, kind)
  PROVE  \A d \in 1..Len(ds) : d \in 1..Len(ds2) /\ ds2[d] = ds[d]
BY DEF DeclAdded

\* A declaration keeps the books.
LEMMA AddKeeps ==
  ASSUME NEW op, NEW ds, NEW ds2, NEW s, NEW s2, NEW hs, NEW hs2, NEW n, NEW kind,
         AddStep(op, ds, ds2, s, s2, hs, hs2, n, kind), Expander(op, ds, s, hs)
  PROVE  Expander(op, ds2, s2, hs2)
<1>1. op \in Seq(Construct) /\ ds \in Seq(Decl) /\ Bases(op, Len(ds)) /\ s \in Seq(CtScope) /\ n \in Names
  BY DEF AddStep
<1>2. DeclAdded(ds, ds2, n, kind) /\ Len(s2) = Len(s) /\ NameAdds(s, s2, n, kind)
  BY DEF AddStep
<1>3. TableAdds(s, s2, n, Len(ds) + 1, kind, "comptime") /\ TableAdds(s, s2, n, Len(ds) + 1, kind, "comptime function")
  BY DEF AddStep
<1>4. Len(op) \in Nat /\ Len(ds) \in Nat /\ Base(op, Len(op)) \in Nat /\ Base(op, Len(op)) <= Len(ds)
  <2>1. Len(op) \in 0..Len(op)
    BY <1>1
  <2> QED
    BY <1>1, <2>1, BasesAreNat DEF Bases
<1>5. \A d \in 1..Len(ds) : d \in 1..Len(ds2) /\ ds2[d] = ds[d]
  BY <1>2, <1>4, OldPlaces
<1>6. \A d \in 1..Len(ds2) : d \in 1..Len(ds) \/ ds2[d].kind = kind
  BY <1>2, <1>4, NewOfKind
<1>7. PICK lev \in [1..Len(s) -> 0..Len(op)] :
        /\ Levels(op, lev, Len(s))
        /\ EntriesKept(op, ds, s, lev, "comptime")
        /\ EntriesKept(op, ds, s, lev, "comptime function")
        /\ RuntimeKept(op, ds, s, lev)
  BY DEF Expander, EnvKept
<1>8. InLast(op, s, lev, Len(ds) + 1)
  <2>1. PICK count : count = Len(s)
    OBVIOUS
  <2>2. Levels(op, lev, count) /\ (Len(op) = 0 \/ op[Len(op)].kind # "test")
    BY <1>7, <2>1 DEF AddStep
  <2>3. lev[count] = Len(op) /\ count \in 1..count
    BY <1>4, <2>2, LastLevel
  <2>4. Base(op, Len(op)) < Len(ds) + 1
    BY <1>4
  <2>5. InLevel(op, Len(ds) + 1, Len(op)) /\ NotBeyond(op, Len(ds) + 1, Len(op))
    BY <1>4, <2>4 DEF InLevel, NotBeyond
  <2> QED
    BY <2>1, <2>3, <2>5 DEF InLast
<1>9. ASSUME NEW which \in CtKinds
      PROVE  EntriesKept(op, ds2, s2, lev, which)
  <2>1. TableAdds(s, s2, n, Len(ds) + 1, kind, which) /\ EntriesKept(op, ds, s, lev, which)
    BY <1>3, <1>7 DEF CtKinds
  <2>2. CASE kind = which
    <3>1. TableAdds(s, s2, n, Len(ds) + 1, which, which) /\ DeclAdded(ds, ds2, n, which)
      BY <1>2, <2>1, <2>2
    <3> QED
      BY <1>1, <1>2, <1>8, <2>1, <3>1, AddEntry
  <2>3. CASE kind # which
    <3>1. TablesKept(s, s2, which)
      BY <1>2, <2>1, <2>3 DEF TablesKept, TableAdds
    <3>2. NoneAdded(ds, ds2, which)
      BY <1>6, <2>3 DEF NoneAdded
    <3>3. PICK op2, lev2, count : op2 = op /\ lev2 = lev /\ count = Len(ds)
      OBVIOUS
    <3>4. Kept(op, op, ds, ds2, s, s2, lev, lev, Len(ds))
      BY <1>1, <1>2, <1>4, AddKept
    <3>5. Kept(op, op2, ds, ds2, s, s2, lev, lev2, count)
      BY <3>3, <3>4
    <3>6. EntriesKept(op2, ds2, s2, lev2, which)
      BY <1>4, <2>1, <3>1, <3>2, <3>5, CarryEntries
    <3> QED
      BY <3>3, <3>6
  <2> QED
    BY <2>2, <2>3
<1>10. RuntimeKept(op, ds2, s2, lev)
  <2>1. NamesKept(s, s2) /\ NamesJustified(op, ds2, s, s2, lev) /\ NewKnown(op, op, ds, ds2, s2, lev)
    BY <1>1, <1>2, <1>4, <1>8, AddRuntime
  <2>2. PICK op2, lev2, count : op2 = op /\ lev2 = lev /\ count = Len(ds)
    OBVIOUS
  <2>3. Kept(op, op, ds, ds2, s, s2, lev, lev, Len(ds))
    BY <1>1, <1>2, <1>4, AddKept
  <2>4. /\ Kept(op, op2, ds, ds2, s, s2, lev, lev2, count)
        /\ NamesJustified(op2, ds2, s, s2, lev2) /\ NewKnown(op, op2, ds, ds2, s2, lev2)
    BY <2>1, <2>2, <2>3
  <2>5. RuntimeKept(op2, ds2, s2, lev2)
    BY <1>4, <1>7, <2>1, <2>4, CarryRuntime
  <2> QED
    BY <2>2, <2>5
<1>11. EnvKept(op, ds2, s2)
  <2>1. lev \in [1..Len(s2) -> 0..Len(op)] /\ Levels(op, lev, Len(s2))
    BY <1>2, <1>7
  <2>2. "comptime" \in CtKinds /\ "comptime function" \in CtKinds
    BY DEF CtKinds
  <2> QED
    BY <1>9, <1>10, <2>1, <2>2 DEF EnvKept
<1>12. Afters(op, ds2)
  <2> SUFFICES ASSUME NEW i \in 1..Len(op), NEW m \in op[i].after
               PROVE  /\ Base(op, i - 1) < op[i].base /\ op[i].base <= Len(ds2)
                      /\ ds2[op[i].base] = [name |-> m, kind |-> "local"]
                      /\ i > 1 => op[i - 1].kind \notin {"comprehension", "test", "result"}
    BY DEF Afters
  <2>1. /\ Base(op, i - 1) < op[i].base /\ op[i].base <= Len(ds)
        /\ ds[op[i].base] = [name |-> m, kind |-> "local"]
        /\ i > 1 => op[i - 1].kind \notin {"comprehension", "test", "result"}
    BY DEF Expander, Afters
  <2>2. i - 1 \in 0..Len(op) /\ i \in 0..Len(op) /\ i # 0
    BY <1>4
  <2>3. PICK b \in Nat, c \in Nat : b = Base(op, i) /\ c = Base(op, i - 1)
    BY <1>1, <2>2, BasesAreNat
  <2>4. b = op[i].base
    BY <2>2, <2>3 DEF Base
  <2>5. c < b /\ b <= Len(ds)
    BY <2>1, <2>3, <2>4
  <2>6. PICK N \in Nat : N = Len(ds)
    BY <1>4
  <2>7. b \in 1..Len(ds)
    BY <2>5, <2>6
  <2>8. b \in 1..Len(ds2) /\ ds2[b] = ds[b]
    BY <1>5, <2>7
  <2>9. b <= Len(ds2)
    BY <2>8
  <2> QED
    BY <2>1, <2>4, <2>8, <2>9
<1>13. HandlesKept(op, ds2, hs2)
  <2>1. Finds(op, ds, s)
    <3> SUFFICES ASSUME NEW m \in Names, NEW which \in CtKinds
                 PROVE  Newest(LookUp(Tables(s, which), m), op, ds, Len(ds), m, which)
      BY DEF Finds
    <3>1. EntriesKept(op, ds, s, lev, which)
      BY <1>7 DEF CtKinds
    <3>2. PICK count \in Nat : count = Len(ds)
      BY <1>4
    <3>3. Bases(op, count)
      BY <1>1, <3>2
    <3>4. Newest(LookUp(Tables(s, which), m), op, ds, count, m, which)
      BY <1>1, <1>7, <3>1, <3>2, <3>3, LookUpIsNewest
    <3> QED
      BY <3>2, <3>4
  <2>2. HandlesStay(ds, ds2, hs, hs2) /\ Captures(ds, hs2, s, kind) /\ HandlesKept(op, ds, hs)
    BY DEF AddStep, Expander
  <2> QED
    BY <1>2, <1>4, <2>1, <2>2, AddHandles
<1> QED
  BY <1>11, <1>12, <1>13 DEF Expander

\* The program has one scope, which is empty.
LEMMA InitExpander ==
  ASSUME Init
  PROVE  Expander(open, decls, env, handles)
<1>1. PICK s : s = <<EmptyScope>>
  OBVIOUS
<1>2. env = s /\ Len(s) = 1 /\ s[1] = EmptyScope /\ \A j \in 1..1 : j = 1
  BY <1>1 DEF Init
<1>3. Len(open) = 0 /\ Len(decls) = 0
  BY DEF Init
<1> DEFINE lev == [j \in 1..1 |-> 0]
<1>4. lev \in [1..1 -> 0..0] /\ lev[1] = 0
  OBVIOUS
<1>5. Levels(open, lev, 1)
  BY <1>3 DEF Levels
<1>6. ASSUME NEW kind PROVE EntriesKept(open, decls, s, lev, kind)
  <2>1. \A j \in 1..1 : \A n \in Names : Table(s[j], kind)[n] = Nothing
    BY <1>2 DEF Table, EmptyScope
  <2> QED
    BY <1>2, <1>3, <2>1 DEF EntriesKept
<1>7. RuntimeKept(open, decls, s, lev)
  <2>1. \A j \in 1..1 : s[j].runtime_names = {}
    BY <1>2 DEF EmptyScope
  <2> QED
    BY <1>2, <1>3, <2>1 DEF RuntimeKept
<1> HIDE DEF lev
<1>8. EnvKept(open, decls, s)
  BY <1>2, <1>3, <1>4, <1>5, <1>6, <1>7 DEF EnvKept
<1>9. Afters(open, decls) /\ HandlesKept(open, decls, handles)
  BY <1>3 DEF Afters, HandlesKept
<1> QED
  BY <1>2, <1>8, <1>9 DEF Expander

\* What is declared in a construct, and where.
Declares(outer, inner, known) ==
  /\ outer \in Seq(Names) /\ inner \in Seq(Names) /\ Len(outer) <= 1
  /\ outer # <<>> => AtStatement
  /\ known \subseteq ToSet(outer) \cup ToSet(inner) /\ ToSet(inner) \subseteq known

\* The locals of a list of names.
LEMMA LocalNames ==
  ASSUME NEW names \in Seq(Names),
         NEW q, q = [i \in 1..Len(names) |-> [name |-> names[i], kind |-> "local"]]
  PROVE  \A i \in 1..Len(names) : q[i] = [name |-> names[i], kind |-> "local"]
OBVIOUS

\* Two sequences one after the other.
Joined(s, t, q) == q = s \o t

\* What is where in the result.
LEMMA Appended ==
  ASSUME NEW S, NEW s \in Seq(S), NEW t \in Seq(S), NEW q, Joined(s, t, q)
  PROVE  /\ q \in Seq(S) /\ Len(q) = Len(s) + Len(t)
         /\ \A i \in 1..Len(s) : q[i] = s[i]
         /\ \A i \in 1..Len(t) : q[Len(s) + i] = t[i]
BY ConcatProperties DEF Joined

\* Locals of the names.
LocalSeq(names, q) ==
  /\ q \in Seq(Decl) /\ Len(q) = Len(names)
  /\ \A i \in 1..Len(names) : q[i] = [name |-> names[i], kind |-> "local"]

\* Locals after other declarations.
LEMMA JoinLocals ==
  ASSUME NEW s \in Seq(Decl), NEW names \in Seq(Names), NEW t, LocalSeq(names, t), NEW q, Joined(s, t, q)
  PROVE  /\ q \in Seq(Decl) /\ Len(q) = Len(s) + Len(names) /\ LocalsOf(q, Len(s), names)
         /\ \A i \in 1..Len(s) : q[i] = s[i]
<1>1. PICK S : S = Decl
  OBVIOUS
<1>2. /\ t \in Seq(Decl) /\ Len(t) = Len(names)
      /\ \A i \in 1..Len(names) : t[i] = [name |-> names[i], kind |-> "local"]
  BY DEF LocalSeq
<1>3. s \in Seq(S) /\ t \in Seq(S)
  BY <1>1, <1>2
<1>4. /\ q \in Seq(S) /\ Len(q) = Len(s) + Len(t)
      /\ \A i \in 1..Len(s) : q[i] = s[i]
      /\ \A i \in 1..Len(t) : q[Len(s) + i] = t[i]
  BY <1>3, Appended
<1>5. LocalsOf(q, Len(s), names)
  BY <1>2, <1>4 DEF LocalsOf
<1> QED
  BY <1>1, <1>2, <1>4, <1>5

\* The locals of a construct, around it and inside.
LEMMA EnterDeclares ==
  ASSUME NEW ds \in Seq(Decl), NEW outer \in Seq(Names), NEW inner \in Seq(Names),
         NEW t, LocalSeq(outer, t), NEW u, LocalSeq(inner, u),
         NEW v, Joined(ds, t, v), NEW ds2, Joined(v, u, ds2)
  PROVE  DeclaredBy(ds, ds2, outer, inner)
<1>1. /\ v \in Seq(Decl) /\ Len(v) = Len(ds) + Len(outer) /\ LocalsOf(v, Len(ds), outer)
      /\ \A i \in 1..Len(ds) : v[i] = ds[i]
  BY JoinLocals
<1>2. /\ ds2 \in Seq(Decl) /\ Len(ds2) = Len(v) + Len(inner) /\ LocalsOf(ds2, Len(v), inner)
      /\ \A i \in 1..Len(v) : ds2[i] = v[i]
  <2>1. v \in Seq(Decl)
    BY <1>1
  <2>2. PICK s : s = v
    OBVIOUS
  <2>3. s \in Seq(Decl) /\ Joined(s, u, ds2)
    BY <2>1, <2>2
  <2>4. /\ ds2 \in Seq(Decl) /\ Len(ds2) = Len(s) + Len(inner) /\ LocalsOf(ds2, Len(s), inner)
        /\ \A i \in 1..Len(s) : ds2[i] = s[i]
    BY <2>3, JoinLocals
  <2> QED
    BY <2>2, <2>4
<1>3. Len(ds) \in Nat /\ Len(outer) \in Nat /\ Len(inner) \in Nat
  OBVIOUS
<1>4. \A i \in 1..Len(ds) : i \in 1..Len(v)
  BY <1>1, <1>3
<1>5. \A i \in 1..Len(outer) : Len(ds) + i \in 1..Len(v)
  BY <1>1, <1>3
<1>6. LocalsOf(ds2, Len(ds), outer)
  BY <1>1, <1>2, <1>5 DEF LocalsOf
<1>7. LocalsOf(ds2, Len(ds) + Len(outer), inner)
  BY <1>1, <1>2
<1>8. \A i \in 1..Len(ds) : ds2[i] = ds[i]
  BY <1>1, <1>2, <1>4
<1>9. Len(ds2) = Len(ds) + Len(outer) + Len(inner)
  BY <1>1, <1>2
<1> QED
  BY <1>2, <1>6, <1>7, <1>8, <1>9 DEF DeclaredBy

\* Enter keeps the books.
LEMMA EnterExpander ==
  ASSUME IInv, IInv', Expander(open, decls, env, handles),
         NEW kind \in {"block", "repeat", "do", "loop", "function", "comprehension"},
         NEW outer, NEW inner, NEW known, Declares(outer, inner, known),
         Enter(kind, outer, inner, known)
  PROVE  Expander(open', decls', env', handles')
<1>1. PICK op, op2, ds, ds2, s, s2, hs, hs2 :
        /\ op = open /\ op2 = open' /\ ds = decls /\ ds2 = decls'
        /\ s = env /\ s2 = env' /\ hs = handles /\ hs2 = handles'
  OBVIOUS
<1>2. /\ op \in Seq(Construct) /\ ds \in Seq(Decl) /\ Bases(op, Len(ds))
      /\ hs \in Seq(Seq(CtScope)) /\ Len(hs) = Len(ds)
  BY <1>1, Types DEF IInv
<1>3. s \in Seq(CtScope) /\ Len(s) \in Nat
  <2>1. s \in Seq(CtScope)
    BY <1>1, ScopesOf
  <2> QED
    BY <2>1
<1>4. op2 \in Seq(Construct)
  <2>1. TypeOK'
    BY DEF IInv
  <2> QED
    BY <1>1, <2>1 DEF TypeOK, Construct
<1>5. outer \in Seq(Names) /\ inner \in Seq(Names) /\ Len(outer) <= 1 /\ Len(outer) \in Nat
  BY DEF Declares
<1>6. PICK f : f = [kind |-> kind, base |-> Len(ds) + Len(outer), after |-> ToSet(outer)]
  OBVIOUS
<1>7. op2 = Append(op, f)
  BY <1>1, <1>6 DEF Enter
<1>8. f \in Construct /\ f.kind # "test" /\ f.base = Len(ds) + Len(outer) /\ f.after = ToSet(outer)
  <2>1. Len(op2) = Len(op) + 1 /\ op2[Len(op) + 1] = f
    BY <1>2, <1>7
  <2>2. Len(op2) \in 1..Len(op2)
    BY <1>2, <2>1
  <2>3. f \in Construct
    BY <1>4, <2>1, <2>2
  <2> QED
    BY <1>6, <2>3
<1>9. DeclaredBy(ds, ds2, outer, inner)
  <2>1. PICK t, u : /\ t = [i \in 1..Len(outer) |-> [name |-> outer[i], kind |-> "local"]]
                    /\ u = [i \in 1..Len(inner) |-> [name |-> inner[i], kind |-> "local"]]
    OBVIOUS
  <2>2. PICK v : v = ds \o t
    OBVIOUS
  <2>3. Joined(ds, t, v) /\ Joined(v, u, ds2)
    BY <1>1, <2>1, <2>2 DEF Enter, Joined
  <2>4. LocalSeq(outer, t) /\ LocalSeq(inner, u)
    BY <1>5, <2>1, LocalNames, LocalsAre DEF LocalSeq
  <2> QED
    BY <1>2, <1>5, <2>3, <2>4, EnterDeclares
<1>10. Knows(s, s2, outer, inner, known)
  <2>1. PICK c : c = [EmptyScope EXCEPT !.runtime_names = known]
    OBVIOUS
  <2>2. s2 = Append(s, c)
    BY <1>1, <2>1 DEF Enter
  <2>3. Len(s2) = Len(s) + 1 /\ s2[Len(s) + 1] = c /\ \A j \in 1..Len(s) : s2[j] = s[j]
    BY <1>3, <2>2
  <2> QED
    BY <2>1, <2>3 DEF Knows, Declares
<1>11. HandlesStay(ds, ds2, hs, hs2)
  <2>1. PICK m \in Nat : m = Len(outer) + Len(inner)
    BY <1>5
  <2>2. PICK S, x, t : S = Seq(CtScope) /\ x = <<>> /\ t = [i \in 1..m |-> x]
    OBVIOUS
  <2>3. x \in S
    BY <2>2
  <2>4. t \in [1..m -> S]
    BY <2>2, <2>3
  <2>5. t \in Seq(S)
    BY <2>1, <2>4, FunctionIsSeq
  <2>6. Joined(hs, t, hs2) /\ hs \in Seq(S)
    BY <1>1, <1>2, <2>1, <2>2 DEF Enter, Joined
  <2>7. \A i \in 1..Len(hs) : hs2[i] = hs[i]
    BY <2>5, <2>6, Appended
  <2> QED
    BY <1>2, <2>7 DEF HandlesStay
<1>12. outer # <<>> /\ op # <<>> => op[Len(op)].kind \notin {"comprehension", "test", "result"}
  BY <1>1 DEF Declares, AtStatement, Last
<1>13. EnterStep(op, op2, ds, ds2, s, s2, hs, hs2, f, outer, inner, known)
  BY <1>2, <1>3, <1>5, <1>7, <1>8, <1>9, <1>10, <1>11, <1>12 DEF EnterStep
<1>14. Expander(op2, ds2, s2, hs2)
  BY <1>1, <1>13, EnterKeeps
<1> QED
  BY <1>1, <1>14

\* The names of no locals, of one, and of two.
LEMMA NamesOf ==
  ASSUME NEW n \in Names
  PROVE  <<n>> \in Seq(Names) /\ Len(<<n>>) = 1 /\ ToSet(<<n>>) = {n}
<1>1. PICK t : t = <<n>>
  OBVIOUS
<1>2. t \in Seq(Names) /\ Len(t) = 1 /\ t[1] = n /\ \A i \in 1..1 : i = 1
  BY <1>1
<1>3. \A x : x \in ToSet(t) <=> \E i \in 1..Len(t) : t[i] = x
  BY <1>2, InToSet
<1>4. 1 \in 1..1
  OBVIOUS
<1>5. ToSet(t) = {n}
  BY <1>2, <1>3, <1>4
<1> QED
  BY <1>1, <1>2, <1>5

\* The names of a construct that declares none.
LEMMA NoNames ==
  <<>> \in Seq(Names) /\ Len(<<>>) = 0 /\ ToSet(<<>>) = {}
BY DEF ToSet

\* A construct that declares nothing,
LEMMA DeclaresNothing ==
  Declares(<<>>, <<>>, {})
<1>1. PICK t : t = <<>>
  OBVIOUS
<1>2. t \in Seq(Names) /\ Len(t) = 0 /\ ToSet(t) = {} /\ ~(t # <<>>)
  BY <1>1, NoNames
<1>3. Declares(t, t, {})
  BY <1>2 DEF Declares
<1> QED
  BY <1>1, <1>3

\* that declares a name inside,
LEMMA DeclaresInside ==
  ASSUME NEW n \in Names
  PROVE  Declares(<<>>, <<n>>, {n})
<1>1. PICK t, u : t = <<>> /\ u = <<n>>
  OBVIOUS
<1>2. t \in Seq(Names) /\ Len(t) = 0 /\ ~(t # <<>>)
  BY <1>1, NoNames
<1>3. u \in Seq(Names) /\ ToSet(u) = {n}
  BY <1>1, NamesOf
<1>4. Declares(t, u, {n})
  BY <1>2, <1>3 DEF Declares
<1> QED
  BY <1>1, <1>4

\* that declares a name around it and one inside.
LEMMA DeclaresBoth ==
  ASSUME NEW m \in Names, NEW n \in Names, AtStatement, NEW known \in {{n}, {m, n}}
  PROVE  Declares(<<m>>, <<n>>, known)
<1>1. PICK t, u : t = <<m>> /\ u = <<n>>
  OBVIOUS
<1>2. t \in Seq(Names) /\ Len(t) = 1 /\ ToSet(t) = {m}
  BY <1>1, NamesOf
<1>3. u \in Seq(Names) /\ ToSet(u) = {n}
  BY <1>1, NamesOf
<1>4. Declares(t, u, known)
  BY <1>2, <1>3 DEF Declares
<1> QED
  BY <1>1, <1>4

\* Every construct is entered by a step like that.
LEMMA EnterAnyExpander ==
  ASSUME IInv, IInv', Expander(open, decls, env, handles), NEW m \in Names, NEW n \in Names,
         \/ EnterLoop(n) \/ EnterMatch(n) \/ EnterComprehension(n)
         \/ EnterFunctionExpr(n) \/ EnterHandler(n) \/ EnterSpawnHandler(n)
         \/ EnterFunction(m, n) \/ EnterTaskFunction(m, n)
         \/ EnterMethod(m, n) \/ EnterConstructor(m, n) \/ EnterWatch(m, n)
  PROVE  Expander(open', decls', env', handles')
<1>1. CASE EnterLoop(n) \/ EnterMatch(n) \/ EnterComprehension(n)
  <2>1. PICK kind \in {"block", "repeat", "do", "loop", "function", "comprehension"} : Enter(kind, <<>>, <<n>>, {n})
    BY <1>1 DEF EnterLoop, EnterMatch, EnterComprehension
  <2>2. Declares(<<>>, <<n>>, {n})
    BY DeclaresInside
  <2> QED
    BY <2>1, <2>2, EnterExpander
<1>2. CASE EnterFunctionExpr(n) \/ EnterHandler(n) \/ EnterSpawnHandler(n) \/ EnterWatch(m, n)
  <2>1. PICK kind \in {"block", "repeat", "do", "loop", "function", "comprehension"} : Enter(kind, <<>>, <<n>>, {n})
    BY <1>2 DEF EnterFunctionExpr, EnterHandler, EnterSpawnHandler, EnterWatch
  <2>2. Declares(<<>>, <<n>>, {n})
    BY DeclaresInside
  <2> QED
    BY <2>1, <2>2, EnterExpander
<1>3. CASE EnterFunction(m, n) \/ EnterTaskFunction(m, n) \/ EnterMethod(m, n) \/ EnterConstructor(m, n)
  <2>1. PICK kind \in {"block", "repeat", "do", "loop", "function", "comprehension"} :
        \E known \in {{n}, {m, n}} : Enter(kind, <<m>>, <<n>>, known) /\ AtStatement
    BY <1>3 DEF EnterFunction, EnterTaskFunction, FunctionKnows, EnterMethod, EnterConstructor, MethodKnows
  <2>2. PICK known \in {{n}, {m, n}} : Enter(kind, <<m>>, <<n>>, known) /\ AtStatement
    BY <2>1
  <2>3. Declares(<<m>>, <<n>>, known)
    BY <2>2, DeclaresBoth
  <2> QED
    BY <2>2, <2>3, EnterExpander
<1> QED
  BY <1>1, <1>2, <1>3

\* Blocks, repeat loops and do expressions.
LEMMA EnterPlainExpander ==
  ASSUME IInv, IInv', Expander(open, decls, env, handles), EnterBlock \/ EnterRepeat \/ EnterDo
  PROVE  Expander(open', decls', env', handles')
<1>1. PICK kind \in {"block", "repeat", "do", "loop", "function", "comprehension"} : Enter(kind, <<>>, <<>>, {})
  BY DEF EnterBlock, EnterRepeat, EnterDo
<1>2. Declares(<<>>, <<>>, {})
  BY DeclaresNothing
<1> QED
  BY <1>1, <1>2, EnterExpander

\* There is always a scope.
LEMMA SomeScope ==
  ASSUME NEW op, NEW ds, NEW s, NEW hs, Expander(op, ds, s, hs)
  PROVE  Len(s) \in Nat \ {0}
BY DEF Expander, EnvKept, Levels

\* The expander leaves the scope of a repeat loop before its test,
LEMMA ReachTestExpander ==
  ASSUME IInv, Expander(open, decls, env, handles), ReachTest
  PROVE  Expander(open', decls', env', handles')
<1>1. PICK op, op2, ds, s, s2, hs :
        /\ op = open /\ op2 = open' /\ ds = decls /\ s = env /\ s2 = env' /\ hs = handles
  OBVIOUS
<1>2. op \in Seq(Construct) /\ ds \in Seq(Decl) /\ Bases(op, Len(ds))
  BY <1>1, Types DEF IInv
<1>3. s \in Seq(CtScope)
  BY <1>1, ScopesOf
<1>4. Expander(op, ds, s, hs)
  BY <1>1
<1>5. Len(s) \in Nat \ {0}
  BY <1>4, SomeScope
<1>6. Len(s2) = Len(s) - 1 /\ \A j \in 1..(Len(s) - 1) : s2[j] = s[j]
  <2>1. PICK m : m = Len(s) - 1
    OBVIOUS
  <2>2. m \in 0..Len(s)
    BY <1>5, <2>1
  <2>3. s2 = SubSeq(s, 1, m)
    BY <1>1, <2>1 DEF ReachTest, Front
  <2>4. Len(s2) = m /\ \A i \in 1..m : s2[i] = s[i]
    BY <1>3, <2>2, <2>3, FrontOf
  <2> QED
    BY <2>1, <2>4
<1>7. BlockEnds(op, op2, "test")
  <2>1. op # <<>> /\ op[Len(op)].kind = "repeat" /\ op2 = [op EXCEPT ![Len(op)].kind = "test"]
    BY <1>1 DEF ReachTest, Last
  <2>2. Len(op) > 0
    BY <1>2, <2>1, EmptySeq
  <2> QED
    BY <2>1, <2>2 DEF BlockEnds
<1>8. TestStep(op, op2, ds, s, s2)
  BY <1>2, <1>5, <1>6, <1>7 DEF TestStep
<1>9. Expander(op2, ds, s2, hs)
  BY <1>4, <1>8, TestKeeps
<1>10. decls' = ds /\ handles' = hs
  BY <1>1 DEF ReachTest
<1> QED
  BY <1>1, <1>9, <1>10

\* and stays in that of a do expression for its result.
LEMMA ReachResultExpander ==
  ASSUME IInv, Expander(open, decls, env, handles), ReachResult
  PROVE  Expander(open', decls', env', handles')
<1>1. PICK op, op2, ds, s, hs : op = open /\ op2 = open' /\ ds = decls /\ s = env /\ hs = handles
  OBVIOUS
<1>2. op \in Seq(Construct)
  BY <1>1, Types DEF IInv
<1>3. BlockEnds(op, op2, "result")
  <2>1. op # <<>> /\ op[Len(op)].kind = "do" /\ op2 = [op EXCEPT ![Len(op)].kind = "result"]
    BY <1>1 DEF ReachResult, Last
  <2>2. Len(op) > 0
    BY <1>2, <2>1, EmptySeq
  <2> QED
    BY <2>1, <2>2 DEF BlockEnds
<1>4. Expander(op2, ds, s, hs)
  <2>1. Expander(op, ds, s, hs)
    BY <1>1
  <2> QED
    BY <1>2, <1>3, <2>1, ResultKeeps
<1>5. decls' = ds /\ handles' = hs /\ env' = s
  BY <1>1 DEF ReachResult
<1> QED
  BY <1>1, <1>4, <1>5

\* Every construct has one scope of the expander, but for the test of a loop.
LEMMA EnvPushes ==
  \A kind \in {"block", "loop", "function", "comprehension", "test", "result"} :
    Pushes(kind)[3] = IF kind = "test" THEN 0 ELSE 1
BY DEF Pushes

\* One scope of a stack is replaced.
OneReplaced(S, s, i, x, q) == s \in Seq(S) /\ Fits(S, s, i, x) /\ Replaced(s, i, x, q)

\* The others stay.
LEMMA ReplacesOne ==
  ASSUME NEW S, NEW s, NEW i, NEW x, NEW q, OneReplaced(S, s, i, x, q)
  PROVE  Len(q) = Len(s) /\ \A j \in 1..Len(s) : q[j] = IF j = i THEN x ELSE s[j]
BY ReplaceOne DEF OneReplaced

\* The last scope learns of more names.
Learns(s, i, more, q) ==
  s \in Seq(CtScope) /\ more \subseteq Names /\ q = [s EXCEPT ![i].runtime_names = @ \cup more]

\* What the scopes are then.
Learned(s, i, more, q) ==
  /\ Len(q) = Len(s)
  /\ \A j \in 1..Len(s) : /\ q[j].values = s[j].values /\ q[j].functions = s[j].functions
                         /\ q[j].runtime_names = IF j = i THEN s[j].runtime_names \cup more ELSE s[j].runtime_names

\* Only the names of one scope grow.
LEMMA LearnsNames ==
  ASSUME NEW s, NEW i, NEW more, NEW q, Learns(s, i, more, q)
  PROVE  Learned(s, i, more, q)
<1>1. PICK x : x = [s[i] EXCEPT !.runtime_names = @ \cup more]
  OBVIOUS
<1>2. q = [s EXCEPT ![i] = x]
  BY <1>1 DEF Learns
<1>3. ASSUME i \in 1..Len(s)
      PROVE  /\ x \in CtScope /\ x.values = s[i].values /\ x.functions = s[i].functions
             /\ x.runtime_names = s[i].runtime_names \cup more
  <2>1. s[i] \in CtScope /\ more \subseteq Names
    BY <1>3 DEF Learns
  <2> QED
    BY <1>1, <2>1 DEF CtScope
<1>4. OneReplaced(CtScope, s, i, x, q)
  BY <1>2, <1>3 DEF Fits, Replaced, OneReplaced, Learns
<1>5. Len(q) = Len(s) /\ \A j \in 1..Len(s) : q[j] = IF j = i THEN x ELSE s[j]
  BY <1>4, ReplacesOne
<1>6. ASSUME NEW j \in 1..Len(s)
      PROVE  /\ q[j].values = s[j].values /\ q[j].functions = s[j].functions
             /\ q[j].runtime_names = IF j = i THEN s[j].runtime_names \cup more ELSE s[j].runtime_names
  <2>1. CASE j = i
    BY <1>3, <1>5, <2>1
  <2>2. CASE j # i
    BY <1>5, <2>2
  <2> QED
    BY <2>1, <2>2
<1> QED
  BY <1>5, <1>6 DEF Learned

\* A construct is left, and its outer locals become known.
LEMMA LeaveExpander ==
  ASSUME IInv, Expander(open, decls, env, handles), Leave
  PROVE  Expander(open', decls', env', handles')
<1>1. PICK op, op2, ds, ds2, s, s2, hs, hs2 :
        /\ op = open /\ op2 = open' /\ ds = decls /\ ds2 = decls'
        /\ s = env /\ s2 = env' /\ hs = handles /\ hs2 = handles'
  OBVIOUS
<1>2. /\ op \in Seq(Construct) /\ ds \in Seq(Decl) /\ Bases(op, Len(ds))
      /\ hs \in Seq(Seq(CtScope)) /\ Len(hs) = Len(ds)
  BY <1>1, Types DEF IInv
<1>3. s \in Seq(CtScope)
  BY <1>1, ScopesOf
<1>4. Expander(op, ds, s, hs)
  BY <1>1
<1>5. Len(s) \in Nat \ {0}
  BY <1>4, SomeScope
<1>6. op # <<>> /\ op[Len(op)].kind \notin {"repeat", "do"}
  BY <1>1 DEF Leave, Last
<1>7. Len(op) > 0 /\ Len(op) \in 1..Len(op)
  BY <1>2, <1>6, EmptySeq
<1>8. op[Len(op)] \in Construct
  BY <1>2, <1>7
<1>9. ConstructLeft(op, op2, ds, ds2)
  BY <1>1, <1>7 DEF ConstructLeft, Leave, Last, Front
<1>10. PICK m : m = Len(s) - IF op[Len(op)].kind = "test" THEN 0 ELSE 1
  OBVIOUS
<1>11. m \in 0..Len(s)
  BY <1>5, <1>10
<1>12. PICK left : left = SubSeq(s, 1, m)
  OBVIOUS
<1>13. left \in Seq(CtScope) /\ Len(left) = m /\ \A i \in 1..m : left[i] = s[i]
  <2>1. PICK S : S = CtScope
    OBVIOUS
  <2>2. s \in Seq(S)
    BY <1>3, <2>1
  <2>3. left \in Seq(S) /\ Len(left) = m /\ \A i \in 1..m : left[i] = s[i]
    BY <1>11, <1>12, <2>2, FrontOf
  <2> QED
    BY <2>1, <2>3
<1>14. PICK i, more : i = Len(left) /\ more = op[Len(op)].after
  OBVIOUS
<1>15. more \in SUBSET Names
  BY <1>8, <1>14 DEF Construct
<1>16. Learns(left, i, more, s2)
  <2>1. Pushes(op[Len(op)].kind)[3] = IF op[Len(op)].kind = "test" THEN 0 ELSE 1
    <3>1. op[Len(op)].kind \in {"block", "loop", "function", "comprehension", "test", "result"}
      BY <1>6, <1>8 DEF Construct
    <3> QED
      BY <3>1, EnvPushes
  <2>2. Drop(s, Pushes(op[Len(op)].kind)[3]) = left
    BY <1>10, <1>12, <2>1 DEF Drop
  <2> QED
    BY <1>1, <1>13, <1>14, <1>15, <2>2 DEF Leave, Last, Learns
<1>17. Learned(left, i, more, s2)
  BY <1>16, LearnsNames
<1>18. /\ Len(s2) = m
       /\ \A j \in 1..m :
            /\ s2[j].values = s[j].values /\ s2[j].functions = s[j].functions
            /\ s2[j].runtime_names = IF j = m THEN s[j].runtime_names \cup more ELSE s[j].runtime_names
  BY <1>13, <1>14, <1>17 DEF Learned
<1>19. HandlesStay(ds, ds2, hs, hs2)
  <2>1. PICK b : b = op[Len(op)].base
    OBVIOUS
  <2>2. b \in 0..Len(ds) /\ ds2 = SubSeq(ds, 1, b)
    <3>1. b \in Nat
      BY <1>8, <2>1, BoundsAssumption DEF Construct
    <3>2. b <= Len(ds)
      BY <1>2, <1>7, <2>1 DEF Bases, Base
    <3> QED
      BY <1>2, <1>9, <2>1, <3>1, <3>2 DEF ConstructLeft
  <2>3. Len(ds2) = b
    BY <1>2, <2>2, FrontOf
  <2>4. PICK S : S = Seq(CtScope)
    OBVIOUS
  <2>5. hs \in Seq(S) /\ b \in 0..Len(hs) /\ hs2 = SubSeq(hs, 1, b)
    BY <1>1, <1>2, <2>1, <2>2, <2>4 DEF Leave, Last
  <2>6. \A d \in 1..b : hs2[d] = hs[d]
    BY <2>5, FrontOf
  <2> QED
    BY <2>3, <2>6 DEF HandlesStay
<1>20. LeaveStep(op, op2, ds, ds2, s, s2, hs, hs2)
  <2>1. Len(s2) = IF op[Len(op)].kind = "test" THEN Len(s) ELSE Len(s) - 1
    BY <1>5, <1>10, <1>18
  <2>2. \A j \in 1..Len(s2) : /\ s2[j].values = s[j].values /\ s2[j].functions = s[j].functions
                              /\ s2[j].runtime_names = IF j = Len(s2) THEN s[j].runtime_names \cup op[Len(op)].after
                                                       ELSE s[j].runtime_names
    BY <1>14, <1>18
  <2> QED
    BY <1>2, <1>5, <1>9, <1>19, <2>1, <2>2 DEF LeaveStep
<1>21. Expander(op2, ds2, s2, hs2)
  BY <1>4, <1>20, LeaveKeeps
<1> QED
  BY <1>1, <1>21

\* What a declaration does to the scopes of the expander.
ScopesAdd(s, s2, n, d, kind) ==
  /\ Len(s2) = Len(s)
  /\ TableAdds(s, s2, n, d, kind, "comptime")
  /\ TableAdds(s, s2, n, d, kind, "comptime function")
  /\ NameAdds(s, s2, n, kind)

\* A runtime declaration changes the names of the last scope,
LEMMA RuntimeScopesAdd ==
  ASSUME NEW s, NEW n, NEW kind \in {"local", "const", "state"},
         NEW s2, Learns(s, Len(s), {n}, s2), NEW d
  PROVE  ScopesAdd(s, s2, n, d, kind)
<1>1. PICK i, more : i = Len(s) /\ more = {n}
  OBVIOUS
<1>2. Learned(s, i, more, s2)
  <2>1. Learns(s, i, more, s2)
    BY <1>1
  <2> QED
    BY <2>1, LearnsNames
<1>3. NameAdds(s, s2, n, kind)
  BY <1>1, <1>2 DEF NameAdds, Learned
<1>4. TableAdds(s, s2, n, d, kind, "comptime") /\ TableAdds(s, s2, n, d, kind, "comptime function")
  <2>1. kind # "comptime" /\ kind # "comptime function"
    OBVIOUS
  <2> QED
    BY <1>2, <2>1 DEF TableAdds, Table, Learned
<1> QED
  BY <1>2, <1>3, <1>4 DEF ScopesAdd, Learned

\* A compile-time declaration: an entry of one of the tables.
EntryAdded(s, s2, n, d, kind) ==
  s2 = IF kind = "comptime" THEN [s EXCEPT ![Len(s)].values[n] = d] ELSE [s EXCEPT ![Len(s)].functions[n] = d]

\* a compile-time declaration one of its tables.
LEMMA ComptimeScopesAdd ==
  ASSUME NEW s \in Seq(CtScope), NEW n \in Names, NEW kind \in CtKinds, NEW d \in 0..MaxDecls,
         NEW s2, EntryAdded(s, s2, n, d, kind)
  PROVE  ScopesAdd(s, s2, n, d, kind)
<1>1. PICK i : i = Len(s)
  OBVIOUS
<1>2. PICK x : x = IF kind = "comptime" THEN [s[i] EXCEPT !.values[n] = d] ELSE [s[i] EXCEPT !.functions[n] = d]
  OBVIOUS
<1>3. s2 = [s EXCEPT ![i] = x]
  BY <1>1, <1>2 DEF EntryAdded
<1>4. ASSUME i \in 1..Len(s)
      PROVE  /\ x \in CtScope /\ x.runtime_names = s[i].runtime_names
             /\ x.values = IF kind = "comptime" THEN [s[i].values EXCEPT ![n] = d] ELSE s[i].values
             /\ x.functions = IF kind = "comptime" THEN s[i].functions ELSE [s[i].functions EXCEPT ![n] = d]
  <2>1. s[i] \in CtScope
    BY <1>4
  <2>2. CASE kind = "comptime"
    <3>1. x = [s[i] EXCEPT !.values[n] = d]
      BY <1>2, <2>2
    <3> QED
      BY <2>1, <2>2, <3>1 DEF CtScope
  <2>3. CASE kind # "comptime"
    <3>1. x = [s[i] EXCEPT !.functions[n] = d]
      BY <1>2, <2>3
    <3> QED
      BY <2>1, <2>3, <3>1 DEF CtScope
  <2> QED
    BY <2>2, <2>3
<1>5. OneReplaced(CtScope, s, i, x, s2)
  BY <1>3, <1>4 DEF Fits, Replaced, OneReplaced
<1>6. Len(s2) = Len(s) /\ \A j \in 1..Len(s) : s2[j] = IF j = i THEN x ELSE s[j]
  BY <1>5, ReplacesOne
<1>7. kind = "comptime" \/ kind = "comptime function"
  BY DEF CtKinds
<1>8. NameAdds(s, s2, n, kind)
  <2>1. kind \notin {"local", "const", "state"}
    BY <1>7
  <2>2. \A j \in 1..Len(s) : s2[j].runtime_names = s[j].runtime_names
    <3> TAKE j \in 1..Len(s)
    <3>1. CASE j = i
      BY <1>4, <1>6, <3>1
    <3>2. CASE j # i
      BY <1>6, <3>2
    <3> QED
      BY <3>1, <3>2
  <2> QED
    BY <2>1, <2>2 DEF NameAdds
<1>9. TableAdds(s, s2, n, d, kind, "comptime")
  <2> SUFFICES ASSUME NEW j \in 1..Len(s)
               PROVE  s2[j].values = IF j = Len(s) /\ kind = "comptime" THEN [s[j].values EXCEPT ![n] = d] ELSE s[j].values
    BY DEF TableAdds, Table
  <2>1. CASE j = i
    BY <1>1, <1>4, <1>6, <2>1
  <2>2. CASE j # i
    BY <1>1, <1>6, <2>2
  <2> QED
    BY <2>1, <2>2
<1>10. TableAdds(s, s2, n, d, kind, "comptime function")
  <2> SUFFICES ASSUME NEW j \in 1..Len(s)
               PROVE  s2[j].functions = IF j = Len(s) /\ kind = "comptime function" THEN [s[j].functions EXCEPT ![n] = d] ELSE s[j].functions
    BY DEF TableAdds, Table
  <2>1. CASE j = i
    <3>1. kind = "comptime" <=> kind # "comptime function"
      BY <1>7
    <3> QED
      BY <1>1, <1>4, <1>6, <2>1, <3>1
  <2>2. CASE j # i
    BY <1>1, <1>6, <2>2
  <2> QED
    BY <2>1, <2>2
<1> QED
  BY <1>6, <1>8, <1>9, <1>10 DEF ScopesAdd

\* Every declaration is a step like that.
LEMMA AddExpander ==
  ASSUME IInv, Expander(open, decls, env, handles), NEW n \in Names, NEW kind \in Kinds, Add(n, kind),
         ScopesAdd(env, env', n, Len(decls) + 1, kind)
  PROVE  Expander(open', decls', env', handles')
<1>1. PICK op, ds, ds2, s, s2, hs, hs2 :
        /\ op = open /\ ds = decls /\ ds2 = decls'
        /\ s = env /\ s2 = env' /\ hs = handles /\ hs2 = handles'
  OBVIOUS
<1>2. /\ op \in Seq(Construct) /\ ds \in Seq(Decl) /\ Bases(op, Len(ds))
      /\ hs \in Seq(Seq(CtScope)) /\ Len(hs) = Len(ds)
  BY <1>1, Types DEF IInv
<1>3. s \in Seq(CtScope)
  BY <1>1, ScopesOf
<1>4. DeclAdded(ds, ds2, n, kind)
  <2>1. PICK x : x = [name |-> n, kind |-> kind]
    OBVIOUS
  <2>2. ds2 = Append(ds, x)
    BY <1>1, <2>1 DEF Add
  <2>3. Len(ds2) = Len(ds) + 1 /\ ds2[Len(ds) + 1] = x /\ \A d \in 1..Len(ds) : ds2[d] = ds[d]
    BY <1>2, <2>2
  <2> QED
    BY <2>1, <2>3 DEF DeclAdded
<1>5. HandlesStay(ds, ds2, hs, hs2) /\ Captures(ds, hs2, s, kind)
  <2>1. PICK x : x = IF kind = "comptime function" THEN s ELSE <<>>
    OBVIOUS
  <2>2. hs2 = Append(hs, x)
    BY <1>1, <2>1 DEF Add
  <2>3. hs2[Len(hs) + 1] = x /\ \A d \in 1..Len(hs) : hs2[d] = hs[d]
    BY <1>2, <2>2
  <2> QED
    BY <1>2, <2>1, <2>3 DEF HandlesStay, Captures
<1>6. Len(op) = 0 \/ op[Len(op)].kind # "test"
  <2>1. op = <<>> => Len(op) = 0
    BY EmptySeq
  <2>2. op # <<>> => op[Len(op)].kind # "test"
    BY <1>1 DEF Add, AtStatement, Last
  <2> QED
    BY <2>1, <2>2
<1>7. ScopesAdd(s, s2, n, Len(ds) + 1, kind)
  BY <1>1
<1>8. AddStep(op, ds, ds2, s, s2, hs, hs2, n, kind)
  BY <1>2, <1>3, <1>4, <1>5, <1>6, <1>7 DEF AddStep, ScopesAdd
<1>9. Expander(op, ds, s, hs)
  BY <1>1
<1>10. Expander(op, ds2, s2, hs2)
  BY <1>8, <1>9, AddKeeps
<1>11. open' = op
  BY <1>1 DEF Add
<1> QED
  BY <1>1, <1>10, <1>11

\* The declarations.
LEMMA DeclareExpander ==
  ASSUME IInv, Expander(open, decls, env, handles), NEW n \in Names,
         \/ DeclareLocal(n) \/ DeclareConst(n) \/ DeclareState(n)
         \/ DeclareComptime(n) \/ DeclareComptimeFunction(n)
  PROVE  Expander(open', decls', env', handles')
<1>1. env \in Seq(CtScope)
  BY ScopesOf
<1>2. CASE DeclareLocal(n) \/ DeclareConst(n) \/ DeclareState(n)
  <2>1. PICK kind \in {"local", "const", "state"} : Add(n, kind) /\ DefineRuntime(n)
    BY <1>2 DEF DeclareLocal, DeclareConst, DeclareState
  <2>2. PICK s, s2, d : s = env /\ s2 = env' /\ d = Len(decls) + 1
    OBVIOUS
  <2>3. Learns(s, Len(s), {n}, s2)
    BY <1>1, <2>1, <2>2 DEF DefineRuntime, Learns
  <2>4. ScopesAdd(s, s2, n, d, kind)
    BY <2>3, RuntimeScopesAdd
  <2>5. kind \in Kinds
    BY DEF Kinds
  <2> QED
    BY <2>1, <2>2, <2>4, <2>5, AddExpander
<1>3. CASE DeclareComptime(n) \/ DeclareComptimeFunction(n)
  <2>1. PICK s, s2, d : s = env /\ s2 = env' /\ d = Len(decls) + 1
    OBVIOUS
  <2>2. PICK kind \in CtKinds : Add(n, kind) /\ EntryAdded(s, s2, n, d, kind)
    <3>1. CASE DeclareComptime(n)
      <4>1. Add(n, "comptime") /\ EntryAdded(s, s2, n, d, "comptime")
        BY <2>1, <3>1 DEF DeclareComptime, bind_comptime_pattern, EntryAdded
      <4> QED
        BY <4>1 DEF CtKinds
    <3>2. CASE DeclareComptimeFunction(n)
      <4>1. Add(n, "comptime function") /\ EntryAdded(s, s2, n, d, "comptime function")
        BY <2>1, <3>2 DEF DeclareComptimeFunction, EntryAdded
      <4> QED
        BY <4>1 DEF CtKinds
    <3> QED
      BY <1>3, <3>1, <3>2
  <2>3. kind \in Kinds
    BY DEF Kinds, CtKinds
  <2>4. d \in 0..MaxDecls
    <3>1. Len(decls') = Len(decls) + 1 /\ Len(decls') \in 0..MaxDecls
      BY <2>2, <2>3, AddTypes
    <3> QED
      BY <2>1, <3>1
  <2>5. s \in Seq(CtScope)
    BY <1>1, <2>1
  <2>6. ScopesAdd(s, s2, n, d, kind)
    BY <2>2, <2>4, <2>5, ComptimeScopesAdd
  <2> QED
    BY <2>1, <2>2, <2>3, <2>6, AddExpander
<1> QED
  BY <1>2, <1>3

\* The inductive invariant of both passes: the books of the emitter, and those of
\* the expander.
Inv == IInv /\ Expander(open, decls, env, handles)

\* Every step keeps it.
LEMMA NextExpander ==
  Inv /\ [Next]_vars => Inv'
<1> SUFFICES ASSUME IInv, Expander(open, decls, env, handles), [Next]_vars, IInv'
             PROVE  Expander(open', decls', env', handles')
  BY NextInv DEF Inv
<1>1. CASE UNCHANGED vars
  BY <1>1 DEF vars
<1>2. CASE EnterBlock \/ EnterRepeat \/ EnterDo
  BY <1>2, EnterPlainExpander
<1>3. CASE ReachTest
  BY <1>3, ReachTestExpander
<1>4. CASE ReachResult
  BY <1>4, ReachResultExpander
<1>5. CASE Leave
  BY <1>5, LeaveExpander
<1>6. ASSUME NEW n \in Names, NEW m \in Names,
             \/ EnterLoop(n) \/ EnterMatch(n) \/ EnterComprehension(n)
             \/ EnterFunctionExpr(n) \/ EnterHandler(n) \/ EnterSpawnHandler(n)
             \/ EnterFunction(m, n) \/ EnterTaskFunction(m, n)
             \/ EnterMethod(m, n) \/ EnterConstructor(m, n) \/ EnterWatch(m, n)
      PROVE  Expander(open', decls', env', handles')
  BY <1>6, EnterAnyExpander
<1>7. ASSUME NEW n \in Names,
             \/ DeclareLocal(n) \/ DeclareConst(n) \/ DeclareState(n)
             \/ DeclareComptime(n) \/ DeclareComptimeFunction(n)
      PROVE  Expander(open', decls', env', handles')
  BY <1>7, DeclareExpander
<1> QED
  BY <1>1, <1>2, <1>3, <1>4, <1>5, <1>6, <1>7 DEF Next

\* It holds in every state the walk reaches.
LEMMA ExpanderInvariant ==
  Spec => []Inv
<1>1. Init => Inv
  BY InitInv, InitExpander DEF Inv
<1> QED
  BY <1>1, NextExpander, PTL DEF Spec

\* The declarations of a repeat loop at its test.
LEMMA PastIs ==
  ASSUME IInv, NEW d
  PROVE  EndReached(d, {"test"}) <=> Past(open, d)
<1>1. Len(open) \in Nat
  BY Types DEF IInv
<1>2. \A k \in 1..Len(open) : k # 0 /\ k + 1 # 0
  BY <1>1
<1> QED
  BY <1>2 DEF EndReached, Past, InLevel, Base

\* The declarations up to the last-th one that an expression may mean.
InReach(last) == {d \in 1..last : ~EndReached(d, {"test"})}

\* Those of a name and a kind.
OfKind(last, n, kind) == {d \in InReach(last) : decls[d].name = n /\ decls[d].kind = kind}

\* x is the newest declaration of S, if there is one.
IsNewestOf(x, S) == IF S = {} THEN x = Nothing ELSE x # Nothing /\ x = Max(S)

\* The newest, as the specification counts it.
LEMMA NewestIsMax ==
  ASSUME IInv, NEW last \in Nat, last <= Len(decls), NEW n \in Names, NEW kind, NEW x,
         Newest(x, open, decls, last, n, kind)
  PROVE  IsNewestOf(x, OfKind(last, n, kind))
<1> DEFINE S == OfKind(last, n, kind)
<1>1. decls \in Seq(Decl) /\ Len(decls) \in Nat
  BY Types DEF IInv
<1>2. \A d \in 1..last : decls[d] = [name |-> n, kind |-> kind] <=> decls[d].name = n /\ decls[d].kind = kind
  <2>1. \A d \in 1..last : decls[d] \in Decl
    BY <1>1
  <2> QED
    BY <2>1 DEF Decl
<1>3. \A d : d \in S <=> d \in 1..last /\ decls[d] = [name |-> n, kind |-> kind] /\ ~Past(open, d)
  BY <1>2, PastIs DEF InReach, OfKind
<1> HIDE DEF S
<1>4. x # Nothing => x \in S
  BY <1>3 DEF Newest
<1>5. \A d \in S : d <= x
  BY <1>3 DEF Newest
<1>6. S \in SUBSET (0..last) /\ \A d \in S : d \in Nat /\ d # 0
  BY <1>3
<1>7. CASE S = {}
  BY <1>4, <1>7 DEF IsNewestOf, S
<1>8. CASE S # {}
  <2>1. Max(S) \in S /\ \A d \in S : d <= Max(S)
    BY <1>6, <1>8, MaxIs
  <2>2. PICK m \in Nat : m = Max(S) /\ m # 0
    BY <1>6, <2>1
  <2>3. x # Nothing
    <3>1. m <= x
      BY <1>5, <2>1, <2>2
    <3> QED
      BY <2>2, <3>1 DEF Nothing
  <2>4. x \in Nat /\ x <= m /\ m <= x
    BY <1>4, <1>5, <1>6, <2>1, <2>2, <2>3
  <2>5. x = Max(S)
    BY <2>2, <2>4
  <2>6. IsNewestOf(x, S)
    BY <1>8, <2>3, <2>5 DEF IsNewestOf
  <2> QED
    BY <2>6 DEF S
<1> QED
  BY <1>7, <1>8

\* Values before functions: what lookup_name gives is the nearest.
LEMMA NearestIs ==
  ASSUME IInv, NEW last \in Nat, last <= Len(decls), NEW n \in Names, NEW x, NEW y,
         Newest(x, open, decls, last, n, "comptime"),
         Newest(y, open, decls, last, n, "comptime function")
  PROVE  Nearest(InReach(last), n) = IF x # Nothing THEN x ELSE y
<1>1. IsNewestOf(x, OfKind(last, n, "comptime"))
  BY NewestIsMax
<1>2. IsNewestOf(y, OfKind(last, n, "comptime function"))
  BY NewestIsMax
<1>3. PICK S, T : S = OfKind(last, n, "comptime") /\ T = OfKind(last, n, "comptime function")
  OBVIOUS
<1>4. Nearest(InReach(last), n) = IF S # {} THEN Max(S) ELSE IF T # {} THEN Max(T) ELSE Nothing
  BY <1>3 DEF Nearest, OfKind
<1>5. IsNewestOf(x, S) /\ IsNewestOf(y, T)
  BY <1>1, <1>2, <1>3
<1> QED
  BY <1>4, <1>5 DEF IsNewestOf

\* The two look-ups of the code are look-ups in the tables.
LEMMA LookUpsAre ==
  ASSUME NEW s, NEW n
  PROVE  /\ lookup_value(s, n) = LookUp(Tables(s, "comptime"), n)
         /\ lookup_function(s, n) = LookUp(Tables(s, "comptime function"), n)
BY DEF lookup_value, lookup_function, Tables, Table

\* What the look-ups in the scopes of the walk give.
LEMMA EnvFinds ==
  ASSUME Inv, NEW n \in Names
  PROVE  /\ Newest(lookup_value(env, n), open, decls, Len(decls), n, "comptime")
         /\ Newest(lookup_function(env, n), open, decls, Len(decls), n, "comptime function")
<1>1. PICK op, ds, s : op = open /\ ds = decls /\ s = env
  OBVIOUS
<1>2. op \in Seq(Construct) /\ ds \in Seq(Decl) /\ Bases(op, Len(ds))
  BY <1>1, Types DEF IInv, Inv
<1>3. s \in Seq(CtScope)
  BY <1>1, ScopesOf DEF Inv
<1>4. PICK lev :
        /\ Levels(op, lev, Len(s))
        /\ EntriesKept(op, ds, s, lev, "comptime")
        /\ EntriesKept(op, ds, s, lev, "comptime function")
  BY <1>1 DEF Inv, Expander, EnvKept
<1>5. PICK count \in Nat : count = Len(ds) /\ Bases(op, count)
  BY <1>2
<1>6. ASSUME NEW kind, EntriesKept(op, ds, s, lev, kind)
      PROVE  Newest(LookUp(Tables(s, kind), n), op, ds, count, n, kind)
  BY <1>2, <1>3, <1>4, <1>5, <1>6, LookUpIsNewest
<1> QED
  BY <1>1, <1>4, <1>5, <1>6, LookUpsAre

\* The books of the walk give the nearest declaration.
LEMMA EnvSuffices ==
  Inv => ComptimeIsNearest
<1> SUFFICES ASSUME Inv, NEW n \in Names
             PROVE  lookup_name(env, n) = Nearest(InReach(Len(decls)), n)
  BY DEF ComptimeIsNearest, InReach
<1>1. PICK x, y : x = lookup_value(env, n) /\ y = lookup_function(env, n)
  OBVIOUS
<1>2. IInv /\ Len(decls) \in Nat /\ Len(decls) <= Len(decls)
  BY Types DEF Inv, IInv
<1>3. PICK last \in Nat : last = Len(decls)
  BY <1>2
<1>4. Newest(x, open, decls, last, n, "comptime") /\ Newest(y, open, decls, last, n, "comptime function")
  BY <1>1, <1>3, EnvFinds
<1>5. Nearest(InReach(last), n) = IF x # Nothing THEN x ELSE y
  BY <1>2, <1>3, <1>4, NearestIs
<1> QED
  BY <1>1, <1>3, <1>5 DEF lookup_name

(* A name of a compile-time expression is the nearest compile-time          *)
(* declaration in scope, whatever lies between.                             *)
THEOREM SafeComptimeIsNearest ==
  Spec => []ComptimeIsNearest
BY ExpanderInvariant, EnvSuffices, PTL

\* The books give the runtime locals that are known.
LEMMA RuntimeSuffices ==
  Inv => RuntimeLocalsAreKnown
<1> SUFFICES ASSUME Inv, NEW n \in Names
             PROVE  /\ is_runtime_name(env, n) => \E d \in 1..Len(decls) : Runtime(decls[d], n)
                    /\ (\E d \in 1..Len(decls) : Runtime(decls[d], n) /\ ~EndReached(d, {"test"}) /\ ~Pending(open, d, n))
                         => is_runtime_name(env, n)
  BY DEF RuntimeLocalsAreKnown, Runtime, Pending
<1>1. PICK lev : RuntimeKept(open, decls, env, lev)
  BY DEF Inv, Expander, EnvKept
<1>2. ASSUME is_runtime_name(env, n) PROVE \E d \in 1..Len(decls) : Runtime(decls[d], n)
  BY <1>1, <1>2 DEF is_runtime_name, RuntimeKept
<1>3. ASSUME NEW d \in 1..Len(decls), Runtime(decls[d], n), ~EndReached(d, {"test"}), ~Pending(open, d, n)
      PROVE  is_runtime_name(env, n)
  <2>1. ~Past(open, d)
    BY <1>3, PastIs DEF Inv
  <2>2. PICK j \in 1..Len(env) : n \in env[j].runtime_names
    BY <1>1, <1>3, <2>1 DEF RuntimeKept
  <2> QED
    BY <2>2 DEF is_runtime_name
<1> QED
  BY <1>2, <1>3

(* The expander knows every runtime local in scope, but for those of a      *)
(* repeat loop in its test and those of a construct it has not left; and a  *)
(* name it takes for a runtime local is one that is declared.               *)
THEOREM SafeRuntimeLocalsAreKnown ==
  Spec => []RuntimeLocalsAreKnown
BY ExpanderInvariant, RuntimeSuffices, PTL

\* A scope more: what it has is found first.
Pushed(t, u, q) ==
  /\ t \in Seq(StateScope) /\ q \in Seq(StateScope)
  /\ Len(q) = Len(t) + 1 /\ q[Len(q)] = u /\ \A j \in 1..Len(t) : q[j] = t[j]

\* Then the new scope decides, if it has the name.
LEMMA LookUpPushed ==
  ASSUME NEW t, NEW u, NEW q, Pushed(t, u, q), NEW n \in Names
  PROVE  LookUp(q, n) = IF u[n] # Nothing THEN u[n] ELSE LookUp(t, n)
<1>1. t \in Seq(StateScope) /\ q \in Seq(StateScope) /\ Len(t) \in Nat
  BY DEF Pushed
<1>2. PICK last : last = Len(q)
  OBVIOUS
<1>3. /\ last \in 1..Len(q) /\ q[last] = u /\ last \notin 1..Len(t)
      /\ \A j \in 1..Len(q) : (j \in 1..Len(t) /\ q[j] = t[j]) \/ j = last
      /\ \A j \in 1..Len(t) : j \in 1..Len(q) /\ j < last
  BY <1>1, <1>2 DEF Pushed
<1>4. CASE u[n] # Nothing
  <2>1. PICK i \in 1..Len(q) :
          LookUp(q, n) = q[i][n] /\ \A j \in 1..Len(q) : q[j][n] # Nothing => j <= i
    BY <1>1, <1>3, <1>4, LookUpIs
  <2>2. last <= i
    BY <1>3, <1>4, <2>1
  <2>3. i = last
    BY <1>3, <2>2
  <2> QED
    BY <1>3, <1>4, <2>1, <2>3
<1>5. CASE u[n] = Nothing
  <2>1. CASE \E i \in 1..Len(t) : t[i][n] # Nothing
    <3>1. PICK i \in 1..Len(t) :
            /\ LookUp(t, n) = t[i][n] /\ t[i][n] # Nothing
            /\ \A j \in 1..Len(t) : t[j][n] # Nothing => j <= i
      BY <1>1, <2>1, LookUpIs
    <3>2. \E j \in 1..Len(q) : q[j][n] # Nothing
      BY <1>3, <3>1 DEF Pushed
    <3>3. PICK k \in 1..Len(q) :
            /\ LookUp(q, n) = q[k][n] /\ q[k][n] # Nothing
            /\ \A j \in 1..Len(q) : q[j][n] # Nothing => j <= k
      BY <1>1, <3>2, LookUpIs
    <3>4. k \in 1..Len(t) /\ q[k] = t[k]
      BY <1>3, <1>5, <3>3
    <3>5. i <= k /\ k <= i
      BY <1>3, <3>1, <3>3, <3>4 DEF Pushed
    <3>6. i = k
      BY <3>4, <3>5
    <3> QED
      BY <1>5, <3>1, <3>3, <3>4, <3>6
  <2>2. CASE ~\E i \in 1..Len(t) : t[i][n] # Nothing
    <3>1. ~\E i \in 1..Len(q) : q[i][n] # Nothing
      BY <1>3, <1>5, <2>2
    <3> QED
      BY <1>5, <2>2, <3>1 DEF LookUp
  <2> QED
    BY <2>1, <2>2
<1> QED
  BY <1>4, <1>5

\* The table of the scope that a call of d adds: d by its own name.
Itself(u, n, d, kind) ==
  \A m \in Names : u[m] = IF m = n /\ kind = "comptime function" THEN d ELSE Nothing

\* The scope that a call of d adds.
TopOf(top, n, d) == top = [EmptyScope EXCEPT !.functions[n] = d]

\* It maps the name of d to d, among the functions, and nothing else.
LEMMA TopIs ==
  ASSUME NEW n \in Names, NEW d \in 0..MaxDecls, NEW top, TopOf(top, n, d)
  PROVE  top \in CtScope /\ \A kind \in CtKinds : Itself(Table(top, kind), n, d, kind)
<1>1. Nothing \in 0..MaxDecls
  BY BoundsAssumption DEF Nothing
<1>2. /\ top.values = [m \in Names |-> Nothing] /\ top.runtime_names = {}
      /\ top.functions = [m \in Names |-> IF m = n THEN d ELSE Nothing]
  BY DEF EmptyScope, TopOf
<1>3. top \in CtScope
  <2>1. top = [values |-> top.values, functions |-> top.functions, runtime_names |-> top.runtime_names]
    BY DEF EmptyScope, TopOf
  <2> QED
    BY <1>1, <1>2, <2>1 DEF CtScope
<1>4. Itself(top.values, n, d, "comptime")
  BY <1>2 DEF Itself
<1>5. Itself(top.functions, n, d, "comptime function")
  BY <1>2 DEF Itself
<1> QED
  BY <1>3, <1>4, <1>5 DEF Table, CtKinds

\* The scopes of a call have one more table than those of the definition.
LEMMA TablesPushed ==
  ASSUME NEW s \in Seq(CtScope), NEW top \in CtScope, NEW kind
  PROVE  Pushed(Tables(s, kind), Table(top, kind), Tables(Append(s, top), kind))
<1>1. PICK s2 : s2 = Append(s, top)
  OBVIOUS
<1>2. PICK count \in Nat : count = Len(s)
  OBVIOUS
<1>3. /\ s2 \in Seq(CtScope) /\ Len(s2) = count + 1 /\ s2[count + 1] = top
      /\ \A j \in 1..count : s2[j] = s[j]
  BY <1>1, <1>2
<1>4. PICK t, q : t = Tables(s, kind) /\ q = Tables(s2, kind)
  OBVIOUS
<1>5. t \in Seq(StateScope) /\ Len(t) = count /\ \A j \in 1..count : t[j] = Table(s[j], kind)
  BY <1>2, <1>4, TablesAre
<1>6. q \in Seq(StateScope) /\ Len(q) = count + 1 /\ \A j \in 1..(count + 1) : q[j] = Table(s2[j], kind)
  BY <1>3, <1>4, TablesAre
<1>7. /\ Len(q) = Len(t) + 1 /\ q[Len(q)] = Table(top, kind)
      /\ \A j \in 1..Len(t) : q[j] = t[j]
  BY <1>3, <1>5, <1>6
<1>8. Pushed(t, Table(top, kind), q)
  BY <1>5, <1>6, <1>7 DEF Pushed
<1> QED
  BY <1>1, <1>4, <1>8

\* The comptime function d is what its name means.
Meant(d) == decls[d].kind = "comptime function" /\ lookup_name(env, decls[d].name) = d

\* d is in scope, a comptime function of the name n.
InScope(op, ds, d, n) == ds[d] = [name |-> n, kind |-> "comptime function"] /\ ~Past(op, d)

\* What a look-up finds is the place of a declaration.
LEMMA FoundInBounds ==
  ASSUME NEW s \in Seq(CtScope), NEW kind, NEW n \in Names, NEW y, y = LookUp(Tables(s, kind), n), y # Nothing
  PROVE  y \in 0..MaxDecls
<1>1. PICK t : t = Tables(s, kind)
  OBVIOUS
<1>2. t \in Seq(StateScope)
  BY <1>1, TablesAre
<1>3. \A j \in 1..Len(t) : t[j] \in StateScope
  BY <1>2
<1>4. PICK i \in 1..Len(t) : LookUp(t, n) = t[i][n]
  BY <1>1, <1>2, LookUpIs
<1>5. t[i][n] \in 0..MaxDecls
  BY <1>3 DEF StateScope
<1> QED
  BY <1>1, <1>4, <1>5

\* The fields of a declaration.
LEMMA FieldsOf ==
  ASSUME NEW r, NEW n, NEW kind
  PROVE  r = [name |-> n, kind |-> kind] => r.name = n /\ r.kind = kind
OBVIOUS

\* A comptime function that its name means is in scope: no value hides it.
LEMMA FoundInScope ==
  ASSUME NEW op, NEW ds, NEW d \in Nat, d # 0, NEW n, NEW x, NEW y, NEW count,
         ds[d].kind = "comptime function",
         Newest(x, op, ds, count, n, "comptime"), Newest(y, op, ds, count, n, "comptime function"),
         d = IF x # Nothing THEN x ELSE y
  PROVE  InScope(op, ds, d, n) /\ y = d /\ y # Nothing
<1>1. x = Nothing
  <2> SUFFICES ASSUME x # Nothing PROVE FALSE
    OBVIOUS
  <2>1. x = d /\ ds[x] = [name |-> n, kind |-> "comptime"]
    BY DEF Newest
  <2>2. ds[d].kind = "comptime"
    BY <2>1, FieldsOf
  <2> QED
    BY <2>2
<1>2. y = d /\ y # Nothing
  BY <1>1 DEF Nothing
<1> QED
  BY <1>2 DEF Newest, InScope

\* A comptime function that is meant was declared and kept its scopes.
LEMMA MeantIsInScope ==
  ASSUME Inv, NEW d \in 1..Len(decls), Meant(d)
  PROVE  /\ decls[d].name \in Names /\ d \in 0..MaxDecls /\ d \in Nat /\ d # 0 /\ d <= Len(decls)
         /\ handles[d] \in Seq(CtScope)
         /\ InScope(open, decls, d, decls[d].name)
<1>1. PICK ds, s, hs, count : ds = decls /\ s = env /\ hs = handles /\ count = Len(decls)
  OBVIOUS
<1>2. ds \in Seq(Decl) /\ s \in Seq(CtScope) /\ hs \in Seq(Seq(CtScope)) /\ Len(hs) = Len(ds) /\ count = Len(ds)
  BY <1>1, Types DEF Inv, IInv
<1>3. d \in 1..Len(ds)
  BY <1>1
<1>4. d \in Nat /\ d # 0 /\ d <= count
  BY <1>2, <1>3
<1>5. ds[d] \in Decl /\ hs[d] \in Seq(CtScope)
  BY <1>2, <1>3
<1>6. PICK n \in Names : n = ds[d].name
  BY <1>5 DEF Decl
<1>7. PICK x, y : x = lookup_value(env, n) /\ y = lookup_function(env, n)
  OBVIOUS
<1>8. Newest(x, open, ds, count, n, "comptime") /\ Newest(y, open, ds, count, n, "comptime function")
  BY <1>1, <1>7, EnvFinds
<1>9. ds[d].kind = "comptime function" /\ lookup_name(env, n) = d
  BY <1>1, <1>6 DEF Meant
<1>10. d = IF x # Nothing THEN x ELSE y
  BY <1>7, <1>9 DEF lookup_name
<1>11. InScope(open, ds, d, n) /\ y = d /\ y # Nothing
  BY <1>4, <1>8, <1>9, <1>10, FoundInScope
<1>12. y = LookUp(Tables(s, "comptime function"), n)
  BY <1>1, <1>7, LookUpsAre
<1>13. y \in 0..MaxDecls
  BY <1>2, <1>11, <1>12, FoundInBounds
<1>14. y = d
  BY <1>11
<1> QED
  BY <1>1, <1>4, <1>5, <1>6, <1>11, <1>13, <1>14

\* The newest up to d, which is newer than all before it.
LEMMA NewestUpTo ==
  ASSUME NEW op, NEW ds, NEW d \in Nat, d # 0, NEW f, InScope(op, ds, d, f),
         NEW n, NEW kind, NEW x, Newest(x, op, ds, d - 1, n, kind)
  PROVE  /\ n = f /\ kind = "comptime function" => Newest(d, op, ds, d, n, kind)
         /\ ~(n = f /\ kind = "comptime function") => Newest(x, op, ds, d, n, kind)
<1>1. d \in 1..d /\ (\A e \in 1..d : e <= d /\ (e = d \/ e \in 1..(d - 1))) /\ \A e \in 1..(d - 1) : e \in 1..d
  OBVIOUS
<1>2. ds[d].name = f /\ ds[d].kind = "comptime function" /\ ~Past(op, d)
  BY FieldsOf DEF InScope
<1>3. ASSUME n = f, kind = "comptime function" PROVE Newest(d, op, ds, d, n, kind)
  BY <1>1, <1>3 DEF InScope, Newest
<1>4. ASSUME ~(n = f /\ kind = "comptime function") PROVE Newest(x, op, ds, d, n, kind)
  <2>1. ds[d] # [name |-> n, kind |-> kind]
    BY <1>2, <1>4, FieldsOf
  <2> QED
    BY <1>1, <2>1 DEF Newest
<1> QED
  BY <1>3, <1>4

\* What a look-up in the scopes of a call gives, if the definition has s.
LEMMA CallFinds ==
  ASSUME NEW op, NEW ds, NEW s \in Seq(CtScope), NEW d \in Nat, d # 0, d \in 0..MaxDecls,
         NEW f \in Names, InScope(op, ds, d, f), NEW top, TopOf(top, f, d),
         NEW n \in Names, NEW kind \in CtKinds,
         Newest(LookUp(Tables(s, kind), n), op, ds, d - 1, n, kind)
  PROVE  Newest(LookUp(Tables(Append(s, top), kind), n), op, ds, d, n, kind)
<1>1. top \in CtScope /\ Itself(Table(top, kind), f, d, kind)
  BY TopIs
<1>2. PICK t, u, q : t = Tables(s, kind) /\ u = Table(top, kind) /\ q = Tables(Append(s, top), kind)
  OBVIOUS
<1>3. Pushed(t, u, q)
  BY <1>1, <1>2, TablesPushed
<1>4. PICK x, y : x = LookUp(t, n) /\ y = LookUp(q, n)
  OBVIOUS
<1>5. y = IF u[n] # Nothing THEN u[n] ELSE x
  BY <1>3, <1>4, LookUpPushed
<1>6. u[n] = IF n = f /\ kind = "comptime function" THEN d ELSE Nothing
  BY <1>1, <1>2 DEF Itself
<1>7. y = IF n = f /\ kind = "comptime function" THEN d ELSE x
  BY <1>5, <1>6 DEF Nothing
<1>8. Newest(x, op, ds, d - 1, n, kind)
  BY <1>2, <1>4
<1>9. Newest(y, op, ds, d, n, kind)
  BY <1>7, <1>8, NewestUpTo
<1> QED
  BY <1>2, <1>4, <1>9

\* The books give what a call sees.
LEMMA CallSuffices ==
  Inv => CallsSeeDefinition
<1> SUFFICES ASSUME Inv, NEW d \in 1..Len(decls), Meant(d), NEW n \in Names
             PROVE  lookup_name(call_function(d), n) = Nearest(InReach(d), n)
  BY DEF CallsSeeDefinition, InReach, Meant
<1>1. PICK ds, s, f : ds = decls /\ s = handles[d] /\ f = decls[d].name
  OBVIOUS
<1>2. /\ f \in Names /\ d \in 0..MaxDecls /\ d \in Nat /\ d # 0 /\ d <= Len(decls)
      /\ s \in Seq(CtScope) /\ InScope(open, ds, d, f)
  BY <1>1, MeantIsInScope
<1>3. PICK top : TopOf(top, f, d)
  BY DEF TopOf
<1>4. PICK call : call = call_function(d)
  OBVIOUS
<1>5. call = Append(s, top)
  BY <1>1, <1>3, <1>4 DEF call_function, TopOf
<1>6. ASSUME NEW kind \in CtKinds
      PROVE  Newest(LookUp(Tables(call, kind), n), open, ds, d, n, kind)
  <2>1. HandlesKept(open, decls, handles)
    BY DEF Inv, Expander
  <2>2. decls[d].kind = "comptime function" /\ ~Past(open, d)
    BY <1>1, <1>2 DEF Meant, InScope
  <2>3. Newest(LookUp(Tables(s, kind), n), open, ds, d - 1, n, kind)
    BY <1>1, <2>1, <2>2 DEF HandlesKept
  <2> QED
    BY <1>2, <1>3, <1>5, <2>3, CallFinds
<1>7. PICK x, y : x = lookup_value(call, n) /\ y = lookup_function(call, n)
  OBVIOUS
<1>8. "comptime" \in CtKinds /\ "comptime function" \in CtKinds
  BY DEF CtKinds
<1>9. Newest(x, open, ds, d, n, "comptime") /\ Newest(y, open, ds, d, n, "comptime function")
  BY <1>6, <1>7, <1>8, LookUpsAre
<1>10. Nearest(InReach(d), n) = IF x # Nothing THEN x ELSE y
  BY <1>1, <1>2, <1>9, NearestIs DEF Inv
<1> QED
  BY <1>4, <1>7, <1>10 DEF lookup_name

(* A comptime function that is called sees the names as they were where it  *)
(* was declared, and itself, whatever is declared after it.                 *)
THEOREM SafeCallsSeeDefinition ==
  Spec => []CallsSeeDefinition
BY ExpanderInvariant, CallSuffices, PTL

-----------------------------------------------------------------------------
(* ComptimeWalk: the scopes of compile-time code that runs.  What these     *)
(* scopes hold is no more than a value here: only sequences of scopes and   *)
(* the names in each are reasoned about.                                    *)

\* A sequence, of whatever it holds.
IsList(s) == s \in Seq({s[i] : i \in DOMAIN s})

\* Every sequence is a list.
LEMMA ListOf == ASSUME NEW S, NEW s \in Seq(S) PROVE IsList(s)
BY DEF IsList

\* A function on 1..m is a sequence of m.
LEMMA ListOfFunction ==
  ASSUME NEW m \in Nat, NEW s, DOMAIN s = 1..m, s = [i \in DOMAIN s |-> s[i]]
  PROVE  IsList(s) /\ Len(s) = m
<1>1. s \in [1..m -> {s[i] : i \in DOMAIN s}]
  OBVIOUS
<1> QED
  BY <1>1 DEF IsList

LEMMA ListDomain == ASSUME NEW s, IsList(s) PROVE DOMAIN s = 1..Len(s) /\ Len(s) \in Nat
BY DEF IsList

\* One element more, one less, one replaced.
LEMMA ListAppend ==
  ASSUME NEW s, NEW e, IsList(s)
  PROVE  /\ IsList(Append(s, e)) /\ Len(Append(s, e)) = Len(s) + 1
         /\ Append(s, e)[Len(s) + 1] = e
         /\ \A i \in 1..Len(s) : Append(s, e)[i] = s[i]
<1> DEFINE S == {s[i] : i \in DOMAIN s} \union {e}
<1>1. s \in Seq(S)
  BY DEF IsList
<1>2. e \in S
  OBVIOUS
<1> HIDE DEF S
<1>3. Append(s, e) \in Seq(S)
  BY <1>1, <1>2
<1>4. IsList(Append(s, e))
  BY <1>3, ListOf
<1> QED
  BY <1>1, <1>2, <1>4, AppendProperties

LEMMA ListFront ==
  ASSUME NEW s, IsList(s), s # <<>>
  PROVE  /\ IsList(Front(s)) /\ Len(Front(s)) = Len(s) - 1
         /\ \A i \in 1..Len(s) - 1 : Front(s)[i] = s[i]
<1> DEFINE S == {s[i] : i \in DOMAIN s}
           m == Len(s) - 1
<1>1. s \in Seq(S) /\ Len(s) \in Nat /\ Len(s) # 0
  BY EmptySeq DEF IsList
<1> HIDE DEF S
<1>2. m \in Nat /\ Len(s) = m + 1 /\ 1 \in 1..Len(s) + 1 /\ m \in (1 - 1)..Len(s)
  BY <1>1
<1>3. SubSeq(s, 1, m) \in Seq(S) /\ Len(SubSeq(s, 1, m)) = m
      /\ \A i \in 1..m : SubSeq(s, 1, m)[i] = s[i]
  BY <1>1, <1>2
<1>4. Front(s) = SubSeq(s, 1, m)
  BY DEF Front
<1> HIDE DEF m
<1>5. IsList(SubSeq(s, 1, m))
  BY <1>3, ListOf
<1> QED
  BY <1>2, <1>3, <1>4, <1>5 DEF m

\* A sequence with another k-th element.
Put(s, k, e) == [s EXCEPT ![k] = e]

LEMMA ListReplaced ==
  ASSUME NEW s, NEW e, NEW k, IsList(s), k \in 1..Len(s)
  PROVE  /\ IsList(Put(s, k, e)) /\ Len(Put(s, k, e)) = Len(s)
         /\ Put(s, k, e)[k] = e
         /\ \A i \in 1..Len(s) : i # k => Put(s, k, e)[i] = s[i]
<1> DEFINE S == {s[i] : i \in DOMAIN s} \union {e}
<1>1. s \in Seq(S)
  BY DEF IsList
<1>2. e \in S
  OBVIOUS
<1> HIDE DEF S
<1>3. [s EXCEPT ![k] = e] \in Seq(S) /\ Len([s EXCEPT ![k] = e]) = Len(s)
  BY <1>1, <1>2, ExceptSeq
<1>4. IsList([s EXCEPT ![k] = e])
  BY <1>3, ListOf
<1> QED
  BY <1>1, <1>3, <1>4 DEF Put

-----------------------------------------------------------------------------
\* Scopes of the evaluator and of Luau, with the same names in each.
SameNames(scope, map) ==
  DOMAIN scope.values = DOMAIN map /\ scope.const_names \subseteq DOMAIN scope.values

Match(es, ls) ==
  /\ IsList(es) /\ IsList(ls) /\ Len(ls) = Len(es)
  /\ \A j \in 1..Len(es) : SameNames(es[j], ls[j])

\* k scopes that begin with those of a function's handle c.
FitsWith(es, ls, c, k) ==
  /\ Match(es, ls)
  /\ Len(es) = k /\ Len(c.env) \in 0..k
  /\ \A j \in 1..Len(c.env) : es[j] = c.env[j] /\ ls[j] = c.locals[j]

\* All that a stack of scopes holds is const.
AllConst(es) == \A j \in 1..Len(es) : es[j].const_names = DOMAIN es[j].values

\* A map has its own names, and those put into it.
LEMMA UpdatedDomain ==
  ASSUME NEW map, NEW values
  PROVE  DOMAIN Updated(map, values) = DOMAIN map \union DOMAIN values
BY DEF Updated

\* A scope of both worlds replaced by scopes with the same names.
LEMMA ReplacedMatch ==
  ASSUME NEW es, NEW ls, NEW k, NEW scope, NEW map,
         Match(es, ls), k \in 1..Len(es), SameNames(scope, map)
  PROVE  Match(Put(es, k, scope), Put(ls, k, map))
<1> DEFINE es2 == Put(es, k, scope)
           ls2 == Put(ls, k, map)
<1>1. IsList(es) /\ IsList(ls) /\ Len(ls) = Len(es) /\ k \in 1..Len(ls)
  BY DEF Match
<1>2. /\ IsList(es2) /\ Len(es2) = Len(es) /\ es2[k] = scope
      /\ \A i \in 1..Len(es) : i # k => es2[i] = es[i]
  BY <1>1, ListReplaced
<1>3. /\ IsList(ls2) /\ Len(ls2) = Len(ls) /\ ls2[k] = map
      /\ \A i \in 1..Len(ls) : i # k => ls2[i] = ls[i]
  BY <1>1, ListReplaced
<1> HIDE DEF es2, ls2
<1>4. ASSUME NEW j \in 1..Len(es2) PROVE SameNames(es2[j], ls2[j])
  <2>1. CASE j = k
    BY <2>1, <1>2, <1>3
  <2>2. CASE j # k
    BY <2>2, <1>1, <1>2, <1>3 DEF Match
  <2> QED
    BY <2>1, <2>2
<1>5. Match(es2, ls2)
  BY <1>1, <1>2, <1>3, <1>4 DEF Match
<1> QED
  BY <1>5 DEF es2, ls2

\* The same names put into both.
LEMMA InsertedNames ==
  ASSUME NEW scope, NEW map, NEW vs, NEW ws, NEW b, SameNames(scope, map), DOMAIN vs = DOMAIN ws
  PROVE  SameNames(Inserted(scope, vs, b), Updated(map, ws))
<1>1. Inserted(scope, vs, b).values = Updated(scope.values, vs)
  BY DEF Inserted
<1>2. Inserted(scope, vs, b).const_names =
        IF b THEN scope.const_names \union DOMAIN vs ELSE scope.const_names
  BY DEF Inserted
<1>3. DOMAIN scope.values = DOMAIN map
  BY DEF SameNames
<1>6. DOMAIN Updated(scope.values, vs) = DOMAIN scope.values \union DOMAIN vs
  BY UpdatedDomain
<1>7. DOMAIN Updated(map, ws) = DOMAIN map \union DOMAIN ws
  BY UpdatedDomain
<1>4. scope.const_names \subseteq DOMAIN map
  BY DEF SameNames
<1> HIDE DEF Inserted
<1>5. Inserted(scope, vs, b).const_names \subseteq DOMAIN map \union DOMAIN ws
  BY <1>2, <1>4
<1> QED
  BY <1>1, <1>3, <1>5, <1>6, <1>7 DEF SameNames

\* Locals are declared after what was captured.
LEMMA DefineFits ==
  ASSUME NEW es, NEW ls, NEW c, NEW k \in Nat, NEW vs, NEW ws, NEW b,
         FitsWith(es, ls, c, k), Len(c.env) < k, DOMAIN vs = DOMAIN ws
  PROVE  FitsWith(DefineValues(es, vs, b), Declared(ls, ws), c, k)
<1> DEFINE scope == Inserted(es[k], vs, b)
           map == Updated(ls[k], ws)
<1>1. /\ Match(es, ls) /\ IsList(es) /\ IsList(ls) /\ Len(es) = k /\ Len(ls) = k
      /\ k \in 1..Len(es) /\ Len(c.env) \in 0..k
  BY DEF FitsWith, Match
<1>2. SameNames(es[k], ls[k])
  BY <1>1 DEF Match
<1>3. SameNames(scope, map)
  BY <1>2, InsertedNames
<1>4. DefineValues(es, vs, b) = Put(es, k, scope) /\ Declared(ls, ws) = Put(ls, k, map)
  BY <1>1 DEF DefineValues, Declared, Put
<1> HIDE DEF scope, map
<1>5. Match(Put(es, k, scope), Put(ls, k, map))
  BY <1>1, <1>3, ReplacedMatch
<1>6. Len(Put(es, k, scope)) = k /\ \A i \in 1..k : i # k => Put(es, k, scope)[i] = es[i]
  BY <1>1, ListReplaced
<1>9. \A i \in 1..k : i # k => Put(ls, k, map)[i] = ls[i]
  BY <1>1, ListReplaced
<1>7. \A j \in 1..Len(c.env) : j \in 1..k /\ j # k /\ es[j] = c.env[j] /\ ls[j] = c.locals[j]
  BY <1>1 DEF FitsWith
<1>8. FitsWith(Put(es, k, scope), Put(ls, k, map), c, k)
  BY <1>1, <1>5, <1>6, <1>7, <1>9 DEF FitsWith
<1> QED
  BY <1>4, <1>8

\* A scope more, and one less.
LEMMA PushScopeFits ==
  ASSUME NEW es, NEW ls, NEW c, NEW k \in Nat, FitsWith(es, ls, c, k)
  PROVE  FitsWith(PushScope(es), Append(ls, <<>>), c, k + 1)
<1> DEFINE es2 == PushScope(es)
           ls2 == Append(ls, <<>>)
<1>1. Match(es, ls) /\ IsList(es) /\ IsList(ls) /\ Len(es) = k /\ Len(ls) = k /\ Len(c.env) \in 0..k
  BY DEF FitsWith, Match
<1>2. IsList(es2) /\ Len(es2) = k + 1 /\ es2[k + 1] = EmptyCtScope /\ \A i \in 1..k : es2[i] = es[i]
  BY <1>1, ListAppend DEF PushScope
<1>3. IsList(ls2) /\ Len(ls2) = k + 1 /\ ls2[k + 1] = <<>> /\ \A i \in 1..k : ls2[i] = ls[i]
  BY <1>1, ListAppend
<1> HIDE DEF es2, ls2
<1>4. SameNames(EmptyCtScope, <<>>)
  BY DEF SameNames, EmptyCtScope
<1>5. ASSUME NEW j \in 1..k + 1 PROVE SameNames(es2[j], ls2[j])
  <2>1. CASE j = k + 1
    BY <2>1, <1>2, <1>3, <1>4
  <2>2. CASE j # k + 1
    <3>1. j \in 1..k /\ j \in 1..Len(es)
      BY <2>2, <1>1
    <3> QED
      BY <3>1, <1>1, <1>2, <1>3 DEF Match
  <2> QED
    BY <2>1, <2>2
<1>6. Match(es2, ls2)
  BY <1>2, <1>3, <1>5 DEF Match
<1>7. \A j \in 1..Len(c.env) : j \in 1..k /\ es[j] = c.env[j] /\ ls[j] = c.locals[j]
  BY <1>1 DEF FitsWith
<1>8. FitsWith(es2, ls2, c, k + 1)
  BY <1>1, <1>2, <1>3, <1>6, <1>7 DEF FitsWith
<1> QED
  BY <1>8 DEF es2, ls2

LEMMA PopFits ==
  ASSUME NEW es, NEW ls, NEW c, NEW k \in Nat, FitsWith(es, ls, c, k), Len(c.env) < k
  PROVE  FitsWith(Front(es), Front(ls), c, k - 1)
<1>1. IsList(es) /\ IsList(ls) /\ Len(es) = k /\ Len(ls) = k /\ Len(c.env) \in 0..k
  BY DEF FitsWith, Match
<1>2. es # <<>> /\ ls # <<>>
  BY <1>1
<1>3. IsList(Front(es)) /\ Len(Front(es)) = k - 1 /\ \A i \in 1..k - 1 : Front(es)[i] = es[i]
  BY <1>1, <1>2, ListFront
<1>4. IsList(Front(ls)) /\ Len(Front(ls)) = k - 1 /\ \A i \in 1..k - 1 : Front(ls)[i] = ls[i]
  BY <1>1, <1>2, ListFront
<1>5. Match(Front(es), Front(ls))
  BY <1>1, <1>3, <1>4 DEF FitsWith, Match
<1>6. ASSUME NEW j \in 1..Len(c.env)
      PROVE  Front(es)[j] = c.env[j] /\ Front(ls)[j] = c.locals[j]
  <2>1. j \in 1..k - 1
    BY <1>1
  <2>2. es[j] = c.env[j] /\ ls[j] = c.locals[j]
    BY DEF FitsWith
  <2> QED
    BY <2>1, <2>2, <1>3, <1>4
<1>7. Len(Front(es)) = k - 1 /\ Len(c.env) \in 0..k - 1
  BY <1>1, <1>3
<1> QED
  BY <1>5, <1>6, <1>7 DEF FitsWith

\* The scope of a name is one that has it, and no scope after it does.
LEMMA InnermostScope ==
  ASSUME NEW es, NEW name, IsList(es)
  PROVE  /\ Innermost(es, name) \in 0..Len(es)
         /\ Innermost(es, name) # 0 => name \in DOMAIN es[Innermost(es, name)].values
         /\ \A j \in 1..Len(es) : name \in DOMAIN es[j].values => j <= Innermost(es, name)
<1> DEFINE T == {i \in 1..Len(es) : name \in DOMAIN es[i].values}
           U == T \union {0}
<1>1. Len(es) \in Nat /\ U \in SUBSET (0..Len(es)) /\ U # {}
  BY ListDomain
<1>2. Max(U) \in U /\ \A x \in U : x <= Max(U)
  BY <1>1, MaxIs
<1>3. Innermost(es, name) = Max(U)
  BY DEF Innermost
<1> QED
  BY <1>1, <1>2, <1>3

\* The same of Luau's locals.
LEMMA ScopeOfLocal ==
  ASSUME NEW ls, NEW name, IsList(ls)
  PROVE  /\ LuauScope(ls, name) \in 0..Len(ls)
         /\ LuauScope(ls, name) # 0 => name \in DOMAIN ls[LuauScope(ls, name)]
<1> DEFINE T == {i \in 1..Len(ls) : name \in DOMAIN ls[i]}
           U == T \union {0}
<1>1. Len(ls) \in Nat /\ U \in SUBSET (0..Len(ls)) /\ U # {}
  BY ListDomain
<1>2. Max(U) \in U
  BY <1>1, MaxIs
<1>3. LuauScope(ls, name) = Max(U)
  BY DEF LuauScope
<1> QED
  BY <1>1, <1>2, <1>3

\* Assignments, of the evaluator and of Luau: the names stay as they are, and
\* so does every scope of which all names are const.
Begins(es, c) == IsList(es) /\ Len(c.env) \in 0..Len(es) /\ \A j \in 1..Len(c.env) : es[j] = c.env[j]

\* One name has another value, in a scope after those of c.
Changes(es, es2, c, n, i) ==
  /\ i \in 1..Len(es) /\ i > Len(c.env) /\ n \in DOMAIN es[i].values
  /\ \E v : es2 = Put(es, i, Inserted(es[i], Single(n, v), FALSE))

\* An assignment that is not refused changes a scope after those of c.
LEMMA AssignTargetChanges ==
  ASSUME NEW es, NEW c, NEW target, NEW value, Begins(es, c), AllConst(c.env),
         AssignTarget(es, target, value).ok
  PROVE  Changes(es, AssignTarget(es, target, value).env, c, target.name, Innermost(es, target.name))
<1> DEFINE path == [i \in DOMAIN target.path |->
                     [by |-> target.path[i].by, key |-> eval_expr(es, target.path[i].key)]]
           w == set_path_value(LookupName(es, target.name), path, value)
           n == target.name
           i == Innermost(es, n)
<1>1. AssignTarget(es, target, value) = AssignValue(es, n, w)
  BY DEF AssignTarget
<1> HIDE DEF w
<1>2. AssignValue(es, n, w).ok
  BY <1>1
<1>3. i # 0 /\ n \notin es[i].const_names /\ AssignValue(es, n, w) = AssignAnyway(es, n, w)
  BY <1>2 DEF AssignValue, AssignAnyway, Refused
<1>4. AssignAnyway(es, n, w).env = Put(es, i, Inserted(es[i], Single(n, w), FALSE))
  BY <1>2, <1>3 DEF AssignAnyway, Refused, Put
<1>0. IsList(es) /\ Len(es) \in Nat /\ Len(c.env) \in 0..Len(es)
  BY ListDomain DEF Begins
<1>5. i \in 1..Len(es) /\ n \in DOMAIN es[i].values
  BY <1>0, <1>3, InnermostScope
<1>6. ~(i \in 1..Len(c.env))
  BY <1>3, <1>5 DEF AllConst, Begins
<1>7. i > Len(c.env)
  BY <1>0, <1>5, <1>6
<1> HIDE DEF i, n
<1>8. Changes(es, Put(es, i, Inserted(es[i], Single(n, w), FALSE)), c, n, i)
  BY <1>5, <1>7 DEF Changes
<1> QED
  BY <1>1, <1>3, <1>4, <1>8 DEF n, i

\* The scopes keep their names when a local has another value.
LEMMA PutEnv ==
  ASSUME NEW es, NEW ls, NEW c, NEW k \in Nat, NEW i \in 1..k, NEW n, NEW v,
         FitsWith(es, ls, c, k), i > Len(c.env), n \in DOMAIN es[i].values
  PROVE  FitsWith(Put(es, i, Inserted(es[i], Single(n, v), FALSE)), ls, c, k)
<1> DEFINE scope == Inserted(es[i], Single(n, v), FALSE)
           es2 == Put(es, i, scope)
<1>1. Match(es, ls) /\ IsList(es) /\ IsList(ls) /\ Len(es) = k /\ Len(ls) = k /\ Len(c.env) \in 0..k
  BY DEF FitsWith, Match
<1>2. DOMAIN Single(n, v) = {n}
  BY DEF Single
<1>0. DOMAIN Updated(es[i].values, Single(n, v)) = DOMAIN es[i].values \union DOMAIN Single(n, v)
  BY UpdatedDomain
<1>3. DOMAIN Updated(es[i].values, Single(n, v)) = DOMAIN es[i].values
  BY <1>0, <1>2
<1>4. DOMAIN scope.values = DOMAIN es[i].values /\ scope.const_names = es[i].const_names
  BY <1>3 DEF Inserted
<1> HIDE DEF scope
<1>10. i \in 1..Len(es)
  BY <1>1
<1>5. IsList(es2) /\ Len(es2) = k /\ es2[i] = scope /\ \A j \in 1..k : j # i => es2[j] = es[j]
  BY <1>1, <1>10, ListReplaced
<1> HIDE DEF es2
<1>6. ASSUME NEW j \in 1..k PROVE SameNames(es2[j], ls[j])
  <2>1. SameNames(es[j], ls[j])
    BY <1>1 DEF Match
  <2>2. CASE j = i
    BY <2>1, <2>2, <1>4, <1>5 DEF SameNames
  <2>3. CASE j # i
    BY <2>1, <2>3, <1>5
  <2> QED
    BY <2>2, <2>3
<1>7. Match(es2, ls)
  BY <1>1, <1>5, <1>6 DEF Match
<1>8. \A j \in 1..Len(c.env) : j \in 1..k /\ j # i /\ es[j] = c.env[j] /\ ls[j] = c.locals[j]
  BY <1>1 DEF FitsWith
<1>9. FitsWith(es2, ls, c, k)
  BY <1>1, <1>5, <1>7, <1>8 DEF FitsWith
<1> QED
  BY <1>9 DEF es2, scope

\* The same of Luau's locals.
LEMMA PutLocals ==
  ASSUME NEW es, NEW ls, NEW c, NEW k \in Nat, NEW i \in 1..k, NEW n, NEW v,
         FitsWith(es, ls, c, k), i > Len(c.env), n \in DOMAIN ls[i]
  PROVE  FitsWith(es, Put(ls, i, Updated(ls[i], Single(n, v))), c, k)
<1> DEFINE map == Updated(ls[i], Single(n, v))
           ls2 == Put(ls, i, map)
<1>1. Match(es, ls) /\ IsList(es) /\ IsList(ls) /\ Len(es) = k /\ Len(ls) = k /\ Len(c.env) \in 0..k
  BY DEF FitsWith, Match
<1>2. DOMAIN Single(n, v) = {n}
  BY DEF Single
<1>0. DOMAIN map = DOMAIN ls[i] \union DOMAIN Single(n, v)
  BY UpdatedDomain
<1>3. DOMAIN map = DOMAIN ls[i]
  BY <1>0, <1>2
<1> HIDE DEF map
<1>10. i \in 1..Len(ls)
  BY <1>1
<1>5. IsList(ls2) /\ Len(ls2) = k /\ ls2[i] = map /\ \A j \in 1..k : j # i => ls2[j] = ls[j]
  BY <1>1, <1>10, ListReplaced
<1> HIDE DEF ls2
<1>6. ASSUME NEW j \in 1..k PROVE SameNames(es[j], ls2[j])
  <2>1. SameNames(es[j], ls[j])
    BY <1>1 DEF Match
  <2>2. CASE j = i
    BY <2>1, <2>2, <1>3, <1>5 DEF SameNames
  <2>3. CASE j # i
    BY <2>1, <2>3, <1>5
  <2> QED
    BY <2>2, <2>3
<1>7. Match(es, ls2)
  BY <1>1, <1>5, <1>6 DEF Match
<1>8. \A j \in 1..Len(c.env) : j \in 1..k /\ j # i /\ es[j] = c.env[j] /\ ls[j] = c.locals[j]
  BY <1>1 DEF FitsWith
<1>9. FitsWith(es, ls2, c, k)
  BY <1>1, <1>5, <1>7, <1>8 DEF FitsWith
<1> QED
  BY <1>9 DEF ls2, map

\* Both worlds mean the same scope by a name.
LEMMA SameScope ==
  ASSUME NEW es, NEW ls, NEW n, Match(es, ls)
  PROVE  LuauScope(ls, n) = Innermost(es, n)
<1>1. Len(ls) = Len(es) /\ \A j \in 1..Len(es) : DOMAIN es[j].values = DOMAIN ls[j]
  BY DEF Match, SameNames
<1>2. {j \in 1..Len(ls) : n \in DOMAIN ls[j]} = {j \in 1..Len(es) : n \in DOMAIN es[j].values}
  BY <1>1
<1> QED
  BY <1>2 DEF LuauScope, Innermost

\* So both assign after what was captured.
LEMMA AssignTargetFits ==
  ASSUME NEW es, NEW ls, NEW c, NEW k \in Nat, NEW target, NEW value,
         FitsWith(es, ls, c, k), AllConst(c.env), AssignTarget(es, target, value).ok
  PROVE  /\ FitsWith(AssignTarget(es, target, value).env, ls, c, k)
         /\ Len(c.env) < LuauScope(ls, target.name)
<1>1. Begins(es, c) /\ Len(es) = k /\ Match(es, ls) /\ Len(c.env) \in 0..k
  BY DEF FitsWith, Match, Begins
<1>2. PICK es2, i : es2 = AssignTarget(es, target, value).env /\ i = Innermost(es, target.name)
  OBVIOUS
<1>3. Changes(es, es2, c, target.name, i)
  BY <1>1, <1>2, AssignTargetChanges
<1>4. i \in 1..k /\ i > Len(c.env) /\ target.name \in DOMAIN es[i].values
  BY <1>1, <1>3 DEF Changes
<1>5. PICK v : es2 = Put(es, i, Inserted(es[i], Single(target.name, v), FALSE))
  BY <1>3 DEF Changes
<1>6. FitsWith(Put(es, i, Inserted(es[i], Single(target.name, v), FALSE)), ls, c, k)
  BY <1>4, PutEnv
<1>7. LuauScope(ls, target.name) = i
  BY <1>1, <1>2, SameScope
<1>8. Len(c.env) < i
  BY <1>1, <1>4
<1> QED
  BY <1>2, <1>5, <1>6, <1>7, <1>8

\* Luau assigns where the evaluator does.
LEMMA AssignedFits ==
  ASSUME NEW es, NEW ls, NEW c, NEW k \in Nat, NEW target, NEW value, NEW pending,
         FitsWith(es, ls, c, k), Len(c.env) < LuauScope(ls, target.name)
  PROVE  FitsWith(es, Assigned(ls, target, value, pending).locals, c, k)
<1> DEFINE n == target.name
           i == LuauScope(ls, n)
           new == luau_store(frames, ls[i][n], LuauPath(ls, target), value, pending)
           a == Assigned(ls, target, value, pending)
<1>1. IsList(ls) /\ Len(ls) = k
  BY DEF FitsWith, Match
<1>2. i \in 0..k /\ (i # 0 => n \in DOMAIN ls[i])
  BY <1>1, ScopeOfLocal
<1>7. Len(c.env) \in 0..k /\ Len(c.env) < i
  BY DEF FitsWith
<1>3. a = IF i = 0 THEN [stop |-> Raised, locals |-> ls]
          ELSE IF Stops(new) THEN [stop |-> new, locals |-> ls]
          ELSE [stop |-> Nil, locals |-> Put(ls, i, Updated(ls[i], Single(n, new)))]
  BY DEF Assigned, Put
<1> HIDE DEF i, new, a, n
<1>4. a.locals = ls \/ (i # 0 /\ a.locals = Put(ls, i, Updated(ls[i], Single(n, new))))
  BY <1>3
<1>5. CASE a.locals = ls
  BY <1>5 DEF a
<1>6. CASE i # 0 /\ a.locals = Put(ls, i, Updated(ls[i], Single(n, new)))
  <2>1. i \in 1..k /\ i > Len(c.env)
    BY <1>2, <1>6, <1>7
  <2>2. FitsWith(es, Put(ls, i, Updated(ls[i], Single(n, new))), c, k)
    BY <2>1, <1>2, <1>6, PutLocals
  <2> QED
    BY <2>2, <1>6 DEF a
<1> QED
  BY <1>4, <1>5, <1>6

\* A frame of a function that captured c.
FrameFits(f, c) ==
  IsList(f.open) /\ Len(c.env) \in Nat /\ FitsWith(f.env, f.locals, c, Len(c.env) + 1 + Len(f.open))

\* How many scopes a frame has, and a frame by its parts.
LEMMA FrameSize ==
  ASSUME NEW f, NEW c, FrameFits(f, c)
  PROVE  /\ IsList(f.open) /\ Len(c.env) \in Nat /\ Len(f.open) \in Nat
         /\ Len(c.env) + 1 + Len(f.open) \in Nat /\ Len(c.env) < Len(c.env) + 1 + Len(f.open)
         /\ FitsWith(f.env, f.locals, c, Len(c.env) + 1 + Len(f.open))
<1>1. IsList(f.open) /\ Len(c.env) \in Nat /\ FitsWith(f.env, f.locals, c, Len(c.env) + 1 + Len(f.open))
  BY DEF FrameFits
<1>2. Len(f.open) \in Nat
  BY <1>1, ListDomain
<1>3. \A m, n \in Nat : n + 1 + m \in Nat /\ n < n + 1 + m
  OBVIOUS
<1>4. Len(c.env) + 1 + Len(f.open) \in Nat /\ Len(c.env) < Len(c.env) + 1 + Len(f.open)
  BY <1>1, <1>2, <1>3
<1> QED
  BY <1>1, <1>2, <1>4, Zenon

LEMMA FrameIs ==
  ASSUME NEW e, NEW ls, NEW o, NEW into, NEW c, IsList(o), Len(c.env) \in Nat
  PROVE  FrameFits(Frame(e, ls, o, into), c) <=> FitsWith(e, ls, c, Len(c.env) + 1 + Len(o))
BY DEF FrameFits, Frame

\* What statements do to a frame: a declaration, the begin of a block, its
\* end, a round of a loop.
LEMMA UpdateFits ==
  ASSUME NEW f, NEW c, NEW vs, NEW ws, NEW b, NEW into, FrameFits(f, c), DOMAIN vs = DOMAIN ws
  PROVE  FrameFits(Frame(DefineValues(f.env, vs, b), Declared(f.locals, ws), f.open, into), c)
<1> DEFINE k == Len(c.env) + 1 + Len(f.open)
<1>1. /\ IsList(f.open) /\ Len(c.env) \in Nat /\ k \in Nat
      /\ FitsWith(f.env, f.locals, c, k) /\ Len(c.env) < k
  BY FrameSize
<1> HIDE DEF k
<1>2. FitsWith(DefineValues(f.env, vs, b), Declared(f.locals, ws), c, k)
  BY <1>1, DefineFits
<1> QED
  BY <1>1, <1>2, FrameIs DEF k

LEMMA BeginBlockFits ==
  ASSUME NEW f, NEW c, NEW block, NEW values, NEW luau, FrameFits(f, c)
  PROVE  FrameFits(BeginBlock(f, block, values, luau), c)
<1> DEFINE vs == RoundValues(block.names, values)
           ws == RoundValues(block.names, luau)
           o == Append(f.open, block)
           es == DefineValues(PushScope(f.env), vs, FALSE)
           ls == Declared(Append(f.locals, <<>>), ws)
<1>1. PICK k : k = Len(c.env) + 1 + Len(f.open)
  OBVIOUS
<1>2. /\ IsList(f.open) /\ Len(c.env) \in Nat /\ Len(f.open) \in Nat /\ k \in Nat
      /\ Len(c.env) < k /\ FitsWith(f.env, f.locals, c, k)
  BY <1>1, FrameSize, Zenon
<1>3. IsList(o) /\ Len(o) = Len(f.open) + 1
  BY <1>2, ListAppend
<1>4. DOMAIN vs = DOMAIN ws
  BY DEF RoundValues
<1> HIDE DEF vs, ws, o
<1>5. Len(c.env) + 1 + Len(o) = k + 1 /\ k + 1 \in Nat /\ Len(c.env) < k + 1
  <2>1. PICK a \in Nat, b \in Nat, d \in Nat : a = Len(c.env) /\ b = Len(f.open) /\ d = Len(o)
    BY <1>2, <1>3
  <2>2. d = b + 1 /\ k = a + 1 + b
    BY <2>1, <1>1, <1>3
  <2>3. a + 1 + d = k + 1 /\ k + 1 \in Nat /\ a < k + 1
    BY <2>2
  <2> QED
    BY <2>1, <2>3
<1>6. FitsWith(PushScope(f.env), Append(f.locals, <<>>), c, k + 1)
  BY <1>2, PushScopeFits
<1>7. FitsWith(es, ls, c, k + 1)
  BY <1>4, <1>5, <1>6, DefineFits
<1> HIDE DEF es, ls
<1>8. FrameFits(Frame(es, ls, o, f.into), c)
  BY <1>2, <1>3, <1>5, <1>7, FrameIs
<1> QED
  BY <1>8 DEF BeginBlock, es, ls, o, vs, ws

LEMMA LeaveBlockFits ==
  ASSUME NEW f, NEW c, FrameFits(f, c), f.open # <<>>
  PROVE  FrameFits(LeaveBlock(f), c)
<1> DEFINE k == Len(c.env) + 1 + Len(f.open)
           o == Front(f.open)
<1>1. /\ IsList(f.open) /\ Len(c.env) \in Nat /\ Len(f.open) \in Nat /\ k \in Nat
      /\ FitsWith(f.env, f.locals, c, k) /\ Len(c.env) < k
  BY FrameSize
<1>0. IsList(o) /\ Len(o) = Len(f.open) - 1
  BY <1>1, ListFront
<1>2. IsList(o) /\ Len(c.env) + 1 + Len(o) = k - 1
  BY <1>0, <1>1
<1> HIDE DEF k, o
<1>3. FitsWith(Front(f.env), Front(f.locals), c, k - 1)
  BY <1>1, PopFits
<1>4. FrameFits(Frame(Front(f.env), Front(f.locals), o, f.into), c)
  BY <1>1, <1>2, <1>3, FrameIs
<1> QED
  BY <1>4 DEF LeaveBlock, o

LEMMA RoundFits ==
  ASSUME NEW f, NEW c, NEW loop, FrameFits(f, c)
  PROVE  FrameFits(Round(f, loop), c)
BY BeginBlockFits DEF Round

\* What was captured has the same names in both worlds, and all are const.
HandleInv == Match(handle.env, handle.locals) /\ AllConst(handle.env)

\* The inductive invariant: every frame begins with what was captured, and
\* goes on with the scopes of its body and of its open blocks.  No assignment
\* reaches what was captured, as every name of it is const; and none reaches
\* it in Luau, where a name means the same scope.
WalkInv ==
  /\ steps \in 0..MaxSteps
  /\ ended \in {"running", "returned", "refused", "raised", "departed"}
  /\ ended = "running" => frames # <<>>
  /\ HandleInv
  /\ IsList(frames)
  /\ \A i \in 1..Len(frames) : FrameFits(frames[i], handle)

\* The frame of a call.
LEMMA CalledFits ==
  ASSUME HandleInv, NEW v, NEW l, NEW into
  PROVE  FrameFits(Called(v, l, into), handle)
<1> DEFINE c == handle
           k == Len(c.env)
           es == DefineValue(PushScope(c.env), "x", v, FALSE)
           ls == Declared(Append(c.locals, <<>>), Single("x", l))
<1>1. k \in Nat /\ FitsWith(c.env, c.locals, c, k) /\ k < k + 1 /\ k + 1 \in Nat
  BY ListDomain DEF HandleInv, Match, FitsWith
<1> HIDE DEF c, k
<1>2. FitsWith(PushScope(c.env), Append(c.locals, <<>>), c, k + 1)
  BY <1>1, PushScopeFits
<1>3. DOMAIN Single("x", v) = DOMAIN Single("x", l)
  BY DEF Single
<1>4. Len(c.env) < k + 1
  BY <1>1 DEF k
<1>5. FitsWith(es, ls, c, k + 1)
  BY <1>1, <1>2, <1>3, <1>4, DefineFits DEF DefineValue
<1> HIDE DEF es, ls
<1>6. IsList(<<>>) /\ Len(<<>>) = 0
  BY DEF IsList
<1>7. FrameFits(Frame(es, ls, <<>>, into), c)
  BY <1>1, <1>5, <1>6, FrameIs DEF k
<1> QED
  BY <1>7 DEF Called, es, ls, c

\* The innermost frame is there as long as the walk goes on.
LEMMA TopFits ==
  ASSUME WalkInv, Running
  PROVE  FrameFits(Top, handle) /\ Len(frames) \in Nat /\ Len(frames) \in 1..Len(frames)
<1>1. IsList(frames) /\ frames # <<>>
  BY DEF WalkInv, Running
<1>2. Len(frames) \in Nat /\ Len(frames) # 0
  BY <1>1 DEF IsList
<1> QED
  BY <1>2 DEF Top, Last, WalkInv

\* A step of the innermost frame, and the end of the walk.
LEMMA MoveKeeps ==
  ASSUME WalkInv, Running, NEW f, FrameFits(f, handle), Move(f)
  PROVE  WalkInv'
<1> DEFINE k == Len(frames)
<1>1. k \in Nat /\ k \in 1..k /\ IsList(frames)
  BY TopFits DEF WalkInv
<1>2. frames' = Put(frames, k, f) /\ handle' = handle /\ ended' = ended /\ steps' = steps + 1
  BY DEF Move, Put
<1>3. /\ IsList(frames') /\ Len(frames') = k /\ frames'[k] = f
      /\ \A i \in 1..k : i # k => frames'[i] = frames[i]
  BY <1>1, <1>2, ListReplaced
<1> HIDE DEF k
<1>4. \A i \in 1..Len(frames') : FrameFits(frames'[i], handle')
  BY <1>2, <1>3 DEF WalkInv, k
<1>5. steps' \in 0..MaxSteps
  BY <1>2, WalkBounds DEF WalkInv, Running
<1>6. HandleInv'
  BY <1>2 DEF WalkInv, HandleInv
<1>7. frames' # <<>>
  BY <1>1, <1>3
<1> QED
  BY <1>2, <1>3, <1>4, <1>5, <1>6, <1>7 DEF WalkInv

LEMMA EndsKeeps ==
  ASSUME WalkInv, NEW ok, NEW l, Ends(ok, l)
  PROVE  WalkInv'
<1>1. ended' \in {"refused", "raised", "departed"} /\ UNCHANGED <<frames, handle, steps>>
  BY DEF Ends
<1> QED
  BY <1>1 DEF WalkInv, HandleInv

\* A declaration in the innermost scope.
LEMMA UpdateKeeps ==
  ASSUME WalkInv, Running, NEW vs, NEW ws, NEW b, DOMAIN vs = DOMAIN ws,
         Update(DefineValues(Top.env, vs, b), Declared(Top.locals, ws))
  PROVE  WalkInv'
<1>1. FrameFits(Top, handle)
  BY TopFits
<1>2. FrameFits(Frame(DefineValues(Top.env, vs, b), Declared(Top.locals, ws), Top.open, Top.into),
                handle)
  BY <1>1, UpdateFits
<1> QED
  BY <1>2, MoveKeeps DEF Update

\* The two frames of an assignment.
Assigns(es, ls, es2, ls2) ==
  \A c : \A k \in Nat : AllConst(c.env) /\ FitsWith(es, ls, c, k) => FitsWith(es2, ls2, c, k)

\* Assignments, one or more in a row.
LEMMA AssignsKeeps ==
  ASSUME WalkInv, Running, NEW es, NEW ls, Assigns(Top.env, Top.locals, es, ls), Update(es, ls)
  PROVE  WalkInv'
<1>1. FrameFits(Top, handle) /\ AllConst(handle.env)
  BY TopFits DEF WalkInv, HandleInv
<1>2. PICK k : k = Len(handle.env) + 1 + Len(Top.open)
  OBVIOUS
<1>3. /\ k \in Nat /\ FitsWith(Top.env, Top.locals, handle, k)
      /\ IsList(Top.open) /\ Len(handle.env) \in Nat
  BY <1>1, <1>2, FrameSize, Zenon
<1>4. FitsWith(es, ls, handle, k)
  BY <1>1, <1>3 DEF Assigns
<1>5. FrameFits(Frame(es, ls, Top.open, Top.into), handle)
  BY <1>2, <1>3, <1>4, FrameIs
<1> QED
  BY <1>5, MoveKeeps DEF Update

LEMMA AssignIs ==
  ASSUME NEW es, NEW ls, NEW target, NEW v, NEW l, NEW pending, AssignTarget(es, target, v).ok
  PROVE  Assigns(es, ls, AssignTarget(es, target, v).env, Assigned(ls, target, l, pending).locals)
<1> SUFFICES ASSUME NEW c, NEW k \in Nat, AllConst(c.env), FitsWith(es, ls, c, k)
             PROVE  FitsWith(AssignTarget(es, target, v).env,
                             Assigned(ls, target, l, pending).locals, c, k)
  BY DEF Assigns
<1>1. FitsWith(AssignTarget(es, target, v).env, ls, c, k) /\ Len(c.env) < LuauScope(ls, target.name)
  BY AssignTargetFits
<1> QED
  BY <1>1, AssignedFits

\* The invariant is kept by every statement.
LEMMA LocalKeeps ==
  ASSUME WalkInv, NEW name, NEW e, NEW is_const, Local(name, e, is_const)
  PROVE  WalkInv'
<1>1. PICK v, l : v = eval_expr(Top.env, e) /\ l = luau_expr(Top.locals, e, Fresh)
  OBVIOUS
<1>2. Running
  BY DEF Local
<1>3. \/ Update(DefineValue(Top.env, name, v, is_const), Declared(Top.locals, Single(name, l)))
      \/ Ends(v # Error, l)
  BY <1>1 DEF Local
<1>4. DOMAIN Single(name, v) = DOMAIN Single(name, l)
  BY DEF Single
<1>5. CASE Update(DefineValue(Top.env, name, v, is_const), Declared(Top.locals, Single(name, l)))
  BY <1>2, <1>4, <1>5, UpdateKeeps DEF DefineValue
<1>6. CASE Ends(v # Error, l)
  BY <1>6, EndsKeeps
<1> QED
  BY <1>3, <1>5, <1>6

LEMMA DestructureKeeps ==
  ASSUME WalkInv, NEW pattern, NEW e, Destructure(pattern, e)
  PROVE  WalkInv'
<1>1. PICK v, l : v = eval_expr(Top.env, e) /\ l = luau_expr(Top.locals, e, Append(Fresh, 0))
  OBVIOUS
<1>2. PICK bound, luau : bound = bind_pattern(Top.env, pattern, v)
                         /\ luau = luau_pattern(Top.locals, pattern, l, Fresh)
  OBVIOUS
<1>3. PICK vs, ws : vs = [n \in PatternNames(pattern) |-> bound.values[n]]
                    /\ ws = [n \in PatternNames(pattern) |-> luau[n]]
  OBVIOUS
<1>4. Running
  BY DEF Destructure
<1>5. \/ Update(DefineValues(Top.env, vs, FALSE), Declared(Top.locals, ws))
      \/ Ends(v # Error /\ bound.ok, l)
  BY <1>1, <1>2, <1>3 DEF Destructure
<1>6. DOMAIN vs = DOMAIN ws
  BY <1>3
<1>7. CASE Update(DefineValues(Top.env, vs, FALSE), Declared(Top.locals, ws))
  BY <1>4, <1>6, <1>7, UpdateKeeps
<1>8. CASE Ends(v # Error /\ bound.ok, l)
  BY <1>8, EndsKeeps
<1> QED
  BY <1>5, <1>7, <1>8

LEMMA AssignKeeps ==
  ASSUME WalkInv, NEW target, NEW e, Assign(target, e)
  PROVE  WalkInv'
<1>1. PICK v, l : v = eval_expr(Top.env, e) /\ l = luau_expr(Top.locals, e, Fresh)
  OBVIOUS
<1>2. PICK a : a = IF v = Error THEN Refused ELSE AssignTarget(Top.env, target, v)
  OBVIOUS
<1>3. PICK luau : luau = Assigned(Top.locals, target, l, {})
  OBVIOUS
<1>4. PICK stop : stop = IF Stops(l) THEN l ELSE luau.stop
  OBVIOUS
<1>5. Running
  BY DEF Assign
<1>6. \/ Stays(a.ok, stop) /\ Update(a.env, luau.locals)
      \/ Ends(a.ok, stop)
  BY <1>1, <1>2, <1>3, <1>4 DEF Assign
<1>7. CASE Stays(a.ok, stop) /\ Update(a.env, luau.locals)
  <2>1. a.ok /\ a = AssignTarget(Top.env, target, v)
    BY <1>2, <1>7 DEF Stays, Refused
  <2>2. Assigns(Top.env, Top.locals, a.env, luau.locals)
    BY <2>1, <1>3, AssignIs
  <2> QED
    BY <2>2, <1>5, <1>7, AssignsKeeps
<1>8. CASE Ends(a.ok, stop)
  BY <1>8, EndsKeeps
<1> QED
  BY <1>6, <1>7, <1>8

LEMMA AssignTwoKeeps ==
  ASSUME WalkInv, NEW pair, AssignTwo(pair)
  PROVE  WalkInv'
<1>1. PICK v1, v2 : v1 = eval_expr(Top.env, pair.e1) /\ v2 = eval_expr(Top.env, pair.e2)
  OBVIOUS
<1>2. PICK l1, l2 : l1 = luau_expr(Top.locals, pair.e1, Append(Fresh, 1))
                    /\ l2 = luau_expr(Top.locals, pair.e2, Append(Fresh, 2))
  OBVIOUS
<1>3. PICK first : first = IF Error \in {v1, v2} THEN Refused ELSE AssignTarget(Top.env, pair.first, v1)
  OBVIOUS
<1>4. PICK second : second = IF first.ok THEN AssignTarget(first.env, pair.second, v2) ELSE Refused
  OBVIOUS
<1>5. PICK luau1 : luau1 = Assigned(Top.locals, pair.first, l1, {l2})
  OBVIOUS
<1>6. PICK luau2 : luau2 = Assigned(luau1.locals, pair.second, l2, {})
  OBVIOUS
<1>7. /\ Running
      /\ \E stop : (Stays(second.ok, stop) /\ Update(second.env, luau2.locals)) \/ Ends(second.ok, stop)
  BY <1>1, <1>2, <1>3, <1>4, <1>5, <1>6 DEF AssignTwo
<1>8. PICK stop : (Stays(second.ok, stop) /\ Update(second.env, luau2.locals)) \/ Ends(second.ok, stop)
  BY <1>7
<1>9. CASE Stays(second.ok, stop) /\ Update(second.env, luau2.locals)
  <2>1. second.ok /\ first.ok /\ second = AssignTarget(first.env, pair.second, v2)
    BY <1>4, <1>9 DEF Stays, Refused
  <2>2. first = AssignTarget(Top.env, pair.first, v1)
    BY <2>1, <1>3 DEF Refused
  <2>3. Assigns(Top.env, Top.locals, first.env, luau1.locals)
    BY <2>1, <2>2, <1>5, AssignIs
  <2>4. Assigns(first.env, luau1.locals, second.env, luau2.locals)
    BY <2>1, <1>6, AssignIs
  <2>5. Assigns(Top.env, Top.locals, second.env, luau2.locals)
    BY <2>3, <2>4 DEF Assigns
  <2> QED
    BY <2>5, <1>7, <1>9, AssignsKeeps
<1>10. CASE Ends(second.ok, stop)
  BY <1>10, EndsKeeps
<1> QED
  BY <1>8, <1>9, <1>10

LEMMA IfKeeps ==
  ASSUME WalkInv, NEW e, If(e)
  PROVE  WalkInv'
<1>1. PICK v, l : v = eval_expr(Top.env, e) /\ l = luau_expr(Top.locals, e, Fresh)
  OBVIOUS
<1>2. Running
  BY DEF If
<1>3. Move(BeginBlock(Top, Block, <<>>, <<>>)) \/ Ends(v # Error, l)
  BY <1>1 DEF If
<1>4. FrameFits(BeginBlock(Top, Block, <<>>, <<>>), handle)
  BY <1>2, TopFits, BeginBlockFits
<1>5. CASE Move(BeginBlock(Top, Block, <<>>, <<>>))
  BY <1>2, <1>4, <1>5, MoveKeeps
<1>6. CASE Ends(v # Error, l)
  BY <1>6, EndsKeeps
<1> QED
  BY <1>3, <1>5, <1>6

\* A round of a loop, or none.
LEMMA RoundKeeps ==
  ASSUME WalkInv, Running, NEW loop, Move(Round(Top, loop))
  PROVE  WalkInv'
<1>1. FrameFits(Round(Top, loop), handle)
  BY TopFits, RoundFits
<1> QED
  BY <1>1, MoveKeeps

LEMMA ForNumericKeeps ==
  ASSUME WalkInv, NEW name, NEW to, ForNumeric(name, to)
  PROVE  WalkInv'
<1>1. Running /\ \E loop : Move(Round(Top, loop))
  BY DEF ForNumeric
<1>2. PICK loop : Move(Round(Top, loop))
  BY <1>1
<1> QED
  BY <1>1, <1>2, RoundKeeps

LEMMA ForGenericKeeps ==
  ASSUME WalkInv, NEW k, NEW n, NEW e, ForGeneric(k, n, e)
  PROVE  WalkInv'
<1>1. Running /\ ((\E loop : Move(Round(Top, loop))) \/ \E ok, l : Ends(ok, l))
  BY DEF ForGeneric
<1>2. CASE \E loop : Move(Round(Top, loop))
  <2>1. PICK loop : Move(Round(Top, loop))
    BY <1>2
  <2> QED
    BY <1>1, <2>1, RoundKeeps
<1>3. CASE \E ok, l : Ends(ok, l)
  BY <1>3, EndsKeeps
<1> QED
  BY <1>1, <1>2, <1>3

LEMMA EndBlockKeeps ==
  ASSUME WalkInv, EndBlock
  PROVE  WalkInv'
<1>1. Running /\ Top.open # <<>> /\ Move(Round(LeaveBlock(Top), Last(Top.open)))
  BY DEF EndBlock
<1>2. FrameFits(LeaveBlock(Top), handle)
  BY <1>1, TopFits, LeaveBlockFits
<1>3. FrameFits(Round(LeaveBlock(Top), Last(Top.open)), handle)
  BY <1>2, RoundFits
<1> QED
  BY <1>1, <1>3, MoveKeeps

\* A call has a frame of its own, on top of the others.
LEMMA CallKeeps ==
  ASSUME WalkInv, NEW into, NEW e, Call(into, e)
  PROVE  WalkInv'
<1>1. PICK v, l : v = eval_expr(Top.env, e) /\ l = luau_expr(Top.locals, e, Fresh)
  OBVIOUS
<1>2. PICK f : f = Called(v, l, into)
  OBVIOUS
<1>3. Running
  BY DEF Call
<1>4. \/ frames' = Append(frames, f) /\ steps' = steps + 1 /\ UNCHANGED <<handle, ended>>
      \/ Ends(v # Error, l)
  BY <1>1, <1>2 DEF Call
<1>5. CASE frames' = Append(frames, f) /\ steps' = steps + 1 /\ UNCHANGED <<handle, ended>>
  <2>1. FrameFits(f, handle)
    BY <1>2, CalledFits DEF WalkInv
  <2>2. IsList(frames) /\ Len(frames) \in Nat
    BY <1>3, TopFits DEF WalkInv
  <2>3. /\ IsList(frames') /\ Len(frames') = Len(frames) + 1 /\ frames'[Len(frames) + 1] = f
        /\ \A i \in 1..Len(frames) : frames'[i] = frames[i]
    BY <1>5, <2>2, ListAppend
  <2>4. ASSUME NEW i \in 1..Len(frames') PROVE FrameFits(frames'[i], handle')
    <3>1. CASE i = Len(frames) + 1
      BY <1>5, <2>1, <2>3, <3>1
    <3>2. CASE i # Len(frames) + 1
      <4>1. i \in 1..Len(frames)
        BY <2>2, <2>3, <3>2
      <4> QED
        BY <4>1, <1>5, <2>3 DEF WalkInv
    <3> QED
      BY <3>1, <3>2
  <2>5. steps' \in 0..MaxSteps
    BY <1>3, <1>5, WalkBounds DEF WalkInv, Running
  <2>6. HandleInv'
    BY <1>5 DEF WalkInv, HandleInv
  <2>7. frames' # <<>>
    BY <2>2, <2>3
  <2> QED
    BY <1>5, <2>3, <2>4, <2>5, <2>6, <2>7 DEF WalkInv
<1>6. CASE Ends(v # Error, l)
  BY <1>6, EndsKeeps
<1> QED
  BY <1>4, <1>5, <1>6

\* A call's result reaches its caller, and the frame of the call is gone.
LEMMA GiveKeeps ==
  ASSUME WalkInv, Running, NEW v, NEW l, Give(v, l)
  PROVE  WalkInv'
<1> DEFINE callers == Front(frames)
           k == Len(frames)
<1>1. IsList(frames) /\ k \in Nat /\ frames # <<>> /\ k \in 1..k
  BY TopFits DEF WalkInv, Running
<1>2. IsList(callers) /\ Len(callers) = k - 1 /\ \A i \in 1..k - 1 : callers[i] = frames[i]
  BY <1>1, ListFront
<1>3. steps' \in 0..MaxSteps /\ handle' = handle
  BY WalkBounds DEF WalkInv, Running, Give
<1>4. HandleInv'
  BY <1>3 DEF WalkInv, HandleInv
<1>5. \/ frames' = <<>> /\ ended' = "returned"
      \/ /\ callers # <<>> /\ ended' = ended
         /\ frames' = [callers EXCEPT ![Len(callers)] = Resumed(@, Top.into, v, l)]
  BY DEF Give
<1>6. CASE frames' = <<>> /\ ended' = "returned"
  <2>1. IsList(<<>>) /\ Len(<<>>) = 0
    BY DEF IsList
  <2> QED
    BY <1>3, <1>4, <1>6, <2>1 DEF WalkInv
<1>7. CASE /\ callers # <<>> /\ ended' = ended
           /\ frames' = [callers EXCEPT ![Len(callers)] = Resumed(@, Top.into, v, l)]
  <2> DEFINE j == Len(callers)
             f == Resumed(callers[j], Top.into, v, l)
  <2>1. j \in Nat /\ j \in 1..j /\ j = k - 1
    BY <1>1, <1>2, <1>7 DEF IsList
  <2>2. FrameFits(callers[j], handle)
    BY <1>1, <1>2, <2>1 DEF WalkInv
  <2>3. DOMAIN Single(Top.into, v) = DOMAIN Single(Top.into, l)
    BY DEF Single
  <2>4. FrameFits(f, handle)
    BY <2>2, <2>3, UpdateFits DEF Resumed, DefineValue
  <2>5. frames' = Put(callers, j, f)
    BY <1>7 DEF Put
  <2> HIDE DEF callers, f, j, k
  <2>6. j \in 1..Len(callers)
    BY <2>1 DEF j
  <2>7. /\ IsList(frames') /\ Len(frames') = j /\ frames'[j] = f
        /\ \A i \in 1..j : i # j => frames'[i] = callers[i]
    BY <1>2, <2>5, <2>6, ListReplaced DEF j
  <2>8. ASSUME NEW i \in 1..Len(frames') PROVE FrameFits(frames'[i], handle')
    <3>1. CASE i = j
      BY <1>3, <2>4, <2>7, <3>1
    <3>2. CASE i # j
      <4>1. i \in 1..k - 1 /\ i \in 1..Len(frames) /\ frames'[i] = callers[i]
        BY <1>1, <2>1, <2>7, <3>2 DEF k
      <4> QED
        BY <4>1, <1>2, <1>3 DEF WalkInv
    <3> QED
      BY <3>1, <3>2
  <2>9. frames' # <<>>
    BY <2>1, <2>7
  <2> QED
    BY <1>3, <1>4, <1>7, <2>7, <2>8, <2>9 DEF WalkInv
<1> QED
  BY <1>5, <1>6, <1>7

LEMMA ReturnKeeps ==
  ASSUME WalkInv, NEW e, Return(e)
  PROVE  WalkInv'
<1>1. Running /\ ((\E v, l : Give(v, l)) \/ \E ok, l : Ends(ok, l))
  BY DEF Return
<1>2. CASE \E v, l : Give(v, l)
  BY <1>1, <1>2, GiveKeeps
<1>3. CASE \E ok, l : Ends(ok, l)
  BY <1>3, EndsKeeps
<1> QED
  BY <1>1, <1>2, <1>3

\* What a function captures is const.
LEMMA CapturedMatch ==
  ASSUME NEW scopes \in CapturedScopes
  PROVE  Match(Captured(scopes).env, Captured(scopes).locals) /\ AllConst(Captured(scopes).env)
<1> DEFINE es == Captured(scopes).env
           ls == Captured(scopes).locals
<1>1. Len(scopes) \in Nat /\ DOMAIN scopes = 1..Len(scopes)
  BY ScopesAreStacked
<1>2. PICK m \in Nat : m = Len(scopes) /\ DOMAIN scopes = 1..m
  BY <1>1
<1>3. /\ es = [i \in 1..m |-> [values |-> [n \in DOMAIN scopes[i] |-> eval_expr(<<>>, scopes[i][n])],
                               const_names |-> DOMAIN scopes[i]]]
      /\ ls = [i \in 1..m |-> [n \in DOMAIN scopes[i] |-> luau_expr(<<>>, scopes[i][n], <<0>>)]]
  BY <1>2 DEF Captured
<1> HIDE DEF es, ls
<1>4. IsList(es) /\ Len(es) = m /\ IsList(ls) /\ Len(ls) = m
  BY <1>3, ListOfFunction
<1>5. ASSUME NEW j \in 1..m
      PROVE  DOMAIN es[j].values = DOMAIN ls[j] /\ es[j].const_names = DOMAIN es[j].values
  BY <1>3
<1> QED
  BY <1>4, <1>5 DEF Match, SameNames, AllConst, es, ls

\* The invariant holds at first, and in each step.
LEMMA WalkInitInv == WalkInit => WalkInv
<1> SUFFICES ASSUME WalkInit PROVE WalkInv
  OBVIOUS
<1>1. PICK scopes \in CapturedScopes : handle = Captured(scopes)
  BY DEF WalkInit
<1>2. PICK v, l : frames = <<Called(v, l, "")>>
  BY DEF WalkInit
<1>3. HandleInv
  BY <1>1, CapturedMatch DEF HandleInv
<1>0. PICK f : f = Called(v, l, "")
  OBVIOUS
<1>4. IsList(<<f>>) /\ Len(<<f>>) = 1 /\ <<f>>[1] = f /\ <<f>> # <<>>
  BY DEF IsList
<1>5. FrameFits(f, handle)
  BY <1>0, <1>3, CalledFits
<1>8. steps = 0 /\ ended = "running"
  BY DEF WalkInit
<1>9. 0 \in 0..MaxSteps
  BY WalkBounds
<1>10. steps \in 0..MaxSteps
  BY <1>8, <1>9
<1>11. frames = <<f>>
  BY <1>0, <1>2
<1>6. steps \in 0..MaxSteps /\ ended = "running" /\ frames = <<f>>
  BY <1>8, <1>10, <1>11
<1>7. \A i \in 1..Len(frames) : FrameFits(frames[i], handle)
  BY <1>4, <1>5, <1>6
<1> QED
  BY <1>3, <1>4, <1>6, <1>7 DEF WalkInv

LEMMA WalkNextInv == WalkInv /\ [WalkNext]_walkVars => WalkInv'
<1> SUFFICES ASSUME WalkInv, [WalkNext]_walkVars PROVE WalkInv'
  OBVIOUS
<1>1. CASE \E name \in Locals, e \in Expressions, is_const \in BOOLEAN : Local(name, e, is_const)
  BY <1>1, LocalKeeps
<1>2. CASE \E pattern \in Patterns, e \in Expressions : Destructure(pattern, e)
  BY <1>2, DestructureKeeps
<1>3. CASE \E target \in Targets, e \in Expressions : Assign(target, e)
  BY <1>3, AssignKeeps
<1>4. CASE \E pair \in Pairs : AssignTwo(pair)
  BY <1>4, AssignTwoKeeps
<1>5. CASE \E e \in Expressions : If(e)
  BY <1>5, IfKeeps
<1>6. CASE \E to \in 0..2 : ForNumeric(LoopNames[1], to)
  BY <1>6, ForNumericKeeps
<1>7. CASE \E e \in Expressions : ForGeneric(LoopNames[1], LoopNames[2], e)
  BY <1>7, ForGenericKeeps
<1>8. CASE EndBlock
  BY <1>8, EndBlockKeeps
<1>9. CASE \E into \in Locals, e \in Expressions : Call(into, e)
  BY <1>9, CallKeeps
<1>10. CASE \E e \in Expressions : Return(e)
  BY <1>10, ReturnKeeps
<1>11. CASE EndFunction
  BY <1>11, GiveKeeps DEF EndFunction
<1>12. CASE UNCHANGED walkVars
  BY <1>12 DEF walkVars, WalkInv, HandleInv
<1> QED
  BY <1>1, <1>2, <1>3, <1>4, <1>5, <1>6, <1>7, <1>8, <1>9, <1>10, <1>11, <1>12 DEF WalkNext

\* So it always holds, and it says what the properties say.
LEMMA WalkInvariant == WalkSpec => []WalkInv
BY WalkInitInv, WalkNextInv, PTL DEF WalkSpec

LEMMA WalkInvSuffices == WalkInv => WalkTypeOK /\ CapturedStays
<1> SUFFICES ASSUME WalkInv PROVE WalkTypeOK /\ CapturedStays
  OBVIOUS
<1>1. IsList(frames) /\ DOMAIN frames = 1..Len(frames)
  BY ListDomain DEF WalkInv
<1>2. ASSUME NEW i \in DOMAIN frames
      PROVE  /\ Len(frames[i].env) = Len(handle.env) + 1 + Len(frames[i].open)
             /\ Len(frames[i].locals) = Len(frames[i].env)
             /\ \A j \in DOMAIN frames[i].env :
                  /\ DOMAIN frames[i].env[j].values = DOMAIN frames[i].locals[j]
                  /\ frames[i].env[j].const_names \subseteq DOMAIN frames[i].env[j].values
             /\ \A j \in 1..Len(handle.env) : frames[i].env[j] = handle.env[j]
                                                 /\ frames[i].locals[j] = handle.locals[j]
  <2>1. FrameFits(frames[i], handle)
    BY <1>1 DEF WalkInv
  <2>2. PICK es, ls, c, k : es = frames[i].env /\ ls = frames[i].locals /\ c = handle
                            /\ k = Len(handle.env) + 1 + Len(frames[i].open)
    OBVIOUS
  <2>3. FitsWith(es, ls, c, k)
    BY <2>1, <2>2 DEF FrameFits
  <2>4. Match(es, ls) /\ Len(es) = k /\ \A j \in 1..Len(c.env) : es[j] = c.env[j] /\ ls[j] = c.locals[j]
    BY <2>3 DEF FitsWith
  <2>5. DOMAIN es = 1..Len(es) /\ Len(ls) = Len(es)
    BY <2>4, ListDomain DEF Match
  <2>6. \A j \in DOMAIN es : /\ DOMAIN es[j].values = DOMAIN ls[j]
                              /\ es[j].const_names \subseteq DOMAIN es[j].values
    BY <2>4, <2>5 DEF Match, SameNames
  <2> QED
    BY <2>2, <2>4, <2>5, <2>6
<1> QED
  BY <1>2 DEF WalkTypeOK, CapturedStays, WalkInv

(* Whatever expressions compute, the evaluator has the scopes Luau has: those *)
(* a function captured, one for its body and one for each open block, with   *)
(* the same names, in every call in progress.                                *)
THEOREM WalkTypeCorrect ==
  WalkSpec => []WalkTypeOK
BY WalkInvariant, WalkInvSuffices, PTL

(* Whatever its calls do, and however deep they nest, what a compile-time    *)
(* function captured stays as it was in the evaluator's environments, and no *)
(* captured local is assigned in Luau.                                       *)
THEOREM SafeCapturedStays ==
  WalkSpec => []CapturedStays
BY WalkInvariant, WalkInvSuffices, PTL

=============================================================================
