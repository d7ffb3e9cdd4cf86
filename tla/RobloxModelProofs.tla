------------------------- MODULE RobloxModelProofs -------------------------
(* Theorems about RobloxModel, for every set of files and every config:     *)
(* each file has a place of its own, a build is refused for a reason only,  *)
(* and a require leads to the script of the file it finds.                  *)
EXTENDS RobloxModel, SequenceTheorems, WellFoundedInduction, TLAPS

-----------------------------------------------------------------------------
\* The least of a set of numbers is one of them.
LEMMA MinIs ==
  ASSUME NEW S, S \subseteq Nat, S # {}
  PROVE  Min(S) \in S
<1>1. PICK m \in S : \A x \in S : <<x, m>> \notin OpToRel(<, Nat)
  BY NatLessThanWellFounded, WFMin
<1>2. m \in Nat /\ \A x \in S : ~(x < m)
  BY <1>1 DEF OpToRel
<1>3. \A x \in S : m <= x
  BY <1>2
<1> QED
  BY <1>3 DEF Min

\* The greatest of a set of numbers up to n.
LEMMA MaxIs ==
  ASSUME NEW n \in Nat, NEW S \in SUBSET (0..n), S # {}
  PROVE  Max(S) \in S
<1> DEFINE T == {n - x : x \in S}
<1>1. T \subseteq Nat /\ T # {}
  <2>1. \A x \in S : n - x \in Nat
    OBVIOUS
  <2>2. PICK x \in S : TRUE
    OBVIOUS
  <2>3. n - x \in T
    OBVIOUS
  <2> QED
    BY <2>1, <2>3
<1>2. PICK m \in T : \A y \in T : <<y, m>> \notin OpToRel(<, Nat)
  BY <1>1, NatLessThanWellFounded, WFMin
<1>3. m \in Nat /\ \A y \in T : ~(y < m)
  BY <1>1, <1>2 DEF OpToRel
<1>4. PICK x \in S : m = n - x
  OBVIOUS
<1>5. \A y \in S : x >= y
  <2> TAKE y \in S
  <2>1. ~(n - y < n - x)
    BY <1>3, <1>4
  <2> QED
    BY <2>1
<1> QED
  BY <1>5 DEF Max

-----------------------------------------------------------------------------
(* Names and places.                                                        *)

\* The names after sanitize.
SafeNames == {sanitize(n) : n \in STRING}

LEMMA SafeNamesAreSafe ==
  \A n \in SafeNames : n \notin DOMAIN Unsafe
BY NamesAssumption DEF SafeNames, sanitize

\* q is the path, made safe name by name.
MadeSafe(path, q) ==
  q \in Seq(SafeNames) /\ Len(q) = Len(path) /\ \A i \in 1..Len(path) : q[i] = sanitize(path[i])

LEMMA SafeIs ==
  ASSUME NEW path \in Seq(STRING)
  PROVE  MadeSafe(path, Safe(path))
<1>1. PICK n \in Nat : n = Len(path) /\ DOMAIN path = 1..n
  OBVIOUS
<1>2. PICK q : q = Safe(path)
  OBVIOUS
<1>3. q = [i \in 1..n |-> sanitize(path[i])]
  BY <1>1, <1>2 DEF Safe
<1>4. \A i \in 1..n : path[i] \in STRING
  BY <1>1
<1>5. \A i \in 1..n : sanitize(path[i]) \in SafeNames
  BY <1>4 DEF SafeNames
<1>6. q \in [1..n -> SafeNames]
  BY <1>3, <1>5
<1>7. q \in Seq(SafeNames) /\ Len(q) = n
  BY <1>6
<1>8. \A i \in 1..Len(path) : q[i] = sanitize(path[i])
  BY <1>1, <1>3
<1>9. MadeSafe(path, q)
  BY <1>1, <1>7, <1>8 DEF MadeSafe
<1> QED
  BY <1>2, <1>9

\* A list of suffixes whose elements are strings.
LEMMA WithoutFirstIs ==
  ASSUME NEW stem, NEW suffixes \in Seq(STRING), NEW fits, fits = Fits(stem, suffixes)
  PROVE  /\ fits = {} => WithoutFirst(stem, suffixes) = stem
         /\ fits # {} => /\ Min(fits) \in fits
                         /\ WithoutFirst(stem, suffixes) = Stripped[<<stem, suffixes[Min(fits)]>>]
<1>1. fits \subseteq Nat
  <2>1. fits \subseteq DOMAIN suffixes
    BY DEF Fits
  <2>2. DOMAIN suffixes \subseteq Nat
    OBVIOUS
  <2> QED
    BY <2>1, <2>2
<1>2. fits # {} => Min(fits) \in fits
  BY <1>1, MinIs
<1> QED
  BY <1>2 DEF WithoutFirst

\* A stem that ends with no suffix is left as it is.
LEMMA StrippedStemIs ==
  ASSUME NEW f \in Files
  PROVE  f.stem \in STRING /\ stripped_stem(f) \in STRING /\ (suffix(f) = "" => stripped_stem(f) = f.stem)
<1>1. PICK fits : fits = Fits(f.stem, LongestFirst)
  OBVIOUS
<1>2. f.stem \in STRING /\ LongestFirst \in Seq(STRING)
  BY NamesAssumption, SuffixAssumption
<1>3. CASE fits = {}
  BY <1>1, <1>2, <1>3, WithoutFirstIs DEF stripped_stem
<1>4. CASE fits # {}
  <2>1. PICK pair : pair = <<f.stem, LongestFirst[Min(fits)]>>
    OBVIOUS
  <2>2. Min(fits) \in fits /\ stripped_stem(f) = Stripped[pair]
    BY <1>1, <1>2, <1>4, <2>1, WithoutFirstIs DEF stripped_stem
  <2>3. pair \in DOMAIN Stripped
    BY <1>1, <2>1, <2>2 DEF Fits
  <2>4. suffix(f) = pair[2]
    BY <1>1, <1>4, <2>1 DEF suffix
  <2> QED
    BY <1>2, <2>2, <2>3, <2>4, SuffixAssumption
<1> QED
  BY <1>3, <1>4

\* Where no two suffixes fit, the first that fits is the longest.
LEMMA OneSuffixAgrees ==
  ASSUME NEW f \in Files, OneSuffix(f)
  PROVE  is_index_stem(f) <=> is_init(f)
<1>1. PICK first, longest : first = Fits(f.stem, ScriptSuffixes) /\ longest = Fits(f.stem, LongestFirst)
  OBVIOUS
<1>2. /\ ScriptSuffixes \in Seq(STRING) /\ LongestFirst \in Seq(STRING)
      /\ ToSet(LongestFirst) = ToSet(ScriptSuffixes)
  BY ConfigAssumption, SuffixAssumption
<1>3. /\ \A i \in longest : \E j \in first : ScriptSuffixes[j] = LongestFirst[i]
      /\ \A j \in first : \E i \in longest : LongestFirst[i] = ScriptSuffixes[j]
  <2>1. /\ \A i \in DOMAIN LongestFirst : \E j \in DOMAIN ScriptSuffixes : ScriptSuffixes[j] = LongestFirst[i]
        /\ \A j \in DOMAIN ScriptSuffixes : \E i \in DOMAIN LongestFirst : LongestFirst[i] = ScriptSuffixes[j]
    BY <1>2 DEF ToSet
  <2> QED
    BY <1>1, <2>1 DEF Fits
<1>4. CASE first = {}
  <2>1. longest = {}
    BY <1>3, <1>4
  <2>2. logical_file_stem(f) = f.stem /\ stripped_stem(f) = f.stem
    BY <1>1, <1>2, <1>4, <2>1, WithoutFirstIs DEF logical_file_stem, stripped_stem
  <2> QED
    BY <2>2 DEF is_index_stem, is_init
<1>5. CASE first # {}
  <2>1. longest # {}
    BY <1>3, <1>5
  <2>2. PICK i, j : i = Min(first) /\ j = Min(longest)
    OBVIOUS
  <2>3. /\ i \in first /\ logical_file_stem(f) = Stripped[<<f.stem, ScriptSuffixes[i]>>]
        /\ j \in longest /\ stripped_stem(f) = Stripped[<<f.stem, LongestFirst[j]>>]
    BY <1>1, <1>2, <1>5, <2>1, <2>2, WithoutFirstIs DEF logical_file_stem, stripped_stem
  <2>4. ScriptSuffixes[i] = LongestFirst[j]
    BY <1>1, <1>3, <2>3 DEF OneSuffix
  <2> QED
    BY <2>3, <2>4 DEF is_index_stem, is_init
<1> QED
  BY <1>4, <1>5

\* Its directory made safe, and what the directory's names become.
LEMMA DirectoryIs ==
  ASSUME NEW f \in Files, NEW dir, NEW q, dir = f.dir, q = Safe(dir)
  PROVE  /\ q \in Seq(SafeNames) /\ Len(q) = Len(dir) /\ Len(dir) \in Nat /\ dir \in Seq(STRING)
         /\ \A i \in 1..Len(dir) : q[i] = sanitize(dir[i])
<1>1. dir \in Seq(STRING)
  BY NamesAssumption
<1>2. MadeSafe(dir, q)
  BY <1>1, SafeIs
<1> QED
  BY <1>1, <1>2 DEF MadeSafe

\* The place of a file that is no index file.
LEMMA OwnPlaceIs ==
  ASSUME NEW f \in Files, ~is_init(f), NEW q, q = Safe(f.dir), NEW name, name = sanitize(stripped_stem(f))
  PROVE  /\ NodeOf(f) = Append(q, name) /\ name \in SafeNames /\ NodeOf(f) \in Seq(SafeNames)
         /\ Len(NodeOf(f)) = Len(q) + 1 /\ NodeOf(f)[Len(q) + 1] = name
         /\ \A i \in 1..Len(q) : NodeOf(f)[i] = q[i]
<1>1. name \in SafeNames
  BY StrippedStemIs DEF SafeNames
<1>2. q \in Seq(SafeNames)
  BY DirectoryIs
<1>3. PICK node : node = NodeOf(f)
  OBVIOUS
<1>4. node = Append(q, name)
  BY <1>3 DEF NodeOf, instance_name
<1>5. /\ node \in Seq(SafeNames) /\ Len(node) = Len(q) + 1 /\ node[Len(q) + 1] = name
      /\ \A i \in 1..Len(q) : node[i] = q[i]
  BY <1>1, <1>2, <1>4
<1> QED
  BY <1>1, <1>3, <1>4, <1>5

\* Every file has a place whose names are safe.
LEMMA PlacesAreSafe ==
  ASSUME NEW f \in Files
  PROVE  NodeOf(f) \in Seq(SafeNames)
<1>1. CASE is_init(f)
  BY <1>1, DirectoryIs DEF NodeOf
<1>2. CASE ~is_init(f)
  BY <1>2, OwnPlaceIs
<1> QED
  BY <1>1, <1>2

LEMMA ModuleIs ==
  ASSUME NEW f \in Files
  PROVE  module_id(f) \in Seq(STRING)
<1>1. PICK S, dir, stem : S = STRING /\ dir = f.dir /\ stem = f.stem
  OBVIOUS
<1>2. dir \in Seq(S) /\ stem \in S
  BY <1>1, NamesAssumption
<1>3. Append(dir, stem) \in Seq(S)
  BY <1>2
<1> QED
  BY <1>1, <1>2, <1>3 DEF module_id

\* What is in common to the place of a file and the path of its module.
Alike(f) ==
  /\ module_id(f) \in Seq(STRING) /\ NodeOf(f) \in Seq(SafeNames)
  /\ Len(NodeOf(f)) = Len(module_id(f))
  /\ \A i \in 1..Len(module_id(f)) :
       NodeOf(f)[i] = sanitize(module_id(f)[i]) \/ (i = Len(module_id(f)) /\ ~is_init(f) /\ suffix(f) # "")

LEMMA PlacesAreAlike ==
  ASSUME NEW f \in Files, OneSuffix(f)
  PROVE  Alike(f)
<1>0. is_index_stem(f) <=> is_init(f)
  BY OneSuffixAgrees
<1>1. PICK dir, n, q : dir = f.dir /\ n = Len(dir) /\ q = Safe(dir)
  OBVIOUS
<1>2. /\ q \in Seq(SafeNames) /\ Len(q) = n /\ n \in Nat /\ dir \in Seq(STRING)
      /\ \A i \in 1..n : q[i] = sanitize(dir[i])
  BY <1>1, DirectoryIs
<1>3. NodeOf(f) \in Seq(SafeNames) /\ module_id(f) \in Seq(STRING)
  BY PlacesAreSafe, ModuleIs
<1>4. CASE is_init(f)
  <2>1. NodeOf(f) = q /\ module_id(f) = dir
    BY <1>0, <1>1, <1>4 DEF NodeOf, module_id
  <2> QED
    BY <1>1, <1>2, <1>3, <2>1 DEF Alike
<1>5. CASE ~is_init(f)
  <2>1. PICK node, id, name, stem :
          node = NodeOf(f) /\ id = module_id(f) /\ name = sanitize(stripped_stem(f)) /\ stem = f.stem
    OBVIOUS
  <2>2. /\ Len(node) = n + 1 /\ node[n + 1] = name
        /\ \A i \in 1..n : node[i] = q[i]
    BY <1>1, <1>2, <1>5, <2>1, OwnPlaceIs
  <2>3. Len(id) = n + 1 /\ id[n + 1] = stem /\ \A i \in 1..n : id[i] = dir[i]
    <3>1. PICK S : S = STRING
      OBVIOUS
    <3>2. stem \in S /\ dir \in Seq(S) /\ id = Append(dir, stem)
      BY <1>0, <1>1, <1>2, <1>5, <2>1, <3>1, NamesAssumption DEF module_id
    <3> QED
      BY <1>1, <3>2
  <2>4. suffix(f) = "" => name = sanitize(stem)
    BY <2>1, StrippedStemIs
  <2>5. \A i \in 1..(n + 1) : i \in 1..n \/ i = n + 1
    BY <1>2
  <2>6. ASSUME NEW i \in 1..(n + 1)
        PROVE  node[i] = sanitize(id[i]) \/ (i = n + 1 /\ suffix(f) # "")
    BY <1>2, <2>2, <2>3, <2>4, <2>5
  <2> QED
    BY <1>3, <1>5, <2>1, <2>2, <2>3, <2>6 DEF Alike
<1> QED
  BY <1>4, <1>5

-----------------------------------------------------------------------------
(* The inductive invariant.                                                 *)

\* What is still to be put in the tree are files of the project.
LeftIsProject == \A i \in Left : Order[i] \in Project

\* A script stands where its file belongs.
PlacedRight == \A p \in DOMAIN placed : NodeOf(placed[p]) = p

\* A file of the project is in the tree or still to be put there.
NoneLost ==
  \A f \in Project : (\E i \in Left : Order[i] = f) \/ (\E p \in DOMAIN placed : placed[p] = f)

\* A file that is listed once is not put in the tree again.
ListedOnce ==
  ~overlap => \A i \in Left : todo[i] = 1 /\ \A p \in DOMAIN placed : placed[p] # Order[i]

RefusedIfTaken ==
  verdict = "refused" => (\E f \in Project : OnlySuffix(f)) \/ (Left # {} /\ Taken(NextFile))

BuiltIfDone == Modelled => Left = {}

RInv ==
  /\ TypeOK
  /\ LeftIsProject
  /\ PlacedRight
  /\ NoneLost
  /\ ListedOnce
  /\ RefusedIfTaken
  /\ BuiltIfDone

LEMMA OrderIs ==
  /\ Len(Order) \in Nat /\ DOMAIN Order = 1..Len(Order)
  /\ \A i \in DOMAIN Order : Order[i] \in Files
  /\ \A f \in Files : \E i \in DOMAIN Order : Order[i] = f
<1>1. Order \in Seq(Files) /\ ToSet(Order) = Files
  BY OrderAssumption
<1> QED
  BY <1>1 DEF ToSet

LEMMA InitRInv ==
  Init => RInv
<1> SUFFICES ASSUME Init PROVE RInv
  OBVIOUS
<1>1. /\ disk \subseteq Files /\ emit_rbxmx \in BOOLEAN /\ with_model \in BOOLEAN /\ overlap \in BOOLEAN
      /\ placed = <<>> /\ verdict = "building"
      /\ todo = [i \in DOMAIN Order |-> IF Order[i] \in Project THEN (IF overlap THEN 2 ELSE 1) ELSE 0]
  BY DEF Init, collect_project_files
<1>2. DOMAIN placed = {}
  BY <1>1
<1>3. Left = {i \in DOMAIN Order : Order[i] \in Project}
  BY <1>1 DEF Left
<1>4. TypeOK
  BY <1>1, <1>2 DEF TypeOK
<1>5. NoneLost
  BY <1>1, <1>3, OrderIs DEF NoneLost, Project
<1>6. ListedOnce
  BY <1>1, <1>2, <1>3 DEF ListedOnce
<1>7. LeftIsProject
  BY <1>3 DEF LeftIsProject
<1> QED
  BY <1>1, <1>2, <1>4, <1>5, <1>6, <1>7 DEF RInv, PlacedRight, RefusedIfTaken, BuiltIfDone, Modelled

\* The next file is one that is left.
LEMMA NextIs ==
  ASSUME LeftIsProject, Left # {}
  PROVE  Min(Left) \in Left /\ NextFile = Order[Min(Left)] /\ NextFile \in Project
<1>1. Left \subseteq Nat
  BY OrderIs DEF Left
<1>2. Min(Left) \in Left
  BY <1>1, MinIs
<1> QED
  BY <1>2 DEF NextFile, LeftIsProject

-----------------------------------------------------------------------------
(* Every step keeps it.                                                     *)

\* What the steps leave alone.
Kept == UNCHANGED <<disk, emit_rbxmx, with_model, overlap>>

LEMMA ProjectKept ==
  Kept => Project' = Project
BY DEF Kept, Project

LEMMA RefuseKeeps ==
  ASSUME RInv, Refuse
  PROVE  RInv'
<1>1. Kept /\ UNCHANGED <<todo, placed>> /\ verdict' = "refused" /\ Left # {} /\ Taken(NextFile)
  BY DEF Refuse, Kept
<1>2. Left' = Left /\ Project' = Project
  BY <1>1, ProjectKept DEF Left
<1>3. Taken(NextFile)'
  BY <1>1, <1>2 DEF Taken, NextFile, HasChildren
<1>4. TypeOK'
  BY <1>1, <1>2 DEF RInv, TypeOK, Kept
<1>5. LeftIsProject' /\ PlacedRight' /\ NoneLost' /\ ListedOnce'
  BY <1>1, <1>2 DEF RInv, LeftIsProject, PlacedRight, NoneLost, ListedOnce, Kept
<1> QED
  BY <1>1, <1>2, <1>3, <1>4, <1>5 DEF RInv, RefusedIfTaken, BuiltIfDone, Modelled

LEMMA RefuseNameKeeps ==
  ASSUME RInv, RefuseName
  PROVE  RInv'
<1>1. Kept /\ UNCHANGED <<todo, placed>> /\ verdict' = "refused"
  BY DEF RefuseName, Kept
<1>2. Left' = Left /\ Project' = Project
  BY <1>1, ProjectKept DEF Left
<1>3. \E f \in Project : OnlySuffix(f)
  <2>1. CASE ~DocumentsMade
    BY <2>1 DEF DocumentsMade
  <2>2. CASE Left # {} /\ OnlySuffix(NextFile)
    BY <2>2, NextIs DEF RInv
  <2> QED
    BY <2>1, <2>2 DEF RefuseName
<1>4. RefusedIfTaken'
  BY <1>2, <1>3 DEF RefusedIfTaken, OnlySuffix
<1>5. TypeOK'
  BY <1>1, <1>2 DEF RInv, TypeOK, Kept
<1>6. LeftIsProject' /\ PlacedRight' /\ NoneLost' /\ ListedOnce'
  BY <1>1, <1>2 DEF RInv, LeftIsProject, PlacedRight, NoneLost, ListedOnce, Kept
<1> QED
  BY <1>1, <1>4, <1>5, <1>6 DEF RInv, BuiltIfDone, Modelled

LEMMA FinishKeeps ==
  ASSUME RInv, Finish
  PROVE  RInv'
<1>1. Kept /\ UNCHANGED <<todo, placed>> /\ verdict' = "built" /\ (~with_model \/ Left = {})
  BY DEF Finish, Kept
<1>2. Left' = Left /\ Project' = Project
  BY <1>1, ProjectKept DEF Left
<1>3. TypeOK'
  BY <1>1, <1>2 DEF RInv, TypeOK, Kept
<1>4. LeftIsProject' /\ PlacedRight' /\ NoneLost' /\ ListedOnce'
  BY <1>1, <1>2 DEF RInv, LeftIsProject, PlacedRight, NoneLost, ListedOnce, Kept
<1> QED
  BY <1>1, <1>2, <1>3, <1>4 DEF RInv, RefusedIfTaken, BuiltIfDone, Modelled, Kept

\* A file is put in the tree: where nothing stands yet.
Placed(old, new, node, f) ==
  /\ DOMAIN new = DOMAIN old \cup {node} /\ node \notin DOMAIN old
  /\ new[node] = f /\ \A p \in DOMAIN old : new[p] = old[p]

\* One of the times it is listed is done.
Counted(old, new, i) ==
  /\ i \in DOMAIN Order /\ old \in [DOMAIN Order -> 0..2] /\ old[i] > 0
  /\ new = [old EXCEPT ![i] = @ - 1]

LEMMA CountedIs ==
  ASSUME NEW old, NEW new, NEW i, Counted(old, new, i)
  PROVE  /\ new \in [DOMAIN Order -> 0..2] /\ new[i] = old[i] - 1
         /\ \A j \in DOMAIN Order : j # i => new[j] = old[j]
<1>1. old[i] \in 0..2
  BY DEF Counted
<1>2. old[i] - 1 \in 0..2
  BY <1>1 DEF Counted
<1> QED
  BY <1>2 DEF Counted

LEMMA InsertKeeps ==
  ASSUME RInv, Insert
  PROVE  RInv'
<1>1. PICK i, f, node : i = Min(Left) /\ f = NextFile /\ node = NodeOf(NextFile)
  OBVIOUS
<1>2. i \in Left /\ f = Order[i] /\ f \in Project
  BY <1>1, NextIs DEF Insert, RInv
<1>3. Kept /\ verdict' = verdict /\ verdict = "building" /\ node = NodeOf(f) /\ f \in Files /\ i \in DOMAIN Order
  BY <1>1, <1>2 DEF Insert, Kept, Project, Left, RInv, TypeOK
<1>4. Placed(placed, placed', node, f)
  <2>1. node \notin DOMAIN placed /\ placed' = [p \in DOMAIN placed \cup {node} |-> IF p = node THEN f ELSE placed[p]]
    BY <1>1 DEF Insert, Taken
  <2> QED
    BY <2>1 DEF Placed
<1>5. Counted(todo, todo', i)
  <2>1. todo \in [DOMAIN Order -> 0..2] /\ todo[i] > 0
    BY <1>2 DEF RInv, TypeOK, Left
  <2> QED
    BY <1>1, <1>3, <2>1 DEF Counted, Insert
<1>6. /\ todo' \in [DOMAIN Order -> 0..2] /\ todo'[i] = todo[i] - 1
      /\ \A j \in DOMAIN Order : j # i => todo'[j] = todo[j]
  BY <1>5, CountedIs
<1>7. Left' \subseteq Left /\ \A j \in Left : j # i => j \in Left'
  BY <1>2, <1>6 DEF Left
<1>8. Project' = Project
  BY <1>3, ProjectKept
<1>9. TypeOK'
  <2>1. node \in Seq(SafeNames)
    BY <1>3, PlacesAreSafe
  <2>2. \A k \in DOMAIN node : node[k] \notin DOMAIN Unsafe
    BY <2>1, SafeNamesAreSafe
  <2>3. \A p \in DOMAIN placed' : placed'[p] \in Project /\ \A k \in DOMAIN p : p[k] \notin DOMAIN Unsafe
    BY <1>2, <1>4, <2>2 DEF Placed, RInv, TypeOK
  <2> QED
    BY <1>3, <1>6, <1>8, <2>3 DEF RInv, TypeOK, Kept
<1>10. LeftIsProject'
  BY <1>7, <1>8 DEF RInv, LeftIsProject
<1>11. PlacedRight'
  BY <1>3, <1>4 DEF RInv, PlacedRight, Placed
<1>12. NoneLost'
  <2> SUFFICES ASSUME NEW g \in Project
               PROVE  (\E j \in Left' : Order[j] = g) \/ (\E p \in DOMAIN placed' : placed'[p] = g)
    BY <1>8 DEF NoneLost
  <2>1. CASE g = f
    BY <1>4, <2>1 DEF Placed
  <2>2. CASE \E j \in Left : Order[j] = g /\ g # f
    BY <1>2, <1>7, <2>2
  <2>3. CASE \E p \in DOMAIN placed : placed[p] = g
    BY <1>4, <2>3 DEF Placed
  <2> QED
    BY <2>1, <2>2, <2>3 DEF RInv, NoneLost
<1>13. ListedOnce'
  <2> SUFFICES ASSUME ~overlap, NEW j \in Left'
               PROVE  todo'[j] = 1 /\ \A p \in DOMAIN placed' : placed'[p] # Order[j]
    BY <1>3 DEF ListedOnce, Kept
  <2>1. j \in Left /\ todo[j] = 1 /\ todo[i] = 1 /\ \A p \in DOMAIN placed : placed[p] # Order[j]
    BY <1>2, <1>7 DEF RInv, ListedOnce
  <2>2. j # i
    BY <1>6, <2>1 DEF Left
  <2>3. Order[j] # f
    BY <1>2, <2>1, <2>2, OrderAssumption DEF IsInjective, Left
  <2> QED
    BY <1>4, <1>6, <2>1, <2>2, <2>3 DEF Placed, Left
<1> QED
  BY <1>3, <1>9, <1>10, <1>11, <1>12, <1>13 DEF RInv, RefusedIfTaken, BuiltIfDone, Modelled

LEMMA NextRInv ==
  RInv /\ [Next]_vars => RInv'
<1> SUFFICES ASSUME RInv, [Next]_vars PROVE RInv'
  OBVIOUS
<1>0. CASE RefuseName
  BY <1>0, RefuseNameKeeps
<1>1. CASE Refuse
  BY <1>1, RefuseKeeps
<1>2. CASE Insert
  BY <1>2, InsertKeeps
<1>3. CASE Finish
  BY <1>3, FinishKeeps
<1>4. CASE UNCHANGED vars
  <2>1. UNCHANGED <<disk, emit_rbxmx, with_model, overlap, todo, placed, verdict>>
    BY <1>4 DEF vars
  <2>2. Project' = Project /\ Left' = Left
    BY <2>1 DEF Project, Left
  <2>3. (Taken(NextFile) <=> Taken(NextFile)')
    BY <2>1, <2>2 DEF Taken, NextFile, HasChildren
  <2>4. TypeOK'
    BY <2>1, <2>2 DEF RInv, TypeOK
  <2>5. LeftIsProject' /\ PlacedRight' /\ NoneLost' /\ ListedOnce'
    BY <2>1, <2>2 DEF RInv, LeftIsProject, PlacedRight, NoneLost, ListedOnce
  <2> QED
    BY <2>1, <2>2, <2>3, <2>4, <2>5 DEF RInv, RefusedIfTaken, BuiltIfDone, Modelled
<1> QED
  BY <1>0, <1>1, <1>2, <1>3, <1>4 DEF Next

LEMMA Invariant ==
  Spec => []RInv
BY InitRInv, NextRInv, PTL DEF Spec

(* The tree holds scripts of the project's files only, at places whose      *)
(* names Roblox takes as they are.                                          *)
THEOREM TypeCorrect ==
  Spec => []TypeOK
<1>1. RInv => TypeOK
  BY DEF RInv
<1> QED
  BY <1>1, Invariant, PTL

-----------------------------------------------------------------------------
(* Refusals.                                                                *)

LEMMA OwnPrefix ==
  ASSUME NEW S, NEW p \in Seq(S)
  PROVE  IsPrefix(p, p)
BY DEF IsPrefix

LEMMA RefusedSuffices ==
  RInv => RefusedForAReason
<1> SUFFICES ASSUME RInv, verdict = "refused", ~overlap, ~\E f \in Project : OnlySuffix(f)
             PROVE  \E f, g \in Project :
                      f # g /\ IsPrefix(NodeOf(f), NodeOf(g)) /\ (NodeOf(f) = NodeOf(g) \/ ~is_init(f))
  BY DEF RefusedForAReason
<1>1. Left # {} /\ Taken(NextFile)
  BY DEF RInv, RefusedIfTaken
<1>2. PICK i, f, node : i = Min(Left) /\ f = NextFile /\ node = NodeOf(f)
  OBVIOUS
<1>3. i \in Left /\ f = Order[i] /\ f \in Project
  BY <1>1, <1>2, NextIs DEF RInv
<1>4. \A p \in DOMAIN placed : placed[p] # f /\ placed[p] \in Project /\ NodeOf(placed[p]) = p
  BY <1>3 DEF RInv, ListedOnce, PlacedRight, TypeOK
<1>5. node \in Seq(SafeNames)
  BY <1>2, <1>3, PlacesAreSafe DEF Project, RInv, TypeOK
<1>6. PICK p \in DOMAIN placed : p = node \/ (~is_init(f) /\ IsPrefix(node, p))
  BY <1>1, <1>2 DEF Taken, HasChildren
<1>7. IsPrefix(node, p) /\ (node = p \/ ~is_init(f))
  BY <1>5, <1>6, OwnPrefix
<1> QED
  BY <1>2, <1>3, <1>4, <1>7

(* A build is refused only when a file is named by a suffix alone, two files *)
(* want the same place, a file wants the place of a directory that is not   *)
(* empty, or a file is listed twice.                                        *)
THEOREM SafeRefusedForAReason ==
  Spec => []RefusedForAReason
BY Invariant, RefusedSuffices, PTL

-----------------------------------------------------------------------------
(* Outputs.                                                                 *)

\* The suffixes of scripts are of another kind than names, and the names of
\* index files are no other names made safe.  So it is by default: ".server",
\* ".legacy", ".client", ".local" and "init".
PlainNames ==
  \A f, g \in Files :
    /\ roblox_output_file_stem(f) = roblox_output_file_stem(g) =>
         sanitize(stripped_stem(f)) = sanitize(stripped_stem(g))
    /\ sanitize(stripped_stem(f)) = sanitize(stripped_stem(g)) => (is_init(f) <=> is_init(g))

\* A sequence and one more.
LEMMA AppendsSame ==
  ASSUME NEW S, NEW p \in Seq(S), NEW q \in Seq(S), NEW x, NEW y, Append(p, x) = Append(q, y)
  PROVE  p = q /\ x = y
<1>1. PICK T : T = S \cup {x, y}
  OBVIOUS
<1>2. p \in Seq(T) /\ q \in Seq(T) /\ x \in T /\ y \in T
  BY <1>1
<1>3. PICK r, s : r = Append(p, x) /\ s = Append(q, y)
  OBVIOUS
<1>4. /\ Len(r) = Len(p) + 1 /\ r[Len(p) + 1] = x /\ \A i \in 1..Len(p) : r[i] = p[i]
      /\ Len(s) = Len(q) + 1 /\ s[Len(q) + 1] = y /\ \A i \in 1..Len(q) : s[i] = q[i]
  BY <1>2, <1>3
<1>5. Len(p) = Len(q)
  BY <1>3, <1>4
<1>6. x = y /\ \A i \in 1..Len(p) : p[i] = q[i]
  BY <1>3, <1>4, <1>5
<1> QED
  BY <1>5, <1>6, SeqEqual

LEMMA SameOutputSamePlace ==
  ASSUME PlainNames, NEW f \in Files, NEW g \in Files,
         roblox_output_relative_path(f) = roblox_output_relative_path(g)
  PROVE  NodeOf(f) = NodeOf(g)
<1>1. PICK p, q, x, y :
        /\ p = Safe(f.dir) /\ q = Safe(g.dir)
        /\ x = roblox_output_file_stem(f) /\ y = roblox_output_file_stem(g)
  OBVIOUS
<1>2. p \in Seq(SafeNames) /\ q \in Seq(SafeNames)
  BY <1>1, NamesAssumption, SafeIs DEF MadeSafe
<1>3. Append(p, x) = Append(q, y)
  BY <1>1 DEF roblox_output_relative_path
<1>4. p = q /\ x = y
  BY <1>2, <1>3, AppendsSame
<1>5. sanitize(stripped_stem(f)) = sanitize(stripped_stem(g))
  BY <1>1, <1>4 DEF PlainNames
<1>6. is_init(f) <=> is_init(g)
  BY <1>5 DEF PlainNames
<1>7. CASE is_init(f)
  BY <1>1, <1>4, <1>6, <1>7 DEF NodeOf
<1>8. CASE ~is_init(f)
  BY <1>1, <1>4, <1>5, <1>6, <1>8 DEF NodeOf, instance_name
<1> QED
  BY <1>7, <1>8

LEMMA AllPlaced ==
  ASSUME RInv, Modelled
  PROVE  \A f \in Project : NodeOf(f) \in DOMAIN placed /\ placed[NodeOf(f)] = f
<1>1. Left = {}
  BY DEF RInv, BuiltIfDone
<1> QED
  BY <1>1 DEF RInv, NoneLost, PlacedRight

LEMMA EachFileSuffices ==
  ASSUME PlainNames
  PROVE  RInv => EachFileOnce
<1> SUFFICES ASSUME RInv, Modelled
             PROVE  /\ ToSet(Order) \cap Project = Range(placed) /\ IsInjective(placed)
                    /\ \A f, g \in Project : f # g => roblox_output_relative_path(f) # roblox_output_relative_path(g)
  BY DEF EachFileOnce
<1>1. \A f \in Project : NodeOf(f) \in DOMAIN placed /\ placed[NodeOf(f)] = f
  BY AllPlaced
<1>2. \A p \in DOMAIN placed : placed[p] \in Project /\ NodeOf(placed[p]) = p
  BY DEF RInv, TypeOK, PlacedRight
<1>3. Project \subseteq Files
  BY DEF RInv, TypeOK, Project
<1>4. ToSet(Order) \cap Project = Range(placed)
  BY <1>1, <1>2, <1>3, OrderAssumption DEF Range
<1>5. IsInjective(placed)
  BY <1>2 DEF IsInjective
<1>6. ASSUME NEW f \in Project, NEW g \in Project, roblox_output_relative_path(f) = roblox_output_relative_path(g)
      PROVE  f = g
  <2>1. NodeOf(f) = NodeOf(g)
    BY <1>3, <1>6, SameOutputSamePlace
  <2> QED
    BY <1>1, <2>1
<1> QED
  BY <1>4, <1>5, <1>6

(* A build that makes the model has a place for each file and an output for *)
(* each file, if suffixes and index files are named as by default.          *)
THEOREM SafeEachFileOnce ==
  ASSUME PlainNames
  PROVE  Spec => []EachFileOnce
BY Invariant, EachFileSuffices, PTL

-----------------------------------------------------------------------------
(* Requires.                                                                *)

\* What a look-up for a file may give.
Found == disk \cup {Nobody}

LEMMA FileAtFinds ==
  ASSUME NEW dir, NEW stem, NEW ext
  PROVE  FileAt(dir, stem, ext) \in Found
<1>1. PICK found : found = {f \in disk : f.dir = dir /\ f.stem = stem /\ f.ext = ext}
  OBVIOUS
<1>2. found \subseteq disk
  BY <1>1
<1>3. FileAt(dir, stem, ext) = IF found = {} THEN Nobody ELSE CHOOSE f \in found : TRUE
  BY <1>1 DEF FileAt
<1> QED
  BY <1>2, <1>3 DEF Found

\* A list of look-ups.
LookUps(files) == DOMAIN files \subseteq Nat /\ \A i \in DOMAIN files : files[i] \in Found

LEMMA FirstOfFinds ==
  ASSUME NEW files, LookUps(files)
  PROVE  FirstOf(files) \in Found
<1>1. PICK found : found = {i \in DOMAIN files : files[i] # Nobody}
  OBVIOUS
<1>2. found \subseteq Nat
  BY <1>1 DEF LookUps
<1>3. FirstOf(files) = IF found = {} THEN Nobody ELSE files[Min(found)]
  BY <1>1 DEF FirstOf
<1>4. CASE found = {}
  BY <1>3, <1>4 DEF Found
<1>5. CASE found # {}
  <2>1. Min(found) \in found
    BY <1>2, <1>5, MinIs
  <2> QED
    BY <1>1, <1>3, <1>5, <2>1 DEF LookUps
<1> QED
  BY <1>4, <1>5

LEMMA InExtensionsFinds ==
  ASSUME NEW dir, NEW stem
  PROVE  InExtensions(dir, stem) \in Found
<1>1. PICK files : files = [i \in DOMAIN Extensions |-> FileAt(dir, stem, Extensions[i])]
  OBVIOUS
<1>2. LookUps(files)
  BY <1>1, ConfigAssumption, FileAtFinds DEF LookUps
<1> QED
  BY <1>1, <1>2, FirstOfFinds DEF InExtensions

LEMMA InDirectoryFinds ==
  ASSUME NEW path
  PROVE  InDirectory(path) \in Found
<1> DEFINE script(i) == [j \in DOMAIN ScriptSuffixes |-> InExtensions(path, IndexFiles[i] \o ScriptSuffixes[j])]
<1>1. PICK plain, scripts :
        /\ plain = [i \in DOMAIN IndexFiles |-> InExtensions(path, IndexFiles[i])]
        /\ scripts = [i \in DOMAIN IndexFiles |-> FirstOf(script(i))]
  OBVIOUS
<1>2. LookUps(plain)
  BY <1>1, ConfigAssumption, InExtensionsFinds DEF LookUps
<1>3. \A i : LookUps(script(i))
  BY ConfigAssumption, InExtensionsFinds DEF LookUps
<1>4. LookUps(scripts)
  <2>1. \A i : FirstOf(script(i)) \in Found
    BY <1>3, FirstOfFinds
  <2> QED
    BY <1>1, <2>1, ConfigAssumption DEF LookUps
<1>5. FirstOf(plain) \in Found /\ FirstOf(scripts) \in Found
  BY <1>2, <1>4, FirstOfFinds
<1>6. InDirectory(path) = IF FirstOf(plain) # Nobody THEN FirstOf(plain) ELSE FirstOf(scripts)
  BY <1>1 DEF InDirectory
<1> QED
  BY <1>5, <1>6

\* A require finds a file that exists, if it finds one.
LEMMA RequireFinds ==
  ASSUME NEW current, NEW s
  PROVE  resolve_static_require(current, s) \in Found
<1>1. Nobody \in Found
  BY DEF Found
<1>2. ASSUME NEW path, NEW ext
      PROVE  resolve_source_path(path, ext) \in Found
  <2>1. PICK a, b, c : a = FileAt(Front(path), Last(path), ext) /\ b = InExtensions(Front(path), Last(path)) /\ c = InDirectory(path)
    OBVIOUS
  <2>2. a \in Found /\ b \in Found /\ c \in Found
    BY <2>1, FileAtFinds, InExtensionsFinds, InDirectoryFinds
  <2>3. PICK file : file = IF path = <<>> THEN Nobody ELSE IF ext # "" THEN a ELSE b
    OBVIOUS
  <2>4. resolve_source_path(path, ext) = IF file # Nobody THEN file ELSE IF ext = "" /\ IsDir(path) THEN c ELSE Nobody
    BY <2>1, <2>3 DEF resolve_source_path
  <2> QED
    BY <1>1, <2>2, <2>3, <2>4
<1> QED
  BY <1>1, <1>2 DEF resolve_static_require

\* Two paths have their first `shared` names in common.
LEMMA SharedIs ==
  ASSUME NEW S, NEW p \in Seq(S), NEW q \in Seq(S), NEW shared, shared = Shared(p, q)
  PROVE  /\ shared \in 0..Len(p) /\ shared <= Len(q)
         /\ \A i \in 1..shared : p[i] = q[i]
         /\ shared = Len(p) => IsPrefix(p, q)
<1>1. PICK T : T = {n \in 0..Len(p) : IsPrefix(SubSeq(p, 1, n), q)}
  OBVIOUS
<1>2. PICK len \in Nat : len = Len(p)
  OBVIOUS
<1>3. 0 \in T
  <2>1. SubSeq(p, 1, 0) = <<>> /\ SubSeq(q, 1, 0) = <<>> /\ Len(<<>>) = 0 /\ SubSeq(<<>>, 1, 0) = <<>>
    OBVIOUS
  <2>2. IsPrefix(SubSeq(p, 1, 0), q)
    BY <2>1 DEF IsPrefix
  <2> QED
    BY <1>1, <2>2
<1>4. T \in SUBSET (0..len) /\ T # {}
  BY <1>1, <1>2, <1>3
<1>5. shared \in T
  BY <1>1, <1>4, MaxIs DEF Shared
<1>6. PICK head : head = SubSeq(p, 1, shared)
  OBVIOUS
<1>7. shared \in 0..Len(p) /\ IsPrefix(head, q)
  BY <1>1, <1>5, <1>6
<1>8. Len(head) = shared /\ \A i \in 1..shared : head[i] = p[i]
  BY <1>6, <1>7
<1>9. Len(head) <= Len(q) /\ SubSeq(head, 1, Len(head)) = SubSeq(q, 1, Len(head))
  BY <1>7 DEF IsPrefix
<1>10. \A i \in 1..shared : p[i] = q[i]
  <2>1. \A i \in 1..shared : SubSeq(head, 1, shared)[i] = head[i] /\ SubSeq(q, 1, shared)[i] = q[i]
    BY <1>7, <1>8, <1>9
  <2> QED
    BY <1>8, <1>9, <2>1
<1>11. shared = Len(p) => IsPrefix(p, q)
  <2>1. shared = Len(p) => head = p
    BY <1>6
  <2> QED
    BY <1>7, <2>1
<1> QED
  BY <1>7, <1>8, <1>9, <1>10, <1>11

\* The place of a file a script can require is the path of its module.
LEMMA RequirablePlace ==
  ASSUME NEW f \in Files, Requirable(f), OneSuffix(f)
  PROVE  MadeSafe(module_id(f), NodeOf(f))
<1>1. Alike(f)
  BY PlacesAreAlike
<1>2. suffix(f) = "" \/ is_init(f)
  BY DEF Requirable
<1> QED
  BY <1>1, <1>2 DEF Alike, MadeSafe

\* The place of a script, as far as a path goes up from it.
LEMMA ScriptPlace ==
  ASSUME NEW current \in Files, NEW f \in Files, ~BelowNamesake(current, f), OneSuffix(current),
         NEW shared, shared = Shared(module_id(current), module_id(f))
  PROVE  \A i \in 1..shared : NodeOf(current)[i] = sanitize(module_id(current)[i])
<1>1. PICK p, q, node : p = module_id(current) /\ q = module_id(f) /\ node = NodeOf(current)
  OBVIOUS
<1>2. p \in Seq(STRING) /\ q \in Seq(STRING)
  BY <1>1, ModuleIs
<1>3. \A i \in 1..Len(p) : node[i] = sanitize(p[i]) \/ (i = Len(p) /\ ~is_init(current) /\ suffix(current) # "")
  BY <1>1, PlacesAreAlike DEF Alike
<1>4. shared \in 0..Len(p) /\ (shared = Len(p) => IsPrefix(p, q))
  BY <1>1, <1>2, SharedIs
<1>5. suffix(current) # "" /\ ~is_init(current) => shared # Len(p)
  BY <1>1, <1>4 DEF BelowNamesake
<1>6. \A i \in 1..shared : i \in 1..Len(p) /\ (i = Len(p) => shared = Len(p))
  BY <1>2, <1>4
<1> QED
  BY <1>1, <1>3, <1>5, <1>6

\* An item has the name of its place.
LEMMA ItemNamed ==
  ASSUME RInv, NEW place \in Seq(SafeNames), Len(place) > 0
  PROVE  into_xml_item(place) = place[Len(place)]
<1>1. CASE place \notin DOMAIN placed
  BY <1>1 DEF into_xml_item, Last
<1>2. CASE place \in DOMAIN placed
  <2>1. PICK g : g = placed[place]
    OBVIOUS
  <2>2. g \in Files /\ NodeOf(g) = place /\ into_xml_item(place) = instance_name(g)
    BY <1>2, <2>1 DEF RInv, TypeOK, PlacedRight, Project, into_xml_item
  <2>3. PICK dir, q : dir = g.dir /\ q = Safe(dir)
    OBVIOUS
  <2>4. dir \in Seq(STRING) /\ q \in Seq(SafeNames) /\ Len(q) = Len(dir) /\ \A i \in 1..Len(dir) : q[i] = sanitize(dir[i])
    BY <2>2, <2>3, NamesAssumption, SafeIs DEF MadeSafe
  <2>5. CASE is_init(g)
    <3>1. place = q
      BY <2>2, <2>3, <2>5 DEF NodeOf
    <3>2. dir # <<>> /\ Len(dir) \in 1..Len(dir)
      BY <2>4, <3>1
    <3>3. instance_name(g) = sanitize(dir[Len(dir)])
      BY <2>3, <2>5, <3>2 DEF instance_name, Last
    <3> QED
      BY <2>2, <2>4, <3>1, <3>2, <3>3
  <2>6. CASE ~is_init(g)
    <3>1. PICK name : name = instance_name(g)
      OBVIOUS
    <3>2. place = Append(q, name)
      BY <2>2, <2>3, <2>6, <3>1 DEF NodeOf
    <3>3. Len(place) = Len(q) + 1 /\ place[Len(q) + 1] = name
      BY <2>4, <3>2
    <3> QED
      BY <2>2, <3>1, <3>3
  <2> QED
    BY <2>5, <2>6
<1> QED
  BY <1>1, <1>2

\* The prefixes of a place.
LEMMA PrefixOf ==
  ASSUME NEW S, NEW n \in Seq(S), NEW k \in 1..Len(n)
  PROVE  /\ SubSeq(n, 1, k) \in Seq(S) /\ Len(SubSeq(n, 1, k)) = k
         /\ SubSeq(n, 1, k)[k] = n[k]
OBVIOUS

\* A path from script that goes up to the first `from` names of it.
GoesUpTo(path, script, from) ==
  /\ from \in 0..Len(script)
  /\ path.parents = Len(script) - from
  /\ path.names \in Seq(SafeNames)

\* A place n that has the first `from` names of script and then `names`.
Continues(n, script, from, names) ==
  /\ n \in DOMAIN placed
  /\ n \in Seq(SafeNames)
  /\ Len(n) = from + Len(names)
  /\ \A i \in 1..from : n[i] = script[i]
  /\ \A i \in 1..Len(names) : n[from + i] = names[i]

\* A path reaches the places that have its names: those of the script as far as
\* it goes up, and then those it goes down.
LEMMA ReachedIs ==
  ASSUME RInv, NEW script \in Seq(SafeNames), NEW path, NEW from, NEW n,
         GoesUpTo(path, script, from)
  PROVE  n \in Reached(script, path) <=> Continues(n, script, from, path.names)
<1>0. /\ from \in 0..Len(script)
      /\ path.parents = Len(script) - from
      /\ path.names \in Seq(SafeNames)
  BY DEF GoesUpTo
<1>1. PICK names, head : names = path.names /\ head = SubSeq(script, 1, from)
  OBVIOUS
<1>2. /\ names \in Seq(SafeNames) /\ DOMAIN names = 1..Len(names) /\ Len(names) \in Nat /\ from \in Nat
      /\ head \in Seq(SafeNames) /\ Len(head) = from /\ \A i \in 1..from : head[i] = script[i]
  BY <1>0, <1>1
<1>3. Len(script) - path.parents = from
  BY <1>0, <1>2
<1>4. n \in Reached(script, path) <=>
        /\ n \in DOMAIN placed /\ Len(n) = from + Len(names) /\ IsPrefix(head, n)
        /\ \A i \in 1..Len(names) : into_xml_item(SubSeq(n, 1, from + i)) = names[i]
  <2>1. from >= 0
    BY <1>2
  <2>2. Reached(script, path) =
          {m \in DOMAIN placed :
             /\ from >= 0 /\ Len(m) = from + Len(names) /\ IsPrefix(head, m)
             /\ \A i \in DOMAIN names : into_xml_item(SubSeq(m, 1, from + i)) = names[i]}
    BY <1>1, <1>3, Zenon DEF Reached
  <2> QED
    BY <1>2, <2>1, <2>2, Zenon
<1>5. n \in DOMAIN placed => n \in Seq(SafeNames)
  BY PlacesAreSafe DEF RInv, TypeOK, PlacedRight, Project
<1>6. ASSUME n \in Seq(SafeNames), Len(n) = from + Len(names)
      PROVE  /\ IsPrefix(head, n) <=> \A i \in 1..from : n[i] = head[i]
             /\ \A i \in 1..Len(names) : into_xml_item(SubSeq(n, 1, from + i)) = n[from + i]
  <2>1. SubSeq(head, 1, from) = head /\ from <= Len(n)
    BY <1>2, <1>6
  <2>2. PICK start : start = SubSeq(n, 1, from)
    OBVIOUS
  <2>3. start \in Seq(SafeNames) /\ Len(start) = from /\ \A i \in 1..from : start[i] = n[i]
    BY <1>2, <1>6, <2>1, <2>2
  <2>4. IsPrefix(head, n) <=> head = start
    BY <1>2, <2>1, <2>2 DEF IsPrefix
  <2>5. head = start <=> \A i \in 1..from : n[i] = head[i]
    BY <1>2, <2>3, SeqEqual
  <2>6. ASSUME NEW i \in 1..Len(names)
        PROVE  into_xml_item(SubSeq(n, 1, from + i)) = n[from + i]
    <3>1. PICK k : k = from + i
      OBVIOUS
    <3>2. k \in 1..Len(n) /\ k > 0
      BY <1>2, <1>6, <3>1
    <3>3. PICK place : place = SubSeq(n, 1, k)
      OBVIOUS
    <3>4. place \in Seq(SafeNames) /\ Len(place) = k /\ place[k] = n[k]
      BY <1>6, <3>2, <3>3, PrefixOf
    <3>5. into_xml_item(place) = place[Len(place)]
      BY <3>2, <3>4, ItemNamed
    <3> QED
      BY <3>1, <3>3, <3>4, <3>5
  <2> QED
    BY <2>4, <2>5, <2>6
<1> QED
  BY <1>1, <1>2, <1>4, <1>5, <1>6 DEF Continues

\* The path to f reaches the place of f only.
LEMMA PathReaches ==
  ASSUME RInv, NEW current \in Files, NEW f \in Files, NodeOf(f) \in DOMAIN placed,
         Requirable(f), ~BelowNamesake(current, f), OneSuffix(current), OneSuffix(f)
  PROVE  Reached(NodeOf(current), emit_roblox_path(current, f)) = {NodeOf(f)}
<1>1. PICK p, q, script, node : p = module_id(current) /\ q = module_id(f) /\ script = NodeOf(current) /\ node = NodeOf(f)
  OBVIOUS
<1>2. p \in Seq(STRING) /\ q \in Seq(STRING) /\ script \in Seq(SafeNames) /\ Len(script) = Len(p)
  BY <1>1, PlacesAreAlike, ModuleIs DEF Alike
<1>3. node \in Seq(SafeNames) /\ Len(node) = Len(q) /\ \A i \in 1..Len(q) : node[i] = sanitize(q[i])
  BY <1>1, RequirablePlace DEF MadeSafe
<1>4. PICK shared : shared = Shared(p, q)
  OBVIOUS
<1>5. shared \in 0..Len(p) /\ shared <= Len(q) /\ \A i \in 1..shared : p[i] = q[i]
  BY <1>2, <1>4, SharedIs
<1>6. \A i \in 1..shared : script[i] = sanitize(p[i])
  BY <1>1, <1>4, ScriptPlace
<1>7. PICK rest, names, path :
        /\ rest = SubSeq(q, shared + 1, Len(q)) /\ names = Safe(rest)
        /\ path = emit_roblox_path(current, f)
  OBVIOUS
<1>8. path.parents = Len(p) - shared /\ path.names = names
  BY <1>1, <1>4, <1>7 DEF emit_roblox_path
<1>9. rest \in Seq(STRING) /\ Len(rest) = Len(q) - shared /\ \A i \in 1..Len(rest) : rest[i] = q[shared + i]
  BY <1>2, <1>5, <1>7
<1>10. names \in Seq(SafeNames) /\ Len(names) = Len(rest) /\ \A i \in 1..Len(rest) : names[i] = sanitize(rest[i])
  BY <1>7, <1>9, SafeIs DEF MadeSafe
<1>11. Len(names) \in Nat /\ shared \in Nat /\ Len(node) = shared + Len(names) /\ shared \in 0..Len(script)
  BY <1>2, <1>3, <1>5, <1>9, <1>10
<1>12. \A i \in 1..shared : node[i] = script[i]
  BY <1>2, <1>3, <1>5, <1>6
<1>13. \A i \in 1..Len(names) : node[shared + i] = names[i]
  BY <1>2, <1>3, <1>5, <1>9, <1>10
<1>14. GoesUpTo(path, script, shared)
  BY <1>2, <1>8, <1>10, <1>11 DEF GoesUpTo
<1>15. node \in Reached(script, path)
  <2>1. Continues(node, script, shared, path.names)
    BY <1>1, <1>3, <1>8, <1>11, <1>12, <1>13 DEF Continues
  <2> QED
    BY <1>2, <1>14, <2>1, ReachedIs
<1>16. ASSUME NEW n \in Reached(script, path)
       PROVE  n = node
  <2>1. /\ n \in Seq(SafeNames) /\ Len(n) = shared + Len(names)
        /\ \A i \in 1..shared : n[i] = script[i]
        /\ \A i \in 1..Len(names) : n[shared + i] = names[i]
    <3>1. Continues(n, script, shared, path.names)
      BY <1>2, <1>14, <1>16, ReachedIs
    <3> QED
      BY <1>8, <3>1 DEF Continues
  <2>2. \A i \in 1..Len(n) : i \in 1..shared \/ \E j \in 1..Len(names) : i = shared + j
    <3> TAKE i \in 1..Len(n)
    <3>1. i \notin 1..shared => i - shared \in 1..Len(names) /\ i = shared + (i - shared)
      BY <1>11, <2>1
    <3> QED
      BY <3>1
  <2>3. \A i \in 1..Len(n) : n[i] = node[i]
    BY <1>12, <1>13, <2>1, <2>2
  <2> QED
    BY <1>3, <1>11, <2>1, <2>3, SeqEqual
<1> QED
  BY <1>1, <1>7, <1>15, <1>16

LEMMA RequiresSuffice ==
  RInv => RequiresFind
<1> SUFFICES ASSUME RInv, Modelled, NEW current \in Project, NEW s \in Specifiers,
                    NEW f, f = resolve_static_require(current, s),
                    f # Nobody, Requirable(f), ~BelowNamesake(current, f),
                    OneSuffix(current), OneSuffix(f)
             PROVE  {placed[n] : n \in Reached(NodeOf(current), emit_roblox_path(current, f))} = {f}
  BY DEF RequiresFind
<1>1. f \in disk
  BY RequireFinds DEF Found
<1>2. f \in Project /\ f \in Files /\ current \in Files
  BY <1>1 DEF Project, Requirable, RInv, TypeOK
<1>3. NodeOf(f) \in DOMAIN placed /\ placed[NodeOf(f)] = f
  BY <1>2, AllPlaced
<1>4. Reached(NodeOf(current), emit_roblox_path(current, f)) = {NodeOf(f)}
  BY <1>2, <1>3, PathReaches
<1> QED
  BY <1>3, <1>4

(* A require leads, in the model, from the script it stands in to the       *)
(* script of the file that it finds in the sources, unless that is in a     *)
(* directory named like the script or the name of one of the two ends with  *)
(* several suffixes, for every tree of files and every config of            *)
(* extensions, aliases, suffixes and index files.                           *)
THEOREM SafeRequiresFind ==
  Spec => []RequiresFind
BY Invariant, RequiresSuffice, PTL

=============================================================================
