-------------------------- MODULE DependencyCheck --------------------------
(* The search for circular requires that every build makes first            *)
(* (src/module.rs, detect_circular_dependencies; src/compiler.rs,           *)
(* check_cycles).  It visits the files of the build one after the other and *)
(* from each file, depth first, those it requires.  Each file is read when  *)
(* its visit starts, so an editor that saves files meanwhile decides, file  *)
(* by file, which requires the search sees.                                 *)
EXTENDS Naturals, SequencesExt

CONSTANTS
  Paths,      \* the source files
  DepLists,   \* the require lists a file may have, as resolved paths
  Unusable,   \* contents that cannot be read, lexed or resolved
  EntryLists, \* the files of a build, in order
  MaxSaves    \* bound: files saved while the search runs

ASSUME ContentsAssumption ==
  /\ DepLists \subseteq Seq(Paths)
  /\ Unusable \notin DepLists
  /\ EntryLists \subseteq Seq(Paths)
  /\ MaxSaves \in Nat

VARIABLES
  file,    \* what each source file requires now
  entries, \* the files of this build that are still to be visited
  states,  \* VisitState of each path, "New" for a path not in the map
  stack,   \* visits in progress, innermost last
  read,    \* history: the requires each visit read
  asked,   \* history: the entry points visited so far
  result,  \* "checking", "ok", "cycle" or "error"
  cycle,   \* the reported cycle
  saves    \* counts the saves, for MaxSaves

vars == <<file, entries, states, stack, read, asked, result, cycle, saves>>

\* A visit in progress and the requires it has still to follow.
Frame == [path : Paths, todo : Seq(Paths)]

TypeOK ==
  /\ file \in [Paths -> DepLists \cup {Unusable}]
  /\ entries \in Seq(Paths)
  /\ states \in [Paths -> {"New", "Visiting", "Visited"}]
  /\ stack \in Seq(Frame)
  /\ read \in [Paths -> Seq(Paths)]
  /\ asked \subseteq Paths
  /\ result \in {"checking", "ok", "cycle", "error"}
  /\ cycle \in Seq(Paths)
  /\ saves \in 0..MaxSaves

Init ==
  /\ file \in [Paths -> DepLists \cup {Unusable}]
  /\ entries \in EntryLists
  /\ states = [p \in Paths |-> "New"]
  /\ stack = <<>>
  /\ read = [p \in Paths |-> <<>>]
  /\ asked = {}
  /\ result = "checking"
  /\ cycle = <<>>
  /\ saves = 0

-----------------------------------------------------------------------------
Top == stack[Len(stack)]

\* Mutant: a path in the map is skipped, whatever its state.
SkipKnown(p, below) ==
  /\ states[p] # "New"
  /\ stack' = below
  /\ UNCHANGED <<states, read, result, cycle>>

\* p has been visited: nothing to do.
SkipVisited(p, below) ==
  /\ states[p] = "Visited"
  /\ stack' = below
  /\ UNCHANGED <<states, read, result, cycle>>

\* Mutant: the whole stack is reported.
ReportStack(p, below) ==
  /\ states[p] = "Visiting"
  /\ cycle' = Append([d \in 1..Len(below) |-> below[d].path], p)
  /\ result' = "cycle"
  /\ stack' = below
  /\ UNCHANGED <<states, read>>

\* p is being visited: the stack from p on is a cycle.
ReportCycle(p, below) ==
  /\ states[p] = "Visiting"
  /\ \E start \in 1..Len(below) :
       /\ below[start].path = p
       /\ \A d \in 1..(start - 1) : below[d].path # p
       /\ cycle' = Append([d \in 1..(Len(below) + 1 - start) |-> below[start + d - 1].path], p)
  /\ result' = "cycle"
  /\ stack' = below
  /\ UNCHANGED <<states, read>>

\* p is new: mark it, read it and follow its requires.  A search that fails
\* drops its stack.
Enter(p, below) ==
  /\ states[p] = "New"
  /\ states' = [states EXCEPT ![p] = "Visiting"]
  /\ \/ /\ file[p] = Unusable
        /\ result' = "error"
        /\ stack' = below
        /\ UNCHANGED read
     \/ /\ file[p] # Unusable
        /\ stack' = Append(below, [path |-> p, todo |-> file[p]])
        /\ read' = [read EXCEPT ![p] = file[p]]
        /\ UNCHANGED result
  /\ UNCHANGED cycle

\* visit_dependency(p), called with the visits `below` in progress.
Visit(p, below) == SkipVisited(p, below) \/ ReportCycle(p, below) \/ Enter(p, below)

-----------------------------------------------------------------------------
\* The loop over the entry points calls the visit of the next one.
VisitEntry ==
  /\ result = "checking"
  /\ stack = <<>>
  /\ entries # <<>>
  /\ Visit(Head(entries), stack)
  /\ entries' = Tail(entries)
  /\ asked' = asked \cup {Head(entries)}
  /\ UNCHANGED <<file, saves>>

\* The loop over the requires of a file calls the visit of the next one.
VisitRequired ==
  /\ result = "checking"
  /\ stack # <<>>
  /\ Top.todo # <<>>
  /\ Visit(Head(Top.todo), [stack EXCEPT ![Len(stack)].todo = Tail(@)])
  /\ UNCHANGED <<file, entries, asked, saves>>

\* The requires of a file are done: pop it and mark it.
Leave ==
  /\ result = "checking"
  /\ stack # <<>>
  /\ Top.todo = <<>>
  /\ states' = [states EXCEPT ![Top.path] = "Visited"]
  /\ stack' = Front(stack)
  /\ UNCHANGED <<file, entries, read, asked, result, cycle, saves>>

\* Every entry point is done: the build goes on.
Accept ==
  /\ result = "checking"
  /\ stack = <<>>
  /\ entries = <<>>
  /\ result' = "ok"
  /\ UNCHANGED <<file, entries, states, stack, read, asked, cycle, saves>>

\* The user saves a file.
Save(p) ==
  /\ saves < MaxSaves
  /\ saves' = saves + 1
  /\ \E contents \in DepLists \cup {Unusable} : file' = [file EXCEPT ![p] = contents]
  /\ UNCHANGED <<entries, states, stack, read, asked, result, cycle>>

Search == VisitEntry \/ VisitRequired \/ Leave \/ Accept

Next == Search \/ \E p \in Paths : Save(p)

Spec == Init /\ [][Next]_vars

-----------------------------------------------------------------------------
Requires(p, q) == q \in ToSet(read[p])

VisitedPaths == {p \in Paths : states[p] = "Visited"}

\* Some member of every set of these paths requires none of the set.
Acyclic(paths) ==
  \A S \in SUBSET paths : S # {} => \E p \in S : \A q \in S : ~Requires(p, q)

(* A build that passes the check has no circular requires: the entry points *)
(* and all they require, directly or not, were read and form no cycle, also *)
(* when files were saved while the search ran.                              *)
AcceptedIsAcyclic ==
  result = "ok" =>
    /\ asked \subseteq VisitedPaths
    /\ \A p \in VisitedPaths : ToSet(read[p]) \subseteq VisitedPaths
    /\ Acyclic(VisitedPaths)

(* A reported cycle is one: each of its files requires the next, the last   *)
(* is the first, and no other file is named twice.                          *)
ReportedIsCycle ==
  result = "cycle" =>
    /\ Len(cycle) >= 2
    /\ cycle[1] = cycle[Len(cycle)]
    /\ \A i \in 1..(Len(cycle) - 1) : Requires(cycle[i], cycle[i + 1])
    /\ \A i, j \in 1..(Len(cycle) - 1) : cycle[i] = cycle[j] => i = j

=============================================================================
