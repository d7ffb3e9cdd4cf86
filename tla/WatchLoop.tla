------------------------------ MODULE WatchLoop ------------------------------
(* `xluau build --watch` and `xluau check --watch` (src/main.rs,            *)
(* run_operation, watch_operation, snapshot_watch_state): one run, then a   *)
(* loop that sleeps, takes the modification times of the watched files and  *)
(* runs again when they differ from the last ones.  A run, of a check too,  *)
(* first writes the bundle of packages.  The user saves files at any time:  *)
(* while a run reads the sources, which it does file by file, and while a   *)
(* snapshot is taken, which is also done file by file.                      *)
(*                                                                          *)
(* A file is represented by the number of times it was saved, which stands  *)
(* for its contents and its modification time both: no two saves of one     *)
(* file get the same time.                                                  *)
EXTENDS Naturals

CONSTANTS
  Sources,        \* the files a run reads
  Watched,        \* those of them the snapshot lists
  WatchedOutput,  \* does a build write files that the snapshot lists?
  EarlySaves,     \* may the user save before the loop has its first snapshot?
  MaxSaves        \* bound: saves of each file

ASSUME WatchAssumption ==
  /\ Watched \subseteq Sources
  /\ WatchedOutput \in BOOLEAN
  /\ EarlySaves \in BOOLEAN
  /\ MaxSaves \in Nat

VARIABLES
  operation, \* "build" or "check"
  bundles,   \* the configuration has packages and the snapshot lists their bundle
  version,   \* each source as it is on disk
  phase,     \* "bundling" and "reading" in a run, "sleeping", "scanning", "stopped"
  first,     \* the loop has no snapshot yet
  toRead,    \* the sources this run has still to read
  seen,      \* history: what the last run knows, each source as it read it
             \* or, before it did, as it was when the run started
  toScan,    \* the files this snapshot has still to look at
  current,   \* the snapshot being taken
  previous,  \* the last one
  touched    \* a listed output was written since the last snapshot

vars == <<operation, bundles, version, phase, first, toRead, seen, toScan, current, previous, touched>>

Snapshot == [Watched -> 0..MaxSaves]

\* What a run writes when it is over: a check writes no output.
WritesWatched == operation = "build" /\ WatchedOutput

TypeOK ==
  /\ operation \in {"build", "check"}
  /\ bundles \in BOOLEAN
  /\ version \in [Sources -> 0..MaxSaves]
  /\ phase \in {"bundling", "reading", "sleeping", "scanning", "stopped"}
  /\ first \in BOOLEAN
  /\ toRead \subseteq Sources
  /\ seen \in [Sources -> 0..MaxSaves]
  /\ toScan \subseteq Watched
  /\ current \in Snapshot
  /\ previous \in Snapshot
  /\ touched \in BOOLEAN

\* The first run starts before there is a snapshot.
Init ==
  /\ operation \in {"build", "check"}
  /\ bundles \in BOOLEAN
  /\ version = [f \in Sources |-> 0]
  /\ phase = "bundling"
  /\ first = TRUE
  /\ toRead = Sources
  /\ seen = version
  /\ toScan = {}
  /\ current = [f \in Watched |-> 0]
  /\ previous = [f \in Watched |-> 0]
  /\ touched = FALSE

-----------------------------------------------------------------------------
\* ensure_bundle_for_project, with which a build and a check both begin,
\* writes the bundle of packages again, whether or not it has changed.
Bundle ==
  /\ phase = "bundling"
  /\ touched' = (touched \/ bundles)
  /\ phase' = "reading"
  /\ UNCHANGED <<operation, bundles, version, first, toRead, seen, toScan, current, previous>>

\* run_operation_once reads a source.
Read(f) ==
  /\ phase = "reading"
  /\ f \in toRead
  /\ toRead' = toRead \ {f}
  /\ seen' = [seen EXCEPT ![f] = version[f]]
  /\ UNCHANGED <<operation, bundles, version, phase, first, toScan, current, previous, touched>>

\* Mutant: the loop takes its next snapshot when the run is over.
SucceedResnapshot ==
  /\ phase = "reading"
  /\ toRead = {}
  /\ touched' = (touched \/ WritesWatched)
  /\ previous' = [f \in Watched |-> version[f]]
  /\ phase' = IF first THEN "scanning" ELSE "sleeping"
  /\ toScan' = IF first THEN Watched ELSE {}
  /\ UNCHANGED <<operation, bundles, version, first, toRead, seen, current>>

\* The run has compiled every source and writes its outputs.
Succeed ==
  /\ phase = "reading"
  /\ toRead = {}
  /\ touched' = (touched \/ WritesWatched)
  /\ phase' = IF first THEN "scanning" ELSE "sleeping"
  /\ toScan' = IF first THEN Watched ELSE {}
  /\ UNCHANGED <<operation, bundles, version, first, toRead, seen, current, previous>>

\* The run fails: at the bundle, before or while it writes it, at a source or,
\* when it has written some outputs, at an output.  The first run's error ends
\* the program, a later one's is printed.
Fail ==
  /\ phase \in {"bundling", "reading"}
  /\ \E wrote \in BOOLEAN :
       /\ wrote => \/ phase = "bundling" /\ bundles
                   \/ phase = "reading" /\ toRead = {} /\ WritesWatched
       /\ touched' = (touched \/ wrote)
  /\ phase' = IF first THEN "stopped" ELSE "sleeping"
  /\ UNCHANGED <<operation, bundles, version, first, toRead, seen, toScan, current, previous>>

\* The 750 ms are over.
Wake ==
  /\ phase = "sleeping"
  /\ phase' = "scanning"
  /\ toScan' = Watched
  /\ UNCHANGED <<operation, bundles, version, first, toRead, seen, current, previous, touched>>

\* snapshot_files takes the modification time of a file.
Scan(f) ==
  /\ phase = "scanning"
  /\ f \in toScan
  /\ toScan' = toScan \ {f}
  /\ current' = [current EXCEPT ![f] = version[f]]
  /\ UNCHANGED <<operation, bundles, version, phase, first, toRead, seen, previous, touched>>

\* A directory cannot be listed: the error ends the loop.
ScanFails ==
  /\ phase = "scanning"
  /\ phase' = "stopped"
  /\ UNCHANGED <<operation, bundles, version, first, toRead, seen, toScan, current, previous, touched>>

\* The first snapshot is what later ones are compared with.
Begin ==
  /\ phase = "scanning"
  /\ toScan = {}
  /\ first
  /\ first' = FALSE
  /\ previous' = current
  /\ touched' = FALSE
  /\ phase' = "sleeping"
  /\ UNCHANGED <<operation, bundles, version, toRead, seen, toScan, current>>

\* current == previous: sleep again.
Unchanged ==
  /\ phase = "scanning"
  /\ toScan = {}
  /\ ~first
  /\ current = previous
  /\ ~touched
  /\ phase' = "sleeping"
  /\ UNCHANGED <<operation, bundles, version, first, toRead, seen, toScan, current, previous, touched>>

\* Mutant: the snapshot the loop compares with is never replaced.
ChangedKeeping ==
  /\ phase = "scanning"
  /\ toScan = {}
  /\ ~first
  /\ current # previous \/ touched
  /\ touched' = FALSE
  /\ phase' = "bundling"
  /\ toRead' = Sources
  /\ seen' = version
  /\ UNCHANGED <<operation, bundles, version, first, toScan, current, previous>>

\* The snapshots differ: keep the new one, then run again.
Changed ==
  /\ phase = "scanning"
  /\ toScan = {}
  /\ ~first
  /\ current # previous \/ touched
  /\ previous' = current
  /\ touched' = FALSE
  /\ phase' = "bundling"
  /\ toRead' = Sources
  /\ seen' = version
  /\ UNCHANGED <<operation, bundles, version, first, toScan, current>>

\* The user saves a source.
Save(f) ==
  /\ EarlySaves \/ ~first
  /\ version[f] < MaxSaves
  /\ version' = [version EXCEPT ![f] = @ + 1]
  /\ UNCHANGED <<operation, bundles, phase, first, toRead, seen, toScan, current, previous, touched>>

Loop ==
  \/ Bundle
  \/ \E f \in Sources : Read(f)
  \/ Succeed
  \/ Fail
  \/ Wake
  \/ \E f \in Watched : Scan(f)
  \/ ScanFails
  \/ Begin
  \/ Unchanged
  \/ Changed

Next == Loop \/ \E f \in Sources : Save(f)

Spec == Init /\ [][Next]_vars

\* The program's one thread keeps running; the user need not save anything.
FairSpec == Spec /\ WF_vars(Loop)

-----------------------------------------------------------------------------
(* No save is lost once the loop has its first snapshot: a watched file is  *)
(* as the last run knows it, or the next snapshot will differ from the last *)
(* one, also when the save came while a run was reading, before that run    *)
(* failed, or while a snapshot was being taken.                             *)
NoSaveIsLost ==
  \A f \in Watched : ~first => (seen[f] = version[f] \/ previous[f] # version[f])

(* "Polls for file changes when `--watch` is enabled"                       *)
(* (docs/reference/cli.md:221): when the user stops saving, the last run    *)
(* has seen every watched file as it is, unless the program has ended.      *)
CatchesUp ==
  \A f \in Watched : <>[](phase = "stopped" \/ seen[f] = version[f])

(* "Check without writing files" (docs/tooling.md:21): when the user stops  *)
(* saving, the runs of a check stop too.  The exception is a project with   *)
(* packages: each run writes their bundle again, so the next snapshot       *)
(* differs and, once a save has started a second run, there is always       *)
(* another one.                                                             *)
CheckSettles ==
  operation = "check" /\ ~bundles => <>[](phase \notin {"bundling", "reading"})

=============================================================================
