--------------------------- MODULE WatchLoopProofs ---------------------------
(* The watch loop loses no save made after its first snapshot, for any set  *)
(* of files, whether or not its own outputs are watched.                    *)
EXTENDS WatchLoop, TLAPS

\* A snapshot is never ahead of the disk: the next save of a file differs from
\* every snapshot taken before it.
SnapshotsArePast ==
  \A f \in Watched : previous[f] <= version[f] /\ current[f] <= version[f]

\* Without early saves the first run knows every source as it is.
FirstRunKnows == first /\ ~EarlySaves => seen = version

IInv ==
  /\ TypeOK
  /\ SnapshotsArePast
  /\ FirstRunKnows
  /\ ~EarlySaves => NoSaveIsLost

LEMMA InitInv == Init => IInv
<1> SUFFICES ASSUME Init PROVE IInv
    OBVIOUS
<1>0. 0 \in 0..MaxSaves /\ Watched \subseteq Sources
    BY WatchAssumption
<1>1. TypeOK
  <2>1. [f \in Sources |-> 0] \in [Sources -> 0..MaxSaves]
      BY <1>0
  <2>2. [f \in Watched |-> 0] \in [Watched -> 0..MaxSaves]
      BY <1>0
  <2> QED
      BY <2>1, <2>2 DEF Init, TypeOK, Snapshot
<1>2. SnapshotsArePast
  <2>1. \A f \in Watched : previous[f] = 0 /\ current[f] = 0 /\ version[f] = 0
      BY <1>0 DEF Init
  <2> QED
      BY <2>1 DEF SnapshotsArePast
<1> QED
    BY <1>1, <1>2 DEF Init, IInv, FirstRunKnows, NoSaveIsLost

\* A step that touches no file, no snapshot and no run's knowledge.
LEMMA QuietInv ==
  ASSUME IInv, UNCHANGED <<operation, bundles, version, first, seen, current, previous>>,
         phase' \in {"bundling", "reading", "sleeping", "scanning", "stopped"},
         toRead' \subseteq Sources, toScan' \subseteq Watched, touched' \in BOOLEAN
  PROVE  IInv'
<1>1. TypeOK'
    BY DEF IInv, TypeOK, Snapshot
<1>2. SnapshotsArePast' /\ FirstRunKnows' /\ (~EarlySaves => NoSaveIsLost')
    BY DEF IInv, SnapshotsArePast, FirstRunKnows, NoSaveIsLost
<1> QED
    BY <1>1, <1>2 DEF IInv

LEMMA ReadInv == ASSUME IInv, NEW f \in Sources, Read(f) PROVE IInv'
<1>1. version \in [Sources -> 0..MaxSaves] /\ seen \in [Sources -> 0..MaxSaves]
    BY DEF IInv, TypeOK
<1>2. \A g \in Sources : seen'[g] = IF g = f THEN version[g] ELSE seen[g]
    BY <1>1 DEF Read
<1>3. TypeOK'
    BY <1>1 DEF Read, IInv, TypeOK, Snapshot
<1>4. SnapshotsArePast'
    BY DEF Read, IInv, SnapshotsArePast
<1>5. FirstRunKnows'
  <2>1. ASSUME first, ~EarlySaves PROVE seen' = version
      BY <1>1, <2>1 DEF Read, IInv, FirstRunKnows
  <2> QED
      BY <2>1 DEF Read, FirstRunKnows
<1>6. ~EarlySaves => NoSaveIsLost'
    BY <1>2, WatchAssumption DEF Read, IInv, NoSaveIsLost
<1> QED
    BY <1>3, <1>4, <1>5, <1>6 DEF IInv

LEMMA ScanInv == ASSUME IInv, NEW f \in Watched, Scan(f) PROVE IInv'
<1>1. /\ version \in [Sources -> 0..MaxSaves] /\ current \in [Watched -> 0..MaxSaves]
      /\ f \in Sources /\ MaxSaves \in Nat
    BY WatchAssumption DEF IInv, TypeOK, Snapshot
<1>2. current' \in [Watched -> 0..MaxSaves] /\ current'[f] = version[f]
    BY <1>1 DEF Scan
<1>3. \A g \in Watched : g # f => current'[g] = current[g]
    BY <1>1 DEF Scan
<1>4. TypeOK'
    BY <1>2 DEF Scan, IInv, TypeOK, Snapshot
<1>5. SnapshotsArePast'
    BY <1>1, <1>2, <1>3, WatchAssumption DEF Scan, IInv, SnapshotsArePast
<1>6. FirstRunKnows' /\ (~EarlySaves => NoSaveIsLost')
    BY DEF Scan, IInv, FirstRunKnows, NoSaveIsLost
<1> QED
    BY <1>4, <1>5, <1>6 DEF IInv

LEMMA BeginInv == ASSUME IInv, Begin PROVE IInv'
<1>1. TypeOK'
    BY DEF Begin, IInv, TypeOK, Snapshot
<1>2. SnapshotsArePast' /\ FirstRunKnows'
    BY DEF Begin, IInv, SnapshotsArePast, FirstRunKnows
<1>3. ~EarlySaves => NoSaveIsLost'
    BY DEF Begin, IInv, FirstRunKnows, NoSaveIsLost
<1> QED
    BY <1>1, <1>2, <1>3 DEF IInv

LEMMA ChangedInv == ASSUME IInv, Changed PROVE IInv'
<1>1. TypeOK'
    BY DEF Changed, IInv, TypeOK, Snapshot
<1>2. SnapshotsArePast' /\ FirstRunKnows' /\ NoSaveIsLost'
    BY DEF Changed, IInv, SnapshotsArePast, FirstRunKnows, NoSaveIsLost
<1> QED
    BY <1>1, <1>2 DEF IInv

LEMMA SaveInv == ASSUME IInv, NEW f \in Sources, Save(f) PROVE IInv'
<1>1. /\ version \in [Sources -> 0..MaxSaves] /\ version[f] < MaxSaves /\ MaxSaves \in Nat
      /\ version' = [version EXCEPT ![f] = @ + 1] /\ (EarlySaves \/ ~first)
      /\ previous \in [Watched -> 0..MaxSaves] /\ current \in [Watched -> 0..MaxSaves]
      /\ UNCHANGED <<operation, bundles, phase, first, toRead, seen, toScan, current, previous, touched>>
    BY WatchAssumption DEF Save, IInv, TypeOK, Snapshot
<1>2. version[f] \in Nat /\ version[f] + 1 \in 0..MaxSaves
  <2>1. version[f] \in 0..MaxSaves
      BY <1>1
  <2> QED
      BY <1>1, <2>1
<1>3. version \in [Sources -> 0..MaxSaves] /\ version' = [version EXCEPT ![f] = @ + 1]
    BY DEF Save, IInv, TypeOK
<1>4. version' \in [Sources -> 0..MaxSaves] /\ version'[f] = version[f] + 1
  <2> DEFINE v == version[f] + 1
  <2>1. v \in 0..MaxSaves /\ version' = [version EXCEPT ![f] = v]
      BY <1>2, <1>3
  <2> HIDE DEF v
  <2>2. version' \in [Sources -> 0..MaxSaves] /\ version'[f] = v
      BY <1>3, <2>1
  <2> QED
      BY <2>2 DEF v
<1>5. \A g \in Sources : g # f => version'[g] = version[g]
    BY <1>3
<1>6. TypeOK'
    BY <1>1, <1>4 DEF IInv, TypeOK, Snapshot
<1>7. ASSUME NEW g \in Watched
      PROVE  /\ previous'[g] <= version'[g] /\ current'[g] <= version'[g]
             /\ g = f => previous'[g] # version'[g]
  <2>1. previous[g] <= version[g] /\ current[g] <= version[g] /\ g \in Sources
      BY WatchAssumption DEF IInv, SnapshotsArePast
  <2>2. previous[g] \in Nat /\ current[g] \in Nat /\ version[g] \in Nat
      BY <1>1, <2>1
  <2> QED
      BY <1>1, <1>4, <1>5, <2>1, <2>2
<1>8. SnapshotsArePast'
    BY <1>7 DEF SnapshotsArePast
<1>9. FirstRunKnows'
    BY <1>1 DEF FirstRunKnows
<1>10. ~EarlySaves => NoSaveIsLost'
    BY <1>1, <1>5, <1>7, WatchAssumption DEF IInv, NoSaveIsLost
<1> QED
    BY <1>6, <1>8, <1>9, <1>10 DEF IInv

LEMMA NextInv == IInv /\ [Next]_vars => IInv'
<1> SUFFICES ASSUME IInv, [Next]_vars PROVE IInv'
    OBVIOUS
<1> USE WatchAssumption
<1>0. CASE Bundle
    BY <1>0, QuietInv DEF Bundle, IInv, TypeOK
<1>1. ASSUME NEW f \in Sources, Read(f) PROVE IInv'
    BY <1>1, ReadInv
<1>2. CASE Succeed
    BY <1>2, QuietInv DEF Succeed, WritesWatched, IInv, TypeOK
<1>3. CASE Fail
  <2>1. touched' \in BOOLEAN
      BY <1>3 DEF Fail, IInv, TypeOK
  <2> QED
      BY <1>3, <2>1, QuietInv DEF Fail, IInv, TypeOK
<1>4. CASE Wake
    BY <1>4, QuietInv DEF Wake, IInv, TypeOK
<1>5. ASSUME NEW f \in Watched, Scan(f) PROVE IInv'
    BY <1>5, ScanInv
<1>6. CASE ScanFails
    BY <1>6, QuietInv DEF ScanFails, IInv, TypeOK
<1>7. CASE Begin
    BY <1>7, BeginInv
<1>8. CASE Unchanged
    BY <1>8, QuietInv DEF Unchanged, IInv, TypeOK
<1>9. CASE Changed
    BY <1>9, ChangedInv
<1>10. ASSUME NEW f \in Sources, Save(f) PROVE IInv'
    BY <1>10, SaveInv
<1>11. CASE UNCHANGED vars
    BY <1>11, QuietInv DEF vars, IInv, TypeOK
<1> QED
    BY <1>0, <1>1, <1>2, <1>3, <1>4, <1>5, <1>6, <1>7, <1>8, <1>9, <1>10, <1>11 DEF Next, Loop

LEMMA Inductive == Spec => []IInv
BY InitInv, NextInv, PTL DEF Spec

-----------------------------------------------------------------------------
\* Every variable of the watch loop keeps its type.
THEOREM TypeCorrect == Spec => []TypeOK
<1>1. IInv => TypeOK
    BY DEF IInv
<1> QED
    BY <1>1, Inductive, PTL

(* A save made after the first snapshot of watch_operation is never lost,   *)
(* whatever the loop was doing when it came.                                *)
THEOREM SafeNoSaveIsLost == ASSUME ~EarlySaves PROVE Spec => []NoSaveIsLost
<1>1. IInv => NoSaveIsLost
    BY ~EarlySaves DEF IInv
<1> QED
    BY <1>1, Inductive, PTL

=============================================================================
