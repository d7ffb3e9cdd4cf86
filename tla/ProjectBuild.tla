---------------------------- MODULE ProjectBuild ----------------------------
(* A build or check of a project or of one file (src/main.rs,               *)
(* run_operation_once; src/compiler.rs, build_project, build_file,          *)
(* write_artifact): the search for circular requires (DependencyCheck),     *)
(* then every file of the build is read a second time and compiled, and     *)
(* only then are the outputs written, one after the other, those of a file  *)
(* together and the project's Roblox model last.  Files are saved at any    *)
(* moment, and any write may fail.                                          *)
(*                                                                          *)
(* What is compiled is represented by the requires of the file, which is    *)
(* what a save changes.                                                     *)
EXTENDS DependencyCheck

CONSTANTS
  Outputs, \* the outputs of a file, in the order they are written
  Earlier, \* an output of an earlier build
  Torn     \* an output whose write failed half way

ASSUME OutputsAssumption ==
  /\ Outputs \in Seq(STRING) /\ Outputs # <<>>
  /\ \A i, j \in 1..Len(Outputs) : Outputs[i] = Outputs[j] => i = j
  /\ Earlier \notin DepLists /\ Torn \notin DepLists /\ Earlier # Torn

VARIABLES
  operation, \* "build" or "check"
  files,     \* the files of this build, in order
  artifacts, \* what each file compiled so far became, in that order
  written,   \* how many outputs are written
  output,    \* the outputs on disk, of each file and kind
  model,     \* the project's model on disk: the artifacts it was made of
  outcome    \* "running", "done" or "failed"

buildVars == <<operation, files, artifacts, written, output, model, outcome>>

BuildTypeOK ==
  /\ operation \in {"build", "check"}
  /\ files \in Seq(Paths)
  /\ artifacts \in Seq(DepLists)
  /\ Len(artifacts) <= Len(files)
  /\ written \in 0..(Len(files) * Len(Outputs))
  /\ output \in [Paths -> [ToSet(Outputs) -> DepLists \cup {Earlier, Torn}]]
  /\ model \in Seq(DepLists) \cup {Earlier, Torn}
  /\ outcome \in {"running", "done", "failed"}

BuildInit ==
  /\ Init
  /\ operation \in {"build", "check"}
  /\ files = entries
  /\ artifacts = <<>>
  /\ written = 0
  /\ output = [p \in Paths |-> [o \in ToSet(Outputs) |-> Earlier]]
  /\ model = Earlier
  /\ outcome = "running"

-----------------------------------------------------------------------------
\* The search goes on, or the user saves a file.
Check == Search /\ UNCHANGED buildVars

UserSaves == (\E p \in Paths : Save(p)) /\ UNCHANGED buildVars

\* Mutant: a file the search could not read is passed over in silence.
RejectCycle ==
  /\ outcome = "running"
  /\ result = "cycle"
  /\ outcome' = "failed"
  /\ UNCHANGED <<vars, operation, files, artifacts, written, output, model>>

\* The search failed: nothing is compiled.
Reject ==
  /\ outcome = "running"
  /\ result \in {"cycle", "error"}
  /\ outcome' = "failed"
  /\ UNCHANGED <<vars, operation, files, artifacts, written, output, model>>

\* Mutant: a file is compiled before the search has ended.
CompileUnchecked ==
  /\ outcome = "running"
  /\ Len(artifacts) < Len(files)
  /\ LET p == files[Len(artifacts) + 1] IN
       IF file[p] = Unusable
       THEN outcome' = "failed" /\ UNCHANGED artifacts
       ELSE artifacts' = Append(artifacts, file[p]) /\ UNCHANGED outcome
  /\ UNCHANGED <<vars, operation, files, written, output, model>>

\* The next file is read again and compiled.
Compile ==
  /\ outcome = "running"
  /\ result = "ok"
  /\ Len(artifacts) < Len(files)
  /\ LET p == files[Len(artifacts) + 1] IN
       IF file[p] = Unusable
       THEN outcome' = "failed" /\ UNCHANGED artifacts
       ELSE artifacts' = Append(artifacts, file[p]) /\ UNCHANGED outcome
  /\ UNCHANGED <<vars, operation, files, written, output, model>>

\* Every file is compiled.
Compiled == result = "ok" /\ outcome = "running" /\ Len(artifacts) = Len(files)

\* `contents` become output number k of the build, counted from 0.
Put(k, contents) ==
  output' = [output EXCEPT ![files[(k \div Len(Outputs)) + 1]][Outputs[(k % Len(Outputs)) + 1]] = contents]

\* Mutant: the outputs of a file are written when it is compiled.
WriteEarly ==
  /\ operation = "build" /\ outcome = "running"
  /\ written < Len(artifacts) * Len(Outputs)
  /\ Put(written, artifacts[(written \div Len(Outputs)) + 1])
  /\ written' = written + 1
  /\ UNCHANGED <<vars, operation, files, artifacts, model, outcome>>

\* Mutant: the outputs of the last file are written first.
WriteBackwards ==
  /\ Compiled /\ operation = "build"
  /\ written < Len(files) * Len(Outputs)
  /\ Put(Len(files) * Len(Outputs) - 1 - written, artifacts[Len(files) - (written \div Len(Outputs))])
  /\ written' = written + 1
  /\ UNCHANGED <<vars, operation, files, artifacts, model, outcome>>

\* write_artifact writes the next output of a file.
Write ==
  /\ Compiled /\ operation = "build"
  /\ written < Len(files) * Len(Outputs)
  /\ Put(written, artifacts[(written \div Len(Outputs)) + 1])
  /\ written' = written + 1
  /\ UNCHANGED <<vars, operation, files, artifacts, model, outcome>>

\* The next write fails, before it changed the file or half way, and the rest
\* is not written.
WriteFails ==
  /\ Compiled /\ operation = "build"
  /\ \/ UNCHANGED <<output, model>>
     \/ written < Len(files) * Len(Outputs) /\ Put(written, Torn) /\ UNCHANGED model
     \/ written = Len(files) * Len(Outputs) /\ Len(files) > 1 /\ model' = Torn /\ UNCHANGED output
  /\ outcome' = "failed"
  /\ UNCHANGED <<vars, operation, files, artifacts, written>>

\* Mutant: the model is written whether or not all outputs are.
FinishEarly ==
  /\ Compiled
  /\ \/ operation = "build" /\ Len(files) > 1 /\ model' = artifacts
     \/ UNCHANGED model
  /\ outcome' = "done"
  /\ UNCHANGED <<vars, operation, files, artifacts, written, output>>

\* All outputs are written.  A build of more than one file may be configured
\* to write the model too; a check writes nothing.
Finish ==
  /\ Compiled
  /\ operation = "build" => written = Len(files) * Len(Outputs)
  /\ \/ operation = "build" /\ Len(files) > 1 /\ model' = artifacts
     \/ UNCHANGED model
  /\ outcome' = "done"
  /\ UNCHANGED <<vars, operation, files, artifacts, written, output>>

Build == Check \/ Reject \/ Compile \/ Write \/ Finish

BuildNext == Build \/ WriteFails \/ UserSaves

\* One thread of the compiler: nothing keeps it from running.
BuildSpec == BuildInit /\ [][BuildNext]_<<vars, buildVars>> /\ WF_<<vars, buildVars>>(Build)

-----------------------------------------------------------------------------
New(p, o) == output[p][o] # Earlier

(* A build that cannot compile every file leaves every output as it was,    *)
(* and so does a check.                                                     *)
FailsClean ==
  operation = "check" \/ result # "ok" \/ Len(artifacts) < Len(files) =>
    model = Earlier /\ \A p \in Paths, o \in ToSet(Outputs) : ~New(p, o)

(* When a write fails, what is left on disk are outputs of this build for a *)
(* first part of the files, and of an earlier build after that: no output   *)
(* is newer than one that comes before it, a source map never newer than    *)
(* its code, and only the very last may be torn, in a build that failed.    *)
WritesInOrder ==
  \A p, q \in 1..Len(files), i, j \in 1..Len(Outputs) :
    New(files[q], Outputs[j]) =>
      /\ p < q \/ (p = q /\ i < j) => output[files[p]][Outputs[i]] = artifacts[p]
      /\ \/ output[files[q]][Outputs[j]] = artifacts[q]
         \/ output[files[q]][Outputs[j]] = Torn /\ outcome = "failed"

(* The project's model is replaced only when all outputs are, and holds     *)
(* what they hold.                                                          *)
ModelMatches ==
  model # Earlier =>
    \A i \in 1..Len(files), o \in ToSet(Outputs) :
      output[files[i]][o] = artifacts[i] /\ (model # Torn => model[i] = artifacts[i])

(* The files are read for the search and again to be compiled.  The         *)
(* requires among the compiled files have a cycle only when one of the      *)
(* files was saved in between.                                              *)
CompiledAcyclic ==
  (\A i \in 1..Len(artifacts) : artifacts[i] = read[files[i]]) =>
    \A S \in SUBSET (1..Len(artifacts)) : S # {} =>
      \E i \in S : \A j \in S : files[j] \notin ToSet(artifacts[i])

(* A build or check comes to an end.                                        *)
Completes == <>(outcome # "running")

=============================================================================
