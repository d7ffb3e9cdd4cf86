--------------------------- MODULE PackageManager ---------------------------
(* `xluau install`, `update` and `remove` (src/package_manager.rs) on the   *)
(* four things they keep on disk: xluau.config.json, xluau.lock, the        *)
(* package sources under xluau_packages/, and packages.luau.  A command     *)
(* reads config and lock when it starts, replaces package directories one   *)
(* after the other, and writes its files at the end.  It can end at any     *)
(* point: a fetch, a write or the bundle fails, or the user interrupts it.  *)
(* A build, which makes packages.luau anew, may run beside it.              *)
(*                                                                          *)
(* A package is named by its id, a number: packages.luau declares packages  *)
(* in the order of their ids.  Its alias is taken to be its id.  A          *)
(* directory is represented by the version it holds, and a write of a file  *)
(* is one step.                                                             *)
EXTENDS Naturals, SequencesExt

CONSTANTS
  Packages,     \* the package ids
  Versions,     \* their versions
  Latest,       \* a config entry without a version
  None,         \* no entry, no directory, a directory without a manifest
  Partial,      \* a directory with a manifest where other files are missing
  Deps,         \* Deps[p][v]: what p at v depends on, as <<package, version>>
  MaxCommands   \* bound: commands run

ASSUME PackagesAssumption ==
  /\ Packages \subseteq Nat /\ IsFiniteSet(Packages)
  /\ None \notin Versions \cup {Latest}
  /\ Latest \notin Versions
  /\ Partial \notin Versions \cup {Latest, None}
  /\ Deps \in [Packages -> [Versions -> Seq(Packages \X Versions)]]
  /\ MaxCommands \in Nat

VARIABLES
  config,     \* xluau.config.json: the source of each package
  lock,       \* xluau.lock: the version of each package
  disk,       \* xluau_packages/: the version of each package
  bundle,     \* packages.luau: the version of each package it contains
  command,    \* the last command started
  pc,         \* where it is; "ok" or "failed" when it has ended
  newConfig,  \* its config and its lock, in memory
  newLock,
  stack,      \* its installs in progress, innermost last
  seen,       \* the packages it has visited
  dirty,      \* history: directories replaced by a version no lock was written with
  commands    \* counts the commands, for MaxCommands

vars == <<config, lock, disk, bundle, command, pc, newConfig, newLock, stack, seen,
          dirty, commands>>

Request == Packages \X Versions
Sources == {Latest, None} \cup Versions
Pins == [Packages -> Versions \cup {None}]
Stored == [Packages -> Versions \cup {None, Partial}]

\* The bottom frame is the command itself, with the packages it was asked for.
Frame == [self : Request \cup {None}, todo : Seq(Request)]

TypeOK ==
  /\ config \in [Packages -> Sources]
  /\ lock \in Pins
  /\ disk \in Stored
  /\ bundle \in Stored
  /\ command \in {"none", "install all", "install", "update", "remove"}
  /\ pc \in {"fetching", "storing", "config", "lock", "bundle", "ok", "failed"}
  /\ newConfig \in [Packages -> Sources]
  /\ newLock \in Pins
  /\ stack \in Seq(Frame)
  /\ Len(stack) <= Cardinality(Packages) + 1   \* the depth of the recursion
  /\ seen \subseteq Packages
  /\ dirty \subseteq Packages
  /\ commands \in 0..MaxCommands

Nothing == [p \in Packages |-> None]

\* A project without packages.
Init ==
  /\ config = Nothing
  /\ lock = Nothing
  /\ disk = Nothing
  /\ bundle = Nothing
  /\ command = "none"
  /\ pc = "ok"
  /\ newConfig = Nothing
  /\ newLock = Nothing
  /\ stack = <<>>
  /\ seen = {}
  /\ dirty = {}
  /\ commands = 0

-----------------------------------------------------------------------------
Running == pc \notin {"ok", "failed"}

Required(cfg) == {p \in Packages : cfg[p] # None}

\* A command starts: it reads the lock.
Starts(name) ==
  /\ ~Running
  /\ commands < MaxCommands
  /\ commands' = commands + 1
  /\ command' = name
  /\ seen' = {}
  /\ UNCHANGED <<config, lock, disk, bundle, dirty>>

\* It goes on to install the requests.
Installs(requests) ==
  /\ newLock' = lock
  /\ stack' = << [self |-> None, todo |-> requests] >>
  /\ pc' = "fetching"

\* `install` or `update` without names: all the config's packages in order,
\* at the registry's latest version where the config has none.
InstallAll ==
  /\ Starts("install all")
  /\ newConfig' = config
  /\ \E latest \in [Packages -> Versions],
        ids \in [1..Cardinality(Required(config)) -> Required(config)] :
       /\ Range(ids) = Required(config)
       /\ \A i, j \in DOMAIN ids : i < j => ids[i] < ids[j]
       /\ Installs([i \in DOMAIN ids |->
            <<ids[i], IF config[ids[i]] = Latest THEN latest[ids[i]] ELSE config[ids[i]]>>])

\* `install p`, `install p@v` or, keeping the version in the config,
\* `install gh:.../p@v`.
InstallPackage(p, v, source) ==
  /\ Starts("install")
  /\ source \in {Latest, v}
  /\ newConfig' = [config EXCEPT ![p] = source]
  /\ Installs(<< <<p, v>> >>)

\* `update p ...`: an alias the config has keeps its source.
UpdatePackage(p, v, source) ==
  /\ Starts("update")
  /\ source \in {Latest, v}
  /\ newConfig' = [config EXCEPT ![p] = IF @ = None THEN source ELSE @]
  /\ Installs(<< <<p, v>> >>)

\* `remove p ...`: the lock keeps what the config still requires.
RemovePackages(gone) ==
  /\ Starts("remove")
  /\ newConfig' = [p \in Packages |-> IF p \in gone THEN None ELSE config[p]]
  /\ newLock' = [p \in Packages |-> IF p \in Required(newConfig') THEN lock[p] ELSE None]
  /\ stack' = <<>>
  /\ pc' = "config"

-----------------------------------------------------------------------------
Top == Last(stack)

\* Mutant: a package whose own dependencies are being installed is waited for.
SkipInstalled ==
  /\ pc = "fetching"
  /\ Top.todo # <<>>
  /\ Head(Top.todo)[1] \in seen \ {stack[i].self[1] : i \in 2..Len(stack)}
  /\ stack' = [stack EXCEPT ![Len(stack)].todo = Tail(@)]
  /\ UNCHANGED <<config, lock, disk, bundle, command, pc, newConfig, newLock, seen, dirty, commands>>

\* install_source_recursive meets a package it has visited.
SkipSeen ==
  /\ pc = "fetching"
  /\ Top.todo # <<>>
  /\ Head(Top.todo)[1] \in seen
  /\ stack' = [stack EXCEPT ![Len(stack)].todo = Tail(@)]
  /\ UNCHANGED <<config, lock, disk, bundle, command, pc, newConfig, newLock, seen, dirty, commands>>

\* It meets a new one: fetch_and_store_package removes the package's directory.
Fetch ==
  /\ pc = "fetching"
  /\ Top.todo # <<>>
  /\ LET p == Head(Top.todo)[1] IN
       /\ p \notin seen
       /\ seen' = seen \cup {p}
       /\ disk' = [disk EXCEPT ![p] = None]
       /\ dirty' = dirty \cup {p}
  /\ pc' = "storing"
  /\ UNCHANGED <<config, lock, bundle, command, newConfig, newLock, stack, commands>>

\* Files of the package are there, not all of them.
StoreSome ==
  /\ pc = "storing"
  /\ disk' = [disk EXCEPT ![Head(Top.todo)[1]] = Partial]
  /\ UNCHANGED <<config, lock, bundle, command, pc, newConfig, newLock, stack, seen, dirty, commands>>

\* The package is stored; its dependencies come next.
Store ==
  /\ pc = "storing"
  /\ LET p == Head(Top.todo)[1]
         v == Head(Top.todo)[2]
     IN
       /\ disk' = [disk EXCEPT ![p] = v]
       /\ stack' = Append([stack EXCEPT ![Len(stack)].todo = Tail(@)],
                          [self |-> <<p, v>>, todo |-> Deps[p][v]])
  /\ pc' = "fetching"
  /\ UNCHANGED <<config, lock, bundle, command, newConfig, newLock, seen, dirty, commands>>

\* Its dependencies are installed: it joins the lock in memory.
Pin ==
  /\ pc = "fetching"
  /\ Len(stack) > 1
  /\ Top.todo = <<>>
  /\ newLock' = [newLock EXCEPT ![Top.self[1]] = Top.self[2]]
  /\ stack' = Front(stack)
  /\ UNCHANGED <<config, lock, disk, bundle, command, pc, newConfig, seen, dirty, commands>>

\* The requests are installed.  Installing all writes no config.
Installed ==
  /\ pc = "fetching"
  /\ Len(stack) = 1
  /\ Top.todo = <<>>
  /\ stack' = <<>>
  /\ pc' = IF command = "install all" THEN "lock" ELSE "config"
  /\ UNCHANGED <<config, lock, disk, bundle, command, newConfig, newLock, seen, dirty, commands>>

WriteConfig ==
  /\ pc = "config"
  /\ config' = newConfig
  /\ pc' = "lock"
  /\ UNCHANGED <<lock, disk, bundle, command, newConfig, newLock, stack, seen, dirty, commands>>

\* Mutant: `install` forgets to write the lock.
WriteLockUnlessAll ==
  /\ pc = "lock"
  /\ lock' = IF command = "install all" THEN lock ELSE newLock
  /\ dirty' = dirty \ seen
  /\ pc' = "bundle"
  /\ UNCHANGED <<config, disk, bundle, command, newConfig, newLock, stack, seen, commands>>

WriteLock ==
  /\ pc = "lock"
  /\ lock' = newLock
  /\ dirty' = dirty \ seen
  /\ pc' = "bundle"
  /\ UNCHANGED <<config, disk, bundle, command, newConfig, newLock, stack, seen, commands>>

\* Every package of the config is in the lock and has a manifest on disk.
CanBundle == \A p \in Required(config) : lock[p] # None /\ disk[p] # None

Bundled == [p \in Packages |-> IF p \in Required(config) THEN disk[p] ELSE None]

\* Mutant: a package without a directory is left out of the bundle.
BundleAnything ==
  /\ pc = "bundle"
  /\ \/ Required(config) = {} /\ pc' = "ok" /\ UNCHANGED bundle
     \/ Required(config) # {} /\ pc' = "ok" /\ bundle' = Bundled
  /\ UNCHANGED <<config, lock, disk, command, newConfig, newLock, stack, seen, dirty, commands>>

\* The last step of a command.  A config without packages leaves packages.luau
\* as it is.  Files missing from a package are noticed when one it has needs them.
Bundle ==
  /\ pc = "bundle"
  /\ \/ Required(config) = {} /\ pc' = "ok" /\ UNCHANGED bundle
     \/ Required(config) # {} /\ CanBundle /\ pc' = "ok" /\ bundle' = Bundled
     \/ Required(config) # {} /\ (CanBundle => Partial \in Range(Bundled))
        /\ pc' = "failed" /\ UNCHANGED bundle
  /\ UNCHANGED <<config, lock, disk, command, newConfig, newLock, stack, seen, dirty, commands>>

\* A step fails or the user interrupts the command.
Interrupt ==
  /\ Running
  /\ pc' = "failed"
  /\ UNCHANGED <<config, lock, disk, bundle, command, newConfig, newLock, stack, seen, dirty, commands>>

\* ensure_bundle_for_project, at the start of every build.
Build ==
  /\ Required(config) # {}
  /\ CanBundle
  /\ bundle' = Bundled
  /\ UNCHANGED <<config, lock, disk, command, pc, newConfig, newLock, stack, seen, dirty, commands>>

Step ==
  SkipSeen \/ Fetch \/ Store \/ Pin \/ Installed \/ WriteConfig \/ WriteLock \/ Bundle

Next ==
  \/ InstallAll
  \/ \E p \in Packages, v \in Versions, source \in Sources : InstallPackage(p, v, source)
  \/ \E p \in Packages, v \in Versions, source \in Sources : UpdatePackage(p, v, source)
  \/ \E gone \in SUBSET Packages : RemovePackages(gone)
  \/ Step
  \/ StoreSome
  \/ Interrupt
  \/ Build

Spec == Init /\ [][Next]_vars

\* A command that nobody interrupts goes on: git and the disk answer.
FairSpec == Spec /\ WF_vars(Step)

-----------------------------------------------------------------------------
(* "exact pins are written to xluau.lock" (docs/tooling.md:65): what the    *)
(* lock says of a package is what is stored, except for a package whose     *)
(* directory was replaced by a command that did not get to write its lock.  *)
PinsAreStored ==
  \A p \in Packages \ dirty : lock[p] # None => disk[p] = lock[p]

\* The packages the config requires, and all they depend on as stored.
Needed ==
  LET Closed(S) == \A p \in S : disk[p] \in Versions => \A d \in ToSet(Deps[p][disk[p]]) : d[1] \in S
  IN {p \in Packages : \A S \in SUBSET Packages : Required(config) \subseteq S /\ Closed(S) => p \in S}

(* A command that succeeds leaves a project that builds: what the config    *)
(* requires is in the lock, stored, and in packages.luau.  `xluau install`  *)
(* repairs whatever interrupted commands left: every package the config     *)
(* needs, directly or not, is stored at the version in the lock.            *)
SuccessCanBuild ==
  pc = "ok" =>
    /\ \A p \in Required(config) : lock[p] # None /\ disk[p] # None /\ bundle[p] # None
    /\ command = "install all" => \A p \in Needed : lock[p] # None /\ disk[p] = lock[p]

(* Installing ends, also when dependencies are circular.                    *)
CommandsEnd == Running ~> ~Running

=============================================================================
